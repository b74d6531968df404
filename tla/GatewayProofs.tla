---------------------------- MODULE GatewayProofs ----------------------------
(***************************************************************************)
(* Reference counts are exact in the forwarding loop; the process around   *)
(* the loop implements Forwarding, uses DPDK's ports and memory only while *)
(* they are there, and subscribes what is asked of it: for every list of   *)
(* devices, environment, pool, ring capacity, burst size and traffic.      *)
(***************************************************************************)
EXTENDS Gateway, FiniteSetTheorems, TLAPS

\* What the counts need besides being exact: the loop holds nothing between
\* two bursts, and what is still to be classified is in the burst and not in
\* the ring, and no buffer is in the ring and with its consumer at once.
LoopInv ==
  /\ pc \in {"rx", "egress", "done"} => burst = {}
  /\ pc # "classify" => todo = {}
  /\ todo \subseteq burst
  /\ burst \cap (virtTx \cup phyTx) = {}
  /\ todo \cap (ring \cup strategy) = {}
  /\ ring \cap strategy = {}
IInv == TypeOK /\ Conserved /\ LoopInv

\* A buffer is in the pool exactly when nobody holds it.
LEMMA PoolIsUnheld ==
  ASSUME TypeOK, Conserved, NEW m \in Mbufs
  PROVE  refcnt[m] = 0 <=> m \notin burst \cup ring \cup virtTx \cup phyTx \cup strategy
BY DEF TypeOK, Conserved, Held

\* Giving up a reference that is held leaves a natural number.
LEMMA FreedType ==
  ASSUME TypeOK, NEW S \in SUBSET Mbufs, \A m \in S : refcnt[m] > 0
  PROVE  /\ Freed(S) \in [Mbufs -> Nat]
         /\ \A m \in Mbufs : Freed(S)[m] = IF m \in S THEN refcnt[m] - 1 ELSE refcnt[m]
BY DEF TypeOK, Freed

\* Every action keeps the invariant.
LEMMA IInvStep ==
  ASSUME IInv, [Next]_vars
  PROVE  IInv'
<1> USE DEF IInv
<1>1. ASSUME NEW S \in Bursts, RxPhy(S) \/ RxVirt(S) PROVE IInv'
  <2>1. S \subseteq Mbufs /\ S \cap (burst \cup ring \cup virtTx \cup phyTx \cup strategy) = {}
    BY PoolIsUnheld DEF Bursts, Pool
  <2>2. refcnt' \in [Mbufs -> Nat] /\ \A m \in Mbufs : refcnt'[m] = IF m \in S THEN 1 ELSE refcnt[m]
    BY <1>1 DEF RxPhy, RxVirt, Allocated, TypeOK
  <2>3. burst = {} /\ burst' = S /\ UNCHANGED <<ring, virtTx, phyTx, strategy>>
    BY <1>1 DEF RxPhy, RxVirt, LoopInv
  <2>4. Conserved'
    BY <2>1, <2>2, <2>3 DEF Conserved, Held, TypeOK
  <2>5. TypeOK' /\ LoopInv'
    BY <1>1, <2>1, <2>2, <2>3 DEF RxPhy, RxVirt, TypeOK, LoopInv
  <2> QED BY <2>4, <2>5
<1>2. ASSUME NEW m \in Mbufs, NEW p \in Packets, ClassifyPacket(m, p) PROVE IInv'
  <2>1. m \in burst /\ m \notin ring /\ m \notin strategy
    BY <1>2 DEF ClassifyPacket, LoopInv
  <2>2. CASE EnqueueHft(m)
    <3>1. CASE ring' = ring \cup {m} /\ refcnt' = [refcnt EXCEPT ![m] = @ + 1]
      <4>1. Conserved'
        BY <1>2, <2>1, <3>1 DEF ClassifyPacket, Conserved, Held, TypeOK
      <4>2. TypeOK' /\ LoopInv'
        BY <1>2, <2>1, <3>1 DEF ClassifyPacket, TypeOK, LoopInv
      <4> QED BY <4>1, <4>2
    <3>2. CASE UNCHANGED <<refcnt, ring>>
      BY <1>2, <3>2 DEF ClassifyPacket, Conserved, Held, TypeOK, LoopInv
    <3> QED BY <2>2, <3>1, <3>2 DEF EnqueueHft
  <2>3. CASE UNCHANGED <<refcnt, ring>>
    BY <1>2, <2>3 DEF ClassifyPacket, Conserved, Held, TypeOK, LoopInv
  <2> QED BY <1>2, <2>2, <2>3 DEF ClassifyPacket
<1>3. ASSUME NEW sent \in SUBSET Mbufs, TxVirt(sent) \/ TxPhy(sent) PROVE IInv'
  <2>1. /\ sent \subseteq burst /\ burst \subseteq Mbufs
        /\ burst \cap (virtTx \cup phyTx) = {}
        /\ refcnt' = Freed(burst \ sent) /\ burst' = {}
        /\ UNCHANGED <<ring, strategy, todo>>
        /\ \/ virtTx' = virtTx \cup sent /\ phyTx' = phyTx
           \/ phyTx' = phyTx \cup sent /\ virtTx' = virtTx
    BY <1>3 DEF TxVirt, TxPhy, TypeOK, LoopInv
  <2>2. \A m \in burst \ sent : refcnt[m] > 0
    BY <2>1, PoolIsUnheld DEF TypeOK
  <2>3. /\ refcnt' \in [Mbufs -> Nat]
        /\ \A m \in Mbufs : refcnt'[m] = IF m \in burst \ sent THEN refcnt[m] - 1 ELSE refcnt[m]
    BY <2>1, <2>2, FreedType
  <2>4. Conserved'
    <3> SUFFICES ASSUME NEW m \in Mbufs
                 PROVE  refcnt'[m] = Held(m, burst') + Held(m, ring) + Held(m, virtTx')
                                       + Held(m, phyTx') + Held(m, strategy)
      BY <2>1 DEF Conserved, Held
    <3>1. refcnt[m] = Held(m, burst) + Held(m, ring) + Held(m, virtTx)
                        + Held(m, phyTx) + Held(m, strategy)
      BY DEF Conserved
    <3>2. CASE m \in sent
      <4>1. refcnt'[m] = refcnt[m] /\ m \notin virtTx /\ m \notin phyTx /\ m \in burst
        BY <2>1, <2>3, <3>2
      <4> QED BY <2>1, <3>1, <3>2, <4>1 DEF Held
    <3>3. CASE m \in burst \ sent
      <4>1. refcnt'[m] = refcnt[m] - 1
        BY <2>3, <3>3
      <4> QED BY <2>1, <3>1, <3>3, <4>1 DEF Held
    <3>4. CASE m \notin burst
      <4>1. refcnt'[m] = refcnt[m] /\ m \notin sent
        BY <2>1, <2>3, <3>4
      <4> QED BY <2>1, <3>1, <3>4, <4>1 DEF Held
    <3> QED BY <2>1, <3>2, <3>3, <3>4
  <2>5. TypeOK' /\ LoopInv'
    BY <1>3, <2>1, <2>3 DEF TxVirt, TxPhy, TypeOK, LoopInv
  <2> QED BY <2>4, <2>5
<1>4. ASSUME NEW m \in Mbufs, VirtSent(m) \/ PhySent(m) \/ StrategyFrees(m) PROVE IInv'
  <2>1. refcnt[m] > 0 /\ refcnt' = Freed({m})
    BY <1>4, PoolIsUnheld DEF VirtSent, PhySent, StrategyFrees, TypeOK
  <2>2. /\ refcnt' \in [Mbufs -> Nat]
        /\ \A n \in Mbufs : refcnt'[n] = IF n = m THEN refcnt[n] - 1 ELSE refcnt[n]
    BY <2>1, FreedType
  <2>3. Conserved'
    BY <1>4, <2>2 DEF VirtSent, PhySent, StrategyFrees, Conserved, Held, TypeOK
  <2>4. TypeOK' /\ LoopInv'
    BY <1>4, <2>2 DEF VirtSent, PhySent, StrategyFrees, TypeOK, LoopInv
  <2> QED BY <2>3, <2>4
<1>8. CASE VirtStops \/ PhyStops
  <2> DEFINE Q == IF VirtStops THEN virtTx ELSE phyTx
  <2>1. Q \in SUBSET Mbufs /\ refcnt' = Freed(Q)
    BY <1>8 DEF VirtStops, PhyStops, TypeOK
  <2>2. \A m \in Q : refcnt[m] > 0
    BY PoolIsUnheld DEF TypeOK
  <2>3. /\ refcnt' \in [Mbufs -> Nat]
        /\ \A m \in Mbufs : refcnt'[m] = IF m \in Q THEN refcnt[m] - 1 ELSE refcnt[m]
    <3> HIDE DEF Q
    <3> QED BY <2>1, <2>2, FreedType
  <2>4. Conserved'
    BY <1>8, <2>3 DEF VirtStops, PhyStops, Conserved, Held, TypeOK
  <2>5. TypeOK' /\ LoopInv'
    BY <1>8, <2>3 DEF VirtStops, PhyStops, TypeOK, LoopInv
  <2> QED BY <2>4, <2>5
<1>5. ASSUME NEW m \in Mbufs, Dequeue(m) PROVE IInv'
  BY <1>5 DEF Dequeue, Conserved, Held, TypeOK, LoopInv
<1>6. CASE Quit
  BY <1>6 DEF Quit, Conserved, Held, TypeOK, LoopInv
<1>7. CASE UNCHANGED vars
  BY <1>7 DEF vars, Conserved, Held, TypeOK, LoopInv
<1> QED BY <1>1, <1>2, <1>3, <1>4, <1>5, <1>6, <1>7, <1>8 DEF Next, Loop, Drivers, Strategy

\* The reference count of every buffer is the number of places that hold it:
\* no use after free and no leak in lcore_forward_loop.
THEOREM MbufsConserved == Spec => []Conserved
<1>1. Init => IInv
  BY DEF Init, IInv, TypeOK, Conserved, Held, LoopInv
<1>2. IInv => Conserved
  BY DEF IInv
<1> QED BY <1>1, <1>2, IInvStep, PTL DEF Spec

-----------------------------------------------------------------------------
(* The process.                                                            *)

Probing == {"config", "eal", "memory", "mapping"}
Starting == Probing \cup {"configure", "setup", "failed", "crashed", "killed"}
Closing == {"close", "destroy", "exited"}
Stages == Starting \cup Closing \cup {"forward", "wait"}

PortStates == {"probed", "configured", "started", "closed"}
PortsType == ports \in [DOMAIN ports -> [driver : {"phy", "virt"}, state : PortStates]]

\* Where main() is says where the loop and the worker are.
StageInv ==
  /\ main \in Stages
  /\ main \in Starting => pc = "rx" /\ virtTx = {} /\ phyTx = {}
  /\ main \in {"wait"} \cup Closing => pc = "done"
  /\ main \in Closing => worker # "running"
  /\ handled \/ main \in {"config", "eal", "failed", "killed"}

\* The drivers found decide which ports are used: a physical one, and a
\* virtio port exactly if there is one.
MappingInv ==
  /\ main \in Stages \ (Probing \cup {"failed", "killed"}) =>
       \E i \in DOMAIN ports : Uses("phy", i)
  /\ HasVirt => main \in {"config", "eal", "failed", "killed"} \/ \E i \in DOMAIN ports : Uses("virt", i)
  /\ ~HasVirt => virtTx = {}

\* ... and how far the ports are.
PortsInv ==
  /\ \A i \in DOMAIN ports : ~Mapped(i) => ports[i].state = "probed"
  /\ main \in {"setup", "forward", "wait"} => AllPorts({"started"})
  /\ main = "close" => AllPorts({"started", "closed"})
  /\ main \in {"destroy", "exited"} => AllPorts({"closed"})

\* A closed port holds nothing.
QueueInv ==
  \A i \in DOMAIN ports : ports[i].state = "closed" =>
    (Uses("phy", i) => phyTx = {}) /\ (Uses("virt", i) => virtTx = {})

GwInv == IInv /\ PortsType /\ StageInv /\ MappingInv /\ PortsInv /\ QueueInv

-----------------------------------------------------------------------------
\* Every step of the process is a step of the forwarding loop, its drivers or
\* its consumer, or none of theirs.
LEMMA StepRefines ==
  ASSUME [GwNext]_allVars
  PROVE  [Next]_vars
<1>1. CASE UNCHANGED allVars
  BY <1>1 DEF allVars
<1>2. CASE MainStep
  <2>1. ASSUME NEW i \in DOMAIN ports, ConfigurePort(i) \/ StartPort(i) PROVE UNCHANGED vars
    BY <2>1 DEF ConfigurePort, StartPort
  <2>2. ASSUME NEW i \in DOMAIN ports, ClosePort(i) PROVE Next
    BY <2>2 DEF ClosePort, Next
  <2>3. ASSUME NEW c \in Conns, Subscribe(c) \/ Connect(c) \/ ConnectReturns(c) \/ Destroy(c) PROVE UNCHANGED vars
    BY <2>3 DEF Subscribe, Connect, ConnectReturns, Destroy
  <2>4. CASE ForwardStep \/ ForwardReturns
    BY <2>4 DEF ForwardStep, ForwardReturns, Next
  <2>5. CASE \/ LoadConfig \/ EalInit \/ CreateMemory \/ InitPortMapping \/ EnablePromiscuous
             \/ LaunchWorker \/ WaitForWorker \/ Cleanup \/ Exit
    BY <2>5 DEF LoadConfig, EalInit, CreateMemory, InitPortMapping, EnablePromiscuous,
                LaunchWorker, WaitForWorker, Cleanup, Exit
  <2> QED BY <1>2, <2>1, <2>2, <2>3, <2>4, <2>5 DEF MainStep, PortStep, ConnStep
<1>3. CASE WorkerEnds \/ Signal \/ \E c \in Conns : KernelGivesUp(c)
  BY <1>3 DEF WorkerEnds, Signal, KernelGivesUp
<1>4. CASE DriverStep \/ StrategyStep
  BY <1>4 DEF DriverStep, StrategyStep, Next
<1> QED BY <1>1, <1>2, <1>3, <1>4 DEF GwNext

\* The steps of the process are steps of the forwarding loop or leave its state
\* alone, so that what holds of the loop holds of the process.
LEMMA GatewayForwards == GwSpec => Spec
<1>1. GwInit => Init
  BY DEF GwInit
<1> QED BY <1>1, StepRefines, PTL DEF GwSpec, Spec

\* Reference counts stay exact from the start of the process to its end,
\* close_ports() included.
THEOREM GatewayConserves == GwSpec => []Conserved
BY GatewayForwards, MbufsConserved, PTL

-----------------------------------------------------------------------------
\* Which ports are used depends on the drivers alone.
SamePorts ==
  /\ DOMAIN ports' = DOMAIN ports
  /\ \A j \in DOMAIN ports : ports'[j].driver = ports[j].driver

LEMMA UsesStable ==
  ASSUME SamePorts, NEW i
  PROVE  /\ Uses("phy", i)' <=> Uses("phy", i)
         /\ Uses("virt", i)' <=> Uses("virt", i)
         /\ Mapped(i)' <=> Mapped(i)
BY DEF SamePorts, Uses, LastOf, Mapped

LEMMA PortChanges ==
  ASSUME PortsType, NEW i \in DOMAIN ports, NEW s \in PortStates, PortGets(i, s)
  PROVE  /\ SamePorts /\ PortsType'
         /\ \A j \in DOMAIN ports : ports'[j].state = IF j = i THEN s ELSE ports[j].state
BY DEF PortsType, PortGets, SamePorts

\* Steps that leave the ports and the buffers alone.
LEMMA QuietStep ==
  ASSUME GwInv, UNCHANGED <<vars, ports>>,
         StageInv', MappingInv',
         main' \in {"setup", "forward", "wait"} => AllPorts({"started"}),
         main' = "close" => AllPorts({"started", "closed"}),
         main' \in {"destroy", "exited"} => AllPorts({"closed"})
  PROVE  GwInv'
<1>1. SamePorts
  BY DEF SamePorts
<1>2. IInv'
  BY IInvStep DEF GwInv
<1>3. PortsType'
  BY DEF GwInv, PortsType
<1>4. PortsInv' /\ QueueInv'
  BY <1>1, UsesStable DEF GwInv, PortsInv, QueueInv, AllPorts, vars
<1> QED BY <1>2, <1>3, <1>4 DEF GwInv

LEMMA GwInvStep ==
  ASSUME GwInv, [GwNext]_allVars
  PROVE  GwInv'
<1> USE DEF GoesOn, Fails
<1>1. ASSUME NEW c \in Conns,
             Subscribe(c) \/ Connect(c) \/ ConnectReturns(c) \/ Destroy(c) \/ KernelGivesUp(c)
      PROVE  GwInv'
  <2>1. /\ UNCHANGED <<vars, ports, worker, handled>>
        /\ main' = main \/ (main = "setup" /\ main' = "crashed")
    BY <1>1 DEF Subscribe, Connect, ConnectReturns, Destroy, KernelGivesUp
  <2>2. StageInv' /\ MappingInv'
    BY <2>1, UsesStable DEF GwInv, StageInv, MappingInv, vars, Stages, Starting, Probing, Closing, SamePorts
  <2> QED BY <2>1, <2>2, QuietStep DEF GwInv, PortsInv
<1>2. CASE LoadConfig \/ CreateMemory \/ InitPortMapping \/ EnablePromiscuous \/ LaunchWorker
  <2>1. /\ UNCHANGED <<vars, ports, handled>>
        /\ \/ /\ UNCHANGED worker
              /\ \/ main \in Starting /\ main' = "failed"
                 \/ main = "config" /\ main' = "eal"
                 \/ main = "memory" /\ main' = "mapping"
                 \/ /\ main = "mapping" /\ main' = "configure"
                    /\ \E i \in DOMAIN ports : Uses("phy", i)
                 \/ main = "configure" /\ main' = "setup" /\ AllPorts({"started"})
           \/ main = "setup" /\ main' = "forward"
    BY <1>2 DEF LoadConfig, CreateMemory, InitPortMapping, EnablePromiscuous, LaunchWorker,
                Starting, Probing
  <2>2. StageInv' /\ MappingInv'
    BY <2>1, UsesStable DEF GwInv, StageInv, MappingInv, vars, Stages, Starting, Probing, Closing, SamePorts
  <2> QED BY <2>1, <2>2, QuietStep DEF GwInv, PortsInv, Starting, Probing
<1>3. CASE WaitForWorker \/ Cleanup \/ Exit
  <2>1. /\ UNCHANGED <<vars, ports, worker, handled>>
        /\ \/ main = "wait" /\ main' = "close" /\ worker # "running"
           \/ main = "close" /\ main' = "destroy" /\ AllPorts({"closed"})
           \/ main = "destroy" /\ main' = "exited"
    BY <1>3 DEF WaitForWorker, Cleanup, Exit
  <2>2. StageInv' /\ MappingInv'
    BY <2>1, UsesStable DEF GwInv, StageInv, MappingInv, vars, Stages, Starting, Probing, Closing, SamePorts
  <2> QED BY <2>1, <2>2, QuietStep DEF GwInv, PortsInv, AllPorts
<1>4. CASE WorkerEnds \/ Signal
  <2>1. /\ UNCHANGED <<vars, ports, handled>>
        /\ worker' = worker \/ worker' # "running"
        /\ main' = main \/ (~handled /\ main' = "killed")
    BY <1>4 DEF WorkerEnds, Signal
  <2>2. StageInv' /\ MappingInv'
    BY <2>1, UsesStable DEF GwInv, StageInv, MappingInv, vars, Stages, Starting, Probing, Closing, SamePorts
  <2> QED BY <2>1, <2>2, QuietStep DEF GwInv, PortsInv
<1>5. CASE EalInit
  <2>1. CASE main' = "failed"
    <3>1. UNCHANGED <<vars, ports, worker, handled>> /\ main \in Starting
      BY <1>5, <2>1 DEF EalInit, Starting, Probing
    <3>2. StageInv' /\ MappingInv'
      BY <2>1, <3>1 DEF GwInv, StageInv, MappingInv, vars, Stages, Starting, Probing, Closing
    <3> QED BY <2>1, <3>1, <3>2, QuietStep
  <2>2. CASE main' # "failed"
    <3>1. PICK d \in DeviceLists : ports' = [i \in DOMAIN d |-> [driver |-> d[i], state |-> "probed"]]
      BY <1>5, <2>2 DEF EalInit
    <3>2. main = "eal" /\ main' = "memory" /\ handled' /\ UNCHANGED <<vars, worker>>
      BY <1>5, <2>2 DEF EalInit
    <3>3. d \in [DOMAIN d -> {"phy", "virt"}]
      BY GatewayAssumption
    <3>4. PortsType' /\ \A i \in DOMAIN ports' : ports'[i].state = "probed" /\ ports'[i].driver = d[i]
      BY <3>1, <3>3 DEF PortsType, PortStates
    <3>5. HasVirt => \E i \in DOMAIN ports' : Uses("virt", i)'
      BY <3>1, <3>4, GatewayAssumption DEF Uses, LastOf
    <3>6. StageInv' /\ MappingInv' /\ PortsInv' /\ QueueInv'
      BY <3>2, <3>4, <3>5 DEF GwInv, StageInv, MappingInv, PortsInv, QueueInv, AllPorts, vars,
                              Stages, Starting, Probing, Closing
    <3>7. IInv'
      BY <3>2, IInvStep DEF GwInv
    <3> QED BY <3>4, <3>6, <3>7 DEF GwInv
  <2> QED BY <2>1, <2>2
<1>6. ASSUME NEW i \in DOMAIN ports, ConfigurePort(i) \/ StartPort(i) PROVE GwInv'
  <2>1. CASE main' = "failed"
    <3>1. UNCHANGED <<vars, ports, worker, handled>> /\ main = "configure"
      BY <1>6, <2>1 DEF ConfigurePort, StartPort
    <3>2. StageInv' /\ MappingInv'
      BY <2>1, <3>1, UsesStable DEF GwInv, StageInv, MappingInv, vars, Stages, Starting, Probing, Closing
    <3> QED BY <2>1, <3>1, <3>2, QuietStep
  <2>2. CASE main' # "failed"
    <3>1. PICK s \in {"configured", "started"} : PortGets(i, s)
      BY <1>6, <2>2 DEF ConfigurePort, StartPort
    <3>2. main = "configure" /\ main' = main /\ Mapped(i) /\ UNCHANGED <<vars, worker, handled>>
      BY <1>6, <2>2 DEF ConfigurePort, StartPort
    <3>3. /\ SamePorts /\ PortsType'
          /\ \A j \in DOMAIN ports : ports'[j].state = IF j = i THEN s ELSE ports[j].state
      BY <3>1, PortChanges DEF GwInv, PortStates
    <3>4. StageInv' /\ MappingInv'
      BY <3>2, <3>3, UsesStable DEF GwInv, StageInv, MappingInv, vars, SamePorts,
                                    Stages, Starting, Probing, Closing
    <3>5. PortsInv' /\ QueueInv'
      BY <3>2, <3>3, UsesStable DEF GwInv, PortsInv, QueueInv, AllPorts, vars, SamePorts
    <3>6. IInv'
      BY <3>2, IInvStep DEF GwInv
    <3> QED BY <3>3, <3>4, <3>5, <3>6 DEF GwInv
  <2> QED BY <2>1, <2>2
<1>7. ASSUME NEW i \in DOMAIN ports, ClosePort(i) PROVE GwInv'
  <2>1. /\ main = "close" /\ main' = main /\ Mapped(i) /\ PortGets(i, "closed")
        /\ UNCHANGED <<worker, handled, pc>>
        /\ IF Uses("phy", i) THEN phyTx' = {} /\ virtTx' = virtTx ELSE virtTx' = {} /\ phyTx' = phyTx
    BY <1>7 DEF ClosePort, PhyStops, VirtStops
  <2>2. /\ SamePorts /\ PortsType'
        /\ \A j \in DOMAIN ports : ports'[j].state = IF j = i THEN "closed" ELSE ports[j].state
    BY <2>1, PortChanges DEF GwInv, PortStates
  <2>3. ~(Uses("phy", i) /\ Uses("virt", i))
    BY DEF Uses, LastOf
  <2>4. StageInv' /\ MappingInv'
    BY <2>1, <2>2, UsesStable DEF GwInv, StageInv, MappingInv, SamePorts,
                                  Stages, Starting, Probing, Closing
  <2>5. PortsInv'
    BY <2>1, <2>2, UsesStable DEF GwInv, PortsInv, AllPorts, SamePorts
  <2>6. QueueInv'
    BY <2>1, <2>2, <2>3, UsesStable DEF GwInv, QueueInv, Mapped, SamePorts
  <2>7. IInv'
    BY StepRefines, IInvStep DEF GwInv
  <2> QED BY <2>2, <2>4, <2>5, <2>6, <2>7 DEF GwInv
<1>8. CASE ForwardStep \/ ForwardReturns \/ DriverStep \/ StrategyStep
  <2>1. /\ UNCHANGED <<ports, worker, handled>>
        /\ \/ main = "forward" /\ main' = main
           \/ main = "forward" /\ main' = "wait" /\ pc' = "done" /\ UNCHANGED <<virtTx, phyTx>>
           \/ main' = main /\ pc' = pc /\ virtTx' \subseteq virtTx /\ phyTx' \subseteq phyTx
    BY <1>8 DEF ForwardStep, ForwardReturns, Quit, DriverStep, StrategyStep, Drivers, Strategy, mainVars,
                VirtSent, PhySent, Dequeue, StrategyFrees
  <2>2. ~HasVirt => virtTx' \subseteq virtTx
    BY <1>8 DEF ForwardStep, ForwardReturns, Quit, DriverStep, StrategyStep, Drivers, Strategy,
                VirtSent, PhySent, Dequeue, StrategyFrees, Loop, RxPhy, RxVirt, ClassifyPacket, TxVirt, TxPhy
  <2>3. SamePorts
    BY <2>1 DEF SamePorts
  <2>4. PortsType' /\ StageInv' /\ MappingInv'
    BY <2>1, <2>2, <2>3, UsesStable DEF GwInv, PortsType, StageInv, MappingInv,
                                        Stages, Starting, Probing, Closing
  <2>5. PortsInv'
    BY <2>1, <2>3, UsesStable DEF GwInv, PortsInv, AllPorts
  <2>6. QueueInv'
    BY <2>1, <2>3, UsesStable DEF GwInv, PortsInv, QueueInv, AllPorts, Mapped
  <2>7. IInv'
    BY StepRefines, IInvStep DEF GwInv
  <2> QED BY <2>4, <2>5, <2>6, <2>7 DEF GwInv
<1>9. CASE UNCHANGED allVars
  <2>1. UNCHANGED <<vars, ports, main, worker, handled>>
    BY <1>9 DEF allVars, mainVars
  <2>2. StageInv' /\ MappingInv'
    BY <2>1, UsesStable DEF GwInv, StageInv, MappingInv, vars, SamePorts
  <2> QED BY <2>1, <2>2, QuietStep DEF GwInv, PortsInv
<1> QED
  BY <1>1, <1>2, <1>3, <1>4, <1>5, <1>6, <1>7, <1>8, <1>9
  DEF GwNext, MainStep, PortStep, ConnStep

LEMMA GwInvHolds == GwSpec => []GwInv
<1>1. GwInit => GwInv
  BY DEF GwInit, Init, GwInv, IInv, TypeOK, Conserved, Held, LoopInv, PortsType, PortStates, StageInv,
         MappingInv, PortsInv, QueueInv, AllPorts, Stages, Starting, Probing, Closing
<1> QED BY <1>1, GwInvStep, PTL DEF GwSpec

\* rte_eal_cleanup() finds the loop and the worker ended, the ports closed
\* and no buffer in their hands, however the start and the shutdown went.
THEOREM CleanupIsQuiet == GwSpec => []QuietAtCleanup
<1>1. GwInv => QuietAtCleanup
  BY DEF GwInv, IInv, LoopInv, PortsType, StageInv, MappingInv, PortsInv, QueueInv, QuietAtCleanup, AllPorts,
         Mapped, Stages, Starting, Probing, Closing
<1> QED BY <1>1, GwInvHolds, PTL

\* The loop runs on started ports only, and close_ports() leaves no buffer
\* behind in a port.
THEOREM PortsAreOpen == GwSpec => []PortsOpenWhileUsed
<1>1. GwInv => PortsOpenWhileUsed
  BY DEF GwInv, PortsType, PortStates, StageInv, PortsInv, QueueInv, PortsOpenWhileUsed, AllPorts,
         Mapped, Stages, Starting, Probing, Closing
<1> QED BY <1>1, GwInvHolds, PTL

-----------------------------------------------------------------------------
\* What the stages say nothing about: the flags, the worker, the connections.
ThreadsType ==
  /\ forceQuit \in BOOLEAN /\ handled \in BOOLEAN
  /\ worker \in {"none", "running", "ended"}
  /\ conn \in [Conns -> {"new", "subscribed", "connecting", "running", "handshake", "gone"}]

LEMMA ThreadsTypeStep ==
  ASSUME ThreadsType, [GwNext]_allVars
  PROVE  ThreadsType'
<1> USE DEF ThreadsType
<1>1. ASSUME NEW i \in DOMAIN ports, ConfigurePort(i) \/ StartPort(i) \/ ClosePort(i)
      PROVE ThreadsType'
  BY <1>1 DEF ConfigurePort, StartPort, ClosePort
<1>2. ASSUME NEW c \in Conns, Subscribe(c) PROVE ThreadsType'
  BY <1>2 DEF Subscribe
<1>3. ASSUME NEW c \in Conns, Connect(c) \/ ConnectReturns(c) \/ Destroy(c) \/ KernelGivesUp(c) PROVE ThreadsType'
  BY <1>3 DEF Connect, ConnectReturns, Destroy, KernelGivesUp
<1>4. CASE \/ LoadConfig \/ EalInit \/ CreateMemory \/ InitPortMapping \/ EnablePromiscuous
           \/ LaunchWorker \/ WaitForWorker \/ Cleanup \/ Exit \/ WorkerEnds \/ Signal
  BY <1>4 DEF LoadConfig, EalInit, CreateMemory, InitPortMapping, EnablePromiscuous,
              LaunchWorker, WaitForWorker, Cleanup, Exit, WorkerEnds, Signal
<1>5. CASE ForwardStep \/ ForwardReturns \/ DriverStep \/ StrategyStep \/ UNCHANGED allVars
  BY <1>5 DEF ForwardStep, ForwardReturns, DriverStep, StrategyStep, mainVars, allVars
<1> QED
  BY <1>1, <1>2, <1>3, <1>4, <1>5 DEF GwNext, MainStep, PortStep, ConnStep

\* Type correctness of the process and of the forwarding loop in it.
THEOREM GatewayTypeCorrect == GwSpec => []GwTypeOK
<1>1. GwInit => ThreadsType
  BY DEF GwInit, ThreadsType
<1>2. GwInv /\ ThreadsType => GwTypeOK
  BY DEF GwInv, IInv, StageInv, PortsType, PortStates, ThreadsType, GwTypeOK,
         Ended, Stages, Starting, Probing, Closing
<1> QED BY <1>1, <1>2, GwInvHolds, ThreadsTypeStep, PTL DEF GwSpec

-----------------------------------------------------------------------------
(* The symbols.                                                            *)

\* Every token is stored at an index below the count, and without empty fields
\* every index below the count has one.
LEMMA TokensFit ==
  ASSUME NEW l, l.fields \in Seq(ToSet(l.fields))
  PROVE  /\ Stored(l) = ToSet(l.fields) \ {Empty}
         /\ Empty \notin ToSet(l.fields) => ~NeverStored(l)
<1> DEFINE f == l.fields
           n == Len(l.fields)
<1>1. n \in Nat /\ DOMAIN f = 1..n /\ ToSet(f) = {f[i] : i \in 1..n}
  BY DEF ToSet
<1>2. IsFiniteSet(1..n) /\ Cardinality(1..n) = n
  BY <1>1, FS_Interval
<1>3. Tokens(l) = {i \in 1..n : f[i] # Empty}
  BY <1>1 DEF Tokens
<1>4. ASSUME NEW i \in Tokens(l) PROVE Index(l, i) < SymbolCount(l)
  <2>1. i \in 1..n /\ f[i] # Empty
    BY <1>3
  <2>2. SymbolCount(l) = n
    <3>1. f # <<Empty>>
      <4> SUFFICES ASSUME f = <<Empty>> PROVE FALSE
        OBVIOUS
      <4>1. n = 1 /\ f[1] = Empty
        OBVIOUS
      <4> QED BY <2>1, <4>1
    <3> QED BY <3>1 DEF SymbolCount
  <2>3. {j \in Tokens(l) : j < i} \in SUBSET (1..(i - 1))
    BY <1>1, <1>3, <2>1
  <2>4. i - 1 \in Nat /\ IsFiniteSet(1..(i - 1)) /\ Cardinality(1..(i - 1)) = i - 1
    <3>1. i - 1 \in Nat /\ i - 1 \in Int /\ 1 \in Int
      BY <1>1, <2>1
    <3>2. /\ IsFiniteSet(1..(i - 1))
          /\ Cardinality(1..(i - 1)) = IF 1 > i - 1 THEN 0 ELSE (i - 1) - 1 + 1
      BY <3>1, FS_Interval
    <3> QED BY <3>1, <3>2
  <2>5. Index(l, i) <= i - 1 /\ Index(l, i) \in Nat
    <3>1. /\ IsFiniteSet({j \in Tokens(l) : j < i})
          /\ Cardinality({j \in Tokens(l) : j < i}) <= i - 1
      BY <2>3, <2>4, FS_Subset
    <3> QED BY <3>1, FS_CardinalityType DEF Index
  <2> QED BY <1>1, <2>1, <2>2, <2>4, <2>5
<1>5. Stored(l) = {f[i] : i \in Tokens(l)}
  BY <1>4 DEF Stored
<1>6. Stored(l) = ToSet(f) \ {Empty}
  BY <1>1, <1>3, <1>5
<1>7. ASSUME Empty \notin ToSet(f) PROVE ~NeverStored(l)
  <2>1. Tokens(l) = 1..n
    BY <1>1, <1>3, <1>7
  <2>2. SymbolCount(l) <= n
    BY <1>1 DEF SymbolCount
  <2>3. SymbolCount(l) \in Nat
    BY <1>1 DEF SymbolCount
  <2> QED BY <1>1, <1>2, <2>1, <2>2, <2>3 DEF NeverStored
<1> QED BY <1>6, <1>7

\* Only main() subscribes, each connection once, from an environment that
\* does not change.
SymbolsInv ==
  /\ env \in Environments
  /\ subs = [c \in Conns |-> subs[c]]
  /\ SymbolsSubscribed

LEMMA SymbolsStep ==
  ASSUME ThreadsType, SymbolsInv, [GwNext]_allVars
  PROVE  SymbolsInv'
<1>1. ASSUME NEW c \in Conns, Subscribe(c) PROVE SymbolsInv'
  <2> DEFINE l == env.lists[c]
  <2>1. l.set \in BOOLEAN /\ l.fields \in Seq(ToSet(l.fields))
    BY GatewayAssumption DEF SymbolsInv
  <2>2. Stored(l) = ToSet(l.fields) \ {Empty} /\ (Empty \notin ToSet(l.fields) => ~NeverStored(l))
    BY <2>1, TokensFit
  <2>3. env' = env
    BY <1>1 DEF Subscribe
  <2>4. CASE UNCHANGED <<subs, conn>>
    BY <2>3, <2>4 DEF SymbolsInv, SymbolsSubscribed, Listed
  <2>5. ASSUME NEW s, subs' = [subs EXCEPT ![c] = s], conn' = [conn EXCEPT ![c] = "subscribed"],
               Listed(c) \subseteq s, Empty \notin ToSet(l.fields) => s = Listed(c)
        PROVE  SymbolsInv'
    <3>1. subs'[c] = s /\ \A d \in Conns \ {c} : subs'[d] = subs[d] /\ conn'[d] = conn[d]
      BY <2>5 DEF SymbolsInv, ThreadsType
    <3>2. subs' = [d \in Conns |-> subs'[d]]
      BY <2>5 DEF SymbolsInv
    <3>3. \A d \in Conns : Listed(d)' = Listed(d)
      BY <2>3 DEF Listed
    <3> QED BY <2>3, <2>5, <3>1, <3>2, <3>3 DEF SymbolsInv, SymbolsSubscribed
  <2>6. CASE /\ ~l.set
             /\ subs' = [subs EXCEPT ![c] = Defaults[c]] /\ conn' = [conn EXCEPT ![c] = "subscribed"]
    BY <2>5, <2>6 DEF Listed
  <2>7. CASE /\ l.set
             /\ subs' = [subs EXCEPT ![c] = Stored(l)] /\ conn' = [conn EXCEPT ![c] = "subscribed"]
    BY <2>2, <2>5, <2>7 DEF Listed
  <2>8. CASE /\ l.set /\ NeverStored(l)
             /\ subs' = [subs EXCEPT ![c] = Stored(l) \cup {Garbage}]
             /\ conn' = [conn EXCEPT ![c] = "subscribed"]
    BY <2>2, <2>5, <2>8 DEF Listed
  <2> QED BY <1>1, <2>4, <2>6, <2>7, <2>8 DEF Subscribe
<1>2. ASSUME UNCHANGED <<env, subs>>, \A c \in Conns : conn[c] = "new" => conn'[c] = "new"
      PROVE  SymbolsInv'
  BY <1>2 DEF SymbolsInv, SymbolsSubscribed, Listed
<1>3. ASSUME NEW c \in Conns, Connect(c) \/ ConnectReturns(c) \/ Destroy(c) \/ KernelGivesUp(c)
      PROVE  SymbolsInv'
  <2>1. UNCHANGED <<env, subs>> /\ conn[c] # "new" /\ \E s : conn' = [conn EXCEPT ![c] = s]
    BY <1>3 DEF Connect, ConnectReturns, Destroy, KernelGivesUp
  <2> QED BY <1>2, <2>1 DEF ThreadsType
<1>4. ASSUME NEW i \in DOMAIN ports, ConfigurePort(i) \/ StartPort(i) \/ ClosePort(i)
      PROVE  UNCHANGED <<env, subs, conn>>
  BY <1>4 DEF ConfigurePort, StartPort, ClosePort
<1>5. ASSUME \/ LoadConfig \/ EalInit \/ CreateMemory \/ InitPortMapping \/ EnablePromiscuous
             \/ LaunchWorker \/ WaitForWorker \/ Cleanup \/ Exit \/ WorkerEnds \/ Signal
             \/ ForwardStep \/ ForwardReturns \/ DriverStep \/ StrategyStep \/ UNCHANGED allVars
      PROVE  UNCHANGED <<env, subs, conn>>
  BY <1>5 DEF LoadConfig, EalInit, CreateMemory, InitPortMapping, EnablePromiscuous,
              LaunchWorker, WaitForWorker, Cleanup, Exit, WorkerEnds, Signal,
              ForwardStep, ForwardReturns, DriverStep, StrategyStep, mainVars, allVars
<1> QED
  BY <1>1, <1>2, <1>3, <1>4, <1>5 DEF GwNext, MainStep, PortStep, ConnStep

\* main() subscribes to every symbol of a connection's list before it opens
\* the connection, however many there are and wherever parse_csv_symbols()
\* meets an empty field, and to nothing else when there is no such field.
THEOREM AllSymbolsSubscribed == GwSpec => []SymbolsSubscribed
<1>1. GwInit => ThreadsType /\ SymbolsInv
  BY DEF GwInit, ThreadsType, SymbolsInv, SymbolsSubscribed
<1>2. (ThreadsType /\ SymbolsInv) /\ [GwNext]_allVars => (ThreadsType /\ SymbolsInv)'
  BY ThreadsTypeStep, SymbolsStep
<1>3. SymbolsInv => SymbolsSubscribed
  BY DEF SymbolsInv
<1> QED BY <1>1, <1>2, <1>3, PTL DEF GwSpec
=============================================================================
