----------------------------- MODULE Forwarding -----------------------------
(***************************************************************************)
(* The forwarding loop between the physical port and the kernel's virtio   *)
(* port (core/forwarding.cpp, lcore_forward_loop) and the classifier it    *)
(* asks about every packet (modules/classifier/classifier.cpp).            *)
(*                                                                         *)
(* What matters here is who holds a packet buffer (mbuf).  A buffer is in  *)
(* the pool when its reference count is zero.  HFT traffic is held twice:  *)
(* by the ring towards the strategy and by the burst towards the kernel.   *)
(* A burst is a set: the array's order is arbitrary, so the buffers a port *)
(* accepts, a prefix of the array, may be any of them.                     *)
(***************************************************************************)
EXTENDS Naturals, FiniteSets

CONSTANTS
  Mbufs,        \* the buffers of mbuf_pool
  RingCap,      \* how many buffers hft_ring holds (RING_SIZE - 1)
  Burst,        \* BURST_SIZE
  HasVirt,      \* a virtio port was found
  MaxHeld,      \* how many buffers the consumer of hft_ring works on at once;
                \* there is no consumer in this release
  Packets       \* the headers that may arrive

ASSUME ForwardingAssumption ==
  /\ RingCap \in Nat
  /\ Burst \in Nat \ {0}
  /\ HasVirt \in BOOLEAN
  /\ MaxHeld \in Nat

VARIABLES
  refcnt,    \* the reference count of each buffer
  pc,        \* where the loop is
  burst,     \* pkts_burst, then kernel_tx_burst (or the burst of egress)
  todo,      \* the part of the burst not classified yet
  ring,      \* buffers in hft_ring
  virtTx,    \* buffers the virtio port has accepted for sending
  phyTx,     \* buffers the physical port has accepted for sending
  strategy   \* buffers a consumer of hft_ring has dequeued

vars == <<refcnt, pc, burst, todo, ring, virtTx, phyTx, strategy>>

(* HftClassifier::classify: TCP from or to one of the exchanges' ports.    *)
HftPorts == {8443, 443}
Classify(p) ==
  IF p.ether = "ipv4" /\ p.proto = "tcp" /\ (p.sport \in HftPorts \/ p.dport \in HftPorts)
  THEN "hft" ELSE "standard"

Pool == {m \in Mbufs : refcnt[m] = 0}

\* rte_pktmbuf_free of every buffer of S.
Freed(S) == [m \in Mbufs |-> IF m \in S THEN refcnt[m] - 1 ELSE refcnt[m]]
Allocated(S) == [m \in Mbufs |-> IF m \in S THEN 1 ELSE refcnt[m]]

-----------------------------------------------------------------------------
\* rte_eth_rx_burst on the physical port; the driver fills buffers of the
\* pool.  The loop ends when force_quit is set.
RxPhy(S) ==
  /\ pc = "rx"
  /\ refcnt' = Allocated(S)
  /\ burst' = S
  /\ todo' = S
  /\ pc' = IF S = {} THEN "egress" ELSE "classify"
  /\ UNCHANGED <<ring, virtTx, phyTx, strategy>>
Quit ==
  /\ pc = "rx"
  /\ pc' = "done"
  /\ UNCHANGED <<refcnt, burst, todo, ring, virtTx, phyTx, strategy>>

\* Fast path: take a reference and enqueue; on a full ring free it again.
\* Mutant: the reference taken for a full ring is not given back.
EnqueueHft_Leaks(m) ==
  /\ refcnt' = [refcnt EXCEPT ![m] = @ + 1]
  /\ \/ Cardinality(ring) < RingCap /\ ring' = ring \cup {m}
     \/ Cardinality(ring) >= RingCap /\ UNCHANGED ring
EnqueueHft(m) ==
  \/ /\ Cardinality(ring) < RingCap
     /\ refcnt' = [refcnt EXCEPT ![m] = @ + 1]
     /\ ring' = ring \cup {m}
  \/ /\ Cardinality(ring) >= RingCap
     /\ UNCHANGED <<refcnt, ring>>
\* Every packet stays in the burst towards the kernel.
ClassifyPacket(m, p) ==
  /\ pc = "classify"
  /\ m \in todo
  /\ todo' = todo \ {m}
  /\ \/ Classify(p) = "hft" /\ EnqueueHft(m)
     \/ Classify(p) = "standard" /\ UNCHANGED <<refcnt, ring>>
  /\ pc' = IF todo' = {} THEN "txvirt" ELSE "classify"
  /\ UNCHANGED <<burst, virtTx, phyTx, strategy>>

\* rte_eth_tx_burst to the kernel; what is not accepted is freed, and all of
\* it when there is no virtio port.
\* Mutant: the buffers the port did not accept are forgotten.
TxVirt_NoFree(sent) ==
  /\ pc = "txvirt"
  /\ sent \subseteq burst
  /\ sent = {} \/ HasVirt
  /\ virtTx' = virtTx \cup sent
  /\ burst' = {}
  /\ pc' = "egress"
  /\ UNCHANGED <<refcnt, todo, ring, phyTx, strategy>>
TxVirt(sent) ==
  /\ pc = "txvirt"
  /\ sent \subseteq burst
  /\ sent = {} \/ HasVirt
  /\ virtTx' = virtTx \cup sent
  /\ refcnt' = Freed(burst \ sent)
  /\ burst' = {}
  /\ pc' = "egress"
  /\ UNCHANGED <<todo, ring, phyTx, strategy>>

\* Egress: from the kernel's port to the physical port.
RxVirt(S) ==
  /\ pc = "egress"
  /\ S = {} \/ HasVirt
  /\ refcnt' = Allocated(S)
  /\ burst' = S
  /\ pc' = IF S = {} THEN "rx" ELSE "txphy"
  /\ UNCHANGED <<todo, ring, virtTx, phyTx, strategy>>
\* Mutant: the buffers the port accepted are freed as well.
TxPhy_FreesAll(sent) ==
  /\ pc = "txphy"
  /\ sent \subseteq burst
  /\ phyTx' = phyTx \cup sent
  /\ refcnt' = Freed(burst)
  /\ burst' = {}
  /\ pc' = "rx"
  /\ UNCHANGED <<todo, ring, virtTx, strategy>>
TxPhy(sent) ==
  /\ pc = "txphy"
  /\ sent \subseteq burst
  /\ phyTx' = phyTx \cup sent
  /\ refcnt' = Freed(burst \ sent)
  /\ burst' = {}
  /\ pc' = "rx"
  /\ UNCHANGED <<todo, ring, virtTx, strategy>>

(* The drivers free a buffer once it has been sent.                        *)
VirtSent(m) ==
  /\ m \in virtTx
  /\ virtTx' = virtTx \ {m}
  /\ refcnt' = Freed({m})
  /\ UNCHANGED <<pc, burst, todo, ring, phyTx, strategy>>
PhySent(m) ==
  /\ m \in phyTx
  /\ phyTx' = phyTx \ {m}
  /\ refcnt' = Freed({m})
  /\ UNCHANGED <<pc, burst, todo, ring, virtTx, strategy>>

(* A port that is stopped gives back the buffers it has not sent.          *)
VirtStops ==
  /\ virtTx' = {}
  /\ refcnt' = Freed(virtTx)
  /\ UNCHANGED <<pc, burst, todo, ring, phyTx, strategy>>
PhyStops ==
  /\ phyTx' = {}
  /\ refcnt' = Freed(phyTx)
  /\ UNCHANGED <<pc, burst, todo, ring, virtTx, strategy>>

(* The consumer of hft_ring on another core.                               *)
Dequeue(m) ==
  /\ m \in ring
  /\ Cardinality(strategy) < MaxHeld
  /\ ring' = ring \ {m}
  /\ strategy' = strategy \cup {m}
  /\ UNCHANGED <<refcnt, pc, burst, todo, virtTx, phyTx>>
StrategyFrees(m) ==
  /\ m \in strategy
  /\ strategy' = strategy \ {m}
  /\ refcnt' = Freed({m})
  /\ UNCHANGED <<pc, burst, todo, ring, virtTx, phyTx>>

-----------------------------------------------------------------------------
Init ==
  /\ refcnt = [m \in Mbufs |-> 0]
  /\ pc = "rx"
  /\ burst = {}
  /\ todo = {}
  /\ ring = {}
  /\ virtTx = {}
  /\ phyTx = {}
  /\ strategy = {}

Bursts == {S \in SUBSET Pool : Cardinality(S) <= Burst}
Loop ==
  \/ \E S \in Bursts : RxPhy(S) \/ RxVirt(S)
  \/ \E m \in Mbufs, p \in Packets : ClassifyPacket(m, p)
  \/ \E sent \in SUBSET Mbufs : TxVirt(sent) \/ TxPhy(sent)
Drivers == \E m \in Mbufs : VirtSent(m) \/ PhySent(m)
Strategy == \E m \in Mbufs : Dequeue(m) \/ StrategyFrees(m)

Next == Loop \/ Quit \/ Drivers \/ VirtStops \/ PhyStops \/ Strategy
Spec == Init /\ [][Next]_vars

\* The loop runs until it is told to quit; a port sends what it has accepted.
FairSpec ==
  /\ Spec
  /\ WF_vars(Loop)
  /\ \A m \in Mbufs : WF_vars(VirtSent(m)) /\ WF_vars(PhySent(m))

-----------------------------------------------------------------------------
TypeOK ==
  /\ refcnt \in [Mbufs -> Nat]
  /\ pc \in {"rx", "classify", "txvirt", "egress", "txphy", "done"}
  /\ burst \subseteq Mbufs
  /\ todo \subseteq Mbufs
  /\ ring \subseteq Mbufs
  /\ virtTx \subseteq Mbufs
  /\ phyTx \subseteq Mbufs
  /\ strategy \subseteq Mbufs

\* Reference counts are exact: a buffer's count is the number of places that
\* hold it.  So nothing is freed while somebody uses it and nothing leaks,
\* whatever the ring, the ports and a consumer on another core do.
Held(m, S) == IF m \in S THEN 1 ELSE 0
Conserved ==
  \A m \in Mbufs :
    refcnt[m] = Held(m, burst) + Held(m, ring) + Held(m, virtTx)
                  + Held(m, phyTx) + Held(m, strategy)

\* A ring that nobody drains, and a consumer that keeps what it has taken,
\* never stop the forwarding: the pool is larger than what they hold, and until
\* the loop quits, the pool has a free buffer again and again.
NeverStarved == <>(pc = "done") \/ []<>(Pool # {})
=============================================================================
