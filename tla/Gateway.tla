------------------------------ MODULE Gateway ------------------------------
(***************************************************************************)
(* The life of the process (main.cpp) around the forwarding loop: the      *)
(* configuration (config/config.c), the ports (core/init.c), the two       *)
(* connections and their I/O threads, the logger on the worker core, the   *)
(* signal that ends it all and the shutdown.                               *)
(*                                                                         *)
(* Every call that may fail does so at some time; rte_exit() ends the      *)
(* process.  A connection is seen here only as its I/O thread: what it     *)
(* does while it runs is in ExchangeConnection.  Name resolution, the feed *)
(* and the log files are opened on the way and change no later step.       *)
(***************************************************************************)
EXTENDS Forwarding, SequencesExt

CONSTANTS
  Environments,   \* what getenv() may return, see below
  Empty,          \* an empty field of a list of symbols
  Garbage,        \* what a pointer that was never stored may point to
  Defaults,       \* the symbols used when the list of a connection is not set
  DeviceLists     \* the drivers' names, in the order of the ports' numbers

Conns == {"okx", "bybit"}

(* An environment says whether the five required keys are set, and holds   *)
(* the list of symbols of each connection: unset, or the fields between    *)
(* its commas.  The empty string is one empty field.  A virtio port is     *)
(* found if there is one, and the one found is the last.                   *)
LastOf(d, kind, i) ==
  i \in DOMAIN d /\ d[i] = kind /\ \A j \in DOMAIN d : j > i => d[j] # kind
ASSUME GatewayAssumption ==
  /\ \A e \in Environments : e.required \in BOOLEAN /\ DOMAIN e.lists = Conns
  /\ \A e \in Environments, c \in Conns :
       e.lists[c].set \in BOOLEAN /\ e.lists[c].fields \in Seq(ToSet(e.lists[c].fields))
  /\ \A d \in DeviceLists :
       /\ d \in Seq({"phy", "virt"})
       /\ HasVirt => \E i \in DOMAIN d : LastOf(d, "virt", i)
       /\ ~HasVirt => \A i \in DOMAIN d : d[i] # "virt"

VARIABLES
  main,       \* where main() is
  env,        \* the environment of the process
  forceQuit,  \* force_quit
  handled,    \* the signal handlers are registered
  ports,      \* the ports the EAL has found
  worker,     \* the worker core
  conn,       \* the connections and their I/O threads
  subs        \* the symbols main() has passed to subscribe()

mainVars == <<main, env, forceQuit, handled, ports, worker, conn, subs>>
allVars == <<vars, mainVars>>

Ended == {"exited", "failed", "crashed", "killed"}

\* One step of main(): it goes on to `next`, or rte_exit() ends the process.
GoesOn(here, next) == main = here /\ main' = next
Fails(here) == main = here /\ main' = "failed"

-----------------------------------------------------------------------------
(* Configuration.                                                          *)

\* parse_csv_symbols(): the array is as long as there are fields.
\* Mutant: the count of the delimiters, without the field after the last.
SymbolCount_NoLast(l) == IF l.fields = <<Empty>> THEN 0 ELSE Len(l.fields) - 1
SymbolCount(l) == IF l.fields = <<Empty>> THEN 0 ELSE Len(l.fields)

\* strtok() returns only the fields that are not empty, and each goes to the
\* next index.  What is read later are the indices below the count, whether
\* anything was stored there or not.
Tokens(l) == {i \in DOMAIN l.fields : l.fields[i] # Empty}
Index(l, i) == Cardinality({j \in Tokens(l) : j < i})
Stored(l) == {l.fields[i] : i \in {j \in Tokens(l) : Index(l, j) < SymbolCount(l)}}
NeverStored(l) == SymbolCount(l) > Cardinality(Tokens(l))

\* config_load(): all five keys have to be there; then logging_init().
LoadConfig ==
  /\ \/ env.required /\ GoesOn("config", "eal")
     \/ ~env.required /\ Fails("config")
  /\ UNCHANGED <<vars, env, forceQuit, handled, ports, worker, conn, subs>>

-----------------------------------------------------------------------------
(* DPDK: the EAL, memory, ports.                                           *)

\* rte_eal_init() and signal(): from here on SIGINT and SIGTERM are handled.
EalInit ==
  /\ \/ /\ GoesOn("eal", "memory")
        /\ handled' = TRUE
        /\ \E d \in DeviceLists :
             ports' = [i \in DOMAIN d |-> [driver |-> d[i], state |-> "probed"]]
     \/ Fails("eal") /\ UNCHANGED <<handled, ports>>
  /\ UNCHANGED <<vars, env, forceQuit, worker, conn, subs>>

\* The pool and hft_ring.
CreateMemory ==
  /\ GoesOn("memory", "mapping") \/ Fails("memory")
  /\ UNCHANGED <<vars, env, forceQuit, handled, ports, worker, conn, subs>>

\* init_port_mapping(): the last port of each kind is used; a physical port
\* has to be there.
Uses(kind, i) == LastOf([j \in DOMAIN ports |-> ports[j].driver], kind, i)
Mapped(i) == Uses("phy", i) \/ Uses("virt", i)
InitPortMapping ==
  /\ IF \E i \in DOMAIN ports : Uses("phy", i)
     THEN GoesOn("mapping", "configure") ELSE Fails("mapping")
  /\ UNCHANGED <<vars, env, forceQuit, handled, ports, worker, conn, subs>>

AllPorts(s) == \A i \in DOMAIN ports : Mapped(i) => ports[i].state \in s
PhyFirst(i, s) == Uses("virt", i) => \A j \in DOMAIN ports : Uses("phy", j) => ports[j].state = s
PortGets(i, s) == ports' = [ports EXCEPT ![i].state = s]

\* configure_ports(): the physical port first; configured and given its
\* queues, or the process ends.
ConfigurePort(i) ==
  /\ Mapped(i) /\ ports[i].state = "probed" /\ PhyFirst(i, "configured")
  /\ \/ GoesOn("configure", "configure") /\ PortGets(i, "configured")
     \/ Fails("configure") /\ UNCHANGED ports
  /\ UNCHANGED <<vars, env, forceQuit, handled, worker, conn, subs>>
StartPort(i) ==
  /\ Mapped(i) /\ ports[i].state = "configured" /\ PhyFirst(i, "started")
  /\ AllPorts({"configured", "started"})
  /\ \/ GoesOn("configure", "configure") /\ PortGets(i, "started")
     \/ Fails("configure") /\ UNCHANGED ports
  /\ UNCHANGED <<vars, env, forceQuit, handled, worker, conn, subs>>
\* Mutant: the second port is forgotten.
EnablePromiscuous_OnePort ==
  /\ \E i \in DOMAIN ports : ports[i].state = "started"
  /\ GoesOn("configure", "setup") \/ Fails("configure")
  /\ UNCHANGED <<vars, env, forceQuit, handled, ports, worker, conn, subs>>
EnablePromiscuous ==
  /\ AllPorts({"started"})
  /\ GoesOn("configure", "setup") \/ Fails("configure")
  /\ UNCHANGED <<vars, env, forceQuit, handled, ports, worker, conn, subs>>

-----------------------------------------------------------------------------
(* Connections and threads.                                                *)

OkxFirst(c, s) == c = "bybit" => conn["okx"] = s

\* subscribe() before connect().  The pointers that were never stored are
\* read: null by chance, or something that is not a symbol, or the program
\* crashes.
Subscribe(c) ==
  LET l == env.lists[c]
      Passes(s) == /\ GoesOn("setup", "setup")
                   /\ subs' = [subs EXCEPT ![c] = s]
                   /\ conn' = [conn EXCEPT ![c] = "subscribed"]
  IN  /\ conn[c] = "new" /\ OkxFirst(c, "subscribed")
      /\ \/ ~l.set /\ Passes(Defaults[c])
         \/ l.set /\ Passes(Stored(l))
         \/ l.set /\ NeverStored(l) /\ Passes(Stored(l) \cup {Garbage})
         \/ l.set /\ NeverStored(l) /\ GoesOn("setup", "crashed") /\ UNCHANGED <<subs, conn>>
      /\ UNCHANGED <<vars, env, forceQuit, handled, ports, worker>>

\* connect() starts the I/O thread and connects on the thread of main(), which
\* the loop that carries its packets to the physical port has to wait for: it
\* returns when it has reached the exchange another way or the kernel gives
\* up.  If it failed it will be retried on the I/O thread.
Connect(c) ==
  /\ GoesOn("setup", "setup")
  /\ conn[c] = "subscribed" /\ OkxFirst(c, "running") /\ conn["bybit"] = "subscribed"
  /\ conn' = [conn EXCEPT ![c] = "connecting"]
  /\ UNCHANGED <<vars, env, forceQuit, handled, ports, worker, subs>>

ConnectReturns(c) ==
  /\ GoesOn("setup", "setup")
  /\ conn[c] = "connecting"
  /\ conn' = [conn EXCEPT ![c] = "running"]
  /\ UNCHANGED <<vars, env, forceQuit, handled, ports, worker, subs>>

\* rte_eal_remote_launch(run_logger), if there is a core for it.
LaunchWorker ==
  /\ GoesOn("setup", "forward")
  /\ \A c \in Conns : conn[c] = "running"
  /\ worker' \in {"none", "running"}
  /\ UNCHANGED <<vars, env, forceQuit, handled, ports, conn, subs>>

\* lcore_forward_loop(): another turn while force_quit is not set.
ForwardStep ==
  /\ main = "forward"
  /\ pc = "rx" => ~forceQuit
  /\ Loop
  /\ UNCHANGED mainVars
ForwardReturns ==
  /\ GoesOn("forward", "wait")
  /\ forceQuit
  /\ Quit
  /\ UNCHANGED <<env, forceQuit, handled, ports, worker, conn, subs>>

\* run_logger() looks at force_quit once a second.
\* Mutant: it does not.
WorkerEnds_Never == FALSE /\ UNCHANGED allVars
WorkerEnds ==
  /\ worker = "running" /\ forceQuit /\ main \notin Ended
  /\ worker' = "ended"
  /\ UNCHANGED <<vars, main, env, forceQuit, handled, ports, conn, subs>>

-----------------------------------------------------------------------------
(* The end.                                                                *)

\* rte_eal_wait_lcore()
\* Mutant: the worker is not waited for.
WaitForWorker_NoWait ==
  /\ GoesOn("wait", "close")
  /\ UNCHANGED <<vars, env, forceQuit, handled, ports, worker, conn, subs>>
WaitForWorker ==
  /\ GoesOn("wait", "close")
  /\ worker # "running"
  /\ UNCHANGED <<vars, env, forceQuit, handled, ports, worker, conn, subs>>

\* close_ports(): the physical port first.
ClosePort(i) ==
  /\ GoesOn("close", "close")
  /\ Mapped(i) /\ ports[i].state = "started" /\ PhyFirst(i, "closed")
  /\ IF Uses("phy", i) THEN PhyStops ELSE VirtStops
  /\ PortGets(i, "closed")
  /\ UNCHANGED <<env, forceQuit, handled, worker, conn, subs>>

\* logging_shutdown() and rte_eal_cleanup()
Cleanup ==
  /\ GoesOn("close", "destroy")
  /\ AllPorts({"closed"})
  /\ UNCHANGED <<vars, env, forceQuit, handled, ports, worker, conn, subs>>

\* The connections are destroyed at the end of main(), the later one first:
\* the client's close() posts the closing handshake if it was connected, stops
\* the io_context and joins the I/O thread.  The thread ends at once, or it
\* is in the handshake already, which no port carries any more, until the
\* kernel gives the connection up.
Destroy(c) ==
  /\ GoesOn("destroy", "destroy")
  /\ conn[c] = "running" /\ (c = "okx" => conn["bybit"] = "gone")
  /\ \E s \in {"gone", "handshake"} : conn' = [conn EXCEPT ![c] = s]
  /\ UNCHANGED <<vars, env, forceQuit, handled, ports, worker, subs>>
KernelGivesUp(c) ==
  /\ conn[c] = "handshake"
  /\ conn' = [conn EXCEPT ![c] = "gone"]
  /\ UNCHANGED <<vars, main, env, forceQuit, handled, ports, worker, subs>>
Exit ==
  /\ GoesOn("destroy", "exited")
  /\ \A c \in Conns : conn[c] = "gone"
  /\ UNCHANGED <<vars, env, forceQuit, handled, ports, worker, conn, subs>>

\* SIGINT or SIGTERM, at any time; without a handler the process is killed.
Signal ==
  /\ main \notin Ended /\ ~forceQuit
  /\ \/ handled /\ forceQuit' = TRUE /\ UNCHANGED main
     \/ ~handled /\ main' = "killed" /\ UNCHANGED forceQuit
  /\ UNCHANGED <<vars, env, handled, ports, worker, conn, subs>>

\* The drivers work until their port is closed; a consumer of hft_ring would
\* run on the worker core.
DriverStep == Drivers /\ UNCHANGED mainVars
StrategyStep == worker = "running" /\ main \notin Ended /\ Strategy /\ UNCHANGED mainVars

GwInit ==
  /\ Init
  /\ main = "config"
  /\ env \in Environments
  /\ forceQuit = FALSE /\ handled = FALSE
  /\ ports = <<>>
  /\ worker = "none"
  /\ conn = [c \in Conns |-> "new"]
  /\ subs = [c \in Conns |-> {}]

PortStep == \E i \in DOMAIN ports : ConfigurePort(i) \/ StartPort(i) \/ ClosePort(i)
ConnStep == \E c \in Conns : Subscribe(c) \/ Connect(c) \/ ConnectReturns(c) \/ Destroy(c)
MainStep ==
  \/ LoadConfig \/ EalInit \/ CreateMemory \/ InitPortMapping
  \/ PortStep \/ EnablePromiscuous \/ ConnStep \/ LaunchWorker
  \/ ForwardStep \/ ForwardReturns \/ WaitForWorker \/ Cleanup \/ Exit

GwNext ==
  \/ MainStep \/ WorkerEnds \/ Signal \/ DriverStep \/ StrategyStep
  \/ \E c \in Conns : KernelGivesUp(c)

GwSpec == GwInit /\ [][GwNext]_allVars

\* Threads run, drivers send what they accepted, and the kernel does not
\* wait for ever for an answer to a segment.  A signal need not come.
FairGwSpec ==
  /\ GwSpec
  /\ WF_allVars(MainStep) /\ WF_allVars(WorkerEnds)
  /\ \A m \in Mbufs : WF_allVars(VirtSent(m) /\ UNCHANGED mainVars)
                      /\ WF_allVars(PhySent(m) /\ UNCHANGED mainVars)
  /\ \A c \in Conns : WF_allVars(KernelGivesUp(c))

-----------------------------------------------------------------------------
GwTypeOK ==
  /\ TypeOK
  /\ main \in Ended \cup {"config", "eal", "memory", "mapping", "configure", "setup",
                          "forward", "wait", "close", "destroy"}
  /\ forceQuit \in BOOLEAN /\ handled \in BOOLEAN
  /\ \A i \in DOMAIN ports : ports[i].state \in {"probed", "configured", "started", "closed"}
  /\ worker \in {"none", "running", "ended"}
  /\ conn \in [Conns -> {"new", "subscribed", "connecting", "running", "handshake", "gone"}]

\* Ports are open while packets are forwarded or queued on them: whichever
\* step of the start fails and whenever the signal comes, the loop does not
\* run on a port that is not started, and no port is closed (close_ports)
\* under buffers it still holds.
PortsOpenWhileUsed ==
  /\ main = "forward" => AllPorts({"started"})
  /\ \A i \in DOMAIN ports :
       /\ Uses("phy", i) /\ phyTx # {} => ports[i].state = "started"
       /\ Uses("virt", i) /\ virtTx # {} => ports[i].state = "started"

\* When rte_eal_cleanup() takes DPDK's memory away, nobody uses it: the loop
\* and the worker have ended, every port that was started is closed, and
\* neither the loop nor a driver holds a buffer.
QuietAtCleanup ==
  main \in {"destroy", "exited"} =>
    /\ pc = "done" /\ worker # "running"
    /\ burst = {} /\ virtTx = {} /\ phyTx = {}
    /\ \A i \in DOMAIN ports : ports[i].state \in {"probed", "closed"}

\* A connection is opened with every symbol of its list subscribed, however
\* the list is written (README: "Comma-separated symbol lists (optional)"),
\* and with no other when it has no empty field.
Listed(c) ==
  IF env.lists[c].set THEN ToSet(env.lists[c].fields) \ {Empty} ELSE Defaults[c]
SymbolsSubscribed ==
  \A c \in Conns : conn[c] # "new" =>
    /\ Listed(c) \subseteq subs[c]
    /\ Empty \notin ToSet(env.lists[c].fields) => subs[c] = Listed(c)

\* "Signal received, preparing to exit..." (main.cpp, line 46): once
\* force_quit is set the process ends, wherever main() is at that moment.
EndsAfterSignal == forceQuit ~> main \in Ended
=============================================================================
