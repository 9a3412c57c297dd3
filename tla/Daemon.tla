------------------------------- MODULE Daemon -------------------------------
(***************************************************************************)
(* Start-up of the daemon (main.cpp) and the steering of packets to        *)
(* workers.  The main thread looks up the NIC and its processors, creates  *)
(* pools, starts the port, installs the flow rules, launches a worker per  *)
(* queue and then becomes the load balancer.  Meanwhile the network is     *)
(* already delivering: packets that are not for NetCCL, answers left over  *)
(* from an earlier run of the daemon, and soon the answers to packets of   *)
(* the workers that have been launched.                                    *)
(*                                                                         *)
(* A packet of worker w carries its tag, w in the upper bits of the type   *)
(* of service; the lower two bits are for congestion marks of the switch.  *)
(* A failed assertion or exit() ends the process.  Without a rule that     *)
(* matches, a packet goes to queue 0: no RSS is configured (main.cpp:62).  *)
(***************************************************************************)
EXTENDS Integers, Sequences, SequencesExt, FiniteSets

CONSTANTS
    ThreadArgs,     \* values of the argument <nthreads>
    bind_addr,      \* NETCCL_BIND_ADDR
    DevOf, PciOf,   \* address -> device and device -> PCI address, where known
    NodeOf,         \* PCI address -> socket, where known
    SocketList,     \* the socket of each processor, in the order of cpuinfo
    Tags,           \* values of the upper bits of the type of service: 64
    MaxStray,       \* bound on the packets that are not an answer to a worker
    MaxSend         \* bound on the packets of each worker

Worker == 0 .. Tags - 1

(* The tag has room for all workers: nothing in the code checks it.        *)
ASSUME DaemonAssumption ==
    /\ Tags \in Nat \ {0}
    /\ ThreadArgs \subseteq Int /\ \A n \in ThreadArgs : n - 1 <= Tags
    /\ SocketList \in Seq(Nat)
    /\ MaxStray \in Nat /\ MaxSend \in Nat

VARIABLES
    nthread,        \* the argument
    shm,            \* the front end has created its segment and queue pair
    stage,          \* where the main thread is
    cpu_list,       \* processors of the threads; thread 0 is the main thread
    port_started,
    rules,          \* flow rules of the NIC
    drop,           \* the static of flow_init_queue()
    queue_id,       \* loop counter of flow_init() and of the launch loop
    thread_ctx,     \* workers whose context is filled
    launched,       \* workers that run
    rx_queue,       \* rx_queue[w]: the queue of the NIC
    received,       \* received[w]: packets worker w has processed
    flying,         \* packets on their way to this host
    sent, strays    \* counters

startVars == <<nthread, cpu_list, port_started, rules, drop, queue_id, thread_ctx, launched>>
netVars   == <<rx_queue, received, flying, sent, strays>>
vars == <<stage, startVars, shm, netVars>>

nworker  == nthread - 1
NoWorker == -1
Marks    == {1, 3}      \* not marked, and marked by the switch
Packet   == [netccl : BOOLEAN, tag : 0 .. Tags - 1, mark : Marks,
             from : Worker \cup {NoWorker}]

(* ip.type_of_service of worker w's packets: (uint8_t)(worker_id << 2 | 1) *)
TagOf(w) == w % Tags
Answer(w, mark) == [netccl |-> TRUE, tag |-> TagOf(w), mark |-> mark, from |-> w]
Stray == [netccl : BOOLEAN, tag : 0 .. Tags - 1, mark : {1}, from : {NoWorker}]

Init ==
    /\ nthread \in ThreadArgs /\ shm = FALSE
    /\ stage = "cpus" /\ cpu_list = <<>>
    /\ port_started = FALSE /\ rules = {} /\ drop = TRUE /\ queue_id = 0
    /\ thread_ctx = {} /\ launched = {}
    /\ rx_queue = [w \in Worker |-> <<>>] /\ received = [w \in Worker |-> <<>>]
    /\ flying = {} /\ sent = [w \in Worker |-> 0] /\ strays = 0

-----------------------------------------------------------------------------
(* net_utils.hpp.  A lookup that fails gives an empty name, or socket -1.  *)
Lookup(f, x, none) == IF x \in DOMAIN f THEN f[x] ELSE none
GetDevByIp(ip)     == Lookup(DevOf, ip, "")
GetPciByDev(dev)   == Lookup(PciOf, dev, "")
GetSocketByPci(p)  == Lookup(NodeOf, p, -1)

Cpus == 0 .. Len(SocketList) - 1

(* The processors of a socket, in the order of the loop that collects      *)
(* them; none for a socket out of range.                                   *)
GetCpuListBySocket(s) ==
    LET scan[n \in 0 .. Len(SocketList)] ==
            IF n = 0 THEN <<>>
            ELSE IF SocketList[n] = s THEN Append(scan[n - 1], n - 1)
            ELSE scan[n - 1]
    IN  scan[Len(SocketList)]

(* A faulty choice that relies on resize(), which pads with processor 0.   *)
CpuListOnNodePadded(node) ==
    LET all == Reverse(GetCpuListBySocket(node))
    IN  [i \in 1 .. nthread |-> IF i <= Len(all) THEN all[i] ELSE 0]

(* cpu_list_on_node(): the last nthread of them; <<>> if an assertion fails. *)
CpuListOnNode(node) ==
    LET all == Reverse(GetCpuListBySocket(node))
    IN  IF nthread > 0 /\ nthread <= Len(all) THEN SubSeq(all, 1, nthread) ELSE <<>>

Die == stage' = "dead" /\ UNCHANGED <<shm, startVars, netVars>>

(* main() and the first part of dpdk_init(): device, socket, processors.   *)
FindCpus ==
    LET dev  == GetDevByIp(bind_addr)
        pci  == GetPciByDev(dev)
        node == GetSocketByPci(pci)
        list == CpuListOnNode(node)
    IN  /\ stage = "cpus"
        /\ IF dev = "" \/ pci = "" \/ node = -1 \/ list = <<>>
           THEN Die
           ELSE /\ stage' = "port" /\ cpu_list' = list
                /\ UNCHANGED <<nthread, shm, port_started, rules, drop, queue_id,
                               thread_ctx, launched, netVars>>

(* EAL, pools and port_init(): from now on packets arrive.  Without        *)
(* workers there are no queues, and the port stays off.                    *)
PortInit ==
    /\ stage = "port"
    /\ stage' = "rules"
    /\ port_started' = (nworker > 0)
    /\ UNCHANGED <<nthread, shm, cpu_list, rules, drop, queue_id, thread_ctx, launched, netVars>>

DropRule     == [priority |-> 1, tag |-> -1, target |-> NoWorker]
QueueRule(q) == [priority |-> 0, tag |-> TagOf(q), target |-> q]

(* One round of flow_init(): the first one also installs the rule that     *)
(* drops all the rest; whether that succeeded is not looked at, while the  *)
(* daemon ends when the rule of the queue cannot be installed.             *)
FlowInitQueue ==
    /\ stage = "rules" /\ queue_id < nworker
    /\ \E dropped \in IF drop THEN BOOLEAN ELSE {FALSE} :
        \/ /\ rules' = rules \cup {QueueRule(queue_id)}
                             \cup (IF dropped THEN {DropRule} ELSE {})
           /\ queue_id' = queue_id + 1
           /\ UNCHANGED stage
        \/ /\ rules' = rules \cup (IF dropped THEN {DropRule} ELSE {})
           /\ stage' = "dead"
           /\ UNCHANGED queue_id
    /\ drop' = FALSE
    /\ UNCHANGED <<nthread, shm, cpu_list, port_started, thread_ctx, launched, netVars>>

FlowInitDone ==
    /\ stage = "rules" /\ queue_id >= nworker
    /\ stage' = "launch" /\ queue_id' = 0
    /\ UNCHANGED <<nthread, shm, cpu_list, port_started, rules, drop, thread_ctx, launched, netVars>>

(* The launch loop: the context of a worker is filled, then it starts.     *)
FillContext ==
    /\ stage = "launch" /\ queue_id < nworker /\ queue_id \notin thread_ctx
    /\ thread_ctx' = thread_ctx \cup {queue_id}
    /\ UNCHANGED <<nthread, shm, stage, cpu_list, port_started, rules, drop,
                   queue_id, launched, netVars>>

RemoteLaunch ==
    /\ stage = "launch" /\ queue_id < nworker /\ queue_id \in thread_ctx
    /\ launched' = launched \cup {queue_id} /\ queue_id' = queue_id + 1
    /\ UNCHANGED <<nthread, shm, stage, cpu_list, port_started, rules, drop,
                   thread_ctx, netVars>>

(* shm_init(), then load_balancer(), which returns if there is no worker.  *)
ShmInit ==
    /\ stage = "launch" /\ queue_id >= nworker
    /\ stage' = IF shm /\ nworker > 0 THEN "balance" ELSE "dead"
    /\ UNCHANGED <<shm, startVars, netVars>>

(* The front end may create the shared memory at any time.                 *)
FrontEnd ==
    /\ ~shm /\ shm' = TRUE
    /\ UNCHANGED <<stage, startVars, netVars>>

-----------------------------------------------------------------------------
(* A faulty mask of 0xff, which compares the congestion bits, too.         *)
MatchesExactly(rule, p) ==
    rule.tag = -1 \/ (p.netccl /\ p.tag = rule.tag /\ p.mark = 1)

(* A faulty pattern of the rule to drop, of NetCCL packets only.           *)
MatchesOnlyNetccl(rule, p) == p.netccl /\ rule.tag \in {-1, p.tag}

(* The pattern of flow_init_queue(): protocol, and tos under mask 0xfc.    *)
Matches(rule, p) == rule.tag = -1 \/ (p.netccl /\ p.tag = rule.tag)

(* Where the NIC puts a packet: the target of a matching rule of the best  *)
(* priority (NoWorker: it drops the packet), or queue 0 without one.       *)
Targets(p) ==
    LET hits == {r \in rules : Matches(r, p)}
        best == {r \in hits : \A s \in hits : r.priority <= s.priority}
    IN  IF hits = {} THEN {0} ELSE {r.target : r \in best}

Running == stage # "dead"

NicReceive(p) ==
    /\ Running /\ port_started /\ p \in flying
    /\ flying' = flying \ {p}
    /\ \E q \in Targets(p) :
          rx_queue' = IF q = NoWorker THEN rx_queue
                      ELSE [rx_queue EXCEPT ![q] = Append(@, p)]
    /\ UNCHANGED <<shm, stage, startVars, received, sent, strays>>

(* Anything may come from the network.                                     *)
StrayArrives(p) ==
    /\ strays < MaxStray /\ strays' = strays + 1
    /\ flying' = flying \cup {p}
    /\ UNCHANGED <<shm, stage, startVars, rx_queue, received, sent>>

(* A worker gets operations once the load balancer runs; its packet is     *)
(* answered, and the switch may mark the answer.                           *)
WorkerSend(w) ==
    /\ stage = "balance" /\ w \in launched /\ sent[w] < MaxSend
    /\ sent' = [sent EXCEPT ![w] = @ + 1]
    /\ \E mark \in Marks :
          /\ Answer(w, mark) \notin flying
          /\ flying' = flying \cup {Answer(w, mark)}
    /\ UNCHANGED <<shm, stage, startVars, rx_queue, received, strays>>

(* A faulty receive that waits until there is a batch.                     *)
WorkerPollBatch(w) ==
    /\ Running /\ w \in launched /\ Len(rx_queue[w]) > 1
    /\ rx_queue' = [rx_queue EXCEPT ![w] = Tail(@)]
    /\ received' = [received EXCEPT ![w] = Append(@, Head(rx_queue[w]))]
    /\ UNCHANGED <<shm, stage, startVars, flying, sent, strays>>

(* rx_process() of worker w.                                               *)
WorkerPoll(w) ==
    /\ Running /\ w \in launched /\ rx_queue[w] # <<>>
    /\ rx_queue' = [rx_queue EXCEPT ![w] = Tail(@)]
    /\ received' = [received EXCEPT ![w] = Append(@, Head(rx_queue[w]))]
    /\ UNCHANGED <<shm, stage, startVars, flying, sent, strays>>

Main ==
    FindCpus \/ PortInit \/ FlowInitQueue \/ FlowInitDone \/ FillContext
    \/ RemoteLaunch \/ ShmInit

Next ==
    \/ Main \/ FrontEnd
    \/ \E p \in flying : NicReceive(p)
    \/ \E p \in Stray : StrayArrives(p)
    \/ \E w \in Worker : WorkerSend(w) \/ WorkerPoll(w)

Spec ==
    /\ Init /\ [][Next]_vars
    /\ WF_vars(Main)
    /\ \A w \in Worker : WF_vars(WorkerPoll(w))
    /\ \A p \in Packet : WF_vars(NicReceive(p))

-----------------------------------------------------------------------------
TypeOK ==
    /\ nthread \in ThreadArgs /\ shm \in BOOLEAN
    /\ stage \in {"cpus", "port", "rules", "launch", "balance", "dead"}
    /\ cpu_list \in Seq(Cpus)
    /\ port_started \in BOOLEAN /\ drop \in BOOLEAN
    /\ queue_id \in 0 .. Tags
    /\ thread_ctx \subseteq 0 .. nworker - 1 /\ launched \subseteq thread_ctx
    /\ rules \subseteq {DropRule} \cup {QueueRule(q) : q \in 0 .. nworker - 1}
    /\ \A w \in Worker : rx_queue[w] \in Seq(Packet) /\ received[w] \in Seq(Packet)
    /\ flying \subseteq Packet

(* Once the processors are chosen, each thread has one of its own, on the  *)
(* socket of the NIC that has the daemon's address.                        *)
CpusOnSocket ==
    cpu_list # <<>> =>
        /\ Len(cpu_list) = nthread /\ IsInjective(cpu_list)
        /\ \A i \in 1 .. nthread :
              SocketList[cpu_list[i] + 1] = NodeOf[PciOf[DevOf[bind_addr]]]

(* As soon as a worker runs, its context is complete and the NIC sends its *)
(* answers, marked by the switch or not, to its queue and to no other.     *)
SteeredHome ==
    TypeOK /\ \A w \in launched :
        /\ w \in thread_ctx
        /\ \A mark \in Marks : Targets(Answer(w, mark)) = {w}

(* If the rule to drop could be installed, then from the first launch on   *)
(* the NIC puts only NetCCL packets with a worker's tag into its queue.    *)
OnlyOwnArrive ==
    [][launched # {} /\ DropRule \in rules =>
         \A w \in Worker : Len(rx_queue'[w]) > Len(rx_queue[w]) =>
             LET p == rx_queue'[w][Len(rx_queue'[w])]
             IN  p.netccl /\ p.tag = TagOf(w)]_vars

(* An answer that reaches the host while the daemon runs is processed by   *)
(* the worker that sent the packet, unless the daemon ends.                *)
AnswersProcessed ==
    \A w \in Worker : \A mark \in Marks :
        (Answer(w, mark) \in flying) ~>
            \/ stage = "dead"
            \/ \E i \in DOMAIN received[w] : received[w][i] = Answer(w, mark)
=============================================================================
