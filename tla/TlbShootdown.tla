---------------------------- MODULE TlbShootdown ----------------------------
(***************************************************************************)
(* Unmapping in a process that runs on several cores and NUMA nodes         *)
(* (kernel/src/arch/x86_64/tlb.rs, irq.rs, nrproc.rs).  Every node has a    *)
(* replica of the process with its own page table, brought up to date from  *)
(* one log; every core has a TLB, a queue of work items and pending         *)
(* interrupts.  An unmap is executed on the local replica; then the cores   *)
(* of the process get a shootdown item each and an interrupt, and the       *)
(* initiator waits for their acknowledgements.  System calls and interrupt  *)
(* handlers run with interrupts disabled.  The same queues carry the        *)
(* requests to advance the file system replica of a node that holds up a    *)
(* full log.                                                                *)
(***************************************************************************)
EXTENDS Naturals, Sequences, FiniteSets, FiniteSetsExt

CONSTANTS Cores,          \* global thread ids, a set of numbers
          NodeOf,         \* NUMA node of each core
          ApicId,         \* x2APIC id of each core
          Running,        \* cores that run the process at the start
          Initiators,     \* cores whose threads unmap
          LogCore,        \* core of each node in charge of the full log
          FsCallers,      \* cores whose threads find a file system log full
          Pages,
          QueueCapacity,  \* IPI_WORKQUEUE_CAPACITY
          Bounds,         \* bound: pairs of frames ever mapped and requests
                          \* to advance a replica, one of which is kept to
          None

Nodes == {NodeOf[c] : c \in Cores}

ASSUME TlbAssumption ==
    /\ Cores \subseteq Nat /\ IsFiniteSet(Cores)
    /\ Running \subseteq Cores
    /\ QueueCapacity \in Nat \ {0}
    /\ None \notin Nat

\* shootdown has destinations for 16 clusters of 16 cores.
ASSUME ApicAssumption == \A c \in Cores : ApicId[c] \in 0..255

\* Logical x2APIC addressing: a cluster and a bit within it.
ClusterId(c) == ApicId[c] \div 16

ClusterAddress(c) == ApicId[c] % 16

\* The first thread of a node: without a process it polls instead of
\* halting, with interrupts disabled.
MainThread(c) == \A d \in Cores : NodeOf[d] = NodeOf[c] => c <= d

VARIABLES log,      \* operations of the process, in order
          applied,  \* length of the prefix each replica has executed
          pc,       \* what each core is doing
          target,   \* frame the unmap of each core removes
          page,     \* and its page
          todo,     \* cores the initiator has to enqueue to
          dests,    \* cores it has not yet sent an interrupt to
          unacked,  \* cores whose acknowledgement it waits for
          queue,    \* IPI_WORKQUEUE
          irr,      \* interrupts pending at each core
          work,     \* shootdown a handler has acknowledged, not yet done
          tlb,      \* translations each core has cached
          retired,  \* frames whose unmap has returned
          lagging,  \* nodes whose file system replica holds up the log
          advances  \* requests sent so far

vars == <<log, applied, pc, target, page, todo, dests, unacked, queue, irr,
          work, tlb, retired, lagging, advances>>

process == <<log, applied>>
initiator == <<target, page, todo, dests, unacked, retired>>
fs == <<lagging, advances>>

\* The page table of a replica that has executed the first k operations.
Mapping(p, k) ==
    LET ops == {j \in 1..k : log[j].kind # "assign" /\ log[j].page = p}
    IN  IF ops = {} THEN None ELSE log[Max(ops)].frame

\* The cores of the process after k operations: active_cores only grows.
ActiveCores(k) == {log[j].core : j \in {l \in 1..k : log[l].kind = "assign"}}

\* Executing an operation replays everything before it on the local replica.
Execute(c, op) ==
    /\ log' = Append(log, op)
    /\ applied' = [applied EXCEPT ![NodeOf[c]] = Len(log) + 1]

UsedFrames == {log[j].frame : j \in 1..Len(log)} \ {None}

Within(frames, requests) == \E b \in Bounds : frames <= b[1] /\ requests <= b[2]

\* The cores that run the process at the start, in some order.
Joined ==
    CHOOSE s \in [1..Cardinality(Running) -> Running] :
        \A c \in Running : \E k \in 1..Cardinality(Running) : s[k] = c

Init ==
    /\ log = [k \in 1..Cardinality(Running) |->
                [kind |-> "assign", core |-> Joined[k], page |-> None, frame |-> None]]
    /\ applied = [n \in Nodes |-> Len(log)]
    /\ pc = [c \in Cores |-> IF c \in Running THEN "user" ELSE "off"]
    /\ target = [c \in Cores |-> None]
    /\ page = [c \in Cores |-> None]
    /\ todo = [c \in Cores |-> {}]
    /\ dests = [c \in Cores |-> {}]
    /\ unacked = [c \in Cores |-> {}]
    /\ queue = [c \in Cores |-> <<>>]
    /\ irr = [c \in Cores |-> {}]
    /\ work = [c \in Cores |-> None]
    /\ tlb = [c \in Cores |-> [p \in Pages |-> None]]
    /\ retired = {}
    /\ lagging = {}
    /\ advances = 0

Goto(c, from, to) ==
    /\ pc[c] = from
    /\ pc' = [pc EXCEPT ![c] = to]

-----------------------------------------------------------------------------
(* Slips of the steps below that the properties must notice. *)

\* The handler acknowledges and leaves the flush for later.
FlushSkipped(c) ==
    /\ Goto(c, "flush", "user")
    /\ work' = [work EXCEPT ![c] = None]
    /\ UNCHANGED <<process, initiator, fs, queue, irr, tlb>>

\* The message is queued and nobody is told.
NotifySkipped(c) ==
    /\ pc[c] = "notify" /\ dests[c] # {}
    /\ dests' = [dests EXCEPT ![c] = {}]
    /\ UNCHANGED <<process, fs, pc, target, page, todo, unacked, retired,
                   queue, irr, work, tlb>>

\* The request is queued without an interrupt.
AdvanceReplicaSilent(n) ==
    /\ Within(Cardinality(UsedFrames), advances + 1)
    /\ advances' = advances + 1
    /\ queue' = [queue EXCEPT ![LogCore[n]] =
         IF Len(@) = QueueCapacity THEN @
         ELSE Append(@, [kind |-> "advance", from |-> None, page |-> None])]
    /\ UNCHANGED irr

-----------------------------------------------------------------------------
(***************************************************************************)
(* The process: threads touch memory, map and unmap.                        *)
(***************************************************************************)

\* The page walker fills the TLB from the page table of the local replica.
Access(c, p) ==
    /\ pc[c] = "user"
    /\ tlb[c][p] = None
    /\ Mapping(p, applied[NodeOf[c]]) # None
    /\ tlb' = [tlb EXCEPT ![c][p] = Mapping(p, applied[NodeOf[c]])]
    /\ UNCHANGED <<process, pc, initiator, fs, queue, irr, work>>

\* pf_handler: resolving the address brings the replica up to date.
PageFault(c, p) ==
    /\ pc[c] = "user"
    /\ tlb[c][p] = None
    /\ Mapping(p, applied[NodeOf[c]]) = None
    /\ Mapping(p, Len(log)) # None
    /\ applied' = [applied EXCEPT ![NodeOf[c]] = Len(log)]
    /\ UNCHANGED <<log, pc, initiator, fs, queue, irr, work, tlb>>

\* handle_vspace, map: a frame that was not mapped before.
Map(c, p) ==
    /\ pc[c] = "user"
    /\ Mapping(p, Len(log)) = None
    /\ Within(Cardinality(UsedFrames) + 1, advances)
    /\ Execute(c, [kind |-> "map", core |-> c, page |-> p,
                   frame |-> Cardinality(UsedFrames) + 1])
    /\ UNCHANGED <<pc, initiator, fs, queue, irr, work, tlb>>

\* handle_vspace, unmap: the operation returns the cores to notify.
Unmap(c, p) ==
    /\ c \in Initiators
    /\ Goto(c, "user", "enqueue")
    /\ Mapping(p, Len(log)) # None
    /\ Execute(c, [kind |-> "unmap", core |-> c, page |-> p, frame |-> None])
    /\ page' = [page EXCEPT ![c] = p]
    /\ target' = [target EXCEPT ![c] = Mapping(p, Len(log))]
    /\ todo' = [todo EXCEPT ![c] = ActiveCores(Len(log)) \ {c}]
    /\ UNCHANGED <<fs, dests, unacked, retired, queue, irr, work, tlb>>

\* The timer handler, and advance_all of the polling main thread, bring the
\* replica of the node up to date.
Timer(c) ==
    /\ pc[c] \in {"user", "off"}
    /\ applied[NodeOf[c]] < Len(log)
    /\ applied' = [applied EXCEPT ![NodeOf[c]] = Len(log)]
    /\ UNCHANGED <<log, pc, initiator, fs, queue, irr, work, tlb>>

\* schedule: a free core takes an executor of the process and runs it.
AssignExecutor(c) ==
    /\ Goto(c, "off", "starting")
    /\ Execute(c, [kind |-> "assign", core |-> c, page |-> None, frame |-> None])
    /\ UNCHANGED <<initiator, fs, queue, irr, work, tlb>>

Start(c) ==
    /\ Goto(c, "starting", "user")
    /\ UNCHANGED <<process, initiator, fs, queue, irr, work, tlb>>

(***************************************************************************)
(* shootdown                                                                *)
(***************************************************************************)

\* enqueue: the result of the push is ignored.
Pushed(q, item) == IF Len(q) < QueueCapacity THEN Append(q, item) ELSE q

\* One core of the handle after the other, in ascending order.
Enqueue(c) ==
    /\ pc[c] = "enqueue" /\ todo[c] # {}
    /\ LET t == Min(todo[c])
       IN  /\ queue' = [queue EXCEPT ![t] =
                Pushed(@, [kind |-> "shootdown", from |-> c, page |-> page[c]])]
           /\ todo' = [todo EXCEPT ![c] = @ \ {t}]
           /\ dests' = [dests EXCEPT ![c] = @ \cup {t}]
           /\ unacked' = [unacked EXCEPT ![c] = @ \cup {t}]
    /\ UNCHANGED <<process, fs, pc, target, page, retired, irr, work, tlb>>

Enqueued(c) ==
    /\ todo[c] = {}
    /\ Goto(c, "enqueue", "notify")
    /\ UNCHANGED <<process, initiator, fs, queue, irr, work, tlb>>

\* One multicast per cluster, if one of the bits 0 to 3 of the cluster is set.
Notify(c) ==
    /\ pc[c] = "notify" /\ dests[c] # {}
    /\ LET k == Min({ClusterId(t) : t \in dests[c]})
           members == {t \in dests[c] : ClusterId(t) = k}
           send == \E t \in members : ClusterAddress(t) \in 0..3
       IN  /\ irr' = [t \in Cores |-> IF send /\ t \in members
                                      THEN irr[t] \cup {"TLB_WORK_PENDING"} ELSE irr[t]]
           /\ dests' = [dests EXCEPT ![c] = @ \ members]
    /\ UNCHANGED <<process, fs, pc, target, page, todo, unacked, retired, queue, work, tlb>>

Notified(c) ==
    /\ dests[c] = {}
    /\ Goto(c, "notify", "own")
    /\ UNCHANGED <<process, initiator, fs, queue, irr, work, tlb>>

\* The initiator's own TLB.
FlushOwn(c) ==
    /\ Goto(c, "own", "wait")
    /\ tlb' = [tlb EXCEPT ![c][page[c]] = None]
    /\ UNCHANGED <<process, initiator, fs, queue, irr, work>>

\* The loop over the shootdowns ends when all are acknowledged.
WaitDone(c) ==
    /\ unacked[c] = {}
    /\ Goto(c, "wait", "user")
    /\ retired' = retired \cup {target[c]}
    /\ UNCHANGED <<process, fs, target, page, todo, dests, unacked, queue, irr, work, tlb>>

(***************************************************************************)
(* Interrupts are taken in user space and by halted cores, with one item    *)
(* of the queue for each (dequeue).                                         *)
(***************************************************************************)
Popped(c) == Head(queue[c])

\* The flag is set first, the flush follows (Shootdown::process).
Dequeue(c, back) ==
    IF queue[c] = <<>>
    THEN /\ pc' = [pc EXCEPT ![c] = back]
         /\ UNCHANGED <<queue, unacked, work, lagging>>
    ELSE /\ queue' = [queue EXCEPT ![c] = Tail(@)]
         /\ IF Popped(c).kind = "shootdown"
            THEN /\ unacked' = [unacked EXCEPT ![Popped(c).from] = @ \ {c}]
                 /\ work' = [work EXCEPT ![c] = Popped(c).page]
                 /\ pc' = [pc EXCEPT ![c] = "flush"]
                 /\ UNCHANGED lagging
            ELSE /\ lagging' = lagging \ {NodeOf[c]}
                 /\ pc' = [pc EXCEPT ![c] = back]
                 /\ UNCHANGED <<unacked, work>>

\* TLB_WORK_PENDING on a core that runs the process.
TlbInterrupt(c) ==
    /\ pc[c] = "user"
    /\ "TLB_WORK_PENDING" \in irr[c]
    /\ irr' = [irr EXCEPT ![c] = @ \ {"TLB_WORK_PENDING"}]
    /\ Dequeue(c, "user")
    /\ UNCHANGED <<process, target, page, todo, dests, retired, advances, tlb>>

\* MLNR_GC_INIT: a core with an executor returns to it, one without stays in
\* the loop of eager_advance_fs_replica.
GcInterrupt(c) ==
    /\ pc[c] = "user" \/ (pc[c] = "off" /\ ~MainThread(c))
    /\ "MLNR_GC_INIT" \in irr[c]
    /\ irr' = [irr EXCEPT ![c] = @ \ {"MLNR_GC_INIT"}]
    /\ Dequeue(c, IF pc[c] = "user" THEN "user" ELSE "eager")
    /\ UNCHANGED <<process, target, page, todo, dests, retired, advances, tlb>>

Flush(c) ==
    /\ Goto(c, "flush", "user")
    /\ tlb' = [tlb EXCEPT ![c][work[c]] = None]
    /\ work' = [work EXCEPT ![c] = None]
    /\ UNCHANGED <<process, initiator, fs, queue, irr>>

\* Without an item a core advances its own log, and the first one before it.
Advances(c) == c = LogCore[NodeOf[c]] \/ MainThread(LogCore[NodeOf[c]])

\* eager_advance_fs_replica, run by the loop of the handler and by the main
\* thread in schedule: a shootdown goes back to the end of the queue.
EagerAdvance(c) ==
    /\ pc[c] = "eager" \/ (pc[c] = "off" /\ MainThread(c))
    /\ queue' = [queue EXCEPT ![c] =
                   IF @ = <<>> THEN @
                   ELSE IF Popped(c).kind = "shootdown" THEN Pushed(Tail(@), Popped(c))
                   ELSE Tail(@)]
    /\ lagging' = IF (IF queue[c] = <<>> THEN Advances(c) ELSE Popped(c).kind = "advance")
                  THEN lagging \ {NodeOf[c]} ELSE lagging
    /\ UNCHANGED <<process, pc, initiator, advances, irr, work, tlb>>

(***************************************************************************)
(* A file system call that finds its log full because of node n asks the    *)
(* core of n and waits, in the kernel, for the replica to advance.          *)
(***************************************************************************)
AdvanceReplica(n) ==
    LET t == LogCore[n]
    IN  /\ Within(Cardinality(UsedFrames), advances + 1)
        /\ advances' = advances + 1
        /\ queue' = [queue EXCEPT ![t] =
             Pushed(@, [kind |-> "advance", from |-> None, page |-> None])]
        /\ irr' = [irr EXCEPT ![t] = @ \cup {"MLNR_GC_INIT"}]

FsCall(c, n) ==
    /\ c \in FsCallers /\ n # NodeOf[c]
    /\ Goto(c, "user", "fs_wait")
    /\ lagging' = lagging \cup {n}
    /\ AdvanceReplica(n)
    /\ UNCHANGED <<process, initiator, work, tlb>>

\* The log calls back again while the replica is still behind.
FsAskAgain(c, n) ==
    /\ pc[c] = "fs_wait" /\ n \in lagging
    /\ AdvanceReplica(n)
    /\ UNCHANGED <<process, pc, initiator, lagging, work, tlb>>

\* While it waits, it executes the log on its own replica.
FsExec(c) ==
    /\ pc[c] = "fs_wait" /\ NodeOf[c] \in lagging
    /\ lagging' = lagging \ {NodeOf[c]}
    /\ UNCHANGED <<process, pc, initiator, advances, queue, irr, work, tlb>>

FsDone(c) ==
    /\ lagging \subseteq {NodeOf[c]}
    /\ Goto(c, "fs_wait", "user")
    /\ UNCHANGED <<process, initiator, fs, queue, irr, work, tlb>>

\* Steps a core takes by itself once it is in the kernel or interrupted.
Step(c) ==
    \/ Start(c)
    \/ Enqueue(c) \/ Enqueued(c) \/ Notify(c) \/ Notified(c)
    \/ FlushOwn(c) \/ WaitDone(c)
    \/ TlbInterrupt(c) \/ GcInterrupt(c) \/ Flush(c) \/ EagerAdvance(c)
    \/ FsExec(c) \/ FsDone(c)

Next ==
    \E c \in Cores :
        \/ \E p \in Pages : Access(c, p) \/ PageFault(c, p) \/ Map(c, p) \/ Unmap(c, p)
        \/ Timer(c) \/ AssignExecutor(c)
        \/ \E n \in Nodes : FsCall(c, n) \/ FsAskAgain(c, n)
        \/ Step(c)

Spec == Init /\ [][Next]_vars

\* Cores run independently, and a pending interrupt is delivered once
\* interrupts are enabled.
FairSpec == Spec /\ \A c \in Cores : WF_vars(Step(c))

-----------------------------------------------------------------------------
\* The node on which the mapping of a frame was removed: the first unmap of
\* its page after the frame was mapped.
UnmapNode(f) ==
    LET m == CHOOSE j \in 1..Len(log) : log[j].kind = "map" /\ log[j].frame = f
        u == Min({j \in m..Len(log) : log[j].kind = "unmap" /\ log[j].page = log[m].page})
    IN  NodeOf[log[u].core]

\* Once an unmap has returned, no core of that node runs user code with a
\* translation to the frame that was removed: the handler may acknowledge
\* before it flushes only because it does not return in between
\* (tlb.rs:91-94), a core that joins the process later finds the replica
\* without the mapping, and nobody can reload it.  Cores of another node can:
\* their handler does not advance their replica.
NoStaleTranslation ==
    \A c \in Cores, p \in Pages :
        pc[c] = "user" /\ tlb[c][p] \in retired => NodeOf[c] # UnmapNode(tlb[c][p])

InShootdown(c) == pc[c] \in {"enqueue", "notify", "own", "wait"}

\* "Finally, waits until all cores have acknowledged the IPI before it
\* returns" (tlb.rs:214): the wait ends, unless a second core is in a shootdown
\* before that, or the queues also carry requests to advance a replica.
LoneShootdownReturns ==
    (\E c \in Initiators : pc[c] = "enqueue") ~>
        \/ \A c \in Initiators : ~InShootdown(c)
        \/ \E c, d \in Initiators : c # d /\ InShootdown(c) /\ InShootdown(d)
        \/ advances > 0

\* File system calls that wait for other replicas go on once nobody makes a
\* further one, as long as the process has not unmapped anything: a core
\* answers one item of its queue per interrupt (mod.rs:837-858,
\* tlb.rs:128-171).
FsCallReturns ==
    (\E c \in FsCallers : pc[c] = "fs_wait") ~>
        \/ \A c \in FsCallers : pc[c] # "fs_wait"
        \/ \E j \in 1..Len(log) : log[j].kind = "unmap"
=============================================================================
