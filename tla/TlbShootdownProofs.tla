------------------------ MODULE TlbShootdownProofs ------------------------
(***************************************************************************)
(* A proof that an unmap leaves no stale translation on its node, for any   *)
(* number of cores, nodes, pages and frames, any placement of the cores,    *)
(* any capacity of the queues and whatever the bounds are: the invariant    *)
(* holds initially and every step keeps it.                                 *)
(***************************************************************************)
EXTENDS TlbShootdownInv

\* Exactly the running cores are assigned to the process at the start.
LEMMA InitInv == Init => IInv
<1>1. SUFFICES ASSUME Init PROVE IInv
  BY Zenon
<1>. DEFINE n == Cardinality(Running)
            s == Joined
<1>2. n \in Nat /\ s \in [1..n -> Running] /\ \A c \in Running : \E k \in 1..n : s[k] = c
  BY RunningSeq
<1>3. log = [k \in 1..n |-> [kind |-> "assign", core |-> s[k], page |-> None, frame |-> None]]
  BY <1>1, Zenon DEF Init
<1>. HIDE DEF n, s
<1>4. log \in Seq(Ops) /\ Len(log) = n
  <2>1. \A k \in 1..n : s[k] \in Cores
    BY <1>2, TlbAssumption, Zenon
  <2>. QED
    BY <1>2, <1>3, <2>1 DEF Ops
<1>5. \A k \in 1..n : log[k].kind = "assign" /\ log[k].core = s[k] /\ log[k].frame = None
  BY <1>3
<1>6. TypeOK
  <2>1. pc \in [Cores -> PC]
    BY <1>1 DEF Init, PC
  <2>2. applied \in [Nodes -> Nat]
    BY <1>1, <1>2, <1>4, Zenon DEF Init
  <2>3. queue \in [Cores -> Seq(Items)]
    BY <1>1 DEF Init
  <2>4. tlb \in [Cores -> [Pages -> Nat \cup {None}]]
    BY <1>1 DEF Init
  <2>5. /\ target \in [Cores -> Nat \cup {None}] /\ page \in [Cores -> Pages \cup {None}]
        /\ work \in [Cores -> Pages \cup {None}]
    BY <1>1 DEF Init
  <2>6. todo \in [Cores -> SUBSET Cores] /\ unacked \in [Cores -> SUBSET Cores]
    BY <1>1 DEF Init
  <2>. QED
    BY <1>4, <2>1, <2>2, <2>3, <2>4, <2>5, <2>6, Zenon DEF TypeOK
<1>7. LogOK(log)
  <2>1. Frames(log) = {}
    BY <1>4, <1>5, Zenon DEF Frames
  <2>2. 0 \in Nat /\ 1..0 = {}
    OBVIOUS
  <2>3. \E i \in Nat : Frames(log) = 1..i
    BY <2>1, <2>2, Zenon
  <2>. QED
    BY <1>4, <1>5, <2>3 DEF LogOK
<1>8. Local(log, applied)
  <2>1. \A k \in Nodes : applied[k] = n
    BY <1>1, <1>4, Zenon DEF Init
  <2>2. n <= n /\ \A j \in 1..n : j <= n
    BY <1>2
  <2>3. \A j \in 1..n : NodeOf[log[j].core] \in Nodes
    BY <1>2, <1>5, TlbAssumption DEF Nodes
  <2>. QED
    BY <1>4, <2>1, <2>2, <2>3, Zenon DEF Local
<1>9. InProcess
  <2>1. \A c \in Cores : Active(log, c) <=> c \in Running
    <3>1. \A j \in 1..n : s[j] \in Running
      BY <1>2, Zenon
    <3>. QED
      BY <1>2, <1>4, <1>5, <3>1 DEF Active
  <2>2. \A c \in Cores : pc[c] = IF c \in Running THEN "user" ELSE "off"
    BY <1>1, Zenon DEF Init
  <2>. QED
    BY <2>1, <2>2 DEF InProcess
<1>10. \A c \in Cores : ~InShootdown(c)
  BY <1>1 DEF Init, InShootdown
<1>11. Rounds
  BY <1>1, <1>10 DEF Init, Rounds
<1>12. Queued
  <2>1. \A c \in Cores : queue[c] = <<>>
    BY <1>1, Zenon DEF Init
  <2>. QED
    BY <2>1 DEF Queued, Awaited
<1>13. \A c \in Cores, p \in Pages : tlb[c][p] = None
  BY <1>1, Zenon DEF Init
<1>14. retired = {}
  BY <1>1, Zenon DEF Init
<1>. QED
  BY <1>6, <1>7, <1>8, <1>9, <1>10, <1>11, <1>12, <1>13, <1>14, Zenon
     DEF IInv, Loaded, Covered, Unfinished, Returned

\* A step of core c that leaves log, translations and shootdowns alone.
PcKept(c) ==
  /\ pc'[c] \in {"off", "eager"} <=> pc[c] \in {"off", "eager"}
  /\ pc'[c] \in {"enqueue", "notify", "own", "wait"} <=> pc[c] \in {"enqueue", "notify", "own", "wait"}
  /\ pc'[c] = "flush" <=> pc[c] = "flush"
  /\ pc'[c] = "wait" <=> pc[c] = "wait"
  /\ pc'[c] # "enqueue" => todo[c] = {}

\* The queue of core c has the same shootdowns, or has lost some.
QueueKept(c) ==
  \/ queue'[c] = queue[c]
  \/ queue[c] # <<>> /\ queue'[c] = Tail(queue[c])
  \/ \E it \in Items : it.kind # "shootdown" /\ queue'[c] = Append(queue[c], it)

\* Such queues hold no shootdown that nobody waits for.
LEMMA QueueStep ==
  ASSUME IInv, UNCHANGED <<log, page, unacked>>, \A c \in Cores : QueueKept(c)
  PROVE  Queued'
<1>1. SUFFICES ASSUME NEW c \in Cores
               PROVE  /\ Awaited(queue'[c], c, unacked, page)
                      /\ \A k \in 1..Len(queue'[c]) :
                            queue'[c][k].kind = "shootdown" => Active(log, c)
  BY Zenon DEF Queued
<1>2. /\ queue[c] \in Seq(Items) /\ Awaited(queue[c], c, unacked, page)
      /\ \A k \in 1..Len(queue[c]) : queue[c][k].kind = "shootdown" => Active(log, c)
  BY Zenon DEF IInv, TypeOK, Queued
<1>3. CASE queue'[c] = queue[c]
  BY <1>2, <1>3, Zenon
<1>4. CASE queue[c] # <<>> /\ queue'[c] = Tail(queue[c])
  <2>1. Awaited(Tail(queue[c]), c, unacked, page)
    BY <1>2, <1>4, AwaitedTail, Zenon
  <2>2. \A k \in 1..Len(Tail(queue[c])) :
           k + 1 \in 1..Len(queue[c]) /\ Tail(queue[c])[k] = queue[c][k + 1]
    BY <1>2, <1>4, TailFacts, Zenon
  <2>. QED
    BY <1>2, <1>4, <2>1, <2>2, Zenon
<1>5. CASE \E it \in Items : it.kind # "shootdown" /\ queue'[c] = Append(queue[c], it)
  <2>1. PICK it \in Items : it.kind # "shootdown" /\ queue'[c] = Append(queue[c], it)
    BY <1>5, Zenon
  <2>2. Awaited(Append(queue[c], it), c, unacked, page)
    BY <1>2, <2>1, AwaitedOther, Zenon
  <2>3. /\ Len(queue[c]) \in Nat /\ Len(Append(queue[c], it)) = Len(queue[c]) + 1
        /\ Append(queue[c], it)[Len(queue[c]) + 1] = it
        /\ \A k \in 1..Len(queue[c]) : Append(queue[c], it)[k] = queue[c][k]
    BY <1>2, AppendFacts, SeqFacts
  <2>4. \A k \in 1..(Len(queue[c]) + 1) : k # Len(queue[c]) + 1 => k \in 1..Len(queue[c])
    BY <2>3
  <2>. QED
    BY <1>2, <2>1, <2>2, <2>3, <2>4, Zenon
<1>. QED
  BY <1>3, <1>4, <1>5, Zenon DEF QueueKept

\* A step that leaves log, translations and shootdowns alone keeps the invariant.
LEMMA Calm ==
  ASSUME IInv, TypeOK', UNCHANGED <<log, target, page, todo, unacked, work, tlb, retired>>,
         Local(log, applied'), \A c \in Cores : PcKept(c) /\ QueueKept(c)
  PROVE  IInv'
<1>1. \A c \in Cores : /\ InShootdown(c)' <=> InShootdown(c)
                       /\ pc'[c] = "flush" <=> pc[c] = "flush"
                       /\ pc'[c] = "wait" <=> pc[c] = "wait"
  BY Zenon DEF PcKept, InShootdown
<1>2. LogOK(log)' /\ Local(log, applied)'
  BY Zenon DEF IInv
<1>3. InProcess'
  BY Zenon DEF IInv, InProcess, PcKept
<1>4. Rounds'
  BY <1>1, Zenon DEF IInv, Rounds, PcKept
<1>5. Queued'
  BY QueueStep, Zenon
<1>6. Loaded' /\ Returned'
  BY Zenon DEF IInv, Loaded, Returned
<1>7. Unfinished'
  BY <1>1, Zenon DEF IInv, Unfinished
<1>8. Covered'
  <2>1. SUFFICES ASSUME NEW c \in Cores, NEW p \in Pages, NEW m \in 1..Len(log),
                        NEW u \in 1..Len(log), tlb[c][p] # None,
                        Maps(log, m, p, tlb[c][p]), Ends(log, m, u),
                        NodeOf[log[u].core] = NodeOf[c]
                 PROVE  Guarded(c, p, log[u].core)'
    BY Zenon DEF Covered
  <2>2. Guarded(c, p, log[u].core)
    BY <2>1, Zenon DEF IInv, Covered
  <2>3. log[u].core \in Cores
    <3>1. log[u] \in Ops
      BY SeqFacts, Zenon DEF IInv, TypeOK
    <3>. QED
      BY <3>1 DEF Ops
  <2>. QED
    BY <1>1, <2>2, <2>3, Zenon DEF Guarded
<1>. QED
  BY <1>2, <1>3, <1>4, <1>5, <1>6, <1>7, <1>8, Zenon DEF IInv

\* A replica that catches up with the log.
LEMMA LocalAdvances ==
  ASSUME NEW l \in Seq(Ops), NEW done \in [Nodes -> Nat], Local(l, done), NEW n
  PROVE  /\ Local(l, [done EXCEPT ![n] = Len(l)])
         /\ [done EXCEPT ![n] = Len(l)] \in [Nodes -> Nat]
<1>. DEFINE after == [done EXCEPT ![n] = Len(l)]
<1>1. Len(l) \in Nat /\ \A j \in 1..Len(l) : l[j] \in Ops
  BY SeqFacts, Zenon
<1>2. \A k \in Nodes : after[k] = IF k = n THEN Len(l) ELSE done[k]
  BY Zenon
<1>3. after \in [Nodes -> Nat]
  BY <1>1, Zenon
<1>. HIDE DEF after
<1>4. Len(l) <= Len(l) /\ \A j \in 1..Len(l) : j <= Len(l)
  BY <1>1
<1>5. \A j \in 1..Len(l) : NodeOf[l[j].core] \in Nodes
  BY <1>1, Zenon DEF Ops, Nodes
<1>6. Local(l, after)
  BY <1>2, <1>4, <1>5, Zenon DEF Local
<1>. QED
  BY <1>3, <1>6, Zenon DEF after

\* Requests to advance a replica are no shootdowns.
LEMMA AdvanceQueues ==
  ASSUME IInv, NEW n, AdvanceReplica(n)
  PROVE  queue' \in [Cores -> Seq(Items)] /\ \A d \in Cores : QueueKept(d)
<1>. DEFINE it == [kind |-> "advance", from |-> None, page |-> None]
            t == LogCore[n]
<1>1. it \in Items /\ it.kind # "shootdown"
  BY DEF Items
<1>2. queue \in [Cores -> Seq(Items)]
  BY Zenon DEF IInv, TypeOK
<1>3. queue' = [queue EXCEPT ![t] = Pushed(@, it)]
  BY Zenon DEF AdvanceReplica
<1>. HIDE DEF it, t
<1>4. \A d \in Cores : queue'[d] = queue[d] \/ queue'[d] = Append(queue[d], it)
  BY <1>2, <1>3, Zenon DEF Pushed
<1>5. \A d \in Cores : queue'[d] \in Seq(Items)
  <2>1. SUFFICES ASSUME NEW d \in Cores
                 PROVE  queue'[d] \in Seq(Items)
    BY Zenon
  <2>2. queue[d] \in Seq(Items)
    BY <1>2, Zenon
  <2>3. Append(queue[d], it) \in Seq(Items)
    BY <1>1, <2>2
  <2>. QED
    BY <1>4, <2>2, <2>3, Zenon
<1>6. queue' \in [Cores -> Seq(Items)]
  BY <1>2, <1>3, <1>5, Zenon
<1>. QED
  BY <1>1, <1>4, <1>6, Zenon DEF QueueKept

\* Actions that only bring a replica up to date.
LEMMA CatchUpStep ==
  ASSUME IInv, NEW c \in Cores, applied' = [applied EXCEPT ![NodeOf[c]] = Len(log)],
         UNCHANGED <<log, pc, initiator, fs, queue, irr, work, tlb>>
  PROVE  IInv'
<1>1. log \in Seq(Ops) /\ applied \in [Nodes -> Nat] /\ Local(log, applied)
  BY Zenon DEF IInv, TypeOK
<1>2. Local(log, applied') /\ applied' \in [Nodes -> Nat]
  BY <1>1, LocalAdvances, Zenon
<1>3. TypeOK'
  BY <1>2, Zenon DEF IInv, TypeOK, initiator
<1>4. \A d \in Cores : PcKept(d) /\ QueueKept(d)
  BY Zenon DEF PcKept, QueueKept, IInv, Rounds
<1>. QED
  BY <1>2, <1>3, <1>4, Calm, Zenon DEF initiator

\* Actions of a core that change its program counter, its interrupts or the
\* queues, within the same part of its work.
LEMMA QuietStep ==
  ASSUME IInv, NEW c \in Cores, NEW to \in PC, pc' = [pc EXCEPT ![c] = to], 
         to \in {"off", "eager"} <=> pc[c] \in {"off", "eager"},
         to \in {"enqueue", "notify", "own", "wait"} <=>
            pc[c] \in {"enqueue", "notify", "own", "wait"},
         to = "flush" <=> pc[c] = "flush", to = "wait" <=> pc[c] = "wait",
         to # "enqueue" => todo[c] = {},
         queue' \in [Cores -> Seq(Items)], \A d \in Cores : QueueKept(d),
         UNCHANGED <<log, applied, target, page, todo, unacked, work, tlb, retired>>
  PROVE  IInv'
<1>1. pc \in [Cores -> PC]
  BY Zenon DEF IInv, TypeOK
<1>2. pc' \in [Cores -> PC]
  BY <1>1, Zenon
<1>3. \A d \in Cores : pc'[d] = IF d = c THEN to ELSE pc[d]
  BY <1>1, Zenon
<1>4. TypeOK'
  BY <1>2, Zenon DEF IInv, TypeOK
<1>5. \A d \in Cores : PcKept(d)
  BY <1>3, Zenon DEF PcKept, IInv, Rounds
<1>6. Local(log, applied')
  BY Zenon DEF IInv
<1>. QED
  BY <1>4, <1>5, <1>6, Calm, Zenon

\* A core outside the process has no shootdown in its queue.
LEMMA NoneQueued ==
  ASSUME IInv, NEW c \in Cores, pc[c] \in {"off", "eager"}, queue[c] # <<>>
  PROVE  Popped(c).kind # "shootdown"
<1>1. queue[c] \in Seq(Items) /\ ~Active(log, c)
  BY Zenon DEF IInv, TypeOK, InProcess
<1>2. \A k \in 1..Len(queue[c]) : queue[c][k].kind # "shootdown"
  BY <1>1, Zenon DEF IInv, Queued
<1>3. Head(queue[c]) = queue[c][1] /\ 1 \in 1..Len(queue[c])
  BY <1>1, TailFacts
<1>. QED
  BY <1>2, <1>3, Zenon DEF Popped

\* The same without a change of the program counter.
LEMMA StillStep ==
  ASSUME IInv, queue' \in [Cores -> Seq(Items)], \A d \in Cores : QueueKept(d),
         UNCHANGED <<log, applied, pc, target, page, todo, unacked, work, tlb, retired>>
  PROVE  IInv'
<1>1. TypeOK'
  BY Zenon DEF IInv, TypeOK
<1>2. \A d \in Cores : PcKept(d)
  BY Zenon DEF PcKept, IInv, Rounds
<1>3. Local(log, applied')
  BY Zenon DEF IInv
<1>. QED
  BY <1>1, <1>2, <1>3, Calm, Zenon

\* Queues that do not change.
LEMMA SameQueues ==
  ASSUME IInv, UNCHANGED queue
  PROVE  queue' \in [Cores -> Seq(Items)] /\ \A d \in Cores : QueueKept(d)
BY Zenon DEF IInv, TypeOK, QueueKept

\* A queue that loses its first item.
LEMMA QueuePops ==
  ASSUME IInv, NEW c \in Cores, queue[c] # <<>>, queue' = [queue EXCEPT ![c] = Tail(@)]
  PROVE  queue' \in [Cores -> Seq(Items)] /\ \A d \in Cores : QueueKept(d)
<1>1. queue \in [Cores -> Seq(Items)]
  BY Zenon DEF IInv, TypeOK
<1>2. \A d \in Cores : queue'[d] = IF d = c THEN Tail(queue[c]) ELSE queue[d]
  BY <1>1, Zenon
<1>3. Tail(queue[c]) \in Seq(Items)
  <2>1. queue[c] \in Seq(Items)
    BY <1>1, Zenon
  <2>. QED
    BY <2>1, TailFacts
<1>4. queue' \in [Cores -> Seq(Items)]
  BY <1>1, <1>3, Zenon
<1>. QED
  BY <1>2, <1>4, Zenon DEF QueueKept

\* A core that runs or halts is not in a shootdown.
LEMMA NotInitiating ==
  ASSUME IInv, NEW c \in Cores, pc[c] # "enqueue"
  PROVE  todo[c] = {}
BY Zenon DEF IInv, Rounds

\* Steps of cores that run, start or wait for the file system.
LEMMA RunSteps ==
  ASSUME IInv, NEW c \in Cores, NEW n, Start(c) \/ FsCall(c, n) \/ FsDone(c)
  PROVE  IInv'
<1>1. pc[c] # "enqueue" => todo[c] = {}
  BY NotInitiating, Zenon
<1>2. CASE Start(c)
  <2>1. pc' = [pc EXCEPT ![c] = "user"] /\ "user" \in PC /\ pc[c] = "starting"
    BY <1>2 DEF Start, Goto, PC
  <2>2. queue' \in [Cores -> Seq(Items)] /\ \A d \in Cores : QueueKept(d)
    BY <1>2, SameQueues, Zenon DEF Start
  <2>3. UNCHANGED <<log, applied, target, page, todo, unacked, work, tlb, retired>>
    BY <1>2, Zenon DEF Start, process, initiator
  <2>. QED
    BY <1>1, <2>1, <2>2, <2>3, QuietStep, Zenon
<1>3. CASE FsCall(c, n)
  <2>1. pc' = [pc EXCEPT ![c] = "fs_wait"] /\ "fs_wait" \in PC /\ pc[c] = "user"
    BY <1>3 DEF FsCall, Goto, PC
  <2>2. queue' \in [Cores -> Seq(Items)] /\ \A d \in Cores : QueueKept(d)
    BY <1>3, AdvanceQueues, Zenon DEF FsCall
  <2>3. UNCHANGED <<log, applied, target, page, todo, unacked, work, tlb, retired>>
    BY <1>3, Zenon DEF FsCall, process, initiator
  <2>. QED
    BY <1>1, <2>1, <2>2, <2>3, QuietStep, Zenon
<1>4. CASE FsDone(c)
  <2>1. pc' = [pc EXCEPT ![c] = "user"] /\ "user" \in PC /\ pc[c] = "fs_wait"
    BY <1>4 DEF FsDone, Goto, PC
  <2>2. queue' \in [Cores -> Seq(Items)] /\ \A d \in Cores : QueueKept(d)
    BY <1>4, SameQueues, Zenon DEF FsDone
  <2>3. UNCHANGED <<log, applied, target, page, todo, unacked, work, tlb, retired>>
    BY <1>4, Zenon DEF FsDone, process, initiator
  <2>. QED
    BY <1>1, <2>1, <2>2, <2>3, QuietStep, Zenon
<1>. QED
  BY <1>2, <1>3, <1>4, Zenon

\* Steps of the file system and of replicas that leave every core where it is.
LEMMA AdvanceSteps ==
  ASSUME IInv, NEW c \in Cores, NEW n, FsAskAgain(c, n) \/ FsExec(c) \/ EagerAdvance(c)
  PROVE  IInv'
<1>1. CASE FsAskAgain(c, n)
  <2>1. queue' \in [Cores -> Seq(Items)] /\ \A d \in Cores : QueueKept(d)
    BY <1>1, AdvanceQueues, Zenon DEF FsAskAgain
  <2>2. UNCHANGED <<log, applied, pc, target, page, todo, unacked, work, tlb, retired>>
    BY <1>1, Zenon DEF FsAskAgain, process, initiator
  <2>. QED
    BY <2>1, <2>2, StillStep, Zenon
<1>2. CASE FsExec(c)
  <2>1. UNCHANGED <<log, applied, pc, target, page, todo, unacked, queue, work, tlb, retired>>
    BY <1>2, Zenon DEF FsExec, process, initiator
  <2>. QED
    BY <2>1, SameQueues, StillStep, Zenon
<1>3. CASE EagerAdvance(c)
  <2>1. UNCHANGED <<log, applied, pc, target, page, todo, unacked, work, tlb, retired>>
    BY <1>3, Zenon DEF EagerAdvance, process, initiator
  <2>2. pc[c] \in {"off", "eager"}
    BY <1>3, Zenon DEF EagerAdvance
  <2>3. /\ queue \in [Cores -> Seq(Items)]
        /\ queue' = [queue EXCEPT ![c] = IF @ = <<>> THEN @
                       ELSE IF Popped(c).kind = "shootdown" THEN Pushed(Tail(@), Popped(c))
                       ELSE Tail(@)]
    BY <1>3, Zenon DEF EagerAdvance, IInv, TypeOK
  <2>4. CASE queue[c] = <<>>
    <3>1. \A d \in Cores : queue'[d] = queue[d]
      BY <2>3, <2>4, Zenon
    <3>2. queue' \in [Cores -> Seq(Items)] /\ \A d \in Cores : QueueKept(d)
      BY <2>3, <3>1, Zenon DEF QueueKept
    <3>. QED
      BY <2>1, <3>2, StillStep, Zenon
  <2>5. CASE queue[c] # <<>>
    <3>1. queue' = [queue EXCEPT ![c] = Tail(@)]
      BY <2>2, <2>3, <2>5, NoneQueued, Zenon
    <3>2. queue' \in [Cores -> Seq(Items)] /\ \A d \in Cores : QueueKept(d)
      BY <2>5, <3>1, QueuePops, Zenon
    <3>. QED
      BY <2>1, <3>2, StillStep, Zenon
  <2>. QED
    BY <2>4, <2>5, Zenon
<1>. QED
  BY <1>1, <1>2, <1>3, Zenon

\* Steps of the initiator that neither queue nor flush.
LEMMA NotifySteps ==
  ASSUME IInv, NEW c \in Cores, Enqueued(c) \/ Notify(c) \/ Notified(c)
  PROVE  IInv'
<1>1. pc[c] # "enqueue" => todo[c] = {}
  BY NotInitiating, Zenon
<1>2. CASE Enqueued(c)
  <2>1. pc' = [pc EXCEPT ![c] = "notify"] /\ "notify" \in PC /\ pc[c] = "enqueue" /\ todo[c] = {}
    BY <1>2 DEF Enqueued, Goto, PC
  <2>2. queue' \in [Cores -> Seq(Items)] /\ \A d \in Cores : QueueKept(d)
    BY <1>2, SameQueues, Zenon DEF Enqueued
  <2>3. UNCHANGED <<log, applied, target, page, todo, unacked, work, tlb, retired>>
    BY <1>2, Zenon DEF Enqueued, process, initiator
  <2>. QED
    BY <2>1, <2>2, <2>3, QuietStep, Zenon
<1>3. CASE Notify(c)
  <2>1. UNCHANGED <<log, applied, pc, target, page, todo, unacked, queue, work, tlb, retired>>
    BY <1>3, Zenon DEF Notify, process
  <2>. QED
    BY <2>1, SameQueues, StillStep, Zenon
<1>4. CASE Notified(c)
  <2>1. pc' = [pc EXCEPT ![c] = "own"] /\ "own" \in PC /\ pc[c] = "notify"
    BY <1>4 DEF Notified, Goto, PC
  <2>2. queue' \in [Cores -> Seq(Items)] /\ \A d \in Cores : QueueKept(d)
    BY <1>4, SameQueues, Zenon DEF Notified
  <2>3. UNCHANGED <<log, applied, target, page, todo, unacked, work, tlb, retired>>
    BY <1>4, Zenon DEF Notified, process, initiator
  <2>. QED
    BY <1>1, <2>1, <2>2, <2>3, QuietStep, Zenon
<1>. QED
  BY <1>2, <1>3, <1>4, Zenon

\* Operations are called by cores.
LEMMA CoreOf ==
  ASSUME IInv, NEW u \in 1..Len(log)
  PROVE  log[u].core \in Cores
<1>1. log[u] \in Ops
  BY SeqFacts, Zenon DEF IInv, TypeOK
<1>. QED
  BY <1>1, Zenon DEF Ops

\* Translations that disappear while the log stays the same.
LEMMA TranslationsGo ==
  ASSUME IInv, UNCHANGED log,
         \A d \in Cores, q \in Pages : tlb'[d][q] = tlb[d][q] \/ tlb'[d][q] = None,
         \A d \in Cores, q \in Pages, i \in Cores :
            tlb'[d][q] = tlb[d][q] /\ tlb[d][q] # None /\ Guarded(d, q, i) => Guarded(d, q, i)'
  PROVE  Loaded' /\ Covered'
<1>1. Loaded'
  BY Zenon DEF IInv, Loaded
<1>2. Covered'
  <2>1. SUFFICES ASSUME NEW c \in Cores, NEW p \in Pages, NEW m \in 1..Len(log),
                        NEW u \in 1..Len(log), tlb'[c][p] # None,
                        Maps(log, m, p, tlb'[c][p]), Ends(log, m, u),
                        NodeOf[log[u].core] = NodeOf[c]
                 PROVE  Guarded(c, p, log[u].core)'
    BY Zenon DEF Covered
  <2>2. tlb'[c][p] = tlb[c][p]
    BY <2>1, Zenon
  <2>3. Guarded(c, p, log[u].core)
    BY <2>1, <2>2, Zenon DEF IInv, Covered
  <2>4. log[u].core \in Cores
    BY CoreOf, Zenon
  <2>. QED
    BY <2>1, <2>2, <2>3, <2>4, Zenon
<1>. QED
  BY <1>1, <1>2, Zenon

\* The handler takes a shootdown and acknowledges it: until the flush it does
\* not return to user space.
LEMMA TakeShootdown ==
  ASSUME IInv, NEW c \in Cores, pc[c] = "user", queue[c] # <<>>, Popped(c).kind = "shootdown",
         queue' = [queue EXCEPT ![c] = Tail(@)],
         unacked' = [unacked EXCEPT ![Popped(c).from] = @ \ {c}],
         work' = [work EXCEPT ![c] = Popped(c).page], pc' = [pc EXCEPT ![c] = "flush"],
         UNCHANGED <<log, applied, target, page, todo, tlb, retired>>
  PROVE  IInv'
<1>. DEFINE i == Popped(c).from
<1>1. /\ queue \in [Cores -> Seq(Items)] /\ unacked \in [Cores -> SUBSET Cores]
      /\ pc \in [Cores -> PC] /\ work \in [Cores -> Pages \cup {None}]
      /\ page \in [Cores -> Pages \cup {None}]
  BY Zenon DEF IInv, TypeOK
<1>2. Head(queue[c]) = queue[c][1] /\ 1 \in 1..Len(queue[c])
  <2>1. queue[c] \in Seq(Items)
    BY <1>1, Zenon
  <2>. QED
    BY <2>1, TailFacts
<1>3. i \in Cores /\ c \in unacked[i] /\ Popped(c).page = page[i]
  BY <1>2, Zenon DEF IInv, Queued, Awaited, Popped
<1>4. InShootdown(i)
  BY <1>3, Zenon DEF IInv, Rounds
<1>5. \A d \in Cores : /\ pc'[d] = IF d = c THEN "flush" ELSE pc[d]
                       /\ work'[d] = IF d = c THEN page[i] ELSE work[d]
                       /\ unacked'[d] = IF d = i THEN unacked[i] \ {c} ELSE unacked[d]
  BY <1>1, <1>3, Zenon
<1>6. \A d \in Cores : InShootdown(d)' <=> InShootdown(d)
  BY <1>5 DEF InShootdown
<1>7. queue' \in [Cores -> Seq(Items)] /\ \A d \in Cores : QueueKept(d)
  BY QueuePops, Zenon
<1>. HIDE DEF i
<1>8. TypeOK'
  <2>1. "flush" \in PC
    BY DEF PC
  <2>2. pc' \in [Cores -> PC]
    BY <1>1, <2>1, Zenon
  <2>3. work' \in [Cores -> Pages \cup {None}]
    BY <1>1, <1>3, Zenon DEF i
  <2>4. unacked' \in [Cores -> SUBSET Cores]
    BY <1>1, Zenon
  <2>. QED
    BY <1>7, <2>2, <2>3, <2>4, Zenon DEF IInv, TypeOK
<1>9. InProcess'
  BY <1>5 DEF IInv, InProcess
<1>10. Rounds'
  <2>1. \A d \in Cores : unacked'[d] \subseteq unacked[d]
    BY <1>5
  <2>2. \A d \in Cores : pc'[d] # "enqueue" => pc[d] # "enqueue"
    BY <1>5
  <2>. QED
    BY <1>6, <2>1, <2>2, Zenon DEF IInv, Rounds
<1>11. Queued'
  <2>1. SUFFICES ASSUME NEW d \in Cores
                 PROVE  /\ Awaited(queue'[d], d, unacked', page)
                        /\ \A k \in 1..Len(queue'[d]) :
                              queue'[d][k].kind = "shootdown" => Active(log, d)
    BY Zenon DEF Queued
  <2>2. /\ queue[d] \in Seq(Items) /\ Awaited(queue[d], d, unacked, page)
        /\ \A k \in 1..Len(queue[d]) : queue[d][k].kind = "shootdown" => Active(log, d)
    BY Zenon DEF IInv, TypeOK, Queued
  <2>3. CASE d # c
    <3>1. queue'[d] = queue[d]
      BY <1>1, <2>3, Zenon
    <3>2. \A j \in Cores : d \in unacked[j] => d \in unacked'[j] /\ page[j] = page[j]
      BY <1>5, <2>3
    <3>3. Awaited(queue[d], d, unacked', page)
      BY <2>2, <3>2, AwaitedKept, Zenon
    <3>. QED
      BY <2>2, <3>1, <3>3, Zenon
  <2>4. CASE d = c
    <3>1. queue'[c] = Tail(queue[c])
      BY <1>1, Zenon
    <3>2. \A j \in Cores : j # Head(queue[c]).from => unacked'[j] = unacked[j]
      BY <1>5, Zenon DEF i, Popped
    <3>3. Awaited(Tail(queue[c]), c, unacked', page)
      BY <2>2, <2>4, <3>2, AwaitedPop, Zenon DEF Popped
    <3>4. \A k \in 1..Len(Tail(queue[c])) :
             k + 1 \in 1..Len(queue[c]) /\ Tail(queue[c])[k] = queue[c][k + 1]
      BY <2>2, <2>4, TailFacts, Zenon
    <3>. QED
      BY <2>2, <2>4, <3>1, <3>3, <3>4, Zenon
  <2>. QED
    BY <2>3, <2>4, Zenon
<1>12. Loaded' /\ Covered'
  <2>1. SUFFICES ASSUME NEW d \in Cores, NEW q \in Pages, NEW j \in Cores, Guarded(d, q, j)
                 PROVE  Guarded(d, q, j)'
    BY TranslationsGo, Zenon
  <2>2. CASE pc[d] = "flush" /\ work[d] = q
    <3>1. d # c
      BY <2>2
    <3>. QED
      BY <1>5, <2>2, <3>1, Zenon DEF Guarded
  <2>3. CASE /\ InShootdown(j) /\ target[j] = tlb[d][q] /\ page[j] = q
             /\ (d = j /\ pc[j] # "wait") \/ d \in todo[j] \/ d \in unacked[j]
    <3>1. j # c
      BY <2>3 DEF InShootdown
    <3>2. InShootdown(j)' /\ pc'[j] = pc[j]
      BY <1>5, <1>6, <2>3, <3>1, Zenon
    <3>3. CASE d \in unacked[j] /\ d \notin unacked'[j]
      <4>1. j = i /\ d = c
        BY <1>5, <3>3
      <4>2. pc'[d] = "flush" /\ work'[d] = q
        BY <1>5, <2>3, <4>1, Zenon
      <4>. QED
        BY <4>2, Zenon DEF Guarded
    <3>4. CASE ~(d \in unacked[j] /\ d \notin unacked'[j])
      BY <2>3, <3>2, <3>4, Zenon DEF Guarded
    <3>. QED
      BY <3>3, <3>4, Zenon
  <2>. QED
    BY <2>1, <2>2, <2>3, Zenon DEF Guarded
<1>13. Unfinished' /\ Returned' /\ LogOK(log)' /\ Local(log, applied)'
  BY <1>6 DEF IInv, Unfinished, Returned
<1>. QED
  BY <1>8, <1>9, <1>10, <1>11, <1>12, <1>13, Zenon DEF IInv

\* Interrupts: one item of the queue is dequeued.
LEMMA DequeueStep ==
  ASSUME IInv, NEW c \in Cores, pc[c] \in {"user", "off"},
         NEW back \in PC, back \in {"off", "eager"} <=> pc[c] = "off",
         back \in {"user", "eager"}, Dequeue(c, back),
         UNCHANGED <<log, applied, target, page, todo, retired, tlb>>
  PROVE  IInv'
<1>1. todo[c] = {}
  BY NotInitiating
<1>2. CASE queue[c] = <<>>
  <2>1. UNCHANGED <<queue, unacked, work>> /\ pc' = [pc EXCEPT ![c] = back]
    BY <1>2, Zenon DEF Dequeue
  <2>2. queue' \in [Cores -> Seq(Items)] /\ \A d \in Cores : QueueKept(d)
    BY <2>1, SameQueues, Zenon
  <2>. QED
    BY <1>1, <2>1, <2>2, QuietStep, Zenon
<1>3. CASE queue[c] # <<>> /\ Popped(c).kind # "shootdown"
  <2>1. /\ UNCHANGED <<unacked, work>> /\ pc' = [pc EXCEPT ![c] = back]
        /\ queue' = [queue EXCEPT ![c] = Tail(@)]
    BY <1>3, Zenon DEF Dequeue
  <2>2. queue' \in [Cores -> Seq(Items)] /\ \A d \in Cores : QueueKept(d)
    BY <1>3, <2>1, QueuePops, Zenon
  <2>. QED
    BY <1>1, <2>1, <2>2, QuietStep, Zenon
<1>4. CASE queue[c] # <<>> /\ Popped(c).kind = "shootdown"
  <2>1. pc[c] = "user"
    BY <1>4, NoneQueued, Zenon
  <2>2. /\ queue' = [queue EXCEPT ![c] = Tail(@)]
        /\ unacked' = [unacked EXCEPT ![Popped(c).from] = @ \ {c}]
        /\ work' = [work EXCEPT ![c] = Popped(c).page]
        /\ pc' = [pc EXCEPT ![c] = "flush"]
    BY <1>4, Zenon DEF Dequeue
  <2>. QED
    BY <1>4, <2>1, <2>2, TakeShootdown, Zenon
<1>. QED
  BY <1>2, <1>3, <1>4, Zenon

\* The handlers of the two interrupts.
LEMMA InterruptSteps ==
  ASSUME IInv, NEW c \in Cores, TlbInterrupt(c) \/ GcInterrupt(c)
  PROVE  IInv'
<1>1. CASE TlbInterrupt(c)
  <2>1. pc[c] = "user" /\ Dequeue(c, "user") /\ "user" \in PC
    BY <1>1 DEF TlbInterrupt, PC
  <2>2. UNCHANGED <<log, applied, target, page, todo, retired, tlb>>
    BY <1>1, Zenon DEF TlbInterrupt, process
  <2>. QED
    BY <2>1, <2>2, DequeueStep
<1>2. CASE GcInterrupt(c)
  <2>1. pc[c] \in {"user", "off"} /\ Dequeue(c, IF pc[c] = "user" THEN "user" ELSE "eager")
    BY <1>2, Zenon DEF GcInterrupt
  <2>2. UNCHANGED <<log, applied, target, page, todo, retired, tlb>>
    BY <1>2, Zenon DEF GcInterrupt, process
  <2>3. "user" \in PC /\ "eager" \in PC
    BY DEF PC
  <2>4. CASE pc[c] = "user"
    <3>1. Dequeue(c, "user")
      BY <2>1, <2>4, Zenon
    <3>. QED
      BY <2>2, <2>3, <2>4, <3>1, DequeueStep
  <2>5. CASE pc[c] = "off"
    <3>1. Dequeue(c, "eager")
      BY <2>1, <2>5
    <3>. QED
      BY <2>2, <2>3, <2>5, <3>1, DequeueStep
  <2>. QED
    BY <2>1, <2>4, <2>5, Zenon
<1>. QED
  BY <1>1, <1>2, Zenon

\* One translation of a core is dropped.
LEMMA Dropped ==
  ASSUME tlb \in [Cores -> [Pages -> Nat \cup {None}]], NEW c \in Cores, NEW p,
         tlb' = [tlb EXCEPT ![c][p] = None]
  PROVE  /\ tlb' \in [Cores -> [Pages -> Nat \cup {None}]]
         /\ \A d \in Cores, q \in Pages :
               tlb'[d][q] = IF d = c /\ q = p THEN None ELSE tlb[d][q]
<1>1. tlb[c] \in [Pages -> Nat \cup {None}]
  BY Zenon
<1>. DEFINE e == [tlb[c] EXCEPT ![p] = None]
<1>2. e \in [Pages -> Nat \cup {None}] /\ \A q \in Pages : e[q] = IF q = p THEN None ELSE tlb[c][q]
  BY <1>1, Zenon
<1>3. tlb' = [tlb EXCEPT ![c] = e]
  OBVIOUS
<1>. HIDE DEF e
<1>. QED
  BY <1>2, <1>3, Zenon

\* The handler flushes what it has acknowledged.
LEMMA FlushStep ==
  ASSUME IInv, NEW c \in Cores, Flush(c)
  PROVE  IInv'
<1>1. /\ pc[c] = "flush" /\ pc' = [pc EXCEPT ![c] = "user"]
      /\ tlb' = [tlb EXCEPT ![c][work[c]] = None] /\ work' = [work EXCEPT ![c] = None]
      /\ UNCHANGED <<log, applied, target, page, todo, unacked, retired, queue>>
  BY Zenon DEF Flush, Goto, process, initiator
<1>2. /\ pc \in [Cores -> PC] /\ work \in [Cores -> Pages \cup {None}]
      /\ tlb \in [Cores -> [Pages -> Nat \cup {None}]]
  BY Zenon DEF IInv, TypeOK
<1>3. \A d \in Cores : /\ pc'[d] = IF d = c THEN "user" ELSE pc[d]
                       /\ work'[d] = IF d = c THEN None ELSE work[d]
  BY <1>1, <1>2, Zenon
<1>4. /\ tlb' \in [Cores -> [Pages -> Nat \cup {None}]]
      /\ \A d \in Cores, q \in Pages :
            tlb'[d][q] = IF d = c /\ q = work[c] THEN None ELSE tlb[d][q]
  BY <1>1, <1>2, Dropped, Zenon
<1>5. \A d \in Cores : InShootdown(d)' <=> InShootdown(d)
  BY <1>1, <1>3 DEF InShootdown
<1>6. TypeOK'
  <2>1. "user" \in PC
    BY DEF PC
  <2>2. pc' \in [Cores -> PC] /\ work' \in [Cores -> Pages \cup {None}]
    BY <1>1, <1>2, <2>1, Zenon
  <2>. QED
    BY <1>1, <1>4, <2>2, Zenon DEF IInv, TypeOK
<1>7. InProcess'
  BY <1>1, <1>3 DEF IInv, InProcess
<1>8. Rounds'
  <2>1. \A d \in Cores : pc'[d] # "enqueue" => pc[d] # "enqueue"
    BY <1>1, <1>3
  <2>. QED
    BY <1>1, <1>5, <2>1, Zenon DEF IInv, Rounds
<1>9. Queued'
  BY <1>1, Zenon DEF IInv, Queued
<1>10. Loaded' /\ Covered'
  <2>1. SUFFICES ASSUME NEW d \in Cores, NEW q \in Pages, NEW j \in Cores, Guarded(d, q, j),
                        tlb'[d][q] = tlb[d][q], tlb[d][q] # None
                 PROVE  Guarded(d, q, j)'
    BY <1>1, <1>4, TranslationsGo, Zenon
  <2>2. CASE pc[d] = "flush" /\ work[d] = q
    <3>1. d # c
      BY <1>4, <2>1, <2>2, Zenon
    <3>. QED
      BY <1>3, <2>2, <3>1, Zenon DEF Guarded
  <2>3. CASE /\ InShootdown(j) /\ target[j] = tlb[d][q] /\ page[j] = q
             /\ (d = j /\ pc[j] # "wait") \/ d \in todo[j] \/ d \in unacked[j]
    <3>1. j # c
      BY <1>1, <2>3 DEF InShootdown
    <3>2. InShootdown(j)' /\ pc'[j] = pc[j]
      BY <1>3, <1>5, <2>3, <3>1, Zenon
    <3>. QED
      BY <1>1, <2>1, <2>3, <3>2, Zenon DEF Guarded
  <2>. QED
    BY <2>1, <2>2, <2>3, Zenon DEF Guarded
<1>11. Unfinished' /\ Returned' /\ LogOK(log)' /\ Local(log, applied)'
  BY <1>1, <1>5, Zenon DEF IInv, Unfinished, Returned
<1>. QED
  BY <1>6, <1>7, <1>8, <1>9, <1>10, <1>11, Zenon DEF IInv

\* The initiator flushes its own translation of the page.
LEMMA FlushOwnStep ==
  ASSUME IInv, NEW c \in Cores, FlushOwn(c)
  PROVE  IInv'
<1>1. /\ pc[c] = "own" /\ pc' = [pc EXCEPT ![c] = "wait"]
      /\ tlb' = [tlb EXCEPT ![c][page[c]] = None]
      /\ UNCHANGED <<log, applied, target, page, todo, unacked, retired, queue, work>>
  BY Zenon DEF FlushOwn, Goto, process, initiator
<1>2. pc \in [Cores -> PC] /\ tlb \in [Cores -> [Pages -> Nat \cup {None}]]
  BY Zenon DEF IInv, TypeOK
<1>3. \A d \in Cores : pc'[d] = IF d = c THEN "wait" ELSE pc[d]
  BY <1>1, <1>2, Zenon
<1>4. /\ tlb' \in [Cores -> [Pages -> Nat \cup {None}]]
      /\ \A d \in Cores, q \in Pages :
            tlb'[d][q] = IF d = c /\ q = page[c] THEN None ELSE tlb[d][q]
  BY <1>1, <1>2, Dropped, Zenon
<1>5. \A d \in Cores : InShootdown(d)' <=> InShootdown(d)
  BY <1>1, <1>3 DEF InShootdown
<1>6. TypeOK'
  <2>1. "wait" \in PC
    BY DEF PC
  <2>2. pc' \in [Cores -> PC]
    BY <1>1, <1>2, <2>1, Zenon
  <2>. QED
    BY <1>1, <1>4, <2>2, Zenon DEF IInv, TypeOK
<1>7. InProcess'
  BY <1>1, <1>3 DEF IInv, InProcess
<1>8. Rounds'
  <2>1. \A d \in Cores : pc'[d] # "enqueue" => pc[d] # "enqueue"
    BY <1>1, <1>3
  <2>. QED
    BY <1>1, <1>5, <2>1, Zenon DEF IInv, Rounds
<1>9. Queued'
  BY <1>1, Zenon DEF IInv, Queued
<1>10. Loaded' /\ Covered'
  <2>1. SUFFICES ASSUME NEW d \in Cores, NEW q \in Pages, NEW j \in Cores, Guarded(d, q, j),
                        tlb'[d][q] = tlb[d][q], tlb[d][q] # None
                 PROVE  Guarded(d, q, j)'
    BY <1>1, <1>4, TranslationsGo, Zenon
  <2>2. CASE pc[d] = "flush" /\ work[d] = q
    <3>1. d # c
      BY <1>1, <2>2
    <3>. QED
      BY <1>1, <1>3, <2>2, <3>1, Zenon DEF Guarded
  <2>3. CASE /\ InShootdown(j) /\ target[j] = tlb[d][q] /\ page[j] = q
             /\ (d = j /\ pc[j] # "wait") \/ d \in todo[j] \/ d \in unacked[j]
    <3>1. InShootdown(j)' /\ target'[j] = tlb'[d][q] /\ page'[j] = q
      BY <1>1, <1>5, <2>1, <2>3, Zenon
    <3>2. d = j => d # c
      BY <1>4, <2>1, <2>3, Zenon
    <3>3. d = j => pc'[j] = pc[j]
      BY <1>3, <3>2, Zenon
    <3>. QED
      BY <1>1, <2>3, <3>1, <3>3, Zenon DEF Guarded
  <2>. QED
    BY <2>1, <2>2, <2>3, Zenon DEF Guarded
<1>11. Unfinished' /\ Returned' /\ LogOK(log)' /\ Local(log, applied)'
  BY <1>1, <1>5, Zenon DEF IInv, Unfinished, Returned
<1>. QED
  BY <1>6, <1>7, <1>8, <1>9, <1>10, <1>11, Zenon DEF IInv

\* The unmap returns: nobody is left to acknowledge it.
LEMMA WaitDoneStep ==
  ASSUME IInv, NEW c \in Cores, WaitDone(c)
  PROVE  IInv'
<1>1. /\ pc[c] = "wait" /\ pc' = [pc EXCEPT ![c] = "user"] /\ unacked[c] = {}
      /\ retired' = retired \cup {target[c]}
      /\ UNCHANGED <<log, applied, target, page, todo, unacked, queue, work, tlb>>
  BY Zenon DEF WaitDone, Goto, process
<1>2. pc \in [Cores -> PC] /\ log \in Seq(Ops) /\ LogOK(log)
  BY Zenon DEF IInv, TypeOK
<1>3. \A d \in Cores : pc'[d] = IF d = c THEN "user" ELSE pc[d]
  BY <1>1, <1>2, Zenon
<1>4. todo[c] = {}
  BY <1>1, NotInitiating
<1>5. /\ \A d \in Cores : d # c => (InShootdown(d)' <=> InShootdown(d))
      /\ ~InShootdown(c)' /\ InShootdown(c)
  BY <1>1, <1>3 DEF InShootdown
<1>6. TypeOK'
  <2>1. "user" \in PC
    BY DEF PC
  <2>2. pc' \in [Cores -> PC]
    BY <1>1, <1>2, <2>1, Zenon
  <2>. QED
    BY <1>1, <2>2, Zenon DEF IInv, TypeOK
<1>7. InProcess'
  BY <1>1, <1>3 DEF IInv, InProcess
<1>8. Rounds'
  <2>1. \A d \in Cores : pc'[d] # "enqueue" => pc[d] # "enqueue"
    BY <1>1, <1>3
  <2>. QED
    BY <1>1, <1>5, <2>1, Zenon DEF IInv, Rounds
<1>9. Queued'
  BY <1>1, Zenon DEF IInv, Queued
<1>10. Loaded' /\ Covered'
  <2>1. SUFFICES ASSUME NEW d \in Cores, NEW q \in Pages, NEW j \in Cores, Guarded(d, q, j)
                 PROVE  Guarded(d, q, j)'
    BY <1>1, TranslationsGo, Zenon
  <2>2. CASE pc[d] = "flush" /\ work[d] = q
    <3>1. d # c
      BY <1>1, <2>2
    <3>. QED
      BY <1>1, <1>3, <2>2, <3>1, Zenon DEF Guarded
  <2>3. CASE /\ InShootdown(j) /\ target[j] = tlb[d][q] /\ page[j] = q
             /\ (d = j /\ pc[j] # "wait") \/ d \in todo[j] \/ d \in unacked[j]
    <3>1. j # c
      BY <1>1, <1>4, <2>3, Zenon
    <3>2. InShootdown(j)' /\ pc'[j] = pc[j]
      BY <1>3, <1>5, <2>3, <3>1, Zenon
    <3>. QED
      BY <1>1, <2>3, <3>2, Zenon DEF Guarded
  <2>. QED
    BY <2>1, <2>2, <2>3, Zenon DEF Guarded
<1>11. PICK m \in 1..Len(log), u \in 1..Len(log) :
          Maps(log, m, page[c], target[c]) /\ Ends(log, m, u) /\ log[u].core = c
  BY <1>5, Zenon DEF IInv, Unfinished
<1>12. Unfinished'
  <2>1. SUFFICES ASSUME NEW j \in Cores, InShootdown(j)'
                 PROVE  /\ page[j] \in Pages /\ target[j] \notin retired'
                        /\ \E k, v \in 1..Len(log) :
                              Maps(log, k, page[j], target[j]) /\ Ends(log, k, v) /\ log[v].core = j
    BY <1>1, Zenon DEF Unfinished
  <2>2. j # c /\ InShootdown(j)
    BY <1>5, <2>1, Zenon
  <2>3. page[j] \in Pages /\ target[j] \notin retired
    BY <2>2, Zenon DEF IInv, Unfinished
  <2>4. PICK k \in 1..Len(log), v \in 1..Len(log) :
           Maps(log, k, page[j], target[j]) /\ Ends(log, k, v) /\ log[v].core = j
    BY <2>2, Zenon DEF IInv, Unfinished
  <2>5. target[j] # target[c]
    <3>1. SUFFICES ASSUME target[j] = target[c] PROVE FALSE
      BY Zenon
    <3>2. /\ log[m].kind = "map" /\ log[k].kind = "map" /\ log[m].frame = log[k].frame
          /\ Ends(log, m, u) /\ Ends(log, k, v)
      BY <1>11, <2>4, <3>1, Zenon DEF Maps
    <3>3. u = v
      BY <1>2, <3>2, EndUnique
    <3>. QED
      BY <1>11, <2>2, <2>4, <3>3, Zenon
  <2>. QED
    BY <1>1, <2>3, <2>4, <2>5, Zenon
<1>13. Returned'
  <2>1. log[m].kind = "map" /\ log[m].frame = target[c] /\ Ends(log, m, u)
    BY <1>11, Zenon DEF Maps
  <2>2. SUFFICES ASSUME NEW f \in retired'
                 PROVE  \E k, v \in 1..Len(log) :
                           log[k].kind = "map" /\ log[k].frame = f /\ Ends(log, k, v)
    BY <1>1, Zenon DEF Returned
  <2>3. CASE f = target[c]
    BY <2>1, <2>3, Zenon
  <2>4. CASE f \in retired
    BY <2>4, Zenon DEF IInv, Returned
  <2>. QED
    BY <1>1, <2>3, <2>4, Zenon
<1>14. LogOK(log)' /\ Local(log, applied)'
  BY <1>1, Zenon DEF IInv
<1>. QED
  BY <1>6, <1>7, <1>8, <1>9, <1>10, <1>12, <1>13, <1>14, Zenon DEF IInv

\* The initiator queues a shootdown at one core after the other; when the
\* queue is full the item is lost and the core stays unacknowledged.
LEMMA EnqueueStep ==
  ASSUME IInv, NEW c \in Cores, Enqueue(c)
  PROVE  IInv'
<1>. DEFINE t == Min(todo[c])
            it == [kind |-> "shootdown", from |-> c, page |-> page[c]]
<1>1. /\ pc[c] = "enqueue" /\ todo[c] # {}
      /\ queue' = [queue EXCEPT ![t] = Pushed(@, it)]
      /\ todo' = [todo EXCEPT ![c] = @ \ {t}]
      /\ unacked' = [unacked EXCEPT ![c] = @ \cup {t}]
      /\ UNCHANGED <<log, applied, pc, target, page, retired, work, tlb>>
  BY Zenon DEF Enqueue, process
<1>2. /\ queue \in [Cores -> Seq(Items)] /\ unacked \in [Cores -> SUBSET Cores]
      /\ todo \in [Cores -> SUBSET Cores] /\ page \in [Cores -> Pages \cup {None}]
  BY Zenon DEF IInv, TypeOK
<1>3. t \in todo[c]
  <2>1. todo[c] \in SUBSET Nat
    BY <1>2, TlbAssumption, Zenon
  <2>. QED
    BY <1>1, <2>1, MinIs
<1>4. t \in Cores /\ t \notin unacked[c] /\ Active(log, t)
  BY <1>2, <1>3, Zenon DEF IInv, Rounds
<1>5. it \in Items /\ it.kind = "shootdown" /\ it.from = c /\ it.page = page[c]
  BY <1>2 DEF Items
<1>. HIDE DEF t, it
<1>6. /\ \A d \in Cores : /\ todo'[d] = IF d = c THEN todo[c] \ {t} ELSE todo[d]
                          /\ unacked'[d] = IF d = c THEN unacked[c] \cup {t} ELSE unacked[d]
      /\ \A d \in Cores : d # t => queue'[d] = queue[d]
      /\ queue'[t] = queue[t] \/ queue'[t] = Append(queue[t], it)
  BY <1>1, <1>2, <1>4, Zenon DEF Pushed
<1>7. \A d \in Cores : InShootdown(d)' <=> InShootdown(d)
  BY <1>1, Zenon DEF InShootdown
<1>8. TypeOK'
  <2>1. Append(queue[t], it) \in Seq(Items)
    <3>1. queue[t] \in Seq(Items)
      BY <1>2, <1>4, Zenon
    <3>. QED
      BY <1>5, <3>1
  <2>2. \A d \in Cores : queue'[d] \in Seq(Items)
    BY <1>2, <1>6, <2>1, Zenon
  <2>3. queue' \in [Cores -> Seq(Items)]
    BY <1>1, <1>2, <2>2, Zenon
  <2>4. todo' \in [Cores -> SUBSET Cores] /\ unacked' \in [Cores -> SUBSET Cores]
    BY <1>1, <1>2, <1>4, Zenon
  <2>. QED
    BY <1>1, <2>3, <2>4, Zenon DEF IInv, TypeOK
<1>9. InProcess'
  BY <1>1, Zenon DEF IInv, InProcess
<1>10. Rounds'
  <2>1. SUFFICES ASSUME NEW i \in Cores
                 PROVE  /\ ~InShootdown(i)' => unacked'[i] = {}
                        /\ pc[i] # "enqueue" => todo'[i] = {}
                        /\ todo'[i] \cap unacked'[i] = {}
                        /\ \A d \in todo'[i] : Active(log, d)
    BY <1>1, Zenon DEF Rounds
  <2>2. /\ ~InShootdown(i) => unacked[i] = {}
        /\ pc[i] # "enqueue" => todo[i] = {}
        /\ todo[i] \cap unacked[i] = {}
        /\ \A d \in todo[i] : Active(log, d)
    BY Zenon DEF IInv, Rounds
  <2>3. InShootdown(c)
    BY <1>1 DEF InShootdown
  <2>4. CASE i = c
    BY <1>1, <1>6, <1>7, <2>2, <2>3, <2>4
  <2>5. CASE i # c
    BY <1>6, <1>7, <2>2, <2>5, Zenon
  <2>. QED
    BY <2>4, <2>5, Zenon
<1>11. Queued'
  <2>1. SUFFICES ASSUME NEW d \in Cores
                 PROVE  /\ Awaited(queue'[d], d, unacked', page)
                        /\ \A k \in 1..Len(queue'[d]) :
                              queue'[d][k].kind = "shootdown" => Active(log, d)
    BY <1>1, Zenon DEF Queued
  <2>2. /\ queue[d] \in Seq(Items) /\ Awaited(queue[d], d, unacked, page)
        /\ \A k \in 1..Len(queue[d]) : queue[d][k].kind = "shootdown" => Active(log, d)
    BY Zenon DEF IInv, TypeOK, Queued
  <2>3. \A j \in Cores : d \in unacked[j] => d \in unacked'[j] /\ page[j] = page[j]
    BY <1>6, Zenon
  <2>4. CASE queue'[d] = queue[d]
    <3>1. Awaited(queue[d], d, unacked', page)
      BY <2>2, <2>3, AwaitedKept, Zenon
    <3>. QED
      BY <2>2, <2>4, <3>1, Zenon
  <2>5. CASE d = t /\ queue'[d] = Append(queue[d], it)
    <3>1. d \notin unacked[c] /\ d \in unacked'[c]
      BY <1>4, <1>6, <2>5, Zenon
    <3>2. Awaited(Append(queue[d], it), d, unacked', page)
      BY <1>5, <2>2, <2>3, <3>1, AwaitedNew, Zenon
    <3>. QED
      BY <1>4, <2>5, <3>2, Zenon
  <2>. QED
    BY <1>6, <2>4, <2>5, Zenon
<1>12. Loaded' /\ Covered'
  <2>1. SUFFICES ASSUME NEW d \in Cores, NEW q \in Pages, NEW j \in Cores, Guarded(d, q, j)
                 PROVE  Guarded(d, q, j)'
    BY <1>1, TranslationsGo, Zenon
  <2>2. d \in todo[j] \/ d \in unacked[j] => d \in todo'[j] \/ d \in unacked'[j]
    BY <1>6, Zenon
  <2>. QED
    BY <1>1, <1>7, <2>1, <2>2, Zenon DEF Guarded
<1>13. Unfinished' /\ Returned' /\ LogOK(log)' /\ Local(log, applied)'
  BY <1>1, <1>7 DEF IInv, Unfinished, Returned
<1>. QED
  BY <1>8, <1>9, <1>10, <1>11, <1>12, <1>13, Zenon DEF IInv

\* The page walker: what an unmap of the node has removed is not loaded again.
LEMMA AccessStep ==
  ASSUME IInv, NEW c \in Cores, NEW p \in Pages, Access(c, p)
  PROVE  IInv'
<1>. DEFINE n == NodeOf[c]
            f == Mapping(p, applied[n])
<1>1. /\ pc[c] = "user" /\ f # None /\ tlb' = [tlb EXCEPT ![c][p] = f]
      /\ UNCHANGED <<log, applied, pc, target, page, todo, unacked, retired, queue, work>>
  BY Zenon DEF Access, process, initiator
<1>2. /\ log \in Seq(Ops) /\ applied \in [Nodes -> Nat] /\ LogOK(log) /\ Local(log, applied)
      /\ tlb \in [Cores -> [Pages -> Nat \cup {None}]]
  BY Zenon DEF IInv, TypeOK
<1>3. n \in Nodes
  BY DEF Nodes
<1>4. applied[n] \in Nat /\ applied[n] <= Len(log)
  BY <1>2, <1>3, Zenon DEF Local
<1>5. f \in Nat
  BY <1>1, <1>2, <1>4, Mapped
<1>6. PICK m \in 1..Len(log) :
          /\ m <= applied[n] /\ Maps(log, m, p, f)
          /\ \A j \in 1..Len(log) : m < j /\ j <= applied[n] => ~Touches(log, j, p)
  BY <1>1, <1>2, <1>4, Mapped, Zenon
<1>7. /\ tlb' \in [Cores -> [Pages -> Nat \cup {None}]]
      /\ \A d \in Cores, q \in Pages : tlb'[d][q] = IF d = c /\ q = p THEN f ELSE tlb[d][q]
  <2>. DEFINE e == [tlb[c] EXCEPT ![p] = f]
  <2>1. tlb[c] \in [Pages -> Nat \cup {None}]
    BY <1>2, Zenon
  <2>. HIDE DEF f
  <2>2. /\ e \in [Pages -> Nat \cup {None}]
        /\ \A q \in Pages : e[q] = IF q = p THEN f ELSE tlb[c][q]
    BY <1>5, <2>1, Zenon
  <2>3. tlb' = [tlb EXCEPT ![c] = e]
    BY <1>1
  <2>. HIDE DEF e
  <2>. QED
    BY <1>2, <2>2, <2>3, Zenon
<1>. HIDE DEF f
<1>8. \A d \in Cores : InShootdown(d)' <=> InShootdown(d)
  BY <1>1, Zenon DEF InShootdown
<1>9. TypeOK'
  BY <1>1, <1>7, Zenon DEF IInv, TypeOK
<1>10. InProcess' /\ Rounds' /\ Queued'
  BY <1>1, <1>8, Zenon DEF IInv, InProcess, Rounds, Queued
<1>11. Loaded'
  <2>1. Active(log, c)
    BY <1>1 DEF IInv, InProcess
  <2>. QED
    BY <1>1, <1>6, <1>7, <2>1 DEF IInv, Loaded
<1>12. Covered'
  <2>1. SUFFICES ASSUME NEW d \in Cores, NEW q \in Pages, NEW k \in 1..Len(log),
                        NEW u \in 1..Len(log), tlb'[d][q] # None,
                        Maps(log, k, q, tlb'[d][q]), Ends(log, k, u),
                        NodeOf[log[u].core] = NodeOf[d]
                 PROVE  Guarded(d, q, log[u].core)'
    BY <1>1, Zenon DEF Covered
  <2>2. CASE d = c /\ q = p
    <3>1. Maps(log, k, p, f) /\ Ends(log, k, u)
      BY <1>7, <2>1, <2>2, Zenon
    <3>2. k = m
      BY <1>2, <1>6, <3>1, Zenon DEF LogOK, Maps
    <3>3. u <= applied[n]
      BY <1>2, <2>1, <2>2, Zenon DEF Local
    <3>4. m < u /\ Touches(log, u, p)
      BY <3>1, <3>2 DEF Ends, Removes, Touches, Maps
    <3>. QED
      BY <1>6, <3>3, <3>4, Zenon
  <2>3. CASE ~(d = c /\ q = p)
    <3>1. tlb'[d][q] = tlb[d][q]
      BY <1>7, <2>3, Zenon
    <3>2. Guarded(d, q, log[u].core)
      BY <2>1, <3>1, Zenon DEF IInv, Covered
    <3>3. log[u].core \in Cores
      BY CoreOf, Zenon
    <3>. QED
      BY <1>1, <1>8, <3>1, <3>2, <3>3, Zenon DEF Guarded
  <2>. QED
    BY <2>2, <2>3, Zenon
<1>13. Unfinished' /\ Returned' /\ LogOK(log)' /\ Local(log, applied)'
  BY <1>1, <1>8, Zenon DEF IInv, Unfinished, Returned
<1>. QED
  BY <1>9, <1>10, <1>11, <1>12, <1>13, Zenon DEF IInv

\* What the invariant says of operations that are in the log stays true when
\* the log grows.
LEMMA Remembered ==
  ASSUME IInv, NEW op \in Ops, log' = Append(log, op)
  PROVE  /\ \A d \in Cores : Active(log, d) => Active(log', d)
         /\ \A k \in 1..Len(log) : k \in 1..Len(log') /\ log'[k] = log[k]
         /\ \A k \in 1..Len(log) : \A q, f : Maps(log', k, q, f) <=> Maps(log, k, q, f)
         /\ \A k, v \in 1..Len(log) : Ends(log', k, v) <=> Ends(log, k, v)
         /\ \A k, v \in 1..Len(log') :
               Ends(log', k, v) => /\ k \in 1..Len(log)
                                   /\ v \in 1..Len(log) \/ v = Len(log) + 1
<1>1. log \in Seq(Ops)
  BY Zenon DEF IInv, TypeOK
<1>2. /\ Len(log) \in Nat /\ Len(log') = Len(log) + 1
      /\ \A k \in 1..Len(log) : k \in 1..(Len(log) + 1) /\ log'[k] = log[k]
      /\ \A k \in 1..(Len(log) + 1) : k # Len(log) + 1 => k \in 1..Len(log)
  BY <1>1, LogGrows
<1>3. \A d \in Cores : Active(log, d) => Active(log', d)
  BY <1>1, ActiveGrows
<1>4. \A k \in 1..Len(log) : \A q, f : Maps(log', k, q, f) <=> Maps(log, k, q, f)
  BY <1>1, MapsGrow, Zenon
<1>5. \A k, v \in 1..Len(log) : Ends(log', k, v) <=> Ends(log, k, v)
  BY <1>1, EndsGrow
<1>6. ASSUME NEW k \in 1..Len(log'), NEW v \in 1..Len(log'), Ends(log', k, v)
      PROVE  k \in 1..Len(log) /\ (v \in 1..Len(log) \/ v = Len(log) + 1)
  <2>1. k < v
    BY <1>6, Zenon DEF Ends
  <2>2. k # Len(log) + 1
    BY <1>2, <2>1
  <2>. QED
    BY <1>2, <2>2, Zenon
<1>. QED
  BY <1>2, <1>3, <1>4, <1>5, <1>6, Zenon

\* An operation that does not unmap.
LEMMA NoUnmap ==
  ASSUME IInv, NEW op \in Ops, op.kind # "unmap", log' = Append(log, op),
         UNCHANGED <<target, page, todo, unacked, work, tlb, retired>>,
         \A d \in Cores : /\ InShootdown(d)' <=> InShootdown(d)
                          /\ pc'[d] = "flush" <=> pc[d] = "flush"
                          /\ pc'[d] = "wait" <=> pc[d] = "wait"
  PROVE  Loaded' /\ Covered' /\ Unfinished' /\ Returned'
<1>1. /\ \A d \in Cores : Active(log, d) => Active(log', d)
      /\ \A k \in 1..Len(log) : k \in 1..Len(log') /\ log'[k] = log[k]
      /\ \A k \in 1..Len(log) : \A q, f : Maps(log', k, q, f) <=> Maps(log, k, q, f)
      /\ \A k, v \in 1..Len(log) : Ends(log', k, v) <=> Ends(log, k, v)
  BY Remembered, Zenon
<1>2. \A k, v \in 1..Len(log') : Ends(log', k, v) => k \in 1..Len(log) /\ v \in 1..Len(log)
  <2>1. SUFFICES ASSUME NEW k \in 1..Len(log'), NEW v \in 1..Len(log'), Ends(log', k, v)
                 PROVE  k \in 1..Len(log) /\ v \in 1..Len(log)
    BY Zenon
  <2>2. k \in 1..Len(log) /\ (v \in 1..Len(log) \/ v = Len(log) + 1)
    BY <2>1, Remembered, Zenon
  <2>3. v # Len(log) + 1
    <3>1. log \in Seq(Ops)
      BY Zenon DEF IInv, TypeOK
    <3>2. ~Ends(Append(log, op), k, Len(log) + 1)
      BY <2>2, <3>1, EndsLast
    <3>. QED
      BY <2>1, <3>2, Zenon
  <2>. QED
    BY <2>2, <2>3, Zenon
<1>3. Loaded'
  BY <1>1, Zenon DEF IInv, Loaded
<1>4. Covered'
  <2>1. SUFFICES ASSUME NEW d \in Cores, NEW q \in Pages, NEW m \in 1..Len(log'),
                        NEW u \in 1..Len(log'), tlb[d][q] # None,
                        Maps(log', m, q, tlb[d][q]), Ends(log', m, u),
                        NEW i, i = log'[u].core, NodeOf[i] = NodeOf[d]
                 PROVE  Guarded(d, q, i)'
    BY Zenon DEF Covered
  <2>2. m \in 1..Len(log) /\ u \in 1..Len(log)
    BY <1>2, <2>1, Zenon
  <2>3. log[u].core = i
    BY <1>1, <2>1, <2>2, Zenon
  <2>4. Guarded(d, q, i)
    BY <1>1, <2>1, <2>2, <2>3, Zenon DEF IInv, Covered
  <2>5. i \in Cores
    BY <2>2, <2>3, CoreOf, Zenon
  <2>. QED
    BY <2>4, <2>5, Zenon DEF Guarded
<1>5. Unfinished'
  <2>1. SUFFICES ASSUME NEW i \in Cores, InShootdown(i)
                 PROVE  /\ page[i] \in Pages /\ target[i] \notin retired
                        /\ \E m, u \in 1..Len(log') :
                              /\ Maps(log', m, page[i], target[i]) /\ Ends(log', m, u)
                              /\ log'[u].core = i
    BY DEF Unfinished
  <2>2. page[i] \in Pages /\ target[i] \notin retired
    BY <2>1, Zenon DEF IInv, Unfinished
  <2>3. PICK m \in 1..Len(log), u \in 1..Len(log) :
           Maps(log, m, page[i], target[i]) /\ Ends(log, m, u) /\ log[u].core = i
    BY <2>1, Zenon DEF IInv, Unfinished
  <2>. QED
    BY <1>1, <2>2, <2>3, Zenon
<1>6. Returned'
  <2>1. SUFFICES ASSUME NEW f \in retired
                 PROVE  \E m, u \in 1..Len(log') :
                           log'[m].kind = "map" /\ log'[m].frame = f /\ Ends(log', m, u)
    BY Zenon DEF Returned
  <2>2. PICK m \in 1..Len(log), u \in 1..Len(log) :
           log[m].kind = "map" /\ log[m].frame = f /\ Ends(log, m, u)
    BY <2>1, Zenon DEF IInv, Returned
  <2>. QED
    BY <1>1, <2>2, Zenon
<1>. QED
  BY <1>3, <1>4, <1>5, <1>6, Zenon

\* A new frame is mapped.
LEMMA MapStep ==
  ASSUME IInv, NEW c \in Cores, NEW p \in Pages, Map(c, p)
  PROVE  IInv'
<1>. DEFINE f == Cardinality(UsedFrames) + 1
            op == [kind |-> "map", core |-> c, page |-> p, frame |-> f]
<1>1. /\ pc[c] = "user" /\ Mapping(p, Len(log)) = None /\ log' = Append(log, op)
      /\ applied' = [applied EXCEPT ![NodeOf[c]] = Len(log) + 1]
      /\ UNCHANGED <<pc, target, page, todo, unacked, retired, queue, work, tlb>>
  BY Zenon DEF Map, Execute, initiator
<1>2. log \in Seq(Ops) /\ LogOK(log) /\ applied \in [Nodes -> Nat] /\ Local(log, applied)
  BY Zenon DEF IInv, TypeOK
<1>3. f = Cardinality(Frames(log)) + 1 /\ f \in Nat
  <2>1. UsedFrames = Frames(log)
    BY Zenon DEF UsedFrames, Frames
  <2>2. PICK n \in Nat : Frames(log) = 1..n
    BY <1>2, Zenon DEF LogOK
  <2>3. Cardinality(1..n) = n
    BY FS_Interval
  <2>. QED
    BY <2>1, <2>2, <2>3
<1>4. op \in Ops /\ op.kind = "map" /\ op.page = p /\ op.frame = f /\ op.core = c
  BY <1>3 DEF Ops
<1>. HIDE DEF f, op
<1>5. \A j \in 1..Len(log) : log[j].kind = "map" /\ log[j].page = op.page =>
         \E u \in 1..Len(log) : j < u /\ Removes(log, u, op.page)
  BY <1>1, <1>2, <1>4, NotMapped
<1>6. LogOK(log')
  BY <1>1, <1>2, <1>3, <1>4, <1>5, LogOKMap
<1>7. Local(log', applied') /\ applied' \in [Nodes -> Nat]
  BY <1>1, <1>2, <1>4, LocalGrows, Zenon
<1>8. TypeOK'
  <2>1. log' \in Seq(Ops)
    BY <1>1, <1>2, <1>4, LogGrows
  <2>. QED
    BY <1>1, <1>7, <2>1, Zenon DEF IInv, TypeOK
<1>9. \A d \in Cores : Active(log', d) <=> Active(log, d)
  BY <1>1, <1>2, <1>4, ActiveGrows
<1>10. \A d \in Cores : InShootdown(d)' <=> InShootdown(d)
  BY <1>1, Zenon DEF InShootdown
<1>11. InProcess'
  BY <1>1, <1>9, Zenon DEF IInv, InProcess
<1>12. Rounds'
  <2>1. todo \in [Cores -> SUBSET Cores]
    BY Zenon DEF IInv, TypeOK
  <2>. QED
    BY <1>1, <1>9, <1>10, <2>1, Zenon DEF IInv, Rounds
<1>13. Queued'
  BY <1>1, <1>9, Zenon DEF IInv, Queued
<1>14. op.kind # "unmap"
  BY <1>4
<1>15. Loaded' /\ Covered' /\ Unfinished' /\ Returned'
  BY <1>1, <1>4, <1>10, <1>14, NoUnmap, Zenon
<1>. QED
  BY <1>6, <1>7, <1>8, <1>11, <1>12, <1>13, <1>15, Zenon DEF IInv

\* A free core joins the process.
LEMMA AssignStep ==
  ASSUME IInv, NEW c \in Cores, AssignExecutor(c)
  PROVE  IInv'
<1>. DEFINE op == [kind |-> "assign", core |-> c, page |-> None, frame |-> None]
<1>1. /\ pc[c] = "off" /\ pc' = [pc EXCEPT ![c] = "starting"] /\ log' = Append(log, op)
      /\ applied' = [applied EXCEPT ![NodeOf[c]] = Len(log) + 1]
      /\ UNCHANGED <<target, page, todo, unacked, retired, queue, work, tlb>>
  BY Zenon DEF AssignExecutor, Goto, Execute, initiator
<1>2. /\ log \in Seq(Ops) /\ LogOK(log) /\ applied \in [Nodes -> Nat] /\ Local(log, applied)
      /\ pc \in [Cores -> PC] /\ todo \in [Cores -> SUBSET Cores]
  BY Zenon DEF IInv, TypeOK
<1>3. /\ op \in Ops /\ op.kind = "assign" /\ op.core = c /\ op.frame = None
      /\ op.kind # "map" /\ op.kind # "unmap"
  BY DEF Ops
<1>. HIDE DEF op
<1>4. LogOK(log')
  BY <1>1, <1>2, <1>3, LogOKOther
<1>5. Local(log', applied') /\ applied' \in [Nodes -> Nat]
  BY <1>1, <1>2, <1>3, LocalGrows, Zenon
<1>6. \A d \in Cores : pc'[d] = IF d = c THEN "starting" ELSE pc[d]
  BY <1>1, <1>2, Zenon
<1>7. TypeOK'
  <2>1. log' \in Seq(Ops)
    BY <1>1, <1>2, <1>3, LogGrows
  <2>2. "starting" \in PC
    BY DEF PC
  <2>3. pc' \in [Cores -> PC]
    BY <1>1, <1>2, <2>2, Zenon
  <2>. QED
    BY <1>1, <1>5, <2>1, <2>3, Zenon DEF IInv, TypeOK
<1>8. \A d \in Cores : Active(log', d) <=> Active(log, d) \/ d = c
  BY <1>1, <1>2, <1>3, ActiveGrows
<1>9. \A d \in Cores : /\ InShootdown(d)' <=> InShootdown(d)
                       /\ pc'[d] = "flush" <=> pc[d] = "flush"
                       /\ pc'[d] = "wait" <=> pc[d] = "wait"
                       /\ pc'[d] = "enqueue" <=> pc[d] = "enqueue"
  BY <1>1, <1>6 DEF InShootdown
<1>10. InProcess'
  <2>1. \A d \in Cores : pc[d] \in {"off", "eager"} <=> ~Active(log, d)
    BY Zenon DEF IInv, InProcess
  <2>2. \A d \in Cores : pc'[d] \in {"off", "eager"} <=> ~Active(log', d)
    BY <1>6, <1>8, <2>1
  <2>. QED
    BY <2>2, Zenon DEF InProcess
<1>11. Rounds'
  BY <1>1, <1>2, <1>8, <1>9, Zenon DEF IInv, Rounds
<1>12. Queued'
  BY <1>1, <1>8, Zenon DEF IInv, Queued
<1>13. Loaded' /\ Covered' /\ Unfinished' /\ Returned'
  BY <1>1, <1>3, <1>9, NoUnmap, Zenon
<1>. QED
  BY <1>4, <1>5, <1>7, <1>10, <1>11, <1>12, <1>13, Zenon DEF IInv

\* The cores an unmap returns are the cores of the process.
LEMMA ActiveCoresAre ==
  ASSUME NEW d
  PROVE  d \in ActiveCores(Len(log)) <=> Active(log, d)
BY Zenon DEF ActiveCores, Active

\* What is mapped at page p before an unmap is the only mapping of p that was
\* not removed, and its unmap has not returned.
LEMMA MappedOnce ==
  ASSUME IInv, NEW p \in Pages, Mapping(p, Len(log)) # None
  PROVE  /\ Mapping(p, Len(log)) \in Nat \ retired
         /\ \E m \in 1..Len(log) :
               /\ Maps(log, m, p, Mapping(p, Len(log)))
               /\ \A j \in 1..Len(log) : m < j => ~Removes(log, j, p)
               /\ \A k \in 1..Len(log) :
                     /\ log[k].kind = "map" /\ log[k].page = p
                     /\ \A j \in 1..Len(log) : k < j => ~Removes(log, j, p)
                     => k = m
<1>. DEFINE f == Mapping(p, Len(log))
<1>1. log \in Seq(Ops) /\ LogOK(log) /\ Len(log) \in Nat /\ Len(log) <= Len(log)
  <2>1. log \in Seq(Ops) /\ LogOK(log)
    BY Zenon DEF IInv, TypeOK
  <2>. QED
    BY <2>1
<1>2. f \in Nat
  BY <1>1, Mapped
<1>3. PICK m \in 1..Len(log) :
          /\ m <= Len(log) /\ Maps(log, m, p, f)
          /\ \A j \in 1..Len(log) : m < j /\ j <= Len(log) => ~Touches(log, j, p)
  BY <1>1, Mapped
<1>. HIDE DEF f
<1>4. \A j \in 1..Len(log) : m < j => ~Touches(log, j, p)
  BY <1>1, <1>3
<1>5. \A j \in 1..Len(log) : m < j => ~Removes(log, j, p)
  BY <1>4 DEF Removes, Touches
<1>6. ASSUME NEW k \in 1..Len(log), log[k].kind = "map", log[k].page = p,
             \A j \in 1..Len(log) : k < j => ~Removes(log, j, p)
      PROVE  k = m
  <2>1. log[m].kind = "map" /\ log[m].page = p
    BY <1>3, Zenon DEF Maps
  <2>2. ~(m < k)
    BY <1>4, <1>6 DEF Touches
  <2>3. ~(k < m)
    <3>1. SUFFICES ASSUME k < m PROVE FALSE
      BY Zenon
    <3>2. \E u \in 1..Len(log) : k < u /\ u < m /\ Removes(log, u, p)
      BY <1>1, <1>6, <2>1, <3>1 DEF LogOK
    <3>. QED
      BY <1>6, <3>2, Zenon
  <2>. QED
    BY <1>1, <2>2, <2>3
<1>7. f \notin retired
  <2>1. SUFFICES ASSUME f \in retired PROVE FALSE
    BY Zenon
  <2>2. PICK k \in 1..Len(log), u \in 1..Len(log) :
           log[k].kind = "map" /\ log[k].frame = f /\ Ends(log, k, u)
    BY <2>1, Zenon DEF IInv, Returned
  <2>3. k = m
    BY <1>1, <1>3, <2>2, Zenon DEF LogOK, Maps
  <2>4. m < u /\ Removes(log, u, p)
    BY <1>3, <2>2, <2>3, Zenon DEF Ends, Maps
  <2>. QED
    BY <1>5, <2>4, Zenon
<1>. QED
  BY <1>2, <1>3, <1>5, <1>6, <1>7, Zenon DEF f

\* An unmap: every core of the process that may have the translation is to be
\* told, and the caller will flush its own.
LEMMA UnmapStep ==
  ASSUME IInv, NEW c \in Cores, NEW p \in Pages, Unmap(c, p)
  PROVE  IInv'
<1>. DEFINE op == [kind |-> "unmap", core |-> c, page |-> p, frame |-> None]
            f == Mapping(p, Len(log))
            told == ActiveCores(Len(log)) \ {c}
<1>1. /\ pc[c] = "user" /\ pc' = [pc EXCEPT ![c] = "enqueue"] /\ log' = Append(log, op)
      /\ applied' = [applied EXCEPT ![NodeOf[c]] = Len(log) + 1]
      /\ f # None /\ page' = [page EXCEPT ![c] = p] /\ target' = [target EXCEPT ![c] = f]
      /\ todo' = [todo EXCEPT ![c] = told]
      /\ UNCHANGED <<unacked, retired, queue, work, tlb>>
  BY Zenon DEF Unmap, Goto, Execute
<1>2. /\ log \in Seq(Ops) /\ LogOK(log) /\ applied \in [Nodes -> Nat] /\ Local(log, applied)
      /\ pc \in [Cores -> PC] /\ todo \in [Cores -> SUBSET Cores]
      /\ page \in [Cores -> Pages \cup {None}] /\ target \in [Cores -> Nat \cup {None}]
  BY Zenon DEF IInv, TypeOK
<1>3. /\ op \in Ops /\ op.kind = "unmap" /\ op.core = c /\ op.frame = None /\ op.page = p
      /\ op.kind # "map" /\ op.kind # "assign"
  BY DEF Ops
<1>4. \A d : d \in told <=> Active(log, d) /\ d # c
  BY ActiveCoresAre, Zenon
<1>5. told \subseteq Cores
  <2>1. \A d : Active(log, d) => d \in Cores
    <3>1. SUFFICES ASSUME NEW j \in 1..Len(log)
                   PROVE  log[j].core \in Cores
      BY Zenon DEF Active
    <3>. QED
      BY CoreOf, Zenon
  <2>. QED
    BY <1>4, <2>1, Zenon
<1>6. f \in Nat \ retired
  BY <1>1, MappedOnce, Zenon
<1>7. PICK m \in 1..Len(log) :
         /\ Maps(log, m, p, f)
         /\ \A j \in 1..Len(log) : m < j => ~Removes(log, j, p)
         /\ \A k \in 1..Len(log) :
               /\ log[k].kind = "map" /\ log[k].page = p
               /\ \A j \in 1..Len(log) : k < j => ~Removes(log, j, p)
               => k = m
  BY <1>1, MappedOnce, Zenon
<1>. HIDE DEF op, f, told
<1>8. LogOK(log')
  BY <1>1, <1>2, <1>3, LogOKOther
<1>9. Local(log', applied') /\ applied' \in [Nodes -> Nat]
  BY <1>1, <1>2, <1>3, LocalGrows, Zenon
<1>10. \A d \in Cores : /\ pc'[d] = IF d = c THEN "enqueue" ELSE pc[d]
                        /\ page'[d] = IF d = c THEN p ELSE page[d]
                        /\ target'[d] = IF d = c THEN f ELSE target[d]
                        /\ todo'[d] = IF d = c THEN told ELSE todo[d]
  BY <1>1, <1>2, Zenon
<1>11. TypeOK'
  <2>1. log' \in Seq(Ops)
    BY <1>1, <1>2, <1>3, LogGrows
  <2>2. "enqueue" \in PC
    BY DEF PC
  <2>3. pc' \in [Cores -> PC]
    BY <1>1, <1>2, <2>2, Zenon
  <2>4. page' \in [Cores -> Pages \cup {None}] /\ todo' \in [Cores -> SUBSET Cores]
    BY <1>1, <1>2, <1>5, Zenon
  <2>5. target' \in [Cores -> Nat \cup {None}]
    BY <1>1, <1>2, <1>6, Zenon
  <2>. QED
    BY <1>1, <1>9, <2>1, <2>3, <2>4, <2>5, Zenon DEF IInv, TypeOK
<1>12. \A d \in Cores : Active(log', d) <=> Active(log, d)
  BY <1>1, <1>2, <1>3, ActiveGrows
<1>13. /\ \A d \in Cores : d # c => (InShootdown(d)' <=> InShootdown(d))
       /\ InShootdown(c)' /\ ~InShootdown(c) /\ pc'[c] # "wait" /\ pc[c] # "flush"
  BY <1>1, <1>10 DEF InShootdown
<1>14. InProcess'
  <2>1. \A d \in Cores : pc[d] \in {"off", "eager"} <=> ~Active(log, d)
    BY Zenon DEF IInv, InProcess
  <2>2. \A d \in Cores : pc'[d] \in {"off", "eager"} <=> ~Active(log', d)
    BY <1>1, <1>10, <1>12, <2>1
  <2>. QED
    BY <2>2, Zenon DEF InProcess
<1>15. unacked[c] = {}
  BY <1>13, Zenon DEF IInv, Rounds
<1>16. Rounds'
  <2>1. SUFFICES ASSUME NEW i \in Cores
                 PROVE  /\ ~InShootdown(i)' => unacked[i] = {}
                        /\ pc'[i] # "enqueue" => todo'[i] = {}
                        /\ todo'[i] \cap unacked[i] = {}
                        /\ \A d \in todo'[i] : Active(log', d)
    BY <1>1, Zenon DEF Rounds
  <2>2. CASE i = c
    <3>1. \A d \in told : Active(log', d)
      BY <1>4, <1>5, <1>12, Zenon
    <3>. QED
      BY <1>10, <1>13, <1>15, <2>2, <3>1, Zenon
  <2>3. CASE i # c
    <3>1. /\ ~InShootdown(i) => unacked[i] = {}
          /\ pc[i] # "enqueue" => todo[i] = {}
          /\ todo[i] \cap unacked[i] = {}
          /\ \A d \in todo[i] : Active(log, d)
      BY Zenon DEF IInv, Rounds
    <3>2. pc'[i] = pc[i] /\ todo'[i] = todo[i] /\ todo[i] \subseteq Cores
      BY <1>2, <1>10, <2>3, Zenon
    <3>. QED
      BY <1>12, <1>13, <2>3, <3>1, <3>2, Zenon
  <2>. QED
    BY <2>2, <2>3, Zenon
<1>17. Queued'
  <2>1. SUFFICES ASSUME NEW d \in Cores
                 PROVE  /\ Awaited(queue[d], d, unacked, page')
                        /\ \A k \in 1..Len(queue[d]) :
                              queue[d][k].kind = "shootdown" => Active(log', d)
    BY <1>1, Zenon DEF Queued
  <2>2. /\ Awaited(queue[d], d, unacked, page)
        /\ \A k \in 1..Len(queue[d]) : queue[d][k].kind = "shootdown" => Active(log, d)
    BY Zenon DEF IInv, Queued
  <2>3. \A j \in Cores : d \in unacked[j] => d \in unacked[j] /\ page'[j] = page[j]
    BY <1>10, <1>15, Zenon
  <2>4. Awaited(queue[d], d, unacked, page')
    BY <2>2, <2>3, AwaitedKept, Zenon
  <2>. QED
    BY <1>12, <2>2, <2>4, Zenon
<1>18. /\ \A d \in Cores : Active(log, d) => Active(log', d)
       /\ \A k \in 1..Len(log) : k \in 1..Len(log') /\ log'[k] = log[k]
       /\ \A k \in 1..Len(log) : \A q, g : Maps(log', k, q, g) <=> Maps(log, k, q, g)
       /\ \A k, v \in 1..Len(log) : Ends(log', k, v) <=> Ends(log, k, v)
       /\ \A k, v \in 1..Len(log') :
             Ends(log', k, v) => k \in 1..Len(log) /\ (v \in 1..Len(log) \/ v = Len(log) + 1)
  BY <1>1, <1>3, Remembered, Zenon
<1>19. \A k \in 1..Len(log) : Ends(log', k, Len(log) + 1) <=>
          log[k].page = p /\ \A j \in 1..Len(log) : k < j => ~Removes(log, j, p)
  BY <1>1, <1>2, <1>3, EndsLast, Zenon
<1>20. Len(log) + 1 \in 1..Len(log') /\ log'[Len(log) + 1] = op
  BY <1>1, <1>2, <1>3, LogGrows
<1>21. Loaded'
  BY <1>1, <1>18, Zenon DEF IInv, Loaded
<1>22. Covered'
  <2>1. SUFFICES ASSUME NEW d \in Cores, NEW q \in Pages, NEW k \in 1..Len(log'),
                        NEW u \in 1..Len(log'), tlb[d][q] # None,
                        Maps(log', k, q, tlb[d][q]), Ends(log', k, u),
                        NEW i, i = log'[u].core, NodeOf[i] = NodeOf[d]
                 PROVE  Guarded(d, q, i)'
    BY <1>1, Zenon DEF Covered
  <2>2. k \in 1..Len(log) /\ (u \in 1..Len(log) \/ u = Len(log) + 1)
    BY <1>18, <2>1, Zenon
  <2>3. CASE u \in 1..Len(log)
    <3>1. log[u].core = i
      BY <1>18, <2>1, <2>3, Zenon
    <3>2. Guarded(d, q, i)
      BY <1>18, <2>1, <2>2, <2>3, <3>1, Zenon DEF IInv, Covered
    <3>3. i \in Cores
      BY <2>3, <3>1, CoreOf, Zenon
    <3>4. CASE pc[d] = "flush" /\ work[d] = q
      <4>1. d # c
        BY <1>13, <3>4, Zenon
      <4>. QED
        BY <1>1, <1>10, <3>4, <4>1, Zenon DEF Guarded
    <3>5. CASE /\ InShootdown(i) /\ target[i] = tlb[d][q] /\ page[i] = q
               /\ (d = i /\ pc[i] # "wait") \/ d \in todo[i] \/ d \in unacked[i]
      <4>1. i # c
        BY <1>13, <3>5, Zenon
      <4>2. /\ InShootdown(i)' /\ target'[i] = target[i] /\ page'[i] = page[i]
            /\ pc'[i] = pc[i] /\ todo'[i] = todo[i]
        BY <1>10, <1>13, <3>3, <3>5, <4>1, Zenon
      <4>. QED
        BY <1>1, <3>5, <4>2, Zenon DEF Guarded
    <3>. QED
      BY <3>2, <3>4, <3>5, Zenon DEF Guarded
  <2>4. CASE u = Len(log) + 1
    <3>1. i = c
      BY <1>3, <1>20, <2>1, <2>4, Zenon
    <3>2. log[k].page = p /\ \A j \in 1..Len(log) : k < j => ~Removes(log, j, p)
      BY <1>19, <2>1, <2>2, <2>4, Zenon
    <3>3. Maps(log, k, q, tlb[d][q])
      BY <1>18, <2>1, <2>2, Zenon
    <3>4. k = m /\ q = p
      BY <1>7, <2>2, <3>2, <3>3, Zenon DEF Maps
    <3>5. tlb[d][q] = f
      BY <1>7, <3>3, <3>4, Zenon DEF Maps
    <3>6. Active(log, d)
      BY <2>1, Zenon DEF IInv, Loaded
    <3>7. d = c \/ d \in todo'[c]
      BY <1>4, <1>10, <3>6, Zenon
    <3>. QED
      BY <1>1, <1>10, <1>13, <3>1, <3>4, <3>5, <3>7, Zenon DEF Guarded
  <2>. QED
    BY <2>2, <2>3, <2>4, Zenon
<1>23. Unfinished'
  <2>1. SUFFICES ASSUME NEW i \in Cores, InShootdown(i)'
                 PROVE  /\ page'[i] \in Pages /\ target'[i] \notin retired
                        /\ \E k, u \in 1..Len(log') :
                              /\ Maps(log', k, page'[i], target'[i]) /\ Ends(log', k, u)
                              /\ log'[u].core = i
    BY <1>1, Zenon DEF Unfinished
  <2>2. CASE i = c
    <3>1. Maps(log', m, p, f) /\ Ends(log', m, Len(log) + 1) /\ m \in 1..Len(log')
      BY <1>7, <1>18, <1>19, Zenon DEF Maps
    <3>. QED
      BY <1>3, <1>6, <1>10, <1>20, <2>2, <3>1, Zenon
  <2>3. CASE i # c
    <3>1. InShootdown(i) /\ page'[i] = page[i] /\ target'[i] = target[i]
      BY <1>10, <1>13, <2>1, <2>3, Zenon
    <3>2. page[i] \in Pages /\ target[i] \notin retired
      BY <3>1, Zenon DEF IInv, Unfinished
    <3>3. PICK k \in 1..Len(log), u \in 1..Len(log) :
             Maps(log, k, page[i], target[i]) /\ Ends(log, k, u) /\ log[u].core = i
      BY <3>1, Zenon DEF IInv, Unfinished
    <3>. QED
      BY <1>18, <3>1, <3>2, <3>3, Zenon
  <2>. QED
    BY <2>2, <2>3, Zenon
<1>24. Returned'
  <2>1. SUFFICES ASSUME NEW g \in retired
                 PROVE  \E k, u \in 1..Len(log') :
                           log'[k].kind = "map" /\ log'[k].frame = g /\ Ends(log', k, u)
    BY <1>1, Zenon DEF Returned
  <2>2. PICK k \in 1..Len(log), u \in 1..Len(log) :
           log[k].kind = "map" /\ log[k].frame = g /\ Ends(log, k, u)
    BY <2>1, Zenon DEF IInv, Returned
  <2>. QED
    BY <1>18, <2>2, Zenon
<1>. QED
  BY <1>8, <1>9, <1>11, <1>14, <1>16, <1>17, <1>21, <1>22, <1>23, <1>24, Zenon DEF IInv

\* Every step keeps the invariant.
LEMMA StepIInv == IInv /\ [Next]_vars => IInv'
<1>1. SUFFICES ASSUME IInv, [Next]_vars PROVE IInv'
  BY Zenon
<1>2. CASE UNCHANGED vars
  <2>1. UNCHANGED <<log, applied, pc, target, page, todo, unacked, queue, work, tlb, retired>>
    BY <1>2, Zenon DEF vars
  <2>. QED
    BY <1>1, <2>1, SameQueues, StillStep, Zenon
<1>3. CASE Next
  <2>1. PICK c \in Cores :
          \/ \E p \in Pages : Access(c, p) \/ PageFault(c, p) \/ Map(c, p) \/ Unmap(c, p)
          \/ Timer(c) \/ AssignExecutor(c)
          \/ \E n \in Nodes : FsCall(c, n) \/ FsAskAgain(c, n)
          \/ Step(c)
    BY <1>3, Zenon DEF Next
  <2>2. ASSUME NEW p \in Pages, Access(c, p) PROVE IInv'
    BY <1>1, <2>2, AccessStep, Zenon
  <2>3. ASSUME NEW p \in Pages, PageFault(c, p) PROVE IInv'
    BY <1>1, <2>3, CatchUpStep, Zenon DEF PageFault
  <2>4. ASSUME NEW p \in Pages, Map(c, p) PROVE IInv'
    BY <1>1, <2>4, MapStep, Zenon
  <2>5. ASSUME NEW p \in Pages, Unmap(c, p) PROVE IInv'
    BY <1>1, <2>5, UnmapStep, Zenon
  <2>6. CASE Timer(c)
    BY <1>1, <2>6, CatchUpStep, Zenon DEF Timer
  <2>7. CASE AssignExecutor(c)
    BY <1>1, <2>7, AssignStep, Zenon
  <2>8. ASSUME NEW n \in Nodes, FsCall(c, n) PROVE IInv'
    BY <1>1, <2>8, RunSteps, Zenon
  <2>9. ASSUME NEW n \in Nodes, FsAskAgain(c, n) PROVE IInv'
    BY <1>1, <2>9, AdvanceSteps, Zenon
  <2>10. CASE Start(c) \/ FsDone(c)
    BY <1>1, <2>10, RunSteps, Zenon
  <2>11. CASE FsExec(c) \/ EagerAdvance(c)
    BY <1>1, <2>11, AdvanceSteps, Zenon
  <2>12. CASE Enqueued(c) \/ Notify(c) \/ Notified(c)
    BY <1>1, <2>12, NotifySteps, Zenon
  <2>13. CASE Enqueue(c)
    BY <1>1, <2>13, EnqueueStep, Zenon
  <2>14. CASE FlushOwn(c)
    BY <1>1, <2>14, FlushOwnStep, Zenon
  <2>15. CASE WaitDone(c)
    BY <1>1, <2>15, WaitDoneStep, Zenon
  <2>16. CASE TlbInterrupt(c) \/ GcInterrupt(c)
    BY <1>1, <2>16, InterruptSteps, Zenon
  <2>17. CASE Flush(c)
    BY <1>1, <2>17, FlushStep, Zenon
  <2>18. CASE Step(c)
    BY <2>10, <2>11, <2>12, <2>13, <2>14, <2>15, <2>16, <2>17, <2>18, Zenon DEF Step
  <2>. QED
    BY <2>1, <2>2, <2>3, <2>4, <2>5, <2>6, <2>7, <2>8, <2>9, <2>18, Zenon
<1>. QED
  BY <1>1, <1>2, <1>3, Zenon

\* Once an unmap has returned (tlb.rs:214), no core of the node that unmapped
\* runs user code with a translation to the frame, for any cores, nodes,
\* pages and frames, whether items are lost in full queues or not, however
\* shootdowns of several initiators, file system requests, cores that join
\* and replicas that catch up interleave.
THEOREM UnmapIsSafe == Spec => []NoStaleTranslation
<1>1. Spec => []IInv
  BY InitInv, StepIInv, PTL DEF Spec
<1>. QED
  BY <1>1, NoneStale, PTL
=============================================================================
