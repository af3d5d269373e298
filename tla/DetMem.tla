------------------------------- MODULE DetMem -------------------------------
(***************************************************************************)
(* The deterministic allocator of kernel/src/memory/detmem.rs.  Replicas    *)
(* execute the same operations in the same order, each at its own pace, so  *)
(* all of them make the same sequence of requests (Script).  The replica    *)
(* that is ahead allocates on every node and leaves the results of the      *)
(* others in their queues.  Each replica is entered by one thread at a time *)
(* (the combiner of its node), so a node is one process of the model, and   *)
(* the only consumer of its queue.                                          *)
(***************************************************************************)
EXTENDS Naturals, Sequences, FiniteSets

CONSTANTS N,              \* number of NUMA nodes, numbered from 0
          Script,         \* layout of the request each replica makes n-th
          BlocksPerNode,  \* bound: size of the heap of a node
          QueueCapacity,  \* ALLOC_CAP
          MaxLag,         \* requests a replica may be ahead of another
          MayFail,        \* others may have used up the memory of a node
          Null

Nodes == 0..(N - 1)

Block == Nodes \X (1..BlocksPerNode)

\* The operation log is bounded, so a replica waits for one that is too far
\* behind; ALLOC_CAP is chosen to be enough for that distance.
ASSUME DetMemAssumption ==
    /\ N \in Nat \ {0}
    /\ BlocksPerNode \in Nat
    /\ MaxLag \in Nat /\ MaxLag <= QueueCapacity
    /\ MayFail \in BOOLEAN
    /\ QueueCapacity \in Nat /\ Null \notin Nodes \cup Block

VARIABLES qs,      \* results waiting for each node
          fill,    \* the node that holds the lock, or Null
          heap,    \* free blocks
          pc,      \* where each node is in alloc
          i,       \* loop index of each node
          allocs,  \* what the loop over the nodes obtained
          results, \* what alloc has returned to each node, in order
          live,    \* blocks each node has received and not freed
          rounds   \* number of times the heap was asked for all nodes

vars == <<qs, fill, heap, pc, i, allocs, results, live, rounds>>

Init ==
    /\ qs = [n \in Nodes |-> <<>>]
    /\ fill = Null
    /\ heap = Block
    /\ pc = [n \in Nodes |-> "idle"]
    /\ i = [n \in Nodes |-> 0]
    /\ allocs = [n \in Nodes |-> <<>>]
    /\ results = [n \in Nodes |-> <<>>]
    /\ live = [n \in Nodes |-> {}]
    /\ rounds = 0

Goto(n, from, to) ==
    /\ pc[n] = from
    /\ pc' = [pc EXCEPT ![n] = to]

\* The layout of the request node n is working on.
Want(n) == Script[Len(results[n]) + 1]

\* alloc returns ptr, which answers round r.
Deliver(n, ptr, r) ==
    /\ results' = [results EXCEPT ![n] = Append(@, [ptr |-> ptr, round |-> r])]
    /\ live' = [live EXCEPT ![n] = IF ptr = Null THEN @ ELSE @ \cup {ptr}]

\* A popped result is returned if its layout is the one asked for.
Accept(n) ==
    /\ qs' = [qs EXCEPT ![n] = Tail(@)]
    /\ IF Head(qs[n]).layout = Want(n)
       THEN /\ pc' = [pc EXCEPT ![n] = "idle"]
            /\ Deliver(n, Head(qs[n]).ptr, Head(qs[n]).round)
       ELSE /\ pc' = [pc EXCEPT ![n] = "panic"]
            /\ UNCHANGED <<results, live>>

\* push(..).expect(..)
PushTo(n, j, ptr, next) ==
    IF Len(qs[j]) < QueueCapacity
    THEN /\ qs' = [qs EXCEPT ![j] =
                    Append(@, [layout |-> Want(n), ptr |-> ptr, round |-> rounds])]
         /\ pc' = [pc EXCEPT ![n] = next]
    ELSE /\ pc' = [pc EXCEPT ![n] = "panic"]
         /\ UNCHANGED qs

-----------------------------------------------------------------------------
(* Slips of the steps below that the properties must notice. *)

\* The result of the own node is queued as well.
ShareWithAll(n) ==
    /\ pc[n] = "share" /\ i[n] < N
    /\ i' = [i EXCEPT ![n] = @ + 1]
    /\ PushTo(n, i[n], allocs[n][i[n] + 1], "share")
    /\ UNCHANGED <<fill, heap, allocs, results, live, rounds>>

\* The blocks that were obtained are not given back.
RevertKeeping(n) ==
    /\ pc[n] = "revert" /\ i[n] < N
    /\ i' = [i EXCEPT ![n] = @ + 1]
    /\ PushTo(n, i[n], Null, "revert")
    /\ UNCHANGED <<fill, heap, allocs, results, live, rounds>>

\* The guard of the lock is leaked on the way out.
FinishLocked(n) ==
    /\ pc[n] \in {"share", "revert"} /\ i[n] = N
    /\ pc' = [pc EXCEPT ![n] = "idle"]
    /\ Deliver(n, allocs[n][n + 1], rounds)
    /\ UNCHANGED <<qs, fill, heap, i, allocs, rounds>>

-----------------------------------------------------------------------------
(***************************************************************************)
(* alloc                                                                    *)
(***************************************************************************)

\* The combiner of node n executes an operation that allocates.
CallAlloc(n) ==
    /\ Len(results[n]) < Len(Script)
    /\ \A m \in Nodes : Len(results[n]) < Len(results[m]) + MaxLag
    /\ Goto(n, "idle", "pop")
    /\ UNCHANGED <<qs, fill, heap, i, allocs, results, live, rounds>>

\* The first pop: the leading replica may have allocated on our behalf.
Pop(n) ==
    /\ pc[n] = "pop"
    /\ IF qs[n] # <<>>
       THEN Accept(n)
       ELSE pc' = [pc EXCEPT ![n] = "lock"] /\ UNCHANGED <<qs, results, live>>
    /\ UNCHANGED <<fill, heap, i, allocs, rounds>>

Lock(n) ==
    /\ fill = Null
    /\ fill' = n
    /\ Goto(n, "lock", "again")
    /\ UNCHANGED <<qs, heap, i, allocs, results, live, rounds>>

\* The second pop, under the lock, which an early return releases.
PopAgain(n) ==
    /\ pc[n] = "again"
    /\ IF qs[n] # <<>>
       THEN /\ Accept(n)
            /\ fill' = Null
            /\ UNCHANGED <<i, allocs, rounds>>
       ELSE /\ pc' = [pc EXCEPT ![n] = "ask"]
            /\ rounds' = rounds + 1
            /\ allocs' = [allocs EXCEPT ![n] = <<>>]
            /\ i' = [i EXCEPT ![n] = 0]
            /\ UNCHANGED <<qs, fill, results, live>>
    /\ UNCHANGED heap

\* set_mem_affinity(i) and alloc(l).
Ask(n) ==
    /\ pc[n] = "ask" /\ i[n] < N
    /\ i' = [i EXCEPT ![n] = @ + 1]
    /\ \/ \E b \in heap :
            /\ b[1] = i[n]
            /\ allocs' = [allocs EXCEPT ![n] = Append(@, b)]
            /\ heap' = heap \ {b}
       \/ /\ MayFail \/ \A b \in heap : b[1] # i[n]
          /\ allocs' = [allocs EXCEPT ![n] = Append(@, Null)]
          /\ UNCHANGED heap
    /\ UNCHANGED <<qs, fill, pc, results, live, rounds>>

\* All nodes were asked: hand the results out, or take them back.
Asked(n) ==
    /\ pc[n] = "ask" /\ i[n] = N
    /\ pc' = [pc EXCEPT ![n] = IF \E j \in 1..N : allocs[n][j] = Null
                               THEN "revert" ELSE "share"]
    /\ i' = [i EXCEPT ![n] = 0]
    /\ UNCHANGED <<qs, fill, heap, allocs, results, live, rounds>>

Share(n) ==
    /\ pc[n] = "share" /\ i[n] < N
    /\ i' = [i EXCEPT ![n] = @ + 1]
    /\ IF i[n] # n
       THEN PushTo(n, i[n], allocs[n][i[n] + 1], "share")
       ELSE UNCHANGED <<qs, pc>>
    /\ UNCHANGED <<fill, heap, allocs, results, live, rounds>>

\* Free what was obtained and queue null for every node.
Revert(n) ==
    /\ pc[n] = "revert" /\ i[n] < N
    /\ i' = [i EXCEPT ![n] = @ + 1]
    /\ heap' = heap \cup ({allocs[n][i[n] + 1]} \ {Null})
    /\ PushTo(n, i[n], Null, "revert")
    /\ UNCHANGED <<fill, allocs, results, live, rounds>>

\* Return allocs[nid] and drop the lock.
Finish(n) ==
    /\ pc[n] \in {"share", "revert"} /\ i[n] = N
    /\ pc' = [pc EXCEPT ![n] = "idle"]
    /\ Deliver(n, allocs[n][n + 1], rounds)
    /\ fill' = Null
    /\ UNCHANGED <<qs, heap, i, allocs, rounds>>

\* dealloc goes to the underlying allocator.
Dealloc(n) ==
    /\ pc[n] = "idle"
    /\ \E b \in live[n] :
          /\ live' = [live EXCEPT ![n] = @ \ {b}]
          /\ heap' = heap \cup {b}
    /\ UNCHANGED <<qs, fill, pc, i, allocs, results, rounds>>

Step(n) ==
    \/ Pop(n) \/ Lock(n) \/ PopAgain(n) \/ Ask(n) \/ Asked(n)
    \/ Share(n) \/ Revert(n) \/ Finish(n)

Next == \E n \in Nodes : CallAlloc(n) \/ Dealloc(n) \/ Step(n)

Spec == Init /\ [][Next]_vars

\* The combiner keeps running; the lock holder releases it after a bounded
\* number of steps, and every replica makes finitely many requests.
FairSpec == Spec /\ \A n \in Nodes : WF_vars(Step(n))

-----------------------------------------------------------------------------
\* No node has run out of memory so far: a failed round leaves a null.
NoFailure ==
    \A n \in Nodes :
        /\ pc[n] # "revert"
        /\ \A k \in 1..Len(qs[n]) : qs[n][k].ptr # Null
        /\ \A k \in 1..Len(results[n]) : results[n][k].ptr # Null

\* "makes allocations deterministic" (detmem.rs:7): as long as there is
\* memory, the k-th request of every replica is answered from the same round
\* of allocations.
SameRound ==
    NoFailure => \A n, m \in Nodes : \A k \in 1..Len(results[n]) :
        k <= Len(results[m]) => results[n][k].round = results[m][k].round

Queued(n) == {qs[n][k].ptr : k \in 1..Len(qs[n])} \ {Null}

Holds(n) == live[n] \cup Queued(n)

\* What the leader has obtained in this round.
InHand(n) ==
    IF pc[n] \in {"ask", "share", "revert"}
    THEN {allocs[n][k] : k \in 1..Len(allocs[n])} ELSE {}

\* No block is lost before a node panics: what is not free is queued, live,
\* or in the hands of the leader, also when some node had no memory left
\* (detmem.rs:120-132).  As long as there is memory no block has two owners.
BlocksAccounted ==
    /\ (\A n \in Nodes : pc[n] # "panic") =>
          Block \subseteq heap \cup UNION {Holds(n) \cup InHand(n) : n \in Nodes}
    /\ NoFailure =>
          /\ \A n, m \in Nodes : n # m => Holds(n) \cap Holds(m) = {}
          /\ \A n \in Nodes : Holds(n) \cap heap = {} /\ live[n] \cap Queued(n) = {}

\* A call of alloc returns, whoever holds the lock: as long as there is
\* memory neither the layout assertions (detmem.rs:85 and 96) nor the expects
\* of the pushes (detmem.rs:116) fire.
AllocReturns == []NoFailure => \A n \in Nodes : pc[n] # "idle" ~> pc[n] = "idle"
=============================================================================
