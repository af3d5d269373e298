---------------------------- MODULE DetMemProofs ----------------------------
(***************************************************************************)
(* Proofs about the deterministic allocator, for any number of nodes, any   *)
(* requests and heaps of any size.                                          *)
(*                                                                          *)
(* As long as no round has failed the invariant is Fine: the queues and the *)
(* results of a node are answers to consecutive requests of the script.  A  *)
(* round that fails breaks this, because the leader queues a null also for  *)
(* itself, but leaves a null that never disappears unseen (Failed), so a    *)
(* state without one has never had a failure.                               *)
(***************************************************************************)
EXTENDS DetMem, Integers, TLAPS

Layouts == {Script[k] : k \in Nat}
Items == [layout : Layouts, ptr : Block \cup {Null}, round : Nat]
Answers == [ptr : Block \cup {Null}, round : Nat]

Working == {"ask", "share", "revert"}

TypeOK ==
    /\ qs \in [Nodes -> Seq(Items)]
    /\ heap \in SUBSET Block
    /\ pc \in [Nodes -> {"idle", "pop", "lock", "again", "panic"} \cup Working]
    /\ i \in [Nodes -> 0..N]
    /\ allocs \in [Nodes -> Seq(Block \cup {Null})]
    /\ results \in [Nodes -> Seq(Answers)]
    /\ live \in [Nodes -> SUBSET Block]
    /\ rounds \in Nat

\* Only the node with the lock asks the heap.
Locked == \A n \in Nodes : pc[n] \in Working \cup {"again"} => fill = n

\* What the loops have obtained so far.
Obtained ==
    \A n \in Nodes : pc[n] \in Working =>
        /\ Len(allocs[n]) = IF pc[n] = "ask" THEN i[n] ELSE N
        /\ \A k \in 1..Len(allocs[n]) : allocs[n][k] # Null => allocs[n][k][1] = k - 1
        /\ pc[n] = "share" => \A k \in 1..N : allocs[n][k] # Null
        /\ pc[n] = "revert" => \E k \in 1..N : allocs[n][k] = Null

\* Blocks that the leader has yet to hand out or to give back.
Pending(n) ==
    IF pc[n] \notin Working THEN {}
    ELSE {k \in 1..Len(allocs[n]) : /\ allocs[n][k] # Null
                                    /\ pc[n] = "ask" \/ k > i[n] \/ (pc[n] = "share" /\ k = n + 1)}
Hand(n) == {allocs[n][k] : k \in Pending(n)}

\* Where block b can be.
Where == {"heap", "live", "queue", "hand"}
At(b, w, n) ==
    \/ w = "heap" /\ n = 0 /\ b \in heap
    \/ w = "live" /\ b \in live[n]
    \/ w = "queue" /\ b \in Queued(n)
    \/ w = "hand" /\ b \in Hand(n)

\* Before a panic no block is lost.
Calm == \A n \in Nodes : pc[n] # "panic"
Kept == Calm => \A b \in Block : \E w \in Where : \E n \in Nodes : At(b, w, n)

-----------------------------------------------------------------------------
\* The requests that have been answered for node n.
Size(s) == Len(s)
Total(n) == Size(results[n]) + Size(qs[n])

\* The queue of a node has the answers to its next requests.
InOrder(n) ==
    \A k \in 1..Len(qs[n]) : qs[n][k].layout = Script[Len(results[n]) + k]

AlignedAt(n) ==
    /\ InOrder(n)
    /\ \A k \in 1..Len(results[n]) : results[n][k].round = k /\ results[n][k].ptr # Null
    /\ \A k \in 1..Len(qs[n]) : qs[n][k].round = Len(results[n]) + k /\ qs[n][k].ptr # Null

Aligned == \A n \in Nodes : AlignedAt(n)

\* A node that works on a round is the one that has not had its answer.
TurnOf(n) ==
    /\ Len(results[n]) + 1 = rounds /\ qs[n] = <<>>
    /\ pc[n] = "revert" => i[n] = 0
    /\ \A m \in Nodes \ {n} :
          Total(m) = IF pc[n] = "share" /\ m < i[n] THEN rounds ELSE rounds - 1

\* No node works on a round, nor has it panicked in the middle of one.
Between == \A n \in Nodes : pc[n] \notin Working /\ ~(fill = n /\ pc[n] = "panic")

Turns ==
    /\ \A n \in Nodes : pc[n] \in Working => TurnOf(n)
    /\ Between => \A n \in Nodes : Total(n) = rounds

\* No block is in two places.
NoTwins(n) == \A j, k \in 1..Len(qs[n]) : qs[n][j].ptr = qs[n][k].ptr => j = k
Apart ==
    /\ \A b \in Block : \A w, v \in Where : \A n, m \in Nodes :
          At(b, w, n) /\ At(b, v, m) => w = v /\ n = m
    /\ \A n \in Nodes : NoTwins(n)

Fine == Aligned /\ Turns /\ Apart

-----------------------------------------------------------------------------
\* A null was returned.
Returned == \E n \in Nodes : \E k \in 1..Len(results[n]) : results[n][k].ptr = Null

\* A null is queued, and it will be returned or stay there.
Stuck ==
    \E n \in Nodes : \E k \in 1..Len(qs[n]) :
        /\ qs[n][k].ptr = Null
        /\ \/ pc[n] = "panic"
           \/ /\ pc[n] \notin Working
              /\ \A j \in 1..k : qs[n][j].layout = Script[Len(results[n]) + j]

\* Node 0 has queued a null for itself and not yet for another node.
Reverting ==
    /\ pc[0] = "revert" /\ i[0] = 1
    /\ \E k \in 1..Len(qs[0]) : qs[0][k].ptr = Null
    /\ IF N = 1 THEN allocs[0][1] = Null
       ELSE InOrder(1) /\ Want(0) = Script[Total(1) + 1]

Failed == Returned \/ Stuck \/ Reverting

IInv == TypeOK /\ Locked /\ Obtained /\ Kept /\ (Fine \/ Failed)
-----------------------------------------------------------------------------
\* The length of a sequence is a number.
LEMMA LenProperties ==
  ASSUME NEW S, NEW s \in Seq(S)
  PROVE  Len(s) \in Nat /\ (s # <<>> => Len(s) # 0)
OBVIOUS

\* The elements of a sequence are of its type.
LEMMA ElementOfSeq ==
  ASSUME NEW S, NEW s \in Seq(S), NEW k \in 1..Len(s)
  PROVE  s[k] \in S
OBVIOUS

\* Append keeps the elements and adds one.
LEMMA AppendProperties ==
  ASSUME NEW S, NEW s \in Seq(S), NEW e \in S
  PROVE  /\ Append(s, e) \in Seq(S) /\ Len(Append(s, e)) = Len(s) + 1
         /\ \A k \in 1..Len(s) : Append(s, e)[k] = s[k]
         /\ Append(s, e)[Len(s) + 1] = e
OBVIOUS

\* Head is the first element, Tail the others.
LEMMA HeadTailProperties ==
  ASSUME NEW S, NEW s \in Seq(S), s # <<>>
  PROVE  /\ Head(s) = s[1] /\ Head(s) \in S
         /\ Tail(s) \in Seq(S) /\ Len(Tail(s)) = Len(s) - 1
         /\ \A k \in 1..(Len(s) - 1) : Tail(s)[k] = s[k + 1]
OBVIOUS

(***************************************************************************)
(* What steps do to queues and results, element by element                  *)
(***************************************************************************)
Took(n) ==
    /\ qs' \in [Nodes -> Seq(Items)] /\ Len(qs[n]) \in Nat \ {0} /\ qs[n][1] \in Items
    /\ Len(qs'[n]) = Len(qs[n]) - 1
    /\ \A k \in 1..(Len(qs[n]) - 1) : qs'[n][k] = qs[n][k + 1]
    /\ \A m \in Nodes \ {n} : qs'[m] = qs[m]

Gets(n, ptr, r) ==
    /\ results' \in [Nodes -> Seq(Answers)]
    /\ Len(results'[n]) = Len(results[n]) + 1
    /\ \A k \in 1..Len(results[n]) : results'[n][k] = results[n][k]
    /\ results'[n][Len(results[n]) + 1] = [ptr |-> ptr, round |-> r]
    /\ \A m \in Nodes \ {n} : results'[m] = results[m] /\ live'[m] = live[m]
    /\ live' \in [Nodes -> SUBSET Block] /\ live'[n] = live[n] \cup ({ptr} \ {Null})

Puts(j, x) ==
    /\ qs' \in [Nodes -> Seq(Items)] /\ Len(qs[j]) \in Nat
    /\ Len(qs'[j]) = Len(qs[j]) + 1
    /\ \A k \in 1..Len(qs[j]) : qs'[j][k] = qs[j][k]
    /\ qs'[j][Len(qs[j]) + 1] = x
    /\ \A m \in Nodes \ {j} : qs'[m] = qs[m]

\* A node moves on.
Moves(n, to) == pc' = [pc EXCEPT ![n] = to]

\* Lengths are numbers.
LEMMA Lengths ==
  ASSUME TypeOK, NEW n \in Nodes
  PROVE  /\ qs[n] \in Seq(Items) /\ Len(qs[n]) \in Nat
         /\ results[n] \in Seq(Answers) /\ Len(results[n]) \in Nat
         /\ allocs[n] \in Seq(Block \cup {Null}) /\ Len(allocs[n]) \in Nat
<1>1. /\ qs[n] \in Seq(Items) /\ results[n] \in Seq(Answers)
      /\ allocs[n] \in Seq(Block \cup {Null})
  BY Zenon DEF TypeOK
<1>. QED
  BY <1>1, LenProperties, Zenon

\* A node returns what it was given.
LEMMA Delivers ==
  ASSUME TypeOK, NEW n \in Nodes, NEW ptr \in Block \cup {Null}, NEW r \in Nat, Deliver(n, ptr, r)
  PROVE  Gets(n, ptr, r)
<1>. DEFINE x == [ptr |-> ptr, round |-> r]
<1>1. x \in Answers
  BY Zenon DEF Answers
<1>2. results' = [results EXCEPT ![n] = Append(@, x)]
  BY Zenon DEF Deliver
<1>. HIDE DEF x
<1>3. results[n] \in Seq(Answers)
  BY Lengths, Zenon
<1>4. /\ Append(results[n], x) \in Seq(Answers)
      /\ Len(Append(results[n], x)) = Len(results[n]) + 1
      /\ \A k \in 1..Len(results[n]) : Append(results[n], x)[k] = results[n][k]
      /\ Append(results[n], x)[Len(results[n]) + 1] = x
  BY <1>1, <1>3, AppendProperties
<1>5. /\ results' \in [Nodes -> Seq(Answers)] /\ results'[n] = Append(results[n], x)
      /\ \A m \in Nodes \ {n} : results'[m] = results[m]
  BY <1>2, <1>4, Zenon DEF TypeOK
<1>6. /\ live' \in [Nodes -> SUBSET Block] /\ live'[n] = live[n] \cup ({ptr} \ {Null})
      /\ \A m \in Nodes \ {n} : live'[m] = live[m]
  BY Zenon DEF TypeOK, Deliver
<1>. QED
  BY <1>4, <1>5, <1>6, Zenon DEF Gets, x

\* A node takes the first element of its queue and returns it or panics.
LEMMA Accepts ==
  ASSUME TypeOK, NEW n \in Nodes, qs[n] # <<>>, Accept(n)
  PROVE  /\ Took(n)
         /\ \/ /\ qs[n][1].layout = Want(n) /\ Moves(n, "idle")
               /\ Gets(n, qs[n][1].ptr, qs[n][1].round)
            \/ /\ qs[n][1].layout # Want(n) /\ Moves(n, "panic")
               /\ UNCHANGED <<results, live>>
<1>1. qs[n] \in Seq(Items)
  BY Lengths, Zenon
<1>2. /\ Head(qs[n]) = qs[n][1] /\ qs[n][1] \in Items /\ Len(qs[n]) \in Nat \ {0}
      /\ Tail(qs[n]) \in Seq(Items) /\ Len(Tail(qs[n])) = Len(qs[n]) - 1
      /\ \A k \in 1..(Len(qs[n]) - 1) : Tail(qs[n])[k] = qs[n][k + 1]
  BY <1>1, HeadTailProperties, LenProperties, Zenon
<1>3. qs' = [qs EXCEPT ![n] = Tail(@)]
  BY Zenon DEF Accept
<1>4. Took(n)
  BY <1>2, <1>3, Zenon DEF Took, TypeOK
<1>5. CASE qs[n][1].layout = Want(n)
  <2>1. Moves(n, "idle") /\ Deliver(n, qs[n][1].ptr, qs[n][1].round)
    BY <1>2, <1>5, Zenon DEF Accept, Moves
  <2>2. qs[n][1].ptr \in Block \cup {Null} /\ qs[n][1].round \in Nat
    BY <1>2, Zenon DEF Items
  <2>. QED
    BY <1>4, <1>5, <2>1, <2>2, Delivers, Zenon
<1>6. CASE qs[n][1].layout # Want(n)
  BY <1>2, <1>4, <1>6, Zenon DEF Accept, Moves
<1>. QED
  BY <1>5, <1>6, Zenon

\* The leader queues a result, or panics because there is no room for it.
LEMMA Pushes ==
  ASSUME TypeOK, NEW n \in Nodes, NEW j \in Nodes, NEW ptr \in Block \cup {Null}, NEW next,
         PushTo(n, j, ptr, next)
  PROVE  \/ Puts(j, [layout |-> Want(n), ptr |-> ptr, round |-> rounds]) /\ Moves(n, next)
         \/ qs' = qs /\ Moves(n, "panic")
<1>. DEFINE x == [layout |-> Want(n), ptr |-> ptr, round |-> rounds]
<1>1. x \in Items
  <2>1. Want(n) \in Layouts
    <3>1. Len(results[n]) + 1 \in Nat
      BY Lengths
    <3>. QED
      BY <3>1, Zenon DEF Want, Layouts
  <2>. QED
    BY <2>1, Zenon DEF Items, TypeOK
<1>2. CASE Len(qs[j]) < QueueCapacity
  <2>1. qs' = [qs EXCEPT ![j] = Append(@, x)] /\ Moves(n, next)
    BY <1>2, Zenon DEF PushTo, Moves
  <2>. HIDE DEF x
  <2>2. qs[j] \in Seq(Items) /\ Len(qs[j]) \in Nat
    BY Lengths, Zenon
  <2>3. /\ Append(qs[j], x) \in Seq(Items)
        /\ Len(Append(qs[j], x)) = Len(qs[j]) + 1
        /\ \A k \in 1..Len(qs[j]) : Append(qs[j], x)[k] = qs[j][k]
        /\ Append(qs[j], x)[Len(qs[j]) + 1] = x
    BY <1>1, <2>2, AppendProperties
  <2>4. /\ qs' \in [Nodes -> Seq(Items)] /\ qs'[j] = Append(qs[j], x)
        /\ \A m \in Nodes \ {j} : qs'[m] = qs[m]
    BY <2>1, <2>3, Zenon DEF TypeOK
  <2>5. Puts(j, x)
    BY <2>2, <2>3, <2>4, Zenon DEF Puts
  <2>. QED
    BY <2>1, <2>5, Zenon DEF x
<1>3. CASE ~(Len(qs[j]) < QueueCapacity)
  BY <1>3, Zenon DEF PushTo, Moves
<1>. QED
  BY <1>2, <1>3, Zenon
(***************************************************************************)
(* The kinds of steps                                                       *)
(***************************************************************************)
Controls(n) ==
    /\ \E to \in {"pop", "lock", "again"} :
          /\ Moves(n, to)
          /\ IF to = "again" THEN fill = Null /\ fill' = n ELSE fill' = fill
    /\ pc[n] \in {"idle", "pop", "lock"}
    /\ UNCHANGED <<qs, heap, i, allocs, results, live, rounds>>

Receives(n) ==
    /\ pc[n] \in {"pop", "again"}
    /\ Took(n)
    /\ \/ /\ qs[n][1].layout = Want(n) /\ Moves(n, "idle")
          /\ Gets(n, qs[n][1].ptr, qs[n][1].round)
       \/ /\ qs[n][1].layout # Want(n) /\ Moves(n, "panic")
          /\ UNCHANGED <<results, live>>
    /\ fill' = IF pc[n] = "pop" THEN fill ELSE Null
    /\ UNCHANGED <<heap, i, allocs, rounds>>

Begins(n) ==
    /\ pc[n] = "again" /\ qs[n] = <<>>
    /\ Moves(n, "ask")
    /\ rounds' = rounds + 1
    /\ allocs' = [allocs EXCEPT ![n] = <<>>]
    /\ i' = [i EXCEPT ![n] = 0]
    /\ UNCHANGED <<qs, fill, heap, results, live>>

\* The heap gives block b, or a null.
Obtains(n) ==
    \E b \in heap \cup {Null} :
        /\ pc[n] = "ask" /\ i[n] < N
        /\ b # Null => b[1] = i[n]
        /\ i' = [i EXCEPT ![n] = i[n] + 1]
        /\ allocs' = [allocs EXCEPT ![n] = Append(allocs[n], b)]
        /\ heap' = heap \ {b}
        /\ UNCHANGED <<qs, fill, pc, results, live, rounds>>

Hands(n) ==
    /\ pc[n] = "share" /\ i[n] < N /\ i[n] # n
    /\ i' = [i EXCEPT ![n] = i[n] + 1]
    /\ Puts(i[n], [layout |-> Want(n), ptr |-> allocs[n][i[n] + 1], round |-> rounds])
    /\ pc' = pc
    /\ UNCHANGED <<fill, heap, allocs, results, live, rounds>>

Skips(n) ==
    /\ pc[n] = "share" /\ i[n] = n
    /\ i' = [i EXCEPT ![n] = i[n] + 1]
    /\ UNCHANGED <<qs, pc, fill, heap, allocs, results, live, rounds>>

Gives(n) ==
    /\ pc[n] = "revert" /\ i[n] < N
    /\ i' = [i EXCEPT ![n] = i[n] + 1]
    /\ heap' = heap \cup ({allocs[n][i[n] + 1]} \ {Null})
    /\ Puts(i[n], [layout |-> Want(n), ptr |-> Null, round |-> rounds])
    /\ pc' = pc
    /\ UNCHANGED <<fill, allocs, results, live, rounds>>

Panics(n) ==
    /\ pc[n] \in {"share", "revert"} /\ i[n] < N
    /\ i' = [i EXCEPT ![n] = i[n] + 1]
    /\ Moves(n, "panic")
    /\ heap' = IF pc[n] = "share" THEN heap ELSE heap \cup ({allocs[n][i[n] + 1]} \ {Null})
    /\ UNCHANGED <<qs, fill, allocs, results, live, rounds>>

Ends(n) ==
    /\ pc[n] \in {"share", "revert"} /\ i[n] = N
    /\ Moves(n, "idle")
    /\ Gets(n, allocs[n][n + 1], rounds)
    /\ fill' = Null
    /\ UNCHANGED <<qs, heap, i, allocs, rounds>>

\* Indices of the loops are indices of allocs.
LEMMA Indices ==
  ASSUME TypeOK, Obtained, NEW n \in Nodes, pc[n] \in {"share", "revert"}, NEW j \in Nodes
  PROVE  /\ N \in Nat \ {0} /\ n \in Nat /\ j \in Nat /\ Nodes = 0..(N - 1)
         /\ j + 1 \in 1..N /\ Len(allocs[n]) = N
         /\ allocs[n][j + 1] \in Block \cup {Null}
<1>1. N \in Nat \ {0} /\ n \in Nat /\ j \in Nat /\ j + 1 \in 1..N /\ Nodes = 0..(N - 1)
  BY DetMemAssumption DEF Nodes
<1>2. Len(allocs[n]) = N
  BY Zenon DEF Obtained, Working
<1>3. allocs[n] \in Seq(Block \cup {Null})
  BY Lengths, Zenon
<1>. QED
  BY <1>1, <1>2, <1>3, ElementOfSeq, Zenon

AStep(n) ==
    \/ Controls(n) \/ Receives(n) \/ Begins(n) \/ Obtains(n) \/ Asked(n) \/ Hands(n)
    \/ Skips(n) \/ Gives(n) \/ Panics(n) \/ Ends(n) \/ Dealloc(n)

\* Every step is of one of these kinds.
LEMMA Kinds ==
  ASSUME TypeOK, Obtained, Next
  PROVE  \E n \in Nodes : AStep(n)
<1>. USE DEF AStep
<1>1. PICK n \in Nodes : CallAlloc(n) \/ Dealloc(n) \/ Step(n)
  BY Zenon DEF Next
<1>2. CASE CallAlloc(n)
  BY <1>2, Zenon DEF CallAlloc, Goto, Controls, Moves
<1>3. CASE Pop(n)
  <2>1. CASE qs[n] # <<>>
    <3>1. pc[n] = "pop" /\ Accept(n) /\ UNCHANGED <<fill, heap, i, allocs, rounds>>
      BY <1>3, <2>1, Zenon DEF Pop
    <3>2. Receives(n)
      BY <2>1, <3>1, Accepts, Zenon DEF Receives
    <3>. QED
      BY <3>2, Zenon
  <2>2. CASE qs[n] = <<>>
    BY <1>3, <2>2, Zenon DEF Pop, Controls, Moves
  <2>. QED
    BY <2>1, <2>2, Zenon
<1>4. CASE Lock(n)
  BY <1>4, Zenon DEF Lock, Goto, Controls, Moves
<1>5. CASE PopAgain(n)
  <2>1. CASE qs[n] # <<>>
    <3>1. pc[n] = "again" /\ Accept(n) /\ fill' = Null /\ UNCHANGED <<heap, i, allocs, rounds>>
      BY <1>5, <2>1, Zenon DEF PopAgain
    <3>2. Receives(n)
      BY <2>1, <3>1, Accepts, Zenon DEF Receives
    <3>. QED
      BY <3>2, Zenon
  <2>2. CASE qs[n] = <<>>
    BY <1>5, <2>2, Zenon DEF PopAgain, Begins, Moves
  <2>. QED
    BY <2>1, <2>2, Zenon
<1>6. CASE Ask(n)
  <2>0. i[n] \in Nat /\ Null \notin heap
    BY DetMemAssumption DEF TypeOK
  <2>1. /\ pc[n] = "ask" /\ i[n] < N /\ i' = [i EXCEPT ![n] = i[n] + 1]
        /\ UNCHANGED <<qs, fill, pc, results, live, rounds>>
    BY <1>6, Zenon DEF Ask
  <2>2. CASE \E b \in heap : /\ b[1] = i[n]
                            /\ allocs' = [allocs EXCEPT ![n] = Append(@, b)]
                            /\ heap' = heap \ {b}
    <3>1. PICK b \in heap : b[1] = i[n] /\ allocs' = [allocs EXCEPT ![n] = Append(@, b)]
                           /\ heap' = heap \ {b}
      BY <2>2, Zenon
    <3>2. b \in heap \cup {Null} /\ allocs' = [allocs EXCEPT ![n] = Append(allocs[n], b)]
      BY <3>1, Zenon
    <3>3. Obtains(n)
      BY <2>1, <3>1, <3>2, Zenon DEF Obtains
    <3>. QED
      BY <3>3, Zenon
  <2>3. CASE allocs' = [allocs EXCEPT ![n] = Append(@, Null)] /\ UNCHANGED heap
    <3>1. heap' = heap \ {Null}
      BY <2>0, <2>3, Zenon
    <3>2. Obtains(n)
      BY <2>1, <2>3, <3>1, Zenon DEF Obtains
    <3>. QED
      BY <3>2, Zenon
  <2>. QED
    BY <1>6, <2>2, <2>3, Zenon DEF Ask
<1>7. CASE Asked(n)
  BY <1>7, Zenon
<1>8. CASE Share(n)
  <2>1. /\ pc[n] = "share" /\ i[n] < N /\ i' = [i EXCEPT ![n] = i[n] + 1]
        /\ UNCHANGED <<fill, heap, allocs, results, live, rounds>>
    BY <1>8, Zenon DEF Share
  <2>2. CASE i[n] # n
    <3>1. PushTo(n, i[n], allocs[n][i[n] + 1], "share")
      BY <1>8, <2>2, Zenon DEF Share
    <3>2. i[n] \in Nodes
      BY <2>1, DetMemAssumption DEF TypeOK, Nodes
    <3>3. allocs[n][i[n] + 1] \in Block \cup {Null}
      BY <2>1, <3>2, Indices, Zenon
    <3>4. \/ /\ Puts(i[n], [layout |-> Want(n), ptr |-> allocs[n][i[n] + 1], round |-> rounds])
             /\ Moves(n, "share")
          \/ qs' = qs /\ Moves(n, "panic")
      BY <3>1, <3>2, <3>3, Pushes, Zenon
    <3>5. Moves(n, "share") => pc' = pc
      BY <2>1, Zenon DEF Moves, TypeOK
    <3>6. Hands(n) \/ Panics(n)
      BY <2>1, <2>2, <3>4, <3>5, Zenon DEF Hands, Panics
    <3>. QED
      BY <3>6, Zenon
  <2>3. CASE i[n] = n
    <3>1. Skips(n)
      BY <1>8, <2>1, <2>3, Zenon DEF Share, Skips
    <3>. QED
      BY <3>1, Zenon
  <2>. QED
    BY <2>2, <2>3, Zenon
<1>9. CASE Revert(n)
  <2>1. /\ pc[n] = "revert" /\ i[n] < N /\ i' = [i EXCEPT ![n] = i[n] + 1]
        /\ heap' = heap \cup ({allocs[n][i[n] + 1]} \ {Null})
        /\ PushTo(n, i[n], Null, "revert")
        /\ UNCHANGED <<fill, allocs, results, live, rounds>>
    BY <1>9, Zenon DEF Revert
  <2>2. i[n] \in Nodes
    BY <2>1, DetMemAssumption DEF TypeOK, Nodes
  <2>3. \/ /\ Puts(i[n], [layout |-> Want(n), ptr |-> Null, round |-> rounds])
           /\ Moves(n, "revert")
        \/ qs' = qs /\ Moves(n, "panic")
    BY <2>1, <2>2, Pushes, Zenon
  <2>4. Moves(n, "revert") => pc' = pc
    BY <2>1, Zenon DEF Moves, TypeOK
  <2>5. Gives(n) \/ Panics(n)
    BY <2>1, <2>3, <2>4, Zenon DEF Gives, Panics
  <2>. QED
    BY <2>5, Zenon
<1>10. CASE Finish(n)
  <2>1. /\ pc[n] \in {"share", "revert"} /\ i[n] = N /\ Moves(n, "idle")
        /\ Deliver(n, allocs[n][n + 1], rounds)
        /\ fill' = Null /\ UNCHANGED <<qs, heap, i, allocs, rounds>>
    BY <1>10, Zenon DEF Finish, Moves
  <2>2. allocs[n][n + 1] \in Block \cup {Null} /\ rounds \in Nat
    BY <2>1, Indices, Zenon DEF TypeOK
  <2>3. Gets(n, allocs[n][n + 1], rounds)
    BY <2>1, <2>2, Delivers, Zenon
  <2>4. Ends(n)
    BY <2>1, <2>3, Zenon DEF Ends
  <2>. QED
    BY <2>4, Zenon
<1>. QED
  BY <1>1, <1>2, <1>3, <1>4, <1>5, <1>6, <1>7, <1>8, <1>9, <1>10, Zenon DEF Step
-----------------------------------------------------------------------------
(***************************************************************************)
(* The lock and the loops                                                   *)
(***************************************************************************)
Base == TypeOK /\ Locked /\ Obtained

\* The initial state.
LEMMA InitBase == Init => Base
BY DetMemAssumption DEF Init, Base, TypeOK, Locked, Obtained, Working

\* What was obtained only depends on a node's own variables.
ObtainedBy(n) ==
    pc[n] \in Working =>
        /\ Len(allocs[n]) = IF pc[n] = "ask" THEN i[n] ELSE N
        /\ \A k \in 1..Len(allocs[n]) : allocs[n][k] # Null => allocs[n][k][1] = k - 1
        /\ pc[n] = "share" => \A k \in 1..N : allocs[n][k] # Null
        /\ pc[n] = "revert" => \E k \in 1..N : allocs[n][k] = Null

\* A step of node n does not touch the loop of another node.
LEMMA Others ==
  ASSUME Base, NEW n \in Nodes, AStep(n), NEW m \in Nodes \ {n}
  PROVE  pc'[m] = pc[m] /\ i'[m] = i[m] /\ allocs'[m] = allocs[m]
BY Zenon DEF Base, TypeOK, AStep, Moves, Controls, Receives, Begins, Obtains, Asked, Hands, Skips,
     Gives, Panics, Ends, Dealloc

\* The lock and the loops are as expected after any step.
LEMMA StepBase ==
  ASSUME Base, NEW n \in Nodes, AStep(n)
  PROVE  Base'
<1>0. TypeOK /\ Locked /\ Obtained /\ N \in Nat \ {0} /\ Null \notin Nodes /\ i[n] \in 0..N
  BY DetMemAssumption, Zenon DEF Base, TypeOK
<1>1. /\ \A m \in Nodes \ {n} : pc'[m] = pc[m] /\ i'[m] = i[m] /\ allocs'[m] = allocs[m]
      /\ ObtainedBy(n)' => Obtained'
  <2>1. \A m \in Nodes \ {n} : pc'[m] = pc[m] /\ i'[m] = i[m] /\ allocs'[m] = allocs[m]
    BY <1>0, Others, Zenon DEF Base
  <2>. QED
    BY <2>1, <1>0 DEF Obtained, ObtainedBy
<1>2. ObtainedBy(n)
  BY <1>0, Zenon DEF Obtained, ObtainedBy
<1>3. CASE Controls(n)
  <2>1. PICK to \in {"pop", "lock", "again"} :
           /\ pc' = [pc EXCEPT ![n] = to]
           /\ IF to = "again" THEN fill = Null /\ fill' = n ELSE fill' = fill
    BY <1>3, Zenon DEF Controls, Moves
  <2>2. pc'[n] = to /\ UNCHANGED <<qs, heap, i, allocs, results, live, rounds>>
    BY <1>0, <1>3, <2>1, Zenon DEF Controls, TypeOK
  <2>3. TypeOK'
    BY <1>0, <2>1, <2>2, Zenon DEF TypeOK
  <2>4. Locked'
    BY <1>0, <1>1, <2>1, <2>2 DEF Locked, Working
  <2>5. ObtainedBy(n)'
    BY <2>2, Zenon DEF ObtainedBy, Working
  <2>. QED
    BY <1>1, <2>3, <2>4, <2>5, Zenon DEF Base
<1>4. CASE Receives(n)
  <2>1. /\ pc[n] \in {"pop", "again"} /\ qs' \in [Nodes -> Seq(Items)]
        /\ \/ pc' = [pc EXCEPT ![n] = "idle"] \/ pc' = [pc EXCEPT ![n] = "panic"]
        /\ fill' = IF pc[n] = "pop" THEN fill ELSE Null
        /\ UNCHANGED <<heap, i, allocs, rounds>>
    BY <1>4, Zenon DEF Receives, Took, Moves
  <2>2. results' \in [Nodes -> Seq(Answers)] /\ live' \in [Nodes -> SUBSET Block]
    BY <1>0, <1>4, Zenon DEF Receives, Gets, TypeOK
  <2>3. TypeOK' /\ pc'[n] \in {"idle", "panic"}
    BY <1>0, <2>1, <2>2, Zenon DEF TypeOK
  <2>4. Locked'
    BY <1>0, <1>1, <2>1, <2>3, Zenon DEF Locked, Working
  <2>5. ObtainedBy(n)'
    BY <2>3, Zenon DEF ObtainedBy, Working
  <2>. QED
    BY <1>1, <2>3, <2>4, <2>5, Zenon DEF Base
<1>5. CASE Begins(n)
  <2>1. /\ pc[n] = "again" /\ pc' = [pc EXCEPT ![n] = "ask"] /\ rounds' = rounds + 1
        /\ allocs' = [allocs EXCEPT ![n] = <<>>] /\ i' = [i EXCEPT ![n] = 0]
        /\ UNCHANGED <<qs, fill, heap, results, live>>
    BY <1>5, Zenon DEF Begins, Moves
  <2>2. pc'[n] = "ask" /\ allocs'[n] = <<>> /\ i'[n] = 0
    BY <1>0, <2>1, Zenon DEF TypeOK
  <2>3. TypeOK'
    BY <1>0, <2>1 DEF TypeOK, Working
  <2>4. Locked'
    BY <1>0, <1>1, <2>1, <2>2, Zenon DEF Locked, Working
  <2>5. ObtainedBy(n)'
    BY <2>2 DEF ObtainedBy, Working
  <2>. QED
    BY <1>1, <2>3, <2>4, <2>5, Zenon DEF Base
<1>6. CASE Obtains(n)
  <2>1. PICK b \in heap \cup {Null} :
           /\ pc[n] = "ask" /\ i[n] < N /\ (b # Null => b[1] = i[n])
           /\ i' = [i EXCEPT ![n] = i[n] + 1]
           /\ allocs' = [allocs EXCEPT ![n] = Append(allocs[n], b)]
           /\ heap' = heap \ {b}
           /\ UNCHANGED <<qs, fill, pc, results, live, rounds>>
    BY <1>6, Zenon DEF Obtains
  <2>2. b \in Block \cup {Null} /\ allocs[n] \in Seq(Block \cup {Null}) /\ Len(allocs[n]) = i[n]
    BY <1>0, <1>2, <2>1, Lengths, Zenon DEF TypeOK, ObtainedBy, Working
  <2>3. /\ Append(allocs[n], b) \in Seq(Block \cup {Null})
        /\ Len(Append(allocs[n], b)) = i[n] + 1
        /\ \A k \in 1..i[n] : Append(allocs[n], b)[k] = allocs[n][k]
        /\ Append(allocs[n], b)[i[n] + 1] = b
    BY <2>2, AppendProperties
  <2>4. /\ allocs'[n] = Append(allocs[n], b) /\ i'[n] = i[n] + 1 /\ i'[n] \in 0..N
        /\ pc'[n] = "ask"
    BY <1>0, <2>1 DEF TypeOK
  <2>5. TypeOK'
    BY <1>0, <2>1, <2>3, <2>4, Zenon DEF TypeOK
  <2>6. Locked'
    BY <1>0, <2>1, Zenon DEF Locked
  <2>7. ASSUME NEW k \in 1..(i[n] + 1), Append(allocs[n], b)[k] # Null
        PROVE  Append(allocs[n], b)[k][1] = k - 1
    <3>1. CASE k \in 1..i[n]
      BY <1>2, <2>1, <2>2, <2>3, <2>7, <3>1, Zenon DEF ObtainedBy, Working
    <3>2. CASE k = i[n] + 1
      BY <1>0, <2>1, <2>3, <2>7, <3>2
    <3>3. k \in 1..i[n] \/ k = i[n] + 1
      BY <1>0
    <3>. QED
      BY <3>1, <3>2, <3>3, Zenon
  <2>8. ObtainedBy(n)'
    BY <2>3, <2>4, <2>7, Zenon DEF ObtainedBy
  <2>. QED
    BY <1>1, <2>5, <2>6, <2>8, Zenon DEF Base
<1>7. CASE Asked(n)
  <2>1. /\ pc[n] = "ask" /\ i[n] = N
        /\ pc' = [pc EXCEPT ![n] = IF \E j \in 1..N : allocs[n][j] = Null
                                   THEN "revert" ELSE "share"]
        /\ i' = [i EXCEPT ![n] = 0]
        /\ UNCHANGED <<qs, fill, heap, allocs, results, live, rounds>>
    BY <1>7, Zenon DEF Asked
  <2>2. pc'[n] = IF \E j \in 1..N : allocs[n][j] = Null THEN "revert" ELSE "share"
    BY <1>0, <2>1, Zenon DEF TypeOK
  <2>3. TypeOK'
    BY <1>0, <2>1 DEF TypeOK, Working
  <2>4. Locked'
    BY <1>0, <1>1, <2>1, Zenon DEF Locked, Working
  <2>5. ObtainedBy(n)'
    BY <1>2, <2>1, <2>2 DEF ObtainedBy, Working
  <2>. QED
    BY <1>1, <2>3, <2>4, <2>5, Zenon DEF Base
<1>8. ASSUME Hands(n) \/ Skips(n) \/ Gives(n)
      PROVE  Base'
  <2>1. /\ pc[n] \in {"share", "revert"} /\ i[n] \in Nodes /\ pc' = pc
        /\ i' = [i EXCEPT ![n] = i[n] + 1] /\ qs' \in [Nodes -> Seq(Items)]
        /\ UNCHANGED <<fill, allocs, results, live, rounds>>
    <3>1. /\ pc[n] \in {"share", "revert"} /\ (i[n] < N \/ i[n] = n)
          /\ pc' = pc /\ i' = [i EXCEPT ![n] = i[n] + 1]
          /\ UNCHANGED <<fill, allocs, results, live, rounds>>
      BY <1>8, Zenon DEF Hands, Skips, Gives
    <3>2. qs' \in [Nodes -> Seq(Items)]
      BY <1>0, <1>8, Zenon DEF Hands, Skips, Gives, Puts, TypeOK
    <3>3. i[n] \in Nodes
      BY <1>0, <3>1 DEF Nodes
    <3>. QED
      BY <3>1, <3>2, <3>3, Zenon
  <2>2. allocs[n][i[n] + 1] \in Block \cup {Null} /\ i[n] + 1 \in 0..N
    BY <1>0, <2>1, Indices
  <2>3. heap' \in SUBSET Block
    BY <1>0, <1>8, <2>2, Zenon DEF Hands, Skips, Gives, TypeOK
  <2>4. TypeOK'
    BY <1>0, <2>1, <2>2, <2>3, Zenon DEF TypeOK
  <2>5. Locked'
    BY <1>0, <2>1, Zenon DEF Locked
  <2>6. ObtainedBy(n)'
    BY <1>2, <2>1, Zenon DEF ObtainedBy
  <2>. QED
    BY <1>1, <2>4, <2>5, <2>6, Zenon DEF Base
<1>9. CASE Panics(n)
  <2>1. /\ pc[n] \in {"share", "revert"} /\ i[n] \in Nodes
        /\ pc' = [pc EXCEPT ![n] = "panic"]
        /\ i' = [i EXCEPT ![n] = i[n] + 1]
        /\ UNCHANGED <<qs, fill, allocs, results, live, rounds>>
    BY <1>0, <1>9 DEF Panics, Moves, TypeOK, Nodes
  <2>2. allocs[n][i[n] + 1] \in Block \cup {Null} /\ i[n] + 1 \in 0..N
    BY <1>0, <2>1, Indices
  <2>3. heap' \in SUBSET Block
    BY <1>0, <1>9, <2>2, Zenon DEF Panics, TypeOK
  <2>4. TypeOK' /\ pc'[n] = "panic"
    BY <1>0, <2>1, <2>2, <2>3, Zenon DEF TypeOK
  <2>5. Locked'
    BY <1>0, <1>1, <2>1, <2>4, Zenon DEF Locked, Working
  <2>6. ObtainedBy(n)'
    BY <2>4, Zenon DEF ObtainedBy, Working
  <2>. QED
    BY <1>1, <2>4, <2>5, <2>6, Zenon DEF Base
<1>10. CASE Ends(n)
  <2>1. /\ pc[n] \in {"share", "revert"} /\ pc' = [pc EXCEPT ![n] = "idle"]
        /\ results' \in [Nodes -> Seq(Answers)] /\ live' \in [Nodes -> SUBSET Block]
        /\ fill' = Null /\ UNCHANGED <<qs, heap, i, allocs, rounds>>
    BY <1>10, Zenon DEF Ends, Moves, Gets
  <2>2. TypeOK' /\ pc'[n] = "idle"
    BY <1>0, <2>1, Zenon DEF TypeOK
  <2>3. Locked'
    BY <1>0, <1>1, <2>1, <2>2, Zenon DEF Locked, Working
  <2>4. ObtainedBy(n)'
    BY <2>2, Zenon DEF ObtainedBy, Working
  <2>. QED
    BY <1>1, <2>2, <2>3, <2>4, Zenon DEF Base
<1>11. CASE Dealloc(n)
  <2>1. /\ UNCHANGED <<qs, fill, pc, i, allocs, results, rounds>>
        /\ \E b \in live[n] : live' = [live EXCEPT ![n] = @ \ {b}] /\ heap' = heap \cup {b}
    BY <1>11, Zenon DEF Dealloc
  <2>2. TypeOK'
    BY <1>0, <2>1 DEF TypeOK
  <2>3. Locked' /\ Obtained'
    BY <1>0, <2>1, Zenon DEF Locked, Obtained
  <2>. QED
    BY <2>2, <2>3, Zenon DEF Base
<1>. QED
  BY <1>3, <1>4, <1>5, <1>6, <1>7, <1>8, <1>9, <1>10, <1>11, Zenon DEF AStep

-----------------------------------------------------------------------------
(***************************************************************************)
(* Where blocks are                                                         *)
(***************************************************************************)
\* A queue that loses its first element.
LEMMA TookQueued ==
  ASSUME NEW n \in Nodes, Took(n), NEW b \in Block
  PROVE  /\ b \in Queued(n) => b = qs[n][1].ptr \/ b \in Queued(n)'
         /\ b \in Queued(n)' => b \in Queued(n) /\ \E k \in 2..Len(qs[n]) : qs[n][k].ptr = b
         /\ b = qs[n][1].ptr => b \in Queued(n)
         /\ \A m \in Nodes \ {n} : Queued(m)' = Queued(m)
<1>0. Len(qs[n]) \in Nat \ {0} /\ Null \notin Block
  BY DetMemAssumption, Zenon DEF Took
<1>1. ASSUME b \in Queued(n) PROVE b = qs[n][1].ptr \/ b \in Queued(n)'
  <2>1. PICK k \in 1..Len(qs[n]) : qs[n][k].ptr = b
    BY <1>1, Zenon DEF Queued
  <2>2. CASE k = 1
    BY <2>1, <2>2, Zenon
  <2>3. CASE k # 1
    <3>1. k - 1 \in 1..(Len(qs[n]) - 1) /\ k - 1 + 1 = k
      BY <1>0, <2>3
    <3>2. qs'[n][k - 1] = qs[n][k] /\ k - 1 \in 1..Len(qs'[n])
      BY <3>1, Zenon DEF Took
    <3>. QED
      BY <1>0, <2>1, <3>2, Zenon DEF Queued
  <2>. QED
    BY <2>2, <2>3, Zenon
<1>2. ASSUME b \in Queued(n)' PROVE b \in Queued(n) /\ \E k \in 2..Len(qs[n]) : qs[n][k].ptr = b
  <2>1. PICK k \in 1..Len(qs'[n]) : qs'[n][k].ptr = b
    BY <1>2, Zenon DEF Queued
  <2>2. k \in 1..(Len(qs[n]) - 1) /\ k + 1 \in 2..Len(qs[n]) /\ k + 1 \in 1..Len(qs[n])
    BY <1>0 DEF Took
  <2>3. qs[n][k + 1].ptr = b
    BY <2>1, <2>2, Zenon DEF Took
  <2>. QED
    BY <1>0, <2>2, <2>3, Zenon DEF Queued
<1>3. b = qs[n][1].ptr => b \in Queued(n)
  <2>1. 1 \in 1..Len(qs[n])
    BY <1>0
  <2>. QED
    BY <1>0, <2>1, Zenon DEF Queued
<1>4. \A m \in Nodes \ {n} : Queued(m)' = Queued(m)
  BY Zenon DEF Took, Queued
<1>. QED
  BY <1>1, <1>2, <1>3, <1>4, Zenon

\* A queue that gets an element at its end.
LEMMA PutsQueued ==
  ASSUME NEW j \in Nodes, NEW x, Puts(j, x), NEW b \in Block
  PROVE  /\ b \in Queued(j)' <=> b \in Queued(j) \/ b = x.ptr
         /\ \A m \in Nodes \ {j} : Queued(m)' = Queued(m)
<1>0. Len(qs[j]) \in Nat /\ Null \notin Block /\ Len(qs'[j]) = Len(qs[j]) + 1
  BY DetMemAssumption, Zenon DEF Puts
<1>1. ASSUME b \in Queued(j)' PROVE b \in Queued(j) \/ b = x.ptr
  <2>1. PICK k \in 1..Len(qs'[j]) : qs'[j][k].ptr = b
    BY <1>1, Zenon DEF Queued
  <2>2. k \in 1..Len(qs[j]) \/ k = Len(qs[j]) + 1
    BY <1>0
  <2>. QED
    BY <1>0, <2>1, <2>2, Zenon DEF Queued, Puts
<1>2. ASSUME b \in Queued(j) PROVE b \in Queued(j)'
  <2>1. PICK k \in 1..Len(qs[j]) : qs[j][k].ptr = b
    BY <1>2, Zenon DEF Queued
  <2>2. k \in 1..Len(qs'[j])
    BY <1>0
  <2>3. qs'[j][k].ptr = b
    BY <2>1, Zenon DEF Puts
  <2>. QED
    BY <1>0, <2>2, <2>3, Zenon DEF Queued
<1>3. ASSUME b = x.ptr PROVE b \in Queued(j)'
  <2>1. Len(qs[j]) + 1 \in 1..Len(qs'[j])
    BY <1>0
  <2>2. qs'[j][Len(qs[j]) + 1].ptr = b
    BY <1>3, Zenon DEF Puts
  <2>. QED
    BY <1>0, <2>1, <2>2, Zenon DEF Queued
<1>4. \A m \in Nodes \ {j} : Queued(m)' = Queued(m)
  BY Zenon DEF Puts, Queued
<1>. QED
  BY <1>1, <1>2, <1>3, <1>4, Zenon

\* A node that is not in the loops has nothing in its hands.
LEMMA NoHand ==
  ASSUME NEW n \in Nodes, pc[n] \notin Working
  PROVE  Hand(n) = {}
BY Zenon DEF Hand, Pending

\* The same after the step.
LEMMA NoHandNext ==
  ASSUME NEW n \in Nodes, pc'[n] \notin Working
  PROVE  Hand(n)' = {}
BY Zenon DEF Hand, Pending

\* What is in the hands of the leader, by index.
LEMMA HandIs ==
  ASSUME NEW n \in Nodes, pc[n] \in Working, NEW b
  PROVE  b \in Hand(n) <=>
            \E k \in 1..Len(allocs[n]) :
               /\ allocs[n][k] = b /\ b # Null
               /\ pc[n] = "ask" \/ k > i[n] \/ (pc[n] = "share" /\ k = n + 1)
BY Zenon DEF Hand, Pending

\* The same after the step.
LEMMA HandIsNext ==
  ASSUME NEW n \in Nodes, pc'[n] \in Working, NEW b
  PROVE  b \in Hand(n)' <=>
            \E k \in 1..Len(allocs'[n]) :
               /\ allocs'[n][k] = b /\ b # Null
               /\ pc'[n] = "ask" \/ k > i'[n] \/ (pc'[n] = "share" /\ k = n + 1)
BY Zenon DEF Hand, Pending

\* The hands of other nodes.
LEMMA OtherHands ==
  ASSUME Base, NEW n \in Nodes, AStep(n), NEW m \in Nodes \ {n}
  PROVE  Hand(m)' = Hand(m)
<1>1. pc'[m] = pc[m] /\ i'[m] = i[m] /\ allocs'[m] = allocs[m]
  BY Others, Zenon
<1>. QED
  BY <1>1, Zenon DEF Hand, Pending

\* Block b is where it was, or arrives at a place, or leaves one for another.
Remains(b) == \A w \in Where : \A m \in Nodes : At(b, w, m)' <=> At(b, w, m)
Arrives(b, v, k, u, j) ==
    /\ At(b, u, j)'
    /\ \A w \in Where : \A m \in Nodes : At(b, w, m) => At(b, w, m)' \/ (w = v /\ m = k)
Leaves(b, v, k, u, j) ==
    /\ At(b, v, k) /\ ~At(b, v, k)'
    /\ \A w \in Where : \A m \in Nodes : At(b, w, m)' => At(b, w, m) \/ (w = u /\ m = j)

\* What Kept and Apart need.
Keeps(b) ==
    \A w \in Where : \A m \in Nodes : At(b, w, m) => \E v \in Where : \E k \in Nodes : At(b, v, k)'
Parts(b) ==
    \/ \A w \in Where : \A m \in Nodes : At(b, w, m)' => At(b, w, m)
    \/ \E v, u \in Where : \E k, j \in Nodes : Leaves(b, v, k, u, j)

\* A block that remains where it is keeps its owner and gets no other.
LEMMA RemainsIs ==
  ASSUME NEW b \in Block, Remains(b)
  PROVE  Keeps(b) /\ Parts(b)
BY Zenon DEF Remains, Keeps, Parts

\* A block that arrives somewhere still has an owner.
LEMMA ArrivesIs ==
  ASSUME NEW b \in Block, NEW v \in Where, NEW u \in Where, NEW k \in Nodes, NEW j \in Nodes,
         Arrives(b, v, k, u, j)
  PROVE  Keeps(b)
BY Zenon DEF Arrives, Keeps

\* A block that leaves for another place has one owner there.
LEMMA LeavesIs ==
  ASSUME NEW b \in Block, NEW v \in Where, NEW u \in Where, NEW k \in Nodes, NEW j \in Nodes,
         Leaves(b, v, k, u, j)
  PROVE  Parts(b)
BY Zenon DEF Parts

\* What each kind of step does to a block.
LEMMA Transfers ==
  ASSUME Base, NEW n \in Nodes, AStep(n), NEW b \in Block
  PROVE  (Calm' => Keeps(b)) /\ (Fine => Parts(b))
<1>0. /\ TypeOK /\ Locked /\ Obtained /\ Null \notin Block /\ i[n] \in 0..N /\ b # Null
      /\ N \in Nat \ {0} /\ n \in Nat /\ 0 \in Nodes /\ Nodes = 0..(N - 1)
  <2>1. TypeOK /\ Locked /\ Obtained /\ Null \notin Block /\ b # Null /\ N \in Nat \ {0}
    BY DetMemAssumption, Zenon DEF Base
  <2>2. i[n] \in 0..N
    BY <2>1, Zenon DEF TypeOK
  <2>3. n \in Nat /\ 0 \in Nodes /\ Nodes = 0..(N - 1)
    BY <2>1 DEF Nodes
  <2>. QED
    BY <2>1, <2>2, <2>3, Zenon
<1>1. \A m \in Nodes \ {n} : Hand(m)' = Hand(m)
  BY OtherHands, Zenon
<1>2. ASSUME UNCHANGED <<heap, live, qs>>, b \in Hand(n)' <=> b \in Hand(n) PROVE Remains(b)
  BY <1>1, <1>2 DEF Remains, At, Queued
<1>3. CASE Controls(n) \/ Begins(n)
  <2>1. pc[n] \in {"idle", "pop", "lock", "again"} /\ UNCHANGED <<heap, live, qs>>
    BY <1>3, Zenon DEF Controls, Begins
  <2>2. CASE Controls(n)
    <3>1. pc'[n] \in {"pop", "lock", "again"}
      BY <1>0, <2>2, Zenon DEF Controls, Moves, TypeOK
    <3>2. Hand(n) = {} /\ Hand(n)' = {}
      BY <2>1, <3>1, NoHand, NoHandNext, Zenon DEF Working
    <3>. QED
      BY <1>2, <2>1, <3>2, RemainsIs, Zenon
  <2>3. CASE Begins(n)
    <3>1. pc'[n] = "ask" /\ allocs'[n] = <<>>
      BY <1>0, <2>3, Zenon DEF Begins, Moves, TypeOK
    <3>2. Hand(n) = {}
      BY <2>1, NoHand, Zenon DEF Working
    <3>3. b \notin Hand(n)'
      BY <3>1, HandIsNext DEF Working
    <3>. QED
      BY <1>2, <2>1, <3>2, <3>3, RemainsIs, Zenon
  <2>. QED
    BY <1>3, <2>2, <2>3, Zenon
<1>4. CASE Receives(n)
  <2>1. Took(n) /\ pc[n] \in {"pop", "again"} /\ heap' = heap
    BY <1>4, Zenon DEF Receives
  <2>2. pc'[n] \in {"idle", "panic"}
    BY <1>0, <1>4, Zenon DEF Receives, Moves, TypeOK
  <2>3. Hand(n) = {} /\ Hand(n)' = {}
    BY <2>1, <2>2, NoHand, NoHandNext, Zenon DEF Working
  <2>4. /\ b \in Queued(n) => b = qs[n][1].ptr \/ b \in Queued(n)'
        /\ b \in Queued(n)' => b \in Queued(n) /\ \E k \in 2..Len(qs[n]) : qs[n][k].ptr = b
        /\ b = qs[n][1].ptr => b \in Queued(n)
        /\ \A m \in Nodes \ {n} : Queued(m)' = Queued(m)
    BY <2>1, TookQueued, Zenon
  <2>5. CASE Gets(n, qs[n][1].ptr, qs[n][1].round)
    <3>1. /\ \A m \in Nodes \ {n} : live'[m] = live[m]
          /\ live'[n] = live[n] \cup ({qs[n][1].ptr} \ {Null})
      BY <2>5, Zenon DEF Gets
    <3>2. CASE b # qs[n][1].ptr
      <4>1. Remains(b)
        BY <1>1, <2>1, <2>3, <2>4, <3>1, <3>2, Zenon DEF Remains, At
      <4>. QED
        BY <4>1, RemainsIs, Zenon
    <3>3. CASE b = qs[n][1].ptr
      <4>1. Arrives(b, "queue", n, "live", n)
        BY <1>0, <1>1, <2>1, <2>3, <2>4, <3>1, <3>3, Zenon DEF Arrives, At
      <4>2. ASSUME Fine PROVE Leaves(b, "queue", n, "live", n)
        <5>1. b \notin Queued(n)'
          <6>1. SUFFICES ASSUME NEW k \in 2..Len(qs[n]), qs[n][k].ptr = b PROVE FALSE
            BY <2>4, Zenon
          <6>2. Len(qs[n]) \in Nat
            BY <1>0, Lengths, Zenon
          <6>3. k \in 1..Len(qs[n]) /\ 1 \in 1..Len(qs[n]) /\ k # 1
            BY <6>2
          <6>. QED
            BY <3>3, <4>2, <6>1, <6>3 DEF Fine, Apart, NoTwins
        <5>. QED
          BY <1>0, <1>1, <2>1, <2>3, <2>4, <3>1, <3>3, <5>1, Zenon DEF Leaves, At
      <4>. QED
        BY <4>1, <4>2, ArrivesIs, LeavesIs, Zenon DEF Where
    <3>. QED
      BY <3>2, <3>3, Zenon
  <2>6. CASE Moves(n, "panic") /\ UNCHANGED <<results, live>>
    <3>1. ~Calm'
      BY <1>0, <2>6, Zenon DEF Calm, Moves, TypeOK
    <3>2. \A w \in Where : \A m \in Nodes : At(b, w, m)' => At(b, w, m)
      BY <1>1, <2>1, <2>3, <2>4, <2>6, Zenon DEF At
    <3>. QED
      BY <3>1, <3>2, Zenon DEF Parts
  <2>. QED
    BY <1>4, <2>5, <2>6, Zenon DEF Receives
<1>5. CASE Obtains(n)
  <2>1. PICK c \in heap \cup {Null} :
           /\ pc[n] = "ask" /\ i[n] < N
           /\ allocs' = [allocs EXCEPT ![n] = Append(allocs[n], c)]
           /\ heap' = heap \ {c}
           /\ UNCHANGED <<qs, fill, pc, results, live, rounds>>
    BY <1>5, Zenon DEF Obtains
  <2>2. c \in Block \cup {Null} /\ allocs[n] \in Seq(Block \cup {Null}) /\ Len(allocs[n]) \in Nat
    BY <1>0, <2>1, Lengths, Zenon DEF TypeOK
  <2>3. /\ Len(Append(allocs[n], c)) = Len(allocs[n]) + 1
        /\ \A k \in 1..Len(allocs[n]) : Append(allocs[n], c)[k] = allocs[n][k]
        /\ Append(allocs[n], c)[Len(allocs[n]) + 1] = c
    BY <2>2, AppendProperties
  <2>4. allocs'[n] = Append(allocs[n], c) /\ pc'[n] = "ask"
    BY <1>0, <2>1, Zenon DEF TypeOK
  <2>5. b \in Hand(n)' <=> \E k \in 1..(Len(allocs[n]) + 1) : Append(allocs[n], c)[k] = b
    <3>1. pc'[n] \in Working /\ Len(allocs'[n]) = Len(allocs[n]) + 1
      BY <2>3, <2>4, Zenon DEF Working
    <3>2. b \in Hand(n)' <=>
            \E k \in 1..Len(allocs'[n]) :
               /\ allocs'[n][k] = b /\ b # Null
               /\ pc'[n] = "ask" \/ k > i'[n] \/ (pc'[n] = "share" /\ k = n + 1)
      BY <3>1, HandIsNext, Zenon
    <3>. QED
      BY <1>0, <2>4, <3>1, <3>2, Zenon
  <2>6. b \in Hand(n) <=> \E k \in 1..Len(allocs[n]) : allocs[n][k] = b
    BY <1>0, <2>1, HandIs DEF Working
  <2>7. b \in Hand(n)' <=> b \in Hand(n) \/ b = c
    <3>1. \A k \in 1..(Len(allocs[n]) + 1) : k \in 1..Len(allocs[n]) \/ k = Len(allocs[n]) + 1
      BY <2>2
    <3>2. /\ \A k \in 1..Len(allocs[n]) : k \in 1..(Len(allocs[n]) + 1)
          /\ Len(allocs[n]) + 1 \in 1..(Len(allocs[n]) + 1)
      BY <2>2
    <3>. QED
      BY <2>3, <2>5, <2>6, <3>1, <3>2, Zenon
  <2>8. CASE b # c
    <3>1. Remains(b)
      BY <1>1, <2>1, <2>7, <2>8 DEF Remains, At, Queued
    <3>. QED
      BY <3>1, RemainsIs, Zenon
  <2>9. CASE b = c
    <3>1. Arrives(b, "heap", 0, "hand", n) /\ Leaves(b, "heap", 0, "hand", n)
      BY <1>0, <1>1, <2>1, <2>7, <2>9, Zenon DEF Arrives, Leaves, At, Queued
    <3>. QED
      BY <1>0, <3>1, ArrivesIs, LeavesIs, Zenon DEF Where
  <2>. QED
    BY <2>8, <2>9, Zenon
<1>6. CASE Asked(n)
  <2>1. /\ pc[n] = "ask" /\ pc'[n] \in {"share", "revert"} /\ i'[n] = 0
        /\ UNCHANGED <<heap, live, qs, allocs>>
    BY <1>0, <1>6, Zenon DEF Asked, TypeOK
  <2>2. b \in Hand(n) <=> \E k \in 1..Len(allocs[n]) : allocs[n][k] = b
    BY <1>0, <2>1, HandIs DEF Working
  <2>3. \A k \in 1..Len(allocs[n]) : k > 0
    BY <1>0, Lengths
  <2>4. b \in Hand(n)' <=> \E k \in 1..Len(allocs[n]) : allocs[n][k] = b
    BY <1>0, <2>1, <2>3, HandIsNext DEF Working
  <2>. QED
    BY <1>2, <2>1, <2>2, <2>4, RemainsIs, Zenon
<1>7. CASE Skips(n)
  <2>1. /\ pc[n] = "share" /\ i[n] = n /\ pc'[n] = "share" /\ i'[n] = n + 1
        /\ UNCHANGED <<heap, live, qs, allocs>>
    BY <1>0, <1>7, Zenon DEF Skips, TypeOK
  <2>2. \A k \in 1..Len(allocs[n]) : (k > n \/ k = n + 1) <=> (k > n + 1 \/ k = n + 1)
    BY <1>0, Lengths
  <2>3. b \in Hand(n)' <=> b \in Hand(n)
    BY <2>1, <2>2, HandIs, HandIsNext DEF Working
  <2>. QED
    BY <1>2, <2>1, <2>3, RemainsIs, Zenon
<1>8. ASSUME NEW j \in Nodes, pc[n] \in {"share", "revert"}, i[n] = j, i'[n] = j + 1,
             allocs' = allocs, pc'[n] = pc[n], pc[n] = "share" => j # n
      PROVE  b \in Hand(n)' <=> b \in Hand(n) /\ b # allocs[n][j + 1]
  <2>0. j + 1 \in 1..N /\ Len(allocs[n]) = N /\ j \in Nat
    BY <1>0, <1>8, Indices, Zenon
  <2>1. \A k \in 1..N : (k > j + 1 <=> k > j /\ k # j + 1) /\ (k = n + 1 /\ j # n => k # j + 1)
    BY <1>0, <2>0
  <2>2. \A k \in 1..N : allocs[n][k] = b /\ allocs[n][j + 1] = b => k = j + 1
    <3>1. SUFFICES ASSUME NEW k \in 1..N, allocs[n][k] = b, allocs[n][j + 1] = b PROVE k = j + 1
      BY Zenon
    <3>2. b[1] = k - 1 /\ b[1] = (j + 1) - 1
      BY <1>0, <1>8, <2>0, <3>1, Zenon DEF Obtained, Working
    <3>. QED
      BY <2>0, <3>2
  <2>3. b \in Hand(n) <=> \E k \in 1..N : allocs[n][k] = b /\ (k > j \/ (pc[n] = "share" /\ k = n + 1))
    BY <1>0, <1>8, <2>0, HandIs DEF Working
  <2>4. b \in Hand(n)' <=>
          \E k \in 1..N : allocs[n][k] = b /\ (k > j + 1 \/ (pc[n] = "share" /\ k = n + 1))
    BY <1>0, <1>8, <2>0, HandIsNext DEF Working
  <2>. QED
    BY <1>8, <2>0, <2>1, <2>2, <2>3, <2>4, Zenon
<1>9. ASSUME NEW j \in Nodes, pc[n] \in {"share", "revert"}, i[n] = j, b = allocs[n][j + 1]
      PROVE  b \in Hand(n)
  <2>0. j + 1 \in 1..N /\ Len(allocs[n]) = N /\ j \in Nat /\ j + 1 > j
    BY <1>0, <1>9, Indices
  <2>. QED
    BY <1>0, <1>9, <2>0, HandIs, Zenon DEF Working
<1>10. CASE Hands(n)
  <2>1. PICK j \in Nodes : i[n] = j
    BY <1>0, <1>10 DEF Hands
  <2>2. /\ pc[n] = "share" /\ j # n /\ i'[n] = j + 1 /\ pc' = pc
        /\ Puts(j, [layout |-> Want(n), ptr |-> allocs[n][j + 1], round |-> rounds])
        /\ UNCHANGED <<allocs, heap, live>>
    BY <1>0, <1>10, <2>1, Zenon DEF Hands, TypeOK
  <2>3. b \in Hand(n)' <=> b \in Hand(n) /\ b # allocs[n][j + 1]
    BY <1>8, <2>1, <2>2, Zenon
  <2>4. b = allocs[n][j + 1] => b \in Hand(n)
    BY <1>9, <2>1, <2>2, Zenon
  <2>5. /\ b \in Queued(j)' <=> b \in Queued(j) \/ b = allocs[n][j + 1]
        /\ \A m \in Nodes \ {j} : Queued(m)' = Queued(m)
    BY <2>2, PutsQueued
  <2>6. CASE b # allocs[n][j + 1]
    <3>1. Remains(b)
      BY <1>1, <2>2, <2>3, <2>5, <2>6, Zenon DEF Remains, At
    <3>. QED
      BY <3>1, RemainsIs, Zenon
  <2>7. CASE b = allocs[n][j + 1]
    <3>1. Arrives(b, "hand", n, "queue", j)
      BY <1>1, <2>2, <2>3, <2>4, <2>5, <2>7, Zenon DEF Arrives, At
    <3>2. Leaves(b, "hand", n, "queue", j)
      BY <1>1, <2>2, <2>3, <2>4, <2>5, <2>7, Zenon DEF Leaves, At
    <3>. QED
      BY <3>1, <3>2, ArrivesIs, LeavesIs, Zenon DEF Where
  <2>. QED
    BY <2>6, <2>7, Zenon
<1>11. CASE Gives(n)
  <2>1. PICK j \in Nodes : i[n] = j
    BY <1>0, <1>11 DEF Gives
  <2>2. /\ pc[n] = "revert" /\ i'[n] = j + 1 /\ pc' = pc
        /\ Puts(j, [layout |-> Want(n), ptr |-> Null, round |-> rounds])
        /\ heap' = heap \cup ({allocs[n][j + 1]} \ {Null})
        /\ UNCHANGED <<allocs, live>>
    BY <1>0, <1>11, <2>1, Zenon DEF Gives, TypeOK
  <2>3. b \in Hand(n)' <=> b \in Hand(n) /\ b # allocs[n][j + 1]
    BY <1>8, <2>1, <2>2, Zenon
  <2>4. b = allocs[n][j + 1] => b \in Hand(n)
    BY <1>9, <2>1, <2>2, Zenon
  <2>5. \A m \in Nodes : b \in Queued(m)' <=> b \in Queued(m)
    BY <1>0, <2>2, PutsQueued
  <2>6. CASE b # allocs[n][j + 1]
    <3>1. Remains(b)
      BY <1>1, <2>2, <2>3, <2>5, <2>6, Zenon DEF Remains, At
    <3>. QED
      BY <3>1, RemainsIs, Zenon
  <2>7. CASE b = allocs[n][j + 1]
    <3>1. Arrives(b, "hand", n, "heap", 0)
      BY <1>0, <1>1, <2>2, <2>3, <2>4, <2>5, <2>7, Zenon DEF Arrives, At
    <3>2. Leaves(b, "hand", n, "heap", 0)
      BY <1>0, <1>1, <2>2, <2>3, <2>4, <2>5, <2>7, Zenon DEF Leaves, At
    <3>. QED
      BY <1>0, <3>1, <3>2, ArrivesIs, LeavesIs, Zenon DEF Where
  <2>. QED
    BY <2>6, <2>7, Zenon
<1>12. CASE Panics(n)
  <2>1. PICK j \in Nodes : i[n] = j
    BY <1>0, <1>12 DEF Panics
  <2>2. /\ pc[n] \in {"share", "revert"} /\ pc'[n] = "panic"
        /\ heap' = IF pc[n] = "share" THEN heap ELSE heap \cup ({allocs[n][j + 1]} \ {Null})
        /\ UNCHANGED <<qs, live>>
    BY <1>0, <1>12, <2>1, Zenon DEF Panics, Moves, TypeOK
  <2>3. ~Calm'
    BY <2>2, Zenon DEF Calm
  <2>4. Hand(n)' = {}
    BY <2>2, NoHandNext, Zenon DEF Working
  <2>5. CASE pc[n] = "share" \/ b # allocs[n][j + 1]
    <3>1. \A w \in Where : \A m \in Nodes : At(b, w, m)' => At(b, w, m)
      BY <1>1, <2>2, <2>4, <2>5, Zenon DEF At, Queued
    <3>. QED
      BY <2>3, <3>1, Zenon DEF Parts
  <2>6. CASE b = allocs[n][j + 1]
    <3>1. b \in Hand(n)
      BY <1>9, <2>1, <2>2, <2>6, Zenon
    <3>2. Leaves(b, "hand", n, "heap", 0)
      BY <1>0, <1>1, <2>2, <2>4, <2>6, <3>1, Zenon DEF Leaves, At, Queued
    <3>. QED
      BY <1>0, <2>3, <3>2, LeavesIs, Zenon DEF Where
  <2>. QED
    BY <2>5, <2>6, Zenon
<1>13. CASE Ends(n)
  <2>1. /\ pc[n] \in {"share", "revert"} /\ i[n] = N /\ pc'[n] = "idle"
        /\ Gets(n, allocs[n][n + 1], rounds)
        /\ UNCHANGED <<qs, heap>>
    BY <1>0, <1>13, Zenon DEF Ends, Moves, TypeOK
  <2>2. /\ \A m \in Nodes \ {n} : live'[m] = live[m]
        /\ live'[n] = live[n] \cup ({allocs[n][n + 1]} \ {Null})
    BY <2>1, Zenon DEF Gets
  <2>3. Hand(n)' = {}
    BY <2>1, NoHandNext, Zenon DEF Working
  <2>4. b \in Hand(n) <=> pc[n] = "share" /\ b = allocs[n][n + 1]
    <3>1. n + 1 \in 1..N /\ Len(allocs[n]) = N /\ \A k \in 1..N : ~(k > N)
      BY <1>0, <2>1, Indices
    <3>. QED
      BY <1>0, <2>1, <3>1, HandIs DEF Working
  <2>5. CASE b # allocs[n][n + 1]
    <3>1. Remains(b)
      BY <1>1, <2>1, <2>2, <2>3, <2>4, <2>5 DEF Remains, At, Queued
    <3>. QED
      BY <3>1, RemainsIs, Zenon
  <2>6. CASE b = allocs[n][n + 1]
    <3>1. Arrives(b, "hand", n, "live", n)
      BY <1>0, <1>1, <2>1, <2>2, <2>3, <2>4, <2>6, Zenon DEF Arrives, At, Queued
    <3>2. ASSUME Fine PROVE Leaves(b, "hand", n, "live", n)
      <4>1. pc[n] = "share"
        BY <1>0, <2>1, <3>2, Zenon DEF Fine, Turns, TurnOf, Working
      <4>. QED
        BY <1>0, <1>1, <2>1, <2>2, <2>3, <2>4, <2>6, <4>1, Zenon DEF Leaves, At, Queued
    <3>. QED
      BY <3>1, <3>2, ArrivesIs, LeavesIs, Zenon DEF Where
  <2>. QED
    BY <2>5, <2>6, Zenon
<1>14. CASE Dealloc(n)
  <2>1. PICK c \in live[n] : live' = [live EXCEPT ![n] = live[n] \ {c}] /\ heap' = heap \cup {c}
    BY <1>14, Zenon DEF Dealloc
  <2>2. /\ UNCHANGED <<qs, pc, i, allocs>> /\ live'[n] = live[n] \ {c}
        /\ \A m \in Nodes \ {n} : live'[m] = live[m]
    BY <1>0, <1>14, <2>1, Zenon DEF Dealloc, TypeOK
  <2>3. Hand(n)' = Hand(n)
    BY <2>2, Zenon DEF Hand, Pending
  <2>4. CASE b # c
    <3>1. Remains(b)
      BY <1>1, <2>1, <2>2, <2>3, <2>4 DEF Remains, At, Queued
    <3>. QED
      BY <3>1, RemainsIs, Zenon
  <2>5. CASE b = c
    <3>1. Arrives(b, "live", n, "heap", 0)
      BY <1>0, <1>1, <2>1, <2>2, <2>3, <2>5, Zenon DEF Arrives, At, Queued
    <3>2. Leaves(b, "live", n, "heap", 0)
      BY <1>0, <1>1, <2>1, <2>2, <2>3, <2>5 DEF Leaves, At, Queued
    <3>. QED
      BY <1>0, <3>1, <3>2, ArrivesIs, LeavesIs, Zenon DEF Where
  <2>. QED
    BY <2>4, <2>5, Zenon
<1>. QED
  BY <1>3, <1>4, <1>5, <1>6, <1>7, <1>10, <1>11, <1>12, <1>13, <1>14, Zenon DEF AStep

\* Before a panic blocks are kept.
LEMMA StepKept ==
  ASSUME Base, Kept, NEW n \in Nodes, AStep(n)
  PROVE  Kept'
<1>1. SUFFICES ASSUME Calm', NEW b \in Block
               PROVE  \E w \in Where : \E m \in Nodes : At(b, w, m)'
  BY Zenon DEF Kept
<1>2. Calm
  <2>1. SUFFICES ASSUME NEW m \in Nodes, pc[m] = "panic" PROVE FALSE
    BY Zenon DEF Calm
  <2>2. CASE m # n
    BY <1>1, <2>1, <2>2, Others, Zenon DEF Calm
  <2>3. CASE m = n
    BY <2>1, <2>3, Zenon DEF AStep, Controls, Receives, Begins, Obtains, Asked, Hands, Skips, Gives,
         Panics, Ends, Dealloc
  <2>. QED
    BY <2>2, <2>3, Zenon
<1>3. PICK w \in Where, m \in Nodes : At(b, w, m)
  BY <1>2, Zenon DEF Kept
<1>. QED
  BY <1>1, <1>3, Transfers, Zenon DEF Keeps

\* Queues have no block twice.
LEMMA StepNoTwins ==
  ASSUME Base, Fine, NEW n \in Nodes, AStep(n), ~Gives(n), NEW m \in Nodes
  PROVE  NoTwins(m)'
<1>0. NoTwins(m) /\ Null \notin Block
  BY DetMemAssumption, Zenon DEF Fine, Apart
<1>1. TypeOK /\ Obtained
  BY Zenon DEF Base
<1>2. CASE qs'[m] = qs[m]
  BY <1>0, <1>2, Zenon DEF NoTwins
<1>3. CASE Receives(n) /\ m = n
  <2>1. /\ Len(qs[m]) \in Nat \ {0} /\ Len(qs'[m]) = Len(qs[m]) - 1
        /\ \A k \in 1..(Len(qs[m]) - 1) : qs'[m][k] = qs[m][k + 1]
    BY <1>3, Zenon DEF Receives, Took
  <2>2. SUFFICES ASSUME NEW j \in 1..Len(qs'[m]), NEW k \in 1..Len(qs'[m]),
                        qs'[m][j].ptr = qs'[m][k].ptr
                 PROVE  j = k
    BY Zenon DEF NoTwins
  <2>3. /\ j \in 1..(Len(qs[m]) - 1) /\ k \in 1..(Len(qs[m]) - 1)
        /\ j + 1 \in 1..Len(qs[m]) /\ k + 1 \in 1..Len(qs[m])
    BY <2>1
  <2>4. qs[m][j + 1].ptr = qs[m][k + 1].ptr
    BY <2>1, <2>2, <2>3, Zenon
  <2>5. j + 1 = k + 1
    BY <1>0, <2>3, <2>4, Zenon DEF NoTwins
  <2>. QED
    BY <2>1, <2>5
<1>4. CASE Hands(n) /\ m = i[n]
  <2>0. pc[n] = "share" /\ i[n] = m
    BY <1>4, Zenon DEF Hands
  <2>1. /\ Puts(m, [layout |-> Want(n), ptr |-> allocs[n][m + 1], round |-> rounds])
        /\ m + 1 \in 1..N /\ allocs[n][m + 1] \in Block
    BY <1>1, <1>4, <2>0, Indices, Zenon DEF Hands, Obtained, Working
  <2>2. /\ Len(qs[m]) \in Nat /\ Len(qs'[m]) = Len(qs[m]) + 1
        /\ \A k \in 1..Len(qs[m]) : qs'[m][k] = qs[m][k]
        /\ qs'[m][Len(qs[m]) + 1].ptr = allocs[n][m + 1]
    BY <2>1 DEF Puts
  <2>3. allocs[n][m + 1] \in Hand(n)
    <3>1. Len(allocs[n]) = N /\ m + 1 > i[n]
      BY <1>1, <2>0, Indices
    <3>. QED
      BY <1>0, <2>0, <2>1, <3>1, HandIs, Zenon DEF Working
  <2>4. \A k \in 1..Len(qs[m]) : qs[m][k].ptr # allocs[n][m + 1]
    <3>1. SUFFICES ASSUME NEW k \in 1..Len(qs[m]), qs[m][k].ptr = allocs[n][m + 1] PROVE FALSE
      BY Zenon
    <3>2. allocs[n][m + 1] \in Queued(m)
      BY <1>0, <2>1, <3>1, Zenon DEF Queued
    <3>3. At(allocs[n][m + 1], "queue", m) /\ At(allocs[n][m + 1], "hand", n)
      BY <2>3, <3>2, Zenon DEF At
    <3>4. "queue" \in Where /\ "hand" \in Where
      BY Zenon DEF Where
    <3>5. "queue" = "hand"
      BY <2>1, <3>3, <3>4, Zenon DEF Fine, Apart
    <3>. QED
      BY <3>5, Zenon
  <2>5. \A k \in 1..Len(qs'[m]) : k \in 1..Len(qs[m]) \/ k = Len(qs[m]) + 1
    BY <2>2
  <2>. QED
    BY <1>0, <2>2, <2>4, <2>5, Zenon DEF NoTwins
<1>. QED
  <2>1. CASE Receives(n)
    BY <1>2, <1>3, <2>1, Zenon DEF Receives, Took
  <2>2. CASE Hands(n)
    BY <1>2, <1>4, <2>2, Zenon DEF Hands, Puts
  <2>. QED
    BY <1>2, <2>1, <2>2, Zenon DEF AStep, Controls, Begins, Obtains, Asked, Skips, Panics, Ends, Dealloc

\* No block gets to two places.
LEMMA StepApart ==
  ASSUME Base, Fine, NEW n \in Nodes, AStep(n), ~Gives(n)
  PROVE  Apart'
<1>1. \A m \in Nodes : NoTwins(m)'
  BY StepNoTwins, Zenon
<1>2. ASSUME NEW b \in Block, NEW w \in Where, NEW v \in Where, NEW k \in Nodes, NEW m \in Nodes,
             At(b, w, k)', At(b, v, m)'
      PROVE  w = v /\ k = m
  <2>1. Parts(b)
    BY Transfers, Zenon
  <2>2. \A x, y \in Where : \A p, q \in Nodes : At(b, x, p) /\ At(b, y, q) => x = y /\ p = q
    BY Zenon DEF Fine, Apart
  <2>3. CASE \A x \in Where : \A p \in Nodes : At(b, x, p)' => At(b, x, p)
    BY <1>2, <2>2, <2>3, Zenon
  <2>4. ASSUME NEW x \in Where, NEW y \in Where, NEW p \in Nodes, NEW q \in Nodes,
               Leaves(b, x, p, y, q)
        PROVE  w = v /\ k = m
    BY <1>2, <2>2, <2>4 DEF Leaves
  <2>. QED
    BY <2>1, <2>3, <2>4, Zenon DEF Parts
<1>. QED
  BY <1>1, <1>2, Zenon DEF Apart

-----------------------------------------------------------------------------
(***************************************************************************)
(* As long as no round fails                                                *)
(***************************************************************************)
\* Answers are in order after any step.
LEMMA StepAligned ==
  ASSUME Base, Fine, NEW n \in Nodes, AStep(n), ~Gives(n), NEW m \in Nodes
  PROVE  /\ AlignedAt(m)'
         /\ Hands(n) /\ m = i[n] => Total(m)' = Total(m) + 1
         /\ Ends(n) /\ m = n => Total(m)' = Total(m) + 1
         /\ ~(Hands(n) /\ m = i[n]) /\ ~(Ends(n) /\ m = n) => Total(m)' = Total(m)
<1>0. /\ TypeOK /\ Locked /\ Obtained /\ AlignedAt(m) /\ Turns /\ Null \notin Block
      /\ Len(qs[m]) \in Nat /\ Len(results[m]) \in Nat /\ Len(results[n]) \in Nat
  BY DetMemAssumption, Lengths, Zenon DEF Base, Fine, Aligned
<1>9. Size(qs[m]) \in Nat /\ Size(results[m]) \in Nat
  BY <1>0, Zenon DEF Size
<1>1. CASE qs'[m] = qs[m] /\ results'[m] = results[m] /\ ~(Hands(n) /\ m = i[n]) /\ ~(Ends(n) /\ m = n)
  BY <1>0, <1>1, Zenon DEF AlignedAt, InOrder, Total
<1>2. CASE Receives(n) /\ m = n
  <2>1. /\ Len(qs[m]) \in Nat \ {0} /\ Len(qs'[m]) = Len(qs[m]) - 1
        /\ \A k \in 1..(Len(qs[m]) - 1) : qs'[m][k] = qs[m][k + 1]
    BY <1>2, Zenon DEF Receives, Took
  <2>2. 1 \in 1..Len(qs[m])
    BY <2>1
  <2>3. qs[m][1].layout = Want(m) /\ qs[m][1].round = Len(results[m]) + 1 /\ qs[m][1].ptr # Null
    BY <1>0, <2>2, Zenon DEF AlignedAt, InOrder, Want
  <2>4. Gets(m, qs[m][1].ptr, qs[m][1].round) /\ pc[n] \notin {"share", "revert"}
    BY <1>2, <2>3, Zenon DEF Receives
  <2>5. /\ Len(results'[m]) = Len(results[m]) + 1
        /\ \A k \in 1..Len(results[m]) : results'[m][k] = results[m][k]
        /\ results'[m][Len(results[m]) + 1] = [ptr |-> qs[m][1].ptr, round |-> qs[m][1].round]
    BY <2>4, Zenon DEF Gets
  <2>6. ASSUME NEW k \in 1..Len(qs'[m])
        PROVE  /\ qs'[m][k].layout = Script[Len(results'[m]) + k]
               /\ qs'[m][k].round = Len(results'[m]) + k /\ qs'[m][k].ptr # Null
    <3>1. k \in 1..(Len(qs[m]) - 1) /\ k + 1 \in 1..Len(qs[m])
      BY <2>1
    <3>2. Len(results'[m]) + k = Len(results[m]) + (k + 1)
      <4>1. Size(results'[m]) = Size(results[m]) + 1 /\ k \in Int
        BY <2>5, <3>1 DEF Size
      <4>2. Size(results'[m]) + k = Size(results[m]) + (k + 1)
        BY <1>9, <4>1
      <4>. QED
        BY <4>2, Zenon DEF Size
    <3>3. /\ qs[m][k + 1].layout = Script[Len(results[m]) + (k + 1)]
          /\ qs[m][k + 1].round = Len(results[m]) + (k + 1) /\ qs[m][k + 1].ptr # Null
      BY <1>0, <3>1, Zenon DEF AlignedAt, InOrder
    <3>4. qs'[m][k] = qs[m][k + 1]
      BY <2>1, <3>1, Zenon
    <3>. QED
      BY <3>2, <3>3, <3>4, Zenon
  <2>7. ASSUME NEW k \in 1..Len(results'[m])
        PROVE  results'[m][k].round = k /\ results'[m][k].ptr # Null
    <3>1. k \in 1..Len(results[m]) \/ k = Len(results[m]) + 1
      BY <1>0, <2>5
    <3>2. CASE k \in 1..Len(results[m])
      BY <1>0, <2>5, <3>2, Zenon DEF AlignedAt
    <3>3. CASE k = Len(results[m]) + 1
      BY <2>3, <2>5, <3>3
    <3>. QED
      BY <3>1, <3>2, <3>3, Zenon
  <2>8. Total(m)' = Total(m)
    <3>1. Size(results'[m]) = Size(results[m]) + 1 /\ Size(qs'[m]) = Size(qs[m]) - 1
      BY <2>1, <2>5, Zenon DEF Size
    <3>. QED
      BY <1>9, <3>1 DEF Total
  <2>. QED
    BY <1>2, <2>4, <2>6, <2>7, <2>8, Zenon DEF AlignedAt, InOrder, Hands, Ends
<1>3. CASE Hands(n) /\ m = i[n]
  <2>0. pc[n] = "share" /\ i[n] = m /\ m # n
    BY <1>3, Zenon DEF Hands
  <2>1. /\ Puts(m, [layout |-> Want(n), ptr |-> allocs[n][m + 1], round |-> rounds])
        /\ allocs[n][m + 1] # Null /\ results' = results
    BY <1>0, <1>3, <2>0, Indices, Zenon DEF Hands, Obtained, Working
  <2>2. /\ Len(qs'[m]) = Len(qs[m]) + 1
        /\ \A k \in 1..Len(qs[m]) : qs'[m][k] = qs[m][k]
        /\ qs'[m][Len(qs[m]) + 1].ptr = allocs[n][m + 1]
        /\ qs'[m][Len(qs[m]) + 1].round = rounds
        /\ qs'[m][Len(qs[m]) + 1].layout = Want(n)
    BY <2>1 DEF Puts
  <2>3. Len(results[n]) + 1 = rounds /\ Len(results[m]) + (Len(qs[m]) + 1) = rounds
    <3>1. m \in Nodes \ {n} /\ ~(m < i[n]) /\ rounds \in Nat
      BY <1>0, <2>0, Indices DEF TypeOK
    <3>2. Len(results[n]) + 1 = rounds /\ Total(m) = rounds - 1
      BY <1>0, <2>0, <3>1, Zenon DEF Turns, TurnOf, Working
    <3>3. Size(results[m]) + (Size(qs[m]) + 1) = rounds
      BY <1>9, <3>1, <3>2 DEF Total
    <3>. QED
      BY <3>2, <3>3, Zenon DEF Size
  <2>4. ASSUME NEW k \in 1..Len(qs'[m])
        PROVE  /\ qs'[m][k].layout = Script[Len(results[m]) + k]
               /\ qs'[m][k].round = Len(results[m]) + k /\ qs'[m][k].ptr # Null
    <3>1. k \in 1..Len(qs[m]) \/ k = Len(qs[m]) + 1
      BY <1>0, <2>2
    <3>2. CASE k \in 1..Len(qs[m])
      BY <1>0, <2>2, <3>2, Zenon DEF AlignedAt, InOrder
    <3>3. CASE k = Len(qs[m]) + 1
      BY <2>1, <2>2, <2>3, <3>3, Zenon DEF Want
    <3>. QED
      BY <3>1, <3>2, <3>3, Zenon
  <2>5. Total(m)' = Total(m) + 1
    <3>1. results' = results /\ Size(qs'[m]) = Size(qs[m]) + 1
      BY <2>1, <2>2, Zenon DEF Size
    <3>. QED
      BY <1>9, <3>1 DEF Total
  <2>6. AlignedAt(m)'
    BY <1>0, <2>1, <2>4, Zenon DEF AlignedAt, InOrder
  <2>. QED
    BY <1>3, <2>0, <2>5, <2>6, Zenon
<1>4. CASE Ends(n) /\ m = n
  <2>1. /\ pc[m] \in {"share", "revert"} /\ i[m] = N /\ Gets(m, allocs[m][m + 1], rounds) /\ qs' = qs
    BY <1>4, Zenon DEF Ends
  <2>2. Len(results[m]) + 1 = rounds /\ qs[m] = <<>> /\ pc[m] = "share"
    BY <1>0, <2>1, DetMemAssumption, Zenon DEF Turns, TurnOf, Working
  <2>3. allocs[m][m + 1] # Null
    BY <1>0, <2>1, <2>2, Indices, Zenon DEF Obtained, Working
  <2>4. /\ Len(results'[m]) = Len(results[m]) + 1
        /\ \A k \in 1..Len(results[m]) : results'[m][k] = results[m][k]
        /\ results'[m][Len(results[m]) + 1] = [ptr |-> allocs[m][m + 1], round |-> rounds]
    BY <2>1, Zenon DEF Gets
  <2>5. ASSUME NEW k \in 1..Len(results'[m])
        PROVE  results'[m][k].round = k /\ results'[m][k].ptr # Null
    <3>1. k \in 1..Len(results[m]) \/ k = Len(results[m]) + 1
      BY <1>0, <2>4
    <3>. QED
      BY <1>0, <2>2, <2>3, <2>4, <3>1 DEF AlignedAt
  <2>6. Total(m)' = Total(m) + 1
    <3>1. qs' = qs /\ Size(results'[m]) = Size(results[m]) + 1
      BY <2>1, <2>4, Zenon DEF Size
    <3>. QED
      BY <1>9, <3>1 DEF Total
  <2>7. qs'[m] = <<>> /\ Len(qs'[m]) = 0
    BY <2>1, <2>2, Zenon
  <2>8. AlignedAt(m)'
    BY <2>5, <2>7 DEF AlignedAt, InOrder
  <2>. QED
    BY <1>4, <2>1, <2>2, <2>6, <2>8, Zenon DEF Hands
<1>. QED
  <2>1. CASE Receives(n)
    <3>1. pc[n] \notin {"share", "revert"}
      BY <2>1, Zenon DEF Receives
    <3>2. CASE m # n
      BY <1>1, <2>1, <3>1, <3>2, Zenon DEF Receives, Took, Gets, Hands, Ends
    <3>. QED
      BY <1>2, <2>1, <3>2, Zenon
  <2>2. CASE Hands(n) /\ m # i[n]
    <3>1. qs'[m] = qs[m] /\ results' = results
      BY <2>2, Zenon DEF Hands, Puts
    <3>2. ~Ends(n)
      <4>1. i[n] < N /\ N \in Nat /\ i[n] \in Int
        BY <1>0, <2>2, DetMemAssumption DEF Hands, TypeOK
      <4>2. i[n] # N
        BY <4>1
      <4>. QED
        BY <4>2, Zenon DEF Ends
    <3>. QED
      BY <1>1, <2>2, <3>1, <3>2, Zenon
  <2>3. CASE Ends(n) /\ m # n
    <3>1. qs' = qs /\ results'[m] = results[m] /\ i[n] = N
      BY <2>3, Zenon DEF Ends, Gets
    <3>2. ~Hands(n)
      <4>1. ~(i[n] < N)
        BY <3>1, DetMemAssumption
      <4>. QED
        BY <4>1, Zenon DEF Hands
    <3>. QED
      BY <1>1, <2>3, <3>1, <3>2, Zenon
  <2>4. CASE ~Receives(n) /\ ~Hands(n) /\ ~Ends(n)
    <3>1. UNCHANGED <<qs, results>>
      BY <2>4, Zenon DEF AStep, Controls, Begins, Obtains, Asked, Skips, Panics, Dealloc
    <3>. QED
      BY <1>1, <2>4, <3>1, Zenon
  <2>. QED
    BY <1>3, <1>4, <2>1, <2>2, <2>3, <2>4, Zenon

\* Rounds are completed in turn.
LEMMA StepTurns ==
  ASSUME Base, Fine, NEW n \in Nodes, AStep(n), ~Gives(n)
  PROVE  Turns'
<1>0. /\ TypeOK /\ Locked /\ Obtained /\ Turns /\ N \in Nat \ {0} /\ Nodes = 0..(N - 1)
      /\ rounds \in Nat /\ Null \notin Nodes /\ Nodes \subseteq Nat /\ i[n] \in 0..N
  <2>1. TypeOK /\ Locked /\ Obtained /\ Turns /\ N \in Nat \ {0} /\ Null \notin Nodes
    BY DetMemAssumption, Zenon DEF Base, Fine
  <2>2. i[n] \in 0..N /\ rounds \in Nat
    BY <2>1, Zenon DEF TypeOK
  <2>3. Nodes = 0..(N - 1) /\ Nodes \subseteq Nat
    BY <2>1 DEF Nodes
  <2>. QED
    BY <2>1, <2>2, <2>3, Zenon
<1>1. \A m \in Nodes \ {n} : pc'[m] = pc[m] /\ i'[m] = i[m] /\ allocs'[m] = allocs[m]
  BY Others, Zenon
<1>2. \A m, k \in Nodes : pc[m] \in Working /\ pc[k] \in Working \cup {"again"} => m = k
  BY <1>0, Zenon DEF Locked
<1>3. \A m \in Nodes :
        /\ Hands(n) /\ m = i[n] => Total(m)' = Total(m) + 1
        /\ Ends(n) /\ m = n => Total(m)' = Total(m) + 1
        /\ ~(Hands(n) /\ m = i[n]) /\ ~(Ends(n) /\ m = n) => Total(m)' = Total(m)
  BY StepAligned, Zenon
<1>4. CASE Controls(n) \/ Receives(n) \/ Dealloc(n)
  <2>1. /\ rounds' = rounds /\ pc[n] \notin Working \cup {"panic"} /\ pc'[n] \notin Working
        /\ \A m \in Nodes : m # n => qs'[m] = qs[m] /\ results'[m] = results[m]
        /\ fill' = fill \/ (fill = Null /\ fill' = n) \/ (fill = n /\ fill' = Null)
    <3>1. CASE Controls(n)
      BY <1>0, <3>1, Zenon DEF Controls, Moves, TypeOK, Working
    <3>2. CASE Receives(n)
      BY <1>0, <3>2 DEF Receives, Moves, TypeOK, Working, Took, Gets, Locked
    <3>3. CASE Dealloc(n)
      BY <3>3, Zenon DEF Dealloc, Working
    <3>. QED
      BY <1>4, <3>1, <3>2, <3>3, Zenon
  <2>2. \A m \in Nodes : Total(m)' = Total(m)
    <3>1. ~Hands(n) /\ ~Ends(n)
      BY <2>1, Zenon DEF Hands, Ends, Working
    <3>. QED
      BY <1>3, <3>1, Zenon
  <2>3. ASSUME NEW m \in Nodes, pc'[m] \in Working PROVE TurnOf(m)'
    <3>1. m # n /\ pc[m] \in Working /\ pc'[m] = pc[m] /\ i'[m] = i[m]
      BY <1>1, <2>1, <2>3, Zenon
    <3>2. TurnOf(m) /\ qs'[m] = qs[m] /\ results'[m] = results[m]
      BY <1>0, <2>1, <3>1, Zenon DEF Turns
    <3>. QED
      BY <2>1, <2>2, <3>1, <3>2, Zenon DEF TurnOf
  <2>4. ASSUME Between' PROVE Between
    <3>1. SUFFICES ASSUME NEW m \in Nodes PROVE pc[m] \notin Working /\ ~(fill = m /\ pc[m] = "panic")
      BY Zenon DEF Between
    <3>2. CASE m = n
      BY <2>1, <3>2, Zenon
    <3>3. CASE m # n
      BY <1>0, <1>1, <2>1, <2>4, <3>3 DEF Between
    <3>. QED
      BY <3>2, <3>3, Zenon
  <2>. QED
    BY <1>0, <2>1, <2>2, <2>3, <2>4, Zenon DEF Turns
<1>5. CASE Begins(n)
  <2>1. /\ pc[n] = "again" /\ qs[n] = <<>> /\ qs' = qs /\ results' = results /\ rounds' = rounds + 1
        /\ pc'[n] = "ask"
    BY <1>0, <1>5, Zenon DEF Begins, Moves, TypeOK
  <2>2. \A m \in Nodes : Total(m)' = Total(m)
    BY <2>1, Zenon DEF Total
  <2>3. fill = n /\ \A m \in Nodes : pc[m] \notin Working
    BY <1>0, <1>2, <2>1, Zenon DEF Locked, Working
  <2>4. Between
    BY <1>0, <2>1, <2>3, Zenon DEF Between
  <2>5. \A m \in Nodes : Total(m) = rounds
    BY <1>0, <2>4, Zenon DEF Turns
  <2>6. Len(results[n]) = rounds
    <3>1. Size(qs[n]) = 0 /\ Size(results[n]) \in Nat
      BY <1>0, <2>1, Lengths, Zenon DEF Size
    <3>2. Size(results[n]) = rounds
      BY <1>0, <2>5, <3>1 DEF Total
    <3>. QED
      BY <3>2, Zenon DEF Size
  <2>7. TurnOf(n)'
    BY <1>0, <2>1, <2>2, <2>5, <2>6 DEF TurnOf
  <2>8. \A m \in Nodes \ {n} : pc'[m] \notin Working
    BY <1>1, <2>3, Zenon
  <2>9. ~Between'
    BY <2>1, Zenon DEF Between, Working
  <2>. QED
    BY <2>7, <2>8, <2>9, Zenon DEF Turns
<1>6. CASE Obtains(n) \/ Asked(n) \/ Hands(n) \/ Skips(n)
  <2>1. /\ pc[n] \in Working /\ pc'[n] \in Working /\ rounds' = rounds /\ results' = results
        /\ \/ /\ pc[n] = "ask" /\ pc'[n] = "ask" /\ qs' = qs
           \/ /\ pc[n] = "ask" /\ i'[n] = 0 /\ qs' = qs
           \/ /\ pc[n] = "share" /\ pc'[n] = "share" /\ i[n] \in Nodes /\ i'[n] = i[n] + 1
              /\ qs'[n] = qs[n]
    <3>1. CASE Obtains(n)
      BY <1>0, <3>1, Zenon DEF Obtains, Working
    <3>2. CASE Asked(n)
      BY <1>0, <3>2, Zenon DEF Asked, TypeOK, Working
    <3>3. CASE Hands(n)
      BY <1>0, <3>3 DEF Hands, TypeOK, Working, Puts
    <3>4. CASE Skips(n)
      BY <1>0, <3>4, Zenon DEF Skips, TypeOK, Working
    <3>. QED
      BY <1>6, <3>1, <3>2, <3>3, <3>4, Zenon
  <2>2. TurnOf(n)
    BY <1>0, <2>1, Zenon DEF Turns
  <2>3. qs'[n] = qs[n]
    BY <2>1, Zenon
  <2>4. \A m \in Nodes \ {n} :
          Total(m)' = IF pc'[n] = "share" /\ m < i'[n] THEN rounds ELSE rounds - 1
    <3>1. SUFFICES ASSUME NEW m \in Nodes \ {n}
                   PROVE  Total(m)' = IF pc'[n] = "share" /\ m < i'[n] THEN rounds ELSE rounds - 1
      BY Zenon
    <3>2. Total(m) = IF pc[n] = "share" /\ m < i[n] THEN rounds ELSE rounds - 1
      BY <2>2, Zenon DEF TurnOf
    <3>3. m \in Nat
      BY <1>0, Zenon
    <3>4. CASE pc[n] = "ask"
      <4>1. qs' = qs /\ ~(pc'[n] = "share" /\ m < i'[n])
        BY <2>1, <3>3, <3>4
      <4>2. Total(m)' = Total(m)
        BY <2>1, <4>1, Zenon DEF Total
      <4>. QED
        BY <3>2, <3>4, <4>1, <4>2, Zenon
    <3>5. CASE pc[n] = "share"
      <4>1. pc'[n] = "share" /\ i[n] \in Nat /\ i'[n] = i[n] + 1 /\ ~Ends(n)
        BY <1>0, <2>1, <3>5 DEF Ends
      <4>2. (m < i'[n]) <=> (m < i[n] \/ m = i[n])
        BY <3>3, <4>1
      <4>3. CASE m = i[n]
        <5>1. Hands(n)
          BY <1>6, <3>1, <3>5, <4>3, Zenon DEF Obtains, Asked, Skips
        <5>2. Total(m)' = Total(m) + 1 /\ Total(m) = rounds - 1
          BY <1>3, <3>2, <3>3, <4>3, <5>1
        <5>. QED
          BY <1>0, <4>1, <4>2, <4>3, <5>2
      <4>4. CASE m # i[n]
        BY <1>3, <3>2, <3>5, <4>1, <4>2, <4>4, Zenon
      <4>. QED
        BY <4>3, <4>4, Zenon
    <3>. QED
      BY <2>1, <2>2, <3>4, <3>5, <1>6, Zenon DEF Obtains, Asked, Hands, Skips
  <2>5. TurnOf(n)'
    <3>1. pc'[n] = "revert" => i'[n] = 0
      BY <2>1, Zenon
    <3>. QED
      BY <2>1, <2>2, <2>3, <2>4, <3>1, Zenon DEF TurnOf
  <2>6. \A m \in Nodes \ {n} : pc'[m] \notin Working
    BY <1>1, <1>2, <2>1, Zenon
  <2>7. ~Between'
    BY <2>1, Zenon DEF Between
  <2>. QED
    BY <2>5, <2>6, <2>7, Zenon DEF Turns
<1>7. CASE Panics(n)
  <2>1. pc[n] \in Working /\ pc'[n] = "panic" /\ fill' = fill
    BY <1>0, <1>7, Zenon DEF Panics, Moves, TypeOK, Working
  <2>2. fill = n
    BY <1>0, <2>1, Zenon DEF Locked
  <2>3. \A m \in Nodes : pc'[m] \notin Working
    BY <1>1, <1>2, <2>1, Zenon DEF Working
  <2>4. ~Between'
    BY <2>1, <2>2, Zenon DEF Between
  <2>. QED
    BY <2>3, <2>4, Zenon DEF Turns
<1>8. CASE Ends(n)
  <2>1. pc[n] \in {"share", "revert"} /\ i[n] = N /\ pc'[n] = "idle" /\ rounds' = rounds
    BY <1>0, <1>8, Zenon DEF Ends, Moves, TypeOK
  <2>2. TurnOf(n)
    BY <1>0, <2>1, Zenon DEF Turns, Working
  <2>3. pc[n] = "share"
    BY <1>0, <2>1, <2>2, Zenon DEF TurnOf
  <2>4. \A m \in Nodes : pc'[m] \notin Working
    BY <1>1, <1>2, <2>1, Zenon DEF Working
  <2>5. ~Hands(n)
    BY <2>1, Zenon DEF Hands
  <2>6. ASSUME NEW m \in Nodes \ {n} PROVE Total(m)' = rounds
    <3>1. m < i[n]
      BY <1>0, <2>1
    <3>. QED
      BY <1>3, <2>2, <2>3, <2>5, <2>6, <3>1, Zenon DEF TurnOf
  <2>7. Total(n)' = rounds
    <3>1. Size(qs[n]) = 0 /\ Size(results[n]) + 1 = rounds /\ Size(results[n]) \in Nat
      BY <1>0, <2>2, Lengths, Zenon DEF TurnOf, Size
    <3>2. Total(n) + 1 = rounds
      BY <3>1 DEF Total
    <3>. QED
      BY <1>3, <1>8, <3>2, Zenon
  <2>. QED
    BY <2>1, <2>4, <2>6, <2>7, Zenon DEF Turns
<1>. QED
  BY <1>4, <1>5, <1>6, <1>7, <1>8, Zenon DEF AStep

\* A step keeps everything fine unless it is the first of a revert.
LEMMA StepFine ==
  ASSUME Base, Fine, NEW n \in Nodes, AStep(n), ~Gives(n)
  PROVE  Fine'
<1>1. Aligned'
  BY StepAligned, Zenon DEF Aligned
<1>. QED
  BY <1>1, StepTurns, StepApart, Zenon DEF Fine

-----------------------------------------------------------------------------
(***************************************************************************)
(* A round that fails                                                       *)
(***************************************************************************)
\* A null at the end of a queue that is in order is stuck there.
LEMMA Sticks ==
  ASSUME Base, NEW n \in Nodes, pc[n] = "revert", AStep(n), NEW m \in Nodes \ {n},
         Puts(m, [layout |-> Want(n), ptr |-> Null, round |-> rounds]), results' = results,
         InOrder(m), Want(n) = Script[Total(m) + 1]
  PROVE  Stuck'
<1>1. pc[m] \notin Working
  BY Zenon DEF Base, Locked, Working
<1>2. pc'[m] \notin Working
  BY <1>1, Others, Zenon
<1>3. /\ Len(qs[m]) \in Nat /\ Len(qs'[m]) = Len(qs[m]) + 1
      /\ \A k \in 1..Len(qs[m]) : qs'[m][k] = qs[m][k]
      /\ qs'[m][Len(qs[m]) + 1].ptr = Null
      /\ qs'[m][Len(qs[m]) + 1].layout = Want(n)
  BY DEF Puts
<1>4. Len(results[m]) + (Len(qs[m]) + 1) = Total(m) + 1
  <2>1. Size(results[m]) \in Nat /\ Size(qs[m]) \in Nat
    BY Lengths, Zenon DEF Base, Size
  <2>2. Size(results[m]) + (Size(qs[m]) + 1) = Total(m) + 1
    BY <2>1 DEF Total
  <2>. QED
    BY <2>2, Zenon DEF Size
<1>5. ASSUME NEW j \in 1..(Len(qs[m]) + 1)
      PROVE  qs'[m][j].layout = Script[Len(results'[m]) + j]
  <2>1. CASE j \in 1..Len(qs[m])
    BY <1>3, <2>1, Zenon DEF InOrder
  <2>2. CASE j = Len(qs[m]) + 1
    BY <1>3, <1>4, <2>2, Zenon
  <2>3. j \in 1..Len(qs[m]) \/ j = Len(qs[m]) + 1
    BY <1>3
  <2>. QED
    BY <2>1, <2>2, <2>3, Zenon
<1>6. Len(qs[m]) + 1 \in 1..Len(qs'[m])
  BY <1>3
<1>. QED
  BY <1>2, <1>3, <1>5, <1>6, Zenon DEF Stuck

\* The first step of a revert.
LEMMA GivesFails ==
  ASSUME Base, Fine, NEW n \in Nodes, Gives(n)
  PROVE  Failed'
<1>0. /\ TypeOK /\ Obtained /\ Turns /\ Aligned /\ pc[n] = "revert" /\ pc' = pc /\ allocs' = allocs
      /\ results' = results /\ N \in Nat \ {0} /\ rounds \in Nat /\ AStep(n)
  BY DetMemAssumption, Zenon DEF Base, Fine, Gives, AStep, TypeOK
<1>1. TurnOf(n)
  BY <1>0, Zenon DEF Turns, Working
<1>2. /\ Len(results[n]) + 1 = rounds /\ i[n] = 0
      /\ \A m \in Nodes \ {n} : Total(m) = rounds - 1
  BY <1>0, <1>1, Zenon DEF TurnOf
<1>3. /\ Puts(0, [layout |-> Want(n), ptr |-> Null, round |-> rounds]) /\ i'[n] = 1 /\ 0 \in Nodes
  <2>1. Puts(0, [layout |-> Want(n), ptr |-> Null, round |-> rounds]) /\ i'[n] = 0 + 1
    BY <1>0, <1>2, Zenon DEF Gives, TypeOK
  <2>. QED
    BY <1>0, <2>1 DEF Nodes
<1>4. Want(n) = Script[rounds]
  BY <1>2, Zenon DEF Want
<1>5. \A m \in Nodes \ {n} : InOrder(m) /\ Want(n) = Script[Total(m) + 1]
  <2>1. SUFFICES ASSUME NEW m \in Nodes \ {n} PROVE InOrder(m) /\ Total(m) + 1 = rounds
    BY <1>4, Zenon
  <2>2. Total(m) + 1 = rounds
    BY <1>0, <1>2
  <2>. QED
    BY <1>0, <2>2, Zenon DEF Aligned, AlignedAt
<1>6. CASE n # 0
  <2>1. 0 \in Nodes \ {n}
    BY <1>3, <1>6, Zenon
  <2>2. Stuck'
    BY <1>0, <1>3, <1>5, <2>1, Sticks, Zenon
  <2>. QED
    BY <2>2, Zenon DEF Failed
<1>7. CASE n = 0
  <2>1. \E k \in 1..Len(qs'[0]) : qs'[0][k].ptr = Null
    <3>1. /\ Len(qs[0]) \in Nat /\ Len(qs'[0]) = Len(qs[0]) + 1
          /\ qs'[0][Len(qs[0]) + 1].ptr = Null
      BY <1>3 DEF Puts
    <3>2. Len(qs[0]) + 1 \in 1..Len(qs'[0])
      BY <3>1
    <3>. QED
      BY <3>1, <3>2, Zenon
  <2>2. CASE N = 1
    <3>1. allocs[0][1] = Null
      BY <1>0, <1>7, <2>2 DEF Obtained, Working
    <3>2. Reverting'
      BY <1>0, <1>3, <1>7, <2>1, <2>2, <3>1, Zenon DEF Reverting
    <3>. QED
      BY <3>2, Zenon DEF Failed
  <2>3. CASE N # 1
    <3>1. 1 \in Nodes \ {n}
      BY <1>0, <1>7, <2>3 DEF Nodes
    <3>2. qs'[1] = qs[1]
      BY <1>3, <1>7, <3>1, Zenon DEF Puts
    <3>3. InOrder(1)' /\ Want(0)' = Want(0) /\ Total(1)' = Total(1)
      BY <1>0, <1>5, <3>1, <3>2, Zenon DEF InOrder, Want, Total
    <3>4. (InOrder(1) /\ Want(0) = Script[Total(1) + 1])'
      BY <1>5, <1>7, <3>1, <3>3, Zenon
    <3>5. Reverting'
      BY <1>0, <1>3, <1>7, <2>1, <2>3, <3>4, Zenon DEF Reverting
    <3>. QED
      BY <3>5, Zenon DEF Failed
  <2>. QED
    BY <2>2, <2>3, Zenon
<1>. QED
  BY <1>6, <1>7, Zenon

\* What any step of node n does to the results and the queue of node m.
LEMMA Effects ==
  ASSUME Base, NEW n \in Nodes, AStep(n), NEW m \in Nodes
  PROVE  /\ \A k \in 1..Len(results[m]) : k \in 1..Len(results'[m]) /\ results'[m][k] = results[m][k]
         /\ m # n => results'[m] = results[m]
         /\ ~(m = n /\ Receives(n)) =>
               \A k \in 1..Len(qs[m]) : k \in 1..Len(qs'[m]) /\ qs'[m][k] = qs[m][k]
<1>0. TypeOK /\ Len(qs[m]) \in Nat /\ Len(results[m]) \in Nat
  BY Lengths, Zenon DEF Base
<1>1. \/ results'[m] = results[m]
      \/ /\ m = n /\ Len(results'[m]) = Len(results[m]) + 1
         /\ \A k \in 1..Len(results[m]) : results'[m][k] = results[m][k]
  <2>1. CASE Receives(n)
    BY <2>1, Zenon DEF Receives, Gets
  <2>2. CASE Ends(n)
    BY <2>2, Zenon DEF Ends, Gets
  <2>. QED
    BY <2>1, <2>2, Zenon DEF AStep, Controls, Begins, Obtains, Asked, Hands, Skips, Gives, Panics, Dealloc
<1>2. \/ qs'[m] = qs[m]
      \/ m = n /\ Receives(n)
      \/ /\ Len(qs'[m]) = Len(qs[m]) + 1
         /\ \A k \in 1..Len(qs[m]) : qs'[m][k] = qs[m][k]
  <2>1. CASE Receives(n)
    BY <2>1, Zenon DEF Receives, Took
  <2>2. CASE Hands(n)
    BY <2>2, Zenon DEF Hands, Puts
  <2>3. CASE Gives(n)
    BY <2>3, Zenon DEF Gives, Puts
  <2>. QED
    BY <2>1, <2>2, <2>3, Zenon DEF AStep, Controls, Begins, Obtains, Asked, Skips, Panics, Ends, Dealloc
<1>3. ASSUME Len(results'[m]) = Len(results[m]) + 1, NEW k \in 1..Len(results[m])
      PROVE  k \in 1..Len(results'[m])
  BY <1>0, <1>3
<1>4. ASSUME Len(qs'[m]) = Len(qs[m]) + 1, NEW k \in 1..Len(qs[m])
      PROVE  k \in 1..Len(qs'[m])
  BY <1>0, <1>4
<1>. QED
  BY <1>1, <1>2, <1>3, <1>4, Zenon

\* A null that was returned stays so.
LEMMA ReturnedStays ==
  ASSUME Base, Returned, NEW n \in Nodes, AStep(n)
  PROVE  Returned'
<1>1. PICK m \in Nodes : \E k \in 1..Len(results[m]) : results[m][k].ptr = Null
  BY Zenon DEF Returned
<1>2. PICK k \in 1..Len(results[m]) : results[m][k].ptr = Null
  BY <1>1, Zenon
<1>3. k \in 1..Len(results'[m]) /\ results'[m][k] = results[m][k]
  BY Effects, Zenon
<1>. QED
  BY <1>2, <1>3, Zenon DEF Returned

\* A null that is stuck stays so or is returned.
LEMMA StuckStays ==
  ASSUME Base, Stuck, NEW n \in Nodes, AStep(n)
  PROVE  Returned' \/ Stuck'
<1>1. PICK m \in Nodes : \E k \in 1..Len(qs[m]) :
         /\ qs[m][k].ptr = Null
         /\ \/ pc[m] = "panic"
            \/ /\ pc[m] \notin Working
               /\ \A j \in 1..k : qs[m][j].layout = Script[Len(results[m]) + j]
  BY Zenon DEF Stuck
<1>2. PICK k \in 1..Len(qs[m]) :
         /\ qs[m][k].ptr = Null
         /\ \/ pc[m] = "panic"
            \/ /\ pc[m] \notin Working
               /\ \A j \in 1..k : qs[m][j].layout = Script[Len(results[m]) + j]
  BY <1>1, Zenon
<1>3. TypeOK /\ Len(qs[m]) \in Nat /\ Len(results[m]) \in Nat /\ pc[m] \notin Working
  BY <1>2, Lengths, Zenon DEF Base, Working
<1>4. \A j \in 1..k : j \in 1..Len(qs[m])
  BY <1>3
<1>5. ASSUME ~(m = n /\ Receives(n)), results'[m] = results[m], pc'[m] \notin Working,
             pc[m] = "panic" => pc'[m] = "panic"
      PROVE  Stuck'
  <2>1. \A j \in 1..Len(qs[m]) : j \in 1..Len(qs'[m]) /\ qs'[m][j] = qs[m][j]
    BY <1>5, Effects, Zenon
  <2>2. k \in 1..Len(qs'[m]) /\ qs'[m][k].ptr = Null
    BY <1>2, <2>1, Zenon
  <2>3. CASE pc[m] = "panic"
    BY <1>5, <2>2, <2>3, Zenon DEF Stuck
  <2>4. CASE \A j \in 1..k : qs[m][j].layout = Script[Len(results[m]) + j]
    <3>1. \A j \in 1..k : qs'[m][j].layout = Script[Len(results'[m]) + j]
      BY <1>4, <1>5, <2>1, <2>4, Zenon
    <3>. QED
      BY <1>5, <2>2, <3>1, Zenon DEF Stuck
  <2>. QED
    BY <1>2, <2>3, <2>4, Zenon
<1>6. CASE m # n
  <2>1. pc'[m] = pc[m] /\ results'[m] = results[m]
    BY <1>6, Effects, Others
  <2>. QED
    BY <1>3, <1>5, <1>6, <2>1, Zenon
<1>7. CASE m = n
  <2>1. pc[n] # "panic" /\ (Controls(n) \/ Receives(n) \/ Begins(n) \/ Dealloc(n))
    BY <1>3, <1>7, Zenon DEF AStep, Controls, Receives, Begins, Obtains, Asked, Hands, Skips, Gives,
         Panics, Ends, Dealloc, Working
  <2>2. CASE Controls(n)
    <3>1. pc'[n] \in {"pop", "lock", "again"} /\ results' = results /\ qs' = qs /\ ~Receives(n)
      <4>1. pc'[n] \in {"pop", "lock", "again"} /\ results' = results /\ qs' = qs
        BY <1>3, <2>2, Zenon DEF Controls, Moves, TypeOK
      <4>2. CASE Receives(n)
        BY <1>3, <4>1, <4>2 DEF Receives, Took
      <4>. QED
        BY <4>1, <4>2, Zenon
    <3>. QED
      BY <1>5, <1>7, <2>1, <3>1, Zenon DEF Working
  <2>3. CASE Begins(n)
    BY <1>3, <1>7, <2>3 DEF Begins
  <2>4. CASE Dealloc(n)
    <3>1. pc' = pc /\ results' = results /\ pc[n] = "idle"
      BY <2>4, Zenon DEF Dealloc
    <3>. QED
      BY <1>3, <1>5, <1>7, <3>1, Zenon DEF Receives
  <2>5. CASE Receives(n)
    <3>0. \A j \in 1..k : qs[m][j].layout = Script[Len(results[m]) + j]
      BY <1>2, <1>7, <2>1, Zenon
    <3>1. 1 \in 1..k /\ k \in Nat \ {0}
      BY <1>3
    <3>2. qs[m][1].layout = Want(m)
      BY <3>0, <3>1, Zenon DEF Want
    <3>3. /\ Took(m) /\ Gets(m, qs[m][1].ptr, qs[m][1].round) /\ pc'[m] = "idle"
      BY <1>3, <1>7, <2>5, <3>2, Zenon DEF Receives, Moves, TypeOK
    <3>4. /\ Len(results'[m]) = Len(results[m]) + 1
          /\ results'[m][Len(results[m]) + 1].ptr = qs[m][1].ptr
      BY <3>3 DEF Gets
    <3>5. CASE k = 1
      <4>1. Len(results[m]) + 1 \in 1..Len(results'[m])
        BY <1>3, <3>4
      <4>. QED
        BY <1>2, <3>4, <3>5, <4>1, Zenon DEF Returned
    <3>6. CASE k # 1
      <4>1. /\ Len(qs'[m]) = Len(qs[m]) - 1
            /\ \A j \in 1..(Len(qs[m]) - 1) : qs'[m][j] = qs[m][j + 1]
        BY <3>3, Zenon DEF Took
      <4>2. k - 1 \in 1..(Len(qs[m]) - 1) /\ (k - 1) + 1 = k
        BY <1>3, <3>1, <3>6
      <4>3. k - 1 \in 1..Len(qs'[m]) /\ qs'[m][k - 1].ptr = Null
        BY <1>2, <4>1, <4>2, Zenon
      <4>4. ASSUME NEW j \in 1..(k - 1)
            PROVE  qs'[m][j].layout = Script[Len(results'[m]) + j]
        <5>1. j + 1 \in 1..k /\ j \in 1..(Len(qs[m]) - 1) /\ j \in Int
          BY <1>3, <3>1
        <5>2. Size(results[m]) \in Nat /\ Size(results'[m]) = Size(results[m]) + 1
          BY <1>3, <3>4, Zenon DEF Size
        <5>3. Size(results'[m]) + j = Size(results[m]) + (j + 1)
          BY <5>1, <5>2
        <5>4. Len(results'[m]) + j = Len(results[m]) + (j + 1)
          BY <5>3, Zenon DEF Size
        <5>5. qs'[m][j] = qs[m][j + 1] /\ qs[m][j + 1].layout = Script[Len(results[m]) + (j + 1)]
          BY <3>0, <4>1, <5>1, Zenon
        <5>. QED
          BY <5>4, <5>5, Zenon
      <4>5. pc'[m] \notin Working
        BY <3>3, Zenon DEF Working
      <4>. QED
        BY <4>3, <4>4, <4>5, Zenon DEF Stuck
    <3>. QED
      BY <3>5, <3>6, Zenon
  <2>. QED
    BY <2>1, <2>2, <2>3, <2>4, <2>5, Zenon
<1>. QED
  BY <1>6, <1>7, Zenon

\* A node that pops from a queue in order leaves it so.
LEMMA PopsInOrder ==
  ASSUME Base, NEW m \in Nodes, Receives(m), InOrder(m)
  PROVE  InOrder(m)' /\ Total(m)' = Total(m)
<1>0. TypeOK /\ Size(qs[m]) \in Nat /\ Size(results[m]) \in Nat
  BY Lengths, Zenon DEF Base, Size
<1>1. /\ Len(qs[m]) \in Nat \ {0} /\ Len(qs'[m]) = Len(qs[m]) - 1
      /\ \A k \in 1..(Len(qs[m]) - 1) : qs'[m][k] = qs[m][k + 1]
  BY Zenon DEF Receives, Took
<1>2. 1 \in 1..Len(qs[m])
  BY <1>1
<1>3. qs[m][1].layout = Want(m)
  BY <1>2, Zenon DEF InOrder, Want
<1>4. Len(results'[m]) = Len(results[m]) + 1
  BY <1>3, Zenon DEF Receives, Gets
<1>5. Size(results'[m]) = Size(results[m]) + 1 /\ Size(qs'[m]) = Size(qs[m]) - 1
  BY <1>1, <1>4, Zenon DEF Size
<1>6. Total(m)' = Total(m)
  BY <1>0, <1>5 DEF Total
<1>7. ASSUME NEW k \in 1..Len(qs'[m])
      PROVE  qs'[m][k].layout = Script[Len(results'[m]) + k]
  <2>1. k \in 1..(Len(qs[m]) - 1) /\ k + 1 \in 1..Len(qs[m]) /\ k \in Int
    BY <1>1
  <2>2. Size(results'[m]) + k = Size(results[m]) + (k + 1)
    BY <1>0, <1>5, <2>1
  <2>3. Len(results'[m]) + k = Len(results[m]) + (k + 1)
    BY <2>2, Zenon DEF Size
  <2>4. qs'[m][k] = qs[m][k + 1] /\ qs[m][k + 1].layout = Script[Len(results[m]) + (k + 1)]
    BY <1>1, <2>1, Zenon DEF InOrder
  <2>. QED
    BY <2>3, <2>4, Zenon
<1>. QED
  BY <1>6, <1>7, Zenon DEF InOrder

\* Node 0 on its way to the next queue.
LEMMA RevertingStays ==
  ASSUME Base, Reverting, NEW n \in Nodes, AStep(n)
  PROVE  Failed'
<1>0. /\ TypeOK /\ Locked /\ N \in Nat \ {0} /\ 0 \in Nodes /\ pc[0] = "revert" /\ i[0] = 1
      /\ fill = 0 /\ Nodes = 0..(N - 1)
  <2>1. TypeOK /\ Locked /\ N \in Nat \ {0} /\ pc[0] = "revert" /\ i[0] = 1
    BY DetMemAssumption, Zenon DEF Base, Reverting
  <2>2. 0 \in Nodes /\ Nodes = 0..(N - 1)
    BY <2>1 DEF Nodes
  <2>. QED
    BY <2>1, <2>2, Zenon DEF Locked, Working
<1>1. PICK k \in 1..Len(qs[0]) : qs[0][k].ptr = Null
  BY Zenon DEF Reverting
<1>2. CASE n # 0
  <2>1. pc[n] \notin Working \cup {"again"}
    BY <1>0, <1>2, Zenon DEF Locked
  <2>2. Controls(n) \/ Receives(n) \/ Dealloc(n)
    BY <2>1, Zenon DEF AStep, Begins, Obtains, Asked, Hands, Skips, Gives, Panics, Ends, Working
  <2>3. pc'[0] = "revert" /\ i'[0] = 1 /\ allocs'[0] = allocs[0] /\ results'[0] = results[0]
    BY <1>0, <1>2, Others, Effects
  <2>4. k \in 1..Len(qs'[0]) /\ qs'[0][k].ptr = Null
    BY <1>0, <1>1, <1>2, Effects
  <2>5. CASE N = 1
    BY <2>3, <2>4, <2>5, Zenon DEF Reverting, Failed
  <2>6. CASE N # 1
    <3>1. 1 \in Nodes /\ InOrder(1) /\ Want(0) = Script[Total(1) + 1]
      BY <1>0, <2>6 DEF Reverting
    <3>2. Want(0)' = Want(0)
      BY <2>3, Zenon DEF Want
    <3>3. InOrder(1)' /\ Total(1)' = Total(1)
      <4>1. CASE Receives(n) /\ n = 1
        BY <3>1, <4>1, PopsInOrder, Zenon
      <4>2. CASE ~(Receives(n) /\ n = 1)
        <5>1. qs'[1] = qs[1] /\ results'[1] = results[1]
          BY <2>2, <3>1, <4>2, Zenon DEF Controls, Receives, Took, Gets, Dealloc
        <5>. QED
          BY <3>1, <5>1, Zenon DEF InOrder, Total
      <4>. QED
        BY <4>1, <4>2, Zenon
    <3>4. (InOrder(1) /\ Want(0) = Script[Total(1) + 1])'
      BY <3>1, <3>2, <3>3, Zenon
    <3>. QED
      BY <2>3, <2>4, <2>6, <3>4, Zenon DEF Reverting, Failed
  <2>. QED
    BY <2>5, <2>6, Zenon
<1>3. CASE n = 0
  <2>1. Gives(0) \/ Panics(0) \/ Ends(0)
    BY <1>0, <1>3, Zenon DEF AStep, Controls, Receives, Begins, Obtains, Asked, Hands, Skips, Dealloc
  <2>2. CASE Gives(0)
    <3>1. /\ Puts(1, [layout |-> Want(0), ptr |-> Null, round |-> rounds]) /\ 1 < N
          /\ results' = results
      BY <1>0, <2>2, Zenon DEF Gives
    <3>2. 1 \in Nodes \ {0} /\ InOrder(1) /\ Want(0) = Script[Total(1) + 1]
      BY <1>0, <3>1 DEF Reverting
    <3>3. AStep(0)
      BY <2>2, Zenon DEF AStep
    <3>4. Stuck'
      BY <1>0, <3>1, <3>2, <3>3, Sticks, Zenon
    <3>. QED
      BY <3>4, Zenon DEF Failed
  <2>3. CASE Panics(0)
    <3>1. pc'[0] = "panic" /\ qs' = qs
      BY <1>0, <2>3, Zenon DEF Panics, Moves, TypeOK
    <3>2. Stuck'
      BY <1>0, <1>1, <3>1, Zenon DEF Stuck
    <3>. QED
      BY <3>2, Zenon DEF Failed
  <2>4. CASE Ends(0)
    <3>1. N = 1 /\ Gets(0, allocs[0][0 + 1], rounds)
      BY <1>0, <2>4, Zenon DEF Ends
    <3>2. allocs[0][0 + 1] = Null
      BY <3>1 DEF Reverting
    <3>3. /\ Len(results'[0]) = Len(results[0]) + 1
          /\ results'[0][Len(results[0]) + 1].ptr = Null
      BY <3>1, <3>2 DEF Gets
    <3>4. Len(results[0]) + 1 \in 1..Len(results'[0])
      BY <1>0, <3>3, Lengths
    <3>5. Returned'
      BY <1>0, <3>3, <3>4, Zenon DEF Returned
    <3>. QED
      BY <3>5, Zenon DEF Failed
  <2>. QED
    BY <2>1, <2>2, <2>3, <2>4, Zenon
<1>. QED
  BY <1>2, <1>3, Zenon

-----------------------------------------------------------------------------
(***************************************************************************)
(* The theorems                                                             *)
(***************************************************************************)
\* The invariant holds initially.
LEMMA InitIInv == Init => IInv
<1>1. SUFFICES ASSUME Init PROVE IInv
  BY Zenon
<1>2. Base
  BY <1>1, InitBase, Zenon
<1>3. /\ \A n \in Nodes : qs[n] = <<>> /\ results[n] = <<>> /\ pc[n] = "idle" /\ live[n] = {}
      /\ heap = Block /\ rounds = 0 /\ 0 \in Nodes
  BY <1>1, DetMemAssumption DEF Init, Nodes
<1>4. \A n \in Nodes : Hand(n) = {} /\ Queued(n) = {} /\ Total(n) = 0
  <2>1. \A n \in Nodes : Hand(n) = {} /\ Queued(n) = {}
    BY <1>3 DEF Hand, Pending, Working, Queued
  <2>2. \A n \in Nodes : Total(n) = 0
    <3>1. SUFFICES ASSUME NEW n \in Nodes PROVE Total(n) = 0
      BY Zenon
    <3>2. Size(qs[n]) = 0 /\ Size(results[n]) = 0
      BY <1>3 DEF Size
    <3>. QED
      BY <3>2 DEF Total
  <2>. QED
    BY <2>1, <2>2, Zenon
<1>5. Kept
  BY <1>3, Zenon DEF Kept, At, Where
<1>6. Aligned
  BY <1>3 DEF Aligned, AlignedAt, InOrder
<1>7. Turns
  BY <1>3, <1>4, Zenon DEF Turns, Working
<1>8. Apart
  BY <1>3, <1>4 DEF Apart, NoTwins, At
<1>. QED
  BY <1>2, <1>5, <1>6, <1>7, <1>8, Zenon DEF IInv, Base, Fine

\* Every step preserves the invariant.
LEMMA StepIInv == IInv /\ [Next]_vars => IInv'
<1>1. SUFFICES ASSUME IInv, [Next]_vars PROVE IInv'
  BY Zenon
<1>2. CASE UNCHANGED vars
  <2>0. /\ qs' = qs /\ fill' = fill /\ heap' = heap /\ pc' = pc /\ i' = i /\ allocs' = allocs
        /\ results' = results /\ live' = live /\ rounds' = rounds
    BY <1>2, Zenon DEF vars
  <2>1. /\ TypeOK' <=> TypeOK
        /\ Locked' <=> Locked
        /\ Obtained' <=> Obtained
    BY <2>0, Zenon DEF TypeOK, Locked, Obtained
  <2>4. Kept' <=> Kept
    BY <2>0 DEF Kept, Calm, At, Queued, Hand, Pending
  <2>5. Apart' <=> Apart
    BY <2>0 DEF Apart, NoTwins, At, Queued, Hand, Pending
  <2>6. Aligned' <=> Aligned
    BY <2>0, Zenon DEF Aligned, AlignedAt, InOrder
  <2>7. Turns' <=> Turns
    BY <2>0 DEF Turns, TurnOf, Between, Total, Size
  <2>8. Failed' <=> Failed
    <3>1. /\ Returned' <=> Returned
          /\ Stuck' <=> Stuck
      BY <2>0, Zenon DEF Returned, Stuck
    <3>2. Reverting' <=> Reverting
      BY <2>0, Zenon DEF Reverting, InOrder, Total, Size, Want
    <3>. QED
      BY <3>1, <3>2, Zenon DEF Failed
  <2>. QED
    BY <1>1, <2>1, <2>4, <2>5, <2>6, <2>7, <2>8, Zenon DEF IInv, Fine
<1>3. CASE Next
  <2>0. Base /\ Kept
    BY <1>1, Zenon DEF IInv, Base
  <2>1. PICK n \in Nodes : AStep(n)
    BY <1>1, <1>3, Kinds, Zenon DEF IInv
  <2>2. Base' /\ Kept'
    BY <2>0, <2>1, StepBase, StepKept, Zenon
  <2>3. CASE Fine /\ ~Gives(n)
    BY <2>0, <2>1, <2>2, <2>3, StepFine, Zenon DEF IInv, Base
  <2>4. CASE Fine /\ Gives(n)
    BY <2>0, <2>1, <2>2, <2>4, GivesFails, Zenon DEF IInv, Base
  <2>5. CASE Failed
    <3>1. Failed'
      BY <2>0, <2>1, <2>5, ReturnedStays, StuckStays, RevertingStays, Zenon DEF Failed
    <3>. QED
      BY <2>2, <3>1, Zenon DEF IInv, Base
  <2>. QED
    BY <1>1, <2>3, <2>4, <2>5, Zenon DEF IInv
<1>. QED
  BY <1>1, <1>2, <1>3, Zenon

\* The invariant holds in every reachable state.
LEMMA IInvHolds == Spec => []IInv
BY InitIInv, StepIInv, PTL DEF Spec

\* A failure is visible.
LEMMA FailureShows ==
  ASSUME Base, NoFailure
  PROVE  ~Failed
<1>1. 0 \in Nodes
  BY DetMemAssumption DEF Nodes
<1>. QED
  BY <1>1, Zenon DEF NoFailure, Failed, Returned, Stuck, Reverting

\* detmem.rs:7, "makes allocations deterministic": without a failed round the
\* k-th request of every replica is answered from the same round, for any
\* number of nodes, any requests, and queues and heaps of any size.
THEOREM RoundsAgree == Spec => []SameRound
<1>1. IInv => SameRound
  <2>1. SUFFICES ASSUME IInv, NoFailure, NEW n \in Nodes, NEW m \in Nodes,
                        NEW k \in 1..Len(results[n]), k <= Len(results[m])
                 PROVE  results[n][k].round = results[m][k].round
    BY Zenon DEF SameRound
  <2>2. Fine /\ TypeOK
    BY <2>1, FailureShows, Zenon DEF IInv, Base
  <2>3. k \in 1..Len(results[m])
    BY <2>1, <2>2, Lengths
  <2>. QED
    BY <2>2, <2>3 DEF Fine, Aligned, AlignedAt
<1>. QED
  BY <1>1, IInvHolds, PTL

\* detmem.rs:120-132: before a panic every block is free, queued, live or in
\* the hands of the leader, also after a round has failed; and without a
\* failed round no block has two owners.
THEOREM BlocksHaveOwners == Spec => []BlocksAccounted
<1>1. IInv => BlocksAccounted
  <2>1. SUFFICES ASSUME IInv PROVE BlocksAccounted
    BY Zenon
  <2>2. ASSUME Calm, NEW b \in Block
        PROVE  b \in heap \/ \E n \in Nodes : b \in Holds(n) \cup InHand(n)
    <3>1. PICK w \in Where, n \in Nodes : At(b, w, n)
      BY <2>1, <2>2, Zenon DEF IInv, Kept
    <3>2. b \in Hand(n) => b \in InHand(n)
      BY Zenon DEF Hand, Pending, InHand, Working
    <3>. QED
      BY <3>1, <3>2, Zenon DEF At, Holds
  <2>3. ASSUME NoFailure
        PROVE  /\ \A n, m \in Nodes : n # m => Holds(n) \cap Holds(m) = {}
               /\ \A n \in Nodes : Holds(n) \cap heap = {} /\ live[n] \cap Queued(n) = {}
    <3>1. Apart /\ TypeOK /\ 0 \in Nodes
      BY <2>1, <2>3, FailureShows, DetMemAssumption DEF IInv, Base, Fine, Nodes
    <3>2. \A n \in Nodes : live[n] \subseteq Block /\ Queued(n) \subseteq Block
      <4>1. SUFFICES ASSUME NEW n \in Nodes, NEW k \in 1..Len(qs[n]), qs[n][k].ptr # Null
                     PROVE  qs[n][k].ptr \in Block
        BY <3>1, Zenon DEF TypeOK, Queued
      <4>2. qs[n] \in Seq(Items)
        BY <3>1, Lengths, Zenon
      <4>3. qs[n][k] \in Items
        BY <4>2, ElementOfSeq, Zenon
      <4>. QED
        BY <4>1, <4>3, Zenon DEF Items
    <3>3. \A b \in Block : \A w, v \in Where : \A n, m \in Nodes :
             At(b, w, n) /\ At(b, v, m) => w = v /\ n = m
      BY <3>1, Zenon DEF Apart
    <3>4. /\ \A n \in Nodes : \A b \in live[n] : At(b, "live", n) /\ b \in Block
          /\ \A n \in Nodes : \A b \in Queued(n) : At(b, "queue", n) /\ b \in Block
          /\ \A b \in heap : At(b, "heap", 0)
      BY <3>2, Zenon DEF At
    <3>5. "live" \in Where /\ "queue" \in Where /\ "heap" \in Where
      BY Zenon DEF Where
    <3>6. ASSUME NEW n \in Nodes, NEW m \in Nodes, n # m, NEW b, b \in Holds(n), b \in Holds(m)
          PROVE  FALSE
      BY <3>3, <3>4, <3>5, <3>6 DEF Holds
    <3>7. ASSUME NEW n \in Nodes, NEW b \in heap, b \in Holds(n)
          PROVE  FALSE
      <4>1. PICK w \in {"live", "queue"} : At(b, w, n) /\ b \in Block
        BY <3>4, <3>7, Zenon DEF Holds
      <4>2. w = "heap"
        BY <3>1, <3>3, <3>4, <3>5, <4>1
      <4>. QED
        BY <4>1, <4>2, Zenon
    <3>8. ASSUME NEW n \in Nodes, NEW b \in live[n], b \in Queued(n)
          PROVE  FALSE
      <4>1. "live" = "queue"
        BY <3>3, <3>4, <3>5, <3>8, Zenon
      <4>. QED
        BY <4>1, Zenon
    <3>. QED
      BY <3>6, <3>7, <3>8, Zenon
  <2>. QED
    BY <2>2, <2>3, Zenon DEF BlocksAccounted, Calm
<1>. QED
  BY <1>1, IInvHolds, PTL
=============================================================================
