-------------------------- MODULE MpmcQueueProofs --------------------------
(***************************************************************************)
(* Proofs about the bounded queue, for any number of threads, elements and *)
(* calls, and any capacity of at least two.                                *)
(***************************************************************************)
EXTENDS MpmcQueue, TLAPS

\* The length and the domain of a sequence.
LEMMA LenProperties ==
  ASSUME NEW S, NEW s \in Seq(S)
  PROVE  Len(s) \in Nat /\ DOMAIN s = 1..Len(s)
OBVIOUS

\* The elements of a sequence.
LEMMA ElementOfSeq ==
  ASSUME NEW S, NEW s \in Seq(S), NEW k \in 1..Len(s)
  PROVE  s[k] \in S
OBVIOUS

\* A sequence with one more element.
LEMMA AppendProperties ==
  ASSUME NEW S, NEW s \in Seq(S), NEW e \in S
  PROVE  /\ Append(s, e) \in Seq(S) /\ Len(Append(s, e)) = Len(s) + 1
         /\ \A k \in 1..Len(s) : Append(s, e)[k] = s[k]
         /\ Append(s, e)[Len(s) + 1] = e
OBVIOUS

\* A sequence of length zero is the empty one.
LEMMA EmptySeq ==
  ASSUME NEW S, NEW s \in Seq(S)
  PROVE  s = << >> <=> Len(s) = 0
OBVIOUS

\* Sequences of the same length with the same elements are the same.
LEMMA SeqEqual ==
  ASSUME NEW S, NEW s \in Seq(S), NEW t \in Seq(S),
         Len(s) = Len(t), \A i \in 1..Len(s) : s[i] = t[i]
  PROVE  s = t
OBVIOUS

\* A segment of a function.
LEMMA SubSeqProperties ==
  ASSUME NEW S, NEW s, NEW m \in Int, NEW n \in Int, \A i \in m..n : s[i] \in S
  PROVE  /\ SubSeq(s, m, n) \in Seq(S)
         /\ Len(SubSeq(s, m, n)) = IF m <= n THEN n - m + 1 ELSE 0
         /\ \A i \in 1..(n - m + 1) : SubSeq(s, m, n)[i] = s[m + i - 1]
OBVIOUS

\* A segment that ends before it begins is empty.
LEMMA SubSeqEmpty ==
  ASSUME NEW s, NEW m \in Int, NEW n \in Int, n < m
  PROVE  SubSeq(s, m, n) = << >>
OBVIOUS

\* The head and the tail of a segment.
LEMMA HeadTailOfSubSeq ==
  ASSUME NEW S, NEW seq \in Seq(S), NEW m \in 1..Len(seq), NEW n \in m..Len(seq)
  PROVE  /\ Head(SubSeq(seq, m, n)) = seq[m]
         /\ Tail(SubSeq(seq, m, n)) = SubSeq(seq, m + 1, n)
OBVIOUS

PC == {"idle", "p_seq", "p_cas", "p_write", "p_publish",
       "c_seq", "c_cas", "c_take", "c_release"}

TypeOK ==
    /\ sequence \in [Slots -> Nat]
    /\ value \in [Slots -> Values \cup {None}]
    /\ enqueue_pos \in Nat
    /\ dequeue_pos \in Nat
    /\ pc \in [Threads -> PC]
    /\ pos \in [Threads -> Nat]
    /\ arg \in [Threads -> Values \cup {None}]
    /\ ret \in [Threads -> Values \cup {None}]
    /\ calls \in [Threads -> Nat]
    /\ history \in Seq(Values)

Pushing(t) == pc[t] \in {"p_write", "p_publish"}
Popping(t) == pc[t] \in {"c_take", "c_release"}

\* Between the two positions there are at most Capacity elements.
Bounded == dequeue_pos <= enqueue_pos /\ enqueue_pos <= dequeue_pos + Capacity

\* A producer in a slot has a position of its own that no consumer has reached,
\* and the slot's number is that position.
PushClaims ==
    \A t \in Threads : Pushing(t) =>
        /\ dequeue_pos <= pos[t] /\ pos[t] < enqueue_pos
        /\ sequence[At(t)] = pos[t]
        /\ \A u \in Threads : Pushing(u) /\ pos[u] = pos[t] => u = t

\* A consumer in a slot has a position of its own that no producer has reached
\* again, and the slot's number is the next one.
PopClaims ==
    \A t \in Threads : Popping(t) =>
        /\ enqueue_pos <= pos[t] + Capacity /\ pos[t] < dequeue_pos
        /\ sequence[At(t)] = pos[t] + 1
        /\ \A u \in Threads : Popping(u) /\ pos[u] = pos[t] => u = t

\* The number of a slot that holds an element, and of one that is free.
Published ==
    \A p \in dequeue_pos..(enqueue_pos - 1) :
        \/ sequence[Index(p)] = p + 1
        \/ \E t \in Threads : Pushing(t) /\ pos[t] = p

Released ==
    \A p \in enqueue_pos..(dequeue_pos + Capacity - 1) :
        \/ sequence[Index(p)] = p
        \/ \E t \in Threads : Popping(t) /\ pos[t] + Capacity = p

\* What a thread has seen of its slot is still true if its position is.
PushSeen ==
    \A t \in Threads : pc[t] \in {"p_seq", "p_cas"} =>
        /\ pos[t] <= enqueue_pos
        /\ pos[t] < enqueue_pos => pos[t] <= sequence[At(t)]
        /\ pc[t] = "p_cas" /\ pos[t] = enqueue_pos => sequence[At(t)] = pos[t]

PopSeen ==
    \A t \in Threads : pc[t] \in {"c_seq", "c_cas"} =>
        /\ pos[t] <= dequeue_pos
        /\ pos[t] < dequeue_pos => pos[t] < sequence[At(t)]
        /\ pc[t] = "c_cas" /\ pos[t] = dequeue_pos => sequence[At(t)] = pos[t] + 1

\* What a producer is about to claim a position for.
ArgOk == \A t \in Threads : pc[t] \in {"p_seq", "p_cas"} => arg[t] \in Values

IInv ==
    TypeOK /\ ArgOk /\ Bounded /\ PushClaims /\ PopClaims /\ Published /\ Released
    /\ PushSeen /\ PopSeen

\* The slots between the positions hold what was claimed for them.
Filled ==
    /\ Len(history) = enqueue_pos
    /\ \A p \in dequeue_pos..(enqueue_pos - 1) :
          \/ value[Index(p)] = history[p + 1]
          \/ \E t \in Threads : pc[t] = "p_write" /\ pos[t] = p
    /\ \A t \in Threads : pc[t] = "p_write" => arg[t] = history[pos[t] + 1]
    /\ \A t \in Threads : pc[t] = "c_take" => value[At(t)] = history[pos[t] + 1]
-----------------------------------------------------------------------------
\* with_capacity gives at least two slots.
LEMMA CapacityNat == Capacity \in Nat /\ Capacity >= 2
  BY QueueAssumption, Zenon

\* pos & mask is a slot of the buffer.
LEMMA IndexRange == ASSUME NEW p \in Nat PROVE Index(p) \in Slots
  BY CapacityNat DEF Index, Slots

\* The first positions are the slots themselves.
LEMMA IndexSmall == ASSUME NEW p \in Slots PROVE Index(p) = p
  BY CapacityNat DEF Index, Slots

\* The same as a range of numbers.
LEMMA IndexBounds == ASSUME NEW p \in Nat PROVE Index(p) \in Nat /\ Index(p) < Capacity
  BY CapacityNat DEF Index

\* A multiple of the capacity that is smaller than it is zero.
LEMMA SmallMultiple ==
    ASSUME NEW k \in Int, Capacity * k < Capacity, 0 - Capacity < Capacity * k
    PROVE  k = 0
  <1>1. k >= 1 => Capacity * k >= Capacity
    BY CapacityNat
  <1>2. k <= -1 => Capacity * k <= 0 - Capacity
    BY CapacityNat
  <1>3. QED
    BY <1>1, <1>2, CapacityNat

\* A position is a number of rounds and a slot.
LEMMA DivMod ==
    ASSUME NEW p \in Nat
    PROVE  /\ p \div Capacity \in Int
           /\ p = Capacity * (p \div Capacity) + Index(p)
  BY CapacityNat DEF Index, Slots

\* Positions less than a round apart share a slot only if they are equal.
LEMMA IndexEq ==
    ASSUME NEW p \in Nat, NEW q \in Nat, p <= q, q < p + Capacity, Index(p) = Index(q)
    PROVE  p = q
  <1>1. PICK i \in Int : p = Capacity * i + Index(p)
    BY DivMod, Zenon
  <1>2. PICK j \in Int : q = Capacity * j + Index(q)
    BY DivMod, Zenon
  <1>3. Capacity * (j - i) = Capacity * j - Capacity * i
    BY CapacityNat
  <1>4. Capacity * (j - i) = q - p
    BY <1>1, <1>2, <1>3, CapacityNat, IndexBounds
  <1>5. j - i = 0
    BY <1>4, SmallMultiple, CapacityNat
  <1>6. QED
    BY <1>4, <1>5, CapacityNat

\* The position a round later has the same slot.
LEMMA IndexPlus == ASSUME NEW p \in Nat PROVE Index(p + Capacity) = Index(p)
  <1> DEFINE q == p + Capacity
  <1> q \in Nat
    BY CapacityNat
  <1> HIDE DEF q
  <1>1. PICK i \in Int : p = Capacity * i + Index(p)
    BY DivMod, Zenon
  <1>2. PICK j \in Int : q = Capacity * j + Index(q)
    BY DivMod, Zenon
  <1>3. Capacity * (j - i - 1) = Capacity * j - Capacity * i - Capacity
    BY CapacityNat
  <1>4. Capacity * (j - i - 1) = Index(p) - Index(q)
    BY <1>1, <1>2, <1>3, CapacityNat, IndexBounds DEF q
  <1>5. j - i - 1 = 0
    BY <1>4, SmallMultiple, CapacityNat, IndexBounds
  <1>6. Index(p) = Index(q)
    BY <1>4, <1>5, CapacityNat, IndexBounds
  <1>7. QED
    BY <1>6, Zenon DEF q

\* A queue that was just built satisfies the invariant.
LEMMA InitIInv == Init => IInv
  <1> SUFFICES ASSUME Init PROVE IInv
    BY Zenon
  <1> USE CapacityNat, IndexSmall DEF Init, Slots
  <1>1. TypeOK
    BY DEF TypeOK, PC
  <1>2. Bounded /\ PushClaims /\ PopClaims /\ PushSeen /\ PopSeen /\ ArgOk
    BY DEF ArgOk, Bounded, PushClaims, PopClaims, PushSeen, PopSeen, Pushing, Popping
  <1>3. Published /\ Released
    BY DEF Published, Released
  <1>4. QED
    BY <1>1, <1>2, <1>3, Zenon DEF IInv

\* What a thread may push is a value.
LEMMA ElementsAreValues == \A t \in Threads : \A v \in Elements[t] : v \in Values
  BY Zenon DEF Values

-----------------------------------------------------------------------------
(* Most steps change neither the positions and numbers nor which slots are *)
(* in use and by whom.                                                     *)

InOrder == Bounded /\ PushClaims /\ PopClaims /\ Published /\ Released

Quiet ==
    /\ UNCHANGED <<sequence, enqueue_pos, dequeue_pos>>
    /\ \A u \in Threads :
          /\ Pushing(u)' <=> Pushing(u)
          /\ Popping(u)' <=> Popping(u)
          /\ Pushing(u) \/ Popping(u) => pos'[u] = pos[u]

\* Such a step keeps the positions and the claims in order.
LEMMA QuietStep == InOrder /\ Quiet => InOrder'
  <1> SUFFICES ASSUME InOrder, Quiet PROVE InOrder'
    BY Zenon
  <1> USE DEF InOrder, Quiet
  <1>1. Bounded'
    BY Zenon DEF Bounded
  <1>2. PushClaims'
    BY Zenon DEF PushClaims, At
  <1>3. PopClaims'
    BY Zenon DEF PopClaims, At
  <1>4. Published'
    BY Zenon DEF Published
  <1>5. Released'
    BY Zenon DEF Released
  <1>6. QED
    BY <1>1, <1>2, <1>3, <1>4, <1>5, Zenon

\* Every thread looks at a slot of the buffer.
LEMMA AtRange == ASSUME TypeOK PROVE \A u \in Threads : At(u) \in Slots
  BY IndexRange, Zenon DEF TypeOK, At

\* A push that claims a position finds the slot free: the queue is not full.
LEMMA PushCasFree ==
    ASSUME IInv, NEW t \in Threads, PushCas(t)
    PROVE  enqueue_pos # dequeue_pos + Capacity
  <1>0. /\ enqueue_pos \in Nat /\ dequeue_pos \in Nat /\ \A u \in Threads : pos[u] \in Nat
        /\ pos[t] = enqueue_pos /\ pc[t] = "p_cas"
    BY Zenon DEF PushCas, Goto, IInv, TypeOK
  <1> USE <1>0 DEF IInv
  <1>2. sequence[Index(enqueue_pos)] = enqueue_pos
    BY Zenon DEF PushSeen, At
  <1>3. enqueue_pos # dequeue_pos + Capacity
    <2> SUFFICES ASSUME enqueue_pos = dequeue_pos + Capacity PROVE FALSE
      BY Zenon
    <2>1. Index(enqueue_pos) = Index(dequeue_pos)
      BY IndexPlus, Zenon
    <2>2. dequeue_pos \in dequeue_pos..(enqueue_pos - 1)
      BY CapacityNat
    <2>3. CASE sequence[Index(dequeue_pos)] = dequeue_pos + 1
      BY <1>2, <2>1, <2>3, CapacityNat
    <2>4. CASE \E u \in Threads : Pushing(u) /\ pos[u] = dequeue_pos
      BY <1>2, <2>1, <2>4, CapacityNat DEF PushClaims, At
    <2>5. QED
      BY <2>2, <2>3, <2>4, Zenon DEF Published
  <1>4. QED
    BY <1>3, Zenon

\* A pop that claims a position finds an element there, and no producer.
LEMMA PopCasFilled ==
    ASSUME IInv, NEW t \in Threads, PopCas(t)
    PROVE  /\ dequeue_pos # enqueue_pos
           /\ \A u \in Threads : Pushing(u) => pos[u] # dequeue_pos
  <1>0. /\ enqueue_pos \in Nat /\ dequeue_pos \in Nat /\ \A u \in Threads : pos[u] \in Nat
        /\ pos[t] = dequeue_pos /\ pc[t] = "c_cas"
    BY Zenon DEF PopCas, Goto, IInv, TypeOK
  <1> USE <1>0 DEF IInv
  <1>2. sequence[Index(dequeue_pos)] = dequeue_pos + 1
    BY Zenon DEF PopSeen, At
  <1>3. dequeue_pos # enqueue_pos
    <2> SUFFICES ASSUME dequeue_pos = enqueue_pos PROVE FALSE
      BY Zenon
    <2>1. dequeue_pos \in enqueue_pos..(dequeue_pos + Capacity - 1)
      BY CapacityNat
    <2>2. CASE sequence[Index(dequeue_pos)] = dequeue_pos
      BY <1>2, <2>2
    <2>3. CASE \E u \in Threads : Popping(u) /\ pos[u] + Capacity = dequeue_pos
      <3>1. PICK u \in Threads : Popping(u) /\ pos[u] + Capacity = dequeue_pos
        BY <2>3, Zenon
      <3>2. pos[u] \in Nat /\ Index(dequeue_pos) = At(u)
        BY <3>1, IndexPlus, Zenon DEF At
      <3>3. sequence[At(u)] = pos[u] + 1
        BY <3>1, Zenon DEF PopClaims
      <3>4. QED
        BY <1>2, <3>1, <3>2, <3>3, CapacityNat
    <2>4. QED
      BY <2>1, <2>2, <2>3, Zenon DEF Released
  <1>4. ASSUME NEW u \in Threads, Pushing(u) PROVE pos[u] # dequeue_pos
    BY <1>2, <1>4 DEF PushClaims, At
  <1>5. QED
    BY <1>3, <1>4, Zenon

\* Every load, store and compare-exchange of push and pop keeps the invariant.
LEMMA StepIInv == IInv /\ [Next]_vars => IInv'
  <1> SUFFICES ASSUME IInv, [Next]_vars PROVE IInv'
    BY Zenon
  <1>0. TypeOK /\ (\A u \in Threads : At(u) \in Slots)
    BY AtRange, Zenon DEF IInv
  <1>1. ASSUME NEW t \in Threads, NEW v \in Elements[t], CallPush(t, v) PROVE IInv'
    <2> USE <1>1 DEF CallPush, Goto, shared
    <2>1. TypeOK'
      BY <1>0, ElementsAreValues DEF TypeOK, PC
    <2>2. ArgOk'
      BY ElementsAreValues, Zenon DEF IInv, TypeOK, ArgOk
    <2>3. Quiet
      BY Zenon DEF IInv, TypeOK, Quiet, Pushing, Popping
    <2>4. PushSeen'
      BY DEF IInv, TypeOK, PushSeen, At
    <2>5. PopSeen'
      BY Zenon DEF IInv, TypeOK, PopSeen, At
    <2>6. QED
      BY <2>1, <2>2, <2>3, <2>4, <2>5, QuietStep, Zenon DEF IInv, InOrder
  <1>2. ASSUME NEW t \in Threads, CallPop(t) PROVE IInv'
    <2> USE <1>2 DEF CallPop, Goto, shared
    <2>1. TypeOK'
      BY <1>0 DEF TypeOK, PC
    <2>2. ArgOk'
      BY Zenon DEF IInv, TypeOK, ArgOk
    <2>3. Quiet
      BY Zenon DEF IInv, TypeOK, Quiet, Pushing, Popping
    <2>4. PushSeen'
      BY Zenon DEF IInv, TypeOK, PushSeen, At
    <2>5. PopSeen'
      BY DEF IInv, TypeOK, PopSeen, At
    <2>6. QED
      BY <2>1, <2>2, <2>3, <2>4, <2>5, QuietStep, Zenon DEF IInv, InOrder
  <1>3. ASSUME NEW t \in Threads, PushSeq(t) PROVE IInv'
    <2> USE <1>3 DEF PushSeq, shared
    <2>1. TypeOK'
      BY <1>0, Zenon DEF TypeOK, PC
    <2>2. ArgOk'
      BY Zenon DEF IInv, TypeOK, ArgOk
    <2>3. Quiet
      BY Zenon DEF IInv, TypeOK, Quiet, Pushing, Popping
    <2>4. PushSeen'
      BY <1>0 DEF IInv, TypeOK, PushSeen, At
    <2>5. PopSeen'
      BY Zenon DEF IInv, TypeOK, PopSeen, At
    <2>6. QED
      BY <2>1, <2>2, <2>3, <2>4, <2>5, QuietStep, Zenon DEF IInv, InOrder
  <1>4. ASSUME NEW t \in Threads, PushCasFails(t) PROVE IInv'
    <2> USE <1>4 DEF PushCasFails, Goto, shared
    <2>1. TypeOK'
      BY <1>0, Zenon DEF TypeOK, PC
    <2>2. ArgOk'
      BY Zenon DEF IInv, TypeOK, ArgOk
    <2>3. Quiet
      BY Zenon DEF IInv, TypeOK, Quiet, Pushing, Popping
    <2>4. PushSeen'
      BY DEF IInv, TypeOK, PushSeen, At
    <2>5. PopSeen'
      BY Zenon DEF IInv, TypeOK, PopSeen, At
    <2>6. QED
      BY <2>1, <2>2, <2>3, <2>4, <2>5, QuietStep, Zenon DEF IInv, InOrder
  <1>5. ASSUME NEW t \in Threads, PushWrite(t) PROVE IInv'
    <2> USE <1>5 DEF PushWrite, Goto, shared
    <2>1. TypeOK'
      BY <1>0, Zenon DEF TypeOK, PC
    <2>2. ArgOk'
      BY Zenon DEF IInv, TypeOK, ArgOk
    <2>3. Quiet
      BY Zenon DEF IInv, TypeOK, Quiet, Pushing, Popping
    <2>4. PushSeen'
      BY Zenon DEF IInv, TypeOK, PushSeen, At
    <2>5. PopSeen'
      BY Zenon DEF IInv, TypeOK, PopSeen, At
    <2>6. QED
      BY <2>1, <2>2, <2>3, <2>4, <2>5, QuietStep, Zenon DEF IInv, InOrder
  <1>6. ASSUME NEW t \in Threads, PopSeq(t) PROVE IInv'
    <2> USE <1>6 DEF PopSeq, shared
    <2>1. TypeOK'
      BY <1>0, Zenon DEF TypeOK, PC
    <2>2. ArgOk'
      BY Zenon DEF IInv, TypeOK, ArgOk
    <2>3. Quiet
      BY Zenon DEF IInv, TypeOK, Quiet, Pushing, Popping
    <2>4. PushSeen'
      BY Zenon DEF IInv, TypeOK, PushSeen, At
    <2>5. PopSeen'
      BY <1>0 DEF IInv, TypeOK, PopSeen, At
    <2>6. QED
      BY <2>1, <2>2, <2>3, <2>4, <2>5, QuietStep, Zenon DEF IInv, InOrder
  <1>7. ASSUME NEW t \in Threads, PopCasFails(t) PROVE IInv'
    <2> USE <1>7 DEF PopCasFails, Goto, shared
    <2>1. TypeOK'
      BY <1>0, Zenon DEF TypeOK, PC
    <2>2. ArgOk'
      BY Zenon DEF IInv, TypeOK, ArgOk
    <2>3. Quiet
      BY Zenon DEF IInv, TypeOK, Quiet, Pushing, Popping
    <2>4. PushSeen'
      BY Zenon DEF IInv, TypeOK, PushSeen, At
    <2>5. PopSeen'
      BY DEF IInv, TypeOK, PopSeen, At
    <2>6. QED
      BY <2>1, <2>2, <2>3, <2>4, <2>5, QuietStep, Zenon DEF IInv, InOrder
  <1>8. ASSUME NEW t \in Threads, PopTake(t) PROVE IInv'
    <2> USE <1>8 DEF PopTake, Goto, shared
    <2>1. TypeOK'
      BY <1>0, Zenon DEF TypeOK, PC
    <2>2. ArgOk'
      BY Zenon DEF IInv, TypeOK, ArgOk
    <2>3. Quiet
      BY Zenon DEF IInv, TypeOK, Quiet, Pushing, Popping
    <2>4. PushSeen'
      BY Zenon DEF IInv, TypeOK, PushSeen, At
    <2>5. PopSeen'
      BY Zenon DEF IInv, TypeOK, PopSeen, At
    <2>6. QED
      BY <2>1, <2>2, <2>3, <2>4, <2>5, QuietStep, Zenon DEF IInv, InOrder
  <1>9. ASSUME NEW t \in Threads, PushCas(t) PROVE IInv'
    <2>0. /\ enqueue_pos \in Nat /\ dequeue_pos \in Nat /\ \A u \in Threads : pos[u] \in Nat
          /\ pos[t] = enqueue_pos /\ enqueue_pos' = enqueue_pos + 1
          /\ pc \in [Threads -> PC] /\ pc[t] = "p_cas" /\ pc' = [pc EXCEPT ![t] = "p_write"]
          /\ UNCHANGED <<sequence, dequeue_pos, pos>>
      BY <1>9, Zenon DEF PushCas, Goto, IInv, TypeOK
    <2>1. TypeOK' /\ ArgOk'
      BY <1>9 DEF PushCas, Goto, IInv, TypeOK, PC, ArgOk
    <2> USE <2>0 DEF IInv
    <2>2. sequence[Index(enqueue_pos)] = enqueue_pos
      BY Zenon DEF PushSeen, At
    <2>3. enqueue_pos # dequeue_pos + Capacity
      BY <1>9, PushCasFree, Zenon
    <2>4. ASSUME NEW u \in Threads, Popping(u) PROVE pos[u] + Capacity # enqueue_pos
      <3>1. pos[u] \in Nat /\ Index(pos[u] + Capacity) = At(u)
        BY IndexPlus, Zenon DEF At
      <3>2. sequence[At(u)] = pos[u] + 1
        BY <2>4, Zenon DEF PopClaims
      <3>3. QED
        BY <2>2, <3>1, <3>2, CapacityNat
    <2>5. Bounded'
      BY <2>3, CapacityNat DEF Bounded
    <2>6. \A u \in Threads : /\ Pushing(u)' <=> Pushing(u) \/ u = t
                             /\ Popping(u)' <=> Popping(u)
      BY Zenon DEF Pushing, Popping
    <2>7. PushClaims'
      BY <2>2, <2>6 DEF Bounded, PushClaims, At
    <2>8. PopClaims'
      <3>1. ASSUME NEW u \in Threads, Popping(u) PROVE enqueue_pos' <= pos[u] + Capacity
        BY <2>4, <3>1, CapacityNat DEF PopClaims
      <3>2. QED
        BY <2>6, <3>1, Zenon DEF PopClaims, At
    <2>9. Published'
      BY <2>6 DEF Published
    <2>10. Released'
      <3> SUFFICES ASSUME NEW p \in (enqueue_pos + 1)..(dequeue_pos + Capacity - 1)
                   PROVE  \/ sequence[Index(p)] = p
                          \/ \E u \in Threads : Popping(u) /\ pos[u] + Capacity = p
        BY <2>6, Zenon DEF Released
      <3>1. p \in enqueue_pos..(dequeue_pos + Capacity - 1)
        BY CapacityNat
      <3>2. QED
        BY <3>1, Zenon DEF Released
    <2>11. PushSeen' /\ PopSeen'
      BY <2>2 DEF PC, PushSeen, PopSeen, At
    <2>12. QED
      BY <2>1, <2>5, <2>7, <2>8, <2>9, <2>10, <2>11, Zenon
  <1>10. ASSUME NEW t \in Threads, PushPublish(t) PROVE IInv'
    <2> USE <1>10 DEF PushPublish, Goto, IInv
    <2>1. TypeOK' /\ ArgOk'
      BY <1>0 DEF TypeOK, PC, ArgOk
    <2>2. /\ pos[t] \in Nat /\ dequeue_pos <= pos[t] /\ pos[t] < enqueue_pos
          /\ enqueue_pos <= dequeue_pos + Capacity
          /\ sequence[At(t)] = pos[t]
      BY Zenon DEF TypeOK, PushClaims, Pushing, Bounded
    <2>3. \A u \in Threads : /\ Pushing(u)' <=> Pushing(u) /\ u # t
                             /\ Popping(u)' <=> Popping(u)
      BY Zenon DEF TypeOK, PushClaims, Pushing, Popping
    <2>4. ASSUME NEW p \in Nat, p # pos[t], p < dequeue_pos + Capacity, enqueue_pos <= p + Capacity
          PROVE  sequence'[Index(p)] = sequence[Index(p)]
      <3>1. p < pos[t] + Capacity /\ pos[t] < p + Capacity
        BY <2>2, <2>4, CapacityNat DEF TypeOK
      <3>2. Index(p) # At(t)
        <4>1. CASE p < pos[t]
          BY <2>2, <3>1, <4>1, IndexEq DEF At
        <4>2. CASE pos[t] < p
          BY <2>2, <3>1, <4>2, IndexEq DEF At
        <4>3. QED
          BY <2>2, <2>4, <4>1, <4>2
      <3>3. QED
        BY <3>2, <1>0 DEF TypeOK
    <2>5. \A i \in Slots : sequence[i] <= sequence'[i]
      BY <2>2 DEF TypeOK, At
    <2>6. Bounded'
      BY Zenon DEF Bounded
    <2>7. ASSUME NEW u \in Threads, u # t, Pushing(u) \/ Popping(u)
          PROVE  sequence'[At(u)] = sequence[At(u)]
      <3>1. pos[u] # pos[t]
        BY <2>2, <2>7 DEF TypeOK, PushClaims, PopClaims, Pushing
      <3>2. pos[u] \in Nat /\ pos[u] < dequeue_pos + Capacity /\ enqueue_pos <= pos[u] + Capacity
        BY <2>2, <2>7, CapacityNat DEF TypeOK, PushClaims, PopClaims
      <3>3. QED
        BY <2>4, <3>1, <3>2, Zenon DEF At
    <2>8. PushClaims'
      BY <2>3, <2>7, Zenon DEF TypeOK, PushClaims, At
    <2>9. PopClaims'
      BY <2>3, <2>7 DEF TypeOK, PopClaims, At, Popping
    <2>10. Published'
      <3> SUFFICES ASSUME NEW p \in dequeue_pos..(enqueue_pos - 1), sequence'[Index(p)] # p + 1
                   PROVE  \E u \in Threads : Pushing(u)' /\ pos'[u] = p
        BY Zenon DEF Published
      <3>1. p # pos[t]
        BY <1>0, Zenon DEF TypeOK, At
      <3>2. p \in Nat /\ p < dequeue_pos + Capacity /\ enqueue_pos <= p + Capacity
        BY <2>2, CapacityNat DEF TypeOK
      <3>3. sequence'[Index(p)] = sequence[Index(p)]
        BY <2>4, <3>1, <3>2, Zenon
      <3>4. QED
        BY <2>3, <3>1, <3>3, Zenon DEF Published
    <2>11. Released'
      <3> SUFFICES ASSUME NEW p \in enqueue_pos..(dequeue_pos + Capacity - 1), sequence'[Index(p)] # p
                   PROVE  \E u \in Threads : Popping(u)' /\ pos'[u] + Capacity = p
        BY Zenon DEF Released
      <3>1. p \in Nat /\ p # pos[t] /\ p < dequeue_pos + Capacity /\ enqueue_pos <= p + Capacity
        BY <2>2, CapacityNat DEF TypeOK
      <3>2. sequence'[Index(p)] = sequence[Index(p)]
        BY <2>4, <3>1, Zenon
      <3>3. QED
        BY <2>3, <3>2, Zenon DEF Released
    <2>12. PushSeen'
      BY <1>0, <2>2, <2>5 DEF TypeOK, PC, PushSeen, At
    <2>13. PopSeen'
      <3>1. ASSUME NEW u \in Threads, pc[u] = "c_cas", pos[u] = dequeue_pos
            PROVE  sequence'[At(u)] = sequence[At(u)]
        <4>1. dequeue_pos # pos[t]
          BY <2>2, <3>1 DEF TypeOK, PopSeen, At
        <4>2. QED
          BY <2>2, <2>4, <3>1, <4>1, CapacityNat DEF TypeOK, At
      <3>2. QED
        BY <1>0, <2>2, <2>5, <3>1 DEF TypeOK, PC, PopSeen, At
    <2>14. QED
      BY <2>1, <2>6, <2>8, <2>9, <2>10, <2>11, <2>12, <2>13, Zenon
  <1>11. ASSUME NEW t \in Threads, PopCas(t) PROVE IInv'
    <2>0. /\ enqueue_pos \in Nat /\ dequeue_pos \in Nat /\ \A u \in Threads : pos[u] \in Nat
          /\ pos[t] = dequeue_pos /\ dequeue_pos' = dequeue_pos + 1
          /\ pc \in [Threads -> PC] /\ pc[t] = "c_cas" /\ pc' = [pc EXCEPT ![t] = "c_take"]
          /\ UNCHANGED <<sequence, enqueue_pos, pos>>
      BY <1>11, Zenon DEF PopCas, Goto, IInv, TypeOK
    <2>1. TypeOK' /\ ArgOk'
      BY <1>11 DEF PopCas, Goto, IInv, TypeOK, PC, ArgOk
    <2> USE <2>0 DEF IInv
    <2>2. sequence[Index(dequeue_pos)] = dequeue_pos + 1
      BY Zenon DEF PopSeen, At
    <2>3. dequeue_pos # enqueue_pos
      BY <1>11, PopCasFilled, Zenon
    <2>4. \A u \in Threads : Pushing(u) => pos[u] # dequeue_pos
      BY <1>11, PopCasFilled, Zenon
    <2>5. Bounded'
      BY <2>3, CapacityNat DEF Bounded
    <2>6. \A u \in Threads : /\ Pushing(u)' <=> Pushing(u)
                             /\ Popping(u)' <=> Popping(u) \/ u = t
      BY Zenon DEF Pushing, Popping
    <2>7. PushClaims'
      <3>1. ASSUME NEW u \in Threads, Pushing(u) PROVE dequeue_pos' <= pos[u]
        BY <2>4, <3>1 DEF PushClaims
      <3>2. QED
        BY <2>6, <3>1, Zenon DEF PushClaims, At
    <2>8. PopClaims'
      <3>1. enqueue_pos <= pos[t] + Capacity
        BY Zenon DEF Bounded
      <3>2. QED
        BY <2>2, <2>6, <3>1 DEF PopClaims, At
    <2>9. Published'
      BY <2>6 DEF Published
    <2>10. Released'
      <3> SUFFICES ASSUME NEW p \in enqueue_pos..(dequeue_pos + 1 + Capacity - 1)
                   PROVE  \/ sequence[Index(p)] = p
                          \/ \E u \in Threads : Popping(u)' /\ pos[u] + Capacity = p
        BY Zenon DEF Released
      <3>1. p \in enqueue_pos..(dequeue_pos + Capacity - 1) \/ pos[t] + Capacity = p
        BY CapacityNat
      <3>2. QED
        BY <2>6, <3>1, Zenon DEF Released
    <2>11. PushSeen' /\ PopSeen'
      BY <2>2 DEF PC, PushSeen, PopSeen, At
    <2>12. QED
      BY <2>1, <2>5, <2>7, <2>8, <2>9, <2>10, <2>11, Zenon
  <1>12. ASSUME NEW t \in Threads, PopRelease(t) PROVE IInv'
    <2> USE <1>12 DEF PopRelease, Goto, IInv
    <2>1. TypeOK' /\ ArgOk'
      BY <1>0, CapacityNat DEF TypeOK, PC, ArgOk
    <2>2. /\ pos[t] \in Nat /\ enqueue_pos <= pos[t] + Capacity
          /\ pos[t] < dequeue_pos /\ dequeue_pos <= enqueue_pos
          /\ sequence[At(t)] = pos[t] + 1
      BY Zenon DEF TypeOK, PopClaims, Popping, Bounded
    <2>3. \A u \in Threads : /\ Pushing(u)' <=> Pushing(u)
                             /\ Popping(u)' <=> Popping(u) /\ u # t
      BY Zenon DEF TypeOK, PopClaims, Pushing, Popping
    <2>4. ASSUME NEW p \in Nat, p # pos[t], p < pos[t] + Capacity, pos[t] < p + Capacity
          PROVE  sequence'[Index(p)] = sequence[Index(p)]
      <3>1. Index(p) # At(t)
        <4>1. CASE p < pos[t]
          BY <2>2, <2>4, <4>1, IndexEq DEF At
        <4>2. CASE pos[t] < p
          BY <2>2, <2>4, <4>2, IndexEq DEF At
        <4>3. QED
          BY <2>2, <2>4, <4>1, <4>2
      <3>2. QED
        BY <3>1, <1>0 DEF TypeOK
    <2>5. \A i \in Slots : sequence[i] <= sequence'[i]
      BY <2>2, CapacityNat DEF TypeOK, At
    <2>6. Bounded'
      BY Zenon DEF Bounded
    <2>7. ASSUME NEW u \in Threads, u # t, Pushing(u) \/ Popping(u)
          PROVE  sequence'[At(u)] = sequence[At(u)]
      <3>1. pos[u] # pos[t]
        BY <2>2, <2>7 DEF TypeOK, PushClaims, PopClaims, Popping
      <3>2. pos[u] \in Nat /\ pos[u] < pos[t] + Capacity /\ pos[t] < pos[u] + Capacity
        BY <2>2, <2>7, CapacityNat DEF TypeOK, PushClaims, PopClaims
      <3>3. QED
        BY <2>4, <3>1, <3>2, Zenon DEF At
    <2>8. PushClaims'
      BY <2>3, <2>7 DEF TypeOK, PushClaims, At, Pushing
    <2>9. PopClaims'
      BY <2>3, <2>7, Zenon DEF TypeOK, PopClaims, At
    <2>10. Published'
      <3> SUFFICES ASSUME NEW p \in dequeue_pos..(enqueue_pos - 1), sequence'[Index(p)] # p + 1
                   PROVE  \E u \in Threads : Pushing(u)' /\ pos'[u] = p
        BY Zenon DEF Published
      <3>1. p \in Nat /\ p # pos[t] /\ p < pos[t] + Capacity /\ pos[t] < p + Capacity
        BY <2>2, CapacityNat DEF TypeOK
      <3>2. sequence'[Index(p)] = sequence[Index(p)]
        BY <2>4, <3>1, Zenon
      <3>3. QED
        BY <2>3, <3>2, Zenon DEF Published
    <2>11. Released'
      <3> SUFFICES ASSUME NEW p \in enqueue_pos..(dequeue_pos + Capacity - 1), sequence'[Index(p)] # p
                   PROVE  \E u \in Threads : Popping(u)' /\ pos'[u] + Capacity = p
        BY Zenon DEF Released
      <3>1. p \in Nat /\ p < dequeue_pos + Capacity /\ enqueue_pos <= p
        BY <2>2, CapacityNat DEF TypeOK
      <3>2. p # pos[t] + Capacity
        <4> SUFFICES ASSUME p = pos[t] + Capacity PROVE FALSE
          BY Zenon
        <4>1. Index(p) = At(t)
          BY <2>2, IndexPlus, Zenon DEF At
        <4>2. QED
          BY <4>1, <1>0, Zenon DEF TypeOK
      <3>3. Index(p) # At(t)
        <4> DEFINE q == pos[t] + Capacity
        <4>1. q \in Nat /\ Index(q) = At(t)
          BY <2>2, IndexPlus, CapacityNat DEF At
        <4>2. p < q + Capacity /\ q < p + Capacity
          BY <2>2, <3>1, CapacityNat DEF TypeOK
        <4> HIDE DEF q
        <4>3. p # q
          BY <3>2, Zenon DEF q
        <4>4. CASE p < q
          BY <3>1, <4>1, <4>2, <4>4, IndexEq
        <4>5. CASE q < p
          BY <3>1, <4>1, <4>2, <4>5, IndexEq
        <4>6. QED
          BY <3>1, <4>1, <4>3, <4>4, <4>5
      <3>4. sequence'[Index(p)] = sequence[Index(p)]
        BY <3>3, <1>0 DEF TypeOK
      <3>5. PICK u \in Threads : Popping(u) /\ pos[u] + Capacity = p
        BY <3>4, Zenon DEF Released
      <3>6. QED
        BY <2>3, <3>2, <3>5, Zenon
    <2>12. PushSeen'
      <3>1. ASSUME NEW u \in Threads, pc[u] = "p_cas", pos[u] = enqueue_pos
            PROVE  sequence'[At(u)] = sequence[At(u)]
        <4>1. sequence[At(u)] = enqueue_pos
          BY <3>1, Zenon DEF PushSeen
        <4>2. At(u) # At(t)
          <5> SUFFICES ASSUME At(u) = At(t) PROVE FALSE
            BY Zenon
          <5>1. enqueue_pos = pos[t] + 1
            BY <2>2, <4>1, Zenon
          <5>2. enqueue_pos < pos[t] + Capacity
            BY <2>2, <5>1, CapacityNat
          <5>3. Index(enqueue_pos) = Index(pos[t]) /\ enqueue_pos \in Nat
            BY <3>1, Zenon DEF At, TypeOK
          <5>4. QED
            BY <2>2, <5>1, <5>2, <5>3, IndexEq
        <4>3. QED
          BY <4>2, <1>0, Zenon DEF TypeOK
      <3>2. ASSUME NEW u \in Threads, pc'[u] \in {"p_seq", "p_cas"}
            PROVE  /\ pc[u] = pc'[u] /\ pos[u] \in Nat /\ At(u)' = At(u)
                   /\ sequence[At(u)] \in Nat /\ sequence'[At(u)] \in Nat
                   /\ sequence[At(u)] <= sequence'[At(u)]
        BY <1>0, <2>1, <2>5, <3>2, Zenon DEF TypeOK, At
      <3>3. QED
        BY <3>1, <3>2 DEF TypeOK, PushSeen
    <2>13. PopSeen'
      <3>1. ASSUME NEW u \in Threads, pc[u] = "c_cas", pos[u] = dequeue_pos
            PROVE  sequence'[At(u)] = sequence[At(u)]
        <4>1. sequence[At(u)] = dequeue_pos + 1
          BY <3>1, Zenon DEF PopSeen
        <4>2. At(u) # At(t)
          BY <2>2, <4>1 DEF TypeOK
        <4>3. QED
          BY <4>2, <1>0, Zenon DEF TypeOK
      <3>2. ASSUME NEW u \in Threads, pc'[u] \in {"c_seq", "c_cas"}
            PROVE  /\ pc[u] = pc'[u] /\ pos[u] \in Nat /\ At(u)' = At(u)
                   /\ sequence[At(u)] \in Nat /\ sequence'[At(u)] \in Nat
                   /\ sequence[At(u)] <= sequence'[At(u)]
        BY <1>0, <2>1, <2>5, <3>2, Zenon DEF TypeOK, At
      <3>3. QED
        BY <3>1, <3>2 DEF TypeOK, PopSeen
    <2>14. QED
      BY <2>1, <2>6, <2>8, <2>9, <2>10, <2>11, <2>12, <2>13, Zenon
  <1>13. CASE UNCHANGED vars
    <2> USE <1>13 DEF vars
    <2>1. TypeOK' /\ ArgOk' /\ PushSeen' /\ PopSeen'
      BY Zenon DEF IInv, TypeOK, ArgOk, PushSeen, PopSeen, At
    <2>2. Quiet
      BY Zenon DEF Quiet, Pushing, Popping
    <2>3. QED
      BY <2>1, <2>2, QuietStep, Zenon DEF IInv, InOrder
  <1>14. QED
    BY <1>1, <1>2, <1>3, <1>4, <1>5, <1>6, <1>7, <1>8, <1>9, <1>10, <1>11, <1>12, <1>13, Zenon
    DEF Next, Step

\* The invariant holds in every state of the queue.
LEMMA IInvHolds == Spec => []IInv
  BY InitIInv, StepIInv, PTL DEF Spec

-----------------------------------------------------------------------------
\* Positions of one window of the queue have slots of their own.
LEMMA Window ==
    ASSUME NEW p \in Nat, NEW q \in Nat, p # q, p < q + Capacity, q < p + Capacity
    PROVE  Index(p) # Index(q)
  <1>1. CASE p < q
    BY <1>1, IndexEq
  <1>2. CASE q < p
    BY <1>2, IndexEq
  <1>3. QED
    BY <1>1, <1>2

\* The invariant gives each thread between claim and release its own slot.
LEMMA OwnSlots == IInv => SlotExclusive
  <1> SUFFICES ASSUME IInv, NEW t \in Threads, NEW u \in Threads,
                      t # u, InSlot(t), InSlot(u)
               PROVE  At(t) # At(u)
    BY Zenon DEF SlotExclusive
  <1>1. \A w \in {t, u} : Pushing(w) \/ Popping(w)
    BY Zenon DEF InSlot, Pushing, Popping
  <1>2. enqueue_pos \in Nat /\ dequeue_pos \in Nat /\ pos[t] \in Nat /\ pos[u] \in Nat
    BY Zenon DEF IInv, TypeOK
  <1>3. \A w \in {t, u} : pos[w] < enqueue_pos /\ enqueue_pos <= pos[w] + Capacity
    BY <1>1, <1>2, CapacityNat DEF IInv, Bounded, PushClaims, PopClaims
  <1>4. pos[t] # pos[u]
    BY <1>1, <1>2 DEF IInv, PushClaims, PopClaims
  <1>5. pos[t] < pos[u] + Capacity /\ pos[u] < pos[t] + Capacity
    BY <1>2, <1>3, CapacityNat
  <1>6. QED
    BY <1>2, <1>4, <1>5, Window, Zenon DEF At

\* No two threads are between the claim and the release of the same slot, so
\* the UnsafeCell with the value has one user at a time (mpmc.rs:89-92 and
\* 120-123).
THEOREM SlotsExclusive == Spec => []SlotExclusive
  BY IInvHolds, OwnSlots, PTL

\* A push that runs alone fails only when every slot holds an element, a pop
\* only when none does (mpmc.rs:97 and 128).
THEOREM FailureMeansFull == Spec => FailsOnlyWhenDue
  <1> DEFINE Due == \A t \in Threads : Alone(t) =>
        /\ pc[t] = "p_seq" /\ pc'[t] = "idle" => enqueue_pos - dequeue_pos = Capacity
        /\ pc[t] = "c_seq" /\ pc'[t] = "idle" => enqueue_pos = dequeue_pos
  <1>1. ASSUME IInv, Next PROVE Due
    <2> SUFFICES ASSUME NEW t \in Threads, Alone(t), pc'[t] = "idle"
                 PROVE  /\ pc[t] = "p_seq" => enqueue_pos - dequeue_pos = Capacity
                        /\ pc[t] = "c_seq" => enqueue_pos = dequeue_pos
      BY Zenon
    <2> USE <1>1
    <2>0. /\ pc \in [Threads -> PC] /\ sequence \in [Slots -> Nat] /\ pos[t] \in Nat
          /\ enqueue_pos \in Nat /\ dequeue_pos \in Nat
          /\ At(t) \in Slots
      BY AtRange, Zenon DEF IInv, TypeOK
    <2>1. ASSUME pc[t] = "p_seq" PROVE enqueue_pos - dequeue_pos = Capacity
      <3>1. sequence[At(t)] < pos[t]
        BY <2>0, <2>1 DEF Next, Step, CallPush, CallPop, PushSeq, PushCas, PushCasFails,
             PushWrite, PushPublish, PopSeq, PopCas, PopCasFails, PopTake, PopRelease, Goto
      <3>2. \A u \in Threads : ~Popping(u)
        BY <2>1, Zenon DEF Alone, Popping
      <3>3. pos[t] = enqueue_pos
        BY <2>0, <2>1, <3>1 DEF IInv, PushSeen
      <3>4. ~(enqueue_pos < dequeue_pos + Capacity)
        <4> SUFFICES ASSUME enqueue_pos < dequeue_pos + Capacity PROVE FALSE
          BY Zenon
        <4>1. enqueue_pos \in enqueue_pos..(dequeue_pos + Capacity - 1)
          BY <2>0, CapacityNat
        <4>2. sequence[Index(enqueue_pos)] = enqueue_pos
          BY <3>2, <4>1, Zenon DEF IInv, Released
        <4>3. QED
          BY <2>0, <3>1, <3>3, <4>2 DEF At
      <3>5. QED
        BY <2>0, <3>4, CapacityNat DEF IInv, Bounded
    <2>2. ASSUME pc[t] = "c_seq" PROVE enqueue_pos = dequeue_pos
      <3>1. sequence[At(t)] < pos[t] + 1
        BY <2>0, <2>2 DEF Next, Step, CallPush, CallPop, PushSeq, PushCas, PushCasFails,
             PushWrite, PushPublish, PopSeq, PopCas, PopCasFails, PopTake, PopRelease, Goto
      <3>2. \A u \in Threads : ~Pushing(u)
        BY <2>2, Zenon DEF Alone, Pushing
      <3>3. pos[t] = dequeue_pos
        BY <2>0, <2>2, <3>1 DEF IInv, PopSeen
      <3>4. ~(dequeue_pos < enqueue_pos)
        <4> SUFFICES ASSUME dequeue_pos < enqueue_pos PROVE FALSE
          BY Zenon
        <4>1. dequeue_pos \in dequeue_pos..(enqueue_pos - 1)
          BY <2>0
        <4>2. sequence[Index(dequeue_pos)] = dequeue_pos + 1
          BY <3>2, <4>1, Zenon DEF IInv, Published
        <4>3. QED
          BY <2>0, <3>1, <3>3, <4>2 DEF At
      <3>5. QED
        BY <2>0, <3>4 DEF IInv, Bounded
    <2>3. QED
      BY <2>1, <2>2, Zenon
  <1>2. IInv /\ [Next]_vars => [Due]_vars
    BY <1>1, Zenon
  <1>3. QED
    BY IInvHolds, <1>2, PTL DEF Spec, FailsOnlyWhenDue

-----------------------------------------------------------------------------
(* The elements between the positions are the abstract queue.              *)

\* Claiming a position appends to the elements between the positions.
LEMMA SubSeqAppend ==
    ASSUME NEW S, NEW h \in Seq(S), NEW v \in S, NEW d \in Nat, d <= Len(h)
    PROVE  SubSeq(Append(h, v), d + 1, Len(h) + 1) = Append(SubSeq(h, d + 1, Len(h)), v)
  <1> DEFINE n == Len(h)
             k == Append(h, v)
             a == SubSeq(k, d + 1, n + 1)
             b == SubSeq(h, d + 1, n)
  <1>1. n \in Nat /\ \A i \in 1..n : h[i] \in S
    BY LenProperties, ElementOfSeq, Zenon
  <1>2. /\ k \in Seq(S) /\ Len(k) = n + 1 /\ k[n + 1] = v
        /\ \A i \in 1..n : k[i] = h[i]
    BY AppendProperties
  <1> HIDE DEF n, k
  <1>3. \A i \in (d + 1)..(n + 1) : k[i] \in S
    BY <1>1, <1>2
  <1>4. /\ a \in Seq(S) /\ Len(a) = n + 1 - d
        /\ \A i \in 1..(n + 1 - d) : a[i] = k[d + i]
    <2>1. d + 1 \in Int /\ n + 1 \in Int /\ d + 1 <= n + 1 /\ (n + 1) - (d + 1) + 1 = n + 1 - d
      BY <1>1 DEF n
    <2>2. /\ a \in Seq(S) /\ Len(a) = (n + 1) - (d + 1) + 1
          /\ \A i \in 1..((n + 1) - (d + 1) + 1) : a[i] = k[(d + 1) + i - 1]
      BY <1>3, <2>1, SubSeqProperties
    <2> HIDE DEF a
    <2>3. QED
      BY <1>1, <2>1, <2>2
  <1>5. /\ b \in Seq(S) /\ Len(b) = n - d
        /\ \A i \in 1..(n - d) : b[i] = h[d + i]
    <2>1. d + 1 \in Int /\ n \in Int /\ n - (d + 1) + 1 = n - d /\ d <= n
      BY <1>1 DEF n
    <2>2. /\ b \in Seq(S) /\ Len(b) = IF d + 1 <= n THEN n - (d + 1) + 1 ELSE 0
          /\ \A i \in 1..(n - (d + 1) + 1) : b[i] = h[(d + 1) + i - 1]
      BY <1>1, <2>1, SubSeqProperties
    <2> HIDE DEF b
    <2>3. QED
      BY <1>1, <2>1, <2>2
  <1> HIDE DEF a, b
  <1>6. /\ Append(b, v) \in Seq(S) /\ Len(Append(b, v)) = n - d + 1
        /\ \A i \in 1..(n - d) : Append(b, v)[i] = b[i]
        /\ Append(b, v)[n - d + 1] = v
    BY <1>5, AppendProperties
  <1>7. \A i \in 1..(n + 1 - d) : a[i] = Append(b, v)[i]
    <2> SUFFICES ASSUME NEW i \in 1..(n + 1 - d) PROVE a[i] = Append(b, v)[i]
      BY Zenon
    <2>1. d <= n
      BY Zenon DEF n
    <2>2. CASE i = n - d + 1
      BY <1>1, <1>2, <1>4, <1>6, <2>1, <2>2
    <2>3. CASE i \in 1..(n - d)
      BY <1>1, <1>2, <1>4, <1>5, <1>6, <2>1, <2>3
    <2>4. n \in Nat /\ i \in Int /\ 1 <= i /\ i <= n + 1 - d
      BY <1>1
    <2>5. i = n - d + 1 \/ i \in 1..(n - d)
      BY <2>1, <2>4
    <2>6. QED
      BY <2>2, <2>3, <2>5, Zenon
  <1>8. a = Append(b, v)
    <2>1. Len(a) = Len(Append(b, v))
      BY <1>1, <1>4, <1>6
    <2>2. \A i \in 1..Len(a) : a[i] = Append(b, v)[i]
      BY <1>4, <1>7, Zenon
    <2>3. QED
      BY <1>4, <1>6, <2>1, <2>2, SeqEqual, Zenon
  <1>9. QED
    BY <1>8, Zenon DEF a, b, k, n

\* An empty queue is filled as claimed.
LEMMA InitFilled == Init => Filled
  BY DEF Init, Filled

\* Every step keeps in the slots what was claimed for them.
LEMMA StepFilled == IInv /\ Filled /\ [Next]_vars => Filled'
  <1> SUFFICES ASSUME IInv, Filled, [Next]_vars PROVE Filled'
    BY Zenon
  <1>0. /\ \A u \in Threads : At(u) \in Slots /\ pos[u] \in Nat
        /\ enqueue_pos \in Nat /\ dequeue_pos \in Nat
        /\ dequeue_pos <= enqueue_pos /\ enqueue_pos <= dequeue_pos + Capacity
        /\ pc \in [Threads -> PC] /\ value \in [Slots -> Values \cup {None}]
        /\ history \in Seq(Values) /\ Len(history) = enqueue_pos
    BY AtRange, Zenon DEF IInv, TypeOK, Bounded, Filled
  <1>1. ASSUME UNCHANGED <<value, enqueue_pos, dequeue_pos, history>>,
               \A u \in Threads : /\ pc'[u] = "p_write" <=> pc[u] = "p_write"
                                  /\ pc'[u] = "c_take" <=> pc[u] = "c_take"
                                  /\ pc[u] \in {"p_write", "c_take"} => pos'[u] = pos[u]
                                  /\ pc[u] = "p_write" => arg'[u] = arg[u]
        PROVE  Filled'
    BY <1>1 DEF Filled, At
  <1>2. ASSUME NEW t \in Threads, PushCas(t) PROVE Filled'
    <2>0. /\ pos[t] = enqueue_pos /\ enqueue_pos' = enqueue_pos + 1
          /\ history' = Append(history, arg[t])
          /\ pc' = [pc EXCEPT ![t] = "p_write"] /\ pc[t] = "p_cas"
          /\ UNCHANGED <<value, dequeue_pos, pos, arg>>
          /\ arg[t] \in Values
      BY <1>2, Zenon DEF PushCas, Goto, IInv, ArgOk
    <2>1. /\ Len(history') = enqueue_pos + 1 /\ history'[enqueue_pos + 1] = arg[t]
          /\ \A i \in 1..enqueue_pos : history'[i] = history[i]
      BY <1>0, <2>0, AppendProperties
    <2>2. \A p \in Nat : p < enqueue_pos => history'[p + 1] = history[p + 1]
      BY <1>0, <2>1
    <2>3. \A p \in dequeue_pos'..(enqueue_pos' - 1) :
             \/ value'[Index(p)] = history'[p + 1]
             \/ \E u \in Threads : pc'[u] = "p_write" /\ pos'[u] = p
      <3> SUFFICES ASSUME NEW p \in dequeue_pos'..(enqueue_pos' - 1)
                   PROVE  \/ value'[Index(p)] = history'[p + 1]
                          \/ \E u \in Threads : pc'[u] = "p_write" /\ pos'[u] = p
        BY Zenon
      <3>1. CASE p = enqueue_pos
        BY <1>0, <2>0, <3>1, Zenon
      <3>2. CASE p \in dequeue_pos..(enqueue_pos - 1)
        <4>1. history'[p + 1] = history[p + 1]
          BY <1>0, <2>2, <3>2
        <4>2. QED
          BY <1>0, <2>0, <3>2, <4>1, Zenon DEF Filled
      <3>3. QED
        BY <1>0, <2>0, <3>1, <3>2
    <2>4. \A u \in Threads : pc[u] \in {"p_write", "c_take"} => pos[u] < enqueue_pos
      BY <1>0 DEF IInv, PushClaims, PopClaims, Pushing, Popping
    <2>5. \A u \in Threads : pc'[u] = "p_write" => arg'[u] = history'[pos'[u] + 1]
      BY <1>0, <2>0, <2>1, <2>2, <2>4 DEF Filled
    <2>6. \A u \in Threads : pc'[u] = "c_take" => value'[At(u)'] = history'[pos'[u] + 1]
      BY <1>0, <2>0, <2>2, <2>4 DEF Filled, At
    <2>7. QED
      BY <2>0, <2>1, <2>3, <2>5, <2>6, Zenon DEF Filled
  <1>3. ASSUME NEW t \in Threads, PushWrite(t) PROVE Filled'
    <2>0. /\ pc[t] = "p_write" /\ pc' = [pc EXCEPT ![t] = "p_publish"]
          /\ value' = [value EXCEPT ![At(t)] = arg[t]]
          /\ UNCHANGED <<enqueue_pos, dequeue_pos, history, pos, arg>>
          /\ dequeue_pos <= pos[t] /\ pos[t] < enqueue_pos
          /\ arg[t] = history[pos[t] + 1]
      BY <1>3, Zenon DEF PushWrite, Goto, IInv, PushClaims, Pushing, Filled
    <2>1. value'[At(t)] = history[pos[t] + 1]
      BY <1>0, <2>0, Zenon
    <2>2. ASSUME NEW p \in Nat, p # pos[t], p < enqueue_pos, enqueue_pos <= p + Capacity
          PROVE  value'[Index(p)] = value[Index(p)]
      <3>1. p < pos[t] + Capacity /\ pos[t] < p + Capacity
        BY <1>0, <2>0, <2>2, CapacityNat
      <3>2. Index(p) # At(t)
        BY <1>0, <2>2, <3>1, Window, Zenon DEF At
      <3>3. QED
        BY <1>0, <2>0, <3>2
    <2>3. ASSUME NEW p \in dequeue_pos..(enqueue_pos - 1)
          PROVE  \/ value'[Index(p)] = history[p + 1]
                 \/ \E u \in Threads : pc'[u] = "p_write" /\ pos[u] = p
      <3>1. CASE p = pos[t]
        BY <2>1, <3>1, Zenon DEF At
      <3>2. CASE p # pos[t]
        <4>1. value'[Index(p)] = value[Index(p)]
          BY <1>0, <2>2, <3>2, CapacityNat
        <4>2. QED
          BY <1>0, <2>0, <3>2, <4>1, Zenon DEF Filled
      <3>3. QED
        BY <3>1, <3>2, Zenon
    <2>4. ASSUME NEW u \in Threads, pc'[u] = "c_take"
          PROVE  value'[At(u)] = history[pos[u] + 1]
      <3>1. /\ pc[u] = "c_take" /\ pos[u] # pos[t] /\ pos[u] < enqueue_pos
            /\ enqueue_pos <= pos[u] + Capacity
        BY <1>0, <2>0, <2>4 DEF IInv, PopClaims, Popping
      <3>2. value'[At(u)] = value[At(u)]
        BY <1>0, <2>2, <3>1, Zenon DEF At
      <3>3. QED
        BY <3>1, <3>2, Zenon DEF Filled
    <2>5. \A u \in Threads : pc'[u] = "p_write" => pc[u] = "p_write"
      BY <1>0, <2>0, Zenon
    <2>6. QED
      BY <2>0, <2>3, <2>4, <2>5 DEF Filled, At
  <1>4. ASSUME NEW t \in Threads, PopCas(t) PROVE Filled'
    <2>0. /\ pos[t] = dequeue_pos /\ dequeue_pos' = dequeue_pos + 1
          /\ pc[t] = "c_cas" /\ pc' = [pc EXCEPT ![t] = "c_take"]
          /\ UNCHANGED <<value, enqueue_pos, history, pos, arg>>
      BY <1>4, Zenon DEF PopCas, Goto
    <2>1. dequeue_pos \in dequeue_pos..(enqueue_pos - 1)
      BY <1>0, <1>4, PopCasFilled
    <2>2. value[At(t)] = history[pos[t] + 1]
      BY <1>0, <1>4, <2>0, <2>1, PopCasFilled DEF Filled, At, Pushing
    <2>3. \A u \in Threads : /\ pc'[u] = "p_write" <=> pc[u] = "p_write"
                             /\ pc'[u] = "c_take" <=> pc[u] = "c_take" \/ u = t
      BY <1>0, <2>0, Zenon
    <2>4. \A p \in dequeue_pos'..(enqueue_pos' - 1) : p \in dequeue_pos..(enqueue_pos - 1)
      BY <1>0, <2>0
    <2>5. QED
      BY <2>0, <2>2, <2>3, <2>4 DEF Filled, At
  <1>5. ASSUME NEW t \in Threads, PopTake(t) PROVE Filled'
    <2>0. /\ pc[t] = "c_take" /\ pc' = [pc EXCEPT ![t] = "c_release"]
          /\ value' = [value EXCEPT ![At(t)] = None]
          /\ UNCHANGED <<enqueue_pos, dequeue_pos, history, pos, arg>>
          /\ pos[t] < dequeue_pos /\ enqueue_pos <= pos[t] + Capacity
      BY <1>5, Zenon DEF PopTake, Goto, IInv, PopClaims, Popping
    <2>1. ASSUME NEW p \in dequeue_pos..(enqueue_pos - 1)
          PROVE  value'[Index(p)] = value[Index(p)]
      <3>1. p \in Nat /\ p # pos[t] /\ p < pos[t] + Capacity /\ pos[t] < p + Capacity
        BY <1>0, <2>0, CapacityNat
      <3>2. Index(p) # At(t)
        BY <1>0, <3>1, Window, Zenon DEF At
      <3>3. QED
        BY <1>0, <2>0, <3>2
    <2>2. ASSUME NEW u \in Threads, pc'[u] = "c_take"
          PROVE  pc[u] = "c_take" /\ value'[At(u)] = value[At(u)]
      <3>1. u # t /\ pc[u] = "c_take"
        BY <1>0, <2>0, <2>2, Zenon
      <3>2. At(u) # At(t)
        BY <2>0, <3>1, OwnSlots, Zenon DEF SlotExclusive, InSlot
      <3>3. QED
        BY <1>0, <2>0, <3>1, <3>2, Zenon
    <2>3. \A u \in Threads : pc'[u] = "p_write" <=> pc[u] = "p_write"
      BY <1>0, <2>0, Zenon
    <2>4. QED
      BY <2>0, <2>1, <2>2, <2>3 DEF Filled, At
  <1>6. ASSUME NEW t \in Threads,
               \/ \E v \in Elements[t] : CallPush(t, v)
               \/ CallPop(t) \/ PushSeq(t) \/ PushCasFails(t) \/ PushPublish(t)
               \/ PopSeq(t) \/ PopCasFails(t) \/ PopRelease(t)
        PROVE  Filled'
    <2>1. UNCHANGED <<value, enqueue_pos, dequeue_pos, history>>
      BY <1>6, Zenon DEF CallPush, CallPop, PushSeq, PushCasFails, PushPublish, PopSeq, PopCasFails,
           PopRelease, shared
    <2>2. ASSUME NEW u \in Threads
          PROVE  /\ pc'[u] = "p_write" <=> pc[u] = "p_write"
                 /\ pc'[u] = "c_take" <=> pc[u] = "c_take"
                 /\ pc[u] \in {"p_write", "c_take"} => pos'[u] = pos[u]
                 /\ pc[u] = "p_write" => arg'[u] = arg[u]
      BY <1>0, <1>6 DEF CallPush, CallPop, PushSeq, PushCasFails, PushPublish, PopSeq,
           PopCasFails, PopRelease, Goto, IInv, TypeOK
    <2>3. QED
      BY <1>1, <2>1, <2>2, Zenon
  <1>7. CASE UNCHANGED vars
    BY <1>1, <1>7, Zenon DEF vars
  <1>8. QED
    BY <1>2, <1>3, <1>4, <1>5, <1>6, <1>7, Zenon DEF Next, Step

\* Both invariants hold in every state of the queue.
LEMMA FilledHolds == Spec => [](IInv /\ Filled)
  <1>1. IInv /\ Filled /\ [Next]_vars => Filled'
    BY StepFilled, Zenon
  <1>2. QED
    BY IInvHolds, InitFilled, <1>1, PTL DEF Spec

\* Every behaviour of push and pop is one of the bounded FIFO queue: elements
\* leave in the order in which their positions were claimed, each once, and
\* never more than Capacity are inside (mpmc.rs:78-132).
THEOREM RefinesQueue == Spec => ImplementsQueue
  <1>1. Init => Queue!Init
    BY SubSeqEmpty DEF Init, Queue!Init
  <1>2. ASSUME IInv, Filled, [Next]_vars PROVE [Queue!Next]_(Queue!vars)
    <2> DEFINE q == SubSeq(history, dequeue_pos + 1, enqueue_pos)
               pending == [t \in Threads |-> IF pc[t] = "c_take"
                                             THEN history[pos[t] + 1] ELSE None]
    <2>0. /\ enqueue_pos \in Nat /\ dequeue_pos \in Nat /\ \A u \in Threads : pos[u] \in Nat
          /\ dequeue_pos <= enqueue_pos /\ enqueue_pos <= dequeue_pos + Capacity
          /\ pc \in [Threads -> PC] /\ ret \in [Threads -> Values \cup {None}]
          /\ history \in Seq(Values) /\ Len(history) = enqueue_pos
      BY <1>2, Zenon DEF IInv, TypeOK, Bounded, Filled
    <2>1. ASSUME UNCHANGED <<enqueue_pos, dequeue_pos, history, ret>>,
                 \A u \in Threads : /\ pc'[u] = "c_take" <=> pc[u] = "c_take"
                                    /\ pc[u] = "c_take" => pos'[u] = pos[u]
          PROVE  UNCHANGED Queue!vars
      BY <2>1, Zenon DEF Queue!vars
    <2>2. ASSUME NEW t \in Threads, PushCas(t) PROVE Queue!Push(arg[t]) /\ arg[t] \in Values
      <3>0. /\ pos[t] = enqueue_pos /\ enqueue_pos' = enqueue_pos + 1 /\ arg[t] \in Values
            /\ history' = Append(history, arg[t])
            /\ pc[t] = "p_cas" /\ pc' = [pc EXCEPT ![t] = "p_write"]
            /\ UNCHANGED <<dequeue_pos, pos, ret>>
        BY <1>2, <2>2, Zenon DEF PushCas, Goto, IInv, ArgOk
      <3>1. q' = Append(q, arg[t])
        <4>1. SubSeq(Append(history, arg[t]), dequeue_pos + 1, Len(history) + 1)
                = Append(SubSeq(history, dequeue_pos + 1, Len(history)), arg[t])
          BY <2>0, <3>0, SubSeqAppend, Zenon
        <4>. QED
          BY <2>0, <3>0, <4>1, Zenon
      <3>2. Len(q) < Capacity
        <4>1. enqueue_pos < dequeue_pos + Capacity
          BY <1>2, <2>0, <2>2, PushCasFree, CapacityNat
        <4>2. \A i \in (dequeue_pos + 1)..enqueue_pos : history[i] \in Values
          BY <2>0, ElementOfSeq
        <4>3. Len(q) = IF dequeue_pos + 1 <= enqueue_pos
                       THEN enqueue_pos - (dequeue_pos + 1) + 1 ELSE 0
          BY <2>0, <4>2, SubSeqProperties
        <4> HIDE DEF q
        <4>4. QED
          BY <2>0, <4>1, <4>3, CapacityNat
      <3>3. \A u \in Threads : pc[u] = "c_take" =>
                pos[u] + 1 \in 1..enqueue_pos
        BY <1>2, <2>0 DEF IInv, PopClaims, Popping
      <3>4. \A i \in 1..enqueue_pos : history'[i] = history[i]
        BY <2>0, <3>0, AppendProperties
      <3>5. pending' = pending
        BY <2>0, <3>0, <3>3, <3>4, Zenon
      <3>6. QED
        BY <3>0, <3>1, <3>2, <3>5, Zenon DEF Queue!Push
    <2>3. ASSUME NEW t \in Threads, PopCas(t) PROVE Queue!Take(t)
      <3>0. /\ pos[t] = dequeue_pos /\ dequeue_pos' = dequeue_pos + 1
            /\ pc[t] = "c_cas" /\ pc' = [pc EXCEPT ![t] = "c_take"]
            /\ UNCHANGED <<enqueue_pos, history, pos, ret>>
        BY <2>3, Zenon DEF PopCas, Goto
      <3>1. /\ dequeue_pos + 1 \in 1..Len(history)
            /\ enqueue_pos \in (dequeue_pos + 1)..Len(history)
        BY <1>2, <2>0, <2>3, PopCasFilled
      <3>2. Head(q) = history[dequeue_pos + 1] /\ q' = Tail(q)
        BY <2>0, <3>0, <3>1, HeadTailOfSubSeq, Zenon
      <3>3. q # <<>>
        <4>1. \A i \in (dequeue_pos + 1)..enqueue_pos : history[i] \in Values
          BY <2>0, ElementOfSeq
        <4>2. Len(q) = IF dequeue_pos + 1 <= enqueue_pos
                       THEN enqueue_pos - (dequeue_pos + 1) + 1 ELSE 0
          BY <2>0, <4>1, SubSeqProperties
        <4> HIDE DEF q
        <4>3. Len(q) # 0
          BY <2>0, <3>1, <4>2
        <4>4. QED
          BY <4>3, EmptySeq
      <3>4. pending[t] = None /\ pending' = [pending EXCEPT ![t] = history[dequeue_pos + 1]]
        BY <2>0, <3>0, Zenon
      <3>5. QED
        BY <3>0, <3>2, <3>3, <3>4, Zenon DEF Queue!Take
    <2>4. ASSUME NEW t \in Threads, PopTake(t) PROVE Queue!Return(t)
      <3>0. /\ pc[t] = "c_take" /\ pc' = [pc EXCEPT ![t] = "c_release"]
            /\ ret' = [ret EXCEPT ![t] = value[At(t)]]
            /\ UNCHANGED <<enqueue_pos, dequeue_pos, history, pos>>
        BY <2>4, Zenon DEF PopTake, Goto
      <3>1. pending[t] = value[At(t)]
        BY <1>2, <3>0, Zenon DEF Filled
      <3>2. pos[t] + 1 \in 1..Len(history)
        BY <1>2, <2>0, <3>0 DEF IInv, PopClaims, Popping
      <3>3. pending[t] # None
        BY <2>0, <3>0, <3>2, ElementOfSeq, QueueAssumption, Zenon
      <3>4. pending' = [pending EXCEPT ![t] = None]
        BY <2>0, <3>0, Zenon
      <3>5. QED
        BY <3>0, <3>1, <3>3, <3>4, Zenon DEF Queue!Return
    <2>5. ASSUME NEW t \in Threads, PopSeq(t)
          PROVE  Queue!ReturnNone(t) \/ UNCHANGED Queue!vars
      <3>1. /\ pc[t] = "c_seq" /\ UNCHANGED <<enqueue_pos, dequeue_pos, history>>
            /\ ret' = [ret EXCEPT ![t] = None] \/ ret' = ret
            /\ \A u \in Threads : /\ pc'[u] = "c_take" <=> pc[u] = "c_take"
                                  /\ pc[u] = "c_take" => pos'[u] = pos[u]
        BY <1>2, <2>0, <2>5, Zenon DEF PopSeq, shared, IInv, TypeOK
      <3>2. q' = q /\ pending' = pending /\ pending[t] = None
        BY <2>0, <3>1, Zenon
      <3>3. QED
        BY <3>1, <3>2, Zenon DEF Queue!ReturnNone, Queue!vars
    <2>6. ASSUME NEW t \in Threads,
                 \/ \E v \in Elements[t] : CallPush(t, v)
                 \/ CallPop(t) \/ PushSeq(t) \/ PushCasFails(t) \/ PushWrite(t)
                 \/ PushPublish(t) \/ PopCasFails(t) \/ PopRelease(t)
          PROVE  UNCHANGED Queue!vars
      <3>1. UNCHANGED <<enqueue_pos, dequeue_pos, history, ret>>
        BY <2>6, Zenon DEF CallPush, CallPop, PushSeq, PushCasFails, PushWrite, PushPublish,
             PopCasFails, PopRelease, shared
      <3>2. \A u \in Threads : /\ pc'[u] = "c_take" <=> pc[u] = "c_take"
                               /\ pc[u] = "c_take" => pos'[u] = pos[u]
        BY <1>2, <2>0, <2>6 DEF CallPush, CallPop, PushSeq, PushCasFails, PushWrite,
             PushPublish, PopCasFails, PopRelease, Goto, IInv, TypeOK
      <3>3. QED
        BY <2>1, <3>1, <3>2, Zenon
    <2>7. CASE UNCHANGED vars
      BY <2>1, <2>7, Zenon DEF vars
    <2>8. QED
      BY <1>2, <2>2, <2>3, <2>4, <2>5, <2>6, <2>7, Zenon DEF Next, Step, Queue!Next
  <1>3. QED
    BY <1>1, <1>2, FilledHolds, PTL DEF Spec, ImplementsQueue, Queue!Spec
=============================================================================
