-------------------------- MODULE TlbShootdownInv --------------------------
(***************************************************************************)
(* The invariant of the shootdowns and what it says: facts about the log,   *)
(* the page tables made from it and the queues, and why no stale            *)
(* translation is left in a state of the invariant.                         *)
(***************************************************************************)
EXTENDS TlbShootdown, FiniteSetTheorems, TLAPS

PC == {"off", "starting", "eager", "user", "fs_wait", "flush",
       "enqueue", "notify", "own", "wait"}

Ops == [kind : {"assign", "map", "unmap"}, core : Cores,
        page : Pages \cup {None}, frame : Nat \cup {None}]

Items == [kind : {"shootdown", "advance"}, from : Cores \cup {None},
          page : Pages \cup {None}]

\* Every variable the argument is about has its type.
TypeOK ==
    /\ log \in Seq(Ops)
    /\ applied \in [Nodes -> Nat]
    /\ pc \in [Cores -> PC]
    /\ target \in [Cores -> Nat \cup {None}]
    /\ page \in [Cores -> Pages \cup {None}]
    /\ todo \in [Cores -> SUBSET Cores]
    /\ unacked \in [Cores -> SUBSET Cores]
    /\ queue \in [Cores -> Seq(Items)]
    /\ work \in [Cores -> Pages \cup {None}]
    /\ tlb \in [Cores -> [Pages -> Nat \cup {None}]]

\* What the log l says: operation m maps frame f at page p, ...
Maps(l, m, p, f) == l[m].kind = "map" /\ l[m].page = p /\ l[m].frame = f

\* ... operation u removes a mapping of page p, ...
Removes(l, u, p) == l[u].kind = "unmap" /\ l[u].page = p

\* ... operation u is the one that removes the mapping made by m, ...
Ends(l, m, u) ==
    /\ m < u /\ Removes(l, u, l[m].page)
    /\ \A j \in 1..Len(l) : m < j /\ j < u => ~Removes(l, j, l[m].page)

\* ... core c runs the process.
Active(l, c) == \E j \in 1..Len(l) : l[j].kind = "assign" /\ l[j].core = c

\* The frames the log has mapped.
Frames(l) == {l[j].frame : j \in 1..Len(l)} \ {None}

\* Frames are given out in order, and a page is mapped again only after it
\* was unmapped.
LogOK(l) ==
    /\ \A j \in 1..Len(l) :
          /\ l[j].kind = "map" => l[j].page \in Pages /\ l[j].frame \in Nat
          /\ l[j].kind # "map" => l[j].frame = None
    /\ \E n \in Nat : Frames(l) = 1..n
    /\ \A j, k \in 1..Len(l) :
          l[j].kind = "map" /\ l[k].kind = "map" /\ l[j].frame = l[k].frame => j = k
    /\ \A j, k \in 1..Len(l) :
          l[j].kind = "map" /\ l[k].kind = "map" /\ l[j].page = l[k].page /\ j < k
          => \E u \in 1..Len(l) : j < u /\ u < k /\ Removes(l, u, l[j].page)

\* A node has executed its own operations.
Local(l, done) ==
    /\ \A n \in Nodes : done[n] <= Len(l)
    /\ \A j \in 1..Len(l) : j <= done[NodeOf[l[j].core]]

\* Exactly the cores the log has assigned to the process are in it.
InProcess ==
    \A c \in Cores : pc[c] \in {"off", "eager"} <=> ~Active(log, c)

\* What the initiator has to do and waits for.
Rounds ==
    \A i \in Cores :
        /\ ~InShootdown(i) => unacked[i] = {}
        /\ pc[i] # "enqueue" => todo[i] = {}
        /\ todo[i] \cap unacked[i] = {}
        /\ \A c \in todo[i] : Active(log, c)

\* The shootdowns queued at core c are waited for, one for each initiator.
Awaited(q, c, acks, pages) ==
    /\ \A k \in 1..Len(q) :
          q[k].kind = "shootdown" =>
              /\ q[k].from \in Cores /\ c \in acks[q[k].from]
              /\ q[k].page = pages[q[k].from]
    /\ \A j, k \in 1..Len(q) :
          q[j].kind = "shootdown" /\ q[k].kind = "shootdown" /\ q[j].from = q[k].from => j = k

Queued ==
    \A c \in Cores :
        /\ Awaited(queue[c], c, unacked, page)
        /\ \A k \in 1..Len(queue[c]) : queue[c][k].kind = "shootdown" => Active(log, c)

\* Translations come from the log, and only cores of the process have any.
Loaded ==
    \A c \in Cores, p \in Pages :
        tlb[c][p] # None =>
            /\ Active(log, c)
            /\ \E m \in 1..Len(log) : Maps(log, m, p, tlb[c][p])

\* Core c will not return to user space with its translation of p that the
\* unmap of core i has removed, or core i still waits for it.
Guarded(c, p, i) ==
    \/ pc[c] = "flush" /\ work[c] = p
    \/ /\ InShootdown(i) /\ target[i] = tlb[c][p] /\ page[i] = p
       /\ \/ c = i /\ pc[i] # "wait"
          \/ c \in todo[i]
          \/ c \in unacked[i]

Covered ==
    \A c \in Cores, p \in Pages, m, u \in 1..Len(log) :
        /\ tlb[c][p] # None
        /\ Maps(log, m, p, tlb[c][p]) /\ Ends(log, m, u)
        /\ NodeOf[log[u].core] = NodeOf[c]
        => Guarded(c, p, log[u].core)

\* The shootdown of core i is for an unmap in the log that has not returned.
Unfinished ==
    \A i \in Cores :
        InShootdown(i) =>
            /\ page[i] \in Pages /\ target[i] \notin retired
            /\ \E m, u \in 1..Len(log) :
                  Maps(log, m, page[i], target[i]) /\ Ends(log, m, u) /\ log[u].core = i

\* An unmap that has returned is in the log.
Returned ==
    \A f \in retired : \E m, u \in 1..Len(log) :
        log[m].kind = "map" /\ log[m].frame = f /\ Ends(log, m, u)

IInv ==
    /\ TypeOK /\ LogOK(log) /\ Local(log, applied)
    /\ InProcess /\ Rounds /\ Queued
    /\ Loaded /\ Covered /\ Unfinished /\ Returned

-----------------------------------------------------------------------------
(***************************************************************************)
(* Sequences, and sets of numbers                                           *)
(***************************************************************************)

\* The length and the elements of a sequence.
LEMMA SeqFacts ==
  ASSUME NEW S, NEW s \in Seq(S)
  PROVE  Len(s) \in Nat /\ \A k \in 1..Len(s) : s[k] \in S
OBVIOUS

\* A sequence with one more element.
LEMMA AppendFacts ==
  ASSUME NEW S, NEW s \in Seq(S), NEW e \in S
  PROVE  /\ Append(s, e) \in Seq(S) /\ Len(Append(s, e)) = Len(s) + 1
         /\ \A k \in 1..Len(s) : Append(s, e)[k] = s[k]
         /\ Append(s, e)[Len(s) + 1] = e
OBVIOUS

\* A sequence without its first element.
LEMMA TailFacts ==
  ASSUME NEW S, NEW s \in Seq(S), s # <<>>
  PROVE  /\ Head(s) = s[1] /\ 1 \in 1..Len(s)
         /\ Tail(s) \in Seq(S) /\ Len(Tail(s)) = Len(s) - 1
         /\ \A k \in 1..Len(Tail(s)) : k + 1 \in 1..Len(s) /\ Tail(s)[k] = s[k + 1]
OBVIOUS

\* The least element of a set of numbers.
LEMMA MinIs ==
  ASSUME NEW S \in SUBSET Nat, S # {}
  PROVE  Min(S) \in S /\ \A y \in S : Min(S) <= y
<1>1. IsWellFoundedOn(OpToRel(<, Nat), Nat)
  BY NatLessThanWellFounded, Zenon
<1>2. PICK x \in S : \A y \in S : <<y, x>> \notin OpToRel(<, Nat)
  BY <1>1, WFMin, Zenon
<1>3. \A y \in S : ~(y < x)
  BY <1>2, Zenon DEF OpToRel
<1>4. \A y \in S : x <= y
  BY <1>3
<1>. QED
  BY <1>4, Zenon DEF Min

\* The greatest element of a bounded set of numbers.
LEMMA MaxIs ==
  ASSUME NEW k \in Nat, NEW S \in SUBSET (1..k), S # {}
  PROVE  Max(S) \in S /\ \A y \in S : y <= Max(S)
<1>. DEFINE T == {b \in Nat : \A y \in S : y <= b}
<1>1. k \in T
  OBVIOUS
<1>2. Min(T) \in T /\ \A y \in T : Min(T) <= y
  <2>1. T \in SUBSET Nat /\ T # {}
    BY <1>1
  <2>. QED
    BY <2>1, MinIs, Zenon
<1>. DEFINE t == Min(T)
<1>3. t \in Nat /\ \A y \in S : y <= t
  BY <1>2
<1>4. \A b \in Nat : (\A y \in S : y <= b) => t <= b
  BY <1>2
<1>. HIDE DEF t, T
<1>5. t \in S
  <2>1. SUFFICES ASSUME t \notin S PROVE FALSE
    OBVIOUS
  <2>2. \A y \in S : y \in Nat /\ y # 0 /\ y <= t /\ y # t
    BY <1>3, <2>1
  <2>3. t # 0
    <3>1. PICK y \in S : TRUE
      BY Zenon
    <3>. QED
      BY <1>3, <2>2, <3>1
  <2>4. t - 1 \in Nat /\ \A y \in S : y <= t - 1
    BY <1>3, <2>2, <2>3
  <2>5. t <= t - 1
    BY <1>4, <2>4, Zenon
  <2>. QED
    BY <1>3, <2>5
<1>6. \A y \in S : t >= y
  BY <1>3
<1>7. /\ Max(S) \in S /\ \A y \in S : Max(S) >= y
  BY <1>5, <1>6, Zenon DEF Max
<1>. QED
  BY <1>7

\* The enumeration of the cores that run the process at the start.
LEMMA RunningSeq ==
  LET n == Cardinality(Running)
      s == Joined
  IN  n \in Nat /\ s \in [1..n -> Running] /\ \A c \in Running : \E k \in 1..n : s[k] = c
<1>. DEFINE n == Cardinality(Running)
            s == Joined
<1>1. IsFiniteSet(Running)
  BY TlbAssumption, FS_Subset, Zenon
<1>2. n \in Nat /\ ExistsBijection(1..n, Running)
  BY <1>1, FS_CardinalityType, Zenon
<1>3. PICK f \in Bijection(1..n, Running) : TRUE
  BY <1>2, Zenon DEF ExistsBijection
<1>4. f \in [1..n -> Running] /\ \A c \in Running : \E k \in 1..n : f[k] = c
  BY <1>3, Zenon DEF Bijection, Surjection
<1>. QED
  BY <1>2, <1>4, Zenon DEF Joined

-----------------------------------------------------------------------------
(***************************************************************************)
(* The log and the page tables made from it                                 *)
(***************************************************************************)

\* Operation j maps or unmaps page p.
Touches(l, j, p) == l[j].kind # "assign" /\ l[j].page = p

\* A replica maps what the last operation on the page says.
LEMMA MappingIs ==
  ASSUME log \in Seq(Ops), NEW k \in Nat, k <= Len(log), NEW p
  PROVE  \/ Mapping(p, k) = None /\ \A j \in 1..k : ~Touches(log, j, p)
         \/ \E m \in 1..k : /\ Touches(log, m, p) /\ Mapping(p, k) = log[m].frame
                            /\ \A j \in 1..k : Touches(log, j, p) => j <= m
<1>. DEFINE ops == {j \in 1..k : log[j].kind # "assign" /\ log[j].page = p}
<1>1. CASE ops = {}
  BY <1>1, Zenon DEF Mapping, Touches
<1>2. CASE ops # {}
  <2>1. Max(ops) \in ops /\ \A y \in ops : y <= Max(ops)
    <3>1. ops \in SUBSET (1..k)
      BY Zenon
    <3>. HIDE DEF ops
    <3>. QED
      BY <1>2, <3>1, MaxIs, Zenon
  <2>2. Mapping(p, k) = log[Max(ops)].frame
    BY <1>2, Zenon DEF Mapping
  <2>. DEFINE m == Max(ops)
  <2>3. m \in 1..k /\ Touches(log, m, p) /\ \A j \in 1..k : Touches(log, j, p) => j <= m
    BY <2>1, Zenon DEF Touches
  <2>. HIDE DEF m
  <2>. QED
    BY <2>2, <2>3, Zenon DEF m
<1>. QED
  BY <1>1, <1>2, Zenon

\* What a replica maps was mapped by an operation it has executed, and no
\* later one it has executed has removed it.
LEMMA Mapped ==
  ASSUME log \in Seq(Ops), LogOK(log), NEW k \in Nat, k <= Len(log), NEW p,
         Mapping(p, k) # None
  PROVE  /\ Mapping(p, k) \in Nat
         /\ \E m \in 1..Len(log) :
               /\ m <= k /\ Maps(log, m, p, Mapping(p, k))
               /\ \A j \in 1..Len(log) : m < j /\ j <= k => ~Touches(log, j, p)
<1>1. PICK m \in 1..k : /\ Touches(log, m, p) /\ Mapping(p, k) = log[m].frame
                        /\ \A j \in 1..k : Touches(log, j, p) => j <= m
  BY MappingIs, Zenon
<1>2. Len(log) \in Nat
  BY SeqFacts, Zenon
<1>3. m \in 1..Len(log) /\ m <= k
  BY <1>2
<1>4. log[m].kind = "map" /\ log[m].frame \in Nat
  BY <1>1, <1>3, Zenon DEF LogOK
<1>5. Maps(log, m, p, Mapping(p, k))
  BY <1>1, <1>4, Zenon DEF Maps, Touches
<1>6. ASSUME NEW j \in 1..Len(log), m < j, j <= k PROVE ~Touches(log, j, p)
  <2>1. j \in 1..k /\ ~(j <= m)
    BY <1>2, <1>6
  <2>. QED
    BY <1>1, <2>1, Zenon
<1>. QED
  BY <1>1, <1>3, <1>4, <1>5, <1>6, Zenon

\* A page that is not mapped was unmapped after each mapping of it.
LEMMA NotMapped ==
  ASSUME log \in Seq(Ops), LogOK(log), NEW p, Mapping(p, Len(log)) = None,
         NEW j \in 1..Len(log), log[j].kind = "map", log[j].page = p
  PROVE  \E u \in 1..Len(log) : j < u /\ Removes(log, u, p)
<1>1. Len(log) \in Nat /\ Len(log) <= Len(log)
  BY SeqFacts
<1>2. Touches(log, j, p)
  BY Zenon DEF Touches
<1>3. PICK m \in 1..Len(log) :
        /\ Touches(log, m, p) /\ Mapping(p, Len(log)) = log[m].frame
        /\ \A i \in 1..Len(log) : Touches(log, i, p) => i <= m
  BY <1>1, <1>2, MappingIs, Zenon
<1>4. None \notin Nat
  BY TlbAssumption, Zenon
<1>5. log[m].kind # "map" /\ log[m].kind \in {"assign", "map", "unmap"}
  <2>1. log[m] \in Ops
    BY SeqFacts, Zenon
  <2>. QED
    BY <1>3, <1>4, <2>1 DEF LogOK, Ops
<1>6. Removes(log, m, p)
  BY <1>3, <1>5 DEF Removes, Touches
<1>7. j # m /\ j <= m
  BY <1>2, <1>3, <1>5, Zenon
<1>8. j < m
  BY <1>1, <1>7
<1>. QED
  BY <1>6, <1>8, Zenon

\* One more operation in the log: what it says of the earlier ones stays.
LEMMA LogGrows ==
  ASSUME NEW l \in Seq(Ops), NEW op \in Ops
  PROVE  /\ Append(l, op) \in Seq(Ops) /\ Len(l) \in Nat
         /\ Len(Append(l, op)) = Len(l) + 1 /\ Append(l, op)[Len(l) + 1] = op
         /\ \A j \in 1..Len(l) :
               j \in 1..(Len(l) + 1) /\ j # Len(l) + 1 /\ Append(l, op)[j] = l[j]
         /\ Len(l) + 1 \in 1..(Len(l) + 1)
         /\ \A j \in 1..(Len(l) + 1) : j # Len(l) + 1 => j \in 1..Len(l)
<1>1. Len(l) \in Nat
  BY SeqFacts, Zenon
<1>. QED
  BY <1>1, AppendFacts

\* Mappings of the longer log.
LEMMA MapsGrow ==
  ASSUME NEW l \in Seq(Ops), NEW op \in Ops, NEW m \in 1..Len(l), NEW p
  PROVE  /\ \A f : Maps(Append(l, op), m, p, f) <=> Maps(l, m, p, f)
         /\ Removes(Append(l, op), m, p) <=> Removes(l, m, p)
BY LogGrows DEF Maps, Removes

\* Unmaps of the longer log.
LEMMA EndsGrow ==
  ASSUME NEW l \in Seq(Ops), NEW op \in Ops, NEW m \in 1..Len(l), NEW u \in 1..Len(l)
  PROVE  Ends(Append(l, op), m, u) <=> Ends(l, m, u)
<1>. DEFINE L == Append(l, op)
            p == l[m].page
<1>1. Len(l) \in Nat /\ Len(L) = Len(l) + 1 /\ L[m] = l[m]
  BY LogGrows
<1>2. \A j \in 1..Len(l) : Removes(L, j, p) <=> Removes(l, j, p)
  BY MapsGrow, Zenon
<1>3. Ends(l, m, u) <=> /\ m < u /\ Removes(l, u, p)
                        /\ \A j \in 1..Len(l) : m < j /\ j < u => ~Removes(l, j, p)
  BY Zenon DEF Ends
<1>4. Ends(L, m, u) <=> /\ m < u /\ Removes(L, u, p)
                        /\ \A j \in 1..(Len(l) + 1) : m < j /\ j < u => ~Removes(L, j, p)
  BY <1>1, Zenon DEF Ends
<1>. HIDE DEF L, p
<1>5. \A j \in 1..(Len(l) + 1) : j < u => j \in 1..Len(l)
  BY <1>1
<1>6. \A j \in 1..Len(l) : j \in 1..(Len(l) + 1)
  BY <1>1
<1>. QED
  BY <1>2, <1>3, <1>4, <1>5, <1>6, Zenon DEF L

\* The last operation of the longer log ends a mapping that was not ended.
LEMMA EndsLast ==
  ASSUME NEW l \in Seq(Ops), NEW op \in Ops, NEW m \in 1..Len(l)
  PROVE  Ends(Append(l, op), m, Len(l) + 1) <=>
            /\ op.kind = "unmap" /\ op.page = l[m].page
            /\ \A j \in 1..Len(l) : m < j => ~Removes(l, j, l[m].page)
<1>. DEFINE L == Append(l, op)
            p == l[m].page
            n == Len(l) + 1
<1>1. Len(l) \in Nat /\ Len(L) = n /\ L[m] = l[m] /\ L[n] = op
  BY LogGrows
<1>2. \A j \in 1..Len(l) : Removes(L, j, p) <=> Removes(l, j, p)
  BY MapsGrow, Zenon
<1>3. m < n /\ \A j \in 1..n : j < n <=> j \in 1..Len(l)
  BY <1>1
<1>4. \A j \in 1..Len(l) : j \in 1..n
  BY <1>1
<1>5. Removes(L, n, p) <=> op.kind = "unmap" /\ op.page = p
  BY <1>1, Zenon DEF Removes
<1>. HIDE DEF n
<1>6. Ends(L, m, n) <=> /\ Removes(L, n, p)
                        /\ \A j \in 1..n : m < j /\ j < n => ~Removes(L, j, p)
  BY <1>1, <1>3, Zenon DEF Ends
<1>. HIDE DEF L, p
<1>7. Ends(L, m, n) <=> /\ op.kind = "unmap" /\ op.page = p
                        /\ \A j \in 1..Len(l) : m < j => ~Removes(l, j, p)
  BY <1>2, <1>3, <1>4, <1>5, <1>6, Zenon
<1>. QED
  BY <1>7, Zenon DEF L, p, n

\* An operation that is not before its end has none.
LEMMA EndsAfter ==
  ASSUME NEW l, NEW m \in Nat, NEW u \in Nat, Ends(l, m, u)
  PROVE  m < u /\ m # u
BY DEF Ends

\* Cores of the process after the longer log.
LEMMA ActiveGrows ==
  ASSUME NEW l \in Seq(Ops), NEW op \in Ops, NEW c
  PROVE  Active(Append(l, op), c) <=> Active(l, c) \/ (op.kind = "assign" /\ op.core = c)
<1>. DEFINE L == Append(l, op)
            n == Len(l)
<1>1. /\ Len(L) = n + 1 /\ L[n + 1] = op /\ n + 1 \in 1..(n + 1)
      /\ \A j \in 1..n : j \in 1..(n + 1) /\ L[j] = l[j]
      /\ \A j \in 1..(n + 1) : j # n + 1 => j \in 1..n
  BY LogGrows
<1>. HIDE DEF L
<1>2. Active(L, c) <=> \E j \in 1..(n + 1) : L[j].kind = "assign" /\ L[j].core = c
  BY <1>1, Zenon DEF Active
<1>3. (\E j \in 1..(n + 1) : L[j].kind = "assign" /\ L[j].core = c)
      <=> (\E j \in 1..n : l[j].kind = "assign" /\ l[j].core = c) \/ (op.kind = "assign" /\ op.core = c)
  BY <1>1, Zenon
<1>. QED
  BY <1>2, <1>3, Zenon DEF L, Active

\* The conditions on the log, one operation at a time.
OpOK(op) ==
  /\ op.kind = "map" => op.page \in Pages /\ op.frame \in Nat
  /\ op.kind # "map" => op.frame = None

\* Every operation of the longer log has the right frame.
LEMMA OpsOKGrow ==
  ASSUME NEW l \in Seq(Ops), LogOK(l), NEW op \in Ops, OpOK(op)
  PROVE  \A j \in 1..Len(Append(l, op)) : OpOK(Append(l, op)[j])
<1>. DEFINE L == Append(l, op)
            n == Len(l)
<1>1. /\ Len(L) = n + 1 /\ L[n + 1] = op /\ \A j \in 1..n : L[j] = l[j]
      /\ \A j \in 1..(n + 1) : j # n + 1 => j \in 1..n
  BY LogGrows
<1>. HIDE DEF L
<1>2. \A j \in 1..n : OpOK(l[j])
  BY Zenon DEF LogOK, OpOK
<1>3. SUFFICES ASSUME NEW j \in 1..(n + 1) PROVE OpOK(L[j])
  BY <1>1, Zenon DEF L
<1>4. CASE j = n + 1
  BY <1>1, <1>4, Zenon
<1>5. CASE j # n + 1
  BY <1>1, <1>2, <1>5, Zenon
<1>. QED
  BY <1>4, <1>5, Zenon

\* The frames of the longer log.
LEMMA FramesGrow ==
  ASSUME NEW l \in Seq(Ops), NEW op \in Ops
  PROVE  Frames(Append(l, op)) = Frames(l) \cup ({op.frame} \ {None})
<1>. DEFINE L == Append(l, op)
            n == Len(l)
<1>1. /\ Len(L) = n + 1 /\ L[n + 1] = op
      /\ \A j \in 1..n : j \in 1..(n + 1) /\ L[j] = l[j]
      /\ n + 1 \in 1..(n + 1) /\ \A j \in 1..(n + 1) : j # n + 1 => j \in 1..n
  BY LogGrows
<1>. HIDE DEF L
<1>2. ASSUME NEW f PROVE f \in Frames(L) <=> f \in Frames(l) \/ (f = op.frame /\ f # None)
  <2>1. f \in Frames(L) <=> f # None /\ \E j \in 1..(n + 1) : f = L[j].frame
    BY <1>1, Zenon DEF Frames
  <2>2. (\E j \in 1..(n + 1) : f = L[j].frame) <=> (\E j \in 1..n : f = l[j].frame) \/ f = op.frame
    BY <1>1, Zenon
  <2>. QED
    BY <2>1, <2>2, Zenon DEF Frames
<1>. QED
  BY <1>2 DEF L

\* An operation that maps nothing.
LEMMA LogOKOther ==
  ASSUME NEW l \in Seq(Ops), LogOK(l), NEW op \in Ops, op.kind # "map", op.frame = None
  PROVE  LogOK(Append(l, op))
<1>. DEFINE L == Append(l, op)
            n == Len(l)
<1>1. /\ Len(L) = n + 1 /\ L[n + 1] = op
      /\ \A j \in 1..n : j \in 1..(n + 1) /\ L[j] = l[j]
      /\ \A j \in 1..(n + 1) : j # n + 1 => j \in 1..n
  BY LogGrows
<1>2. Frames(L) = Frames(l)
  <2>1. {op.frame} \ {None} = {}
    BY Zenon
  <2>2. Frames(L) = Frames(l) \cup ({op.frame} \ {None})
    BY FramesGrow, Zenon
  <2>. QED
    BY <2>1, <2>2
<1>3. \A j \in 1..(n + 1) : OpOK(L[j])
  BY <1>1, OpsOKGrow, Zenon DEF OpOK
<1>. HIDE DEF L
<1>4. \A j \in 1..(n + 1) : L[j].kind = "map" => j \in 1..n /\ l[j].kind = "map" /\ L[j] = l[j]
  BY <1>1, Zenon
<1>5. \A j, k \in 1..(n + 1) :
         L[j].kind = "map" /\ L[k].kind = "map" /\ L[j].frame = L[k].frame => j = k
  BY <1>4, Zenon DEF LogOK
<1>6. \A j, k \in 1..(n + 1) :
         L[j].kind = "map" /\ L[k].kind = "map" /\ L[j].page = L[k].page /\ j < k
         => \E u \in 1..(n + 1) : j < u /\ u < k /\ Removes(L, u, L[j].page)
  <2>1. SUFFICES ASSUME NEW j \in 1..(n + 1), NEW k \in 1..(n + 1), L[j].kind = "map",
                        L[k].kind = "map", L[j].page = L[k].page, j < k
                 PROVE  \E u \in 1..(n + 1) : j < u /\ u < k /\ Removes(L, u, L[j].page)
    BY Zenon
  <2>2. PICK u \in 1..n : j < u /\ u < k /\ Removes(l, u, l[j].page)
    BY <1>4, <2>1, Zenon DEF LogOK
  <2>. QED
    BY <1>1, <1>4, <2>1, <2>2, Zenon DEF Removes
<1>7. \E i \in Nat : Frames(L) = 1..i
  BY <1>2, Zenon DEF LogOK
<1>. QED
  BY <1>1, <1>3, <1>5, <1>6, <1>7, Zenon DEF LogOK, OpOK, L

\* A frame that was not mapped before, at a page that is not mapped.
LEMMA LogOKMap ==
  ASSUME NEW l \in Seq(Ops), LogOK(l), NEW op \in Ops, op.kind = "map", op.page \in Pages,
         op.frame = Cardinality(Frames(l)) + 1,
         \A j \in 1..Len(l) : l[j].kind = "map" /\ l[j].page = op.page =>
             \E u \in 1..Len(l) : j < u /\ Removes(l, u, op.page)
  PROVE  LogOK(Append(l, op)) /\ op.frame \in Nat
<1>. DEFINE L == Append(l, op)
            n == Len(l)
<1>1. /\ Len(L) = n + 1 /\ L[n + 1] = op /\ n \in Nat
      /\ \A j \in 1..n : j \in 1..(n + 1) /\ L[j] = l[j]
      /\ \A j \in 1..(n + 1) : j # n + 1 => j \in 1..n
  BY LogGrows
<1>a. PICK i \in Nat : Frames(l) = 1..i
  BY Zenon DEF LogOK
<1>b. Cardinality(Frames(l)) = i
  BY <1>a, FS_Interval
<1>c. op.frame = i + 1 /\ op.frame \in Nat /\ op.frame \notin Frames(l)
  BY <1>a, <1>b
<1>2. op.frame # None
  BY <1>c, TlbAssumption, Zenon
<1>d. Frames(L) = Frames(l) \cup {op.frame}
  BY <1>2, FramesGrow, Zenon
<1>e. Frames(L) = 1..(i + 1)
  BY <1>a, <1>c, <1>d
<1>3. \A j \in 1..(n + 1) : OpOK(L[j])
  BY <1>1, <1>c, OpsOKGrow, Zenon DEF OpOK
<1>. HIDE DEF L
<1>f. \A j \in 1..n : l[j].frame # op.frame
  BY <1>2, <1>c, Zenon DEF Frames
<1>5. ASSUME NEW j \in 1..(n + 1), NEW k \in 1..(n + 1),
             L[j].kind = "map", L[k].kind = "map", L[j].frame = L[k].frame
      PROVE  j = k
  <2>1. CASE j \in 1..n /\ k \in 1..n
    BY <1>1, <1>5, <2>1, Zenon DEF LogOK
  <2>2. CASE j = n + 1
    BY <1>1, <1>5, <1>f, <2>2, Zenon
  <2>3. CASE k = n + 1
    BY <1>1, <1>5, <1>f, <2>3, Zenon
  <2>. QED
    BY <1>1, <2>1, <2>2, <2>3, Zenon
<1>6. ASSUME NEW j \in 1..(n + 1), NEW k \in 1..(n + 1),
             L[j].kind = "map", L[k].kind = "map", L[j].page = L[k].page, j < k
      PROVE  \E u \in 1..(n + 1) : j < u /\ u < k /\ Removes(L, u, L[j].page)
  <2>1. j \in 1..n /\ L[j] = l[j]
    BY <1>1, <1>6
  <2>2. CASE k \in 1..n
    <3>1. PICK u \in 1..n : j < u /\ u < k /\ Removes(l, u, l[j].page)
      BY <1>1, <1>6, <2>1, <2>2, Zenon DEF LogOK
    <3>. QED
      BY <1>1, <2>1, <3>1, Zenon DEF Removes
  <2>3. CASE k = n + 1
    <3>1. l[j].kind = "map" /\ l[j].page = op.page
      BY <1>1, <1>6, <2>1, <2>3, Zenon
    <3>2. PICK u \in 1..n : j < u /\ Removes(l, u, op.page)
      BY <2>1, <3>1, Zenon
    <3>3. u < k
      BY <1>1, <2>3
    <3>. QED
      BY <1>1, <2>1, <3>1, <3>2, <3>3, Zenon DEF Removes
  <2>. QED
    BY <1>1, <2>2, <2>3, Zenon
<1>7. \E b \in Nat : Frames(L) = 1..b
  <2>1. i + 1 \in Nat
    OBVIOUS
  <2>. QED
    BY <1>e, <2>1, Zenon
<1>. QED
  BY <1>1, <1>3, <1>5, <1>6, <1>7, <1>c, Zenon DEF LogOK, OpOK, L

\* The node of the caller executes an operation at once.
LEMMA LocalGrows ==
  ASSUME NEW l \in Seq(Ops), NEW op \in Ops, NEW done \in [Nodes -> Nat], Local(l, done)
  PROVE  /\ Local(Append(l, op), [done EXCEPT ![NodeOf[op.core]] = Len(l) + 1])
         /\ [done EXCEPT ![NodeOf[op.core]] = Len(l) + 1] \in [Nodes -> Nat]
<1>. DEFINE L == Append(l, op)
            n == Len(l)
            D == [done EXCEPT ![NodeOf[op.core]] = n + 1]
<1>1. /\ Len(L) = n + 1 /\ L[n + 1] = op /\ n \in Nat
      /\ \A j \in 1..n : j \in 1..(n + 1) /\ L[j] = l[j]
      /\ \A j \in 1..(n + 1) : j # n + 1 => j \in 1..n
  BY LogGrows
<1>2. op.core \in Cores /\ NodeOf[op.core] \in Nodes
  BY DEF Ops, Nodes
<1>3. n + 1 \in Nat /\ n <= n + 1 /\ n + 1 <= n + 1 /\ \A j \in 1..(n + 1) : j <= n + 1
  BY <1>1
<1>4. \A k \in Nodes : D[k] = IF k = NodeOf[op.core] THEN n + 1 ELSE done[k]
  BY Zenon
<1>5. D \in [Nodes -> Nat]
  BY <1>2, <1>3
<1>. HIDE DEF L, D
<1>6. ASSUME NEW k \in Nodes PROVE D[k] <= n + 1
  <2>1. done[k] \in Nat /\ done[k] <= n
    BY Zenon DEF Local
  <2>2. done[k] <= n + 1
    BY <1>1, <2>1
  <2>. QED
    BY <1>3, <1>4, <2>2, Zenon
<1>7. ASSUME NEW j \in 1..(n + 1) PROVE j <= D[NodeOf[L[j].core]]
  <2>1. CASE j = n + 1
    BY <1>1, <1>2, <1>3, <1>4, <2>1, Zenon
  <2>2. CASE j # n + 1
    <3>1. j \in 1..n /\ L[j] = l[j]
      BY <1>1, <2>2, Zenon
    <3>2. l[j] \in Ops
      BY <3>1, SeqFacts, Zenon
    <3>3. NodeOf[l[j].core] \in Nodes
      BY <3>2 DEF Ops, Nodes
    <3>4. j <= done[NodeOf[l[j].core]]
      BY <3>1, Zenon DEF Local
    <3>. QED
      BY <1>3, <1>4, <3>1, <3>3, <3>4, Zenon
  <2>. QED
    BY <2>1, <2>2, Zenon
<1>. QED
  BY <1>1, <1>5, <1>6, <1>7, Zenon DEF Local, L, D

\* A frame is mapped once and removed once.
LEMMA EndUnique ==
  ASSUME NEW l \in Seq(Ops), LogOK(l),
         NEW m \in 1..Len(l), NEW u \in 1..Len(l), l[m].kind = "map", Ends(l, m, u),
         NEW k \in 1..Len(l), NEW v \in 1..Len(l), l[k].kind = "map", Ends(l, k, v),
         l[m].frame = l[k].frame
  PROVE  m = k /\ u = v
<1>1. m = k
  BY Zenon DEF LogOK
<1>2. Len(l) \in Nat
  BY SeqFacts, Zenon
<1>3. ~(u < v) /\ ~(v < u)
  BY <1>1, Zenon DEF Ends
<1>. QED
  BY <1>1, <1>2, <1>3

-----------------------------------------------------------------------------
(***************************************************************************)
(* The invariant says what is wanted                                        *)
(***************************************************************************)

\* UnmapNode finds the node of the operation that removed the frame.
LEMMA UnmapNodeIs ==
  ASSUME log \in Seq(Ops), LogOK(log), NEW f,
         NEW m \in 1..Len(log), NEW u \in 1..Len(log),
         log[m].kind = "map", log[m].frame = f, Ends(log, m, u)
  PROVE  UnmapNode(f) = NodeOf[log[u].core]
<1>. DEFINE k == CHOOSE j \in 1..Len(log) : log[j].kind = "map" /\ log[j].frame = f
            S == {j \in m..Len(log) : log[j].kind = "unmap" /\ log[j].page = log[m].page}
<1>1. k \in 1..Len(log) /\ log[k].kind = "map" /\ log[k].frame = f
  BY Zenon
<1>2. k = m
  BY <1>1, Zenon DEF LogOK
<1>3. UnmapNode(f) = NodeOf[log[Min(S)].core]
  BY <1>2, Zenon DEF UnmapNode
<1>4. Len(log) \in Nat
  BY SeqFacts, Zenon
<1>5. u \in S
  <2>1. m < u /\ Removes(log, u, log[m].page)
    BY Zenon DEF Ends
  <2>2. u \in m..Len(log)
    BY <1>4, <2>1
  <2>. QED
    BY <2>1, <2>2, Zenon DEF Removes
<1>6. S \in SUBSET Nat /\ S # {}
  BY <1>4, <1>5
<1>7. Min(S) \in S /\ Min(S) <= u
  <2>. HIDE DEF S
  <2>. QED
    BY <1>5, <1>6, MinIs, Zenon
<1>. DEFINE v == Min(S)
<1>8. v \in 1..Len(log) /\ m <= v /\ v <= u /\ log[v].kind = "unmap" /\ log[v].page = log[m].page
  BY <1>4, <1>7
<1>. HIDE DEF v, S
<1>9. m < v
  BY <1>4, <1>8
<1>10. ~(v < u)
  BY <1>8, <1>9, Zenon DEF Ends, Removes
<1>11. v = u
  BY <1>4, <1>8, <1>10
<1>. QED
  BY <1>3, <1>11, Zenon DEF v

\* In states of the invariant no core of the node is left with a translation.
LEMMA NoneStale == IInv => NoStaleTranslation
<1>1. SUFFICES ASSUME IInv, NEW c \in Cores, NEW p \in Pages, pc[c] = "user",
                      tlb[c][p] \in retired, NodeOf[c] = UnmapNode(tlb[c][p])
               PROVE  FALSE
  BY Zenon DEF NoStaleTranslation
<1>. DEFINE f == tlb[c][p]
<1>2. log \in Seq(Ops) /\ LogOK(log)
  BY <1>1, Zenon DEF IInv, TypeOK
<1>3. PICK m \in 1..Len(log), u \in 1..Len(log) :
        log[m].kind = "map" /\ log[m].frame = f /\ Ends(log, m, u)
  BY <1>1, Zenon DEF IInv, Returned
<1>4. NodeOf[c] = NodeOf[log[u].core]
  BY <1>1, <1>2, <1>3, UnmapNodeIs, Zenon
<1>5. f # None
  <2>1. f \in Nat
    BY <1>2, <1>3, Zenon DEF LogOK
  <2>. QED
    BY <2>1, TlbAssumption, Zenon
<1>6. Maps(log, m, p, f)
  <2>1. PICK k \in 1..Len(log) : Maps(log, k, p, f)
    BY <1>1, <1>5, Zenon DEF IInv, Loaded
  <2>2. k = m
    BY <1>2, <1>3, <2>1, Zenon DEF LogOK, Maps
  <2>. QED
    BY <2>1, <2>2, Zenon
<1>7. Guarded(c, p, log[u].core)
  BY <1>1, <1>3, <1>4, <1>5, <1>6, Zenon DEF IInv, Covered
<1>8. log[u].core \in Cores
  <2>1. log[u] \in Ops
    BY <1>2, SeqFacts, Zenon
  <2>. QED
    BY <2>1 DEF Ops
<1>. DEFINE i == log[u].core
<1>9. InShootdown(i) /\ target[i] = f
  BY <1>1, <1>7 DEF Guarded
<1>. QED
  BY <1>1, <1>8, <1>9, Zenon DEF IInv, Unfinished

-----------------------------------------------------------------------------
(***************************************************************************)
(* The queues                                                               *)
(***************************************************************************)

\* Taking the first item out leaves the others as they were.
LEMMA AwaitedTail ==
  ASSUME NEW q \in Seq(Items), q # <<>>, NEW c, NEW A, NEW P, Awaited(q, c, A, P)
  PROVE  Awaited(Tail(q), c, A, P)
<1>1. /\ Tail(q) \in Seq(Items) /\ Len(Tail(q)) = Len(q) - 1
      /\ \A k \in 1..Len(Tail(q)) : k + 1 \in 1..Len(q) /\ Tail(q)[k] = q[k + 1]
  BY TailFacts, Zenon
<1>. DEFINE t == Tail(q)
<1>. HIDE DEF t
<1>2. \A k \in 1..Len(t) : k + 1 \in 1..Len(q) /\ t[k] = q[k + 1]
  BY <1>1, Zenon DEF t
<1>3. \A k \in 1..Len(t) :
          t[k].kind = "shootdown" =>
              /\ t[k].from \in Cores /\ c \in A[t[k].from]
              /\ t[k].page = P[t[k].from]
  BY <1>2, Zenon DEF Awaited
<1>4. ASSUME NEW j \in 1..Len(t), NEW k \in 1..Len(t),
             t[j].kind = "shootdown", t[k].kind = "shootdown", t[j].from = t[k].from
      PROVE  j = k
  <2>0. \A a, b \in 1..Len(q) :
          q[a].kind = "shootdown" /\ q[b].kind = "shootdown" /\ q[a].from = q[b].from => a = b
    BY Zenon DEF Awaited
  <2>1. j + 1 \in 1..Len(q) /\ k + 1 \in 1..Len(q) /\ t[j] = q[j + 1] /\ t[k] = q[k + 1]
    BY <1>2, Zenon
  <2>2. j + 1 = k + 1
    BY <1>4, <2>0, <2>1, Zenon
  <2>. QED
    BY <2>2
<1>. QED
  BY <1>3, <1>4, Zenon DEF Awaited, t

\* Another item at the end.
LEMMA AwaitedOther ==
  ASSUME NEW q \in Seq(Items), NEW it \in Items, it.kind # "shootdown",
         NEW c, NEW A, NEW P, Awaited(q, c, A, P)
  PROVE  Awaited(Append(q, it), c, A, P)
<1>. DEFINE t == Append(q, it)
            n == Len(q)
<1>1. /\ Len(t) = n + 1 /\ t[n + 1] = it /\ \A k \in 1..n : t[k] = q[k]
      /\ n \in Nat
  BY AppendFacts, SeqFacts
<1>2. \A k \in 1..(n + 1) : k # n + 1 => k \in 1..n
  BY <1>1
<1>. HIDE DEF t, n
<1>3. \A k \in 1..(n + 1) : t[k].kind = "shootdown" => k \in 1..n /\ t[k] = q[k]
  BY <1>1, <1>2, Zenon
<1>4. \A k \in 1..n :
          q[k].kind = "shootdown" =>
              q[k].from \in Cores /\ c \in A[q[k].from] /\ q[k].page = P[q[k].from]
  BY Zenon DEF Awaited, n
<1>5. \A j, k \in 1..n :
          q[j].kind = "shootdown" /\ q[k].kind = "shootdown" /\ q[j].from = q[k].from => j = k
  BY Zenon DEF Awaited, n
<1>6. \A k \in 1..(n + 1) :
          t[k].kind = "shootdown" =>
              t[k].from \in Cores /\ c \in A[t[k].from] /\ t[k].page = P[t[k].from]
  BY <1>3, <1>4, Zenon
<1>7. \A j, k \in 1..(n + 1) :
          t[j].kind = "shootdown" /\ t[k].kind = "shootdown" /\ t[j].from = t[k].from => j = k
  BY <1>3, <1>5, Zenon
<1>. QED
  BY <1>1, <1>6, <1>7, Zenon DEF Awaited, t

\* The acknowledgement of core c is waited for as long as before.
LEMMA AwaitedKept ==
  ASSUME NEW q, NEW c, NEW A, NEW P, NEW B, NEW R, Awaited(q, c, A, P),
         \A j \in Cores : c \in A[j] => c \in B[j] /\ R[j] = P[j]
  PROVE  Awaited(q, c, B, R)
<1>1. \A k \in 1..Len(q) :
          q[k].kind = "shootdown" =>
              q[k].from \in Cores /\ c \in B[q[k].from] /\ q[k].page = R[q[k].from]
  BY Zenon DEF Awaited
<1>. QED
  BY <1>1, Zenon DEF Awaited

\* The shootdown of core i is queued when it begins to wait for core c.
LEMMA AwaitedNew ==
  ASSUME NEW q \in Seq(Items), NEW it \in Items, NEW i \in Cores,
         it.kind = "shootdown", it.from = i,
         NEW c, NEW A, NEW B, NEW P, Awaited(q, c, A, P), it.page = P[i],
         c \notin A[i], c \in B[i], \A j \in Cores : c \in A[j] => c \in B[j]
  PROVE  Awaited(Append(q, it), c, B, P)
<1>. DEFINE t == Append(q, it)
            n == Len(q)
<1>1. /\ Len(t) = n + 1 /\ t[n + 1] = it /\ \A k \in 1..n : t[k] = q[k]
      /\ n \in Nat
  BY AppendFacts, SeqFacts
<1>2. \A k \in 1..(n + 1) : k # n + 1 => k \in 1..n
  BY <1>1
<1>. HIDE DEF t, n
<1>3. \A k \in 1..n : q[k].kind = "shootdown" =>
          /\ q[k].from \in Cores /\ c \in B[q[k].from] /\ q[k].page = P[q[k].from]
          /\ q[k].from # i
  BY Zenon DEF Awaited, n
<1>4. \A k \in 1..(n + 1) :
          t[k].kind = "shootdown" =>
              t[k].from \in Cores /\ c \in B[t[k].from] /\ t[k].page = P[t[k].from]
  BY <1>1, <1>2, <1>3, Zenon
<1>5. ASSUME NEW j \in 1..(n + 1), NEW k \in 1..(n + 1),
             t[j].kind = "shootdown", t[k].kind = "shootdown", t[j].from = t[k].from
      PROVE  j = k
  <2>1. CASE j \in 1..n /\ k \in 1..n
    BY <1>1, <1>5, <2>1, Zenon DEF Awaited, n
  <2>2. CASE j = n + 1
    BY <1>1, <1>2, <1>3, <1>5, <2>2, Zenon
  <2>3. CASE k = n + 1
    BY <1>1, <1>2, <1>3, <1>5, <2>3, Zenon
  <2>. QED
    BY <1>2, <2>1, <2>2, <2>3, Zenon
<1>. QED
  BY <1>1, <1>4, <1>5, Zenon DEF Awaited, t

\* The acknowledgement goes with the item.
LEMMA AwaitedPop ==
  ASSUME NEW q \in Seq(Items), q # <<>>, Head(q).kind = "shootdown",
         NEW c, NEW A, NEW P, NEW B, Awaited(q, c, A, P),
         \A j \in Cores : j # Head(q).from => B[j] = A[j]
  PROVE  Awaited(Tail(q), c, B, P)
<1>1. /\ Head(q) = q[1] /\ 1 \in 1..Len(q)
      /\ \A k \in 1..Len(Tail(q)) : k + 1 \in 1..Len(q) /\ Tail(q)[k] = q[k + 1]
  BY TailFacts, Zenon
<1>2. Awaited(Tail(q), c, A, P)
  BY AwaitedTail, Zenon
<1>. DEFINE t == Tail(q)
<1>3. Len(t) \in Nat
  BY TailFacts, SeqFacts, Zenon
<1>4. ASSUME NEW k \in 1..Len(t), t[k].kind = "shootdown" PROVE t[k].from # q[1].from
  <2>1. k + 1 # 1
    BY <1>3
  <2>. QED
    BY <1>1, <1>4, <2>1, Zenon DEF Awaited
<1>. HIDE DEF t
<1>5. \A k \in 1..Len(t) :
          t[k].kind = "shootdown" =>
              t[k].from \in Cores /\ c \in B[t[k].from] /\ t[k].page = P[t[k].from]
  <2>1. SUFFICES ASSUME NEW k \in 1..Len(t), t[k].kind = "shootdown"
                 PROVE  t[k].from \in Cores /\ c \in B[t[k].from] /\ t[k].page = P[t[k].from]
    BY Zenon
  <2>2. t[k].from \in Cores /\ c \in A[t[k].from] /\ t[k].page = P[t[k].from]
    BY <1>2, <2>1, Zenon DEF Awaited, t
  <2>3. B[t[k].from] = A[t[k].from]
    BY <1>1, <1>4, <2>1, <2>2, Zenon
  <2>. QED
    BY <2>2, <2>3, Zenon
<1>. QED
  BY <1>2, <1>5, Zenon DEF Awaited, t
=============================================================================
