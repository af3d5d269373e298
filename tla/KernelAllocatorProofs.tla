----------------------- MODULE KernelAllocatorProofs -----------------------
(***************************************************************************)
(* Proofs about the physical allocator, for any number of cores, nodes and *)
(* frames, and any capacities that satisfy AllocatorAssumption.            *)
(***************************************************************************)
EXTENDS KernelAllocator, FiniteSetTheorems, TLAPS

FrameTypes ==
    /\ ncache \in [Nodes -> SUBSET Frames]
    /\ tcache \in [Cores -> [Nodes -> SUBSET Frames]]
    /\ zone \subseteq Frames
    /\ objects \subseteq Large
    /\ mapped \subseteq Frames
    /\ label \in [Frames -> Nodes]
    /\ affinity \in [Cores -> Nodes]

TypeOK ==
    /\ FrameTypes
    /\ req \in [Cores -> Requests \cup {None}]
    /\ panic \in {None, "dealloc"}

\* Caches hold frames labelled with their node.
LabelKept ==
    /\ \A n \in Nodes : \A f \in ncache[n] : label[f] = n
    /\ \A c \in Cores, n \in Nodes : \A f \in tcache[c][n] : label[f] = n

\* What is in no cache: zone allocators, objects and mapped frames.
Used == zone \cup objects \cup mapped

\* No frame is lost.
Somewhere ==
    \A f \in Frames : \/ f \in Used
                      \/ f \in ncache[label[f]]
                      \/ \E c \in Cores : f \in tcache[c][label[f]]

\* And none is in two places.
Apart ==
    /\ zone \cap objects = {} /\ zone \cap mapped = {} /\ objects \cap mapped = {}
    /\ \A n \in Nodes : ncache[n] \cap Used = {}
    /\ \A c \in Cores, n \in Nodes :
          /\ tcache[c][n] \cap Used = {}
          /\ tcache[c][n] \cap ncache[n] = {}
          /\ \A d \in Cores \ {c} : tcache[c][n] \cap tcache[d][n] = {}

\* A TCache is never over its capacity.
Fits(S) == Cardinality(S \cap Base) <= TCacheBase /\ Cardinality(S \cap Large) <= TCacheLarge
NotOverfilled == \A c \in Cores, n \in Nodes : Fits(tcache[c][n])

Owned == FrameTypes /\ LabelKept /\ Somewhere /\ Apart /\ NotOverfilled

\* What an allocation in progress asks for, and what it has seen: no other
\* core touches the TCache, so it is still so.
PendingOf(c) ==
    req[c] # None =>
        /\ req[c].kind = "zone" => req[c].need \in {<<1, 0>>, <<0, 1>>}
        /\ req[c].kind = "large" => req[c].need = <<0, 1>>
        /\ req[c].kind = "big" => req[c].need \in BigSizes
        /\ req[c].kind = "dispatchers" => ~req[c].refill
        /\ req[c].kind # "big" /\ req[c].refill => req[c].tries = 0
        /\ req[c].kind = "large" /\ req[c].refill => Mine(c) \cap Large = {}
        /\ req[c].kind = "large" /\ ~req[c].refill /\ req[c].tries # 0 => Mine(c) \cap Large # {}

Pending == \A c \in Cores : PendingOf(c)

IInv == TypeOK /\ Owned /\ Pending

-----------------------------------------------------------------------------
(* Sets of frames.                                                         *)

\* Sets of frames are finite.
LEMMA FramesFinite ==
    ASSUME NEW S \in SUBSET Frames
    PROVE  IsFiniteSet(S) /\ Cardinality(S) \in Nat
  BY AllocatorAssumption, FS_Union, FS_Subset, FS_CardinalityType, Zenon DEF Frames

\* A part of a set of frames has no more frames.
LEMMA CardinalityPart ==
    ASSUME NEW S \in SUBSET Frames, NEW T \in SUBSET S
    PROVE  Cardinality(T) <= Cardinality(S)
  BY FramesFinite, FS_Subset, Zenon

\* The frames of disjoint sets add up.
LEMMA CardinalitySum ==
    ASSUME NEW S \in SUBSET Frames, NEW T \in SUBSET Frames, S \cap T = {}
    PROVE  Cardinality(S \cup T) = Cardinality(S) + Cardinality(T)
  <1>1. IsFiniteSet(S) /\ IsFiniteSet(T) /\ Cardinality(S) \in Nat /\ Cardinality(T) \in Nat
    BY FramesFinite, Zenon
  <1>2. Cardinality(S \cup T) = Cardinality(S) + Cardinality(T) - Cardinality(S \cap T)
    BY <1>1, FS_Union, Zenon
  <1>3. Cardinality(S \cap T) = 0
    BY FS_EmptySet, Zenon
  <1>4. QED
    BY <1>1, <1>2, <1>3

\* What try_refill_tcache moves comes from the NCache, does not overfill the
\* TCache, and makes it have what was asked for if the NCache had enough.
LEMMA MovesFit ==
    ASSUME Owned, NEW c \in Cores, NEW b \in Nat, NEW l \in Nat, NEW S \in Moves(c, b, l)
    PROVE  /\ S \subseteq Global(c)
           /\ Fits(Mine(c) \cup S)
           /\ Enough(c, b, l) =>
                 \A i, j \in Nat : i <= b /\ i <= TCacheBase /\ j <= l /\ j <= TCacheLarge
                                  => Has(Mine(c) \cup S, i, j)
  <1> DEFINE mb == Mine(c) \cap Base
             ml == Mine(c) \cap Large
             gb == Global(c) \cap Base
             gl == Global(c) \cap Large
  <1>0. /\ affinity[c] \in Nodes /\ Mine(c) \subseteq Frames /\ Global(c) \subseteq Frames
        /\ Mine(c) \cap Global(c) = {} /\ Base \cap Large = {} /\ Fits(Mine(c))
    BY AllocatorAssumption DEF Owned, FrameTypes, Apart, NotOverfilled, Mine, Global
  <1>1. PICK B \in SUBSET gb, L \in SUBSET gl :
          /\ S = B \cup L
          /\ Cardinality(B) = Least(Cardinality(gb), AmountBase(c, b))
          /\ Cardinality(L) = IF Cardinality(gb) >= AmountBase(c, b)
                               THEN Least(Cardinality(gl), AmountLarge(c, l)) ELSE 0
    BY DEF Moves
  <1>2. /\ (Mine(c) \cup S) \cap Base = mb \cup B
        /\ (Mine(c) \cup S) \cap Large = ml \cup L
        /\ mb \cap B = {} /\ ml \cap L = {}
    BY <1>0, <1>1, Zenon
  <1>3. /\ mb \in SUBSET Frames /\ ml \in SUBSET Frames /\ gb \in SUBSET Frames
        /\ gl \in SUBSET Frames /\ B \in SUBSET Frames /\ L \in SUBSET Frames
    BY <1>0, <1>1, Zenon DEF Frames
  <1>4. /\ Cardinality(mb) \in Nat /\ Cardinality(ml) \in Nat
        /\ Cardinality(gb) \in Nat /\ Cardinality(gl) \in Nat
    BY <1>3, FramesFinite, Zenon
  <1>5. /\ Cardinality((Mine(c) \cup S) \cap Base) = Cardinality(mb) + Cardinality(B)
        /\ Cardinality((Mine(c) \cup S) \cap Large) = Cardinality(ml) + Cardinality(L)
    BY <1>2, <1>3, CardinalitySum, Zenon
  <1>6. Cardinality(mb) <= TCacheBase /\ Cardinality(ml) <= TCacheLarge
    BY <1>0, Zenon DEF Fits
  <1>7. /\ AmountBase(c, b) = Least(TCacheBase - Cardinality(mb), b)
        /\ AmountLarge(c, l) = Least(TCacheLarge - Cardinality(ml), l)
    BY Zenon DEF AmountBase, AmountLarge, Amount
  <1>8. TCacheBase \in Nat /\ TCacheLarge \in Nat
    BY AllocatorAssumption, Zenon
  <1> HIDE DEF mb, ml, gb, gl
  <1>9. Fits(Mine(c) \cup S)
    BY <1>1, <1>4, <1>5, <1>6, <1>7, <1>8 DEF Fits, Least
  <1>10. ASSUME Enough(c, b, l), NEW i \in Nat, NEW j \in Nat,
                i <= b, i <= TCacheBase, j <= l, j <= TCacheLarge
         PROVE  Has(Mine(c) \cup S, i, j)
    <2>1. Cardinality(gb) >= AmountBase(c, b) /\ Cardinality(gl) >= AmountLarge(c, l)
      BY <1>10, Zenon DEF Enough, gb, gl
    <2>2. Cardinality(B) = AmountBase(c, b) /\ Cardinality(L) = AmountLarge(c, l)
      BY <1>1, <1>4, <1>6, <1>7, <1>8, <2>1 DEF Least
    <2>3. QED
      BY <1>4, <1>5, <1>6, <1>7, <1>8, <1>10, <2>2 DEF Has, Least
  <1>11. S \subseteq Global(c)
    BY <1>1, Zenon DEF gb, gl
  <1>12. QED
    BY <1>9, <1>10, <1>11, Zenon

\* The same for maybe_refill_tcache, which may have nothing to do.
LEMMA MaybeMovesFit ==
    ASSUME Owned, NEW c \in Cores, NEW b \in Nat, NEW l \in Nat, NEW S \in MaybeMoves(c, b, l)
    PROVE  /\ S \subseteq Global(c)
           /\ Fits(Mine(c) \cup S)
           /\ MaybeEnough(c, b, l) /\ b <= TCacheBase /\ l <= TCacheLarge
                 => Has(Mine(c) \cup S, b, l)
  <1>1. CASE Short(c, b, l)
    <2>1. S \in Moves(c, b, l) /\ (MaybeEnough(c, b, l) => Enough(c, b, l))
      BY <1>1, Zenon DEF MaybeMoves, MaybeEnough
    <2>2. /\ S \subseteq Global(c) /\ Fits(Mine(c) \cup S)
          /\ Enough(c, b, l) =>
                \A i, j \in Nat : i <= b /\ i <= TCacheBase /\ j <= l /\ j <= TCacheLarge
                                 => Has(Mine(c) \cup S, i, j)
      BY <2>1, MovesFit, Zenon
    <2>3. b <= b /\ l <= l
      OBVIOUS
    <2>4. QED
      BY <2>1, <2>2, <2>3, Zenon
  <1>2. CASE ~Short(c, b, l)
    <2>1. S = {} /\ Mine(c) \cup S = Mine(c)
      BY <1>2, Zenon DEF MaybeMoves
    <2>2. Mine(c) \in SUBSET Frames /\ Fits(Mine(c))
      <3>1. affinity[c] \in Nodes /\ tcache[c][affinity[c]] \in SUBSET Frames
        BY DEF Owned, FrameTypes
      <3>2. QED
        BY <3>1, Zenon DEF Owned, NotOverfilled, Mine
    <2>3. Cardinality(Mine(c) \cap Base) \in Nat /\ Cardinality(Mine(c) \cap Large) \in Nat
      BY <2>2, FramesFinite, Zenon
    <2>4. Has(Mine(c), b, l)
      BY <1>2, <2>3 DEF Short, Has
    <2>5. QED
      BY <2>1, <2>2, <2>4, Zenon
  <1>3. QED
    BY <1>1, <1>2, Zenon

-----------------------------------------------------------------------------
(* Frames S come into the TCache of a core and M, Z and O are handed out.  *)

\* Such a step leaves every frame in one place.
LEMMA Transfer ==
    ASSUME Owned, NEW c \in Cores, NEW S, NEW T, NEW M, NEW Z, NEW O,
           T = M \cup Z \cup O, S \subseteq Global(c), Fits(Mine(c) \cup S), T \subseteq Mine(c) \cup S, O \subseteq Large,
           M \cap Z = {}, M \cap O = {}, Z \cap O = {},
           Refill(c, S, T),
           mapped' = mapped \cup M, zone' = zone \cup Z, objects' = objects \cup O,
           UNCHANGED <<label, affinity>>
    PROVE  Owned'
  <1> DEFINE a == affinity[c]
  <1>0. /\ a \in Nodes /\ Mine(c) = tcache[c][a] /\ Global(c) = ncache[a]
        /\ Mine(c) \subseteq Frames /\ Global(c) \subseteq Frames
        /\ tcache \in [Cores -> [Nodes -> SUBSET Frames]] /\ ncache \in [Nodes -> SUBSET Frames]
        /\ zone \subseteq Frames /\ mapped \subseteq Frames /\ objects \subseteq Large
        /\ affinity \in [Cores -> Nodes] /\ label \in [Frames -> Nodes]
    BY DEF Owned, FrameTypes, Mine, Global
  <1>1. /\ ncache' = [ncache EXCEPT ![a] = @ \ S]
        /\ tcache' = [tcache EXCEPT ![c][a] = (@ \cup S) \ T]
    BY Zenon DEF Refill
  <1> HIDE DEF a
  <1>2. /\ \A n \in Nodes : ncache'[n] = IF n = a THEN ncache[n] \ S ELSE ncache[n]
        /\ \A d \in Cores, n \in Nodes :
              tcache'[d][n] = IF d = c /\ n = a THEN (Mine(c) \cup S) \ T ELSE tcache[d][n]
    BY <1>0, <1>1, Zenon
  <1>3. /\ S \subseteq ncache[a] /\ T \subseteq tcache[c][a] \cup S
        /\ Used' = Used \cup T
    BY <1>0, Zenon DEF Used
  <1>4. FrameTypes'
    <2>1. ncache' \in [Nodes -> SUBSET Frames] /\ tcache' \in [Cores -> [Nodes -> SUBSET Frames]]
      BY <1>0, <1>1, <1>3, Zenon
    <2>2. M \subseteq Frames /\ Z \subseteq Frames
      BY <1>0, Zenon
    <2>3. QED
      BY <1>0, <2>1, <2>2, Zenon DEF FrameTypes
  <1>5. /\ \A n \in Nodes : \A f \in ncache[n] : label[f] = n /\ f \notin Used
        /\ \A d \in Cores, n \in Nodes : \A f \in tcache[d][n] :
              /\ label[f] = n /\ f \notin Used /\ f \notin ncache[n]
              /\ \A e \in Cores \ {d} : f \notin tcache[e][n]
    BY Zenon DEF Owned, LabelKept, Apart
  <1>6. /\ \A n \in Nodes : \A f \in ncache'[n] : f \in ncache[n] /\ f \notin S /\ f \notin T
        /\ \A d \in Cores, n \in Nodes : \A f \in tcache'[d][n] :
              /\ f \notin T
              /\ f \in tcache[d][n] \/ (f \in S /\ d = c /\ n = a)
    <2>1. ASSUME NEW n \in Nodes, NEW f \in ncache'[n]
          PROVE  f \in ncache[n] /\ f \notin S /\ f \notin T
      <3>1. f \in ncache[n] /\ (n = a => f \notin S)
        BY <1>2, <2>1, Zenon
      <3>2. f \in S \cup T => label[f] = a
        BY <1>0, <1>3, <1>5, Zenon
      <3>3. n = a => f \notin tcache[c][a]
        BY <1>0, <1>5, <3>1, Zenon
      <3>4. QED
        BY <1>0, <1>3, <1>5, <3>1, <3>2, <3>3, Zenon
    <2>2. ASSUME NEW d \in Cores, NEW n \in Nodes, NEW f \in tcache'[d][n]
          PROVE  f \notin T /\ (f \in tcache[d][n] \/ (f \in S /\ d = c /\ n = a))
      <3>1. CASE d = c /\ n = a
        BY <1>0, <1>2, <2>2, <3>1, Zenon
      <3>2. CASE ~(d = c /\ n = a)
        <4>1. f \in tcache[d][n]
          BY <1>2, <2>2, <3>2, Zenon
        <4>2. label[f] = n /\ (f \in T => label[f] = a)
          BY <1>0, <1>3, <1>5, <4>1, Zenon
        <4>3. n = a => f \notin tcache[c][a] /\ f \notin ncache[a]
          BY <1>5, <3>2, <4>1, Zenon
        <4>4. QED
          BY <1>3, <4>1, <4>2, <4>3, Zenon
      <3>3. QED
        BY <3>1, <3>2, Zenon
    <2>3. QED
      BY <2>1, <2>2, Zenon
  <1>7. LabelKept'
    BY <1>0, <1>3, <1>5, <1>6 DEF LabelKept
  <1>8. Somewhere'
    <2> SUFFICES ASSUME NEW f \in Frames, f \notin Used', f \notin ncache'[label[f]]
                 PROVE  \E d \in Cores : f \in tcache'[d][label[f]]
      BY Zenon DEF Somewhere
    <2>1. label[f] \in Nodes /\ f \notin Used /\ f \notin T
      BY <1>0, <1>3, Zenon
    <2>2. CASE f \in S
      <3>1. label[f] = a
        BY <1>0, <1>3, <1>5, <2>2, Zenon
      <3>2. f \in tcache'[c][a]
        BY <1>0, <1>2, <2>1, <2>2, Zenon
      <3>3. QED
        BY <3>1, <3>2, Zenon
    <2>3. CASE f \notin S
      <3>1. f \notin ncache[label[f]]
        BY <1>2, <2>1, <2>3, Zenon
      <3>2. PICK d \in Cores : f \in tcache[d][label[f]]
        BY <2>1, <3>1, Zenon DEF Owned, Somewhere
      <3>3. f \in tcache'[d][label[f]]
        BY <1>0, <1>2, <2>1, <3>2
      <3>4. QED
        BY <3>3, Zenon
    <2>4. QED
      BY <2>2, <2>3, Zenon
  <1>9. Apart'
    <2>1. (zone \cap objects = {} /\ zone \cap mapped = {} /\ objects \cap mapped = {})'
      <3>1. T \cap Used = {}
        BY <1>0, <1>3, <1>5, Zenon
      <3>2. zone \cap objects = {} /\ zone \cap mapped = {} /\ objects \cap mapped = {}
        BY Zenon DEF Owned, Apart
      <3>3. QED
        BY <3>1, <3>2, Zenon DEF Used
    <2>2. ASSUME NEW n \in Nodes PROVE ncache'[n] \cap Used' = {}
      BY <1>3, <1>5, <1>6, Zenon
    <2>3. ASSUME NEW d \in Cores, NEW n \in Nodes, NEW f \in tcache'[d][n]
          PROVE  /\ f \notin Used' /\ f \notin ncache'[n]
                 /\ \A e \in Cores \ {d} : f \notin tcache'[e][n]
      <3>1. f \notin T /\ (f \in tcache[d][n] \/ (f \in S /\ d = c /\ n = a))
        BY <1>6, <2>3, Zenon
      <3>2. f \notin Used'
        BY <1>0, <1>3, <1>5, <3>1, Zenon
      <3>3. f \notin ncache'[n]
        BY <1>5, <1>6, <3>1, Zenon
      <3>4. ASSUME NEW e \in Cores \ {d}, f \in tcache'[e][n] PROVE FALSE
        <4>1. f \in tcache[e][n] \/ (f \in S /\ e = c /\ n = a)
          BY <1>6, <3>4, Zenon
        <4>2. CASE f \in tcache[d][n]
          BY <1>3, <1>5, <4>1, <4>2, Zenon
        <4>3. CASE f \in S /\ d = c /\ n = a
          BY <1>3, <1>5, <3>4, <4>1, <4>3, Zenon
        <4>4. QED
          BY <3>1, <4>2, <4>3, Zenon
      <3>5. QED
        BY <3>2, <3>3, <3>4, Zenon
    <2>4. QED
      BY <2>1, <2>2, <2>3, Zenon DEF Apart
  <1>10. NotOverfilled'
    <2> SUFFICES ASSUME NEW d \in Cores, NEW n \in Nodes PROVE Fits(tcache'[d][n])
      BY Zenon DEF NotOverfilled, Fits
    <2>1. CASE d = c /\ n = a
      <3> DEFINE X == Mine(c) \cup S
      <3>1. X \subseteq Frames /\ Fits(X)
        BY <1>0, Zenon
      <3> HIDE DEF X
      <3>2. /\ Cardinality((X \ T) \cap Base) <= Cardinality(X \cap Base)
            /\ Cardinality((X \ T) \cap Large) <= Cardinality(X \cap Large)
        BY <3>1, CardinalityPart, Zenon
      <3>3. /\ Cardinality((X \ T) \cap Base) \in Nat /\ Cardinality(X \cap Base) \in Nat
            /\ Cardinality((X \ T) \cap Large) \in Nat /\ Cardinality(X \cap Large) \in Nat
        BY <3>1, FramesFinite, Zenon
      <3>4. Fits(X \ T)
        BY <3>1, <3>2, <3>3, AllocatorAssumption DEF Fits
      <3>5. QED
        BY <1>2, <2>1, <3>4, Zenon DEF X
    <2>2. CASE ~(d = c /\ n = a)
      BY <1>2, <2>2, Zenon DEF Owned, NotOverfilled
    <2>3. QED
      BY <2>1, <2>2, Zenon
  <1>11. QED
    BY <1>4, <1>7, <1>8, <1>9, <1>10, Zenon DEF Owned

\* A refill after which nothing is handed out.
LEMMA OnlyRefill ==
    ASSUME Owned, NEW c \in Cores, NEW S, S \subseteq Global(c), Fits(Mine(c) \cup S),
           Refill(c, S, {}), UNCHANGED <<mapped, zone, objects, label, affinity>>
    PROVE  Owned'
  <1>1. /\ {} = {} \cup {} \cup {} /\ {} \subseteq Mine(c) \cup S /\ {} \subseteq Large
        /\ mapped' = mapped \cup {} /\ zone' = zone \cup {} /\ objects' = objects \cup {}
        /\ UNCHANGED <<label, affinity>> /\ {} \cap {} = {}
    BY Zenon
  <1>2. QED
    BY <1>1, Transfer, Zenon

\* The TCache of the core after a refill, and those of other cores.
LEMMA RefillMine ==
    ASSUME FrameTypes, NEW c \in Cores, NEW S, NEW T, Refill(c, S, T), UNCHANGED <<label, affinity>>
    PROVE  /\ Mine(c)' = (Mine(c) \cup S) \ T
           /\ \A d \in Cores \ {c} : tcache'[d] = tcache[d]
  BY Zenon DEF FrameTypes, Refill, Mine

\* Only the core itself changes what its allocation depends on.
LEMMA OthersPending ==
    ASSUME IInv, NEW c \in Cores, PendingOf(c)',
           \A d \in Cores \ {c} :
              req'[d] = req[d] /\ tcache'[d] = tcache[d] /\ affinity'[d] = affinity[d]
    PROVE  Pending'
  <1> SUFFICES ASSUME NEW d \in Cores \ {c} PROVE PendingOf(d)'
    BY Zenon DEF Pending
  <1>1. PendingOf(d) /\ Mine(d)' = Mine(d)
    BY Zenon DEF IInv, Pending, Mine
  <1>2. QED
    BY <1>1, Zenon DEF PendingOf

\* The caches and tables of the first state have every frame once.
LEMMA InitIInv == Init => IInv
  <1> SUFFICES ASSUME Init PROVE IInv
    BY Zenon
  <1> USE DEF Init
  <1>1. TypeOK
    BY AllocatorAssumption, Zenon DEF TypeOK, FrameTypes
  <1>2. LabelKept /\ Somewhere /\ Apart
    BY AllocatorAssumption, Zenon DEF LabelKept, Somewhere, Apart, Used
  <1>3. NotOverfilled
    <2>1. Cardinality({} \cap Base) = 0 /\ Cardinality({} \cap Large) = 0
      BY FS_EmptySet, Zenon
    <2>2. Fits({})
      BY <2>1, AllocatorAssumption DEF Fits
    <2>3. QED
      BY <2>2, Zenon DEF NotOverfilled
  <1>4. Pending
    BY Zenon DEF Pending, PendingOf
  <1>5. QED
    BY <1>1, <1>2, <1>3, <1>4, Zenon DEF IInv, Owned, TypeOK

\* How an allocation goes on: it ends, asks for a refill, or tries again.
LEMMA RequestSteps ==
    ASSUME TypeOK, NEW c \in Cores, req[c] # None
    PROVE  /\ req[c] \in Requests
           /\ Done(c) \/ Exhausted(c) \/ TryAgain(c) =>
                 /\ req' \in [Cores -> Requests \cup {None}]
                 /\ \A d \in Cores \ {c} : req'[d] = req[d]
           /\ Done(c) => req'[c] = None
           /\ Exhausted(c) => /\ req'[c] \in Requests /\ req'[c].kind = req[c].kind
                              /\ req'[c].need = req[c].need
                              /\ req'[c].tries = req[c].tries /\ req'[c].refill = TRUE
           /\ TryAgain(c) => \/ req'[c] = None /\ req[c].tries + 1 = MaxTries
                             \/ /\ req'[c] \in Requests /\ req'[c].kind = req[c].kind
                                /\ req'[c].need = req[c].need
                                /\ req'[c].tries = req[c].tries + 1
                                /\ req'[c].refill = FALSE
  <1>1. req \in [Cores -> Requests \cup {None}] /\ req[c] \in Requests
    BY Zenon DEF TypeOK
  <1>2. ASSUME Done(c)
        PROVE  /\ req' \in [Cores -> Requests \cup {None}] /\ req'[c] = None
               /\ \A d \in Cores \ {c} : req'[d] = req[d]
    BY <1>1, <1>2, Zenon DEF Done
  <1>3. ASSUME NEW r \in Requests, req' = [req EXCEPT ![c] = r]
        PROVE  /\ req' \in [Cores -> Requests \cup {None}] /\ req'[c] = r
               /\ \A d \in Cores \ {c} : req'[d] = req[d]
    BY <1>1, <1>3, Zenon
  <1>4. DEFINE again == [req[c] EXCEPT !.tries = req[c].tries + 1, !.refill = FALSE]
               more == [req[c] EXCEPT !.refill = TRUE]
  <1>5. /\ again \in Requests /\ again.kind = req[c].kind /\ again.need = req[c].need
        /\ again.tries = req[c].tries + 1 /\ again.refill = FALSE
    <2>1. ASSUME NEW n \in Nat
          PROVE  LET r == [req[c] EXCEPT !.tries = n, !.refill = FALSE]
                 IN  /\ r \in Requests /\ r.kind = req[c].kind /\ r.need = req[c].need
                     /\ r.tries = n /\ r.refill = FALSE
      BY <1>1, Zenon DEF Requests
    <2>2. req[c].tries + 1 \in Nat
      BY <1>1 DEF Requests
    <2>3. QED
      BY <2>1, <2>2, Zenon
  <1>6. /\ more \in Requests /\ more.kind = req[c].kind /\ more.need = req[c].need
        /\ more.tries = req[c].tries /\ more.refill = TRUE
    BY <1>1, Zenon DEF Requests
  <1>7. Exhausted(c) => req' = [req EXCEPT ![c] = more]
    BY <1>1, Zenon DEF Exhausted
  <1>8. TryAgain(c) => IF req[c].tries + 1 = MaxTries
                       THEN Done(c) ELSE req' = [req EXCEPT ![c] = again]
    BY <1>1, Zenon DEF TryAgain, Done
  <1> HIDE DEF again, more
  <1>9. QED
    BY <1>1, <1>2, <1>3, <1>5, <1>6, <1>7, <1>8, Zenon

\* The sizes that are asked for, and that they fit into a TCache.
LEMMA SizesNat ==
    /\ \A s \in MapSizes : /\ s[1] \in Nat /\ s[2] \in Nat /\ PtPages + s[1] \in Nat
                          /\ s[1] <= PtPages + s[1] /\ s[1] <= TCacheBase /\ s[2] <= TCacheLarge
    /\ \A s \in BigSizes : /\ BigBase(s) \in Nat /\ BigLarge(s) \in Nat
                          /\ BigBase(s) + PtPages \in Nat
                          /\ BigBase(s) + PtPages <= TCacheBase /\ BigLarge(s) <= TCacheLarge
                          /\ s[1] \in Nat /\ s[2] \in Nat /\ s \in Nat \X Nat
    /\ PtPages \in Nat
  BY AllocatorAssumption DEF BigBase, BigLarge

\* Every step of a core keeps it, also one that fails half way.
LEMMA StepIInv == IInv /\ [Next]_vars => IInv'
  <1> SUFFICES ASSUME IInv, [Next]_vars PROVE IInv'
    BY Zenon
  <1>0. TypeOK /\ FrameTypes /\ Owned /\ Pending
    BY Zenon DEF IInv, TypeOK
  <1>a. ASSUME UNCHANGED <<ncache, tcache, zone, objects, mapped, label, affinity>> PROVE Owned'
    BY <1>0, <1>a, Zenon DEF Owned, FrameTypes, LabelKept, Somewhere, Apart, NotOverfilled, Used, Fits
  <1>1. ASSUME NEW c \in Cores, Alloc(c) PROVE IInv'
    <2>0. PICK a \in Layouts : req' = [req EXCEPT ![c] = Request(a[1], a[2])]
      BY <1>1, Zenon DEF Alloc
    <2> DEFINE k == a[1]
               need == a[2]
    <2>1. /\ k \in {"zone", "large", "big"} /\ need \in Nat \X Nat
          /\ k = "zone" => need \in {<<1, 0>>, <<0, 1>>}
          /\ k = "large" => need = <<0, 1>>
          /\ k = "big" => need \in BigSizes
      <3>1. CASE a = <<"zone", <<1, 0>>>> \/ a = <<"zone", <<0, 1>>>> \/ a = <<"large", <<0, 1>>>>
        BY <3>1
      <3>2. CASE \E s \in BigSizes : a = <<"big", s>>
        BY <3>2, SizesNat
      <3>3. QED
        BY <3>1, <3>2, Zenon DEF Layouts
    <2> HIDE DEF k, need
    <2>8. req' = [req EXCEPT ![c] = Request(k, need)]
      BY <2>0, Zenon DEF k, need
    <2>2. Request(k, need) \in Requests
      BY <2>1, Zenon DEF Request, Requests
    <2>3. UNCHANGED <<ncache, tcache, zone, objects, mapped, label, affinity, panic>>
      BY <1>1, Zenon DEF Alloc
    <2>4. TypeOK'
      BY <1>0, <2>8, <2>2, <2>3, Zenon DEF TypeOK, FrameTypes
    <2>5. PendingOf(c)'
      BY <1>0, <2>1, <2>8, Zenon DEF TypeOK, PendingOf, Request
    <2>6. \A d \in Cores \ {c} : req'[d] = req[d]
      BY <1>0, <2>8, Zenon DEF TypeOK
    <2>7. QED
      BY <1>a, <2>3, <2>4, <2>5, <2>6, OthersPending, Zenon DEF IInv
  <1>2. ASSUME NEW c \in Cores, TryZone(c) PROVE IInv'
    <2>1. /\ req[c] # None /\ req[c].kind = "zone" /\ ~req[c].refill
          /\ Done(c) \/ (req[c].tries = 0 /\ Exhausted(c))
          /\ UNCHANGED <<ncache, tcache, zone, objects, mapped, label, affinity, panic>>
      BY <1>2, Zenon DEF TryZone, Trying
    <2>2. TypeOK'
      BY <1>0, <2>1, RequestSteps, Zenon DEF TypeOK, FrameTypes
    <2>3. PendingOf(c)'
      BY <1>0, <2>1, RequestSteps, Zenon DEF Pending, PendingOf
    <2>4. \A d \in Cores \ {c} : req'[d] = req[d]
      BY <1>0, <2>1, RequestSteps, Zenon
    <2>5. QED
      BY <1>a, <2>1, <2>2, <2>3, <2>4, OthersPending, Zenon DEF IInv
  <1>3. ASSUME NEW c \in Cores, TryLarge(c) PROVE IInv'
    <2>1. /\ req[c] # None /\ req[c].kind = "large" /\ ~req[c].refill
          /\ UNCHANGED <<ncache, zone, mapped, label, affinity, panic>>
      BY <1>3, Zenon DEF TryLarge, Trying
    <2>2. CASE /\ Mine(c) \cap Large = {} /\ Exhausted(c) /\ UNCHANGED <<tcache, objects>>
      <3>1. TypeOK'
        BY <1>0, <2>1, <2>2, RequestSteps, Zenon DEF TypeOK, FrameTypes
      <3>2. Mine(c)' = Mine(c) /\ req[c].tries = 0
        BY <1>0, <2>1, <2>2, Zenon DEF Mine, Pending, PendingOf
      <3>3. PendingOf(c)'
        BY <1>0, <2>1, <2>2, <3>2, RequestSteps, Zenon DEF Pending, PendingOf
      <3>4. \A d \in Cores \ {c} : req'[d] = req[d]
        BY <1>0, <2>1, <2>2, RequestSteps, Zenon
      <3>5. QED
        BY <1>a, <2>1, <2>2, <3>1, <3>3, <3>4, OthersPending, Zenon DEF IInv
    <2>3. ASSUME NEW f \in Mine(c) \cap Large, objects' = objects \cup {f}, Done(c),
                 tcache' = [tcache EXCEPT ![c][affinity[c]] = @ \ {f}]
          PROVE  IInv'
      <3>1. Refill(c, {}, {f})
        BY <1>0, <2>1, <2>3, Zenon DEF Refill, FrameTypes
      <3>2. Owned'
        <4>1. Fits(Mine(c) \cup {})
          BY <1>0, Zenon DEF Owned, FrameTypes, NotOverfilled, Mine
        <4>2. /\ {f} = {} \cup {} \cup {f} /\ {f} \subseteq Mine(c) \cup {} /\ {f} \subseteq Large
              /\ mapped' = mapped \cup {} /\ zone' = zone \cup {} /\ {} \subseteq Global(c)
              /\ {} \cap {} = {} /\ {} \cap {f} = {}
          BY <2>1, Zenon
        <4>3. QED
          BY <1>0, <2>1, <2>3, <3>1, <4>1, <4>2, Transfer, Zenon
      <3>3. TypeOK'
        BY <1>0, <2>1, <2>3, <3>2, RequestSteps, Zenon DEF TypeOK, Owned
      <3>4. \A d \in Cores \ {c} : tcache'[d] = tcache[d]
        BY <1>0, <2>1, <3>1, RefillMine, Zenon
      <3>5. PendingOf(c)' /\ \A d \in Cores \ {c} : req'[d] = req[d]
        BY <1>0, <2>1, <2>3, RequestSteps, Zenon DEF PendingOf
      <3>6. QED
        BY <2>1, <3>2, <3>3, <3>4, <3>5, OthersPending, Zenon DEF IInv
    <2>4. QED
      BY <1>3, <2>2, <2>3, Zenon DEF TryLarge
  <1>4. ASSUME NEW c \in Cores, TryBig(c) PROVE IInv'
    <2> DEFINE b == BigBase(req[c].need)
               l == BigLarge(req[c].need)
    <2>1. /\ req[c] # None /\ req[c].kind = "big" /\ ~req[c].refill
          /\ UNCHANGED <<objects, label, affinity>>
      BY <1>4, Zenon DEF TryBig, Trying
    <2>2. /\ b \in Nat /\ l \in Nat /\ b + PtPages \in Nat
          /\ b + PtPages <= TCacheBase /\ l <= TCacheLarge
      BY <1>0, <2>1, SizesNat, Zenon DEF Pending, PendingOf
    <2>3. PICK S \in MaybeMoves(c, b + PtPages, l) :
             IF ~MaybeEnough(c, b + PtPages, l)
             THEN Refill(c, S, {}) /\ Exhausted(c) /\ UNCHANGED <<zone, mapped, panic>>
             ELSE IF ~Has(Mine(c) \cup S, b + PtPages, l)
             THEN Refill(c, S, {}) /\ Done(c) /\ panic' = "refill" /\ UNCHANGED <<zone, mapped>>
             ELSE \E T \in Pick(Mine(c) \cup S, b, l), p \in 0..PtPages :
                    \E P \in Pick((Mine(c) \cup S) \ T, p, 0) :
                       /\ Refill(c, S, T \cup P)
                       /\ mapped' = mapped \cup T
                       /\ zone' = zone \cup P
                       /\ Done(c) /\ UNCHANGED panic
      BY <1>4, Zenon DEF TryBig
    <2> HIDE DEF b, l
    <2>4. /\ S \subseteq Global(c) /\ Fits(Mine(c) \cup S)
          /\ MaybeEnough(c, b + PtPages, l) => Has(Mine(c) \cup S, b + PtPages, l)
      BY <1>0, <2>2, MaybeMovesFit, Zenon
    <2>5. CASE Refill(c, S, {}) /\ Exhausted(c) /\ UNCHANGED <<zone, mapped, panic>>
      <3>1. Owned'
        BY <1>0, <2>1, <2>4, <2>5, OnlyRefill, Zenon
      <3>2. TypeOK'
        BY <1>0, <2>1, <2>5, <3>1, RequestSteps, Zenon DEF TypeOK, Owned
      <3>3. PendingOf(c)' /\ \A d \in Cores \ {c} : req'[d] = req[d]
        BY <1>0, <2>1, <2>5, RequestSteps, Zenon DEF Pending, PendingOf
      <3>4. \A d \in Cores \ {c} : tcache'[d] = tcache[d]
        BY <1>0, <2>1, <2>5, RefillMine, Zenon
      <3>5. QED
        BY <2>1, <3>1, <3>2, <3>3, <3>4, OthersPending, Zenon DEF IInv
    <2>6. ASSUME NEW T \in Pick(Mine(c) \cup S, b, l), NEW P \in SUBSET ((Mine(c) \cup S) \ T),
                 Refill(c, S, T \cup P), mapped' = mapped \cup T, zone' = zone \cup P,
                 Done(c), UNCHANGED panic
          PROVE  IInv'
      <3>0. T \subseteq Mine(c) \cup S
        BY Zenon DEF Pick
      <3>1. Owned'
        <4>1. /\ T \cup P = T \cup P \cup {} /\ T \cup P \subseteq Mine(c) \cup S /\ {} \subseteq Large
              /\ T \cap P = {} /\ T \cap {} = {} /\ P \cap {} = {} /\ objects' = objects \cup {}
          BY <2>1, <3>0, Zenon
        <4>2. QED
          BY <1>0, <2>1, <2>4, <2>6, <4>1, Transfer, Zenon
      <3>2. TypeOK'
        BY <1>0, <2>1, <2>6, <3>1, RequestSteps, Zenon DEF TypeOK, Owned
      <3>3. PendingOf(c)' /\ \A d \in Cores \ {c} : req'[d] = req[d]
        BY <1>0, <2>1, <2>6, RequestSteps, Zenon DEF PendingOf
      <3>4. \A d \in Cores \ {c} : tcache'[d] = tcache[d]
        BY <1>0, <2>1, <2>6, RefillMine, Zenon
      <3>5. QED
        BY <2>1, <3>1, <3>2, <3>3, <3>4, OthersPending, Zenon DEF IInv
    <2>7. QED
      BY <2>3, <2>4, <2>5, <2>6, Zenon DEF Pick
  <1>5. ASSUME NEW c \in Cores, RefillZone(c) PROVE IInv'
    <2> DEFINE b == req[c].need[1]
               l == req[c].need[2]
    <2>1. /\ req[c] # None /\ req[c].kind = "zone" /\ req[c].refill
          /\ UNCHANGED <<objects, mapped, label, affinity, panic>>
      BY <1>5, Zenon DEF RefillZone
    <2>2. b \in Nat /\ l \in Nat
      BY <1>0, <2>1 DEF Pending, PendingOf
    <2>3. PICK S \in MaybeMoves(c, b, l) :
             IF MaybeEnough(c, b, l) /\ Has(Mine(c) \cup S, b, l)
             THEN ZonePage(c, S, b, l) /\ TryAgain(c)
             ELSE Refill(c, S, {}) /\ Done(c) /\ UNCHANGED zone
      BY <1>5, Zenon DEF RefillZone
    <2> HIDE DEF b, l
    <2>4. S \subseteq Global(c) /\ Fits(Mine(c) \cup S)
      BY <1>0, <2>2, MaybeMovesFit, Zenon
    <2>5. PICK T \in SUBSET (Mine(c) \cup S) :
            Refill(c, S, T) /\ zone' = zone \cup T /\ (TryAgain(c) \/ Done(c))
      BY <2>3, Zenon DEF ZonePage, Pick
    <2>6. Owned'
      <3>1. /\ T = {} \cup T \cup {} /\ {} \subseteq Large /\ {} \cap T = {} /\ T \cap {} = {}
            /\ {} \cap {} = {} /\ objects' = objects \cup {} /\ mapped' = mapped \cup {}
        BY <2>1, Zenon
      <3>2. QED
        BY <1>0, <2>1, <2>4, <2>5, <3>1, Transfer, Zenon
    <2>7. TypeOK'
      BY <1>0, <2>1, <2>5, <2>6, RequestSteps, Zenon DEF TypeOK, Owned
    <2>8. PendingOf(c)' /\ \A d \in Cores \ {c} : req'[d] = req[d]
      BY <1>0, <2>1, <2>5, RequestSteps, Zenon DEF Pending, PendingOf
    <2>9. \A d \in Cores \ {c} : tcache'[d] = tcache[d]
      BY <1>0, <2>1, <2>5, RefillMine, Zenon
    <2>10. QED
      BY <2>1, <2>6, <2>7, <2>8, <2>9, OthersPending, Zenon DEF IInv
  <1>6. ASSUME NEW c \in Cores, RefillLarge(c) PROVE IInv'
    <2> DEFINE b == req[c].need[1]
               l == req[c].need[2]
    <2>1. /\ req[c] # None /\ req[c].kind \in {"large", "big"} /\ req[c].refill
          /\ UNCHANGED <<zone, objects, mapped, label, affinity, panic>>
      BY <1>6, Zenon DEF RefillLarge
    <2>2. b \in Nat /\ l \in Nat
      BY <1>0, <2>1, SizesNat DEF Pending, PendingOf
    <2>3. PICK S \in Moves(c, b, l) :
             Refill(c, S, {}) /\ IF Enough(c, b, l) THEN TryAgain(c) ELSE Done(c)
      BY <1>6, Zenon DEF RefillLarge
    <2>4. req[c].kind = "large" => b = 0 /\ l = 1
      BY <1>0, <2>1 DEF Pending, PendingOf
    <2> HIDE DEF b, l
    <2>5. /\ S \subseteq Global(c) /\ Fits(Mine(c) \cup S)
          /\ Enough(c, b, l) =>
                \A i, j \in Nat : i <= b /\ i <= TCacheBase /\ j <= l /\ j <= TCacheLarge
                                 => Has(Mine(c) \cup S, i, j)
      BY <1>0, <2>2, MovesFit, Zenon
    <2>6. Owned'
      BY <1>0, <2>1, <2>3, <2>5, OnlyRefill, Zenon
    <2>7. TypeOK'
      BY <1>0, <2>1, <2>3, <2>6, RequestSteps, Zenon DEF TypeOK, Owned
    <2>8. \A d \in Cores \ {c} : tcache'[d] = tcache[d] /\ req'[d] = req[d]
      BY <1>0, <2>1, <2>3, RefillMine, RequestSteps, Zenon
    <2>9. ASSUME req[c].kind = "large", Enough(c, b, l) PROVE Mine(c)' \cap Large # {}
      <3>1. 0 <= TCacheBase /\ 1 <= TCacheLarge
        BY AllocatorAssumption
      <3>2. Has(Mine(c) \cup S, 0, 1)
        BY <2>4, <2>5, <2>9, <3>1
      <3>3. Mine(c)' = Mine(c) \cup S
        BY <1>0, <2>1, <2>3, RefillMine
      <3>4. (Mine(c) \cup S) \cap Large # {}
        BY <3>2, FS_EmptySet DEF Has
      <3>5. QED
        BY <3>3, <3>4, Zenon
    <2>10. PendingOf(c)'
      BY <1>0, <2>1, <2>3, <2>9, RequestSteps, Zenon DEF Pending, PendingOf
    <2>11. QED
      BY <2>1, <2>6, <2>7, <2>8, <2>10, OthersPending, Zenon DEF IInv
  <1>7. ASSUME NEW c \in Cores, DeallocLarge(c) PROVE IInv'
    <2>1. req[c] = None /\ UNCHANGED <<ncache, zone, mapped, affinity, req>>
      BY <1>7, Zenon DEF DeallocLarge, Idle
    <2>2. ASSUME NEW f \in objects,
                 Cardinality(Mine(c) \cap Large) < TCacheLarge,
                 tcache' = [tcache EXCEPT ![c][affinity[c]] = @ \cup {f}],
                 objects' = objects \ {f},
                 label' = [label EXCEPT ![f] = affinity[c]], UNCHANGED panic
          PROVE  IInv'
      <3> DEFINE a == affinity[c]
      <3>0. /\ a \in Nodes /\ f \in Large /\ f \in Frames
            /\ Mine(c) = tcache[c][a] /\ Mine(c) \subseteq Frames
            /\ tcache \in [Cores -> [Nodes -> SUBSET Frames]]
            /\ tcache' = [tcache EXCEPT ![c][a] = @ \cup {f}]
        BY <1>0, <2>2, Zenon DEF FrameTypes, Mine, Frames
      <3>a. /\ label' \in [Frames -> Nodes] /\ label'[f] = a
            /\ \A g \in Frames : label[g] \in Nodes /\ (g # f => label'[g] = label[g])
        BY <1>0, <2>2, <3>0, Zenon DEF FrameTypes
      <3> HIDE DEF a
      <3>1. \A d \in Cores, n \in Nodes :
               tcache'[d][n] = IF d = c /\ n = a THEN tcache[d][n] \cup {f} ELSE tcache[d][n]
        BY <3>0, Zenon
      <3>2. FrameTypes'
        BY <1>0, <2>1, <2>2, <3>0, <3>a DEF FrameTypes
      <3>3. /\ f \notin zone /\ f \notin mapped /\ Used' = Used \ {f} /\ f \in Used
            /\ \A n \in Nodes : f \notin ncache[n]
            /\ \A d \in Cores, n \in Nodes : f \notin tcache[d][n]
        BY <1>0, <2>1, <2>2, Zenon DEF Owned, Apart, Used
      <3>4. LabelKept'
        <4>1. ASSUME NEW n \in Nodes, NEW g \in ncache'[n] PROVE label'[g] = n
          <5>1. g \in ncache[n] /\ g # f /\ g \in Frames
            BY <1>0, <2>1, <3>3, <4>1, Zenon DEF FrameTypes
          <5>2. QED
            BY <1>0, <3>a, <5>1, Zenon DEF Owned, LabelKept
        <4>2. ASSUME NEW d \in Cores, NEW n \in Nodes, NEW g \in tcache'[d][n] PROVE label'[g] = n
          <5>1. CASE g = f
            BY <3>1, <3>3, <3>a, <4>2, <5>1, Zenon
          <5>2. CASE g # f
            <6>1. g \in tcache[d][n]
              BY <3>1, <4>2, <5>2, Zenon
            <6>2. g \in Frames
              BY <3>0, <6>1
            <6>3. QED
              BY <1>0, <3>a, <5>2, <6>1, <6>2, Zenon DEF Owned, LabelKept
          <5>3. QED
            BY <5>1, <5>2, Zenon
        <4>3. QED
          BY <4>1, <4>2, Zenon DEF LabelKept
      <3>5. Somewhere'
        <4> SUFFICES ASSUME NEW g \in Frames, g \notin Used', g \notin ncache'[label'[g]]
                     PROVE  \E d \in Cores : g \in tcache'[d][label'[g]]
          BY Zenon DEF Somewhere
        <4>1. CASE g = f
          <5>1. a \in Nodes /\ tcache'[c][a] = tcache[c][a] \cup {f}
            BY <3>0, <3>1
          <5>2. QED
            BY <3>a, <4>1, <5>1, Zenon
        <4>2. CASE g # f
          <5>1. g \notin Used /\ label[g] \in Nodes /\ label'[g] = label[g]
            BY <3>3, <3>a, <4>2, Zenon
          <5>2. PICK d \in Cores : g \in tcache[d][label[g]]
            BY <1>0, <2>1, <5>1, Zenon DEF Owned, Somewhere
          <5>3. g \in tcache'[d][label[g]]
            BY <3>1, <5>1, <5>2, Zenon
          <5>4. QED
            BY <5>1, <5>3, Zenon
        <4>3. QED
          BY <4>1, <4>2, Zenon
      <3>6. Apart'
        <4>1. (zone \cap objects = {} /\ zone \cap mapped = {} /\ objects \cap mapped = {})'
          BY <1>0, <2>1, <2>2, Zenon DEF Owned, Apart
        <4>2. ASSUME NEW n \in Nodes PROVE ncache'[n] \cap Used' = {}
          BY <1>0, <2>1, <3>3, Zenon DEF Owned, Apart
        <4>3. ASSUME NEW d \in Cores, NEW n \in Nodes, NEW g \in tcache'[d][n]
              PROVE  /\ g \notin Used' /\ g \notin ncache'[n]
                     /\ \A e \in Cores \ {d} : g \notin tcache'[e][n]
          <5>1. CASE g = f
            <6>1. d = c /\ n = a
              BY <3>1, <3>3, <4>3, <5>1, Zenon
            <6>2. f \notin Used' /\ f \notin ncache'[n]
              BY <2>1, <3>3, Zenon
            <6>3. ASSUME NEW e \in Cores \ {d} PROVE f \notin tcache'[e][n]
              BY <3>1, <3>3, <6>1, Zenon
            <6>4. QED
              BY <5>1, <6>2, <6>3, Zenon
          <5>2. CASE g # f
            <6>1. g \in tcache[d][n]
              BY <3>1, <4>3, <5>2, Zenon
            <6>2. /\ g \notin Used /\ g \notin ncache[n]
                  /\ \A e \in Cores \ {d} : g \notin tcache[e][n]
              BY <1>0, <6>1, Zenon DEF Owned, Apart
            <6>3. g \notin Used' /\ g \notin ncache'[n]
              BY <2>1, <3>3, <6>2, Zenon
            <6>4. ASSUME NEW e \in Cores \ {d} PROVE g \notin tcache'[e][n]
              <7>1. e \in Cores /\ g \notin tcache[e][n]
                BY <6>2, <6>4, Zenon
              <7>2. QED
                BY <3>1, <5>2, <7>1, Zenon
            <6>5. QED
              BY <6>3, <6>4, Zenon
          <5>3. QED
            BY <5>1, <5>2, Zenon
        <4>4. QED
          BY <4>1, <4>2, <4>3, Zenon DEF Apart
      <3>7. NotOverfilled'
        <4> SUFFICES ASSUME NEW d \in Cores, NEW n \in Nodes PROVE Fits(tcache'[d][n])
          BY Zenon DEF NotOverfilled, Fits
        <4>1. CASE d = c /\ n = a
          <5>1. f \notin Mine(c) /\ Fits(Mine(c))
            BY <1>0, <3>0, <3>3, Zenon DEF Owned, NotOverfilled
          <5>2. /\ (Mine(c) \cup {f}) \cap Base = Mine(c) \cap Base
                /\ (Mine(c) \cup {f}) \cap Large = (Mine(c) \cap Large) \cup {f}
                /\ (Mine(c) \cap Large) \cap {f} = {}
            BY <3>0, <5>1, AllocatorAssumption, Zenon
          <5>3. Cardinality((Mine(c) \cap Large) \cup {f}) = Cardinality(Mine(c) \cap Large) + 1
            <6>1. Mine(c) \cap Large \in SUBSET Frames /\ {f} \in SUBSET Frames
              BY <3>0, Zenon
            <6>2. Cardinality((Mine(c) \cap Large) \cup {f})
                    = Cardinality(Mine(c) \cap Large) + Cardinality({f})
              BY <5>2, <6>1, CardinalitySum, Zenon
            <6>3. QED
              BY <6>2, FS_Singleton, Zenon
          <5>4. Cardinality(Mine(c) \cap Large) \in Nat
            BY <3>0, FramesFinite, Zenon
          <5>5. Fits(Mine(c) \cup {f})
            <6>1. TCacheLarge \in Nat /\ Cardinality(Mine(c) \cap Large) + 1 <= TCacheLarge
              BY <2>2, <5>4, AllocatorAssumption
            <6>2. QED
              BY <5>1, <5>2, <5>3, <6>1, Zenon DEF Fits
          <5>6. QED
            BY <3>0, <3>1, <4>1, <5>5, Zenon
        <4>2. CASE ~(d = c /\ n = a)
          BY <1>0, <3>1, <4>2, Zenon DEF Owned, NotOverfilled
        <4>3. QED
          BY <4>1, <4>2, Zenon
      <3>8. TypeOK'
        BY <1>0, <2>1, <2>2, <3>2, Zenon DEF TypeOK
      <3>9. \A d \in Cores \ {c} : tcache'[d] = tcache[d]
        BY <3>0, Zenon
      <3>10. PendingOf(c)'
        BY <2>1, Zenon DEF PendingOf
      <3>11. QED
        BY <2>1, <3>2, <3>4, <3>5, <3>6, <3>7, <3>8, <3>9, <3>10, OthersPending, Zenon DEF IInv, Owned
    <2>3. CASE panic' = "dealloc" /\ UNCHANGED <<tcache, objects, label>>
      <3>1. TypeOK'
        BY <1>0, <2>1, <2>3, Zenon DEF TypeOK, FrameTypes
      <3>2. Pending'
        BY <1>0, <2>1, <2>3, Zenon DEF Pending, PendingOf, Mine
      <3>3. QED
        BY <1>a, <2>1, <2>3, <3>1, <3>2, Zenon DEF IInv
    <2>4. QED
      BY <1>7, <2>2, <2>3, Zenon DEF DeallocLarge
  <1>8. ASSUME NEW c \in Cores, req[c] = None, UNCHANGED <<zone, objects, label, affinity, req, panic>>,
               NEW S, S \subseteq Global(c), Fits(Mine(c) \cup S),
               NEW T \in SUBSET (Mine(c) \cup S), Refill(c, S, T), mapped' = mapped \cup T
        PROVE  IInv'
    <2>1. Owned'
      <3>1. /\ T = T \cup {} \cup {} /\ {} \subseteq Large /\ T \cap {} = {} /\ {} \cap {} = {}
            /\ objects' = objects \cup {} /\ zone' = zone \cup {}
        BY <1>8, Zenon
      <3>2. QED
        BY <1>0, <1>8, <3>1, Transfer, Zenon
    <2>2. TypeOK'
      BY <1>0, <1>8, <2>1, Zenon DEF TypeOK, Owned
    <2>3. \A d \in Cores \ {c} : tcache'[d] = tcache[d]
      BY <1>0, <1>8, RefillMine, Zenon
    <2>4. PendingOf(c)'
      BY <1>8, Zenon DEF PendingOf
    <2>5. QED
      BY <1>8, <2>1, <2>2, <2>3, <2>4, OthersPending, Zenon DEF IInv
  <1>9. ASSUME NEW c \in Cores, MapMem(c) PROVE IInv'
    <2>1. PICK s \in MapSizes : \E S \in Moves(c, PtPages + s[1], s[2]) :
            IF ~Enough(c, PtPages + s[1], s[2])
            THEN Refill(c, S, {}) /\ UNCHANGED <<mapped, panic>>
            ELSE IF ~Has(Mine(c) \cup S, s[1], s[2])
            THEN Refill(c, S, {}) /\ panic' = "refill" /\ UNCHANGED mapped
            ELSE \E T \in Pick(Mine(c) \cup S, s[1], s[2]) :
                    Refill(c, S, T) /\ mapped' = mapped \cup T /\ UNCHANGED panic
      BY <1>9, Zenon DEF MapMem
    <2>7. PICK S \in Moves(c, PtPages + s[1], s[2]) :
            IF ~Enough(c, PtPages + s[1], s[2])
            THEN Refill(c, S, {}) /\ UNCHANGED <<mapped, panic>>
            ELSE IF ~Has(Mine(c) \cup S, s[1], s[2])
            THEN Refill(c, S, {}) /\ panic' = "refill" /\ UNCHANGED mapped
            ELSE \E T \in Pick(Mine(c) \cup S, s[1], s[2]) :
                    Refill(c, S, T) /\ mapped' = mapped \cup T /\ UNCHANGED panic
      BY <2>1, Zenon
    <2>2. /\ s[1] \in Nat /\ s[2] \in Nat /\ PtPages + s[1] \in Nat
          /\ s[1] <= PtPages + s[1] /\ s[1] <= TCacheBase /\ s[2] <= TCacheLarge
          /\ s[2] <= s[2]
      BY SizesNat
    <2>3. /\ S \subseteq Global(c) /\ Fits(Mine(c) \cup S)
          /\ Enough(c, PtPages + s[1], s[2]) => Has(Mine(c) \cup S, s[1], s[2])
      BY <1>0, <2>2, MovesFit, Zenon
    <2>4. PICK T \in SUBSET (Mine(c) \cup S) :
            Refill(c, S, T) /\ mapped' = mapped \cup T /\ UNCHANGED panic
      <3>1. CASE ~Enough(c, PtPages + s[1], s[2])
        BY <2>7, <3>1, Zenon
      <3>2. CASE Enough(c, PtPages + s[1], s[2])
        BY <2>3, <2>7, <3>2, Zenon DEF Pick
      <3>3. QED
        BY <3>1, <3>2, Zenon
    <2>5. req[c] = None /\ UNCHANGED <<zone, objects, label, affinity, req>>
      BY <1>9, Zenon DEF MapMem, Idle
    <2>6. QED
      BY <1>8, <2>3, <2>4, <2>5, Zenon
  <1>10. ASSUME NEW c \in Cores, AllocatePhysical(c) PROVE IInv'
    <2>0. PICK b \in {0, 1} : \E S \in Moves(c, b, 1 - b) :
            \/ \E T \in Pick(Mine(c) \cup S, b, 1 - b) :
                   Refill(c, S, T) /\ mapped' = mapped \cup T
            \/ Refill(c, S, {}) /\ UNCHANGED mapped
      BY <1>10, Zenon DEF AllocatePhysical
    <2>6. PICK S \in Moves(c, b, 1 - b) :
            \/ \E T \in Pick(Mine(c) \cup S, b, 1 - b) :
                   Refill(c, S, T) /\ mapped' = mapped \cup T
            \/ Refill(c, S, {}) /\ UNCHANGED mapped
      BY <2>0, Zenon
    <2>1. \E T \in SUBSET (Mine(c) \cup S) : Refill(c, S, T) /\ mapped' = mapped \cup T
      <3>1. CASE Refill(c, S, {}) /\ UNCHANGED mapped
        <4>1. mapped' = mapped \cup {} /\ {} \in SUBSET (Mine(c) \cup S)
          BY <3>1, Zenon
        <4>2. QED
          BY <3>1, <4>1, Zenon
      <3>2. QED
        BY <2>6, <3>1, Zenon DEF Pick
    <2>2. b \in Nat /\ 1 - b \in Nat
      OBVIOUS
    <2>3. S \subseteq Global(c) /\ Fits(Mine(c) \cup S)
      BY <1>0, <2>2, MovesFit, Zenon
    <2>4. req[c] = None /\ UNCHANGED <<zone, objects, label, affinity, req, panic>>
      BY <1>10, Zenon DEF AllocatePhysical, Idle
    <2>5. QED
      BY <1>8, <2>1, <2>3, <2>4, Zenon
  <1>11. ASSUME NEW c \in Cores, AllocateDispatchers(c) PROVE IInv'
    <2>1. PICK S \in Moves(c, PtPages, 1) :
            /\ Refill(c, S, {})
            /\ \/ req' = [req EXCEPT ![c] = Request("dispatchers", <<0, 0>>)]
               \/ req' = req
      BY <1>11, Zenon DEF AllocateDispatchers
    <2>2. req[c] = None /\ UNCHANGED <<zone, objects, mapped, label, affinity, panic>>
      BY <1>11, Zenon DEF AllocateDispatchers, Idle
    <2>3. S \subseteq Global(c) /\ Fits(Mine(c) \cup S)
      BY <1>0, SizesNat, MovesFit, Zenon
    <2>4. Owned'
      BY <1>0, <2>1, <2>2, <2>3, OnlyRefill, Zenon
    <2>5. Request("dispatchers", <<0, 0>>) \in Requests
      BY Zenon DEF Request, Requests
    <2>6. TypeOK'
      BY <1>0, <2>1, <2>2, <2>4, <2>5, Zenon DEF TypeOK, Owned
    <2>7. PendingOf(c)'
      BY <1>0, <2>1, <2>2 DEF TypeOK, PendingOf, Request
    <2>8. \A d \in Cores \ {c} : tcache'[d] = tcache[d] /\ req'[d] = req[d]
      BY <1>0, <2>1, <2>2, RefillMine, Zenon DEF TypeOK
    <2>9. QED
      BY <2>2, <2>4, <2>6, <2>7, <2>8, OthersPending, Zenon DEF IInv
  <1>12. ASSUME NEW c \in Cores, DispatcherFrame(c) PROVE IInv'
    <2>1. /\ req[c] # None /\ Done(c) /\ UNCHANGED <<tcache, zone, objects, label, affinity, panic>>
      BY <1>12, Zenon DEF DispatcherFrame, Trying
    <2>2. PendingOf(c)' /\ \A d \in Cores \ {c} : req'[d] = req[d]
      BY <1>0, <2>1, RequestSteps, Zenon DEF PendingOf
    <2>3. Owned'
      <3>1. CASE UNCHANGED <<ncache, mapped>>
        BY <1>a, <2>1, <3>1, Zenon
      <3>2. ASSUME NEW n \in Nodes, NEW f \in ncache[n],
                   ncache' = [ncache EXCEPT ![n] = @ \ {f}], mapped' = mapped \cup {f}
            PROVE  Owned'
        <4>0. /\ f \in Frames /\ label[f] = n /\ f \notin Used /\ Used' = Used \cup {f}
              /\ \A m \in Nodes : ncache'[m] = ncache[m] \ {f}
              /\ \A d \in Cores, m \in Nodes : f \notin tcache[d][m]
          BY <1>0, <2>1, <3>2 DEF Owned, FrameTypes, LabelKept, Apart, Used
        <4>1. FrameTypes'
          BY <1>0, <2>1, <3>2, <4>0, Zenon DEF FrameTypes
        <4>2. LabelKept'
          BY <1>0, <2>1, <4>0 DEF Owned, LabelKept
        <4>3. Somewhere'
          <5>1. \A g \in Frames : label[g] \in Nodes
            BY <1>0, Zenon DEF FrameTypes
          <5>2. QED
            BY <1>0, <2>1, <4>0, <5>1, Zenon DEF Owned, Somewhere
        <4>4. Apart'
          <5>1. (zone \cap objects = {} /\ zone \cap mapped = {} /\ objects \cap mapped = {})'
            BY <1>0, <2>1, <3>2, <4>0 DEF Owned, Apart, Used
          <5>2. ASSUME NEW m \in Nodes PROVE ncache'[m] \cap Used' = {}
            BY <1>0, <4>0, Zenon DEF Owned, Apart
          <5>3. ASSUME NEW d \in Cores, NEW m \in Nodes
                PROVE  /\ tcache'[d][m] \cap Used' = {} /\ tcache'[d][m] \cap ncache'[m] = {}
                       /\ \A e \in Cores \ {d} : tcache'[d][m] \cap tcache'[e][m] = {}
            BY <1>0, <2>1, <4>0 DEF Owned, Apart
          <5>4. QED
            BY <5>1, <5>2, <5>3, Zenon DEF Apart
        <4>5. NotOverfilled'
          BY <1>0, <2>1, Zenon DEF Owned, NotOverfilled, Fits
        <4>6. QED
          BY <4>1, <4>2, <4>3, <4>4, <4>5, Zenon DEF Owned
      <3>3. QED
        BY <1>12, <3>1, <3>2, Zenon DEF DispatcherFrame
    <2>4. TypeOK'
      BY <1>0, <2>1, <2>3, RequestSteps, Zenon DEF TypeOK, Owned
    <2>5. QED
      BY <2>1, <2>2, <2>3, <2>4, OthersPending, Zenon DEF IInv
  <1>13. ASSUME NEW c \in Cores, SetMemAffinity(c) PROVE IInv'
    <2>1. PICK n \in Nodes : affinity' = [affinity EXCEPT ![c] = n]
      BY <1>13, Zenon DEF SetMemAffinity
    <2>2. req[c] = None /\ UNCHANGED <<ncache, tcache, zone, objects, mapped, label, req, panic>>
      BY <1>13, Zenon DEF SetMemAffinity, Idle
    <2>3. affinity' \in [Cores -> Nodes] /\ \A d \in Cores \ {c} : affinity'[d] = affinity[d]
      BY <1>0, <2>1, Zenon DEF FrameTypes
    <2>4. FrameTypes' /\ TypeOK'
      BY <1>0, <2>2, <2>3, Zenon DEF TypeOK, FrameTypes
    <2>5. Owned'
      BY <1>0, <2>2, <2>4, Zenon DEF Owned, LabelKept, Somewhere, Apart, NotOverfilled, Used, Fits
    <2>6. PendingOf(c)'
      BY <2>2, Zenon DEF PendingOf
    <2>7. QED
      BY <2>2, <2>3, <2>4, <2>5, <2>6, OthersPending, Zenon DEF IInv
  <1>14. CASE UNCHANGED vars
    <2>1. TypeOK' /\ Pending'
      BY <1>0, <1>14, Zenon DEF vars, TypeOK, FrameTypes, Pending, PendingOf, Mine
    <2>2. QED
      BY <1>a, <1>14, <2>1, Zenon DEF vars, IInv
  <1>15. QED
    BY <1>1, <1>2, <1>3, <1>4, <1>5, <1>6, <1>7, <1>9, <1>10, <1>11, <1>12, <1>13, <1>14, Zenon
    DEF Next

\* The invariant holds in every state of the allocator.
LEMMA IInvHolds == Spec => []IInv
  BY InitIInv, StepIInv, PTL DEF Spec

-----------------------------------------------------------------------------
\* A frame that is somewhere and in no second place has one owner.
LEMMA OwnedOnce == IInv => OneOwner
  <1> SUFFICES ASSUME IInv, NEW f \in Frames
               PROVE  /\ Cardinality(Places(f)) = 1
                      /\ \A n \in Nodes \ {label[f]} :
                            f \notin ncache[n] \cup UNION {tcache[c][n] : c \in Cores}
    BY Zenon DEF OneOwner
  <1>0. label[f] \in Nodes /\ LabelKept /\ Somewhere /\ Apart
    BY Zenon DEF IInv, Owned, FrameTypes
  <1> DEFINE N == {<<"ncache", n>> : n \in {m \in Nodes : f \in ncache[m]}}
             C == {<<"tcache", p>> : p \in {q \in Cores \X Nodes : f \in tcache[q[1]][q[2]]}}
             Z == IF f \in zone THEN {<<"zone">>} ELSE {}
             O == IF f \in objects THEN {<<"object">>} ELSE {}
             M == IF f \in mapped THEN {<<"mapped">>} ELSE {}
  <1>1. Places(f) = N \cup C \cup Z \cup O \cup M
    BY Zenon DEF Places
  <1>2. (\A m \in Nodes : f \notin ncache[m]) => N = {}
    BY Zenon
  <1>3. (\A d \in Cores, m \in Nodes : f \notin tcache[d][m]) => C = {}
    BY Zenon
  <1>4. f \in ncache[label[f]] => N = {<<"ncache", label[f]>>}
    BY <1>0 DEF LabelKept
  <1>5. \A c \in Cores : f \in tcache[c][label[f]] => C = {<<"tcache", <<c, label[f]>>>>}
    BY <1>0 DEF LabelKept, Apart
  <1> HIDE DEF N, C
  <1>6. \E x : Places(f) = {x}
    <2>1. CASE f \in Used
      <3>1. N = {} /\ C = {}
        BY <1>0, <1>2, <1>3, <2>1, Zenon DEF Apart
      <3>2. CASE f \in zone
        <4>1. f \notin objects /\ f \notin mapped
          BY <1>0, <3>2, Zenon DEF Apart
        <4>2. Places(f) = {<<"zone">>}
          BY <1>1, <3>1, <3>2, <4>1, Zenon
        <4>3. QED
          BY <4>2, Zenon
      <3>3. CASE f \in objects
        <4>1. f \notin zone /\ f \notin mapped
          BY <1>0, <3>3, Zenon DEF Apart
        <4>2. Places(f) = {<<"object">>}
          BY <1>1, <3>1, <3>3, <4>1, Zenon
        <4>3. QED
          BY <4>2, Zenon
      <3>4. CASE f \in mapped
        <4>1. f \notin objects /\ f \notin zone
          BY <1>0, <3>4, Zenon DEF Apart
        <4>2. Places(f) = {<<"mapped">>}
          BY <1>1, <3>1, <3>4, <4>1, Zenon
        <4>3. QED
          BY <4>2, Zenon
      <3>5. QED
        BY <2>1, <3>2, <3>3, <3>4, Zenon DEF Used
    <2>2. CASE f \in ncache[label[f]]
      <3>1. f \notin zone /\ f \notin objects /\ f \notin mapped
        BY <1>0, <2>2, Zenon DEF Apart, Used
      <3>2. \A d \in Cores, m \in Nodes : f \notin tcache[d][m]
        BY <1>0, <2>2, Zenon DEF Apart, LabelKept
      <3>3. N = {<<"ncache", label[f]>>} /\ C = {}
        BY <1>3, <1>4, <2>2, <3>2, Zenon
      <3>4. Places(f) = {<<"ncache", label[f]>>}
        BY <1>1, <3>1, <3>3, Zenon
      <3>5. QED
        BY <3>4, Zenon
    <2>3. ASSUME NEW c \in Cores, f \in tcache[c][label[f]] PROVE \E x : Places(f) = {x}
      <3>1. f \notin zone /\ f \notin objects /\ f \notin mapped
        BY <1>0, <2>3, Zenon DEF Apart, Used
      <3>2. \A m \in Nodes : f \notin ncache[m]
        BY <1>0, <2>3, Zenon DEF Apart, LabelKept
      <3>3. C = {<<"tcache", <<c, label[f]>>>>} /\ N = {}
        BY <1>2, <1>5, <2>3, <3>2, Zenon
      <3>4. Places(f) = {<<"tcache", <<c, label[f]>>>>}
        BY <1>1, <3>1, <3>3, Zenon
      <3>5. QED
        BY <3>4, Zenon
    <2>4. QED
      BY <1>0, <2>1, <2>2, <2>3, Zenon DEF Somewhere
  <1>7. Cardinality(Places(f)) = 1
    BY <1>6, FS_Singleton, Zenon
  <1>8. QED
    BY <1>0, <1>7 DEF LabelKept

\* Every frame is in one cache, kernel object, zone allocator or process, also
\* where a refill fails half way (the `?` in the loops of try_refill_tcache,
\* memory/mcache.rs), and the cache is one of the node the frame was last
\* freed under, its own node if it was never freed (dealloc, memory/mod.rs).
THEOREM FramesHaveOneOwner == Spec => []OneOwner
  BY IInvHolds, OwnedOnce, PTL

\* A refill that succeeds leaves in the TCache what was asked for, so "We
\* refilled so allocation should work." holds wherever it is relied on.
THEOREM RefillNeverShort == Spec => []RefillSuffices
  <1>1. IInv => RefillSuffices
    BY AllocatorAssumption, Zenon DEF IInv, TypeOK, RefillSuffices
  <1>2. QED
    BY IInvHolds, <1>1, PTL

\* Where one page is asked for and the TCache has none, a refill that fails
\* means that the NCache has none either.
LEMMA NoPage ==
    ASSUME Owned, NEW c \in Cores, NEW b \in Nat, NEW l \in Nat,
           (b = 1 /\ l = 0) \/ (b = 0 /\ l = 1), Short(c, b, l), ~Enough(c, b, l)
    PROVE  ~Has(Mine(c) \cup Global(c), b, l)
  <1> DEFINE mb == Mine(c) \cap Base
             ml == Mine(c) \cap Large
             gb == Global(c) \cap Base
             gl == Global(c) \cap Large
  <1>0. /\ Mine(c) \subseteq Frames /\ Global(c) \subseteq Frames
        /\ Mine(c) \cap Global(c) = {} /\ Fits(Mine(c))
    BY DEF Owned, FrameTypes, Apart, NotOverfilled, Mine, Global
  <1>1. /\ mb \in SUBSET Frames /\ ml \in SUBSET Frames
        /\ gb \in SUBSET Frames /\ gl \in SUBSET Frames
        /\ mb \cap gb = {} /\ ml \cap gl = {}
        /\ (Mine(c) \cup Global(c)) \cap Base = mb \cup gb
        /\ (Mine(c) \cup Global(c)) \cap Large = ml \cup gl
    BY <1>0, Zenon
  <1>2. /\ Cardinality(mb) \in Nat /\ Cardinality(ml) \in Nat
        /\ Cardinality(gb) \in Nat /\ Cardinality(gl) \in Nat
    BY <1>1, FramesFinite, Zenon
  <1>3. /\ Cardinality(mb \cup gb) = Cardinality(mb) + Cardinality(gb)
        /\ Cardinality(ml \cup gl) = Cardinality(ml) + Cardinality(gl)
    BY <1>1, CardinalitySum, Zenon
  <1>4. b > Cardinality(mb) \/ l > Cardinality(ml)
    BY Zenon DEF Short
  <1>5. \/ ~(Cardinality(gb) >= Least(TCacheBase - Cardinality(mb), b))
        \/ ~(Cardinality(gl) >= Least(TCacheLarge - Cardinality(ml), l))
    BY Zenon DEF Enough, AmountBase, AmountLarge, Amount
  <1>6. /\ Cardinality(mb) <= TCacheBase /\ Cardinality(ml) <= TCacheLarge
        /\ TCacheBase \in Nat /\ TCacheLarge \in Nat
    BY <1>0, AllocatorAssumption, Zenon DEF Fits
  <1> HIDE DEF mb, ml, gb, gl
  <1>7. CASE b = 1 /\ l = 0
    <2>1. Cardinality(mb) = 0 /\ Cardinality(gb) = 0
      BY <1>2, <1>4, <1>5, <1>6, <1>7 DEF Least
    <2>2. QED
      BY <1>1, <1>3, <1>7, <2>1 DEF Has
  <1>8. CASE b = 0 /\ l = 1
    <2>1. Cardinality(ml) = 0 /\ Cardinality(gl) = 0
      BY <1>2, <1>4, <1>5, <1>6, <1>8 DEF Least
    <2>2. QED
      BY <1>1, <1>3, <1>8, <2>1 DEF Has
  <1>9. QED
    BY <1>7, <1>8, Zenon

\* Only a refill ends an allocation that waits for one.
LEMMA EndsByRefill ==
    ASSUME IInv, Next, NEW c \in Cores, req[c] # None, req[c].refill, req'[c] = None
    PROVE  RefillZone(c) \/ RefillLarge(c)
  <1>1. PICK d \in Cores :
        \/ Alloc(d) \/ TryZone(d) \/ TryLarge(d) \/ TryBig(d)
        \/ RefillZone(d) \/ RefillLarge(d) \/ DeallocLarge(d)
        \/ MapMem(d) \/ AllocatePhysical(d)
        \/ AllocateDispatchers(d) \/ DispatcherFrame(d) \/ SetMemAffinity(d)
    BY Zenon DEF Next
  <1>2. req \in [Cores -> Requests \cup {None}]
    BY Zenon DEF IInv, TypeOK
  <1>3. \/ UNCHANGED req
        \/ \E r : req' = [req EXCEPT ![d] = r]
    BY <1>1, Zenon DEF Alloc, TryZone, TryLarge, TryBig, RefillZone, RefillLarge, DeallocLarge, MapMem,
       AllocatePhysical, AllocateDispatchers, DispatcherFrame, SetMemAffinity,
       Done, Exhausted, TryAgain
  <1>4. d = c
    BY <1>2, <1>3, Zenon
  <1>5. QED
    BY <1>1, <1>4, Zenon DEF Alloc, TryZone, TryLarge, TryBig, DeallocLarge, MapMem,
       AllocatePhysical, AllocateDispatchers, DispatcherFrame, SetMemAffinity, Idle, Trying

\* alloc of up to a large page returns null only when neither the TCache nor
\* the NCache has a page, whatever other cores take between the attempts.
THEOREM NullMeansOut == Spec => NullOnlyWhenOut
  <1> DEFINE Out == \A c \in Cores :
         (req[c] # None /\ req[c].refill /\ req[c].kind # "big" /\ req'[c] = None)
         => ~Has(Mine(c) \cup Global(c), req[c].need[1], req[c].need[2])
  <1>1. ASSUME IInv, Next, NEW c \in Cores,
               req[c] # None, req[c].refill, req[c].kind # "big", req'[c] = None
        PROVE  ~Has(Mine(c) \cup Global(c), req[c].need[1], req[c].need[2])
    <2> DEFINE b == req[c].need[1]
               l == req[c].need[2]
    <2>0. TypeOK /\ Owned /\ PendingOf(c)
      BY <1>1, Zenon DEF IInv, Pending
    <2>1. RefillZone(c) \/ RefillLarge(c)
      BY <1>1, EndsByRefill, Zenon
    <2>2. /\ req[c].tries = 0 /\ 0 + 1 # MaxTries /\ None \notin Requests
          /\ 1 <= TCacheBase /\ 1 <= TCacheLarge /\ 0 <= TCacheBase /\ 0 <= TCacheLarge
      BY <1>1, <2>0, AllocatorAssumption DEF PendingOf
    <2>3. ~TryAgain(c)
      BY <1>1, <2>0, <2>2, RequestSteps, Zenon
    <2>4. CASE RefillZone(c)
      <3>0. req[c].need \in {<<1, 0>>, <<0, 1>>}
        BY <1>1, <2>0, <2>4, Zenon DEF PendingOf, RefillZone
      <3>1. /\ (b = 1 /\ l = 0) \/ (b = 0 /\ l = 1)
            /\ b \in Nat /\ l \in Nat
        BY <3>0
      <3>2. PICK S \in MaybeMoves(c, b, l) :
              ~(MaybeEnough(c, b, l) /\ Has(Mine(c) \cup S, b, l))
        BY <2>3, <2>4, Zenon DEF RefillZone
      <3> HIDE DEF b, l
      <3>3. ~MaybeEnough(c, b, l)
        BY <2>0, <2>2, <3>1, <3>2, MaybeMovesFit, Zenon
      <3>4. Short(c, b, l) /\ ~Enough(c, b, l)
        BY <3>3, Zenon DEF MaybeEnough
      <3>5. ~Has(Mine(c) \cup Global(c), b, l)
        BY <2>0, <3>1, <3>4, NoPage, Zenon
      <3>6. QED
        BY <3>5, Zenon DEF b, l
    <2>5. CASE RefillLarge(c)
      <3>0. req[c].kind = "large"
        BY <1>1, <2>5, Zenon DEF RefillLarge
      <3>a. req[c].need = <<0, 1>> /\ Mine(c) \cap Large = {}
        BY <1>1, <2>0, <3>0, Zenon DEF PendingOf
      <3>1. b = 0 /\ l = 1 /\ Mine(c) \cap Large = {}
        BY <3>a
      <3>2. ~Enough(c, b, l)
        BY <2>3, <2>5, Zenon DEF RefillLarge
      <3> HIDE DEF b, l
      <3>3. Short(c, b, l)
        BY <3>1, FS_EmptySet DEF Short
      <3>4. ~Has(Mine(c) \cup Global(c), b, l)
        BY <2>0, <3>1, <3>2, <3>3, NoPage, Zenon
      <3>5. QED
        BY <3>4, Zenon DEF b, l
    <2>6. QED
      BY <2>1, <2>4, <2>5, Zenon
  <1>2. IInv /\ [Next]_vars => [Out]_vars
    BY <1>1, Zenon
  <1>3. QED
    BY IInvHolds, <1>2, PTL DEF Spec, NullOnlyWhenOut
=============================================================================
