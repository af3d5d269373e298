-------------------------- MODULE KernelAllocator --------------------------
(***************************************************************************)
(* Physical memory (kernel/src/memory/mod.rs, mcache.rs, kcb.rs).  Every    *)
(* NUMA node has a cache of frames under a lock (NCache).  Every core has   *)
(* an arena per node, with a small cache of its own (TCache) and a zone     *)
(* allocator, and allocates from the arena of its current affinity.  A core *)
(* that runs out moves frames from the NCache to its TCache, never more     *)
(* than fit, and tries again.  Frames are base pages or large pages and are *)
(* not split once the caches are filled.                                    *)
(***************************************************************************)
EXTENDS Naturals, FiniteSets

CONSTANTS Cores, Nodes,
          Base,           \* frames of one base page
          Large,          \* frames of one large page
          Home,           \* the node of each frame's memory
          TCacheBase,     \* capacity of a TCache for base pages
          TCacheLarge,    \* and for large pages
          PtPages,        \* base pages reserved for page tables (20)
          MapSizes,       \* base and large pages of regions a process maps
          BigSizes,       \* base and large pages of big kernel objects
          MaxBigBase,     \* most base pages used for a big object (254)
          MaxTries,       \* attempts of alloc (3)
          None

Frames == Base \cup Large

\* What alloc is asked for, and how far it is.
Requests == [kind : {"zone", "large", "big", "dispatchers"}, need : Nat \X Nat,
             tries : Nat, refill : BOOLEAN]

ASSUME AllocatorAssumption ==
    /\ IsFiniteSet(Base) /\ IsFiniteSet(Large) /\ Base \cap Large = {}
    /\ \A f \in Frames : Home[f] \in Nodes
    /\ TCacheBase \in Nat \ {0} /\ TCacheLarge \in Nat \ {0}
    /\ PtPages \in Nat /\ MaxBigBase \in Nat /\ MaxTries \in Nat \ {0, 1}
    /\ MapSizes \subseteq Nat \X Nat /\ BigSizes \subseteq Nat \X Nat
    /\ \A s \in MapSizes : s[1] <= TCacheBase /\ s[2] <= TCacheLarge
    /\ \A s \in BigSizes : s[2] < TCacheLarge
    /\ MaxBigBase + PtPages <= TCacheBase
    /\ None \notin Requests \cup {"refill", "dealloc"}

VARIABLES ncache,    \* frames in the NCache of each node
          tcache,    \* frames in the TCache of each core, for each node
          zone,      \* frames the zone allocators have
          objects,   \* large pages that are kernel objects
          mapped,    \* frames of processes and big kernel objects
          label,     \* the node a frame was last given out or freed as one of
          affinity,  \* the arena each core uses
          req,       \* the allocation each core is in
          panic      \* where the kernel stopped

vars == <<ncache, tcache, zone, objects, mapped, label, affinity, req, panic>>

-----------------------------------------------------------------------------
(***************************************************************************)
(* Refilling.                                                               *)
(***************************************************************************)
Least(a, b) == IF a < b THEN a ELSE b

\* The TCache a core uses, and the NCache behind it.
Mine(c) == tcache[c][affinity[c]]
Global(c) == ncache[affinity[c]]

\* "Make sure we don't overflow the TCache".
Amount(capacity, cached, needed) == Least(capacity - Cardinality(cached), needed)

AmountBase(c, b) == Amount(TCacheBase, Mine(c) \cap Base, b)
AmountLarge(c, l) == Amount(TCacheLarge, Mine(c) \cap Large, l)

\* Whether the NCache has enough.
Enough(c, b, l) ==
    /\ Cardinality(Global(c) \cap Base) >= AmountBase(c, b)
    /\ Cardinality(Global(c) \cap Large) >= AmountLarge(c, l)

\* The sets of frames that try_refill_tcache may move.  Base pages come
\* first; what was moved before the NCache runs out stays in the TCache.
Moves(c, b, l) ==
    LET base == Global(c) \cap Base
        large == Global(c) \cap Large
        fits == Cardinality(base) >= AmountBase(c, b)
    IN  {B \cup L : B \in {S \in SUBSET base :
                             Cardinality(S) = Least(Cardinality(base), AmountBase(c, b))},
                    L \in {S \in SUBSET large :
                             Cardinality(S) = IF fits THEN Least(Cardinality(large), AmountLarge(c, l))
                                              ELSE 0}}

\* A slip: short only if both kinds are.
ShortOfBoth(c, b, l) ==
    b > Cardinality(Mine(c) \cap Base) /\ l > Cardinality(Mine(c) \cap Large)

\* maybe_refill_tcache moves nothing unless the TCache is short of pages.
Short(c, b, l) ==
    b > Cardinality(Mine(c) \cap Base) \/ l > Cardinality(Mine(c) \cap Large)

MaybeMoves(c, b, l) == IF Short(c, b, l) THEN Moves(c, b, l) ELSE {{}}

MaybeEnough(c, b, l) == Short(c, b, l) => Enough(c, b, l)

\* A slip: the NCache keeps what it gives away.
RefillCopied(c, S, T) ==
    /\ ncache' = ncache
    /\ tcache' = [tcache EXCEPT ![c][affinity[c]] = (@ \cup S) \ T]

\* Frames S move from the NCache to the TCache, and T are taken from there.
Refill(c, S, T) ==
    /\ ncache' = [ncache EXCEPT ![affinity[c]] = @ \ S]
    /\ tcache' = [tcache EXCEPT ![c][affinity[c]] = (@ \cup S) \ T]

\* b base pages and l large pages of the frames in S.
Pick(S, b, l) ==
    {T \in SUBSET S : Cardinality(T \cap Base) = b /\ Cardinality(T \cap Large) = l}

Has(S, b, l) == Cardinality(S \cap Base) >= b /\ Cardinality(S \cap Large) >= l

\* Before the first allocation the NCaches hold all frames (GlobalMemory::new).
Init ==
    /\ ncache = [n \in Nodes |-> {f \in Frames : Home[f] = n}]
    /\ tcache = [c \in Cores |-> [n \in Nodes |-> {}]]
    /\ zone = {}
    /\ objects = {}
    /\ mapped = {}
    /\ label = [f \in Frames |-> Home[f]]
    /\ affinity \in [Cores -> Nodes]
    /\ req = [c \in Cores |-> None]
    /\ panic = None

Idle(c) == req[c] = None /\ panic = None

-----------------------------------------------------------------------------
(***************************************************************************)
(* GlobalAlloc::alloc: try_alloc, and try_refill when that fails, up to     *)
(* MaxTries times.                                                          *)
(***************************************************************************)

\* The allocator of a layout and the pages it needs (allocator_for and
\* refill_amount): objects of the zone allocator in a base page or a large
\* page, objects of up to a large page, and big objects.
Layouts ==
    {<<"zone", <<1, 0>>>>, <<"zone", <<0, 1>>>>, <<"large", <<0, 1>>>>}
    \cup {<<"big", s>> : s \in BigSizes}

Request(k, need) == [kind |-> k, need |-> need, tries |-> 0, refill |-> FALSE]

\* alloc is called.
Alloc(c) ==
    /\ Idle(c)
    /\ \E a \in Layouts : req' = [req EXCEPT ![c] = Request(a[1], a[2])]
    /\ UNCHANGED <<ncache, tcache, zone, objects, mapped, label, affinity, panic>>

Trying(c, k) == panic = None /\ req[c] # None /\ req[c].kind = k /\ ~req[c].refill

Done(c) == req' = [req EXCEPT ![c] = None]

\* A slip: no attempt follows a refill.
TryAgainNever(c) == Done(c)

\* The loop of alloc ends after MaxTries attempts.
TryAgain(c) ==
    LET tries == req[c].tries + 1
    IN  req' = [req EXCEPT ![c] = IF tries = MaxTries THEN None
                                  ELSE [@ EXCEPT !.tries = tries, !.refill = FALSE]]

Exhausted(c) == req' = [req EXCEPT ![c].refill = TRUE]

\* The zone allocator has room, for certain if it has just got a page, or
\* asks for a page.
TryZone(c) ==
    /\ Trying(c, "zone")
    /\ \/ Done(c)
       \/ req[c].tries = 0 /\ Exhausted(c)
    /\ UNCHANGED <<ncache, tcache, zone, objects, mapped, label, affinity, panic>>

TryLarge(c) ==
    /\ Trying(c, "large")
    /\ IF Mine(c) \cap Large = {}
       THEN Exhausted(c) /\ UNCHANGED <<tcache, objects>>
       ELSE \E f \in Mine(c) \cap Large :
               /\ tcache' = [tcache EXCEPT ![c][affinity[c]] = @ \ {f}]
               /\ objects' = objects \cup {f}
               /\ Done(c)
    /\ UNCHANGED <<ncache, zone, mapped, label, affinity, panic>>

\* Many base pages are replaced by a large page.
BigBase(s) == IF s[1] > MaxBigBase THEN 0 ELSE s[1]
BigLarge(s) == IF s[1] > MaxBigBase THEN s[2] + 1 ELSE s[2]

\* A big object is mapped page by page after a refill that is expected to
\* suffice; its page tables take pages into the zone allocator.
TryBig(c) ==
    /\ Trying(c, "big")
    /\ LET b == BigBase(req[c].need)
           l == BigLarge(req[c].need)
       IN  \E S \in MaybeMoves(c, b + PtPages, l) :
             IF ~MaybeEnough(c, b + PtPages, l)
             THEN Refill(c, S, {}) /\ Exhausted(c) /\ UNCHANGED <<zone, mapped, panic>>
             ELSE IF ~Has(Mine(c) \cup S, b + PtPages, l)
             THEN Refill(c, S, {}) /\ Done(c) /\ panic' = "refill" /\ UNCHANGED <<zone, mapped>>
             ELSE \E T \in Pick(Mine(c) \cup S, b, l), p \in 0..PtPages :
                    \E P \in Pick((Mine(c) \cup S) \ T, p, 0) :
                       /\ Refill(c, S, T \cup P)
                       /\ mapped' = mapped \cup T
                       /\ zone' = zone \cup P
                       /\ Done(c) /\ UNCHANGED panic
    /\ UNCHANGED <<objects, label, affinity>>

\* try_refill_zone: a page of the TCache goes to the zone allocator.
ZonePage(c, S, b, l) ==
    \E T \in Pick(Mine(c) \cup S, b, l) : Refill(c, S, T) /\ zone' = zone \cup T

\* try_refill for the zone allocator.
RefillZone(c) ==
    /\ panic = None /\ req[c] # None
    /\ req[c].kind = "zone" /\ req[c].refill
    /\ LET b == req[c].need[1]
           l == req[c].need[2]
       IN  \E S \in MaybeMoves(c, b, l) :
             IF MaybeEnough(c, b, l) /\ Has(Mine(c) \cup S, b, l)
             THEN ZonePage(c, S, b, l) /\ TryAgain(c)
             ELSE Refill(c, S, {}) /\ Done(c) /\ UNCHANGED zone
    /\ UNCHANGED <<objects, mapped, label, affinity, panic>>

\* try_refill for large pages and big objects.
RefillLarge(c) ==
    /\ panic = None /\ req[c] # None
    /\ req[c].kind \in {"large", "big"} /\ req[c].refill
    /\ LET b == req[c].need[1]
           l == req[c].need[2]
       IN  \E S \in Moves(c, b, l) :
             /\ Refill(c, S, {})
             /\ IF Enough(c, b, l) THEN TryAgain(c) ELSE Done(c)
    /\ UNCHANGED <<zone, objects, mapped, label, affinity, panic>>

\* dealloc of a large page: the frame is taken for one of the node of the
\* core's affinity, whatever node it came from (TODO(numa-correctness)), and
\* that node's TCache is expected to have room.
DeallocLarge(c) ==
    /\ Idle(c)
    /\ \E f \in objects :
         IF Cardinality(Mine(c) \cap Large) < TCacheLarge
         THEN /\ tcache' = [tcache EXCEPT ![c][affinity[c]] = @ \cup {f}]
              /\ objects' = objects \ {f}
              /\ label' = [label EXCEPT ![f] = affinity[c]]
              /\ UNCHANGED panic
         ELSE panic' = "dealloc" /\ UNCHANGED <<tcache, objects, label>>
    /\ UNCHANGED <<ncache, zone, mapped, affinity, req>>

(***************************************************************************)
(* Frames for processes.                                                    *)
(***************************************************************************)

\* handle_vspace, MapMem: refill, then take the frames.
MapMem(c) ==
    /\ Idle(c)
    /\ \E s \in MapSizes : \E S \in Moves(c, PtPages + s[1], s[2]) :
         IF ~Enough(c, PtPages + s[1], s[2])
         THEN Refill(c, S, {}) /\ UNCHANGED <<mapped, panic>>
         ELSE IF ~Has(Mine(c) \cup S, s[1], s[2])
         THEN Refill(c, S, {}) /\ panic' = "refill" /\ UNCHANGED mapped
         ELSE \E T \in Pick(Mine(c) \cup S, s[1], s[2]) :
                 Refill(c, S, T) /\ mapped' = mapped \cup T /\ UNCHANGED panic
    /\ UNCHANGED <<zone, objects, label, affinity, req>>

\* AllocatePhysical: one page; running out is an error.
AllocatePhysical(c) ==
    /\ Idle(c)
    /\ \E b \in {0, 1} : \E S \in Moves(c, b, 1 - b) :
         IF Enough(c, b, 1 - b) /\ Has(Mine(c) \cup S, b, 1 - b)
         THEN \E T \in Pick(Mine(c) \cup S, b, 1 - b) :
                 Refill(c, S, T) /\ mapped' = mapped \cup T
         ELSE Refill(c, S, {}) /\ UNCHANGED mapped
    /\ UNCHANGED <<zone, objects, label, affinity, req, panic>>

\* allocate_dispatchers refills the TCache for the page tables ...
AllocateDispatchers(c) ==
    /\ Idle(c)
    /\ \E S \in Moves(c, PtPages, 1) :
         /\ Refill(c, S, {})
         /\ req' = IF Enough(c, PtPages, 1)
                   THEN [req EXCEPT ![c] = Request("dispatchers", <<0, 0>>)]
                   ELSE req
    /\ UNCHANGED <<zone, objects, mapped, label, affinity, panic>>

\* ... and takes the dispatcher frame from the NCache of a node itself.
DispatcherFrame(c) ==
    /\ Trying(c, "dispatchers")
    /\ \E n \in Nodes :
         IF ncache[n] \cap Large = {} THEN UNCHANGED <<ncache, mapped>>
         ELSE \E f \in ncache[n] \cap Large :
                 /\ ncache' = [ncache EXCEPT ![n] = @ \ {f}]
                 /\ mapped' = mapped \cup {f}
    /\ Done(c)
    /\ UNCHANGED <<tcache, zone, objects, label, affinity, panic>>

\* set_mem_affinity: another arena is swapped in.
SetMemAffinity(c) ==
    /\ Idle(c)
    /\ \E n \in Nodes \ {affinity[c]} : affinity' = [affinity EXCEPT ![c] = n]
    /\ UNCHANGED <<ncache, tcache, zone, objects, mapped, label, req, panic>>

Next ==
    \E c \in Cores :
        \/ Alloc(c) \/ TryZone(c) \/ TryLarge(c) \/ TryBig(c)
        \/ RefillZone(c) \/ RefillLarge(c) \/ DeallocLarge(c)
        \/ MapMem(c) \/ AllocatePhysical(c)
        \/ AllocateDispatchers(c) \/ DispatcherFrame(c)
        \/ SetMemAffinity(c)

Spec == Init /\ [][Next]_vars

-----------------------------------------------------------------------------
Places(f) ==
    {<<"ncache", n>> : n \in {m \in Nodes : f \in ncache[m]}}
    \cup {<<"tcache", p>> : p \in {q \in Cores \X Nodes : f \in tcache[q[1]][q[2]]}}
    \cup (IF f \in zone THEN {<<"zone">>} ELSE {})
    \cup (IF f \in objects THEN {<<"object">>} ELSE {})
    \cup (IF f \in mapped THEN {<<"mapped">>} ELSE {})

\* A frame is in one place: no two cores, caches, kernel objects or processes
\* have it, and none is lost, also where a refill fails half way (the `?` in
\* the loops of try_refill_tcache) or the frame is freed under an affinity it
\* was not allocated under.  If that place is a cache it is one of the node
\* the frame is labelled with, as release and grow assert.
OneOwner ==
    \A f \in Frames :
        /\ Cardinality(Places(f)) = 1
        /\ \A n \in Nodes \ {label[f]} : f \notin ncache[n] \cup UNION {tcache[c][n] : c \in Cores}

\* "We refilled so allocation should work.", "Can't run out of memory": when
\* a refill succeeds the TCache has the pages, for every request of no more
\* pages than fit in a TCache.
RefillSuffices == panic # "refill"

\* alloc of up to a large page returns null only when neither the TCache nor
\* the NCache has a page, whatever other cores take between the attempts.
NullOnlyWhenOut ==
    [][\A c \in Cores :
         (req[c] # None /\ req[c].refill /\ req[c].kind # "big" /\ req'[c] = None)
         => ~Has(Mine(c) \cup Global(c), req[c].need[1], req[c].need[2])]_vars
=============================================================================
