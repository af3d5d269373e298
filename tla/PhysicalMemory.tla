--------------------------- MODULE PhysicalMemory ---------------------------
(***************************************************************************)
(* How physical memory is cut up when the kernel starts: frames, the       *)
(* filling of the page caches, and the allocators of the NUMA nodes.       *)
(*                                                                         *)
(* Sizes and addresses count base pages.  A frame is a record of a base, a *)
(* size and the node the memory is local to.  A cache is a record of the   *)
(* base pages and the large pages in it, in the order they were added.     *)
(***************************************************************************)
EXTENDS Integers, SequencesExt

CONSTANTS LargePage,            \* LARGE_PAGE_SIZE
          TCacheBP, TCacheLP,   \* capacities of TCache
          EarlyBP, EarlyLP,     \* capacities of TCacheSp
          NCacheBP, NCacheLP,   \* capacities of NCache
          EarlyCapacity,        \* EARLY_MEMORY_CAPACITY
          EmemSize,             \* EMEM_SIZE
          OneMiB

Frame(base, size, node) == [base |-> base, size |-> size, affinity |-> node]

EmptyFrame == Frame(0, 0, 0)

RoundUp(n, size) == ((n + size - 1) \div size) * size

split_at(frame, size) ==
  IF size >= frame.size THEN <<frame, EmptyFrame>>
  ELSE <<Frame(frame.base, size, frame.affinity),
         Frame(frame.base + size, frame.size - size, frame.affinity)>>

split_at_nearest_large_page_boundary(frame) ==
  IF frame.base % LargePage = 0 THEN <<EmptyFrame, frame>>
  ELSE split_at(frame, RoundUp(frame.base, LargePage) - frame.base)

(* Iterating over a frame gives its base pages.                            *)
BasePages(frame) == [i \in 1 .. frame.size |-> frame.base + i - 1]

-----------------------------------------------------------------------------
(* Filling a cache.  Pages that do not fit are lost.                       *)

NewCache(bp, lp) == [bp |-> bp, lp |-> lp, base |-> << >>, large |-> << >>]

FirstOf(seq, n) == SubSeq(seq, 1, IF n < Len(seq) THEN n ELSE Len(seq))

PushBase(cache, pages) ==
  [cache EXCEPT !.base = FirstOf(@ \o pages, cache.bp)]

PushLarge(cache, pages) ==
  [cache EXCEPT !.large = FirstOf(@ \o pages, cache.lp)]

(* A slip: the pages below the first large page are added again with the   *)
(* rest.                                                                   *)
populateTwice(cache, frame, how_many) ==
  LET parts == split_at_nearest_large_page_boundary(frame)
      wanted == IF how_many = 0 THEN 1 ELSE how_many
      room == parts[2].size \div LargePage
      n == IF wanted < room THEN wanted ELSE room
      larges == [i \in 1 .. n |-> parts[2].base + (i - 1) * LargePage]
  IN  PushBase(PushLarge(PushBase(cache, BasePages(parts[1])), larges),
               BasePages(Frame(frame.base + n * LargePage,
                               frame.size - n * LargePage, frame.affinity)))

(* populate: the pages below the first large page boundary, then large     *)
(* pages, then the rest as base pages.                                     *)
populate(cache, frame, how_many) ==
  LET parts == split_at_nearest_large_page_boundary(frame)
      wanted == IF how_many = 0 THEN 1 ELSE how_many
      room == parts[2].size \div LargePage
      n == IF wanted < room THEN wanted ELSE room
      larges == [i \in 1 .. n |-> parts[2].base + (i - 1) * LargePage]
      rest == Frame(parts[2].base + n * LargePage,
                    parts[2].size - n * LargePage, frame.affinity)
  IN  PushBase(PushLarge(PushBase(cache, BasePages(parts[1])), larges),
               BasePages(rest))

populate_4k_first(cache, frame) ==
  populate(cache, frame,
           IF frame.size > cache.bp THEN (frame.size - cache.bp) \div LargePage
           ELSE 1)

populate_2m_first(cache, frame) ==
  populate(cache, frame, ((frame.size \div LargePage) * 87) \div 100)

CachePages(cache) ==
  ToSet(cache.base)
  \cup UNION {p .. p + LargePage - 1 : p \in ToSet(cache.large)}

(* Every page is in the cache once.                                        *)
NoDuplicates(cache) ==
  /\ IsInjective(cache.base) /\ IsInjective(cache.large)
  /\ \A p \in ToSet(cache.large) :
       (p .. p + LargePage - 1) \cap ToSet(cache.base) = {}

-----------------------------------------------------------------------------
(* The regions of the UEFI memory map the kernel uses.                     *)

(* The walk over the memory map: the first region that is large enough     *)
(* gives the early allocator its memory; what lies below OneMiB is left    *)
(* alone.                                                                  *)
EarlyMemory(regions) ==
  FoldLeft(LAMBDA acc, f :
             IF f.base < OneMiB THEN acc
             ELSE IF f.size > EarlyCapacity /\ acc.early = EmptyFrame
             THEN LET parts == split_at(f, EarlyCapacity)
                  IN  [early |-> parts[1],
                       regions |-> IF parts[2] = EmptyFrame THEN acc.regions
                                   ELSE Append(acc.regions, parts[2])]
             ELSE [acc EXCEPT !.regions = Append(@, f)],
           [early |-> EmptyFrame, regions |-> << >>], regions)

(* The part of a frame inside [lo, hi).                                    *)
Intersection(frame, range, node) ==
  LET lo == IF frame.base > range[1] THEN frame.base ELSE range[1]
      end == frame.base + frame.size
      hi == IF end < range[2] THEN end ELSE range[2]
  IN  IF lo < hi THEN <<Frame(lo, hi - lo, node)>> ELSE << >>

(* Every region is split among the nodes.  affinity is a sequence of       *)
(* [node, range], in the order of the nodes.                               *)
identify_numa_affinity(regions, affinity) ==
  IF affinity = << >> THEN regions
  ELSE FlattenSeq([i \in 1 .. Len(regions) |->
         FlattenSeq([j \in 1 .. Len(affinity) |->
           Intersection(regions[i], affinity[j].range, affinity[j].node)])])

TotalSize(frames) == FoldLeft(LAMBDA sum, f : sum + f.size, 0, frames)

SortedByAffinity(frames) ==
  \A i, j \in 1 .. Len(frames) :
     i < j => frames[i].affinity <= frames[j].affinity

-----------------------------------------------------------------------------
(* GlobalMemory::new.                                                      *)

(* One early cache for every node, from the first frame of the node that   *)
(* is large enough.  What lies below the first large page of that frame    *)
(* stays, what lies above the early memory goes to the left-overs.         *)
Emem(memory) ==
  FoldLeft(LAMBDA acc, f :
             IF f.affinity = Len(acc.emem) /\ f.size > EmemSize
             THEN LET parts == split_at_nearest_large_page_boundary(f)
                      cut == split_at(parts[2], EmemSize)
                  IN  [emem |-> Append(acc.emem,
                                       populate_4k_first(NewCache(TCacheBP, TCacheLP), cut[1])),
                       low |-> Append(acc.low, parts[1]),
                       leftovers |-> IF cut[2] = EmptyFrame THEN acc.leftovers
                                     ELSE Append(acc.leftovers, cut[2])]
             ELSE [acc EXCEPT !.low = Append(@, f)],
           [emem |-> << >>, low |-> << >>, leftovers |-> << >>], memory)

MaxAffinity(memory) ==
  FoldLeft(LAMBDA m, f : IF f.affinity >= m THEN f.affinity + 1 ELSE m, 0, memory)

(* Why GlobalMemory::new stops, "Ok" if it does not.                       *)
GlobalMemoryResult(memory) ==
  LET e == Emem(memory)
  IN  IF ~SortedByAffinity(memory) THEN "unsorted"
      ELSE IF Len(e.emem) # MaxAffinity(memory) THEN "no early memory"
      ELSE IF \E i \in 1 .. Len(e.emem) : e.emem[i].large = << >> THEN "CacheExhausted"
      ELSE "Ok"

(* Each NCache lives in the last large page of the node's early cache and  *)
(* gets all remaining memory of the node.                                  *)
GlobalMemory(memory) ==
  LET e == Emem(memory)
      rest == e.low \o e.leftovers
      Local(node) == SelectSeq(rest, LAMBDA f : f.affinity = node)
  IN  [emem |-> [i \in 1 .. Len(e.emem) |->
                   [e.emem[i] EXCEPT !.large = Front(@)]],
       self |-> [i \in 1 .. Len(e.emem) |-> Last(e.emem[i].large)],
       node_caches |-> [i \in 1 .. Len(e.emem) |->
         FoldLeft(LAMBDA c, f : populate_2m_first(c, f),
                  NewCache(NCacheBP, NCacheLP), Local(i - 1))]]
=============================================================================
