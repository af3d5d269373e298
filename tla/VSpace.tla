------------------------------- MODULE VSpace -------------------------------
(***************************************************************************)
(* VSpace as a data type: a record of the mappings that were made,         *)
(*   mappings : from base address to [frame : [base, size], rights]        *)
(* and the page table that holds them.  The operators return the new       *)
(* address space and the result of the call.                               *)
(***************************************************************************)
EXTENDS PageTable

NewVSpace == [mappings |-> EmptyTable, table |-> EmptyTable]

Covers(base, size, vaddr) == base <= vaddr /\ vaddr < base + size

Overlap(b1, s1, b2, s2) == b1 < b2 + s2 /\ b2 < b1 + s1

Invalid(base, frame) ==
  IF frame.size = 0 \/ frame.base % frame.size # 0 THEN "InvalidFrame"
  ELSE IF base % frame.size # 0 THEN "InvalidBase"
  ELSE "Ok"

SameMapping(vs, existing, base, frame, action) ==
  /\ existing = base
  /\ vs.mappings[existing].frame.base = frame.base
  /\ vs.mappings[existing].frame.size <= frame.size
  /\ vs.mappings[existing].rights = action

(* What the last mapping that starts below an address says of a region:    *)
(* the region is free, mapped like this already, or in conflict.           *)
RecordedBelow(vs, end, base, frame, action) ==
  LET below == {b \in DOMAIN vs.mappings : b < end}
      last  == Max(below)
  IN  IF below = {} \/ last + vs.mappings[last].frame.size <= base THEN "Free"
      ELSE IF SameMapping(vs, last, base, frame, action) THEN "Ok"
      ELSE "AlreadyMapped"

(* A slip: looks for mappings that start below the region only.            *)
RecordedBelowStart(vs, base, frame, action) ==
  RecordedBelow(vs, base + 1, base, frame, action)

Recorded(vs, base, frame, action) ==
  RecordedBelow(vs, base + frame.size, base, frame, action)

(* A slip: records the frame as if it were one page.                       *)
RecordPage(vs, base, frame, action) ==
  base :> [frame |-> [frame EXCEPT !.size = 1], rights |-> action] @@ vs.mappings

Record(vs, base, frame, action) ==
  base :> [frame |-> frame, rights |-> action] @@ vs.mappings

WithMappings(mappings, mapped) ==
  [vs |-> [mappings |-> mappings, table |-> mapped.table], result |-> mapped.result]

(* The frame is recorded before it is put into the page table.             *)
map_frame(vs, base, frame, action) ==
  LET recorded == Recorded(vs, base, frame, action)
  IN  IF Invalid(base, frame) # "Ok" THEN [vs |-> vs, result |-> Invalid(base, frame)]
      ELSE IF recorded # "Free" THEN [vs |-> vs, result |-> recorded]
      ELSE WithMappings(Record(vs, base, frame, action),
                        map_generic(vs.table, base, frame.base, frame.size, action, TRUE))

(* The last mapping that starts at or below the address has to contain it. *)
(* Without any, the page table decides.  One entry of the table goes, and  *)
(* the mapping recorded at its start.                                      *)
unmap(vs, vaddr) ==
  LET below == {b \in DOMAIN vs.mappings : b <= vaddr}
      last  == Max(below)
      r     == Region(vs.table, vaddr)
      no    == [vs |-> vs, result |-> NotMapped, known |-> TRUE]
  IN  IF below # {} /\ ~Covers(last, vs.mappings[last].frame.size, vaddr) THEN no
      ELSE IF Leaf(vs.table, vaddr) = {} THEN no
      ELSE [vs |-> [table |-> Unmapped(vs.table, vaddr),
                    mappings |-> Restrict(vs.mappings, DOMAIN vs.mappings \ {r.vaddr})],
            result |-> [result |-> "Ok", vaddr |-> r.vaddr, paddr |-> r.paddr, size |-> r.size],
            known |-> r.vaddr \in DOMAIN vs.mappings]

(* The rights change in the page table first and then in the record.       *)
adjust(vs, vaddr, action) ==
  LET r == Region(vs.table, vaddr)
      table == Adjusted(vs.table, vaddr, action)
  IN  IF Leaf(vs.table, vaddr) = {} THEN [vs |-> vs, result |-> NotMapped]
      ELSE IF r.vaddr \notin DOMAIN vs.mappings
      THEN [vs |-> [vs EXCEPT !.table = table], result |-> NotMapped]
      ELSE [vs |-> [table |-> table,
                    mappings |-> [vs.mappings EXCEPT ![r.vaddr].rights = action]],
            result |-> [result |-> "Ok", vaddr |-> r.vaddr, size |-> r.size]]
=============================================================================
