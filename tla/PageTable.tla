----------------------------- MODULE PageTable -----------------------------
(***************************************************************************)
(* The page tables of the kernel and of the boot loader as operators.      *)
(*                                                                         *)
(* Addresses count base pages.  A table has Entries entries, so an entry   *)
(* of level 0 (a PT) stands for one page, of level 1 (a PD) for a large    *)
(* page, of level 2 (a PDPT) for a huge page, and an entry of level 3 (the *)
(* PML4) for a PDPT.  A page table is a function from the positions of its *)
(* present entries, pairs of a level and the first address the entry       *)
(* stands for, to entries.  No table is shared, so a position names the    *)
(* table that holds the entry as well.                                     *)
(***************************************************************************)
EXTENDS Integers, FiniteSets, FiniteSetsExt, Functions, TLC

CONSTANT Entries    \* PAGE_SIZE_ENTRIES

ASSUME PageTableAssumption == Entries \in Nat /\ Entries > 1

SizeAt(level) == Entries ^ level

Slot(level, vaddr) == vaddr - (vaddr % SizeAt(level))

Index(level, vaddr) == (vaddr \div SizeAt(level)) % Entries

Pos(level, vaddr) == <<level, Slot(level, vaddr)>>

-----------------------------------------------------------------------------
(* Rights and the flags that encode them.                                  *)

MapAction == {"None", "ReadUser", "ReadKernel", "ReadWriteUser",
              "ReadWriteUserNoCache", "ReadWriteKernel", "ReadExecuteUser",
              "ReadExecuteKernel", "ReadWriteExecuteUser",
              "ReadWriteExecuteKernel"}

is_writable(action) ==
  action \in {"ReadWriteUser", "ReadWriteUserNoCache", "ReadWriteKernel",
              "ReadWriteExecuteUser", "ReadWriteExecuteKernel"}

is_executable(action) ==
  action \in {"ReadExecuteUser", "ReadExecuteKernel", "ReadWriteExecuteUser",
              "ReadWriteExecuteKernel"}

is_user(action) ==
  action \in {"ReadUser", "ReadWriteUser", "ReadWriteUserNoCache",
              "ReadExecuteUser", "ReadWriteExecuteUser"}

(* The flags of an entry.  Nothing sets PCD, so the rights to a region    *)
(* without caching are those of an ordinary one, and None does not clear  *)
(* the present bit, which the callers add.                                *)
Flags(action) ==
  {"P"} \cup (IF is_writable(action) THEN {"RW"} ELSE {})
        \cup (IF is_user(action) THEN {"US"} ELSE {})
        \cup (IF is_executable(action) \/ action = "None" THEN {} ELSE {"XD"})

(* The three conversions of flags, one for each kind of entry, agree.     *)
Rights(flags) ==
  CASE flags = {"P", "US", "XD"}              -> "ReadUser"
    [] flags = {"P", "XD"}                    -> "ReadKernel"
    [] flags = {"P", "RW", "US", "XD", "PCD"} -> "ReadWriteUserNoCache"
    [] flags = {"P", "RW", "US", "XD"}        -> "ReadWriteUser"
    [] flags = {"P", "RW", "XD"}              -> "ReadWriteKernel"
    [] flags = {"P", "US"}                    -> "ReadExecuteUser"
    [] flags = {"P", "RW", "US"}              -> "ReadWriteExecuteUser"
    [] flags = {"P", "RW"}                    -> "ReadWriteExecuteKernel"
    [] flags = {"P"}                          -> "ReadExecuteKernel"
    [] OTHER                                  -> "None"

-----------------------------------------------------------------------------
(* Entries.                                                                *)

Table == [page |-> FALSE, addr |-> -1, flags |-> {"P", "RW", "US"}]

Page(paddr, action) == [page |-> TRUE, addr |-> paddr, flags |-> Flags(action)]

EmptyTable == << >>

Present(t, level, vaddr) == Pos(level, vaddr) \in DOMAIN t

IsPage(t, level, vaddr) ==
  Present(t, level, vaddr) /\ t[Pos(level, vaddr)].page

Set(t, level, vaddr, entry) == Pos(level, vaddr) :> entry @@ t

Clear(t, level, vaddr) == Restrict(t, DOMAIN t \ {Pos(level, vaddr)})

(* The table below an entry has no present entry.                          *)
BelowIsEmpty(t, level, vaddr) ==
  \A pos \in DOMAIN t :
     pos[1] = level - 1 => Slot(level, pos[2]) # Slot(level, vaddr)

(* get_or_alloc_pdpt, new_pd, new_pt: a zeroed table.                      *)
WithTable(t, level, vaddr) ==
  IF Present(t, level, vaddr) THEN t ELSE Set(t, level, vaddr, Table)

-----------------------------------------------------------------------------
(* Mapping.                                                                *)

Outcome(t, result) == [table |-> t, result |-> result]

(* A region of size pages at paddr that starts where an entry does and is  *)
(* at least as large as what the entry stands for.                         *)
Fits(level, vaddr, paddr, size) ==
  /\ vaddr = Slot(level, vaddr)
  /\ paddr % SizeAt(level) = 0
  /\ size >= SizeAt(level)

RECURSIVE map_generic(_, _, _, _, _, _)

(* insert_huge_mappings, insert_large_mappings and insert_base_mappings    *)
(* differ in the level.  They fill n entries, up to the end of the table,  *)
(* and leave the rest to map_generic.  Without insert they only look for   *)
(* conflicts.                                                              *)
InConflict(t, level, vaddr, paddr, n, action) ==
  \E i \in 0 .. n - 1 :
     /\ Present(t, level, vaddr + i * SizeAt(level))
     /\ LET e == t[Pos(level, vaddr + i * SizeAt(level))]
        IN  e.addr # paddr + i * SizeAt(level) \/ Rights(e.flags) # action

Filled(t, level, vaddr, paddr, n, action) ==
  [pos \in {Pos(level, vaddr + i * SizeAt(level)) : i \in 0 .. n - 1} |->
     Page(paddr + (pos[2] - vaddr), action)] @@ t

insert_mappings(t, level, vaddr, paddr, size, action, insert) ==
  LET n == Min({size \div SizeAt(level), Entries - Index(level, vaddr)})
      mapped == n * SizeAt(level)
      after == IF insert THEN Filled(t, level, vaddr, paddr, n, action) ELSE t
  IN  IF InConflict(t, level, vaddr, paddr, n, action)
      THEN Outcome(t, IF insert THEN "Panic" ELSE "AlreadyMapped")
      ELSE IF mapped = size THEN Outcome(after, "Ok")
      ELSE map_generic(after, vaddr + mapped, paddr + mapped, size - mapped,
                       action, insert)

(* One level of map_generic: use the entry for a page if the region fits   *)
(* and the table below it, left by earlier mappings, is empty; go one      *)
(* level down otherwise.  When the entry is a page the check reads the     *)
(* mapped frame as if it were a table; the result depends on what is in    *)
(* the frame, and is counted as a panic.                                   *)
RECURSIVE MapAt(_, _, _, _, _, _, _)
MapAt(t, level, vaddr, paddr, size, action, insert) ==
  LET fits == Fits(level, vaddr, paddr, size)
      deeper == WithTable(t, level, vaddr)
      page == level > 0 /\ IsPage(t, level, vaddr)
      here == level = 0 \/ (fits /\ BelowIsEmpty(t, level, vaddr))
  IN  CASE page -> Outcome(t, IF fits \/ insert THEN "Panic" ELSE "AlreadyMapped")
        [] ~page /\ here ->
             insert_mappings(IF level = 0 THEN t ELSE Clear(t, level, vaddr), level,
                             vaddr, paddr, size, action, insert)
        [] OTHER -> MapAt(deeper, level - 1, vaddr, paddr, size, action, insert)

map_generic(t, vaddr, paddr, size, action, insert) ==
  MapAt(WithTable(t, 3, vaddr), 2, vaddr, paddr, size, action, insert)

map_identity_with_offset(t, offset, paddr, size, action) ==
  map_generic(t, offset + paddr, paddr, size, action, TRUE)

-----------------------------------------------------------------------------
(* Looking up and changing the one entry an address is mapped by.          *)

Leaf(t, vaddr) ==
  {level \in 0 .. 2 : /\ IsPage(t, level, vaddr)
                      /\ \A k \in level + 1 .. 3 :
                           Present(t, k, vaddr) /\ ~IsPage(t, k, vaddr)}

NotMapped == [result |-> "NotMapped"]

Resolved(paddr, action) ==
  [result |-> "Ok", paddr |-> paddr, rights |-> action]

resolve(t, vaddr) ==
  LET leaf == Leaf(t, vaddr)
      level == CHOOSE l \in leaf : TRUE
      e == t[Pos(level, vaddr)]
  IN  IF leaf = {} THEN NotMapped
      ELSE Resolved(e.addr + (vaddr % SizeAt(level)), Rights(e.flags))

(* modify_generic finds the region, Unmap and UpdateRights change it.      *)
Region(t, vaddr) ==
  LET level == CHOOSE l \in Leaf(t, vaddr) : TRUE
  IN  [level |-> level, vaddr |-> Slot(level, vaddr), size |-> SizeAt(level),
       paddr |-> t[Pos(level, vaddr)].addr]

Unmapped(t, vaddr) == Clear(t, Region(t, vaddr).level, vaddr)

Adjusted(t, vaddr, action) ==
  Set(t, Region(t, vaddr).level, vaddr, Page(Region(t, vaddr).paddr, action))

=============================================================================
