---------------------------- MODULE Ring3Process ----------------------------
(***************************************************************************)
(* A user process as the replicas of the kernel hold it: loading an ELF    *)
(* file, the executors it runs on, the frames it owns, and the operations  *)
(* of the node-replicated process.                                         *)
(*                                                                         *)
(* Addresses count base pages, and one word stands for what is in a page.  *)
(* Every operator that uses memory takes and returns                       *)
(*   m = [mem : physical page -> word, pool : frames that are free]        *)
(* where pool is the memory of the node that runs the operation.           *)
(***************************************************************************)
EXTENDS VSpace, SequencesExt

CONSTANTS ELF_OFFSET, EXECUTOR_OFFSET,
          Stack,                                  \* pages of each of the two stacks
          MAX_WRITEABLE_SECTIONS_PER_PROCESS, MAX_FRAMES_PER_PROCESS

LARGE == SizeAt(1)

Junk == <<"junk", 0>>
Address(a) == <<"address", a>>

Store(mem, at, words) == [p \in at .. at + Len(words) - 1 |-> words[p - at + 1]] @@ mem

-----------------------------------------------------------------------------
(* The ELF file: [pie, entry, headers, relocs, tls].  A header has a       *)
(* virtual address, a size in memory, the words that are in the file and   *)
(* its flags; a relocation an offset, an addend and whether it is of the   *)
(* only type that is supported.                                            *)

Offset(elf) == IF elf.pie THEN ELF_OFFSET ELSE 0

LargePages(h) == ((h.memsz + (h.vaddr % LARGE)) + LARGE - 1) \div LARGE

PagesOf(h) == [i \in 1 .. LargePages(h) |->
                 [header |-> h, index |-> i, at |-> Slot(1, h.vaddr) + ((i - 1) * LARGE)]]

Pages(headers) == FlattenSeq([k \in DOMAIN headers |-> PagesOf(headers[k])])

Writeable(headers) == SelectSeq(headers, LAMBDA h : h.w)

(* DataSecAllocator: a frame for every page of every writeable header, the *)
(* words of the file, and relocations.                                     *)
DataFrames(elf, pool) ==
  LET pages == Pages(Writeable(elf.headers))
  IN  [i \in DOMAIN pages |-> [elf |-> pages[i].at, base |-> pool[i]]]

(* A slip: starts over in every frame the region overlaps.                 *)
CopyIntoAgain(acc, f) ==
  LET end  == acc.dest + Len(acc.region)
      from == Max({f.elf, acc.dest})
      to   == Min({f.elf + LARGE, end})
  IN  IF ~(acc.dest < f.elf + LARGE /\ f.elf < end) THEN acc
      ELSE [acc EXCEPT !.mem = Store(acc.mem, f.base + (from - f.elf),
                                     SubSeq(acc.region, 1, to - from))]

(* One turn of the copy loop: the part of the region that is in the frame. *)
CopyInto(acc, f) ==
  LET end  == acc.dest + Len(acc.region)
      from == Max({f.elf, acc.dest}) - acc.dest
      to   == Min({f.elf + LARGE, end}) - acc.dest
  IN  IF ~(acc.dest < f.elf + LARGE /\ f.elf < end) THEN acc
      ELSE [mem |-> Store(acc.mem, f.base + (acc.dest - f.elf),
                          SubSeq(acc.region, from + 1, to)),
            dest |-> acc.dest + (to - from),
            region |-> SubSeq(acc.region, to + 1, Len(acc.region))]

LoadData(mem, frames, h) ==
  FoldLeft(CopyInto, [mem |-> mem, dest |-> h.vaddr, region |-> h.data], frames).mem

(* The comparison with the end of the frame is not strict.                 *)
RelocateData(mem, elf, frames, r) ==
  LET addr == Offset(elf) + r.offset
      base(f) == Slot(1, Offset(elf) + f.elf)
      hits == SelectSeq(frames, LAMBDA f : base(f) <= addr /\ addr <= base(f) + LARGE)
  IN  [p \in {hits[i].base + (addr - base(hits[i])) : i \in DOMAIN hits} |->
         Address(Offset(elf) + r.addend)] @@ mem

(* The first half of make_process: the frames of the data sections.        *)
DataSections(elf, m) ==
  LET frames == DataFrames(elf, m.pool)
      loaded == FoldLeft(LAMBDA mem, h : LoadData(mem, frames, h), m.mem,
                         Writeable(elf.headers))
  IN  [mem |-> FoldLeft(LAMBDA mem, r : RelocateData(mem, elf, frames, r), loaded, elf.relocs),
       pool |-> SubSeq(m.pool, Len(frames) + 1, Len(m.pool)),
       frames |-> [i \in DOMAIN frames |-> frames[i].base]]

-----------------------------------------------------------------------------
(* The process.                                                            *)

NewProcess(nodes) ==
  [vspace |-> NewVSpace, offset |-> ELF_OFFSET, entry |-> 0, tls |-> 0, loaded |-> FALSE,
   sections |-> << >>, read_only |-> 0, eid |-> 0, executor_offset |-> EXECUTOR_OFFSET,
   cache |-> [n \in nodes |-> << >>], frames |-> << >>, cores |-> << >>]

Action(h) == CASE ~h.w /\ ~h.x -> "ReadUser"
               [] ~h.w /\ h.x  -> "ReadExecuteUser"
               [] h.w /\ ~h.x  -> "ReadWriteUser"
               [] OTHER        -> "ReadWriteExecuteUser"

(* A header that can be written uses the frames all replicas share,        *)
(* counted from the first one for every header; the others are replicated. *)
FrameFor(acc, page) ==
  IF page.header.w THEN acc.p.sections[page.index] ELSE Head(acc.pool)

AfterMapPage(acc, page, mapped) ==
  [acc EXCEPT !.p.vspace = mapped.vs,
              !.pool = IF page.header.w THEN acc.pool ELSE Tail(acc.pool),
              !.ok = acc.ok /\ mapped.result = "Ok"]

MapPage(acc, page) ==
  AfterMapPage(acc, page, map_frame(acc.p.vspace, acc.p.offset + page.at,
                                    [base |-> FrameFor(acc, page), size |-> LARGE],
                                    Action(page.header)))

allocate(acc, headers) == FoldLeft(MapPage, acc, Pages(headers))

At(p, vaddr) == resolve(p.vspace.table, vaddr).paddr

(* load: what can be written is there already.                             *)
LoadHeader(acc, h) ==
  LET dest == acc.p.offset + h.vaddr
  IN  IF h.w THEN acc
      ELSE [acc EXCEPT
              !.mem = [q \in {At(acc.p, dest + i - 1) : i \in DOMAIN h.data} |->
                         h.data[CHOOSE i \in DOMAIN h.data : At(acc.p, dest + i - 1) = q]] @@ acc.mem,
              !.p.read_only = dest + Len(h.data)]

(* relocate: not what lies behind the last header that is read-only.       *)
Relocate(acc, r) ==
  LET addr == acc.p.offset + r.offset
  IN  IF addr >= acc.p.read_only THEN acc
      ELSE [acc EXCEPT !.mem = At(acc.p, addr) :> Address(acc.p.offset + r.addend) @@ acc.mem]

Loaded(acc, elf) == [acc EXCEPT !.p.tls = acc.p.offset + elf.tls, !.p.loaded = TRUE]

(* Process::load, in the order in which the ELF library calls back.        *)
load(p, elf, sections, m) ==
  LET fresh == [p EXCEPT !.sections = sections, !.offset = Offset(elf), !.entry = elf.entry]
      mapped == allocate([p |-> fresh, mem |-> m.mem, pool |-> m.pool, ok |-> TRUE], elf.headers)
      filled == FoldLeft(LoadHeader, mapped, elf.headers)
  IN  Loaded(FoldLeft(Relocate, filled, elf.relocs), elf)

-----------------------------------------------------------------------------
(* Executors.                                                              *)

EXECUTOR_SPACE_REQUIREMENT == 2 * Stack + 1

stack_top(ex) == ex.stack_base + Stack - 1

upcall_stack_top(ex) == ex.upcall_stack_base + Stack - 1

(* A slip: every executor uses the page table of the first replica.        *)
NewExecutorOfFirst(p, node, frame, i) ==
  LET from == p.executor_offset + i * EXECUTOR_SPACE_REQUIREMENT
  IN  [eid |-> p.eid + i, stack_base |-> from, upcall_stack_base |-> from + Stack,
       vcpu_ctl |-> from + 2 * Stack, vcpu_ctl_kernel |-> frame.base + 2 * Stack,
       affinity |-> frame.affinity, entry_point |-> p.offset + p.entry,
       pml4 |-> Min(DOMAIN p.cache)]

(* The i-th executor in a frame.  The address under which the kernel sees  *)
(* its virtual CPU is computed from the start of the frame.                *)
NewExecutor(p, node, frame, i) ==
  LET from == p.executor_offset + i * EXECUTOR_SPACE_REQUIREMENT
  IN  [eid |-> p.eid + i, stack_base |-> from, upcall_stack_base |-> from + Stack,
       vcpu_ctl |-> from + 2 * Stack, vcpu_ctl_kernel |-> frame.base + 2 * Stack,
       affinity |-> frame.affinity, entry_point |-> p.offset + p.entry, pml4 |-> node]

allocate_executors(p, node, frame) ==
  LET n == frame.size \div EXECUTOR_SPACE_REQUIREMENT
      mapped == map_frame(p.vspace, p.executor_offset, [base |-> frame.base, size |-> frame.size],
                          "ReadWriteUser")
  IN  [p EXCEPT !.vspace = mapped.vs,
                !.cache[frame.affinity] = @ \o [i \in 1 .. n |-> NewExecutor(p, node, frame, i - 1)],
                !.eid = @ + n,
                !.executor_offset = @ + frame.size]

-----------------------------------------------------------------------------
(* The operations of NrProcess.  A response has a result, and a value.     *)

Response(result, value) == [result |-> result, value |-> value]

Done(p, m, result, value) ==
  [p |-> p, mem |-> m.mem, pool |-> m.pool, response |-> Response(result, value)]

FreeFrames(p) == {i \in 0 .. MAX_FRAMES_PER_PROCESS - 1 : i \notin DOMAIN p.frames}

AfterMapFrame(p, m, frame, mapped) ==
  Done([p EXCEPT !.vspace = mapped.vs], m, mapped.result, <<frame.base, frame.size>>)

MapFrame(p, m, base, frame) ==
  AfterMapFrame(p, m, frame, map_frame(p.vspace, base, frame, "ReadWriteUser"))

AfterLoad(sections, r) ==
  LET fits == Len(sections) <= MAX_WRITEABLE_SECTIONS_PER_PROCESS
  IN  Done(r.p, r, IF r.ok /\ fits THEN "Ok" ELSE "Panic", << >>)

Load(p, m, op) == AfterLoad(op.sections, load(p, op.elf, op.sections, m))

DispatcherAllocation(p, m, op, node) ==
  Done(allocate_executors(p, node, op.frame), m, "Ok",
       <<op.frame.size \div EXECUTOR_SPACE_REQUIREMENT>>)

(* The executor that was made last is the first one to be used.            *)
AssignExecutor(p, m, op) ==
  LET list == p.cache[op.region]
  IN  IF list = << >> THEN Done(p, m, "ExecutorCacheExhausted", << >>)
      ELSE Done([p EXCEPT !.cache[op.region] = Front(list),
                          !.cores = Append(@, <<op.gtid, Last(list).eid>>)],
                m, "Ok", <<Last(list)>>)

AllocateFrameToProcess(p, m, op) ==
  IF FreeFrames(p) = {} THEN Done(p, m, "TooManyRegisteredFrames", << >>)
  ELSE LET fid == Min(FreeFrames(p))
       IN  Done([p EXCEPT !.frames = fid :> op.frame @@ @], m, "Ok", <<fid>>)

MemMapFrameId(p, m, op) ==
  IF op.fid \notin DOMAIN p.frames THEN Done(p, m, "InvalidFrameId", << >>)
  ELSE MapFrame(p, m, op.base, p.frames[op.fid])

dispatch_mut(p, m, op, node) ==
  CASE op.kind = "Load" -> Load(p, m, op)
    [] op.kind = "DispatcherAllocation" -> DispatcherAllocation(p, m, op, node)
    [] op.kind = "AssignExecutor" -> AssignExecutor(p, m, op)
    [] op.kind = "AllocateFrameToProcess" -> AllocateFrameToProcess(p, m, op)
    [] op.kind \in {"MemMapFrame", "MemMapDevice"} ->
         MapFrame(p, m, IF op.kind = "MemMapFrame" THEN op.base ELSE op.frame.base, op.frame)
    [] op.kind = "MemMapFrameId" -> MemMapFrameId(p, m, op)
=============================================================================
