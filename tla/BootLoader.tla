----------------------------- MODULE BootLoader -----------------------------
(***************************************************************************)
(* The UEFI boot loader: it loads the modules of the EFI partition, puts   *)
(* the kernel into a new address space, maps physical memory into it twice *)
(* and jumps to the kernel.                                                *)
(*                                                                         *)
(* UEFI itself is external: types says what each page of memory is used    *)
(* for, AllocatePages takes conventional pages anywhere above OneMiB.      *)
(***************************************************************************)
EXTENDS PageTable, PhysicalMemory

CONSTANTS Machines,      \* machines to boot on
          KernelOffset,  \* KERNEL_OFFSET
          MaxModules,    \* KernelArgs::MAX_MODULES
          MaxNameLen,    \* Module::MAX_NAME_LEN
          StackPages,    \* 768
          MapSlack,      \* pages for the memory map and 32 more descriptors
          Apic           \* the page of the APIC registers

VARIABLES machine,  \* the machine, with its files, memory and topology
          pc,       \* the next step of the boot
          types,    \* the UEFI memory type of each page
          table,    \* the kernel's page table
          image,    \* what the loader wrote to each page, but for tables and args
          kernel,   \* Kernel: the offset and the segments
          args,     \* KernelArgs
          halted    \* why the boot stopped

bootVars == <<machine, pc, types, table, image, kernel, args, halted>>

NoBase == -1

-----------------------------------------------------------------------------
(* UEFI.                                                                   *)

Free(ty, base, n) ==
  \A p \in base .. base + n - 1 :
     p \in DOMAIN ty /\ p >= OneMiB /\ ty[p] = "CONVENTIONAL"

(* The lowest and the highest places for n pages stand for all of them.    *)
Places(ty, n) ==
  LET all == {base \in DOMAIN ty : Free(ty, base, n)}
  IN  IF all = {} THEN {} ELSE {Min(all), Max(all)}

Take(ty, base, n, typ) == [p \in base .. base + n - 1 |-> typ] @@ ty

(* Pages are zeroed when they are allocated.                               *)
Zeroed(img, old, new) ==
  [p \in DOMAIN img |->
     IF old[p] = "CONVENTIONAL" /\ new[p] # "CONVENTIONAL" THEN "zero" ELSE img[p]]

(* The memory map from page p on: a descriptor for every run of pages of   *)
(* one type.                                                               *)
RECURSIVE MapFrom(_, _)
MapFrom(ty, p) ==
  LET end == CHOOSE q \in p + 1 .. Cardinality(DOMAIN ty) :
               /\ \A r \in p .. q - 1 : ty[r] = ty[p]
               /\ q \in DOMAIN ty => ty[q] # ty[p]
  IN  IF p \notin DOMAIN ty THEN << >>
      ELSE <<[start |-> p, count |-> end - p, ty |-> ty[p]]>> \o MapFrom(ty, end)

MemoryMap(ty) == MapFrom(ty, 0)

-----------------------------------------------------------------------------
(* vspace.rs.                                                              *)

Stops(t, level, vaddr, paddr, size) ==
  level = 0 \/ (~Present(t, level, vaddr) /\ Fits(level, vaddr, paddr, size))

(* A region is mapped with the largest pages that fit where nothing is     *)
(* mapped yet.  Only the first entry of a run of large or huge pages is    *)
(* looked at; every base page is.  No rights are not allowed.              *)
RECURSIVE boot_map_generic(_, _, _, _, _)
boot_map_generic(t, vaddr, paddr, size, rights) ==
  LET level == Max({l \in 0 .. 2 : Stops(t, l, vaddr, paddr, size)})
      n == Min({size \div SizeAt(level), Entries - Index(level, vaddr)})
      mapped == n * SizeAt(level)
      tables == [pos \in {Pos(l, vaddr) : l \in level + 1 .. 3} |-> Table]
      deeper == t @@ tables
      panics ==
        \/ rights = "None"
        \/ \E l \in level + 1 .. 2 : IsPage(t, l, vaddr)
        \/ level = 0 /\ \E i \in 0 .. n - 1 : Present(t, 0, vaddr + i)
      after == Filled(deeper, level, vaddr, paddr, n, rights)
  IN  IF panics THEN Outcome(t, "Panic")
      ELSE IF mapped = size THEN Outcome(after, "Ok")
      ELSE boot_map_generic(after, vaddr + mapped, paddr + mapped, size - mapped, rights)

(* map_identity_with_offset, as a region to map.                           *)
IdentityRegion(offset, base, size, rights) ==
  [vaddr |-> offset + base, paddr |-> base, size |-> size, rights |-> rights]

resolve_addr(t, vaddr) == resolve(t, vaddr)

TablesOf(t) == {pos \in DOMAIN t : ~t[pos].page}

(* The pages of n new tables: allocate_one_page takes the highest free     *)
(* page each time.                                                         *)
NewTables(ty, n) ==
  LET free == {p \in DOMAIN ty : Free(ty, p, 1)}
  IN  {p \in free : Cardinality({q \in free : q > p}) < n}

WithTables(ty, n) == [p \in NewTables(ty, n) |-> "KERNEL_PT"] @@ ty

Room(ty, n) == Cardinality({p \in DOMAIN ty : Free(ty, p, 1)}) >= n

(* A slip: frees all pages below the aligned region and one of its own.    *)
FreesOneTooMany(base, n, align) ==
  LET aligned == RoundUp(base, align)
      end == base + n + align
  IN  [base |-> aligned,
       free |-> (base .. aligned) \cup (aligned + n + 1 .. end - 1)]

(* allocate_pages_aligned: the aligned region and the pages it gives back. *)
(* One page next to the region is kept on each side.                       *)
allocate_pages_aligned(base, n, align) ==
  LET aligned == RoundUp(base, align)
      end == base + n + align
      bottom == aligned - base
      top == end - (aligned + n)
  IN  [base |-> aligned,
       free |-> (IF bottom > 1 THEN base .. base + bottom - 2 ELSE {})
                \cup (IF top > 1 THEN aligned + n + 1 .. end - 1 ELSE {})]

-----------------------------------------------------------------------------
(* modules.rs and the steps of uefi_start.                                 *)

Init ==
  /\ machine \in Machines
  /\ pc = "modules"
  /\ types = machine.types
  /\ table = EmptyTable
  /\ image = [p \in DOMAIN machine.types |-> "uefi"]
  /\ kernel = [offset |-> 0, pbase |-> NoBase]
  /\ args = [modules |-> << >>, stack |-> NoBase, mm |-> NoBase, self |-> NoBase,
             pml4 |-> NoBase, command_line |-> [base |-> NoBase, size |-> 0],
             mm_iter |-> NoBase, frame_buffer |-> NoBase]
  /\ halted = "no"

At(step) == pc = step /\ halted = "no"

Halt(why) == halted' = why /\ UNCHANGED <<machine, pc, types, table, image, kernel, args>>

HaltAfter(mapped) == Halt(IF mapped.result = "Ok" THEN "no memory" ELSE mapped.result)

(* A file of the partition becomes a module unless it is a directory, the  *)
(* boot loader itself or has a name that would be cut off.                 *)
IsModule(file) ==
  ~file.directory /\ file.name # "BootX64.efi" /\ file.len < MaxNameLen

(* load_modules looks at the first MaxModules entries of a partition.      *)
Considered(files) == SelectSeq(FirstOf(files, MaxModules), IsModule)

LoadModule ==
  LET todo == Considered(machine.files)
      k == Len(args.modules) + 1
      pages == todo[k].size
  IN  /\ At("modules")
      /\ k <= Len(todo)
      /\ \E base \in Places(types, pages) :
           /\ types' = Take(types, base, pages, "MODULE")
           /\ image' = Take(image, base, pages, todo[k].name)
           /\ args' = [args EXCEPT !.modules =
                         Append(@, [name |-> todo[k].name, base |-> base, size |-> pages])]
      /\ UNCHANGED <<machine, pc, table, kernel, halted>>

Named(name) == \E i \in 1 .. Len(args.modules) : args.modules[i].name = name

(* The kernel and its command line are needed.                             *)
ModulesLoaded ==
  /\ At("modules")
  /\ Len(args.modules) = Len(Considered(machine.files))
  /\ IF Named("kernel") /\ Named("cmdline.in") /\ Room(types, 1)
     THEN /\ pc' = "kernel"
          /\ types' = WithTables(types, 1)
          /\ image' = Zeroed(image, types, types')
          /\ args' = [args EXCEPT !.pml4 = Max({p \in DOMAIN types : Free(types, p, 1)})]
          /\ UNCHANGED <<machine, table, kernel, halted>>
     ELSE Halt("no kernel")

(* kernel.rs: rights for the flags of a segment.                           *)
SegmentRights(flags) ==
  CASE "R" \notin flags -> "None"
    [] {"R", "X"} \subseteq flags -> "ReadWriteExecuteKernel"
    [] OTHER -> "ReadWriteKernel"

MaxEnd(elf) == Max({elf[i].base + elf[i].size : i \in 1 .. Len(elf)})

MinBase(elf) == Min({elf[i].base : i \in 1 .. Len(elf)})

MaxAlign(elf) == Max({elf[i].align : i \in 1 .. Len(elf)})

(* Mapping a sequence of regions, stopping at the first that fails.        *)
MapAll(t, regions) ==
  FoldLeft(LAMBDA acc, r :
             IF acc.result # "Ok" THEN acc
             ELSE boot_map_generic(acc.table, r.vaddr, r.paddr, r.size, r.rights),
           Outcome(t, "Ok"), regions)

(* The bytes of the binary and then the relocated words are written where  *)
(* their addresses resolve to.                                             *)
Written(img, t, offset, elf) ==
  LET Dest(i, p) == resolve_addr(t, offset + elf[i].base + p).paddr
      loaded == FoldLeft(LAMBDA m, i :
                  [p \in {Dest(i, j) : j \in 0 .. elf[i].filesz - 1} |-> <<"elf", p>>] @@ m,
                img, [i \in 1 .. Len(elf) |-> i])
  IN  [p \in DOMAIN loaded |->
         IF \E i \in 1 .. Len(elf) : \E r \in elf[i].relocs : Dest(i, r) = p
         THEN <<"relocated", p, offset>> ELSE loaded[p]]

(* allocate, load and relocate.                                            *)
LoadKernel ==
  LET elf == machine.elf
      pages == MaxEnd(elf) - MinBase(elf)
      align == MaxAlign(elf)
  IN  /\ At("kernel")
      /\ \E base \in Places(types, pages + align) :
           LET got == allocate_pages_aligned(base, pages, align)
               offset == KernelOffset + got.base
               mapped == MapAll(table, [i \in 1 .. Len(elf) |->
                           [vaddr |-> offset + elf[i].base, paddr |-> got.base + elf[i].base,
                            size |-> elf[i].size, rights |-> SegmentRights(elf[i].flags)]])
               taken == Take(types, base, pages + align, "KERNEL_ELF")
               kept == [p \in got.free |-> "CONVENTIONAL"] @@ taken
               tables == Cardinality(TablesOf(mapped.table)) - Cardinality(TablesOf(table))
           IN  IF mapped.result # "Ok" \/ ~Room(kept, tables) THEN HaltAfter(mapped)
               ELSE /\ types' = WithTables(kept, tables)
                    /\ table' = mapped.table
                    /\ image' = Written(Zeroed(image, types, types'), mapped.table, offset, elf)
                    /\ kernel' = [offset |-> offset, pbase |-> got.base]
                    /\ pc' = "stack"
                    /\ UNCHANGED <<machine, args, halted>>

(* The stack with its protecting page, and the page of the arguments.      *)
SetupStack ==
  /\ At("stack")
  /\ \E base \in Places(types, StackPages) :
       LET mapped == MapAll(table,
             <<IdentityRegion(KernelOffset, base, 1, "ReadUser"),
               IdentityRegion(KernelOffset, base + 1, StackPages - 1, "ReadWriteKernel")>>)
           taken == Take(types, base, StackPages, "KERNEL_STACK")
           tables == Cardinality(TablesOf(mapped.table)) - Cardinality(TablesOf(table))
       IN  IF mapped.result # "Ok" \/ ~Room(taken, tables + 1) THEN HaltAfter(mapped)
           ELSE LET ty == WithTables(taken, tables)
                    page == Max({p \in DOMAIN ty : Free(ty, p, 1)})
                IN  /\ types' = Take(ty, page, 1, "KERNEL_ARGS")
                    /\ table' = mapped.table
                    /\ args' = [args EXCEPT !.stack = base + 1, !.self = page]
                    /\ image' = Zeroed(image, types, types')
                    /\ pc' = "memory"
                    /\ UNCHANGED <<machine, kernel, halted>>

-----------------------------------------------------------------------------
(* map_physical_memory.                                                    *)

RightsOf(ty) ==
  CASE ty \in {"LOADER_CODE", "BOOT_SERVICES_CODE", "RUNTIME_SERVICES_CODE", "PAL_CODE"} ->
         "ReadExecuteKernel"
    [] ty = "CONVENTIONAL" -> "ReadWriteExecuteKernel"
    [] ty \in {"KERNEL_ELF", "KERNEL_ARGS", "MODULE"} -> "ReadKernel"
    [] ty \in {"LOADER_DATA", "BOOT_SERVICES_DATA", "RUNTIME_SERVICES_DATA", "ACPI_RECLAIM",
               "ACPI_NON_VOLATILE", "MMIO", "MMIO_PORT_SPACE", "PERSISTENT_MEMORY",
               "KERNEL_PT", "KERNEL_STACK", "UEFI_MEMORY_MAP"} -> "ReadWriteKernel"
    [] OTHER -> "None"

(* A slip: only memory that is conventional now is mapped for the kernel.  *)
InKernelSpaceConventional(ty) ==
  ty \in {"CONVENTIONAL", "KERNEL_PT", "KERNEL_ARGS"}

(* What is mapped at KernelOffset as well.                                 *)
InKernelSpace(ty) ==
  ty \in {"CONVENTIONAL", "BOOT_SERVICES_DATA", "LOADER_DATA", "KERNEL_PT", "MODULE",
          "KERNEL_ARGS"}

Skipped(entry) ==
  \/ entry.start = 0
  \/ entry.start <= Apic /\ entry.start + entry.count >= Apic
  \/ RightsOf(entry.ty) = "None"

RegionsOf(entry) ==
  LET Map(offset) == IdentityRegion(offset, entry.start, entry.count, RightsOf(entry.ty))
  IN  IF Skipped(entry) THEN << >>
      ELSE IF InKernelSpace(entry.ty) THEN <<Map(0), Map(KernelOffset)>>
      ELSE <<Map(0)>>

(* The map is read once, into pages allocated for it; the tables for the   *)
(* mappings are allocated while it is walked.                              *)
MapPhysicalMemory ==
  /\ At("memory")
  /\ \E base \in Places(types, MapSlack) :
       LET snapshot == Take(types, base, MapSlack, "UEFI_MEMORY_MAP")
           map == MemoryMap(snapshot)
           mapped == MapAll(table, FlattenSeq([i \in 1 .. Len(map) |-> RegionsOf(map[i])]))
           tables == Cardinality(TablesOf(mapped.table)) - Cardinality(TablesOf(table))
       IN  IF mapped.result # "Ok" \/ ~Room(snapshot, tables) THEN HaltAfter(mapped)
           ELSE /\ types' = WithTables(snapshot, tables)
                /\ table' = mapped.table
                /\ image' = Zeroed(image, types, types')
                /\ pc' = "firmware"
                /\ UNCHANGED <<machine, kernel, args, halted>>

(* UEFI frees some of its own data at any time before the final map.       *)
FirmwareFrees ==
  /\ At("firmware")
  /\ types' \in {types, [p \in DOMAIN types |->
                          IF types[p] \in {"BOOT_SERVICES_DATA", "LOADER_DATA"} THEN "CONVENTIONAL"
                          ELSE types[p]]}
  /\ pc' = "exit"
  /\ UNCHANGED <<machine, table, image, kernel, args, halted>>

(* Without a kernel first, modules[0] is not the kernel.                   *)
KernelFirst(modules) ==
  SelectSeq(modules, LAMBDA m : m.name = "kernel")
  \o SelectSeq(modules, LAMBDA m : m.name # "kernel")

(* The last module of a name.                                              *)
Blob(modules, name) == Last(SelectSeq(modules, LAMBDA m : m.name = name))

(* The final map goes to new pages and to a vector on the heap of UEFI;    *)
(* then the boot services end and the kernel runs with the arguments.  The *)
(* command line and the vector are given by their addresses in the boot    *)
(* loader, the physical ones, all else by addresses above KernelOffset.    *)
ExitBootServices ==
  /\ At("exit")
  /\ \E base \in Places(types, MapSlack) :
       LET ty == Take(types, base, MapSlack, "UEFI_MEMORY_MAP")
           cmdline == Blob(args.modules, "cmdline.in")
       IN  \E heap \in Places(ty, MapSlack) :
             /\ types' = Take(ty, heap, MapSlack, "LOADER_DATA")
             /\ args' = [args EXCEPT !.mm = base, !.modules = KernelFirst(@), !.mm_iter = heap,
                           !.command_line = [base |-> cmdline.base, size |-> cmdline.size],
                           !.frame_buffer = IF machine.frame_buffer = NoBase THEN NoBase
                                            ELSE KernelOffset + machine.frame_buffer]
             /\ image' = Take(Take(image, base, MapSlack, "map"), heap, MapSlack, "map")
  /\ pc' = "start"
  /\ UNCHANGED <<machine, table, kernel, halted>>

BootNext ==
  \/ LoadModule \/ ModulesLoaded \/ LoadKernel \/ SetupStack
  \/ MapPhysicalMemory \/ FirmwareFrees \/ ExitBootServices

-----------------------------------------------------------------------------
(* Properties.                                                             *)

KernelSees(page) == resolve_addr(table, KernelOffset + page)

Intact(vaddr, page, what) ==
  resolve_addr(table, vaddr).result = "Ok" /\ resolve_addr(table, vaddr).paddr = page
  /\ image[page] = what

(* When the kernel starts, its stack is mapped writable, and the arguments *)
(* themselves, the page table, the memory map and the modules are mapped   *)
(* above KERNEL_OFFSET, where the arguments say (uefi_start computes the   *)
(* addresses, it does not look them up).  The command line and the vector  *)
(* of descriptors, which the kernel reads first (arch/x86_64/mod.rs:593,   *)
(* 642), are mapped at the physical addresses they have in the boot        *)
(* loader.  All of them hold what the loader wrote, and every page of      *)
(* every segment of the kernel is where the binary wants it and holds the  *)
(* data of the file, relocated to where the kernel runs, or zeros behind   *)
(* it: nothing that was allocated or freed later overwrote them            *)
(* (allocate_pages_aligned frees pages next to the kernel).  The frame     *)
(* buffer, which the kernel does not use, is left out.                     *)
HandoffIntact ==
  pc = "start" =>
    /\ \A p \in args.stack .. args.stack + StackPages - 2 :
         KernelSees(p) = Resolved(p, "ReadWriteKernel")
    /\ \A p \in {args.self, args.pml4} : Intact(KernelOffset + p, p, "zero")
    /\ \A p \in args.mm .. args.mm + MapSlack - 1 : Intact(KernelOffset + p, p, "map")
    /\ \A i \in 1 .. Len(args.modules) :
         LET m == args.modules[i]
         IN  \A p \in m.base .. m.base + m.size - 1 : Intact(KernelOffset + p, p, m.name)
    /\ LET c == args.command_line
       IN  c.size > 0 /\ \A p \in c.base .. c.base + c.size - 1 : Intact(p, p, "cmdline.in")
    /\ \A p \in args.mm_iter .. args.mm_iter + MapSlack - 1 : Intact(p, p, "map")
    /\ args.modules[1].name = "kernel"
    /\ \A i \in 1 .. Len(machine.elf) : \A j \in 0 .. machine.elf[i].size - 1 :
         LET seg == machine.elf[i]
             at == resolve_addr(table, kernel.offset + seg.base + j)
         IN  /\ at.result = "Ok"
             /\ types[at.paddr] = "KERNEL_ELF"
             /\ image[at.paddr] =
                  CASE j \in seg.relocs -> <<"relocated", at.paddr, kernel.offset>>
                    [] j \notin seg.relocs /\ j < seg.filesz -> <<"elf", at.paddr>>
                    [] OTHER -> "zero"

=============================================================================
