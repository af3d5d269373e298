----------------------------- MODULE KernelBoot -----------------------------
(***************************************************************************)
(* The start of the kernel on the machine the boot loader left: memory     *)
(* from the UEFI map, allocators for every node, persistent memory, and    *)
(* the other cores, one after the other.                                   *)
(***************************************************************************)
EXTENDS BootLoader

CONSTANTS RealModePage,  \* REAL_MODE_BASE
          FourGiB        \* pages a 32-bit register can address

VARIABLES early,     \* the early allocator of the boot core
          regions,   \* the frames that are left
          gmem,      \* GlobalMemory of ordinary memory
          pmem,      \* GlobalMemory of persistent memory
          booting,   \* how many cores were started
          slots,     \* the parameters in the bootstrap code
          cores,     \* what each started core runs with
          up,        \* initialized: the flag of each core
          replicas   \* the cores registered with the replica of each node

kernelVars == <<early, regions, gmem, pmem, booting, slots, cores, up, replicas>>

NoMemory == [emem |-> << >>, self |-> << >>, node_caches |-> << >>]

KernelInit ==
  /\ Init
  /\ early = NewCache(EarlyBP, EarlyLP)
  /\ regions = << >>
  /\ gmem = NoMemory
  /\ pmem = NoMemory
  /\ booting = 0
  /\ slots = [arg |-> 0, pml4 |-> NoBase]
  /\ cores = << >>
  /\ up = {}
  /\ replicas = << >>

HaltKernel(why) ==
  /\ halted' = why
  /\ UNCHANGED <<machine, pc, types, table, image, kernel, args, kernelVars>>

(* _start: the walk over the memory map that came with the arguments.      *)
FindMemory ==
  LET map == MemoryMap(types)
      conventional == SelectSeq(map, LAMBDA e : e.ty = "CONVENTIONAL")
      found == EarlyMemory([i \in 1 .. Len(conventional) |->
                 Frame(conventional[i].start, conventional[i].count, 0)])
  IN  /\ At("start")
      /\ IF found.early = EmptyFrame THEN HaltKernel("no early memory")
         ELSE /\ early' = populate_4k_first(early, found.early)
              /\ regions' = found.regions
              /\ pc' = "topology"
              /\ UNCHANGED <<machine, types, table, image, kernel, args, halted, gmem, pmem,
                             booting, slots, cores, up, replicas>>

(* Annotate the regions and build the allocators of the nodes.             *)
InitMemory ==
  LET annotated == identify_numa_affinity(regions, machine.affinity)
  IN  /\ At("topology")
      /\ IF TotalSize(annotated) # TotalSize(regions) THEN HaltKernel("lost regions")
         ELSE IF GlobalMemoryResult(annotated) # "Ok"
         THEN HaltKernel(GlobalMemoryResult(annotated))
         ELSE /\ gmem' = GlobalMemory(annotated)
              /\ pc' = "pmem"
              /\ UNCHANGED <<machine, types, table, image, kernel, args, halted, early, regions,
                             pmem, booting, slots, cores, up, replicas>>

(* map_physical_persistent_memory: twice, in the kernel's page table.      *)
MapPersistent(t, entries) ==
  FoldLeft(LAMBDA acc, e :
             IF acc.result # "Ok" \/ e.base = 0 \/ (e.base <= Apic /\ e.base + e.size >= Apic)
             THEN acc
             ELSE LET low == map_identity_with_offset(acc.table, 0, e.base, e.size,
                                                      "ReadWriteKernel")
                  IN  IF low.result # "Ok" THEN low
                      ELSE map_identity_with_offset(low.table, KernelOffset, e.base, e.size,
                                                    "ReadWriteKernel"),
           Outcome(t, "Ok"), entries)

(* Persistent regions are sorted by node before the allocators are built.  *)
InitPersistentMemory ==
  LET mapped == MapPersistent(table, machine.pmem)
      annotated == SortSeq(identify_numa_affinity(machine.pmem, machine.affinity),
                           LAMBDA a, b : a.affinity < b.affinity)
  IN  /\ At("pmem")
      /\ IF mapped.result # "Ok" THEN HaltKernel("pmem mapping")
         ELSE IF TotalSize(annotated) # TotalSize(machine.pmem) THEN HaltKernel("lost pmem")
         ELSE IF annotated # << >> /\ GlobalMemoryResult(annotated) # "Ok"
         THEN HaltKernel(GlobalMemoryResult(annotated))
         ELSE /\ pmem' = IF annotated = << >> THEN NoMemory ELSE GlobalMemory(annotated)
              /\ table' = mapped.table
              /\ replicas' = [n \in 1 .. machine.nodes |-> IF n = 1 THEN {0} ELSE {}]
              /\ pc' = "cores"
              /\ UNCHANGED <<machine, types, image, kernel, args, halted, early, regions,
                             gmem, booting, slots, cores, up>>

-----------------------------------------------------------------------------
(* boot_app_cores.  Cores are numbered from 1, machine.cores[c] is the     *)
(* node of core c.                                                         *)

TakeLarge(memory, node) ==
  [memory EXCEPT !.node_caches[node].large = Front(@)]

HasLarge(memory, node) == memory.node_caches[node].large # << >>

(* A slip: does not wait for the core it started last.                     *)
ReadyForNext == TRUE

(* The boot core waits until the core it started last is up.               *)
LastIsUp == booting = 0 \/ booting \in up

(* The parameters that are put into the copy of the bootstrap code.        *)
Bootstrap(c) == [arg |-> c, pml4 |-> args.pml4]

(* Memory for the core, the bootstrap code with its parameters, and the    *)
(* interrupts that start it.                                               *)
BootCore ==
  LET c == booting + 1
      node == machine.cores[c]
      persistent == Len(pmem.node_caches) = machine.nodes
      code == map_identity_with_offset(table, 0, RealModePage, 1, "ReadWriteExecuteKernel")
  IN  /\ At("cores")
      /\ booting < Len(machine.cores)
      /\ LastIsUp
      /\ IF ~HasLarge(gmem, node) \/ (persistent /\ ~HasLarge(pmem, node))
         THEN HaltKernel("no large page")
         ELSE IF code.result # "Ok" THEN HaltKernel("bootstrap code")
         ELSE /\ gmem' = TakeLarge(gmem, node)
              /\ pmem' = IF persistent THEN TakeLarge(pmem, node) ELSE pmem
              /\ table' = code.table
              /\ slots' = Bootstrap(c)
              /\ booting' = c
              /\ UNCHANGED <<machine, pc, types, image, kernel, args, halted, early, regions,
                             cores, up, replicas>>

(* start_ap.S: the core reads its parameters, 32 bits of the address of    *)
(* the page table among them.                                              *)
CoreReads ==
  \E c \in 1 .. booting \ DOMAIN cores :
    /\ halted = "no"
    /\ cores' = c :> [slots EXCEPT !.pml4 = @ % FourGiB] @@ cores
    /\ UNCHANGED <<bootVars, early, regions, gmem, pmem, booting, slots, up, replicas>>

(* start_app_core: it registers with the replica in its arguments and sets *)
(* the flag they came with.                                                *)
CoreStarts ==
  \E c \in DOMAIN cores :
    LET a == cores[c].arg
    IN  /\ halted = "no"
        /\ \A n \in DOMAIN replicas : c \notin replicas[n]
        /\ replicas' = [replicas EXCEPT ![machine.cores[a]] = @ \cup {c}]
        /\ up' = up \cup {a}
        /\ UNCHANGED <<bootVars, early, regions, gmem, pmem, booting, slots, cores>>

(* More than a second passes.                                              *)
CoreTimesOut ==
  At("cores") /\ booting > 0 /\ booting \notin up /\ HaltKernel("core timeout")

(* xmain.                                                                  *)
AllStarted ==
  /\ At("cores")
  /\ booting = Len(machine.cores)
  /\ LastIsUp
  /\ pc' = "main"
  /\ UNCHANGED <<machine, types, table, image, kernel, args, halted, kernelVars>>

Next ==
  \/ BootNext /\ UNCHANGED kernelVars
  \/ FindMemory \/ InitMemory \/ InitPersistentMemory
  \/ BootCore \/ CoreReads \/ CoreStarts \/ CoreTimesOut \/ AllStarted

Spec == KernelInit /\ [][Next]_<<bootVars, kernelVars>>

-----------------------------------------------------------------------------
(* Properties.                                                             *)

Caches ==
  {early} \cup {gmem.emem[i] : i \in DOMAIN gmem.emem}
          \cup {gmem.node_caches[i] : i \in DOMAIN gmem.node_caches}

(* The memory the kernel hands out is not in use by anything the boot      *)
(* loader set up or the firmware still needs, and is mapped writable       *)
(* at KERNEL_OFFSET, although the mappings were made from an older memory  *)
(* map (main.rs map_physical_memory, _start).                              *)
ManagedMemoryUsable ==
  \A cache \in Caches : \A p \in CachePages(cache) :
    /\ types[p] = "CONVENTIONAL"
    /\ KernelSees(p).result = "Ok" /\ KernelSees(p).paddr = p
    /\ is_writable(KernelSees(p).rights)

(* A page is in one cache only and there once, and the cache of a node has *)
(* memory of the node only.  In the end no page of the UEFI map is lost    *)
(* but those that do not fit the early cache of a node (GlobalMemory::new: *)
(* we "fully exhaust all frames"; MCache::populate).                       *)
MemoryPartitioned ==
  /\ \A cache \in Caches : NoDuplicates(cache)
  /\ \A a, b \in Caches : a # b => CachePages(a) \cap CachePages(b) = {}
  /\ \A i \in DOMAIN gmem.self : \A cache \in Caches :
       (gmem.self[i] .. gmem.self[i] + LargePage - 1) \cap CachePages(cache) = {}
  /\ machine.affinity # << >> =>
       \A i \in DOMAIN gmem.node_caches : \A p \in CachePages(gmem.node_caches[i]) :
         \E j \in 1 .. Len(machine.affinity) :
           /\ machine.affinity[j].node = i - 1
           /\ machine.affinity[j].range[1] <= p /\ p < machine.affinity[j].range[2]
  /\ pc = "pmem" =>
       LET cached == UNION {CachePages(cache) : cache \in Caches}
           selves == UNION {gmem.self[i] .. gmem.self[i] + LargePage - 1 : i \in DOMAIN gmem.self}
           usable == {p \in DOMAIN types : types[p] = "CONVENTIONAL" /\ p >= OneMiB}
           lost == EmemSize - TCacheBP - LargePage
       IN  Cardinality(usable \ (cached \cup selves)) <= lost * Len(gmem.emem)

(* Every core runs with its own parameters and with the page table of the  *)
(* kernel, and has joined the replica of its node when the boot core goes  *)
(* on to the main function, although all cores read them from the same     *)
(* place (coreboot::initialize).  The page table is below 4 GiB.           *)
CoresStartAsThemselves ==
  /\ \A c \in DOMAIN cores : cores[c] = [arg |-> c, pml4 |-> args.pml4]
  /\ pc = "main" => \A c \in 1 .. Len(machine.cores) : c \in replicas[machine.cores[c]]

=============================================================================
