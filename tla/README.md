# Verification of the node-replicated kernel (NRK)

TLA+ modules, TLC configurations and TLAPS proofs kept beside the kernel and its
user-space libraries.  Every definition is translated from the source; the `map` of
`PROJECT.json` gives the lines each one stands for, `components` lists every part of the
system with what is and is not modelled, and `hazards` lists what is hard to test and
which property covers it.

    tlc -workers 2 -config RwLock.cfg RwLock      # one run
    tlapm RwLockProofs.tla                        # the proofs of one module

## 1. The system

NRK is an operating system for x86-64 machines with several NUMA nodes.  Kernel state is
replicated per node.  An update is appended to an operation log and every replica
executes the log in order (the external crates `node_replication` and `cnr`); a read is
answered by the local replica after it has caught up.  Three objects are replicated this
way: the kernel node (which process owns which core), each process (address space,
executors) and the file system.  Below them are per-node and per-core frame caches; above
them a process runtime with its own scheduler and synchronisation (`lineup`, `vibrio`).

| part | what it does | what makes it hard |
|---|---|---|
| boot loader, `bootloader/` | loads modules and the kernel under UEFI, maps memory, jumps | the memory map changes while it works; image, stack and physical memory share one table |
| start of the kernel, `arch/x86_64/mod.rs`, `coreboot.rs`, `memory/*` | splits memory among nodes, starts the other cores | regions cut at page and node boundaries; parameters handed over in one shared place |
| readers-writer lock, `fs/rwlock.rs` | a flag, a counter per core | readers and a writer race on two words; nested guards; a scan of too few counters |
| bounded queue, `mpmc.rs` | lock-free push and pop | a delayed producer or consumer while others go round the buffer |
| deterministic allocator, `memory/detmem.rs` | a queue of results per node | only one replica asks the heap, all must get the same answer; one node out of memory |
| physical memory, `memory/mod.rs`, `mcache.rs`, `kcb.rs` | node caches, core caches, heap on top | full and empty caches, refills that fail half way, other cores in between |
| address spaces, `arch/x86_64/vspace/*`, `memory/vspace*.rs` | page table of three page sizes and a record of mappings | the two must agree; tables left behind by earlier mappings |
| TLB shootdown, `arch/x86_64/tlb.rs`, `irq.rs` | work queues and interrupts between cores | waits with interrupts disabled; merged interrupts; full queues; replicas that lag |
| kernel node, `nr.rs`, core scheduler, `scheduler/mod.rs` | process ids, who owns which core | requests for one core from two nodes; a grant while the core goes to sleep |
| processes, `process.rs`, `nrproc.rs`, `arch/x86_64/process.rs` | ELF loading, executors, frames | some frames are shared by the replicas and some are not |
| kernel entry and upcalls, `isr.S`, `exec.S`, `irq.rs`, `syscall.rs`, `kpi`, `vibrio/upcalls.rs` | saves and restores a program, passes interrupts up to it | four ways out of the kernel; interrupts while an earlier one is being handled |
| file system, `cnrfs.rs`, `fs/*` | names, mnodes, descriptors on several logs | operations of different logs are reordered; a value looked up in one operation and used in the next |
| user-level threads, `lib/lineup`, `vibrio/rumprt` | scheduler, mutex, condition variable, semaphore, readers-writer lock | lost wake-ups, hand-over, spinning on a cooperative core |
| network driver and remote calls, `lib/vmxnet3`, `lib/rpc` | rings shared with a device, a client on top of TCP | the device reads while the driver writes; rings lap at different times; partial sends |

How they meet: the boot loader leaves a machine to the kernel, which starts its cores.  A
system call enters the file system, the process or the kernel node through a log.
Executing an operation of a process allocates page tables through the deterministic
allocator, which uses the bounded queue and takes memory from the arenas of the core.  An
unmap ends in a shootdown.  A full file system log asks other nodes to catch up through
the same work queues that carry shootdowns.  File system replicas protect their mnodes
with the readers-writer lock.  A core granted by the kernel node is picked up by the core
scheduler, which takes an executor from the process and enters user space; interrupts come
back as upcalls to the scheduler of the user-level threads.

## 2. Modules

`BoundedQueue` is the abstract FIFO queue that `MpmcQueue` implements.  Modules of operators
without actions hold what several specifications share: `PageTable` and `VSpace` (used by
`AddressSpace`, `BootLoader` and `Ring3Process`), `PhysicalMemory` (`BootLoader` and
`KernelBoot`), `FileBuffers` and `FileSystem` (`MlnrFS` and `FileModel`), `Traps`
(`UserMode`), `Vmxnet3Reg`, `Vmxnet3Queues` and `Vmxnet3` (`DevQueuePhy`).  The proofs are in
`RwLockProofs`, `MpmcQueueProofs`, `DetMemProofs`, `KernelAllocatorProofs`, `KernelNodeProofs`
and `KernelExecutorProofs` (both about `KernelNode`), `TlbShootdownInv` and
`TlbShootdownProofs` (both about `TlbShootdown`).  An `MC...` module gives the constants of its module values
for TLC.  Definitions introduced as a *slip* are single plausible mistakes in the step below
them; they are not part of the specification, and stand in for that step in the mutants
of `PROJECT.json`.

### RwLock
A step per atomic access of `read()`, `write()` and the two drops: `CallWrite`, `WriteCas`,
`WriteScan` (one counter per step), `WriteAcquired`, `WriteUnlock`, `CallRead`, `ReadSpin`,
`ReadInc`, `ReadCheck`, `ReadBack`, `ReadUnlock`.  `rlock` has a slot per global thread id,
and the writer scans the first `max_threads` slots, which the code sets to the number of
threads of node 0.  The orderings `Relaxed` and `Acquire` are modelled as sequentially
consistent: the accesses that matter are locked instructions on x86-64, which are full
fences.

### MpmcQueue
A step per load, store and compare-exchange of `push` and `pop`.  `history` records the
elements in the order of their positions.  The refinement mapping to `BoundedQueue` gives
the claimed and not yet taken part of `history` and, per thread, the phase of its call.
Positions do not wrap: 2^64 calls do not happen.

### DetMem
A node is a process, because one thread (the combiner) executes the log on a replica.
All nodes make the same requests (`Script`).  Steps: the first `Pop`, `Lock`, `PopAgain`,
the loop that asks the heap for every node (`Ask`, `Asked`), the loop that leaves the
results (`Share`), the failure branch (`Revert`), `Finish`, and `Dealloc`.  The bounded log
keeps replicas at most `MaxLag` requests apart.

### TlbShootdown
A core is in user space, in one of the phases of a shootdown, in a handler, waiting in a
file system call, or without the process.  The page table of a replica is a function of
the log prefix it has executed (`Mapping`).  The TLB is filled by `Access` from the local
replica.  `Notify` sends one multicast per x2APIC cluster and keeps the code's test of the
bits 0 to 3; there are destinations for 16 clusters, and `ApicAssumption` keeps to APIC ids
below 256 (beyond, `tlb.rs:258` is out of bounds).  Pending interrupts are a set per core
(`irr`), so equal interrupts merge, and every handler takes one item from the queue.  One
file system log is full, that of the core `LogCore` of each node; `lagging` are the nodes
behind on it.  A core that finds its queue empty advances its own log and the first one only
(`Advances`).  The branch of `eager_advance_fs_replica` that puts a shootdown back is in the
module and not reached: a core without the process is not among those an unmap notifies.

### KernelNode
Two replicated objects, `kernel` (pids and core owners) and `process` (executors and
`active_cores`), each with a log, a state per node and the prefix it has executed.  An
operation enters the log in one step, and the core then replays (`Replay`) until its answer
is there.  A read or a synchronisation waits for what some replica has completed (the
completed tail of the log), and if it has to replay for that may go on to the end of the log
(`Catch`).  Actions follow `spawn`, `allocate_dispatchers`, `SchedAllocateCore`, `schedule`,
the timer handler and `MLNR_GC_INIT` on a free core.

### MlnrFS, FileSystem and FileBuffers
`ops` are the updates in the order of their log positions; a replica may execute an update
once all earlier ones of the same log are done (`Ready`), and an update of all logs (a
scan) once everything before it is done.  At the end of a batch (`Complete`) what a replica
has executed of a log counts as completed (`completed`, the completed tails of the logs) and
the callers return.  A read waits for what was completed of its log when it began
(`Synced`; `doc/src/architecture/NodeReplication.md:70-72`), and may also see what is executed
and not yet completed.  Reads are several steps: descriptor to mnode, then the read; name to
mnode, holding a reference, then the information, each waiting for its own log.  `rename` is
two steps, because it takes its lock twice.  `Copy` is a single file system after a set of
updates, which the answers and the replicas are compared with.  `FileSystem` has the operations on one replica, and
`FileBuffers` growing, writing, reading and truncating on sequences of pages.

### KernelAllocator
A frame is in the cache of a node, in the cache of a core for a node, in a zone allocator,
in a kernel object or mapped.  `Alloc` chooses a kind of request; `TryZone`, `TryLarge` and
`TryBig` are the attempts, `RefillZone` and `RefillLarge` the refills between them.
`MapMem`, `AllocatePhysical`, `AllocateDispatchers` and `DispatcherFrame` are the requests
on behalf of processes.  `Home` is the node of the memory, `label` the affinity a frame
carries; they part where `DeallocLarge` labels a frame with the affinity of the moment.  The slab allocator, a library, is reduced to the pages it takes.

### PageTable, VSpace, AddressSpace
Addresses count base pages and a table has `Entries` entries.  A page table is a function
from positions (level and first address) to entries; `insert_mappings` is the one loop that
the code repeats for its three page sizes, `InConflict`, `Fits` and `BelowIsEmpty` are the
tests it makes, and a panic is a result.  `VSpace` adds the record of mappings with the
order in which it is consulted and changed.  `AddressSpace` has the operations of
`NrProcess` and runs `ModelAddressSpace` of `vspace_model.rs` beside them; `agree` tells
whether the last call had the same result on both.

### FileModel
`ModelFIO` of `usr/init/src/fs.rs`, a log of creations and written patterns, next to one
replica of the file system.  Each call of the test `model_equivalence` is made on both,
through the conversion of results and errors at the system call (`AsUser`); `same` tells
whether the answers agreed.

### PhysicalMemory, BootLoader, KernelBoot
A machine is a UEFI memory type per page, files, a kernel binary, NUMA ranges and cores.
`BootLoader` has a step per function of `uefi_start`; UEFI places an allocation at the lowest
or at the highest free address, and may free memory of its own in between.  `image` says
what the loader wrote to a page, so that overwriting shows.  `KernelBoot` goes on with the
early allocator, the affinity of the regions, `GlobalMemory::new`, persistent memory, and the
other cores, one step for each access to the shared bootstrap code; a core loads 32 bits of
the address of the page table (`FourGiB`).  The fields of `args` are those of `KernelArgs`
that lead to memory; `mm_iter`, a vector of the boot loader, is on the heap of UEFI, whose
pages are `LOADER_DATA`.

### Ring3Process, Traps, UserMode
`Ring3Process` loads an ELF file (`DataSecAllocator` for what is shared by the replicas, the
process for the rest), relocates it, makes executors and has `dispatch_mut`, all as
functions of a replica.  `Traps` has the entry code and the four ways back, as functions of
the registers; `swapgs` is part of each.  `UserMode` has the replicas and their log and a
core with its registers; a core that handles a trap in the kernel does so in one step,
because interrupts are off.  A program is at one address and changes all its registers; the
upcall handler and `resume` are steps of their own, since interrupts may come between them.
`want` is what the program's registers should be.

### Lineup
A thread is a list of steps, one for each atomic access or request to the scheduler;
`Programs` are what threads do, written with the operators for the calls of `lineup` and
the rump runtime.  The threads of one core take turns only where they give it up.  Time-outs
may expire at any time; a device may raise interrupts.

### Vmxnet3Reg, Vmxnet3Queues, Vmxnet3, DevQueuePhy, RpcClient
Descriptors are sets of fields with their generation bit; a queue is a command ring, a
completion ring and the chains in flight.  `enqueue` is given as the stores it makes, one by
one.  `DevQueuePhy` has the driver's tokens and the device, which reads and writes the rings
between any two stores and is told of new entries by the doorbells only.  `RpcClient` puts
the client on top: joining, `send`, `recv` and the file calls; the TCP stack and the server,
which are not in the repository, move cells between buffers and packets.

## 3. What the runs check

Each takes at most three and a half minutes with two workers.

| run | instance | shows |
|---|---|---|
| `rwlock` | three cores, up to two nested guards | `MutualExclusion`; `NoUnlockPanic` (an unlock never finds its lock free); without nesting, a writer that raised the flag gets in (`WriterGetsIn`) |
| `mpmc` | three threads, two calls each, two slots | the unsafe cell of a slot is never shared (`SlotExclusive`); `FailsOnlyWhenDue`; `ImplementsQueue` (refinement of `BoundedQueue`) |
| `detmem` | two nodes, three requests of two layouts, queues of two | until memory runs out the k-th request of all replicas is answered from one round (`SameRound`) and `alloc` returns (`AllocReturns`); no block is lost, also after a failure, and none has two owners (`BlocksAccounted`) |
| `tlb` | three cores on two nodes; two frames, or two requests to advance a replica | `NoStaleTranslation` on the node of an unmap that has returned; a shootdown that overlaps no other returns (`LoneShootdownReturns`); a file system call that waits for another replica goes on (`FsCallReturns`) |
| `kernelnode` | three cores on two nodes, four kernel operations | a core is given away once (`GrantedOnce`), runs an executor of its own (`ExecutorsDistinct`) and comes to run the process (`GrantRuns`), which also says that no `expect` on the way fails |
| `mlnrfs` | two threads on two nodes, two logs, five calls | a replica that has executed everything holds what one copy would, and none panics (`SingleCopy`); a call is answered as by a copy that has all updates completed when the call began (`NoStaleAnswer`); a write without memory changes no byte (`FailedWritePads`) |
| `kernelallocator` | two cores, two nodes, three base and two large pages | a frame is in one place and only in a cache of the node it is labelled with (`OneOwner`); a refill that succeeds is enough for the request (`RefillSuffices`); `alloc` gives up only when there is nothing (`NullOnlyWhenOut`) |
| `referencemodels` | frames of two neighbouring page sizes in tables of two entries; six system calls on two files with pages of two bytes | address space and file system answer as the models the repository tests them against (`SpaceEquivalence`, `FileEquivalence`), the record and the page table agree (`RecordMatchesTable`), `FilesHoldWhatWasWritten` |
| `kernelboot` | three machines: two nodes, one node with persistent memory, one without a kernel | image, stack, modules, command line, memory map and page table are mapped where the arguments say and hold what the loader wrote (`HandoffIntact`); memory it hands out is free and mapped (`ManagedMemoryUsable`), is in one cache of its node and not lost (`MemoryPartitioned`); `CoresStartAsThemselves` |
| `lineup` | sixteen programs of up to four threads on two cores | `MutexExclusive`, `RwExclusive`, and every thread comes to its end (`AllEnd`): no wake-up is lost and no assertion of the scheduler fails |
| `usermode` | 104 programs to load, two nodes with a core each, two interrupts or calls on one core and three calls on two | every replica shows the program as linked (`ImageLoaded`); a program keeps its registers over interrupts, faults and upcalls (`ContextKept`); an access to mapped memory faults only while the replica is behind (`FaultMeansBehind`); `UpcallReturns` |
| `rpcclient` | ten devices, rings of four, up to three calls | `RequestIntact`, `AnswerIntact`, `AnswerIsToCall`, and every call returns or the client stops for one of five listed reasons (`CallReturns`) |

`PROJECT.json` names for every property a slip in the code that violates it.

### Bounds
Two nodes suffice for a disagreement between replicas and three cores for an initiator, a
target and a third party that joins or asks.  Queues and caches have two places, so that
empty, partly full and full all happen.  In `mlnrfs`, `PageSize` 2, writes of two bytes and
the offset 1 make writes that end inside, at and across the end of a page; five calls are
enough for the spawn, an open, and three more by either thread.  In `kernelboot` and
`usermode` memory is around a hundred and several hundred pages with tables of four and
eight entries, enough for regions and headers that start and end inside, at and across
large pages.  Rings of four entries lap within three calls.  `MaxGuards`, `MaxCalls`,
`MaxLog`, `MaxIrqs`, `MaxChains`, `Bounds`, `BlocksPerNode` and the length of `Script` only
bound how long a behaviour is, as do the constraints `Comparable` and `Interesting`: the
former ends a behaviour where the two models are known to part, the latter follows one
program beyond loading.  `QueueCapacity`, `TCacheBase`, `TCacheLarge`, `NCacheBP`,
`PtPages`, `ExecPerFrame`, `MaxFiles`, `NDesc`, `Entries`, `Stack` and the like are
constants of the code made small.  `CHECK_DEADLOCK FALSE` is set where a behaviour ends
because such a bound is used up, the programs have ended, or the kernel has panicked.

### Fairness
Every liveness property is checked under weak fairness of the steps of each core or thread
that is inside a call (`Step`), never of the calls that enter it.  Kernel code runs with
interrupts disabled and is not preempted, so a step that stays enabled is taken.
`RwLock` adds weak fairness of `ReadUnlock`: a guard is a local of a kernel function.
`TlbShootdown` includes the handlers, since a pending interrupt is delivered once interrupts
are enabled; `KernelNode` includes the timer of a halted core, which is armed before it
halts.  In `Lineup` every core keeps running its threads and the device raises the
interrupts it may; in `UserMode` a core in the upcall handler goes on (`Upcall`).
`RpcClient` is fair to the driver, the stack, the client and the other side, and to a
device as far as its doorbells were rung.  Nothing is assumed strongly fair.

### Where the code and its documentation part
Some properties hold only for part of what the code can be asked, and the run is set up for
that part.  Outside it TLC finds a counterexample where a property is named; the first six are
against a sentence of the repository.

* `RwLock` with `Cores = {2, 3}` and `NodeZero = {0, 1}` violates `MutualExclusion`: `setup_cnr`
  (`arch/x86_64/kcb.rs:236`) sets `max_threads` to the threads of node 0, and on another node
  the writer does not scan the slots its readers count in.  `fs/rwlock.rs:210-212`: "we will
  never have threads writing to and reading from the underlying data structure
  simultaneously".
* `DetMem`: when only another node is out of memory the leader frees its own block and then
  returns it (`detmem.rs:126`, `135`) while the other replicas get null, although the module
  "ensures the allocation either succeeds for all replicas or none" (`detmem.rs:6`): the
  invariant that the k-th results of two nodes are both null or both not is violated.
* `TlbShootdown`: two cores that unmap at the same time wait for each other with interrupts
  disabled (`tlb.rs:283`), against `tlb.rs:214`: `LoneShootdownReturns` without its second
  disjunct is violated.
* `MlnrFS` with `Shared = TRUE`, `MaxFiles = 1`, `MaxCalls = 6`, writes at offset 0 and no reads,
  deletions or renames violates `SingleCopy`: the log of a write is picked by an mnode
  that was looked up before (`cnrfs.rs:168`, `507`); if the descriptor is closed and reopened in
  between, two writes to one file are in different logs, against
  `doc/src/architecture/ConcurrentNodeReplication.md:22-24` ("conflicting operations always use
  the same log and thus have a total order").
* `BootLoader`: "(and everything within) is pointing to kernel space" (`bootloader/src/main.rs:36-37`)
  does not hold of the command line, which is taken from the physical slice (`main.rs:363`,
  `481`) although it "needs to be in kernel-space" (`main.rs:362`), nor of `mm_iter`
  (`main.rs:478`, `537`).  The kernel reads both through the 1:1 mapping of physical memory, and
  `HandoffIntact` says that this mapping is there and intact.  The address given for the frame
  buffer (`main.rs:515`) is above `KERNEL_OFFSET`, where device memory is not mapped; the kernel
  never uses it.
* `KernelAllocator`: a large object freed under another affinity than its own ends in a cache
  of another node (`memory/mod.rs:538-542`; the comment says that callers are careful and that
  "the NCache or TCache would panic", but label and cache go by the same affinity and nothing
  panics).  `OneOwner` with `Home` for `label` is violated within a few steps.
* Reads of `MlnrFS`: `NoStaleAnswer` is about completed updates.  It does not say in which order
  readers on different nodes see updates that are executed by some replica and not yet
  completed.  Answers are judged as long as no memory has run out.
* A page table above 4 GiB (`start_ap.S:53`): with `FourGiB` below the memory of the machine
  `CoresStartAsThemselves` is violated.
* Nested read guards with a waiting writer block forever (`fs/mod.rs:238` nests).
* Work queues that also carry requests to advance a replica, full work queues (the result of
  the push is ignored, `tlb.rs:112`) and x2APIC ids beyond the first four of a cluster
  (`tlb.rs:272`) make a shootdown wait forever.  On another node than that of the unmap a core
  may reload a translation from its replica (`tlb.rs:120`).
* Two different entry points: a core may start at that of another, as the executors of a
  large frame share one kernel address for their virtual CPUs (`arch/x86_64/process.rs:1285`).
* Memory that runs out on one node makes replicas of the kernel node (`nr.rs:121`) or of the
  file system differ.
* Reads without an offset (`cnrfs.rs:388`), deleting or replacing a file somebody asks about
  (`fs/mod.rs:249`, `281`, `285`), and deleting a file open for appending (`fs/mod.rs:242`) each
  break `SingleCopy`.  With `O_APPEND` among the flags `FileEquivalence` is violated; the
  test never draws it (`usr/init/src/fs.rs:682`).
* A region of 382 to 511 base pages or more than 128 large pages does not fit in the cache of
  a core, and the `expect` after the refill panics (`AllocatorAssumption` excludes it).  A large
  object freed on a core whose cache of large pages is full stops the kernel
  (`memory/mod.rs:547`; a step of `KernelAllocator` that no property forbids).
* A mapping repeated with a larger frame succeeds and maps nothing more (`vspace/mod.rs:55`).
  `unmap` of a frame of several pages leaves all but the first mapped and unrecorded
  (`vspace/mod.rs:94`).  A huge frame over tables left empty panics (`page_table.rs:474`).
* A device interrupt that arrives while upcalls are off is forgotten (`irq.rs:684`); `hit` marks
  it, and `ContextKept` ends there.
* `down` of a semaphore tests its count once (`semaphore.rs:66`), a signalled `timed_wait` may
  leave its entry in the wait list (`scheduler.rs:272`), and two waiters of a condition variable
  on one core may spin for a mutex that has been handed over (`condvar.rs:145`); the programs
  keep to one waiter per core and let a timed wait time out.
* `RxQueue::len` compares places on two rings that completions without a packet move apart
  (`var.rs:593`), a packet is enqueued without knowing that there is room (`smoltcp.rs:218`),
  the end of what is left to send is computed from the length of all data
  (`tcp_client.rs:170`), and data that a server returns beyond what was asked for do not fit
  the buffer they are copied to (`tcp_client.rs:305`): four of the reasons for which `CallReturns` lets the client stop.
  The numbers of queues are stored crosswise (`vmx.rs:334`), harmless while both are equal; the
  stack is given the first buffer of a packet only (`smoltcp.rs:173`); `init` does not report
  that enabling failed (`vmx.rs:444`); and the client polls for ever with a clock that stands
  still (`tcp_client.rs:84`).

## 4. What is proved

Each theorem is about the specification that the run checks, for every value of its
constants that meets the named assumption of its module.  An assumption says what sets are
finite, that a model value differs from the data it stands beside, and the few facts of the
code listed below.  In every module the theorems rest on an inductive invariant, `IInv`,
with one lemma or step per action.

| theorem | property | beyond the run |
|---|---|---|
| `RwLockProofs!TypeCorrect`, `UnlockNeverPanics` | `TypeOK`, `NoUnlockPanic` | any cores, any node 0, any nesting |
| `RwLockProofs!Exclusion` | `MutualExclusion` | the same, if all cores that use the lock have slots below `max_threads` (`ScanCoversCores`; needed, see above) |
| `MpmcQueueProofs!SlotsExclusive` | `SlotExclusive` | any threads, values, number of calls and capacity |
| `MpmcQueueProofs!FailureMeansFull` | `FailsOnlyWhenDue` | the same |
| `MpmcQueueProofs!RefinesQueue` | `ImplementsQueue` | the same: the refinement of `BoundedQueue` |
| `DetMemProofs!RoundsAgree` | `SameRound` | any number of nodes and blocks, any requests |
| `DetMemProofs!BlocksHaveOwners` | `BlocksAccounted` | the same, also with rounds that fail |
| `KernelAllocatorProofs!FramesHaveOneOwner` | `OneOwner` | any cores, nodes, frames and cache sizes, frees under any affinity |
| `KernelAllocatorProofs!RefillNeverShort` | `RefillSuffices` | the same |
| `KernelAllocatorProofs!NullMeansOut` | `NullOnlyWhenOut` | the same, and any number of attempts |
| `KernelNodeProofs!CoresGrantedOnce` | `GrantedOnce` | any cores, nodes, processes and requests, if no replica runs out of memory |
| `KernelExecutorProofs!ExecutorsStayDistinct` | `ExecutorsDistinct` | the same |
| `TlbShootdownProofs!UnmapIsSafe` | `NoStaleTranslation` | any cores, nodes, pages and frames, APIC ids below 256, work queues of any capacity |

### RwLock
`CoresAssumption`: ids are natural numbers and node 0 is finite.  `MutualExclusion` is not
inductive: it does not say why a reader that has counted cannot pass a writer that is still
scanning.  `IInv` adds that a counter is the number of guards plus the increment of a
`read()` in progress (`Counted`), that the flag is up and has one owner during the scan
(`OneHolder`), and that the cores whose slots the scan has passed hold no guard
(`Drained`): they may count and back off, but the flag keeps them out.

### MpmcQueue
`QueueAssumption`: at least two slots, which `with_capacity` sees to.  `IInv` says for every
position between `dequeue_pos` and `enqueue_pos` what the sequence number of its slot is:
the position plus one if it is published (`Published`), the position itself while its
producer is about to write (`PushClaims`); and correspondingly for the slots whose elements
were taken (`PopClaims`, `Released`).  So a position has one claimer, and positions that
share a slot are at least a whole round apart (`Bounded`).  `PushSeen` and `PopSeen` tell
what a thread may still conclude from a sequence number it has read.  The refinement adds
`Filled`: slots hold the elements of `history` at their positions.

### DetMem
`DetMemAssumption`: the log keeps replicas no further apart than a queue is long.  Without
a failure, results that were taken and results still queued are a prefix of the rounds, the
same at all nodes up to the progress of the leader's loop (`Aligned`), nodes take turns under
the lock (`Turns`) and blocks have one place (`Apart`).  The invariant cannot just assume
that nothing has failed, since the properties speak of results already returned.  It says
`Fine \/ Failed`, where `Failed` is a trace of the failure that does not disappear unseen: a
null was returned, or is queued where it will be returned or stay for ever, or is about to be
queued.  `Locked`, `Obtained` and `Kept` hold in either case; `Kept` is that no block is
lost.

### KernelAllocator
`AllocatorAssumption`: the requests fit in the cache of a core (needed, see above), and
there are at least two attempts.  `IInv` has the ownership of frames (`Owned`: every frame is
somewhere, in one place only, in caches of the node of its label only, and no cache is overfull) and what a
request may rely on between its attempts (`Pending`): other cores may empty the cache of the
node but not that of the core, so what a refill has brought is still there at the next
attempt.

### KernelNode
`CoresGrantedOnce` and `ExecutorsStayDistinct` assume `~MayFail`: replicas whose memory runs
out at different times differ, and then both are false.  `MapIsLog` says that a
core has an owner at a replica just if the prefix the replica has executed asks for it;
`Outstanding`, `InCall` and `Told` connect what a core waits for and is told with the log
position of its request, so a core that is granted is granted for the first request
(`Granted`), and there is only one first request.  For executors, `HInv` adds a history: a
sequence of process states, one per prefix of the log, such that every replica is in the state
of its prefix.  Executor ids are never used again along the history, and an executor that is
active stays active, so two cores that got theirs from different replicas at different
prefixes can be compared at the longer one.

### TlbShootdown
`TlbAssumption`: cores are finitely many natural numbers and a queue has room for an item.
The proof is in two modules: `TlbShootdownInv` has the invariant and facts about logs,
queues and sets of cores, `TlbShootdownProofs` the actions.
The frame of a mapping is mapped once and unmapped once (`LogOK`), and a core that unmaps
has executed its own operation before it starts the shootdown (`Local`), so that cores of
its node cannot load the translation again.  What is left is `Covered`:
a core that has a translation which is no longer mapped at its node is one whose item the
initiator has yet to send or whose acknowledgement it still awaits, or it has acknowledged and
is in the handler, before its flush and not in user space.  `Queued` makes an acknowledgement
belong to the present round: an initiator has at most one item in each queue.
`Unfinished` and `Returned` connect the frames of unmaps that have returned with the
log.  Items lost in full queues, merged interrupts and the test of four bits do
not matter for this theorem: they only keep the initiator waiting.

### Only model-checked
* Liveness (`WriterGetsIn`, `AllocReturns`, `LoneShootdownReturns`, `FsCallReturns`, `GrantRuns`,
  `AllEnd`, `UpcallReturns`, `CallReturns`): the proof system has no rules for fairness.
* `SingleCopy`, `NoStaleAnswer` and `FailedWritePads` of `MlnrFS`, and all of `FileModel`: they
  compare buffers put together one after the other (`Bytes`), which takes an induction over the list of
  buffers; the first two also hold only for the calls listed in section 3.
* `MutexExclusive` and `RwExclusive` of `Lineup`: they depend on what the programs do (a
  thread exits only what it has entered), a condition on nested lists of steps that takes
  an induction over them.
* `AddressSpace`, `BootLoader`, `KernelBoot`, `UserMode` and `RpcClient`: `PageTable`,
  `BootLoader`, `UserMode` and `Vmxnet3Queues` use `RECURSIVE` operators, with which the proof
  system loses its arithmetic prover, and what these operators compute is again
  an induction over data.

## 5. Not modelled

`PROJECT.json` gives the reason for every part left out.

* The pagers of `lib/vibrio/src/mem.rs`: each core has a region and a lock of its own; the
  places to look at are the limits (`mem.rs:76`, `150`) and big objects whose pages another
  core may take in between (`mem.rs:224`).
* Machine discovery, register layouts of the interrupt controllers, the debugger and the
  emergency memory after a panic: wrappers of code outside the repository, hardware access,
  or code after which nothing is promised.
* The hosted build, unit tests, benchmarks and drawing.
* In the parts that are modelled: `FreePid` (`nr.rs:130`) and `ProcessRemove` have no caller;
  `WriteDirect` (`syscall.rs:424`) bypasses the logs and is used by benchmarks; renaming a file
  to its own name (`fs/mod.rs:281`); the log of the root directory, computed as 1 - 2
  (`cnrfs.rs:96`); the failure of a step of `make_process` (`process.rs:391`) and a relocation
  on the first word after a frame (`process.rs:306`); dropping a page table; memory that ends
  at the APIC page (`bootloader/src/main.rs:173`); stacks and thread-local storage of user-level
  threads; checksums, VLAN and RSS fields and `stop()` of the network driver, and loss of
  packets.
