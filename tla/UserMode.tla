------------------------------ MODULE UserMode ------------------------------
(***************************************************************************)
(* The life of a process on the cores of the machine: it is spawned, its   *)
(* cores enter user space, are interrupted, fault and make system calls,   *)
(* and device interrupts are passed up to it.                              *)
(*                                                                         *)
(* The kernel runs with interrupts off, so a core handles a trap in one    *)
(* step; what the replicas of the process share is the log.  A core in     *)
(* user space is at one of the addresses below; the program itself is one  *)
(* address, APP, and every step of it changes all its registers.           *)
(***************************************************************************)
EXTENDS Ring3Process, Traps

CONSTANTS Core, NodeOf, Boot,      \* the first core, to which devices are routed
          Images,                  \* ELF files
          Regions,                 \* <<base, pages>> the program maps
          Devices,                 \* frames of devices
          Buffers,                 \* <<base, size>> in bytes, PageBytes to a page
          PageBytes, KERNEL_BASE,
          LargeFrames, BaseFrames, \* the memory of each node
          PENDING,                 \* size of the queue pending_irqs
          MaxIrqs, MaxCalls

Node == {NodeOf[c] : c \in Core}

None == -1
INVALID_EXECUTOR_START == -2
NEW_CORE == 153
DEVICE == 42
BREAKPOINT == 3
APP == 500                         \* addresses in the program
HANDLER == 600                     \* upcall_while_enabled
RESUME == 700                      \* resume, in three parts, up to resume_end
RESUME_END == RESUME + 3
SCB(c) == 800 + c

VARIABLES elf, mem, large, base, log, rep, spawn, sections, assigned,
          vcpu, core, pending, routed, irqs, calls, want, hit

vars == <<elf, mem, large, base, log, rep, spawn, sections, assigned,
          vcpu, core, pending, routed, irqs, calls, want, hit>>

memory == <<mem, large, base>>
process == <<mem, large, base, log, rep, vcpu>>
ghost == <<irqs, calls, want, hit>>

-----------------------------------------------------------------------------
(* The log of the process.                                                 *)

Replayed(node, ops) ==
  FoldLeft(LAMBDA acc, op : dispatch_mut(acc.p, acc, op, node),
           [p |-> rep[node].p, mem |-> mem, pool |-> large[node], response |-> Response("Ok", << >>)],
           ops)

Behind(node) == SubSeq(log, rep[node].applied + 1, Len(log))

(* execute_mut: the operation is appended, and the replica catches up.     *)
Execute(node, op) == Replayed(node, Append(Behind(node), op))

Executed(node, op, r) ==
  /\ log' = Append(log, op)
  /\ rep' = [rep EXCEPT ![node] = [applied |-> Len(log) + 1, p |-> r.p]]
  /\ mem' = r.mem
  /\ large' = [large EXCEPT ![node] = r.pool]

(* sync, and a read, which waits until the replica has caught up.          *)
Synced(node) == Replayed(node, Behind(node))

Synchronize(node, r) ==
  /\ rep' = [rep EXCEPT ![node] = [applied |-> Len(log), p |-> r.p]]
  /\ mem' = r.mem
  /\ large' = [large EXCEPT ![node] = r.pool]
  /\ UNCHANGED <<base, log>>

-----------------------------------------------------------------------------
(* spawn, on the first core.                                               *)

Threads(node) == Cardinality({c \in Core : NodeOf[c] = node})

BootNode == NodeOf[Boot]

MakeDataSections ==
  /\ spawn = "data"
  /\ LET d == DataSections(elf, [mem |-> mem, pool |-> large[BootNode]])
     IN  /\ mem' = d.mem
         /\ large' = [large EXCEPT ![BootNode] = d.pool]
         /\ sections' = d.frames
  /\ spawn' = "load"
  /\ UNCHANGED <<elf, base, log, rep, assigned, vcpu, core, pending, routed, ghost>>

LoadProcess ==
  /\ spawn = "load"
  /\ LET op == [kind |-> "Load", elf |-> elf, sections |-> sections]
     IN  \E r \in {Execute(BootNode, op)} :
         /\ Executed(BootNode, op, r)
         /\ spawn' = IF r.response.result = "Ok" THEN "dispatch" ELSE "panic"
  /\ UNCHANGED <<elf, base, sections, assigned, vcpu, core, pending, routed, ghost>>

Created(node) == Len(rep[BootNode].p.cache[node])

(* allocate_dispatchers: frames of each node until there are enough.       *)
AllocateDispatchers ==
  /\ spawn = "dispatch"
  /\ LET node == Min({n \in Node : Created(n) < Threads(n)})
         frame == [base |-> Head(large[node]), size |-> LARGE, affinity |-> node]
         op == [kind |-> "DispatcherAllocation", frame |-> frame]
     IN  \E r \in {Execute(BootNode, op)} :
         /\ log' = Append(log, op)
         /\ rep' = [rep EXCEPT ![BootNode] = [applied |-> Len(log) + 1, p |-> r.p]]
         /\ mem' = r.mem
         /\ large' = [large EXCEPT ![node] = Tail(@)]
         /\ vcpu' = [p \in {frame.base + i * EXECUTOR_SPACE_REQUIREMENT + 2 * Stack :
                              i \in 0 .. r.response.value[1] - 1} |-> NewVirtualCpu] @@ vcpu
         /\ spawn' = IF \A n \in Node \ {node} : Created(n) >= Threads(n) THEN "core" ELSE spawn
  /\ UNCHANGED <<elf, base, sections, assigned, core, pending, routed, ghost>>

AllocateFirstCore ==
  /\ spawn = "core"
  /\ spawn' = "done"
  /\ assigned' = [assigned EXCEPT ![Boot] = INVALID_EXECUTOR_START]
  /\ UNCHANGED <<elf, process, sections, core, pending, routed, ghost>>

-----------------------------------------------------------------------------
(* schedule and the start of an executor.                                  *)

Set1(c, state) == core' = [core EXCEPT ![c] = state]

VcpuAt(c) == At(rep[core[c].ex.pml4].p, core[c].ex.vcpu_ctl)

Vcpu(c) == vcpu[VcpuAt(c)]

(* schedule: the entry point is left in the virtual CPU, where start finds *)
(* it; both use the address under which the kernel knows it.               *)
Schedule(c) ==
  /\ core[c].mode = "idle" /\ assigned[c] # None
  /\ LET op == [kind |-> "AssignExecutor", gtid |-> c, region |-> NodeOf[c]]
     IN  \E r \in {Execute(NodeOf[c], op)} : \E ex \in {r.response.value[1]} :
         /\ Executed(NodeOf[c], op, r)
         /\ vcpu' = [vcpu EXCEPT ![ex.vcpu_ctl_kernel].resume_with_upcall = assigned[c]]
         /\ Set1(c, [core[c] EXCEPT !.mode = "start", !.ex = ex])
  /\ UNCHANGED <<elf, base, spawn, sections, assigned, pending, routed, ghost>>

StartExecutor(c) ==
  /\ core[c].mode = "start"
  /\ LET ex == core[c].ex
         entry == vcpu[ex.vcpu_ctl_kernel].resume_with_upcall
         regs == IF entry = INVALID_EXECUTOR_START
                 THEN start(core[c].regs, ex.entry_point, stack_top(ex))
                 ELSE upcall(core[c].regs, entry, stack_top(ex), ex.vcpu_ctl, NEW_CORE, c)
     IN  Set1(c, [core[c] EXCEPT !.mode = "user", !.regs = regs])
  /\ UNCHANGED <<elf, process, spawn, sections, assigned, pending, routed, ghost>>

(* An idle core keeps the replica of its node up to date.                  *)
AdvanceAll(c) ==
  /\ core[c].mode = "idle" /\ assigned[c] = None
  /\ Behind(NodeOf[c]) # << >>
  /\ \E r \in {Synced(NodeOf[c])} : Synchronize(NodeOf[c], r)
  /\ UNCHANGED <<elf, spawn, sections, assigned, vcpu, core, pending, routed, ghost>>

-----------------------------------------------------------------------------
(* The program.                                                            *)

Running(c, rip) ==
  core[c].mode = "user" /\ core[c].regs.rip = rip /\ (rip = APP => core[c].access = None)

kernel_state == <<elf, process, spawn, sections, assigned>>
unchanged_process == <<elf, memory, log, rep, spawn, sections, assigned>>

Tag(k) == 100 + k

(* Registers of the program after a step that leaves k in all of them.     *)
AppRegs(c, k) ==
  [r \in Registers |-> CASE r = "rip" -> APP
                         [] r = "rsp" -> stack_top(core[c].ex)
                         [] r = "gs"  -> SCB(c)
                         [] r = "kgs" -> core[c].regs.kgs
                         [] OTHER     -> Tag(k)]

ToApp(c, k) ==
  /\ Set1(c, [core[c] EXCEPT !.regs = AppRegs(c, k)])
  /\ want' = [want EXCEPT ![c] = AppRegs(c, k)]

(* install_vcpu_area: the handler and the critical section, then a vector  *)
(* for the device.                                                         *)
InstallHandler(c) ==
  /\ Running(c, core[c].ex.entry_point)
  /\ Vcpu(c).resume_with_upcall # HANDLER
  /\ vcpu' = [vcpu EXCEPT ![VcpuAt(c)].resume_with_upcall = HANDLER]
  /\ UNCHANGED <<unchanged_process, core, pending, routed, ghost>>

InstallRegion(c) ==
  /\ Running(c, core[c].ex.entry_point)
  /\ Vcpu(c).resume_with_upcall = HANDLER
  /\ vcpu' = [vcpu EXCEPT ![VcpuAt(c)].pc_disabled = <<RESUME, RESUME_END>>]
  /\ ToApp(c, 0)
  /\ UNCHANGED <<unchanged_process, pending, routed, irqs, calls, hit>>

(* AllocateVector: everything is routed to the first core.                 *)
AllocateVector(c) ==
  /\ Running(c, APP)
  /\ ~routed
  /\ routed' = TRUE
  /\ UNCHANGED <<kernel_state, core, pending, ghost>>

(* upcall_while_enabled on a core that was added.                          *)
NewCore(c) ==
  /\ Running(c, HANDLER)
  /\ core[c].regs.rsi = NEW_CORE
  /\ ToApp(c, 0)
  /\ UNCHANGED <<kernel_state, pending, routed, irqs, calls, hit>>

AppStep(c) ==
  /\ Running(c, APP)
  /\ ToApp(c, 1)
  /\ UNCHANGED <<kernel_state, pending, routed, irqs, calls, hit>>

(* check_interrupt of the user-level scheduler.                            *)
CheckInterrupt(c) ==
  /\ Running(c, APP)
  /\ c = Boot /\ pending # << >>
  /\ pending' = Tail(pending)
  /\ UNCHANGED <<kernel_state, core, routed, ghost>>

-----------------------------------------------------------------------------
(* The handler of upcalls.                                                 *)

HandlerRegs(c) ==
  [r \in Registers |-> CASE r \in {"rip"} -> RESUME
                         [] r \in {"rsi"} -> core[c].ex.vcpu_ctl
                         [] r \in {"rax", "rbx", "rcx", "rdx", "rdi", "r11", "rflags", "fx"} -> Tag(9)
                         [] OTHER -> core[c].regs[r]]

(* upcall_while_enabled: the interrupt is queued for the scheduler; a      *)
(* queue that is full is a panic.                                          *)
UpcallWhileEnabled(c) ==
  /\ Running(c, HANDLER)
  /\ core[c].regs.rsi # NEW_CORE
  /\ LET full == core[c].regs.rsi = DEVICE /\ Len(pending) = PENDING
     IN  /\ pending' = IF core[c].regs.rsi = DEVICE /\ ~full THEN Append(pending, DEVICE) ELSE pending
         /\ Set1(c, IF full THEN [core[c] EXCEPT !.mode = "panic"]
                    ELSE [core[c] EXCEPT !.regs = HandlerRegs(c)])
  /\ UNCHANGED <<kernel_state, routed, ghost>>

ResumeEnable(c) ==
  /\ Running(c, RESUME)
  /\ vcpu' = [vcpu EXCEPT ![VcpuAt(c)].is_disabled = FALSE]
  /\ Set1(c, [core[c] EXCEPT !.regs.rip = RESUME + 1])
  /\ UNCHANGED <<unchanged_process, pending, routed, ghost>>

(* The registers, with those of iretq on the stack of the handler.         *)
ResumeRestore(c) ==
  /\ Running(c, RESUME + 1)
  /\ LET area == Vcpu(c).enabled_state
     IN  Set1(c, [core[c] EXCEPT
                    !.regs = [r \in Registers |->
                                CASE r \in {"gs", "kgs", "rsp", "rflags"} -> core[c].regs[r]
                                  [] r = "rip" -> RESUME + 2
                                  [] OTHER -> area[r]],
                    !.frame = <<area.rip, area.rsp, area.rflags>>])
  /\ UNCHANGED <<kernel_state, pending, routed, ghost>>

ResumeIret(c) ==
  /\ Running(c, RESUME + 2)
  /\ Set1(c, [core[c] EXCEPT !.regs.rip = core[c].frame[1], !.regs.rsp = core[c].frame[2],
                             !.regs.rflags = core[c].frame[3]])
  /\ UNCHANGED <<kernel_state, pending, routed, ghost>>

-----------------------------------------------------------------------------
(* Traps.                                                                  *)

InUser(c) == core[c].mode = "user"

Area(c) == isr_save(core[c].regs)

Resumed(c, regs) == [core[c] EXCEPT !.regs = regs]

WasDisabled(c) == upcalls_disabled(Vcpu(c), core[c].regs.rip)

(* Where a core goes that passes a trap up: the top of the stack of the    *)
(* handler, or, if upcalls were off, by sysret where it was.               *)
PassUp(c, vector, changed) ==
  /\ vcpu' = [vcpu EXCEPT ![VcpuAt(c)] = changed]
  /\ Set1(c, IF WasDisabled(c) THEN Resumed(c, restore(swapgs(core[c].regs), Area(c)))
             ELSE [Resumed(c, upcall(swapgs(core[c].regs), Vcpu(c).resume_with_upcall,
                                     upcall_stack_top(core[c].ex), core[c].ex.vcpu_ctl, vector, 0))
                   EXCEPT !.frame = <<0, 0, 0>>])
  /\ hit' = (hit \/ WasDisabled(c))

(* A slip: what is interrupted is saved in any case.                       *)
DeliverSaving(c, vector) ==
  PassUp(c, vector, [Vcpu(c) EXCEPT !.is_disabled = TRUE, !.enabled_state = Area(c)])

(* The virtual CPU is disabled in any case; if it was already, the trap is *)
(* forgotten.                                                              *)
Deliver(c, vector) ==
  PassUp(c, vector, [Vcpu(c) EXCEPT !.is_disabled = TRUE,
                                    !.enabled_state = IF WasDisabled(c) THEN @ ELSE Area(c)])

(* handle_generic_exception for the vector of a device.                    *)
DeviceInterrupt(c) ==
  /\ InUser(c)
  /\ c = Boot /\ routed /\ irqs < MaxIrqs
  /\ irqs' = irqs + 1
  /\ Deliver(c, DEVICE)
  /\ UNCHANGED <<unchanged_process, pending, routed, calls, want>>

(* bkp_handler, for an int3 of the program.                                *)
Breakpoint(c) ==
  /\ Running(c, APP)
  /\ c = Boot /\ irqs < MaxIrqs
  /\ irqs' = irqs + 1
  /\ Deliver(c, BREAKPOINT)
  /\ UNCHANGED <<unchanged_process, pending, routed, calls, want>>

(* A slip: leaves the way a system call does.                              *)
ReturnBySysret(c) == Set1(c, Resumed(c, restore(swapgs(core[c].regs), Area(c))))

(* kcb_iret_handle.                                                        *)
ReturnByIret(c) == Set1(c, Resumed(c, iret_restore(swapgs(core[c].regs), Area(c))))

(* timer_handler, and the interrupts of the kernel itself.                 *)
KernelInterrupt(c) ==
  /\ InUser(c)
  /\ \E r \in {Synced(NodeOf[c])} : Synchronize(NodeOf[c], r)
  /\ ReturnByIret(c)
  /\ UNCHANGED <<elf, spawn, sections, assigned, vcpu, pending, routed, ghost>>

-----------------------------------------------------------------------------
(* Memory accesses of the program.                                         *)

Table1(node) == rep[node].p.vspace.table

(* The replica that applied the whole log, and what is mapped there.       *)
Newest == CHOOSE n \in Node : rep[n].applied = Len(log)

Mapped(page) == resolve(Table1(Newest), page)

Heap == {r[1] + r[2] - 1 : r \in Regions}

Access(c) ==
  /\ Running(c, APP)
  /\ \E page \in Heap :
       /\ Mapped(page).result = "Ok"
       /\ Set1(c, [core[c] EXCEPT !.access = page])
  /\ UNCHANGED <<kernel_state, pending, routed, ghost>>

Translated(c) == resolve(Table1(core[c].ex.pml4), core[c].access)

AccessDone(c) ==
  /\ InUser(c) /\ core[c].access # None /\ core[c].regs.rip = APP
  /\ Translated(c).result = "Ok"
  /\ Set1(c, [core[c] EXCEPT !.access = None])
  /\ UNCHANGED <<kernel_state, pending, routed, ghost>>

(* pf_handler: the read brings the replica of this node up to date.        *)
PageFault(c) ==
  /\ InUser(c) /\ core[c].access # None /\ core[c].regs.rip = APP
  /\ Translated(c).result # "Ok"
  /\ \E r \in {Synced(NodeOf[c])} :
       /\ Synchronize(NodeOf[c], r)
       /\ IF resolve(r.p.vspace.table, core[c].access).result = "Ok" THEN ReturnByIret(c)
          ELSE Set1(c, [core[c] EXCEPT !.mode = "panic"])
  /\ UNCHANGED <<elf, spawn, sections, assigned, vcpu, pending, routed, ghost>>

-----------------------------------------------------------------------------
(* System calls.                                                           *)

Ok(a, b) == [ok |-> TRUE, ret1 |-> a, ret2 |-> b]
Err == [ok |-> FALSE, ret1 |-> 0, ret2 |-> 0]

(* What the handler leaves in the save area.                               *)
syscall_area(c, r) ==
  LET saved == syscall_save(core[c].regs)
  IN  [saved EXCEPT !.rax = IF r.ok THEN 0 ELSE 1,
                    !.rdi = IF r.ok THEN r.ret1 ELSE @,
                    !.rsi = IF r.ok THEN r.ret2 ELSE @]

(* What the program may rely on when the call returns.                     *)
AfterCall(c, r) ==
  [core[c].regs EXCEPT !.rax = IF r.ok THEN 0 ELSE 1,
                       !.rdi = IF r.ok THEN r.ret1 ELSE @,
                       !.rsi = IF r.ok THEN r.ret2 ELSE @,
                       !.rcx = core[c].regs.rip, !.r11 = USER_RFLAGS, !.rflags = USER_RFLAGS]

syscall_return(c, r) ==
  /\ Set1(c, [Resumed(c, restore(swapgs(core[c].regs), syscall_area(c, r)))
              EXCEPT !.mode = "user", !.work = None])
  /\ want' = [want EXCEPT ![c] = AfterCall(c, r)]

MayCall(c) == Running(c, APP) /\ calls < MaxCalls

(* The two return values of an operation that succeeded.                   *)
Value(op, value) ==
  CASE op.kind = "MemMapDevice" -> Ok(op.frame.base, op.frame.size)
    [] op.kind = "AllocateFrameToProcess" -> Ok(value[1], op.frame.base)
    [] op.kind = "MemMapFrameId" -> Ok(value[1], value[2])

(* A call that is one operation on the process.                            *)
Operation(c, op) ==
  \E r \in {Execute(NodeOf[c], op)} :
      /\ Executed(NodeOf[c], op, r)
      /\ syscall_return(c, IF r.response.result = "Ok" THEN Value(op, r.response.value) ELSE Err)

Overlapping(b, n) ==
  \E page \in b .. b + n - 1 :
     \/ Mapped(page).result = "Ok"
     \/ \E c \in Core : core[c].mode = "map" /\ page \in core[c].work.region

(* MapMem: large frames first, then base pages, mapped one by one.         *)
MapMem(c) ==
  /\ MayCall(c)
  /\ \E r \in Regions :
       LET lp == r[2] \div LARGE
           bp == r[2] % LARGE
           node == NodeOf[c]
           frames == [i \in 1 .. lp + bp |->
                        IF i <= lp THEN [base |-> large[node][i], size |-> LARGE]
                                   ELSE [base |-> base[node][i - lp], size |-> 1]]
       IN  /\ ~Overlapping(r[1], r[2])
           /\ Len(large[node]) >= lp /\ Len(base[node]) >= bp
           /\ large' = [large EXCEPT ![node] = SubSeq(@, lp + 1, Len(@))]
           /\ base' = [base EXCEPT ![node] = SubSeq(@, bp + 1, Len(@))]
           /\ Set1(c, [core[c] EXCEPT !.mode = "map",
                          !.work = [frames |-> frames, at |-> r[1], first |-> frames[1].base,
                                    region |-> r[1] .. r[1] + r[2] - 1, size |-> r[2]]])
  /\ calls' = calls + 1
  /\ UNCHANGED <<elf, mem, log, rep, spawn, sections, assigned, vcpu, pending, routed, irqs, want, hit>>

(* One turn of map_frames; a frame that cannot be mapped is a panic.       *)
MapNext(c) ==
  /\ core[c].mode = "map"
  /\ LET w == core[c].work
         f == Head(w.frames)
         op == [kind |-> "MemMapFrame", base |-> w.at, frame |-> f]
     IN  \E r \in {Execute(NodeOf[c], op)} :
         /\ Executed(NodeOf[c], op, r)
         /\ IF r.response.result # "Ok"
            THEN Set1(c, [core[c] EXCEPT !.mode = "panic"]) /\ UNCHANGED want
            ELSE IF Len(w.frames) > 1
            THEN /\ Set1(c, [core[c] EXCEPT !.work.frames = Tail(@), !.work.at = @ + f.size])
                 /\ UNCHANGED want
            ELSE syscall_return(c, Ok(w.first, w.size))
  /\ UNCHANGED <<elf, base, spawn, sections, assigned, vcpu, pending, routed, irqs, calls, hit>>

(* MapDevice: at the physical address of the device.                       *)
MapDevice(c) ==
  /\ MayCall(c)
  /\ \E f \in Devices :
       Operation(c, [kind |-> "MemMapDevice", frame |-> f])
  /\ calls' = calls + 1
  /\ UNCHANGED <<elf, base, spawn, sections, assigned, vcpu, pending, routed, irqs, hit>>

(* AllocatePhysical: a page of the node, registered with the process.      *)
AllocatePhysical(c) ==
  /\ MayCall(c)
  /\ base[NodeOf[c]] # << >>
  /\ LET f == [base |-> Head(base[NodeOf[c]]), size |-> 1]
     IN  Operation(c, [kind |-> "AllocateFrameToProcess", frame |-> f])
  /\ base' = [base EXCEPT ![NodeOf[c]] = Tail(@)]
  /\ calls' = calls + 1
  /\ UNCHANGED <<elf, spawn, sections, assigned, vcpu, pending, routed, irqs, hit>>

(* MapMemFrame: a registered frame, at an address of the program's choice. *)
MapMemFrame(c) ==
  /\ MayCall(c)
  /\ \E r \in Regions :
       /\ \A d \in Core : core[d].mode = "map" => r[1] \notin core[d].work.region
       /\ Operation(c, [kind |-> "MemMapFrameId", base |-> r[1], fid |-> 0])
  /\ calls' = calls + 1
  /\ UNCHANGED <<elf, base, spawn, sections, assigned, vcpu, pending, routed, irqs, hit>>

(* RequestCore: a core that is free starts in the handler of upcalls.      *)
RequestCore(c) ==
  /\ MayCall(c)
  /\ \E other \in Core :
       /\ assigned' = IF assigned[other] = None THEN [assigned EXCEPT ![other] = HANDLER] ELSE assigned
       /\ syscall_return(c, IF assigned[other] = None THEN Ok(other, 0) ELSE Err)
  /\ calls' = calls + 1
  /\ UNCHANGED <<elf, process, spawn, sections, pending, routed, irqs, hit>>

(* Process::Exit ends the machine.                                         *)
ProcessExit(c) ==
  /\ Running(c, APP)
  /\ calls > 0
  /\ core' = [d \in Core |-> [core[d] EXCEPT !.mode = "off"]]
  /\ UNCHANGED <<kernel_state, pending, routed, ghost>>

(* GetProcessInfo and Identify read the replica after it caught up.        *)
ReadProcess(c) ==
  /\ MayCall(c)
  /\ \E s \in {Synced(NodeOf[c])} :
       /\ Synchronize(NodeOf[c], s)
       /\ \/ syscall_return(c, Ok(s.p.tls, 0))
          \/ \E page \in Heap :
               LET r == resolve(s.p.vspace.table, page)
               IN  syscall_return(c, IF r.result = "Ok" THEN Ok(r.paddr, 0) ELSE Err)
  /\ calls' = calls + 1
  /\ UNCHANGED <<elf, spawn, sections, assigned, vcpu, pending, routed, irqs, hit>>

-----------------------------------------------------------------------------
(* The check of a buffer that a file operation is given, in bytes.         *)

Resolves(t, byte) == resolve(t, byte \div PageBytes).result = "Ok"

(* The loop of user_virt_addr_valid.                                       *)
RECURSIVE CheckFrom(_, _, _)
CheckFrom(t, b, upper) ==
  IF b > upper THEN TRUE
  ELSE IF upper - b <= PageBytes THEN Resolves(t, b) /\ Resolves(t, upper - 1)
  ELSE Resolves(t, b) /\ CheckFrom(t, b + PageBytes, upper)

user_virt_addr_valid(t, b, size) ==
  b + size < KERNEL_BASE * PageBytes /\ CheckFrom(t, b, b + size)

(* handle_fileio up to the file system, which has a module of its own.     *)
FileCall(c) ==
  /\ MayCall(c)
  /\ \E r \in {Synced(NodeOf[c])} :
       /\ Synchronize(NodeOf[c], r)
       /\ \E valid \in {user_virt_addr_valid(r.p.vspace.table, b[1], b[2]) : b \in Buffers} :
            syscall_return(c, IF valid THEN Ok(Tag(2), 0) ELSE Err)
  /\ calls' = calls + 1
  /\ UNCHANGED <<elf, spawn, sections, assigned, vcpu, pending, routed, irqs, hit>>

-----------------------------------------------------------------------------
KernelRegs == [r \in Registers |-> IF r \in {"gs", "kgs"} THEN KCB ELSE 0]

Init ==
  /\ elf \in Images
  /\ mem = << >>
  /\ large = LargeFrames /\ base = BaseFrames
  /\ log = << >>
  /\ rep = [n \in Node |-> [applied |-> 0, p |-> NewProcess(Node)]]
  /\ spawn = "data" /\ sections = << >>
  /\ assigned = [c \in Core |-> None]
  /\ vcpu = << >>
  /\ core = [c \in Core |-> [mode |-> "idle", ex |-> None, regs |-> KernelRegs,
                             access |-> None, frame |-> <<0, 0, 0>>, work |-> None]]
  /\ pending = << >> /\ routed = FALSE /\ irqs = 0 /\ calls = 0
  /\ want = [c \in Core |-> KernelRegs]
  /\ hit = FALSE

Spawn == MakeDataSections \/ LoadProcess \/ AllocateDispatchers \/ AllocateFirstCore

Enter(c) == Schedule(c) \/ StartExecutor(c)

Program(c) ==
  \/ InstallHandler(c) \/ InstallRegion(c) \/ AllocateVector(c) \/ NewCore(c)
  \/ AppStep(c) \/ CheckInterrupt(c) \/ Access(c)

Upcall(c) ==
  UpcallWhileEnabled(c) \/ ResumeEnable(c) \/ ResumeRestore(c) \/ ResumeIret(c)

Memory(c) == AccessDone(c) \/ PageFault(c)

Trap(c) == DeviceInterrupt(c) \/ Breakpoint(c) \/ KernelInterrupt(c)

Call(c) ==
  \/ MapMem(c) \/ MapDevice(c) \/ AllocatePhysical(c) \/ MapMemFrame(c)
  \/ RequestCore(c) \/ ReadProcess(c) \/ FileCall(c) \/ ProcessExit(c)

Next ==
  \/ Spawn
  \/ \E c \in Core :
       \/ Enter(c) \/ AdvanceAll(c) \/ Program(c) \/ Upcall(c)
       \/ Memory(c) \/ Trap(c) \/ Call(c) \/ MapNext(c)

(* A core that is in the handler of upcalls goes on.  Nothing forces an    *)
(* interrupt, a call or an access.                                         *)
Fairness == \A c \in Core : WF_vars(Upcall(c))

Spec == Init /\ [][Next]_vars /\ Fairness

-----------------------------------------------------------------------------
(* Properties.                                                             *)

Applied(n) == rep[n].p.loaded

Word(p) == IF p \in DOMAIN mem THEN mem[p] ELSE Junk

(* What the linker put at the i-th word of a header: an address that is    *)
(* relocated, or the word in the file.                                     *)
Linked(h, i) ==
  LET at == h.vaddr + i - 1
      rs == {r \in Range(elf.relocs) : r.offset = at}
  IN  IF rs = {} THEN h.data[i] ELSE Address(Offset(elf) + (CHOOSE r \in rs : TRUE).addend)

(* Every replica that loaded the program (make_process, Process::load)     *)
(* shows each word of each header at its address, relocated, with the      *)
(* rights of the header; what can be written is one frame for all          *)
(* replicas, and what cannot is a frame of the replica's own.              *)
ImageLoaded ==
  \A n \in Node : Applied(n) =>
    \A h \in Range(elf.headers) : \A i \in DOMAIN h.data :
      LET va == Offset(elf) + h.vaddr + i - 1
          r  == resolve(Table1(n), va)
      IN  /\ r.result = "Ok" /\ r.rights = Action(h)
          /\ Word(r.paddr) = Linked(h, i)
          /\ \A k \in Node \ {n} : Applied(k) => ((At(rep[k].p, va) = r.paddr) <=> h.w)

(* As long as no trap came in while upcalls were off, the program runs     *)
(* with the registers its own last instruction or system call left, over   *)
(* any number of interrupts, faults and upcalls.                           *)
ContextKept ==
  \A c \in Core : (core[c].mode = "user" /\ core[c].regs.rip = APP /\ ~hit) =>
    core[c].regs = want[c]

(* An access to memory that some core has mapped faults only because the   *)
(* replica whose table the core uses is behind, so that one run of         *)
(* pf_handler is enough for it.                                            *)
FaultMeansBehind ==
  \A c \in Core : (core[c].mode = "user" /\ core[c].access # None) =>
    Translated(c).result = "Ok" \/ Behind(NodeOf[c]) # << >>

(* A core that was taken to the handler of upcalls gets back to the        *)
(* program, unless the program ended or its queue of interrupts was full.  *)
UpcallReturns ==
  \A c \in Core : (core[c].mode = "user" /\ core[c].regs.rip = HANDLER
                    /\ core[c].regs.rsi # NEW_CORE)
                 ~> (core[c].regs.rip = APP \/ core[c].mode \in {"off", "panic"})
=============================================================================
