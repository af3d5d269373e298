------------------------------- MODULE Traps -------------------------------
(***************************************************************************)
(* Entering and leaving the kernel: what the entry code saves, and the     *)
(* four ways back to user space, as operators on the registers of a core.  *)
(* rbx stands for the registers that every path treats alike (rbx, rbp,    *)
(* r8 to r10 and r12 to r15), fx for the vector registers, and kgs is the  *)
(* base register that swapgs exchanges with gs.                            *)
(***************************************************************************)
EXTENDS Integers

KCB == 1               \* the address of the kernel control block
USER_RFLAGS == 2       \* IOPL 3, interrupts on

Registers == {"rax", "rbx", "rcx", "rdx", "rdi", "rsi", "r11", "rsp", "rip",
              "rflags", "fs", "fx", "gs", "kgs"}

Saved == Registers \ {"gs", "kgs"}

(* The virtual CPU, which the kernel shares with the process.              *)
EmptySaveArea == [r \in Saved |-> 0]

NewVirtualCpu == [enabled_state |-> EmptySaveArea, pc_disabled |-> <<0, 0>>,
                  resume_with_upcall |-> 0, is_disabled |-> FALSE]

(* upcalls_disabled: by the flag, or by the place it is at.                *)
upcalls_disabled(vcpu, rip) ==
  vcpu.is_disabled \/ (vcpu.pc_disabled[1] <= rip /\ rip <= vcpu.pc_disabled[2])

-----------------------------------------------------------------------------
(* Entry.  Both kinds of entry end with the kernel's base in gs.           *)

swapgs(regs) == [regs EXCEPT !.gs = regs.kgs, !.kgs = regs.gs]

(* isr.S saves everything that is interrupted.                             *)
isr_save(regs) == [r \in Saved |-> regs[r]]

(* The syscall instruction keeps the address to return to in rcx and the   *)
(* flags in r11; exec.S saves neither rax nor the flags, and nothing reads *)
(* what an earlier entry left in their place.                              *)
syscall_save(regs) ==
  [r \in Saved |-> CASE r \in {"rax", "rflags"} -> 0
                     [] r \in {"rcx", "rip"}    -> regs.rip
                     [] r = "r11"               -> regs.rflags
                     [] OTHER                   -> regs[r]]

-----------------------------------------------------------------------------
(* The ways back.                                                          *)

iret_restore(regs, area) ==
  [r \in Registers |-> IF r \in Saved THEN area[r] ELSE swapgs(regs)[r]]

(* sysretq takes the address from rcx and the flags from r11.              *)
restore(regs, area) ==
  [r \in Registers |-> CASE r = "rcx"               -> area.rip
                         [] r \in {"r11", "rflags"} -> USER_RFLAGS
                         [] r \in {"gs", "kgs"}     -> swapgs(regs)[r]
                         [] OTHER                   -> area[r]]

(* upcall: the registers are cleared, but fs is left as it is.             *)
upcall(regs, entry_point, stack_top, cpu_ctl, vector, exception) ==
  [swapgs(regs) EXCEPT
     !.rax = stack_top, !.rbx = 0, !.rcx = entry_point, !.rdi = cpu_ctl,
     !.rsi = vector, !.rdx = exception, !.r11 = USER_RFLAGS,
     !.rflags = USER_RFLAGS, !.rsp = stack_top, !.rip = entry_point, !.fx = 0]

(* start: gs and fs are cleared; the kernel's base is in kgs already.      *)
start(regs, entry_point, stack_top) ==
  [regs EXCEPT
     !.rax = stack_top, !.rbx = 0, !.rcx = entry_point, !.rdi = 0, !.rsi = 0,
     !.rdx = 0, !.r11 = USER_RFLAGS, !.rflags = USER_RFLAGS, !.rsp = stack_top,
     !.rip = entry_point, !.fx = 0, !.gs = 0, !.fs = 0]
=============================================================================
