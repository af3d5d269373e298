------------------------------- MODULE RwLock -------------------------------
(***************************************************************************)
(* The distributed readers-writer lock of the in-memory file system        *)
(* (kernel/src/fs/rwlock.rs): one write flag and one reader counter per    *)
(* core, all accessed with atomic read-modify-write instructions.  The     *)
(* locked instructions of x86-64 are full fences, so every load, store and *)
(* read-modify-write is one atomic step of the model.                      *)
(*                                                                         *)
(* A file-system replica lives on a NUMA node and is entered by the cores  *)
(* of that node (Cores).  A reader counts in the slot of its global thread *)
(* id; a writer scans the first max_threads slots.  Arch86Kcb::setup_cnr   *)
(* sets max_threads to the number of threads of node 0 (NodeZero).         *)
(***************************************************************************)
EXTENDS Integers, FiniteSets

CONSTANTS Cores,      \* global thread ids of the cores that use this lock
          NodeZero,   \* global thread ids of the cores of NUMA node 0
          MaxGuards   \* bound: read guards a core holds at the same time

ASSUME CoresAssumption ==
    /\ Cores \subseteq Nat
    /\ NodeZero \subseteq Nat /\ IsFiniteSet(NodeZero)
    /\ MaxGuards \in Nat

max_threads == Cardinality(NodeZero)

Slots == Cores \cup 0..(max_threads - 1)

VARIABLES wlock,    \* the writer lock
          rlock,    \* reader counters, one per slot
          pc,       \* where each core is in read(), write() or the unlocks
          scan,     \* next slot the writer of each core looks at
          guards    \* read guards each core holds

vars == <<wlock, rlock, pc, scan, guards>>

PC == {"idle", "w_cas", "w_scan", "writing",
       "r_spin", "r_inc", "r_check", "r_back", "panic"}

Init ==
    /\ wlock = FALSE
    /\ rlock = [s \in Slots |-> 0]
    /\ pc = [t \in Cores |-> "idle"]
    /\ scan = [t \in Cores |-> 0]
    /\ guards = [t \in Cores |-> 0]

Goto(t, from, to) ==
    /\ pc[t] = from
    /\ pc' = [pc EXCEPT ![t] = to]

-----------------------------------------------------------------------------
(* Slips of the steps below that the properties must notice. *)

\* The reader trusts its first look at the flag.
ReadCheckTrusting(t) ==
    /\ Goto(t, "r_check", "idle")
    /\ guards' = [guards EXCEPT ![t] = @ + 1]
    /\ UNCHANGED <<wlock, rlock, scan>>

\* The reader goes on to the second look without having counted.
ReadIncForgotten(t) ==
    /\ Goto(t, "r_inc", "r_check")
    /\ UNCHANGED <<wlock, rlock, scan, guards>>

\* The reader waits with its counter raised.
ReadBackHolding(t) ==
    /\ Goto(t, "r_back", "r_spin")
    /\ UNCHANGED <<wlock, rlock, scan, guards>>

(***************************************************************************)
(* write(): take the flag, then wait for every scanned counter to be 0.    *)
(***************************************************************************)
CallWrite(t) ==
    /\ guards[t] = 0
    /\ Goto(t, "idle", "w_cas")
    /\ UNCHANGED <<wlock, rlock, scan, guards>>

WriteCas(t) ==
    /\ ~wlock
    /\ wlock' = TRUE
    /\ scan' = [scan EXCEPT ![t] = 0]
    /\ Goto(t, "w_cas", "w_scan")
    /\ UNCHANGED <<rlock, guards>>

\* rlock.iter().take(n).all(..): a non-zero counter restarts the scan.
WriteScan(t) ==
    /\ pc[t] = "w_scan"
    /\ scan[t] < max_threads
    /\ scan' = [scan EXCEPT ![t] = IF rlock[scan[t]] = 0 THEN @ + 1 ELSE 0]
    /\ UNCHANGED <<wlock, rlock, pc, guards>>

WriteAcquired(t) ==
    /\ scan[t] >= max_threads
    /\ Goto(t, "w_scan", "writing")
    /\ UNCHANGED <<wlock, rlock, scan, guards>>

\* write_unlock(), run when the WriteGuard is dropped.
WriteUnlock(t) ==
    /\ wlock' = FALSE
    /\ Goto(t, "writing", IF wlock THEN "idle" ELSE "panic")
    /\ UNCHANGED <<rlock, scan, guards>>

(***************************************************************************)
(* read(): spin on the flag, count, look at the flag again and back off    *)
(* when a writer showed up in between.  A core may call read() while it    *)
(* holds a guard (MlnrFS::file_info does).                                 *)
(***************************************************************************)
CallRead(t) ==
    /\ guards[t] < MaxGuards
    /\ Goto(t, "idle", "r_spin")
    /\ UNCHANGED <<wlock, rlock, scan, guards>>

ReadSpin(t) ==
    /\ ~wlock
    /\ Goto(t, "r_spin", "r_inc")
    /\ UNCHANGED <<wlock, rlock, scan, guards>>

ReadInc(t) ==
    /\ Goto(t, "r_inc", "r_check")
    /\ rlock' = [rlock EXCEPT ![t] = @ + 1]
    /\ UNCHANGED <<wlock, scan, guards>>

ReadCheck(t) ==
    /\ Goto(t, "r_check", IF wlock THEN "r_back" ELSE "idle")
    /\ guards' = [guards EXCEPT ![t] = IF wlock THEN @ ELSE @ + 1]
    /\ UNCHANGED <<wlock, rlock, scan>>

ReadBack(t) ==
    /\ Goto(t, "r_back", "r_spin")
    /\ rlock' = [rlock EXCEPT ![t] = @ - 1]
    /\ UNCHANGED <<wlock, scan, guards>>

\* read_unlock(), run when a ReadGuard is dropped.
ReadUnlock(t) ==
    /\ guards[t] > 0
    /\ Goto(t, "idle", IF rlock[t] = 0 THEN "panic" ELSE "idle")
    /\ rlock' = [rlock EXCEPT ![t] = IF @ = 0 THEN @ ELSE @ - 1]
    /\ guards' = [guards EXCEPT ![t] = @ - 1]
    /\ UNCHANGED <<wlock, scan>>

\* The steps of a core inside read(), write() or an unlock.
Step(t) ==
    \/ WriteCas(t) \/ WriteScan(t) \/ WriteAcquired(t) \/ WriteUnlock(t)
    \/ ReadSpin(t) \/ ReadInc(t) \/ ReadCheck(t) \/ ReadBack(t)

Next == \E t \in Cores : CallWrite(t) \/ CallRead(t) \/ ReadUnlock(t) \/ Step(t)

Spec == Init /\ [][Next]_vars

\* A core in the kernel runs with interrupts off, so each of its steps that
\* stays enabled is taken, and a guard is a local that is always dropped.
Fairness == \A t \in Cores : WF_vars(Step(t)) /\ WF_vars(ReadUnlock(t))

FairSpec == Spec /\ Fairness

-----------------------------------------------------------------------------
Reading(t) == guards[t] > 0

Writing(t) == pc[t] = "writing"

\* The state every variable is in (fields wlock and rlock of RwLock).
TypeOK ==
    /\ wlock \in BOOLEAN
    /\ rlock \in [Slots -> Nat]
    /\ pc \in [Cores -> PC]
    /\ scan \in [Cores -> Nat]
    /\ guards \in [Cores -> Nat]

\* "The `read()` and `write()` logic ensures that we will never have threads
\* writing to and reading from the underlying data structure simultaneously"
\* (rwlock.rs:210): a writer excludes the readers and the other writers.
MutualExclusion ==
    \A t, u \in Cores :
        Writing(t) => ~Reading(u) /\ (u # t => ~Writing(u))

\* Neither unlock finds its lock free: the panics of write_unlock and
\* read_unlock (rwlock.rs:184 and 191) are never reached, whatever the order
\* in which readers back off and guards are dropped.
NoUnlockPanic == \A t \in Cores : pc[t] # "panic"

\* A core that holds a guard does not ask for another one.
NoNesting == \A t \in Cores : Reading(t) => pc[t] = "idle"

\* A writer that has raised the flag gets in, if cores do not nest their
\* guards: readers that arrive later back off, so the counters drain
\* (rwlock.rs:127-136).
WriterGetsIn == []NoNesting => \A t \in Cores : pc[t] = "w_scan" ~> Writing(t)

=============================================================================
