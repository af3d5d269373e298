---------------------------- MODULE RwLockProofs ----------------------------
(***************************************************************************)
(* Proof that the distributed readers-writer lock excludes readers from    *)
(* writers, and writers from each other, for any number of cores, any      *)
(* depth of nested read guards and any topology in which the writer's scan *)
(* covers every core that uses the lock (ScanCoversCores).                 *)
(***************************************************************************)
EXTENDS RwLock, FiniteSetTheorems, TLAPS

\* The slots write() looks at are those of all the cores that call read().
ScanCoversCores == Cores \subseteq 0..(max_threads - 1)

\* The core owns the writer lock.
Holder(t) == pc[t] \in {"w_scan", "writing"}

\* A core's counter is the number of guards it holds, plus the increment of
\* a read() that has not looked at the writer lock yet or must take it back.
Counted ==
    \A t \in Cores :
        rlock[t] = guards[t] + (IF pc[t] \in {"r_check", "r_back"} THEN 1 ELSE 0)

\* The writer lock has at most one owner, and is up while it has one.
OneHolder ==
    \A t \in Cores : Holder(t) =>
        /\ wlock
        /\ \A u \in Cores : Holder(u) => u = t

\* Cores whose slot the writer has passed hold no guard: they may count and
\* back off, but not get in, while the writer lock is up.
Drained ==
    \A t, u \in Cores :
        /\ pc[t] = "w_scan" /\ u < scan[t] => guards[u] = 0
        /\ pc[t] = "writing" /\ u < max_threads => guards[u] = 0

IInv == TypeOK /\ Counted /\ OneHolder /\ Drained /\ NoUnlockPanic

-----------------------------------------------------------------------------
\* The number of slots is a number.
LEMMA MaxThreadsNat == max_threads \in Nat
  BY CoresAssumption, FS_CardinalityType DEF max_threads

\* Every core has a slot, and cores are numbers.
LEMMA CoreSlots == Cores \subseteq Slots /\ Cores \subseteq Nat
  BY CoresAssumption DEF Slots

\* The invariant holds at first, ...
LEMMA InitIInv == Init => IInv
  <1> SUFFICES ASSUME Init PROVE IInv
    OBVIOUS
  <1> USE CoreSlots DEF Init
  <1>1. TypeOK /\ NoUnlockPanic
    BY Zenon DEF TypeOK, PC, NoUnlockPanic
  <1>2. Counted
    BY DEF Counted
  <1>3. OneHolder /\ Drained
    BY DEF OneHolder, Holder, Drained
  <1>4. QED
    BY <1>1, <1>2, <1>3 DEF IInv

\* ... every step keeps it, ...
LEMMA StepIInv == IInv /\ [Next]_vars => IInv'
  <1> SUFFICES ASSUME IInv, [Next]_vars PROVE IInv'
    OBVIOUS
  <1> USE MaxThreadsNat, CoreSlots
      DEF IInv, TypeOK, PC, Counted, OneHolder, Holder, Drained, NoUnlockPanic
  <1>1. ASSUME NEW t \in Cores, CallWrite(t) PROVE IInv'
    BY <1>1 DEF CallWrite, Goto
  <1>2. ASSUME NEW t \in Cores, WriteCas(t) PROVE IInv'
    BY <1>2 DEF WriteCas, Goto
  <1>3. ASSUME NEW t \in Cores, WriteScan(t) PROVE IInv'
    BY <1>3 DEF WriteScan, Slots
  <1>4. ASSUME NEW t \in Cores, WriteAcquired(t) PROVE IInv'
    BY <1>4 DEF WriteAcquired, Goto
  <1>5. ASSUME NEW t \in Cores, WriteUnlock(t) PROVE IInv'
    BY <1>5, Zenon DEF WriteUnlock, Goto
  <1>6. ASSUME NEW t \in Cores, CallRead(t) PROVE IInv'
    BY <1>6 DEF CallRead, Goto
  <1>7. ASSUME NEW t \in Cores, ReadSpin(t) PROVE IInv'
    BY <1>7 DEF ReadSpin, Goto
  <1>8. ASSUME NEW t \in Cores, ReadInc(t) PROVE IInv'
    BY <1>8 DEF ReadInc, Goto
  <1>9. ASSUME NEW t \in Cores, ReadCheck(t) PROVE IInv'
    BY <1>9 DEF ReadCheck, Goto
  <1>10. ASSUME NEW t \in Cores, ReadBack(t) PROVE IInv'
    BY <1>10 DEF ReadBack, Goto
  <1>11. ASSUME NEW t \in Cores, ReadUnlock(t) PROVE IInv'
    BY <1>11 DEF ReadUnlock, Goto
  <1>12. CASE UNCHANGED vars
    BY <1>12 DEF vars
  <1>13. QED
    BY <1>1, <1>2, <1>3, <1>4, <1>5, <1>6, <1>7, <1>8, <1>9, <1>10, <1>11, <1>12
    DEF Next, Step

\* ... so it always holds.
LEMMA IInvHolds == Spec => []IInv
  BY InitIInv, StepIInv, PTL DEF Spec

-----------------------------------------------------------------------------
\* Every variable of the lock keeps its type, for every set of cores.
THEOREM TypeCorrect == Spec => []TypeOK
  <1>1. IInv => TypeOK
    BY DEF IInv
  <1>2. QED
    BY <1>1, IInvHolds, PTL

\* read_unlock and write_unlock never panic (rwlock.rs:184 and 191).
THEOREM UnlockNeverPanics == Spec => []NoUnlockPanic
  <1>1. IInv => NoUnlockPanic
    BY DEF IInv
  <1>2. QED
    BY <1>1, IInvHolds, PTL

\* Readers and writers exclude each other (rwlock.rs:210-212) on every node
\* whose cores all have slots below max_threads.
THEOREM Exclusion == ScanCoversCores => (Spec => []MutualExclusion)
  <1> SUFFICES ASSUME ScanCoversCores PROVE Spec => []MutualExclusion
    OBVIOUS
  <1>1. IInv => MutualExclusion
    BY MaxThreadsNat, CoreSlots
    DEF ScanCoversCores, IInv, TypeOK, OneHolder, Holder, Drained,
        MutualExclusion, Writing, Reading
  <1>2. QED
    BY <1>1, IInvHolds, PTL
=============================================================================
