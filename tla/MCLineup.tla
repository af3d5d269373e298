------------------------------ MODULE MCLineup ------------------------------
(***************************************************************************)
(* Programs of two to four threads on two cores for Lineup.                *)
(***************************************************************************)
EXTENDS Lineup, TLC

McCores == {0, 1}

(* Threads by number from 0; the first n exist from the start.             *)
Program(cores, n, codes) ==
  [core  |-> [t \in 0 .. Len(codes) - 1 |-> cores[t + 1]],
   code  |-> [t \in 0 .. Len(codes) - 1 |-> codes[t + 1]],
   first |-> n,
   irqs  |-> 2]

Locked == rumpuser_mutex_enter \o rumpuser_mutex_exit

(* Waits for a signal of the thread it creates, which cannot come early:   *)
(* the mutex is free only once the wait has begun.                         *)
Waiter(wait_for) ==
  rumpuser_mutex_enter \o rumpuser_thread_create \o wait_for \o rumpuser_mutex_exit

Signaller(wake) == rumpuser_mutex_enter \o wake \o rumpuser_mutex_exit

Reader == rumpuser_rw_enter("Read") \o rw_exit

Writer == rumpuser_rw_enter("Write") \o rw_exit

McPrograms == {
  \* enter, enter_nowrap and try_enter of threads that share cores
  Program(<<0, 0, 1>>, 3,
          <<Locked \o Locked, Locked, rumpuser_mutex_tryenter(rumpuser_mutex_exit) \o Locked>>),
  Program(<<0, 1, 1, 0>>, 3,
          <<rumpuser_mutex_enter_nowrap \o rumpuser_mutex_exit \o Locked,
            rumpuser_mutex_enter \o rumpuser_thread_create \o rumpuser_mutex_exit, Locked, Locked>>),
  \* a signal, a timeout, a broadcast to two
  Program(<<0, 1>>, 1, <<Waiter(rumpuser_cv_wait), Signaller(rumpuser_cv_signal)>>),
  Program(<<0, 1>>, 1, <<Waiter(rumpuser_cv_timedwait) \o Locked, Locked>>),
  Program(<<0, 0, 1>>, 1, <<Waiter(rumpuser_cv_wait), Waiter(rumpuser_cv_wait),
                            Signaller(rumpuser_cv_broadcast)>>),
  Program(<<0, 1, 1>>, 1, <<Waiter(rumpuser_cv_wait), Waiter(rumpuser_cv_wait),
                            Signaller(rumpuser_cv_broadcast)>>),
  Program(<<0, 1, 1>>, 1,
          <<rumpuser_mutex_enter \o rumpuser_thread_create \o rumpuser_thread_create
              \o rumpuser_cv_wait \o rumpuser_mutex_exit \o Locked,
            Signaller(rumpuser_cv_signal) \o Locked, Locked \o Locked>>),
  \* a semaphore
  Program(<<0, 1, 1>>, 3, <<down \o down, up, up>>),
  \* the readers-writer lock
  Program(<<0, 0, 1>>, 3, <<Writer, Reader \o Writer, Reader>>),
  Program(<<0, 1, 1>>, 3,
          <<rumpuser_rw_enter("Write") \o downgrade \o rw_exit, Reader \o Writer, Reader>>),
  Program(<<0, 1, 1>>, 3,
          <<rumpuser_rw_enter("Read") \o rumpuser_rw_tryupgrade(downgrade, <<>>) \o rw_exit,
            rumpuser_rw_tryenter("Write", rw_exit), rumpuser_rw_tryenter("Read", rw_exit)>>),
  Program(<<0, 1, 0>>, 3,
          <<rumpuser_rw_enter("Read") \o rumpuser_rw_tryupgrade(<<>>, <<>>) \o rw_exit \o Reader,
            rumpuser_rw_enter("Write") \o downgrade \o rumpuser_rw_tryupgrade(<<>>, <<>>) \o rw_exit,
            rumpuser_rw_tryenter("Read", rw_exit)>>),
  \* threads that come, go and wait for each other
  Program(<<0, 1, 0>>, 2, <<rumpuser_thread_create \o join(1) \o join(2), relinquish \o Locked,
                            rumpuser_clock_sleep \o Locked>>),
  Program(<<0, 1, 1>>, 1, <<rumpuser_thread_create \o rumpuser_thread_create \o rumpuser_clock_sleep,
                            rumpuser_clock_sleep \o rumpuser_thread_exit,
                            rumpuser_clock_sleep \o rumpuser_clock_sleep>>),
  \* park and unpark of light-weight processes
  Program(<<0, 1>>, 1, <<rumprun_makelwp \o _lwp_unpark(1) \o ___lwp_park60 \o _lwp_unpark(1),
                         ___lwp_park60 \o _lwp_unpark(0) \o ___lwp_park60 \o _lwp_exit>>),
  \* the thread that handles interrupts
  Program(<<0, 0>>, 1, <<rumpcomp_pci_irq_map(42) \o relinquish, irq_handler \o irq_handler>>) }
=============================================================================
