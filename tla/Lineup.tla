------------------------------- MODULE Lineup -------------------------------
(***************************************************************************)
(* The user-level threads of a process (lib/lineup): the scheduler of the  *)
(* cores, and the mutex, condition variable, semaphore and readers-writer  *)
(* lock that block and wake threads.                                       *)
(*                                                                         *)
(* A thread runs a list of steps; a step is one atomic access to shared    *)
(* state or one request to the scheduler, and the operators below say      *)
(* which steps a call consists of.  todo[t] has the steps thread t still   *)
(* has to make.  Cores take steps in any order; the threads of one core   *)
(* take turns only where they give up the core.                            *)
(***************************************************************************)
EXTENDS Integers, FiniteSets, SequencesExt

CONSTANTS Cores,       \* cores of the process
          Programs,    \* what the threads do: [core, code, first, irqs]
          WaitlistLen, \* capacity of the wait list of a mutex
          IrqLen       \* capacity of pending_irqs

VARIABLES program,     \* the program of this behaviour
          tid_counter,
          threads,     \* the thread map
          generators,  \* generators that are not in use
          joinlist,    \* who waits for each thread to end
          runnable,    \* the runnable list of each core
          waiting,     \* the wait list of each core, the next to expire last
          running,     \* the thread each core runs, or None
          todo,        \* the steps and calls left of each thread
          irqvec,      \* irqvec_to_tid
          pending,     \* pending_irqs of each core
          irqs,        \* interrupts the device may still raise
          mutex,       \* [counter, waitlist, owner] of each mutex
          cv,          \* [waiters, dbg_mutex] of each condition variable
          sem,         \* the count of each semaphore
          rw,          \* [readers, lock_type] of each readers-writer lock
          lwp,         \* [thread, pstatus] of each light-weight process
          holds,       \* what each thread believes to hold
          panic        \* why the process stopped

schedVars == <<tid_counter, threads, generators, joinlist, runnable, waiting, running>>
syncVars == <<mutex, cv, sem, rw, lwp>>
vars == <<program, schedVars, todo, irqvec, pending, irqs, syncVars, holds, panic>>

None == -1

Tids == DOMAIN program.code

core(t) == program.core[t]

(* The mutex and condition variable of the programs, those inside the      *)
(* semaphore, and the two mutexes inside the readers-writer lock.          *)
Mutexes == {"m", "sem", "access", "wait"}

CondVars == {"cv", "semcv"}

MAX_THREADS == 2048

RL_MASK_PARKED == 1

RL_MASK_UNPARK == 1

RL_MASK_PARK == 2

-----------------------------------------------------------------------------
(* The steps of each call.  A branching step carries the steps of both     *)
(* outcomes.                                                               *)

make_unrunnable == << <<"suspend">> >>

make_runnable(t) == << <<"wake", t>> >>

relinquish == << <<"yield">> >>

sleep == << <<"sleep">> >>

join(t) == << <<"join", t>> >>

spawn(vector) == << <<"add_thread", "spawned", vector>> >>

enter(m) == << <<"enter", m>> >>

enter_nowrap(m) == << <<"cas", m>>, <<"own", m>> >>

try_enter(m, then, else) == << <<"load", m, then, else>> >>

exit(m) == << <<"exit", m>> >>

wait(c, m) == << <<"cv_push", c, m>> >> \o exit(m) \o make_unrunnable \o enter_nowrap(m)
              \o << <<"cv_woken", c>> >>

timed_wait(c, m) == << <<"cv_push", c, m>> >> \o exit(m) \o sleep \o enter_nowrap(m)
                    \o << <<"cv_remove", c>> >>

signal(c) == << <<"signal", c>> >>

broadcast(c) == << <<"broadcast", c>> >>

up == enter("sem") \o << <<"up">> >> \o exit("sem")

down == enter("sem") \o << <<"test">>, <<"down">> >> \o exit("sem")

rw_enter(intent) ==
  enter("wait")
  \o (IF intent = "Write" THEN enter("access") \o << <<"type", "Writeable">> >>
      ELSE << <<"add_reader">> >>)
  \o exit("wait")

rw_try_enter(intent, then, else) ==
  try_enter("wait",
            IF intent = "Write"
            THEN try_enter("access", << <<"type", "Writeable">> >> \o exit("wait") \o then,
                                     exit("wait") \o else)
            ELSE << <<"try_read", then, else>> >>,
            else)

rw_exit == << <<"leave">> >>

downgrade == << <<"type", "Readable">>, <<"downgraded">> >>

try_upgrade(then, else) == << <<"upgrade", then, else>> >>

-----------------------------------------------------------------------------
(* The calls of the rump kernel (vibrio/rumprt), in terms of the above.    *)

rumpuser_mutex_enter == enter("m")

rumpuser_mutex_enter_nowrap == enter_nowrap("m")

rumpuser_mutex_tryenter(then) == try_enter("m", then, <<>>)

rumpuser_mutex_exit == exit("m")

rumpuser_rw_enter(intent) == rw_enter(intent)

rumpuser_rw_tryenter(intent, then) == rw_try_enter(intent, then, <<>>)

rumpuser_rw_tryupgrade(then, else) == try_upgrade(then, else)

rumpuser_cv_wait == wait("cv", "m")

rumpuser_cv_timedwait == timed_wait("cv", "m")

rumpuser_cv_signal == signal("cv")

rumpuser_cv_broadcast == broadcast("cv")

rumpuser_thread_create == spawn(None)

rumpuser_thread_exit == make_unrunnable \o << <<"unreachable">> >>

rumpuser_clock_sleep == sleep

rumprun_makelwp == << <<"newlwp">>, <<"add_thread", "rl_thread", None>> >>

_lwp_exit == make_unrunnable \o << <<"unreachable">> >>

___lwp_park60 == << <<"park">> >>

_lwp_unpark(lid) == << <<"unpark", lid>> >>

rumpcomp_pci_irq_map(vector) == spawn(vector) \o << <<"irqalloc", vector>> >>

(* The handler thread: each wake-up is one run of the handler.             *)
irq_handler == make_unrunnable \o << <<"handle">> >>

-----------------------------------------------------------------------------
Init ==
  /\ program \in Programs
  /\ tid_counter = program.first
  /\ threads = 0 .. program.first - 1
  /\ generators = threads
  /\ joinlist = [t \in Tids |-> <<>>]
  /\ runnable = [c \in Cores |-> SelectSeq([i \in 1 .. program.first |-> i - 1],
                                           LAMBDA t : core(t) = c)]
  /\ waiting = [c \in Cores |-> <<>>]
  /\ running = [c \in Cores |-> None]
  /\ todo = program.code
  /\ irqvec = <<>>
  /\ pending = [c \in Cores |-> <<>>]
  /\ irqs = 0
  /\ mutex = [m \in Mutexes |-> [counter |-> 0, waitlist |-> <<>>, owner |-> None]]
  /\ cv = [c \in CondVars |-> [waiters |-> <<>>, dbg_mutex |-> "null"]]
  /\ sem = 0
  /\ rw = [readers |-> 0, lock_type |-> "Free"]
  /\ lwp = [t \in threads |-> [rl_thread |-> t, rl_pstatus |-> RL_MASK_PARK]]
  /\ holds = [t \in Tids |-> {}]
  /\ panic = "no"

-----------------------------------------------------------------------------
(* Core c runs a thread whose next step is one of the given kind.          *)
Self(c) == running[c]

On(c, kind) ==
  /\ panic = "no"
  /\ Self(c) # None
  /\ todo[Self(c)] # <<>>
  /\ Head(todo[Self(c)])[1] = kind

Arg(c, i) == Head(todo[Self(c)])[i]

(* The step is done and the given ones come next.                          *)
Then(c, steps) == todo' = [todo EXCEPT ![Self(c)] = steps \o Tail(@)]

Done(c) == Then(c, <<>>)

Panic(reason) ==
  /\ panic' = reason
  /\ UNCHANGED <<program, schedVars, todo, irqvec, pending, irqs, syncVars, holds>>

Holds(c, set) == holds' = [holds EXCEPT ![Self(c)] = set]

(* Interrupted: the generator goes back and the core looks for work.       *)
Interrupted(c) ==
  /\ generators' = generators \union {Self(c)}
  /\ running' = [running EXCEPT ![c] = None]

-----------------------------------------------------------------------------
(* run: interrupts, expired timeouts, then the first runnable thread.      *)
(* check_interrupt wakes the threads of the pending interrupts, on the     *)
(* core that has them.                                                     *)
check_interrupt(c) ==
  LET known == SelectSeq(pending[c], LAMBDA v : v \in DOMAIN irqvec)
  IN  [i \in DOMAIN known |-> irqvec[known[i]]]

(* check_wakeups takes those whose time has come, here the last n.         *)
check_wakeups(c, n) == Reverse(SubSeq(waiting[c], Len(waiting[c]) - n + 1, Len(waiting[c])))

(* Past the block of rumpuser_thread_exit and _lwp_exit.                   *)
unreachable(t) == todo[t] # <<>> /\ Head(todo[t])[1] = "unreachable"

Dispatch(c) ==
  /\ panic = "no" /\ running[c] = None
  /\ \E n \in 0 .. Len(waiting[c]) :
       LET queue == runnable[c] \o check_interrupt(c) \o check_wakeups(c, n)
           next  == Head(queue)
       IN  /\ queue # <<>>
           /\ IF next \notin generators \/ next \notin threads \/ unreachable(next)
              THEN Panic("cannot run thread")
              ELSE /\ runnable' = [runnable EXCEPT ![c] = Tail(queue)]
                   /\ waiting' = [waiting EXCEPT ![c] = SubSeq(@, 1, Len(@) - n)]
                   /\ pending' = [pending EXCEPT ![c] = <<>>]
                   /\ generators' = generators \ {next}
                   /\ running' = [running EXCEPT ![c] = next]
                   /\ UNCHANGED <<program, tid_counter, threads, joinlist, todo, irqvec, irqs,
                                  syncVars, holds, panic>>

(* An interrupt reaches the process: upcall_while_enabled queues it on the *)
(* core it was routed to, which is core 0.                                 *)
Interrupt ==
  /\ panic = "no" /\ irqs > 0
  /\ \E v \in DOMAIN irqvec :
       IF Len(pending[0]) = IrqLen
       THEN Panic("pending_irqs full")
       ELSE /\ pending' = [pending EXCEPT ![0] = Append(@, v)]
            /\ irqs' = irqs - 1
            /\ UNCHANGED <<program, schedVars, todo, irqvec, syncVars, holds, panic>>

-----------------------------------------------------------------------------
(* handle_yield_request.                                                   *)

mark_runnable(t) == runnable' = [runnable EXCEPT ![core(t)] = Append(@, t)]

mark_unrunnable(t) ==
  runnable' = [runnable EXCEPT ![core(t)] = SelectSeq(@, LAMBDA u : u # t)]

waitlist_remove(t) ==
  waiting' = [waiting EXCEPT ![core(t)] = SelectSeq(@, LAMBDA u : u # t)]

(* The thread function returned: first no longer runnable...               *)
Terminate(c) ==
  /\ panic = "no" /\ Self(c) # None /\ todo[Self(c)] = <<>>
  /\ mark_unrunnable(Self(c))
  /\ todo' = [todo EXCEPT ![Self(c)] = << <<"remove">> >>]
  /\ UNCHANGED <<program, tid_counter, threads, generators, joinlist, waiting, running, irqvec,
                 pending, irqs, syncVars, holds, panic>>

(* ... then out of the thread map, and its joiners run again.              *)
RemoveThread(c) ==
  /\ On(c, "remove")
  /\ threads' = threads \ {Self(c)}
  /\ runnable' = [d \in Cores |->
       runnable[d] \o SelectSeq(joinlist[Self(c)], LAMBDA t : core(t) = d)]
  /\ running' = [running EXCEPT ![c] = None]
  /\ Done(c)
  /\ UNCHANGED <<program, tid_counter, generators, joinlist, waiting, irqvec, pending, irqs,
                 syncVars, holds, panic>>

(* YieldRequest::None.                                                     *)
Yield(c) ==
  /\ On(c, "yield")
  /\ mark_runnable(Self(c))
  /\ Interrupted(c)
  /\ Done(c)
  /\ UNCHANGED <<program, tid_counter, threads, joinlist, waiting, irqvec, pending, irqs, syncVars,
                 holds, panic>>

(* YieldRequest::Unrunnable of the thread itself.                          *)
Unrunnable(c) ==
  /\ On(c, "suspend")
  /\ Interrupted(c)
  /\ Done(c)
  /\ UNCHANGED <<program, tid_counter, threads, joinlist, runnable, waiting, irqvec, pending, irqs,
                 syncVars, holds, panic>>

(* YieldRequest::Timeout: at its place in the list, whatever the time is.  *)
Timeout(c) ==
  /\ On(c, "sleep")
  /\ \E i \in 1 .. Len(waiting[c]) + 1 : waiting' = [waiting EXCEPT ![c] = InsertAt(@, i, Self(c))]
  /\ Interrupted(c)
  /\ Done(c)
  /\ UNCHANGED <<program, tid_counter, threads, joinlist, runnable, irqvec, pending, irqs, syncVars,
                 holds, panic>>

(* YieldRequest::Runnable: off the wait list...                            *)
Runnable(c) ==
  /\ On(c, "wake")
  /\ IF Arg(c, 2) \notin threads
     THEN Panic("Can't find thread")
     ELSE /\ waitlist_remove(Arg(c, 2))
          /\ Then(c, << <<"mark", Arg(c, 2)>> >>)
          /\ UNCHANGED <<program, tid_counter, threads, generators, joinlist, runnable, running,
                         irqvec, pending, irqs, syncVars, holds, panic>>

(* ... and, with the locks released in between, on the runnable list.      *)
Mark(c) ==
  /\ On(c, "mark")
  /\ mark_runnable(Arg(c, 2))
  /\ Done(c)
  /\ UNCHANGED <<program, tid_counter, threads, generators, joinlist, waiting, running, irqvec,
                 pending, irqs, syncVars, holds, panic>>

(* YieldRequest::JoinOn.                                                   *)
JoinOn(c) ==
  /\ On(c, "join")
  /\ IF Arg(c, 2) \in threads
     THEN /\ joinlist' = [joinlist EXCEPT ![Arg(c, 2)] = Append(@, Self(c))]
          /\ Interrupted(c)
          /\ Then(c, << <<"joined", Arg(c, 2)>> >>)
     ELSE /\ Then(c, << <<"joined", Arg(c, 2)>> >>)
          /\ UNCHANGED <<joinlist, generators, running>>
  /\ UNCHANGED <<program, tid_counter, threads, runnable, waiting, irqvec, pending, irqs, syncVars,
                 holds, panic>>

(* The call to join returns.                                               *)
Joined(c) ==
  /\ On(c, "joined")
  /\ Done(c)
  /\ UNCHANGED <<program, schedVars, irqvec, pending, irqs, syncVars, holds, panic>>

(* YieldRequest::Spawn, SpawnWithArgs: add_thread, then mark_runnable.     *)
AddThread(c) ==
  /\ On(c, "add_thread")
  /\ IF Cardinality(threads) <= MAX_THREADS
     THEN /\ tid_counter' = tid_counter + 1
          /\ threads' = threads \union {tid_counter}
          /\ generators' = generators \union {tid_counter}
          /\ Then(c, << <<"mark", tid_counter>>, <<Arg(c, 2), Arg(c, 3), tid_counter>> >>)
          /\ UNCHANGED <<program, joinlist, runnable, waiting, running, irqvec, pending, irqs,
                         syncVars, holds, panic>>
     ELSE Panic("Can't spawn the thread")

(* The interrupt vector of a new thread is registered once it is runnable. *)
Spawned(c) ==
  /\ On(c, "spawned")
  /\ irqvec' = IF Arg(c, 2) = None THEN irqvec ELSE (Arg(c, 2) :> Arg(c, 3)) @@ irqvec
  /\ Done(c)
  /\ UNCHANGED <<program, schedVars, pending, irqs, syncVars, holds, panic>>

-----------------------------------------------------------------------------
(* mutex.rs.                                                               *)

SyncStep == UNCHANGED <<program, schedVars, irqvec, pending, irqs, panic>>

Enter(c) ==
  /\ On(c, "enter")
  /\ LET m == Arg(c, 2)
     IN  /\ mutex' = [mutex EXCEPT ![m].counter = @ + 1]
         /\ Then(c, IF mutex[m].counter # 0
                    THEN << <<"push", m>> >> \o make_unrunnable \o << <<"own", m>> >>
                    ELSE << <<"own", m>> >>)
  /\ SyncStep /\ UNCHANGED <<cv, sem, rw, lwp, holds>>

Push(c) ==
  /\ On(c, "push")
  /\ LET m == Arg(c, 2)
     IN  IF Len(mutex[m].waitlist) = WaitlistLen
         THEN Panic("waitlist full")
         ELSE /\ mutex' = [mutex EXCEPT ![m].waitlist = Append(@, Self(c))]
              /\ Done(c)
              /\ SyncStep /\ UNCHANGED <<cv, sem, rw, lwp, holds>>

(* The lock is acquired and the owner written.                             *)
Own(c) ==
  /\ On(c, "own")
  /\ mutex' = [mutex EXCEPT ![Arg(c, 2)].owner = Self(c)]
  /\ Holds(c, holds[Self(c)] \union {Arg(c, 2)})
  /\ Done(c)
  /\ SyncStep /\ UNCHANGED <<cv, sem, rw, lwp>>

(* A slip: the counter is read, not compared, before it is set.            *)
StoreOne(c) ==
  /\ On(c, "cas")
  /\ mutex' = [mutex EXCEPT ![Arg(c, 2)].counter = 1]
  /\ Done(c)
  /\ SyncStep /\ UNCHANGED <<cv, sem, rw, lwp, holds>>

(* enter_nowrap spins until the counter is 0 and its compare_exchange      *)
(* succeeds; so does try_enter once it has read a counter of 0.            *)
Cas(c) ==
  /\ On(c, "cas")
  /\ mutex[Arg(c, 2)].counter = 0
  /\ mutex' = [mutex EXCEPT ![Arg(c, 2)].counter = 1]
  /\ Done(c)
  /\ SyncStep /\ UNCHANGED <<cv, sem, rw, lwp, holds>>

TryEnter(c) ==
  /\ On(c, "load")
  /\ LET m == Arg(c, 2)
     IN  IF mutex[m].owner = Self(c)
         THEN Panic("Locking mutex against itself")
         ELSE /\ Then(c, IF mutex[m].counter # 0
                         THEN Arg(c, 4)
                         ELSE << <<"cas", m>>, <<"own", m>> >> \o Arg(c, 3))
              /\ SyncStep /\ UNCHANGED <<syncVars, holds>>

(* A slip: exit wakes nobody when the waiter is not on the list yet.       *)
ExitNoSpin(c) ==
  /\ On(c, "exit")
  /\ LET m == Arg(c, 2)
     IN  /\ mutex' = [mutex EXCEPT ![m].owner = None, ![m].counter = @ - 1]
         /\ Holds(c, holds[Self(c)] \ {m})
         /\ Then(c, IF mutex[m].waitlist # <<>> THEN << <<"pop", m>> >> ELSE <<>>)
         /\ SyncStep /\ UNCHANGED <<cv, sem, rw, lwp>>

Exit(c) ==
  /\ On(c, "exit")
  /\ LET m == Arg(c, 2)
         v == mutex[m].counter
     IN  IF v < 1
         THEN Panic("exit on already released mutex")
         ELSE /\ mutex' = [mutex EXCEPT ![m].owner = None, ![m].counter = v - 1]
              /\ Holds(c, holds[Self(c)] \ {m})
              /\ Then(c, IF v > 1 THEN << <<"pop", m>> >> ELSE <<>>)
              /\ SyncStep /\ UNCHANGED <<cv, sem, rw, lwp>>

(* exit spins until the waiter it must wake is on the wait list.           *)
Pop(c) ==
  /\ On(c, "pop")
  /\ LET m == Arg(c, 2)
     IN  /\ mutex[m].waitlist # <<>>
         /\ mutex' = [mutex EXCEPT ![m].waitlist = Tail(@)]
         /\ Then(c, make_runnable(Head(mutex[m].waitlist)))
  /\ SyncStep /\ UNCHANGED <<cv, sem, rw, lwp, holds>>

-----------------------------------------------------------------------------
(* condvar.rs.                                                             *)

CvPush(c) ==
  /\ On(c, "cv_push")
  /\ cv' = [cv EXCEPT ![Arg(c, 2)] = [waiters |-> Append(@.waiters, Self(c)),
                                      dbg_mutex |-> Arg(c, 3)]]
  /\ Done(c)
  /\ SyncStep /\ UNCHANGED <<mutex, sem, rw, lwp, holds>>

(* The end of wait: signal or broadcast must have removed the thread.      *)
CvWoken(c) ==
  /\ On(c, "cv_woken")
  /\ IF Contains(cv[Arg(c, 2)].waiters, Self(c))
     THEN Panic("signal/broadcast must remove")
     ELSE Done(c) /\ SyncStep /\ UNCHANGED <<syncVars, holds>>

(* The end of timed_wait: remove_item takes out its first entry.           *)
CvRemove(c) ==
  /\ On(c, "cv_remove")
  /\ cv' = [cv EXCEPT ![Arg(c, 2)].waiters = RemoveFirst(@, Self(c))]
  /\ Done(c)
  /\ SyncStep /\ UNCHANGED <<mutex, sem, rw, lwp, holds>>

(* The assertion of signal and broadcast: the mutex is the caller's.       *)
MayWake(c) ==
  LET m == cv[Arg(c, 2)].dbg_mutex
  IN  m = "null" \/ mutex[m].owner \in {None, Self(c)}

Signal(c) ==
  /\ On(c, "signal")
  /\ LET w == cv[Arg(c, 2)].waiters
     IN  IF ~MayWake(c)
         THEN Panic("signal without the mutex")
         ELSE /\ cv' = [cv EXCEPT ![Arg(c, 2)].waiters = IF w = <<>> THEN w ELSE Front(w)]
              /\ Then(c, IF w = <<>> THEN <<>> ELSE make_runnable(Last(w)))
              /\ SyncStep /\ UNCHANGED <<mutex, sem, rw, lwp, holds>>

Broadcast(c) ==
  /\ On(c, "broadcast")
  /\ LET w == cv[Arg(c, 2)].waiters
     IN  IF ~MayWake(c)
         THEN Panic("broadcast without the mutex")
         ELSE /\ cv' = [cv EXCEPT ![Arg(c, 2)].waiters = <<>>]
              /\ Then(c, [i \in DOMAIN w |-> <<"wake", w[i]>>])
              /\ SyncStep /\ UNCHANGED <<mutex, sem, rw, lwp, holds>>

-----------------------------------------------------------------------------
(* semaphore.rs, between enter and exit of its mutex.                      *)

Up(c) ==
  /\ On(c, "up")
  /\ sem' = sem + 1
  /\ Then(c, IF sem + 1 > 0 THEN signal("semcv") ELSE <<>>)
  /\ SyncStep /\ UNCHANGED <<mutex, cv, rw, lwp, holds>>

Test(c) ==
  /\ On(c, "test")
  /\ Then(c, IF sem <= 0 THEN wait("semcv", "sem") ELSE <<>>)
  /\ SyncStep /\ UNCHANGED <<syncVars, holds>>

Down(c) ==
  /\ On(c, "down")
  /\ sem' = sem - 1
  /\ Done(c)
  /\ SyncStep /\ UNCHANGED <<mutex, cv, rw, lwp, holds>>

-----------------------------------------------------------------------------
(* rwlock.rs.  A thread holds the lock for reading or writing from the     *)
(* step that makes it so.                                                  *)

HoldsRw(c, lock_type) ==
  Holds(c, (holds[Self(c)] \ {"Readable", "Writeable"}) \union ({lock_type} \ {"Free"}))

SetType(c) ==
  /\ On(c, "type")
  /\ rw' = [rw EXCEPT !.lock_type = Arg(c, 2)]
  /\ HoldsRw(c, Arg(c, 2))
  /\ Done(c)
  /\ SyncStep /\ UNCHANGED <<mutex, cv, sem, lwp>>

(* The first reader gets access, the others only count themselves.         *)
AddReader(c) ==
  /\ On(c, "add_reader")
  /\ rw' = [rw EXCEPT !.readers = @ + 1]
  /\ IF rw.readers = 0
     THEN Then(c, enter("access") \o << <<"type", "Readable">> >>) /\ UNCHANGED holds
     ELSE Done(c) /\ HoldsRw(c, "Readable")
  /\ SyncStep /\ UNCHANGED <<mutex, cv, sem, lwp>>

TryRead(c) ==
  /\ On(c, "try_read")
  /\ IF rw.readers = 0
     THEN /\ Then(c, try_enter("access", << <<"readers">>, <<"type", "Readable">> >> \o exit("wait")
                                         \o Arg(c, 2),
                                         exit("wait") \o Arg(c, 3)))
          /\ UNCHANGED <<rw, holds>>
     ELSE /\ rw' = [rw EXCEPT !.readers = @ + 1]
          /\ HoldsRw(c, "Readable")
          /\ Then(c, exit("wait") \o Arg(c, 2))
  /\ SyncStep /\ UNCHANGED <<mutex, cv, sem, lwp>>

SetReaders(c) ==
  /\ On(c, "readers")
  /\ rw' = [rw EXCEPT !.readers = 1]
  /\ Done(c)
  /\ SyncStep /\ UNCHANGED <<mutex, cv, sem, lwp, holds>>

(* exit: the writer and the last reader give access back.                  *)
Leave(c) ==
  /\ On(c, "leave")
  /\ LET writer == rw.lock_type = "Writeable"
     IN  /\ rw' = IF writer THEN rw ELSE [rw EXCEPT !.readers = @ - 1]
         /\ Then(c, IF writer \/ rw.readers = 1
                    THEN << <<"type", "Free">> >> \o exit("access")
                    ELSE <<>>)
         /\ HoldsRw(c, "Free")
  /\ SyncStep /\ UNCHANGED <<mutex, cv, sem, lwp>>

(* downgrade, after the type: not the first reader, give access up.        *)
Downgraded(c) ==
  /\ On(c, "downgraded")
  /\ rw' = [rw EXCEPT !.readers = @ + 1]
  /\ Then(c, IF rw.readers # 0 THEN exit("access") ELSE <<>>)
  /\ SyncStep /\ UNCHANGED <<mutex, cv, sem, lwp, holds>>

(* A slip: a reader becomes the writer though there are other readers.     *)
UpgradeAny(c) ==
  /\ On(c, "upgrade")
  /\ rw' = [rw EXCEPT !.readers = @ - 1]
  /\ Then(c, << <<"type", "Writeable">> >> \o Arg(c, 2))
  /\ SyncStep /\ UNCHANGED <<mutex, cv, sem, lwp, holds>>

Upgrade(c) ==
  /\ On(c, "upgrade")
  /\ IF rw.readers = 1
     THEN rw' = [rw EXCEPT !.readers = 0] /\ Then(c, << <<"type", "Writeable">> >> \o Arg(c, 2))
     ELSE UNCHANGED rw /\ Then(c, Arg(c, 3))
  /\ SyncStep /\ UNCHANGED <<mutex, cv, sem, lwp, holds>>

-----------------------------------------------------------------------------
(* prt/mod.rs: light-weight processes.  They are numbered like their       *)
(* threads, since one thread of a program creates them.                    *)

NewLwp(c) ==
  /\ On(c, "newlwp")
  /\ lwp' = (tid_counter :> [rl_thread |-> 0, rl_pstatus |-> RL_MASK_PARK]) @@ lwp
  /\ Done(c)
  /\ SyncStep /\ UNCHANGED <<mutex, cv, sem, rw, holds>>

RlThread(c) ==
  /\ On(c, "rl_thread")
  /\ lwp' = [lwp EXCEPT ![Arg(c, 3)].rl_thread = Arg(c, 3)]
  /\ Done(c)
  /\ SyncStep /\ UNCHANGED <<mutex, cv, sem, rw, holds>>

(* ___lwp_park60: an unpark that came first ends it at once.               *)
Park(c) ==
  /\ On(c, "park")
  /\ lwp' = [lwp EXCEPT ![Self(c)].rl_pstatus = RL_MASK_PARKED]
  /\ Then(c, IF lwp[Self(c)].rl_pstatus = RL_MASK_UNPARK
             THEN << <<"unparked">> >>
             ELSE make_unrunnable \o << <<"unparked">> >>)
  /\ SyncStep /\ UNCHANGED <<mutex, cv, sem, rw, holds>>

Unparked(c) ==
  /\ On(c, "unparked")
  /\ lwp' = [lwp EXCEPT ![Self(c)].rl_pstatus = RL_MASK_PARK]
  /\ Done(c)
  /\ SyncStep /\ UNCHANGED <<mutex, cv, sem, rw, holds>>

Unpark(c) ==
  /\ On(c, "unpark")
  /\ LET lid == Arg(c, 2)
     IN  IF lid \notin DOMAIN lwp
         THEN Panic("no state for lwpid")
         ELSE /\ lwp' = [lwp EXCEPT ![lid].rl_pstatus = RL_MASK_UNPARK]
              /\ Then(c, IF lwp[lid].rl_pstatus = RL_MASK_PARKED
                         THEN make_runnable(lwp[lid].rl_thread)
                         ELSE <<>>)
              /\ SyncStep /\ UNCHANGED <<mutex, cv, sem, rw, holds>>

-----------------------------------------------------------------------------
(* dev.rs: the device may interrupt once its interrupt is allocated.       *)
IrqAlloc(c) ==
  /\ On(c, "irqalloc")
  /\ irqs' = program.irqs
  /\ Done(c)
  /\ UNCHANGED <<program, schedVars, irqvec, pending, syncVars, holds, panic>>

Handle(c) ==
  /\ On(c, "handle")
  /\ Done(c)
  /\ SyncStep /\ UNCHANGED <<syncVars, holds>>

-----------------------------------------------------------------------------
Scheduling(c) ==
  \/ Dispatch(c) \/ Terminate(c) \/ RemoveThread(c)
  \/ Yield(c) \/ Unrunnable(c) \/ Timeout(c) \/ Runnable(c) \/ Mark(c)
  \/ JoinOn(c) \/ Joined(c) \/ AddThread(c) \/ Spawned(c)

Synchronizing(c) ==
  \/ Enter(c) \/ Push(c) \/ Own(c) \/ Cas(c) \/ TryEnter(c) \/ Exit(c) \/ Pop(c)
  \/ CvPush(c) \/ CvWoken(c) \/ CvRemove(c) \/ Signal(c) \/ Broadcast(c)
  \/ Up(c) \/ Test(c) \/ Down(c)
  \/ SetType(c) \/ AddReader(c) \/ TryRead(c) \/ SetReaders(c) \/ Leave(c) \/ Downgraded(c)
  \/ Upgrade(c)

Rump(c) ==
  \/ NewLwp(c) \/ RlThread(c) \/ Park(c) \/ Unparked(c) \/ Unpark(c)
  \/ IrqAlloc(c) \/ Handle(c)

CoreStep(c) == Scheduling(c) \/ Synchronizing(c) \/ Rump(c)

Next == Interrupt \/ \E c \in Cores : CoreStep(c)

(* Every core runs its scheduler loop, and a device raises its interrupts. *)
Spec == Init /\ [][Next]_vars /\ WF_vars(Interrupt) /\ \A c \in Cores : WF_vars(CoreStep(c))

-----------------------------------------------------------------------------
(* MutexInner "ensures mutual exclusion of resource": no two threads       *)
(* believe to have acquired the same mutex, through enter, try_enter,      *)
(* enter_nowrap or the return from a wait.  (The last reader of a          *)
(* readers-writer lock exits the access mutex the first one entered.)      *)
MutexExclusive ==
  \A s, t \in Tids : s # t => holds[s] \cap holds[t] \cap (Mutexes \ {"access"}) = {}

(* A writer has the readers-writer lock alone, whatever mix of enter,      *)
(* try_enter, downgrade and try_upgrade led there.                         *)
RwExclusive ==
  \A s, t \in Tids : s # t /\ "Writeable" \in holds[s] =>
                       holds[t] \cap {"Readable", "Writeable"} = {}

(* Every thread comes to its end (or to the suspend it never leaves): no   *)
(* wake-up of a mutex, condition variable, semaphore, join, park, timeout  *)
(* or interrupt is lost.                                                   *)
AllEnd == <>(\A t \in Tids : tid_counter > t /\ (t \notin threads \/ unreachable(t)))

=============================================================================
