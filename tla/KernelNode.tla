----------------------------- MODULE KernelNode -----------------------------
(***************************************************************************)
(* Giving cores to the process (kernel/src/nr.rs, nrproc.rs, process.rs,    *)
(* scheduler/mod.rs).  Which process a core belongs to is kept in the       *)
(* kernel node, and the executors of the process in the process itself;     *)
(* both are replicated per NUMA node from an operation log each.  The first *)
(* core spawns the process; threads of the process ask for more cores; a    *)
(* free core looks itself up, takes an executor and starts it.              *)
(***************************************************************************)
EXTENDS Naturals, Sequences, FiniteSets, FiniteSetsExt

CONSTANTS Cores,          \* global thread ids, a set of numbers
          NodeOf,         \* NUMA node of each core, a number
          Boot,           \* the core that spawns the process
          Entries,        \* addresses a thread asks a new core to start at
          Invalid,        \* INVALID_EXECUTOR_START
          MaxProcesses,   \* MAX_PROCESSES
          ExecPerFrame,   \* executors that fit in a large page
          MayFail,        \* whether memory of a node may run out
          MayCollect,     \* whether file system logs fill up (MLNR_GC_INIT)
          MaxLog,         \* bound: operations on the kernel node
          None

Nodes == {NodeOf[c] : c \in Cores}

Objects == {"kernel", "process"}

ASSUME KernelNodeAssumption ==
    /\ Cores \subseteq Nat /\ IsFiniteSet(Cores) /\ Boot \in Cores
    /\ \A c \in Cores : NodeOf[c] \in Nat
    /\ ExecPerFrame \in Nat \ {0} /\ MaxProcesses \in Nat \ {0}
    /\ Invalid \notin Entries
    /\ None \notin [obj : Objects, pos : Nat] \cup [pid : Nat, entry : Entries \cup {Invalid}]

Threads(n) == {c \in Cores : NodeOf[c] = n}

\* The first thread of a node never halts while it has no process.
MainThread(c) == c = Min(Threads(NodeOf[c]))

VARIABLES log,      \* operation log of each object
          done,     \* prefix of it each replica has executed
          replica,  \* state of the object at each node
          pc,       \* what each core is doing
          wait,     \* the log position a core waits for, and in which log
          resp,     \* answer to the operation of a core
          todo,     \* dispatchers the first core has yet to allocate
          exec,     \* current executor of each core
          vcpu,     \* resume_with_upcall, per slot of the dispatcher frames
          entry,    \* address the core started at
          grants    \* core requests that were answered with success

vars == <<log, done, replica, pc, wait, resp, todo, exec, vcpu, entry, grants>>

nr == <<log, done, replica>>

-----------------------------------------------------------------------------
(***************************************************************************)
(* The two state machines.  An operation gives a new state and an answer;   *)
(* where it grows a collection the memory of the node may run out.          *)
(***************************************************************************)
Outcome(s, r) == [state |-> s, resp |-> r]

Err(e) == [ok |-> FALSE, value |-> e]

Ok(v) == [ok |-> TRUE, value |-> v]

OutOfMemory(s) == IF MayFail THEN {Outcome(s, Err("OutOfMemory"))} ELSE {}

\* Op::AllocatePid
AllocatePid(s) ==
    LET free == {i \in 0..(MaxProcesses - 1) : i \notin s.process_map}
    IN  IF free = {} THEN {Outcome(s, Err("OutOfPids"))}
        ELSE {Outcome([s EXCEPT !.process_map = @ \cup {Min(free)}], Ok(Min(free)))}
             \cup OutOfMemory(s)

\* A slip: no test for an earlier owner.
SchedAllocateCoreAgain(s, op) ==
    {Outcome([s EXCEPT !.scheduler_map =
                [@ EXCEPT ![op.core] = [pid |-> op.pid, entry |-> op.entry]]],
             Ok(op.core))}

\* Op::SchedAllocateCore
SchedAllocateCore(s, op) ==
    IF s.scheduler_map[op.core] # None
    THEN {Outcome(s, Err("CoreAlreadyAllocated"))}
    ELSE {Outcome([s EXCEPT !.scheduler_map =
                     [@ EXCEPT ![op.core] = [pid |-> op.pid, entry |-> op.entry]]],
                  Ok(op.core))}
         \cup OutOfMemory(s)

\* The i-th executor of a frame has its own slot in it; the address the
\* kernel uses is computed from the start of the frame for all of them.
Executor(s, op, i) ==
    [eid |-> s.current_eid + i, affinity |-> op.node,
     vcpu_ctl |-> <<op.frame, i>>, vcpu_ctl_kernel |-> <<op.frame, 0>>]

\* A slip: the ids of the executors of the last frame are used again.
DispatcherAllocationSameIds(s, op) ==
    {Outcome([s EXCEPT !.executor_cache[op.node] =
                @ \o [i \in 1..ExecPerFrame |-> Executor(s, op, i - 1)]], Ok(ExecPerFrame))}

\* Op::DispatcherAllocation.  When the heap runs out half way the executors
\* made so far remain.
DispatcherAllocation(s, op) ==
    LET made(k) == [s EXCEPT !.current_eid = @ + k,
                             !.executor_cache[op.node] =
                                @ \o [i \in 1..k |-> Executor(s, op, i - 1)]]
    IN  {Outcome(made(ExecPerFrame), Ok(ExecPerFrame))}
        \cup IF MayFail
             THEN {Outcome(made(k), Err("OutOfMemory")) : k \in 0..(ExecPerFrame - 1)}
             ELSE {}

\* Op::AssignExecutor: pop, then remember the core.
AssignExecutor(s, op, n) ==
    IF s.executor_cache[op.node] = <<>>
    THEN {Outcome(s, Err("ExecutorCacheExhausted"))}
    ELSE LET cached == Len(s.executor_cache[op.node])
             e == s.executor_cache[op.node][cached]
             popped == [s EXCEPT !.executor_cache[op.node] = SubSeq(@, 1, cached - 1)]
         IN  {Outcome([popped EXCEPT !.active_cores = Append(@, <<op.core, e.eid>>)],
                      Ok(e))}
             \cup OutOfMemory(popped)

Dispatch(s, op, n) ==
    CASE op.kind = "AllocatePid"          -> AllocatePid(s)
      [] op.kind = "SchedAllocateCore"    -> SchedAllocateCore(s, op)
      [] op.kind = "Load"                 -> {Outcome([s EXCEPT !.loaded = TRUE], Ok(op.pid))}
      [] op.kind = "DispatcherAllocation" -> DispatcherAllocation(s, op)
      [] op.kind = "AssignExecutor"       -> AssignExecutor(s, op, n)

Init ==
    /\ log = [o \in Objects |-> <<>>]
    /\ done = [o \in Objects |-> [n \in Nodes |-> 0]]
    /\ replica = [o \in Objects |-> [n \in Nodes |->
          IF o = "kernel"
          THEN [process_map |-> {}, scheduler_map |-> [c \in Cores |-> None]]
          ELSE [loaded |-> FALSE, current_eid |-> 0,
                executor_cache |-> [m \in Nodes |-> <<>>], active_cores |-> <<>>]]]
    /\ pc = [c \in Cores |-> IF c = Boot THEN "spawn" ELSE "schedule"]
    /\ wait = [c \in Cores |-> None]
    /\ resp = [c \in Cores |-> None]
    /\ todo = [n \in Nodes |-> Cardinality(Threads(n))]
    /\ exec = [c \in Cores |-> None]
    /\ vcpu = [s \in (1..Cardinality(Cores)) \X (0..(ExecPerFrame - 1)) |-> None]
    /\ entry = [c \in Cores |-> None]
    /\ grants = {}

-----------------------------------------------------------------------------
(***************************************************************************)
(* Node replication.  A core appends its operation and then executes the    *)
(* log on the replica of its node up to it; whichever core of the node does *)
(* so leaves the answer for the core that asked.  A read waits for what any *)
(* replica had completed of the log when it began (ctail).                  *)
(***************************************************************************)
Submit(c, o, op) ==
    /\ log' = [log EXCEPT ![o] = Append(@, [op EXCEPT !.from = c])]
    /\ wait' = [wait EXCEPT ![c] = [obj |-> o, pos |-> Len(log[o]) + 1]]
    /\ resp' = [resp EXCEPT ![c] = None]
    /\ UNCHANGED <<done, replica>>

\* Wait for what some replica has executed of the log of o; the core that has
\* to execute it may go on to the end of the log.
Catch(c, o) ==
    \E k \in 0..Len(log[o]) :
        /\ \A n \in Nodes : done[o][n] <= k
        /\ wait' = [wait EXCEPT ![c] = [obj |-> o, pos |-> k]]

CaughtUp(c) == wait[c] # None /\ done[wait[c].obj][NodeOf[c]] >= wait[c].pos

Replay(c) ==
    /\ wait[c] # None /\ ~CaughtUp(c)
    /\ LET o  == wait[c].obj
           n  == NodeOf[c]
           op == log[o][done[o][n] + 1]
       IN  \E out \in Dispatch(replica[o][n], op, n) :
              /\ replica' = [replica EXCEPT ![o][n] = out.state]
              /\ done' = [done EXCEPT ![o][n] = @ + 1]
              /\ resp' = IF NodeOf[op.from] = n
                         THEN [resp EXCEPT ![op.from] = out.resp] ELSE resp
    /\ UNCHANGED <<log, pc, wait, todo, exec, vcpu, entry, grants>>

\* The answer is there: go on with pc next.
Answered(c, from, next) ==
    /\ pc[c] = from
    /\ CaughtUp(c)
    /\ pc' = [pc EXCEPT ![c] = next]

\* The call is over.
Returned(c) ==
    /\ wait' = [wait EXCEPT ![c] = None]
    /\ resp' = [resp EXCEPT ![c] = None]
    /\ UNCHANGED nr

Operation(kind, pid, core, at, node, frame) ==
    [kind |-> kind, from |-> None, pid |-> pid, core |-> core, entry |-> at,
     node |-> node, frame |-> frame]

Pid == 0

-----------------------------------------------------------------------------
(***************************************************************************)
(* spawn, on the first core                                                 *)
(***************************************************************************)
Spawn(c) ==
    /\ pc[c] = "spawn"
    /\ pc' = [pc EXCEPT ![c] = "pid"]
    /\ Submit(c, "kernel", Operation("AllocatePid", None, None, None, None, None))
    /\ UNCHANGED <<todo, exec, vcpu, entry, grants>>

\* make_process: an error is only logged, and the core goes to schedule.
PidAllocated(c) ==
    /\ Answered(c, "pid", IF resp[c].ok THEN "load" ELSE "schedule")
    /\ IF resp[c].ok
       THEN Submit(c, "process", Operation("Load", resp[c].value, None, None, None, None))
       ELSE Returned(c)
    /\ UNCHANGED <<todo, exec, vcpu, entry, grants>>

Loaded(c) ==
    /\ Answered(c, "load", IF resp[c].ok THEN "dispatchers" ELSE "panic")
    /\ Returned(c)
    /\ UNCHANGED <<todo, exec, vcpu, entry, grants>>

\* allocate_dispatchers: one large page after the other, node by node.
AllocateDispatchers(c) ==
    /\ pc[c] = "dispatchers"
    /\ \E n \in Nodes : todo[n] > 0
    /\ pc' = [pc EXCEPT ![c] = "dispatched"]
    /\ LET n == Min({m \in Nodes : todo[m] > 0})
       IN  Submit(c, "process",
                  Operation("DispatcherAllocation", Pid, None, None, n, Len(log["process"])))
    /\ UNCHANGED <<todo, exec, vcpu, entry, grants>>

\* Any answer but a count is unreachable!().
Dispatched(c) ==
    /\ Answered(c, "dispatched", IF resp[c].ok THEN "dispatchers" ELSE "panic")
    /\ LET n == log["process"][wait[c].pos].node
       IN  todo' = IF ~resp[c].ok THEN todo
                   ELSE [todo EXCEPT ![n] = IF @ > resp[c].value THEN @ - resp[c].value ELSE 0]
    /\ Returned(c)
    /\ UNCHANGED <<exec, vcpu, entry, grants>>

TakeOwnCore(c) ==
    /\ pc[c] = "dispatchers"
    /\ \A n \in Nodes : todo[n] = 0
    /\ pc' = [pc EXCEPT ![c] = "request"]
    /\ Submit(c, "kernel", Operation("SchedAllocateCore", Pid, c, Invalid, NodeOf[c], None))
    /\ UNCHANGED <<todo, exec, vcpu, entry, grants>>

(***************************************************************************)
(* RequestCore, by a thread of the process                                  *)
(***************************************************************************)
RequestCore(c, d, e) ==
    /\ pc[c] = "user" /\ Len(log["kernel"]) < MaxLog
    /\ pc' = [pc EXCEPT ![c] = "request"]
    /\ Submit(c, "kernel", Operation("SchedAllocateCore", Pid, d, e, NodeOf[d], None))
    /\ UNCHANGED <<todo, exec, vcpu, entry, grants>>

Requested(c) ==
    /\ Answered(c, "request", IF exec[c] = None THEN "schedule" ELSE "user")
    /\ grants' = IF resp[c].ok
                 THEN grants \cup {[by |-> c, core |-> resp[c].value, pos |-> wait[c].pos]}
                 ELSE grants
    /\ Returned(c)
    /\ UNCHANGED <<todo, exec, vcpu, entry>>

(***************************************************************************)
(* schedule, on a core without an executor                                  *)
(***************************************************************************)

\* The core looks itself up on its replica.
CurrentProcess(c) == replica["kernel"][NodeOf[c]].scheduler_map[c]

Lookup(c) ==
    /\ pc[c] = "schedule"
    /\ pc' = [pc EXCEPT ![c] = "lookup"]
    /\ Catch(c, "kernel")
    /\ UNCHANGED <<nr, resp, todo, exec, vcpu, entry, grants>>

\* Nobody wants the core.  The main thread advances the processes and looks
\* again; another core sets the timer and halts.
NoProcess(c) ==
    /\ CurrentProcess(c) = None
    /\ Answered(c, "lookup", IF MainThread(c) THEN "advance" ELSE "halted")
    /\ IF MainThread(c) THEN Catch(c, "process") /\ UNCHANGED <<nr, resp>> ELSE Returned(c)
    /\ UNCHANGED <<todo, exec, vcpu, entry, grants>>

Advanced(c) ==
    /\ Answered(c, "advance", "schedule")
    /\ Returned(c)
    /\ UNCHANGED <<todo, exec, vcpu, entry, grants>>

\* allocate_executor
AllocateExecutor(c) ==
    /\ CurrentProcess(c) # None
    /\ Answered(c, "lookup", "assign")
    /\ Submit(c, "process",
              Operation("AssignExecutor", CurrentProcess(c).pid, c, None, NodeOf[c], None))
    /\ UNCHANGED <<todo, exec, vcpu, entry, grants>>

\* The entry point is written through the kernel's address of the virtual
\* CPU; an error is a panic ("This should work").
Assigned(c) ==
    /\ Answered(c, "assign", IF resp[c].ok THEN "start" ELSE "panic")
    /\ IF resp[c].ok
       THEN /\ exec' = [exec EXCEPT ![c] = resp[c].value]
            /\ vcpu' = [vcpu EXCEPT ![resp[c].value.vcpu_ctl_kernel] = CurrentProcess(c).entry]
       ELSE UNCHANGED <<exec, vcpu>>
    /\ Returned(c)
    /\ UNCHANGED <<todo, entry, grants>>

\* start reads it back; the executor must be of this node.
Start(c) ==
    /\ pc[c] = "start"
    /\ pc' = [pc EXCEPT ![c] = IF exec[c].affinity = NodeOf[c] THEN "user" ELSE "panic"]
    /\ entry' = [entry EXCEPT ![c] = vcpu[exec[c].vcpu_ctl_kernel]]
    /\ UNCHANGED <<nr, wait, resp, todo, exec, vcpu, grants>>

(***************************************************************************)
(* Interrupts: the timer of a halted core and of a main thread that runs    *)
(* the process, and the request to collect a file system log.               *)
(***************************************************************************)
Behind(c) == \E o \in Objects : done[o][NodeOf[c]] < Len(log[o])

\* A slip: a core halts without its timer set.
TimerUnset(c) ==
    /\ pc[c] = "user" /\ MainThread(c) /\ Behind(c)
    /\ pc' = [pc EXCEPT ![c] = "sync_kernel"]
    /\ Catch(c, "kernel")
    /\ UNCHANGED <<nr, resp, todo, exec, vcpu, entry, grants>>

\* On a core that runs the process it only matters if there is something to
\* execute.
Timer(c) ==
    /\ pc[c] = "halted" \/ (pc[c] = "user" /\ MainThread(c) /\ Behind(c))
    /\ pc' = [pc EXCEPT ![c] = "sync_kernel"]
    /\ Catch(c, "kernel")
    /\ UNCHANGED <<nr, resp, todo, exec, vcpu, entry, grants>>

SyncedKernel(c) ==
    /\ Answered(c, "sync_kernel", "sync_process")
    /\ Catch(c, "process")
    /\ UNCHANGED <<nr, resp, todo, exec, vcpu, entry, grants>>

SyncedProcess(c) ==
    /\ Answered(c, "sync_process", IF exec[c] = None THEN "schedule" ELSE "user")
    /\ Returned(c)
    /\ UNCHANGED <<todo, exec, vcpu, entry, grants>>

\* MLNR_GC_INIT on a core without an executor never returns.
Collect(c) ==
    /\ MayCollect /\ pc[c] = "halted"
    /\ pc' = [pc EXCEPT ![c] = "collecting"]
    /\ UNCHANGED <<nr, wait, resp, todo, exec, vcpu, entry, grants>>

\* Steps a core takes by itself.
Step(c) ==
    \/ Replay(c)
    \/ Spawn(c) \/ PidAllocated(c) \/ Loaded(c) \/ AllocateDispatchers(c)
    \/ Dispatched(c) \/ TakeOwnCore(c) \/ Requested(c)
    \/ Lookup(c) \/ NoProcess(c) \/ Advanced(c) \/ AllocateExecutor(c)
    \/ Assigned(c) \/ Start(c) \/ SyncedKernel(c) \/ SyncedProcess(c)
    \/ (pc[c] = "halted" /\ Timer(c))

Next ==
    \E c \in Cores :
        \/ Step(c) \/ Timer(c) \/ Collect(c)
        \/ \E d \in Cores, e \in Entries : RequestCore(c, d, e)

Spec == Init /\ [][Next]_vars

\* Cores run independently of each other and the timer of a halted core was
\* set before it halted.
FairSpec == Spec /\ \A c \in Cores : WF_vars(Step(c))

-----------------------------------------------------------------------------
\* A core is given away at most once, whichever nodes the requests come from
\* (nr.rs:140-141).
GrantedOnce == \A g, h \in grants : g.core = h.core => g = h

\* No two cores run the same executor, and every core that runs one is in
\* active_cores, where an unmap will look for it (nrproc.rs:368-373).
ExecutorsDistinct ==
    \A c \in Cores : exec[c] # None =>
        /\ \A d \in Cores \ {c} : exec[d] # None => exec[c].eid # exec[d].eid
        /\ \E k \in DOMAIN replica["process"][NodeOf[c]].active_cores :
              replica["process"][NodeOf[c]].active_cores[k] = <<c, exec[c].eid>>

\* A core that was given away runs the process, unless it has been caught by
\* MLNR_GC_INIT while it was free (irq.rs:729-746).
GrantRuns ==
    \A c \in Cores :
        (\E g \in grants : g.core = c) ~> (exec[c] # None \/ pc[c] = "collecting")
=============================================================================
