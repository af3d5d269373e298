-------------------------- MODULE KernelNodeProofs --------------------------
(***************************************************************************)
(* Proofs about giving cores to the process, for any cores, nodes and      *)
(* requests, as long as no replica runs out of memory where another does   *)
(* not (MayFail).                                                          *)
(***************************************************************************)
EXTENDS KernelNode, WellFoundedInduction, TLAPS

Owners == [pid : Nat, entry : Entries \cup {Invalid}]
Executors == [eid : Nat, affinity : Nodes, vcpu_ctl : Nat \X Nat, vcpu_ctl_kernel : Nat \X Nat]

PidOps == [kind : {"AllocatePid"}, from : Cores, pid : {None}, core : {None}, entry : {None},
           node : {None}, frame : {None}]
CoreOps == [kind : {"SchedAllocateCore"}, from : Cores, pid : Nat, core : Cores,
            entry : Entries \cup {Invalid}, node : Nodes, frame : {None}]
LoadOps == [kind : {"Load"}, from : Cores, pid : Nat, core : {None}, entry : {None},
            node : {None}, frame : {None}]
FrameOps == [kind : {"DispatcherAllocation"}, from : Cores, pid : Nat, core : {None},
             entry : {None}, node : Nodes, frame : Nat]
AssignOps == {op \in [kind : {"AssignExecutor"}, from : Cores, pid : Nat, core : Cores,
                      entry : {None}, node : Nodes, frame : {None}] : op.core = op.from}

Ops(o) == IF o = "kernel" THEN PidOps \cup CoreOps ELSE LoadOps \cup FrameOps \cup AssignOps

KernelStates == [process_map : SUBSET Nat, scheduler_map : [Cores -> Owners \cup {None}]]
ProcessStates == [loaded : BOOLEAN, current_eid : Nat, executor_cache : [Nodes -> Seq(Executors)],
                  active_cores : Seq(Cores \X Nat)]

Waits == [obj : Objects, pos : Nat]

TypeOK ==
    /\ DOMAIN log = Objects /\ DOMAIN done = Objects /\ DOMAIN replica = Objects
    /\ \A o \in Objects :
          /\ log[o] \in Seq(Ops(o))
          /\ done[o] \in [Nodes -> 0..Len(log[o])]
          /\ DOMAIN replica[o] = Nodes
    /\ replica["kernel"] \in [Nodes -> KernelStates]
    /\ DOMAIN pc = Cores /\ DOMAIN resp = Cores
    /\ wait \in [Cores -> Waits \cup {None}]
    /\ \A c \in Cores : wait[c] # None => wait[c].pos <= Len(log[wait[c].obj])

\* A core that is in no call waits for nothing.
Calm == {"spawn", "dispatchers", "schedule", "user", "halted", "start", "panic", "collecting"}
CalmWaits == \A c \in Cores : pc[c] \in Calm => wait[c] = None

\* An operation that the node of its core has not executed is the one that
\* the core waits for.
Outstanding ==
    \A o \in Objects : \A k \in 1..Len(log[o]) :
        LET c == log[o][k].from
        IN  k > done[o][NodeOf[c]] => wait[c] = [obj |-> o, pos |-> k]

\* The k-th operation asks for core d.
Asks(k, d) == log["kernel"][k].kind = "SchedAllocateCore" /\ log["kernel"][k].core = d

\* Nobody asked for the core before.
First(k) == \A j \in 1..(k - 1) : ~Asks(j, log["kernel"][k].core)

\* A replica has given away the cores its part of the log asks for.
MapIsLog ==
    \A n \in Nodes, d \in Cores :
        replica["kernel"][n].scheduler_map[d] # None
        <=> \E k \in 1..done["kernel"][n] : Asks(k, d)

\* The operation that a core waits for in a call.
Calls == [pid |-> "AllocatePid", load |-> "Load", dispatched |-> "DispatcherAllocation",
          request |-> "SchedAllocateCore", assign |-> "AssignExecutor"]
ObjectOf(p) == IF p \in {"pid", "request"} THEN "kernel" ELSE "process"

InCall ==
    \A c \in Cores : pc[c] \in DOMAIN Calls =>
        LET o == ObjectOf(pc[c])
            k == wait[c].pos
        IN  /\ wait[c] # None /\ wait[c].obj = o /\ k > 0
            /\ log[o][k].from = c /\ log[o][k].kind = Calls[pc[c]]

\* What the answer tells: a process id, or that nobody had the core before.
Told ==
    \A c \in Cores :
        pc[c] \in {"pid", "request"} /\ done["kernel"][NodeOf[c]] >= wait[c].pos /\ resp[c].ok =>
            IF pc[c] = "pid" THEN resp[c].value \in Nat
            ELSE resp[c].value = log["kernel"][wait[c].pos].core /\ First(wait[c].pos)

Granted ==
    \A g \in grants :
        /\ g \in [by : Cores, core : Cores, pos : Nat]
        /\ g.pos \in 1..Len(log["kernel"])
        /\ log["kernel"][g.pos].from = g.by
        /\ Asks(g.pos, g.core) /\ First(g.pos)

IInv == TypeOK /\ CalmWaits /\ Outstanding /\ MapIsLog /\ InCall /\ Told /\ Granted
-----------------------------------------------------------------------------
(***************************************************************************)
(* The state machines                                                       *)
(***************************************************************************)

\* The length of a sequence is a number, and its indices are its domain.
LEMMA LenProperties ==
  ASSUME NEW S, NEW s \in Seq(S)
  PROVE  Len(s) \in Nat /\ DOMAIN s = 1..Len(s)
OBVIOUS

\* The elements of a sequence are of its type.
LEMMA ElementOfSeq ==
  ASSUME NEW S, NEW s \in Seq(S), NEW k \in 1..Len(s)
  PROVE  s[k] \in S
OBVIOUS

\* Append keeps the elements and adds one.
LEMMA AppendProperties ==
  ASSUME NEW S, NEW s \in Seq(S), NEW e \in S
  PROVE  /\ Append(s, e) \in Seq(S) /\ Len(Append(s, e)) = Len(s) + 1
         /\ \A k \in 1..Len(s) : Append(s, e)[k] = s[k]
         /\ Append(s, e)[Len(s) + 1] = e
OBVIOUS

\* The elements of a concatenation.
LEMMA ConcatProperties ==
  ASSUME NEW S, NEW s \in Seq(S), NEW t \in Seq(S)
  PROVE  /\ s \o t \in Seq(S) /\ Len(s \o t) = Len(s) + Len(t)
         /\ \A k \in 1..(Len(s) + Len(t)) :
               (s \o t)[k] = IF k <= Len(s) THEN s[k] ELSE t[k - Len(s)]
OBVIOUS

\* The least element of a set of numbers is in it.
LEMMA MinIn ==
  ASSUME NEW S \in SUBSET Nat, S # {}
  PROVE  Min(S) \in S
<1>1. IsWellFoundedOn(OpToRel(<, Nat), Nat)
  BY NatLessThanWellFounded, Zenon
<1>2. PICK x \in S : \A y \in S : <<y, x>> \notin OpToRel(<, Nat)
  BY <1>1, WFMin, Zenon
<1>3. \A y \in S : ~(y < x)
  BY <1>2, Zenon DEF OpToRel
<1>4. \A y \in S : x <= y
  BY <1>3
<1>. QED
  BY <1>4, Zenon DEF Min

\* NUMA nodes are numbers.
LEMMA NodeTypes == Nodes \subseteq Nat /\ \A c \in Cores : NodeOf[c] \in Nodes
BY KernelNodeAssumption, Zenon DEF Nodes

\* A free process id is a number.
LEMMA PidStep ==
  ASSUME ~MayFail, NEW s \in KernelStates, NEW out \in AllocatePid(s)
  PROVE  /\ out.state \in KernelStates
         /\ out.state.scheduler_map = s.scheduler_map
         /\ out.resp.ok => out.resp.value \in Nat
<1>. DEFINE free == {i \in 0..(MaxProcesses - 1) : i \notin s.process_map}
<1>1. CASE free = {}
  <2>1. out = Outcome(s, Err("OutOfPids"))
    BY <1>1, Zenon DEF AllocatePid
  <2>. QED
    BY <2>1, Zenon DEF Outcome, Err
<1>2. CASE free # {}
  <2>1. Min(free) \in Nat
    <3>1. free \in SUBSET Nat
      BY KernelNodeAssumption
    <3>. HIDE DEF free
    <3>. QED
      BY <1>2, <3>1, MinIn, Zenon
  <2>2. out = Outcome([s EXCEPT !.process_map = @ \cup {Min(free)}], Ok(Min(free)))
    BY <1>2, Zenon DEF AllocatePid, OutOfMemory
  <2>. HIDE DEF free
  <2>. QED
    BY <2>1, <2>2, Zenon DEF Outcome, Ok, KernelStates
<1>. QED
  BY <1>1, <1>2, Zenon

\* Only a core that nobody has is given away.
LEMMA CoreStep ==
  ASSUME ~MayFail, NEW s \in KernelStates, NEW op \in CoreOps,
         NEW out \in SchedAllocateCore(s, op)
  PROVE  /\ out.state \in KernelStates
         /\ \A d \in Cores : out.state.scheduler_map[d] # None
                             <=> s.scheduler_map[d] # None \/ d = op.core
         /\ out.resp.ok => out.resp.value = op.core /\ s.scheduler_map[op.core] = None
<1>1. op.core \in Cores
  BY Zenon DEF CoreOps
<1>2. CASE s.scheduler_map[op.core] # None
  <2>1. out = Outcome(s, Err("CoreAlreadyAllocated"))
    BY <1>2, Zenon DEF SchedAllocateCore
  <2>. QED
    BY <1>1, <1>2, <2>1, Zenon DEF Outcome, Err
<1>3. CASE s.scheduler_map[op.core] = None
  <2>. DEFINE own == [pid |-> op.pid, entry |-> op.entry]
              map == [s.scheduler_map EXCEPT ![op.core] = own]
  <2>1. out = Outcome([s EXCEPT !.scheduler_map = map], Ok(op.core))
    BY <1>3, Zenon DEF SchedAllocateCore, OutOfMemory
  <2>2. own \in Owners /\ own # None
    BY KernelNodeAssumption DEF CoreOps, Owners
  <2>3. /\ map \in [Cores -> Owners \cup {None}]
        /\ \A d \in Cores : map[d] = IF d = op.core THEN own ELSE s.scheduler_map[d]
    <3>. HIDE DEF own
    <3>. QED
      BY <2>2, <1>1, Zenon DEF KernelStates
  <2>. HIDE DEF own, map
  <2>4. [s EXCEPT !.scheduler_map = map] \in KernelStates
    BY <2>3, Zenon DEF KernelStates
  <2>5. [s EXCEPT !.scheduler_map = map].scheduler_map = map
    BY Zenon DEF KernelStates
  <2>. QED
    BY <1>1, <1>3, <2>1, <2>2, <2>3, <2>4, <2>5, Zenon DEF Outcome, Ok
<1>. QED
  BY <1>2, <1>3, Zenon
\* The ids of the executors of a process state are distinct.
Clean(s) ==
    /\ \A m \in Nodes : \A i \in 1..Len(s.executor_cache[m]) :
          /\ s.executor_cache[m][i].eid < s.current_eid
          /\ \A l \in Nodes : \A j \in 1..Len(s.executor_cache[l]) :
                s.executor_cache[m][i].eid = s.executor_cache[l][j].eid => m = l /\ i = j
          /\ \A j \in 1..Len(s.active_cores) :
                s.executor_cache[m][i].eid # s.active_cores[j][2]
    /\ \A i \in 1..Len(s.active_cores) :
          /\ s.active_cores[i][2] < s.current_eid
          /\ \A j \in 1..Len(s.active_cores) :
                s.active_cores[i][2] = s.active_cores[j][2] => i = j

\* active_cores only grows.
Extends(s, t) ==
    /\ Len(s.active_cores) <= Len(t.active_cores)
    /\ \A i \in 1..Len(s.active_cores) : t.active_cores[i] = s.active_cores[i]

\* The executors of a frame get fresh ids.
LEMMA FrameStep ==
  ASSUME ~MayFail, NEW s \in ProcessStates, NEW op \in FrameOps, Clean(s),
         NEW out \in DispatcherAllocation(s, op)
  PROVE  out.state \in ProcessStates /\ Clean(out.state) /\ Extends(s, out.state)
<1>. DEFINE old == s.executor_cache
            new == [i \in 1..ExecPerFrame |-> Executor(s, op, i - 1)]
            more == old[op.node] \o new
            all == [old EXCEPT ![op.node] = more]
            t == [s EXCEPT !.current_eid = s.current_eid + ExecPerFrame, !.executor_cache = all]
<1>1. out = Outcome(t, Ok(ExecPerFrame))
  BY Zenon DEF DispatcherAllocation, ProcessStates
<1>2. /\ op.node \in Nodes /\ op.frame \in Nat /\ s.current_eid \in Nat
      /\ old \in [Nodes -> Seq(Executors)] /\ s.active_cores \in Seq(Cores \X Nat)
      /\ ExecPerFrame \in Nat
  BY KernelNodeAssumption, Zenon DEF FrameOps, ProcessStates
<1>3. /\ new \in Seq(Executors) /\ Len(new) = ExecPerFrame
      /\ \A i \in 1..ExecPerFrame : new[i].eid = s.current_eid + i - 1
  <2>1. \A i \in 1..ExecPerFrame : Executor(s, op, i - 1) \in Executors
    BY <1>2 DEF Executor, Executors
  <2>2. \A i \in 1..ExecPerFrame : Executor(s, op, i - 1).eid = s.current_eid + (i - 1)
    BY Zenon DEF Executor
  <2>3. new \in Seq(Executors) /\ Len(new) = ExecPerFrame
    <3>1. new \in [1..ExecPerFrame -> Executors]
      BY <2>1, Zenon
    <3>. HIDE DEF new
    <3>. QED
      BY <3>1, <1>2
  <2>4. ASSUME NEW i \in 1..ExecPerFrame
        PROVE  new[i].eid = s.current_eid + i - 1
    <3>1. new[i].eid = s.current_eid + (i - 1)
      BY <2>2, Zenon
    <3>. QED
      BY <3>1, <1>2, Zenon
  <2>. QED
    BY <2>3, <2>4, Zenon
<1>13. /\ \A m, l \in Nodes : \A i \in 1..Len(old[m]), j \in 1..Len(old[l]) :
             old[m][i].eid = old[l][j].eid => m = l /\ i = j
       /\ \A m \in Nodes : \A i \in 1..Len(old[m]) :
             /\ old[m][i].eid < s.current_eid
             /\ \A j \in 1..Len(s.active_cores) : old[m][i].eid # s.active_cores[j][2]
  BY DEF Clean
<1>. HIDE DEF new
<1>4. /\ more \in Seq(Executors) /\ Len(more) = Len(old[op.node]) + ExecPerFrame
      /\ \A i \in 1..Len(old[op.node]) : more[i] = old[op.node][i]
      /\ \A i \in 1..Len(more) : i > Len(old[op.node]) =>
            more[i].eid = s.current_eid + i - Len(old[op.node]) - 1
  <2>1. old[op.node] \in Seq(Executors)
    BY <1>2, Zenon
  <2>2. /\ more \in Seq(Executors) /\ Len(more) = Len(old[op.node]) + Len(new)
        /\ \A i \in 1..(Len(old[op.node]) + Len(new)) :
              more[i] = IF i <= Len(old[op.node]) THEN old[op.node][i]
                        ELSE new[i - Len(old[op.node])]
    BY <2>1, <1>3, ConcatProperties, Zenon
  <2>. HIDE DEF more, old
  <2>3. Len(old[op.node]) \in Nat
    BY <2>1, LenProperties, Zenon
  <2>4. \A i \in 1..Len(old[op.node]) : more[i] = old[op.node][i]
    <3>1. ASSUME NEW i \in 1..Len(old[op.node])
          PROVE  i \in 1..(Len(old[op.node]) + Len(new)) /\ i <= Len(old[op.node])
      BY <2>3, <1>3, <1>2
    <3>. QED
      BY <2>2, <3>1, Zenon
  <2>5. ASSUME NEW i \in 1..Len(more), i > Len(old[op.node])
        PROVE  more[i].eid = s.current_eid + i - Len(old[op.node]) - 1
    <3>1. more[i] = new[i - Len(old[op.node])] /\ i - Len(old[op.node]) \in 1..ExecPerFrame
      <4>1. /\ i \in 1..(Len(old[op.node]) + Len(new)) /\ ~(i <= Len(old[op.node]))
            /\ i - Len(old[op.node]) \in 1..ExecPerFrame
        BY <2>2, <2>3, <2>5, <1>3, <1>2
      <4>. QED
        BY <4>1, <2>2, Zenon
    <3>. QED
      BY <3>1, <1>3, <1>2, <2>3, Zenon
  <2>. QED
    BY <2>2, <2>4, <2>5, <1>3, Zenon
<1>. HIDE DEF more
<1>5. /\ all \in [Nodes -> Seq(Executors)]
      /\ all[op.node] = more /\ \A m \in Nodes : m # op.node => all[m] = old[m]
  BY <1>2, <1>4, Zenon
<1>. HIDE DEF all, old
<1>6. /\ t \in ProcessStates /\ t.executor_cache = all /\ t.active_cores = s.active_cores
      /\ t.current_eid = s.current_eid + ExecPerFrame
  <2>1. s.current_eid + ExecPerFrame \in Nat
    BY <1>2
  <2>. QED
    BY <1>5, <2>1, Zenon DEF ProcessStates
<1>. HIDE DEF t
<1>7. out.state = t
  BY <1>1, Zenon DEF Outcome
<1>8. ASSUME NEW m \in Nodes, NEW i \in 1..Len(all[m])
      PROVE  \/ i \in 1..Len(old[m]) /\ all[m][i] = old[m][i]
             \/ /\ m = op.node /\ i > Len(old[m])
                /\ all[m][i].eid = s.current_eid + i - Len(old[m]) - 1
                /\ i - Len(old[m]) <= ExecPerFrame
  <2>1. Len(old[m]) \in Nat
    BY <1>2, LenProperties, Zenon
  <2>2. CASE m # op.node
    BY <2>2, <1>5, Zenon
  <2>3. CASE m = op.node /\ i <= Len(old[m])
    BY <2>1, <2>3, <1>4, <1>5
  <2>4. CASE m = op.node /\ i > Len(old[m])
    BY <2>1, <2>4, <1>4, <1>5, <1>2
  <2>. QED
    BY <2>1, <2>2, <2>3, <2>4
<1>9. \A m \in Nodes : Len(old[m]) \in Nat /\ Len(all[m]) \in Nat
  BY <1>2, <1>5, LenProperties, Zenon
<1>10. /\ \A m \in Nodes : \A i \in 1..Len(old[m]) : old[m][i].eid \in Nat
       /\ \A i \in 1..Len(s.active_cores) : s.active_cores[i][2] \in Nat
  <2>1. ASSUME NEW m \in Nodes, NEW i \in 1..Len(old[m])
        PROVE  old[m][i].eid \in Nat
    <3>1. old[m][i] \in Executors
      BY <1>2, ElementOfSeq, Zenon
    <3>. QED
      BY <3>1, Zenon DEF Executors
  <2>2. ASSUME NEW i \in 1..Len(s.active_cores)
        PROVE  s.active_cores[i][2] \in Nat
    <3>1. s.active_cores[i] \in Cores \X Nat
      BY <1>2, ElementOfSeq, Zenon
    <3>. QED
      BY <3>1, Zenon
  <2>. QED
    BY <2>1, <2>2, Zenon
<1>11. Clean(t)
  <2>1. ASSUME NEW m \in Nodes, NEW i \in 1..Len(all[m])
        PROVE  /\ all[m][i].eid < s.current_eid + ExecPerFrame
               /\ \A l \in Nodes : \A j \in 1..Len(all[l]) :
                     all[m][i].eid = all[l][j].eid => m = l /\ i = j
               /\ \A j \in 1..Len(s.active_cores) : all[m][i].eid # s.active_cores[j][2]
    <3>1. all[m][i].eid < s.current_eid + ExecPerFrame
      <4>1. CASE i \in 1..Len(old[m]) /\ all[m][i] = old[m][i]
        <5>1. old[m][i].eid < s.current_eid /\ old[m][i].eid \in Nat
          BY <4>1, <1>13, <1>10, Zenon
        <5>. QED
          BY <4>1, <5>1, <1>2
      <4>2. CASE /\ i > Len(old[m]) /\ all[m][i].eid = s.current_eid + i - Len(old[m]) - 1
                 /\ i - Len(old[m]) <= ExecPerFrame
        BY <4>2, <1>9, <1>2
      <4>. QED
        BY <4>1, <4>2, <1>8, Zenon
    <3>2. ASSUME NEW l \in Nodes, NEW j \in 1..Len(all[l]), all[m][i].eid = all[l][j].eid
          PROVE  m = l /\ i = j
      <4>1. CASE i \in 1..Len(old[m]) /\ j \in 1..Len(old[l])
        <5>1. all[m][i] = old[m][i] /\ all[l][j] = old[l][j]
          BY <4>1, <1>8, <1>9
        <5>. QED
          BY <3>2, <4>1, <5>1, <1>13
      <4>2. CASE i \in 1..Len(old[m]) /\ j \notin 1..Len(old[l])
        <5>3. all[m][i] = old[m][i]
          BY <4>2, <1>8, <1>9
        <5>4. all[l][j].eid >= s.current_eid
          <6>1. /\ j > Len(old[l])
                /\ all[l][j].eid = s.current_eid + j - Len(old[l]) - 1
            BY <4>2, <1>8, Zenon
          <6>2. Len(old[l]) \in Nat /\ j \in Nat
            BY <1>9
          <6>. QED
            BY <6>1, <6>2, <1>2
        <5>1. all[m][i] = old[m][i] /\ all[l][j].eid >= s.current_eid
          BY <5>3, <5>4, Zenon
        <5>2. old[m][i].eid < s.current_eid
          BY <4>2, <1>13, Zenon
        <5>. QED
          BY <3>2, <4>2, <5>1, <5>2, <1>2, <1>10
      <4>3. CASE i \notin 1..Len(old[m]) /\ j \in 1..Len(old[l])
        <5>3. all[l][j] = old[l][j]
          BY <4>3, <1>8, <1>9
        <5>4. all[m][i].eid >= s.current_eid
          <6>1. /\ i > Len(old[m])
                /\ all[m][i].eid = s.current_eid + i - Len(old[m]) - 1
            BY <4>3, <1>8, Zenon
          <6>2. Len(old[m]) \in Nat /\ i \in Nat
            BY <1>9
          <6>. QED
            BY <6>1, <6>2, <1>2
        <5>1. all[l][j] = old[l][j] /\ all[m][i].eid >= s.current_eid
          BY <5>3, <5>4, Zenon
        <5>2. old[l][j].eid < s.current_eid
          BY <4>3, <1>13, Zenon
        <5>. QED
          BY <3>2, <4>3, <5>1, <5>2, <1>2, <1>10
      <4>4. CASE i \notin 1..Len(old[m]) /\ j \notin 1..Len(old[l])
        <5>1. /\ m = op.node /\ all[m][i].eid = s.current_eid + i - Len(old[m]) - 1
              /\ l = op.node /\ all[l][j].eid = s.current_eid + j - Len(old[l]) - 1
          BY <4>4, <1>8, Zenon
        <5>2. Len(old[op.node]) \in Nat /\ i \in Nat /\ j \in Nat
          BY <1>9, <1>2
        <5>. QED
          BY <3>2, <5>1, <5>2, <1>2
      <4>. QED
        BY <4>1, <4>2, <4>3, <4>4, Zenon
    <3>3. ASSUME NEW j \in 1..Len(s.active_cores)
          PROVE  all[m][i].eid # s.active_cores[j][2]
      <4>1. s.active_cores[j][2] < s.current_eid
        BY Zenon DEF Clean
      <4>2. CASE i \in 1..Len(old[m])
        <5>1. all[m][i] = old[m][i]
          BY <4>2, <1>8, <1>9
        <5>. QED
          BY <4>2, <5>1, <1>13
      <4>3. CASE i \notin 1..Len(old[m])
        BY <4>1, <4>3, <1>8, <1>9, <1>2, <1>10
      <4>. QED
        BY <4>2, <4>3, Zenon
    <3>. QED
      BY <3>1, <3>2, <3>3, Zenon
  <2>2. \A i \in 1..Len(s.active_cores) : s.active_cores[i][2] < s.current_eid + ExecPerFrame
    BY <1>10, <1>2 DEF Clean
  <2>. QED
    BY <1>6, <2>1, <2>2 DEF Clean
<1>12. Extends(s, t)
  BY <1>6, <1>2, LenProperties DEF Extends
<1>. QED
  BY <1>6, <1>7, <1>11, <1>12, Zenon

\* The executor that is taken from the cache goes to the end of active_cores.
LEMMA AssignStep ==
  ASSUME ~MayFail, NEW s \in ProcessStates, NEW op \in AssignOps, Clean(s), NEW n,
         NEW out \in AssignExecutor(s, op, n)
  PROVE  /\ out.state \in ProcessStates /\ Clean(out.state) /\ Extends(s, out.state)
         /\ out.resp.ok =>
               \E i \in 1..Len(out.state.active_cores) :
                   out.state.active_cores[i] = <<op.core, out.resp.value.eid>>
<1>. DEFINE old == s.executor_cache
            last == old[op.node][Len(old[op.node])]
            rest == SubSeq(old[op.node], 1, Len(old[op.node]) - 1)
            all == [old EXCEPT ![op.node] = rest]
            pair == <<op.core, last.eid>>
            act == Append(s.active_cores, pair)
            t == [[s EXCEPT !.executor_cache = all] EXCEPT !.active_cores = act]
<1>1. CASE old[op.node] = <<>>
  <2>1. out = Outcome(s, Err("ExecutorCacheExhausted"))
    BY <1>1, Zenon DEF AssignExecutor
  <2>2. Len(s.active_cores) \in Nat
    BY LenProperties, Zenon DEF ProcessStates
  <2>. QED
    BY <2>1, <2>2 DEF Outcome, Err, Extends
<1>2. CASE old[op.node] # <<>>
  <2>1. out = Outcome(t, Ok(last))
    BY <1>2, Zenon DEF AssignExecutor, ProcessStates, OutOfMemory
  <2>2. /\ op.node \in Nodes /\ op.core \in Cores
        /\ old \in [Nodes -> Seq(Executors)] /\ s.active_cores \in Seq(Cores \X Nat)
    BY Zenon DEF AssignOps, ProcessStates
  <2>0. /\ \A m, l \in Nodes : \A i \in 1..Len(old[m]), j \in 1..Len(old[l]) :
              old[m][i].eid = old[l][j].eid => m = l /\ i = j
        /\ \A m \in Nodes : \A i \in 1..Len(old[m]) :
              /\ old[m][i].eid < s.current_eid
              /\ \A j \in 1..Len(s.active_cores) : old[m][i].eid # s.active_cores[j][2]
    BY Zenon DEF Clean
  <2>. DEFINE L == Len(old[op.node])
  <2>3. /\ L \in Nat \ {0} /\ last = old[op.node][L] /\ last \in Executors
        /\ rest \in Seq(Executors) /\ Len(rest) = L - 1
        /\ \A i \in 1..(L - 1) : rest[i] = old[op.node][i]
    <3>1. old[op.node] \in Seq(Executors)
      BY <2>2, Zenon
    <3>. HIDE DEF old
    <3>. QED
      BY <1>2, <3>1
  <2>4. pair \in Cores \X Nat /\ pair[1] = op.core /\ pair[2] = last.eid
    <3>. HIDE DEF last
    <3>. QED
      BY <2>2, <2>3, Zenon DEF Executors
  <2>. HIDE DEF last, rest
  <2>5. /\ all \in [Nodes -> Seq(Executors)]
        /\ all[op.node] = rest /\ \A m \in Nodes : m # op.node => all[m] = old[m]
    BY <2>2, <2>3, Zenon
  <2>. HIDE DEF pair, all, old
  <2>6. /\ act \in Seq(Cores \X Nat) /\ Len(act) = Len(s.active_cores) + 1
        /\ \A i \in 1..Len(s.active_cores) : act[i] = s.active_cores[i]
        /\ act[Len(s.active_cores) + 1] = pair
    BY <2>2, <2>4, AppendProperties
  <2>. HIDE DEF act
  <2>7. /\ t \in ProcessStates /\ t.executor_cache = all /\ t.active_cores = act
        /\ t.current_eid = s.current_eid
    BY <2>5, <2>6, Zenon DEF ProcessStates
  <2>. HIDE DEF t
  <2>8. Len(s.active_cores) \in Nat
    BY <2>2, LenProperties, Zenon
  <2>9. ASSUME NEW m \in Nodes, NEW i \in 1..Len(all[m])
        PROVE  i \in 1..Len(old[m]) /\ all[m][i] = old[m][i] /\ (m = op.node => i < L)
    BY <2>3, <2>5
  <2>10. L \in 1..Len(old[op.node]) /\ pair[2] = old[op.node][L].eid
    BY <2>3, <2>4
  <2>. HIDE DEF L
  <2>11. ASSUME NEW i \in 1..Len(act)
         PROVE  \/ i \in 1..Len(s.active_cores) /\ act[i] = s.active_cores[i]
                \/ i = Len(s.active_cores) + 1 /\ act[i][2] = old[op.node][L].eid
    <3>1. CASE i <= Len(s.active_cores)
      BY <2>6, <2>8, <3>1
    <3>2. CASE i > Len(s.active_cores)
      <4>1. i = Len(s.active_cores) + 1
        BY <2>6, <2>8, <3>2
      <4>. QED
        BY <2>6, <2>10, <4>1, Zenon
    <3>. QED
      BY <3>1, <3>2, <2>8, <2>6
  <2>12. Clean(t)
    <3>1. ASSUME NEW m \in Nodes, NEW i \in 1..Len(all[m])
          PROVE  /\ all[m][i].eid < s.current_eid
                 /\ \A l \in Nodes : \A j \in 1..Len(all[l]) :
                       all[m][i].eid = all[l][j].eid => m = l /\ i = j
                 /\ \A j \in 1..Len(act) : all[m][i].eid # act[j][2]
      <4>1. all[m][i].eid < s.current_eid
        BY <2>9, <2>0
      <4>2. ASSUME NEW l \in Nodes, NEW j \in 1..Len(all[l]), all[m][i].eid = all[l][j].eid
            PROVE  m = l /\ i = j
        <5>1. /\ i \in 1..Len(old[m]) /\ all[m][i] = old[m][i]
              /\ j \in 1..Len(old[l]) /\ all[l][j] = old[l][j]
          BY <2>9, Zenon
        <5>. QED
          BY <5>1, <4>2, <2>0
      <4>3. ASSUME NEW j \in 1..Len(act)
            PROVE  all[m][i].eid # act[j][2]
        <5>1. CASE j \in 1..Len(s.active_cores) /\ act[j] = s.active_cores[j]
          BY <2>9, <5>1, <2>0
        <5>2. CASE act[j][2] = old[op.node][L].eid
          <6>1. i \in 1..Len(old[m]) /\ all[m][i] = old[m][i] /\ ~(m = op.node /\ i = L)
            BY <2>9, <2>3
          <6>2. old[m][i].eid # old[op.node][L].eid
            BY <6>1, <2>10, <2>2, <2>0
          <6>. QED
            BY <5>2, <6>1, <6>2, Zenon
        <5>. QED
          BY <5>1, <5>2, <2>11, Zenon
      <4>. QED
        BY <4>1, <4>2, <4>3, Zenon
    <3>2. ASSUME NEW i \in 1..Len(act)
          PROVE  /\ act[i][2] < s.current_eid
                 /\ \A j \in 1..Len(act) : act[i][2] = act[j][2] => i = j
      <4>1. old[op.node][L].eid < s.current_eid
        BY <2>10, <2>2, <2>0, Zenon
      <4>2. act[i][2] < s.current_eid
        BY <4>1, <2>11, Zenon DEF Clean
      <4>3. \A j \in 1..Len(s.active_cores) : s.active_cores[j][2] # old[op.node][L].eid
        BY <2>10, <2>2, <2>0
      <4>4. ASSUME NEW j \in 1..Len(act), act[i][2] = act[j][2]
            PROVE  i = j
        <5>1. \/ j \in 1..Len(s.active_cores) /\ act[j] = s.active_cores[j]
              \/ j = Len(s.active_cores) + 1 /\ act[j][2] = old[op.node][L].eid
          BY <2>11, Zenon
        <5>2. \A a, b \in 1..Len(s.active_cores) :
                 s.active_cores[a][2] = s.active_cores[b][2] => a = b
          BY Zenon DEF Clean
        <5>. QED
          BY <4>3, <4>4, <5>1, <5>2, <2>11, Zenon
      <4>. QED
        BY <4>2, <4>4, Zenon
    <3>. QED
      BY <2>7, <3>1, <3>2 DEF Clean
  <2>13. Extends(s, t)
    BY <2>6, <2>7, <2>8 DEF Extends
  <2>14. out.state = t /\ out.resp.value = last
    BY <2>1, Zenon DEF Outcome, Ok
  <2>15. Len(s.active_cores) + 1 \in 1..Len(t.active_cores)
         /\ t.active_cores[Len(s.active_cores) + 1] = <<op.core, out.resp.value.eid>>
    BY <2>6, <2>7, <2>8, <2>14 DEF pair
  <2>. QED
    BY <2>7, <2>12, <2>13, <2>14, <2>15, Zenon
<1>. QED
  BY <1>1, <1>2, Zenon
\* Without a failure of the memory the process has one way to go on.
LEMMA OneOutcome ==
  ASSUME ~MayFail, NEW s, NEW op \in Ops("process")
  PROVE  \E x : \A n : Dispatch(s, op, n) = {x}
<1>1. CASE op \in LoadOps
  <2>1. \A n : Dispatch(s, op, n) = {Outcome([s EXCEPT !.loaded = TRUE], Ok(op.pid))}
    BY <1>1, Zenon DEF LoadOps, Dispatch
  <2>. QED
    BY <2>1, Zenon
<1>2. CASE op \in FrameOps
  <2>1. \A n : Dispatch(s, op, n) = DispatcherAllocation(s, op)
    BY <1>2, Zenon DEF FrameOps, Dispatch
  <2>2. \E x : DispatcherAllocation(s, op) = {x}
    BY Zenon DEF DispatcherAllocation
  <2>. QED
    BY <2>1, <2>2, Zenon
<1>3. CASE op \in AssignOps
  <2>1. \A n : Dispatch(s, op, n) = AssignExecutor(s, op, n)
    BY <1>3, Zenon DEF AssignOps, Dispatch
  <2>2. \E x : \A n : AssignExecutor(s, op, n) = {x}
    BY Zenon DEF AssignExecutor, OutOfMemory
  <2>. QED
    BY <2>1, <2>2, Zenon
<1>. QED
  BY <1>1, <1>2, <1>3, Zenon DEF Ops

\* Ids stay distinct and active_cores grows, whatever the process executes.
LEMMA ProcessStep ==
  ASSUME ~MayFail, NEW s \in ProcessStates, NEW op \in Ops("process"), Clean(s), NEW n,
         NEW out \in Dispatch(s, op, n)
  PROVE  /\ out.state \in ProcessStates /\ Clean(out.state) /\ Extends(s, out.state)
         /\ op.kind = "AssignExecutor" /\ out.resp.ok =>
               \E i \in 1..Len(out.state.active_cores) :
                   out.state.active_cores[i] = <<op.core, out.resp.value.eid>>
<1>1. CASE op \in LoadOps
  <2>1. out = Outcome([s EXCEPT !.loaded = TRUE], Ok(op.pid)) /\ op.kind = "Load"
    BY <1>1, Zenon DEF LoadOps, Dispatch
  <2>. DEFINE t == [s EXCEPT !.loaded = TRUE]
  <2>2. /\ t \in ProcessStates /\ t.current_eid = s.current_eid
        /\ t.executor_cache = s.executor_cache /\ t.active_cores = s.active_cores
    BY Zenon DEF ProcessStates
  <2>. HIDE DEF t
  <2>3. Clean(t)
    BY <2>2 DEF Clean
  <2>4. Len(s.active_cores) \in Nat
    BY LenProperties, Zenon DEF ProcessStates
  <2>5. Extends(s, t)
    BY <2>2, <2>4 DEF Extends
  <2>6. out.state = t
    BY <2>1, Zenon DEF Outcome, t
  <2>. QED
    BY <2>1, <2>2, <2>3, <2>5, <2>6, Zenon
<1>2. CASE op \in FrameOps
  <2>1. out \in DispatcherAllocation(s, op) /\ op.kind = "DispatcherAllocation"
    BY <1>2, Zenon DEF FrameOps, Dispatch
  <2>. QED
    BY <1>2, <2>1, FrameStep, Zenon
<1>3. CASE op \in AssignOps
  <2>1. out \in AssignExecutor(s, op, n)
    BY <1>3, Zenon DEF AssignOps, Dispatch
  <2>. QED
    BY <1>3, <2>1, AssignStep, Zenon
<1>. QED
  BY <1>1, <1>2, <1>3, Zenon DEF Ops

-----------------------------------------------------------------------------
(***************************************************************************)
(* Every step keeps the invariant.                                          *)
(***************************************************************************)

\* All operations of the core were executed at its node.
Quiet(c) ==
    \A o \in Objects : \A k \in 1..Len(log[o]) : log[o][k].from = c => k <= done[o][NodeOf[c]]

\* Log positions are numbers.
LEMMA LogTypes ==
  ASSUME TypeOK
  PROVE  \A o \in Objects :
            /\ Len(log[o]) \in Nat
            /\ \A n \in Nodes : done[o][n] \in Nat /\ done[o][n] <= Len(log[o])
            /\ \A k \in 1..Len(log[o]) : log[o][k] \in Ops(o) /\ log[o][k].from \in Cores
<1>. SUFFICES ASSUME NEW o \in Objects
     PROVE  /\ Len(log[o]) \in Nat
            /\ \A n \in Nodes : done[o][n] \in Nat /\ done[o][n] <= Len(log[o])
            /\ \A k \in 1..Len(log[o]) : log[o][k] \in Ops(o) /\ log[o][k].from \in Cores
  BY Zenon
<1>1. log[o] \in Seq(Ops(o)) /\ done[o] \in [Nodes -> 0..Len(log[o])]
  BY Zenon DEF TypeOK
<1>2. Len(log[o]) \in Nat
  BY <1>1, LenProperties, Zenon
<1>3. \A k \in 1..Len(log[o]) : log[o][k] \in Ops(o)
  BY <1>1, ElementOfSeq, Zenon
<1>4. \A op \in Ops(o) : op.from \in Cores
  BY Zenon DEF Ops, PidOps, CoreOps, LoadOps, FrameOps, AssignOps
<1>. QED
  BY <1>1, <1>2, <1>3, <1>4

\* A core is quiet when its call is over or when it is in none.
LEMMA QuietCores ==
  ASSUME IInv, NEW c \in Cores, CaughtUp(c) \/ pc[c] \in Calm
  PROVE  Quiet(c)
<1>. SUFFICES ASSUME NEW o \in Objects, NEW k \in 1..Len(log[o]), log[o][k].from = c
     PROVE  k <= done[o][NodeOf[c]]
  BY Zenon DEF Quiet
<1>0. Len(log[o]) \in Nat /\ done[o][NodeOf[c]] \in Nat /\ k \in Nat
  <2>1. Len(log[o]) \in Nat /\ done[o][NodeOf[c]] \in Nat
    BY LogTypes, NodeTypes, Zenon DEF IInv
  <2>. QED
    BY <2>1
<1>. SUFFICES ASSUME k > done[o][NodeOf[c]]
     PROVE  FALSE
  BY <1>0
<1>1. wait[c] = [obj |-> o, pos |-> k]
  BY Zenon DEF IInv, Outstanding
<1>2. wait[c] # None
  <2>1. [obj |-> o, pos |-> k] \in [obj : Objects, pos : Nat]
    BY <1>0, Zenon
  <2>. QED
    BY <1>1, <2>1, KernelNodeAssumption, Zenon
<1>3. CaughtUp(c)
  BY <1>2, Zenon DEF IInv, CalmWaits
<1>4. done[o][NodeOf[c]] >= k
  BY <1>1, <1>3 DEF CaughtUp
<1>. QED
  BY <1>4, <1>0

\* A core without an outstanding operation begins a call.
LEMMA SubmitStep ==
  ASSUME IInv, NEW c \in Cores, Quiet(c), NEW o \in Objects, NEW op, NEW p \in DOMAIN Calls,
         [op EXCEPT !.from = c] \in Ops(o), [op EXCEPT !.from = c].from = c,
         [op EXCEPT !.from = c].kind = Calls[p], ObjectOf(p) = o,
         Submit(c, o, op), pc' = [pc EXCEPT ![c] = p], grants' = grants
  PROVE  IInv'
<1>. DEFINE e == [op EXCEPT !.from = c]
            L == Len(log[o])
<1>0. /\ e \in Ops(o) /\ e.from = c /\ e.kind = Calls[p]
      /\ log' = [log EXCEPT ![o] = Append(@, e)]
      /\ wait' = [wait EXCEPT ![c] = [obj |-> o, pos |-> L + 1]]
      /\ resp' = [resp EXCEPT ![c] = None] /\ done' = done /\ replica' = replica
  BY Zenon DEF Submit
<1>. HIDE DEF e
<1>1. /\ TypeOK /\ DOMAIN log = Objects /\ log[o] \in Seq(Ops(o)) /\ L \in Nat
      /\ \A q \in Objects : Len(log[q]) \in Nat
  BY LogTypes, Zenon DEF IInv, TypeOK
<1>2. /\ log'[o] \in Seq(Ops(o)) /\ Len(log'[o]) = L + 1
      /\ \A k \in 1..L : log'[o][k] = log[o][k]
      /\ log'[o][L + 1] = e
      /\ \A q \in Objects \ {o} : log'[q] = log[q]
      /\ DOMAIN log' = Objects
  BY <1>0, <1>1, AppendProperties
<1>3. ASSUME NEW q \in Objects
      PROVE  /\ Len(log'[q]) \in Nat /\ Len(log[q]) <= Len(log'[q])
             /\ \A k \in 1..Len(log[q]) : log'[q][k] = log[q][k] /\ k \in 1..Len(log'[q])
  <2>1. CASE q = o
    BY <1>1, <1>2, <2>1
  <2>2. CASE q # o
    BY <1>1, <1>2, <2>2
  <2>. QED
    BY <2>1, <2>2, Zenon
<1>4. ASSUME NEW q \in Objects, NEW k \in 1..Len(log'[q])
      PROVE  \/ k \in 1..Len(log[q]) /\ log'[q][k] = log[q][k]
             \/ q = o /\ k = L + 1 /\ log'[q][k] = e
  <2>1. CASE q = o
    BY <1>1, <1>2, <2>1
  <2>2. CASE q # o
    BY <1>1, <1>2, <2>2, Zenon
  <2>. QED
    BY <2>1, <2>2, Zenon
<1>5. /\ DOMAIN wait = Cores /\ DOMAIN wait' = Cores
      /\ wait'[c] = [obj |-> o, pos |-> L + 1] /\ wait'[c].obj = o /\ wait'[c].pos = L + 1
      /\ \A d \in Cores \ {c} : wait'[d] = wait[d] /\ resp'[d] = resp[d] /\ pc'[d] = pc[d]
      /\ pc'[c] = p /\ DOMAIN pc' = Cores /\ DOMAIN resp' = Cores
  BY <1>0, <1>1, Zenon DEF TypeOK
<1>6. \A d \in Cores : wait[d] # None => wait[d].obj \in Objects /\ wait[d].pos \in Nat
                                        /\ wait[d].pos <= Len(log[wait[d].obj])
  BY <1>1, Zenon DEF TypeOK, Waits
<1>7. TypeOK'
  <2>1. ASSUME NEW q \in Objects
        PROVE  log'[q] \in Seq(Ops(q)) /\ done[q] \in [Nodes -> 0..Len(log'[q])]
    <3>1. log'[q] \in Seq(Ops(q))
      BY <1>1, <1>2, Zenon DEF TypeOK
    <3>2. done[q] \in [Nodes -> 0..Len(log[q])]
      BY <1>1, Zenon DEF TypeOK
    <3>. QED
      BY <1>1, <1>3, <3>1, <3>2
  <2>2. wait' \in [Cores -> Waits \cup {None}]
    <3>1. [obj |-> o, pos |-> L + 1] \in Waits
      BY <1>1 DEF Waits
    <3>. QED
      BY <1>0, <1>1, <3>1, Zenon DEF TypeOK
  <2>3. ASSUME NEW d \in Cores, wait'[d] # None
        PROVE  wait'[d].pos <= Len(log'[wait'[d].obj])
    <3>1. CASE d = c
      BY <3>1, <1>5, <1>2, <1>1
    <3>2. CASE d # c
      BY <3>2, <2>3, <1>5, <1>6, <1>3, <1>1
    <3>. QED
      BY <3>1, <3>2, Zenon
  <2>. QED
    BY <1>0, <1>1, <1>2, <1>5, <2>1, <2>2, <2>3, Zenon DEF TypeOK
<1>8. CalmWaits'
  <2>1. p \notin Calm
    BY Zenon DEF Calm, Calls
  <2>. QED
    BY <1>5, <2>1, Zenon DEF CalmWaits, IInv
<1>9. Outstanding'
  <2>1. ASSUME NEW q \in Objects, NEW k \in 1..Len(log'[q]),
               k > done[q][NodeOf[log'[q][k].from]]
        PROVE  wait'[log'[q][k].from] = [obj |-> q, pos |-> k]
    <3>1. CASE k \in 1..Len(log[q]) /\ log'[q][k] = log[q][k]
      <4>1. log[q][k].from \in Cores
        BY <3>1, <1>1, LogTypes, Zenon
      <4>2. log[q][k].from # c
        <5>1. SUFFICES ASSUME log[q][k].from = c
              PROVE  FALSE
          BY Zenon
        <5>2. k <= done[q][NodeOf[c]] /\ k > done[q][NodeOf[c]]
          BY <3>1, <2>1, <5>1, Zenon DEF Quiet
        <5>3. k \in Nat /\ done[q][NodeOf[c]] \in Nat
          BY <1>1, <3>1, LogTypes, NodeTypes
        <5>. QED
          BY <5>2, <5>3
      <4>3. wait[log[q][k].from] = [obj |-> q, pos |-> k]
        BY <3>1, <2>1, Zenon DEF IInv, Outstanding
      <4>. QED
        BY <3>1, <4>1, <4>2, <4>3, <1>5
    <3>2. CASE q = o /\ k = L + 1 /\ log'[q][k] = e
      BY <3>2, <1>0, <1>5, Zenon
    <3>. QED
      BY <3>1, <3>2, <1>4, Zenon
  <2>. QED
    BY <2>1, <1>0, Zenon DEF Outstanding
<1>10. \A k \in 1..Len(log["kernel"]) :
          /\ (First(k))' <=> First(k)
          /\ \A d : (Asks(k, d))' <=> Asks(k, d)
  <2>. SUFFICES ASSUME NEW k \in 1..Len(log["kernel"])
       PROVE  ((First(k))' <=> First(k)) /\ (\A d : (Asks(k, d))' <=> Asks(k, d))
    BY Zenon
  <2>1. \A j \in 1..(k - 1) : j \in 1..Len(log["kernel"])
    BY <1>1 DEF Objects
  <2>2. \A j \in 1..Len(log["kernel"]) : log'["kernel"][j] = log["kernel"][j]
    BY <1>3, Zenon DEF Objects
  <2>. QED
    BY <2>1, <2>2, Zenon DEF First, Asks
<1>11. MapIsLog'
  <2>1. \A n \in Nodes : \A k \in 1..done["kernel"][n] : k \in 1..Len(log["kernel"])
    BY <1>1, LogTypes DEF Objects
  <2>. QED
    BY <2>1, <1>0, <1>10, Zenon DEF IInv, MapIsLog
<1>12. InCall'
  <2>1. ASSUME NEW d \in Cores, pc'[d] \in DOMAIN Calls
        PROVE  LET q == ObjectOf(pc'[d])
                   k == wait'[d].pos
               IN  /\ wait'[d] # None /\ wait'[d].obj = q /\ k > 0
                   /\ log'[q][k].from = d /\ log'[q][k].kind = Calls[pc'[d]]
    <3>1. CASE d = c
      <4>1. wait'[c] # None
        <5>1. [obj |-> o, pos |-> L + 1] \in [obj : Objects, pos : Nat]
          BY <1>1
        <5>. QED
          BY <1>5, <5>1, KernelNodeAssumption
      <4>. QED
        BY <3>1, <4>1, <1>0, <1>1, <1>2, <1>5
    <3>2. CASE d # c
      <4>. DEFINE q == ObjectOf(pc[d])
                  k == wait[d].pos
      <4>1. /\ wait[d] # None /\ wait[d].obj = q /\ k > 0
            /\ log[q][k].from = d /\ log[q][k].kind = Calls[pc[d]]
        BY <3>2, <2>1, <1>5, Zenon DEF IInv, InCall
      <4>2. q \in Objects /\ k \in 1..Len(log[q])
        BY <4>1, <1>6, <1>1
      <4>. QED
        BY <3>2, <4>1, <4>2, <1>3, <1>5
    <3>. QED
      BY <3>1, <3>2, Zenon
  <2>. QED
    BY <2>1, Zenon DEF InCall
<1>13. Told'
  <2>1. ASSUME NEW d \in Cores, pc'[d] \in {"pid", "request"},
               done["kernel"][NodeOf[d]] >= wait'[d].pos, resp'[d].ok
        PROVE  IF pc'[d] = "pid" THEN resp'[d].value \in Nat
               ELSE resp'[d].value = log'["kernel"][wait'[d].pos].core /\ (First(wait[d].pos))'
    <3>1. CASE d = c
      <4>1. o = "kernel"
        BY <2>1, <3>1, <1>5, Zenon DEF ObjectOf
      <4>2. done["kernel"][NodeOf[c]] \in Nat /\ done["kernel"][NodeOf[c]] <= L
        BY <4>1, <1>1, LogTypes, NodeTypes, Zenon
      <4>. QED
        BY <2>1, <3>1, <4>2, <1>5, <1>1
    <3>2. CASE d # c
      <4>1. wait'[d] = wait[d] /\ resp'[d] = resp[d] /\ pc'[d] = pc[d]
        BY <3>2, <1>5, Zenon
      <4>2. wait[d].pos \in 1..Len(log["kernel"])
        <5>1. wait[d] # None /\ wait[d].obj = "kernel" /\ wait[d].pos > 0
          BY <2>1, <4>1 DEF IInv, InCall, Calls, ObjectOf
        <5>. QED
          BY <5>1, <1>6, <1>1
      <4>3. IF pc[d] = "pid" THEN resp[d].value \in Nat
            ELSE resp[d].value = log["kernel"][wait[d].pos].core /\ First(wait[d].pos)
        BY <2>1, <4>1, Zenon DEF IInv, Told
      <4>4. log'["kernel"][wait[d].pos] = log["kernel"][wait[d].pos]
        BY <4>2, <1>3, Zenon DEF Objects
      <4>5. PICK k \in 1..Len(log["kernel"]) : k = wait[d].pos
        BY <4>2, Zenon
      <4>6. First(k) => (First(k))'
        BY <1>10, Zenon
      <4>7. First(wait[d].pos) => (First(wait[d].pos))'
        BY <4>1, <4>5, <4>6, Zenon DEF First
      <4>. QED
        BY <4>1, <4>3, <4>4, <4>7, Zenon
    <3>. QED
      BY <3>1, <3>2, Zenon
  <2>. QED
    BY <2>1, <1>0, Zenon DEF Told
<1>14. Granted'
  <2>1. ASSUME NEW g \in grants
        PROVE  /\ g \in [by : Cores, core : Cores, pos : Nat]
               /\ g.pos \in 1..Len(log'["kernel"])
               /\ log'["kernel"][g.pos].from = g.by
               /\ (Asks(g.pos, g.core))' /\ (First(g.pos))'
    <3>1. /\ g \in [by : Cores, core : Cores, pos : Nat]
          /\ g.pos \in 1..Len(log["kernel"])
          /\ log["kernel"][g.pos].from = g.by
          /\ Asks(g.pos, g.core) /\ First(g.pos)
      BY Zenon DEF IInv, Granted
    <3>2. g.pos \in 1..Len(log'["kernel"]) /\ log'["kernel"][g.pos] = log["kernel"][g.pos]
      BY <3>1, <1>3, Zenon DEF Objects
    <3>. QED
      BY <3>1, <3>2, <1>10, Zenon
  <2>. QED
    BY <2>1, Zenon DEF Granted
<1>. QED
  BY <1>7, <1>8, <1>9, <1>11, <1>12, <1>13, <1>14, Zenon DEF IInv
\* A core without an outstanding operation ends a call, or waits for the log.
LEMMA QuietStep ==
  ASSUME IInv, NEW c \in Cores, Quiet(c), UNCHANGED nr,
         NEW p, p \notin DOMAIN Calls, pc' = [pc EXCEPT ![c] = p],
         NEW w \in Waits \cup {None}, w # None => w.pos <= Len(log[w.obj]),
         p \in Calm => w = None, wait' = [wait EXCEPT ![c] = w],
         DOMAIN resp' = Cores, \A d \in Cores \ {c} : resp'[d] = resp[d], Granted'
  PROVE  IInv'
<1>1. log' = log /\ done' = done /\ replica' = replica /\ TypeOK
  BY Zenon DEF nr, IInv
<1>2. /\ DOMAIN wait = Cores /\ DOMAIN wait' = Cores /\ wait'[c] = w
      /\ \A d \in Cores \ {c} : wait'[d] = wait[d] /\ resp'[d] = resp[d] /\ pc'[d] = pc[d]
      /\ pc'[c] = p /\ DOMAIN pc' = Cores
  BY <1>1, Zenon DEF TypeOK
<1>3. TypeOK'
  <2>1. wait' \in [Cores -> Waits \cup {None}]
    BY <1>1, Zenon DEF TypeOK
  <2>2. \A d \in Cores : wait'[d] # None => wait'[d].pos <= Len(log'[wait'[d].obj])
    BY <1>1, <1>2, Zenon DEF TypeOK
  <2>. QED
    BY <1>1, <1>2, <2>1, <2>2, Zenon DEF TypeOK
<1>4. CalmWaits'
  BY <1>2, Zenon DEF IInv, CalmWaits
<1>5. Outstanding'
  <2>1. ASSUME NEW q \in Objects, NEW k \in 1..Len(log[q]), k > done[q][NodeOf[log[q][k].from]]
        PROVE  wait'[log[q][k].from] = [obj |-> q, pos |-> k]
    <3>1. log[q][k].from \in Cores /\ k \in Nat /\ done[q][NodeOf[c]] \in Nat
      <4>1. log[q][k].from \in Cores /\ Len(log[q]) \in Nat /\ done[q][NodeOf[c]] \in Nat
        BY <1>1, LogTypes, NodeTypes, Zenon
      <4>. QED
        BY <4>1
    <3>2. log[q][k].from # c
      BY <2>1, <3>1 DEF Quiet
    <3>3. wait[log[q][k].from] = [obj |-> q, pos |-> k]
      BY <2>1, Zenon DEF IInv, Outstanding
    <3>. QED
      BY <3>1, <3>2, <3>3, <1>2, Zenon
  <2>. QED
    BY <1>1, <2>1, Zenon DEF Outstanding
<1>6. MapIsLog'
  BY <1>1 DEF IInv, MapIsLog, Asks
<1>7. InCall'
  BY <1>1, <1>2, Zenon DEF IInv, InCall
<1>8. Told'
  <2>1. ASSUME NEW d \in Cores, pc'[d] \in {"pid", "request"},
               done["kernel"][NodeOf[d]] >= wait'[d].pos, resp'[d].ok
        PROVE  IF pc'[d] = "pid" THEN resp'[d].value \in Nat
               ELSE resp'[d].value = log["kernel"][wait'[d].pos].core /\ (First(wait[d].pos))'
    <3>1. d # c
      BY <2>1, <1>2, Zenon DEF Calls
    <3>2. wait'[d] = wait[d] /\ resp'[d] = resp[d] /\ pc'[d] = pc[d]
      BY <3>1, <1>2, Zenon
    <3>3. IF pc[d] = "pid" THEN resp[d].value \in Nat
          ELSE resp[d].value = log["kernel"][wait[d].pos].core /\ First(wait[d].pos)
      BY <2>1, <3>2, Zenon DEF IInv, Told
    <3>4. First(wait[d].pos) => (First(wait[d].pos))'
      BY <3>2, <1>1, Zenon DEF First, Asks
    <3>. QED
      BY <3>2, <3>3, <3>4, Zenon
  <2>. QED
    BY <2>1, <1>1, Zenon DEF Told
<1>. QED
  BY <1>3, <1>4, <1>5, <1>6, <1>7, <1>8, Zenon DEF IInv

\* What a replica does in a step of the log.
LEMMA KernelStep ==
  ASSUME ~MayFail, NEW s \in KernelStates, NEW op \in Ops("kernel"), NEW n,
         NEW out \in Dispatch(s, op, n)
  PROVE  /\ out.state \in KernelStates
         /\ \A d \in Cores : out.state.scheduler_map[d] # None
               <=> s.scheduler_map[d] # None \/ (op.kind = "SchedAllocateCore" /\ op.core = d)
         /\ op.kind = "AllocatePid" /\ out.resp.ok => out.resp.value \in Nat
         /\ op.kind = "SchedAllocateCore" /\ out.resp.ok =>
               out.resp.value = op.core /\ s.scheduler_map[op.core] = None /\ op.core \in Cores
<1>1. CASE op \in PidOps
  <2>1. out \in AllocatePid(s) /\ op.kind = "AllocatePid"
    BY <1>1, Zenon DEF PidOps, Dispatch
  <2>. QED
    BY <2>1, PidStep, Zenon
<1>2. CASE op \in CoreOps
  <2>1. out \in SchedAllocateCore(s, op) /\ op.kind = "SchedAllocateCore" /\ op.core \in Cores
    BY <1>2, Zenon DEF CoreOps, Dispatch
  <2>. QED
    BY <1>2, <2>1, CoreStep, Zenon
<1>. QED
  BY <1>1, <1>2, Zenon DEF Ops

\* The replica of a node executes the next operation of a log.
LEMMA ReplayStep ==
  ASSUME ~MayFail, IInv, NEW c \in Cores, Replay(c)
  PROVE  IInv'
<1>. DEFINE o == wait[c].obj
            n == NodeOf[c]
            k == done[o][n] + 1
            op == log[o][k]
<1>1. TypeOK /\ wait[c] # None /\ o \in Objects /\ n \in Nodes /\ wait[c].pos <= Len(log[o])
      /\ wait[c].pos \in Nat
  BY NodeTypes, Zenon DEF IInv, TypeOK, Waits, Replay
<1>2. Len(log[o]) \in Nat /\ done[o][n] \in Nat /\ k \in 1..Len(log[o])
      /\ op \in Ops(o) /\ op.from \in Cores
  <2>1. Len(log[o]) \in Nat /\ done[o][n] \in Nat
    BY <1>1, LogTypes, Zenon
  <2>2. done[o][n] < wait[c].pos
    <3>1. ~(done[o][n] >= wait[c].pos)
      BY <1>1, Zenon DEF Replay, CaughtUp
    <3>. QED
      BY <1>1, <2>1, <3>1
  <2>3. k \in 1..Len(log[o])
    BY <1>1, <2>1, <2>2
  <2>. QED
    BY <1>1, <2>1, <2>3, LogTypes, Zenon
<1>3. PICK out \in Dispatch(replica[o][n], op, n) :
         /\ replica' = [replica EXCEPT ![o][n] = out.state]
         /\ done' = [done EXCEPT ![o][n] = @ + 1]
         /\ resp' = IF NodeOf[op.from] = n THEN [resp EXCEPT ![op.from] = out.resp] ELSE resp
  BY Zenon DEF Replay
<1>4. log' = log /\ pc' = pc /\ wait' = wait /\ grants' = grants
  BY Zenon DEF Replay
<1>. HIDE DEF o, n, op
<1>5. /\ DOMAIN replica' = Objects /\ DOMAIN done' = Objects /\ DOMAIN resp' = Cores
      /\ \A q \in Objects : DOMAIN replica'[q] = Nodes
      /\ \A q \in Objects, m \in Nodes :
            /\ done'[q][m] = IF q = o /\ m = n THEN k ELSE done[q][m]
            /\ replica'[q][m] = IF q = o /\ m = n THEN out.state ELSE replica[q][m]
      /\ \A d \in Cores : resp'[d] = IF d = op.from /\ NodeOf[d] = n THEN out.resp ELSE resp[d]
  BY <1>1, <1>2, <1>3, Zenon DEF TypeOK
<1>6. \A q \in Objects, m \in Nodes :
         /\ done[q][m] \in Nat /\ done'[q][m] \in Nat /\ Len(log[q]) \in Nat
         /\ done[q][m] <= done'[q][m] /\ done'[q][m] <= Len(log[q])
  <2>. SUFFICES ASSUME NEW q \in Objects, NEW m \in Nodes
       PROVE  /\ done[q][m] \in Nat /\ done'[q][m] \in Nat /\ Len(log[q]) \in Nat
              /\ done[q][m] <= done'[q][m] /\ done'[q][m] <= Len(log[q])
    BY Zenon
  <2>1. done[q][m] \in Nat /\ Len(log[q]) \in Nat /\ done[q][m] <= Len(log[q])
    BY <1>1, LogTypes, Zenon
  <2>. QED
    BY <1>2, <1>5, <2>1
<1>. HIDE DEF k
<1>7. o = "kernel" =>
        /\ out.state \in KernelStates
        /\ \A d \in Cores : out.state.scheduler_map[d] # None
               <=> replica["kernel"][n].scheduler_map[d] # None \/ Asks(k, d)
        /\ op.kind = "AllocatePid" /\ out.resp.ok => out.resp.value \in Nat
        /\ op.kind = "SchedAllocateCore" /\ out.resp.ok =>
               /\ out.resp.value = op.core /\ op.core \in Cores
               /\ replica["kernel"][n].scheduler_map[op.core] = None
  <2>. SUFFICES ASSUME o = "kernel"
       PROVE  /\ out.state \in KernelStates
              /\ \A d \in Cores : out.state.scheduler_map[d] # None
                     <=> replica["kernel"][n].scheduler_map[d] # None \/ Asks(k, d)
              /\ op.kind = "AllocatePid" /\ out.resp.ok => out.resp.value \in Nat
              /\ op.kind = "SchedAllocateCore" /\ out.resp.ok =>
                     /\ out.resp.value = op.core /\ op.core \in Cores
                     /\ replica["kernel"][n].scheduler_map[op.core] = None
    BY Zenon
  <2>1. replica["kernel"][n] \in KernelStates
    BY <1>1, Zenon DEF TypeOK
  <2>2. op = log["kernel"][k] /\ op \in Ops("kernel")
    BY <1>2, Zenon DEF op, k
  <2>3. out \in Dispatch(replica["kernel"][n], op, n)
    BY Zenon
  <2>. QED
    BY <2>1, <2>2, <2>3, KernelStep DEF Asks
<1>8. TypeOK'
  <2>1. \A q \in Objects : done'[q] \in [Nodes -> 0..Len(log[q])]
    <3>. SUFFICES ASSUME NEW q \in Objects
         PROVE  done'[q] \in [Nodes -> 0..Len(log[q])]
      BY Zenon
    <3>1. done[q] \in [Nodes -> 0..Len(log[q])]
      BY <1>1, Zenon DEF TypeOK
    <3>2. done'[q] = [m \in Nodes |-> done'[q][m]]
      BY <1>1, <1>3, <3>1, Zenon DEF TypeOK
    <3>. QED
      BY <3>2, <1>6
  <2>2. replica'["kernel"] \in [Nodes -> KernelStates]
    <3>1. replica["kernel"] \in [Nodes -> KernelStates] /\ DOMAIN replica = Objects
      BY <1>1, Zenon DEF TypeOK
    <3>2. CASE o = "kernel"
      BY <3>1, <3>2, <1>7, <1>3, <1>1, Zenon
    <3>3. CASE o # "kernel"
      BY <3>1, <3>3, <1>3, <1>1, Zenon DEF Objects
    <3>. QED
      BY <3>2, <3>3, Zenon
  <2>. QED
    BY <1>1, <1>4, <1>5, <2>1, <2>2, Zenon DEF TypeOK
<1>9. CalmWaits'
  BY <1>4, Zenon DEF IInv, CalmWaits
<1>10. Outstanding'
  <2>1. ASSUME NEW q \in Objects, NEW j \in 1..Len(log[q]), j > done'[q][NodeOf[log[q][j].from]]
        PROVE  wait[log[q][j].from] = [obj |-> q, pos |-> j]
    <3>1. log[q][j].from \in Cores /\ Len(log[q]) \in Nat
      BY <1>1, LogTypes, Zenon
    <3>2. NodeOf[log[q][j].from] \in Nodes
      BY <3>1, NodeTypes, Zenon
    <3>3. j > done[q][NodeOf[log[q][j].from]]
      BY <2>1, <3>1, <3>2, <1>6
    <3>. QED
      BY <3>3, Zenon DEF IInv, Outstanding
  <2>. QED
    BY <2>1, <1>4, Zenon DEF Outstanding
<1>11. MapIsLog'
  <2>1. ASSUME NEW m \in Nodes, NEW d \in Cores
        PROVE  replica'["kernel"][m].scheduler_map[d] # None
               <=> \E j \in 1..done'["kernel"][m] : Asks(j, d)
    <3>0. replica["kernel"][m].scheduler_map[d] # None
          <=> \E j \in 1..done["kernel"][m] : Asks(j, d)
      BY Zenon DEF IInv, MapIsLog
    <3>1. CASE o = "kernel" /\ m = n
      <4>1. done'["kernel"][m] = k /\ replica'["kernel"][m] = out.state
        BY <3>1, <1>5, <1>1, Zenon
      <4>2. 1..k = (1..done["kernel"][m]) \cup {k}
        BY <3>1, <1>2 DEF k
      <4>. QED
        BY <3>0, <3>1, <4>1, <4>2, <1>7, Zenon
    <3>2. CASE ~(o = "kernel" /\ m = n)
      BY <3>0, <3>2, <1>5, Zenon DEF Objects
    <3>. QED
      BY <3>1, <3>2, Zenon
  <2>. QED
    BY <2>1, <1>4, Zenon DEF MapIsLog, Asks
<1>12. InCall'
  BY <1>4, Zenon DEF IInv, InCall
<1>13. Told'
  <2>1. ASSUME NEW d \in Cores, pc[d] \in {"pid", "request"},
               done'["kernel"][NodeOf[d]] >= wait[d].pos, resp'[d].ok
        PROVE  IF pc[d] = "pid" THEN resp'[d].value \in Nat
               ELSE resp'[d].value = log["kernel"][wait[d].pos].core /\ First(wait[d].pos)
    <3>1. /\ wait[d] # None /\ wait[d].obj = "kernel" /\ wait[d].pos \in Nat /\ wait[d].pos > 0
          /\ log["kernel"][wait[d].pos].from = d
          /\ log["kernel"][wait[d].pos].kind = Calls[pc[d]]
      <4>1. /\ wait[d] # None /\ wait[d].obj = "kernel" /\ wait[d].pos > 0
            /\ log["kernel"][wait[d].pos].from = d
            /\ log["kernel"][wait[d].pos].kind = Calls[pc[d]]
        BY <2>1, Zenon DEF IInv, InCall, Calls, ObjectOf
      <4>. QED
        BY <4>1, <1>1, Zenon DEF TypeOK, Waits
    <3>2. NodeOf[d] \in Nodes
      BY NodeTypes, Zenon
    <3>3. CASE d = op.from /\ NodeOf[d] = n
      <4>1. wait[d] = [obj |-> o, pos |-> k]
        <5>1. k > done[o][n]
          BY <1>2 DEF k
        <5>. QED
          BY <5>1, <3>3, <1>1, <1>2, Zenon DEF IInv, Outstanding, op
      <4>2. o = "kernel" /\ wait[d].pos = k /\ op = log["kernel"][k]
        BY <4>1, <3>1 DEF op
      <4>3. resp'[d] = out.resp
        BY <3>3, <1>5, Zenon
      <4>4. CASE pc[d] = "pid"
        BY <4>4, <4>2, <4>3, <3>1, <2>1, <1>7 DEF Calls
      <4>5. CASE pc[d] = "request"
        <5>1. /\ out.resp.value = op.core /\ op.core \in Cores
              /\ replica["kernel"][n].scheduler_map[op.core] = None
          BY <4>5, <4>2, <4>3, <3>1, <2>1, <1>7 DEF Calls
        <5>2. ~\E j \in 1..done["kernel"][n] : Asks(j, op.core)
          BY <5>1, <1>1, Zenon DEF IInv, MapIsLog
        <5>3. k - 1 = done["kernel"][n]
          BY <4>2, <1>2 DEF k
        <5>4. First(k)
          BY <5>2, <5>3, <4>2, Zenon DEF First
        <5>. QED
          BY <5>1, <5>4, <4>2, <4>3, <4>5, Zenon
      <4>. QED
        BY <4>4, <4>5, <2>1, Zenon
    <3>4. CASE ~(d = op.from /\ NodeOf[d] = n)
      <4>1. resp'[d] = resp[d]
        BY <3>4, <1>5, Zenon
      <4>2. done["kernel"][NodeOf[d]] >= wait[d].pos
        <5>1. CASE o = "kernel" /\ NodeOf[d] = n
          <6>1. wait[d].pos # k
            BY <5>1, <3>4, <3>1, Zenon DEF op
          <6>2. done'["kernel"][n] = k /\ k = done["kernel"][n] + 1 /\ done["kernel"][n] \in Nat
            BY <5>1, <1>5, <1>1, <1>6, Zenon DEF k
          <6>. QED
            BY <6>1, <6>2, <5>1, <3>1, <2>1
        <5>2. CASE ~(o = "kernel" /\ NodeOf[d] = n)
          BY <5>2, <2>1, <3>2, <1>5, Zenon DEF Objects
        <5>. QED
          BY <5>1, <5>2, Zenon
      <4>. QED
        BY <4>1, <4>2, <2>1, Zenon DEF IInv, Told
    <3>. QED
      BY <3>3, <3>4, Zenon
  <2>. QED
    BY <2>1, <1>4, Zenon DEF Told, First, Asks
<1>14. Granted'
  BY <1>4, Zenon DEF IInv, Granted, First, Asks
<1>. QED
  BY <1>8, <1>9, <1>10, <1>11, <1>12, <1>13, <1>14, Zenon DEF IInv
\* An operation is logged under the name of its core.
LEMMA Logged ==
  ASSUME NEW kind, NEW pid, NEW core, NEW at, NEW node, NEW frame, NEW c
  PROVE  [Operation(kind, pid, core, at, node, frame) EXCEPT !.from = c]
         = [kind |-> kind, from |-> c, pid |-> pid, core |-> core, entry |-> at,
            node |-> node, frame |-> frame]
BY DEF Operation

\* The initial states satisfy the invariant.
LEMMA InitIInv == Init => IInv
<1>. SUFFICES ASSUME Init
     PROVE  IInv
  BY Zenon
<1>1. /\ DOMAIN log = Objects /\ DOMAIN done = Objects /\ DOMAIN replica = Objects
      /\ \A o \in Objects : log[o] = <<>> /\ done[o] = [n \in Nodes |-> 0]
                             /\ DOMAIN replica[o] = Nodes
      /\ \A n \in Nodes : replica["kernel"][n]
             = [process_map |-> {}, scheduler_map |-> [c \in Cores |-> None]]
      /\ DOMAIN pc = Cores /\ DOMAIN resp = Cores /\ wait = [c \in Cores |-> None]
      /\ \A c \in Cores : pc[c] \in {"spawn", "schedule"}
      /\ grants = {}
  BY Zenon DEF Init, Objects
<1>2. replica["kernel"] = [n \in Nodes |-> replica["kernel"][n]]
  BY Zenon DEF Init, Objects
<1>3. [process_map |-> {}, scheduler_map |-> [c \in Cores |-> None]] \in KernelStates
  BY Zenon DEF KernelStates
<1>4. TypeOK
  <2>1. replica["kernel"] \in [Nodes -> KernelStates]
    BY <1>1, <1>2, <1>3, Zenon
  <2>2. ASSUME NEW o \in Objects
        PROVE  log[o] \in Seq(Ops(o)) /\ done[o] \in [Nodes -> 0..Len(log[o])]
    <3>1. log[o] = <<>> /\ done[o] = [n \in Nodes |-> 0]
      BY <1>1, Zenon
    <3>2. Len(log[o]) = 0 /\ log[o] \in Seq(Ops(o))
      BY <3>1
    <3>. QED
      BY <3>1, <3>2
  <2>. QED
    BY <1>1, <2>1, <2>2, Zenon DEF TypeOK
<1>5. CalmWaits /\ Outstanding
  BY <1>1 DEF CalmWaits, Outstanding
<1>6. MapIsLog
  <2>1. \A n \in Nodes, d \in Cores :
           replica["kernel"][n].scheduler_map[d] = None /\ done["kernel"][n] = 0
    BY <1>1 DEF Objects
  <2>. QED
    BY <2>1 DEF MapIsLog
<1>7. InCall /\ Told /\ Granted
  BY <1>1, Zenon DEF InCall, Told, Granted, Calls
<1>. QED
  BY <1>4, <1>5, <1>6, <1>7, Zenon DEF IInv

\* Granted only depends on the log and the grants.
LEMMA SameGrants ==
  ASSUME Granted, log' = log, grants' = grants
  PROVE  Granted'
BY Zenon DEF Granted, Asks, First

\* The call of a core ends.
LEMMA ReturnStep ==
  ASSUME IInv, NEW c \in Cores, Quiet(c), Returned(c), Granted',
         NEW p, p \notin DOMAIN Calls, pc' = [pc EXCEPT ![c] = p]
  PROVE  IInv'
<1>1. DOMAIN resp' = Cores /\ \A d \in Cores \ {c} : resp'[d] = resp[d]
  BY Zenon DEF Returned, IInv, TypeOK
<1>2. UNCHANGED nr /\ wait' = [wait EXCEPT ![c] = None]
  BY Zenon DEF Returned
<1>. QED
  BY <1>1, <1>2, QuietStep, Zenon

\* The core waits until its replica has executed some of a log.
LEMMA CatchStep ==
  ASSUME IInv, NEW c \in Cores, Quiet(c), NEW o \in Objects, Catch(c, o), UNCHANGED <<nr, resp, grants>>,
         NEW p, p \notin DOMAIN Calls \cup Calm, pc' = [pc EXCEPT ![c] = p]
  PROVE  IInv'
<1>0. PICK k \in 0..Len(log[o]) : wait' = [wait EXCEPT ![c] = [obj |-> o, pos |-> k]]
  BY Zenon DEF Catch
<1>. DEFINE w == [obj |-> o, pos |-> k]
<1>1. DOMAIN resp' = Cores /\ \A d \in Cores \ {c} : resp'[d] = resp[d]
  BY Zenon DEF IInv, TypeOK
<1>2. UNCHANGED nr /\ wait' = [wait EXCEPT ![c] = w]
  BY <1>0, Zenon
<1>3. w \in Waits /\ w.pos <= Len(log[w.obj])
  <2>1. Len(log[o]) \in Nat
    BY LogTypes, Zenon DEF IInv
  <2>. QED
    BY <2>1 DEF Waits
<1>4. Granted'
  BY SameGrants, Zenon DEF IInv, nr
<1>. HIDE DEF w
<1>. QED
  BY <1>1, <1>2, <1>3, <1>4, QuietStep, Zenon
\* Every step keeps the invariant.
LEMMA StepIInv == ~MayFail /\ IInv /\ [Next]_vars => IInv'
<1>. SUFFICES ASSUME ~MayFail, IInv, [Next]_vars
     PROVE  IInv'
  BY Zenon
<1>. USE DEF Calls, Calm, ObjectOf, Objects
<1>1. ASSUME NEW c \in Cores, Replay(c)
      PROVE  IInv'
  BY <1>1, ReplayStep, Zenon
<1>2. ASSUME NEW c \in Cores, Spawn(c)
      PROVE  IInv'
  <2>. DEFINE op == Operation("AllocatePid", None, None, None, None, None)
  <2>1. /\ [op EXCEPT !.from = c] \in Ops("kernel") /\ [op EXCEPT !.from = c].from = c
        /\ [op EXCEPT !.from = c].kind = "AllocatePid"
    <3>1. [op EXCEPT !.from = c]
          = [kind |-> "AllocatePid", from |-> c, pid |-> None, core |-> None,
             entry |-> None, node |-> None, frame |-> None]
      BY Logged
    <3>. QED
      BY <3>1, Zenon DEF Ops, PidOps
  <2>2. /\ Submit(c, "kernel", op) /\ pc' = [pc EXCEPT ![c] = "pid"] /\ grants' = grants
        /\ pc[c] = "spawn"
    BY <1>2, Zenon DEF Spawn
  <2>. HIDE DEF op
  <2>3. Quiet(c)
    BY <2>2, QuietCores, Zenon
  <2>. QED
    BY <2>1, <2>2, <2>3, SubmitStep, Zenon
<1>3. ASSUME NEW c \in Cores, PidAllocated(c)
      PROVE  IInv'
  <2>0. Quiet(c) /\ pc[c] = "pid" /\ CaughtUp(c) /\ grants' = grants
    BY <1>3, QuietCores, Zenon DEF PidAllocated, Answered
  <2>1. CASE resp[c].ok
    <3>. DEFINE op == Operation("Load", resp[c].value, None, None, None, None)
    <3>1. resp[c].value \in Nat
      <4>1. wait[c] # None /\ wait[c].obj = "kernel"
        BY <2>0, Zenon DEF IInv, InCall
      <4>. QED
        BY <2>0, <2>1, <4>1, Zenon DEF CaughtUp, IInv, Told
    <3>2. /\ [op EXCEPT !.from = c] \in Ops("process") /\ [op EXCEPT !.from = c].from = c
          /\ [op EXCEPT !.from = c].kind = "Load"
      <4>1. [op EXCEPT !.from = c]
            = [kind |-> "Load", from |-> c, pid |-> resp[c].value, core |-> None,
               entry |-> None, node |-> None, frame |-> None]
        BY Logged
      <4>. QED
        BY <4>1, <3>1, Zenon DEF Ops, LoadOps
    <3>3. Submit(c, "process", op) /\ pc' = [pc EXCEPT ![c] = "load"]
      BY <1>3, <2>1, Zenon DEF PidAllocated, Answered
    <3>. HIDE DEF op
    <3>. QED
      BY <2>0, <3>2, <3>3, SubmitStep, Zenon
  <2>2. CASE ~resp[c].ok
    <3>1. Returned(c) /\ pc' = [pc EXCEPT ![c] = "schedule"]
      BY <1>3, <2>2, Zenon DEF PidAllocated, Answered
    <3>2. Granted'
      BY <2>0, <3>1, SameGrants, Zenon DEF IInv, Returned, nr
    <3>. QED
      BY <2>0, <3>1, <3>2, ReturnStep, Zenon
  <2>. QED
    BY <2>1, <2>2, Zenon
<1>4. ASSUME NEW c \in Cores, NEW p \in {"dispatchers", "panic", "schedule", "user", "start", "halted"},
             CaughtUp(c), pc' = [pc EXCEPT ![c] = p], Returned(c), grants' = grants
      PROVE  IInv'
  <2>1. Quiet(c)
    BY <1>4, QuietCores, Zenon
  <2>2. Granted'
    BY <1>4, SameGrants, Zenon DEF IInv, Returned, nr
  <2>. QED
    BY <1>4, <2>1, <2>2, ReturnStep, Zenon
<1>5. ASSUME NEW c \in Cores, Loaded(c) \/ Dispatched(c) \/ Advanced(c) \/ Assigned(c) \/ SyncedProcess(c)
      PROVE  IInv'
  <2>1. \E p \in {"dispatchers", "panic", "schedule", "user", "start", "halted"} :
           CaughtUp(c) /\ pc' = [pc EXCEPT ![c] = p] /\ Returned(c) /\ grants' = grants
    BY <1>5, Zenon DEF Loaded, Dispatched, Advanced, Assigned, SyncedProcess, Answered
  <2>. QED
    BY <1>4, <2>1, Zenon
<1>6. ASSUME NEW c \in Cores, AllocateDispatchers(c)
      PROVE  IInv'
  <2>. DEFINE n == Min({m \in Nodes : todo[m] > 0})
              op == Operation("DispatcherAllocation", Pid, None, None, n, Len(log["process"]))
  <2>1. n \in Nodes
    <3>1. {m \in Nodes : todo[m] > 0} \in SUBSET Nat
      BY NodeTypes, Zenon
    <3>2. {m \in Nodes : todo[m] > 0} # {}
      BY <1>6, Zenon DEF AllocateDispatchers
    <3>. QED
      BY <3>1, <3>2, MinIn, Zenon
  <2>2. /\ Submit(c, "process", op) /\ pc' = [pc EXCEPT ![c] = "dispatched"] /\ grants' = grants
        /\ pc[c] = "dispatchers"
    BY <1>6, Zenon DEF AllocateDispatchers
  <2>. HIDE DEF n
  <2>3. /\ [op EXCEPT !.from = c] \in Ops("process") /\ [op EXCEPT !.from = c].from = c
        /\ [op EXCEPT !.from = c].kind = "DispatcherAllocation"
    <3>1. Len(log["process"]) \in Nat
      BY LogTypes, Zenon DEF IInv
    <3>2. [op EXCEPT !.from = c]
          = [kind |-> "DispatcherAllocation", from |-> c, pid |-> Pid, core |-> None,
             entry |-> None, node |-> n, frame |-> Len(log["process"])]
      BY Logged
    <3>. QED
      BY <2>1, <3>1, <3>2 DEF Ops, FrameOps, Pid
  <2>. HIDE DEF op
  <2>4. Quiet(c)
    BY <2>2, QuietCores, Zenon
  <2>. QED
    BY <2>2, <2>3, <2>4, SubmitStep, Zenon
<1>7. ASSUME NEW c \in Cores, NEW d \in Cores, NEW e \in Entries \cup {Invalid}, pc[c] \in Calm,
             Submit(c, "kernel", Operation("SchedAllocateCore", Pid, d, e, NodeOf[d], None)),
             pc' = [pc EXCEPT ![c] = "request"], grants' = grants
      PROVE  IInv'
  <2>. DEFINE op == Operation("SchedAllocateCore", Pid, d, e, NodeOf[d], None)
  <2>1. /\ [op EXCEPT !.from = c] \in Ops("kernel") /\ [op EXCEPT !.from = c].from = c
        /\ [op EXCEPT !.from = c].kind = "SchedAllocateCore"
    <3>1. [op EXCEPT !.from = c]
          = [kind |-> "SchedAllocateCore", from |-> c, pid |-> Pid, core |-> d,
             entry |-> e, node |-> NodeOf[d], frame |-> None]
      BY Logged
    <3>. QED
      BY <3>1, NodeTypes DEF Ops, CoreOps, Pid
  <2>2. Submit(c, "kernel", op)
    BY <1>7, Zenon
  <2>. HIDE DEF op
  <2>3. Quiet(c)
    BY <1>7, QuietCores, Zenon
  <2>. QED
    BY <1>7, <2>1, <2>2, <2>3, SubmitStep, Zenon
<1>8. ASSUME NEW c \in Cores, TakeOwnCore(c)
      PROVE  IInv'
  BY <1>7, <1>8, Zenon DEF TakeOwnCore
<1>9. ASSUME NEW c \in Cores, NEW d \in Cores, NEW e \in Entries, RequestCore(c, d, e)
      PROVE  IInv'
  BY <1>7, <1>9, Zenon DEF RequestCore
<1>10. ASSUME NEW c \in Cores, Requested(c)
       PROVE  IInv'
  <2>1. /\ pc[c] = "request" /\ CaughtUp(c) /\ Returned(c) /\ log' = log
        /\ \E p \in {"schedule", "user"} : pc' = [pc EXCEPT ![c] = p]
        /\ grants' = IF resp[c].ok
                     THEN grants \cup {[by |-> c, core |-> resp[c].value, pos |-> wait[c].pos]}
                     ELSE grants
    BY <1>10, Zenon DEF Requested, Answered, Returned, nr
  <2>2. Granted'
    <3>1. CASE resp[c].ok
      <4>. DEFINE g == [by |-> c, core |-> resp[c].value, pos |-> wait[c].pos]
      <4>1. /\ wait[c] # None /\ wait[c].obj = "kernel" /\ wait[c].pos > 0
            /\ log["kernel"][wait[c].pos].from = c
            /\ log["kernel"][wait[c].pos].kind = "SchedAllocateCore"
        BY <2>1 DEF IInv, InCall
      <4>2. resp[c].value = log["kernel"][wait[c].pos].core /\ First(wait[c].pos)
        BY <2>1, <3>1, <4>1, Zenon DEF CaughtUp, IInv, Told
      <4>3. wait[c].pos \in 1..Len(log["kernel"])
        <5>1. wait[c].pos \in Nat /\ wait[c].pos <= Len(log["kernel"]) /\ Len(log["kernel"]) \in Nat
          BY <4>1, LogTypes, Zenon DEF IInv, TypeOK, Waits
        <5>. QED
          BY <4>1, <5>1
      <4>4. log["kernel"][wait[c].pos] \in CoreOps
        <5>1. log["kernel"][wait[c].pos] \in Ops("kernel")
          BY <4>3, LogTypes, Zenon DEF IInv
        <5>. QED
          BY <4>1, <5>1, Zenon DEF Ops, PidOps
      <4>5. g \in [by : Cores, core : Cores, pos : Nat]
        BY <4>2, <4>3, <4>4 DEF CoreOps
      <4>6. /\ g.pos \in 1..Len(log["kernel"]) /\ log["kernel"][g.pos].from = g.by
            /\ Asks(g.pos, g.core) /\ First(g.pos)
        BY <4>1, <4>2, <4>3, Zenon DEF Asks
      <4>7. \A h \in grants' : h \in grants \/ h = g
        BY <2>1, <3>1, Zenon
      <4>. HIDE DEF g
      <4>8. \A h \in grants' :
               /\ h \in [by : Cores, core : Cores, pos : Nat]
               /\ h.pos \in 1..Len(log["kernel"])
               /\ log["kernel"][h.pos].from = h.by
               /\ Asks(h.pos, h.core) /\ First(h.pos)
        BY <4>5, <4>6, <4>7, Zenon DEF IInv, Granted
      <4>. QED
        BY <2>1, <4>8, Zenon DEF Granted, Asks, First
    <3>2. CASE ~resp[c].ok
      BY <2>1, <3>2, SameGrants, Zenon DEF IInv
    <3>. QED
      BY <3>1, <3>2, Zenon
  <2>3. Quiet(c)
    BY <2>1, QuietCores, Zenon
  <2>. QED
    BY <2>1, <2>2, <2>3, ReturnStep, Zenon
<1>11. ASSUME NEW c \in Cores, NEW o \in Objects,
              NEW p \in {"lookup", "advance", "sync_kernel", "sync_process"},
              CaughtUp(c) \/ pc[c] \in Calm, Catch(c, o), UNCHANGED <<nr, resp, grants>>,
              pc' = [pc EXCEPT ![c] = p]
       PROVE  IInv'
  <2>1. Quiet(c)
    BY <1>11, QuietCores, Zenon
  <2>. QED
    BY <1>11, <2>1, CatchStep, Zenon
<1>12. ASSUME NEW c \in Cores, Lookup(c) \/ Timer(c) \/ SyncedKernel(c)
       PROVE  IInv'
  BY <1>11, <1>12, Zenon DEF Lookup, Timer, SyncedKernel, Answered
<1>13. ASSUME NEW c \in Cores, NoProcess(c)
       PROVE  IInv'
  <2>1. CASE MainThread(c)
    BY <1>11, <1>13, <2>1, Zenon DEF NoProcess, Answered
  <2>2. CASE ~MainThread(c)
    BY <1>4, <1>13, <2>2, Zenon DEF NoProcess, Answered
  <2>. QED
    BY <2>1, <2>2, Zenon
<1>14. ASSUME NEW c \in Cores, AllocateExecutor(c)
       PROVE  IInv'
  <2>. DEFINE op == Operation("AssignExecutor", CurrentProcess(c).pid, c, None, NodeOf[c], None)
  <2>1. /\ Submit(c, "process", op) /\ pc' = [pc EXCEPT ![c] = "assign"] /\ grants' = grants
        /\ CaughtUp(c) /\ CurrentProcess(c) # None
    BY <1>14, Zenon DEF AllocateExecutor, Answered
  <2>2. CurrentProcess(c).pid \in Nat
    <3>1. replica["kernel"][NodeOf[c]] \in KernelStates
      BY NodeTypes, Zenon DEF IInv, TypeOK
    <3>2. CurrentProcess(c) \in Owners
      BY <2>1, <3>1, Zenon DEF KernelStates, CurrentProcess
    <3>. QED
      BY <3>2, Zenon DEF Owners
  <2>3. /\ [op EXCEPT !.from = c] \in Ops("process") /\ [op EXCEPT !.from = c].from = c
        /\ [op EXCEPT !.from = c].kind = "AssignExecutor"
    <3>1. [op EXCEPT !.from = c]
          = [kind |-> "AssignExecutor", from |-> c, pid |-> CurrentProcess(c).pid, core |-> c,
             entry |-> None, node |-> NodeOf[c], frame |-> None]
      BY Logged
    <3>. QED
      BY <3>1, <2>2, NodeTypes, Zenon DEF Ops, AssignOps
  <2>. HIDE DEF op
  <2>4. Quiet(c)
    BY <2>1, QuietCores, Zenon
  <2>. QED
    BY <2>1, <2>3, <2>4, SubmitStep, Zenon
<1>15. ASSUME NEW c \in Cores, Start(c) \/ Collect(c)
       PROVE  IInv'
  <2>1. /\ pc[c] \in Calm /\ UNCHANGED nr /\ wait' = wait /\ resp' = resp /\ grants' = grants
        /\ \E p \in {"user", "panic", "collecting"} : pc' = [pc EXCEPT ![c] = p]
    BY <1>15, Zenon DEF Start, Collect
  <2>2. wait[c] = None /\ wait' = [wait EXCEPT ![c] = None]
    BY <2>1, Zenon DEF IInv, CalmWaits, TypeOK
  <2>3. Quiet(c)
    BY <2>1, QuietCores, Zenon
  <2>4. DOMAIN resp' = Cores /\ \A d \in Cores \ {c} : resp'[d] = resp[d]
    BY <2>1, Zenon DEF IInv, TypeOK
  <2>5. Granted'
    BY <2>1, SameGrants, Zenon DEF IInv, nr
  <2>6. PICK p \in {"user", "panic", "collecting"} : pc' = [pc EXCEPT ![c] = p]
    BY <2>1, Zenon
  <2>7. p \notin DOMAIN Calls
    BY Zenon
  <2>. QED
    BY <2>1, <2>2, <2>3, <2>4, <2>5, <2>6, <2>7, QuietStep, Zenon
<1>16. CASE UNCHANGED vars
  <2>1. TypeOK' /\ CalmWaits' /\ Outstanding' /\ InCall'
    BY <1>16, Zenon DEF vars, IInv, TypeOK, CalmWaits, Outstanding, InCall
  <2>2. MapIsLog' /\ Told' /\ Granted'
    BY <1>16 DEF vars, IInv, MapIsLog, Told, Granted, Asks, First
  <2>. QED
    BY <2>1, <2>2, Zenon DEF IInv
<1>17. CASE Next
  BY <1>17, <1>1, <1>2, <1>3, <1>5, <1>6, <1>8, <1>9, <1>10, <1>12, <1>13, <1>14, <1>15, Zenon DEF Next, Step
<1>. QED
  BY <1>16, <1>17, Zenon

\* The invariant holds in every reachable state.
LEMMA IInvHolds == ASSUME ~MayFail PROVE Spec => []IInv
<1>1. IInv /\ [Next]_vars => IInv'
  BY StepIInv, Zenon
<1>. QED
  BY InitIInv, <1>1, PTL DEF Spec

\* A core is given away at most once, whichever nodes the requests come from,
\* as long as no replica runs out of memory when it records an owner
\* (SchedAllocateCore in nr.rs): the first request in the log wins at every
\* replica.
THEOREM CoresGrantedOnce == ASSUME ~MayFail PROVE Spec => []GrantedOnce
<1>1. IInv => GrantedOnce
  <2>. SUFFICES ASSUME IInv, NEW g \in grants, NEW h \in grants, g.core = h.core
       PROVE  g = h
    BY Zenon DEF GrantedOnce
  <2>1. /\ g \in [by : Cores, core : Cores, pos : Nat] /\ h \in [by : Cores, core : Cores, pos : Nat]
        /\ g.pos \in 1..Len(log["kernel"]) /\ h.pos \in 1..Len(log["kernel"])
        /\ log["kernel"][g.pos].from = g.by /\ log["kernel"][h.pos].from = h.by
        /\ Asks(g.pos, g.core) /\ First(g.pos) /\ Asks(h.pos, h.core) /\ First(h.pos)
    BY Zenon DEF IInv, Granted
  <2>2. ~(g.pos < h.pos) /\ ~(h.pos < g.pos)
    BY <2>1 DEF First, Asks
  <2>3. g.pos = h.pos
    BY <2>1, <2>2
  <2>. QED
    BY <2>1, <2>3
<1>. QED
  BY <1>1, IInvHolds, PTL
=============================================================================
