------------------------ MODULE KernelExecutorProofs ------------------------
(***************************************************************************)
(* Executors.  The replicas of the process go through the same states,      *)
(* those of a history with one state for every prefix of the log.           *)
(***************************************************************************)
EXTENDS KernelNodeProofs

Active(s, c, eid) == \E i \in 1..Len(s.active_cores) : s.active_cores[i] = <<c, eid>>

\* The states of the history follow from the log.
Replays(h) ==
    /\ h \in [0..Len(log["process"]) -> ProcessStates]
    /\ \A k \in 0..Len(log["process"]) : Clean(h[k])
    /\ \A j, k \in 0..Len(log["process"]) : j <= k => Extends(h[j], h[k])
    /\ \A k \in 1..Len(log["process"]) : \A n \in Nodes :
          \A out \in Dispatch(h[k - 1], log["process"][k], n) : out.state = h[k]

\* Each replica is in the state of its prefix, and the executors that cores
\* were given are those of the history.
History(h) ==
    /\ Replays(h)
    /\ \A n \in Nodes : replica["process"][n] = h[done["process"][n]]
    /\ \A c \in Cores :
          pc[c] = "assign" /\ done["process"][NodeOf[c]] >= wait[c].pos /\ resp[c].ok =>
              Active(h[wait[c].pos], c, resp[c].value.eid)
    /\ \A c \in Cores : exec[c] # None => Active(h[done["process"][NodeOf[c]]], c, exec[c].eid)
    /\ DOMAIN exec = Cores

HInv == IInv /\ \E h : History(h)
\* At first the history has one state, that of the new process.
LEMMA InitHInv == Init => HInv
<1>. SUFFICES ASSUME Init
     PROVE  \E h : History(h)
  BY InitIInv, Zenon DEF HInv
<1>. DEFINE s == [loaded |-> FALSE, current_eid |-> 0,
                  executor_cache |-> [m \in Nodes |-> <<>>], active_cores |-> <<>>]
            h == [k \in {0} |-> s]
<1>1. /\ log["process"] = <<>> /\ Len(log["process"]) = 0 /\ 0..0 = {0} /\ 1..0 = {}
      /\ \A n \in Nodes : done["process"][n] = 0 /\ replica["process"][n] = s
      /\ \A c \in Cores : pc[c] \in {"spawn", "schedule"}
      /\ exec = [c \in Cores |-> None]
  BY DEF Init, Objects
<1>2. s \in ProcessStates
  <2>1. [m \in Nodes |-> <<>>] \in [Nodes -> Seq(Executors)]
    OBVIOUS
  <2>. QED
    BY <2>1 DEF ProcessStates
<1>3. Clean(s) /\ Extends(s, s)
  BY DEF Clean, Extends
<1>. HIDE DEF s
<1>4. h[0] = s /\ h \in [{0} -> ProcessStates]
  BY <1>2, Zenon
<1>. HIDE DEF h
<1>5. Replays(h)
  BY <1>1, <1>3, <1>4, Zenon DEF Replays
<1>6. History(h)
  BY <1>1, <1>4, <1>5, Zenon DEF History
<1>. QED
  BY <1>6, Zenon

\* Steps that leave the process alone keep the history.
LEMMA HistorySame ==
  ASSUME NEW h, History(h), log'["process"] = log["process"],
         done'["process"] = done["process"], replica'["process"] = replica["process"],
         exec' = exec,
         \A d \in Cores : pc'[d] = "assign" =>
             pc[d] = "assign" /\ wait'[d] = wait[d] /\ resp'[d] = resp[d]
  PROVE  History(h)'
<1>1. Replays(h)'
  BY Zenon DEF History, Replays
<1>2. \A n \in Nodes : replica'["process"][n] = h[done'["process"][n]]
  BY Zenon DEF History
<1>3. \A c \in Cores :
         pc'[c] = "assign" /\ done'["process"][NodeOf[c]] >= wait'[c].pos /\ resp'[c].ok =>
             Active(h[wait'[c].pos], c, resp'[c].value.eid)
  BY Zenon DEF History
<1>4. \A c \in Cores : exec'[c] # None => Active(h[done'["process"][NodeOf[c]]], c, exec'[c].eid)
  BY Zenon DEF History
<1>5. DOMAIN exec' = Cores
  BY Zenon DEF History
<1>. QED
  BY <1>1, <1>2, <1>3, <1>4, <1>5, Zenon DEF History, Active

\* A new operation adds a state to the history.
LEMMA HistoryGrows ==
  ASSUME ~MayFail, IInv, NEW h, History(h), NEW c \in Cores, NEW op, NEW p,
         [op EXCEPT !.from = c] \in Ops("process"), Submit(c, "process", op),
         pc' = [pc EXCEPT ![c] = p], exec' = exec
  PROVE  \E g : History(g)'
<1>. DEFINE e == [op EXCEPT !.from = c]
            L == Len(log["process"])
<1>0. /\ e \in Ops("process") /\ log' = [log EXCEPT !["process"] = Append(@, e)]
      /\ wait' = [wait EXCEPT ![c] = [obj |-> "process", pos |-> L + 1]]
      /\ resp' = [resp EXCEPT ![c] = None] /\ done' = done /\ replica' = replica
  BY Zenon DEF Submit
<1>. HIDE DEF e
<1>1. TypeOK /\ log["process"] \in Seq(Ops("process")) /\ L \in Nat /\ DOMAIN log = Objects
  BY LogTypes, Zenon DEF IInv, TypeOK, Objects
<1>2. /\ Len(log'["process"]) = L + 1 /\ log'["process"][L + 1] = e
      /\ \A k \in 1..L : log'["process"][k] = log["process"][k]
  BY <1>0, <1>1, AppendProperties DEF Objects
<1>3. PICK x : \A n : Dispatch(h[L], e, n) = {x}
  BY <1>0, OneOutcome, Zenon
<1>. HIDE DEF L
<1>4. h[L] \in ProcessStates /\ Clean(h[L]) /\ \A k \in 0..L : Extends(h[k], h[L])
  BY <1>1 DEF History, Replays, L
<1>5. x.state \in ProcessStates /\ Clean(x.state) /\ Extends(h[L], x.state)
  BY <1>0, <1>3, <1>4, ProcessStep, Zenon
<1>18. PICK g : g = [k \in 0..(L + 1) |-> IF k = L + 1 THEN x.state ELSE h[k]]
  BY Zenon
<1>6. /\ g[L + 1] = x.state /\ \A k \in 0..L : g[k] = h[k] /\ h[k] \in ProcessStates
      /\ \A k \in 0..(L + 1) : k \in 0..L \/ k = L + 1
  BY <1>18, <1>1 DEF History, Replays, L
<1>7. g \in [0..(L + 1) -> ProcessStates]
  BY <1>5, <1>6, <1>18, Zenon
<1>8. \A k \in 0..(L + 1) : Clean(g[k])
  BY <1>5, <1>6, Zenon DEF History, Replays, L
<1>9. ASSUME NEW j \in 0..(L + 1), NEW k \in 0..(L + 1), j <= k
      PROVE  Extends(g[j], g[k])
  <2>1. CASE k \in 0..L
    <3>1. j \in 0..L
      BY <1>1, <1>9, <2>1
    <3>. QED
      BY <2>1, <3>1, <1>6, <1>9, Zenon DEF History, Replays, L
  <2>2. CASE k = L + 1 /\ j \in 0..L
    <3>1. Extends(h[j], h[L]) /\ Extends(h[L], x.state) /\ h[j] \in ProcessStates
      BY <2>2, <1>4, <1>5, <1>6, Zenon
    <3>2. /\ Len(h[j].active_cores) \in Nat /\ Len(h[L].active_cores) \in Nat
          /\ Len(x.state.active_cores) \in Nat
      BY <3>1, <1>4, <1>5, LenProperties, Zenon DEF ProcessStates
    <3>3. Extends(h[j], x.state)
      BY <3>1, <3>2 DEF Extends
    <3>. QED
      BY <2>2, <3>3, <1>6, Zenon
  <2>3. CASE k = L + 1 /\ j = L + 1
    <3>1. Len(x.state.active_cores) \in Nat
      BY <1>5, LenProperties, Zenon DEF ProcessStates
    <3>. QED
      BY <2>3, <3>1, <1>6 DEF Extends
  <2>. QED
    BY <2>1, <2>2, <2>3, <1>6, Zenon
<1>10. ASSUME NEW k \in 1..(L + 1), NEW n \in Nodes,
              NEW out \in Dispatch(g[k - 1], log'["process"][k], n)
       PROVE  out.state = g[k]
  <2>1. CASE k \in 1..L
    <3>1. g[k - 1] = h[k - 1] /\ g[k] = h[k] /\ log'["process"][k] = log["process"][k]
      <4>1. k - 1 \in 0..L /\ k \in 0..L
        BY <2>1, <1>1
      <4>. QED
        BY <4>1, <2>1, <1>2, <1>6, Zenon
    <3>2. out \in Dispatch(h[k - 1], log["process"][k], n)
      BY <3>1, Zenon
    <3>. QED
      BY <2>1, <3>1, <3>2, Zenon DEF History, Replays, L
  <2>2. CASE k = L + 1
    <3>1. g[k - 1] = h[L] /\ g[k] = x.state /\ log'["process"][k] = e
      BY <2>2, <1>1, <1>2, <1>6
    <3>2. out \in {x}
      BY <3>1, <1>3, Zenon
    <3>. QED
      BY <3>1, <3>2, Zenon
  <2>. QED
    BY <2>1, <2>2, <1>1
<1>11. Replays(g)'
  BY <1>2, <1>7, <1>8, <1>9, <1>10, Zenon DEF Replays
<1>12. \A n \in Nodes : done["process"][n] \in 0..L
  BY <1>1, LogTypes DEF Objects, L
<1>13. \A n \in Nodes : replica'["process"][n] = g[done'["process"][n]]
  BY <1>0, <1>6, <1>12, Zenon DEF History
<1>14. ASSUME NEW d \in Cores, pc'[d] = "assign", done["process"][NodeOf[d]] >= wait'[d].pos,
              resp'[d].ok
       PROVE  Active(g[wait'[d].pos], d, resp'[d].value.eid)
  <2>1. done["process"][NodeOf[d]] \in 0..L
    BY <1>12, NodeTypes, Zenon
  <2>2. CASE d = c
    <3>1. wait'[d].pos = L + 1
      BY <2>2, <1>0, <1>1, Zenon DEF TypeOK
    <3>. QED
      BY <2>1, <3>1, <1>14, <1>1
  <2>3. CASE d # c
    <3>1. wait'[d] = wait[d] /\ resp'[d] = resp[d] /\ pc'[d] = pc[d]
      BY <2>3, <1>0, <1>1, Zenon DEF TypeOK
    <3>2. wait[d].pos \in 0..L
      <4>1. wait[d] # None
        BY <3>1, <1>14, Zenon DEF IInv, InCall, Calls
      <4>2. wait[d].pos \in Nat
        BY <4>1, <1>1, Zenon DEF TypeOK, Waits
      <4>. QED
        BY <4>2, <3>1, <2>1, <1>14, <1>1
    <3>3. Active(h[wait[d].pos], d, resp[d].value.eid)
      BY <3>1, <1>14, Zenon DEF History
    <3>. QED
      BY <3>1, <3>2, <3>3, <1>6, Zenon
  <2>. QED
    BY <2>2, <2>3, Zenon
<1>15. \A d \in Cores : exec'[d] # None => Active(g[done'["process"][NodeOf[d]]], d, exec'[d].eid)
  BY <1>0, <1>6, <1>12, NodeTypes, Zenon DEF History
<1>16. DOMAIN exec' = Cores
  BY Zenon DEF History
<1>17. History(g)'
  BY <1>0, <1>11, <1>13, <1>14, <1>15, <1>16, Zenon DEF History, Active
<1>. QED
  BY <1>17, Zenon
\* What a core has been given stays in active_cores.
LEMMA StaysActive ==
  ASSUME NEW s, NEW t, Extends(s, t), NEW c, NEW eid, Active(s, c, eid),
         Len(s.active_cores) \in Nat, Len(t.active_cores) \in Nat
  PROVE  Active(t, c, eid)
<1>1. PICK i \in 1..Len(s.active_cores) : s.active_cores[i] = <<c, eid>>
  BY Zenon DEF Active
<1>2. i \in 1..Len(t.active_cores) /\ t.active_cores[i] = <<c, eid>>
  BY <1>1 DEF Extends
<1>. QED
  BY <1>2, Zenon DEF Active

\* The states of a history have sequences of cores.
LEMMA HistoryTypes ==
  ASSUME NEW h, Replays(h), NEW k \in 0..Len(log["process"])
  PROVE  h[k] \in ProcessStates /\ Len(h[k].active_cores) \in Nat /\ Clean(h[k])
<1>1. h[k] \in ProcessStates /\ Clean(h[k])
  BY Zenon DEF Replays
<1>. QED
  BY <1>1, LenProperties, Zenon DEF ProcessStates

\* A replica that executes an operation goes to the next state of the history.
LEMMA HistoryReplay ==
  ASSUME ~MayFail, IInv, NEW h, History(h), NEW c \in Cores, Replay(c)
  PROVE  History(h)'
<1>. DEFINE o == wait[c].obj
            n == NodeOf[c]
            k == done[o][n] + 1
            op == log[o][k]
<1>1. TypeOK /\ wait[c] # None /\ o \in Objects /\ n \in Nodes /\ wait[c].pos <= Len(log[o])
      /\ wait[c].pos \in Nat
  BY NodeTypes, Zenon DEF IInv, TypeOK, Waits, Replay
<1>2. Len(log[o]) \in Nat /\ done[o][n] \in Nat /\ k \in 1..Len(log[o])
      /\ op \in Ops(o) /\ op.from \in Cores
  <2>1. Len(log[o]) \in Nat /\ done[o][n] \in Nat
    BY <1>1, LogTypes, Zenon
  <2>2. done[o][n] < wait[c].pos
    <3>1. ~(done[o][n] >= wait[c].pos)
      BY <1>1, Zenon DEF Replay, CaughtUp
    <3>. QED
      BY <1>1, <2>1, <3>1
  <2>3. k \in 1..Len(log[o])
    BY <1>1, <2>1, <2>2
  <2>. QED
    BY <1>1, <2>1, <2>3, LogTypes, Zenon
<1>3. PICK out \in Dispatch(replica[o][n], op, n) :
         /\ replica' = [replica EXCEPT ![o][n] = out.state]
         /\ done' = [done EXCEPT ![o][n] = @ + 1]
         /\ resp' = IF NodeOf[op.from] = n THEN [resp EXCEPT ![op.from] = out.resp] ELSE resp
  BY Zenon DEF Replay
<1>4. log' = log /\ pc' = pc /\ wait' = wait /\ exec' = exec
  BY Zenon DEF Replay
<1>. HIDE DEF o, n, op
<1>5. /\ \A q \in Objects, m \in Nodes :
            /\ done'[q][m] = IF q = o /\ m = n THEN k ELSE done[q][m]
            /\ replica'[q][m] = IF q = o /\ m = n THEN out.state ELSE replica[q][m]
      /\ \A d \in Cores : resp'[d] = IF d = op.from /\ NodeOf[d] = n THEN out.resp ELSE resp[d]
  BY <1>1, <1>2, <1>3, Zenon DEF TypeOK
<1>6. ASSUME NEW d \in Cores, d = op.from, NodeOf[d] = n
      PROVE  wait[d] = [obj |-> o, pos |-> k]
  <2>1. k > done[o][n]
    BY <1>2
  <2>. QED
    BY <2>1, <1>6, <1>1, <1>2, Zenon DEF IInv, Outstanding, op
<1>7. \A d \in Cores : pc[d] = "assign" =>
         /\ wait[d] # None /\ wait[d].obj = "process" /\ wait[d].pos \in Nat
         /\ log["process"][wait[d].pos].from = d
         /\ log["process"][wait[d].pos].kind = "AssignExecutor"
  <2>. SUFFICES ASSUME NEW d \in Cores, pc[d] = "assign"
       PROVE  /\ wait[d] # None /\ wait[d].obj = "process" /\ wait[d].pos \in Nat
              /\ log["process"][wait[d].pos].from = d
              /\ log["process"][wait[d].pos].kind = "AssignExecutor"
    BY Zenon
  <2>1. /\ wait[d] # None /\ wait[d].obj = "process"
        /\ log["process"][wait[d].pos].from = d
        /\ log["process"][wait[d].pos].kind = "AssignExecutor"
    BY DEF IInv, InCall, Calls, ObjectOf
  <2>. QED
    BY <2>1, <1>1, Zenon DEF TypeOK, Waits
<1>. HIDE DEF k
<1>8. CASE o = "kernel"
  <2>1. done'["process"] = done["process"] /\ replica'["process"] = replica["process"]
    BY <1>8, <1>3, <1>1, Zenon DEF TypeOK, Objects
  <2>2. ASSUME NEW d \in Cores, pc[d] = "assign"
        PROVE  resp'[d] = resp[d]
    <3>1. wait[d].obj = "process"
      BY <1>7, <2>2, Zenon
    <3>2. ~(d = op.from /\ NodeOf[d] = n)
      BY <3>1, <1>6, <1>8
    <3>. QED
      BY <3>2, <1>5, Zenon
  <2>. QED
    BY <2>1, <2>2, <1>4, HistorySame, Zenon
<1>9. CASE o = "process"
  <2>. DEFINE s == h[k - 1]
  <2>0. Replays(h) /\ \A m \in Nodes : done["process"][m] \in 0..Len(log["process"])
    <3>1. ASSUME NEW m \in Nodes
          PROVE  done["process"][m] \in 0..Len(log["process"])
      <4>1. /\ done["process"][m] \in Nat /\ Len(log["process"]) \in Nat
            /\ done["process"][m] <= Len(log["process"])
        BY <1>1, LogTypes, Zenon DEF Objects
      <4>. QED
        BY <4>1
    <3>. QED
      BY <3>1, Zenon DEF History
  <2>1. /\ k \in 1..Len(log["process"]) /\ k - 1 = done["process"][n]
        /\ k \in 0..Len(log["process"]) /\ k - 1 \in 0..Len(log["process"])
    BY <1>2, <1>9, <2>0, <1>1 DEF k
  <2>2. replica["process"][n] = s /\ op = log["process"][k] /\ op \in Ops("process")
    BY <1>2, <1>9, <2>1, <1>1, Zenon DEF History, op
  <2>3. out.state = h[k]
    BY <1>9, <2>0, <2>1, <2>2, <1>1, Zenon DEF Replays
  <2>4. s \in ProcessStates /\ Clean(s)
    BY <2>0, <2>1, HistoryTypes, Zenon
  <2>5. op.kind = "AssignExecutor" /\ out.resp.ok => Active(h[k], op.core, out.resp.value.eid)
    <3>1. out \in Dispatch(s, op, n)
      BY <1>9, <2>2, Zenon
    <3>. HIDE DEF s
    <3>2. op.kind = "AssignExecutor" /\ out.resp.ok =>
             \E i \in 1..Len(out.state.active_cores) :
                 out.state.active_cores[i] = <<op.core, out.resp.value.eid>>
      BY <2>2, <2>4, <3>1, ProcessStep, Zenon
    <3>. QED
      BY <2>3, <3>2, Zenon DEF Active
  <2>6. op.kind = "AssignExecutor" => op.core = op.from
    BY <2>2, Zenon DEF Ops, LoadOps, FrameOps, AssignOps
  <2>7. \A m \in Nodes : replica'["process"][m] = h[done'["process"][m]]
    BY <1>5, <1>9, <2>3, Zenon DEF History, Objects
  <2>8. ASSUME NEW d \in Cores, pc[d] = "assign", done'["process"][NodeOf[d]] >= wait[d].pos,
               resp'[d].ok
        PROVE  Active(h[wait[d].pos], d, resp'[d].value.eid)
    <3>1. CASE d = op.from /\ NodeOf[d] = n
      <4>1. wait[d].pos = k /\ op.kind = "AssignExecutor" /\ resp'[d] = out.resp
        BY <3>1, <1>5, <1>6, <1>7, <2>2, <2>8
      <4>. QED
        BY <3>1, <4>1, <2>5, <2>6, <2>8, Zenon
    <3>2. CASE ~(d = op.from /\ NodeOf[d] = n)
      <4>1. resp'[d] = resp[d]
        BY <3>2, <1>5, Zenon
      <4>2. done["process"][NodeOf[d]] >= wait[d].pos
        <5>1. CASE NodeOf[d] = n
          <6>1. wait[d].pos # k
            BY <5>1, <3>2, <1>7, <2>2, <2>8, Zenon
          <6>2. done'["process"][n] = k /\ k - 1 = done["process"][n] /\ k \in Nat
            BY <1>5, <1>9, <1>1, <2>1, <1>2
          <6>3. wait[d].pos \in Nat
            BY <1>7, <2>8, Zenon
          <6>. QED
            BY <6>1, <6>2, <6>3, <5>1, <2>8
        <5>2. CASE NodeOf[d] # n
          BY <5>2, <2>8, <1>5, NodeTypes, Zenon DEF Objects
        <5>. QED
          BY <5>1, <5>2, Zenon
      <4>. QED
        BY <4>1, <4>2, <2>8, Zenon DEF History
    <3>. QED
      BY <3>1, <3>2, Zenon
  <2>9. ASSUME NEW d \in Cores, exec[d] # None
        PROVE  Active(h[done'["process"][NodeOf[d]]], d, exec[d].eid)
    <3>1. Active(h[done["process"][NodeOf[d]]], d, exec[d].eid)
      BY <2>9, Zenon DEF History
    <3>2. CASE NodeOf[d] = n
      <4>1. done["process"][NodeOf[d]] = k - 1 /\ done'["process"][NodeOf[d]] = k
        BY <3>2, <1>5, <1>9, <1>1, <2>1, Zenon
      <4>2. Extends(h[k - 1], h[k])
        <5>1. k - 1 <= k
          BY <2>1, <1>2
        <5>. QED
          BY <5>1, <2>0, <2>1, Zenon DEF Replays
      <4>3. Len(h[k - 1].active_cores) \in Nat /\ Len(h[k].active_cores) \in Nat
        BY <2>0, <2>1, HistoryTypes, Zenon
      <4>. QED
        BY <3>1, <4>1, <4>2, <4>3, StaysActive, Zenon
    <3>3. CASE NodeOf[d] # n
      BY <3>1, <3>3, <1>5, NodeTypes, Zenon DEF Objects
    <3>. QED
      BY <3>2, <3>3, Zenon
  <2>10. Replays(h)' /\ DOMAIN exec' = Cores
    BY <1>4, Zenon DEF History, Replays
  <2>. QED
    BY <1>4, <2>7, <2>8, <2>9, <2>10, Zenon DEF History, Active
<1>. QED
  BY <1>1, <1>8, <1>9, Zenon DEF Objects

\* A core starts to run the executor that it was told.
LEMMA HistoryAssigned ==
  ASSUME IInv, NEW h, History(h), NEW c \in Cores, Assigned(c)
  PROVE  History(h)'
<1>1. /\ pc[c] = "assign" /\ CaughtUp(c) /\ log' = log /\ done' = done /\ replica' = replica
      /\ pc' = [pc EXCEPT ![c] = IF resp[c].ok THEN "start" ELSE "panic"]
      /\ exec' = IF resp[c].ok THEN [exec EXCEPT ![c] = resp[c].value] ELSE exec
      /\ wait' = [wait EXCEPT ![c] = None] /\ resp' = [resp EXCEPT ![c] = None]
  BY Zenon DEF Assigned, Answered, Returned, nr
<1>2. /\ DOMAIN exec = Cores /\ DOMAIN exec' = Cores
      /\ \A d \in Cores : exec'[d] = IF d = c /\ resp[c].ok THEN resp[c].value ELSE exec[d]
      /\ \A d \in Cores \ {c} : pc'[d] = pc[d] /\ wait'[d] = wait[d] /\ resp'[d] = resp[d]
      /\ pc'[c] # "assign"
  BY <1>1, Zenon DEF History, IInv, TypeOK
<1>3. Replays(h) /\ Replays(h)'
  BY <1>1, Zenon DEF History, Replays
<1>4. ASSUME NEW d \in Cores, exec'[d] # None
      PROVE  Active(h[done["process"][NodeOf[d]]], d, exec'[d].eid)
  <2>1. CASE d = c /\ resp[c].ok
    <3>1. wait[c] # None /\ wait[c].obj = "process" /\ wait[c].pos \in Nat
      BY <1>1 DEF IInv, InCall, Calls, ObjectOf, TypeOK, Waits
    <3>2. done["process"][NodeOf[c]] >= wait[c].pos
      BY <1>1, <3>1, Zenon DEF CaughtUp
    <3>3. Active(h[wait[c].pos], c, resp[c].value.eid)
      BY <1>1, <2>1, <3>2, Zenon DEF History
    <3>4. /\ wait[c].pos \in 0..Len(log["process"]) /\ wait[c].pos <= done["process"][NodeOf[c]]
          /\ done["process"][NodeOf[c]] \in 0..Len(log["process"])
      <4>1. /\ done["process"][NodeOf[c]] \in Nat /\ Len(log["process"]) \in Nat
            /\ done["process"][NodeOf[c]] <= Len(log["process"])
        BY LogTypes, NodeTypes, Zenon DEF IInv, Objects
      <4>. QED
        BY <3>1, <3>2, <4>1
    <3>5. Extends(h[wait[c].pos], h[done["process"][NodeOf[c]]])
      BY <1>3, <3>4, Zenon DEF Replays
    <3>6. /\ Len(h[wait[c].pos].active_cores) \in Nat
          /\ Len(h[done["process"][NodeOf[c]]].active_cores) \in Nat
      BY <1>3, <3>4, HistoryTypes, Zenon
    <3>7. Active(h[done["process"][NodeOf[c]]], c, resp[c].value.eid)
      BY <3>3, <3>5, <3>6, StaysActive, Zenon
    <3>. QED
      BY <2>1, <3>7, <1>2, Zenon
  <2>2. CASE ~(d = c /\ resp[c].ok)
    BY <2>2, <1>2, <1>4, Zenon DEF History
  <2>. QED
    BY <2>1, <2>2, Zenon
<1>5. \A d \in Cores :
         pc'[d] = "assign" /\ done["process"][NodeOf[d]] >= wait'[d].pos /\ resp'[d].ok =>
             Active(h[wait'[d].pos], d, resp'[d].value.eid)
  BY <1>2, Zenon DEF History
<1>6. \A n \in Nodes : replica["process"][n] = h[done["process"][n]]
  BY Zenon DEF History
<1>. QED
  BY <1>1, <1>2, <1>3, <1>4, <1>5, <1>6, Zenon DEF History, Active
\* Every step keeps the history.
LEMMA StepHInv == ~MayFail /\ HInv /\ [Next]_vars => HInv'
<1>. SUFFICES ASSUME ~MayFail, HInv, [Next]_vars
     PROVE  \E g : History(g)'
  BY StepIInv, Zenon DEF HInv
<1>0. IInv /\ TypeOK
  BY Zenon DEF HInv, IInv
<1>1. PICK h : History(h)
  BY Zenon DEF HInv
<1>2. ASSUME NEW c \in Cores, NEW p, p # "assign", pc' = [pc EXCEPT ![c] = p], exec' = exec,
             log'["process"] = log["process"], done' = done, replica' = replica,
             \A d \in Cores \ {c} : wait'[d] = wait[d] /\ resp'[d] = resp[d]
      PROVE  History(h)'
  <2>1. \A d \in Cores : pc'[d] = "assign" =>
           pc[d] = "assign" /\ wait'[d] = wait[d] /\ resp'[d] = resp[d]
    BY <1>0, <1>2, Zenon DEF TypeOK
  <2>. QED
    BY <1>1, <1>2, <2>1, HistorySame, Zenon
<1>3. ASSUME NEW c \in Cores, NEW p, p # "assign", pc' = [pc EXCEPT ![c] = p], exec' = exec,
             \/ Returned(c)
             \/ UNCHANGED <<nr, resp>> /\ (wait' = wait \/ \E o : Catch(c, o))
             \/ \E op : Submit(c, "kernel", op)
      PROVE  History(h)'
  <2>1. /\ log'["process"] = log["process"] /\ done' = done /\ replica' = replica
    BY <1>0, <1>3, Zenon DEF Returned, Submit, nr, TypeOK, Objects
  <2>2. \A d \in Cores \ {c} : wait'[d] = wait[d] /\ resp'[d] = resp[d]
    BY <1>0, <1>3, Zenon DEF Returned, Submit, Catch, TypeOK
  <2>. QED
    BY <1>2, <1>3, <2>1, <2>2, Zenon
<1>4. ASSUME NEW c \in Cores, NEW p, pc' = [pc EXCEPT ![c] = p], exec' = exec,
             NEW op, Submit(c, "process", op), [op EXCEPT !.from = c] \in Ops("process")
      PROVE  \E g : History(g)'
  BY <1>0, <1>1, <1>4, HistoryGrows, Zenon
<1>5. ASSUME NEW c \in Cores,
             \/ Spawn(c) \/ Loaded(c) \/ Dispatched(c) \/ TakeOwnCore(c) \/ Requested(c)
             \/ Lookup(c) \/ Advanced(c) \/ Start(c) \/ Timer(c) \/ SyncedKernel(c)
             \/ SyncedProcess(c) \/ Collect(c)
             \/ \E d \in Cores, e \in Entries : RequestCore(c, d, e)
      PROVE  History(h)'
  BY <1>3, <1>5, Zenon DEF Spawn, Loaded, Dispatched, TakeOwnCore, Requested, Lookup, Advanced, Start,
       Timer, SyncedKernel, SyncedProcess, Collect, RequestCore, Answered
<1>6. ASSUME NEW c \in Cores, NoProcess(c)
      PROVE  History(h)'
  BY <1>3, <1>6, Zenon DEF NoProcess, Answered
<1>7. ASSUME NEW c \in Cores, PidAllocated(c)
      PROVE  \E g : History(g)'
  <2>1. CASE resp[c].ok
    <3>. DEFINE op == Operation("Load", resp[c].value, None, None, None, None)
    <3>1. /\ Submit(c, "process", op) /\ pc' = [pc EXCEPT ![c] = "load"] /\ exec' = exec
          /\ pc[c] = "pid" /\ CaughtUp(c)
      BY <1>7, <2>1, Zenon DEF PidAllocated, Answered
    <3>2. resp[c].value \in Nat
      <4>1. wait[c] # None /\ wait[c].obj = "kernel"
        BY <1>0, <3>1, Zenon DEF IInv, InCall, Calls, ObjectOf
      <4>. QED
        BY <1>0, <2>1, <3>1, <4>1, Zenon DEF CaughtUp, IInv, Told
    <3>3. [op EXCEPT !.from = c]
          = [kind |-> "Load", from |-> c, pid |-> resp[c].value, core |-> None,
             entry |-> None, node |-> None, frame |-> None]
      BY Logged
    <3>4. [op EXCEPT !.from = c] \in Ops("process")
      BY <3>2, <3>3, Zenon DEF Ops, LoadOps
    <3>. HIDE DEF op
    <3>. QED
      BY <1>4, <3>1, <3>4, Zenon
  <2>2. CASE ~resp[c].ok
    BY <1>3, <1>7, <2>2, Zenon DEF PidAllocated, Answered
  <2>. QED
    BY <2>1, <2>2, Zenon
<1>8. ASSUME NEW c \in Cores, AllocateDispatchers(c)
      PROVE  \E g : History(g)'
  <2>. DEFINE n == Min({m \in Nodes : todo[m] > 0})
              op == Operation("DispatcherAllocation", Pid, None, None, n, Len(log["process"]))
  <2>1. n \in Nodes
    <3>1. {m \in Nodes : todo[m] > 0} \in SUBSET Nat
      BY NodeTypes, Zenon
    <3>2. {m \in Nodes : todo[m] > 0} # {}
      BY <1>8, Zenon DEF AllocateDispatchers
    <3>. QED
      BY <3>1, <3>2, MinIn, Zenon
  <2>2. Submit(c, "process", op) /\ pc' = [pc EXCEPT ![c] = "dispatched"] /\ exec' = exec
    BY <1>8, Zenon DEF AllocateDispatchers
  <2>. HIDE DEF n
  <2>3. [op EXCEPT !.from = c]
        = [kind |-> "DispatcherAllocation", from |-> c, pid |-> Pid, core |-> None,
           entry |-> None, node |-> n, frame |-> Len(log["process"])]
    BY Logged
  <2>4. Len(log["process"]) \in Nat
    BY <1>0, LogTypes, Zenon DEF Objects
  <2>5. [op EXCEPT !.from = c] \in Ops("process")
    BY <2>1, <2>3, <2>4 DEF Ops, FrameOps, Pid
  <2>. HIDE DEF op
  <2>. QED
    BY <1>4, <2>2, <2>5, Zenon
<1>9. ASSUME NEW c \in Cores, AllocateExecutor(c)
      PROVE  \E g : History(g)'
  <2>. DEFINE op == Operation("AssignExecutor", CurrentProcess(c).pid, c, None, NodeOf[c], None)
  <2>1. /\ Submit(c, "process", op) /\ pc' = [pc EXCEPT ![c] = "assign"] /\ exec' = exec
        /\ CurrentProcess(c) # None
    BY <1>9, Zenon DEF AllocateExecutor, Answered
  <2>2. CurrentProcess(c).pid \in Nat
    <3>1. replica["kernel"][NodeOf[c]] \in KernelStates
      BY <1>0, NodeTypes, Zenon DEF TypeOK
    <3>2. CurrentProcess(c) \in Owners
      BY <2>1, <3>1, Zenon DEF KernelStates, CurrentProcess
    <3>. QED
      BY <3>2, Zenon DEF Owners
  <2>3. [op EXCEPT !.from = c]
        = [kind |-> "AssignExecutor", from |-> c, pid |-> CurrentProcess(c).pid, core |-> c,
           entry |-> None, node |-> NodeOf[c], frame |-> None]
    BY Logged
  <2>4. [op EXCEPT !.from = c] \in Ops("process")
    BY <2>2, <2>3, NodeTypes, Zenon DEF Ops, AssignOps
  <2>. HIDE DEF op
  <2>. QED
    BY <1>4, <2>1, <2>4, Zenon
<1>10. ASSUME NEW c \in Cores, Replay(c) \/ Assigned(c)
       PROVE  History(h)'
  BY <1>0, <1>1, <1>10, HistoryReplay, HistoryAssigned, Zenon
<1>11. CASE UNCHANGED vars
  BY <1>1, <1>11, HistorySame, Zenon DEF vars
<1>12. CASE Next
  BY <1>12, <1>5, <1>6, <1>7, <1>8, <1>9, <1>10, Zenon DEF Next, Step
<1>. QED
  BY <1>11, <1>12, Zenon

\* No two cores run the same executor, and every core that runs one is in the
\* active_cores of its replica, where an unmap looks for it (AssignExecutor
\* and DispatcherAllocation in nrproc.rs), as long as no replica runs out of
\* memory.
THEOREM ExecutorsStayDistinct == ASSUME ~MayFail PROVE Spec => []ExecutorsDistinct
<1>1. HInv => ExecutorsDistinct
  <2>. SUFFICES ASSUME HInv, NEW c \in Cores, exec[c] # None
       PROVE  /\ \A d \in Cores \ {c} : exec[d] # None => exec[c].eid # exec[d].eid
              /\ \E k \in DOMAIN replica["process"][NodeOf[c]].active_cores :
                    replica["process"][NodeOf[c]].active_cores[k] = <<c, exec[c].eid>>
    BY Zenon DEF ExecutorsDistinct
  <2>0. TypeOK
    BY Zenon DEF HInv, IInv
  <2>1. PICK h : History(h)
    BY Zenon DEF HInv
  <2>. DEFINE at(d) == done["process"][NodeOf[d]]
  <2>2. \A d \in Cores : at(d) \in Nat /\ at(d) \in 0..Len(log["process"])
    <3>. SUFFICES ASSUME NEW d \in Cores
         PROVE  at(d) \in Nat /\ at(d) \in 0..Len(log["process"])
      BY Zenon
    <3>1. at(d) \in Nat /\ Len(log["process"]) \in Nat /\ at(d) <= Len(log["process"])
      BY <2>0, LogTypes, NodeTypes, Zenon DEF Objects
    <3>. QED
      BY <3>1
  <2>3. \A d \in Cores : exec[d] # None => Active(h[at(d)], d, exec[d].eid)
    BY <2>1, Zenon DEF History
  <2>4. Replays(h) /\ replica["process"][NodeOf[c]] = h[at(c)]
    BY <2>1, NodeTypes, Zenon DEF History
  <2>. HIDE DEF at
  <2>5. \A d \in Cores : h[at(d)] \in ProcessStates /\ Len(h[at(d)].active_cores) \in Nat
                          /\ Clean(h[at(d)])
    BY <2>2, <2>4, HistoryTypes, Zenon
  <2>6. \A d, e \in Cores : at(d) <= at(e) => Extends(h[at(d)], h[at(e)])
    BY <2>2, <2>4, Zenon DEF Replays
  <2>7. ASSUME NEW d \in Cores, NEW e \in Cores, d # e, exec[d] # None, exec[e] # None,
               at(d) <= at(e), exec[d].eid = exec[e].eid
        PROVE  FALSE
    <3>1. Active(h[at(e)], d, exec[d].eid) /\ Active(h[at(e)], e, exec[e].eid)
      <4>1. Active(h[at(d)], d, exec[d].eid)
        BY <2>3, <2>7, Zenon
      <4>2. Extends(h[at(d)], h[at(e)])
        BY <2>6, <2>7, Zenon
      <4>3. Len(h[at(d)].active_cores) \in Nat /\ Len(h[at(e)].active_cores) \in Nat
        BY <2>5, Zenon
      <4>4. Active(h[at(e)], d, exec[d].eid)
        BY <4>1, <4>2, <4>3, StaysActive, Zenon
      <4>. QED
        BY <4>4, <2>3, <2>7, Zenon
    <3>2. PICK i \in 1..Len(h[at(e)].active_cores) : h[at(e)].active_cores[i] = <<d, exec[d].eid>>
      BY <3>1, Zenon DEF Active
    <3>3. PICK j \in 1..Len(h[at(e)].active_cores) : h[at(e)].active_cores[j] = <<e, exec[e].eid>>
      BY <3>1, Zenon DEF Active
    <3>4. h[at(e)].active_cores[i][2] = h[at(e)].active_cores[j][2]
      BY <3>2, <3>3, <2>7
    <3>5. i = j
      BY <3>4, <2>5, Zenon DEF Clean
    <3>6. h[at(e)].active_cores[i][1] = d /\ h[at(e)].active_cores[j][1] = e
      BY <3>2, <3>3
    <3>. QED
      BY <3>5, <3>6, <2>7, Zenon
  <2>8. \A d \in Cores \ {c} : exec[d] # None => exec[c].eid # exec[d].eid
    <3>. SUFFICES ASSUME NEW d \in Cores, d # c, exec[d] # None, exec[c].eid = exec[d].eid
         PROVE  FALSE
      BY Zenon
    <3>1. at(c) <= at(d) \/ at(d) <= at(c)
      BY <2>2
    <3>. QED
      BY <3>1, <2>7, Zenon
  <2>9. \E k \in DOMAIN h[at(c)].active_cores : h[at(c)].active_cores[k] = <<c, exec[c].eid>>
    <3>1. h[at(c)].active_cores \in Seq(Cores \X Nat)
      BY <2>5, Zenon DEF ProcessStates
    <3>2. DOMAIN h[at(c)].active_cores = 1..Len(h[at(c)].active_cores)
      BY <3>1, LenProperties, Zenon
    <3>. QED
      BY <3>2, <2>3, Zenon DEF Active
  <2>. QED
    BY <2>4, <2>8, <2>9, Zenon
<1>2. HInv /\ [Next]_vars => HInv'
  BY StepHInv, Zenon
<1>. QED
  BY <1>1, <1>2, InitHInv, PTL DEF Spec
=============================================================================
