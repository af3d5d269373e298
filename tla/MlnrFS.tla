------------------------------- MODULE MlnrFS -------------------------------
(***************************************************************************)
(* The file system (kernel/src/cnrfs.rs, fs/mod.rs, fs/fd.rs, fs/mnode.rs). *)
(* Every NUMA node has a replica, which maps names to memory nodes (mnodes) *)
(* and the descriptors of a process to mnodes.  There are several logs: a   *)
(* write goes to the log of its mnode, every other update to all logs (a    *)
(* scan).  A replica executes the logs independently of each other and      *)
(* meets scans at the same place in all of them.  Reads are executed on the *)
(* local replica, once it has what any replica had completed of their log   *)
(* when they began, next to whatever the replica is executing.              *)
(***************************************************************************)
EXTENDS FileSystem

CONSTANTS Threads,       \* cores that make system calls
          NodeOf,        \* NUMA node of each
          Boot,          \* the core that spawns the process
          NLogs,         \* number of logs
          Opens,         \* names, flags and modes the threads open
          Deletes,       \* names they delete
          Renames,       \* pairs of names they rename
          Dirs,          \* names they make directories of
          Infos,         \* names they ask about
          WriteOffsets,  \* offsets of writes; -1 for the one of the descriptor
          ReadOffsets,
          Lens,          \* lengths of reads and writes
          ByteOf,        \* what each thread writes
          MayFail,       \* nodes whose memory may run out (bound: once in all)
          Shared,        \* whether threads use descriptors of other threads
          MaxCalls       \* bound: system calls

Nodes == {NodeOf[t] : t \in Threads}

ASSUME MlnrFSAssumption ==
    /\ Boot \in Threads
    /\ NLogs \in Nat \ {0}
    /\ WriteOffsets \subseteq Int /\ ReadOffsets \subseteq Int
    /\ \A t \in Threads : ByteOf[t] \in Nat \ {0}

VARIABLES ops,      \* update operations, in the order they enter the logs
          done,     \* those each replica has executed
          completed,  \* those some replica has completed (ctail)
          halfway,  \* the rename a replica is in the middle of, or 0
          fs,       \* the state of each replica
          call,     \* the system call of each thread
          own,      \* descriptors each thread has opened
          calls,    \* system calls made so far
          panicked,
          oom,      \* whether an allocation has failed
          wrong     \* whether a call had an answer no single copy could give
                    \* while memory lasted

vars == <<ops, done, completed, halfway, fs, call, own, calls, panicked, oom, wrong>>

-----------------------------------------------------------------------------
(***************************************************************************)
(* Logs and replicas.                                                       *)
(***************************************************************************)
Logs == 0..(NLogs - 1)

\* The log of an mnode.
LogOf(mnode) == (mnode - MNODE_OFFSET) % NLogs

\* A slip: what is not a write goes to the first log only.
LogsOfFirst(op) == IF op.kind = "FileWrite" THEN {LogOf(op.mnode)} ELSE {0}

\* LogMapper for Modify.
LogsOf(op) == IF op.kind = "FileWrite" THEN {LogOf(op.mnode)} ELSE Logs

\* What is completed of log l.
Completed(l) == {i \in completed : l \in LogsOf(ops[i])}

\* A slip: a read does not wait for the log.
SyncedNever(n, upto) == TRUE

\* Replica n has executed what was completed when a read began.
Synced(n, upto) == upto \subseteq done[n]

\* Each log is executed in order.
Ready(n, i) ==
    /\ i \notin done[n] /\ halfway[n] = 0
    /\ \A j \in 1..(i - 1) : LogsOf(ops[j]) \cap LogsOf(ops[i]) # {} => j \in done[n]

\* mnodes a reader has a counted reference to.
Held(n) == {call[t].mnode : t \in {u \in Threads : NodeOf[u] = n
                                                   /\ call[u].pc \in {"named", "info"}}}

Idle == [pc |-> "idle"]

Init ==
    /\ ops = <<>>
    /\ done = [n \in Nodes |-> {}]
    /\ completed = {}
    /\ halfway = [n \in Nodes |-> 0]
    /\ fs = [n \in Nodes |-> EmptyFS]
    /\ call = [t \in Threads |-> Idle]
    /\ own = [t \in Threads |-> {}]
    /\ calls = 0
    /\ panicked = FALSE
    /\ oom = FALSE
    /\ wrong = FALSE

(***************************************************************************)
(* A single copy of the file system.                                        *)
(***************************************************************************)

\* The copy after the updates of S, in the order of the logs.
Copy(S) ==
    LET upto[i \in 0..Len(ops)] ==
          IF i = 0 THEN EmptyFS
          ELSE IF i \in S THEN dispatch_mut(upto[i - 1], ops[i], FALSE, {}, TRUE).state
          ELSE upto[i - 1]
    IN  upto[Len(ops)]

\* Sets of updates a reader may find: all of base, more of those that some
\* replica has executed, and none without its predecessors in its logs.
Cuts(base) ==
    {S \in {base \cup T : T \in SUBSET (UNION {done[n] : n \in Nodes} \ base)} :
        \A i \in S : \A j \in 1..i : LogsOf(ops[i]) \cap LogsOf(ops[j]) # {} => j \in S}

\* What copy s answers to a query.
AnswersOf(s, c) ==
    IF c.pc \notin {"fd", "read"}
    THEN {IF Exists(s, c.name) THEN file_info(s, s.files[c.name], TRUE).resp
          ELSE <<"error", "InvalidFile">>}
    ELSE IF s.process_map[Pid][c.fd] = None
    THEN {<<"error", "InvalidFileDescriptor">>, <<"error", "PermissionError">>}
    ELSE IF c.kind = "FileRead" THEN {FileRead(s, c, TRUE).resp} ELSE {}

Begin(t, c) ==
    /\ call[t].pc = "idle" /\ calls < MaxCalls /\ ~panicked
    /\ calls' = calls + 1
    /\ call' = [call EXCEPT ![t] = c]

\* An update enters its logs.
Submit(op) == ops' = Append(ops, op)

\* The calls that are one update: map_fd, unmap_fd and the like.
Update(t, op) ==
    /\ Begin(t, [pc |-> "update"])
    /\ Submit(op)
    /\ UNCHANGED <<done, completed, halfway, fs, own, panicked, oom, wrong>>

\* spawn has added the process.
Running == 1 \in completed

\* Descriptors a thread uses.
Mine(t) == IF Shared THEN Fds ELSE own[t]

add_process(t) ==
    /\ t = Boot /\ ops = <<>>
    /\ Update(t, [kind |-> "ProcessAdd", by |-> t, pid |-> Pid])

map_fd(t) ==
    /\ Running
    /\ \E o \in Opens :
         Update(t, [kind |-> "FileOpen", by |-> t, pid |-> Pid, name |-> o[1], flags |-> o[2],
                    modes |-> o[3]])

unmap_fd(t) ==
    /\ Running
    /\ \E f \in Mine(t) : Update(t, [kind |-> "FileClose", by |-> t, pid |-> Pid, fd |-> f])

file_delete(t) ==
    /\ Running
    /\ \E n \in Deletes : Update(t, [kind |-> "FileDelete", by |-> t, pid |-> Pid, name |-> n])

file_rename(t) ==
    /\ Running
    /\ \E r \in Renames :
         Update(t, [kind |-> "FileRename", by |-> t, pid |-> Pid, name |-> r[1], newname |-> r[2]])

mkdir(t) ==
    /\ Running
    /\ \E n \in Dirs : Update(t, [kind |-> "MkDir", by |-> t, pid |-> Pid, name |-> n,
                                       modes |-> {"read", "write"}])

\* A call that starts with a read of the local replica, on the first log.
Query(t, c) ==
    /\ Running
    /\ Begin(t, c @@ [base |-> completed, upto |-> Completed(0)])
    /\ UNCHANGED <<ops, done, completed, halfway, fs, own, panicked, oom, wrong>>

\* file_io looks the mnode of the descriptor up first.
file_io(t) ==
    \E f \in Mine(t), len \in Lens :
        \/ \E o \in WriteOffsets : Query(t, [pc |-> "fd", kind |-> "FileWrite", fd |-> f,
                                             offset |-> o, len |-> len])
        \/ \E o \in ReadOffsets : Query(t, [pc |-> "fd", kind |-> "FileRead", fd |-> f,
                                            offset |-> o, len |-> len])

\* file_info looks the mnode of the name up first.
file_info_call(t) == \E n \in Infos : Query(t, [pc |-> "name", name |-> n])

\* The query of t returns.
Return(t, resp) ==
    /\ call' = [call EXCEPT ![t] = Idle]
    /\ wrong' = \/ wrong
                \/ ~oom /\ \A S \in Cuts(call[t].base) : resp \notin AnswersOf(Copy(S), call[t])

\* Access::FdToMnode, on the first log; then a write enters the log of the
\* mnode, and a read goes on with it.
FdToMnode(t) ==
    LET c == call[t]
        fd == Descriptor(fs[NodeOf[t]], c.fd)
    IN  /\ c.pc = "fd" /\ Synced(NodeOf[t], c.upto) /\ ~panicked
        /\ IF fd = None
           THEN Return(t, <<"error", "InvalidFileDescriptor">>) /\ UNCHANGED ops
           ELSE IF c.kind = "FileWrite"
           THEN /\ Submit([kind |-> "FileWrite", by |-> t, pid |-> Pid, fd |-> c.fd,
                           mnode |-> fd.mnode, offset |-> c.offset,
                           slice |-> [i \in 1..c.len |-> ByteOf[t]]])
                /\ call' = [call EXCEPT ![t] = [pc |-> "update"]]
                /\ UNCHANGED wrong
           ELSE /\ call' = [call EXCEPT ![t] = [c EXCEPT !.pc = "read",
                              !.upto = Completed(LogOf(fd.mnode))] @@ [mnode |-> fd.mnode]]
                /\ UNCHANGED <<ops, wrong>>
        /\ UNCHANGED <<done, completed, halfway, fs, own, calls, panicked, oom>>

\* Access::FileRead; the offset of the descriptor changes on this replica.
Read(t) ==
    LET n == NodeOf[t]
        r == FileRead(fs[n], call[t], FALSE)
    IN  /\ call[t].pc = "read" /\ Synced(n, call[t].upto) /\ ~panicked
        /\ fs' = [fs EXCEPT ![n] = r.state]
        /\ Return(t, r.resp)
        /\ UNCHANGED <<ops, done, completed, halfway, own, calls, panicked, oom>>

\* Looking up a name counts a reference to the mnode for as long as it lasts,
\* first in Access::FileNameToMnode, then in Access::FileInfo.
Lookup(t, from, to) ==
    LET c == call[t]
        files == fs[NodeOf[t]].files
    IN  /\ c.pc = from /\ Synced(NodeOf[t], c.upto) /\ ~panicked
        /\ IF c.name \notin DOMAIN files THEN Return(t, <<"error", "InvalidFile">>)
           ELSE /\ call' = [call EXCEPT ![t] = [pc |-> to, mnode |-> files[c.name]] @@ c]
                /\ UNCHANGED wrong
        /\ UNCHANGED <<ops, done, completed, halfway, fs, own, calls, panicked, oom>>

FileNameToMnode(t) == Lookup(t, "name", "named")

Named(t) ==
    /\ call[t].pc = "named" /\ ~panicked
    /\ call' = [call EXCEPT ![t].pc = "lookup", ![t].upto = Completed(LogOf(call[t].mnode))]
    /\ UNCHANGED <<ops, done, completed, halfway, fs, own, calls, panicked, oom, wrong>>

LookupInfo(t) == Lookup(t, "lookup", "info")

Info(t) ==
    LET r == file_info(fs[NodeOf[t]], call[t].mnode, FALSE)
    IN  /\ call[t].pc = "info" /\ ~panicked
        /\ panicked' = (r.resp = <<"panic">>)
        /\ Return(t, r.resp)
        /\ UNCHANGED <<ops, done, completed, halfway, fs, own, calls, oom>>

(***************************************************************************)
(* Executing the logs.                                                      *)
(***************************************************************************)

\* Replica n executes operation i to its end; on its own replica the caller
\* has its answer, the one that operation i has on the copy.
Finish(n, i, r) ==
    LET t == ops[i].by
        opened == ops[i].kind = "FileOpen" /\ ~Failed(r)
        closed == ops[i].kind = "FileClose" /\ ~Failed(r)
    IN  /\ fs' = [fs EXCEPT ![n] = r.state]
        /\ done' = [done EXCEPT ![n] = @ \cup {i}]
        /\ panicked' = (r.resp = <<"panic">>)
        /\ oom' = (oom \/ r.resp = <<"error", "OutOfMemory">>)
        /\ IF NodeOf[t] # n THEN UNCHANGED <<call, wrong, own>>
           ELSE /\ call' = [call EXCEPT ![t] = [pc |-> "answered", op |-> i]]
                /\ wrong' = \/ wrong
                            \/ ~oom' /\ r.resp #
                                 dispatch_mut(Copy(1..(i - 1)), ops[i], FALSE, {}, TRUE).resp
                /\ own' = [own EXCEPT ![t] = IF opened THEN @ \cup {r.resp[2]}
                                             ELSE IF closed THEN @ \ {r.resp[2]} ELSE @]

Execute(n, i) ==
    /\ Ready(n, i) /\ ~Overwrites(fs[n], ops[i]) /\ ~panicked
    /\ \E r \in {dispatch_mut(fs[n], ops[i], fail, Held(n), FALSE) :
                 fail \in {FALSE, ~oom /\ n \in MayFail}} : Finish(n, i, r)
    /\ UNCHANGED <<ops, completed, halfway, calls>>

\* rename deletes newname, and unwraps the result ...
RenameDelete(n, i) ==
    LET r == delete(fs[n], ops[i].newname, Held(n))
    IN  /\ Ready(n, i) /\ Overwrites(fs[n], ops[i]) /\ ~panicked
        /\ fs' = [fs EXCEPT ![n] = r.state]
        /\ panicked' = Failed(r)
        /\ halfway' = [halfway EXCEPT ![n] = i]
        /\ UNCHANGED <<ops, done, completed, call, own, calls, oom, wrong>>

\* ... and then takes the lock again to move the entry.
RenameMove(n) ==
    /\ halfway[n] # 0 /\ ~panicked
    /\ Finish(n, halfway[n], Move(fs[n], ops[halfway[n]]))
    /\ halfway' = [halfway EXCEPT ![n] = 0]
    /\ UNCHANGED <<ops, completed, calls>>

\* What replica n has executed of each log.
Batches(n) == {{i \in done[n] : l \in LogsOf(ops[i])} : l \in Logs}

\* Replica n is at the end of a batch: what it has executed of a log counts as
\* completed, and callers of this replica return.
Complete(n, batch) ==
    LET callers == {t \in Threads : NodeOf[t] = n /\ call[t].pc = "answered" /\ call[t].op \in batch}
    IN  /\ halfway[n] = 0 /\ ~panicked
        /\ callers # {} \/ ~(batch \subseteq completed)
        /\ completed' = completed \cup batch
        /\ call' = [t \in Threads |-> IF t \in callers THEN Idle ELSE call[t]]
        /\ UNCHANGED <<ops, done, halfway, fs, own, calls, panicked, oom, wrong>>

Replica(n) ==
    \/ RenameMove(n)
    \/ \E i \in 1..Len(ops) : Execute(n, i) \/ RenameDelete(n, i)
    \/ \E batch \in Batches(n) : Complete(n, batch)

Step(t) ==
    \/ FdToMnode(t) \/ Read(t)
    \/ FileNameToMnode(t) \/ Named(t) \/ LookupInfo(t) \/ Info(t)

Next ==
    \/ \E t \in Threads :
          \/ add_process(t) \/ map_fd(t) \/ unmap_fd(t) \/ file_delete(t)
          \/ file_rename(t) \/ mkdir(t) \/ file_io(t) \/ file_info_call(t)
          \/ Step(t)
    \/ \E n \in Nodes : Replica(n)

Spec == Init /\ [][Next]_vars

-----------------------------------------------------------------------------
\* What a replica holds, with the buffers of each file put together.
Flat(s) == [s EXCEPT !.mnodes =
              [m \in DOMAIN s.mnodes |-> [s.mnodes[m] EXCEPT !.data = Bytes(@)]]]

\* A replica that has executed the logs holds the file system that a single
\* copy would hold after the same updates in the order they were submitted,
\* however it interleaved the logs and wherever the pages of a file end: the
\* logs are chosen such that operations on different logs commute
\* (cnrfs.rs:52-75).  No replica panics on the way, neither in file_info
\* (fs/mod.rs:242) nor where rename unwraps (fs/mod.rs:281).
SingleCopy ==
    /\ ~panicked
    /\ \A n \in Nodes : ~oom /\ done[n] = 1..Len(ops) => Flat(fs[n]) = Copy(done[n])

\* A query returns what a single copy would return after all updates that
\* were completed when it began, every one that had returned among them, and
\* some of those executed since, although it makes two reads that wait for
\* different logs; an update returns what it would after the ones before it
\* (cnrfs.rs:126-300).  Where the memory of a node runs out replicas differ.
NoStaleAnswer == ~wrong

\* A write that runs out of memory changes no byte of the file and adds no
\* more than zeros at its end (fs/file.rs:105-120, 203-208).
FailedWritePads ==
    [][oom' # oom =>
          \A n \in Nodes : \A m \in DOMAIN fs[n].mnodes :
                LET old == Bytes(fs[n].mnodes[m].data)
                    new == Bytes(fs'[n].mnodes[m].data)
                IN  new = old \o Zeros(Len(new) - Len(old))]_vars
=============================================================================
