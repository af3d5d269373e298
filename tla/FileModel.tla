----------------------------- MODULE FileModel -----------------------------
(***************************************************************************)
(* ModelFIO, "the FS model that we strive to implement", next to the file   *)
(* system it specifies (usr/init/src/fs.rs:38-608 and model_equivalence,    *)
(* 766-884; lib/kpi/src/syscalls/io.rs; the conversion of errors in         *)
(* kernel/src/error.rs).  The model keeps a log of files created and of     *)
(* patterns written and answers reads from it.  One process makes system    *)
(* calls; each is made on the model and on the file system.                 *)
(***************************************************************************)
EXTENDS FileSystem

CONSTANTS Opens,       \* names, flags and modes of calls to open
          Paths,       \* names of calls to delete
          Lens,        \* lengths of reads and writes
          Offsets,     \* explicit offsets of reads and writes
          Patterns,    \* what is written
          FD_OFFSET,   \* the descriptor used for one that is not open
          MaxCalls     \* bound: system calls

ASSUME FileModelAssumption == FD_OFFSET \in Fds

VARIABLES model,    \* ModelFIO
          fs,       \* the kernel
          fd_map,   \* descriptors of the model to those of the kernel
          same,     \* whether the answers to the last call agreed
          calls

fileVars == <<model, fs, fd_map, same, calls>>

-----------------------------------------------------------------------------
(***************************************************************************)
(* The model.                                                               *)
(***************************************************************************)
Created(path, modes, mnode) ==
    [op |-> "Created", path |-> path, modes |-> modes, mnode |-> mnode]

Write(mnode, offset, pattern, len) ==
    [op |-> "Write", mnode |-> mnode, offset |-> offset, pattern |-> pattern, len |-> len]

NewModel ==
    [oplog |-> <<Created("/", {}, 1)>>, mnode_counter |-> 1, fds |-> [f \in Fds |-> None]]

\* path_to_idx: the last creation of path, or 0.
path_to_idx(m, path) ==
    Max({0} \cup {i \in DOMAIN m.oplog : m.oplog[i].op = "Created" /\ m.oplog[i].path = path})

file_exists(m, path) == path_to_idx(m, path) # 0

path_to_mnode(m, path) == m.oplog[path_to_idx(m, path)].mnode

CreationsOf(m, mnode) ==
    {i \in DOMAIN m.oplog : m.oplog[i].op = "Created" /\ m.oplog[i].mnode = mnode}

mnode_exists(m, mnode) == CreationsOf(m, mnode) # {}

\* Writes to mnode since it was last created.
WritesTo(m, mnode) ==
    {i \in DOMAIN m.oplog : /\ m.oplog[i].op = "Write" /\ m.oplog[i].mnode = mnode
                            /\ \A c \in CreationsOf(m, mnode) : c < i}

file_size(m, mnode) ==
    Max({0} \cup {m.oplog[i].offset + m.oplog[i].len : i \in WritesTo(m, mnode)})

remove_entries(m, mnode, kinds) ==
    [m EXCEPT !.oplog = SelectSeq(@, LAMBDA x : x.mnode # mnode \/ x.op \notin kinds)]

\* All creations of mnode allow it.
ModesAllow(m, mnode, mode) == \A i \in CreationsOf(m, mnode) : mode \in m.oplog[i].modes

\* FileDesc::allocate_fd
AllocateFd(m, mnode, flags, offset) ==
    LET free == {f \in Fds : m.fds[f] = None}
    IN  IF free = {} THEN Err(m, "InternalError")
        ELSE Ok([m EXCEPT !.fds[Min(free)] =
                   [mnode |-> mnode, flags |-> flags, offset |-> offset]], Min(free))

\* ModelFIO::open of a path that exists, and of one that does not.
open_existing(m, path, flags) ==
    LET mnode == path_to_mnode(m, path)
        writable == "write" \in m.oplog[path_to_idx(m, path)].modes
        start == IF "append" \in flags THEN file_size(m, mnode) ELSE 0
        truncates == "trunc" \in flags /\ "append" \notin flags
        emptied == IF truncates THEN remove_entries(m, mnode, {"Write"}) ELSE m
        r == AllocateFd(emptied, mnode, flags, start)
    IN  IF Failed(r) \/ (truncates /\ ~writable) THEN Err(m, "InternalError") ELSE r

open_new(m, path, flags, modes) ==
    LET mnode == m.mnode_counter + 1
    IN  IF "create" \notin flags THEN Err(m, "InternalError")
        ELSE AllocateFd([m EXCEPT !.mnode_counter = mnode,
                                  !.oplog = Append(@, Created(path, modes, mnode))],
                        mnode, flags, 0)

ModelOpen(m, path, flags, modes) ==
    IF {"append", "trunc"} \subseteq flags THEN Err(m, "InternalError")
    ELSE IF file_exists(m, path) THEN open_existing(m, path, flags)
    ELSE open_new(m, path, flags, modes)

\* ModelFIO::write_at: the write is only logged.
write_at(m, f, pattern, len, offset) ==
    LET fd == m.fds[f]
        start == IF offset # -1 THEN offset
                 ELSE IF "append" \in fd.flags THEN file_size(m, fd.mnode) ELSE fd.offset
        logged == [m EXCEPT !.oplog = Append(@, Write(fd.mnode, start, pattern, len))]
    IN  IF len = 0 THEN Err(m, "BadFileDescriptor")
        ELSE IF fd = None THEN Err(m, "InternalError")
        ELSE IF \/ "write" \notin fd.flags \/ ~mnode_exists(m, fd.mnode)
                \/ ~ModesAllow(m, fd.mnode, "write") THEN Err(m, "InternalError")
        ELSE Ok([logged EXCEPT !.fds[f].offset = IF offset = -1 THEN start + len ELSE @], len)

\* The pattern at position i of a file: the last write that covers it.
Gathered(m, mnode, i) ==
    LET cover == {w \in WritesTo(m, mnode) :
                     i >= m.oplog[w].offset /\ i < m.oplog[w].offset + m.oplog[w].len}
    IN  IF cover = {} THEN 0 ELSE m.oplog[Max(cover)].pattern

\* ModelFIO::read_at
read_at(m, f, len, offset) ==
    LET fd == m.fds[f]
        start == IF offset # -1 THEN offset ELSE fd.offset
        expected == Min({file_size(m, fd.mnode) - start, len})
    IN  IF len = 0 THEN Err(m, "BadFileDescriptor")
        ELSE IF fd = None THEN Err(m, "InternalError")
        ELSE IF \/ "read" \notin fd.flags \/ ~mnode_exists(m, fd.mnode)
                \/ ~ModesAllow(m, fd.mnode, "read") THEN Err(m, "InternalError")
        ELSE IF start >= file_size(m, fd.mnode) THEN Ok(m, <<>>)
        ELSE Ok([m EXCEPT !.fds[f].offset = IF offset = -1 THEN start + expected ELSE @],
                [i \in 1..expected |-> Gathered(m, fd.mnode, start + i - 1)])

ModelDelete(m, path) ==
    IF file_exists(m, path)
    THEN Ok(remove_entries(m, path_to_mnode(m, path), {"Created", "Write"}), 0)
    ELSE Err(m, "InternalError")

\* FileDesc::deallocate_fd
ModelClose(m, f) ==
    IF m.fds[f] = None THEN Err(m, "InternalError") ELSE Ok([m EXCEPT !.fds[f] = None], 0)

-----------------------------------------------------------------------------
(***************************************************************************)
(* The file system behind the system calls.                                 *)
(***************************************************************************)

\* KError to SystemCallError: most errors become one.
SystemCallError(e) ==
    IF e = "BadAddress" THEN "BadAddress"
    ELSE IF e \in {"InvalidSyscallArgument1", "InvalidVSpaceOperation", "InvalidProcessOperation"}
    THEN "NotSupported" ELSE "InternalError"

\* syscall_handle: what the kernel answers, as user space sees it.
AsUser(r) == IF r.resp[1] = "error" THEN Err(r.state, SystemCallError(r.resp[2])) ELSE r

\* MlnrKernelNode::file_io and Fs::fileio, fileio_at: the descriptor is looked
\* up before the operation; reads of nothing do not reach the kernel.
FsWrite(s, f, pattern, len, offset) ==
    IF len = 0 THEN Err(s, "BadFileDescriptor")
    ELSE IF Descriptor(s, f) = None THEN AsUser(Err(s, "InvalidFileDescriptor"))
    ELSE AsUser(dispatch_mut(s, [kind |-> "FileWrite", pid |-> Pid, fd |-> f, offset |-> offset,
                                 slice |-> [i \in 1..len |-> pattern]], FALSE, {}, FALSE))

FsRead(s, f, len, offset) ==
    IF len = 0 THEN Err(s, "BadFileDescriptor")
    ELSE IF Descriptor(s, f) = None THEN AsUser(Err(s, "InvalidFileDescriptor"))
    ELSE AsUser(FileRead(s, [fd |-> f, offset |-> offset, len |-> len], FALSE))

FsOpen(s, path, flags, modes) ==
    AsUser(dispatch_mut(s, [kind |-> "FileOpen", pid |-> Pid, name |-> path, flags |-> flags,
                            modes |-> modes], FALSE, {}, FALSE))

FsDelete(s, path) ==
    AsUser(dispatch_mut(s, [kind |-> "FileDelete", pid |-> Pid, name |-> path],
                        FALSE, {}, FALSE))

\* Fs::close returns the error code, 0.
FsClose(s, f) ==
    LET r == AsUser(dispatch_mut(s, [kind |-> "FileClose", pid |-> Pid, fd |-> f],
                                 FALSE, {}, FALSE))
    IN  IF Failed(r) THEN r ELSE Ok(r.state, 0)

-----------------------------------------------------------------------------
FileInit ==
    /\ model = NewModel
    /\ fs = dispatch_mut(EmptyFS, [kind |-> "ProcessAdd", pid |-> Pid], FALSE, {}, FALSE).state
    /\ fd_map = <<>>
    /\ same = TRUE
    /\ calls = 0

\* The descriptor of the kernel for one of the model.
ToTest(f) == IF f \in DOMAIN fd_map THEN fd_map[f] ELSE FD_OFFSET

\* A call is made on both.
Both(rmodel, rtotest, agree) ==
    /\ calls < MaxCalls
    /\ calls' = calls + 1
    /\ model' = rmodel.state
    /\ fs' = rtotest.state
    /\ same' = agree

Equal(rmodel, rtotest) == Both(rmodel, rtotest, rmodel.resp = rtotest.resp)

\* The descriptors the test passes: those in use, and one that is not.
Used == DOMAIN fd_map \cup {Min(Fds \ DOMAIN fd_map)}

ReadBoth(len, offset) ==
    \E f \in Used :
        /\ Equal(read_at(model, f, len, offset), FsRead(fs, ToTest(f), len, offset))
        /\ UNCHANGED fd_map

WriteBoth(len, offset) ==
    \E f \in Used, pattern \in Patterns :
        /\ Equal(write_at(model, f, pattern, len, offset),
                 FsWrite(fs, ToTest(f), pattern, len, offset))
        /\ UNCHANGED fd_map

TestRead == \E len \in Lens : ReadBoth(len, -1)

TestWrite == \E len \in Lens : WriteBoth(len, -1)

TestReadAt == \E len \in Lens, offset \in Offsets : ReadBoth(len, offset)

TestWriteAt == \E len \in Lens, offset \in Offsets : WriteBoth(len, offset)

\* Of open only success is compared.  The descriptors do not run out.
TestOpen ==
    \E o \in Opens :
        LET rmodel == ModelOpen(model, o[1], o[2], o[3])
            rtotest == FsOpen(fs, o[1], o[2], o[3])
        IN  /\ Cardinality(DOMAIN fd_map) < FD_OFFSET
            /\ Both(rmodel, rtotest, Failed(rmodel) <=> Failed(rtotest))
            /\ fd_map' = IF Failed(rmodel) THEN fd_map
                         ELSE (rmodel.resp[2] :> rtotest.resp[2]) @@ fd_map

TestDelete ==
    \E path \in Paths :
        /\ Equal(ModelDelete(model, path), FsDelete(fs, path))
        /\ UNCHANGED fd_map

TestClose ==
    \E f \in Used :
        /\ Equal(ModelClose(model, f), FsClose(fs, ToTest(f)))
        /\ fd_map' = IF Failed(ModelClose(model, f)) THEN fd_map ELSE Removed(fd_map, {f})

FileNext ==
    \/ TestRead \/ TestWrite \/ TestReadAt \/ TestWriteAt
    \/ TestOpen \/ TestDelete \/ TestClose

FileSpec == FileInit /\ [][FileNext]_fileVars

-----------------------------------------------------------------------------
\* "Verify that our FS implementation behaves according to the
\* ModelFileSystem" (usr/init/src/fs.rs:765): no sequence of calls makes the
\* kernel give another answer, or other bytes, than the model.
FileEquivalence == same

\* The buffers of a file hold, byte by byte, what the writes in the log of the
\* model put there since it was created or truncated, and nothing else exists
\* (fs/file.rs:83-239 against usr/init/src/fs.rs:235-277, 508-545).
FilesHoldWhatWasWritten ==
    /\ DOMAIN fs.files = {model.oplog[i].path : i \in {j \in DOMAIN model.oplog :
                                                        model.oplog[j].op = "Created"}}
    /\ \A path \in DOMAIN fs.files :
          LET mnode == path_to_mnode(model, path)
          IN  Bytes(fs.mnodes[fs.files[path]].data)
                = [i \in 1..file_size(model, mnode) |-> Gathered(model, mnode, i - 1)]
=============================================================================
