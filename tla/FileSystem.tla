----------------------------- MODULE FileSystem -----------------------------
(***************************************************************************)
(* What one file system does, the state machine that is replicated          *)
(* (kernel/src/cnrfs.rs dispatch and dispatch_mut, fs/mod.rs, fs/fd.rs,     *)
(* fs/mnode.rs): names lead to memory nodes (mnodes), the descriptors of a  *)
(* process to mnodes with an offset.                                        *)
(***************************************************************************)
EXTENDS FileBuffers, FiniteSets, TLC

CONSTANTS Pid,           \* the process
          MaxFiles,      \* MAX_FILES_PER_PROCESS
          None

Fds == 0..(MaxFiles - 1)

\* MNODE_OFFSET; mnode 1 is the root directory.
MNODE_OFFSET == 2

ASSUME FileSystemAssumption == MaxFiles \in Nat \ {0}

(***************************************************************************)
(* The replicated state machine.  An operation gives a new state and an     *)
(* answer; held are the mnodes a reader of the replica has a reference to.  *)
(***************************************************************************)
Ok(s, v) == [state |-> s, resp |-> <<"ok", v>>]
Err(s, e) == [state |-> s, resp |-> <<"error", e>>]
Panic(s) == [state |-> s, resp |-> <<"panic">>]

Failed(r) == r.resp[1] # "ok"

Removed(f, S) == [x \in DOMAIN f \ S |-> f[x]]

EmptyFS ==
    [files       |-> ("/" :> 1),
     mnodes      |-> (1 :> [type |-> "Directory", modes |-> {"read", "write", "execute"},
                            data |-> <<>>]),
     nextmemnode |-> MNODE_OFFSET,
     process_map |-> <<>>]

Exists(s, name) == name \in DOMAIN s.files

\* MlnrFS::create and mkdir with MemNode::new: the number is taken before memory is.
NewNode(s, name, type, modes, fail) ==
    LET num == s.nextmemnode
        node == [type |-> type, modes |-> modes, data |-> <<>>]
        next == [s EXCEPT !.nextmemnode = @ + 1]
    IN  IF Exists(s, name) THEN Err(s, "AlreadyPresent")
        ELSE IF fail THEN Err(next, "OutOfMemory")
        ELSE Ok([next EXCEPT !.files = @ @@ (name :> num),
                             !.mnodes = @ @@ (num :> node)], num)

create(s, name, modes, fail) == NewNode(s, name, "File", modes, fail)

mkdir_node(s, name, modes, fail) == NewNode(s, name, "Directory", modes, fail)

\* MemNode: what lies under num may be read, or written.
May(s, num, mode) == s.mnodes[num].type = "File" /\ mode \in s.mnodes[num].modes

\* A slip: a file that may not be written is emptied all the same.
truncate_any(s, name) ==
    LET num == s.files[name]
    IN  IF num \notin DOMAIN s.mnodes THEN Err(s, "InvalidFile")
        ELSE Ok([s EXCEPT !.mnodes[num].data = <<>>], num)

truncate(s, name) ==
    LET num == s.files[name]
    IN  IF num \notin DOMAIN s.mnodes THEN Err(s, "InvalidFile")
        ELSE IF ~May(s, num, "write") THEN Err(s, "PermissionError")
        ELSE Ok([s EXCEPT !.mnodes[num].data = <<>>], num)

\* MlnrFS::delete: the reference count says whether somebody uses the name.
delete(s, name, held) ==
    IF ~Exists(s, name) THEN Err(s, "InvalidFile")
    ELSE IF s.files[name] \in held THEN Err(s, "PermissionError")
    ELSE Ok([s EXCEPT !.mnodes = Removed(@, {s.files[name]}),
                      !.files = Removed(@, {name})], 0)

ProcessAdd(s, op) ==
    IF op.pid \in DOMAIN s.process_map THEN Err(s, "FileDescForPidAlreadyAdded")
    ELSE Ok([s EXCEPT !.process_map = @ @@ (op.pid :> [f \in Fds |-> None])], op.pid)

\* FileDesc::allocate_fd takes the first that is free.
FreeFds(s, pid) == {f \in Fds : s.process_map[pid][f] = None}

\* Fd::init_fd and update_fd
NewFd(mnode, flags) == [mnode |-> mnode, flags |-> flags, offset |-> 0]

\* Modify::FileOpen
FileOpen(s, op, fail) ==
    LET known == Exists(s, op.name)
        free == FreeFds(s, op.pid)
        node == IF ~known THEN create(s, op.name, op.modes, fail)
                ELSE IF "trunc" \in op.flags THEN truncate(s, op.name)
                ELSE Ok(s, s.files[op.name])
    IN  IF ~known /\ "create" \notin op.flags THEN Err(s, "PermissionError")
        ELSE IF op.pid \notin DOMAIN s.process_map THEN Panic(s)
        ELSE IF free = {} THEN Err(s, "NotSupported")
        ELSE IF Failed(node) THEN node
        ELSE Ok([node.state EXCEPT !.process_map[op.pid][Min(free)] =
                   NewFd(node.resp[2], op.flags)], Min(free))

deallocate_fd(s, pid, fd) ==
    IF s.process_map[pid][fd] = None THEN Err(s, "InvalidFileDescriptor")
    ELSE Ok([s EXCEPT !.process_map[pid][fd] = None], fd)

FileClose(s, op) == deallocate_fd(s, op.pid, op.fd)

\* Where a file is one sequence of bytes, a write beyond the end pads with
\* zeros.
FlatWrite(data, slice, start) ==
    [i \in 1..Max({Len(data), start + Len(slice)}) |->
        IF i - start \in DOMAIN slice THEN slice[i - start]
        ELSE IF i <= Len(data) THEN data[i] ELSE 0]

Size(data, flat) == IF flat THEN Len(data) ELSE get_size(data)

\* MlnrFS::write and MemNode::write, at offset start.
WriteNode(s, num, slice, start, fail, flat) ==
    LET data == s.mnodes[num].data
        grows == start + Len(slice) - get_size(data)
        written(d) == [s EXCEPT !.mnodes[num].data = d]
    IN  IF num \notin DOMAIN s.mnodes THEN Err(s, "InvalidFile")
        ELSE IF ~May(s, num, "write") THEN Err(s, "PermissionError")
        ELSE IF flat THEN Ok(written(FlatWrite(data, slice, start)), Len(slice))
        ELSE IF fail /\ grows > 0 /\ Allocates(data, grows)
             THEN Err(written(increase_file_size_failed(data)), "OutOfMemory")
        ELSE Ok(written(write_file(data, slice, start)), Len(slice))

\* Modify::FileWrite.  The mnode comes from the descriptor, not from the
\* operation.
FileWrite(s, op, fail, flat) ==
    LET fd == s.process_map[op.pid][op.fd]
        atEnd == op.offset = -1 /\ "append" \in fd.flags
        start == IF op.offset # -1 THEN op.offset
                 ELSE IF atEnd THEN Size(s.mnodes[fd.mnode].data, flat) ELSE fd.offset
        r == WriteNode(s, fd.mnode, op.slice, start, fail, flat)
    IN  IF fd = None THEN Err(s, "PermissionError")
        ELSE IF "write" \notin fd.flags THEN Err(s, "PermissionError")
        ELSE IF atEnd /\ fd.mnode \notin DOMAIN s.mnodes THEN Panic(s)
        ELSE IF Failed(r) \/ op.offset # -1 THEN r
        ELSE Ok([r.state EXCEPT !.process_map[op.pid][op.fd].offset = start + r.resp[2]],
                r.resp[2])

\* The second half of MlnrFS::rename, after an existing newname was deleted.
Move(s, op) ==
    IF ~Exists(s, op.name) THEN Err(s, "InvalidFile")
    ELSE Ok([s EXCEPT !.files = Removed(@, {op.name}) @@ (op.newname :> s.files[op.name])], 0)

\* The first half deletes newname, and unwraps the result.
Overwrites(s, op) ==
    op.kind = "FileRename" /\ Exists(s, op.name) /\ Exists(s, op.newname)

FileRename(s, op) ==
    IF Overwrites(s, op) THEN Move(delete(s, op.newname, {}).state, op) ELSE Move(s, op)

\* Without the process, some operations panic and others return an error.
NoProcess(s, op) ==
    IF op.kind \in {"FileWrite", "FileClose"} THEN Panic(s) ELSE Err(s, "NoProcessFoundForPid")

dispatch_mut(s, op, fail, held, flat) ==
    IF op.kind \notin {"ProcessAdd", "FileOpen"} /\ op.pid \notin DOMAIN s.process_map
    THEN NoProcess(s, op)
    ELSE CASE op.kind = "ProcessAdd" -> ProcessAdd(s, op)
           [] op.kind = "FileOpen"   -> FileOpen(s, op, fail)
           [] op.kind = "FileWrite"  -> FileWrite(s, op, fail, flat)
           [] op.kind = "FileClose"  -> FileClose(s, op)
           [] op.kind = "FileDelete" -> delete(s, op.name, held)
           [] op.kind = "FileRename" -> FileRename(s, op)
           [] op.kind = "MkDir"      -> mkdir_node(s, op.name, op.modes, fail)

Descriptor(s, f) == IF Pid \in DOMAIN s.process_map THEN s.process_map[Pid][f] ELSE None

\* Access::FileRead, from an offset or from the one of the descriptor.
ReadStart(s, c) ==
    IF c.offset = -1 THEN s.process_map[Pid][c.fd].offset ELSE c.offset

\* MlnrFS::read and MemNode::read: what lies between offset and the end of
\* the file.
ReadNode(s, num, offset, len, flat) ==
    LET data == s.mnodes[num].data
        size == Size(data, flat)
        bytes_to_read == Min({size - offset, len})
    IN  IF num \notin DOMAIN s.mnodes THEN Err(s, "InvalidFile")
        ELSE IF ~May(s, num, "read") THEN Err(s, "PermissionError")
        ELSE IF offset > size \/ bytes_to_read = 0 THEN Ok(s, <<>>)
        ELSE IF flat THEN Ok(s, SubSeq(data, offset + 1, offset + bytes_to_read))
        ELSE Ok(s, read_file(data, offset, offset + bytes_to_read))

FileRead(s, c, flat) ==
    LET fd == Descriptor(s, c.fd)
        r == ReadNode(s, fd.mnode, ReadStart(s, c), c.len, flat)
    IN  IF fd = None THEN Err(s, "PermissionError")
        ELSE IF "read" \notin fd.flags THEN Err(s, "PermissionError")
        ELSE IF Failed(r) \/ c.offset # -1 THEN r
        ELSE Ok([s EXCEPT !.process_map[Pid][c.fd].offset = @ + Len(r.resp[2])], r.resp[2])

\* MlnrFS::file_info
file_info(s, num, flat) ==
    IF num \notin DOMAIN s.mnodes THEN Panic(s)
    ELSE Ok(s, <<s.mnodes[num].type, Size(s.mnodes[num].data, flat)>>)
=============================================================================
