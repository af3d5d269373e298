---------------------------- MODULE FileBuffers ----------------------------
(***************************************************************************)
(* The contents of a file (kernel/src/fs/file.rs): a list of buffers of one *)
(* page each.  A file is a sequence of buffers here, and a buffer the       *)
(* sequence of bytes in use.                                                *)
(***************************************************************************)
EXTENDS Integers, Sequences, SequencesExt

CONSTANT PageSize   \* BASE_PAGE_SIZE

ASSUME PageSizeAssumption == PageSize \in Nat \ {0}

Zeros(n) == [i \in 1..n |-> 0]

\* The bytes of the buffers, one after the other.
Bytes(mcache) == FlattenSeq(mcache)

\* File::get_size: the last buffer decides; if it is empty, the buffers up to
\* the first empty one count.
get_size(mcache) ==
    IF mcache = <<>> THEN 0
    ELSE IF Len(mcache) = 1 THEN Len(mcache[1])
    ELSE IF Last(mcache) # <<>> THEN (Len(mcache) - 1) * PageSize + Len(Last(mcache))
    ELSE LET empty == {i \in DOMAIN mcache : mcache[i] = <<>>}
         IN  Len(Bytes(SubSeq(mcache, 1, Min(empty) - 1)))

\* Resizing the last buffer by n zeros.
Extended(mcache, n) ==
    IF mcache = <<>> THEN mcache ELSE Front(mcache) \o <<Last(mcache) \o Zeros(n)>>

FreeInLast(mcache) == IF mcache = <<>> THEN 0 ELSE PageSize - Len(Last(mcache))

ceil(bytes, size) == (bytes \div size) + (IF bytes % size > 0 THEN 1 ELSE 0)

\* Whether growing by n bytes allocates memory, the only step that fails.
Allocates(mcache, n) == n > FreeInLast(mcache)

\* A slip: new buffers are added behind one that is not full.
increase_file_size_gap(mcache, new_len) ==
    LET add_new == new_len - get_size(mcache)
        new_buffers == ceil(add_new, PageSize)
        length(i) == IF i < new_buffers THEN PageSize ELSE add_new - (new_buffers - 1) * PageSize
    IN  mcache \o [i \in 1..new_buffers |-> Zeros(length(i))]

\* File::increase_file_size, to new_len bytes.
increase_file_size(mcache, new_len) ==
    LET filled == Extended(mcache, FreeInLast(mcache))
        add_new == new_len - get_size(mcache)
        new_buffers == ceil(add_new - FreeInLast(mcache), PageSize)
        length(i) == IF i < new_buffers \/ new_len % PageSize = 0 THEN PageSize
                     ELSE new_len - (get_size(filled) + (new_buffers - 1) * PageSize)
    IN  IF ~Allocates(mcache, add_new) THEN Extended(mcache, add_new)
        ELSE filled \o [i \in 1..new_buffers |-> Zeros(length(i))]

\* A slip: the clean-up removes the buffer that was there before.
increase_file_size_undone(mcache) == IF mcache = <<>> THEN mcache ELSE Front(mcache)

\* What a failed allocation leaves: the last buffer has been filled already.
increase_file_size_failed(mcache) == Extended(mcache, FreeInLast(mcache))

\* File::write_file: grow if needed, then copy into the buffers.  The copy
\* stays within the buffers only if they hold that many bytes.
write_file(mcache, slice, start) ==
    LET new_len == start + Len(slice)
        grown == IF new_len > get_size(mcache)
                 THEN increase_file_size(mcache, new_len) ELSE mcache
    IN  [b \in DOMAIN grown |-> [o \in DOMAIN grown[b] |->
            LET i == (b - 1) * PageSize + o - start
            IN  IF i \in DOMAIN slice THEN slice[i] ELSE grown[b][o]]]

\* File::read_file: the bytes from start to end, which is within the file,
\* beginning in the buffer that holds start.
read_file(mcache, start, end) ==
    LET first == start \div PageSize
    IN  SubSeq(Bytes(SubSeq(mcache, first + 1, Len(mcache))),
               start - first * PageSize + 1, end - first * PageSize)
=============================================================================
