------------------------------ MODULE MCMlnrFS ------------------------------
(* Instances of MlnrFS: two threads on two nodes. *)
EXTENDS MlnrFS

OwnNode == [t \in Threads |-> t]

OwnByte == [t \in Threads |-> t]

RW == {"read", "write", "create"}

\* A log file that is only appended to and a file that is replaced.
LogAndFile == {<<"a", RW \cup {"append"}, {"read", "write"}>>,
                <<"b", RW \cup {"trunc"}, {"read", "write"}>>}

Replace == {<<"b", "c">>}

\* With the offset of the descriptor, and beyond the end of the first page.
NextAndFar == {-1, 1}

Start == {0}
=============================================================================
