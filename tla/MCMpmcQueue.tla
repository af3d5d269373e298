---------------------------- MODULE MCMpmcQueue -----------------------------
(* An instance of MpmcQueue: the code never looks at the elements, so it is *)
(* enough that each thread pushes an element of its own.                    *)
EXTENDS MpmcQueue

OwnElement == [t \in Threads |-> {t}]
=============================================================================
