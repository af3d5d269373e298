--------------------------- MODULE MCTlbShootdown ---------------------------
(* Instances of TlbShootdown: placement of three cores on nodes and clusters. *)
EXTENDS TlbShootdown

\* The first core on a node of its own.
TwoNodes == [c \in Cores |-> IF c = 0 THEN 0 ELSE 1]

\* The last core of each node is in charge of the log.
LastCore == [n \in Nodes |-> Max({c \in Cores : NodeOf[c] = n})]

\* Neighbouring ids in one cluster, and one core in a second cluster.
LowIds == [c \in Cores |-> IF c = 2 THEN 16 ELSE c]

\* A page is mapped again, or file system calls wait.
TwoFramesOrCalls == {<<2, 0>>, <<1, 2>>}
=============================================================================
