---------------------------- MODULE MCKernelNode ----------------------------
(* An instance of KernelNode: one node with a single core, one with two.    *)
EXTENDS KernelNode

TwoNodes == [c \in Cores |-> IF c = 0 THEN 0 ELSE 1]
=============================================================================
