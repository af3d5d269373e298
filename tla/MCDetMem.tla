------------------------------ MODULE MCDetMem ------------------------------
(* Instances of DetMem: the requests the replicas make.                     *)
EXTENDS DetMem

\* A request repeated and one of another layout.
ThreeRequests == <<"pt", "pt", "vec">>
=============================================================================
