------------------------- MODULE MCReferenceModels --------------------------
(***************************************************************************)
(* The repository keeps a reference model for two of its parts, which it   *)
(* compares with the implementation in randomized tests: ModelAddressSpace *)
(* for address spaces and ModelFIO for the file system.  A behaviour makes *)
(* one of the two comparisons.                                             *)
(***************************************************************************)
EXTENDS AddressSpace, FileModel

VARIABLE subject      \* what is compared in this behaviour

(* Tables of two entries: pages of 1, 2 and 4.                             *)
MCVPages == 0 .. 3
MCFrames == {[base |-> 0, size |-> 0], [base |-> 0, size |-> 1],
             [base |-> 1, size |-> 1], [base |-> 0, size |-> 2],
             [base |-> 1, size |-> 2], [base |-> 2, size |-> 2],
             [base |-> 0, size |-> 4]}
MCPageSizes == {{0, 1, 2}, {2, 4}}

(* Growing a mapping changes the model only: nothing new comes after it.   *)
Comparable == ~grown

(* Two files, flags and modes as the test draws them, which leaves out     *)
(* O_APPEND.                                                               *)
All == {"read", "write"}

Drawn == {<<"a", All \cup {"create"}, All>>,
          <<"a", {"write", "create", "trunc"}, {"write"}>>,
          <<"b", All \cup {"create", "trunc"}, {"read"}>>,
          <<"a", {"read"}, All>>}

Init ==
  /\ subject \in {"address space", "file system"}
  /\ SpaceInit
  /\ FileInit
  /\ subject = "file system" => sizes = {2, 4}

Next ==
  \/ subject = "address space" /\ SpaceNext /\ UNCHANGED <<subject, fileVars>>
  \/ subject = "file system" /\ FileNext /\ UNCHANGED <<subject, spaceVars>>

Spec == Init /\ [][Next]_<<subject, spaceVars, fileVars>>
=============================================================================
