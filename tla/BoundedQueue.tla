---------------------------- MODULE BoundedQueue ----------------------------
(***************************************************************************)
(* What kernel/src/mpmc.rs promises: a FIFO queue of bounded capacity       *)
(* shared by several threads.  A pop takes the head at one instant and      *)
(* hands it to its caller at a later one; a push or a pop may also fail.    *)
(***************************************************************************)
EXTENDS Naturals, Sequences

CONSTANTS Threads, Values, None, Capacity

VARIABLES q,        \* the elements, oldest first
          pending,  \* element each thread has taken and not yet returned
          ret       \* result of the last pop of each thread

vars == <<q, pending, ret>>

Init ==
    /\ q = <<>>
    /\ pending = [t \in Threads |-> None]
    /\ ret = [t \in Threads |-> None]

Push(v) ==
    /\ Len(q) < Capacity
    /\ q' = Append(q, v)
    /\ UNCHANGED <<pending, ret>>

Take(t) ==
    /\ q # <<>>
    /\ pending[t] = None
    /\ pending' = [pending EXCEPT ![t] = Head(q)]
    /\ q' = Tail(q)
    /\ UNCHANGED ret

Return(t) ==
    /\ pending[t] # None
    /\ ret' = [ret EXCEPT ![t] = pending[t]]
    /\ pending' = [pending EXCEPT ![t] = None]
    /\ UNCHANGED q

ReturnNone(t) ==
    /\ pending[t] = None
    /\ ret' = [ret EXCEPT ![t] = None]
    /\ UNCHANGED <<q, pending>>

Next ==
    \/ \E v \in Values : Push(v)
    \/ \E t \in Threads : Take(t) \/ Return(t) \/ ReturnNone(t)

Spec == Init /\ [][Next]_vars
=============================================================================
