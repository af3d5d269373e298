----------------------------- MODULE MpmcQueue ------------------------------
(***************************************************************************)
(* The bounded multi-producer multi-consumer queue of kernel/src/mpmc.rs.   *)
(* Every slot carries a sequence number that says which position may use    *)
(* it next: position pos is free for a push when the number is pos, and     *)
(* holds an element for a pop when it is pos + 1.  Each load, store and     *)
(* compare-exchange is one step.                                            *)
(***************************************************************************)
EXTENDS Integers, Sequences, FiniteSets

CONSTANTS Threads,
          Elements,    \* the elements each thread may push
          None,        \* Option::None
          Requested,   \* the argument of with_capacity
          MaxCalls     \* bound: calls each thread makes

Values == UNION {Elements[t] : t \in Threads}

\* with_capacity: at least two slots, and a power of two.
Capacity ==
    CHOOSE c \in 2..(2 * Requested + 2) :
        /\ \E e \in 1..c : c = 2^e
        /\ c >= Requested
        /\ \A d \in 2..(c - 1) : ~(d >= Requested /\ \E e \in 1..d : d = 2^e)

ASSUME QueueAssumption ==
    /\ None \notin Values
    /\ Requested \in Nat
    /\ MaxCalls \in Nat
    /\ Capacity \in Nat /\ Capacity >= 2

Slots == 0..(Capacity - 1)

Index(p) == p % Capacity

VARIABLES sequence,     \* sequence number of each slot
          value,        \* content of each slot
          enqueue_pos,
          dequeue_pos,
          pc,           \* where each thread is in push or pop
          pos,          \* its local copy of the position
          arg,          \* the element it pushes
          ret,          \* result of its last pop
          calls,        \* calls it has made
          history       \* element claimed for each position, in order

vars == <<sequence, value, enqueue_pos, dequeue_pos,
          pc, pos, arg, ret, calls, history>>

shared == <<sequence, value, enqueue_pos, dequeue_pos, history>>

Init ==
    /\ sequence = [i \in Slots |-> i]
    /\ value = [i \in Slots |-> None]
    /\ enqueue_pos = 0
    /\ dequeue_pos = 0
    /\ pc = [t \in Threads |-> "idle"]
    /\ pos = [t \in Threads |-> 0]
    /\ arg = [t \in Threads |-> None]
    /\ ret = [t \in Threads |-> None]
    /\ calls = [t \in Threads |-> 0]
    /\ history = <<>>

Goto(t, from, to) ==
    /\ pc[t] = from
    /\ pc' = [pc EXCEPT ![t] = to]

At(t) == Index(pos[t])

-----------------------------------------------------------------------------
(* Slips of the steps below that the properties must notice. *)

\* The element is taken only when the slot is already released.
PopTakeLeft(t) ==
    /\ ret' = [ret EXCEPT ![t] = None]
    /\ Goto(t, "c_take", "c_release")
    /\ UNCHANGED <<sequence, value, enqueue_pos, dequeue_pos, history,
                   pos, arg, calls>>

\* The claim is a load and a store instead of a compare-exchange.
PopCasUnchecked(t) ==
    /\ dequeue_pos' = pos[t] + 1
    /\ Goto(t, "c_cas", "c_take")
    /\ UNCHANGED <<sequence, value, enqueue_pos, history, pos, arg, ret, calls>>

\* The comparison with the slot's number is off by one.
PushSeqStrict(t) ==
    LET diff == sequence[At(t)] - pos[t] - 1
    IN  /\ pc[t] = "p_seq"
        /\ pc' = [pc EXCEPT ![t] = IF diff = 0 THEN "p_cas"
                                   ELSE IF diff < 0 THEN "idle" ELSE "p_seq"]
        /\ pos' = [pos EXCEPT ![t] = IF diff > 0 THEN enqueue_pos ELSE @]
        /\ UNCHANGED <<shared, arg, ret, calls>>

-----------------------------------------------------------------------------
(***************************************************************************)
(* push                                                                     *)
(***************************************************************************)
CallPush(t, v) ==
    /\ calls[t] < MaxCalls
    /\ Goto(t, "idle", "p_seq")
    /\ pos' = [pos EXCEPT ![t] = enqueue_pos]
    /\ arg' = [arg EXCEPT ![t] = v]
    /\ calls' = [calls EXCEPT ![t] = @ + 1]
    /\ UNCHANGED <<shared, ret>>

\* Compare the slot's number with the position: free, full or overtaken.
PushSeq(t) ==
    LET diff == sequence[At(t)] - pos[t]
    IN  /\ pc[t] = "p_seq"
        /\ pc' = [pc EXCEPT ![t] = IF diff = 0 THEN "p_cas"
                                   ELSE IF diff < 0 THEN "idle" ELSE "p_seq"]
        /\ pos' = [pos EXCEPT ![t] = IF diff > 0 THEN enqueue_pos ELSE @]
        /\ UNCHANGED <<shared, arg, ret, calls>>

PushCas(t) ==
    /\ enqueue_pos = pos[t]
    /\ enqueue_pos' = pos[t] + 1
    /\ history' = Append(history, arg[t])
    /\ Goto(t, "p_cas", "p_write")
    /\ UNCHANGED <<sequence, value, dequeue_pos, pos, arg, ret, calls>>

PushCasFails(t) ==
    /\ enqueue_pos # pos[t]
    /\ pos' = [pos EXCEPT ![t] = enqueue_pos]
    /\ Goto(t, "p_cas", "p_seq")
    /\ UNCHANGED <<shared, arg, ret, calls>>

PushWrite(t) ==
    /\ value' = [value EXCEPT ![At(t)] = arg[t]]
    /\ Goto(t, "p_write", "p_publish")
    /\ UNCHANGED <<sequence, enqueue_pos, dequeue_pos, history,
                   pos, arg, ret, calls>>

PushPublish(t) ==
    /\ sequence' = [sequence EXCEPT ![At(t)] = pos[t] + 1]
    /\ Goto(t, "p_publish", "idle")
    /\ UNCHANGED <<value, enqueue_pos, dequeue_pos, history,
                   pos, arg, ret, calls>>

(***************************************************************************)
(* pop                                                                      *)
(***************************************************************************)
CallPop(t) ==
    /\ calls[t] < MaxCalls
    /\ Goto(t, "idle", "c_seq")
    /\ pos' = [pos EXCEPT ![t] = dequeue_pos]
    /\ calls' = [calls EXCEPT ![t] = @ + 1]
    /\ UNCHANGED <<shared, arg, ret>>

PopSeq(t) ==
    LET diff == sequence[At(t)] - (pos[t] + 1)
    IN  /\ pc[t] = "c_seq"
        /\ pc' = [pc EXCEPT ![t] = IF diff = 0 THEN "c_cas"
                                   ELSE IF diff < 0 THEN "idle" ELSE "c_seq"]
        /\ pos' = [pos EXCEPT ![t] = IF diff > 0 THEN dequeue_pos ELSE @]
        /\ ret' = [ret EXCEPT ![t] = IF diff < 0 THEN None ELSE @]
        /\ UNCHANGED <<shared, arg, calls>>

PopCas(t) ==
    /\ dequeue_pos = pos[t]
    /\ dequeue_pos' = pos[t] + 1
    /\ Goto(t, "c_cas", "c_take")
    /\ UNCHANGED <<sequence, value, enqueue_pos, history, pos, arg, ret, calls>>

PopCasFails(t) ==
    /\ dequeue_pos # pos[t]
    /\ pos' = [pos EXCEPT ![t] = dequeue_pos]
    /\ Goto(t, "c_cas", "c_seq")
    /\ UNCHANGED <<shared, arg, ret, calls>>

\* Option::take, the value later returned as it is.
PopTake(t) ==
    /\ ret' = [ret EXCEPT ![t] = value[At(t)]]
    /\ value' = [value EXCEPT ![At(t)] = None]
    /\ Goto(t, "c_take", "c_release")
    /\ UNCHANGED <<sequence, enqueue_pos, dequeue_pos, history, pos, arg, calls>>

PopRelease(t) ==
    /\ sequence' = [sequence EXCEPT ![At(t)] = pos[t] + Capacity]
    /\ Goto(t, "c_release", "idle")
    /\ UNCHANGED <<value, enqueue_pos, dequeue_pos, history,
                   pos, arg, ret, calls>>

Step(t) ==
    \/ PushSeq(t) \/ PushCas(t) \/ PushCasFails(t)
    \/ PushWrite(t) \/ PushPublish(t)
    \/ PopSeq(t) \/ PopCas(t) \/ PopCasFails(t) \/ PopTake(t) \/ PopRelease(t)

Next == \E t \in Threads : (\E v \in Elements[t] : CallPush(t, v)) \/ CallPop(t) \/ Step(t)

Spec == Init /\ [][Next]_vars

\* A thread in push or pop is not preempted forever.
FairSpec == Spec /\ \A t \in Threads : WF_vars(Step(t))

-----------------------------------------------------------------------------
\* The slot belongs to the thread: it reads or writes the value next.
InSlot(t) == pc[t] \in {"p_write", "p_publish", "c_take", "c_release"}

\* value is an UnsafeCell: no two threads may be between the claim and the
\* release of the same slot (mpmc.rs:89-92 and 120-123).
SlotExclusive ==
    \A t, u \in Threads :
        t # u /\ InSlot(t) /\ InSlot(u) => At(t) # At(u)

\* With no other call in progress, a push fails only on a full queue and a
\* pop only on an empty one (mpmc.rs:97 and 128).
Alone(t) == \A u \in Threads \ {t} : pc[u] = "idle"

FailsOnlyWhenDue ==
    [][\A t \in Threads : Alone(t) =>
          /\ pc[t] = "p_seq" /\ pc'[t] = "idle" => enqueue_pos - dequeue_pos = Capacity
          /\ pc[t] = "c_seq" /\ pc'[t] = "idle" => enqueue_pos = dequeue_pos]_vars

\* The code implements the abstract queue: claims are its instants.
Queue == INSTANCE BoundedQueue WITH
    q <- SubSeq(history, dequeue_pos + 1, enqueue_pos),
    pending <- [t \in Threads |-> IF pc[t] = "c_take"
                                  THEN history[pos[t] + 1] ELSE None]

\* Every behaviour of push and pop is one of the FIFO queue: elements leave
\* in the order they were claimed, once each, and nothing else is returned.
ImplementsQueue == Queue!Spec
=============================================================================
