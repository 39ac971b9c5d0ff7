---------------------------- MODULE BoundedFifo ----------------------------
(***************************************************************************)
(* What the bounded queues promise (buf_ring, bounded_mpmc, bounded_spsc): *)
(* values leave in the order they were put in, each one once, and no more  *)
(* than Capacity of them are inside.  A dequeue takes effect before the    *)
(* value reaches the caller: in between the caller owns the value it took. *)
(***************************************************************************)
EXTENDS Naturals, Sequences

CONSTANTS Threads, Values, None, Capacity

VARIABLES
    queue,    \* values put and not yet taken
    taken     \* per thread, the value its dequeue has taken, or None

vars == <<queue, taken>>

Init == queue = <<>> /\ taken = [t \in Threads |-> None]

Put(v) ==
    /\ Len(queue) < Capacity
    /\ queue' = Append(queue, v)
    /\ UNCHANGED taken

Take(t) ==
    /\ queue # <<>> /\ taken[t] = None
    /\ taken' = [taken EXCEPT ![t] = Head(queue)]
    /\ queue' = Tail(queue)

Return(t) ==
    /\ taken[t] # None
    /\ taken' = [taken EXCEPT ![t] = None]
    /\ UNCHANGED queue

Next == (\E v \in Values : Put(v)) \/ (\E t \in Threads : Take(t) \/ Return(t))

Spec == Init /\ [][Next]_vars

(* A step of a system that contains such a queue. *)
Step == [Next]_vars
=============================================================================
