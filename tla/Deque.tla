------------------------------- MODULE Deque -------------------------------
(***************************************************************************)
(* What the unbounded containers promise: values are added at the back and *)
(* taken from the back (a stack), from the front (a queue) or from either  *)
(* end (a work-stealing deque), each one once.  A call takes effect before *)
(* its value reaches the caller, who owns it in between.                   *)
(***************************************************************************)
EXTENDS Naturals, Sequences

CONSTANTS Threads, Values, None,
          Ends       \* the ends a value is taken from: a subset of {"front", "back"}

VARIABLES
    items,    \* values added and not yet taken
    added,    \* all values added so far
    taken     \* per thread, the value its call has taken, or None

vars == <<items, added, taken>>

Init == items = <<>> /\ added = {} /\ taken = [t \in Threads |-> None]

Add(v) ==
    /\ v \notin added
    /\ added' = added \cup {v}
    /\ items' = Append(items, v)
    /\ UNCHANGED taken

TakeFront(t) ==
    /\ "front" \in Ends /\ items # <<>> /\ taken[t] = None
    /\ taken' = [taken EXCEPT ![t] = Head(items)]
    /\ items' = Tail(items)
    /\ UNCHANGED added

TakeBack(t) ==
    /\ "back" \in Ends /\ items # <<>> /\ taken[t] = None
    /\ taken' = [taken EXCEPT ![t] = items[Len(items)]]
    /\ items' = SubSeq(items, 1, Len(items) - 1)
    /\ UNCHANGED added

(* An addition and its taking at once: the two calls met elsewhere.        *)
Meet(t, v) ==
    /\ "back" \in Ends /\ taken[t] = None
    /\ v \notin added
    /\ added' = added \cup {v}
    /\ taken' = [taken EXCEPT ![t] = v]
    /\ UNCHANGED items

Return(t) ==
    /\ taken[t] # None
    /\ taken' = [taken EXCEPT ![t] = None]
    /\ UNCHANGED <<items, added>>

Next ==
    \/ \E v \in Values : Add(v)
    \/ \E t \in Threads : TakeFront(t) \/ TakeBack(t) \/ Return(t)
    \/ \E t \in Threads, v \in Values : Meet(t, v)

Spec == Init /\ [][Next]_vars

(* A step of a system that contains such a container. *)
Step == [Next]_vars
=============================================================================
