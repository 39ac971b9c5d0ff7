----------------------------- MODULE FifoMutex -----------------------------
(***************************************************************************)
(* The promise of the queue-based locks (ticket, array, CLH, MCS, Hemlock):*)
(* a thread takes its place in the queue by one atomic access (its         *)
(* doorway), and the lock is granted in the order of those accesses.       *)
(***************************************************************************)
EXTENDS Sequences, Naturals

CONSTANT Threads

VARIABLES
    queue,    \* threads past their doorway, in order; the head holds or is next
    held      \* TRUE while Head(queue) is inside its critical section

vars == <<queue, held>>

Queued == {queue[i] : i \in 1..Len(queue)}

TypeOK ==
    /\ queue \in Seq(Threads)
    /\ held \in BOOLEAN
    /\ held => queue # <<>>
    /\ \A i, j \in 1..Len(queue) : queue[i] = queue[j] => i = j

Init == queue = <<>> /\ held = FALSE

Request(t) ==
    /\ t \notin Queued
    /\ queue' = Append(queue, t)
    /\ UNCHANGED held

Grant(t) ==
    /\ queue # <<>> /\ ~held
    /\ t = Head(queue)
    /\ held' = TRUE
    /\ UNCHANGED queue

TryGrant(t) ==
    /\ queue = <<>>
    /\ queue' = <<t>>
    /\ held' = TRUE

Release(t) ==
    /\ held /\ t = Head(queue)
    /\ queue' = Tail(queue)
    /\ held' = FALSE

Next == \E t \in Threads : Request(t) \/ Grant(t) \/ TryGrant(t) \/ Release(t)

Spec == Init /\ [][Next]_vars

(* A step of a system that contains such a lock. *)
Step == [Next]_vars
=============================================================================
