---------------------------- MODULE TwoLockQueue ----------------------------
(***************************************************************************)
(* libvsync/include/vsync/queue/unbounded_queue_total.h: an unbounded      *)
(* queue with a lock for each end.  The locks are what Mutex promises.     *)
(* The node a dequeue retires is freed at once: its last user is supposed  *)
(* to be the dequeue itself, although tail may still point to it.          *)
(***************************************************************************)
EXTENDS Integers, Sequences, FiniteSets

CONSTANTS Enqueuers, Dequeuers, Enqs, Deqs, Nodes, Sentinel, None

VARIABLES
    head, tail, next, data,   \* vqueue_ub_t and its nodes
    enq_l, deq_l,             \* who holds each lock, or None
    free,                     \* nodes a caller may enqueue
    pc, qnode, val,           \* locals of each call
    left                      \* calls each thread has still to make

vars == <<head, tail, next, data, enq_l, deq_l, free, pc, qnode, val, left>>

Threads == Enqueuers \cup Dequeuers
AllNodes == Nodes \cup {Sentinel}
Values == Enqueuers \X (1 .. Enqs)

(* vqueue_ub_init *)
Init ==
    /\ head = Sentinel /\ tail = Sentinel
    /\ next = [n \in AllNodes |-> None] /\ data = [n \in AllNodes |-> None]
    /\ enq_l = None /\ deq_l = None
    /\ free = Nodes
    /\ pc = [p \in Threads |-> "idle"]
    /\ qnode = [p \in Threads |-> None] /\ val = [p \in Threads |-> None]
    /\ left = [p \in Threads |-> IF p \in Enqueuers THEN Enqs ELSE Deqs]

Goto(p, l) == pc' = [pc EXCEPT ![p] = l]

(* vqueue_ub_enq, with a node of the caller's, up to the lock.             *)
Enq(p) ==
    /\ p \in Enqueuers /\ pc[p] = "idle" /\ left[p] > 0
    /\ enq_l = None /\ enq_l' = p
    /\ \E n \in free : qnode' = [qnode EXCEPT ![p] = n] /\ free' = free \ {n}
    /\ left' = [left EXCEPT ![p] = @ - 1]
    /\ Goto(p, "link")
    /\ UNCHANGED <<head, tail, next, data, deq_l, val>>


(* _vqueue_ub_node_init and the write that makes the node visible.         *)
Link(p) ==
    /\ pc[p] = "link"
    /\ data' = [data EXCEPT ![qnode[p]] = <<p, left[p] + 1>>]
    /\ next' = [next EXCEPT ![qnode[p]] = None, ![tail] = qnode[p]]
    /\ Goto(p, "tail")
    /\ UNCHANGED <<head, tail, enq_l, deq_l, free, qnode, val, left>>

AdvanceTail(p) ==
    /\ pc[p] = "tail"
    /\ tail' = qnode[p]
    /\ Goto(p, "enq_unlock")
    /\ UNCHANGED <<head, next, data, enq_l, deq_l, free, qnode, val, left>>

(* vqueue_ub_deq, vqueue_ub_empty and vqueue_ub_get_length begin alike.    *)
LockHead(p) ==
    /\ p \in Dequeuers /\ pc[p] = "idle" /\ left[p] > 0
    /\ deq_l = None /\ deq_l' = p
    /\ left' = [left EXCEPT ![p] = @ - 1]
    /\ \E call \in {"deq", "empty", "length"} : Goto(p, call)
    /\ UNCHANGED <<head, tail, next, data, enq_l, free, qnode, val>>

Deq(p) ==
    /\ pc[p] = "deq"
    /\ qnode' = [qnode EXCEPT ![p] = next[head]]
    /\ Goto(p, IF next[head] = None THEN "deq_unlock" ELSE "advance")
    /\ UNCHANGED <<head, tail, next, data, enq_l, deq_l, free, val, left>>

(* retire: the sentinel is not the caller's to free.                       *)
AdvanceHead(p) ==
    /\ pc[p] = "advance"
    /\ val' = [val EXCEPT ![p] = data[qnode[p]]]
    /\ head' = qnode[p]
    /\ free' = free \cup ({head} \ {Sentinel})
    /\ Goto(p, "deq_unlock")
    /\ UNCHANGED <<tail, next, data, enq_l, deq_l, qnode, left>>

(* vqueue_ub_empty: only the answer, which changes nothing.                *)
Empty(p) ==
    /\ pc[p] = "empty"
    /\ Goto(p, "deq_unlock")
    /\ UNCHANGED <<head, tail, next, data, enq_l, deq_l, free, qnode, val, left>>

(* vqueue_ub_get_length counts under both locks.                           *)
Length(p) ==
    /\ pc[p] = "length"
    /\ enq_l = None /\ enq_l' = p
    /\ Goto(p, "enq_unlock")
    /\ UNCHANGED <<head, tail, next, data, deq_l, free, qnode, val, left>>

UnlockTail(p) ==
    /\ pc[p] = "enq_unlock"
    /\ enq_l' = None
    /\ Goto(p, IF p \in Enqueuers THEN "idle" ELSE "deq_unlock")
    /\ qnode' = [qnode EXCEPT ![p] = None]
    /\ UNCHANGED <<head, tail, next, data, deq_l, free, val, left>>

UnlockHead(p) ==
    /\ pc[p] = "deq_unlock"
    /\ deq_l' = None
    /\ Goto(p, "idle")
    /\ qnode' = [qnode EXCEPT ![p] = None] /\ val' = [val EXCEPT ![p] = None]
    /\ UNCHANGED <<head, tail, next, data, enq_l, free, left>>

Step(p) ==
    \/ Enq(p) \/ Link(p) \/ AdvanceTail(p) \/ UnlockTail(p)
    \/ LockHead(p) \/ Deq(p) \/ AdvanceHead(p) \/ Empty(p) \/ Length(p) \/ UnlockHead(p)

(* A caller that finds no free node goes on without one.                   *)
AllDone ==
    \A p \in Threads : pc[p] = "idle" /\ (left[p] = 0 \/ (p \in Enqueuers /\ free = {}))

Next == (\E p \in Threads : Step(p)) \/ (AllDone /\ UNCHANGED vars)

Spec == Init /\ [][Next]_vars
-----------------------------------------------------------------------------
(* The node k places after the head. *)
NodeAt[k \in 0 .. Cardinality(AllNodes)] ==
    IF k = 0 THEN head
    ELSE IF NodeAt[k - 1] = None THEN None ELSE next[NodeAt[k - 1]]

Items ==
    [k \in 1 .. Cardinality({j \in 1 .. Cardinality(AllNodes) : NodeAt[j] # None})
        |-> data[NodeAt[k]]]

Added ==
    {v \in Values :
        \/ v[2] > left[v[1]] + 1
        \/ v[2] = left[v[1]] + 1 /\ pc[v[1]] # "link"}

Abs == INSTANCE Deque
           WITH items <- Items, added <- Added, taken <- val, Ends <- {"front"}

(* The two-lock queue is a queue although its ends share no lock: a        *)
(* dequeue that overtakes an enqueue between the link and the tail retires *)
(* the node tail points to, which the enqueue no longer touches.           *)
IsQueue == Abs!Spec
=============================================================================
