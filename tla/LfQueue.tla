------------------------------ MODULE LfQueue ------------------------------
(***************************************************************************)
(* libvsync/include/vsync/queue: the lock-free unbounded queue, as         *)
(* unbounded_queue_lf.h (nodes go to an SMR scheme and are not used again  *)
(* while a call that saw them runs) and, with Recycle, as unbounded_queue_ *)
(* lf_recycle.h, where a dequeued node is free at once and every pointer   *)
(* carries a stamp, kept in the low bits of the address, that each cmpxchg *)
(* increments (atomic/atomicptr_stamped.h).                                *)
(*                                                                         *)
(* StampMod stands for the 2^7 stamps.  A plain pointer has stamp 0.       *)
(***************************************************************************)
EXTENDS Integers, Sequences, FiniteSets

CONSTANTS Enqueuers, Dequeuers, Enqs, Deqs, Nodes, Sentinel, Recycle, StampMod, None

VARIABLES
    head, tail,           \* vqueue_ub_t: [ptr, stamp]
    next, data,           \* vqueue_ub_node_t
    free,                 \* nodes a caller may enqueue
    pc,
    qnode, first, last, nxt, val,   \* locals of each call
    left                  \* calls each thread has still to make

queueVars == <<head, tail, next, data>>
vars == <<queueVars, free, pc, qnode, first, last, nxt, val, left>>

Threads == Enqueuers \cup Dequeuers
AllNodes == Nodes \cup {Sentinel}
Values == Enqueuers \X (1 .. Enqs)
Ref(n, s) == [ptr |-> n, stamp |-> s]
NoRef == Ref(None, 0)

(* vqueue_ub_init *)
Init ==
    /\ head = Ref(Sentinel, 0) /\ tail = Ref(Sentinel, 0)
    /\ next = [n \in AllNodes |-> NoRef]
    /\ data = [n \in AllNodes |-> None]
    /\ free = Nodes
    /\ pc = [p \in Threads |-> "idle"]
    /\ qnode = [p \in Threads |-> None]
    /\ first = [p \in Threads |-> NoRef]
    /\ last = [p \in Threads |-> NoRef]
    /\ nxt = [p \in Threads |-> NoRef]
    /\ val = [p \in Threads |-> None]
    /\ left = [p \in Threads |-> IF p \in Enqueuers THEN Enqs ELSE Deqs]

Goto(p, l) == pc' = [pc EXCEPT ![p] = l]
Set(x, p, y) == [x EXCEPT ![p] = y]

\* Mutant: the stamp is not incremented.
SuccKeeps(r, n) == Ref(n, r.stamp)

(* The new value of a pointer that held r (a cmpxchg's new stamp).         *)
Succ(r, n) == Ref(n, IF Recycle THEN (r.stamp + 1) % StampMod ELSE 0)

Return(p) ==
    /\ pc[p] = "ok"
    /\ Goto(p, "idle")
    /\ qnode' = Set(qnode, p, None) /\ val' = Set(val, p, None)
    /\ first' = Set(first, p, NoRef) /\ last' = Set(last, p, NoRef) /\ nxt' = Set(nxt, p, NoRef)
    /\ UNCHANGED <<queueVars, free, left>>
-----------------------------------------------------------------------------
(* Nodes that were never used are all alike.                               *)
Allocatable ==
    IF Recycle \/ free = {} THEN free ELSE {CHOOSE n \in free : TRUE}

(* vqueue_ub_enq: the node's next keeps its stamp.                         *)
Enq(p) ==
    /\ p \in Enqueuers /\ pc[p] = "idle" /\ left[p] > 0
    /\ \E n \in Allocatable :
          /\ free' = free \ {n}
          /\ qnode' = Set(qnode, p, n)
          /\ data' = Set(data, n, <<p, left[p]>>)
          /\ next' = Set(next, n, Ref(None, next[n].stamp))
    /\ left' = Set(left, p, left[p] - 1)
    /\ Goto(p, "enq")
    /\ UNCHANGED <<head, tail, first, last, nxt, val>>

EnqReadTail(p) ==
    /\ pc[p] = "enq"
    /\ last' = Set(last, p, tail)
    /\ Goto(p, "enq_next")
    /\ UNCHANGED <<queueVars, free, qnode, first, nxt, val, left>>

EnqReadNext(p) ==
    /\ pc[p] = "enq_next"
    /\ nxt' = Set(nxt, p, next[last[p].ptr])
    /\ Goto(p, "enq_check")
    /\ UNCHANGED <<queueVars, free, qnode, first, last, val, left>>

EnqCheck(p) ==
    /\ pc[p] = "enq_check"
    /\ Goto(p, CASE tail # last[p] -> "enq"
                 [] tail = last[p] /\ nxt[p].ptr = None -> "enq_link"
                 [] OTHER -> "help")
    /\ UNCHANGED <<queueVars, free, qnode, first, last, nxt, val, left>>

EnqLink(p) ==
    /\ pc[p] = "enq_link"
    /\ IF next[last[p].ptr] = nxt[p]
       THEN next' = Set(next, last[p].ptr, Succ(nxt[p], qnode[p])) /\ Goto(p, "enq_swing")
       ELSE Goto(p, "enq") /\ UNCHANGED next
    /\ UNCHANGED <<head, tail, data, free, qnode, first, last, nxt, val, left>>

EnqSwing(p) ==
    /\ pc[p] = "enq_swing"
    /\ tail' = IF tail = last[p] THEN Succ(last[p], qnode[p]) ELSE tail
    /\ Goto(p, "ok")
    /\ UNCHANGED <<head, next, data, free, qnode, first, last, nxt, val, left>>

\* Mutant: a tail that is behind is left to the enqueue that is late.
HelpNever(p) ==
    /\ pc[p] = "help"
    /\ Goto(p, IF p \in Enqueuers THEN "enq" ELSE "deq")
    /\ UNCHANGED <<queueVars, free, qnode, first, last, nxt, val, left>>

(* Both operations advance a tail they find behind.                        *)
Help(p) ==
    /\ pc[p] = "help"
    /\ tail' = IF tail = last[p] THEN Succ(last[p], nxt[p].ptr) ELSE tail
    /\ Goto(p, IF p \in Enqueuers THEN "enq" ELSE "deq")
    /\ UNCHANGED <<head, next, data, free, qnode, first, last, nxt, val, left>>
-----------------------------------------------------------------------------
(* vqueue_ub_deq *)
Deq(p) ==
    /\ p \in Dequeuers /\ pc[p] = "idle" /\ left[p] > 0
    /\ left' = Set(left, p, left[p] - 1)
    /\ Goto(p, "deq")
    /\ UNCHANGED <<queueVars, free, qnode, first, last, nxt, val>>

DeqReadHead(p) ==
    /\ pc[p] = "deq"
    /\ first' = Set(first, p, head)
    /\ Goto(p, "deq_tail")
    /\ UNCHANGED <<queueVars, free, qnode, last, nxt, val, left>>

DeqReadTail(p) ==
    /\ pc[p] = "deq_tail"
    /\ last' = Set(last, p, tail)
    /\ Goto(p, "deq_next")
    /\ UNCHANGED <<queueVars, free, qnode, first, nxt, val, left>>

DeqReadNext(p) ==
    /\ pc[p] = "deq_next"
    /\ nxt' = Set(nxt, p, next[first[p].ptr])
    /\ Goto(p, "deq_check")
    /\ UNCHANGED <<queueVars, free, qnode, first, last, val, left>>

DeqCheck(p) ==
    /\ pc[p] = "deq_check"
    /\ Goto(p, CASE head # first[p] -> "deq"
                 [] head = first[p] /\ first[p].ptr # last[p].ptr -> "deq_data"
                 [] head = first[p] /\ first[p].ptr = last[p].ptr /\ nxt[p].ptr = None -> "ok"
                 [] OTHER -> "help")
    /\ UNCHANGED <<queueVars, free, qnode, first, last, nxt, val, left>>

DeqReadData(p) ==
    /\ pc[p] = "deq_data"
    /\ val' = Set(val, p, IF nxt[p].ptr = None THEN None ELSE data[nxt[p].ptr])
    /\ Goto(p, "deq_cas")
    /\ UNCHANGED <<queueVars, free, qnode, first, last, nxt, left>>

(* The old sentinel is retired, which with Recycle makes it free.          *)
DeqCas(p) ==
    /\ pc[p] = "deq_cas"
    /\ IF head = first[p]
       THEN /\ head' = Succ(first[p], nxt[p].ptr)
            /\ free' = free \cup (IF Recycle /\ first[p].ptr # Sentinel
                                  THEN {first[p].ptr} ELSE {})
            /\ Goto(p, "ok")
            /\ UNCHANGED val
       ELSE /\ val' = Set(val, p, None)
            /\ Goto(p, "deq")
            /\ UNCHANGED <<head, free>>
    /\ UNCHANGED <<tail, next, data, qnode, first, last, nxt, left>>

Step(p) ==
    \/ Enq(p) \/ EnqReadTail(p) \/ EnqReadNext(p) \/ EnqCheck(p) \/ EnqLink(p) \/ EnqSwing(p)
    \/ Help(p)
    \/ Deq(p) \/ DeqReadHead(p) \/ DeqReadTail(p) \/ DeqReadNext(p) \/ DeqCheck(p)
    \/ DeqReadData(p) \/ DeqCas(p)
    \/ Return(p)

(* A caller that finds no free node goes on without one.                   *)
AllDone ==
    \A p \in Threads : pc[p] = "idle" /\ (left[p] = 0 \/ (p \in Enqueuers /\ free = {}))

Next == (\E p \in Threads : Step(p)) \/ (AllDone /\ UNCHANGED vars)

Spec == Init /\ [][Next]_vars
-----------------------------------------------------------------------------
(* `ASSERT(next && "next is not expected to be NULL, since the queue is    *)
(* not empty")': a dequeue that found head and tail apart has a node to    *)
(* read, also when the nodes it looked at were recycled meanwhile.         *)
NextNotNull == \A p \in Threads : pc[p] = "deq_data" => nxt[p].ptr # None

(* The values in the nodes after the k nodes that follow the head.         *)
NodeAt[k \in 0 .. Cardinality(AllNodes)] ==
    IF k = 0 THEN head.ptr
    ELSE IF NodeAt[k - 1] = None THEN None ELSE next[NodeAt[k - 1]].ptr

Length == Cardinality({k \in 1 .. Cardinality(AllNodes) : NodeAt[k] # None})

Added ==
    {v \in Values :
        \/ v[2] > left[v[1]] + 1
        \/ /\ v[2] = left[v[1]] + 1
           /\ pc[v[1]] \notin {"enq", "enq_next", "enq_check", "enq_link", "help"}}

Abs == INSTANCE Deque
           WITH items <- [k \in 1 .. Length |-> data[NodeAt[k]]], added <- Added,
                taken <- [p \in Threads |-> IF pc[p] = "ok" THEN val[p] ELSE None],
                Ends <- {"front"}
IsQueue == Abs!Spec
=============================================================================
