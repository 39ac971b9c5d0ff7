------------------------------ MODULE ClhLock ------------------------------
(***************************************************************************)
(* libvsync/include/vsync/spinlock/clhlock.h.  A thread's own qnode        *)
(* (node->_qnode) is named by the thread and Initial is lock->initial;     *)
(* qnodes change hands, because a release keeps its predecessor's.         *)
(*                                                                         *)
(* Orig selects clhlock.h.orig, whose clhlock_node_init sets node->qnode;  *)
(* in clhlock.h it has an empty body and the pointer stays Null.           *)
(***************************************************************************)
EXTENDS Integers, FiniteSets, Sequences

CONSTANTS Threads, Null, Initial, Orig

VARIABLES
    tail,           \* clhlock_t
    locked,         \* clh_qnode_t
    qnode, pred,    \* clh_node_t of each thread
    pc,
    order           \* the threads in the queue as they entered it (auxiliary)

vars == <<tail, locked, qnode, pred, pc, order>>

QNodes == Threads \cup {Initial}

NodeInit(t) == IF Orig THEN t ELSE Null

Init ==
    /\ tail = Initial
    /\ locked = [q \in QNodes |-> 0]
    /\ qnode = [t \in Threads |-> NodeInit(t)]
    /\ pred = [t \in Threads |-> Null]
    /\ pc = [t \in Threads |-> "idle"]
    /\ order = <<>>

Goto(t, l) == pc' = [pc EXCEPT ![t] = l]

Acquire(t) ==
    /\ pc[t] = "idle"
    /\ Goto(t, "mark")
    /\ UNCHANGED <<tail, locked, qnode, pred, order>>

(* Dereferences node->qnode. *)
AcquireMark(t) ==
    /\ pc[t] = "mark"
    /\ locked' = [locked EXCEPT ![qnode[t]] = 1]
    /\ Goto(t, "xchg")
    /\ UNCHANGED <<tail, qnode, pred, order>>

AcquireXchg(t) ==
    /\ pc[t] = "xchg"
    /\ pred' = [pred EXCEPT ![t] = tail]
    /\ tail' = qnode[t]
    /\ order' = Append(order, t)
    /\ Goto(t, "await")
    /\ UNCHANGED <<locked, qnode>>

AcquireAwait(t) ==
    /\ pc[t] = "await"
    /\ locked[pred[t]] = 0
    /\ Goto(t, "cs")
    /\ UNCHANGED <<tail, locked, qnode, pred, order>>

ReleaseUnlock(t) ==
    /\ pc[t] = "cs"
    /\ locked' = [locked EXCEPT ![qnode[t]] = 0]
    /\ order' = Tail(order)
    /\ Goto(t, "recycle")
    /\ UNCHANGED <<tail, qnode, pred>>

ReleaseKeepOwn(t) ==
    /\ pc[t] = "recycle"
    /\ Goto(t, "idle")
    /\ UNCHANGED <<tail, locked, qnode, pred, order>>

ReleaseRecycle(t) ==
    /\ pc[t] = "recycle"
    /\ qnode' = [qnode EXCEPT ![t] = pred[t]]
    /\ Goto(t, "idle")
    /\ UNCHANGED <<tail, locked, pred, order>>

(* What clhlock_has_waiters returns to the holder t. *)
HasWaiters(t) == tail # qnode[t]

Step(t) ==
    \/ AcquireMark(t) \/ AcquireXchg(t) \/ AcquireAwait(t)
    \/ ReleaseUnlock(t) \/ ReleaseRecycle(t)

Next == \E t \in Threads : Acquire(t) \/ Step(t)

Spec == Init /\ [][Next]_vars
-----------------------------------------------------------------------------
TypeOK ==
    /\ tail \in QNodes
    /\ locked \in [QNodes -> {0, 1}]
    /\ qnode \in [Threads -> QNodes]
    /\ pred \in [Threads -> QNodes \cup {Null}]
    /\ pc \in [Threads -> {"idle", "mark", "xchg", "await", "cs", "recycle"}]
    /\ order \in Seq(Threads)

(* Two threads are never between acquire and the unlocking write.          *)
Holding == {t \in Threads : pc[t] = "cs"}
MutualExclusion == \A t, u \in Holding : t = u

(* The qnode that is t's once the call it is in is over.                   *)
Own(t) == IF pc[t] = "recycle" THEN pred[t] ELSE qnode[t]

(* The one qnode no thread owns: what the next thread in line waits on.    *)
Free == IF order = <<>> THEN tail ELSE pred[order[1]]

(* Recycling moves qnodes between threads and loses none: no two threads   *)
(* own the same qnode and the one left over is the one with locked = 0     *)
(* that lets the head of the queue in.                                     *)
RecycleInv ==
    /\ \A t, u \in Threads : Own(t) = Own(u) => t = u
    /\ \A t \in Threads : Own(t) # Free
    /\ locked[Free] = 0

(* Each thread in the queue waits on the qnode of the thread before it.    *)
InQueue(t) == \E i \in 1 .. Len(order) : order[i] = t

PlaceOK(i) ==
    /\ locked[qnode[order[i]]] = 1
    /\ i > 1 => pred[order[i]] = qnode[order[i - 1]] /\ pc[order[i]] = "await"

QueueInv ==
    /\ order # <<>> => tail = qnode[order[Len(order)]]
    /\ \A t \in Threads : pc[t] \in {"await", "cs"} <=> InQueue(t)
    /\ \A i \in 1 .. Len(order) : PlaceOK(i)

(* What the proofs ask of the constants: the initial qnode is nobody's.    *)
Parameters == Orig = TRUE /\ Initial \notin Threads \cup {Null}

(* What these rest on: also a thread about to enter the queue has marked   *)
(* its qnode, and nobody is twice in the queue.                            *)
ClhInv ==
    /\ TypeOK /\ QueueInv /\ RecycleInv
    /\ \A i, j \in 1 .. Len(order) : order[i] = order[j] => i = j
    /\ \A t \in Threads :
           /\ pc[t] = "xchg" => locked[qnode[t]] = 1
           /\ pc[t] \in {"await", "cs", "recycle"} => pred[t] \in QNodes

(* clhlock_has_waiters, called by the holder, is exact.                    *)
HasWaitersExact ==
    \A t \in Threads : pc[t] = "cs" => (HasWaiters(t) <=> Len(order) > 1)

Fifo == INSTANCE FifoMutex
            WITH queue <- order, held <- Holding # {}
=============================================================================
