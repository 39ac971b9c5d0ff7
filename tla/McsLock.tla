------------------------------ MODULE McsLock ------------------------------
(***************************************************************************)
(* libvsync/include/vsync/spinlock/mcslock.h.  Thread t always passes its  *)
(* own node, so nodes are named by their threads; Null is the null         *)
(* pointer.  One step is one access to tail or to a node, but the two      *)
(* initialising writes of a call are one step: nobody else reaches a node  *)
(* that is not in the queue.                                               *)
(***************************************************************************)
EXTENDS Integers, FiniteSets, Sequences

CONSTANTS Threads, Null

VARIABLES
    tail,           \* mcslock_t
    next, locked,   \* mcs_node_t of each thread
    pc,
    other,          \* local pred of mcslock_acquire, next of mcslock_release
    order           \* the threads in the queue as they entered it (auxiliary)

vars == <<tail, next, locked, pc, other, order>>

Init ==
    /\ tail = Null
    /\ next = [t \in Threads |-> Null]
    /\ locked = [t \in Threads |-> 0]
    /\ pc = [t \in Threads |-> "idle"]
    /\ other = [t \in Threads |-> Null]
    /\ order = <<>>

Goto(t, l) == pc' = [pc EXCEPT ![t] = l]

InitNodeCounts(t) ==
    /\ pc[t] = "idle"
    /\ next' = [next EXCEPT ![t] = Null]
    /\ locked' = [locked EXCEPT ![t] = locked[t] + 1]
    /\ \E l \in {"xchg", "try"} : Goto(t, l)
    /\ UNCHANGED <<tail, other, order>>

(* acquire and tryacquire begin with the same two writes. *)
InitNode(t) ==
    /\ pc[t] = "idle"
    /\ next' = [next EXCEPT ![t] = Null]
    /\ locked' = [locked EXCEPT ![t] = 1]
    /\ \E l \in {"xchg", "try"} : Goto(t, l)
    /\ UNCHANGED <<tail, other, order>>

TryCas(t) ==
    /\ pc[t] = "try"
    /\ \/ /\ tail = Null
          /\ tail' = t
          /\ order' = Append(order, t)
          /\ Goto(t, "cs")
       \/ /\ tail # Null
          /\ Goto(t, "idle")
          /\ UNCHANGED <<tail, order>>
    /\ UNCHANGED <<next, locked, other>>

AcquireXchg(t) ==
    /\ pc[t] = "xchg"
    /\ tail' = t
    /\ other' = [other EXCEPT ![t] = tail]
    /\ order' = Append(order, t)
    /\ Goto(t, IF tail = Null THEN "cs" ELSE "link")
    /\ UNCHANGED <<next, locked>>

AcquireLink(t) ==
    /\ pc[t] = "link"
    /\ next' = [next EXCEPT ![other[t]] = t]
    /\ Goto(t, "await")
    /\ UNCHANGED <<tail, locked, other, order>>

AcquireAwait(t) ==
    /\ pc[t] = "await"
    /\ locked[t] = 0
    /\ Goto(t, "cs")
    /\ UNCHANGED <<tail, next, locked, other, order>>

ReleaseReadNext(t) ==
    /\ pc[t] = "cs"
    /\ Goto(t, IF next[t] = Null THEN "rel_cas" ELSE "rel_next")
    /\ UNCHANGED <<tail, next, locked, other, order>>

ReleaseCas(t) ==
    /\ pc[t] = "rel_cas"
    /\ \/ /\ tail = t
          /\ tail' = Null
          /\ order' = Tail(order)
          /\ Goto(t, "idle")
       \/ /\ tail # t
          /\ Goto(t, "rel_await")
          /\ UNCHANGED <<tail, order>>
    /\ UNCHANGED <<next, locked, other>>

(* A successor is in the queue but has not linked itself yet. *)
ReleaseAwait(t) ==
    /\ pc[t] = "rel_await"
    /\ next[t] # Null
    /\ Goto(t, "rel_next")
    /\ UNCHANGED <<tail, next, locked, other, order>>

ReleaseRereadNext(t) ==
    /\ pc[t] = "rel_next"
    /\ other' = [other EXCEPT ![t] = next[t]]
    /\ Goto(t, "rel_grant")
    /\ UNCHANGED <<tail, next, locked, order>>

ReleaseGrant(t) ==
    /\ pc[t] = "rel_grant"
    /\ locked' = [locked EXCEPT ![other[t]] = 0]
    /\ order' = Tail(order)
    /\ Goto(t, "idle")
    /\ UNCHANGED <<tail, next, other>>

(* What mcslock_has_waiters returns to the holder t. *)
HasWaitersTail(t) == tail # Null
HasWaiters(t) == next[t] # Null

Step(t) ==
    \/ TryCas(t) \/ AcquireXchg(t) \/ AcquireLink(t) \/ AcquireAwait(t)
    \/ ReleaseReadNext(t) \/ ReleaseCas(t) \/ ReleaseAwait(t)
    \/ ReleaseRereadNext(t) \/ ReleaseGrant(t)

Next == \E t \in Threads : InitNode(t) \/ Step(t)

Spec == Init /\ [][Next]_vars
-----------------------------------------------------------------------------
Releasing == {"rel_cas", "rel_await", "rel_next", "rel_grant"}
Holding == {t \in Threads : pc[t] = "cs" \/ pc[t] \in Releasing}

TypeOK ==
    /\ tail \in Threads \cup {Null}
    /\ next \in [Threads -> Threads \cup {Null}]
    /\ locked \in [Threads -> {0, 1}]
    /\ pc \in [Threads -> {"idle", "try", "xchg", "link", "await", "cs"} \cup Releasing]
    /\ other \in [Threads -> Threads \cup {Null}]
    /\ order \in Seq(Threads)

(* Two threads are never between acquire and the end of release.           *)
MutualExclusion == \A t, u \in Holding : t = u

(* The nodes form the queue: the last one is tail, each one's next is its  *)
(* successor or still Null, and a thread that waits is unlocked only when  *)
(* it has become the head.                                                 *)
QueueInv ==
    /\ tail = IF order = <<>> THEN Null ELSE order[Len(order)]
    /\ \A i, j \in 1 .. Len(order) : order[i] = order[j] => i = j
    /\ \A i \in 1 .. Len(order) :
           LET succ == IF i = Len(order) THEN Null ELSE order[i + 1] IN
           /\ next[order[i]] \in {succ, Null}
           /\ next[order[i]] = Null /\ succ # Null =>
                  pc[succ] = "link" /\ other[succ] = order[i]
           /\ i > 1 => pc[order[i]] \in {"link", "await"} /\ locked[order[i]] = 1
           /\ i = 1 /\ pc[order[i]] \in {"link", "await"} => locked[order[i]] = 0

(* What QueueInv rests on: exactly the linked successors are in next, a    *)
(* thread that is not linked remembers its predecessor, a new node is      *)
(* clean, and a release goes on only when it has a successor.              *)
InQueue(t) == \E i \in 1 .. Len(order) : order[i] = t

PlaceOK(i) ==
    /\ next[order[i]] =
           IF i < Len(order) /\ pc[order[i + 1]] # "link" THEN order[i + 1] ELSE Null
    /\ i > 1 => /\ pc[order[i]] \in {"link", "await"} /\ locked[order[i]] = 1
                /\ pc[order[i]] = "link" => other[order[i]] = order[i - 1]
    /\ i = 1 => /\ pc[order[i]] # "link"
                /\ pc[order[i]] = "await" => locked[order[i]] = 0

CallOK(t) ==
    /\ pc[t] \in {"xchg", "try"} => next[t] = Null /\ locked[t] = 1
    /\ pc[t] = "rel_await" => Len(order) > 1
    /\ pc[t] \in {"rel_next", "rel_grant"} => next[t] # Null
    /\ pc[t] = "rel_grant" => other[t] = next[t]

(* What the proofs ask of the constants. *)
Parameters == Null \notin Threads

McsInv ==
    /\ TypeOK
    /\ tail = IF order = <<>> THEN Null ELSE order[Len(order)]
    /\ \A i, j \in 1 .. Len(order) : order[i] = order[j] => i = j
    /\ \A i \in 1 .. Len(order) : PlaceOK(i)
    /\ \A t \in Threads :
           /\ InQueue(t) <=> pc[t] \in {"link", "await", "cs"} \cup Releasing
           /\ CallOK(t)

(* mcslock_has_waiters, called by the holder, never reports a waiter that  *)
(* does not exist; one that is not linked yet may go unnoticed.            *)
HasWaitersSound ==
    \A t \in Threads : pc[t] = "cs" /\ HasWaiters(t) => Len(order) > 1

Fifo == INSTANCE FifoMutex
            WITH queue <- order, held <- Holding # {}
=============================================================================
