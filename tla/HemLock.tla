------------------------------ MODULE HemLock ------------------------------
(***************************************************************************)
(* libvsync/include/vsync/spinlock/hemlock.h without HEMLOCK_USE_CTR.      *)
(* A thread uses one node for all its locks: node t belongs to thread t.   *)
(* Orig selects hemlock.h.orig, where acquire waits for the predecessor to *)
(* grant THIS lock; hemlock.h takes any grant.                             *)
(*                                                                         *)
(* The client runs Program[t], a sequence of <<"acq" | "try" | "rel",      *)
(* lock>>, over and over; test/spinlock/hemlock.c nests two locks.         *)
(***************************************************************************)
EXTENDS Integers, FiniteSets, Sequences

CONSTANTS Threads, Null, Locks, Program, Orig

VARIABLES
    tail,           \* hemlock_t, for each lock
    grant,          \* hem_node_t of each thread
    pc,             \* run (between calls) or a place inside a call
    step,           \* index into Program
    pred,           \* local of hemlock_acquire
    held,           \* locks between the end of acquire and of release
    order           \* the queue of each lock (auxiliary)

vars == <<tail, grant, pc, step, pred, held, order>>

Init ==
    /\ tail = [l \in Locks |-> Null]
    /\ grant = [t \in Threads |-> Null]
    /\ pc = [t \in Threads |-> "run"]
    /\ step = [t \in Threads |-> 1]
    /\ pred = [t \in Threads |-> Null]
    /\ held = [t \in Threads |-> {}]
    /\ order = [l \in Locks |-> <<>>]

Op(t) == Program[t][step[t]][1]
L(t) == Program[t][step[t]][2]

Goto(t, l) == pc' = [pc EXCEPT ![t] = l] /\ UNCHANGED step
Return(t) ==
    /\ pc' = [pc EXCEPT ![t] = "run"]
    /\ step' = [step EXCEPT ![t] = (@ % Len(Program[t])) + 1]

Enter(t) == held' = [held EXCEPT ![t] = @ \cup {L(t)}]
Leave(t) ==
    /\ held' = [held EXCEPT ![t] = @ \ {L(t)}]
    /\ order' = [order EXCEPT ![L(t)] = Tail(@)]

(* acquire and tryacquire begin with the same write. *)
ClearGrant(t) ==
    /\ pc[t] = "run" /\ Op(t) \in {"acq", "try"}
    /\ grant' = [grant EXCEPT ![t] = Null]
    /\ Goto(t, IF Op(t) = "acq" THEN "xchg" ELSE "try")
    /\ UNCHANGED <<tail, pred, held, order>>

(* The client retries a tryacquire that fails. *)
TryCas(t) ==
    /\ pc[t] = "try"
    /\ \/ /\ tail[L(t)] = Null
          /\ tail' = [tail EXCEPT ![L(t)] = t]
          /\ order' = [order EXCEPT ![L(t)] = Append(@, t)]
          /\ Enter(t) /\ Return(t)
       \/ /\ tail[L(t)] # Null
          /\ Goto(t, "run")
          /\ UNCHANGED <<tail, held, order>>
    /\ UNCHANGED <<grant, pred>>

AcquireXchg(t) ==
    /\ pc[t] = "xchg"
    /\ tail' = [tail EXCEPT ![L(t)] = t]
    /\ pred' = [pred EXCEPT ![t] = tail[L(t)]]
    /\ order' = [order EXCEPT ![L(t)] = Append(@, t)]
    /\ \/ tail[L(t)] = Null /\ Enter(t) /\ Return(t)
       \/ tail[L(t)] # Null /\ Goto(t, "await") /\ UNCHANGED held
    /\ UNCHANGED grant

GrantedAny(t) == grant[pred[t]] # Null
Granted(t) == IF Orig THEN grant[pred[t]] = L(t) ELSE grant[pred[t]] # Null

AcquireAwait(t) ==
    /\ pc[t] = "await"
    /\ Granted(t)
    /\ Goto(t, "ack")
    /\ UNCHANGED <<tail, grant, pred, held, order>>

AcquireAck(t) ==
    /\ pc[t] = "ack"
    /\ grant' = [grant EXCEPT ![pred[t]] = Null]
    /\ Enter(t) /\ Return(t)
    /\ UNCHANGED <<tail, pred, order>>

ReleaseReadTail(t) ==
    /\ pc[t] = "run" /\ Op(t) = "rel"
    /\ Goto(t, IF tail[L(t)] = t THEN "rel_cas" ELSE "rel_grant")
    /\ UNCHANGED <<tail, grant, pred, held, order>>

ReleaseCas(t) ==
    /\ pc[t] = "rel_cas"
    /\ \/ /\ tail[L(t)] = t
          /\ tail' = [tail EXCEPT ![L(t)] = Null]
          /\ Leave(t) /\ Return(t)
       \/ /\ tail[L(t)] # t
          /\ Goto(t, "rel_grant")
          /\ UNCHANGED <<tail, held, order>>
    /\ UNCHANGED <<grant, pred>>

(* This write hands the lock over; the rest waits for the successor's ack. *)
ReleaseGrant(t) ==
    /\ pc[t] = "rel_grant"
    /\ grant' = [grant EXCEPT ![t] = L(t)]
    /\ Leave(t) /\ Goto(t, "rel_ack")
    /\ UNCHANGED <<tail, pred>>

ReleaseAwaitAck(t) ==
    /\ pc[t] = "rel_ack"
    /\ grant[t] = Null
    /\ Return(t)
    /\ UNCHANGED <<tail, grant, pred, held, order>>

Step(t) ==
    \/ TryCas(t) \/ AcquireXchg(t) \/ AcquireAwait(t) \/ AcquireAck(t)
    \/ ReleaseReadTail(t) \/ ReleaseCas(t) \/ ReleaseGrant(t) \/ ReleaseAwaitAck(t)

Next == \E t \in Threads : ClearGrant(t) \/ Step(t)

Spec == Init /\ [][Next]_vars
-----------------------------------------------------------------------------
(* At most one thread has a lock, whatever other locks it releases with    *)
(* the same node meanwhile.                                                *)
MutualExclusion ==
    \A l \in Locks : \A t, u \in {x \in Threads : l \in held[x]} : t = u

(* A grant is addressed to one thread: nobody but the next in line of the  *)
(* lock in grant is waiting for it, so the ack cannot erase another's.     *)
GrantAddressed ==
    \A t \in Threads : grant[t] # Null =>
        /\ pc[t] = "rel_ack"
        /\ order[grant[t]] # <<>> /\ pred[order[grant[t]][1]] = t

(* hemlock_has_waiters, called by the holder of l, is exact.               *)
HasWaiters(l, t) == tail[l] # t
HasWaitersExact ==
    \A t \in Threads : \A l \in held[t] : HasWaiters(l, t) <=> Len(order[l]) > 1

Fifo(l) == INSTANCE FifoMutex
               WITH queue <- order[l], held <- \E t \in Threads : l \in held[t]
=============================================================================
