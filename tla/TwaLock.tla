------------------------------ MODULE TwaLock ------------------------------
(***************************************************************************)
(* libvsync/include/vsync/spinlock/twalock.h: a ticket lock whose distant  *)
(* waiters watch a counter of a shared array instead of grant.  TWA_L is   *)
(* 1.  Orig selects twalock.h.orig, where every waiter ends by awaiting    *)
(* grant = tx; in twalock.h those that took the slow path do not.          *)
(*                                                                         *)
(* Modulus stands for 2^32 and ArrayLen (TWA_A) divides it.  As in         *)
(* TicketLock, MaxLag bounds the tickets taken between the two accesses of *)
(* a tryacquire.                                                           *)
(***************************************************************************)
EXTENDS Integers, FiniteSets

CONSTANTS Threads, Null, Modulus, MaxLag, ArrayLen, Orig

VARIABLES
    ticket, grant,  \* twalock_t
    array,          \* __twa_array
    pc,
    tx,             \* tx of acquire, t of the slow path, k of the others
    u,              \* local of the slow path
    lag             \* tickets taken since a tryacquire read grant (auxiliary)

vars == <<ticket, grant, array, pc, tx, u, lag>>

TWA_L == 1
TWA_DIFF(a, b) == (a - b) % Modulus
TWA_HASH(t) == t % ArrayLen
Inc(x) == (x + 1) % Modulus

Init ==
    /\ ticket = 0 /\ grant = 0
    /\ array = [i \in 0 .. ArrayLen - 1 |-> 0]
    /\ pc = [t \in Threads |-> "idle"]
    /\ tx = [t \in Threads |-> 0]
    /\ u = [t \in Threads |-> 0]
    /\ lag = [t \in Threads |-> 0]

Goto(t, l) == pc' = [pc EXCEPT ![t] = l]
(* The locals of a call that is over are reset, to keep the states few. *)
Drop(f, t) == [f EXCEPT ![t] = 0]

TakeTicket(t) ==
    /\ \A v \in Threads \ {t} : pc[v] = "try" => lag[v] < MaxLag
    /\ ticket' = Inc(ticket)
    /\ lag' = [v \in Threads |-> IF v # t /\ pc[v] = "try" THEN lag[v] + 1 ELSE 0]

Acquire(t) ==
    /\ pc[t] = "idle"
    /\ TakeTicket(t)
    /\ tx' = [tx EXCEPT ![t] = ticket]
    /\ Goto(t, "dx")
    /\ UNCHANGED <<grant, array, u>>

AcquireReadGrant(t) ==
    /\ pc[t] = "dx"
    /\ LET dx == TWA_DIFF(tx[t], grant)
       IN  Goto(t, IF dx = 0 THEN "cs" ELSE IF dx > TWA_L THEN "slow" ELSE "await")
    /\ UNCHANGED <<ticket, grant, array, tx, u, lag>>

AcquireAwait(t) ==
    /\ pc[t] = "await"
    /\ grant = tx[t]
    /\ Goto(t, "cs")
    /\ UNCHANGED <<ticket, grant, array, tx, u, lag>>

SlowReadArray(t) ==
    /\ pc[t] = "slow"
    /\ u' = [u EXCEPT ![t] = array[TWA_HASH(tx[t])]]
    /\ Goto(t, "slow_dx")
    /\ UNCHANGED <<ticket, grant, array, tx, lag>>

AfterSlow == IF Orig THEN "await" ELSE "cs"

SlowReadGrant(t) ==
    /\ pc[t] = "slow_dx"
    /\ \/ /\ TWA_DIFF(tx[t], grant) > TWA_L
          /\ Goto(t, "slow_await")
          /\ UNCHANGED u
       \/ /\ TWA_DIFF(tx[t], grant) <= TWA_L
          /\ Goto(t, AfterSlow)
          /\ u' = Drop(u, t)
    /\ UNCHANGED <<ticket, grant, array, tx, lag>>

SlowAwait(t) ==
    /\ pc[t] = "slow_await"
    /\ array[TWA_HASH(tx[t])] # u[t]
    /\ u' = [u EXCEPT ![t] = array[TWA_HASH(tx[t])]]
    /\ Goto(t, "slow_dx")
    /\ UNCHANGED <<ticket, grant, array, tx, lag>>

TryReadGrant(t) ==
    /\ pc[t] = "idle"
    /\ tx' = [tx EXCEPT ![t] = grant]
    /\ Goto(t, "try")
    /\ UNCHANGED <<ticket, grant, array, u, lag>>

TryCas(t) ==
    /\ pc[t] = "try"
    /\ \/ /\ ticket = tx[t]
          /\ TakeTicket(t)
          /\ Goto(t, "cs")
          /\ UNCHANGED tx
       \/ /\ ticket # tx[t]
          /\ lag' = Drop(lag, t)
          /\ tx' = Drop(tx, t)
          /\ Goto(t, "idle")
          /\ UNCHANGED ticket
    /\ UNCHANGED <<grant, array, u>>

ReleaseReadGrant(t) ==
    /\ pc[t] = "cs"
    /\ tx' = [tx EXCEPT ![t] = Inc(grant)]
    /\ Goto(t, "release")
    /\ UNCHANGED <<ticket, grant, array, u, lag>>

ReleaseWriteGrant(t) ==
    /\ pc[t] = "release"
    /\ grant' = tx[t]
    /\ Goto(t, "wake")
    /\ UNCHANGED <<ticket, array, tx, u, lag>>

ReleaseWakeNext(t) ==
    /\ pc[t] = "wake"
    /\ array' = [array EXCEPT ![TWA_HASH(tx[t])] = Inc(@)]
    /\ tx' = Drop(tx, t)
    /\ Goto(t, "idle")
    /\ UNCHANGED <<ticket, grant, u, lag>>

(* After the hand-over: wakes the thread that is TWA_L behind the next one. *)
ReleaseWake(t) ==
    /\ pc[t] = "wake"
    /\ array' = [array EXCEPT ![TWA_HASH(tx[t] + TWA_L)] = Inc(@)]
    /\ tx' = Drop(tx, t)
    /\ Goto(t, "idle")
    /\ UNCHANGED <<ticket, grant, u, lag>>

Step(t) ==
    \/ AcquireReadGrant(t) \/ AcquireAwait(t)
    \/ SlowReadArray(t) \/ SlowReadGrant(t) \/ SlowAwait(t)
    \/ TryCas(t) \/ ReleaseReadGrant(t) \/ ReleaseWriteGrant(t) \/ ReleaseWake(t)

Next == \E t \in Threads : Acquire(t) \/ TryReadGrant(t) \/ Step(t)

Spec == Init /\ [][Next]_vars
-----------------------------------------------------------------------------
Waiting == {t \in Threads : pc[t] \in {"dx", "await", "slow", "slow_dx", "slow_await"}}
Holding == {t \in Threads : pc[t] \in {"cs", "release"}}
Queued == Waiting \cup Holding

(* twalock_acquire admits one thread at a time, also those that come back  *)
(* from the slow path.                                                     *)
MutualExclusion == \A t, v \in Holding : t = v

(* No wake-up is missed: a thread asleep on its array counter is two or    *)
(* more tickets behind grant, or the counter has moved on since it read u, *)
(* or a release that already wrote grant is about to move it.              *)
SleeperWillWake ==
    \A t \in Threads : pc[t] = "slow_await" =>
        \/ TWA_DIFF(tx[t], grant) > TWA_L
        \/ array[TWA_HASH(tx[t])] # u[t]
        \/ \E v \in Threads : pc[v] = "wake" /\ TWA_HASH(tx[v] + TWA_L) = TWA_HASH(tx[t])

TicketOf(t) == IF pc[t] = "release" THEN grant ELSE tx[t]
Queue == [i \in 1 .. Cardinality(Queued) |->
            LET at == {t \in Queued : TWA_DIFF(TicketOf(t), grant) = i - 1}
            IN  IF at = {} THEN Null ELSE CHOOSE t \in at : TRUE]

Fifo == INSTANCE FifoMutex WITH queue <- Queue, held <- Holding # {}
=============================================================================
