------------------------------- MODULE CasLock -------------------------------
(***************************************************************************)
(* libvsync/include/vsync/spinlock/caslock.h.  Orig selects caslock.h.orig,*)
(* whose tryacquire compares the result of the cmpxchg with 0; caslock.h   *)
(* returns that result, the old value of the lock, as it is.               *)
(***************************************************************************)
EXTENDS Integers, FiniteSets

CONSTANTS Threads, Null, Orig

VARIABLES
    lock,     \* struct caslock_s
    pc        \* idle, await (inside caslock_acquire) or cs, for each thread

vars == <<lock, pc>>

Init == lock = 0 /\ pc = [t \in Threads |-> "idle"]

Goto(t, l) == pc' = [pc EXCEPT ![t] = l]

Acquire(t) ==
    /\ pc[t] = "idle"
    /\ Goto(t, "await")
    /\ UNCHANGED lock

(* expected and desired value are the same *)
AcquireCasNoop(t) ==
    /\ pc[t] = "await"
    /\ lock = 0
    /\ UNCHANGED vars

AcquireCas(t) ==
    /\ pc[t] = "await"
    /\ lock = 0
    /\ lock' = 1
    /\ Goto(t, "cs")

TrySucceeded(old) == IF Orig THEN old = 0 ELSE old # 0

(* The caller enters its critical section when the answer is not 0. *)
TryAcquire(t) ==
    /\ pc[t] = "idle"
    /\ lock' = 1
    /\ Goto(t, IF TrySucceeded(lock) THEN "cs" ELSE "idle")

Release(t) ==
    /\ pc[t] = "cs"
    /\ lock' = 0
    /\ Goto(t, "idle")

Next == \E t \in Threads : Acquire(t) \/ AcquireCas(t) \/ TryAcquire(t) \/ Release(t)

Spec == Init /\ [][Next]_vars

(* What a thread inside a call, or in its critical section, does next.     *)
Step(t) == AcquireCas(t) \/ Release(t)
-----------------------------------------------------------------------------
Holding == {t \in Threads : pc[t] = "cs"}
Waiting == {t \in Threads : pc[t] = "await"}

(* The lock word tells whether a thread is in its critical section, and    *)
(* then it is the only one: so TypeOK is inductive, and a release of the   *)
(* holder is the only way out of 1.                                        *)
LockInv ==
    /\ lock \in {0, 1} /\ pc \in [Threads -> {"idle", "await", "cs"}]
    /\ lock = 0 => Holding = {}
    /\ lock = 1 => \E t \in Threads : Holding = {t}

(* caslock.h:55-56: tryacquire returns "true, if lock is acquired          *)
(* successfully", so two threads never both believe that they hold it.     *)
MutualExclusion == \A t, u \in Holding : t = u

HolderOf == IF Holding = {} THEN Null ELSE CHOOSE t \in Holding : TRUE

Lock == INSTANCE Mutex WITH waiting <- Waiting, holder <- HolderOf, NoThread <- Null
=============================================================================
