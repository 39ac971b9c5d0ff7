------------------------------ MODULE TtasLock ------------------------------
(***************************************************************************)
(* libvsync/include/vsync/spinlock/ttaslock.h: test and test-and-set.  One *)
(* step is one access to the lock word.                                    *)
(***************************************************************************)
EXTENDS Integers, FiniteSets

CONSTANTS Threads, Null

VARIABLES
    lock,     \* struct ttaslock_s
    pc        \* idle, test, set or cs, for each thread

vars == <<lock, pc>>

Init == lock = 0 /\ pc = [t \in Threads |-> "idle"]

Goto(t, l) == pc' = [pc EXCEPT ![t] = l]

Acquire(t) ==
    /\ pc[t] = "idle"
    /\ Goto(t, "test")
    /\ UNCHANGED lock

AcquireTest(t) ==
    /\ pc[t] = "test"
    /\ lock = 0
    /\ Goto(t, "set")
    /\ UNCHANGED lock

AcquireSetBlind(t) ==
    /\ pc[t] = "set"
    /\ lock' = 1
    /\ Goto(t, "cs")

(* The lock may have been taken since the test; then test again. *)
AcquireSet(t) ==
    /\ pc[t] = "set"
    /\ lock' = 1
    /\ Goto(t, IF lock = 0 THEN "cs" ELSE "test")

TryAcquire(t) ==
    /\ pc[t] = "idle"
    /\ lock' = 1
    /\ Goto(t, IF lock = 0 THEN "cs" ELSE "idle")

Release(t) ==
    /\ pc[t] = "cs"
    /\ lock' = 0
    /\ Goto(t, "idle")

Next == \E t \in Threads :
    \/ Acquire(t) \/ AcquireTest(t) \/ AcquireSet(t) \/ TryAcquire(t) \/ Release(t)

Spec == Init /\ [][Next]_vars

(* What a thread inside a call, or in its critical section, does next.     *)
Step(t) == AcquireTest(t) \/ AcquireSet(t) \/ Release(t)
-----------------------------------------------------------------------------
Holding == {t \in Threads : pc[t] = "cs"}
Waiting == {t \in Threads : pc[t] \in {"test", "set"}}

(* A thread that saw the lock free sets it without harm whoever took it    *)
(* meanwhile: the word is 1 exactly while one thread is between acquire    *)
(* and release.                                                            *)
LockInv ==
    /\ lock \in {0, 1} /\ pc \in [Threads -> {"idle", "test", "set", "cs"}]
    /\ lock = 0 => Holding = {}
    /\ lock = 1 => \E t \in Threads : Holding = {t}

(* Two threads are never between acquire and release.                      *)
MutualExclusion == \A t, u \in Holding : t = u

HolderOf == IF Holding = {} THEN Null ELSE CHOOSE t \in Holding : TRUE

Lock == INSTANCE Mutex WITH waiting <- Waiting, holder <- HolderOf, NoThread <- Null
=============================================================================
