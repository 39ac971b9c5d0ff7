------------------------------- MODULE Mutex -------------------------------
(***************************************************************************)
(* What every exclusive lock of libvsync/include/vsync/spinlock promises   *)
(* its callers, fairness apart: a call of X_acquire leaves the caller      *)
(* waiting until nobody holds the lock, X_tryacquire may take a lock that  *)
(* nobody holds, X_release gives it back.                                  *)
(***************************************************************************)
CONSTANTS Threads, NoThread

VARIABLES
    waiting,   \* threads inside X_acquire
    holder     \* the thread between X_acquire and X_release, or NoThread

vars == <<waiting, holder>>

TypeOK ==
    /\ waiting \subseteq Threads
    /\ holder \in Threads \cup {NoThread}

Init == waiting = {} /\ holder = NoThread

Request(t) ==
    /\ t \notin waiting \cup {holder}
    /\ waiting' = waiting \cup {t}
    /\ UNCHANGED holder

Grant(t) ==
    /\ t \in waiting
    /\ holder = NoThread
    /\ holder' = t
    /\ waiting' = waiting \ {t}

TryGrant(t) ==
    /\ t \notin waiting
    /\ holder = NoThread
    /\ holder' = t
    /\ UNCHANGED waiting

Release(t) ==
    /\ holder = t
    /\ holder' = NoThread
    /\ UNCHANGED waiting

Next == \E t \in Threads : Request(t) \/ Grant(t) \/ TryGrant(t) \/ Release(t)

Spec == Init /\ [][Next]_vars

(* A step of a system that contains such a lock. *)
Step == [Next]_vars
=============================================================================
