------------------------------ MODULE LockTest ------------------------------
(***************************************************************************)
(* libvsync/include/test/boilerplate/lock.h, the program every test under  *)
(* test/spinlock/ runs over its lock.  The lock is what Mutex promises,    *)
(* and re-entrant as recursive_lock.h makes it; the counters of the        *)
(* critical section are plain variables, read and written in two steps.    *)
(*                                                                         *)
(* Lotto tells whether VSYNC_LOTTO is defined: it changes which threads    *)
(* repeat which loop and what main expects at the end.                     *)
(***************************************************************************)
EXTENDS Naturals

CONSTANTS NTHREADS, REACQUIRE, REENTRANT, Lotto

VARIABLES
    holder, depth,     \* the lock
    g_cs_x, g_cs_y,
    i, j, tmp, pc,     \* run() in each thread
    checked            \* main has passed its joins and calls check()

locals == <<i, j, tmp, pc>>
vars == <<holder, depth, g_cs_x, g_cs_y, locals, checked>>

Tids == 0 .. NTHREADS - 1
Nobody == NTHREADS

FINAL_COUNT ==
    IF Lotto THEN NTHREADS * (REACQUIRE + 1) + REENTRANT * (REACQUIRE + 1)
    ELSE NTHREADS + REACQUIRE + REENTRANT

SELECT(k, t, C) ==
    IF Lotto THEN k < C \/ (k = C /\ t < C) ELSE k = 1 /\ t < C

Init ==
    /\ holder = Nobody /\ depth = 0
    /\ g_cs_x = 0 /\ g_cs_y = 0
    /\ i = [t \in Tids |-> 0] /\ j = [t \in Tids |-> 0]
    /\ tmp = [t \in Tids |-> 0]
    /\ pc = [t \in Tids |-> "acquire"]
    /\ checked = FALSE

Goto(t, l) == pc' = [pc EXCEPT ![t] = l]

AcquireAny(t) ==
    /\ pc[t] = "acquire"
    /\ holder' = t
    /\ depth' = depth + 1
    /\ Goto(t, "read_x")
    /\ UNCHANGED <<g_cs_x, g_cs_y, i, j, tmp, checked>>

Acquire(t) ==
    /\ pc[t] = "acquire"
    /\ holder \in {Nobody, t}
    /\ holder' = t
    /\ depth' = depth + 1
    /\ Goto(t, "read_x")
    /\ UNCHANGED <<g_cs_x, g_cs_y, i, j, tmp, checked>>

ReadX(t) ==
    /\ pc[t] = "read_x"
    /\ tmp' = [tmp EXCEPT ![t] = g_cs_x]
    /\ Goto(t, "write_x")
    /\ UNCHANGED <<holder, depth, g_cs_x, g_cs_y, i, j, checked>>

WriteX(t) ==
    /\ pc[t] = "write_x"
    /\ g_cs_x' = tmp[t] + 1
    /\ Goto(t, "read_y")
    /\ UNCHANGED <<holder, depth, g_cs_y, i, j, tmp, checked>>

ReadY(t) ==
    /\ pc[t] = "read_y"
    /\ tmp' = [tmp EXCEPT ![t] = g_cs_y]
    /\ Goto(t, "write_y")
    /\ UNCHANGED <<holder, depth, g_cs_x, g_cs_y, i, j, checked>>

(* The end of cs() and of the body of the first inner loop.                *)
WriteY(t) ==
    /\ pc[t] = "write_y"
    /\ g_cs_y' = tmp[t] + 1
    /\ LET again == SELECT(j[t] + 1, t, REENTRANT) IN
       /\ j' = [j EXCEPT ![t] = IF again THEN j[t] + 1 ELSE 0]
       /\ Goto(t, IF again THEN "acquire" ELSE "release")
    /\ UNCHANGED <<holder, depth, g_cs_x, i, tmp, checked>>

ReleaseSpins(t) ==
    /\ pc[t] = "release"
    /\ UNCHANGED vars

(* The second inner loop, and the outer one. *)
Release(t) ==
    /\ pc[t] = "release"
    /\ depth' = depth - 1
    /\ holder' = IF depth = 1 THEN Nobody ELSE t
    /\ \/ /\ SELECT(j[t] + 1, t, REENTRANT)
          /\ j' = [j EXCEPT ![t] = j[t] + 1]
          /\ UNCHANGED <<i, pc>>
       \/ /\ ~SELECT(j[t] + 1, t, REENTRANT)
          /\ j' = [j EXCEPT ![t] = 0]
          /\ i' = [i EXCEPT ![t] = i[t] + 1]
          /\ Goto(t, IF SELECT(i[t] + 1, t, REACQUIRE) THEN "acquire" ELSE "done")
    /\ UNCHANGED <<g_cs_x, g_cs_y, tmp, checked>>

(* main: the joins, then check(). *)
Check ==
    /\ ~checked
    /\ \A t \in Tids : pc[t] = "done"
    /\ checked' = TRUE
    /\ UNCHANGED <<holder, depth, g_cs_x, g_cs_y, locals>>

Exited == checked /\ UNCHANGED vars

Step(t) ==
    Acquire(t) \/ ReadX(t) \/ WriteX(t) \/ ReadY(t) \/ WriteY(t) \/ Release(t)

Next == (\E t \in Tids : Step(t)) \/ Check \/ Exited

Spec == Init /\ [][Next]_vars
-----------------------------------------------------------------------------
(* The assertions of check() (lock.h:117-118) hold when main reaches them: *)
(* over an exclusive lock no increment is lost and FINAL_COUNT counts the  *)
(* entries that the two SELECT loops make.  Under VSYNC_LOTTO this needs   *)
(* REACQUIRE >= NTHREADS: thread t makes the last turn only if t is below. *)
CheckHolds == checked => g_cs_x = g_cs_y /\ g_cs_x = FINAL_COUNT

(* main has checked and the lock is free. *)
Ended == checked /\ holder = Nobody
=============================================================================
