------------------------------- MODULE RwLock -------------------------------
(***************************************************************************)
(* libvsync/include/vsync/spinlock/rwlock.h: a writer raises wb, which     *)
(* keeps new readers out, and takes all N resources of the semaphore rs; a *)
(* reader takes one.  The calls of semaphore.h are those of Semaphore.     *)
(***************************************************************************)
EXTENDS Integers, FiniteSets

CONSTANTS Threads, N

VARIABLES
    wb, rs,   \* rwlock_t
    pc,
    old       \* local of semaphore_tryacquire

vars == <<wb, rs, pc, old>>

Init ==
    /\ wb = 0 /\ rs = N
    /\ pc = [t \in Threads |-> "idle"]
    /\ old = [t \in Threads |-> 0]

Goto(t, l) == pc' = [pc EXCEPT ![t] = l]
Move(t, from, to) == pc[t] = from /\ Goto(t, to)

WriteAcquire(t) == Move(t, "idle", "w_flag") /\ UNCHANGED <<wb, rs, old>>

WriteRaise(t) ==
    /\ Move(t, "w_flag", "w_sem")
    /\ wb = 0 /\ wb' = 1
    /\ UNCHANGED <<rs, old>>

WriteSemAny(t) ==
    /\ Move(t, "w_sem", "w_hold")
    /\ rs >= 1
    /\ rs' = 0
    /\ UNCHANGED <<wb, old>>

WriteSem(t) ==
    /\ Move(t, "w_sem", "w_hold")
    /\ rs >= N
    /\ rs' = rs - N
    /\ UNCHANGED <<wb, old>>

WriteTryRaiseBlind(t) ==
    /\ Move(t, "idle", "w_try")
    /\ wb' = 1
    /\ UNCHANGED <<rs, old>>

(* A tryacquire that finds wb raised changes nothing. *)
WriteTryRaise(t) ==
    /\ Move(t, "idle", "w_try")
    /\ wb = 0 /\ wb' = 1
    /\ UNCHANGED <<rs, old>>

WriteTryRead(t) ==
    /\ \/ rs >= N /\ Move(t, "w_try", "w_cas") /\ old' = [old EXCEPT ![t] = rs]
       \/ rs < N /\ Move(t, "w_try", "w_undo") /\ UNCHANGED old
    /\ UNCHANGED <<wb, rs>>

WriteTryCas(t) ==
    /\ \/ rs = old[t] /\ Move(t, "w_cas", "w_hold") /\ rs' = old[t] - N
       \/ rs # old[t] /\ Move(t, "w_cas", "w_undo") /\ UNCHANGED rs
    /\ old' = [old EXCEPT ![t] = 0]
    /\ UNCHANGED wb

WriteTryUndo(t) ==
    /\ Move(t, "w_undo", "idle")
    /\ wb' = 0
    /\ UNCHANGED <<rs, old>>

WriteReleaseFlag(t) ==
    /\ Move(t, "w_hold", "w_rel")
    /\ wb' = 0
    /\ UNCHANGED <<rs, old>>

WriteReleaseSem(t) ==
    /\ Move(t, "w_rel", "idle")
    /\ rs' = rs + N
    /\ UNCHANGED <<wb, old>>

ReadAcquire(t) == Move(t, "idle", "r_flag") /\ UNCHANGED <<wb, rs, old>>

ReadNoFlag(t) == Move(t, "r_flag", "r_sem") /\ UNCHANGED <<wb, rs, old>>
ReadFlag(t) ==
    /\ Move(t, "r_flag", "r_sem")
    /\ wb = 0
    /\ UNCHANGED <<wb, rs, old>>

ReadSem(t) ==
    /\ Move(t, "r_sem", "r_hold")
    /\ rs >= 1
    /\ rs' = rs - 1
    /\ UNCHANGED <<wb, old>>

ReadTryFlag(t) ==
    /\ Move(t, "idle", "r_try")
    /\ wb = 0
    /\ UNCHANGED <<wb, rs, old>>

ReadTryRead(t) ==
    /\ \/ rs >= 1 /\ Move(t, "r_try", "r_cas") /\ old' = [old EXCEPT ![t] = rs]
       \/ rs < 1 /\ Move(t, "r_try", "idle") /\ UNCHANGED old
    /\ UNCHANGED <<wb, rs>>

ReadTryWrite(t) ==
    /\ Move(t, "r_cas", "r_hold")
    /\ rs' = old[t] - 1
    /\ old' = [old EXCEPT ![t] = 0]
    /\ UNCHANGED wb

ReadTryCas(t) ==
    /\ \/ rs = old[t] /\ Move(t, "r_cas", "r_hold") /\ rs' = old[t] - 1
       \/ rs # old[t] /\ Move(t, "r_cas", "idle") /\ UNCHANGED rs
    /\ old' = [old EXCEPT ![t] = 0]
    /\ UNCHANGED wb

ReadRelease(t) ==
    /\ Move(t, "r_hold", "idle")
    /\ rs' = rs + 1
    /\ UNCHANGED <<wb, old>>

Step(t) ==
    \/ WriteRaise(t) \/ WriteSem(t) \/ WriteTryRead(t) \/ WriteTryCas(t)
    \/ WriteTryUndo(t) \/ WriteReleaseFlag(t) \/ WriteReleaseSem(t)
    \/ ReadFlag(t) \/ ReadSem(t) \/ ReadTryRead(t) \/ ReadTryCas(t) \/ ReadRelease(t)

Next == \E t \in Threads :
    \/ WriteAcquire(t) \/ WriteTryRaise(t) \/ ReadAcquire(t) \/ ReadTryFlag(t)
    \/ Step(t)

Spec == Init /\ [][Next]_vars

(* What rwlock_acquired_by_writer and _by_readers return. *)
AcquiredByWriter == wb > 0
AcquiredByReaders == rs > 0 /\ rs # N
-----------------------------------------------------------------------------
Writing == {t \in Threads : pc[t] = "w_hold"}
Reading == {t \in Threads : pc[t] = "r_hold"}

(* A writer excludes every other writer and every reader; the test's       *)
(* counters rest on it.                                                    *)
WriterExcludes ==
    \A t \in Writing : Writing = {t} /\ Reading = {}

Flagged ==
    {t \in Threads : pc[t] \in {"w_sem", "w_try", "w_cas", "w_undo", "w_hold"}}

(* The flag belongs to one writer at a time: a writer inside finds it      *)
(* raised, so acquired_by_writer never denies it, whatever failed          *)
(* tryacquires lower it.                                                   *)
FlagOwned ==
    /\ Cardinality(Flagged) = wb
    /\ \A t \in Writing : AcquiredByWriter

(* rwlock.h:175: acquired_by_readers is true exactly when a reader has *)
(* the lock.                                                               *)
ByReadersExact == AcquiredByReaders <=> Reading # {}

(* Where a thread at label l is in the calls of semaphore.h, and with what *)
(* argument.                                                               *)
Label(l) ==
    CASE l \in {"w_sem", "r_sem"} -> "await"
      [] l \in {"w_cas", "r_cas"} -> "cas"
      [] l \in {"w_hold", "w_rel", "r_hold"} -> "hold"
      [] OTHER -> "idle"
Amount(l) ==
    IF Label(l) = "idle" THEN 0
    ELSE IF l \in {"r_sem", "r_cas", "r_hold"} THEN 1 ELSE N

Sem == INSTANCE Semaphore
           WITH s <- rs, Amounts <- {1, N},
                pc <- [t \in Threads |-> Label(pc[t])],
                amount <- [t \in Threads |-> Amount(pc[t])]

(* What the proofs need of the constants, and what the properties rest on: *)
(* the resources that the readers have not taken are in rs, or with one    *)
(* writer, and wb is raised by one writer that has not lowered it yet.     *)
Parameters == IsFiniteSet(Threads) /\ N \in Nat \ {0}

Granted == {t \in Threads : pc[t] \in {"w_hold", "w_rel"}}

TypeOK ==
    /\ pc \in [Threads -> {"idle", "w_flag", "w_sem", "w_try", "w_cas", "w_undo", "w_hold",
                           "w_rel", "r_flag", "r_sem", "r_try", "r_cas", "r_hold"}]
    /\ wb \in {0, 1} /\ rs \in 0 .. N
    /\ old \in [Threads -> 0 .. N]

RwInv ==
    /\ TypeOK
    /\ \A t \in Threads : (pc[t] = "w_cas" => old[t] = N) /\ (pc[t] = "r_cas" => old[t] >= 1)
    /\ \/ Granted = {} /\ rs + Cardinality(Reading) = N
       \/ rs = 0 /\ Reading = {} /\ \E t \in Threads : Granted = {t}
    /\ wb = 0 => Flagged = {}
    /\ wb = 1 => \E t \in Threads : Flagged = {t}
=============================================================================
