--------------------------- MODULE RecursiveLock ---------------------------
(***************************************************************************)
(* The lock that libvsync/include/vsync/utils/recursive_lock.h builds over *)
(* a base lock; spinlock/rec_mcslock.h, rec_ticketlock.h and rec_spinlock.h*)
(* instantiate it.  The base lock is a lock word taken and given back in   *)
(* one step, which is what IsFifoMutex and IsMutex of McsLock, TicketLock  *)
(* and CasLock allow.  With CaslockBase its tryacquire answers as          *)
(* caslock.h's does, as in rec_spinlock.h.                                 *)
(***************************************************************************)
EXTENDS Integers, FiniteSets

CONSTANTS Threads, Null, MaxDepth, CaslockBase

VARIABLES
    base, owner, count,   \* struct name_s
    pc,                   \* run (between calls) or a place inside a call
    depth                 \* acquires of a thread not yet released (auxiliary)

vars == <<base, owner, count, pc, depth>>

Init ==
    /\ base = 0 /\ owner = Null /\ count = 0
    /\ pc = [t \in Threads |-> "run"]
    /\ depth = [t \in Threads |-> 0]

Goto(t, l) == pc' = [pc EXCEPT ![t] = l]

Reenter(t) ==
    /\ owner = t
    /\ count' = count + 1
    /\ depth' = [depth EXCEPT ![t] = @ + 1]
    /\ UNCHANGED <<base, owner, pc>>

MayCall(t) == pc[t] = "run" /\ depth[t] < MaxDepth

AcquireNoReenter(t) ==
    /\ MayCall(t)
    /\ Goto(t, "acq_base")
    /\ UNCHANGED <<base, owner, count, depth>>

AcquireReadOwner(t) ==
    /\ MayCall(t)
    /\ \/ Reenter(t)
       \/ /\ owner # t
          /\ Goto(t, "acq_base")
          /\ UNCHANGED <<base, owner, count, depth>>

AcquireBase(t) ==
    /\ pc[t] = "acq_base"
    /\ base = 0
    /\ base' = 1
    /\ Goto(t, "set_owner")
    /\ UNCHANGED <<owner, count, depth>>

SetOwner(t) ==
    /\ pc[t] = "set_owner"
    /\ owner' = t
    /\ depth' = [depth EXCEPT ![t] = 1]
    /\ Goto(t, "run")
    /\ UNCHANGED <<base, count>>

TryReadOwner(t) ==
    /\ MayCall(t)
    /\ \/ Reenter(t)
       \/ owner \notin {t, Null} /\ UNCHANGED vars
       \/ /\ owner = Null
          /\ Goto(t, "try_base")
          /\ UNCHANGED <<base, owner, count, depth>>

(* The base lock may have been taken since owner was read. *)
BaseTry(b) == IF CaslockBase THEN b # 0 ELSE b = 0

TryBase(t) ==
    /\ pc[t] = "try_base"
    /\ base' = 1
    /\ Goto(t, IF BaseTry(base) THEN "set_owner" ELSE "run")
    /\ UNCHANGED <<owner, count, depth>>

Release(t) ==
    /\ pc[t] = "run" /\ depth[t] > 0
    /\ \/ /\ count = 0
          /\ owner' = Null
          /\ Goto(t, "rel_base")
          /\ UNCHANGED <<count, depth>>
       \/ /\ count # 0
          /\ count' = count - 1
          /\ depth' = [depth EXCEPT ![t] = @ - 1]
          /\ UNCHANGED <<owner, pc>>
    /\ UNCHANGED base

ReleaseBase(t) ==
    /\ pc[t] = "rel_base"
    /\ base' = 0
    /\ depth' = [depth EXCEPT ![t] = 0]
    /\ Goto(t, "run")
    /\ UNCHANGED <<owner, count>>

Next == \E t \in Threads :
    \/ AcquireReadOwner(t) \/ AcquireBase(t) \/ SetOwner(t)
    \/ TryReadOwner(t) \/ TryBase(t) \/ Release(t) \/ ReleaseBase(t)

Spec == Init /\ [][Next]_vars

(* What a thread inside a call, or inside the lock, does to get out of it. *)
Step(t) ==
    \/ AcquireBase(t) \/ SetOwner(t) \/ TryBase(t) \/ Release(t) \/ ReleaseBase(t)
-----------------------------------------------------------------------------
TypeOK ==
    /\ base \in {0, 1} /\ owner \in Threads \cup {Null}
    /\ count \in 0 .. MaxDepth - 1
    /\ pc \in [Threads -> {"run", "acq_base", "set_owner", "try_base", "rel_base"}]
    /\ depth \in [Threads -> 0 .. MaxDepth]

Inside(t) == depth[t] > 0 \/ pc[t] = "set_owner"
Holding == {t \in Threads : Inside(t)}

(* recursive_lock.h:205-206: over a base lock whose tryacquire answers "1  *)
(* for success, 0 for failure", only one thread is inside the lock.        *)
MutualExclusion == \A t, u \in Holding : t = u

(* owner and count, which are written outside any atomic section, agree    *)
(* with who is inside: the thread whose calls are all over finds itself in *)
(* owner, so it never waits for a lock it already holds, and the base lock *)
(* is given back by the release that matches the first acquire.            *)
OwnerAgrees ==
    /\ \A t \in Threads : pc[t] = "run" /\ depth[t] > 0 =>
           owner = t /\ count = depth[t] - 1 /\ base = 1
    /\ \A t \in Threads : owner = t => pc[t] = "run" /\ depth[t] > 0
    /\ owner = Null => count = 0

(* What the proofs ask of the constants.                                   *)
Parameters == CaslockBase = FALSE /\ Null \notin Threads /\ MaxDepth \in Nat \ {0}

(* What these rest on: the base lock is taken exactly while one thread is  *)
(* inside, and only that one has releases to come.                         *)
RecInv ==
    /\ TypeOK /\ OwnerAgrees
    /\ base = 0 => Holding = {}
    /\ base = 1 => \E t \in Threads : Holding = {t}
    /\ \A t \in Threads :
           /\ pc[t] \in {"acq_base", "try_base", "set_owner"} => depth[t] = 0
           /\ pc[t] = "rel_base" => depth[t] = 1

HolderOf == IF Holding = {} THEN Null ELSE CHOOSE t \in Holding : TRUE

Waiting == {t \in Threads : pc[t] = "acq_base"}

Lock == INSTANCE Mutex
            WITH waiting <- Waiting, holder <- HolderOf, NoThread <- Null
=============================================================================
