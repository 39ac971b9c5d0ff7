----------------------------- MODULE ArrayLock -----------------------------
(***************************************************************************)
(* libvsync/include/vsync/spinlock/arraylock.h.  tail is an 8-bit counter: *)
(* Modulus stands for 2^8, of which FlagsLen, a power of two, is a         *)
(* divisor.  One step is one access to tail or to a flag.                  *)
(***************************************************************************)
EXTENDS Integers, FiniteSets

CONSTANTS Threads, Null, FlagsLen, Modulus

VARIABLES
    tail, flags,    \* arraylock_t
    pc,
    slot            \* the slot acquire hands to release, of each thread

vars == <<tail, flags, pc, slot>>

Slots == 0 .. FlagsLen - 1

Init ==
    /\ tail = 0
    /\ flags = [s \in Slots |-> IF s = 0 THEN 1 ELSE 0]
    /\ pc = [t \in Threads |-> "idle"]
    /\ slot = [t \in Threads |-> 0]

Goto(t, l) == pc' = [pc EXCEPT ![t] = l]

AcquireSaturate(t) ==
    /\ pc[t] = "idle"
    /\ tail' = IF tail + 1 = Modulus THEN tail ELSE tail + 1
    /\ slot' = [slot EXCEPT ![t] = tail % FlagsLen]
    /\ Goto(t, "await")
    /\ UNCHANGED flags

Acquire(t) ==
    /\ pc[t] = "idle"
    /\ tail' = (tail + 1) % Modulus
    /\ slot' = [slot EXCEPT ![t] = tail % FlagsLen]
    /\ Goto(t, "await")
    /\ UNCHANGED flags

AcquireAwait(t) ==
    /\ pc[t] = "await"
    /\ flags[slot[t]] # 0
    /\ Goto(t, "cs")
    /\ UNCHANGED <<tail, flags, slot>>

ReleaseClear(t) ==
    /\ pc[t] = "cs"
    /\ flags' = [flags EXCEPT ![slot[t]] = 0]
    /\ Goto(t, "grant")
    /\ UNCHANGED <<tail, slot>>

ReleaseGrant(t) ==
    /\ pc[t] = "grant"
    /\ flags' = [flags EXCEPT ![(slot[t] + 1) % FlagsLen] = 1]
    /\ Goto(t, "idle")
    /\ UNCHANGED <<tail, slot>>

Step(t) == AcquireAwait(t) \/ ReleaseClear(t) \/ ReleaseGrant(t)

Next == \E t \in Threads : Acquire(t) \/ Step(t)

Spec == Init /\ [][Next]_vars
-----------------------------------------------------------------------------
Holding == {t \in Threads : pc[t] \in {"cs", "grant"}}
Queued == {t \in Threads : pc[t] \in {"await", "cs", "grant"}}

(* The slot whose turn it is: the flagged one, or the one of the thread    *)
(* that has cleared its flag and not yet set the next.                     *)
Turn ==
    LET clearing == {t \in Threads : pc[t] = "grant"}
        flagged == {s \in Slots : flags[s] = 1}
    IN  IF clearing # {} THEN slot[CHOOSE t \in clearing : TRUE]
        ELSE IF flagged # {} THEN CHOOSE s \in flagged : TRUE ELSE 0

(* How far slot s is from its turn. *)
Distance(s) == (s - Turn) % FlagsLen

(* One flag is set, except while a release is between its two writes; the  *)
(* queued threads occupy the slots from the turn up to tail, one each,     *)
(* also after the 8-bit tail has wrapped and with as many threads as       *)
(* slots.                                                                  *)
SlotInv ==
    /\ tail \in 0 .. Modulus - 1
    /\ Cardinality({s \in Slots : flags[s] = 1}) =
           IF \E t \in Threads : pc[t] = "grant" THEN 0 ELSE 1
    /\ \A t, u \in Queued : slot[t] = slot[u] => t = u
    /\ \A t \in Queued : Distance(slot[t]) < Cardinality(Queued)
    /\ (Turn + Cardinality(Queued)) % FlagsLen = tail % FlagsLen

(* Two threads are never between acquire and the end of release.           *)
MutualExclusion == \A t, u \in Holding : t = u

Queue == [i \in 1 .. Cardinality(Queued) |->
            LET at == {t \in Queued : Distance(slot[t]) = i - 1}
            IN  IF at = {} THEN Null ELSE CHOOSE t \in at : TRUE]

Fifo == INSTANCE FifoMutex WITH queue <- Queue, held <- Holding # {}
=============================================================================
