------------------------------- MODULE SeqLock -------------------------------
(***************************************************************************)
(* libvsync/include/vsync/spinlock/seqlock.h.  The writers update a pair   *)
(* x, y in two steps, the readers read it in two steps and repeat until    *)
(* seqlock_rend returns true.                                              *)
(*                                                                         *)
(* seqcount is a 32-bit counter; Modulus, even, stands for 2^32.  A reader *)
(* is fooled when exactly 2^31 writes fall between rbegin and rend; MaxLag *)
(* bounds the writes that may begin meanwhile.  x and y count writes       *)
(* modulo Versions.                                                        *)
(***************************************************************************)
EXTENDS Integers

CONSTANTS Writers, Readers, Modulus, MaxLag, Versions

VARIABLES
    seqcount,    \* seqlock_t
    x, y,        \* the data the lock protects
    pc,
    sv,          \* count of seqlock_acquire, cur_val of release, sv of a reader
    rx, ry,      \* what a reader has read
    lag          \* writes begun since a reader's rbegin (auxiliary)

vars == <<seqcount, x, y, pc, sv, rx, ry, lag>>
Clients == Writers \cup Readers

IsEven(n) == n % 2 = 0
Inc(n) == (n + 1) % Modulus

Init ==
    /\ seqcount = 0 /\ x = 0 /\ y = 0
    /\ pc = [t \in Clients |-> "idle"]
    /\ sv = [t \in Clients |-> 0]
    /\ rx = [t \in Readers |-> 0]
    /\ ry = [t \in Readers |-> 0]
    /\ lag = [t \in Readers |-> 0]

Goto(t, l) == pc' = [pc EXCEPT ![t] = l]
Reading(t) == pc[t] \in {"x", "y", "rend"}

(* _seqlock_await_even of a writer, of a reader. *)
AwaitAny(t) == sv' = [sv EXCEPT ![t] = seqcount]
AwaitEven(t) == IsEven(seqcount) /\ sv' = [sv EXCEPT ![t] = seqcount]

AcquireAwait(t) ==
    /\ pc[t] = "idle"
    /\ AwaitEven(t)
    /\ Goto(t, "cas")
    /\ UNCHANGED <<seqcount, x, y, rx, ry, lag>>

AcquireCas(t) ==
    /\ pc[t] = "cas"
    /\ \/ /\ seqcount = sv[t]
          /\ \A r \in Readers : Reading(r) => lag[r] < MaxLag
          /\ seqcount' = Inc(sv[t])
          /\ lag' = [r \in Readers |-> IF Reading(r) THEN lag[r] + 1 ELSE 0]
          /\ Goto(t, "write_x")
       \/ /\ seqcount # sv[t]
          /\ Goto(t, "idle")
          /\ UNCHANGED <<seqcount, lag>>
    /\ UNCHANGED <<x, y, sv, rx, ry>>

WriteX(t) ==
    /\ pc[t] = "write_x"
    /\ x' = (x + 1) % Versions
    /\ Goto(t, "write_y")
    /\ UNCHANGED <<seqcount, y, sv, rx, ry, lag>>

WriteY(t) ==
    /\ pc[t] = "write_y"
    /\ y' = (y + 1) % Versions
    /\ Goto(t, "rel_read")
    /\ UNCHANGED <<seqcount, x, sv, rx, ry, lag>>

ReleaseRead(t) ==
    /\ pc[t] = "rel_read"
    /\ sv' = [sv EXCEPT ![t] = seqcount]
    /\ Goto(t, "rel_write")
    /\ UNCHANGED <<seqcount, x, y, rx, ry, lag>>

ReleaseWrite(t) ==
    /\ pc[t] = "rel_write"
    /\ seqcount' = Inc(sv[t])
    /\ Goto(t, "idle")
    /\ UNCHANGED <<x, y, sv, rx, ry, lag>>

RBegin(t) ==
    /\ pc[t] = "idle"
    /\ AwaitEven(t)
    /\ Goto(t, "x")
    /\ UNCHANGED <<seqcount, x, y, rx, ry, lag>>

ReadX(t) ==
    /\ pc[t] = "x"
    /\ rx' = [rx EXCEPT ![t] = x]
    /\ Goto(t, "y")
    /\ UNCHANGED <<seqcount, x, y, sv, ry, lag>>

ReadY(t) ==
    /\ pc[t] = "y"
    /\ ry' = [ry EXCEPT ![t] = y]
    /\ Goto(t, "rend")
    /\ UNCHANGED <<seqcount, x, y, sv, rx, lag>>

(* What seqlock_rend returns. *)
REndOk(t) == seqcount = sv[t]

(* True: the reader keeps what it read; false: it starts again. *)
REnd(t) ==
    /\ pc[t] = "rend"
    /\ Goto(t, IF REndOk(t) THEN "ok" ELSE "idle")
    /\ lag' = [lag EXCEPT ![t] = 0]
    /\ UNCHANGED <<seqcount, x, y, sv, rx, ry>>

(* The reader uses its copy and may read again. *)
Use(t) ==
    /\ pc[t] = "ok"
    /\ Goto(t, "idle")
    /\ UNCHANGED <<seqcount, x, y, sv, rx, ry, lag>>

Writer(t) ==
    \/ AcquireAwait(t) \/ AcquireCas(t) \/ WriteX(t) \/ WriteY(t)
    \/ ReleaseRead(t) \/ ReleaseWrite(t)
Reader(t) == RBegin(t) \/ ReadX(t) \/ ReadY(t) \/ REnd(t) \/ Use(t)

Next == (\E t \in Writers : Writer(t)) \/ (\E t \in Readers : Reader(t))

Spec == Init /\ [][Next]_vars
-----------------------------------------------------------------------------
Writing == {t \in Writers : pc[t] \in {"write_x", "write_y", "rel_read", "rel_write"}}

(* One writer at a time, and seqcount is odd exactly while there is one:   *)
(* so the assertion of seqlock_release (seqlock.h:118) holds.              *)
OddWhileWriting ==
    /\ \A t, u \in Writing : t = u
    /\ ~IsEven(seqcount) <=> Writing # {}
    /\ \A t \in Writers : pc[t] = "rel_write" => sv[t] = seqcount
    /\ \A t \in Readers : Reading(t) => IsEven(sv[t])

(* seqlock_rend says yes only to a reader whose copy is the pair as it is  *)
(* at that moment: no write is half seen, none was missed.                 *)
ReadIsCurrent ==
    \A t \in Readers : pc[t] = "rend" /\ REndOk(t) =>
        rx[t] = x /\ ry[t] = y /\ x = y

(* What the proofs need of the constants: Modulus is even and a reader     *)
(* ends before the counter has come round.                                 *)
Parameters ==
    /\ Writers \cap Readers = {}
    /\ Modulus \in Nat /\ IsEven(Modulus) /\ MaxLag \in Nat /\ 2 * MaxLag < Modulus
    /\ Versions \in Nat \ {0}

(* What ReadIsCurrent rests on.  While a reader is between rbegin and rend *)
(* seqcount is ahead of its sv by two for every write begun meanwhile, less*)
(* one if the last of them is under way: not once round the counter.  With *)
(* no write begun, what it has read is the pair.                           *)
TypeOK ==
    /\ seqcount \in 0 .. Modulus - 1
    /\ x \in 0 .. Versions - 1 /\ y \in 0 .. Versions - 1
    /\ pc \in [Clients -> {"idle", "cas", "write_x", "write_y", "rel_read", "rel_write",
                           "x", "y", "rend", "ok"}]
    /\ \A t \in Writers : ~Reading(t)
    /\ \A t \in Readers : pc[t] \in {"idle", "x", "y", "rend", "ok"}
    /\ sv \in [Clients -> 0 .. Modulus - 1]
    /\ rx \in [Readers -> 0 .. Versions - 1] /\ ry \in [Readers -> 0 .. Versions - 1]
    /\ lag \in [Readers -> 0 .. MaxLag]

Gained(r) == 2 * lag[r] - (IF Writing = {} THEN 0 ELSE 1)

WriteProgress ==
    x = IF \E t \in Writers : pc[t] = "write_y" THEN (y + 1) % Versions ELSE y

ReaderProgress(r) ==
    /\ seqcount \in {sv[r] + Gained(r), sv[r] + Gained(r) - Modulus}
    /\ lag[r] = 0 =>
           /\ Writing = {}
           /\ pc[r] \in {"y", "rend"} => rx[r] = x
           /\ pc[r] = "rend" => ry[r] = y

SeqInv ==
    /\ TypeOK /\ OddWhileWriting /\ WriteProgress
    /\ \A t \in Writers : pc[t] = "cas" => IsEven(sv[t])
    /\ \A r \in Readers : ~Reading(r) => lag[r] = 0
    /\ \A r \in Readers : Reading(r) => ReaderProgress(r)
==============================================================================
