------------------------------ MODULE SeqCount ------------------------------
(***************************************************************************)
(* libvsync/include/vsync/spinlock/seqcount.h: as SeqLock, for one writer, *)
(* and a reader does not wait for an even value but rounds it down.        *)
(* The proofs about seqlock.h, L below, follow those about seqcount.h.     *)
(***************************************************************************)
EXTENDS Integers, TLAPS

CONSTANTS
    Readers, Modulus, MaxLag, Versions,
    Writers     \* of seqlock.h

VARIABLES
    sc,          \* seqcount_t
    x, y,        \* the data the counter protects
    wpc, ws,     \* the writer: control, s of seqcount_wbegin
    pc, s,       \* each reader: control, s of seqcount_rbegin
    rx, ry,      \* what a reader has read
    lag          \* writes begun since a reader's rbegin (auxiliary)

writer == <<wpc, ws>>
reader == <<pc, s, rx, ry>>
vars == <<sc, x, y, writer, reader, lag>>

SEQCOUNT_STEP == 2
RoundDown(n) == n - (n % 2)

Init ==
    /\ sc = 0 /\ x = 0 /\ y = 0
    /\ wpc = "idle" /\ ws = 0
    /\ pc = [t \in Readers |-> "idle"]
    /\ s = [t \in Readers |-> 0]
    /\ rx = [t \in Readers |-> 0]
    /\ ry = [t \in Readers |-> 0]
    /\ lag = [t \in Readers |-> 0]

Reading(t) == pc[t] # "idle"

WBeginRead ==
    /\ wpc = "idle"
    /\ ws' = sc
    /\ wpc' = "begin"
    /\ UNCHANGED <<sc, x, y, reader, lag>>

WBeginWrite ==
    /\ wpc = "begin"
    /\ \A t \in Readers : Reading(t) => lag[t] < MaxLag
    /\ sc' = (ws + 1) % Modulus
    /\ lag' = [t \in Readers |-> IF Reading(t) THEN lag[t] + 1 ELSE 0]
    /\ wpc' = "write_x"
    /\ UNCHANGED <<x, y, ws, reader>>

WriteX ==
    /\ wpc = "write_x"
    /\ x' = (x + 1) % Versions
    /\ wpc' = "write_y"
    /\ UNCHANGED <<sc, y, ws, reader, lag>>

WriteY ==
    /\ wpc = "write_y"
    /\ y' = (y + 1) % Versions
    /\ wpc' = "end"
    /\ UNCHANGED <<sc, x, ws, reader, lag>>

WEnd ==
    /\ wpc = "end"
    /\ sc' = (ws + SEQCOUNT_STEP) % Modulus
    /\ wpc' = "idle"
    /\ UNCHANGED <<x, y, ws, reader, lag>>

Goto(t, l) == pc' = [pc EXCEPT ![t] = l]

RBeginNoMask(t) ==
    /\ pc[t] = "idle"
    /\ s' = [s EXCEPT ![t] = sc]
    /\ Goto(t, "x")
    /\ UNCHANGED <<sc, x, y, writer, rx, ry, lag>>

RBegin(t) ==
    /\ pc[t] = "idle"
    /\ s' = [s EXCEPT ![t] = RoundDown(sc)]
    /\ Goto(t, "x")
    /\ UNCHANGED <<sc, x, y, writer, rx, ry, lag>>

ReadX(t) ==
    /\ pc[t] = "x"
    /\ rx' = [rx EXCEPT ![t] = x]
    /\ Goto(t, "y")
    /\ UNCHANGED <<sc, x, y, writer, s, ry, lag>>

ReadY(t) ==
    /\ pc[t] = "y"
    /\ ry' = [ry EXCEPT ![t] = y]
    /\ Goto(t, "rend")
    /\ UNCHANGED <<sc, x, y, writer, s, rx, lag>>

(* What seqcount_rend returns. *)
REnd(t) == sc = s[t]

(* True: the reader keeps its copy; in any case it may read again. *)
Finish(t) ==
    /\ pc[t] = "rend"
    /\ Goto(t, "idle")
    /\ lag' = [lag EXCEPT ![t] = 0]
    /\ UNCHANGED <<sc, x, y, writer, s, rx, ry>>

Next ==
    \/ WBeginRead \/ WBeginWrite \/ WriteX \/ WriteY \/ WEnd
    \/ \E t \in Readers : RBegin(t) \/ ReadX(t) \/ ReadY(t) \/ Finish(t)

Spec == Init /\ [][Next]_vars

(* seqlock.h: the same counter and the same readers, but many writers. *)
L == INSTANCE SeqLock WITH seqcount <- sc, sv <- s
-----------------------------------------------------------------------------
(* seqcount_rend says yes only to a reader whose copy is the pair as it is *)
(* at that moment, also to one that began in the middle of a write.        *)
ReadIsCurrent ==
    \A t \in Readers : pc[t] = "rend" /\ REnd(t) =>
        rx[t] = x /\ ry[t] = y /\ x = y

(* What the proofs need of the constants: a reader ends before the counter *)
(* has come round, counting the write it may have begun in.                *)
Parameters ==
    /\ Modulus \in Nat /\ Modulus % 2 = 0 /\ MaxLag \in Nat /\ 2 * (MaxLag + 1) < Modulus
    /\ Versions \in Nat \ {0}

TypeOK ==
    /\ sc \in 0 .. Modulus - 1 /\ ws \in 0 .. Modulus - 1
    /\ x \in 0 .. Versions - 1 /\ y \in 0 .. Versions - 1
    /\ wpc \in {"idle", "begin", "write_x", "write_y", "end"}
    /\ pc \in [Readers -> {"idle", "x", "y", "rend"}]
    /\ s \in [Readers -> 0 .. Modulus - 1]
    /\ rx \in [Readers -> 0 .. Versions - 1] /\ ry \in [Readers -> 0 .. Versions - 1]
    /\ lag \in [Readers -> 0 .. MaxLag]

Writing == wpc \in {"write_x", "write_y", "end"}

(* The counter is odd exactly while the writer is between wbegin and wend, *)
(* and what the writer has read of it is not stale.                        *)
WriteProgress ==
    /\ sc = IF Writing THEN ws + 1 ELSE IF wpc = "begin" THEN ws ELSE sc
    /\ sc % 2 = IF Writing THEN 1 ELSE 0
    /\ x = IF wpc = "write_y" THEN (y + 1) % Versions ELSE y

(* By how much sc has grown since a reader began between two writes, or in *)
(* the middle of one.  It is never a whole turn of the counter, and 0 only *)
(* when the reader began between two writes and no write has begun since:  *)
(* then what it has read is the pair.                                      *)
Gained(r) == 2 * lag[r] - (IF Writing THEN 1 ELSE 0)
Ahead(r, n) == sc \in {s[r] + n, s[r] + n - Modulus}

ReaderProgress(r) ==
    \/ Ahead(r, Gained(r) + 2)
    \/ /\ Ahead(r, Gained(r))
       /\ lag[r] = 0 => /\ ~Writing
                        /\ pc[r] \in {"y", "rend"} => rx[r] = x
                        /\ pc[r] = "rend" => ry[r] = y

SeqInv ==
    /\ TypeOK /\ WriteProgress
    /\ \A r \in Readers : IF Reading(r) THEN ReaderProgress(r) ELSE lag[r] = 0
-----------------------------------------------------------------------------
(* seqcount_init, with no call under way.                                  *)
LEMMA SeqCountInit == Parameters /\ Init => SeqInv
BY DEF Parameters, Init, SeqInv, TypeOK, WriteProgress, Writing, Reading

(* The writer, which is alone, takes the counter from even to odd to even, *)
(* and every reader two further from it with each write.                   *)
LEMMA SeqCountWriter ==
    ASSUME Parameters, SeqInv,
           WBeginRead \/ WBeginWrite \/ WriteX \/ WriteY \/ WEnd
    PROVE  SeqInv'
<1>. USE DEF Parameters, SeqInv, TypeOK
<1>0. UNCHANGED <<pc, s, rx, ry>> /\ \A r \in Readers : Reading(r)' <=> Reading(r)
  BY DEF WBeginRead, WBeginWrite, WriteX, WriteY, WEnd, reader, Reading
<1>1. CASE WBeginRead
  <2>1. TypeOK' /\ WriteProgress'
    BY <1>0, <1>1 DEF WBeginRead, WriteProgress, Writing
  <2>2. UNCHANGED <<sc, x, y, lag>> /\ Writing' = Writing
    BY <1>1 DEF WBeginRead, Writing
  <2>3. ASSUME NEW r \in Readers PROVE ReaderProgress(r) => ReaderProgress(r)'
    BY <1>0, <2>2 DEF ReaderProgress, Ahead, Gained
  <2>. QED
    BY <1>0, <2>1, <2>2, <2>3
<1>2. CASE WBeginWrite
  <2>1. /\ UNCHANGED <<x, y, ws>> /\ ~Writing /\ Writing'
        /\ sc' = sc + 1 /\ sc' \in 0 .. Modulus - 1
        /\ \A r \in Readers : Reading(r) => lag[r] < MaxLag
        /\ lag' = [r \in Readers |-> IF Reading(r) THEN lag[r] + 1 ELSE 0]
    BY <1>0, <1>2 DEF WBeginWrite, WriteProgress, Writing
  <2>2. TypeOK' /\ WriteProgress'
    BY <1>0, <1>2, <2>1 DEF WBeginWrite, WriteProgress, Writing
  <2>3. ASSUME NEW r \in Readers, Reading(r) PROVE ReaderProgress(r)'
    <3>1. Gained(r)' = Gained(r) + 1 /\ lag'[r] # 0 /\ Gained(r) \in Int
      BY <2>1, <2>3 DEF Gained
    <3>2. ReaderProgress(r)
      BY <2>3
    <3>. QED
      BY <1>0, <2>1, <3>1, <3>2 DEF ReaderProgress, Ahead
  <2>. QED
    BY <1>0, <2>1, <2>2, <2>3
<1>3. CASE WriteX \/ WriteY
  <2>1. TypeOK' /\ WriteProgress'
    BY <1>0, <1>3 DEF WriteX, WriteY, WriteProgress, Writing
  <2>2. UNCHANGED <<sc, lag>> /\ Writing /\ Writing'
    BY <1>3 DEF WriteX, WriteY, Writing
  <2>3. ASSUME NEW r \in Readers PROVE ReaderProgress(r) => ReaderProgress(r)'
    BY <1>0, <2>2 DEF ReaderProgress, Ahead, Gained
  <2>. QED
    BY <1>0, <2>1, <2>2, <2>3
<1>4. CASE WEnd
  <2>1. /\ UNCHANGED <<x, y, ws, lag>> /\ Writing /\ ~Writing'
        /\ sc' \in {sc + 1, sc + 1 - Modulus} /\ sc' \in 0 .. Modulus - 1
        /\ sc' % 2 = 0
    BY <1>0, <1>4 DEF WEnd, SEQCOUNT_STEP, WriteProgress, Writing
  <2>2. TypeOK' /\ WriteProgress'
    BY <1>0, <1>4, <2>1 DEF WEnd, WriteProgress, Writing
  <2>3. ASSUME NEW r \in Readers, Reading(r) PROVE ReaderProgress(r)'
    <3>1. Gained(r)' = Gained(r) + 1 /\ Gained(r) \in Int /\ Gained(r) + 3 < Modulus
      BY <2>1 DEF Gained
    <3>2. ReaderProgress(r)
      BY <2>3
    <3>. QED
      BY <1>0, <2>1, <3>1, <3>2 DEF ReaderProgress, Ahead
  <2>. QED
    BY <1>0, <2>1, <2>2, <2>3
<1>. QED
  BY <1>1, <1>2, <1>3, <1>4

(* A reader may begin in the middle of a write, whose even number it then  *)
(* takes; what it reads is of no effect on the others.                     *)
LEMMA SeqCountReader ==
    ASSUME Parameters, SeqInv, NEW t \in Readers,
           RBegin(t) \/ ReadX(t) \/ ReadY(t) \/ Finish(t)
    PROVE  SeqInv'
<1>. USE DEF Parameters, SeqInv, TypeOK
<1>0. /\ UNCHANGED <<sc, x, y, wpc, ws>> /\ Writing' = Writing
      /\ \A r \in Readers \ {t} :
             pc'[r] = pc[r] /\ s'[r] = s[r] /\ rx'[r] = rx[r] /\ ry'[r] = ry[r] /\ lag'[r] = lag[r]
  BY DEF RBegin, ReadX, ReadY, Finish, Goto, writer, Writing
<1>1. TypeOK' /\ WriteProgress'
  <2>1. RoundDown(sc) \in 0 .. Modulus - 1
    BY DEF RoundDown
  <2>2. /\ pc' \in [Readers -> {"idle", "x", "y", "rend"}]
        /\ s' \in [Readers -> 0 .. Modulus - 1]
        /\ rx' \in [Readers -> 0 .. Versions - 1] /\ ry' \in [Readers -> 0 .. Versions - 1]
        /\ lag' \in [Readers -> 0 .. MaxLag]
    BY <2>1 DEF RBegin, ReadX, ReadY, Finish, Goto
  <2>. QED
    BY <1>0, <2>2 DEF WriteProgress
<1>2. ASSUME NEW r \in Readers
      PROVE  IF Reading(r)' THEN ReaderProgress(r)' ELSE lag'[r] = 0
  <2>1. CASE r # t
    BY <1>0, <2>1 DEF Reading, ReaderProgress, Ahead, Gained
  <2>2. CASE r = t /\ RBegin(t)
    <3>1. lag'[t] = 0 /\ s'[t] = RoundDown(sc) /\ pc'[t] = "x"
      BY <2>2 DEF RBegin, Goto, Reading
    <3>2. CASE Writing
      <4>1. sc = s'[t] + 1 /\ Gained(t)' = 0 - 1
        BY <1>0, <3>1, <3>2 DEF RoundDown, WriteProgress, Gained
      <4>. QED
        BY <1>0, <2>2, <3>1, <4>1 DEF ReaderProgress, Ahead, Reading
    <3>3. CASE ~Writing
      <4>1. sc = s'[t]
        BY <3>1, <3>3 DEF RoundDown, WriteProgress
      <4>2. ~Writing'
        BY <1>0, <3>3 DEF Writing
      <4>3. Gained(t)' = 0
        <5>1. Gained(t)' = 2 * lag'[t] - 0
          BY <4>2 DEF Gained
        <5>. QED
          BY <3>1, <5>1
      <4>. QED
        BY <1>0, <2>2, <3>1, <3>3, <4>1, <4>2, <4>3 DEF ReaderProgress, Ahead, Reading
    <3>. QED
      BY <3>2, <3>3
  <2>3. CASE r = t /\ (ReadX(t) \/ ReadY(t))
    BY <1>0, <2>3 DEF ReadX, ReadY, Goto, Reading, ReaderProgress, Ahead, Gained
  <2>4. CASE r = t /\ Finish(t)
    BY <2>4 DEF Finish, Goto, Reading
  <2>. QED
    BY <2>1, <2>2, <2>3, <2>4
<1>. QED
  BY <1>1, <1>2

(* Every step of seqcount.h keeps the distance of the readers.             *)
LEMMA SeqCountStep == Parameters /\ SeqInv /\ [Next]_vars => SeqInv'
<1>1. SeqInv /\ UNCHANGED vars => SeqInv'
  BY DEF vars, writer, reader, SeqInv, TypeOK, WriteProgress, ReaderProgress,
         Ahead, Gained, Writing, Reading
<1>. QED
  BY <1>1, SeqCountReader, SeqCountWriter DEF Next

(* seqcount_rend finds its own s only when the reader began between two    *)
(* writes and no write has begun since.                                    *)
LEMMA SeqCountCurrent == Parameters /\ SeqInv => ReadIsCurrent
<1>. SUFFICES ASSUME Parameters, SeqInv, NEW r \in Readers, pc[r] = "rend", REnd(r)
              PROVE  rx[r] = x /\ ry[r] = y /\ x = y
  BY DEF ReadIsCurrent
<1>1. ReaderProgress(r) /\ lag[r] \in 0 .. MaxLag /\ s[r] \in Int
  BY DEF SeqInv, Reading, TypeOK
<1>2. Gained(r) \in -1 .. 2 * MaxLag
  BY <1>1 DEF Gained, Parameters
<1>3. Ahead(r, Gained(r)) /\ Gained(r) = 0 /\ (lag[r] = 0 => rx[r] = x /\ ry[r] = y /\ ~Writing)
  BY <1>1, <1>2 DEF ReaderProgress, Ahead, REnd, Parameters
<1>4. lag[r] = 0
  BY <1>1, <1>3 DEF Gained
<1>. QED
  BY <1>3, <1>4 DEF SeqInv, WriteProgress, Writing
-----------------------------------------------------------------------------
(* The counter of seqlock.h has an even number of values, so that going    *)
(* round keeps odd and even apart.                                         *)
LEMMA SeqInc ==
    ASSUME L!Parameters, NEW n \in 0 .. Modulus - 1
    PROVE  /\ L!Inc(n) \in 0 .. Modulus - 1
           /\ L!Inc(n) = IF n = Modulus - 1 THEN 0 ELSE n + 1
           /\ L!IsEven(L!Inc(n)) <=> ~L!IsEven(n)
BY DEF L!Parameters, L!Inc, L!IsEven

(* seqlock_init, with no call under way.                                   *)
LEMMA SeqLockInit == L!Parameters /\ L!Init => L!SeqInv
BY DEF L!Parameters, L!Init, L!SeqInv, L!TypeOK, L!OddWhileWriting, L!WriteProgress,
       L!Writing, L!Reading, L!Clients, L!IsEven

(* Steps of a reader change neither the counter nor the pair.              *)
LEMMA SeqLockReader ==
    ASSUME L!Parameters, L!SeqInv, NEW t \in Readers, L!Reader(t)
    PROVE  L!SeqInv'
<1>0. /\ t \notin Writers /\ t \in L!Clients
      /\ Readers \subseteq L!Clients /\ Writers \subseteq L!Clients
  BY DEF L!Parameters, L!Clients
<1>1. /\ UNCHANGED <<sc, x, y>>
      /\ pc' \in [L!Clients -> {"idle", "cas", "write_x", "write_y", "rel_read", "rel_write",
                             "x", "y", "rend", "ok"}]
      /\ pc'[t] \in {"idle", "x", "y", "rend", "ok"}
      /\ \A u \in L!Clients \ {t} : pc'[u] = pc[u] /\ s'[u] = s[u]
      /\ \A u \in Readers \ {t} : rx'[u] = rx[u] /\ ry'[u] = ry[u] /\ lag'[u] = lag[u]
  BY <1>0 DEF L!SeqInv, L!TypeOK, L!Reader, L!RBegin, L!ReadX, L!ReadY, L!REnd, L!Use, L!Goto,
     L!AwaitEven
<1>2. L!Writing' = L!Writing
  BY <1>0, <1>1 DEF L!Writing
<1>3. L!TypeOK'
  <2>1. 0 \in 0 .. MaxLag
    BY DEF L!Parameters
  <2>2. /\ s' \in [L!Clients -> 0 .. Modulus - 1]
        /\ rx' \in [Readers -> 0 .. Versions - 1] /\ ry' \in [Readers -> 0 .. Versions - 1]
        /\ lag' \in [Readers -> 0 .. MaxLag]
    BY <1>0, <2>1 DEF L!SeqInv, L!TypeOK, L!Reader, L!RBegin, L!ReadX, L!ReadY, L!REnd, L!Use,
       L!AwaitEven
  <2>3. \A u \in Writers : ~L!Reading(u)'
    BY <1>0, <1>1 DEF L!SeqInv, L!TypeOK, L!Reading
  <2>4. \A u \in Readers : pc'[u] \in {"idle", "x", "y", "rend", "ok"}
    BY <1>0, <1>1 DEF L!SeqInv, L!TypeOK
  <2>. QED
    BY <1>1, <2>2, <2>3, <2>4 DEF L!SeqInv, L!TypeOK, L!Clients
<1>4. L!OddWhileWriting'
  <2>1. \A u \in Readers : L!Reading(u)' => L!IsEven(s'[u])
    BY <1>0, <1>1 DEF L!SeqInv, L!TypeOK, L!OddWhileWriting, L!Reading, L!Reader, L!RBegin, L!ReadX,
       L!ReadY, L!REnd, L!Use, L!Goto, L!AwaitEven
  <2>. QED
    BY <1>0, <1>1, <1>2, <2>1 DEF L!SeqInv, L!OddWhileWriting
<1>5. L!WriteProgress'
  BY <1>0, <1>1 DEF L!SeqInv, L!WriteProgress
<1>6. \A r \in Readers : ~L!Reading(r)' => lag'[r] = 0
  BY <1>0, <1>1 DEF L!SeqInv, L!TypeOK, L!Reading, L!Reader, L!RBegin, L!ReadX, L!ReadY, L!REnd,
     L!Use, L!Goto
<1>7. ASSUME NEW r \in Readers, L!Reading(r)'
      PROVE  L!ReaderProgress(r)'
  <2>1. CASE r # t
    BY <1>0, <1>1, <1>2, <1>7, <2>1 DEF L!SeqInv, L!Reading, L!ReaderProgress, L!Gained
  <2>2. CASE r = t /\ L!RBegin(t)
    BY <1>0, <1>1, <1>2, <2>2 DEF L!SeqInv, L!TypeOK, L!Reading, L!ReaderProgress, L!Gained,
       L!RBegin, L!AwaitEven, L!OddWhileWriting, L!Goto
  <2>3. CASE r = t /\ L!ReadX(t)
    BY <1>0, <1>1, <1>2, <2>3 DEF L!SeqInv, L!TypeOK, L!Reading, L!ReaderProgress, L!Gained,
       L!ReadX, L!Goto
  <2>4. CASE r = t /\ L!ReadY(t)
    BY <1>0, <1>1, <1>2, <2>4 DEF L!SeqInv, L!TypeOK, L!Reading, L!ReaderProgress, L!Gained,
       L!ReadY, L!Goto
  <2>5. CASE r = t /\ (L!REnd(t) \/ L!Use(t))
    BY <1>0, <1>1, <1>7, <2>5 DEF L!SeqInv, L!TypeOK, L!Reading, L!REnd, L!Use, L!Goto
  <2>. QED
    BY <2>1, <2>2, <2>3, <2>4, <2>5 DEF L!Reader
<1>8. \A u \in Writers : pc'[u] = "cas" => L!IsEven(s'[u])
  BY <1>0, <1>1 DEF L!SeqInv
<1>. QED
  BY <1>3, <1>4, <1>5, <1>6, <1>7, <1>8 DEF L!SeqInv

(* A writer takes the counter from even to odd and back; a reader that is  *)
(* between rbegin and rend counts the write when it begins.                *)
LEMMA SeqLockWriter ==
    ASSUME L!Parameters, L!SeqInv, NEW t \in Writers, L!Writer(t)
    PROVE  L!SeqInv'
<1>. USE DEF L!SeqInv, L!TypeOK, L!Goto
<1>0. /\ t \notin Readers /\ t \in L!Clients
      /\ Readers \subseteq L!Clients /\ Writers \subseteq L!Clients
  BY DEF L!Parameters, L!Clients
<1>1. /\ UNCHANGED <<rx, ry>>
      /\ pc' \in [L!Clients -> {"idle", "cas", "write_x", "write_y", "rel_read", "rel_write",
                             "x", "y", "rend", "ok"}]
      /\ ~L!Reading(t)'
      /\ \A u \in L!Clients \ {t} : pc'[u] = pc[u] /\ s'[u] = s[u]
      /\ \A r \in Readers : L!Reading(r)' <=> L!Reading(r)
  BY <1>0 DEF L!Writer, L!AcquireAwait, L!AcquireCas, L!WriteX, L!WriteY, L!ReleaseRead,
     L!ReleaseWrite, L!AwaitEven, L!Reading
<1>2. CASE L!AcquireAwait(t)
  <2>1. UNCHANGED <<sc, x, y, lag>> /\ L!Writing' = L!Writing
    BY <1>0, <1>1, <1>2 DEF L!AcquireAwait, L!Writing
  <2>. QED
    BY <1>0, <1>1, <1>2, <2>1 DEF L!AcquireAwait, L!AwaitEven, L!OddWhileWriting, L!WriteProgress,
       L!ReaderProgress, L!Gained, L!Reading
<1>3. CASE L!AcquireCas(t) /\ sc # s[t]
  <2>1. UNCHANGED <<sc, x, y, s, lag>> /\ L!Writing' = L!Writing
    BY <1>0, <1>1, <1>3 DEF L!AcquireCas, L!Writing
  <2>. QED
    BY <1>0, <1>1, <1>3, <2>1 DEF L!AcquireCas, L!OddWhileWriting, L!WriteProgress,
       L!ReaderProgress, L!Gained, L!Reading
<1>4. CASE L!AcquireCas(t) /\ sc = s[t]
  <2>1. /\ UNCHANGED <<x, y, s>> /\ sc' = L!Inc(sc)
        /\ pc[t] = "cas" /\ pc'[t] = "write_x"
        /\ \A r \in Readers : L!Reading(r) => lag[r] < MaxLag
        /\ lag' = [r \in Readers |-> IF L!Reading(r) THEN lag[r] + 1 ELSE 0]
    BY <1>0, <1>4 DEF L!AcquireCas
  <2>2. L!IsEven(sc) /\ L!Writing = {}
    BY <1>4, <2>1 DEF L!OddWhileWriting
  <2>3. L!Writing' = {t} /\ L!Writing' # {}
    BY <1>0, <1>1, <2>1, <2>2 DEF L!Writing
  <2>4. L!TypeOK'
    BY <1>0, <1>1, <2>1, SeqInc DEF L!Parameters, L!Reading
  <2>5. L!OddWhileWriting'
    <3>1. ~L!IsEven(sc')
      BY <2>1, <2>2, SeqInc
    <3>2. \A u \in Writers : pc'[u] # "rel_write"
      BY <1>0, <1>1, <2>1, <2>2 DEF L!Writing
    <3>3. \A r \in Readers : L!Reading(r)' => L!IsEven(s'[r])
      BY <1>0, <1>1, <2>1 DEF L!OddWhileWriting
    <3>. QED
      BY <2>3, <3>1, <3>2, <3>3 DEF L!OddWhileWriting
  <2>6. L!WriteProgress'
    BY <1>0, <1>1, <2>1, <2>2 DEF L!WriteProgress, L!Writing
  <2>7. ASSUME NEW r \in Readers
        PROVE  (~L!Reading(r)' => lag'[r] = 0) /\ (L!Reading(r)' => L!ReaderProgress(r)')
    BY <1>0, <1>1, <2>1, <2>2, <2>3, SeqInc DEF L!Parameters, L!ReaderProgress, L!Gained
  <2>8. \A u \in Writers : pc'[u] = "cas" => L!IsEven(s'[u])
    BY <1>0, <1>1, <2>1
  <2>. QED
    BY <2>4, <2>5, <2>6, <2>7, <2>8
<1>5. CASE L!WriteX(t)
  <2>1. UNCHANGED <<sc, y, s, lag>> /\ L!Writing' = L!Writing
    BY <1>0, <1>1, <1>5 DEF L!WriteX, L!Writing
  <2>. QED
    BY <1>0, <1>1, <1>5, <2>1 DEF L!Parameters, L!WriteX, L!OddWhileWriting, L!WriteProgress,
       L!ReaderProgress, L!Gained, L!Reading, L!Writing
<1>6. CASE L!WriteY(t)
  <2>1. UNCHANGED <<sc, x, s, lag>> /\ L!Writing' = L!Writing
    BY <1>0, <1>1, <1>6 DEF L!WriteY, L!Writing
  <2>. QED
    BY <1>0, <1>1, <1>6, <2>1 DEF L!Parameters, L!WriteY, L!OddWhileWriting, L!WriteProgress,
       L!ReaderProgress, L!Gained, L!Reading, L!Writing
<1>7. CASE L!ReleaseRead(t)
  <2>1. UNCHANGED <<sc, x, y, lag>> /\ L!Writing' = L!Writing
    BY <1>0, <1>1, <1>7 DEF L!ReleaseRead, L!Writing
  <2>. QED
    BY <1>0, <1>1, <1>7, <2>1 DEF L!ReleaseRead, L!OddWhileWriting, L!WriteProgress,
       L!ReaderProgress, L!Gained, L!Reading
<1>8. CASE L!ReleaseWrite(t)
  <2>1. /\ UNCHANGED <<x, y, s, lag>> /\ sc' = L!Inc(sc)
        /\ pc[t] = "rel_write" /\ pc'[t] = "idle"
    BY <1>0, <1>8 DEF L!ReleaseWrite, L!OddWhileWriting
  <2>2. ~L!IsEven(sc) /\ L!Writing = {t}
    BY <1>0, <2>1 DEF L!OddWhileWriting, L!Writing
  <2>3. L!Writing' = {}
    BY <1>0, <1>1, <2>1, <2>2 DEF L!Writing
  <2>4. L!TypeOK'
    BY <1>0, <1>1, <2>1, SeqInc DEF L!Parameters, L!Reading
  <2>5. L!OddWhileWriting'
    <3>1. L!IsEven(sc')
      BY <2>1, <2>2, SeqInc
    <3>2. \A u \in Writers : pc'[u] # "rel_write"
      BY <1>0, <1>1, <2>1, <2>2 DEF L!Writing
    <3>3. \A r \in Readers : L!Reading(r)' => L!IsEven(s'[r])
      BY <1>0, <1>1, <2>1 DEF L!OddWhileWriting
    <3>. QED
      BY <2>3, <3>1, <3>2, <3>3 DEF L!OddWhileWriting
  <2>6. L!WriteProgress'
    BY <1>0, <1>1, <2>1, <2>2, <2>3 DEF L!WriteProgress, L!Writing
  <2>7. ASSUME NEW r \in Readers
        PROVE  (~L!Reading(r)' => lag'[r] = 0) /\ (L!Reading(r)' => L!ReaderProgress(r)')
    BY <1>0, <1>1, <2>1, <2>2, <2>3, SeqInc DEF L!Parameters, L!ReaderProgress, L!Gained
  <2>8. \A u \in Writers : pc'[u] = "cas" => L!IsEven(s'[u])
    BY <1>0, <1>1, <2>1
  <2>. QED
    BY <2>4, <2>5, <2>6, <2>7, <2>8
<1>. QED
  BY <1>2, <1>3, <1>4, <1>5, <1>6, <1>7, <1>8 DEF L!Writer

(* Every step of seqlock.h keeps one writer and the distance of readers.   *)
LEMMA SeqLockStep == L!Parameters /\ L!SeqInv /\ [L!Next]_(L!vars) => L!SeqInv'
<1>1. L!SeqInv /\ UNCHANGED L!vars => L!SeqInv'
  BY DEF L!vars, L!SeqInv, L!TypeOK, L!OddWhileWriting, L!WriteProgress, L!ReaderProgress, L!Gained,
         L!Writing, L!Reading
<1>. QED
  BY <1>1, SeqLockReader, SeqLockWriter DEF L!Next

(* seqlock_rend finds its own s only when no write has begun since rbegin:*)
(* one that has begun moved the counter, and not once round.               *)
LEMMA SeqLockCurrent == L!Parameters /\ L!SeqInv => L!ReadIsCurrent
<1>. SUFFICES ASSUME L!Parameters, L!SeqInv, NEW r \in Readers, pc[r] = "rend", L!REndOk(r)
              PROVE  rx[r] = x /\ ry[r] = y /\ x = y
  BY DEF L!ReadIsCurrent
<1>1. L!ReaderProgress(r) /\ lag[r] \in 0 .. MaxLag /\ s[r] \in Int
  BY DEF L!SeqInv, L!Reading, L!TypeOK, L!Clients
<1>2. lag[r] = 0
  BY <1>1 DEF L!Parameters, L!ReaderProgress, L!Gained, L!REndOk
<1>. QED
  BY <1>1, <1>2 DEF L!ReaderProgress, L!SeqInv, L!WriteProgress, L!Writing
=============================================================================
