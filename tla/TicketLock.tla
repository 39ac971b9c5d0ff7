----------------------------- MODULE TicketLock -----------------------------
(***************************************************************************)
(* libvsync/include/vsync/spinlock/ticketlock.h.  One step is one access   *)
(* to an atomic variable; the accesses are sequentially consistent         *)
(* (libvsync/include/vsync/atomic/config.h).                               *)
(***************************************************************************)
EXTENDS Integers, FiniteSets, Sequences, FiniteSetTheorems, TLAPS

CONSTANTS
    Threads, Null,
    Modulus,   \* the counters wrap: it stands for 2^32
    MaxLag     \* bounds how many tickets are taken between the two accesses of a
               \* tryacquire, whose answer is right only while next has not gone round

ASSUME ThreadsAssumption == IsFiniteSet(Threads) /\ Null \notin Threads

ASSUME TicketAssumption ==
    /\ Modulus \in Nat /\ MaxLag \in Nat
    /\ Cardinality(Threads) < Modulus
    /\ Cardinality(Threads) + MaxLag <= Modulus

VARIABLES
    next, owner,   \* struct ticketlock_s
    pc,            \* where each thread is
    ticket,        \* ticketlock_acquire's ticket, tryacquire's o, release's owner
    lag            \* tickets taken since a tryacquire read owner (auxiliary)

vars == <<next, owner, pc, ticket, lag>>

Word == 0 .. Modulus - 1
Succ(x) == IF x + 1 = Modulus THEN 0 ELSE x + 1
Minus(a, b) == IF a >= b THEN a - b ELSE a - b + Modulus

Init ==
    /\ next = 0 /\ owner = 0
    /\ pc = [t \in Threads |-> "idle"]
    /\ ticket = [t \in Threads |-> 0]
    /\ lag = [t \in Threads |-> 0]

(* Every increment of next ages the owner value of the tryacquires under way. *)
TakeTicket(t) ==
    /\ \A u \in Threads \ {t} : pc[u] = "try" => lag[u] < MaxLag
    /\ next' = Succ(next)
    /\ lag' = [u \in Threads |-> IF u # t /\ pc[u] = "try" THEN lag[u] + 1 ELSE 0]

AcquireIncGet(t) ==
    /\ pc[t] = "idle"
    /\ TakeTicket(t)
    /\ ticket' = [ticket EXCEPT ![t] = Succ(next)]
    /\ pc' = [pc EXCEPT ![t] = "await"]
    /\ UNCHANGED owner

Acquire(t) ==
    /\ pc[t] = "idle"
    /\ TakeTicket(t)
    /\ ticket' = [ticket EXCEPT ![t] = next]
    /\ pc' = [pc EXCEPT ![t] = "await"]
    /\ UNCHANGED owner

AwaitOwner(t) ==
    /\ pc[t] = "await"
    /\ owner = ticket[t]
    /\ pc' = [pc EXCEPT ![t] = "cs"]
    /\ UNCHANGED <<next, owner, ticket, lag>>

TryReadNext(t) ==
    /\ pc[t] = "idle"
    /\ ticket' = [ticket EXCEPT ![t] = next]
    /\ pc' = [pc EXCEPT ![t] = "try"]
    /\ UNCHANGED <<next, owner, lag>>

TryReadOwner(t) ==
    /\ pc[t] = "idle"
    /\ ticket' = [ticket EXCEPT ![t] = owner]
    /\ pc' = [pc EXCEPT ![t] = "try"]
    /\ UNCHANGED <<next, owner, lag>>

TryCas(t) ==
    /\ pc[t] = "try"
    /\ \/ /\ next = ticket[t]
          /\ TakeTicket(t)
          /\ pc' = [pc EXCEPT ![t] = "cs"]
       \/ /\ next # ticket[t]
          /\ lag' = [lag EXCEPT ![t] = 0]
          /\ pc' = [pc EXCEPT ![t] = "idle"]
          /\ UNCHANGED next
    /\ UNCHANGED <<owner, ticket>>

ReleaseReadOwner(t) ==
    /\ pc[t] = "cs"
    /\ ticket' = [ticket EXCEPT ![t] = owner]
    /\ pc' = [pc EXCEPT ![t] = "release"]
    /\ UNCHANGED <<next, owner, lag>>

ReleaseWriteOwner(t) ==
    /\ pc[t] = "release"
    /\ owner' = Succ(ticket[t])
    /\ pc' = [pc EXCEPT ![t] = "idle"]
    /\ UNCHANGED <<next, ticket, lag>>

(* The value ticketlock_has_waiters returns to the holder. *)
HasWaitersOffByOne == Minus(next, owner) >= 1
HasWaiters == Minus(next, owner) > 1

Next == \E t \in Threads :
    \/ Acquire(t) \/ AwaitOwner(t)
    \/ TryReadOwner(t) \/ TryCas(t)
    \/ ReleaseReadOwner(t) \/ ReleaseWriteOwner(t)

Spec == Init /\ [][Next]_vars

(* What a thread inside a call, or in its critical section, does next.     *)
Step(t) ==
    \/ AwaitOwner(t) \/ TryCas(t) \/ ReleaseReadOwner(t) \/ ReleaseWriteOwner(t)
-----------------------------------------------------------------------------
Holding == {t \in Threads : pc[t] \in {"cs", "release"}}
Queued == {t \in Threads : pc[t] \in {"await", "cs", "release"}}

TypeOK ==
    /\ next \in Word /\ owner \in Word
    /\ pc \in [Threads -> {"idle", "await", "try", "cs", "release"}]
    /\ ticket \in [Threads -> Word]
    /\ lag \in [Threads -> 0..MaxLag]

(* Two threads are never between acquire (or a successful tryacquire) and  *)
(* the end of release, however often the two counters wrap.                *)
MutualExclusion == \A t, u \in Holding : t = u

(* ticketlock_has_waiters, called by the holder, is TRUE exactly when some *)
(* thread has taken a ticket and still awaits its turn.                    *)
HasWaitersExact ==
    \A t \in Holding : HasWaiters <=> (Queued \ {t} # {})

(* The tickets between owner and next are exactly those held by the        *)
(* threads in the queue, so no ticket is lost and none is handed out twice.*)
TicketsInQueue ==
    /\ Minus(next, owner) = Cardinality(Queued)
    /\ \A t \in Queued : Minus(ticket[t], owner) < Cardinality(Queued)
    /\ \A t, u \in Queued : ticket[t] = ticket[u] => t = u

(* The holder's ticket, and the owner value its release has read, is owner. *)
HolderAtOwner == \A t \in Holding : ticket[t] = owner

(* While a tryacquire is under way neither counter has lapped the owner    *)
(* value it read: next = o still means that the lock is free.              *)
TryNotLapped ==
    \A t \in Threads : pc[t] = "try" =>
        /\ Minus(next, ticket[t]) <= Cardinality(Threads) - 1 + lag[t]
        /\ Minus(owner, ticket[t]) + Minus(next, owner) = Minus(next, ticket[t])

(* Why the counters of ticketlock.h keep two threads apart across the wrap *)
(* of 2^32: the inductive invariant of the lock.                           *)
TicketInv == TicketsInQueue /\ HolderAtOwner /\ TryNotLapped

(* The threads in the queue, in the order of their tickets.                *)
Queue == [i \in 1..Cardinality(Queued) |->
            LET at == {t \in Queued : Minus(ticket[t], owner) = i - 1}
            IN  IF at = {} THEN Null ELSE CHOOSE t \in at : TRUE]

(* Granted in the order of the accesses to next. *)
Fifo == INSTANCE FifoMutex WITH queue <- Queue, held <- Holding # {}
-----------------------------------------------------------------------------
N == Cardinality(Threads)

(* The queue is a finite set, no larger than the set of threads, and       *)
(* smaller if some thread is outside it: the bound the wrap rests on.      *)
LEMMA QueuedBound ==
    /\ IsFiniteSet(Queued) /\ Cardinality(Queued) \in Nat
    /\ N \in Nat /\ Cardinality(Queued) <= N
    /\ \A t \in Threads \ Queued : Cardinality(Queued) <= N - 1
<1>1. IsFiniteSet(Threads) /\ Queued \subseteq Threads
  BY ThreadsAssumption DEF Queued
<1>2. IsFiniteSet(Queued) /\ Cardinality(Queued) <= N
  BY <1>1, FS_Subset DEF N
<1>3. N \in Nat /\ Cardinality(Queued) \in Nat
  BY <1>1, <1>2, FS_CardinalityType DEF N
<1>4. ASSUME NEW t \in Threads \ Queued PROVE Cardinality(Queued) <= N - 1
  <2>1. Queued \subseteq Threads \ {t}
    BY <1>1
  <2>2. IsFiniteSet(Threads \ {t}) /\ Cardinality(Threads \ {t}) = N - 1
    BY <1>1, FS_RemoveElement DEF N
  <2>. QED
    BY <2>1, <2>2, FS_Subset
<1>. QED
  BY <1>2, <1>3, <1>4

(* Wrapping successor and difference of two counters, the only arithmetic  *)
(* ticketlock.h does.                                                      *)
LEMMA WordArith ==
    ASSUME NEW a \in Word, NEW b \in Word
    PROVE  /\ Succ(a) \in Word /\ Minus(a, b) \in Word /\ Minus(a, b) \in Nat
           /\ Minus(a, a) = 0
           /\ Minus(a, b) = 0 => a = b
           /\ Minus(a, b) + 1 < Modulus => Minus(Succ(a), b) = Minus(a, b) + 1
           /\ Minus(a, b) > 0 => Minus(a, Succ(b)) = Minus(a, b) - 1
BY TicketAssumption DEF Word, Succ, Minus

(* Two words at the same distance from a third are equal.                  *)
LEMMA MinusInjective ==
    ASSUME NEW a \in Word, NEW b \in Word, NEW c \in Word, Minus(a, c) = Minus(b, c)
    PROVE  a = b
BY TicketAssumption DEF Word, Minus

IInv == TypeOK /\ TicketInv

(* Nobody holds the lock before the first call: ticketlock_init.           *)
LEMMA InitIInv == Init => IInv
<1>. SUFFICES ASSUME Init PROVE IInv
  OBVIOUS
<1>1. Modulus \in Nat \ {0}
  BY QueuedBound, TicketAssumption DEF N
<1>2. TypeOK
  BY <1>1, TicketAssumption DEF Init, TypeOK, Word
<1>3. Queued = {} /\ Holding = {}
  BY DEF Init, Queued, Holding
<1>4. Cardinality(Queued) = 0
  BY <1>3, FS_EmptySet
<1>5. Minus(next, owner) = 0
  BY DEF Init, Minus
<1>. QED
  BY <1>2, <1>3, <1>4, <1>5 DEF IInv, TicketInv, TicketsInQueue, HolderAtOwner, TryNotLapped, Init

(* Taking ticket `next' from a queue that does not hold every thread: the  *)
(* doorway of ticketlock_acquire and of a successful tryacquire.           *)
LEMMA TakeTicketStep ==
    ASSUME IInv, NEW t \in Threads \ Queued, TakeTicket(t), owner' = owner,
           Queued' = Queued \cup {t},
           ticket' = [ticket EXCEPT ![t] = next],
           \A u \in Threads \ {t} : pc'[u] = pc[u],
           pc'[t] \in {"await", "cs"}
    PROVE  next' \in Word /\ lag' \in [Threads -> 0..MaxLag] /\ TicketsInQueue' /\ TryNotLapped'
<1>. USE DEF IInv, TypeOK
<1>1. Cardinality(Queued) \in Nat /\ Cardinality(Queued) <= N - 1 /\ N \in Nat
  BY QueuedBound
<1>2. Cardinality(Queued') = Cardinality(Queued) + 1
  BY QueuedBound, FS_AddElement
<1>3. next' = Succ(next) /\ next' \in Word
  BY WordArith DEF TakeTicket
<1>4. lag' \in [Threads -> 0..MaxLag]
  BY TicketAssumption DEF TakeTicket
<1>5. N < Modulus /\ N + MaxLag <= Modulus /\ Modulus \in Nat /\ MaxLag \in Nat
  BY TicketAssumption DEF N
<1>6. Minus(next, owner) = Cardinality(Queued)
  BY DEF TicketInv, TicketsInQueue
<1>7. Minus(next', owner') = Cardinality(Queued) + 1
  BY <1>1, <1>3, <1>5, <1>6, WordArith
<1>8. TicketsInQueue'
  <2>1. ASSUME NEW u \in Queued'
        PROVE  Minus(ticket'[u], owner') < Cardinality(Queued')
    <3>1. CASE u = t
      BY <3>1, <1>1, <1>2, <1>6
    <3>2. CASE u # t
      <4>1. u \in Queued /\ ticket'[u] = ticket[u] /\ ticket[u] \in Word
        BY <3>2 DEF Queued
      <4>2. Minus(ticket[u], owner) < Cardinality(Queued)
        BY <4>1 DEF TicketInv, TicketsInQueue
      <4>. QED
        <5>1. owner \in Word
          OBVIOUS
        <5>2. Minus(ticket[u], owner) \in Nat
          BY ONLY <4>1, <5>1, WordArith
        <5>. QED
          BY <4>1, <4>2, <5>2, <1>1, <1>2
    <3>. QED
      BY <3>1, <3>2
  <2>2. ASSUME NEW u \in Queued PROVE ticket[u] # next
    BY <1>1, <1>6 DEF TicketInv, TicketsInQueue
  <2>3. ASSUME NEW u \in Queued', NEW v \in Queued', ticket'[u] = ticket'[v] PROVE u = v
    BY <2>2, <2>3 DEF TicketInv, TicketsInQueue, Queued
  <2>. QED
    BY <1>2, <1>7, <2>1, <2>3 DEF TicketsInQueue
<1>9. TryNotLapped'
  <2>. SUFFICES ASSUME NEW u \in Threads, pc'[u] = "try"
       PROVE  /\ Minus(next', ticket'[u]) <= N - 1 + lag'[u]
              /\ Minus(owner', ticket'[u]) + Minus(next', owner') = Minus(next', ticket'[u])
    BY DEF TryNotLapped, N
  <2>1. u # t /\ pc[u] = "try" /\ ticket'[u] = ticket[u] /\ ticket[u] \in Word
    OBVIOUS
  <2>2. lag[u] \in Nat /\ lag[u] < MaxLag /\ lag'[u] = lag[u] + 1
    BY <2>1 DEF TakeTicket
  <2>3. /\ Minus(next, ticket[u]) <= N - 1 + lag[u]
        /\ Minus(owner, ticket[u]) + Minus(next, owner) = Minus(next, ticket[u])
    BY <2>1 DEF TicketInv, TryNotLapped, N
  <2>4. /\ Minus(next, ticket[u]) \in Int /\ Minus(owner, ticket[u]) \in Int
    BY <2>1, WordArith DEF Word
  <2>5. Minus(next, ticket[u]) + 1 < Modulus
    BY <1>1, <1>5, <2>2, <2>3, <2>4
  <2>6. Minus(next', ticket[u]) = Minus(next, ticket[u]) + 1
    BY <1>3, <2>1, <2>5, WordArith
  <2>. QED
    BY <1>1, <1>6, <1>7, <2>1, <2>2, <2>3, <2>4, <2>6
<1>. QED
  BY <1>3, <1>4, <1>8, <1>9

(* Every step of every thread keeps the invariant.                         *)
LEMMA NextIInv == IInv /\ [Next]_vars => IInv'
<1>. SUFFICES ASSUME IInv, [Next]_vars PROVE IInv'
  OBVIOUS
<1>. USE DEF IInv, TypeOK
<1>n. Modulus \in Nat /\ MaxLag \in Nat /\ N \in Nat /\ N < Modulus
  BY TicketAssumption, QueuedBound DEF N
<1>1. ASSUME NEW t \in Threads, Acquire(t) PROVE IInv'
  <2>1. t \notin Queued /\ Queued' = Queued \cup {t}
    BY <1>1 DEF Acquire, Queued
  <2>2. Holding' = Holding /\ t \notin Holding /\ HolderAtOwner'
    BY <1>1 DEF Acquire, Holding, TicketInv, HolderAtOwner
  <2>3. next' \in Word /\ lag' \in [Threads -> 0..MaxLag] /\ TicketsInQueue' /\ TryNotLapped'
    BY <1>1, <2>1, TakeTicketStep DEF Acquire
  <2>. QED
    BY <1>1, <2>2, <2>3 DEF Acquire, TicketInv
<1>2. ASSUME NEW t \in Threads, AwaitOwner(t) PROVE IInv'
  <2>1. Queued' = Queued /\ Holding' = Holding \cup {t}
    BY <1>2 DEF AwaitOwner, Queued, Holding
  <2>. QED
    BY <1>2, <2>1 DEF AwaitOwner, TicketInv, TicketsInQueue, HolderAtOwner, TryNotLapped
<1>3. ASSUME NEW t \in Threads, TryReadOwner(t) PROVE IInv'
  <2>1. t \notin Queued /\ Queued' = Queued /\ Holding' = Holding /\ Queued \subseteq Threads
        /\ Holding \subseteq Queued
    BY <1>3 DEF TryReadOwner, Queued, Holding
  <2>2. TicketsInQueue' /\ HolderAtOwner'
    BY <1>3, <2>1 DEF TryReadOwner, TicketInv, TicketsInQueue, HolderAtOwner
  <2>3. Minus(next, owner) <= N - 1 /\ Minus(owner, owner) = 0 /\ Minus(next, owner) \in Int
    BY <2>1, QueuedBound, WordArith DEF TicketInv, TicketsInQueue
  <2>4. TryNotLapped'
    BY <1>3, <1>n, <2>3 DEF TryReadOwner, TicketInv, TryNotLapped, N
  <2>. QED
    BY <1>3, <2>2, <2>4 DEF TryReadOwner, TicketInv
<1>4. ASSUME NEW t \in Threads, TryCas(t) PROVE IInv'
  <2>1. CASE next = ticket[t]
    <3>1. t \notin Queued /\ Queued' = Queued \cup {t} /\ Holding' = Holding \cup {t}
      BY <1>4, <2>1 DEF TryCas, Queued, Holding
    <3>2. Minus(next, owner) = 0 /\ Minus(owner, next) = 0
      BY <1>4, <2>1, WordArith DEF TryCas, TicketInv, TryNotLapped, Word
    <3>3. next = owner /\ Cardinality(Queued) = 0
      BY <3>2, WordArith DEF TicketInv, TicketsInQueue
    <3>4. Queued = {} /\ Holding = {}
      BY <3>3, QueuedBound, FS_EmptySet DEF Queued, Holding
    <3>5. ticket' = [ticket EXCEPT ![t] = next]
      BY <1>4, <2>1 DEF TryCas
    <3>6. next' \in Word /\ lag' \in [Threads -> 0..MaxLag] /\ TicketsInQueue' /\ TryNotLapped'
      BY <1>4, <2>1, <3>1, <3>5, TakeTicketStep DEF TryCas
    <3>7. HolderAtOwner'
      BY <1>4, <2>1, <3>1, <3>3, <3>4 DEF TryCas, HolderAtOwner
    <3>. QED
      BY <1>4, <2>1, <3>6, <3>7 DEF TryCas, TicketInv
  <2>2. CASE next # ticket[t]
    <3>1. Queued' = Queued /\ Holding' = Holding
      BY <1>4, <2>2 DEF TryCas, Queued, Holding
    <3>. QED
      BY <1>4, <1>n, <2>2, <3>1
      DEF TryCas, TicketInv, TicketsInQueue, HolderAtOwner, TryNotLapped
  <2>. QED
    BY <2>1, <2>2
<1>5. ASSUME NEW t \in Threads, ReleaseReadOwner(t) PROVE IInv'
  <2>1. t \in Holding /\ Queued' = Queued /\ Holding' = Holding
    BY <1>5 DEF ReleaseReadOwner, Queued, Holding
  <2>2. ticket' = ticket
    BY <1>5, <2>1 DEF ReleaseReadOwner, TicketInv, HolderAtOwner
  <2>. QED
    BY <1>5, <2>1, <2>2
    DEF ReleaseReadOwner, TicketInv, TicketsInQueue, HolderAtOwner, TryNotLapped
<1>6. ASSUME NEW t \in Threads, ReleaseWriteOwner(t) PROVE IInv'
  <2>1. /\ t \in Holding /\ t \in Queued /\ Queued' = Queued \ {t} /\ Holding' = Holding \ {t}
        /\ Holding \subseteq Queued /\ Queued \subseteq Threads
    BY <1>6 DEF ReleaseWriteOwner, Queued, Holding
  <2>2. ticket[t] = owner /\ owner' = Succ(owner) /\ owner' \in Word
    BY <1>6, <2>1, WordArith DEF ReleaseWriteOwner, TicketInv, HolderAtOwner
  <2>3. Cardinality(Queued) \in Nat /\ Cardinality(Queued') = Cardinality(Queued) - 1
    BY <2>1, QueuedBound, FS_RemoveElement
  <2>4. Cardinality(Queued) > 0
    BY <2>1, <2>3, QueuedBound, FS_EmptySet
  <2>5. Minus(next, owner) = Cardinality(Queued)
    BY DEF TicketInv, TicketsInQueue
  <2>6. Minus(next, owner') = Cardinality(Queued) - 1
    BY <2>2, <2>3, <2>4, <2>5, WordArith
  <2>7. ASSUME NEW u \in Queued'
        PROVE  ticket[u] # owner /\ Minus(ticket[u], owner') < Cardinality(Queued')
    <3>1. u \in Queued /\ u # t /\ ticket[u] \in Word
      BY <2>1
    <3>2. ticket[u] # owner
      BY <2>1, <2>2, <3>1 DEF TicketInv, TicketsInQueue
    <3>3. Minus(ticket[u], owner) \in Nat /\ Minus(ticket[u], owner) # 0
      BY <3>1, <3>2, WordArith
    <3>4. Minus(ticket[u], owner') = Minus(ticket[u], owner) - 1
      <4>1. owner \in Word /\ Minus(ticket[u], owner) > 0
        BY <3>3
      <4>. QED
        BY ONLY <2>2, <3>1, <4>1, WordArith
    <3>5. Minus(ticket[u], owner) < Cardinality(Queued)
      BY <3>1 DEF TicketInv, TicketsInQueue
    <3>. QED
      BY <2>3, <3>2, <3>3, <3>4, <3>5
  <2>8. TicketsInQueue'
    BY <1>6, <2>1, <2>3, <2>6, <2>7 DEF ReleaseWriteOwner, TicketInv, TicketsInQueue
  <2>9. Holding' = {}
    BY <2>1, <2>2 DEF TicketInv, TicketsInQueue, HolderAtOwner
  <2>10. TryNotLapped'
    <3>. SUFFICES ASSUME NEW u \in Threads, pc[u] = "try"
         PROVE  /\ Minus(next, ticket[u]) <= N - 1 + lag[u]
                /\ Minus(owner', ticket[u]) + Minus(next, owner') = Minus(next, ticket[u])
      BY <1>6 DEF ReleaseWriteOwner, TryNotLapped, N
    <3>1. /\ Minus(next, ticket[u]) <= N - 1 + lag[u]
          /\ Minus(owner, ticket[u]) + Minus(next, owner) = Minus(next, ticket[u])
      BY DEF TicketInv, TryNotLapped, N
    <3>2. Minus(owner, ticket[u]) \in Nat /\ Minus(next, ticket[u]) \in Word
      BY WordArith DEF Word
    <3>3. \/ Minus(owner, ticket[u]) + 1 < Modulus
          \/ Minus(owner, ticket[u]) + 1 <= Minus(next, ticket[u])
      BY <1>n, <2>3, <2>4, <2>5, <3>1, <3>2
    <3>4. Minus(owner', ticket[u]) = Minus(owner, ticket[u]) + 1
      BY <1>n, <2>2, <2>3, <3>2, <3>3, WordArith DEF Word
    <3>. QED
      BY <2>3, <2>5, <2>6, <3>1, <3>2, <3>4
  <2>. QED
    BY <1>6, <2>2, <2>8, <2>9, <2>10 DEF ReleaseWriteOwner, TicketInv, HolderAtOwner
<1>7. CASE UNCHANGED vars
  BY <1>7 DEF vars, TicketInv, TicketsInQueue, HolderAtOwner, TryNotLapped, Queued, Holding
<1>. QED
  BY <1>1, <1>2, <1>3, <1>4, <1>5, <1>6, <1>7 DEF Next

(* The inductive invariant holds throughout, whatever the number of        *)
(* threads, as long as fewer than 2^32 tickets separate the two accesses   *)
(* of any ticketlock_tryacquire.                                           *)
THEOREM TicketInvariant == Spec => [](TypeOK /\ TicketInv)
BY InitIInv, NextIInv, PTL DEF Spec, IInv

(* Tickets differ and that of the holder is owner: there is one holder.    *)
LEMMA IInvExcludes == IInv => MutualExclusion
BY DEF IInv, TicketInv, TicketsInQueue, HolderAtOwner, MutualExclusion, Holding, Queued

(* At most one thread is between acquire and the end of release.           *)
THEOREM TicketMutualExclusion == Spec => []MutualExclusion
BY IInvExcludes, TicketInvariant, PTL DEF IInv

(* ticketlock_has_waiters tells the holder the truth.                      *)
THEOREM TicketHasWaiters == Spec => []HasWaitersExact
<1>1. IInv => HasWaitersExact
  <2>. SUFFICES ASSUME IInv, NEW t \in Holding
       PROVE  HasWaiters <=> (Queued \ {t} # {})
    BY DEF HasWaitersExact
  <2>1. t \in Queued
    BY DEF Holding, Queued
  <2>2. IsFiniteSet(Queued \ {t}) /\ Cardinality(Queued \ {t}) = Cardinality(Queued) - 1
    BY <2>1, QueuedBound, FS_RemoveElement
  <2>3. Queued \ {t} = {} <=> Cardinality(Queued) - 1 = 0
    BY <2>2, FS_EmptySet
  <2>4. Cardinality(Queued) \in Nat \ {0}
    BY <2>1, QueuedBound, FS_EmptySet
  <2>. QED
    BY <2>3, <2>4 DEF HasWaiters, IInv, TicketInv, TicketsInQueue
<1>. QED
  BY <1>1, TicketInvariant, PTL DEF IInv

(* The operator Queue is what its name says: a sequence of all the threads *)
(* in the queue, each at the place of its ticket.  As many distances       *)
(* smaller than their number as there are threads leave no place empty.    *)
QueueOrdered ==
    /\ Queue \in Seq(Threads) /\ Len(Queue) = Cardinality(Queued)
    /\ \A i \in 1..Cardinality(Queued) :
          Queue[i] \in Queued /\ Minus(ticket[Queue[i]], owner) = i - 1

(* A thread in the queue is found at the place of its ticket, and the      *)
(* places hold distinct threads.                                           *)
LEMMA TicketOrder == IInv => QueueOrdered
<1>. SUFFICES ASSUME IInv PROVE QueueOrdered
  OBVIOUS
<1>. DEFINE n == Cardinality(Queued)
            At(i) == {t \in Queued : Minus(ticket[t], owner) = i - 1}
<1>1. n \in Nat /\ IsFiniteSet(Queued) /\ Queued \subseteq Threads
  BY QueuedBound DEF Queued
<1>2. ASSUME NEW i \in 1..n PROVE At(i) # {}
  <2>. SUFFICES ASSUME At(i) = {} PROVE FALSE
    OBVIOUS
  <2>. DEFINE T == (0..n-1) \ {i - 1}
              f == [t \in Queued |-> Minus(ticket[t], owner)]
  <2>1. IsFiniteSet(0..n-1) /\ Cardinality(0..n-1) = n
    <3>1. 0 \in Int /\ n - 1 \in Int /\ n - 1 - 0 + 1 = n /\ (0 > n - 1 => n = 0)
      BY <1>1
    <3>2. /\ IsFiniteSet(0..n-1)
          /\ Cardinality(0..n-1) = IF 0 > n - 1 THEN 0 ELSE n - 1 - 0 + 1
      BY ONLY <3>1, FS_Interval
    <3>. QED
      BY <3>1, <3>2
  <2>2. IsFiniteSet(T) /\ Cardinality(T) = n - 1
    <3>1. i - 1 \in 0..n-1
      BY <1>1
    <3>2. IsFiniteSet(T) /\ Cardinality(T) = Cardinality(0..n-1) - 1
      BY ONLY <2>1, <3>1, FS_RemoveElement, Zenon
    <3>. QED
      BY <2>1, <3>2
  <2>3. ASSUME NEW t \in Queued PROVE Minus(ticket[t], owner) \in T
    <3>1. ticket[t] \in Word /\ owner \in Word
      BY <1>1 DEF IInv, TypeOK
    <3>2. Minus(ticket[t], owner) \in Nat
      BY ONLY <3>1, WordArith
    <3>3. Minus(ticket[t], owner) < n
      BY DEF IInv, TicketInv, TicketsInQueue
    <3>. QED
      BY <1>1, <3>2, <3>3
  <2>4. f \in [Queued -> T]
    BY <2>3
  <2>. HIDE DEF f, T
  <2>5. PICK x \in Queued, y \in Queued : x # y /\ f[x] = f[y]
    BY <1>1, <2>2, <2>4, FS_PigeonHole
  <2>6. Minus(ticket[x], owner) = Minus(ticket[y], owner)
    BY <2>5 DEF f
  <2>7. ticket[x] \in Word /\ ticket[y] \in Word /\ owner \in Word
    BY <1>1 DEF IInv, TypeOK
  <2>8. ticket[x] = ticket[y]
    BY ONLY <2>6, <2>7, MinusInjective
  <2>. QED
    BY <2>5, <2>8 DEF IInv, TicketInv, TicketsInQueue
<1>3. ASSUME NEW i \in 1..n
      PROVE  Queue[i] \in Queued /\ Minus(ticket[Queue[i]], owner) = i - 1
  <2>1. Queue[i] = CHOOSE t \in At(i) : TRUE
    BY <1>2 DEF Queue
  <2>. QED
    BY <1>2, <2>1
<1>4. Queue \in [1..n -> Threads]
  BY <1>1, <1>3 DEF Queue
<1>5. Queue \in Seq(Threads) /\ Len(Queue) = n
  BY <1>1, <1>4
<1>. QED
  BY <1>3, <1>5 DEF QueueOrdered

(* Queue is the only sequence of that kind.                                *)
NoOtherOrder ==
    \A s \in Seq(Threads) :
       /\ Len(s) = Cardinality(Queued)
       /\ \A i \in 1..Len(s) : s[i] \in Queued /\ Minus(ticket[s[i]], owner) = i - 1
       => Queue = s

(* A sequence that has the threads of the queue at the places of their     *)
(* tickets is Queue, because no two threads hold the same ticket.          *)
LEMMA QueueUnique == IInv => NoOtherOrder
<1>. SUFFICES ASSUME IInv, NEW s \in Seq(Threads), Len(s) = Cardinality(Queued),
                     \A i \in 1..Len(s) :
                        s[i] \in Queued /\ Minus(ticket[s[i]], owner) = i - 1
              PROVE  Queue = s
  BY DEF NoOtherOrder
<1>1. QueueOrdered
  BY TicketOrder
<1>2. ASSUME NEW i \in 1..Len(s) PROVE Queue[i] = s[i]
  <2>1. Queue[i] \in Queued /\ s[i] \in Queued
        /\ Minus(ticket[Queue[i]], owner) = Minus(ticket[s[i]], owner)
    BY <1>1 DEF QueueOrdered
  <2>2. ticket[Queue[i]] \in Word /\ ticket[s[i]] \in Word /\ owner \in Word
    BY <2>1 DEF IInv, TypeOK, Queued
  <2>3. ticket[Queue[i]] = ticket[s[i]]
    BY ONLY <2>1, <2>2, MinusInjective
  <2>. QED
    BY <2>1, <2>3 DEF IInv, TicketInv, TicketsInQueue
<1>. QED
  BY <1>1, <1>2 DEF QueueOrdered

(* Nobody is in the queue at first.                                        *)
LEMMA TicketFifoInit == Init => Fifo!Init
<1>. SUFFICES ASSUME Init PROVE Fifo!Init
  OBVIOUS
<1>1. Queued = {} /\ Holding = {}
  BY DEF Init, Queued, Holding
<1>2. Cardinality(Queued) = 0
  BY <1>1, FS_EmptySet
<1>3. QueueOrdered
  BY InitIInv, TicketOrder
<1>4. Queue = <<>>
  BY <1>2, <1>3 DEF QueueOrdered
<1>. QED
  BY <1>1, <1>4 DEF Fifo!Init

(* The queue stays the same when its threads and their tickets do.         *)
LEMMA QueueKept ==
    ASSUME QueueOrdered, NoOtherOrder', Queued' = Queued, owner' = owner,
           \A t \in Queued : ticket'[t] = ticket[t]
    PROVE  Queue' = Queue
BY DEF QueueOrdered, NoOtherOrder

(* Every access of ticketlock.h is one step of a queue lock, or none: the  *)
(* increment of next requests, the read of owner that ends the wait        *)
(* grants, a successful compare-and-swap does both, and the store to owner *)
(* releases.                                                               *)
LEMMA TicketFifo == IInv /\ IInv' /\ [Next]_vars => [Fifo!Next]_(Fifo!vars)
<1>. SUFFICES ASSUME IInv, IInv', [Next]_vars PROVE [Fifo!Next]_(Fifo!vars)
  OBVIOUS
<1>o. QueueOrdered /\ QueueOrdered' /\ NoOtherOrder'
  BY TicketOrder, QueueUnique, PTL
<1>n. Cardinality(Queued) \in Nat /\ IsFiniteSet(Queued) /\ Queued \subseteq Threads
      /\ Holding \subseteq Queued /\ owner \in Word /\ ticket \in [Threads -> Word]
      /\ next \in Word /\ Modulus \in Nat
  BY QueuedBound, TicketAssumption DEF Queued, Holding, IInv, TypeOK
<1>m. ASSUME NEW t \in Queued PROVE ticket[t] = owner => Queue # <<>> /\ t = Head(Queue)
  <2>. SUFFICES ASSUME ticket[t] = owner PROVE Queue # <<>> /\ t = Head(Queue)
    OBVIOUS
  <2>1. Cardinality(Queued) # 0
    BY <1>n, FS_EmptySet
  <2>2. 1 \in 1..Cardinality(Queued)
    BY <1>n, <2>1
  <2>3. Queue[1] \in Queued /\ Minus(ticket[Queue[1]], owner) = 0
    BY <1>o, <2>2 DEF QueueOrdered
  <2>4. ticket[Queue[1]] \in Word
    BY <1>n, <2>3
  <2>5. ticket[Queue[1]] = owner
    BY ONLY <1>n, <2>3, <2>4, WordArith
  <2>6. Queue[1] = t
    BY <2>3, <2>5 DEF IInv, TicketInv, TicketsInQueue
  <2>. QED
    BY <1>o, <2>2, <2>6 DEF QueueOrdered
<1>1. ASSUME NEW t \in Threads, Acquire(t) PROVE Fifo!Request(t)
  <2>1. t \notin Queued /\ Queued' = Queued \cup {t} /\ Holding' = Holding
    BY <1>1 DEF Acquire, Queued, Holding, IInv, TypeOK
  <2>2. t \notin Fifo!Queued
    BY <1>o, <2>1 DEF Fifo!Queued, QueueOrdered
  <2>3. Cardinality(Queued') = Cardinality(Queued) + 1
    BY <1>n, <2>1, FS_AddElement
  <2>4. Queue' = Append(Queue, t)
    <3>. DEFINE s == Append(Queue, t)
    <3>1. s \in Seq(Threads) /\ Len(s) = Cardinality(Queued')
      BY <1>o, <1>n, <2>3 DEF QueueOrdered
    <3>2. ASSUME NEW i \in 1..Len(s)
          PROVE  s[i] \in Queued' /\ Minus(ticket'[s[i]], owner') = i - 1
      <4>1. CASE i = Cardinality(Queued) + 1
        BY <1>1, <1>o, <1>n, <2>1, <4>1
        DEF Acquire, QueueOrdered, IInv, TicketInv, TicketsInQueue
      <4>2. CASE i \in 1..Cardinality(Queued)
        <5>1. s[i] = Queue[i] /\ Queue[i] \in Queued /\ Queue[i] # t
              /\ Minus(ticket[Queue[i]], owner) = i - 1
          BY <1>o, <2>1, <4>2 DEF QueueOrdered
        <5>. QED
          BY <1>1, <1>n, <2>1, <5>1 DEF Acquire
      <4>. QED
        BY <1>n, <2>3, <3>1, <4>1, <4>2
    <3>. HIDE DEF s
    <3>. QED
      BY <1>o, <3>1, <3>2 DEF s, NoOtherOrder
  <2>. QED
    BY <2>1, <2>2, <2>4 DEF Fifo!Request
<1>2. ASSUME NEW t \in Threads, AwaitOwner(t) PROVE Fifo!Grant(t)
  <2>1. t \in Queued /\ ticket[t] = owner /\ Queued' = Queued /\ Holding' # {}
        /\ t \notin Holding
    BY <1>2 DEF AwaitOwner, Queued, Holding, IInv, TypeOK
  <2>2. Holding = {}
    BY <1>n, <2>1 DEF IInv, TicketInv, TicketsInQueue, HolderAtOwner
  <2>3. Queue' = Queue
    BY <1>2, <2>1, <1>o, QueueKept DEF AwaitOwner
  <2>. QED
    BY <1>m, <2>1, <2>2, <2>3 DEF Fifo!Grant
<1>3. ASSUME NEW t \in Threads, TryReadOwner(t) PROVE UNCHANGED Fifo!vars
  <2>1. t \notin Queued /\ Queued' = Queued /\ Holding' = Holding
    BY <1>3 DEF TryReadOwner, Queued, Holding, IInv, TypeOK
  <2>2. owner' = owner /\ \A u \in Queued : ticket'[u] = ticket[u]
    BY <1>3, <1>n, <2>1 DEF TryReadOwner
  <2>. QED
    BY <2>1, <2>2, <1>o, QueueKept DEF Fifo!vars
<1>4. ASSUME NEW t \in Threads, TryCas(t) PROVE Fifo!TryGrant(t) \/ UNCHANGED Fifo!vars
  <2>1. CASE next = ticket[t]
    <3>1. Queued' = Queued \cup {t} /\ Holding' # {} /\ pc[t] = "try"
          /\ owner' = owner /\ ticket' = ticket
      BY <1>4, <2>1 DEF TryCas, Queued, Holding, IInv, TypeOK
    <3>2. Minus(next, owner) = 0 /\ Minus(owner, next) = 0
      BY <1>4, <2>1, WordArith DEF TryCas, IInv, TypeOK, TicketInv, TryNotLapped, Word
    <3>3. next = owner /\ Cardinality(Queued) = 0
      BY <1>n, <3>2, WordArith DEF IInv, TicketInv, TicketsInQueue
    <3>4. Queued = {} /\ Queue = <<>>
      BY <1>n, <1>o, <3>3, FS_EmptySet DEF QueueOrdered
    <3>5. Cardinality(Queued') = 1
      BY <3>1, <3>4, FS_Singleton
    <3>6. Queue' \in Seq(Threads) /\ Len(Queue') = 1 /\ Queue'[1] \in Queued'
      BY <1>o, <3>5 DEF QueueOrdered
    <3>7. Queue' = <<t>>
      BY <3>1, <3>4, <3>6
    <3>. QED
      BY <3>1, <3>4, <3>7 DEF Fifo!TryGrant
  <2>2. CASE next # ticket[t]
    <3>1. Queued' = Queued /\ Holding' = Holding /\ owner' = owner /\ ticket' = ticket
      BY <1>4, <2>2 DEF TryCas, Queued, Holding, IInv, TypeOK
    <3>. QED
      BY <3>1, <1>o, QueueKept DEF Fifo!vars
  <2>. QED
    BY <2>1, <2>2
<1>5. ASSUME NEW t \in Threads, ReleaseReadOwner(t) PROVE UNCHANGED Fifo!vars
  <2>1. t \in Holding /\ Queued' = Queued /\ Holding' = Holding
    BY <1>5 DEF ReleaseReadOwner, Queued, Holding, IInv, TypeOK
  <2>2. owner' = owner /\ ticket' = ticket
    BY <1>5, <2>1 DEF ReleaseReadOwner, IInv, TypeOK, TicketInv, HolderAtOwner
  <2>. QED
    BY <2>1, <2>2, <1>o, QueueKept DEF Fifo!vars
<1>6. ASSUME NEW t \in Threads, ReleaseWriteOwner(t) PROVE Fifo!Release(t)
  <2>1. t \in Holding /\ t \in Queued /\ Queued' = Queued \ {t} /\ Holding' = Holding \ {t}
    BY <1>6, <1>n DEF ReleaseWriteOwner, Queued, Holding, IInv, TypeOK
  <2>2. ticket[t] = owner /\ owner' = Succ(owner) /\ ticket' = ticket
    BY <1>6, <2>1 DEF ReleaseWriteOwner, IInv, TicketInv, HolderAtOwner
  <2>3. Holding' = {}
    BY <1>n, <2>1, <2>2 DEF IInv, TicketInv, TicketsInQueue, HolderAtOwner
  <2>4. Queue # <<>> /\ t = Head(Queue)
    BY <1>m, <2>1, <2>2
  <2>5. Cardinality(Queued') = Cardinality(Queued) - 1
    BY <1>n, <2>1, FS_RemoveElement
  <2>6. Queue' = Tail(Queue)
    <3>. DEFINE s == Tail(Queue)
    <3>1. s \in Seq(Threads) /\ Len(s) = Cardinality(Queued')
          /\ \A i \in 1..Len(s) : s[i] = Queue[i + 1] /\ i + 1 \in 1..Cardinality(Queued)
      BY <1>o, <1>n, <2>4, <2>5 DEF QueueOrdered
    <3>2. ASSUME NEW i \in 1..Len(s)
          PROVE  s[i] \in Queued' /\ Minus(ticket'[s[i]], owner') = i - 1
      <4>1. s[i] \in Queued /\ Minus(ticket[s[i]], owner) = i /\ i > 0 /\ i \in Nat
        BY <1>o, <1>n, <3>1 DEF QueueOrdered
      <4>2. ticket[s[i]] \in Word /\ Minus(owner, owner) = 0
        BY <1>n, <4>1, WordArith
      <4>3. s[i] # t
        BY <2>2, <4>1, <4>2
      <4>4. Minus(ticket[s[i]], Succ(owner)) = i - 1
        <5>1. owner \in Word /\ Minus(ticket[s[i]], owner) > 0
          BY <1>n, <4>1
        <5>2. Minus(ticket[s[i]], Succ(owner)) = Minus(ticket[s[i]], owner) - 1
          BY ONLY <4>2, <5>1, WordArith
        <5>. QED
          BY <4>1, <5>2
      <4>. QED
        BY <2>1, <2>2, <4>1, <4>3, <4>4
    <3>. HIDE DEF s
    <3>. QED
      BY <1>o, <3>1, <3>2 DEF s, NoOtherOrder
  <2>. QED
    BY <2>1, <2>3, <2>4, <2>6 DEF Fifo!Release
<1>7. CASE UNCHANGED vars
  <2>1. Queued' = Queued /\ Holding' = Holding /\ owner' = owner /\ ticket' = ticket
    BY <1>7 DEF vars, Queued, Holding
  <2>. QED
    BY <2>1, <1>o, QueueKept DEF Fifo!vars
<1>. QED
  BY <1>1, <1>2, <1>3, <1>4, <1>5, <1>6, <1>7 DEF Next, Fifo!Next

(* ticketlock.h is a queue lock: the threads get it in the order in which  *)
(* they incremented next.                                                  *)
THEOREM TicketImplementsFifo == Spec => Fifo!Spec
BY TicketFifoInit, TicketFifo, NextIInv, InitIInv, PTL DEF Spec, Fifo!Spec
=============================================================================
