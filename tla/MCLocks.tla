------------------------------ MODULE MCLocks ------------------------------
(***************************************************************************)
(* One instance of each exclusive lock.  A behaviour picks one of them in  *)
(* its initial state (which) and runs it, so that the locks are compared   *)
(* with the same promises without multiplying their states: they share the *)
(* variables below, of which a lock uses those its INSTANCE names.         *)
(***************************************************************************)
EXTENDS Integers, FiniteSets, Sequences, TLC, TLAPS

CONSTANTS
    Threads, Null,                 \* the null pointer, or nobody
    t0, t1, t2,
    lock1, lock2,                  \* hemlock.h, hmcslock.h
    Many,                          \* threads of the locks with few states
    Modulus, MaxLag,               \* ticketlock.h
    FlagsLen, ArrayModulus,        \* arraylock.h
    TwaLen, TwaModulus,            \* twalock.h
    Initial,                       \* clhlock.h, hclhlock.h
    MaxDepth,                      \* recursive_lock.h
    One, Unset, INITIAL_VAL,       \* cnalock.h
    lock0, lock3, lock4,           \* hmcslock.h: the root, the leaves
    Threshold,                     \* hmcslock.h
    Calls                          \* hclhlock.h

ASSUME ThreadsAssumption == IsFiniteSet(Threads) /\ Null \notin Threads

ASSUME InstancesAssumption ==
    /\ IsFiniteSet(Many) /\ Threads \subseteq Many /\ Null \notin Many
    /\ Modulus \in Nat /\ MaxLag \in Nat
    /\ Cardinality(Threads) < Modulus /\ Cardinality(Threads) + MaxLag <= Modulus
    /\ Cardinality(Many) <= FlagsLen /\ ArrayModulus % FlagsLen = 0
    /\ Cardinality(Threads) + 1 <= TwaModulus /\ TwaModulus % TwaLen = 0
    /\ Null \notin {lock1, lock2}
    /\ {Initial, One, Null} \cap Many = {} /\ Initial # Null /\ One \notin {Initial, Null}
    /\ MaxDepth \in Nat \ {0} /\ INITIAL_VAL > 0 /\ Threshold > 1
    /\ Calls > Cardinality(Threads)

(* The threads that have a role below; the proofs do not use this. *)
ASSUME ThreeThreads == Threads = {t0, t1, t2}

VARIABLES
    which,                          \* the lock of this behaviour
    mem1, mem2, mem3, mem4, mem5,   \* its shared memory
    pc,
    loc1, loc2, loc3, loc4, loc5,   \* the locals of its operations
    aux                             \* its auxiliary variable

vars == <<which, mem1, mem2, mem3, mem4, mem5, pc, loc1, loc2, loc3, loc4, loc5, aux>>

(* caslock.h, ttaslock.h, mcslock.h, clhlock.h and recursive_lock.h. *)
L == INSTANCE LockProofs
    WITH tail <- mem1, locked <- mem2, order <- aux, qnode <- mem3, pred <- loc1,
         next <- mem3, other <- loc1, base <- mem1, owner <- mem2, count <- mem3, depth <- aux, lock <- mem1,
         queue <- aux, held <- mem2
Ticket == INSTANCE TicketLock WITH next <- mem1, owner <- mem2, ticket <- loc1, lag <- aux
Array == INSTANCE ArrayLock
    WITH tail <- mem1, flags <- mem2, slot <- loc1, Threads <- Many, Modulus <- ArrayModulus
Twa == INSTANCE TwaLock
    WITH ticket <- mem1, grant <- mem2, array <- mem3, tx <- loc1, u <- loc2, lag <- aux,
         Modulus <- TwaModulus, MaxLag <- 1, ArrayLen <- TwaLen, Orig <- TRUE
Cna == INSTANCE CnaLock
    WITH tail <- mem1, spin <- mem2, next <- mem3, node <- mem4, cnt <- mem5,
         prev <- loc1, head <- loc2, cur <- loc3, last <- loc4, succ <- loc5,
         NUMA <- [t \in Threads |-> t # t2],
         Verification <- FALSE
(* test/spinlock/hmcslock.c: three levels, two threads at one leaf. *)
Tree == t0 :> <<lock3, lock1, lock0>> @@ t1 :> <<lock3, lock1, lock0>> @@
        t2 :> <<lock4, lock2, lock0>>
Hmcs == INSTANCE HmcsLock
    WITH lock <- mem1, next <- mem2, status <- mem3, other <- loc1, at <- loc2, Path <- Tree
(* test/spinlock/hclhlock.c: thread i in cluster i % 2. *)
Hclh == INSTANCE HclhLock
    WITH local_queues <- mem1, global_queue <- mem2, state <- mem3, qnode <- mem4,
         pred <- loc1, local_tail <- loc2, seen <- loc3, calls <- aux,
         Cluster <- [t \in Threads |-> IF t = t1 THEN 1 ELSE 0]
(* test/spinlock/hemlock.c: acquire and release of threads 0, 1 and 2. *)
TestProgram ==
    t0 :> <<<<"acq", lock1>>, <<"rel", lock1>>, <<"acq", lock2>>, <<"rel", lock2>>>> @@
    t1 :> <<<<"acq", lock2>>, <<"acq", lock1>>, <<"rel", lock1>>, <<"rel", lock2>>>> @@
    t2 :> <<<<"acq", lock2>>, <<"rel", lock2>>>>

(* test/spinlock/hemlock.c.orig: one lock, the last thread uses tryacquire. *)
OneLockProgram ==
    t0 :> <<<<"acq", lock1>>, <<"rel", lock1>>>> @@
    t1 :> <<<<"acq", lock1>>, <<"rel", lock1>>>> @@
    t2 :> <<<<"try", lock1>>, <<"rel", lock1>>>>
(* The fixed Hemlock with nested locks, and hemlock.h, whose acquire takes *)
(* any grant, with one lock.                                               *)
Hem == INSTANCE HemLock
    WITH tail <- mem1, grant <- mem2, pred <- loc1, step <- loc2, held <- loc3, order <- aux,
         Locks <- {lock1, lock2}, Program <- TestProgram, Orig <- TRUE
HemOne == INSTANCE HemLock
    WITH tail <- mem1, grant <- mem2, pred <- loc1, step <- loc2, held <- loc3, order <- aux,
         Locks <- {lock1}, Program <- OneLockProgram, Orig <- FALSE

FlatKeeps == UNCHANGED <<which, mem2, mem3, mem4, mem5, loc1, loc2, loc3, loc4, loc5, aux>>
TicketKeeps == UNCHANGED <<which, mem3, mem4, mem5, loc2, loc3, loc4, loc5>>
QueueKeeps == UNCHANGED <<which, mem4, mem5, loc2, loc3, loc4, loc5>>
ArrayKeeps == UNCHANGED <<which, mem3, mem4, mem5, loc2, loc3, loc4, loc5, aux>>
TwaKeeps == UNCHANGED <<which, mem4, mem5, loc3, loc4, loc5>>
RecKeeps == UNCHANGED <<which, mem4, mem5, loc1, loc2, loc3, loc4, loc5>>
CnaKeeps == UNCHANGED <<which, aux>>
HmcsKeeps == UNCHANGED <<which, mem4, mem5, loc3, loc4, loc5, aux>>
HclhKeeps == UNCHANGED <<which, mem5, loc4, loc5>>
HemKeeps == UNCHANGED <<which, mem3, mem4, mem5, loc4, loc5>>

(* A variable the lock does not use holds nothing. *)
Spare(x) == x = "spare"

Init ==
    /\ \/ which = "cas" /\ L!Cas!Init
       \/ which = "ttas" /\ L!Ttas!Init
       \/ which = "ticket" /\ Ticket!Init
       \/ which = "mcs" /\ L!Mcs!Init
       \/ which = "clh" /\ L!Clh!Init
       \/ which = "array" /\ Array!Init
       \/ which = "twa" /\ Twa!Init
       \/ which = "rec" /\ L!Rec!Init
       \/ which = "cna" /\ Cna!Init
       \/ which = "hmcs" /\ Hmcs!Init
       \/ which = "hclh" /\ Hclh!Init
       \/ which = "hem" /\ Hem!Init
       \/ which = "hem_one" /\ HemOne!Init
    /\ which \in {"cas", "ttas"} => Spare(mem2)
    /\ which \in {"cas", "ttas", "ticket", "array", "hem", "hem_one"} => Spare(mem3)
    /\ which \notin {"cna", "hclh"} => Spare(mem4)
    /\ which # "cna" => Spare(mem5) /\ Spare(loc4) /\ Spare(loc5)
    /\ which \in {"cas", "ttas", "rec"} => Spare(loc1)
    /\ which \notin {"twa", "cna", "hmcs", "hclh", "hem", "hem_one"} => Spare(loc2)
    /\ which \notin {"cna", "hclh", "hem", "hem_one"} => Spare(loc3)
    /\ which \in {"cas", "ttas", "array", "cna", "hmcs"} => Spare(aux)

CasNext == which = "cas" /\ L!Cas!Next /\ FlatKeeps
TtasNext == which = "ttas" /\ L!Ttas!Next /\ FlatKeeps
TicketNext == which = "ticket" /\ Ticket!Next /\ TicketKeeps
McsNext == which = "mcs" /\ L!Mcs!Next /\ QueueKeeps
ClhNext == which = "clh" /\ L!Clh!Next /\ QueueKeeps
ArrayNext == which = "array" /\ Array!Next /\ ArrayKeeps
TwaNext == which = "twa" /\ Twa!Next /\ TwaKeeps
RecNext == which = "rec" /\ L!Rec!Next /\ RecKeeps
CnaNext == which = "cna" /\ Cna!Next /\ CnaKeeps
HmcsNext == which = "hmcs" /\ Hmcs!Next /\ HmcsKeeps
HclhNext == which = "hclh" /\ Hclh!Next /\ HclhKeeps
HemNext == which = "hem" /\ Hem!Next /\ HemKeeps
HemOneNext == which = "hem_one" /\ HemOne!Next /\ HemKeeps

Next ==
    \/ CasNext \/ TtasNext \/ TicketNext \/ McsNext \/ ClhNext
    \/ ArrayNext \/ TwaNext \/ RecNext \/ CnaNext \/ HmcsNext \/ HclhNext
    \/ HemNext \/ HemOneNext

Spec == Init /\ [][Next]_vars

(* A step that takes thread t further inside a call, or out of its critical *)
(* section; the program of the Hemlock clients also calls again.           *)
Step(t) ==
    \/ which = "cas" /\ L!Cas!Step(t) /\ FlatKeeps
    \/ which = "ttas" /\ L!Ttas!Step(t) /\ FlatKeeps
    \/ which = "ticket" /\ Ticket!Step(t) /\ TicketKeeps
    \/ which = "mcs" /\ L!Mcs!Step(t) /\ QueueKeeps
    \/ which = "clh" /\ L!Clh!Step(t) /\ QueueKeeps
    \/ which = "array" /\ Array!Step(t) /\ ArrayKeeps
    \/ which = "twa" /\ Twa!Step(t) /\ TwaKeeps
    \/ which = "rec" /\ L!Rec!Step(t) /\ RecKeeps
    \/ which = "cna" /\ Cna!Step(t) /\ CnaKeeps
    \/ which = "hmcs" /\ Hmcs!Step(t) /\ HmcsKeeps
    \/ which = "hclh" /\ Hclh!Step(t) /\ HclhKeeps
    \/ which = "hem" /\ (Hem!ClearGrant(t) \/ Hem!Step(t)) /\ HemKeeps
    \/ which = "hem_one" /\ (HemOne!ClearGrant(t) \/ HemOne!Step(t)) /\ HemKeeps

(* Threads keep running inside calls and leave their critical sections; no *)
(* thread is obliged to call acquire or tryacquire.                        *)
FairSpec == Spec /\ \A t \in Many : WF_vars(t \in DOMAIN pc /\ Step(t))
-----------------------------------------------------------------------------
(* Two threads are never between acquire, or a tryacquire that reports     *)
(* success, and the end of release of the same lock.                       *)
MutualExclusion ==
    CASE which = "cas" -> L!Cas!MutualExclusion
      [] which = "ttas" -> L!Ttas!MutualExclusion
      [] which = "ticket" -> Ticket!MutualExclusion
      [] which = "mcs" -> L!Mcs!MutualExclusion
      [] which = "clh" -> L!Clh!MutualExclusion
      [] which = "array" -> Array!MutualExclusion
      [] which = "twa" -> Twa!MutualExclusion
      [] which = "rec" -> L!Rec!MutualExclusion
      [] which = "cna" -> Cna!MutualExclusion
      [] which = "hmcs" -> Hmcs!MutualExclusion
      [] which = "hclh" -> Hclh!MutualExclusion
      [] which = "hem" -> Hem!MutualExclusion
      [] which = "hem_one" -> HemOne!MutualExclusion

(* acquire, tryacquire and release of caslock.h, ttaslock.h, cnalock.h,    *)
(* hmcslock.h, hclhlock.h and of the outermost calls of recursive_lock.h   *)
(* are those of a lock.                                                    *)
IsMutex ==
    /\ which = "cas" => L!Cas!Lock!Init
    /\ which = "ttas" => L!Ttas!Lock!Init
    /\ which = "rec" => L!Rec!Lock!Init
    /\ which = "cna" => Cna!Lock!Init
    /\ which = "hmcs" => Hmcs!Lock!Init
    /\ which = "hclh" => Hclh!Lock!Init
    /\ [][/\ which = "cas" => L!Cas!Lock!Step
          /\ which = "ttas" => L!Ttas!Lock!Step
          /\ which = "rec" => L!Rec!Lock!Step
          /\ which = "cna" => Cna!Lock!Step
          /\ which = "hmcs" => Hmcs!Lock!Step
          /\ which = "hclh" => Hclh!Lock!Step]_vars

(* The other locks are FIFO locks: they are granted in the order of the    *)
(* one atomic access that enters the queue (to next, ticket or tail), for  *)
(* the two nested locks of the Hemlock test as well.                       *)
IsFifoMutex ==
    /\ which = "ticket" => Ticket!Fifo!Init
    /\ which = "mcs" => L!Mcs!Fifo!Init
    /\ which = "clh" => L!Clh!Fifo!Init
    /\ which = "array" => Array!Fifo!Init
    /\ which = "twa" => Twa!Fifo!Init
    /\ which = "hem" => \A l \in {lock1, lock2} : Hem!Fifo(l)!Init
    /\ which = "hem_one" => HemOne!Fifo(lock1)!Init
    /\ [][/\ which = "ticket" => Ticket!Fifo!Step
          /\ which = "mcs" => L!Mcs!Fifo!Step
          /\ which = "clh" => L!Clh!Fifo!Step
          /\ which = "array" => Array!Fifo!Step
          /\ which = "twa" => Twa!Fifo!Step
          /\ which = "hem" => \A l \in {lock1, lock2} : Hem!Fifo(l)!Step
          /\ which = "hem_one" => HemOne!Fifo(lock1)!Step]_vars

(* Where a thread is once it can no longer be overtaken, or for cnalock.h, *)
(* hmcslock.h and hclhlock.h once it is in the (local) queue, and where it *)
(* is when its acquire is over.                                            *)
Doorway == [ticket |-> "await", mcs |-> "xchg", clh |-> "mark", array |-> "await",
            twa |-> "dx", cna |-> "link", hmcs |-> "link", hclh |-> "check",
            hem |-> "await", hem_one |-> "await"]
At(t, l) == t \in DOMAIN pc /\ pc[t] = l
Inside == IF which \in {"hem", "hem_one"} THEN "run" ELSE "cs"

(* A thread that waits in acquire of these locks gets the lock: no         *)
(* hand-over misses a successor that is slow to link its node, no grant or *)
(* wake-up is lost, the counter of cnalock.h reaches parked threads, and   *)
(* the threshold of hmcslock.h the other parts of the tree.  The threads   *)
(* of arraylock.h, which has more than Threads, are interchangeable.       *)
EventuallyGranted ==
    \A t \in Threads :
        (which \in DOMAIN Doorway /\ At(t, Doorway[which])) ~> At(t, Inside)

SomeoneWaits ==
    \/ which = "cas" /\ L!Cas!Waiting # {}
    \/ which = "ttas" /\ L!Ttas!Waiting # {}
    \/ which = "rec" /\ L!Rec!Waiting # {}
SomeoneIsInside ==
    \/ which = "cas" /\ L!Cas!Holding # {}
    \/ which = "ttas" /\ L!Ttas!Holding # {}
    \/ which = "rec" /\ L!Rec!Holding # {}

(* caslock.h, ttaslock.h and the recursive lock make no promise to a       *)
(* single thread, but while threads wait the lock is taken: no release and *)
(* no failed tryacquire leaves it locked by nobody.                        *)
SomeoneGetsIn == SomeoneWaits ~> SomeoneIsInside

(* What has_waiters answers the holder: that of clhlock.h and hemlock.h is *)
(* TRUE exactly when another thread is in the queue; mcslock_has_waiters   *)
(* may overlook one that is not linked yet, but reports none that does not *)
(* exist.                                                                  *)
HasWaitersRight ==
    /\ which = "clh" => L!Clh!HasWaitersExact
    /\ which = "hem" => Hem!HasWaitersExact
    /\ which = "mcs" => L!Mcs!HasWaitersSound

(* The lock's memory agrees with who is inside: the word of caslock.h and  *)
(* ttaslock.h is 1 exactly while one thread is between acquire and release,*)
(* owner and count of recursive_lock.h, written in steps of their own, say *)
(* who is inside and how deep, and no count of hmcslock.h has passed its   *)
(* threshold when a release reads it.                                      *)
LockInv ==
    /\ which = "cas" => L!Cas!LockInv
    /\ which = "ttas" => L!Ttas!LockInv
    /\ which = "rec" => L!Rec!TypeOK /\ L!Rec!OwnerAgrees
    /\ which = "hmcs" => Hmcs!CountBounded

(* The memory of mcslock.h, clhlock.h and arraylock.h is the queue of the  *)
(* threads that accessed tail, whatever links are still missing: nodes and *)
(* slots are in that order, no recycled qnode (hclhlock.h too) has two     *)
(* owners, and no slot has two threads when tail has wrapped.              *)
QueueInv ==
    /\ which = "mcs" => L!Mcs!TypeOK /\ L!Mcs!QueueInv
    /\ which = "clh" => L!Clh!TypeOK /\ L!Clh!QueueInv /\ L!Clh!RecycleInv
    /\ which = "hclh" => Hclh!QnodesOwned
    /\ which = "array" => Array!SlotInv

(* Nothing happens to a hand-over under way: a grant of hemlock.h is       *)
(* addressed to the next thread in line of one lock, also when threads use *)
(* one node for two locks, and no thread of twalock.h sleeps on its array  *)
(* counter after the release that should wake it.                          *)
HandOverInv ==
    /\ which = "hem" => Hem!GrantAddressed
    /\ which = "hem_one" => HemOne!GrantAddressed
    /\ which = "twa" => Twa!SleeperWillWake
-----------------------------------------------------------------------------
(* The proofs, for any set of threads: of the locks in Proved, whose       *)
(* lemmas are in TicketLock and LockProofs.  A behaviour runs one lock, so *)
(* its inductive invariant is that of the lock.                            *)
Flat == {"cas", "ttas", "rec"}
Linked == {"mcs", "clh"}
InOrder == Linked \cup {"ticket"}
Proved == Flat \cup InOrder

LocksInv ==
    /\ which = "cas" => L!Cas!LockInv
    /\ which = "ttas" => L!Ttas!LockInv
    /\ which = "rec" => L!Rec!RecInv
    /\ which = "ticket" => Ticket!IInv
    /\ which = "mcs" => L!Mcs!McsInv
    /\ which = "clh" => L!Clh!ClhInv

(* What the lemmas ask of the constants.                                   *)
LEMMA ConstantsFit ==
    Ticket!ThreadsAssumption /\ Ticket!TicketAssumption /\ L!Parameters
BY ThreadsAssumption, InstancesAssumption
   DEF Ticket!ThreadsAssumption, Ticket!TicketAssumption, IsFiniteSet, Ticket!IsFiniteSet,
       Cardinality, Ticket!Cardinality, L!Parameters, L!Rec!Parameters, L!Clh!Parameters, L!Mcs!Parameters

(* A step of a behaviour is one of its lock.                               *)
LEMMA OneLock ==
    ASSUME [Next]_vars
    PROVE  /\ which' = which
           /\ which = "cas" => [L!Cas!Next]_(L!Cas!vars)
           /\ which = "ttas" => [L!Ttas!Next]_(L!Ttas!vars)
           /\ which = "rec" => [L!Rec!Next]_(L!Rec!vars)
           /\ which = "ticket" => [Ticket!Next]_(Ticket!vars)
           /\ which = "mcs" => [L!Mcs!Next]_(L!Mcs!vars)
           /\ which = "clh" => [L!Clh!Next]_(L!Clh!vars)
<1>1. CASE UNCHANGED vars
  BY <1>1 DEF vars, L!Cas!vars, L!Ttas!vars, L!Rec!vars, Ticket!vars, L!Mcs!vars, L!Clh!vars
<1>. QED
  BY <1>1 DEF Next, CasNext, TtasNext, TicketNext, McsNext, ClhNext, ArrayNext, TwaNext, RecNext,
     CnaNext, HmcsNext, HclhNext, HemNext, HemOneNext, FlatKeeps, TicketKeeps, QueueKeeps,
     ArrayKeeps, TwaKeeps, RecKeeps, CnaKeeps, HmcsKeeps, HclhKeeps, HemKeeps

(* Each lock starts and stays in its inductive invariant, and stays the    *)
(* lock of the behaviour.                                                  *)
LEMMA LocksInvariant ==
    /\ Spec => []LocksInv
    /\ Spec /\ which \in Flat => [](which \in Flat)
    /\ Spec /\ which \in Linked => [](which \in Linked)
    /\ Spec /\ which \in InOrder => [](which \in InOrder)
    /\ Spec /\ which \in Proved => [](which \in Proved)
<1>1. Init => LocksInv
  BY ConstantsFit, L!AllInit, Ticket!InitIInv DEF Init, LocksInv
<1>2. [Next]_vars => /\ LocksInv => LocksInv'
                     /\ which \in Flat => (which \in Flat)'
                     /\ which \in Linked => (which \in Linked)'
                     /\ which \in InOrder => (which \in InOrder)'
                     /\ which \in Proved => (which \in Proved)'
  BY ConstantsFit, OneLock, L!AllStep, Ticket!NextIInv DEF LocksInv
<1>. QED
  BY <1>1, <1>2, PTL DEF Spec

(* What the invariants of the locks imply.                                 *)
LEMMA LocksSafe ==
    LocksInv =>
        /\ which \in Proved => MutualExclusion
        /\ which \in Flat => LockInv
        /\ which \in Linked => QueueInv /\ HasWaitersRight
BY ConstantsFit, L!AllSafe, Ticket!IInvExcludes
   DEF LocksInv, MutualExclusion, LockInv, QueueInv, HasWaitersRight, Proved, Flat, InOrder,
       Linked, L!Mcs!McsInv

(* Two threads are never between acquire and the end of release of         *)
(* caslock.h, ttaslock.h, the recursive lock, ticketlock.h, mcslock.h or   *)
(* clhlock.h.                                                              *)
THEOREM ThreadsExclude == Spec /\ which \in Proved => []MutualExclusion
BY LocksSafe, LocksInvariant, PTL

(* The word of the flat locks, and owner and count of the recursive lock,  *)
(* agree with who is inside.                                               *)
THEOREM MemoryAgrees == Spec /\ which \in Flat => []LockInv
BY LocksSafe, LocksInvariant, PTL

(* The nodes of mcslock.h and clhlock.h are the queue of the threads that  *)
(* accessed tail, whatever links are missing; qnodes have one owner.       *)
THEOREM NodesQueue == Spec /\ which \in Linked => []QueueInv
BY LocksSafe, LocksInvariant, PTL

(* clhlock_has_waiters is exact, mcslock_has_waiters reports no waiter     *)
(* that does not exist.                                                    *)
THEOREM WaitersReported == Spec /\ which \in Linked => []HasWaitersRight
BY LocksSafe, LocksInvariant, PTL

(* The calls of caslock.h, ttaslock.h and the outermost ones of the        *)
(* recursive lock are those of a lock.                                     *)
THEOREM FlatLocksAreMutexes == Spec /\ which \in Flat => IsMutex
<1>1. Init /\ which \in Flat =>
          /\ which = "cas" => L!Cas!Lock!Init
          /\ which = "ttas" => L!Ttas!Lock!Init
          /\ which = "rec" => L!Rec!Lock!Init
          /\ which = "cna" => Cna!Lock!Init
          /\ which = "hmcs" => Hmcs!Lock!Init
          /\ which = "hclh" => Hclh!Lock!Init
  BY ConstantsFit, L!AllInit DEF Init, Flat
<1>2. LocksInv /\ LocksInv' /\ which \in Flat /\ [Next]_vars =>
          [/\ which = "cas" => L!Cas!Lock!Step
           /\ which = "ttas" => L!Ttas!Lock!Step
           /\ which = "rec" => L!Rec!Lock!Step
           /\ which = "cna" => Cna!Lock!Step
           /\ which = "hmcs" => Hmcs!Lock!Step
           /\ which = "hclh" => Hclh!Lock!Step]_vars
  BY ConstantsFit, OneLock, L!AllLocks DEF LocksInv, Flat
<1>. QED
  BY <1>1, <1>2, LocksInvariant, PTL DEF Spec, IsMutex

(* ticketlock.h, mcslock.h and clhlock.h are granted in the order of the   *)
(* accesses to next or tail.                                               *)
THEOREM QueueLocksAreFifo == Spec /\ which \in InOrder => IsFifoMutex
<1>1. Init /\ which \in InOrder =>
          /\ which = "ticket" => Ticket!Fifo!Init
          /\ which = "mcs" => L!Mcs!Fifo!Init
          /\ which = "clh" => L!Clh!Fifo!Init
          /\ which = "array" => Array!Fifo!Init
          /\ which = "twa" => Twa!Fifo!Init
          /\ which = "hem" => \A l \in {lock1, lock2} : Hem!Fifo(l)!Init
          /\ which = "hem_one" => HemOne!Fifo(lock1)!Init
  BY ConstantsFit, Ticket!TicketFifoInit, L!AllInit DEF Init, InOrder, Linked
<1>2. LocksInv /\ LocksInv' /\ which \in InOrder /\ [Next]_vars =>
          [/\ which = "ticket" => Ticket!Fifo!Step
           /\ which = "mcs" => L!Mcs!Fifo!Step
           /\ which = "clh" => L!Clh!Fifo!Step
           /\ which = "array" => Array!Fifo!Step
           /\ which = "twa" => Twa!Fifo!Step
           /\ which = "hem" => \A l \in {lock1, lock2} : Hem!Fifo(l)!Step
           /\ which = "hem_one" => HemOne!Fifo(lock1)!Step]_vars
  BY ConstantsFit, OneLock, Ticket!TicketFifo, L!AllLocks
     DEF LocksInv, InOrder, Linked, Ticket!Fifo!Step
<1>. QED
  BY <1>1, <1>2, LocksInvariant, PTL DEF Spec, IsFifoMutex
=============================================================================
