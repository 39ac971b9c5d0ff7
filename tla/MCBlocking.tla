----------------------------- MODULE MCBlocking -----------------------------
(***************************************************************************)
(* What makes threads wait beside the spinlocks of MCLocks: the semaphore, *)
(* the readers-writers lock over it, the two sequence locks, the mutexes,  *)
(* condition variable and one-time call of vsync/thread, cnalock.h with    *)
(* four threads in two NUMA nodes, and the program that tests the locks.   *)
(* As in MCLocks a behaviour runs one of them (which), and they share the  *)
(* variables.                                                              *)
(***************************************************************************)
EXTENDS Integers, FiniteSets, TLC, TLAPS

CONSTANTS Threads, Many, Null, N,
          t1, t2, t3, t4,
          Writers, Readers,                   \* seqlock.h, seqcount.h
          Modulus, MaxLag, Versions,
          One, Unset, INITIAL_VAL,            \* cnalock.h
          NTHREADS                            \* test/boilerplate/lock.h

ASSUME BlockingAssumption ==
    /\ IsFiniteSet(Many) /\ IsFiniteSet(Threads)
    /\ {Null, One} \cap Many = {} /\ Null \notin {"lock", "value", "once"}
    /\ N \in Nat \ {0}
    /\ Writers \cap Readers = {}
    /\ Modulus \in Nat /\ Modulus % 2 = 0 /\ MaxLag \in Nat
    /\ 2 * (MaxLag + 1) < Modulus
    /\ Versions \in Nat /\ Versions > MaxLag + 1
    /\ INITIAL_VAL \in Nat \ {0} /\ NTHREADS \in Nat \ {0}

(* The threads that have a role below; the proofs do not use this. *)
ASSUME FourThreads ==
    Many = {t1, t2, t3, t4} /\ Cardinality(Many) = 4 /\ Threads \subseteq Many

VARIABLES
    which,
    mem1, mem2, mem3, mem4, mem5,         \* shared memory
    pc,
    loc1, loc2, loc3, loc4, loc5, loc6    \* locals

vars == <<which, mem1, mem2, mem3, mem4, mem5, pc, loc1, loc2, loc3, loc4, loc5, loc6>>

(* semaphore.h; its proofs come with rwlock.h, Sem!Rw. *)
Sem == INSTANCE SemaphoreProofs
    WITH s <- mem1, old <- loc1, amount <- loc2, Threads <- Many, Amounts <- {1, N},
         rs <- mem1, wb <- mem2, Users <- Threads
(* seqcount.h; its proofs come with those of seqlock.h, SC!L. *)
SC == INSTANCE SeqCount
    WITH sc <- mem1, x <- mem2, y <- mem3, s <- loc1, rx <- loc2, ry <- loc3, lag <- loc4,
         wpc <- loc5, ws <- loc6

(* Three threads at each mutex over each futex; producers and consumers;   *)
(* callers of vonce_call.  A wake of the futex in user space reaches every *)
(* waiter: two consumers could wake each other for ever, so there is one.  *)
Roles(r1, r2, r3, r4) ==
    [t \in Many |-> CASE t = t1 -> r1 [] t = t2 -> r2 [] t = t3 -> r3 [] OTHER -> r4]
MutexBuilds ==
    [mutex : {"slim", "tristate", "musl"}, kernel : BOOLEAN,
     role : {Roles("locker", "locker", "locker", "absent")}]
CondBuilds ==
    {[mutex |-> "slim", kernel |-> TRUE,
      role |-> Roles("producer", "producer", "consumer", "consumer")]}
    \cup [mutex : {"tristate", "musl"}, kernel : BOOLEAN,
          role : {Roles("producer", "producer", "consumer", "absent")}]
OnceBuilds ==
    [mutex : {"slim"}, kernel : BOOLEAN,
     role : {Roles("caller", "caller", "caller", "absent")}]
Thread == INSTANCE VThread
    WITH build <- mem1, word <- mem2, waiters <- mem3, asleep <- mem4, items <- mem5,
         init <- loc1, go <- loc2, back <- loc3, val <- loc4, Threads <- Many, None <- Null,
         Builds <- MutexBuilds \cup CondBuilds \cup OnceBuilds

(* Two threads on each NUMA node, whatever keep_lock_local answers. *)
Cna == INSTANCE CnaLock
    WITH tail <- mem1, spin <- mem2, next <- mem3, node <- mem4, cnt <- mem5,
         prev <- loc1, head <- loc2, cur <- loc3, last <- loc4, succ <- loc5,
         Threads <- Many, NUMA <- [t \in Many |-> t \in {t1, t2}],
         Verification <- TRUE

(* WITH_CS with REACQUIRE, as most tests are, with REENTRANT, as those of  *)
(* the recursive locks, and both under VSYNC_LOTTO.                        *)
Reacquire == INSTANCE LockTest
    WITH holder <- mem1, depth <- mem2, g_cs_x <- mem3, g_cs_y <- mem4, checked <- mem5,
         i <- loc1, j <- loc2, tmp <- loc3, REACQUIRE <- 1, REENTRANT <- 0, Lotto <- FALSE
Reentrant == INSTANCE LockTest
    WITH holder <- mem1, depth <- mem2, g_cs_x <- mem3, g_cs_y <- mem4, checked <- mem5,
         i <- loc1, j <- loc2, tmp <- loc3, REACQUIRE <- 0, REENTRANT <- 1, Lotto <- FALSE
LottoTest == INSTANCE LockTest
    WITH holder <- mem1, depth <- mem2, g_cs_x <- mem3, g_cs_y <- mem4, checked <- mem5,
         i <- loc1, j <- loc2, tmp <- loc3, REACQUIRE <- 3, REENTRANT <- 1, Lotto <- TRUE

OnTest == which \in {"reacquire", "reentrant", "lotto"}
Spare(v) == v = "spare"

Init ==
    /\ \/ which = "sem" /\ Sem!Init
       \/ which = "rw" /\ Sem!Rw!Init
       \/ which = "seqlock" /\ SC!L!Init
       \/ which = "seqcount" /\ SC!Init
       \/ which = "thread" /\ Thread!Init
       \/ which = "cna" /\ Cna!Init
       \/ which \in {"reacquire", "reentrant", "lotto"} /\ Reacquire!Init
    /\ which = "sem" => Spare(mem2)
    /\ which \in {"sem", "rw"} => Spare(mem3) /\ Spare(loc3)
    /\ which = "rw" => Spare(loc2)
    /\ which \in {"sem", "rw", "seqlock", "seqcount"} => Spare(mem4) /\ Spare(mem5)
    /\ which \in {"sem", "rw"} \/ OnTest => Spare(loc4)
    /\ which \in {"sem", "rw", "seqlock", "thread"} \/ OnTest => Spare(loc5)
    /\ which # "seqcount" => Spare(loc6)

SemNext ==
    which = "sem" /\ Sem!Next /\ UNCHANGED <<which, mem2, mem3, mem4, mem5, loc3, loc4, loc5, loc6>>
RwKeeps == UNCHANGED <<which, mem3, mem4, mem5, loc2, loc3, loc4, loc5, loc6>>
RwNext == which = "rw" /\ Sem!Rw!Next /\ RwKeeps
SeqLockNext ==
    which = "seqlock" /\ SC!L!Next /\ UNCHANGED <<which, mem4, mem5, loc5, loc6>>
SeqCountNext == which = "seqcount" /\ SC!Next /\ UNCHANGED <<which, mem4, mem5>>
ThreadKeeps == UNCHANGED <<which, loc5, loc6>>
ThreadNext == which = "thread" /\ Thread!Next /\ ThreadKeeps
CnaNext == which = "cna" /\ Cna!Next /\ UNCHANGED <<which, loc6>>
TestKeeps == UNCHANGED <<which, loc4, loc5, loc6>>
ReacquireNext == which = "reacquire" /\ Reacquire!Next /\ TestKeeps
ReentrantNext == which = "reentrant" /\ Reentrant!Next /\ TestKeeps
LottoNext == which = "lotto" /\ LottoTest!Next /\ TestKeeps

Next ==
    \/ SemNext \/ RwNext \/ SeqLockNext \/ SeqCountNext \/ ThreadNext \/ CnaNext
    \/ ReacquireNext \/ ReentrantNext \/ LottoNext

Spec == Init /\ [][Next]_vars

(* A thread inside a call of rwlock.h, or inside its critical section,     *)
(* keeps running.  Of the threads in calls of vsync/thread, and of those   *)
(* of the lock test with main, it is enough that one runs, if any can: the *)
(* lock need not be fair, because each thread of the test asks for it a    *)
(* bounded number of times.                                                *)
RwStep(t) == which = "rw" /\ Sem!Rw!Step(t) /\ RwKeeps
ThreadStep ==
    which = "thread" /\ (\E t \in Many : Thread!Step(t)) /\ ThreadKeeps /\ UNCHANGED mem1
TestStep ==
    /\ \/ \E t \in 0 .. NTHREADS - 1 :
             \/ which = "reacquire" /\ Reacquire!Step(t)
             \/ which = "reentrant" /\ Reentrant!Step(t)
             \/ which = "lotto" /\ LottoTest!Step(t)
       \/ OnTest /\ Reacquire!Check
    /\ TestKeeps
FairSpec ==
    /\ Spec
    /\ \A t \in Threads : WF_vars(RwStep(t))
    /\ WF_vars(ThreadStep \/ TestStep)
-----------------------------------------------------------------------------
(* Resources of semaphore.h are neither lost nor invented, however         *)
(* tryacquires with a stale value interleave with the other calls.         *)
Conserved == which = "sem" => Sem!Conserved

(* A writer excludes every other thread: of rwlock.h, and of the semaphore *)
(* used as in its test, where a writer takes all N resources.  The flag wb *)
(* of rwlock.h belongs to one writer at a time, whatever failed            *)
(* tryacquires lower it.                                                   *)
WriterExcludes ==
    /\ which = "sem" => Sem!WriterAlone
    /\ which = "rw" => Sem!Rw!WriterExcludes /\ Sem!Rw!FlagOwned

(* rwlock.h uses its semaphore as semaphore.h allows: every change of rs   *)
(* is one of its operations, and a thread gives back what it took.         *)
UsesSemaphore ==
    /\ which = "rw" => Sem!Rw!Sem!Init
    /\ [][which = "rw" => Sem!Rw!Sem!Step]_vars

(* A writer that raised wb gets the lock: it waits only for the readers    *)
(* already past their check of wb, never for later ones.  The threads of   *)
(* rwlock.h are interchangeable, so this says it of each.                  *)
WriterGetsIn ==
    (which = "rw" /\ pc[t1] = "w_sem") ~> (which = "rw" /\ pc[t1] = "w_hold")

(* seqlock.h: one writer at a time, and the counter is odd exactly while   *)
(* there is one, so the assertion of seqlock_release holds.                *)
OddWhileWriting == which = "seqlock" => SC!L!OddWhileWriting

(* seqlock_rend and seqcount_rend say yes only to a reader whose copy is   *)
(* the pair as it is at that moment: no write is half seen, none missed.   *)
ReadIsCurrent ==
    /\ which = "seqlock" => SC!L!ReadIsCurrent
    /\ which = "seqcount" => SC!ReadIsCurrent

(* The mutexes over the futex are locks, for the waiters of a condition    *)
(* variable too, and so is cnalock.h as it reorders four threads.          *)
IsMutex ==
    /\ which = "thread" => Thread!Lock!Init
    /\ which = "cna" => Cna!Lock!Init
    /\ [][/\ which = "thread" => Thread!Lock!Step
          /\ which = "cna" => Cna!Lock!Step]_vars

(* No waiter gets lost: a thread asleep on a mutex has left its mark for   *)
(* the holder, or its wake-up is under way; and the threads that wait for  *)
(* cnalock.h are in the queue of tail or in the one the holder carries.    *)
WaitersKept ==
    /\ which = "thread" => Thread!SleeperMarked
    /\ which = "cna" => Cna!TypeOK /\ Cna!WaitersQueued

(* Whenever threads wait for a mutex of vsync/thread somebody gets it: no  *)
(* wake-up is lost between the comparison and the sleep of vfutex_wait.    *)
SomeoneGetsIn ==
    (which = "thread" /\ Thread!Waiting # {}) ~> (which = "thread" /\ Thread!Holding # {})

(* vonce_call runs its callback once, and returns to nobody before it is   *)
(* complete.                                                               *)
CalledOnce == which = "thread" => Thread!CalledOnce

(* The assertions of check() (lock.h:117-118) hold when main reaches them: *)
(* over an exclusive lock no increment is lost and FINAL_COUNT counts the  *)
(* entries that the two SELECT loops make, under VSYNC_LOTTO as long as    *)
(* REACQUIRE (2048 there) is not less than NTHREADS (7).                   *)
CheckHolds ==
    /\ which = "reacquire" => Reacquire!CheckHolds
    /\ which = "reentrant" => Reentrant!CheckHolds
    /\ which = "lotto" => LottoTest!CheckHolds

(* Programs end: main of the lock test reaches check() with the lock free, *)
(* every consumer is told of an item it waits for in vcond_wait, and every *)
(* call of vonce_call returns.                                             *)
ProgramsEnd ==
    <>(CASE OnTest -> Reacquire!Ended
         [] which = "thread" -> Thread!Terminating => Thread!AllDone
         [] OTHER -> TRUE)
-----------------------------------------------------------------------------
(* The proofs: for any number of threads, of resources, and any width of   *)
(* the counters.  A behaviour runs one lock, whose lemmas are in SeqCount, *)
(* SemaphoreProofs and VThread.                                            *)
BlockingInv ==
    /\ which = "sem" => Sem!SemInv
    /\ which = "rw" => Sem!Rw!RwInv
    /\ which = "seqlock" => SC!L!SeqInv
    /\ which = "seqcount" => SC!SeqInv
    /\ which = "thread" => Thread!ThreadInv

(* A step of a behaviour is one of its lock.                               *)
LEMMA OneLock ==
    ASSUME [Next]_vars
    PROVE  /\ which' = which
           /\ which = "sem" => [Sem!Next]_(Sem!vars)
           /\ which = "rw" => [Sem!Rw!Next]_(Sem!Rw!vars)
           /\ which = "seqlock" => [SC!L!Next]_(SC!L!vars)
           /\ which = "seqcount" => [SC!Next]_(SC!vars)
           /\ which = "thread" => [Thread!Next]_(Thread!vars)
<1>1. CASE UNCHANGED vars
  BY <1>1 DEF vars, Sem!vars, Sem!Rw!vars, SC!L!vars, SC!vars, SC!reader, SC!writer, Thread!vars,
     Thread!client
<1>. QED
  BY <1>1 DEF Next, SemNext, RwNext, RwKeeps, SeqLockNext, SeqCountNext, ThreadNext, ThreadKeeps,
     CnaNext, ReacquireNext, ReentrantNext, LottoNext, TestKeeps

(* The constants fit each lock.                                            *)
LEMMA ConstantsFit ==
    /\ Sem!Parameters /\ Sem!Rw!Parameters /\ SC!L!Parameters /\ SC!Parameters
    /\ Thread!Parameters
<1>1. Sem!Parameters /\ Sem!Rw!Parameters
  BY BlockingAssumption
     DEF Sem!Parameters, Sem!Rw!Parameters, IsFiniteSet, Sem!IsFiniteSet, Sem!Rw!IsFiniteSet
<1>2. SC!L!Parameters /\ SC!Parameters
  BY BlockingAssumption DEF SC!L!Parameters, SC!Parameters, SC!L!IsEven
<1>3. ASSUME NEW r1 \in DOMAIN Thread!Start, NEW r2 \in DOMAIN Thread!Start,
             NEW r3 \in DOMAIN Thread!Start, NEW r4 \in DOMAIN Thread!Start
      PROVE  \A t \in Many : Roles(r1, r2, r3, r4)[t] \in DOMAIN Thread!Start
  BY DEF Roles
<1>4. DOMAIN Thread!Start = {"locker", "producer", "consumer", "caller", "absent"}
  BY DEF Thread!Start
<1>5. \A t \in Many :
            /\ Roles("locker", "locker", "locker", "absent")[t] \in DOMAIN Thread!Start
            /\ Roles("producer", "producer", "consumer", "consumer")[t] \in DOMAIN Thread!Start
            /\ Roles("producer", "producer", "consumer", "absent")[t] \in DOMAIN Thread!Start
            /\ Roles("caller", "caller", "caller", "absent")[t] \in DOMAIN Thread!Start
  BY <1>3, <1>4
<1>6. ASSUME NEW b \in MutexBuilds \cup CondBuilds \cup OnceBuilds
      PROVE  /\ b.mutex \in {"slim", "tristate", "musl"}
             /\ \A t \in Many : b.role[t] \in DOMAIN Thread!Start
  <2>1. CASE b \in MutexBuilds
    BY <1>5, <2>1 DEF MutexBuilds
  <2>2. CASE b \in CondBuilds
    BY <1>5, <2>2 DEF CondBuilds
  <2>3. CASE b \in OnceBuilds
    BY <1>5, <2>3 DEF OnceBuilds
  <2>. QED
    BY <2>1, <2>2, <2>3
<1>7. Thread!Parameters
  BY <1>6, BlockingAssumption
     DEF Thread!Parameters, Thread!Addresses, IsFiniteSet, Thread!IsFiniteSet
<1>. QED
  BY <1>1, <1>2, <1>7

(* Each lock starts in its inductive invariant, and every step of a        *)
(* behaviour keeps the invariant of its lock.                              *)
LEMMA BlockingInvariant == Spec => []BlockingInv
<1>1. Init => BlockingInv
  BY ConstantsFit, Sem!SemInit, Sem!RwInit, SC!SeqLockInit, SC!SeqCountInit, Thread!ThreadInit
     DEF Init, BlockingInv
<1>2. BlockingInv /\ [Next]_vars => BlockingInv'
  BY ConstantsFit, OneLock, Sem!SemStep, Sem!RwStep, SC!SeqLockStep, SC!SeqCountStep,
     Thread!ThreadStep
     DEF BlockingInv, Sem!Step
<1>. QED
  BY <1>1, <1>2, PTL DEF Spec

(* semaphore.h loses and invents no resource.                              *)
THEOREM ResourcesConserved == Spec => []Conserved
<1>1. BlockingInv => Conserved
  BY DEF BlockingInv, Conserved, Sem!SemInv
<1>. QED
  BY <1>1, BlockingInvariant, PTL

(* Writers of rwlock.h, and those of the test of semaphore.h, are alone,   *)
(* and wb has one owner.                                                   *)
THEOREM WritersExclude == Spec => []WriterExcludes
<1>1. BlockingInv => WriterExcludes
  BY ConstantsFit, Sem!SemWriterAlone, Sem!RwExcludes DEF BlockingInv, WriterExcludes
<1>. QED
  BY <1>1, BlockingInvariant, PTL

(* rwlock.h uses its semaphore as semaphore.h allows.                      *)
THEOREM RwUsesSemaphore == Spec => UsesSemaphore
<1>1. Init => (which = "rw" => Sem!Rw!Sem!Init)
  BY DEF Init, Sem!Rw!Init, Sem!Rw!Sem!Init, Sem!Rw!Label, Sem!Rw!Amount
<1>2. BlockingInv /\ [Next]_vars => [which = "rw" => Sem!Rw!Sem!Step]_vars
  BY ConstantsFit, OneLock, Sem!RwUsesSemaphore DEF BlockingInv
<1>. QED
  BY <1>1, <1>2, BlockingInvariant, PTL DEF Spec, UsesSemaphore

(* The counter of seqlock.h is odd exactly while its one writer writes.    *)
THEOREM SeqLockOdd == Spec => []OddWhileWriting
<1>1. BlockingInv => OddWhileWriting
  BY DEF BlockingInv, OddWhileWriting, SC!L!SeqInv
<1>. QED
  BY <1>1, BlockingInvariant, PTL

(* A reader of seqlock.h or seqcount.h whose rend says yes has the pair as *)
(* it is, unless more than MaxLag writes began since its rbegin.           *)
THEOREM ReadersCurrent == Spec => []ReadIsCurrent
<1>1. BlockingInv => ReadIsCurrent
  BY ConstantsFit, SC!SeqLockCurrent, SC!SeqCountCurrent DEF BlockingInv, ReadIsCurrent
<1>. QED
  BY <1>1, BlockingInvariant, PTL

(* vonce_call runs its callback once, and returns to nobody before it is   *)
(* complete.                                                               *)
THEOREM CallbackOnce == Spec => []CalledOnce
<1>1. BlockingInv => CalledOnce
  BY ConstantsFit, Thread!OnceSafe DEF BlockingInv, CalledOnce, Thread!ThreadInv
<1>. QED
  BY <1>1, BlockingInvariant, PTL

(* No thread sleeps on a mutex of vsync/thread unless the holder knows or  *)
(* a wake-up is under way.                                                 *)
THEOREM SleepersKept == Spec /\ which # "cna" => []WaitersKept
<1>1. BlockingInv /\ which # "cna" => WaitersKept
  BY DEF BlockingInv, WaitersKept, Thread!ThreadInv
<1>2. [Next]_vars /\ which # "cna" => (which # "cna")'
  BY OneLock
<1>. QED
  BY <1>1, <1>2, BlockingInvariant, PTL DEF Spec

(* The mutexes of slim.h, tristate.h and musl.h, over the futex of the     *)
(* kernel or the one of futex.h, are locks.                                *)
THEOREM FutexMutexesAreLocks == Spec /\ which # "cna" => IsMutex
<1>1. Init /\ which # "cna" =>
          /\ which = "thread" => Thread!Lock!Init
          /\ which = "cna" => Cna!Lock!Init
  BY ConstantsFit, Thread!ThreadLockInit DEF Init
<1>2. BlockingInv /\ which # "cna" /\ [Next]_vars =>
          /\ [/\ which = "thread" => Thread!Lock!Step
              /\ which = "cna" => Cna!Lock!Step]_vars
          /\ (which # "cna")'
  BY ConstantsFit, OneLock, Thread!ThreadLock DEF BlockingInv
<1>. QED
  BY <1>1, <1>2, BlockingInvariant, PTL DEF Spec, IsMutex
=============================================================================
