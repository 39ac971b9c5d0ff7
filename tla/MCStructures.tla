---------------------------- MODULE MCStructures ----------------------------
(***************************************************************************)
(* The unbounded containers and the pool.  As in MCLocks a behaviour runs  *)
(* one instance (which), and the instances share the variables.            *)
(***************************************************************************)
EXTENDS Integers, Sequences, FiniteSets

CONSTANTS a1, a2, b1, b2,       \* threads that add, threads that take
          n1, n2, n3, Sentinel, \* nodes
          None

ASSUME StructuresAssumption ==
    Cardinality({a1, a2, b1, b2, n1, n2, n3, Sentinel, None}) = 9

VARIABLES
    which,
    mem1, mem2, mem3, mem4, mem5, mem6, mem7, mem8, mem9,    \* the structure
    pc,
    loc1, loc2, loc3, loc4, loc5,    \* locals of its operations
    left                                   \* calls still to make

memory == <<mem1, mem2, mem3, mem4, mem5, mem6, mem7, mem8, mem9>>
locals == <<loc1, loc2, loc3, loc4, loc5>>
vars == <<which, memory, pc, locals, left>>

(* The work-stealing deques: chaselev.h, and WorkStealQueue.h under its    *)
(* tests.                                                                  *)
Chase == INSTANCE ChaseLev
    WITH top <- mem1, bottom <- mem2, buffer <- mem3, pushed <- mem4,
         t <- loc1, b <- loc2, obj <- loc3, made <- left,
         Owner <- a1, Thieves <- {b1, b2}, OwnerCalls <- 4, ThiefCalls <- 2, Size <- 2
Wsq == INSTANCE WorkSteal
    WITH head <- mem1, tail <- mem2, elems <- mem3, mask <- mem4, lock <- mem5,
         pushed <- mem6, field <- mem7, script <- mem8, attempts <- left,
         h <- loc1, t <- loc2, r <- loc3,
         Main <- a1, Stealers <- {b1, b2}, StealAttempts <- 1, InitQSize <- 2, MaxSize <- 4,
         Bug3 <- FALSE

(* elimination_stack.h and xbo_stack.h *)
Elim == INSTANCE Stack
    WITH top <- mem1, next <- mem2, slot <- mem3, limit <- mem4,
         mine <- loc1, seen <- loc2, range <- loc3, at <- loc4, trial <- loc5,
         Pushers <- {a1, a2}, Poppers <- {b1, b2}, Pushes <- 1, Pops <- 1,
         Slots <- 2, MaxTrials <- 2, MaxDelay <- 2
Xbo == INSTANCE Stack
    WITH top <- mem1, next <- mem2, slot <- mem3, limit <- mem4,
         mine <- loc1, seen <- loc2, range <- loc3, at <- loc4, trial <- loc5,
         Pushers <- {a1}, Poppers <- {b1, b2}, Pushes <- 2, Pops <- 1,
         Slots <- 0, MaxTrials <- 1, MaxDelay <- 2

(* unbounded_queue_lf.h, unbounded_queue_lf_recycle.h and                  *)
(* unbounded_queue_total.h                                                 *)
Lf == INSTANCE LfQueue
    WITH head <- mem1, tail <- mem2, next <- mem3, data <- mem4, free <- mem5,
         qnode <- loc1, first <- loc2, last <- loc3, nxt <- loc4, val <- loc5,
         Enqueuers <- {a1, a2}, Dequeuers <- {b1, b2}, Enqs <- 1, Deqs <- 1,
         Nodes <- {n1, n2, n3}, Recycle <- FALSE, StampMod <- 1
Recycling == INSTANCE LfQueue
    WITH head <- mem1, tail <- mem2, next <- mem3, data <- mem4, free <- mem5,
         qnode <- loc1, first <- loc2, last <- loc3, nxt <- loc4, val <- loc5,
         Enqueuers <- {a1}, Dequeuers <- {b1, b2}, Enqs <- 4, Deqs <- 2,
         Nodes <- {n1, n2}, Recycle <- TRUE, StampMod <- 16
TwoLock == INSTANCE TwoLockQueue
    WITH head <- mem1, tail <- mem2, next <- mem3, data <- mem4, free <- mem5,
         enq_l <- mem6, deq_l <- mem7, qnode <- loc1, val <- loc2,
         Enqueuers <- {a1, a2}, Dequeuers <- {b1, b2}, Enqs <- 2, Deqs <- 1,
         Nodes <- {n1, n2, n3}

(* cached_pool.h *)
Pool == INSTANCE CachedPool
    WITH phead <- mem1, ptail <- mem2, chead <- mem3, ctail <- mem4, nodes <- mem5,
         next <- mem6, cnt <- mem7, top <- mem8, mid <- mem9, held <- loc1,
         at <- loc2, es <- loc3,
         ThreadNum <- 2, EntryNum <- 2, Callers <- {0, 1}, Calls <- 4

ChaseSpare == <<mem5, mem6, mem7, mem8, mem9, loc4, loc5>>
WsqSpare == <<mem9, loc4, loc5>>
StackSpare == <<mem5, mem6, mem7, mem8, mem9>>
LfSpare == <<mem6, mem7, mem8, mem9>>
TwoLockSpare == <<mem8, mem9, loc3, loc4, loc5>>
PoolSpare == <<loc4, loc5>>

(* A variable the structure does not use holds nothing. *)
Spare(x) == x = "spare"
OnStack == which \in {"elimination", "backoff"}
OnLf == which \in {"lf", "recycle"}

Init ==
    /\ \/ which = "chaselev" /\ Chase!Init
       \/ which = "wsq" /\ Wsq!Init
       \/ which = "elimination" /\ Elim!Init
       \/ which = "backoff" /\ Xbo!Init
       \/ which = "lf" /\ Lf!Init
       \/ which = "recycle" /\ Recycling!Init
       \/ which = "two_lock" /\ TwoLock!Init
       \/ which = "pool" /\ Pool!Init
    /\ which = "chaselev" \/ OnStack => Spare(mem5)
    /\ which = "chaselev" \/ OnStack \/ OnLf => Spare(mem6) /\ Spare(mem7)
    /\ which \notin {"wsq", "pool"} => Spare(mem8)
    /\ which # "pool" => Spare(mem9)
    /\ which = "two_lock" => Spare(loc3)
    /\ ~OnStack /\ ~OnLf => Spare(loc4) /\ Spare(loc5)

ChaseNext == which = "chaselev" /\ Chase!Next /\ UNCHANGED <<which, ChaseSpare>>
WsqNext == which = "wsq" /\ Wsq!Next /\ UNCHANGED <<which, WsqSpare>>
ElimNext == which = "elimination" /\ Elim!Next /\ UNCHANGED <<which, StackSpare>>
XboNext == which = "backoff" /\ Xbo!Next /\ UNCHANGED <<which, StackSpare>>
LfNext == which = "lf" /\ Lf!Next /\ UNCHANGED <<which, LfSpare>>
RecycleNext == which = "recycle" /\ Recycling!Next /\ UNCHANGED <<which, LfSpare>>
TwoLockNext == which = "two_lock" /\ TwoLock!Next /\ UNCHANGED <<which, TwoLockSpare>>
PoolNext == which = "pool" /\ Pool!Next /\ UNCHANGED <<which, PoolSpare>>

Next ==
    \/ ChaseNext \/ WsqNext \/ ElimNext \/ XboNext
    \/ LfNext \/ RecycleNext \/ TwoLockNext \/ PoolNext

Spec == Init /\ [][Next]_vars

(* Some thread runs as long as one can, whichever it is: a call that waits *)
(* for another, for a lock or for its turn, cannot run.                    *)
FairSpec == Spec /\ WF_vars(Next)
-----------------------------------------------------------------------------
(* Every push, pop, steal, enqueue and dequeue takes effect at one instant *)
(* between its call and its return, as on one deque, stack or queue that   *)
(* all threads see: nothing is lost, repeated or reordered, when nodes are *)
(* reused at once and when a pusher and a popper meet outside the stack as *)
(* well.                                                                   *)
IsContainer ==
    /\ which = "chaselev" => Chase!Abs!Init
    /\ which = "elimination" => Elim!Abs!Init
    /\ which = "backoff" => Xbo!Abs!Init
    /\ which = "lf" => Lf!Abs!Init
    /\ which = "recycle" => Recycling!Abs!Init
    /\ which = "two_lock" => TwoLock!Abs!Init
    /\ [][/\ which = "chaselev" => Chase!Abs!Step
          /\ which = "elimination" => Elim!Abs!Step
          /\ which = "backoff" => Xbo!Abs!Step
          /\ which = "lf" => Lf!Abs!Step
          /\ which = "recycle" => Recycling!Abs!Step
          /\ which = "two_lock" => TwoLock!Abs!Step]_vars


(* What the library asserts inside a call: a late withdrawal finds its     *)
(* offer accepted (exchanger.h:152), and a dequeue that saw head and tail  *)
(* apart finds a node to read (unbounded_queue_lf.h:206, and the variant   *)
(* that recycles its nodes relies on it).                                  *)
AssertsHold ==
    /\ which = "elimination" => Elim!LateOfferAccepted
    /\ which = "lf" => Lf!NextNotNull
    /\ which = "recycle" => Recycling!NextNotNull

(* cached_pool.h: no entry is handed out twice and none is lost, in the    *)
(* lists, in the ring, in a call or with a caller; a ring that is never    *)
(* tested for space never overwrites a list.                               *)
InOnePlace == which = "pool" => Pool!InOnePlace /\ Pool!SlotAllocated


(* All calls end, however unfairly the threads are scheduled: a call has   *)
(* to retry only because another one got on, so that the bounded number of *)
(* calls cannot keep the threads busy for ever, and no two wait for each   *)
(* other.                                                                  *)
CallsEnd ==
    <>(CASE which = "chaselev" -> Chase!AllDone
         [] which = "wsq" -> Wsq!AllDone
         [] which = "elimination" -> Elim!AllDone
         [] which = "backoff" -> Xbo!AllDone
         [] which = "lf" -> Lf!AllDone
         [] which = "recycle" -> Recycling!AllDone
         [] which = "two_lock" -> TwoLock!AllDone
         [] which = "pool" -> Pool!AllDone)
=============================================================================
