----------------------------- MODULE WorkSteal -----------------------------
(***************************************************************************)
(* sctbench/chess/WorkStealQueue.h and WorkStealQueueWithState.h under     *)
(* their tests: main (the bound thread) pushes and pops, each stealer      *)
(* makes StealAttempts attempts; whoever obtains an item performs its      *)
(* Operation, and at the end main Checks that each item had exactly one.   *)
(*                                                                         *)
(* Bug3 is the #define of WorkStealQueue.h, where Push leaves no free slot *)
(* between tail and head.  The lock is a pthread mutex or an exchange loop *)
(* (USE_NON_BLOCKING_SYNC): acquired in one step either way.               *)
(***************************************************************************)
EXTENDS Integers, Sequences

CONSTANTS Main, Stealers, StealAttempts,
          InitQSize, MaxSize, Bug3, None

VARIABLES
    head, tail, elems, mask,    \* WorkStealQueue
    lock,                       \* its SpinLock: the thread that holds it, or None
    script,                     \* the calls main has still to make
    attempts,                   \* the attempts each stealer has left
    pc, h, t, r,                \* control and locals of each thread
    pushed,                     \* items pushed: the next one to push
    field                       \* ObjType::field of each item

queueVars == <<head, tail, elems, mask>>
testVars == <<script, attempts, pushed, field>>
vars == <<queueVars, lock, testVars, pc, h, t, r>>

Threads == {Main} \cup Stealers

(* The calls main makes: WorkStealQueue.cpp and InterlockedWorkSteal-      *)
(* Queue(WithState).cpp push two items and pop one, and pop at the end;    *)
(* StateWorkStealQueue.cpp, which is without BUG3, pushes them all first.  *)
PushPushPop == <<"push", "push", "pop", "push", "push", "pop", "pop", "pop">>
PushAll == <<"push", "push", "push", "push", "pop", "pop", "pop", "pop">>
Items == 0 .. 3
Scripts == IF Bug3 THEN {PushPushPop} ELSE {PushPushPop, PushAll}

Slot(i, m) == i % (m + 1)           \* i & mask: the size is a power of 2

Init ==
    /\ head = 0 /\ tail = 0
    /\ mask = InitQSize - 1
    /\ elems = [i \in 0 .. InitQSize - 1 |-> None]
    /\ lock = None
    /\ script \in Scripts
    /\ attempts = [s \in Stealers |-> StealAttempts]
    /\ pc = [p \in Threads |-> "idle"]
    /\ h = [p \in Threads |-> 0]
    /\ t = [p \in Threads |-> 0]
    /\ r = [p \in Threads |-> None]
    /\ pushed = 0
    /\ field = [i \in Items |-> 0]

Goto(p, l) == pc' = [pc EXCEPT ![p] = l]
Set(x, p, y) == [x EXCEPT ![p] = y]
-----------------------------------------------------------------------------
(* SpinLock::Release, at the end of Steal. *)
Release(p) ==
    /\ pc[p] \in {"found", "failed"}
    /\ lock' = None
    /\ Goto(p, IF pc[p] = "found" THEN "operate" ELSE "idle")
    /\ UNCHANGED <<queueVars, testVars, h, t, r>>

Operation(p) ==
    /\ pc[p] = "operate"
    /\ field' = [i \in Items |-> IF i = r[p] THEN field[i] + 1 ELSE field[i]]
    /\ r' = Set(r, p, None)
    /\ h' = Set(h, p, 0) /\ t' = Set(t, p, 0)
    /\ Goto(p, "idle")
    /\ UNCHANGED <<queueVars, lock, script, attempts, pushed>>
-----------------------------------------------------------------------------
Steal(p) ==
    /\ p \in Stealers /\ pc[p] = "idle" /\ attempts[p] > 0
    /\ attempts' = [attempts EXCEPT ![p] = attempts[p] - 1]
    /\ Goto(p, "steal_lock")
    /\ UNCHANGED <<queueVars, lock, script, pushed, field, h, t, r>>

(* SpinLock::Acquire; head is written with the lock held only.             *)
StealReadHead(p) ==
    /\ pc[p] = "steal_lock" /\ lock = None
    /\ lock' = p
    /\ h' = Set(h, p, head)
    /\ Goto(p, "steal_inc")
    /\ UNCHANGED <<queueVars, testVars, t, r>>

StealWriteHead(p) ==
    /\ pc[p] = "steal_inc"
    /\ head' = h[p] + 1
    /\ Goto(p, "steal_tail")
    /\ UNCHANGED <<tail, elems, mask, lock, testVars, h, t, r>>

StealReadTail(p) ==
    /\ pc[p] = "steal_tail"
    /\ Goto(p, IF h[p] < tail THEN "steal_take" ELSE "steal_undo")
    /\ UNCHANGED <<queueVars, lock, testVars, h, t, r>>

StealTake(p) ==
    /\ pc[p] = "steal_take"
    /\ r' = Set(r, p, elems[Slot(h[p], mask)])
    /\ Goto(p, "found")
    /\ UNCHANGED <<queueVars, lock, testVars, h, t>>

StealUndo(p) ==
    /\ pc[p] = "steal_undo"
    /\ head' = h[p]
    /\ Goto(p, "failed")
    /\ UNCHANGED <<tail, elems, mask, lock, testVars, h, t, r>>
-----------------------------------------------------------------------------
Pop ==
    /\ pc[Main] = "idle" /\ script # <<>> /\ Head(script) = "pop"
    /\ script' = Tail(script)
    /\ t' = Set(t, Main, tail - 1)
    /\ Goto(Main, "pop_tail")
    /\ UNCHANGED <<queueVars, lock, attempts, pushed, field, h, r>>

PopWriteTail ==
    /\ pc[Main] = "pop_tail"
    /\ tail' = t[Main]
    /\ Goto(Main, "pop_head")
    /\ UNCHANGED <<head, elems, mask, lock, testVars, h, t, r>>

PopReadHead ==
    /\ pc[Main] = "pop_head"
    /\ Goto(Main, IF head <= t[Main] THEN "pop_take" ELSE "pop_undo")
    /\ UNCHANGED <<queueVars, lock, testVars, h, t, r>>

PopTake ==
    /\ pc[Main] = "pop_take"
    /\ r' = Set(r, Main, elems[Slot(t[Main], mask)])
    /\ Goto(Main, "operate")
    /\ UNCHANGED <<queueVars, lock, testVars, h, t>>

PopUndo ==
    /\ pc[Main] = "pop_undo"
    /\ tail' = t[Main] + 1
    /\ Goto(Main, "syncpop")
    /\ UNCHANGED <<head, elems, mask, lock, testVars, h, t, r>>


(* SyncPop and SyncPush hold the lock from their first access to their     *)
(* last, and what they touch is otherwise touched by the bound thread, or  *)
(* with the lock held: each is one step.                                   *)
SyncPop ==
    /\ pc[Main] = "syncpop" /\ lock = None
    /\ IF head <= tail - 1
       THEN /\ r' = Set(r, Main, elems[Slot(tail - 1, mask)])
            /\ tail' = tail - 1
            /\ Goto(Main, "operate")
            /\ UNCHANGED head
       ELSE /\ head' = 0 /\ tail' = 0
            /\ Goto(Main, "idle")
            /\ UNCHANGED r
    /\ UNCHANGED <<elems, mask, lock, testVars, h, t>>
-----------------------------------------------------------------------------
Push ==
    /\ pc[Main] = "idle" /\ script # <<>> /\ Head(script) = "push"
    /\ script' = Tail(script)
    /\ t' = Set(t, Main, tail)
    /\ Goto(Main, "push_head")
    /\ UNCHANGED <<queueVars, lock, attempts, pushed, field, h, r>>

(* One slot stays free: a stealer may have moved head past the one it is   *)
(* about to read.                                                          *)
PushReadHead ==
    /\ pc[Main] = "push_head"
    /\ Goto(Main, IF t[Main] < head + mask + (IF Bug3 THEN 1 ELSE 0) /\ t[Main] < MaxSize
                  THEN "push_write" ELSE "syncpush")
    /\ UNCHANGED <<queueVars, lock, testVars, h, t, r>>

PushWrite ==
    /\ pc[Main] = "push_write"
    /\ elems' = [elems EXCEPT ![Slot(t[Main], mask)] = pushed]
    /\ Goto(Main, "push_tail")
    /\ UNCHANGED <<head, tail, mask, lock, testVars, h, t, r>>

PushWriteTail ==
    /\ pc[Main] = "push_tail"
    /\ tail' = t[Main] + 1
    /\ pushed' = pushed + 1
    /\ Goto(Main, "idle")
    /\ UNCHANGED <<head, elems, mask, lock, script, attempts, field, h, t, r>>

(* SyncPush normalizes the indices, enlarges an array that is full, and    *)
(* pushes.                                                                 *)
SyncPush ==
    /\ pc[Main] = "syncpush" /\ lock = None
    /\ LET n == Slot(head, mask)
           count == tail - head
           grow == count >= mask
           size == IF grow THEN 2 * (mask + 1) ELSE mask + 1
           first == IF grow THEN 0 ELSE n
       IN  /\ head' = first
           /\ tail' = first + count + 1
           /\ mask' = size - 1
           /\ elems' = [i \in 0 .. size - 1 |->
                          CASE i = Slot(first + count, size - 1) -> pushed
                            [] ~grow -> elems[i]
                            [] grow /\ i < count -> elems[Slot(n + i, mask)]
                            [] OTHER -> None]
    /\ pushed' = pushed + 1
    /\ Goto(Main, "idle")
    /\ UNCHANGED <<lock, script, attempts, field, h, t, r>>

MainStep ==
    \/ Push \/ PushReadHead \/ PushWrite \/ PushWriteTail \/ SyncPush
    \/ Pop \/ PopWriteTail \/ PopReadHead \/ PopTake \/ PopUndo \/ SyncPop

StealerStep(p) ==
    \/ Steal(p) \/ StealReadHead(p) \/ StealWriteHead(p) \/ StealReadTail(p)
    \/ StealTake(p) \/ StealUndo(p) \/ Release(p)

Step(p) == (IF p = Main THEN MainStep ELSE StealerStep(p)) \/ Operation(p)

AllDone ==
    /\ script = <<>> /\ \A s \in Stealers : attempts[s] = 0
    /\ \A p \in Threads : pc[p] = "idle"

Next == (\E p \in Threads : Step(p)) \/ (AllDone /\ UNCHANGED vars)

Spec == Init /\ [][Next]_vars
-----------------------------------------------------------------------------

(* No item is obtained twice, and no slot is read that holds none, at any  *)
(* time before the end.                                                    *)
ObtainedOnce ==
    /\ \A p \in Threads : pc[p] \in {"operate", "found"} => r[p] \in Items /\ field[r[p]] = 0
    /\ \A p, q \in Threads : r[p] = r[q] /\ r[p] # None => p = q
=============================================================================
