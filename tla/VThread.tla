------------------------------ MODULE VThread ------------------------------
(***************************************************************************)
(* libvsync/include/vsync/thread: the futex (internal/futex.h), the three  *)
(* mutexes over it (mutex/slim.h, tristate.h, musl.h), the condition       *)
(* variable (cond.h) and the one-time call (once.h).                       *)
(*                                                                         *)
(* build.kernel selects the Linux call, which compares and goes to sleep   *)
(* at once and wakes as many sleepers of the address as asked; otherwise   *)
(* the futex is the one of futex.h, whose wake ends every wait that read   *)
(* g_signal before.  asleep says of a thread on which address it waits for *)
(* a wake, there: since it read g_signal.                                  *)
(*                                                                         *)
(* A locker acquires and releases for ever.  A producer adds an item and   *)
(* signals, inside its critical section or after it; a consumer waits for  *)
(* an item under the mutex and takes it.  A caller calls vonce_call.       *)
(***************************************************************************)
EXTENDS Integers, FiniteSetTheorems, TLAPS

CONSTANTS Threads, None,
          Builds    \* the mutex and the futex compiled in, the role of each thread

VARIABLES
    build,        \* one of Builds, for ever
    word,         \* the mutex, vcond_s::value and vonce_t
    waiters,      \* vmutex_t::waiters of musl.h
    asleep,
    items,        \* what producers and consumers share
    init,         \* what the callback of vonce_call does
    pc, go, back, \* control; where to go on after a mutex operation, after a wait
    val           \* the local of vcond_wait

client == <<items, init>>
vars == <<build, word, waiters, asleep, client, pc, go, back, val>>

Algorithm == build.mutex
Kernel == build.kernel
Addresses == {"lock", "value", "once"}

Start == [locker |-> "idle", producer |-> "p_lock", consumer |-> "c_lock",
          caller |-> "o_read", absent |-> "done"]

Init ==
    /\ build \in Builds
    /\ word = [a \in Addresses |-> 0] /\ waiters = 0
    /\ asleep = [t \in Threads |-> None]
    /\ items = 0 /\ init = "none"
    /\ pc = [t \in Threads |-> Start[build.role[t]]]
    /\ go = [t \in Threads |-> None] /\ back = [t \in Threads |-> None]
    /\ val = [t \in Threads |-> 0]

Goto(t, l) == pc' = [pc EXCEPT ![t] = l]
Store(a, v) == word' = [word EXCEPT ![a] = v]
-----------------------------------------------------------------------------
(* vfutex_wait: what a wait that ends at label l compares, and with what.  *)
WaitOn(l) == CASE l = "cw_lock" -> "value" [] l = "o_check" -> "once" [] OTHER -> "lock"
Expected(t) == CASE back[t] = "cw_lock" -> val[t] [] back[t] = "o_check" -> 1 [] OTHER -> 2

CallWait(t, l) == Goto(t, "wait") /\ back' = [back EXCEPT ![t] = l]

EndWait(t) == Goto(t, back[t]) /\ back' = [back EXCEPT ![t] = None]

WaitKernel(t) ==
    /\ pc[t] = "wait" /\ Kernel
    /\ LET a == WaitOn(back[t]) IN
       IF word[a] = Expected(t)
       THEN Goto(t, "sleep") /\ asleep' = [asleep EXCEPT ![t] = a] /\ UNCHANGED back
       ELSE EndWait(t) /\ UNCHANGED asleep
    /\ UNCHANGED <<word, waiters, client, go, val>>

WaitReadSignal(t) ==
    /\ pc[t] = "wait" /\ ~Kernel
    /\ asleep' = [asleep EXCEPT ![t] = WaitOn(back[t])]
    /\ Goto(t, "compare")
    /\ UNCHANGED <<word, waiters, client, go, back, val>>

WaitCompare(t) ==
    /\ pc[t] = "compare"
    /\ IF word[WaitOn(back[t])] = Expected(t)
       THEN Goto(t, "sleep") /\ UNCHANGED <<asleep, back>>
       ELSE EndWait(t) /\ asleep' = [asleep EXCEPT ![t] = None]
    /\ UNCHANGED <<word, waiters, client, go, val>>

WaitEnd(t) ==
    /\ pc[t] = "sleep" /\ asleep[t] = None
    /\ EndWait(t)
    /\ UNCHANGED <<word, waiters, asleep, client, go, val>>

(* vfutex_wake: the threads of W wake up, where the kernel takes n         *)
(* sleepers of the address, or all there are.                              *)
Woken(a, n, W) ==
    LET sleepers == {t \in Threads : asleep[t] = a}
    IN  IF Kernel
        THEN /\ W \subseteq sleepers
             /\ Cardinality(W) = n \/ (W = sleepers /\ Cardinality(W) < n)
        ELSE W = Threads

Wake(a, n) ==
    \E W \in SUBSET Threads :
        /\ Woken(a, n, W)
        /\ asleep' = [t \in Threads |-> IF t \in W THEN None ELSE asleep[t]]
-----------------------------------------------------------------------------
(* vmutex_acquire, called at one of these points, goes on at its image.    *)
Locked == [idle |-> "cs", c_lock |-> "c_test", p_lock |-> "p_put", cw_lock |-> "c_test"]
Unlocked == [cs |-> "idle", c_unlock |-> "done", p_unlock |-> "p_late", cw_unlock |-> "cw_wait"]

(* The first cmpxchg, which all three mutexes begin with.                  *)
Acquire(t) ==
    /\ pc[t] \in DOMAIN Locked
    /\ IF word["lock"] = 0
       THEN Store("lock", 1) /\ Goto(t, Locked[pc[t]]) /\ UNCHANGED go
       ELSE Goto(t, "slow") /\ go' = [go EXCEPT ![t] = Locked[pc[t]]] /\ UNCHANGED word
    /\ UNCHANGED <<waiters, asleep, client, back, val>>

(* The mutex is acquired in a later attempt.                               *)
Enter(t) == Goto(t, go[t]) /\ go' = [go EXCEPT ![t] = None]

\* Mutant: the lock is taken without a trace of other waiters.
SlimUncontended(t) ==
    /\ Algorithm = "slim" /\ pc[t] = "slow"
    /\ \/ word["lock"] = 0 /\ Store("lock", 1) /\ Enter(t) /\ UNCHANGED back
       \/ word["lock"] # 0 /\ Store("lock", 2) /\ CallWait(t, "slow") /\ UNCHANGED go
    /\ UNCHANGED <<waiters, asleep, client, val>>

Slim(t) ==
    /\ Algorithm = "slim" /\ pc[t] = "slow"
    /\ Store("lock", 2)
    /\ \/ word["lock"] = 0 /\ Enter(t) /\ UNCHANGED back
       \/ word["lock"] # 0 /\ CallWait(t, "slow") /\ UNCHANGED go
    /\ UNCHANGED <<waiters, asleep, client, val>>

(* cmpxchg(m, 1, 2) and the wait, of tristate.h and musl.h.                *)
Mark(t, l) ==
    /\ Store("lock", IF word["lock"] = 1 THEN 2 ELSE word["lock"])
    /\ CallWait(t, l)
    /\ UNCHANGED <<waiters, asleep, client, go, val>>

\* Mutant: after the wait the mutex is marked again and never taken.
TristateMarksOnly(t) ==
    /\ Algorithm = "tristate"
    /\ \/ pc[t] = "slow" /\ Mark(t, "retry")
       \/ /\ pc[t] = "retry"
          /\ Goto(t, "slow")
          /\ UNCHANGED <<word, waiters, asleep, client, go, back, val>>

Tristate(t) ==
    /\ Algorithm = "tristate"
    /\ \/ pc[t] = "slow" /\ Mark(t, "retry")
       \/ /\ pc[t] = "retry"
          /\ \/ word["lock"] = 0 /\ Store("lock", 2) /\ Enter(t)
             \/ word["lock"] # 0 /\ Goto(t, "slow") /\ UNCHANGED <<word, go>>
          /\ UNCHANGED <<waiters, asleep, client, back, val>>

(* The spinning before the loop only reads.                                *)
Musl(t) ==
    /\ Algorithm = "musl"
    /\ \/ /\ pc[t] = "slow"
          /\ \/ word["lock"] = 0 /\ Store("lock", 1) /\ Enter(t)
             \/ word["lock"] # 0 /\ Goto(t, "inc") /\ UNCHANGED <<word, go>>
          /\ UNCHANGED <<waiters, asleep, client, back, val>>
       \/ /\ pc[t] = "inc"
          /\ waiters' = waiters + 1 /\ Goto(t, "mark")
          /\ UNCHANGED <<word, asleep, client, go, back, val>>
       \/ pc[t] = "mark" /\ Mark(t, "dec")
       \/ /\ pc[t] = "dec"
          /\ waiters' = waiters - 1 /\ Goto(t, "slow")
          /\ UNCHANGED <<word, asleep, client, go, back, val>>

(* vmutex_release: slim.h and musl.h exchange, tristate.h compares first.  *)
(* musl.h then looks at waiters unless the old value tells it already.     *)
Release(t) ==
    /\ pc[t] \in DOMAIN Unlocked
    /\ Store("lock", IF Algorithm = "tristate" /\ word["lock"] # 1 THEN word["lock"] ELSE 0)
    /\ LET quiet == word["lock"] = 1
       IN  /\ Goto(t, CASE Algorithm = "tristate" /\ ~quiet -> "clear"
                        [] Algorithm = "musl" /\ quiet -> "look"
                        [] Algorithm # "tristate" /\ ~quiet -> "wake"
                        [] OTHER -> Unlocked[pc[t]])
           /\ go' = [go EXCEPT ![t] =
                       IF quiet /\ Algorithm # "musl" THEN None ELSE Unlocked[pc[t]]]
    /\ UNCHANGED <<waiters, asleep, client, back, val>>

Clear(t) ==
    /\ pc[t] = "clear"
    /\ Store("lock", 0) /\ Goto(t, "wake")
    /\ UNCHANGED <<waiters, asleep, client, go, back, val>>

Look(t) ==
    /\ pc[t] = "look"
    /\ \/ waiters > 0 /\ Goto(t, "wake") /\ UNCHANGED go
       \/ waiters = 0 /\ Enter(t)
    /\ UNCHANGED <<word, waiters, asleep, client, back, val>>

WakeOne(t) ==
    /\ pc[t] = "wake"
    /\ Wake("lock", 1)
    /\ Enter(t)
    /\ UNCHANGED <<word, waiters, client, back, val>>
-----------------------------------------------------------------------------
(* vcond_wait, from the consumer's loop: read value, release, wait.        *)
Test(t) ==
    /\ pc[t] = "c_test"
    /\ \/ items > 0 /\ items' = items - 1 /\ Goto(t, "c_unlock") /\ UNCHANGED val
       \/ items = 0 /\ val' = [val EXCEPT ![t] = word["value"]] /\ Goto(t, "cw_unlock")
                    /\ UNCHANGED items
    /\ UNCHANGED <<word, waiters, asleep, init, go, back>>

CondWait(t) ==
    /\ pc[t] = "cw_wait"
    /\ CallWait(t, "cw_lock")
    /\ UNCHANGED <<word, waiters, asleep, client, go, val>>

Put(t) ==
    /\ pc[t] = "p_put"
    /\ items' = items + 1
    /\ \/ Goto(t, "signal") /\ go' = [go EXCEPT ![t] = "p_unlock"]
       \/ Goto(t, "p_unlock") /\ UNCHANGED go
    /\ UNCHANGED <<word, waiters, asleep, init, back, val>>

(* A producer that has not signalled does so after its critical section.   *)
Late(t) ==
    /\ pc[t] = "p_late"
    /\ IF val[t] = 1
       THEN Goto(t, "done") /\ UNCHANGED go
       ELSE Goto(t, "signal") /\ go' = [go EXCEPT ![t] = "p_late"]
    /\ UNCHANGED <<word, waiters, asleep, client, back, val>>

(* vcond_signal; val remembers that the producer is through with it.       *)
Signal(t) ==
    /\ pc[t] = "signal"
    /\ Store("value", word["value"] + 1)
    /\ val' = [val EXCEPT ![t] = 1]
    /\ Goto(t, "signal_wake")
    /\ UNCHANGED <<waiters, asleep, client, go, back>>

SignalWake(t) ==
    /\ pc[t] = "signal_wake"
    /\ Wake("value", 1)
    /\ Enter(t)
    /\ UNCHANGED <<word, waiters, client, back, val>>
-----------------------------------------------------------------------------
(* vonce_call *)
OnceRead(t) ==
    /\ pc[t] = "o_read"
    /\ Goto(t, IF word["once"] = 2 THEN "done" ELSE "o_cas")
    /\ UNCHANGED <<word, waiters, asleep, client, go, back, val>>

\* Mutant: a caller that is too late to start the callback does not wait for it.
OnceCasHasty(t) ==
    /\ pc[t] = "o_cas"
    /\ \/ word["once"] = 0 /\ Store("once", 1) /\ Goto(t, "o_begin")
       \/ word["once"] # 0 /\ Goto(t, "done") /\ UNCHANGED word
    /\ UNCHANGED <<waiters, asleep, client, go, back, val>>

OnceCas(t) ==
    /\ pc[t] = "o_cas"
    /\ \/ word["once"] = 0 /\ Store("once", 1) /\ Goto(t, "o_begin") /\ UNCHANGED back
       \/ word["once"] = 1 /\ CallWait(t, "o_check") /\ UNCHANGED word
       \/ word["once"] = 2 /\ Goto(t, "done") /\ UNCHANGED <<word, back>>
    /\ UNCHANGED <<waiters, asleep, client, go, val>>

(* The callback takes its time. *)
OnceCall(t) ==
    /\ \/ pc[t] = "o_begin" /\ init' = "begun" /\ Goto(t, "o_end")
       \/ pc[t] = "o_end" /\ init' = "complete" /\ Goto(t, "o_done")
    /\ UNCHANGED <<word, waiters, asleep, items, go, back, val>>

OnceDone(t) ==
    /\ pc[t] = "o_done"
    /\ Store("once", 2) /\ Goto(t, "o_wake")
    /\ UNCHANGED <<waiters, asleep, client, go, back, val>>

OnceWake(t) ==
    /\ pc[t] = "o_wake"
    /\ Wake("once", Cardinality(Threads)) /\ Goto(t, "done")
    /\ UNCHANGED <<word, waiters, client, go, back, val>>

OnceCheck(t) ==
    /\ pc[t] = "o_check"
    /\ \/ word["once"] = 1 /\ CallWait(t, "o_check")
       \/ word["once"] # 1 /\ Goto(t, "done") /\ UNCHANGED back
    /\ UNCHANGED <<word, waiters, asleep, client, go, val>>
-----------------------------------------------------------------------------
Step(t) ==
    \/ WaitKernel(t) \/ WaitReadSignal(t) \/ WaitCompare(t) \/ WaitEnd(t)
    \/ Slim(t) \/ Tristate(t) \/ Musl(t)
    \/ Release(t) \/ Clear(t) \/ Look(t) \/ WakeOne(t)
    \/ Test(t) \/ CondWait(t) \/ Put(t) \/ Late(t) \/ Signal(t) \/ SignalWake(t)
    \/ OnceRead(t) \/ OnceCas(t) \/ OnceCall(t) \/ OnceDone(t) \/ OnceWake(t) \/ OnceCheck(t)
    \/ pc[t] # "idle" /\ Acquire(t)

Calls(t) == pc[t] = "idle" /\ Acquire(t)

Terminating == \A t \in Threads : build.role[t] # "locker"
AllDone == \A t \in Threads : pc[t] = "done"

Next ==
    \/ (\E t \in Threads : Step(t) \/ Calls(t)) /\ UNCHANGED build
    \/ AllDone /\ UNCHANGED vars

Spec == Init /\ [][Next]_vars
-----------------------------------------------------------------------------
Held == {"cs", "c_test", "c_unlock", "cw_unlock", "p_put", "p_unlock", "clear"}
Holds(t) ==
    pc[t] \in Held \/ (pc[t] \in {"signal", "signal_wake"} /\ go[t] = "p_unlock")
Holding == {t \in Threads : Holds(t)}
InAcquire(t) ==
    \/ pc[t] \in {"slow", "retry", "inc", "mark", "dec"}
    \/ pc[t] \in {"wait", "compare", "sleep"} /\ back[t] \notin {"cw_lock", "o_check"}
Waiting == {t \in Threads : InAcquire(t)}

Holder == IF Holding = {} THEN None ELSE CHOOSE t \in Holding : TRUE
Lock == INSTANCE Mutex WITH waiting <- Waiting, holder <- Holder, NoThread <- None

(* Nobody returns from vonce_call before the callback is complete, and     *)
(* only the thread that won the cmpxchg runs it.                           *)
CalledOnce ==
    /\ \A t \in Threads : build.role[t] = "caller" /\ pc[t] = "done" => init = "complete"
    /\ Cardinality({t \in Threads : pc[t] \in {"o_begin", "o_end", "o_done"}}) <= 1

Asleep(t) == pc[t] = "sleep" /\ asleep[t] = "lock"
(* It will take the mutex, or wake somebody.                               *)
Awake(t) ==
    \/ pc[t] \in {"look", "wake"}
    \/ InAcquire(t) /\ (asleep[t] = None \/ pc[t] = "compare")

(* A thread asleep on the mutex has left its mark there for the holder, or *)
(* somebody else is on the way to taking the mutex or to waking it.        *)
SleeperMarked ==
    (\E t \in Threads : Asleep(t)) =>
        \/ Holding # {} /\ (word["lock"] = 2 \/ waiters > 0)
        \/ \E u \in Threads : Awake(u)
-----------------------------------------------------------------------------
(* Why: the inductive invariant.  Where the control can be, and what go,   *)
(* back and asleep are there.                                              *)
AcquireAt == {"slow", "retry", "inc", "mark", "dec"}
WaitAt == {"wait", "compare", "sleep"}
CallAt == {"o_begin", "o_end", "o_done"}
OnceAt == {"o_read", "o_cas", "o_wake", "o_check"} \cup CallAt
Labels ==
    AcquireAt \cup WaitAt \cup OnceAt \cup Held
    \cup {"idle", "c_lock", "cw_wait", "cw_lock", "p_lock", "p_late", "signal", "signal_wake",
          "look", "wake", "done"}

ControlAt(t) ==
    /\ pc[t] \in WaitAt => back[t] \in {"slow", "retry", "dec", "cw_lock", "o_check"}
    /\ InAcquire(t) => go[t] \in {"cs", "c_test", "p_put"}
    /\ pc[t] \in {"look", "wake", "clear"} => go[t] \in {"idle", "done", "p_late", "cw_wait"}
    /\ pc[t] \in {"signal", "signal_wake"} => go[t] \in {"p_unlock", "p_late"}
    /\ \/ asleep[t] = None
       \/ pc[t] \in {"compare", "sleep"} /\ asleep[t] = WaitOn(back[t])
    /\ pc[t] \in {"inc", "mark", "dec", "look"} => Algorithm = "musl"
    /\ pc[t] \in WaitAt /\ back[t] \in {"slow", "retry"} => Algorithm # "musl"
    /\ pc[t] \in WaitAt /\ back[t] = "dec" => Algorithm = "musl"
    /\ build.role[t] = "caller" =>
          pc[t] \in OnceAt \cup {"done"} \/ (pc[t] \in WaitAt /\ back[t] = "o_check")

ThreadTypeOK ==
    /\ build \in Builds
    /\ word \in [Addresses -> Nat] /\ word["lock"] \in 0..2 /\ word["once"] \in 0..2
    /\ waiters \in Nat
    /\ pc \in [Threads -> Labels]
    /\ asleep \in [Threads -> Addresses \cup {None}]
    /\ go \in [Threads -> Labels \cup {None}] /\ back \in [Threads -> Labels \cup {None}]
    /\ \A t \in Threads : ControlAt(t)

(* The mutex is 0 exactly while nobody has it, and one thread has it.      *)
LockedByOne ==
    /\ word["lock"] = 0 <=> Holding = {}
    /\ \A t, u \in Holding : t = u

(* waiters of musl.h counts the threads between its two updates.           *)
Counted ==
    {t \in Threads : pc[t] \in {"mark", "dec"} \/ (pc[t] \in WaitAt /\ back[t] = "dec")}
WaitersCounted == waiters = Cardinality(Counted)

(* vonce_t is 0 until the callback begins and 2 once it is complete.       *)
OnceInOrder ==
    /\ \A t, u \in Threads : pc[t] \in CallAt /\ pc[u] \in CallAt => t = u
    /\ \A t \in Threads :
          /\ pc[t] \in CallAt => word["once"] = 1
          /\ pc[t] = "o_done" => init = "complete"
          /\ pc[t] = "o_check" \/ (pc[t] \in WaitAt /\ back[t] = "o_check") => word["once"] # 0
          /\ pc[t] = "o_wake" => word["once"] = 2
          /\ build.role[t] = "caller" /\ pc[t] = "done" => word["once"] = 2
    /\ word["once"] = 2 => init = "complete"

ThreadInv ==
    ThreadTypeOK /\ LockedByOne /\ WaitersCounted /\ OnceInOrder /\ SleeperMarked

(* What the proofs ask of the constants.                                   *)
Parameters ==
    /\ IsFiniteSet(Threads) /\ None \notin Threads /\ None \notin Addresses
    /\ \A b \in Builds :
          /\ b.mutex \in {"slim", "tristate", "musl"}
          /\ \A t \in Threads : b.role[t] \in DOMAIN Start

(* A step of thread t: what it leaves alone, and where t is after it.      *)
Framed(t) ==
    /\ word' \in [Addresses -> Nat] /\ word'["lock"] \in 0..2 /\ word'["once"] \in 0..2
    /\ pc' \in [Threads -> Labels]
    /\ asleep' \in [Threads -> Addresses \cup {None}]
    /\ go' \in [Threads -> Labels \cup {None}] /\ back' \in [Threads -> Labels \cup {None}]
    /\ \A u \in Threads \ {t} :
          /\ pc'[u] = pc[u] /\ go'[u] = go[u] /\ back'[u] = back[u]
          /\ asleep'[u] \in {asleep[u], None}
    /\ ControlAt(t)'

(* What a step does to the mutex, seen from the thread that takes it.      *)
LockMove(t) ==
    \/ /\ Holds(t)' <=> Holds(t)
       /\ InAcquire(t)' <=> InAcquire(t)
       /\ word'["lock"] = 0 <=> word["lock"] = 0
    \/ ~Holds(t) /\ ~InAcquire(t) /\ ~Holds(t)' /\ InAcquire(t)' /\ word'["lock"] = word["lock"]
    \/ ~Holds(t) /\ Holds(t)' /\ ~InAcquire(t)' /\ word["lock"] = 0 /\ word'["lock"] # 0
    \/ Holds(t) /\ ~Holds(t)' /\ ~InAcquire(t) /\ ~InAcquire(t)' /\ word'["lock"] = 0

(* What a step does to waiters.                                            *)
CountMove(t) ==
    \/ waiters' = waiters /\ (t \in Counted' <=> t \in Counted)
    \/ waiters' = waiters + 1 /\ t \notin Counted /\ t \in Counted'
    \/ waiters' = waiters - 1 /\ t \in Counted /\ t \notin Counted'

(* What a step does to those asleep on the mutex.                          *)
SleepMove(t) ==
    /\ Asleep(t)' => word'["lock"] = 2
    /\ Awake(t) => \/ Awake(t)'
                   \/ word'["lock"] = 2
                   \/ Algorithm = "musl" /\ word'["lock"] # 0
                   \/ pc[t] = "look" /\ waiters = 0
                   \/ pc[t] = "wake" /\ Wake("lock", 1)
    /\ word["lock"] = 2 => word'["lock"] \in {0, 2}
    /\ word["lock"] # 0 /\ word'["lock"] = 0 =>
          Awake(t)' \/ (word["lock"] = 1 /\ Algorithm # "musl")

(* What waiters says of the threads asleep.                                *)
CountTells ==
    /\ \A w \in Threads : Asleep(w) /\ Algorithm = "musl" => waiters > 0
    /\ Algorithm # "musl" => waiters = 0
-----------------------------------------------------------------------------
(* The calls of the mutex and where they return.                           *)
LEMMA CallLabels ==
    /\ \A l \in DOMAIN Locked : l \in {"idle", "c_lock", "p_lock", "cw_lock"}
                                /\ Locked[l] \in {"cs", "c_test", "p_put"}
    /\ \A l \in DOMAIN Unlocked : l \in {"cs", "c_unlock", "p_unlock", "cw_unlock"}
                                /\ Unlocked[l] \in {"idle", "done", "p_late", "cw_wait"}
BY DEF Locked, Unlocked

(* A wake-up only ends waits.                                              *)
LEMMA WakeEnds ==
    ASSUME NEW a, NEW n, Wake(a, n), asleep \in [Threads -> Addresses \cup {None}]
    PROVE  /\ asleep' \in [Threads -> Addresses \cup {None}]
           /\ \A u \in Threads : asleep'[u] \in {asleep[u], None}
BY DEF Wake

(* A step of a thread moves no other one, except that it may end its wait. *)
LEMMA StepFrame ==
    ASSUME Parameters, ThreadTypeOK, build' = build, NEW t \in Threads, Step(t) \/ Calls(t)
    PROVE  Framed(t)
<1>. USE DEF ThreadTypeOK, Framed, Labels, AcquireAt, WaitAt, CallAt, OnceAt, Held, Addresses
<1>c. Algorithm \in {"slim", "tristate", "musl"} /\ ControlAt(t)
  BY DEF Parameters, Algorithm
<1>. USE <1>c
<1>1. CASE WaitKernel(t) \/ WaitReadSignal(t) \/ WaitCompare(t) \/ WaitEnd(t)
  BY <1>1 DEF WaitKernel, WaitReadSignal, WaitCompare, WaitEnd, Goto, EndWait, ControlAt, InAcquire,
     WaitOn, Algorithm
<1>2. CASE Slim(t) \/ Tristate(t) \/ Musl(t)
  BY <1>2 DEF Slim, Tristate, Musl, Goto, Enter, Store, CallWait, ControlAt, InAcquire, WaitOn,
     Algorithm, Mark
<1>3. CASE Acquire(t) \/ Release(t)
  BY <1>3, CallLabels DEF Acquire, Release, Goto, Store, ControlAt, InAcquire, WaitOn, Algorithm
<1>4. CASE Clear(t) \/ Look(t)
  BY <1>4 DEF Clear, Look, Goto, Store, ControlAt, InAcquire, WaitOn, Algorithm, Enter
<1>5. CASE WakeOne(t) \/ SignalWake(t) \/ OnceWake(t)
  BY <1>5, WakeEnds DEF WakeOne, SignalWake, OnceWake, Goto, Enter, ControlAt, InAcquire, WaitOn,
     Algorithm
<1>6. CASE Test(t) \/ CondWait(t) \/ Put(t) \/ Late(t) \/ Signal(t)
  BY <1>6 DEF Test, CondWait, Put, Late, Signal, Goto, ControlAt, InAcquire, WaitOn, Algorithm,
     CallWait, Store
<1>7. CASE OnceRead(t) \/ OnceCas(t) \/ OnceCall(t)
  BY <1>7 DEF OnceRead, OnceCas, OnceCall, Goto, ControlAt, InAcquire, WaitOn, Algorithm, Store,
     CallWait
<1>8. CASE OnceDone(t) \/ OnceCheck(t)
  BY <1>8 DEF OnceDone, OnceCheck, Goto, Store, ControlAt, InAcquire, WaitOn, Algorithm, CallWait
<1>. QED
  BY <1>1, <1>2, <1>3, <1>4, <1>5, <1>6, <1>7, <1>8 DEF Step, Calls

(* Every step is one of a lock: the mutex is taken where it is 0 and set   *)
(* to 0 where it is given back.                                            *)
LEMMA StepLock ==
    ASSUME Parameters, ThreadTypeOK, LockedByOne, build' = build,
           NEW t \in Threads, Step(t) \/ Calls(t)
    PROVE  LockMove(t)
<1>. USE DEF ThreadTypeOK, LockMove, Labels, AcquireAt, WaitAt, CallAt, OnceAt, Held, Addresses
<1>c. /\ Algorithm \in {"slim", "tristate", "musl"} /\ ControlAt(t)
      /\ Holds(t) => word["lock"] # 0
  BY DEF Parameters, Algorithm, LockedByOne, Holding, Holds
<1>. USE <1>c
<1>1. CASE WaitKernel(t) \/ WaitReadSignal(t) \/ WaitCompare(t) \/ WaitEnd(t)
  BY <1>1 DEF WaitKernel, WaitReadSignal, WaitCompare, WaitEnd, Goto, EndWait, ControlAt, InAcquire,
     Holds
<1>2. CASE Slim(t) \/ Tristate(t) \/ Musl(t)
  BY <1>2 DEF Slim, Tristate, Musl, Goto, Enter, Store, CallWait, ControlAt, InAcquire, Holds, Mark
<1>3. CASE Acquire(t) \/ Release(t)
  BY <1>3, CallLabels DEF Acquire, Release, Goto, Store, ControlAt, InAcquire, Holds
<1>4. CASE Clear(t) \/ Look(t)
  BY <1>4 DEF Clear, Look, Goto, Store, ControlAt, InAcquire, Holds, Enter
<1>5. CASE WakeOne(t) \/ SignalWake(t) \/ OnceWake(t)
  BY <1>5 DEF WakeOne, SignalWake, OnceWake, Goto, Enter, ControlAt, InAcquire, Holds
<1>6. CASE Test(t) \/ CondWait(t) \/ Put(t) \/ Late(t) \/ Signal(t)
  BY <1>6 DEF Test, CondWait, Put, Late, Signal, Goto, ControlAt, InAcquire, Holds, CallWait, Store
<1>7. CASE OnceRead(t) \/ OnceCas(t) \/ OnceCall(t)
  BY <1>7 DEF OnceRead, OnceCas, OnceCall, Goto, ControlAt, InAcquire, Holds, Store, CallWait
<1>8. CASE OnceDone(t) \/ OnceCheck(t)
  BY <1>8 DEF OnceDone, OnceCheck, Goto, Store, ControlAt, InAcquire, Holds, CallWait
<1>. QED
  BY <1>1, <1>2, <1>3, <1>4, <1>5, <1>6, <1>7, <1>8 DEF Step, Calls

(* A thread is counted from the increment to the decrement of waiters.     *)
LEMMA StepCount ==
    ASSUME Parameters, ThreadTypeOK, NEW t \in Threads, Step(t) \/ Calls(t)
    PROVE  CountMove(t)
<1>. USE DEF ThreadTypeOK, CountMove, Labels, AcquireAt, WaitAt, CallAt, OnceAt, Held, Addresses
<1>c. Algorithm \in {"slim", "tristate", "musl"} /\ ControlAt(t)
  BY DEF Parameters, Algorithm
<1>. USE <1>c
<1>1. CASE WaitKernel(t) \/ WaitReadSignal(t) \/ WaitCompare(t) \/ WaitEnd(t)
  BY <1>1 DEF WaitKernel, WaitReadSignal, WaitCompare, WaitEnd, Goto, EndWait, ControlAt, InAcquire,
     Counted
<1>2. CASE Slim(t) \/ Tristate(t) \/ Musl(t)
  BY <1>2 DEF Slim, Tristate, Musl, Goto, Enter, Store, CallWait, ControlAt, InAcquire, Counted,
     Mark
<1>3. CASE Acquire(t) \/ Release(t)
  BY <1>3, CallLabels DEF Acquire, Release, Goto, Store, ControlAt, InAcquire, Counted
<1>4. CASE Clear(t) \/ Look(t)
  BY <1>4 DEF Clear, Look, Goto, Store, ControlAt, InAcquire, Counted, Enter
<1>5. CASE WakeOne(t) \/ SignalWake(t) \/ OnceWake(t)
  BY <1>5 DEF WakeOne, SignalWake, OnceWake, Goto, Enter, ControlAt, InAcquire, Counted
<1>6. CASE Test(t) \/ CondWait(t) \/ Put(t) \/ Late(t) \/ Signal(t)
  BY <1>6 DEF Test, CondWait, Put, Late, Signal, Goto, ControlAt, InAcquire, Counted, CallWait,
     Store
<1>7. CASE OnceRead(t) \/ OnceCas(t) \/ OnceCall(t)
  BY <1>7 DEF OnceRead, OnceCas, OnceCall, Goto, ControlAt, InAcquire, Counted, Store, CallWait
<1>8. CASE OnceDone(t) \/ OnceCheck(t)
  BY <1>8 DEF OnceDone, OnceCheck, Goto, Store, ControlAt, InAcquire, Counted, CallWait
<1>. QED
  BY <1>1, <1>2, <1>3, <1>4, <1>5, <1>6, <1>7, <1>8 DEF Step, Calls

(* The steps of vonce_call are taken in order, by one thread.              *)
LEMMA StepOnce ==
    ASSUME Parameters, ThreadTypeOK, OnceInOrder, build' = build,
           NEW t \in Threads, Step(t) \/ Calls(t)
    PROVE  OnceInOrder'
<1>. USE DEF ThreadTypeOK, OnceInOrder, Labels, AcquireAt, WaitAt, CallAt, OnceAt, Held, Addresses
<1>c. Algorithm \in {"slim", "tristate", "musl"} /\ ControlAt(t)
  BY DEF Parameters, Algorithm
<1>. USE <1>c
<1>1. CASE WaitKernel(t) \/ WaitReadSignal(t) \/ WaitCompare(t) \/ WaitEnd(t)
  BY <1>1 DEF WaitKernel, WaitReadSignal, WaitCompare, WaitEnd, Goto, EndWait, ControlAt, InAcquire,
     client
<1>2. CASE Slim(t) \/ Tristate(t) \/ Musl(t)
  BY <1>2 DEF Slim, Tristate, Musl, Goto, Enter, Store, CallWait, ControlAt, InAcquire, client, Mark
<1>3. CASE Acquire(t) \/ Release(t)
  BY <1>3, CallLabels DEF Acquire, Release, Goto, Store, ControlAt, InAcquire, client
<1>4. CASE Clear(t) \/ Look(t)
  BY <1>4 DEF Clear, Look, Goto, Store, ControlAt, InAcquire, client, Enter
<1>5. CASE WakeOne(t) \/ SignalWake(t) \/ OnceWake(t)
  BY <1>5 DEF WakeOne, SignalWake, OnceWake, Goto, Enter, ControlAt, InAcquire, client
<1>6. CASE Test(t) \/ CondWait(t) \/ Put(t) \/ Late(t) \/ Signal(t)
  BY <1>6, SMTT(30) DEF Test, CondWait, Put, Late, Signal, Goto, ControlAt, InAcquire, client,
     CallWait, Store
<1>7. CASE OnceRead(t) \/ OnceCas(t) \/ OnceCall(t)
  BY <1>7, SMTT(30) DEF OnceRead, OnceCas, OnceCall, Goto, ControlAt, InAcquire, client, Store,
     CallWait
<1>8. CASE OnceDone(t) \/ OnceCheck(t)
  BY <1>8 DEF OnceDone, OnceCheck, Goto, Store, ControlAt, InAcquire, client, CallWait
<1>. QED
  BY <1>1, <1>2, <1>3, <1>4, <1>5, <1>6, <1>7, <1>8 DEF Step, Calls

(* Who goes to sleep has seen the mark, who stays awake goes on, and a     *)
(* release that finds the mark wakes somebody.                             *)
LEMMA StepSleep ==
    ASSUME Parameters, ThreadTypeOK, LockedByOne, build' = build,
           NEW t \in Threads, Step(t) \/ Calls(t)
    PROVE  SleepMove(t)
<1>. USE DEF ThreadTypeOK, SleepMove, Awake, Asleep, Labels, AcquireAt, WaitAt, CallAt, OnceAt,
             Held, Addresses
<1>c. /\ Algorithm \in {"slim", "tristate", "musl"} /\ ControlAt(t) /\ None \notin Addresses
      /\ Holds(t) => word["lock"] # 0
  BY DEF Parameters, Algorithm, LockedByOne, Holding, Holds
<1>. USE <1>c
<1>1. CASE WaitKernel(t) \/ WaitReadSignal(t) \/ WaitCompare(t) \/ WaitEnd(t)
  BY <1>1 DEF WaitKernel, WaitReadSignal, WaitCompare, WaitEnd, Goto, EndWait, ControlAt, InAcquire,
     Holds, WaitOn, Expected
<1>2. CASE Slim(t) \/ Tristate(t) \/ Musl(t)
  <2>. USE DEF Goto, Enter, Store, CallWait, ControlAt, InAcquire, Holds
  <2>1. CASE Slim(t)
    BY <2>1 DEF Slim
  <2>2. CASE Tristate(t)
    BY <2>2 DEF Tristate, Mark
  <2>3. CASE Musl(t)
    BY <2>3 DEF Musl, Mark
  <2>. QED
    BY <1>2, <2>1, <2>2, <2>3
<1>3. CASE Acquire(t) \/ Release(t)
  BY <1>3, CallLabels DEF Acquire, Release, Goto, Store, ControlAt, InAcquire, Holds
<1>4. CASE Clear(t) \/ Look(t)
  BY <1>4 DEF Clear, Look, Goto, Store, ControlAt, InAcquire, Holds, Enter
<1>5. CASE WakeOne(t) \/ SignalWake(t) \/ OnceWake(t)
  BY <1>5, WakeEnds DEF WakeOne, SignalWake, OnceWake, Goto, Enter, ControlAt, InAcquire, Holds
<1>6. CASE Test(t) \/ CondWait(t) \/ Put(t) \/ Late(t) \/ Signal(t)
  BY <1>6 DEF Test, CondWait, Put, Late, Signal, Goto, ControlAt, InAcquire, Holds, CallWait, Store
<1>7. CASE OnceRead(t) \/ OnceCas(t) \/ OnceCall(t)
  BY <1>7 DEF OnceRead, OnceCas, OnceCall, Goto, ControlAt, InAcquire, Holds, Store, CallWait
<1>8. CASE OnceDone(t) \/ OnceCheck(t)
  BY <1>8 DEF OnceDone, OnceCheck, Goto, Store, ControlAt, InAcquire, Holds, CallWait
<1>. QED
  BY <1>1, <1>2, <1>3, <1>4, <1>5, <1>6, <1>7, <1>8 DEF Step, Calls

(* A wake-up of one sleeper on the mutex ends the wait of one, if any.     *)
LEMMA WakesOne ==
    ASSUME Parameters, Wake("lock", 1)
    PROVE  \/ \E x \in Threads : asleep[x] = "lock" /\ asleep'[x] = None
           \/ \A x \in Threads : asleep'[x] # "lock"
<1>1. PICK W \in SUBSET Threads :
          /\ Woken("lock", 1, W)
          /\ asleep' = [u \in Threads |-> IF u \in W THEN None ELSE asleep[u]]
  BY DEF Wake
<1>2. None # "lock"
  BY DEF Parameters, Addresses
<1>3. CASE Cardinality(W) = 1 /\ W \subseteq {u \in Threads : asleep[u] = "lock"}
  <2>1. W # {}
    BY <1>3, FS_EmptySet
  <2>. QED
    BY <1>1, <1>3, <2>1
<1>4. CASE {u \in Threads : asleep[u] = "lock"} \subseteq W
  BY <1>1, <1>2, <1>4
<1>. QED
  BY <1>1, <1>3, <1>4 DEF Woken

(* The callers of vonce_call, as the property says it.                     *)
LEMMA OnceSafe == Parameters /\ OnceInOrder => CalledOnce
<1>. SUFFICES ASSUME Parameters, OnceInOrder PROVE CalledOnce
  OBVIOUS
<1>. DEFINE S == {t \in Threads : pc[t] \in CallAt}
<1>1. \A t, u \in S : t = u
  BY DEF OnceInOrder
<1>2. Cardinality(S) <= 1
  <2>1. CASE S = {}
    BY <2>1, FS_EmptySet
  <2>2. CASE S # {}
    <3>1. PICK x : S = {x}
      BY <1>1, <2>2
    <3>. QED
      BY <3>1, FS_Singleton
  <2>. QED
    BY <2>1, <2>2
<1>. QED
  BY <1>2 DEF CalledOnce, OnceInOrder, CallAt

(* Nobody is in a call at first.                                           *)
LEMMA ThreadInit == Parameters /\ Init => ThreadInv
<1>. SUFFICES ASSUME Parameters, Init PROVE ThreadInv
  OBVIOUS
<1>1. ASSUME NEW t \in Threads
      PROVE  /\ pc[t] \in {"idle", "p_lock", "c_lock", "o_read", "done"}
             /\ build.role[t] = "caller" => pc[t] = "o_read"
  BY DEF Init, Parameters, Start
<1>2. ThreadTypeOK
  BY <1>1 DEF Init, ThreadTypeOK, Labels, AcquireAt, WaitAt, CallAt, OnceAt, Held, Addresses,
     ControlAt, InAcquire
<1>3. LockedByOne
  BY <1>1 DEF Init, LockedByOne, Holding, Holds, Held, Addresses
<1>4. Counted = {}
  BY <1>1 DEF Counted, WaitAt
<1>5. WaitersCounted
  BY <1>4, FS_EmptySet DEF Init, WaitersCounted
<1>6. OnceInOrder
  BY <1>1 DEF Init, OnceInOrder, CallAt, WaitAt, Addresses
<1>7. SleeperMarked
  BY <1>1 DEF SleeperMarked, Asleep
<1>. QED
  BY <1>2, <1>3, <1>5, <1>6, <1>7 DEF ThreadInv

(* A thread asleep on the mutex of musl.h is counted, and slim.h and       *)
(* tristate.h count nobody.                                                *)
LEMMA SleeperCounted == Parameters /\ ThreadTypeOK /\ WaitersCounted => CountTells
<1>. SUFFICES ASSUME Parameters, ThreadTypeOK, WaitersCounted PROVE CountTells
  OBVIOUS
<1>1. IsFiniteSet(Counted)
  BY FS_Subset DEF Parameters, Counted
<1>2. Cardinality(Counted) \in Nat /\ (Cardinality(Counted) = 0 <=> Counted = {})
  BY <1>1, FS_CardinalityType, FS_EmptySet
<1>3. ASSUME NEW w \in Threads, Asleep(w), Algorithm = "musl" PROVE w \in Counted
  <2>1. ControlAt(w) /\ None # "lock"
    BY DEF ThreadTypeOK, Parameters, Addresses
  <2>. QED
    BY <1>3, <2>1 DEF ControlAt, Asleep, Counted, WaitAt, WaitOn
<1>4. ASSUME Algorithm # "musl" PROVE Counted = {}
  BY <1>4 DEF ThreadTypeOK, ControlAt, Counted, WaitAt
<1>. QED
  BY <1>2, <1>3, <1>4 DEF WaitersCounted, CountTells

(* Who is in acquire and who has the mutex, after a step of t.             *)
LEMMA Members ==
    ASSUME NEW t \in Threads, Framed(t)
    PROVE  /\ Holding = {u \in Threads : Holds(u)}
           /\ Holding' = IF Holds(t)' THEN Holding \cup {t} ELSE Holding \ {t}
           /\ Waiting' = IF InAcquire(t)' THEN Waiting \cup {t} ELSE Waiting \ {t}
BY DEF Framed, Holding, Holds, Waiting, InAcquire

(* The mutex keeps being 0 exactly while nobody has it.                    *)
LEMMA LockKept ==
    ASSUME ThreadTypeOK, LockedByOne, NEW t \in Threads, Framed(t), LockMove(t)
    PROVE  LockedByOne'
BY Members DEF LockedByOne, LockMove

(* waiters keeps being the number of the threads counted.                  *)
LEMMA CountKept ==
    ASSUME Parameters, WaitersCounted, NEW t \in Threads, Framed(t), CountMove(t)
    PROVE  WaitersCounted' /\ waiters' \in Nat
<1>1. IsFiniteSet(Counted) /\ IsFiniteSet(Counted') /\ Cardinality(Counted') \in Nat
  <2>1. Counted \subseteq Threads /\ Counted' \subseteq Threads
    BY DEF Counted
  <2>. QED
    BY <2>1, FS_Subset, FS_CardinalityType DEF Parameters
<1>2. Counted' = IF t \in Counted' THEN Counted \cup {t} ELSE Counted \ {t}
  BY DEF Counted, Framed
<1>3. CASE t \in Counted' <=> t \in Counted
  <2>1. Counted' = Counted
    BY <1>2, <1>3
  <2>. QED
    BY <1>1, <1>3, <2>1 DEF CountMove, WaitersCounted
<1>4. CASE t \in Counted' /\ t \notin Counted
  <2>1. Cardinality(Counted') = Cardinality(Counted) + 1
    BY <1>1, <1>2, <1>4, FS_AddElement
  <2>. QED
    BY <1>1, <1>4, <2>1 DEF CountMove, WaitersCounted
<1>5. CASE t \notin Counted' /\ t \in Counted
  <2>1. Cardinality(Counted') = Cardinality(Counted) - 1
    BY <1>1, <1>2, <1>5, FS_RemoveElement
  <2>. QED
    BY <1>1, <1>5, <2>1 DEF CountMove, WaitersCounted
<1>. QED
  BY <1>3, <1>4, <1>5

(* No sleeper is left behind.                                              *)
LEMMA SleepersKept ==
    ASSUME Parameters, ThreadInv, NEW t \in Threads, build' = build, Framed(t), SleepMove(t),
           ThreadTypeOK', LockedByOne', WaitersCounted'
    PROVE  SleeperMarked'
<1>. SUFFICES ASSUME NEW w \in Threads, Asleep(w)'
     PROVE  \/ Holding' # {} /\ (word'["lock"] = 2 \/ waiters' > 0)
            \/ \E u \in Threads : Awake(u)'
  BY DEF SleeperMarked, Asleep, Awake, Waiting
<1>0. Algorithm' = Algorithm /\ None # "lock"
  BY DEF Algorithm, Parameters, Addresses
<1>c. CountTells /\ CountTells'
  BY SleeperCounted, PTL DEF ThreadInv
<1>1. CASE word'["lock"] = 2
  BY <1>1 DEF LockedByOne
<1>2. CASE word'["lock"] # 0 /\ Algorithm = "musl"
  <2>1. waiters' > 0
    BY <1>0, <1>2, <1>c DEF CountTells
  <2>. QED
    BY <1>2, <2>1 DEF LockedByOne
<1>3. CASE w # t
  <2>1. Asleep(w)
    BY <1>0, <1>3 DEF Framed, Asleep
  <2>2. CASE Holding # {} /\ (word["lock"] = 2 \/ waiters > 0)
    <3>1. word["lock"] # 0 /\ (Algorithm # "musl" => word["lock"] = 2)
      BY <2>2, <1>c DEF ThreadInv, LockedByOne, CountTells
    <3>. QED
      BY <1>1, <1>2, <3>1 DEF SleepMove
  <2>3. ASSUME NEW u \in Threads \ {t}, Awake(u) PROVE Awake(u)'
    BY <2>3 DEF Framed, Awake, InAcquire
  <2>4. CASE Awake(t)
    <3>1. CASE pc[t] = "look" /\ waiters = 0
      <4>1. Algorithm = "musl"
        BY <3>1 DEF ThreadInv, ThreadTypeOK, ControlAt
      <4>. QED
        BY <1>c, <2>1, <3>1, <4>1 DEF CountTells
    <3>2. CASE pc[t] = "wake" /\ Wake("lock", 1)
      <4>1. PICK x \in Threads : asleep[x] = "lock" /\ asleep'[x] = None
        BY <3>2, WakesOne DEF Asleep
      <4>2. InAcquire(x) /\ x # t
        BY <1>0, <3>2, <4>1 DEF ThreadInv, ThreadTypeOK, ControlAt, InAcquire, WaitOn
      <4>3. Awake(x)'
        BY <4>1, <4>2 DEF Framed, Awake, InAcquire
      <4>. QED
        BY <4>3
    <3>. QED
      BY <1>1, <1>2, <2>4, <3>1, <3>2 DEF SleepMove
  <2>. QED
    BY <2>1, <2>2, <2>3, <2>4 DEF ThreadInv, SleeperMarked, Asleep, Awake, Waiting
<1>. QED
  BY <1>1, <1>3 DEF SleepMove

(* Every step keeps the invariant.                                         *)
LEMMA ThreadStep == Parameters /\ ThreadInv /\ [Next]_vars => ThreadInv'
<1>. SUFFICES ASSUME Parameters, ThreadInv, [Next]_vars PROVE ThreadInv'
  OBVIOUS
<1>1. CASE UNCHANGED vars
  <2>. USE <1>1 DEF vars, client, ThreadInv
  <2>1. ThreadTypeOK'
    BY DEF ThreadTypeOK, ControlAt, InAcquire, Algorithm
  <2>2. LockedByOne' /\ WaitersCounted'
    BY DEF LockedByOne, WaitersCounted, Holding, Counted, Holds
  <2>3. OnceInOrder'
    BY DEF OnceInOrder
  <2>4. SleeperMarked'
    BY DEF SleeperMarked, Holding, Holds, Asleep, Awake, InAcquire
  <2>. QED
    BY <2>1, <2>2, <2>3, <2>4
<1>2. ASSUME NEW t \in Threads, Step(t) \/ Calls(t), build' = build PROVE ThreadInv'
  <2>1. Framed(t) /\ LockMove(t) /\ CountMove(t) /\ SleepMove(t) /\ OnceInOrder'
    BY <1>2, StepFrame, StepLock, StepCount, StepSleep, StepOnce DEF ThreadInv
  <2>2. LockedByOne' /\ WaitersCounted' /\ waiters' \in Nat
    BY <2>1, LockKept, CountKept DEF ThreadInv
  <2>3. ASSUME NEW u \in Threads \ {t} PROVE ControlAt(u)'
    <3>1. /\ ControlAt(u)
          /\ pc'[u] = pc[u] /\ go'[u] = go[u] /\ back'[u] = back[u]
          /\ asleep'[u] = asleep[u] \/ asleep'[u] = None
      BY <2>1 DEF ThreadInv, ThreadTypeOK, Framed
    <3>2. (InAcquire(u)' <=> InAcquire(u)) /\ Algorithm' = Algorithm
      BY <1>2, <3>1 DEF InAcquire, Algorithm
    <3>. QED
      BY <1>2, <3>1, <3>2 DEF ControlAt
  <2>4. ThreadTypeOK'
    BY <1>2, <2>1, <2>2, <2>3 DEF ThreadInv, ThreadTypeOK, Framed
  <2>5. SleeperMarked'
    BY <1>2, <2>1, <2>2, <2>4, SleepersKept
  <2>. QED
    BY <2>1, <2>2, <2>4, <2>5 DEF ThreadInv
<1>. QED
  BY <1>1, <1>2 DEF Next

(* The mutexes of slim.h, tristate.h and musl.h are locks.                 *)
LEMMA ThreadLock == Parameters /\ ThreadInv /\ [Next]_vars => Lock!Step
<1>. SUFFICES ASSUME Parameters, ThreadInv, [Next]_vars PROVE [Lock!Next]_(Lock!vars)
  BY DEF Lock!Step
<1>1. ASSUME UNCHANGED <<Holding, Waiting>> PROVE UNCHANGED Lock!vars
  BY <1>1 DEF Lock!vars, Holder
<1>2. CASE UNCHANGED vars
  <2>1. UNCHANGED <<Holding, Waiting>>
    BY <1>2 DEF vars, Holding, Holds, Waiting, InAcquire
  <2>. QED
    BY <1>1, <2>1
<1>3. ASSUME NEW t \in Threads, Step(t) \/ Calls(t), build' = build
      PROVE  [Lock!Next]_(Lock!vars)
  <2>1. Framed(t) /\ LockMove(t) /\ LockedByOne /\ LockedByOne'
    BY <1>3, StepFrame, StepLock, LockKept DEF ThreadInv
  <2>2. /\ Holding = {u \in Threads : Holds(u)} /\ Waiting = {u \in Threads : InAcquire(u)}
        /\ Holding' = IF Holds(t)' THEN Holding \cup {t} ELSE Holding \ {t}
        /\ Waiting' = IF InAcquire(t)' THEN Waiting \cup {t} ELSE Waiting \ {t}
    BY <2>1, Members DEF Waiting
  <2>3. /\ Holding = {} => Holder = None
        /\ t \in Holding => Holder = t
        /\ t \notin Holding => Holder # t
        /\ Holding' = {} => Holder' = None
        /\ Holding' = {t} => Holder' = t
    <3>1. None # t /\ Holding \subseteq Threads
      BY DEF Parameters, Holding
    <3>2. Holding # {} => Holder \in Holding
      BY DEF Holder
    <3>3. Holding' # {} => Holder' \in Holding'
      BY DEF Holder
    <3>4. (Holding = {} => Holder = None) /\ (Holding' = {} => Holder' = None)
      BY DEF Holder
    <3>. QED
      BY <2>1, <3>1, <3>2, <3>3, <3>4 DEF LockedByOne
  <2>4. CASE /\ Holds(t)' <=> Holds(t)
             /\ InAcquire(t)' <=> InAcquire(t)
    <3>1. UNCHANGED <<Holding, Waiting>>
      BY <2>2, <2>4
    <3>. QED
      BY <1>1, <3>1
  <2>5. CASE ~Holds(t) /\ ~InAcquire(t) /\ ~Holds(t)' /\ InAcquire(t)'
    <3>1. Holding' = Holding /\ Waiting' = Waiting \cup {t} /\ t \notin Waiting /\ t \notin Holding
      BY <2>2, <2>5
    <3>2. Holder' = Holder
      BY <3>1 DEF Holder
    <3>3. Lock!Request(t)
      BY <2>3, <3>1, <3>2 DEF Lock!Request
    <3>. QED
      BY <3>3 DEF Lock!Next
  <2>6. CASE ~Holds(t) /\ Holds(t)' /\ ~InAcquire(t)' /\ word["lock"] = 0
    <3>1. Holding = {} /\ Holding' = {t} /\ Waiting' = Waiting \ {t}
      BY <2>1, <2>2, <2>6 DEF LockedByOne
    <3>2. Holder = None /\ Holder' = t
      BY <2>3, <3>1
    <3>3. Lock!Grant(t) \/ Lock!TryGrant(t)
      BY <3>1, <3>2 DEF Lock!Grant, Lock!TryGrant
    <3>. QED
      BY <3>3 DEF Lock!Next
  <2>7. CASE Holds(t) /\ ~Holds(t)' /\ ~InAcquire(t) /\ ~InAcquire(t)'
    <3>1. t \in Holding /\ Holding' = {} /\ Waiting' = Waiting
      BY <2>1, <2>2, <2>7 DEF LockedByOne
    <3>2. Holder = t /\ Holder' = None
      BY <2>3, <3>1
    <3>3. Lock!Release(t)
      BY <3>1, <3>2 DEF Lock!Release
    <3>. QED
      BY <3>3 DEF Lock!Next
  <2>. QED
    BY <2>1, <2>4, <2>5, <2>6, <2>7 DEF LockMove
<1>. QED
  BY <1>2, <1>3 DEF Next

(* Nobody has the mutex or waits for it at first.                          *)
LEMMA ThreadLockInit == Parameters /\ Init => Lock!Init
<1>. SUFFICES ASSUME Parameters, Init PROVE Lock!Init
  OBVIOUS
<1>1. ASSUME NEW t \in Threads PROVE pc[t] \in {"idle", "p_lock", "c_lock", "o_read", "done"}
  BY DEF Init, Parameters, Start
<1>2. Holding = {} /\ Waiting = {}
  BY <1>1 DEF Holding, Holds, Held, Waiting, InAcquire
<1>. QED
  BY <1>2 DEF Lock!Init, Holder

(* Whatever the mutex and the futex, and however many threads: vonce_call  *)
(* runs its callback once and before it returns, no thread sleeps on a     *)
(* mutex unmarked, and the mutex is a lock.                                *)
THEOREM ThreadCorrect ==
    ASSUME Parameters
    PROVE  Spec => [](CalledOnce /\ SleeperMarked) /\ Lock!Spec
<1>1. ThreadInv => CalledOnce /\ SleeperMarked
  BY OnceSafe DEF ThreadInv
<1>. QED
  BY <1>1, ThreadInit, ThreadStep, ThreadLockInit, ThreadLock, PTL
     DEF Spec, Lock!Spec, Lock!Step
=============================================================================
