----------------------------- MODULE Semaphore -----------------------------
(***************************************************************************)
(* libvsync/include/vsync/spinlock/semaphore.h: N resources, of which a    *)
(* call takes or gives back some number in Amounts.  A thread gives back   *)
(* what it took.  test/spinlock/semaphore.c uses it as a readers-writers   *)
(* lock: readers take 1 resource, writers all N.                           *)
(***************************************************************************)
EXTENDS Integers, FiniteSetsExt

CONSTANTS Threads, N, Amounts

VARIABLES
    s,        \* semaphore_t
    pc,       \* idle, await, cas or hold, for each thread
    amount,   \* argument i of the call, or what the thread holds
    old       \* local of semaphore_tryacquire

vars == <<s, pc, amount, old>>

Init ==
    /\ s = N
    /\ pc = [t \in Threads |-> "idle"]
    /\ amount = [t \in Threads |-> 0]
    /\ old = [t \in Threads |-> 0]

Goto(t, l) == pc' = [pc EXCEPT ![t] = l]

Acquire(t, i) ==
    /\ pc[t] = "idle"
    /\ amount' = [amount EXCEPT ![t] = i]
    /\ Goto(t, "await")
    /\ UNCHANGED <<s, old>>

(* vatomic32_await_ge_sub: one atomic access once the condition holds. *)
AwaitGeSub(t) ==
    /\ pc[t] = "await"
    /\ s >= amount[t]
    /\ s' = s - amount[t]
    /\ Goto(t, "hold")
    /\ UNCHANGED <<amount, old>>

(* Too few resources: tryacquire returns false at once. *)
TryRead(t, i) ==
    /\ pc[t] = "idle"
    /\ s >= i
    /\ amount' = [amount EXCEPT ![t] = i]
    /\ old' = [old EXCEPT ![t] = s]
    /\ Goto(t, "cas")
    /\ UNCHANGED s

TryWrite(t) ==
    /\ pc[t] = "cas"
    /\ s' = old[t] - amount[t]
    /\ Goto(t, "hold")
    /\ old' = [old EXCEPT ![t] = 0]
    /\ UNCHANGED amount

TryCas(t) ==
    /\ pc[t] = "cas"
    /\ \/ /\ s = old[t]
          /\ s' = old[t] - amount[t]
          /\ Goto(t, "hold")
          /\ UNCHANGED amount
       \/ /\ s # old[t]
          /\ Goto(t, "idle")
          /\ amount' = [amount EXCEPT ![t] = 0]
          /\ UNCHANGED s
    /\ old' = [old EXCEPT ![t] = 0]

Release(t) ==
    /\ pc[t] = "hold"
    /\ s' = s + amount[t]
    /\ amount' = [amount EXCEPT ![t] = 0]
    /\ Goto(t, "idle")
    /\ UNCHANGED old

Next == \E t \in Threads :
    \/ \E i \in Amounts : Acquire(t, i) \/ TryRead(t, i)
    \/ AwaitGeSub(t) \/ TryCas(t) \/ Release(t)

Spec == Init /\ [][Next]_vars

(* A step of a system that contains a semaphore. *)
Step == [Next]_vars
-----------------------------------------------------------------------------
Holders == {t \in Threads : pc[t] = "hold"}

(* What the threads of S hold together. *)
Total(f, S) == MapThenSumSet(LAMBDA t : f[t], S)

(* Resources are neither lost nor invented, however tryacquires whose      *)
(* value of s is stale interleave with the other calls; so "the            *)
(* subtraction does not overflow" (semaphore.h:57).                        *)
Conserved == s + Total(amount, Holders) = N

(* test/spinlock/semaphore.c: while a writer holds all N resources no      *)
(* other thread holds any.                                                 *)
WriterAlone == \A t \in Holders : amount[t] = N => Holders = {t}

(* What the proofs need of the constants: finitely many threads, and calls *)
(* that take at least one resource and no more than there are.             *)
Parameters == IsFiniteSet(Threads) /\ N \in Nat /\ Amounts \subseteq 1 .. N

(* What Conserved and WriterAlone rest on: a thread in a call has checked  *)
(* that old suffices for what it asks, and holds no more than it asked.    *)
SemInv ==
    /\ s \in 0 .. N
    /\ pc \in [Threads -> {"idle", "await", "cas", "hold"}]
    /\ amount \in [Threads -> 0 .. N] /\ old \in [Threads -> 0 .. N]
    /\ \A t \in Threads : pc[t] # "idle" => amount[t] \in Amounts
    /\ \A t \in Threads : pc[t] = "cas" => old[t] >= amount[t]
    /\ Conserved
=============================================================================
