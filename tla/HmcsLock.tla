------------------------------ MODULE HmcsLock ------------------------------
(***************************************************************************)
(* libvsync/include/vsync/spinlock/hmcslock.h: a tree of MCS locks.  The   *)
(* thread that comes first at a lock goes on to the parent; the holder     *)
(* passes the whole path to a neighbour at its leaf, or at a higher lock,  *)
(* until the count of such passes reaches the threshold.                   *)
(*                                                                         *)
(* The node that the threads of lock c use at its parent (c->qnode) is     *)
(* named c, the node of a thread is named by the thread.  One step is one  *)
(* access to a word that several threads access at the time.               *)
(***************************************************************************)
EXTENDS Integers, FiniteSets, Sequences

CONSTANTS Threads, Null,
          Path,         \* of each thread: the locks from its leaf to the root
          Threshold     \* of every lock

VARIABLES
    lock,           \* the tail of each lock
    next, status,   \* hmcs_node_t
    pc,
    at,             \* how far along its path a recursive call is
    other           \* pred of an acquire, succ of a release

vars == <<lock, next, status, pc, at, other>>

Locks == UNION {{Path[t][i] : i \in 1 .. Len(Path[t])} : t \in Threads}
Nodes == Threads \cup Locks

UNLOCKED == 0
LOCKED == 1
COHORT_START == 1
ACQUIRE_PARENT == Threshold + 1    \* UINT64_MAX - 1, above every count
WAIT == Threshold + 2              \* UINT64_MAX

(* hmcslock_init *)
Init ==
    /\ lock = [l \in Locks |-> Null]
    /\ next = [n \in Nodes |-> Null] /\ status = [n \in Nodes |-> 0]
    /\ pc = [t \in Threads |-> "idle"]
    /\ at = [t \in Threads |-> 1]
    /\ other = [t \in Threads |-> Null]

Goto(t, l) == pc' = [pc EXCEPT ![t] = l]

AtRoot(t) == at[t] = Len(Path[t])
LockOf(t) == Path[t][at[t]]
Node(t) == IF at[t] = 1 THEN t ELSE Path[t][at[t] - 1]
-----------------------------------------------------------------------------
Acquire(t) ==
    /\ pc[t] = "idle"
    /\ Goto(t, "enter")
    /\ UNCHANGED <<lock, next, status, at, other>>

(* t has acquired a lock and goes on: into its critical section from the   *)
(* root, else to the parent.                                               *)
Climb(t) ==
    IF AtRoot(t) THEN Goto(t, "cs") /\ at' = [at EXCEPT ![t] = 1]
    ELSE Goto(t, "enter") /\ at' = [at EXCEPT ![t] = @ + 1]

(* The status of a node that is first in its queue.                        *)
First(t) == IF AtRoot(t) THEN UNLOCKED ELSE COHORT_START
Waits(t) == IF AtRoot(t) THEN LOCKED ELSE WAIT

(* _hmcslock_acquire_real, _hmcslock_one_acquire_real for the root: set up *)
(* the node, exchange the tail.                                            *)
Enter(t) ==
    /\ pc[t] = "enter"
    /\ LET l == LockOf(t)
           n == Node(t)
       IN  /\ next' = [next EXCEPT ![n] = Null]
           /\ lock' = [lock EXCEPT ![l] = n]
           /\ status' = [status EXCEPT ![n] =
                            IF lock[l] = Null THEN First(t) ELSE Waits(t)]
           /\ \/ lock[l] = Null /\ Climb(t) /\ UNCHANGED other
              \/ /\ lock[l] # Null
                 /\ other' = [other EXCEPT ![t] = lock[l]]
                 /\ Goto(t, "link") /\ UNCHANGED at

Link(t) ==
    /\ pc[t] = "link"
    /\ next' = [next EXCEPT ![other[t]] = Node(t)]
    /\ other' = [other EXCEPT ![t] = Null]
    /\ Goto(t, "await")
    /\ UNCHANGED <<lock, status, at>>

(* A thread that is passed the path enters, one that is passed this lock   *)
(* only goes on to the parent.                                             *)
Await(t) ==
    /\ pc[t] = "await"
    /\ status[Node(t)] # Waits(t)
    /\ \/ /\ ~AtRoot(t) /\ status[Node(t)] = ACQUIRE_PARENT
          /\ status' = [status EXCEPT ![Node(t)] = COHORT_START]
          /\ Climb(t)
       \/ /\ AtRoot(t) \/ status[Node(t)] < ACQUIRE_PARENT
          /\ Goto(t, "cs") /\ at' = [at EXCEPT ![t] = 1]
          /\ UNCHANGED status
    /\ UNCHANGED <<lock, next, other>>
-----------------------------------------------------------------------------
Release(t) ==
    /\ pc[t] = "cs"
    /\ Goto(t, "release")
    /\ UNCHANGED <<lock, next, status, at, other>>

(* _hmcslock_release_real: pass the lock on here, or release the parent.   *)
ReleaseReal(t) ==
    /\ pc[t] = "release"
    /\ LET succ == next[Node(t)] IN
       \/ /\ status[Node(t)] < Threshold /\ succ # Null
          /\ other' = [other EXCEPT ![t] = succ]
          /\ Goto(t, "pass") /\ UNCHANGED at
       \/ /\ status[Node(t)] >= Threshold \/ succ = Null
          /\ at' = [at EXCEPT ![t] = @ + 1]
          /\ Goto(t, IF AtRoot(t)' THEN "helper" ELSE "release")
          /\ UNCHANGED other
    /\ UNCHANGED <<lock, next, status>>

(* This lock is done with: the recursive call returns to the lock below.   *)
Return(t) ==
    IF at[t] = 1 THEN Goto(t, "idle") /\ UNCHANGED at
    ELSE Goto(t, "helper") /\ at' = [at EXCEPT ![t] = @ - 1]

Pass(t) ==
    /\ pc[t] = "pass"
    /\ status' = [status EXCEPT ![other[t]] = status[Node(t)] + 1]
    /\ other' = [other EXCEPT ![t] = Null]
    /\ Return(t)
    /\ UNCHANGED <<lock, next>>

(* _hmcslock_release_helper *)
Helper(t) ==
    /\ pc[t] = "helper"
    /\ Goto(t, IF next[Node(t)] = Null THEN "cas" ELSE "grant")
    /\ UNCHANGED <<lock, next, status, at, other>>

HelperCas(t) ==
    /\ pc[t] = "cas"
    /\ \/ /\ lock[LockOf(t)] = Node(t)
          /\ lock' = [lock EXCEPT ![LockOf(t)] = Null]
          /\ Return(t)
       \/ /\ lock[LockOf(t)] # Node(t)
          /\ Goto(t, "await_next")
          /\ UNCHANGED <<lock, at>>
    /\ UNCHANGED <<next, status, other>>

AwaitNext(t) ==
    /\ pc[t] = "await_next"
    /\ next[Node(t)] # Null
    /\ Goto(t, "grant")
    /\ UNCHANGED <<lock, next, status, at, other>>

Grant(t) ==
    /\ pc[t] = "grant"
    /\ status' = [status EXCEPT ![next[Node(t)]] =
                    IF AtRoot(t) THEN UNLOCKED ELSE ACQUIRE_PARENT]
    /\ Return(t)
    /\ UNCHANGED <<lock, next, other>>

Step(t) ==
    \/ Enter(t) \/ Link(t) \/ Await(t)
    \/ Release(t) \/ ReleaseReal(t) \/ Pass(t)
    \/ Helper(t) \/ HelperCas(t) \/ AwaitNext(t) \/ Grant(t)

Next == \E t \in Threads : Acquire(t) \/ Step(t)

Spec == Init /\ [][Next]_vars
-----------------------------------------------------------------------------
Waiting == {t \in Threads : pc[t] \in {"enter", "link", "await"}}
Holding ==
    {t \in Threads :
        \/ pc[t] \in {"cs", "release", "pass"}
        \/ pc[t] \in {"helper", "cas", "await_next", "grant"} /\ AtRoot(t)}

(* One thread at a time is between hmcslock_acquire and the write by which *)
(* hmcslock_release gives up the path or the root.                         *)
MutualExclusion == Cardinality(Holding) <= 1

(* The assertion of _hmcslock_release_real: the path is passed on at one   *)
(* lock at most threshold - 1 times, so other parts of the tree get it.    *)
CountBounded ==
    \A t \in Threads : pc[t] = "release" => status[Node(t)] <= Threshold

Holder == IF Holding = {} THEN Null ELSE CHOOSE t \in Holding : TRUE
Lock == INSTANCE Mutex WITH waiting <- Waiting, holder <- Holder, NoThread <- Null
=============================================================================
