------------------------------ MODULE CnaLock ------------------------------
(***************************************************************************)
(* libvsync/include/vsync/spinlock/cnalock.h: an MCS queue whose holder    *)
(* may pass over waiters of other NUMA nodes; it parks them in a secondary *)
(* queue, a ring named by its last node, which travels in the spin field   *)
(* of the holder.                                                          *)
(*                                                                         *)
(* Nodes are named by their threads.  One step is one access to tail or to *)
(* a field that two threads access at the time: a thread's accesses to its *)
(* own spin and node while it holds the lock, and to its node before the   *)
(* node enters the queue, join a neighbouring step.                        *)
(***************************************************************************)
EXTENDS Integers, FiniteSets

CONSTANTS Threads, Null, One, Unset, NUMA, INITIAL_VAL,
          Verification    \* VSYNC_VERIFICATION: rand answers, which anybody may write

VARIABLES
    tail,               \* cnalock_t
    spin, next, node,   \* cna_node_t; (void *)1 is One
    cnt,                \* the static counter of _cnalock_keep_lock_local
    pc,
    prev,               \* tail of cnalock_acquire
    head,               \* sec_head of cnalock_release
    cur, last,          \* cur and sec_tail of _cnalock_find_successor
    succ                \* succ of cnalock_release

nodes == <<spin, next, node>>
find == <<cur, last>>
vars == <<tail, nodes, cnt, pc, prev, head, find, succ>>

Init ==
    /\ tail = Null
    /\ spin = [t \in Threads |-> Null]
    /\ next = [t \in Threads |-> Null]
    /\ node = [t \in Threads |-> Unset]
    /\ cnt = 0
    /\ pc = [t \in Threads |-> "idle"]
    /\ prev = [t \in Threads |-> Null]
    /\ head = Null /\ cur = Null /\ last = Null /\ succ = Null

Goto(t, l) == pc' = [pc EXCEPT ![t] = l]

EnterQueue(t) ==
    /\ pc[t] = "idle"
    /\ tail' = t
    /\ next' = [next EXCEPT ![t] = Null]
    /\ prev' = [prev EXCEPT ![t] = tail]
    /\ UNCHANGED <<cnt, head, find, succ>>

(* spin still holds what the last hand-over left there. *)
AcquireXchgStale(t) ==
    /\ EnterQueue(t)
    /\ spin' = [spin EXCEPT ![t] = IF tail = Null THEN One ELSE @]
    /\ node' = [node EXCEPT ![t] = IF tail = Null THEN Unset ELSE NUMA[t]]
    /\ Goto(t, IF tail = Null THEN "cs" ELSE "link")

(* The lock is free, or t becomes the last waiter. *)
AcquireXchg(t) ==
    /\ EnterQueue(t)
    /\ spin' = [spin EXCEPT ![t] = IF tail = Null THEN One ELSE Null]
    /\ node' = [node EXCEPT ![t] = IF tail = Null THEN Unset ELSE NUMA[t]]
    /\ Goto(t, IF tail = Null THEN "cs" ELSE "link")

AcquireLink(t) ==
    /\ pc[t] = "link"
    /\ next' = [next EXCEPT ![prev[t]] = t]
    /\ prev' = [prev EXCEPT ![t] = Null]
    /\ Goto(t, "await")
    /\ UNCHANGED <<tail, spin, node, cnt, head, find, succ>>

AcquireAwait(t) ==
    /\ pc[t] = "await"
    /\ spin[t] # Null
    /\ Goto(t, "cs")
    /\ UNCHANGED <<tail, nodes, cnt, prev, head, find, succ>>

Secondary(t) == spin[t] # One

ReleaseReadNext(t) ==
    /\ pc[t] = "cs"
    /\ Goto(t, IF next[t] # Null THEN "keep"
               ELSE IF Secondary(t) THEN "detach" ELSE "cas_null")
    /\ UNCHANGED <<tail, nodes, cnt, prev, head, find, succ>>

ReleaseCasNull(t) ==
    /\ pc[t] = "cas_null"
    /\ tail' = IF tail = t THEN Null ELSE tail
    /\ Goto(t, IF tail = t THEN "idle" ELSE "rel_await")
    /\ UNCHANGED <<nodes, cnt, prev, head, find, succ>>

ReleaseDetach(t) ==
    /\ pc[t] = "detach"
    /\ head' = next[spin[t]]
    /\ next' = [next EXCEPT ![spin[t]] = Null]
    /\ Goto(t, "cas_sec")
    /\ UNCHANGED <<tail, spin, node, cnt, prev, find, succ>>

ReleaseCasSecondary(t) ==
    /\ pc[t] = "cas_sec"
    /\ tail' = IF tail = t THEN spin[t] ELSE tail
    /\ Goto(t, IF tail = t THEN "grant_sec" ELSE "reattach")
    /\ UNCHANGED <<nodes, cnt, prev, head, find, succ>>

(* The secondary queue has become the main one. *)
ReleaseGrantSecondary(t) ==
    /\ pc[t] = "grant_sec"
    /\ spin' = [spin EXCEPT ![head] = One]
    /\ head' = Null
    /\ Goto(t, "idle")
    /\ UNCHANGED <<tail, next, node, cnt, prev, find, succ>>

ReleaseReattachNothing(t) ==
    /\ pc[t] = "reattach"
    /\ head' = Null
    /\ Goto(t, "rel_await")
    /\ UNCHANGED <<tail, nodes, cnt, prev, find, succ>>

ReleaseReattach(t) ==
    /\ pc[t] = "reattach"
    /\ next' = [next EXCEPT ![spin[t]] = head]
    /\ head' = Null
    /\ Goto(t, "rel_await")
    /\ UNCHANGED <<tail, spin, node, cnt, prev, find, succ>>

ReleaseAwaitNext(t) ==
    /\ pc[t] = "rel_await"
    /\ next[t] # Null
    /\ Goto(t, "keep")
    /\ UNCHANGED <<tail, nodes, cnt, prev, head, find, succ>>

(* With a constant answer the secondary queue starves. *)
KeepLockLocalAlways(t) ==
    /\ pc[t] = "keep"
    /\ cur' = next[t] /\ last' = next[t]
    /\ Goto(t, "walk")
    /\ UNCHANGED <<tail, nodes, cnt, prev, head, succ>>

(* _cnalock_keep_lock_local, then the start of _cnalock_find_successor.    *)
(* Under VSYNC_VERIFICATION any answer is possible, so that build has the  *)
(* behaviours of every INITIAL_VAL.                                        *)
KeepLockLocal(t) ==
    /\ pc[t] = "keep"
    /\ cnt' = IF Verification THEN cnt ELSE (cnt + 1) % INITIAL_VAL
    /\ \/ /\ Verification \/ cnt' # 0
          /\ cur' = next[t] /\ last' = next[t]
          /\ Goto(t, "walk")
       \/ /\ Verification \/ cnt' = 0
          /\ Goto(t, "choose")
          /\ UNCHANGED find
    /\ UNCHANGED <<tail, nodes, prev, head, succ>>

(* me->node is Unset when t found the lock free. *)
MyNode(t) == IF node[t] = Unset THEN NUMA[t] ELSE node[t]

FindWalk(t) ==
    /\ pc[t] = "walk"
    /\ cur # Null /\ node[cur] # MyNode(t)
    /\ last' = cur
    /\ cur' = next[cur]
    /\ UNCHANGED <<tail, nodes, cnt, pc, prev, head, succ>>

FindNobody(t) ==
    /\ pc[t] = "walk"
    /\ cur = Null
    /\ last' = Null
    /\ Goto(t, "choose")
    /\ UNCHANGED <<tail, nodes, cnt, prev, head, cur, succ>>

FindNext(t) ==
    /\ pc[t] = "walk"
    /\ cur # Null /\ node[cur] = MyNode(t) /\ cur = next[t]
    /\ succ' = cur
    /\ cur' = Null /\ last' = Null
    /\ Goto(t, "choose")
    /\ UNCHANGED <<tail, nodes, cnt, prev, head>>

(* The nodes from next[t] to last are to be parked; their head is first    *)
(* linked behind the secondary queue.                                      *)
FindPark(t) ==
    /\ pc[t] = "walk"
    /\ cur # Null /\ node[cur] = MyNode(t) /\ cur # next[t]
    /\ IF Secondary(t)
       THEN head' = next[spin[t]] /\ next' = [next EXCEPT ![spin[t]] = next[t]]
       ELSE head' = next[t] /\ UNCHANGED next
    /\ Goto(t, "park")
    /\ UNCHANGED <<tail, spin, node, cnt, prev, find, succ>>

FindClose(t) ==
    /\ pc[t] = "park"
    /\ next' = [next EXCEPT ![last] = head]
    /\ spin' = [spin EXCEPT ![t] = last]
    /\ succ' = cur
    /\ head' = Null /\ cur' = Null /\ last' = Null
    /\ Goto(t, "choose")
    /\ UNCHANGED <<tail, node, cnt, prev>>

(* No local successor, or none wanted: the parked nodes go first.          *)
ReleaseUnpark(t) ==
    /\ pc[t] = "choose"
    /\ succ = Null /\ Secondary(t)
    /\ succ' = next[spin[t]]
    /\ next' = [next EXCEPT ![spin[t]] = next[t]]
    /\ Goto(t, "grant")
    /\ UNCHANGED <<tail, spin, node, cnt, prev, head, find>>

(* A local successor inherits the secondary queue. *)
ReleaseGrant(t) ==
    /\ \/ pc[t] = "choose" /\ (succ # Null \/ ~Secondary(t))
       \/ pc[t] = "grant"
    /\ LET to == IF succ = Null THEN next[t] ELSE succ
           value == IF pc[t] = "choose" THEN spin[t] ELSE One
       IN  spin' = [spin EXCEPT ![to] = value]
    /\ succ' = Null
    /\ Goto(t, "idle")
    /\ UNCHANGED <<tail, next, node, cnt, prev, head, find>>

Step(t) ==
    \/ AcquireLink(t) \/ AcquireAwait(t)
    \/ ReleaseReadNext(t) \/ ReleaseCasNull(t) \/ ReleaseDetach(t)
    \/ ReleaseCasSecondary(t) \/ ReleaseGrantSecondary(t) \/ ReleaseReattach(t)
    \/ ReleaseAwaitNext(t) \/ KeepLockLocal(t) \/ FindWalk(t) \/ FindNobody(t)
    \/ FindNext(t) \/ FindPark(t) \/ FindClose(t) \/ ReleaseUnpark(t)
    \/ ReleaseGrant(t)

Next == \E t \in Threads : AcquireXchg(t) \/ Step(t)

Spec == Init /\ [][Next]_vars
-----------------------------------------------------------------------------
Waiting == {t \in Threads : pc[t] \in {"link", "await"} /\ spin[t] = Null}
Holding == {t \in Threads : pc[t] \notin {"idle", "link", "await"}}

TypeOK ==
    /\ tail \in Threads \cup {Null}
    /\ spin \in [Threads -> Threads \cup {Null, One}]
    /\ next \in [Threads -> Threads \cup {Null}]
    /\ cnt \in 0 .. INITIAL_VAL - 1
    /\ {prev[t] : t \in Threads} \cup {head, cur, last, succ}
           \subseteq Threads \cup {Null}

(* The threads reached from t along next, t included; a waiter that has not *)
(* linked itself yet counts as linked.                                     *)
Follows(t) ==
    IF next[t] # Null THEN {next[t]}
    ELSE {u \in Threads : pc[u] = "link" /\ prev[u] = t}
Chain(t) ==
    LET reach[n \in 0 .. Cardinality(Threads)] ==
            IF n = 0 THEN {t}
            ELSE reach[n - 1] \cup UNION {Follows(u) : u \in reach[n - 1]}
    IN  reach[Cardinality(Threads)]

(* In the critical section the waiters are split between the main queue,   *)
(* which starts at the holder and ends at tail, and the ring of parked     *)
(* ones: nobody is lost, nobody is in both, and the ring is closed.        *)
WaitersQueued ==
    \A t \in Threads : pc[t] = "cs" =>
        LET main == Chain(t)
            parked == IF Secondary(t) THEN Chain(spin[t]) ELSE {}
        IN  /\ main \cup parked = Waiting \cup {t}
            /\ main \cap parked = {}
            /\ tail \in main
            /\ \A u \in parked : spin[t] \in Chain(u)

Lock == INSTANCE Mutex
    WITH waiting <- {t \in Threads : pc[t] \in {"link", "await"}},
         holder <- IF Holding = {} THEN Null ELSE CHOOSE t \in Holding : TRUE,
         NoThread <- Null

(* At most one thread at a time is between cnalock_acquire and the end of  *)
(* cnalock_release, whichever queue it came from.                          *)
MutualExclusion == \A t, u \in Holding : t = u

(* acquire and release of cnalock.h are those of a lock, also while they   *)
(* move waiters between the two queues.                                    *)
IsMutex == Lock!Spec
=============================================================================
