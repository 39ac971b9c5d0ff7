------------------------------ MODULE HclhLock ------------------------------
(***************************************************************************)
(* libvsync/include/vsync/spinlock/hclhlock.h: threads queue up in their   *)
(* cluster; the first of them splices the queue of the cluster onto the    *)
(* global queue and marks its last node (TWS), whose successor is the next *)
(* to splice.  A thread waits for the state of its predecessor's qnode,    *)
(* which becomes its own when it releases the lock.                        *)
(***************************************************************************)
EXTENDS Integers, FiniteSets

CONSTANTS Threads, Null,
          Initial,    \* hclh_lock_t::head
          Cluster,    \* of each thread
          Calls       \* bounds the calls of hclhlock_acquire

VARIABLES
    local_queues, global_queue,   \* hclh_lock_t
    state,                        \* of each qnode: cluster, SMW and TWS
    qnode,                        \* of each thread
    pc,
    pred,                         \* local pred, then hclh_tnode_t::pred
    local_tail, seen,             \* locals of hclhlock_acquire, hclhlock_release
    calls                         \* how many calls are left

vars == <<local_queues, global_queue, state, qnode, pc, pred, local_tail, seen, calls>>

Clusters == {Cluster[t] : t \in Threads}

(* _hclh_lock_get_default_state *)
DefaultState(c) == [cluster |-> c, smw |-> TRUE, tws |-> FALSE]
Zero == [cluster |-> 0, smw |-> FALSE, tws |-> FALSE]

(* hclhlock_init, hclhlock_init_tnode *)
Init ==
    /\ local_queues = [c \in Clusters |-> Null] /\ global_queue = Initial
    /\ state = [n \in Threads \cup {Initial} |->
                  IF n = Initial THEN Zero ELSE DefaultState(Cluster[n])]
    /\ qnode = [t \in Threads |-> t]
    /\ pc = [t \in Threads |-> "idle"]
    /\ pred = [t \in Threads |-> Null] /\ local_tail = [t \in Threads |-> Null]
    /\ seen = [t \in Threads |-> Zero]
    /\ calls = Calls

Goto(t, l) == pc' = [pc EXCEPT ![t] = l]
SetPred(t, n) == pred' = [pred EXCEPT ![t] = n]
Mine(t) == local_queues[Cluster[t]]
-----------------------------------------------------------------------------
Acquire(t) ==
    /\ pc[t] = "idle"
    /\ calls > 0 /\ calls' = calls - 1
    /\ SetPred(t, Null)
    /\ Goto(t, "local")
    /\ UNCHANGED <<local_queues, global_queue, state, qnode, local_tail, seen>>

(* cmpxchg of the local tail, which tells the value to expect next time.   *)
EnterLocal(t) ==
    /\ pc[t] = "local"
    /\ \/ /\ Mine(t) = pred[t]
          /\ local_queues' = [local_queues EXCEPT ![Cluster[t]] = qnode[t]]
          /\ Goto(t, IF pred[t] = Null THEN "master" ELSE "check")
          /\ UNCHANGED pred
       \/ /\ Mine(t) # pred[t]
          /\ SetPred(t, Mine(t))
          /\ UNCHANGED <<local_queues, pc>>
    /\ UNCHANGED <<global_queue, state, qnode, local_tail, seen>>

(* _hclh_await_grant_or_cluster_master: granted by a thread of the same    *)
(* cluster that was not the last one spliced, or the next one to splice.   *)
Granted(t) == state[pred[t]] = [DefaultState(Cluster[t]) EXCEPT !.smw = FALSE]
IsMaster(t) == state[pred[t]].cluster # Cluster[t] \/ state[pred[t]].tws

AwaitGrant(t) ==
    /\ pc[t] = "check"
    /\ \/ Granted(t) /\ Goto(t, "cs") /\ UNCHANGED pred
       \/ ~Granted(t) /\ IsMaster(t) /\ Goto(t, "master") /\ SetPred(t, Null)
    /\ UNCHANGED <<local_queues, global_queue, state, qnode, local_tail, seen>>

(* Splice the local queue, up to its tail at this moment.                  *)
ReadLocalTail(t) ==
    /\ pc[t] = "master"
    /\ local_tail' = [local_tail EXCEPT ![t] = Mine(t)]
    /\ Goto(t, "splice")
    /\ UNCHANGED <<local_queues, global_queue, state, qnode, pred, seen>>

Splice(t) ==
    /\ pc[t] = "splice"
    /\ \/ /\ global_queue = pred[t]
          /\ global_queue' = local_tail[t]
          /\ Goto(t, "read_state")
          /\ UNCHANGED pred
       \/ /\ global_queue # pred[t]
          /\ SetPred(t, global_queue)
          /\ Goto(t, "master")
          /\ UNCHANGED global_queue
    /\ UNCHANGED <<local_queues, state, qnode, local_tail, seen>>

ReadState(t) ==
    /\ pc[t] = "read_state"
    /\ seen' = [seen EXCEPT ![t] = state[local_tail[t]]]
    /\ Goto(t, "set_tws")
    /\ UNCHANGED <<local_queues, global_queue, state, qnode, pred, local_tail>>

SetTws(t) ==
    /\ pc[t] = "set_tws"
    /\ state' = [state EXCEPT ![local_tail[t]] = [seen[t] EXCEPT !.tws = TRUE]]
    /\ local_tail' = [local_tail EXCEPT ![t] = Null]
    /\ seen' = [seen EXCEPT ![t] = Zero]
    /\ Goto(t, "await")
    /\ UNCHANGED <<local_queues, global_queue, qnode, pred>>

AwaitPred(t) ==
    /\ pc[t] = "await"
    /\ ~state[pred[t]].smw
    /\ Goto(t, "cs")
    /\ UNCHANGED <<local_queues, global_queue, state, qnode, pred, local_tail, seen>>
-----------------------------------------------------------------------------
Release(t) ==
    /\ pc[t] = "cs"
    /\ seen' = [seen EXCEPT ![t] = state[qnode[t]]]
    /\ Goto(t, "clear_smw")
    /\ UNCHANGED <<local_queues, global_queue, state, qnode, pred, local_tail>>

ClearSmw(t) ==
    /\ pc[t] = "clear_smw"
    /\ state' = [state EXCEPT ![qnode[t]] = [seen[t] EXCEPT !.smw = FALSE]]
    /\ seen' = [seen EXCEPT ![t] = Zero]
    /\ Goto(t, "hijack")
    /\ UNCHANGED <<local_queues, global_queue, qnode, pred, local_tail>>

(* _hclhlock_qnode_hijack *)
Hijack(t) ==
    /\ pc[t] = "hijack"
    /\ state' = [state EXCEPT ![pred[t]] = DefaultState(Cluster[t])]
    /\ qnode' = [qnode EXCEPT ![t] = pred[t]]
    /\ Goto(t, "idle") /\ SetPred(t, Null)
    /\ UNCHANGED <<local_queues, global_queue, local_tail, seen>>

Step(t) ==
    /\ \/ EnterLocal(t) \/ AwaitGrant(t) \/ ReadLocalTail(t) \/ Splice(t)
       \/ ReadState(t) \/ SetTws(t) \/ AwaitPred(t)
       \/ Release(t) \/ ClearSmw(t) \/ Hijack(t)
    /\ UNCHANGED calls

Finished ==
    /\ calls = 0
    /\ \A t \in Threads : pc[t] = "idle"
    /\ UNCHANGED vars

Next == (\E t \in Threads : Acquire(t) \/ Step(t)) \/ Finished

Spec == Init /\ [][Next]_vars
-----------------------------------------------------------------------------
Waiting ==
    {t \in Threads :
        pc[t] \in {"local", "check", "master", "splice", "read_state", "set_tws", "await"}}
Holding == {t \in Threads : pc[t] \in {"cs", "clear_smw"}}

(* One thread at a time is between hclhlock_acquire and the write that     *)
(* lets its successor go on.                                               *)
MutualExclusion == Cardinality(Holding) <= 1

(* Recycling gives every qnode one owner: no two threads queue up with the *)
(* same one, although a thread gives its own up before it has taken over   *)
(* that of its predecessor.                                                *)
Own(t) == IF pc[t] = "hijack" THEN pred[t] ELSE qnode[t]
QnodesOwned == \A t, u \in Threads : t # u => Own(t) # Own(u)

Holder == IF Holding = {} THEN Null ELSE CHOOSE t \in Holding : TRUE
Lock == INSTANCE Mutex WITH waiting <- Waiting, holder <- Holder, NoThread <- Null
=============================================================================
