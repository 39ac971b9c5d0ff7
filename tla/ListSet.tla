------------------------------ MODULE ListSet ------------------------------
(***************************************************************************)
(* libvsync/include/vsync/map/listset_*.h, five sets of keys as sorted     *)
(* linked lists: with one lock (coarse), with a lock per node taken hand   *)
(* over hand (fine), with locks after a search without them and a second   *)
(* search (opt) or marks (lazy) to validate it, and without locks (lf).    *)
(*                                                                         *)
(* Each thread makes the calls of its plan; a node is named by the thread  *)
(* that adds it and its call.  Retired nodes are not used again while some *)
(* thread may hold a pointer to them, as the memory reclamation that the   *)
(* headers ask for (requires_smr) guarantees.  At the end the list is      *)
(* destroyed.  One step is one access to memory that is shared at the time.*)
(***************************************************************************)
EXTENDS Integers, Sequences, FiniteSets

CONSTANTS Threads, None,
          HeadNode, TailNode,    \* head_sentinel, tail_sentinel
          Setups                 \* the header compiled in, the keys at the start, the plans

VARIABLES
    setup,            \* one of Setups, for ever
    next, mark, lock, \* the nodes; next and mark are one word in listset_lf.h
    retired,          \* how often retire_fun was called on a node
    pc, calls,        \* the calls each thread has still to make
    call, pred, curr, succ, res,
    over,             \* the list is destroyed
    added, may        \* auxiliary: the nodes ever added, what KeySet says of a call

nodes == <<next, mark, lock>>
position == <<pred, curr, succ>>
vars == <<setup, nodes, retired, pc, calls, call, position, res, over, added, may>>

Kind == setup.kind
First == {<<None, k>> : k \in setup.keys}
Nodes == First \cup UNION {{<<t, i>> : i \in DOMAIN setup.plan[t]} : t \in Threads}
KeyOf(n) ==
    IF n \in First THEN n[2]
    ELSE LET p == setup.plan[n[1]] IN p[Len(p) + 1 - n[2]].key

(* The comparisons of a node with the key of a call.                       *)
Below(n, k) == n # TailNode /\ KeyOf(n) < k
Has(n, k) == n # TailNode /\ KeyOf(n) = k

(* vlistset_init, and calls of vlistset_add before the threads start.      *)
Init ==
    /\ setup \in Setups
    /\ next = [n \in Nodes \cup {HeadNode} |->
                 LET above == {k \in setup.keys : n = HeadNode \/ (n \in First /\ k > KeyOf(n))}
                 IN  IF above = {} THEN TailNode
                     ELSE <<None, CHOOSE k \in above : \A j \in above : k <= j>>]
    /\ mark = [n \in Nodes \cup {HeadNode, TailNode} |-> FALSE]
    /\ lock = [n \in Nodes \cup {HeadNode, TailNode} |-> None]
    /\ retired = [n \in Nodes |-> 0]
    /\ pc = [t \in Threads |-> "idle"]
    /\ calls = setup.plan
    /\ call = [t \in Threads |-> None] /\ res = [t \in Threads |-> None]
    /\ pred = [t \in Threads |-> HeadNode]
    /\ curr = [t \in Threads |-> HeadNode]
    /\ succ = [t \in Threads |-> HeadNode]
    /\ over = FALSE /\ added = First /\ may = [t \in Threads |-> {}]

RECURSIVE From(_)
From(n) == IF n = TailNode THEN {} ELSE {n} \cup From(next[n])

(* The nodes in the list, and the keys they stand for.                     *)
Linked == From(next[HeadNode])
Content == {KeyOf(n) : n \in {m \in Linked : ~mark[m]}}
-----------------------------------------------------------------------------
Goto(t, l) == pc' = [pc EXCEPT ![t] = l]
Put(f, x, v) == [f EXCEPT ![x] = v]
At(t, l) == pc[t] = l
Key(t) == call[t].key
Mine(t) == <<t, Len(calls[t]) + 1>>    \* the node that add is given
Take(t, n) == lock[n] = None /\ lock' = Put(lock, n, t)
Drop(n) == lock' = Put(lock, n, None)
Retire(n) == retired' = [retired EXCEPT ![n] = @ + 1]
Locate(t, p, c) == pred' = Put(pred, t, p) /\ curr' = Put(curr, t, c)
Answer(t, b) == res' = Put(res, t, b)

Return(t) ==
    /\ Goto(t, "idle")
    /\ call' = Put(call, t, None)
    /\ Locate(t, HeadNode, HeadNode) /\ succ' = Put(succ, t, HeadNode)

Locking == Kind \in {"coarse", "fine"}

Call(t) ==
    /\ At(t, "idle") /\ calls[t] # <<>>
    /\ call' = Put(call, t, Head(calls[t])) /\ calls' = Put(calls, t, Tail(calls[t]))
    /\ Answer(t, None)
    /\ Goto(t, IF Locking THEN "lock_head" ELSE "start")
    /\ UNCHANGED <<nodes, retired, position>>
-----------------------------------------------------------------------------
(* The node before the place of key k, searched for from node p.           *)
RECURSIVE Before(_, _)
Before(p, k) == IF Below(next[p], k) THEN Before(next[p], k) ELSE p

(* listset_coarse.h: lock[HeadNode] is the lock of the list.  The search   *)
(* reads what only the holder of the lock writes.                          *)
LockHead(t) ==
    /\ At(t, "lock_head")
    /\ Take(t, HeadNode)
    /\ LET p == IF Kind = "coarse" THEN Before(HeadNode, Key(t)) ELSE HeadNode
       IN  Locate(t, p, next[p])
    /\ Goto(t, IF Kind = "coarse" THEN "apply" ELSE "lock_curr")
    /\ UNCHANGED <<next, mark, retired, calls, call, succ, res>>

(* listset_fine.h: go one node further.                                    *)
Advance(t) ==
    /\ At(t, "advance")
    /\ Drop(pred[t])
    /\ Locate(t, curr[t], next[curr[t]])
    /\ Goto(t, "lock_curr")
    /\ UNCHANGED <<next, mark, retired, calls, call, succ, res>>

(* The search without locks. *)
Start(t) ==
    /\ At(t, "start")
    /\ Locate(t, HeadNode, next[HeadNode])
    /\ Goto(t, IF Kind = "lf" /\ call[t].op # "get" THEN "find" ELSE "walk")
    /\ UNCHANGED <<nodes, retired, calls, call, succ, res>>

Walk(t) ==
    /\ At(t, "walk")
    /\ IF Below(curr[t], Key(t))
       THEN Locate(t, curr[t], next[curr[t]]) /\ UNCHANGED pc
       ELSE /\ Goto(t, IF Kind = "opt" \/ call[t].op # "get" THEN "lock_pred" ELSE "get")
            /\ UNCHANGED <<pred, curr>>
    /\ UNCHANGED <<nodes, retired, calls, call, succ, res>>

LockPred(t) ==
    /\ At(t, "lock_pred")
    /\ Take(t, pred[t])
    /\ Goto(t, "lock_curr")
    /\ UNCHANGED <<next, mark, retired, calls, call, position, res>>

LockCurr(t) ==
    /\ At(t, "lock_curr")
    /\ Take(t, curr[t])
    /\ Goto(t, CASE Kind # "fine" -> "validate"
                 [] Below(curr[t], Key(t)) -> "advance"
                 [] OTHER -> "apply")
    /\ UNCHANGED <<next, mark, retired, calls, call, position, res>>

\* Mutant: the successor of pred is compared with its predecessor.
ValidateLazyTwisted(t) ==
    /\ Kind = "lazy" /\ At(t, "validate")
    /\ Goto(t, IF ~mark[pred[t]] /\ ~mark[curr[t]] /\ next[pred[t]] = pred[t]
               THEN "apply" ELSE "unlock_first")
    /\ UNCHANGED <<nodes, retired, calls, call, position, res>>

(* _vlistset_validate of listset_lazy.h.  The locks protect what it reads. *)
ValidateLazy(t) ==
    /\ Kind = "lazy" /\ At(t, "validate")
    /\ Goto(t, IF ~mark[pred[t]] /\ ~mark[curr[t]] /\ next[pred[t]] = curr[t]
               THEN "apply" ELSE "unlock_first")
    /\ UNCHANGED <<nodes, retired, calls, call, position, res>>

(* _vlistset_validate of listset_opt.h searches for pred from the head;    *)
(* succ is its node.                                                       *)
ValidateOpt(t) ==
    /\ Kind = "opt"
    /\ LET adjacent == IF next[pred[t]] = curr[t] THEN "apply" ELSE "unlock_first" IN
       \/ /\ At(t, "validate")
          /\ \/ pred[t] = HeadNode /\ Goto(t, adjacent) /\ UNCHANGED succ
             \/ /\ pred[t] # HeadNode
                /\ succ' = Put(succ, t, next[HeadNode]) /\ Goto(t, "check")
       \/ /\ At(t, "check")
          /\ \/ /\ Below(succ[t], Key(t)) /\ succ[t] # pred[t]
                /\ succ' = Put(succ, t, next[succ[t]]) /\ UNCHANGED pc
             \/ /\ ~Below(succ[t], Key(t)) \/ succ[t] = pred[t]
                /\ Goto(t, IF Below(succ[t], Key(t)) THEN adjacent ELSE "unlock_first")
                /\ UNCHANGED succ
    /\ UNCHANGED <<nodes, retired, calls, call, pred, curr, res>>

(* The operation, between pred and curr.  listset_lazy.h only marks the    *)
(* node it removes, and listset_coarse.h retires it inside its section.    *)
Apply(t) ==
    /\ At(t, "apply")
    /\ LET found == Has(curr[t], Key(t))
           op == call[t].op
       IN  /\ Answer(t, IF op = "add" THEN ~found ELSE found)
           /\ next' = CASE op = "add" /\ ~found ->
                             [next EXCEPT ![Mine(t)] = curr[t], ![pred[t]] = Mine(t)]
                        [] op = "remove" /\ found /\ Kind # "lazy" ->
                             Put(next, pred[t], next[curr[t]])
                        [] OTHER -> next
           /\ mark' = IF Kind = "lazy" /\ op = "remove" /\ found
                      THEN Put(mark, curr[t], TRUE) ELSE mark
           /\ IF Kind = "coarse" /\ op = "remove" /\ found
              THEN Retire(curr[t]) ELSE UNCHANGED retired
           /\ Goto(t, IF Kind = "lazy" /\ op = "remove" /\ found
                      THEN "detach" ELSE "unlock_first")
    /\ UNCHANGED <<lock, calls, call, position>>

Detach(t) ==
    /\ At(t, "detach")
    /\ next' = Put(next, pred[t], next[curr[t]])
    /\ Retire(curr[t])
    /\ Goto(t, "unlock_first")
    /\ UNCHANGED <<mark, lock, calls, call, position, res>>

(* listset_fine.h unlocks curr first, the other two pred.                  *)
UnlockFirst(t) ==
    /\ At(t, "unlock_first")
    /\ Drop(CASE Kind = "coarse" -> HeadNode [] Kind = "fine" -> curr[t] [] OTHER -> pred[t])
    /\ IF Kind = "coarse" THEN Return(t)
       ELSE Goto(t, "unlock_second") /\ UNCHANGED <<call, position>>
    /\ UNCHANGED <<next, mark, retired, calls, res>>

(* A search that was not valid starts again; listset_fine.h and            *)
(* listset_opt.h retire the removed node when they hold no lock.           *)
UnlockSecond(t) ==
    /\ At(t, "unlock_second")
    /\ Drop(IF Kind = "fine" THEN pred[t] ELSE curr[t])
    /\ CASE res[t] = None -> Goto(t, "start") /\ UNCHANGED <<call, position>>
         [] res[t] = TRUE /\ call[t].op = "remove" /\ Kind # "lazy" ->
              Goto(t, "retire") /\ UNCHANGED <<call, position>>
         [] OTHER -> Return(t)
    /\ UNCHANGED <<next, mark, retired, calls, res>>

RetireLate(t) ==
    /\ At(t, "retire")
    /\ Retire(curr[t])
    /\ Return(t)
    /\ UNCHANGED <<nodes, calls, res>>

(* vlistset_get of listset_lazy.h and listset_lf.h reads the mark last.    *)
Get(t) ==
    /\ At(t, "get")
    /\ Answer(t, Has(curr[t], Key(t)) /\ ~mark[curr[t]])
    /\ Return(t)
    /\ UNCHANGED <<nodes, retired, calls>>
-----------------------------------------------------------------------------
(* listset_lf.h: a compare-and-swap of the next of node n, without a mark. *)
Cas(n, old, new) ==
    IF next[n] = old /\ ~mark[n] THEN next' = Put(next, n, new) ELSE UNCHANGED next
Swaps(n, old) == next[n] = old /\ ~mark[n]

(* _vlistset_find_loop: read next and mark of curr.                        *)
Find(t) ==
    /\ At(t, "find")
    /\ LET c == curr[t] IN
       CASE c # TailNode /\ mark[c] ->
              succ' = Put(succ, t, next[c]) /\ Goto(t, "snip") /\ UNCHANGED <<pred, curr>>
         [] Below(c, Key(t)) /\ ~mark[c] -> Locate(t, c, next[c]) /\ UNCHANGED <<pc, succ>>
         [] OTHER -> Goto(t, call[t].op) /\ UNCHANGED position
    /\ UNCHANGED <<nodes, retired, calls, call, res>>

(* Detach a marked node.  When it was the last one the loop ends, and curr *)
(* is still that node when it is compared with the key.                    *)
Snip(t) ==
    /\ At(t, "snip")
    /\ Cas(pred[t], curr[t], succ[t])
    /\ IF Swaps(pred[t], curr[t])
       THEN /\ Retire(curr[t])
            /\ CASE succ[t] # TailNode -> Locate(t, pred[t], succ[t]) /\ Goto(t, "find")
                 [] succ[t] = TailNode /\ Below(curr[t], Key(t)) ->
                      Locate(t, curr[t], succ[t]) /\ Goto(t, "find")
                 [] OTHER -> Goto(t, call[t].op) /\ UNCHANGED <<pred, curr>>
       ELSE Goto(t, "start") /\ UNCHANGED <<retired, pred, curr>>
    /\ UNCHANGED <<mark, lock, calls, call, succ, res>>

Add(t) ==
    /\ At(t, "add")
    /\ \/ Has(curr[t], Key(t)) /\ Answer(t, FALSE) /\ Return(t) /\ UNCHANGED next
       \/ /\ ~Has(curr[t], Key(t)) /\ Swaps(pred[t], curr[t])
          /\ next' = [next EXCEPT ![Mine(t)] = curr[t], ![pred[t]] = Mine(t)]
          /\ Answer(t, TRUE) /\ Goto(t, "finish") /\ UNCHANGED <<call, position>>
       \/ /\ ~Has(curr[t], Key(t)) /\ ~Swaps(pred[t], curr[t])
          /\ next' = Put(next, Mine(t), curr[t])
          /\ Goto(t, "start") /\ UNCHANGED <<call, position, res>>
    /\ UNCHANGED <<mark, lock, retired, calls>>

Finish(t) ==
    /\ At(t, "finish")
    /\ Return(t)
    /\ UNCHANGED <<nodes, retired, calls, res>>

Remove(t) ==
    /\ At(t, "remove")
    /\ \/ ~Has(curr[t], Key(t)) /\ Answer(t, FALSE) /\ Return(t)
       \/ /\ Has(curr[t], Key(t))
          /\ succ' = Put(succ, t, next[curr[t]]) /\ Goto(t, "mark")
          /\ UNCHANGED <<call, pred, curr, res>>
    /\ UNCHANGED <<nodes, retired, calls>>

\* Mutant: attempt_mark, which succeeds when the mark is there already.
MarkAttempt(t) ==
    /\ At(t, "mark")
    /\ IF next[curr[t]] = succ[t]
       THEN mark' = Put(mark, curr[t], TRUE) /\ Goto(t, "detach_cas")
       ELSE Goto(t, "start") /\ UNCHANGED mark
    /\ UNCHANGED <<next, lock, retired, calls, call, position, res>>

Mark(t) ==
    /\ At(t, "mark")
    /\ IF Swaps(curr[t], succ[t])
       THEN mark' = Put(mark, curr[t], TRUE) /\ Goto(t, "detach_cas")
       ELSE Goto(t, "start") /\ UNCHANGED mark
    /\ UNCHANGED <<next, lock, retired, calls, call, position, res>>

\* Mutant: the node is retired whether or not it could be detached.
DetachCasRetire(t) ==
    /\ At(t, "detach_cas")
    /\ Cas(pred[t], curr[t], succ[t])
    /\ Retire(curr[t])
    /\ Answer(t, TRUE) /\ Return(t)
    /\ UNCHANGED <<mark, lock, calls>>

(* A node that cannot be detached now is left to the searches to come.     *)
DetachCas(t) ==
    /\ At(t, "detach_cas")
    /\ Cas(pred[t], curr[t], succ[t])
    /\ IF Swaps(pred[t], curr[t]) THEN Retire(curr[t]) ELSE UNCHANGED retired
    /\ Answer(t, TRUE) /\ Return(t)
    /\ UNCHANGED <<mark, lock, calls>>
-----------------------------------------------------------------------------
Answered == [t \in Threads |-> IF call[t] = None THEN res[t] ELSE None]
Keys == INSTANCE KeySet WITH set <- Content, ans <- Answered

(* The auxiliary variables follow the step of thread t.                    *)
Observe(t) ==
    /\ added' = added \cup (Linked' \ Linked)
    /\ may' = [u \in Threads |->
         CASE call'[u] = None -> {}
           [] call[u] = None -> Keys!Reads(call'[u], Content)
           [] Content' = Content -> may[u]
           [] u = t -> {TRUE}
           [] may[u] = {TRUE} /\ call[u].op # "get" -> may[u]
           [] OTHER -> may[u] \cup Keys!Reads(call[u], Content')]

Step(t) ==
    \/ Call(t) \/ LockHead(t) \/ Advance(t) \/ Start(t) \/ Walk(t) \/ LockPred(t)
    \/ LockCurr(t) \/ ValidateLazy(t) \/ ValidateOpt(t) \/ Apply(t) \/ Detach(t)
    \/ UnlockFirst(t) \/ UnlockSecond(t) \/ RetireLate(t) \/ Get(t)
    \/ Find(t) \/ Snip(t) \/ Add(t) \/ Finish(t) \/ Remove(t) \/ Mark(t) \/ DetachCas(t)

(* vlistset_destroy, when the threads are joined.                          *)
Destroy ==
    /\ ~over
    /\ \A t \in Threads : pc[t] = "idle" /\ calls[t] = <<>>
    /\ retired' = [n \in Nodes |-> retired[n] + (IF n \in Linked THEN 1 ELSE 0)]
    /\ over' = TRUE
    /\ UNCHANGED <<nodes, pc, calls, call, position, res, added, may>>

Next ==
    /\ UNCHANGED setup
    /\ \/ \E t \in Threads : Step(t) /\ Observe(t) /\ UNCHANGED over
       \/ Destroy
       \/ over /\ UNCHANGED vars

Spec == Init /\ [][Next]_vars
-----------------------------------------------------------------------------
(* The calls of the plans.                                                 *)
Planned == UNION {{setup.plan[t][i] : i \in DOMAIN setup.plan[t]} : t \in Threads}

(* vlistset_add, remove and get are those of a set of keys: an update that *)
(* returns true takes effect at one instant, and any other answer was      *)
(* right at some instant of the call.                                      *)
IsKeySet == Keys!Init(Content) /\ [][Keys!Step(Planned)]_vars

(* retire_fun is called on a node at most once and only when the list no   *)
(* longer leads to it, and when the list is destroyed it has been called   *)
(* on every node ever added: none leaks, none is freed twice or in use.    *)
RetiredOnce ==
    \A n \in Nodes :
        /\ retired[n] > 0 /\ ~over => retired[n] = 1 /\ n \notin Linked
        /\ over => retired[n] = (IF n \in added THEN 1 ELSE 0)

(* Every call returns, whatever the other threads do: retries of a search  *)
(* that was not valid, and waits for the locks of two nodes, come to an    *)
(* end because some call makes progress.                                   *)
CallsEnd == <>over
=============================================================================
