------------------------------- MODULE Stack -------------------------------
(***************************************************************************)
(* libvsync/include/vsync/stack: the lock-free stack (stack_core.h) with   *)
(* the two ways to go on after a failed attempt, exponential backoff       *)
(* (xbo_stack.h, utils/backoff.h) and elimination (elimination_stack.h,    *)
(* range_policy.h), where a pusher and a popper meet in an exchanger       *)
(* (utils/exchanger.h).  Slots = 0 selects backoff.                        *)
(*                                                                         *)
(* A value stands for the node that holds it: nodes are retired to an SMR  *)
(* scheme and no node is used again while a call that saw it runs.         *)
(***************************************************************************)
EXTENDS Integers, Sequences, FiniteSets

CONSTANTS Pushers, Poppers,
          Pushes, Pops,  \* calls each pusher, each popper makes
          Slots,         \* VSTACK_XCHG_SLOTS_COUNT
          MaxTrials,     \* VSTACK_XCHG_MAX_TRIALS
          MaxDelay,      \* max_backoff
          None

VARIABLES
    top, next,        \* vstack_core_t, and the next field of each node
    slot,             \* the exchangers: [state, item]
    limit,            \* backoff_t
    pc, mine, seen,   \* control; the node to push (None: a pop); top as read
    range, at, trial, \* range_policy_t; the exchanger tried, trials made
    left              \* values still to push, pops still to make

stackVars == <<top, next>>
xchgVars == <<range, at, trial>>
vars == <<stackVars, slot, limit, pc, mine, seen, xchgVars, left>>

Threads == Pushers \cup Poppers
Nodes == Pushers \X (1 .. Pushes)
Empty == [state |-> "EMPTY", item |-> None]

(* vstack_init, vstack_core_init, exchanger_reset, xbobackoff_init *)
Init ==
    /\ top = None
    /\ next = [n \in Nodes |-> None]
    /\ slot = [s \in 0 .. Slots - 1 |-> Empty]
    /\ limit = 1
    /\ pc = [p \in Threads |-> "idle"]
    /\ mine = [p \in Threads |-> None]
    /\ seen = [p \in Threads |-> None]
    /\ range = [p \in Threads |-> 0]
    /\ at = [p \in Threads |-> 0]
    /\ trial = [p \in Threads |-> 0]
    /\ left = [p \in Threads |-> IF p \in Pushers THEN Pushes ELSE Pops]

Goto(p, l) == pc' = [pc EXCEPT ![p] = l]
Min(x, y) == IF x < y THEN x ELSE y

(* range_policy_record_init: the range starts at all the slots.            *)
Call(p) ==
    /\ pc[p] = "idle" /\ left[p] > 0
    /\ left' = [left EXCEPT ![p] = left[p] - 1]
    /\ mine' = [mine EXCEPT ![p] = IF p \in Pushers THEN <<p, left[p]>> ELSE None]
    /\ range' = [range EXCEPT ![p] = Slots - 1]
    /\ Goto(p, "read")
    /\ UNCHANGED <<stackVars, slot, limit, seen, at, trial>>

(* The call is over; its locals are forgotten.                             *)
Return(p) ==
    /\ pc[p] = "ok"
    /\ Goto(p, "idle")
    /\ mine' = [mine EXCEPT ![p] = None]
    /\ seen' = [seen EXCEPT ![p] = None]
    /\ range' = [range EXCEPT ![p] = 0]
    /\ at' = [at EXCEPT ![p] = 0]
    /\ trial' = [trial EXCEPT ![p] = 0]
    /\ UNCHANGED <<stackVars, slot, limit, left>>
-----------------------------------------------------------------------------
(* vstack_core_try_push and vstack_core_try_pop: both read top, and a pop  *)
(* of an empty stack returns NULL.  The node pushed is not shared yet, nor *)
(* does the next field of a node in the stack change.                      *)
ReadTop(p) ==
    /\ pc[p] = "read"
    /\ seen' = [seen EXCEPT ![p] = top]
    /\ next' = IF p \in Pushers THEN [next EXCEPT ![mine[p]] = top] ELSE next
    /\ Goto(p, IF p \in Poppers /\ top = None THEN "ok" ELSE "cas")
    /\ UNCHANGED <<top, slot, limit, mine, xchgVars, left>>

CasTop(p) ==
    /\ pc[p] = "cas"
    /\ \/ /\ top = seen[p]
          /\ top' = IF p \in Pushers THEN mine[p] ELSE next[seen[p]]
          /\ mine' = [mine EXCEPT ![p] = IF p \in Pushers THEN None ELSE seen[p]]
          /\ Goto(p, "ok")
       \/ /\ top # seen[p]
          /\ Goto(p, "miss")
          /\ UNCHANGED <<top, mine>>
    /\ UNCHANGED <<next, slot, limit, seen, xchgVars, left>>

(* xbobackoff_backoff reads the shared limit and then doubles it; delay is *)
(* a random number up to it, and sleeping changes nothing.                 *)
BackoffRead(p) ==
    /\ pc[p] = "miss" /\ Slots = 0
    /\ trial' = [trial EXCEPT ![p] = limit]
    /\ Goto(p, "backoff")
    /\ UNCHANGED <<stackVars, slot, limit, mine, seen, range, at, left>>

BackoffWrite(p) ==
    /\ pc[p] = "backoff"
    /\ limit' = Min(MaxDelay, 2 * trial[p])
    /\ trial' = [trial EXCEPT ![p] = 0]
    /\ Goto(p, "read")
    /\ UNCHANGED <<stackVars, slot, mine, seen, range, at, left>>

(* _vstack_rendezvous picks an exchanger in 0 .. range.                    *)
Rendezvous(p) ==
    /\ pc[p] = "miss" /\ Slots > 0
    /\ \E s \in 0 .. range[p] : at' = [at EXCEPT ![p] = s]
    /\ trial' = [trial EXCEPT ![p] = 0]
    /\ Goto(p, "look")
    /\ UNCHANGED <<stackVars, slot, limit, mine, seen, range, left>>
-----------------------------------------------------------------------------
(* The exchange is over: ok says whether it succeeded, item what came.  A  *)
(* pusher is done when it met a popper, and a popper when it met a pusher; *)
(* otherwise both try the stack again, with a smaller range after a        *)
(* timeout (range_policy_record_fail).                                     *)
Exchanged(p, ok, item) ==
    /\ IF ok /\ (item = None) # (mine[p] = None)
       THEN /\ mine' = [mine EXCEPT ![p] = item]
            /\ Goto(p, "ok")
            /\ UNCHANGED range
       ELSE /\ range' = [range EXCEPT ![p] = IF ok \/ @ = 0 THEN @ ELSE @ - 1]
            /\ Goto(p, "read")
            /\ UNCHANGED mine
    /\ UNCHANGED <<stackVars, limit, seen, at, trial, left>>

Here(p) == slot[at[p]]
Place(p, st, n) == slot' = [slot EXCEPT ![at[p]] = [state |-> st, item |-> n]]

(* exchanger_xchg: a trial reads the slot.                                 *)
Look(p) ==
    /\ pc[p] = "look"
    /\ IF trial[p] >= MaxTrials
       THEN Exchanged(p, FALSE, None)
       ELSE /\ trial' = [trial EXCEPT ![p] = @ + 1]
            /\ seen' = [seen EXCEPT ![p] = Here(p).item]
            /\ Goto(p, CASE Here(p).state = "EMPTY" -> "offer"
                         [] Here(p).state = "WAITING" -> "accept"
                         [] Here(p).state = "BUSY" -> "look")
            /\ UNCHANGED <<stackVars, limit, mine, range, at, left>>
    /\ UNCHANGED slot

(* SLOT_STATE_EMPTY: place the own item and wait.                          *)
Offer(p) ==
    /\ pc[p] = "offer"
    /\ IF Here(p) = [state |-> "EMPTY", item |-> seen[p]]
       THEN Place(p, "WAITING", mine[p]) /\ Goto(p, "wait")
       ELSE Goto(p, "look") /\ UNCHANGED slot
    /\ UNCHANGED <<stackVars, limit, mine, seen, xchgVars, left>>

\* Mutant: the slot is left empty for the next pair.
AcceptEmpties(p) ==
    /\ pc[p] = "accept"
    /\ IF Here(p) = [state |-> "WAITING", item |-> seen[p]]
       THEN Place(p, "EMPTY", None) /\ Exchanged(p, TRUE, seen[p])
       ELSE /\ Goto(p, "look")
            /\ UNCHANGED <<stackVars, slot, limit, mine, seen, xchgVars, left>>

(* SLOT_STATE_WAITING: take what waits there and leave the own item.       *)
Accept(p) ==
    /\ pc[p] = "accept"
    /\ IF Here(p) = [state |-> "WAITING", item |-> seen[p]]
       THEN Place(p, "BUSY", mine[p]) /\ Exchanged(p, TRUE, seen[p])
       ELSE /\ Goto(p, "look")
            /\ UNCHANGED <<stackVars, slot, limit, mine, seen, xchgVars, left>>

(* The wait ends when the slot is BUSY or the trials are used up, and the  *)
(* offer is then withdrawn unless somebody accepts it first.               *)
Wait(p) ==
    /\ pc[p] = "wait"
    /\ IF trial[p] >= MaxTrials
       THEN Goto(p, "withdraw") /\ UNCHANGED trial
       ELSE /\ trial' = [trial EXCEPT ![p] = @ + 1]
            /\ Goto(p, IF Here(p).state = "BUSY" THEN "reset" ELSE "wait")
    /\ UNCHANGED <<stackVars, slot, limit, mine, seen, range, at, left>>

Withdraw(p) ==
    /\ pc[p] = "withdraw"
    /\ IF Here(p) = [state |-> "WAITING", item |-> mine[p]]
       THEN slot' = [slot EXCEPT ![at[p]] = Empty] /\ Exchanged(p, FALSE, None)
       ELSE /\ Goto(p, "reset")
            /\ UNCHANGED <<stackVars, slot, limit, mine, seen, xchgVars, left>>

(* The slot is this thread's to reset: nobody changes a BUSY slot.         *)
Reset(p) ==
    /\ pc[p] = "reset"
    /\ slot' = [slot EXCEPT ![at[p]] = Empty]
    /\ Exchanged(p, TRUE, Here(p).item)

Step(p) ==
    \/ Call(p) \/ Return(p) \/ ReadTop(p) \/ CasTop(p) \/ BackoffRead(p) \/ BackoffWrite(p)
    \/ Rendezvous(p) \/ Look(p) \/ Offer(p) \/ Accept(p) \/ Wait(p) \/ Withdraw(p) \/ Reset(p)

AllDone == \A p \in Threads : pc[p] = "idle" /\ left[p] = 0

Next == (\E p \in Threads : Step(p)) \/ (AllDone /\ UNCHANGED vars)

Spec == Init /\ [][Next]_vars
-----------------------------------------------------------------------------
(* `ASSERT(slot_state == SLOT_STATE_BUSY)' of a withdrawal that came too   *)
(* late.                                                                   *)
LateOfferAccepted == \A p \in Threads : pc[p] = "reset" => Here(p).state = "BUSY"

(* The nodes reachable from n, the last pushed at the end.                 *)
Chain[n \in Nodes \cup {None}] ==
    IF n = None THEN <<>> ELSE Append(Chain[next[n]], n)

(* A thread whose offer has been accepted.                                 *)
Met(p) == pc[p] \in {"wait", "withdraw", "reset"} /\ Here(p).state = "BUSY"

Taken(p) ==
    CASE p \in Pushers -> None
      [] Met(p) -> Here(p).item
      [] pc[p] = "ok" -> mine[p]
      [] OTHER -> None

Added ==
    {n \in Nodes : LET p == n[1]
                   IN  \/ n[2] > left[p] + 1
                       \/ n[2] = left[p] + 1 /\ (mine[p] # n \/ (Met(p) /\ Here(p).item = None))}

Abs == INSTANCE Deque
           WITH items <- Chain[top], added <- Added,
                taken <- [p \in Threads |-> Taken(p)],
                Values <- Nodes, Ends <- {"back"}
IsStack == Abs!Spec
=============================================================================
