------------------------------ MODULE ChaseLev ------------------------------
(***************************************************************************)
(* libvsync/include/vsync/queue/chaselev.h: a bounded work-stealing deque. *)
(* Its owner pushes and pops at the bottom, thieves steal at the top.  A   *)
(* thread makes a bounded number of calls; the owner pushes or pops.       *)
(***************************************************************************)
EXTENDS Integers, Sequences

CONSTANTS Owner, Thieves, OwnerCalls, ThiefCalls, Size, None

VARIABLES
    top, bottom, buffer,    \* vdeque_t and its vdeque_array_t
    pc,                     \* control of each thread
    t, b, obj,              \* its locals top, bottom and *out_obj
    made,                   \* calls it has made
    pushed                  \* pushes that have succeeded

vars == <<top, bottom, buffer, pc, t, b, obj, made, pushed>>
queueVars == <<top, bottom, buffer>>

Threads == {Owner} \cup Thieves
Calls(p) == IF p = Owner THEN OwnerCalls ELSE ThiefCalls

(* vdeque_init *)
Init ==
    /\ top = 0 /\ bottom = 0
    /\ buffer = [i \in 0 .. Size - 1 |-> None]
    /\ pc = [p \in Threads |-> "idle"]
    /\ t = [p \in Threads |-> 0]
    /\ b = [p \in Threads |-> 0]
    /\ obj = [p \in Threads |-> None]
    /\ made = [p \in Threads |-> 0]
    /\ pushed = 0

Goto(p, l) == pc' = [pc EXCEPT ![p] = l]

Call(p) ==
    /\ pc[p] = "idle" /\ made[p] < Calls(p)
    /\ made' = [made EXCEPT ![p] = made[p] + 1]

(* A call that obtained no object returns, one that did hands it over.     *)
Return(p) ==
    /\ pc[p] = "ok"
    /\ Goto(p, "idle")
    /\ obj' = [obj EXCEPT ![p] = None]
    /\ UNCHANGED <<queueVars, t, b, made, pushed>>
-----------------------------------------------------------------------------
(* vdeque_push_bottom; the owner alone writes bottom.                      *)
Push ==
    /\ Call(Owner)
    /\ b' = [b EXCEPT ![Owner] = bottom]
    /\ Goto(Owner, "push_top")
    /\ UNCHANGED <<queueVars, t, obj, pushed>>

PushReadTop ==
    /\ pc[Owner] = "push_top"
    /\ Goto(Owner, IF b[Owner] - top > Size - 1 THEN "idle" ELSE "push_write")
    /\ UNCHANGED <<queueVars, t, b, obj, made, pushed>>

PushWrite ==
    /\ pc[Owner] = "push_write"
    /\ buffer' = [buffer EXCEPT ![b[Owner] % Size] = pushed + 1]
    /\ Goto(Owner, "push_bottom")
    /\ UNCHANGED <<top, bottom, t, b, obj, made, pushed>>

PushBottom ==
    /\ pc[Owner] = "push_bottom"
    /\ bottom' = b[Owner] + 1
    /\ pushed' = pushed + 1
    /\ Goto(Owner, "idle")
    /\ UNCHANGED <<top, buffer, t, b, obj, made>>
-----------------------------------------------------------------------------
(* vdeque_pop_bottom *)
Pop ==
    /\ Call(Owner)
    /\ IF bottom = 0
       THEN UNCHANGED <<pc, b>>
       ELSE Goto(Owner, "pop_bottom") /\ b' = [b EXCEPT ![Owner] = bottom - 1]
    /\ UNCHANGED <<queueVars, t, obj, pushed>>

PopWriteBottom ==
    /\ pc[Owner] = "pop_bottom"
    /\ bottom' = b[Owner]
    /\ Goto(Owner, "pop_top")
    /\ UNCHANGED <<top, buffer, t, b, obj, made, pushed>>

PopReadTop ==
    /\ pc[Owner] = "pop_top"
    /\ t' = [t EXCEPT ![Owner] = top]
    /\ Goto(Owner, CASE top < b[Owner] -> "pop_take"
                     [] top = b[Owner] -> "pop_last"
                     [] OTHER -> "pop_undo")
    /\ UNCHANGED <<queueVars, b, obj, made, pushed>>

PopTake ==
    /\ pc[Owner] \in {"pop_take", "pop_last"}
    /\ obj' = [obj EXCEPT ![Owner] = buffer[b[Owner] % Size]]
    /\ Goto(Owner, IF pc[Owner] = "pop_take" THEN "ok" ELSE "pop_cas")
    /\ UNCHANGED <<queueVars, t, b, made, pushed>>

PopCas ==
    /\ pc[Owner] = "pop_cas"
    /\ IF top = t[Owner]
       THEN top' = t[Owner] + 1 /\ Goto(Owner, "pop_won") /\ UNCHANGED obj
       ELSE Goto(Owner, "pop_undo") /\ obj' = [obj EXCEPT ![Owner] = None] /\ UNCHANGED top
    /\ UNCHANGED <<bottom, buffer, t, b, made, pushed>>

PopRestore ==
    /\ pc[Owner] \in {"pop_won", "pop_undo"}
    /\ bottom' = b[Owner] + 1
    /\ Goto(Owner, IF pc[Owner] = "pop_won" THEN "ok" ELSE "idle")
    /\ UNCHANGED <<top, buffer, t, b, obj, made, pushed>>
-----------------------------------------------------------------------------
(* vdeque_steal *)
Steal(p) ==
    /\ p \in Thieves /\ Call(p)
    /\ t' = [t EXCEPT ![p] = top]
    /\ Goto(p, "steal_bottom")
    /\ UNCHANGED <<queueVars, b, obj, pushed>>

StealReadBottom(p) ==
    /\ pc[p] = "steal_bottom"
    /\ Goto(p, IF t[p] < bottom THEN "steal_read" ELSE "idle")
    /\ UNCHANGED <<queueVars, t, b, obj, made, pushed>>

StealRead(p) ==
    /\ pc[p] = "steal_read"
    /\ obj' = [obj EXCEPT ![p] = buffer[t[p] % Size]]
    /\ Goto(p, "steal_cas")
    /\ UNCHANGED <<queueVars, t, b, made, pushed>>

StealCas(p) ==
    /\ pc[p] = "steal_cas"
    /\ IF top = t[p]
       THEN top' = t[p] + 1 /\ Goto(p, "ok") /\ UNCHANGED obj
       ELSE Goto(p, "idle") /\ obj' = [obj EXCEPT ![p] = None] /\ UNCHANGED top
    /\ UNCHANGED <<bottom, buffer, t, b, made, pushed>>

Step(p) ==
    \/ p = Owner /\ (\/ Push \/ PushReadTop \/ PushWrite \/ PushBottom
                     \/ Pop \/ PopWriteBottom \/ PopReadTop \/ PopTake \/ PopCas \/ PopRestore)
    \/ Steal(p) \/ StealReadBottom(p) \/ StealRead(p) \/ StealCas(p)
    \/ Return(p)

AllDone == \A p \in Threads : pc[p] = "idle" /\ made[p] = Calls(p)

Next == (\E p \in Threads : Step(p)) \/ (AllDone /\ UNCHANGED vars)

Spec == Init /\ [][Next]_vars
-----------------------------------------------------------------------------
(* The slot a pop has given up stays in the deque until the pop knows that *)
(* it, and not a thief, has it.                                            *)
Limit == IF pc[Owner] \in {"pop_top", "pop_last", "pop_cas"} THEN bottom + 1 ELSE bottom

Items == [i \in 1 .. Limit - top |-> buffer[(top + i - 1) % Size]]

Taken(p) ==
    CASE pc[p] = "pop_take" -> buffer[b[p] % Size]
      [] pc[p] \in {"ok", "pop_won"} -> obj[p]
      [] OTHER -> None

Abs == INSTANCE Deque
           WITH items <- Items, added <- 1 .. pushed,
                taken <- [p \in Threads |-> Taken(p)],
                Values <- 1 .. OwnerCalls, Ends <- {"front", "back"}
IsDeque == Abs!Spec
=============================================================================
