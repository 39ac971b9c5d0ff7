------------------------------- MODULE MCSets -------------------------------
(***************************************************************************)
(* The five list sets with three threads of one call each, the calls being *)
(* any three of add, remove and get on the keys 1 and 2.  The list starts  *)
(* with the keys 2 and 3: 1 is absent, 2 present, and 3, which no call     *)
(* names, keeps the node of 2 from being the last one (see LastSetups).    *)
(***************************************************************************)
EXTENDS ListSet, TLC

CONSTANTS t1, t2, t3    \* the threads

Operations == [op : {"add", "remove", "get"}, key : {1, 2}]

(* The threads run the same code, so the order of the three calls is of no *)
(* account: one plan for each multiset of calls.                           *)
Rank(o) == 3 * o.key + (CASE o.op = "add" -> 0 [] o.op = "get" -> 1 [] o.op = "remove" -> 2)
Plans ==
    {t1 :> <<p[1]>> @@ t2 :> <<p[2]>> @@ t3 :> <<p[3]>> :
       p \in {q \in Operations \X Operations \X Operations :
                Rank(q[1]) <= Rank(q[2]) /\ Rank(q[2]) <= Rank(q[3])}}

AllSetups == [kind : {"coarse", "fine", "opt", "lazy", "lf"}, keys : {{2, 3}}, plan : Plans]

(* listset_lf.h, when a thread removes the last node and adds its key      *)
(* again while a second thread adds a smaller one.  No other call names    *)
(* the key, so there is one answer its second call may give.               *)
LastSetups ==
    {[kind |-> "lf", keys |-> {2},
      plan |-> t1 :> <<[op |-> "remove", key |-> 2], [op |-> "add", key |-> 2]>>
               @@ t2 :> <<[op |-> "add", key |-> 1]>> @@ t3 :> <<>>]}

(* Some thread is scheduled as long as one can move.                       *)
FairSpec == Spec /\ WF_vars(Next)
=============================================================================
