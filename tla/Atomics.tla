------------------------------ MODULE Atomics ------------------------------
(***************************************************************************)
(* Every implementation of every vatomic function, one call at a time,     *)
(* against other threads that write the word at any moment.                *)
(***************************************************************************)
EXTENDS ArmAtomics, FallbackAtomics

Comparands(g) ==
    CASE g.c /= "any" -> Sample(g.w)
      [] g.f = "cmpxchg" -> {1, Modulus(g.w) - 1}
      [] OTHER -> {0}

Operands(g) ==
    CASE g.f = "read" -> {0}
      [] g.by = "c" /\ g.one -> {1}
      [] g.c /= "any" -> {1, Modulus(g.w) - 1}
      [] OTHER -> Sample(g.w)

Start(g) == IF g.by = "arm" THEN ArmStart(g) ELSE FallbackStart(g)

Init ==
    /\ fn \in ArmRoutines \cup BuiltinRoutines \cup FallbackRoutines
    /\ e \in Comparands(fn)
    /\ v \in Operands(fn)
    /\ word \in Sample(fn.w)
    /\ pc = Start(fn)
    /\ old = IF fn.c = "eq" THEN e ELSE 0
    /\ mon = FALSE /\ ev = FALSE
    /\ mo = {} /\ ret = NoValue
    /\ quiet = FALSE

Step == ArmStep \/ FallbackStep

Finished == pc = "done" /\ UNCHANGED vars

Next == Step \/ SpuriousEvent \/ OthersWrite \/ OthersStop \/ Finished

(***************************************************************************)
(* The routine's thread runs, and an exclusive store whose monitor stays   *)
(* open does not fail for ever: the architecture's forward progress        *)
(* guarantee for loops of this form.                                       *)
(***************************************************************************)
Spec == Init /\ [][Next]_vars /\ WF_vars(Step) /\ SF_vars(StoreSucceeds)
-----------------------------------------------------------------------------

(***************************************************************************)
(* The access that takes effect is ordered as the function's name says: a  *)
(* value returned by a sc or acq function was read by an acquiring access, *)
(* and what a sc or rel function wrote was written by a releasing one,     *)
(* also on the paths that skip the store and on the second attempt of      *)
(* arm64_lxe.h.                                                            *)
(***************************************************************************)
OrderHonoured ==
    pc = "done" =>
        /\ fn.r /= "void" /\ fn.ord \in {"sc", "acq"} => "acq" \in mo
        /\ "w" \in mo /\ fn.ord \in {"sc", "rel"} => "rel" \in mo

(***************************************************************************)
(* Once the other threads leave the word alone, every call returns; an     *)
(* await returns if the value left satisfies its condition.  A polite      *)
(* await of arm64.h asleep in wfe is one that could miss the last write.   *)
(***************************************************************************)
Returns ==
    quiet /\ Holds(fn.c, word, e) ~> pc = "done"
=============================================================================
