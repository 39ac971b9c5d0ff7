----------------------------- MODULE AtomicWord -----------------------------
(***************************************************************************)
(* One call of a vatomic function (libvsync/include/vsync/atomic) while    *)
(* other threads write the same word: the words, the arguments, the state  *)
(* every implementation shares, and the abstract specification: the call   *)
(* is one atomic step.                                                     *)
(*                                                                         *)
(* An operation is what it waits for (c), what it does to the word (f) and *)
(* what it returns (r): get_add is any/add/old, add_get any/add/new, and   *)
(* await_le_sub is le/sub/old.  A word of 8k bits is scaled to k * Unit    *)
(* bits, and the arguments and the other threads' values are the ones at   *)
(* the edges of a word and of its half (Sample).                           *)
(***************************************************************************)
EXTENDS Integers, Bitwise

CONSTANT Unit

ASSUME UnitAssumption == Unit \in Nat \ {0}

VARIABLES
    fn,     \* the routine called
    e,      \* its argument compared with (cmpxchg's e, an await's c)
    v,      \* its operand
    word,   \* the atomic variable
    pc,     \* the instruction or call the routine is at
    old,    \* the register the routine keeps the last value read in
    mon,    \* the exclusive monitor of the routine's processor is open
    ev,     \* that processor's event register
    mo,     \* how the access that took effect was ordered
    ret,    \* the value returned
    quiet   \* the other threads write the word no more

vars == <<fn, e, v, word, pc, old, mon, ev, mo, ret, quiet>>

Bits(w) ==
    CASE w = "8" -> Unit
      [] w = "16" -> 2 * Unit
      [] w = "32" -> 4 * Unit
      [] OTHER -> 8 * Unit

Modulus(w) == 2 ^ Bits(w)

Sample(w) ==
    LET half == 2 ^ (Bits(w) \div 2)
    IN  {0, 1, Modulus(w) \div 2, Modulus(w) - 1}
          \cup (IF w = "64" THEN {half - 1, half} ELSE {})

Holds(c, x, y) ==
    CASE c = "any" -> TRUE
      [] c = "eq" -> x = y
      [] c = "neq" -> x /= y
      [] c = "lt" -> x < y
      [] c = "le" -> x <= y
      [] c = "gt" -> x > y
      [] c = "ge" -> x >= y

(***************************************************************************)
(* The value an operation leaves in a word that holds x.                   *)
(***************************************************************************)
Apply(f, w, x, y, z) ==
    CASE f = "read" -> x
      [] f = "write" -> z
      [] f = "cmpxchg" -> IF x = y THEN z ELSE x
      [] f = "max" -> IF x >= z THEN x ELSE z
      [] f = "and" -> x & z
      [] f = "or" -> x | z
      [] f = "xor" -> x ^^ z
      [] f = "add" -> (x + z) % Modulus(w)
      [] f = "sub" -> (x - z) % Modulus(w)

NoValue == -1

Returned(r, before, after) ==
    CASE r = "old" -> before [] r = "new" -> after [] r = "void" -> NoValue
-----------------------------------------------------------------------------
(***************************************************************************)
(* The call returns x, having left y in the word, through accesses ordered *)
(* as m says ("acq", "rel"; "w" when it stored).                           *)
(***************************************************************************)
Return(x, y, m) ==
    /\ pc' = "done"
    /\ ret' = x
    /\ word' = y
    /\ mo' = m
    /\ old' = 0 /\ mon' = FALSE /\ ev' = FALSE
    /\ UNCHANGED <<fn, e, v, quiet>>

(***************************************************************************)
(* The routine goes on at pc p, having read x.                             *)
(***************************************************************************)
Goto(p, x) ==
    /\ pc' = p
    /\ old' = x
    /\ UNCHANGED <<fn, e, v, word, mo, ret, quiet>>

(***************************************************************************)
(* Another thread writes the word.  The store takes the exclusive monitor  *)
(* away, and losing it sets the event register (what wakes a wfe).         *)
(***************************************************************************)
OthersWrite ==
    /\ ~quiet /\ pc /= "done"
    /\ word' \in Sample(fn.w)
    /\ mon' = FALSE
    /\ ev' = (ev \/ mon)
    /\ UNCHANGED <<fn, e, v, pc, old, mo, ret, quiet>>

OthersStop ==
    /\ ~quiet /\ pc /= "done"
    /\ quiet' = TRUE
    /\ UNCHANGED <<fn, e, v, word, pc, old, mon, ev, mo, ret>>
-----------------------------------------------------------------------------
(***************************************************************************)
(* What every vatomic function promises: at one instant of the call its    *)
(* condition holds, the word changes as the operation says, and what is    *)
(* returned is from that instant.  Until then the word changes by other    *)
(* threads only.  (await_eq of fallback.h returns a value read before that *)
(* instant: r is "last".)                                                  *)
(***************************************************************************)
AbstractInit == pc /= "done"

AbstractStep ==
    /\ pc /= "done"
    /\ \/ /\ pc' = "done" /\ UNCHANGED quiet
          /\ Holds(fn.c, word, e)
          /\ word' = Apply(fn.f, fn.w, word, e, v)
          /\ fn.r /= "last" => ret' = Returned(fn.r, word, word')
       \/ /\ pc' /= "done" /\ UNCHANGED ret
          /\ quiet => UNCHANGED word

AbstractSpec == AbstractInit /\ [][AbstractStep]_<<fn, e, v, word, pc, ret, quiet>>
=============================================================================
