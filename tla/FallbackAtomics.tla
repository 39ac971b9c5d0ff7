-------------------------- MODULE FallbackAtomics --------------------------
(***************************************************************************)
(* The vatomic functions written in C: builtins.h, one compiler intrinsic  *)
(* each (the __atomic family), and fallback.h, which builds the rest from  *)
(* read, cmpxchg and the get_ functions of whichever back end defined      *)
(* them.  Each call of such a function is one atomic step.                 *)
(*                                                                         *)
(* ro is the order of the reads of a loop and co the order of the call     *)
(* that takes effect; one marks the functions whose operand is 1.          *)
(***************************************************************************)
EXTENDS AtomicWord

LOCAL Orders == {"sc", "acq", "rel", "rlx"}
LOCAL VoidOrders == {"sc", "rel", "rlx"}
LOCAL ReadOrders == {"sc", "acq", "rlx"}
LOCAL IntWidths == {"8", "16", "32", "64", "sz"}
LOCAL Widths == IntWidths \cup {"ptr"}
LOCAL AwaitWidths == {"32", "64"}
LOCAL Comparisons == {"le", "lt", "ge", "gt"}

Function(c, f, r, w, o) ==
    [by |-> "c", c |-> c, f |-> f, r |-> r, w |-> w, ord |-> o, ro |-> o, co |-> o, one |-> FALSE]

Calls(f, r, W, O) == {Function("any", f, r, w, o) : w \in W, o \in O}

ByOne(f, r, W) ==
    {[Function("any", f, r, w, o) EXCEPT !.one = TRUE] : w \in W, o \in Orders}

(***************************************************************************)
(* get_max reads with the acquire half of its order; an await that writes  *)
(* reads relaxed unless it is sc, and orders its cmpxchg.                  *)
(***************************************************************************)
Loops(C, F, r, W, O) ==
    {[Function(c, f, r, w, o) EXCEPT
          !.ro = CASE f = "read" -> o
                   [] f = "max" -> IF o = "rel" THEN "rlx" ELSE o
                   [] OTHER -> IF o = "sc" THEN "sc" ELSE "rlx"]
        : c \in C, f \in F, w \in W, o \in O}
-----------------------------------------------------------------------------
\* builtins.h
builtin_read == Calls("read", "old", Widths, ReadOrders)
builtin_write == Calls("write", "void", Widths, VoidOrders)
builtin_xchg == Calls("write", "old", Widths, Orders)
builtin_cmpxchg == Calls("cmpxchg", "old", Widths, Orders)
builtin_get_and == Calls("and", "old", IntWidths, Orders)
builtin_get_or == Calls("or", "old", IntWidths, Orders)
builtin_get_xor == Calls("xor", "old", IntWidths, Orders)
builtin_get_add == Calls("add", "old", IntWidths, Orders)
builtin_get_sub == Calls("sub", "old", IntWidths, Orders)

\* fallback.h: functions made of one call
and_get == Calls("and", "new", IntWidths, Orders)
void_and == Calls("and", "void", IntWidths, VoidOrders)
or_get == Calls("or", "new", IntWidths, Orders)
void_or == Calls("or", "void", IntWidths, VoidOrders)
xor_get == Calls("xor", "new", IntWidths, Orders)
void_xor == Calls("xor", "void", IntWidths, VoidOrders)
add_get == Calls("add", "new", IntWidths, Orders)
void_add == Calls("add", "void", IntWidths, VoidOrders)
sub_get == Calls("sub", "new", IntWidths, Orders)
void_sub == Calls("sub", "void", IntWidths, Orders)
get_inc == ByOne("add", "old", IntWidths)
inc_get == ByOne("add", "new", IntWidths)
inc == ByOne("add", "void", IntWidths)
get_dec == ByOne("sub", "old", IntWidths)
dec_get == ByOne("sub", "new", IntWidths)
dec == ByOne("sub", "void", IntWidths)
init == Calls("write", "void", Widths, {"sc"})

\* fallback.h: loops
get_max == Loops({"any"}, {"max"}, "old", IntWidths, Orders)
max_get == Loops({"any"}, {"max"}, "new", IntWidths, Orders)
void_max == Loops({"any"}, {"max"}, "void", IntWidths, VoidOrders)
await_neq == Loops({"neq"}, {"read"}, "old", AwaitWidths \cup {"ptr"}, ReadOrders)
await_eq == Loops({"eq"}, {"read"}, "last", AwaitWidths \cup {"ptr"}, ReadOrders)
await_compare == Loops(Comparisons, {"read"}, "old", AwaitWidths, ReadOrders)
await_compare_op == Loops(Comparisons, {"add", "sub", "write"}, "old", AwaitWidths, Orders)
await_neq_op ==
    Loops({"neq"}, {"add", "sub", "write"}, "old", AwaitWidths, Orders)
      \cup Loops({"neq"}, {"write"}, "old", {"ptr"}, Orders)
await_eq_op ==
    Loops({"eq"}, {"add", "sub", "write"}, "old", AwaitWidths, Orders)
      \cup Loops({"eq"}, {"write"}, "old", {"ptr"}, Orders)

BuiltinRoutines ==
    builtin_read \cup builtin_write \cup builtin_xchg \cup builtin_cmpxchg \cup
        builtin_get_and \cup builtin_get_or \cup builtin_get_xor \cup builtin_get_add \cup
        builtin_get_sub

FallbackRoutines ==
    and_get \cup void_and \cup or_get \cup void_or \cup xor_get \cup void_xor \cup
        add_get \cup void_add \cup sub_get \cup void_sub \cup get_inc \cup inc_get \cup
        inc \cup get_dec \cup dec_get \cup dec \cup init \cup get_max \cup max_get \cup
        void_max \cup await_neq \cup await_eq \cup await_compare \cup await_compare_op \cup
        await_neq_op \cup await_eq_op
-----------------------------------------------------------------------------
OrderOf(o, writes) ==
    (IF o \in {"sc", "acq"} THEN {"acq"} ELSE {})
      \cup (IF writes /\ o \in {"sc", "rel"} THEN {"rel"} ELSE {})
      \cup (IF writes THEN {"w"} ELSE {})

(***************************************************************************)
(* What a function returns given what the get_ function it calls returned: *)
(* the operation once more, on integers, cut to the width of the type.     *)
(***************************************************************************)
Again(x) ==
    CASE fn.f = "and" -> x & v
      [] fn.f = "or" -> x | v
      [] fn.f = "xor" -> x ^^ v
      [] fn.f = "add" -> (x + v) % Modulus(fn.w)
      [] fn.f = "sub" -> (x - v) % Modulus(fn.w)
      [] fn.f = "max" -> IF x >= v THEN x ELSE v

Answer(x) ==
    CASE fn.r = "void" -> NoValue [] fn.r = "new" -> Again(x) [] fn.r = "old" -> x

FallbackStart(g) ==
    CASE g.f = "max" -> "max"
      [] g.c \in {"eq", "neq"} -> "await"
      [] g.c \in {"le", "lt", "ge", "gt"} -> "first"
      [] OTHER -> "call"

(***************************************************************************)
(* One intrinsic or get_ call does all of it (external: the compiler's     *)
(* __atomic functions).                                                    *)
(***************************************************************************)
Call ==
    /\ pc = "call"
    /\ Return(Answer(word), Apply(fn.f, fn.w, word, e, v), OrderOf(fn.co, fn.f /= "read"))

(***************************************************************************)
(* get_max: leave when the value read is no smaller, else cmpxchg, whose   *)
(* answer is the next value read.                                          *)
(***************************************************************************)
MaxRead ==
    /\ pc = "max"
    /\ IF word >= v
       THEN Return(Answer(word), word, OrderOf(fn.ro, FALSE))
       ELSE Goto("maxcas", word) /\ UNCHANGED <<mon, ev>>

MaxCas ==
    /\ pc = "maxcas"
    /\ IF word = old
       THEN Return(Answer(old), v, OrderOf(fn.co, TRUE))
       ELSE IF word >= v
            THEN Return(Answer(word), word, OrderOf(fn.co, FALSE))
            ELSE Goto("maxcas", word) /\ UNCHANGED <<mon, ev>>

(***************************************************************************)
(* await_eq and await_neq read in a loop; await_eq keeps the last value    *)
(* that was not the expected one (old starts as the expected one).         *)
(***************************************************************************)
AwaitRead ==
    /\ pc = "await"
    /\ IF ~Holds(fn.c, word, e)
       THEN Goto("await", word) /\ UNCHANGED <<mon, ev>>
       ELSE IF fn.f = "read"
            THEN Return(IF fn.c = "eq" THEN old ELSE word, word, OrderOf(fn.ro, FALSE))
            ELSE Goto("cas", word) /\ UNCHANGED <<mon, ev>>

(***************************************************************************)
(* The other awaits read once and then, as long as the condition fails,    *)
(* wait for the value to be another one (await_neq, whose reads of the     *)
(* same value leave it where it is).                                       *)
(***************************************************************************)
ReadOrWait ==
    /\ pc \in {"first", "neq"}
    /\ IF ~Holds(fn.c, word, e)
       THEN Goto("neq", word) /\ UNCHANGED <<mon, ev>>
       ELSE IF fn.f = "read"
            THEN Return(word, word, OrderOf(fn.ro, FALSE))
            ELSE Goto("cas", word) /\ UNCHANGED <<mon, ev>>


(***************************************************************************)
(* The cmpxchg of an await that writes.  When it fails, await_eq_ and      *)
(* await_neq_ wait again, the others go on from the value it returned.     *)
(***************************************************************************)
AwaitCas ==
    /\ pc = "cas"
    /\ IF word = old
       THEN Return(old, Apply(fn.f, fn.w, old, e, v), OrderOf(fn.co, TRUE))
       ELSE /\ Goto(CASE fn.c \in {"eq", "neq"} -> "await"
                      [] Holds(fn.c, word, e) -> "cas"
                      [] OTHER -> "neq", word)
            /\ UNCHANGED <<mon, ev>>

FallbackStep == Call \/ MaxRead \/ MaxCas \/ AwaitRead \/ ReadOrWait \/ AwaitCas
=============================================================================
