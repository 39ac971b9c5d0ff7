----------------------------- MODULE ArmAtomics -----------------------------
(***************************************************************************)
(* The assembly back ends of the vatomic functions: ARMv8 with exclusive   *)
(* loads and stores (arm64_llsc.h), with the LSE instructions              *)
(* (arm64_lse.h), with one exclusive attempt before the LSE instruction    *)
(* (arm64_lxe.h), loads, stores and awaits (arm64.h), and the 32-bit       *)
(* processors (arm32_v7.h, arm32_v8.h).                                    *)
(*                                                                         *)
(* A routine is the record of the instructions its assembly text holds:    *)
(* ld a plain load, lx an exclusive load, st a store or exclusive store,   *)
(* lse an LSE instruction with the suffix sfx, dmb where barriers stand,   *)
(* back the branch that repeats an await, and pair the endianness of a     *)
(* 64-bit word in two registers.  "none" is an instruction that is absent; *)
(* the doubleword forms (ldrexd) have the name of the word forms (ldrex).  *)
(* Every step is one access of the word.                                   *)
(***************************************************************************)
EXTENDS AtomicWord

Orders == {"sc", "acq", "rel", "rlx"}
VoidOrders == {"sc", "rel", "rlx"}
ReadOrders == {"sc", "acq", "rlx"}
IntWidths == {"32", "64"}
Widths == IntWidths \cup {"ptr"}
Alu == {"and", "or", "xor", "add", "sub"}

Routine(f, r, w, o) ==
    [by |-> "arm", c |-> "any", f |-> f, r |-> r, w |-> w, ord |-> o,
     ld |-> "none", lx |-> "none", st |-> "none", lse |-> "none", sfx |-> "",
     dmb |-> {}, back |-> "none", pair |-> "no"]

(***************************************************************************)
(* The shapes of the assembly texts, by the order of the function.         *)
(***************************************************************************)
ExclusiveLoad == [sc |-> "ldaxr", acq |-> "ldaxr", rel |-> "ldxr", rlx |-> "ldxr"]
ExclusiveStore == [sc |-> "stlxr", acq |-> "stxr", rel |-> "stlxr", rlx |-> "stxr"]

LseName ==
    [write |-> "swp", cmpxchg |-> "cas", max |-> "umax", and |-> "clr",
     or |-> "set", xor |-> "eor", add |-> "add", sub |-> "add"]

\* Mutant: the value-returning sc forms only release.
LseSuffixReleases(r, o) ==
    CASE o = "acq" -> "a" [] o \in {"sc", "rel"} -> "l" [] o = "rlx" -> ""

LseSuffix(r, o) ==
    CASE o = "sc" -> IF r = "void" THEN "l" ELSE "al"
      [] o = "acq" -> "a"
      [] o = "rel" -> "l"
      [] o = "rlx" -> ""

Llsc(F, r, W, O) ==
    {[Routine(f, r, w, o) EXCEPT !.lx = ExclusiveLoad[o], !.st = ExclusiveStore[o]]
        : f \in F, w \in W, o \in O}

Lse(F, r, W, O) ==
    {[Routine(f, r, w, o) EXCEPT !.lse = LseName[f], !.sfx = LseSuffix(r, o)]
        : f \in F, w \in W, o \in O}

Lxe(F, r, W, O) ==
    {[Routine(f, r, w, o) EXCEPT !.lx = ExclusiveLoad[o], !.st = ExclusiveStore[o],
                                 !.lse = LseName[f], !.sfx = LseSuffix(r, o)]
        : f \in F, w \in W, o \in O}

BackBranch ==
    [eq |-> "b.ne", neq |-> "b.eq", lt |-> "b.hs", le |-> "b.hi", gt |-> "b.ls", ge |-> "b.lo"]

(***************************************************************************)
(* An await is built in two ways: VATOMIC_DISABLE_POLITE_AWAIT loops on    *)
(* the load, otherwise the loop sleeps in wfe.                             *)
(***************************************************************************)
Await(C, W) ==
    {[Routine("read", "old", w, o) EXCEPT !.c = c, !.back = BackBranch[c],
          !.ld = IF o = "rlx" THEN "ldr" ELSE "ldar",
          !.lx = IF ~polite THEN "none" ELSE IF o = "rlx" THEN "ldxr" ELSE "ldaxr"]
        : c \in C, w \in W, o \in ReadOrders, polite \in BOOLEAN}

Barriers ==
    [sc |-> {"before", "after"}, acq |-> {"after"}, rel |-> {"before"}, rlx |-> {}]

Endians(f, w) == IF w = "64" /\ f \in Alu THEN {"little", "big"} ELSE {"no"}

V7(F, r, W, O) ==
    UNION {{[Routine(f, r, w, o) EXCEPT !.dmb = Barriers[o], !.pair = p,
                 !.lx = "ldrex", !.st = "strex"]
        : p \in Endians(f, w), o \in O} : f \in F, w \in W}

V7Read(W) ==
    {[Routine("read", "old", w, o) EXCEPT !.ld = IF w = "64" THEN "ldrex" ELSE "ldr",
                 !.dmb = IF o = "rlx" THEN {} ELSE {"after"}] : w \in W, o \in ReadOrders}

V7Write(W) ==
    {[Routine("write", "void", w, o) EXCEPT !.st = "str", !.dmb = Barriers[o]]
        : w \in W, o \in VoidOrders}

V8(F, r, W, O) ==
    UNION {{[Routine(f, r, w, o) EXCEPT !.pair = p,
                 !.lx = IF o \in {"sc", "acq"} THEN "ldaex" ELSE "ldrex",
                 !.st = IF o \in {"sc", "rel"} THEN "stlex" ELSE "strex"]
        : p \in Endians(f, w), o \in O} : f \in F, w \in W}

V8Read(W) ==
    {[Routine("read", "old", w, o) EXCEPT
          !.ld = CASE w = "64" -> IF o = "rlx" THEN "ldrex" ELSE "ldaex"
                   [] OTHER -> IF o = "rlx" THEN "ldr" ELSE "lda"]
        : w \in W, o \in ReadOrders}

V8Write(W) ==
    {[Routine("write", "void", w, o) EXCEPT !.st = IF o = "rlx" THEN "str" ELSE "stl"]
        : w \in W, o \in VoidOrders}
-----------------------------------------------------------------------------
\* arm64_llsc.h
llsc_xchg == Llsc({"write"}, "old", Widths, Orders)
llsc_cmpxchg == Llsc({"cmpxchg"}, "old", Widths, Orders)
llsc_get_max == Llsc({"max"}, "old", IntWidths, Orders)
llsc_max == Llsc({"max"}, "void", IntWidths, VoidOrders)
llsc_get == Llsc(Alu, "old", IntWidths, Orders)
llsc_op == Llsc(Alu, "void", IntWidths, VoidOrders)

\* arm64_lse.h
lse_xchg == Lse({"write"}, "old", Widths, Orders)
lse_cmpxchg == Lse({"cmpxchg"}, "old", Widths, Orders)
lse_get_max == Lse({"max"}, "old", IntWidths, Orders)
lse_max == Lse({"max"}, "void", IntWidths, VoidOrders)
lse_get == Lse(Alu, "old", IntWidths, Orders)
lse_op == Lse(Alu, "void", IntWidths, VoidOrders)

\* arm64_lxe.h
lxe_xchg == Lxe({"write"}, "old", Widths, Orders)
lxe_cmpxchg == Lxe({"cmpxchg"}, "old", Widths, Orders)
lxe_get_max == Lxe({"max"}, "old", IntWidths, Orders)
lxe_max == Lxe({"max"}, "void", IntWidths, VoidOrders)
lxe_get == Lxe(Alu, "old", IntWidths, Orders)
lxe_op == Lxe(Alu, "void", IntWidths, VoidOrders)

\* arm64.h
arm64_read ==
    {[Routine("read", "old", w, o) EXCEPT !.ld = IF o = "rlx" THEN "ldr" ELSE "ldar"]
        : w \in Widths, o \in ReadOrders}
arm64_write ==
    {[Routine("write", "void", w, o) EXCEPT !.st = IF o = "rlx" THEN "str" ELSE "stlr"]
        : w \in Widths, o \in VoidOrders}
arm64_await == Await(DOMAIN BackBranch, IntWidths) \cup Await({"eq", "neq"}, {"ptr"})

\* arm32_v7.h
v7_read == V7Read(Widths)
v7_write == V7Write({"32", "ptr"}) \cup V7({"write"}, "void", {"64"}, VoidOrders)
v7_xchg == V7({"write"}, "old", Widths, Orders)
v7_cmpxchg == V7({"cmpxchg"}, "old", Widths, Orders)
v7_get == V7(Alu, "old", IntWidths, Orders)

\* arm32_v8.h
v8_read == V8Read(Widths)
v8_write == V8Write({"32", "ptr"}) \cup V8({"write"}, "void", {"64"}, VoidOrders)
v8_xchg == V8({"write"}, "old", Widths, Orders)
v8_cmpxchg == V8({"cmpxchg"}, "old", Widths, Orders)
v8_get == V8(Alu, "old", IntWidths, Orders)

LlscRoutines ==
    llsc_xchg \cup llsc_cmpxchg \cup llsc_get_max \cup llsc_max \cup llsc_get \cup llsc_op

LseRoutines ==
    lse_xchg \cup lse_cmpxchg \cup lse_get_max \cup lse_max \cup lse_get \cup lse_op

LxeRoutines ==
    lxe_xchg \cup lxe_cmpxchg \cup lxe_get_max \cup lxe_max \cup lxe_get \cup lxe_op

Arm64Routines == arm64_read \cup arm64_write \cup arm64_await

V7Routines == v7_read \cup v7_write \cup v7_xchg \cup v7_cmpxchg \cup v7_get

V8Routines == v8_read \cup v8_write \cup v8_xchg \cup v8_cmpxchg \cup v8_get

ArmRoutines ==
    LlscRoutines \cup LseRoutines \cup LxeRoutines \cup Arm64Routines \cup V7Routines \cup V8Routines
-----------------------------------------------------------------------------
(***************************************************************************)
(* What the instructions do (external: the Arm architecture).              *)
(***************************************************************************)
Acquiring == {"ldar", "ldaxr", "lda", "ldaex"}
Releasing == {"stlr", "stlxr", "stl", "stlex"}

Ordering(ld, st) ==
    (IF ld \in Acquiring \/ "after" \in fn.dmb THEN {"acq"} ELSE {})
      \cup (IF st \in Releasing \/ "before" \in fn.dmb THEN {"rel"} ELSE {})
      \cup (IF st = "none" THEN {} ELSE {"w"})

LseOrdering ==
    (IF fn.sfx \in {"a", "al"} THEN {"acq"} ELSE {})
      \cup (IF fn.sfx \in {"l", "al"} THEN {"rel"} ELSE {}) \cup {"w"}

Branches(b, x, y) ==
    CASE b = "b.ne" -> x /= y
      [] b = "b.eq" -> x = y
      [] b = "b.hs" -> x >= y
      [] b = "b.hi" -> x > y
      [] b = "b.ls" -> x <= y
      [] b = "b.lo" -> x < y
      [] b = "none" -> FALSE

LseExec(i, w, x, y, z) ==
    CASE i = "swp" -> z
      [] i = "cas" -> IF x = y THEN z ELSE x
      [] i = "umax" -> IF x < z THEN z ELSE x
      [] i = "clr" -> x & (Modulus(w) - 1 - z)
      [] i = "set" -> x | z
      [] i = "eor" -> x ^^ z
      [] i = "add" -> (x + z) % Modulus(w)

(***************************************************************************)
(* and clears the bits of the operand's complement (mvn), sub adds its     *)
(* negation (neg).                                                         *)
(***************************************************************************)
LseOperand(f, w, z) ==
    CASE f = "and" -> Modulus(w) - 1 - z
      [] f = "sub" -> (0 - z) % Modulus(w)
      [] OTHER -> z

(***************************************************************************)
(* A 64-bit word x in the registers %[x] and %H[x], and back.              *)
(***************************************************************************)
Half == 2 ^ (4 * Unit)

Registers(p, x) ==
    IF p = "little" THEN <<x % Half, x \div Half>> ELSE <<x \div Half, x % Half>>

FromRegisters(p, s) ==
    IF p = "little" THEN s[1] + Half * s[2] ELSE s[2] + Half * s[1]

(***************************************************************************)
(* adds/adc, subs/sbc, and the bitwise instructions twice: on the register *)
(* VATOMIC_LI_ENDIAN says first, then on the other with the carry.         *)
(***************************************************************************)
PairAlu(f, p, x, z) ==
    LET a == Registers(p, x)
        b == Registers(p, z)
        first == IF p = "little" THEN 1 ELSE 2
        One(i, c) ==
            CASE f = "and" -> a[i] & b[i]
              [] f = "or" -> a[i] | b[i]
              [] f = "xor" -> a[i] ^^ b[i]
              [] f = "add" -> a[i] + b[i] + c
              [] f = "sub" -> a[i] - b[i] - c
        low == One(first, 0)
        carry == IF low \in 0 .. Half - 1 THEN 0 ELSE 1
    IN  FromRegisters(p, [i \in 1 .. 2 |-> One(i, IF i = first THEN 0 ELSE carry) % Half])

(***************************************************************************)
(* The value an exclusive store writes when x was loaded, and the values   *)
(* loaded that make cmpxchg and max leave without a store.                 *)
(***************************************************************************)
Stored(x) ==
    CASE fn.f \in {"write", "cmpxchg", "max"} -> v
      [] fn.pair /= "no" -> PairAlu(fn.f, fn.pair, x, v)
      [] OTHER -> Apply(fn.f, fn.w, x, e, v)

Skips(x) ==
    \/ fn.f = "cmpxchg" /\ x /= e
    \/ fn.f = "max" /\ x >= v

Result(x) == IF fn.r = "void" THEN NoValue ELSE x
-----------------------------------------------------------------------------
ArmStart(g) ==
    CASE g.ld /= "none" -> "ld"
      [] g.lx /= "none" -> "lx"
      [] g.lse /= "none" -> "lse"
      [] OTHER -> "st"

(***************************************************************************)
(* A plain load: the whole of a read, each turn of an impolite await, and  *)
(* the first look of a polite one, which then sends itself an event        *)
(* (sevl), so that its first wfe does not sleep.                           *)
(***************************************************************************)
Load ==
    /\ fn.by = "arm" /\ pc = "ld"
    /\ IF ~Branches(fn.back, word, e)
       THEN Return(Result(word), word, Ordering(fn.ld, "none"))
       ELSE /\ Goto(IF fn.lx = "none" THEN "ld" ELSE "wfe", word)
            /\ ev' = (fn.lx /= "none")
            /\ UNCHANGED mon

(***************************************************************************)
(* wfe sleeps until the event register is set, and clears it.              *)
(***************************************************************************)
WaitForEvent ==
    /\ pc = "wfe" /\ ev
    /\ Goto("lx", old)
    /\ ev' = FALSE
    /\ UNCHANGED mon

\* Mutant: the await's loop loads without the monitor (ldar in place of ldaxr).
ExclusiveLoadPlain ==
    /\ pc = "lx"
    /\ IF (fn.c = "any" /\ ~Skips(word)) \/ Branches(fn.back, word, e)
       THEN /\ Goto(IF fn.c = "any" THEN "st" ELSE "wfe", word)
            /\ mon' = (fn.c = "any")
            /\ UNCHANGED ev
       ELSE Return(Result(word), word, Ordering(fn.lx, "none"))

ExclusiveLoadStep ==
    /\ pc = "lx"
    /\ IF (fn.c = "any" /\ ~Skips(word)) \/ Branches(fn.back, word, e)
       THEN /\ Goto(IF fn.c = "any" THEN "st" ELSE "wfe", word)
            /\ mon' = TRUE
            /\ UNCHANGED ev
       ELSE Return(Result(word), word, Ordering(fn.lx, "none"))

(***************************************************************************)
(* An exclusive store succeeds only while the monitor is open.             *)
(***************************************************************************)
StoreSucceeds ==
    /\ fn.by = "arm" /\ pc = "st"
    /\ fn.lx /= "none" => mon
    /\ IF fn.lx = "none"
       THEN Return(NoValue, v, Ordering("none", fn.st))
       ELSE Return(Result(old), Stored(old), Ordering(fn.lx, fn.st))

(***************************************************************************)
(* It may fail even so.  LL/SC tries again from the load, LXE falls through*)
(* to the LSE instruction.                                                 *)
(***************************************************************************)
StoreFails ==
    /\ pc = "st" /\ fn.lx /= "none"
    /\ Goto(IF fn.lse = "none" THEN "lx" ELSE "lse", 0)
    /\ mon' = FALSE
    /\ UNCHANGED ev

LseInstruction ==
    /\ pc = "lse"
    /\ Return(Result(word),
              LseExec(fn.lse, fn.w, word, e, LseOperand(fn.f, fn.w, v)), LseOrdering)

(***************************************************************************)
(* The processor may be woken without a reason.                            *)
(***************************************************************************)
SpuriousEvent ==
    /\ pc = "wfe" /\ ~ev
    /\ ev' = TRUE
    /\ UNCHANGED <<fn, e, v, word, pc, old, mon, mo, ret, quiet>>

ArmStep ==
    Load \/ WaitForEvent \/ ExclusiveLoadStep \/ StoreSucceeds \/ StoreFails \/ LseInstruction
=============================================================================
