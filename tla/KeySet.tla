------------------------------- MODULE KeySet -------------------------------
(***************************************************************************)
(* What the maps of libvsync/include/vsync/map promise: a set of keys that *)
(* add and remove change at one instant of the call.  A call that changes  *)
(* nothing gives an answer that was right at some instant of the call.     *)
(***************************************************************************)
CONSTANTS Threads, None

VARIABLES
    set,    \* the keys
    call,   \* the call of each thread, [op, key], or None
    may,    \* the answers it may give
    ans     \* the answer of its last call, or None

vars == <<set, call, may, ans>>

(* What call c may answer, without any effect, when S are the keys.        *)
Reads(c, S) ==
    CASE c.op = "add" -> {FALSE : x \in {c.key} \cap S}
      [] c.op = "remove" -> {FALSE : x \in {c.key} \ S}
      [] c.op = "get" -> {c.key \in S}

Init(S) ==
    /\ set = S
    /\ call = [t \in Threads |-> None]
    /\ may = [t \in Threads |-> {}]
    /\ ans = [t \in Threads |-> None]

Begin(t, c) ==
    /\ call[t] = None
    /\ call' = [call EXCEPT ![t] = c]
    /\ may' = [may EXCEPT ![t] = Reads(c, set)]
    /\ ans' = [ans EXCEPT ![t] = None]
    /\ UNCHANGED set

(* add and remove that will return true; every other call sees the change. *)
Effect(t) ==
    /\ call[t] # None /\ TRUE \notin may[t]
    /\ LET k == call[t].key IN
       \/ call[t].op = "add" /\ k \notin set /\ set' = set \cup {k}
       \/ call[t].op = "remove" /\ k \in set /\ set' = set \ {k}
    /\ may' = [u \in Threads |->
                 CASE u = t -> {TRUE}
                   [] call[u] = None -> {}
                   [] may[u] = {TRUE} /\ call[u].op # "get" -> {TRUE}
                   [] OTHER -> may[u] \cup Reads(call[u], set')]
    /\ UNCHANGED <<call, ans>>

End(t) ==
    /\ call[t] # None
    /\ \E b \in may[t] : ans' = [ans EXCEPT ![t] = b]
    /\ call' = [call EXCEPT ![t] = None]
    /\ may' = [may EXCEPT ![t] = {}]
    /\ UNCHANGED set

Next(C) == \E t \in Threads : (\E c \in C : Begin(t, c)) \/ Effect(t) \/ End(t)

(* A step of a system that contains such a set, with calls of C.           *)
Step(C) == [Next(C)]_vars
=============================================================================
