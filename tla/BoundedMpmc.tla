---------------------------- MODULE BoundedMpmc ----------------------------
(***************************************************************************)
(* libvsync/include/vsync/queue/bounded_mpmc.h under the clients of        *)
(* libvsync/test/queue/bounded_mpmc_check_empty.c and _check_full.c: each  *)
(* writer enqueues Values values of its own, each reader dequeues until    *)
(* TOTAL_VALUES have been read by all of them; both retry a call that did  *)
(* not return QUEUE_BOUNDED_OK.  check_full is the instance with no reader.*)
(*                                                                         *)
(* Orig selects bounded_mpmc.h.orig, where a producer waits until the      *)
(* slots reserved before its own are published; bounded_mpmc.h does not.   *)
(*                                                                         *)
(* The four counters are 32 bits wide; Modulus stands for 2^32.            *)
(***************************************************************************)
EXTENDS Integers, Sequences, FiniteSets

CONSTANTS Writers, Readers, Values, Size, Modulus, Orig, Null

VARIABLES
    phead, ptail, chead, ctail, buf,    \* bounded_mpmc_t
    g_cs_x, g_ret,                      \* the test's counter and results
    pc, curr,                           \* control and local `curr' of each thread
    i,                                  \* a writer's loop counter
    r, idx                              \* a reader's locals

queueVars == <<phead, ptail, chead, ctail, buf>>
clientVars == <<g_cs_x, g_ret, i, r, idx>>
vars == <<queueVars, clientVars, pc, curr>>

Clients == Writers \cup Readers
AllValues == Writers \X (0 .. Values - 1)
Total == Cardinality(Writers) * Values     \* TOTAL_VALUES

Word == 0 .. Modulus - 1
Inc(x) == (x + 1) % Modulus
Slot(x) == x % Size

Init ==
    /\ phead = 0 /\ ptail = 0 /\ chead = 0 /\ ctail = 0
    /\ buf = [s \in 0 .. Size - 1 |-> Null]
    /\ g_cs_x = 0
    /\ g_ret = [n \in 0 .. Total - 1 |-> Null]
    /\ pc = [t \in Clients |-> IF t \in Writers THEN "enq" ELSE "deq"]
    /\ curr = [t \in Clients |-> 0]
    /\ i = [t \in Writers |-> 0]
    /\ r = [t \in Readers |-> Null]
    /\ idx = [t \in Readers |-> 0]

Goto(t, l) == pc' = [pc EXCEPT ![t] = l]

EnqReadHead(t) ==
    /\ pc[t] = "enq" /\ i[t] < Values
    /\ curr' = [curr EXCEPT ![t] = phead]
    /\ Goto(t, "enq_full")
    /\ UNCHANGED <<queueVars, clientVars>>

EnqCheckFull(t) ==
    /\ pc[t] = "enq_full"
    /\ Goto(t, IF (curr[t] - ctail) % Modulus = Size THEN "enq" ELSE "enq_cas")
    /\ UNCHANGED <<queueVars, clientVars, curr>>

EnqCas(t) ==
    /\ pc[t] = "enq_cas"
    /\ \/ /\ phead = curr[t]
          /\ phead' = Inc(curr[t])
          /\ Goto(t, "enq_write")
       \/ /\ phead # curr[t]
          /\ Goto(t, "enq")
          /\ UNCHANGED phead
    /\ UNCHANGED <<ptail, chead, ctail, buf, clientVars, curr>>

EnqWrite(t) ==
    /\ pc[t] = "enq_write"
    /\ buf' = [buf EXCEPT ![Slot(curr[t])] = <<t, i[t]>>]
    /\ Goto(t, IF Orig THEN "enq_await" ELSE "enq_publish")
    /\ UNCHANGED <<phead, ptail, chead, ctail, clientVars, curr>>

EnqNoAwait(t) ==
    /\ pc[t] = "enq_await"
    /\ Goto(t, "enq_publish")
    /\ UNCHANGED <<queueVars, clientVars, curr>>

EnqAwait(t) ==
    /\ pc[t] = "enq_await"
    /\ ptail = curr[t]
    /\ Goto(t, "enq_publish")
    /\ UNCHANGED <<queueVars, clientVars, curr>>

EnqPublish(t) ==
    /\ pc[t] = "enq_publish"
    /\ ptail' = Inc(curr[t])
    /\ i' = [i EXCEPT ![t] = i[t] + 1]
    /\ Goto(t, "enq")
    /\ UNCHANGED <<phead, chead, ctail, buf, g_cs_x, g_ret, r, idx, curr>>

DeqReadHead(t) ==
    /\ pc[t] = "deq"
    /\ curr' = [curr EXCEPT ![t] = chead]
    /\ Goto(t, "deq_empty")
    /\ UNCHANGED <<queueVars, clientVars>>

DeqCheckEmpty(t) ==
    /\ pc[t] = "deq_empty"
    /\ Goto(t, IF curr[t] = ptail THEN "deq_more" ELSE "deq_cas")
    /\ UNCHANGED <<queueVars, clientVars, curr>>

DeqCas(t) ==
    /\ pc[t] = "deq_cas"
    /\ \/ /\ chead = curr[t]
          /\ chead' = Inc(curr[t])
          /\ Goto(t, "deq_read")
       \/ /\ chead # curr[t]
          /\ Goto(t, "deq_more")
          /\ UNCHANGED chead
    /\ UNCHANGED <<phead, ptail, ctail, buf, clientVars, curr>>

DeqRead(t) ==
    /\ pc[t] = "deq_read"
    /\ r' = [r EXCEPT ![t] = buf[Slot(curr[t])]]
    /\ Goto(t, "deq_await")
    /\ UNCHANGED <<queueVars, g_cs_x, g_ret, i, idx, curr>>

DeqNoAwait(t) ==
    /\ pc[t] = "deq_await"
    /\ Goto(t, "deq_publish")
    /\ UNCHANGED <<queueVars, clientVars, curr>>

DeqAwait(t) ==
    /\ pc[t] = "deq_await"
    /\ ctail = curr[t]
    /\ Goto(t, "deq_publish")
    /\ UNCHANGED <<queueVars, clientVars, curr>>

DeqPublish(t) ==
    /\ pc[t] = "deq_publish"
    /\ ctail' = Inc(curr[t])
    /\ Goto(t, "count")
    /\ UNCHANGED <<phead, ptail, chead, buf, clientVars, curr>>

Count(t) ==
    /\ pc[t] = "count"
    /\ idx' = [idx EXCEPT ![t] = g_cs_x]
    /\ g_cs_x' = g_cs_x + 1
    /\ Goto(t, "store")
    /\ UNCHANGED <<queueVars, g_ret, i, r, curr>>

Store(t) ==
    /\ pc[t] = "store"
    /\ g_ret' = [n \in DOMAIN g_ret |-> IF n = idx[t] THEN r[t] ELSE g_ret[n]]
    /\ r' = [r EXCEPT ![t] = Null]
    /\ Goto(t, "deq_more")
    /\ UNCHANGED <<queueVars, g_cs_x, i, idx, curr>>

(* The condition of the reader's do-while loop. *)
More(t) ==
    /\ pc[t] = "deq_more"
    /\ Goto(t, IF g_cs_x # Total THEN "deq" ELSE "done")
    /\ UNCHANGED <<queueVars, clientVars, curr>>

Write(t) ==
    \/ EnqReadHead(t) \/ EnqCheckFull(t) \/ EnqCas(t) \/ EnqWrite(t) \/ EnqAwait(t)
    \/ EnqPublish(t)
Read(t) ==
    \/ DeqReadHead(t) \/ DeqCheckEmpty(t) \/ DeqCas(t) \/ DeqRead(t) \/ DeqAwait(t)
    \/ DeqPublish(t) \/ Count(t) \/ Store(t) \/ More(t)

AllDone ==
    /\ \A t \in Writers : i[t] = Values
    /\ \A t \in Readers : pc[t] = "done"

Done == AllDone /\ UNCHANGED vars

Next == (\E t \in Writers : Write(t)) \/ (\E t \in Readers : Read(t)) \/ Done

Spec == Init /\ [][Next]_vars
-----------------------------------------------------------------------------
(* bounded_mpmc_check_empty.c:87,89: a successful dequeue is one of the    *)
(* TOTAL_VALUES that were enqueued, and yields a value a writer stored.    *)
ReaderAsserts ==
    \A t \in Readers : pc[t] = "store" => idx[t] < Total /\ r[t] # Null

(* No value is handed to two readers, or twice to one, at any time.        *)
NoDuplicates ==
    \A m, n \in 0 .. Total - 1 : g_ret[m] = g_ret[n] /\ g_ret[m] # Null => m = n

(* bounded_mpmc_check_empty.c:129-135: when the threads have returned,     *)
(* every value was read and the queue reports that it is empty.            *)
MainAssertsEmpty ==
    AllDone /\ Readers # {} =>
        /\ \A v \in AllValues : \E n \in 0 .. Total - 1 : g_ret[n] = v
        /\ g_cs_x = Total
        /\ chead = ptail

(* bounded_mpmc_check_full.c:78-93, with as many values as slots: main     *)
(* dequeues some writer's first value, can put one back, and then the      *)
(* queue is full.                                                          *)
MainAssertsFull ==
    AllDone /\ Readers = {} /\ Size = Total =>
        /\ chead # ptail
        /\ buf[Slot(chead)] # Null /\ buf[Slot(chead)][2] = 0
        /\ (phead - Inc(ctail)) % Modulus # Size
        /\ (Inc(phead) - Inc(ctail)) % Modulus = Size

Queue == [n \in 1 .. (ptail - chead) % Modulus |-> buf[Slot(chead + n - 1)]]

Taken(t) ==
    CASE pc[t] = "deq_read" -> buf[Slot(curr[t])]
      [] pc[t] \in {"deq_await", "deq_publish"} -> r[t]
      [] OTHER -> Null

Fifo == INSTANCE BoundedFifo
            WITH queue <- Queue, taken <- [t \in Readers |-> Taken(t)],
                 Threads <- Readers, Values <- AllValues, None <- Null, Capacity <- Size
-----------------------------------------------------------------------------
(* A writer that has reserved a slot and not published it, a reader that   *)
(* has one and not given it back, and one whose value is not yet stored.   *)
Holding(t) == pc[t] \in {"enq_write", "enq_await", "enq_publish"}
Taking(t) == pc[t] \in {"deq_read", "deq_await", "deq_publish"}
Keeping(t) == pc[t] \in {"count", "store"}
Counting == {t \in Readers : pc[t] = "count"}

Types ==
    /\ phead \in Nat /\ ptail \in Nat /\ chead \in Nat /\ ctail \in Nat
    /\ buf \in [0 .. Size - 1 -> AllValues \cup {Null}]
    /\ g_cs_x \in Nat /\ g_ret \in [0 .. Total - 1 -> AllValues \cup {Null}]
    /\ pc \in [Clients -> {"enq", "enq_full", "enq_cas", "enq_write", "enq_await", "enq_publish",
                           "deq", "deq_empty", "deq_cas", "deq_read", "deq_await",
                           "deq_publish", "count", "store", "deq_more", "done"}]
    /\ curr \in [Clients -> Nat]
    /\ i \in [Writers -> Nat]
    /\ r \in [Readers -> AllValues \cup {Null}] /\ idx \in [Readers -> Nat]

(* The counters as if they did not wrap, which they do not while fewer     *)
(* than Modulus values are sent.  A compare-and-swap that succeeds finds   *)
(* the counter that was checked.                                           *)
WriterKnows(t) ==
    /\ pc[t] \in {"enq_full", "enq_cas"} => curr[t] <= phead
    /\ pc[t] = "enq_cas" /\ curr[t] = phead => phead < ctail + Size
    /\ Holding(t) => ptail <= curr[t] /\ curr[t] < phead
    /\ pc[t] = "enq_publish" => curr[t] = ptail
    /\ i[t] <= Values /\ (pc[t] # "enq" => i[t] < Values)
ReaderKnows(t) ==
    /\ pc[t] \in {"deq_empty", "deq_cas"} => curr[t] <= chead
    /\ pc[t] = "deq_cas" /\ curr[t] = chead => chead < ptail
    /\ Taking(t) => ctail <= curr[t] /\ curr[t] < chead
    /\ pc[t] = "deq_publish" => curr[t] = ctail
    /\ pc[t] = "store" => idx[t] < g_cs_x /\ g_ret[idx[t]] = Null
    /\ pc[t] = "done" => g_cs_x = Total
Counters ==
    /\ ctail <= chead /\ chead <= ptail /\ ptail <= phead /\ phead <= ctail + Size
    /\ \A t \in Writers : WriterKnows(t)
    /\ \A t \in Readers : ReaderKnows(t)
    /\ \A t, u \in Readers : t # u /\ Taking(t) /\ Taking(u) => curr[t] # curr[u]
    /\ \A t, u \in Readers : t # u /\ pc[t] = "store" /\ pc[u] = "store" => idx[t] # idx[u]
    /\ \A p \in Nat : ptail <= p /\ p < phead => \E t \in Writers : Holding(t) /\ curr[t] = p
    /\ g_cs_x + Cardinality(Counting) = ctail

(* log: the value that each position was reserved for.  It has each value  *)
(* that a writer has come to, once.                                        *)
Logs == [0 .. phead - 1 -> AllValues]
Sent(t) == IF Holding(t) THEN i[t] + 1 ELSE i[t]
Logged(log) ==
    /\ \A p, q \in 0 .. phead - 1 : log[p] = log[q] => p = q
    /\ \A t \in Writers : \A k \in 0 .. Values - 1 :
          k < Sent(t) <=> \E p \in 0 .. phead - 1 : log[p] = <<t, k>>
    /\ \A t \in Writers : Holding(t) => log[curr[t]] = <<t, i[t]>>

(* A slot keeps its value from the write until ctail passes it.            *)
Stored(log) ==
    /\ \A p \in Nat : ctail <= p /\ p < ptail => buf[Slot(p)] = log[p]
    /\ \A t \in Writers :
          pc[t] \in {"enq_await", "enq_publish"} => buf[Slot(curr[t])] = log[curr[t]]
    /\ \A t \in Readers : pc[t] \in {"deq_await", "deq_publish"} => r[t] = log[curr[t]]

(* The values below ctail are with the readers that keep them or in g_ret, *)
(* each in one place.                                                      *)
Delivered(log) ==
    /\ \A n \in 0 .. Total - 1 : g_ret[n] # Null =>
          n < g_cs_x /\ \E p \in 0 .. ctail - 1 : g_ret[n] = log[p]
    /\ \A t \in Readers : Keeping(t) => \E p \in 0 .. ctail - 1 : r[t] = log[p]
    /\ \A t \in Readers : \A n \in 0 .. Total - 1 : Keeping(t) => r[t] # g_ret[n]
    /\ \A t, u \in Readers : t # u /\ Keeping(t) /\ Keeping(u) => r[t] # r[u]
    /\ \A p \in 0 .. ctail - 1 :
          \/ \E n \in 0 .. Total - 1 : g_ret[n] = log[p]
          \/ \E t \in Readers : Keeping(t) /\ r[t] = log[p]

MpmcInv ==
    /\ Types /\ Counters /\ NoDuplicates
    /\ \E log \in Logs : Logged(log) /\ Stored(log) /\ Delivered(log)

(* What the proofs ask of the constants: the counters do not wrap, and the *)
(* producers wait for their turn unless there is only one.                 *)
Parameters ==
    /\ IsFiniteSet(Writers) /\ IsFiniteSet(Readers) /\ Writers \cap Readers = {}
    /\ Values \in Nat /\ Size \in Nat \ {0} /\ Modulus \in Nat
    /\ Total < Modulus /\ Size < Modulus
    /\ Orig \in BOOLEAN /\ (Orig \/ \A t, u \in Writers : t = u)
    /\ Null \notin AllValues
=============================================================================
