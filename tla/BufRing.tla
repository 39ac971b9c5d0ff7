------------------------------ MODULE BufRing ------------------------------
(***************************************************************************)
(* buf_ring/buf_ring.h, the FreeBSD ring buffer, under the client of       *)
(* buf_ring/test.c: every thread enqueues Loops messages of its own and    *)
(* after each one dequeues until the ring looks empty.  One step is one    *)
(* access to shared memory.                                                *)
(*                                                                         *)
(* BugFix1 and BugFix2 are the macros of the same names: build 01 defines  *)
(* neither, build 02 the first.  With BugFix1 the four indexes are uint32  *)
(* counters, reduced to a slot only on access; Modulus stands for 2^32 and *)
(* is a multiple of Size, as the code's power of two is.                   *)
(***************************************************************************)
EXTENDS Integers, Sequences, FiniteSets

CONSTANTS Threads, Loops, Size, Modulus, BugFix1, BugFix2, Junk

VARIABLES
    prod_head, prod_tail, cons_head, cons_tail, ring,  \* struct buf_ring
    consumed,       \* test.c: how often each message was dequeued
    dropped,        \* messages freed because the ring was full (ENOBUFS)
    pc, loop,       \* where each thread is, and its loop counter i
    head,           \* prod_head or cons_head as the thread read it
    buf             \* the value a dequeue has read from its slot

ringVars == <<prod_head, prod_tail, cons_head, cons_tail, ring>>
vars == <<ringVars, consumed, dropped, pc, loop, head, buf>>

Messages == Threads \X (0 .. Loops - 1)

NextMasked(h) == (h + 1) % Size
NextIndex(h) == IF BugFix1 THEN (h + 1) % Modulus ELSE (h + 1) % Size
Slot(h) == h % Size
FullOffByOne(h, ct) == (h - ct) % Modulus = Size + 1
Full(h, ct) ==
    IF BugFix1 /\ BugFix2 THEN (h - ct) % Modulus = Size ELSE NextIndex(h) = ct

(* buf_ring_alloc: malloc leaves the slots uninitialised. *)
Init ==
    /\ prod_head = 0 /\ prod_tail = 0 /\ cons_head = 0 /\ cons_tail = 0
    /\ ring = [s \in 0 .. Size - 1 |-> Junk]
    /\ consumed = [m \in Messages |-> 0]
    /\ dropped = {}
    /\ pc = [t \in Threads |-> IF Loops = 0 THEN "done" ELSE "enq"]
    /\ loop = [t \in Threads |-> 0]
    /\ head = [t \in Threads |-> 0]
    /\ buf = [t \in Threads |-> Junk]

Goto(t, l) == pc' = [pc EXCEPT ![t] = l]

EnqReadHead(t) ==
    /\ pc[t] = "enq"
    /\ head' = [head EXCEPT ![t] = prod_head]
    /\ Goto(t, "enq_tail")
    /\ UNCHANGED <<ringVars, consumed, dropped, loop, buf>>

EnqReadTail(t) ==
    /\ pc[t] = "enq_tail"
    /\ \/ /\ Full(head[t], cons_tail)
          /\ dropped' = dropped \cup {<<t, loop[t]>>}
          /\ Goto(t, "deq")
       \/ /\ ~Full(head[t], cons_tail)
          /\ Goto(t, "enq_cas")
          /\ UNCHANGED dropped
    /\ UNCHANGED <<ringVars, consumed, loop, head, buf>>

EnqCasNoReread(t) ==
    /\ pc[t] = "enq_cas"
    /\ \/ /\ prod_head = head[t]
          /\ prod_head' = NextIndex(head[t])
          /\ Goto(t, "enq_write")
       \/ /\ prod_head # head[t]
          /\ UNCHANGED <<prod_head, pc>>
    /\ UNCHANGED <<prod_tail, cons_head, cons_tail, ring, consumed, dropped, loop, head, buf>>

EnqCas(t) ==
    /\ pc[t] = "enq_cas"
    /\ \/ /\ prod_head = head[t]
          /\ prod_head' = NextIndex(head[t])
          /\ Goto(t, "enq_write")
       \/ /\ prod_head # head[t]
          /\ Goto(t, "enq")
          /\ UNCHANGED prod_head
    /\ UNCHANGED <<prod_tail, cons_head, cons_tail, ring, consumed, dropped, loop, head, buf>>

EnqWrite(t) ==
    /\ pc[t] = "enq_write"
    /\ ring' = [ring EXCEPT ![Slot(head[t])] = <<t, loop[t]>>]
    /\ Goto(t, "enq_await")
    /\ UNCHANGED <<prod_head, prod_tail, cons_head, cons_tail, consumed, dropped, loop, head, buf>>

EnqNoAwait(t) ==
    /\ pc[t] = "enq_await"
    /\ Goto(t, "enq_publish")
    /\ UNCHANGED <<ringVars, consumed, dropped, loop, head, buf>>

(* Enqueues that claimed a slot earlier publish first. *)
EnqAwait(t) ==
    /\ pc[t] = "enq_await"
    /\ prod_tail = head[t]
    /\ Goto(t, "enq_publish")
    /\ UNCHANGED <<ringVars, consumed, dropped, loop, head, buf>>

EnqPublish(t) ==
    /\ pc[t] = "enq_publish"
    /\ prod_tail' = NextIndex(head[t])
    /\ Goto(t, "deq")
    /\ UNCHANGED <<prod_head, cons_head, cons_tail, ring, consumed, dropped, loop, head, buf>>

DeqReadHead(t) ==
    /\ pc[t] = "deq"
    /\ head' = [head EXCEPT ![t] = cons_head]
    /\ Goto(t, "deq_tail")
    /\ UNCHANGED <<ringVars, consumed, dropped, loop, buf>>

(* An empty ring makes dequeue return NULL and ends the client's inner loop. *)
DeqReadTail(t) ==
    /\ pc[t] = "deq_tail"
    /\ \/ /\ head[t] = prod_tail
          /\ loop' = [loop EXCEPT ![t] = loop[t] + 1]
          /\ Goto(t, IF loop[t] + 1 < Loops THEN "enq" ELSE "done")
       \/ /\ head[t] # prod_tail
          /\ Goto(t, "deq_cas")
          /\ UNCHANGED loop
    /\ UNCHANGED <<ringVars, consumed, dropped, head, buf>>

DeqCas(t) ==
    /\ pc[t] = "deq_cas"
    /\ \/ /\ cons_head = head[t]
          /\ cons_head' = NextIndex(head[t])
          /\ Goto(t, "deq_read")
       \/ /\ cons_head # head[t]
          /\ Goto(t, "deq")
          /\ UNCHANGED cons_head
    /\ UNCHANGED <<prod_head, prod_tail, cons_tail, ring, consumed, dropped, loop, head, buf>>

DeqRead(t) ==
    /\ pc[t] = "deq_read"
    /\ buf' = [buf EXCEPT ![t] = ring[Slot(head[t])]]
    /\ Goto(t, "deq_await")
    /\ UNCHANGED <<ringVars, consumed, dropped, loop, head>>

DeqNoAwait(t) ==
    /\ pc[t] = "deq_await"
    /\ Goto(t, "deq_publish")
    /\ UNCHANGED <<ringVars, consumed, dropped, loop, head, buf>>

DeqAwait(t) ==
    /\ pc[t] = "deq_await"
    /\ cons_tail = head[t]
    /\ Goto(t, "deq_publish")
    /\ UNCHANGED <<ringVars, consumed, dropped, loop, head, buf>>

(* dequeue returns and the client counts the message.  Counting an         *)
(* uninitialised slot would be undefined; the counters are then left alone.*)
DeqPublish(t) ==
    /\ pc[t] = "deq_publish"
    /\ cons_tail' = NextIndex(head[t])
    /\ consumed' = [m \in Messages |-> consumed[m] + (IF m = buf[t] THEN 1 ELSE 0)]
    /\ buf' = [buf EXCEPT ![t] = Junk]
    /\ Goto(t, "deq")
    /\ UNCHANGED <<prod_head, prod_tail, cons_head, ring, dropped, loop, head>>

Step(t) ==
    \/ EnqReadHead(t) \/ EnqReadTail(t) \/ EnqCas(t)
    \/ EnqWrite(t) \/ EnqAwait(t) \/ EnqPublish(t)
    \/ DeqReadHead(t) \/ DeqReadTail(t) \/ DeqCas(t)
    \/ DeqRead(t) \/ DeqAwait(t) \/ DeqPublish(t)

AllDone == \A t \in Threads : pc[t] = "done"

(* main joins the threads and stops. *)
Done == AllDone /\ UNCHANGED vars

Next == (\E t \in Threads : Step(t)) \/ Done

Spec == Init /\ [][Next]_vars
-----------------------------------------------------------------------------
(* test.c:80-81, checked at all times: no message is dequeued twice.       *)
ConsumedAtMostOnce == \A m \in Messages : consumed[m] \in {0, 1}

(* When every thread has returned, each message was either refused with    *)
(* ENOBUFS or dequeued exactly once: none is left behind or lost.          *)
NothingLost ==
    AllDone => \A m \in Messages : consumed[m] = (IF m \in dropped THEN 0 ELSE 1)

Between(a, b) == (b - a) % Modulus

(* The values between cons_head and prod_tail, oldest first.               *)
Queue == [i \in 1 .. Between(cons_head, prod_tail) |-> ring[Slot(cons_head + i - 1)]]

(* What a dequeue past its CAS is to return: the content of its slot until *)
(* it has read it, then the value read.                                    *)
Taken(t) ==
    CASE pc[t] = "deq_read" -> ring[Slot(head[t])]
      [] pc[t] \in {"deq_await", "deq_publish"} -> buf[t]
      [] OTHER -> Junk

Fifo == INSTANCE BoundedFifo
            WITH queue <- Queue, taken <- [t \in Threads |-> Taken(t)],
                 Values <- Messages, None <- Junk, Capacity <- Size
=============================================================================
