---------------------------- MODULE BoundedSpsc ----------------------------
(***************************************************************************)
(* libvsync/include/vsync/queue/bounded_spsc.h under the client of         *)
(* libvsync/test/queue/bounded_spsc.c: a producer enqueues the points      *)
(* 1..Points in order, a consumer dequeues as many, uses each and frees    *)
(* it.  Both retry until their call succeeds.                              *)
(*                                                                         *)
(* A behaviour runs one build of Builds.  build.orig selects               *)
(* bounded_spsc.h.orig, where the consumer reads its slot before it moves  *)
(* head; bounded_spsc.h has the two lines the other way round.  With       *)
(* build.same_thread the two sides are one thread that never stops inside  *)
(* a call.                                                                 *)
(*                                                                         *)
(* head and tail are 32-bit counters; Modulus stands for 2^32.             *)
(***************************************************************************)
EXTENDS Integers, Sequences

CONSTANTS Points, Size, Modulus, Builds, Null

VARIABLES
    build,                 \* the header and the client of this behaviour
    head, tail, buf,       \* bounded_spsc_t
    ppc, ptail, point,     \* the producer: control, tail as read, next point
    cpc, chead, r,         \* the consumer: control, head as read, *v
    used                   \* points dequeued, in order; all but the last freed

queueVars == <<build, head, tail, buf>>
prodVars == <<ppc, ptail, point>>
consVars == <<cpc, chead, r, used>>
vars == <<queueVars, prodVars, consVars>>

Word == 0 .. Modulus - 1
Plus(x, n) == IF x + n < Modulus THEN x + n ELSE x + n - Modulus
Inc(x) == Plus(x, 1)
Minus(x, y) == IF y <= x THEN x - y ELSE x - y + Modulus
Slot(x) == x % Size

Init ==
    /\ build \in Builds
    /\ head = 0 /\ tail = 0
    /\ buf = [s \in 0 .. Size - 1 |-> Null]
    /\ ppc = "tail" /\ ptail = 0 /\ point = 1
    /\ cpc = "head" /\ chead = 0 /\ r = Null
    /\ used = <<>>

ProducerMayRun == point <= Points /\ (build.same_thread => cpc = "head")
ConsumerMayRun == Len(used) < Points /\ (build.same_thread => ppc = "tail")

EnqReadTail ==
    /\ ppc = "tail" /\ ProducerMayRun
    /\ ptail' = tail
    /\ ppc' = "head"
    /\ UNCHANGED <<queueVars, point, consVars>>

EnqReadHeadOffByOne ==
    /\ ppc = "head"
    /\ ppc' = IF Minus(ptail, head) = Size + 1 THEN "tail" ELSE "write"
    /\ UNCHANGED <<queueVars, ptail, point, consVars>>

(* A full queue makes the call fail, and the client calls again. *)
EnqReadHead ==
    /\ ppc = "head"
    /\ ppc' = IF Minus(ptail, head) = Size THEN "tail" ELSE "write"
    /\ UNCHANGED <<queueVars, ptail, point, consVars>>

EnqWriteSlot ==
    /\ ppc = "write"
    /\ buf' = [buf EXCEPT ![Slot(ptail)] = point]
    /\ ppc' = "publish"
    /\ UNCHANGED <<build, head, tail, ptail, point, consVars>>

EnqPublish ==
    /\ ppc = "publish"
    /\ tail' = Inc(ptail)
    /\ point' = point + 1
    /\ ppc' = "tail"
    /\ UNCHANGED <<build, head, buf, ptail, consVars>>

DeqReadHead ==
    /\ cpc = "head" /\ ConsumerMayRun
    /\ chead' = head
    /\ cpc' = "tail"
    /\ UNCHANGED <<queueVars, prodVars, r, used>>

DeqReadTail ==
    /\ cpc = "tail"
    /\ cpc' = IF tail = chead THEN "head" ELSE IF build.orig THEN "read" ELSE "advance"
    /\ UNCHANGED <<queueVars, prodVars, chead, r, used>>

(* The slot is given back to the producer. *)
DeqAdvanceHead ==
    /\ cpc = "advance"
    /\ head' = Inc(chead)
    /\ cpc' = IF build.orig THEN "use" ELSE "read"
    /\ UNCHANGED <<build, tail, buf, prodVars, chead, r, used>>

DeqReadSlot ==
    /\ cpc = "read"
    /\ r' = buf[Slot(chead)]
    /\ cpc' = IF build.orig THEN "advance" ELSE "use"
    /\ UNCHANGED <<queueVars, prodVars, chead, used>>

(* The client checks the point's fields and frees it. *)
UsePoint ==
    /\ cpc = "use"
    /\ used' = Append(used, r)
    /\ r' = Null
    /\ cpc' = "head"
    /\ UNCHANGED <<queueVars, prodVars, chead>>

Producer == EnqReadTail \/ EnqReadHead \/ EnqWriteSlot \/ EnqPublish
Consumer == DeqReadHead \/ DeqReadTail \/ DeqAdvanceHead \/ DeqReadSlot \/ UsePoint

AllDone == point > Points /\ Len(used) = Points /\ cpc = "head"

Done == AllDone /\ UNCHANGED vars

Next == Producer \/ Consumer \/ Done

Spec == Init /\ [][Next]_vars
-----------------------------------------------------------------------------
(* The consumer gets the points in the order they were enqueued, none      *)
(* twice, none missing: what "linearizable" in the header promises.        *)
DequeuedInOrder == \A i \in 1 .. Len(used) : used[i] = i

(* bounded_spsc.c:48-52, at the moment of the assertions: the point is not *)
(* NULL and was not freed before, so its fields still hold what the        *)
(* producer stored.                                                        *)
PointIsLive ==
    cpc = "use" => r # Null /\ \A i \in 1 .. Len(used) : used[i] # r
-----------------------------------------------------------------------------
(* The builds whose consumer does not give its slot away too early.        *)
Safe == build.orig \/ build.same_thread

(* The points the producer has published and those whose slot the consumer *)
(* has given back, without the wrapping of tail and head.                  *)
Published == point - 1
Released ==
    IF cpc = "use" \/ (cpc = "read" /\ ~build.orig) THEN Len(used) + 1 ELSE Len(used)

Types ==
    /\ build.orig \in BOOLEAN /\ build.same_thread \in BOOLEAN
    /\ head \in Word /\ tail \in Word /\ ptail \in Word /\ chead \in Word
    /\ buf \in [0 .. Size - 1 -> 1 .. Points \cup {Null}]
    /\ point \in 1 .. Points + 1
    /\ ppc \in {"tail", "head", "write", "publish"}
    /\ cpc \in {"head", "tail", "advance", "read", "use"}
    /\ used \in Seq(1 .. Points \cup {Null})

(* The counters tell how many points are in the queue, and the k-th of the *)
(* slots between head and tail holds the k-th of them.                     *)
CountersAgree ==
    /\ Released <= Published /\ Published <= Released + Size
    /\ Minus(tail, head) = Published - Released
SlotsHold ==
    \A k \in 0 .. Size - 1 :
        k < Published - Released => buf[Slot(Plus(head, k))] = Released + k + 1

(* What a call found out about the other side stays true while it acts.    *)
ProducerKnows ==
    /\ ppc # "tail" => ptail = tail /\ point <= Points
    /\ ppc \in {"write", "publish"} => Published < Released + Size
    /\ ppc = "publish" => buf[Slot(ptail)] = point
ConsumerKnows ==
    /\ cpc # "head" => Len(used) < Points
    /\ cpc \in {"tail", "advance"} \/ (cpc = "read" /\ build.orig) => chead = head
    /\ cpc \in {"read", "advance", "use"} => Len(used) < Published
    /\ cpc = "read" /\ ~build.orig => buf[Slot(chead)] = Len(used) + 1
    /\ cpc = "use" \/ (cpc = "advance" /\ build.orig) => r = Len(used) + 1
    /\ build.same_thread => ppc = "tail" \/ cpc = "head"

SpscInv ==
    Types /\ CountersAgree /\ SlotsHold /\ ProducerKnows /\ ConsumerKnows /\ DequeuedInOrder

(* What the proofs ask of the constants.  The slots of two points that are *)
(* in the queue differ when the counters wrap only if Size divides 2^32.   *)
Parameters ==
    /\ Points \in Nat /\ Size \in Nat \ {0} /\ Modulus \in Nat
    /\ Size < Modulus /\ Modulus % Size = 0
    /\ Builds \subseteq [orig : BOOLEAN, same_thread : BOOLEAN]
    /\ Null \notin 1 .. Points
=============================================================================
