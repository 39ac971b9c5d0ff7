------------------------------ MODULE MCQueues ------------------------------
(***************************************************************************)
(* The bounded queues: bounded_spsc.h.orig and bounded_mpmc.h.orig, the    *)
(* headers without .orig under the clients they do serve, cachedq.h, and   *)
(* buf_ring.h with both fixes.  As in MCLocks a behaviour runs one         *)
(* instance (which), and the instances share the variables.                *)
(***************************************************************************)
EXTENDS Integers, Sequences, FiniteSets, TLAPS

CONSTANTS
    Writers, Readers,        \* bounded_mpmc.h, and cachedq.h
    w1, r1,                  \* one of them each
    Consumers,               \* those of cachedq.h
    Threads, t1, t2,         \* buf_ring.h
    Size,                    \* slots of a queue
    Points, SpscModulus,     \* bounded_spsc.h
    Values, Modulus, Orig,   \* bounded_mpmc.h, whose two headers Orig tells apart
    Calls, Batches,          \* cachedq.h
    Null

ASSUME QueuesAssumption ==
    /\ IsFiniteSet(Writers \cup Readers \cup Threads)
    /\ {t1, t2} \subseteq Threads /\ t1 # t2
    /\ w1 \in Writers /\ r1 \in Readers /\ Writers \cap Readers = {}
    /\ Consumers \subseteq Readers
    /\ Null \notin Writers \cup Readers \cup Threads

VARIABLES
    which,                                \* the instance
    phead, ptail, chead, ctail, buf,      \* the queue
    g_cs_x, g_ret,                        \* what the client has received
    pc, cpc, curr, i, r, idx              \* the calls under way

vars == <<which, phead, ptail, chead, ctail, buf, g_cs_x, g_ret, pc, cpc, curr, i, r, idx>>

-----------------------------------------------------------------------------
(* Arithmetic of rings, for the proofs about bounded_spsc.h and cachedq.h,  *)
(* which follow.  The specification of the queues goes on below them.       *)
(* Division with remainder. *)
LEMMA Quotient ==
    ASSUME NEW s \in Nat \ {0}, NEW x \in Nat
    PROVE  \E q \in Nat : x = s * q + (x % s) /\ x % s \in 0 .. s - 1
<1>1. x \div s \in Nat /\ x = s * (x \div s) + (x % s) /\ x % s \in 0 .. s - 1
  BY SMT
<1> QED BY <1>1, Zenon

(* No multiple of s lies strictly between 0 and s. *)
LEMMA NoMultiple ==
    ASSUME NEW s \in Nat \ {0}, NEW k \in Int, NEW d \in 1 .. s - 1
    PROVE  d # s * k
<1>1. CASE k <= 0
  <2>1. s * k <= 0
    BY <1>1, SMT
  <2> QED BY <2>1
<1>2. CASE k >= 1
  <2>1. s * k >= s
    BY <1>2, SMT
  <2> QED BY <2>1
<1> QED BY <1>1, <1>2

(* A remainder is determined by the number it is the remainder of. *)
LEMMA Remainder ==
    ASSUME NEW s \in Nat \ {0}, NEW p \in Int, NEW q \in Int, NEW u \in 0 .. s - 1, NEW v \in 0 .. s - 1,
           s * p + u = s * q + v
    PROVE  u = v
<1>1. s * (q - p) = s * q - s * p /\ s * (p - q) = s * p - s * q
  BY SMT
<1>2. u - v = s * (q - p) /\ v - u = s * (p - q)
  BY <1>1
<1>3. q - p \in Int /\ p - q \in Int
  OBVIOUS
<1>4. ~(u > v)
  BY <1>2, <1>3, NoMultiple
<1>5. ~(v > u)
  BY <1>2, <1>3, NoMultiple
<1> QED BY <1>4, <1>5

(* Two positions less than s apart have different slots of a ring of s:    *)
(* Slot in bounded_spsc.h, % Size in cachedq.h.                            *)
LEMMA Distinct ==
    ASSUME NEW s \in Nat \ {0}, NEW a \in Nat, NEW b \in Nat, a < b, b < a + s
    PROVE  a % s # b % s
<1>1. PICK p \in Nat : a = s * p + (a % s) /\ a % s \in 0 .. s - 1
  BY Quotient, Zenon
<1>2. PICK q \in Nat : b = s * q + (b % s) /\ b % s \in 0 .. s - 1
  BY Quotient, Zenon
<1> SUFFICES ASSUME NEW u \in 0 .. s - 1, a = s * p + u, b = s * q + u PROVE FALSE 
  BY <1>1, <1>2, Zenon
<1>3. s * (q - p) = s * q - s * p /\ q - p \in Int
  BY SMT
<1>4. b - a = s * (q - p)
  BY <1>3
<1> QED BY <1>3, <1>4, NoMultiple

(* A counter that wraps at a multiple of s keeps its slot. *)
LEMMA Period ==
    ASSUME NEW s \in Nat \ {0}, NEW m \in Nat, m % s = 0
    PROVE  \A x, y \in Nat : y = x + m => y % s = x % s
<1> SUFFICES ASSUME NEW x \in Nat, NEW y \in Nat, y = x + m PROVE y % s = x % s
  BY Zenon
<1>1. PICK p \in Nat : x = s * p + (x % s) /\ x % s \in 0 .. s - 1
  BY Quotient, Zenon
<1>2. PICK q \in Nat : m = s * q + (m % s)
  BY Quotient, Zenon
<1>3. PICK n \in Nat : y = s * n + (y % s) /\ y % s \in 0 .. s - 1
  BY Quotient, Zenon
<1> SUFFICES ASSUME NEW u \in 0 .. s - 1, NEW v \in 0 .. s - 1, x = s * p + u, y = s * n + v
             PROVE  u = v
  BY <1>1, <1>3, Zenon
<1>4. s * (p + q) = s * p + s * q
  BY SMT
<1>5. m = s * q
  BY <1>2
<1>6. s * (p + q) + u = s * n + v
  BY <1>4, <1>5
<1>7. p + q \in Int /\ n \in Int
  OBVIOUS
<1> QED BY <1>6, <1>7, Remainder, Zenon

(* The entries of a sequence after one was appended. *)
LEMMA Appended ==
    ASSUME NEW S, NEW q \in Seq(S), NEW x \in S
    PROVE  /\ DOMAIN Append(q, x) = 1 .. Len(q) + 1 /\ Append(q, x)[Len(q) + 1] = x
           /\ \A k \in 1 .. Len(q) : Append(q, x)[k] = q[k]
  OBVIOUS
-----------------------------------------------------------------------------
(* cachedq.h                                                               *)
Cached == INSTANCE CachedQ
    WITH head <- phead, tail <- ptail, cached <- chead, entry <- buf, left <- g_cs_x,
         at <- curr, count <- i, seen <- idx, buf <- r, Producers <- Writers, None <- Null

(* cachedq_init establishes the invariant of cachedq.h. *)
LEMMA CachedInitially ==
    ASSUME Cached!Parameters
    PROVE  Cached!Init => Cached!CachedInv
<1> SUFFICES ASSUME Cached!Init PROVE Cached!CachedInv
  BY Zenon
<1> USE DEF Cached!Parameters, Cached!Init, Cached!BothZero
<1>1. Cached!Types
  BY DEF Cached!Types, Cached!Sides
<1>2. Cached!TailsInOrder
  BY DEF Cached!TailsInOrder, Cached!Other
<1>3. Cached!Ranges
  BY DEF Cached!Ranges, Cached!Reserved
<1>4. Cached!EntriesKept /\ Cached!EntriesInOrder
  BY DEF Cached!EntriesKept, Cached!EntriesInOrder, Cached!Reserved, Cached!Callers
<1> QED BY <1>1, <1>2, <1>3, <1>4, Zenon DEF Cached!CachedInv

(* No step of cachedq_enqueue or cachedq_dequeue breaks the invariant. *)
LEMMA CachedKept ==
    ASSUME Cached!Parameters
    PROVE  Cached!CachedInv /\ [Cached!Next]_(Cached!vars) => Cached!CachedInv'
<1> SUFFICES ASSUME Cached!CachedInv, [Cached!Next]_(Cached!vars) PROVE Cached!CachedInv'
  BY Zenon
<1> USE DEF Cached!queue, Cached!vars
<1>1. /\ Cached!Types /\ Cached!TailsInOrder /\ Cached!Ranges /\ Cached!EntriesKept
      /\ Cached!EntriesInOrder
  BY Zenon DEF Cached!CachedInv
<1>2. Size \in Nat \ {0} /\ Batches \subseteq Nat \ {0}
  BY Zenon DEF Cached!Parameters
<1>5. \A u \in Cached!Callers : Cached!Side(u) \in Cached!Sides /\ Cached!Other(u) \in Cached!Sides
  BY Zenon DEF Cached!Side, Cached!Other, Cached!Sides
<1>6. \A u \in Cached!Callers :
        /\ curr[u] \in Nat /\ i[u] \in Nat /\ idx[u] \in Nat
        /\ phead[Cached!Side(u)] \in Nat /\ ptail[Cached!Side(u)] \in Nat
        /\ ptail[Cached!Other(u)] \in Nat
  BY <1>1, <1>5, Zenon DEF Cached!Types
<1>3. CASE UNCHANGED Cached!vars
  BY <1>1, <1>3, Zenon DEF Cached!CachedInv, Cached!Types, Cached!TailsInOrder, Cached!Ranges,
     Cached!EntriesKept, Cached!EntriesInOrder, Cached!Reserved
<1>4. ASSUME NEW t \in Cached!Callers, Cached!Step(t)
      PROVE  Cached!CachedInv'
  <2> USE DEF Cached!Goto
  <2>1. Cached!Side(t) \in Cached!Sides /\ Cached!Other(t) \in Cached!Sides
    BY Zenon DEF Cached!Side, Cached!Other, Cached!Sides
  <2>2. CASE Cached!Call(t)
    <3> USE <2>2 DEF Cached!Call
    <3>1. PICK n \in Batches : i' = [i EXCEPT ![t] = n]
      BY Zenon
    <3>2. Cached!Types'
      BY <1>1, <1>2, <3>1, Zenon DEF Cached!Types
    <3>3. Cached!TailsInOrder'
      BY <1>1, Zenon DEF Cached!TailsInOrder
    <3>6. \A u \in Cached!Callers : IF u = t THEN pc'[u] = "again" /\ i'[u] = n /\ r[u] = <<>>
                                             ELSE pc'[u] = pc[u] /\ i'[u] = i[u]
      BY <1>1, <3>1, Zenon DEF Cached!Types, Cached!Ranges
    <3>4. Cached!Ranges'
      BY <1>1, <1>2, <3>6 DEF Cached!Ranges, Cached!Reserved
    <3>5. Cached!EntriesKept' /\ Cached!EntriesInOrder'
      BY <1>1 DEF Cached!EntriesKept, Cached!EntriesInOrder, Cached!Types, Cached!Reserved, Cached!Callers
    <3> QED BY <3>2, <3>3, <3>4, <3>5, Zenon DEF Cached!CachedInv
  <2>3. CASE Cached!ReadHead(t)
    <3> USE <2>3 DEF Cached!ReadHead
    <3>2. Cached!Types'
      BY <1>1, <2>1, Zenon DEF Cached!Types
    <3>3. Cached!TailsInOrder'
      BY <1>1, Zenon DEF Cached!TailsInOrder
    <3>4. Cached!Ranges'
      BY <1>1, <1>2, SMTT(30) DEF Cached!Ranges, Cached!Types, Cached!Reserved
    <3>5. Cached!EntriesKept' /\ Cached!EntriesInOrder'
      BY <1>1, SMTT(30) DEF Cached!EntriesKept, Cached!EntriesInOrder, Cached!Types, Cached!Reserved,
         Cached!Callers, Cached!Ranges
    <3> QED BY <3>2, <3>3, <3>4, <3>5, Zenon DEF Cached!CachedInv
  <2>4. CASE Cached!ReadCached(t)
    <3> USE <2>4 DEF Cached!ReadCached
    <3>2. Cached!Types'
      BY <1>1, <2>1, Zenon DEF Cached!Types
    <3>3. Cached!TailsInOrder'
      BY <1>1, Zenon DEF Cached!TailsInOrder
    <3>1. chead[Cached!Side(t)] <= ptail[Cached!Other(t)]
      BY <1>1, Zenon DEF Cached!TailsInOrder, Cached!Side, Cached!Other
    <3>6. pc'[t] = "cas" => curr[t] + i[t] <= Cached!Limit(t, ptail[Cached!Other(t)])
      <4>1. pc'[t] = "cas" => curr[t] + i[t] <= Cached!Limit(t, chead[Cached!Side(t)])
        BY <1>1, Zenon DEF Cached!Types
      <4>2. chead[Cached!Side(t)] \in Nat
        BY <1>1, <2>1, Zenon DEF Cached!Types
      <4> QED BY <1>2, <1>6, <3>1, <4>1, <4>2 DEF Cached!Limit
    <3>4. Cached!Ranges'
      BY <1>1, <1>2, <3>6, Zenon DEF Cached!Ranges, Cached!Types, Cached!Reserved
    <3>5. Cached!EntriesKept' /\ Cached!EntriesInOrder'
      BY <1>1, Zenon DEF Cached!EntriesKept, Cached!EntriesInOrder, Cached!Types, Cached!Reserved,
         Cached!Callers
    <3> QED BY <3>2, <3>3, <3>4, <3>5, Zenon DEF Cached!CachedInv
  <2>5. CASE Cached!ReadTail(t)
    <3> DEFINE limit == Cached!Limit(t, ptail[Cached!Other(t)])
               fits == curr[t] + i[t] <= limit
               n == IF fits THEN i[t] ELSE limit - curr[t]
    <3>1. /\ pc[t] = "tail" /\ UNCHANGED <<phead, ptail, chead, buf, g_cs_x>>
          /\ limit \in Nat /\ r[t] = <<>> /\ i[t] > 0
      <4>1. pc[t] = "tail" /\ UNCHANGED <<phead, ptail, chead, buf, g_cs_x>>
        BY <2>5, Zenon DEF Cached!ReadTail
      <4>2. limit \in Nat
        BY <1>2, <1>6 DEF Cached!Limit
      <4> QED BY <1>1, <4>1, <4>2, Zenon DEF Cached!Ranges
    <3>2. CASE /\ fits \/ (t \in Consumers /\ n > 0)
               /\ i' = [i EXCEPT ![t] = n]
               /\ idx' = [idx EXCEPT ![t] = ptail[Cached!Other(t)]]
               /\ pc' = [pc EXCEPT ![t] = "cas_tail"]
               /\ UNCHANGED <<curr, r>>
      <4>1. n \in Nat /\ n > 0 /\ curr[t] + n <= limit
        BY <1>1, <3>1, <3>2 DEF Cached!Types
      <4> HIDE DEF n
      <4>2. Cached!Types'
        BY <1>1, <2>1, <3>1, <3>2, <4>1, Zenon DEF Cached!Types
      <4>3. Cached!TailsInOrder'
        <5>1. \A u \in Cached!Callers : idx'[u] <= ptail[Cached!Other(u)]
          <6>1. \A u \in Cached!Callers :
                  idx'[u] = IF u = t THEN ptail[Cached!Other(u)] ELSE idx[u]
            BY <1>1, <3>2, Zenon DEF Cached!Types
          <6>2. \A u \in Cached!Callers : idx[u] <= ptail[Cached!Other(u)]
            BY <1>1, Zenon DEF Cached!TailsInOrder
          <6> QED BY <1>6, <6>1, <6>2
        <5> QED BY <1>1, <3>1, <5>1, Zenon DEF Cached!TailsInOrder
      <4>6. \A u \in Cached!Callers : u # t =>
              curr'[u] = curr[u] /\ i'[u] = i[u] /\ pc'[u] = pc[u] /\ r'[u] = r[u]
        BY <1>1, <3>2, Zenon DEF Cached!Types
      <4>7. pc'[t] = "cas_tail" /\ curr'[t] = curr[t] /\ i'[t] = n /\ r'[t] = <<>>
        BY <1>1, <3>1, <3>2, Zenon DEF Cached!Types
      <4>4. Cached!Ranges'
        BY <1>1, <3>1, <4>1, <4>6, <4>7 DEF Cached!Ranges, Cached!Reserved
      <4>5. Cached!EntriesKept' /\ Cached!EntriesInOrder'
        BY <1>1, <3>1, <3>2, Zenon DEF Cached!EntriesKept, Cached!EntriesInOrder, Cached!Types,
           Cached!Reserved, Cached!Callers
      <4> QED BY <4>2, <4>3, <4>4, <4>5, Zenon DEF Cached!CachedInv
    <3>3. CASE Cached!Return(t)
      <4> USE <3>3 DEF Cached!Return
      <4>2. Cached!Types'
        BY <1>1, <3>1, Zenon DEF Cached!Types
      <4>3. Cached!TailsInOrder'
        <5>1. \A u \in Cached!Callers : idx'[u] <= ptail[Cached!Other(u)]
          <6>1. \A u \in Cached!Callers : idx'[u] = IF u = t THEN 0 ELSE idx[u]
            BY <1>1, Zenon DEF Cached!Types
          <6>2. \A u \in Cached!Callers : idx[u] <= ptail[Cached!Other(u)]
            BY <1>1, Zenon DEF Cached!TailsInOrder
          <6> QED BY <1>6, <6>1, <6>2
        <5> QED BY <1>1, <3>1, <5>1, Zenon DEF Cached!TailsInOrder
      <4>4. Cached!Ranges'
        BY <1>1, <3>1 DEF Cached!Ranges, Cached!Types, Cached!Reserved
      <4>5. Cached!EntriesKept'
        BY <1>1, <3>1, Zenon DEF Cached!EntriesKept, Cached!Types, Cached!Reserved, Cached!Callers
      <4>6. \A u \in Cached!Callers : IF u = t THEN r'[u] = <<>>
                                                 ELSE curr'[u] = curr[u] /\ r'[u] = r[u]
        BY <1>1, Zenon DEF Cached!Types
      <4>7. Cached!EntriesInOrder'
        BY <1>1, <4>6 DEF Cached!EntriesInOrder
      <4> QED BY <4>2, <4>3, <4>4, <4>5, <4>7, Zenon DEF Cached!CachedInv
    <3> QED BY <2>5, <3>2, <3>3, Zenon DEF Cached!ReadTail
  <2>6. CASE Cached!Cas(t)
    <3>1. CASE phead[Cached!Side(t)] = curr[t]
      <4>1. /\ phead' = [phead EXCEPT ![Cached!Side(t)] = curr[t] + i[t]]
            /\ pc' = [pc EXCEPT ![t] = IF pc[t] = "cas" THEN "copy" ELSE "cache"]
            /\ pc[t] \in {"cas", "cas_tail"}
            /\ UNCHANGED <<ptail, chead, buf, curr, i, idx, r, g_cs_x>>
        BY <2>6, <3>1, Zenon DEF Cached!Cas
      <4>2. /\ curr[t] + i[t] <= Cached!Limit(t, ptail[Cached!Other(t)])
            /\ r[t] = <<>> /\ i[t] > 0 /\ curr[t] \in Nat /\ i[t] \in Nat
        BY <1>1, <4>1, Zenon DEF Cached!Ranges, Cached!Types
      <4>3. Cached!Types'
        <5>1. curr[t] + i[t] \in Nat
          BY <4>2
        <5> QED BY <1>1, <2>1, <4>1, <5>1, Zenon DEF Cached!Types
      <4>4. Cached!TailsInOrder'
        <5>1. CASE t \in Writers
          <6>1. phead'["p"] = curr[t] + i[t] /\ phead'["c"] = phead["c"]
            BY <1>1, <4>1, <5>1 DEF Cached!Types, Cached!Side, Cached!Sides
          <6>2. phead["p"] = curr[t] /\ curr[t] + i[t] <= ptail["c"] + Size
            BY <3>1, <4>2, <5>1 DEF Cached!Side, Cached!Other, Cached!Limit
          <6>3. ptail["p"] \in Nat /\ ptail["p"] <= phead'["p"]
            BY <1>1, <4>2, <6>1, <6>2 DEF Cached!TailsInOrder, Cached!Types, Cached!Sides
          <6> QED BY <1>1, <4>1, <6>1, <6>2, <6>3, Zenon DEF Cached!TailsInOrder
        <5>2. CASE t \notin Writers
          <6>1. phead'["c"] = curr[t] + i[t] /\ phead'["p"] = phead["p"]
            BY <1>1, <4>1, <5>2 DEF Cached!Types, Cached!Side, Cached!Sides
          <6>2. phead["c"] = curr[t] /\ curr[t] + i[t] <= ptail["p"]
            BY <3>1, <4>2, <5>2 DEF Cached!Side, Cached!Other, Cached!Limit
          <6>3. ptail["c"] \in Nat /\ ptail["c"] <= phead'["c"]
            BY <1>1, <4>2, <6>1, <6>2 DEF Cached!TailsInOrder, Cached!Types, Cached!Sides
          <6> QED BY <1>1, <4>1, <6>1, <6>2, <6>3, Zenon DEF Cached!TailsInOrder
        <5> QED BY <5>1, <5>2
      <4>5. Cached!Ranges'
        <5>1. \A s \in Cached!Sides : phead[s] <= phead'[s] /\ ptail[s] <= phead[s]
          BY <1>1, <2>1, <3>1, <4>1, <4>2 DEF Cached!Types, Cached!TailsInOrder, Cached!Sides
        <5>2. ASSUME NEW u \in Cached!Callers
              PROVE  /\ pc'[u] # "idle" => i'[u] > 0
                     /\ pc'[u] # "copy" => r'[u] = <<>>
                     /\ Len(r'[u]) <= i'[u]
                     /\ pc'[u] \in {"cas", "cas_tail"} =>
                           curr'[u] + i'[u] <= Cached!Limit(u, ptail'[Cached!Other(u)])
                     /\ Cached!Reserved(u)' => /\ ptail'[Cached!Side(u)] <= curr'[u]
                                               /\ curr'[u] + i'[u] <= phead'[Cached!Side(u)]
          <6>1. CASE u = t
            BY <1>1, <2>1, <3>1, <4>1, <4>2, <5>1, <6>1 DEF Cached!Types
          <6>2. CASE u # t
            <7>1. pc'[u] = pc[u]
              BY <1>1, <4>1, <6>2, Zenon DEF Cached!Types
            <7>2. phead[Cached!Side(u)] <= phead'[Cached!Side(u)] /\ phead'[Cached!Side(u)] \in Nat
              BY <1>5, <4>3, <5>1, Zenon DEF Cached!Types
            <7> QED BY <1>1, <1>6, <4>1, <7>1, <7>2, SMTT(30) DEF Cached!Ranges, Cached!Reserved
          <6> QED BY <6>1, <6>2, Zenon
        <5>3. ASSUME NEW u \in Cached!Callers, NEW v \in Cached!Callers, u # v,
                     Cached!Side(u) = Cached!Side(v), Cached!Reserved(u)', Cached!Reserved(v)'
              PROVE  curr[u] + i[u] <= curr[v] \/ curr[v] + i[v] <= curr[u]
          BY <1>1, <2>1, <3>1, <4>1, <5>3, Zenon DEF Cached!Ranges, Cached!Types, Cached!Reserved
        <5> QED BY <4>1, <5>2, <5>3, Zenon DEF Cached!Ranges
      <4>6. Cached!EntriesKept' /\ Cached!EntriesInOrder'
        BY <1>1, <4>1, <4>2 DEF Cached!EntriesKept, Cached!EntriesInOrder, Cached!Types,
           Cached!Reserved, Cached!Callers
      <4> QED BY <4>3, <4>4, <4>5, <4>6 DEF Cached!CachedInv
    <3>2. CASE phead[Cached!Side(t)] # curr[t]
      <4>1. /\ pc' = [pc EXCEPT ![t] = "again"] /\ pc[t] \in {"cas", "cas_tail"}
            /\ UNCHANGED <<phead, ptail, chead, buf, curr, i, idx, r, g_cs_x>>
        BY <2>6, <3>2, Zenon DEF Cached!Cas
      <4>2. Cached!Types'
        BY <1>1, <4>1, Zenon DEF Cached!Types
      <4>3. Cached!TailsInOrder'
        BY <1>1, <4>1, Zenon DEF Cached!TailsInOrder
      <4>4. Cached!Ranges'
        BY <1>1, <4>1, SMTT(30) DEF Cached!Ranges, Cached!Types, Cached!Reserved
      <4>5. Cached!EntriesKept' /\ Cached!EntriesInOrder'
        BY <1>1, <4>1, Zenon DEF Cached!EntriesKept, Cached!EntriesInOrder, Cached!Types,
           Cached!Reserved, Cached!Callers
      <4> QED BY <4>2, <4>3, <4>4, <4>5 DEF Cached!CachedInv
    <3> QED BY <3>1, <3>2, Zenon
  <2>7. CASE Cached!Cache(t)
    <3> USE <2>7 DEF Cached!Cache
    <3>2. Cached!Types'
      BY <1>1, <2>1, Zenon DEF Cached!Types
    <3>3. Cached!TailsInOrder'
      BY <1>1, <2>1, Zenon DEF Cached!TailsInOrder, Cached!Types, Cached!Side, Cached!Other, Cached!Sides
    <3>4. Cached!Ranges'
      BY <1>1, Zenon DEF Cached!Ranges, Cached!Types, Cached!Reserved
    <3>5. Cached!EntriesKept' /\ Cached!EntriesInOrder'
      BY <1>1, Zenon DEF Cached!EntriesKept, Cached!EntriesInOrder, Cached!Types, Cached!Reserved,
         Cached!Callers
    <3> QED BY <3>2, <3>3, <3>4, <3>5, Zenon DEF Cached!CachedInv
  <2>8. CASE Cached!Copy(t)
    <3> DEFINE pos == curr[t] + Len(r[t])
    <3>1. /\ pc[t] = "copy" /\ UNCHANGED <<phead, ptail, chead, pc, curr, i, idx, g_cs_x>>
          /\ Len(r[t]) < i[t] /\ Len(r[t]) \in Nat /\ pos \in Nat
      BY <1>1, <2>8 DEF Cached!Copy, Cached!Types
    <3>2. ptail[Cached!Side(t)] <= pos /\ pos < phead[Cached!Side(t)]
      BY <1>1, <1>6, <3>1, SMTT(30) DEF Cached!Ranges, Cached!Reserved
    <3>3. ptail["c"] \in Nat /\ ptail["p"] \in Nat /\ phead["c"] \in Nat /\ phead["p"] \in Nat
      BY <1>1, Zenon DEF Cached!Types, Cached!Sides
    <3>4. CASE t \in Writers
      <4> HIDE DEF pos
      <4>1. /\ buf' = [buf EXCEPT ![pos % Size] = pos]
            /\ r' = [r EXCEPT ![t] = Append(@, pos)]
        BY <2>8, <3>4, Zenon DEF Cached!Copy, pos
      <4>2. pos % Size \in 0 .. Size - 1
        BY <1>2, <3>1
      <4>3. Cached!Types'
        <5>1. buf' \in [0 .. Size - 1 -> Nat \cup {Null}]
          BY <1>1, <3>1, <4>1, Zenon DEF Cached!Types
        <5>2. r' \in [Cached!Callers -> Seq(Nat \cup {Null})]
          BY <1>1, <3>1, <4>1 DEF Cached!Types
        <5> QED BY <1>1, <3>1, <5>1, <5>2, Zenon DEF Cached!Types
      <4>4. Cached!TailsInOrder'
        BY <1>1, <3>1, Zenon DEF Cached!TailsInOrder
      <4>5. Cached!Ranges'
        BY <1>1, <3>1, <4>1 DEF Cached!Ranges, Cached!Reserved, Cached!Types
      <4>6. ptail["p"] <= pos /\ pos < phead["p"] /\ phead["p"] <= ptail["c"] + Size
            /\ ptail["c"] <= ptail["p"]
        BY <1>1, <3>2, <3>3, <3>4 DEF Cached!Side, Cached!TailsInOrder
      <4>7. \A q \in Nat : ptail["c"] <= q /\ q < phead["p"] /\ q # pos => buf'[q % Size] = buf[q % Size]
        <5> SUFFICES ASSUME NEW q \in Nat, ptail["c"] <= q, q < phead["p"], q # pos
                     PROVE  q % Size # pos % Size /\ q % Size \in 0 .. Size - 1
          BY <1>1, <4>1, Zenon DEF Cached!Types
        <5>1. q % Size \in 0 .. Size - 1
          BY <1>2
        <5>2. CASE q < pos
          <6>1. pos < q + Size
            BY <1>2, <3>1, <3>3, <4>6
          <6>2. q % Size # pos % Size
            BY <1>2, <3>1, <5>2, <6>1, Distinct, Zenon
          <6> QED BY <5>1, <6>2, Zenon
        <5>3. CASE pos < q
          <6>1. q < pos + Size
            BY <1>2, <3>1, <3>3, <4>6
          <6>2. pos % Size # q % Size
            BY <1>2, <3>1, <5>3, <6>1, Distinct, Zenon
          <6> QED BY <5>1, <6>2, Zenon
        <5> QED BY <3>1, <5>1, <5>2, <5>3
      <4>8. buf'[pos % Size] = pos
        BY <1>1, <4>1, <4>2, Zenon DEF Cached!Types
      <4>9. \A q \in Nat : ptail["c"] <= q /\ q < ptail["p"] => buf'[q % Size] = q
        BY <1>1, <3>1, <3>3, <4>6, <4>7 DEF Cached!EntriesKept
      <4>10. ASSUME NEW u \in Writers, NEW k \in Nat, Cached!Reserved(u), k < Len(r'[u])
             PROVE  buf'[(curr[u] + k) % Size] = curr[u] + k
        <5>1. CASE u = t /\ k = Len(r[t])
          BY <4>8, <5>1, Zenon DEF pos
        <5>2. CASE u # t \/ k # Len(r[t])
          <6>1. u \in Cached!Callers /\ t \in Cached!Callers
            BY Zenon DEF Cached!Callers
          <6>2. k < Len(r[u]) /\ curr[u] + k \in Nat
            BY <1>1, <1>6, <3>1, <4>1, <4>10, <5>2, <6>1, SMTT(30) DEF Cached!Types
          <6>3. buf[(curr[u] + k) % Size] = curr[u] + k
            BY <1>1, <4>10, <6>2, Zenon DEF Cached!EntriesKept
          <6>4. ptail["p"] <= curr[u] + k /\ curr[u] + k < phead["p"] /\ curr[u] + k # pos
            <7>1. /\ ptail["p"] <= curr[u] /\ curr[u] + i[u] <= phead["p"] /\ Len(r[u]) <= i[u]
                  /\ Cached!Side(u) = "p" /\ Cached!Side(t) = "p" /\ Cached!Reserved(t)
              BY <1>1, <3>1, <3>4, <4>10, <6>1, Zenon DEF Cached!Ranges, Cached!Side, Cached!Reserved
            <7>2. u # t => curr[u] + i[u] <= curr[t] \/ curr[t] + i[t] <= curr[u]
              BY <1>1, <4>10, <6>1, <7>1, Zenon DEF Cached!Ranges
            <7>3. Len(r[u]) \in Nat
              BY <1>1, <6>1 DEF Cached!Types
            <7>4. curr[u] \in Nat /\ i[u] \in Nat /\ curr[t] \in Nat /\ i[t] \in Nat
              BY <1>6, <6>1, Zenon
            <7>5. curr[u] + k < curr[u] + i[u] /\ curr[u] <= curr[u] + k
              BY <6>2, <7>1, <7>3, <7>4
            <7>6. curr[t] <= pos /\ pos < curr[t] + i[t]
              BY <3>1, <7>4 DEF pos
            <7>7. curr[u] + k # pos
              <8>1. CASE u = t
                BY <3>1, <5>2, <7>4, <8>1 DEF pos
              <8>2. CASE u # t
                <9> HIDE DEF pos
                <9> QED BY <3>1, <6>2, <7>2, <7>4, <7>5, <7>6, <8>2, SMTT(30)
              <8> QED BY <8>1, <8>2, Zenon
            <7>8. ptail["p"] <= curr[u] /\ curr[u] + i[u] <= phead["p"]
              BY <7>1, Zenon
            <7>9. ptail["p"] <= curr[u] + k
              BY <3>3, <6>2, <7>4, <7>5, <7>8
            <7>10. curr[u] + k < phead["p"]
              BY <3>3, <6>2, <7>4, <7>5, <7>8, SMTT(30)
            <7> QED BY <7>7, <7>9, <7>10, Zenon
          <6> QED BY <3>3, <4>6, <4>7, <6>2, <6>3, <6>4
        <5> QED BY <5>1, <5>2, Zenon
      <4>11. Cached!EntriesKept'
        BY <3>1, <4>9, <4>10, Zenon DEF Cached!EntriesKept, Cached!Reserved
      <4>12. Cached!EntriesInOrder'
        <5>1. \A u \in Cached!Callers : r'[u] = IF u = t THEN Append(r[t], pos) ELSE r[u]
          BY <1>1, <4>1, Zenon DEF Cached!Types
        <5>2. r[t] \in Seq(Nat \cup {Null}) /\ curr[t] \in Nat /\ curr' = curr
          BY <1>1, <1>6, <3>1, Zenon DEF Cached!Types
        <5>3. \A k \in DOMAIN r'[t] : r'[t][k] = curr[t] + k - 1
          <6>1. /\ DOMAIN r'[t] = 1 .. Len(r[t]) + 1 /\ r'[t][Len(r[t]) + 1] = pos
                /\ \A k \in 1 .. Len(r[t]) : r'[t][k] = r[t][k]
            <7>1. r'[t] = Append(r[t], pos) /\ pos \in Nat \cup {Null}
              BY <3>1, <5>1, Zenon
            <7> QED BY <5>2, <7>1, Appended
          <6>2. \A k \in 1 .. Len(r[t]) : r[t][k] = curr[t] + k - 1
            BY <1>1, <5>2 DEF Cached!EntriesInOrder
          <6>3. pos = curr[t] + (Len(r[t]) + 1) - 1
            BY <3>1, <5>2 DEF pos
          <6> TAKE k \in DOMAIN r'[t]
          <6>4. CASE k = Len(r[t]) + 1
            BY <6>1, <6>3, <6>4, Zenon
          <6>5. CASE k # Len(r[t]) + 1
            <7>1. k \in 1 .. Len(r[t])
              BY <3>1, <6>1, <6>5
            <7> QED BY <6>1, <6>2, <7>1, Zenon
          <6> QED BY <6>4, <6>5, Zenon
        <5> QED BY <1>1, <5>1, <5>2, <5>3, Zenon DEF Cached!EntriesInOrder
      <4> QED BY <4>3, <4>4, <4>5, <4>11, <4>12, Zenon DEF Cached!CachedInv
    <3>5. CASE t \notin Writers
      <4>1. r' = [r EXCEPT ![t] = Append(@, buf[pos % Size])] /\ buf' = buf
        BY <2>8, <3>5, Zenon DEF Cached!Copy
      <4>2. buf[pos % Size] = pos
        <5>1. ptail["c"] <= pos /\ pos < ptail["p"]
          BY <1>1, <3>1, <3>2, <3>3, <3>5 DEF Cached!Side, Cached!TailsInOrder
        <5> QED BY <1>1, <3>1, <5>1, Zenon DEF Cached!EntriesKept
      <4>3. Cached!Types'
        BY <1>1, <3>1, <4>1, <4>2 DEF Cached!Types
      <4>4. Cached!TailsInOrder'
        BY <1>1, <3>1, Zenon DEF Cached!TailsInOrder
      <4>5. Cached!Ranges'
        BY <1>1, <3>1, <4>1, SMTT(30) DEF Cached!Ranges, Cached!Reserved, Cached!Types
      <4>6. Cached!EntriesKept'
        BY <1>1, <3>1, <3>5, <4>1, Zenon DEF Cached!EntriesKept, Cached!Reserved, Cached!Types, Cached!Callers
      <4>7. Cached!EntriesInOrder'
        BY <1>1, <1>6, <3>1, <4>1, <4>2, SMTT(30) DEF Cached!EntriesInOrder, Cached!Types
      <4> QED BY <4>3, <4>4, <4>5, <4>6, <4>7 DEF Cached!CachedInv
    <3> QED BY <3>4, <3>5, Zenon
  <2>9. CASE Cached!Publish(t)
    <3> DEFINE s == Cached!Side(t)
               end == curr[t] + i[t]
    <3>1. /\ pc[t] = "copy" /\ Len(r[t]) = i[t] /\ ptail[s] = curr[t]
          /\ ptail' = [ptail EXCEPT ![s] = end]
          /\ UNCHANGED <<phead, chead, buf, g_cs_x>>
          /\ pc' = [pc EXCEPT ![t] = "idle"] /\ curr' = [curr EXCEPT ![t] = 0]
          /\ i' = [i EXCEPT ![t] = 0] /\ idx' = [idx EXCEPT ![t] = 0]
          /\ r' = [r EXCEPT ![t] = <<>>]
      BY <2>9, Zenon DEF Cached!Publish, Cached!Return
    <3>2. /\ end \in Nat /\ end <= phead[s] /\ ptail[s] <= end /\ i[t] > 0
          /\ curr[t] \in Nat /\ i[t] \in Nat
      BY <1>1, <1>6, <3>1 DEF Cached!Ranges, Cached!Reserved
    <3>3. ptail["c"] \in Nat /\ ptail["p"] \in Nat /\ phead["c"] \in Nat /\ phead["p"] \in Nat
      BY <1>1 DEF Cached!Types, Cached!Sides
    <3> HIDE DEF end
    <3>4. \A u \in Cached!Callers : IF u = t
             THEN pc'[u] = "idle" /\ curr'[u] = 0 /\ i'[u] = 0 /\ idx'[u] = 0 /\ r'[u] = <<>>
             ELSE /\ pc'[u] = pc[u] /\ curr'[u] = curr[u] /\ i'[u] = i[u] /\ idx'[u] = idx[u]
                  /\ r'[u] = r[u]
      BY <1>1, <3>1, Zenon DEF Cached!Types
    <3>5. \A x \in Cached!Sides : ptail'[x] = IF x = s THEN end ELSE ptail[x]
      BY <1>1, <2>1, <3>1, Zenon DEF Cached!Types
    <3>6. \A x \in Cached!Sides : ptail'[x] \in Nat /\ ptail[x] \in Nat /\ ptail[x] <= ptail'[x]
      <4>1. \A x \in Cached!Sides : ptail[x] \in Nat
        BY <1>1, Zenon DEF Cached!Types
      <4> HIDE DEF s
      <4> QED BY <3>2, <3>5, <4>1
    <3>7. Cached!Types'
      <4>1. ptail' \in [Cached!Sides -> Nat]
        BY <1>1, <2>1, <3>1, <3>2, Zenon DEF Cached!Types
      <4>2. r' \in [Cached!Callers -> Seq(Nat \cup {Null})]
        BY <1>1, <3>1 DEF Cached!Types
      <4> QED BY <1>1, <3>1, <4>1, <4>2, Zenon DEF Cached!Types
    <3>8. Cached!TailsInOrder'
      <4>1. \A u \in Cached!Callers : idx'[u] <= ptail'[Cached!Other(u)]
        <5> TAKE u \in Cached!Callers
        <5>1. idx[u] <= ptail[Cached!Other(u)] /\ idx[u] \in Nat /\ Cached!Other(u) \in Cached!Sides
          BY <1>1, <1>5, <1>6, Zenon DEF Cached!TailsInOrder
        <5> QED BY <3>4, <3>6, <5>1
      <4>2. "c" \in Cached!Sides /\ "p" \in Cached!Sides /\ s \in {"c", "p"}
        BY Zenon DEF Cached!Sides, Cached!Side
      <4>3. chead["p"] \in Nat /\ chead["c"] \in Nat
        BY <1>1, Zenon DEF Cached!Types, Cached!Sides
      <4> HIDE DEF s
      <4>6. /\ ptail["c"] <= phead["c"] /\ phead["c"] <= ptail["p"] /\ ptail["p"] <= phead["p"]
            /\ phead["p"] <= ptail["c"] + Size
            /\ chead["p"] <= ptail["c"] /\ chead["c"] <= ptail["p"]
            /\ phead' = phead /\ chead' = chead
        BY <1>1, <3>1, Zenon DEF Cached!TailsInOrder
      <4>4. CASE s = "p"
        <5>1. ptail'["p"] = end /\ ptail'["c"] = ptail["c"]
          BY <3>5, <4>2, <4>4, Zenon
        <5>2. end <= phead["p"] /\ ptail["p"] <= end
          BY <3>2, <4>4, Zenon
        <5> QED BY <3>2, <3>3, <4>1, <4>3, <4>6, <5>1, <5>2 DEF Cached!TailsInOrder
      <4>5. CASE s = "c"
        <5>1. ptail'["c"] = end /\ ptail'["p"] = ptail["p"]
          BY <3>5, <4>2, <4>5, Zenon
        <5>2. end <= phead["c"] /\ ptail["c"] <= end
          BY <3>2, <4>5, Zenon
        <5> QED BY <1>2, <3>2, <3>3, <4>1, <4>3, <4>6, <5>1, <5>2 DEF Cached!TailsInOrder
      <4> QED BY <4>2, <4>4, <4>5, Zenon
    <3>9. Cached!Ranges'
      <4>1. ASSUME NEW u \in Cached!Callers
            PROVE  /\ pc'[u] # "idle" => i'[u] > 0
                   /\ pc'[u] # "copy" => r'[u] = <<>>
                   /\ Len(r'[u]) <= i'[u]
                   /\ pc'[u] \in {"cas", "cas_tail"} =>
                         curr'[u] + i'[u] <= Cached!Limit(u, ptail'[Cached!Other(u)])
                   /\ Cached!Reserved(u)' => /\ ptail'[Cached!Side(u)] <= curr'[u]
                                             /\ curr'[u] + i'[u] <= phead'[Cached!Side(u)]
        <5>1. CASE u = t
          BY <3>4, <5>1 DEF Cached!Reserved
        <5>2. CASE u # t
          <6>1. /\ pc[u] # "idle" => i[u] > 0
                /\ pc[u] # "copy" => r[u] = <<>>
                /\ Len(r[u]) <= i[u]
            BY <1>1, Zenon DEF Cached!Ranges
          <6>2. pc[u] \in {"cas", "cas_tail"} =>
                    curr[u] + i[u] <= Cached!Limit(u, ptail'[Cached!Other(u)])
            <7>1. ptail[Cached!Other(u)] <= ptail'[Cached!Other(u)] /\ ptail'[Cached!Other(u)] \in Nat
              BY <1>5, <3>6, Zenon
            <7>2. pc[u] \in {"cas", "cas_tail"} =>
                    curr[u] + i[u] <= Cached!Limit(u, ptail[Cached!Other(u)])
              BY <1>1, Zenon DEF Cached!Ranges
            <7> QED BY <1>2, <1>6, <7>1, <7>2 DEF Cached!Limit
          <6>3. Cached!Reserved(u) => /\ ptail'[Cached!Side(u)] <= curr[u]
                                      /\ curr[u] + i[u] <= phead[Cached!Side(u)]
            <7> SUFFICES ASSUME Cached!Reserved(u)
                         PROVE  /\ ptail'[Cached!Side(u)] <= curr[u]
                                /\ curr[u] + i[u] <= phead[Cached!Side(u)]
              BY Zenon
            <7>1. ptail[Cached!Side(u)] <= curr[u] /\ curr[u] + i[u] <= phead[Cached!Side(u)] /\ i[u] > 0
              BY <1>1, Zenon DEF Cached!Ranges, Cached!Reserved
            <7>2. CASE Cached!Side(u) = s
              <8>1. curr[u] + i[u] <= curr[t] \/ end <= curr[u]
                BY <1>1, <3>1, <5>2, <7>2, Zenon DEF Cached!Ranges, Cached!Reserved, end
              <8>2. ptail'[Cached!Side(u)] = end
                BY <1>5, <3>5, <7>2, Zenon
              <8> QED BY <1>6, <3>1, <7>1, <7>2, <8>1, <8>2
            <7>3. CASE Cached!Side(u) # s
              BY <1>5, <3>5, <7>1, <7>3, Zenon
            <7> QED BY <7>2, <7>3, Zenon
          <6> QED BY <3>1, <3>4, <5>2, <6>1, <6>2, <6>3, Zenon DEF Cached!Reserved
        <5> QED BY <5>1, <5>2
      <4>2. ASSUME NEW u \in Cached!Callers, NEW v \in Cached!Callers, u # v,
                   Cached!Side(u) = Cached!Side(v), Cached!Reserved(u)', Cached!Reserved(v)'
            PROVE  curr'[u] + i'[u] <= curr'[v] \/ curr'[v] + i'[v] <= curr'[u]
        BY <1>1, <3>4, <4>2, Zenon DEF Cached!Ranges, Cached!Reserved
      <4> QED BY <4>1, <4>2, Zenon DEF Cached!Ranges
    <3>10. Cached!EntriesKept'
      <4>1. ASSUME NEW pos \in Nat, ptail'["c"] <= pos, pos < ptail'["p"]
            PROVE  buf[pos % Size] = pos
        <5>1. "c" \in Cached!Sides /\ "p" \in Cached!Sides
          BY Zenon DEF Cached!Sides
        <5>2. ptail["c"] <= pos
          BY <3>6, <4>1, <5>1
        <5>3. CASE pos < ptail["p"]
          BY <1>1, <5>2, <5>3, Zenon DEF Cached!EntriesKept
        <5>4. CASE pos >= ptail["p"]
          <6>1. s = "p" /\ t \in Writers
            BY <3>3, <3>5, <4>1, <5>1, <5>4 DEF Cached!Side
          <6>2. ptail["p"] = curr[t] /\ pos < end
            BY <3>1, <3>5, <4>1, <5>1, <6>1, Zenon
          <6>3. pos - curr[t] \in Nat /\ pos - curr[t] < Len(r[t]) /\ curr[t] + (pos - curr[t]) = pos
            BY <3>1, <3>2, <5>4, <6>2 DEF end
          <6>4. Cached!Reserved(t)
            BY <3>1, Zenon DEF Cached!Reserved
          <6>5. \A k \in Nat : k < Len(r[t]) => buf[(curr[t] + k) % Size] = curr[t] + k
            BY <1>1, <6>1, <6>4, Zenon DEF Cached!EntriesKept
          <6> QED BY <6>3, <6>5, Zenon
        <5> QED BY <3>3, <5>3, <5>4
      <4>2. ASSUME NEW u \in Writers, NEW k \in Nat, Cached!Reserved(u)', k < Len(r'[u])
            PROVE  buf[(curr'[u] + k) % Size] = curr'[u] + k
        <5>1. u \in Cached!Callers /\ u # t /\ Cached!Reserved(u) /\ curr'[u] = curr[u] /\ r'[u] = r[u]
          BY <3>4, <4>2, Zenon DEF Cached!Reserved, Cached!Callers
        <5> QED BY <1>1, <4>2, <5>1, Zenon DEF Cached!EntriesKept
      <4> QED BY <3>1, <4>1, <4>2, Zenon DEF Cached!EntriesKept
    <3>11. Cached!EntriesInOrder'
      BY <1>1, <3>4 DEF Cached!EntriesInOrder
    <3> QED BY <3>7, <3>8, <3>9, <3>10, <3>11 DEF Cached!CachedInv
  <2> QED
    BY <1>4, <2>2, <2>3, <2>4, <2>5, <2>6, <2>7, <2>8, <2>9, Zenon DEF Cached!Step
<1> QED BY <1>3, <1>4, Zenon DEF Cached!Next
-----------------------------------------------------------------------------
(* bounded_spsc.h.orig and bounded_spsc.h, each with two threads and with  *)
(* one thread that is both producer and consumer.                          *)
Spsc == INSTANCE BoundedSpsc
    WITH build <- phead, head <- chead, tail <- ptail, ppc <- pc, ptail <- curr, point <- i,
         chead <- idx, used <- g_ret,
         Builds <- [orig : BOOLEAN, same_thread : BOOLEAN], Modulus <- SpscModulus

(* bounded_spsc.h: the slots of two counter values less than Size apart     *)
(* differ, also where the counter wraps.                                   *)
LEMMA SpscSlots ==
    ASSUME Spsc!Parameters, NEW a \in Spsc!Word, NEW d \in 1 .. Size - 1
    PROVE  Spsc!Slot(Spsc!Plus(a, d)) # Spsc!Slot(a)
<1>1. /\ SpscModulus \in Nat /\ Size \in Nat \ {0}
      /\ Size < SpscModulus /\ SpscModulus % Size = 0
      /\ a \in 0 .. SpscModulus - 1
  BY Zenon DEF Spsc!Parameters, Spsc!Word
<1>2. PICK y \in Nat : y = a + d
  BY <1>1
<1>3. y % Size # a % Size
  <2>1. a \in Nat /\ a < y /\ y < a + Size
    BY <1>1, <1>2
  <2> QED BY <1>1, <2>1, Distinct, Zenon
<1>4. CASE y < SpscModulus
  <2>1. Spsc!Plus(a, d) = y
    BY <1>2, <1>4, Zenon DEF Spsc!Plus
  <2> QED BY <1>3, <2>1, Zenon DEF Spsc!Slot
<1>5. CASE ~(y < SpscModulus)
  <2>1. PICK z \in Nat : y = z + SpscModulus /\ Spsc!Plus(a, d) = z
    BY <1>1, <1>2, <1>5 DEF Spsc!Plus
  <2>2. y % Size = z % Size
    <3>1. \A x, w \in Nat : w = x + SpscModulus => w % Size = x % Size
      BY <1>1, Period, Zenon
    <3> QED BY <2>1, <3>1, Zenon
  <2> QED BY <1>3, <2>1, <2>2, Zenon DEF Spsc!Slot
<1> QED BY <1>4, <1>5, Zenon

(* The arithmetic of the 32-bit counters head and tail of bounded_spsc.h. *)
LEMMA SpscWords ==
    ASSUME Spsc!Parameters, NEW a \in Spsc!Word, NEW b \in Spsc!Word
    PROVE  /\ Spsc!Inc(a) \in Spsc!Word
           /\ Spsc!Slot(a) \in 0 .. Size - 1
           /\ Spsc!Minus(b, a) \in Spsc!Word
           /\ b = Spsc!Plus(a, Spsc!Minus(b, a))
           /\ a = Spsc!Plus(a, 0)
           /\ Spsc!Minus(b, a) < Size => Spsc!Minus(Spsc!Inc(b), a) = Spsc!Minus(b, a) + 1
           /\ Spsc!Minus(b, a) > 0 => Spsc!Minus(b, Spsc!Inc(a)) = Spsc!Minus(b, a) - 1
           /\ \A k \in 0 .. Size - 1 : /\ Spsc!Plus(a, k) \in Spsc!Word
                                       /\ Spsc!Plus(Spsc!Inc(a), k) = Spsc!Plus(a, k + 1)
  BY DEF Spsc!Parameters, Spsc!Word, Spsc!Inc, Spsc!Plus, Spsc!Minus, Spsc!Slot

(* bounded_spsc_init establishes the invariant of bounded_spsc.h. *)
LEMMA SpscInitially ==
    ASSUME Spsc!Parameters
    PROVE  Spsc!Init => Spsc!SpscInv
<1> SUFFICES ASSUME Spsc!Init PROVE Spsc!SpscInv
  BY Zenon
<1> USE DEF Spsc!Parameters, Spsc!Init
<1>1. Spsc!Types
  BY DEF Spsc!Types, Spsc!Word
<1>2. Spsc!Published = 0 /\ Spsc!Released = 0
  BY DEF Spsc!Published, Spsc!Released
<1>3. Spsc!CountersAgree
  BY <1>2 DEF Spsc!CountersAgree, Spsc!Minus
<1>4. Spsc!SlotsHold
  BY <1>2 DEF Spsc!SlotsHold
<1>5. Spsc!ProducerKnows /\ Spsc!ConsumerKnows
  BY Zenon DEF Spsc!ProducerKnows, Spsc!ConsumerKnows
<1>6. Spsc!DequeuedInOrder
  BY DEF Spsc!DequeuedInOrder
<1> QED BY <1>1, <1>3, <1>4, <1>5, <1>6, Zenon DEF Spsc!SpscInv

(* No step of bounded_spsc_enq or bounded_spsc_deq breaks the invariant,   *)
(* with bounded_spsc.h.orig or when one thread calls both.                 *)
LEMMA SpscKept ==
    ASSUME Spsc!Parameters
    PROVE  (Spsc!Safe => Spsc!SpscInv) /\ [Spsc!Next]_(Spsc!vars) => (Spsc!Safe => Spsc!SpscInv)'
<1> SUFFICES ASSUME Spsc!Safe', Spsc!Safe => Spsc!SpscInv, [Spsc!Next]_(Spsc!vars)
             PROVE  Spsc!SpscInv'
  BY Zenon
<1> USE DEF Spsc!queueVars, Spsc!prodVars, Spsc!consVars, Spsc!vars
<1>1. phead' = phead /\ Spsc!Safe /\ Spsc!SpscInv
  BY Zenon DEF Spsc!Safe, Spsc!Next, Spsc!Producer, Spsc!Consumer, Spsc!EnqReadTail, Spsc!EnqReadHead,
         Spsc!EnqWriteSlot, Spsc!EnqPublish, Spsc!DeqReadHead, Spsc!DeqReadTail,
         Spsc!DeqAdvanceHead, Spsc!DeqReadSlot, Spsc!UsePoint, Spsc!Done
<1>2. /\ Size \in Nat \ {0} /\ SpscModulus \in Nat /\ Points \in Nat /\ Size < SpscModulus
      /\ Null \notin 1 .. Points
  BY Zenon DEF Spsc!Parameters
<1>3. /\ Spsc!Published \in Nat /\ Spsc!Released \in Nat /\ Len(g_ret) \in Nat
      /\ Spsc!Slot(curr) \in 0 .. Size - 1 /\ Spsc!Slot(idx) \in 0 .. Size - 1
  BY <1>1, <1>2 DEF Spsc!SpscInv, Spsc!Types, Spsc!Published, Spsc!Released, Spsc!Slot, Spsc!Word
<1>4. Spsc!Types /\ Spsc!CountersAgree /\ Spsc!SlotsHold /\ Spsc!ProducerKnows
      /\ Spsc!ConsumerKnows /\ Spsc!DequeuedInOrder
  BY <1>1, Zenon DEF Spsc!SpscInv
<1> DEFINE n == Spsc!Published - Spsc!Released
<1>w. /\ chead \in Spsc!Word /\ ptail \in Spsc!Word
      /\ n \in 0 .. Size /\ Spsc!Minus(ptail, chead) = n
      /\ \A k \in 0 .. Size - 1 : Spsc!Plus(chead, k) \in Spsc!Word
  <2>1. chead \in Spsc!Word /\ ptail \in Spsc!Word
    BY <1>4, Zenon DEF Spsc!Types
  <2>2. n \in 0 .. Size /\ Spsc!Minus(ptail, chead) = n
    BY <1>2, <1>3, <1>4 DEF Spsc!CountersAgree
  <2> QED BY <2>1, <2>2, SpscWords, Zenon
<1>5. CASE Spsc!EnqReadTail
  <2> USE <1>5 DEF Spsc!EnqReadTail, Spsc!ProducerMayRun
  <2>1. Spsc!Published' = Spsc!Published /\ Spsc!Released' = Spsc!Released
    BY Zenon DEF Spsc!Published, Spsc!Released
  <2>2. Spsc!Types'
    BY <1>4, Zenon DEF Spsc!Types
  <2>3. Spsc!CountersAgree' /\ Spsc!SlotsHold' /\ Spsc!DequeuedInOrder'
    BY <1>4, <2>1, Zenon DEF Spsc!CountersAgree, Spsc!SlotsHold, Spsc!DequeuedInOrder
  <2>4. Spsc!ProducerKnows' /\ Spsc!ConsumerKnows'
    BY <1>4, <2>1, Zenon DEF Spsc!ProducerKnows, Spsc!ConsumerKnows
  <2> QED BY <2>2, <2>3, <2>4, Zenon DEF Spsc!SpscInv
<1>6. CASE Spsc!EnqReadHead
  <2> USE <1>6 DEF Spsc!EnqReadHead
  <2>1. Spsc!Published' = Spsc!Published /\ Spsc!Released' = Spsc!Released
    BY Zenon DEF Spsc!Published, Spsc!Released
  <2>2. Spsc!Types'
    BY <1>4, Zenon DEF Spsc!Types
  <2>3. Spsc!CountersAgree' /\ Spsc!SlotsHold' /\ Spsc!DequeuedInOrder'
    BY <1>4, <2>1, Zenon DEF Spsc!CountersAgree, Spsc!SlotsHold, Spsc!DequeuedInOrder
  <2>4. pc' = "write" => Spsc!Published < Spsc!Released + Size
    BY <1>2, <1>3, <1>4 DEF Spsc!ProducerKnows, Spsc!CountersAgree
  <2>5. Spsc!ProducerKnows' /\ Spsc!ConsumerKnows'
    BY <1>4, <2>1, <2>4, Zenon DEF Spsc!ProducerKnows, Spsc!ConsumerKnows
  <2> QED BY <2>2, <2>3, <2>5, Zenon DEF Spsc!SpscInv
<1>7. CASE Spsc!EnqWriteSlot
  <2> USE <1>7 DEF Spsc!EnqWriteSlot
  <2>1. Spsc!Published' = Spsc!Published /\ Spsc!Released' = Spsc!Released
    BY Zenon DEF Spsc!Published, Spsc!Released
  <2>2. Spsc!Types'
    BY <1>3, <1>4 DEF Spsc!Types, Spsc!ProducerKnows
  <2>3. Spsc!CountersAgree' /\ Spsc!DequeuedInOrder'
    BY <1>4, <2>1, Zenon DEF Spsc!CountersAgree, Spsc!DequeuedInOrder
  <2>4. ASSUME NEW k \in 0 .. Size - 1, k < Spsc!Published - Spsc!Released
        PROVE  Spsc!Slot(Spsc!Plus(chead, k)) # Spsc!Slot(curr)
    <3> DEFINE d == Spsc!Published - Spsc!Released - k
               a == Spsc!Plus(chead, k)
    <3>1. d \in 1 .. Size - 1 /\ a \in Spsc!Word
      BY <1>2, <1>3, <1>4, <1>w, <2>4 DEF Spsc!ProducerKnows
    <3>2. Spsc!Plus(a, d) = curr
      BY <1>2, <1>3, <1>4, <1>w, <2>4, <3>1
         DEF Spsc!ProducerKnows, Spsc!CountersAgree, Spsc!Plus, Spsc!Minus, Spsc!Word
    <3> QED BY <3>1, <3>2, SpscSlots, Zenon
  <2>5. Spsc!SlotsHold'
    <3> SUFFICES ASSUME NEW k \in 0 .. Size - 1, k < Spsc!Published - Spsc!Released
                 PROVE  buf'[Spsc!Slot(Spsc!Plus(chead, k))] = Spsc!Released + k + 1
      BY <2>1, Zenon DEF Spsc!SlotsHold
    <3>1. Spsc!Plus(chead, k) \in Spsc!Word
      BY <1>4, SpscWords, Zenon DEF Spsc!Types
    <3>2. Spsc!Slot(Spsc!Plus(chead, k)) \in 0 .. Size - 1
      BY <3>1, SpscWords, Zenon
    <3> QED BY <1>4, <2>4, <3>2, Zenon DEF Spsc!SlotsHold, Spsc!Types
  <2>6. Spsc!ProducerKnows'
    BY <1>3, <1>4, <2>1, Zenon DEF Spsc!ProducerKnows, Spsc!Types
  <2>7. Spsc!ConsumerKnows'
    BY <1>1, <1>4, <2>1, Zenon DEF Spsc!ConsumerKnows, Spsc!Safe
  <2> QED BY <2>2, <2>3, <2>5, <2>6, <2>7, Zenon DEF Spsc!SpscInv
<1>8. CASE Spsc!EnqPublish
  <2> USE <1>8 DEF Spsc!EnqPublish
  <2>1. Spsc!Published' = Spsc!Published + 1 /\ Spsc!Released' = Spsc!Released
    BY <1>4 DEF Spsc!Published, Spsc!Released, Spsc!Types
  <2>2. Spsc!Types'
    BY <1>2, <1>4, SpscWords DEF Spsc!Types, Spsc!ProducerKnows
  <2>9. curr = ptail /\ n < Size
    BY <1>2, <1>3, <1>4 DEF Spsc!ProducerKnows
  <2>10. Spsc!Minus(Spsc!Inc(ptail), chead) = n + 1
    BY <1>w, <2>9, SpscWords, Zenon
  <2>3. Spsc!CountersAgree'
    BY <1>2, <1>3, <1>w, <2>1, <2>9, <2>10 DEF Spsc!CountersAgree
  <2>4. Spsc!Plus(chead, n) = curr
    <3>1. ptail = Spsc!Plus(chead, Spsc!Minus(ptail, chead))
      BY <1>w, SpscWords, Zenon
    <3> QED BY <1>w, <2>9, <3>1, Zenon
  <2>5. i = Spsc!Published + 1
    BY <1>4 DEF Spsc!Published, Spsc!Types
  <2>6. Spsc!SlotsHold'
    <3> SUFFICES ASSUME NEW k \in 0 .. Size - 1, k < n + 1
                 PROVE  buf[Spsc!Slot(Spsc!Plus(chead, k))] = Spsc!Released + k + 1
      BY <1>3, <2>1 DEF Spsc!SlotsHold
    <3>1. CASE k = n
      BY <1>3, <1>4, <2>4, <2>5, <3>1 DEF Spsc!ProducerKnows
    <3>2. CASE k < n
      BY <1>4, <3>2, Zenon DEF Spsc!SlotsHold
    <3> QED BY <1>w, <3>1, <3>2
  <2>7. Spsc!ProducerKnows' /\ Spsc!ConsumerKnows' /\ Spsc!DequeuedInOrder'
    BY <1>3, <1>4, <2>1 DEF Spsc!ProducerKnows, Spsc!ConsumerKnows, Spsc!DequeuedInOrder
  <2> QED BY <2>2, <2>3, <2>6, <2>7, Zenon DEF Spsc!SpscInv
<1>9. CASE Spsc!DeqReadHead
  <2> USE <1>9 DEF Spsc!DeqReadHead, Spsc!ConsumerMayRun
  <2>1. Spsc!Published' = Spsc!Published /\ Spsc!Released' = Spsc!Released
    BY Zenon DEF Spsc!Published, Spsc!Released
  <2>2. Spsc!Types'
    BY <1>4, Zenon DEF Spsc!Types
  <2>3. Spsc!CountersAgree' /\ Spsc!SlotsHold' /\ Spsc!DequeuedInOrder'
    BY <1>4, <2>1, Zenon DEF Spsc!CountersAgree, Spsc!SlotsHold, Spsc!DequeuedInOrder
  <2>4. Spsc!ProducerKnows' /\ Spsc!ConsumerKnows'
    BY <1>4, <2>1, Zenon DEF Spsc!ProducerKnows, Spsc!ConsumerKnows
  <2> QED BY <2>2, <2>3, <2>4, Zenon DEF Spsc!SpscInv
<1>10. CASE Spsc!DeqReadTail
  <2> USE <1>10 DEF Spsc!DeqReadTail
  <2>1. Spsc!Published' = Spsc!Published /\ Spsc!Released' = Spsc!Released
        /\ Spsc!Released = Len(g_ret)
    BY Zenon DEF Spsc!Published, Spsc!Released
  <2>2. Spsc!Types'
    BY <1>4, Zenon DEF Spsc!Types
  <2>3. Spsc!CountersAgree' /\ Spsc!SlotsHold' /\ Spsc!DequeuedInOrder'
    BY <1>4, <2>1, Zenon DEF Spsc!CountersAgree, Spsc!SlotsHold, Spsc!DequeuedInOrder
  <2>4. cpc' # "head" => Spsc!Released < Spsc!Published
    BY <1>2, <1>3, <1>4 DEF Spsc!ConsumerKnows, Spsc!CountersAgree, Spsc!Minus, Spsc!Types,
       Spsc!Word
  <2>5. Spsc!ProducerKnows' /\ Spsc!ConsumerKnows'
    BY <1>4, <2>1, <2>4, Zenon DEF Spsc!ProducerKnows, Spsc!ConsumerKnows
  <2> QED BY <2>2, <2>3, <2>5, Zenon DEF Spsc!SpscInv
<1>11. CASE Spsc!DeqAdvanceHead
  <2> USE <1>11 DEF Spsc!DeqAdvanceHead
  <2>1. /\ Spsc!Published' = Spsc!Published /\ Spsc!Released' = Spsc!Released + 1
        /\ Spsc!Released = Len(g_ret) /\ Spsc!Released < Spsc!Published /\ idx = chead
    BY <1>4, Zenon DEF Spsc!Published, Spsc!Released, Spsc!Types, Spsc!ConsumerKnows
  <2>2. Spsc!Types'
    BY <1>4, SpscWords, Zenon DEF Spsc!Types
  <2>3. Spsc!CountersAgree'
    <3>1. Spsc!Minus(ptail, Spsc!Inc(chead)) = n - 1
      BY <1>3, <1>w, <2>1, SpscWords
    <3> QED BY <1>2, <1>3, <1>w, <2>1, <3>1 DEF Spsc!CountersAgree
  <2>4. Spsc!SlotsHold'
    <3> SUFFICES ASSUME NEW k \in 0 .. Size - 1, k < Spsc!Published - (Spsc!Released + 1)
                 PROVE  buf[Spsc!Slot(Spsc!Plus(chead', k))] = Spsc!Released + 1 + k + 1
      BY <2>1, Zenon DEF Spsc!SlotsHold
    <3>1. Spsc!Plus(chead', k) = Spsc!Plus(chead, k + 1)
      BY <1>4, <2>1, SpscWords, Zenon DEF Spsc!Types
    <3>2. k + 1 \in 0 .. Size - 1 /\ k + 1 < Spsc!Published - Spsc!Released
      BY <1>2, <1>3, <1>4 DEF Spsc!CountersAgree
    <3>3. buf[Spsc!Slot(Spsc!Plus(chead, k + 1))] = Spsc!Released + (k + 1) + 1
      BY <1>4, <3>2, Zenon DEF Spsc!SlotsHold
    <3> QED BY <1>3, <3>1, <3>3
  <2>5. buf[Spsc!Slot(idx)] = Len(g_ret) + 1
    <3>1. Spsc!Plus(chead, 0) = chead
      BY <1>4, SpscWords, Zenon DEF Spsc!Types
    <3>2. 0 \in 0 .. Size - 1 /\ 0 < Spsc!Published - Spsc!Released
      BY <1>2, <1>3, <2>1
    <3> QED BY <1>3, <1>4, <2>1, <3>1, <3>2 DEF Spsc!SlotsHold
  <2>6. Spsc!ProducerKnows'
    BY <1>2, <1>3, <1>4, <2>1 DEF Spsc!ProducerKnows
  <2>7. Spsc!ConsumerKnows'
    BY <1>1, <1>4, <2>1, <2>5, Zenon DEF Spsc!ConsumerKnows
  <2>8. Spsc!DequeuedInOrder'
    BY <1>4, Zenon DEF Spsc!DequeuedInOrder
  <2> QED BY <2>2, <2>3, <2>4, <2>6, <2>7, <2>8, Zenon DEF Spsc!SpscInv
<1>12. CASE Spsc!DeqReadSlot
  <2> USE <1>12 DEF Spsc!DeqReadSlot
  <2>1. Spsc!Published' = Spsc!Published /\ Spsc!Released' = Spsc!Released
    BY <1>1, Zenon DEF Spsc!Published, Spsc!Released
  <2>2. Spsc!Types'
    BY <1>4, Zenon DEF Spsc!Types
  <2>3. Spsc!CountersAgree' /\ Spsc!SlotsHold' /\ Spsc!DequeuedInOrder'
    BY <1>4, <2>1, Zenon DEF Spsc!CountersAgree, Spsc!SlotsHold, Spsc!DequeuedInOrder
  <2>4. r' = Len(g_ret) + 1
    <3>1. CASE phead.orig
      <4>1. Spsc!Released = Len(g_ret) /\ idx = chead /\ Spsc!Released < Spsc!Published
        BY <1>4, <3>1, Zenon DEF Spsc!Released, Spsc!ConsumerKnows
      <4>2. Spsc!Plus(chead, 0) = chead
        BY <1>4, SpscWords, Zenon DEF Spsc!Types
      <4>3. 0 \in 0 .. Size - 1 /\ 0 < Spsc!Published - Spsc!Released
        BY <1>2, <1>3, <4>1
      <4> QED BY <1>3, <1>4, <4>1, <4>2, <4>3 DEF Spsc!SlotsHold
    <3>2. CASE ~phead.orig
      BY <1>4, <3>2, Zenon DEF Spsc!ConsumerKnows
    <3> QED BY <3>1, <3>2, Zenon
  <2>5. Spsc!ProducerKnows' /\ Spsc!ConsumerKnows'
    BY <1>1, <1>4, <2>1, <2>4, Zenon DEF Spsc!ProducerKnows, Spsc!ConsumerKnows
  <2> QED BY <2>2, <2>3, <2>5, Zenon DEF Spsc!SpscInv
<1>13. CASE Spsc!UsePoint
  <2> USE <1>13 DEF Spsc!UsePoint
  <2>1. r = Len(g_ret) + 1 /\ r \in 1 .. Points
    BY <1>2, <1>3, <1>4 DEF Spsc!ConsumerKnows
  <2>2. /\ g_ret' \in Seq(1 .. Points \cup {Null}) /\ Len(g_ret') = Len(g_ret) + 1
        /\ \A k \in 1 .. Len(g_ret') : g_ret'[k] = IF k = Len(g_ret) + 1 THEN r ELSE g_ret[k]
    BY <1>3, <1>4, <2>1 DEF Spsc!Types
  <2>3. Spsc!Published' = Spsc!Published /\ Spsc!Released' = Spsc!Released
    BY <2>2, Zenon DEF Spsc!Published, Spsc!Released
  <2>4. Spsc!Types'
    BY <1>4, <2>2, Zenon DEF Spsc!Types
  <2>5. Spsc!CountersAgree' /\ Spsc!SlotsHold'
    BY <1>4, <2>3, Zenon DEF Spsc!CountersAgree, Spsc!SlotsHold
  <2>6. Spsc!ProducerKnows' /\ Spsc!ConsumerKnows'
    BY <1>4, <2>3, Zenon DEF Spsc!ProducerKnows, Spsc!ConsumerKnows
  <2>7. Spsc!DequeuedInOrder'
    BY <1>3, <1>4, <2>1, <2>2 DEF Spsc!DequeuedInOrder
  <2> QED BY <2>4, <2>5, <2>6, <2>7, Zenon DEF Spsc!SpscInv
<1>14. CASE Spsc!Done \/ UNCHANGED Spsc!vars
  <2>1. UNCHANGED Spsc!vars
    BY <1>14, Zenon DEF Spsc!Done
  <2>2. Spsc!Published' = Spsc!Published /\ Spsc!Released' = Spsc!Released
    BY <2>1, Zenon DEF Spsc!Published, Spsc!Released
  <2>3. Spsc!Types' /\ Spsc!DequeuedInOrder'
    BY <1>4, <2>1, Zenon DEF Spsc!Types, Spsc!DequeuedInOrder
  <2>4. Spsc!CountersAgree' /\ Spsc!SlotsHold'
    BY <1>4, <2>1, <2>2, Zenon DEF Spsc!CountersAgree, Spsc!SlotsHold
  <2>5. Spsc!ProducerKnows' /\ Spsc!ConsumerKnows'
    BY <1>4, <2>1, <2>2, Zenon DEF Spsc!ProducerKnows, Spsc!ConsumerKnows
  <2> QED BY <2>3, <2>4, <2>5, Zenon DEF Spsc!SpscInv
<1> QED
  BY <1>5, <1>6, <1>7, <1>8, <1>9, <1>10, <1>11, <1>12, <1>13, <1>14
     DEF Spsc!Next, Spsc!Producer, Spsc!Consumer

(* bounded_spsc.c:48-52 hold wherever the invariant does. *)
LEMMA SpscAsserts == 
    ASSUME Spsc!Parameters PROVE Spsc!SpscInv => Spsc!PointIsLive
<1> SUFFICES ASSUME Spsc!SpscInv, cpc = "use"
             PROVE  r # Null /\ \A k \in 1 .. Len(g_ret) : g_ret[k] # r
  BY Zenon DEF Spsc!PointIsLive
<1>1. r = Len(g_ret) + 1 /\ Len(g_ret) < Points /\ Len(g_ret) \in Nat
  BY DEF Spsc!SpscInv, Spsc!Types, Spsc!ConsumerKnows
<1>2. \A k \in 1 .. Len(g_ret) : g_ret[k] = k
  BY Zenon DEF Spsc!SpscInv, Spsc!DequeuedInOrder
<1> QED BY <1>1, <1>2 DEF Spsc!Parameters
-----------------------------------------------------------------------------
(* bounded_mpmc_check_empty.c over bounded_mpmc.h.orig, or over            *)
(* bounded_mpmc.h with one writer.                                         *)
Mpmc == INSTANCE BoundedMpmc

(* bounded_mpmc.h with one writer, and with bounded_mpmc_check_full.c; and *)
(* bounded_mpmc.h.orig with one reader, whose counters wrap: a writer      *)
(* makes fewer calls than it takes to go round.                            *)
MpmcOne == INSTANCE BoundedMpmc
    WITH Writers <- {w1}, Values <- 4, Size <- 2, Modulus <- 8, Orig <- FALSE
MpmcFull == INSTANCE BoundedMpmc
    WITH Readers <- {}, Values <- 3, Size <- 6, Modulus <- 8, Orig <- FALSE
MpmcWrap == INSTANCE BoundedMpmc
    WITH Readers <- {r1}, Values <- 3, Size <- 2, Modulus <- 4, Orig <- TRUE

(* buf_ring.h with one slot, whose counters wrap, and with three threads.  *)
Ring == INSTANCE BufRing
    WITH prod_head <- phead, prod_tail <- ptail, cons_head <- chead, cons_tail <- ctail,
         ring <- buf, consumed <- g_cs_x, dropped <- g_ret,
         loop <- i, head <- curr, buf <- r, Threads <- {t1, t2},
         Loops <- 3, Size <- 1, Modulus <- 4, BugFix1 <- TRUE, BugFix2 <- TRUE, Junk <- Null
Ring3 == INSTANCE BufRing
    WITH prod_head <- phead, prod_tail <- ptail, cons_head <- chead, cons_tail <- ctail,
         ring <- buf, consumed <- g_cs_x, dropped <- g_ret,
         loop <- i, head <- curr, buf <- r,
         Loops <- 1, Size <- 2, Modulus <- 4, BugFix1 <- TRUE, BugFix2 <- TRUE, Junk <- Null

(* What the proofs ask of the constants. *)
ASSUME QueueParameters == Spsc!Parameters /\ Cached!Parameters

OnMpmc == which \in {"mpmc", "mpmc_one", "mpmc_full", "mpmc_wrap"}
OnRing == which \in {"ring", "ring3"}

SpscKeeps == UNCHANGED <<which, ctail, g_cs_x>>
MpmcKeeps == UNCHANGED <<which, cpc>>
CachedKeeps == UNCHANGED <<which, ctail, g_ret, cpc>>
RingKeeps == UNCHANGED <<which, cpc, idx>>
Spare(v) == v = "spare"

Init ==
    /\ \/ which = "spsc" /\ Spsc!Init
       \/ which = "mpmc" /\ Mpmc!Init
       \/ which = "mpmc_one" /\ MpmcOne!Init
       \/ which = "mpmc_full" /\ MpmcFull!Init
       \/ which = "mpmc_wrap" /\ MpmcWrap!Init
       \/ which = "cached" /\ Cached!Init
       \/ which = "ring" /\ Ring!Init
       \/ which = "ring3" /\ Ring3!Init
    /\ which = "spsc" => Spare(ctail) /\ Spare(g_cs_x)
    /\ OnMpmc => Spare(cpc)
    /\ which = "cached" => Spare(ctail) /\ Spare(g_ret) /\ Spare(cpc)
    /\ OnRing => Spare(cpc) /\ Spare(idx)

SpscNext == which = "spsc" /\ Spsc!Next /\ SpscKeeps
MpmcNext == which = "mpmc" /\ Mpmc!Next /\ MpmcKeeps
MpmcOneNext == which = "mpmc_one" /\ MpmcOne!Next /\ MpmcKeeps
MpmcFullNext == which = "mpmc_full" /\ MpmcFull!Next /\ MpmcKeeps
MpmcWrapNext == which = "mpmc_wrap" /\ MpmcWrap!Next /\ MpmcKeeps
CachedNext == which = "cached" /\ Cached!Next /\ CachedKeeps
RingNext == which = "ring" /\ Ring!Next /\ RingKeeps
Ring3Next == which = "ring3" /\ Ring3!Next /\ RingKeeps

Next ==
    \/ SpscNext
    \/ MpmcNext \/ MpmcOneNext \/ MpmcFullNext \/ MpmcWrapNext
    \/ CachedNext \/ RingNext \/ Ring3Next

Spec == Init /\ [][Next]_vars

(* The producer and the consumer of bounded_spsc.h are not the same thread.*)
TwoThreads == ~phead.same_thread

(* No thread of the tests stops for ever inside its loop.                  *)
Produce == which = "spsc" /\ TwoThreads /\ Spsc!Producer /\ SpscKeeps
Consume == which = "spsc" /\ TwoThreads /\ Spsc!Consumer /\ SpscKeeps
Write(t) == which = "mpmc" /\ Mpmc!Write(t) /\ MpmcKeeps
Read(t) == which = "mpmc" /\ Mpmc!Read(t) /\ MpmcKeeps
CachedStep(t) == which = "cached" /\ Cached!Step(t) /\ CachedKeeps
RingStep(t) ==
    /\ \/ which = "ring" /\ t \in {t1, t2} /\ Ring!Step(t)
       \/ which = "ring3" /\ Ring3!Step(t)
    /\ RingKeeps

FairSpec ==
    /\ Spec
    /\ WF_vars(Produce) /\ WF_vars(Consume)
    /\ \A t \in Writers : WF_vars(Write(t))
    /\ \A t \in Readers : WF_vars(Read(t))
    /\ \A t \in Writers \cup Consumers : WF_vars(CachedStep(t))
    /\ \A t \in Threads : WF_vars(RingStep(t))
-----------------------------------------------------------------------------
(* The consumer gets the points in the order they were enqueued, none      *)
(* twice, none missing; with bounded_spsc.h at least when one thread calls *)
(* both operations.  A dequeue of cachedq.h gets the entry that was stored *)
(* for each position it reserved, however old the tails it decided on.     *)
DequeuedInOrder ==
    /\ which = "spsc" => (Spsc!Safe => Spsc!DequeuedInOrder)
    /\ which = "cached" => Cached!EntriesInOrder

(* What the tests assert of the original queues: bounded_spsc.c:48-52, a   *)
(* point is neither NULL nor freed before; bounded_mpmc_check_empty.c:87,  *)
(* 89 and 129-135, every value is read, and by one reader once; of         *)
(* bounded_mpmc.h bounded_mpmc_check_full.c:78-93; and of the fixed ring   *)
(* test.c:80-81, no message is dequeued twice, and none is lost either.    *)
TestAsserts ==
    /\ which = "spsc" => (Spsc!Safe => Spsc!PointIsLive)
    /\ which = "mpmc" => Mpmc!ReaderAsserts /\ Mpmc!NoDuplicates /\ Mpmc!MainAssertsEmpty
    /\ which = "mpmc_wrap" => MpmcWrap!NoDuplicates /\ MpmcWrap!MainAssertsEmpty
    /\ which = "mpmc_full" => MpmcFull!MainAssertsFull
    /\ which = "ring" => Ring!ConsumedAtMostOnce /\ Ring!NothingLost
    /\ which = "ring3" => Ring3!ConsumedAtMostOnce /\ Ring3!NothingLost

(* The mpmc queue is a bounded FIFO queue: a value is in it from the       *)
(* moment ptail passes its slot until chead does, whatever the other calls *)
(* under way have done; with bounded_mpmc.h when there is one writer.  So  *)
(* is the fixed ring, where an enqueue takes effect when it advances       *)
(* prod_tail and a dequeue when it advances cons_head, and no slot changes *)
(* between that and the read of it.                                        *)
IsBoundedFifo ==
    /\ which = "mpmc" => Mpmc!Fifo!Init
    /\ which = "mpmc_one" => MpmcOne!Fifo!Init
    /\ which = "mpmc_wrap" => MpmcWrap!Fifo!Init
    /\ which = "ring" => Ring!Fifo!Init
    /\ which = "ring3" => Ring3!Fifo!Init
    /\ [][/\ which = "mpmc" => Mpmc!Fifo!Step
          /\ which = "mpmc_one" => MpmcOne!Fifo!Step
          /\ which = "mpmc_wrap" => MpmcWrap!Fifo!Step
          /\ which = "ring" => Ring!Fifo!Step
          /\ which = "ring3" => Ring3!Fifo!Step]_vars

(* The tests end: no full or empty queue is reported for ever, no call     *)
(* waits for ever for an earlier one to publish its slot.                  *)
Termination ==
    <>(CASE which = "spsc" -> TwoThreads => Spsc!AllDone
         [] which = "mpmc" -> Mpmc!AllDone
         [] which = "cached" -> Cached!AllDone
         [] which = "ring" -> Ring!AllDone
         [] which = "ring3" -> Ring3!AllDone
         [] OTHER -> TRUE)
-----------------------------------------------------------------------------
(* A behaviour of one queue keeps the invariant of that queue.             *)
QueuesInv ==
    /\ which = "spsc" => (Spsc!Safe => Spsc!SpscInv)
    /\ which = "cached" => Cached!CachedInv

(* A step of a behaviour is one of its queue.                              *)
LEMMA OneQueue ==
    ASSUME [Next]_vars
    PROVE  /\ which' = which
           /\ which = "spsc" => [Spsc!Next]_(Spsc!vars)
           /\ which = "cached" => [Cached!Next]_(Cached!vars)
<1> USE DEF Next, vars, SpscNext, MpmcNext, MpmcOneNext, MpmcFullNext, MpmcWrapNext, CachedNext,
           RingNext, Ring3Next
<1>1. which' = which
  BY DEF SpscKeeps, MpmcKeeps, CachedKeeps, RingKeeps
<1>2. which = "spsc" => [Spsc!Next]_(Spsc!vars)
  BY Zenon DEF Spsc!vars, Spsc!queueVars, Spsc!prodVars, Spsc!consVars
<1>3. which = "cached" => [Cached!Next]_(Cached!vars)
  BY Zenon DEF Cached!vars, Cached!queue
<1> QED BY <1>1, <1>2, <1>3, Zenon

(* The invariant holds in every state of bounded_spsc.h and cachedq.h, for *)
(* every number of slots, points, threads, calls and entries of a call.    *)
LEMMA QueuesInvariant == Spec => []QueuesInv
<1>1. Init => QueuesInv
  <2> SUFFICES ASSUME Init PROVE QueuesInv
    OBVIOUS
  <2>1. which = "spsc" => Spsc!Init
    BY Zenon DEF Init
  <2>2. which = "cached" => Cached!Init
    BY Zenon DEF Init
  <2> QED BY <2>1, <2>2, QueueParameters, SpscInitially, CachedInitially, Zenon DEF QueuesInv
<1>2. QueuesInv /\ [Next]_vars => QueuesInv'
  <2> SUFFICES ASSUME QueuesInv, [Next]_vars PROVE QueuesInv'
    OBVIOUS
  <2>1. which = "spsc" => (Spsc!Safe => Spsc!SpscInv)'
    BY OneQueue, QueueParameters, SpscKept, Zenon DEF QueuesInv
  <2>2. which = "cached" => Cached!CachedInv'
    BY OneQueue, QueueParameters, CachedKept, Zenon DEF QueuesInv
  <2>3. which' = which
    BY OneQueue, Zenon
  <2> QED BY <2>1, <2>2, <2>3, Zenon DEF QueuesInv
<1> QED BY <1>1, <1>2, PTL DEF Spec

(* The consumer of bounded_spsc.h gets the points in the order they were   *)
(* enqueued and a dequeue of cachedq.h the entries of its positions, for   *)
(* every value of the constants.                                           *)
THEOREM QueuesInOrder == Spec => []DequeuedInOrder
<1>1. QueuesInv => DequeuedInOrder
  BY Zenon DEF QueuesInv, DequeuedInOrder, Spsc!SpscInv, Cached!CachedInv
<1> QED BY <1>1, QueuesInvariant, PTL

(* The assertions bounded_spsc.c:48-52 never fail: a dequeued point is not *)
(* NULL and was not freed before, for every number of points and of slots. *)
THEOREM SpscTestPasses == Spec /\ which = "spsc" => []TestAsserts
<1>1. QueuesInv /\ which = "spsc" => TestAsserts
  BY QueueParameters, SpscAsserts, Zenon DEF QueuesInv, TestAsserts
<1>2. which = "spsc" /\ [Next]_vars => (which = "spsc")'
  BY OneQueue, Zenon
<1> QED BY <1>1, <1>2, QueuesInvariant, PTL DEF Spec
=============================================================================
