----------------------------- MODULE LockProofs -----------------------------
(***************************************************************************)
(* The queue locks clhlock.h and mcslock.h, the recursive lock and the two *)
(* flat locks caslock.h and ttaslock.h, for any set of threads: the        *)
(* inductive invariant of each, what it implies, and that the steps of the *)
(* lock are those of FifoMutex or Mutex; and that a FIFO lock is a lock.   *)
(* MCLocks composes these locks.                                           *)
(***************************************************************************)
EXTENDS Integers, FiniteSets, Sequences, TLAPS

CONSTANTS
    Threads, Null,
    Many,                       \* threads of the flat locks
    Initial,                    \* clhlock.h
    MaxDepth                    \* recursive_lock.h

VARIABLES
    tail, locked, order,        \* mcslock.h, clhlock.h
    next, other,                \* mcslock.h
    qnode, pred,                \* clhlock.h
    base, owner, count, depth,  \* recursive_lock.h
    lock,                       \* caslock.h, ttaslock.h
    queue, held,                \* FifoMutex
    pc

(* The two ways the queue of a lock changes: a thread at its end ...       *)
LEMMA Appended ==
    ASSUME NEW S, NEW s \in Seq(S), NEW e \in S
    PROVE  /\ Append(s, e) \in Seq(S) /\ Append(s, e) # <<>>
           /\ Len(Append(s, e)) = Len(s) + 1
           /\ Append(s, e)[Len(s) + 1] = e
           /\ \A i \in 1 .. Len(s) : Append(s, e)[i] = s[i]
OBVIOUS

(* ... and its head gone.                                                  *)
LEMMA Removed ==
    ASSUME NEW S, NEW s \in Seq(S), s # <<>>
    PROVE  /\ Tail(s) \in Seq(S) /\ Len(Tail(s)) = Len(s) - 1
           /\ \A i \in 1 .. Len(s) - 1 : Tail(s)[i] = s[i + 1]
           /\ Len(s) \in Nat \ {0} /\ Head(s) = s[1]
OBVIOUS

Mcs == INSTANCE McsLock

(* mcslock_init leaves an empty queue.                                     *)
LEMMA McsInit == Mcs!Init => Mcs!McsInv
<1>. SUFFICES ASSUME Mcs!Init PROVE Mcs!McsInv
  OBVIOUS
<1>1. order = <<>> /\ Len(order) = 0 /\ order \in Seq(Threads)
  BY DEF Mcs!Init
<1>2. Mcs!TypeOK
  BY <1>1 DEF Mcs!Init, Mcs!TypeOK
<1>. QED
  BY <1>1, <1>2 DEF Mcs!Init, Mcs!McsInv, Mcs!Releasing, Mcs!InQueue, Mcs!CallOK

(* A thread that is through, or whose locked is cleared, is the first of   *)
(* the queue.                                                              *)
LEMMA McsHead ==
    ASSUME Mcs!McsInv, NEW t \in Threads,
           pc[t] \in {"cs"} \cup Mcs!Releasing \/ (pc[t] = "await" /\ locked[t] = 0)
    PROVE  order # <<>> /\ t = order[1] /\ t = Head(order)
<1>1. PICK i \in 1 .. Len(order) : order[i] = t
  BY DEF Mcs!McsInv, Mcs!InQueue
<1>2. i = 1
  BY <1>1 DEF Mcs!McsInv, Mcs!TypeOK, Mcs!Releasing, Mcs!PlaceOK
<1>. QED
  BY <1>1, <1>2 DEF Mcs!McsInv, Mcs!TypeOK

(* So the thread between acquire and the end of release is the only one    *)
(* there.                                                                  *)
LEMMA McsHolder ==
    ASSUME Mcs!McsInv, NEW t \in Threads, t \in Mcs!Holding
    PROVE  order # <<>> /\ t = order[1] /\ t = Head(order) /\ Mcs!Holding = {t}
<1>. QED
  BY McsHead DEF Mcs!Holding

(* The access to tail, by acquire or by a tryacquire that succeeds, adds   *)
(* the thread at the end of the queue.                                     *)
LEMMA McsEnter ==
    ASSUME Mcs!Parameters, Mcs!McsInv, NEW t \in Threads, pc[t] \in {"xchg", "try"},
           order' = Append(order, t), tail' = t,
           pc' = [pc EXCEPT ![t] = IF tail = Null THEN "cs" ELSE "link"],
           tail # Null => other' = [other EXCEPT ![t] = tail],
           other' \in [Threads -> Threads \cup {Null}],
           \A u \in Threads \ {t} : other'[u] = other[u],
           UNCHANGED <<next, locked>>
    PROVE  Mcs!McsInv'
<1>. DEFINE n == Len(order)
<1>1. /\ order' \in Seq(Threads) /\ order' # <<>> /\ Len(order') = n + 1
      /\ order'[n + 1] = t /\ (\A i \in 1 .. n : order'[i] = order[i]) /\ n \in Nat
      /\ \A i \in 1 .. n : order[i] \in Threads
  BY Appended DEF Mcs!McsInv, Mcs!TypeOK
<1>2. Mcs!TypeOK'
  BY <1>1, Zenon DEF Mcs!McsInv, Mcs!TypeOK
<1>3. \A i \in 1 .. n : order[i] # t
  BY DEF Mcs!McsInv, Mcs!Releasing, Mcs!InQueue
<1>4. \A i, j \in 1 .. Len(order') : order'[i] = order'[j] => i = j
  BY <1>1, <1>3 DEF Mcs!McsInv
<1>5. tail = Null <=> n = 0
  BY <1>1 DEF Mcs!Parameters, Mcs!McsInv, Mcs!TypeOK
<1>6. \A u \in Threads : u # t => pc'[u] = pc[u]
  BY DEF Mcs!McsInv, Mcs!TypeOK
<1>7. pc'[t] = IF n = 0 THEN "cs" ELSE "link"
  BY <1>5 DEF Mcs!McsInv, Mcs!TypeOK
<1>8. ASSUME NEW u \in Threads
      PROVE  Mcs!InQueue(u)' <=> pc'[u] \in {"link", "await", "cs"} \cup Mcs!Releasing
  <2>1. CASE u = t
    BY <2>1, <1>1, <1>7 DEF Mcs!InQueue
  <2>2. CASE u # t
    <3>1. 1 .. n + 1 = 1 .. n \cup {n + 1}
      BY <1>1
    <3>2. Mcs!InQueue(u)' <=> Mcs!InQueue(u)
      BY <3>1, <2>2, <1>1 DEF Mcs!InQueue
    <3>. QED
      BY <3>2, <2>2, <1>6 DEF Mcs!McsInv
  <2>. QED
    BY <2>1, <2>2
<1>9. ASSUME NEW i \in 1 .. Len(order') PROVE Mcs!PlaceOK(i)'
  <2>1. CASE i = n + 1
    <3>1. next'[t] = Null /\ locked'[t] = 1
      BY DEF Mcs!McsInv, Mcs!CallOK
    <3>2. i > 1 => other'[t] = order'[n]
      BY <2>1, <1>1, <1>5 DEF Mcs!McsInv, Mcs!TypeOK
    <3>. QED
      BY <2>1, <3>1, <3>2, <1>1, <1>7 DEF Mcs!PlaceOK
  <2>2. CASE i = n
    <3>1. pc'[order'[i + 1]] = "link" /\ order'[i] = order[i] /\ pc'[order[i]] = pc[order[i]]
          /\ other'[order[i]] = other[order[i]]
      BY <2>2, <1>1, <1>3, <1>6, <1>7
    <3>2. next[order[i]] = Null
      BY <2>2, <1>1 DEF Mcs!McsInv, Mcs!PlaceOK
    <3>3. i > 1 => order'[i - 1] = order[i - 1]
      BY <2>2, <1>1
    <3>. QED
      BY <2>2, <3>1, <3>2, <3>3, <1>1 DEF Mcs!McsInv, Mcs!PlaceOK
  <2>3. CASE i < n
    <3>1. /\ order'[i] = order[i] /\ order'[i + 1] = order[i + 1]
          /\ pc'[order[i]] = pc[order[i]] /\ pc'[order[i + 1]] = pc[order[i + 1]]
          /\ other'[order[i]] = other[order[i]]
      BY <2>3, <1>1, <1>3, <1>6
    <3>2. i > 1 => order'[i - 1] = order[i - 1]
      BY <2>3, <1>1
    <3>. QED
      BY <2>3, <3>1, <3>2, <1>1 DEF Mcs!McsInv, Mcs!PlaceOK
  <2>. QED
    BY <2>1, <2>2, <2>3, <1>1
<1>10. ASSUME NEW u \in Threads PROVE Mcs!CallOK(u)'
  BY <1>1, <1>6, <1>7 DEF Mcs!McsInv, Mcs!CallOK
<1>11. tail' = order'[Len(order')]
  BY <1>1
<1>. QED
  BY <1>1, <1>2, <1>4, <1>8, <1>9, <1>10, <1>11 DEF Mcs!McsInv, Mcs!Releasing

(* The last write of a release, to tail or to the successor, removes the   *)
(* head and lets the next one in.                                          *)
LEMMA McsLeave ==
    ASSUME Mcs!McsInv, NEW t \in Threads, pc[t] \in {"rel_cas", "rel_grant"},
           order' = Tail(order), pc' = [pc EXCEPT ![t] = "idle"],
           UNCHANGED <<next, other>>,
           \/ pc[t] = "rel_cas" /\ tail = t /\ tail' = Null /\ UNCHANGED locked
           \/ pc[t] = "rel_grant" /\ locked' = [locked EXCEPT ![other[t]] = 0]
              /\ UNCHANGED tail
    PROVE  Mcs!McsInv'
<1>. DEFINE n == Len(order)
<1>1. t \in Mcs!Holding
  BY DEF Mcs!Holding, Mcs!Releasing
<1>2. order[1] = t /\ order # <<>> /\ Mcs!Holding = {t}
  BY <1>1, McsHolder
<1>3. /\ order' \in Seq(Threads) /\ Len(order') = n - 1 /\ n \in Nat \ {0}
      /\ \A i \in 1 .. n - 1 : order'[i] = order[i + 1]
      /\ \A i \in 1 .. n : order[i] \in Threads
  BY <1>2, Removed DEF Mcs!McsInv, Mcs!TypeOK
<1>4. \A i \in 1 .. n : order[i] = t => i = 1
  BY <1>2, <1>3 DEF Mcs!McsInv
<1>5. \A u \in Threads : u # t => pc'[u] = pc[u]
  BY DEF Mcs!McsInv, Mcs!TypeOK
<1>6. pc'[t] = "idle"
  BY DEF Mcs!McsInv, Mcs!TypeOK
<1>7. pc[t] = "rel_cas" => n = 1
  <2>. SUFFICES ASSUME pc[t] = "rel_cas" PROVE n = 1
    OBVIOUS
  <2>1. tail = t /\ order[n] = t /\ n \in 1 .. n
    BY <1>2, <1>3 DEF Mcs!McsInv
  <2>. QED
    BY <2>1, <1>4
<1>8. pc[t] = "rel_grant" => n > 1 /\ other[t] = order[2] /\ pc[order[2]] = "await"
  BY <1>2, <1>3 DEF Mcs!McsInv, Mcs!PlaceOK, Mcs!CallOK
<1>9. Mcs!TypeOK'
  <2>1. locked' \in [Threads -> {0, 1}]
    BY DEF Mcs!McsInv, Mcs!TypeOK
  <2>2. tail' \in Threads \cup {Null}
    BY DEF Mcs!McsInv, Mcs!TypeOK
  <2>. QED
    BY <2>1, <2>2, <1>3, Zenon DEF Mcs!McsInv, Mcs!TypeOK
<1>10. tail' = IF order' = <<>> THEN Null ELSE order'[Len(order')]
  <2>1. CASE pc[t] = "rel_cas"
    BY <2>1, <1>3, <1>7
  <2>2. CASE pc[t] = "rel_grant"
    <3>0. n > 1 /\ tail' = tail /\ tail = order[n]
      BY <2>2, <1>2, <1>8 DEF Mcs!McsInv
    <3>1. n > 1 /\ tail' = order[n] /\ order' # <<>>
      <4>1. order' = <<>> => Len(order') = 0
        BY Zenon
      <4>. QED
        BY <3>0, <4>1, <1>3
    <3>2. order'[n - 1] = order[(n - 1) + 1]
      BY <3>1, <1>3
    <3>. QED
      BY <3>1, <3>2, <1>3
  <2>. QED
    BY <2>1, <2>2
<1>11. \A i, j \in 1 .. Len(order') : order'[i] = order'[j] => i = j
  BY <1>2, <1>3 DEF Mcs!McsInv
<1>12. ASSUME NEW u \in Threads
       PROVE  Mcs!InQueue(u)' <=> pc'[u] \in {"link", "await", "cs"} \cup Mcs!Releasing
  <2>1. CASE u = t
    BY <2>1, <1>2, <1>3, <1>4, <1>6 DEF Mcs!Releasing, Mcs!InQueue
  <2>2. CASE u # t
    <3>1. ASSUME NEW i \in 1 .. n, order[i] = u PROVE Mcs!InQueue(u)'
      <4>. DEFINE j == i - 1
      <4>1. j \in 1 .. n - 1 /\ order'[j] = order[i]
        BY <3>1, <2>2, <1>2, <1>3
      <4>. HIDE DEF j
      <4>. QED
        BY <3>1, <4>1, <1>3 DEF Mcs!InQueue
    <3>2. Mcs!InQueue(u)' => Mcs!InQueue(u)
      BY <1>2, <1>3 DEF Mcs!InQueue
    <3>3. Mcs!InQueue(u)' <=> Mcs!InQueue(u)
      BY <3>1, <3>2 DEF Mcs!InQueue
    <3>. QED
      BY <3>3, <2>2, <1>5 DEF Mcs!McsInv
  <2>. QED
    BY <2>1, <2>2
<1>13. ASSUME NEW i \in 1 .. Len(order') PROVE Mcs!PlaceOK(i)'
  <2>1. /\ i + 1 \in 2 .. n /\ order'[i] = order[i + 1] /\ pc'[order[i + 1]] = pc[order[i + 1]]
        /\ n > 1 /\ pc[t] = "rel_grant" /\ Mcs!PlaceOK(i + 1)
    BY <1>2, <1>3, <1>4, <1>5, <1>7 DEF Mcs!McsInv
  <2>2. i < n - 1 => /\ order'[i + 1] = order[(i + 1) + 1]
                     /\ pc'[order'[i + 1]] = pc[order[(i + 1) + 1]]
    BY <1>2, <1>3, <1>4, <1>5
  <2>3. i > 1 => order'[i - 1] = order[(i + 1) - 1]
    BY <1>2, <1>3
  <2>4. i > 1 => locked'[order[i + 1]] = locked[order[i + 1]]
    BY <2>1, <1>2, <1>3, <1>8 DEF Mcs!McsInv, Mcs!TypeOK
  <2>5. i = 1 => locked'[order[i + 1]] = 0
    BY <2>1, <1>2, <1>3, <1>8 DEF Mcs!McsInv, Mcs!TypeOK
  <2>6. next'[order'[i]] =
             IF i < n - 1 /\ pc'[order'[i + 1]] # "link" THEN order'[i + 1] ELSE Null
    BY <2>1, <2>2, <1>2 DEF Mcs!PlaceOK
  <2>. QED
    BY <2>1, <2>3, <2>4, <2>5, <2>6, <1>2, <1>3, <1>8 DEF Mcs!PlaceOK
<1>14. ASSUME NEW u \in Threads PROVE Mcs!CallOK(u)'
  <2>1. pc'[u] \in {"xchg", "try"} => next'[u] = Null /\ locked'[u] = 1
    BY <1>5, <1>6, <1>8 DEF Mcs!McsInv, Mcs!TypeOK, Mcs!CallOK
  <2>2. pc'[u] \notin Mcs!Releasing
    BY <1>2, <1>5, <1>6 DEF Mcs!Holding, Mcs!Releasing
  <2>. QED
    BY <2>1, <2>2 DEF Mcs!Releasing, Mcs!CallOK
<1>. QED
  BY <1>9, <1>10, <1>11, <1>12, <1>13, <1>14 DEF Mcs!McsInv, Mcs!Releasing

(* Every access of mcslock.h keeps the queue in order, whatever links are  *)
(* still missing.                                                          *)
LEMMA McsStep == ASSUME Mcs!Parameters PROVE Mcs!McsInv /\ [Mcs!Next]_(Mcs!vars) => Mcs!McsInv'
<1>. SUFFICES ASSUME Mcs!McsInv, [Mcs!Next]_(Mcs!vars) PROVE Mcs!McsInv'
  OBVIOUS
<1>. USE DEF Mcs!Goto
<1>0. Mcs!TypeOK /\ Len(order) \in Nat /\ \A i \in 1 .. Len(order) : order[i] \in Threads
  BY DEF Mcs!McsInv, Mcs!TypeOK
<1>a. ASSUME NEW t \in Threads, order' = order, tail' = tail, Mcs!TypeOK',
             \A u \in Threads : u # t => pc'[u] = pc[u],
             Mcs!InQueue(t) <=> pc'[t] \in {"link", "await", "cs"} \cup Mcs!Releasing,
             \A i \in 1 .. Len(order) : Mcs!PlaceOK(i)', \A u \in Threads : Mcs!CallOK(u)'
      PROVE  Mcs!McsInv'
  BY <1>a DEF Mcs!McsInv, Mcs!InQueue, Mcs!Releasing
<1>1. ASSUME NEW t \in Threads, Mcs!InitNode(t) PROVE Mcs!McsInv'
  <2>1. Mcs!TypeOK'
    BY <1>0, <1>1 DEF Mcs!InitNode, Mcs!TypeOK
  <2>2. ~Mcs!InQueue(t) /\ pc'[t] \in {"xchg", "try"} /\ \A u \in Threads : u # t => pc'[u] = pc[u]
    BY <1>0, <1>1 DEF Mcs!InitNode, Mcs!TypeOK, Mcs!McsInv, Mcs!Releasing
  <2>3. ASSUME NEW i \in 1 .. Len(order) PROVE Mcs!PlaceOK(i)'
    <3>1. order[i] # t /\ (i < Len(order) => order[i + 1] # t)
      BY <1>0, <2>2 DEF Mcs!InQueue
    <3>2. next'[order[i]] = next[order[i]] /\ locked'[order[i]] = locked[order[i]]
      BY <1>0, <1>1, <3>1 DEF Mcs!InitNode, Mcs!TypeOK
    <3>. QED
      BY <1>0, <1>1, <2>2, <3>1, <3>2 DEF Mcs!InitNode, Mcs!McsInv, Mcs!PlaceOK
  <2>4. ASSUME NEW u \in Threads PROVE Mcs!CallOK(u)'
    BY <1>0, <1>1, <2>2 DEF Mcs!InitNode, Mcs!McsInv, Mcs!CallOK, Mcs!TypeOK
  <2>. QED
    BY <1>1, <1>a, <2>1, <2>2, <2>3, <2>4 DEF Mcs!InitNode, Mcs!Releasing
<1>2. ASSUME NEW t \in Threads, Mcs!TryCas(t) PROVE Mcs!McsInv'
  <2>1. CASE tail = Null
    <3>. QED
      BY <1>0, <1>2, <2>1, McsEnter DEF Mcs!TryCas, Mcs!TypeOK
  <2>2. CASE tail # Null
    <3>1. Mcs!TypeOK' /\ pc'[t] = "idle" /\ (\A u \in Threads : u # t => pc'[u] = pc[u])
          /\ ~Mcs!InQueue(t) /\ UNCHANGED <<tail, next, locked, other, order>>
      BY <1>0, <1>2, <2>2 DEF Mcs!TryCas, Mcs!TypeOK, Mcs!McsInv, Mcs!Releasing
    <3>2. ASSUME NEW i \in 1 .. Len(order) PROVE Mcs!PlaceOK(i)'
      <4>1. order[i] # t /\ (i < Len(order) => order[i + 1] # t)
        BY <1>0, <3>1 DEF Mcs!InQueue
      <4>. QED
        BY <1>0, <3>1, <4>1 DEF Mcs!McsInv, Mcs!PlaceOK
    <3>3. ASSUME NEW u \in Threads PROVE Mcs!CallOK(u)'
      BY <3>1 DEF Mcs!McsInv, Mcs!CallOK
    <3>. QED
      BY <1>a, <3>1, <3>2, <3>3 DEF Mcs!Releasing
  <2>. QED
    BY <2>1, <2>2
<1>3. ASSUME NEW t \in Threads, Mcs!AcquireXchg(t) PROVE Mcs!McsInv'
  <2>1. other' \in [Threads -> Threads \cup {Null}]
        /\ \A u \in Threads \ {t} : other'[u] = other[u]
    BY <1>0, <1>3 DEF Mcs!AcquireXchg, Mcs!TypeOK
  <2>. QED
    BY <1>3, <2>1, McsEnter, Zenon DEF Mcs!AcquireXchg
<1>4. ASSUME NEW t \in Threads, Mcs!AcquireLink(t) PROVE Mcs!McsInv'
  <2>1. PICK k \in 1 .. Len(order) : order[k] = t
    BY <1>4 DEF Mcs!AcquireLink, Mcs!McsInv, Mcs!InQueue
  <2>2. k > 1 /\ other[t] = order[k - 1] /\ k - 1 \in 1 .. Len(order)
    BY <1>0, <1>4, <2>1 DEF Mcs!AcquireLink, Mcs!McsInv, Mcs!PlaceOK
  <2>3. /\ Mcs!TypeOK' /\ pc'[t] = "await" /\ (\A u \in Threads : u # t => pc'[u] = pc[u])
        /\ next'[other[t]] = t /\ \A u \in Threads : u # other[t] => next'[u] = next[u]
    BY <1>0, <1>4, <2>2 DEF Mcs!AcquireLink, Mcs!TypeOK
  <2>4. UNCHANGED <<tail, locked, other, order>>
    BY <1>4 DEF Mcs!AcquireLink
  <2>5. \A i \in 1 .. Len(order) :
            (order[i] = t <=> i = k) /\ (order[i] = other[t] <=> i = k - 1)
    BY <2>1, <2>2 DEF Mcs!McsInv
  <2>6. ASSUME NEW i \in 1 .. Len(order) PROVE Mcs!PlaceOK(i)'
    <3>1. Mcs!PlaceOK(i)
      BY DEF Mcs!McsInv
    <3>2. i < Len(order) => i + 1 \in 1 .. Len(order)
      BY <1>0
    <3>3. next'[order[i]] =
              IF i < Len(order) /\ pc'[order[i + 1]] # "link" THEN order[i + 1] ELSE Null
      <4>1. CASE i = k - 1
        BY <1>0, <4>1, <2>1, <2>2, <2>3, <2>5
      <4>2. CASE i # k - 1
        BY <1>0, <4>2, <2>1, <2>2, <2>3, <2>5, <3>1, <3>2 DEF Mcs!PlaceOK
      <4>. QED
        BY <4>1, <4>2
    <3>4. order[i] \in Threads
      BY <1>0
    <3>5. CASE i = k
      BY <1>4, <3>1, <3>3, <3>5, <2>1, <2>2, <2>3, <2>4 DEF Mcs!PlaceOK, Mcs!AcquireLink
    <3>6. CASE i # k
      BY <3>1, <3>3, <3>4, <3>6, <2>3, <2>4, <2>5 DEF Mcs!PlaceOK
    <3>. QED
      BY <3>5, <3>6
  <2>7. pc[other[t]] \notin {"xchg", "try"} /\ other[t] \in Threads
    BY <1>0, <2>2 DEF Mcs!McsInv, Mcs!InQueue, Mcs!Releasing
  <2>8. ASSUME NEW u \in Threads PROVE Mcs!CallOK(u)'
    <3>1. pc[u] # "rel_grant" \/ u # other[t]
      <4>1. next[other[t]] = Null
        BY <1>0, <1>4, <2>1, <2>2 DEF Mcs!McsInv, Mcs!PlaceOK, Mcs!AcquireLink
      <4>. QED
        BY <4>1 DEF Mcs!McsInv, Mcs!CallOK
    <3>. QED
      BY <3>1, <2>3, <2>4, <2>7 DEF Mcs!Parameters, Mcs!McsInv, Mcs!CallOK
  <2>. QED
    BY <1>a, <2>1, <2>3, <2>4, <2>6, <2>8 DEF Mcs!InQueue
<1>5. ASSUME NEW t \in Threads, UNCHANGED <<tail, next, locked, order>>, Mcs!TypeOK',
             \A u \in Threads : u # t => pc'[u] = pc[u] /\ other'[u] = other[u],
             pc[t] \in {"cs", "await"} \cup Mcs!Releasing, pc'[t] \in {"cs"} \cup Mcs!Releasing,
             pc[t] = "await" => locked[t] = 0, Mcs!CallOK(t)'
      PROVE  Mcs!McsInv'
  <2>1. \A i \in 1 .. Len(order) : order[i] = t => i = 1
    <3>1. order # <<>> /\ order[1] = t
      BY <1>5, McsHead
    <3>. QED
      BY <1>0, <3>1 DEF Mcs!McsInv
  <2>2. ASSUME NEW i \in 1 .. Len(order) PROVE Mcs!PlaceOK(i)'
    <3>1. Mcs!PlaceOK(i) /\ order[i] \in Threads /\ (i < Len(order) => order[i + 1] \in Threads)
      BY <1>0 DEF Mcs!McsInv
    <3>2. i < Len(order) => order[i + 1] # t
      BY <1>0, <2>1
    <3>3. CASE order[i] = t
      BY <2>1, <3>1, <3>2, <3>3, <1>5 DEF Mcs!PlaceOK, Mcs!Releasing
    <3>4. CASE order[i] # t
      BY <3>1, <3>2, <3>4, <1>5 DEF Mcs!PlaceOK
    <3>. QED
      BY <3>3, <3>4
  <2>3. ASSUME NEW u \in Threads PROVE Mcs!CallOK(u)'
    BY <1>5 DEF Mcs!McsInv, Mcs!CallOK
  <2>4. Mcs!InQueue(t)
    BY <1>5 DEF Mcs!McsInv
  <2>. QED
    BY <1>a, <1>5, <2>2, <2>3, <2>4, Zenon
<1>6. ASSUME NEW t \in Threads, Mcs!AcquireAwait(t) PROVE Mcs!McsInv'
  BY <1>0, <1>5, <1>6 DEF Mcs!AcquireAwait, Mcs!TypeOK, Mcs!CallOK, Mcs!Releasing
<1>7. ASSUME NEW t \in Threads, Mcs!ReleaseReadNext(t) PROVE Mcs!McsInv'
  BY <1>0, <1>5, <1>7 DEF Mcs!ReleaseReadNext, Mcs!TypeOK, Mcs!CallOK, Mcs!Releasing
<1>8. ASSUME NEW t \in Threads, Mcs!ReleaseCas(t) PROVE Mcs!McsInv'
  <2>1. CASE tail = t
    BY <1>8, <2>1, McsLeave DEF Mcs!ReleaseCas
  <2>2. CASE tail # t
    <3>1. Len(order) > 1
      <4>1. order[1] = t /\ order # <<>>
        BY <1>8, McsHolder DEF Mcs!ReleaseCas, Mcs!Holding, Mcs!Releasing
      <4>. QED
        BY <4>1, <2>2, <1>0 DEF Mcs!McsInv, Mcs!TypeOK
    <3>. QED
      BY <1>0, <1>5, <1>8, <2>2, <3>1 DEF Mcs!ReleaseCas, Mcs!TypeOK, Mcs!CallOK, Mcs!Releasing
  <2>. QED
    BY <2>1, <2>2
<1>9. ASSUME NEW t \in Threads, Mcs!ReleaseAwait(t) PROVE Mcs!McsInv'
  BY <1>0, <1>5, <1>9 DEF Mcs!ReleaseAwait, Mcs!TypeOK, Mcs!CallOK, Mcs!Releasing
<1>10. ASSUME NEW t \in Threads, Mcs!ReleaseRereadNext(t) PROVE Mcs!McsInv'
  <2>1. Mcs!CallOK(t) /\ next[t] # Null
    BY <1>10 DEF Mcs!ReleaseRereadNext, Mcs!McsInv, Mcs!CallOK
  <2>. QED
    BY <1>0, <1>5, <1>10, <2>1 DEF Mcs!ReleaseRereadNext, Mcs!TypeOK, Mcs!CallOK, Mcs!Releasing
<1>11. ASSUME NEW t \in Threads, Mcs!ReleaseGrant(t) PROVE Mcs!McsInv'
  BY <1>11, McsLeave, Zenon DEF Mcs!ReleaseGrant
<1>12. CASE UNCHANGED Mcs!vars
  BY <1>12 DEF Mcs!vars, Mcs!McsInv, Mcs!TypeOK, Mcs!PlaceOK, Mcs!CallOK, Mcs!InQueue
<1>. QED
  BY <1>1, <1>2, <1>3, <1>4, <1>6, <1>7, <1>8, <1>9, <1>10, <1>11, <1>12 DEF Mcs!Next, Mcs!Step

(* What the runs check of mcslock.h follows from the shape of its queue.   *)
LEMMA McsSafe ==
    ASSUME Mcs!Parameters
    PROVE  Mcs!McsInv => Mcs!MutualExclusion /\ Mcs!QueueInv /\ Mcs!HasWaitersSound
<1>. SUFFICES ASSUME Mcs!McsInv PROVE Mcs!MutualExclusion /\ Mcs!QueueInv /\ Mcs!HasWaitersSound
  OBVIOUS
<1>0. Len(order) \in Nat /\ \A i \in 1 .. Len(order) : order[i] \in Threads
  BY DEF Mcs!McsInv, Mcs!TypeOK
<1>1. Mcs!MutualExclusion
  BY McsHolder DEF Mcs!MutualExclusion, Mcs!Holding
<1>2. Mcs!QueueInv
  <2>. SUFFICES ASSUME NEW i \in 1 .. Len(order)
                PROVE  LET succ == IF i = Len(order) THEN Null ELSE order[i + 1] IN
                       /\ next[order[i]] \in {succ, Null}
                       /\ next[order[i]] = Null /\ succ # Null =>
                              pc[succ] = "link" /\ other[succ] = order[i]
                       /\ i > 1 => pc[order[i]] \in {"link", "await"} /\ locked[order[i]] = 1
                       /\ i = 1 /\ pc[order[i]] \in {"link", "await"} => locked[order[i]] = 0
    BY DEF Mcs!QueueInv, Mcs!McsInv
  <2>1. Mcs!PlaceOK(i) /\ (i # Len(order) => i < Len(order) /\ i + 1 > 1 /\ (i + 1) - 1 = i
                          /\ Mcs!PlaceOK(i + 1) /\ order[i + 1] \in Threads)
    BY <1>0 DEF Mcs!McsInv
  <2>. QED
    BY <2>1 DEF Mcs!Parameters, Mcs!PlaceOK
<1>3. Mcs!HasWaitersSound
  <2>. SUFFICES ASSUME NEW t \in Threads, pc[t] = "cs", next[t] # Null PROVE Len(order) > 1
    BY DEF Mcs!HasWaitersSound, Mcs!HasWaiters
  <2>1. order[1] = t /\ order # <<>>
    BY McsHolder DEF Mcs!Holding
  <2>. QED
    BY <1>0, <2>1 DEF Mcs!McsInv, Mcs!TypeOK, Mcs!PlaceOK
<1>. QED
  BY <1>1, <1>2, <1>3

(* The access to tail is the doorway, the end of the await the grant, the  *)
(* last write of a release the release of a FIFO lock; everything else is  *)
(* a stutter.                                                              *)
LEMMA McsFifo ==
    ASSUME Mcs!Parameters
    PROVE  Mcs!McsInv /\ Mcs!McsInv' /\ [Mcs!Next]_(Mcs!vars) => Mcs!Fifo!Step
<1>. SUFFICES ASSUME Mcs!McsInv, Mcs!McsInv', [Mcs!Next]_(Mcs!vars)
              PROVE  [Mcs!Fifo!Next]_(Mcs!Fifo!vars)
  BY DEF Mcs!Fifo!Step
<1>. USE DEF Mcs!Goto
<1>0. Mcs!TypeOK /\ Mcs!TypeOK'
  BY DEF Mcs!McsInv
<1>a. ASSUME NEW t \in Threads, UNCHANGED order, \A u \in Threads \ {t} : pc'[u] = pc[u],
             t \in Mcs!Holding <=> t \in Mcs!Holding'
      PROVE  UNCHANGED Mcs!Fifo!vars
  <2>1. Mcs!Holding' = Mcs!Holding
    BY <1>a DEF Mcs!Holding
  <2>. QED
    BY <1>a, <2>1 DEF Mcs!Fifo!vars
<1>b. \A t \in Threads : pc[t] \notin {"link", "await", "cs"} \cup Mcs!Releasing =>
          t \notin Mcs!Fifo!Queued
  BY DEF Mcs!McsInv, Mcs!InQueue, Mcs!Fifo!Queued
<1>c. ASSUME NEW t \in Threads, pc[t] \in {"xchg", "try"}, tail = Null,
             order' = Append(order, t), pc'[t] = "cs"
      PROVE  Mcs!Fifo!TryGrant(t)
  <2>0. order = <<>>
    <3>1. order # <<>> => order[Len(order)] \in Threads
      BY <1>0 DEF Mcs!TypeOK
    <3>. QED
      BY <3>1, <1>c DEF Mcs!Parameters, Mcs!McsInv
  <2>1. order = <<>> /\ order' = <<t>>
    BY <1>c, <2>0
  <2>. QED
    BY <2>1, <1>c DEF Mcs!Fifo!TryGrant, Mcs!Holding
<1>d. ASSUME NEW t \in Threads, t \in Mcs!Holding, pc'[t] = "idle", order' = Tail(order),
             \A u \in Threads \ {t} : pc'[u] = pc[u]
      PROVE  Mcs!Fifo!Release(t)
  <2>1. Mcs!Holding = {t} /\ t = Head(order)
    BY <1>d, McsHolder
  <2>2. Mcs!Holding' = {}
    BY <1>d, <2>1 DEF Mcs!Holding, Mcs!Releasing
  <2>. QED
    BY <2>1, <2>2, <1>d DEF Mcs!Fifo!Release
<1>1. ASSUME NEW t \in Threads, Mcs!InitNode(t) PROVE UNCHANGED Mcs!Fifo!vars
  BY <1>1, <1>a, <1>0 DEF Mcs!InitNode, Mcs!TypeOK, Mcs!Holding, Mcs!Releasing
<1>2. ASSUME NEW t \in Threads, Mcs!TryCas(t) PROVE Mcs!Fifo!TryGrant(t) \/ UNCHANGED Mcs!Fifo!vars
  <2>1. CASE tail = Null
    BY <1>2, <2>1, <1>0, <1>c DEF Mcs!TryCas, Mcs!TypeOK
  <2>2. CASE tail # Null
    BY <1>2, <2>2, <1>a, <1>0 DEF Mcs!TryCas, Mcs!TypeOK, Mcs!Holding, Mcs!Releasing
  <2>. QED
    BY <2>1, <2>2
<1>3. ASSUME NEW t \in Threads, Mcs!AcquireXchg(t) PROVE Mcs!Fifo!TryGrant(t) \/ Mcs!Fifo!Request(t)
  <2>1. CASE tail = Null
    BY <1>3, <2>1, <1>0, <1>c DEF Mcs!AcquireXchg, Mcs!TypeOK
  <2>2. CASE tail # Null
    <3>1. pc'[t] = "link" /\ pc[t] = "xchg" /\ \A u \in Threads \ {t} : pc'[u] = pc[u]
      BY <1>3, <2>2, <1>0 DEF Mcs!AcquireXchg, Mcs!TypeOK
    <3>2. Mcs!Holding' = Mcs!Holding
      BY <3>1 DEF Mcs!Holding, Mcs!Releasing
    <3>. QED
      BY <1>3, <3>1, <3>2, <1>b DEF Mcs!AcquireXchg, Mcs!Fifo!Request, Mcs!Releasing
  <2>. QED
    BY <2>1, <2>2
<1>4. ASSUME NEW t \in Threads, Mcs!AcquireLink(t) PROVE UNCHANGED Mcs!Fifo!vars
  BY <1>4, <1>a, <1>0 DEF Mcs!AcquireLink, Mcs!TypeOK, Mcs!Holding, Mcs!Releasing
<1>5. ASSUME NEW t \in Threads, Mcs!AcquireAwait(t) PROVE Mcs!Fifo!Grant(t)
  <2>1. t \in Mcs!Holding' /\ UNCHANGED order
    BY <1>5, <1>0 DEF Mcs!AcquireAwait, Mcs!TypeOK, Mcs!Holding
  <2>2. order # <<>> /\ t = Head(order) /\ t = order[1]
    BY <1>5, McsHead DEF Mcs!AcquireAwait
  <2>3. Mcs!Holding = {}
    <3>. SUFFICES ASSUME NEW u \in Mcs!Holding PROVE FALSE
      OBVIOUS
    <3>1. u = order[1] /\ pc[u] # "await"
      BY McsHolder DEF Mcs!Holding, Mcs!Releasing
    <3>. QED
      BY <3>1, <2>2, <1>5 DEF Mcs!AcquireAwait
  <2>. QED
    BY <2>1, <2>2, <2>3 DEF Mcs!Fifo!Grant
<1>6. ASSUME NEW t \in Threads, Mcs!ReleaseReadNext(t) PROVE UNCHANGED Mcs!Fifo!vars
  BY <1>6, <1>a, <1>0 DEF Mcs!ReleaseReadNext, Mcs!TypeOK, Mcs!Holding, Mcs!Releasing
<1>7. ASSUME NEW t \in Threads, Mcs!ReleaseCas(t)
      PROVE  Mcs!Fifo!Release(t) \/ UNCHANGED Mcs!Fifo!vars
  <2>1. CASE tail = t
    BY <1>7, <2>1, <1>0, <1>d DEF Mcs!ReleaseCas, Mcs!TypeOK, Mcs!Holding, Mcs!Releasing
  <2>2. CASE tail # t
    BY <1>7, <2>2, <1>a, <1>0 DEF Mcs!ReleaseCas, Mcs!TypeOK, Mcs!Holding, Mcs!Releasing
  <2>. QED
    BY <2>1, <2>2
<1>8. ASSUME NEW t \in Threads, Mcs!ReleaseAwait(t) PROVE UNCHANGED Mcs!Fifo!vars
  BY <1>8, <1>a, <1>0 DEF Mcs!ReleaseAwait, Mcs!TypeOK, Mcs!Holding, Mcs!Releasing
<1>9. ASSUME NEW t \in Threads, Mcs!ReleaseRereadNext(t) PROVE UNCHANGED Mcs!Fifo!vars
  BY <1>9, <1>a, <1>0 DEF Mcs!ReleaseRereadNext, Mcs!TypeOK, Mcs!Holding, Mcs!Releasing
<1>10. ASSUME NEW t \in Threads, Mcs!ReleaseGrant(t) PROVE Mcs!Fifo!Release(t)
  BY <1>10, <1>0, <1>d DEF Mcs!ReleaseGrant, Mcs!TypeOK, Mcs!Holding, Mcs!Releasing
<1>11. CASE UNCHANGED Mcs!vars
  BY <1>11 DEF Mcs!vars, Mcs!Fifo!vars, Mcs!Holding
<1>. QED
  BY <1>1, <1>2, <1>3, <1>4, <1>5, <1>6, <1>7, <1>8, <1>9, <1>10, <1>11
     DEF Mcs!Next, Mcs!Step, Mcs!Fifo!Next

(* The empty queue of mcslock_init is that of a FIFO lock.                 *)
LEMMA McsFifoInit == Mcs!Init => Mcs!Fifo!Init
BY DEF Mcs!Init, Mcs!Fifo!Init, Mcs!Holding, Mcs!Releasing

(* For any set of threads, mcslock.h keeps two threads apart, its nodes    *)
(* are the queue, has_waiters reports no waiter that does not exist, and   *)
(* the lock is granted in the order of the accesses to tail.               *)
THEOREM McsLockCorrect ==
    ASSUME Mcs!Parameters
    PROVE  Mcs!Spec =>
               /\ [](Mcs!MutualExclusion /\ Mcs!QueueInv /\ Mcs!HasWaitersSound)
               /\ Mcs!Fifo!Spec
BY McsInit, McsStep, McsSafe, McsFifoInit, McsFifo, PTL DEF Mcs!Spec, Mcs!Fifo!Spec, Mcs!Fifo!Step
-----------------------------------------------------------------------------
(* With clhlock_node_init as in clhlock.h.orig. *)
Clh == INSTANCE ClhLock WITH Orig <- TRUE

(* clhlock_init and clhlock_node_init of clhlock.h.orig: every qnode has   *)
(* one owner but the initial one.                                          *)
LEMMA ClhInit == Clh!Parameters /\ Clh!Init => Clh!ClhInv
<1>. SUFFICES ASSUME Clh!Parameters, Clh!Init PROVE Clh!ClhInv
  OBVIOUS
<1>1. order = <<>> /\ Len(order) = 0 /\ order \in Seq(Threads)
  BY DEF Clh!Init
<1>2. Clh!TypeOK
  BY <1>1 DEF Clh!Init, Clh!TypeOK, Clh!QNodes, Clh!NodeInit, Clh!Parameters
<1>3. Clh!QueueInv
  BY <1>1 DEF Clh!Init, Clh!QueueInv, Clh!InQueue, Clh!PlaceOK
<1>4. Clh!RecycleInv
  BY <1>1 DEF Clh!Init, Clh!RecycleInv, Clh!Own, Clh!Free, Clh!NodeInit, Clh!Parameters, Clh!QNodes
<1>. QED
  BY <1>1, <1>2, <1>3, <1>4 DEF Clh!Init, Clh!ClhInv

(* A thread that is through, or finds its predecessor's qnode unlocked, is *)
(* the first of the queue.                                                 *)
LEMMA ClhHead ==
    ASSUME Clh!ClhInv, NEW t \in Threads,
           pc[t] = "cs" \/ (pc[t] = "await" /\ locked[pred[t]] = 0)
    PROVE  order # <<>> /\ t = order[1] /\ t = Head(order)
<1>1. PICK i \in 1 .. Len(order) : order[i] = t
  BY DEF Clh!ClhInv, Clh!QueueInv, Clh!InQueue
<1>2. Len(order) \in Nat /\ (i > 1 => i - 1 \in 1 .. Len(order))
  BY DEF Clh!ClhInv, Clh!TypeOK
<1>3. Clh!PlaceOK(i) /\ (i > 1 => Clh!PlaceOK(i - 1))
  BY <1>2 DEF Clh!ClhInv, Clh!QueueInv
<1>4. i = 1
  BY <1>1, <1>2, <1>3 DEF Clh!PlaceOK
<1>. QED
  BY <1>1, <1>4 DEF Clh!ClhInv, Clh!TypeOK

(* The exchange of tail adds the thread at the end of the queue, behind    *)
(* the qnode of the last one.                                              *)
LEMMA ClhEnter == ASSUME Clh!ClhInv, NEW t \in Threads, Clh!AcquireXchg(t) PROVE Clh!ClhInv'
<1>. DEFINE n == Len(order)
<1>. USE DEF Clh!Goto
<1>0. Clh!TypeOK /\ Clh!QueueInv /\ Clh!RecycleInv /\ pc[t] = "xchg"
  BY DEF Clh!ClhInv, Clh!AcquireXchg
<1>1. /\ order' \in Seq(Threads) /\ order' # <<>> /\ Len(order') = n + 1
      /\ order'[n + 1] = t /\ (\A i \in 1 .. n : order'[i] = order[i]) /\ n \in Nat
      /\ \A i \in 1 .. n : order[i] \in Threads
  BY <1>0, Appended DEF Clh!AcquireXchg, Clh!TypeOK
<1>2. Clh!TypeOK'
  BY <1>0, <1>1 DEF Clh!AcquireXchg, Clh!TypeOK
<1>3. \A i \in 1 .. n : order[i] # t
  BY <1>0 DEF Clh!QueueInv, Clh!InQueue
<1>4. \A i, j \in 1 .. Len(order') : order'[i] = order'[j] => i = j
  BY <1>1, <1>3 DEF Clh!ClhInv
<1>5. /\ \A u \in Threads : u # t => pc'[u] = pc[u] /\ pred'[u] = pred[u]
      /\ pc'[t] = "await" /\ pred'[t] = tail /\ tail' = qnode[t]
      /\ UNCHANGED <<qnode, locked>>
  BY <1>0 DEF Clh!AcquireXchg, Clh!TypeOK
<1>6. ASSUME NEW u \in Threads PROVE pc'[u] \in {"await", "cs"} <=> Clh!InQueue(u)'
  <2>1. CASE u = t
    BY <2>1, <1>1, <1>5 DEF Clh!InQueue
  <2>2. CASE u # t
    <3>1. 1 .. n + 1 = 1 .. n \cup {n + 1}
      BY <1>1
    <3>2. Clh!InQueue(u)' <=> Clh!InQueue(u)
      BY <3>1, <2>2, <1>1 DEF Clh!InQueue
    <3>. QED
      BY <3>2, <2>2, <1>0, <1>5 DEF Clh!QueueInv
  <2>. QED
    BY <2>1, <2>2
<1>7. ASSUME NEW i \in 1 .. Len(order') PROVE Clh!PlaceOK(i)'
  <2>1. CASE i = n + 1
    <3>1. i > 1 => pred'[t] = qnode[order[n]] /\ order'[i - 1] = order[n]
      BY <2>1, <1>0, <1>1, <1>5 DEF Clh!QueueInv
    <3>2. locked[qnode[t]] = 1
      BY <1>0 DEF Clh!ClhInv
    <3>. QED
      BY <2>1, <3>1, <3>2, <1>1, <1>5 DEF Clh!PlaceOK
  <2>2. CASE i < n + 1
    <3>1. i \in 1 .. n /\ Clh!PlaceOK(i) /\ order'[i] = order[i] /\ order[i] # t
          /\ (i > 1 => order'[i - 1] = order[i - 1]) /\ order[i] \in Threads
      BY <2>2, <1>0, <1>1, <1>3 DEF Clh!QueueInv
    <3>. QED
      BY <3>1, <1>5 DEF Clh!PlaceOK
  <2>. QED
    BY <2>1, <2>2, <1>1
<1>8. Clh!Free' = Clh!Free
  BY <1>1, <1>3, <1>5 DEF Clh!Free
<1>9. \A u \in Threads : Clh!Own(u)' = Clh!Own(u)
  BY <1>0, <1>5 DEF Clh!Own
<1>10. Clh!RecycleInv'
  BY <1>0, <1>5, <1>8, <1>9 DEF Clh!RecycleInv
<1>11. Clh!QueueInv'
  BY <1>1, <1>5, <1>6, <1>7 DEF Clh!QueueInv
<1>. QED
  BY <1>0, <1>2, <1>4, <1>5, <1>10, <1>11 DEF Clh!ClhInv, Clh!TypeOK

(* The unlocking write swaps two qnodes: the releasing thread's own is the *)
(* free one now, and its predecessor's becomes its own.                    *)
LEMMA ClhLeave == ASSUME Clh!ClhInv, NEW t \in Threads, Clh!ReleaseUnlock(t) PROVE Clh!ClhInv'
<1>. DEFINE n == Len(order)
<1>. USE DEF Clh!Goto
<1>0. Clh!TypeOK /\ Clh!QueueInv /\ Clh!RecycleInv /\ pc[t] = "cs"
  BY DEF Clh!ClhInv, Clh!ReleaseUnlock
<1>1. order[1] = t /\ order # <<>>
  BY <1>0, ClhHead
<1>2. /\ order' \in Seq(Threads) /\ Len(order') = n - 1 /\ n \in Nat \ {0}
      /\ \A i \in 1 .. n - 1 : order'[i] = order[i + 1]
      /\ \A i \in 1 .. n : order[i] \in Threads
  BY <1>0, <1>1, Removed DEF Clh!ReleaseUnlock, Clh!TypeOK
<1>3. \A i \in 1 .. n : order[i] = t => i = 1
  BY <1>1, <1>2 DEF Clh!ClhInv
<1>4. /\ \A u \in Threads : u # t => pc'[u] = pc[u]
      /\ pc'[t] = "recycle" /\ UNCHANGED <<tail, qnode, pred>>
      /\ qnode[t] \in Clh!QNodes /\ locked'[qnode[t]] = 0
      /\ \A q \in Clh!QNodes : q # qnode[t] => locked'[q] = locked[q]
  BY <1>0 DEF Clh!ReleaseUnlock, Clh!TypeOK
<1>5. Clh!TypeOK'
  BY <1>0, <1>2 DEF Clh!ReleaseUnlock, Clh!TypeOK
<1>6. ASSUME NEW u \in Threads PROVE pc'[u] \in {"await", "cs"} <=> Clh!InQueue(u)'
  <2>1. CASE u = t
    BY <2>1, <1>1, <1>2, <1>3, <1>4 DEF Clh!InQueue
  <2>2. CASE u # t
    <3>1. ASSUME NEW i \in 1 .. n, order[i] = u PROVE Clh!InQueue(u)'
      <4>. DEFINE j == i - 1
      <4>1. j \in 1 .. n - 1 /\ order'[j] = order[i]
        BY <3>1, <2>2, <1>1, <1>2
      <4>. HIDE DEF j
      <4>. QED
        BY <3>1, <4>1, <1>2 DEF Clh!InQueue
    <3>2. Clh!InQueue(u)' => Clh!InQueue(u)
      BY <1>1, <1>2 DEF Clh!InQueue
    <3>3. Clh!InQueue(u)' <=> Clh!InQueue(u)
      BY <3>1, <3>2 DEF Clh!InQueue
    <3>. QED
      BY <3>3, <2>2, <1>0, <1>4 DEF Clh!QueueInv
  <2>. QED
    BY <2>1, <2>2
<1>7. \A u \in Threads : u # t /\ pc[u] # "recycle" => qnode[u] # qnode[t]
  BY <1>0 DEF Clh!RecycleInv, Clh!Own
<1>8. ASSUME NEW i \in 1 .. Len(order') PROVE Clh!PlaceOK(i)'
  <2>1. /\ i + 1 \in 2 .. n /\ order'[i] = order[i + 1] /\ order[i + 1] \in Threads
        /\ Clh!PlaceOK(i + 1) /\ order[i + 1] # t /\ pc[order[i + 1]] = "await"
    BY <1>0, <1>2, <1>3 DEF Clh!QueueInv, Clh!PlaceOK
  <2>2. i > 1 => order'[i - 1] = order[(i + 1) - 1]
    BY <1>2
  <2>3. locked'[qnode[order[i + 1]]] = 1
    BY <2>1, <1>0, <1>4, <1>7 DEF Clh!PlaceOK, Clh!TypeOK
  <2>. QED
    BY <2>1, <2>2, <2>3, <1>4 DEF Clh!PlaceOK
<1>9. Clh!Free = pred[t] /\ Clh!Free' = qnode[t]
  <2>1. CASE n = 1
    BY <2>1, <1>0, <1>1, <1>2, <1>4 DEF Clh!Free, Clh!QueueInv
  <2>2. CASE n > 1
    <3>1. order'[1] = order[2] /\ order' # <<>> /\ Clh!PlaceOK(2) /\ 2 \in 1 .. n
      BY <2>2, <1>0, <1>2 DEF Clh!QueueInv
    <3>. QED
      BY <3>1, <1>1, <1>4 DEF Clh!Free, Clh!PlaceOK
  <2>. QED
    BY <2>1, <2>2, <1>2
<1>10. /\ Clh!Own(t)' = Clh!Free /\ Clh!Own(t) = Clh!Free'
       /\ \A u \in Threads : u # t => Clh!Own(u)' = Clh!Own(u)
  BY <1>0, <1>4, <1>9 DEF Clh!Own
<1>11. Clh!RecycleInv'
  BY <1>0, <1>4, <1>9, <1>10 DEF Clh!RecycleInv
<1>12. tail' = IF order' = <<>> THEN tail ELSE qnode'[order'[Len(order')]]
  <2>1. order' # <<>> => order'[n - 1] = order[(n - 1) + 1]
    BY <1>2
  <2>. QED
    BY <2>1, <1>0, <1>1, <1>2, <1>4 DEF Clh!QueueInv
<1>13. Clh!QueueInv'
  BY <1>6, <1>8, <1>12 DEF Clh!QueueInv
<1>14. \A i, j \in 1 .. Len(order') : order'[i] = order'[j] => i = j
  BY <1>1, <1>2 DEF Clh!ClhInv
<1>15. \A u \in Threads : pc'[u] = "xchg" => locked'[qnode'[u]] = 1
  BY <1>0, <1>4, <1>7 DEF Clh!ClhInv, Clh!TypeOK
<1>. QED
  BY <1>0, <1>4, <1>5, <1>11, <1>13, <1>14, <1>15 DEF Clh!ClhInv

(* Every access of clhlock.h keeps the queue and the ownership of the      *)
(* qnodes.                                                                 *)
LEMMA ClhStep == Clh!ClhInv /\ [Clh!Next]_(Clh!vars) => Clh!ClhInv'
<1>. SUFFICES ASSUME Clh!ClhInv, [Clh!Next]_(Clh!vars) PROVE Clh!ClhInv'
  OBVIOUS
<1>. USE DEF Clh!Goto
<1>0. /\ Clh!TypeOK /\ Clh!QueueInv /\ Clh!RecycleInv /\ Len(order) \in Nat
      /\ \A i \in 1 .. Len(order) : order[i] \in Threads
  BY DEF Clh!ClhInv, Clh!TypeOK
<1>1. ASSUME NEW t \in Threads, Clh!Acquire(t) PROVE Clh!ClhInv'
  <2>1. /\ UNCHANGED <<tail, locked, qnode, pred, order>> /\ pc[t] = "idle" /\ pc'[t] = "mark"
        /\ Clh!TypeOK' /\ \A u \in Threads : u # t => pc'[u] = pc[u]
    BY <1>0, <1>1 DEF Clh!Acquire, Clh!TypeOK
  <2>2. (\A u \in Threads : Clh!Own(u)' = Clh!Own(u)) /\ Clh!Free' = Clh!Free
    BY <2>1 DEF Clh!Own, Clh!Free
  <2>3. Clh!RecycleInv'
    BY <1>0, <2>1, <2>2 DEF Clh!RecycleInv
  <2>4. ASSUME NEW i \in 1 .. Len(order) PROVE Clh!PlaceOK(i)'
    BY <1>0, <2>1 DEF Clh!QueueInv, Clh!PlaceOK
  <2>5. Clh!QueueInv'
    BY <1>0, <2>1, <2>4 DEF Clh!QueueInv, Clh!InQueue
  <2>. QED
    BY <2>1, <2>3, <2>5 DEF Clh!ClhInv
<1>2. ASSUME NEW t \in Threads, Clh!AcquireMark(t) PROVE Clh!ClhInv'
  <2>1. /\ UNCHANGED <<tail, qnode, pred, order>> /\ pc[t] = "mark" /\ pc'[t] = "xchg"
        /\ Clh!TypeOK' /\ \A u \in Threads : u # t => pc'[u] = pc[u]
    BY <1>0, <1>2 DEF Clh!AcquireMark, Clh!TypeOK
  <2>2. /\ locked'[qnode[t]] = 1 /\ qnode[t] \in Clh!QNodes
        /\ \A q \in Clh!QNodes : locked[q] = 1 => locked'[q] = 1
        /\ \A q \in Clh!QNodes : q # qnode[t] => locked'[q] = locked[q]
    BY <1>0, <1>2 DEF Clh!AcquireMark, Clh!TypeOK
  <2>3. /\ \A u \in Threads : Clh!Own(u)' = Clh!Own(u)
        /\ Clh!Free' = Clh!Free /\ Clh!Own(t) = qnode[t]
    BY <2>1 DEF Clh!Own, Clh!Free
  <2>4. Clh!Free \in Clh!QNodes
    <3>1. order # <<>> => order[1] \in Threads /\ pc[order[1]] \in {"await", "cs"}
      BY <1>0 DEF Clh!QueueInv, Clh!InQueue, Clh!TypeOK
    <3>. QED
      BY <3>1, <1>0 DEF Clh!Free, Clh!ClhInv, Clh!TypeOK
  <2>5. Clh!RecycleInv'
    BY <1>0, <2>2, <2>3, <2>4 DEF Clh!RecycleInv
  <2>6. ASSUME NEW i \in 1 .. Len(order) PROVE Clh!PlaceOK(i)'
    BY <1>0, <2>1, <2>2 DEF Clh!QueueInv, Clh!PlaceOK, Clh!TypeOK
  <2>7. Clh!QueueInv'
    BY <1>0, <2>1, <2>6 DEF Clh!QueueInv, Clh!InQueue
  <2>8. \A u \in Threads : pc'[u] = "xchg" => locked'[qnode[u]] = 1
    BY <1>0, <2>1, <2>2 DEF Clh!ClhInv, Clh!TypeOK
  <2>. QED
    BY <2>1, <2>5, <2>7, <2>8 DEF Clh!ClhInv
<1>3. ASSUME NEW t \in Threads, Clh!AcquireAwait(t) PROVE Clh!ClhInv'
  <2>1. /\ UNCHANGED <<tail, locked, qnode, pred, order>> /\ pc[t] = "await" /\ pc'[t] = "cs"
        /\ Clh!TypeOK' /\ \A u \in Threads : u # t => pc'[u] = pc[u]
    BY <1>0, <1>3 DEF Clh!AcquireAwait, Clh!TypeOK
  <2>2. (\A u \in Threads : Clh!Own(u)' = Clh!Own(u)) /\ Clh!Free' = Clh!Free
    BY <2>1 DEF Clh!Own, Clh!Free
  <2>3. Clh!RecycleInv'
    BY <1>0, <2>1, <2>2 DEF Clh!RecycleInv
  <2>4. t = order[1] /\ order # <<>>
    BY <1>3, ClhHead DEF Clh!AcquireAwait
  <2>5. ASSUME NEW i \in 1 .. Len(order) PROVE Clh!PlaceOK(i)'
    <3>1. i > 1 => order[i] # t
      BY <1>0, <2>4 DEF Clh!ClhInv
    <3>. QED
      BY <1>0, <2>1, <3>1 DEF Clh!QueueInv, Clh!PlaceOK
  <2>6. Clh!QueueInv'
    BY <1>0, <2>1, <2>5 DEF Clh!QueueInv, Clh!InQueue
  <2>. QED
    BY <2>1, <2>3, <2>6 DEF Clh!ClhInv
<1>4. ASSUME NEW t \in Threads, Clh!ReleaseRecycle(t) PROVE Clh!ClhInv'
  <2>1. /\ UNCHANGED <<tail, locked, pred, order>> /\ pc[t] = "recycle" /\ pc'[t] = "idle"
        /\ pred[t] \in Clh!QNodes /\ qnode'[t] = pred[t]
        /\ \A u \in Threads : u # t => pc'[u] = pc[u] /\ qnode'[u] = qnode[u]
    BY <1>0, <1>4 DEF Clh!ReleaseRecycle, Clh!TypeOK, Clh!ClhInv
  <2>2. Clh!TypeOK'
    BY <1>0, <1>4, <2>1 DEF Clh!ReleaseRecycle, Clh!TypeOK
  <2>3. (\A u \in Threads : Clh!Own(u)' = Clh!Own(u)) /\ Clh!Free' = Clh!Free
    BY <2>1 DEF Clh!Own, Clh!Free
  <2>4. Clh!RecycleInv'
    BY <1>0, <2>1, <2>3 DEF Clh!RecycleInv
  <2>5. \A i \in 1 .. Len(order) : order[i] # t
    BY <1>0, <2>1 DEF Clh!QueueInv, Clh!InQueue
  <2>6. ASSUME NEW i \in 1 .. Len(order) PROVE Clh!PlaceOK(i)'
    <3>1. i > 1 => i - 1 \in 1 .. Len(order)
      BY <1>0
    <3>. QED
      BY <1>0, <2>1, <2>5, <3>1 DEF Clh!QueueInv, Clh!PlaceOK
  <2>7. Clh!QueueInv'
    BY <1>0, <2>1, <2>5, <2>6 DEF Clh!QueueInv, Clh!InQueue
  <2>. QED
    BY <2>1, <2>2, <2>4, <2>7 DEF Clh!ClhInv
<1>5. CASE UNCHANGED Clh!vars
  BY <1>0, <1>5 DEF Clh!vars, Clh!ClhInv, Clh!TypeOK, Clh!QueueInv, Clh!RecycleInv, Clh!PlaceOK,
     Clh!InQueue, Clh!Own, Clh!Free
<1>. QED
  BY <1>1, <1>2, <1>3, <1>4, <1>5, ClhEnter, ClhLeave DEF Clh!Next, Clh!Step

(* What the runs check of clhlock.h follows from the queue and the         *)
(* ownership.                                                              *)
LEMMA ClhSafe ==
    Clh!ClhInv => Clh!MutualExclusion /\ Clh!QueueInv /\ Clh!RecycleInv /\ Clh!HasWaitersExact
<1>. SUFFICES ASSUME Clh!ClhInv
              PROVE  Clh!MutualExclusion /\ Clh!QueueInv /\ Clh!RecycleInv /\ Clh!HasWaitersExact
  OBVIOUS
<1>1. Clh!MutualExclusion
  BY ClhHead DEF Clh!MutualExclusion, Clh!Holding
<1>2. ASSUME NEW t \in Threads, pc[t] = "cs" PROVE Clh!HasWaiters(t) <=> Len(order) > 1
  <2>. DEFINE l == order[Len(order)]
  <2>1. order[1] = t /\ order # <<>>
    BY <1>2, ClhHead
  <2>2. Len(order) \in Nat \ {0} /\ l \in Threads /\ tail = qnode[l] /\ (l = t <=> Len(order) = 1)
    <3>1. order \in Seq(Threads) /\ Len(order) \in Nat \ {0}
      BY <2>1 DEF Clh!ClhInv, Clh!TypeOK
    <3>2. 1 \in 1 .. Len(order) /\ Len(order) \in 1 .. Len(order)
      BY <3>1
    <3>3. l \in Threads /\ tail = qnode[l]
      BY <2>1, <3>1 DEF Clh!ClhInv, Clh!QueueInv
    <3>4. l = t => Len(order) = 1
      BY <2>1, <3>2, Zenon DEF Clh!ClhInv
    <3>. QED
      BY <2>1, <3>1, <3>3, <3>4
  <2>3. pc[l] \in {"await", "cs"}
    BY <2>2 DEF Clh!ClhInv, Clh!QueueInv, Clh!InQueue
  <2>4. qnode[l] = qnode[t] => l = t
    BY <1>2, <2>2, <2>3 DEF Clh!ClhInv, Clh!RecycleInv, Clh!Own
  <2>. QED
    BY <2>2, <2>4 DEF Clh!HasWaiters
<1>. QED
  BY <1>1, <1>2 DEF Clh!ClhInv, Clh!HasWaitersExact

(* The exchange of tail is the doorway, the end of the await the grant,    *)
(* the unlocking write the release of a FIFO lock.                         *)
LEMMA ClhFifo == Clh!ClhInv /\ [Clh!Next]_(Clh!vars) => Clh!Fifo!Step
<1>. SUFFICES ASSUME Clh!ClhInv, [Clh!Next]_(Clh!vars) PROVE [Clh!Fifo!Next]_(Clh!Fifo!vars)
  BY DEF Clh!Fifo!Step
<1>. USE DEF Clh!Goto
<1>0. Clh!TypeOK
  BY DEF Clh!ClhInv
<1>a. ASSUME NEW t \in Threads, UNCHANGED order, \A u \in Threads \ {t} : pc'[u] = pc[u],
             pc[t] # "cs", pc'[t] # "cs"
      PROVE  UNCHANGED Clh!Fifo!vars
  <2>1. Clh!Holding' = Clh!Holding
    BY <1>a DEF Clh!Holding
  <2>. QED
    BY <1>a, <2>1 DEF Clh!Fifo!vars
<1>1. ASSUME NEW t \in Threads, Clh!Acquire(t) PROVE UNCHANGED Clh!Fifo!vars
  BY <1>0, <1>1, <1>a DEF Clh!Acquire, Clh!TypeOK
<1>2. ASSUME NEW t \in Threads, Clh!AcquireMark(t) PROVE UNCHANGED Clh!Fifo!vars
  BY <1>0, <1>2, <1>a DEF Clh!AcquireMark, Clh!TypeOK
<1>3. ASSUME NEW t \in Threads, Clh!AcquireXchg(t) PROVE Clh!Fifo!Request(t)
  <2>1. pc[t] = "xchg" /\ pc'[t] = "await" /\ \A u \in Threads \ {t} : pc'[u] = pc[u]
    BY <1>0, <1>3 DEF Clh!AcquireXchg, Clh!TypeOK
  <2>2. Clh!Holding' = Clh!Holding
    BY <2>1 DEF Clh!Holding
  <2>3. t \notin Clh!Fifo!Queued
    BY <2>1 DEF Clh!ClhInv, Clh!QueueInv, Clh!InQueue, Clh!Fifo!Queued
  <2>. QED
    BY <1>3, <2>2, <2>3 DEF Clh!AcquireXchg, Clh!Fifo!Request
<1>4. ASSUME NEW t \in Threads, Clh!AcquireAwait(t) PROVE Clh!Fifo!Grant(t)
  <2>1. pc[t] = "await" /\ pc'[t] = "cs" /\ UNCHANGED order /\ locked[pred[t]] = 0
    BY <1>0, <1>4 DEF Clh!AcquireAwait, Clh!TypeOK
  <2>2. order # <<>> /\ t = Head(order) /\ t = order[1]
    BY <2>1, ClhHead
  <2>3. Clh!Holding = {}
    BY <2>1, <2>2, ClhHead DEF Clh!Holding
  <2>. QED
    BY <2>1, <2>2, <2>3 DEF Clh!Fifo!Grant, Clh!Holding
<1>5. ASSUME NEW t \in Threads, Clh!ReleaseUnlock(t) PROVE Clh!Fifo!Release(t)
  <2>1. /\ pc[t] = "cs" /\ pc'[t] = "recycle" /\ order' = Tail(order)
        /\ \A u \in Threads \ {t} : pc'[u] = pc[u]
    BY <1>0, <1>5 DEF Clh!ReleaseUnlock, Clh!TypeOK
  <2>2. Clh!Holding = {t} /\ t = Head(order)
    BY <2>1, ClhHead DEF Clh!Holding
  <2>3. Clh!Holding' = {}
    BY <2>1, <2>2 DEF Clh!Holding
  <2>. QED
    BY <2>1, <2>2, <2>3 DEF Clh!Fifo!Release
<1>6. ASSUME NEW t \in Threads, Clh!ReleaseRecycle(t) PROVE UNCHANGED Clh!Fifo!vars
  BY <1>0, <1>6, <1>a DEF Clh!ReleaseRecycle, Clh!TypeOK
<1>7. CASE UNCHANGED Clh!vars
  BY <1>7 DEF Clh!vars, Clh!Fifo!vars, Clh!Holding
<1>. QED
  BY <1>1, <1>2, <1>3, <1>4, <1>5, <1>6, <1>7 DEF Clh!Next, Clh!Step, Clh!Fifo!Next

(* The empty queue of clhlock_init is that of a FIFO lock.                 *)
LEMMA ClhFifoInit == Clh!Init => Clh!Fifo!Init
BY DEF Clh!Init, Clh!Fifo!Init, Clh!Holding

(* For any set of threads, clhlock.h.orig keeps two threads apart, never   *)
(* gives a recycled qnode two owners, has_waiters is exact, and the lock   *)
(* is granted in the order of the accesses to tail.                        *)
THEOREM ClhLockCorrect ==
    ASSUME Clh!Parameters
    PROVE  Clh!Spec =>
               /\ []Clh!MutualExclusion /\ []Clh!QueueInv /\ []Clh!RecycleInv
               /\ []Clh!HasWaitersExact
               /\ Clh!Fifo!Spec
BY ClhInit, ClhStep, ClhSafe, ClhFifoInit, ClhFifo, PTL DEF Clh!Spec, Clh!Fifo!Spec, Clh!Fifo!Step
-----------------------------------------------------------------------------
Rec == INSTANCE RecursiveLock WITH CaslockBase <- FALSE

(* recursive_lock.h starts with no owner and a free base lock.             *)
LEMMA RecInit == ASSUME Rec!Parameters PROVE Rec!Init => Rec!RecInv
<1>. SUFFICES ASSUME Rec!Init PROVE Rec!RecInv
  OBVIOUS
<1>1. Rec!TypeOK /\ Rec!Holding = {}
  BY DEF Rec!Parameters, Rec!Init, Rec!TypeOK, Rec!Holding, Rec!Inside
<1>2. Rec!OwnerAgrees
  BY DEF Rec!Init, Rec!OwnerAgrees, Rec!Parameters
<1>. QED
  BY <1>1, <1>2 DEF Rec!Init, Rec!RecInv

(* owner, count and the base lock agree with who is inside after every     *)
(* step, although they are written one by one.                             *)
LEMMA RecStep == ASSUME Rec!Parameters PROVE Rec!RecInv /\ [Rec!Next]_(Rec!vars) => Rec!RecInv'
<1>. SUFFICES ASSUME Rec!RecInv, [Rec!Next]_(Rec!vars) PROVE Rec!RecInv'
  OBVIOUS
<1>. USE DEF Rec!Goto, Rec!Parameters
<1>0. Rec!TypeOK /\ Rec!OwnerAgrees /\ (base = 0 => Rec!Holding = {}) /\ MaxDepth \in Nat \ {0}
  BY DEF Rec!RecInv
<1>a. ASSUME NEW t \in Threads, UNCHANGED base,
             \A u \in Threads \ {t} : pc'[u] = pc[u] /\ depth'[u] = depth[u],
             Rec!Inside(t)' <=> Rec!Inside(t)
      PROVE  /\ base' = 0 => Rec!Holding' = {}
             /\ base' = 1 => \E u \in Threads : Rec!Holding' = {u}
  <2>1. Rec!Holding' = Rec!Holding
    BY <1>a DEF Rec!Holding, Rec!Inside
  <2>. QED
    BY <1>a, <2>1 DEF Rec!RecInv
<1>b. ASSUME NEW t \in Threads, Rec!Inside(t) PROVE base = 1 /\ Rec!Holding = {t}
  BY <1>0, <1>b DEF Rec!RecInv, Rec!Holding, Rec!TypeOK
<1>c. ASSUME NEW t \in Threads, Rec!MayCall(t), Rec!Reenter(t) PROVE Rec!RecInv'
  <2>1. /\ pc[t] = "run" /\ depth[t] > 0 /\ count = depth[t] - 1 /\ base = 1 /\ depth[t] < MaxDepth
        /\ Rec!Holding = {t}
    BY <1>0, <1>c, <1>b DEF Rec!MayCall, Rec!Reenter, Rec!OwnerAgrees, Rec!Inside
  <2>2. /\ UNCHANGED <<base, owner, pc>> /\ count' = count + 1 /\ depth'[t] = depth[t] + 1
        /\ Rec!TypeOK' /\ \A u \in Threads \ {t} : depth'[u] = depth[u]
    BY <1>0, <1>c, <2>1 DEF Rec!Reenter, Rec!TypeOK
  <2>3. Rec!Inside(t)' <=> Rec!Inside(t)
    BY <1>0, <2>1, <2>2 DEF Rec!Inside, Rec!TypeOK
  <2>4. Rec!OwnerAgrees'
    <3>1. owner = t /\ \A u \in Threads \ {t} : ~Rec!Inside(u)
      BY <1>c, <2>1 DEF Rec!Reenter, Rec!Holding
    <3>2. depth[t] \in Nat /\ count' = depth'[t] - 1
      BY <1>0, <2>1, <2>2 DEF Rec!TypeOK
    <3>. QED
      BY <3>1, <3>2, <2>1, <2>2 DEF Rec!OwnerAgrees, Rec!Inside
  <2>. QED
    BY <1>a, <2>1, <2>2, <2>3, <2>4 DEF Rec!RecInv
<1>d. ASSUME NEW t \in Threads, Rec!MayCall(t), owner # t, NEW l \in {"acq_base", "try_base"},
             pc' = [pc EXCEPT ![t] = l], UNCHANGED <<base, owner, count, depth>>
      PROVE  Rec!RecInv'
  <2>1. pc[t] = "run" /\ depth[t] = 0
    BY <1>0, <1>d DEF Rec!MayCall, Rec!OwnerAgrees, Rec!TypeOK
  <2>2. Rec!TypeOK' /\ pc'[t] = l /\ \A u \in Threads \ {t} : pc'[u] = pc[u]
    BY <1>0, <1>d DEF Rec!TypeOK
  <2>3. Rec!Inside(t)' <=> Rec!Inside(t)
    BY <1>d, <2>1, <2>2 DEF Rec!Inside
  <2>4. Rec!OwnerAgrees'
    BY <1>0, <1>d, <2>1, <2>2 DEF Rec!OwnerAgrees
  <2>. QED
    BY <1>a, <1>d, <2>1, <2>2, <2>3, <2>4 DEF Rec!RecInv
<1>e. ASSUME NEW t \in Threads, pc[t] \in {"acq_base", "try_base"}, base = 0, base' = 1,
             pc' = [pc EXCEPT ![t] = "set_owner"], UNCHANGED <<owner, count, depth>>
      PROVE  Rec!RecInv'
  <2>1. Rec!TypeOK' /\ pc'[t] = "set_owner" /\ \A u \in Threads \ {t} : pc'[u] = pc[u]
    BY <1>0, <1>e DEF Rec!TypeOK
  <2>2. Rec!Holding' = {t} /\ Rec!Holding = {}
    BY <1>0, <1>e, <2>1 DEF Rec!Holding, Rec!Inside
  <2>3. Rec!OwnerAgrees'
    BY <1>0, <1>e, <2>1, <2>2 DEF Rec!OwnerAgrees, Rec!Holding, Rec!Inside
  <2>. QED
    BY <1>e, <2>1, <2>2, <2>3 DEF Rec!RecInv
<1>1. ASSUME NEW t \in Threads, Rec!AcquireReadOwner(t) PROVE Rec!RecInv'
  BY <1>1, <1>c, <1>d DEF Rec!AcquireReadOwner
<1>2. ASSUME NEW t \in Threads, Rec!AcquireBase(t) PROVE Rec!RecInv'
  BY <1>2, <1>e, Zenon DEF Rec!AcquireBase
<1>3. ASSUME NEW t \in Threads, Rec!SetOwner(t) PROVE Rec!RecInv'
  <2>1. pc[t] = "set_owner" /\ base = 1 /\ Rec!Holding = {t}
    BY <1>3, <1>b DEF Rec!SetOwner, Rec!Inside
  <2>2. /\ UNCHANGED <<base, count>> /\ owner' = t /\ depth'[t] = 1 /\ pc'[t] = "run"
        /\ Rec!TypeOK' /\ \A u \in Threads \ {t} : pc'[u] = pc[u] /\ depth'[u] = depth[u]
    BY <1>0, <1>3 DEF Rec!SetOwner, Rec!TypeOK
  <2>3. owner \notin Threads
    BY <1>0, <2>1 DEF Rec!OwnerAgrees, Rec!Holding, Rec!Inside, Rec!RecInv
  <2>4. count = 0
    BY <1>0, <2>3 DEF Rec!OwnerAgrees, Rec!TypeOK
  <2>5. Rec!Inside(t) /\ Rec!Inside(t)'
    BY <2>1, <2>2 DEF Rec!Inside
  <2>6. \A u \in Threads \ {t} : ~Rec!Inside(u)
    BY <2>1 DEF Rec!Holding
  <2>7. Rec!OwnerAgrees'
    BY <2>1, <2>2, <2>4, <2>6 DEF Rec!OwnerAgrees, Rec!Inside
  <2>. QED
    BY <1>a, <2>1, <2>2, <2>5, <2>7 DEF Rec!RecInv
<1>4. ASSUME NEW t \in Threads, Rec!TryReadOwner(t) PROVE Rec!RecInv'
  <2>1. CASE UNCHANGED Rec!vars
    BY <1>0, <2>1 DEF Rec!vars, Rec!RecInv, Rec!TypeOK, Rec!OwnerAgrees, Rec!Holding, Rec!Inside
  <2>. QED
    BY <1>4, <2>1, <1>c, <1>d DEF Rec!TryReadOwner
<1>5. ASSUME NEW t \in Threads, Rec!TryBase(t) PROVE Rec!RecInv'
  <2>1. CASE base = 0
    BY <1>5, <2>1, <1>e, Zenon DEF Rec!TryBase, Rec!BaseTry
  <2>2. CASE base # 0
    <3>1. /\ base = 1 /\ pc[t] = "try_base" /\ pc'[t] = "run"
          /\ UNCHANGED <<base, owner, count, depth>>
          /\ Rec!TypeOK' /\ (\A u \in Threads \ {t} : pc'[u] = pc[u]) /\ depth[t] = 0
      BY <1>0, <1>5, <2>2 DEF Rec!TryBase, Rec!BaseTry, Rec!TypeOK, Rec!RecInv
    <3>2. Rec!Inside(t)' <=> Rec!Inside(t)
      BY <3>1 DEF Rec!Inside
    <3>3. Rec!OwnerAgrees'
      BY <1>0, <3>1 DEF Rec!OwnerAgrees
    <3>. QED
      BY <1>a, <3>1, <3>2, <3>3 DEF Rec!RecInv
  <2>. QED
    BY <2>1, <2>2
<1>6. ASSUME NEW t \in Threads, Rec!Release(t) PROVE Rec!RecInv'
  <2>1. /\ pc[t] = "run" /\ depth[t] > 0 /\ owner = t /\ count = depth[t] - 1 /\ base = 1
        /\ UNCHANGED base /\ depth[t] \in Nat
    BY <1>0, <1>6 DEF Rec!Release, Rec!OwnerAgrees, Rec!TypeOK
  <2>2. Rec!Inside(t) /\ Rec!Holding = {t}
    BY <2>1, <1>b DEF Rec!Inside
  <2>3. \A u \in Threads \ {t} : ~Rec!Inside(u)
    BY <2>2 DEF Rec!Holding
  <2>4. CASE count = 0
    <3>1. /\ owner' = Null /\ pc'[t] = "rel_base" /\ UNCHANGED <<count, depth>> /\ depth[t] = 1
          /\ Rec!TypeOK' /\ \A u \in Threads \ {t} : pc'[u] = pc[u]
      BY <1>0, <1>6, <2>1, <2>4 DEF Rec!Release, Rec!TypeOK
    <3>2. Rec!OwnerAgrees'
      BY <2>3, <2>4, <3>1 DEF Rec!OwnerAgrees, Rec!Inside
    <3>3. Rec!Inside(t)'
      BY <2>1, <3>1 DEF Rec!Inside
    <3>. QED
      BY <1>a, <2>1, <2>2, <3>1, <3>2, <3>3 DEF Rec!RecInv
  <2>5. CASE count # 0
    <3>1. /\ UNCHANGED <<owner, pc>> /\ count' = count - 1
          /\ depth'[t] = depth[t] - 1 /\ depth'[t] > 0
          /\ Rec!TypeOK' /\ \A u \in Threads \ {t} : depth'[u] = depth[u]
      BY <1>0, <1>6, <2>1, <2>5 DEF Rec!Release, Rec!TypeOK
    <3>2. Rec!OwnerAgrees'
      BY <2>1, <2>3, <3>1 DEF Rec!OwnerAgrees, Rec!Inside
    <3>3. Rec!Inside(t)'
      BY <3>1 DEF Rec!Inside
    <3>. QED
      BY <1>a, <2>1, <2>2, <3>1, <3>2, <3>3 DEF Rec!RecInv
  <2>. QED
    BY <2>4, <2>5
<1>7. ASSUME NEW t \in Threads, Rec!ReleaseBase(t) PROVE Rec!RecInv'
  <2>1. pc[t] = "rel_base" /\ depth[t] = 1 /\ Rec!Inside(t) /\ Rec!Holding = {t}
    BY <1>7, <1>b DEF Rec!ReleaseBase, Rec!RecInv, Rec!Inside
  <2>2. /\ UNCHANGED <<owner, count>> /\ base' = 0 /\ depth'[t] = 0 /\ pc'[t] = "run"
        /\ Rec!TypeOK' /\ \A u \in Threads \ {t} : pc'[u] = pc[u] /\ depth'[u] = depth[u]
    BY <1>0, <1>7 DEF Rec!ReleaseBase, Rec!TypeOK
  <2>3. \A u \in Threads \ {t} : ~Rec!Inside(u)
    BY <2>1 DEF Rec!Holding
  <2>4. owner \notin Threads
    BY <1>0, <2>1, <2>3 DEF Rec!OwnerAgrees, Rec!Inside
  <2>5. Rec!Holding' = {}
    BY <2>2, <2>3 DEF Rec!Holding, Rec!Inside
  <2>6. Rec!OwnerAgrees'
    BY <1>0, <2>2, <2>3, <2>4 DEF Rec!OwnerAgrees, Rec!Inside
  <2>. QED
    BY <2>2, <2>5, <2>6 DEF Rec!RecInv
<1>8. CASE UNCHANGED Rec!vars
  BY <1>0, <1>8 DEF Rec!vars, Rec!RecInv, Rec!TypeOK, Rec!OwnerAgrees, Rec!Holding, Rec!Inside
<1>. QED
  BY <1>1, <1>2, <1>3, <1>4, <1>5, <1>6, <1>7, <1>8 DEF Rec!Next

(* Only one thread is inside the recursive lock, and owner and count are   *)
(* its own.                                                                *)
LEMMA RecSafe == Rec!RecInv => Rec!MutualExclusion /\ Rec!OwnerAgrees
BY DEF Rec!RecInv, Rec!MutualExclusion, Rec!TypeOK

(* The outermost acquire and release are those of a lock; reentering and   *)
(* the inner releases are stutters.                                        *)
LEMMA RecMutex ==
    ASSUME Rec!Parameters
    PROVE  Rec!RecInv /\ Rec!RecInv' /\ [Rec!Next]_(Rec!vars) => Rec!Lock!Step
<1>. SUFFICES ASSUME Rec!RecInv, Rec!RecInv', [Rec!Next]_(Rec!vars)
              PROVE  [Rec!Lock!Next]_(Rec!Lock!vars)
  BY DEF Rec!Lock!Step
<1>. USE DEF Rec!Goto, Rec!Parameters
<1>0. Rec!TypeOK /\ Rec!OwnerAgrees
  BY DEF Rec!RecInv
<1>h. /\ Rec!Holding = {} => Rec!HolderOf = Null
      /\ Rec!Holding' = {} => Rec!HolderOf' = Null
      /\ \A t \in Threads : Rec!Holding = {t} => Rec!HolderOf = t
      /\ \A t \in Threads : Rec!Holding' = {t} => Rec!HolderOf' = t
  BY DEF Rec!HolderOf
<1>g. ASSUME Rec!Holding' = Rec!Holding PROVE Rec!HolderOf' = Rec!HolderOf
  BY <1>g DEF Rec!HolderOf
<1>a. ASSUME NEW t \in Threads,
             \A u \in Threads \ {t} : pc'[u] = pc[u] /\ depth'[u] = depth[u],
             Rec!Inside(t)' <=> Rec!Inside(t)
      PROVE  Rec!HolderOf' = Rec!HolderOf
  <2>1. Rec!Holding' = Rec!Holding
    BY <1>a DEF Rec!Holding, Rec!Inside
  <2>. QED
    BY <2>1, <1>g
<1>b. ASSUME NEW t \in Threads, Rec!Inside(t) PROVE Rec!Holding = {t}
  BY <1>b DEF Rec!RecInv, Rec!Holding, Rec!TypeOK
<1>c. ASSUME NEW t \in Threads, Rec!MayCall(t), Rec!Reenter(t) PROVE UNCHANGED Rec!Lock!vars
  <2>1. /\ depth[t] > 0 /\ depth'[t] > 0 /\ UNCHANGED pc
        /\ \A u \in Threads \ {t} : depth'[u] = depth[u]
    BY <1>0, <1>c DEF Rec!Reenter, Rec!OwnerAgrees, Rec!TypeOK
  <2>2. Rec!HolderOf' = Rec!HolderOf
    BY <1>a, <2>1 DEF Rec!Inside
  <2>. QED
    BY <2>1, <2>2 DEF Rec!Lock!vars, Rec!Waiting
<1>d. ASSUME NEW t \in Threads, pc[t] \in {"acq_base", "try_base"}, base = 0,
             pc' = [pc EXCEPT ![t] = "set_owner"], UNCHANGED depth
      PROVE  Rec!HolderOf = Null /\ Rec!HolderOf' = t
  <2>1. Rec!Holding = {}
    BY <1>d DEF Rec!RecInv
  <2>2. pc'[t] = "set_owner" /\ \A u \in Threads \ {t} : pc'[u] = pc[u]
    BY <1>0, <1>d DEF Rec!TypeOK
  <2>3. Rec!Holding' = {t}
    BY <1>d, <2>1, <2>2 DEF Rec!Holding, Rec!Inside
  <2>. QED
    BY <1>h, <2>1, <2>3
<1>1. ASSUME NEW t \in Threads, Rec!AcquireReadOwner(t), ~Rec!Reenter(t) PROVE Rec!Lock!Request(t)
  <2>1. /\ pc[t] = "run" /\ depth[t] = 0 /\ pc'[t] = "acq_base" /\ UNCHANGED depth
        /\ \A u \in Threads \ {t} : pc'[u] = pc[u]
    BY <1>0, <1>1 DEF Rec!AcquireReadOwner, Rec!MayCall, Rec!OwnerAgrees, Rec!TypeOK
  <2>2. Rec!HolderOf' = Rec!HolderOf
    BY <1>a, <2>1 DEF Rec!Inside
  <2>3. Rec!Waiting' = Rec!Waiting \cup {t} /\ t \notin Rec!Waiting
    BY <2>1 DEF Rec!Waiting
  <2>4. Rec!HolderOf # t
    <3>1. t \notin Rec!Holding
      BY <2>1 DEF Rec!Holding, Rec!Inside
    <3>2. Rec!Holding # {} => Rec!HolderOf \in Rec!Holding
      BY DEF Rec!HolderOf
    <3>. QED
      BY <3>1, <3>2, <1>h
  <2>. QED
    BY <2>2, <2>3, <2>4 DEF Rec!Lock!Request
<1>2. ASSUME NEW t \in Threads, Rec!AcquireBase(t) PROVE Rec!Lock!Grant(t)
  <2>1. Rec!HolderOf = Null /\ Rec!HolderOf' = t
    BY <1>2, <1>d, Zenon DEF Rec!AcquireBase
  <2>2. t \in Rec!Waiting /\ Rec!Waiting' = Rec!Waiting \ {t}
    BY <1>0, <1>2 DEF Rec!AcquireBase, Rec!Waiting, Rec!TypeOK
  <2>. QED
    BY <2>1, <2>2 DEF Rec!Lock!Grant
<1>3. ASSUME NEW t \in Threads, Rec!SetOwner(t) PROVE UNCHANGED Rec!Lock!vars
  <2>1. /\ pc[t] = "set_owner" /\ depth'[t] = 1 /\ pc'[t] = "run"
        /\ \A u \in Threads \ {t} : pc'[u] = pc[u] /\ depth'[u] = depth[u]
    BY <1>0, <1>3 DEF Rec!SetOwner, Rec!TypeOK
  <2>2. Rec!HolderOf' = Rec!HolderOf
    BY <1>a, <2>1 DEF Rec!Inside
  <2>. QED
    BY <2>1, <2>2 DEF Rec!Lock!vars, Rec!Waiting
<1>4. ASSUME NEW t \in Threads, Rec!TryReadOwner(t), ~Rec!Reenter(t) PROVE UNCHANGED Rec!Lock!vars
  <2>1. CASE UNCHANGED Rec!vars
    BY <2>1 DEF Rec!vars, Rec!Lock!vars, Rec!Waiting, Rec!HolderOf, Rec!Holding, Rec!Inside
  <2>2. CASE ~UNCHANGED Rec!vars
    <3>1. /\ pc[t] = "run" /\ pc'[t] = "try_base" /\ UNCHANGED depth
          /\ \A u \in Threads \ {t} : pc'[u] = pc[u]
      BY <1>0, <1>4, <2>2 DEF Rec!TryReadOwner, Rec!MayCall, Rec!TypeOK
    <3>2. Rec!HolderOf' = Rec!HolderOf
      BY <1>a, <3>1 DEF Rec!Inside
    <3>. QED
      BY <3>1, <3>2 DEF Rec!Lock!vars, Rec!Waiting
  <2>. QED
    BY <2>1, <2>2
<1>5. ASSUME NEW t \in Threads, Rec!TryBase(t) PROVE Rec!Lock!TryGrant(t) \/ UNCHANGED Rec!Lock!vars
  <2>1. /\ pc[t] = "try_base" /\ UNCHANGED depth /\ pc'[t] \in {"set_owner", "run"}
        /\ \A u \in Threads \ {t} : pc'[u] = pc[u]
    BY <1>0, <1>5 DEF Rec!TryBase, Rec!TypeOK
  <2>2. Rec!Waiting' = Rec!Waiting /\ t \notin Rec!Waiting
    BY <2>1 DEF Rec!Waiting
  <2>3. CASE base = 0
    <3>1. Rec!HolderOf = Null /\ Rec!HolderOf' = t
      BY <1>5, <1>d, <2>3, Zenon DEF Rec!TryBase, Rec!BaseTry
    <3>. QED
      BY <2>2, <3>1 DEF Rec!Lock!TryGrant
  <2>4. CASE base # 0
    <3>1. pc'[t] = "run"
      BY <1>0, <1>5, <2>4 DEF Rec!TryBase, Rec!BaseTry, Rec!TypeOK
    <3>2. Rec!HolderOf' = Rec!HolderOf
      BY <1>a, <2>1, <3>1 DEF Rec!Inside
    <3>. QED
      BY <2>2, <3>2 DEF Rec!Lock!vars
  <2>. QED
    BY <2>3, <2>4
<1>6. ASSUME NEW t \in Threads, Rec!Release(t) PROVE UNCHANGED Rec!Lock!vars
  <2>1. /\ pc[t] = "run" /\ depth[t] > 0 /\ depth'[t] > 0 /\ pc'[t] \in {"run", "rel_base"}
        /\ \A u \in Threads \ {t} : pc'[u] = pc[u] /\ depth'[u] = depth[u]
    BY <1>0, <1>6 DEF Rec!Release, Rec!TypeOK, Rec!OwnerAgrees
  <2>2. Rec!HolderOf' = Rec!HolderOf
    BY <1>a, <2>1 DEF Rec!Inside
  <2>. QED
    BY <2>1, <2>2 DEF Rec!Lock!vars, Rec!Waiting
<1>7. ASSUME NEW t \in Threads, Rec!ReleaseBase(t) PROVE Rec!Lock!Release(t)
  <2>1. /\ pc[t] = "rel_base" /\ depth[t] = 1 /\ depth'[t] = 0 /\ pc'[t] = "run"
        /\ \A u \in Threads \ {t} : pc'[u] = pc[u] /\ depth'[u] = depth[u]
    BY <1>0, <1>7 DEF Rec!ReleaseBase, Rec!TypeOK, Rec!RecInv
  <2>2. Rec!Holding = {t}
    BY <1>b, <2>1 DEF Rec!Inside
  <2>3. Rec!Holding' = {}
    BY <2>1, <2>2 DEF Rec!Holding, Rec!Inside
  <2>. QED
    BY <1>h, <2>1, <2>2, <2>3 DEF Rec!Lock!Release, Rec!Waiting
<1>8. CASE UNCHANGED Rec!vars
  BY <1>8 DEF Rec!vars, Rec!Lock!vars, Rec!Waiting, Rec!HolderOf, Rec!Holding, Rec!Inside
<1>9. ASSUME NEW t \in Threads, Rec!AcquireReadOwner(t) \/ Rec!TryReadOwner(t), Rec!Reenter(t)
      PROVE  UNCHANGED Rec!Lock!vars
  BY <1>9, <1>c DEF Rec!AcquireReadOwner, Rec!TryReadOwner
<1>. QED
  BY <1>1, <1>2, <1>3, <1>4, <1>5, <1>6, <1>7, <1>8, <1>9 DEF Rec!Next, Rec!Lock!Next

(* Nobody waits for or holds the recursive lock at first.                  *)
LEMMA RecMutexInit == Rec!Init => Rec!Lock!Init
BY DEF Rec!Init, Rec!Lock!Init, Rec!HolderOf, Rec!Holding, Rec!Inside, Rec!Waiting

(* Over a base lock whose tryacquire answers as recursive_lock.h expects,  *)
(* for any set of threads and any depth, one thread is inside, owner and   *)
(* count are its own, and the outermost calls are those of a lock.         *)
THEOREM RecursiveLockCorrect ==
    ASSUME Rec!Parameters
    PROVE  Rec!Spec => []Rec!MutualExclusion /\ []Rec!OwnerAgrees /\ Rec!Lock!Spec
BY RecInit, RecStep, RecSafe, RecMutexInit, RecMutex, PTL DEF Rec!Spec, Rec!Lock!Spec, Rec!Lock!Step
-----------------------------------------------------------------------------
(* With tryacquire as in caslock.h.orig. *)
Cas == INSTANCE CasLock WITH Threads <- Many, Orig <- TRUE

(* While the lock is free nobody holds it, and the holder is the one       *)
(* thread between acquire and release: what the steps below need of        *)
(* LockInv to know the holder of the mapping.                              *)
LEMMA CasHolder ==
    ASSUME Cas!LockInv
    PROVE  /\ lock = 0 => Cas!HolderOf = Null
           /\ \A t \in Cas!Holding : Cas!HolderOf = t /\ lock = 1 /\ Cas!Holding = {t}
<1>1. lock = 0 => Cas!HolderOf = Null
  BY DEF Cas!LockInv, Cas!HolderOf
<1>2. ASSUME NEW t \in Cas!Holding PROVE Cas!HolderOf = t /\ lock = 1 /\ Cas!Holding = {t}
  <2>1. lock = 1 /\ Cas!Holding = {t}
    BY <1>2 DEF Cas!LockInv
  <2>. QED
    BY <2>1 DEF Cas!HolderOf
<1>. QED
  BY <1>1, <1>2

(* What the two ways to take the lock, the cmpxchg of acquire and of       *)
(* tryacquire, have in common: they answer success only on a free word.    *)
LEMMA CasStep == Cas!LockInv /\ [Cas!Next]_(Cas!vars) => Cas!LockInv'
<1>. SUFFICES ASSUME Cas!LockInv, [Cas!Next]_(Cas!vars) PROVE Cas!LockInv'
  OBVIOUS
<1>1. ASSUME NEW t \in Many, Cas!Acquire(t) PROVE Cas!LockInv'
  <2>1. lock' = lock /\ Cas!Holding' = Cas!Holding /\ pc' \in [Many -> {"idle", "await", "cs"}]
    BY <1>1 DEF Cas!LockInv, Cas!Acquire, Cas!Goto, Cas!Holding
  <2>. QED
    BY <2>1 DEF Cas!LockInv
<1>2. ASSUME NEW t \in Many, Cas!AcquireCas(t) \/ Cas!TryAcquire(t) PROVE Cas!LockInv'
  <2>1. lock' = 1 /\ pc' \in [Many -> {"idle", "await", "cs"}]
    BY <1>2 DEF Cas!LockInv, Cas!AcquireCas, Cas!TryAcquire, Cas!Goto
  <2>2. CASE lock = 0
    <3>1. Cas!Holding' = {t}
      BY <1>2, <2>2 DEF Cas!LockInv, Cas!AcquireCas, Cas!TryAcquire, Cas!TrySucceeded, Cas!Goto,
         Cas!Holding
    <3>. QED
      BY <2>1, <3>1 DEF Cas!LockInv
  <2>3. CASE lock = 1
    <3>1. Cas!Holding' = Cas!Holding
      BY <1>2, <2>3 DEF Cas!LockInv, Cas!AcquireCas, Cas!TryAcquire, Cas!TrySucceeded, Cas!Goto,
         Cas!Holding
    <3>. QED
      BY <2>1, <2>3, <3>1 DEF Cas!LockInv
  <2>. QED
    BY <2>2, <2>3 DEF Cas!LockInv
<1>3. ASSUME NEW t \in Many, Cas!Release(t) PROVE Cas!LockInv'
  <2>1. Cas!Holding = {t}
    BY <1>3, CasHolder DEF Cas!Release, Cas!Holding
  <2>2. lock' = 0 /\ Cas!Holding' = {} /\ pc' \in [Many -> {"idle", "await", "cs"}]
    BY <1>3, <2>1 DEF Cas!LockInv, Cas!Release, Cas!Goto, Cas!Holding
  <2>. QED
    BY <2>2 DEF Cas!LockInv
<1>4. CASE UNCHANGED Cas!vars
  BY <1>4 DEF Cas!LockInv, Cas!vars, Cas!Holding
<1>. QED
  BY <1>1, <1>2, <1>3, <1>4 DEF Cas!Next

(* caslock_init, and the abstract lock before the first call.              *)
LEMMA CasInit == Cas!Init => Cas!LockInv /\ Cas!Lock!Init
BY DEF Cas!Init, Cas!LockInv, Cas!Holding, Cas!Lock!Init, Cas!Waiting, Cas!HolderOf

(* Only one thread can be the holder that LockInv names.                   *)
LEMMA CasSafe == Cas!LockInv => Cas!MutualExclusion
BY DEF Cas!LockInv, Cas!MutualExclusion

(* acquire, tryacquire and release of caslock.h.orig are those of a lock;  *)
(* a tryacquire that finds the word taken is a stutter.                    *)
LEMMA CasMutex ==
    ASSUME Null \notin Many
    PROVE  Cas!LockInv /\ Cas!LockInv' /\ [Cas!Next]_(Cas!vars) => Cas!Lock!Step
<1>. SUFFICES ASSUME Cas!LockInv, Cas!LockInv', [Cas!Next]_(Cas!vars)
              PROVE  Cas!Lock!Next \/ (Cas!Waiting' = Cas!Waiting /\ Cas!HolderOf' = Cas!HolderOf)
  BY DEF Cas!Lock!Step, Cas!Lock!vars
<1>0. /\ lock' = 0 => Cas!HolderOf' = Null
      /\ \A t \in Cas!Holding' : Cas!HolderOf' = t
  <2>1. lock' = 0 => Cas!HolderOf' = Null
    BY DEF Cas!LockInv, Cas!HolderOf
  <2>2. ASSUME NEW t \in Cas!Holding' PROVE Cas!HolderOf' = t
    <3>1. Cas!Holding' = {t}
      BY <2>2 DEF Cas!LockInv
    <3>. QED
      BY <3>1 DEF Cas!HolderOf
  <2>. QED
    BY <2>1, <2>2
<1>1. ASSUME NEW t \in Many, Cas!Acquire(t) PROVE Cas!Lock!Request(t)
  <2>1. /\ Cas!Holding' = Cas!Holding /\ Cas!Waiting' = Cas!Waiting \cup {t}
        /\ t \notin Cas!Waiting /\ t \notin Cas!Holding
    BY <1>1 DEF Cas!LockInv, Cas!Acquire, Cas!Goto, Cas!Holding, Cas!Waiting
  <2>2. Cas!HolderOf # t /\ Cas!HolderOf' = Cas!HolderOf
    BY <2>1 DEF Cas!HolderOf
  <2>. QED
    BY <2>1, <2>2 DEF Cas!Lock!Request
<1>2. ASSUME NEW t \in Many, Cas!AcquireCas(t) PROVE Cas!Lock!Grant(t)
  <2>1. t \in Cas!Waiting /\ Cas!Waiting' = Cas!Waiting \ {t} /\ t \in Cas!Holding' /\ lock = 0
    BY <1>2 DEF Cas!LockInv, Cas!AcquireCas, Cas!Goto, Cas!Holding, Cas!Waiting
  <2>. QED
    BY <1>0, <2>1, CasHolder DEF Cas!Lock!Grant
<1>3. ASSUME NEW t \in Many, Cas!TryAcquire(t), lock = 0 PROVE Cas!Lock!TryGrant(t)
  <2>1. t \notin Cas!Waiting /\ Cas!Waiting' = Cas!Waiting /\ t \in Cas!Holding'
    BY <1>3 DEF Cas!LockInv, Cas!TryAcquire, Cas!TrySucceeded, Cas!Goto, Cas!Holding, Cas!Waiting
  <2>. QED
    BY <1>0, <1>3, <2>1, CasHolder DEF Cas!Lock!TryGrant
<1>4. ASSUME NEW t \in Many, Cas!TryAcquire(t), lock = 1
      PROVE  Cas!Waiting' = Cas!Waiting /\ Cas!HolderOf' = Cas!HolderOf
  BY <1>4 DEF Cas!LockInv, Cas!TryAcquire, Cas!TrySucceeded, Cas!Goto, Cas!Holding, Cas!Waiting,
     Cas!HolderOf
<1>5. ASSUME NEW t \in Many, Cas!Release(t) PROVE Cas!Lock!Release(t)
  <2>1. t \in Cas!Holding /\ Cas!Waiting' = Cas!Waiting /\ lock' = 0
    BY <1>5 DEF Cas!LockInv, Cas!Release, Cas!Goto, Cas!Holding, Cas!Waiting
  <2>. QED
    BY <1>0, <2>1, CasHolder DEF Cas!Lock!Release
<1>6. CASE UNCHANGED Cas!vars
  BY <1>6 DEF Cas!vars, Cas!Waiting, Cas!HolderOf, Cas!Holding
<1>7. lock = 0 \/ lock = 1
  BY DEF Cas!LockInv
<1>. QED
  BY <1>1, <1>2, <1>3, <1>4, <1>5, <1>6, <1>7 DEF Cas!Next, Cas!Lock!Next

(* The word of caslock.h.orig is 1 exactly while one thread is between     *)
(* acquire and release, and its calls are those of a lock, for any set of  *)
(* threads.                                                                *)
THEOREM CasLockCorrect ==
    ASSUME Null \notin Many PROVE Cas!Spec => []Cas!LockInv /\ Cas!Lock!Spec
BY CasInit, CasStep, CasMutex, PTL DEF Cas!Spec, Cas!Lock!Spec, Cas!Lock!Step
-----------------------------------------------------------------------------
Ttas == INSTANCE TtasLock WITH Threads <- Many

(* While the lock is free nobody holds it, and the holder is the one       *)
(* thread between acquire and release: what the steps below need of        *)
(* LockInv to know the holder of the mapping.                              *)
LEMMA TtasHolder ==
    ASSUME Ttas!LockInv
    PROVE  /\ lock = 0 => Ttas!HolderOf = Null
           /\ \A t \in Ttas!Holding : Ttas!HolderOf = t /\ lock = 1 /\ Ttas!Holding = {t}
<1>1. lock = 0 => Ttas!HolderOf = Null
  BY DEF Ttas!LockInv, Ttas!HolderOf
<1>2. ASSUME NEW t \in Ttas!Holding PROVE Ttas!HolderOf = t /\ lock = 1 /\ Ttas!Holding = {t}
  <2>1. lock = 1 /\ Ttas!Holding = {t}
    BY <1>2 DEF Ttas!LockInv
  <2>. QED
    BY <2>1 DEF Ttas!HolderOf
<1>. QED
  BY <1>1, <1>2

(* Every access of ttaslock.h keeps the word and the critical section in   *)
(* agreement.                                                              *)
LEMMA TtasStep == Ttas!LockInv /\ [Ttas!Next]_(Ttas!vars) => Ttas!LockInv'
<1>. SUFFICES ASSUME Ttas!LockInv, [Ttas!Next]_(Ttas!vars) PROVE Ttas!LockInv'
  OBVIOUS
<1>1. ASSUME NEW t \in Many, Ttas!Acquire(t) \/ Ttas!AcquireTest(t) PROVE Ttas!LockInv'
  <2>1. /\ lock' = lock /\ Ttas!Holding' = Ttas!Holding
        /\ pc' \in [Many -> {"idle", "test", "set", "cs"}]
    BY <1>1 DEF Ttas!LockInv, Ttas!Acquire, Ttas!AcquireTest, Ttas!Goto, Ttas!Holding
  <2>. QED
    BY <2>1 DEF Ttas!LockInv
<1>2. ASSUME NEW t \in Many, Ttas!AcquireSet(t) \/ Ttas!TryAcquire(t) PROVE Ttas!LockInv'
  <2>1. lock' = 1 /\ pc' \in [Many -> {"idle", "test", "set", "cs"}]
    BY <1>2 DEF Ttas!LockInv, Ttas!AcquireSet, Ttas!TryAcquire, Ttas!Goto
  <2>2. CASE lock = 0
    <3>1. Ttas!Holding' = {t}
      BY <1>2, <2>2 DEF Ttas!LockInv, Ttas!AcquireSet, Ttas!TryAcquire, Ttas!Goto, Ttas!Holding
    <3>. QED
      BY <2>1, <3>1 DEF Ttas!LockInv
  <2>3. CASE lock = 1
    <3>1. Ttas!Holding' = Ttas!Holding
      BY <1>2, <2>3 DEF Ttas!LockInv, Ttas!AcquireSet, Ttas!TryAcquire, Ttas!Goto, Ttas!Holding
    <3>. QED
      BY <2>1, <2>3, <3>1 DEF Ttas!LockInv
  <2>. QED
    BY <2>2, <2>3 DEF Ttas!LockInv
<1>3. ASSUME NEW t \in Many, Ttas!Release(t) PROVE Ttas!LockInv'
  <2>1. t \in Ttas!Holding
    BY <1>3 DEF Ttas!Release, Ttas!Holding
  <2>2. Ttas!Holding = {t}
    BY <2>1, TtasHolder
  <2>3. lock' = 0 /\ Ttas!Holding' = {} /\ pc' \in [Many -> {"idle", "test", "set", "cs"}]
    BY <1>3, <2>2 DEF Ttas!LockInv, Ttas!Release, Ttas!Goto, Ttas!Holding
  <2>. QED
    BY <2>3 DEF Ttas!LockInv
<1>4. CASE UNCHANGED Ttas!vars
  BY <1>4 DEF Ttas!LockInv, Ttas!vars, Ttas!Holding
<1>. QED
  BY <1>1, <1>2, <1>3, <1>4 DEF Ttas!Next

(* ttaslock_init, and the abstract lock before the first call.             *)
LEMMA TtasInit == Ttas!Init => Ttas!LockInv /\ Ttas!Lock!Init
BY DEF Ttas!Init, Ttas!LockInv, Ttas!Holding, Ttas!Lock!Init, Ttas!Waiting, Ttas!HolderOf

(* Test, set and release of ttaslock.h are the steps of a lock: the test   *)
(* changes nothing, a set that finds the word taken neither.               *)
LEMMA TtasMutex ==
    ASSUME Null \notin Many
    PROVE  Ttas!LockInv /\ Ttas!LockInv' /\ [Ttas!Next]_(Ttas!vars) => Ttas!Lock!Step
<1>. SUFFICES ASSUME Ttas!LockInv, Ttas!LockInv', [Ttas!Next]_(Ttas!vars)
              PROVE  \/ Ttas!Lock!Next
                     \/ Ttas!Waiting' = Ttas!Waiting /\ Ttas!HolderOf' = Ttas!HolderOf
  BY DEF Ttas!Lock!Step, Ttas!Lock!vars
<1>0. /\ lock' = 0 => Ttas!HolderOf' = Null
      /\ \A t \in Ttas!Holding' : Ttas!HolderOf' = t
  <2>1. lock' = 0 => Ttas!HolderOf' = Null
    BY DEF Ttas!LockInv, Ttas!HolderOf
  <2>2. ASSUME NEW t \in Ttas!Holding' PROVE Ttas!HolderOf' = t
    <3>1. Ttas!Holding' = {t}
      BY <2>2 DEF Ttas!LockInv
    <3>. QED
      BY <3>1 DEF Ttas!HolderOf
  <2>. QED
    BY <2>1, <2>2
<1>1. ASSUME NEW t \in Many, Ttas!Acquire(t) PROVE Ttas!Lock!Request(t)
  <2>1. /\ Ttas!Holding' = Ttas!Holding /\ Ttas!Waiting' = Ttas!Waiting \cup {t}
        /\ t \notin Ttas!Waiting /\ t \notin Ttas!Holding
    BY <1>1 DEF Ttas!LockInv, Ttas!Acquire, Ttas!Goto, Ttas!Holding, Ttas!Waiting
  <2>2. Ttas!HolderOf # t /\ Ttas!HolderOf' = Ttas!HolderOf
    BY <2>1 DEF Ttas!HolderOf
  <2>. QED
    BY <2>1, <2>2 DEF Ttas!Lock!Request
<1>2. ASSUME NEW t \in Many, Ttas!AcquireTest(t)
      PROVE  Ttas!Waiting' = Ttas!Waiting /\ Ttas!HolderOf' = Ttas!HolderOf
  BY <1>2 DEF Ttas!LockInv, Ttas!AcquireTest, Ttas!Goto, Ttas!Holding, Ttas!Waiting, Ttas!HolderOf
<1>3. ASSUME NEW t \in Many, Ttas!AcquireSet(t), lock = 0 PROVE Ttas!Lock!Grant(t)
  <2>1. t \in Ttas!Waiting /\ Ttas!Waiting' = Ttas!Waiting \ {t} /\ t \in Ttas!Holding'
    BY <1>3 DEF Ttas!LockInv, Ttas!AcquireSet, Ttas!Goto, Ttas!Holding, Ttas!Waiting
  <2>. QED
    BY <1>0, <1>3, <2>1, TtasHolder DEF Ttas!Lock!Grant
<1>4. ASSUME NEW t \in Many, Ttas!TryAcquire(t), lock = 0 PROVE Ttas!Lock!TryGrant(t)
  <2>1. t \notin Ttas!Waiting /\ Ttas!Waiting' = Ttas!Waiting /\ t \in Ttas!Holding'
    BY <1>4 DEF Ttas!LockInv, Ttas!TryAcquire, Ttas!Goto, Ttas!Holding, Ttas!Waiting
  <2>. QED
    BY <1>0, <1>4, <2>1, TtasHolder DEF Ttas!Lock!TryGrant
<1>5. ASSUME NEW t \in Many, Ttas!AcquireSet(t) \/ Ttas!TryAcquire(t), lock = 1
      PROVE  Ttas!Waiting' = Ttas!Waiting /\ Ttas!HolderOf' = Ttas!HolderOf
  BY <1>5 DEF Ttas!LockInv, Ttas!AcquireSet, Ttas!TryAcquire, Ttas!Goto, Ttas!Holding, Ttas!Waiting,
     Ttas!HolderOf
<1>6. ASSUME NEW t \in Many, Ttas!Release(t) PROVE Ttas!Lock!Release(t)
  <2>1. t \in Ttas!Holding /\ Ttas!Waiting' = Ttas!Waiting /\ lock' = 0
    BY <1>6 DEF Ttas!LockInv, Ttas!Release, Ttas!Goto, Ttas!Holding, Ttas!Waiting
  <2>. QED
    BY <1>0, <2>1, TtasHolder DEF Ttas!Lock!Release
<1>7. CASE UNCHANGED Ttas!vars
  BY <1>7 DEF Ttas!vars, Ttas!Waiting, Ttas!HolderOf, Ttas!Holding
<1>8. lock = 0 \/ lock = 1
  BY DEF Ttas!LockInv
<1>. QED
  BY <1>1, <1>2, <1>3, <1>4, <1>5, <1>6, <1>7, <1>8 DEF Ttas!Next, Ttas!Lock!Next

(* Only one thread can be the holder that LockInv names.                   *)
LEMMA TtasSafe == Ttas!LockInv => Ttas!MutualExclusion
BY DEF Ttas!LockInv, Ttas!MutualExclusion

(* The same for ttaslock.h: a thread that saw the lock free sets it        *)
(* without harm whoever took it meanwhile.                                 *)
THEOREM TtasLockCorrect ==
    ASSUME Null \notin Many PROVE Ttas!Spec => []Ttas!LockInv /\ Ttas!Lock!Spec
BY TtasInit, TtasStep, TtasMutex, PTL DEF Ttas!Spec, Ttas!Lock!Spec, Ttas!Lock!Step
-----------------------------------------------------------------------------
Fifo == INSTANCE FifoMutex

(* Whoever is queued and not inside waits; the head is the holder. *)
Waiting == Fifo!Queued \ (IF held THEN {Head(queue)} ELSE {})
Holder == IF held THEN Head(queue) ELSE Null

Lock == INSTANCE Mutex WITH waiting <- Waiting, holder <- Holder, NoThread <- Null

(* What appending and removing do to the set of queued threads.            *)
LEMMA QueuedAppend ==
    ASSUME Fifo!TypeOK, NEW t \in Threads, queue' = Append(queue, t)
    PROVE  /\ Fifo!Queued' = Fifo!Queued \cup {t}
           /\ queue # <<>> => Head(queue') = Head(queue)
<1>1. queue \in Seq(Threads)
  BY DEF Fifo!TypeOK
<1>2. Len(queue') = Len(queue) + 1 /\ queue'[Len(queue) + 1] = t
      /\ \A i \in 1..Len(queue) : queue'[i] = queue[i]
  BY <1>1
<1>3. Len(queue) \in Nat
  BY <1>1
<1>4. 1..(Len(queue) + 1) = 1..Len(queue) \cup {Len(queue) + 1}
  BY <1>3
<1>5. Fifo!Queued' = {queue'[i] : i \in 1..Len(queue')}
  BY DEF Fifo!Queued
<1>6. Fifo!Queued' = Fifo!Queued \cup {t}
  BY <1>2, <1>3, <1>4, <1>5 DEF Fifo!Queued
<1>7. queue # <<>> => Head(queue') = Head(queue)
  BY <1>1, <1>2
<1>. QED
  BY <1>6, <1>7

(* Removing the head takes one thread from the queue.                      *)
LEMMA QueuedTail ==
    ASSUME Fifo!TypeOK, queue # <<>>, queue' = Tail(queue)
    PROVE  Fifo!Queued' = Fifo!Queued \ {Head(queue)}
<1>1. queue \in Seq(Threads) /\ Len(queue) \in Nat \ {0} /\ Head(queue) = queue[1]
  BY DEF Fifo!TypeOK
<1>2. Len(queue') = Len(queue) - 1 /\ \A i \in 1..(Len(queue) - 1) : queue'[i] = queue[i + 1]
  BY <1>1
<1>3. \A i, j \in 1..Len(queue) : queue[i] = queue[j] => i = j
  BY DEF Fifo!TypeOK
<1>4. Fifo!Queued' = {queue[i + 1] : i \in 1..(Len(queue) - 1)}
  BY <1>2, Zenon DEF Fifo!Queued
<1>5. ASSUME NEW i \in 1..(Len(queue) - 1)
      PROVE  queue[i + 1] \in Fifo!Queued \ {Head(queue)}
  BY <1>1, <1>3 DEF Fifo!Queued
<1>6. ASSUME NEW u \in Fifo!Queued \ {Head(queue)}
      PROVE  \E i \in 1..(Len(queue) - 1) : u = queue[i + 1]
  <2>1. PICK k \in 1..Len(queue) : u = queue[k]
    BY DEF Fifo!Queued
  <2>2. k # 1 /\ k - 1 \in 1..(Len(queue) - 1) /\ u = queue[(k - 1) + 1]
    BY <1>1, <2>1
  <2>. QED
    BY <2>2
<1>. QED
  BY <1>4, <1>5, <1>6

(* The head of the queue is a queued thread.                               *)
LEMMA HeadQueued ==
    ASSUME Fifo!TypeOK, queue # <<>>
    PROVE  Head(queue) \in Fifo!Queued /\ Head(queue) \in Threads
BY DEF Fifo!TypeOK, Fifo!Queued

(* No thread is twice in the queue, and only a queued thread holds.        *)
LEMMA FifoTypeOK == Fifo!TypeOK /\ [Fifo!Next]_(Fifo!vars) => Fifo!TypeOK'
<1>. SUFFICES ASSUME Fifo!TypeOK, [Fifo!Next]_(Fifo!vars) PROVE Fifo!TypeOK'
  OBVIOUS
<1>0. queue \in Seq(Threads) /\ held \in BOOLEAN
  BY DEF Fifo!TypeOK
<1>1. ASSUME NEW t \in Threads, Fifo!Request(t) PROVE Fifo!TypeOK'
  <2>1. queue' \in Seq(Threads) /\ queue' # <<>> /\ held' \in BOOLEAN
    BY <1>0, <1>1 DEF Fifo!Request
  <2>2. Len(queue') = Len(queue) + 1 /\ queue'[Len(queue) + 1] = t
        /\ \A i \in 1..Len(queue) : queue'[i] = queue[i] /\ queue[i] # t
    BY <1>0, <1>1 DEF Fifo!Request, Fifo!Queued
  <2>3. \A i, j \in 1..Len(queue') : queue'[i] = queue'[j] => i = j
    BY <1>0, <2>2 DEF Fifo!TypeOK
  <2>. QED
    BY <2>1, <2>3 DEF Fifo!TypeOK
<1>2. ASSUME NEW t \in Threads, Fifo!Grant(t) PROVE Fifo!TypeOK'
  BY <1>2 DEF Fifo!Grant, Fifo!TypeOK
<1>3. ASSUME NEW t \in Threads, Fifo!TryGrant(t) PROVE Fifo!TypeOK'
  BY <1>3 DEF Fifo!TryGrant, Fifo!TypeOK
<1>4. ASSUME NEW t \in Threads, Fifo!Release(t) PROVE Fifo!TypeOK'
  <2>1. queue # <<>> /\ queue' = Tail(queue) /\ held' = FALSE
    BY <1>4 DEF Fifo!Release, Fifo!TypeOK
  <2>2. queue' \in Seq(Threads) /\ Len(queue') = Len(queue) - 1
        /\ \A i \in 1..Len(queue') : queue'[i] = queue[i + 1]
    BY <1>0, <2>1
  <2>3. \A i, j \in 1..Len(queue') : queue'[i] = queue'[j] => i = j
    BY <1>0, <2>1, <2>2 DEF Fifo!TypeOK
  <2>. QED
    BY <2>1, <2>2, <2>3, Zenon DEF Fifo!TypeOK
<1>5. CASE UNCHANGED Fifo!vars
  BY <1>5 DEF Fifo!vars, Fifo!TypeOK
<1>. QED
  BY <1>1, <1>2, <1>3, <1>4, <1>5 DEF Fifo!Next

(* Every step of a FIFO lock is the step of the same name of a lock.       *)
LEMMA FifoStep ==
    ASSUME Null \notin Threads, Fifo!TypeOK, [Fifo!Next]_(Fifo!vars)
    PROVE  [Lock!Next]_(Lock!vars)
<1>1. ASSUME NEW t \in Threads, Fifo!Request(t) PROVE Lock!Request(t)
  <2>1. Fifo!Queued' = Fifo!Queued \cup {t} /\ (queue # <<>> => Head(queue') = Head(queue))
    BY <1>1, QueuedAppend DEF Fifo!Request
  <2>2. CASE held
    <3>1. queue # <<>> /\ held' /\ Head(queue') = Head(queue) /\ Head(queue) \in Fifo!Queued
      BY <1>1, <2>1, <2>2, HeadQueued DEF Fifo!Request, Fifo!TypeOK
    <3>. QED
      BY <1>1, <2>1, <2>2, <3>1 DEF Fifo!Request, Lock!Request, Waiting, Holder
  <2>3. CASE ~held
    BY <1>1, <2>1, <2>3 DEF Fifo!Request, Lock!Request, Waiting, Holder
  <2>. QED
    BY <2>2, <2>3
<1>2. ASSUME NEW t \in Threads, Fifo!Grant(t) PROVE Lock!Grant(t)
  <2>1. t \in Fifo!Queued /\ Fifo!Queued' = Fifo!Queued
    BY <1>2, HeadQueued DEF Fifo!Grant, Fifo!Queued
  <2>. QED
    BY <1>2, <2>1 DEF Fifo!Grant, Lock!Grant, Waiting, Holder
<1>3. ASSUME NEW t \in Threads, Fifo!TryGrant(t) PROVE Lock!TryGrant(t)
  <2>1. ~held /\ Fifo!Queued = {} /\ Len(queue') = 1 /\ Head(queue') = t /\ queue'[1] = t
    BY <1>3 DEF Fifo!TryGrant, Fifo!TypeOK, Fifo!Queued
  <2>2. Fifo!Queued' = {t}
    BY <2>1 DEF Fifo!Queued
  <2>. QED
    BY <1>3, <2>1, <2>2 DEF Fifo!TryGrant, Lock!TryGrant, Waiting, Holder
<1>4. ASSUME NEW t \in Threads, Fifo!Release(t) PROVE Lock!Release(t)
  <2>1. Fifo!Queued' = Fifo!Queued \ {t}
    BY <1>4, QueuedTail DEF Fifo!Release, Fifo!TypeOK
  <2>. QED
    BY <1>4, <2>1 DEF Fifo!Release, Lock!Release, Waiting, Holder
<1>5. CASE UNCHANGED Fifo!vars
  BY <1>5 DEF Fifo!vars, Lock!vars, Waiting, Holder, Fifo!Queued
<1>. QED
  BY <1>1, <1>2, <1>3, <1>4, <1>5 DEF Fifo!Next, Lock!Next

(* Granting in order of arrival, as ticketlock.h, mcslock.h, clhlock.h,    *)
(* hemlock.h, arraylock.h and twalock.h do, is one way to keep the promise *)
(* of a lock, for any set of threads.                                      *)
THEOREM FifoIsMutex == ASSUME Null \notin Threads PROVE Fifo!Spec => Lock!Spec
<1>1. Fifo!Init => Fifo!TypeOK
  <2>. SUFFICES ASSUME Fifo!Init PROVE Fifo!TypeOK
    OBVIOUS
  <2>1. queue \in Seq(Threads) /\ \A i, j \in 1..Len(queue) : queue[i] = queue[j] => i = j
    BY DEF Fifo!Init
  <2>2. held = FALSE
    BY DEF Fifo!Init
  <2>. QED
    BY <2>1, <2>2, Zenon DEF Fifo!TypeOK
<1>2. Fifo!Init => Lock!Init
  BY DEF Fifo!Init, Lock!Init, Waiting, Holder, Fifo!Queued
<1>3. Fifo!TypeOK /\ [Fifo!Next]_(Fifo!vars) => Fifo!TypeOK'
  BY FifoTypeOK
<1>4. Fifo!TypeOK /\ [Fifo!Next]_(Fifo!vars) => [Lock!Next]_(Lock!vars)
  BY FifoStep
<1>. QED
  BY <1>1, <1>2, <1>3, <1>4, PTL DEF Fifo!Spec, Lock!Spec
-----------------------------------------------------------------------------
(* The locks together, as MCLocks runs them.                               *)
Parameters == Null \notin Many /\ Rec!Parameters /\ Clh!Parameters /\ Mcs!Parameters

(* How each of them starts, as a memory and as a lock.                     *)
LEMMA AllInit ==
    ASSUME Parameters
    PROVE  /\ Cas!Init => Cas!LockInv /\ Cas!Lock!Init
           /\ Ttas!Init => Ttas!LockInv /\ Ttas!Lock!Init
           /\ Rec!Init => Rec!RecInv /\ Rec!Lock!Init
           /\ Clh!Init => Clh!ClhInv /\ Clh!Fifo!Init
           /\ Mcs!Init => Mcs!McsInv /\ Mcs!Fifo!Init
BY CasInit, TtasInit, RecInit, RecMutexInit, ClhInit, ClhFifoInit, McsInit, McsFifoInit
   DEF Parameters

(* Their invariants are inductive.                                         *)
LEMMA AllStep ==
    ASSUME Parameters
    PROVE  /\ Cas!LockInv /\ [Cas!Next]_(Cas!vars) => Cas!LockInv'
           /\ Ttas!LockInv /\ [Ttas!Next]_(Ttas!vars) => Ttas!LockInv'
           /\ Rec!RecInv /\ [Rec!Next]_(Rec!vars) => Rec!RecInv'
           /\ Clh!ClhInv /\ [Clh!Next]_(Clh!vars) => Clh!ClhInv'
           /\ Mcs!McsInv /\ [Mcs!Next]_(Mcs!vars) => Mcs!McsInv'
BY CasStep, TtasStep, RecStep, ClhStep, McsStep DEF Parameters

(* What the invariants imply.                                              *)
LEMMA AllSafe ==
    ASSUME Parameters
    PROVE  /\ Cas!LockInv => Cas!MutualExclusion
           /\ Ttas!LockInv => Ttas!MutualExclusion
           /\ Rec!RecInv => Rec!TypeOK /\ Rec!MutualExclusion /\ Rec!OwnerAgrees
           /\ Clh!ClhInv => /\ Clh!TypeOK /\ Clh!MutualExclusion /\ Clh!QueueInv
                            /\ Clh!RecycleInv /\ Clh!HasWaitersExact
           /\ Mcs!McsInv => /\ Mcs!TypeOK /\ Mcs!MutualExclusion /\ Mcs!QueueInv
                            /\ Mcs!HasWaitersSound
BY CasSafe, TtasSafe, RecSafe, ClhSafe, McsSafe DEF Parameters, Rec!RecInv, Clh!ClhInv, Mcs!McsInv

(* Their steps are those of a lock, and those of clhlock.h and mcslock.h   *)
(* of a FIFO lock.                                                         *)
LEMMA AllLocks ==
    ASSUME Parameters
    PROVE  /\ Cas!LockInv /\ Cas!LockInv' /\ [Cas!Next]_(Cas!vars) => Cas!Lock!Step
           /\ Ttas!LockInv /\ Ttas!LockInv' /\ [Ttas!Next]_(Ttas!vars) => Ttas!Lock!Step
           /\ Rec!RecInv /\ Rec!RecInv' /\ [Rec!Next]_(Rec!vars) => Rec!Lock!Step
           /\ Clh!ClhInv /\ [Clh!Next]_(Clh!vars) => Clh!Fifo!Step
           /\ Mcs!McsInv /\ Mcs!McsInv' /\ [Mcs!Next]_(Mcs!vars) => Mcs!Fifo!Step
BY CasMutex, TtasMutex, RecMutex, ClhFifo, McsFifo DEF Parameters
=============================================================================
