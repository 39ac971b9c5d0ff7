------------------------------ MODULE CachedQ ------------------------------
(***************************************************************************)
(* libvsync/include/vsync/queue/cachedq.h: a bounded queue for several     *)
(* producers and consumers that move several entries at once, and look at  *)
(* a cached copy of the other side's tail before the tail itself.          *)
(*                                                                         *)
(* The two operations mirror each other, so they are modelled together: p  *)
(* stands for the fields of the producers, c for those of the consumers.   *)
(* An entry is named by the position its producer reserved.                *)
(***************************************************************************)
EXTENDS Integers, Sequences

CONSTANTS Producers, Consumers, Calls, Batches, Size, None

VARIABLES
    head, tail,      \* phead and chead, ptail and ctail
    cached,          \* what each side knows of the other: ctail_cached, ptail_cached
    entry,
    pc, at, count,   \* the call: its side's head as read, and how many entries
    seen,            \* the other side's tail as read
    buf,             \* entries copied so far
    left             \* calls each thread has still to make

queue == <<head, tail, cached, entry>>
vars == <<queue, pc, at, count, seen, buf, left>>

Callers == Producers \cup Consumers
Side(t) == IF t \in Producers THEN "p" ELSE "c"
Other(t) == IF t \in Producers THEN "c" ELSE "p"
BothZero == [s \in {"p", "c"} |-> 0]

(* cachedq_init *)
Init ==
    /\ head = BothZero /\ tail = BothZero /\ cached = BothZero
    /\ entry = [k \in 0 .. Size - 1 |-> None]
    /\ pc = [t \in Callers |-> "idle"]
    /\ at = [t \in Callers |-> 0] /\ count = [t \in Callers |-> 0]
    /\ seen = [t \in Callers |-> 0] /\ buf = [t \in Callers |-> <<>>]
    /\ left = [t \in Callers |-> Calls]

Goto(t, l) == pc' = [pc EXCEPT ![t] = l]

(* The position up to which a side may go when the other's tail is x.      *)
Limit(t, x) == IF t \in Producers THEN x + Size ELSE x

Return(t) ==
    /\ Goto(t, "idle")
    /\ at' = [at EXCEPT ![t] = 0] /\ count' = [count EXCEPT ![t] = 0]
    /\ seen' = [seen EXCEPT ![t] = 0] /\ buf' = [buf EXCEPT ![t] = <<>>]

Call(t) ==
    /\ pc[t] = "idle" /\ left[t] > 0
    /\ left' = [left EXCEPT ![t] = @ - 1]
    /\ \E n \in Batches : count' = [count EXCEPT ![t] = n]
    /\ Goto(t, "again")
    /\ UNCHANGED <<queue, at, seen, buf>>

ReadHead(t) ==
    /\ pc[t] = "again"
    /\ at' = [at EXCEPT ![t] = head[Side(t)]]
    /\ Goto(t, "cached")
    /\ UNCHANGED <<queue, count, seen, buf, left>>

ReadCached(t) ==
    /\ pc[t] = "cached"
    /\ Goto(t, IF at[t] + count[t] <= Limit(t, cached[Side(t)]) THEN "cas" ELSE "tail")
    /\ UNCHANGED <<queue, at, count, seen, buf, left>>

(* The real tail: a dequeue takes fewer entries when there are not as many,*)
(* and keeps the smaller number when it has to try again; an enqueue adds  *)
(* all of its entries or none.                                             *)
ReadTail(t) ==
    /\ pc[t] = "tail"
    /\ LET limit == Limit(t, tail[Other(t)])
           fits == at[t] + count[t] <= limit
           n == IF fits THEN count[t] ELSE limit - at[t]
       IN \/ /\ fits \/ (t \in Consumers /\ n > 0)
             /\ count' = [count EXCEPT ![t] = n]
             /\ seen' = [seen EXCEPT ![t] = tail[Other(t)]]
             /\ Goto(t, "cas_tail")
             /\ UNCHANGED <<at, buf>>
          \/ /\ ~fits /\ (t \in Producers \/ n <= 0)
             /\ Return(t)
    /\ UNCHANGED <<queue, left>>

Cas(t) ==
    /\ pc[t] \in {"cas", "cas_tail"}
    /\ IF head[Side(t)] = at[t]
       THEN /\ head' = [head EXCEPT ![Side(t)] = at[t] + count[t]]
            /\ Goto(t, IF pc[t] = "cas" THEN "copy" ELSE "cache")
       ELSE UNCHANGED head /\ Goto(t, "again")
    /\ UNCHANGED <<tail, cached, entry, at, count, seen, buf, left>>

(* The copy of the tail may go back: another call may have stored a later  *)
(* one in the meantime.                                                    *)
Cache(t) ==
    /\ pc[t] = "cache"
    /\ cached' = [cached EXCEPT ![Side(t)] = seen[t]]
    /\ Goto(t, "copy")
    /\ UNCHANGED <<head, tail, entry, at, count, seen, buf, left>>

(* One entry of the loop over the reserved positions.                      *)
Copy(t) ==
    /\ pc[t] = "copy" /\ Len(buf[t]) < count[t]
    /\ LET pos == at[t] + Len(buf[t]) IN
       IF t \in Producers
       THEN /\ entry' = [entry EXCEPT ![pos % Size] = pos]
            /\ buf' = [buf EXCEPT ![t] = Append(@, pos)]
       ELSE /\ buf' = [buf EXCEPT ![t] = Append(@, entry[pos % Size])]
            /\ UNCHANGED entry
    /\ UNCHANGED <<head, tail, cached, pc, at, count, seen, left>>

(* The turn of this call to move the tail of its side.                     *)
Publish(t) ==
    /\ pc[t] = "copy" /\ Len(buf[t]) = count[t]
    /\ tail[Side(t)] = at[t]
    /\ tail' = [tail EXCEPT ![Side(t)] = at[t] + count[t]]
    /\ Return(t)
    /\ UNCHANGED <<head, cached, entry, left>>

Step(t) ==
    \/ Call(t) \/ ReadHead(t) \/ ReadCached(t) \/ ReadTail(t) \/ Cas(t) \/ Cache(t)
    \/ Copy(t) \/ Publish(t)

AllDone == \A t \in Callers : pc[t] = "idle" /\ left[t] = 0

Next == (\E t \in Callers : Step(t)) \/ (AllDone /\ UNCHANGED vars)

Spec == Init /\ [][Next]_vars
-----------------------------------------------------------------------------
(* A dequeue obtains, for each position it reserved, the entry of the      *)
(* producer that reserved it: entries come out in order, each one once,    *)
(* and none is overwritten in the ring before it is copied out, although   *)
(* both sides decide on copies of tails that may be old.                   *)
EntriesInOrder ==
    \A t \in Callers : \A k \in DOMAIN buf[t] : buf[t][k] = at[t] + k - 1
-----------------------------------------------------------------------------
Sides == {"p", "c"}
Types ==
    /\ head \in [Sides -> Nat] /\ tail \in [Sides -> Nat] /\ cached \in [Sides -> Nat]
    /\ entry \in [0 .. Size - 1 -> Nat \cup {None}]
    /\ pc \in [Callers -> {"idle", "again", "cached", "tail", "cas", "cas_tail", "cache", "copy"}]
    /\ at \in [Callers -> Nat] /\ count \in [Callers -> Nat] /\ seen \in [Callers -> Nat]
    /\ buf \in [Callers -> Seq(Nat \cup {None})]

(* The consumers follow the producers, and are at most Size behind; and no *)
(* copy of a tail is ahead of it.                                          *)
TailsInOrder ==
    /\ tail["c"] <= head["c"] /\ head["c"] <= tail["p"]
    /\ tail["p"] <= head["p"] /\ head["p"] <= tail["c"] + Size
    /\ cached["p"] <= tail["c"] /\ cached["c"] <= tail["p"]
    /\ \A t \in Callers : seen[t] <= tail[Other(t)]

(* A call that has seen room for its entries still has it, and the calls   *)
(* of a side have reserved disjoint ranges between its tail and its head.  *)
Reserved(t) == pc[t] \in {"cache", "copy"}
Ranges ==
    /\ \A t \in Callers :
          /\ pc[t] # "idle" => count[t] > 0
          /\ pc[t] # "copy" => buf[t] = <<>>
          /\ Len(buf[t]) <= count[t]
          /\ pc[t] \in {"cas", "cas_tail"} => at[t] + count[t] <= Limit(t, tail[Other(t)])
          /\ Reserved(t) => tail[Side(t)] <= at[t] /\ at[t] + count[t] <= head[Side(t)]
    /\ \A t, u \in Callers : t # u /\ Side(t) = Side(u) /\ Reserved(t) /\ Reserved(u) =>
          at[t] + count[t] <= at[u] \/ at[u] + count[u] <= at[t]

(* A slot holds the entry of its position from the producer's copy on      *)
(* until the consumers' tail has passed it.                                *)
EntriesKept ==
    /\ \A pos \in Nat : tail["c"] <= pos /\ pos < tail["p"] => entry[pos % Size] = pos
    /\ \A t \in Producers : \A k \in Nat : Reserved(t) /\ k < Len(buf[t]) =>
          entry[(at[t] + k) % Size] = at[t] + k

CachedInv == Types /\ TailsInOrder /\ Ranges /\ EntriesKept /\ EntriesInOrder

(* What the proofs ask of the constants.                                   *)
Parameters == Size \in Nat \ {0} /\ Batches \subseteq Nat \ {0}
=============================================================================
