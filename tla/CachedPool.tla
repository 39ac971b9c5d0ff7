----------------------------- MODULE CachedPool -----------------------------
(***************************************************************************)
(* libvsync/include/vsync/pool/cached_pool.h: a pool of entries.  Each id  *)
(* has a list of its own (its vunit), used without synchronisation; lists  *)
(* of threshold entries travel through a shared ring between the vunits.   *)
(* An entry may be freed under another id than the one it was taken from.  *)
(*                                                                         *)
(* A vunit belongs to one thread, so what is done to it between two        *)
(* accesses of the ring is part of a step.                                 *)
(***************************************************************************)
EXTENDS Integers, FiniteSets

CONSTANTS ThreadNum, EntryNum, None,
          Callers, Calls       \* the ids in use, and the calls under each

VARIABLES
    phead, ptail, chead, ctail, nodes,   \* cached_pool_buffer_t
    next,                                \* the link of each entry
    cnt, top, mid,                       \* cached_pool_vunit_t
    held,                                \* entries the callers have
    pc, at, es,                          \* locals of each call
    left                                 \* calls each id has still to make

ring == <<phead, ptail, chead, ctail, nodes>>
vunits == <<cnt, top, mid>>
vars == <<ring, next, vunits, held, pc, at, es, left>>

Ids == 0 .. ThreadNum - 1

(* The smallest power of two that is not below n (v_pow2_round_up).        *)
Pow2RoundUp(n) == CHOOSE m \in {2^k : k \in 0 .. n} : m >= n /\ m < 2 * n

(* cached_pool_init: the ring has node_num slots by its mask, and memory   *)
(* for 2 * thread_num.                                                     *)
NodeNum == Pow2RoundUp(2 * ThreadNum)
ThresholdInit == (EntryNum - 1) \div ThreadNum + 1
ThresholdLink == ThresholdInit + 1
ThresholdMax == 2 * ThresholdInit
Entries == 0 .. ThreadNum * ThresholdMax - 1
Slots == 0 .. NodeNum - 1
SlotOf(k) == k % NodeNum

Init ==
    /\ phead = ThreadNum /\ ptail = ThreadNum /\ chead = 0 /\ ctail = 0
    /\ nodes = [s \in Slots |-> IF s \in Ids THEN s * ThresholdMax + ThresholdInit ELSE None]
    /\ next = [e \in Entries |-> IF (e + 1) % ThresholdInit = 0 THEN None ELSE e + 1]
    /\ cnt = [id \in Ids |-> ThresholdInit]
    /\ top = [id \in Ids |-> id * ThresholdMax]
    /\ mid = top
    /\ held = {}
    /\ pc = [id \in Ids |-> "idle"]
    /\ at = [id \in Ids |-> 0] /\ es = [id \in Ids |-> None]
    /\ left = [id \in Ids |-> IF id \in Callers THEN Calls ELSE 0]

Goto(id, l) == pc' = [pc EXCEPT ![id] = l]
Done(id) ==
    /\ Goto(id, "idle")
    /\ at' = [at EXCEPT ![id] = 0] /\ es' = [es EXCEPT ![id] = None]

(* The end of _cached_pool_vunit_alloc: the first entry of list is handed  *)
(* out and the rest, c entries, stays with the vunit.                      *)
HandOut(id, list, c) ==
    /\ top' = [top EXCEPT ![id] = next[list]]
    /\ cnt' = [cnt EXCEPT ![id] = c]
    /\ held' = held \cup {list}

Alloc(id) ==
    /\ pc[id] = "idle" /\ left[id] > 0
    /\ left' = [left EXCEPT ![id] = @ - 1]
    /\ IF top[id] # None
       THEN HandOut(id, top[id], cnt[id] - 1) /\ UNCHANGED pc
       ELSE Goto(id, "alloc") /\ UNCHANGED <<top, cnt, held>>
    /\ UNCHANGED <<ring, next, mid, at, es>>

(* _cached_pool_buffer_alloc *)
AllocReadHead(id) ==
    /\ pc[id] = "alloc"
    /\ at' = [at EXCEPT ![id] = chead]
    /\ Goto(id, "alloc_tail")
    /\ UNCHANGED <<ring, next, vunits, held, es, left>>

AllocReadTail(id) ==
    /\ pc[id] = "alloc_tail"
    /\ IF at[id] = ptail THEN Done(id) ELSE Goto(id, "alloc_cas") /\ UNCHANGED <<at, es>>
    /\ UNCHANGED <<ring, next, vunits, held, left>>

\* Mutant: chead is written whatever it has become.
AllocStore(id) ==
    /\ pc[id] = "alloc_cas"
    /\ chead' = at[id] + 1 /\ Goto(id, "alloc_read")
    /\ UNCHANGED <<phead, ptail, ctail, nodes, next, vunits, held, at, es, left>>

AllocCas(id) ==
    /\ pc[id] = "alloc_cas"
    /\ IF chead = at[id]
       THEN chead' = chead + 1 /\ Goto(id, "alloc_read")
       ELSE UNCHANGED chead /\ Goto(id, "alloc")
    /\ UNCHANGED <<phead, ptail, ctail, nodes, next, vunits, held, at, es, left>>

AllocRead(id) ==
    /\ pc[id] = "alloc_read"
    /\ es' = [es EXCEPT ![id] = nodes[SlotOf(at[id])]]
    /\ Goto(id, "alloc_wait")
    /\ UNCHANGED <<ring, next, vunits, held, at, left>>

(* The turn of this call to move ctail, and the rest of the allocation.    *)
AllocPublish(id) ==
    /\ pc[id] = "alloc_wait"
    /\ ctail = at[id] /\ ctail' = at[id] + 1
    /\ HandOut(id, es[id], ThresholdInit - 1)
    /\ Done(id)
    /\ UNCHANGED <<phead, ptail, chead, nodes, next, mid, left>>
-----------------------------------------------------------------------------
(* _cached_pool_vunit_free: the entry goes on top; when the list reaches   *)
(* its maximum, the part below mid goes to the ring.                       *)
Free(id) ==
    /\ pc[id] = "idle" /\ left[id] > 0
    /\ left' = [left EXCEPT ![id] = @ - 1]
    /\ \E e \in held :
          LET c == cnt[id] + 1
              m == IF c = ThresholdLink THEN e ELSE mid[id]
              linked == [next EXCEPT ![e] = top[id]]
          IN /\ held' = held \ {e}
             /\ top' = [top EXCEPT ![id] = e]
             /\ mid' = [mid EXCEPT ![id] = m]
             /\ IF c = ThresholdMax
                THEN /\ cnt' = [cnt EXCEPT ![id] = ThresholdInit]
                     /\ es' = [es EXCEPT ![id] = linked[m]]
                     /\ next' = [linked EXCEPT ![m] = None]
                     /\ Goto(id, "free")
                ELSE /\ cnt' = [cnt EXCEPT ![id] = c]
                     /\ next' = linked
                     /\ UNCHANGED <<es, pc>>
    /\ UNCHANGED <<ring, at>>

(* _cached_pool_buffer_free: there is no test for a full ring.             *)
FreeReadHead(id) ==
    /\ pc[id] = "free"
    /\ at' = [at EXCEPT ![id] = phead]
    /\ Goto(id, "free_cas")
    /\ UNCHANGED <<ring, next, vunits, held, es, left>>

FreeCas(id) ==
    /\ pc[id] = "free_cas"
    /\ IF phead = at[id]
       THEN phead' = phead + 1 /\ Goto(id, "free_write")
       ELSE UNCHANGED phead /\ Goto(id, "free")
    /\ UNCHANGED <<ptail, chead, ctail, nodes, next, vunits, held, at, es, left>>

FreeWrite(id) ==
    /\ pc[id] = "free_write"
    /\ nodes' = [nodes EXCEPT ![SlotOf(at[id])] = es[id]]
    /\ Goto(id, "free_wait")
    /\ UNCHANGED <<phead, ptail, chead, ctail, next, vunits, held, at, es, left>>

FreePublish(id) ==
    /\ pc[id] = "free_wait"
    /\ ptail = at[id] /\ ptail' = at[id] + 1
    /\ Done(id)
    /\ UNCHANGED <<phead, chead, ctail, nodes, next, vunits, held, left>>

Step(id) ==
    \/ Alloc(id) \/ AllocReadHead(id) \/ AllocReadTail(id) \/ AllocCas(id)
    \/ AllocRead(id) \/ AllocPublish(id)
    \/ Free(id) \/ FreeReadHead(id) \/ FreeCas(id) \/ FreeWrite(id) \/ FreePublish(id)

AllDone == \A id \in Ids : pc[id] = "idle" /\ left[id] = 0

Next == (\E id \in Ids : Step(id)) \/ (AllDone /\ UNCHANGED vars)

Spec == Init /\ [][Next]_vars
-----------------------------------------------------------------------------
(* The list that starts at e, as the function from places to entries.      *)
Walk(e) ==
    LET w[k \in 0 .. Cardinality(Entries)] ==
            IF k = 0 THEN e ELSE IF w[k - 1] = None THEN None ELSE next[w[k - 1]]
    IN w
List(e) == LET w == Walk(e) IN {w[k] : k \in DOMAIN w} \ {None}

(* Lists in the ring that no allocation has read, and those a call carries.*)
InRing ==
    {k \in ctail .. phead - 1 :
        \A id \in Ids :
            ~(at[id] = k /\ pc[id] \in {"alloc_wait", "free_write"})}
Carrying == {id \in Ids : es[id] # None /\ pc[id] # "free_wait"}

(* Where entry e is: every place that leads to it.                         *)
Places(e) ==
    {<<"held", h>> : h \in held \cap {e}}
    \cup {<<"vunit", id>> : id \in {i \in Ids : e \in List(top[i])}}
    \cup {<<"ring", k>> : k \in {j \in InRing : e \in List(nodes[SlotOf(j)])}}
    \cup {<<"call", id>> : id \in {i \in Carrying : e \in List(es[i])}}

(* No entry is handed out twice and none is lost: each one is in exactly   *)
(* one place, however the calls of the ids interleave.  In particular a    *)
(* ring that never checks whether it is full never overwrites a list.      *)
InOnePlace == \A e \in Entries : Cardinality(Places(e)) = 1


(* "Make sure the buffer has enough size (calculated by cached_pool_       *)
(* memsize)": memsize and cached_pool_init make room for 2 * thread_num    *)
(* slots, and no call writes to another one.                               *)
SlotAllocated ==
    \A id \in Ids : pc[id] = "free_write" => SlotOf(at[id]) < 2 * ThreadNum
=============================================================================
