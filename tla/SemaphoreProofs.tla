-------------------------- MODULE SemaphoreProofs --------------------------
(***************************************************************************)
(* Semaphore and RwLock, for any number of threads and of resources.       *)
(***************************************************************************)
EXTENDS Semaphore, FiniteSetTheorems, WellFoundedInduction, TLAPS

CONSTANT Users     \* the threads of rwlock.h
VARIABLES rs, wb

Rw == INSTANCE RwLock WITH Threads <- Users

(* The resources that the threads of S hold, numbered for each thread.     *)
Units(f, S) == {p \in S \X (1 .. N) : p[2] <= f[p[1]]}

(* Finitely many threads hold finitely many resources.                     *)
LEMMA UnitsFinite ==
    ASSUME N \in Nat, NEW S, IsFiniteSet(S), NEW f
    PROVE  IsFiniteSet(Units(f, S)) /\ Cardinality(Units(f, S)) \in Nat
<1>1. IsFiniteSet(1 .. N)
  BY FS_Interval, 1 \in Int, N \in Int
<1>2. IsFiniteSet(S \X (1 .. N))
  BY ONLY IsFiniteSet(S), <1>1, FS_Product, Zenon
<1>. QED
  BY <1>2, FS_Subset, FS_CardinalityType DEF Units

(* What one thread holds counts apart from what the others hold.           *)
LEMMA UnitsRemove ==
    ASSUME N \in Nat, NEW S, IsFiniteSet(S), NEW x \in S, NEW f, f[x] \in 0 .. N
    PROVE  Cardinality(Units(f, S)) = f[x] + Cardinality(Units(f, S \ {x}))
<1>. DEFINE A == Units(f, S \ {x})
            B == {x} \X (1 .. f[x])
<1>1. IsFiniteSet(A)
  <2>1. IsFiniteSet(S \ {x})
    BY FS_Subset
  <2>. QED
    BY <2>1, UnitsFinite
<1>2. IsFiniteSet(B) /\ Cardinality(B) = f[x]
  <2>1. Cardinality({x}) = 1 /\ IsFiniteSet({x})
    BY FS_Singleton, Zenon
  <2>2. IsFiniteSet(1 .. f[x]) /\ Cardinality(1 .. f[x]) = IF 1 > f[x] THEN 0 ELSE f[x] - 1 + 1
    <3>1. 1 \in Int /\ f[x] \in Int
      OBVIOUS
    <3>. QED
      BY ONLY <3>1, FS_Interval
  <2>3. Cardinality(1 .. f[x]) = f[x]
    BY <2>2
  <2>4. IsFiniteSet(B) /\ Cardinality(B) = Cardinality({x}) * Cardinality(1 .. f[x])
    BY ONLY <2>1, <2>2, FS_Product, Zenon
  <2>. QED
    BY <2>1, <2>3, <2>4
<1>3. Units(f, S) = A \cup B /\ A \cap B = {}
  BY DEF Units
<1>4. Cardinality(A \cap B) = 0
  BY <1>3, FS_EmptySet, Zenon
<1>5. Cardinality(A) \in Nat
  BY <1>1, FS_CardinalityType
<1>6. Cardinality(A \cup B) = Cardinality(A) + Cardinality(B) - Cardinality(A \cap B)
  BY <1>1, <1>2, FS_Union, Zenon
<1>. QED
  BY <1>2, <1>3, <1>4, <1>5, <1>6

(* The sum that Conserved takes over the holders is the number of resources*)
(* they hold: both satisfy the recursion of MapThenFoldSet, and the        *)
(* smallest set of threads on which they differ would be a contradiction.  *)
LEMMA SumIsUnits ==
    ASSUME N \in Nat, NEW S, IsFiniteSet(S), NEW f, \A t \in S : f[t] \in 0 .. N
    PROVE  Total(f, S) = Cardinality(Units(f, S))
<1>. DEFINE x(T) == CHOOSE t \in T : TRUE
            Eq(g) == g = [T \in SUBSET S |-> IF T = {} THEN 0 ELSE f[x(T)] + g[T \ {x(T)}]]
            iter == CHOOSE g : Eq(g)
            card == [T \in SUBSET S |-> Cardinality(Units(f, T))]
<1>1. \A T \in SUBSET S : T # {} => x(T) \in T
  OBVIOUS
<1>2. Units(f, {}) = {} /\ Cardinality(Units(f, {})) = 0
  BY FS_EmptySet DEF Units
<1>3. ASSUME NEW T \in SUBSET S, T # {}
      PROVE  Cardinality(Units(f, T)) = f[x(T)] + Cardinality(Units(f, T \ {x(T)}))
  <2>1. IsFiniteSet(T)
    BY FS_Subset
  <2>. HIDE DEF x
  <2>. QED
    BY <1>1, <1>3, <2>1, UnitsRemove
<1>4. Eq(card)
  <2>. HIDE DEF x
  <2>. QED
    BY <1>1, <1>2, <1>3, Zenon
<1>5. Eq(iter)
  <2>. HIDE DEF Eq, card
  <2>. QED BY <1>4
<1>6. iter[S] = card[S]
  <2>. DEFINE Bad == {T \in SUBSET S : iter[T] # card[T]}
  <2>. SUFFICES Bad = {}
    BY Zenon
  <2>. HIDE DEF iter, x
  <2>. SUFFICES ASSUME Bad # {} PROVE FALSE
    OBVIOUS
  <2>1. PICK T \in Bad : \A U \in Bad : ~(U \subseteq T /\ U # T)
    <3>1. IsWellFoundedOn(StrictSubsetOrdering(S), FiniteSubsetsOf(S))
      BY FS_StrictSubsetOrderingWellFounded
    <3>2. Bad \subseteq FiniteSubsetsOf(S)
      BY FS_Subset DEF FiniteSubsetsOf
    <3>3. \E T \in Bad : \A U \in Bad : <<U, T>> \notin StrictSubsetOrdering(S)
      <4>. HIDE DEF Bad
      <4>. QED
        BY <3>1, <3>2, WFMin
    <3>. QED
      BY <3>3, Zenon DEF StrictSubsetOrdering
  <2>2. CASE T = {}
    BY <1>2, <1>5, <2>2
  <2>3. CASE T # {}
    <3>1. x(T) \in T /\ T \ {x(T)} \in SUBSET S /\ T \ {x(T)} # T
      BY <1>1, <2>3
    <3>2. iter[T \ {x(T)}] = card[T \ {x(T)}]
      BY <2>1, <3>1, Zenon
    <3>3. iter[T] = f[x(T)] + iter[T \ {x(T)}]
      BY <1>5, <2>3, Zenon
    <3>. QED
      BY <1>3, <2>3, <3>1, <3>2, <3>3
  <2>. QED
    BY <2>2, <2>3
<1>7. Total(f, S) = iter[S]
  BY DEF Total, MapThenSumSet, MapThenFoldSet
<1>. QED
  BY <1>6, <1>7

(* The same of a state: what the holders hold is what is missing from s.   *)
LEMMA ConservedUnits ==
    ASSUME Parameters, NEW f, NEW H \in SUBSET Threads, \A t \in H : f[t] \in 0 .. N
    PROVE  /\ Total(f, H) = Cardinality(Units(f, H))
           /\ Cardinality(Units(f, H)) \in Nat
           /\ \A t \in H : Cardinality(Units(f, H)) = f[t] + Cardinality(Units(f, H \ {t}))
<1>1. IsFiniteSet(H) /\ N \in Nat
  BY FS_Subset DEF Parameters
<1>. QED
  BY <1>1, SumIsUnits, UnitsFinite, UnitsRemove

(* Initially nobody holds anything.                                        *)
LEMMA SemInit == Parameters /\ Init => SemInv
<1>. SUFFICES ASSUME Parameters, Init PROVE SemInv
  OBVIOUS
<1>1. Holders = {} /\ Units(amount, Holders) = {}
  BY DEF Init, Holders, Units
<1>2. Total(amount, Holders) = 0
  BY <1>1, ConservedUnits, FS_EmptySet DEF Holders
<1>. QED
  BY <1>1, <1>2 DEF Parameters, Init, SemInv, Conserved

(* A step moves resources between s and one thread.                        *)
LEMMA SemStep == Parameters /\ SemInv /\ Step => SemInv'
<1>. SUFFICES ASSUME Parameters, SemInv, Step PROVE SemInv'
  OBVIOUS
<1>0. CASE UNCHANGED vars
  BY <1>0 DEF vars, SemInv, Conserved, Holders
<1>. SUFFICES ASSUME NEW t \in Threads,
                     \/ \E i \in Amounts : Acquire(t, i) \/ TryRead(t, i)
                     \/ AwaitGeSub(t) \/ TryCas(t) \/ Release(t)
              PROVE  SemInv'
  BY <1>0 DEF Step, Next
<1>1. /\ pc' \in [Threads -> {"idle", "await", "cas", "hold"}]
      /\ amount' \in [Threads -> 0 .. N] /\ old' \in [Threads -> 0 .. N]
      /\ \A u \in Threads : pc'[u] # "idle" => amount'[u] \in Amounts
      /\ \A u \in Threads : pc'[u] = "cas" => old'[u] >= amount'[u]
      /\ \A u \in Threads \ {t} : pc'[u] = pc[u] /\ amount'[u] = amount[u]
  BY DEF Parameters, SemInv, Goto, Acquire, TryRead, AwaitGeSub, TryCas, Release
<1>2. /\ s + Cardinality(Units(amount, Holders)) = N
      /\ Cardinality(Units(amount, Holders)) \in Nat
  BY ConservedUnits DEF SemInv, Conserved, Holders
<1>3. /\ Total(amount', Holders') = Cardinality(Units(amount', Holders'))
      /\ Cardinality(Units(amount', Holders')) \in Nat
  BY <1>1, ConservedUnits DEF Holders
<1>4. s' \in 0 .. N /\ s' + Cardinality(Units(amount', Holders')) = N
  <2>1. CASE s' = s /\ pc[t] # "hold" /\ pc'[t] # "hold"
    <3>1. Units(amount', Holders') = Units(amount, Holders)
      BY <1>1, <2>1 DEF Units, Holders
    <3>. QED
      BY <1>2, <2>1, <3>1 DEF SemInv
  <2>2. CASE /\ s >= amount[t] /\ s' = s - amount[t] /\ UNCHANGED amount
             /\ pc[t] # "hold" /\ pc'[t] = "hold"
    <3>1. t \in Holders' /\ Holders' \ {t} = Holders
      BY <1>1, <2>2 DEF Holders
    <3>2. Cardinality(Units(amount, Holders')) = amount[t] + Cardinality(Units(amount, Holders))
      BY <1>1, <3>1, ConservedUnits DEF SemInv, Holders
    <3>. QED
      BY <1>2, <2>2, <3>2 DEF SemInv
  <2>3. CASE s' = s + amount[t] /\ pc[t] = "hold" /\ pc'[t] = "idle"
    <3>1. t \in Holders /\ Holders \ {t} = Holders'
      BY <1>1, <2>3 DEF Holders
    <3>2. Cardinality(Units(amount, Holders)) = amount[t] + Cardinality(Units(amount, Holders'))
      BY <3>1, ConservedUnits DEF SemInv, Holders
    <3>3. Units(amount', Holders') = Units(amount, Holders')
      <4>1. Holders' \subseteq Threads \ {t}
        BY <3>1 DEF Holders
      <4>. QED
        BY <1>1, <4>1 DEF Units
    <3>. QED
      BY <1>2, <1>3, <2>3, <3>2, <3>3 DEF SemInv
  <2>. QED
    BY <2>1, <2>2, <2>3 DEF SemInv, Goto, Acquire, TryRead, AwaitGeSub, TryCas, Release
<1>. QED
  BY <1>1, <1>3, <1>4 DEF SemInv, Conserved

(* A second holder beside a writer would hold resources that are not there.*)
LEMMA SemWriterAlone == Parameters /\ SemInv => WriterAlone
<1>. SUFFICES ASSUME Parameters, SemInv, NEW t \in Holders, amount[t] = N,
                     NEW u \in Holders, u # t
              PROVE  FALSE
  BY DEF WriterAlone
<1>1. Holders \in SUBSET Threads /\ Holders \ {t} \in SUBSET Threads /\ u \in Holders \ {t}
      /\ amount[u] \in 1 .. N /\ \A v \in Holders : amount[v] \in 0 .. N
  BY DEF SemInv, Holders, Parameters
<1>2. s + Cardinality(Units(amount, Holders)) = N
  BY <1>1, ConservedUnits DEF SemInv, Conserved
<1>3. /\ Cardinality(Units(amount, Holders)) = N + Cardinality(Units(amount, Holders \ {t}))
      /\ Cardinality(Units(amount, Holders \ {t}))
             = amount[u] + Cardinality(Units(amount, (Holders \ {t}) \ {u}))
      /\ Cardinality(Units(amount, (Holders \ {t}) \ {u})) \in Nat
  BY <1>1, ConservedUnits
<1>. QED
  BY <1>1, <1>2, <1>3 DEF SemInv, Parameters

(* semaphore.h, for any number of threads and of resources: none is lost   *)
(* or invented, and a thread that holds all of them is alone.              *)
THEOREM SemInvariant ==
    ASSUME Parameters
    PROVE  Spec => [](Conserved /\ WriterAlone)
<1>1. SemInv => Conserved /\ WriterAlone
  BY SemWriterAlone DEF SemInv
<1>. QED
  BY <1>1, SemInit, SemStep, PTL DEF Spec, Step

-----------------------------------------------------------------------------
(* Every step of rwlock.h is one of semaphore.h, or none.                  *)
LEMMA RwUsesSemaphore ==
    Rw!Parameters /\ Rw!RwInv /\ [Rw!Next]_(Rw!vars) => Rw!Sem!Step
<1>. SUFFICES ASSUME Rw!Parameters, Rw!RwInv, [Rw!Next]_(Rw!vars) PROVE Rw!Sem!Step
  OBVIOUS
<1>. DEFINE lab == [t \in Users |-> Rw!Label(pc[t])]
            amt == [t \in Users |-> Rw!Amount(pc[t])]
<1>0. CASE UNCHANGED Rw!vars
  BY <1>0 DEF Rw!vars, Rw!Sem!Step, Rw!Sem!vars
<1>2. rs \in Int /\ N \in Int
  BY DEF Rw!RwInv, Rw!TypeOK, Rw!Parameters
<1>1. CASE Rw!Next
  <2>. SUFFICES ASSUME NEW t \in Users,
                       \/ Rw!WriteAcquire(t) \/ Rw!WriteTryRaise(t)
                       \/ Rw!ReadAcquire(t) \/ Rw!ReadTryFlag(t) \/ Rw!Step(t)
                PROVE  Rw!Sem!Next \/ UNCHANGED Rw!Sem!vars
    BY <1>1 DEF Rw!Next, Rw!Sem!Step
  <2>1. /\ \A l \in {"idle", "w_flag", "w_try", "w_undo", "r_flag", "r_try"} :
               Rw!Label(l) = "idle" /\ Rw!Amount(l) = 0
        /\ \A l \in {"w_sem", "r_sem"} : Rw!Label(l) = "await"
        /\ \A l \in {"w_cas", "r_cas"} : Rw!Label(l) = "cas"
        /\ \A l \in {"w_hold", "w_rel", "r_hold"} : Rw!Label(l) = "hold"
        /\ \A l \in {"w_sem", "w_cas", "w_hold", "w_rel"} : Rw!Amount(l) = N
        /\ \A l \in {"r_sem", "r_cas", "r_hold"} : Rw!Amount(l) = 1
    BY DEF Rw!Label, Rw!Amount
  <2>2. ASSUME NEW l, NEW m, Rw!Move(t, l, m)
        PROVE  /\ lab[t] = Rw!Label(l) /\ amt[t] = Rw!Amount(l)
               /\ lab' = [lab EXCEPT ![t] = Rw!Label(m)]
               /\ amt' = [amt EXCEPT ![t] = Rw!Amount(m)]
               /\ Rw!Label(m) = Rw!Label(l) => lab' = lab
               /\ Rw!Amount(m) = Rw!Amount(l) => amt' = amt
    BY <2>2, Zenon DEF Rw!RwInv, Rw!TypeOK, Rw!Move, Rw!Goto
  <2>3. CASE \/ Rw!WriteAcquire(t) \/ Rw!WriteTryRaise(t) \/ Rw!ReadAcquire(t) \/ Rw!ReadTryFlag(t)
             \/ Rw!WriteTryUndo(t) \/ Rw!WriteReleaseFlag(t)
    <3>1. UNCHANGED <<lab, amt, rs, old>>
      <4>. HIDE DEF lab, amt
      <4>. QED
        BY <2>1, <2>2, <2>3 DEF Rw!WriteAcquire, Rw!WriteTryRaise, Rw!ReadAcquire, Rw!ReadTryFlag,
           Rw!WriteTryUndo, Rw!WriteReleaseFlag
    <3>. QED
      BY <3>1 DEF Rw!Sem!vars
  <2>4. ASSUME \/ \E i \in {1, N} : Rw!Sem!Acquire(t, i) \/ Rw!Sem!TryRead(t, i)
               \/ Rw!Sem!AwaitGeSub(t) \/ Rw!Sem!TryCas(t) \/ Rw!Sem!Release(t)
        PROVE  Rw!Sem!Next
    BY <2>4 DEF Rw!Sem!Next
  <2>. HIDE DEF lab, amt
  <2>5. CASE Rw!WriteRaise(t)
    <3>1. /\ lab[t] = "idle" /\ lab' = [lab EXCEPT ![t] = "await"]
          /\ amt[t] = 0 /\ amt' = [amt EXCEPT ![t] = N]
      BY <2>1, <2>2, <2>5 DEF Rw!WriteRaise
    <3>2. Rw!Sem!Acquire(t, N)
      BY <3>1, <2>5 DEF Rw!WriteRaise, Rw!Sem!Acquire, Rw!Sem!Goto, lab, amt
    <3>. QED
      BY <2>4, <3>2
  <2>6. CASE Rw!ReadFlag(t)
    <3>1. /\ lab[t] = "idle" /\ lab' = [lab EXCEPT ![t] = "await"]
          /\ amt[t] = 0 /\ amt' = [amt EXCEPT ![t] = 1]
      BY <2>1, <2>2, <2>6 DEF Rw!ReadFlag
    <3>2. Rw!Sem!Acquire(t, 1)
      BY <3>1, <2>6 DEF Rw!ReadFlag, Rw!Sem!Acquire, Rw!Sem!Goto, lab, amt
    <3>. QED
      BY <2>4, <3>2
  <2>7. CASE Rw!WriteSem(t)
    <3>1. lab[t] = "await" /\ lab' = [lab EXCEPT ![t] = "hold"] /\ amt[t] = N /\ amt' = amt
      BY <2>1, <2>2, <2>7 DEF Rw!WriteSem
    <3>2. Rw!Sem!AwaitGeSub(t)
      BY <3>1, <2>7 DEF Rw!WriteSem, Rw!Sem!AwaitGeSub, Rw!Sem!Goto, lab, amt
    <3>. QED
      BY <2>4, <3>2
  <2>8. CASE Rw!ReadSem(t)
    <3>1. lab[t] = "await" /\ lab' = [lab EXCEPT ![t] = "hold"] /\ amt[t] = 1 /\ amt' = amt
      BY <2>1, <2>2, <2>8 DEF Rw!ReadSem
    <3>2. Rw!Sem!AwaitGeSub(t)
      BY <3>1, <2>8 DEF Rw!ReadSem, Rw!Sem!AwaitGeSub, Rw!Sem!Goto, lab, amt
    <3>. QED
      BY <2>4, <3>2
  <2>9. CASE Rw!WriteReleaseSem(t)
    <3>1. /\ lab[t] = "hold" /\ lab' = [lab EXCEPT ![t] = "idle"]
          /\ amt[t] = N /\ amt' = [amt EXCEPT ![t] = 0]
      BY <2>1, <2>2, <2>9 DEF Rw!WriteReleaseSem
    <3>2. Rw!Sem!Release(t)
      BY <3>1, <2>9 DEF Rw!WriteReleaseSem, Rw!Sem!Release, Rw!Sem!Goto, lab, amt
    <3>. QED
      BY <2>4, <3>2
  <2>10. CASE Rw!ReadRelease(t)
    <3>1. /\ lab[t] = "hold" /\ lab' = [lab EXCEPT ![t] = "idle"]
          /\ amt[t] = 1 /\ amt' = [amt EXCEPT ![t] = 0]
      BY <2>1, <2>2, <2>10 DEF Rw!ReadRelease
    <3>2. Rw!Sem!Release(t)
      BY <3>1, <2>10 DEF Rw!ReadRelease, Rw!Sem!Release, Rw!Sem!Goto, lab, amt
    <3>. QED
      BY <2>4, <3>2
  <2>11. CASE Rw!WriteTryRead(t) /\ rs >= N
    <3>1. lab[t] = "idle" /\ lab' = [lab EXCEPT ![t] = "cas"] /\ amt' = [amt EXCEPT ![t] = N]
      BY <1>2, <2>1, <2>2, <2>11 DEF Rw!WriteTryRead
    <3>2. Rw!Sem!TryRead(t, N)
      BY <1>2, <3>1, <2>11 DEF Rw!WriteTryRead, Rw!Sem!TryRead, Rw!Sem!Goto, lab, amt
    <3>. QED
      BY <2>4, <3>2
  <2>12. CASE Rw!WriteTryRead(t) /\ rs < N
    <3>1. UNCHANGED <<lab, amt, rs, old>>
      BY <1>2, <2>1, <2>2, <2>12 DEF Rw!WriteTryRead
    <3>. QED
      BY <3>1 DEF Rw!Sem!vars, lab, amt
  <2>13. CASE Rw!WriteTryCas(t) /\ rs = old[t]
    <3>1. lab[t] = "cas" /\ lab' = [lab EXCEPT ![t] = "hold"] /\ amt[t] = N /\ amt' = amt
      BY <2>1, <2>2, <2>13 DEF Rw!WriteTryCas
    <3>2. Rw!Sem!TryCas(t)
      BY <3>1, <2>13 DEF Rw!WriteTryCas, Rw!Sem!TryCas, Rw!Sem!Goto, lab, amt
    <3>. QED
      BY <2>4, <3>2
  <2>14. CASE Rw!WriteTryCas(t) /\ rs # old[t]
    <3>1. lab[t] = "cas" /\ lab' = [lab EXCEPT ![t] = "idle"] /\ amt' = [amt EXCEPT ![t] = 0]
      BY <2>1, <2>2, <2>14 DEF Rw!WriteTryCas
    <3>2. Rw!Sem!TryCas(t)
      BY <3>1, <2>14 DEF Rw!WriteTryCas, Rw!Sem!TryCas, Rw!Sem!Goto, lab, amt
    <3>. QED
      BY <2>4, <3>2
  <2>15. CASE Rw!ReadTryRead(t) /\ rs >= 1
    <3>1. lab[t] = "idle" /\ lab' = [lab EXCEPT ![t] = "cas"] /\ amt' = [amt EXCEPT ![t] = 1]
      BY <1>2, <2>1, <2>2, <2>15 DEF Rw!ReadTryRead
    <3>2. Rw!Sem!TryRead(t, 1)
      BY <1>2, <3>1, <2>15 DEF Rw!ReadTryRead, Rw!Sem!TryRead, Rw!Sem!Goto, lab, amt
    <3>. QED
      BY <2>4, <3>2
  <2>16. CASE Rw!ReadTryRead(t) /\ rs < 1
    <3>1. UNCHANGED <<lab, amt, rs, old>>
      BY <1>2, <2>1, <2>2, <2>16 DEF Rw!ReadTryRead
    <3>. QED
      BY <3>1 DEF Rw!Sem!vars, lab, amt
  <2>17. CASE Rw!ReadTryCas(t) /\ rs = old[t]
    <3>1. lab[t] = "cas" /\ lab' = [lab EXCEPT ![t] = "hold"] /\ amt[t] = 1 /\ amt' = amt
      BY <2>1, <2>2, <2>17 DEF Rw!ReadTryCas
    <3>2. Rw!Sem!TryCas(t)
      BY <3>1, <2>17 DEF Rw!ReadTryCas, Rw!Sem!TryCas, Rw!Sem!Goto, lab, amt
    <3>. QED
      BY <2>4, <3>2
  <2>18. CASE Rw!ReadTryCas(t) /\ rs # old[t]
    <3>1. lab[t] = "cas" /\ lab' = [lab EXCEPT ![t] = "idle"] /\ amt' = [amt EXCEPT ![t] = 0]
      BY <2>1, <2>2, <2>18 DEF Rw!ReadTryCas
    <3>2. Rw!Sem!TryCas(t)
      BY <3>1, <2>18 DEF Rw!ReadTryCas, Rw!Sem!TryCas, Rw!Sem!Goto, lab, amt
    <3>. QED
      BY <2>4, <3>2
  <2>. QED
    BY <1>2, <2>3, <2>5, <2>6, <2>7, <2>8, <2>9, <2>10, <2>11, <2>12, <2>13, <2>14, <2>15, <2>16,
       <2>17, <2>18 DEF Rw!Step
<1>. QED
  BY <1>0, <1>1

(* Initially all resources are in rs and wb is down.                       *)
LEMMA RwInit == Rw!Parameters /\ Rw!Init => Rw!RwInv
<1>. SUFFICES ASSUME Rw!Parameters, Rw!Init PROVE Rw!RwInv
  OBVIOUS
<1>1. Rw!Granted = {} /\ Rw!Reading = {} /\ Rw!Flagged = {}
  BY DEF Rw!Init, Rw!Granted, Rw!Reading, Rw!Flagged
<1>2. Rw!Cardinality({}) = 0
  BY FS_EmptySet DEF Rw!Cardinality, Cardinality
<1>. QED
  BY <1>1, <1>2 DEF Rw!Parameters, Rw!Init, Rw!RwInv, Rw!TypeOK

(* Readers take resources one by one, a writer takes all of them; the flag *)
(* goes from one writer to the next.                                       *)
LEMMA RwStep == Rw!Parameters /\ Rw!RwInv /\ [Rw!Next]_(Rw!vars) => Rw!RwInv'
<1>. SUFFICES ASSUME Rw!Parameters, Rw!RwInv, [Rw!Next]_(Rw!vars) PROVE Rw!RwInv'
  OBVIOUS
<1>0. CASE UNCHANGED Rw!vars
  BY <1>0 DEF Rw!vars, Rw!RwInv, Rw!TypeOK, Rw!Granted, Rw!Reading, Rw!Flagged
<1>. SUFFICES ASSUME NEW t \in Users,
                     \/ Rw!WriteAcquire(t) \/ Rw!WriteTryRaise(t)
                     \/ Rw!ReadAcquire(t) \/ Rw!ReadTryFlag(t) \/ Rw!Step(t)
              PROVE  Rw!RwInv'
  BY <1>0 DEF Rw!Next
<1>. USE DEF Rw!Parameters
<1>1. \A u \in Users \ {t} : pc'[u] = pc[u] /\ old'[u] = old[u]
  BY DEF Rw!RwInv, Rw!TypeOK, Rw!Step, Rw!Move, Rw!Goto, Rw!WriteAcquire, Rw!WriteTryRaise,
     Rw!ReadAcquire, Rw!ReadTryFlag, Rw!WriteRaise, Rw!WriteSem, Rw!WriteTryRead, Rw!WriteTryCas,
     Rw!WriteTryUndo, Rw!WriteReleaseFlag, Rw!WriteReleaseSem, Rw!ReadFlag, Rw!ReadSem,
     Rw!ReadTryRead, Rw!ReadTryCas, Rw!ReadRelease
<1>2. /\ pc' \in [Users -> {"idle", "w_flag", "w_sem", "w_try", "w_cas", "w_undo", "w_hold",
                              "w_rel", "r_flag", "r_sem", "r_try", "r_cas", "r_hold"}]
      /\ wb' \in {0, 1} /\ old' \in [Users -> 0 .. N]
      /\ (pc'[t] = "w_cas" => old'[t] = N) /\ (pc'[t] = "r_cas" => old'[t] >= 1)
  BY DEF Rw!RwInv, Rw!TypeOK, Rw!Step, Rw!Move, Rw!Goto, Rw!WriteAcquire, Rw!WriteTryRaise,
     Rw!ReadAcquire, Rw!ReadTryFlag, Rw!WriteRaise, Rw!WriteSem, Rw!WriteTryRead, Rw!WriteTryCas,
     Rw!WriteTryUndo, Rw!WriteReleaseFlag, Rw!WriteReleaseSem, Rw!ReadFlag, Rw!ReadSem,
     Rw!ReadTryRead, Rw!ReadTryCas, Rw!ReadRelease
<1>3. /\ wb' = 0 => Rw!Flagged' = {}
      /\ wb' = 1 => \E u \in Users : Rw!Flagged' = {u}
  <2>1. CASE wb' = wb /\ (t \in Rw!Flagged' <=> t \in Rw!Flagged)
    <3>1. Rw!Flagged' = Rw!Flagged
      BY <1>1, <2>1 DEF Rw!Flagged
    <3>. QED
      BY <2>1, <3>1 DEF Rw!RwInv
  <2>2. CASE wb = 0 /\ wb' = 1 /\ t \in Rw!Flagged'
    <3>1. Rw!Flagged' = {t}
      BY <1>1, <2>2 DEF Rw!RwInv, Rw!Flagged
    <3>. QED
      BY <2>2, <3>1
  <2>3. CASE wb' = 0 /\ t \in Rw!Flagged /\ t \notin Rw!Flagged'
    <3>1. Rw!Flagged = {t}
      BY <2>3 DEF Rw!RwInv, Rw!TypeOK
    <3>2. Rw!Flagged' = {}
      BY <1>1, <2>3, <3>1, SMTT(20) DEF Rw!Flagged
    <3>. QED
      BY <2>3, <3>2
  <2>. QED
    BY <2>1, <2>2, <2>3 DEF Rw!RwInv, Rw!TypeOK, Rw!Flagged, Rw!Step, Rw!Move, Rw!Goto,
       Rw!WriteAcquire, Rw!WriteTryRaise, Rw!ReadAcquire, Rw!ReadTryFlag, Rw!WriteRaise,
       Rw!WriteSem, Rw!WriteTryRead, Rw!WriteTryCas, Rw!WriteTryUndo, Rw!WriteReleaseFlag,
       Rw!WriteReleaseSem, Rw!ReadFlag, Rw!ReadSem, Rw!ReadTryRead, Rw!ReadTryCas, Rw!ReadRelease
<1>4. /\ rs' \in 0 .. N
      /\ \/ Rw!Granted' = {} /\ rs' + Rw!Cardinality(Rw!Reading') = N
         \/ rs' = 0 /\ Rw!Reading' = {} /\ \E u \in Users : Rw!Granted' = {u}
  <2>0. /\ IsFiniteSet(Rw!Reading) /\ Cardinality(Rw!Reading) \in Nat
        /\ \A S : Rw!Cardinality(S) = Cardinality(S)
        /\ Cardinality({}) = 0 /\ (Cardinality(Rw!Reading) = 0 => Rw!Reading = {})
    <3>1. IsFiniteSet(Users) /\ Rw!Reading \subseteq Users
      BY DEF Rw!Reading, Rw!IsFiniteSet, IsFiniteSet
    <3>2. IsFiniteSet(Rw!Reading) /\ Cardinality(Rw!Reading) \in Nat
      BY ONLY <3>1, FS_Subset, FS_CardinalityType, Zenon
    <3>3. \A S : Rw!Cardinality(S) = Cardinality(S)
      BY Zenon DEF Rw!Cardinality, Cardinality
    <3>4. Cardinality({}) = 0 /\ (Cardinality(Rw!Reading) = 0 => Rw!Reading = {})
      BY ONLY <3>2, FS_EmptySet, Zenon
    <3>. QED
      BY <3>2, <3>3, <3>4
  <2>1. CASE /\ rs' = rs /\ (t \in Rw!Granted' <=> t \in Rw!Granted)
             /\ t \in Rw!Reading' <=> t \in Rw!Reading
    <3>1. Rw!Granted' = Rw!Granted /\ Rw!Reading' = Rw!Reading
      BY <1>1, <2>1 DEF Rw!Granted, Rw!Reading
    <3>. QED
      BY <2>1, <3>1 DEF Rw!RwInv, Rw!TypeOK
  <2>2. CASE rs = N /\ rs' = 0 /\ t \notin Rw!Reading /\ t \notin Rw!Reading' /\ t \in Rw!Granted'
    <3>1. Rw!Granted = {} /\ Rw!Reading = {}
      BY <2>0, <2>2 DEF Rw!RwInv
    <3>2. Rw!Granted' = {t} /\ Rw!Reading' = {}
      BY <1>1, <2>2, <3>1 DEF Rw!Granted, Rw!Reading
    <3>. QED
      BY <2>2, <3>2
  <2>3. CASE rs' = rs + N /\ t \in Rw!Granted /\ t \notin Rw!Granted' /\ t \notin Rw!Reading'
    <3>1. Rw!Granted = {t} /\ Rw!Reading = {} /\ rs = 0
      BY <2>3 DEF Rw!RwInv
    <3>2. Rw!Granted' = {} /\ Rw!Reading' = {}
      BY <1>1, <2>3, <3>1 DEF Rw!Granted, Rw!Reading
    <3>. QED
      BY <2>0, <2>3, <3>1, <3>2
  <2>4. CASE /\ rs >= 1 /\ rs' = rs - 1
             /\ t \notin Rw!Granted /\ t \notin Rw!Granted'
             /\ t \notin Rw!Reading /\ t \in Rw!Reading'
    <3>1. Rw!Granted = {} /\ rs + Cardinality(Rw!Reading) = N
      BY <2>0, <2>4 DEF Rw!RwInv
    <3>2. Rw!Granted' = {} /\ Rw!Reading' = Rw!Reading \cup {t}
      BY <1>1, <2>4, <3>1 DEF Rw!Granted, Rw!Reading
    <3>3. Cardinality(Rw!Reading \cup {t}) = Cardinality(Rw!Reading) + 1
      BY <2>0, <2>4, FS_AddElement, Zenon
    <3>. QED
      BY <2>0, <2>4, <3>1, <3>2, <3>3 DEF Rw!RwInv, Rw!TypeOK
  <2>5. CASE rs' = rs + 1 /\ t \notin Rw!Granted' /\ t \in Rw!Reading /\ t \notin Rw!Reading'
    <3>1. Rw!Granted = {} /\ rs + Cardinality(Rw!Reading) = N
      BY <2>0, <2>5 DEF Rw!RwInv
    <3>2. Rw!Granted' = {} /\ Rw!Reading' = Rw!Reading \ {t}
      BY <1>1, <2>5, <3>1 DEF Rw!Granted, Rw!Reading
    <3>3. /\ Cardinality(Rw!Reading \ {t}) = Cardinality(Rw!Reading) - 1
          /\ Cardinality(Rw!Reading \ {t}) \in Nat
      BY <2>0, <2>5, FS_RemoveElement, FS_CardinalityType
    <3>. QED
      BY <2>0, <2>5, <3>1, <3>2, <3>3 DEF Rw!RwInv, Rw!TypeOK
  <2>. USE DEF Rw!RwInv, Rw!TypeOK, Rw!Granted, Rw!Reading, Rw!Move, Rw!Goto
  <2>6. CASE \/ Rw!WriteAcquire(t) \/ Rw!WriteTryRaise(t) \/ Rw!ReadAcquire(t)
             \/ Rw!ReadTryFlag(t) \/ Rw!WriteRaise(t) \/ Rw!ReadFlag(t)
    BY <2>1, <2>6
       DEF Rw!WriteAcquire, Rw!WriteTryRaise, Rw!ReadAcquire, Rw!ReadTryFlag, Rw!WriteRaise,
           Rw!ReadFlag
  <2>7. CASE \/ Rw!WriteTryRead(t) \/ Rw!WriteTryUndo(t) \/ Rw!WriteReleaseFlag(t)
             \/ Rw!ReadTryRead(t)
    BY <2>1, <2>7 DEF Rw!WriteTryRead, Rw!WriteTryUndo, Rw!WriteReleaseFlag, Rw!ReadTryRead
  <2>8. CASE Rw!WriteSem(t) \/ Rw!WriteTryCas(t) \/ Rw!WriteReleaseSem(t)
    BY <2>1, <2>2, <2>3, <2>8 DEF Rw!WriteSem, Rw!WriteTryCas, Rw!WriteReleaseSem
  <2>9. CASE Rw!ReadSem(t) \/ Rw!ReadTryCas(t) \/ Rw!ReadRelease(t)
    BY <2>1, <2>4, <2>5, <2>9 DEF Rw!ReadSem, Rw!ReadTryCas, Rw!ReadRelease
  <2>. QED
    BY <2>6, <2>7, <2>8, <2>9 DEF Rw!Step
<1>5. \A u \in Users : (pc'[u] = "w_cas" => old'[u] = N) /\ (pc'[u] = "r_cas" => old'[u] >= 1)
  BY <1>1, <1>2 DEF Rw!RwInv
<1>. QED
  BY <1>2, <1>3, <1>4, <1>5 DEF Rw!RwInv, Rw!TypeOK

(* What the invariant says of the threads inside.                          *)
LEMMA RwExcludes == Rw!Parameters /\ Rw!RwInv => Rw!WriterExcludes /\ Rw!FlagOwned
<1>. SUFFICES ASSUME Rw!Parameters, Rw!RwInv PROVE Rw!WriterExcludes /\ Rw!FlagOwned
  OBVIOUS
<1>1. Rw!WriterExcludes
  BY DEF Rw!RwInv, Rw!WriterExcludes, Rw!Granted, Rw!Writing
<1>2. Rw!FlagOwned
  <2>1. Rw!Cardinality({}) = 0 /\ \A u : Rw!Cardinality({u}) = 1
    BY FS_EmptySet, FS_Singleton, Zenon DEF Rw!Cardinality, Cardinality
  <2>2. Rw!Writing \subseteq Rw!Flagged
    BY DEF Rw!Writing, Rw!Flagged
  <2>3. CASE wb = 0
    BY <2>1, <2>2, <2>3 DEF Rw!RwInv, Rw!FlagOwned
  <2>4. CASE wb = 1
    <3>0. PICK u \in Users : Rw!Flagged = {u}
      BY <2>4 DEF Rw!RwInv
    <3>1. wb > 0 /\ Rw!Cardinality(Rw!Flagged) = wb
      BY <2>1, <2>4, <3>0
    <3>. QED
      BY <3>1 DEF Rw!FlagOwned, Rw!AcquiredByWriter
  <2>. QED
    BY <2>3, <2>4 DEF Rw!RwInv, Rw!TypeOK
<1>. QED
  BY <1>1, <1>2

(* rwlock.h, for any number of threads: a writer inside is alone, and the  *)
(* flag wb is raised exactly while one writer owns it.                     *)
THEOREM RwInvariant ==
    ASSUME Rw!Parameters
    PROVE  Rw!Spec => [](Rw!WriterExcludes /\ Rw!FlagOwned)
<1>1. Rw!RwInv => Rw!WriterExcludes /\ Rw!FlagOwned
  BY RwExcludes
<1>. QED
  BY <1>1, RwInit, RwStep, PTL DEF Rw!Spec

(* rwlock.h implements semaphore.h on rs: a thread gives back what it took.*)
THEOREM RwImplementsSemaphore ==
    ASSUME Rw!Parameters
    PROVE  Rw!Spec => Rw!Sem!Spec
<1>1. Rw!Init => Rw!Sem!Init
  BY DEF Rw!Init, Rw!Sem!Init, Rw!Label, Rw!Amount
<1>. QED
  BY <1>1, RwInit, RwStep, RwUsesSemaphore, PTL DEF Rw!Spec, Rw!Sem!Spec, Rw!Sem!Step
=============================================================================
