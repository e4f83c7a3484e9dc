---------------------------- MODULE AmountProofs ----------------------------
(***************************************************************************)
(* TotalAmount is additive: the paise of disjoint sets of records are      *)
(* disjoint. The proofs about TransactionSaga and Reconciliation rest on   *)
(* these lemmas.                                                           *)
(***************************************************************************)
EXTENDS Amounts, FiniteSetTheorems, TLAPS

\* Amounts are natural numbers.
LEMMA AmountTypes == \A t \in Txn : Amount[t] \in Nat
PROOF BY AmountAssumption

\* The paise of one record are as many as its amount.
LEMMA PaiseOfOne ==
    ASSUME NEW t \in Txn
    PROVE  IsFiniteSet(Paise({t})) /\ Cardinality(Paise({t})) = Amount[t]
PROOF
  <1>1. Amount[t] \in Nat
    BY AmountTypes
  <1>2. Paise({t}) = {t} \X (1..Amount[t])
    <2>1. \A p : p \in Paise({t}) <=> \E s \in {t} : p \in {s} \X (1..Amount[s])
      BY DEF Paise
    <2>2. \A p : p \in Paise({t}) <=> p \in {t} \X (1..Amount[t])
      BY <2>1
    <2> QED BY <2>2
  <1>3. IsFiniteSet({t}) /\ Cardinality({t}) = 1
    BY FS_Singleton
  <1>4. IsFiniteSet(1..Amount[t]) /\ Cardinality(1..Amount[t]) = Amount[t]
    <2>1. 1 \in Int /\ Amount[t] \in Int
      BY <1>1
    <2>2. IsFiniteSet(1..Amount[t])
          /\ Cardinality(1..Amount[t]) = IF 1 > Amount[t] THEN 0 ELSE Amount[t] - 1 + 1
      BY <2>1, FS_Interval, Zenon
    <2>3. (IF 1 > Amount[t] THEN 0 ELSE Amount[t] - 1 + 1) = Amount[t]
      BY <1>1
    <2> QED BY <2>2, <2>3
  <1>5. IsFiniteSet({t} \X (1..Amount[t]))
        /\ Cardinality({t} \X (1..Amount[t])) = 1 * Amount[t]
    <2> DEFINE one == {t}  paise == 1..Amount[t]
    <2>1. IsFiniteSet(one) /\ IsFiniteSet(paise)
      BY <1>3, <1>4
    <2>2. Cardinality(one) = 1 /\ Cardinality(paise) = Amount[t]
      BY <1>3, <1>4
    <2> HIDE DEF one, paise
    <2>3. IsFiniteSet(one \X paise)
          /\ Cardinality(one \X paise) = Cardinality(one) * Cardinality(paise)
      BY <2>1, FS_Product
    <2>4. IsFiniteSet(one \X paise) /\ Cardinality(one \X paise) = 1 * Amount[t]
      BY <2>2, <2>3
    <2> QED BY <2>4 DEF one, paise
  <1>6. 1 * Amount[t] = Amount[t]
    BY <1>1
  <1> QED BY <1>2, <1>5, <1>6

\* Every set of records has finitely many paise.
LEMMA PaiseFinite ==
    ASSUME NEW T \in SUBSET Txn
    PROVE  /\ IsFiniteSet(T) /\ Cardinality(T) \in Nat
           /\ IsFiniteSet(Paise(T)) /\ TotalAmount(T) \in Nat
PROOF
  <1>1. IsFiniteSet(T)
    BY AmountAssumption, FS_Subset
  <1>2. IsFiniteSet(1..MaxAmount)
    BY AmountAssumption, FS_Interval
  <1>3. IsFiniteSet(T \X (1..MaxAmount))
    <2> DEFINE paise == 1..MaxAmount
    <2> HIDE DEF paise
    <2>1. IsFiniteSet(T \X paise)
      BY <1>1, <1>2, FS_Product DEF paise
    <2> QED BY <2>1 DEF paise
  <1>4. Paise(T) \subseteq T \X (1..MaxAmount)
    <2>1. \A t \in T : Amount[t] \in 0..MaxAmount /\ MaxAmount \in Nat
      BY AmountAssumption
    <2> QED BY <2>1 DEF Paise
  <1>5. IsFiniteSet(Paise(T))
    BY <1>3, <1>4, FS_Subset
  <1> QED BY <1>1, <1>5, FS_CardinalityType DEF TotalAmount

\* A record that joins a set adds its amount, and one to the count.
LEMMA TotalAdd ==
    ASSUME NEW T \in SUBSET Txn, NEW t \in Txn \ T
    PROVE  /\ TotalAmount(T \cup {t}) = TotalAmount(T) + Amount[t]
           /\ Cardinality(T \cup {t}) = Cardinality(T) + 1
PROOF
  <1>1. Paise(T \cup {t}) = Paise(T) \cup Paise({t})
    BY DEF Paise
  <1>2. Paise(T) \cap Paise({t}) = {}
    <2>1. \A p \in Paise(T) : p[1] \in T
      BY DEF Paise
    <2>2. \A p \in Paise({t}) : p[1] = t
      BY DEF Paise
    <2>3. \A p : p \notin Paise(T) \cap Paise({t})
      BY <2>1, <2>2
    <2> QED BY <2>3
  <1>3. IsFiniteSet(T) /\ IsFiniteSet(Paise(T)) /\ TotalAmount(T) \in Nat
    BY PaiseFinite
  <1>4. Cardinality(Paise(T) \cup Paise({t}))
          = Cardinality(Paise(T)) + Cardinality(Paise({t})) - Cardinality({})
    <2>1. IsFiniteSet(Paise(T)) /\ IsFiniteSet(Paise({t}))
      BY <1>3, PaiseOfOne
    <2>2. Cardinality(Paise(T) \cup Paise({t}))
            = Cardinality(Paise(T)) + Cardinality(Paise({t})) - Cardinality(Paise(T) \cap Paise({t}))
      BY <2>1, FS_Union
    <2> QED BY <1>2, <2>2
  <1>5. Cardinality({}) = 0 /\ Amount[t] \in Nat
    BY FS_EmptySet, AmountTypes
  <1>6. Cardinality(Paise({t})) = Amount[t]
    BY PaiseOfOne
  <1>7. TotalAmount(T \cup {t}) = TotalAmount(T) + Amount[t]
    <2>1. Cardinality(Paise(T \cup {t})) = Cardinality(Paise(T)) + Amount[t] - 0
      BY <1>1, <1>4, <1>5, <1>6
    <2>2. Cardinality(Paise(T)) \in Nat
      BY <1>3 DEF TotalAmount
    <2> HIDE DEF Paise
    <2> QED BY <2>1, <2>2, <1>5 DEF TotalAmount
  <1>8. Cardinality(T \cup {t}) = Cardinality(T) + 1
    BY <1>3, FS_AddElement
  <1> QED BY <1>7, <1>8

\* A record that leaves a set takes its amount with it.
LEMMA TotalRemove ==
    ASSUME NEW T \in SUBSET Txn, NEW t \in T
    PROVE  /\ TotalAmount(T \ {t}) = TotalAmount(T) - Amount[t]
           /\ Cardinality(T \ {t}) = Cardinality(T) - 1
           /\ TotalAmount(T) >= Amount[t] /\ Cardinality(T) >= 1
PROOF
  <1> DEFINE S == T \ {t}
  <1>1. S \in SUBSET Txn /\ t \in Txn \ S /\ S \cup {t} = T
    OBVIOUS
  <1>2. TotalAmount(T) = TotalAmount(S) + Amount[t] /\ Cardinality(T) = Cardinality(S) + 1
    BY <1>1, TotalAdd
  <1>3. TotalAmount(S) \in Nat /\ Cardinality(S) \in Nat /\ Amount[t] \in Nat
    BY <1>1, PaiseFinite, AmountTypes
  <1> QED BY <1>2, <1>3

\* Fewer records never total more.
LEMMA TotalMonotone ==
    ASSUME NEW T \in SUBSET Txn, NEW S \in SUBSET T
    PROVE  TotalAmount(S) <= TotalAmount(T) /\ Cardinality(S) <= Cardinality(T)
PROOF
  <1>1. Paise(S) \subseteq Paise(T)
    BY DEF Paise
  <1>2. IsFiniteSet(T) /\ IsFiniteSet(Paise(T))
    BY PaiseFinite
  <1> QED BY <1>1, <1>2, FS_Subset DEF TotalAmount

\* Nobody holds anything: nothing.
LEMMA TotalEmpty == TotalAmount({}) = 0 /\ Cardinality({}) = 0
PROOF
  <1>1. Paise({}) = {}
    BY DEF Paise
  <1> QED BY <1>1, FS_EmptySet DEF TotalAmount
=============================================================================
