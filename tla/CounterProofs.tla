---------------------------- MODULE CounterProofs ----------------------------
(***************************************************************************)
(* Proofs about CounterEngine, for every kind of counter, all calls and    *)
(* processes, limits, shard factors and delays, and windows of any length. *)
(***************************************************************************)
EXTENDS CounterEngine, AmountProofs, FunctionTheorems

-----------------------------------------------------------------------------
(* Labels: hours and days begin at multiples.                              *)

\* Division leaves a remainder below the divisor.
LEMMA Remainder ==
    ASSUME NEW m \in Nat \ {0}, NEW t \in Int
    PROVE  t % m \in 0..(m - 1) /\ t \div m \in Int /\ t = m * (t \div m) + (t % m)
PROOF OBVIOUS

\* A later multiple is later by a whole period.
LEMMA NextMultiple ==
    ASSUME NEW m \in Nat \ {0}, NEW a \in Int, NEW b \in Int, a < b
    PROVE  m * a + m <= m * b
PROOF
  <1>1. PICK d \in Nat : b = a + 1 + d
    <2>1. b - a - 1 \in Nat /\ b = a + 1 + (b - a - 1)
      OBVIOUS
    <2> QED BY <2>1
  <1>2. m * b = m * a + m + m * d
    BY <1>1
  <1>3. m * d \in Nat /\ m * a \in Int
    OBVIOUS
  <1> QED BY <1>2, <1>3

\* The period of a time begins at most a period before it.
LEMMA PeriodBegins ==
    ASSUME NEW m \in Nat \ {0}, NEW t \in Int
    PROVE  /\ t - (t % m) \in Int /\ t - (t % m) <= t /\ t < t - (t % m) + m
           /\ t \in Nat => t - (t % m) \in Nat
PROOF
  <1>1. t % m \in 0..(m - 1) /\ t \div m \in Int /\ t = m * (t \div m) + (t % m)
    BY Remainder
  <1>2. t \in Nat => t - (t % m) \in Nat
    <2> DEFINE a == t \div m  r == t % m
    <2>1. a \in Int /\ r \in 0..(m - 1) /\ t = m * a + r
      BY <1>1
    <2> HIDE DEF a, r
    <2>2. m * a \in Int
      BY <2>1
    <2>3. CASE a < 0
      BY <2>1, <2>2, <2>3, NextMultiple
    <2>4. CASE a = 0
      BY <2>1, <2>2, <2>4
    <2>5. CASE 0 < a
      BY <2>1, <2>2, <2>5, NextMultiple
    <2> QED BY <2>1, <2>3, <2>4, <2>5 DEF r
  <1> QED BY <1>1, <1>2

\* Periods begin in the order of their times.
LEMMA PeriodsInOrder ==
    ASSUME NEW m \in Nat \ {0}, NEW s \in Int, NEW t \in Int, s <= t
    PROVE  s - (s % m) <= t - (t % m)
PROOF
  <1> DEFINE a == s \div m  b == t \div m
  <1>1. a \in Int /\ s % m \in 0..(m - 1) /\ s = m * a + (s % m)
    BY Remainder
  <1>2. b \in Int /\ t % m \in 0..(m - 1) /\ t = m * b + (t % m)
    BY Remainder
  <1> HIDE DEF a, b
  <1>3. m * a \in Int /\ m * b \in Int
    BY <1>1, <1>2
  <1>4. CASE b < a
    <2>1. m * b + m <= m * a
      BY <1>1, <1>2, <1>4, NextMultiple
    <2> QED BY <2>1, <1>1, <1>2, <1>3
  <1>5. CASE a = b
    BY <1>1, <1>2, <1>3, <1>5
  <1>6. CASE a < b
    <2>1. m * a + m <= m * b
      BY <1>1, <1>2, <1>6, NextMultiple
    <2> QED BY <2>1, <1>1, <1>2, <1>3
  <1> QED BY <1>1, <1>2, <1>4, <1>5, <1>6

\* The lengths of the windows, as far as the proofs use them.
LEMMA Lengths ==
    /\ Hour \in Nat \ {0} /\ Horizon \in Nat \ {0} /\ Day \in Nat \ {0}
    /\ Grace \in Nat /\ Poll \in Nat /\ Slow \in Nat /\ Refresh \in Nat \ {0}
    /\ Slow <= Grace /\ Poll + Slow + Hour <= Horizon
PROOF BY EngineAssumption

\* A minute's label is odd, an hour's is even and that of its first minute's
\* hour; either is near its time.
LEMMA Labels ==
    ASSUME NEW t \in Int, NEW g \in {"HOUR", "MINUTE"}
    PROVE  /\ BucketLabel(t, g) \in Int /\ (t \in Nat => BucketLabel(t, g) \in Nat)
           /\ BucketLabel(t, g) <= 2 * t + 1
           /\ 2 * (t - Hour + 1) <= BucketLabel(t, g)
           /\ g = "MINUTE" => BucketLabel(t, g) = 2 * t + 1 /\ BucketLabel(t, g) % 2 = 1
           /\ g = "HOUR" => /\ BucketLabel(t, g) = 2 * (t - (t % Hour))
                            /\ BucketLabel(t, g) % 2 = 0
                            /\ BucketLabel(t, g) \div 2 = t - (t % Hour)
PROOF
  <1> DEFINE h == t - (t % Hour)
  <1>1. h \in Int /\ h <= t /\ t < h + Hour /\ (t \in Nat => h \in Nat)
    BY Lengths, PeriodBegins
  <1>2. BucketLabel(t, g) = IF g = "MINUTE" THEN 2 * t + 1 ELSE 2 * h
    BY DEF BucketLabel
  <1> HIDE DEF h
  <1>3. (2 * t + 1) % 2 = 1 /\ (2 * h) % 2 = 0 /\ (2 * h) \div 2 = h
    BY <1>1
  <1>4. CASE g = "MINUTE"
    BY <1>2, <1>3, <1>4, <1>1, Lengths
  <1>5. CASE g = "HOUR"
    BY <1>2, <1>3, <1>5, <1>1, Lengths DEF h
  <1> QED BY <1>4, <1>5

-----------------------------------------------------------------------------
(* Sums over buckets, and the largest of some numbers.                     *)

\* Finitely many finite parts are finitely many things.
LEMMA FiniteUnion ==
    ASSUME NEW I, IsFiniteSet(I), NEW part, \A i \in I : IsFiniteSet(part[i])
    PROVE  IsFiniteSet(UNION {part[i] : i \in I})
PROOF
  <1> DEFINE parts == {part[i] : i \in I}
             naming == [i \in I |-> part[i]]
  <1>1. naming \in Surjection(I, parts)
    <2>1. naming \in [I -> parts] /\ \A t \in parts : \E i \in I : naming[i] = t
      OBVIOUS
    <2> HIDE DEF naming, parts
    <2> QED BY <2>1, Fun_IsSurj
  <1>2. IsFiniteSet(parts)
    <2> HIDE DEF naming, parts
    <2> QED BY <1>1, FS_Surjection
  <1>3. \A t \in parts : IsFiniteSet(t)
    OBVIOUS
  <1> HIDE DEF parts
  <1>4. IsFiniteSet(UNION parts)
    BY <1>2, <1>3, FS_UNION
  <1> QED BY <1>4 DEF parts

\* What is in some part or other.
Together(part) == UNION {part[i] : i \in DOMAIN part}

\* Counting the units of disjoint parts one part at a time counts them all.
LEMMA UnitsOfParts ==
    ASSUME NEW n, NEW part, DOMAIN n = DOMAIN part, IsFiniteSet(DOMAIN part),
           \A i \in DOMAIN part : IsFiniteSet(part[i]) /\ n[i] = Cardinality(part[i]),
           \A i, j \in DOMAIN part : i # j => part[i] \cap part[j] = {}
    PROVE  Cardinality(Units(n)) = Cardinality(Together(part))
PROOF
  <1> DEFINE I == DOMAIN part
             all == Together(part)
             units == Units(n)
             at(x) == CHOOSE i \in I : x \in part[i]
             number(i) == CHOOSE f : f \in Bijection(part[i], 1..n[i])
             f == [x \in all |-> <<at(x), number(at(x))[x]>>]
  <1> USE DEF Together, Units
  <1>1. IsFiniteSet(all)
    BY FiniteUnion
  <1>2. \A i \in I : number(i) \in Bijection(part[i], 1..n[i])
    <2> TAKE i \in I
    <2>1. ExistsBijection(1..n[i], part[i])
      BY FS_CardinalityType
    <2>2. ExistsBijection(part[i], 1..n[i])
      BY <2>1, Fun_ExistsBijSymmetric
    <2>3. \E g : g \in Bijection(part[i], 1..n[i])
      BY <2>2 DEF ExistsBijection
    <2> QED BY <2>3
  <1>3. \A i \in I : /\ number(i) \in [part[i] -> 1..n[i]]
                     /\ \A x, y \in part[i] : number(i)[x] = number(i)[y] => x = y
                     /\ \A k \in 1..n[i] : \E x \in part[i] : number(i)[x] = k
    <2> TAKE i \in I
    <2> DEFINE g == number(i)  m == 1..n[i]
    <2>1. g \in Bijection(part[i], m)
      BY <1>2
    <2> HIDE DEF g, m
    <2>2. g \in Injection(part[i], m) /\ g \in Surjection(part[i], m)
      BY <2>1, Fun_BijectionProperties
    <2>3. /\ g \in [part[i] -> m]
          /\ \A x, y \in part[i] : g[x] = g[y] => x = y
          /\ \A k \in m : \E x \in part[i] : g[x] = k
      BY <2>2, Fun_InjectionProperties, Fun_SurjectionProperties
    <2> QED BY <2>3 DEF g, m
  <1>4. \A x \in all : at(x) \in I /\ x \in part[at(x)]
    OBVIOUS
  <1>5. \A i \in I : \A x \in part[i] : x \in all /\ at(x) = i
    BY <1>4
  <1> HIDE DEF at, number
  <1>6. f \in [all -> units]
    <2>1. \A x \in all : <<at(x), number(at(x))[x]>> \in {at(x)} \X (1..n[at(x)])
      BY <1>3, <1>4
    <2>2. \A x \in all : f[x] \in units
      BY <2>1, <1>4
    <2> HIDE DEF all, units
    <2> QED BY <2>2
  <1>7. \A x, y \in all : f[x] = f[y] => x = y
    <2> TAKE x, y \in all
    <2> HAVE f[x] = f[y]
    <2>1. at(x) = at(y) /\ number(at(x))[x] = number(at(y))[y]
      OBVIOUS
    <2> HIDE DEF all, f
    <2> QED BY <2>1, <1>3, <1>4
  <1>8. \A u \in units : \E x \in all : f[x] = u
    <2> TAKE u \in units
    <2>1. PICK i \in I : u \in {i} \X (1..n[i])
      OBVIOUS
    <2>2. u = <<i, u[2]>> /\ u[2] \in 1..n[i]
      BY <2>1
    <2>3. PICK x \in part[i] : number(i)[x] = u[2]
      BY <2>2, <1>3
    <2>4. x \in all /\ at(x) = i
      BY <1>5
    <2>5. f[x] = <<i, u[2]>>
      BY <2>3, <2>4
    <2> QED BY <2>2, <2>4, <2>5
  <1>9. ExistsBijection(all, units)
    <2> HIDE DEF all, units, f
    <2>1. f \in Bijection(all, units)
      BY <1>6, <1>7, <1>8, Fun_IsBij
    <2> QED BY <2>1 DEF ExistsBijection
  <1> HIDE DEF all, units
  <1>10. IsFiniteSet(units) /\ Cardinality(units) = Cardinality(all)
    BY <1>1, <1>9, FS_Bijection
  <1> QED BY <1>10 DEF all, units

\* Buckets that hold the sums of disjoint sets of calls total the sum of them all.
LEMMA TotalOfBuckets ==
    ASSUME NEW buckets, NEW part, DOMAIN buckets = DOMAIN part, IsFiniteSet(DOMAIN part),
           \A l \in DOMAIN part : part[l] \in SUBSET Txn /\ buckets[l] = Sum(part[l]),
           \A l, m \in DOMAIN part : l # m => part[l] \cap part[m] = {}
    PROVE  Total(buckets) = Sum(Together(part))
PROOF
  <1> DEFINE amount == [l \in DOMAIN buckets |-> buckets[l].amount]
             count == [l \in DOMAIN buckets |-> buckets[l].count]
             paise == [l \in DOMAIN part |-> Paise(part[l])]
  <1>1. Cardinality(Units(count)) = Cardinality(Together(part))
    <2>1. \A l \in DOMAIN part : IsFiniteSet(part[l]) /\ count[l] = Cardinality(part[l])
      BY PaiseFinite DEF Sum
    <2>2. DOMAIN count = DOMAIN part
      OBVIOUS
    <2> HIDE DEF count
    <2> QED BY <2>1, <2>2, UnitsOfParts
  <1>2. Cardinality(Units(amount)) = TotalAmount(Together(part))
    <2>1. \A l \in DOMAIN part : IsFiniteSet(paise[l]) /\ amount[l] = Cardinality(paise[l])
      BY PaiseFinite DEF Sum, TotalAmount
    <2>2. \A l, m \in DOMAIN part : l # m => paise[l] \cap paise[m] = {}
      <3> TAKE l, m \in DOMAIN part
      <3> HAVE l # m
      <3>1. \A u \in Paise(part[l]) : u[1] \in part[l]
        BY DEF Paise
      <3>2. \A u \in Paise(part[m]) : u[1] \in part[m]
        BY DEF Paise
      <3>3. \A u : u \notin Paise(part[l]) \cap Paise(part[m])
        BY <3>1, <3>2
      <3> QED BY <3>3
    <2>3. Together(paise) = Paise(Together(part))
      BY DEF Paise, Together
    <2>4. DOMAIN amount = DOMAIN paise /\ DOMAIN paise = DOMAIN part
      OBVIOUS
    <2> HIDE DEF amount, paise
    <2>5. Cardinality(Units(amount)) = Cardinality(Together(paise))
      BY <2>1, <2>2, <2>4, UnitsOfParts
    <2> QED BY <2>3, <2>5 DEF TotalAmount
  <1> QED BY <1>1, <1>2 DEF Total, Sum

\* The sum of any calls is money, and that of fewer calls is not more.
LEMMA Sums ==
    ASSUME NEW T \in SUBSET Txn, NEW S \in SUBSET T
    PROVE  /\ Sum(T) \in Money
           /\ Sum(S).amount <= Sum(T).amount /\ Sum(S).count <= Sum(T).count
PROOF
  <1>1. TotalAmount(T) \in Nat /\ Cardinality(T) \in Nat
    BY PaiseFinite
  <1>2. TotalAmount(S) <= TotalAmount(T) /\ Cardinality(S) <= Cardinality(T)
    BY TotalMonotone
  <1> QED BY <1>1, <1>2 DEF Sum, Money

\* Finitely many numbers have a largest.
LEMMA MaxIsLargest ==
    ASSUME NEW S \in SUBSET Nat, IsFiniteSet(S), S # {}
    PROVE  Max(S) \in S /\ \A x \in S : x <= Max(S)
PROOF
  <1> DEFINE below == [x \in S |-> {y \in S : y <= x}]
             above == [x \in S |-> Cardinality(S) - Cardinality(below[x])]
             ranks == {above[x] : x \in S}
             less == {ss \in Nat \X Nat : ss[1] < ss[2]}
  <1>1. Cardinality(S) \in Nat
    BY FS_CardinalityType
  <1>2. \A x \in S : /\ IsFiniteSet(below[x]) /\ Cardinality(below[x]) \in Nat
                     /\ Cardinality(below[x]) <= Cardinality(S)
    <2> TAKE x \in S
    <2>1. below[x] \in SUBSET S
      OBVIOUS
    <2> HIDE DEF below
    <2>2. IsFiniteSet(below[x]) /\ Cardinality(below[x]) <= Cardinality(S)
      BY <2>1, FS_Subset
    <2> QED BY <2>2, FS_CardinalityType
  <1>3. ranks \subseteq Nat /\ ranks # {}
    <2>1. \A x \in S : above[x] \in Nat
      <3> HIDE DEF below
      <3> QED BY <1>1, <1>2
    <2> HIDE DEF above
    <2> QED BY <2>1
  <1>4. \E r \in ranks : \A q \in ranks : r <= q
    <2>1. IsWellFoundedOn(less, Nat)
      BY NatLessThanWellFounded DEF OpToRel
    <2>2. \E r \in ranks : \A q \in ranks : <<q, r>> \notin less
      <3> HIDE DEF less, ranks
      <3> QED BY <1>3, <2>1, WFMin
    <2>3. \A r, q \in Nat : <<q, r>> \notin less => r <= q
      OBVIOUS
    <2> HIDE DEF less, ranks
    <2> QED BY <1>3, <2>2, <2>3
  <1>5. PICK m \in S : \A x \in S : above[m] <= above[x]
    <2> HIDE DEF above
    <2> QED BY <1>4
  <1>6. \A x \in S : x <= m
    <2> SUFFICES ASSUME NEW x \in S, ~(x <= m) PROVE FALSE
      OBVIOUS
    <2>1. below[m] \in SUBSET below[x] /\ x \in below[x] /\ x \notin below[m]
      <3>1. below[m] = {y \in S : y <= m} /\ below[x] = {y \in S : y <= x}
        OBVIOUS
      <3>2. m \in Nat /\ x \in Nat /\ m <= x /\ x <= x
        <4> HIDE DEF below, above, ranks, less
        <4> QED OBVIOUS
      <3>3. \A y \in S : y \in Nat /\ (y <= m => y <= x)
        <4> HIDE DEF below, above, ranks, less
        <4> QED BY <3>2
      <3>4. below[m] \in SUBSET below[x]
        <4> HIDE DEF below, above, ranks, less
        <4> QED BY <3>1, <3>3
      <3> HIDE DEF below, above, ranks, less
      <3> QED BY <3>1, <3>2, <3>4
    <2>2. Cardinality(below[m]) <= Cardinality(below[x])
          /\ Cardinality(below[m]) # Cardinality(below[x])
      <3>1. IsFiniteSet(below[x])
        BY <1>2
      <3> HIDE DEF below
      <3>2. /\ Cardinality(below[m]) <= Cardinality(below[x])
            /\ Cardinality(below[x]) = Cardinality(below[m]) => below[x] = below[m]
        BY <2>1, <3>1, FS_Subset
      <3> QED BY <2>1, <3>2
    <2>3. above[m] <= above[x]
      BY <1>5
    <2> HIDE DEF below
    <2> QED BY <1>1, <1>2, <2>2, <2>3
  <1>7. \E y \in S : \A x \in S : y >= x
    BY <1>6
  <1> QED BY <1>7 DEF Max

-----------------------------------------------------------------------------
(* Types.                                                                  *)

\* The calls are finitely many records.
LEMMA CallsAreRecords ==
    ASSUME kind \in Kind
    PROVE  Call \in SUBSET Txn /\ Counted \in SUBSET Call
PROOF BY EngineAssumption DEF Call, Counted

\* The parts of a call's local state, in TypeOK.
LEMMA CallTypes ==
    ASSUME TypeOK, NEW c \in Call
    PROVE  /\ c \in Txn /\ Amount[c] \in Nat
           /\ call[c] \in CallState
           /\ Now(c) \in Nat /\ Window(c) \in WindowEntry
           /\ call[c].asked \in Nat /\ call[c].at \in Nat /\ call[c].label \in Nat
           /\ call[c].key \in Nat \X Nat
           /\ Window(c).granularity \in {"HOUR", "MINUTE"}
           /\ Base(c) \in Nat /\ Label(c) \in Nat /\ Oldest(c) \in Int
PROOF
  <1>1. c \in Txn /\ Amount[c] \in Nat
    BY CallsAreRecords, AmountTypes DEF TypeOK
  <1>2. call[c] \in CallState
    BY DEF TypeOK
  <1>3. /\ Now(c) \in Nat /\ Window(c) \in WindowEntry
        /\ call[c].asked \in Nat /\ call[c].at \in Nat /\ call[c].label \in Nat
        /\ call[c].key \in Nat \X Nat
    BY <1>2 DEF CallState, Now, Window
  <1>4. Window(c).granularity \in {"HOUR", "MINUTE"}
    BY <1>3 DEF WindowEntry
  <1>5. DayStart(Now(c)) \in Nat
    BY <1>3, PeriodBegins, Lengths DEF DayStart
  <1>6. /\ BucketLabel(Now(c), Window(c).granularity) \in Nat
        /\ Oldest(c) \in Int
    <2>1. Now(c) - Horizon \in Int /\ Now(c) \in Int
      BY <1>3, Lengths
    <2> QED BY <1>3, <1>4, <2>1, Labels DEF Oldest, HorizonLabel
  <1> QED BY <1>1, <1>2, <1>3, <1>4, <1>5, <1>6 DEF Base, Label

-----------------------------------------------------------------------------
(* What a step does to the documents and to what is recorded in them.      *)

\* A call keeps its record.
Stands(c) ==
    /\ call'[c].now = call[c].now /\ call'[c].key = call[c].key
    /\ call'[c].label = call[c].label /\ call'[c].at = call[c].at

\* Time stands still, and the registry and its snapshots are as they were.
Standing == UNCHANGED <<kind, clock, entry, refined, dropped, snapshot, behind>>

\* No document changes, and nothing is recorded or given back.
Quiet ==
    /\ docs' = docs /\ Counted' = Counted
    /\ \A c \in Counted : Stands(c)

\* What a write of call c finds in the document of a key.
Kept(c, key) ==
    IF kind = "tier2" THEN Buckets(key) ELSE Prune(Buckets(key), Oldest(c))

\* Call c is recorded in shard i ...
Writes(c, i) ==
    /\ InFlight(c) /\ ~InFlight(c)' /\ Standing
    /\ docs' = Put(docs, <<Base(c), i>>,
                   [buckets |-> AddTo(Kept(c, <<Base(c), i>>), Label(c), c),
                    expireAt |-> Expiry(c, <<Base(c), i>>)])
    /\ call' = [call EXCEPT ![c] = [Nothing EXCEPT !.pc = "applied", !.now = Now(c),
                        !.key = <<Base(c), i>>, !.label = Label(c), !.at = clock]]
    /\ Counted' = Counted \cup {c} /\ c \notin Counted
    /\ \A d \in Counted : Stands(d)
    /\ kind = "rolling" => i = 0 /\ Fits(Total(Kept(c, <<Base(c), 0>>)), c)
    /\ kind # "rolling" =>
        call[c].pc = "passed" /\ i \in 0..(WriteFactor(Window(c).history, Now(c)) - 1)

\* ... or breaches the strict limit, and only prunes ...
Prunes(c) ==
    /\ kind = "rolling" /\ InFlight(c) /\ ~InFlight(c)' /\ Standing
    /\ docs' = Put(docs, <<Base(c), 0>>, [buckets |-> Kept(c, <<Base(c), 0>>),
                                          expireAt |-> Expiry(c, <<Base(c), 0>>)])
    /\ \A d \in Call \ {c} : call'[d] = call[d]
    /\ Counted' = Counted /\ \A d \in Counted : Stands(d)

\* ... or is given back ...
GivesBack(c) ==
    LET k == call[c].key  l == call[c].label IN
    /\ c \in Counted /\ ~InFlight(c) /\ Standing
    /\ k \in DOMAIN docs /\ l \in DOMAIN docs[k].buckets
    /\ docs[k].buckets[l].amount >= Amount[c] /\ docs[k].buckets[l].count >= 1
    /\ docs' = [docs EXCEPT ![k].buckets[l] =
                    [amount |-> @.amount - Amount[c], count |-> @.count - 1]]
    /\ ~InFlight(c)' /\ \A d \in Call \ {c} : call'[d] = call[d]
    /\ Counted' = Counted \ {c} /\ \A d \in Counted \ {c} : Stands(d)

\* ... or a document expires.
Expires(k) ==
    /\ k \in DOMAIN docs /\ docs[k].expireAt < clock
    /\ docs' = Restrict(docs, DOMAIN docs \ {k})
    /\ Standing /\ UNCHANGED call /\ Counted' = Counted
    /\ \A c \in Counted : Stands(c)

\* A call that has not begun has a state.
LEMMA NothingIsState == Nothing \in CallState
PROOF BY DEF Nothing, NoWindow, CallState, WindowEntry

\* A step that moves one call along, without recording it, is quiet.
LEMMA MovesOn ==
    ASSUME TypeOK, NEW c \in Call, NEW new \in CallState, UNCHANGED <<kind, docs>>,
           call' = [call EXCEPT ![c] = new],
           c \in Counted => /\ new.pc \in {"applied", "signalled"}
                            /\ new.now = call[c].now /\ new.key = call[c].key
                            /\ new.label = call[c].label /\ new.at = call[c].at,
           c \notin Counted => new.pc \notin {"applied", "signalled"}
    PROVE  Quiet
PROOF
  <1>1. Call' = Call
    BY DEF Call
  <1>2. call \in [Call -> CallState]
    BY DEF TypeOK
  <1>3. \A d \in Call : call'[d] = IF d = c THEN new ELSE call[d]
    BY <1>2
  <1>4. Counted' = Counted
    BY <1>1, <1>3 DEF Counted
  <1> QED BY <1>3, <1>4 DEF Quiet, Stands, Counted

\* What is not due to count any more, or not yet.
LEMMA EndsQuietly ==
    ASSUME TypeOK, NEW c \in Call \ Counted, UNCHANGED <<kind, docs>>,
           NEW total, NEW t \in Nat, Decide(c, total, t)
    PROVE  Quiet
PROOF
  <1>1. call[c] \in CallState
    BY CallTypes
  <1>2. CASE Fits(total, c)
    <2> DEFINE new == [[call[c] EXCEPT !.pc = "passed"] EXCEPT !.asked = t]
    <2>1. new \in CallState /\ new.pc = "passed"
      BY <1>1 DEF CallState
    <2>2. call' = [call EXCEPT ![c] = new]
      BY <1>2 DEF Decide
    <2> HIDE DEF new
    <2> QED BY <2>1, <2>2, MovesOn
  <1>3. CASE ~Fits(total, c)
    <2> DEFINE new == [Nothing EXCEPT !.pc = "breached"]
    <2>1. new \in CallState /\ new.pc = "breached"
      BY NothingIsState DEF CallState
    <2>2. call' = [call EXCEPT ![c] = new]
      BY <1>3 DEF Decide, End
    <2> HIDE DEF new
    <2> QED BY <2>1, <2>2, MovesOn
  <1> QED BY <1>2, <1>3

\* Every step is quiet, or one of the four.
LEMMA Effects ==
    ASSUME TypeOK, KindSteps, [Next]_vars
    PROVE  /\ kind' = kind /\ boundary' = boundary
           /\ \/ Quiet
              \/ \E c \in Call, i \in Nat : Writes(c, i)
              \/ \E c \in Call : Prunes(c) \/ GivesBack(c)
              \/ \E k \in DOMAIN docs : Expires(k)
PROOF
  <1>1. ASSUME NEW c \in Call, Enter(c)
        PROVE  Quiet
    <2>1. PICK p \in Process, t \in (clock - Slow)..clock :
            /\ t >= 0
            /\ call' = [call EXCEPT ![c].pc = "entered", ![c].home = p, ![c].now = t,
                                    ![c].window = snapshot[p]]
      BY <1>1 DEF Enter
    <2> DEFINE new == [[[[call[c] EXCEPT !.pc = "entered"] EXCEPT !.home = p] EXCEPT !.now = t]
                        EXCEPT !.window = snapshot[p]]
    <2>2. call[c] \in CallState /\ snapshot[p] \in WindowEntry /\ t \in Nat
      BY <2>1, CallTypes, Lengths DEF TypeOK
    <2>3. new \in CallState /\ new.pc = "entered"
      BY <2>2 DEF CallState
    <2>4. call' = [call EXCEPT ![c] = new]
      BY <2>1
    <2>5. c \notin Counted /\ docs' = docs /\ kind' = kind
      BY <1>1 DEF Enter, Counted
    <2> HIDE DEF new
    <2> QED BY <2>3, <2>4, <2>5, MovesOn
  <1>2. ASSUME NEW c \in Call, RollingUpdate(c)
        PROVE  Writes(c, 0) \/ Prunes(c)
    <2> DEFINE key == <<Base(c), 0>>  kept == Prune(Buckets(key), Oldest(c))
               applied == Fits(Total(kept), c)
    <2>1. /\ kind = "rolling" /\ call[c].pc = "entered" /\ Standing
          /\ docs' = Put(docs, key, [buckets |-> IF applied THEN AddTo(kept, Label(c), c) ELSE kept,
                                     expireAt |-> Expiry(c, key)])
          /\ Record(c, IF applied THEN "applied" ELSE "breached", key)
      BY <1>2 DEF RollingUpdate, Standing
    <2>2. Kept(c, key) = kept
      BY <2>1 DEF Kept
    <2>3. call \in [Call -> CallState] /\ Call' = Call
      BY <2>1 DEF TypeOK, Call, Standing
    <2>4. c \notin Counted /\ InFlight(c)
      BY <2>1 DEF Counted, InFlight
    <2> HIDE DEF key, kept, applied
    <2>5. CASE applied
      <3>1. call' = [call EXCEPT ![c] = [Nothing EXCEPT !.pc = "applied", !.now = Now(c),
                        !.key = key, !.label = Label(c), !.at = clock]]
        BY <2>1, <2>5 DEF Record
      <3>2. \A d \in Call : d # c => call'[d] = call[d]
        BY <2>3, <3>1
      <3>3. call'[c].pc = "applied"
        BY <2>3, <3>1 DEF Nothing
      <3>4. Counted' = Counted \cup {c} /\ \A d \in Counted : Stands(d)
        BY <2>3, <2>4, <3>2, <3>3 DEF Counted, Stands
      <3>5. ~InFlight(c)'
        BY <3>3 DEF InFlight
      <3>6. docs' = Put(docs, key, [buckets |-> AddTo(kept, Label(c), c), expireAt |-> Expiry(c, key)])
        BY <2>1, <2>5
      <3> QED BY <2>1, <2>2, <2>4, <2>5, <3>1, <3>4, <3>5, <3>6 DEF Writes, key, applied
    <2>6. CASE ~applied
      <3>1. \A d \in Call : d # c => call'[d] = call[d]
        BY <2>1, <2>3 DEF Record
      <3>2. call'[c].pc = "breached"
        BY <2>1, <2>3, <2>6 DEF Record, Nothing
      <3>3. Counted' = Counted /\ \A d \in Counted : Stands(d)
        BY <2>3, <2>4, <3>1, <3>2 DEF Counted, Stands
      <3>4. ~InFlight(c)'
        BY <3>2 DEF InFlight
      <3>5. docs' = Put(docs, key, [buckets |-> kept, expireAt |-> Expiry(c, key)])
        BY <2>1, <2>6
      <3> QED BY <2>1, <2>2, <2>4, <3>1, <3>3, <3>4, <3>5 DEF Prunes, key
    <2> QED BY <2>5, <2>6
  <1>3. ASSUME NEW c \in Call, CachedTotal(c)
        PROVE  Quiet
    <2>1. Decide(c, cache[call[c].home][Base(c)].total, clock) /\ UNCHANGED <<kind, docs>>
          /\ c \in Call \ Counted /\ clock \in Nat
      BY <1>3 DEF CachedTotal, Counted, TypeOK
    <2> QED BY <2>1, EndsQuietly
  <1>4. ASSUME NEW c \in Call, AskForTotal(c)
        PROVE  Quiet
    <2> DEFINE new == [[call[c] EXCEPT !.pc = "summing"] EXCEPT !.asked = clock]
    <2>0. call[c] \in CallState /\ clock \in Nat
      BY CallTypes DEF TypeOK
    <2>1. new \in CallState /\ new.pc = "summing"
      BY <2>0 DEF CallState
    <2>2. call' = [call EXCEPT ![c] = new] /\ UNCHANGED <<kind, docs>> /\ c \notin Counted
      BY <1>4 DEF AskForTotal, Counted
    <2> HIDE DEF new
    <2> QED BY <2>1, <2>2, MovesOn
  <1>5. ASSUME NEW c \in Call, SumShards(c)
        PROVE  Quiet
    <2>1. Decide(c, TotalOf(ReadKeys(c), Oldest(c)), call[c].asked) /\ UNCHANGED <<kind, docs>>
          /\ c \in Call \ Counted /\ call[c].asked \in Nat
      BY <1>5, CallTypes DEF SumShards, Counted
    <2> QED BY <2>1, EndsQuietly
  <1>6. ASSUME NEW c \in Call, IncrementShard(c)
        PROVE  \E i \in Nat : Writes(c, i)
    <2>1. PICK i \in 0..(WriteFactor(Window(c).history, Now(c)) - 1) :
            LET key == <<Base(c), i>>
                kept == IF kind = "tier2" THEN Buckets(key) ELSE Prune(Buckets(key), Oldest(c))
            IN /\ docs' = Put(docs, key, [buckets |-> AddTo(kept, Label(c), c),
                                          expireAt |-> Expiry(c, key)])
               /\ Record(c, "applied", key)
      BY <1>6 DEF IncrementShard
    <2> DEFINE key == <<Base(c), i>>
    <2>2. /\ docs' = Put(docs, key, [buckets |-> AddTo(Kept(c, key), Label(c), c),
                                     expireAt |-> Expiry(c, key)])
          /\ call' = [call EXCEPT ![c] = [Nothing EXCEPT !.pc = "applied", !.now = Now(c),
                        !.key = key, !.label = Label(c), !.at = clock]]
      BY <2>1 DEF Kept, Record
    <2>3. /\ call[c].pc = "passed" /\ Standing /\ kind # "rolling" /\ i \in Nat
          /\ call \in [Call -> CallState] /\ Call' = Call
      BY <1>6 DEF IncrementShard, Standing, TypeOK, Call, KindSteps
    <2> HIDE DEF key
    <2>4. c \notin Counted /\ InFlight(c)
      BY <2>3 DEF Counted, InFlight
    <2>5. \A d \in Call : d # c => call'[d] = call[d]
      BY <2>2, <2>3
    <2>6. call'[c].pc = "applied"
      BY <2>2, <2>3 DEF Nothing
    <2>7. Counted' = Counted \cup {c} /\ \A d \in Counted : Stands(d)
      BY <2>3, <2>4, <2>5, <2>6 DEF Counted, Stands
    <2>8. ~InFlight(c)'
      BY <2>6 DEF InFlight
    <2> QED BY <2>2, <2>3, <2>4, <2>7, <2>8 DEF Writes, key
  <1>7. ASSUME NEW c \in Call, GiveBack(c)
        PROVE  Quiet \/ GivesBack(c)
    <2> DEFINE k == call[c].key  l == Recorded(c)
               there == l \in DOMAIN Buckets(k) /\ Buckets(k)[l].amount >= Amount[c]
                        /\ Buckets(k)[l].count >= 1
    <2>1. call[c].pc = "applied" /\ Standing /\ c \in Counted /\ Call' = Call
          /\ call \in [Call -> CallState]
      BY <1>7 DEF GiveBack, Standing, Counted, Call, TypeOK
    <2>2. CASE there
      <3>1. k \in DOMAIN docs /\ Buckets(k) = docs[k].buckets
        BY <2>2 DEF Buckets, NoBuckets
      <3>2. l = call[c].label
        <4>1. DOMAIN docs[k].buckets \subseteq Nat
          BY <3>1 DEF TypeOK
        <4>2. l # -1
          BY <2>2, <3>1, <4>1
        <4> QED BY <4>2 DEF Recorded, NoLabel
      <3>3. /\ docs' = [docs EXCEPT ![k].buckets[l] =
                            [amount |-> @.amount - Amount[c], count |-> @.count - 1]]
            /\ call' = [call EXCEPT ![c] = [Nothing EXCEPT !.pc = "undone"]]
        BY <1>7, <2>2 DEF GiveBack, End
      <3>4. call'[c].pc = "undone" /\ \A d \in Call : d # c => call'[d] = call[d]
        BY <2>1, <3>3 DEF Nothing
      <3>5. Counted' = Counted \ {c} /\ \A d \in Counted \ {c} : Stands(d)
        BY <2>1, <3>4 DEF Counted, Stands
      <3>6. ~InFlight(c) /\ ~InFlight(c)'
        BY <2>1, <3>4 DEF InFlight
      <3> QED BY <2>1, <2>2, <3>1, <3>2, <3>3, <3>4, <3>5, <3>6 DEF GivesBack
    <2>3. CASE ~there
      <3> DEFINE new == [call[c] EXCEPT !.pc = "signalled"]
      <3>1. call' = [call EXCEPT ![c] = new] /\ UNCHANGED <<kind, docs>>
        BY <1>7, <2>1, <2>3 DEF GiveBack, Goto, Standing
      <3>2. new \in CallState /\ new.pc = "signalled" /\ new.now = call[c].now
            /\ new.key = call[c].key /\ new.label = call[c].label /\ new.at = call[c].at
        BY CallTypes DEF CallState
      <3> HIDE DEF new
      <3> QED BY <2>1, <3>1, <3>2, MovesOn
    <2> QED BY <2>2, <2>3
  <1>8. ASSUME NEW k \in DOMAIN docs, Expire(k)
        PROVE  Expires(k)
    BY <1>8 DEF Expire, Expires, Standing, Counted, Call, Stands
  <1>9. ASSUME UNCHANGED <<kind, docs, call>>
        PROVE  Quiet
    BY <1>9 DEF Quiet, Counted, Call, Stands
  <1>10. kind' = kind /\ boundary' = boundary
    BY DEF Next, vars, CallStep, Enter, RollingUpdate, CachedTotal, AskForTotal, SumShards,
           IncrementShard, GiveBack, ChangeWindow, Install, Expire, Tick
  <1>11. CASE \E c \in Call : CallStep(c)
    BY <1>1, <1>2, <1>3, <1>4, <1>5, <1>6, <1>7, <1>10, <1>11 DEF CallStep
  <1>12. CASE \/ ChangeWindow \/ Tick \/ UNCHANGED vars
              \/ \E p \in Process : Install(p)
    BY <1>9, <1>10, <1>12 DEF ChangeWindow, Tick, Install, vars
  <1> QED BY <1>8, <1>10, <1>11, <1>12 DEF Next

\* What is kept of a document is in it; of a rolling one only what is old goes.
LEMMA KeptOfBuckets ==
    ASSUME NEW c, NEW key
    PROVE  /\ DOMAIN Kept(c, key) \subseteq DOMAIN Buckets(key)
           /\ \A l \in DOMAIN Kept(c, key) : Kept(c, key)[l] = Buckets(key)[l]
           /\ \A l \in DOMAIN Buckets(key) \ DOMAIN Kept(c, key) :
                kind # "tier2" /\ ~(l >= Oldest(c))
           /\ kind # "tier2" => \A l \in DOMAIN Kept(c, key) : l >= Oldest(c)
PROOF
  <1>1. CASE kind = "tier2"
    BY <1>1 DEF Kept
  <1>2. CASE kind # "tier2"
    BY <1>2 DEF Kept, Prune, Restrict
  <1> QED BY <1>1, <1>2

\* The documents after a write: one bucket more, or one that has grown.
Grows(c, key, label, kept) ==
    /\ DOMAIN docs' = DOMAIN docs \cup {key}
    /\ \A k \in DOMAIN docs \ {key} : docs'[k] = docs[k]
    /\ DOMAIN docs'[key] = {"buckets", "expireAt"} /\ docs'[key].expireAt = Expiry(c, key)
    /\ DOMAIN docs'[key].buckets = DOMAIN kept \cup {label}
    /\ \A l \in DOMAIN kept \ {label} : docs'[key].buckets[l] = kept[l]
    /\ label \in DOMAIN kept =>
         docs'[key].buckets[label] = [amount |-> kept[label].amount + Amount[c],
                                      count |-> kept[label].count + 1]
    /\ label \notin DOMAIN kept =>
         docs'[key].buckets[label] = [amount |-> 0 + Amount[c], count |-> 0 + 1]

\* A write grows the document of its key by its call.
LEMMA WriteBuckets ==
    ASSUME NEW c, NEW i, Writes(c, i),
           NEW key, key = <<Base(c), i>>, NEW label, label = Label(c)
    PROVE  Grows(c, key, label, Kept(c, key))
PROOF
  <1> DEFINE kept == Kept(c, key)
  <1>1. docs' = Put(docs, key, [buckets |-> AddTo(kept, label, c), expireAt |-> Expiry(c, key)])
    BY DEF Writes
  <1> HIDE DEF kept
  <1>2. /\ DOMAIN AddTo(kept, label, c) = DOMAIN kept \cup {label}
        /\ \A l \in DOMAIN kept \ {label} : AddTo(kept, label, c)[l] = kept[l]
        /\ label \in DOMAIN kept =>
             AddTo(kept, label, c)[label] = [amount |-> kept[label].amount + Amount[c],
                                             count |-> kept[label].count + 1]
        /\ label \notin DOMAIN kept =>
             AddTo(kept, label, c)[label] = [amount |-> 0 + Amount[c], count |-> 0 + 1]
    BY DEF AddTo, Put, Zero
  <1>3. /\ DOMAIN docs' = DOMAIN docs \cup {key}
        /\ \A k \in DOMAIN docs \ {key} : docs'[k] = docs[k]
        /\ docs'[key] = [buckets |-> AddTo(kept, label, c), expireAt |-> Expiry(c, key)]
    BY <1>1 DEF Put
  <1> QED BY <1>2, <1>3 DEF Grows, kept

\* The documents after a prune.
LEMMA PruneBuckets ==
    ASSUME NEW c, Prunes(c), NEW key, key = <<Base(c), 0>>
    PROVE  /\ DOMAIN docs' = DOMAIN docs \cup {key}
           /\ \A k \in DOMAIN docs \ {key} : docs'[k] = docs[k]
           /\ docs'[key] = [buckets |-> Kept(c, key), expireAt |-> Expiry(c, key)]
PROOF BY DEF Prunes, Put

\* The documents after a call is given back: one bucket has shrunk.
LEMMA GiveBackBuckets ==
    ASSUME TypeOK, NEW c, GivesBack(c),
           NEW key, key = call[c].key, NEW label, label = call[c].label
    PROVE  /\ key \in DOMAIN docs /\ label \in DOMAIN docs[key].buckets
           /\ DOMAIN docs' = DOMAIN docs
           /\ \A k \in DOMAIN docs \ {key} : docs'[k] = docs[k]
           /\ docs'[key].expireAt = docs[key].expireAt
           /\ DOMAIN docs'[key] = {"buckets", "expireAt"}
           /\ DOMAIN docs'[key].buckets = DOMAIN docs[key].buckets
           /\ \A l \in DOMAIN docs[key].buckets \ {label} :
                docs'[key].buckets[l] = docs[key].buckets[l]
           /\ docs'[key].buckets[label] =
                [amount |-> docs[key].buckets[label].amount - Amount[c],
                 count |-> docs[key].buckets[label].count - 1]
PROOF
  <1>1. key \in DOMAIN docs /\ label \in DOMAIN docs[key].buckets
    BY DEF GivesBack
  <1>2. DOMAIN docs[key] = {"buckets", "expireAt"}
    BY <1>1 DEF TypeOK
  <1>3. docs' = [docs EXCEPT ![key].buckets[label] =
                    [amount |-> @.amount - Amount[c], count |-> @.count - 1]]
    BY DEF GivesBack
  <1> QED BY <1>1, <1>2, <1>3

\* A bucket that is gone was gone before, or was pruned, or has expired.
LEMMA GoneMoves ==
    ASSUME TypeOK, KindSteps, [Next]_vars, NEW d, d \in Counted', Gone(d)'
    PROVE  /\ d \in Counted /\ Stands(d)
           /\ \/ Gone(d)
              \/ kind # "tier2" /\ \E c \in Call : InFlight(c) /\ ~(call[d].label >= Oldest(c))
              \/ /\ call[d].key \in DOMAIN docs /\ docs[call[d].key].expireAt < clock
PROOF
  <1>1. CASE Quiet
    BY <1>1 DEF Quiet, Stands, Gone, Buckets
  <1>2. ASSUME NEW c \in Call, NEW i \in Nat, Writes(c, i)
        PROVE  /\ d \in Counted /\ Stands(d)
               /\ Gone(d) \/ (kind # "tier2" /\ ~(call[d].label >= Oldest(c)))
    <2> SUFFICES ASSUME NEW key, key = <<Base(c), i>>, NEW label, label = Label(c)
                 PROVE  /\ d \in Counted /\ Stands(d)
                        /\ Gone(d) \/ (kind # "tier2" /\ ~(call[d].label >= Oldest(c)))
      OBVIOUS
    <2> DEFINE kept == Kept(c, key)
    <2>1. call'[d].label \notin DOMAIN Buckets(call[d].key)'
      BY DEF Gone
    <2>2. Grows(c, key, label, kept)
      BY <1>2, WriteBuckets
    <2> USE DEF Grows
    <2> HIDE DEF kept
    <2>3. call'[c].key = key /\ call'[c].label = label
      BY <1>2 DEF Writes, TypeOK, Nothing
    <2>4. d # c
      BY <2>1, <2>2, <2>3 DEF Buckets
    <2>5. d \in Counted /\ Stands(d)
      BY <1>2, <2>4 DEF Writes
    <2>6. CASE call[d].key # key
      BY <2>1, <2>2, <2>5, <2>6 DEF Stands, Gone, Buckets
    <2>7. CASE call[d].key = key
      <3>1. call[d].label \notin DOMAIN kept
        BY <2>1, <2>2, <2>5, <2>7 DEF Stands, Buckets
      <3> QED BY <2>5, <2>7, <3>1, KeptOfBuckets DEF Gone, kept
    <2> QED BY <2>5, <2>6, <2>7
  <1>3. ASSUME NEW c \in Call, Prunes(c)
        PROVE  /\ d \in Counted /\ Stands(d)
               /\ Gone(d) \/ (kind # "tier2" /\ ~(call[d].label >= Oldest(c)))
    <2> SUFFICES ASSUME NEW key, key = <<Base(c), 0>>
                 PROVE  /\ d \in Counted /\ Stands(d)
                        /\ Gone(d) \/ (kind # "tier2" /\ ~(call[d].label >= Oldest(c)))
      OBVIOUS
    <2>1. /\ DOMAIN docs' = DOMAIN docs \cup {key}
          /\ \A k \in DOMAIN docs \ {key} : docs'[k] = docs[k]
          /\ docs'[key].buckets = Kept(c, key)
      <3>1. docs'[key] = [buckets |-> Kept(c, key), expireAt |-> Expiry(c, key)]
            /\ DOMAIN docs' = DOMAIN docs \cup {key}
            /\ \A k \in DOMAIN docs \ {key} : docs'[k] = docs[k]
        BY <1>3, PruneBuckets, Zenon
      <3> QED BY <3>1
    <2>2. d \in Counted /\ Stands(d)
      BY <1>3 DEF Prunes
    <2>3. call[d].label \notin DOMAIN Buckets(call[d].key)'
      BY <2>2 DEF Gone, Stands
    <2>4. CASE call[d].key # key
      BY <2>1, <2>2, <2>3, <2>4 DEF Stands, Gone, Buckets
    <2>5. CASE call[d].key = key
      <3>1. call[d].label \notin DOMAIN Kept(c, key)
        BY <2>1, <2>2, <2>3, <2>5 DEF Stands, Buckets
      <3> QED BY <2>2, <2>5, <3>1, KeptOfBuckets DEF Gone
    <2> QED BY <2>2, <2>4, <2>5
  <1>4. ASSUME NEW c \in Call, GivesBack(c)
        PROVE  d \in Counted /\ Stands(d) /\ Gone(d)
    <2>1. d \in Counted /\ Stands(d)
      BY <1>4 DEF GivesBack
    <2>2. DOMAIN docs' = DOMAIN docs
          /\ \A k \in DOMAIN docs : DOMAIN docs'[k].buckets = DOMAIN docs[k].buckets
      <3> SUFFICES ASSUME NEW key, key = call[c].key, NEW label, label = call[c].label
                   PROVE  DOMAIN docs' = DOMAIN docs
                          /\ \A k \in DOMAIN docs : DOMAIN docs'[k].buckets = DOMAIN docs[k].buckets
        OBVIOUS
      <3>1. /\ DOMAIN docs' = DOMAIN docs
            /\ \A k \in DOMAIN docs \ {key} : docs'[k] = docs[k]
            /\ DOMAIN docs'[key].buckets = DOMAIN docs[key].buckets
        BY <1>4, GiveBackBuckets
      <3> QED BY <3>1
    <2>3. DOMAIN Buckets(call[d].key)' = DOMAIN Buckets(call[d].key)
      BY <2>1, <2>2 DEF Buckets, Stands
    <2> QED BY <2>1, <2>3 DEF Gone, Stands
  <1>5. ASSUME NEW k \in DOMAIN docs, Expires(k)
        PROVE  /\ d \in Counted /\ Stands(d)
               /\ \/ Gone(d)
                  \/ call[d].key \in DOMAIN docs /\ docs[call[d].key].expireAt < clock
    <2>1. d \in Counted /\ Stands(d)
      BY <1>5 DEF Expires
    <2> QED BY <1>5, <2>1 DEF Expires, Restrict, Gone, Stands, Buckets
  <1>6. \A c \in Call : Writes(c, 0) \/ Prunes(c) => InFlight(c)
    BY DEF Writes, Prunes
  <1>7. \A c \in Call, i \in Nat : Writes(c, i) => InFlight(c)
    BY DEF Writes
  <1> QED BY <1>1, <1>2, <1>3, <1>4, <1>5, <1>6, <1>7, Effects

\* Time passes in ticks, for which no call and no process is too slow.
LEMMA TimeMoves ==
    ASSUME TypeOK, [Next]_vars
    PROVE  \/ clock' = clock
           \/ /\ clock' = clock + 1
              /\ UNCHANGED <<kind, boundary, entry, edits, refined, snapshot, docs, call>>
              /\ \A c \in Call : InFlight(c) => clock < Now(c) + Slow
              /\ behind' = [p \in Process |-> IF snapshot[p] # entry THEN behind[p] + 1 ELSE 0]
PROOF
  <1>1. CASE Tick
    BY <1>1 DEF Tick
  <1>2. CASE ~Tick
    BY <1>2 DEF Next, vars, CallStep, Enter, RollingUpdate, CachedTotal, AskForTotal, SumShards,
           IncrementShard, GiveBack, ChangeWindow, Install, Expire
  <1> QED BY <1>1, <1>2

\* A call that is given back is in flight neither before nor after.
LEMMA GiveBackEnds ==
    ASSUME TypeOK, NEW c \in Call, GiveBack(c)
    PROVE  call'[c].pc \in {"undone", "signalled"}
PROOF
  <1>1. call \in [Call -> CallState]
    BY DEF TypeOK
  <1>2. CASE End(c, "undone")
    BY <1>1, <1>2 DEF End, Nothing
  <1>3. CASE Goto(c, "signalled")
    BY <1>1, <1>3 DEF Goto, CallState
  <1> QED BY <1>2, <1>3 DEF GiveBack

\* A call in flight was so before, with its time, window and process, or enters.
Enters(c, p) ==
    /\ call[c].pc = "new" /\ Quiet /\ Standing
    /\ call'[c].now \in Nat /\ clock - Slow <= call'[c].now /\ call'[c].now <= clock
    /\ call'[c].window = snapshot[p] /\ call'[c].asked = call[c].asked /\ call'[c].home = p

\* How a call comes to be in flight.
LEMMA Flights ==
    ASSUME TypeOK, KindSteps, [Next]_vars, NEW c \in Call, InFlight(c)'
    PROVE  \/ /\ InFlight(c) /\ call'[c].home = call[c].home
              /\ call'[c].now = call[c].now /\ call'[c].window = call[c].window
           \/ \E p \in Process : Enters(c, p)
PROOF
  <1>1. call \in [Call -> CallState] /\ Call' = Call
    <2>1. kind' = kind
      BY Effects
    <2> QED BY <2>1 DEF TypeOK, Call
  <1>2. CASE call'[c] = call[c]
    BY <1>2 DEF InFlight
  <1>3. ASSUME NEW d \in Call, CallStep(d), d # c
        PROVE  call'[c] = call[c]
    BY <1>1, <1>3 DEF CallStep, Enter, RollingUpdate, CachedTotal, AskForTotal, SumShards,
           IncrementShard, GiveBack, Decide, End, Record, Goto
  <1>4. ASSUME Enter(c)
        PROVE  \E p \in Process : Enters(c, p)
    <2>1. PICK p \in Process, t \in (clock - Slow)..clock :
            /\ t >= 0
            /\ call' = [call EXCEPT ![c].pc = "entered", ![c].home = p, ![c].now = t,
                                    ![c].window = snapshot[p]]
      BY <1>4 DEF Enter
    <2>2. /\ call'[c].now = t /\ call'[c].window = snapshot[p] /\ call'[c].asked = call[c].asked
          /\ call'[c].home = p
      BY <1>1, <2>1 DEF CallState
    <2>3. t \in Nat /\ clock - Slow <= t /\ t <= clock
      BY <2>1, Lengths DEF TypeOK
    <2>4. call[c].pc = "new" /\ Standing
      BY <1>4 DEF Enter, Standing
    <2>5. Quiet
      <3>1. call'[c].pc = "entered" /\ \A d \in Call : d # c => call'[d] = call[d]
        BY <1>1, <2>1 DEF CallState
      <3>2. docs' = docs
        BY <1>4 DEF Enter
      <3>3. Counted' = Counted
        BY <1>1, <2>4, <3>1 DEF Counted
      <3> QED BY <2>4, <3>1, <3>2, <3>3 DEF Quiet, Counted, Stands
    <2> QED BY <2>2, <2>3, <2>4, <2>5 DEF Enters
  <1>5. ASSUME CallStep(c), ~Enter(c)
        PROVE  /\ InFlight(c) /\ call'[c].home = call[c].home
               /\ call'[c].now = call[c].now /\ call'[c].window = call[c].window
    <2>1. CASE RollingUpdate(c) \/ IncrementShard(c) \/ GiveBack(c)
      <3>1. call'[c].pc \notin {"entered", "summing", "passed"}
        <4>1. CASE RollingUpdate(c)
          BY <1>1, <4>1 DEF RollingUpdate, Record, Nothing
        <4>2. CASE IncrementShard(c)
          BY <1>1, <4>2 DEF IncrementShard, Record, Nothing
        <4>3. CASE GiveBack(c)
          BY <4>3, GiveBackEnds
        <4> QED BY <2>1, <4>1, <4>2, <4>3
      <3> QED BY <3>1 DEF InFlight
    <2>2. CASE AskForTotal(c)
      BY <1>1, <2>2 DEF AskForTotal, InFlight, CallState
    <2>3. ASSUME NEW total, NEW t, Decide(c, total, t), InFlight(c)
          PROVE  /\ call'[c].now = call[c].now /\ call'[c].window = call[c].window
                 /\ call'[c].home = call[c].home
      <3>1. CASE Fits(total, c)
        BY <1>1, <2>3, <3>1 DEF Decide, CallState
      <3>2. CASE ~Fits(total, c)
        BY <1>1, <2>3, <3>2 DEF Decide, End, InFlight, Nothing
      <3> QED BY <3>1, <3>2
    <2>4. CASE CachedTotal(c)
      BY <2>3, <2>4 DEF CachedTotal, InFlight
    <2>5. CASE SumShards(c)
      BY <2>3, <2>5 DEF SumShards, InFlight
    <2> QED BY <1>5, <2>1, <2>2, <2>4, <2>5 DEF CallStep
  <1>6. CASE \E d \in Call : CallStep(d)
    <2>1. PICK d \in Call : CallStep(d)
      BY <1>6
    <2>2. CASE d # c
      BY <1>2, <1>3, <2>1, <2>2
    <2>3. CASE d = c
      BY <1>4, <1>5, <2>1, <2>3
    <2> QED BY <2>2, <2>3
  <1>7. CASE ~(\E d \in Call : CallStep(d))
    <2>1. UNCHANGED vars => call' = call
      BY DEF vars
    <2>2. ChangeWindow \/ Tick => call' = call
      BY DEF ChangeWindow, Tick
    <2>3. (\E p \in Process : Install(p)) \/ (\E k \in DOMAIN docs : Expire(k)) => call' = call
      BY DEF Install, Expire
    <2> QED BY <1>2, <1>7, <2>1, <2>2, <2>3 DEF Next
  <1> QED BY <1>6, <1>7

\* A call that is due to count was so before, or is written by this step.
LEMMA CountedMoves ==
    ASSUME TypeOK, KindSteps, [Next]_vars, NEW c, c \in Counted'
    PROVE  \/ c \in Counted /\ Stands(c)
           \/ /\ c \in Call /\ InFlight(c) /\ c \notin Counted /\ Standing
              /\ \E i \in Nat : Writes(c, i) /\ call'[c].key = <<Base(c), i>>
              /\ call'[c].now = Now(c) /\ call'[c].label = Label(c) /\ call'[c].at = clock
PROOF
  <1>1. ASSUME NEW d \in Call, NEW i \in Nat, Writes(d, i), d = c
        PROVE  /\ c \in Call /\ InFlight(c) /\ c \notin Counted /\ Standing
               /\ call'[c].key = <<Base(c), i>>
               /\ call'[c].now = Now(c) /\ call'[c].label = Label(c) /\ call'[c].at = clock
    BY <1>1 DEF Writes, Nothing, TypeOK
  <1>2. ASSUME NEW d \in Call, NEW i \in Nat, Writes(d, i), d # c
        PROVE  c \in Counted /\ Stands(c)
    BY <1>2 DEF Writes
  <1>3. CASE Quiet \/ (\E d \in Call : Prunes(d) \/ GivesBack(d))
             \/ (\E k \in DOMAIN docs : Expires(k))
    BY <1>3 DEF Quiet, Prunes, GivesBack, Expires
  <1> QED BY <1>1, <1>2, <1>3, Effects

\* The time of a question is that of some step of the call.
LEMMA AskedMoves ==
    ASSUME TypeOK, [Next]_vars, NEW c \in Call
    PROVE  call'[c].asked \in {call[c].asked, clock, 0}
PROOF
  <1>1. call \in [Call -> CallState]
    BY DEF TypeOK
  <1>2. ASSUME NEW d \in Call, Enter(d) \/ AskForTotal(d) \/ GiveBack(d)
        PROVE  call'[c].asked \in {call[c].asked, clock, 0}
    <2>1. CASE Enter(d)
      BY <1>1, <2>1 DEF Enter, CallState
    <2>2. CASE AskForTotal(d)
      BY <1>1, <2>2 DEF AskForTotal, CallState
    <2>3. CASE GiveBack(d)
      <3>1. CASE End(d, "undone")
        BY <1>1, <3>1 DEF End, Nothing
      <3>2. CASE Goto(d, "signalled")
        BY <1>1, <3>2 DEF Goto, CallState
      <3> QED BY <2>3, <3>1, <3>2 DEF GiveBack
    <2> QED BY <1>2, <2>1, <2>2, <2>3
  <1>3. ASSUME NEW d \in Call, RollingUpdate(d) \/ IncrementShard(d)
        PROVE  call'[c].asked \in {call[c].asked, clock, 0}
    <2>1. CASE RollingUpdate(d)
      BY <1>1, <2>1 DEF RollingUpdate, Record, Nothing
    <2>2. CASE IncrementShard(d)
      BY <1>1, <2>2 DEF IncrementShard, Record, Nothing
    <2> QED BY <1>3, <2>1, <2>2
  <1>4. ASSUME NEW d \in Call, NEW total, NEW t \in {call[d].asked, clock}, Decide(d, total, t)
        PROVE  call'[c].asked \in {call[c].asked, clock, 0}
    <2>1. CASE Fits(total, d)
      <3>1. call' = [call EXCEPT ![d].pc = "passed", ![d].asked = t]
        BY <1>4, <2>1 DEF Decide
      <3>2. CASE c = d
        BY <1>1, <1>4, <3>1, <3>2 DEF CallState
      <3>3. CASE c # d
        BY <1>1, <3>1, <3>3
      <3> QED BY <3>2, <3>3
    <2>2. CASE ~Fits(total, d)
      BY <1>1, <1>4, <2>2 DEF Decide, End, Nothing
    <2> QED BY <2>1, <2>2
  <1>5. ASSUME NEW d \in Call, CachedTotal(d) \/ SumShards(d)
        PROVE  call'[c].asked \in {call[c].asked, clock, 0}
    BY <1>4, <1>5 DEF CachedTotal, SumShards
  <1>6. CASE UNCHANGED call
    BY <1>6
  <1>7. (\E d \in Call : CallStep(d)) \/ UNCHANGED call
    BY DEF Next, vars, ChangeWindow, Install, Expire, Tick
  <1> QED BY <1>2, <1>3, <1>5, <1>6, <1>7 DEF CallStep

-----------------------------------------------------------------------------
(* Time, labels and expiry.                                                *)

\* No call outlives Slow: a tick waits for the calls in flight.
LEMMA InTimeStep ==
    ASSUME TypeOK, KindSteps, InTime, [Next]_vars
    PROVE  InTime'
PROOF
  <1>1. Call' = Call /\ clock \in Nat /\ Slow \in Nat
    BY Effects, Lengths DEF Call, TypeOK
  <1>2. ASSUME NEW c \in Call
        PROVE  call'[c].asked <= clock'
    <2>1. call[c].asked \in Nat /\ call[c].asked <= clock
      BY CallTypes DEF InTime
    <2> QED BY <1>1, <2>1, AskedMoves, TimeMoves
  <1>3. ASSUME NEW c \in Call, InFlight(c)'
        PROVE  call'[c].now <= clock' /\ clock' <= call'[c].now + Slow
    <2>1. CASE InFlight(c) /\ call'[c].now = call[c].now
      <3>1. Now(c) \in Nat /\ Now(c) <= clock /\ clock <= Now(c) + Slow /\ Now(c) = call[c].now
        BY <2>1, CallTypes DEF InTime, Now
      <3> QED BY <1>1, <2>1, <3>1, TimeMoves
    <2>2. CASE \E p \in Process : Enters(c, p)
      BY <1>1, <2>2 DEF Enters, Standing
    <2> QED BY <1>3, <2>1, <2>2, Flights
  <1>4. ASSUME NEW c \in Counted'
        PROVE  call'[c].now <= call'[c].at /\ call'[c].at <= clock'
    <2>1. CASE c \in Counted /\ Stands(c)
      <3>1. call[c].now \in Nat /\ call[c].at \in Nat /\ call[c].now <= call[c].at /\ call[c].at <= clock
        BY <2>1, CallTypes DEF InTime, Counted, Now
      <3> QED BY <1>1, <2>1, <3>1, TimeMoves DEF Stands
    <2>2. CASE /\ c \in Call /\ InFlight(c) /\ Standing
               /\ call'[c].now = Now(c) /\ call'[c].at = clock
      BY <1>1, <2>2, CallTypes DEF InTime, Standing
    <2> QED BY <2>1, <2>2, CountedMoves
  <1> QED BY <1>1, <1>2, <1>3, <1>4 DEF InTime, Now

\* A record is written once, with the key and the label of its time.
LEMMA LabelledStep ==
    ASSUME TypeOK, KindSteps, Labelled, [Next]_vars
    PROVE  Labelled'
PROOF
  <1>1. kind' = kind
    BY Effects
  <1> SUFFICES ASSUME NEW c \in Counted'
               PROVE  IF kind = "tier2" THEN /\ call'[c].key[1] = DayStart(call'[c].now)
                                             /\ call'[c].label = DayStart(call'[c].now)
                      ELSE /\ call'[c].key[1] = 0 /\ (kind = "rolling" => call'[c].key[2] = 0)
                           /\ \E g \in {"HOUR", "MINUTE"} : call'[c].label = BucketLabel(call'[c].now, g)
    BY <1>1 DEF Labelled, Now
  <1>2. CASE c \in Counted /\ Stands(c)
    BY <1>2 DEF Labelled, Now, Stands
  <1>3. CASE /\ c \in Call /\ \E i \in Nat : Writes(c, i) /\ call'[c].key = <<Base(c), i>>
             /\ call'[c].now = Now(c) /\ call'[c].label = Label(c)
    <2>1. PICK i \in Nat : Writes(c, i) /\ call'[c].key = <<Base(c), i>>
      BY <1>3
    <2>2. Window(c).granularity \in {"HOUR", "MINUTE"}
      BY <1>3, CallTypes
    <2>3. kind = "rolling" => i = 0
      BY <2>1 DEF Writes
    <2> QED BY <1>3, <2>1, <2>2, <2>3 DEF Base, Label
  <1> QED BY <1>2, <1>3, CountedMoves

\* What is recorded in a rolling document was not much later than a call in flight.
LEMMA NotMuchLater ==
    ASSUME TypeOK, InTime, NEW c \in Call, InFlight(c), NEW d \in Counted
    PROVE  /\ Now(c) \in Nat /\ Now(d) \in Nat /\ clock \in Nat
           /\ Now(d) <= clock /\ Now(c) <= clock /\ clock <= Now(c) + Slow
PROOF
  <1>1. d \in Call
    BY DEF Counted
  <1>2. Now(d) <= call[d].at /\ call[d].at <= clock /\ call[d].at \in Nat /\ clock \in Nat
    BY <1>1, CallTypes DEF InTime, TypeOK
  <1> QED BY <1>1, <1>2, CallTypes DEF InTime

\* A write sets the expiry past all that is recorded in its document, as no
\* call in flight is behind another by more than Slow.
LEMMA ExpirySetStep ==
    ASSUME TypeOK, KindSteps, InTime, ExpirySet, [Next]_vars
    PROVE  ExpirySet'
PROOF
  <1>1. kind' = kind
    BY Effects
  <1> DEFINE Set(k) == IF kind = "tier2" THEN docs'[k].expireAt = k[1] + Day + Grace
                       ELSE \A d \in Counted' : call'[d].key = k =>
                                call'[d].now + Horizon + Grace <= docs'[k].expireAt + Slow
  <1>2. ASSUME \A k \in DOMAIN docs' : Set(k)
        PROVE  ExpirySet'
    BY <1>1, <1>2 DEF ExpirySet, Now
  <1>3. ASSUME NEW k \in DOMAIN docs, docs'[k].expireAt = docs[k].expireAt,
               \A d \in Counted' : call'[d].key = k => d \in Counted /\ Stands(d)
        PROVE  Set(k)
    BY <1>3 DEF ExpirySet, Stands, Now
  <1>4. CASE Quiet
    BY <1>2, <1>3, <1>4 DEF Quiet
  <1>5. ASSUME NEW c \in Call, InFlight(c), NEW key, key[1] = Base(c),
               docs'[key].expireAt = Expiry(c, key),
               \A d \in Counted' : call'[d].key = key =>
                    (d \in Counted /\ Stands(d)) \/ call'[d].now = Now(c)
        PROVE  Set(key)
    <2>1. CASE kind = "tier2"
      BY <1>5, <2>1 DEF Expiry, ExpirySet, Base
    <2>2. ASSUME kind # "tier2", NEW d \in Counted', call'[d].key = key
          PROVE  call'[d].now + Horizon + Grace <= docs'[key].expireAt + Slow
      <3>1. docs'[key].expireAt = Now(c) + Horizon + Grace
        BY <1>5, <2>2 DEF Expiry
      <3>2. Now(c) \in Nat
        BY CallTypes
      <3>3. CASE call'[d].now = Now(c)
        BY <3>1, <3>2, <3>3, Lengths
      <3>4. CASE d \in Counted /\ Stands(d)
        <4>1. Now(d) \in Nat /\ Now(d) <= Now(c) + Slow
          BY <1>5, <3>4, Lengths, NotMuchLater
        <4>2. call'[d].now = Now(d)
          BY <3>4 DEF Stands, Now
        <4> QED BY <3>1, <3>2, <4>1, <4>2, Lengths
      <3> QED BY <1>5, <2>2, <3>3, <3>4
    <2> QED BY <2>1, <2>2
  <1>6. ASSUME NEW c \in Call, NEW i \in Nat, Writes(c, i)
        PROVE  ExpirySet'
    <2> SUFFICES ASSUME NEW key, key = <<Base(c), i>>, NEW label, label = Label(c)
                 PROVE  ExpirySet'
      OBVIOUS
    <2>1. Grows(c, key, label, Kept(c, key))
      BY <1>6, WriteBuckets
    <2>2. /\ InFlight(c) /\ Counted' = Counted \cup {c} /\ \A d \in Counted : Stands(d)
          /\ call'[c].key = key /\ call'[c].now = Now(c)
      BY <1>6 DEF Writes, TypeOK, Nothing
    <2>3. Set(key)
      BY <1>5, <2>1, <2>2 DEF Grows
    <2>4. ASSUME NEW k \in DOMAIN docs, k # key
          PROVE  Set(k)
      <3>1. docs'[k] = docs[k]
        BY <2>1, <2>4 DEF Grows
      <3> HIDE DEF Set
      <3> QED BY <1>3, <2>2, <2>4, <3>1
    <2> HIDE DEF Set
    <2> QED BY <1>2, <2>1, <2>3, <2>4 DEF Grows
  <1>7. ASSUME NEW c \in Call, Prunes(c)
        PROVE  ExpirySet'
    <2> SUFFICES ASSUME NEW key, key = <<Base(c), 0>>
                 PROVE  ExpirySet'
      OBVIOUS
    <2>1. /\ DOMAIN docs' = DOMAIN docs \cup {key}
          /\ \A k \in DOMAIN docs \ {key} : docs'[k] = docs[k]
          /\ docs'[key] = [buckets |-> Kept(c, key), expireAt |-> Expiry(c, key)]
      BY <1>7, PruneBuckets, Zenon
    <2>2. InFlight(c) /\ Counted' = Counted /\ \A d \in Counted : Stands(d)
      BY <1>7 DEF Prunes
    <2>3. Set(key)
      BY <1>5, <2>1, <2>2
    <2>4. ASSUME NEW k \in DOMAIN docs, k # key
          PROVE  Set(k)
      BY <1>3, <2>1, <2>2, <2>4
    <2> HIDE DEF Set
    <2> QED BY <1>2, <2>1, <2>3, <2>4
  <1>8. ASSUME NEW c \in Call, GivesBack(c)
        PROVE  ExpirySet'
    <2>1. DOMAIN docs' = DOMAIN docs /\ \A k \in DOMAIN docs : docs'[k].expireAt = docs[k].expireAt
      BY <1>8, GiveBackBuckets
    <2>2. Counted' = Counted \ {c} /\ \A d \in Counted \ {c} : Stands(d)
      BY <1>8 DEF GivesBack
    <2> QED BY <1>2, <1>3, <2>1, <2>2
  <1>9. ASSUME NEW k \in DOMAIN docs, Expires(k)
        PROVE  ExpirySet'
    <2>1. DOMAIN docs' \subseteq DOMAIN docs /\ \A j \in DOMAIN docs' : docs'[j] = docs[j]
      BY <1>9 DEF Expires, Restrict
    <2>2. Counted' = Counted /\ \A d \in Counted : Stands(d)
      BY <1>9 DEF Expires
    <2> QED BY <1>2, <1>3, <2>1, <2>2
  <1> QED BY <1>4, <1>6, <1>7, <1>8, <1>9, Effects

\* A rolling label is near the time of its call.
LEMMA LabelNearTime ==
    ASSUME TypeOK, Labelled, kind # "tier2", NEW d \in Counted
    PROVE  /\ Now(d) \in Nat /\ call[d].label \in Nat
           /\ call[d].label <= 2 * Now(d) + 1 /\ 2 * (Now(d) - Hour + 1) <= call[d].label
PROOF
  <1>1. d \in Call /\ Now(d) \in Nat /\ call[d].label \in Nat
    BY CallTypes DEF Counted
  <1>2. PICK g \in {"HOUR", "MINUTE"} : call[d].label = BucketLabel(Now(d), g)
    BY DEF Labelled
  <1>3. Now(d) \in Int
    BY <1>1
  <1>4. /\ BucketLabel(Now(d), g) <= 2 * Now(d) + 1
        /\ 2 * (Now(d) - Hour + 1) <= BucketLabel(Now(d), g)
    BY <1>3, Labels
  <1> QED BY <1>1, <1>2, <1>4

\* A call prunes nothing that is younger than its horizon.
LEMMA OldestIsOld ==
    ASSUME TypeOK, InTime, NEW c \in Call, InFlight(c)
    PROVE  Oldest(c) \in Int /\ Oldest(c) <= 2 * (clock - Horizon) + 1
PROOF
  <1>1. Now(c) \in Nat /\ Now(c) <= clock /\ clock \in Nat
    BY CallTypes DEF InTime, TypeOK
  <1>2. Now(c) - Horizon \in Int /\ Window(c).granularity \in {"HOUR", "MINUTE"}
    BY <1>1, Lengths, CallTypes
  <1>3. /\ BucketLabel(Now(c) - Horizon, Window(c).granularity) \in Int
        /\ BucketLabel(Now(c) - Horizon, Window(c).granularity) <= 2 * (Now(c) - Horizon) + 1
    BY <1>2, Labels
  <1> QED BY <1>1, <1>2, <1>3, Lengths DEF Oldest, HorizonLabel

\* A bucket goes by prune or TTL, long after the time of its calls.
LEMMA GoneAreOldStep ==
    ASSUME TypeOK, KindSteps, InTime, Labelled, ExpirySet, GoneAreOld, [Next]_vars
    PROVE  GoneAreOld'
PROOF
  <1>1. kind' = kind /\ clock \in Nat /\ clock' \in Nat /\ clock <= clock'
    BY Effects, TimeMoves DEF TypeOK
  <1> SUFFICES ASSUME NEW d \in Counted', Gone(d)'
               PROVE  IF kind = "tier2" THEN call'[d].key[1] + Day + Slow < clock'
                      ELSE call'[d].label < 2 * (clock' - Slow - Hour + 1)
    BY <1>1 DEF GoneAreOld
  <1>2. /\ d \in Counted /\ Stands(d) /\ d \in Call
        /\ \/ Gone(d)
           \/ kind # "tier2" /\ \E c \in Call : InFlight(c) /\ ~(call[d].label >= Oldest(c))
           \/ call[d].key \in DOMAIN docs /\ docs[call[d].key].expireAt < clock
    BY GoneMoves DEF Counted
  <1>3. call'[d].key = call[d].key /\ call'[d].label = call[d].label
        /\ call[d].label \in Nat /\ call[d].key[1] \in Nat
    BY <1>2, CallTypes DEF Stands
  <1>4. CASE Gone(d)
    BY <1>1, <1>2, <1>3, <1>4, Lengths DEF GoneAreOld
  <1>5. CASE kind # "tier2" /\ \E c \in Call : InFlight(c) /\ ~(call[d].label >= Oldest(c))
    <2>1. PICK c \in Call : InFlight(c) /\ ~(call[d].label >= Oldest(c))
      BY <1>5
    <2>2. Oldest(c) \in Int /\ Oldest(c) <= 2 * (clock - Horizon) + 1
      BY <2>1, OldestIsOld
    <2> QED BY <1>1, <1>3, <1>5, <2>1, <2>2, Lengths
  <1>6. CASE call[d].key \in DOMAIN docs /\ docs[call[d].key].expireAt < clock
    <2>1. docs[call[d].key].expireAt \in Nat
      BY <1>6 DEF TypeOK
    <2>2. CASE kind = "tier2"
      BY <1>1, <1>3, <1>6, <2>1, <2>2, Lengths DEF ExpirySet
    <2>3. CASE kind # "tier2"
      <3>1. Now(d) + Horizon + Grace <= docs[call[d].key].expireAt + Slow
        BY <1>2, <1>6, <2>3 DEF ExpirySet
      <3>2. Now(d) \in Nat /\ call[d].label <= 2 * Now(d) + 1
        BY <1>2, <2>3, LabelNearTime
      <3> QED BY <1>1, <1>3, <1>6, <2>1, <2>3, <3>1, <3>2, Lengths
    <2> QED BY <2>2, <2>3
  <1> QED BY <1>2, <1>4, <1>5, <1>6

-----------------------------------------------------------------------------
(* Buckets.                                                                *)

\* The calls a bucket is the sum of.
Held(k, l) == {c \in Counted : call[c].key = k /\ call[c].label = l}

\* Where call c writes a bucket anew, nothing is recorded that counts: what is
\* gone from a document, or what the write prunes, is too old.
LEMMA NewBucketIsEmpty ==
    ASSUME TypeOK, InTime, Labelled, GoneAreOld, NEW c \in Call, InFlight(c),
           NEW key, key[1] = Base(c), Label(c) \notin DOMAIN Kept(c, key)
    PROVE  Held(key, Label(c)) = {}
PROOF
  <1> SUFFICES ASSUME NEW d \in Counted, call[d].key = key, call[d].label = Label(c)
               PROVE  FALSE
    BY DEF Held
  <1>1. /\ Now(c) \in Nat /\ clock \in Nat /\ Now(c) <= clock /\ clock <= Now(c) + Slow
        /\ Window(c).granularity \in {"HOUR", "MINUTE"} /\ Base(c) \in Nat
    BY CallTypes, NotMuchLater
  <1>2. Gone(d) \/ (kind # "tier2" /\ ~(call[d].label >= Oldest(c)))
    BY KeptOfBuckets DEF Gone
  <1>3. CASE kind = "tier2"
    <2>1. Now(c) < DayStart(Now(c)) + Day /\ DayStart(Now(c)) \in Int
      BY <1>1, Lengths, PeriodBegins DEF DayStart
    <2>2. Base(c) = DayStart(Now(c))
      BY <1>3 DEF Base
    <2>3. Base(c) + Day + Slow < clock
      BY <1>2, <1>3 DEF GoneAreOld
    <2> QED BY <1>1, <2>1, <2>2, <2>3, Lengths
  <1>4. CASE kind # "tier2"
    <2>1. Label(c) \in Int /\ 2 * (Now(c) - Hour + 1) <= Label(c)
      <3>1. Now(c) \in Int /\ Label(c) = BucketLabel(Now(c), Window(c).granularity)
        BY <1>1, <1>4 DEF Label
      <3> QED BY <1>1, <3>1, Labels
    <2>2. CASE Gone(d)
      <3>1. Label(c) < 2 * (clock - Slow - Hour + 1)
        BY <1>4, <2>2 DEF GoneAreOld
      <3> QED BY <1>1, <2>1, <3>1, Lengths
    <2>3. CASE ~(call[d].label >= Oldest(c))
      <3>1. Oldest(c) \in Int /\ Oldest(c) <= 2 * (clock - Horizon) + 1
        BY OldestIsOld
      <3> QED BY <1>1, <2>1, <2>3, <3>1, Lengths
    <2> QED BY <1>2, <2>2, <2>3
  <1> QED BY <1>3, <1>4

\* Every step leaves each bucket the sum of what is recorded in it: a write adds
\* its call to a sum, or begins one where none is recorded; a call that is
\* given back is taken off the sum that has it.
LEMMA BucketsExactStep ==
    ASSUME TypeOK, KindSteps, InTime, Labelled, GoneAreOld, BucketsExact, [Next]_vars
    PROVE  BucketsExact'
PROOF
  <1> DEFINE After(k, l) == {d \in Counted' : call'[d].key = k /\ call'[d].label = l}
  <1>1. ASSUME \A k \in DOMAIN docs' : \A l \in DOMAIN docs'[k].buckets :
                    docs'[k].buckets[l] = Sum(After(k, l))
        PROVE  BucketsExact'
    BY <1>1 DEF BucketsExact, Sum
  <1>2. ASSUME NEW k \in DOMAIN docs, NEW l \in DOMAIN docs[k].buckets
        PROVE  docs[k].buckets[l] = Sum(Held(k, l))
    BY DEF BucketsExact, Held
  <1>3. ASSUME Counted' = Counted, \A d \in Counted : Stands(d), NEW k, NEW l
        PROVE  After(k, l) = Held(k, l)
    BY <1>3 DEF Held, Stands
  <1>4. \A k, l : Held(k, l) \in SUBSET Counted /\ Held(k, l) \in SUBSET Txn
    BY CallsAreRecords DEF Held, TypeOK
  <1> HIDE DEF After
  <1>5. CASE Quiet
    BY <1>1, <1>2, <1>3, <1>5 DEF Quiet
  <1>6. ASSUME NEW c \in Call, NEW i \in Nat, Writes(c, i)
        PROVE  BucketsExact'
    <2> SUFFICES ASSUME NEW key, key = <<Base(c), i>>, NEW label, label = Label(c)
                 PROVE  BucketsExact'
      OBVIOUS
    <2> DEFINE kept == Kept(c, key)
    <2>1. Grows(c, key, label, kept)
      BY <1>6, WriteBuckets
    <2>2. /\ InFlight(c) /\ Counted' = Counted \cup {c} /\ \A d \in Counted : Stands(d)
          /\ c \notin Counted /\ call'[c].key = key /\ call'[c].label = label
      BY <1>6 DEF Writes, TypeOK, Nothing
    <2>3. ASSUME NEW k, NEW l, k # key \/ l # label
          PROVE  After(k, l) = Held(k, l)
      BY <2>2, <2>3 DEF After, Held, Stands
    <2>4. After(key, label) = Held(key, label) \cup {c} /\ c \notin Held(key, label)
      BY <2>2 DEF After, Held, Stands
    <2>5. \A l \in DOMAIN kept : /\ kept[l] = Sum(Held(key, l))
                                 /\ key \in DOMAIN docs /\ l \in DOMAIN docs[key].buckets
      <3>1. \A l \in DOMAIN kept : l \in DOMAIN Buckets(key) /\ kept[l] = Buckets(key)[l]
        BY KeptOfBuckets
      <3> HIDE DEF kept
      <3> QED BY <1>2, <3>1 DEF Buckets, NoBuckets
    <2>6. /\ Sum(After(key, label)).amount = TotalAmount(Held(key, label)) + Amount[c]
          /\ Sum(After(key, label)).count = Cardinality(Held(key, label)) + 1
      <3>1. c \in Txn /\ Held(key, label) \in SUBSET Txn
        BY <1>4, CallTypes
      <3> QED BY <2>4, <3>1, TotalAdd DEF Sum
    <2>7. docs'[key].buckets[label] = Sum(After(key, label))
      <3>1. CASE label \in DOMAIN kept
        <4>1. kept[label] = Sum(Held(key, label))
          BY <2>5, <3>1
        <4>2. kept[label].amount = TotalAmount(Held(key, label))
              /\ kept[label].count = Cardinality(Held(key, label))
          BY <4>1 DEF Sum
        <4>3. docs'[key].buckets[label] = [amount |-> kept[label].amount + Amount[c],
                                           count |-> kept[label].count + 1]
          BY <2>1, <3>1 DEF Grows
        <4> HIDE DEF kept
        <4> QED BY <2>6, <4>2, <4>3 DEF Sum
      <3>2. CASE label \notin DOMAIN kept
        <4>1. Held(key, label) = {}
          BY <2>2, <3>2, NewBucketIsEmpty
        <4>2. TotalAmount(Held(key, label)) = 0 /\ Cardinality(Held(key, label)) = 0
          BY <4>1, TotalEmpty
        <4>3. docs'[key].buckets[label] = [amount |-> 0 + Amount[c], count |-> 0 + 1]
          BY <2>1, <3>2 DEF Grows
        <4> HIDE DEF kept
        <4> QED BY <2>6, <4>2, <4>3 DEF Sum
      <3> QED BY <3>1, <3>2
    <2> HIDE DEF kept
    <2>8. ASSUME NEW k \in DOMAIN docs', NEW l \in DOMAIN docs'[k].buckets
          PROVE  docs'[k].buckets[l] = Sum(After(k, l))
      <3>1. CASE k # key
        <4>1. k \in DOMAIN docs /\ docs'[k] = docs[k]
          BY <2>1, <3>1 DEF Grows
        <4>2. l \in DOMAIN docs[k].buckets
          BY <4>1, <2>8
        <4> QED BY <1>2, <2>3, <3>1, <4>1, <4>2
      <3>2. CASE k = key /\ l # label
        <4>1. l \in DOMAIN kept /\ docs'[key].buckets[l] = kept[l]
          BY <2>1, <2>8, <3>2 DEF Grows
        <4> QED BY <2>3, <2>5, <3>2, <4>1
      <3>3. CASE k = key /\ l = label
        BY <2>7, <3>3
      <3> QED BY <3>1, <3>2, <3>3
    <2> QED BY <1>1, <2>8
  <1>7. ASSUME NEW c \in Call, Prunes(c)
        PROVE  BucketsExact'
    <2> SUFFICES ASSUME NEW key, key = <<Base(c), 0>>
                 PROVE  BucketsExact'
      OBVIOUS
    <2>1. /\ DOMAIN docs' = DOMAIN docs \cup {key}
          /\ \A k \in DOMAIN docs \ {key} : docs'[k] = docs[k]
          /\ docs'[key] = [buckets |-> Kept(c, key), expireAt |-> Expiry(c, key)]
      BY <1>7, PruneBuckets, Zenon
    <2>2. Counted' = Counted /\ \A d \in Counted : Stands(d)
      BY <1>7 DEF Prunes
    <2>3. ASSUME NEW k \in DOMAIN docs', NEW l \in DOMAIN docs'[k].buckets
          PROVE  docs'[k].buckets[l] = Sum(After(k, l))
      <3>1. CASE k # key
        <4>1. k \in DOMAIN docs /\ docs'[k] = docs[k] /\ l \in DOMAIN docs[k].buckets
          BY <2>1, <2>3, <3>1
        <4> QED BY <1>2, <1>3, <2>2, <4>1
      <3>2. CASE k = key
        <4>1. l \in DOMAIN Kept(c, key) /\ docs'[k].buckets[l] = Kept(c, key)[l]
          BY <2>1, <2>3, <3>2
        <4>2. l \in DOMAIN Buckets(key) /\ Kept(c, key)[l] = Buckets(key)[l]
          BY <4>1, KeptOfBuckets
        <4>3. key \in DOMAIN docs /\ l \in DOMAIN docs[key].buckets
              /\ Buckets(key)[l] = docs[key].buckets[l]
          BY <4>2 DEF Buckets, NoBuckets
        <4> QED BY <1>2, <1>3, <2>2, <3>2, <4>1, <4>2, <4>3
      <3> QED BY <3>1, <3>2
    <2> QED BY <1>1, <2>3
  <1>8. ASSUME NEW c \in Call, GivesBack(c)
        PROVE  BucketsExact'
    <2> DEFINE key == call[c].key  label == call[c].label
    <2>1. /\ key \in DOMAIN docs /\ label \in DOMAIN docs[key].buckets
          /\ DOMAIN docs' = DOMAIN docs
          /\ \A k \in DOMAIN docs \ {key} : docs'[k] = docs[k]
          /\ DOMAIN docs'[key].buckets = DOMAIN docs[key].buckets
          /\ \A l \in DOMAIN docs[key].buckets \ {label} :
                docs'[key].buckets[l] = docs[key].buckets[l]
          /\ docs'[key].buckets[label] =
                [amount |-> docs[key].buckets[label].amount - Amount[c],
                 count |-> docs[key].buckets[label].count - 1]
      BY <1>8, GiveBackBuckets
    <2>2. c \in Counted /\ Counted' = Counted \ {c} /\ \A d \in Counted \ {c} : Stands(d)
      BY <1>8 DEF GivesBack
    <2>3. ASSUME NEW k, NEW l, k # key \/ l # label
          PROVE  After(k, l) = Held(k, l)
      BY <2>2, <2>3 DEF After, Held, Stands
    <2>4. After(key, label) = Held(key, label) \ {c} /\ c \in Held(key, label)
      BY <2>2 DEF After, Held, Stands
    <2> HIDE DEF key, label
    <2>5. docs'[key].buckets[label] = Sum(After(key, label))
      <3>1. docs[key].buckets[label] = Sum(Held(key, label))
        BY <1>2, <2>1
      <3>2. /\ TotalAmount(After(key, label)) = TotalAmount(Held(key, label)) - Amount[c]
            /\ Cardinality(After(key, label)) = Cardinality(Held(key, label)) - 1
        BY <1>4, <2>4, TotalRemove
      <3> QED BY <2>1, <3>1, <3>2 DEF Sum
    <2>6. ASSUME NEW k \in DOMAIN docs', NEW l \in DOMAIN docs'[k].buckets
          PROVE  docs'[k].buckets[l] = Sum(After(k, l))
      <3>1. CASE k # key
        BY <1>2, <2>1, <2>3, <2>6, <3>1
      <3>2. CASE k = key /\ l # label
        BY <1>2, <2>1, <2>3, <2>6, <3>2
      <3>3. CASE k = key /\ l = label
        BY <2>5, <3>3
      <3> QED BY <3>1, <3>2, <3>3
    <2> QED BY <1>1, <2>6
  <1>9. ASSUME NEW k \in DOMAIN docs, Expires(k)
        PROVE  BucketsExact'
    <2>1. DOMAIN docs' \subseteq DOMAIN docs /\ \A j \in DOMAIN docs' : docs'[j] = docs[j]
      BY <1>9 DEF Expires, Restrict
    <2>2. Counted' = Counted /\ \A d \in Counted : Stands(d)
      BY <1>9 DEF Expires
    <2> QED BY <1>1, <1>2, <1>3, <2>1, <2>2
  <1> QED BY <1>5, <1>6, <1>7, <1>8, <1>9, Effects

-----------------------------------------------------------------------------
(* The registry, and the snapshots of it.                                  *)

\* An entry of a history of shard factors.
Factor == [value : Factors, effectiveAt : Nat]

\* The entry stays, gets one more shard factor, a new history or another granularity.
LEMMA EntryMoves ==
    ASSUME TypeOK, [Next]_vars
    PROVE  \/ UNCHANGED <<entry, refined, dropped>>
           \/ /\ UNCHANGED <<clock, kind, snapshot, behind, docs, cache, call>>
              /\ entry' \in WindowEntry
              /\ \/ /\ entry'.granularity = entry.granularity /\ refined' = refined
                    /\ kind # "rolling"
                    /\ \/ /\ \E e \in Factor : entry'.history = Append(entry.history, e)
                          /\ dropped' = dropped
                       \/ /\ \E e \in Factor : entry'.history = <<e>>
                          /\ dropped' = TRUE
                 \/ /\ entry'.history = entry.history /\ kind # "tier2" /\ dropped' = dropped
                    /\ refined' = (refined \/ entry.granularity = "HOUR")
                    /\ entry.granularity = "MINUTE" => entry'.granularity = "HOUR"
PROOF
  <1>1. CASE ChangeWindow
    <2>1. /\ entry \in WindowEntry /\ clock \in Nat /\ boundary \in Nat
          /\ entry.history \in Seq(Factor) /\ entry.granularity \in {"HOUR", "MINUTE"}
      BY EngineAssumption DEF TypeOK, WindowEntry, Factor
    <2>2. UNCHANGED <<clock, kind, snapshot, behind, docs, cache, call>>
      BY <1>1 DEF ChangeWindow
    <2>3. ASSUME NEW f \in Factors, NEW t \in (clock - Slow)..clock, kind # "rolling", t >= 0,
                 entry' = [entry EXCEPT !.history = AppendFactor(@, f, t)]
          PROVE  /\ entry' \in WindowEntry /\ entry'.granularity = entry.granularity
                 /\ \E e \in Factor : entry'.history = Append(entry.history, e)
      <3> DEFINE e == [value |-> f, effectiveAt |->
                            IF f > entry.history[Len(entry.history)].value THEN t ELSE boundary]
      <3>1. e \in Factor
        BY <2>1, <2>3, Lengths DEF Factor
      <3>2. AppendFactor(entry.history, f, t) = Append(entry.history, e)
        BY DEF AppendFactor
      <3> HIDE DEF e
      <3>3. Append(entry.history, e) \in Seq(Factor)
        BY <2>1, <3>1
      <3>4. entry' = [entry EXCEPT !.history = Append(entry.history, e)]
        BY <2>3, <3>2
      <3>5. entry'.history = Append(entry.history, e) /\ entry'.granularity = entry.granularity
        BY <2>1, <3>4 DEF WindowEntry
      <3>6. entry' \in WindowEntry
        BY <2>1, <3>3, <3>4 DEF WindowEntry, Factor
      <3> QED BY <3>1, <3>5, <3>6
    <2>5. ASSUME NEW f \in Factors,
                 entry' = [entry EXCEPT !.history = <<[value |-> f, effectiveAt |-> clock]>>]
          PROVE  /\ entry' \in WindowEntry /\ entry'.granularity = entry.granularity
                 /\ \E e \in Factor : entry'.history = <<e>>
      <3> DEFINE e == [value |-> f, effectiveAt |-> clock]
      <3>1. e \in Factor
        BY <2>1 DEF Factor
      <3>2. entry' = [entry EXCEPT !.history = <<e>>]
        BY <2>5
      <3> HIDE DEF e
      <3>3. <<e>> \in Seq(Factor)
        BY <3>1
      <3>4. entry'.history = <<e>> /\ entry'.granularity = entry.granularity
        BY <2>1, <3>2 DEF WindowEntry
      <3>5. entry' \in WindowEntry
        BY <2>1, <3>2, <3>3 DEF WindowEntry, Factor
      <3> QED BY <3>1, <3>4, <3>5
    <2>4. ASSUME kind # "tier2", refined' = (refined \/ entry.granularity = "HOUR"),
                 entry' = [entry EXCEPT !.granularity = IF @ = "HOUR" THEN "MINUTE" ELSE "HOUR"]
          PROVE  /\ entry' \in WindowEntry /\ entry'.history = entry.history
                 /\ entry.granularity = "MINUTE" => entry'.granularity = "HOUR"
      BY <2>1, <2>4 DEF WindowEntry
    <2> QED BY <1>1, <2>2, <2>3, <2>4, <2>5 DEF ChangeWindow
  <1>2. CASE ~ChangeWindow
    BY <1>2 DEF Next, vars, CallStep, Enter, RollingUpdate, CachedTotal, AskForTotal, SumShards,
           IncrementShard, GiveBack, Tick, Install, Expire
  <1> QED BY <1>1, <1>2

\* A snapshot stays, or the stored entry is installed.
LEMMA SnapshotMoves ==
    ASSUME TypeOK, [Next]_vars, NEW p \in Process
    PROVE  \/ snapshot'[p] = snapshot[p] /\ (clock' = clock => behind'[p] = behind[p])
           \/ /\ snapshot'[p] = entry /\ behind'[p] = 0
              /\ UNCHANGED <<clock, kind, entry, refined, dropped, docs, cache, call>>
PROOF
  <1>1. /\ snapshot \in [Process -> WindowEntry] /\ behind \in [Process -> 0..Poll]
        /\ clock \in Nat
    BY DEF TypeOK
  <1>2. ASSUME NEW q \in Process, Install(q)
        PROVE  \/ snapshot'[p] = snapshot[p] /\ behind'[p] = behind[p]
               \/ /\ snapshot'[p] = entry /\ behind'[p] = 0
                  /\ UNCHANGED <<clock, kind, entry, refined, dropped, docs, cache, call>>
    BY <1>1, <1>2 DEF Install
  <1>3. CASE Tick
    BY <1>1, <1>3 DEF Tick
  <1>4. CASE ~Tick /\ ~\E q \in Process : Install(q)
    BY <1>4 DEF Next, vars, CallStep, Enter, RollingUpdate, CachedTotal, AskForTotal, SumShards,
           IncrementShard, GiveBack, ChangeWindow, Expire
  <1> QED BY <1>2, <1>3, <1>4

\* What was dropped stays dropped.
LEMMA DroppedStays ==
    ASSUME TypeOK, [Next]_vars, ~dropped'
    PROVE  ~dropped
PROOF BY EntryMoves

\* A history the entry has had stays one, until it is dropped.
LEMMA HistoryStays ==
    ASSUME TypeOK, [Next]_vars, ~dropped', NEW h, h \in Seq(Factor), HasHad(h)
    PROVE  HasHad(h)'
PROOF
  <1>1. CASE entry'.history = entry.history
    BY <1>1 DEF HasHad
  <1>2. ASSUME NEW e \in Factor, entry'.history = Append(entry.history, e)
        PROVE  HasHad(h)'
    <2>1. entry.history \in Seq(Factor)
      BY DEF TypeOK, WindowEntry, Factor
    <2>2. /\ Len(entry'.history) = Len(entry.history) + 1 /\ Len(entry.history) \in Nat
          /\ \A i \in 1..Len(entry.history) : entry'.history[i] = entry.history[i]
      BY <1>2, <2>1
    <2>3. Len(h) \in 1..Len(entry.history) /\ DOMAIN h = 1..Len(h)
      BY DEF HasHad
    <2> QED BY <2>2, <2>3 DEF HasHad
  <1> QED BY <1>1, <1>2, EntryMoves

\* Snapshots and calls in flight have histories the registry has had.
LEMMA HistoriesStep ==
    ASSUME TypeOK, WellFormed, [Next]_vars
    PROVE  kind' # "rolling" /\ ~dropped' =>
            /\ HasHad(entry.history)'
            /\ \A p \in Process : HasHad(snapshot[p].history)'
            /\ \A c \in Call' : InFlight(c)' => HasHad(Window(c).history)'
PROOF
  <1>1. kind' = kind /\ Call' = Call
    BY Effects DEF Call, WellFormed
  <1> SUFFICES ASSUME kind # "rolling", ~dropped'
               PROVE  /\ HasHad(entry.history)'
                      /\ \A p \in Process : HasHad(snapshot[p].history)'
                      /\ \A c \in Call : InFlight(c)' => HasHad(Window(c).history)'
    BY <1>1
  <1>7. ~dropped
    BY DroppedStays
  <1>2. /\ entry.history \in Seq(Factor)
        /\ \A p \in Process : snapshot[p].history \in Seq(Factor)
        /\ \A c \in Call : Window(c).history \in Seq(Factor)
    BY CallTypes DEF TypeOK, WindowEntry, Factor
  <1>3. ASSUME NEW h, h \in Seq(Factor), HasHad(h), NEW g, g = h
        PROVE  HasHad(g)'
    BY <1>3, HistoryStays
  <1>4. HasHad(entry.history)'
    <2>1. CASE entry'.history = entry.history
      BY <1>7, <2>1 DEF HasHad, WellFormed
    <2>2. ASSUME NEW e \in Factor, entry'.history = Append(entry.history, e)
          PROVE  HasHad(entry.history)'
      <3>1. /\ Len(entry'.history) = Len(entry.history) + 1 /\ Len(entry.history) \in Nat
            /\ entry'.history[1] = entry.history[1] \/ Len(entry.history) = 0
        BY <1>2, <2>2
      <3>2. Len(entry.history) \in 1..Len(entry.history) /\ entry.history[1].effectiveAt = 0
        BY <1>7 DEF WellFormed, HasHad
      <3> QED BY <3>1, <3>2 DEF HasHad
    <2> QED BY <2>1, <2>2, EntryMoves
  <1>5. ASSUME NEW p \in Process
        PROVE  HasHad(snapshot[p].history)'
    <2> SUFFICES ASSUME NEW h, h = snapshot'[p].history
                 PROVE  HasHad(h)'
      BY DEF HasHad
    <2>1. h = snapshot[p].history \/ h = entry.history
      BY SnapshotMoves
    <2> QED BY <1>2, <2>1, <1>7, HistoryStays DEF WellFormed
  <1>6. ASSUME NEW c \in Call, InFlight(c)'
        PROVE  HasHad(Window(c).history)'
    <2> SUFFICES ASSUME NEW h, h = call'[c].window.history
                 PROVE  HasHad(h)'
      BY DEF HasHad, Window
    <2>1. CASE InFlight(c) /\ call'[c].window = call[c].window
      BY <1>2, <2>1, <1>7, HistoryStays DEF WellFormed, Window
    <2>2. CASE \E p \in Process : Enters(c, p)
      <3>1. PICK p \in Process : h = snapshot[p].history
        BY <2>2 DEF Enters
      <3> QED BY <1>2, <3>1, <1>7, HistoryStays DEF WellFormed
    <2> QED BY <1>6, <2>1, <2>2, Flights DEF WellFormed
  <1> QED BY <1>4, <1>5, <1>6

\* A window that is not strict keeps a shard factor, dropped or not.
LEMMA FactoredStep ==
    ASSUME TypeOK, WellFormed, [Next]_vars
    PROVE  Factored'
PROOF
  <1>1. kind' = kind /\ Call' = Call
    BY Effects DEF Call, WellFormed
  <1>2. CASE kind = "rolling"
    BY <1>1, <1>2 DEF Factored
  <1>3. CASE kind # "rolling"
    <2>1. /\ entry.history # <<>> /\ entry.history \in Seq(Factor)
          /\ \A p \in Process : snapshot[p].history # <<>>
          /\ \A c \in Call : InFlight(c) => Window(c).history # <<>>
      BY <1>3 DEF WellFormed, Factored, TypeOK, WindowEntry, Factor
    <2>2. entry'.history # <<>>
      <3>1. ASSUME NEW e \in Factor, entry'.history = Append(entry.history, e)
            PROVE  entry'.history # <<>>
        BY <2>1, <3>1
      <3>2. ASSUME NEW e \in Factor, entry'.history = <<e>>
            PROVE  entry'.history # <<>>
        BY <3>2
      <3> QED BY <2>1, <3>1, <3>2, EntryMoves
    <2>3. ASSUME NEW p \in Process
          PROVE  snapshot'[p].history # <<>>
      BY <2>1, SnapshotMoves
    <2>4. ASSUME NEW c \in Call, InFlight(c)'
          PROVE  call'[c].window.history # <<>>
      <3>1. CASE InFlight(c) /\ call'[c].window = call[c].window
        BY <2>1, <3>1 DEF Window
      <3>2. CASE \E p \in Process : Enters(c, p)
        BY <2>1, <3>2 DEF Enters
      <3> QED BY <2>4, <3>1, <3>2, Flights DEF WellFormed
    <2> QED BY <1>1, <2>2, <2>3, <2>4 DEF Factored, Window
  <1> QED BY <1>2, <1>3

-----------------------------------------------------------------------------
(* Finite buckets, and sums over several documents.                        *)

\* Only the calls of a soft tier sum and pass.
LEMMA KindStepsStep ==
    ASSUME TypeOK, KindSteps, [Next]_vars
    PROVE  KindSteps'
PROOF
  <1>1. kind' = kind /\ Call' = Call /\ call \in [Call -> CallState]
    BY Effects DEF Call, TypeOK
  <1> SUFFICES ASSUME NEW c \in Call, call'[c].pc \in {"summing", "passed"}
               PROVE  kind # "rolling"
    BY <1>1 DEF KindSteps
  <1>2. CASE call'[c] = call[c]
    BY <1>2 DEF KindSteps
  <1>3. ASSUME NEW d \in Call, CallStep(d), d # c
        PROVE  call'[c] = call[c]
    BY <1>1, <1>3 DEF CallStep, Enter, RollingUpdate, CachedTotal, AskForTotal, SumShards,
           IncrementShard, GiveBack, Decide, End, Record, Goto
  <1>4. CASE CachedTotal(c) \/ AskForTotal(c) \/ SumShards(c)
    BY <1>4 DEF CachedTotal, AskForTotal, SumShards, KindSteps
  <1>5. CASE Enter(c)
    BY <1>1, <1>5 DEF Enter, CallState
  <1>6. CASE RollingUpdate(c)
    BY <1>1, <1>6 DEF RollingUpdate, Record, Nothing
  <1>7. CASE IncrementShard(c)
    BY <1>1, <1>7 DEF IncrementShard, Record, Nothing
  <1>8. CASE GiveBack(c)
    BY <1>8, GiveBackEnds
  <1>9. (\E d \in Call : CallStep(d)) \/ call' = call
    BY DEF Next, vars, ChangeWindow, Install, Expire, Tick
  <1> QED BY <1>2, <1>3, <1>4, <1>5, <1>6, <1>7, <1>8, <1>9 DEF CallStep

\* A step leaves finitely many buckets.
LEMMA WellFormedStep ==
    ASSUME TypeOK, WellFormed, [Next]_vars
    PROVE  WellFormed'
PROOF
  <1>1. KindSteps
    BY DEF WellFormed
  <1>2. KindSteps'
    BY <1>1, KindStepsStep
  <1>3. ASSUME NEW k \in DOMAIN docs'
        PROVE  IsFiniteSet(DOMAIN docs'[k].buckets)
    <2>1. \A j \in DOMAIN docs : IsFiniteSet(DOMAIN docs[j].buckets)
      BY DEF WellFormed
    <2>2. CASE k \in DOMAIN docs /\ docs'[k] = docs[k]
      BY <2>1, <2>2
    <2>3. \A j : IsFiniteSet(DOMAIN Buckets(j))
      <3>1. IsFiniteSet({})
        BY FS_EmptySet
      <3> QED BY <2>1, <3>1 DEF Buckets, NoBuckets
    <2>4. \A c, j : IsFiniteSet(DOMAIN Kept(c, j))
      BY <2>3, KeptOfBuckets, FS_Subset
    <2>5. ASSUME NEW c \in Call, NEW i \in Nat, Writes(c, i)
          PROVE  IsFiniteSet(DOMAIN docs'[k].buckets)
      <3> SUFFICES ASSUME NEW key, key = <<Base(c), i>>, NEW label, label = Label(c)
                   PROVE  IsFiniteSet(DOMAIN docs'[k].buckets)
        OBVIOUS
      <3>1. Grows(c, key, label, Kept(c, key))
        BY <2>5, WriteBuckets
      <3>2. IsFiniteSet(DOMAIN Kept(c, key) \cup {label})
        BY <2>4, FS_AddElement
      <3> QED BY <2>2, <3>1, <3>2, <1>3 DEF Grows
    <2>6. ASSUME NEW c \in Call, Prunes(c)
          PROVE  IsFiniteSet(DOMAIN docs'[k].buckets)
      <3> SUFFICES ASSUME NEW key, key = <<Base(c), 0>>
                   PROVE  IsFiniteSet(DOMAIN docs'[k].buckets)
        OBVIOUS
      <3>1. /\ DOMAIN docs' = DOMAIN docs \cup {key}
            /\ \A j \in DOMAIN docs \ {key} : docs'[j] = docs[j]
            /\ docs'[key] = [buckets |-> Kept(c, key), expireAt |-> Expiry(c, key)]
        BY <2>6, PruneBuckets, Zenon
      <3>2. docs'[key].buckets = Kept(c, key)
        BY <3>1
      <3> QED BY <2>2, <2>4, <3>1, <3>2, <1>3
    <2>7. ASSUME NEW c \in Call, GivesBack(c)
          PROVE  IsFiniteSet(DOMAIN docs'[k].buckets)
      <3>1. \A j \in DOMAIN docs' : j \in DOMAIN docs /\ DOMAIN docs'[j].buckets = DOMAIN docs[j].buckets
        BY <2>7, GiveBackBuckets
      <3> QED BY <2>1, <3>1, <1>3
    <2>8. ASSUME NEW j \in DOMAIN docs, Expires(j)
          PROVE  k \in DOMAIN docs /\ docs'[k] = docs[k]
      BY <2>8, <1>3 DEF Expires, Restrict
    <2>9. CASE Quiet
      BY <2>2, <2>9, <1>3 DEF Quiet
    <2> QED BY <1>1, <2>2, <2>5, <2>6, <2>7, <2>8, <2>9, Effects
  <1> QED BY <1>2, <1>3, HistoriesStep, FactoredStep DEF WellFormed

\* Where buckets are exact, a read of several documents is the sum of the calls
\* recorded in the buckets it finds.
LEMMA TotalOfFound ==
    ASSUME TypeOK, WellFormed, BucketsExact, NEW keys, IsFiniteSet(keys), NEW oldest
    PROVE  TotalOf(keys, oldest)
             = Sum({c \in Counted : <<call[c].key, call[c].label>> \in Found(keys, oldest)})
PROOF
  <1> DEFINE found == Found(keys, oldest)
             buckets == [kl \in found |-> Buckets(kl[1])[kl[2]]]
             part == [kl \in found |-> Held(kl[1], kl[2])]
             labels == [k \in keys |-> {k} \X {l \in DOMAIN Buckets(k) : kind = "tier2" \/ l >= oldest}]
  <1>1. IsFiniteSet(found)
    <2>1. \A k : IsFiniteSet(DOMAIN Buckets(k))
      <3>1. IsFiniteSet({})
        BY FS_EmptySet
      <3> QED BY <3>1 DEF Buckets, NoBuckets, WellFormed
    <2>2. \A k \in keys : IsFiniteSet(labels[k])
      <3> TAKE k \in keys
      <3> DEFINE some == {l \in DOMAIN Buckets(k) : kind = "tier2" \/ l >= oldest}
      <3>1. some \in SUBSET DOMAIN Buckets(k)
        OBVIOUS
      <3>2. IsFiniteSet(some)
        BY <2>1, <3>1, FS_Subset
      <3>3. IsFiniteSet({k})
        BY FS_Singleton
      <3> HIDE DEF some
      <3>4. IsFiniteSet({k} \X some)
        BY <3>2, <3>3, FS_Product
      <3> QED BY <3>4 DEF some
    <2>3. found = UNION {labels[k] : k \in keys}
      BY DEF Found
    <2> HIDE DEF labels, found
    <2>4. IsFiniteSet(UNION {labels[k] : k \in keys})
      BY <2>2, FiniteUnion
    <2> QED BY <2>3, <2>4
  <1>2. \A kl \in found : /\ kl[1] \in DOMAIN docs /\ kl[2] \in DOMAIN docs[kl[1]].buckets
                          /\ kl = <<kl[1], kl[2]>>
    BY DEF Found, Buckets, NoBuckets
  <1> HIDE DEF found
  <1>3. \A kl \in found : /\ part[kl] \in SUBSET Txn /\ buckets[kl] = Sum(part[kl])
    <2>1. \A k, l : Held(k, l) \in SUBSET Txn
      BY CallsAreRecords DEF Held, TypeOK
    <2> QED BY <1>2, <2>1 DEF BucketsExact, Held, Buckets
  <1>4. \A kl, mn \in found : kl # mn => part[kl] \cap part[mn] = {}
    BY <1>2 DEF Held
  <1>5. Together(part)
          = {c \in Counted : <<call[c].key, call[c].label>> \in found}
    <2>1. \A c : c \in Together(part) <=> \E kl \in found : c \in Held(kl[1], kl[2])
      BY DEF Together
    <2>2. \A c : c \in Together(part) => c \in Counted /\ <<call[c].key, call[c].label>> \in found
      BY <1>2, <2>1 DEF Held
    <2>3. \A c \in Counted : <<call[c].key, call[c].label>> \in found => c \in Together(part)
      BY <2>1 DEF Held
    <2> QED BY <2>2, <2>3
  <1>6. DOMAIN buckets = DOMAIN part /\ DOMAIN part = found
    OBVIOUS
  <1>7. TotalOf(keys, oldest) = Total(buckets)
    BY DEF TotalOf, found
  <1> HIDE DEF buckets, part
  <1>8. Total(buckets) = Sum(Together(part))
    BY <1>1, <1>3, <1>4, <1>6, TotalOfBuckets
  <1> QED BY <1>5, <1>7, <1>8 DEF found

\* What a write keeps of a document is the sum of the calls recorded in it.
LEMMA TotalOfKept ==
    ASSUME TypeOK, WellFormed, BucketsExact, NEW c, NEW key
    PROVE  Total(Kept(c, key))
             = Sum({d \in Counted : call[d].key = key /\ call[d].label \in DOMAIN Kept(c, key)})
PROOF
  <1> DEFINE kept == Kept(c, key)
             part == [l \in DOMAIN kept |-> Held(key, l)]
  <1>1. \A l \in DOMAIN kept : /\ key \in DOMAIN docs /\ l \in DOMAIN docs[key].buckets
                               /\ kept[l] = docs[key].buckets[l]
    <2>1. \A l \in DOMAIN kept : l \in DOMAIN Buckets(key) /\ kept[l] = Buckets(key)[l]
      BY KeptOfBuckets
    <2> HIDE DEF kept
    <2> QED BY <2>1 DEF Buckets, NoBuckets
  <1>2. IsFiniteSet(DOMAIN kept)
    <2>1. CASE key \in DOMAIN docs
      <3>1. IsFiniteSet(DOMAIN docs[key].buckets) /\ DOMAIN kept \subseteq DOMAIN docs[key].buckets
        BY <1>1, <2>1 DEF WellFormed
      <3> QED BY <3>1, FS_Subset
    <2>2. CASE key \notin DOMAIN docs
      <3>1. DOMAIN kept = {}
        BY <1>1, <2>2
      <3> QED BY <3>1, FS_EmptySet
    <2> QED BY <2>1, <2>2
  <1> HIDE DEF kept
  <1>3. \A l \in DOMAIN kept : part[l] \in SUBSET Txn /\ kept[l] = Sum(part[l])
    <2>1. \A k, l : Held(k, l) \in SUBSET Txn
      BY CallsAreRecords DEF Held, TypeOK
    <2> QED BY <1>1, <2>1 DEF BucketsExact, Held
  <1>4. \A l, m \in DOMAIN kept : l # m => part[l] \cap part[m] = {}
    BY DEF Held
  <1>5. Together(part) = {d \in Counted : call[d].key = key /\ call[d].label \in DOMAIN kept}
    BY DEF Together, Held
  <1>6. DOMAIN part = DOMAIN kept
    OBVIOUS
  <1> HIDE DEF part
  <1>7. Total(kept) = Sum(Together(part))
    BY <1>2, <1>3, <1>4, <1>6, TotalOfBuckets
  <1> QED BY <1>5, <1>7 DEF kept

\* A history of shard factors has finitely many, and its reads go by one of them.
LEMMA ReadFactorIsNat ==
    ASSUME NEW h \in Seq(Factor), NEW t, h # <<>>
    PROVE  ReadFactor(h, t) \in Nat
PROOF
  <1> DEFINE pool == IF InForce(h, t) = {} THEN DOMAIN h ELSE InForce(h, t)
             values == {h[i].value : i \in pool}
  <1>1. pool \subseteq DOMAIN h /\ pool # {}
    BY DEF InForce
  <1>2. \A i \in DOMAIN h : h[i].value \in Factors
    <2>1. DOMAIN h = 1..Len(h) /\ \A i \in 1..Len(h) : h[i] \in Factor
      OBVIOUS
    <2>2. \A e \in Factor : e.value \in Factors
      BY DEF Factor
    <2> QED BY <2>1, <2>2
  <1> HIDE DEF pool
  <1>3. values \in SUBSET Factors /\ values # {}
    BY <1>1, <1>2
  <1>4. IsFiniteSet(values) /\ values \in SUBSET Nat
    BY <1>3, EngineAssumption, FS_Subset
  <1>5. ReadFactor(h, t) = Max(values)
    BY DEF ReadFactor, pool
  <1> HIDE DEF values
  <1> QED BY <1>3, <1>4, <1>5, MaxIsLargest

\* The factor for reads is no less than any in force, that for writes is one.
LEMMA FactorsOf ==
    ASSUME NEW h \in Seq(Factor), NEW t \in Nat, Len(h) >= 1, h[1].effectiveAt = 0
    PROVE  /\ ReadFactor(h, t) \in Nat
           /\ \A i \in InForce(h, t) : h[i].value <= ReadFactor(h, t)
           /\ \E i \in InForce(h, t) : WriteFactor(h, t) = h[i].value
PROOF
  <1> DEFINE force == InForce(h, t)
             values == {h[i].value : i \in force}
  <1>1. /\ DOMAIN h = 1..Len(h) /\ Len(h) \in Nat
        /\ \A i \in DOMAIN h : h[i].value \in Factors /\ h[i].effectiveAt \in Nat
    <2>1. DOMAIN h = 1..Len(h) /\ Len(h) \in Nat /\ \A i \in 1..Len(h) : h[i] \in Factor
      OBVIOUS
    <2>2. \A e \in Factor : e.value \in Factors /\ e.effectiveAt \in Nat
      BY DEF Factor
    <2> QED BY <2>1, <2>2
  <1>2. force \subseteq 1..Len(h) /\ 1 \in force
    BY <1>1 DEF InForce
  <1>3. IsFiniteSet(force)
    <2>1. IsFiniteSet(1..Len(h))
      BY <1>1, FS_Interval
    <2> QED BY <1>2, <2>1, FS_Subset
  <1>4. values \in SUBSET Factors /\ values # {}
    BY <1>1, <1>2
  <1>5. IsFiniteSet(values) /\ values \in SUBSET Nat
    BY <1>4, EngineAssumption, FS_Subset
  <1>6. force \in SUBSET Nat /\ force # {}
    BY <1>2
  <1>7. Max(force) \in force
    <2> HIDE DEF force
    <2> QED BY <1>3, <1>6, MaxIsLargest
  <1>8. Max(values) \in Nat /\ \A x \in values : x <= Max(values)
    <2> HIDE DEF values
    <2> QED BY <1>4, <1>5, MaxIsLargest
  <1>9. ReadFactor(h, t) = Max(values)
    BY <1>6 DEF ReadFactor
  <1>10. WriteFactor(h, t) = h[Max(force)].value
    BY <1>6 DEF WriteFactor
  <1>11. \A i \in force : h[i].value \in values
    OBVIOUS
  <1> HIDE DEF force, values
  <1> QED BY <1>7, <1>8, <1>9, <1>10, <1>11 DEF force

\* The shards a call of a soft tier reads are finitely many, and all below the
\* largest factor in force.
LEMMA ShardsRead ==
    ASSUME TypeOK, WellFormed, kind # "rolling", NEW c \in Call, InFlight(c)
    PROVE  /\ IsFiniteSet(ReadKeys(c))
           /\ \A i \in Nat : i < ReadFactor(Window(c).history, Now(c)) => <<Base(c), i>> \in ReadKeys(c)
PROOF
  <1> DEFINE n == ReadFactor(Window(c).history, Now(c))
  <1>1. n \in Nat
    <2>1. Window(c).history # <<>>
      BY DEF WellFormed, Factored
    <2>2. Window(c).history \in Seq(Factor)
      BY CallTypes DEF WindowEntry, Factor
    <2> QED BY <2>1, <2>2, ReadFactorIsNat
  <1> DEFINE some == 0..(n - 1)
  <1>2. ReadKeys(c) = {Base(c)} \X some
    BY DEF ReadKeys
  <1>3. IsFiniteSet(some) /\ IsFiniteSet({Base(c)})
    <2>1. 0 \in Int /\ n - 1 \in Int
      BY <1>1
    <2>2. IsFiniteSet({Base(c)})
      BY FS_Singleton
    <2> HIDE DEF n
    <2>3. IsFiniteSet(0..(n - 1))
      BY <2>1, FS_Interval
    <2> QED BY <2>2, <2>3
  <1>4. \A i \in Nat : i < n => i \in some
    BY <1>1
  <1> HIDE DEF n, some
  <1> QED BY <1>2, <1>3, <1>4, FS_Product DEF n

\* The documents keep their types: a bucket that is given back covers it.
LEMMA DocsKeepType ==
    ASSUME TypeOK, KindSteps, [Next]_vars, NEW k \in DOMAIN docs'
    PROVE  /\ k \in Nat \X Nat
           /\ DOMAIN docs'[k] = {"buckets", "expireAt"} /\ docs'[k].expireAt \in Nat
           /\ DOMAIN docs'[k].buckets \subseteq Nat
           /\ \A l \in DOMAIN docs'[k].buckets : docs'[k].buckets[l] \in Money
PROOF
  <1> DEFINE Good(d) == /\ DOMAIN d = {"buckets", "expireAt"} /\ d.expireAt \in Nat
                        /\ DOMAIN d.buckets \subseteq Nat
                        /\ \A l \in DOMAIN d.buckets : d.buckets[l] \in Money
  <1>1. \A j \in DOMAIN docs : j \in Nat \X Nat /\ Good(docs[j])
    BY DEF TypeOK
  <1>2. \A c, j : \A l \in DOMAIN Kept(c, j) : l \in Nat /\ Kept(c, j)[l] \in Money
    <2> TAKE c, j
    <2> TAKE l \in DOMAIN Kept(c, j)
    <2>1. l \in DOMAIN Buckets(j) /\ Kept(c, j)[l] = Buckets(j)[l]
      BY KeptOfBuckets
    <2> QED BY <1>1, <2>1 DEF Buckets, NoBuckets
  <1>3. ASSUME NEW c \in Call, NEW j, j[1] = Base(c), j \in DOMAIN docs => docs[j].expireAt \in Nat
        PROVE  Expiry(c, j) \in Nat
    <2>1. Now(c) \in Nat
      BY CallTypes
    <2>2. DayStart(Now(c)) \in Nat
      BY <2>1, Lengths, PeriodBegins DEF DayStart
    <2> QED BY <1>3, <2>1, <2>2, Lengths DEF Expiry
  <1>4. CASE k \in DOMAIN docs /\ docs'[k] = docs[k]
    BY <1>1, <1>4
  <1>5. ASSUME NEW c \in Call, NEW i \in Nat, Writes(c, i)
        PROVE  k \in Nat \X Nat /\ Good(docs'[k])
    <2> SUFFICES ASSUME NEW key, key = <<Base(c), i>>, NEW label, label = Label(c)
                 PROVE  k \in Nat \X Nat /\ Good(docs'[k])
      OBVIOUS
    <2> DEFINE kept == Kept(c, key)
    <2>1. Grows(c, key, label, kept)
      BY <1>5, WriteBuckets
    <2>2. key \in Nat \X Nat /\ label \in Nat /\ Amount[c] \in Nat
      BY CallTypes
    <2>3. Expiry(c, key) \in Nat
      BY <1>1, <1>3
    <2>4. \A l \in DOMAIN kept : l \in Nat /\ kept[l] \in Money
      BY <1>2
    <2> HIDE DEF kept
    <2>5. docs'[key].buckets[label] \in Money
      <3>1. CASE label \in DOMAIN kept
        <4>1. kept[label].amount \in Nat /\ kept[label].count \in Nat
          BY <2>4, <3>1 DEF Money
        <4> QED BY <2>1, <2>2, <3>1, <4>1 DEF Grows, Money
      <3>2. CASE label \notin DOMAIN kept
        BY <2>1, <2>2, <3>2 DEF Grows, Money
      <3> QED BY <3>1, <3>2
    <2>6. CASE k = key
      <3>1. DOMAIN docs'[key].buckets \subseteq Nat
        BY <2>1, <2>2, <2>4 DEF Grows
      <3>2. \A l \in DOMAIN docs'[key].buckets : docs'[key].buckets[l] \in Money
        BY <2>1, <2>4, <2>5 DEF Grows
      <3> QED BY <2>1, <2>2, <2>3, <2>6, <3>1, <3>2 DEF Grows
    <2>7. CASE k # key
      BY <1>1, <2>1, <2>7 DEF Grows
    <2> QED BY <2>6, <2>7
  <1>6. ASSUME NEW c \in Call, Prunes(c)
        PROVE  k \in Nat \X Nat /\ Good(docs'[k])
    <2> SUFFICES ASSUME NEW key, key = <<Base(c), 0>>
                 PROVE  k \in Nat \X Nat /\ Good(docs'[k])
      OBVIOUS
    <2>1. /\ DOMAIN docs' = DOMAIN docs \cup {key}
          /\ \A j \in DOMAIN docs \ {key} : docs'[j] = docs[j]
          /\ docs'[key] = [buckets |-> Kept(c, key), expireAt |-> Expiry(c, key)]
      BY <1>6, PruneBuckets, Zenon
    <2>2. key \in Nat \X Nat
      BY CallTypes
    <2>3. Expiry(c, key) \in Nat
      BY <1>1, <1>3
    <2>4. Good(docs'[key])
      BY <1>2, <2>1, <2>3
    <2> HIDE DEF Good
    <2> QED BY <1>1, <2>1, <2>2, <2>4
  <1>7. ASSUME NEW c \in Call, GivesBack(c)
        PROVE  k \in Nat \X Nat /\ Good(docs'[k])
    <2> SUFFICES ASSUME NEW key, key = call[c].key, NEW label, label = call[c].label
                 PROVE  k \in Nat \X Nat /\ Good(docs'[k])
      OBVIOUS
    <2>1. /\ key \in DOMAIN docs /\ label \in DOMAIN docs[key].buckets
          /\ DOMAIN docs' = DOMAIN docs
          /\ \A j \in DOMAIN docs \ {key} : docs'[j] = docs[j]
          /\ docs'[key].expireAt = docs[key].expireAt
          /\ DOMAIN docs'[key] = {"buckets", "expireAt"}
          /\ DOMAIN docs'[key].buckets = DOMAIN docs[key].buckets
          /\ \A l \in DOMAIN docs[key].buckets \ {label} :
                docs'[key].buckets[l] = docs[key].buckets[l]
          /\ docs'[key].buckets[label] =
                [amount |-> docs[key].buckets[label].amount - Amount[c],
                 count |-> docs[key].buckets[label].count - 1]
      BY <1>7, GiveBackBuckets
    <2>2. /\ docs[key].buckets[label].amount >= Amount[c] /\ docs[key].buckets[label].count >= 1
          /\ docs[key].buckets[label].amount \in Nat /\ docs[key].buckets[label].count \in Nat
          /\ Amount[c] \in Nat
      BY <1>1, <1>7, <2>1, CallTypes DEF GivesBack, Money
    <2>3. docs'[key].buckets[label] \in Money
      BY <2>1, <2>2 DEF Money
    <2>4. Good(docs'[key])
      BY <1>1, <2>1, <2>3
    <2> HIDE DEF Good
    <2> QED BY <1>1, <2>1, <2>4
  <1>8. ASSUME NEW j \in DOMAIN docs, Expires(j)
        PROVE  k \in DOMAIN docs /\ docs'[k] = docs[k]
    BY <1>8 DEF Expires, Restrict
  <1>9. CASE Quiet
    BY <1>4, <1>9 DEF Quiet
  <1> QED BY <1>4, <1>5, <1>6, <1>7, <1>8, <1>9, Effects

\* The calls keep their types.
LEMMA CallsKeepType ==
    ASSUME TypeOK, KindSteps, [Next]_vars
    PROVE  call' \in [Call -> CallState]
PROOF
  <1>1. call \in [Call -> CallState] /\ clock \in Nat
    BY DEF TypeOK
  <1>2. ASSUME NEW c \in Call, NEW new \in CallState, call' = [call EXCEPT ![c] = new]
        PROVE  call' \in [Call -> CallState]
    BY <1>1, <1>2
  <1>3. ASSUME NEW c \in Call, NEW pc \in {"applied", "breached"}, NEW key \in Nat \X Nat,
               Record(c, pc, key)
        PROVE  call' \in [Call -> CallState]
    <2> DEFINE new == [Nothing EXCEPT !.pc = pc, !.now = Now(c), !.key = key,
                                      !.label = Label(c), !.at = clock]
    <2>1. Now(c) \in Nat /\ Label(c) \in Nat
      BY CallTypes
    <2>2. new \in CallState
      BY <1>1, <1>3, <2>1, NothingIsState DEF CallState
    <2>3. call' = [call EXCEPT ![c] = new]
      BY <1>3 DEF Record
    <2> HIDE DEF new
    <2> QED BY <1>2, <2>2, <2>3
  <1>4. ASSUME NEW c \in Call, NEW pc \in {"undone", "breached"}, End(c, pc)
        PROVE  call' \in [Call -> CallState]
    <2> DEFINE new == [Nothing EXCEPT !.pc = pc]
    <2>1. new \in CallState
      BY <1>4, NothingIsState DEF CallState
    <2>2. call' = [call EXCEPT ![c] = new]
      BY <1>4 DEF End
    <2> HIDE DEF new
    <2> QED BY <1>2, <2>1, <2>2
  <1>5. ASSUME NEW c \in Call, NEW total, NEW t \in Nat, Decide(c, total, t)
        PROVE  call' \in [Call -> CallState]
    <2>1. CASE ~Fits(total, c)
      BY <1>4, <1>5, <2>1 DEF Decide
    <2>2. CASE Fits(total, c)
      BY <1>1, <1>5, <2>2 DEF Decide, CallState
    <2> QED BY <2>1, <2>2
  <1>6. ASSUME NEW c \in Call, Enter(c)
        PROVE  call' \in [Call -> CallState]
    <2>1. PICK p \in Process, t \in (clock - Slow)..clock :
            /\ t >= 0
            /\ call' = [call EXCEPT ![c].pc = "entered", ![c].home = p, ![c].now = t,
                                    ![c].window = snapshot[p]]
      BY <1>6 DEF Enter
    <2>2. t \in Nat /\ snapshot[p] \in WindowEntry
      BY <1>1, <2>1, Lengths DEF TypeOK
    <2> DEFINE new == [[[[call[c] EXCEPT !.pc = "entered"] EXCEPT !.home = p] EXCEPT !.now = t]
                        EXCEPT !.window = snapshot[p]]
    <2>3. call[c] \in CallState
      BY <1>1
    <2>4. new \in CallState
      BY <2>2, <2>3 DEF CallState
    <2>5. call' = [call EXCEPT ![c] = new]
      BY <2>1
    <2> HIDE DEF new
    <2> QED BY <1>2, <2>4, <2>5
  <1>7. ASSUME NEW c \in Call, RollingUpdate(c)
        PROVE  call' \in [Call -> CallState]
    BY <1>3, <1>7, CallTypes DEF RollingUpdate
  <1>8. ASSUME NEW c \in Call, CachedTotal(c) \/ SumShards(c)
        PROVE  call' \in [Call -> CallState]
    BY <1>1, <1>5, <1>8, CallTypes DEF CachedTotal, SumShards
  <1>9. ASSUME NEW c \in Call, AskForTotal(c)
        PROVE  call' \in [Call -> CallState]
    <2> DEFINE new == [[call[c] EXCEPT !.pc = "summing"] EXCEPT !.asked = clock]
    <2>1. call[c] \in CallState
      BY <1>1
    <2>2. new \in CallState
      BY <1>1, <2>1 DEF CallState
    <2>3. call' = [call EXCEPT ![c] = new]
      BY <1>9 DEF AskForTotal
    <2> HIDE DEF new
    <2> QED BY <1>2, <2>2, <2>3
  <1>10. ASSUME NEW c \in Call, IncrementShard(c)
         PROVE  call' \in [Call -> CallState]
    BY <1>3, <1>10, CallTypes DEF IncrementShard
  <1>11. ASSUME NEW c \in Call, GiveBack(c)
         PROVE  call' \in [Call -> CallState]
    <2>1. CASE End(c, "undone")
      BY <1>4, <2>1
    <2>2. CASE Goto(c, "signalled")
      BY <1>1, <2>2 DEF Goto, CallState
    <2> QED BY <1>11, <2>1, <2>2 DEF GiveBack
  <1>12. (\E c \in Call : CallStep(c)) \/ call' = call
    BY DEF Next, vars, ChangeWindow, Install, Expire, Tick
  <1> QED BY <1>1, <1>6, <1>7, <1>8, <1>9, <1>10, <1>11, <1>12 DEF CallStep

\* A cached total is the sum of some calls.
LEMMA CachesKeepType ==
    ASSUME TypeOK, WellFormed, BucketsExact, [Next]_vars
    PROVE  /\ DOMAIN cache' = Process
           /\ \A p \in Process : \A b \in DOMAIN cache'[p] :
                cache'[p][b] \in [total : Money, refreshedAt : Nat]
PROOF
  <1>1. /\ DOMAIN cache = Process
        /\ \A p \in Process : \A b \in DOMAIN cache[p] :
             cache[p][b] \in [total : Money, refreshedAt : Nat]
    BY DEF TypeOK
  <1>2. CASE Tick
    <2>1. cache' = [p \in Process |->
                    Restrict(cache[p], {b \in DOMAIN cache[p] : Young(cache[p][b], clock + 1)})]
      BY <1>2 DEF Tick
    <2> QED BY <1>1, <2>1 DEF Restrict
  <1>3. ASSUME NEW c \in Call, SumShards(c)
        PROVE  /\ DOMAIN cache' = Process
               /\ \A p \in Process : \A b \in DOMAIN cache'[p] :
                    cache'[p][b] \in [total : Money, refreshedAt : Nat]
    <2> DEFINE total == TotalOf(ReadKeys(c), Oldest(c))  q == call[c].home
               entryOf == [total |-> total, refreshedAt |-> call[c].asked]
    <2>1. cache' = [cache EXCEPT ![q] = Put(@, Base(c), entryOf)] /\ call[c].pc = "summing"
      BY <1>3 DEF SumShards
    <2>2. kind # "rolling" /\ InFlight(c)
      BY <2>1 DEF WellFormed, KindSteps, InFlight
    <2>3. total \in Money
      <3>1. IsFiniteSet(ReadKeys(c))
        BY <2>2, ShardsRead
      <3> DEFINE S == {d \in Counted : <<call[d].key, call[d].label>> \in Found(ReadKeys(c), Oldest(c))}
      <3>2. total = Sum(S)
        BY <3>1, TotalOfFound
      <3>3. S \in SUBSET Txn
        BY CallsAreRecords DEF TypeOK
      <3> HIDE DEF S, total
      <3> QED BY <3>2, <3>3, Sums
    <2>4. entryOf \in [total : Money, refreshedAt : Nat]
      <3>1. call[c].asked \in Nat
        BY CallTypes
      <3> HIDE DEF total
      <3> QED BY <2>3, <3>1
    <2> HIDE DEF total, entryOf, q
    <2>5. DOMAIN cache' = Process
      BY <1>1, <2>1
    <2>6. ASSUME NEW p \in Process, NEW b \in DOMAIN cache'[p]
          PROVE  cache'[p][b] \in [total : Money, refreshedAt : Nat]
      <3>1. CASE p = q
        <4>1. cache'[p] = Put(cache[p], Base(c), entryOf)
          BY <1>1, <2>1, <3>1
        <4> QED BY <1>1, <2>4, <2>6, <4>1 DEF Put
      <3>2. CASE p # q
        BY <1>1, <2>1, <2>6, <3>2
      <3> QED BY <3>1, <3>2
    <2> QED BY <2>5, <2>6
  <1>4. CASE ~Tick /\ ~(\E c \in Call : SumShards(c))
    <2>1. cache' = cache
      BY <1>4 DEF Next, vars, CallStep, Enter, RollingUpdate, CachedTotal, AskForTotal,
           IncrementShard, GiveBack, ChangeWindow, Install, Expire
    <2> QED BY <1>1, <2>1
  <1> QED BY <1>2, <1>3, <1>4

\* A step keeps the types of all variables.
LEMMA TypeOKStep ==
    ASSUME TypeOK, WellFormed, BucketsExact, [Next]_vars
    PROVE  TypeOK'
PROOF
  <1> USE DEF TypeOK
  <1>1. kind' = kind /\ boundary' = boundary /\ Call' = Call /\ KindSteps
    BY Effects DEF Call, WellFormed
  <1>2. clock' \in 0..MaxTime[kind]
    <2>1. clock' = clock \/ (clock < MaxTime[kind] /\ clock' = clock + 1)
      BY DEF Next, vars, CallStep, Enter, RollingUpdate, CachedTotal, AskForTotal, SumShards,
           IncrementShard, GiveBack, ChangeWindow, Install, Expire, Tick
    <2>2. MaxTime[kind] \in Nat
      BY EngineAssumption
    <2> QED BY <2>1, <2>2
  <1>3. entry' \in WindowEntry
    BY EntryMoves
  <1>4. edits' \in 0..MaxEdits /\ refined' \in BOOLEAN /\ dropped' \in BOOLEAN
    <2>1. edits' = edits \/ (edits < MaxEdits /\ edits' = edits + 1)
      BY DEF Next, vars, CallStep, Enter, RollingUpdate, CachedTotal, AskForTotal, SumShards,
           IncrementShard, GiveBack, ChangeWindow, Install, Expire, Tick
    <2>2. refined' = refined \/ refined' = (refined \/ entry.granularity = "HOUR")
      BY EntryMoves
    <2>3. refined' \in BOOLEAN
      BY <2>2, Zenon
    <2>4. MaxEdits \in Nat
      BY EngineAssumption
    <2>5. dropped' = dropped \/ dropped' = TRUE
      BY EntryMoves
    <2>6. dropped' \in BOOLEAN
      BY <2>5, Zenon
    <2> QED BY <2>1, <2>3, <2>4, <2>6
  <1>5. snapshot' \in [Process -> WindowEntry] /\ behind' \in [Process -> 0..Poll]
    <2>1. ASSUME NEW p \in Process, Install(p)
          PROVE  snapshot' \in [Process -> WindowEntry] /\ behind' \in [Process -> 0..Poll]
      BY <2>1, Lengths DEF Install
    <2>2. CASE Tick
      <3>1. \A p \in Process : behind[p] \in 0..Poll /\ (snapshot[p] # entry => behind[p] < Poll)
        BY <2>2 DEF Tick
      <3>2. \A p \in Process : (IF snapshot[p] # entry THEN behind[p] + 1 ELSE 0) \in 0..Poll
        BY <3>1, Lengths
      <3> QED BY <2>2, <3>2 DEF Tick
    <2>3. CASE ~Tick /\ ~\E p \in Process : Install(p)
      BY <2>3 DEF Next, vars, CallStep, Enter, RollingUpdate, CachedTotal, AskForTotal, SumShards,
           IncrementShard, GiveBack, ChangeWindow, Expire
    <2> QED BY <2>1, <2>2, <2>3
  <1>6. call' \in [Call' -> CallState]
    BY <1>1, CallsKeepType
  <1>7. /\ DOMAIN cache' = Process
        /\ \A p \in Process : \A b \in DOMAIN cache'[p] :
             cache'[p][b] \in [total : Money, refreshedAt : Nat]
    BY CachesKeepType
  <1>8. \A k \in DOMAIN docs' :
            /\ k \in Nat \X Nat
            /\ DOMAIN docs'[k] = {"buckets", "expireAt"} /\ docs'[k].expireAt \in Nat
            /\ DOMAIN docs'[k].buckets \subseteq Nat
            /\ \A l \in DOMAIN docs'[k].buckets : docs'[k].buckets[l] \in Money
    BY <1>1, DocsKeepType
  <1>9. kind' \in Kind /\ boundary' \in Boundaries /\ clock' \in 0..MaxTime'[kind']
    BY <1>1, <1>2
  <1> HIDE DEF TypeOK
  <1> QED BY <1>3, <1>4, <1>5, <1>6, <1>7, <1>8, <1>9 DEF TypeOK

-----------------------------------------------------------------------------
(* The theorems about the buckets.                                         *)

\* The inductive invariant of the buckets.
Exactness ==
    /\ TypeOK /\ WellFormed /\ InTime /\ Labelled
    /\ ExpirySet /\ GoneAreOld /\ BucketsExact

\* It holds at first, when there is nothing ...
LEMMA ExactnessInit == Init => Exactness
PROOF
  <1> SUFFICES ASSUME Init PROVE Exactness
    OBVIOUS
  <1> USE DEF Init
  <1>1. Call \in SUBSET Txn /\ kind \in Kind /\ MaxTime[kind] \in Nat
    BY CallsAreRecords, EngineAssumption
  <1>2. \A c \in Call : call[c] = Nothing
    OBVIOUS
  <1>3. Counted = {} /\ \A c \in Call : ~InFlight(c) /\ call[c].asked = 0 /\ call[c].pc = "new"
    BY <1>2 DEF Counted, InFlight, Nothing
  <1>4. entry \in WindowEntry /\ (kind # "rolling" => HasHad(entry.history) /\ entry.history # <<>>)
    <2>1. CASE kind = "rolling"
      <3>1. entry.history = <<>> /\ entry \in [history : {<<>>}, granularity : {"HOUR", "MINUTE"}]
        BY <2>1
      <3>2. <<>> \in Seq([value : Factors, effectiveAt : Nat])
        OBVIOUS
      <3> QED BY <2>1, <3>1, <3>2, Zenon DEF WindowEntry
    <2>2. CASE kind # "rolling"
      <3>1. PICK f \in Factors : entry.history = <<[value |-> f, effectiveAt |-> 0]>>
        BY <2>2
      <3>2. entry \in [history : {entry.history}, granularity : {"HOUR", "MINUTE"}]
        BY <2>2
      <3>3. entry.history \in Seq([value : Factors, effectiveAt : Nat])
        BY <3>1
      <3>4. entry \in WindowEntry
        BY <3>2, <3>3 DEF WindowEntry
      <3>5. Len(entry.history) = 1 /\ entry.history[1].effectiveAt = 0
        BY <3>1
      <3> QED BY <3>4, <3>5 DEF HasHad
    <2> QED BY <2>1, <2>2
  <1>5. TypeOK
    <2>1. DOMAIN docs = {} /\ DOMAIN cache = Process /\ \A p \in Process : DOMAIN cache[p] = {}
      OBVIOUS
    <2>2. snapshot \in [Process -> WindowEntry] /\ behind \in [Process -> 0..Poll]
      BY <1>4, Lengths
    <2>3. call \in [Call -> CallState]
      BY NothingIsState
    <2>4. clock \in 0..MaxTime[kind] /\ boundary \in Boundaries /\ edits \in 0..MaxEdits
          /\ refined \in BOOLEAN /\ dropped \in BOOLEAN
      <3>1. clock = 0 /\ boundary \in Boundaries /\ edits = 0 /\ refined = FALSE /\ dropped = FALSE
        BY Zenon
      <3>2. MaxEdits \in Nat
        BY EngineAssumption
      <3> HIDE DEF Init
      <3>3. clock \in 0..MaxTime[kind] /\ edits \in 0..MaxEdits
        BY <1>1, <3>1, <3>2
      <3>4. refined \in BOOLEAN /\ dropped \in BOOLEAN
        BY <3>1, Zenon
      <3> QED BY <3>1, <3>3, <3>4
    <2> QED BY <1>1, <1>4, <2>1, <2>2, <2>3, <2>4 DEF TypeOK
  <1>6. DOMAIN docs = {} /\ clock = 0 /\ \A p \in Process : snapshot[p] = entry
    OBVIOUS
  <1>7. WellFormed
    BY <1>3, <1>4, <1>6 DEF WellFormed, KindSteps, Factored
  <1> QED BY <1>3, <1>5, <1>6, <1>7
          DEF Exactness, InTime, Labelled, ExpirySet, GoneAreOld, BucketsExact

\* ... and after every step.
LEMMA ExactnessStep == Exactness /\ [Next]_vars => Exactness'
PROOF
  <1> SUFFICES ASSUME Exactness, [Next]_vars PROVE Exactness'
    OBVIOUS
  <1> USE DEF Exactness
  <1>1. KindSteps
    BY DEF WellFormed
  <1>2. TypeOK' /\ WellFormed'
    BY TypeOKStep, WellFormedStep
  <1>3. InTime' /\ Labelled'
    BY <1>1, InTimeStep, LabelledStep
  <1>4. ExpirySet' /\ GoneAreOld'
    BY <1>1, ExpirySetStep, GoneAreOldStep
  <1>5. BucketsExact'
    BY <1>1, BucketsExactStep
  <1> QED BY <1>2, <1>3, <1>4, <1>5

\* Every bucket there is holds exactly what the calls recorded in it have added
\* and not taken back: whatever is pruned, expires or is written anew.
THEOREM BucketsStayExact == Spec => []BucketsExact
PROOF
  <1>1. Exactness => BucketsExact
    BY DEF Exactness
  <1> QED BY <1>1, ExactnessInit, ExactnessStep, PTL DEF Spec

\* The variables keep their types; no bucket goes negative.
THEOREM TypeCorrect == Spec => []TypeOK
PROOF
  <1>1. Exactness => TypeOK
    BY DEF Exactness
  <1> QED BY <1>1, ExactnessInit, ExactnessStep, PTL DEF Spec

\* decrementRollingBucket and guardedDecrement match whenever the recorded bucket
\* is there: the sum it holds covers the call that is given back.
THEOREM GivenBackWhileThere == Spec => BucketIsGivenBack
PROOF
  <1>1. ASSUME Exactness, [Next]_vars, NEW c \in Call, kind # "rolling-sharded",
               call[c].pc = "applied", call'[c].pc = "signalled"
        PROVE  call[c].label \notin DOMAIN Buckets(call[c].key)
    <2>1. GiveBack(c)
      <3>1. call \in [Call -> CallState]
        BY <1>1 DEF Exactness, TypeOK
      <3>2. ASSUME NEW d \in Call, CallStep(d), d # c
            PROVE  call'[c] = call[c]
        BY <3>1, <3>2 DEF CallStep, Enter, RollingUpdate, CachedTotal, AskForTotal, SumShards,
             IncrementShard, GiveBack, Decide, End, Record, Goto
      <3>3. (\E d \in Call : CallStep(d)) \/ call' = call
        BY <1>1 DEF Next, vars, ChangeWindow, Install, Expire, Tick
      <3>4. CallStep(c)
        BY <1>1, <3>2, <3>3
      <3> QED BY <1>1, <3>4 DEF CallStep, Enter, RollingUpdate, CachedTotal, AskForTotal,
             SumShards, IncrementShard
    <2> SUFFICES ASSUME call[c].label \in DOMAIN Buckets(call[c].key)
                 PROVE  FALSE
      OBVIOUS
    <2> DEFINE k == call[c].key  l == call[c].label
    <2>2. k \in DOMAIN docs /\ l \in DOMAIN docs[k].buckets /\ Buckets(k) = docs[k].buckets
      BY DEF Buckets, NoBuckets
    <2>3. docs[k].buckets[l] = Sum(Held(k, l))
      BY <1>1, <2>2 DEF Exactness, BucketsExact, Held
    <2>4. c \in Held(k, l) /\ Held(k, l) \in SUBSET Txn
      BY <1>1, CallsAreRecords DEF Exactness, TypeOK, Held, Counted
    <2>5. docs[k].buckets[l].amount >= Amount[c] /\ docs[k].buckets[l].count >= 1
      <3> HIDE DEF k, l
      <3>1. TotalAmount(Held(k, l)) >= Amount[c] /\ Cardinality(Held(k, l)) >= 1
        BY <2>4, TotalRemove
      <3> QED BY <2>3, <3>1 DEF Sum
    <2>6. Recorded(c) = l
      BY <1>1 DEF Recorded
    <2>7. End(c, "undone")
      BY <2>1, <2>2, <2>5, <2>6 DEF GiveBack
    <2>8. call'[c].pc = "undone"
      BY <1>1, <2>7 DEF End, Nothing, Exactness, TypeOK
    <2> QED BY <1>1, <2>8
  <1>2. Exactness /\ [Next]_vars
          => [\A c \in Call :
                 /\ kind # "rolling-sharded"
                 /\ call[c].pc = "applied" /\ call'[c].pc = "signalled"
                 => call[c].label \notin DOMAIN Buckets(call[c].key)]_vars
    BY <1>1
  <1> QED BY <1>2, ExactnessInit, ExactnessStep, PTL DEF Spec, BucketIsGivenBack

-----------------------------------------------------------------------------
(* The strict window.                                                      *)

\* The parity of what is recorded is that of the call's granularity.
LEMMA LabelParity ==
    ASSUME TypeOK, kind # "tier2", NEW c \in Call
    PROVE  /\ Window(c).granularity = "MINUTE" => Label(c) % 2 = 1
           /\ Window(c).granularity = "HOUR" => Label(c) % 2 = 0
PROOF
  <1>1. Now(c) \in Nat /\ Window(c).granularity \in {"HOUR", "MINUTE"}
    BY CallTypes
  <1>2. Now(c) \in Int /\ Label(c) = BucketLabel(Now(c), Window(c).granularity)
    BY <1>1 DEF Label
  <1> QED BY <1>1, <1>2, Labels

\* Hours are written by who still takes the window for hourly, and a process
\* takes it for minutes by mistake for at most Poll.
LEMMA HoursAreRecentStep ==
    ASSUME TypeOK, KindSteps, InTime, HoursAreRecent, [Next]_vars
    PROVE  HoursAreRecent'
PROOF
  <1>1. kind' = kind /\ Call' = Call /\ clock \in Nat
    BY Effects DEF Call, TypeOK
  <1> SUFFICES ASSUME kind # "tier2", ~refined'
               PROVE  HoursAreRecent'
    BY <1>1 DEF HoursAreRecent
  <1>2. ~refined
    BY EntryMoves
  <1>3. /\ entry.granularity \in {"HOUR", "MINUTE"}
        /\ \A p \in Process : /\ snapshot[p].granularity \in {"HOUR", "MINUTE"}
                              /\ behind[p] \in Nat /\ behind[p] <= Poll
    BY Lengths DEF TypeOK, WindowEntry
  <1>4. entry.granularity = "MINUTE" =>
            /\ \A p \in Process : snapshot[p].granularity = "MINUTE"
            /\ \A c \in Call : InFlight(c) => Window(c).granularity = "MINUTE"
            /\ \A c \in Counted : call[c].label % 2 = 1
    BY <1>2 DEF HoursAreRecent
  <1>5. \A c \in Counted : call[c].label % 2 = 0 =>
            /\ entry.granularity = "HOUR"
            /\ \A p \in Process : snapshot[p].granularity = "MINUTE" =>
                clock <= Now(c) + behind[p] + Slow
            /\ \A e \in Call : InFlight(e) /\ Window(e).granularity = "MINUTE" =>
                Now(e) <= Now(c) + Poll + Slow
    BY <1>2, <1>3, <1>4 DEF HoursAreRecent
  <1>6. CASE entry' # entry
    <2>1. UNCHANGED <<clock, kind, snapshot, behind, docs, cache, call>>
      BY <1>6, EntryMoves
    <2>2. Counted' = Counted /\ \A c \in Call : InFlight(c)' = InFlight(c)
      BY <1>1, <2>1 DEF Counted, InFlight
    <2>3. entry'.granularity = entry.granularity
          \/ (entry.granularity = "MINUTE" /\ entry'.granularity = "HOUR")
      BY <1>3, <1>6, EntryMoves
    <2> QED BY <1>1, <1>4, <1>5, <2>1, <2>2, <2>3 DEF HoursAreRecent, Now, Window
  <1>7. CASE entry' = entry
    <2>1. ASSUME entry.granularity = "MINUTE", NEW p \in Process
          PROVE  snapshot'[p].granularity = "MINUTE"
      BY <1>4, <2>1, SnapshotMoves
    <2>2. ASSUME entry.granularity = "MINUTE", NEW c \in Call, InFlight(c)'
          PROVE  call'[c].window.granularity = "MINUTE"
      BY <1>4, <2>2, Flights DEF Enters, Window
    <2>3. ASSUME entry.granularity = "MINUTE", NEW c \in Counted'
          PROVE  call'[c].label % 2 = 1
      BY <1>4, <2>3, CountedMoves, LabelParity DEF Stands
    <2>4. ASSUME NEW c \in Counted', call'[c].label % 2 = 0,
                 NEW p \in Process, snapshot'[p].granularity = "MINUTE"
          PROVE  clock' <= call'[c].now + behind'[p] + Slow
      <3>1. CASE c \in Counted /\ Stands(c)
        <4>1. entry.granularity = "HOUR" /\ call'[c].now = Now(c) /\ Now(c) \in Nat
          BY <1>5, <2>4, <3>1, CallTypes DEF Stands, Now, Counted
        <4>2. snapshot'[p] = snapshot[p] /\ snapshot[p] # entry
              /\ (clock' = clock => behind'[p] = behind[p])
          BY <2>4, <4>1, SnapshotMoves
        <4>3. clock <= Now(c) + behind[p] + Slow
          BY <1>5, <2>4, <3>1, <4>2 DEF Stands
        <4>4. clock' = clock \/ (clock' = clock + 1 /\ behind'[p] = behind[p] + 1)
          BY <4>2, TimeMoves
        <4> QED BY <1>1, <1>3, <4>1, <4>2, <4>3, <4>4, Lengths
      <3>2. CASE c \in Call /\ InFlight(c) /\ Standing /\ call'[c].now = Now(c)
        <4>1. clock <= Now(c) + Slow /\ Now(c) \in Nat
          BY <3>2, CallTypes DEF InTime
        <4> QED BY <1>1, <1>3, <3>2, <4>1, Lengths DEF Standing
      <3> QED BY <3>1, <3>2, CountedMoves
    <2>5. ASSUME NEW c \in Counted', call'[c].label % 2 = 0,
                 NEW e \in Call, InFlight(e)', call'[e].window.granularity = "MINUTE"
          PROVE  call'[e].now <= call'[c].now + Poll + Slow
      <3>1. CASE InFlight(e) /\ call'[e].now = call[e].now /\ call'[e].window = call[e].window
        <4>1. Now(e) \in Nat /\ Now(e) <= clock /\ call'[e].now = Now(e)
              /\ Window(e).granularity = "MINUTE"
          BY <2>5, <3>1, CallTypes DEF InTime, Now, Window
        <4>2. CASE c \in Counted /\ Stands(c)
          BY <1>5, <2>5, <3>1, <4>1, <4>2 DEF Stands, Now
        <4>3. CASE c \in Call /\ InFlight(c) /\ call'[c].now = Now(c)
          <5>1. clock <= Now(c) + Slow /\ Now(c) \in Nat
            BY <4>3, CallTypes DEF InTime
          <5> QED BY <1>1, <4>1, <4>3, <5>1, Lengths
        <4> QED BY <4>2, <4>3, CountedMoves
      <3>2. CASE \E p \in Process : Enters(e, p)
        <4>1. PICK p \in Process : Enters(e, p)
          BY <3>2
        <4>2. c \in Counted /\ Stands(c)
          BY <4>1 DEF Enters, Quiet
        <4>3. Now(c) \in Nat /\ call'[c].now = Now(c) /\ call[c].label % 2 = 0
          BY <2>5, <4>2, CallTypes DEF Stands, Now, Counted
        <4>4. clock <= Now(c) + behind[p] + Slow
          BY <1>5, <2>5, <4>1, <4>2, <4>3 DEF Enters
        <4>5. call'[e].now \in Nat /\ call'[e].now <= clock
          BY <4>1 DEF Enters
        <4> QED BY <1>1, <1>3, <4>3, <4>4, <4>5, Lengths
      <3> QED BY <2>5, <3>1, <3>2, Flights
    <2> QED BY <1>1, <1>7, <2>1, <2>2, <2>3, <2>4, <2>5 DEF HoursAreRecent, Now, Window
  <1> QED BY <1>6, <1>7

\* What still counts for the time of call c is young enough for its horizon.
LEMMA YoungIsKept ==
    ASSUME TypeOK, InTime, Labelled, HoursAreRecent, kind # "tier2",
           NEW c \in Call, InFlight(c), NEW d \in Counted, CountsFrom(d) > Now(c) - Horizon
    PROVE  call[d].label >= Oldest(c)
PROOF
  <1> DEFINE T == Now(c) - Horizon  g == Window(c).granularity
             h == Now(d) - (Now(d) % Hour)  o == T - (T % Hour)
  <1>1. /\ Now(c) \in Nat /\ T \in Int /\ g \in {"HOUR", "MINUTE"}
        /\ d \in Call /\ Now(d) \in Nat /\ Now(d) \in Int
    BY CallTypes, Lengths DEF Counted
  <1>2. PICK gd \in {"HOUR", "MINUTE"} : call[d].label = BucketLabel(Now(d), gd)
    BY DEF Labelled
  <1>3. /\ Oldest(c) \in Int /\ Oldest(c) <= 2 * T + 1 /\ (g = "HOUR" => Oldest(c) = 2 * o)
    <2>1. Oldest(c) = BucketLabel(T, g)
      BY DEF Oldest, HorizonLabel
    <2> QED BY <1>1, <2>1, Labels
  <1>4. /\ gd = "MINUTE" => call[d].label = 2 * Now(d) + 1 /\ call[d].label % 2 = 1
        /\ gd = "HOUR" => call[d].label = 2 * h /\ call[d].label % 2 = 0 /\ call[d].label \div 2 = h
    BY <1>1, <1>2, Labels
  <1>5. h \in Int /\ h <= Now(d) /\ Now(d) < h + Hour /\ o \in Int
    BY <1>1, PeriodBegins, Lengths
  <1>6. Now(d) >= T => o <= h
    BY <1>1, PeriodsInOrder, Lengths
  <1>7. gd = "HOUR" /\ ~refined /\ g = "MINUTE" => Now(c) <= Now(d) + Poll + Slow
    BY <1>4 DEF HoursAreRecent
  <1>8. CountsFrom(d) = IF refined /\ gd = "HOUR" THEN h ELSE Now(d)
    BY <1>4 DEF CountsFrom
  <1>9. CountsFrom(d) > T /\ T = Now(c) - Horizon
    OBVIOUS
  <1> HIDE DEF T, g, h, o
  <1>10. CASE gd = "MINUTE"
    BY <1>1, <1>3, <1>4, <1>8, <1>9, <1>10
  <1>11. CASE gd = "HOUR" /\ refined
    BY <1>1, <1>3, <1>4, <1>5, <1>8, <1>9, <1>11
  <1>12. CASE gd = "HOUR" /\ ~refined /\ g = "HOUR"
    BY <1>1, <1>3, <1>4, <1>5, <1>6, <1>8, <1>9, <1>12
  <1>13. CASE gd = "HOUR" /\ ~refined /\ g = "MINUTE"
    BY <1>1, <1>3, <1>4, <1>5, <1>7, <1>8, <1>9, <1>13, Lengths
  <1> QED BY <1>1, <1>10, <1>11, <1>12, <1>13

\* A call never counts from later than its time, nor later than before.
LEMMA CountsFromMoves ==
    ASSUME TypeOK, KindSteps, Labelled, kind # "tier2", [Next]_vars, NEW d \in Counted, Stands(d)
    PROVE  /\ CountsFrom(d) \in Int /\ CountsFrom(d) <= Now(d)
           /\ CountsFrom(d)' \in Int /\ CountsFrom(d)' <= CountsFrom(d)
           /\ Now(d)' = Now(d) /\ Now(d) \in Nat
PROOF
  <1>1. d \in Call /\ Now(d) \in Nat /\ Now(d) \in Int /\ Now(d)' = Now(d)
        /\ call'[d].label = call[d].label
    BY CallTypes DEF Counted, Stands, Now
  <1>2. PICK g \in {"HOUR", "MINUTE"} : call[d].label = BucketLabel(Now(d), g)
    BY DEF Labelled
  <1> DEFINE h == Now(d) - (Now(d) % Hour)
  <1>3. h \in Int /\ h <= Now(d)
    BY <1>1, PeriodBegins, Lengths
  <1>4. /\ g = "MINUTE" => call[d].label % 2 = 1
        /\ g = "HOUR" => call[d].label % 2 = 0 /\ call[d].label \div 2 = h
    BY <1>1, <1>2, Labels
  <1>5. refined => refined'
    BY EntryMoves
  <1> HIDE DEF h
  <1>6. CountsFrom(d) = IF refined /\ g = "HOUR" THEN h ELSE Now(d)
    BY <1>4 DEF CountsFrom
  <1>7. CountsFrom(d)' = IF refined' /\ g = "HOUR" THEN h ELSE Now(d)
    BY <1>1, <1>4 DEF CountsFrom
  <1> QED BY <1>1, <1>3, <1>5, <1>6, <1>7

\* A bucket that goes has left the 24 hours of its calls.
LEMMA GoneHaveLeftStep ==
    ASSUME TypeOK, KindSteps, InTime, Labelled, ExpirySet, HoursAreRecent, GoneHaveLeft, [Next]_vars
    PROVE  GoneHaveLeft'
PROOF
  <1>1. kind' = kind /\ clock \in Nat /\ clock' \in Nat /\ clock <= clock'
    BY Effects, TimeMoves DEF TypeOK
  <1> SUFFICES ASSUME kind # "tier2", NEW d \in Counted', Gone(d)'
               PROVE  CountsFrom(d)' <= clock' - Horizon
    BY <1>1 DEF GoneHaveLeft
  <1>2. /\ d \in Counted /\ Stands(d) /\ d \in Call
        /\ \/ Gone(d)
           \/ \E c \in Call : InFlight(c) /\ ~(call[d].label >= Oldest(c))
           \/ call[d].key \in DOMAIN docs /\ docs[call[d].key].expireAt < clock
    BY GoneMoves DEF Counted
  <1>3. /\ CountsFrom(d) \in Int /\ CountsFrom(d) <= Now(d) /\ Now(d) \in Nat
        /\ CountsFrom(d)' \in Int /\ CountsFrom(d)' <= CountsFrom(d)
    BY <1>2, CountsFromMoves
  <1>4. CASE Gone(d)
    <2>1. CountsFrom(d) <= clock - Horizon
      BY <1>2, <1>4 DEF GoneHaveLeft
    <2> QED BY <1>1, <1>3, <2>1, Lengths
  <1>5. CASE \E c \in Call : InFlight(c) /\ ~(call[d].label >= Oldest(c))
    <2>1. PICK c \in Call : InFlight(c) /\ ~(call[d].label >= Oldest(c))
      BY <1>5
    <2>2. ~(CountsFrom(d) > Now(c) - Horizon)
      BY <1>2, <2>1, YoungIsKept
    <2>3. Now(c) \in Nat /\ Now(c) <= clock
      BY <2>1, CallTypes DEF InTime
    <2> QED BY <1>1, <1>3, <2>2, <2>3, Lengths
  <1>6. CASE call[d].key \in DOMAIN docs /\ docs[call[d].key].expireAt < clock
    <2>1. docs[call[d].key].expireAt \in Nat
      BY <1>6 DEF TypeOK
    <2>2. Now(d) + Horizon + Grace <= docs[call[d].key].expireAt + Slow
      BY <1>2, <1>6 DEF ExpirySet
    <2> QED BY <1>1, <1>3, <1>6, <2>1, <2>2, Lengths
  <1> QED BY <1>2, <1>4, <1>5, <1>6

\* What is allowed for some calls is for fewer.
LEMMA AllowedFewer ==
    ASSUME NEW T \in SUBSET Txn, NEW S \in SUBSET T, Allowed(Sum(T))
    PROVE  Allowed(Sum(S))
PROOF
  <1>1. /\ Sum(T) \in Money /\ Sum(S) \in Money
        /\ Sum(S).amount <= Sum(T).amount /\ Sum(S).count <= Sum(T).count
    BY Sums
  <1>2. /\ Threshold.amount # Unlimited => Threshold.amount \in Nat
        /\ Threshold.count # Unlimited => Threshold.count \in Nat
    BY EngineAssumption
  <1> QED BY <1>1, <1>2 DEF Allowed, Money

\* The calls that count in the window up to a time.
Recent(t) == {c \in Counted : Now(c) <= t /\ CountsFrom(c) > t - Horizon + Slow}

\* A write that the strict limit lets through finds all that counts with it.
LEMMA StrictWrite ==
    ASSUME TypeOK, WellFormed, InTime, Labelled, HoursAreRecent, GoneHaveLeft, BucketsExact,
           kind = "rolling", NEW e \in Call, NEW i \in Nat, Writes(e, i),
           NEW t \in Nat, Now(e) <= t, NEW S \in SUBSET (Recent(t) \cup {e})
    PROVE  Allowed(Sum(S))
PROOF
  <1> SUFFICES ASSUME NEW key, key = <<Base(e), 0>>
               PROVE  Allowed(Sum(S))
    OBVIOUS
  <1> DEFINE X == {d \in Counted : call[d].key = key /\ call[d].label \in DOMAIN Kept(e, key)}
  <1>1. /\ InFlight(e) /\ e \notin Counted /\ Fits(Total(Kept(e, key)), e)
        /\ e \in Txn /\ Amount[e] \in Nat /\ X \in SUBSET Txn /\ e \notin X
        /\ Counted \in SUBSET Txn
    BY CallTypes, CallsAreRecords DEF Writes, TypeOK
  <1>2. ASSUME NEW d \in Recent(t)
        PROVE  d \in X
    <2>1. /\ d \in Counted /\ d \in Call /\ CountsFrom(d) > t - Horizon + Slow
          /\ call[d].key \in Nat \X Nat
      BY CallTypes DEF Recent, Counted
    <2>2. /\ Now(e) \in Nat /\ Now(e) <= clock /\ clock <= Now(e) + Slow /\ clock \in Nat
      BY <1>1, <2>1, NotMuchLater
    <2>3. CountsFrom(d) \in Int
      <3>1. Now(d) \in Nat /\ call[d].label \in Nat
        BY <2>1, CallTypes
      <3> QED BY <3>1 DEF CountsFrom
    <2>4. call[d].key = key
      BY <2>1 DEF Labelled, Base
    <2>5. ~Gone(d)
      <3>1. ~(CountsFrom(d) <= clock - Horizon)
        BY <2>1, <2>2, <2>3, Lengths
      <3> QED BY <2>1, <3>1 DEF GoneHaveLeft
    <2>6. call[d].label >= Oldest(e)
      <3>1. CountsFrom(d) > Now(e) - Horizon
        BY <2>1, <2>2, <2>3, Lengths
      <3> QED BY <1>1, <2>1, <3>1, YoungIsKept
    <2> QED BY <2>1, <2>4, <2>5, <2>6, KeptOfBuckets DEF Gone
  <1>3. Total(Kept(e, key)) = Sum(X)
    BY TotalOfKept
  <1>4. /\ TotalAmount(X \cup {e}) = TotalAmount(X) + Amount[e]
        /\ Cardinality(X \cup {e}) = Cardinality(X) + 1
    BY <1>1, TotalAdd
  <1>5. Allowed(Sum(X \cup {e}))
    BY <1>1, <1>3, <1>4 DEF Fits, Allowed, Sum
  <1>6. S \in SUBSET (X \cup {e}) /\ X \cup {e} \in SUBSET Txn
    BY <1>1, <1>2
  <1> HIDE DEF X
  <1> QED BY <1>5, <1>6, AllowedFewer

\* The window up to any time loses calls with a step, or gains the one written,
\* which its limit let through.
LEMMA RollingStrictStep ==
    ASSUME TypeOK, WellFormed, InTime, Labelled, HoursAreRecent, GoneHaveLeft, BucketsExact,
           RollingStrict, [Next]_vars
    PROVE  RollingStrict'
PROOF
  <1>1. kind' = kind /\ clock \in Nat /\ KindSteps /\ Counted \in SUBSET Txn
    BY Effects, CallsAreRecords DEF TypeOK, WellFormed
  <1> SUFFICES ASSUME kind = "rolling", NEW t \in 0..clock'
               PROVE  Allowed(Sum(Recent(t)'))
    BY <1>1 DEF RollingStrict, Allowed, Sum, Recent
  <1>2. \A u \in 0..clock : Allowed(Sum(Recent(u)))
    BY DEF RollingStrict, Recent
  <1>3. \A u : Recent(u) \in SUBSET Txn
    BY <1>1 DEF Recent
  <1>4. t \in Nat
    BY <1>1, TimeMoves
  <1>5. ASSUME NEW d \in Recent(t)', d \in Counted, Stands(d)
        PROVE  d \in Recent(t) /\ (t = clock + 1 => d \in Recent(clock))
    <2>1. /\ CountsFrom(d) \in Int /\ CountsFrom(d)' \in Int /\ CountsFrom(d)' <= CountsFrom(d)
          /\ Now(d)' = Now(d) /\ Now(d) \in Nat
      BY <1>1, <1>5, CountsFromMoves
    <2>2. Now(d)' <= t /\ CountsFrom(d)' > t - Horizon + Slow
      BY DEF Recent
    <2>3. Now(d) <= clock
      BY <1>1, <1>5, CallTypes DEF InTime, Counted
    <2> QED BY <1>1, <1>4, <1>5, <2>1, <2>2, <2>3, Lengths DEF Recent
  <1>6. CASE \A d \in Recent(t)' : d \in Counted /\ Stands(d)
    <2>1. CASE t \in 0..clock
      BY <1>2, <1>3, <1>5, <1>6, <2>1, AllowedFewer
    <2>2. CASE t = clock + 1
      <3>1. clock \in 0..clock
        BY <1>1
      <3> QED BY <1>2, <1>3, <1>5, <1>6, <2>2, <3>1, AllowedFewer
    <2> QED BY <1>1, <1>4, <2>1, <2>2, TimeMoves
  <1>7. CASE ~(\A d \in Recent(t)' : d \in Counted /\ Stands(d))
    <2>1. PICK e \in Recent(t)' : ~(e \in Counted /\ Stands(e))
      BY <1>7
    <2>2. PICK i \in Nat : e \in Call /\ Writes(e, i) /\ call'[e].now = Now(e)
      BY <1>1, <2>1, CountedMoves DEF Recent
    <2>3. Now(e) <= t
      BY <2>1, <2>2 DEF Recent, Now
    <2>4. \A d \in Recent(t)' : d = e \/ d \in Recent(t)
      BY <1>5, <2>2 DEF Writes, Recent
    <2>5. Recent(t)' \in SUBSET (Recent(t) \cup {e})
      BY <2>4
    <2> QED BY <1>4, <2>2, <2>3, <2>5, StrictWrite
  <1> QED BY <1>6, <1>7

\* The inductive invariant of the windows.
Strictness == Exactness /\ HoursAreRecent /\ GoneHaveLeft

\* It holds throughout.
LEMMA StrictnessInvariant == Spec => []Strictness
PROOF
  <1>1. Init => HoursAreRecent /\ GoneHaveLeft
    <2> SUFFICES ASSUME Init PROVE HoursAreRecent /\ GoneHaveLeft
      OBVIOUS
    <2>1. \A c \in Call : call[c] = Nothing
      BY DEF Init
    <2>2. Counted = {} /\ \A c \in Call : ~InFlight(c)
      BY <2>1 DEF Counted, InFlight, Nothing
    <2>3. \A p \in Process : snapshot[p] = entry
      BY DEF Init
    <2> QED BY <2>2, <2>3 DEF HoursAreRecent, GoneHaveLeft
  <1>2. ASSUME Strictness, [Next]_vars
        PROVE  HoursAreRecent' /\ GoneHaveLeft'
    <2> USE DEF Strictness, Exactness
    <2>1. KindSteps
      BY <1>2 DEF WellFormed
    <2> QED BY <1>2, <2>1, HoursAreRecentStep, GoneHaveLeftStep
  <1> QED BY <1>1, <1>2, ExactnessInit, ExactnessStep, PTL DEF Spec, Strictness

\* checkAndIncrementRolling never approves more in 24 hours than the limit, but
\* for the ticks by which calls are late: pruning, TTL, give-backs and changes of
\* the granularity notwithstanding.
THEOREM RollingLimitHolds == Spec => []RollingStrict
PROOF
  <1>1. Init => RollingStrict
    <2> SUFFICES ASSUME Init PROVE RollingStrict
      OBVIOUS
    <2>1. \A c \in Call : call[c] = Nothing
      BY DEF Init
    <2>2. Counted = {}
      BY <2>1 DEF Counted, Nothing
    <2>3. Sum({}) = [amount |-> 0, count |-> 0]
      BY TotalEmpty DEF Sum
    <2>4. Allowed(Sum({}))
      BY <2>3, EngineAssumption DEF Allowed
    <2> QED BY <2>2, <2>4 DEF RollingStrict
  <1>2. ASSUME Strictness, RollingStrict, [Next]_vars
        PROVE  RollingStrict'
    BY <1>2, RollingStrictStep DEF Strictness, Exactness
  <1> QED BY <1>1, <1>2, StrictnessInvariant, PTL DEF Spec

-----------------------------------------------------------------------------
(* The shards.                                                             *)

\* A shard that some factor covers is read by whoever has that factor.
LEMMA CoveredIsRead ==
    ASSUME NEW h \in Seq(Factor), NEW t \in Nat, Len(h) >= 1, h[1].effectiveAt = 0,
           NEW shard \in Nat, NEW s \in Nat, s <= t, Covers(h, shard, s)
    PROVE  shard < ReadFactor(h, t)
PROOF
  <1>1. PICK i \in DOMAIN h : shard < h[i].value /\ h[i].effectiveAt <= s
    BY DEF Covers
  <1>2. h[i] \in Factor
    BY <1>1
  <1>3. h[i].value \in Nat /\ h[i].effectiveAt \in Nat
    BY <1>2, EngineAssumption DEF Factor
  <1>4. i \in InForce(h, t)
    BY <1>1, <1>3 DEF InForce
  <1>5. ReadFactor(h, t) \in Nat /\ h[i].value <= ReadFactor(h, t)
    BY <1>4, FactorsOf
  <1> QED BY <1>1, <1>3, <1>5

\* A shard the stored registry covers, it covers until the history is dropped.
LEMMA CoversStays ==
    ASSUME TypeOK, [Next]_vars, ~dropped', NEW shard, NEW t, Covers(entry.history, shard, t)
    PROVE  Covers(entry'.history, shard, t)
PROOF
  <1>1. ASSUME NEW e \in Factor, entry'.history = Append(entry.history, e)
        PROVE  Covers(entry'.history, shard, t)
    <2>1. entry.history \in Seq(Factor)
      BY DEF TypeOK, WindowEntry, Factor
    <2>2. \A i \in DOMAIN entry.history : /\ i \in DOMAIN entry'.history
                                          /\ entry'.history[i] = entry.history[i]
      BY <1>1, <2>1
    <2> QED BY <2>2 DEF Covers
  <1> QED BY <1>1, EntryMoves

\* A write goes to a shard the stored registry covers, at the call's time.
LEMMA WriteIsCovered ==
    ASSUME TypeOK, WellFormed, kind # "rolling", ~dropped, NEW c \in Call, NEW i \in Nat, Writes(c, i)
    PROVE  Covers(entry.history, i, Now(c))
PROOF
  <1> DEFINE h == Window(c).history
  <1>1. InFlight(c) /\ i \in 0..(WriteFactor(h, Now(c)) - 1)
    BY DEF Writes
  <1>2. HasHad(h)
    BY <1>1 DEF WellFormed
  <1>3. h \in Seq(Factor) /\ Now(c) \in Nat
    BY CallTypes DEF WindowEntry, Factor
  <1> HIDE DEF h
  <1>4. Len(h) >= 1 /\ h[1].effectiveAt = 0 /\ DOMAIN h = 1..Len(h)
    BY <1>2, <1>3 DEF HasHad
  <1>5. PICK j \in InForce(h, Now(c)) : WriteFactor(h, Now(c)) = h[j].value
    BY <1>3, <1>4, FactorsOf
  <1>6. j \in DOMAIN h /\ h[j].effectiveAt <= Now(c) /\ h[j] \in Factor
    BY <1>3 DEF InForce
  <1>7. h[j] = entry.history[j] /\ j \in DOMAIN entry.history
    <2>1. entry.history \in Seq(Factor)
      BY DEF TypeOK, WindowEntry, Factor
    <2> QED BY <1>2, <1>4, <1>6, <2>1 DEF HasHad
  <1>8. h[j].value \in Nat
    BY <1>6, EngineAssumption DEF Factor
  <1>9. i < h[j].value
    BY <1>1, <1>5, <1>8
  <1> QED BY <1>6, <1>7, <1>9 DEF Covers

\* Factors are only appended, and a snapshot is at most Poll behind them: the
\* shard of an old record is known to all.
LEMMA ShardsKnownStep ==
    ASSUME TypeOK, WellFormed, InTime, ShardsKnown, [Next]_vars
    PROVE  ShardsKnown'
PROOF
  <1>1. /\ kind' = kind /\ Call' = Call /\ clock \in Nat /\ KindSteps
        /\ \A p \in Process : behind[p] \in Nat /\ behind[p] <= Poll
    BY Effects, Lengths DEF TypeOK, Call, WellFormed
  <1> SUFFICES ASSUME kind # "rolling", ~dropped'
               PROVE  /\ \A k \in DOMAIN docs' : Covers(entry'.history, k[2], clock')
                      /\ \A d \in Counted' :
                          /\ Covers(entry'.history, call'[d].key[2], call'[d].now)
                          /\ \A p \in Process : call'[d].at + behind'[p] < clock' =>
                              Covers(snapshot'[p].history, call'[d].key[2], call'[d].now)
                          /\ \A c \in Call : InFlight(c)' /\ call'[d].at + Poll < call'[c].now =>
                              Covers(call'[c].window.history, call'[d].key[2], call'[d].now)
    BY <1>1 DEF ShardsKnown, Covers, Now, Window
  <1>9. ~dropped
    BY DroppedStays
  <1>2. ASSUME NEW shard, NEW s \in Nat, NEW t \in Nat, s <= t, Covers(entry.history, shard, s)
        PROVE  Covers(entry.history, shard, t)
    <2>1. \A i \in DOMAIN entry.history : entry.history[i].effectiveAt \in Nat
      <3>1. entry.history \in Seq(Factor)
        BY DEF TypeOK, WindowEntry, Factor
      <3>2. \A i \in DOMAIN entry.history : entry.history[i] \in Factor
        BY <3>1
      <3> QED BY <3>2 DEF Factor
    <2> QED BY <1>2, <2>1 DEF Covers
  <1>3. ASSUME NEW k \in DOMAIN docs'
        PROVE  Covers(entry'.history, k[2], clock')
    <2>1. CASE k \in DOMAIN docs
      <3>1. Covers(entry.history, k[2], clock)
        BY <1>9, <2>1 DEF ShardsKnown
      <3>2. clock' \in Nat /\ clock <= clock'
        BY <1>1, TimeMoves
      <3> QED BY <1>1, <1>2, <3>1, <3>2, CoversStays
    <2>2. ASSUME NEW c \in Call, NEW i \in Nat, Writes(c, i), k \notin DOMAIN docs
          PROVE  Covers(entry'.history, k[2], clock')
      <3> SUFFICES ASSUME NEW key, key = <<Base(c), i>>, NEW label, label = Label(c)
                   PROVE  Covers(entry'.history, k[2], clock')
        OBVIOUS
      <3>0. Grows(c, key, label, Kept(c, key))
        BY <2>2, WriteBuckets
      <3>1. k = key /\ k[2] = i
        BY <1>3, <2>2, <3>0 DEF Grows
      <3>2. Covers(entry.history, i, Now(c))
        BY <1>9, <2>2, WriteIsCovered
      <3>3. Now(c) \in Nat /\ Now(c) <= clock /\ clock' = clock
        BY <2>2, CallTypes DEF Writes, Standing, InTime
      <3> QED BY <1>1, <1>2, <3>1, <3>2, <3>3, CoversStays
    <2>3. ASSUME NEW c \in Call, Prunes(c)
          PROVE  FALSE
      BY <2>3 DEF Prunes
    <2>4. ASSUME NEW c \in Call, GivesBack(c)
          PROVE  k \in DOMAIN docs
      BY <1>3, <2>4, GiveBackBuckets
    <2>5. ASSUME NEW j \in DOMAIN docs, Expires(j)
          PROVE  k \in DOMAIN docs
      BY <1>3, <2>5 DEF Expires, Restrict
    <2>6. CASE Quiet
      BY <1>3, <2>1, <2>6 DEF Quiet
    <2> QED BY <1>1, <2>1, <2>2, <2>3, <2>4, <2>5, <2>6, Effects
  <1>4. ASSUME NEW d \in Counted', d \in Counted, Stands(d)
        PROVE  /\ call'[d].at = call[d].at /\ call[d].at \in Nat /\ call'[d].now = Now(d)
               /\ call'[d].key[2] = call[d].key[2] /\ d \in Call
               /\ Covers(entry.history, call[d].key[2], Now(d))
               /\ \A p \in Process : call[d].at + behind[p] < clock =>
                    Covers(snapshot[p].history, call[d].key[2], Now(d))
               /\ \A c \in Call : InFlight(c) /\ call[d].at + Poll < Now(c) =>
                    Covers(Window(c).history, call[d].key[2], Now(d))
    BY <1>4, <1>9, CallTypes DEF Stands, Counted, Now, ShardsKnown
  <1>5. ASSUME NEW d \in Counted', ~(d \in Counted /\ Stands(d))
        PROVE  /\ Covers(entry.history, call'[d].key[2], call'[d].now)
               /\ call'[d].at = clock /\ clock' = clock /\ d \in Call /\ InFlight(d)
               /\ \E i \in Nat : Writes(d, i)
    <2>1. /\ d \in Call /\ InFlight(d) /\ Standing
          /\ call'[d].now = Now(d) /\ call'[d].at = clock
      BY <1>1, <1>5, CountedMoves
    <2>2. PICK i \in Nat : Writes(d, i) /\ call'[d].key = <<Base(d), i>>
      BY <1>1, <1>5, CountedMoves
    <2>3. Covers(entry.history, i, Now(d))
      BY <1>9, <2>1, <2>2, WriteIsCovered
    <2> QED BY <2>1, <2>2, <2>3 DEF Standing
  <1>6. ASSUME NEW d \in Counted'
        PROVE  Covers(entry'.history, call'[d].key[2], call'[d].now)
    BY <1>4, <1>5, CoversStays
  <1>7. ASSUME NEW d \in Counted', NEW p \in Process, call'[d].at + behind'[p] < clock'
        PROVE  Covers(snapshot'[p].history, call'[d].key[2], call'[d].now)
    <2>1. CASE snapshot'[p] = entry
      BY <1>4, <1>5, <2>1
    <2>2. CASE snapshot'[p] # entry
      <3>1. snapshot'[p] = snapshot[p] /\ snapshot[p] # entry
            /\ (clock' = clock => behind'[p] = behind[p])
        BY <2>2, SnapshotMoves
      <3>2. (clock' = clock /\ behind'[p] = behind[p])
            \/ (clock' = clock + 1 /\ behind'[p] = behind[p] + 1)
        BY <3>1, TimeMoves
      <3>3. CASE d \in Counted /\ Stands(d)
        BY <1>1, <1>4, <1>7, <3>1, <3>2, <3>3
      <3>4. CASE ~(d \in Counted /\ Stands(d))
        BY <1>1, <1>5, <1>7, <3>1, <3>4
      <3> QED BY <3>3, <3>4
    <2> QED BY <2>1, <2>2
  <1>8. ASSUME NEW d \in Counted', NEW c \in Call, InFlight(c)', call'[d].at + Poll < call'[c].now
        PROVE  Covers(call'[c].window.history, call'[d].key[2], call'[d].now)
    <2>1. CASE InFlight(c) /\ call'[c].now = call[c].now /\ call'[c].window = call[c].window
      <3>1. Now(c) \in Nat /\ Now(c) <= clock /\ call'[c].now = Now(c)
            /\ call'[c].window = Window(c)
        BY <2>1, CallTypes DEF InTime, Now, Window
      <3>2. CASE d \in Counted /\ Stands(d)
        BY <1>4, <1>8, <2>1, <3>1, <3>2
      <3>3. CASE ~(d \in Counted /\ Stands(d))
        BY <1>1, <1>5, <1>8, <3>1, <3>3, Lengths
      <3> QED BY <3>2, <3>3
    <2>2. CASE \E p \in Process : Enters(c, p)
      <3>1. PICK p \in Process : Enters(c, p)
        BY <2>2
      <3>2. d \in Counted /\ Stands(d) /\ call'[c].now \in Nat /\ call'[c].now <= clock
            /\ call'[c].window = snapshot[p]
        BY <3>1 DEF Enters, Quiet
      <3>3. call[d].at + behind[p] < clock
        BY <1>1, <1>4, <1>8, <3>2, Lengths
      <3> QED BY <1>4, <3>2, <3>3
    <2> QED BY <1>1, <1>8, <2>1, <2>2, Flights
  <1> QED BY <1>3, <1>6, <1>7, <1>8

\* That holds throughout.
LEMMA ShardsKnownInvariant == Spec => [](Strictness /\ ShardsKnown)
PROOF
  <1>1. Init => ShardsKnown
    <2> SUFFICES ASSUME Init PROVE ShardsKnown
      OBVIOUS
    <2>1. \A c \in Call : call[c] = Nothing
      BY DEF Init
    <2>2. Counted = {} /\ DOMAIN docs = {}
      BY <2>1 DEF Counted, Nothing, Init
    <2> QED BY <2>2 DEF ShardsKnown
  <1>2. ASSUME Strictness, ShardsKnown, [Next]_vars
        PROVE  ShardsKnown'
    BY <1>2, ShardsKnownStep DEF Strictness, Exactness
  <1> QED BY <1>1, <1>2, StrictnessInvariant, PTL DEF Spec

\* resolveShardFactorForRead covers every shard with a document, after increases
\* and decreases of the factor alike, as long as the history is not dropped.
THEOREM NoShardIsOrphaned == Spec => []ShardsCovered
PROOF
  <1>1. ASSUME Strictness, ShardsKnown
        PROVE  ShardsCovered
    <2> SUFFICES ASSUME kind # "rolling", ~dropped, NEW k \in DOMAIN docs
                 PROVE  k[2] < ReadFactor(entry.history, clock)
      BY DEF ShardsCovered
    <2>1. k[2] \in Nat /\ clock \in Nat /\ entry.history \in Seq(Factor)
      BY <1>1 DEF Strictness, Exactness, TypeOK, WindowEntry, Factor
    <2>2. HasHad(entry.history)
      BY <1>1 DEF Strictness, Exactness, WellFormed
    <2>3. Len(entry.history) >= 1 /\ entry.history[1].effectiveAt = 0
      BY <2>1, <2>2 DEF HasHad
    <2>4. Covers(entry.history, k[2], clock)
      BY <1>1 DEF ShardsKnown
    <2> QED BY <2>1, <2>3, <2>4, CoveredIsRead
  <1> QED BY <1>1, ShardsKnownInvariant, PTL DEF Spec

-----------------------------------------------------------------------------
(* The soft tiers.                                                         *)

\* What fits with some calls, or with a total that is no less, does with fewer.
LEMMA FitsFewer ==
    ASSUME NEW c \in Txn, NEW S \in SUBSET Txn, NEW total \in Money, Fits(total, c),
           Sum(S).amount <= total.amount, Sum(S).count <= total.count
    PROVE  Fits(Sum(S), c)
PROOF
  <1>1. Sum(S) \in Money /\ Amount[c] \in Nat
    BY Sums, AmountTypes
  <1>2. /\ Threshold.amount # Unlimited => Threshold.amount \in Nat
        /\ Threshold.count # Unlimited => Threshold.count \in Nat
    BY EngineAssumption
  <1> QED BY <1>1, <1>2 DEF Fits, Money

\* A direct read finds what was applied long enough before it was asked for:
\* the caller's shards cover it, and neither TTL nor horizon has taken it away.
LEMMA ReadsKnow ==
    ASSUME Strictness, ShardsKnown, ~dropped, NEW c \in Call, call[c].pc = "summing"
    PROVE  LET total == TotalOf(ReadKeys(c), Oldest(c))
               known == Sum(Known(call[c].asked, Base(c)))
           IN  total \in Money /\ known.amount <= total.amount /\ known.count <= total.count
PROOF
  <1> USE DEF Strictness, Exactness
  <1> DEFINE found == Found(ReadKeys(c), Oldest(c))
             F == {d \in Counted : <<call[d].key, call[d].label>> \in found}
             K == Known(call[c].asked, Base(c))
  <1>1. kind # "rolling" /\ InFlight(c) /\ Counted \in SUBSET Txn
    BY CallsAreRecords DEF WellFormed, KindSteps, InFlight, TypeOK
  <1>2. IsFiniteSet(ReadKeys(c))
    BY <1>1, ShardsRead
  <1>3. TotalOf(ReadKeys(c), Oldest(c)) = Sum(F)
    BY <1>2, TotalOfFound
  <1>4. ASSUME NEW d \in K
        PROVE  d \in F
    <2>1. /\ d \in Counted /\ d \in Call /\ call[d].at + Slow + Poll < call[c].asked
          /\ IF kind = "tier2" THEN call[d].key[1] = Base(c) ELSE CountsFrom(d) > clock - Horizon
      BY DEF Known, Counted
    <2>2. /\ call[d].at \in Nat /\ call[c].asked \in Nat /\ Now(d) \in Nat /\ Now(c) \in Nat
          /\ call[d].key \in Nat \X Nat /\ clock \in Nat /\ call[d].label \in Nat
      BY <2>1, CallTypes DEF TypeOK
    <2>3. /\ call[c].asked <= clock /\ Now(c) <= clock /\ clock <= Now(c) + Slow
          /\ Now(d) <= call[d].at
      BY <1>1, <2>1 DEF InTime
    <2>4. call[d].at + Poll < Now(c) /\ Now(d) <= Now(c)
      BY <2>1, <2>2, <2>3, Lengths
    <2>5. call[d].key[2] < ReadFactor(Window(c).history, Now(c))
      <3>1. Covers(Window(c).history, call[d].key[2], Now(d))
        BY <1>1, <2>1, <2>4 DEF ShardsKnown
      <3>2. Window(c).history \in Seq(Factor)
        BY CallTypes DEF WindowEntry, Factor
      <3>3. HasHad(Window(c).history)
        BY <1>1 DEF WellFormed
      <3>4. Len(Window(c).history) >= 1 /\ Window(c).history[1].effectiveAt = 0
        BY <3>2, <3>3 DEF HasHad
      <3>5. call[d].key[2] \in Nat
        BY <2>2
      <3> QED BY <2>2, <2>4, <3>1, <3>2, <3>4, <3>5, CoveredIsRead
    <2>6. call[d].key \in ReadKeys(c)
      <3>1. call[d].key[1] = Base(c)
        BY <2>1 DEF Labelled, Base
      <3>2. call[d].key = <<Base(c), call[d].key[2]>> /\ call[d].key[2] \in Nat
        BY <2>2, <3>1
      <3> QED BY <1>1, <2>5, <3>2, ShardsRead
    <2>7. ~Gone(d)
      <3>1. CASE kind = "tier2"
        <4>1. Now(c) < DayStart(Now(c)) + Day /\ DayStart(Now(c)) \in Int /\ Base(c) = DayStart(Now(c))
          BY <2>2, <3>1, Lengths, PeriodBegins DEF DayStart, Base
        <4>2. ~(Base(c) + Day + Slow < clock)
          BY <2>2, <2>3, <4>1, Lengths
        <4> QED BY <2>1, <3>1, <4>2 DEF GoneAreOld
      <3>2. CASE kind # "tier2"
        <4>1. CountsFrom(d) \in Int
          BY <2>2 DEF CountsFrom
        <4>2. ~(CountsFrom(d) <= clock - Horizon)
          BY <2>1, <2>2, <3>2, <4>1, Lengths
        <4> QED BY <2>1, <3>2, <4>2 DEF GoneHaveLeft
      <3> QED BY <3>1, <3>2
    <2>8. kind = "tier2" \/ call[d].label >= Oldest(c)
      <3> SUFFICES ASSUME kind # "tier2"
                   PROVE  call[d].label >= Oldest(c)
        OBVIOUS
      <3>1. CountsFrom(d) \in Int
        BY <2>2 DEF CountsFrom
      <3>2. CountsFrom(d) > Now(c) - Horizon
        BY <2>1, <2>2, <2>3, <3>1, Lengths
      <3> QED BY <1>1, <2>1, <3>2, YoungIsKept
    <2> QED BY <2>1, <2>6, <2>7, <2>8 DEF Found, Gone
  <1>5. K \in SUBSET F /\ F \in SUBSET Txn
    BY <1>1, <1>4
  <1> HIDE DEF F, K
  <1>6. Sum(F) \in Money /\ Sum(K).amount <= Sum(F).amount /\ Sum(K).count <= Sum(F).count
    BY <1>5, Sums
  <1> QED BY <1>3, <1>6 DEF K

\* A cached total was there before, or has just been read.
LEMMA CacheMoves ==
    ASSUME TypeOK, [Next]_vars, NEW p \in Process, NEW b \in DOMAIN cache'[p]
    PROVE  \/ b \in DOMAIN cache[p] /\ cache'[p][b] = cache[p][b]
           \/ \E c \in Call :
                /\ SumShards(c) /\ b = Base(c)
                /\ cache'[p][b] = [total |-> TotalOf(ReadKeys(c), Oldest(c)),
                                   refreshedAt |-> call[c].asked]
PROOF
  <1>1. DOMAIN cache = Process
    BY DEF TypeOK
  <1>2. CASE Tick
    <2>1. cache' = [q \in Process |->
                    Restrict(cache[q], {a \in DOMAIN cache[q] : Young(cache[q][a], clock + 1)})]
      BY <1>2 DEF Tick
    <2> QED BY <2>1 DEF Restrict
  <1>3. ASSUME NEW c \in Call, SumShards(c)
        PROVE  \/ b \in DOMAIN cache[p] /\ cache'[p][b] = cache[p][b]
               \/ /\ b = Base(c)
                  /\ cache'[p][b] = [total |-> TotalOf(ReadKeys(c), Oldest(c)),
                                     refreshedAt |-> call[c].asked]
    <2> DEFINE new == [total |-> TotalOf(ReadKeys(c), Oldest(c)), refreshedAt |-> call[c].asked]
               q == call[c].home
    <2>1. cache' = [cache EXCEPT ![q] = Put(@, Base(c), new)]
      BY <1>3 DEF SumShards
    <2> HIDE DEF new, q
    <2>2. CASE p = q
      <3>1. cache'[p] = Put(cache[p], Base(c), new)
        BY <1>1, <2>1, <2>2
      <3> QED BY <3>1 DEF Put, new
    <2>3. CASE p # q
      BY <1>1, <2>1, <2>3
    <2> QED BY <2>2, <2>3
  <1>4. CASE ~Tick /\ ~(\E c \in Call : SumShards(c))
    <2>1. cache' = cache
      BY <1>4 DEF Next, vars, CallStep, Enter, RollingUpdate, CachedTotal, AskForTotal,
           IncrementShard, GiveBack, ChangeWindow, Install, Expire
    <2> QED BY <2>1
  <1> QED BY <1>2, <1>3, <1>4

\* A call that has passed had before, or was just decided on some total.
Decides(c, total, t) ==
    /\ InFlight(c) /\ Fits(total, c) /\ Quiet /\ Standing
    /\ call'[c].asked = t /\ call'[c].now = call[c].now

\* How a call comes to have passed: by a cached total or by one just read.
LEMMA PassedMoves ==
    ASSUME TypeOK, [Next]_vars, NEW c \in Call, call'[c].pc = "passed"
    PROVE  \/ call'[c] = call[c]
           \/ /\ Fresh(call[c].home, Base(c))
              /\ Decides(c, cache[call[c].home][Base(c)].total, clock)
           \/ /\ call[c].pc = "summing"
              /\ Decides(c, TotalOf(ReadKeys(c), Oldest(c)), call[c].asked)
PROOF
  <1>1. call \in [Call -> CallState] /\ clock \in Nat
    BY DEF TypeOK
  <1>2. ASSUME NEW d \in Call, CallStep(d), d # c
        PROVE  call'[c] = call[c]
    BY <1>1, <1>2 DEF CallStep, Enter, RollingUpdate, CachedTotal, AskForTotal, SumShards,
           IncrementShard, GiveBack, Decide, End, Record, Goto
  <1>3. ASSUME NEW total, NEW t \in Nat, Decide(c, total, t), InFlight(c),
               UNCHANGED <<docs>>, Standing
        PROVE  Decides(c, total, t)
    <2>1. Fits(total, c)
      BY <1>1, <1>3 DEF Decide, End, Nothing
    <2>2. call'[c].asked = t /\ call'[c].now = call[c].now
      BY <1>1, <1>3, <2>1 DEF Decide, CallState
    <2>3. c \in Call \ Counted /\ UNCHANGED <<kind, docs>>
      BY <1>3 DEF InFlight, Counted, Standing
    <2>4. Quiet
      BY <1>3, <2>3, EndsQuietly
    <2> QED BY <1>3, <2>1, <2>2, <2>4 DEF Decides
  <1>4. CASE CachedTotal(c)
    <2>1. /\ Fresh(call[c].home, Base(c)) /\ InFlight(c) /\ docs' = docs /\ Standing
          /\ Decide(c, cache[call[c].home][Base(c)].total, clock)
      BY <1>4 DEF CachedTotal, InFlight, Standing
    <2> QED BY <1>1, <1>3, <2>1
  <1>5. CASE SumShards(c)
    <2>1. /\ call[c].pc = "summing" /\ InFlight(c) /\ docs' = docs /\ Standing
          /\ Decide(c, TotalOf(ReadKeys(c), Oldest(c)), call[c].asked)
      BY <1>5 DEF SumShards, InFlight, Standing
    <2>2. call[c].asked \in Nat
      BY CallTypes
    <2> QED BY <1>3, <2>1, <2>2
  <1>6. CASE Enter(c)
    BY <1>1, <1>6 DEF Enter, CallState
  <1>7. CASE RollingUpdate(c)
    BY <1>1, <1>7 DEF RollingUpdate, Record, Nothing
  <1>8. CASE IncrementShard(c)
    BY <1>1, <1>8 DEF IncrementShard, Record, Nothing
  <1>9. CASE GiveBack(c)
    BY <1>9, GiveBackEnds
  <1>10. CASE AskForTotal(c)
    BY <1>1, <1>10 DEF AskForTotal, CallState
  <1>11. (\E d \in Call : CallStep(d)) \/ call' = call
    BY DEF Next, vars, ChangeWindow, Install, Expire, Tick
  <1> QED BY <1>2, <1>4, <1>5, <1>6, <1>7, <1>8, <1>9, <1>10, <1>11 DEF CallStep

\* What has to be known at a time passed does not grow with a step.
LEMMA KnownShrinks ==
    ASSUME TypeOK, KindSteps, InTime, Labelled, [Next]_vars, NEW t \in Nat, t <= clock, NEW b
    PROVE  Known(t, b)' \in SUBSET Known(t, b)
PROOF
  <1> SUFFICES ASSUME NEW d \in Known(t, b)'
               PROVE  d \in Known(t, b)
    OBVIOUS
  <1>1. kind' = kind /\ clock \in Nat /\ clock' \in Nat /\ clock <= clock'
    BY Effects, TimeMoves DEF TypeOK
  <1>2. /\ d \in Counted' /\ call'[d].at + Slow + Poll < t
        /\ IF kind = "tier2" THEN call'[d].key[1] = b ELSE CountsFrom(d)' > clock' - Horizon
    BY <1>1 DEF Known
  <1>3. CASE d \in Counted /\ Stands(d)
    <2>1. CASE kind = "tier2"
      BY <1>2, <1>3, <2>1 DEF Known, Stands
    <2>2. CASE kind # "tier2"
      <3>1. CountsFrom(d) \in Int /\ CountsFrom(d)' \in Int /\ CountsFrom(d)' <= CountsFrom(d)
        BY <1>3, <2>2, CountsFromMoves
      <3>2. CountsFrom(d) > clock - Horizon
        BY <1>1, <1>2, <2>2, <3>1, Lengths
      <3> QED BY <1>2, <1>3, <2>2, <3>2 DEF Known, Stands
    <2> QED BY <2>1, <2>2
  <1>4. CASE ~(d \in Counted /\ Stands(d))
    <2>1. call'[d].at = clock
      BY <1>2, <1>4, CountedMoves
    <2> QED BY <1>1, <1>2, <2>1, Lengths
  <1> QED BY <1>3, <1>4

\* What a decision must know of is among what was known at a time that is less
\* than Refresh before it.
LEMMA SettledIsKnown ==
    ASSUME TypeOK, KindSteps, InTime, Labelled, [Next]_vars, NEW c \in Call,
           call'[c].now = call[c].now, call'[c].asked \in Nat,
           NEW t \in Nat, t <= clock, call'[c].asked < t + Refresh, NEW b, b = Base(c)
    PROVE  Settled(c)' \in SUBSET Known(t, b)
PROOF
  <1>1. kind' = kind /\ Base(c)' = b
    BY Effects DEF Base, Now
  <1>2. ASSUME NEW d \in Settled(c)'
        PROVE  d \in Known(t, b)'
    <2>1. /\ d \in Counted' /\ call'[d].at + Refresh + Slow + Poll <= call'[c].asked
          /\ IF kind = "tier2" THEN call'[d].key[1] = b ELSE CountsFrom(d)' > clock' - Horizon
      BY <1>1 DEF Settled
    <2>2. call'[d].at \in Nat
      <3>1. call' \in [Call -> CallState] /\ Call' = Call
        BY <1>1, CallsKeepType DEF Call
      <3>2. d \in Call
        BY <2>1, <3>1 DEF Counted
      <3> QED BY <3>1, <3>2 DEF CallState
    <2>3. call'[d].at + Slow + Poll < t
      BY <2>1, <2>2, Lengths
    <2> QED BY <1>1, <2>1, <2>3 DEF Known
  <1>3. Known(t, b)' \in SUBSET Known(t, b)
    BY KnownShrinks
  <1> QED BY <1>2, <1>3

\* Cached totals and decisions know no less than before, and what has to be
\* known does not grow.
LEMMA TotalsKnowStep ==
    ASSUME Strictness, ShardsKnown, TotalsKnow, [Next]_vars
    PROVE  TotalsKnow'
PROOF
  <1> USE DEF Strictness, Exactness
  <1>1. /\ kind' = kind /\ Call' = Call /\ KindSteps /\ clock \in Nat
        /\ Counted \in SUBSET Txn /\ Counted' \in SUBSET Txn
    <2>1. kind' = kind /\ kind' \in Kind /\ KindSteps /\ clock \in Nat
      BY Effects DEF WellFormed, TypeOK
    <2>2. Call' = Call /\ Call \in SUBSET Txn
      BY <2>1, CallsAreRecords DEF Call
    <2> QED BY <2>1, <2>2 DEF Counted
  <1> SUFFICES ASSUME kind # "rolling", ~dropped'
               PROVE  /\ \A c \in Call : InFlight(c)' => call'[c].home \in Process
                      /\ \A p \in Process : \A b \in DOMAIN cache'[p] :
                          /\ cache'[p][b].refreshedAt <= clock'
                          /\ Sum(Known(cache[p][b].refreshedAt, b))'.amount <= cache'[p][b].total.amount
                          /\ Sum(Known(cache[p][b].refreshedAt, b))'.count <= cache'[p][b].total.count
                      /\ \A c \in Call : call'[c].pc = "passed" => Fits(Sum(Settled(c)), c)'
    BY <1>1 DEF TotalsKnow
  <1>6. ~dropped
    BY DroppedStays
  <1>2. ASSUME NEW c \in Call, InFlight(c)'
        PROVE  call'[c].home \in Process
    BY <1>1, <1>2, <1>6, Flights DEF Enters, TotalsKnow
  <1>3. ASSUME NEW p \in Process, NEW b \in DOMAIN cache'[p], NEW t, NEW total,
               t = cache'[p][b].refreshedAt, total = cache'[p][b].total
        PROVE  /\ t <= clock'
               /\ Sum(Known(t, b))'.amount <= total.amount /\ Sum(Known(t, b))'.count <= total.count
    <2>1. /\ t \in Nat /\ t <= clock /\ total \in Money
          /\ Sum(Known(t, b)).amount <= total.amount /\ Sum(Known(t, b)).count <= total.count
      <3>1. CASE b \in DOMAIN cache[p] /\ cache'[p][b] = cache[p][b]
        BY <1>3, <1>6, <3>1 DEF TotalsKnow, TypeOK
      <3>2. CASE \E c \in Call :
                    /\ SumShards(c) /\ b = Base(c)
                    /\ cache'[p][b] = [total |-> TotalOf(ReadKeys(c), Oldest(c)),
                                       refreshedAt |-> call[c].asked]
        <4>1. PICK c \in Call :
                    /\ SumShards(c) /\ b = Base(c)
                    /\ cache'[p][b] = [total |-> TotalOf(ReadKeys(c), Oldest(c)),
                                       refreshedAt |-> call[c].asked]
          BY <3>2
        <4>2. t = call[c].asked /\ total = TotalOf(ReadKeys(c), Oldest(c))
          BY <1>3, <4>1
        <4>3. call[c].pc = "summing" /\ call[c].asked \in Nat /\ call[c].asked <= clock
          BY <4>1, CallTypes DEF SumShards, InTime
        <4> QED BY <1>6, <4>1, <4>2, <4>3, ReadsKnow
      <3> QED BY <3>1, <3>2, CacheMoves
    <2>2. clock <= clock' /\ clock' \in Nat
      BY <1>1, TimeMoves
    <2>3. Known(t, b)' \in SUBSET Known(t, b) /\ Known(t, b) \in SUBSET Txn
      <3>1. Known(t, b)' \in SUBSET Known(t, b)
        BY <1>1, <2>1, KnownShrinks
      <3> QED BY <1>1, <3>1 DEF Known
    <2> SUFFICES ASSUME NEW S, S = Known(t, b)'
                 PROVE  t <= clock' /\ Sum(S).amount <= total.amount /\ Sum(S).count <= total.count
      BY DEF Sum
    <2>4. /\ Sum(Known(t, b)) \in Money /\ Sum(S) \in Money
          /\ Sum(S).amount <= Sum(Known(t, b)).amount /\ Sum(S).count <= Sum(Known(t, b)).count
      BY <2>3, Sums
    <2> QED BY <1>1, <2>1, <2>2, <2>4 DEF Money
  <1>4. ASSUME NEW c \in Call, call'[c].pc = "passed"
        PROVE  Fits(Sum(Settled(c)), c)'
    <2>1. c \in Txn
      BY CallTypes
    <2>2. Settled(c)' \in SUBSET Txn
      BY <1>1 DEF Settled
    <2> SUFFICES ASSUME NEW S, S = Settled(c)'
                 PROVE  Fits(Sum(S), c)
      BY DEF Fits, Sum
    <2>3. ASSUME NEW T \in SUBSET Txn, S \in SUBSET T, NEW total \in Money, Fits(total, c),
                 Sum(T).amount <= total.amount, Sum(T).count <= total.count
          PROVE  Fits(Sum(S), c)
      <3>1. /\ Sum(T) \in Money /\ Sum(S) \in Money
            /\ Sum(S).amount <= Sum(T).amount /\ Sum(S).count <= Sum(T).count
        BY <2>3, Sums
      <3>2. Sum(S).amount <= total.amount /\ Sum(S).count <= total.count
        BY <2>3, <3>1 DEF Money
      <3> QED BY <2>1, <2>2, <2>3, <3>2, FitsFewer
    <2>4. \A t, b : Known(t, b) \in SUBSET Txn
      BY <1>1 DEF Known
    <2>5. CASE call'[c] = call[c]
      <3>1. call[c].pc = "passed"
        BY <1>4, <2>5
      <3>2. Fits(Sum(Settled(c)), c) /\ Settled(c) \in SUBSET Txn
        BY <1>1, <1>6, <3>1 DEF TotalsKnow, Settled
      <3>3. S \in SUBSET Settled(c)
        <4>1. ASSUME NEW d \in S
              PROVE  d \in Settled(c)
          <5>1. /\ d \in Counted' /\ call'[d].at + Refresh + Slow + Poll <= call[c].asked
                /\ IF kind = "tier2" THEN call'[d].key[1] = Base(c) ELSE CountsFrom(d)' > clock' - Horizon
            BY <1>1, <2>5, <4>1 DEF Settled, Base, Now
          <5>2. call[c].asked \in Nat /\ call[c].asked <= clock
            BY CallTypes DEF InTime
          <5>3. d \in Counted /\ Stands(d)
            <6>1. call'[d].at # clock
              BY <1>1, <5>1, <5>2, Lengths
            <6> QED BY <1>1, <5>1, <6>1, CountedMoves
          <5>4. CASE kind = "tier2"
            BY <5>1, <5>3, <5>4 DEF Settled, Stands
          <5>5. CASE kind # "tier2"
            <6>1. CountsFrom(d) \in Int /\ CountsFrom(d)' \in Int /\ CountsFrom(d)' <= CountsFrom(d)
              BY <1>1, <5>3, <5>5, CountsFromMoves
            <6>2. clock' \in Nat /\ clock <= clock'
              BY <1>1, TimeMoves
            <6>3. CountsFrom(d) > clock - Horizon
              BY <1>1, <5>1, <5>5, <6>1, <6>2, Lengths
            <6> QED BY <5>1, <5>3, <5>5, <6>3 DEF Settled, Stands
          <5> QED BY <5>4, <5>5
        <4> QED BY <4>1
      <3>4. Sum(Settled(c)) \in Money
        BY <3>2, Sums
      <3>5. Sum(Settled(c)).amount <= Sum(Settled(c)).amount
            /\ Sum(Settled(c)).count <= Sum(Settled(c)).count
        BY <3>4 DEF Money
      <3> QED BY <2>3, <3>2, <3>3, <3>4, <3>5
    <2>6. CASE /\ Fresh(call[c].home, Base(c))
               /\ Decides(c, cache[call[c].home][Base(c)].total, clock)
      <3> SUFFICES ASSUME NEW p, p = call[c].home, NEW b, b = Base(c)
                   PROVE  Fits(Sum(S), c)
        OBVIOUS
      <3>1. p \in Process /\ b \in DOMAIN cache[p]
        BY <1>1, <1>6, <2>6 DEF Decides, TotalsKnow, Fresh
      <3> DEFINE t == cache[p][b].refreshedAt  total == cache[p][b].total
      <3>2. /\ t \in Nat /\ t <= clock /\ total \in Money
            /\ Sum(Known(t, b)).amount <= total.amount /\ Sum(Known(t, b)).count <= total.count
        BY <1>6, <3>1 DEF TotalsKnow, TypeOK
      <3>3. /\ clock - t < Refresh /\ Fits(total, c) /\ call'[c].asked = clock
            /\ call'[c].now = call[c].now
        BY <2>6 DEF Decides, Fresh, Young
      <3> HIDE DEF t, total
      <3>4. call'[c].asked \in Nat /\ call'[c].asked < t + Refresh
        BY <1>1, <3>2, <3>3, Lengths
      <3>5. S \in SUBSET Known(t, b)
        BY <1>1, <3>2, <3>3, <3>4, SettledIsKnown
      <3> QED BY <2>3, <2>4, <3>2, <3>3, <3>5
    <2>7. CASE /\ call[c].pc = "summing"
               /\ Decides(c, TotalOf(ReadKeys(c), Oldest(c)), call[c].asked)
      <3> DEFINE t == call[c].asked  total == TotalOf(ReadKeys(c), Oldest(c))
      <3> SUFFICES ASSUME NEW b, b = Base(c)
                   PROVE  Fits(Sum(S), c)
        OBVIOUS
      <3>1. /\ total \in Money
            /\ Sum(Known(t, b)).amount <= total.amount /\ Sum(Known(t, b)).count <= total.count
        BY <1>6, <2>7, ReadsKnow
      <3>2. /\ Fits(total, c) /\ call'[c].asked = t /\ call'[c].now = call[c].now
            /\ t \in Nat /\ t <= clock
        BY <2>7, CallTypes DEF Decides, InTime
      <3> HIDE DEF t, total
      <3>3. call'[c].asked \in Nat /\ call'[c].asked < t + Refresh
        BY <3>2, Lengths
      <3>4. S \in SUBSET Known(t, b)
        BY <1>1, <3>2, <3>3, SettledIsKnown
      <3> QED BY <2>3, <2>4, <3>1, <3>2, <3>4
    <2> QED BY <1>4, <2>5, <2>6, <2>7, PassedMoves
  <1>5. ASSUME NEW p \in Process, NEW b \in DOMAIN cache'[p]
        PROVE  /\ cache'[p][b].refreshedAt <= clock'
               /\ Sum(Known(cache[p][b].refreshedAt, b))'.amount <= cache'[p][b].total.amount
               /\ Sum(Known(cache[p][b].refreshedAt, b))'.count <= cache'[p][b].total.count
    BY <1>3 DEF Known, Sum
  <1> QED BY <1>2, <1>4, <1>5

\* The overshoot of the soft tiers is bounded in time: an increment fits with all
\* that was applied more than Refresh, Slow and Poll before it was decided.
THEOREM OvershootBounded == Spec => OvershootIsBounded
PROOF
  <1>1. Init => TotalsKnow
    <2> SUFFICES ASSUME Init PROVE TotalsKnow
      OBVIOUS
    <2>1. \A c \in Call : call[c] = Nothing
      BY DEF Init
    <2>2. \A c \in Call : ~InFlight(c) /\ call[c].pc # "passed"
      BY <2>1 DEF InFlight, Nothing
    <2>3. \A p \in Process : DOMAIN cache[p] = {}
      BY DEF Init
    <2> QED BY <2>2, <2>3 DEF TotalsKnow
  <1>2. Strictness /\ ShardsKnown /\ TotalsKnow /\ [Next]_vars => TotalsKnow'
    BY TotalsKnowStep
  <1>3. Strictness /\ TotalsKnow
          => [\A c \in Call :
                 /\ ~dropped
                 /\ call[c].pc = "passed" /\ call'[c].pc = "applied"
                 => Fits(Sum(Settled(c)), c)]_vars
    <2> SUFFICES ASSUME Strictness, TotalsKnow, ~dropped, NEW c \in Call, call[c].pc = "passed"
                 PROVE  Fits(Sum(Settled(c)), c)
      OBVIOUS
    <2>1. kind # "rolling"
      BY DEF Strictness, Exactness, WellFormed, KindSteps
    <2> QED BY <2>1 DEF TotalsKnow
  <1> QED BY <1>1, <1>2, <1>3, ShardsKnownInvariant, PTL DEF Spec, OvershootIsBounded
=============================================================================
