------------------------- MODULE EnforcementProofs -------------------------
(***************************************************************************)
(* Proofs about Enforcement, for every dimension, every list of limit      *)
(* definitions, all customers and periods of every length.                 *)
(***************************************************************************)
EXTENDS Enforcement, SequenceTheorems, FiniteSetTheorems, WellFoundedInduction, TLAPS

\* The first of some positions is one of them, and no other is before it.
LEMMA FirstIsLeast ==
    ASSUME NEW I \in SUBSET Nat, I # {}
    PROVE  First(I) \in I /\ \A i \in I : First(I) <= i
PROOF
  <1> DEFINE less == {ss \in Nat \X Nat : ss[1] < ss[2]}
  <1>1. IsWellFoundedOn(less, Nat)
    BY NatLessThanWellFounded DEF OpToRel
  <1>2. \E i \in I : \A j \in I : <<j, i>> \notin less
    <2> HIDE DEF less
    <2> QED BY <1>1, WFMin
  <1>3. \A i, j \in Nat : <<j, i>> \notin less => i <= j
    OBVIOUS
  <1>4. \E i \in I : \A j \in I : i <= j
    <2> HIDE DEF less
    <2> QED BY <1>2, <1>3
  <1> QED BY <1>4 DEF First

\* The position that applies is one whose definition is in force and fits.
LEMMA ApplicableFits ==
    ASSUME TypeOK, NEW w, NEW c \in Customer
    PROVE  /\ Applicable(w, c) = 0 <=> Scoped(w, c) = {} /\ Unscoped(w) = {}
           /\ Applicable(w, c) # 0 =>
                /\ Applicable(w, c) \in Candidates(w)
                /\ Scoped(w, c) # {} => /\ Applicable(w, c) \in Scoped(w, c)
                                        /\ \A i \in Scoped(w, c) : Applicable(w, c) <= i
                /\ Scoped(w, c) = {} => /\ Applicable(w, c) \in Unscoped(w)
                                        /\ \A i \in Unscoped(w) : Applicable(w, c) <= i
PROOF
  <1>1. Len(definitions) \in Nat
    BY DEF TypeOK
  <1>2. /\ Candidates(w) \in SUBSET (Nat \ {0})
        /\ Scoped(w, c) \in SUBSET Candidates(w) /\ Unscoped(w) \in SUBSET Candidates(w)
    BY <1>1 DEF Candidates, Scoped, Unscoped
  <1>3. CASE Scoped(w, c) # {}
    <2>1. Applicable(w, c) = First(Scoped(w, c))
      BY <1>3 DEF Applicable
    <2> QED BY <1>2, <1>3, <2>1, FirstIsLeast
  <1>4. CASE Scoped(w, c) = {} /\ Unscoped(w) # {}
    <2>1. Applicable(w, c) = First(Unscoped(w))
      BY <1>4 DEF Applicable
    <2> QED BY <1>2, <1>4, <2>1, FirstIsLeast
  <1>5. CASE Scoped(w, c) = {} /\ Unscoped(w) = {}
    BY <1>5 DEF Applicable
  <1> QED BY <1>3, <1>4, <1>5
-----------------------------------------------------------------------------
(* Types.                                                                  *)

\* A period begins at or before each of its moments, and the next one after.
LEMMA PeriodArithmetic ==
    ASSUME NEW p \in Nat \ {0}, NEW t \in Nat, NEW n \in Nat
    PROVE  /\ StartOf(p, t) \in Nat /\ StartOf(p, t) <= t /\ t < StartOf(p, t) + p
           /\ StartOf(p, t) + p <= n => StartOf(p, t) + p <= StartOf(p, n)
PROOF
  <1> DEFINE k == t \div p  q == n \div p
  <1>1. /\ k \in Nat /\ p * k <= t /\ t < p * k + p
        /\ q \in Nat /\ p * q <= n /\ n < p * q + p
    <2>1. \A x \in Nat : x \div p \in Nat /\ x % p \in 0..(p - 1) /\ x = p * (x \div p) + (x % p)
      OBVIOUS
    <2>2. k \in Nat /\ t % p \in 0..(p - 1) /\ t = p * k + (t % p)
      BY <2>1
    <2>3. q \in Nat /\ n % p \in 0..(p - 1) /\ n = p * q + (n % p)
      BY <2>1
    <2> HIDE DEF k, q
    <2>4. p * k \in Nat /\ p * q \in Nat
      BY <2>2, <2>3
    <2> QED BY <2>2, <2>3, <2>4
  <1>2. StartOf(p, t) = p * k /\ StartOf(p, n) = p * q
    <2>1. k * p = p * k /\ q * p = p * q
      <3> HIDE DEF k, q
      <3> QED BY <1>1
    <2> QED BY <2>1 DEF StartOf
  <1> HIDE DEF k, q
  <1>3. ASSUME p * k + p <= n PROVE p * k + p <= p * q
    <2>1. q >= k + 1
      <3> SUFFICES ASSUME q <= k PROVE FALSE
        BY <1>1
      <3>1. p * q <= p * k
        BY <1>1
      <3>2. p * q \in Nat /\ p * k \in Nat
        BY <1>1
      <3> QED BY <1>1, <1>3, <3>1, <3>2
    <2>2. p * (k + 1) <= p * q
      BY <1>1, <2>1
    <2>3. p * (k + 1) = p * k + p
      BY <1>1
    <2> QED BY <2>2, <2>3
  <1>4. p * k \in Nat
    BY <1>1
  <1> QED BY <1>1, <1>2, <1>3, <1>4

\* An update leaves a definition.
LEMMA UpdateType ==
    ASSUME NEW d \in Definition, NEW change \in Change
    PROVE  [f \in DOMAIN d |-> IF f \in DOMAIN change THEN change[f] ELSE d[f]] \in Definition
PROOF
  <1> DEFINE e == [f \in DOMAIN d |-> IF f \in DOMAIN change THEN change[f] ELSE d[f]]
  <1>1. DOMAIN d = {"window", "scope", "limit", "active", "from", "to"}
    BY DEF Definition
  <1>2. \A f \in DOMAIN change : f \in DOMAIN Changeable /\ change[f] \in Changeable[f]
    BY EnforcementAssumption
  <1>3. /\ DOMAIN Changeable = {"limit", "active", "from", "to"}
        /\ Changeable["limit"] = Limit /\ Changeable["active"] = BOOLEAN
        /\ Changeable["from"] = Nat /\ Changeable["to"] = Nat \cup {Never}
    BY DEF Changeable
  <1>4. /\ d["window"] \in WindowType \cup {"PER_TXN"} /\ d["scope"] \in Scope
        /\ d["limit"] \in Limit /\ d["active"] \in BOOLEAN
        /\ d["from"] \in Nat /\ d["to"] \in Nat \cup {Never}
    BY DEF Definition
  <1>5. /\ e["window"] \in WindowType \cup {"PER_TXN"} /\ e["scope"] \in Scope
        /\ e["limit"] \in Limit /\ e["active"] \in BOOLEAN
        /\ e["from"] \in Nat /\ e["to"] \in Nat \cup {Never}
    BY <1>1, <1>2, <1>3, <1>4
  <1>6. e = [window |-> e["window"], scope |-> e["scope"], limit |-> e["limit"],
             active |-> e["active"], from |-> e["from"], to |-> e["to"]]
    BY <1>1
  <1> SUFFICES e \in Definition
    OBVIOUS
  <1> HIDE DEF e
  <1> QED BY <1>5, <1>6 DEF Definition

\* Every step keeps the types of what it counts since when.
LEMMA TrackType ==
    ASSUME TypeOK, Track, now' \in Time
    PROVE  covered' \in [WindowType -> [Customer -> Time \cup {Never}]]
PROOF
  <1>1. \A w \in WindowType, c \in Customer : covered[w][c] \in Time \cup {Never}
    BY DEF TypeOK
  <1> QED BY <1>1 DEF Track

\* A declared window keeps its entry, a new one gets an entry of the right type.
LEMMA TimingType ==
    ASSUME TypeOK, NEW w \in WindowType, NEW warming
    PROVE  Timing(w, warming) \in WindowEntry
PROOF
  <1>1. now \in Nat /\ windows[w] \in WindowEntry \cup {Undeclared}
    BY EnforcementAssumption DEF TypeOK, Time
  <1>2. Period(w) \in Nat \ {0}
    BY EnforcementAssumption DEF Period
  <1>3. NextBoundary(w, now) \in Nat
    <2>1. StartOf(Period(w), now) \in Nat
      BY <1>1, <1>2, PeriodArithmetic
    <2> QED BY <1>2, <2>1 DEF NextBoundary
  <1> QED BY <1>1, <1>3 DEF Timing, Declared, WindowEntry

\* The initial state has its types.
LEMMA InitTypes == Init => TypeOK /\ IsFiniteSet(records)
PROOF
  <1> SUFFICES ASSUME Init PROVE TypeOK /\ IsFiniteSet(records)
    OBVIOUS
  <1>1. shape \in Shape
    BY EnforcementAssumption DEF Init
  <1>2. <<>> \in Seq(Definition)
    OBVIOUS
  <1>3. hot \in BOOLEAN
    BY DEF Init
  <1>4. /\ now = 0 /\ windows = [w \in WindowType |-> Undeclared]
        /\ definitions = <<>> /\ records = {} /\ edits = 0
        /\ covered = [w \in WindowType |-> [c \in Customer |-> Never]]
    BY DEF Init
  <1> QED BY <1>1, <1>2, <1>3, <1>4, EnforcementAssumption, FS_EmptySet DEF TypeOK, Time

\* Every step keeps the types.
LEMMA StepType ==
    ASSUME TypeOK, IsFiniteSet(records), [Next]_vars
    PROVE  TypeOK' /\ IsFiniteSet(records)'
PROOF
  <1>0. now \in Nat /\ MaxTime \in Nat /\ MaxEdits \in Nat /\ MaxRecords \in Nat
    BY EnforcementAssumption DEF TypeOK, Time
  <1>1. CASE UNCHANGED vars
    BY <1>1 DEF TypeOK, vars
  <1>e. ASSUME Edit
        PROVE  /\ UNCHANGED <<now, records>> /\ edits' \in 0..MaxEdits
               /\ covered' \in [WindowType -> [Customer -> Time \cup {Never}]]
    <2>1. now' \in Time
      BY <1>e DEF Edit, TypeOK
    <2>2. edits \in Nat
      BY DEF TypeOK
    <2> QED BY <1>e, <1>0, <2>1, <2>2, TrackType DEF Edit, TypeOK
  <1>2. ASSUME NEW p \in Policy, Replace(p) PROVE TypeOK' /\ IsFiniteSet(records)'
    <2>1. p.shape \in Shape /\ p.hot \in BOOLEAN
      BY EnforcementAssumption
    <2>2. windows' \in [WindowType -> WindowEntry \cup {Undeclared}]
      BY <1>2, TimingType DEF Replace
    <2> QED BY <1>e, <1>2, <2>1, <2>2 DEF Replace, TypeOK
  <1>3. ASSUME NEW p \in Payload, Create(p) PROVE TypeOK' /\ IsFiniteSet(records)'
    <2> DEFINE d == [window |-> p.window, scope |-> p.scope, limit |-> p.limit,
                     active |-> p.active, from |-> now + p.delay,
                     to |-> IF p.lasts = Never THEN Never ELSE now + p.delay + p.lasts]
    <2>1. d \in Definition
      <3>1. p \in [window : WindowType \cup {"PER_TXN"}, scope : Scope, limit : Limit,
                   active : BOOLEAN, delay : Nat, lasts : (Nat \ {0}) \cup {Never}]
        BY EnforcementAssumption
      <3> QED BY <1>0, <3>1 DEF Definition
    <2>2. definitions' = Append(definitions, d)
      BY <1>3 DEF Create
    <2>3. definitions' \in Seq(Definition)
      <3> HIDE DEF d
      <3> QED BY <2>1, <2>2 DEF TypeOK
    <2> QED BY <1>e, <1>3, <2>3 DEF Create, TypeOK
  <1>4. ASSUME NEW i \in 1..Len(definitions), NEW d \in Definition,
               definitions' = [definitions EXCEPT ![i] = d]
        PROVE  definitions' \in Seq(Definition)
    BY <1>4, ExceptSeq DEF TypeOK
  <1>d. ASSUME NEW i \in 1..Len(definitions) PROVE definitions[i] \in Definition
    BY DEF TypeOK
  <1>5. ASSUME NEW i \in 1..Len(definitions), NEW change \in Change, Update(i, change)
        PROVE  TypeOK' /\ IsFiniteSet(records)'
    <2>1. definitions' \in Seq(Definition)
      BY <1>4, <1>5, <1>d, UpdateType DEF Update
    <2> QED BY <1>e, <1>5, <2>1 DEF Update, TypeOK
  <1>6. ASSUME NEW i \in 1..Len(definitions), Deactivate(i) PROVE TypeOK' /\ IsFiniteSet(records)'
    <2>1. [definitions[i] EXCEPT !.active = FALSE] \in Definition
      BY <1>d DEF Definition
    <2>2. definitions' \in Seq(Definition)
      BY <1>4, <1>6, <2>1 DEF Deactivate
    <2> QED BY <1>e, <1>6, <2>2 DEF Deactivate, TypeOK
  <1>7. ASSUME NEW c \in Customer, Approve(c) PROVE TypeOK' /\ IsFiniteSet(records)'
    <2> DEFINE applied == {Counter(w) : w \in {x \in WindowType : Consulted(x, c) # 0}}
               r == [id |-> Cardinality(records) + 1, at |-> now, customer |-> c,
                     applied |-> applied, warming |-> AnyWarming(c)]
    <2>1. Cardinality(records) \in Nat /\ Cardinality(records) < MaxRecords
      BY <1>7, FS_CardinalityType DEF Approve
    <2>2. applied \in SUBSET (WindowType \X Shape \X BOOLEAN) /\ now \in Time
      BY DEF TypeOK, Counter
    <2>3. AnyWarming(c) \in BOOLEAN
      BY DEF AnyWarming, Evaluated, Registered
    <2>4. r \in Record
      <3> HIDE DEF applied
      <3> QED BY <1>0, <2>1, <2>2, <2>3 DEF Record
    <2>5. records' = records \cup {r} /\ UNCHANGED <<now, shape, hot, windows, definitions, edits, covered>>
      BY <1>7 DEF Approve
    <2>6. IsFiniteSet(records)'
      BY <2>5, FS_AddElement
    <2> HIDE DEF r
    <2> QED BY <2>4, <2>5, <2>6 DEF TypeOK
  <1>8. CASE Tick
    <2>1. now' \in Time
      BY <1>0, <1>8 DEF Tick, Time
    <2> QED BY <1>8, <2>1, TrackType DEF Tick, TypeOK
  <1> QED BY <1>1, <1>2, <1>3, <1>5, <1>6, <1>7, <1>8 DEF Next

\* The state variables keep their types, whatever the edits set.
THEOREM TypeCorrect == Spec => [](TypeOK /\ IsFiniteSet(records))
PROOF
  <1>1. TypeOK /\ IsFiniteSet(records) /\ [Next]_vars => (TypeOK /\ IsFiniteSet(records))'
    BY StepType
  <1> QED BY InitTypes, <1>1, PTL DEF Spec
-----------------------------------------------------------------------------
(* What the API reports, and what the waterfall does.                      *)

\* A definition that a transaction is compared with is reported effective.
THEOREM ConsultedAreReported == Spec => []ConsultedIsReported
PROOF
  <1>1. TypeOK => ConsultedIsReported
    <2> SUFFICES ASSUME TypeOK, NEW w \in WindowType \cup {"PER_TXN"}, NEW c \in Customer,
                        Position(Consulted(w, c))
                 PROVE  Effective(definitions[Consulted(w, c)])
      BY DEF ConsultedIsReported
    <2>1. Len(definitions) \in Nat /\ now \in Nat
      BY EnforcementAssumption DEF TypeOK, Time
    <2>2. Consulted(w, c) # 0
      BY <2>1 DEF Position
    <2>3. Registered /\ (w # "PER_TXN" => Enforced(w)) /\ Consulted(w, c) = Applicable(w, c)
      BY <2>2 DEF Consulted, Evaluated
    <2>4. Consulted(w, c) \in Candidates(w)
      BY <2>2, <2>3, ApplicableFits
    <2>5. definitions[Consulted(w, c)] \in Definition
      BY DEF Position, TypeOK
    <2> QED BY <2>1, <2>3, <2>4, <2>5 DEF Candidates, InForce, Effective, Definition
  <1> QED BY <1>1, TypeCorrect, PTL

\* A definition that is reported effective is compared with every transaction
\* it fits, unless an older one has its scope or the customer has an override.
THEOREM ReportedAreConsulted == Spec => []ReportedIsConsulted
PROOF
  <1>1. TypeOK => ReportedIsConsulted
    <2> SUFFICES ASSUME TypeOK, NEW i \in 1..Len(definitions), NEW c \in Customer,
                        Effective(definitions[i]), shape \in Has[c],
                        definitions[i].scope \in {Default, <<shape, c>>}
                 PROVE  LET j == Consulted(definitions[i].window, c) IN
                        /\ Position(j)
                        /\ \/ j <= i /\ definitions[j].scope = definitions[i].scope
                           \/ definitions[i].scope = Default /\ definitions[j].scope # Default
      BY DEF ReportedIsConsulted
    <2> DEFINE w == definitions[i].window  j == Applicable(w, c)
    <2>1. definitions[i] \in Definition /\ now \in Nat
      BY EnforcementAssumption DEF TypeOK, Time
    <2>2. i \in Candidates(w)
      BY <2>1 DEF Effective, Candidates, InForce, Definition
    <2>3. Consulted(w, c) = j
      BY DEF Effective, Consulted, Evaluated
    <2>4. i \in Scoped(w, c) \/ i \in Unscoped(w)
      BY <2>2 DEF Scoped, Unscoped
    <2>5. j # 0 /\ Position(j)
      <3>1. j # 0
        BY <2>4, ApplicableFits
      <3>2. j \in Candidates(w)
        BY <3>1, ApplicableFits
      <3> QED BY <3>1, <3>2 DEF Candidates, Position
    <2>6. CASE Scoped(w, c) = {}
      <3>1. j \in Unscoped(w) /\ i \in Unscoped(w) /\ j <= i
        BY <2>4, <2>5, <2>6, ApplicableFits
      <3> QED BY <2>3, <2>5, <3>1 DEF Unscoped
    <2>7. CASE Scoped(w, c) # {}
      <3>1. j \in Scoped(w, c) /\ \A x \in Scoped(w, c) : j <= x
        BY <2>5, <2>7, ApplicableFits
      <3>2. definitions[j].scope = <<shape, c>>
        BY <3>1 DEF Scoped
      <3>3. <<shape, c>> # Default
        BY EnforcementAssumption DEF TypeOK
      <3>4. CASE i \in Scoped(w, c)
        BY <2>3, <2>5, <3>1, <3>2, <3>4 DEF Scoped
      <3>5. CASE i \in Unscoped(w)
        BY <2>3, <2>5, <3>2, <3>3, <3>5 DEF Unscoped
      <3> QED BY <2>4, <3>4, <3>5
    <2> QED BY <2>6, <2>7
  <1> QED BY <1>1, TypeCorrect, PTL
-----------------------------------------------------------------------------
(* The activation clocks.                                                  *)

\* A window that stays declared keeps its entry, and time goes forward.
LEMMA ClocksStand ==
    ASSUME TypeOK, [Next]_vars
    PROVE  /\ now' >= now
           /\ \A w \in WindowType : Declared(w) /\ Declared(w)' => windows'[w] = windows[w]
PROOF
  <1>0. now \in Nat
    BY EnforcementAssumption DEF TypeOK, Time
  <1>1. CASE UNCHANGED vars
    BY <1>0, <1>1 DEF vars
  <1>2. ASSUME NEW p \in Policy, Replace(p)
        PROVE  now' = now /\ \A w \in WindowType : Declared(w) /\ Declared(w)' => windows'[w] = windows[w]
    BY <1>2 DEF Replace, Edit, Timing, Declared
  <1>3. ASSUME NEW p \in Payload, Create(p) PROVE UNCHANGED <<now, windows>>
    BY <1>3 DEF Create, Edit
  <1>4. ASSUME NEW i, NEW change \in Change, Update(i, change)
        PROVE  UNCHANGED <<now, windows>>
    BY <1>4 DEF Update, Edit
  <1>5. ASSUME NEW i, Deactivate(i) PROVE UNCHANGED <<now, windows>>
    BY <1>5 DEF Deactivate, Edit
  <1>6. ASSUME NEW c \in Customer, Approve(c) PROVE UNCHANGED <<now, windows>>
    BY <1>6 DEF Approve
  <1>7. CASE Tick
    BY <1>0, <1>7 DEF Tick
  <1> QED BY <1>0, <1>1, <1>2, <1>3, <1>4, <1>5, <1>6, <1>7 DEF Next

\* No edit and no passing of time opens a gap in the enforcement of a window
\* that stays declared.
THEOREM EnforcementIsKept == Spec => EnforcementStands
PROOF
  <1>1. ASSUME TypeOK, TypeOK', [Next]_vars, NEW w \in WindowType, Enforced(w), Declared(w)'
        PROVE  Enforced(w)'
    <2>1. Declared(w) /\ windows'[w] = windows[w] /\ now' >= now
      BY <1>1, ClocksStand DEF Enforced
    <2>2. windows[w] \in WindowEntry /\ now \in Nat /\ now' \in Nat
      BY <1>1, <2>1, EnforcementAssumption DEF TypeOK, Time, Declared
    <2>3. now >= windows[w].boundaryAt => now' >= windows[w].boundaryAt
      BY <2>1, <2>2 DEF WindowEntry
    <2>4. now >= windows[w].boundaryAt \/ windows[w].warming
      BY <1>1 DEF Enforced, WindowState
    <2> QED BY <1>1, <2>1, <2>3, <2>4 DEF Enforced, WindowState
  <1>2. TypeOK /\ TypeOK' /\ [Next]_vars =>
          [\A w \in WindowType : Enforced(w) /\ Declared(w)' => Enforced(w)']_vars
    BY <1>1
  <1> QED BY <1>2, TypeCorrect, PTL DEF Spec, EnforcementStands
-----------------------------------------------------------------------------
(* Whole windows.                                                          *)

\* A clock is set to the beginning of the next period after its declaration.
ClocksSet ==
    \A w \in WindowType : Declared(w) =>
        \E t \in Nat : windows[w].boundaryAt = StartOf(Period(w), t) + Period(w)

\* What has been covered since a moment is covered now.
CoveredSince ==
    \A w \in WindowType, c \in Customer : covered[w][c] # Never =>
        Covers(w, c) /\ covered[w][c] <= now

\* The records of a window that is active, and of a limit that had been in
\* force before them, are counted in it.
RecordsCounted ==
    /\ \A r \in records : r.at <= now
    /\ \A w \in Calendar, c \in Customer, r \in records :
         /\ r.customer = c /\ Declared(w) /\ windows[w].boundaryAt <= r.at
         /\ covered[w][c] # Never /\ covered[w][c] < r.at
         => Counter(w) \in r.applied

WholeInv == ClocksSet /\ CoveredSince /\ RecordsCounted

\* The moments and clocks are numbers.
LEMMA Numbers ==
    ASSUME TypeOK
    PROVE  /\ now \in Nat /\ \A r \in records : r.at \in Nat
           /\ \A w \in WindowType : Declared(w) => windows[w].boundaryAt \in Nat
           /\ \A w \in WindowType, c \in Customer : covered[w][c] # Never => covered[w][c] \in Nat
           /\ \A w \in WindowType : Period(w) \in Nat \ {0}
PROOF
  <1>1. now \in Nat /\ \A r \in records : r.at \in Nat
    BY EnforcementAssumption DEF TypeOK, Time, Record
  <1>2. \A w \in WindowType : Declared(w) => windows[w].boundaryAt \in Nat
    BY DEF TypeOK, Declared, WindowEntry
  <1>3. \A w \in WindowType, c \in Customer : covered[w][c] # Never => covered[w][c] \in Nat
    BY EnforcementAssumption DEF TypeOK, Time
  <1>4. \A w \in WindowType : Period(w) \in Nat \ {0}
    BY EnforcementAssumption DEF Period
  <1> QED BY <1>1, <1>2, <1>3, <1>4

\* A step that appends no record keeps the invariant, if it keeps track.
LEMMA TrackedStep ==
    ASSUME TypeOK, TypeOK', WholeInv, [Next]_vars, Track, UNCHANGED records,
           \A w \in WindowType : Declared(w)' /\ ~Declared(w) =>
             windows'[w].boundaryAt = NextBoundary(w, now) /\ now' = now
    PROVE  WholeInv'
PROOF
  <1>1. now' >= now /\ now \in Nat /\ now' \in Nat
    BY ClocksStand, Numbers, EnforcementAssumption DEF TypeOK, Time
  <1>2. \A w \in WindowType, c \in Customer :
          covered'[w][c] = (IF ~Covers(w, c)' THEN Never
                            ELSE IF Covers(w, c) /\ shape' = shape /\ hot' = hot THEN covered[w][c] ELSE now')
    BY DEF Track
  <1>3. ClocksSet'
    <2> SUFFICES ASSUME NEW w \in WindowType, Declared(w)'
                 PROVE  \E t \in Nat : windows'[w].boundaryAt = StartOf(Period(w), t) + Period(w)
      BY DEF ClocksSet
    <2>1. CASE Declared(w)
      BY <2>1, ClocksStand DEF WholeInv, ClocksSet
    <2>2. CASE ~Declared(w)
      BY <1>1, <2>2 DEF NextBoundary
    <2> QED BY <2>1, <2>2
  <1>4. CoveredSince'
    <2> SUFFICES ASSUME NEW w \in WindowType, NEW c \in Customer, covered'[w][c] # Never
                 PROVE  Covers(w, c)' /\ covered'[w][c] <= now'
      BY DEF CoveredSince
    <2>1. Covers(w, c)'
      BY <1>2
    <2>2. CASE covered'[w][c] = now'
      BY <1>1, <2>1, <2>2
    <2>3. CASE covered'[w][c] = covered[w][c]
      <3>1. covered[w][c] \in Nat /\ covered[w][c] <= now
        BY <2>3, Numbers DEF WholeInv, CoveredSince
      <3> QED BY <1>1, <2>1, <2>3, <3>1
    <2> QED BY <1>2, <2>1, <2>2, <2>3
  <1>5. RecordsCounted'
    <2>1. \A r \in records' : r.at <= now' /\ r.at <= now /\ r.at \in Nat
      BY <1>1, Numbers DEF WholeInv, RecordsCounted
    <2> SUFFICES ASSUME NEW w \in Calendar, NEW c \in Customer, NEW r \in records,
                        r.customer = c, Declared(w)', windows'[w].boundaryAt <= r.at,
                        covered'[w][c] # Never, covered'[w][c] < r.at
                 PROVE  <<w, shape', hot'>> \in r.applied
      BY <2>1 DEF RecordsCounted, Counter
    <2>2. w \in WindowType
      BY DEF WindowType
    <2>3. Declared(w)
      <3> SUFFICES ASSUME ~Declared(w) PROVE FALSE
        OBVIOUS
      <3>1. windows'[w].boundaryAt = NextBoundary(w, now)
        BY <2>2
      <3>2. NextBoundary(w, now) > now /\ NextBoundary(w, now) \in Nat
        <4>1. PICK p \in Nat \ {0} : p = Period(w)
          BY <2>2, Numbers
        <4>2. StartOf(p, now) \in Nat /\ now < StartOf(p, now) + p
          BY <1>1, PeriodArithmetic
        <4> QED BY <1>1, <4>1, <4>2 DEF NextBoundary
      <3> QED BY <1>1, <2>1, <3>1, <3>2
    <2>4. windows'[w] = windows[w]
      BY <2>2, <2>3, ClocksStand
    <2>5. covered'[w][c] # now'
      <3>1. covered'[w][c] = now' => FALSE
        BY <1>1, <2>1
      <3> QED BY <3>1
    <2>6. covered'[w][c] = covered[w][c] /\ shape' = shape /\ hot' = hot
      BY <1>2, <2>2, <2>5
    <2> QED BY <2>3, <2>4, <2>6 DEF WholeInv, RecordsCounted, Counter
  <1> QED BY <1>3, <1>4, <1>5 DEF WholeInv

\* What is covered depends on the time and the configuration alone.
LEMMA CoversStands ==
    ASSUME UNCHANGED <<now, shape, definitions>>, NEW w, NEW c
    PROVE  Covers(w, c)' = Covers(w, c)
PROOF
  <1>1. Candidates(w)' = Candidates(w)
    BY DEF Candidates, InForce
  <1>2. Scoped(w, c)' = Scoped(w, c) /\ Unscoped(w)' = Unscoped(w)
    BY <1>1 DEF Scoped, Unscoped
  <1> QED BY <1>2 DEF Covers, Applicable

\* Every step keeps the invariant.
LEMMA StepWhole ==
    ASSUME TypeOK, TypeOK', WholeInv, [Next]_vars
    PROVE  WholeInv'
PROOF
  <1>1. CASE UNCHANGED vars
    <2>1. UNCHANGED <<now, shape, hot, windows, definitions, records, covered>>
      BY <1>1 DEF vars
    <2> QED BY <2>1, CoversStands DEF WholeInv, ClocksSet, CoveredSince, RecordsCounted, Declared, Counter
  <1>2. ASSUME NEW p \in Policy, Replace(p) PROVE WholeInv'
    <2>1. Track /\ UNCHANGED <<now, records>>
      BY <1>2 DEF Replace, Edit
    <2>2. \A w \in WindowType : Declared(w)' /\ ~Declared(w) =>
            windows'[w].boundaryAt = NextBoundary(w, now)
      BY <1>2 DEF Replace, Timing, Declared
    <2> QED BY <2>1, <2>2, TrackedStep
  <1>3. ASSUME NEW p \in Payload, Create(p) PROVE WholeInv'
    <2>1. Track /\ UNCHANGED <<now, records, windows>>
      BY <1>3 DEF Create, Edit
    <2> QED BY <2>1, TrackedStep DEF Declared
  <1>4. ASSUME NEW i, NEW change \in Change, Update(i, change) PROVE WholeInv'
    <2>1. Track /\ UNCHANGED <<now, records, windows>>
      BY <1>4 DEF Update, Edit
    <2> QED BY <2>1, TrackedStep DEF Declared
  <1>5. ASSUME NEW i, Deactivate(i) PROVE WholeInv'
    <2>1. Track /\ UNCHANGED <<now, records, windows>>
      BY <1>5 DEF Deactivate, Edit
    <2> QED BY <2>1, TrackedStep DEF Declared
  <1>6. CASE Tick
    <2>1. Track /\ UNCHANGED <<records, windows>>
      BY <1>6 DEF Tick
    <2> QED BY <2>1, TrackedStep DEF Declared
  <1>7. ASSUME NEW c \in Customer, Approve(c) PROVE WholeInv'
    <2> DEFINE applied == {Counter(w) : w \in {x \in WindowType : Consulted(x, c) # 0}}
               r == [id |-> Cardinality(records) + 1, at |-> now, customer |-> c,
                     applied |-> applied, warming |-> AnyWarming(c)]
    <2>1. records' = records \cup {r} /\ UNCHANGED <<now, shape, hot, windows, definitions, covered>>
      BY <1>7 DEF Approve
    <2>2. ClocksSet' /\ CoveredSince'
      BY <2>1, CoversStands DEF WholeInv, ClocksSet, CoveredSince, Declared
    <2>3. \A w \in Calendar : Declared(w) /\ windows[w].boundaryAt <= now /\ covered[w][c] # Never =>
            Counter(w) \in applied
      <3> SUFFICES ASSUME NEW w \in Calendar, Declared(w), windows[w].boundaryAt <= now,
                          covered[w][c] # Never
                   PROVE  Consulted(w, c) # 0
        BY DEF WindowType
      <3>1. w \in WindowType /\ w # "PER_TXN"
        BY DEF WindowType, Calendar
      <3>2. Covers(w, c)
        BY <3>1 DEF WholeInv, CoveredSince
      <3>3. Registered
        BY <3>1 DEF Registered
      <3>4. now >= windows[w].boundaryAt
        BY <3>1, Numbers
      <3>5. Enforced(w)
        BY <3>4 DEF Enforced, WindowState
      <3> QED BY <3>1, <3>2, <3>3, <3>5 DEF Consulted, Evaluated, Covers
    <2>4. RecordsCounted'
      <3>1. r.at = now /\ r.customer = c /\ r.applied = applied
        OBVIOUS
      <3> HIDE DEF r, applied
      <3>2. now <= now
        BY Numbers
      <3>3. UNCHANGED windows /\ \A w : Declared(w)' = Declared(w) /\ Counter(w)' = Counter(w)
        BY <2>1 DEF Declared, Counter
      <3> QED BY <2>1, <2>3, <3>1, <3>2, <3>3 DEF WholeInv, RecordsCounted
    <2> QED BY <2>2, <2>4 DEF WholeInv
  <1> QED BY <1>1, <1>2, <1>3, <1>4, <1>5, <1>6, <1>7 DEF Next

\* Nothing is declared and nothing is recorded at the start.
LEMMA InitWhole == Init => WholeInv
PROOF
  <1> SUFFICES ASSUME Init PROVE WholeInv
    OBVIOUS
  <1>1. ClocksSet /\ CoveredSince /\ RecordsCounted
    BY DEF Init, ClocksSet, CoveredSince, RecordsCounted, Declared
  <1> QED BY <1>1 DEF WholeInv

\* An active window of a steady limit counts every approval of its period.
LEMMA WholeFromInv ==
    ASSUME TypeOK, WholeInv, NEW w \in Calendar, NEW c \in Customer,
           Enforced(w), ~Warming(w), Steady(w, c)
    PROVE  Counted(w, c) = Spent(w, c)
PROOF
  <1>0. w \in WindowType /\ w # "DAILY_ROLLING"
    BY DEF WindowType, Calendar
  <1> DEFINE from == StartOf(Period(w), now)
  <1>1. Declared(w) /\ now >= windows[w].boundaryAt
    BY DEF Enforced, Warming, WindowState
  <1>2. windows[w].boundaryAt <= from
    <2>1. PICK p \in Nat \ {0} : p = Period(w)
      BY <1>0, Numbers
    <2>2. PICK t \in Nat : windows[w].boundaryAt = StartOf(p, t) + p
      BY <1>0, <1>1, <2>1 DEF WholeInv, ClocksSet
    <2>3. now \in Nat /\ StartOf(p, t) \in Nat
      BY <2>2, Numbers, PeriodArithmetic
    <2>4. StartOf(p, t) + p <= now
      BY <1>1, <2>2, <2>3
    <2>5. StartOf(p, t) + p <= StartOf(p, now)
      BY <2>3, <2>4, PeriodArithmetic
    <2> QED BY <2>1, <2>2, <2>5
  <1>3. covered[w][c] # Never /\ covered[w][c] < from /\ from \in Nat
    <2>1. from \in Nat
      BY <1>0, Numbers, PeriodArithmetic
    <2> QED BY <2>1 DEF Steady
  <1>4. covered[w][c] \in Nat /\ windows[w].boundaryAt \in Nat
    BY <1>0, <1>1, <1>3, Numbers
  <1>5. \A r \in records : r.customer = c /\ InWindow(w, r.at) => Counter(w) \in r.applied
    <2> SUFFICES ASSUME NEW r \in records, r.customer = c, InWindow(w, r.at)
                 PROVE  Counter(w) \in r.applied
      OBVIOUS
    <2>1. r.at >= from /\ r.at \in Nat
      BY <1>0, Numbers DEF InWindow
    <2> HIDE DEF from
    <2>2. windows[w].boundaryAt <= r.at /\ covered[w][c] < r.at
      BY <1>2, <1>3, <1>4, <2>1
    <2> QED BY <1>1, <1>3, <2>2 DEF WholeInv, RecordsCounted
  <1>6. {r \in records : r.customer = c /\ InWindow(w, r.at) /\ Counter(w) \in r.applied}
          = {r \in records : r.customer = c /\ InWindow(w, r.at)}
    BY <1>5
  <1> QED BY <1>6 DEF Counted, Spent

\* No window is enforced from the middle of its period as if it were whole.
THEOREM WindowsAreWhole == Spec => []WholeWindows
PROOF
  <1>1. TypeOK /\ TypeOK' /\ WholeInv /\ [Next]_vars => WholeInv'
    BY StepWhole
  <1>2. TypeOK /\ WholeInv => WholeWindows
    BY WholeFromInv DEF WholeWindows
  <1> QED BY InitWhole, <1>1, <1>2, TypeCorrect, PTL DEF Spec

\* An approval that rests on less than its whole period is flagged.
THEOREM PartialApprovalsAreFlagged == Spec => PartialIsFlagged
PROOF
  <1>1. ASSUME TypeOK, WholeInv, [Next]_vars, NEW r \in records' \ records, NEW w \in Calendar,
               Consulted(w, r.customer) # 0, Steady(w, r.customer),
               Counted(w, r.customer) # Spent(w, r.customer)
        PROVE  r.warming
    <2>1. PICK c \in Customer : r.customer = c /\ r.warming = AnyWarming(c)
      <3>1. ASSUME UNCHANGED records PROVE FALSE
        BY <1>1, <3>1
      <3>2. PICK c \in Customer : Approve(c)
        BY <1>1, <3>1 DEF Next, Replace, Create, Update, Deactivate, Edit, Tick, vars
      <3>3. r = [id |-> Cardinality(records) + 1, at |-> now, customer |-> c,
                 applied |-> {Counter(x) : x \in {y \in WindowType : Consulted(y, c) # 0}},
                 warming |-> AnyWarming(c)]
        BY <1>1, <3>2 DEF Approve
      <3> QED BY <3>3
    <2>2. w \in WindowType /\ w # "PER_TXN"
      BY DEF WindowType, Calendar
    <2>3. Evaluated(c) /\ Enforced(w)
      BY <1>1, <2>1, <2>2 DEF Consulted
    <2>4. Warming(w)
      BY <1>1, <2>1, <2>3, WholeFromInv
    <2> QED BY <2>1, <2>2, <2>3, <2>4 DEF AnyWarming
  <1>2. TypeOK /\ WholeInv /\ [Next]_vars =>
          [\A r \in records' \ records : \A w \in Calendar :
             Consulted(w, r.customer) # 0 /\ Steady(w, r.customer)
             /\ Counted(w, r.customer) # Spent(w, r.customer) => r.warming]_vars
    BY <1>1
  <1>3. TypeOK /\ TypeOK' /\ WholeInv /\ [Next]_vars => WholeInv'
    BY StepWhole
  <1> QED BY InitWhole, <1>2, <1>3, TypeCorrect, PTL DEF Spec, PartialIsFlagged
=============================================================================
