----------------------------- MODULE Enforcement -----------------------------
(***************************************************************************)
(* Which limit a transaction meets, as the configuration is edited and     *)
(* time passes: the windows one dimension declares, with the activation    *)
(* clock of each, the limit definitions with their scopes and effective    *)
(* periods, what the API reports of a definition, and what the waterfall   *)
(* makes of all this.                                                      *)
(*                                                                         *)
(* The calls are one step each: how they interleave with each other and    *)
(* with a stale cache is ConfigPlane's, and how a submission takes and     *)
(* gives back its counters is TransactionSaga's. So a counter is here what *)
(* that module shows it to be: the records that name it. One direction,    *)
(* enabled, and one dimension other than GLOBAL are followed, and every    *)
(* transaction is over the amount 1. A total of shards may be as old as    *)
(* its cache, so here a hot dimension reads any total up to the real one.  *)
(***************************************************************************)
EXTENDS Integers, FiniteSets, Sequences

CONSTANTS
    Shape,      \* lists of attributes a dimension may be over
    Customer,   \* transactions that agree in all attributes are one customer's
    Has,        \* Customer -> the shapes whose attributes its transactions carry
    Policy,     \* what the dimension may be declared as; no windows is: left out
    Payload,    \* limit definitions that may be created
    Change,     \* what an update may set
    Day, Month, \* ticks of the clock
    MaxTime, MaxEdits, MaxRecords,  \* bounds
    Unlimited,  \* an undeclared threshold
    Never,      \* no end of the effective period, or no start
    Default,    \* no scope
    Undeclared

Calendar == {"DAILY_CALENDAR", "MONTHLY"}
WindowType == Calendar \cup {"DAILY_ROLLING"}
Time == 0..MaxTime

Scope == (Shape \X Customer) \cup {Default}
Limit == Nat \cup {Unlimited}
Definition == [window : WindowType \cup {"PER_TXN"}, scope : Scope, limit : Limit,
               active : BOOLEAN, from : Nat, to : Nat \cup {Never}]
Changeable == [limit |-> Limit, active |-> BOOLEAN, from |-> Nat, to |-> Nat \cup {Never}]
WindowEntry == [declaredAt : Nat, boundaryAt : Nat, warming : BOOLEAN]

ASSUME EnforcementAssumption ==
    /\ Shape # {} /\ Has \in [Customer -> SUBSET Shape]
    /\ Policy \subseteq [shape : Shape, hot : BOOLEAN, windows : SUBSET WindowType,
                    warming : SUBSET WindowType]
    /\ Payload \subseteq [window : WindowType \cup {"PER_TXN"}, scope : Scope, limit : Limit,
                          active : BOOLEAN, delay : Nat, lasts : (Nat \ {0}) \cup {Never}]
    /\ Day \in Nat \ {0} /\ Month \in Nat \ {0} /\ Month % Day = 0
    /\ \A change \in Change : \A f \in DOMAIN change :
         f \in DOMAIN Changeable /\ change[f] \in Changeable[f]
    /\ {MaxTime, MaxEdits, MaxRecords} \subseteq Nat
    /\ Unlimited \notin Nat /\ Never \notin Nat /\ Undeclared \notin WindowEntry
    /\ Default \notin Shape \X Customer

VARIABLES
    now,
    shape,        \* the attributes of the dimension, as last declared
    hot,          \* and whether its counters are sharded
    windows,      \* WindowType -> its entry in the registry, or Undeclared
    definitions,  \* the limits collection, in the order of the cache
    records,      \* the APPROVED transactions, numbered
    edits,        \* how many admin calls there were
    covered       \* history: since when a limit has been in force, see Covers

vars == <<now, shape, hot, windows, definitions, records, edits, covered>>
-----------------------------------------------------------------------------
(* The activation clock of a window.                                       *)

Period(w) == IF w = "MONTHLY" THEN Month ELSE Day

\* The start of the period of length p that t lies in.
StartOf(p, t) == (t \div p) * p

\* Mutant: a window is active as soon as it is declared.
BoundaryAtOnce(w, t) == t

\* nextBoundaryFor
NextBoundary(w, t) == StartOf(Period(w), t) + Period(w)

Declared(w) == windows[w] # Undeclared

\* Mutant: every replacement starts the clock of every window anew.
TimingAfresh(w, warming) ==
    [declaredAt |-> now, boundaryAt |-> NextBoundary(w, now), warming |-> w \in warming]

\* Mutant: warming is stored as it was asked for, undefined when it was not.
TimingAsAsked(w, warming) ==
    [declaredAt |-> now, boundaryAt |-> NextBoundary(w, now),
     warming |-> IF w \in warming THEN TRUE ELSE Undeclared]

\* resolveActivationTiming: a window that is already declared keeps its clock,
\* whatever the replacement says of warming.
Timing(w, warming) ==
    IF Declared(w) THEN windows[w]
    ELSE [declaredAt |-> now, boundaryAt |-> NextBoundary(w, now), warming |-> w \in warming]

\* deriveWindowState
WindowState(w) ==
    IF now >= windows[w].boundaryAt THEN "ACTIVE"
    ELSE IF windows[w].warming THEN "WARMING" ELSE "PENDING_ACTIVATION"

\* A declared window that isWindowEnforced.
Enforced(w) == Declared(w) /\ WindowState(w) \in {"ACTIVE", "WARMING"}
Warming(w) == Declared(w) /\ WindowState(w) = "WARMING"

\* A dimension declares a window at least, or is not in the registry.
Registered == \E w \in WindowType : Declared(w)
-----------------------------------------------------------------------------
(* Limit definitions.                                                      *)

\* Mutant: the end of the effective period is part of it.
InForceThrough(d) == d.active /\ now >= d.from /\ (d.to # Never => now <= d.to)

\* A definition is active and its effective period is on, as the waterfall sees it.
InForce(d) == d.active /\ now >= d.from /\ (d.to # Never => now < d.to)

\* evaluateEffectiveness: what the API reports.
Effective(d) ==
    /\ Registered
    /\ d.window # "PER_TXN" => Enforced(d.window)
    /\ d.active
    /\ ~(now < d.from)
    /\ ~(d.to # Never /\ now >= d.to)

\* The definitions of a window that are in force, by position, and those among
\* them whose scope is the attribute map of the customer's transactions.
Candidates(w) ==
    {i \in 1..Len(definitions) : definitions[i].window = w /\ InForce(definitions[i])}
Scoped(w, c) == {i \in Candidates(w) : definitions[i].scope = <<shape, c>>}
Unscoped(w) == {i \in Candidates(w) : definitions[i].scope = Default}

First(I) == CHOOSE i \in I : \A j \in I : i <= j

\* Mutant: the first definition that fits, default or not.
ApplicableInOrder(w, c) ==
    LET fit == Scoped(w, c) \cup Unscoped(w) IN IF fit = {} THEN 0 ELSE First(fit)

\* findApplicableDefinition: the first one of the customer's own, else the first
\* default; 0 for none.
Applicable(w, c) ==
    IF Scoped(w, c) # {} THEN First(Scoped(w, c))
    ELSE IF Unscoped(w) # {} THEN First(Unscoped(w)) ELSE 0

\* A transaction without an attribute of the dimension is not evaluated there.
Evaluated(c) == Registered /\ shape \in Has[c]

\* The definition the waterfall compares a transaction with, or 0.
Consulted(w, c) ==
    IF Evaluated(c) /\ (w # "PER_TXN" => Enforced(w)) THEN Applicable(w, c) ELSE 0
-----------------------------------------------------------------------------
(* Counters.                                                               *)

\* The time t is in the window of type w as it stands now.
InWindow(w, t) == IF w = "DAILY_ROLLING" THEN t > now - Day ELSE t >= StartOf(Period(w), now)

\* The counter of window w: hot or not, over other attributes, it is another one.
Counter(w) == <<w, shape, hot>>

\* What the counter of the customer for window w holds, and what the customer
\* has really had approved in the window.
Counted(w, c) ==
    Cardinality({r \in records : /\ r.customer = c /\ InWindow(w, r.at)
                                 /\ Counter(w) \in r.applied})
Spent(w, c) == Cardinality({r \in records : r.customer = c /\ InWindow(w, r.at)})

\* A definition applies to the customer in the window, be it enforced or not.
Covers(w, c) == shape \in Has[c] /\ Applicable(w, c) # 0

\* Since when that has been so without a break, and in the same counter.
Track ==
    covered' = [w \in WindowType |-> [c \in Customer |->
        IF ~Covers(w, c)' THEN Never
        ELSE IF Covers(w, c) /\ shape' = shape /\ hot' = hot THEN covered[w][c] ELSE now']]
-----------------------------------------------------------------------------
Init ==
    /\ now = 0
    /\ shape = CHOOSE s \in Shape : TRUE  \* no matter which, with no window declared
    /\ hot = FALSE
    /\ windows = [w \in WindowType |-> Undeclared]
    /\ definitions = <<>> /\ records = {} /\ edits = 0
    /\ covered = [w \in WindowType |-> [c \in Customer |-> Never]]

Edit == edits < MaxEdits /\ edits' = edits + 1 /\ UNCHANGED <<now, records>> /\ Track

\* replaceRegistry, as far as the dimension is concerned. The clocks of its windows
\* go on, though another list of attributes or a change of hot moves them to other
\* counters.
Replace(p) ==
    /\ shape' = IF p.windows = {} THEN shape ELSE p.shape
    /\ hot' = IF p.windows = {} THEN hot ELSE p.hot
    /\ windows' = [w \in WindowType |-> IF w \in p.windows THEN Timing(w, p.warming)
                                        ELSE Undeclared]
    /\ UNCHANGED definitions
    /\ Edit

\* createDefinition. It asks for no other definition of the scope.
Create(p) ==
    /\ definitions' = Append(definitions,
         [window |-> p.window, scope |-> p.scope, limit |-> p.limit, active |-> p.active,
          from |-> now + p.delay,
          to |-> IF p.lasts = Never THEN Never ELSE now + p.delay + p.lasts])
    /\ UNCHANGED <<shape, hot, windows>>
    /\ Edit

\* updateDefinition: any of the fields that may change, which are not compared
\* with those that stay.
Update(i, change) ==
    /\ definitions' = [definitions EXCEPT
         ![i] = [f \in DOMAIN @ |-> IF f \in DOMAIN change THEN change[f] ELSE @[f]]]
    /\ UNCHANGED <<shape, hot, windows>>
    /\ Edit

\* deactivateDefinition: of an inactive one it writes nothing.
Deactivate(i) ==
    /\ definitions[i].active
    /\ definitions' = [definitions EXCEPT ![i].active = FALSE]
    /\ UNCHANGED <<shape, hot, windows>>
    /\ Edit

\* A transaction passes the per-transaction limit. A threshold that was set to
\* null lets nothing pass: in the code 1 <= null is false.
PassesPerTxn(c) ==
    LET d == Consulted("PER_TXN", c) IN
    d # 0 => definitions[d].limit # Unlimited /\ 1 <= definitions[d].limit

\* ... and the limit of a window, whose counter it then raises.
PassesWindow(w, c) ==
    LET d == Consulted(w, c)
        read == IF hot THEN 0..Counted(w, c) ELSE {Counted(w, c)} IN
    d # 0 /\ definitions[d].limit # Unlimited => \E n \in read : n + 1 <= definitions[d].limit

\* Some window the transaction was evaluated in is warming, limited or not.
AnyWarming(c) == Evaluated(c) /\ \E w \in WindowType : Warming(w)

\* submit(), when it approves; a refusal leaves nothing behind here.
Approve(c) ==
    /\ Cardinality(records) < MaxRecords
    /\ PassesPerTxn(c) /\ \A w \in WindowType : PassesWindow(w, c)
    /\ records' = records \cup
         {[id |-> Cardinality(records) + 1, at |-> now, customer |-> c,
           applied |-> {Counter(w) : w \in {x \in WindowType : Consulted(x, c) # 0}},
           warming |-> AnyWarming(c)]}
    /\ UNCHANGED <<now, shape, hot, windows, definitions, edits, covered>>

Tick ==
    /\ now < MaxTime
    /\ now' = now + 1
    /\ UNCHANGED <<shape, hot, windows, definitions, records, edits>>
    /\ Track

Next ==
    \/ \E p \in Policy : Replace(p)
    \/ \E p \in Payload : Create(p)
    \/ \E i \in 1..Len(definitions) : Deactivate(i) \/ \E change \in Change : Update(i, change)
    \/ \E c \in Customer : Approve(c)
    \/ Tick

Spec == Init /\ [][Next]_vars
-----------------------------------------------------------------------------
(* Properties.                                                             *)

Record == [id : 1..MaxRecords, at : Time, customer : Customer,
           applied : SUBSET (WindowType \X Shape \X BOOLEAN), warming : BOOLEAN]

\* The state variables keep their types.
TypeOK ==
    /\ now \in Time /\ shape \in Shape /\ hot \in BOOLEAN /\ edits \in 0..MaxEdits
    /\ windows \in [WindowType -> WindowEntry \cup {Undeclared}]
    /\ definitions \in Seq(Definition)
    /\ records \subseteq Record
    /\ covered \in [WindowType -> [Customer -> Time \cup {Never}]]

Position(i) == i \in 1..Len(definitions)

\* What the API reports and what the waterfall does are two pieces of code that
\* agree: a definition that a transaction is compared with is reported effective,
\* at every moment, whatever was edited and whatever has begun or ended meanwhile.
ConsultedIsReported ==
    \A w \in WindowType \cup {"PER_TXN"}, c \in Customer :
        Position(Consulted(w, c)) => Effective(definitions[Consulted(w, c)])

\* And a definition that is reported effective is the one that is compared with
\* every transaction it fits, unless an older one has the same scope, or it is a
\* default and the customer has an override.
ReportedIsConsulted ==
    \A i \in 1..Len(definitions), c \in Customer :
        LET d == definitions[i]  j == Consulted(d.window, c) IN
        Effective(d) /\ shape \in Has[c] /\ d.scope \in {Default, <<shape, c>>} =>
            /\ Position(j)
            /\ \/ j <= i /\ definitions[j].scope = d.scope
               \/ d.scope = Default /\ definitions[j].scope # Default

\* A window that is enforced stays so for as long as it is declared: no edit of
\* the registry, be it of the window or of another, opens a gap.
EnforcementStands == [][\A w \in WindowType : Enforced(w) /\ Declared(w)' => Enforced(w)']_vars

\* No window is enforced from the middle of its period as if it were whole: while
\* it is active its counter has every approval of the period, if since before the
\* period began there was a limit to count for, and the dimension was over the same
\* attributes and hot or not as it is now. That it was undeclared and declared again
\* meanwhile makes no difference. That hot was switched does: the window stays
\* active, but begins again with a counter that has nothing of the period.
Steady(w, c) == covered[w][c] # Never /\ covered[w][c] < StartOf(Period(w), now)
WholeWindows ==
    \A w \in Calendar, c \in Customer :
        Enforced(w) /\ ~Warming(w) /\ Steady(w, c) => Counted(w, c) = Spent(w, c)

\* Under such a limit, and as long as the counter stays the same, an approval that
\* rests on less than all the approvals of the period is flagged, so that it can be
\* explained.
PartialIsFlagged ==
    [][\A r \in records' \ records : \A w \in Calendar :
         Consulted(w, r.customer) # 0 /\ Steady(w, r.customer)
         /\ Counted(w, r.customer) # Spent(w, r.customer) => r.warming]_vars
=============================================================================
