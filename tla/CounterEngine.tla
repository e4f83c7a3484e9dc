---------------------------- MODULE CounterEngine ----------------------------
(***************************************************************************)
(* One logical counter of the limit service over time: the documents of a  *)
(* sharded calendar window (tier2), of a strict 24 hour window (rolling)   *)
(* or of a sharded one (rolling-sharded), with their buckets, their TTL,   *)
(* the cached total of each process, the shard factor that the registry    *)
(* may change, and the calls that check, increment and give back.          *)
(*                                                                         *)
(*  - Time is counted in ticks.  A call takes the time when it arrives and *)
(*    works with that to its end.                                          *)
(*  - A document is its buckets, by label; a document of tier2 is one      *)
(*    bucket.  Labels are numbers in the order of the strings: HOUR label  *)
(*    "2026-08-10-09" comes before MINUTE label "2026-08-10-09-00".        *)
(*  - A find over several shards is one step.                              *)
(*  - Tier 1, a guarded document without buckets, is in TransactionSaga.   *)
(***************************************************************************)
EXTENDS Amounts, Sequences, FiniteSetsExt, Functions

CONSTANTS
    Kind,       \* the kinds of counter to consider
    Calls,      \* for each kind, the records whose calls of checkAndIncrement... meet it
    Process,    \* processes of the service
    Nowhere,    \* no process
    Threshold,  \* the limits of the counter
    Unlimited,  \* an undeclared threshold
    Factors,    \* the shard factors a registry may declare
    Boundaries, \* when the window's first boundary may be
    Hour,       \* ticks in an hour
    Horizon,    \* ticks in 24 hours
    Day,        \* ticks in a calendar window
    Grace,      \* ticks a document outlives its window
    Refresh,    \* refreshIntervalMs of the cache
    Poll,       \* ticks after which a process has learnt of a registry change
    Slow,       \* ticks a call may take from its arrival to its increment
    MaxTime,    \* for each kind, a bound on the clock
    MaxEdits    \* a bound on the changes of the registry

ASSUME EngineAssumption ==
    /\ Kind \subseteq {"tier2", "rolling", "rolling-sharded"}
    /\ Calls \in [Kind -> SUBSET Txn]
    /\ Unlimited \notin Int
    /\ Threshold \in [amount : Nat \cup {Unlimited}, count : Nat \cup {Unlimited}]
    /\ Factors \subseteq Nat \ {0, 1} /\ Factors # {} /\ IsFiniteSet(Factors)
    /\ Boundaries \subseteq Nat
    /\ {Hour, Horizon, Day} \subseteq Nat \ {0} /\ Horizon % Hour = 0
    /\ {Grace, Poll, Slow, MaxEdits} \subseteq Nat /\ Refresh \in Nat \ {0}
    /\ MaxTime \in [Kind -> Nat]
    /\ Slow <= Grace
    /\ Poll + Slow + Hour <= Horizon

VARIABLES
    clock,
    kind,      \* the kind of the counter
    boundary,  \* boundaryAt of the window, carried forward by every change
    entry,     \* the window's entry in the stored registry
    edits,     \* how often it was changed
    refined,   \* its granularity went from hours to minutes (history)
    dropped,   \* its history of shard factors was dropped (history)
    snapshot,  \* Process -> the entry in the process's configuration cache
    behind,    \* Process -> the ticks for which its snapshot has been outdated
    docs,      \* the counter documents there are, by <<base, shard>>
    cache,     \* Process -> the HotCounterCache: totals by base key
    call       \* Call -> the local state of a call

vars == <<clock, kind, boundary, entry, edits, refined, dropped, snapshot, behind, docs, cache, call>>

Call == Calls[kind]
-----------------------------------------------------------------------------
(* windowBoundary.js: labels.                                              *)

BucketLabel(t, granularity) ==
    IF granularity = "MINUTE" THEN 2 * t + 1 ELSE 2 * (t - (t % Hour))

HorizonLabel(t, granularity) == BucketLabel(t - Horizon, granularity)

DayStart(t) == t - (t % Day)
-----------------------------------------------------------------------------
(* registry.model.js: the history of shard factors.                        *)

InForce(history, t) == {i \in DOMAIN history : history[i].effectiveAt <= t}

\* resolveShardFactorForWrite: the last entry in force, the first if none is.
WriteFactor(history, t) ==
    history[IF InForce(history, t) = {} THEN 1 ELSE Max(InForce(history, t))].value

\* Mutant: the factor of new writes is also the one that is read.
ReadFactorOfWrites(history, t) == WriteFactor(history, t)

\* resolveShardFactorForRead: the largest in force, the largest of all if none is.
ReadFactor(history, t) ==
    LET pool == IF InForce(history, t) = {} THEN DOMAIN history ELSE InForce(history, t)
    IN Max({history[i].value : i \in pool})
-----------------------------------------------------------------------------
(* The documents.                                                          *)

Zero == [amount |-> 0, count |-> 0]
NoBuckets == [l \in {} |-> Zero]

Buckets(key) == IF key \in DOMAIN docs THEN docs[key].buckets ELSE NoBuckets

Put(f, x, y) == [z \in DOMAIN f \cup {x} |-> IF z = x THEN y ELSE f[z]]

\* pruneBucketsStage.
Prune(buckets, oldest) == Restrict(buckets, {l \in DOMAIN buckets : l >= oldest})

\* sumStage: the sum of a field of some buckets, as the number of its units.
Units(n) == UNION {{l} \X (1..n[l]) : l \in DOMAIN n}
Total(buckets) ==
    [amount |-> Cardinality(Units([l \in DOMAIN buckets |-> buckets[l].amount])),
     count |-> Cardinality(Units([l \in DOMAIN buckets |-> buckets[l].count]))]

\* Mutant: the current bucket is replaced.
ReplaceIn(buckets, label, c) ==
    Put(buckets, label, [amount |-> Amount[c], count |-> 1])

\* mergeCurrentBucketStage; the $inc of incrementShardUnconditional.
AddTo(buckets, label, c) ==
    LET old == IF label \in DOMAIN buckets THEN buckets[label] ELSE Zero
    IN Put(buckets, label, [amount |-> old.amount + Amount[c], count |-> old.count + 1])

\* appliedGuardStage; amountBreached and countBreached of the soft tiers.
Fits(total, c) ==
    /\ Threshold.amount # Unlimited => total.amount + Amount[c] <= Threshold.amount
    /\ Threshold.count # Unlimited => total.count + 1 <= Threshold.count

\* What call c works with.
Now(c) == call[c].now
Window(c) == call[c].window

\* buildCounterKey names the calendar window, buildRollingKey does not.
Base(c) == IF kind = "tier2" THEN DayStart(Now(c)) ELSE 0
Label(c) == IF kind = "tier2" THEN DayStart(Now(c))
            ELSE BucketLabel(Now(c), Window(c).granularity)
Oldest(c) == HorizonLabel(Now(c), Window(c).granularity)

\* Mutant: the horizon is taken for the expiry.
ExpiryAtHorizon(c, key) == Now(c) - Horizon

\* Mutant: the expiry of a rolling document is set on insert only.
ExpiryOnInsert(c, key) ==
    IF key \in DOMAIN docs THEN docs[key].expireAt
    ELSE Now(c) + Horizon + Grace

\* expireAtFor is set on insert; rollingExpireAtFor is moved on by every write.
Expiry(c, key) ==
    IF kind # "tier2" THEN Now(c) + Horizon + Grace
    ELSE IF key \in DOMAIN docs THEN docs[key].expireAt
    ELSE DayStart(Now(c)) + Day + Grace

\* The shards a direct read of the total visits, and what it finds in them:
\* sumKeys, and sumRollingKeys with its own horizon.
Found(keys, oldest) ==
    UNION {{k} \X {l \in DOMAIN Buckets(k) : kind = "tier2" \/ l >= oldest} : k \in keys}
TotalOf(keys, oldest) == Total([kl \in Found(keys, oldest) |-> Buckets(kl[1])[kl[2]]])

ReadKeys(c) == {<<Base(c), i>> : i \in 0..(ReadFactor(Window(c).history, Now(c)) - 1)}
-----------------------------------------------------------------------------
\* The local state of a call that has not begun.
NoWindow == [history |-> <<>>, granularity |-> "HOUR"]
Nothing == [pc |-> "new", home |-> Nowhere, now |-> 0, window |-> NoWindow, asked |-> 0,
            key |-> <<0, 0>>, label |-> 0, at |-> 0]

Init ==
    /\ clock = 0
    /\ kind \in Kind
    /\ boundary \in Boundaries  \* it only matters to the shard factor
    /\ kind = "rolling" => boundary = CHOOSE b \in Boundaries : TRUE
    /\ entry \in [history : IF kind = "rolling" THEN {<<>>}
                            ELSE {<<[value |-> f, effectiveAt |-> 0]>> : f \in Factors},
                  granularity : IF kind = "tier2" THEN {"HOUR"} ELSE {"HOUR", "MINUTE"}]
    /\ edits = 0 /\ refined = FALSE /\ dropped = FALSE
    /\ snapshot = [p \in Process |-> entry]
    /\ behind = [p \in Process |-> 0]
    /\ docs = [k \in {} |-> [buckets |-> NoBuckets, expireAt |-> 0]]
    /\ cache = [p \in Process |-> [b \in {} |-> [total |-> Zero, refreshedAt |-> 0]]]
    /\ call = [c \in Call |-> Nothing]
-----------------------------------------------------------------------------
(* The registry.                                                           *)

\* resolveShardFactorHistory: an increase at once, a decrease at the boundary.
AppendFactor(history, f, t) ==
    Append(history, [value |-> f, effectiveAt |-> IF f > history[Len(history)].value
                                                 THEN t ELSE boundary])

\* The registry is replaced: a new shard factor; or the dimension is no longer
\* hot, which drops the history, and is declared hot again, which begins a new one
\* (two replacements, between which calls go to another counter: so they are one
\* step of this one; a factor that has no other is in force at every time); or a
\* new granularity.
ChangeWindow ==
    /\ edits < MaxEdits
    /\ edits' = edits + 1
    /\ \/ /\ kind # "rolling"
          /\ \/ \E f \in Factors, t \in (clock - Slow)..clock :
                /\ t >= 0 /\ f # entry.history[Len(entry.history)].value
                /\ entry' = [entry EXCEPT !.history = AppendFactor(@, f, t)]
                /\ UNCHANGED dropped
             \/ \E f \in Factors :
                /\ entry' = [entry EXCEPT !.history = <<[value |-> f, effectiveAt |-> clock]>>]
                /\ dropped' = TRUE
          /\ UNCHANGED refined
       \/ /\ kind # "tier2"
          /\ entry' = [entry EXCEPT !.granularity = IF @ = "HOUR" THEN "MINUTE" ELSE "HOUR"]
          /\ refined' = (refined \/ entry.granularity = "HOUR")
          /\ UNCHANGED dropped
    /\ UNCHANGED <<clock, kind, boundary, snapshot, behind, docs, cache, call>>

\* A refresh of the configuration cache, pushed or polled.
Install(p) ==
    /\ snapshot[p] # entry
    /\ snapshot' = [snapshot EXCEPT ![p] = entry]
    /\ behind' = [behind EXCEPT ![p] = 0]
    /\ UNCHANGED <<clock, kind, boundary, entry, edits, refined, dropped, docs, cache, call>>
-----------------------------------------------------------------------------
(* checkAndIncrement: entering it in some process, with a time taken when  *)
(* the call arrived and a registry taken since.                            *)

Goto(c, pc) == call' = [call EXCEPT ![c].pc = pc]

\* A call ends: of its local state only what it recorded remains.
End(c, pc) == call' = [call EXCEPT ![c] = [Nothing EXCEPT !.pc = pc]]
Record(c, pc, key) ==
    call' = [call EXCEPT ![c] = [Nothing EXCEPT !.pc = pc, !.now = Now(c), !.key = key,
                                                !.label = Label(c), !.at = clock]]

Enter(c) ==
    /\ call[c].pc = "new"
    /\ \E p \in Process, t \in (clock - Slow)..clock :
        /\ t >= 0
        /\ call' = [call EXCEPT ![c].pc = "entered", ![c].home = p, ![c].now = t,
                                ![c].window = snapshot[p]]
    /\ UNCHANGED <<clock, kind, boundary, entry, edits, refined, dropped, snapshot, behind, docs, cache>>

\* checkAndIncrementRolling: prune, sum, compare and merge in one operation.
RollingUpdate(c) ==
    LET key == <<Base(c), 0>>  kept == Prune(Buckets(key), Oldest(c)) IN
    /\ kind = "rolling" /\ call[c].pc = "entered"
    /\ LET applied == Fits(Total(kept), c) IN
        /\ docs' = Put(docs, key, [buckets |-> IF applied THEN AddTo(kept, Label(c), c) ELSE kept,
                                   expireAt |-> Expiry(c, key)])
        /\ Record(c, IF applied THEN "applied" ELSE "breached", key)
    /\ UNCHANGED <<clock, kind, boundary, entry, edits, refined, dropped, snapshot, behind, cache>>

\* A soft decision on a total, which was asked for at time t.
Decide(c, total, t) ==
    IF Fits(total, c) THEN call' = [call EXCEPT ![c].pc = "passed", ![c].asked = t]
    ELSE End(c, "breached")

\* Mutant: a cached total is as good as new.
YoungForEver(cached, t) == TRUE

\* The cached total is young enough to be used at time t.
Young(cached, t) == t - cached.refreshedAt < Refresh

Fresh(p, b) == b \in DOMAIN cache[p] /\ Young(cache[p][b], clock)

\* getTotal, getRollingTotal: the cached total decides ...
CachedTotal(c) ==
    LET p == call[c].home  b == Base(c) IN
    /\ kind # "rolling" /\ call[c].pc = "entered"
    /\ Fresh(p, b)
    /\ Decide(c, cache[p][b].total, clock)
    /\ UNCHANGED <<clock, kind, boundary, entry, edits, refined, dropped, snapshot, behind, docs, cache>>

\* ... or has to be read: the time of the entry is taken first.
AskForTotal(c) ==
    /\ kind # "rolling" /\ call[c].pc = "entered"
    /\ ~Fresh(call[c].home, Base(c))
    /\ call' = [call EXCEPT ![c].pc = "summing", ![c].asked = clock]
    /\ UNCHANGED <<clock, kind, boundary, entry, edits, refined, dropped, snapshot, behind, docs, cache>>

SumShards(c) ==
    LET total == TotalOf(ReadKeys(c), Oldest(c)) IN
    /\ call[c].pc = "summing"
    /\ cache' = [cache EXCEPT ![call[c].home] =
                    Put(@, Base(c), [total |-> total, refreshedAt |-> call[c].asked])]
    /\ Decide(c, total, call[c].asked)
    /\ UNCHANGED <<clock, kind, boundary, entry, edits, refined, dropped, snapshot, behind, docs>>

\* incrementShardUnconditional, or the sharded pipeline, on a shard at random.
IncrementShard(c) ==
    /\ call[c].pc = "passed"
    /\ \E i \in 0..(WriteFactor(Window(c).history, Now(c)) - 1) :
        LET key == <<Base(c), i>>
            kept == IF kind = "tier2" THEN Buckets(key) ELSE Prune(Buckets(key), Oldest(c))
        IN /\ docs' = Put(docs, key, [buckets |-> AddTo(kept, Label(c), c),
                                      expireAt |-> Expiry(c, key)])
           /\ Record(c, "applied", key)
    /\ UNCHANGED <<clock, kind, boundary, entry, edits, refined, dropped, snapshot, behind, cache>>

\* Mutant: the bucket of the moment is decremented.
RecordedNow(c) == IF kind = "tier2" THEN call[c].label ELSE BucketLabel(clock, "HOUR")

\* The bucket a compensation or a reversal looks for: none for a sharded
\* rolling counter, whose bucketLabel was not returned.
NoLabel == -1
Recorded(c) == IF kind = "rolling-sharded" THEN NoLabel ELSE call[c].label

\* compensateTier1, compensateRolling, by the saga or by a later reversal:
\* guardedDecrement or decrementRollingBucket, which may match nothing.
GiveBack(c) ==
    LET k == call[c].key  l == Recorded(c) IN
    /\ call[c].pc = "applied"
    /\ IF l \in DOMAIN Buckets(k) /\ Buckets(k)[l].amount >= Amount[c] /\ Buckets(k)[l].count >= 1
       THEN /\ docs' = [docs EXCEPT ![k].buckets[l] =
                            [amount |-> @.amount - Amount[c], count |-> @.count - 1]]
            /\ End(c, "undone")
       ELSE /\ Goto(c, "signalled")
            /\ UNCHANGED docs
    /\ UNCHANGED <<clock, kind, boundary, entry, edits, refined, dropped, snapshot, behind, cache>>
-----------------------------------------------------------------------------
(* Time, and the TTL index.                                                *)

InFlight(c) == call[c].pc \in {"entered", "summing", "passed"}

\* A call does not outlive Slow, nor a snapshot Poll. Totals that are too old
\* to be used again are left out of the cache, which itself never forgets one.
Tick ==
    /\ clock < MaxTime[kind]
    /\ \A c \in Call : InFlight(c) => clock < Now(c) + Slow
    /\ \A p \in Process : snapshot[p] # entry => behind[p] < Poll
    /\ clock' = clock + 1
    /\ behind' = [p \in Process |-> IF snapshot[p] # entry THEN behind[p] + 1 ELSE 0]
    /\ cache' = [p \in Process |->
                    Restrict(cache[p], {b \in DOMAIN cache[p] : Young(cache[p][b], clock + 1)})]
    /\ UNCHANGED <<kind, boundary, entry, edits, refined, dropped, snapshot, docs, call>>

Expire(k) ==
    /\ docs[k].expireAt < clock
    /\ docs' = Restrict(docs, DOMAIN docs \ {k})
    /\ UNCHANGED <<clock, kind, boundary, entry, edits, refined, dropped, snapshot, behind, cache, call>>
-----------------------------------------------------------------------------
CallStep(c) ==
    \/ Enter(c)
    \/ RollingUpdate(c)
    \/ CachedTotal(c) \/ AskForTotal(c) \/ SumShards(c) \/ IncrementShard(c)
    \/ GiveBack(c)

Next ==
    \/ \E c \in Call : CallStep(c)
    \/ ChangeWindow
    \/ \E p \in Process : Install(p)
    \/ \E k \in DOMAIN docs : Expire(k)
    \/ Tick

Spec == Init /\ [][Next]_vars
-----------------------------------------------------------------------------
(* Properties.                                                             *)

\* The state variables keep their types; a bucket never goes negative.
WindowEntry == [history : Seq([value : Factors, effectiveAt : Nat]),
                granularity : {"HOUR", "MINUTE"}]
CallState ==
    [pc : {"new", "entered", "summing", "passed", "breached", "applied", "undone", "signalled"},
     home : Process \cup {Nowhere}, now : Nat, window : WindowEntry, asked : Nat,
     key : Nat \X Nat, label : Nat, at : Nat]
Money == [amount : Nat, count : Nat]

TypeOK ==
    /\ clock \in 0..MaxTime[kind] /\ kind \in Kind /\ boundary \in Boundaries
    /\ entry \in WindowEntry /\ edits \in 0..MaxEdits
    /\ refined \in BOOLEAN /\ dropped \in BOOLEAN
    /\ snapshot \in [Process -> WindowEntry] /\ behind \in [Process -> 0..Poll]
    /\ \A k \in DOMAIN docs :
        /\ k \in Nat \X Nat
        /\ DOMAIN docs[k] = {"buckets", "expireAt"} /\ docs[k].expireAt \in Nat
        /\ DOMAIN docs[k].buckets \subseteq Nat
        /\ \A l \in DOMAIN docs[k].buckets : docs[k].buckets[l] \in Money
    /\ DOMAIN cache = Process
    /\ \A p \in Process : \A b \in DOMAIN cache[p] :
        cache[p][b] \in [total : Money, refreshedAt : Nat]
    /\ call \in [Call -> CallState]

\* The calls whose increment is still due to count, and their sums.
Counted == {c \in Call : call[c].pc \in {"applied", "signalled"}}
Sum(S) == [amount |-> TotalAmount(S), count |-> Cardinality(S)]

Allowed(total) ==
    /\ Threshold.amount # Unlimited => total.amount <= Threshold.amount
    /\ Threshold.count # Unlimited => total.count <= Threshold.count

\* Every bucket there is holds exactly what the calls recorded in it have
\* added and not taken back, whichever calls prune the document, recreate it
\* after its TTL or give back in another order than they came.
BucketsExact ==
    \A k \in DOMAIN docs : \A l \in DOMAIN docs[k].buckets :
        docs[k].buckets[l] = Sum({c \in Counted : call[c].key = k /\ call[c].label = l})

\* The time from which call c counts. A minute's horizon cuts an hourly bucket
\* off as soon as its first minute has left the window, not its last.
CountsFrom(c) ==
    IF refined /\ call[c].label % 2 = 0 THEN call[c].label \div 2 ELSE Now(c)

\* The strict 24 hour window: at no time does what was approved in the 24
\* hours before it exceed the limit, pruning and TTL notwithstanding, but for
\* the ticks by which calls are late, and for hours cut short by a change of
\* the granularity to minutes.
RollingStrict ==
    kind = "rolling" =>
        \A t \in 0..clock :
            Allowed(Sum({c \in Counted : Now(c) <= t /\ CountsFrom(c) > t - Horizon + Slow}))

\* What a soft decision of call c must know of: applied long enough ago for
\* the cache, the calls and the registry snapshots, and still in the window.
Settled(c) ==
    {d \in Counted :
        /\ call[d].at + Refresh + Slow + Poll <= call[c].asked
        /\ IF kind = "tier2" THEN call[d].key[1] = Base(c) ELSE CountsFrom(d) > clock - Horizon}

\* The overshoot of the soft tiers is bounded in time: an increment fits with
\* all that was applied more than Refresh, Slow and Poll ago, in whatever
\* process, under whatever shard factor; until the history is dropped.
OvershootIsBounded ==
    [][\A c \in Call :
         /\ ~dropped
         /\ call[c].pc = "passed" /\ call'[c].pc = "applied"
         => Fits(Sum(Settled(c)), c)]_vars

\* No shard is orphaned: under the stored registry a direct read of the total
\* visits every shard in which a counted amount is, after increases and
\* decreases of the factor alike; until the history is dropped, which orphans what
\* a smaller factor does not reach, though the window may be open.
ShardsCovered ==
    kind # "rolling" /\ ~dropped =>
        \A k \in DOMAIN docs : k[2] < ReadFactor(entry.history, clock)

\* What a call recorded can be given back as long as its bucket is there.
\* (A sharded rolling counter cannot: see CounterClaims.)
BucketIsGivenBack ==
    [][\A c \in Call :
         /\ kind # "rolling-sharded"
         /\ call[c].pc = "applied" /\ call'[c].pc = "signalled"
         => call[c].label \notin DOMAIN Buckets(call[c].key)]_vars
-----------------------------------------------------------------------------
(* The inductive invariants behind the properties (proofs in CounterProofs). *)

\* The sums over a document's buckets are sums over finitely many; a window that
\* is not strict has a shard factor from the first, and until it is dropped its
\* history only grows; steps go with kinds.
HasHad(history) ==
    /\ Len(history) \in 1..Len(entry.history) /\ history[1].effectiveAt = 0
    /\ \A i \in DOMAIN history : history[i] = entry.history[i]
Factored ==
    kind # "rolling" =>
        /\ entry.history # <<>>
        /\ \A p \in Process : snapshot[p].history # <<>>
        /\ \A c \in Call : InFlight(c) => Window(c).history # <<>>
KindSteps == \A c \in Call : call[c].pc \in {"summing", "passed"} => kind # "rolling"
WellFormed ==
    /\ \A k \in DOMAIN docs : IsFiniteSet(DOMAIN docs[k].buckets)
    /\ kind # "rolling" /\ ~dropped =>
        /\ HasHad(entry.history)
        /\ \A p \in Process : HasHad(snapshot[p].history)
        /\ \A c \in Call : InFlight(c) => HasHad(Window(c).history)
    /\ Factored /\ KindSteps

\* A call in flight took its time at most Slow ago, and has not outlived that.
InTime ==
    /\ \A c \in Call :
        /\ call[c].asked <= clock
        /\ InFlight(c) => Now(c) <= clock /\ clock <= Now(c) + Slow
    /\ \A c \in Counted : Now(c) <= call[c].at /\ call[c].at <= clock

\* What a call recorded is the key and the bucket of its time.
Labelled ==
    \A c \in Counted :
        IF kind = "tier2" THEN call[c].key[1] = DayStart(Now(c)) /\ call[c].label = DayStart(Now(c))
        ELSE /\ call[c].key[1] = 0 /\ (kind = "rolling" => call[c].key[2] = 0)
             /\ \E g \in {"HOUR", "MINUTE"} : call[c].label = BucketLabel(Now(c), g)

\* A document stays for the grace after its window's end, or, of a rolling
\* window, after all that is recorded in it has left the horizon.
ExpirySet ==
    \A k \in DOMAIN docs :
        IF kind = "tier2" THEN docs[k].expireAt = k[1] + Day + Grace
        ELSE \A c \in Counted : call[c].key = k =>
                Now(c) + Horizon + Grace <= docs[k].expireAt + Slow

\* A bucket that was pruned or expired is too old for any call to write again.
Gone(c) == call[c].label \notin DOMAIN Buckets(call[c].key)
GoneAreOld ==
    \A c \in Counted : Gone(c) =>
        IF kind = "tier2" THEN call[c].key[1] + Day + Slow < clock
        ELSE call[c].label < 2 * (clock - Slow - Hour + 1)

\* A granularity that never went from hours to minutes has no hours yet while
\* it is minutes; hours in a window still taken for minutes are recent.
HoursAreRecent ==
    kind # "tier2" /\ ~refined =>
        /\ entry.granularity = "MINUTE" =>
            /\ \A p \in Process : snapshot[p].granularity = "MINUTE"
            /\ \A c \in Call : InFlight(c) => Window(c).granularity = "MINUTE"
            /\ \A c \in Counted : call[c].label % 2 = 1
        /\ \A c \in Counted : call[c].label % 2 = 0 =>
            /\ \A p \in Process : snapshot[p].granularity = "MINUTE" =>
                clock <= Now(c) + behind[p] + Slow
            /\ \A e \in Call : InFlight(e) /\ Window(e).granularity = "MINUTE" =>
                Now(e) <= Now(c) + Poll + Slow

\* What is no longer in a rolling document has left the 24 hours.
GoneHaveLeft ==
    kind # "tier2" => \A c \in Counted : Gone(c) => CountsFrom(c) <= clock - Horizon

\* Every document, and what is recorded in it, is in a shard the stored
\* registry has had; what is older than a snapshot is in one of the snapshot's.
Covers(history, shard, t) ==
    \E i \in DOMAIN history : shard < history[i].value /\ history[i].effectiveAt <= t
ShardsKnown ==
    kind # "rolling" /\ ~dropped =>
        /\ \A k \in DOMAIN docs : Covers(entry.history, k[2], clock)
        /\ \A d \in Counted :
            /\ Covers(entry.history, call[d].key[2], Now(d))
            /\ \A p \in Process : call[d].at + behind[p] < clock =>
                Covers(snapshot[p].history, call[d].key[2], Now(d))
            /\ \A c \in Call : InFlight(c) /\ call[d].at + Poll < Now(c) =>
                Covers(Window(c).history, call[d].key[2], Now(d))

\* A total read at time t under a base key has all that was applied Slow and
\* Poll before t, as has one a process has cached; a decision still fits what it
\* must know of.
Known(t, base) ==
    {d \in Counted :
        /\ call[d].at + Slow + Poll < t
        /\ IF kind = "tier2" THEN call[d].key[1] = base ELSE CountsFrom(d) > clock - Horizon}
TotalsKnow ==
    kind # "rolling" /\ ~dropped =>
        /\ \A c \in Call : InFlight(c) => call[c].home \in Process
        /\ \A p \in Process : \A b \in DOMAIN cache[p] :
            /\ cache[p][b].refreshedAt <= clock
            /\ Sum(Known(cache[p][b].refreshedAt, b)).amount <= cache[p][b].total.amount
            /\ Sum(Known(cache[p][b].refreshedAt, b)).count <= cache[p][b].total.count
        /\ \A c \in Call : call[c].pc = "passed" => Fits(Sum(Settled(c)), c)
=============================================================================
