-------------------------- MODULE TransactionSaga --------------------------
(***************************************************************************)
(* The life of a transaction in the IMPS limit service: the idempotency    *)
(* claim, the waterfall of limit checks with its compensating saga, the    *)
(* guarded resolve, the stale-claim reaper and the reversal, as concurrent *)
(* calls over the `transactions` and `counters` collections of MongoDB.    *)
(*                                                                         *)
(* Every action is the code between two awaits: one single-document        *)
(* operation of the database with the local computation around it.         *)
(*                                                                         *)
(*  - Txn stands for the compound _id <<clientId, direction, transactionId>>*)
(*    of a record; the amount, the attributes and so the checks a          *)
(*    submission meets (Plan) are fixed with it.                           *)
(*  - A counter document that does not exist reads as zero: bootstrap()    *)
(*    only ever creates a zero document, so it is one step with the        *)
(*    guarded increment it precedes.                                       *)
(*  - The applied keys are a set, since a plan names a key at most once;   *)
(*    the order of the array is the order of the plan.                     *)
(*  - A key stands for the documents of a window, one after the other: once *)
(*    the TTL index has deleted one, the next is what the key reads.       *)
(*  - Thresholds do not change during a behaviour.                         *)
(***************************************************************************)
EXTENDS Amounts, Sequences

CONSTANTS
    Request,        \* calls of TransactionService.submit
    Reversal,       \* calls of TransactionService.reverseTransaction
    Key,            \* counter documents
    Hot,            \* the keys of tier 2, whose check is soft
    Rolling,        \* the keys of rolling windows, kept in buckets
    Deactivatable,  \* keys whose window the registry may stop declaring
    Submits,        \* the record each request is about
    Reverses,       \* the record each reversal is about
    Plan,           \* the checks each record meets, in waterfall order
    Threshold,      \* the limits of each key
    Unlimited,      \* an undeclared threshold
    Faults,         \* what may go wrong: see the fault actions
    MaxRetries      \* bound: the updates that are applied and issued again

Limit == Nat \cup {Unlimited}

\* A check of the waterfall. Where the mandatory limit of GLOBAL is missing, or
\* the registry is, the check is one no amount passes.
Missing == -1
Check == [type : {"window"}, key : Key]
         \cup [type : {"perTxn"}, limit : Nat \cup {Missing}]

\* The keys the windows among the first n checks of record t write to.
WindowKeys(t, n) ==
    {Plan[t][i].key : i \in {j \in 1..n : j <= Len(Plan[t]) /\ Plan[t][j].type = "window"}}

ASSUME SagaAssumption ==
    /\ Hot \subseteq Key /\ Rolling \subseteq Key /\ Deactivatable \subseteq Key
    /\ Submits \in [Request -> Txn] /\ Reverses \in [Reversal -> Txn]
    /\ Unlimited \notin Int
    /\ Threshold \in [Key -> [amount : Limit, count : Limit]]
    /\ Plan \in [Txn -> Seq(Check)]
    /\ MaxRetries \in Nat

\* A dimension occurs once in a registry and a window once in a dimension.
ASSUME PlanAssumption ==
    \A t \in Txn : \A i, j \in 1..Len(Plan[t]) :
        /\ Plan[t][i].type = "window" /\ Plan[t][j].type = "window"
        /\ Plan[t][i].key = Plan[t][j].key
        => i = j

Status == {"NONE", "PENDING", "APPROVED", "REJECTED",
           "SYSTEM_FAILURE", "ABANDONED", "REVERSED"}
Terminal == Status \ {"NONE", "PENDING"}
Reply == Terminal \cup {"none", "DIRECTION_NOT_ENABLED", "IN_PROGRESS",
                        "NOT_FOUND", "NOT_REVERSIBLE", "ALREADY_REVERSED", "ERROR"}
DriftReason == {"COMPENSATION_FLOOR_GUARD_FAILED", "REVERSAL_FLOOR_GUARD_FAILED"}

VARIABLES
    txn,      \* Txn -> the record: status, appliedCounterKeys
    counter,  \* Key -> the counter document: amount, count
    req,      \* Request -> the local state of a submit() call
    rev,      \* Reversal -> the local state of a reverseTransaction() call
    stale,    \* records claimed longer ago than the staleness threshold
    reaping,  \* the claims a reaper sweep has read and not yet abandoned
    signals,  \* drift signals raised by failed floor guards
    lapsed,   \* Key -> the records it counted that were deleted or pruned
    retries   \* the updates that were applied and issued again

vars == <<txn, counter, req, rev, stale, reaping, signals, lapsed, retries>>
-----------------------------------------------------------------------------
Empty == [amount |-> 0, count |-> 0]

Init ==
    /\ txn = [t \in Txn |-> [status |-> "NONE", applied |-> {}]]
    /\ counter = [k \in Key |-> Empty]
    /\ req = [r \in Request |-> [pc |-> "idle", step |-> 1, applied |-> {},
                                 outcome |-> "APPROVED", reply |-> "none"]]
    /\ rev = [v \in Reversal |-> [pc |-> "idle", left |-> {}, skipped |-> {},
                                  reply |-> "none"]]
    /\ stale = {} /\ reaping = {} /\ signals = {}
    /\ lapsed = [k \in Key |-> {}] /\ retries = 0
-----------------------------------------------------------------------------
(* The counter documents: the guards the database evaluates atomically.    *)

Within(value, limit) == limit # Unlimited => value <= limit

\* Mutant: the limit is compared with the counter before the increment.
GuardHoldsBefore(k, t) ==
    /\ Within(counter[k].amount, Threshold[k].amount)
    /\ Within(counter[k].count, Threshold[k].count)

\* The filter of guardedIncrement matches.
GuardHolds(k, t) ==
    /\ Within(counter[k].amount + Amount[t], Threshold[k].amount)
    /\ Within(counter[k].count + 1, Threshold[k].count)

Increment(k, t) ==
    counter' = [counter EXCEPT ![k] = [amount |-> @.amount + Amount[t],
                                       count |-> @.count + 1]]

FloorHolds(k, t) == counter[k].amount >= Amount[t] /\ counter[k].count >= 1

\* A sharded rolling window returns no bucket label for its applied key.
ShardedRolling == Hot \cap Rolling

\* The filter of guardedDecrement matches: it names a bucket or a document, it
\* is still there, and it holds enough.
Matches(k, t) ==
    /\ k \notin ShardedRolling
    /\ t \notin lapsed[k]
    /\ FloorHolds(k, t)

Lowered(k, t) ==
    [counter EXCEPT ![k] = [amount |-> @.amount - Amount[t], count |-> @.count - 1]]

\* Mutant: the amount is given back and the count is not.
DecrementAmountOnly(k, t, reason) ==
    IF Matches(k, t)
    THEN /\ counter' = [counter EXCEPT ![k].amount = @ - Amount[t]]
         /\ UNCHANGED signals
    ELSE /\ signals' = signals \cup {[key |-> k, txn |-> t, reason |-> reason]}
         /\ UNCHANGED counter

\* guardedDecrement; a floor guard that does not match raises a drift signal.
Decrement(k, t, reason) ==
    IF Matches(k, t)
    THEN /\ counter' = Lowered(k, t)
         /\ UNCHANGED signals
    ELSE /\ signals' = signals \cup {[key |-> k, txn |-> t, reason |-> reason]}
         /\ UNCHANGED counter

\* k is the last of the keys in S: the one to give back next.
LastApplied(k, S, t) ==
    /\ k \in S
    /\ \E i \in 1..Len(Plan[t]) :
        /\ Plan[t][i].type = "window" /\ Plan[t][i].key = k
        /\ S \cap WindowKeys(t, Len(Plan[t])) \subseteq WindowKeys(t, i)
-----------------------------------------------------------------------------
(* submit(): the claim.                                                    *)

Answer(r, reply) == req' = [req EXCEPT ![r].pc = "done", ![r].reply = reply]

\* The client's enabled directions do not include this one: no claim.
RefuseDirection(r) ==
    /\ req[r].pc = "idle"
    /\ Answer(r, "DIRECTION_NOT_ENABLED")
    /\ UNCHANGED <<txn, counter, rev, stale, reaping, signals, lapsed, retries>>

\* Mutant: an upsert, which takes over a decided record.
ClaimUpserts(r) ==
    LET t == Submits[r] IN
    /\ req[r].pc = "idle"
    /\ txn[t].status # "PENDING"
    /\ txn' = [txn EXCEPT ![t].status = "PENDING"]
    /\ req' = [req EXCEPT ![r].pc = IF Plan[t] = <<>> THEN "resolve" ELSE "check"]
    /\ UNCHANGED <<counter, rev, stale, reaping, signals, lapsed, retries>>

\* The insert wins the mutex and the waterfall starts.
Claim(r) ==
    LET t == Submits[r] IN
    /\ req[r].pc = "idle"
    /\ txn[t].status = "NONE"
    /\ txn' = [txn EXCEPT ![t].status = "PENDING"]
    /\ req' = [req EXCEPT ![r].pc = IF Plan[t] = <<>> THEN "resolve" ELSE "check"]
    /\ UNCHANGED <<counter, rev, stale, reaping, signals, lapsed, retries>>

\* The insert meets a duplicate key: the existing record is read next.
ClaimDuplicate(r) ==
    /\ req[r].pc = "idle"
    /\ txn[Submits[r]].status # "NONE"
    /\ req' = [req EXCEPT ![r].pc = "refetch"]
    /\ UNCHANGED <<txn, counter, rev, stale, reaping, signals, lapsed, retries>>

\* Mutant: the record is returned verbatim while it is PENDING.
ReplayVerbatim(r) ==
    /\ req[r].pc = "refetch"
    /\ Answer(r, txn[Submits[r]].status)
    /\ UNCHANGED <<txn, counter, rev, stale, reaping, signals, lapsed, retries>>

\* #responseForExisting: a terminal record is returned verbatim.
ReplayExisting(r) ==
    LET status == txn[Submits[r]].status IN
    /\ req[r].pc = "refetch"
    /\ Answer(r, IF status \in Terminal THEN status ELSE "IN_PROGRESS")
    /\ UNCHANGED <<txn, counter, rev, stale, reaping, signals, lapsed, retries>>
-----------------------------------------------------------------------------
(* submit(): the waterfall, one check after the other.                     *)

CurrentCheck(r) == Plan[Submits[r]][req[r].step]

AtCheck(r, type) == req[r].pc = "check" /\ CurrentCheck(r).type = type

\* Mutant: the resolve does not wait for the compensation.
UnwoundAtOnce(applied) == "resolve"

\* Where a call goes once it owes no counter anything.
Unwound(applied) == IF applied = {} THEN "resolve" ELSE "compensate"

\* The check passed: the next one, or the resolve after the last.
Passed(r, keys) ==
    req' = [req EXCEPT ![r].step = @ + 1,
                       ![r].applied = @ \cup keys,
                       ![r].pc = IF req[r].step < Len(Plan[Submits[r]])
                                 THEN "check" ELSE "resolve"]

\* The check is breached: REJECTED, once every applied key is given back.
Rejected(r) ==
    req' = [req EXCEPT ![r].outcome = "REJECTED",
                       ![r].pc = Unwound(req[r].applied)]

\* A transaction above the limit is refused, and any is where the limit is missing.
PerTxnCheck(r) ==
    /\ AtCheck(r, "perTxn")
    /\ IF Amount[Submits[r]] <= CurrentCheck(r).limit
       THEN Passed(r, {})
       ELSE Rejected(r)
    /\ UNCHANGED <<txn, counter, rev, stale, reaping, signals, lapsed, retries>>

\* Tier 1 and rolling: the guarded increment matches.
GuardedIncrement(r) ==
    LET t == Submits[r]  k == CurrentCheck(r).key IN
    /\ AtCheck(r, "window")
    /\ k \notin Hot
    /\ GuardHolds(k, t)
    /\ Increment(k, t)
    /\ Passed(r, {k})
    /\ UNCHANGED <<txn, rev, stale, reaping, signals, lapsed, retries>>

\* ... it matches nothing: a breach. A second read finds out of which metrics
\* (they are left out: nothing here depends on them).
GuardedIncrementMisses(r) ==
    LET k == CurrentCheck(r).key IN
    /\ AtCheck(r, "window")
    /\ k \notin Hot
    /\ ~GuardHolds(k, Submits[r])
    /\ req' = [req EXCEPT ![r].pc = "breach"]
    /\ UNCHANGED <<txn, counter, rev, stale, reaping, signals, lapsed, retries>>

ReadBreach(r) ==
    /\ req[r].pc = "breach"
    /\ Rejected(r)
    /\ UNCHANGED <<txn, counter, rev, stale, reaping, signals, lapsed, retries>>

\* Mutant: the soft increment is not entered in the list of applied keys.
SoftIncrementUnlisted(r) ==
    LET k == CurrentCheck(r).key IN
    /\ AtCheck(r, "window")
    /\ k \in Hot
    /\ Increment(k, Submits[r])
    /\ Passed(r, {})
    /\ UNCHANGED <<txn, rev, stale, reaping, signals, lapsed, retries>>

\* Tier 2: a cached total, as stale as the cache allows, decides; the
\* increment itself is unconditional.
SoftIncrement(r) ==
    LET t == Submits[r]  k == CurrentCheck(r).key IN
    /\ AtCheck(r, "window")
    /\ k \in Hot
    /\ Increment(k, t)
    /\ Passed(r, {k})
    /\ UNCHANGED <<txn, rev, stale, reaping, signals, lapsed, retries>>

SoftBreach(r) ==
    /\ AtCheck(r, "window")
    /\ CurrentCheck(r).key \in Hot
    /\ Rejected(r)
    /\ UNCHANGED <<txn, counter, rev, stale, reaping, signals, lapsed, retries>>

\* Mutant: a key that was given back is not struck off the list.
CompensateAgain(r) ==
    /\ req[r].pc = "compensate"
    /\ \E k \in req[r].applied :
        Decrement(k, Submits[r], "COMPENSATION_FLOOR_GUARD_FAILED")
    /\ UNCHANGED <<txn, req, rev, stale, reaping, lapsed, retries>>

\* compensateAll, one key: the latest still applied.
Compensate(r) ==
    LET t == Submits[r] IN
    /\ req[r].pc = "compensate"
    /\ \E k \in req[r].applied :
        /\ LastApplied(k, req[r].applied, t)
        /\ Decrement(k, t, "COMPENSATION_FLOOR_GUARD_FAILED")
        /\ req' = [req EXCEPT ![r].applied = @ \ {k},
                              ![r].pc = Unwound(req[r].applied \ {k})]
    /\ UNCHANGED <<txn, rev, stale, reaping, lapsed, retries>>
-----------------------------------------------------------------------------
(* submit(): the resolve.                                                  *)

\* The record a resolve leaves: only APPROVED stores the applied keys. The
\* outcome is also what the caller is told (SYSTEM_FAILURE with a 500).
Resolved(r) ==
    [status |-> req[r].outcome,
     applied |-> IF req[r].outcome = "APPROVED" THEN req[r].applied ELSE {}]

\* The record is still PENDING: it takes the outcome, and with APPROVED the
\* keys are handed over to it.
Resolve(r) ==
    LET t == Submits[r] IN
    /\ req[r].pc = "resolve"
    /\ txn[t].status = "PENDING"
    /\ txn' = [txn EXCEPT ![t] = Resolved(r)]
    /\ req' = [req EXCEPT ![r].pc = "done", ![r].reply = req[r].outcome,
                          ![r].applied = @ \ Resolved(r).applied]
    /\ UNCHANGED <<counter, rev, stale, reaping, signals, lapsed, retries>>

\* Mutant: the resolve is retried until it matches.
ResolveMissesRetries(r) ==
    /\ req[r].pc = "resolve"
    /\ txn[Submits[r]].status # "PENDING"
    /\ UNCHANGED vars

\* matchedCount = 0: a warning is logged and the caller is told the outcome.
ResolveMisses(r) ==
    /\ req[r].pc = "resolve"
    /\ txn[Submits[r]].status # "PENDING"
    /\ Answer(r, req[r].outcome)
    /\ UNCHANGED <<txn, counter, rev, stale, reaping, signals, lapsed, retries>>

\* The resolve write fails: SYSTEM_FAILURE, once every key is given back. If
\* it is the SYSTEM_FAILURE write that fails, the error is only logged.
ResolveFailed(r) ==
    IF req[r].outcome = "SYSTEM_FAILURE"
    THEN Answer(r, req[r].outcome)
    ELSE req' = [req EXCEPT ![r].outcome = "SYSTEM_FAILURE",
                            ![r].pc = Unwound(req[r].applied)]
-----------------------------------------------------------------------------
(* Faults of a submit() call.                                              *)

Live(r) == req[r].pc \notin {"idle", "done"}

\* "crash": the process dies with the call in it.
Crash(r) ==
    /\ "crash" \in Faults
    /\ Live(r)
    /\ Answer(r, "none")
    /\ UNCHANGED <<txn, counter, rev, stale, reaping, signals, lapsed, retries>>

\* "throw": an operation fails, after its retries, without having been
\* applied. Outside the resolve nothing catches the exception.
CallThrows(r) ==
    /\ "throw" \in Faults
    /\ \/ req[r].pc \in {"idle", "refetch", "breach", "compensate"}
       \/ AtCheck(r, "window")
    /\ Answer(r, "ERROR")
    /\ UNCHANGED <<txn, counter, rev, stale, reaping, signals, lapsed, retries>>

ResolveThrows(r) ==
    /\ "throw" \in Faults
    /\ req[r].pc = "resolve"
    /\ ResolveFailed(r)
    /\ UNCHANGED <<txn, counter, rev, stale, reaping, signals, lapsed, retries>>

\* "retried": withTransientRetry issues an update of a counter again that was
\* applied and reported as failed; the call is where it was.
Reissue ==
    /\ "retried" \in Faults
    /\ retries < MaxRetries
    /\ retries' = retries + 1

ReissueIncrement(r) ==
    LET t == Submits[r]  k == CurrentCheck(r).key IN
    /\ Reissue
    /\ AtCheck(r, "window")
    /\ k \in Hot \/ GuardHolds(k, t)
    /\ Increment(k, t)
    /\ UNCHANGED <<txn, req, rev, stale, reaping, signals, lapsed>>

ReissueCompensation(r) ==
    LET t == Submits[r] IN
    /\ Reissue
    /\ req[r].pc = "compensate"
    /\ \E k \in req[r].applied :
        /\ LastApplied(k, req[r].applied, t)
        /\ Matches(k, t)
        /\ counter' = Lowered(k, t)
    /\ UNCHANGED <<txn, req, rev, stale, reaping, signals, lapsed>>

\* "unconfirmed": a w:majority write is applied and then reported as failed.
ClaimUnconfirmed(r) ==
    /\ "unconfirmed" \in Faults
    /\ req[r].pc = "idle"
    /\ txn[Submits[r]].status = "NONE"
    /\ txn' = [txn EXCEPT ![Submits[r]].status = "PENDING"]
    /\ Answer(r, "ERROR")
    /\ UNCHANGED <<counter, rev, stale, reaping, signals, lapsed, retries>>

ResolveUnconfirmed(r) ==
    LET t == Submits[r] IN
    /\ "unconfirmed" \in Faults
    /\ req[r].pc = "resolve"
    /\ txn[t].status = "PENDING"
    /\ txn' = [txn EXCEPT ![t] = Resolved(r)]
    /\ ResolveFailed(r)
    /\ UNCHANGED <<counter, rev, stale, reaping, signals, lapsed, retries>>
-----------------------------------------------------------------------------
(* The stale-claim reaper.                                                 *)

\* Without the fault "slow" no call lives longer than the threshold: a claim
\* grows stale only once the call that owns it has ended.
Owner(r, t) == Submits[r] = t /\ Live(r) /\ req[r].pc # "refetch"

ClaimGoesStale(t) ==
    /\ txn[t].status = "PENDING"
    /\ t \notin stale
    /\ "slow" \in Faults \/ \A r \in Request : ~Owner(r, t)
    /\ stale' = stale \cup {t}
    /\ UNCHANGED <<txn, counter, req, rev, reaping, signals, lapsed, retries>>

\* Mutant: the age is compared the wrong way round.
ReaperScanFresh ==
    LET found == {t \in Txn \ stale : txn[t].status = "PENDING"} IN
    /\ found \ reaping # {}
    /\ reaping' = reaping \cup found
    /\ UNCHANGED <<txn, counter, req, rev, stale, signals, lapsed, retries>>

\* A sweep reads the claims that are PENDING and stale.
ReaperScan ==
    LET found == {t \in stale : txn[t].status = "PENDING"} IN
    /\ found \ reaping # {}
    /\ reaping' = reaping \cup found
    /\ UNCHANGED <<txn, counter, req, rev, stale, signals, lapsed, retries>>

\* Mutant: the write is not guarded on PENDING.
ReaperAbandonUnguarded(t) ==
    /\ t \in reaping
    /\ reaping' = reaping \ {t}
    /\ txn' = [txn EXCEPT ![t].status = "ABANDONED"]
    /\ UNCHANGED <<counter, req, rev, stale, signals, lapsed, retries>>

\* It abandons them one by one, guarded on PENDING like a resolve.
ReaperAbandon(t) ==
    /\ t \in reaping
    /\ reaping' = reaping \ {t}
    /\ txn' = IF txn[t].status = "PENDING"
              THEN [txn EXCEPT ![t].status = "ABANDONED"] ELSE txn
    /\ UNCHANGED <<counter, req, rev, stale, signals, lapsed, retries>>
-----------------------------------------------------------------------------
(* reverseTransaction().                                                   *)

AnswerReversal(v, reply) == rev' = [rev EXCEPT ![v].pc = "done", ![v].reply = reply]

\* Mutant: the flip also matches a record that is already REVERSED.
ReverseFlipAgain(v) ==
    LET t == Reverses[v] IN
    /\ rev[v].pc = "idle"
    /\ txn[t].status \in {"APPROVED", "REVERSED"}
    /\ txn' = [txn EXCEPT ![t].status = "REVERSED"]
    /\ rev' = [rev EXCEPT ![v].pc = "undo", ![v].left = txn[t].applied]
    /\ UNCHANGED <<counter, req, stale, reaping, signals, lapsed, retries>>

\* The flip matches an APPROVED record. Its keys are given back one by one,
\* but for those whose window the registry, read once, no longer declares.
ReverseFlip(v) ==
    LET t == Reverses[v] IN
    /\ rev[v].pc = "idle"
    /\ txn[t].status = "APPROVED"
    /\ txn' = [txn EXCEPT ![t].status = "REVERSED"]
    /\ \E off \in SUBSET (Deactivatable \cap txn[t].applied) :
        rev' = [rev EXCEPT ![v].pc = "undo",
                           ![v].left = txn[t].applied \ off,
                           ![v].skipped = off]
    /\ UNCHANGED <<counter, req, stale, reaping, signals, lapsed, retries>>

\* The flip matches nothing; a second read finds out why.
ReverseMisses(v) ==
    /\ rev[v].pc = "idle"
    /\ txn[Reverses[v]].status # "APPROVED"
    /\ rev' = [rev EXCEPT ![v].pc = "lookup"]
    /\ UNCHANGED <<txn, counter, req, stale, reaping, signals, lapsed, retries>>

ReverseLookup(v) ==
    LET status == txn[Reverses[v]].status IN
    /\ rev[v].pc = "lookup"
    /\ AnswerReversal(v, CASE status = "NONE" -> "NOT_FOUND"
                           [] status = "REVERSED" -> "ALREADY_REVERSED"
                           [] OTHER -> "NOT_REVERSIBLE")
    /\ UNCHANGED <<txn, counter, req, stale, reaping, signals, lapsed, retries>>

\* reverseAppliedKeys, one key: the latest still applied.
ReverseKey(v) ==
    LET t == Reverses[v] IN
    /\ rev[v].pc = "undo"
    /\ \E k \in rev[v].left :
        /\ LastApplied(k, rev[v].left, t)
        /\ Decrement(k, t, "REVERSAL_FLOOR_GUARD_FAILED")
        /\ rev' = [rev EXCEPT ![v].left = @ \ {k}]
    /\ UNCHANGED <<txn, req, stale, reaping, lapsed, retries>>

\* Mutant: the decrements are not awaited.
ReverseAnswerEarly(v) ==
    /\ rev[v].pc = "undo"
    /\ AnswerReversal(v, "REVERSED")
    /\ UNCHANGED <<txn, counter, req, stale, reaping, signals, lapsed, retries>>

ReverseAnswer(v) ==
    /\ rev[v].pc = "undo"
    /\ rev[v].left = {}
    /\ AnswerReversal(v, "REVERSED")
    /\ UNCHANGED <<txn, counter, req, stale, reaping, signals, lapsed, retries>>

\* A crash, or an exception nothing catches, at any await of the call.
ReverseStops(v) ==
    /\ rev[v].pc # "done"
    /\ \/ "crash" \in Faults /\ rev[v].pc # "idle" /\ AnswerReversal(v, "none")
       \/ "throw" \in Faults /\ AnswerReversal(v, "ERROR")
    /\ UNCHANGED <<txn, counter, req, stale, reaping, signals, lapsed, retries>>

\* The flip is applied and reported as failed: no key is given back.
ReverseUnconfirmed(v) ==
    LET t == Reverses[v] IN
    /\ "unconfirmed" \in Faults
    /\ rev[v].pc = "idle"
    /\ txn[t].status = "APPROVED"
    /\ txn' = [txn EXCEPT ![t].status = "REVERSED"]
    /\ rev' = [rev EXCEPT ![v].pc = "done", ![v].reply = "ERROR",
                          ![v].left = txn[t].applied]
    /\ UNCHANGED <<counter, req, stale, reaping, signals, lapsed, retries>>

\* A decrement is applied, reported as failed and issued again.
ReissueReversal(v) ==
    LET t == Reverses[v] IN
    /\ Reissue
    /\ rev[v].pc = "undo"
    /\ \E k \in rev[v].left :
        /\ LastApplied(k, rev[v].left, t)
        /\ Matches(k, t)
        /\ counter' = Lowered(k, t)
    /\ UNCHANGED <<txn, req, rev, stale, reaping, signals, lapsed>>
-----------------------------------------------------------------------------
(* Who is counted where, and what time takes away.                         *)

\* The keys that list record t: those an APPROVED record names, those a
\* submit() call has applied and not handed over or given back (even if the
\* call is dead), and those a reversal has yet to give back or has skipped.
RecordKeys(t) == IF txn[t].status = "APPROVED" THEN txn[t].applied ELSE {}
RequestKeys(t) == UNION {req[r].applied : r \in {q \in Request : Submits[q] = t}}
ReversalKeys(t) ==
    UNION {rev[v].left \cup rev[v].skipped : v \in {w \in Reversal : Reverses[w] = t}}
ListedBy(t) == RecordKeys(t) \cup RequestKeys(t) \cup ReversalKeys(t)

\* Those that count it: a key whose decrement missed still counts it, one
\* whose document or bucket is gone no longer does.
SignalKeys(t) == {s.key : s \in {u \in signals : u.txn = t}}
LapsedKeys(t) == {k \in Key : t \in lapsed[k]}
HeldBy(t) == (ListedBy(t) \cup SignalKeys(t)) \ LapsedKeys(t)

\* The records counted in key k, and those of them that are APPROVED.
Outstanding(k) == {t \in Txn : k \in HeldBy(t)}
Approved(k) == {t \in Txn : k \in RecordKeys(t) \ LapsedKeys(t)}

\* The grace before a deletion, and a bucket's horizon, are longer than a call:
\* what a submit() in flight may yet give back is still there.
InFlight(k, t) == \E r \in Request : Submits[r] = t /\ Live(r) /\ k \in req[r].applied

\* The TTL index deletes the document of a closed window. A reversal may come
\* later, or be in the middle.
Expire(k) ==
    /\ counter[k] # Empty
    /\ \A t \in Txn : ~InFlight(k, t)
    /\ counter' = [counter EXCEPT ![k] = Empty]
    /\ lapsed' = [lapsed EXCEPT ![k] = @ \cup Outstanding(k)]
    /\ UNCHANGED <<txn, req, rev, stale, reaping, signals, retries>>

\* An update of a rolling window drops the bucket of record t, which has left
\* the horizon.
Prune(k, t) ==
    /\ k \in Rolling
    /\ t \in Outstanding(k)
    /\ ~InFlight(k, t)
    /\ FloorHolds(k, t)
    /\ counter' = Lowered(k, t)
    /\ lapsed' = [lapsed EXCEPT ![k] = @ \cup {t}]
    /\ UNCHANGED <<txn, req, rev, stale, reaping, signals, retries>>

LapseStep == \E k \in Key : Expire(k) \/ \E t \in Txn : Prune(k, t)
-----------------------------------------------------------------------------
WaterfallStep(r) ==
    \/ PerTxnCheck(r)
    \/ GuardedIncrement(r) \/ GuardedIncrementMisses(r) \/ ReadBreach(r)
    \/ SoftIncrement(r) \/ SoftBreach(r)
    \/ Compensate(r)

SubmitStep(r) ==
    \/ Claim(r) \/ ClaimDuplicate(r) \/ ReplayExisting(r)
    \/ WaterfallStep(r)
    \/ Resolve(r) \/ ResolveMisses(r)

SubmitFault(r) ==
    \/ Crash(r) \/ CallThrows(r) \/ ResolveThrows(r)
    \/ ClaimUnconfirmed(r) \/ ResolveUnconfirmed(r)

ReaperStep == ReaperScan \/ \E t \in Txn : ReaperAbandon(t)

ReversalStep(v) ==
    ReverseFlip(v) \/ ReverseMisses(v) \/ ReverseLookup(v) \/ ReverseKey(v) \/ ReverseAnswer(v)

ReversalFault(v) == ReverseStops(v) \/ ReverseUnconfirmed(v)

RetryStep ==
    \/ \E r \in Request : ReissueIncrement(r) \/ ReissueCompensation(r)
    \/ \E v \in Reversal : ReissueReversal(v)

Next ==
    \/ \E r \in Request : SubmitStep(r) \/ SubmitFault(r) \/ RefuseDirection(r)
    \/ \E t \in Txn : ClaimGoesStale(t)
    \/ ReaperStep
    \/ \E v \in Reversal : ReversalStep(v) \/ ReversalFault(v)
    \/ RetryStep \/ LapseStep

Spec == Init /\ [][Next]_vars

\* A call that has begun keeps running, a PENDING claim keeps growing older,
\* and the reaper's timer keeps firing on some instance.
Fairness ==
    /\ \A r \in Request : WF_vars(Live(r) /\ SubmitStep(r))
    /\ \A v \in Reversal : WF_vars(rev[v].pc # "idle" /\ ReversalStep(v))
    /\ \A t \in Txn : WF_vars(ClaimGoesStale(t)) /\ WF_vars(ReaperAbandon(t))
    /\ WF_vars(ReaperScan)

FairSpec == Spec /\ Fairness
-----------------------------------------------------------------------------
(* Properties.                                                             *)

\* The state variables keep their types; a counter never goes negative.
Record == [status : Status, applied : SUBSET Key]
Counter == [amount : Nat, count : Nat]
RequestState ==
    [pc : {"idle", "refetch", "check", "breach", "compensate", "resolve", "done"},
     step : Nat \ {0}, applied : SUBSET Key,
     outcome : {"APPROVED", "REJECTED", "SYSTEM_FAILURE"},
     reply : Reply]
ReversalState ==
    [pc : {"idle", "lookup", "undo", "done"},
     left : SUBSET Key, skipped : SUBSET Key, reply : Reply]
Signal == [key : Key, txn : Txn, reason : DriftReason]

TypeOK ==
    /\ txn \in [Txn -> Record]
    /\ counter \in [Key -> Counter]
    /\ req \in [Request -> RequestState]
    /\ rev \in [Reversal -> ReversalState]
    /\ stale \subseteq Txn /\ reaping \subseteq Txn
    /\ signals \subseteq Signal
    /\ lapsed \in [Key -> SUBSET Txn] /\ retries \in Nat

\* Every paisa of every counter document is accounted for: a counter is the
\* sum over exactly the records it counts, whatever calls interleave, fail or
\* are reversed and whatever was deleted or pruned meanwhile, so no increment
\* is lost, doubled or given back twice.
LedgerConservation ==
    \A k \in Key :
        /\ counter[k].amount = TotalAmount(Outstanding(k))
        /\ counter[k].count = Cardinality(Outstanding(k))

\* The strict tiers never let APPROVED records exceed a limit, however many
\* submissions race for its last unit (the guard is in the increment).
StrictLimits ==
    \A k \in Key \ Hot :
        /\ Within(TotalAmount(Approved(k)), Threshold[k].amount)
        /\ Within(Cardinality(Approved(k)), Threshold[k].count)

\* A record that ended REJECTED or SYSTEM_FAILURE is counted nowhere: its
\* saga gave back every increment before the record says so, but for those of
\* sharded rolling windows.
FailedHoldsNothing ==
    \A t \in Txn : txn[t].status \in {"REJECTED", "SYSTEM_FAILURE"} =>
        HeldBy(t) \subseteq ShardedRolling

\* An APPROVED record names every counter its plan checks: none was skipped
\* and none forgotten, so a reversal can give all of them back.
ApprovedInFull ==
    \A t \in Txn : txn[t].status = "APPROVED" =>
        txn[t].applied = WindowKeys(t, Len(Plan[t]))

\* A floor guard fails for two reasons only: the window is a sharded rolling
\* one, or a reversal came after the document or bucket was gone. No guard of a
\* compensation fails but the former way, and none because a counter was
\* lowered twice or never raised.
DriftIsExplained ==
    \A s \in signals :
        \/ s.key \in ShardedRolling
        \/ s.reason = "REVERSAL_FLOOR_GUARD_FAILED" /\ s.txn \in lapsed[s.key]

\* A caller that was told a decision was told the decision on record; an
\* APPROVED record may since have been reversed. Only a call that was so slow
\* that the reaper took its claim is answered with what it had decided itself.
\* SYSTEM_FAILURE is no decision: it comes as a 500, whether or not the
\* best-effort write succeeded.
ReplyMatchesRecord ==
    \A r \in Request : req[r].reply \in Terminal \ {"SYSTEM_FAILURE"} =>
        \/ txn[Submits[r]].status = req[r].reply
        \/ txn[Submits[r]].status = "REVERSED" /\ req[r].reply = "APPROVED"
        \/ txn[Submits[r]].status = "ABANDONED" /\ "slow" \in Faults

\* One reversal of a record at most is told that it did the reversing, and
\* any record told so, or told already reversed, is REVERSED for good.
OneReversal ==
    /\ \A v, w \in Reversal :
        v # w /\ Reverses[v] = Reverses[w] =>
            ~(rev[v].reply = "REVERSED" /\ rev[w].reply = "REVERSED")
    /\ \A v \in Reversal : rev[v].reply \in {"REVERSED", "ALREADY_REVERSED"} =>
            txn[Reverses[v]].status = "REVERSED"

\* A record changes status only as the idempotency contract allows: a claim
\* is made once, decided once, and only an approval can later be reversed.
Allowed == {<<"NONE", "PENDING">>, <<"APPROVED", "REVERSED">>}
           \cup ({"PENDING"} \X {"APPROVED", "REJECTED", "SYSTEM_FAILURE", "ABANDONED"})
StatusLifecycle ==
    [][\A t \in Txn : txn'[t].status # txn[t].status =>
         <<txn[t].status, txn'[t].status>> \in Allowed]_vars

\* Every claim is eventually decided, by its own call or by the reaper.
ClaimsAreDecided ==
    \A t \in Txn : txn[t].status = "PENDING" ~> txn[t].status \in Terminal

\* Every submission that has begun comes to an end, whatever fails in it: no
\* compensation goes round for ever, and a call that lost its claim to the
\* reaper does not wait for it. It ends without an answer only if it dies.
SubmitsEnd == \A r \in Request : Live(r) ~> ~Live(r)

\* Every reversal that has flipped its record comes to an end, and one that
\* says it reversed has given back every counter it should: what stays held
\* is what the registry skipped.
ReversalsEnd ==
    \A v \in Reversal :
        rev[v].pc = "undo" ~> rev[v].pc = "done" /\ (rev[v].reply = "REVERSED" => rev[v].left = {})
-----------------------------------------------------------------------------
(* The inductive invariants behind the properties. Behind                  *)
(* LedgerConservation: who may hold what, and that it is one at a time.    *)

\* A call starts with the first check, and at a check is at one of its plan.
StepInPlan ==
    \A r \in Request :
        /\ req[r].pc = "idle" => req[r].step = 1
        /\ req[r].pc \in {"check", "breach"} => req[r].step <= Len(Plan[Submits[r]])

\* What a call has applied: the windows it has passed, all of them until it
\* starts to give them back.
AppliedSoFar ==
    \A r \in Request :
        LET t == Submits[r] IN
        /\ req[r].pc \in {"check", "breach"} =>
               req[r].applied = WindowKeys(t, req[r].step - 1)
        /\ req[r].pc = "resolve" =>
               req[r].applied = IF req[r].outcome = "APPROVED"
                                THEN WindowKeys(t, Len(Plan[t])) ELSE {}
        /\ req[r].pc \in {"idle", "refetch"} => req[r].applied = {}
        /\ req[r].pc \in {"idle", "check", "breach"} => req[r].outcome = "APPROVED"
        /\ req[r].pc = "compensate" => req[r].outcome # "APPROVED"

\* The call that won the claim of its record, until it has handed over or
\* given back what it holds.
Owning(r) ==
    \/ req[r].pc \in {"check", "breach", "compensate", "resolve"}
    \/ req[r].applied # {}

\* A record has one owning call at most, and it is not decided meanwhile.
SingleOwner ==
    /\ \A r \in Request : Owning(r) => txn[Submits[r]].status \in {"PENDING", "ABANDONED"}
    /\ \A r, q \in Request : Owning(r) /\ Owning(q) /\ Submits[r] = Submits[q] => r = q

Reversing(v) == rev[v].pc = "undo" \/ rev[v].left \cup rev[v].skipped # {}

\* A record has one reversing call at most, and only once it is REVERSED.
SingleReversal ==
    /\ \A v \in Reversal : Reversing(v) => txn[Reverses[v]].status = "REVERSED"
    /\ \A v, w \in Reversal :
         Reversing(v) /\ Reversing(w) /\ Reverses[v] = Reverses[w] => v = w
    /\ \A v \in Reversal : rev[v].left \cap rev[v].skipped = {}
    /\ \A v \in Reversal : rev[v].pc = "idle" => ~Reversing(v)

\* Nothing of a record has lapsed or missed while checks may still count it,
\* and what a call in flight has applied has not lapsed.
NothingLost(t) == LapsedKeys(t) = {} /\ SignalKeys(t) = {}
LapsedLater ==
    /\ \A t \in Txn : txn[t].status = "NONE" => NothingLost(t)
    /\ \A r \in Request : req[r].pc \in {"check", "breach"} => NothingLost(Submits[r])
    /\ \A t \in Txn, k \in Key : InFlight(k, t) => t \notin lapsed[k]

SagaInvariant ==
    /\ TypeOK /\ StepInPlan /\ AppliedSoFar
    /\ SingleOwner /\ SingleReversal
    /\ LapsedLater /\ DriftIsExplained
    /\ LedgerConservation

\* The inductive invariant behind ReplyMatchesRecord: a claimed record is
\* worked on by one live call at most, which finds it undecided unless its own
\* last write was (SYSTEM_FAILURE), and which the reaper overtakes only if slow.
Claimant(r) == Owner(r, Submits[r])

SingleClaimant ==
    /\ \A r \in Request : Claimant(r) =>
         /\ txn[Submits[r]].status # "NONE"
         /\ req[r].outcome = "SYSTEM_FAILURE"
            \/ txn[Submits[r]].status \in {"PENDING", "ABANDONED"}
    /\ \A r, q \in Request : Claimant(r) /\ Claimant(q) /\ Submits[r] = Submits[q] => r = q

\* Only claimed records grow old, and a sweep reads only old ones.
ReaperKeepsAway ==
    /\ \A t \in stale : txn[t].status # "NONE"
    /\ reaping \subseteq stale
    /\ "slow" \notin Faults => \A r \in Request : Claimant(r) =>
         Submits[r] \notin stale /\ txn[Submits[r]].status # "ABANDONED"

\* The inductive invariant behind OneReversal: the call that flips a record is
\* the only one on its way to the answer REVERSED.
FlippedOnce ==
    LET Flipped(v) == rev[v].pc = "undo" \/ rev[v].reply = "REVERSED" IN
    /\ \A v, w \in Reversal :
         Flipped(v) /\ Flipped(w) /\ Reverses[v] = Reverses[w] => v = w
    /\ \A v \in Reversal : Flipped(v) \/ rev[v].reply = "ALREADY_REVERSED" =>
         txn[Reverses[v]].status = "REVERSED"
-----------------------------------------------------------------------------
\* The promise the service keeps: the records and what they hold behave as
\* the ledger of TransactionLedger, in which a limit is compared with the
\* holders themselves where the code compares it with a counter document.
Ledger == INSTANCE TransactionLedger
    WITH Strict <- Key \ Hot,
         Stuck <- ShardedRolling,
         status <- [t \in Txn |-> txn[t].status],
         held <- [t \in Txn |-> HeldBy(t)]
ImplementsLedger == Ledger!Spec
=============================================================================
