--------------------------- MODULE Reconciliation ---------------------------
(***************************************************************************)
(* The counter reconciliation of the limit service: the queue of drift     *)
(* signals, its drainers, and the sweep of closed windows, beside the      *)
(* submissions and reversals whose counters they repair and beside the TTL  *)
(* index that deletes counter documents.                                   *)
(*                                                                         *)
(* A transaction is seen here through one counter document: the increment, *)
(* the write of its record, and the decrement that undoes it are separate  *)
(* steps (TransactionSaga has the whole call). Reconciliation compares the *)
(* document with the sum over the APPROVED records and may overwrite it;   *)
(* its read of the document, its derivation and its overwrite are three    *)
(* database operations with anything in between.                           *)
(***************************************************************************)
EXTENDS Amounts

CONSTANTS
    Key,
    Rolling,     \* the keys of DAILY_ROLLING documents
    Drainer,     \* runs of processQueue, on one instance or several
    Sweeper,     \* runs of sweepClosedWindows
    Absent,      \* no document
    NoSignal,    \* what a sweep works through: no signal
    QueueLimit,  \* the signals a drainer reads at most (200)
    SweepLimit,  \* the documents a sweep reads at most (500)
    AutoCorrectOpenWindows,
    Faults

\* A transaction fails to give back its increment once per reason at most.
Source == Txn \X {"COMPENSATION_FLOOR_GUARD_FAILED", "REVERSAL_FLOOR_GUARD_FAILED"}

\* The total of a counter document, flat or rolling.
Document == [amount : Nat, count : Nat]

ASSUME ReconciliationAssumption ==
    /\ Rolling \subseteq Key /\ Drainer \cap Sweeper = {}
    /\ \A t \in Txn : Amount[t] > 0
    /\ NoSignal \notin Source /\ Absent \notin Key \cup Document
    /\ AutoCorrectOpenWindows \in BOOLEAN
    /\ QueueLimit \in Nat \ {0} /\ SweepLimit \in Nat \ {0}

Worker == Drainer \cup Sweeper
Outcome == {"none", "DOC_GONE", "NONE", "ALERTED", "CORRECTED"}

VARIABLES
    window,  \* Key -> "open", or "closed" once expireAt has passed
    doc,     \* Key -> the counter document, or Absent
    use,     \* Txn -> how far the transaction has come
    keyOf,   \* Txn -> the document it counts in
    signal,  \* Source -> a drift signal: status and resolution
    worker   \* Worker -> the local state of a run

vars == <<window, doc, use, keyOf, signal, worker>>

Zero == [amount |-> 0, count |-> 0]

\* The record says APPROVED: also while the saga of its call unwinds it, which
\* was told that the resolve had failed.
OnRecord == {"approved", "lost", "lostDrift"}

\* deriveExpectedCounterTotal: the sum over the APPROVED records that list k.
Expected(k) ==
    LET approved == {t \in Txn : use[t] \in OnRecord /\ keyOf[t] = k}
    IN  [amount |-> TotalAmount(approved),
         count |-> Cardinality(approved)]

Idle == [pc |-> "idle", todo |-> {}, item |-> <<>>, closed |-> {},
         live |-> Zero, goal |-> Zero, outcome |-> "none"]

Init ==
    /\ window = [k \in Key |-> "open"]
    /\ doc = [k \in Key |-> Absent]
    /\ use = [t \in Txn |-> "new"]
    /\ keyOf = [t \in Txn |-> Absent]
    /\ signal = [s \in Source |-> [status |-> "none", outcome |-> "none"]]
    /\ worker = [w \in Worker |-> Idle]
-----------------------------------------------------------------------------
(* The transactions.                                                       *)

Goes(t, from, to) == use[t] \in from /\ use' = [use EXCEPT ![t] = to]

\* submit() takes its `now`, and with it the window, while that is open.
Begin(t) ==
    /\ Goes(t, {"new"}, "begun")
    /\ \E k \in Key : window[k] = "open" /\ keyOf' = [keyOf EXCEPT ![t] = k]
    /\ UNCHANGED <<window, doc, signal, worker>>

\* The increment; its bootstrap creates the document where there is none,
\* even a second time after the TTL index has deleted it.
Increment(t) ==
    LET k == keyOf[t]
        old == IF doc[k] = Absent THEN Zero ELSE doc[k] IN
    /\ Goes(t, {"begun"}, "applied")
    /\ doc' = [doc EXCEPT ![k] = [amount |-> old.amount + Amount[t], count |-> old.count + 1]]
    /\ UNCHANGED <<keyOf, window, signal, worker>>

\* Mutant: the record is written before the counter.
ApproveFirst(t) ==
    /\ Goes(t, {"begun", "applied"}, "approved")
    /\ UNCHANGED <<keyOf, window, doc, signal, worker>>

Approve(t) ==
    /\ Goes(t, {"applied"}, "approved")
    /\ UNCHANGED <<keyOf, window, doc, signal, worker>>

\* The resolve is applied and reported as failed: the saga unwinds a record
\* that stays APPROVED. (A reversal is taken to come after that.)
ApproveUnconfirmed(t) ==
    /\ "unconfirmed" \in Faults
    /\ Goes(t, {"applied"}, "lost")
    /\ UNCHANGED <<keyOf, window, doc, signal, worker>>

\* A later check is breached, or the resolve fails: the saga unwinds.
Reject(t) ==
    /\ Goes(t, {"applied"}, "unwinding")
    /\ UNCHANGED <<keyOf, window, doc, signal, worker>>

Flip(t) ==
    /\ Goes(t, {"approved"}, "reversing")
    /\ UNCHANGED <<keyOf, window, doc, signal, worker>>

Ended(t) ==
    CASE use[t] \in {"unwinding", "unwindDrift"} -> "rejected"
      [] use[t] \in {"lost", "lostDrift"} -> "approved"
      [] OTHER -> "reversed"

\* What undoes an increment, and where it goes if its floor guard fails.
Drifting == [unwinding |-> "unwindDrift", lost |-> "lostDrift", reversing |-> "reverseDrift"]
Drifts == {"unwindDrift", "lostDrift", "reverseDrift"}

\* Mutant: it is enough that the document is there.
FloorHoldsIfThere(t) == doc[keyOf[t]] # Absent

\* The floor guard: the document is there, and holds what is given back.
FloorHolds(t) ==
    LET d == doc[keyOf[t]] IN d # Absent /\ d.amount >= Amount[t] /\ d.count >= 1

\* #compensateOne, of a saga or a reversal.
Undo(t) ==
    /\ use[t] \in DOMAIN Drifting
    /\ IF FloorHolds(t)
       THEN /\ doc' = [doc EXCEPT ![keyOf[t]] = [amount |-> @.amount - Amount[t],
                                                  count |-> @.count - 1]]
            /\ use' = [use EXCEPT ![t] = Ended(t)]
       ELSE /\ use' = [use EXCEPT ![t] = Drifting[@]]
            /\ UNCHANGED doc
    /\ UNCHANGED <<keyOf, window, signal, worker>>

Reason(t) == IF use[t] = "reverseDrift" THEN "REVERSAL_FLOOR_GUARD_FAILED"
             ELSE "COMPENSATION_FLOOR_GUARD_FAILED"

\* #queueDrift: a failed floor guard enqueues a signal.
QueueDrift(t) ==
    /\ use[t] \in Drifts
    /\ use' = [use EXCEPT ![t] = Ended(t)]
    /\ signal' = [signal EXCEPT ![<<t, Reason(t)>>].status = "PENDING"]
    /\ UNCHANGED <<keyOf, window, doc, worker>>

\* ... and if that fails, the error is logged and swallowed.
QueueDriftFails(t) ==
    /\ "throw" \in Faults
    /\ use[t] \in Drifts
    /\ use' = [use EXCEPT ![t] = Ended(t)]
    /\ UNCHANGED <<keyOf, window, doc, signal, worker>>

\* The process dies between two writes of the call; a claim it leaves is
\* abandoned later, and a record it has flipped stays REVERSED.
Die(t) ==
    /\ "crash" \in Faults
    /\ \/ Goes(t, {"begun", "applied", "unwinding", "unwindDrift", "reversing", "reverseDrift"},
               "dead")
       \/ Goes(t, {"lost", "lostDrift"}, "approved")
    /\ UNCHANGED <<keyOf, window, doc, signal, worker>>

Transaction(t) ==
    \/ Begin(t) \/ Increment(t) \/ Approve(t) \/ Reject(t) \/ Flip(t)
    \/ Undo(t) \/ QueueDrift(t)
-----------------------------------------------------------------------------
(* Time.                                                                   *)

\* expireAt passes: the boundary of the window, and five minutes of grace.
Close(k) ==
    /\ window[k] = "open"
    /\ window' = [window EXCEPT ![k] = "closed"]
    /\ UNCHANGED <<keyOf, doc, use, signal, worker>>

\* The TTL index deletes the document.
Expire(k) ==
    /\ "ttl" \in Faults
    /\ window[k] = "closed" /\ doc[k] # Absent
    /\ doc' = [doc EXCEPT ![k] = Absent]
    /\ UNCHANGED <<keyOf, window, use, signal, worker>>
-----------------------------------------------------------------------------
(* The drainers and the sweepers.                                          *)

KeyAt(w) == worker[w].item[1]

\* What a query with a limit and no sort returns: all it finds, or as many of
\* it as the limit allows, any of them.
Batches(found, limit) ==
    IF Cardinality(found) <= limit THEN {found}
    ELSE {B \in SUBSET found : Cardinality(B) = limit}

\* A run works through pairs of a key and the signal about it.
Starts(w, found, limit) ==
    /\ worker[w].pc = "idle"
    /\ found # {}
    /\ \E batch \in Batches(found, limit) :
        worker' = [worker EXCEPT ![w].pc = "next", ![w].todo = batch,
                                 ![w].closed = {k \in Key : window[k] = "closed"}]
    /\ UNCHANGED <<keyOf, window, doc, use, signal>>

\* processQueue reads the PENDING signals.
StartQueue(w) ==
    /\ w \in Drainer
    /\ Starts(w, {<<keyOf[s[1]], s>> : s \in {x \in Source : signal[x].status = "PENDING"}},
              QueueLimit)

\* The flat documents whose expireAt has passed, corrected before or not.
Due == {k \in Key \ Rolling : window[k] = "closed" /\ doc[k] # Absent}

\* sweepClosedWindows reads those that are due.
StartSweep(w) ==
    /\ w \in Sweeper
    /\ Starts(w, Due \X {NoSignal}, SweepLimit)

Outcomes(w, item, outcome) ==
    worker' = [worker EXCEPT ![w].pc = "mark", ![w].item = item, ![w].outcome = outcome,
                             ![w].live = Zero, ![w].goal = Zero]

\* #reconcileOne reads the document of the next item; #alertRollingDrift
\* only logs.
ReadDocument(w) ==
    /\ worker[w].pc = "next"
    /\ \E item \in worker[w].todo :
        LET k == item[1] IN
        \/ k \in Rolling /\ Outcomes(w, item, "ALERTED")
        \/ k \notin Rolling /\ doc[k] = Absent /\ Outcomes(w, item, "DOC_GONE")
        \/ /\ k \notin Rolling /\ doc[k] # Absent
           /\ worker' = [worker EXCEPT ![w].pc = "derive", ![w].item = item,
                                       ![w].live = doc[k]]
    /\ UNCHANGED <<keyOf, window, doc, use, signal>>

\* Mutant: an open window is corrected as well.
MayCorrectAny(w) == TRUE

\* Mutant: only what was signalled is corrected.
MayCorrectSignalled(w) == worker[w].item[2] # NoSignal /\ KeyAt(w) \in worker[w].closed

\* A sweep knows its windows closed; a drainer compares with its own `now`.
MayCorrect(w) ==
    worker[w].item[2] = NoSignal \/ KeyAt(w) \in worker[w].closed \/ AutoCorrectOpenWindows

\* It derives what the records add up to, and decides.
Derive(w) ==
    LET goal == Expected(KeyAt(w)) IN
    /\ worker[w].pc = "derive"
    /\ IF goal = worker[w].live THEN Outcomes(w, worker[w].item, "NONE")
       ELSE IF MayCorrect(w)
       THEN worker' = [worker EXCEPT ![w].pc = "correct", ![w].goal = goal]
       ELSE Outcomes(w, worker[w].item, "ALERTED")
    /\ UNCHANGED <<keyOf, window, doc, use, signal>>

\* correctCounterValue overwrites whatever the document holds by now.
Correct(w) ==
    LET k == KeyAt(w) IN
    /\ worker[w].pc = "correct"
    /\ doc' = IF doc[k] = Absent THEN doc ELSE [doc EXCEPT ![k] = worker[w].goal]
    /\ Outcomes(w, worker[w].item, "CORRECTED")
    /\ UNCHANGED <<keyOf, window, use, signal>>

\* Mutant: a signal is resolved whatever its status.
ResolvedAgain(s, outcome) ==
    signal' = [signal EXCEPT ![s] = [status |-> "RESOLVED", outcome |-> outcome]]

\* Mutant: a signal whose document is gone stays in the queue.
ResolvedIfThere(s, outcome) ==
    signal' = IF signal[s].status = "PENDING" /\ outcome # "DOC_GONE"
              THEN [signal EXCEPT ![s] = [status |-> "RESOLVED", outcome |-> outcome]]
              ELSE signal

\* markResolved: a signal is resolved once.
ResolvedOnce(s, outcome) ==
    signal' = IF signal[s].status = "PENDING"
              THEN [signal EXCEPT ![s] = [status |-> "RESOLVED", outcome |-> outcome]]
              ELSE signal

\* The signal of the item is resolved; then the next item, until none is left.
Mark(w) ==
    LET left == worker[w].todo \ {worker[w].item}  s == worker[w].item[2] IN
    /\ worker[w].pc = "mark"
    /\ IF s = NoSignal THEN UNCHANGED signal ELSE ResolvedOnce(s, worker[w].outcome)
    /\ worker' = [worker EXCEPT ![w] =
                    IF left = {} THEN Idle ELSE [Idle EXCEPT !.pc = "next", !.todo = left,
                                                             !.closed = worker[w].closed]]
    /\ UNCHANGED <<keyOf, window, doc, use>>

\* An operation of the run throws, or its process dies: what is left of its
\* list waits for a later run.
Stops(w) ==
    /\ "workers" \in Faults
    /\ worker[w].pc # "idle"
    /\ worker' = [worker EXCEPT ![w] = Idle]
    /\ UNCHANGED <<keyOf, window, doc, use, signal>>

WorkerStep(w) == ReadDocument(w) \/ Derive(w) \/ Correct(w) \/ Mark(w)
-----------------------------------------------------------------------------
Next ==
    \/ \E t \in Txn : Transaction(t) \/ QueueDriftFails(t) \/ Die(t) \/ ApproveUnconfirmed(t)
    \/ \E k \in Key : Close(k) \/ Expire(k)
    \/ \E w \in Worker : StartQueue(w) \/ StartSweep(w) \/ WorkerStep(w) \/ Stops(w)

Spec == Init /\ [][Next]_vars

\* Time passes, calls that have begun go on, and both timers keep firing.
Fairness ==
    /\ \A k \in Key : WF_vars(Close(k))
    /\ \A t \in Txn : WF_vars(use[t] \notin {"new", "approved"} /\ Transaction(t))
    /\ \A w \in Worker : WF_vars(StartQueue(w)) /\ WF_vars(StartSweep(w)) /\ WF_vars(WorkerStep(w))

FairSpec == Spec /\ Fairness
-----------------------------------------------------------------------------
(* Properties.                                                             *)

Item == Key \X (Source \cup {NoSignal})

\* The state variables keep their types; a document never goes negative.
TypeOK ==
    /\ window \in [Key -> {"open", "closed"}]
    /\ doc \in [Key -> Document \cup {Absent}]
    /\ use \in [Txn -> {"new", "begun", "applied", "approved", "unwinding", "unwindDrift",
                        "lost", "lostDrift", "reversing", "reverseDrift", "rejected", "reversed",
                        "dead"}]
    /\ keyOf \in [Txn -> Key \cup {Absent}]
    /\ signal \in [Source -> [status : {"none", "PENDING", "RESOLVED"}, outcome : Outcome]]
    /\ worker \in [Worker -> [pc : {"idle", "next", "derive", "correct", "mark"},
                              todo : SUBSET Item, item : Item \cup {<<>>},
                              closed : SUBSET Key, live : Document, goal : Document,
                              outcome : Outcome]]

\* The counter of an open window is changed by the submissions and reversals
\* that count in it and by nobody else: a live risk counter is never silently
\* rewritten, whatever a run has read before.
LiveCounterUntouched ==
    [][\A k \in Key : window[k] = "open" /\ doc'[k] # doc[k] =>
         \E t \in Txn : keyOf[t] = k /\ use'[t] # use[t]]_vars

\* A rolling document, whose total is its buckets' and not a sum of records
\* of one window, is only alerted: nothing but a call that counts in it, or
\* the TTL index, ever changes it.
RollingUntouched ==
    [][\A k \in Rolling : doc'[k] \notin {doc[k], Absent} =>
         \E t \in Txn : keyOf[t] = k /\ use'[t] # use[t]]_vars

\* A signal that two runs work on at once keeps its first resolution.
ResolutionsStand ==
    [][\A s \in Source : signal[s].status = "RESOLVED" => signal'[s] = signal[s]]_vars

\* No signal is lost: whatever run it is read by, it is resolved.
SignalsAreResolved ==
    \A s \in Source : signal[s].status = "PENDING" ~> signal[s].status = "RESOLVED"

InSync(k) == doc[k] = Absent \/ doc[k] = Expected(k)

\* Whatever calls died halfway, and however a correction raced another step,
\* the flat document of a closed window ends up as the sum of its records, if
\* in the end no more documents are due than one sweep reads. (A sweep does
\* not leave out what an earlier one has settled: of more than that it may
\* read the same ones for ever.)
DriftIsRepaired ==
    \A k \in Key \ Rolling : <>[](Cardinality(Due) <= SweepLimit) => <>[]InSync(k)

\* The counter of an open window never holds less than its APPROVED records
\* add up to, so that a failure can only cost a false rejection: the counter
\* is raised before the record says APPROVED, and lowered after it no longer
\* does.
NeverUndercounts ==
    \A k \in Key : window[k] = "open" =>
        LET d == IF doc[k] = Absent THEN Zero ELSE doc[k]
        IN  d.amount >= Expected(k).amount /\ d.count >= Expected(k).count
=============================================================================
