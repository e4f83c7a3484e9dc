------------------------------ MODULE Archival ------------------------------
(***************************************************************************)
(* The two tiers of the transaction records: the live `transactions`       *)
(* collection, in which records are claimed, decided and reversed, and     *)
(* `transactionsArchive`, to which the archival sweeps of the processes    *)
(* copy the old ones before they delete them, while status lookups read    *)
(* the one and then the other.                                             *)
(*                                                                         *)
(* What happens to a record in the hot tier is TransactionSaga's: here a   *)
(* decision and a reversal are one step each. A record is its status and   *)
(* the number of its claim, which tells it from an earlier record of the   *)
(* same identifier.                                                        *)
(***************************************************************************)
EXTENDS Naturals, FiniteSets

CONSTANTS
    Txn,        \* record identifiers
    Sweeper,    \* the sweeps that may run at once, of all processes
    Reader,     \* calls of getStatus
    BatchLimit, \* how many records a sweep reads at most
    Outcome,    \* what a claim may be decided to be
    MaxClaims,  \* Txn -> a bound on the claims of the identifier
    MaxStops,   \* a bound on the sweeps that stop half way
    Absent      \* no record

Terminal == {"APPROVED", "REJECTED", "SYSTEM_FAILURE", "ABANDONED", "REVERSED"}
Record == [status : Terminal \cup {"PENDING"}, claim : Nat]

ASSUME ArchivalAssumption ==
    /\ IsFiniteSet(Txn)
    /\ BatchLimit \in Nat \ {0} /\ MaxStops \in Nat
    /\ MaxClaims \in [Txn -> Nat]
    /\ Outcome \subseteq Terminal \ {"REVERSED"}
    /\ Absent \notin Record

VARIABLES
    hot,      \* Txn -> the record in the live collection
    archive,  \* Txn -> the record in the archive
    claims,   \* Txn -> how often the identifier was claimed
    old,      \* the hot records past the retention cutoff
    sweep,    \* Sweeper -> the records it has read, and the one it has copied
    stops,    \* how many sweeps have stopped half way
    lookup,   \* Reader -> the local state of a getStatus() call
    last,     \* Txn -> the record as it last was in the hot tier (history)
    touched   \* records changed while an archived copy of them was under way (history)

vars == <<hot, archive, claims, old, sweep, stops, lookup, last, touched>>
-----------------------------------------------------------------------------
NoBatch == [batch |-> [t \in Txn |-> Absent], copied |-> {}]
NoLookup == [pc |-> "idle", txn |-> {}, reply |-> Absent, due |-> FALSE]

Init ==
    /\ hot = [t \in Txn |-> Absent] /\ archive = [t \in Txn |-> Absent]
    /\ claims = [t \in Txn |-> 0] /\ old = {}
    /\ sweep = [s \in Sweeper |-> NoBatch] /\ stops = 0
    /\ lookup = [g \in Reader |-> NoLookup]
    /\ last = [t \in Txn |-> Absent] /\ touched = {}

IsTerminal(record) == record # Absent /\ record.status \in Terminal

\* A lookup of t finds a decision, in one tier or the other: the last one of the
\* identifier or, in the archive, one from before (see DecisionsStay).
Known(t) == IsTerminal(hot[t]) \/ archive[t] # Absent

\* A copy of record t is in the archive, or in the hands of a sweep.
Copied(t) == archive[t] # Absent \/ \E s \in Sweeper : sweep[s].batch[t] # Absent
-----------------------------------------------------------------------------
(* The hot tier.                                                           *)

\* The hot record of t becomes r; updatedAt is set.
Write(t, r) ==
    /\ hot' = [hot EXCEPT ![t] = r]
    /\ last' = [last EXCEPT ![t] = r]
    /\ old' = old \ {t}
    /\ touched' = IF Copied(t) THEN touched \cup {t} ELSE touched

\* claim(): the insert meets no record in the hot tier. The archive is not asked.
Claim(t) ==
    /\ hot[t] = Absent
    /\ claims[t] < MaxClaims[t]
    /\ claims' = [claims EXCEPT ![t] = @ + 1]
    /\ Write(t, [status |-> "PENDING", claim |-> claims[t] + 1])
    /\ UNCHANGED <<archive, sweep, stops, lookup>>

\* resolve() or abandon().
Decide(t) ==
    /\ hot[t] # Absent /\ hot[t].status = "PENDING"
    /\ \E status \in Outcome : Write(t, [hot[t] EXCEPT !.status = status])
    /\ UNCHANGED <<archive, claims, sweep, stops, lookup>>

\* Mutant: the flip leaves updatedAt alone.
ReverseUndated(t) ==
    /\ hot[t] # Absent /\ hot[t].status = "APPROVED"
    /\ hot' = [hot EXCEPT ![t].status = "REVERSED"]
    /\ last' = hot'
    /\ UNCHANGED <<archive, claims, old, sweep, stops, lookup, touched>>

\* reverseIfApproved().
Reverse(t) ==
    /\ hot[t] # Absent /\ hot[t].status = "APPROVED"
    /\ Write(t, [hot[t] EXCEPT !.status = "REVERSED"])
    /\ UNCHANGED <<archive, claims, sweep, stops, lookup>>

\* The record is past the hot-retention window.
GrowOld(t) ==
    /\ hot[t] # Absent /\ t \notin old
    /\ old' = old \cup {t}
    /\ UNCHANGED <<hot, archive, claims, sweep, stops, lookup, last, touched>>
-----------------------------------------------------------------------------
(* sweep().                                                                *)

\* Mutant: the status is not in the query.
CandidatesOfAnyStatus == {t \in old : hot[t] # Absent}

\* findTerminalOlderThan ...
Candidates == {t \in old : IsTerminal(hot[t])}

\* ... which returns no more than BatchLimit of them, in no order.
Scan(s) ==
    /\ sweep[s] = NoBatch
    /\ Candidates # {}
    /\ \E B \in SUBSET Candidates :
        /\ B # {} /\ Cardinality(B) <= BatchLimit
        /\ B = Candidates \/ Cardinality(B) = BatchLimit
        /\ sweep' = [sweep EXCEPT ![s].batch =
                        [t \in Txn |-> IF t \in B THEN hot[t] ELSE Absent]]
    /\ UNCHANGED <<hot, archive, claims, old, stops, lookup, last, touched>>

\* Mutant: a duplicate key ends the sweep.
CopyThrows(s, t) ==
    /\ sweep[s].batch[t] # Absent /\ sweep[s].copied = {}
    /\ archive[t] = Absent
    /\ archive' = [archive EXCEPT ![t] = sweep[s].batch[t]]
    /\ sweep' = [sweep EXCEPT ![s].copied = {t}]
    /\ UNCHANGED <<hot, claims, old, stops, lookup, last, touched>>

\* insertArchived: what the scan has read; a duplicate key is swallowed.
Copy(s, t) ==
    /\ sweep[s].batch[t] # Absent /\ sweep[s].copied = {}
    /\ archive' = [archive EXCEPT ![t] = IF @ = Absent THEN sweep[s].batch[t] ELSE @]
    /\ sweep' = [sweep EXCEPT ![s].copied = {t}]
    /\ UNCHANGED <<hot, claims, old, stops, lookup, last, touched>>

\* Mutant: the record is deleted before it is copied.
DeleteFirst(s, t) ==
    /\ sweep[s].batch[t] # Absent
    /\ hot' = [hot EXCEPT ![t] = Absent]
    /\ old' = old \ {t}
    /\ UNCHANGED <<archive, claims, sweep, stops, lookup, last, touched>>

\* deleteArchived: by identifier, whatever the record is by now.
Delete(s, t) ==
    /\ t \in sweep[s].copied
    /\ hot' = [hot EXCEPT ![t] = Absent]
    /\ old' = old \ {t}
    /\ sweep' = [sweep EXCEPT ![s].batch[t] = Absent, ![s].copied = {}]
    /\ UNCHANGED <<archive, claims, stops, lookup, last, touched>>

\* The process dies or an operation throws: the rest of the batch is left.
SweepStops(s) ==
    /\ sweep[s] # NoBatch
    /\ stops < MaxStops
    /\ stops' = stops + 1
    /\ sweep' = [sweep EXCEPT ![s] = NoBatch]
    /\ UNCHANGED <<hot, archive, claims, old, lookup, last, touched>>
-----------------------------------------------------------------------------
(* getStatus().                                                            *)

\* The call begins: it is due an answer if the decision is on record by now.
Look(g) ==
    /\ lookup[g].pc = "idle"
    /\ \E t \in Txn :
        lookup' = [lookup EXCEPT ![g].pc = "hot", ![g].txn = {t}, ![g].due = Known(t)]
    /\ UNCHANGED <<hot, archive, claims, old, sweep, stops, last, touched>>

\* Mutant: the archive is not asked.
LookHotOnly(g) ==
    /\ lookup[g].pc = "hot"
    /\ \E t \in lookup[g].txn :
        lookup' = [lookup EXCEPT ![g].pc = "done", ![g].reply = hot[t]]
    /\ UNCHANGED <<hot, archive, claims, old, sweep, stops, last, touched>>

\* The hot tier is read ...
LookHot(g) ==
    /\ lookup[g].pc = "hot"
    /\ \E t \in lookup[g].txn :
        lookup' = [lookup EXCEPT ![g].pc = IF hot[t] = Absent THEN "archive" ELSE "done",
                                 ![g].reply = hot[t]]
    /\ UNCHANGED <<hot, archive, claims, old, sweep, stops, last, touched>>

\* ... and where it has nothing, the archive.
LookArchive(g) ==
    /\ lookup[g].pc = "archive"
    /\ \E t \in lookup[g].txn :
        lookup' = [lookup EXCEPT ![g].pc = "done", ![g].reply = archive[t]]
    /\ UNCHANGED <<hot, archive, claims, old, sweep, stops, last, touched>>
-----------------------------------------------------------------------------
RecordStep(t) == Claim(t) \/ Decide(t) \/ Reverse(t) \/ GrowOld(t)
SweepStep(s) == Scan(s) \/ \E t \in Txn : Copy(s, t) \/ Delete(s, t)

Next ==
    \/ \E t \in Txn : RecordStep(t)
    \/ \E s \in Sweeper : SweepStep(s) \/ SweepStops(s)
    \/ \E g \in Reader : Look(g) \/ LookHot(g) \/ LookArchive(g)

Spec == Init /\ [][Next]_vars

\* The timer of every process keeps firing and its sweeps go on.
Fairness == \A s \in Sweeper : WF_vars(SweepStep(s))

FairSpec == Spec /\ Fairness
-----------------------------------------------------------------------------
(* Properties.                                                             *)

MayBe == Record \cup {Absent}
Decision == {r \in Record : r.status \in Terminal} \cup {Absent}

\* The state variables keep their types: only decisions are read by a sweep and
\* come into the archive, never a claim that is being worked on.
TypeOK ==
    /\ hot \in [Txn -> MayBe] /\ archive \in [Txn -> Decision] /\ last \in [Txn -> MayBe]
    /\ claims \in [Txn -> Nat] /\ \A t \in Txn : claims[t] <= MaxClaims[t]
    /\ old \subseteq Txn /\ touched \subseteq Txn /\ stops \in 0..MaxStops
    /\ sweep \in [Sweeper -> [batch : [Txn -> Decision], copied : SUBSET Txn]]
    /\ lookup \in [Reader -> [pc : {"idle", "hot", "archive", "done"}, txn : SUBSET Txn,
                              reply : MayBe, due : BOOLEAN]]

\* Record c is what an earlier claim of r's identifier came to, or the approval
\* that r has reversed.
Superseded(c, r) ==
    \/ c.claim < r.claim
    \/ r.status = "REVERSED" /\ c = [r EXCEPT !.status = "APPROVED"]

\* The last decision on a record, and its reversal, stay on record as they are, in
\* one tier or the other, wherever sweeps stop and however they overlap: but for
\* what the swallowed duplicate key costs. Where the archive already has a record
\* of an earlier claim of the identifier, or the approval from before a reversal
\* that came once the copy was made, that one stays and the later one is deleted.
DecisionsStay ==
    \A t \in Txn : IsTerminal(last[t]) /\ last[t] \notin {hot[t], archive[t]}
        => t \in touched /\ archive[t] # Absent /\ Superseded(archive[t], last[t])

\* A lookup that starts when the decision is on record finds a record, even if
\* a sweep moves it while the lookup is between the two tiers.
LookupsFind ==
    \A g \in Reader : lookup[g].pc = "done" /\ lookup[g].due => lookup[g].reply # Absent

\* Once a record has left the hot tier, the archive has it as it last was: a
\* reversal or an outcome the record has seen is in the archived copy, if only
\* nothing wrote to the record while it was copied.
ArchiveIsLast ==
    \A t \in Txn : archive[t] # Absent /\ hot[t] = Absent /\ t \notin touched
        => archive[t] = last[t]

\* No sweep takes away a claim that is being worked on, or a decision nobody
\* has copied, but from an identifier that was claimed again or reversed while
\* its old record was on its way.
OnlyCopiesGo ==
    [][\A t \in Txn : hot[t] # Absent /\ hot'[t] = Absent /\ t \notin touched
         => IsTerminal(hot[t]) /\ archive[t] = hot[t]]_vars

\* The hot tier does not grow for ever: every old decision leaves it, unless a
\* reversal makes it young again.
OldRecordsLeave ==
    \A t \in Txn : t \in old /\ IsTerminal(hot[t]) ~> ~(t \in old /\ IsTerminal(hot[t]))
=============================================================================
