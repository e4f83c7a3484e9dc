-------------------------- MODULE SagaConservation --------------------------
(***************************************************************************)
(* The inductive invariant of TransactionSaga and the safety properties    *)
(* that follow from it, for every number of records, calls and counters:   *)
(* every counter document is the sum of the records that hold it, and the  *)
(* service implements TransactionLedger. The argument:                     *)
(*  - TotalAmount is additive (AmountProofs);                              *)
(*  - a record has one owner (SingleOwner) and one reversal                *)
(*    (SingleReversal), which alone holds, or owes, what the record holds; *)
(*  - so each step of a call moves one key of one record in or out of the  *)
(*    lists, or none (ListsMove), and a key that leaves a list without     *)
(*    leaving its counter leaves a signal behind (DriftIsExplained);       *)
(*  - time takes from a counter what no call in flight may give back, and  *)
(*    nothing of it before a call could count it (LapsedLater);            *)
(*  - so each step moves records in or out of the ledger as it adds to or  *)
(*    takes from the counter, or it moves none and at most changes the     *)
(*    status of one record (HoldersMove);                                  *)
(*  - which are the steps of the abstract ledger.                          *)
(* It assumes that no write is applied and yet reported as failed: with    *)
(* that fault the properties are false (see the run ClaimOverApproval).    *)
(***************************************************************************)
EXTENDS TransactionSagaProofs, AmountProofs

-----------------------------------------------------------------------------
(* One owner of a record, and one reversal of it.                          *)

\* No write is applied and yet reported as failed.
Reliable == "unconfirmed" \notin Faults /\ "retried" \notin Faults

\* What time takes away changes no record, no call and no signal.
LEMMA LapseFrame ==
    ASSUME LapseStep
    PROVE  UNCHANGED <<txn, req, rev, signals>>
PROOF BY DEF LapseStep, Expire, Prune

\* Then no update is issued twice.
LEMMA NoRetries == ASSUME Reliable PROVE ~RetryStep
PROOF BY DEF Reliable, RetryStep, ReissueIncrement, ReissueCompensation, ReissueReversal, Reissue

\* A call becomes the owner of a record by claiming it only, and decides it
\* by resolving it only; every other step leaves all records as they are.
LEMMA OwnerStep ==
    ASSUME Reliable, TypeOK, AppliedSoFar, NEW r \in Request,
           SubmitStep(r) \/ SubmitFault(r) \/ RefuseDirection(r)
    PROVE  \/ UNCHANGED txn /\ (Owning(r)' => Owning(r))
           \/ Claim(r)
           \/ Resolve(r)
PROOF
  <1>r. req[r] \in RequestState /\ r \in DOMAIN req
    BY RequestType
  <1>1. CASE RefuseDirection(r) \/ ClaimDuplicate(r) \/ ReplayExisting(r)
    <2>1. req[r].applied = {}
      BY <1>1 DEF RefuseDirection, ClaimDuplicate, ReplayExisting, AppliedSoFar
    <2>2. req'[r].pc \in {"done", "refetch"} /\ req'[r].applied = req[r].applied
      BY <1>1, <1>r DEF RefuseDirection, ClaimDuplicate, ReplayExisting, Answer, RequestState
    <2> QED BY <1>1, <2>1, <2>2 DEF Owning, RefuseDirection, ClaimDuplicate, ReplayExisting
  <1>2. CASE WaterfallStep(r)
    <2>1. Owning(r)
      BY <1>2 DEF Owning, WaterfallStep, PerTxnCheck, GuardedIncrement,
                  GuardedIncrementMisses, ReadBreach, SoftIncrement, SoftBreach, Compensate,
                  AtCheck
    <2>2. UNCHANGED txn
      BY <1>2 DEF WaterfallStep, PerTxnCheck, GuardedIncrement,
                  GuardedIncrementMisses, ReadBreach, SoftIncrement, SoftBreach, Compensate
    <2> QED BY <2>1, <2>2
  <1>3. CASE ResolveMisses(r) \/ ResolveThrows(r)
    BY <1>3 DEF ResolveMisses, ResolveThrows, Owning
  <1>4. CASE Crash(r) \/ CallThrows(r)
    <2>1. req'[r].pc = "done" /\ req'[r].applied = req[r].applied
      BY <1>4, <1>r DEF Crash, CallThrows, Answer, RequestState
    <2> QED BY <1>4, <2>1 DEF Owning, Crash, CallThrows
  <1>5. CASE ClaimUnconfirmed(r) \/ ResolveUnconfirmed(r)
    BY <1>5 DEF ClaimUnconfirmed, ResolveUnconfirmed, Reliable
  <1> QED BY <1>1, <1>2, <1>3, <1>4, <1>5 DEF SubmitStep, SubmitFault

\* A call that has resolved its record has handed over, or given back, all.
LEMMA ResolvedHoldsNothing ==
    ASSUME TypeOK, AppliedSoFar, NEW r \in Request, Resolve(r)
    PROVE  ~Owning(r)' /\ req'[r].applied = {} /\ Resolved(r).applied = req[r].applied
PROOF
  <1>1. req[r] \in RequestState /\ r \in DOMAIN req
    BY RequestType
  <1>2. Resolved(r).applied = req[r].applied
    BY DEF Resolve, Resolved, AppliedSoFar
  <1>3. req'[r].applied = req[r].applied \ Resolved(r).applied /\ req'[r].pc = "done"
    BY <1>1 DEF Resolve, RequestState
  <1> QED BY <1>2, <1>3 DEF Owning

\* Submissions keep a record to one owner, and its reversal to one call.
LEMMA SubmitOwners ==
    ASSUME Reliable, TypeOK, AppliedSoFar, SingleOwner, SingleReversal, NEW r \in Request,
           SubmitStep(r) \/ SubmitFault(r) \/ RefuseDirection(r)
    PROVE  SingleOwner' /\ SingleReversal'
PROOF
  <1>1. \A q \in Request \ {r} : req'[q] = req[q] /\ (Owning(q)' <=> Owning(q))
    BY OnlyOwnState DEF Owning
  <1>2. UNCHANGED rev /\ \A v \in Reversal : Reversing(v)' <=> Reversing(v)
    <2>1. UNCHANGED rev
      BY DEF SubmitStep, SubmitFault, WaterfallStep, RefuseDirection, Claim, ClaimDuplicate,
             ReplayExisting, PerTxnCheck, GuardedIncrement, GuardedIncrementMisses,
             ReadBreach, SoftIncrement, SoftBreach, Compensate, Resolve, ResolveMisses, Crash,
             CallThrows, ResolveThrows, ClaimUnconfirmed, ResolveUnconfirmed
    <2> QED BY <2>1 DEF Reversing
  <1>t. Submits[r] \in Txn /\ \A q \in Request : Submits[q] \in Txn
    BY ConstantTypes
  <1>3. CASE UNCHANGED txn /\ (Owning(r)' => Owning(r))
    BY <1>1, <1>2, <1>3 DEF SingleOwner, SingleReversal
  <1>4. CASE Claim(r)
    <2>1. /\ txn[Submits[r]].status = "NONE" /\ txn'[Submits[r]].status = "PENDING"
          /\ \A t \in Txn \ {Submits[r]} : txn'[t] = txn[t]
      <3>1. txn[Submits[r]] \in Record /\ DOMAIN txn = Txn
        BY <1>t DEF TypeOK
      <3> QED BY <1>4, <1>t, <3>1 DEF Claim, Record
    <2>2. \A q \in Request : Owning(q) => Submits[q] # Submits[r]
      BY <2>1 DEF SingleOwner
    <2>3. \A v \in Reversal : Reversing(v) => Reverses[v] # Submits[r]
      BY <2>1 DEF SingleReversal
    <2>4. SingleOwner'
      BY <1>1, <1>t, <2>1, <2>2 DEF SingleOwner
    <2>5. SingleReversal'
      BY <1>2, <2>1, <2>3, ConstantTypes DEF SingleReversal
    <2> QED BY <2>4, <2>5
  <1>5. CASE Resolve(r)
    <2>1. Owning(r) /\ ~Owning(r)'
      BY <1>5, ResolvedHoldsNothing DEF Resolve, Owning
    <2>2. \A t \in Txn \ {Submits[r]} : txn'[t] = txn[t]
      BY <1>5, <1>t DEF Resolve, TypeOK
    <2>3. \A q \in Request : Owning(q) /\ q # r => Submits[q] # Submits[r]
      BY <2>1 DEF SingleOwner
    <2>4. \A v \in Reversal : Reversing(v) => Reverses[v] # Submits[r]
      BY <1>5 DEF SingleReversal, Resolve
    <2>5. SingleOwner'
      BY <1>1, <1>t, <2>1, <2>2, <2>3 DEF SingleOwner
    <2>6. SingleReversal'
      BY <1>2, <2>2, <2>4, ConstantTypes DEF SingleReversal
    <2> QED BY <2>5, <2>6
  <1> QED BY <1>3, <1>4, <1>5, OwnerStep

\* So do the reaper and the reversals.
LEMMA OtherOwners ==
    ASSUME Reliable, TypeOK, AppliedSoFar, SingleOwner, SingleReversal,
           \/ \E t \in Txn : ClaimGoesStale(t)
           \/ ReaperStep
           \/ \E v \in Reversal : ReversalStep(v) \/ ReversalFault(v)
    PROVE  SingleOwner' /\ SingleReversal'
PROOF
  <1>1. UNCHANGED req /\ \A r \in Request : Owning(r)' <=> Owning(r)
    <2>1. UNCHANGED req
      BY OtherType
    <2> QED BY <2>1 DEF Owning
  <1>2. ASSUME UNCHANGED txn, UNCHANGED rev
        PROVE  SingleOwner' /\ SingleReversal'
    BY <1>1, <1>2 DEF SingleOwner, SingleReversal, Reversing
  <1>3. CASE \/ \E t \in Txn : ClaimGoesStale(t)
             \/ ReaperScan
    BY <1>2, <1>3 DEF ClaimGoesStale, ReaperScan
  <1>4. ASSUME NEW t \in Txn, ReaperAbandon(t)
        PROVE  SingleOwner' /\ SingleReversal'
    <2>1. CASE txn[t].status # "PENDING"
      BY <1>2, <1>4, <2>1 DEF ReaperAbandon
    <2>2. CASE txn[t].status = "PENDING"
      <3>1. /\ txn'[t].status = "ABANDONED" /\ UNCHANGED rev
            /\ \A s \in Txn \ {t} : txn'[s] = txn[s]
        <4>1. txn[t] \in Record /\ DOMAIN txn = Txn
          BY DEF TypeOK
        <4> QED BY <1>4, <2>2, <4>1 DEF ReaperAbandon, Record
      <3>2. \A v \in Reversal : Reversing(v)' <=> Reversing(v)
        BY <3>1 DEF Reversing
      <3>3. SingleOwner'
        BY <1>1, <3>1, ConstantTypes DEF SingleOwner
      <3>4. SingleReversal'
        BY <3>1, <3>2, <2>2, ConstantTypes DEF SingleReversal
      <3> QED BY <3>3, <3>4
    <2> QED BY <2>1, <2>2
  <1>5. ASSUME NEW v \in Reversal, ReversalStep(v) \/ ReversalFault(v)
        PROVE  SingleOwner' /\ SingleReversal'
    <2>v. rev[v] \in ReversalState /\ DOMAIN rev = Reversal /\ Reverses[v] \in Txn
      BY ConstantTypes DEF TypeOK
    <2>1. CASE ReverseFlip(v)
      <3>1. PICK off \in SUBSET (Deactivatable \cap txn[Reverses[v]].applied) :
              rev' = [rev EXCEPT ![v].pc = "undo",
                                 ![v].left = txn[Reverses[v]].applied \ off,
                                 ![v].skipped = off]
        BY <2>1 DEF ReverseFlip
      <3>2. /\ rev'[v].left \cap rev'[v].skipped = {} /\ rev'[v].pc = "undo"
            /\ \A w \in Reversal \ {v} : rev'[w] = rev[w]
        BY <3>1, <2>v DEF ReversalState
      <3>3. /\ txn[Reverses[v]].status = "APPROVED" /\ txn'[Reverses[v]].status = "REVERSED"
            /\ \A s \in Txn \ {Reverses[v]} : txn'[s] = txn[s]
        <4>1. txn[Reverses[v]] \in Record /\ DOMAIN txn = Txn
          BY <2>v DEF TypeOK
        <4>2. /\ txn[Reverses[v]].status = "APPROVED"
              /\ txn' = [txn EXCEPT ![Reverses[v]].status = "REVERSED"]
          BY <2>1 DEF ReverseFlip
        <4> QED BY <2>v, <4>1, <4>2 DEF Record
      <3>4. \A w \in Reversal \ {v} : Reversing(w)' <=> Reversing(w)
        BY <3>2 DEF Reversing
      <3>5. \A w \in Reversal : Reversing(w) => Reverses[w] # Reverses[v]
        BY <3>3 DEF SingleReversal
      <3>6. \A r \in Request : Owning(r) => Submits[r] # Reverses[v]
        BY <3>3 DEF SingleOwner
      <3>7. SingleOwner'
        BY <1>1, <3>3, <3>6, ConstantTypes DEF SingleOwner
      <3>8. \A w \in Reversal : Reversing(w)' => txn'[Reverses[w]].status = "REVERSED"
        BY <3>3, <3>4, <3>5, ConstantTypes DEF SingleReversal
      <3>9. \A w, x \in Reversal :
              Reversing(w)' /\ Reversing(x)' /\ Reverses[w] = Reverses[x] => w = x
        BY <3>4, <3>5 DEF SingleReversal
      <3>10. \A w \in Reversal : /\ rev'[w].left \cap rev'[w].skipped = {}
                                 /\ rev'[w].pc = "idle" => ~Reversing(w)'
        BY <3>2, <3>4 DEF SingleReversal
      <3> QED BY <3>7, <3>8, <3>9, <3>10 DEF SingleReversal
    <2>2. ASSUME UNCHANGED txn, \A w \in Reversal \ {v} : rev'[w] = rev[w],
                 Reversing(v)' => Reversing(v), rev'[v].pc # "idle",
                 rev'[v].left \cap rev'[v].skipped = {}
          PROVE  SingleOwner' /\ SingleReversal'
      <3>1. \A w \in Reversal : Reversing(w)' => Reversing(w)
        BY <2>2 DEF Reversing
      <3>2. \A w \in Reversal : rev'[w].pc = "idle" => ~Reversing(w)'
        BY <2>2, <3>1 DEF SingleReversal
      <3>3. SingleOwner'
        BY <1>1, <2>2 DEF SingleOwner
      <3> QED BY <2>2, <3>1, <3>2, <3>3 DEF SingleReversal
    <2>3. CASE ReverseMisses(v) \/ ReverseLookup(v) \/ ReverseAnswer(v) \/ ReverseStops(v)
      <3>1. /\ UNCHANGED txn /\ \A w \in Reversal \ {v} : rev'[w] = rev[w]
            /\ rev'[v].left = rev[v].left /\ rev'[v].skipped = rev[v].skipped
            /\ rev'[v].pc \in {"lookup", "done"}
        BY <2>3, <2>v DEF ReverseMisses, ReverseLookup, ReverseAnswer, ReverseStops,
                          AnswerReversal, ReversalState
      <3> QED BY <2>2, <3>1 DEF Reversing, SingleReversal
    <2>4. CASE ReverseKey(v)
      <3>1. PICK k \in rev[v].left : rev' = [rev EXCEPT ![v].left = @ \ {k}]
        BY <2>4 DEF ReverseKey
      <3>2. /\ UNCHANGED txn /\ \A w \in Reversal \ {v} : rev'[w] = rev[w]
            /\ rev'[v].left = rev[v].left \ {k} /\ rev'[v].skipped = rev[v].skipped
            /\ rev'[v].pc = "undo" /\ rev[v].pc = "undo"
        BY <2>4, <2>v, <3>1 DEF ReverseKey, ReversalState
      <3>3. rev'[v].left \cap rev'[v].skipped = {}
        BY <3>2 DEF SingleReversal
      <3> QED BY <2>2, <3>2, <3>3 DEF Reversing
    <2>5. CASE ReverseUnconfirmed(v)
      BY <2>5 DEF ReverseUnconfirmed, Reliable
    <2> QED BY <1>5, <2>1, <2>3, <2>4, <2>5 DEF ReversalStep, ReversalFault
  <1> QED BY <1>3, <1>4, <1>5 DEF ReaperStep

\* So a record keeps to one owner and one reversal, whoever takes a step.
LEMMA OwnersStep ==
    ASSUME Reliable, TypeOK, AppliedSoFar, SingleOwner, SingleReversal, [Next]_vars
    PROVE  SingleOwner' /\ SingleReversal'
PROOF
  <1>1. CASE UNCHANGED vars
    BY <1>1 DEF vars, SingleOwner, Owning, SingleReversal, Reversing
  <1>2. CASE LapseStep
    BY <1>2, LapseFrame DEF SingleOwner, Owning, SingleReversal, Reversing
  <1>3. CASE Next
    BY <1>2, <1>3, SubmitOwners, OtherOwners, NoRetries DEF Next
  <1> QED BY <1>1, <1>3
-----------------------------------------------------------------------------
(* The lists.                                                              *)

\* Membership of ListedBy, spelled out, before and after a step.
LEMMA Holding ==
    ASSUME NEW t \in Txn, NEW k
    PROVE  k \in ListedBy(t) <=>
             \/ txn[t].status = "APPROVED" /\ k \in txn[t].applied
             \/ \E r \in Request : Submits[r] = t /\ k \in req[r].applied
             \/ \E v \in Reversal : Reverses[v] = t /\ k \in rev[v].left \cup rev[v].skipped
PROOF
  <1>1. k \in RequestKeys(t) <=> \E r \in Request : Submits[r] = t /\ k \in req[r].applied
    BY DEF RequestKeys
  <1>2. k \in ReversalKeys(t) <=>
          \E v \in Reversal : Reverses[v] = t /\ k \in rev[v].left \cup rev[v].skipped
    BY DEF ReversalKeys
  <1>3. k \in RecordKeys(t) <=> txn[t].status = "APPROVED" /\ k \in txn[t].applied
    BY DEF RecordKeys
  <1> QED BY <1>1, <1>2, <1>3 DEF ListedBy

\* What a record holds in the next state, in terms of the next state's variables.
LEMMA HoldingNext ==
    ASSUME NEW t \in Txn, NEW k
    PROVE  k \in ListedBy(t)' <=>
             \/ txn'[t].status = "APPROVED" /\ k \in txn'[t].applied
             \/ \E r \in Request : Submits[r] = t /\ k \in req'[r].applied
             \/ \E v \in Reversal : Reverses[v] = t /\ k \in rev'[v].left \cup rev'[v].skipped
PROOF
  <1>1. k \in RequestKeys(t)' <=> \E r \in Request : Submits[r] = t /\ k \in req'[r].applied
    BY DEF RequestKeys
  <1>2. k \in ReversalKeys(t)' <=>
          \E v \in Reversal : Reverses[v] = t /\ k \in rev'[v].left \cup rev'[v].skipped
    BY DEF ReversalKeys
  <1>3. k \in RecordKeys(t)' <=> txn'[t].status = "APPROVED" /\ k \in txn'[t].applied
    BY DEF RecordKeys
  <1> QED BY <1>1, <1>2, <1>3 DEF ListedBy

\* A record with an owning call is held by that call alone.
LEMMA OwnerHoldsAll ==
    ASSUME SingleOwner, SingleReversal, NEW r \in Request, Owning(r)
    PROVE  ListedBy(Submits[r]) = req[r].applied
PROOF
  <1> DEFINE t == Submits[r]
  <1>1. t \in Txn /\ txn[t].status \in {"PENDING", "ABANDONED"}
    BY ConstantTypes DEF SingleOwner
  <1>2. \A q \in Request : Submits[q] = t /\ req[q].applied # {} => q = r
    BY DEF SingleOwner, Owning
  <1>3. \A v \in Reversal : Reverses[v] = t => rev[v].left \cup rev[v].skipped = {}
    BY <1>1 DEF SingleReversal, Reversing
  <1>4. \A k : k \in ListedBy(t) <=>
                 \/ txn[t].status = "APPROVED" /\ k \in txn[t].applied
                 \/ \E q \in Request : Submits[q] = t /\ k \in req[q].applied
                 \/ \E v \in Reversal : Reverses[v] = t /\ k \in rev[v].left \cup rev[v].skipped
    BY <1>1, Holding
  <1> HIDE DEF t
  <1>5. \A k : k \in ListedBy(t) <=> k \in req[r].applied
    BY <1>1, <1>2, <1>3, <1>4 DEF t
  <1> QED BY <1>5 DEF t

\* What an owning call changes, it changes of its own record, which holds
\* what the call holds.
LEMMA OwnerMoves ==
    ASSUME SingleOwner, SingleReversal, NEW r \in Request, Owning(r),
           UNCHANGED <<txn, rev>>, \A q \in Request \ {r} : req'[q] = req[q]
    PROVE  /\ ListedBy(Submits[r])' = req'[r].applied
           /\ \A s \in Txn \ {Submits[r]} : ListedBy(s)' = ListedBy(s)
PROOF
  <1> DEFINE t == Submits[r]
  <1>1. t \in Txn /\ txn[t].status \in {"PENDING", "ABANDONED"}
    BY ConstantTypes DEF SingleOwner
  <1>2. \A q \in Request : Submits[q] = t /\ req[q].applied # {} => q = r
    BY DEF SingleOwner, Owning
  <1>3. \A v \in Reversal : Reverses[v] = t => rev[v].left \cup rev[v].skipped = {}
    BY <1>1 DEF SingleReversal, Reversing
  <1>4. \A s \in Txn : \A k : k \in ListedBy(s)' <=>
                 \/ txn[s].status = "APPROVED" /\ k \in txn[s].applied
                 \/ \E q \in Request : Submits[q] = s /\ k \in req'[q].applied
                 \/ \E v \in Reversal : Reverses[v] = s /\ k \in rev[v].left \cup rev[v].skipped
    BY HoldingNext
  <1>5. \A s \in Txn : \A k : k \in ListedBy(s) <=>
                 \/ txn[s].status = "APPROVED" /\ k \in txn[s].applied
                 \/ \E q \in Request : Submits[q] = s /\ k \in req[q].applied
                 \/ \E v \in Reversal : Reverses[v] = s /\ k \in rev[v].left \cup rev[v].skipped
    BY Holding
  <1> HIDE DEF t
  <1>6. \A k : k \in ListedBy(t)' <=> k \in req'[r].applied
    BY <1>1, <1>2, <1>3, <1>4 DEF t
  <1>7. ASSUME NEW s \in Txn \ {t}
        PROVE  ListedBy(s)' = ListedBy(s)
    <2>1. \A q \in Request : Submits[q] = s => req'[q] = req[q]
      BY DEF t
    <2>2. \A k : k \in ListedBy(s)' <=> k \in ListedBy(s)
      BY <1>4, <1>5, <2>1
    <2> QED BY <2>2
  <1> QED BY <1>6, <1>7 DEF t

\* A step after which every record lists, every call has applied and every
\* reversal owes what it did before moves nothing.
LEMMA NothingMoves ==
    ASSUME NEW t \in Txn,
           txn'[t].status = "APPROVED" <=> txn[t].status = "APPROVED",
           txn[t].status = "APPROVED" => txn'[t].applied = txn[t].applied,
           \A r \in Request : Submits[r] = t => req'[r].applied = req[r].applied,
           \A v \in Reversal : Reverses[v] = t =>
               rev'[v].left = rev[v].left /\ rev'[v].skipped = rev[v].skipped
    PROVE  ListedBy(t)' = ListedBy(t)
PROOF
  <1>1. \A k : k \in ListedBy(t)' <=> k \in ListedBy(t)
    BY Holding, HoldingNext
  <1> QED BY <1>1

\* A step that moves nothing, neither in the counters nor in the lists.
ListsStay == /\ UNCHANGED <<counter, signals, lapsed>>
             /\ \A s \in Txn : ListedBy(s)' = ListedBy(s)

\* A step that counts record t in key k, as far as a strict limit allows.
Lists(t, k) ==
    /\ txn[t].status \in {"PENDING", "ABANDONED"}
    /\ NothingLost(t)
    /\ k \notin ListedBy(t)
    /\ k \notin Hot => GuardHolds(k, t)
    /\ Increment(k, t)
    /\ ListedBy(t)' = ListedBy(t) \cup {k}
    /\ \A s \in Txn \ {t} : ListedBy(s)' = ListedBy(s)
    /\ UNCHANGED <<txn, signals, lapsed>>

\* A step that gives back key k of record t, which is past its checks.
Unlists(t, k) ==
    /\ txn[t].status \in {"PENDING", "ABANDONED", "REVERSED"}
    /\ \A q \in Request : Submits[q] = t => req'[q].pc \notin {"check", "breach"}
    /\ k \in ListedBy(t)
    /\ \E reason \in DriftReason :
        /\ Decrement(k, t, reason)
        /\ reason = "COMPENSATION_FLOOR_GUARD_FAILED" => t \notin lapsed[k]
    /\ ListedBy(t)' = ListedBy(t) \ {k}
    /\ \A s \in Txn \ {t} : ListedBy(s)' = ListedBy(s)
    /\ UNCHANGED <<txn, lapsed>>

\* A submission moves a key of its own record, or none.
LEMMA SubmitMoves ==
    ASSUME Reliable, TypeOK, StepInPlan, AppliedSoFar, SingleOwner, SingleReversal,
           LapsedLater, NEW r \in Request,
           SubmitStep(r) \/ SubmitFault(r) \/ RefuseDirection(r)
    PROVE  ListsStay \/ \E k \in Key : Lists(Submits[r], k) \/ Unlists(Submits[r], k)
PROOF
  <1> DEFINE t == Submits[r]
  <1>r. req[r] \in RequestState /\ r \in DOMAIN req
    BY RequestType
  <1>o. \A q \in Request \ {r} : req'[q] = req[q]
    BY OnlyOwnState
  <1>t. t \in Txn /\ txn[t] \in Record /\ DOMAIN txn = Txn
    BY ConstantTypes DEF TypeOK
  <1>1. ASSUME UNCHANGED <<txn, counter, rev, signals, lapsed>>,
               req'[r].applied = req[r].applied
        PROVE  ListsStay
    <2>1. \A q \in Request : req'[q].applied = req[q].applied
      BY <1>1, <1>o
    <2>2. \A s \in Txn : ListedBy(s)' = ListedBy(s)
      BY <1>1, <2>1, NothingMoves
    <2> QED BY <1>1, <2>2 DEF ListsStay
  <1>2. CASE RefuseDirection(r) \/ ClaimDuplicate(r) \/ ReplayExisting(r)
             \/ ResolveMisses(r) \/ Crash(r) \/ CallThrows(r)
    BY <1>1, <1>2, <1>r DEF RefuseDirection, ClaimDuplicate, ReplayExisting, ResolveMisses,
                            Crash, CallThrows, Answer, RequestState
  <1>3. CASE PerTxnCheck(r) \/ ReadBreach(r) \/ SoftBreach(r)
             \/ GuardedIncrementMisses(r)
    <2>1. req'[r].applied = req[r].applied
      <3>1. ASSUME Rejected(r)
            PROVE  req'[r].applied = req[r].applied
        BY <3>1, <1>r DEF Rejected, RequestState
      <3>2. ASSUME Passed(r, {})
            PROVE  req'[r].applied = req[r].applied
        BY <3>2, <1>r DEF Passed, RequestState
      <3>3. CASE GuardedIncrementMisses(r)
        BY <3>3, <1>r DEF GuardedIncrementMisses, RequestState
      <3> QED BY <1>3, <3>1, <3>2, <3>3 DEF PerTxnCheck, ReadBreach, SoftBreach
    <2> QED BY <1>1, <1>3, <2>1 DEF PerTxnCheck, ReadBreach, SoftBreach,
                                    GuardedIncrementMisses
  <1>4. CASE ResolveThrows(r)
    <2>1. req'[r].applied = req[r].applied
      <3>1. CASE Answer(r, req[r].outcome)
        BY <3>1, <1>r DEF Answer, RequestState
      <3>2. CASE req' = [req EXCEPT ![r].outcome = "SYSTEM_FAILURE",
                                    ![r].pc = Unwound(req[r].applied)]
        BY <3>2, <1>r DEF RequestState
      <3> QED BY <1>4, <3>1, <3>2 DEF ResolveThrows, ResolveFailed
    <2> QED BY <1>1, <1>4, <2>1 DEF ResolveThrows
  <1>5. CASE Claim(r)
    <2>1. /\ txn[t].status = "NONE" /\ txn' = [txn EXCEPT ![t].status = "PENDING"]
          /\ req'[r].applied = req[r].applied
          /\ UNCHANGED <<counter, rev, signals, lapsed>>
      BY <1>5, <1>r DEF Claim, RequestState
    <2>2. txn'[t].status = "PENDING" /\ \A s \in Txn \ {t} : txn'[s] = txn[s]
      BY <1>t, <2>1 DEF Record
    <2>3. \A q \in Request : req'[q].applied = req[q].applied
      BY <1>o, <2>1
    <2>4. \A s \in Txn : ListedBy(s)' = ListedBy(s)
      BY <2>1, <2>2, <2>3, NothingMoves
    <2> QED BY <2>1, <2>4 DEF ListsStay
  <1>6. CASE Resolve(r)
    <2>1. /\ txn' = [txn EXCEPT ![t] = Resolved(r)]
          /\ UNCHANGED <<counter, rev, signals, lapsed>>
      BY <1>6 DEF Resolve
    <2>2. txn'[t] = Resolved(r) /\ \A s \in Txn \ {t} : txn'[s] = txn[s]
      BY <1>t, <2>1
    <2>3. Owning(r) /\ ~Owning(r)' /\ req'[r].applied = {}
          /\ Resolved(r).applied = req[r].applied
      BY <1>6, ResolvedHoldsNothing DEF Resolve, Owning
    <2>4. ListedBy(t)' = ListedBy(t)
      <3>1. ListedBy(t) = req[r].applied
        BY <2>3, OwnerHoldsAll
      <3>2. \A q \in Request : Submits[q] = t => req'[q].applied = {}
        BY <1>o, <2>3 DEF SingleOwner, Owning
      <3>3. \A v \in Reversal : Reverses[v] = t => rev'[v].left \cup rev'[v].skipped = {}
        BY <2>1, <2>3 DEF SingleOwner, SingleReversal, Reversing
      <3>4. \A k : k \in ListedBy(t)' <=> txn'[t].status = "APPROVED" /\ k \in txn'[t].applied
        BY <1>t, <3>2, <3>3, HoldingNext
      <3>5. txn'[t].status # "APPROVED" => txn'[t].applied = {}
        BY <2>2 DEF Resolved
      <3>6. \A k : k \in ListedBy(t)' <=> k \in ListedBy(t)
        BY <2>2, <2>3, <3>1, <3>4, <3>5
      <3> QED BY <3>6
    <2>5. ASSUME NEW s \in Txn \ {t} PROVE ListedBy(s)' = ListedBy(s)
      BY <1>o, <2>1, <2>2, NothingMoves
    <2> QED BY <2>1, <2>4, <2>5 DEF ListsStay
  <1>7. CASE GuardedIncrement(r) \/ SoftIncrement(r)
    <2> DEFINE k == CurrentCheck(r).key
    <2>1. /\ AtCheck(r, "window") /\ Increment(k, t) /\ Passed(r, {k})
          /\ UNCHANGED <<txn, rev, signals, lapsed>>
      BY <1>7 DEF GuardedIncrement, SoftIncrement
    <2>2. /\ req[r].step \in 1..Len(Plan[t]) /\ k \in Key
          /\ k = Plan[t][req[r].step].key /\ Plan[t][req[r].step].type = "window"
      BY <2>1, CurrentKey DEF AtCheck, CurrentCheck
    <2>3. Owning(r)
      BY <2>1 DEF AtCheck, Owning
    <2>4. req[r].applied = WindowKeys(t, req[r].step - 1) /\ req'[r].applied = req[r].applied \cup {k}
      BY <2>1, <1>r DEF AtCheck, AppliedSoFar, Passed, RequestState
    <2>5. ListedBy(t) = req[r].applied
      BY <2>3, OwnerHoldsAll
    <2>6. ListedBy(t)' = req'[r].applied /\ \A s \in Txn \ {t} : ListedBy(s)' = ListedBy(s)
      BY <1>o, <2>1, <2>3, OwnerMoves
    <2>7. k \notin ListedBy(t)
      BY <1>t, <2>2, <2>4, <2>5, WindowKeysNext
    <2>8. txn[t].status \in {"PENDING", "ABANDONED"}
      BY <2>3 DEF SingleOwner
    <2>9. k \notin Hot => GuardHolds(k, t)
      BY <1>7 DEF GuardedIncrement, SoftIncrement
    <2>10. NothingLost(t)
      BY <2>1 DEF LapsedLater, AtCheck
    <2>11. Lists(t, k)
      BY <2>1, <2>4, <2>5, <2>6, <2>7, <2>8, <2>9, <2>10 DEF Lists
    <2> QED BY <2>2, <2>11
  <1>8. CASE Compensate(r)
    <2>1. PICK k \in req[r].applied :
            /\ Decrement(k, t, "COMPENSATION_FLOOR_GUARD_FAILED")
            /\ req' = [req EXCEPT ![r].applied = @ \ {k},
                                  ![r].pc = Unwound(req[r].applied \ {k})]
      BY <1>8 DEF Compensate
    <2>2. Owning(r) /\ k \in Key /\ UNCHANGED <<txn, rev, lapsed>>
      BY <1>8, <1>r DEF Compensate, Owning, RequestState
    <2>3. req'[r].applied = req[r].applied \ {k}
      BY <1>r, <2>1 DEF RequestState
    <2>4. ListedBy(t) = req[r].applied
      BY <2>2, OwnerHoldsAll
    <2>5. ListedBy(t)' = req'[r].applied /\ \A s \in Txn \ {t} : ListedBy(s)' = ListedBy(s)
      BY <1>o, <2>2, OwnerMoves
    <2>6. txn[t].status \in {"PENDING", "ABANDONED"}
      BY <2>2 DEF SingleOwner
    <2>7. \A q \in Request : Submits[q] = t => req'[q].pc \notin {"check", "breach"}
      <3>1. req'[r].pc \notin {"check", "breach"}
        BY <1>r, <2>1 DEF RequestState, Unwound
      <3>2. \A q \in Request \ {r} : Submits[q] = t => ~Owning(q)
        BY <2>2 DEF SingleOwner
      <3> QED BY <1>o, <3>1, <3>2 DEF Owning
    <2>8. t \notin lapsed[k]
      <3>1. InFlight(k, t)
        BY <1>8 DEF InFlight, Compensate, Live
      <3> QED BY <1>t, <2>2, <3>1 DEF LapsedLater
    <2>9. Unlists(t, k)
      BY <2>1, <2>2, <2>3, <2>4, <2>5, <2>6, <2>7, <2>8 DEF Unlists, DriftReason
    <2> QED BY <2>2, <2>9
  <1>9. CASE ClaimUnconfirmed(r) \/ ResolveUnconfirmed(r)
    BY <1>9 DEF ClaimUnconfirmed, ResolveUnconfirmed, Reliable
  <1> QED BY <1>2, <1>3, <1>4, <1>5, <1>6, <1>7, <1>8, <1>9
          DEF SubmitStep, SubmitFault, WaterfallStep

\* The reaper moves none; a reversal moves a key of its record, or none.
LEMMA OtherMoves ==
    ASSUME Reliable, TypeOK, SingleOwner, SingleReversal,
           \/ \E t \in Txn : ClaimGoesStale(t)
           \/ ReaperStep
           \/ \E v \in Reversal : ReversalStep(v) \/ ReversalFault(v)
    PROVE  ListsStay \/ \E t \in Txn, k \in Key : Lists(t, k) \/ Unlists(t, k)
PROOF
  <1>q. UNCHANGED req
    BY OtherType
  <1>1. ASSUME UNCHANGED <<txn, counter, signals, lapsed>>,
               \A v \in Reversal : rev'[v].left = rev[v].left /\ rev'[v].skipped = rev[v].skipped
        PROVE  ListsStay
    <2>1. \A s \in Txn : ListedBy(s)' = ListedBy(s)
      BY <1>1, <1>q, NothingMoves
    <2> QED BY <1>1, <2>1 DEF ListsStay
  <1>2. CASE \/ \E t \in Txn : ClaimGoesStale(t)
             \/ ReaperScan
    BY <1>1, <1>2 DEF ClaimGoesStale, ReaperScan
  <1>3. ASSUME NEW t \in Txn, ReaperAbandon(t)
        PROVE  ListsStay
    <2>1. CASE txn[t].status # "PENDING"
      BY <1>1, <1>3, <2>1 DEF ReaperAbandon
    <2>2. CASE txn[t].status = "PENDING"
      <3>1. /\ txn' = [txn EXCEPT ![t].status = "ABANDONED"]
            /\ UNCHANGED <<counter, rev, signals, lapsed>>
        BY <1>3, <2>2 DEF ReaperAbandon
      <3>2. txn'[t].status = "ABANDONED" /\ \A s \in Txn \ {t} : txn'[s] = txn[s]
        <4>1. txn[t] \in Record /\ DOMAIN txn = Txn
          BY DEF TypeOK
        <4> QED BY <3>1, <4>1 DEF Record
      <3>3. \A s \in Txn : ListedBy(s)' = ListedBy(s)
        BY <1>q, <2>2, <3>1, <3>2, NothingMoves
      <3> QED BY <3>1, <3>3 DEF ListsStay
    <2> QED BY <2>1, <2>2
  <1>4. ASSUME NEW v \in Reversal, ReversalStep(v) \/ ReversalFault(v)
        PROVE  ListsStay \/ \E k \in Key : Unlists(Reverses[v], k)
    <2> DEFINE t == Reverses[v]
    <2>v. rev[v] \in ReversalState /\ DOMAIN rev = Reversal
          /\ t \in Txn /\ txn[t] \in Record /\ DOMAIN txn = Txn
      BY ConstantTypes DEF TypeOK
    <2>1. CASE ReverseFlip(v)
      <3>1. PICK off \in SUBSET (Deactivatable \cap txn[t].applied) :
              rev' = [rev EXCEPT ![v].pc = "undo",
                                 ![v].left = txn[t].applied \ off,
                                 ![v].skipped = off]
        BY <2>1 DEF ReverseFlip
      <3>2. /\ txn[t].status = "APPROVED"
            /\ txn' = [txn EXCEPT ![t].status = "REVERSED"]
            /\ UNCHANGED <<counter, signals, lapsed>>
        BY <2>1 DEF ReverseFlip
      <3>3. /\ rev'[v].left \cup rev'[v].skipped = txn[t].applied
            /\ \A w \in Reversal \ {v} : rev'[w] = rev[w]
        BY <2>v, <3>1 DEF ReversalState
      <3>4. txn'[t].status = "REVERSED" /\ \A s \in Txn \ {t} : txn'[s] = txn[s]
        BY <2>v, <3>2 DEF Record
      <3>5. ListedBy(t)' = ListedBy(t)
        <4>1. \A r \in Request : Submits[r] = t => req[r].applied = {}
          BY <3>2 DEF SingleOwner, Owning
        <4>2. \A w \in Reversal : Reverses[w] = t => rev[w].left \cup rev[w].skipped = {}
          BY <3>2 DEF SingleReversal, Reversing
        <4>3. \A k : k \in ListedBy(t) <=> k \in txn[t].applied
          BY <2>v, <3>2, <4>1, <4>2, Holding
        <4>4. \A w \in Reversal \ {v} : Reverses[w] = t =>
                rev'[w].left \cup rev'[w].skipped = {}
          BY <3>3, <4>2
        <4>5. \A k : k \in ListedBy(t)' <=> k \in rev'[v].left \cup rev'[v].skipped
          BY <1>q, <2>v, <3>4, <4>1, <4>4, HoldingNext
        <4>6. \A k : k \in ListedBy(t)' <=> k \in ListedBy(t)
          BY <3>3, <4>3, <4>5
        <4> QED BY <4>6
      <3>6. ASSUME NEW s \in Txn \ {t} PROVE ListedBy(s)' = ListedBy(s)
        BY <1>q, <3>3, <3>4, NothingMoves
      <3> QED BY <3>2, <3>5, <3>6 DEF ListsStay
    <2>2. CASE ReverseMisses(v) \/ ReverseLookup(v) \/ ReverseAnswer(v) \/ ReverseStops(v)
      BY <1>1, <2>2, <2>v DEF ReverseMisses, ReverseLookup, ReverseAnswer, ReverseStops,
                              AnswerReversal, ReversalState
    <2>3. CASE ReverseKey(v)
      <3>1. PICK k \in rev[v].left :
              /\ Decrement(k, t, "REVERSAL_FLOOR_GUARD_FAILED")
              /\ rev' = [rev EXCEPT ![v].left = @ \ {k}]
        BY <2>3 DEF ReverseKey
      <3>2. /\ rev'[v].left = rev[v].left \ {k} /\ rev'[v].skipped = rev[v].skipped
            /\ \A w \in Reversal \ {v} : rev'[w] = rev[w]
            /\ k \in Key /\ UNCHANGED <<txn, lapsed>>
        BY <2>3, <2>v, <3>1 DEF ReverseKey, ReversalState
      <3>3. txn[t].status = "REVERSED"
        BY <2>3 DEF SingleReversal, Reversing, ReverseKey
      <3>4. \A r \in Request : Submits[r] = t => req[r].applied = {}
        BY <3>3 DEF SingleOwner, Owning
      <3>5. \A w \in Reversal : Reverses[w] = t /\ w # v => rev[w].left \cup rev[w].skipped = {}
        BY <2>3 DEF SingleReversal, Reversing, ReverseKey
      <3>6. \A l : l \in ListedBy(t) <=> l \in rev[v].left \cup rev[v].skipped
        BY <2>v, <3>3, <3>4, <3>5, Holding
      <3>7. \A l : l \in ListedBy(t)' <=> l \in rev'[v].left \cup rev'[v].skipped
        <4>1. \A w \in Reversal : Reverses[w] = t /\ w # v =>
                rev'[w].left \cup rev'[w].skipped = {}
          BY <3>2, <3>5
        <4> QED BY <1>q, <2>v, <3>2, <3>3, <3>4, <4>1, HoldingNext
      <3>8. k \notin rev[v].skipped
        BY DEF SingleReversal
      <3>9. k \in ListedBy(t) /\ ListedBy(t)' = ListedBy(t) \ {k}
        <4>1. \A l : l \in ListedBy(t)' <=> l \in ListedBy(t) \ {k}
          BY <3>2, <3>6, <3>7, <3>8
        <4> QED BY <3>6, <4>1
      <3>10. ASSUME NEW s \in Txn \ {t} PROVE ListedBy(s)' = ListedBy(s)
        BY <1>q, <3>2, NothingMoves
      <3>11. \A q \in Request : Submits[q] = t => req'[q].pc \notin {"check", "breach"}
        BY <1>q, <3>3 DEF SingleOwner, Owning
      <3>12. Unlists(t, k)
        BY <3>1, <3>2, <3>3, <3>9, <3>10, <3>11 DEF Unlists, DriftReason
      <3> QED BY <3>2, <3>12
    <2>4. CASE ReverseUnconfirmed(v)
      BY <2>4 DEF ReverseUnconfirmed, Reliable
    <2> QED BY <1>4, <2>1, <2>2, <2>3, <2>4 DEF ReversalStep, ReversalFault
  <1> QED BY <1>2, <1>3, <1>4, ConstantTypes DEF ReaperStep

\* Every step but one of time moves one key of one record in or out of the
\* lists, or none.
LEMMA ListsMove ==
    ASSUME Reliable, TypeOK, StepInPlan, AppliedSoFar, SingleOwner, SingleReversal,
           LapsedLater, [Next]_vars, ~LapseStep
    PROVE  ListsStay \/ \E t \in Txn, k \in Key : Lists(t, k) \/ Unlists(t, k)
PROOF
  <1>1. CASE UNCHANGED vars
    <2>1. UNCHANGED <<txn, counter, req, rev, signals, lapsed>>
      BY <1>1 DEF vars
    <2>2. \A t \in Txn : ListedBy(t)' = ListedBy(t)
      BY <2>1, NothingMoves
    <2> QED BY <2>1, <2>2 DEF ListsStay
  <1>2. CASE Next
    BY <1>2, SubmitMoves, OtherMoves, NoRetries, ConstantTypes DEF Next
  <1> QED BY <1>1, <1>2

\* A step of time: key k loses the records S, all it counts or one of them.
Lapses(k, S) ==
    /\ S \in SUBSET Outstanding(k)
    /\ \A t \in S : ~InFlight(k, t)
    /\ lapsed' = [lapsed EXCEPT ![k] = @ \cup S]
    /\ UNCHANGED <<txn, req, rev, signals>>
    /\ \/ S = Outstanding(k) /\ counter' = [counter EXCEPT ![k] = Empty]
       \/ \E t \in Txn : S = {t} /\ FloorHolds(k, t) /\ counter' = Lowered(k, t)

\* The TTL index takes all, pruning one.
LEMMA TimeLapses ==
    ASSUME LapseStep
    PROVE  \E k \in Key, S \in SUBSET Txn : Lapses(k, S)
PROOF
  <1>1. ASSUME NEW k \in Key, Expire(k)
        PROVE  Outstanding(k) \in SUBSET Txn /\ Lapses(k, Outstanding(k))
    BY <1>1 DEF Expire, Lapses, Outstanding
  <1>2. ASSUME NEW k \in Key, NEW t \in Txn, Prune(k, t)
        PROVE  Lapses(k, {t})
    BY <1>2 DEF Prune, Lapses
  <1> QED BY <1>1, <1>2 DEF LapseStep
-----------------------------------------------------------------------------
(* What has lapsed or missed is out of the way of the calls.               *)

\* A call comes to its checks by a claim, and adds to its list at a check only.
LEMMA FlightStep ==
    ASSUME TypeOK, AppliedSoFar, NEW r \in Request,
           SubmitStep(r) \/ SubmitFault(r) \/ RefuseDirection(r)
    PROVE  /\ req'[r].pc \in {"check", "breach"} =>
                \/ req[r].pc \in {"check", "breach"}
                \/ txn[Submits[r]].status = "NONE"
           /\ req'[r].pc \notin {"idle", "done"} =>
                \/ req[r].pc \in {"check", "breach"}
                \/ req'[r].applied = {}
                \/ Live(r) /\ req'[r].applied \subseteq req[r].applied
PROOF
  <1>r. req[r] \in RequestState /\ r \in DOMAIN req
    BY RequestType
  <1>1. CASE Claim(r) \/ ClaimDuplicate(r)
    <2>1. req'[r].applied = {}
      BY <1>1, <1>r DEF Claim, ClaimDuplicate, RequestState, AppliedSoFar
    <2>2. CASE ClaimDuplicate(r)
      BY <2>1, <2>2, <1>r DEF ClaimDuplicate, RequestState
    <2> QED BY <1>1, <2>1, <2>2 DEF Claim
  <1>2. CASE \/ RefuseDirection(r) \/ ReplayExisting(r) \/ Resolve(r) \/ ResolveMisses(r)
             \/ Crash(r) \/ CallThrows(r) \/ ClaimUnconfirmed(r)
    <2>1. req'[r].pc = "done"
      BY <1>2, <1>r DEF RefuseDirection, ReplayExisting, Resolve, ResolveMisses, Crash,
                        CallThrows, ClaimUnconfirmed, Answer, RequestState
    <2> QED BY <2>1
  <1>3. CASE ResolveThrows(r) \/ ResolveUnconfirmed(r)
    <2>1. req[r].pc = "resolve" /\ ResolveFailed(r)
      BY <1>3 DEF ResolveThrows, ResolveUnconfirmed
    <2>2. CASE Answer(r, req[r].outcome)
      BY <2>2, <1>r DEF Answer, RequestState
    <2>3. CASE req' = [req EXCEPT ![r].outcome = "SYSTEM_FAILURE",
                                  ![r].pc = Unwound(req[r].applied)]
      <3>1. req'[r].pc \in {"resolve", "compensate"} /\ req'[r].applied = req[r].applied
        BY <2>3, <1>r DEF Unwound, RequestState
      <3> QED BY <2>1, <3>1 DEF Live
    <2> QED BY <2>1, <2>2, <2>3 DEF ResolveFailed
  <1>4. CASE Compensate(r)
    <2>1. PICK k \in req[r].applied :
            req' = [req EXCEPT ![r].applied = @ \ {k},
                               ![r].pc = Unwound(req[r].applied \ {k})]
      BY <1>4 DEF Compensate
    <2>2. /\ req[r].pc = "compensate" /\ req'[r].pc \in {"resolve", "compensate"}
          /\ req'[r].applied \subseteq req[r].applied
      BY <1>4, <1>r, <2>1 DEF Compensate, Unwound, RequestState
    <2> QED BY <2>2 DEF Live
  <1>5. CASE WaterfallStep(r) /\ ~Compensate(r)
    <2>1. req[r].pc \in {"check", "breach"}
      BY <1>5 DEF WaterfallStep, PerTxnCheck, GuardedIncrement, GuardedIncrementMisses,
                  ReadBreach, SoftIncrement, SoftBreach, AtCheck
    <2> QED BY <2>1
  <1> QED BY <1>1, <1>2, <1>3, <1>4, <1>5 DEF SubmitStep, SubmitFault

\* A step of a call keeps what has lapsed or missed away from it.
LEMMA LapsedLaterMoves ==
    ASSUME TypeOK, AppliedSoFar, SingleOwner, LapsedLater,
           ListsStay \/ \E t \in Txn, k \in Key : Lists(t, k) \/ Unlists(t, k),
           \A t \in Txn : txn[t].status # "NONE" => txn'[t].status # "NONE",
           \/ UNCHANGED req
           \/ \E r \in Request : SubmitStep(r) \/ SubmitFault(r) \/ RefuseDirection(r)
    PROVE  LapsedLater'
PROOF
  <1>t. \A r \in Request : Submits[r] \in Txn
    BY ConstantTypes
  <1>l. UNCHANGED lapsed
    BY DEF ListsStay, Lists, Unlists
  <1>1. ASSUME NEW s \in Txn, NothingLost(s), SignalKeys(s)' = SignalKeys(s)
        PROVE  NothingLost(s)'
    BY <1>1, <1>l DEF NothingLost, LapsedKeys
  <1>2. ASSUME NEW s \in Txn,
               \/ txn[s].status = "NONE"
               \/ \E q \in Request : Submits[q] = s /\ req'[q].pc \in {"check", "breach"}
        PROVE  SignalKeys(s)' = SignalKeys(s)
    <2>1. CASE UNCHANGED signals
      BY <2>1 DEF SignalKeys
    <2>2. ASSUME NEW t \in Txn, NEW k \in Key, Unlists(t, k)
          PROVE  SignalKeys(s)' = SignalKeys(s)
      <3>1. s # t
        BY <1>2, <2>2 DEF Unlists
      <3>2. UNCHANGED signals
            \/ \E reason \in DriftReason :
                 signals' = signals \cup {[key |-> k, txn |-> t, reason |-> reason]}
        BY <2>2 DEF Unlists, Decrement
      <3>3. \A u : u \in signals' /\ u.txn = s <=> u \in signals /\ u.txn = s
        BY <3>1, <3>2
      <3> QED BY <3>3 DEF SignalKeys
    <2> QED BY <2>1, <2>2 DEF ListsStay, Lists
  <1>3. ASSUME NEW s \in Txn, txn'[s].status = "NONE"
        PROVE  NothingLost(s)'
    <2>1. txn[s].status = "NONE"
      BY <1>3
    <2> QED BY <1>1, <1>2, <2>1 DEF LapsedLater
  <1>4. ASSUME NEW q \in Request, req'[q].pc \in {"check", "breach"}
        PROVE  NothingLost(Submits[q])'
    <2>1. req[q].pc \in {"check", "breach"} \/ txn[Submits[q]].status = "NONE"
      BY <1>4, OnlyOwnState, FlightStep
    <2>2. NothingLost(Submits[q])
      BY <1>t, <2>1 DEF LapsedLater
    <2> QED BY <1>1, <1>2, <1>4, <1>t, <2>2
  <1>5. ASSUME NEW t \in Txn, NEW k \in Key, InFlight(k, t)'
        PROVE  t \notin lapsed'[k]
    <2>1. PICK q \in Request :
            Submits[q] = t /\ req'[q].pc \notin {"idle", "done"} /\ k \in req'[q].applied
      BY <1>5 DEF InFlight, Live
    <2>2. \/ req[q].pc \in {"check", "breach"}
          \/ Live(q) /\ req'[q].applied \subseteq req[q].applied
      BY <2>1, OnlyOwnState, FlightStep DEF Live
    <2>3. CASE req[q].pc \in {"check", "breach"}
      BY <1>l, <2>1, <2>3 DEF LapsedLater, NothingLost, LapsedKeys
    <2>4. CASE Live(q) /\ req'[q].applied \subseteq req[q].applied
      BY <1>l, <2>1, <2>4 DEF LapsedLater, InFlight
    <2> QED BY <2>2, <2>3, <2>4
  <1> QED BY <1>3, <1>4, <1>5 DEF LapsedLater

\* A record that is not claimed is held nowhere, and what the call at a check
\* holds it has itself applied.
LEMMA EarlyHolds ==
    ASSUME SingleOwner, SingleReversal, NEW t \in Txn, NothingLost(t)
    PROVE  /\ txn[t].status = "NONE" => HeldBy(t) = {}
           /\ \A r \in Request : Submits[r] = t /\ req[r].pc \in {"check", "breach"} =>
                \A k \in HeldBy(t) : InFlight(k, t)
PROOF
  <1>1. HeldBy(t) \subseteq ListedBy(t)
    BY DEF HeldBy, NothingLost
  <1>2. ASSUME txn[t].status = "NONE" PROVE HeldBy(t) = {}
    <2>1. \A r \in Request : Submits[r] = t => req[r].applied = {}
      BY <1>2 DEF SingleOwner, Owning
    <2>2. \A v \in Reversal : Reverses[v] = t => rev[v].left \cup rev[v].skipped = {}
      BY <1>2 DEF SingleReversal, Reversing
    <2>3. \A k : k \notin ListedBy(t)
      BY <1>2, <2>1, <2>2, Holding
    <2> QED BY <1>1, <2>3
  <1>3. ASSUME NEW r \in Request, Submits[r] = t, req[r].pc \in {"check", "breach"},
               NEW k \in HeldBy(t)
        PROVE  InFlight(k, t)
    <2>1. Owning(r) /\ Live(r)
      BY <1>3 DEF Owning, Live
    <2>2. k \in req[r].applied
      BY <1>1, <1>3, <2>1, OwnerHoldsAll
    <2> QED BY <1>3, <2>1, <2>2 DEF InFlight
  <1> QED BY <1>2, <1>3

\* So does a step of time: what it takes no call in flight holds.
LEMMA LapsedLaterLapses ==
    ASSUME TypeOK, SingleOwner, SingleReversal, LapsedLater,
           NEW k \in Key, NEW S \in SUBSET Txn, Lapses(k, S)
    PROVE  LapsedLater'
PROOF
  <1>1. /\ lapsed'[k] = lapsed[k] \cup S /\ \A l \in Key \ {k} : lapsed'[l] = lapsed[l]
        /\ UNCHANGED <<txn, req, signals>>
    BY DEF Lapses, TypeOK
  <1>2. ASSUME NEW t \in Txn, NothingLost(t), t \notin S
        PROVE  NothingLost(t)'
    BY <1>1, <1>2 DEF NothingLost, LapsedKeys, SignalKeys
  <1>3. ASSUME NEW t \in S
        PROVE  k \in HeldBy(t) /\ ~InFlight(k, t)
    BY DEF Lapses, Outstanding
  <1>4. ASSUME NEW t \in Txn, txn[t].status = "NONE"
        PROVE  NothingLost(t)'
    BY <1>2, <1>3, <1>4, EarlyHolds DEF LapsedLater
  <1>5. ASSUME NEW r \in Request, req[r].pc \in {"check", "breach"}
        PROVE  NothingLost(Submits[r])'
    <2>1. NothingLost(Submits[r]) /\ Submits[r] \in Txn
      BY <1>5, ConstantTypes DEF LapsedLater
    <2>2. Submits[r] \notin S
      BY <1>3, <1>5, <2>1, EarlyHolds
    <2> QED BY <1>2, <2>1, <2>2
  <1>6. ASSUME NEW t \in Txn, NEW l \in Key, InFlight(l, t)'
        PROVE  t \notin lapsed'[l]
    <2>1. InFlight(l, t)
      BY <1>1, <1>6 DEF InFlight, Live
    <2> QED BY <1>1, <1>3, <2>1 DEF LapsedLater
  <1> QED BY <1>1, <1>4, <1>5, <1>6 DEF LapsedLater
-----------------------------------------------------------------------------
(* The holders: what is listed or has missed, and has not lapsed.          *)

\* A step that moves nothing, neither in the counters nor among the holders.
Keeps == UNCHANGED counter /\ \A s \in Txn : HeldBy(s)' = HeldBy(s)

\* A step that counts record t in key k, as far as a strict limit allows.
Gains(t, k) ==
    /\ txn[t].status \in {"PENDING", "ABANDONED"}
    /\ k \notin HeldBy(t)
    /\ k \notin Hot => GuardHolds(k, t)
    /\ Increment(k, t)
    /\ HeldBy(t)' = HeldBy(t) \cup {k}
    /\ \A s \in Txn \ {t} : HeldBy(s)' = HeldBy(s)
    /\ UNCHANGED txn

\* A step that takes record t out of key k.
Gives(t, k) ==
    /\ txn[t].status \in {"PENDING", "ABANDONED", "REVERSED"}
    /\ k \in HeldBy(t) \ ShardedRolling
    /\ FloorHolds(k, t)
    /\ counter' = Lowered(k, t)
    /\ HeldBy(t)' = HeldBy(t) \ {k}
    /\ \A s \in Txn \ {t} : HeldBy(s)' = HeldBy(s)
    /\ UNCHANGED txn

\* The same list, the same misses and nothing lapsed: the same keys are held.
LEMMA HeldSame ==
    ASSUME NEW t \in Txn, ListedBy(t)' = ListedBy(t), SignalKeys(t)' = SignalKeys(t),
           UNCHANGED lapsed
    PROVE  HeldBy(t)' = HeldBy(t)
PROOF BY DEF HeldBy, LapsedKeys

\* A decrement that misses leaves a signal of its key and record, and a
\* decrement that matches none.
LEMMA SignalsOf ==
    ASSUME NEW k, NEW t, NEW reason, Decrement(k, t, reason), NEW s
    PROVE  SignalKeys(s)' = IF s = t /\ ~Matches(k, t) THEN SignalKeys(s) \cup {k}
                                                       ELSE SignalKeys(s)
PROOF
  <1>1. CASE Matches(k, t)
    BY <1>1 DEF Decrement, SignalKeys
  <1>2. CASE ~Matches(k, t)
    <2>1. signals' = signals \cup {[key |-> k, txn |-> t, reason |-> reason]}
      BY <1>2 DEF Decrement
    <2>2. ASSUME s # t PROVE SignalKeys(s)' = SignalKeys(s)
      <3>1. {u \in signals' : u.txn = s} = {u \in signals : u.txn = s}
        BY <2>1, <2>2
      <3> QED BY <3>1 DEF SignalKeys
    <2>3. ASSUME s = t PROVE SignalKeys(s)' = SignalKeys(s) \cup {k}
      <3>1. {u \in signals' : u.txn = s} =
              {u \in signals : u.txn = s} \cup {[key |-> k, txn |-> t, reason |-> reason]}
        BY <2>1, <2>3
      <3> DEFINE mine == {u \in signals : u.txn = s}
                 missed == [key |-> k, txn |-> t, reason |-> reason]
      <3>2. missed.key = k
        OBVIOUS
      <3> HIDE DEF missed
      <3>3. {u.key : u \in mine \cup {missed}} = {u.key : u \in mine} \cup {k}
        BY <3>2
      <3> QED BY <3>1, <3>3 DEF SignalKeys, missed
    <2> QED BY <1>2, <2>2, <2>3
  <1> QED BY <1>1, <1>2

\* What lapses is held no longer.
LEMMA LapsesHeld ==
    ASSUME TypeOK, NEW k \in Key, NEW S \in SUBSET Txn, Lapses(k, S), NEW t \in Txn
    PROVE  HeldBy(t)' = IF t \in S THEN HeldBy(t) \ {k} ELSE HeldBy(t)
PROOF
  <1>1. /\ lapsed'[k] = lapsed[k] \cup S /\ \A l \in Key \ {k} : lapsed'[l] = lapsed[l]
        /\ UNCHANGED <<txn, req, rev, signals>>
    BY DEF Lapses, TypeOK
  <1>2. ListedBy(t)' = ListedBy(t)
    BY <1>1, NothingMoves
  <1>3. SignalKeys(t)' = SignalKeys(t)
    BY <1>1 DEF SignalKeys
  <1>4. LapsedKeys(t)' = IF t \in S THEN LapsedKeys(t) \cup {k} ELSE LapsedKeys(t)
    <2>1. \A l \in Key : t \in lapsed'[l] <=> t \in lapsed[l] \/ (l = k /\ t \in S)
      BY <1>1
    <2> QED BY <2>1 DEF LapsedKeys
  <1> QED BY <1>2, <1>3, <1>4 DEF HeldBy

\* A step that changes no counter and no holder conserves the ledger.
LEMMA LedgerSame ==
    ASSUME LedgerConservation, UNCHANGED counter,
           \A t \in Txn : HeldBy(t)' = HeldBy(t)
    PROVE  LedgerConservation'
PROOF
  <1>1. \A k \in Key : Outstanding(k)' = Outstanding(k)
    BY DEF Outstanding
  <1> QED BY <1>1 DEF LedgerConservation, TotalAmount, Paise

\* So does a step that counts a record in one more key, and says so.
LEMMA LedgerAdd ==
    ASSUME TypeOK, LedgerConservation, NEW k \in Key, NEW t \in Txn,
           k \notin HeldBy(t), Increment(k, t),
           HeldBy(t)' = HeldBy(t) \cup {k},
           \A s \in Txn \ {t} : HeldBy(s)' = HeldBy(s)
    PROVE  LedgerConservation'
PROOF
  <1> SUFFICES ASSUME NEW l \in Key
               PROVE  /\ counter'[l].amount = TotalAmount(Outstanding(l)')
                      /\ counter'[l].count = Cardinality(Outstanding(l)')
    BY DEF LedgerConservation, TotalAmount, Paise
  <1>1. counter[l].amount = TotalAmount(Outstanding(l))
        /\ counter[l].count = Cardinality(Outstanding(l))
    BY DEF LedgerConservation
  <1>2. counter[l] \in Counter /\ DOMAIN counter = Key
    BY DEF TypeOK
  <1>3. CASE l = k
    <2>1. Outstanding(k) \in SUBSET Txn /\ t \in Txn \ Outstanding(k)
          /\ Outstanding(k)' = Outstanding(k) \cup {t}
      BY DEF Outstanding
    <2>2. TotalAmount(Outstanding(k)') = TotalAmount(Outstanding(k)) + Amount[t]
          /\ Cardinality(Outstanding(k)') = Cardinality(Outstanding(k)) + 1
      BY <2>1, TotalAdd
    <2>3. counter'[k].amount = counter[k].amount + Amount[t]
          /\ counter'[k].count = counter[k].count + 1
      BY <1>2, <1>3 DEF Increment
    <2> QED BY <1>1, <1>3, <2>2, <2>3
  <1>4. CASE l # k
    <2>1. Outstanding(l)' = Outstanding(l)
      BY <1>4 DEF Outstanding
    <2>2. counter'[l] = counter[l]
      BY <1>2, <1>4 DEF Increment
    <2> QED BY <1>1, <2>1, <2>2
  <1> QED BY <1>3, <1>4

\* A key that holds a record has what it takes to give it back.
LEMMA FloorOfHeld ==
    ASSUME LedgerConservation, NEW k \in Key, NEW t \in Txn, k \in HeldBy(t)
    PROVE  FloorHolds(k, t)
PROOF
  <1>1. Outstanding(k) \in SUBSET Txn /\ t \in Outstanding(k)
    BY DEF Outstanding
  <1>2. TotalAmount(Outstanding(k)) >= Amount[t] /\ Cardinality(Outstanding(k)) >= 1
    BY <1>1, TotalRemove
  <1> QED BY <1>2 DEF LedgerConservation, FloorHolds

\* And one that takes a record out of a key that holds it.
LEMMA LedgerTake ==
    ASSUME TypeOK, LedgerConservation, NEW k \in Key, NEW t \in Txn,
           k \in HeldBy(t), counter' = Lowered(k, t),
           HeldBy(t)' = HeldBy(t) \ {k},
           \A s \in Txn \ {t} : HeldBy(s)' = HeldBy(s)
    PROVE  LedgerConservation'
PROOF
  <1> SUFFICES ASSUME NEW l \in Key
               PROVE  /\ counter'[l].amount = TotalAmount(Outstanding(l)')
                      /\ counter'[l].count = Cardinality(Outstanding(l)')
    BY DEF LedgerConservation, TotalAmount, Paise
  <1>1. counter[l].amount = TotalAmount(Outstanding(l))
        /\ counter[l].count = Cardinality(Outstanding(l))
    BY DEF LedgerConservation
  <1>2. counter[l] \in Counter /\ DOMAIN counter = Key
    BY DEF TypeOK
  <1>3. CASE l = k
    <2>1. Outstanding(k) \in SUBSET Txn /\ t \in Outstanding(k)
          /\ Outstanding(k)' = Outstanding(k) \ {t}
      BY DEF Outstanding
    <2>2. /\ TotalAmount(Outstanding(k)') = TotalAmount(Outstanding(k)) - Amount[t]
          /\ Cardinality(Outstanding(k)') = Cardinality(Outstanding(k)) - 1
      BY <2>1, TotalRemove
    <2>3. counter'[k].amount = counter[k].amount - Amount[t]
          /\ counter'[k].count = counter[k].count - 1
      BY <1>2, <1>3 DEF Lowered
    <2> QED BY <1>1, <1>3, <2>2, <2>3
  <1>4. CASE l # k
    <2>1. Outstanding(l)' = Outstanding(l)
      BY <1>4 DEF Outstanding
    <2>2. counter'[l] = counter[l]
      BY <1>2, <1>4 DEF Lowered
    <2> QED BY <1>1, <2>1, <2>2
  <1> QED BY <1>3, <1>4

\* And time: it takes from a counter what it takes from its holders.
LEMMA LedgerLapse ==
    ASSUME TypeOK, LedgerConservation, NEW k \in Key, NEW S \in SUBSET Txn, Lapses(k, S)
    PROVE  LedgerConservation'
PROOF
  <1>1. ASSUME NEW t \in Txn, S = {t}, counter' = Lowered(k, t)
        PROVE  LedgerConservation'
    <2>1. k \in HeldBy(t)
      BY <1>1 DEF Lapses, Outstanding
    <2>2. HeldBy(t)' = HeldBy(t) \ {k} /\ \A s \in Txn \ {t} : HeldBy(s)' = HeldBy(s)
      BY <1>1, LapsesHeld
    <2> QED BY <1>1, <2>1, <2>2, LedgerTake
  <1>2. CASE S = Outstanding(k) /\ counter' = [counter EXCEPT ![k] = Empty]
    <2> SUFFICES ASSUME NEW l \in Key
                 PROVE  /\ counter'[l].amount = TotalAmount(Outstanding(l)')
                        /\ counter'[l].count = Cardinality(Outstanding(l)')
      BY DEF LedgerConservation, TotalAmount, Paise
    <2>1. DOMAIN counter = Key
      BY DEF TypeOK
    <2>2. CASE l = k
      <3>1. Outstanding(k)' = {}
        <4>1. \A t \in Txn : k \notin HeldBy(t)'
          BY <1>2, LapsesHeld DEF Outstanding
        <4> QED BY <4>1 DEF Outstanding
      <3>2. counter'[k].amount = 0 /\ counter'[k].count = 0
        BY <1>2, <2>1 DEF Empty
      <3> QED BY <2>2, <3>1, <3>2, TotalEmpty
    <2>3. CASE l # k
      <3>1. Outstanding(l)' = Outstanding(l)
        <4>1. \A t \in Txn : l \in HeldBy(t)' <=> l \in HeldBy(t)
          BY <2>3, LapsesHeld
        <4> QED BY <4>1 DEF Outstanding
      <3>2. counter'[l] = counter[l]
        BY <1>2, <2>1, <2>3
      <3> QED BY <3>1, <3>2 DEF LedgerConservation
    <2> QED BY <2>2, <2>3
  <1> QED BY <1>1, <1>2 DEF Lapses
-----------------------------------------------------------------------------
(* The ledger, step by step.                                               *)

\* A key that is struck off a list is given back, or was not to be.
LEMMA UnlistedHolds ==
    ASSUME LedgerConservation, DriftIsExplained, NEW t \in Txn, NEW k \in Key, Unlists(t, k)
    PROVE  Keeps \/ Gives(t, k)
PROOF
  <1>1. PICK reason \in DriftReason :
          /\ Decrement(k, t, reason)
          /\ reason = "COMPENSATION_FLOOR_GUARD_FAILED" => t \notin lapsed[k]
    BY DEF Unlists
  <1>2. \A s \in Txn : LapsedKeys(s)' = LapsedKeys(s)
    BY DEF Unlists, LapsedKeys
  <1>3. \A s \in Txn \ {t} : HeldBy(s)' = HeldBy(s)
    BY <1>1, SignalsOf, HeldSame DEF Unlists
  <1>4. CASE Matches(k, t)
    <2>1. k \notin SignalKeys(t) /\ k \notin LapsedKeys(t)
      BY <1>4 DEF SignalKeys, LapsedKeys, DriftIsExplained, Matches
    <2>2. SignalKeys(t)' = SignalKeys(t)
      BY <1>1, <1>4, SignalsOf
    <2>3. HeldBy(t)' = HeldBy(t) \ {k} /\ k \in HeldBy(t)
      BY <1>2, <2>1, <2>2 DEF HeldBy, Unlists
    <2>4. counter' = Lowered(k, t)
      BY <1>1, <1>4 DEF Decrement
    <2> QED BY <1>3, <1>4, <2>3, <2>4 DEF Gives, Unlists, Matches
  <1>5. CASE ~Matches(k, t)
    <2>1. SignalKeys(t)' = SignalKeys(t) \cup {k}
      BY <1>1, <1>5, SignalsOf
    <2>2. HeldBy(t)' = HeldBy(t)
      BY <1>2, <2>1 DEF HeldBy, Unlists
    <2>3. UNCHANGED counter
      BY <1>1, <1>5 DEF Decrement
    <2> QED BY <1>3, <2>2, <2>3 DEF Keeps
  <1> QED BY <1>4, <1>5

\* Every step moves one key of one record in or out of the ledger, or none,
\* or time takes what it takes.
LEMMA HoldersMove ==
    ASSUME Reliable, SagaInvariant, [Next]_vars
    PROVE  \/ Keeps
           \/ \E t \in Txn, k \in Key : Gains(t, k) \/ Gives(t, k)
           \/ \E k \in Key, S \in SUBSET Txn : Lapses(k, S)
PROOF
  <1>i. /\ TypeOK /\ StepInPlan /\ AppliedSoFar /\ SingleOwner /\ SingleReversal
        /\ LapsedLater /\ DriftIsExplained /\ LedgerConservation
    BY DEF SagaInvariant
  <1>1. CASE ListsStay
    <2>1. \A t \in Txn : SignalKeys(t)' = SignalKeys(t)
      BY <1>1 DEF ListsStay, SignalKeys
    <2> QED BY <1>1, <2>1, HeldSame DEF ListsStay, Keeps
  <1>2. ASSUME NEW t \in Txn, NEW k \in Key, Lists(t, k)
        PROVE  Gains(t, k)
    <2>1. \A s \in Txn : SignalKeys(s)' = SignalKeys(s) /\ LapsedKeys(s)' = LapsedKeys(s)
      BY <1>2 DEF Lists, SignalKeys, LapsedKeys
    <2>2. HeldBy(t) = ListedBy(t) /\ HeldBy(t)' = ListedBy(t)'
      BY <1>2, <2>1 DEF Lists, NothingLost, HeldBy
    <2>3. \A s \in Txn \ {t} : HeldBy(s)' = HeldBy(s)
      BY <1>2, <2>1, HeldSame DEF Lists
    <2> QED BY <1>2, <2>2, <2>3 DEF Lists, Gains
  <1> QED BY <1>i, <1>1, <1>2, ListsMove, UnlistedHolds, TimeLapses

\* So every step conserves the ledger.
LEMMA LedgerStep ==
    ASSUME Reliable, SagaInvariant, [Next]_vars
    PROVE  LedgerConservation'
PROOF
  <1>i. TypeOK /\ LedgerConservation
    BY DEF SagaInvariant
  <1>1. CASE Keeps
    BY <1>1, <1>i, LedgerSame DEF Keeps
  <1>2. ASSUME NEW t \in Txn, NEW k \in Key, Gains(t, k)
        PROVE  LedgerConservation'
    BY <1>2, <1>i, LedgerAdd DEF Gains
  <1>3. ASSUME NEW t \in Txn, NEW k \in Key, Gives(t, k)
        PROVE  LedgerConservation'
    BY <1>3, <1>i, LedgerTake DEF Gives
  <1>4. ASSUME NEW k \in Key, NEW S \in SUBSET Txn, Lapses(k, S)
        PROVE  LedgerConservation'
    BY <1>4, <1>i, LedgerLapse
  <1> QED BY <1>1, <1>2, <1>3, <1>4, HoldersMove

\* A floor guard that fails does so for a reason: what the key still counts
\* is enough for every record it holds.
LEMMA DriftStep ==
    ASSUME Reliable, SagaInvariant, [Next]_vars
    PROVE  DriftIsExplained'
PROOF
  <1>i. /\ TypeOK /\ StepInPlan /\ AppliedSoFar /\ SingleOwner /\ SingleReversal
        /\ LapsedLater /\ DriftIsExplained /\ LedgerConservation
    BY DEF SagaInvariant
  <1>1. ASSUME UNCHANGED signals, \A k \in Key : lapsed[k] \subseteq lapsed'[k]
        PROVE  DriftIsExplained'
    BY <1>1, <1>i DEF DriftIsExplained, TypeOK, Signal, ShardedRolling
  <1>2. ASSUME NEW t \in Txn, NEW k \in Key, Unlists(t, k)
        PROVE  DriftIsExplained'
    <2>1. PICK reason \in DriftReason :
            /\ Decrement(k, t, reason)
            /\ reason = "COMPENSATION_FLOOR_GUARD_FAILED" => t \notin lapsed[k]
      BY <1>2 DEF Unlists
    <2>2. UNCHANGED lapsed
      BY <1>2 DEF Unlists
    <2>3. CASE Matches(k, t)
      BY <1>1, <2>1, <2>2, <2>3 DEF Decrement
    <2>4. CASE ~Matches(k, t)
      <3>1. signals' = signals \cup {[key |-> k, txn |-> t, reason |-> reason]}
        BY <2>1, <2>4 DEF Decrement
      <3>2. k \in ShardedRolling \/ t \in lapsed[k]
        <4>1. ASSUME t \notin lapsed[k] PROVE FloorHolds(k, t)
          <5>1. k \in HeldBy(t)
            BY <1>2, <4>1 DEF Unlists, HeldBy, LapsedKeys
          <5> QED BY <1>i, <5>1, FloorOfHeld
        <4> QED BY <2>4, <4>1 DEF Matches
      <3>3. \/ k \in ShardedRolling
            \/ reason = "REVERSAL_FLOOR_GUARD_FAILED" /\ t \in lapsed[k]
        BY <2>1, <3>2 DEF DriftReason
      <3> QED BY <1>i, <2>2, <3>1, <3>3 DEF DriftIsExplained, ShardedRolling
    <2> QED BY <2>3, <2>4
  <1>3. ASSUME NEW t \in Txn, NEW k \in Key, Lists(t, k)
        PROVE  DriftIsExplained'
    BY <1>1, <1>3 DEF Lists
  <1>4. ASSUME NEW k \in Key, NEW S \in SUBSET Txn, Lapses(k, S)
        PROVE  DriftIsExplained'
    <2>1. \A l \in Key : lapsed[l] \subseteq lapsed'[l]
      BY <1>4, <1>i DEF Lapses, TypeOK
    <2> QED BY <1>1, <1>4, <2>1 DEF Lapses
  <1>5. CASE ListsStay
    BY <1>1, <1>5 DEF ListsStay
  <1> QED BY <1>i, <1>2, <1>3, <1>4, <1>5, ListsMove, TimeLapses

\* And what is lost is out of the way of the calls.
LEMMA LapsedLaterStep ==
    ASSUME Reliable, SagaInvariant, [Next]_vars
    PROVE  LapsedLater'
PROOF
  <1>i. /\ TypeOK /\ StepInPlan /\ AppliedSoFar /\ SingleOwner /\ SingleReversal
        /\ LapsedLater
    BY DEF SagaInvariant
  <1>1. CASE LapseStep
    BY <1>1, <1>i, TimeLapses, LapsedLaterLapses
  <1>2. CASE ~LapseStep
    <2>1. ListsStay \/ \E t \in Txn, k \in Key : Lists(t, k) \/ Unlists(t, k)
      BY <1>2, <1>i, ListsMove
    <2>2. \A t \in Txn : txn[t].status # "NONE" => txn'[t].status # "NONE"
      BY <1>i, DecidedStays
    <2>3. \/ UNCHANGED req
          \/ \E r \in Request : SubmitStep(r) \/ SubmitFault(r) \/ RefuseDirection(r)
      BY <1>2, <1>i, OtherType, NoRetries DEF Next, vars
    <2> QED BY <1>i, <2>1, <2>2, <2>3, LapsedLaterMoves
  <1> QED BY <1>1, <1>2
-----------------------------------------------------------------------------
(* The limits.                                                             *)

\* A strict counter document is within its own thresholds.
CounterLimits ==
    \A k \in Key \ Hot :
        /\ Within(counter[k].amount, Threshold[k].amount)
        /\ Within(counter[k].count, Threshold[k].count)

\* Less than what is within a limit is within it.
LEMMA WithinLess ==
    ASSUME NEW limit \in Limit, NEW a \in Nat, NEW b \in Nat, b <= a, Within(a, limit)
    PROVE  Within(b, limit)
PROOF BY SagaAssumption DEF Within, Limit

\* What lowers a counter keeps it within.
LEMMA LowerWithin ==
    ASSUME TypeOK, CounterLimits, NEW k \in Key, NEW t \in Txn,
           FloorHolds(k, t), counter' = Lowered(k, t)
    PROVE  CounterLimits'
PROOF
  <1>1. \A l \in Key : /\ Threshold[l].amount \in Limit /\ Threshold[l].count \in Limit
                       /\ counter[l] \in Counter /\ l \in DOMAIN counter
    BY SagaAssumption DEF TypeOK
  <1>2. /\ counter'[k].amount = counter[k].amount - Amount[t]
        /\ counter'[k].count = counter[k].count - 1
        /\ \A l \in Key \ {k} : counter'[l] = counter[l]
    BY <1>1 DEF Lowered
  <1>3. /\ counter'[k].amount \in Nat /\ counter'[k].count \in Nat
        /\ counter[k].amount \in Nat /\ counter[k].count \in Nat
        /\ counter'[k].amount <= counter[k].amount
        /\ counter'[k].count <= counter[k].count
    <2>1. Amount[t] \in Nat /\ counter[k].amount \in Nat /\ counter[k].count \in Nat
      BY <1>1, ConstantTypes DEF Counter
    <2> QED BY <1>2, <2>1 DEF FloorHolds
  <1>4. ASSUME NEW l \in Key \ Hot
        PROVE  /\ Within(counter'[l].amount, Threshold[l].amount)
               /\ Within(counter'[l].count, Threshold[l].count)
    <2>1. CASE l = k
      BY <1>1, <1>3, <2>1, WithinLess DEF CounterLimits
    <2>2. CASE l # k
      BY <1>2, <2>2 DEF CounterLimits
    <2> QED BY <2>1, <2>2
  <1> QED BY <1>4 DEF CounterLimits, Within

\* Only a guarded increment adds to a strict counter, and its guard is the
\* limit itself.
LEMMA CounterLimitsStep ==
    ASSUME Reliable, SagaInvariant, CounterLimits, [Next]_vars
    PROVE  CounterLimits'
PROOF
  <1>i. TypeOK /\ LedgerConservation
    BY DEF SagaInvariant
  <1>k. \A k \in Key : /\ Threshold[k].amount \in Limit /\ Threshold[k].count \in Limit
                       /\ counter[k] \in Counter /\ k \in DOMAIN counter
    BY <1>i, SagaAssumption DEF TypeOK
  <1>1. CASE Keeps
    BY <1>1 DEF Keeps, CounterLimits
  <1>2. ASSUME NEW t \in Txn, NEW k \in Key, Gains(t, k)
        PROVE  CounterLimits'
    <2>1. /\ counter'[k].amount = counter[k].amount + Amount[t]
          /\ counter'[k].count = counter[k].count + 1
          /\ \A l \in Key \ {k} : counter'[l] = counter[l]
      BY <1>2, <1>k DEF Gains, Increment
    <2>2. ASSUME NEW l \in Key \ Hot
          PROVE  /\ Within(counter'[l].amount, Threshold[l].amount)
                 /\ Within(counter'[l].count, Threshold[l].count)
      <3>1. CASE l = k
        BY <1>2, <2>1, <3>1 DEF Gains, GuardHolds
      <3>2. CASE l # k
        BY <2>1, <3>2 DEF CounterLimits
      <3> QED BY <3>1, <3>2
    <2> QED BY <2>2 DEF CounterLimits, Within
  <1>3. ASSUME NEW t \in Txn, NEW k \in Key, Gives(t, k)
        PROVE  CounterLimits'
    BY <1>3, <1>i, LowerWithin DEF Gives
  <1>4. ASSUME NEW k \in Key, NEW S \in SUBSET Txn, Lapses(k, S)
        PROVE  CounterLimits'
    <2>1. ASSUME NEW t \in Txn, FloorHolds(k, t), counter' = Lowered(k, t)
          PROVE  CounterLimits'
      BY <1>i, <2>1, LowerWithin
    <2>2. CASE counter' = [counter EXCEPT ![k] = Empty]
      <3>1. ASSUME NEW l \in Key \ Hot
            PROVE  /\ Within(counter'[l].amount, Threshold[l].amount)
                   /\ Within(counter'[l].count, Threshold[l].count)
        <4>1. CASE l = k
          <5>1. counter'[k].amount = 0 /\ counter'[k].count = 0
            BY <1>k, <2>2 DEF Empty
          <5> QED BY <1>k, <4>1, <5>1, SagaAssumption DEF Within, Limit
        <4>2. CASE l # k
          <5>1. counter'[l] = counter[l]
            BY <1>k, <2>2, <4>2
          <5> QED BY <5>1 DEF CounterLimits
        <4> QED BY <4>1, <4>2
      <3> QED BY <3>1 DEF CounterLimits, Within
    <2> QED BY <1>4, <2>1, <2>2 DEF Lapses
  <1> QED BY <1>1, <1>2, <1>3, <1>4, HoldersMove
-----------------------------------------------------------------------------
(* The theorems.                                                           *)

\* At the start nothing is held.
LEMMA InitHoldsNothing == Init => \A t \in Txn : HeldBy(t) = {}
PROOF
  <1> SUFFICES ASSUME Init, NEW t \in Txn PROVE HeldBy(t) = {}
    OBVIOUS
  <1>1. \A k : k \notin ListedBy(t)
    BY Holding DEF Init
  <1>2. SignalKeys(t) = {}
    BY DEF Init, SignalKeys
  <1> QED BY <1>1, <1>2 DEF HeldBy

\* The invariant holds at the start ...
LEMMA SagaInit == Init => SagaInvariant /\ CounterLimits
PROOF
  <1> SUFFICES ASSUME Init PROVE SagaInvariant /\ CounterLimits
    OBVIOUS
  <1>1. TypeOK /\ StepInPlan
    BY TypeInit
  <1>2. \A r \in Request : req[r].pc = "idle" /\ req[r].applied = {}
                           /\ req[r].outcome = "APPROVED"
    BY DEF Init
  <1>3. \A v \in Reversal : rev[v].pc = "idle" /\ rev[v].left = {} /\ rev[v].skipped = {}
    BY DEF Init
  <1>4. AppliedSoFar
    BY <1>2 DEF AppliedSoFar
  <1>5. SingleOwner
    BY <1>2 DEF SingleOwner, Owning
  <1>6. SingleReversal
    BY <1>3 DEF SingleReversal, Reversing
  <1>7. LedgerConservation
    <2>1. \A t \in Txn : HeldBy(t) = {}
      BY InitHoldsNothing
    <2>2. \A k : Outstanding(k) = {}
      BY <2>1 DEF Outstanding
    <2>3. \A k \in Key : counter[k].amount = 0 /\ counter[k].count = 0
      BY DEF Init, Empty
    <2> QED BY <2>2, <2>3, TotalEmpty DEF LedgerConservation
  <1>8. CounterLimits
    <2>1. \A k \in Key : /\ counter[k].amount = 0 /\ counter[k].count = 0
                         /\ Threshold[k].amount \in Limit /\ Threshold[k].count \in Limit
      BY SagaAssumption DEF Init, Empty
    <2> QED BY <2>1, SagaAssumption DEF CounterLimits, Within, Limit
  <1>9. LapsedLater /\ DriftIsExplained
    <2>1. ASSUME NEW t \in Txn PROVE NothingLost(t)
      BY DEF Init, NothingLost, LapsedKeys, SignalKeys
    <2>2. \A r \in Request : ~Live(r)
      BY <1>2 DEF Live
    <2>3. LapsedLater
      BY <1>2, <2>1, <2>2 DEF LapsedLater, InFlight
    <2> QED BY <2>3 DEF Init, DriftIsExplained
  <1> QED BY <1>1, <1>4, <1>5, <1>6, <1>7, <1>8, <1>9 DEF SagaInvariant

\* ... and is kept by every step, of every call.
LEMMA SagaStep ==
    ASSUME Reliable
    PROVE  SagaInvariant /\ CounterLimits /\ [Next]_vars
             => SagaInvariant' /\ CounterLimits'
PROOF
  <1> SUFFICES ASSUME SagaInvariant, CounterLimits, [Next]_vars
               PROVE  SagaInvariant' /\ CounterLimits'
    OBVIOUS
  <1>i. TypeOK /\ StepInPlan /\ AppliedSoFar /\ SingleOwner /\ SingleReversal
    BY DEF SagaInvariant
  <1>1. TypeOK' /\ StepInPlan' /\ AppliedSoFar'
    BY <1>i, TypeStep, AppliedInductive
  <1>2. SingleOwner' /\ SingleReversal'
    BY <1>i, OwnersStep
  <1>3. LapsedLater' /\ DriftIsExplained' /\ LedgerConservation' /\ CounterLimits'
    BY LapsedLaterStep, DriftStep, LedgerStep, CounterLimitsStep
  <1> QED BY <1>1, <1>2, <1>3 DEF SagaInvariant

\* All of it is an invariant, as long as no write is reported wrongly.
LEMMA SagaInvariantHolds ==
    ASSUME Reliable
    PROVE  Spec => [](SagaInvariant /\ CounterLimits)
PROOF
  <1>1. SagaInvariant /\ CounterLimits /\ [Next]_vars
          => (SagaInvariant /\ CounterLimits)'
    BY SagaStep
  <1> QED BY <1>1, SagaInit, PTL DEF Spec

\* Every counter document is the sum of the records that hold it, whatever
\* calls race, throw, die, or are abandoned by the reaper.
THEOREM Conservation == ASSUME Reliable PROVE Spec => []LedgerConservation
PROOF
  <1>1. SagaInvariant => LedgerConservation
    BY DEF SagaInvariant
  <1>2. Spec => [](SagaInvariant /\ CounterLimits)
    BY SagaInvariantHolds
  <1> QED BY <1>1, <1>2, PTL

\* A floor guard fails only where the decrement names no bucket (sharded
\* rolling), or in a reversal that came after the document or bucket was gone:
\* never in a compensation of another window, and never because a counter was
\* lowered twice or not raised, whatever calls race, die or are abandoned.
THEOREM DriftExplained == ASSUME Reliable PROVE Spec => []DriftIsExplained
PROOF
  <1>1. SagaInvariant => DriftIsExplained
    BY DEF SagaInvariant
  <1>2. Spec => [](SagaInvariant /\ CounterLimits)
    BY SagaInvariantHolds
  <1> QED BY <1>1, <1>2, PTL

\* The APPROVED records of a strict counter stay within its limits: they are
\* among the records the counter document counts.
THEOREM LimitsHold == ASSUME Reliable PROVE Spec => []StrictLimits
PROOF
  <1>1. ASSUME SagaInvariant, CounterLimits PROVE StrictLimits
    <2> SUFFICES ASSUME NEW k \in Key \ Hot
                 PROVE  /\ Within(TotalAmount(Approved(k)), Threshold[k].amount)
                        /\ Within(Cardinality(Approved(k)), Threshold[k].count)
      BY DEF StrictLimits
    <2>1. Approved(k) \subseteq Outstanding(k) /\ Outstanding(k) \in SUBSET Txn
      BY DEF Approved, Outstanding, HeldBy, ListedBy
    <2>2. /\ TotalAmount(Approved(k)) <= TotalAmount(Outstanding(k))
          /\ Cardinality(Approved(k)) <= Cardinality(Outstanding(k))
      BY <2>1, TotalMonotone
    <2>3. /\ TotalAmount(Approved(k)) \in Nat /\ TotalAmount(Outstanding(k)) \in Nat
          /\ Cardinality(Approved(k)) \in Nat /\ Cardinality(Outstanding(k)) \in Nat
      BY <2>1, PaiseFinite
    <2>4. /\ Within(TotalAmount(Outstanding(k)), Threshold[k].amount)
          /\ Within(Cardinality(Outstanding(k)), Threshold[k].count)
      BY <1>1 DEF SagaInvariant, LedgerConservation, CounterLimits
    <2>5. Threshold[k].amount \in Limit /\ Threshold[k].count \in Limit
      BY SagaAssumption
    <2> QED BY <2>2, <2>3, <2>4, <2>5, WithinLess
  <1>2. Spec => [](SagaInvariant /\ CounterLimits)
    BY SagaInvariantHolds
  <1> QED BY <1>1, <1>2, PTL

\* A record that is decided has no owner left, one that was refused no
\* reversal: what it still holds is what could not be given back.
LEMMA RefusalsInvariant == SagaInvariant => FailedHoldsNothing
PROOF
  <1> SUFFICES ASSUME SagaInvariant, NEW t \in Txn, txn[t].status \in {"REJECTED", "SYSTEM_FAILURE"},
                      NEW k \in HeldBy(t)
               PROVE  k \in ShardedRolling
    BY DEF FailedHoldsNothing
  <1>1. \A r \in Request : Submits[r] = t => req[r].applied = {}
    BY DEF SagaInvariant, SingleOwner, Owning
  <1>2. \A v \in Reversal : Reverses[v] = t => rev[v].left \cup rev[v].skipped = {}
    BY DEF SagaInvariant, SingleReversal, Reversing
  <1>3. \A l : l \notin ListedBy(t)
    BY <1>1, <1>2, Holding
  <1>4. k \in SignalKeys(t) /\ k \in Key /\ t \notin lapsed[k]
    <2>1. k \in SignalKeys(t) \ LapsedKeys(t)
      BY <1>3 DEF HeldBy
    <2>2. \A s \in signals : s.key \in Key
      BY DEF SagaInvariant, TypeOK, Signal
    <2> QED BY <2>1, <2>2 DEF SignalKeys, LapsedKeys
  <1> QED BY <1>4 DEF SagaInvariant, DriftIsExplained, SignalKeys

\* A refused record is counted nowhere, but in sharded rolling windows.
THEOREM RefusalsHoldNothing == ASSUME Reliable PROVE Spec => []FailedHoldsNothing
PROOF
  <1>1. SagaInvariant => FailedHoldsNothing
    BY RefusalsInvariant
  <1>2. Spec => [](SagaInvariant /\ CounterLimits)
    BY SagaInvariantHolds
  <1> QED BY <1>1, <1>2, PTL

\* An APPROVED record names every window of its plan; this needs no
\* assumption about the faults.
THEOREM ApprovalsInFull == Spec => []ApprovedInFull
PROOF
  <1> DEFINE Inv == TypeOK /\ StepInPlan /\ AppliedSoFar /\ ApprovedInFull
  <1>1. Init => Inv
    <2> SUFFICES ASSUME Init PROVE Inv
      OBVIOUS
    <2>1. AppliedSoFar
      BY DEF Init, AppliedSoFar
    <2>2. ApprovedInFull
      BY DEF Init, ApprovedInFull
    <2> QED BY <2>1, <2>2, TypeInit
  <1>2. Inv /\ [Next]_vars => Inv'
    <2> SUFFICES ASSUME Inv, [Next]_vars PROVE Inv'
      OBVIOUS
    <2>1. TypeOK' /\ StepInPlan'
      BY TypeStep
    <2>2. ASSUME UNCHANGED txn PROVE ApprovedInFull'
      BY <2>2 DEF ApprovedInFull, WindowKeys
    <2>3. ASSUME NEW t \in Txn, NEW status, status # "APPROVED",
                 txn' = [txn EXCEPT ![t].status = status]
          PROVE  ApprovedInFull'
      <3>1. /\ txn'[t].status # "APPROVED"
            /\ \A s \in Txn \ {t} : txn'[s] = txn[s]
        <4>1. txn[t] \in Record /\ t \in DOMAIN txn
          BY DEF TypeOK
        <4> QED BY <2>3, <4>1 DEF Record
      <3> QED BY <3>1 DEF ApprovedInFull, WindowKeys
    <2>4. ASSUME NEW r \in Request, SubmitStep(r) \/ SubmitFault(r) \/ RefuseDirection(r)
          PROVE  AppliedSoFar' /\ ApprovedInFull'
      <3>1. AppliedSoFar'
        BY <2>4, AppliedStep
      <3>2. CASE Claim(r) \/ ClaimUnconfirmed(r)
        BY <2>3, <3>1, <3>2, ConstantTypes DEF Claim, ClaimUnconfirmed
      <3>3. CASE Resolve(r) \/ ResolveUnconfirmed(r)
        <4>1. req[r].pc = "resolve" /\ txn' = [txn EXCEPT ![Submits[r]] = Resolved(r)]
          BY <3>3 DEF Resolve, ResolveUnconfirmed
        <4>2. /\ txn'[Submits[r]] = Resolved(r)
              /\ \A s \in Txn \ {Submits[r]} : txn'[s] = txn[s]
          BY <4>1, ConstantTypes DEF TypeOK
        <4>3. Resolved(r).status = "APPROVED" =>
                Resolved(r).applied = WindowKeys(Submits[r], Len(Plan[Submits[r]]))
          BY <4>1 DEF Resolved, AppliedSoFar
        <4>4. ApprovedInFull'
          BY <4>2, <4>3 DEF ApprovedInFull, WindowKeys
        <4> QED BY <3>1, <4>4
      <3> QED
        BY <2>2, <2>4, <3>1, <3>2, <3>3
        DEF SubmitStep, SubmitFault, RefuseDirection, ClaimDuplicate, ReplayExisting,
            WaterfallStep, PerTxnCheck, GuardedIncrement,
            GuardedIncrementMisses, ReadBreach, SoftIncrement, SoftBreach, Compensate,
            ResolveMisses, Crash, CallThrows, ResolveThrows
    <2>5. ASSUME \/ \E t \in Txn : ClaimGoesStale(t)
                 \/ ReaperStep
                 \/ \E v \in Reversal : ReversalStep(v) \/ ReversalFault(v)
          PROVE  AppliedSoFar' /\ ApprovedInFull'
      <3>1. AppliedSoFar'
        <4>1. UNCHANGED req
          BY <2>5, OtherType
        <4> QED BY <4>1 DEF AppliedSoFar, WindowKeys
      <3>2. CASE \E t \in Txn : ClaimGoesStale(t) \/ ReaperAbandon(t)
        BY <2>2, <2>3, <3>1, <3>2 DEF ClaimGoesStale, ReaperAbandon
      <3>3. CASE ReaperScan
        BY <2>2, <3>1, <3>3 DEF ReaperScan
      <3>4. ASSUME NEW v \in Reversal, ReversalStep(v) \/ ReversalFault(v)
            PROVE  ApprovedInFull'
        BY <2>2, <2>3, <3>4, ConstantTypes
        DEF ReversalStep, ReversalFault, ReverseFlip, ReverseMisses, ReverseLookup,
            ReverseKey, ReverseAnswer, ReverseStops, ReverseUnconfirmed
      <3> QED BY <2>5, <3>1, <3>2, <3>3, <3>4 DEF ReaperStep
    <2>6. CASE UNCHANGED vars
      BY <2>1, <2>2, <2>6 DEF vars, AppliedSoFar, WindowKeys
    <2>7. CASE RetryStep \/ LapseStep
      <3>1. UNCHANGED <<txn, req>>
        BY <2>7, QuietType
      <3>2. AppliedSoFar'
        BY <3>1 DEF AppliedSoFar, WindowKeys
      <3>3. ApprovedInFull'
        BY <2>2, <3>1
      <3> QED BY <2>1, <3>2, <3>3
    <2> QED BY <2>1, <2>4, <2>5, <2>6, <2>7 DEF Next
  <1>3. Inv => ApprovedInFull
    OBVIOUS
  <1> QED BY <1>1, <1>2, <1>3, PTL DEF Spec

-----------------------------------------------------------------------------
(* The ledger of TransactionLedger.                                        *)

\* The abstract ledger's variables, under the refinement mapping.
Statuses == [t \in Txn |-> txn[t].status]
Holdings == [t \in Txn |-> HeldBy(t)]

\* What the abstract ledger compares with a limit is what the counter says.
LEMMA AbstractFits ==
    ASSUME TypeOK, LedgerConservation, NEW t \in Txn, NEW k \in Key,
           k \notin HeldBy(t), GuardHolds(k, t)
    PROVE  Ledger!Fits(k, t)
PROOF
  <1>1. Ledger!Holders(k) = Outstanding(k)
    BY DEF Ledger!Holders, Outstanding
  <1>2. Outstanding(k) \in SUBSET Txn /\ t \in Txn \ Outstanding(k)
    BY DEF Outstanding
  <1>3. /\ TotalAmount(Outstanding(k) \cup {t}) = counter[k].amount + Amount[t]
        /\ Cardinality(Outstanding(k) \cup {t}) = counter[k].count + 1
    BY <1>2, TotalAdd DEF LedgerConservation
  <1>c. \A S : Ledger!Cardinality(S) = Cardinality(S)
    BY DEF Ledger!Cardinality, Cardinality
  <1>4. \A S : Ledger!TotalAmount(S) = TotalAmount(S)
    BY <1>c DEF Ledger!TotalAmount, TotalAmount, Ledger!Paise, Paise
  <1> QED BY <1>1, <1>3, <1>4, <1>c DEF Ledger!Fits, Ledger!Within, Within, GuardHolds

\* Every step is a step of the abstract ledger, or none of it: a key that
\* moves is held or released, a status that moves is a decision.
LEMMA AbstractStep ==
    ASSUME Reliable, SagaInvariant, SagaInvariant', [Next]_vars
    PROVE  [Ledger!Next]_(Ledger!vars)
PROOF
  <1>i. TypeOK /\ StepInPlan /\ LedgerConservation
    BY DEF SagaInvariant
  <1>1. ASSUME NEW t \in Txn, NEW k \in Key, Gains(t, k)
        PROVE  Ledger!Next
    <2>1. k \in Key \ Hot => Ledger!Fits(k, t)
      BY <1>1, <1>i, AbstractFits DEF Gains
    <2>2. Holdings' = [Holdings EXCEPT ![t] = @ \cup {k}]
      BY <1>1 DEF Gains, Holdings
    <2>3. Statuses' = Statuses
      BY <1>1 DEF Gains, Statuses
    <2>4. Ledger!Hold(t, k)
      BY <1>1, <2>1, <2>2, <2>3 DEF Ledger!Hold, Gains, Holdings, Statuses
    <2> QED BY <2>4 DEF Ledger!Next
  <1>2. ASSUME NEW t \in Txn, NEW k \in Key, Gives(t, k)
        PROVE  Ledger!Next
    <2>1. Holdings' = [Holdings EXCEPT ![t] = @ \ {k}]
      BY <1>2 DEF Gives, Holdings
    <2>2. Statuses' = Statuses
      BY <1>2 DEF Gives, Statuses
    <2>3. Ledger!Release(t, k)
      BY <1>2, <2>1, <2>2 DEF Ledger!Release, Gives, Holdings, Statuses
    <2> QED BY <2>3 DEF Ledger!Next
  <1>3. ASSUME Keeps, NEW t \in Txn, Moves(t)
        PROVE  Ledger!Next
    <2>1. Holdings' = Holdings
      BY <1>3 DEF Keeps, Holdings
    <2>2. Statuses' = [Statuses EXCEPT ![t] = txn'[t].status]
      BY <1>3 DEF Moves, Statuses
    <2>3. CASE txn[t].status = "NONE" /\ txn'[t].status = "PENDING"
      <3>1. Ledger!Claim(t)
        BY <2>1, <2>2, <2>3 DEF Ledger!Claim, Holdings, Statuses
      <3> QED BY <3>1 DEF Ledger!Next
    <2>4. CASE txn[t].status = "APPROVED" /\ txn'[t].status = "REVERSED"
      <3>1. Ledger!Reverse(t)
        BY <2>1, <2>2, <2>4 DEF Ledger!Reverse, Holdings, Statuses
      <3> QED BY <3>1 DEF Ledger!Next
    <2>5. CASE txn[t].status = "PENDING" /\ txn'[t].status = "APPROVED"
      <3>1. Ledger!Approve(t)
        BY <2>1, <2>2, <2>5 DEF Ledger!Approve, Holdings, Statuses
      <3> QED BY <3>1 DEF Ledger!Next
    <2>6. CASE txn[t].status = "PENDING" /\ txn'[t].status = "ABANDONED"
      <3>1. Ledger!Abandon(t)
        BY <2>1, <2>2, <2>6 DEF Ledger!Abandon, Holdings, Statuses
      <3> QED BY <3>1 DEF Ledger!Next
    <2>7. CASE txn[t].status = "PENDING" /\ txn'[t].status \in {"REJECTED", "SYSTEM_FAILURE"}
      <3>1. HeldBy(t) \subseteq ShardedRolling
        <4>1. FailedHoldsNothing'
          BY RefusalsInvariant, PTL
        <4> QED BY <1>3, <2>7, <4>1 DEF FailedHoldsNothing, Keeps, ShardedRolling
      <3>2. ASSUME NEW decision \in {"REJECTED", "SYSTEM_FAILURE"},
                   txn'[t].status = decision
            PROVE  Ledger!Next
        <4>1. Ledger!Refuse(t, decision)
          BY <2>1, <2>2, <2>7, <3>1, <3>2 DEF Ledger!Refuse, Holdings, Statuses
        <4> QED BY <4>1 DEF Ledger!Next
      <3> QED BY <2>7, <3>2
    <2> QED BY <1>3, <2>3, <2>4, <2>5, <2>6, <2>7 DEF Moves, Allowed
  <1>4. ASSUME Keeps, UNCHANGED txn
        PROVE  UNCHANGED Ledger!vars
    BY <1>4 DEF Keeps, Ledger!vars
  <1>5. ASSUME NEW k \in Key, NEW S \in SUBSET Txn, Lapses(k, S)
        PROVE  Ledger!Next
    <2>1. S \subseteq Ledger!Holders(k)
      BY <1>5 DEF Lapses, Outstanding, Ledger!Holders
    <2>2. Holdings' = [t \in Txn |-> IF t \in S THEN Holdings[t] \ {k} ELSE Holdings[t]]
      BY <1>5, <1>i, LapsesHeld DEF Holdings
    <2>3. Statuses' = Statuses
      BY <1>5 DEF Lapses, Statuses
    <2>4. Ledger!Lapse(k)
      BY <2>1, <2>2, <2>3 DEF Ledger!Lapse, Holdings, Statuses
    <2> QED BY <2>4 DEF Ledger!Next
  <1>6. ASSUME Keeps PROVE [Ledger!Next]_(Ledger!vars)
    <2>1. CASE UNCHANGED vars
      BY <1>4, <1>6, <2>1 DEF vars
    <2>2. CASE Next
      BY <1>3, <1>4, <1>6, <1>i, <2>2, StatusMoves
    <2> QED BY <2>1, <2>2
  <1> QED BY <1>1, <1>2, <1>5, <1>6, HoldersMove

\* The service implements the abstract ledger: what its concurrent calls do
\* to records and counters is, seen from the records, one hold, release or
\* decision after the other, and never a hold that a strict limit forbids.
THEOREM LedgerImplemented == ASSUME Reliable PROVE Spec => ImplementsLedger
PROOF
  <1>1. Init => Ledger!Init
    <2>1. Init => \A t \in Txn : HeldBy(t) = {}
      BY InitHoldsNothing
    <2> QED BY <2>1 DEF Init, Ledger!Init
  <1>2. SagaInvariant /\ SagaInvariant' /\ [Next]_vars => [Ledger!Next]_(Ledger!vars)
    BY AbstractStep
  <1>3. Spec => [](SagaInvariant /\ CounterLimits)
    BY SagaInvariantHolds
  <1> QED BY <1>1, <1>2, <1>3, PTL DEF Spec, ImplementsLedger, Ledger!Spec
=============================================================================
