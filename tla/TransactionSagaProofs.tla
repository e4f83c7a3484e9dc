----------------------- MODULE TransactionSagaProofs -----------------------
(***************************************************************************)
(* Proofs about TransactionSaga, for every set of records, calls, keys and *)
(* plans and for every threshold.                                          *)
(***************************************************************************)
EXTENDS TransactionSaga, TLAPS

\* The amounts and the plans have the types the assumptions give them.
LEMMA ConstantTypes ==
    /\ \A r \in Request : Submits[r] \in Txn
    /\ \A v \in Reversal : Reverses[v] \in Txn
    /\ \A t \in Txn : Amount[t] \in Nat
    /\ \A t \in Txn : Plan[t] \in Seq(Check)
PROOF BY SagaAssumption, AmountAssumption
-----------------------------------------------------------------------------
(* Types.                                                                  *)

\* The local state of a call, in a form the provers use.
LEMMA RequestType ==
    ASSUME TypeOK, NEW r \in Request
    PROVE  req[r] \in RequestState /\ r \in DOMAIN req
PROOF BY DEF TypeOK

\* A call that is answered keeps its type.
LEMMA AnswerType ==
    ASSUME TypeOK, NEW r \in Request, NEW reply \in Reply, Answer(r, reply)
    PROVE  req' \in [Request -> RequestState]
PROOF
  <1>1. req'[r] \in RequestState
    BY RequestType DEF Answer, RequestState
  <1> QED BY <1>1 DEF TypeOK, Answer

\* A call that passes a check keeps its type.
LEMMA PassedType ==
    ASSUME TypeOK, NEW r \in Request, NEW keys \in SUBSET Key, Passed(r, keys)
    PROVE  req' \in [Request -> RequestState]
PROOF
  <1>r. req[r] \in RequestState /\ r \in DOMAIN req
    BY RequestType
  <1>1. req'[r] \in RequestState
    BY <1>r DEF Passed, RequestState
  <1> QED BY <1>1 DEF TypeOK, Passed

\* A call that breaches a check keeps its type.
LEMMA RejectedType ==
    ASSUME TypeOK, NEW r \in Request, Rejected(r)
    PROVE  req' \in [Request -> RequestState]
PROOF
  <1>1. req'[r] \in RequestState
    BY RequestType DEF Rejected, Unwound, RequestState
  <1> QED BY <1>1 DEF TypeOK, Rejected

\* A call whose resolve write failed keeps its type.
LEMMA ResolveFailedType ==
    ASSUME TypeOK, NEW r \in Request, ResolveFailed(r)
    PROVE  req' \in [Request -> RequestState]
PROOF
  <1>1. req'[r] \in RequestState
    BY RequestType DEF ResolveFailed, Answer, Unwound, RequestState, Reply, Terminal, Status
  <1>2. CASE req[r].outcome = "SYSTEM_FAILURE"
    BY <1>1, <1>2 DEF TypeOK, ResolveFailed, Answer
  <1>3. CASE req[r].outcome # "SYSTEM_FAILURE"
    BY <1>1, <1>3 DEF TypeOK, ResolveFailed
  <1> QED BY <1>2, <1>3

\* The check a call stands at names a key when it is a window check.
LEMMA CurrentKey ==
    ASSUME NEW r \in Request, TypeOK, StepInPlan, req[r].pc \in {"check", "breach"}
    PROVE  /\ req[r].step \in 1..Len(Plan[Submits[r]])
           /\ CurrentCheck(r) \in Check
           /\ CurrentCheck(r).type = "window" => CurrentCheck(r).key \in Key
PROOF
  <1>1. Submits[r] \in Txn /\ Plan[Submits[r]] \in Seq(Check)
    BY ConstantTypes
  <1>2. req[r].step \in 1..Len(Plan[Submits[r]])
    BY <1>1, RequestType DEF StepInPlan, RequestState
  <1>3. CurrentCheck(r) \in Check
    BY <1>1, <1>2 DEF CurrentCheck
  <1> QED BY <1>2, <1>3 DEF Check

\* An increment keeps the counters natural.
LEMMA IncrementType ==
    ASSUME TypeOK, NEW k \in Key, NEW t \in Txn, Increment(k, t)
    PROVE  counter' \in [Key -> Counter]
PROOF
  <1>1. counter[k] \in Counter /\ k \in DOMAIN counter /\ Amount[t] \in Nat
    BY ConstantTypes DEF TypeOK
  <1>2. counter'[k] \in Counter
    BY <1>1 DEF Increment, Counter
  <1> QED BY <1>2 DEF TypeOK, Increment

\* So does taking away what is there: that is what the floor guard is for.
LEMMA LoweredType ==
    ASSUME TypeOK, NEW k \in Key, NEW t \in Txn, FloorHolds(k, t)
    PROVE  Lowered(k, t) \in [Key -> Counter]
PROOF
  <1>1. counter[k] \in Counter /\ k \in DOMAIN counter /\ Amount[t] \in Nat
    BY ConstantTypes DEF TypeOK
  <1>2. Lowered(k, t)[k] \in Counter
    BY <1>1 DEF Lowered, FloorHolds, Counter
  <1> QED BY <1>2 DEF Lowered, TypeOK

\* A decrement either takes away what is there or raises a signal.
LEMMA DecrementType ==
    ASSUME TypeOK, NEW k \in Key, NEW t \in Txn, NEW reason \in DriftReason,
           Decrement(k, t, reason)
    PROVE  counter' \in [Key -> Counter] /\ signals' \subseteq Signal
PROOF
  <1>1. counter[k] \in Counter /\ k \in DOMAIN counter /\ Amount[t] \in Nat
    BY ConstantTypes DEF TypeOK
  <1>2. CASE Matches(k, t)
    <2>1. Lowered(k, t) \in [Key -> Counter]
      BY <1>2, LoweredType DEF Matches
    <2> QED BY <1>2, <2>1 DEF Decrement, TypeOK
  <1>3. CASE ~Matches(k, t)
    <2>1. [key |-> k, txn |-> t, reason |-> reason] \in Signal
      BY DEF Signal
    <2> QED BY <1>3, <2>1 DEF Decrement, TypeOK
  <1> QED BY <1>2, <1>3

\* A record that changes to a state of its type keeps all records typed.
LEMMA TxnType ==
    ASSUME TypeOK, NEW t \in Txn, NEW s \in Status
    PROVE  [txn EXCEPT ![t].status = s] \in [Txn -> Record]
PROOF
  <1>1. txn[t] \in Record /\ t \in DOMAIN txn
    BY DEF TypeOK
  <1>2. [txn EXCEPT ![t].status = s][t] \in Record
    BY <1>1 DEF Record
  <1> QED BY <1>2 DEF TypeOK

\* A submit() step keeps the types.
LEMMA SubmitType ==
    ASSUME TypeOK, StepInPlan, NEW r \in Request,
           SubmitStep(r) \/ SubmitFault(r) \/ RefuseDirection(r)
    PROVE  TypeOK'
PROOF
  <1>t. Submits[r] \in Txn
    BY ConstantTypes
  <1>r. req[r] \in RequestState /\ r \in DOMAIN req
    BY RequestType
  <1>s. Terminal \subseteq Status /\ Terminal \subseteq Reply
        /\ {"NONE", "PENDING", "ABANDONED", "REVERSED"} \subseteq Status
        /\ {"none", "DIRECTION_NOT_ENABLED", "IN_PROGRESS", "ERROR"} \subseteq Reply
        /\ req[r].outcome \in Terminal
    BY <1>r DEF Terminal, Status, Reply, RequestState
  <1>1. CASE RefuseDirection(r)
    BY <1>1, <1>s, AnswerType DEF RefuseDirection, TypeOK
  <1>2. CASE Claim(r)
    <2>1. req'[r] \in RequestState
      BY <1>2, <1>r DEF Claim, RequestState
    <2>2. req' \in [Request -> RequestState]
      BY <1>2, <2>1 DEF Claim, TypeOK
    <2> QED BY <1>2, <1>s, <1>t, <2>2, TxnType DEF Claim, TypeOK
  <1>3. CASE ClaimDuplicate(r)
    <2>1. req'[r] \in RequestState
      BY <1>3, <1>r DEF ClaimDuplicate, RequestState
    <2> QED BY <1>3, <2>1 DEF ClaimDuplicate, TypeOK
  <1>4. CASE ReplayExisting(r)
    BY <1>4, <1>s, AnswerType DEF ReplayExisting, TypeOK
  <1>5. CASE PerTxnCheck(r)
    <2>1. req' \in [Request -> RequestState]
      BY <1>5, PassedType, RejectedType DEF PerTxnCheck
    <2> QED BY <1>5, <2>1 DEF PerTxnCheck, TypeOK
  <1>7. CASE GuardedIncrement(r)
    <2>1. CurrentCheck(r).key \in Key
      BY <1>7, CurrentKey DEF GuardedIncrement, AtCheck
    <2>2. req' \in [Request -> RequestState]
      BY <1>7, <2>1, PassedType DEF GuardedIncrement
    <2>3. counter' \in [Key -> Counter]
      BY <1>7, <1>t, <2>1, IncrementType DEF GuardedIncrement
    <2> QED BY <1>7, <2>2, <2>3 DEF GuardedIncrement, TypeOK
  <1>8. CASE GuardedIncrementMisses(r)
    <2>1. req'[r] \in RequestState
      BY <1>8, <1>r DEF GuardedIncrementMisses, RequestState
    <2> QED BY <1>8, <2>1 DEF GuardedIncrementMisses, TypeOK
  <1>9. CASE ReadBreach(r)
    <2>1. req' \in [Request -> RequestState]
      BY <1>9, RejectedType DEF ReadBreach
    <2> QED BY <1>9, <2>1 DEF ReadBreach, TypeOK
  <1>10. CASE SoftIncrement(r)
    <2>1. CurrentCheck(r).key \in Key
      BY <1>10, CurrentKey DEF SoftIncrement, AtCheck
    <2>2. req' \in [Request -> RequestState]
      BY <1>10, <2>1, PassedType DEF SoftIncrement
    <2>3. counter' \in [Key -> Counter]
      BY <1>10, <1>t, <2>1, IncrementType DEF SoftIncrement
    <2> QED BY <1>10, <2>2, <2>3 DEF SoftIncrement, TypeOK
  <1>11. CASE SoftBreach(r)
    <2>1. req' \in [Request -> RequestState]
      BY <1>11, RejectedType DEF SoftBreach
    <2> QED BY <1>11, <2>1 DEF SoftBreach, TypeOK
  <1>12. CASE Compensate(r)
    <2>1. PICK k \in req[r].applied :
            /\ Decrement(k, Submits[r], "COMPENSATION_FLOOR_GUARD_FAILED")
            /\ req' = [req EXCEPT ![r].applied = @ \ {k},
                                  ![r].pc = Unwound(req[r].applied \ {k})]
      BY <1>12 DEF Compensate
    <2>2. k \in Key
      BY <1>r DEF RequestState
    <2>3. req'[r] \in RequestState
      BY <1>r, <2>1 DEF RequestState, Unwound
    <2>4. counter' \in [Key -> Counter] /\ signals' \subseteq Signal
      BY <1>t, <2>1, <2>2, DecrementType DEF DriftReason
    <2> QED BY <1>12, <2>1, <2>3, <2>4 DEF Compensate, TypeOK
  <1>13. CASE Resolve(r)
    <2>1. req'[r] \in RequestState
      BY <1>13, <1>r, <1>s DEF Resolve, RequestState
    <2>2. Resolved(r) \in Record
      BY <1>r, <1>s DEF Resolved, Record, RequestState
    <2> QED BY <1>13, <2>1, <2>2 DEF Resolve, TypeOK
  <1>14. CASE ResolveMisses(r)
    BY <1>14, <1>s, AnswerType DEF ResolveMisses, TypeOK
  <1>15. CASE Crash(r)
    BY <1>15, <1>s, AnswerType DEF Crash, TypeOK
  <1>16. CASE CallThrows(r)
    BY <1>16, <1>s, AnswerType DEF CallThrows, TypeOK
  <1>17. CASE ResolveThrows(r)
    BY <1>17, ResolveFailedType DEF ResolveThrows, TypeOK
  <1>18. CASE ClaimUnconfirmed(r)
    <2>1. req' \in [Request -> RequestState]
      BY <1>18, <1>s, AnswerType DEF ClaimUnconfirmed
    <2> QED BY <1>18, <1>s, <1>t, <2>1, TxnType DEF ClaimUnconfirmed, TypeOK
  <1>19. CASE ResolveUnconfirmed(r)
    <2>1. req' \in [Request -> RequestState]
      BY <1>19, ResolveFailedType DEF ResolveUnconfirmed
    <2>2. Resolved(r) \in Record
      BY <1>r, <1>s DEF Resolved, Record, RequestState
    <2> QED BY <1>19, <2>1, <2>2 DEF ResolveUnconfirmed, TypeOK
  <1> QED
    BY <1>1, <1>2, <1>3, <1>4, <1>5, <1>7, <1>8, <1>9, <1>10, <1>11,
       <1>12, <1>13, <1>14, <1>15, <1>16, <1>17, <1>18, <1>19
    DEF SubmitStep, SubmitFault, WaterfallStep

\* A submit() step changes the local state of its own call only.
LEMMA OnlyOwnState ==
    ASSUME TypeOK, NEW r \in Request,
           SubmitStep(r) \/ SubmitFault(r) \/ RefuseDirection(r)
    PROVE  \A q \in Request \ {r} : req'[q] = req[q]
PROOF
  <1> USE RequestType
      DEF Answer, Passed, Rejected, ResolveFailed
  <1>1. CASE RefuseDirection(r) \/ Claim(r) \/ ClaimDuplicate(r) \/ ReplayExisting(r)
    BY <1>1 DEF RefuseDirection, Claim, ClaimDuplicate, ReplayExisting
  <1>2. CASE WaterfallStep(r)
    BY <1>2 DEF WaterfallStep, PerTxnCheck, GuardedIncrement,
                GuardedIncrementMisses, ReadBreach, SoftIncrement, SoftBreach, Compensate
  <1>3. CASE Resolve(r) \/ ResolveMisses(r)
    BY <1>3 DEF Resolve, ResolveMisses
  <1>4. CASE SubmitFault(r)
    BY <1>4 DEF SubmitFault, Crash, CallThrows, ResolveThrows, ClaimUnconfirmed,
                ResolveUnconfirmed
  <1> QED BY <1>1, <1>2, <1>3, <1>4 DEF SubmitStep

\* A reaper or reversal step keeps the types.
LEMMA OtherType ==
    ASSUME TypeOK,
           \/ \E t \in Txn : ClaimGoesStale(t)
           \/ ReaperStep
           \/ \E v \in Reversal : ReversalStep(v) \/ ReversalFault(v)
    PROVE  TypeOK' /\ UNCHANGED req
PROOF
  <1>s. {"PENDING", "ABANDONED", "REVERSED"} \subseteq Status
        /\ {"none", "NOT_FOUND", "NOT_REVERSIBLE", "ALREADY_REVERSED",
            "REVERSED", "ERROR"} \subseteq Reply
    BY DEF Status, Reply, Terminal
  <1>1. CASE \E t \in Txn : ClaimGoesStale(t)
    BY <1>1 DEF ClaimGoesStale, TypeOK
  <1>2. CASE ReaperScan
    BY <1>2 DEF ReaperScan, TypeOK
  <1>3. ASSUME NEW t \in Txn, ReaperAbandon(t)
        PROVE  TypeOK' /\ UNCHANGED req
    <2>1. txn' \in [Txn -> Record]
      BY <1>3, <1>s, TxnType DEF ReaperAbandon, TypeOK
    <2> QED BY <1>3, <2>1 DEF ReaperAbandon, TypeOK
  <1>4. ASSUME NEW v \in Reversal, ReversalStep(v) \/ ReversalFault(v)
        PROVE  TypeOK' /\ UNCHANGED req
    <2>v. rev[v] \in ReversalState /\ v \in DOMAIN rev
      BY DEF TypeOK
    <2>t. Reverses[v] \in Txn /\ txn[Reverses[v]].applied \subseteq Key
      BY ConstantTypes DEF TypeOK, Record
    <2>a. ASSUME NEW reply \in Reply, AnswerReversal(v, reply)
          PROVE  rev' \in [Reversal -> ReversalState]
      <3>1. rev'[v] \in ReversalState
        BY <2>a, <2>v DEF AnswerReversal, ReversalState
      <3> QED BY <2>a, <3>1 DEF AnswerReversal, TypeOK
    <2>1. CASE ReverseFlip(v)
      <3>1. rev'[v] \in ReversalState
        BY <2>1, <2>v, <2>t DEF ReverseFlip, ReversalState
      <3>2. rev' \in [Reversal -> ReversalState]
        BY <2>1, <3>1 DEF ReverseFlip, TypeOK
      <3> QED BY <2>1, <2>t, <1>s, <3>2, TxnType DEF ReverseFlip, TypeOK
    <2>2. CASE ReverseMisses(v)
      <3>1. rev'[v] \in ReversalState
        BY <2>2, <2>v DEF ReverseMisses, ReversalState
      <3> QED BY <2>2, <3>1 DEF ReverseMisses, TypeOK
    <2>3. CASE ReverseLookup(v)
      <3>1. rev' \in [Reversal -> ReversalState]
        BY <2>3, <2>a, <1>s DEF ReverseLookup
      <3> QED BY <2>3, <3>1 DEF ReverseLookup, TypeOK
    <2>4. CASE ReverseKey(v)
      <3>1. PICK k \in rev[v].left :
              /\ Decrement(k, Reverses[v], "REVERSAL_FLOOR_GUARD_FAILED")
              /\ rev' = [rev EXCEPT ![v].left = @ \ {k}]
        BY <2>4 DEF ReverseKey
      <3>2. k \in Key
        BY <2>v DEF ReversalState
      <3>3. rev'[v] \in ReversalState
        BY <2>v, <3>1 DEF ReversalState
      <3>4. counter' \in [Key -> Counter] /\ signals' \subseteq Signal
        BY <2>t, <3>1, <3>2, DecrementType DEF DriftReason
      <3> QED BY <2>4, <3>1, <3>3, <3>4 DEF ReverseKey, TypeOK
    <2>5. CASE ReverseAnswer(v)
      <3>1. rev' \in [Reversal -> ReversalState]
        BY <2>5, <2>a, <1>s DEF ReverseAnswer
      <3> QED BY <2>5, <3>1 DEF ReverseAnswer, TypeOK
    <2>6. CASE ReverseStops(v)
      <3>1. rev' \in [Reversal -> ReversalState]
        BY <2>6, <2>a, <1>s DEF ReverseStops
      <3> QED BY <2>6, <3>1 DEF ReverseStops, TypeOK
    <2>7. CASE ReverseUnconfirmed(v)
      <3>1. rev'[v] \in ReversalState
        BY <2>7, <2>v, <2>t, <1>s DEF ReverseUnconfirmed, ReversalState
      <3>2. rev' \in [Reversal -> ReversalState]
        BY <2>7, <3>1 DEF ReverseUnconfirmed, TypeOK
      <3> QED BY <2>7, <2>t, <1>s, <3>2, TxnType DEF ReverseUnconfirmed, TypeOK
    <2> QED BY <1>4, <2>1, <2>2, <2>3, <2>4, <2>5, <2>6, <2>7
            DEF ReversalStep, ReversalFault
  <1> QED BY <1>1, <1>2, <1>3, <1>4 DEF ReaperStep

\* What time takes away and what is issued twice touches no record and no call.
LEMMA QuietType ==
    ASSUME TypeOK, StepInPlan, RetryStep \/ LapseStep
    PROVE  TypeOK' /\ UNCHANGED <<txn, req, rev, stale, reaping, signals>>
PROOF
  <1>1. ASSUME NEW r \in Request, ReissueIncrement(r)
        PROVE  TypeOK' /\ UNCHANGED <<txn, req, rev, stale, reaping, signals>>
    <2>1. CurrentCheck(r).key \in Key
      BY <1>1, CurrentKey DEF ReissueIncrement, AtCheck
    <2>2. counter' \in [Key -> Counter]
      BY <1>1, <2>1, ConstantTypes, IncrementType DEF ReissueIncrement
    <2> QED BY <1>1, <2>2 DEF ReissueIncrement, Reissue, TypeOK
  <1>2. ASSUME NEW r \in Request, ReissueCompensation(r)
        PROVE  TypeOK' /\ UNCHANGED <<txn, req, rev, stale, reaping, signals>>
    <2>1. PICK k \in req[r].applied :
            Matches(k, Submits[r]) /\ counter' = Lowered(k, Submits[r])
      BY <1>2 DEF ReissueCompensation
    <2>2. k \in Key
      BY RequestType DEF RequestState
    <2>3. counter' \in [Key -> Counter]
      BY <2>1, <2>2, ConstantTypes, LoweredType DEF Matches
    <2> QED BY <1>2, <2>3 DEF ReissueCompensation, Reissue, TypeOK
  <1>3. ASSUME NEW v \in Reversal, ReissueReversal(v)
        PROVE  TypeOK' /\ UNCHANGED <<txn, req, rev, stale, reaping, signals>>
    <2>1. PICK k \in rev[v].left :
            Matches(k, Reverses[v]) /\ counter' = Lowered(k, Reverses[v])
      BY <1>3 DEF ReissueReversal
    <2>2. k \in Key
      BY DEF TypeOK, ReversalState
    <2>3. counter' \in [Key -> Counter]
      BY <2>1, <2>2, ConstantTypes, LoweredType DEF Matches
    <2> QED BY <1>3, <2>3 DEF ReissueReversal, Reissue, TypeOK
  <1>4. ASSUME NEW k \in Key, Expire(k)
        PROVE  TypeOK' /\ UNCHANGED <<txn, req, rev, stale, reaping, signals>>
    <2>1. Empty \in Counter /\ Outstanding(k) \subseteq Txn
      BY DEF Empty, Counter, Outstanding
    <2> QED BY <1>4, <2>1 DEF Expire, TypeOK
  <1>5. ASSUME NEW k \in Key, NEW t \in Txn, Prune(k, t)
        PROVE  TypeOK' /\ UNCHANGED <<txn, req, rev, stale, reaping, signals>>
    <2>1. counter' \in [Key -> Counter]
      BY <1>5, LoweredType DEF Prune
    <2> QED BY <1>5, <2>1 DEF Prune, TypeOK
  <1> QED BY <1>1, <1>2, <1>3, <1>4, <1>5 DEF RetryStep, LapseStep

\* A call stays within its plan: only a call with a check left is at one.
LEMMA StepInPlanStep ==
    ASSUME TypeOK, StepInPlan, NEW r \in Request,
           SubmitStep(r) \/ SubmitFault(r) \/ RefuseDirection(r)
    PROVE  StepInPlan'
PROOF
  <1> DEFINE InPlan(c) ==
        /\ c.pc = "idle" => c.step = 1
        /\ c.pc \in {"check", "breach"} => c.step <= Len(Plan[Submits[r]])
  <1>r. /\ req[r] \in RequestState /\ r \in DOMAIN req
        /\ req[r].step \in Nat
        /\ Len(Plan[Submits[r]]) \in Nat
        /\ Plan[Submits[r]] # <<>> => Len(Plan[Submits[r]]) >= 1
        /\ InPlan(req[r])
    <2>1. Plan[Submits[r]] \in Seq(Check)
      BY ConstantTypes
    <2> QED BY <2>1, RequestType DEF RequestState, StepInPlan
  <1>1. InPlan(req'[r])
    <2>1. CASE Claim(r) \/ ClaimDuplicate(r) \/ ReplayExisting(r) \/ RefuseDirection(r)
      BY <2>1, <1>r DEF RequestState, Claim, ClaimDuplicate, ReplayExisting, RefuseDirection, Answer
    <2>2. ASSUME NEW keys, Passed(r, keys)
          PROVE  InPlan(req'[r])
      <3>1. /\ req'[r].step = req[r].step + 1
            /\ req'[r].pc = IF req[r].step < Len(Plan[Submits[r]]) THEN "check" ELSE "resolve"
        BY <2>2, <1>r DEF RequestState, Passed
      <3> QED BY <3>1, <1>r
    <2>3. ASSUME Rejected(r)
          PROVE  InPlan(req'[r])
      BY <2>3, <1>r DEF RequestState, Rejected, Unwound
    <2>4. CASE GuardedIncrementMisses(r) \/ Compensate(r)
      <3>1. CASE GuardedIncrementMisses(r)
        BY <3>1, <1>r DEF RequestState, GuardedIncrementMisses, AtCheck
      <3>2. CASE Compensate(r)
        <4>1. req'[r].pc \in {"resolve", "compensate"}
          BY <3>2, <1>r DEF RequestState, Compensate, Unwound
        <4> QED BY <4>1
      <3> QED BY <2>4, <3>1, <3>2
    <2>5. CASE Resolve(r) \/ ResolveMisses(r) \/ ResolveThrows(r) \/ ResolveUnconfirmed(r)
      <3>1. CASE Resolve(r) \/ ResolveMisses(r)
        BY <3>1, <1>r DEF RequestState, Resolve, ResolveMisses, Answer
      <3>2. CASE ResolveThrows(r)
        BY <3>2, <1>r DEF RequestState, ResolveThrows, ResolveFailed, Answer, Unwound
      <3>3. CASE ResolveUnconfirmed(r)
        BY <3>3, <1>r DEF RequestState, ResolveUnconfirmed, ResolveFailed, Answer, Unwound
      <3> QED BY <2>5, <3>1, <3>2, <3>3
    <2>6. CASE Crash(r) \/ CallThrows(r) \/ ClaimUnconfirmed(r)
      BY <2>6, <1>r DEF RequestState, Crash, CallThrows, ClaimUnconfirmed, Answer
    <2>7. CASE PerTxnCheck(r) \/ GuardedIncrement(r) \/ SoftIncrement(r)
              \/ ReadBreach(r) \/ SoftBreach(r)
      BY <2>7, <2>2, <2>3 DEF PerTxnCheck, GuardedIncrement, SoftIncrement,
                              ReadBreach, SoftBreach
    <2> QED BY <2>1, <2>4, <2>5, <2>6, <2>7
            DEF SubmitStep, SubmitFault, WaterfallStep
  <1>2. \A q \in Request \ {r} : req'[q] = req[q]
    BY OnlyOwnState
  <1> QED BY <1>1, <1>2 DEF StepInPlan

\* TypeOK and StepInPlan are inductive: Init, and then every step.
LEMMA TypeInit == Init => TypeOK /\ StepInPlan
PROOF
  <1> SUFFICES ASSUME Init PROVE TypeOK /\ StepInPlan
    OBVIOUS
  <1>1. txn \in [Txn -> Record] /\ counter \in [Key -> Counter]
    BY DEF Init, Record, Counter, Status, Empty
  <1>2. req \in [Request -> RequestState]
    BY DEF Init, RequestState, Reply
  <1>3. rev \in [Reversal -> ReversalState]
    BY DEF Init, ReversalState, Reply
  <1>4. lapsed \in [Key -> SUBSET Txn] /\ retries \in Nat
    BY DEF Init
  <1> QED BY <1>1, <1>2, <1>3, <1>4 DEF Init, TypeOK, StepInPlan

\* A step keeps the types, and keeps every call within its plan.
LEMMA TypeStep == TypeOK /\ StepInPlan /\ [Next]_vars => TypeOK' /\ StepInPlan'
PROOF
  <1> SUFFICES ASSUME TypeOK, StepInPlan, [Next]_vars
               PROVE  TypeOK' /\ StepInPlan'
    OBVIOUS
  <1>1. ASSUME NEW r \in Request, SubmitStep(r) \/ SubmitFault(r) \/ RefuseDirection(r)
        PROVE  TypeOK' /\ StepInPlan'
    BY <1>1, SubmitType, StepInPlanStep
  <1>2. ASSUME \/ \E t \in Txn : ClaimGoesStale(t)
               \/ ReaperStep
               \/ \E v \in Reversal : ReversalStep(v) \/ ReversalFault(v)
        PROVE  TypeOK' /\ StepInPlan'
    BY <1>2, OtherType DEF StepInPlan
  <1>3. CASE UNCHANGED vars
    BY <1>3 DEF vars, TypeOK, StepInPlan
  <1>4. CASE RetryStep \/ LapseStep
    BY <1>4, QuietType DEF StepInPlan
  <1> QED BY <1>1, <1>2, <1>3, <1>4 DEF Next

\* Every variable keeps its type, whatever fails; in particular no counter
\* document ever goes negative, which is what the floor guards are for.
THEOREM TypeCorrect == Spec => []TypeOK
PROOF
  <1>1. Spec => [](TypeOK /\ StepInPlan)
    BY TypeInit, TypeStep, PTL DEF Spec
  <1> QED BY <1>1, PTL

-----------------------------------------------------------------------------
(* The status of the records.                                              *)

\* A step moves the status of record t, as the contract allows, and leaves
\* every other record as it is.
Moves(t) == /\ <<txn[t].status, txn'[t].status>> \in Allowed
            /\ \A s \in Txn \ {t} : txn'[s] = txn[s]

\* A step leaves all records as they are, or moves one.
LEMMA StatusMoves ==
    ASSUME TypeOK, StepInPlan, Next
    PROVE  UNCHANGED txn \/ \E t \in Txn : Moves(t)
PROOF
  <1>1. ASSUME NEW t \in Txn, NEW status, <<txn[t].status, status>> \in Allowed,
               txn' = [txn EXCEPT ![t].status = status]
        PROVE  Moves(t)
    <2>1. txn[t] \in Record /\ t \in DOMAIN txn
      BY DEF TypeOK
    <2>2. txn'[t].status = status /\ \A s \in Txn \ {t} : txn'[s] = txn[s]
      BY <1>1, <2>1 DEF Record, TypeOK
    <2> QED BY <1>1, <2>2 DEF Moves
  <1>2. ASSUME NEW r \in Request, txn[Submits[r]].status = "PENDING",
               txn' = [txn EXCEPT ![Submits[r]] = Resolved(r)]
        PROVE  Moves(Submits[r])
    <2>1. req[r].outcome \in {"APPROVED", "REJECTED", "SYSTEM_FAILURE"}
          /\ Submits[r] \in DOMAIN txn
      BY ConstantTypes, RequestType DEF RequestState, TypeOK
    <2>2. /\ txn'[Submits[r]].status = req[r].outcome
          /\ \A s \in Txn \ {Submits[r]} : txn'[s] = txn[s]
      BY <1>2, <2>1 DEF Resolved, TypeOK
    <2> QED BY <1>2, <2>1, <2>2 DEF Moves, Allowed
  <1>3. ASSUME NEW r \in Request, SubmitStep(r) \/ SubmitFault(r) \/ RefuseDirection(r)
        PROVE  UNCHANGED txn \/ Moves(Submits[r])
    <2>1. CASE Claim(r) \/ ClaimUnconfirmed(r)
      BY <2>1, <1>1, ConstantTypes DEF Claim, ClaimUnconfirmed, Allowed
    <2>2. CASE Resolve(r) \/ ResolveUnconfirmed(r)
      BY <2>2, <1>2 DEF Resolve, ResolveUnconfirmed
    <2> QED
      BY <1>3, <2>1, <2>2
      DEF SubmitStep, SubmitFault, RefuseDirection, ClaimDuplicate, ReplayExisting,
          WaterfallStep, PerTxnCheck, GuardedIncrement,
          GuardedIncrementMisses, ReadBreach, SoftIncrement, SoftBreach, Compensate,
          ResolveMisses, Crash, CallThrows, ResolveThrows
  <1>4. ASSUME NEW t \in Txn, ClaimGoesStale(t) \/ ReaperAbandon(t)
        PROVE  UNCHANGED txn \/ Moves(t)
    BY <1>4, <1>1 DEF ClaimGoesStale, ReaperAbandon, Allowed
  <1>5. ASSUME NEW v \in Reversal, ReversalStep(v) \/ ReversalFault(v)
        PROVE  UNCHANGED txn \/ Moves(Reverses[v])
    BY <1>5, <1>1, ConstantTypes
    DEF ReversalStep, ReversalFault, ReverseFlip, ReverseMisses, ReverseLookup,
        ReverseKey, ReverseAnswer, ReverseStops, ReverseUnconfirmed, Allowed
  <1>6. CASE RetryStep \/ LapseStep
    BY <1>6, QuietType
  <1> QED BY <1>3, <1>4, <1>5, <1>6, ConstantTypes DEF Next, ReaperStep, ReaperScan

\* The status of a record only ever moves as the idempotency contract allows:
\* decided once, by its call or by the reaper, and then at most reversed.
THEOREM LifecycleHolds == Spec => StatusLifecycle
PROOF
  <1>1. TypeOK /\ StepInPlan /\ [Next]_vars =>
          [\A t \in Txn : txn'[t].status # txn[t].status =>
             <<txn[t].status, txn'[t].status>> \in Allowed]_vars
    BY StatusMoves DEF Moves, vars
  <1> QED BY <1>1, TypeInit, TypeStep, PTL DEF Spec, StatusLifecycle

\* A decided record stays as it is, or goes from APPROVED to REVERSED; a
\* record that was claimed once is never unclaimed.
LEMMA DecidedStays ==
    ASSUME TypeOK, StepInPlan, [Next]_vars, NEW t \in Txn
    PROVE  /\ txn[t].status \in Terminal =>
                \/ txn'[t].status = txn[t].status
                \/ txn[t].status = "APPROVED" /\ txn'[t].status = "REVERSED"
           /\ txn[t].status # "NONE" => txn'[t].status # "NONE"
PROOF
  <1>1. \/ txn'[t].status = txn[t].status
        \/ <<txn[t].status, txn'[t].status>> \in Allowed
    <2>1. CASE Next
      BY <2>1, StatusMoves DEF Moves
    <2> QED BY <2>1 DEF vars
  <1> QED BY <1>1 DEF Allowed, Terminal, Status
-----------------------------------------------------------------------------
(* The windows of a plan.                                                  *)

\* Before its first check a call has passed no window.
LEMMA WindowKeysZero == \A t \in Txn : WindowKeys(t, 0) = {}
PROOF
  <1>1. 1..0 = {}
    OBVIOUS
  <1> QED BY <1>1 DEF WindowKeys

\* A window check adds its key, which no earlier check has written to; any
\* other check adds none.
LEMMA WindowKeysNext ==
    ASSUME NEW t \in Txn, NEW n \in 1..Len(Plan[t])
    PROVE  /\ Plan[t][n].type = "window" =>
                /\ WindowKeys(t, n) = WindowKeys(t, n - 1) \cup {Plan[t][n].key}
                /\ Plan[t][n].key \notin WindowKeys(t, n - 1)
           /\ Plan[t][n].type # "window" => WindowKeys(t, n) = WindowKeys(t, n - 1)
PROOF
  <1>1. Len(Plan[t]) \in Nat /\ n \in Nat
    <2>1. Plan[t] \in Seq(Check)
      BY ConstantTypes
    <2> QED BY <2>1
  <1> DEFINE IsWindow(j) == j <= Len(Plan[t]) /\ Plan[t][j].type = "window"
  <1>2. \A m \in Nat : \A k : k \in WindowKeys(t, m) <=>
                            \E i \in 1..m : IsWindow(i) /\ k = Plan[t][i].key
    BY DEF WindowKeys
  <1>3. \A i : i \in 1..n <=> i \in 1..(n - 1) \/ i = n
    BY <1>1
  <1>4. n - 1 \in Nat /\ n \notin 1..(n - 1)
    BY <1>1
  <1>5. IsWindow(n) <=> Plan[t][n].type = "window"
    BY <1>1
  <1>6. \A k : k \in WindowKeys(t, n) <=>
                 k \in WindowKeys(t, n - 1) \/ (IsWindow(n) /\ k = Plan[t][n].key)
    BY <1>1, <1>2, <1>3, <1>4
  <1>7. ASSUME Plan[t][n].type = "window"
        PROVE  Plan[t][n].key \notin WindowKeys(t, n - 1)
    <2> SUFFICES ASSUME NEW i \in 1..(n - 1), IsWindow(i), Plan[t][n].key = Plan[t][i].key
                 PROVE  FALSE
      BY <1>2, <1>4
    <2>1. i \in 1..Len(Plan[t]) /\ i # n
      BY <1>1, <1>4
    <2> QED BY <1>7, <2>1, PlanAssumption
  <1> HIDE DEF IsWindow
  <1> QED BY <1>5, <1>6, <1>7
-----------------------------------------------------------------------------
(* What a call has applied.                                                *)

\* A call holds exactly the windows it has passed: each step of its own keeps
\* the list in line with its place in the plan.
LEMMA AppliedStep ==
    ASSUME TypeOK, StepInPlan, AppliedSoFar, NEW r \in Request,
           SubmitStep(r) \/ SubmitFault(r) \/ RefuseDirection(r)
    PROVE  AppliedSoFar'
PROOF
  <1> DEFINE t == Submits[r]
             So(c) ==
               /\ c.pc \in {"check", "breach"} => c.applied = WindowKeys(t, c.step - 1)
               /\ c.pc = "resolve" =>
                      c.applied = IF c.outcome = "APPROVED"
                                  THEN WindowKeys(t, Len(Plan[t])) ELSE {}
               /\ c.pc \in {"idle", "refetch"} => c.applied = {}
               /\ c.pc \in {"idle", "check", "breach"} => c.outcome = "APPROVED"
               /\ c.pc = "compensate" => c.outcome # "APPROVED"
  <1>r. req[r] \in RequestState /\ r \in DOMAIN req /\ So(req[r])
    BY RequestType DEF AppliedSoFar
  <1>t. /\ t \in Txn /\ Plan[t] \in Seq(Check) /\ Len(Plan[t]) \in Nat
        /\ WindowKeys(t, 0) = {}
        /\ Plan[t] = <<>> => Len(Plan[t]) = 0
        /\ req[r].step \in Nat
    <2>1. t \in Txn /\ Plan[t] \in Seq(Check)
      BY ConstantTypes
    <2> QED BY <1>r, <2>1, WindowKeysZero DEF RequestState
  <1> HIDE DEF t
  <1>1. So(req'[r])
    <2>1. ASSUME NEW reply, Answer(r, reply)
          PROVE  So(req'[r])
      BY <2>1, <1>r DEF RequestState, Answer
    <2>2. ASSUME NEW keys, Passed(r, keys), req[r].pc = "check",
                 WindowKeys(t, req[r].step) = WindowKeys(t, req[r].step - 1) \cup keys
          PROVE  So(req'[r])
      <3>1. /\ req'[r].step = req[r].step + 1
            /\ req'[r].pc = IF req[r].step < Len(Plan[t]) THEN "check" ELSE "resolve"
            /\ req'[r].applied = req[r].applied \cup keys
            /\ req'[r].outcome = "APPROVED"
        BY <2>2, <1>r DEF RequestState, Passed, t
      <3>2. req[r].step <= Len(Plan[t])
        BY <2>2 DEF StepInPlan, t
      <3>3. req'[r].applied = WindowKeys(t, req[r].step)
        BY <2>2, <3>1, <1>r
      <3>4. req'[r].step - 1 = req[r].step
            /\ (~(req[r].step < Len(Plan[t])) => req[r].step = Len(Plan[t]))
        BY <1>t, <3>1, <3>2
      <3>5. CASE req[r].step < Len(Plan[t])
        <4>1. req'[r].pc = "check" /\ req'[r].applied = WindowKeys(t, req'[r].step - 1)
          BY <3>1, <3>3, <3>4, <3>5
        <4> QED BY <4>1, <3>1
      <3>6. CASE ~(req[r].step < Len(Plan[t]))
        <4>1. req'[r].pc = "resolve" /\ req'[r].applied = WindowKeys(t, Len(Plan[t]))
          BY <3>1, <3>3, <3>4, <3>6
        <4> QED BY <4>1, <3>1
      <3> QED BY <3>5, <3>6
    <2>3. ASSUME Rejected(r)
          PROVE  So(req'[r])
      BY <2>3, <1>r DEF RequestState, Rejected, Unwound
    <2>4. ASSUME ResolveFailed(r), req[r].pc = "resolve" PROVE So(req'[r])
      <3>1. CASE req[r].outcome = "SYSTEM_FAILURE"
        BY <3>1, <2>4, <2>1 DEF ResolveFailed
      <3>2. CASE req[r].outcome # "SYSTEM_FAILURE"
        <4>1. req' = [req EXCEPT ![r].outcome = "SYSTEM_FAILURE",
                                 ![r].pc = Unwound(req[r].applied)]
          BY <3>2, <2>4 DEF ResolveFailed
        <4>2. /\ req'[r].outcome = "SYSTEM_FAILURE"
              /\ req'[r].pc = IF req[r].applied = {} THEN "resolve" ELSE "compensate"
              /\ req'[r].applied = req[r].applied
          BY <4>1, <1>r DEF RequestState, Unwound
        <4> QED BY <4>2
      <3> QED BY <3>1, <3>2
    <2>5. CASE RefuseDirection(r) \/ ReplayExisting(r) \/ ResolveMisses(r)
               \/ Crash(r) \/ CallThrows(r) \/ ClaimUnconfirmed(r)
      BY <2>5, <2>1 DEF RefuseDirection, ReplayExisting, ResolveMisses, Crash, CallThrows,
                        ClaimUnconfirmed
    <2>6. CASE Claim(r)
      <3>1. /\ req[r].pc = "idle" /\ req[r].step = 1
            /\ req'[r] = [req[r] EXCEPT !.pc = IF Plan[t] = <<>> THEN "resolve" ELSE "check"]
        BY <2>6, <1>r DEF Claim, StepInPlan, t
      <3>2. req[r].applied = {} /\ req[r].outcome = "APPROVED"
        BY <3>1, <1>r
      <3>3. /\ req'[r].pc = IF Plan[t] = <<>> THEN "resolve" ELSE "check"
            /\ req'[r].step = 1 /\ req'[r].applied = {} /\ req'[r].outcome = "APPROVED"
        BY <3>1, <3>2, <1>r DEF RequestState
      <3>4. req'[r].step - 1 = 0
        BY <3>3
      <3>5. CASE Plan[t] = <<>>
        BY <3>3, <3>5, <1>t
      <3>6. CASE Plan[t] # <<>>
        BY <3>3, <3>4, <3>6, <1>t
      <3> QED BY <3>5, <3>6
    <2>7. CASE ClaimDuplicate(r)
      BY <2>7, <1>r DEF RequestState, ClaimDuplicate
    <2>8. CASE PerTxnCheck(r)
      <3>1. CASE Passed(r, {})
        <4>1. req[r].pc = "check" /\ req[r].step \in 1..Len(Plan[t])
              /\ Plan[t][req[r].step].type # "window"
          BY <2>8, CurrentKey DEF PerTxnCheck, AtCheck, CurrentCheck, t
        <4>2. WindowKeys(t, req[r].step) = WindowKeys(t, req[r].step - 1) \cup {}
          BY <4>1, <1>t, WindowKeysNext
        <4> QED BY <3>1, <4>1, <4>2, <2>2
      <3> QED BY <2>8, <3>1, <2>3 DEF PerTxnCheck
    <2>9. CASE GuardedIncrement(r) \/ SoftIncrement(r)
      <3>1. req[r].pc = "check" /\ req[r].step \in 1..Len(Plan[t])
            /\ Plan[t][req[r].step].type = "window"
            /\ Passed(r, {Plan[t][req[r].step].key})
        BY <2>9, CurrentKey DEF GuardedIncrement, SoftIncrement, AtCheck, CurrentCheck, t
      <3>2. WindowKeys(t, req[r].step)
              = WindowKeys(t, req[r].step - 1) \cup {Plan[t][req[r].step].key}
        BY <3>1, <1>t, WindowKeysNext
      <3> QED BY <3>1, <3>2, <2>2
    <2>10. CASE GuardedIncrementMisses(r)
      BY <2>10, <1>r DEF RequestState, GuardedIncrementMisses, AtCheck
    <2>11. CASE ReadBreach(r) \/ SoftBreach(r)
      BY <2>11, <2>3 DEF ReadBreach, SoftBreach
    <2>12. CASE Compensate(r)
      <3>1. PICK k \in req[r].applied :
              req' = [req EXCEPT ![r].applied = @ \ {k},
                                 ![r].pc = Unwound(req[r].applied \ {k})]
        BY <2>12 DEF Compensate
      <3>2. /\ req'[r].outcome = req[r].outcome /\ req[r].outcome # "APPROVED"
            /\ req'[r].applied = req[r].applied \ {k}
            /\ req'[r].pc = IF req'[r].applied = {} THEN "resolve" ELSE "compensate"
        BY <2>12, <3>1, <1>r DEF RequestState, Compensate, Unwound
      <3> QED BY <3>2
    <2>13. CASE Resolve(r)
      BY <2>13, <1>r DEF RequestState, Resolve
    <2>14. CASE ResolveThrows(r) \/ ResolveUnconfirmed(r)
      BY <2>14, <2>4 DEF ResolveThrows, ResolveUnconfirmed
    <2> QED
      BY <2>5, <2>6, <2>7, <2>8, <2>9, <2>10, <2>11, <2>12, <2>13, <2>14
      DEF SubmitStep, SubmitFault, WaterfallStep
  <1>2. \A q \in Request \ {r} : req'[q] = req[q]
    BY OnlyOwnState
  <1> QED BY <1>1, <1>2 DEF AppliedSoFar, t
\* AppliedSoFar is inductive: nobody but a call changes its own list.
LEMMA AppliedInductive ==
    ASSUME TypeOK, StepInPlan, AppliedSoFar, [Next]_vars
    PROVE  AppliedSoFar'
PROOF
  <1>1. ASSUME UNCHANGED req PROVE AppliedSoFar'
    BY <1>1 DEF AppliedSoFar, WindowKeys
  <1>2. CASE UNCHANGED vars
    BY <1>1, <1>2 DEF vars
  <1>3. CASE Next
    BY <1>1, <1>3, AppliedStep, OtherType, QuietType DEF Next
  <1> QED BY <1>2, <1>3
-----------------------------------------------------------------------------
(* What the callers are told.                                              *)

\* A record has one live claimant at most: a call becomes one by its insert
\* only, and while it is one nobody else decides the record.
LEMMA ClaimantStep ==
    ASSUME TypeOK, StepInPlan, AppliedSoFar, SingleClaimant, [Next]_vars
    PROVE  SingleClaimant'
PROOF
  <1>t. \A r \in Request : Submits[r] \in Txn
    BY ConstantTypes
  <1>1. ASSUME UNCHANGED req,
               \A r \in Request : Claimant(r) =>
                 \/ txn'[Submits[r]].status = txn[Submits[r]].status
                 \/ txn'[Submits[r]].status = "ABANDONED"
                 \/ /\ txn[Submits[r]].status = "APPROVED"
                    /\ txn'[Submits[r]].status = "REVERSED"
        PROVE  SingleClaimant'
    <2>1. \A r \in Request : Claimant(r)' <=> Claimant(r)
      BY <1>1 DEF Claimant, Owner, Live
    <2> QED BY <1>1, <2>1 DEF SingleClaimant
  <1>2. CASE UNCHANGED vars
    BY <1>1, <1>2 DEF vars
  <1>3. ASSUME NEW r \in Request, SubmitStep(r) \/ SubmitFault(r) \/ RefuseDirection(r)
        PROVE  SingleClaimant'
    <2> DEFINE t == Submits[r]
    <2>r. req[r] \in RequestState /\ r \in DOMAIN req
      BY RequestType
    <2>o. \A q \in Request \ {r} : req'[q] = req[q] /\ (Claimant(q)' <=> Claimant(q))
      BY <1>3, OnlyOwnState DEF Claimant, Owner, Live
    <2>1. ASSUME UNCHANGED txn,
                 Claimant(r)' => Claimant(r) /\ (\/ req'[r].outcome = "SYSTEM_FAILURE"
                                                 \/ req[r].outcome # "SYSTEM_FAILURE")
          PROVE  SingleClaimant'
      BY <2>1, <2>o DEF SingleClaimant
    <2>2. CASE RefuseDirection(r) \/ ClaimDuplicate(r) \/ ReplayExisting(r)
               \/ ResolveMisses(r) \/ Crash(r) \/ CallThrows(r)
      <3>1. req'[r].pc \in {"done", "refetch"} /\ UNCHANGED txn
        BY <2>2, <2>r DEF RefuseDirection, ClaimDuplicate, ReplayExisting, ResolveMisses,
                          Crash, CallThrows, Answer, RequestState
      <3> QED BY <2>1, <3>1 DEF Claimant, Owner, Live
    <2>3. CASE WaterfallStep(r)
      <3>1. Claimant(r) /\ UNCHANGED txn
        BY <2>3 DEF WaterfallStep, PerTxnCheck, GuardedIncrement,
                    GuardedIncrementMisses, ReadBreach, SoftIncrement, SoftBreach, Compensate,
                    AtCheck, Claimant, Owner, Live
      <3>2. CASE Compensate(r)
        <4>1. req'[r].outcome = req[r].outcome
          BY <3>2, <2>r DEF Compensate, RequestState
        <4> QED BY <2>1, <3>1, <4>1
      <3>3. CASE ~Compensate(r)
        <4>1. req[r].pc \in {"check", "breach"}
          BY <2>3, <3>3 DEF WaterfallStep, PerTxnCheck, GuardedIncrement,
                    GuardedIncrementMisses, ReadBreach, SoftIncrement, SoftBreach, AtCheck
        <4> QED BY <2>1, <3>1, <4>1 DEF AppliedSoFar
      <3> QED BY <3>2, <3>3
    <2>4. CASE ResolveThrows(r)
      <3>1. CASE Answer(r, req[r].outcome)
        <4>1. req'[r].pc = "done" /\ UNCHANGED txn
          BY <2>4, <3>1, <2>r DEF ResolveThrows, Answer, RequestState
        <4> QED BY <2>1, <4>1 DEF Claimant, Owner, Live
      <3>2. CASE req' = [req EXCEPT ![r].outcome = "SYSTEM_FAILURE",
                                    ![r].pc = Unwound(req[r].applied)]
        <4>1. req'[r].outcome = "SYSTEM_FAILURE" /\ UNCHANGED txn /\ req[r].pc = "resolve"
          BY <2>4, <3>2, <2>r DEF ResolveThrows, RequestState
        <4> QED BY <2>1, <4>1 DEF Claimant, Owner, Live
      <3> QED BY <2>4, <3>1, <3>2 DEF ResolveThrows, ResolveFailed
    <2>5. CASE Claim(r) \/ ClaimUnconfirmed(r)
      <3>1. /\ txn[t].status = "NONE" /\ txn'[t].status = "PENDING"
            /\ \A s \in Txn \ {t} : txn'[s] = txn[s]
        <4>1. txn[t] \in Record /\ DOMAIN txn = Txn
          BY <1>t DEF TypeOK
        <4> QED BY <2>5, <1>t, <4>1 DEF Claim, ClaimUnconfirmed, Record
      <3>2. \A q \in Request : Claimant(q) => Submits[q] # t
        BY <3>1 DEF SingleClaimant
      <3> QED BY <1>t, <2>o, <3>1, <3>2 DEF SingleClaimant
    <2>6. CASE Resolve(r)
      <3>1. /\ Claimant(r) /\ req'[r].pc = "done"
            /\ \A s \in Txn \ {t} : txn'[s] = txn[s]
        BY <2>6, <2>r, <1>t DEF Resolve, Claimant, Owner, Live, RequestState, TypeOK
      <3>2. ~Claimant(r)' /\ \A q \in Request \ {r} : Claimant(q) => Submits[q] # t
        BY <3>1 DEF SingleClaimant, Claimant, Owner, Live
      <3> QED BY <1>t, <2>o, <3>1, <3>2 DEF SingleClaimant
    <2>7. CASE ResolveUnconfirmed(r)
      <3>1. /\ Claimant(r) /\ txn'[t].status = req[r].outcome
            /\ \A s \in Txn \ {t} : txn'[s] = txn[s]
        BY <2>7, <2>r, <1>t DEF ResolveUnconfirmed, Resolved, Claimant, Owner, Live,
                                RequestState, TypeOK
      <3>2. req'[r].outcome = "SYSTEM_FAILURE"
        BY <2>7, <2>r DEF ResolveUnconfirmed, ResolveFailed, Answer, RequestState
      <3>3. txn'[t].status # "NONE"
        BY <2>r, <3>1 DEF RequestState
      <3>4. \A q \in Request \ {r} : Claimant(q) => Submits[q] # t
        BY <3>1 DEF SingleClaimant
      <3> QED BY <1>t, <2>o, <3>1, <3>2, <3>3, <3>4 DEF SingleClaimant
    <2> QED BY <1>3, <2>2, <2>3, <2>4, <2>5, <2>6, <2>7 DEF SubmitStep, SubmitFault
  <1>4. CASE \/ \E t \in Txn : ClaimGoesStale(t)
             \/ ReaperStep
             \/ \E v \in Reversal : ReversalStep(v) \/ ReversalFault(v)
    <2>1. UNCHANGED req
      BY <1>4, OtherType
    <2>2. ASSUME NEW r \in Request
          PROVE  \/ txn'[Submits[r]].status = txn[Submits[r]].status
                 \/ txn'[Submits[r]].status = "ABANDONED"
                 \/ /\ txn[Submits[r]].status = "APPROVED"
                    /\ txn'[Submits[r]].status = "REVERSED"
      <3>1. \A t \in Txn : txn[t] \in Record /\ DOMAIN txn = Txn
        BY DEF TypeOK
      <3>2. CASE UNCHANGED txn
        BY <3>2
      <3>3. ASSUME NEW t \in Txn, txn' = [txn EXCEPT ![t].status = "ABANDONED"]
            PROVE  \/ txn'[Submits[r]].status = txn[Submits[r]].status
                   \/ txn'[Submits[r]].status = "ABANDONED"
        BY <3>1, <3>3, <1>t DEF Record
      <3>4. ASSUME NEW t \in Txn, txn[t].status = "APPROVED",
                   txn' = [txn EXCEPT ![t].status = "REVERSED"]
            PROVE  \/ txn'[Submits[r]].status = txn[Submits[r]].status
                   \/ /\ txn[Submits[r]].status = "APPROVED"
                      /\ txn'[Submits[r]].status = "REVERSED"
        BY <3>1, <3>4, <1>t DEF Record
      <3> QED
        BY <1>4, <3>2, <3>3, <3>4, ConstantTypes
        DEF ClaimGoesStale, ReaperStep, ReaperScan, ReaperAbandon,
            ReversalStep, ReversalFault, ReverseFlip, ReverseMisses, ReverseLookup,
            ReverseKey, ReverseAnswer, ReverseStops, ReverseUnconfirmed
    <2> QED BY <1>1, <2>1, <2>2
  <1>5. CASE RetryStep \/ LapseStep
    BY <1>1, <1>5, QuietType
  <1> QED BY <1>2, <1>3, <1>4, <1>5 DEF Next

\* The reaper abandons no claim whose call is alive, unless calls may be slow.
LEMMA ReaperStepKeepsAway ==
    ASSUME TypeOK, StepInPlan, SingleClaimant, ReaperKeepsAway, [Next]_vars
    PROVE  ReaperKeepsAway'
PROOF
  <1>t. \A r \in Request : Submits[r] \in Txn
    BY ConstantTypes
  <1>n. \A t \in Txn : txn[t].status # "NONE" => txn'[t].status # "NONE"
    BY DecidedStays
  <1>s. stale \subseteq Txn
    BY DEF TypeOK
  <1>1. CASE UNCHANGED vars
    BY <1>1 DEF vars, ReaperKeepsAway, Claimant, Owner, Live
  <1>2. ASSUME NEW r \in Request, SubmitStep(r) \/ SubmitFault(r) \/ RefuseDirection(r)
        PROVE  ReaperKeepsAway'
    <2> DEFINE t == Submits[r]
    <2>r. req[r] \in RequestState /\ r \in DOMAIN req
      BY RequestType
    <2>o. \A q \in Request \ {r} : Claimant(q)' <=> Claimant(q)
      BY <1>2, OnlyOwnState DEF Claimant, Owner, Live
    <2>u. UNCHANGED <<stale, reaping>>
      BY <1>2 DEF SubmitStep, SubmitFault, WaterfallStep, RefuseDirection, Claim,
           ClaimDuplicate, ReplayExisting, PerTxnCheck, GuardedIncrement,
           GuardedIncrementMisses, ReadBreach, SoftIncrement, SoftBreach, Compensate, Resolve,
           ResolveMisses, Crash, CallThrows, ResolveThrows, ClaimUnconfirmed,
           ResolveUnconfirmed
    <2>1. \A s \in Txn : txn'[s].status = "ABANDONED" => txn[s].status = "ABANDONED"
      <3>1. CASE UNCHANGED txn
        BY <3>1
      <3>2. CASE Claim(r) \/ ClaimUnconfirmed(r)
        <4>1. txn' = [txn EXCEPT ![t].status = "PENDING"] /\ txn[t] \in Record
          BY <3>2, <1>t DEF Claim, ClaimUnconfirmed, TypeOK
        <4> QED BY <1>t, <4>1 DEF TypeOK, Record
      <3>3. CASE Resolve(r) \/ ResolveUnconfirmed(r)
        <4>1. txn' = [txn EXCEPT ![t] = Resolved(r)]
              /\ Resolved(r).status # "ABANDONED"
          BY <3>3, <2>r DEF Resolve, ResolveUnconfirmed, Resolved, RequestState
        <4> QED BY <1>t, <4>1 DEF TypeOK
      <3> QED
        BY <1>2, <3>1, <3>2, <3>3
        DEF SubmitStep, SubmitFault, RefuseDirection, ClaimDuplicate, ReplayExisting,
            WaterfallStep, PerTxnCheck, GuardedIncrement,
            GuardedIncrementMisses, ReadBreach, SoftIncrement, SoftBreach, Compensate,
            ResolveMisses, Crash, CallThrows, ResolveThrows
    <2>2. Claimant(r)' => Claimant(r) \/ txn[t].status = "NONE"
      <3>1. CASE Claim(r)
        BY <3>1 DEF Claim
      <3>2. CASE RefuseDirection(r) \/ ClaimDuplicate(r) \/ ReplayExisting(r)
                 \/ Crash(r) \/ CallThrows(r) \/ ClaimUnconfirmed(r)
        <4>1. req'[r].pc \in {"done", "refetch"}
          BY <3>2, <2>r DEF RefuseDirection, ClaimDuplicate, ReplayExisting,
                            Crash, CallThrows, ClaimUnconfirmed, Answer, RequestState
        <4> QED BY <4>1 DEF Claimant, Owner, Live
      <3>3. CASE WaterfallStep(r) \/ Resolve(r) \/ ResolveMisses(r) \/ ResolveThrows(r)
                 \/ ResolveUnconfirmed(r)
        <4>1. req[r].pc \in {"check", "breach", "compensate", "resolve"}
          BY <3>3 DEF WaterfallStep, PerTxnCheck, GuardedIncrement,
                      GuardedIncrementMisses, ReadBreach, SoftIncrement, SoftBreach,
                      Compensate, AtCheck, Resolve, ResolveMisses, ResolveThrows,
                      ResolveUnconfirmed
        <4> QED BY <4>1 DEF Claimant, Owner, Live
      <3> QED BY <1>2, <3>1, <3>2, <3>3 DEF SubmitStep, SubmitFault
    <2>3. \A q \in Request : Claimant(q)' => Claimant(q) \/ txn[Submits[q]].status = "NONE"
      BY <2>o, <2>2
    <2> QED BY <1>n, <1>s, <1>t, <2>u, <2>1, <2>3 DEF ReaperKeepsAway
  <1>3. CASE \/ \E t \in Txn : ClaimGoesStale(t)
             \/ ReaperStep
             \/ \E v \in Reversal : ReversalStep(v) \/ ReversalFault(v)
    <2>1. UNCHANGED req /\ \A r \in Request : Claimant(r)' <=> Claimant(r)
      BY <1>3, OtherType DEF Claimant, Owner, Live
    <2>2. ASSUME NEW t \in Txn, ClaimGoesStale(t)
          PROVE  ReaperKeepsAway'
      BY <2>1, <2>2, <1>s DEF ClaimGoesStale, ReaperKeepsAway, Claimant
    <2>3. CASE ReaperScan
      BY <2>1, <2>3 DEF ReaperScan, ReaperKeepsAway
    <2>4. ASSUME NEW t \in Txn, ReaperAbandon(t)
          PROVE  ReaperKeepsAway'
      <3>1. \A s \in Txn \ {t} : txn'[s] = txn[s]
        BY <2>4 DEF ReaperAbandon, TypeOK
      <3>2. t \in stale /\ UNCHANGED stale /\ reaping' \subseteq reaping
        BY <2>4 DEF ReaperAbandon, ReaperKeepsAway
      <3> QED BY <1>n, <1>s, <1>t, <2>1, <3>1, <3>2 DEF ReaperKeepsAway
    <2>5. ASSUME NEW v \in Reversal, ReversalStep(v) \/ ReversalFault(v)
          PROVE  ReaperKeepsAway'
      <3>1. UNCHANGED <<stale, reaping>>
        BY <2>5 DEF ReversalStep, ReversalFault, ReverseFlip, ReverseMisses, ReverseLookup,
                    ReverseKey, ReverseAnswer, ReverseStops, ReverseUnconfirmed
      <3>2. \A s \in Txn : txn'[s].status = "ABANDONED" => txn[s].status = "ABANDONED"
        <4>1. CASE UNCHANGED txn
          BY <4>1
        <4>2. CASE txn' = [txn EXCEPT ![Reverses[v]].status = "REVERSED"]
          <5>1. \A s \in Txn : txn[s] \in Record /\ s \in DOMAIN txn
            BY DEF TypeOK
          <5> QED BY <4>2, <5>1, ConstantTypes DEF Record
        <4> QED BY <2>5, <4>1, <4>2
                DEF ReversalStep, ReversalFault, ReverseFlip, ReverseMisses, ReverseLookup,
                    ReverseKey, ReverseAnswer, ReverseStops, ReverseUnconfirmed
      <3> QED BY <1>n, <1>s, <1>t, <2>1, <3>1, <3>2 DEF ReaperKeepsAway
    <2> QED BY <1>3, <2>2, <2>3, <2>4, <2>5 DEF ReaperStep
  <1>4. CASE RetryStep \/ LapseStep
    BY <1>4, QuietType DEF ReaperKeepsAway, Claimant, Owner, Live
  <1> QED BY <1>1, <1>2, <1>3, <1>4 DEF Next

\* A step answers with the decision on record, or, where the reaper was there
\* first, with the decision the call itself had come to.
LEMMA ReplyStep ==
    ASSUME TypeOK, StepInPlan, SingleClaimant, ReaperKeepsAway, ReplyMatchesRecord, [Next]_vars
    PROVE  ReplyMatchesRecord'
PROOF
  <1> DEFINE Told(reply, status) ==
        reply \in Terminal \ {"SYSTEM_FAILURE"} =>
          \/ status = reply
          \/ status = "REVERSED" /\ reply = "APPROVED"
          \/ status = "ABANDONED" /\ "slow" \in Faults
  <1>t. \A r \in Request : Submits[r] \in Txn
    BY ConstantTypes
  <1>1. ASSUME NEW r \in Request, req'[r].reply = req[r].reply
        PROVE  Told(req'[r].reply, txn'[Submits[r]].status)
    <2>1. Told(req[r].reply, txn[Submits[r]].status)
      BY DEF ReplyMatchesRecord
    <2>2. CASE txn[Submits[r]].status \in Terminal
      BY <1>1, <1>t, <2>1, <2>2, DecidedStays
    <2>3. CASE txn[Submits[r]].status \notin Terminal
      BY <1>1, <2>1, <2>3 DEF Terminal, Status
    <2> QED BY <2>2, <2>3
  <1>2. CASE UNCHANGED vars
    BY <1>1, <1>2 DEF vars, ReplyMatchesRecord
  <1>3. ASSUME NEW r \in Request, SubmitStep(r) \/ SubmitFault(r) \/ RefuseDirection(r)
        PROVE  Told(req'[r].reply, txn'[Submits[r]].status)
    <2> DEFINE t == Submits[r]
    <2>r. req[r] \in RequestState /\ r \in DOMAIN req
      BY RequestType
    <2>1. ASSUME NEW reply, Answer(r, reply), Told(reply, txn'[t].status)
          PROVE  Told(req'[r].reply, txn'[t].status)
      BY <2>1, <2>r DEF Answer, RequestState
    <2>2. CASE RefuseDirection(r) \/ Crash(r) \/ CallThrows(r) \/ ClaimUnconfirmed(r)
      BY <2>1, <2>2 DEF RefuseDirection, Crash, CallThrows, ClaimUnconfirmed, Terminal, Status
    <2>3. CASE ReplayExisting(r)
      <3>1. CASE txn[t].status \in Terminal
        BY <2>1, <2>3, <3>1 DEF ReplayExisting
      <3>2. CASE txn[t].status \notin Terminal
        BY <2>1, <2>3, <3>2 DEF ReplayExisting, Terminal, Status
      <3> QED BY <3>1, <3>2
    <2>4. CASE Claim(r) \/ ClaimDuplicate(r) \/ WaterfallStep(r)
      <3>1. req'[r].reply = req[r].reply
        <4>1. CASE Rejected(r) \/ GuardedIncrementMisses(r)
                   \/ Claim(r) \/ ClaimDuplicate(r) \/ Compensate(r)
          BY <4>1, <2>r DEF Rejected, GuardedIncrementMisses, Claim, ClaimDuplicate,
                            Compensate, RequestState
        <4>2. ASSUME NEW keys, Passed(r, keys)
              PROVE  req'[r].reply = req[r].reply
          BY <4>2, <2>r DEF Passed, RequestState
        <4> QED BY <2>4, <4>1, <4>2 DEF WaterfallStep, PerTxnCheck, GuardedIncrement,
                                        ReadBreach, SoftIncrement, SoftBreach
      <3> QED BY <3>1, <1>1
    <2>5. CASE Resolve(r)
      <3>1. req'[r].reply = req[r].outcome
        BY <2>5, <2>r DEF Resolve, RequestState
      <3>2. txn'[t].status = req[r].outcome
        BY <2>5, <1>t DEF Resolve, Resolved, TypeOK
      <3> QED BY <3>1, <3>2
    <2>6. CASE ResolveMisses(r)
      <3>1. Claimant(r) /\ txn[t].status # "PENDING" /\ UNCHANGED txn
        BY <2>6 DEF ResolveMisses, Claimant, Owner, Live
      <3>2. req[r].outcome # "SYSTEM_FAILURE" =>
              txn'[t].status = "ABANDONED" /\ "slow" \in Faults
        BY <3>1 DEF SingleClaimant, ReaperKeepsAway
      <3>3. Told(req[r].outcome, txn'[t].status)
        BY <3>2
      <3> QED BY <2>1, <2>6, <3>3 DEF ResolveMisses
    <2>7. CASE ResolveThrows(r) \/ ResolveUnconfirmed(r)
      <3>1. CASE req[r].outcome = "SYSTEM_FAILURE"
        BY <2>1, <2>7, <3>1 DEF ResolveThrows, ResolveUnconfirmed, ResolveFailed
      <3>2. CASE req[r].outcome # "SYSTEM_FAILURE"
        <4>1. req'[r].reply = req[r].reply
          BY <2>7, <3>2, <2>r DEF ResolveThrows, ResolveUnconfirmed, ResolveFailed, RequestState
        <4> QED BY <4>1, <1>1
      <3> QED BY <3>1, <3>2
    <2> QED BY <1>3, <2>2, <2>3, <2>4, <2>5, <2>6, <2>7 DEF SubmitStep, SubmitFault
  <1>4. ASSUME NEW r \in Request, SubmitStep(r) \/ SubmitFault(r) \/ RefuseDirection(r)
        PROVE  ReplyMatchesRecord'
    <2>1. \A q \in Request \ {r} : req'[q] = req[q]
      BY <1>4, OnlyOwnState
    <2> QED BY <1>1, <1>3, <1>4, <2>1 DEF ReplyMatchesRecord
  <1>5. CASE \/ \E t \in Txn : ClaimGoesStale(t)
             \/ ReaperStep
             \/ \E v \in Reversal : ReversalStep(v) \/ ReversalFault(v)
    <2>1. UNCHANGED req
      BY <1>5, OtherType
    <2> QED BY <1>1, <2>1 DEF ReplyMatchesRecord
  <1>6. CASE RetryStep \/ LapseStep
    BY <1>1, <1>6, QuietType DEF ReplyMatchesRecord
  <1> QED BY <1>2, <1>4, <1>5, <1>6 DEF Next

\* Whoever is told a decision is told the one on record, under every fault:
\* only a call that outlived the staleness threshold may have lost its claim.
THEOREM RepliesMatch == Spec => []ReplyMatchesRecord
PROOF
  <1> DEFINE Inv == /\ TypeOK /\ StepInPlan /\ AppliedSoFar
                    /\ SingleClaimant /\ ReaperKeepsAway /\ ReplyMatchesRecord
  <1>1. Init => Inv
    <2> SUFFICES ASSUME Init PROVE Inv
      OBVIOUS
    <2>1. \A r \in Request : /\ req[r].pc = "idle" /\ req[r].applied = {}
                             /\ req[r].outcome = "APPROVED" /\ req[r].reply = "none"
      BY DEF Init
    <2>2. AppliedSoFar
      BY <2>1 DEF AppliedSoFar
    <2>3. SingleClaimant /\ ReaperKeepsAway
      BY <2>1 DEF Init, SingleClaimant, ReaperKeepsAway, Claimant, Owner, Live
    <2>4. ReplyMatchesRecord
      BY <2>1 DEF ReplyMatchesRecord, Terminal, Status
    <2> QED BY <2>2, <2>3, <2>4, TypeInit
  <1>2. Inv /\ [Next]_vars => Inv'
    <2> SUFFICES ASSUME Inv, [Next]_vars PROVE Inv'
      OBVIOUS
    <2>1. TypeOK' /\ StepInPlan'
      BY TypeStep
    <2>2. AppliedSoFar'
      BY AppliedInductive
    <2>3. SingleClaimant' /\ ReaperKeepsAway'
      BY ClaimantStep, ReaperStepKeepsAway
    <2>4. ReplyMatchesRecord'
      BY ReplyStep
    <2> QED BY <2>1, <2>2, <2>3, <2>4
  <1>3. Inv => ReplyMatchesRecord
    OBVIOUS
  <1> QED BY <1>1, <1>2, <1>3, PTL DEF Spec

\* The answers to reversals: only the flip leads to REVERSED, a record is
\* flipped once, and once flipped it stays REVERSED.
LEMMA FlippedStep ==
    ASSUME TypeOK, StepInPlan, FlippedOnce, [Next]_vars
    PROVE  FlippedOnce'
PROOF
  <1> DEFINE Flipped(c) == c.pc = "undo" \/ c.reply = "REVERSED"
  <1>f. /\ \A v, w \in Reversal :
             Flipped(rev[v]) /\ Flipped(rev[w]) /\ Reverses[v] = Reverses[w] => v = w
        /\ \A v \in Reversal : Flipped(rev[v]) \/ rev[v].reply = "ALREADY_REVERSED" =>
             txn[Reverses[v]].status = "REVERSED"
    BY DEF FlippedOnce
  <1>t. \A v \in Reversal : Reverses[v] \in Txn
    BY ConstantTypes
  <1>s. \A t \in Txn : txn[t].status = "REVERSED" => txn'[t].status = "REVERSED"
    BY DecidedStays DEF Terminal, Status
  <1>1. ASSUME \A v \in Reversal :
                 /\ Flipped(rev'[v]) => Flipped(rev[v])
                 /\ rev'[v].reply = "ALREADY_REVERSED" =>
                      rev[v].reply = "ALREADY_REVERSED" \/ txn[Reverses[v]].status = "REVERSED"
        PROVE  FlippedOnce'
    BY <1>1, <1>f, <1>s, <1>t DEF FlippedOnce
  <1>2. CASE UNCHANGED rev
    BY <1>1, <1>2
  <1>3. ASSUME NEW v \in Reversal, ReversalStep(v) \/ ReversalFault(v)
        PROVE  FlippedOnce'
    <2>v. rev[v] \in ReversalState /\ DOMAIN rev = Reversal
      BY DEF TypeOK
    <2>o. \A w \in Reversal \ {v} : rev'[w] = rev[w]
      BY <1>3, <2>v DEF ReversalStep, ReversalFault, ReverseFlip, ReverseMisses,
           ReverseLookup, ReverseKey, ReverseAnswer, ReverseStops, ReverseUnconfirmed,
           AnswerReversal
    <2>1. CASE ReverseFlip(v)
      <3>1. txn[Reverses[v]].status = "APPROVED" /\ txn'[Reverses[v]].status = "REVERSED"
        <4>1. txn[Reverses[v]] \in Record /\ DOMAIN txn = Txn
          BY <1>t DEF TypeOK
        <4> QED BY <2>1, <1>t, <4>1 DEF ReverseFlip, Record
      <3>2. \A w \in Reversal : Reverses[w] = Reverses[v] => ~Flipped(rev[w])
        BY <1>f, <3>1
      <3> QED BY <1>f, <1>s, <1>t, <2>o, <3>1, <3>2 DEF FlippedOnce
    <2>2. CASE ReverseMisses(v)
      <3>1. rev'[v].pc = "lookup" /\ rev'[v].reply = rev[v].reply
        BY <2>2, <2>v DEF ReverseMisses, ReversalState
      <3> QED BY <1>1, <2>o, <3>1
    <2>3. CASE ReverseLookup(v)
      <3>1. /\ rev'[v].pc = "done"
            /\ rev'[v].reply = CASE txn[Reverses[v]].status = "NONE" -> "NOT_FOUND"
                                 [] txn[Reverses[v]].status = "REVERSED" -> "ALREADY_REVERSED"
                                 [] OTHER -> "NOT_REVERSIBLE"
        BY <2>3, <2>v DEF ReverseLookup, AnswerReversal, ReversalState
      <3>2. /\ rev'[v].reply # "REVERSED"
            /\ rev'[v].reply = "ALREADY_REVERSED" => txn[Reverses[v]].status = "REVERSED"
        BY <3>1
      <3> QED BY <1>1, <2>o, <3>1, <3>2
    <2>4. CASE ReverseKey(v)
      <3>1. rev'[v].pc = rev[v].pc /\ rev'[v].reply = rev[v].reply
        BY <2>4, <2>v DEF ReverseKey, ReversalState
      <3> QED BY <1>1, <2>o, <3>1
    <2>5. CASE ReverseAnswer(v)
      <3>1. rev[v].pc = "undo" /\ rev'[v].pc = "done" /\ rev'[v].reply = "REVERSED"
        BY <2>5, <2>v DEF ReverseAnswer, AnswerReversal, ReversalState
      <3> QED BY <1>1, <2>o, <3>1
    <2>6. CASE ReverseStops(v) \/ ReverseUnconfirmed(v)
      <3>1. rev'[v].pc = "done" /\ rev'[v].reply \in {"none", "ERROR"}
        BY <2>6, <2>v DEF ReverseStops, ReverseUnconfirmed, AnswerReversal, ReversalState
      <3> QED BY <1>1, <2>o, <3>1
    <2> QED BY <1>3, <2>1, <2>2, <2>3, <2>4, <2>5, <2>6 DEF ReversalStep, ReversalFault
  <1>4. CASE UNCHANGED vars \/ \E r \in Request : SubmitStep(r) \/ SubmitFault(r) \/ RefuseDirection(r)
    BY <1>2, <1>4 DEF vars, SubmitStep, SubmitFault, WaterfallStep, RefuseDirection, Claim,
       ClaimDuplicate, ReplayExisting, PerTxnCheck, GuardedIncrement,
       GuardedIncrementMisses, ReadBreach, SoftIncrement, SoftBreach, Compensate, Resolve,
       ResolveMisses, Crash, CallThrows, ResolveThrows, ClaimUnconfirmed,
       ResolveUnconfirmed
  <1>5. CASE (\E t \in Txn : ClaimGoesStale(t)) \/ ReaperStep
    BY <1>2, <1>5 DEF ClaimGoesStale, ReaperStep, ReaperScan, ReaperAbandon
  <1>6. CASE RetryStep \/ LapseStep
    BY <1>2, <1>6, QuietType
  <1> QED BY <1>3, <1>4, <1>5, <1>6 DEF Next

\* At most one reversal of a record is told that it reversed it, and what any
\* of them is told reversed is so for good, under every fault.
THEOREM ReversalsAreUnique == Spec => []OneReversal
PROOF
  <1>1. Init => TypeOK /\ StepInPlan /\ FlippedOnce
    BY TypeInit DEF Init, FlippedOnce
  <1>2. TypeOK /\ StepInPlan /\ FlippedOnce /\ [Next]_vars
          => TypeOK' /\ StepInPlan' /\ FlippedOnce'
    BY TypeStep, FlippedStep
  <1>3. FlippedOnce => OneReversal
    BY DEF FlippedOnce, OneReversal
  <1> QED BY <1>1, <1>2, <1>3, PTL DEF Spec
=============================================================================
