------------------------ MODULE ReconciliationProofs ------------------------
(***************************************************************************)
(* Proofs about Reconciliation, for every number of transactions, counter  *)
(* documents, drainers and sweepers, with every fault unless a theorem     *)
(* says otherwise.                                                         *)
(***************************************************************************)
EXTENDS Reconciliation, AmountProofs

\* A transaction that has begun has a document, and so has every signal.
KeysKnown ==
    /\ \A t \in Txn : use[t] # "new" => keyOf[t] \in Key
    /\ \A s \in Source : signal[s].status # "none" => keyOf[s[1]] \in Key

\* A run is at an item from when it has read its document until it is done
\* with it, and derives and corrects flat documents only.
ItemsKnown ==
    \A w \in Worker :
        /\ worker[w].pc \in {"derive", "correct", "mark"} => worker[w].item \in Item
        /\ worker[w].pc \in {"derive", "correct"} => KeyAt(w) \notin Rolling
-----------------------------------------------------------------------------
(* Types.                                                                  *)

WorkerState ==
    [pc : {"idle", "next", "derive", "correct", "mark"}, todo : SUBSET Item,
     item : Item \cup {<<>>}, closed : SUBSET Key, live : Document, goal : Document,
     outcome : Outcome]

\* What the records add up to is a document.
LEMMA ExpectedType ==
    ASSUME NEW k \in Key
    PROVE  Expected(k) \in Document
PROOF
  <1>1. {t \in Txn : use[t] \in OnRecord /\ keyOf[t] = k} \in SUBSET Txn
    OBVIOUS
  <1> QED BY <1>1, PaiseFinite DEF Expected, Document

\* The local state of a run, of which some fields change.
LEMMA WorkerType ==
    ASSUME TypeOK, NEW w \in Worker
    PROVE  worker[w] \in WorkerState /\ w \in DOMAIN worker
PROOF BY DEF TypeOK, WorkerState

\* A run that is at an outcome keeps its type.
LEMMA OutcomeType ==
    ASSUME TypeOK, NEW w \in Worker, NEW item \in Item, NEW outcome \in Outcome,
           Outcomes(w, item, outcome)
    PROVE  worker' \in [Worker -> WorkerState]
PROOF
  <1>1. Zero \in Document
    BY DEF Zero, Document
  <1>2. [worker[w] EXCEPT !.pc = "mark", !.item = item, !.outcome = outcome,
                          !.live = Zero, !.goal = Zero] \in WorkerState
    BY <1>1, WorkerType DEF WorkerState
  <1> QED BY <1>2, WorkerType DEF Outcomes, TypeOK, WorkerState

\* A step of a transaction keeps the types.
LEMMA TransactionType ==
    ASSUME TypeOK, KeysKnown, NEW t \in Txn,
           Transaction(t) \/ QueueDriftFails(t) \/ Die(t) \/ ApproveUnconfirmed(t)
    PROVE  TypeOK' /\ UNCHANGED worker
PROOF
  <1>a. Amount[t] \in Nat
    BY AmountTypes
  <1>d. \A k \in Key : doc[k] # Absent => doc[k] \in Document
    BY DEF TypeOK
  <1>e. Ended(t) \in {"rejected", "approved", "reversed"}
    BY DEF Ended
  <1>1. CASE Begin(t)
    BY <1>1 DEF Begin, Goes, TypeOK
  <1>2. CASE Increment(t)
    <2>1. keyOf[t] \in Key
      BY <1>2 DEF Increment, Goes, KeysKnown
    <2>2. (IF doc[keyOf[t]] = Absent THEN Zero ELSE doc[keyOf[t]]) \in Document
      BY <1>d, <2>1 DEF Zero, Document
    <2>3. doc' \in [Key -> Document \cup {Absent}]
      BY <1>2, <1>a, <2>1, <2>2 DEF Increment, TypeOK, Document
    <2> QED BY <1>2, <2>3 DEF Increment, Goes, TypeOK
  <1>3. CASE Approve(t) \/ ApproveUnconfirmed(t) \/ Reject(t) \/ Flip(t) \/ Die(t)
    BY <1>3 DEF Approve, ApproveUnconfirmed, Reject, Flip, Die, Goes, TypeOK
  <1>4. CASE Undo(t)
    <2>1. keyOf[t] \in Key
      BY <1>4 DEF Undo, Drifting, KeysKnown
    <2>2. CASE FloorHolds(t)
      <3>1. doc[keyOf[t]] \in Document /\ doc[keyOf[t]].amount >= Amount[t] /\ doc[keyOf[t]].count >= 1
        BY <1>d, <2>1, <2>2 DEF FloorHolds
      <3>2. [amount |-> doc[keyOf[t]].amount - Amount[t], count |-> doc[keyOf[t]].count - 1] \in Document
        BY <1>a, <3>1 DEF Document
      <3>3. doc' \in [Key -> Document \cup {Absent}]
        BY <1>4, <2>2, <3>2 DEF Undo, TypeOK
      <3> QED BY <1>4, <1>e, <2>2, <3>3 DEF Undo, TypeOK
    <2>3. CASE ~FloorHolds(t)
      <3>1. Drifting[use[t]] \in {"unwindDrift", "lostDrift", "reverseDrift"}
        BY <1>4 DEF Undo, Drifting
      <3> QED BY <1>4, <2>3, <3>1 DEF Undo, TypeOK
    <2> QED BY <2>2, <2>3
  <1>5. CASE QueueDrift(t)
    <2>1. <<t, Reason(t)>> \in Source
      BY DEF Reason, Source
    <2>2. signal' \in [Source -> [status : {"none", "PENDING", "RESOLVED"}, outcome : Outcome]]
      BY <1>5, <2>1 DEF QueueDrift, TypeOK
    <2> QED BY <1>5, <1>e, <2>2 DEF QueueDrift, TypeOK
  <1>6. CASE QueueDriftFails(t)
    BY <1>6, <1>e DEF QueueDriftFails, TypeOK
  <1> QED BY <1>1, <1>2, <1>3, <1>4, <1>5, <1>6 DEF Transaction

\* A run takes on some of what it finds, and looks which windows are closed.
LEMMA StartsWith ==
    ASSUME NEW w, NEW found, NEW limit, Starts(w, found, limit)
    PROVE  \E batch \in SUBSET found :
             worker' = [worker EXCEPT ![w].pc = "next", ![w].todo = batch,
                                      ![w].closed = {k \in Key : window[k] = "closed"}]
PROOF
  <1>1. Batches(found, limit) \subseteq SUBSET found
    BY DEF Batches
  <1> QED BY <1>1 DEF Starts

\* So does a step of a run.
LEMMA RunType ==
    ASSUME TypeOK, KeysKnown, ItemsKnown, NEW w \in Worker,
           StartQueue(w) \/ StartSweep(w) \/ WorkerStep(w) \/ Stops(w)
    PROVE  TypeOK'
PROOF
  <1>w. worker[w] \in WorkerState /\ w \in DOMAIN worker
    BY WorkerType
  <1>i. Idle \in WorkerState
    BY DEF Idle, WorkerState, Zero, Document, Outcome
  <1>s. ASSUME NEW found \in SUBSET Item, NEW limit, Starts(w, found, limit) PROVE TypeOK'
    <2> DEFINE shut == {k \in Key : window[k] = "closed"}
    <2>1. PICK batch \in SUBSET found :
            worker' = [worker EXCEPT ![w].pc = "next", ![w].todo = batch, ![w].closed = shut]
      BY <1>s, StartsWith
    <2>2. [worker[w] EXCEPT !.pc = "next", !.todo = batch, !.closed = shut] \in WorkerState
      <3>1. shut \in SUBSET Key /\ batch \in SUBSET Item
        OBVIOUS
      <3> HIDE DEF shut
      <3> QED BY <1>w, <3>1 DEF WorkerState
    <2>3. worker' \in [Worker -> WorkerState]
      <3> HIDE DEF shut
      <3> QED BY <2>1, <2>2 DEF TypeOK, WorkerState
    <2> QED BY <1>s, <2>3 DEF Starts, TypeOK, WorkerState
  <1>1. CASE StartQueue(w)
    <2>1. {<<keyOf[s[1]], s>> : s \in {x \in Source : signal[x].status = "PENDING"}} \in SUBSET Item
      BY DEF KeysKnown, Item
    <2> QED BY <1>s, <1>1, <2>1 DEF StartQueue
  <1>2. CASE StartSweep(w)
    <2>1. Due \X {NoSignal} \in SUBSET Item
      BY DEF Due, Item
    <2> QED BY <1>s, <1>2, <2>1 DEF StartSweep
  <1>3. CASE ReadDocument(w)
    <2>1. PICK item \in worker[w].todo :
            \/ Outcomes(w, item, "ALERTED")
            \/ Outcomes(w, item, "DOC_GONE")
            \/ /\ doc[item[1]] # Absent
               /\ worker' = [worker EXCEPT ![w].pc = "derive", ![w].item = item,
                                           ![w].live = doc[item[1]]]
      BY <1>3 DEF ReadDocument
    <2>2. item \in Item /\ item[1] \in Key /\ {"ALERTED", "DOC_GONE"} \subseteq Outcome
      BY <1>w DEF WorkerState, Item, Outcome
    <2>3. worker' \in [Worker -> WorkerState]
      <3>1. CASE Outcomes(w, item, "ALERTED") \/ Outcomes(w, item, "DOC_GONE")
        BY <2>2, <3>1, OutcomeType
      <3>2. CASE /\ doc[item[1]] # Absent
                 /\ worker' = [worker EXCEPT ![w].pc = "derive", ![w].item = item,
                                             ![w].live = doc[item[1]]]
        <4>1. doc[item[1]] \in Document
          BY <2>2, <3>2 DEF TypeOK
        <4>2. [worker[w] EXCEPT !.pc = "derive", !.item = item, !.live = doc[item[1]]] \in WorkerState
          BY <1>w, <2>2, <4>1 DEF WorkerState
        <4> QED BY <3>2, <4>2 DEF TypeOK, WorkerState
      <3> QED BY <2>1, <3>1, <3>2
    <2> QED BY <1>3, <2>3 DEF ReadDocument, TypeOK, WorkerState
  <1>4. CASE Derive(w)
    <2>1. worker[w].item \in Item /\ KeyAt(w) \in Key /\ {"NONE", "ALERTED"} \subseteq Outcome
      BY <1>4 DEF Derive, ItemsKnown, KeyAt, Item, Outcome
    <2>2. worker' \in [Worker -> WorkerState]
      <3>1. CASE Outcomes(w, worker[w].item, "NONE") \/ Outcomes(w, worker[w].item, "ALERTED")
        BY <2>1, <3>1, OutcomeType
      <3>2. CASE worker' = [worker EXCEPT ![w].pc = "correct", ![w].goal = Expected(KeyAt(w))]
        <4>1. [worker[w] EXCEPT !.pc = "correct", !.goal = Expected(KeyAt(w))] \in WorkerState
          BY <1>w, <2>1, ExpectedType DEF WorkerState
        <4> QED BY <3>2, <4>1 DEF TypeOK, WorkerState
      <3> QED BY <1>4, <3>1, <3>2 DEF Derive
    <2> QED BY <1>4, <2>2 DEF Derive, TypeOK, WorkerState
  <1>5. CASE Correct(w)
    <2>1. worker[w].item \in Item /\ worker[w].goal \in Document /\ "CORRECTED" \in Outcome
      BY <1>5, <1>w DEF Correct, ItemsKnown, WorkerState, Outcome
    <2>2. doc' \in [Key -> Document \cup {Absent}]
      BY <1>5, <2>1 DEF Correct, TypeOK
    <2> QED BY <1>5, <2>1, <2>2, OutcomeType DEF Correct, TypeOK, WorkerState
  <1>6. CASE Mark(w)
    <2>1. worker[w].outcome \in Outcome /\ worker[w].todo \ {worker[w].item} \in SUBSET Item
          /\ worker[w].closed \in SUBSET Key
      BY <1>w DEF WorkerState
    <2>2. [Idle EXCEPT !.pc = "next", !.todo = worker[w].todo \ {worker[w].item},
                       !.closed = worker[w].closed] \in WorkerState
      BY <1>i, <2>1 DEF WorkerState
    <2>3. worker' \in [Worker -> WorkerState]
      BY <1>6, <1>i, <2>2 DEF Mark, TypeOK, WorkerState
    <2>4. signal' \in [Source -> [status : {"none", "PENDING", "RESOLVED"}, outcome : Outcome]]
      BY <1>6, <2>1 DEF Mark, ResolvedOnce, TypeOK
    <2> QED BY <1>6, <2>3, <2>4 DEF Mark, TypeOK, WorkerState
  <1>7. CASE Stops(w)
    BY <1>7, <1>i DEF Stops, TypeOK, WorkerState
  <1> QED BY <1>1, <1>2, <1>3, <1>4, <1>5, <1>6, <1>7 DEF WorkerStep

\* Every step keeps the types.
LEMMA StepType ==
    ASSUME TypeOK, KeysKnown, ItemsKnown, [Next]_vars
    PROVE  TypeOK'
PROOF
  <1>1. CASE UNCHANGED vars
    BY <1>1 DEF TypeOK, vars
  <1>2. ASSUME NEW k \in Key, Close(k) \/ Expire(k) PROVE TypeOK'
    BY <1>2 DEF Close, Expire, TypeOK
  <1> QED BY <1>1, <1>2, TransactionType, RunType DEF Next

\* The initial state has its types, and no signal or run.
LEMMA InitTypes == Init => TypeOK /\ KeysKnown /\ ItemsKnown
PROOF
  <1> SUFFICES ASSUME Init PROVE TypeOK /\ KeysKnown /\ ItemsKnown
    OBVIOUS
  <1>1. Idle \in WorkerState /\ Idle.pc = "idle"
    BY DEF Idle, WorkerState, Zero, Document, Outcome
  <1>2. worker \in [Worker -> WorkerState] /\ \A w \in Worker : worker[w].pc = "idle"
    BY <1>1 DEF Init
  <1>3. TypeOK
    BY <1>2 DEF Init, TypeOK, WorkerState, Outcome
  <1>4. KeysKnown
    BY DEF Init, KeysKnown, Source
  <1> QED BY <1>2, <1>3, <1>4 DEF ItemsKnown

\* A transaction keeps its document, and a signal is about one that has it.
LEMMA StepKeys ==
    ASSUME TypeOK, KeysKnown, [Next]_vars
    PROVE  KeysKnown'
PROOF
  <1>1. CASE UNCHANGED vars
    BY <1>1 DEF KeysKnown, vars
  <1>2. ASSUME NEW k \in Key, Close(k) \/ Expire(k) PROVE KeysKnown'
    BY <1>2 DEF Close, Expire, KeysKnown
  <1>3. ASSUME NEW t \in Txn,
               Transaction(t) \/ QueueDriftFails(t) \/ Die(t) \/ ApproveUnconfirmed(t)
        PROVE  KeysKnown'
    <2>1. CASE Begin(t)
      BY <2>1 DEF Begin, Goes, KeysKnown, TypeOK, Source
    <2>2. CASE /\ use[t] # "new" /\ UNCHANGED <<keyOf, signal>>
               /\ \E u \in STRING : use' = [use EXCEPT ![t] = u]
      BY <2>2 DEF KeysKnown, TypeOK
    <2>3. CASE QueueDrift(t)
      <3>1. use[t] # "new" /\ UNCHANGED keyOf /\ use' = [use EXCEPT ![t] = Ended(t)]
        BY <2>3 DEF QueueDrift, Drifts
      <3>2. \A s \in Source : signal'[s].status # "none" => s[1] = t \/ signal[s].status # "none"
        BY <2>3 DEF QueueDrift, TypeOK
      <3> QED BY <3>1, <3>2 DEF KeysKnown, TypeOK
    <2>4. CASE Undo(t)
      <3>1. use[t] # "new" /\ UNCHANGED <<keyOf, signal>>
        BY <2>4 DEF Undo, Drifting
      <3>2. \A x \in Txn \ {t} : use'[x] = use[x]
        BY <2>4 DEF Undo, TypeOK
      <3> QED BY <3>1, <3>2 DEF KeysKnown
    <2>5. CASE Increment(t) \/ Approve(t) \/ Reject(t) \/ Flip(t) \/ Die(t) \/ ApproveUnconfirmed(t)
               \/ QueueDriftFails(t)
      <3>1. use[t] # "new" /\ UNCHANGED <<keyOf, signal>>
        BY <2>5 DEF Increment, Approve, Reject, Flip, Die, ApproveUnconfirmed, QueueDriftFails,
                    Goes, Drifts
      <3>2. \A x \in Txn \ {t} : use'[x] = use[x]
        BY <2>5 DEF Increment, Approve, Reject, Flip, Die, ApproveUnconfirmed, QueueDriftFails,
                    Goes, TypeOK
      <3> QED BY <3>1, <3>2 DEF KeysKnown
    <2> QED BY <1>3, <2>1, <2>3, <2>4, <2>5 DEF Transaction
  <1>4. ASSUME NEW w \in Worker, StartQueue(w) \/ StartSweep(w) \/ WorkerStep(w) \/ Stops(w)
        PROVE  KeysKnown'
    <2>1. CASE ~Mark(w)
      BY <1>4, <2>1 DEF StartQueue, StartSweep, Starts, WorkerStep, ReadDocument, Derive, Correct,
                        Stops, KeysKnown
    <2>2. CASE Mark(w)
      <3>1. UNCHANGED <<use, keyOf>>
        BY <2>2 DEF Mark
      <3>2. \A s \in Source : signal'[s].status # "none" => signal[s].status # "none"
        BY <2>2 DEF Mark, ResolvedOnce, TypeOK
      <3> QED BY <3>1, <3>2 DEF KeysKnown
    <2> QED BY <2>1, <2>2
  <1> QED BY <1>1, <1>2, <1>3, <1>4 DEF Next

\* What a run becomes when it starts.
LEMMA RunStarts ==
    ASSUME TypeOK, NEW w \in Worker, NEW found, NEW limit, Starts(w, found, limit)
    PROVE  /\ worker'[w].pc = "next" /\ worker'[w].todo \subseteq found
           /\ worker'[w].closed = {k \in Key : window[k] = "closed"}
PROOF
  <1> DEFINE shut == {k \in Key : window[k] = "closed"}
  <1>1. PICK batch \in SUBSET found :
          worker' = [worker EXCEPT ![w].pc = "next", ![w].todo = batch, ![w].closed = shut]
    BY StartsWith
  <1> HIDE DEF shut
  <1>2. worker[w] \in WorkerState /\ worker \in [Worker -> WorkerState]
    BY WorkerType DEF TypeOK, WorkerState
  <1>3. worker'[w].pc = "next" /\ worker'[w].todo = batch /\ worker'[w].closed = shut
    BY <1>1, <1>2 DEF WorkerState
  <1> QED BY <1>3 DEF shut

\* What it becomes in each of its other steps.
LEMMA RunSteps ==
    ASSUME TypeOK, NEW w \in Worker
    PROVE  /\ \A item, outcome : Outcomes(w, item, outcome) =>
                /\ worker'[w].pc = "mark" /\ worker'[w].item = item
                /\ worker'[w].todo = worker[w].todo /\ worker'[w].closed = worker[w].closed
           /\ \A item, live :
                worker' = [worker EXCEPT ![w].pc = "derive", ![w].item = item, ![w].live = live] =>
                /\ worker'[w].pc = "derive" /\ worker'[w].item = item
                /\ worker'[w].todo = worker[w].todo /\ worker'[w].closed = worker[w].closed
           /\ \A goal :
                worker' = [worker EXCEPT ![w].pc = "correct", ![w].goal = goal] =>
                /\ worker'[w].pc = "correct" /\ worker'[w].item = worker[w].item
                /\ worker'[w].todo = worker[w].todo /\ worker'[w].closed = worker[w].closed
           /\ Mark(w) =>
                /\ worker'[w].pc \in {"idle", "next"}
                /\ worker'[w].todo \subseteq worker[w].todo
                /\ worker'[w].closed \subseteq worker[w].closed
           /\ Stops(w) =>
                worker'[w].pc = "idle" /\ worker'[w].todo = {} /\ worker'[w].closed = {}
PROOF
  <1>1. PICK pc, todo, item, closed, live, goal, outcome :
          worker[w] = [pc |-> pc, todo |-> todo, item |-> item, closed |-> closed,
                       live |-> live, goal |-> goal, outcome |-> outcome]
    BY WorkerType DEF WorkerState
  <1>2. worker \in [Worker -> WorkerState]
    BY DEF TypeOK, WorkerState
  <1>4. \A item1, outcome1 : Outcomes(w, item1, outcome1) =>
          /\ worker'[w].pc = "mark" /\ worker'[w].item = item1
          /\ worker'[w].todo = worker[w].todo /\ worker'[w].closed = worker[w].closed
    BY <1>1, <1>2 DEF Outcomes
  <1>5. \A item1, live1 :
          worker' = [worker EXCEPT ![w].pc = "derive", ![w].item = item1, ![w].live = live1] =>
          /\ worker'[w].pc = "derive" /\ worker'[w].item = item1
          /\ worker'[w].todo = worker[w].todo /\ worker'[w].closed = worker[w].closed
    BY <1>1, <1>2
  <1>6. \A goal1 :
          worker' = [worker EXCEPT ![w].pc = "correct", ![w].goal = goal1] =>
          /\ worker'[w].pc = "correct" /\ worker'[w].item = worker[w].item
          /\ worker'[w].todo = worker[w].todo /\ worker'[w].closed = worker[w].closed
    BY <1>1, <1>2
  <1>7. Mark(w) =>
          /\ worker'[w].pc \in {"idle", "next"}
          /\ worker'[w].todo \subseteq worker[w].todo
          /\ worker'[w].closed \subseteq worker[w].closed
    <2> DEFINE left == worker[w].todo \ {worker[w].item}
               again == [Idle EXCEPT !.pc = "next", !.todo = left, !.closed = worker[w].closed]
    <2>1. Idle.pc = "idle" /\ Idle.todo = {} /\ Idle.closed = {}
      BY DEF Idle
    <2>2. again.pc = "next" /\ again.todo = left /\ again.closed = worker[w].closed
      <3> HIDE DEF left
      <3> QED BY DEF Idle
    <2>3. Mark(w) => worker'[w] = Idle \/ worker'[w] = again
      BY <1>2 DEF Mark
    <2> HIDE DEF again
    <2> QED BY <2>1, <2>2, <2>3
  <1>8. Stops(w) => worker'[w].pc = "idle" /\ worker'[w].todo = {} /\ worker'[w].closed = {}
    BY <1>2 DEF Stops, Idle
  <1> QED BY <1>4, <1>5, <1>6, <1>7, <1>8

\* A run reads a document before it derives it, and leaves rolling ones alone.
LEMMA StepItems ==
    ASSUME TypeOK, ItemsKnown, [Next]_vars
    PROVE  ItemsKnown'
PROOF
  <1>1. CASE UNCHANGED worker
    BY <1>1 DEF ItemsKnown, KeyAt
  <1>2. ASSUME NEW w \in Worker, StartQueue(w) \/ StartSweep(w) \/ WorkerStep(w) \/ Stops(w)
        PROVE  ItemsKnown'
    <2>0. worker[w] \in WorkerState /\ worker \in [Worker -> WorkerState]
      BY DEF TypeOK, WorkerState
    <2>1. \A v \in Worker \ {w} : worker'[v] = worker[v]
      BY <1>2, <2>0 DEF StartQueue, StartSweep, Starts, WorkerStep, ReadDocument, Derive, Correct,
                        Mark, Stops, Outcomes
    <2>2. CASE worker'[w].pc \in {"idle", "next"}
      BY <2>1, <2>2 DEF ItemsKnown, KeyAt
    <2>3. CASE ReadDocument(w)
      <3>1. PICK item \in worker[w].todo :
              \/ Outcomes(w, item, "ALERTED")
              \/ Outcomes(w, item, "DOC_GONE")
              \/ /\ item[1] \notin Rolling
                 /\ worker' = [worker EXCEPT ![w].pc = "derive", ![w].item = item,
                                             ![w].live = doc[item[1]]]
        BY <2>3 DEF ReadDocument
      <3>2. item \in Item
        BY <2>0 DEF WorkerState
      <3>3. worker'[w].item = item
            /\ (worker'[w].pc = "mark" \/ (worker'[w].pc = "derive" /\ item[1] \notin Rolling))
        <4>1. CASE Outcomes(w, item, "ALERTED") \/ Outcomes(w, item, "DOC_GONE")
          BY <4>1, RunSteps
        <4>2. CASE /\ item[1] \notin Rolling
                   /\ worker' = [worker EXCEPT ![w].pc = "derive", ![w].item = item,
                                               ![w].live = doc[item[1]]]
          BY <4>2, RunSteps
        <4> QED BY <3>1, <4>1, <4>2
      <3> QED BY <2>1, <3>2, <3>3 DEF ItemsKnown, KeyAt
    <2>4. CASE Derive(w) \/ Correct(w)
      <3>1. worker'[w].item = worker[w].item /\ worker[w].pc \in {"derive", "correct"}
        BY <2>4, RunSteps DEF Derive, Correct
      <3> QED BY <2>1, <3>1 DEF ItemsKnown, KeyAt
    <2>5. CASE StartQueue(w) \/ StartSweep(w) \/ Mark(w) \/ Stops(w)
      <3>1. worker'[w].pc \in {"idle", "next"}
        BY <2>5, RunSteps, RunStarts DEF StartQueue, StartSweep
      <3> QED BY <2>2, <3>1
    <2> QED BY <1>2, <2>3, <2>4, <2>5 DEF WorkerStep
  <1>3. ASSUME NEW t \in Txn,
               Transaction(t) \/ QueueDriftFails(t) \/ Die(t) \/ ApproveUnconfirmed(t)
        PROVE  UNCHANGED worker
    BY <1>3 DEF Transaction, Begin, Increment, Approve, Reject, Flip, Undo, QueueDrift,
                QueueDriftFails, Die, ApproveUnconfirmed
  <1>4. ASSUME NEW k \in Key, Close(k) \/ Expire(k) PROVE UNCHANGED worker
    BY <1>4 DEF Close, Expire
  <1> QED BY <1>1, <1>2, <1>3, <1>4 DEF Next, vars

\* The state variables keep their types: in particular no floor guard, no
\* correction and no TTL deletion makes a document negative.
THEOREM TypeCorrect == Spec => [](TypeOK /\ KeysKnown /\ ItemsKnown)
PROOF
  <1>1. TypeOK /\ KeysKnown /\ ItemsKnown /\ [Next]_vars => (TypeOK /\ KeysKnown /\ ItemsKnown)'
    BY StepType, StepKeys, StepItems
  <1> QED BY InitTypes, <1>1, PTL DEF Spec
-----------------------------------------------------------------------------
(* What a signal says of its transaction, and what a run knows of windows. *)

Reasons == {"COMPENSATION_FLOOR_GUARD_FAILED", "REVERSAL_FLOOR_GUARD_FAILED"}

\* A signal is enqueued by the last step of the unwind, or of the reversal,
\* that failed: neither is run twice.
SignalledOnce ==
    \A t \in Txn :
        /\ signal[<<t, "COMPENSATION_FLOOR_GUARD_FAILED">>].status # "none" =>
               use[t] \notin {"new", "begun", "applied", "unwinding", "unwindDrift", "lost",
                              "lostDrift"}
        /\ signal[<<t, "REVERSAL_FLOOR_GUARD_FAILED">>].status # "none" => use[t] = "reversed"

\* A step signals a transaction once at most, and leaves resolved signals alone.
LEMMA StepSignals ==
    ASSUME TypeOK, SignalledOnce, [Next]_vars
    PROVE  SignalledOnce' /\ \A s \in Source : signal[s].status = "RESOLVED" => signal'[s] = signal[s]
PROOF
  <1> DEFINE Stand == \A s \in Source : signal[s].status = "RESOLVED" => signal'[s] = signal[s]
  <1>1. CASE UNCHANGED <<use, signal>>
    BY <1>1 DEF SignalledOnce
  <1>2. ASSUME NEW t \in Txn,
               Transaction(t) \/ QueueDriftFails(t) \/ Die(t) \/ ApproveUnconfirmed(t)
        PROVE  SignalledOnce' /\ Stand
    <2>0. /\ use = [x \in Txn |-> use[x]]
          /\ signal \in [Source -> [status : {"none", "PENDING", "RESOLVED"}, outcome : Outcome]]
      BY DEF TypeOK
    <2>1. CASE Begin(t) \/ Increment(t) \/ Approve(t) \/ Reject(t) \/ Flip(t) \/ Die(t)
               \/ ApproveUnconfirmed(t)
      <3> DEFINE early == {"new", "begun", "applied", "unwinding", "unwindDrift", "lost", "lostDrift"}
      <3>1. /\ UNCHANGED signal /\ use[t] # "reversed"
            /\ \A x \in Txn \ {t} : use'[x] = use[x]
            /\ use[t] \in early \/ use'[t] \in {"reversing", "dead"}
        BY <2>0, <2>1 DEF Begin, Increment, Approve, Reject, Flip, Die, ApproveUnconfirmed, Goes
      <3> QED BY <3>1 DEF SignalledOnce
    <2>2. CASE Undo(t)
      <3>1. /\ UNCHANGED signal
            /\ \/ use' = [use EXCEPT ![t] = Ended(t)]
               \/ use' = [use EXCEPT ![t] = Drifting[@]]
            /\ use[t] \in {"unwinding", "lost", "reversing"}
        BY <2>2 DEF Undo, Drifting
      <3>2. use[t] = "reversing" => Ended(t) = "reversed" /\ Drifting[use[t]] = "reverseDrift"
        BY DEF Ended, Drifting
      <3> QED BY <2>0, <3>1, <3>2 DEF SignalledOnce
    <2>3. CASE QueueDriftFails(t)
      <3>1. use[t] = "reverseDrift" => Ended(t) = "reversed"
        BY DEF Ended
      <3> QED BY <2>0, <2>3, <3>1 DEF QueueDriftFails, Drifts, SignalledOnce
    <2>4. CASE QueueDrift(t)
      <3>1. <<t, Reason(t)>> \in Source /\ signal[<<t, Reason(t)>>].status = "none"
        BY <2>4 DEF QueueDrift, Drifts, Reason, SignalledOnce, Source
      <3>2. \A s \in Source : s # <<t, Reason(t)>> => signal'[s] = signal[s]
        BY <2>0, <2>4 DEF QueueDrift
      <3>3. use' = [use EXCEPT ![t] = Ended(t)] /\ use[t] \in Drifts
        BY <2>4 DEF QueueDrift
      <3>4. CASE use[t] = "reverseDrift"
        <4>1. Ended(t) = "reversed"
          BY <3>4 DEF Ended
        <4>2. \A x \in Txn : \A r \in Reasons :
                <<x, r>> \in Source /\ (x # t => <<x, r>> # <<t, Reason(t)>>)
          BY DEF Reasons, Source
        <4>3. <<t, "COMPENSATION_FLOOR_GUARD_FAILED">> # <<t, Reason(t)>>
          BY <3>4 DEF Reason
        <4> QED BY <2>0, <3>1, <3>2, <3>3, <3>4, <4>1, <4>2, <4>3 DEF SignalledOnce, Reasons
      <3>5. CASE use[t] \in {"unwindDrift", "lostDrift"}
        <4>1. Ended(t) \in {"rejected", "approved"}
          BY <3>5 DEF Ended
        <4>2. \A x \in Txn : \A r \in Reasons :
                <<x, r>> \in Source /\ (x # t => <<x, r>> # <<t, Reason(t)>>)
          BY DEF Reasons, Source
        <4>3. <<t, "REVERSAL_FLOOR_GUARD_FAILED">> # <<t, Reason(t)>>
          BY <3>5 DEF Reason
        <4> QED BY <2>0, <3>1, <3>2, <3>3, <3>5, <4>1, <4>2, <4>3 DEF SignalledOnce, Reasons
      <3> QED BY <3>3, <3>4, <3>5 DEF Drifts
    <2> QED BY <1>2, <2>1, <2>2, <2>3, <2>4 DEF Transaction
  <1>3. ASSUME NEW w \in Worker, Mark(w) PROVE SignalledOnce' /\ Stand
    <2>1. UNCHANGED use
      BY <1>3 DEF Mark
    <2>2. \A s \in Source : \/ signal'[s] = signal[s]
                            \/ signal[s].status = "PENDING" /\ signal'[s].status = "RESOLVED"
      BY <1>3 DEF Mark, ResolvedOnce, TypeOK
    <2>3. \A s \in Source : signal'[s].status # "none" => signal[s].status # "none"
      BY <2>2
    <2>4. \A t \in Txn : \A r \in Reasons : <<t, r>> \in Source
      BY DEF Reasons, Source
    <2>5. SignalledOnce'
      BY <2>1, <2>3, <2>4 DEF SignalledOnce, Reasons
    <2> QED BY <2>2, <2>5
  <1>4. ASSUME NEW w \in Worker,
               StartQueue(w) \/ StartSweep(w) \/ ReadDocument(w) \/ Derive(w) \/ Correct(w) \/ Stops(w)
        PROVE  UNCHANGED <<use, signal>>
    BY <1>4 DEF StartQueue, StartSweep, Starts, ReadDocument, Derive, Correct, Stops
  <1>5. ASSUME NEW k \in Key, Close(k) \/ Expire(k) PROVE UNCHANGED <<use, signal>>
    BY <1>5 DEF Close, Expire
  <1> QED BY <1>1, <1>2, <1>3, <1>4, <1>5 DEF Next, WorkerStep, vars

\* A signal that several runs work on keeps its first resolution, and a
\* resolved signal is never put back in the queue.
THEOREM FirstResolutionStands == Spec => ResolutionsStand
PROOF
  <1>1. Init => SignalledOnce
    BY DEF Init, SignalledOnce, Source
  <1>2. TypeOK /\ SignalledOnce /\ [Next]_vars => SignalledOnce'
    BY StepSignals
  <1>3. TypeOK /\ SignalledOnce /\ [Next]_vars =>
          [\A s \in Source : signal[s].status = "RESOLVED" => signal'[s] = signal[s]]_vars
    BY StepSignals
  <1> QED BY <1>1, <1>2, <1>3, TypeCorrect, PTL DEF Spec, ResolutionsStand
-----------------------------------------------------------------------------
(* Who writes a counter document.                                          *)

\* A document is written by a call that counts in it, deleted once its window
\* is closed, or overwritten by a run that has derived it.
LEMMA DocumentWriters ==
    ASSUME TypeOK, KeysKnown, [Next]_vars, NEW k \in Key, doc'[k] # doc[k]
    PROVE  \/ \E t \in Txn : keyOf[t] = k /\ use'[t] # use[t]
           \/ window[k] = "closed" /\ doc'[k] = Absent
           \/ \E w \in Worker : worker[w].pc = "correct" /\ KeyAt(w) = k
PROOF
  <1>1. CASE UNCHANGED doc
    BY <1>1
  <1>2. ASSUME NEW t \in Txn, Increment(t) \/ Undo(t)
        PROVE  keyOf[t] = k /\ use'[t] # use[t]
    <2>1. keyOf[t] \in Key /\ doc' = [doc EXCEPT ![keyOf[t]] = doc'[keyOf[t]]]
      BY <1>1, <1>2 DEF Increment, Undo, Goes, Drifting, KeysKnown, TypeOK
    <2>2. keyOf[t] = k
      BY <2>1 DEF TypeOK
    <2>3. CASE Increment(t)
      BY <2>2, <2>3 DEF Increment, Goes, TypeOK
    <2>4. CASE Undo(t)
      <3>1. use[t] \in {"unwinding", "lost", "reversing"} /\ use'[t] \in {Ended(t), Drifting[use[t]]}
        BY <2>4 DEF Undo, TypeOK, Drifting
      <3>2. Ended(t) \in {"rejected", "approved", "reversed"}
        BY DEF Ended
      <3>3. Drifting[use[t]] \in Drifts
        BY <3>1 DEF Drifting, Drifts
      <3> QED BY <2>2, <3>1, <3>2, <3>3 DEF Drifts
    <2> QED BY <1>2, <2>3, <2>4
  <1>3. ASSUME NEW x \in Key, Expire(x) PROVE window[k] = "closed" /\ doc'[k] = Absent
    BY <1>3 DEF Expire, TypeOK
  <1>4. ASSUME NEW w \in Worker, Correct(w) PROVE worker[w].pc = "correct" /\ KeyAt(w) = k
    <2>1. \/ doc' = doc
          \/ doc' = [doc EXCEPT ![KeyAt(w)] = worker[w].goal]
      BY <1>4 DEF Correct
    <2>2. KeyAt(w) = k
      BY <2>1 DEF TypeOK
    <2> QED BY <1>4, <2>2 DEF Correct
  <1>5. ASSUME NEW t \in Txn,
               \/ Begin(t) \/ Approve(t) \/ Reject(t) \/ Flip(t) \/ QueueDrift(t)
               \/ QueueDriftFails(t) \/ Die(t) \/ ApproveUnconfirmed(t)
        PROVE  UNCHANGED doc
    BY <1>5 DEF Begin, Approve, Reject, Flip, QueueDrift, QueueDriftFails, Die, ApproveUnconfirmed
  <1>6. ASSUME NEW w \in Worker,
               StartQueue(w) \/ StartSweep(w) \/ ReadDocument(w) \/ Derive(w) \/ Mark(w) \/ Stops(w)
        PROVE  UNCHANGED doc
    BY <1>6 DEF StartQueue, StartSweep, Starts, ReadDocument, Derive, Mark, Stops
  <1>7. ASSUME NEW x \in Key, Close(x) PROVE UNCHANGED doc
    BY <1>7 DEF Close
  <1> QED BY <1>1, <1>2, <1>3, <1>4, <1>5, <1>6, <1>7 DEF Next, Transaction, WorkerStep, vars

\* A rolling document is never overwritten by a repair, whatever it holds and
\* whatever the signals about it say.
THEOREM RollingDocumentsStand == Spec => RollingUntouched
PROOF
  <1>1. ASSUME TypeOK, KeysKnown, ItemsKnown, [Next]_vars, NEW k \in Rolling,
               doc'[k] \notin {doc[k], Absent}
        PROVE  \E t \in Txn : keyOf[t] = k /\ use'[t] # use[t]
    <2>1. k \in Key
      BY ReconciliationAssumption
    <2> QED BY <1>1, <2>1, DocumentWriters DEF ItemsKnown
  <1>2. TypeOK /\ KeysKnown /\ ItemsKnown /\ [Next]_vars =>
          [\A k \in Rolling : doc'[k] \notin {doc[k], Absent} =>
             \E t \in Txn : keyOf[t] = k /\ use'[t] # use[t]]_vars
    BY <1>1
  <1> QED BY <1>2, TypeCorrect, PTL DEF Spec, RollingUntouched

\* Unless AUTO_CORRECT_OPEN_WINDOWS is set, what a run takes for closed is
\* closed: a window never reopens.
ClosedIsKnown ==
    \A w \in Worker :
        /\ \A k \in worker[w].closed : window[k] = "closed"
        /\ \A item \in worker[w].todo : item[2] = NoSignal => window[item[1]] = "closed"
        /\ worker[w].pc = "derive" /\ worker[w].item[2] = NoSignal => window[KeyAt(w)] = "closed"
        /\ worker[w].pc = "correct" => window[KeyAt(w)] = "closed"

\* A step never opens a window again.
LEMMA StepWindows ==
    ASSUME TypeOK, [Next]_vars, NEW k \in Key, window[k] = "closed"
    PROVE  window'[k] = "closed"
PROOF
  <1>1. CASE UNCHANGED window
    BY <1>1
  <1>2. ASSUME NEW x \in Key, Close(x) PROVE window'[k] = "closed"
    BY <1>2 DEF Close, TypeOK
  <1>3. ASSUME NEW x \in Key, Expire(x) PROVE UNCHANGED window
    BY <1>3 DEF Expire
  <1>4. ASSUME NEW t \in Txn,
               Transaction(t) \/ QueueDriftFails(t) \/ Die(t) \/ ApproveUnconfirmed(t)
        PROVE  UNCHANGED window
    BY <1>4 DEF Transaction, Begin, Increment, Approve, Reject, Flip, Undo, QueueDrift,
                QueueDriftFails, Die, ApproveUnconfirmed
  <1>5. ASSUME NEW w \in Worker, StartQueue(w) \/ StartSweep(w) \/ WorkerStep(w) \/ Stops(w)
        PROVE  UNCHANGED window
    BY <1>5 DEF StartQueue, StartSweep, Starts, WorkerStep, ReadDocument, Derive, Correct, Mark,
                Stops
  <1> QED BY <1>1, <1>2, <1>3, <1>4, <1>5 DEF Next, vars

\* What a drainer takes for closed when it starts is closed, and stays so.
LEMMA StepClosed ==
    ASSUME TypeOK, KeysKnown, ItemsKnown, ClosedIsKnown, ~AutoCorrectOpenWindows, [Next]_vars
    PROVE  ClosedIsKnown'
PROOF
  <1> DEFINE Known(v) ==
        /\ \A k \in worker'[v].closed : window'[k] = "closed"
        /\ \A item \in worker'[v].todo : item[2] = NoSignal => window'[item[1]] = "closed"
        /\ worker'[v].pc = "derive" /\ worker'[v].item[2] = NoSignal =>
             window'[worker'[v].item[1]] = "closed"
        /\ worker'[v].pc = "correct" => window'[worker'[v].item[1]] = "closed"
  <1>s. \A k \in Key : window[k] = "closed" => window'[k] = "closed"
    BY StepWindows
  <1>t. ASSUME NEW v \in Worker
        PROVE  /\ worker[v].closed \in SUBSET Key /\ worker[v].todo \in SUBSET Item
               /\ worker[v].pc \in {"derive", "correct"} => KeyAt(v) \in Key
               /\ \A item \in Item : item[1] \in Key
    BY WorkerType DEF WorkerState, ItemsKnown, KeyAt, Item
  <1>k. ASSUME NEW v \in Worker, worker'[v] = worker[v] PROVE Known(v)
    BY <1>k, <1>s, <1>t DEF ClosedIsKnown, KeyAt
  <1>1. CASE UNCHANGED worker
    BY <1>k, <1>1 DEF ClosedIsKnown, KeyAt
  <1>2. ASSUME NEW t \in Txn,
               Transaction(t) \/ QueueDriftFails(t) \/ Die(t) \/ ApproveUnconfirmed(t)
        PROVE  UNCHANGED worker
    BY <1>2, TransactionType
  <1>3. ASSUME NEW k \in Key, Close(k) \/ Expire(k) PROVE UNCHANGED worker
    BY <1>3 DEF Close, Expire
  <1>4. ASSUME NEW w \in Worker, StartQueue(w) \/ StartSweep(w) \/ WorkerStep(w) \/ Stops(w)
        PROVE  ClosedIsKnown'
    <2>1. \A v \in Worker \ {w} : worker'[v] = worker[v]
      BY <1>4 DEF StartQueue, StartSweep, Starts, WorkerStep, ReadDocument, Derive, Correct, Mark,
                  Stops, Outcomes, TypeOK
    <2>2. UNCHANGED window
      BY <1>4 DEF StartQueue, StartSweep, Starts, WorkerStep, ReadDocument, Derive, Correct, Mark,
                  Stops
    <2> SUFFICES Known(w)
      BY <1>k, <2>1 DEF ClosedIsKnown, KeyAt
    <2>3. CASE StartQueue(w)
      <3> DEFINE items == {<<keyOf[s[1]], s>> : s \in {x \in Source : signal[x].status = "PENDING"}}
      <3>1. Starts(w, items, QueueLimit)
        BY <2>3 DEF StartQueue
      <3>2. \A item \in items : item[2] # NoSignal
        BY ReconciliationAssumption
      <3> HIDE DEF items
      <3>3. /\ worker'[w].pc = "next" /\ worker'[w].todo \subseteq items
            /\ worker'[w].closed = {k \in Key : window[k] = "closed"}
        BY <3>1, RunStarts
      <3> QED BY <2>2, <3>2, <3>3
    <2>4. CASE StartSweep(w)
      <3> DEFINE items == Due \X {NoSignal}
      <3>1. Starts(w, items, SweepLimit)
        BY <2>4 DEF StartSweep
      <3>2. \A item \in items : window[item[1]] = "closed"
        BY DEF Due
      <3> HIDE DEF items
      <3>3. /\ worker'[w].pc = "next" /\ worker'[w].todo \subseteq items
            /\ worker'[w].closed = {k \in Key : window[k] = "closed"}
        BY <3>1, RunStarts
      <3> QED BY <2>2, <3>2, <3>3
    <2>5. CASE ReadDocument(w)
      <3>1. PICK item \in worker[w].todo :
              \/ Outcomes(w, item, "ALERTED")
              \/ Outcomes(w, item, "DOC_GONE")
              \/ worker' = [worker EXCEPT ![w].pc = "derive", ![w].item = item,
                                          ![w].live = doc[item[1]]]
        BY <2>5 DEF ReadDocument
      <3>2. item[2] = NoSignal => window[item[1]] = "closed"
        BY DEF ClosedIsKnown
      <3>3. CASE Outcomes(w, item, "ALERTED") \/ Outcomes(w, item, "DOC_GONE")
        BY <2>2, <3>3, RunSteps DEF ClosedIsKnown
      <3>4. CASE worker' = [worker EXCEPT ![w].pc = "derive", ![w].item = item,
                                          ![w].live = doc[item[1]]]
        <4>1. /\ worker'[w].pc = "derive" /\ worker'[w].item = item
              /\ worker'[w].todo = worker[w].todo /\ worker'[w].closed = worker[w].closed
          BY <3>4, RunSteps
        <4> QED BY <2>2, <3>2, <4>1 DEF ClosedIsKnown
      <3> QED BY <3>1, <3>3, <3>4
    <2>6. CASE Derive(w)
      <3>1. CASE Outcomes(w, worker[w].item, "NONE") \/ Outcomes(w, worker[w].item, "ALERTED")
        BY <2>2, <3>1, RunSteps DEF ClosedIsKnown
      <3>2. CASE MayCorrect(w)
                 /\ worker' = [worker EXCEPT ![w].pc = "correct", ![w].goal = Expected(KeyAt(w))]
        <4>1. window[KeyAt(w)] = "closed"
          BY <2>6, <3>2 DEF Derive, MayCorrect, ClosedIsKnown
        <4>2. /\ worker'[w].pc = "correct" /\ worker'[w].item = worker[w].item
              /\ worker'[w].todo = worker[w].todo /\ worker'[w].closed = worker[w].closed
          BY <3>2, RunSteps
        <4> QED BY <2>2, <4>1, <4>2 DEF ClosedIsKnown, KeyAt
      <3> QED BY <2>6, <3>1, <3>2 DEF Derive
    <2>7. CASE Correct(w)
      <3>1. Outcomes(w, worker[w].item, "CORRECTED")
        BY <2>7 DEF Correct
      <3> QED BY <2>2, <3>1, RunSteps DEF ClosedIsKnown
    <2>8. CASE Mark(w)
      BY <2>2, <2>8, RunSteps DEF ClosedIsKnown
    <2>9. CASE Stops(w)
      BY <2>2, <2>9, RunSteps
    <2> QED BY <1>4, <2>3, <2>4, <2>5, <2>6, <2>7, <2>8, <2>9 DEF WorkerStep
  <1> QED BY <1>1, <1>2, <1>3, <1>4 DEF Next, vars

\* Unless AUTO_CORRECT_OPEN_WINDOWS is set, no run ever overwrites the counter
\* of an open window, however long ago it derived what it writes.
THEOREM LiveCountersStand == ~AutoCorrectOpenWindows /\ Spec => LiveCounterUntouched
PROOF
  <1> SUFFICES ASSUME ~AutoCorrectOpenWindows PROVE Spec => LiveCounterUntouched
    OBVIOUS
  <1>1. Init => ClosedIsKnown
    BY DEF Init, ClosedIsKnown, Idle
  <1>2. TypeOK /\ KeysKnown /\ ItemsKnown /\ ClosedIsKnown /\ [Next]_vars => ClosedIsKnown'
    BY StepClosed
  <1>3. ASSUME TypeOK, KeysKnown, ClosedIsKnown, [Next]_vars, NEW k \in Key,
               window[k] = "open", doc'[k] # doc[k]
        PROVE  \E t \in Txn : keyOf[t] = k /\ use'[t] # use[t]
    BY <1>3, DocumentWriters DEF ClosedIsKnown
  <1>4. TypeOK /\ KeysKnown /\ ClosedIsKnown /\ [Next]_vars =>
          [\A k \in Key : window[k] = "open" /\ doc'[k] # doc[k] =>
             \E t \in Txn : keyOf[t] = k /\ use'[t] # use[t]]_vars
    BY <1>3
  <1> QED BY <1>1, <1>2, <1>4, TypeCorrect, PTL DEF Spec, LiveCounterUntouched
-----------------------------------------------------------------------------
(* A failure costs a false rejection at most.                              *)

\* Those whose increment is in k and has not been given back.
Held(k) ==
    {t \in Txn : keyOf[t] = k /\ use[t] \in {"applied", "approved", "unwinding", "reversing"}}

Covers(d, T) == d.amount >= TotalAmount(T) /\ d.count >= Cardinality(T)

\* The counter of an open window holds what is held in it, and a resolve that
\* was applied is known to have been.
HeldIsCounted ==
    /\ \A t \in Txn : use[t] \notin {"lost", "lostDrift"}
    /\ \A k \in Key : window[k] = "open" =>
         Covers(IF doc[k] = Absent THEN Zero ELSE doc[k], Held(k))

\* A document that nothing is added to is covered by what is left in it.
LEMMA CoversLess ==
    ASSUME NEW d \in Document, NEW T \in SUBSET Txn, NEW S \in SUBSET T, Covers(d, T)
    PROVE  Covers(d, S)
PROOF
  <1>1. TotalAmount(S) <= TotalAmount(T) /\ Cardinality(S) <= Cardinality(T)
    BY TotalMonotone
  <1>2. {TotalAmount(S), TotalAmount(T), Cardinality(S), Cardinality(T)} \subseteq Nat
    BY PaiseFinite
  <1> QED BY <1>1, <1>2 DEF Covers, Document

\* A transaction that adds or gives back its increment keeps its document
\* covered.
LEMMA CoversStep ==
    ASSUME NEW d \in Document, NEW T \in SUBSET Txn, NEW t \in Txn, Covers(d, T)
    PROVE  /\ t \notin T => Covers([amount |-> d.amount + Amount[t], count |-> d.count + 1],
                                   T \cup {t})
           /\ t \in T => Covers([amount |-> d.amount - Amount[t], count |-> d.count - 1],
                                T \ {t})
PROOF
  <1>1. TotalAmount(T) \in Nat /\ Cardinality(T) \in Nat /\ Amount[t] \in Nat
    BY PaiseFinite, AmountTypes
  <1>2. CASE t \notin T
    <2>1. TotalAmount(T \cup {t}) = TotalAmount(T) + Amount[t]
          /\ Cardinality(T \cup {t}) = Cardinality(T) + 1
      BY <1>2, TotalAdd
    <2> QED BY <1>1, <1>2, <2>1 DEF Covers, Document
  <1>3. CASE t \in T
    <2>1. TotalAmount(T \ {t}) = TotalAmount(T) - Amount[t]
          /\ Cardinality(T \ {t}) = Cardinality(T) - 1
      BY <1>3, TotalRemove
    <2> QED BY <1>1, <1>3, <2>1 DEF Covers, Document
  <1> QED BY <1>2, <1>3

\* A step keeps every open document at the sum of its holders or above.
LEMMA StepHeld ==
    ASSUME TypeOK, KeysKnown, ItemsKnown, ClosedIsKnown, HeldIsCounted,
           ~AutoCorrectOpenWindows, "unconfirmed" \notin Faults, [Next]_vars
    PROVE  HeldIsCounted'
PROOF
  <1> DEFINE D(k) == IF doc[k] = Absent THEN Zero ELSE doc[k]
  <1>d. \A k \in Key : D(k) \in Document /\ (window[k] = "open" => Covers(D(k), Held(k)))
    BY DEF TypeOK, Zero, Document, HeldIsCounted
  <1>h. \A k \in Key : Held(k) \in SUBSET Txn
    BY DEF Held
  <1>w. \A k \in Key : window'[k] = "open" => window[k] = "open"
    <2>1. \A k \in Key : window[k] \in {"open", "closed"}
      BY DEF TypeOK
    <2> QED BY <2>1, StepWindows
  \* It is enough that documents stay and fewer hold them.
  <1>s. ASSUME \A t \in Txn : use'[t] \notin {"lost", "lostDrift"},
               \A k \in Key : window'[k] = "open" => doc'[k] = doc[k] /\ Held(k)' \subseteq Held(k)
        PROVE  HeldIsCounted'
    BY <1>s, <1>d, <1>h, <1>w, CoversLess DEF HeldIsCounted
  <1>1. CASE UNCHANGED <<use, keyOf>>
    <2>1. \A k \in Key : Held(k)' = Held(k)
      BY <1>1 DEF Held
    <2>2. \A k \in Key : window'[k] = "open" => doc'[k] = doc[k]
      <3> SUFFICES ASSUME NEW k \in Key, window'[k] = "open", doc'[k] # doc[k] PROVE FALSE
        OBVIOUS
      <3>1. window[k] = "open"
        BY <1>w
      <3>2. \A t \in Txn : use'[t] = use[t]
        BY <1>1
      <3> QED BY <3>1, <3>2, DocumentWriters DEF ClosedIsKnown
    <2> QED BY <1>1, <1>s, <2>1, <2>2 DEF HeldIsCounted
  <1>2. ASSUME NEW t \in Txn,
               Transaction(t) \/ QueueDriftFails(t) \/ Die(t) \/ ApproveUnconfirmed(t)
        PROVE  HeldIsCounted'
    <2>0. /\ use[t] \notin {"lost", "lostDrift"} /\ use = [x \in Txn |-> use[x]]
          /\ keyOf = [x \in Txn |-> keyOf[x]]
      BY DEF HeldIsCounted, TypeOK
    <2>1. CASE Begin(t)
      <3>1. /\ UNCHANGED doc /\ use'[t] = "begun"
            /\ \A x \in Txn \ {t} : use'[x] = use[x] /\ keyOf'[x] = keyOf[x]
        BY <2>0, <2>1 DEF Begin, Goes
      <3>2. \A k \in Key : Held(k)' \subseteq Held(k)
        BY <3>1 DEF Held
      <3> QED BY <1>s, <3>1, <3>2 DEF HeldIsCounted
    <2>2. CASE Increment(t)
      <3>0. PICK k \in Key : k = keyOf[t]
        BY <2>2 DEF Increment, Goes, KeysKnown
      <3>1. use[t] = "begun" /\ use'[t] = "applied" /\ UNCHANGED <<keyOf, window>>
            /\ \A x \in Txn \ {t} : use'[x] = use[x]
        BY <2>0, <2>2 DEF Increment, Goes
      <3>2. doc' = [doc EXCEPT ![k] = [amount |-> D(k).amount + Amount[t], count |-> D(k).count + 1]]
        BY <2>2, <3>0 DEF Increment
      <3>3. t \notin Held(k) /\ Held(k)' = Held(k) \cup {t}
        BY <3>0, <3>1 DEF Held
      <3>4. \A x \in Key \ {k} : Held(x)' = Held(x) /\ doc'[x] = doc[x]
        BY <3>0, <3>1, <3>2 DEF Held, TypeOK
      <3>5. doc'[k] = [amount |-> D(k).amount + Amount[t], count |-> D(k).count + 1]
        BY <3>1, <3>2 DEF TypeOK
      <3>6. doc'[k] # Absent
        <4>1. doc'[k] \in Document
          BY <1>d, <3>1, <3>5, AmountTypes DEF Document
        <4> QED BY <4>1, ReconciliationAssumption
      <3>7. window[k] = "open" => Covers(doc'[k], Held(k)')
        <4>1. window[k] = "open" =>
                Covers([amount |-> D(k).amount + Amount[t], count |-> D(k).count + 1], Held(k) \cup {t})
          <5> HIDE DEF D
          <5> QED BY <1>d, <1>h, <3>3, CoversStep
        <4> QED BY <3>3, <3>5, <4>1
      <3> QED BY <1>d, <3>1, <3>4, <3>6, <3>7 DEF HeldIsCounted
    <2>3. CASE Undo(t)
      <3>0. PICK k \in Key : k = keyOf[t]
        BY <2>3 DEF Undo, Drifting, KeysKnown
      <3>1. use[t] \in {"unwinding", "reversing"} /\ UNCHANGED <<keyOf, window>>
            /\ \A x \in Txn \ {t} : use'[x] = use[x]
        BY <2>0, <2>3 DEF Undo, Drifting
      <3>2. use'[t] \in {"rejected", "reversed", "unwindDrift", "reverseDrift"}
        BY <2>0, <2>3, <3>1 DEF Undo, Drifting, Ended
      <3>3. t \in Held(k) /\ Held(k)' = Held(k) \ {t}
        BY <3>0, <3>1, <3>2 DEF Held
      <3>4. \A x \in Key \ {k} : Held(x)' = Held(x)
        BY <3>0, <3>1, <3>2 DEF Held
      <3>5. CASE FloorHolds(t)
        <4>1. doc[k] # Absent
              /\ doc' = [doc EXCEPT ![k] = [amount |-> doc[k].amount - Amount[t],
                                            count |-> doc[k].count - 1]]
          BY <2>3, <3>0, <3>5 DEF Undo, FloorHolds
        <4>2. doc'[k] = [amount |-> D(k).amount - Amount[t], count |-> D(k).count - 1]
              /\ \A x \in Key \ {k} : doc'[x] = doc[x]
          BY <3>1, <4>1 DEF TypeOK
        <4>3. doc'[k] # Absent
          <5>1. doc'[k] \in Document
            <6>1. D(k) = doc[k] /\ D(k).amount >= Amount[t] /\ D(k).count >= 1
              BY <3>0, <3>5, <4>1 DEF FloorHolds
            <6> HIDE DEF D
            <6> QED BY <1>d, <3>1, <4>2, <6>1, AmountTypes DEF Document
          <5> QED BY <5>1, ReconciliationAssumption
        <4>4. window[k] = "open" => Covers(doc'[k], Held(k)')
          <5>1. window[k] = "open" =>
                  Covers([amount |-> D(k).amount - Amount[t], count |-> D(k).count - 1], Held(k) \ {t})
            <6> HIDE DEF D
            <6> QED BY <1>d, <1>h, <3>3, CoversStep
          <5> QED BY <3>3, <4>2, <5>1
        <4> QED BY <1>d, <3>1, <3>2, <3>4, <4>2, <4>3, <4>4 DEF HeldIsCounted
      <3>6. CASE ~FloorHolds(t)
        <4>1. UNCHANGED doc
          BY <2>3, <3>6 DEF Undo
        <4>2. \A x \in Key : Held(x)' \subseteq Held(x)
          BY <3>3, <3>4
        <4> QED BY <1>s, <3>1, <3>2, <4>1, <4>2 DEF HeldIsCounted
      <3> QED BY <3>5, <3>6
    <2>4. CASE Approve(t) \/ Reject(t) \/ Flip(t) \/ Die(t)
      <3>1. /\ UNCHANGED <<doc, keyOf>> /\ use'[t] \in {"approved", "unwinding", "reversing", "dead"}
            /\ use'[t] # "dead" => use[t] \in {"applied", "approved"}
            /\ \A x \in Txn \ {t} : use'[x] = use[x]
        BY <2>0, <2>4 DEF Approve, Reject, Flip, Die, Goes
      <3>2. \A k \in Key : Held(k)' \subseteq Held(k)
        BY <3>1 DEF Held
      <3> QED BY <1>s, <3>1, <3>2 DEF HeldIsCounted
    <2>5. CASE QueueDrift(t) \/ QueueDriftFails(t)
      <3>1. /\ UNCHANGED <<doc, keyOf>> /\ use[t] \in {"unwindDrift", "reverseDrift"}
            /\ use'[t] = Ended(t) /\ \A x \in Txn \ {t} : use'[x] = use[x]
        BY <2>0, <2>5 DEF QueueDrift, QueueDriftFails, Drifts
      <3>2. Ended(t) \in {"rejected", "reversed"}
        BY <3>1 DEF Ended
      <3>3. \A k \in Key : Held(k)' \subseteq Held(k)
        BY <3>1, <3>2 DEF Held
      <3> QED BY <1>s, <3>1, <3>2, <3>3 DEF HeldIsCounted
    <2>6. ~ApproveUnconfirmed(t)
      BY DEF ApproveUnconfirmed
    <2> QED BY <1>2, <2>1, <2>2, <2>3, <2>4, <2>5, <2>6 DEF Transaction
  <1>3. ASSUME NEW k \in Key, Close(k) \/ Expire(k) PROVE UNCHANGED <<use, keyOf>>
    BY <1>3 DEF Close, Expire
  <1>4. ASSUME NEW w \in Worker, StartQueue(w) \/ StartSweep(w) \/ WorkerStep(w) \/ Stops(w)
        PROVE  UNCHANGED <<use, keyOf>>
    BY <1>4 DEF StartQueue, StartSweep, Starts, WorkerStep, ReadDocument, Derive, Correct, Mark,
                Stops
  <1> QED BY <1>1, <1>2, <1>3, <1>4 DEF Next, vars

\* The counter of an open window never holds less than its APPROVED records
\* add up to, whichever calls die and whichever repairs fail, unless open
\* windows are corrected or a resolve that was applied is reported as failed.
THEOREM OpenCountersNeverUndercount ==
    ~AutoCorrectOpenWindows /\ "unconfirmed" \notin Faults /\ Spec => []NeverUndercounts
PROOF
  <1> SUFFICES ASSUME ~AutoCorrectOpenWindows, "unconfirmed" \notin Faults
               PROVE  Spec => []NeverUndercounts
    OBVIOUS
  <1>1. Init => ClosedIsKnown /\ HeldIsCounted
    <2> SUFFICES ASSUME Init PROVE ClosedIsKnown /\ HeldIsCounted
      OBVIOUS
    <2>1. ClosedIsKnown
      BY DEF Init, ClosedIsKnown, Idle
    <2>2. \A k \in Key : Held(k) = {} /\ (IF doc[k] = Absent THEN Zero ELSE doc[k]) = Zero
      BY DEF Init, Held
    <2>3. Covers(Zero, {})
      BY TotalEmpty DEF Covers, Zero
    <2> QED BY <2>1, <2>2, <2>3 DEF Init, HeldIsCounted
  <1>2. TypeOK /\ KeysKnown /\ ItemsKnown /\ ClosedIsKnown /\ HeldIsCounted /\ [Next]_vars =>
          ClosedIsKnown' /\ HeldIsCounted'
    BY StepClosed, StepHeld
  <1>3. TypeOK /\ HeldIsCounted => NeverUndercounts
    <2> SUFFICES ASSUME TypeOK, HeldIsCounted, NEW k \in Key, window[k] = "open"
                 PROVE  LET d == IF doc[k] = Absent THEN Zero ELSE doc[k]
                        IN  d.amount >= Expected(k).amount /\ d.count >= Expected(k).count
      BY DEF NeverUndercounts
    <2> DEFINE d == IF doc[k] = Absent THEN Zero ELSE doc[k]
               recorded == {t \in Txn : use[t] \in OnRecord /\ keyOf[t] = k}
    <2>1. d \in Document /\ Covers(d, Held(k))
      BY DEF TypeOK, Zero, Document, HeldIsCounted
    <2>2. recorded \in SUBSET Held(k) /\ Held(k) \in SUBSET Txn
      BY DEF HeldIsCounted, OnRecord, Held
    <2>3. Covers(d, recorded)
      <3> HIDE DEF d, recorded
      <3> QED BY <2>1, <2>2, CoversLess
    <2> QED BY <2>3 DEF Expected, Covers
  <1> QED BY <1>1, <1>2, <1>3, TypeCorrect, PTL DEF Spec
=============================================================================
