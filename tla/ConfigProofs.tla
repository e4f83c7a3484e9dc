---------------------------- MODULE ConfigProofs ----------------------------
(***************************************************************************)
(* Proofs about ConfigPlane, for every number of instances, directions,    *)
(* dimensions, definitions, admin calls, polls and submissions, and for    *)
(* every request and every initial configuration that the code admits.     *)
(***************************************************************************)
EXTENDS ConfigPlane, TLAPS

\* What an admin call may have asked for.
LEMMA RequestFields ==
    ASSUME NEW ask \in Request
    PROVE  /\ ask # Unread
           /\ ask.op \in {"replace", "create", "deactivate", "update", "enable"}
           /\ ask.op = "replace" => ask.direction \in Direction /\ ask.policy \in Policy
           /\ ask.op \in {"create", "deactivate", "update"} => ask.definition \in Definition
           /\ ask.op = "update" => ask.state \in {"active", "inactive"}
           /\ ask.op = "enable" => ask.directions \in SUBSET Direction
PROOF
  <1>1. ask # Unread
    BY ConfigPlaneAssumption
  <1> QED BY <1>1 DEF Request

\* The values that stand for nothing are no documents.
LEMMA Distinct ==
    /\ \A doc \in Document : doc # Absent /\ doc # Unread
    /\ \A defs \in Definitions : defs # Unread
    /\ \A p \in Policy : p # Absent
    /\ Absent # Unread
PROOF BY ConfigPlaneAssumption
-----------------------------------------------------------------------------
(* Types.                                                                  *)

\* The document built from a valid request is one.
LEMMA NextDocumentType ==
    ASSUME NEW ask \in Request, ask.op = "replace", NEW prev \in Document \cup {Absent}
    PROVE  /\ NextDocument(ask, prev) \in Document
           /\ NextDocument(ask, prev).directions[ask.direction] = ask.policy
           /\ \A d \in Direction \ {ask.direction} :
                NextDocument(ask, prev).directions[d]
                  = IF prev = Absent THEN Absent ELSE prev.directions[d]
PROOF
  <1> DEFINE old == IF prev = Absent
                    THEN [config |-> 0, limits |-> 0, directions |-> NoDirections] ELSE prev
  <1>1. old \in Document
    BY DEF NoDirections, Document
  <1>2. ask.direction \in Direction /\ ask.policy \in Policy
    BY RequestFields
  <1>3. old.directions \in [Direction -> Policy \cup {Absent}] /\ old.config \in Nat
    BY <1>1 DEF Document
  <1>4. \A d \in Direction : old.directions[d] = IF prev = Absent THEN Absent ELSE prev.directions[d]
    BY DEF NoDirections
  <1>5. NextDocument(ask, prev) = [old EXCEPT !.config = @ + 1, !.directions[ask.direction] = ask.policy]
    BY DEF NextDocument
  <1> HIDE DEF old
  <1>6. NextDocument(ask, prev)
          = [config |-> old.config + 1, limits |-> old.limits,
             directions |-> [old.directions EXCEPT ![ask.direction] = ask.policy]]
    BY <1>1, <1>5 DEF Document
  <1>7. NextDocument(ask, prev) \in Document
    BY <1>1, <1>2, <1>3, <1>6 DEF Document
  <1> QED BY <1>2, <1>3, <1>4, <1>6, <1>7

\* A refresh keeps the types.
LEMMA RefreshType ==
    ASSUME TypeOK, NEW r \in Loader,
           ReadRegistry(r) \/ ReadDefinitions(r) \/ Install(r) \/ RefreshFails(r)
    PROVE  TypeOK'
PROOF
  <1> DEFINE Load == [busy : BOOLEAN, registry : Document \cup {Absent, Unread},
                      definition : Definitions \cup {Unread}]
  <1>l. load[r] \in Load /\ r \in DOMAIN load
    BY DEF TypeOK
  <1>b. Blank \in Load
    BY DEF Blank
  <1>1. CASE ReadRegistry(r)
    <2>1. load' \in [Loader -> Load]
      BY <1>1, <1>l DEF ReadRegistry, TypeOK
    <2> QED BY <1>1, <2>1 DEF ReadRegistry, TypeOK, store
  <1>2. CASE ReadDefinitions(r)
    <2>1. load' \in [Loader -> Load]
      BY <1>2, <1>l DEF ReadDefinitions, TypeOK
    <2> QED BY <1>2, <2>1 DEF ReadDefinitions, TypeOK, store
  <1>3. ASSUME EndsRefresh(r) PROVE load' \in [Loader -> Load] /\ call' \in [Admin -> Call]
    <2>1. load' \in [Loader -> Load]
      BY <1>3, <1>b DEF EndsRefresh, TypeOK
    <2>2. CASE r \in Admin
      <3>1. call[r] \in Call
        BY <2>2 DEF TypeOK
      <3>2. [call[r] EXCEPT !.pc = "done"] \in Call
        BY <3>1 DEF Call
      <3>3. call' = [call EXCEPT ![r].pc = "done"]
        BY <1>3, <2>2 DEF EndsRefresh
      <3> QED BY <2>1, <2>2, <3>2, <3>3 DEF TypeOK
    <2> QED BY <1>3, <2>1, <2>2 DEF EndsRefresh, TypeOK
  <1>4. CASE Install(r)
    <2>1. Entry(r) \in CacheEntry
      BY <1>4, <1>l DEF Install, Loaded, Entry, CacheEntry
    <2>2. cache' \in [Instance -> CacheEntry \cup {Absent}]
      BY <1>4, <2>1 DEF Install, TypeOK
    <2> QED BY <1>3, <1>4, <2>2 DEF Install, TypeOK, store
  <1>5. CASE RefreshFails(r)
    BY <1>3, <1>5 DEF RefreshFails, TypeOK, store
  <1> QED BY <1>1, <1>2, <1>4, <1>5

\* So does the start of a poll.
LEMMA PollType ==
    ASSUME TypeOK, NEW p \in Poll, StartPoll(p)
    PROVE  TypeOK'
PROOF
  <1>1. Started \in [busy : BOOLEAN, registry : Document \cup {Absent, Unread},
                     definition : Definitions \cup {Unread}]
    BY DEF Started, Blank
  <1> QED BY <1>1 DEF StartPoll, TypeOK, store

\* The local state of an admin call, of which a field changes.
LEMMA CallType ==
    ASSUME TypeOK, NEW a \in Admin
    PROVE  /\ call[a] \in Call /\ a \in DOMAIN call
           /\ \A pc \in {"idle", "read", "write", "registry", "check", "audit", "bump", "refresh",
                         "done", "refused", "failed"} :
                /\ [call[a] EXCEPT !.pc = pc] \in Call
                /\ \A doc \in Document \cup {Absent} : [call[a] EXCEPT !.pc = pc, !.prev = doc] \in Call
                /\ \A ds \in SUBSET Direction : [call[a] EXCEPT !.left = ds, !.pc = pc] \in Call
                /\ \A ask \in Request : [call[a] EXCEPT !.ask = ask, !.pc = pc] \in Call
PROOF
  <1>1. call[a] \in Call /\ a \in DOMAIN call
    BY DEF TypeOK
  <1> QED BY <1>1 DEF Call

\* What the fields of a call are.
LEMMA CallFields ==
    ASSUME TypeOK, NEW a \in Admin
    PROVE  /\ call[a].ask \in Request \cup {Unread}
           /\ call[a].prev \in Document \cup {Absent, Unread}
           /\ call[a].left \in SUBSET Direction
PROOF
  <1>1. call[a] \in Call
    BY DEF TypeOK
  <1> QED BY <1>1 DEF Call

\* A call that is under way has a request of the kind its step is for.
LEMMA AskType ==
    ASSUME TypeOK, NEW a \in Admin, call[a].ask # Unread
    PROVE  call[a].ask \in Request
PROOF BY CallFields
-----------------------------------------------------------------------------
(* What the store and the copies of it hold.                               *)

\* A call that has begun knows what it was asked for, and has been validated
\* before it goes on; what it decides by has been read.
Proceeds(a) ==
    /\ call[a].pc # "idle" => call[a].ask # Unread
    /\ call[a].pc \notin {"idle", "refused"} => Valid(call[a].ask)
    /\ call[a].pc \in {"registry", "check"} => call[a].ask.op = "enable"
    /\ call[a].pc = "check" => call[a].prev # Unread
    /\ call[a].pc = "write" =>
         /\ call[a].ask.op = "replace" => call[a].prev # Unread
         /\ call[a].ask.op = "enable" => call[a].left = {}
    /\ load[a].busy => call[a].pc = "refresh"

CallsProceed == \A a \in Admin : Proceeds(a)

\* A document somebody has read was in the store.
Recorded(doc, entries) ==
    doc \in Document => \A d \in Direction : <<d, doc.directions[d]>> \in entries
Seen(doc) == Recorded(doc, past)

DocumentsSeen ==
    /\ Seen(registry)
    /\ \A i \in Instance : cache[i] # Absent => Seen(cache[i].registry)
    /\ \A r \in Loader : Seen(load[r].registry)
    /\ \A a \in Admin : Seen(call[a].prev)

\* Every registry there has been declares GLOBAL.
PastIsGoverned == \A entry \in past : entry[2] # Absent => Global \in entry[2]

\* A step of an admin call keeps the types.
LEMMA StepTypeAdmin ==
    ASSUME TypeOK, CallsProceed, NEW a \in Admin, Step(a) \/ CallFails(a)
    PROVE  TypeOK'
PROOF
  <1>s. Started \in [busy : BOOLEAN, registry : Document \cup {Absent, Unread},
                     definition : Definitions \cup {Unread}] /\ a \in Loader
    BY DEF Started, Blank, Loader
  <1>a. call[a].pc # "idle" => call[a].ask \in Request
    BY AskType DEF CallsProceed, Proceeds
  <1>1. CASE ReadPrevious(a)
    BY <1>1, CallType DEF ReadPrevious, TypeOK, store
  <1>2. CASE ReplaceDocument(a)
    <2>1. call[a].ask \in Request /\ call[a].ask.op = "replace"
      BY <1>a, <1>2 DEF ReplaceDocument, At, Asks
    <2>2. call[a].prev \in Document \cup {Absent}
      BY <1>2, <2>1, CallFields DEF ReplaceDocument, CallsProceed, Proceeds, At
    <2>3. registry' \in Document
      BY <1>2, <2>1, <2>2, NextDocumentType DEF ReplaceDocument
    <2>4. past' \subseteq Direction \X (Policy \cup {Absent})
      BY <1>2, <2>3 DEF ReplaceDocument, TypeOK, Document
    <2> QED BY <1>2, <2>3, <2>4, CallType DEF ReplaceDocument, TypeOK
  <1>3. ASSUME NEW d \in Definition, NEW state \in {"active", "inactive"}, Writes(a, d, state)
        PROVE  TypeOK'
    <2>1. definition[d] \in [state : {"none", "active", "inactive"}, version : Nat]
      BY DEF TypeOK, Definitions
    <2>2. [state |-> state, version |-> definition[d].version + 1]
            \in [state : {"none", "active", "inactive"}, version : Nat]
      BY <2>1
    <2>3. definition' \in Definitions
      BY <1>3, <2>2 DEF Writes, TypeOK, Definitions
    <2> QED BY <1>3, <2>3, CallType DEF Writes, TypeOK
  <1>4. CASE InsertDefinition(a)
    <2>1. call[a].ask.definition \in Definition
      BY <1>a, <1>4, RequestFields DEF InsertDefinition, At, Asks
    <2> QED BY <1>3, <1>4, <2>1 DEF InsertDefinition
  <1>5. CASE FindDefinition(a)
    BY <1>5, CallType DEF FindDefinition, TypeOK, store
  <1>6. CASE UpdateDefinition(a)
    <2>1. call[a].ask \in Request /\ call[a].ask.op \in {"update", "deactivate"}
      BY <1>a, <1>6 DEF UpdateDefinition, At, Asks
    <2>2. /\ call[a].ask.definition \in Definition
          /\ (IF Asks(a, "deactivate") THEN "inactive" ELSE call[a].ask.state)
               \in {"active", "inactive"}
      BY <1>6, <2>1, RequestFields DEF UpdateDefinition, At, Asks
    <2> QED BY <1>3, <1>6, <2>2 DEF UpdateDefinition
  <1>7. CASE ReadClient(a)
    <2>1. call[a].ask.directions \ enabled \in SUBSET Direction
      BY <1>a, <1>7, RequestFields DEF ReadClient, At, Asks
    <2> QED BY <1>7, <2>1, CallType DEF ReadClient, TypeOK, store
  <1>8. CASE ReadForEnabling(a)
    BY <1>8, CallType DEF ReadForEnabling, TypeOK, store
  <1>9. CASE CheckDirection(a)
    <2>1. \A d : call[a].left \ {d} \in SUBSET Direction
      BY CallFields
    <2>2. PICK d \in call[a].left, pc \in {"refused", "write", "check"} :
            call' = [call EXCEPT ![a].left = call[a].left \ {d}, ![a].pc = pc]
      BY <1>9 DEF CheckDirection
    <2>3. call' \in [Admin -> Call]
      BY <2>1, <2>2, CallType DEF TypeOK
    <2> QED BY <1>9, <2>3 DEF CheckDirection, TypeOK, store
  <1>10. CASE EnableDirections(a)
    <2>1. call[a].ask.directions \in SUBSET Direction
      BY <1>a, <1>10, RequestFields DEF EnableDirections, At, Asks
    <2> QED BY <1>10, <2>1, CallType DEF EnableDirections, TypeOK
  <1>11. CASE Audit(a)
    <2>1. call' \in [Admin -> Call]
      BY <1>11, CallType DEF Audit, TypeOK
    <2> QED BY <1>11, <1>s, <2>1 DEF Audit, TypeOK, store
  <1>12. CASE BumpLimits(a)
    <2>1. registry' \in Document \cup {Absent}
      <3>1. CASE registry = Absent
        BY <1>12, <3>1 DEF BumpLimits
      <3>2. CASE registry # Absent
        <4>1. registry \in Document
          BY <3>2 DEF TypeOK
        <4>2. [registry EXCEPT !.limits = @ + 1] \in Document
          BY <4>1 DEF Document
        <4> QED BY <1>12, <3>2, <4>2 DEF BumpLimits
      <3> QED BY <3>1, <3>2
    <2> QED BY <1>12, <1>s, <2>1, CallType DEF BumpLimits, TypeOK
  <1>13. CASE CallFails(a)
    BY <1>13, CallType DEF CallFails, TypeOK, store
  <1> QED BY <1>1, <1>2, <1>4, <1>5, <1>6, <1>7, <1>8, <1>9, <1>10, <1>11, <1>12, <1>13 DEF Step

\* A call that arrives keeps the types.
LEMMA BeginType ==
    ASSUME TypeOK, NEW a \in Admin, NEW ask \in RequestOf[a], Begin(a, ask)
    PROVE  TypeOK' /\ ask \in Request
PROOF
  <1>1. ask \in Request
    BY ConfigPlaneAssumption
  <1>2. call' \in [Admin -> Call]
    BY <1>1, CallType DEF Begin, TypeOK
  <1> QED BY <1>1, <1>2 DEF Begin, TypeOK, store

\* What the cache serves is typed.
LEMMA EntryType ==
    ASSUME TypeOK, NEW x \in Txn, cache[Home[x]] # Absent
    PROVE  /\ cache[Home[x]].definition \in Definitions
           /\ cache[Home[x]].registry \in Document \cup {Absent}
PROOF
  <1>1. Home[x] \in Instance
    BY ConfigPlaneAssumption
  <1>2. cache[Home[x]] \in CacheEntry
    BY <1>1 DEF TypeOK
  <1> QED BY <1>2 DEF CacheEntry

\* What one evaluation of a dimension does to a submission.
LEMMA EvaluatesStep ==
    ASSUME TypeOK, NEW x \in Txn, NEW left \in Policy, Evaluates(x, left), cache[Home[x]] # Absent
    PROVE  \/ submission' = [submission EXCEPT ![x].pc = "rejected", ![x].left = {}]
           \/ \E dim \in left :
                /\ Passes(x, dim, cache[Home[x]].definition)
                /\ submission' = [submission EXCEPT ![x] =
                     [pc |-> IF left = {dim} THEN "approved" ELSE "dimensions",
                      left |-> left \ {dim},
                      used |-> [submission[x].used EXCEPT ![dim] = cache[Home[x]].definition]]]
PROOF BY DEF Evaluates, Ends, TypeOK

\* It keeps the types.
LEMMA EvaluatesType ==
    ASSUME TypeOK, NEW x \in Txn, NEW left \in Policy, Evaluates(x, left), cache[Home[x]] # Absent
    PROVE  submission' \in [Txn -> Submission]
PROOF
  <1>x. submission[x] \in Submission
    BY DEF TypeOK
  <1>1. CASE submission' = [submission EXCEPT ![x].pc = "rejected", ![x].left = {}]
    <2>1. [submission[x] EXCEPT !.pc = "rejected", !.left = {}] \in Submission
      BY <1>x DEF Submission, Policy
    <2> QED BY <1>1, <2>1 DEF TypeOK
  <1>2. ASSUME NEW dim \in left,
               submission' = [submission EXCEPT ![x] =
                 [pc |-> IF left = {dim} THEN "approved" ELSE "dimensions",
                  left |-> left \ {dim},
                  used |-> [submission[x].used EXCEPT ![dim] = cache[Home[x]].definition]]]
        PROVE  submission' \in [Txn -> Submission]
    <2>1. [submission[x].used EXCEPT ![dim] = cache[Home[x]].definition]
            \in [Dimension -> Definitions \cup {Unread}]
      BY <1>x, EntryType DEF Submission
    <2>2. left \ {dim} \in Policy
      BY DEF Policy
    <2>3. [pc |-> IF left = {dim} THEN "approved" ELSE "dimensions",
           left |-> left \ {dim},
           used |-> [submission[x].used EXCEPT ![dim] = cache[Home[x]].definition]] \in Submission
      BY <2>1, <2>2 DEF Submission
    <2> QED BY <1>2, <2>3 DEF TypeOK
  <1> QED BY <1>1, <1>2, EvaluatesStep

\* An entry stays for as long as the instance lives.
EntriesStay ==
    \A x \in Txn : submission[x].pc = "dimensions" => cache[Home[x]] # Absent

\* The directions a snapshot declares.
LEMMA DeclaredPolicy ==
    ASSUME TypeOK, NEW x \in Txn, cache[Home[x]] # Absent,
           Declares(cache[Home[x]].registry, TxnDirection[x])
    PROVE  cache[Home[x]].registry \in Document
           /\ cache[Home[x]].registry.directions[TxnDirection[x]] \in Policy
PROOF
  <1>1. cache[Home[x]].registry \in Document
    BY EntryType DEF Declares
  <1>2. TxnDirection[x] \in Direction
    BY ConfigPlaneAssumption
  <1> QED BY <1>1, <1>2 DEF Document, Declares

\* A step of a submission keeps the types.
LEMMA SubmissionType ==
    ASSUME TypeOK, EntriesStay, NEW x \in Txn, Gate(x) \/ StartWaterfall(x) \/ EvaluateNext(x)
    PROVE  TypeOK'
PROOF
  <1>x. submission[x] \in Submission
    BY DEF TypeOK
  <1>r. [submission[x] EXCEPT !.pc = "rejected", !.left = {}] \in Submission
    BY <1>x DEF Submission, Policy
  <1>1. submission' \in [Txn -> Submission]
    <2>1. CASE Gate(x)
      <3>1. \A pc \in {"waterfall", "rejected"} : [submission[x] EXCEPT !.pc = pc] \in Submission
        BY <1>x DEF Submission
      <3>2. PICK pc \in {"waterfall", "rejected"} : submission' = [submission EXCEPT ![x].pc = pc]
        BY <2>1 DEF Gate
      <3> QED BY <3>1, <3>2 DEF TypeOK
    <2>2. CASE StartWaterfall(x)
      <3>1. CASE Snapshot(x) # Absent /\ Declares(Snapshot(x).registry, TxnDirection[x])
        BY <2>2, <3>1, EvaluatesType, DeclaredPolicy DEF StartWaterfall, Snapshot
      <3>2. CASE ~(Snapshot(x) # Absent /\ Declares(Snapshot(x).registry, TxnDirection[x]))
        <4>1. submission' = [submission EXCEPT ![x].pc = "rejected", ![x].left = {}]
          BY <2>2, <3>2 DEF StartWaterfall, Ends
        <4> QED BY <1>r, <4>1 DEF TypeOK
      <3> QED BY <3>1, <3>2
    <2>3. CASE EvaluateNext(x)
      <3>1. submission[x].left \in Policy
        BY <1>x DEF Submission
      <3> QED BY <2>3, <3>1, EvaluatesType DEF EvaluateNext, EntriesStay
    <2> QED BY <2>1, <2>2, <2>3
  <1> QED BY <1>1 DEF Gate, StartWaterfall, EvaluateNext, TypeOK, store

\* Every step keeps the types.
LEMMA StepType ==
    ASSUME TypeOK, CallsProceed, EntriesStay, [Next]_vars
    PROVE  TypeOK'
PROOF
  <1>1. CASE UNCHANGED vars
    BY <1>1 DEF TypeOK, vars, store
  <1> QED BY <1>1, PollType, RefreshType, BeginType, StepTypeAdmin, SubmissionType DEF Next
-----------------------------------------------------------------------------
(* Calls proceed.                                                          *)

\* A step of one call leaves the others where they are.
LEMMA OtherCalls ==
    ASSUME TypeOK, CallsProceed, NEW a \in Admin,
           Step(a) \/ CallFails(a) \/ (\E ask \in RequestOf[a] : Begin(a, ask)) \/ EndsRefresh(a)
    PROVE  \A b \in Admin \ {a} : Proceeds(b)'
PROOF
  <1>1. \A b \in Admin \ {a} : call'[b] = call[b]
    BY DEF TypeOK, Step, CallFails, Begin, EndsRefresh, ReadPrevious, ReplaceDocument,
         InsertDefinition, FindDefinition, UpdateDefinition, Writes, ReadClient, ReadForEnabling,
         CheckDirection, EnableDirections, Audit, BumpLimits
  <1>2. \A b \in Admin \ {a} : load'[b] = load[b]
    BY DEF TypeOK, Step, CallFails, Begin, EndsRefresh, ReadPrevious, ReplaceDocument,
         InsertDefinition, FindDefinition, UpdateDefinition, Writes, ReadClient, ReadForEnabling,
         CheckDirection, EnableDirections, Audit, BumpLimits, Loader
  <1> QED BY <1>1, <1>2 DEF CallsProceed, Proceeds, Valid

\* A step takes a call on.
LEMMA OwnCall ==
    ASSUME TypeOK, CallsProceed, NEW a \in Admin,
           Step(a) \/ CallFails(a) \/ (\E ask \in RequestOf[a] : Begin(a, ask))
    PROVE  Proceeds(a)'
PROOF
  <1>p. Proceeds(a) /\ call[a] \in Call /\ a \in DOMAIN call /\ a \in DOMAIN load
    BY CallType DEF CallsProceed, TypeOK, Loader
  <1>u. registry # Unread
    BY Distinct DEF TypeOK
  <1>1. CASE ReadPrevious(a)
    BY <1>1, <1>p, <1>u DEF ReadPrevious, Proceeds, Call, At, Asks, Valid
  <1>2. CASE ReplaceDocument(a)
    BY <1>2, <1>p DEF ReplaceDocument, Proceeds, Call, At, Asks, Valid
  <1>3. ASSUME NEW d, NEW state, Writes(a, d, state), call[a].pc \in {"read", "write"}
        PROVE  Proceeds(a)'
    BY <1>3, <1>p DEF Writes, Proceeds, Call, At, Asks, Valid
  <1>4. CASE InsertDefinition(a)
    BY <1>3, <1>4 DEF InsertDefinition, At
  <1>5. CASE FindDefinition(a)
    BY <1>5, <1>p DEF FindDefinition, Proceeds, Call, At, Asks, Valid
  <1>6. CASE UpdateDefinition(a)
    BY <1>3, <1>6 DEF UpdateDefinition, At
  <1>7. CASE ReadClient(a)
    BY <1>7, <1>p DEF ReadClient, Proceeds, Call, At, Asks, Valid
  <1>8. CASE ReadForEnabling(a)
    BY <1>8, <1>p, <1>u DEF ReadForEnabling, Proceeds, Call, At, Asks, Valid
  <1>9. CASE CheckDirection(a)
    <2>1. PICK d \in call[a].left :
            call' = [call EXCEPT ![a].left = call[a].left \ {d},
                       ![a].pc = IF ~Ready(call[a].prev, d) THEN "refused"
                                 ELSE IF call[a].left \ {d} = {} THEN "write" ELSE "check"]
      BY <1>9 DEF CheckDirection
    <2>2. UNCHANGED load /\ call[a].pc = "check"
      BY <1>9 DEF CheckDirection, At
    <2>3. /\ call'[a].ask = call[a].ask /\ call'[a].prev = call[a].prev
          /\ call'[a].left = call[a].left \ {d}
          /\ call'[a].pc \in {"refused", "write", "check"}
          /\ call'[a].pc = "write" => call[a].left \ {d} = {}
      BY <2>1, <1>p DEF Call
    <2> QED BY <2>2, <2>3, <1>p DEF Proceeds, Valid
  <1>10. CASE EnableDirections(a)
    BY <1>10, <1>p DEF EnableDirections, Proceeds, Call, At, Asks, Valid
  <1>11. CASE Audit(a)
    BY <1>11, <1>p DEF Audit, Proceeds, Call, At, Asks, Valid, Started, Blank
  <1>12. CASE BumpLimits(a)
    BY <1>12, <1>p DEF BumpLimits, Proceeds, Call, At, Asks, Valid, Started, Blank
  <1>13. CASE CallFails(a)
    BY <1>13, <1>p DEF CallFails, Proceeds, Call, At, Asks, Valid
  <1>14. ASSUME NEW ask \in RequestOf[a], Begin(a, ask) PROVE Proceeds(a)'
    <2>1. ask # Unread
      BY <1>14, BeginType, RequestFields
    <2> QED BY <1>14, <1>p, <2>1 DEF Begin, Proceeds, Call, At, Valid
  <1> QED BY <1>1, <1>2, <1>4, <1>5, <1>6, <1>7, <1>8, <1>9, <1>10, <1>11, <1>12, <1>13, <1>14 DEF Step

\* The refresh of a call ends it.
LEMMA RefreshEnds ==
    ASSUME TypeOK, CallsProceed, NEW r \in Loader, load[r].busy, EndsRefresh(r)
    PROVE  CallsProceed'
PROOF
  <1>1. CASE r \in Admin
    <2>1. Proceeds(r) /\ call[r] \in Call
      BY <1>1, CallType DEF CallsProceed
    <2>2. call'[r].pc = "done" /\ call'[r].ask = call[r].ask /\ load'[r].busy = FALSE
      BY <1>1, <2>1 DEF EndsRefresh, TypeOK, Call, Blank
    <2>3. Proceeds(r)'
      BY <2>1, <2>2 DEF Proceeds, Valid
    <2> QED BY <1>1, <2>3, OtherCalls DEF CallsProceed
  <1>2. CASE r \notin Admin
    <2>1. UNCHANGED call /\ \A a \in Admin : load'[a] = load[a]
      BY <1>2 DEF EndsRefresh, TypeOK, Loader
    <2> QED BY <2>1 DEF CallsProceed, Proceeds, Valid
  <1> QED BY <1>1, <1>2

\* Every step takes the calls on.
LEMMA CallsStep ==
    ASSUME TypeOK, CallsProceed, [Next]_vars
    PROVE  CallsProceed'
PROOF
  <1>1. CASE UNCHANGED <<call, load>>
    BY <1>1 DEF CallsProceed, Proceeds, Valid
  <1>2. ASSUME NEW p \in Poll, StartPoll(p) PROVE CallsProceed'
    <2>1. UNCHANGED call /\ \A a \in Admin : load'[a] = load[a]
      BY <1>2, ConfigPlaneAssumption DEF StartPoll, TypeOK, Loader
    <2> QED BY <2>1 DEF CallsProceed, Proceeds, Valid
  <1>3. ASSUME NEW r \in Loader, ReadRegistry(r) \/ ReadDefinitions(r) PROVE CallsProceed'
    <2>1. UNCHANGED call /\ \A a \in Admin : load'[a].busy = load[a].busy
      BY <1>3 DEF ReadRegistry, ReadDefinitions, TypeOK, Loader
    <2> QED BY <2>1 DEF CallsProceed, Proceeds, Valid
  <1>4. ASSUME NEW r \in Loader, Install(r) \/ RefreshFails(r) PROVE CallsProceed'
    BY <1>4, RefreshEnds DEF Install, RefreshFails, Loaded
  <1>5. ASSUME NEW a \in Admin, Step(a) \/ CallFails(a) \/ (\E ask \in RequestOf[a] : Begin(a, ask))
        PROVE  CallsProceed'
    BY <1>5, OwnCall, OtherCalls DEF CallsProceed
  <1> QED BY <1>1, <1>2, <1>3, <1>4, <1>5 DEF Next, Gate, StartWaterfall, EvaluateNext, vars
-----------------------------------------------------------------------------
(* What has been in the store.                                             *)

\* History only grows, and the versions of the definitions with it.
LEMMA PastGrows ==
    ASSUME TypeOK, CallsProceed, [Next]_vars
    PROVE  /\ past \subseteq past'
           /\ \A d \in Definition : definition[d].version > 0 => definition'[d].version > 0
PROOF
  <1>1. CASE UNCHANGED <<past, definition>>
    BY <1>1
  <1>2. ASSUME NEW a \in Admin, ReplaceDocument(a)
        PROVE  past \subseteq past' /\ UNCHANGED definition
    BY <1>2 DEF ReplaceDocument
  <1>3. ASSUME NEW a \in Admin, NEW e, NEW state, Writes(a, e, state)
        PROVE  /\ UNCHANGED past
               /\ \A d \in Definition : definition[d].version > 0 => definition'[d].version > 0
    <2>1. definition \in [Definition -> [state : {"none", "active", "inactive"}, version : Nat]]
      BY DEF TypeOK, Definitions
    <2> QED BY <1>3, <2>1 DEF Writes
  <1> QED BY <1>1, <1>2, <1>3 DEF Next, vars, store, StartPoll, ReadRegistry, ReadDefinitions, Install,
            RefreshFails, Begin, Step, CallFails, ReadPrevious, InsertDefinition, FindDefinition,
            UpdateDefinition, ReadClient, ReadForEnabling, CheckDirection, EnableDirections, Audit,
            BumpLimits, Gate, StartWaterfall, EvaluateNext

\* The document an admin call writes declares GLOBAL in every direction it has,
\* and it is recorded.
LEMMA ReplaceSeen ==
    ASSUME TypeOK, CallsProceed, DocumentsSeen, PastIsGoverned, NEW a \in Admin, ReplaceDocument(a)
    PROVE  Seen(registry)' /\ PastIsGoverned'
PROOF
  <1>1. call[a].ask \in Request /\ call[a].ask.op = "replace" /\ Global \in call[a].ask.policy
    BY AskType DEF ReplaceDocument, At, Asks, CallsProceed, Proceeds, Valid
  <1>2. call[a].prev \in Document \cup {Absent}
    BY CallFields, <1>1 DEF ReplaceDocument, At, Asks, CallsProceed, Proceeds
  <1>3. /\ registry'.directions[call[a].ask.direction] = call[a].ask.policy
        /\ \A d \in Direction \ {call[a].ask.direction} :
             registry'.directions[d] = IF call[a].prev = Absent THEN Absent
                                       ELSE call[a].prev.directions[d]
    BY <1>1, <1>2, NextDocumentType DEF ReplaceDocument
  <1>4. Seen(registry)'
    BY DEF ReplaceDocument, Seen, Recorded
  <1>5. ASSUME NEW d \in Direction, registry'.directions[d] # Absent
        PROVE  Global \in registry'.directions[d]
    <2>1. CASE d = call[a].ask.direction
      BY <1>1, <1>3, <2>1
    <2>2. CASE d # call[a].ask.direction
      <3>1. call[a].prev \in Document /\ registry'.directions[d] = call[a].prev.directions[d]
        BY <1>2, <1>3, <1>5, <2>2
      <3>2. <<d, call[a].prev.directions[d]>> \in past
        BY <3>1 DEF DocumentsSeen, Seen, Recorded
      <3> QED BY <1>5, <3>1, <3>2 DEF PastIsGoverned
    <2> QED BY <2>1, <2>2
  <1>6. PastIsGoverned'
    BY <1>5 DEF PastIsGoverned, ReplaceDocument
  <1> QED BY <1>4, <1>6

\* A bump of the version changes no direction.
LEMMA BumpSeen ==
    ASSUME TypeOK, Seen(registry), NEW a \in Admin, BumpLimits(a)
    PROVE  Seen(registry)'
PROOF
  <1>1. CASE registry = Absent
    BY <1>1, Distinct DEF BumpLimits, Seen, Recorded
  <1>2. CASE registry # Absent
    <2>1. registry \in Document
      BY <1>2 DEF TypeOK
    <2>2. registry' = [registry EXCEPT !.limits = registry.limits + 1]
      BY <1>2 DEF BumpLimits
    <2>3. registry'.directions = registry.directions
      BY <2>1, <2>2 DEF Document
    <2> QED BY <2>1, <2>3 DEF Seen, Recorded, BumpLimits
  <1> QED BY <1>1, <1>2

\* A refresh only knows what is in the store.
LEMMA LoadReads ==
    ASSUME TypeOK, [Next]_vars, NEW r \in Loader
    PROVE  load'[r].registry \in {load[r].registry, registry, Unread}
PROOF
  <1>l. load \in [Loader -> [busy : BOOLEAN, registry : Document \cup {Absent, Unread},
                            definition : Definitions \cup {Unread}]]
    BY DEF TypeOK
  <1>1. CASE UNCHANGED load
    BY <1>1
  <1>2. ASSUME NEW q \in Loader, ReadRegistry(q)
        PROVE  load'[r].registry \in {load[r].registry, registry}
    BY <1>l, <1>2 DEF ReadRegistry
  <1>3. ASSUME NEW q \in Loader, ReadDefinitions(q) PROVE load'[r].registry = load[r].registry
    BY <1>l, <1>3 DEF ReadDefinitions
  <1>4. ASSUME NEW q \in Loader, EndsRefresh(q)
        PROVE  load'[r].registry \in {load[r].registry, Unread}
    BY <1>l, <1>4 DEF EndsRefresh, Blank
  <1>5. ASSUME NEW q \in Loader, load' = [load EXCEPT ![q] = Started]
        PROVE  load'[r].registry \in {load[r].registry, Unread}
    BY <1>l, <1>5 DEF Started, Blank
  <1>6. Admin \subseteq Loader /\ Poll \subseteq Loader
    BY DEF Loader
  <1> QED BY <1>1, <1>2, <1>3, <1>4, <1>5, <1>6 DEF Next, vars, StartPoll, Install, RefreshFails,
            Begin, Step, CallFails, ReadPrevious, ReplaceDocument, InsertDefinition,
            FindDefinition, UpdateDefinition, Writes, ReadClient, ReadForEnabling,
            CheckDirection, EnableDirections, Audit, BumpLimits, Gate, StartWaterfall,
            EvaluateNext

\* Whoever reads reads what has been in the store.
LEMMA SeenStep ==
    ASSUME TypeOK, CallsProceed, DocumentsSeen, PastIsGoverned, [Next]_vars
    PROVE  DocumentsSeen' /\ PastIsGoverned'
PROOF
  <1>s. \A doc : Recorded(doc, past) => Recorded(doc, past')
    BY PastGrows DEF Recorded
  <1>1. Seen(registry)' /\ PastIsGoverned'
    <2>1. CASE UNCHANGED <<registry, past>>
      BY <2>1 DEF DocumentsSeen, PastIsGoverned, Seen, Recorded
    <2>2. ASSUME NEW a \in Admin, BumpLimits(a) PROVE Seen(registry)' /\ PastIsGoverned'
      BY <2>2, BumpSeen DEF DocumentsSeen, PastIsGoverned, BumpLimits
    <2> QED BY <2>1, <2>2, ReplaceSeen DEF Next, vars, store, StartPoll, ReadRegistry, ReadDefinitions,
              Install, RefreshFails, Begin, Step, CallFails, ReadPrevious, InsertDefinition,
              FindDefinition, UpdateDefinition, Writes, ReadClient, ReadForEnabling, CheckDirection,
              EnableDirections, Audit, Gate, StartWaterfall, EvaluateNext
  <1>2. \A i \in Instance : cache'[i] # Absent => Recorded(cache'[i].registry, past')
    <2>1. CASE UNCHANGED cache
      BY <1>s, <2>1 DEF DocumentsSeen, Seen
    <2>2. ASSUME NEW r \in Loader, Install(r)
          PROVE  \A i \in Instance : cache'[i] # Absent => Recorded(cache'[i].registry, past')
      <3>1. \A i \in Instance : cache'[i] \in {cache[i], Entry(r)}
        BY <2>2 DEF Install, TypeOK
      <3>2. Entry(r).registry = load[r].registry
        BY DEF Entry
      <3> QED BY <1>s, <3>1, <3>2 DEF DocumentsSeen, Seen
    <2> QED BY <2>1, <2>2 DEF Next, vars, StartPoll, ReadRegistry, ReadDefinitions, RefreshFails, Begin,
              Step, CallFails, ReadPrevious, ReplaceDocument, InsertDefinition, FindDefinition,
              UpdateDefinition, Writes, ReadClient, ReadForEnabling, CheckDirection,
              EnableDirections, Audit, BumpLimits, Gate, StartWaterfall, EvaluateNext
  <1>3. ASSUME NEW r \in Loader PROVE Recorded(load'[r].registry, past')
    <2>1. load'[r].registry \in {load[r].registry, registry, Unread}
      BY LoadReads
    <2>2. Recorded(Unread, past')
      BY Distinct DEF Recorded
    <2> QED BY <1>s, <2>1, <2>2 DEF DocumentsSeen, Seen
  <1>4. ASSUME NEW a \in Admin PROVE Recorded(call'[a].prev, past')
    <2>1. call'[a].prev \in {call[a].prev, registry}
      <3>1. CASE UNCHANGED call
        BY <3>1
      <3>2. ASSUME NEW r \in Loader, EndsRefresh(r) PROVE call'[a].prev = call[a].prev
        BY <3>2 DEF EndsRefresh, TypeOK, Call
      <3>3. ASSUME NEW b \in Admin, NEW ask \in RequestOf[b], Begin(b, ask)
            PROVE  call'[a].prev = call[a].prev
        BY <3>3 DEF Begin, TypeOK, Call
      <3>4. ASSUME NEW b \in Admin, Step(b) \/ CallFails(b)
            PROVE  call'[a].prev \in {call[a].prev, registry}
        <4>c. call \in [Admin -> Call]
          BY DEF TypeOK
        <4>1. CASE CheckDirection(b)
          <5>1. PICK ds, pc : call' = [call EXCEPT ![b].left = ds, ![b].pc = pc]
            BY <4>1 DEF CheckDirection
          <5> QED BY <4>c, <5>1 DEF Call
        <4>2. CASE ReadClient(b)
          BY <4>c, <4>2 DEF ReadClient, Call
        <4>3. CASE ReadPrevious(b) \/ ReadForEnabling(b)
          BY <4>c, <4>3 DEF ReadPrevious, ReadForEnabling, Call
        <4>4. ASSUME NEW pc, call' = [call EXCEPT ![b].pc = pc] PROVE call'[a].prev = call[a].prev
          BY <4>c, <4>4 DEF Call
        <4> QED BY <3>4, <4>1, <4>2, <4>3, <4>4 DEF Step, CallFails, ReplaceDocument, InsertDefinition,
                  FindDefinition, UpdateDefinition, Writes, EnableDirections, Audit, BumpLimits
      <3>5. \/ UNCHANGED call
            \/ \E r \in Loader : EndsRefresh(r)
            \/ \E b \in Admin : (\E ask \in RequestOf[b] : Begin(b, ask)) \/ Step(b) \/ CallFails(b)
        <4>1. CASE UNCHANGED vars
          BY <4>1 DEF vars
        <4>2. CASE \E p \in Poll : StartPoll(p)
          BY <4>2 DEF StartPoll
        <4>3. CASE \E r \in Loader : ReadRegistry(r) \/ ReadDefinitions(r) \/ Install(r) \/ RefreshFails(r)
          BY <4>3 DEF ReadRegistry, ReadDefinitions, Install, RefreshFails
        <4>4. CASE \E x \in Txn : Gate(x) \/ StartWaterfall(x) \/ EvaluateNext(x)
          BY <4>4 DEF Gate, StartWaterfall, EvaluateNext
        <4> QED BY <4>1, <4>2, <4>3, <4>4 DEF Next
      <3> QED BY <3>1, <3>2, <3>3, <3>4, <3>5
    <2> QED BY <1>s, <2>1 DEF DocumentsSeen, Seen
  <1> QED BY <1>1, <1>2, <1>3, <1>4 DEF DocumentsSeen, Seen
-----------------------------------------------------------------------------
(* Submissions.                                                            *)

\* A submission works through one registry that was in force, and has passed
\* GLOBAL only under a mandatory definition.
Follows(x) ==
    /\ submission[x].pc \in {"new", "waterfall"} => Used(x) = {}
    /\ submission[x].pc = "dimensions" =>
         /\ <<TxnDirection[x], Used(x) \cup submission[x].left>> \in past
         /\ Global \in Used(x) => HasMandatory(submission[x].used[Global], TxnDirection[x])
    /\ submission[x].pc = "approved" =>
         /\ <<TxnDirection[x], Used(x)>> \in past
         /\ Global \in Used(x)
         /\ HasMandatory(submission[x].used[Global], TxnDirection[x])

SubmissionsFollow == \A x \in Txn : Follows(x)

\* One dimension more of the registry that is being worked through.
LEMMA EvaluatesFollows ==
    ASSUME TypeOK, PastIsGoverned, NEW x \in Txn, NEW left \in Policy,
           cache[Home[x]] # Absent, Evaluates(x, left),
           <<TxnDirection[x], Used(x) \cup left>> \in past,
           Global \in Used(x) => HasMandatory(submission[x].used[Global], TxnDirection[x]),
           past \subseteq past'
    PROVE  Follows(x)'
PROOF
  <1>x. submission[x] \in Submission /\ x \in DOMAIN submission
    BY DEF TypeOK
  <1>g. Global \in Used(x) \cup left /\ Used(x) \subseteq Dimension /\ left \subseteq Dimension
    <2>1. Used(x) \cup left \in Policy
      BY DEF Used, Policy
    <2> QED BY <2>1, Distinct DEF PastIsGoverned, Used, Policy
  <1>1. CASE submission' = [submission EXCEPT ![x].pc = "rejected", ![x].left = {}]
    <2>1. submission'[x].pc = "rejected"
      BY <1>1, <1>x DEF Submission
    <2> QED BY <2>1 DEF Follows
  <1>2. ASSUME NEW dim \in left, Passes(x, dim, cache[Home[x]].definition),
               submission' = [submission EXCEPT ![x] =
                 [pc |-> IF left = {dim} THEN "approved" ELSE "dimensions",
                  left |-> left \ {dim},
                  used |-> [submission[x].used EXCEPT ![dim] = cache[Home[x]].definition]]]
        PROVE  Follows(x)'
    <2> DEFINE defs == cache[Home[x]].definition
    <2>0. submission[x].used \in [Dimension -> Definitions \cup {Unread}]
      BY <1>x DEF Submission
    <2>1. /\ submission'[x].pc = IF left = {dim} THEN "approved" ELSE "dimensions"
          /\ submission'[x].left = left \ {dim}
          /\ submission'[x].used = [submission[x].used EXCEPT ![dim] = defs]
      BY <1>2, <1>x
    <2>2. defs # Unread
      BY EntryType, Distinct
    <2> HIDE DEF defs
    <2>3. dim \in Dimension /\ submission'[x].used[dim] = defs
          /\ \A e \in Dimension \ {dim} : submission'[x].used[e] = submission[x].used[e]
      BY <1>g, <2>0, <2>1
    <2>4. Used(x)' = Used(x) \cup {dim}
      BY <2>2, <2>3 DEF Used
    <2>5. Global \in Used(x)' => HasMandatory(submission'[x].used[Global], TxnDirection[x])
      <3>1. CASE dim = Global
        BY <1>2, <2>3, <3>1 DEF Passes, defs
      <3>2. CASE dim # Global
        BY <2>3, <2>4, <3>2, ConfigPlaneAssumption
      <3> QED BY <3>1, <3>2
    <2>6. CASE left = {dim}
      <3>1. Used(x)' = Used(x) \cup left
        BY <2>4, <2>6
      <3> QED BY <1>g, <2>1, <2>5, <2>6, <3>1 DEF Follows
    <2>7. CASE left # {dim}
      <3>1. Used(x)' \cup submission'[x].left = Used(x) \cup left
        BY <2>1, <2>4
      <3> QED BY <2>1, <2>5, <2>7, <3>1 DEF Follows
    <2> QED BY <2>6, <2>7
  <1> QED BY <1>1, <1>2, EvaluatesStep

\* A submission on which nothing happens goes on following what it followed.
LEMMA OtherSubmissions ==
    ASSUME NEW x \in Txn, Follows(x), submission'[x] = submission[x], past \subseteq past'
    PROVE  Follows(x)'
PROOF
  <1>1. Used(x)' = Used(x)
    BY DEF Used
  <1> QED BY <1>1 DEF Follows

\* Every step of a submission follows the registry it took.
LEMMA FollowsStep ==
    ASSUME TypeOK, CallsProceed, EntriesStay, DocumentsSeen, PastIsGoverned, SubmissionsFollow,
           [Next]_vars
    PROVE  SubmissionsFollow'
PROOF
  <1>p. past \subseteq past'
    BY PastGrows
  <1>1. CASE UNCHANGED submission
    BY <1>1, <1>p, OtherSubmissions DEF SubmissionsFollow
  <1>2. ASSUME NEW x \in Txn, Gate(x) \/ StartWaterfall(x) \/ EvaluateNext(x)
        PROVE  SubmissionsFollow'
    <2>x. submission[x] \in Submission /\ x \in DOMAIN submission
      BY DEF TypeOK
    <2>1. \A y \in Txn \ {x} : submission'[y] = submission[y]
      BY <1>2 DEF Gate, StartWaterfall, EvaluateNext, Evaluates, Ends, TypeOK
    <2>2. Follows(x)'
      <3>1. CASE Gate(x)
        <4>1. /\ submission'[x].pc \in {"waterfall", "rejected"}
              /\ submission'[x].used = submission[x].used
          BY <3>1, <2>x DEF Gate, Submission
        <4>2. Used(x) = {}
          BY <3>1 DEF Gate, SubmissionsFollow, Follows
        <4>3. Used(x)' = {}
          BY <4>1, <4>2 DEF Used
        <4> QED BY <4>1, <4>3 DEF Follows
      <3>2. CASE StartWaterfall(x)
        <4>0. Used(x) = {}
          BY <3>2 DEF StartWaterfall, SubmissionsFollow, Follows
        <4>1. CASE cache[Home[x]] # Absent /\ Declares(cache[Home[x]].registry, TxnDirection[x])
          <5> DEFINE left == cache[Home[x]].registry.directions[TxnDirection[x]]
          <5>1. left \in Policy /\ cache[Home[x]].registry \in Document
            BY <4>1, DeclaredPolicy
          <5>2. Evaluates(x, left)
            BY <3>2, <4>1 DEF StartWaterfall, Snapshot
          <5>3. <<TxnDirection[x], left>> \in past
            BY <4>1, <5>1, ConfigPlaneAssumption DEF DocumentsSeen, Seen, Recorded
          <5> HIDE DEF left
          <5>4. <<TxnDirection[x], Used(x) \cup left>> \in past
            BY <4>0, <5>3
          <5> QED BY <1>p, <4>0, <4>1, <5>1, <5>2, <5>4, EvaluatesFollows
        <4>2. CASE ~(cache[Home[x]] # Absent /\ Declares(cache[Home[x]].registry, TxnDirection[x]))
          <5>1. submission'[x].pc = "rejected"
            BY <3>2, <4>2, <2>x DEF StartWaterfall, Snapshot, Ends, Submission
          <5> QED BY <5>1 DEF Follows
        <4> QED BY <4>1, <4>2
      <3>3. CASE EvaluateNext(x)
        <4>1. submission[x].left \in Policy /\ submission[x].pc = "dimensions"
          BY <3>3, <2>x DEF EvaluateNext, Submission
        <4> QED BY <1>p, <3>3, <4>1, EvaluatesFollows
                DEF EvaluateNext, EntriesStay, SubmissionsFollow, Follows
      <3> QED BY <1>2, <3>1, <3>2, <3>3
    <2> QED BY <1>p, <2>1, <2>2, OtherSubmissions DEF SubmissionsFollow
  <1>3. (UNCHANGED submission) \/ \E x \in Txn : Gate(x) \/ StartWaterfall(x) \/ EvaluateNext(x)
    BY DEF Next, vars, StartPoll, ReadRegistry, ReadDefinitions, Install, RefreshFails, Begin, Step,
         CallFails, ReadPrevious, ReplaceDocument, InsertDefinition, FindDefinition,
         UpdateDefinition, Writes, ReadClient, ReadForEnabling, CheckDirection, EnableDirections,
         Audit, BumpLimits
  <1> QED BY <1>1, <1>2, <1>3

\* No instance ever gives up the entry of a client.
LEMMA EntriesStep ==
    ASSUME TypeOK, EntriesStay, [Next]_vars
    PROVE  EntriesStay'
PROOF
  <1>h. \A x \in Txn : Home[x] \in Instance
    BY ConfigPlaneAssumption
  <1>1. ASSUME NEW i \in Instance, cache[i] # Absent PROVE cache'[i] # Absent
    <2>1. CASE UNCHANGED cache
      BY <1>1, <2>1
    <2>2. ASSUME NEW r \in Loader, Install(r) PROVE cache'[i] # Absent
      <3>1. load[r].registry \in Document \cup {Absent} /\ load[r].definition \in Definitions
        BY <2>2 DEF Install, Loaded, TypeOK
      <3>2. Entry(r) # Absent
        BY <3>1, ConfigPlaneAssumption DEF Entry, CacheEntry
      <3> QED BY <1>1, <2>2, <3>2 DEF Install, TypeOK
    <2> QED BY <2>1, <2>2 DEF Next, vars, StartPoll, ReadRegistry, ReadDefinitions, RefreshFails, Begin,
              Step, CallFails, ReadPrevious, ReplaceDocument, InsertDefinition, FindDefinition,
              UpdateDefinition, Writes, ReadClient, ReadForEnabling, CheckDirection,
              EnableDirections, Audit, BumpLimits, Gate, StartWaterfall, EvaluateNext
  <1>2. ASSUME NEW x \in Txn, submission'[x].pc = "dimensions"
        PROVE  cache[Home[x]] # Absent
    <2>1. CASE submission'[x] = submission[x]
      BY <1>2, <2>1 DEF EntriesStay
    <2>2. ASSUME NEW y \in Txn, Gate(y), y = x PROVE FALSE
      BY <1>2, <2>2 DEF Gate, TypeOK, Submission
    <2>3. ASSUME NEW y \in Txn, StartWaterfall(y), y = x, cache[Home[x]] = Absent PROVE FALSE
      BY <1>2, <2>3 DEF StartWaterfall, Snapshot, Ends, TypeOK, Submission
    <2>4. ASSUME NEW y \in Txn, EvaluateNext(y), y = x PROVE cache[Home[x]] # Absent
      BY <2>4 DEF EvaluateNext, EntriesStay
    <2>5. ASSUME NEW y \in Txn, y # x, Gate(y) \/ StartWaterfall(y) \/ EvaluateNext(y)
          PROVE  submission'[x] = submission[x]
      BY <2>5 DEF Gate, StartWaterfall, EvaluateNext, Evaluates, Ends, TypeOK
    <2>6. (UNCHANGED submission) \/ \E y \in Txn : Gate(y) \/ StartWaterfall(y) \/ EvaluateNext(y)
      BY DEF Next, vars, StartPoll, ReadRegistry, ReadDefinitions, Install, RefreshFails, Begin, Step,
           CallFails, ReadPrevious, ReplaceDocument, InsertDefinition, FindDefinition,
           UpdateDefinition, Writes, ReadClient, ReadForEnabling, CheckDirection,
           EnableDirections, Audit, BumpLimits
    <2> QED BY <2>1, <2>2, <2>3, <2>4, <2>5, <2>6
  <1> QED BY <1>h, <1>1, <1>2 DEF EntriesStay
-----------------------------------------------------------------------------
(* Directions.                                                             *)

\* What a direction must have had before it is enabled.
WasReady(d) ==
    /\ \E p \in Policy : Global \in p /\ <<d, p>> \in past
    /\ \E m \in Mandatory : DirectionOf[m] = d /\ definition[m].version > 0

\* A definition that exists has been written.
Versioned == \A d \in Definition : definition[d].state # "none" => definition[d].version > 0

\* The directions a call will enable, but for those it still has to look at,
\* have been ready, whatever other calls have done since it read the client.
Vetted(a) ==
    call[a].pc \in {"registry", "check", "write"} /\ call[a].ask.op = "enable" =>
        \A d \in call[a].ask.directions \ call[a].left : d \in Enabled0 \/ WasReady(d)

CallsVetted == \A a \in Admin : Vetted(a)

\* What was ready once was ready once.
LEMMA ReadyStays ==
    ASSUME TypeOK, CallsProceed, [Next]_vars, NEW d, WasReady(d)
    PROVE  WasReady(d)'
PROOF
  <1>1. Mandatory \subseteq Definition
    BY ConfigPlaneAssumption
  <1> QED BY <1>1, PastGrows DEF WasReady

\* Every write raises the version.
LEMMA VersionedStep ==
    ASSUME TypeOK, Versioned, [Next]_vars
    PROVE  Versioned'
PROOF
  <1>1. CASE UNCHANGED definition
    BY <1>1 DEF Versioned
  <1>2. ASSUME NEW a \in Admin, NEW e, NEW state, Writes(a, e, state)
        PROVE  Versioned'
    <2>1. definition \in [Definition -> [state : {"none", "active", "inactive"}, version : Nat]]
      BY DEF TypeOK, Definitions
    <2> QED BY <1>2, <2>1 DEF Writes, Versioned
  <1> QED BY <1>1, <1>2 DEF Next, vars, store, StartPoll, ReadRegistry, ReadDefinitions, Install,
            RefreshFails, Begin, Step, CallFails, ReadPrevious, ReplaceDocument, InsertDefinition,
            FindDefinition, UpdateDefinition, ReadClient, ReadForEnabling, CheckDirection,
            EnableDirections, Audit, BumpLimits, Gate, StartWaterfall, EvaluateNext

\* A direction that passes the check has been ready.
LEMMA ReadyWasReady ==
    ASSUME TypeOK, Versioned, DocumentsSeen, NEW doc \in Document \cup {Absent}, Seen(doc),
           NEW d \in Direction, Ready(doc, d)
    PROVE  WasReady(d)
PROOF
  <1>1. doc \in Document /\ doc.directions[d] \in Policy /\ Global \in doc.directions[d]
    BY DEF Ready, Declares, Document
  <1>2. <<d, doc.directions[d]>> \in past
    BY <1>1 DEF Seen, Recorded
  <1>3. PICK m \in Mandatory : DirectionOf[m] = d /\ definition[m].state = "active"
    BY DEF Ready, HasMandatory
  <1>4. definition[m].version > 0
    BY <1>3, ConfigPlaneAssumption DEF Versioned
  <1> QED BY <1>1, <1>2, <1>3, <1>4 DEF WasReady

\* A call vets every direction it enables.
LEMMA VettedStep ==
    ASSUME TypeOK, CallsProceed, DocumentsSeen, Versioned, CallsVetted, EnabledWasReady, [Next]_vars
    PROVE  CallsVetted' /\ EnabledWasReady'
PROOF
  <1>c. call \in [Admin -> Call]
    BY DEF TypeOK
  <1>w. \A d : WasReady(d) => WasReady(d)'
    BY ReadyStays
  <1>e. \A d \in enabled \ Enabled0 : WasReady(d)
    BY DEF EnabledWasReady, WasReady
  <1>k. ASSUME NEW a \in Admin, call'[a].ask = call[a].ask, call'[a].left = call[a].left,
               call[a].pc \in {"registry", "check", "write"} \/ call[a].ask.op # "enable"
        PROVE  Vetted(a)'
    BY <1>k, <1>w DEF CallsVetted, Vetted
  <1>n. ASSUME NEW a \in Admin, call'[a].pc \notin {"registry", "check", "write"}
        PROVE  Vetted(a)'
    BY <1>n DEF Vetted
  <1>s. ASSUME NEW a \in Admin, call'[a] = call[a] PROVE Vetted(a)'
    BY <1>s, <1>w DEF CallsVetted, Vetted
  <1>1. ASSUME NEW a \in Admin, Step(a) PROVE Vetted(a)'
    <2>1. CASE ReadPrevious(a) \/ ReplaceDocument(a) \/ UpdateDefinition(a) \/ FindDefinition(a)
      <3>1. call'[a].ask = call[a].ask /\ call'[a].left = call[a].left /\ call[a].ask.op # "enable"
        BY <1>c, <2>1 DEF ReadPrevious, ReplaceDocument, UpdateDefinition, FindDefinition, Writes,
             Asks, Call
      <3> QED BY <1>k, <3>1
    <2>2. CASE InsertDefinition(a) \/ EnableDirections(a) \/ Audit(a) \/ BumpLimits(a)
      <3>1. call'[a].pc \notin {"registry", "check", "write"}
        BY <1>c, <2>2 DEF InsertDefinition, EnableDirections, Audit, BumpLimits, Writes, Call
      <3> QED BY <1>n, <3>1
    <2>3. CASE ReadClient(a)
      <3>1. call'[a].ask = call[a].ask /\ call'[a].left = call[a].ask.directions \ enabled
        BY <1>c, <2>3 DEF ReadClient, Call
      <3> QED BY <1>e, <1>w, <3>1 DEF Vetted
    <2>4. CASE ReadForEnabling(a)
      <3>1. call'[a].ask = call[a].ask /\ call'[a].left = call[a].left /\ call[a].pc = "registry"
        BY <1>c, <2>4 DEF ReadForEnabling, At, Call
      <3> QED BY <1>k, <3>1
    <2>5. CASE CheckDirection(a)
      <3>1. PICK d \in call[a].left :
              call' = [call EXCEPT ![a].left = call[a].left \ {d},
                         ![a].pc = IF ~Ready(call[a].prev, d) THEN "refused"
                                   ELSE IF call[a].left \ {d} = {} THEN "write" ELSE "check"]
        BY <2>5 DEF CheckDirection
      <3>2. /\ call'[a].ask = call[a].ask /\ call'[a].left = call[a].left \ {d}
            /\ ~Ready(call[a].prev, d) => call'[a].pc = "refused"
        BY <1>c, <3>1 DEF Call
      <3>3. CASE ~Ready(call[a].prev, d)
        BY <1>n, <3>2, <3>3
      <3>4. CASE Ready(call[a].prev, d)
        <4>1. call[a].pc = "check" /\ call[a].ask.op = "enable"
              /\ call[a].prev \in Document \cup {Absent} /\ d \in Direction
          BY <2>5, CallFields DEF CheckDirection, At, CallsProceed, Proceeds
        <4>2. WasReady(d)
          BY <3>4, <4>1, ReadyWasReady DEF DocumentsSeen
        <4>3. \A e \in call[a].ask.directions \ call[a].left : e \in Enabled0 \/ WasReady(e)
          BY <4>1 DEF CallsVetted, Vetted
        <4> QED BY <1>w, <3>2, <4>2, <4>3 DEF Vetted
      <3> QED BY <3>3, <3>4
    <2> QED BY <1>1, <2>1, <2>2, <2>3, <2>4, <2>5 DEF Step
  <1>2. ASSUME NEW a \in Admin, CallFails(a) \/ \E ask \in RequestOf[a] : Begin(a, ask)
        PROVE  Vetted(a)'
    <2>1. CASE CallFails(a)
      <3>1. call'[a].pc = "failed"
        BY <1>c, <2>1 DEF CallFails
      <3> QED BY <1>n, <3>1
    <2>2. ASSUME NEW ask \in RequestOf[a], Begin(a, ask) PROVE Vetted(a)'
      <3>1. call'[a].pc \in {"read", "refused"}
        BY <1>c, <2>2 DEF Begin
      <3> QED BY <1>n, <3>1
    <2> QED BY <1>2, <2>1, <2>2
  <1>3. CallsVetted'
    <2>1. CASE UNCHANGED call
      BY <1>s, <2>1 DEF CallsVetted
    <2>2. ASSUME NEW r \in Loader, EndsRefresh(r) PROVE CallsVetted'
      <3>1. \A a \in Admin : call'[a] = call[a] \/ call'[a].pc = "done"
        BY <1>c, <2>2 DEF EndsRefresh, Call
      <3> QED BY <1>s, <1>n, <3>1 DEF CallsVetted
    <2>3. ASSUME NEW a \in Admin, Step(a) \/ CallFails(a) \/ \E ask \in RequestOf[a] : Begin(a, ask)
          PROVE  CallsVetted'
      <3>1. \A b \in Admin \ {a} : call'[b] = call[b]
        BY <2>3 DEF TypeOK, Step, CallFails, Begin, ReadPrevious, ReplaceDocument, InsertDefinition,
             FindDefinition, UpdateDefinition, Writes, ReadClient, ReadForEnabling,
             CheckDirection, EnableDirections, Audit, BumpLimits
      <3> QED BY <1>s, <1>1, <1>2, <2>3, <3>1 DEF CallsVetted
    <2> QED BY <2>1, <2>2, <2>3 DEF Next, vars, StartPoll, ReadRegistry, ReadDefinitions, Install,
              RefreshFails, Gate, StartWaterfall, EvaluateNext
  <1>4. EnabledWasReady'
    <2>1. \A d \in enabled' \ Enabled0 : WasReady(d)
      <3>1. CASE UNCHANGED enabled
        BY <1>e, <3>1
      <3>2. ASSUME NEW a \in Admin, EnableDirections(a)
            PROVE  \A d \in enabled' \ Enabled0 : WasReady(d)
        BY <3>2 DEF EnableDirections, At, Asks, CallsProceed, Proceeds, CallsVetted, Vetted
      <3> QED BY <3>1, <3>2 DEF Next, vars, store, StartPoll, ReadRegistry, ReadDefinitions, Install,
                RefreshFails, Begin, Step, CallFails, ReadPrevious, ReplaceDocument,
                InsertDefinition, FindDefinition, UpdateDefinition, Writes, ReadClient,
                ReadForEnabling, CheckDirection, Audit, BumpLimits, Gate, StartWaterfall,
                EvaluateNext
    <2> QED BY <1>w, <2>1 DEF EnabledWasReady, WasReady
  <1> QED BY <1>3, <1>4
-----------------------------------------------------------------------------
(* The theorems.                                                           *)

IInv ==
    /\ TypeOK /\ CallsProceed /\ EntriesStay /\ DocumentsSeen /\ PastIsGoverned
    /\ SubmissionsFollow /\ Versioned /\ CallsVetted /\ EnabledWasReady

\* All of it holds at the start ...
LEMMA InitInvariant == Init => IInv
PROOF
  <1> SUFFICES ASSUME Init PROVE IInv
    OBVIOUS
  <1>1. registry \in Document \cup {Absent} /\ definition \in Definitions
    BY ConfigPlaneAssumption DEF Init, Definitions
  <1>2. past \subseteq Direction \X (Policy \cup {Absent})
    BY ConfigPlaneAssumption DEF Init, Document
  <1>3. Stored \in CacheEntry
    BY <1>1 DEF Stored, CacheEntry
  <1>4. Blank \in [busy : BOOLEAN, registry : Document \cup {Absent, Unread},
                   definition : Definitions \cup {Unread}]
    BY DEF Blank
  <1>5. Waiting \in Call
    BY DEF Waiting, Call
  <1>6. New \in Submission
    BY DEF New, Submission, Policy
  <1>7. enabled \subseteq Direction
    BY ConfigPlaneAssumption DEF Init
  <1>8. TypeOK
    BY <1>1, <1>2, <1>3, <1>4, <1>5, <1>6, <1>7 DEF Init, TypeOK
  <1>9. CallsProceed /\ CallsVetted
    BY DEF Init, CallsProceed, Proceeds, CallsVetted, Vetted, Waiting, Blank, Loader
  <1>10. EntriesStay /\ SubmissionsFollow
    BY DEF Init, EntriesStay, SubmissionsFollow, Follows, Used, New
  <1>11. Seen(registry) /\ PastIsGoverned
    <2>1. CASE Registry0 = Absent
      BY <2>1, Distinct DEF Init, Seen, Recorded, PastIsGoverned
    <2>2. CASE Registry0 # Absent
      BY <2>2, ConfigPlaneAssumption DEF Init, Seen, Recorded, PastIsGoverned
    <2> QED BY <2>1, <2>2
  <1>12. DocumentsSeen
    BY <1>11, Distinct DEF Init, DocumentsSeen, Seen, Recorded, Stored, Blank, Waiting
  <1>13. Versioned /\ EnabledWasReady
    BY DEF Init, Versioned, EnabledWasReady
  <1> QED BY <1>8, <1>9, <1>10, <1>11, <1>12, <1>13 DEF IInv

\* ... and is kept by every step.
LEMMA InvariantStep == IInv /\ [Next]_vars => IInv'
PROOF BY StepType, CallsStep, EntriesStep, SeenStep, FollowsStep, VersionedStep, VettedStep DEF IInv

\* So it holds all the time.
LEMMA Invariance == Spec => []IInv
PROOF BY InitInvariant, InvariantStep, PTL DEF Spec

\* The types hold: every stored or cached document has both its versions.
THEOREM TypeCorrect == Spec => []TypeOK
PROOF BY Invariance, PTL DEF IInv

\* No submission is approved ungoverned, however stale the caches and however
\* the admin calls, their failures and the polls interleave.
THEOREM ApprovalIsGoverned == Spec => []ApprovedIsGoverned
PROOF
  <1>1. IInv => ApprovedIsGoverned
    BY DEF IInv, SubmissionsFollow, Follows, ApprovedIsGoverned
  <1> QED BY <1>1, Invariance, PTL

\* An approved submission was evaluated against the dimensions of one registry
\* that was in force, though its cache entry may have been replaced meanwhile.
THEOREM OneRegistryIsApplied == Spec => []OneRegistryApplied
PROOF
  <1>1. IInv => OneRegistryApplied
    BY DEF IInv, SubmissionsFollow, Follows, OneRegistryApplied
  <1> QED BY <1>1, Invariance, PTL

\* Every enabled direction has had a registry with GLOBAL and a mandatory
\* definition, though setEnabledDirections looks at them one by one and writes
\* the whole list over what other calls have made of it.
THEOREM EnabledDirectionsWereReady == Spec => []EnabledWasReady
PROOF BY Invariance, PTL DEF IInv

\* A refresh that has not seen a client without a registry takes no registry
\* away.
LEMMA InstallServes ==
    ASSUME IInv, [Next]_vars, NEW i \in Instance, Serves(cache[i]),
           \A r \in Loader : Home[r] = i => load[r].registry # Absent
    PROVE  Serves(cache'[i])
PROOF
  <1>1. CASE UNCHANGED cache
    BY <1>1
  <1>2. ASSUME NEW r \in Loader, Install(r) PROVE Serves(cache'[i])
    <2>1. load[r].registry \in Document \cup {Absent} /\ load[r].definition \in Definitions
      BY <1>2 DEF Install, Loaded, IInv, TypeOK
    <2>2. Entry(r) # Absent /\ Entry(r).registry = load[r].registry
      BY <2>1, ConfigPlaneAssumption DEF Entry, CacheEntry
    <2>3. cache'[i] = IF i = Home[r] THEN Entry(r) ELSE cache[i]
      BY <1>2 DEF Install, IInv, TypeOK
    <2> QED BY <2>2, <2>3 DEF Serves
  <1> QED BY <1>1, <1>2 DEF Next, vars, StartPoll, ReadRegistry, ReadDefinitions, RefreshFails, Begin,
            Step, CallFails, ReadPrevious, ReplaceDocument, InsertDefinition, FindDefinition,
            UpdateDefinition, Writes, ReadClient, ReadForEnabling, CheckDirection,
            EnableDirections, Audit, BumpLimits, Gate, StartWaterfall, EvaluateNext

\* The last known good snapshot stays in force.
THEOREM LastGoodIsKept == Spec => LastGoodStays
PROOF
  <1>1. IInv /\ [Next]_vars =>
          [\A i \in Instance :
             /\ Serves(cache[i])
             /\ \A r \in Loader : Home[r] = i => load[r].registry # Absent
             => Serves(cache'[i])]_vars
    BY InstallServes
  <1> QED BY <1>1, Invariance, PTL DEF Spec, LastGoodStays

\* Nobody finds a client that has a registry without one.
ClientIsConfigured == registry # Absent /\ \A r \in Loader : load[r].registry # Absent

\* A registry is replaced, never removed.
LEMMA ConfiguredStep ==
    ASSUME IInv, ClientIsConfigured, [Next]_vars
    PROVE  ClientIsConfigured'
PROOF
  <1>1. registry' # Absent
    <2>1. CASE UNCHANGED registry
      BY <2>1 DEF ClientIsConfigured
    <2>2. ASSUME NEW a \in Admin, ReplaceDocument(a) PROVE registry' # Absent
      <3>1. call[a].ask \in Request /\ call[a].ask.op = "replace"
        BY <2>2, AskType DEF IInv, ReplaceDocument, At, Asks, CallsProceed, Proceeds
      <3>2. call[a].prev \in Document \cup {Absent}
        BY <2>2, <3>1, CallFields DEF IInv, ReplaceDocument, CallsProceed, Proceeds, At
      <3> QED BY <2>2, <3>1, <3>2, NextDocumentType, Distinct DEF ReplaceDocument
    <2>3. ASSUME NEW a \in Admin, BumpLimits(a) PROVE registry' # Absent
      <3>1. registry \in Document
        BY DEF ClientIsConfigured, IInv, TypeOK
      <3>2. registry' = [registry EXCEPT !.limits = registry.limits + 1]
        BY <2>3 DEF BumpLimits, ClientIsConfigured
      <3>3. registry' \in Document
        BY <3>1, <3>2 DEF Document
      <3> QED BY <3>3, Distinct
    <2> QED BY <2>1, <2>2, <2>3 DEF Next, vars, store, StartPoll, ReadRegistry, ReadDefinitions, Install,
              RefreshFails, Begin, Step, CallFails, ReadPrevious, InsertDefinition,
              FindDefinition, UpdateDefinition, Writes, ReadClient, ReadForEnabling,
              CheckDirection, EnableDirections, Audit, Gate, StartWaterfall, EvaluateNext
  <1>2. \A r \in Loader : load'[r].registry # Absent
    BY LoadReads, Distinct DEF ClientIsConfigured, IInv
  <1> QED BY <1>1, <1>2 DEF ClientIsConfigured

\* For a client that was configured before, no instance that enforces its registry
\* is ever left without one, by any failed, late or overlapping refresh.
THEOREM ConfiguredClientsAreServed ==
    ASSUME Registry0 # Absent
    PROVE  Spec => [][\A i \in Instance : Serves(cache[i]) => Serves(cache'[i])]_vars
PROOF
  <1>1. Init => ClientIsConfigured
    BY Distinct DEF Init, ClientIsConfigured, Blank
  <1>2. Spec => []ClientIsConfigured
    <2>1. IInv /\ ClientIsConfigured /\ [Next]_vars => ClientIsConfigured'
      BY ConfiguredStep
    <2> QED BY <1>1, <2>1, Invariance, PTL DEF Spec
  <1>3. IInv /\ ClientIsConfigured /\ [Next]_vars =>
          [\A i \in Instance : Serves(cache[i]) => Serves(cache'[i])]_vars
    BY InstallServes DEF ClientIsConfigured
  <1> QED BY <1>2, <1>3, Invariance, PTL DEF Spec
=============================================================================
