----------------------------- MODULE ConfigPlane -----------------------------
(***************************************************************************)
(* The configuration of one client: its registry document, which declares  *)
(* per direction the dimensions that are enforced, its limit definitions,  *)
(* the directions it may use, and the copy of the first two that every     *)
(* instance of the service keeps in its ConfigCache.                       *)
(*                                                                         *)
(* Admin calls read the store, then write it, then record an audit entry,  *)
(* then bump a version and refresh the cache of their own instance; other  *)
(* instances learn of a change by polling.  A refresh reads the registry   *)
(* and the definitions independently and installs them together later.     *)
(* Submissions on each instance meanwhile decide by what its cache holds.   *)
(***************************************************************************)
EXTENDS Integers, FiniteSets

CONSTANTS
    Instance, Direction,
    Dimension, Global,       \* dimension codes, and the mandatory one
    Definition, DirectionOf,
    Mandatory,               \* the Global Per-Transaction definitions
    Admin, RequestOf,        \* admin calls, and what each may ask for
    Poll,                    \* poll cycles; two of one instance may overlap
    Txn, TxnDirection,
    Home,                    \* the instance of a call, a cycle, a submission
    Enabled0, Registry0, Active0, Warmed,  \* what is there at the start
    Absent, Unread,
    Faults

Policy == SUBSET Dimension
Document == [config : Nat, limits : Nat, directions : [Direction -> Policy \cup {Absent}]]
Definitions == [Definition -> [state : {"none", "active", "inactive"}, version : Nat]]
CacheEntry == [registry : Document \cup {Absent}, definition : Definitions]
Request == [op : {"replace"}, direction : Direction, policy : Policy]
           \cup [op : {"create", "deactivate"}, definition : Definition]
           \cup [op : {"update"}, definition : Definition, state : {"active", "inactive"}]
           \cup [op : {"enable"}, directions : SUBSET Direction]

ASSUME ConfigPlaneAssumption ==
    /\ Global \in Dimension
    /\ DirectionOf \in [Definition -> Direction] /\ Mandatory \subseteq Definition
    /\ TxnDirection \in [Txn -> Direction] /\ Admin \cap Poll = {}
    /\ Home \in [Admin \cup Poll \cup Txn -> Instance]
    /\ Enabled0 \subseteq Direction /\ Active0 \subseteq Definition /\ Warmed \subseteq Instance
    /\ RequestOf \in [Admin -> SUBSET Request]
    /\ Registry0 \in Document \cup {Absent}
    /\ Registry0 # Absent => \A d \in Direction : Registry0.directions[d] # Absent
                                => Global \in Registry0.directions[d]
    /\ Absent \notin Document \cup CacheEntry /\ \A p \in Policy : p # Absent
    /\ Unread \notin Document \cup Definitions \cup Request \cup {Absent}

Loader == Admin \cup Poll

VARIABLES
    registry,    \* the clientConfigs document, or Absent
    definition,  \* Definition -> its limits document
    enabled,     \* clients.enabledDirections
    cache,       \* Instance -> its entry for the client, or Absent
    load,        \* Loader -> the local state of a refreshOne
    call,        \* Admin -> the local state of an admin call
    submission,  \* Txn -> the local state of a submission
    past         \* history: every <<direction, policy>> the store has held

vars == <<registry, definition, enabled, cache, load, call, submission, past>>
store == <<registry, definition, enabled, past>>

Stored == [registry |-> registry, definition |-> definition]
Blank == [busy |-> FALSE, registry |-> Unread, definition |-> Unread]
Started == [Blank EXCEPT !.busy = TRUE]
Waiting == [pc |-> "idle", ask |-> Unread, prev |-> Unread, left |-> {}]
New == [pc |-> "new", left |-> {}, used |-> [dim \in Dimension |-> Unread]]

Init ==
    /\ registry = Registry0
    /\ definition = [d \in Definition |-> IF d \in Active0
                       THEN [state |-> "active", version |-> 1]
                       ELSE [state |-> "none", version |-> 0]]
    /\ enabled = Enabled0
    /\ cache = [i \in Instance |-> IF i \in Warmed THEN Stored ELSE Absent]
    /\ load = [r \in Loader |-> Blank]
    /\ call = [a \in Admin |-> Waiting]
    /\ submission = [x \in Txn |-> New]
    /\ past = IF Registry0 = Absent THEN {}
              ELSE {<<d, Registry0.directions[d]>> : d \in Direction}
-----------------------------------------------------------------------------
(* refreshOne.                                                             *)

\* The poll of an instance refreshes the clients it has an entry of, whether
\* its previous cycle is over or not.
StartPoll(p) ==
    /\ ~load[p].busy
    /\ cache[Home[p]] # Absent
    /\ load' = [load EXCEPT ![p] = Started]
    /\ UNCHANGED <<store, cache, call, submission>>

ReadRegistry(r) ==
    /\ load[r].busy /\ load[r].registry = Unread
    /\ load' = [load EXCEPT ![r].registry = registry]
    /\ UNCHANGED <<store, cache, call, submission>>

ReadDefinitions(r) ==
    /\ load[r].busy /\ load[r].definition = Unread
    /\ load' = [load EXCEPT ![r].definition = definition]
    /\ UNCHANGED <<store, cache, call, submission>>

Loaded(r) == load[r].busy /\ load[r].registry # Unread /\ load[r].definition # Unread

\* The refresh of an admin call is the last thing the call does.
EndsRefresh(r) ==
    /\ load' = [load EXCEPT ![r] = Blank]
    /\ call' = IF r \in Admin THEN [call EXCEPT ![r].pc = "done"] ELSE call

Entry(r) == [registry |-> load[r].registry, definition |-> load[r].definition]

\* Mutant: a poll reloads only what has a higher version than the entry.
InstallNewer(r) ==
    LET old == cache[Home[r]]  new == load[r].registry IN
    /\ Loaded(r)
    /\ cache' = IF /\ r \in Poll /\ old # Absent
                   /\ old.registry # Absent /\ new # Absent
                   /\ new.config <= old.registry.config /\ new.limits <= old.registry.limits
                THEN cache ELSE [cache EXCEPT ![Home[r]] = Entry(r)]
    /\ EndsRefresh(r)
    /\ UNCHANGED <<store, submission>>

\* Both have been read: one Map.set(), whatever the entry is by now.
Install(r) ==
    /\ Loaded(r)
    /\ cache' = [cache EXCEPT ![Home[r]] = Entry(r)]
    /\ EndsRefresh(r)
    /\ UNCHANGED <<store, submission>>

\* Mutant: a refresh that fails leaves the client without an entry.
RefreshFailsEmpty(r) ==
    /\ "refresh" \in Faults
    /\ Loaded(r)
    /\ cache' = [cache EXCEPT ![Home[r]] = Absent]
    /\ EndsRefresh(r)
    /\ UNCHANGED <<store, submission>>

\* One of the reads failed: the error is logged, and the entry stays.
RefreshFails(r) ==
    /\ "refresh" \in Faults
    /\ Loaded(r)
    /\ EndsRefresh(r)
    /\ UNCHANGED <<store, cache, submission>>
-----------------------------------------------------------------------------
(* The admin calls: what they ask for is a record with the field op.       *)

Asks(a, op) == call[a].pc # "idle" /\ call[a].ask.op = op

At(a, pc) == call[a].pc = pc

\* validateAndNormalizeRegistry refuses a list without the GLOBAL dimension.
Valid(ask) == ask.op = "replace" => Global \in ask.policy

\* The call arrives and its payload is validated.
Begin(a, ask) ==
    /\ At(a, "idle")
    /\ call' = [call EXCEPT ![a].ask = ask, ![a].pc = IF Valid(ask) THEN "read" ELSE "refused"]
    /\ UNCHANGED <<store, cache, load, submission>>

\* replaceRegistry reads the whole document of the client.
ReadPrevious(a) ==
    /\ At(a, "read") /\ Asks(a, "replace")
    /\ call' = [call EXCEPT ![a].pc = "write", ![a].prev = registry]
    /\ UNCHANGED <<store, cache, load, submission>>

NoDirections == [d \in Direction |-> Absent]

\* Mutant: the new document is built without its limitsVersion.
NextDocumentNoLimits(ask, prev) ==
    [config |-> IF prev = Absent THEN 1 ELSE prev.config + 1, limits |-> Absent,
     directions |-> [(IF prev = Absent THEN NoDirections ELSE prev.directions)
                       EXCEPT ![ask.direction] = ask.policy]]

\* The document built from what was read: the one direction replaced.
NextDocument(ask, prev) ==
    LET old == IF prev = Absent
               THEN [config |-> 0, limits |-> 0, directions |-> NoDirections] ELSE prev
    IN  [old EXCEPT !.config = @ + 1, !.directions[ask.direction] = ask.policy]

\* ... and $set over whatever the store holds by now.
ReplaceDocument(a) ==
    /\ At(a, "write") /\ Asks(a, "replace")
    /\ registry' = NextDocument(call[a].ask, call[a].prev)
    /\ past' = past \cup {<<d, registry'.directions[d]>> : d \in Direction}
    /\ call' = [call EXCEPT ![a].pc = "audit"]
    /\ UNCHANGED <<definition, enabled, cache, load, submission>>

Writes(a, d, state) ==
    /\ definition' = [definition EXCEPT ![d] = [state |-> state, version |-> @.version + 1]]
    /\ call' = [call EXCEPT ![a].pc = "audit"]
    /\ UNCHANGED <<registry, enabled, past, cache, load, submission>>

\* createDefinition inserts a new document.
InsertDefinition(a) ==
    LET d == call[a].ask.definition IN
    /\ At(a, "read") /\ Asks(a, "create")
    /\ definition[d].state = "none"
    /\ Writes(a, d, "active")

\* updateDefinition and deactivateDefinition look for the document; there is
\* nothing to do where it is not there, or is already inactive.
FindDefinition(a) ==
    LET found == definition[call[a].ask.definition].state IN
    /\ At(a, "read") /\ (Asks(a, "update") \/ Asks(a, "deactivate"))
    /\ call' = [call EXCEPT ![a].pc =
                  IF found = "none" THEN "refused"
                  ELSE IF Asks(a, "deactivate") /\ found = "inactive" THEN "done" ELSE "write"]
    /\ UNCHANGED <<store, cache, load, submission>>

\* $set of the state, $inc of the version.
UpdateDefinition(a) ==
    /\ At(a, "write") /\ (Asks(a, "update") \/ Asks(a, "deactivate"))
    /\ Writes(a, call[a].ask.definition,
              IF Asks(a, "deactivate") THEN "inactive" ELSE call[a].ask.state)

\* setEnabledDirections: the directions that are new are looked at first.
ReadClient(a) ==
    LET new == call[a].ask.directions \ enabled IN
    /\ At(a, "read") /\ Asks(a, "enable")
    /\ call' = [call EXCEPT ![a].left = new,
                            ![a].pc = IF new = {} THEN "write" ELSE "registry"]
    /\ UNCHANGED <<store, cache, load, submission>>

ReadForEnabling(a) ==
    /\ At(a, "registry")
    /\ call' = [call EXCEPT ![a].pc = "check", ![a].prev = registry]
    /\ UNCHANGED <<store, cache, load, submission>>

Declares(doc, d) == doc # Absent /\ doc.directions[d] # Absent

HasMandatory(defs, d) ==
    \E m \in Mandatory : DirectionOf[m] = d /\ defs[m].state = "active"

\* Mutant: it is enough that the direction has a registry.
ReadyRegistryOnly(doc, d) == Declares(doc, d) /\ Global \in doc.directions[d]

\* A registry with GLOBAL in it, and an active mandatory definition.
Ready(doc, d) ==
    Declares(doc, d) /\ Global \in doc.directions[d] /\ HasMandatory(definition, d)

\* One of the new directions, whose definitions are read for it.
CheckDirection(a) ==
    /\ At(a, "check")
    /\ \E d \in call[a].left :
        LET left == call[a].left \ {d} IN
        call' = [call EXCEPT ![a].left = left,
                   ![a].pc = IF ~Ready(call[a].prev, d) THEN "refused"
                             ELSE IF left = {} THEN "write" ELSE "check"]
    /\ UNCHANGED <<store, cache, load, submission>>

EnableDirections(a) ==
    /\ At(a, "write") /\ Asks(a, "enable")
    /\ enabled' = call[a].ask.directions
    /\ call' = [call EXCEPT ![a].pc = "audit"]
    /\ UNCHANGED <<registry, definition, past, cache, load, submission>>

\* The audit entry is recorded; the client's directions are not cached.
Audit(a) ==
    /\ At(a, "audit")
    /\ call' = [call EXCEPT ![a].pc = IF Asks(a, "replace") THEN "refresh"
                                      ELSE IF Asks(a, "enable") THEN "done" ELSE "bump"]
    /\ load' = IF Asks(a, "replace") THEN [load EXCEPT ![a] = Started] ELSE load
    /\ UNCHANGED <<store, cache, submission>>

\* bumpLimitsVersion does nothing where there is no registry document.
BumpLimits(a) ==
    /\ At(a, "bump")
    /\ registry' = IF registry = Absent THEN Absent ELSE [registry EXCEPT !.limits = @ + 1]
    /\ call' = [call EXCEPT ![a].pc = "refresh"]
    /\ load' = [load EXCEPT ![a] = Started]
    /\ UNCHANGED <<definition, enabled, past, cache, submission>>

\* An operation of the call throws, or its instance dies under it: what it
\* has written stays, and nothing of what should follow is done.
CallFails(a) ==
    /\ "call" \in Faults
    /\ call[a].pc \notin {"idle", "refresh", "done", "refused", "failed"}
    /\ call' = [call EXCEPT ![a].pc = "failed"]
    /\ UNCHANGED <<store, cache, load, submission>>

Step(a) ==
    \/ ReadPrevious(a) \/ ReplaceDocument(a)
    \/ InsertDefinition(a) \/ FindDefinition(a) \/ UpdateDefinition(a)
    \/ ReadClient(a) \/ ReadForEnabling(a) \/ CheckDirection(a) \/ EnableDirections(a)
    \/ Audit(a) \/ BumpLimits(a)
-----------------------------------------------------------------------------
(* Submissions: the part of submit() that the configuration decides.       *)

\* The middleware has read the client; submit() looks at its directions.
Gate(x) ==
    /\ submission[x].pc = "new"
    /\ submission' = [submission EXCEPT ![x].pc =
                        IF TxnDirection[x] \in enabled THEN "waterfall" ELSE "rejected"]
    /\ UNCHANGED <<store, cache, load, call>>

\* The dimensions the submission was evaluated against.
Used(x) == {dim \in Dimension : submission[x].used[dim] # Unread}

Ends(x, pc) == submission' = [submission EXCEPT ![x].pc = pc, ![x].left = {}]

\* Mutant: without a mandatory definition a transaction is unlimited.
PassesUnlimited(x, dim, defs) == TRUE

\* Only GLOBAL must have a Per-Transaction definition.
Passes(x, dim, defs) == dim = Global => HasMandatory(defs, TxnDirection[x])

\* One dimension of those left: its definitions are those the cache holds
\* now, and it fails closed, is breached, or leaves the rest to be evaluated.
Evaluates(x, left) ==
    \E dim \in left :
        LET defs == cache[Home[x]].definition IN
        \/ Ends(x, "rejected")
        \/ /\ Passes(x, dim, defs)
           /\ submission' = [submission EXCEPT
                ![x] = [pc |-> IF left = {dim} THEN "approved" ELSE "dimensions",
                        left |-> left \ {dim},
                        used |-> [@.used EXCEPT ![dim] = defs]]]

Snapshot(x) == cache[Home[x]]

\* #runWaterfall takes the registry of the direction from the cache, or fails
\* closed, and evaluates the first dimension without letting anything run.
StartWaterfall(x) ==
    LET here == Snapshot(x)  d == TxnDirection[x] IN
    /\ submission[x].pc = "waterfall"
    /\ IF here # Absent /\ Declares(here.registry, d)
       THEN Evaluates(x, here.registry.directions[d])
       ELSE Ends(x, "rejected")
    /\ UNCHANGED <<store, cache, load, call>>

\* Mutant: the registry is looked up again for every dimension.
EvaluateNextAfresh(x) ==
    LET declared == Snapshot(x).registry.directions[TxnDirection[x]]
        left == declared \ Used(x) IN
    /\ submission[x].pc = "dimensions"
    /\ IF left = {} THEN Ends(x, "approved") ELSE Evaluates(x, left)
    /\ UNCHANGED <<store, cache, load, call>>

\* The dimensions of the snapshot it took, after the awaits of the last one.
EvaluateNext(x) ==
    /\ submission[x].pc = "dimensions"
    /\ Evaluates(x, submission[x].left)
    /\ UNCHANGED <<store, cache, load, call>>
-----------------------------------------------------------------------------
Next ==
    \/ \E p \in Poll : StartPoll(p)
    \/ \E r \in Loader : ReadRegistry(r) \/ ReadDefinitions(r) \/ Install(r) \/ RefreshFails(r)
    \/ \E a \in Admin : (\E ask \in RequestOf[a] : Begin(a, ask)) \/ Step(a) \/ CallFails(a)
    \/ \E x \in Txn : Gate(x) \/ StartWaterfall(x) \/ EvaluateNext(x)

Spec == Init /\ [][Next]_vars

\* The interval timer of an instance keeps firing, its reads return, and a
\* refresh succeeds again and again; an admin call that has begun goes on.
Fairness ==
    /\ \A p \in Poll : WF_vars(StartPoll(p))
    /\ \A r \in Loader : WF_vars(ReadRegistry(r)) /\ WF_vars(ReadDefinitions(r))
                         /\ SF_vars(Install(r))
    /\ \A a \in Admin : WF_vars(Step(a))

FairSpec == Spec /\ Fairness
-----------------------------------------------------------------------------
(* Properties.                                                             *)

Call == [pc : {"idle", "read", "write", "registry", "check", "audit", "bump", "refresh", "done",
               "refused", "failed"},
         ask : Request \cup {Unread}, prev : Document \cup {Absent, Unread},
         left : SUBSET Direction]
Submission == [pc : {"new", "waterfall", "dimensions", "approved", "rejected"},
               left : Policy, used : [Dimension -> Definitions \cup {Unread}]]

\* The state variables keep their types; in particular every document that is
\* stored or cached has both versions.
TypeOK ==
    /\ registry \in Document \cup {Absent}
    /\ definition \in Definitions
    /\ enabled \subseteq Direction
    /\ cache \in [Instance -> CacheEntry \cup {Absent}]
    /\ load \in [Loader -> [busy : BOOLEAN, registry : Document \cup {Absent, Unread},
                            definition : Definitions \cup {Unread}]]
    /\ call \in [Admin -> Call]
    /\ submission \in [Txn -> Submission]
    /\ past \subseteq Direction \X (Policy \cup {Absent})

\* No traffic is accepted ungoverned: a submission is approved only if GLOBAL
\* was among the dimensions it was evaluated against, under an active
\* mandatory Per-Transaction definition, whatever the admins did meanwhile and
\* however stale the cache was.
ApprovedIsGoverned ==
    \A x \in Txn : submission[x].pc = "approved" =>
        /\ Global \in Used(x)
        /\ HasMandatory(submission[x].used[Global], TxnDirection[x])

\* The dimensions an approved submission was evaluated against are exactly
\* those of one registry that was in force at some time, never a mixture of
\* two, though its cache entry may be replaced between two of them.
OneRegistryApplied ==
    \A x \in Txn : submission[x].pc = "approved" =>
        <<TxnDirection[x], Used(x)>> \in past

\* A direction that an admin call enabled was ready at some time: it has had
\* a registry, and its mandatory definition has been created.
EnabledWasReady ==
    \A d \in enabled \ Enabled0 :
        /\ \E p \in Policy : Global \in p /\ <<d, p>> \in past
        /\ \E m \in Mandatory : DirectionOf[m] = d /\ definition[m].version > 0

Serves(entry) == entry # Absent /\ entry.registry # Absent

\* The last known good snapshot stays in force: an instance that enforces a
\* registry is never left without one, by failed refreshes or late ones, but for
\* a refresh that looked before the client had its first registry.
LastGoodStays ==
    [][\A i \in Instance :
         /\ Serves(cache[i])
         /\ \A r \in Loader : Home[r] = i => load[r].registry # Absent
         => Serves(cache'[i])]_vars

\* Every instance that has an entry of the client comes to hold what is
\* stored, whatever calls failed halfway, whichever refreshes failed, and
\* though a refresh may install what was read before a newer one.
CachesConverge == <>[](\A i \in Instance : cache[i] # Absent => cache[i] = Stored)
=============================================================================
