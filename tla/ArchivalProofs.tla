--------------------------- MODULE ArchivalProofs ---------------------------
(***************************************************************************)
(* Proofs about Archival, for every set of records, sweeps and lookups,    *)
(* every batch limit and every number of claims and stops.                 *)
(***************************************************************************)
EXTENDS Archival, TLAPS

\* What a sweep has copied is in the archive.
CopiedIsArchived ==
    \A s \in Sweeper : \A t \in sweep[s].copied : archive[t] # Absent

\* A lookup that is due an answer will find it where it looks next.
LookupKnows ==
    \A g \in Reader : lookup[g].due =>
        /\ \A t, u \in lookup[g].txn : t = u
        /\ lookup[g].pc = "hot" => \A t \in lookup[g].txn : Known(t)
        /\ lookup[g].pc = "archive" => \A t \in lookup[g].txn : archive[t] # Absent

\* The history variable follows the hot tier, and a record that nobody changed
\* on its way is everywhere what it last was.
CopiesAreLast ==
    \A t \in Txn :
        /\ hot[t] # Absent => last[t] = hot[t]
        /\ t \notin touched =>
             /\ archive[t] # Absent => archive[t] = last[t]
             /\ \A s \in Sweeper : sweep[s].batch[t] # Absent => sweep[s].batch[t] = last[t]

\* Record c is what r is or, of the same identifier, what was before r.
UpTo(c, r) == c = r \/ Superseded(c, r)

\* Every copy is of the last record or of what was before it, the identifier's
\* claims are counted in the records, and none leaves the hot tier uncopied.
CopiesAreOfRecord ==
    \A t \in Txn :
        /\ last[t] # Absent => last[t].claim = claims[t]
        /\ archive[t] # Absent => last[t] # Absent /\ UpTo(archive[t], last[t])
        /\ \A s \in Sweeper : sweep[s].batch[t] # Absent =>
             last[t] # Absent /\ UpTo(sweep[s].batch[t], last[t])
        /\ last[t] # Absent /\ hot[t] = Absent => archive[t] # Absent

IInv ==
    /\ TypeOK /\ CopiedIsArchived /\ LookupKnows /\ LookupsFind
    /\ CopiesAreLast /\ CopiesAreOfRecord
-----------------------------------------------------------------------------
(* Types.                                                                  *)

\* What a hot record may be changed to.
LEMMA WriteType ==
    ASSUME TypeOK, NEW t \in Txn, NEW r \in Record, Write(t, r)
    PROVE  /\ hot' \in [Txn -> MayBe] /\ last' \in [Txn -> MayBe]
           /\ old' \subseteq Txn /\ touched' \subseteq Txn
PROOF BY DEF TypeOK, Write, MayBe

\* Decisions are records.
LEMMA Decisions ==
    /\ Decision \subseteq MayBe
    /\ \A r : IsTerminal(r) /\ r \in MayBe => r \in Decision
    /\ Absent \in Decision /\ Absent \in MayBe
PROOF BY DEF Decision, MayBe, IsTerminal

\* A step of a record keeps the types.
LEMMA RecordType ==
    ASSUME TypeOK, NEW t \in Txn, RecordStep(t)
    PROVE  TypeOK'
PROOF
  <1>h. hot[t] # Absent => hot[t] \in Record
    BY DEF TypeOK, MayBe
  <1>1. CASE Claim(t)
    <2>1. claims[t] \in Nat /\ claims[t] < MaxClaims[t] /\ MaxClaims[t] \in Nat
      BY <1>1, ArchivalAssumption DEF TypeOK, Claim
    <2>2. [status |-> "PENDING", claim |-> claims[t] + 1] \in Record
      BY <2>1 DEF Record
    <2>3. claims' \in [Txn -> Nat] /\ \A u \in Txn : claims'[u] <= MaxClaims[u]
      BY <1>1, <2>1 DEF TypeOK, Claim
    <2> QED BY <1>1, <2>2, <2>3, WriteType DEF Claim, TypeOK
  <1>2. CASE Decide(t)
    <2>1. PICK status \in Outcome : Write(t, [hot[t] EXCEPT !.status = status])
      BY <1>2 DEF Decide
    <2>2. [hot[t] EXCEPT !.status = status] \in Record
      BY <1>h, <1>2, ArchivalAssumption DEF Decide, Record
    <2> QED BY <1>2, <2>1, <2>2, WriteType DEF Decide, TypeOK
  <1>3. CASE Reverse(t)
    <2>1. [hot[t] EXCEPT !.status = "REVERSED"] \in Record
      BY <1>h, <1>3 DEF Reverse, Record, Terminal
    <2> QED BY <1>3, <2>1, WriteType DEF Reverse, TypeOK
  <1>4. CASE GrowOld(t)
    BY <1>4 DEF GrowOld, TypeOK
  <1> QED BY <1>1, <1>2, <1>3, <1>4 DEF RecordStep

\* So does a step of a sweep, and its stopping.
LEMMA SweepType ==
    ASSUME TypeOK, NEW s \in Sweeper, SweepStep(s) \/ SweepStops(s)
    PROVE  TypeOK'
PROOF
  <1>s. /\ sweep[s] \in [batch : [Txn -> Decision], copied : SUBSET Txn]
        /\ s \in DOMAIN sweep
    BY DEF TypeOK
  <1>1. CASE Scan(s)
    <2>1. PICK B \in SUBSET Candidates :
            sweep' = [sweep EXCEPT ![s].batch = [t \in Txn |-> IF t \in B THEN hot[t] ELSE Absent]]
      BY <1>1 DEF Scan
    <2>2. \A t \in B : hot[t] \in Decision
      BY Decisions DEF Candidates, TypeOK
    <2>3. [t \in Txn |-> IF t \in B THEN hot[t] ELSE Absent] \in [Txn -> Decision]
      BY <2>2, Decisions
    <2>4. sweep' \in [Sweeper -> [batch : [Txn -> Decision], copied : SUBSET Txn]]
      BY <1>s, <2>1, <2>3 DEF TypeOK
    <2> QED BY <1>1, <2>4 DEF Scan, TypeOK
  <1>2. ASSUME NEW t \in Txn, Copy(s, t) PROVE TypeOK'
    <2>1. archive' \in [Txn -> Decision]
      BY <1>s, <1>2 DEF Copy, TypeOK
    <2>2. sweep' \in [Sweeper -> [batch : [Txn -> Decision], copied : SUBSET Txn]]
      BY <1>s, <1>2 DEF Copy, TypeOK
    <2> QED BY <1>2, <2>1, <2>2 DEF Copy, TypeOK
  <1>3. ASSUME NEW t \in Txn, Delete(s, t) PROVE TypeOK'
    <2>1. hot' \in [Txn -> MayBe] /\ old' \subseteq Txn
      BY <1>3, Decisions DEF Delete, TypeOK
    <2>2. [sweep[s].batch EXCEPT ![t] = Absent] \in [Txn -> Decision]
      BY <1>s, Decisions
    <2>3. sweep' \in [Sweeper -> [batch : [Txn -> Decision], copied : SUBSET Txn]]
      BY <1>s, <1>3, <2>2 DEF Delete, TypeOK
    <2> QED BY <1>3, <2>1, <2>3 DEF Delete, TypeOK
  <1>4. CASE SweepStops(s)
    <2>1. NoBatch \in [batch : [Txn -> Decision], copied : SUBSET Txn]
      BY Decisions DEF NoBatch
    <2>2. stops' \in 0..MaxStops
      BY <1>4, ArchivalAssumption DEF SweepStops, TypeOK
    <2> QED BY <1>4, <2>1, <2>2 DEF SweepStops, TypeOK
  <1> QED BY <1>1, <1>2, <1>3, <1>4 DEF SweepStep

\* And a step of a lookup.
LEMMA LookupType ==
    ASSUME TypeOK, NEW g \in Reader, Look(g) \/ LookHot(g) \/ LookArchive(g)
    PROVE  TypeOK'
PROOF
  <1>g. /\ lookup[g] \in [pc : {"idle", "hot", "archive", "done"}, txn : SUBSET Txn,
                          reply : MayBe, due : BOOLEAN]
        /\ g \in DOMAIN lookup
    BY DEF TypeOK
  <1>k. \A t \in Txn : Known(t) \in BOOLEAN
    BY DEF Known, IsTerminal
  <1>r. \A t \in lookup[g].txn : hot[t] \in MayBe /\ archive[t] \in MayBe
    BY <1>g, Decisions DEF TypeOK
  <1>1. lookup' \in [Reader -> [pc : {"idle", "hot", "archive", "done"}, txn : SUBSET Txn,
                                reply : MayBe, due : BOOLEAN]]
    <2>1. CASE Look(g)
      <3>1. PICK t \in Txn :
              lookup' = [lookup EXCEPT ![g].pc = "hot", ![g].txn = {t}, ![g].due = Known(t)]
        BY <2>1 DEF Look
      <3>2. {t} \in SUBSET Txn /\ Known(t) \in BOOLEAN
        BY <1>k
      <3>3. lookup'[g] \in [pc : {"idle", "hot", "archive", "done"}, txn : SUBSET Txn,
                            reply : MayBe, due : BOOLEAN]
        BY <1>g, <3>1, <3>2
      <3> QED BY <3>1, <3>3 DEF TypeOK
    <2>2. CASE LookHot(g)
      <3>1. PICK t \in lookup[g].txn :
              lookup' = [lookup EXCEPT ![g].pc = IF hot[t] = Absent THEN "archive" ELSE "done",
                                       ![g].reply = hot[t]]
        BY <2>2 DEF LookHot
      <3>2. lookup'[g] \in [pc : {"idle", "hot", "archive", "done"}, txn : SUBSET Txn,
                            reply : MayBe, due : BOOLEAN]
        BY <1>g, <1>r, <3>1
      <3> QED BY <3>1, <3>2 DEF TypeOK
    <2>3. CASE LookArchive(g)
      <3>1. PICK t \in lookup[g].txn :
              lookup' = [lookup EXCEPT ![g].pc = "done", ![g].reply = archive[t]]
        BY <2>3 DEF LookArchive
      <3>2. lookup'[g] \in [pc : {"idle", "hot", "archive", "done"}, txn : SUBSET Txn,
                            reply : MayBe, due : BOOLEAN]
        BY <1>g, <1>r, <3>1
      <3> QED BY <3>1, <3>2 DEF TypeOK
    <2> QED BY <2>1, <2>2, <2>3
  <1> QED BY <1>1 DEF Look, LookHot, LookArchive, TypeOK

\* Every step keeps the types.
LEMMA StepType ==
    ASSUME TypeOK, [Next]_vars
    PROVE  TypeOK'
PROOF
  <1>1. CASE UNCHANGED vars
    BY <1>1 DEF TypeOK, vars
  <1> QED BY <1>1, RecordType, SweepType, LookupType DEF Next

\* The first state has the types, and nothing in it.
LEMMA InitType == Init => IInv
PROOF
  <1> SUFFICES ASSUME Init PROVE IInv
    OBVIOUS
  <1>1. TypeOK
    BY Decisions, ArchivalAssumption DEF Init, TypeOK, NoBatch, NoLookup, MayBe, Decision
  <1>2. CopiedIsArchived /\ LookupKnows /\ LookupsFind /\ CopiesAreLast /\ CopiesAreOfRecord
    BY DEF Init, CopiedIsArchived, LookupKnows, LookupsFind, CopiesAreLast, CopiesAreOfRecord,
           NoBatch, NoLookup
  <1> QED BY <1>1, <1>2 DEF IInv
-----------------------------------------------------------------------------
(* Decisions stay, and lookups find them.                                  *)

\* Nothing is ever taken out of the archive.
LEMMA ArchiveGrows ==
    ASSUME TypeOK, [Next]_vars, NEW t \in Txn, archive[t] # Absent
    PROVE  archive'[t] = archive[t]
PROOF
  <1>1. ASSUME NEW s \in Sweeper, NEW u \in Txn, Copy(s, u) PROVE archive'[t] = archive[t]
    BY <1>1 DEF Copy, TypeOK
  <1>2. CASE \E s \in Sweeper : \E u \in Txn : Copy(s, u)
    BY <1>1, <1>2
  <1>3. CASE UNCHANGED archive
    BY <1>3
  <1> QED BY <1>2, <1>3 DEF Next, RecordStep, Claim, Decide, Reverse, GrowOld, SweepStep, Scan,
            Delete, SweepStops, Look, LookHot, LookArchive, vars

\* A sweep deletes only what it has copied.
LEMMA CopiedStep ==
    ASSUME TypeOK, CopiedIsArchived, [Next]_vars
    PROVE  CopiedIsArchived'
PROOF
  <1>b. \A s \in Sweeper : sweep[s].copied \subseteq Txn
    BY DEF TypeOK
  <1>1. CASE UNCHANGED sweep
    <2> SUFFICES ASSUME NEW s \in Sweeper, NEW t \in sweep[s].copied PROVE archive'[t] # Absent
      BY <1>1 DEF CopiedIsArchived
    <2> QED BY <1>b, ArchiveGrows DEF CopiedIsArchived
  <1>2. ASSUME NEW s \in Sweeper, Scan(s) PROVE CopiedIsArchived'
    <2>1. UNCHANGED archive /\ \A z \in Sweeper : sweep'[z].copied = sweep[z].copied
      BY <1>2 DEF Scan, TypeOK
    <2> QED BY <2>1 DEF CopiedIsArchived
  <1>3. ASSUME NEW s \in Sweeper, NEW t \in Txn, Copy(s, t) PROVE CopiedIsArchived'
    <2>1. archive'[t] # Absent /\ sweep'[s].copied = {t}
      BY <1>3 DEF Copy, TypeOK
    <2>2. \A z \in Sweeper \ {s} : sweep'[z].copied = sweep[z].copied
      BY <1>3 DEF Copy, TypeOK
    <2> QED BY <1>b, <2>1, <2>2, ArchiveGrows DEF CopiedIsArchived
  <1>4. ASSUME NEW s \in Sweeper, NEW t \in Txn, Delete(s, t) PROVE CopiedIsArchived'
    <2>1. UNCHANGED archive /\ sweep'[s].copied = {}
      BY <1>4 DEF Delete, TypeOK
    <2>2. \A z \in Sweeper \ {s} : sweep'[z].copied = sweep[z].copied
      BY <1>4 DEF Delete, TypeOK
    <2> QED BY <2>1, <2>2 DEF CopiedIsArchived
  <1>5. ASSUME NEW s \in Sweeper, SweepStops(s) PROVE CopiedIsArchived'
    <2>1. UNCHANGED archive /\ sweep'[s].copied = {}
      BY <1>5 DEF SweepStops, TypeOK, NoBatch
    <2>2. \A z \in Sweeper \ {s} : sweep'[z].copied = sweep[z].copied
      BY <1>5 DEF SweepStops, TypeOK
    <2> QED BY <2>1, <2>2 DEF CopiedIsArchived
  <1> QED BY <1>1, <1>2, <1>3, <1>4, <1>5 DEF Next, RecordStep, Claim, Decide, Reverse, GrowOld,
            SweepStep, Look, LookHot, LookArchive, vars

\* A decision that is on record is on record after any step.
LEMMA KnownStep ==
    ASSUME TypeOK, CopiedIsArchived, [Next]_vars, NEW t \in Txn, Known(t)
    PROVE  Known(t)'
PROOF
  <1>1. CASE archive[t] # Absent
    BY <1>1, ArchiveGrows DEF Known
  <1>2. CASE archive[t] = Absent
    <2>1. IsTerminal(hot[t])
      BY <1>2 DEF Known
    <2>2. ASSUME NEW u \in Txn, RecordStep(u) PROVE IsTerminal(hot'[t])
      <3>h. hot[u] # Absent => hot[u] \in Record
        BY DEF TypeOK, MayBe
      <3>1. CASE Claim(u)
        BY <2>1, <3>1 DEF Claim, Write, IsTerminal
      <3>2. CASE Decide(u)
        BY <2>1, <3>2 DEF Decide, Write, IsTerminal, Terminal, TypeOK
      <3>3. CASE Reverse(u)
        <4>1. [hot[u] EXCEPT !.status = "REVERSED"] \in Record
          BY <3>h, <3>3 DEF Reverse, Record, Terminal
        <4>2. IsTerminal([hot[u] EXCEPT !.status = "REVERSED"])
          BY <3>h, <3>3, <4>1, ArchivalAssumption DEF Reverse, IsTerminal, Record, Terminal
        <4> QED BY <2>1, <3>3, <4>2 DEF Reverse, Write, TypeOK
      <3>4. CASE GrowOld(u)
        BY <2>1, <3>4 DEF GrowOld
      <3> QED BY <2>2, <3>1, <3>2, <3>3, <3>4 DEF RecordStep
    <2>3. ASSUME NEW s \in Sweeper, NEW u \in Txn, Delete(s, u) PROVE hot'[t] = hot[t]
      BY <1>2, <2>3 DEF Delete, TypeOK, CopiedIsArchived
    <2>4. CASE UNCHANGED hot
      BY <2>1, <2>4 DEF Known, IsTerminal
    <2> QED BY <2>1, <2>2, <2>3, <2>4 DEF Next, SweepStep, Scan, Copy, SweepStops, Look, LookHot,
              LookArchive, vars, Known, IsTerminal
  <1> QED BY <1>1, <1>2

\* A lookup finds what it is due.
LEMMA LookupStep ==
    ASSUME TypeOK, CopiedIsArchived, LookupKnows, LookupsFind, [Next]_vars
    PROVE  LookupKnows' /\ LookupsFind'
PROOF
  <1>g. \A g \in Reader : lookup[g].txn \subseteq Txn
    BY DEF TypeOK
  <1>1. CASE UNCHANGED lookup
    <2>1. LookupsFind'
      BY <1>1 DEF LookupsFind
    <2>2. ASSUME NEW g \in Reader, lookup[g].due
          PROVE  /\ \A t, u \in lookup[g].txn : t = u
                 /\ lookup[g].pc = "hot" => \A t \in lookup[g].txn : Known(t)'
                 /\ lookup[g].pc = "archive" => \A t \in lookup[g].txn : archive'[t] # Absent
      BY <1>g, <2>2, KnownStep, ArchiveGrows DEF LookupKnows
    <2> QED BY <1>1, <2>1, <2>2 DEF LookupKnows
  <1>2. ASSUME NEW g \in Reader, Look(g) \/ LookHot(g) \/ LookArchive(g)
        PROVE  LookupKnows' /\ LookupsFind'
    <2>1. UNCHANGED <<hot, archive>> /\ \A f \in Reader \ {g} : lookup'[f] = lookup[f]
      BY <1>2 DEF Look, LookHot, LookArchive, TypeOK
    <2>2. \A t \in Txn : Known(t)' = Known(t)
      BY <2>1 DEF Known, IsTerminal
    <2>3. lookup'[g].due =>
            /\ \A t, u \in lookup'[g].txn : t = u
            /\ lookup'[g].pc = "hot" => \A t \in lookup'[g].txn : Known(t)
            /\ lookup'[g].pc = "archive" => \A t \in lookup'[g].txn : archive[t] # Absent
            /\ lookup'[g].pc = "done" => lookup'[g].reply # Absent
      <3>1. CASE Look(g)
        BY <3>1 DEF Look, TypeOK
      <3>2. CASE LookHot(g)
        <4>1. PICK t \in lookup[g].txn :
                lookup' = [lookup EXCEPT ![g].pc = IF hot[t] = Absent THEN "archive" ELSE "done",
                                         ![g].reply = hot[t]]
          BY <3>2 DEF LookHot
        <4>2. /\ lookup'[g].txn = lookup[g].txn /\ lookup'[g].due = lookup[g].due
              /\ lookup'[g].pc = IF hot[t] = Absent THEN "archive" ELSE "done"
              /\ lookup'[g].reply = hot[t]
          BY <4>1 DEF TypeOK
        <4>3. CASE hot[t] = Absent
          BY <3>2, <4>2, <4>3 DEF LookHot, LookupKnows, Known, IsTerminal
        <4>4. CASE hot[t] # Absent
          BY <3>2, <4>2, <4>4 DEF LookHot, LookupKnows
        <4> QED BY <4>3, <4>4
      <3>3. CASE LookArchive(g)
        BY <3>3 DEF LookArchive, TypeOK, LookupKnows
      <3> QED BY <1>2, <3>1, <3>2, <3>3
    <2>4. LookupsFind'
      BY <2>1, <2>3 DEF LookupsFind
    <2>5. ASSUME NEW f \in Reader, lookup'[f].due
          PROVE  /\ \A t, u \in lookup'[f].txn : t = u
                 /\ lookup'[f].pc = "hot" => \A t \in lookup'[f].txn : Known(t)
                 /\ lookup'[f].pc = "archive" => \A t \in lookup'[f].txn : archive[t] # Absent
      BY <2>1, <2>3, <2>5 DEF LookupKnows
    <2>6. \A f \in Reader : lookup'[f].txn \subseteq Txn
      BY StepType DEF TypeOK
    <2> QED BY <2>1, <2>2, <2>4, <2>5, <2>6 DEF LookupKnows
  <1> QED BY <1>1, <1>2 DEF Next, RecordStep, Claim, Decide, Reverse, GrowOld, SweepStep, Scan,
            Copy, Delete, SweepStops, vars
-----------------------------------------------------------------------------
(* The archived copy is the last one.                                      *)

\* A write to the hot tier reaches no copy, or is noted.
LEMMA WriteKeepsLast ==
    ASSUME TypeOK, CopiesAreLast, NEW t \in Txn, NEW r, Write(t, r), UNCHANGED <<archive, sweep>>
    PROVE  CopiesAreLast'
PROOF
  <1>1. hot'[t] = r /\ last'[t] = r
    BY DEF TypeOK, Write
  <1>2. \A u \in Txn \ {t} : hot'[u] = hot[u] /\ last'[u] = last[u]
    BY DEF TypeOK, Write
  <1>3. t \notin touched' => archive[t] = Absent /\ \A s \in Sweeper : sweep[s].batch[t] = Absent
    BY DEF Write, Copied
  <1>4. touched \subseteq touched'
    BY DEF Write
  <1> QED BY <1>1, <1>2, <1>3, <1>4 DEF CopiesAreLast

\* And the sweeps hand on what they have read.
LEMMA CopiesStep ==
    ASSUME TypeOK, CopiesAreLast, [Next]_vars
    PROVE  CopiesAreLast'
PROOF
  <1>1. CASE UNCHANGED <<hot, archive, sweep, last, touched>>
    BY <1>1 DEF CopiesAreLast
  <1>2. ASSUME NEW t \in Txn, RecordStep(t) PROVE CopiesAreLast'
    <2>1. CASE Claim(t)
      BY <2>1, WriteKeepsLast DEF Claim
    <2>2. CASE Decide(t)
      BY <2>2, WriteKeepsLast DEF Decide
    <2>3. CASE Reverse(t)
      BY <2>3, WriteKeepsLast DEF Reverse
    <2>4. CASE GrowOld(t)
      BY <1>1, <2>4 DEF GrowOld
    <2> QED BY <1>2, <2>1, <2>2, <2>3, <2>4 DEF RecordStep
  <1>3. ASSUME NEW s \in Sweeper, Scan(s) PROVE CopiesAreLast'
    <2>1. PICK B \in SUBSET Candidates :
            sweep' = [sweep EXCEPT ![s].batch = [t \in Txn |-> IF t \in B THEN hot[t] ELSE Absent]]
      BY <1>3 DEF Scan
    <2>2. \A t \in Txn : sweep'[s].batch[t] \in {hot[t], Absent}
      BY <2>1 DEF TypeOK
    <2>3. \A z \in Sweeper \ {s} : sweep'[z] = sweep[z]
      BY <2>1 DEF TypeOK
    <2>4. UNCHANGED <<hot, archive, last, touched>>
      BY <1>3 DEF Scan
    <2> QED BY <2>2, <2>3, <2>4 DEF CopiesAreLast
  <1>4. ASSUME NEW s \in Sweeper, NEW u \in Txn, Copy(s, u) PROVE CopiesAreLast'
    <2>1. \A z \in Sweeper : sweep'[z].batch = sweep[z].batch
      BY <1>4 DEF Copy, TypeOK
    <2>2. \A t \in Txn : archive'[t] \in {archive[t], sweep[s].batch[t]}
      BY <1>4 DEF Copy, TypeOK
    <2>3. UNCHANGED <<hot, last, touched>>
      BY <1>4 DEF Copy
    <2> QED BY <2>1, <2>2, <2>3 DEF CopiesAreLast
  <1>5. ASSUME NEW s \in Sweeper, NEW u \in Txn, Delete(s, u) PROVE CopiesAreLast'
    <2>1. \A t \in Txn : hot'[t] \in {hot[t], Absent}
      BY <1>5 DEF Delete, TypeOK
    <2>2. \A z \in Sweeper, t \in Txn : sweep'[z].batch[t] \in {sweep[z].batch[t], Absent}
      BY <1>5 DEF Delete, TypeOK
    <2>3. UNCHANGED <<archive, last, touched>>
      BY <1>5 DEF Delete
    <2> QED BY <2>1, <2>2, <2>3 DEF CopiesAreLast
  <1>6. ASSUME NEW s \in Sweeper, SweepStops(s) PROVE CopiesAreLast'
    <2>1. \A z \in Sweeper, t \in Txn : sweep'[z].batch[t] \in {sweep[z].batch[t], Absent}
      BY <1>6 DEF SweepStops, TypeOK, NoBatch
    <2>2. UNCHANGED <<hot, archive, last, touched>>
      BY <1>6 DEF SweepStops
    <2> QED BY <2>1, <2>2 DEF CopiesAreLast
  <1> QED BY <1>1, <1>2, <1>3, <1>4, <1>5, <1>6 DEF Next, SweepStep, Look, LookHot, LookArchive, vars

\* A record that is written comes after every copy of its identifier.
LEMMA WriteSupersedes ==
    ASSUME TypeOK, CopiesAreOfRecord, NEW t \in Txn, NEW r \in Record, Write(t, r),
           UNCHANGED <<archive, sweep>>,
           claims'[t] = r.claim, \A u \in Txn \ {t} : claims'[u] = claims[u],
           \A c \in Decision : c # Absent /\ last[t] # Absent /\ UpTo(c, last[t]) => UpTo(c, r)
    PROVE  CopiesAreOfRecord'
PROOF
  <1>1. hot'[t] = r /\ last'[t] = r /\ r # Absent
    BY ArchivalAssumption DEF TypeOK, Write
  <1>2. \A u \in Txn \ {t} : hot'[u] = hot[u] /\ last'[u] = last[u]
    BY DEF TypeOK, Write
  <1>3. archive[t] \in Decision /\ \A s \in Sweeper : sweep[s].batch[t] \in Decision
    BY DEF TypeOK
  <1>4. ASSUME NEW u \in Txn
        PROVE  /\ last'[u] # Absent => last'[u].claim = claims'[u]
               /\ archive[u] # Absent => last'[u] # Absent /\ UpTo(archive[u], last'[u])
               /\ \A s \in Sweeper : sweep[s].batch[u] # Absent =>
                    last'[u] # Absent /\ UpTo(sweep[s].batch[u], last'[u])
               /\ last'[u] # Absent /\ hot'[u] = Absent => archive[u] # Absent
    <2>1. CASE u = t
      BY <1>1, <1>3, <2>1 DEF CopiesAreOfRecord
    <2>2. CASE u # t
      BY <1>2, <2>2 DEF CopiesAreOfRecord
    <2> QED BY <2>1, <2>2
  <1> QED BY <1>4 DEF CopiesAreOfRecord, UpTo, Superseded

\* So do the steps of a record keep the copies behind it ...
LEMMA RecordSupersedes ==
    ASSUME TypeOK, CopiesAreLast, CopiesAreOfRecord, NEW t \in Txn, RecordStep(t)
    PROVE  CopiesAreOfRecord'
PROOF
  <1>h. /\ hot[t] # Absent => hot[t] \in Record /\ last[t] = hot[t]
        /\ last[t] # Absent => last[t] \in Record
        /\ claims[t] \in Nat
        /\ \A c \in Decision : c # Absent => c \in Record /\ c.status # "PENDING"
    BY DEF TypeOK, MayBe, CopiesAreLast, Decision, Terminal
  <1>1. CASE Claim(t)
    <2> DEFINE r == [status |-> "PENDING", claim |-> claims[t] + 1]
    <2>1. r \in Record /\ r.claim = claims[t] + 1 /\ Write(t, r)
      BY <1>h, <1>1 DEF Claim, Record
    <2>2. claims'[t] = r.claim /\ \A u \in Txn \ {t} : claims'[u] = claims[u]
      BY <1>1, <2>1 DEF Claim, TypeOK
    <2>3. ASSUME NEW c \in Decision, c # Absent, last[t] # Absent, UpTo(c, last[t])
          PROVE  UpTo(c, r)
      <3>1. last[t].claim = claims[t] /\ c.claim \in Nat
        BY <1>h, <2>3 DEF CopiesAreOfRecord, Record
      <3>2. c.claim < last[t].claim \/ c.claim = last[t].claim
        BY <1>h, <2>3 DEF UpTo, Superseded, Record
      <3> QED BY <1>h, <2>1, <3>1, <3>2 DEF UpTo, Superseded
    <2> HIDE DEF r
    <2> QED BY <1>1, <2>1, <2>2, <2>3, WriteSupersedes DEF Claim
  <1>2. CASE Decide(t)
    <2>1. PICK status \in Outcome : Write(t, [hot[t] EXCEPT !.status = status])
      BY <1>2 DEF Decide
    <2> DEFINE r == [hot[t] EXCEPT !.status = status]
    <2>2. /\ hot[t] \in Record /\ hot[t] # Absent /\ hot[t].status = "PENDING"
          /\ r \in Record /\ r.claim = hot[t].claim
      BY <1>h, <1>2, ArchivalAssumption DEF Decide, Record
    <2>3. claims'[t] = r.claim /\ \A u \in Txn \ {t} : claims'[u] = claims[u]
      BY <1>h, <1>2, <2>2 DEF Decide, TypeOK, CopiesAreOfRecord
    <2>4. ASSUME NEW c \in Decision, c # Absent, last[t] # Absent, UpTo(c, last[t])
          PROVE  UpTo(c, r)
      <3>1. c.claim < last[t].claim
        BY <1>h, <2>2, <2>4 DEF UpTo, Superseded
      <3> QED BY <1>h, <2>2, <3>1 DEF UpTo, Superseded
    <2>5. Write(t, r)
      BY <2>1
    <2> HIDE DEF r
    <2> QED BY <1>2, <2>2, <2>3, <2>4, <2>5, WriteSupersedes DEF Decide
  <1>3. CASE Reverse(t)
    <2> DEFINE r == [hot[t] EXCEPT !.status = "REVERSED"]
    <2>1. /\ hot[t] \in Record /\ hot[t] # Absent /\ hot[t].status = "APPROVED"
          /\ r \in Record /\ r.claim = hot[t].claim /\ r.status = "REVERSED"
          /\ [r EXCEPT !.status = "APPROVED"] = hot[t] /\ Write(t, r)
      BY <1>h, <1>3 DEF Reverse, Record, Terminal
    <2>2. claims'[t] = r.claim /\ \A u \in Txn \ {t} : claims'[u] = claims[u]
      BY <1>h, <1>3, <2>1 DEF Reverse, TypeOK, CopiesAreOfRecord
    <2>3. ASSUME NEW c \in Decision, c # Absent, last[t] # Absent, UpTo(c, last[t])
          PROVE  UpTo(c, r)
      <3>1. c = hot[t] \/ c.claim < hot[t].claim
        BY <1>h, <2>1, <2>3 DEF UpTo, Superseded
      <3> QED BY <2>1, <3>1 DEF UpTo, Superseded
    <2> HIDE DEF r
    <2> QED BY <1>3, <2>1, <2>2, <2>3, WriteSupersedes DEF Reverse
  <1>4. CASE GrowOld(t)
    BY <1>4 DEF GrowOld, CopiesAreOfRecord, UpTo, Superseded
  <1> QED BY <1>1, <1>2, <1>3, <1>4 DEF RecordStep

\* ... and the sweeps hand on no others, and take none away uncopied.
LEMMA RecordsStep ==
    ASSUME TypeOK, CopiedIsArchived, CopiesAreLast, CopiesAreOfRecord, [Next]_vars
    PROVE  CopiesAreOfRecord'
PROOF
  <1>1. CASE UNCHANGED <<hot, archive, claims, sweep, last>>
    BY <1>1 DEF CopiesAreOfRecord, UpTo, Superseded
  <1>2. ASSUME NEW s \in Sweeper, SweepStep(s) \/ SweepStops(s) PROVE CopiesAreOfRecord'
    <2>1. UNCHANGED <<claims, last>>
      BY <1>2 DEF SweepStep, Scan, Copy, Delete, SweepStops
    <2>2. \A z \in Sweeper, t \in Txn : sweep'[z].batch[t] \in {sweep[z].batch[t], hot[t], Absent}
      <3>1. CASE Scan(s)
        BY <3>1 DEF Scan, TypeOK
      <3>2. ASSUME NEW u \in Txn, Copy(s, u)
            PROVE  \A z \in Sweeper : sweep'[z].batch = sweep[z].batch
        BY <3>2 DEF Copy, TypeOK
      <3>3. ASSUME NEW u \in Txn, Delete(s, u)
            PROVE  \A z \in Sweeper, t \in Txn : sweep'[z].batch[t] \in {sweep[z].batch[t], Absent}
        BY <3>3 DEF Delete, TypeOK
      <3>4. CASE SweepStops(s)
        BY <3>4 DEF SweepStops, TypeOK, NoBatch
      <3> QED BY <1>2, <3>1, <3>2, <3>3, <3>4 DEF SweepStep
    <2>3. \A t \in Txn : archive'[t] = archive[t] \/ \E z \in Sweeper : archive'[t] = sweep[z].batch[t]
      <3>1. ASSUME NEW u \in Txn, Copy(s, u)
            PROVE  \A t \in Txn : archive'[t] \in {archive[t], sweep[s].batch[t]}
        BY <3>1 DEF Copy, TypeOK
      <3> QED BY <1>2, <3>1 DEF SweepStep, Scan, Delete, SweepStops
    <2>4. \A t \in Txn : hot'[t] = hot[t] \/ (archive[t] # Absent /\ hot'[t] = Absent)
      <3>1. ASSUME NEW u \in Txn, Delete(s, u)
            PROVE  \A t \in Txn : hot'[t] = hot[t] \/ (archive[t] # Absent /\ hot'[t] = Absent)
        BY <3>1 DEF Delete, TypeOK, CopiedIsArchived
      <3>2. CASE UNCHANGED hot
        BY <3>2
      <3> QED BY <1>2, <3>1, <3>2 DEF SweepStep, Scan, Copy, SweepStops
    <2>5. \A t \in Txn : archive[t] # Absent => archive'[t] = archive[t]
      BY <1>2, ArchiveGrows DEF Next
    <2>6. ASSUME NEW t \in Txn
          PROVE  /\ last[t] # Absent => last[t].claim = claims[t]
                 /\ archive'[t] # Absent => last[t] # Absent /\ UpTo(archive'[t], last[t])
                 /\ \A z \in Sweeper : sweep'[z].batch[t] # Absent =>
                      last[t] # Absent /\ UpTo(sweep'[z].batch[t], last[t])
                 /\ last[t] # Absent /\ hot'[t] = Absent => archive'[t] # Absent
      <3>1. hot[t] # Absent => last[t] # Absent /\ UpTo(hot[t], last[t])
        BY DEF CopiesAreLast, UpTo
      <3> QED BY <2>2, <2>3, <2>4, <2>5, <3>1 DEF CopiesAreOfRecord
    <2> QED BY <2>1, <2>6 DEF CopiesAreOfRecord, UpTo, Superseded
  <1> QED BY <1>1, <1>2, RecordSupersedes DEF Next, Look, LookHot, LookArchive, vars
-----------------------------------------------------------------------------
(* The theorems.                                                           *)

\* Every part of the invariant is kept by every step.
LEMMA InvariantStep == IInv /\ [Next]_vars => IInv'
PROOF BY StepType, CopiedStep, LookupStep, CopiesStep, RecordsStep DEF IInv

\* So all of it holds all the time.
LEMMA Invariance == Spec => []IInv
PROOF BY InitType, InvariantStep, PTL DEF Spec

\* The types hold: only decisions are swept, and only decisions are archived.
THEOREM TypeCorrect == Spec => []TypeOK
PROOF BY Invariance, PTL DEF IInv

\* getStatus() finds every decision that is on record when it is called, though
\* it reads two collections between which a sweep moves records.
THEOREM LookupsFindDecisions == Spec => []LookupsFind
PROOF BY Invariance, PTL DEF IInv

\* The archived record is the record as it last was, unless it was written to
\* while a sweep held a copy.
THEOREM ArchiveIsLastCopy == Spec => []ArchiveIsLast
PROOF
  <1>1. IInv => ArchiveIsLast
    BY DEF IInv, CopiesAreLast, ArchiveIsLast
  <1> QED BY <1>1, Invariance, PTL

\* The last decision on a record, and its reversal, are kept as they are: but from
\* an identifier of which the archive had an earlier claim's record, or an approval
\* reversed after it was copied, and then that earlier record is what is kept.
THEOREM DecisionsAreKept == Spec => []DecisionsStay
PROOF
  <1>1. IInv => DecisionsStay
    <2> SUFFICES ASSUME IInv, NEW t \in Txn, IsTerminal(last[t]), last[t] \notin {hot[t], archive[t]}
                 PROVE  t \in touched /\ archive[t] # Absent /\ Superseded(archive[t], last[t])
      BY DEF DecisionsStay
    <2>1. hot[t] = Absent
      BY DEF IInv, CopiesAreLast
    <2>2. archive[t] # Absent /\ UpTo(archive[t], last[t])
      BY <2>1 DEF IInv, CopiesAreOfRecord, IsTerminal
    <2>3. t \in touched
      BY <2>2 DEF IInv, CopiesAreLast
    <2> QED BY <2>2, <2>3 DEF UpTo
  <1> QED BY <1>1, Invariance, PTL

\* A record that nobody wrote to leaves the hot tier decided, and not before its
\* very copy is in the archive.
THEOREM CopiesGoOnly == Spec => OnlyCopiesGo
PROOF
  <1>1. ASSUME IInv, [Next]_vars, NEW t \in Txn,
               hot[t] # Absent, hot'[t] = Absent, t \notin touched
        PROVE  IsTerminal(hot[t]) /\ archive[t] = hot[t]
    <2>h. /\ hot \in [Txn -> MayBe] /\ archive[t] \in Decision
          /\ \A r \in Record : r # Absent
      BY <1>1, ArchivalAssumption DEF IInv, TypeOK
    <2>1. ASSUME NEW u \in Txn, RecordStep(u) PROVE FALSE
      <3>1. hot[u] # Absent => hot[u] \in Record
        BY <2>h DEF MayBe
      <3>2. CASE Claim(u)
        BY <1>1, <2>h, <3>2 DEF Claim, Write
      <3>3. CASE Decide(u)
        <4>1. PICK status \in Outcome : Write(u, [hot[u] EXCEPT !.status = status])
          BY <3>3 DEF Decide
        <4>2. [hot[u] EXCEPT !.status = status] \in Record
          BY <3>1, <3>3, ArchivalAssumption DEF Decide, Record
        <4> QED BY <1>1, <2>h, <4>1, <4>2 DEF Write
      <3>4. CASE Reverse(u)
        <4>1. [hot[u] EXCEPT !.status = "REVERSED"] \in Record
          BY <3>1, <3>4 DEF Reverse, Record, Terminal
        <4> QED BY <1>1, <2>h, <3>4, <4>1 DEF Reverse, Write
      <3> QED BY <1>1, <2>1, <3>2, <3>3, <3>4 DEF RecordStep, GrowOld
    <2>2. PICK s \in Sweeper : \E u \in Txn : Delete(s, u)
      BY <1>1, <2>1 DEF Next, SweepStep, Scan, Copy, SweepStops, Look, LookHot, LookArchive, vars
    <2>3. t \in sweep[s].copied
      BY <1>1, <2>2, <2>h DEF Delete
    <2>4. archive[t] # Absent
      BY <1>1, <2>3 DEF IInv, CopiedIsArchived
    <2>5. archive[t] = hot[t]
      BY <1>1, <2>4 DEF IInv, CopiesAreLast
    <2> QED BY <2>h, <2>4, <2>5 DEF Decision, IsTerminal
  <1>2. IInv /\ [Next]_vars =>
          [\A t \in Txn : hot[t] # Absent /\ hot'[t] = Absent /\ t \notin touched
             => IsTerminal(hot[t]) /\ archive[t] = hot[t]]_vars
    BY <1>1
  <1> QED BY <1>2, Invariance, PTL DEF Spec, OnlyCopiesGo
=============================================================================
