------------------------ MODULE ReconciliationClaims ------------------------
(***************************************************************************)
(* Sentences of the repository about the repair of counters, stated of     *)
(* Reconciliation. The code does not keep them: each is checked by a run   *)
(* that finds where it is broken.                                          *)
(***************************************************************************)
EXTENDS Reconciliation

\* STORY-05-02 AC1: the sweeper leaves the counter of a closed window at the
\* value derived from the records. Where nothing fails, it at least does not
\* put it out of step: with no call and no run at work on a document, the
\* document is in step.
Quiet(k) ==
    /\ \A t \in Txn : keyOf[t] = k => use[t] \in {"new", "begun", "approved", "rejected", "reversed"}
    /\ \A w \in Worker : worker[w].pc = "idle"
RepairsAreSound == \A k \in Key \ Rolling : Quiet(k) => InSync(k)
=============================================================================
