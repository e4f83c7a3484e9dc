---------------------------- MODULE CounterClaims ----------------------------
(***************************************************************************)
(* A sentence of the repository about giving back, stated of CounterEngine. *)
(***************************************************************************)
EXTENDS CounterEngine

\* STORY-03-04 AC3 and STORY-05-01: the specific recorded bucket is decremented.
\* So no call that is given back fails to find a bucket that is still there.
RecordedBucketIsDecremented ==
    \A c \in Call : call[c].pc = "signalled" =>
        ~(call[c].key \in DOMAIN docs /\ call[c].label \in DOMAIN docs[call[c].key].buckets)
=============================================================================
