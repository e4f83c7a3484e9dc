------------------------- MODULE TransactionLedger -------------------------
(***************************************************************************)
(* What the limit service promises, without calls, counters or documents:  *)
(* each record is decided once; while it is undecided it takes hold of     *)
(* keys and lets go of them, never more on a strict key than the limit     *)
(* allows; an approval keeps what it holds, a refusal holds nothing but    *)
(* what cannot be given back, and a reversal lets go of what the approval  *)
(* held. Time takes away what is left.                                     *)
(*                                                                         *)
(* A claim whose call ended early keeps what it held until then: nothing   *)
(* in the code gives it back (see the README, "what the service leaves     *)
(* behind").                                                               *)
(***************************************************************************)
EXTENDS Amounts

CONSTANTS
    Key, Strict, Threshold, Unlimited,
    Stuck    \* keys from which nothing can be given back

VARIABLES
    status,  \* Txn -> the decision
    held     \* Txn -> the keys the record counts in

vars == <<status, held>>

Holders(k) == {t \in Txn : k \in held[t]}
Within(value, limit) == limit # Unlimited => value <= limit

\* With record t among its holders, key k stays within its limits.
Fits(k, t) ==
    /\ Within(TotalAmount(Holders(k) \cup {t}), Threshold[k].amount)
    /\ Within(Cardinality(Holders(k) \cup {t}), Threshold[k].count)

Init ==
    /\ status = [t \in Txn |-> "NONE"]
    /\ held = [t \in Txn |-> {}]

Claim(t) ==
    /\ status[t] = "NONE"
    /\ status' = [status EXCEPT ![t] = "PENDING"]
    /\ UNCHANGED held

\* A claim that was abandoned under its call may still take hold of keys.
Hold(t, k) ==
    /\ status[t] \in {"PENDING", "ABANDONED"}
    /\ k \notin held[t]
    /\ k \in Strict => Fits(k, t)
    /\ held' = [held EXCEPT ![t] = @ \cup {k}]
    /\ UNCHANGED status

Release(t, k) ==
    /\ status[t] \in {"PENDING", "ABANDONED", "REVERSED"}
    /\ k \in held[t] \ Stuck
    /\ held' = [held EXCEPT ![t] = @ \ {k}]
    /\ UNCHANGED status

Approve(t) ==
    /\ status[t] = "PENDING"
    /\ status' = [status EXCEPT ![t] = "APPROVED"]
    /\ UNCHANGED held

Refuse(t, decision) ==
    /\ status[t] = "PENDING"
    /\ held[t] \subseteq Stuck
    /\ status' = [status EXCEPT ![t] = decision]
    /\ UNCHANGED held

Abandon(t) ==
    /\ status[t] = "PENDING"
    /\ status' = [status EXCEPT ![t] = "ABANDONED"]
    /\ UNCHANGED held

Reverse(t) ==
    /\ status[t] = "APPROVED"
    /\ status' = [status EXCEPT ![t] = "REVERSED"]
    /\ UNCHANGED held

\* Time takes key k from records, whatever their decision.
Lapse(k) ==
    /\ \E S \in SUBSET Holders(k) :
        held' = [t \in Txn |-> IF t \in S THEN held[t] \ {k} ELSE held[t]]
    /\ UNCHANGED status

Next ==
  \/ \E k \in Key : Lapse(k)
  \/ \E t \in Txn :
        \/ Claim(t) \/ Approve(t) \/ Abandon(t) \/ Reverse(t)
        \/ \E decision \in {"REJECTED", "SYSTEM_FAILURE"} : Refuse(t, decision)
        \/ \E k \in Key : Hold(t, k) \/ Release(t, k)

Spec == Init /\ [][Next]_vars
=============================================================================
