--------------------------- MODULE MCEnforcement ---------------------------
(***************************************************************************)
(* A small instance of Enforcement for TLC: a day of one tick, a month of  *)
(* two days, a customer whose transactions carry every attribute and one   *)
(* whose transactions lack what the dimension over more attributes needs.  *)
(***************************************************************************)
EXTENDS Enforcement, TLC

CONSTANTS few, more, c1, c2

Attributes == (c1 :> {few, more}) @@ (c2 :> {few})

Declare(s, ws, warm) == [shape |-> s, hot |-> FALSE, windows |-> ws, warming |-> warm]
Policies ==
    {Declare(few, {}, {}),
     Declare(few, {"DAILY_CALENDAR", "DAILY_ROLLING"}, {}),
     Declare(few, {"DAILY_CALENDAR", "MONTHLY"}, {"DAILY_CALENDAR"}),
     [Declare(few, {"DAILY_CALENDAR", "MONTHLY"}, {}) EXCEPT !.hot = TRUE],
     Declare(more, {"MONTHLY"}, {"MONTHLY"})}

Limited(w, s, n) == [window |-> w, scope |-> s, limit |-> n, active |-> TRUE,
                     delay |-> 0, lasts |-> Never]
Payloads ==
    {Limited("PER_TXN", Default, 1), Limited("DAILY_CALENDAR", <<few, c1>>, 1),
     Limited("MONTHLY", Default, 2),
     [Limited("DAILY_CALENDAR", Default, 2) EXCEPT !.delay = 1, !.lasts = 2]}
Changes == {"limit" :> Unlimited, ("active" :> TRUE) @@ ("to" :> 1)}
=============================================================================
