---------------------------- MODULE OneTimeGrant ----------------------------
(***************************************************************************)
(* What anything redeemable promises, whatever races behind it - an        *)
(* authorization code, a backchannel request, a one-time password: it is   *)
(* issued once, pays out at most once, and once it is spent or void it     *)
(* stays so.                                                               *)
(***************************************************************************)
CONSTANT Grant

VARIABLES phase,   \* where each grant is in its life
          payouts  \* what was given for the grants: <<number, grant>>

vars == <<phase, payouts>>

Phase == {"unissued", "open", "held", "spent", "void"}

Init == phase = [g \in Grant |-> "unissued"] /\ payouts = {}

Move(g, from, to) ==
    phase[g] \in from /\ phase' = [phase EXCEPT ![g] = to]

Issue(g) == Move(g, {"unissued"}, "open") /\ UNCHANGED payouts

\* Out of the store, its fate still open.
Take(g) == Move(g, {"open"}, "held") /\ UNCHANGED payouts

Reject(g) == Move(g, {"open", "held"}, "void") /\ UNCHANGED payouts

PayOut(g) ==
    /\ Move(g, {"open", "held"}, "spent")
    /\ \E p \in payouts' \ payouts :
          p[2] = g /\ payouts' = payouts \cup {p}

Next == \E g \in Grant : Issue(g) \/ Take(g) \/ Reject(g) \/ PayOut(g)

Spec == Init /\ [][Next]_vars

=============================================================================
