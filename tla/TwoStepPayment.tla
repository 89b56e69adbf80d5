--------------------------- MODULE TwoStepPayment ---------------------------
(***************************************************************************)
(* What a carrier-billing payment promises, whatever races behind it: its  *)
(* status only moves forward, it is settled once, and the merchant's sink  *)
(* hears of that outcome at most once, after the fact and truthfully.      *)
(***************************************************************************)
CONSTANT Payment

VARIABLES status,  \* where each payment is
          told     \* the outcomes handed to a delivery: <<number, payment, status>>

vars == <<status, told>>

Settled == {"succeeded", "cancelled", "denied"}
Status == {"absent", "pending_validation", "reserved"} \cup Settled

Init == status = [p \in Payment |-> "absent"] /\ told = {}

Move(p, from, to) ==
    /\ status[p] = from
    /\ \E s \in to : status' = [status EXCEPT ![p] = s]
    /\ UNCHANGED told

Create(p) == Move(p, "absent", {"succeeded", "reserved", "pending_validation"})
Validate(p) == Move(p, "pending_validation", {"reserved", "denied"})
Settle(p) == Move(p, "reserved", {"succeeded", "cancelled"})

Announce(p) ==
    /\ status[p] \in Settled
    /\ \A t \in told : t[2] # p
    /\ \E t \in told' \ told :
          t[2] = p /\ t[3] = status[p] /\ told' = told \cup {t}
    /\ UNCHANGED status

Next == \E p \in Payment : Create(p) \/ Validate(p) \/ Settle(p) \/ Announce(p)

Spec == Init /\ [][Next]_vars

=============================================================================
