--------------------------- MODULE CarrierBilling ---------------------------
(***************************************************************************)
(* Carrier Billing payments: the handlers of                               *)
(* src/src/apis/carrier_billing/v0_5.rs and the three maps of its store.rs *)
(* (payments, pending validations, notify targets), each behind a mutex of *)
(* its own.                                                                *)
(*                                                                         *)
(* createPayment charges in one step.  preparePayment reserves; a phone    *)
(* number that needs an OTP waits in pending_validation until              *)
(* validatePayment clears it; confirmPayment or cancelPayment settles.     *)
(* Handlers run concurrently and are atomic only between two lock          *)
(* acquisitions; task[c].pc says where connection c's handler is.  A       *)
(* request a guard refuses changes nothing and is a stuttering step.       *)
(***************************************************************************)
EXTENDS Naturals, FiniteSets

CONSTANTS
    Client,    \* HTTP connections, each with one request in service
    Payment,   \* payment ids mint_uuid can still return
    NoPayment, \* the id field of an idle connection
    Scope,     \* the scopes of each client's access token
    Attempts   \* VALIDATION_ATTEMPTS

CREATE_SCOPE == "payments:create"
READ_SCOPE   == "payments:read"
WRITE_SCOPE  == "payments:write"
ScopeName == {CREATE_SCOPE, READ_SCOPE, WRITE_SCOPE}

ASSUME ConstantsAssumption ==
    /\ NoPayment \notin Payment
    /\ Scope \in [Client -> SUBSET ScopeName]
    /\ Attempts \in Nat \ {0}

VARIABLES
    payment,  \* the payment store; status "absent" is a missing key
    pending,  \* attempts left of each pending validation; 0 is a missing key
    target,   \* the notify-target side-store; "none" is a missing key
    wants,    \* the callback each create or prepare request asked for
    wrong,    \* wrong codes checked against each payment so far
    known,    \* ids some response has disclosed to the clients
    task,     \* where each connection's handler is
    events,   \* every CloudEvent a delivery was spawned for
    inflight  \* the deliveries still running

vars == <<payment, pending, target, wants, wrong, known, task, events, inflight>>
outbox == <<events, inflight>>

-----------------------------------------------------------------------------
(* Data *)

Settled == {"succeeded", "cancelled", "denied"}
Status == {"absent", "pending_validation", "reserved"} \cup Settled

\* No sink, a sink, or a sink with a credential that yields a header.
Callback == {"none", "plain", "secured"}

\* What the resolved phone number selects: no OTP, an OTP (tail 888), an error.
Phone == {"immediate", "otp", "refused"}

Rendered == [status : Status, paymentDate : BOOLEAN, validationInfo : BOOLEAN]

Event == [no : Nat, payment : Payment, status : Status, auth : BOOLEAN]

Task == [pc : {"idle", "charged", "stash", "pending", "settled"},
         id : Payment \cup {NoPayment}]

Idle == [pc |-> "idle", id |-> NoPayment]
Absent == [status |-> "absent", paymentDate |-> FALSE, validationInfo |-> FALSE]

At(pc, p) == [pc |-> pc, id |-> p]

\* Hand an event that reports `status` of p to a detached delivery task.
Announce(p, status, callback) ==
    LET e == [no |-> Cardinality(events) + 1, payment |-> p, status |-> status,
              auth |-> callback = "secured"]
    IN events' = events \cup {e} /\ inflight' = inflight \cup {e}

\* A delivery ends: accepted by the sink or not, nobody looks.  No timeout sees
\* to it that it does.
FinishDelivery(e) ==
    /\ e \in inflight
    /\ inflight' = inflight \ {e}
    /\ UNCHANGED <<payment, pending, target, wants, wrong, known, task, events>>

-----------------------------------------------------------------------------
(* POST /payments *)

ChargeAccepted(c, phone, amount) ==
    CREATE_SCOPE \in Scope[c] /\ phone # "refused" /\ amount = "authorised"

\* Validate and store a charge that has already succeeded.
CreatePayment(c, p, phone, amount, callback) ==
    /\ task[c] = Idle
    /\ payment[p] = Absent
    /\ ChargeAccepted(c, phone, amount)
    /\ payment' = [payment EXCEPT ![p] =
            [status |-> "succeeded", paymentDate |-> TRUE, validationInfo |-> FALSE]]
    /\ wants' = [wants EXCEPT ![p] = callback]
    /\ task' = [task EXCEPT ![c] = At("charged", p)]
    /\ UNCHANGED <<pending, target, wrong, known, outbox>>

\* Announce it, if asked to, and answer 201.
ReplyCharged(c) ==
    /\ task[c].pc = "charged"
    /\ LET p == task[c].id IN
       /\ IF wants[p] = "none" THEN UNCHANGED outbox
          ELSE Announce(p, "succeeded", wants[p])
       /\ known' = known \cup {p}
    /\ task' = [task EXCEPT ![c] = Idle]
    /\ UNCHANGED <<payment, pending, target, wants, wrong>>

-----------------------------------------------------------------------------
(* POST /payments/prepare *)

\* Store the reservation: `reserved`, or `pending_validation` if an OTP is due.
PreparePayment(c, p, phone, amount, callback) ==
    /\ task[c] = Idle
    /\ payment[p] = Absent
    /\ ChargeAccepted(c, phone, amount)
    /\ payment' = [payment EXCEPT ![p] =
            [status |-> IF phone = "otp" THEN "pending_validation" ELSE "reserved",
             paymentDate |-> FALSE, validationInfo |-> phone = "otp"]]
    /\ wants' = [wants EXCEPT ![p] = callback]
    /\ task' = [task EXCEPT ![c] = At(IF callback # "none" THEN "stash" ELSE "pending", p)]
    /\ UNCHANGED <<pending, target, wrong, known, outbox>>

\* Mutant: the target is kept without the derived header.
StashTargetDropsAuth(c) ==
    /\ task[c].pc = "stash"
    /\ LET p == task[c].id IN
       /\ Announce(p, IF payment[p].validationInfo THEN "pending_validation" ELSE "reserved",
                   wants[p])
       /\ target' = [target EXCEPT ![p] = "plain"]
    /\ task' = [task EXCEPT ![c].pc = "pending"]
    /\ UNCHANGED <<payment, pending, wants, wrong, known>>

\* With a sink: announce the reservation, then keep the target for the request
\* that will settle it.  (Until insert_pending no OTP can be cleared, so
\* validationInfo still says which branch of the handler this is.)
StashTarget(c) ==
    /\ task[c].pc = "stash"
    /\ LET p == task[c].id IN
       /\ Announce(p, IF payment[p].validationInfo THEN "pending_validation" ELSE "reserved",
                   wants[p])
       /\ target' = [target EXCEPT ![p] = wants[p]]
    /\ task' = [task EXCEPT ![c].pc = "pending"]
    /\ UNCHANGED <<payment, pending, wants, wrong, known>>

\* Mutant: the budget starts one too high.
ReplyPreparedOffByOne(c) ==
    /\ task[c].pc = "pending"
    /\ LET p == task[c].id IN
       /\ pending' = IF payment[p].validationInfo
                     THEN [pending EXCEPT ![p] = Attempts + 1] ELSE pending
       /\ known' = known \cup {p}
    /\ task' = [task EXCEPT ![c] = Idle]
    /\ UNCHANGED <<payment, target, wants, wrong, outbox>>

\* Mutant: insert_pending is forgotten when the reservation has no sink.
ReplyPreparedForgets(c) ==
    /\ task[c].pc = "pending"
    /\ LET p == task[c].id IN
       /\ pending' = IF payment[p].validationInfo /\ target[p] # "none"
                     THEN [pending EXCEPT ![p] = Attempts] ELSE pending
       /\ known' = known \cup {p}
    /\ task' = [task EXCEPT ![c] = Idle]
    /\ UNCHANGED <<payment, target, wants, wrong, outbox>>

\* With an OTP: record the expected code.  Then answer 201.
ReplyPrepared(c) ==
    /\ task[c].pc = "pending"
    /\ LET p == task[c].id IN
       /\ pending' = IF payment[p].validationInfo
                     THEN [pending EXCEPT ![p] = Attempts] ELSE pending
       /\ known' = known \cup {p}
    /\ task' = [task EXCEPT ![c] = Idle]
    /\ UNCHANGED <<payment, target, wants, wrong, outbox>>

-----------------------------------------------------------------------------
(* GET /payments: every stored payment is listed to every reader *)

RetrievePayments(c) ==
    /\ task[c] = Idle
    /\ READ_SCOPE \in Scope[c]
    /\ known' = known \cup {p \in Payment : payment[p] # Absent}
    /\ UNCHANGED <<payment, pending, target, wants, wrong, task, outbox>>

-----------------------------------------------------------------------------
(* POST /payments/{paymentId}/validate *)

\* settle: both locks are held, so the two maps change together.
Settle(p, status) ==
    /\ payment' = [payment EXCEPT ![p].status = status, ![p].validationInfo = FALSE]
    /\ pending' = [pending EXCEPT ![p] = 0]

\* Mutant: a wrong code is not counted until the last one.
RejectCodeFree(c, p) ==
    /\ wrong' = [wrong EXCEPT ![p] = @ + 1]
    /\ IF pending[p] > 1 THEN UNCHANGED <<payment, pending, task>>
       ELSE Settle(p, "denied") /\ task' = [task EXCEPT ![c] = At("settled", p)]

\* A wrong code consumes an attempt; the last one denies the payment.
RejectCode(c, p) ==
    /\ wrong' = [wrong EXCEPT ![p] = @ + 1]
    /\ IF pending[p] > 1
       THEN pending' = [pending EXCEPT ![p] = @ - 1] /\ UNCHANGED <<payment, task>>
       ELSE Settle(p, "denied") /\ task' = [task EXCEPT ![c] = At("settled", p)]

\* A wrong authorizationId, or no pending validation, changes nothing.
ValidatePayment(c, p, rightCode) ==
    /\ task[c] = Idle
    /\ WRITE_SCOPE \in Scope[c]
    /\ p \in known
    /\ pending[p] > 0
    /\ IF rightCode THEN Settle(p, "reserved") /\ UNCHANGED <<wrong, task>>
       ELSE RejectCode(c, p)
    /\ UNCHANGED <<target, wants, known, outbox>>

-----------------------------------------------------------------------------
(* POST /payments/{paymentId}/confirm and /cancel *)

\* Mutant: every payment that was not settled yet may be charged.
ConfirmPaymentUnvalidated(c, p) ==
    /\ task[c] = Idle
    /\ WRITE_SCOPE \in Scope[c]
    /\ p \in known
    /\ payment[p].status \in {"reserved", "pending_validation"}
    /\ payment' = [payment EXCEPT ![p].status = "succeeded", ![p].paymentDate = TRUE]
    /\ task' = [task EXCEPT ![c] = At("settled", p)]
    /\ UNCHANGED <<pending, target, wants, wrong, known, outbox>>

ConfirmPayment(c, p) ==
    /\ task[c] = Idle
    /\ WRITE_SCOPE \in Scope[c]
    /\ p \in known
    /\ payment[p].status = "reserved"
    /\ payment' = [payment EXCEPT ![p].status = "succeeded", ![p].paymentDate = TRUE]
    /\ task' = [task EXCEPT ![c] = At("settled", p)]
    /\ UNCHANGED <<pending, target, wants, wrong, known, outbox>>

\* Mutant: a payment that was charged meanwhile is released all the same.
CancelPaymentLate(c, p) ==
    /\ task[c] = Idle
    /\ WRITE_SCOPE \in Scope[c]
    /\ p \in known
    /\ payment[p].status \in {"reserved", "succeeded"}
    /\ payment' = [payment EXCEPT ![p].status = "cancelled", ![p].paymentDate = FALSE]
    /\ task' = [task EXCEPT ![c] = At("settled", p)]
    /\ UNCHANGED <<pending, target, wants, wrong, known, outbox>>

CancelPayment(c, p) ==
    /\ task[c] = Idle
    /\ WRITE_SCOPE \in Scope[c]
    /\ p \in known
    /\ payment[p].status = "reserved"
    /\ payment' = [payment EXCEPT ![p].status = "cancelled"]
    /\ task' = [task EXCEPT ![c] = At("settled", p)]
    /\ UNCHANGED <<pending, target, wants, wrong, known, outbox>>

\* Mutant: the target is read, not taken.
TakeAndNotifyKeeps(c) ==
    /\ task[c].pc = "settled"
    /\ LET p == task[c].id IN
       IF target[p] = "none" THEN UNCHANGED outbox
       ELSE Announce(p, payment[p].status, target[p])
    /\ task' = [task EXCEPT ![c] = Idle]
    /\ UNCHANGED <<payment, pending, target, wants, wrong, known>>

\* Mutant: the target is taken and the announcement forgotten.
TakeAndForget(c) ==
    /\ task[c].pc = "settled"
    /\ target' = [target EXCEPT ![task[c].id] = "none"]
    /\ task' = [task EXCEPT ![c] = Idle]
    /\ UNCHANGED <<payment, pending, wants, wrong, known, outbox>>

\* The request that settled the payment takes its target, if there is one by
\* now, announces the outcome and replies.
TakeAndNotify(c) ==
    /\ task[c].pc = "settled"
    /\ LET p == task[c].id IN
       /\ IF target[p] = "none" THEN UNCHANGED outbox
          ELSE Announce(p, payment[p].status, target[p])
       /\ target' = [target EXCEPT ![p] = "none"]
    /\ task' = [task EXCEPT ![c] = Idle]
    /\ UNCHANGED <<payment, pending, wants, wrong, known>>

-----------------------------------------------------------------------------
Init ==
    /\ payment = [p \in Payment |-> Absent]
    /\ pending = [p \in Payment |-> 0]
    /\ target = [p \in Payment |-> "none"]
    /\ wants = [p \in Payment |-> "none"]
    /\ wrong = [p \in Payment |-> 0]
    /\ known = {}
    /\ task = [c \in Client |-> Idle]
    /\ events = {} /\ inflight = {}

Continue(c) == ReplyCharged(c) \/ StashTarget(c) \/ ReplyPrepared(c) \/ TakeAndNotify(c)

Request(c) ==
    \/ \E p \in Payment, phone \in Phone, amount \in {"authorised", "refused"},
          callback \in Callback :
          \/ CreatePayment(c, p, phone, amount, callback)
          \/ PreparePayment(c, p, phone, amount, callback)
    \/ RetrievePayments(c)
    \/ \E p \in Payment :
          \/ \E rightCode \in BOOLEAN : ValidatePayment(c, p, rightCode)
          \/ ConfirmPayment(c, p)
          \/ CancelPayment(c, p)

Next ==
    \/ \E c \in Client : Request(c) \/ Continue(c)
    \/ \E e \in inflight : FinishDelivery(e)

Spec == Init /\ [][Next]_vars

\* The runtime keeps polling every accepted request.  A delivery it polls in vain
\* while a sink stays silent, so nothing is assumed of those.
Fairness == \A c \in Client : WF_vars(Continue(c))

FairSpec == Spec /\ Fairness

-----------------------------------------------------------------------------
(* Correctness *)

TypeOK ==
    /\ payment \in [Payment -> Rendered]
    /\ pending \in [Payment -> 0..Attempts]
    /\ target \in [Payment -> Callback]
    /\ wants \in [Payment -> Callback]
    /\ wrong \in [Payment -> Nat]
    /\ known \subseteq Payment
    /\ task \in [Client -> Task]
    /\ events \subseteq Event /\ IsFiniteSet(events)
    /\ inflight \subseteq events

Working(p, pcs) == \E c \in Client : task[c].id = p /\ task[c].pc \in pcs

Outcome(e) == e.status \in Settled

Announced(p) == \E e \in events : e.payment = p /\ Outcome(e)

\* What is rendered to a merchant is consistent at every instant: a payment has
\* a paymentDate exactly when it was charged, asks for a validation exactly
\* while it waits for one, and the two maps behind validatePayment never
\* disagree on whether it does.
RenderedCoherently ==
    \A p \in Payment :
        /\ payment[p].paymentDate <=> payment[p].status = "succeeded"
        /\ payment[p].validationInfo <=> payment[p].status = "pending_validation"
        /\ pending[p] > 0 => payment[p].status = "pending_validation"

\* Concurrent validations share one budget: a payment is denied at exactly
\* `Attempts` wrong codes and nothing is reserved or charged after as many.
OtpBudget ==
    \A p \in Payment :
        /\ payment[p].status = "denied" <=> wrong[p] >= Attempts
        /\ wrong[p] <= Attempts
        /\ pending[p] > 0 => pending[p] + wrong[p] = Attempts

\* A reservation whose prepare request was answered can be driven to an end:
\* either it may be confirmed or cancelled, or an OTP entry is there to clear it.
NothingStuck ==
    \A p \in Payment :
        payment[p].status = "pending_validation" =>
            pending[p] > 0 \/ Working(p, {"stash", "pending"})

\* The stored target is used once: from the moment it is stashed it is either
\* still there or was spent on the one event that reports the outcome.  (The
\* one-step charge announces itself without a target.)
TargetUsedOnce ==
    \A p \in Payment :
        /\ ~(target[p] # "none" /\ Announced(p))
        /\ wants[p] # "none" =>
              \/ target[p] # "none"
              \/ Announced(p)
              \/ Working(p, {"stash", "charged"})

\* Every callback of a payment is authenticated exactly when the request that
\* created it brought a credential, those later requests trigger included.
NoticesAuthenticated ==
    \A e \in events : e.auth <=> wants[e.payment] = "secured"

Abstract == INSTANCE TwoStepPayment WITH
    status <- [p \in Payment |-> payment[p].status],
    told   <- {<<e.no, e.payment, e.status>> : e \in {f \in events : Outcome(f)}}

\* The handlers implement the payment's life: settled once, never unsettled, and
\* its outcome announced at most once and truthfully.
ImplementsPayment == Abstract!Spec

\* Whoever settled a payment whose target is stored announces the outcome, even
\* if the deliveries before it - that of the reservation, to the same sink - hang
\* for ever.
OutcomeAnnounced ==
    \A p \in Payment :
        (Working(p, {"settled"}) /\ target[p] # "none") ~> Announced(p)

\* store.rs: "exactly one terminal outcome fires for a reservation".
TerminalOutcomeFires ==
    \A p \in Payment :
        (/\ payment[p].status \in Settled
         /\ wants[p] # "none"
         /\ ~Working(p, {"charged", "stash", "pending", "settled"}))
        => Announced(p)

=============================================================================
