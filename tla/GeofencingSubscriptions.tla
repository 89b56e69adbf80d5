---------------------- MODULE GeofencingSubscriptions ----------------------
(***************************************************************************)
(* Geofencing subscriptions: a map of subscriptions and a map of event     *)
(* budgets, each behind its own mutex.  The handler of a POST counts the   *)
(* initial event, then leaves two detached timers behind, one that counts  *)
(* a simulated boundary crossing and one that ends the subscription at its *)
(* expiry, while clients delete whatever the list shows them.              *)
(*                                                                         *)
(* An action is one stretch between two acquisitions of a mutex.  An event *)
(* is counted in `sent` when it is handed to a delivery, whose result is   *)
(* dropped.                                                                *)
(***************************************************************************)
EXTENDS Scenarios, Integers

CONSTANTS
    GeoConnection,    \* connections that serve DELETEs
    Subscription,     \* ids that can still be minted
    NoSubscription,   \* what an idle connection is deleting
    GeoDevice,        \* identifiers, as sequences of digits
    Limit,            \* values of subscriptionMaxEvents, legal or not
    ExpireTime,       \* values of subscriptionExpireTime
    MovementGrace,    \* MOVEMENT_GRACE_SECS
    GeoMaxTime        \* bound: the clock stops here

Unlimited == -1       \* no subscriptionMaxEvents
Never == 0            \* no subscriptionExpireTime, or not in the Z form

ASSUME GeofencingAssumption ==
    /\ NoSubscription \notin Subscription
    /\ GeoDevice # {} /\ GeoDevice \subseteq Seq(Digit)
    /\ Limit # {} /\ Limit \subseteq Int
    /\ ExpireTime # {} /\ ExpireTime \subseteq Nat
    /\ MovementGrace \in Nat /\ GeoMaxTime \in Nat

VARIABLES
    subscriptions,    \* the keys of the subscription map
    request,          \* what each subscription was created with
    budget,           \* the budget map; 0 where it has no entry
    progress,         \* where the tasks of each subscription are
    due,              \* when its movement timer wakes up
    deleting,         \* the subscription whose budget a DELETE has yet to drop
    cancelled,        \* subscriptions some DELETE removed
    sent,             \* events handed over, per subscription
    geoNow            \* Unix seconds

geoVars == <<subscriptions, request, budget, progress, due, deleting,
             cancelled, sent, geoNow>>

-----------------------------------------------------------------------------
(* Data *)

EventType == {"area-entered", "area-left"}

GeoRequest == [device : GeoDevice, types : SUBSET EventType, limit : Limit,
               expires : ExpireTime, initialEvent : BOOLEAN]

\* The handler of the POST and the two timers it leaves behind.
GeoTask == {"create", "movement", "expiry"}
GeoPc == {"none", "budget", "count", "evict", "drop", "reply", "sleep", "late", "done"}

\* area-entered and area-left events, and subscription-ended ones by reason.
Tally == [areas : Nat, spent : Nat, expired : Nat]

Active(r) == ~TripleZero(r.device)

\* At most one event type each, filtered by what the caller subscribed to.
InitialEventType(r) ==
    LET position == IF TrailingThreeDigits(r.device) % 2 = 0
                    THEN "area-entered" ELSE "area-left"
    IN IF r.initialEvent /\ Active(r) THEN {position} \cap r.types ELSE {}

MovementEventType(r) ==
    LET crossing == CASE TrailingThreeDigits(r.device) = 1 -> {"area-entered"}
                      [] TrailingThreeDigits(r.device) = 2 -> {"area-left"}
                      [] OTHER -> {}
    IN IF Active(r) THEN crossing \cap r.types ELSE {}

\* What the handler does once the budget is registered.
AfterBudget(r) == IF InitialEventType(r) = {} THEN "reply" ELSE "count"

GoTo(i, t, pc) == progress' = [progress EXCEPT ![i][t] = pc]
Finished(t) == IF t = "create" THEN "reply" ELSE "done"

-----------------------------------------------------------------------------
(* POST: create a subscription *)

SubscriptionAccepted(r) ==
    /\ r.types # {}
    /\ r.limit = Unlimited \/ r.limit >= 1
    /\ ~IsReservedError(r.device)

\* Validate, mint the id and store the subscription.
CreateSubscription(i, r) ==
    /\ progress[i]["create"] = "none"
    /\ SubscriptionAccepted(r)
    /\ subscriptions' = subscriptions \cup {i}
    /\ request' = [request EXCEPT ![i] = r]
    /\ GoTo(i, "create", IF r.limit >= 1 THEN "budget" ELSE AfterBudget(r))
    /\ UNCHANGED <<budget, due, deleting, cancelled, sent, geoNow>>

SetEventBudget(i) ==
    /\ progress[i]["create"] = "budget"
    /\ budget' = [budget EXCEPT ![i] = request[i].limit]
    /\ GoTo(i, "create", AfterBudget(request[i]))
    /\ UNCHANGED <<subscriptions, request, due, deleting, cancelled, sent, geoNow>>

\* Spawn the timers the subscription asks for and answer 201.
ReplyCreated(i) ==
    /\ progress[i]["create"] = "reply"
    /\ progress' = [progress EXCEPT
          ![i] = [create   |-> "done",
                  movement |-> IF MovementEventType(request[i]) = {} THEN "none"
                               ELSE "sleep",
                  expiry   |-> IF request[i].expires = Never THEN "none"
                               ELSE "sleep"]]
    /\ due' = [due EXCEPT ![i] = geoNow + MovementGrace]
    /\ UNCHANGED <<subscriptions, request, budget, deleting, cancelled, sent, geoNow>>

-----------------------------------------------------------------------------
(* deliver_counted, by the handler of the POST or by the movement timer *)

\* Mutant: the event that spends the budget says so, but ends nothing.
CountEventOnly(i, t) ==
    /\ progress[i][t] = "count"
    /\ sent' = [sent EXCEPT ![i].areas = @ + 1,
                            ![i].spent = IF budget[i] = 1 THEN @ + 1 ELSE @]
    /\ budget' = [budget EXCEPT ![i] = IF @ = 0 THEN 0 ELSE @ - 1]
    /\ GoTo(i, t, Finished(t))
    /\ UNCHANGED <<subscriptions, request, due, deleting, cancelled, geoNow>>

\* consume_event: the last unit of a budget drops its entry and ends the
\* subscription, any other event is handed over at once.
CountEvent(i, t) ==
    /\ progress[i][t] = "count"
    /\ budget' = [budget EXCEPT ![i] = IF @ = 0 THEN 0 ELSE @ - 1]
    /\ IF budget[i] = 1
       THEN GoTo(i, t, "evict") /\ UNCHANGED sent
       ELSE /\ GoTo(i, t, Finished(t))
            /\ sent' = [sent EXCEPT ![i].areas = @ + 1]
    /\ UNCHANGED <<subscriptions, request, due, deleting, cancelled, geoNow>>

\* The two halves of store::remove, whether or not something was there; then
\* the triggering event and subscription-ended, in order, in one delivery.
EvictSpent(i, t) ==
    /\ progress[i][t] = "evict"
    /\ subscriptions' = subscriptions \ {i}
    /\ GoTo(i, t, "drop")
    /\ UNCHANGED <<request, budget, due, deleting, cancelled, sent, geoNow>>

SendSpent(i, t) ==
    /\ t # "expiry"
    /\ progress[i][t] = "drop"
    /\ budget' = [budget EXCEPT ![i] = 0]
    /\ sent' = [sent EXCEPT ![i].areas = @ + 1, ![i].spent = @ + 1]
    /\ GoTo(i, t, Finished(t))
    /\ UNCHANGED <<subscriptions, request, due, deleting, cancelled, geoNow>>

-----------------------------------------------------------------------------
(* The timers *)

MovementWakes(i) ==
    /\ progress[i]["movement"] = "sleep"
    /\ geoNow >= due[i]
    /\ GoTo(i, "movement", IF i \in subscriptions THEN "count" ELSE "done")
    /\ UNCHANGED <<subscriptions, request, budget, due, deleting, cancelled, sent, geoNow>>

\* store::remove's first half tells the timer whether somebody was before it.
ExpiryWakes(i) ==
    /\ progress[i]["expiry"] = "sleep"
    /\ geoNow >= request[i].expires
    /\ subscriptions' = subscriptions \ {i}
    /\ GoTo(i, "expiry", IF i \in subscriptions THEN "drop" ELSE "late")
    /\ UNCHANGED <<request, budget, due, deleting, cancelled, sent, geoNow>>

ExpiryEnds(i) ==
    /\ progress[i]["expiry"] \in {"drop", "late"}
    /\ budget' = [budget EXCEPT ![i] = 0]
    /\ sent' = IF progress[i]["expiry"] = "drop"
               THEN [sent EXCEPT ![i].expired = @ + 1] ELSE sent
    /\ GoTo(i, "expiry", "done")
    /\ UNCHANGED <<subscriptions, request, due, deleting, cancelled, geoNow>>

GeoTick ==
    /\ geoNow < GeoMaxTime
    /\ geoNow' = geoNow + 1
    /\ UNCHANGED <<subscriptions, request, budget, progress, due, deleting, cancelled, sent>>

-----------------------------------------------------------------------------
(* DELETE: the list shows an id from the moment it is stored *)

DeleteSubscription(c, i) ==
    /\ deleting[c] = NoSubscription
    /\ progress[i]["create"] # "none"
    /\ subscriptions' = subscriptions \ {i}
    /\ cancelled' = IF i \in subscriptions THEN cancelled \cup {i} ELSE cancelled
    /\ deleting' = [deleting EXCEPT ![c] = i]
    /\ UNCHANGED <<request, budget, progress, due, sent, geoNow>>

\* The budget goes too, and the answer is 204 or, if nothing was there, 404.
ReplyDeleted(c) ==
    /\ deleting[c] # NoSubscription
    /\ budget' = [budget EXCEPT ![deleting[c]] = 0]
    /\ deleting' = [deleting EXCEPT ![c] = NoSubscription]
    /\ UNCHANGED <<subscriptions, request, progress, due, cancelled, sent, geoNow>>

-----------------------------------------------------------------------------
GeoInit ==
    /\ subscriptions = {}
    /\ request = [i \in Subscription |-> CHOOSE r \in GeoRequest : TRUE]
    /\ budget = [i \in Subscription |-> 0]
    /\ progress = [i \in Subscription |-> [t \in GeoTask |-> "none"]]
    /\ due = [i \in Subscription |-> 0]
    /\ deleting = [c \in GeoConnection |-> NoSubscription]
    /\ cancelled = {}
    /\ sent = [i \in Subscription |-> [areas |-> 0, spent |-> 0, expired |-> 0]]
    /\ geoNow = 1

GeoNext ==
    \/ \E i \in Subscription :
          \/ \E r \in GeoRequest : CreateSubscription(i, r)
          \/ SetEventBudget(i)
          \/ ReplyCreated(i)
          \/ \E t \in {"create", "movement"} :
                CountEvent(i, t) \/ EvictSpent(i, t) \/ SendSpent(i, t)
          \/ MovementWakes(i)
          \/ ExpiryWakes(i)
          \/ ExpiryEnds(i)
          \/ \E c \in GeoConnection : DeleteSubscription(c, i)
    \/ \E c \in GeoConnection : ReplyDeleted(c)
    \/ GeoTick

GeoSpec == GeoInit /\ [][GeoNext]_geoVars

-----------------------------------------------------------------------------
(* Properties *)

\* Every variable has its type.
GeoTypeOK ==
    /\ subscriptions \subseteq Subscription
    /\ request \in [Subscription -> GeoRequest]
    /\ budget \in [Subscription -> Nat]
    /\ progress \in [Subscription -> [GeoTask -> GeoPc]]
    /\ due \in [Subscription -> Nat]
    /\ deleting \in [GeoConnection -> Subscription \cup {NoSubscription}]
    /\ cancelled \subseteq Subscription
    /\ sent \in [Subscription -> Tally]
    /\ geoNow \in Nat

\* A subscription never reports more crossings than its subscriptionMaxEvents,
\* whatever deletes and timers do to the budget in between, and when it says
\* that it ended for having reached them, it did, and it says so once.
BudgetHonoured ==
    \A i \in Subscription :
       /\ request[i].limit >= 1 => sent[i].areas <= request[i].limit
       /\ sent[i].spent > 0 => sent[i].spent = 1 /\ sent[i].areas = request[i].limit

\* SUBSCRIPTION_EXPIRED is sent at most once, not before the expiry, and never
\* for a subscription whose DELETE was answered 204.
ExpiryTruthful ==
    \A i \in Subscription :
       sent[i].expired > 0 =>
          /\ sent[i].expired = 1
          /\ request[i].expires # Never /\ geoNow >= request[i].expires
          /\ i \notin cancelled /\ i \notin subscriptions

\* What the sink of a subscription is told of its crossings and of its end is
\* true: deliver_counted, spawn_expiry and deleteSubscription agree.
EventsTruthful == GeoTypeOK /\ BudgetHonoured /\ ExpiryTruthful

=============================================================================
