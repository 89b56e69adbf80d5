------------------------- MODULE GeofencingProofs -------------------------
(***************************************************************************)
(* Proofs about GeofencingSubscriptions, for any identifiers, limits,      *)
(* expiry times and graces and any number of connections.                  *)
(***************************************************************************)
EXTENDS GeofencingSubscriptions, TLAPS

-----------------------------------------------------------------------------
(* The inductive invariant *)

Creating(i) == progress[i]["create"]
Moving(i) == progress[i]["movement"]
Expiring(i) == progress[i]["expiry"]

\* What is not created yet left no trace, and the timers start last.
StartInv(i) ==
    /\ Creating(i) = "none" =>
          /\ i \notin subscriptions /\ i \notin cancelled
          /\ budget[i] = 0 /\ sent[i].expired = 0
    /\ Creating(i) # "done" => Moving(i) = "none" /\ Expiring(i) = "none"
    /\ i \in cancelled => i \notin subscriptions

\* The handler of the POST counts the first event, out of the whole budget
\* unless the subscription was deleted meanwhile.
InitialInv(i) ==
    /\ Creating(i) \in {"none", "budget", "count", "evict", "drop"} =>
          sent[i].areas = 0 /\ sent[i].spent = 0
    /\ Creating(i) = "budget" => budget[i] = 0 /\ request[i].limit >= 1
    /\ Creating(i) = "count" /\ request[i].limit >= 1 /\ i \in subscriptions
          => budget[i] = request[i].limit
    /\ Creating(i) \in {"evict", "drop"} => request[i].limit = 1
    /\ Creating(i) = "drop" => i \notin subscriptions

\* What is left of a budget is what was not sent; a limit of one is spent by
\* the initial event, and then nothing is left for the movement timer to find.
BudgetInv(i) ==
    /\ Moving(i) \in {"none", "sleep", "count", "evict", "drop", "done"}
    /\ budget[i] > 0 => request[i].limit >= 1 /\ budget[i] = request[i].limit - sent[i].areas
    /\ Moving(i) \in {"none", "sleep", "count"} =>
          /\ sent[i].areas <= 1
          /\ sent[i].areas = 1 /\ request[i].limit = 1 =>
                i \notin subscriptions /\ Moving(i) # "count"
          /\ sent[i].spent > 0 =>
                sent[i].spent = 1 /\ sent[i].areas = 1 /\ request[i].limit = 1
    /\ Moving(i) \in {"evict", "drop"} =>
          sent[i].areas + 1 = request[i].limit /\ sent[i].spent = 0
    /\ Moving(i) = "done" =>
          /\ request[i].limit >= 1 => sent[i].areas <= request[i].limit
          /\ sent[i].spent > 0 =>
                sent[i].spent = 1 /\ sent[i].areas = request[i].limit

\* The expiry timer announces an end only if it is what removed the key.
ExpiryInv(i) ==
    /\ Expiring(i) # "none" => request[i].expires # Never
    /\ Expiring(i) \in {"none", "sleep", "drop", "late"} => sent[i].expired = 0
    /\ Expiring(i) = "drop" \/ sent[i].expired > 0 =>
          /\ Expiring(i) \in {"drop", "done"}
          /\ geoNow >= request[i].expires
          /\ i \notin cancelled /\ i \notin subscriptions
    /\ sent[i].expired <= 1

\* A DELETE drops the budget of a subscription that is no longer there.
DeletingInv ==
    \A c \in GeoConnection :
       deleting[c] # NoSubscription =>
          deleting[c] \notin subscriptions /\ Creating(deleting[c]) # "none"

SubscriptionInv(i) == StartInv(i) /\ InitialInv(i) /\ BudgetInv(i) /\ ExpiryInv(i)

GeoInv == GeoTypeOK /\ DeletingInv /\ \A i \in Subscription : SubscriptionInv(i)

-----------------------------------------------------------------------------
(* Facts the steps share *)

LEMMA GeoTyped ==
  ASSUME GeoTypeOK, NEW i \in Subscription
  PROVE  /\ Creating(i) \in GeoPc /\ Moving(i) \in GeoPc /\ Expiring(i) \in GeoPc
         /\ budget[i] \in Nat /\ due[i] \in Nat /\ geoNow \in Nat
         /\ sent[i].areas \in Nat /\ sent[i].spent \in Nat /\ sent[i].expired \in Nat
         /\ request[i] \in GeoRequest
         /\ request[i].limit \in Int /\ request[i].expires \in Nat
  <1>1. progress[i] \in [GeoTask -> GeoPc] /\ sent[i] \in Tally /\ request[i] \in GeoRequest
    BY DEF GeoTypeOK
  <1>2. Creating(i) \in GeoPc /\ Moving(i) \in GeoPc /\ Expiring(i) \in GeoPc
    BY <1>1 DEF GeoTask, Creating, Moving, Expiring
  <1>3. sent[i].areas \in Nat /\ sent[i].spent \in Nat /\ sent[i].expired \in Nat
    BY <1>1 DEF Tally
  <1>4. request[i].limit \in Int /\ request[i].expires \in Nat
    BY <1>1, GeofencingAssumption DEF GeoRequest
  <1> QED BY <1>1, <1>2, <1>3, <1>4 DEF GeoTypeOK

\* GoTo moves one task of one subscription.
LEMMA GoToMoves ==
  ASSUME GeoTypeOK, NEW i \in Subscription, NEW t \in GeoTask, NEW pc \in GeoPc,
         GoTo(i, t, pc)
  PROVE  /\ progress' \in [Subscription -> [GeoTask -> GeoPc]]
         /\ \A j \in Subscription \ {i} : progress'[j] = progress[j]
         /\ progress'[i][t] = pc
         /\ \A u \in GeoTask \ {t} : progress'[i][u] = progress[i][u]
  <1>1. progress[i] \in [GeoTask -> GeoPc]
    BY DEF GeoTypeOK
  <1> DEFINE moved == [progress[i] EXCEPT ![t] = pc]
  <1>2. progress' = [progress EXCEPT ![i] = moved]
    BY DEF GoTo
  <1>3. /\ moved \in [GeoTask -> GeoPc] /\ moved[t] = pc
        /\ \A u \in GeoTask \ {t} : moved[u] = progress[i][u]
    BY <1>1
  <1> HIDE DEF moved
  <1> QED BY <1>2, <1>3 DEF GeoTypeOK

\* A subscription whose state no step touched keeps its invariant.
LEMMA Untouched ==
  ASSUME GeoTypeOK, GeoTypeOK', NEW j \in Subscription, SubscriptionInv(j),
         progress'[j] = progress[j], request'[j] = request[j],
         budget'[j] = budget[j], sent'[j] = sent[j], geoNow' >= geoNow,
         j \in subscriptions' <=> j \in subscriptions,
         j \in cancelled' <=> j \in cancelled
  PROVE  SubscriptionInv(j)'
  <1>1. geoNow \in Nat /\ geoNow' \in Nat /\ request[j].expires \in Nat
    BY GeoTyped DEF GeoTypeOK
  <1>2. Creating(j)' = Creating(j) /\ Moving(j)' = Moving(j) /\ Expiring(j)' = Expiring(j)
    BY DEF Creating, Moving, Expiring
  <1>3. StartInv(j)'
    BY <1>2 DEF SubscriptionInv, StartInv
  <1>4. InitialInv(j)'
    BY <1>2 DEF SubscriptionInv, InitialInv
  <1>5. BudgetInv(j)'
    BY <1>2 DEF SubscriptionInv, BudgetInv
  <1>6. ExpiryInv(j)'
    BY <1>1, <1>2 DEF SubscriptionInv, ExpiryInv
  <1> QED BY <1>3, <1>4, <1>5, <1>6 DEF SubscriptionInv

LEMMA GeoInitInv == GeoInit => GeoInv
  <1> SUFFICES ASSUME GeoInit PROVE GeoInv
    OBVIOUS
  <1> DEFINE blank == CHOOSE r \in GeoRequest : TRUE
             zero == [areas |-> 0, spent |-> 0, expired |-> 0]
             idle == [t \in GeoTask |-> "none"]
  <1>1. blank \in GeoRequest
    <2>1. PICK d \in GeoDevice, l \in Limit, x \in ExpireTime : TRUE
      BY GeofencingAssumption
    <2>2. [device |-> d, types |-> {}, limit |-> l, expires |-> x,
           initialEvent |-> FALSE] \in GeoRequest
      BY DEF GeoRequest
    <2> QED BY <2>2
  <1>2. zero \in Tally /\ zero.areas = 0 /\ zero.spent = 0 /\ zero.expired = 0
    BY DEF Tally
  <1>3. /\ idle \in [GeoTask -> GeoPc]
        /\ idle["create"] = "none" /\ idle["movement"] = "none" /\ idle["expiry"] = "none"
    BY DEF GeoTask, GeoPc
  <1>4. /\ request = [i \in Subscription |-> blank]
        /\ sent = [i \in Subscription |-> zero]
        /\ progress = [i \in Subscription |-> idle]
    BY DEF GeoInit
  <1> HIDE DEF blank, zero, idle
  <1>5. GeoTypeOK
    BY <1>1, <1>2, <1>3, <1>4 DEF GeoInit, GeoTypeOK
  <1>6. DeletingInv
    BY DEF GeoInit, DeletingInv
  <1>7. ASSUME NEW i \in Subscription PROVE SubscriptionInv(i)
    <2>1. /\ Creating(i) = "none" /\ Moving(i) = "none" /\ Expiring(i) = "none"
          /\ sent[i].areas = 0 /\ sent[i].spent = 0 /\ sent[i].expired = 0
          /\ budget[i] = 0 /\ i \notin subscriptions /\ i \notin cancelled
      BY <1>2, <1>3, <1>4 DEF GeoInit, Creating, Moving, Expiring
    <2> QED BY <2>1 DEF SubscriptionInv, StartInv, InitialInv, BudgetInv, ExpiryInv
  <1> QED BY <1>5, <1>6, <1>7 DEF GeoInv

-----------------------------------------------------------------------------
(* Every action preserves it *)

LEMMA CreateSubscriptionStep ==
  ASSUME GeoInv, NEW i \in Subscription, NEW r \in GeoRequest, CreateSubscription(i, r)
  PROVE  GeoInv'
  <1> DEFINE next == IF r.limit >= 1 THEN "budget" ELSE AfterBudget(r)
  <1>1. /\ Creating(i) = "none" /\ subscriptions' = subscriptions \cup {i}
        /\ request' = [request EXCEPT ![i] = r]
        /\ GoTo(i, "create", next)
        /\ UNCHANGED <<budget, due, deleting, cancelled, sent, geoNow>>
    BY DEF CreateSubscription, Creating
  <1>2. next \in {"budget", "reply", "count"} /\ next \in GeoPc
        /\ (next = "budget" <=> r.limit >= 1)
    BY DEF AfterBudget, GeoPc
  <1> HIDE DEF next
  <1>3. "create" \in GeoTask /\ "movement" \in GeoTask /\ "expiry" \in GeoTask
    BY DEF GeoTask
  <1>4. /\ progress' \in [Subscription -> [GeoTask -> GeoPc]]
        /\ \A j \in Subscription \ {i} : progress'[j] = progress[j]
        /\ Creating(i)' = next /\ Moving(i)' = Moving(i) /\ Expiring(i)' = Expiring(i)
    BY <1>1, <1>2, <1>3, GoToMoves DEF GeoInv, Creating, Moving, Expiring
  <1>5. request'[i] = r /\ \A j \in Subscription \ {i} : request'[j] = request[j]
    BY <1>1 DEF GeoInv, GeoTypeOK
  <1>6. GeoTypeOK'
    BY <1>1, <1>4 DEF GeoInv, GeoTypeOK
  <1>7. DeletingInv'
    BY <1>1, <1>4, <1>6 DEF GeoInv, DeletingInv, GeoTypeOK, Creating
  <1>8. ASSUME NEW j \in Subscription \ {i} PROVE SubscriptionInv(j)'
    BY <1>1, <1>4, <1>5, <1>6, GeoTyped, Untouched DEF GeoInv, GeoTypeOK
  <1>9. SubscriptionInv(i)'
    <2>1. SubscriptionInv(i) /\ StartInv(i) /\ InitialInv(i)
      BY DEF GeoInv, SubscriptionInv
    <2>2. /\ i \notin cancelled /\ budget[i] = 0 /\ sent[i].expired = 0
          /\ Moving(i) = "none" /\ Expiring(i) = "none"
          /\ sent[i].areas = 0 /\ sent[i].spent = 0
      BY <1>1, <2>1 DEF StartInv, InitialInv
    <2>3. StartInv(i)' /\ InitialInv(i)'
      BY <1>1, <1>2, <1>4, <1>5, <2>2 DEF StartInv, InitialInv
    <2>4. BudgetInv(i)' /\ ExpiryInv(i)'
      BY <1>1, <1>4, <1>5, <2>2 DEF BudgetInv, ExpiryInv
    <2> QED BY <2>3, <2>4 DEF SubscriptionInv
  <1> QED BY <1>6, <1>7, <1>8, <1>9 DEF GeoInv

LEMMA SetEventBudgetStep ==
  ASSUME GeoInv, NEW i \in Subscription, SetEventBudget(i)
  PROVE  GeoInv'
  <1> DEFINE next == AfterBudget(request[i])
  <1>1. /\ Creating(i) = "budget"
        /\ budget' = [budget EXCEPT ![i] = request[i].limit]
        /\ GoTo(i, "create", next)
        /\ UNCHANGED <<subscriptions, request, due, deleting, cancelled, sent, geoNow>>
    BY DEF SetEventBudget, Creating
  <1>2. next \in {"reply", "count"} /\ next \in GeoPc
    BY DEF AfterBudget, GeoPc
  <1> HIDE DEF next
  <1>3. "create" \in GeoTask /\ "movement" \in GeoTask /\ "expiry" \in GeoTask
    BY DEF GeoTask
  <1>4. /\ progress' \in [Subscription -> [GeoTask -> GeoPc]]
        /\ \A j \in Subscription \ {i} : progress'[j] = progress[j]
        /\ Creating(i)' = next /\ Moving(i)' = Moving(i) /\ Expiring(i)' = Expiring(i)
    BY <1>1, <1>2, <1>3, GoToMoves DEF GeoInv, Creating, Moving, Expiring
  <1>5. /\ SubscriptionInv(i) /\ StartInv(i) /\ InitialInv(i) /\ BudgetInv(i)
        /\ ExpiryInv(i)
    BY DEF GeoInv, SubscriptionInv
  <1>6. request[i].limit >= 1 /\ request[i].limit \in Nat
    BY <1>1, <1>5, GeoTyped DEF InitialInv, GeoInv
  <1>7. /\ budget'[i] = request[i].limit /\ budget' \in [Subscription -> Nat]
        /\ \A j \in Subscription \ {i} : budget'[j] = budget[j]
    BY <1>1, <1>6 DEF GeoInv, GeoTypeOK
  <1>8. GeoTypeOK'
    BY <1>1, <1>4, <1>7 DEF GeoInv, GeoTypeOK
  <1>9. DeletingInv'
    BY <1>1, <1>2, <1>4 DEF GeoInv, DeletingInv, GeoTypeOK, Creating
  <1>10. ASSUME NEW j \in Subscription \ {i} PROVE SubscriptionInv(j)'
    BY <1>1, <1>4, <1>7, <1>8, GeoTyped, Untouched DEF GeoInv
  <1>11. SubscriptionInv(i)'
    <2>1. sent[i].areas = 0 /\ sent[i].spent = 0 /\ Moving(i) = "none" /\ Expiring(i) = "none"
      BY <1>1, <1>5 DEF StartInv, InitialInv
    <2>2. StartInv(i)' /\ InitialInv(i)'
      BY <1>1, <1>2, <1>4, <1>5, <1>7, <2>1 DEF StartInv, InitialInv
    <2>3. BudgetInv(i)'
      BY <1>1, <1>4, <1>5, <1>6, <1>7, <2>1 DEF BudgetInv
    <2>4. ExpiryInv(i)'
      BY <1>1, <1>4, <1>5 DEF ExpiryInv
    <2> QED BY <2>2, <2>3, <2>4 DEF SubscriptionInv
  <1> QED BY <1>8, <1>9, <1>10, <1>11 DEF GeoInv

LEMMA ReplyCreatedStep ==
  ASSUME GeoInv, NEW i \in Subscription, ReplyCreated(i)
  PROVE  GeoInv'
  <1> DEFINE moving == IF MovementEventType(request[i]) = {} THEN "none" ELSE "sleep"
             expiring == IF request[i].expires = Never THEN "none" ELSE "sleep"
             next == [create |-> "done", movement |-> moving, expiry |-> expiring]
  <1>1. /\ Creating(i) = "reply"
        /\ progress' = [progress EXCEPT ![i] = next]
        /\ due' = [due EXCEPT ![i] = geoNow + MovementGrace]
        /\ UNCHANGED <<subscriptions, request, budget, deleting, cancelled, sent, geoNow>>
    BY DEF ReplyCreated, Creating
  <1>2. moving \in {"none", "sleep"} /\ expiring \in {"none", "sleep"}
        /\ (expiring = "sleep" => request[i].expires # Never)
    OBVIOUS
  <1>3. next \in [GeoTask -> GeoPc] /\ next["create"] = "done"
        /\ next["movement"] = moving /\ next["expiry"] = expiring
    <2>1. moving \in GeoPc /\ expiring \in GeoPc /\ "done" \in GeoPc
      BY <1>2 DEF GeoPc
    <2> QED BY <2>1 DEF GeoTask
  <1> HIDE DEF moving, expiring, next
  <1>4. /\ progress' \in [Subscription -> [GeoTask -> GeoPc]]
        /\ \A j \in Subscription \ {i} : progress'[j] = progress[j]
        /\ Creating(i)' = "done" /\ Moving(i)' = moving /\ Expiring(i)' = expiring
    BY <1>1, <1>3 DEF GeoInv, GeoTypeOK, Creating, Moving, Expiring
  <1>5. due' \in [Subscription -> Nat]
    BY <1>1, GeofencingAssumption DEF GeoInv, GeoTypeOK
  <1>6. GeoTypeOK'
    BY <1>1, <1>4, <1>5 DEF GeoInv, GeoTypeOK
  <1>7. DeletingInv'
    BY <1>1, <1>4 DEF GeoInv, DeletingInv, GeoTypeOK, Creating
  <1>8. ASSUME NEW j \in Subscription \ {i} PROVE SubscriptionInv(j)'
    BY <1>1, <1>4, <1>6, GeoTyped, Untouched DEF GeoInv
  <1>9. SubscriptionInv(i)'
    <2>1. /\ SubscriptionInv(i) /\ StartInv(i) /\ InitialInv(i) /\ BudgetInv(i)
          /\ ExpiryInv(i)
      BY DEF GeoInv, SubscriptionInv
    <2>2. Moving(i) = "none" /\ Expiring(i) = "none"
      BY <1>1, <2>1 DEF StartInv
    <2>3. StartInv(i)' /\ InitialInv(i)'
      BY <1>1, <1>4, <2>1 DEF StartInv, InitialInv
    <2>4. BudgetInv(i)'
      BY <1>1, <1>2, <1>4, <2>1, <2>2 DEF BudgetInv
    <2>5. ExpiryInv(i)'
      BY <1>1, <1>2, <1>4, <2>1, <2>2 DEF ExpiryInv
    <2> QED BY <2>3, <2>4, <2>5 DEF SubscriptionInv
  <1> QED BY <1>6, <1>7, <1>8, <1>9 DEF GeoInv

LEMMA CountEventStep ==
  ASSUME GeoInv, NEW i \in Subscription, NEW t \in {"create", "movement"}, CountEvent(i, t)
  PROVE  GeoInv'
  <1> DEFINE next == IF budget[i] = 1 THEN "evict" ELSE Finished(t)
             tally == IF budget[i] = 1 THEN sent[i]
                      ELSE [sent[i] EXCEPT !.areas = @ + 1]
  <1>1. /\ progress[i][t] = "count"
        /\ budget' = [budget EXCEPT ![i] = IF @ = 0 THEN 0 ELSE @ - 1]
        /\ UNCHANGED <<subscriptions, request, due, deleting, cancelled, geoNow>>
    BY DEF CountEvent
  <1>2. GoTo(i, t, next)
    BY DEF CountEvent
  <1>3. sent' = [sent EXCEPT ![i] = tally]
    <2>1. CASE budget[i] = 1
      <3>1. sent' = sent /\ sent \in [Subscription -> Tally]
        BY <2>1 DEF CountEvent, GeoInv, GeoTypeOK
      <3> QED BY <2>1, <3>1
    <2>2. CASE budget[i] # 1
      BY <2>2 DEF CountEvent
    <2> QED BY <2>1, <2>2
  <1>4. /\ sent[i] \in Tally /\ sent[i].areas \in Nat /\ sent[i].spent \in Nat
        /\ sent[i].expired \in Nat /\ budget[i] \in Nat /\ request[i].limit \in Int
    BY GeoTyped DEF GeoInv, GeoTypeOK
  <1>5. /\ tally \in Tally /\ tally.spent = sent[i].spent /\ tally.expired = sent[i].expired
        /\ tally.areas = IF budget[i] = 1 THEN sent[i].areas ELSE sent[i].areas + 1
    BY <1>4 DEF Tally
  <1>6. /\ next \in GeoPc
        /\ t = "create" => next = IF budget[i] = 1 THEN "evict" ELSE "reply"
        /\ t = "movement" => next = IF budget[i] = 1 THEN "evict" ELSE "done"
    BY DEF Finished, GeoPc
  <1> HIDE DEF next, tally
  <1>7. "create" \in GeoTask /\ "movement" \in GeoTask /\ "expiry" \in GeoTask
    BY DEF GeoTask
  <1>8. t \in GeoTask /\ t # "expiry"
    BY DEF GeoTask
  <1>9. /\ progress' \in [Subscription -> [GeoTask -> GeoPc]]
        /\ \A j \in Subscription \ {i} : progress'[j] = progress[j]
        /\ progress'[i][t] = next
        /\ \A u \in GeoTask \ {t} : progress'[i][u] = progress[i][u]
    BY <1>2, <1>6, <1>8, GoToMoves DEF GeoInv
  <1>10. /\ sent'[i] = tally /\ sent' \in [Subscription -> Tally]
         /\ \A j \in Subscription \ {i} : sent'[j] = sent[j]
    BY <1>3, <1>5 DEF GeoInv, GeoTypeOK
  <1>11. /\ budget'[i] = (IF budget[i] = 0 THEN 0 ELSE budget[i] - 1)
         /\ budget' \in [Subscription -> Nat]
         /\ \A j \in Subscription \ {i} : budget'[j] = budget[j]
    <2> DEFINE left == IF budget[i] = 0 THEN 0 ELSE budget[i] - 1
    <2>1. left \in Nat
      BY <1>4
    <2>2. budget' = [budget EXCEPT ![i] = left]
      BY <1>1
    <2>3. left = (IF budget[i] = 0 THEN 0 ELSE budget[i] - 1)
      OBVIOUS
    <2> HIDE DEF left
    <2> QED BY <2>1, <2>2, <2>3 DEF GeoInv, GeoTypeOK
  <1>12. GeoTypeOK'
    BY <1>1, <1>9, <1>10, <1>11 DEF GeoInv, GeoTypeOK
  <1>13. ASSUME NEW j \in Subscription \ {i} PROVE SubscriptionInv(j)'
    BY <1>1, <1>9, <1>10, <1>11, <1>12, GeoTyped, Untouched DEF GeoInv
  <1>14. /\ StartInv(i) /\ InitialInv(i) /\ BudgetInv(i) /\ ExpiryInv(i)
    BY DEF GeoInv, SubscriptionInv
  <1>15. CASE t = "create"
    <2>1. /\ Creating(i) = "count" /\ Creating(i)' = next
          /\ next = IF budget[i] = 1 THEN "evict" ELSE "reply"
          /\ Moving(i)' = Moving(i) /\ Expiring(i)' = Expiring(i)
      BY <1>1, <1>6, <1>7, <1>9, <1>15 DEF Creating, Moving, Expiring
    <2>2. /\ sent[i].areas = 0 /\ sent[i].spent = 0
          /\ Moving(i) = "none" /\ Expiring(i) = "none"
      BY <1>14, <2>1 DEF StartInv, InitialInv
    <2>3. DeletingInv'
      BY <1>1, <1>9, <2>1 DEF GeoInv, DeletingInv, GeoTypeOK, Creating
    <2>4. StartInv(i)' /\ InitialInv(i)'
      BY <1>1, <1>4, <1>5, <1>10, <1>14, <2>1, <2>2 DEF StartInv, InitialInv, BudgetInv
    <2>5. BudgetInv(i)'
      BY <1>1, <1>4, <1>5, <1>10, <1>11, <1>14, <2>1, <2>2 DEF InitialInv, BudgetInv
    <2>6. ExpiryInv(i)'
      BY <1>1, <1>5, <1>10, <1>14, <2>1 DEF ExpiryInv
    <2> QED BY <1>12, <1>13, <2>3, <2>4, <2>5, <2>6 DEF GeoInv, SubscriptionInv
  <1>16. CASE t = "movement"
    <2>1. /\ Moving(i) = "count" /\ Moving(i)' = next
          /\ next = IF budget[i] = 1 THEN "evict" ELSE "done"
          /\ Creating(i)' = Creating(i) /\ Expiring(i)' = Expiring(i)
      BY <1>1, <1>6, <1>7, <1>9, <1>16 DEF Creating, Moving, Expiring
    <2>2. Creating(i) = "done" /\ sent[i].spent = 0 /\ sent[i].areas <= 1
      BY <1>4, <1>14, <2>1 DEF StartInv, BudgetInv
    <2>3. DeletingInv'
      BY <1>1, <1>9, <2>1 DEF GeoInv, DeletingInv, GeoTypeOK, Creating
    <2>4. StartInv(i)' /\ InitialInv(i)'
      BY <1>1, <1>14, <2>1, <2>2 DEF StartInv, InitialInv
    <2>5. BudgetInv(i)'
      BY <1>1, <1>4, <1>5, <1>10, <1>11, <1>14, <2>1, <2>2 DEF BudgetInv
    <2>6. ExpiryInv(i)'
      BY <1>1, <1>5, <1>10, <1>14, <2>1 DEF ExpiryInv
    <2> QED BY <1>12, <1>13, <2>3, <2>4, <2>5, <2>6 DEF GeoInv, SubscriptionInv
  <1> QED BY <1>15, <1>16

LEMMA EvictSpentStep ==
  ASSUME GeoInv, NEW i \in Subscription, NEW t \in {"create", "movement"}, EvictSpent(i, t)
  PROVE  GeoInv'
  <1>1. /\ progress[i][t] = "evict" /\ subscriptions' = subscriptions \ {i}
        /\ GoTo(i, t, "drop")
        /\ UNCHANGED <<request, budget, due, deleting, cancelled, sent, geoNow>>
    BY DEF EvictSpent
  <1>2. /\ "create" \in GeoTask /\ "movement" \in GeoTask /\ "expiry" \in GeoTask
        /\ t \in GeoTask /\ t # "expiry" /\ "drop" \in GeoPc
    BY DEF GeoTask, GeoPc
  <1>3. /\ progress' \in [Subscription -> [GeoTask -> GeoPc]]
        /\ \A j \in Subscription \ {i} : progress'[j] = progress[j]
        /\ progress'[i][t] = "drop"
        /\ \A u \in GeoTask \ {t} : progress'[i][u] = progress[i][u]
    BY <1>1, <1>2, GoToMoves DEF GeoInv
  <1>4. GeoTypeOK'
    BY <1>1, <1>3 DEF GeoInv, GeoTypeOK
  <1>5. ASSUME NEW j \in Subscription \ {i} PROVE SubscriptionInv(j)'
    BY <1>1, <1>3, <1>4, GeoTyped, Untouched DEF GeoInv
  <1>6. /\ StartInv(i) /\ InitialInv(i) /\ BudgetInv(i) /\ ExpiryInv(i)
    BY DEF GeoInv, SubscriptionInv
  <1>7. /\ (t = "create" =>
              /\ Creating(i) = "evict" /\ Creating(i)' = "drop"
              /\ Moving(i)' = Moving(i))
        /\ (t = "movement" =>
              /\ Moving(i) = "evict" /\ Moving(i)' = "drop"
              /\ Creating(i)' = Creating(i))
        /\ Expiring(i)' = Expiring(i)
    BY <1>1, <1>2, <1>3 DEF Creating, Moving, Expiring
  <1>8. t = "movement" => Creating(i) = "done"
    BY <1>6, <1>7 DEF StartInv
  <1>9. DeletingInv'
    <2>1. Creating(i)' # "none"
      BY <1>7, <1>8
    <2> QED BY <1>1, <1>3, <2>1 DEF GeoInv, DeletingInv, GeoTypeOK, Creating
  <1>10. StartInv(i)' /\ InitialInv(i)'
    <2>1. CASE t = "create"
      BY <1>1, <1>6, <1>7, <2>1 DEF StartInv, InitialInv
    <2>2. CASE t = "movement"
      BY <1>1, <1>6, <1>7, <1>8, <2>2 DEF StartInv, InitialInv
    <2> QED BY <2>1, <2>2
  <1>11. BudgetInv(i)'
    <2>1. CASE t = "create"
      BY <1>1, <1>6, <1>7, <2>1 DEF BudgetInv
    <2>2. CASE t = "movement"
      BY <1>1, <1>6, <1>7, <2>2 DEF BudgetInv
    <2> QED BY <2>1, <2>2
  <1>12. ExpiryInv(i)'
    BY <1>1, <1>6, <1>7 DEF ExpiryInv
  <1> QED BY <1>4, <1>5, <1>9, <1>10, <1>11, <1>12 DEF GeoInv, SubscriptionInv

LEMMA SendSpentStep ==
  ASSUME GeoInv, NEW i \in Subscription, NEW t \in {"create", "movement"}, SendSpent(i, t)
  PROVE  GeoInv'
  <1> DEFINE tally == [sent[i] EXCEPT !.areas = @ + 1, !.spent = @ + 1]
  <1>1. /\ progress[i][t] = "drop" /\ budget' = [budget EXCEPT ![i] = 0]
        /\ GoTo(i, t, Finished(t))
        /\ UNCHANGED <<subscriptions, request, due, deleting, cancelled, geoNow>>
    BY DEF SendSpent
  <1>2. /\ sent[i] \in Tally /\ sent[i].areas \in Nat /\ sent[i].spent \in Nat
        /\ sent[i].expired \in Nat /\ budget[i] \in Nat /\ request[i].limit \in Int
    BY GeoTyped DEF GeoInv, GeoTypeOK
  <1>3. sent' = [sent EXCEPT ![i] = tally]
    BY DEF SendSpent
  <1>4. /\ tally \in Tally /\ tally.areas = sent[i].areas + 1
        /\ tally.spent = sent[i].spent + 1 /\ tally.expired = sent[i].expired
    <2> DEFINE one == [sent[i] EXCEPT !.areas = @ + 1]
    <2>1. /\ one \in Tally /\ one.areas = sent[i].areas + 1
          /\ one.spent = sent[i].spent /\ one.expired = sent[i].expired
      BY <1>2 DEF Tally
    <2>2. tally = [one EXCEPT !.spent = @ + 1]
      BY <1>2 DEF Tally
    <2> HIDE DEF one, tally
    <2> QED BY <1>2, <2>1, <2>2 DEF Tally
  <1> HIDE DEF tally
  <1>5. /\ "create" \in GeoTask /\ "movement" \in GeoTask /\ "expiry" \in GeoTask
        /\ t \in GeoTask /\ t # "expiry" /\ Finished(t) \in GeoPc
    BY DEF GeoTask, GeoPc, Finished
  <1>6. /\ progress' \in [Subscription -> [GeoTask -> GeoPc]]
        /\ \A j \in Subscription \ {i} : progress'[j] = progress[j]
        /\ progress'[i][t] = Finished(t)
        /\ \A u \in GeoTask \ {t} : progress'[i][u] = progress[i][u]
    BY <1>1, <1>5, GoToMoves DEF GeoInv
  <1>7. /\ sent'[i] = tally /\ sent' \in [Subscription -> Tally]
        /\ \A j \in Subscription \ {i} : sent'[j] = sent[j]
    BY <1>3, <1>4 DEF GeoInv, GeoTypeOK
  <1>8. /\ budget'[i] = 0 /\ budget' \in [Subscription -> Nat]
        /\ \A j \in Subscription \ {i} : budget'[j] = budget[j]
    BY <1>1 DEF GeoInv, GeoTypeOK
  <1>9. GeoTypeOK'
    BY <1>1, <1>6, <1>7, <1>8 DEF GeoInv, GeoTypeOK
  <1>10. ASSUME NEW j \in Subscription \ {i} PROVE SubscriptionInv(j)'
    BY <1>1, <1>6, <1>7, <1>8, <1>9, GeoTyped, Untouched DEF GeoInv
  <1>11. /\ StartInv(i) /\ InitialInv(i) /\ BudgetInv(i) /\ ExpiryInv(i)
    BY DEF GeoInv, SubscriptionInv
  <1>12. CASE t = "create"
    <2>1. /\ Creating(i) = "drop" /\ Creating(i)' = "reply"
          /\ Moving(i)' = Moving(i) /\ Expiring(i)' = Expiring(i)
      BY <1>1, <1>5, <1>6, <1>12 DEF Creating, Moving, Expiring, Finished
    <2>2. /\ sent[i].areas = 0 /\ sent[i].spent = 0 /\ request[i].limit = 1
          /\ Moving(i) = "none" /\ Expiring(i) = "none" /\ i \notin subscriptions
      BY <1>11, <2>1 DEF StartInv, InitialInv
    <2>3. DeletingInv'
      BY <1>1, <1>6, <2>1 DEF GeoInv, DeletingInv, GeoTypeOK, Creating
    <2>4. StartInv(i)' /\ InitialInv(i)'
      BY <1>1, <1>8, <1>11, <2>1, <2>2 DEF StartInv, InitialInv
    <2>5. BudgetInv(i)'
      BY <1>1, <1>4, <1>7, <1>8, <2>1, <2>2 DEF BudgetInv
    <2>6. ExpiryInv(i)'
      BY <1>1, <1>4, <1>7, <1>11, <2>1 DEF ExpiryInv
    <2> QED BY <1>9, <1>10, <2>3, <2>4, <2>5, <2>6 DEF GeoInv, SubscriptionInv
  <1>13. CASE t = "movement"
    <2>1. /\ Moving(i) = "drop" /\ Moving(i)' = "done"
          /\ Creating(i)' = Creating(i) /\ Expiring(i)' = Expiring(i)
      BY <1>1, <1>5, <1>6, <1>13 DEF Creating, Moving, Expiring, Finished
    <2>2. /\ Creating(i) = "done" /\ sent[i].spent = 0
          /\ sent[i].areas + 1 = request[i].limit
      BY <1>11, <2>1 DEF StartInv, BudgetInv
    <2>3. DeletingInv'
      BY <1>1, <1>6, <2>1 DEF GeoInv, DeletingInv, GeoTypeOK, Creating
    <2>4. StartInv(i)' /\ InitialInv(i)'
      BY <1>1, <1>8, <1>11, <2>1, <2>2 DEF StartInv, InitialInv
    <2>5. BudgetInv(i)'
      BY <1>1, <1>2, <1>4, <1>7, <1>8, <2>1, <2>2 DEF BudgetInv
    <2>6. ExpiryInv(i)'
      BY <1>1, <1>4, <1>7, <1>11, <2>1 DEF ExpiryInv
    <2> QED BY <1>9, <1>10, <2>3, <2>4, <2>5, <2>6 DEF GeoInv, SubscriptionInv
  <1> QED BY <1>12, <1>13

LEMMA MovementWakesStep ==
  ASSUME GeoInv, NEW i \in Subscription, MovementWakes(i)
  PROVE  GeoInv'
  <1> DEFINE next == IF i \in subscriptions THEN "count" ELSE "done"
  <1>1. /\ Moving(i) = "sleep" /\ GoTo(i, "movement", next)
        /\ UNCHANGED <<subscriptions, request, budget, due, deleting, cancelled, sent, geoNow>>
    BY DEF MovementWakes, Moving
  <1>2. next \in GeoPc /\ (\/ next = "count" /\ i \in subscriptions
                           \/ next = "done" /\ i \notin subscriptions)
    BY DEF GeoPc
  <1> HIDE DEF next
  <1>3. "create" \in GeoTask /\ "movement" \in GeoTask /\ "expiry" \in GeoTask
    BY DEF GeoTask
  <1>4. /\ progress' \in [Subscription -> [GeoTask -> GeoPc]]
        /\ \A j \in Subscription \ {i} : progress'[j] = progress[j]
        /\ Moving(i)' = next /\ Creating(i)' = Creating(i) /\ Expiring(i)' = Expiring(i)
    BY <1>1, <1>2, <1>3, GoToMoves DEF GeoInv, Creating, Moving, Expiring
  <1>5. GeoTypeOK'
    BY <1>1, <1>4 DEF GeoInv, GeoTypeOK
  <1>6. DeletingInv'
    BY <1>1, <1>4 DEF GeoInv, DeletingInv, GeoTypeOK, Creating
  <1>7. ASSUME NEW j \in Subscription \ {i} PROVE SubscriptionInv(j)'
    BY <1>1, <1>4, <1>5, GeoTyped, Untouched DEF GeoInv
  <1>8. SubscriptionInv(i)'
    <2>1. /\ StartInv(i) /\ InitialInv(i) /\ BudgetInv(i) /\ ExpiryInv(i)
      BY DEF GeoInv, SubscriptionInv
    <2>2. Creating(i) = "done"
      BY <1>1, <2>1 DEF StartInv
    <2>3. StartInv(i)' /\ InitialInv(i)'
      BY <1>1, <1>4, <2>1, <2>2 DEF StartInv, InitialInv
    <2>4. BudgetInv(i)'
      <3>1. sent[i].areas \in Nat /\ sent[i].spent \in Nat /\ request[i].limit \in Int
        BY GeoTyped DEF GeoInv
      <3> QED BY <1>1, <1>2, <1>4, <2>1, <3>1 DEF BudgetInv
    <2>5. ExpiryInv(i)'
      BY <1>1, <1>4, <2>1 DEF ExpiryInv
    <2> QED BY <2>3, <2>4, <2>5 DEF SubscriptionInv
  <1> QED BY <1>5, <1>6, <1>7, <1>8 DEF GeoInv

LEMMA ExpiryWakesStep ==
  ASSUME GeoInv, NEW i \in Subscription, ExpiryWakes(i)
  PROVE  GeoInv'
  <1> DEFINE next == IF i \in subscriptions THEN "drop" ELSE "late"
  <1>1. /\ Expiring(i) = "sleep" /\ geoNow >= request[i].expires
        /\ subscriptions' = subscriptions \ {i}
        /\ GoTo(i, "expiry", next)
        /\ UNCHANGED <<request, budget, due, deleting, cancelled, sent, geoNow>>
    BY DEF ExpiryWakes, Expiring
  <1>2. next \in GeoPc /\ (\/ next = "drop" /\ i \in subscriptions
                           \/ next = "late" /\ i \notin subscriptions)
    BY DEF GeoPc
  <1> HIDE DEF next
  <1>3. "create" \in GeoTask /\ "movement" \in GeoTask /\ "expiry" \in GeoTask
    BY DEF GeoTask
  <1>4. /\ progress' \in [Subscription -> [GeoTask -> GeoPc]]
        /\ \A j \in Subscription \ {i} : progress'[j] = progress[j]
        /\ Moving(i)' = Moving(i) /\ Creating(i)' = Creating(i) /\ Expiring(i)' = next
    BY <1>1, <1>2, <1>3, GoToMoves DEF GeoInv, Creating, Moving, Expiring
  <1>5. GeoTypeOK'
    BY <1>1, <1>4 DEF GeoInv, GeoTypeOK
  <1>6. DeletingInv'
    BY <1>1, <1>4 DEF GeoInv, DeletingInv, GeoTypeOK, Creating
  <1>7. ASSUME NEW j \in Subscription \ {i} PROVE SubscriptionInv(j)'
    BY <1>1, <1>4, <1>5, GeoTyped, Untouched DEF GeoInv
  <1>8. SubscriptionInv(i)'
    <2>1. /\ StartInv(i) /\ InitialInv(i) /\ BudgetInv(i) /\ ExpiryInv(i)
      BY DEF GeoInv, SubscriptionInv
    <2>2. Creating(i) = "done"
      BY <1>1, <2>1 DEF StartInv
    <2>3. StartInv(i)' /\ InitialInv(i)'
      BY <1>1, <1>4, <2>1, <2>2 DEF StartInv, InitialInv
    <2>4. BudgetInv(i)'
      BY <1>1, <1>4, <2>1 DEF BudgetInv
    <2>5. ExpiryInv(i)'
      BY <1>1, <1>2, <1>4, <2>1 DEF StartInv, ExpiryInv
    <2> QED BY <2>3, <2>4, <2>5 DEF SubscriptionInv
  <1> QED BY <1>5, <1>6, <1>7, <1>8 DEF GeoInv

LEMMA ExpiryEndsStep ==
  ASSUME GeoInv, NEW i \in Subscription, ExpiryEnds(i)
  PROVE  GeoInv'
  <1> DEFINE tally == IF Expiring(i) = "drop"
                      THEN [sent[i] EXCEPT !.expired = @ + 1] ELSE sent[i]
  <1>1. /\ Expiring(i) \in {"drop", "late"} /\ budget' = [budget EXCEPT ![i] = 0]
        /\ GoTo(i, "expiry", "done")
        /\ UNCHANGED <<subscriptions, request, due, deleting, cancelled, geoNow>>
    BY DEF ExpiryEnds, Expiring
  <1>2. /\ sent[i] \in Tally /\ sent[i].areas \in Nat /\ sent[i].spent \in Nat
        /\ sent[i].expired \in Nat /\ budget[i] \in Nat /\ request[i].limit \in Int
    BY GeoTyped DEF GeoInv, GeoTypeOK
  <1>3. sent' = [sent EXCEPT ![i] = tally]
    <2>1. CASE Expiring(i) = "drop"
      BY <2>1 DEF ExpiryEnds, Expiring
    <2>2. CASE Expiring(i) # "drop"
      <3>1. sent' = sent /\ sent \in [Subscription -> Tally]
        BY <2>2 DEF ExpiryEnds, Expiring, GeoInv, GeoTypeOK
      <3> QED BY <2>2, <3>1
    <2> QED BY <2>1, <2>2
  <1>4. /\ tally \in Tally /\ tally.areas = sent[i].areas /\ tally.spent = sent[i].spent
        /\ tally.expired = IF Expiring(i) = "drop" THEN sent[i].expired + 1
                           ELSE sent[i].expired
    BY <1>2 DEF Tally
  <1> HIDE DEF tally
  <1>5. /\ "create" \in GeoTask /\ "movement" \in GeoTask /\ "expiry" \in GeoTask
        /\ "done" \in GeoPc
    BY DEF GeoTask, GeoPc
  <1>6. /\ progress' \in [Subscription -> [GeoTask -> GeoPc]]
        /\ \A j \in Subscription \ {i} : progress'[j] = progress[j]
        /\ Moving(i)' = Moving(i) /\ Creating(i)' = Creating(i) /\ Expiring(i)' = "done"
    BY <1>1, <1>5, GoToMoves DEF GeoInv, Creating, Moving, Expiring
  <1>7. /\ sent'[i] = tally /\ sent' \in [Subscription -> Tally]
        /\ \A j \in Subscription \ {i} : sent'[j] = sent[j]
    BY <1>3, <1>4 DEF GeoInv, GeoTypeOK
  <1>8. /\ budget'[i] = 0 /\ budget' \in [Subscription -> Nat]
        /\ \A j \in Subscription \ {i} : budget'[j] = budget[j]
    BY <1>1 DEF GeoInv, GeoTypeOK
  <1>9. GeoTypeOK'
    BY <1>1, <1>6, <1>7, <1>8 DEF GeoInv, GeoTypeOK
  <1>10. ASSUME NEW j \in Subscription \ {i} PROVE SubscriptionInv(j)'
    BY <1>1, <1>6, <1>7, <1>8, <1>9, GeoTyped, Untouched DEF GeoInv
  <1>11. /\ StartInv(i) /\ InitialInv(i) /\ BudgetInv(i) /\ ExpiryInv(i)
    BY DEF GeoInv, SubscriptionInv
  <1>12. Creating(i) = "done"
    BY <1>1, <1>11 DEF StartInv
  <1>13. DeletingInv'
    BY <1>1, <1>6 DEF GeoInv, DeletingInv, GeoTypeOK, Creating
  <1>14. StartInv(i)' /\ InitialInv(i)'
    BY <1>1, <1>6, <1>11, <1>12 DEF StartInv, InitialInv
  <1>15. BudgetInv(i)'
    BY <1>1, <1>4, <1>6, <1>7, <1>8, <1>11 DEF BudgetInv
  <1>16. ExpiryInv(i)'
    BY <1>1, <1>2, <1>4, <1>6, <1>7, <1>11 DEF ExpiryInv
  <1> QED BY <1>9, <1>10, <1>13, <1>14, <1>15, <1>16 DEF GeoInv, SubscriptionInv

LEMMA DeleteSubscriptionStep ==
  ASSUME GeoInv, NEW c \in GeoConnection, NEW i \in Subscription, DeleteSubscription(c, i)
  PROVE  GeoInv'
  <1>1. /\ Creating(i) # "none" /\ subscriptions' = subscriptions \ {i}
        /\ cancelled' = IF i \in subscriptions THEN cancelled \cup {i} ELSE cancelled
        /\ deleting' = [deleting EXCEPT ![c] = i]
        /\ UNCHANGED <<request, budget, progress, due, sent, geoNow>>
    BY DEF DeleteSubscription, Creating
  <1>2. /\ deleting'[c] = i /\ \A d \in GeoConnection \ {c} : deleting'[d] = deleting[d]
        /\ deleting' \in [GeoConnection -> Subscription \cup {NoSubscription}]
    BY <1>1 DEF GeoInv, GeoTypeOK
  <1>3. GeoTypeOK'
    BY <1>1, <1>2 DEF GeoInv, GeoTypeOK
  <1>4. DeletingInv'
    BY <1>1, <1>2 DEF GeoInv, DeletingInv, Creating
  <1>5. ASSUME NEW j \in Subscription \ {i} PROVE SubscriptionInv(j)'
    BY <1>1, <1>3, GeoTyped, Untouched DEF GeoInv
  <1>6. SubscriptionInv(i)'
    <2>1. /\ StartInv(i) /\ InitialInv(i) /\ BudgetInv(i) /\ ExpiryInv(i)
      BY DEF GeoInv, SubscriptionInv
    <2>2. Creating(i)' = Creating(i) /\ Moving(i)' = Moving(i) /\ Expiring(i)' = Expiring(i)
      BY <1>1 DEF Creating, Moving, Expiring
    <2>3. StartInv(i)' /\ InitialInv(i)'
      BY <1>1, <2>1, <2>2 DEF StartInv, InitialInv
    <2>4. BudgetInv(i)'
      BY <1>1, <2>1, <2>2 DEF BudgetInv
    <2>5. ExpiryInv(i)'
      BY <1>1, <2>1, <2>2 DEF ExpiryInv
    <2> QED BY <2>3, <2>4, <2>5 DEF SubscriptionInv
  <1> QED BY <1>3, <1>4, <1>5, <1>6 DEF GeoInv

LEMMA ReplyDeletedStep ==
  ASSUME GeoInv, NEW c \in GeoConnection, ReplyDeleted(c)
  PROVE  GeoInv'
  <1>1. PICK i \in Subscription : i = deleting[c]
    BY DEF ReplyDeleted, GeoInv, GeoTypeOK
  <1>2. /\ budget' = [budget EXCEPT ![i] = 0]
        /\ deleting' = [deleting EXCEPT ![c] = NoSubscription]
        /\ UNCHANGED <<subscriptions, request, progress, due, cancelled, sent, geoNow>>
    BY <1>1 DEF ReplyDeleted
  <1>3. i \notin subscriptions /\ Creating(i) # "none"
    BY <1>1 DEF ReplyDeleted, GeoInv, DeletingInv
  <1>4. /\ deleting' \in [GeoConnection -> Subscription \cup {NoSubscription}]
        /\ deleting'[c] = NoSubscription
        /\ \A d \in GeoConnection \ {c} : deleting'[d] = deleting[d]
        /\ budget'[i] = 0 /\ budget' \in [Subscription -> Nat]
        /\ \A j \in Subscription \ {i} : budget'[j] = budget[j]
    BY <1>2 DEF GeoInv, GeoTypeOK
  <1>5. GeoTypeOK'
    BY <1>2, <1>4 DEF GeoInv, GeoTypeOK
  <1>6. DeletingInv'
    BY <1>2, <1>4 DEF GeoInv, DeletingInv, Creating
  <1>7. ASSUME NEW j \in Subscription \ {i} PROVE SubscriptionInv(j)'
    BY <1>2, <1>4, <1>5, GeoTyped, Untouched DEF GeoInv
  <1>8. SubscriptionInv(i)'
    <2>1. /\ StartInv(i) /\ InitialInv(i) /\ BudgetInv(i) /\ ExpiryInv(i)
      BY DEF GeoInv, SubscriptionInv
    <2>2. Creating(i)' = Creating(i) /\ Moving(i)' = Moving(i) /\ Expiring(i)' = Expiring(i)
      BY <1>2 DEF Creating, Moving, Expiring
    <2>3. StartInv(i)' /\ InitialInv(i)'
      BY <1>2, <1>3, <1>4, <2>1, <2>2 DEF StartInv, InitialInv
    <2>4. BudgetInv(i)'
      BY <1>2, <1>4, <2>1, <2>2 DEF BudgetInv
    <2>5. ExpiryInv(i)'
      BY <1>2, <2>1, <2>2 DEF ExpiryInv
    <2> QED BY <2>3, <2>4, <2>5 DEF SubscriptionInv
  <1> QED BY <1>5, <1>6, <1>7, <1>8 DEF GeoInv

LEMMA QuietStep ==
  ASSUME GeoInv, geoNow' \in Nat, geoNow' >= geoNow,
         UNCHANGED <<subscriptions, request, budget, progress, due, deleting,
                     cancelled, sent>>
  PROVE  GeoInv'
  <1>1. GeoTypeOK'
    BY DEF GeoInv, GeoTypeOK
  <1>2. DeletingInv'
    BY DEF GeoInv, DeletingInv, Creating
  <1>3. ASSUME NEW j \in Subscription PROVE SubscriptionInv(j)'
    BY <1>1, Untouched DEF GeoInv
  <1> QED BY <1>1, <1>2, <1>3 DEF GeoInv

LEMMA GeoNextInv == GeoInv /\ [GeoNext]_geoVars => GeoInv'
  <1> SUFFICES ASSUME GeoInv, [GeoNext]_geoVars PROVE GeoInv'
    OBVIOUS
  <1>1. ASSUME NEW i \in Subscription,
               \/ \E r \in GeoRequest : CreateSubscription(i, r)
               \/ SetEventBudget(i) \/ ReplyCreated(i)
        PROVE  GeoInv'
    BY <1>1, CreateSubscriptionStep, SetEventBudgetStep, ReplyCreatedStep
  <1>2. ASSUME NEW i \in Subscription, NEW t \in {"create", "movement"},
               CountEvent(i, t) \/ EvictSpent(i, t) \/ SendSpent(i, t)
        PROVE  GeoInv'
    BY <1>2, CountEventStep, EvictSpentStep, SendSpentStep
  <1>3. ASSUME NEW i \in Subscription,
               MovementWakes(i) \/ ExpiryWakes(i) \/ ExpiryEnds(i)
        PROVE  GeoInv'
    BY <1>3, MovementWakesStep, ExpiryWakesStep, ExpiryEndsStep
  <1>4. ASSUME NEW i \in Subscription, NEW c \in GeoConnection, DeleteSubscription(c, i)
        PROVE  GeoInv'
    BY <1>4, DeleteSubscriptionStep
  <1>5. ASSUME NEW c \in GeoConnection, ReplyDeleted(c)
        PROVE  GeoInv'
    BY <1>5, ReplyDeletedStep
  <1>6. CASE GeoTick
    BY <1>6, QuietStep DEF GeoTick, GeoInv, GeoTypeOK
  <1>7. CASE UNCHANGED geoVars
    BY <1>7, QuietStep DEF geoVars, GeoInv, GeoTypeOK
  <1> QED BY <1>1, <1>2, <1>3, <1>4, <1>5, <1>6, <1>7 DEF GeoNext

LEMMA GeoInvariant == GeoSpec => []GeoInv
  <1> QED BY GeoInitInv, GeoNextInv, PTL DEF GeoSpec

-----------------------------------------------------------------------------
(* The theorem *)

\* The events of a subscription are true: no more crossings than its limit, one
\* MAX_EVENTS_REACHED, after exactly that many, and one SUBSCRIPTION_EXPIRED,
\* in time and never for a subscription somebody deleted.
THEOREM EventsAreTruthful == GeoSpec => []EventsTruthful
  <1>1. GeoInv => EventsTruthful
    <2> SUFFICES ASSUME GeoInv PROVE EventsTruthful
      OBVIOUS
    <2>1. ASSUME NEW i \in Subscription
          PROVE  /\ request[i].limit >= 1 => sent[i].areas <= request[i].limit
                 /\ sent[i].spent > 0 =>
                       sent[i].spent = 1 /\ sent[i].areas = request[i].limit
                 /\ sent[i].expired > 0 =>
                       /\ sent[i].expired = 1
                       /\ request[i].expires # Never /\ geoNow >= request[i].expires
                       /\ i \notin cancelled /\ i \notin subscriptions
      <3>1. /\ BudgetInv(i) /\ ExpiryInv(i)
        BY DEF GeoInv, SubscriptionInv
      <3>2. /\ Moving(i) \in GeoPc /\ sent[i].areas \in Nat /\ sent[i].spent \in Nat
            /\ sent[i].expired \in Nat /\ request[i].limit \in Int
        BY GeoTyped DEF GeoInv
      <3>3. sent[i].expired > 0 =>
               /\ sent[i].expired = 1
               /\ request[i].expires # Never /\ geoNow >= request[i].expires
               /\ i \notin cancelled /\ i \notin subscriptions
        BY <3>1, <3>2 DEF ExpiryInv
      <3>4. /\ request[i].limit >= 1 => sent[i].areas <= request[i].limit
            /\ sent[i].spent > 0 =>
                  sent[i].spent = 1 /\ sent[i].areas = request[i].limit
        BY <3>1, <3>2 DEF BudgetInv
      <3> QED BY <3>3, <3>4
    <2> QED BY <2>1 DEF GeoInv, EventsTruthful, BudgetHonoured, ExpiryTruthful
  <1> QED BY <1>1, GeoInvariant, PTL

-----------------------------------------------------------------------------
(* How a subscription ends *)

\* The handler of the POST or the movement timer is about to count an event.
Counting(i) == \/ Creating(i) \in {"budget", "count", "evict"}
               \/ Moving(i) \in {"count", "evict"}

\* The three outcomes, announced or about to be: a DELETE answered 204, the
\* expiry timer, and the event that spent the budget.
Cancelled(i) == i \in cancelled
Expired(i) == sent[i].expired > 0 \/ Expiring(i) = "drop"
Spent(i) == sent[i].spent > 0 \/ Creating(i) = "drop" \/ Moving(i) = "drop"

\* Each subscription that is gone has an outcome: none is dropped in silence.
EndHasOutcome ==
    \A i \in Subscription :
       Creating(i) # "none" /\ i \notin subscriptions
          => Cancelled(i) \/ Expired(i) \/ Spent(i)

\* "Exactly one terminal outcome fires", as v0_4.rs says of deliver_counted.
OneOutcome ==
    \A i \in Subscription : /\ ~(Cancelled(i) /\ Expired(i))
                            /\ ~(Cancelled(i) /\ Spent(i))
                            /\ ~(Expired(i) /\ Spent(i))

\* A DELETE or the expiry timer removes a subscription under a task that is
\* about to count an event of it.
EndUnderCount ==
    \E i \in subscriptions \ subscriptions' :
       Counting(i) /\ Creating(i)' = Creating(i) /\ Moving(i)' = Moving(i)

CountingInv ==
    \A i \in Subscription :
       /\ Counting(i) => i \in subscriptions
       /\ Spent(i) => i \notin subscriptions /\ ~Cancelled(i) /\ ~Expired(i)

-----------------------------------------------------------------------------
(* What a step does to one subscription *)

Still(i) == /\ Creating(i)' = Creating(i) /\ Moving(i)' = Moving(i)
            /\ Expiring(i)' = Expiring(i)
Listed(i) == i \in subscriptions' <=> i \in subscriptions
Told(i) == sent'[i].spent = sent[i].spent /\ sent'[i].expired = sent[i].expired
Quiet(i) == Listed(i) /\ Told(i) /\ (i \in cancelled' <=> i \in cancelled)

CreatingMoves(i) ==
    /\ Moving(i)' = Moving(i) /\ Expiring(i)' = Expiring(i)
    /\ i \in cancelled' <=> i \in cancelled
    /\ \/ /\ Creating(i) = "none" /\ Creating(i)' # "drop"
          /\ i \in subscriptions' /\ Told(i)
       \/ /\ Creating(i) \in {"budget", "count"}
          /\ Creating(i)' \in {"count", "evict", "reply"} /\ Listed(i) /\ Told(i)
       \/ /\ Creating(i) = "evict" /\ Creating(i)' = "drop"
          /\ i \notin subscriptions' /\ Told(i)
       \/ /\ Creating(i) = "drop" /\ Creating(i)' = "reply" /\ Listed(i)
          /\ sent'[i].spent = sent[i].spent + 1 /\ sent'[i].expired = sent[i].expired

MovementMoves(i) ==
    /\ Creating(i)' = Creating(i) /\ Expiring(i)' = Expiring(i)
    /\ i \in cancelled' <=> i \in cancelled
    /\ \/ /\ Moving(i) = "sleep" /\ i \in subscriptions
          /\ Moving(i)' = "count" /\ Listed(i) /\ Told(i)
       \/ /\ Moving(i) = "sleep" /\ Moving(i)' = "done" /\ Listed(i) /\ Told(i)
       \/ /\ Moving(i) = "count" /\ Moving(i)' \in {"evict", "done"}
          /\ Listed(i) /\ Told(i)
       \/ /\ Moving(i) = "evict" /\ Moving(i)' = "drop"
          /\ i \notin subscriptions' /\ Told(i)
       \/ /\ Moving(i) = "drop" /\ Moving(i)' = "done" /\ Listed(i)
          /\ sent'[i].spent = sent[i].spent + 1 /\ sent'[i].expired = sent[i].expired

ExpiryMoves(i) ==
    /\ Creating(i)' = Creating(i) /\ Moving(i)' = Moving(i)
    /\ i \in cancelled' <=> i \in cancelled
    /\ sent'[i].spent = sent[i].spent
    /\ \/ /\ Expiring(i) = "sleep" /\ Told(i) /\ i \notin subscriptions'
          /\ Expiring(i)' = IF i \in subscriptions THEN "drop" ELSE "late"
       \/ /\ Expiring(i) = "drop" /\ Expiring(i)' = "done" /\ Listed(i)
          /\ sent'[i].expired = sent[i].expired + 1
       \/ /\ Expiring(i) = "late" /\ Expiring(i)' = "done" /\ Listed(i) /\ Told(i)

Replies(i) ==
    /\ Creating(i) = "reply" /\ Creating(i)' = "done" /\ Quiet(i)
    /\ Moving(i)' \in {"none", "sleep"} /\ Expiring(i)' \in {"none", "sleep"}

IsDeleted(i) ==
    /\ Still(i) /\ Told(i) /\ Creating(i) # "none" /\ i \notin subscriptions'
    /\ i \in cancelled' <=> i \in cancelled \/ i \in subscriptions

Effect(i) == \/ Still(i) /\ Quiet(i)
             \/ CreatingMoves(i) \/ MovementMoves(i) \/ ExpiryMoves(i)
             \/ Replies(i) \/ IsDeleted(i)

\* One action touches one subscription.
LEMMA OthersStill ==
  ASSUME GeoInv, NEW j \in Subscription, progress'[j] = progress[j], sent'[j] = sent[j],
         Listed(j), j \in cancelled' <=> j \in cancelled
  PROVE  Effect(j)
  BY DEF Effect, Still, Quiet, Told, Creating, Moving, Expiring

LEMMA CreateEffect ==
  ASSUME GeoInv, NEW i \in Subscription, NEW j \in Subscription,
         \/ \E r \in GeoRequest : CreateSubscription(i, r)
         \/ SetEventBudget(i) \/ ReplyCreated(i)
  PROVE  Effect(j)
  <1>0. progress[i] \in [GeoTask -> GeoPc] /\ "create" \in GeoTask
        /\ "movement" \in GeoTask /\ "expiry" \in GeoTask
    BY DEF GeoInv, GeoTypeOK, GeoTask
  <1>1. ASSUME NEW r \in GeoRequest, CreateSubscription(i, r) PROVE Effect(j)
    <2> DEFINE next == IF r.limit >= 1 THEN "budget" ELSE AfterBudget(r)
    <2>1. next \in {"budget", "reply", "count"} /\ next \in GeoPc
      BY DEF AfterBudget, GeoPc
    <2>2. /\ Creating(i) = "none" /\ GoTo(i, "create", next)
          /\ subscriptions' = subscriptions \cup {i} /\ UNCHANGED <<cancelled, sent>>
      BY <1>1 DEF CreateSubscription, Creating
    <2> HIDE DEF next
    <2>3. /\ \A k \in Subscription \ {i} : progress'[k] = progress[k]
          /\ Creating(i)' = next /\ Moving(i)' = Moving(i) /\ Expiring(i)' = Expiring(i)
      BY <1>0, <2>1, <2>2, GoToMoves DEF GeoInv, Creating, Moving, Expiring
    <2>4. CASE j = i
      BY <2>1, <2>2, <2>3, <2>4 DEF Effect, CreatingMoves, Told
    <2>5. CASE j # i
      BY <2>2, <2>3, <2>5, OthersStill DEF Listed
    <2> QED BY <2>4, <2>5
  <1>2. CASE SetEventBudget(i)
    <2> DEFINE next == AfterBudget(request[i])
    <2>1. next \in {"reply", "count"} /\ next \in GeoPc
      BY DEF AfterBudget, GeoPc
    <2>2. /\ Creating(i) = "budget" /\ GoTo(i, "create", next)
          /\ UNCHANGED <<subscriptions, cancelled, sent>>
      BY <1>2 DEF SetEventBudget, Creating
    <2> HIDE DEF next
    <2>3. /\ \A k \in Subscription \ {i} : progress'[k] = progress[k]
          /\ Creating(i)' = next /\ Moving(i)' = Moving(i) /\ Expiring(i)' = Expiring(i)
      BY <1>0, <2>1, <2>2, GoToMoves DEF GeoInv, Creating, Moving, Expiring
    <2>4. CASE j = i
      BY <2>1, <2>2, <2>3, <2>4 DEF Effect, CreatingMoves, Told, Listed
    <2>5. CASE j # i
      BY <2>2, <2>3, <2>5, OthersStill DEF Listed
    <2> QED BY <2>4, <2>5
  <1>3. CASE ReplyCreated(i)
    <2>1. PICK m \in {"none", "sleep"}, x \in {"none", "sleep"} :
             progress' = [progress EXCEPT
                ![i] = [create |-> "done", movement |-> m, expiry |-> x]]
      BY <1>3 DEF ReplyCreated
    <2>2. /\ Creating(i) = "reply" /\ UNCHANGED <<subscriptions, cancelled, sent>>
      BY <1>3 DEF ReplyCreated, Creating
    <2>3. /\ \A k \in Subscription \ {i} : progress'[k] = progress[k]
          /\ Creating(i)' = "done" /\ Moving(i)' = m /\ Expiring(i)' = x
      BY <2>1 DEF GeoInv, GeoTypeOK, Creating, Moving, Expiring
    <2>4. CASE j = i
      BY <2>2, <2>3, <2>4 DEF Effect, Replies, Quiet, Told, Listed
    <2>5. CASE j # i
      BY <2>2, <2>3, <2>5, OthersStill DEF Listed
    <2> QED BY <2>4, <2>5
  <1> QED BY <1>1, <1>2, <1>3

LEMMA CountEffect ==
  ASSUME GeoInv, NEW i \in Subscription, NEW j \in Subscription,
         NEW t \in {"create", "movement"},
         CountEvent(i, t) \/ EvictSpent(i, t) \/ SendSpent(i, t)
  PROVE  Effect(j)
  <1>1. /\ "create" \in GeoTask /\ "movement" \in GeoTask /\ "expiry" \in GeoTask
        /\ t \in GeoTask /\ sent \in [Subscription -> Tally]
        /\ sent[i].spent \in Nat /\ sent[i].expired \in Nat /\ sent[i].areas \in Nat
    BY GeoTyped DEF GeoInv, GeoTypeOK, GeoTask
  <1>2. PICK next \in GeoPc :
           /\ GoTo(i, t, next)
           /\ \/ /\ progress[i][t] = "count" /\ Told(i) /\ Listed(i)
                 /\ next \in {"evict", Finished(t)}
              \/ /\ progress[i][t] = "evict" /\ next = "drop" /\ Told(i)
                 /\ i \notin subscriptions'
              \/ /\ progress[i][t] = "drop" /\ next = Finished(t) /\ Listed(i)
                 /\ sent'[i].spent = sent[i].spent + 1
                 /\ sent'[i].expired = sent[i].expired
    <2>1. CASE CountEvent(i, t)
      <3> DEFINE next == IF budget[i] = 1 THEN "evict" ELSE Finished(t)
      <3>1. next \in GeoPc /\ next \in {"evict", Finished(t)} /\ GoTo(i, t, next)
        BY <2>1 DEF CountEvent, Finished, GeoPc
      <3>2. Told(i)
        BY <2>1, <1>1 DEF CountEvent, Told, Tally
      <3>3. progress[i][t] = "count" /\ Listed(i)
        BY <2>1 DEF CountEvent, Listed
      <3> HIDE DEF next
      <3> QED BY <3>1, <3>2, <3>3
    <2>2. CASE EvictSpent(i, t)
      BY <2>2 DEF EvictSpent, Told, GeoPc
    <2>3. CASE SendSpent(i, t)
      <3>1. sent'[i].spent = sent[i].spent + 1 /\ sent'[i].expired = sent[i].expired
        BY <2>3, <1>1 DEF SendSpent, Tally
      <3>2. /\ progress[i][t] = "drop" /\ Listed(i) /\ Finished(t) \in GeoPc
            /\ GoTo(i, t, Finished(t))
        BY <2>3 DEF SendSpent, Listed, Finished, GeoPc
      <3> QED BY <3>1, <3>2
    <2> QED BY <2>1, <2>2, <2>3
  <1>3. /\ cancelled' = cancelled
        /\ \A k \in Subscription \ {i} : sent'[k] = sent[k] /\ Listed(k)
    BY <1>1 DEF CountEvent, EvictSpent, SendSpent, Listed
  <1>4. /\ \A k \in Subscription \ {i} : progress'[k] = progress[k]
        /\ progress'[i][t] = next
        /\ \A u \in GeoTask \ {t} : progress'[i][u] = progress[i][u]
    BY <1>1, <1>2, GoToMoves DEF GeoInv
  <1>5. CASE j = i /\ t = "create"
    BY <1>1, <1>2, <1>3, <1>4, <1>5
       DEF Effect, CreatingMoves, Creating, Moving, Expiring, Finished
  <1>6. CASE j = i /\ t = "movement"
    BY <1>1, <1>2, <1>3, <1>4, <1>6
       DEF Effect, MovementMoves, Creating, Moving, Expiring, Finished
  <1>7. CASE j # i
    BY <1>3, <1>4, <1>7, OthersStill
  <1> QED BY <1>5, <1>6, <1>7

LEMMA TimerEffect ==
  ASSUME GeoInv, NEW i \in Subscription, NEW j \in Subscription,
         MovementWakes(i) \/ ExpiryWakes(i) \/ ExpiryEnds(i)
  PROVE  Effect(j)
  <1>1. /\ "create" \in GeoTask /\ "movement" \in GeoTask /\ "expiry" \in GeoTask
        /\ sent \in [Subscription -> Tally] /\ sent[i].expired \in Nat
    BY GeoTyped DEF GeoInv, GeoTypeOK, GeoTask
  <1>2. CASE MovementWakes(i)
    <2> DEFINE next == IF i \in subscriptions THEN "count" ELSE "done"
    <2>1. next \in GeoPc /\ GoTo(i, "movement", next) /\ Moving(i) = "sleep"
          /\ UNCHANGED <<subscriptions, cancelled, sent>>
      BY <1>2 DEF MovementWakes, Moving, GeoPc
    <2>2. next = IF i \in subscriptions THEN "count" ELSE "done"
      OBVIOUS
    <2> HIDE DEF next
    <2>3. /\ \A k \in Subscription \ {i} : progress'[k] = progress[k]
          /\ Moving(i)' = next /\ Creating(i)' = Creating(i) /\ Expiring(i)' = Expiring(i)
      BY <1>1, <2>1, GoToMoves DEF GeoInv, Creating, Moving, Expiring
    <2>4. CASE j = i
      BY <2>1, <2>2, <2>3, <2>4 DEF Effect, MovementMoves, Told, Listed
    <2>5. CASE j # i
      BY <2>1, <2>3, <2>5, OthersStill DEF Listed
    <2> QED BY <2>4, <2>5
  <1>3. CASE ExpiryWakes(i)
    <2> DEFINE next == IF i \in subscriptions THEN "drop" ELSE "late"
    <2>1. next \in GeoPc /\ GoTo(i, "expiry", next) /\ Expiring(i) = "sleep"
          /\ subscriptions' = subscriptions \ {i} /\ UNCHANGED <<cancelled, sent>>
      BY <1>3 DEF ExpiryWakes, Expiring, GeoPc
    <2>2. next = IF i \in subscriptions THEN "drop" ELSE "late"
      OBVIOUS
    <2> HIDE DEF next
    <2>3. /\ \A k \in Subscription \ {i} : progress'[k] = progress[k]
          /\ Expiring(i)' = next /\ Creating(i)' = Creating(i) /\ Moving(i)' = Moving(i)
      BY <1>1, <2>1, GoToMoves DEF GeoInv, Creating, Moving, Expiring
    <2>4. CASE j = i
      BY <2>1, <2>2, <2>3, <2>4 DEF Effect, ExpiryMoves, Told
    <2>5. CASE j # i
      BY <2>1, <2>3, <2>5, OthersStill DEF Listed
    <2> QED BY <2>4, <2>5
  <1>4. CASE ExpiryEnds(i)
    <2>1. "done" \in GeoPc /\ GoTo(i, "expiry", "done")
          /\ Expiring(i) \in {"drop", "late"} /\ UNCHANGED <<subscriptions, cancelled>>
          /\ sent' = IF Expiring(i) = "drop"
                     THEN [sent EXCEPT ![i].expired = @ + 1] ELSE sent
      BY <1>4 DEF ExpiryEnds, Expiring, GeoPc
    <2>2. /\ \A k \in Subscription \ {i} : progress'[k] = progress[k]
          /\ Expiring(i)' = "done" /\ Creating(i)' = Creating(i) /\ Moving(i)' = Moving(i)
      BY <1>1, <2>1, GoToMoves DEF GeoInv, Creating, Moving, Expiring
    <2>3. /\ \A k \in Subscription \ {i} : sent'[k] = sent[k]
          /\ sent'[i].spent = sent[i].spent
          /\ sent'[i].expired = IF Expiring(i) = "drop" THEN sent[i].expired + 1
                                ELSE sent[i].expired
      BY <1>1, <2>1 DEF Tally
    <2>4. CASE j = i
      BY <2>1, <2>2, <2>3, <2>4 DEF Effect, ExpiryMoves, Told, Listed
    <2>5. CASE j # i
      BY <2>1, <2>2, <2>3, <2>5, OthersStill DEF Listed
    <2> QED BY <2>4, <2>5
  <1> QED BY <1>2, <1>3, <1>4

LEMMA StepEffect ==
  ASSUME GeoInv, [GeoNext]_geoVars, NEW j \in Subscription
  PROVE  Effect(j)
  <1>1. ASSUME NEW i \in Subscription, NEW c \in GeoConnection, DeleteSubscription(c, i)
        PROVE  Effect(j)
    <2>1. /\ progress' = progress /\ sent' = sent /\ Creating(i) # "none"
          /\ subscriptions' = subscriptions \ {i}
          /\ cancelled' = IF i \in subscriptions THEN cancelled \cup {i} ELSE cancelled
      BY <1>1 DEF DeleteSubscription, Creating
    <2>2. CASE j = i
      BY <2>1, <2>2 DEF Effect, IsDeleted, Still, Told, Creating, Moving, Expiring
    <2>3. CASE j # i
      BY <2>1, <2>3, OthersStill DEF Listed
    <2> QED BY <2>2, <2>3
  <1>2. CASE \/ GeoTick \/ UNCHANGED geoVars
             \/ \E c \in GeoConnection : ReplyDeleted(c)
    <2>1. UNCHANGED <<subscriptions, progress, sent, cancelled>>
      BY <1>2 DEF GeoTick, geoVars, ReplyDeleted
    <2> QED BY <2>1, OthersStill DEF Listed
  <1> QED BY <1>1, <1>2, CreateEffect, CountEffect, TimerEffect DEF GeoNext

-----------------------------------------------------------------------------
(* The theorems *)

LEMMA OutcomeStep ==
  ASSUME GeoInv, EndHasOutcome, [GeoNext]_geoVars
  PROVE  EndHasOutcome'
  <1> SUFFICES ASSUME NEW i \in Subscription, Creating(i)' # "none", i \notin subscriptions'
               PROVE  Cancelled(i)' \/ Expired(i)' \/ Spent(i)'
    BY DEF EndHasOutcome
  <1>1. Effect(i)
    BY StepEffect
  <1>2. /\ sent[i].spent \in Nat /\ sent[i].expired \in Nat
        /\ StartInv(i) /\ BudgetInv(i)
    BY GeoTyped DEF GeoInv, SubscriptionInv
  <1>3. Creating(i) # "none" /\ i \notin subscriptions
           => i \in cancelled \/ Expired(i) \/ Spent(i)
    BY DEF EndHasOutcome, Cancelled
  <1> QED BY <1>1, <1>2, <1>3 DEF Effect, CreatingMoves, MovementMoves, ExpiryMoves, Replies,
             IsDeleted, Still, Listed, Told, Quiet, Cancelled, Expired, Spent, StartInv, BudgetInv

\* No subscription ends without somebody being told, or having asked for it:
\* whoever removes one has announced the end, is about to, or was a DELETE that
\* is answered 204.
THEOREM EndsHaveAnOutcome == GeoSpec => []EndHasOutcome
  <1>1. GeoInit => EndHasOutcome
    BY DEF GeoInit, EndHasOutcome, Creating, GeoTask
  <1>2. GeoInv /\ EndHasOutcome /\ [GeoNext]_geoVars => EndHasOutcome'
    BY OutcomeStep
  <1> QED BY <1>1, <1>2, GeoInvariant, PTL DEF GeoSpec

LEMMA CountingStep ==
  ASSUME GeoInv, CountingInv, [GeoNext]_geoVars, [~EndUnderCount]_geoVars
  PROVE  CountingInv'
  <1> SUFFICES ASSUME NEW i \in Subscription
               PROVE  /\ Counting(i)' => i \in subscriptions'
                      /\ Spent(i)' => i \notin subscriptions' /\ ~Cancelled(i)' /\ ~Expired(i)'
    BY DEF CountingInv
  <1>1. Effect(i)
    BY StepEffect
  <1>2. /\ sent[i].spent \in Nat /\ sent[i].expired \in Nat
        /\ StartInv(i) /\ BudgetInv(i) /\ ExpiryInv(i) /\ InitialInv(i)
        /\ Creating(i) \in GeoPc
    BY GeoTyped DEF GeoInv, SubscriptionInv
  <1>3. /\ Counting(i) => i \in subscriptions
        /\ Spent(i) => i \notin subscriptions /\ i \notin cancelled /\ ~Expired(i)
    BY DEF CountingInv, Cancelled
  <1>4. ~(/\ i \in subscriptions /\ i \notin subscriptions' /\ Counting(i)
          /\ Creating(i)' = Creating(i) /\ Moving(i)' = Moving(i))
    BY DEF EndUnderCount, geoVars
  <1>5. CASE Still(i) /\ Quiet(i)
    BY <1>5, <1>3 DEF Still, Quiet, Listed, Told, Cancelled, Expired, Spent, Counting
  <1>6. CASE CreatingMoves(i)
    BY <1>6, <1>2, <1>3 DEF CreatingMoves, Listed, Told, Cancelled, Expired, Spent, Counting,
       StartInv, ExpiryInv, InitialInv
  <1>7. CASE MovementMoves(i)
    BY <1>7, <1>2, <1>3 DEF MovementMoves, Listed, Told, Cancelled, Expired, Spent, Counting,
       StartInv, ExpiryInv, BudgetInv
  <1>8. CASE ExpiryMoves(i)
    BY <1>8, <1>2, <1>3, <1>4 DEF ExpiryMoves, Listed, Told, Cancelled, Expired, Spent, Counting,
       StartInv, ExpiryInv
  <1>9. CASE Replies(i)
    BY <1>9, <1>2, <1>3 DEF Replies, Quiet, Listed, Told, Cancelled, Expired, Spent, Counting,
       StartInv
  <1>10. CASE IsDeleted(i)
    BY <1>10, <1>2, <1>3, <1>4 DEF IsDeleted, Still, Told, Cancelled, Expired, Spent, Counting
  <1> QED BY <1>1, <1>5, <1>6, <1>7, <1>8, <1>9, <1>10 DEF Effect

\* Exactly one terminal outcome fires, as long as nothing else removes the
\* subscription while an event of it is being counted: deliver_counted sends
\* MAX_EVENTS_REACHED without asking what store::remove found.
THEOREM OneOutcomeUnlessOvertaken ==
  GeoSpec /\ [][~EndUnderCount]_geoVars => [](EndHasOutcome /\ OneOutcome)
  <1>1. GeoInit => CountingInv
    <2> SUFFICES ASSUME GeoInit, NEW i \in Subscription
                 PROVE  ~Counting(i) /\ ~Spent(i)
      BY DEF CountingInv
    <2> QED BY DEF GeoInit, Counting, Spent, Creating, Moving, GeoTask
  <1>2. GeoInv /\ CountingInv /\ [GeoNext]_geoVars /\ [~EndUnderCount]_geoVars
           => CountingInv'
    BY CountingStep
  <1>3. GeoInv /\ CountingInv => OneOutcome
    <2> SUFFICES ASSUME GeoInv, CountingInv, NEW i \in Subscription
                 PROVE  /\ ~(Cancelled(i) /\ Expired(i))
                        /\ ~(Cancelled(i) /\ Spent(i)) /\ ~(Expired(i) /\ Spent(i))
      BY DEF OneOutcome
    <2>1. ExpiryInv(i) /\ (Spent(i) => ~Cancelled(i) /\ ~Expired(i))
      BY DEF GeoInv, SubscriptionInv, CountingInv
    <2> QED BY <2>1 DEF ExpiryInv, Cancelled, Expired
  <1> QED BY <1>1, <1>2, <1>3, GeoInvariant, EndsHaveAnOutcome, PTL DEF GeoSpec

=============================================================================
