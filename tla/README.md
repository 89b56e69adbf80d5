# CamaraSim in TLA+

CamaraSim (`src/`) is a single Rust process that answers the CAMARA telecom APIs
over HTTP. It is written with axum on tokio's multi-threaded runtime and keeps all
of its state in process-global `Mutex<HashMap<..>>` stores. Nothing is persisted: a
restart forgets everything, so there is no recovery to model. What can go wrong is
concurrency: a handler is atomic only while it holds a store's lock, most handlers
take several locks one after the other, and timers and notification deliveries run
in tasks of their own that outlive the request.

The models therefore take one lock acquisition, with the computation around it, as
one action. A program counter per connection (and per timer) joins the stretches of
a handler. A request that is refused answers 4xx, changes nothing, and is a
stuttering step.

## Inventory

### Stateful components

| component | state | operations | interacts with | hard behaviours | correct when |
|---|---|---|---|---|---|
| `apis/quality_on_demand` | sessions; sink credentials | create, get, delete, extend, retrieve by device; expiry and network-termination timers | auth (scopes), scenarios, sinks | timer against delete against extend; two-lock handlers; lost deliveries | a session ends once, is announced once and truthfully, never returns, and a timed one does end |
| `apis/carrier_billing` | payments; pending OTP validations; notify targets | charge, prepare, validate, confirm, cancel, get, list | auth, scenarios, sinks | confirm against cancel; shared attempt budget; target stored after the payment is visible | a payment settles once, the maps agree, the outcome is told at most once |
| `apis/one_time_password_sms` | issued passwords | send-code, validate-code | auth, scenarios | expiry and budget boundaries, double redemption | an id passes once at most, within its time and its budget |
| `auth` | authorization codes; backchannel requests | authorize, bc-authorize, token (3 grants), verification of every request | every API | racing redemptions, expiry between steps, two base URLs | a grant pays one token, for what was consented to |
| `apis/qos_provisioning` | assignments; credentials | create, get, revoke, retrieve by device; network-termination timer | auth, scenarios, sinks | AVAILABLE event against revoke, both taking the credential | as sessions; an event goes without its credential only when it was overtaken |
| `apis/qos_booking` | bookings; credentials | create, get, delete, retrieve; activation, window and termination timers | auth, scenarios, sinks | chained timers against delete; event sent after the switch | as sessions; the window that was booked is the window that was given |
| `apis/session_insights` | sessions; credentials | create, get, delete, retrieve, send metrics; two timers | auth, scenarios, sinks | scores sent for a session that was read before and ended since | as sessions |
| `apis/click_to_dial` | calls; sinks | create, get, terminate, recording; progression task | auth, scenarios, sinks | ids are reused after a terminate; the sink is stored after the call is visible | an ended call reports at most what was already looked up; no sink is told twice |
| `apis/geofencing_subscriptions` | subscriptions; event budgets | create, get, list, delete; expiry and movement timers | auth, scenarios, sinks | budget registered late and dropped by three tasks; event after the end | at most `maxEvents` crossings, truthful endings |
| `apis/edge_application_management` | applications; instances; deployments | submit and delete applications, create and delete instances, create, patch and delete deployments, lists | auth | look-up in one map, insert in another; a patch changes what the key was derived from | nothing is stored for an application or a zone that never was; a deleted deployment stays deleted; a deleted application stays quiet once the creations in service have ended |
| `apis/network_access_domains` | trust domains; their devices | create, get, patch, delete, of domains and of devices | auth, scenarios | as above; a deleted domain leaves its devices | no password is ever stored; a device is of a domain that was created; a deleted domain gains none but from registrations in service |
| `apis/in_home_device_management` | deleted devices; overridden fields | delete, patch; list, get, health and actions (reads) | auth, scenarios | a patch looks the device up twice, with a write in between | a patch that was let through is answered (it is not always: see the runs) |
| `apis/sponsored_data`, `apis/traffic_influence` | sponsorships; resources | create, read, patch, delete | auth, scenarios, sinks | none: one map, one critical section per operation, then one delivery | a record reads as last written |
| `apis/iot_sim_fraud_prevention` | IMEI bindings; area limits | bind, unbind, query | auth, scenarios | none: one critical section on one of the maps | a facet reads as last written |
| six record stores | records of `dedicated_network`, `dedicated_network_accesses`, `network_access_devices`, `application_profiles`, `application_endpoint_registration`, `blockchain_public_address` | create, read, update, delete | auth, scenarios | none: one map, one critical section per operation | as above |

### Stateless components

The other API directories under `apis/` (some forty, listed one by one in
`PROJECT.json`) map a request to an answer by the trailing digits of an identifier.
`scenarios.rs` and `errors.rs` hold that control plane, `registry.rs` the embedded
OpenAPI documents, `main.rs`, `apis.rs` and `apis/openapi.rs` start-up and routing.

### Hazards

`PROJECT.json` lists, line by line, what is hard to test here and the properties
aimed at it. They are of six sorts: races to end one thing (a session, a payment, a
grant, a subscription); a check under one lock used under a later one; state that
becomes visible before its companion in a side-store does; timers that must neither
fire early nor stop; keys derived from data, which are used again by the next thing
with that data or no longer match it after a patch; and counters at their limit. One
hazard has no property: expired passwords, codes and backchannel requests that nobody
redeems are never evicted, and the code states no bound that could be checked.

## Modules

| module | models | notes |
|---|---|---|
| `SessionLifecycle` | abstract | absent, live, then ended: silently or through an announcement |
| `QodSessions` | `quality_on_demand/{v1,store,notifications}.rs` | refines `SessionLifecycle` |
| `QodSessionsProofs` | | theorems about `QodSessions` |
| `TwoStepPayment` | abstract | a payment's status and the outcomes told |
| `CarrierBilling` | `carrier_billing/{v0_5,store,notifications}.rs` | refines `TwoStepPayment` |
| `CarrierBillingProofs` | | theorems about `CarrierBilling` |
| `OneTimeGrant` | abstract | unissued, open, held, then spent or void; at most one pay-out |
| `OneTimePassword` | `one_time_password_sms/{v1,store}.rs` | refines `OneTimeGrant` |
| `OneTimePasswordProofs` | | theorems about `OneTimePassword` |
| `TokenService` | `auth/{mod,authorize,codes,ciba,token,verify,purpose}.rs` | refines `OneTimeGrant` |
| `TokenServiceProofs` | | theorems about `TokenService` |
| `Scenarios` | `scenarios.rs` | trailing digits and reserved suffixes, as functions of the digits |
| `NetworkSessions` | `qos_provisioning`, `qos_booking`, `session_insights`: API, `store.rs`, `notifications.rs` | refines `SessionLifecycle`; extends `Scenarios` |
| `NetworkSessionsProofs` | | theorems about `NetworkSessions` |
| `GeofencingSubscriptions` | `geofencing_subscriptions/{v0_4,store,notifications}.rs` | extends `Scenarios` |
| `GeofencingProofs` | | theorems about `GeofencingSubscriptions` |
| `ClickToDial` | `click_to_dial/{vwip,store,notifications}.rs` | extends `Scenarios` |
| `ClickToDialProofs` | | theorems about `ClickToDial` |
| `EdgeCatalogue` | `edge_application_management/{vwip,store,instance_store,deployment_store}.rs` | |
| `TrustDomains` | `network_access_domains/{vwip,store}.rs` | extends `Scenarios` |
| `CatalogueProofs` | | theorems about `EdgeCatalogue`, `TrustDomains` and `InHomeDevices` |
| `InHomeDevices` | `in_home_device_management/{v1,store}.rs` | extends `Scenarios` |
| `MC...` | | the small instances TLC checks; `MCServices` joins `GeofencingSubscriptions`, `ClickToDial`, `EdgeCatalogue` and `TrustDomains` |

In all of them a store is its set of keys plus a function that keeps the value of a
key after the key is gone, so that a property can speak of what was removed. Session,
payment, grant and subscription ids are opaque and unique in the code (a counter
hashed with the clock), so minting one is picking an id that was not used. The ids of
calls, trust domains, instances and deployments are hashes of what identifies them, so
there the key is that data. What the trailing digits of an identifier select is a
constant of the first four models and computed from the digits by `Scenarios` in the
others. A client can only name an id some response has shown it: the 201 of a create,
or a list. That lists show an id before its create has been answered is what several
hazards turn on.

An operator whose comment begins with "Mutant" is a plausible bug, written before
the definition it would replace, and is used by nothing: for each property one such
replacement must make the property fail.

### QodSessions

`CreateSession`, `StoreCredential`, `ScheduleAndReply` are the three stretches of
`create_session`; `DeleteSession`, `DeleteNotify` the two of `delete_session`;
`ExtendCheck`, `ExtendUpdate` the two of `extend_session` (`store::get`, then
`store::update`). `TimerRead`, `TimerClock`, `TimerWake`, `TimerEvict`,
`TimerNotify` are the loop of `spawn_expiry`; a termination timer starts in its sleep
and never reads. `SpawnNotice` is the tail every ending shares: an event is minted,
the credential is taken, the delivery is spawned; `Deliver` and `Lose` end it, if the
sink lets it end.

### CarrierBilling

`PreparePayment`, `StashTarget`, `ReplyPrepared` are the stretches of
`prepare_payment`. `ValidatePayment` is atomic although it changes two maps, because
`validate_pending` holds the first lock while it takes the second.
`ConfirmPayment` and `CancelPayment` decide under the payment lock; `TakeAndNotify`
then takes the notify target. `wants` and `wrong` are history: what a payment's
request asked for and how many wrong codes were compared.

### OneTimePassword

`SendCode` and `ValidateCode` are one stretch each: `store::issue` and
`store::validate` read the clock under the lock. `Accept`, `Reject`, `EvictExpired`
are the verdicts that change the store.

### TokenService

`Authorize` and `BcAuthorize` bind a consent to an id in one of two stores.
`RedeemCode` removes the code (whatever the form says), `CheckRedemption` compares
expiry, redirect URI, client and verifier, `IssueToken` signs; `PollRequest` decides
under the lock and goes straight to `IssueToken`. `Verifies` and `Serves` are what
the `Claims` extractor and `require_scope` accept. A host is a value of the headers
`base_url` reads; two hosts stand for one server reached by two names, and
`Issuer` is the `CAMARASIM_ISSUER` override. An absent form parameter is refused
before anything is consumed and so stutters. The two-legged path of a token is
`ClientCredentials`. A token is what this server signed; the signature, the header
type and `nbf` (never stamped) are left out.

### NetworkSessions

The three services are written to one skeleton, and one module models them with one
action per handler; an id belongs to `Assignment`, `Booking` or `Insight`, and the
operators `StatusOf`, `DurationOf` and `Scheduled` hold what the services decide
differently. `Create` validates and stores the credential, `Insert` makes the resource
visible, `ScheduleAndReply` sends the immediate event and spawns the timer.
`Delete`, `DeleteNotify` are the stretches of the deletes; `SendSessionMetrics`,
`DeliverQualityScore` those of a metric report. `TimerEvict`, `TimerNotify` end a
resource; `TimerActivate` switches a scheduled booking and `TimerOpenWindow` sends
its ACTIVATED event and sleeps on to the end of the window. `events` holds what was
handed to a delivery, numbered, with whether it carried the credential.

### GeofencingSubscriptions

Each subscription has three tasks: the handler of the POST and the movement and the
expiry timer it spawns. `CountEvent`, `EvictSpent`, `SendSpent` are the stretches of
`deliver_counted` (`consume_event`, the two locks of `store::remove`, the delivery), which
the handler and the movement timer share. `ExpiryWakes`, `ExpiryEnds` and
`DeleteSubscription`, `ReplyDeleted` also take the two locks one after the other.

### ClickToDial

The key of a call is its pair of numbers. Accepted creations are numbered, so that two
calls of one pair can be told apart, although the code cannot. `CreateCall`,
`StoreSink` are the stretches of the POST, `LookUp`, `SendStep` a round of
`spawn_call_progression`, `TerminateCall`, `NotifyHangUp` those of the DELETE.

### EdgeCatalogue and TrustDomains

A creation that looks one map up and inserts into another is two actions, and what it
has yet to insert is kept per connection; a patch of a deployment reads, merges and
writes back (`UpdateAppDeployment`, `StoreUpdate`). Everything else is one critical
section. The list of zones of a deployment is a set, as it is sorted before it is
hashed; lists that name a zone twice are left out.

### InHomeDevices

`Household` computes the roster of an ssid from its digits. `DeleteDevice` is one stretch;
`UpdateDevice`, `MergeOverlay` and `RenderUpdate` or `RenderPanics` are those of
`update_device`, which takes the lock of the tombstones, that of the overlays, and the
first one again. A handler that panics holds no lock; its connection is not used again.

## Runs

| run | instance | distinct states | shows |
|---|---|---|---|
| `qod` | 1 session, 2 connections, 4 kinds of identifier, durations 0..3, ceiling 2, clock to 5 | 25 436 | 7 invariants, an action and 2 liveness properties, refinement |
| `billing` | 2 payments, 2 clients, 3 attempts | 143 750 | 6 invariants, refinement, announcement of outcomes |
| `otp` | 2 ids, 4 numbers, 3 codes, lifetime 2, clock to 4 | 16 149 | budget, expiry, refinement |
| `tokens` | 1 grant, 2 connections, 2 clients, 2 hosts, 2 redirects, 2 verifiers, lifetimes 2, 1 and 2, clock to 3 | 411 832 | single payment, consent, expiry, refinement |
| `sessions` | 1 assignment, 1 booking, 1 insight session of which one is created, 3 clients (one may create), 6 devices, durations 0, 2, 4, ceiling 3, clock to 2 | 16 565 | credentials live as long as needed, windows are honoured, timed resources end, refinement |
| `services` | 1 subscription, 6 devices, 4 limits, 3 expiry times, 2 DELETEs; 6 pairs, 2 calls, 2 terminates; 1 application, 2 zones (1 unknown), 2 deployment names, 2 connections; 1 service, 2 domain names, 1 device name, 3 connections | 53 551 | truthful geofencing events, hang-ups told once, late call steps bounded, sound catalogues in which what was deleted stays quiet |
| `qod_ceiling` | as `qod` | | two extends exceed the ceiling |
| `qod_extension` | as `qod` | | an extend that was answered 200 is lost to the timer |
| `qod_credential` | as `qod` | | a credential outlives its session |
| `billing_outcome` | as `billing` | | a reservation settles without an outcome event |
| `edge_patches` | as `services`, 3 deployment names | | two patches make two deployments identical |
| `in_home_update` | 3 households (1 refused), 2 connections | | a delete makes the handler of a patch panic |

The last six are five disagreements between a comment of the code and what the code
does, and a panic (`in_home_update`); `PROJECT.json` quotes the lines. Smaller ones,
which the models show but no run singles out:

- `geofencing_subscriptions` says that exactly one terminal outcome fires. The movement
  timer can spend the last of the budget while a delete is answered 204 or the expiry
  timer has removed the subscription: `deliver_counted` sends MAX_EVENTS_REACHED whether or
  not `store::remove` found something, so both ends can be announced, or one after a
  204. A crossing can also be sent after the end, as the timer looks the subscription
  up first, and a delete between the insert and `set_event_budget` leaves a budget behind.
  `EventsTruthful` states what does hold: the limit, the truth of the count, and that
  SUBSCRIPTION_EXPIRED itself comes at most once and never after a successful delete.
- `click_to_dial` says that a terminated call never emits a later event. One step that
  was already looked up does, and when the pair is called again the progression of the
  old call goes on under the id of the new one. A terminate between `insert_new` and
  `insert_sink` leaves a sink behind, which the end of a later call without a sink then
  uses; and the `take_sink` of an old terminate can take the sink of the new call.
- `network_access_domains`: a rename leaves the key, so two domains of one service can
  come to bear one name, while the old name goes on being refused with 409; devices of
  a deleted domain are there again when it is created again.
- `auth` keeps the issuer and the audience of a token apart "so a grant can target a
  resource server other than the token endpoint's own issuer", and the `Claims` extractor
  asks that both be its own base URL: a token authorised at one base URL and redeemed at
  another is served at neither.
- `edge_application_management`: of two patches that read the same deployment the second
  write wins.
- `qos_booking` says that no ACTIVATED event follows a delete; the switch and the event
  are two critical sections, and a delete may come between them.

### Bounds and why they are enough

- One session in `qod`: sessions share nothing but the clock and the connections, so
  the races are those on one session, by two connections and its timer. Two
  connections are what a lost update needs; the bound of `OvershootBounded` grows
  with the number of connections and two reach it. The proofs hold for any number.
- Durations 0 and 3 are illegal against the ceiling of 2, and 1 + 1 reaches the
  ceiling, 1 + 1 + 1 exceeds it. `CreateUntil` stops creates at instant 1, and from
  `MaxTime` on the clock runs only while a timer sleeps on a later instant, so every
  timer that was spawned gets its whole life; the horizon cuts off idle time only.
- `Grace` and lifetimes are shrunk to one or two ticks; what matters is whether an
  instant is before, at or after them, and whether time passes between two stretches.
- Two payments let one client mix them up; three attempts is the value of the code.
- Two ids in `otp`, with two numbers that share a code, exclude interference. The
  third code is one the server never sends.
- One grant in `tokens` because the product with two of every parameter is the most
  that finishes in minutes; two grants with one redirect and one verifier also pass.
  `MaxTwoLegged` stops two-legged tokens once a token exists, as they touch nothing.
- `sessions` creates one resource per behaviour: the resources share neither state nor
  locks that span stretches, so every race is on one of them. Three connections let two
  deletes, or a delete and a report, race the timer while the create is still being
  answered. Durations 0 and 4 are refused, 2 spans the start time 2 and the activation.
  `MaxTime` stops idle time only, as in `qod`; `MaxReports` 3 is one per connection.
- `services` explores one service at a time: `ServicesNext` lets a service move while
  the other three are as they started, because they share nothing. The limits 1 and 2
  are the interesting ones, since a subscription has two crossings to report; Unlimited
  and the refused 0 complete them. Expiry 0 is none; 1 and 2 fall before and after the
  movement timer. Two calls of one pair, two terminates and one leftover sink are what
  the reuse of an id needs; four of the six pairs are refused, each for another reason.
  One application, one known zone and two names give a deployment something to collide
  with; a third name lets two patches meet outside the keys (`edge_patches`). Of the three
  connections of the trust domains one has a subject whose digits select an error.
- `in_home_update`: a household of the gateway alone, one of two clients, and one whose
  digits select an error; one patch and one delete are all the race needs.
- `CHECK_DEADLOCK FALSE` in `otp`, `tokens`, `services`, `edge_patches` and
  `in_home_update`: no background task that repeats runs there, so once the ids or calls
  are spent and the clock has stopped nothing is left to do. In `qod`, `billing` and
  `sessions` deadlock is checked: clients can always list.

### Fairness

`qod`, `billing` and `sessions` assume weak fairness of the stretches that continue a
request and, in `qod` and `sessions`, of every timer step and of the clock. All are tasks
the runtime keeps polling, and none waits for a client or a sink. No fairness is assumed
of clients: nobody has to send a request, extend a session or confirm a payment. None is
assumed of deliveries either: `deliver_tls` and `write_request` await the connect, the TLS
handshake and the write without a timeout, so a sink that accepts the connection and
stays silent holds its delivery for ever. `EndingIsAnnounced` and `OutcomeAnnounced`
therefore say that an ending is handed to a delivery, not that the delivery ends, and
the liveness properties hold although every delivery may hang. `otp`, `tokens` and
`services` need no fairness.

## Proofs

The theorems hold for all values of the constants that satisfy the named assumption of
each module (`ConstantsAssumption`, or `GeofencingAssumption` and the like), which asks
no more than types: non-empty sets where a default is chosen, idle markers outside the
id sets, natural lifetimes, and finitely many connections where a bound counts them. Every
safety property of the passing runs is proved.

The argument is the same in each module. The invariants are not inductive as they
stand: they speak of what has happened, and the step that completes it was decided
earlier, under another lock. The strengthening says what a task under way owns.

- `QodSessionsProofs`: `RaceInv` adds that an ending has one owner (a deleting
  connection or the timer, the session being gone and not yet announced), that a
  session under creation is owned by its connection, that timers exist for timed
  sessions only and after the credential was stored, and that ids are minted before
  they are known. `LifecycleImplemented` follows step by step: removing is `End`,
  `SpawnNotice` is `Announce`, all else stutters. `OvershootLimited` needs to know how the
  extensions still to be applied add up, without a sum: `OvershootInv` says that one of
  the waiting connections, the one that passed the check last, stays below the ceiling
  plus one extension for each connection that is not waiting (`Room`); whichever of them
  applies its extension, another can play that part.
- `CarrierBillingProofs`: `Inv` adds the ownership of a payment by its preparing and
  its settling connection, when the target is stored, and the sum of attempts left
  and wrong codes. `PaymentImplemented` maps each handler to the payment's move.
- `OneTimePasswordProofs`: `Inv` is small, as each handler is one step.
- `TokenServiceProofs`: `Inv` adds that a redemption under way owns a grant that is in
  neither store and unpaid, that no two redemptions own the same one, and that a
  paid grant is in neither store. `GrantPaidOnce` is then the case of `IssueToken`;
  `GrantImplemented` maps the redemption to `Take`, a refusal to `Reject` and the
  signature to `PayOut`.
- `NetworkSessionsProofs`: `RaceInv` says who owns the creation and the end of a
  resource, as above. `CredentialInv` adds where a credential is and that an event still
  to be handed over was read while the resource lived, from which
  `CredentialsFollow` and `LateOrAuthenticated` are read off; `WindowInv` relates what a timer
  sleeps on to the start, the activation and the duration of its resource.
- `GeofencingProofs`: `GeoInv` says of each subscription where its three tasks may be and
  what the budget map may then hold: nothing, or exactly the limit less what was sent.
  A limit of one is spent by the initial event, which removes the subscription before
  the movement timer can find it. For the endings it adds that a removed subscription
  stays removed, so that only the task that removed it is past the removal.
- `ClickToDialProofs`: `DialInv` adds that an entry of the sink map is a stored one of its
  pair that no notice used, that a terminate under way holds an eviction of its own, and
  that a step looked up for a call that is gone was paid for by the eviction that removed
  it (`Owed`). `LateStepsAreBounded` is then a sum of two terms for each call.
- `CatalogueProofs`: `TrustInv` and `EdgeInv` say of what each connection has yet to write
  that it is fit to be stored whenever it is, and that what no patch has written is its
  own key. That what was deleted stays quiet follows step by step, from what each
  connection has yet to write. `HomeInv` says of each patch under way that it is of a member and, once merged, that
  its fields are in the overlay; it assumes nothing of the constants.

### The exact scope of the disagreements

A violation run shows that what a comment says can fail; it does not show that it fails
in that way only. The theorems below do: each names the one step (an action, or a state
for `OneExtender`) that the run's counterexample takes, and proves that in every
behaviour without it what the comment says holds. The hypothesis restricts the
scheduling and nothing else: races of every other kind stay possible.

| Run or remark | Holds unless | Theorem |
|---|---|---|
| `qod_ceiling` | two extensions of one session are between check and update (`OneExtender`) | `CeilingKeptUnlessOvertaken` |
| `qod_extension` | an extension is applied after the timer read the expiry and before it removes (`LateExtend`) | `HonouredUnlessLate` |
| `qod_credential` | a delete is announced while the create still holds the credential (`EarlyNotice`) | `DroppedUnlessEarly`, `LeaksAreMarked` |
| `billing_outcome` | a request that settled a payment looks for the target before prepare stashed it (`EarlySettle`) | `OutcomeFiresUnlessEarly` |
| `in_home_update` | the device is deleted between check and answer of its patch (`DeleteUnderPatch`) | `LiveUnlessDeleted` |
| `edge_patches` | an earlier patch moved one of the two away from its key | `TwinsNeedEarlierPatch` |
| geofencing, one outcome | a delete or the expiry removes a subscription under a task that counts an event of it (`EndUnderCount`) | `OneOutcomeUnlessOvertaken` |
| tokens served nowhere | the issuer is not pinned (a hypothesis on a constant: `CAMARASIM_ISSUER`) | `PinnedTokensServe` |

`TwinsNeedEarlierPatch` needs no hypothesis: it is an action property of every behaviour.
Further results that no run states, each proved for every behaviour (they were checked on
the instances of the runs first):

- `SecretAccountedFor`: a credential is held by its creator, stored, or was used for a notice,
  and in exactly one of the three states.
- `EndsHaveAnOutcome`: no geofencing subscription goes in silence.
- `ProgressIsToldInFull`: a call tells its script to the end unless it was terminated. The
  strengthening (`LivesOnInv`) is that a call has its id until the first eviction after its
  creation, although the id is then somebody else's.
- `PanicsLoseOnlyTheAnswer`, `OverridesAreKept`, `OnlyMembersChange`: what survives a patch
  that panics, and what no overlap of patches and deletes of in-home devices does.

### Liveness

Only model-checked: the liveness properties (`TimedSessionsEnd`,
`EndingIsAnnounced`, `OutcomeAnnounced`, `TimedResourcesEnd`), as liveness under fairness
is beyond the prover. What makes them true besides fairness is proved. `EndStaysInSight`
(of `QodSessionsProofs` and of `NetworkSessionsProofs`) says that whatever lives and is
timed has a task that will end it, and for QoD sessions that no race of extends moves the expiry
beyond a horizon fixed at the start; `NeverSilent` that an ending is announced or has an
owner who will; `OutcomeNeverDropped` that the owner of an outcome keeps it until
announced. Fairness then has one enabled step to take at each point; that argument is TLC's.

## Not modelled

- `sponsored_data`, `traffic_influence`, `iot_sim_fraud_prevention` and the six record
  stores: every operation that writes is one critical section on one record of one map.
  Nothing interleaves within an operation, so a model would restate assignments;
  `TrustDomains` stands for the kind where two such maps refer to each other. The revoke
  of a sponsorship and the creation of a traffic-influence resource then spawn one delivery
  from a copy of their own; the initial event of a resource may so follow its deletion.
- The stateless APIs: a function from the digits of an identifier to a canned answer.
  `Scenarios` models what they share; their tables are data.
- `auth_keys` (the signing key), `registry.rs` (embedded documents), start-up, routing.
- Formatting (RFC 3339 instants, JSON, JWT, base64), TLS, HTTP parsing and the wording of
  errors; the order and the pages of lists. Time is whole seconds.
- Poisoned locks: no critical section panics. Restarts: nothing is persisted.
- Whether and when a delivery ends: it may hang at its sink for ever. Outside `QodSessions`
  and `CarrierBilling` deliveries are not followed at all: the result of one is dropped and
  nothing retries, so there is nothing it could change.

Most of the lines under `src/` are inline tests (`registry.rs` is almost nothing else) and
the handlers of the stateless APIs, so the share of lines that the models translate is
small although every component with more than one critical section per operation is
modelled.

What could follow: the order and saturating pages of the payment list and the civil-date
arithmetic as pure algorithms against reference definitions.
