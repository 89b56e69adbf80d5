-------------------------- MODULE NetworkSessions --------------------------
(***************************************************************************)
(* Three services built on one skeleton: QoS provisioning (assignments),   *)
(* QoS booking (bookings) and session insights (sessions).  Each keeps a   *)
(* map of resources and a map of sink credentials, each behind a mutex,    *)
(* and spawns detached timers and deliveries.  The services share nothing  *)
(* but the runtime, so their maps are one function here, split by the set  *)
(* an id belongs to.                                                       *)
(*                                                                         *)
(* An action is one stretch between two acquisitions of a mutex.  A        *)
(* delivery only reads what it was spawned with and its result is dropped, *)
(* so an event is recorded when it is handed over and never revisited.     *)
(***************************************************************************)
EXTENDS Scenarios, FiniteSets

CONSTANTS
    Client,           \* HTTP connections, each with one request in service
    Assignment,       \* ids qos_provisioning can still mint
    Booking,          \* ids qos_booking can still mint
    Insight,          \* ids session_insights can still mint
    NoId,             \* the id field of an idle connection
    Device,           \* identifiers, as sequences of digits
    Echoed,           \* identifiers that name a device, and are echoed as one
    Scope,            \* the operations each client's token allows
    Duration,         \* seconds a booking may ask for, legal or not
    StartTime,        \* instants a booking may start at
    MaxDuration,      \* MAX_DURATION_SECS
    Grace,            \* NETWORK_TERMINATION_GRACE_SECS
    Lifetime,         \* SESSION_LIFETIME_SECS
    MaxCreates,       \* bound: resources created in a behaviour
    MaxReports,       \* bound: metric reports accepted in a behaviour
    MaxTime           \* bound: from here on the clock only runs to wake a sleeper

Id == Assignment \cup Booking \cup Insight
Operation == {"create", "delete", "retrieve", "write"}

ASSUME ConstantsAssumption ==
    /\ Assignment \cap Booking = {} /\ Assignment \cap Insight = {}
    /\ Booking \cap Insight = {}
    /\ NoId \notin Id
    /\ Device # {} /\ Device \subseteq Seq(Digit) /\ Echoed \subseteq Device
    /\ Scope \in [Client -> SUBSET Operation]
    /\ Duration \subseteq Nat /\ StartTime \subseteq Nat
    /\ MaxDuration \in Nat /\ Grace \in Nat /\ Lifetime \in Nat
    /\ MaxCreates \in Nat /\ MaxReports \in Nat /\ MaxTime \in Nat

VARIABLES
    live,      \* the keys of the three resource maps
    info,      \* the value under each key; kept once the key is gone
    used,      \* ids already minted
    creds,     \* the keys of the three credential maps
    secured,   \* ids created with a sink and a usable sinkCredential
    known,     \* ids some response has disclosed to the clients
    task,      \* where each connection's handler is
    timer,     \* where the timer task of each resource is
    events,    \* every CloudEvent handed to a delivery
    now        \* Unix seconds

vars == <<live, info, used, creds, secured, known, task, timer, events, now>>

-----------------------------------------------------------------------------
(* Data *)

Status == {"REQUESTED", "SCHEDULED", "GRANTED"}

\* GRANTED stands for AVAILABLE, ACTIVATED and ACTIVE.  `duration` is 0 for a
\* resource that runs until it is deleted.
Info == [device : Device, status : Status, duration : Nat,
         startTime : Nat, startedAt : Nat, sink : BOOLEAN]

Terminal == {"DELETE_REQUESTED", "NETWORK_TERMINATED", "DURATION_EXPIRED"}
Interim == {"AVAILABLE", "ACTIVATED", "QUALITY_SCORE"}

Event == [no : Nat, id : Id, kind : Terminal \cup Interim, auth : BOOLEAN]

Task == [pc : {"idle", "insert", "schedule", "notify", "score"},
         id : Id \cup {NoId}]

\* `kind` is the event a sleeping timer will send if it finds its resource.
TimerState == [pc : {"none", "sleep", "activated", "notify", "done"},
               kind : {"DURATION_EXPIRED", "NETWORK_TERMINATED", "ACTIVATED"},
               at : Nat]

Request == [device : Device, duration : Duration, startTime : StartTime,
            sink : BOOLEAN, credential : BOOLEAN,
            profile : {"standard", "unavailable"}]

Idle == [pc |-> "idle", id |-> NoId]
Sleep(k, t) == [pc |-> "sleep", kind |-> k, at |-> t]
NoTimer == [pc |-> "none", kind |-> "ACTIVATED", at |-> 0]

Blank == [device |-> CHOOSE dev \in Device : TRUE, status |-> "REQUESTED",
          duration |-> 0, startTime |-> 0, startedAt |-> 0, sink |-> FALSE]

Tail3(i) == TrailingThreeDigits(info[i].device)

\* build_assignment_info, build_booking_info and create_session's SessionInfo.
StatusOf(i, dev) ==
    IF i \in Insight THEN "GRANTED"
    ELSE IF TripleZero(dev) THEN "REQUESTED"
    ELSE IF i \in Booking /\ TrailingThreeDigits(dev) % 2 = 1 THEN "SCHEDULED"
    ELSE "GRANTED"

DurationOf(i, r) ==
    IF i \in Booking THEN r.duration
    ELSE IF i \in Insight /\ ~TripleZero(r.device) THEN Lifetime
    ELSE 0

BuildInfo(i, r) ==
    LET status == StatusOf(i, r.device) IN
    [device    |-> r.device,
     status    |-> status,
     duration  |-> DurationOf(i, r),
     startTime |-> IF i \in Booking THEN r.startTime ELSE 0,
     startedAt |-> IF status = "GRANTED" THEN now ELSE 0,
     sink      |-> r.sink]

\* The event the timer spawned by a create will send; none for most of them.
Scheduled(i) ==
    IF ~info[i].sink THEN {}
    ELSE IF i \in Assignment
         THEN IF Tail3(i) = 1 THEN {"NETWORK_TERMINATED"} ELSE {}
    ELSE IF i \in Booking
         THEN CASE info[i].status = "REQUESTED" -> {}
                [] info[i].status = "SCHEDULED" -> {"ACTIVATED"}
                [] OTHER -> IF Tail3(i) = 2 THEN {"NETWORK_TERMINATED"}
                            ELSE {"DURATION_EXPIRED"}
    ELSE IF Tail3(i) = 1 THEN {"NETWORK_TERMINATED"}
    ELSE IF TripleZero(info[i].device) THEN {}
    ELSE {"DURATION_EXPIRED"}

\* When that timer wakes up.  A booking's window is slept through from the
\* moment its task starts, a session's ends at the instant it was told.
WakeAt(i, k) ==
    CASE k = "NETWORK_TERMINATED" -> now + Grace
      [] k = "ACTIVATED" -> info[i].startTime
      [] OTHER -> IF i \in Booking THEN now + info[i].duration
                  ELSE info[i].startedAt + info[i].duration

Record(i, k, auth) ==
    events' = events \cup {[no |-> Cardinality(events) + 1, id |-> i,
                            kind |-> k, auth |-> auth]}

\* A terminal event takes the credential, an interim one only looks at it.
Announce(i, k) == Record(i, k, i \in creds) /\ creds' = creds \ {i}
Report(i, k) == Record(i, k, i \in creds) /\ UNCHANGED creds

-----------------------------------------------------------------------------
(* POST: create an assignment, a booking or a session *)

CreateAccepted(c, i, r) ==
    /\ "create" \in Scope[c]
    /\ i \in Booking => r.duration \in 1..MaxDuration
    /\ i \in Insight => r.sink
    /\ i \notin Insight => r.profile # "unavailable" /\ r.device \in Echoed
    /\ ~IsReservedError(r.device)

\* Mutant: the credential is kept even when there is no sink to use it on.
CreateKeepsSecret(c, i, r) ==
    /\ task[c] = Idle
    /\ Cardinality(used) < MaxCreates
    /\ i \in Id \ used
    /\ CreateAccepted(c, i, r)
    /\ used' = used \cup {i}
    /\ info' = [info EXCEPT ![i] = BuildInfo(i, r)]
    /\ secured' = IF r.sink /\ r.credential THEN secured \cup {i} ELSE secured
    /\ creds' = IF r.credential THEN creds \cup {i} ELSE creds
    /\ task' = [task EXCEPT ![c] = [pc |-> "insert", id |-> i]]
    /\ UNCHANGED <<live, known, timer, events, now>>

\* Validate, mint the id, build the resource and store its credential.
Create(c, i, r) ==
    /\ task[c] = Idle
    /\ Cardinality(used) < MaxCreates
    /\ i \in Id \ used
    /\ CreateAccepted(c, i, r)
    /\ used' = used \cup {i}
    /\ info' = [info EXCEPT ![i] = BuildInfo(i, r)]
    /\ secured' = IF r.sink /\ r.credential THEN secured \cup {i} ELSE secured
    /\ creds' = IF r.sink /\ r.credential THEN creds \cup {i} ELSE creds
    /\ task' = [task EXCEPT ![c] = [pc |-> "insert", id |-> i]]
    /\ UNCHANGED <<live, known, timer, events, now>>

\* store::insert: from here on a retrieve can disclose the id.
Insert(c) ==
    /\ task[c].pc = "insert"
    /\ live' = live \cup {task[c].id}
    /\ task' = [task EXCEPT ![c].pc = "schedule"]
    /\ UNCHANGED <<info, used, creds, secured, known, timer, events, now>>

\* Mutant: the timer is due at once.
ScheduleAndReplyEarly(c) ==
    /\ task[c].pc = "schedule"
    /\ LET i == task[c].id
       IN /\ IF Scheduled(i) = {} THEN UNCHANGED timer
             ELSE \E k \in Scheduled(i) :
                     timer' = [timer EXCEPT ![i] = Sleep(k, now)]
          /\ known' = known \cup {i}
    /\ task' = [task EXCEPT ![c] = Idle]
    /\ UNCHANGED <<live, info, used, creds, secured, events, now>>

\* Spawn the timer, or tell the sink of a granted assignment that it is
\* AVAILABLE; then answer 201.
ScheduleAndReply(c) ==
    /\ task[c].pc = "schedule"
    /\ LET i == task[c].id
       IN /\ IF Scheduled(i) = {} THEN UNCHANGED timer
             ELSE \E k \in Scheduled(i) :
                     timer' = [timer EXCEPT ![i] = Sleep(k, WakeAt(i, k))]
          /\ IF i \in Assignment /\ info[i].sink /\ info[i].status = "GRANTED"
                                 /\ Scheduled(i) = {}
             THEN Report(i, "AVAILABLE") ELSE UNCHANGED <<events, creds>>
          /\ known' = known \cup {i}
    /\ task' = [task EXCEPT ![c] = Idle]
    /\ UNCHANGED <<live, info, used, secured, now>>

-----------------------------------------------------------------------------
(* POST retrieve: the resources of a device *)

\* Provisioning answers with some one assignment, the others with every match.
RetrieveByDevice(c, dev) ==
    /\ task[c] = Idle
    /\ "retrieve" \in Scope[c]
    /\ ~IsReservedError(dev) /\ dev \in Echoed
    /\ \E S \in {Assignment, Booking, Insight} :
          LET found == {i \in live \cap S : info[i].device = dev} IN
          IF S = Assignment
          THEN \E i \in found : known' = known \cup {i}
          ELSE known' = known \cup found
    /\ UNCHANGED <<live, info, used, creds, secured, task, timer, events, now>>

-----------------------------------------------------------------------------
(* DELETE *)

\* store::remove, for whoever asks first; a resource without a sink (which has
\* no credential either) needs nothing more.
Delete(c, i) ==
    /\ task[c] = Idle
    /\ "delete" \in Scope[c]
    /\ i \in known \cap live
    /\ live' = live \ {i}
    /\ task' = IF info[i].sink
               THEN [task EXCEPT ![c] = [pc |-> "notify", id |-> i]] ELSE task
    /\ UNCHANGED <<info, used, creds, secured, known, timer, events, now>>

\* Mutant: the credential is only looked at.
DeleteNotifyPeeks(c) ==
    /\ task[c].pc = "notify"
    /\ Report(task[c].id, "DELETE_REQUESTED")
    /\ task' = [task EXCEPT ![c] = Idle]
    /\ UNCHANGED <<live, info, used, secured, known, timer, now>>

DeleteNotify(c) ==
    /\ task[c].pc = "notify"
    /\ Announce(task[c].id, "DELETE_REQUESTED")
    /\ task' = [task EXCEPT ![c] = Idle]
    /\ UNCHANGED <<live, info, used, secured, known, timer, now>>

-----------------------------------------------------------------------------
(* POST metrics, session insights only *)

\* store::get: the session exists, so the report is accepted ...
SendSessionMetrics(c, i) ==
    /\ task[c] = Idle
    /\ "write" \in Scope[c]
    /\ i \in known \cap live \cap Insight
    /\ Cardinality({e \in events : e.kind = "QUALITY_SCORE"})
         + Cardinality({d \in Client : task[d].pc = "score"}) < MaxReports
    /\ task' = [task EXCEPT ![c] = [pc |-> "score", id |-> i]]
    /\ UNCHANGED <<live, info, used, creds, secured, known, timer, events, now>>

\* ... and its score goes to the sink read then, with the credential of now.
DeliverQualityScore(c) ==
    /\ task[c].pc = "score"
    /\ Report(task[c].id, "QUALITY_SCORE")
    /\ task' = [task EXCEPT ![c] = Idle]
    /\ UNCHANGED <<live, info, used, secured, known, timer, now>>

-----------------------------------------------------------------------------
(* Timers *)

Wakes(i, k) == timer[i].pc = "sleep" /\ timer[i].kind \in k /\ now >= timer[i].at

\* Mutant: the timer announces the end whether or not it removed anything.
TimerEvictIgnoresRace(i) ==
    /\ Wakes(i, Terminal)
    /\ live' = live \ {i}
    /\ timer' = [timer EXCEPT ![i].pc = "notify"]
    /\ UNCHANGED <<info, used, creds, secured, known, task, events, now>>

\* spawn_network_termination, spawn_window_expiry, spawn_session_expiry:
\* store::remove decides the race with a delete.
TimerEvict(i) ==
    /\ Wakes(i, Terminal)
    /\ live' = live \ {i}
    /\ timer' = [timer EXCEPT ![i].pc = IF i \in live THEN "notify" ELSE "done"]
    /\ UNCHANGED <<info, used, creds, secured, known, task, events, now>>

TimerNotify(i) ==
    /\ timer[i].pc = "notify"
    /\ Announce(i, timer[i].kind)
    /\ timer' = [timer EXCEPT ![i].pc = "done"]
    /\ UNCHANGED <<live, info, used, secured, known, task, now>>

\* spawn_activation: store::activate flips the booking if it is still there.
TimerActivate(i) ==
    /\ Wakes(i, {"ACTIVATED"})
    /\ info' = IF i \notin live THEN info
               ELSE [info EXCEPT ![i].status = "GRANTED", ![i].startedAt = now]
    /\ timer' = [timer EXCEPT ![i].pc = IF i \in live THEN "activated" ELSE "done"]
    /\ UNCHANGED <<live, used, creds, secured, known, task, events, now>>

\* Mutant: the booking is announced but its window is not opened.
TimerOpenWindowForgets(i) ==
    /\ timer[i].pc = "activated"
    /\ Report(i, "ACTIVATED")
    /\ timer' = [timer EXCEPT ![i].pc = "done"]
    /\ UNCHANGED <<live, info, used, secured, known, task, now>>

\* Mutant: announcing the activation already takes the credential.
TimerOpenWindowTakes(i) ==
    /\ timer[i].pc = "activated"
    /\ Announce(i, "ACTIVATED")
    /\ timer' = [timer EXCEPT ![i] = Sleep("DURATION_EXPIRED", now + info[i].duration)]
    /\ UNCHANGED <<live, info, used, secured, known, task, now>>

\* The ACTIVATED event, and the timer of the window that has begun.
TimerOpenWindow(i) ==
    /\ timer[i].pc = "activated"
    /\ Report(i, "ACTIVATED")
    /\ timer' = [timer EXCEPT ![i] = Sleep("DURATION_EXPIRED", now + info[i].duration)]
    /\ UNCHANGED <<live, info, used, secured, known, task, now>>

-----------------------------------------------------------------------------
Tick ==
    /\ \/ now < MaxTime
       \/ \E i \in Id : timer[i].pc = "sleep" /\ now < timer[i].at
    /\ now' = now + 1
    /\ UNCHANGED <<live, info, used, creds, secured, known, task, timer, events>>

Init ==
    /\ live = {} /\ used = {} /\ creds = {} /\ secured = {} /\ known = {}
    /\ info = [i \in Id |-> Blank]
    /\ task = [c \in Client |-> Idle]
    /\ timer = [i \in Id |-> NoTimer]
    /\ events = {}
    /\ now = 0

Continue(c) ==
    Insert(c) \/ ScheduleAndReply(c) \/ DeleteNotify(c) \/ DeliverQualityScore(c)

TimerStep(i) ==
    TimerEvict(i) \/ TimerNotify(i) \/ TimerActivate(i) \/ TimerOpenWindow(i)

Begin(c) ==
    \/ \E i \in Id, r \in Request : Create(c, i, r)
    \/ \E dev \in Device : RetrieveByDevice(c, dev)
    \/ \E i \in Id : Delete(c, i) \/ SendSessionMetrics(c, i)

Next ==
    \/ \E c \in Client : Begin(c) \/ Continue(c)
    \/ \E i \in Id : TimerStep(i)
    \/ Tick

Spec == Init /\ [][Next]_vars

\* The runtime polls every accepted request and every spawned task, and time
\* passes.  Nothing forces a client to send anything.
Fairness ==
    /\ \A c \in Client : WF_vars(Continue(c))
    /\ \A i \in Id : WF_vars(TimerStep(i))
    /\ WF_vars(Tick)

FairSpec == Spec /\ Fairness

-----------------------------------------------------------------------------
(* Correctness *)

\* The shape of the state.  A resource is visible only once it was minted, and
\* only ids created with a credential have one.
TypeOK ==
    /\ live \subseteq used /\ used \subseteq Id /\ known \subseteq used
    /\ creds \subseteq secured /\ secured \subseteq used
    /\ info \in [Id -> Info]
    /\ task \in [Client -> Task]
    /\ timer \in [Id -> TimerState]
    /\ events \subseteq Event /\ IsFiniteSet(events)
    /\ now \in Nat

Inserting(i) == \E c \in Client : task[c].pc = "insert" /\ task[c].id = i
Announcing(i) ==
    \/ timer[i].pc = "notify"
    \/ \E c \in Client : task[c].pc = "notify" /\ task[c].id = i
Ended(i) == \E e \in events : e.id = i /\ e.kind \in Terminal

\* The credential a creator gives lives exactly as long as it can be needed:
\* from before the resource is visible until the end has been announced.  It
\* neither leaks past the end nor is lost before it, whichever of the delete,
\* the timers and the reports races with which.
CredentialFollowsResource ==
    \A i \in secured :
        i \in creds <=> (Inserting(i) \/ i \in live \/ Announcing(i))

\* Every terminal event carries the credential, and an interim one that does
\* not was overtaken: the end had been announced before it was handed over.
UnauthenticatedIsLate ==
    \A e \in events :
        e.id \in secured /\ ~e.auth
            => /\ e.kind \in Interim
               /\ \E f \in events : f.id = e.id /\ f.kind \in Terminal /\ f.no < e.no

\* An end is announced after the window that was paid for: duration seconds
\* from the activation that a scheduled booking reached no sooner than its
\* start time.
WindowHonoured ==
    [][\A e \in events' \ events :
          /\ e.kind = "DURATION_EXPIRED"
                => now >= info[e.id].startedAt + info[e.id].duration
          /\ e.kind = "ACTIVATED" => info[e.id].startedAt >= info[e.id].startTime
      ]_vars

\* A resource that was given a timer is gone in the end, a scheduled booking
\* after being activated; nothing a client does keeps it.
TimedResourcesEnd ==
    \A i \in Id : (i \in live /\ Scheduled(i) # {}) ~> (i \notin live /\ Ended(i))

Phase(i) ==
    IF i \notin used \/ Inserting(i) THEN "absent"
    ELSE IF i \in live THEN "live"
    ELSE IF Ended(i) THEN "announced"
    ELSE IF info[i].sink THEN "ending"
    ELSE "silent"

Lifecycle == INSTANCE SessionLifecycle WITH
    Session <- Id,
    phase   <- [i \in Id |-> Phase(i)],
    notices <- {<<e.no, e.id>> : e \in {f \in events : f.kind \in Terminal}}

\* Behind all its interim events, each resource lives the life the abstract
\* specification describes: it appears once, ends once, and its end is
\* announced once, after the fact, if it has a sink.
ImplementsLifecycle == Lifecycle!Spec

=============================================================================
