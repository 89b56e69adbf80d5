---------------------------- MODULE QodSessions ----------------------------
(***************************************************************************)
(* The Quality-on-Demand session lifecycle: the five handlers of           *)
(* src/src/apis/quality_on_demand/v1.rs, the two maps of its store.rs and  *)
(* the fire-and-forget tasks it spawns (expiry and network-termination     *)
(* timers, notification deliveries).                                       *)
(*                                                                         *)
(* The server runs on a multi-threaded runtime, so a handler is atomic     *)
(* only between two acquisitions of a store's mutex.  Every action below   *)
(* is one such stretch: a handler that locks twice is two actions, joined  *)
(* by the program counter of the client's connection (task[c].pc) or of    *)
(* the session's timer (timer[i].pc).  A request that a guard refuses      *)
(* answers 4xx and changes nothing, so it is a stuttering step.            *)
(***************************************************************************)
EXTENDS Naturals, FiniteSets

CONSTANTS
    Client,        \* HTTP connections, each with one request in service
    Id,            \* session ids new_session_id can still mint
    NoId,          \* the id field of an idle connection
    Device,        \* resolved identifiers: a device, or the token subject
    Plane,         \* what the trailing digits of an identifier select
    Echoed,        \* identifiers that SessionInfo echoes as `device`
    Scope,         \* the scopes of each client's access token
    Duration,      \* seconds a request may ask for, legal or not
    MaxDuration,   \* MAX_DURATION_SECS
    Grace,         \* NETWORK_TERMINATION_GRACE_SECS
    CreateUntil,   \* bound: no create is accepted after this instant
    MaxTime        \* bound: from here on the clock only runs to wake a sleeper

Planes == {"available", "terminated", "requested", "reserved"}

CREATE_SCOPE   == "sessions:create"
DELETE_SCOPE   == "sessions:delete"
UPDATE_SCOPE   == "sessions:update"
RETRIEVE_SCOPE == "sessions:retrieve-by-device"
ScopeName == {CREATE_SCOPE, DELETE_SCOPE, UPDATE_SCOPE, RETRIEVE_SCOPE}

ASSUME ConstantsAssumption ==
    /\ IsFiniteSet(Client)
    /\ Device # {}
    /\ NoId \notin Id
    /\ Plane \in [Device -> Planes]
    /\ Echoed \subseteq Device
    /\ Scope \in [Client -> SUBSET ScopeName]
    /\ Duration \subseteq Nat
    /\ MaxDuration \in Nat
    /\ Grace \in Nat
    /\ CreateUntil \in Nat
    /\ MaxTime \in Nat

VARIABLES
    live,      \* the keys of the session store
    info,      \* the value stored under each key; kept once the key is gone
    used,      \* ids already minted
    creds,     \* the keys of the sink-credential side-store
    secured,   \* ids whose create request carried a usable sinkCredential
    known,     \* ids some response has disclosed to the clients
    task,      \* where each connection's handler is
    timer,     \* where each session's timer task is
    events,    \* every CloudEvent a delivery was spawned for
    inflight,  \* the deliveries still running
    received,  \* the events a sink has accepted
    now        \* Unix seconds

store == <<live, info, used, secured>>
outbox == <<events, inflight, received>>
vars == <<live, info, used, creds, secured, known, task, timer,
          events, inflight, received, now>>

-----------------------------------------------------------------------------
(* Data *)

\* parse_sink understands http and https URLs; any other is never delivered.
Sink == {"none", "http", "unsupported"}

Reason == {"DELETE_REQUESTED", "DURATION_EXPIRED", "NETWORK_TERMINATED"}

SessionInfo == [device    : Device,
                qosStatus : {"REQUESTED", "AVAILABLE"},
                duration  : Nat,
                startedAt : Nat,
                expiresAt : Nat,
                sink      : Sink]

Event == [no : Nat, sessionId : Id, statusInfo : Reason, auth : BOOLEAN]

Task == [pc : {"idle", "credential", "schedule", "update", "notify"},
         id : Id \cup {NoId}, additional : Nat]

Timer == [pc : {"none", "read", "clock", "sleep", "evict", "notify", "done"},
          at : Nat]

Idle == [pc |-> "idle", id |-> NoId, additional |-> 0]

Available(i) == info[i].qosStatus = "AVAILABLE"

\* An `AVAILABLE` session that recorded a sink gets exactly one timer task.
Timed(i) == Available(i) /\ info[i].sink # "none"

\* What an unused key maps to.
Blank == [device |-> CHOOSE dev \in Device : TRUE, qosStatus |-> "REQUESTED",
          duration |-> 0, startedAt |-> 0, expiresAt |-> 0, sink |-> "none"]

\* build_session_info: the identifier's tail decides between a pending grant,
\* which has no instants (0 here), and one that runs from now for `duration`.
BuildSessionInfo(dev, d, s) ==
    LET available == Plane[dev] # "requested" IN
    [device    |-> dev,
     qosStatus |-> IF available THEN "AVAILABLE" ELSE "REQUESTED",
     duration  |-> d,
     startedAt |-> IF available THEN now ELSE 0,
     expiresAt |-> IF available THEN now + d ELSE 0,
     sink      |-> s]

-----------------------------------------------------------------------------
(* Notifications *)

\* Tail of every ending: mint the event, take the credential out of the
\* side-store and hand both to a detached delivery task.
SpawnNotice(i, reason) ==
    LET e == [no |-> Cardinality(events) + 1, sessionId |-> i,
              statusInfo |-> reason, auth |-> i \in creds]
    IN /\ events' = events \cup {e}
       /\ inflight' = inflight \cup {e}
       /\ creds' = creds \ {i}
       /\ UNCHANGED received

\* Mutant: a delivery that is counted as accepted and left running.
DeliverKeepsRunning(e) ==
    /\ e \in inflight
    /\ info[e.sessionId].sink = "http"
    /\ received' = received \cup {e}
    /\ UNCHANGED <<store, creds, known, task, timer, events, inflight, now>>

\* The sink accepts the POST.
Deliver(e) ==
    /\ e \in inflight
    /\ info[e.sessionId].sink = "http"
    /\ inflight' = inflight \ {e}
    /\ received' = received \cup {e}
    /\ UNCHANGED <<store, creds, known, task, timer, events, now>>

\* The connection fails, or the sink's scheme is not supported: the error is
\* dropped and nothing retries.  No timeout bounds a delivery, so a sink that
\* accepts the connection and stays silent may also see neither step taken.
Lose(e) ==
    /\ e \in inflight
    /\ inflight' = inflight \ {e}
    /\ UNCHANGED <<store, creds, known, task, timer, events, received, now>>

-----------------------------------------------------------------------------
(* POST /sessions *)

CreateAccepted(c, dev, d, profile) ==
    /\ CREATE_SCOPE \in Scope[c]
    /\ d \in 1..MaxDuration
    /\ Plane[dev] # "reserved"
    /\ profile # "unavailable"

\* Mutant: the timers are spawned with the insert, before the credential.
CreateSessionTimerFirst(c, i, dev, d, s, profile, cred) ==
    /\ task[c] = Idle
    /\ now <= CreateUntil
    /\ i \in Id \ used
    /\ CreateAccepted(c, dev, d, profile)
    /\ live' = live \cup {i}
    /\ used' = used \cup {i}
    /\ info' = [info EXCEPT ![i] = BuildSessionInfo(dev, d, s)]
    /\ secured' = IF cred THEN secured \cup {i} ELSE secured
    /\ task' = [task EXCEPT ![c] =
                   [pc |-> "credential", id |-> i, additional |-> 0]]
    /\ timer' = IF Plane[dev] = "terminated" /\ s # "none"
                THEN [timer EXCEPT ![i] = [pc |-> "sleep", at |-> now + Grace]]
                ELSE timer
    /\ UNCHANGED <<creds, known, outbox, now>>

\* Validate, mint the id and insert the SessionInfo.
CreateSession(c, i, dev, d, s, profile, cred) ==
    /\ task[c] = Idle
    /\ now <= CreateUntil
    /\ i \in Id \ used
    /\ CreateAccepted(c, dev, d, profile)
    /\ live' = live \cup {i}
    /\ used' = used \cup {i}
    /\ info' = [info EXCEPT ![i] = BuildSessionInfo(dev, d, s)]
    /\ secured' = IF cred THEN secured \cup {i} ELSE secured
    /\ task' = [task EXCEPT ![c] =
                   [pc |-> "credential", id |-> i, additional |-> 0]]
    /\ UNCHANGED <<creds, known, timer, outbox, now>>

\* Remember the derived Authorization header, if there is a sink to send it to.
StoreCredential(c) ==
    /\ task[c].pc = "credential"
    /\ LET i == task[c].id IN
       creds' = IF i \in secured /\ info[i].sink # "none"
                THEN creds \cup {i} ELSE creds
    /\ task' = [task EXCEPT ![c].pc = "schedule"]
    /\ UNCHANGED <<store, known, timer, outbox, now>>

\* Spawn the timer and answer 201, which discloses the id.
ScheduleAndReply(c) ==
    /\ task[c].pc = "schedule"
    /\ LET i == task[c].id IN
       /\ timer' =
            IF ~Timed(i) THEN timer
            ELSE [timer EXCEPT ![i] =
                    IF Plane[info[i].device] = "terminated"
                    THEN [pc |-> "sleep", at |-> now + Grace]
                    ELSE [pc |-> "read", at |-> 0]]
       /\ known' = known \cup {i}
    /\ task' = [task EXCEPT ![c] = Idle]
    /\ UNCHANGED <<store, creds, outbox, now>>

-----------------------------------------------------------------------------
(* POST /retrieve-sessions: lists, and so discloses, a device's sessions *)

FindByDevice(dev) ==
    IF dev \in Echoed THEN {i \in live : info[i].device = dev} ELSE {}

RetrieveSessions(c, dev) ==
    /\ task[c] = Idle
    /\ RETRIEVE_SCOPE \in Scope[c]
    /\ Plane[dev] # "reserved"
    /\ known' = known \cup FindByDevice(dev)
    /\ UNCHANGED <<store, creds, task, timer, outbox, now>>

-----------------------------------------------------------------------------
(* DELETE /sessions/{sessionId} *)

\* Mutant: the notice is only sent to a sink whose scheme is supported.
DeleteSessionForgetsNotice(c, i) ==
    /\ task[c] = Idle
    /\ DELETE_SCOPE \in Scope[c]
    /\ i \in known \cap live
    /\ live' = live \ {i}
    /\ task' = IF info[i].sink # "http" THEN task
               ELSE [task EXCEPT ![c] =
                        [pc |-> "notify", id |-> i, additional |-> 0]]
    /\ UNCHANGED <<info, used, secured, creds, known, timer, outbox, now>>

\* store::remove; a session without a sink is deleted silently, the others
\* are announced by the second half of the handler.
DeleteSession(c, i) ==
    /\ task[c] = Idle
    /\ DELETE_SCOPE \in Scope[c]
    /\ i \in known \cap live
    /\ live' = live \ {i}
    /\ task' = IF info[i].sink = "none" THEN task
               ELSE [task EXCEPT ![c] =
                        [pc |-> "notify", id |-> i, additional |-> 0]]
    /\ UNCHANGED <<info, used, secured, creds, known, timer, outbox, now>>

DeleteNotify(c) ==
    /\ task[c].pc = "notify"
    /\ SpawnNotice(task[c].id, "DELETE_REQUESTED")
    /\ task' = [task EXCEPT ![c] = Idle]
    /\ UNCHANGED <<store, known, timer, now>>

-----------------------------------------------------------------------------
(* POST /sessions/{sessionId}/extend *)

\* Mutant: only the requested time is checked, not the total.
ExtendAcceptedAnyTotal(c, i, d) ==
    UPDATE_SCOPE \in Scope[c] /\ d \in 1..MaxDuration /\ i \in live

ExtendAccepted(c, i, d) ==
    /\ UPDATE_SCOPE \in Scope[c]
    /\ d \in 1..MaxDuration
    /\ i \in live
    /\ info[i].duration + d <= MaxDuration

\* Read a copy of the session and check the ceiling against it.
ExtendCheck(c, i, d) ==
    /\ task[c] = Idle
    /\ i \in known
    /\ ExtendAccepted(c, i, d)
    /\ task' = [task EXCEPT ![c] = [pc |-> "update", id |-> i, additional |-> d]]
    /\ UNCHANGED <<store, creds, known, timer, outbox, now>>

\* Mutant: the copy that was checked is inserted again.
ExtendUpdateReinserts(c) ==
    /\ task[c].pc = "update"
    /\ LET i == task[c].id
           d == task[c].additional
       IN /\ live' = live \cup {i}
          /\ info' = [info EXCEPT
                        ![i].duration = @ + d,
                        ![i].expiresAt = IF Available(i) THEN @ + d ELSE @]
    /\ task' = [task EXCEPT ![c] = Idle]
    /\ UNCHANGED <<used, secured, creds, known, timer, outbox, now>>

\* Mutant: the expiry is pushed out, the reported duration is not.
ExtendUpdateExpiryOnly(c) ==
    /\ task[c].pc = "update"
    /\ LET i == task[c].id
       IN info' = IF i \notin live THEN info
                  ELSE [info EXCEPT
                          ![i].expiresAt = IF Available(i)
                                           THEN @ + task[c].additional ELSE @]
    /\ task' = [task EXCEPT ![c] = Idle]
    /\ UNCHANGED <<live, used, secured, creds, known, timer, outbox, now>>

\* store::update: apply the extension to whatever is stored by now, or answer
\* 404 if the session has gone since the check.
ExtendUpdate(c) ==
    /\ task[c].pc = "update"
    /\ LET i == task[c].id
           d == task[c].additional
       IN info' = IF i \notin live THEN info
                  ELSE [info EXCEPT
                          ![i].duration = @ + d,
                          ![i].expiresAt = IF Available(i) THEN @ + d ELSE @]
    /\ task' = [task EXCEPT ![c] = Idle]
    /\ UNCHANGED <<live, used, secured, creds, known, timer, outbox, now>>

-----------------------------------------------------------------------------
(* spawn_expiry and spawn_network_termination *)

\* The expiry loop re-reads the session: stop if it is gone.
TimerRead(i) ==
    /\ timer[i].pc = "read"
    /\ timer' = [timer EXCEPT ![i] =
                    IF i \in live /\ Available(i)
                    THEN [pc |-> "clock", at |-> info[i].expiresAt]
                    ELSE [pc |-> "done", at |-> 0]]
    /\ UNCHANGED <<store, creds, known, task, outbox, now>>

\* ... compares the expiry it read with the clock ...
TimerClock(i) ==
    /\ timer[i].pc = "clock"
    /\ timer' = [timer EXCEPT ![i] =
                    IF now < timer[i].at THEN [pc |-> "sleep", at |-> timer[i].at]
                    ELSE [pc |-> "evict", at |-> 0]]
    /\ UNCHANGED <<store, creds, known, task, outbox, now>>

\* Mutant: the expiry timer sleeps once and stops instead of looping.
TimerWakeStops(i) ==
    /\ timer[i].pc = "sleep"
    /\ now >= timer[i].at
    /\ timer' = [timer EXCEPT ![i] =
                    [pc |-> IF Plane[info[i].device] = "terminated"
                            THEN "evict" ELSE "done",
                     at |-> 0]]
    /\ UNCHANGED <<store, creds, known, task, outbox, now>>

\* ... and sleeps until then.  A termination timer sleeps once, for the grace.
TimerWake(i) ==
    /\ timer[i].pc = "sleep"
    /\ now >= timer[i].at
    /\ timer' = [timer EXCEPT ![i] =
                    [pc |-> IF Plane[info[i].device] = "terminated"
                            THEN "evict" ELSE "read",
                     at |-> 0]]
    /\ UNCHANGED <<store, creds, known, task, outbox, now>>

\* Mutant: the timer notifies whether or not it was the one to remove.
TimerEvictIgnoresRace(i) ==
    /\ timer[i].pc = "evict"
    /\ live' = live \ {i}
    /\ timer' = [timer EXCEPT ![i] = [pc |-> "notify", at |-> 0]]
    /\ UNCHANGED <<info, used, secured, creds, known, task, outbox, now>>

\* store::remove decides the race with a concurrent delete.
TimerEvict(i) ==
    /\ timer[i].pc = "evict"
    /\ live' = live \ {i}
    /\ timer' = [timer EXCEPT ![i] =
                    [pc |-> IF i \in live THEN "notify" ELSE "done", at |-> 0]]
    /\ UNCHANGED <<info, used, secured, creds, known, task, outbox, now>>

\* Mutant: the timer looks for the sink in the session it has just removed,
\* finds nothing and stops.
TimerNotifyFindsNothing(i) ==
    /\ timer[i].pc = "notify"
    /\ i \notin live
    /\ timer' = [timer EXCEPT ![i] = [pc |-> "done", at |-> 0]]
    /\ UNCHANGED <<store, creds, known, task, outbox, now>>

\* Whoever removed the session announces it, with the credential it takes.
TimerNotify(i) ==
    /\ timer[i].pc = "notify"
    /\ SpawnNotice(i, IF Plane[info[i].device] = "terminated"
                      THEN "NETWORK_TERMINATED" ELSE "DURATION_EXPIRED")
    /\ timer' = [timer EXCEPT ![i] = [pc |-> "done", at |-> 0]]
    /\ UNCHANGED <<store, known, task, now>>

-----------------------------------------------------------------------------
Tick ==
    /\ \/ now < MaxTime
       \/ \E i \in Id : timer[i].pc = "sleep" /\ now < timer[i].at
    /\ now' = now + 1
    /\ UNCHANGED <<store, creds, known, task, timer, outbox>>

Init ==
    /\ live = {} /\ used = {} /\ creds = {} /\ secured = {} /\ known = {}
    /\ info = [i \in Id |-> Blank]
    /\ task = [c \in Client |-> Idle]
    /\ timer = [i \in Id |-> [pc |-> "none", at |-> 0]]
    /\ events = {} /\ inflight = {} /\ received = {}
    /\ now = 0

\* The rest of a request whose handler has begun.
Continue(c) ==
    StoreCredential(c) \/ ScheduleAndReply(c) \/ DeleteNotify(c) \/ ExtendUpdate(c)

TimerStep(i) ==
    TimerRead(i) \/ TimerClock(i) \/ TimerWake(i) \/ TimerEvict(i) \/ TimerNotify(i)

Request(c) ==
    \/ \E i \in Id, dev \in Device, d \in Duration, s \in Sink,
          profile \in {"standard", "unavailable"}, cred \in BOOLEAN :
          CreateSession(c, i, dev, d, s, profile, cred)
    \/ \E dev \in Device : RetrieveSessions(c, dev)
    \/ \E i \in Id : DeleteSession(c, i)
    \/ \E i \in Id, d \in Duration : ExtendCheck(c, i, d)

Next ==
    \/ \E c \in Client : Request(c) \/ Continue(c)
    \/ \E i \in Id : TimerStep(i)
    \/ \E e \in inflight : Deliver(e) \/ Lose(e)
    \/ Tick

Spec == Init /\ [][Next]_vars

\* The runtime keeps polling every accepted request and every timer, and time
\* passes.  Nothing forces a client to send anything, and nothing forces a sink
\* to let a delivery end.
Fairness ==
    /\ \A c \in Client : WF_vars(Continue(c))
    /\ \A i \in Id : WF_vars(TimerStep(i))
    /\ WF_vars(Tick)

FairSpec == Spec /\ Fairness

-----------------------------------------------------------------------------
(* Correctness *)

\* The shape of the state.  A delivery is either running or over, never both,
\* and the two maps only ever hold ids that were minted.
TypeOK ==
    /\ live \subseteq used /\ used \subseteq Id
    /\ creds \subseteq secured /\ secured \subseteq used /\ known \subseteq used
    /\ info \in [Id -> SessionInfo]
    /\ task \in [Client -> Task]
    /\ timer \in [Id -> Timer]
    /\ events \subseteq Event /\ IsFiniteSet(events)
    /\ inflight \subseteq events /\ received \subseteq events
    /\ inflight \cap received = {}
    /\ now \in Nat

Announced(i) == \E e \in events : e.sessionId = i

\* The handler or the timer that removed session i and has yet to announce it.
DeleterOf(i, c) == task[c].pc = "notify" /\ task[c].id = i
Announcing(i) == timer[i].pc = "notify" \/ \E c \in Client : DeleterOf(i, c)

\* Whoever races to end a session - two deletes, the expiry timer, the network
\* termination - exactly one of them wins, so a sink is never told twice.
OneNoticePerSession ==
    \A e, f \in events : e.sessionId = f.sessionId => e = f

\* A sink is told UNAVAILABLE only of a session that is really gone: no extend
\* in flight may write it back.
NoticeMeansGone ==
    \A e \in events : e.sessionId \in used \ live

\* The store forgets: an id that was removed never names a session again, so
\* a 204 or a notice, once sent, stays true.
GoneForGood == [][\A i \in used \ live : i \notin live']_vars

\* No session that recorded a sink ends silently: it has been announced, or the
\* task that removed it is on its way to announce it.
NoSilentEnd ==
    \A i \in used \ live : info[i].sink # "none" => Announced(i) \/ Announcing(i)

\* The credential is stored before the timers are spawned, so a notice a timer
\* fires carries the Authorization header the create request asked for.
TimerNoticeAuthenticated ==
    \A e \in events :
        e.statusInfo # "DELETE_REQUESTED" => (e.auth <=> e.sessionId \in secured)

\* extend moves a grant's duration and its expiry together, whatever it races
\* with: what GET reports as `duration` is what lies between the two instants.
DurationMatchesExpiry ==
    \A i \in used :
        Available(i) => info[i].expiresAt = info[i].startedAt + info[i].duration

\* Two extends can both pass the ceiling check before either is applied, so the
\* ceiling can be exceeded; but each connection carries at most one unapplied
\* extension, and that bounds by how much.
OvershootBounded ==
    \A i \in used : info[i].duration <= 1 + Cardinality(Client) * (MaxDuration - 1)

\* Every AVAILABLE session with a sink ends, however often it is extended: its
\* timer keeps following the stored expiry and the ceiling stops the extensions.
TimedSessionsEnd ==
    \A i \in Id : (i \in live /\ Timed(i)) ~> i \notin live

\* Once a session that recorded a sink is gone, by whichever of delete and timer,
\* its ending is handed to a delivery, although every delivery may hang for ever:
\* no step on the way to an announcement waits for a sink.
EndingIsAnnounced ==
    \A i \in Id : (i \in used \ live /\ info[i].sink # "none") ~> Announced(i)

\* The session's life as the abstract specification sees it.
Phase(i) ==
    IF i \notin used THEN "absent"
    ELSE IF i \in live THEN "live"
    ELSE IF Announced(i) THEN "announced"
    ELSE IF info[i].sink = "none" THEN "silent"
    ELSE "ending"

Lifecycle == INSTANCE SessionLifecycle WITH
    Session <- Id,
    phase   <- [i \in Id |-> Phase(i)],
    notices <- {<<e.no, e.sessionId>> : e \in events}

\* Every step of the handlers and the timers is a step of the lifecycle the
\* sink's owner relies on, or invisible to it.
ImplementsLifecycle == Lifecycle!Spec

\* v1.rs: "the resulting total duration must stay within the profile ceiling".
DurationWithinCeiling == \A i \in live : info[i].duration <= MaxDuration

\* v1.rs: "an extendQosSession that pushed the expiry out is honoured".
ExtensionHonoured ==
    [][\A i \in live \ live' :
          (timer[i].pc = "evict" /\ timer'[i].pc = "notify"
             /\ Plane[info[i].device] # "terminated")
          => now >= info[i].expiresAt]_vars

\* v1.rs: the secret is "kept in memory only, dropped as the session ends".
CredentialDropped ==
    \A i \in creds : \/ i \in live
                      \/ Announcing(i)
                      \/ \E c \in Client : /\ task[c].pc \in {"credential", "schedule"}
                                            /\ task[c].id = i

=============================================================================
