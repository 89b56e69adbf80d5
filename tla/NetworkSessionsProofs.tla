----------------------- MODULE NetworkSessionsProofs -----------------------
(***************************************************************************)
(* Proofs about NetworkSessions, for any number of connections, resources, *)
(* devices, booking windows and metric reports.                            *)
(***************************************************************************)
EXTENDS NetworkSessions, TLAPS, FiniteSetTheorems

\* A resource whose end still owes its sink an event.
Owed(i) == i \in used \ live /\ info[i].sink /\ ~Ended(i) /\ ~Inserting(i)

\* The ids of two half-finished creates differ, and their timers have not run.
CreatorInv ==
    /\ \A c \in Client : task[c].pc \in {"insert", "schedule"} =>
          task[c].id \in used /\ timer[task[c].id].pc = "none"
    /\ \A c \in Client : task[c].pc = "insert" =>
          task[c].id \notin live /\ ~Ended(task[c].id)
    /\ \A c, d \in Client :
          /\ task[c].pc \in {"insert", "schedule"}
          /\ task[d].pc \in {"insert", "schedule"}
          /\ task[c].id = task[d].id
          => c = d

\* The end of a resource is owed by exactly one task.
DeleterInv ==
    /\ \A c \in Client : task[c].pc = "notify" =>
          Owed(task[c].id) /\ timer[task[c].id].pc # "notify"
    /\ \A c, d \in Client :
          /\ task[c].pc = "notify" /\ task[d].pc = "notify"
          /\ task[c].id = task[d].id
          => c = d

ReporterInv == \A c \in Client : task[c].pc = "score" =>
                  task[c].id \in used /\ info[task[c].id].sink

TimerInv ==
    \A i \in Id : /\ timer[i].pc # "none" => i \in used /\ info[i].sink
                  /\ timer[i].pc = "notify" => Owed(i) /\ timer[i].kind \in Terminal

\* An announced end is the end of a resource that was created and is gone.
NoticeInv ==
    /\ \A e \in events : e.id \in used
    /\ \A i \in Id : Ended(i) => i \notin live

\* A session always has a sink, and so has whatever was given a credential.
SinkInv == \A i \in used : i \in Insight \cup secured => info[i].sink

\* The races between the tasks that may end a resource.
RaceInv ==
    /\ TypeOK /\ CreatorInv /\ DeleterInv /\ ReporterInv
    /\ TimerInv /\ NoticeInv /\ SinkInv

LEMMA InitRaceInv == Init => RaceInv
  <1> SUFFICES ASSUME Init PROVE RaceInv
    OBVIOUS
  <1>1. Blank \in Info
    BY ConstantsAssumption DEF Blank, Info, Status
  <1>2. TypeOK
    BY <1>1, FS_EmptySet DEF Init, TypeOK, Task, TimerState, Idle, NoTimer
  <1> QED
    BY <1>2 DEF Init, Idle, NoTimer, RaceInv, CreatorInv, DeleterInv, ReporterInv,
                TimerInv, NoticeInv, SinkInv, Ended

\* What handing an event over does to the log.
LEMMA RecordStep ==
  ASSUME TypeOK, NEW i \in Id, NEW k \in Terminal \cup Interim,
         NEW auth \in BOOLEAN, Record(i, k, auth)
  PROVE  /\ \E e \in Event : /\ e.no = Cardinality(events) + 1
                             /\ e.id = i /\ e.kind = k /\ e.auth = auth
                             /\ events' = events \cup {e}
         /\ IsFiniteSet(events')
  <1> DEFINE e == [no |-> Cardinality(events) + 1, id |-> i, kind |-> k, auth |-> auth]
  <1>1. Cardinality(events) \in Nat /\ IsFiniteSet(events \cup {e})
    BY FS_CardinalityType, FS_AddElement DEF TypeOK
  <1>2. e \in Event
    BY <1>1 DEF Event
  <1> QED BY <1>1, <1>2 DEF Record

LEMMA AnnounceStep ==
  ASSUME TypeOK, NEW i \in Id, NEW k \in Terminal, Announce(i, k)
  PROVE  /\ \E e \in Event : /\ e.no = Cardinality(events) + 1
                             /\ e.id = i /\ e.kind = k /\ e.auth = (i \in creds)
                             /\ events' = events \cup {e}
         /\ IsFiniteSet(events')
         /\ creds' = creds \ {i}
  <1> DEFINE auth == i \in creds
  <1>1. auth \in BOOLEAN /\ k \in Terminal \cup Interim
    OBVIOUS
  <1>2. Record(i, k, auth) /\ creds' = creds \ {i}
    BY DEF Announce
  <1> HIDE DEF auth
  <1>3. /\ \E e \in Event : /\ e.no = Cardinality(events) + 1
                            /\ e.id = i /\ e.kind = k /\ e.auth = auth
                            /\ events' = events \cup {e}
        /\ IsFiniteSet(events')
    BY <1>1, <1>2, RecordStep
  <1> QED BY <1>2, <1>3 DEF auth

LEMMA ReportStep ==
  ASSUME TypeOK, NEW i \in Id, NEW k \in Interim, Report(i, k)
  PROVE  /\ \E e \in Event : /\ e.no = Cardinality(events) + 1
                             /\ e.id = i /\ e.kind = k /\ e.auth = (i \in creds)
                             /\ events' = events \cup {e}
         /\ IsFiniteSet(events')
         /\ creds' = creds
  <1> DEFINE auth == i \in creds
  <1>1. auth \in BOOLEAN /\ k \in Terminal \cup Interim
    OBVIOUS
  <1>2. Record(i, k, auth) /\ creds' = creds
    BY DEF Report
  <1> HIDE DEF auth
  <1>3. /\ \E e \in Event : /\ e.no = Cardinality(events) + 1
                            /\ e.id = i /\ e.kind = k /\ e.auth = auth
                            /\ events' = events \cup {e}
        /\ IsFiniteSet(events')
    BY <1>1, <1>2, RecordStep
  <1> QED BY <1>2, <1>3 DEF auth

-----------------------------------------------------------------------------
(* The steps preserve RaceInv *)

LEMMA BuildInfoType ==
  ASSUME TypeOK, NEW i \in Id, NEW r \in Request
  PROVE  BuildInfo(i, r) \in Info
  <1>1. r.device \in Device /\ r.duration \in Nat /\ r.startTime \in Nat
        /\ r.sink \in BOOLEAN
    BY ConstantsAssumption DEF Request
  <1>2. StatusOf(i, r.device) \in Status
    BY DEF StatusOf, Status
  <1>3. DurationOf(i, r) \in Nat
    BY <1>1, ConstantsAssumption DEF DurationOf
  <1> QED BY <1>1, <1>2, <1>3 DEF BuildInfo, Info, TypeOK

LEMMA CreateStep ==
  ASSUME RaceInv, NEW c \in Client, NEW i \in Id, NEW r \in Request, Create(c, i, r)
  PROVE  RaceInv'
  <1> USE DEF RaceInv
  <1>1. BuildInfo(i, r) \in Info /\ BuildInfo(i, r).sink = r.sink
    BY BuildInfoType DEF BuildInfo
  <1>2. /\ task[c] = Idle /\ i \notin used /\ used' = used \cup {i}
        /\ info' = [info EXCEPT ![i] = BuildInfo(i, r)]
        /\ task' = [task EXCEPT ![c] = [pc |-> "insert", id |-> i]]
        /\ \/ secured' = secured /\ creds' = creds
           \/ secured' = secured \cup {i} /\ creds' = creds \cup {i} /\ r.sink
        /\ i \in Insight => r.sink
        /\ UNCHANGED <<live, known, timer, events, now>>
    BY DEF Create, CreateAccepted
  <1> HIDE DEF RaceInv
  <1>3. \A j \in used : j # i /\ info'[j] = info[j]
    BY <1>2 DEF RaceInv, TypeOK
  <1>4. timer[i].pc = "none" /\ ~Ended(i) /\ i \notin live
    BY <1>2 DEF RaceInv, TypeOK, TimerInv, NoticeInv, Ended
  <1>5. TypeOK'
    BY <1>1, <1>2 DEF RaceInv, TypeOK, Task
  <1>6. \A j : Ended(j)' <=> Ended(j)
    BY <1>2 DEF Ended
  <1>7. CreatorInv'
    BY <1>2, <1>4, <1>6 DEF RaceInv, CreatorInv, TypeOK
  <1>8. \A j \in Id : Owed(j) => Owed(j)'
    BY <1>2, <1>3, <1>6 DEF RaceInv, Owed, Inserting, TypeOK
  <1>9. DeleterInv'
    BY <1>2, <1>8 DEF RaceInv, DeleterInv, Owed, TypeOK
  <1>10. ReporterInv'
    BY <1>2, <1>3 DEF RaceInv, ReporterInv, TypeOK
  <1>11. TimerInv'
    BY <1>2, <1>3, <1>4, <1>8 DEF RaceInv, TimerInv
  <1>12. NoticeInv'
    BY <1>2, <1>6 DEF RaceInv, NoticeInv
  <1>13. SinkInv'
    BY <1>1, <1>2, <1>3 DEF RaceInv, SinkInv, TypeOK
  <1> QED BY <1>5, <1>7, <1>9, <1>10, <1>11, <1>12, <1>13 DEF RaceInv

LEMMA InsertStep ==
  ASSUME RaceInv, NEW c \in Client, Insert(c)
  PROVE  RaceInv'
  <1>1. /\ task[c].pc = "insert" /\ live' = live \cup {task[c].id}
        /\ task' = [task EXCEPT ![c].pc = "schedule"]
        /\ UNCHANGED <<info, used, creds, secured, known, timer, events, now>>
    BY DEF Insert
  <1>2. /\ task[c].id \in used /\ ~Ended(task[c].id)
        /\ \A d \in Client : d # c => task'[d] = task[d]
        /\ task'[c].pc = "schedule" /\ task'[c].id = task[c].id
    BY <1>1 DEF RaceInv, CreatorInv, TypeOK, Task
  <1>3. TypeOK'
    BY <1>1, <1>2 DEF RaceInv, TypeOK, Task
  <1>4. \A j : Ended(j)' <=> Ended(j)
    BY <1>1 DEF Ended
  <1>5. CreatorInv'
    BY <1>1, <1>2, <1>4 DEF RaceInv, CreatorInv
  <1>6. \A j : Owed(j) => Owed(j)'
    BY <1>1, <1>2, <1>4 DEF Owed, Inserting
  <1>7. DeleterInv' /\ ReporterInv' /\ TimerInv'
    BY <1>1, <1>2, <1>6 DEF RaceInv, DeleterInv, ReporterInv, TimerInv
  <1>8. NoticeInv' /\ SinkInv'
    BY <1>1, <1>2, <1>4 DEF RaceInv, NoticeInv, SinkInv
  <1> QED BY <1>3, <1>5, <1>7, <1>8 DEF RaceInv

\* The timer a create spawns, if any, belongs to a resource with a sink, and
\* sleeps until a moment that is a number.
LEMMA ScheduledTimer ==
  ASSUME TypeOK, NEW i \in Id
  PROVE  /\ Scheduled(i) \subseteq {"DURATION_EXPIRED", "NETWORK_TERMINATED", "ACTIVATED"}
         /\ Scheduled(i) # {} => info[i].sink
         /\ \A k : WakeAt(i, k) \in Nat
  <1>1. Scheduled(i) \subseteq {"DURATION_EXPIRED", "NETWORK_TERMINATED", "ACTIVATED"}
    BY DEF Scheduled
  <1>2. Scheduled(i) # {} => info[i].sink
    BY DEF Scheduled
  <1>3. info[i].startTime \in Nat /\ info[i].startedAt \in Nat /\ info[i].duration \in Nat
    BY DEF TypeOK, Info
  <1>4. ASSUME NEW k PROVE WakeAt(i, k) \in Nat
    <2>1. now \in Nat /\ Grace \in Nat
      BY ConstantsAssumption DEF TypeOK
    <2> QED BY <1>3, <2>1 DEF WakeAt
  <1> QED BY <1>1, <1>2, <1>4

\* What the second half of a create does.
LEMMA ScheduleEffect ==
  ASSUME RaceInv, NEW c \in Client, ScheduleAndReply(c), NEW i, i = task[c].id
  PROVE  /\ task[c].pc = "schedule" /\ task' = [task EXCEPT ![c] = Idle]
         /\ i \in Id /\ i \in used /\ timer[i].pc = "none"
         /\ known' = known \cup {i} /\ creds' = creds
         /\ UNCHANGED <<live, info, used, secured, now>>
         /\ \/ timer' = timer
            \/ \E k \in Scheduled(i) : /\ timer' = [timer EXCEPT ![i] = Sleep(k, WakeAt(i, k))]
                                       /\ Sleep(k, WakeAt(i, k)) \in TimerState
                                       /\ info[i].sink
         /\ \/ events' = events
            \/ \E e \in Event : /\ e.no = Cardinality(events) + 1
                                /\ e.id = i /\ e.kind = "AVAILABLE"
                                /\ e.auth = (i \in creds)
                                /\ events' = events \cup {e}
                                /\ info[i].sink
         /\ IsFiniteSet(events')
  <1>1. task[c].pc = "schedule"
    BY DEF ScheduleAndReply
  <1>2. i \in Id /\ i \in used /\ timer[i].pc = "none"
    BY <1>1 DEF RaceInv, CreatorInv, TypeOK
  <1>3. \A k \in Scheduled(i) : Sleep(k, WakeAt(i, k)) \in TimerState /\ info[i].sink
    BY <1>2, ScheduledTimer DEF RaceInv, Sleep, TimerState
  <1>4. \/ timer' = timer
        \/ \E k \in Scheduled(i) : timer' = [timer EXCEPT ![i] = Sleep(k, WakeAt(i, k))]
    BY DEF ScheduleAndReply
  <1>5. \/ events' = events /\ creds' = creds
        \/ Report(i, "AVAILABLE") /\ info[i].sink
    BY DEF ScheduleAndReply
  <1>6. CASE events' = events /\ creds' = creds
    BY <1>1, <1>2, <1>3, <1>4, <1>6 DEF ScheduleAndReply, RaceInv, TypeOK
  <1>7. CASE Report(i, "AVAILABLE") /\ info[i].sink
    <2>1. "AVAILABLE" \in Interim /\ TypeOK
      BY DEF Interim, RaceInv
    <2>2. /\ \E e \in Event : /\ e.no = Cardinality(events) + 1
                              /\ e.id = i /\ e.kind = "AVAILABLE" /\ e.auth = (i \in creds)
                              /\ events' = events \cup {e}
          /\ IsFiniteSet(events')
          /\ creds' = creds
      BY <1>2, <1>7, <2>1, ReportStep
    <2> QED BY <1>1, <1>2, <1>3, <1>4, <1>7, <2>2 DEF ScheduleAndReply
  <1> QED BY <1>5, <1>6, <1>7

LEMMA ScheduleStep ==
  ASSUME RaceInv, NEW c \in Client, ScheduleAndReply(c)
  PROVE  RaceInv'
  <1> DEFINE i == task[c].id
  <1>1. /\ task[c].pc = "schedule" /\ task' = [task EXCEPT ![c] = Idle]
        /\ i \in Id /\ i \in used /\ timer[i].pc = "none"
        /\ known' = known \cup {i} /\ creds' = creds
        /\ UNCHANGED <<live, info, used, secured, now>>
        /\ IsFiniteSet(events')
    BY ScheduleEffect
  <1>2. /\ timer' \in [Id -> TimerState]
        /\ \A j \in Id : timer'[j] # timer[j] =>
              j = i /\ timer'[i].pc = "sleep" /\ info[i].sink
    <2>1. CASE timer' = timer
      BY <2>1 DEF RaceInv, TypeOK
    <2>2. CASE timer' # timer
      <3>1. PICK k \in Scheduled(i) :
               /\ timer' = [timer EXCEPT ![i] = Sleep(k, WakeAt(i, k))]
               /\ Sleep(k, WakeAt(i, k)) \in TimerState
               /\ info[i].sink
        BY <2>2, ScheduleEffect
      <3>2. Sleep(k, WakeAt(i, k)).pc = "sleep"
        BY DEF Sleep
      <3> QED BY <1>1, <3>1, <3>2 DEF RaceInv, TypeOK
    <2> QED BY <2>1, <2>2
  <1>3. /\ events \subseteq events' /\ events' \subseteq Event
        /\ \A e \in events' \ events : e.id = i /\ e.kind \notin Terminal
    <2>1. CASE events' = events
      BY <2>1 DEF RaceInv, TypeOK
    <2>2. CASE events' # events
      BY <2>2, ScheduleEffect DEF RaceInv, TypeOK, Terminal
    <2> QED BY <2>1, <2>2
  <1>4. TypeOK'
    BY <1>1, <1>2, <1>3 DEF RaceInv, TypeOK, Task, Idle
  <1>5. \A j : Ended(j)' <=> Ended(j)
    BY <1>3 DEF Ended
  <1>6. CreatorInv'
    BY <1>1, <1>2, <1>5 DEF RaceInv, CreatorInv, TypeOK, Idle
  <1>7. \A j : Owed(j) => Owed(j)'
    BY <1>1, <1>5 DEF Owed, Inserting, RaceInv, TypeOK, Idle
  <1>8. DeleterInv'
    BY <1>1, <1>2, <1>7 DEF RaceInv, DeleterInv, TypeOK, Idle, Owed
  <1>9. ReporterInv'
    BY <1>1 DEF RaceInv, ReporterInv, TypeOK, Idle
  <1>10. TimerInv'
    BY <1>1, <1>2, <1>7 DEF RaceInv, TimerInv
  <1>11. NoticeInv' /\ SinkInv'
    BY <1>1, <1>3, <1>5 DEF RaceInv, NoticeInv, SinkInv
  <1> QED BY <1>4, <1>6, <1>8, <1>9, <1>10, <1>11 DEF RaceInv

LEMMA DeleteStep ==
  ASSUME RaceInv, NEW c \in Client, NEW i \in Id, Delete(c, i)
  PROVE  RaceInv'
  <1>1. /\ task[c].pc = "idle" /\ i \in live /\ live' = live \ {i}
        /\ task' = IF info[i].sink
                   THEN [task EXCEPT ![c] = [pc |-> "notify", id |-> i]] ELSE task
        /\ UNCHANGED <<info, used, creds, secured, known, timer, events, now>>
    BY DEF Delete, Idle
  <1>2. TypeOK'
    BY <1>1 DEF RaceInv, TypeOK, Task
  <1>3. \A j : Ended(j)' <=> Ended(j)
    BY <1>1 DEF Ended
  <1>4. CreatorInv'
    BY <1>1, <1>3 DEF RaceInv, CreatorInv, TypeOK
  <1>5. \A j : Inserting(j)' <=> Inserting(j)
    BY <1>1 DEF Inserting, RaceInv, TypeOK
  <1>6. \A j : Owed(j) => Owed(j)' /\ j # i
    BY <1>1, <1>3, <1>5 DEF Owed
  <1>7. ~Ended(i) /\ ~Inserting(i)
    BY <1>1 DEF RaceInv, NoticeInv, CreatorInv, Inserting
  <1>8. info[i].sink => Owed(i)'
    BY <1>1, <1>3, <1>5, <1>7 DEF Owed, RaceInv, TypeOK
  <1>9. timer[i].pc # "notify"
    BY <1>6 DEF RaceInv, TimerInv
  <1>10. DeleterInv'
    BY <1>1, <1>6, <1>8, <1>9 DEF RaceInv, DeleterInv, TypeOK
  <1>11. ReporterInv' /\ TimerInv' /\ NoticeInv' /\ SinkInv'
    BY <1>1, <1>3, <1>6 DEF RaceInv, ReporterInv, TimerInv, NoticeInv, SinkInv, TypeOK
  <1> QED BY <1>2, <1>4, <1>10, <1>11 DEF RaceInv

\* A terminal event that is owed is announced by a task that owes it.
LEMMA AnnounceOwed ==
  ASSUME RaceInv, NEW i \in Id, Owed(i), NEW k \in Terminal, Announce(i, k),
         UNCHANGED <<live, info, used, secured>>
  PROVE  /\ events' \subseteq Event /\ IsFiniteSet(events') /\ creds' = creds \ {i}
         /\ Ended(i)' /\ \A j : j # i => (Ended(j)' <=> Ended(j))
         /\ NoticeInv' /\ SinkInv'
  <1>1. PICK e \in Event : e.id = i /\ e.kind = k /\ events' = events \cup {e}
    BY AnnounceStep DEF RaceInv
  <1>2. IsFiniteSet(events') /\ creds' = creds \ {i} /\ events' \subseteq Event
    BY AnnounceStep DEF RaceInv, TypeOK
  <1>3. Ended(i)' /\ \A j : j # i => (Ended(j)' <=> Ended(j))
    BY <1>1 DEF Ended
  <1>4. NoticeInv'
    BY <1>1, <1>3 DEF RaceInv, NoticeInv, Owed
  <1>5. SinkInv'
    BY DEF RaceInv, SinkInv
  <1> QED BY <1>2, <1>3, <1>4, <1>5

LEMMA DeleteNotifyStep ==
  ASSUME RaceInv, NEW c \in Client, DeleteNotify(c)
  PROVE  RaceInv'
  <1>12. PICK i \in Id : i = task[c].id
    BY DEF DeleteNotify, RaceInv, DeleterInv, Owed, TypeOK
  <1>1. /\ task[c].pc = "notify" /\ task' = [task EXCEPT ![c] = Idle]
        /\ Announce(i, "DELETE_REQUESTED")
        /\ UNCHANGED <<live, info, used, secured, known, timer, now>>
    BY <1>12 DEF DeleteNotify
  <1>2. Owed(i) /\ i \in Id /\ timer[i].pc # "notify"
    BY <1>1, <1>12 DEF RaceInv, DeleterInv
  <1>11. "DELETE_REQUESTED" \in Terminal
    BY DEF Terminal
  <1>3. /\ events' \subseteq Event /\ IsFiniteSet(events') /\ creds' = creds \ {i}
        /\ Ended(i)' /\ \A j : j # i => (Ended(j)' <=> Ended(j))
        /\ NoticeInv' /\ SinkInv'
    BY <1>1, <1>2, <1>11, AnnounceOwed
  <1>4. TypeOK'
    BY <1>1, <1>3 DEF RaceInv, TypeOK, Task, Idle
  <1>5. \A j : Inserting(j)' <=> Inserting(j)
    BY <1>1 DEF Inserting, RaceInv, TypeOK, Idle
  <1>6. \A d \in Client : task[d].pc = "insert" => task[d].id # i
    BY <1>2 DEF Owed, Inserting
  <1>7. CreatorInv'
    BY <1>1, <1>3, <1>6 DEF RaceInv, CreatorInv, TypeOK, Idle
  <1>8. \A j : Owed(j) /\ j # i => Owed(j)'
    BY <1>1, <1>3, <1>5 DEF Owed
  <1>9. DeleterInv'
    BY <1>1, <1>12, <1>8 DEF RaceInv, DeleterInv, TypeOK, Idle
  <1>10. ReporterInv' /\ TimerInv'
    BY <1>1, <1>2, <1>12, <1>8 DEF RaceInv, ReporterInv, TimerInv, TypeOK, Idle
  <1> QED BY <1>3, <1>4, <1>7, <1>9, <1>10 DEF RaceInv

\* The steps that only add an interim event to the log.
LEMMA ReportOnly ==
  ASSUME RaceInv, NEW i \in Id, i \in used, NEW k \in Interim, Report(i, k),
         UNCHANGED <<live, used>>
  PROVE  /\ events' \subseteq Event /\ IsFiniteSet(events') /\ creds' = creds
         /\ \A j : Ended(j)' <=> Ended(j)
         /\ NoticeInv'
  <1>1. PICK e \in Event : e.id = i /\ e.kind = k /\ events' = events \cup {e}
    BY ReportStep DEF RaceInv
  <1>2. IsFiniteSet(events') /\ creds' = creds /\ events' \subseteq Event
    BY <1>1, ReportStep DEF RaceInv, TypeOK
  <1>3. k \notin Terminal
    BY DEF Interim, Terminal
  <1>4. \A j : Ended(j)' <=> Ended(j)
    BY <1>1, <1>3 DEF Ended
  <1> QED BY <1>1, <1>2, <1>4 DEF RaceInv, NoticeInv

\* A connection that starts or ends a metric report, or ends a retrieve.
LEMMA MetricsStep ==
  ASSUME RaceInv, NEW c \in Client,
         (\E i \in Id : SendSessionMetrics(c, i)) \/ DeliverQualityScore(c)
  PROVE  RaceInv'
  <1>1. /\ task[c].pc \in {"idle", "score"}
        /\ \A d \in Client : d # c => task'[d] = task[d]
        /\ task'[c].pc \in {"idle", "score"}
        /\ task' \in [Client -> Task]
        /\ task'[c].pc = "score" => task'[c].id \in used \cap Insight
        /\ UNCHANGED <<live, info, used, creds, secured, known, timer, now>>
    <2>1. CASE \E i \in Id : SendSessionMetrics(c, i)
      BY <2>1 DEF SendSessionMetrics, Idle, RaceInv, TypeOK, Task
    <2>2. CASE DeliverQualityScore(c)
      BY <2>2 DEF DeliverQualityScore, Report, Idle, RaceInv, TypeOK, Task
    <2> QED BY <2>1, <2>2
  <1>2. /\ events' \subseteq Event /\ IsFiniteSet(events')
        /\ \A j : Ended(j)' <=> Ended(j)
        /\ NoticeInv'
    <2>1. CASE \E i \in Id : SendSessionMetrics(c, i)
      BY <2>1 DEF SendSessionMetrics, Ended, RaceInv, TypeOK, NoticeInv
    <2>2. CASE DeliverQualityScore(c)
      <3>1. task[c].id \in used /\ task[c].id \in Id /\ "QUALITY_SCORE" \in Interim
        BY <2>2 DEF DeliverQualityScore, RaceInv, ReporterInv, TypeOK, Interim
      <3> QED BY <1>1, <2>2, <3>1, ReportOnly DEF DeliverQualityScore
    <2> QED BY <2>1, <2>2
  <1>3. TypeOK'
    BY <1>1, <1>2 DEF RaceInv, TypeOK
  <1>4. CreatorInv'
    BY <1>1, <1>2 DEF RaceInv, CreatorInv
  <1>5. \A j : Owed(j) => Owed(j)'
    BY <1>1, <1>2 DEF Owed, Inserting
  <1>6. DeleterInv' /\ TimerInv'
    BY <1>1, <1>5 DEF RaceInv, DeleterInv, TimerInv
  <1>7. ReporterInv' /\ SinkInv'
    BY <1>1 DEF RaceInv, ReporterInv, SinkInv
  <1> QED BY <1>2, <1>3, <1>4, <1>6, <1>7 DEF RaceInv

LEMMA TimerEvictStep ==
  ASSUME RaceInv, NEW i \in Id, TimerEvict(i)
  PROVE  RaceInv'
  <1>1. /\ timer[i].pc = "sleep" /\ timer[i].kind \in Terminal /\ live' = live \ {i}
        /\ timer' = [timer EXCEPT ![i].pc = IF i \in live THEN "notify" ELSE "done"]
        /\ UNCHANGED <<info, used, creds, secured, known, task, events, now>>
    BY DEF TimerEvict, Wakes
  <1>2. TypeOK'
    BY <1>1 DEF RaceInv, TypeOK, TimerState
  <1>3. \A j : Ended(j)' <=> Ended(j)
    BY <1>1 DEF Ended
  <1>4. \A j : Inserting(j)' <=> Inserting(j)
    BY <1>1 DEF Inserting
  <1>5. \A j : Owed(j) => Owed(j)' /\ j \notin live
    BY <1>1, <1>3, <1>4 DEF Owed
  <1>6. i \in used /\ info[i].sink /\ ~Inserting(i)
    BY <1>1 DEF RaceInv, TimerInv, CreatorInv, Inserting
  <1>7. i \in live => Owed(i)'
    BY <1>1, <1>3, <1>4, <1>6 DEF Owed, RaceInv, NoticeInv
  <1>8. CreatorInv'
    BY <1>1, <1>3, <1>6 DEF RaceInv, CreatorInv, TypeOK, Inserting
  <1>9. DeleterInv'
    BY <1>1, <1>5 DEF RaceInv, DeleterInv, TypeOK
  <1>10. TimerInv'
    BY <1>1, <1>5, <1>6, <1>7 DEF RaceInv, TimerInv, TypeOK, TimerState
  <1>11. ReporterInv' /\ NoticeInv' /\ SinkInv'
    BY <1>1, <1>3 DEF RaceInv, ReporterInv, NoticeInv, SinkInv
  <1> QED BY <1>2, <1>8, <1>9, <1>10, <1>11 DEF RaceInv

LEMMA TimerNotifyStep ==
  ASSUME RaceInv, NEW i \in Id, TimerNotify(i)
  PROVE  RaceInv'
  <1>1. /\ timer[i].pc = "notify" /\ timer' = [timer EXCEPT ![i].pc = "done"]
        /\ Announce(i, timer[i].kind)
        /\ UNCHANGED <<live, info, used, secured, known, task, now>>
    BY DEF TimerNotify
  <1>2. Owed(i) /\ timer[i].kind \in Terminal
    BY <1>1 DEF RaceInv, TimerInv
  <1>3. /\ events' \subseteq Event /\ IsFiniteSet(events') /\ creds' = creds \ {i}
        /\ Ended(i)' /\ \A j : j # i => (Ended(j)' <=> Ended(j))
        /\ NoticeInv' /\ SinkInv'
    BY <1>1, <1>2, AnnounceOwed
  <1>4. TypeOK'
    BY <1>1, <1>3 DEF RaceInv, TypeOK, TimerState
  <1>5. \A d \in Client : task[d].pc = "insert" => task[d].id # i
    BY <1>2 DEF Owed, Inserting
  <1>6. \A d \in Client : task[d].pc = "notify" => task[d].id # i
    BY <1>1 DEF RaceInv, DeleterInv
  <1>7. CreatorInv'
    BY <1>1, <1>3, <1>5 DEF RaceInv, CreatorInv, TypeOK
  <1>8. \A j : Owed(j) /\ j # i => Owed(j)'
    BY <1>1, <1>3 DEF Owed, Inserting
  <1>9. DeleterInv'
    BY <1>1, <1>6, <1>8 DEF RaceInv, DeleterInv, TypeOK
  <1>10. ReporterInv' /\ TimerInv'
    BY <1>1, <1>2, <1>8 DEF RaceInv, ReporterInv, TimerInv, TypeOK, Owed
  <1> QED BY <1>3, <1>4, <1>7, <1>9, <1>10 DEF RaceInv

LEMMA TimerActivateStep ==
  ASSUME RaceInv, NEW i \in Id, TimerActivate(i)
  PROVE  RaceInv'
  <1>1. /\ timer[i].pc = "sleep"
        /\ info' = IF i \notin live THEN info
                   ELSE [info EXCEPT ![i].status = "GRANTED", ![i].startedAt = now]
        /\ timer' = [timer EXCEPT ![i].pc = IF i \in live THEN "activated" ELSE "done"]
        /\ UNCHANGED <<live, used, creds, secured, known, task, events, now>>
    BY DEF TimerActivate, Wakes
  <1>2. info' \in [Id -> Info] /\ \A j \in Id : info'[j].sink = info[j].sink
    BY <1>1 DEF RaceInv, TypeOK, Info, Status
  <1>3. TypeOK'
    BY <1>1, <1>2 DEF RaceInv, TypeOK, TimerState
  <1>4. \A j : Ended(j)' <=> Ended(j)
    BY <1>1 DEF Ended
  <1>5. i \in used /\ info[i].sink /\ \A d \in Client :
           task[d].pc \in {"insert", "schedule"} => task[d].id # i
    BY <1>1 DEF RaceInv, TimerInv, CreatorInv
  <1>6. CreatorInv'
    BY <1>1, <1>4, <1>5 DEF RaceInv, CreatorInv, TypeOK
  <1>7. \A j \in Id : Owed(j) => Owed(j)'
    BY <1>1, <1>2, <1>4 DEF Owed, Inserting
  <1>8. DeleterInv'
    BY <1>1, <1>7 DEF RaceInv, DeleterInv, TypeOK, Owed
  <1>9. TimerInv'
    BY <1>1, <1>2, <1>5, <1>7 DEF RaceInv, TimerInv, TypeOK, TimerState
  <1>10. ReporterInv' /\ NoticeInv' /\ SinkInv'
    BY <1>1, <1>2, <1>4 DEF RaceInv, ReporterInv, NoticeInv, SinkInv, TypeOK
  <1> QED BY <1>3, <1>6, <1>8, <1>9, <1>10 DEF RaceInv

LEMMA TimerOpenWindowStep ==
  ASSUME RaceInv, NEW i \in Id, TimerOpenWindow(i)
  PROVE  RaceInv'
  <1>1. /\ timer[i].pc = "activated" /\ Report(i, "ACTIVATED")
        /\ timer' = [timer EXCEPT ![i] = Sleep("DURATION_EXPIRED", now + info[i].duration)]
        /\ UNCHANGED <<live, info, used, secured, known, task, now>>
    BY DEF TimerOpenWindow
  <1>2. i \in used /\ info[i].sink /\ \A d \in Client :
           task[d].pc \in {"insert", "schedule"} => task[d].id # i
    BY <1>1 DEF RaceInv, TimerInv, CreatorInv
  <1>3. /\ events' \subseteq Event /\ IsFiniteSet(events') /\ creds' = creds
        /\ \A j : Ended(j)' <=> Ended(j)
        /\ NoticeInv'
    BY <1>1, <1>2, ReportOnly, "ACTIVATED" \in Interim DEF Interim
  <1>4. Sleep("DURATION_EXPIRED", now + info[i].duration) \in TimerState
    BY DEF RaceInv, TypeOK, Info, Sleep, TimerState
  <1>5. TypeOK'
    BY <1>1, <1>3, <1>4 DEF RaceInv, TypeOK
  <1>6. CreatorInv'
    BY <1>1, <1>2, <1>3 DEF RaceInv, CreatorInv, TypeOK
  <1>7. \A j : Owed(j) => Owed(j)'
    BY <1>1, <1>3 DEF Owed, Inserting
  <1>8. DeleterInv'
    BY <1>1, <1>7 DEF RaceInv, DeleterInv, TypeOK, Sleep
  <1>9. TimerInv'
    BY <1>1, <1>2, <1>7 DEF RaceInv, TimerInv, TypeOK, Sleep
  <1>10. ReporterInv' /\ SinkInv'
    BY <1>1 DEF RaceInv, ReporterInv, SinkInv
  <1> QED BY <1>3, <1>5, <1>6, <1>8, <1>9, <1>10 DEF RaceInv

LEMMA QuietStep ==
  ASSUME RaceInv,
         \/ \E c \in Client, dev \in Device : RetrieveByDevice(c, dev)
         \/ Tick
         \/ UNCHANGED vars
  PROVE  RaceInv'
  <1>1. /\ UNCHANGED <<live, info, used, creds, secured, task, timer, events>>
        /\ known' \subseteq used
        /\ now' \in Nat
    BY DEF RetrieveByDevice, Tick, vars, RaceInv, TypeOK
  <1>2. TypeOK'
    BY <1>1 DEF RaceInv, TypeOK
  <1>3. \A j : (Ended(j)' <=> Ended(j)) /\ (Owed(j)' <=> Owed(j))
    BY <1>1 DEF Ended, Owed, Inserting
  <1> QED
    BY <1>1, <1>2, <1>3 DEF RaceInv, CreatorInv, DeleterInv, ReporterInv, TimerInv,
                            NoticeInv, SinkInv

LEMMA RaceInvStep == RaceInv /\ [Next]_vars => RaceInv'
  <1> SUFFICES ASSUME RaceInv, [Next]_vars PROVE RaceInv'
    OBVIOUS
  <1>1. ASSUME NEW c \in Client, Begin(c) PROVE RaceInv'
    BY <1>1, CreateStep, QuietStep, DeleteStep, MetricsStep DEF Begin
  <1>2. ASSUME NEW c \in Client, Continue(c) PROVE RaceInv'
    BY <1>2, InsertStep, ScheduleStep, DeleteNotifyStep, MetricsStep DEF Continue
  <1>3. ASSUME NEW i \in Id, TimerStep(i) PROVE RaceInv'
    BY <1>3, TimerEvictStep, TimerNotifyStep, TimerActivateStep, TimerOpenWindowStep
       DEF TimerStep
  <1> QED BY <1>1, <1>2, <1>3, QuietStep DEF Next

LEMMA RaceInvHolds == Spec => []RaceInv
  BY InitRaceInv, RaceInvStep, PTL DEF Spec

\* The state of the three services keeps its shape.
THEOREM TypeCorrect == Spec => []TypeOK
  BY RaceInvHolds, PTL DEF RaceInv

-----------------------------------------------------------------------------
(* Credentials *)

\* A resource that can still send its end.
Held(i) == Inserting(i) \/ i \in live \/ Announcing(i)

NoSilentEnd == \A i \in used : info[i].sink => Held(i) \/ Ended(i)

Numbered == \A e \in events : e.no <= Cardinality(events)

CredentialInv ==
    CredentialFollowsResource /\ NoSilentEnd /\ Numbered /\ UnauthenticatedIsLate

\* An event numbered last is late exactly when an end was announced before.
LEMMA LogGrows ==
  ASSUME RaceInv, CredentialInv, secured' = secured,
         NEW e \in Event, e.no = Cardinality(events) + 1, events' = events \cup {e},
         e.id \in secured /\ ~e.auth => e.kind \in Interim /\ Ended(e.id)
  PROVE  Numbered' /\ UnauthenticatedIsLate'
  <1>1. IsFiniteSet(events) /\ Cardinality(events) \in Nat
    BY FS_CardinalityType DEF RaceInv, TypeOK
  <1>2. \A f \in events : f.no <= Cardinality(events) /\ f.no \in Nat
    BY DEF CredentialInv, Numbered, RaceInv, TypeOK, Event
  <1>3. e \notin events
    BY <1>1, <1>2
  <1>4. Cardinality(events') = Cardinality(events) + 1
    BY <1>1, <1>3, FS_AddElement
  <1>5. Numbered'
    BY <1>1, <1>2, <1>4 DEF Numbered
  <1>6. ASSUME e.id \in secured, ~e.auth
        PROVE  \E f \in events' : f.id = e.id /\ f.kind \in Terminal /\ f.no < e.no
    <2>1. PICK f \in events : f.id = e.id /\ f.kind \in Terminal
      BY <1>6 DEF Ended
    <2> QED BY <1>1, <1>2, <2>1
  <1>7. UnauthenticatedIsLate'
    BY <1>6 DEF UnauthenticatedIsLate, CredentialInv
  <1> QED BY <1>5, <1>7

\* The steps that leave the log alone.
LEMMA LogStays ==
  ASSUME RaceInv, CredentialInv, events' = events,
         secured' \cap used = secured \cap used
  PROVE  Numbered' /\ UnauthenticatedIsLate'
  BY DEF CredentialInv, Numbered, UnauthenticatedIsLate, RaceInv, NoticeInv

LEMMA CredentialCreate ==
  ASSUME RaceInv, CredentialInv, NEW c \in Client, NEW i \in Id, NEW r \in Request,
         Create(c, i, r)
  PROVE  CredentialInv'
  <1>1. /\ task[c] = Idle /\ i \notin used /\ used' = used \cup {i}
        /\ info' = [info EXCEPT ![i] = BuildInfo(i, r)]
        /\ task' = [task EXCEPT ![c] = [pc |-> "insert", id |-> i]]
        /\ \/ secured' = secured /\ creds' = creds
           \/ secured' = secured \cup {i} /\ creds' = creds \cup {i}
        /\ UNCHANGED <<live, known, timer, events, now>>
    BY DEF Create
  <1>2. Numbered' /\ UnauthenticatedIsLate'
    BY <1>1, LogStays
  <1>3. Inserting(i)' /\ \A j : j # i => (Inserting(j)' <=> Inserting(j))
    BY <1>1 DEF Inserting, RaceInv, TypeOK, Idle
  <1>4. \A j : j # i => (Announcing(j)' <=> Announcing(j))
    BY <1>1 DEF Announcing, RaceInv, TypeOK, Idle
  <1>5. CredentialFollowsResource'
    BY <1>1, <1>3, <1>4 DEF CredentialInv, CredentialFollowsResource, RaceInv, TypeOK
  <1>6. \A j \in used : info'[j] = info[j] /\ j # i
    BY <1>1 DEF RaceInv, TypeOK
  <1>7. NoSilentEnd'
    BY <1>1, <1>3, <1>4, <1>6 DEF CredentialInv, NoSilentEnd, Held, Ended
  <1> QED BY <1>2, <1>5, <1>7 DEF CredentialInv

\* The steps that move a resource on without announcing its end.
LEMMA CredentialMove ==
  ASSUME RaceInv, CredentialInv, UNCHANGED <<used, creds, secured>>,
         \A j \in used : info'[j].sink = info[j].sink,
         \A j \in used : info[j].sink => (Held(j)' <=> Held(j)),
         \A j : Ended(j)' <=> Ended(j),
         Numbered' /\ UnauthenticatedIsLate'
  PROVE  CredentialInv'
  <1>1. secured \subseteq used /\ \A j \in secured : info[j].sink
    BY DEF RaceInv, TypeOK, SinkInv
  <1>2. CredentialFollowsResource'
    BY <1>1 DEF CredentialInv, CredentialFollowsResource, Held
  <1>3. NoSilentEnd'
    BY DEF CredentialInv, NoSilentEnd
  <1> QED BY <1>2, <1>3 DEF CredentialInv

\* The steps that announce an end.
LEMMA CredentialEnd ==
  ASSUME RaceInv, CredentialInv, NEW i \in Id, Held(i), Owed(i),
         NEW k \in Terminal, Announce(i, k), ~Announcing(i)',
         \A j \in used \ {i} : Announcing(j)' <=> Announcing(j),
         \A j : Inserting(j)' <=> Inserting(j),
         UNCHANGED <<live, info, used, secured>>
  PROVE  CredentialInv'
  <1>1. i \in secured => i \in creds
    BY DEF CredentialInv, CredentialFollowsResource, Held
  <1>2. PICK e \in Event : /\ e.no = Cardinality(events) + 1
                          /\ e.id = i /\ e.kind = k /\ e.auth = (i \in creds)
                          /\ events' = events \cup {e}
    BY AnnounceStep DEF RaceInv
  <1>3. creds' = creds \ {i}
    BY AnnounceStep DEF RaceInv
  <1>4. Numbered' /\ UnauthenticatedIsLate'
    BY <1>1, <1>2, LogGrows
  <1>5. ~Held(i)' /\ Ended(i)'
    BY <1>2 DEF Held, Owed, Ended
  <1>6. \A j \in used \ {i} : (Held(j)' <=> Held(j)) /\ (Ended(j)' <=> Ended(j))
    BY <1>2 DEF Held, Ended
  <1>7. secured \subseteq used
    BY DEF RaceInv, TypeOK
  <1>8. CredentialFollowsResource'
    BY <1>3, <1>5, <1>6, <1>7 DEF CredentialInv, CredentialFollowsResource, Held
  <1>9. NoSilentEnd'
    BY <1>5, <1>6 DEF CredentialInv, NoSilentEnd
  <1> QED BY <1>4, <1>8, <1>9 DEF CredentialInv

\* An interim event without a credential comes after the end.
LEMMA InterimLog ==
  ASSUME RaceInv, CredentialInv, NEW i \in Id, i \in used, info[i].sink,
         NEW k \in Interim, Report(i, k), secured' = secured
  PROVE  /\ creds' = creds /\ Numbered' /\ UnauthenticatedIsLate'
         /\ \A j : Ended(j)' <=> Ended(j)
  <1>1. PICK e \in Event : /\ e.no = Cardinality(events) + 1
                          /\ e.id = i /\ e.kind = k /\ e.auth = (i \in creds)
                          /\ events' = events \cup {e}
    BY ReportStep DEF RaceInv
  <1>2. creds' = creds
    BY ReportStep DEF RaceInv
  <1>3. i \in secured /\ i \notin creds => Ended(i)
    BY DEF CredentialInv, CredentialFollowsResource, NoSilentEnd, Held
  <1>4. Numbered' /\ UnauthenticatedIsLate'
    BY <1>1, <1>3, LogGrows
  <1>5. \A j : Ended(j)' <=> Ended(j)
    BY <1>1 DEF Ended, Interim, Terminal
  <1> QED BY <1>2, <1>4, <1>5

LEMMA CredentialContinue ==
  ASSUME RaceInv, CredentialInv, NEW c \in Client, Continue(c)
  PROVE  CredentialInv'
  <1>1. CASE Insert(c)
    <2>1. /\ task[c].pc = "insert" /\ live' = live \cup {task[c].id}
          /\ task' = [task EXCEPT ![c].pc = "schedule"]
          /\ UNCHANGED <<info, used, creds, secured, known, timer, events, now>>
      BY <1>1 DEF Insert
    <2>2. \A d \in Client : task'[d].id = task[d].id /\ (d # c => task'[d] = task[d])
          /\ task'[c].pc = "schedule"
      BY <2>1 DEF RaceInv, TypeOK, Task
    <2>3. \A j : Held(j)' <=> Held(j)
      BY <2>1, <2>2 DEF Held, Inserting, Announcing
    <2>4. \A j : Ended(j)' <=> Ended(j)
      BY <2>1 DEF Ended
    <2>5. Numbered' /\ UnauthenticatedIsLate'
      BY <2>1, LogStays
    <2> QED BY <2>1, <2>3, <2>4, <2>5, CredentialMove
  <1>2. CASE ScheduleAndReply(c)
    <2> DEFINE i == task[c].id
    <2>1. /\ task[c].pc = "schedule" /\ task' = [task EXCEPT ![c] = Idle]
          /\ i \in Id /\ i \in used /\ timer[i].pc = "none" /\ creds' = creds
          /\ UNCHANGED <<live, info, used, secured, now>>
      BY <1>2, ScheduleEffect
    <2>2. \A j \in Id : timer'[j].pc = "notify" <=> timer[j].pc = "notify"
      <3>1. CASE timer' = timer
        BY <3>1
      <3>2. CASE timer' # timer
        <4>1. PICK k \in Scheduled(i) : timer' = [timer EXCEPT ![i] = Sleep(k, WakeAt(i, k))]
          BY <1>2, <3>2, ScheduleEffect
        <4>2. Sleep(k, WakeAt(i, k)).pc = "sleep"
          BY DEF Sleep
        <4> QED BY <2>1, <4>1, <4>2 DEF RaceInv, TypeOK
      <3> QED BY <3>1, <3>2
    <2>3. \A j \in used : Held(j)' <=> Held(j)
      BY <2>1, <2>2 DEF Held, Inserting, Announcing, RaceInv, TypeOK, Idle
    <2>4. Numbered' /\ UnauthenticatedIsLate' /\ \A j : Ended(j)' <=> Ended(j)
      <3>1. CASE events' = events
        BY <2>1, <3>1, LogStays DEF Ended
      <3>2. CASE events' # events
        <4>1. Report(i, "AVAILABLE") /\ info[i].sink
          BY <1>2, <3>2 DEF ScheduleAndReply
        <4> QED BY <2>1, <4>1, InterimLog, "AVAILABLE" \in Interim DEF Interim
      <3> QED BY <3>1, <3>2
    <2> QED BY <2>1, <2>3, <2>4, CredentialMove
  <1>3. CASE DeleteNotify(c)
    <2>8. PICK i \in Id : i = task[c].id
      BY <1>3 DEF DeleteNotify, RaceInv, DeleterInv, Owed, TypeOK
    <2>1. /\ task[c].pc = "notify" /\ task' = [task EXCEPT ![c] = Idle]
          /\ Announce(i, "DELETE_REQUESTED")
          /\ UNCHANGED <<live, info, used, secured, known, timer, now>>
      BY <1>3, <2>8 DEF DeleteNotify
    <2>2. Owed(i) /\ i \in Id /\ Held(i)
      BY <2>1, <2>8 DEF RaceInv, DeleterInv, Owed, TypeOK, Held, Announcing
    <2>3. timer[i].pc # "notify"
          /\ \A d \in Client : d # c /\ task[d].pc = "notify" => task[d].id # i
      BY <2>1, <2>8 DEF RaceInv, DeleterInv
    <2>4. \A d \in Client : d # c => task'[d] = task[d] /\ task'[c].pc = "idle"
      BY <2>1, <2>8 DEF RaceInv, TypeOK, Idle
    <2>5. ~Announcing(i)' /\ \A j \in used \ {i} : Announcing(j)' <=> Announcing(j)
      <3>1. task'[c].pc = "idle"
        BY <2>1, <2>8 DEF RaceInv, TypeOK, Idle
      <3> QED BY <2>1, <2>8, <2>3, <2>4, <3>1 DEF Announcing
    <2>6. \A j : Inserting(j)' <=> Inserting(j)
      BY <2>1, <2>8 DEF Inserting, RaceInv, TypeOK, Idle
    <2>7. "DELETE_REQUESTED" \in Terminal
      BY DEF Terminal
    <2> QED BY <2>1, <2>2, <2>5, <2>6, <2>7, CredentialEnd
  <1>4. CASE DeliverQualityScore(c)
    <2> DEFINE i == task[c].id
    <2>1. /\ task[c].pc = "score" /\ task' = [task EXCEPT ![c] = Idle]
          /\ Report(i, "QUALITY_SCORE")
          /\ UNCHANGED <<live, info, used, secured, known, timer, now>>
      BY <1>4 DEF DeliverQualityScore
    <2>2. i \in used /\ i \in Id /\ info[i].sink
      BY <2>1 DEF RaceInv, ReporterInv, TypeOK
    <2>3. \A j : Held(j)' <=> Held(j)
      BY <2>1 DEF Held, Inserting, Announcing, RaceInv, TypeOK, Idle
    <2>4. /\ creds' = creds /\ Numbered' /\ UnauthenticatedIsLate'
          /\ \A j : Ended(j)' <=> Ended(j)
      BY <2>1, <2>2, InterimLog, "QUALITY_SCORE" \in Interim DEF Interim
    <2> QED BY <2>1, <2>3, <2>4, CredentialMove
  <1> QED BY <1>1, <1>2, <1>3, <1>4 DEF Continue

LEMMA CredentialTimer ==
  ASSUME RaceInv, CredentialInv, NEW i \in Id, TimerStep(i)
  PROVE  CredentialInv'
  <1>1. CASE TimerEvict(i)
    <2>1. /\ timer[i].pc = "sleep" /\ live' = live \ {i}
          /\ timer' = [timer EXCEPT ![i].pc = IF i \in live THEN "notify" ELSE "done"]
          /\ UNCHANGED <<info, used, creds, secured, known, task, events, now>>
      BY <1>1 DEF TimerEvict, Wakes
    <2>2. \A j \in Id : /\ j # i => timer'[j] = timer[j]
                        /\ timer'[i].pc = "notify" <=> i \in live
      BY <2>1 DEF RaceInv, TypeOK, TimerState
    <2>3. \A j \in Id : Held(j)' <=> Held(j)
      BY <2>1, <2>2 DEF Held, Inserting, Announcing
    <2>4. used \subseteq Id /\ \A j : Ended(j)' <=> Ended(j)
      BY <2>1 DEF Ended, RaceInv, TypeOK
    <2>5. Numbered' /\ UnauthenticatedIsLate'
      BY <2>1, LogStays
    <2> QED BY <2>1, <2>3, <2>4, <2>5, CredentialMove
  <1>2. CASE TimerNotify(i)
    <2>1. /\ timer[i].pc = "notify" /\ timer' = [timer EXCEPT ![i].pc = "done"]
          /\ Announce(i, timer[i].kind)
          /\ UNCHANGED <<live, info, used, secured, known, task, now>>
      BY <1>2 DEF TimerNotify
    <2>2. Owed(i) /\ Held(i) /\ timer[i].kind \in Terminal
      BY <2>1 DEF RaceInv, TimerInv, Held, Announcing
    <2>3. timer'[i].pc = "done" /\ \A j \in Id \ {i} : timer'[j] = timer[j]
      BY <2>1 DEF RaceInv, TypeOK, TimerState
    <2>6. \A d \in Client : task[d].pc = "notify" => task[d].id # i
      BY <2>1 DEF RaceInv, DeleterInv
    <2>7. used \subseteq Id
      BY DEF RaceInv, TypeOK
    <2>4. ~Announcing(i)' /\ \A j \in used \ {i} : Announcing(j)' <=> Announcing(j)
      BY <2>1, <2>3, <2>6, <2>7 DEF Announcing
    <2>5. \A j : Inserting(j)' <=> Inserting(j)
      BY <2>1 DEF Inserting
    <2> QED BY <2>1, <2>2, <2>4, <2>5, CredentialEnd
  <1>3. CASE TimerActivate(i)
    <2>1. /\ timer[i].pc = "sleep"
          /\ info' = IF i \notin live THEN info
                     ELSE [info EXCEPT ![i].status = "GRANTED", ![i].startedAt = now]
          /\ timer' = [timer EXCEPT ![i].pc = IF i \in live THEN "activated" ELSE "done"]
          /\ UNCHANGED <<live, used, creds, secured, known, task, events, now>>
      BY <1>3 DEF TimerActivate, Wakes
    <2>2. \A j \in Id : info'[j].sink = info[j].sink
      BY <2>1 DEF RaceInv, TypeOK, Info
    <2>3. \A j \in Id : timer'[j].pc = "notify" <=> timer[j].pc = "notify"
      BY <2>1 DEF RaceInv, TypeOK, TimerState
    <2>4. used \subseteq Id /\ (\A j : Ended(j)' <=> Ended(j))
          /\ \A j \in Id : Held(j)' <=> Held(j)
      BY <2>1, <2>3 DEF Ended, RaceInv, TypeOK, Held, Inserting, Announcing
    <2>5. Numbered' /\ UnauthenticatedIsLate'
      BY <2>1, LogStays
    <2> QED BY <2>1, <2>2, <2>4, <2>5, CredentialMove
  <1>4. CASE TimerOpenWindow(i)
    <2>1. /\ timer[i].pc = "activated" /\ Report(i, "ACTIVATED")
          /\ timer' = [timer EXCEPT ![i] = Sleep("DURATION_EXPIRED", now + info[i].duration)]
          /\ UNCHANGED <<live, info, used, secured, known, task, now>>
      BY <1>4 DEF TimerOpenWindow
    <2>2. i \in used /\ info[i].sink
      BY <2>1 DEF RaceInv, TimerInv
    <2>3. \A j \in Id : timer'[j].pc = "notify" <=> timer[j].pc = "notify"
      BY <2>1 DEF RaceInv, TypeOK, Sleep
    <2>4. used \subseteq Id /\ \A j \in Id : Held(j)' <=> Held(j)
      BY <2>1, <2>3 DEF RaceInv, TypeOK, Held, Inserting, Announcing
    <2>5. /\ creds' = creds /\ Numbered' /\ UnauthenticatedIsLate'
          /\ \A j : Ended(j)' <=> Ended(j)
      BY <2>1, <2>2, InterimLog, "ACTIVATED" \in Interim DEF Interim
    <2> QED BY <2>1, <2>4, <2>5, CredentialMove
  <1> QED BY <1>1, <1>2, <1>3, <1>4 DEF TimerStep

LEMMA CredentialBegin ==
  ASSUME RaceInv, CredentialInv, NEW c \in Client, Begin(c)
  PROVE  CredentialInv'
  <1>1. ASSUME NEW i \in Id, Delete(c, i) PROVE CredentialInv'
    <2>1. /\ task[c].pc = "idle" /\ i \in live /\ live' = live \ {i}
          /\ task' = IF info[i].sink
                     THEN [task EXCEPT ![c] = [pc |-> "notify", id |-> i]] ELSE task
          /\ UNCHANGED <<info, used, creds, secured, known, timer, events, now>>
      BY <1>1 DEF Delete, Idle
    <2>2. \A j : Inserting(j)' <=> Inserting(j)
      BY <2>1 DEF Inserting, RaceInv, TypeOK
    <2>3. \A j : j # i => (Announcing(j)' <=> Announcing(j))
      BY <2>1 DEF Announcing, RaceInv, TypeOK
    <2>4. info[i].sink => Announcing(i)'
      BY <2>1 DEF Announcing, RaceInv, TypeOK
    <2>5. \A j : info[j].sink => (Held(j)' <=> Held(j))
      BY <2>1, <2>2, <2>3, <2>4 DEF Held
    <2>6. \A j : Ended(j)' <=> Ended(j)
      BY <2>1 DEF Ended
    <2>7. Numbered' /\ UnauthenticatedIsLate'
      BY <2>1, LogStays
    <2> QED BY <2>1, <2>5, <2>6, <2>7, CredentialMove
  <1>2. ASSUME \/ \E i \in Id : SendSessionMetrics(c, i)
               \/ \E dev \in Device : RetrieveByDevice(c, dev)
        PROVE  CredentialInv'
    <2>1. UNCHANGED <<live, info, used, creds, secured, timer, events>>
      BY <1>2 DEF SendSessionMetrics, RetrieveByDevice
    <2>4. \A d \in Client : \/ task'[d] = task[d]
                            \/ task[d].pc = "idle" /\ task'[d].pc = "score"
      <3>1. CASE \E i \in Id : SendSessionMetrics(c, i)
        <4>1. PICK i \in Id : /\ task[c] = Idle
                             /\ task' = [task EXCEPT ![c] = [pc |-> "score", id |-> i]]
          BY <3>1 DEF SendSessionMetrics
        <4>2. task[c].pc = "idle"
          BY <4>1 DEF Idle
        <4> QED BY <4>1, <4>2 DEF RaceInv, TypeOK
      <3>2. CASE \E dev \in Device : RetrieveByDevice(c, dev)
        BY <3>2 DEF RetrieveByDevice
      <3> QED BY <1>2, <3>1, <3>2
    <2>2. \A j : (Held(j)' <=> Held(j)) /\ (Ended(j)' <=> Ended(j))
      BY <2>1, <2>4 DEF Held, Inserting, Announcing, Ended
    <2>3. Numbered' /\ UnauthenticatedIsLate'
      BY <2>1, LogStays
    <2> QED BY <2>1, <2>2, <2>3, CredentialMove
  <1> QED BY <1>1, <1>2, CredentialCreate DEF Begin

LEMMA CredentialInvHolds == Spec => []CredentialInv
  <1>1. Init => CredentialInv
    BY DEF Init, CredentialInv, CredentialFollowsResource, NoSilentEnd, Numbered,
           UnauthenticatedIsLate
  <1>2. RaceInv /\ CredentialInv /\ [Next]_vars => CredentialInv'
    <2> SUFFICES ASSUME RaceInv, CredentialInv, [Next]_vars PROVE CredentialInv'
      OBVIOUS
    <2>1. CASE Tick \/ UNCHANGED vars
      <3>1. UNCHANGED <<live, info, used, creds, secured, task, timer, events>>
        BY <2>1 DEF Tick, vars
      <3> QED BY <3>1 DEF CredentialInv, CredentialFollowsResource, NoSilentEnd, Numbered,
                          UnauthenticatedIsLate, Held, Inserting, Announcing, Ended
    <2> QED BY <2>1, CredentialBegin, CredentialContinue, CredentialTimer DEF Next
  <1> QED BY <1>1, <1>2, RaceInvHolds, PTL DEF Spec

\* In all three services the credential lives from before its resource is
\* visible until the end has been announced, and not longer.
THEOREM CredentialsFollow == Spec => []CredentialFollowsResource
  BY CredentialInvHolds, PTL DEF CredentialInv

\* The end is always announced with the credential; only an event that was
\* overtaken by the end goes out without.
THEOREM LateOrAuthenticated == Spec => []UnauthenticatedIsLate
  BY CredentialInvHolds, PTL DEF CredentialInv

-----------------------------------------------------------------------------
(* Booking windows *)

ExpiryDue(i, t) == t >= info[i].startedAt + info[i].duration

\* A timer that will announce an expiry is not early, and a booking is only
\* activated from its start time on.
WindowInv ==
    \A i \in Id :
        /\ info[i].startedAt <= now
        /\ timer[i].pc = "sleep" /\ timer[i].kind = "DURATION_EXPIRED"
              => ExpiryDue(i, timer[i].at)
        /\ timer[i].pc = "notify" /\ timer[i].kind = "DURATION_EXPIRED"
              => ExpiryDue(i, now)
        /\ timer[i].pc = "sleep" /\ timer[i].kind = "ACTIVATED"
              => timer[i].at = info[i].startTime
        /\ timer[i].pc = "activated" => info[i].startedAt >= info[i].startTime

\* The timer of i is the only thing that a step changes, if anything.
LEMMA WindowOthers ==
  ASSUME RaceInv, WindowInv, NEW i \in Id, now' = now,
         \A j \in Id \ {i} : timer'[j] = timer[j] /\ info'[j] = info[j],
         /\ info'[i].startedAt <= now
         /\ timer'[i].pc = "sleep" /\ timer'[i].kind = "DURATION_EXPIRED"
               => ExpiryDue(i, timer[i].at)'
         /\ timer'[i].pc = "notify" /\ timer'[i].kind = "DURATION_EXPIRED"
               => ExpiryDue(i, now)'
         /\ timer'[i].pc = "sleep" /\ timer'[i].kind = "ACTIVATED"
               => timer'[i].at = info'[i].startTime
         /\ timer'[i].pc = "activated" => info'[i].startedAt >= info'[i].startTime
  PROVE  WindowInv'
  BY DEF WindowInv, ExpiryDue

LEMMA WindowCreate ==
  ASSUME RaceInv, WindowInv, NEW c \in Client, NEW i \in Id, NEW r \in Request,
         Create(c, i, r)
  PROVE  WindowInv'
  <1>1. /\ i \notin used /\ info' = [info EXCEPT ![i] = BuildInfo(i, r)]
        /\ timer' = timer /\ now' = now
    BY DEF Create
  <1>2. timer[i].pc = "none" /\ now \in Nat
    BY <1>1 DEF RaceInv, TimerInv, TypeOK
  <1>3. BuildInfo(i, r).startedAt \in {0, now}
    BY DEF BuildInfo
  <1> QED BY <1>1, <1>2, <1>3, WindowOthers DEF RaceInv, TypeOK

LEMMA WindowSchedule ==
  ASSUME RaceInv, WindowInv, NEW c \in Client, ScheduleAndReply(c)
  PROVE  WindowInv'
  <1>1. PICK i \in Id : i = task[c].id
    BY ScheduleEffect
  <1>2. info' = info /\ now' = now
    BY ScheduleEffect
  <1>3. CASE timer' = timer
    BY <1>2, <1>3 DEF WindowInv, ExpiryDue
  <1>4. CASE timer' # timer
    <2>1. PICK k \in Scheduled(i) : timer' = [timer EXCEPT ![i] = Sleep(k, WakeAt(i, k))]
      BY <1>1, <1>4, ScheduleEffect
    <2>2. timer'[i].pc = "sleep" /\ timer'[i].kind = k /\ timer'[i].at = WakeAt(i, k)
      BY <2>1 DEF RaceInv, TypeOK, Sleep
    <2>3. /\ info[i].startTime \in Nat /\ info[i].startedAt \in Nat
          /\ info[i].duration \in Nat /\ now \in Nat /\ info[i].startedAt <= now
      BY DEF RaceInv, TypeOK, Info, WindowInv
    <2>4. k = "ACTIVATED" => WakeAt(i, k) = info[i].startTime
      BY DEF WakeAt
    <2>5. k = "DURATION_EXPIRED" => WakeAt(i, k) >= info[i].startedAt + info[i].duration
      BY <2>3 DEF WakeAt
    <2>6. \A j \in Id \ {i} : timer'[j] = timer[j]
      BY <2>1 DEF RaceInv, TypeOK
    <2> QED BY <1>2, <2>2, <2>3, <2>4, <2>5, <2>6, WindowOthers DEF ExpiryDue
  <1> QED BY <1>3, <1>4

LEMMA WindowTimer ==
  ASSUME RaceInv, WindowInv, NEW i \in Id, TimerStep(i)
  PROVE  WindowInv'
  <1>1. /\ info[i].startTime \in Nat /\ info[i].startedAt \in Nat
        /\ info[i].duration \in Nat /\ now \in Nat /\ timer[i].at \in Nat
        /\ info[i].startedAt <= now
    BY DEF RaceInv, TypeOK, Info, TimerState, WindowInv
  <1>2. now' = now /\ \A j \in Id \ {i} : timer'[j] = timer[j] /\ info'[j] = info[j]
    BY DEF TimerStep, TimerEvict, TimerNotify, TimerActivate, TimerOpenWindow,
           RaceInv, TypeOK
  <1>3. CASE TimerEvict(i)
    <2>1. /\ timer[i].pc = "sleep" /\ now >= timer[i].at /\ info' = info
          /\ timer'[i].pc \in {"notify", "done"} /\ timer'[i].kind = timer[i].kind
      BY <1>3 DEF TimerEvict, Wakes, RaceInv, TypeOK, TimerState
    <2> QED BY <1>1, <1>2, <2>1, WindowOthers DEF WindowInv, ExpiryDue
  <1>4. CASE TimerNotify(i)
    <2>1. timer'[i].pc = "done" /\ info' = info
      BY <1>4 DEF TimerNotify, RaceInv, TypeOK, TimerState
    <2> QED BY <1>1, <1>2, <2>1, WindowOthers
  <1>5. CASE TimerActivate(i)
    <2>1. /\ timer[i].pc = "sleep" /\ timer[i].kind = "ACTIVATED" /\ now >= timer[i].at
          /\ i \in live => timer'[i].pc = "activated"
          /\ i \notin live => timer'[i].pc = "done"
          /\ timer'[i].kind = timer[i].kind
          /\ info' = IF i \notin live THEN info
                     ELSE [info EXCEPT ![i].status = "GRANTED", ![i].startedAt = now]
      BY <1>5 DEF TimerActivate, Wakes, RaceInv, TypeOK, TimerState
    <2>2. i \in live => info'[i].startedAt = now /\ info'[i].startTime = info[i].startTime
      BY <2>1 DEF RaceInv, TypeOK, Info
    <2>3. timer[i].at = info[i].startTime
      BY <2>1 DEF WindowInv
    <2>4. CASE i \in live
      <3>1. timer'[i].pc = "activated"
        BY <2>1, <2>4
      <3>2. info'[i].startedAt = now /\ info'[i].startTime = timer[i].at
            /\ now >= timer[i].at
        BY <2>1, <2>2, <2>3, <2>4
      <3>3. info'[i].startedAt <= now /\ info'[i].startedAt >= info'[i].startTime
        BY <1>1, <3>2
      <3> QED BY <1>2, <3>1, <3>3, WindowOthers
    <2>5. CASE i \notin live
      BY <1>1, <1>2, <2>1, <2>5, WindowOthers
    <2> QED BY <2>4, <2>5
  <1>6. CASE TimerOpenWindow(i)
    <2>1. /\ timer'[i] = Sleep("DURATION_EXPIRED", now + info[i].duration)
          /\ info' = info
      BY <1>6 DEF TimerOpenWindow, RaceInv, TypeOK
    <2> QED BY <1>1, <1>2, <2>1, WindowOthers DEF Sleep, ExpiryDue
  <1> QED BY <1>3, <1>4, <1>5, <1>6 DEF TimerStep

LEMMA WindowInvHolds == Spec => []WindowInv
  <1>1. Init => WindowInv
    BY DEF Init, WindowInv, Blank, NoTimer
  <1>2. RaceInv /\ WindowInv /\ [Next]_vars => WindowInv'
    <2> SUFFICES ASSUME RaceInv, WindowInv, [Next]_vars PROVE WindowInv'
      OBVIOUS
    <2>1. ASSUME UNCHANGED <<info, timer, now>> PROVE WindowInv'
      BY <2>1 DEF WindowInv, ExpiryDue
    <2>2. ASSUME NEW c \in Client, Begin(c) PROVE WindowInv'
      BY <2>1, <2>2, WindowCreate DEF Begin, RetrieveByDevice, Delete, SendSessionMetrics
    <2>3. ASSUME NEW c \in Client, Continue(c) PROVE WindowInv'
      BY <2>1, <2>3, WindowSchedule DEF Continue, Insert, DeleteNotify, DeliverQualityScore
    <2>4. CASE Tick
      <3>1. now \in Nat /\ now' = now + 1 /\ UNCHANGED <<info, timer>>
            /\ \A j \in Id : info[j].startedAt \in Nat /\ info[j].duration \in Nat
        BY <2>4 DEF Tick, RaceInv, TypeOK, Info
      <3> QED BY <3>1 DEF WindowInv, ExpiryDue
    <2>5. CASE UNCHANGED vars
      BY <2>1, <2>5 DEF vars
    <2> QED BY <2>2, <2>3, <2>4, <2>5, WindowTimer DEF Next
  <1> QED BY <1>1, <1>2, RaceInvHolds, PTL DEF Spec

\* Only a timer whose moment has come announces an expiry or an activation.
LEMMA WindowStep == RaceInv /\ WindowInv /\ [Next]_vars =>
  \A e \in events' \ events :
      /\ e.kind = "DURATION_EXPIRED"
            => now >= info[e.id].startedAt + info[e.id].duration
      /\ e.kind = "ACTIVATED" => info[e.id].startedAt >= info[e.id].startTime
  <1> SUFFICES ASSUME RaceInv, WindowInv, [Next]_vars, NEW e \in events' \ events
               PROVE  /\ e.kind = "DURATION_EXPIRED"
                            => now >= info[e.id].startedAt + info[e.id].duration
                      /\ e.kind = "ACTIVATED"
                            => info[e.id].startedAt >= info[e.id].startTime
    OBVIOUS
  <1>1. ASSUME NEW c \in Client, Continue(c)
        PROVE  e.kind \notin {"DURATION_EXPIRED", "ACTIVATED"}
    <2>1. CASE Insert(c)
      BY <2>1 DEF Insert
    <2>2. CASE ScheduleAndReply(c) \/ DeleteNotify(c) \/ DeliverQualityScore(c)
      BY <2>2 DEF ScheduleAndReply, DeleteNotify, DeliverQualityScore,
                  Announce, Report, Record
    <2> QED BY <1>1, <2>1, <2>2 DEF Continue
  <1>2. ASSUME NEW i \in Id, TimerStep(i), e.kind = "DURATION_EXPIRED"
        PROVE  now >= info[e.id].startedAt + info[e.id].duration
    <2>1. TimerNotify(i) /\ e.id = i /\ e.kind = timer[i].kind
      BY <1>2 DEF TimerStep, TimerEvict, TimerNotify, TimerActivate, TimerOpenWindow,
                  Announce, Report, Record
    <2> QED BY <1>2, <2>1 DEF TimerNotify, WindowInv, ExpiryDue
  <1>3. ASSUME NEW i \in Id, TimerStep(i), e.kind = "ACTIVATED"
        PROVE  info[e.id].startedAt >= info[e.id].startTime
    <2>1. ~TimerNotify(i)
      BY <1>3 DEF TimerNotify, Announce, Record, RaceInv, TimerInv, Terminal
    <2>2. timer[i].pc = "activated" /\ e.id = i
      BY <1>3, <2>1 DEF TimerStep, TimerEvict, TimerActivate, TimerOpenWindow,
                        Report, Record
    <2> QED BY <2>2 DEF WindowInv
  <1>4. \/ \E c \in Client : Continue(c)
        \/ \E i \in Id : TimerStep(i)
    BY DEF Next, Begin, Create, RetrieveByDevice, Delete, SendSessionMetrics, Tick, vars
  <1> QED BY <1>1, <1>2, <1>3, <1>4

\* No window is closed before it was paid out, and none opened too soon,
\* whatever the clock, the creates and the deletes do.
THEOREM WindowsHonoured == Spec => WindowHonoured
  BY WindowStep, RaceInvHolds, WindowInvHolds, PTL DEF Spec, WindowHonoured

-----------------------------------------------------------------------------
(* Refinement of SessionLifecycle *)

Ends(E) == {<<e.no, e.id>> : e \in {f \in E : f.kind \in Terminal}}

\* The abstract state only depends on the phases and the terminal events.
LEMMA AbstractStutter ==
  ASSUME \A j \in Id : Phase(j)' = Phase(j),
         Ends(events)' = Ends(events)
  PROVE  UNCHANGED Lifecycle!vars
  BY DEF Lifecycle!vars, Ends

\* A step that neither opens, removes nor announces anything.
LEMMA SamePhase ==
  ASSUME UNCHANGED <<live, used, events>>,
         \A j \in Id : info'[j].sink = info[j].sink,
         \A j \in Id : Inserting(j)' <=> Inserting(j)
  PROVE  UNCHANGED Lifecycle!vars
  <1>1. \A j \in Id : Phase(j)' = Phase(j)
    BY DEF Phase, Ended
  <1> QED BY <1>1, AbstractStutter DEF Ends

\* An interim event is invisible to the abstract specification.
LEMMA ReportIsInvisible ==
  ASSUME RaceInv, NEW i \in Id, NEW k \in Interim, Report(i, k),
         UNCHANGED <<live, used, info>>,
         \A j \in Id : Inserting(j)' <=> Inserting(j)
  PROVE  UNCHANGED Lifecycle!vars
  <1>1. PICK e \in Event : e.kind = k /\ events' = events \cup {e}
    BY ReportStep DEF RaceInv
  <1>2. e.kind \notin Terminal
    BY <1>1 DEF Interim, Terminal
  <1>3. Ends(events)' = Ends(events)
    BY <1>1, <1>2 DEF Ends
  <1>4. \A j \in Id : Phase(j)' = Phase(j)
    BY <1>1, <1>2 DEF Phase, Ended
  <1> QED BY <1>3, <1>4, AbstractStutter

LEMMA AbstractBegin ==
  ASSUME RaceInv, NEW c \in Client, Insert(c)
  PROVE  \E i \in Id : Lifecycle!Begin(i)
  <1>1. PICK i \in Id : i = task[c].id
    BY DEF Insert, RaceInv, CreatorInv, TypeOK
  <1>2. /\ task[c].pc = "insert" /\ live' = live \cup {i}
        /\ task' = [task EXCEPT ![c].pc = "schedule"]
        /\ UNCHANGED <<info, used, creds, secured, known, timer, events, now>>
    BY <1>1 DEF Insert
  <1>3. Inserting(i) /\ i \in used
    BY <1>1, <1>2 DEF Inserting, RaceInv, CreatorInv
  <1>4. \A d \in Client : /\ d # c => task'[d] = task[d]
                          /\ d # c /\ task[d].pc = "insert" => task[d].id # i
                          /\ task'[c].pc = "schedule"
    BY <1>1, <1>2 DEF RaceInv, CreatorInv, TypeOK, Task
  <1>5. ~Inserting(i)' /\ \A j : j # i => (Inserting(j)' <=> Inserting(j))
    BY <1>1, <1>2, <1>4 DEF Inserting
  <1>6. Phase(i) = "absent" /\ Phase(i)' = "live"
    BY <1>2, <1>3, <1>5 DEF Phase
  <1>7. \A j \in Id \ {i} : Phase(j)' = Phase(j)
    BY <1>2, <1>5 DEF Phase, Ended
  <1>8. Ends(events)' = Ends(events)
    BY <1>2 DEF Ends
  <1> QED BY <1>6, <1>7, <1>8 DEF Lifecycle!Begin, Ends

LEMMA AbstractEnd ==
  ASSUME RaceInv, NEW i \in live, live' = live \ {i}, UNCHANGED <<info, used, events>>,
         \A j \in Id : Inserting(j)' <=> Inserting(j)
  PROVE  i \in Id /\ Lifecycle!End(i)
  <1>1. i \in used /\ i \in Id
    BY DEF RaceInv, TypeOK
  <1>2. ~Ended(i) /\ ~Inserting(i)
    BY <1>1 DEF RaceInv, NoticeInv, CreatorInv, Inserting
  <1>3. Phase(i) = "live" /\ Phase(i)' \in {"ending", "silent"}
    BY <1>1, <1>2 DEF Phase, Ended
  <1>4. \A j \in Id \ {i} : Phase(j)' = Phase(j)
    BY DEF Phase, Ended
  <1>5. [j \in Id |-> Phase(j)]' = [[j \in Id |-> Phase(j)] EXCEPT ![i] = Phase(i)']
    BY <1>1, <1>4
  <1>6. Ends(events)' = Ends(events)
    BY DEF Ends
  <1> QED BY <1>1, <1>3, <1>5, <1>6 DEF Lifecycle!End, Ends

LEMMA AbstractAnnounce ==
  ASSUME RaceInv, NEW i \in Id, Owed(i), NEW k \in Terminal, Announce(i, k),
         UNCHANGED <<live, info, used>>,
         \A j \in Id : Inserting(j)' <=> Inserting(j)
  PROVE  Lifecycle!Announce(i)
  <1>1. PICK e \in Event : /\ e.id = i /\ e.kind = k
                          /\ events' = events \cup {e}
    BY AnnounceStep DEF RaceInv
  <1> DEFINE n == <<e.no, i>>
  <1>2. Phase(i) = "ending" /\ Phase(i)' = "announced"
    BY <1>1 DEF Owed, Phase, Ended
  <1>3. \A j \in Id \ {i} : Phase(j)' = Phase(j)
    BY <1>1 DEF Phase, Ended
  <1>4. Ends(events)' = Ends(events) \cup {n}
    BY <1>1 DEF Ends
  <1>5. n \notin Ends(events)
    BY DEF Ends, Owed, Ended
  <1>6. n[2] = i
    OBVIOUS
  <1>7. \E m \in Ends(events)' \ Ends(events) :
           m[2] = i /\ Ends(events)' = Ends(events) \cup {m}
    BY <1>4, <1>5, <1>6
  <1> QED BY <1>2, <1>3, <1>7 DEF Lifecycle!Announce, Ends

LEMMA AbstractStep == RaceInv /\ [Next]_vars => [Lifecycle!Next]_Lifecycle!vars
  <1> SUFFICES ASSUME RaceInv, [Next]_vars PROVE [Lifecycle!Next]_Lifecycle!vars
    OBVIOUS
  <1>1. ASSUME NEW c \in Client, Begin(c) PROVE [Lifecycle!Next]_Lifecycle!vars
    <2>1. ASSUME NEW i \in Id, NEW r \in Request, Create(c, i, r)
          PROVE  UNCHANGED Lifecycle!vars
      <3>1. /\ i \notin used /\ used' = used \cup {i} /\ task[c] = Idle
            /\ info' = [info EXCEPT ![i] = BuildInfo(i, r)]
            /\ task' = [task EXCEPT ![c] = [pc |-> "insert", id |-> i]]
            /\ UNCHANGED <<live, events>>
        BY <2>1 DEF Create
      <3>2. Inserting(i)' /\ \A j : j # i => (Inserting(j)' <=> Inserting(j))
        BY <3>1 DEF Inserting, RaceInv, TypeOK, Idle
      <3>3. \A j \in Id \ {i} : info'[j] = info[j]
        BY <3>1 DEF RaceInv, TypeOK
      <3>4. \A j \in Id : Phase(j)' = Phase(j)
        BY <3>1, <3>2, <3>3 DEF Phase, Ended
      <3> QED BY <3>1, <3>4, AbstractStutter DEF Ends
    <2>2. ASSUME NEW i \in Id, Delete(c, i) PROVE i \in Id /\ Lifecycle!End(i)
      <3>1. i \in live /\ live' = live \ {i} /\ UNCHANGED <<info, used, events>>
        BY <2>2 DEF Delete
      <3>2. \A j \in Id : Inserting(j)' <=> Inserting(j)
        BY <2>2 DEF Delete, Inserting, Idle, RaceInv, TypeOK
      <3> QED BY <3>1, <3>2, AbstractEnd
    <2>3. ASSUME NEW i \in Id, SendSessionMetrics(c, i) PROVE UNCHANGED Lifecycle!vars
      <3>1. \A j \in Id : Inserting(j)' <=> Inserting(j)
        BY <2>3 DEF SendSessionMetrics, Inserting, Idle, RaceInv, TypeOK
      <3> QED BY <2>3, <3>1, SamePhase DEF SendSessionMetrics
    <2>4. ASSUME NEW dev \in Device, RetrieveByDevice(c, dev)
          PROVE  UNCHANGED Lifecycle!vars
      BY <2>4, SamePhase DEF RetrieveByDevice, Inserting
    <2> QED BY <1>1, <2>1, <2>2, <2>3, <2>4 DEF Begin, Lifecycle!Next
  <1>2. ASSUME NEW c \in Client, Continue(c) PROVE [Lifecycle!Next]_Lifecycle!vars
    <2>1. CASE Insert(c)
      BY <2>1, AbstractBegin DEF Lifecycle!Next
    <2>2. CASE ~Insert(c)
      <3>1. /\ task[c].pc \in {"schedule", "notify", "score"}
            /\ task' = [task EXCEPT ![c] = Idle]
            /\ UNCHANGED <<live, info, used>>
        BY <1>2, <2>2 DEF Continue, ScheduleAndReply, DeleteNotify, DeliverQualityScore
      <3>2. \A j \in Id : Inserting(j)' <=> Inserting(j)
        BY <3>1 DEF Inserting, Idle, RaceInv, TypeOK
      <3>3. PICK i \in Id : i = task[c].id
        BY <3>1 DEF RaceInv, CreatorInv, DeleterInv, Owed, ReporterInv, TypeOK
      <3>4. CASE events' = events
        BY <3>1, <3>2, <3>4, SamePhase
      <3>5. CASE Report(i, "AVAILABLE") \/ Report(i, "QUALITY_SCORE")
        BY <3>1, <3>2, <3>5, ReportIsInvisible,
           "AVAILABLE" \in Interim, "QUALITY_SCORE" \in Interim DEF Interim
      <3>6. CASE DeleteNotify(c)
        <4>1. Owed(i) /\ Announce(i, "DELETE_REQUESTED")
          BY <3>3, <3>6 DEF DeleteNotify, RaceInv, DeleterInv
        <4>2. "DELETE_REQUESTED" \in Terminal
          BY DEF Terminal
        <4>3. Lifecycle!Announce(i)
          BY <3>1, <3>2, <4>1, <4>2, AbstractAnnounce
        <4> QED BY <4>3 DEF Lifecycle!Next
      <3> QED BY <1>2, <2>2, <3>3, <3>4, <3>5, <3>6
              DEF Continue, ScheduleAndReply, DeliverQualityScore
    <2> QED BY <2>1, <2>2
  <1>3. ASSUME NEW i \in Id, TimerStep(i) PROVE [Lifecycle!Next]_Lifecycle!vars
    <2>1. used' = used /\ \A j \in Id : Inserting(j)' <=> Inserting(j)
      BY <1>3 DEF TimerStep, TimerEvict, TimerNotify, TimerActivate, TimerOpenWindow, Inserting
    <2>2. CASE TimerEvict(i) /\ i \in live
      BY <2>1, <2>2, AbstractEnd DEF TimerEvict, Lifecycle!Next
    <2>3. CASE TimerEvict(i) /\ i \notin live
      BY <2>1, <2>3, SamePhase, live \ {i} = live DEF TimerEvict
    <2>4. CASE TimerNotify(i)
      <3>1. Owed(i) /\ timer[i].kind \in Terminal
        BY <2>4 DEF TimerNotify, RaceInv, TimerInv
      <3>2. Lifecycle!Announce(i)
        BY <2>1, <2>4, <3>1, AbstractAnnounce DEF TimerNotify
      <3> QED BY <3>2 DEF Lifecycle!Next
    <2>5. CASE TimerActivate(i)
      <3>1. \A j \in Id : info'[j].sink = info[j].sink
        BY <2>5 DEF TimerActivate, RaceInv, TypeOK, Info
      <3> QED BY <2>1, <2>5, <3>1, SamePhase DEF TimerActivate
    <2>6. CASE TimerOpenWindow(i)
      BY <2>1, <2>6, ReportIsInvisible, "ACTIVATED" \in Interim DEF TimerOpenWindow, Interim
    <2> QED BY <1>3, <2>2, <2>3, <2>4, <2>5, <2>6 DEF TimerStep
  <1>4. CASE Tick \/ UNCHANGED vars
    BY <1>4, SamePhase DEF Tick, vars, Inserting
  <1> QED BY <1>1, <1>2, <1>3, <1>4 DEF Next

\* All three services implement the lifecycle QualityOnDemand implements.
THEOREM LifecycleImplemented == Spec => ImplementsLifecycle
  <1>1. Init => Lifecycle!Init
    <2> SUFFICES ASSUME Init PROVE Lifecycle!Init
      OBVIOUS
    <2>1. \A i \in Id : Phase(i) = "absent"
      BY DEF Init, Phase
    <2> QED BY <2>1 DEF Init, Lifecycle!Init
  <1> QED BY <1>1, AbstractStep, RaceInvHolds, PTL DEF Spec, ImplementsLifecycle, Lifecycle!Spec

-----------------------------------------------------------------------------
(* The end of a timed resource stays in sight *)

\* Somebody is about to end resource i: the create that will spawn its timer,
\* the timer that is opening its window, or the timer asleep, for the event that
\* is due and no longer than a timer spawned at this moment would sleep.
InSight(i) ==
    \/ \E c \in Client : task[c].pc = "schedule" /\ task[c].id = i
    \/ timer[i].pc = "activated"
    \/ /\ timer[i].pc = "sleep" /\ timer[i].kind \in Scheduled(i)
       /\ timer[i].at <= WakeAt(i, timer[i].kind)

\* The safety core of TimedResourcesEnd, with no fairness: no live resource that
\* was promised an end is ever left without a task that will end it, and none
\* that has a sink is gone without its end being announced or about to be.
EndInSight ==
    /\ \A i \in live : Scheduled(i) # {} => InSight(i)
    /\ \A i \in used \ live :
          info[i].sink /\ ~Inserting(i) => Announcing(i) \/ Ended(i)

SightInv ==
    /\ \A i \in used : info[i].status = "SCHEDULED" => Tail3(i) % 2 = 1
    /\ \A i \in Id : timer[i].pc = "activated"
                        => i \in Booking /\ Scheduled(i) = {"DURATION_EXPIRED"}
    /\ \A i \in Id : timer[i].pc = "sleep"
                        => /\ timer[i].kind \in Scheduled(i)
                           /\ timer[i].at <= WakeAt(i, timer[i].kind)
    /\ \A i \in live : Scheduled(i) # {} => InSight(i)

\* While a resource's value stays, what its timer is for stays, and the moment
\* a timer spawned now would wake at only moves on.
LEMMA SightFrame ==
  ASSUME TypeOK, now' \in Nat, now' >= now, NEW i \in Id, info'[i] = info[i]
  PROVE  /\ Scheduled(i)' = Scheduled(i) /\ Tail3(i)' = Tail3(i)
         /\ \A k, t : t \in Nat /\ t <= WakeAt(i, k) => t <= WakeAt(i, k)'
  <1>1. Scheduled(i)' = Scheduled(i) /\ Tail3(i)' = Tail3(i)
    BY DEF Scheduled, Tail3
  <1>2. /\ info[i].startTime \in Nat /\ info[i].startedAt \in Nat /\ info[i].duration \in Nat
        /\ now \in Nat /\ Grace \in Nat
    BY ConstantsAssumption DEF TypeOK, Info
  <1>3. ASSUME NEW k, NEW t \in Nat, t <= WakeAt(i, k) PROVE t <= WakeAt(i, k)'
    BY <1>2, <1>3 DEF WakeAt
  <1> QED BY <1>1, <1>3

\* A step that leaves every value and the clock alone, and no timer but that of
\* i and no live resource but i without the task that was to end it.
LEMMA SightOthers ==
  ASSUME RaceInv, SightInv, NEW i \in Id, now' \in Nat, now' >= now, used' = used,
         live' \subseteq live \cup {i},
         \A j \in Id \ {i} : timer'[j] = timer[j] /\ info'[j] = info[j],
         \A c \in Client : /\ task[c].pc = "schedule" /\ task[c].id # i
                           => task'[c] = task[c],
         (info[i].status = "SCHEDULED" => Tail3(i) % 2 = 1)',
         timer'[i].pc = "activated"
            => i \in Booking /\ (Scheduled(i) = {"DURATION_EXPIRED"})',
         (timer[i].pc = "sleep" => /\ timer[i].kind \in Scheduled(i)
                                   /\ timer[i].at <= WakeAt(i, timer[i].kind))',
         (i \in live /\ Scheduled(i) # {} => InSight(i))'
  PROVE  SightInv'
  <1>1. /\ TypeOK /\ live \subseteq Id /\ used \subseteq Id
        /\ \A j \in Id : timer[j].at \in Nat
    BY DEF RaceInv, TypeOK, TimerState
  <1>2. ASSUME NEW j \in Id \ {i}
        PROVE  /\ j \in used' => (info[j].status = "SCHEDULED" => Tail3(j) % 2 = 1)'
               /\ (timer[j].pc = "activated"
                     => j \in Booking /\ Scheduled(j) = {"DURATION_EXPIRED"})'
               /\ (timer[j].pc = "sleep" => /\ timer[j].kind \in Scheduled(j)
                                            /\ timer[j].at <= WakeAt(j, timer[j].kind))'
               /\ (j \in live /\ Scheduled(j) # {} => InSight(j))'
    <2>1. timer'[j] = timer[j] /\ info'[j] = info[j]
      OBVIOUS
    <2>2. /\ Scheduled(j)' = Scheduled(j) /\ Tail3(j)' = Tail3(j)
          /\ \A k, t : t \in Nat /\ t <= WakeAt(j, k) => t <= WakeAt(j, k)'
      BY <1>1, <2>1, SightFrame
    <2>3. j \in used' => (info[j].status = "SCHEDULED" => Tail3(j) % 2 = 1)'
      BY <2>1, <2>2 DEF SightInv
    <2>4. timer'[j].pc = "activated" => j \in Booking /\ Scheduled(j)' = {"DURATION_EXPIRED"}
      BY <2>1, <2>2 DEF SightInv
    <2>5. (timer[j].pc = "sleep" => /\ timer[j].kind \in Scheduled(j)
                                    /\ timer[j].at <= WakeAt(j, timer[j].kind))'
      <3> SUFFICES ASSUME timer'[j].pc = "sleep"
                   PROVE  (/\ timer[j].kind \in Scheduled(j)
                           /\ timer[j].at <= WakeAt(j, timer[j].kind))'
        OBVIOUS
      <3>1. PICK k : k = timer[j].kind
        OBVIOUS
      <3>2. k \in Scheduled(j) /\ timer[j].at <= WakeAt(j, k)
        BY <2>1, <3>1 DEF SightInv
      <3>3. timer[j].at <= WakeAt(j, k)'
        BY <1>1, <2>2, <3>2
      <3>4. timer'[j].kind = k /\ timer'[j].at = timer[j].at
        BY <2>1, <3>1
      <3> QED BY <2>2, <3>2, <3>3, <3>4 DEF WakeAt
    <2>6. j \in live' /\ Scheduled(j)' # {} => InSight(j)'
      <3>1. j \in live' /\ Scheduled(j)' # {} => InSight(j)
        BY <2>2 DEF SightInv
      <3>2. InSight(j) => \/ \E c \in Client : task'[c].pc = "schedule" /\ task'[c].id = j
                          \/ timer'[j].pc = "activated"
                          \/ timer'[j].pc = "sleep"
        BY <2>1 DEF InSight
      <3> QED BY <2>5, <3>1, <3>2 DEF InSight
    <2> QED BY <2>3, <2>4, <2>5, <2>6
  <1> QED BY <1>1, <1>2 DEF SightInv

LEMMA SightCreate ==
  ASSUME RaceInv, SightInv, NEW c \in Client, NEW i \in Id, NEW r \in Request,
         Create(c, i, r)
  PROVE  SightInv'
  <1>1. /\ task[c] = Idle /\ i \notin used /\ used' = used \cup {i}
        /\ info' = [info EXCEPT ![i] = BuildInfo(i, r)]
        /\ task' = [task EXCEPT ![c] = [pc |-> "insert", id |-> i]]
        /\ UNCHANGED <<live, timer, now>>
    BY DEF Create
  <1>2. /\ live \subseteq used /\ used \subseteq Id /\ now \in Nat
        /\ timer[i].pc = "none"
        /\ \A j \in Id : timer[j].at \in Nat
    BY <1>1 DEF RaceInv, TypeOK, TimerInv, TimerState
  <1>3. info'[i] = BuildInfo(i, r) /\ \A j \in Id \ {i} : info'[j] = info[j]
    BY <1>1 DEF RaceInv, TypeOK
  <1>4. (info[i].status = "SCHEDULED" => Tail3(i) % 2 = 1)'
    <2>1. info'[i].status = StatusOf(i, r.device) /\ info'[i].device = r.device
      BY <1>3 DEF BuildInfo
    <2>2. StatusOf(i, r.device) = "SCHEDULED" => TrailingThreeDigits(r.device) % 2 = 1
      BY DEF StatusOf
    <2> QED BY <2>1, <2>2 DEF Tail3
  <1>5. \A j \in Id \ {i} : /\ Scheduled(j)' = Scheduled(j) /\ Tail3(j)' = Tail3(j)
    BY <1>3 DEF Scheduled, Tail3
  <1>6. \A j \in Id : timer[j].pc # "none" => j # i
    BY <1>2
  <1>7. \A j \in Id \ {i} : \A k : WakeAt(j, k)' = WakeAt(j, k)
    BY <1>1, <1>3 DEF WakeAt
  <1>8. \A d \in Client : task[d].pc = "schedule" => task'[d] = task[d]
    BY <1>1 DEF Idle, RaceInv, TypeOK
  <1>9. \A j \in used' : (info[j].status = "SCHEDULED" => Tail3(j) % 2 = 1)'
    BY <1>1, <1>2, <1>3, <1>4, <1>5 DEF SightInv
  <1>10. \A j \in Id : (timer[j].pc = "activated"
                          => j \in Booking /\ Scheduled(j) = {"DURATION_EXPIRED"})'
    BY <1>1, <1>2, <1>5 DEF SightInv
  <1>11. ASSUME NEW j \in Id, timer'[j].pc = "sleep"
         PROVE  (timer[j].kind \in Scheduled(j) /\ timer[j].at <= WakeAt(j, timer[j].kind))'
    <2>1. timer[j].pc = "sleep" /\ j # i /\ timer'[j] = timer[j]
      BY <1>1, <1>2, <1>11
    <2>2. timer[j].kind \in Scheduled(j) /\ timer[j].at <= WakeAt(j, timer[j].kind)
      BY <2>1 DEF SightInv
    <2> QED BY <1>1, <1>3, <1>5, <2>1, <2>2 DEF WakeAt
  <1>12. ASSUME NEW j \in live', Scheduled(j)' # {} PROVE InSight(j)'
    <2>1. j \in live /\ j \in Id /\ j # i /\ timer'[j] = timer[j]
      BY <1>1, <1>2
    <2>2. InSight(j)
      BY <1>5, <1>12, <2>1 DEF SightInv
    <2> QED BY <1>8, <1>11, <2>1, <2>2 DEF InSight
  <1> QED BY <1>9, <1>10, <1>11, <1>12 DEF SightInv

LEMMA SightSchedule ==
  ASSUME RaceInv, SightInv, NEW c \in Client, ScheduleAndReply(c)
  PROVE  SightInv'
  <1>1. PICK i \in Id : i = task[c].id
    BY ScheduleEffect
  <1>2. /\ timer[i].pc = "none" /\ i \in used
        /\ task' = [task EXCEPT ![c] = Idle]
        /\ UNCHANGED <<live, info, used, now>> /\ now \in Nat
    BY <1>1, ScheduleEffect DEF RaceInv, TypeOK
  <1>3. /\ Scheduled(i)' = Scheduled(i) /\ \A k : WakeAt(i, k)' = WakeAt(i, k)
        /\ (info[i].status = "SCHEDULED" => Tail3(i) % 2 = 1)'
    BY <1>2 DEF Scheduled, WakeAt, SightInv, Tail3
  <1>4. \A d \in Client : task[d].pc = "schedule" /\ task[d].id # i => task'[d] = task[d]
    BY <1>1, <1>2 DEF RaceInv, TypeOK
  <1>5. CASE Scheduled(i) = {}
    <2>1. timer' = timer
      BY <1>1, <1>5 DEF ScheduleAndReply
    <2> QED BY <1>2, <1>3, <1>4, <1>5, <2>1, SightOthers
  <1>6. CASE Scheduled(i) # {}
    <2>1. PICK k \in Scheduled(i) : timer' = [timer EXCEPT ![i] = Sleep(k, WakeAt(i, k))]
      BY <1>1, <1>6 DEF ScheduleAndReply
    <2>2. /\ timer'[i].pc = "sleep" /\ timer'[i].kind = k /\ timer'[i].at = WakeAt(i, k)
          /\ \A j \in Id \ {i} : timer'[j] = timer[j]
      BY <2>1 DEF RaceInv, TypeOK, Sleep
    <2>3. WakeAt(i, k) \in Nat
      BY ScheduledTimer DEF RaceInv
    <2>4. (timer[i].kind \in Scheduled(i) /\ timer[i].at <= WakeAt(i, timer[i].kind))'
      BY <1>2, <1>3, <2>2, <2>3 DEF WakeAt
    <2>5. InSight(i)'
      BY <2>2, <2>4 DEF InSight
    <2> QED BY <1>2, <1>3, <1>4, <2>2, <2>4, <2>5, SightOthers
  <1> QED BY <1>5, <1>6

LEMMA SightTimer ==
  ASSUME RaceInv, SightInv, NEW i \in Id, TimerStep(i)
  PROVE  SightInv'
  <1>1. /\ now' = now /\ now \in Nat /\ UNCHANGED <<used, task>>
        /\ live' \subseteq live
        /\ \A j \in Id \ {i} : timer'[j] = timer[j] /\ info'[j] = info[j]
        /\ timer'[i] \in TimerState
    BY RaceInvStep DEF TimerStep, TimerEvict, TimerNotify, TimerActivate, TimerOpenWindow,
           RaceInv, TypeOK, Next
  <1>2. timer[i].pc # "none" => i \in used
    BY DEF RaceInv, TimerInv
  <1>3. CASE TimerEvict(i) \/ TimerNotify(i)
    <2>1. /\ timer'[i].pc \in {"notify", "done"} /\ i \notin live' /\ info' = info
          /\ timer[i].pc # "none"
      BY <1>3 DEF TimerEvict, Wakes, TimerNotify, RaceInv, TypeOK, TimerState, TimerInv, Owed
    <2>2. (info[i].status = "SCHEDULED" => Tail3(i) % 2 = 1)'
      BY <1>2, <2>1 DEF SightInv, Tail3
    <2> QED BY <1>1, <2>1, <2>2, SightOthers
  <1>4. CASE TimerActivate(i)
    <2>1. /\ timer[i].pc = "sleep" /\ timer[i].kind = "ACTIVATED"
          /\ i \in live => timer'[i].pc = "activated"
          /\ i \notin live => timer'[i].pc = "done" /\ info' = info
          /\ i \in live => /\ info'[i].device = info[i].device
                            /\ info'[i].status = "GRANTED" /\ info'[i].sink = info[i].sink
          /\ live' = live
      BY <1>4 DEF TimerActivate, Wakes, RaceInv, TypeOK, TimerState, Info
    <2>2. /\ i \in Booking /\ info[i].sink /\ info[i].status = "SCHEDULED"
          /\ Tail3(i) % 2 = 1 /\ i \notin Assignment
      <3>1. "ACTIVATED" \in Scheduled(i) /\ i \in used
        BY <1>2, <2>1 DEF SightInv
      <3>2. i \in Booking /\ info[i].sink /\ info[i].status = "SCHEDULED" /\ i \notin Assignment
        BY <3>1, ConstantsAssumption DEF Scheduled
      <3> QED BY <3>1, <3>2 DEF SightInv
    <2>3. CASE i \in live
      <3>1. Tail3(i)' = Tail3(i) /\ Tail3(i) # 2
        BY <2>1, <2>2, <2>3 DEF Tail3
      <3>2. Scheduled(i)' = {"DURATION_EXPIRED"}
        BY <2>1, <2>2, <2>3, <3>1 DEF Scheduled
      <3>3. InSight(i)'
        BY <2>1, <2>3 DEF InSight
      <3> QED BY <1>1, <2>1, <2>2, <2>3, <3>2, <3>3, SightOthers
    <2>4. CASE i \notin live
      <3>1. (info[i].status = "SCHEDULED" => Tail3(i) % 2 = 1)'
        BY <2>1, <2>2, <2>4 DEF Tail3
      <3> QED BY <1>1, <2>1, <2>4, <3>1, SightOthers
    <2> QED BY <2>3, <2>4
  <1>5. CASE TimerOpenWindow(i)
    <2>1. /\ timer[i].pc = "activated" /\ info' = info /\ live' = live
          /\ timer'[i] = Sleep("DURATION_EXPIRED", now + info[i].duration)
      BY <1>5 DEF TimerOpenWindow, RaceInv, TypeOK
    <2>2. /\ i \in Booking /\ Scheduled(i)' = {"DURATION_EXPIRED"}
          /\ (info[i].status = "SCHEDULED" => Tail3(i) % 2 = 1)'
      BY <1>2, <2>1 DEF SightInv, Scheduled, Tail3
    <2>3. (timer[i].kind \in Scheduled(i) /\ timer[i].at <= WakeAt(i, timer[i].kind))'
      <3>1. now + info[i].duration \in Nat
        BY DEF RaceInv, TypeOK, Info
      <3> QED BY <1>1, <2>1, <2>2, <3>1 DEF Sleep, WakeAt
    <2>4. timer'[i].pc = "sleep"
      BY <2>1 DEF Sleep
    <2>5. InSight(i)'
      BY <2>3, <2>4 DEF InSight
    <2> QED BY <1>1, <2>1, <2>2, <2>3, <2>4, <2>5, SightOthers
  <1> QED BY <1>3, <1>4, <1>5 DEF TimerStep

\* A step that moves no timer and no value, but perhaps the clock.
LEMMA SightQuiet ==
  ASSUME RaceInv, SightInv, UNCHANGED <<info, used, timer>>, now' \in Nat, now' >= now,
         \A c \in Client : task[c].pc = "schedule" => task'[c] = task[c],
         \A i \in live' \ live : \E c \in Client : task'[c].pc = "schedule" /\ task'[c].id = i,
         live' \subseteq Id
  PROVE  SightInv'
  <1>1. TypeOK /\ used \subseteq Id /\ \A i \in Id : timer[i].at \in Nat
    BY DEF RaceInv, TypeOK, TimerState
  <1>2. \A i \in Id : /\ Scheduled(i)' = Scheduled(i) /\ Tail3(i)' = Tail3(i)
                      /\ \A k, t : t \in Nat /\ t <= WakeAt(i, k) => t <= WakeAt(i, k)'
    BY <1>1, SightFrame
  <1>3. ASSUME NEW i \in Id, timer[i].pc = "sleep"
        PROVE  (timer[i].kind \in Scheduled(i) /\ timer[i].at <= WakeAt(i, timer[i].kind))'
    <2>1. PICK k : k = timer[i].kind
      OBVIOUS
    <2>2. k \in Scheduled(i) /\ timer[i].at <= WakeAt(i, k)
      BY <1>3, <2>1 DEF SightInv
    <2>3. timer[i].at <= WakeAt(i, k)'
      BY <1>1, <1>2, <2>2
    <2> QED BY <1>2, <2>1, <2>2, <2>3 DEF WakeAt
  <1>4. ASSUME NEW i \in live', Scheduled(i)' # {} PROVE InSight(i)'
    <2>1. CASE i \in live
      <3>1. InSight(i) /\ i \in Id
        BY <1>2, <1>4, <2>1 DEF SightInv, RaceInv, TypeOK
      <3> QED BY <1>3, <3>1 DEF InSight
    <2>2. CASE i \notin live
      BY <2>2 DEF InSight
    <2> QED BY <2>1, <2>2
  <1> QED BY <1>1, <1>2, <1>3, <1>4 DEF SightInv

LEMMA SightInvHolds == Spec => []SightInv
  <1>1. Init => SightInv
    <2> SUFFICES ASSUME Init PROVE SightInv
      OBVIOUS
    <2>1. \A i \in Id : timer[i].pc = "none"
      BY DEF Init, NoTimer
    <2> QED BY <2>1 DEF Init, SightInv
  <1>2. RaceInv /\ SightInv /\ [Next]_vars => SightInv'
    <2> SUFFICES ASSUME RaceInv, SightInv, [Next]_vars PROVE SightInv'
      OBVIOUS
    <2>0. now \in Nat /\ live \subseteq Id /\ task \in [Client -> Task] /\ used \subseteq Id
      BY DEF RaceInv, TypeOK
    <2>1. ASSUME NEW c \in Client, Begin(c), ~\E i \in Id, r \in Request : Create(c, i, r)
          PROVE  SightInv'
      <3>1. /\ UNCHANGED <<info, used, timer, now>> /\ live' \subseteq live
            /\ \A d \in Client : task[d].pc = "schedule" => task'[d] = task[d]
        <4>1. ASSUME NEW dev \in Device, RetrieveByDevice(c, dev)
              PROVE  UNCHANGED <<info, used, timer, now, live, task>>
          BY <4>1 DEF RetrieveByDevice
        <4>2. ASSUME NEW i \in Id, Delete(c, i) \/ SendSessionMetrics(c, i)
              PROVE  /\ UNCHANGED <<info, used, timer, now>> /\ live' \subseteq live
                     /\ task[c] = Idle
                     /\ task' = task \/ \E t : task' = [task EXCEPT ![c] = t]
          BY <4>2 DEF Delete, SendSessionMetrics
        <4>3. CASE \E i \in Id : Delete(c, i) \/ SendSessionMetrics(c, i)
          BY <2>0, <4>2, <4>3 DEF Idle
        <4> QED BY <2>1, <4>1, <4>3 DEF Begin
      <3> QED BY <2>0, <3>1, SightQuiet
    <2>2. ASSUME NEW c \in Client, Insert(c) PROVE SightInv'
      <3>1. /\ UNCHANGED <<info, used, timer, now>> /\ live' = live \cup {task[c].id}
            /\ task'[c].pc = "schedule" /\ task'[c].id = task[c].id
            /\ \A d \in Client : task[d].pc = "schedule" => task'[d] = task[d]
        BY <2>0, <2>2 DEF Insert, Task
      <3>2. task[c].id \in Id
        BY <2>0, <2>2 DEF Insert, RaceInv, CreatorInv
      <3> QED BY <2>0, <3>1, <3>2, SightQuiet
    <2>3. ASSUME NEW c \in Client, DeleteNotify(c) \/ DeliverQualityScore(c) PROVE SightInv'
      <3>1. /\ UNCHANGED <<info, used, timer, now, live>>
            /\ \A d \in Client : task[d].pc = "schedule" => task'[d] = task[d]
        BY <2>0, <2>3 DEF DeleteNotify, DeliverQualityScore
      <3> QED BY <2>0, <3>1, SightQuiet
    <2>4. CASE Tick \/ UNCHANGED vars
      <3>1. UNCHANGED <<info, used, timer, live, task>> /\ now' \in Nat /\ now' >= now
        BY <2>0, <2>4 DEF Tick, vars
      <3> QED BY <2>0, <3>1, SightQuiet
    <2>5. ASSUME NEW c \in Client, Begin(c) PROVE SightInv'
      BY <2>1, <2>5, SightCreate
    <2>6. ASSUME NEW c \in Client, Continue(c) PROVE SightInv'
      BY <2>2, <2>3, <2>6, SightSchedule DEF Continue
    <2> QED BY <2>4, <2>5, <2>6, SightTimer DEF Next
  <1> QED BY <1>1, <1>2, RaceInvHolds, PTL DEF Spec

\* spawn_network_termination, spawn_activation, spawn_window_expiry and
\* spawn_session_expiry: whatever deletes, reports and the other timers do, the
\* end of a timed resource never gets out of sight.
THEOREM EndStaysInSight == Spec => []EndInSight
  <1>1. SightInv /\ CredentialInv => EndInSight
    BY DEF SightInv, CredentialInv, NoSilentEnd, Held, EndInSight
  <1> QED BY <1>1, SightInvHolds, CredentialInvHolds, PTL

=============================================================================
