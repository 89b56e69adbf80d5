------------------------- MODULE QodSessionsProofs -------------------------
(***************************************************************************)
(* Proofs about QodSessions, for any number of connections, sessions,      *)
(* devices and instants.                                                   *)
(***************************************************************************)
EXTENDS QodSessions, TLAPS, FiniteSetTheorems

\* A session whose end still owes its sink a notice.
Owed(i) == i \in used \ live /\ info[i].sink # "none" /\ ~Announced(i)

\* The ids of two half-finished creates differ, and their timers have not run.
CreatorInv ==
    /\ \A c \in Client : task[c].pc \in {"credential", "schedule"} =>
          task[c].id \in used /\ timer[task[c].id].pc = "none"
    /\ \A c, d \in Client :
          /\ task[c].pc \in {"credential", "schedule"}
          /\ task[d].pc \in {"credential", "schedule"}
          /\ task[c].id = task[d].id
          => c = d

UpdaterInv == \A c \in Client : task[c].pc = "update" => task[c].id \in used

\* A notice is owed by exactly one task.
DeleterInv ==
    /\ \A c \in Client : task[c].pc = "notify" =>
          Owed(task[c].id) /\ timer[task[c].id].pc # "notify"
    /\ \A c, d \in Client :
          /\ task[c].pc = "notify" /\ task[d].pc = "notify"
          /\ task[c].id = task[d].id
          => c = d

TimerInv ==
    \A i \in Id : /\ timer[i].pc # "none" => i \in used /\ Timed(i)
                  /\ timer[i].pc = "notify" => Owed(i)

\* The notices are where the three safety properties about them put them.
NoticeInv == OneNoticePerSession /\ NoticeMeansGone /\ NoSilentEnd

\* The race between the tasks that may end a session, as an inductive invariant.
RaceInv == TypeOK /\ CreatorInv /\ UpdaterInv /\ DeleterInv /\ TimerInv /\ NoticeInv

LEMMA InitRaceInv == Init => RaceInv
  <1> SUFFICES ASSUME Init PROVE RaceInv
    OBVIOUS
  <1>1. Blank \in SessionInfo
    BY ConstantsAssumption DEF Blank, SessionInfo, Sink
  <1>2. TypeOK
    BY <1>1, FS_EmptySet DEF Init, TypeOK, Task, Timer, Idle
  <1>3. CreatorInv /\ UpdaterInv /\ DeleterInv
    BY DEF Init, Idle, CreatorInv, UpdaterInv, DeleterInv
  <1>4. TimerInv
    BY DEF Init, TimerInv
  <1>5. NoticeInv
    BY DEF Init, NoticeInv, OneNoticePerSession, NoticeMeansGone, NoSilentEnd
  <1> QED BY <1>2, <1>3, <1>4, <1>5 DEF RaceInv

LEMMA CreateStep ==
  ASSUME RaceInv, NEW c \in Client, NEW i \in Id, NEW dev \in Device,
         NEW d \in Duration, NEW s \in Sink, NEW profile, NEW cred \in BOOLEAN,
         CreateSession(c, i, dev, d, s, profile, cred)
  PROVE  RaceInv'
  <1> USE DEF RaceInv
  <1>1. BuildSessionInfo(dev, d, s) \in SessionInfo
    BY ConstantsAssumption DEF BuildSessionInfo, SessionInfo, TypeOK
  <1>2. i \notin used /\ info' = [info EXCEPT ![i] = BuildSessionInfo(dev, d, s)]
        /\ live' = live \cup {i} /\ used' = used \cup {i}
        /\ task' = [task EXCEPT ![c] = [pc |-> "credential", id |-> i, additional |-> 0]]
        /\ timer' = timer /\ events' = events /\ inflight' = inflight
        /\ received' = received /\ now' = now /\ creds' = creds /\ known' = known
        /\ (secured' = secured \/ secured' = secured \cup {i})
    BY DEF CreateSession, outbox
  <1>3. \A j \in used : j # i /\ info'[j] = info[j]
    BY <1>2 DEF TypeOK
  <1>4. timer[i].pc = "none"
    BY <1>2 DEF TimerInv
  <1>5. TypeOK'
    BY <1>1, <1>2 DEF TypeOK, Task
  <1>6. CreatorInv'
    BY <1>2, <1>4 DEF CreatorInv, TypeOK
  <1>7. UpdaterInv'
    BY <1>2 DEF UpdaterInv, TypeOK
  <1>8. \A j \in Id : Owed(j) => Owed(j)'
    BY <1>2, <1>3 DEF Owed, Announced
  <1>9. DeleterInv'
    BY <1>2, <1>8 DEF DeleterInv, Owed, TypeOK
  <1>10. TimerInv'
    BY <1>2, <1>3, <1>4, <1>8 DEF TimerInv, Timed, Available
  <1>11. NoticeInv'
    <2>1. OneNoticePerSession' /\ NoticeMeansGone'
      BY <1>2 DEF NoticeInv, OneNoticePerSession, NoticeMeansGone
    <2>2. \A j \in used \ live : Announced(j) => Announced(j)'
      BY <1>2 DEF Announced
    <2>3. \A j \in used \ live : Announcing(j) => Announcing(j)'
      BY <1>2, <1>3, task[c].pc = "idle" DEF Announcing, DeleterOf, TypeOK, CreateSession, Idle
    <2> QED
      BY <2>1, <2>2, <2>3, <1>2, <1>3 DEF NoticeInv, NoSilentEnd
  <1> QED BY <1>5, <1>6, <1>7, <1>9, <1>10, <1>11

\* The steps that touch none of the state RaceInv relates except by moving one
\* connection's or one timer's program counter between harmless values.
LEMMA StoreCredentialStep ==
  ASSUME RaceInv, NEW c \in Client, StoreCredential(c)
  PROVE  RaceInv'
  <1> USE DEF RaceInv
  <1>1. /\ task[c].pc = "credential"
        /\ task' = [task EXCEPT ![c].pc = "schedule"]
        /\ creds' \subseteq creds \cup (secured \cap {task[c].id})
        /\ UNCHANGED <<live, info, used, secured, known, timer, events, inflight, received, now>>
    BY DEF StoreCredential, store, outbox
  <1>2. TypeOK'
    BY <1>1 DEF TypeOK, Task
  <1>3. CreatorInv' /\ UpdaterInv'
    BY <1>1 DEF CreatorInv, UpdaterInv, TypeOK, Task
  <1>4. \A j : Owed(j) => Owed(j)'
    BY <1>1 DEF Owed, Announced
  <1>5. DeleterInv' /\ TimerInv'
    BY <1>1, <1>4 DEF DeleterInv, TimerInv, TypeOK, Task, Timed, Available
  <1>6. NoticeInv'
    BY <1>1 DEF NoticeInv, OneNoticePerSession, NoticeMeansGone, NoSilentEnd,
                Announced, Announcing, DeleterOf, TypeOK, Task
  <1> QED BY <1>2, <1>3, <1>5, <1>6

LEMMA ScheduleStep ==
  ASSUME RaceInv, NEW c \in Client, ScheduleAndReply(c)
  PROVE  RaceInv'
  <1> USE DEF RaceInv
  <1> DEFINE i == task[c].id
  <1>1. /\ task[c].pc = "schedule"
        /\ task' = [task EXCEPT ![c] = Idle]
        /\ known' = known \cup {i}
        /\ UNCHANGED <<live, info, used, secured, creds, events, inflight, received, now>>
    BY DEF ScheduleAndReply, store, outbox
  <1>2. i \in used /\ i \in Id /\ timer[i].pc = "none"
    BY <1>1 DEF CreatorInv, TypeOK
  <1>3. PICK t \in Timer :
          /\ t.pc \in {"none", "read", "sleep"}
          /\ t.pc # "none" => Timed(i)
          /\ timer' = [timer EXCEPT ![i] = t]
    <2>1. CASE ~Timed(i)
      BY <2>1, <1>2, timer' = timer, timer[i] \in Timer, timer = [timer EXCEPT ![i] = timer[i]]
         DEF ScheduleAndReply, TypeOK
    <2>2. CASE Timed(i) /\ Plane[info[i].device] = "terminated"
      <3>1. [pc |-> "sleep", at |-> now + Grace] \in Timer
        BY ConstantsAssumption DEF TypeOK, Timer
      <3> QED BY <2>2, <3>1 DEF ScheduleAndReply
    <2>3. CASE Timed(i) /\ Plane[info[i].device] # "terminated"
      <3>1. [pc |-> "read", at |-> 0] \in Timer
        BY DEF Timer
      <3> QED BY <2>3, <3>1 DEF ScheduleAndReply
    <2> QED BY <2>1, <2>2, <2>3
  <1>4. TypeOK'
    BY <1>1, <1>2, <1>3 DEF TypeOK, Task, Idle
  <1>5. CreatorInv' /\ UpdaterInv'
    BY <1>1, <1>2, <1>3 DEF CreatorInv, UpdaterInv, TypeOK, Idle
  <1>6. \A j : Owed(j) => Owed(j)'
    BY <1>1 DEF Owed, Announced
  <1>7. DeleterInv'
    BY <1>1, <1>2, <1>3, <1>6 DEF DeleterInv, TypeOK, Idle
  <1>8. TimerInv'
    BY <1>1, <1>2, <1>3, <1>6 DEF TimerInv, TypeOK, Timed, Available
  <1>9. NoticeInv'
    BY <1>1, <1>2, <1>3 DEF NoticeInv, OneNoticePerSession, NoticeMeansGone,
          NoSilentEnd, Announced, Announcing, DeleterOf, TypeOK, Idle
  <1> QED BY <1>4, <1>5, <1>7, <1>8, <1>9

LEMMA DeleteStep ==
  ASSUME RaceInv, NEW c \in Client, NEW i \in Id, DeleteSession(c, i)
  PROVE  RaceInv'
  <1> USE DEF RaceInv
  <1>1. /\ task[c].pc = "idle" /\ i \in live /\ live' = live \ {i}
        /\ task' = IF info[i].sink = "none" THEN task
                   ELSE [task EXCEPT ![c] = [pc |-> "notify", id |-> i, additional |-> 0]]
        /\ UNCHANGED <<info, used, secured, creds, known, timer, events, inflight, received, now>>
    BY DEF DeleteSession, Idle, outbox
  <1>2. TypeOK'
    BY <1>1 DEF TypeOK, Task
  <1>3. CreatorInv' /\ UpdaterInv'
    BY <1>1 DEF CreatorInv, UpdaterInv, TypeOK
  <1>4. \A j : Owed(j) => Owed(j)' /\ j # i
    BY <1>1 DEF Owed, Announced
  <1>5. ~Announced(i)
    BY <1>1 DEF NoticeInv, NoticeMeansGone, Announced
  <1>6. info[i].sink # "none" => Owed(i)'
    BY <1>1, <1>5 DEF Owed, Announced, TypeOK
  <1>7. timer[i].pc # "notify"
    BY <1>4 DEF TimerInv
  <1>8. DeleterInv'
    BY <1>1, <1>4, <1>6, <1>7 DEF DeleterInv, TypeOK
  <1>9. TimerInv'
    BY <1>1, <1>4 DEF TimerInv, Timed, Available
  <1>10. NoticeInv'
    <2>1. OneNoticePerSession' /\ NoticeMeansGone'
      BY <1>1 DEF NoticeInv, OneNoticePerSession, NoticeMeansGone, TypeOK
    <2>2. NoSilentEnd'
      BY <1>1 DEF NoticeInv, NoSilentEnd, Announced, Announcing, DeleterOf, TypeOK
    <2> QED BY <2>1, <2>2 DEF NoticeInv
  <1> QED BY <1>2, <1>3, <1>8, <1>9, <1>10

LEMMA ExtendUpdateStep ==
  ASSUME RaceInv, NEW c \in Client, ExtendUpdate(c)
  PROVE  RaceInv'
  <1> USE DEF RaceInv
  <1>1. /\ task[c].pc = "update"
        /\ task' = [task EXCEPT ![c] = Idle]
        /\ UNCHANGED <<live, used, secured, creds, known, timer, events, inflight, received, now>>
    BY DEF ExtendUpdate, outbox
  <1>2. task[c].id \in Id /\ task[c].additional \in Nat
    BY <1>1 DEF UpdaterInv, TypeOK, Task
  <1>3. /\ info' \in [Id -> SessionInfo]
        /\ \A j \in Id : info'[j].sink = info[j].sink /\ info'[j].qosStatus = info[j].qosStatus
    BY <1>2 DEF ExtendUpdate, TypeOK, SessionInfo
  <1>4. TypeOK'
    BY <1>1, <1>3 DEF TypeOK, Task, Idle
  <1>5. CreatorInv' /\ UpdaterInv'
    BY <1>1 DEF CreatorInv, UpdaterInv, TypeOK, Idle
  <1>6. \A j : Owed(j) => Owed(j)'
    BY <1>1, <1>3 DEF Owed, Announced, TypeOK
  <1>7. DeleterInv'
    BY <1>1, <1>6 DEF DeleterInv, TypeOK, Idle
  <1>8. TimerInv'
    BY <1>1, <1>3, <1>6 DEF TimerInv, Timed, Available
  <1>9. NoticeInv'
    BY <1>1, <1>3 DEF NoticeInv, OneNoticePerSession, NoticeMeansGone, NoSilentEnd,
                      Announced, Announcing, DeleterOf, TypeOK, Idle
  <1> QED BY <1>4, <1>5, <1>7, <1>8, <1>9

LEMMA ExtendCheckStep ==
  ASSUME RaceInv, NEW c \in Client, NEW i \in Id, NEW d \in Duration, ExtendCheck(c, i, d)
  PROVE  RaceInv'
  <1> USE DEF RaceInv
  <1>1. /\ task[c].pc = "idle" /\ i \in live
        /\ task' = [task EXCEPT ![c] = [pc |-> "update", id |-> i, additional |-> d]]
        /\ UNCHANGED <<live, info, used, secured, creds, known, timer, events, inflight, received, now>>
    BY DEF ExtendCheck, ExtendAccepted, Idle, store, outbox
  <1>2. TypeOK'
    BY <1>1, ConstantsAssumption DEF TypeOK, Task
  <1>3. CreatorInv' /\ UpdaterInv'
    BY <1>1 DEF CreatorInv, UpdaterInv, TypeOK
  <1>4. \A j : Owed(j) => Owed(j)'
    BY <1>1 DEF Owed, Announced
  <1>5. DeleterInv' /\ TimerInv'
    BY <1>1, <1>4 DEF DeleterInv, TimerInv, TypeOK, Timed, Available
  <1>6. NoticeInv'
    BY <1>1 DEF NoticeInv, OneNoticePerSession, NoticeMeansGone, NoSilentEnd,
                Announced, Announcing, DeleterOf, TypeOK
  <1> QED BY <1>2, <1>3, <1>5, <1>6

\* What SpawnNotice does when the notice of i is owed and no other task owes it.
LEMMA SpawnNoticeStep ==
  ASSUME TypeOK, NEW i \in Id, Owed(i), NEW reason \in Reason, SpawnNotice(i, reason),
         OneNoticePerSession, NoticeMeansGone, UNCHANGED <<live, used>>
  PROVE  /\ \E e \in Event : /\ e \notin events /\ e.sessionId = i
                             /\ events' = events \cup {e}
                             /\ inflight' = inflight \cup {e}
                             /\ received' = received
                             /\ creds' = creds \ {i}
         /\ IsFiniteSet(events')
         /\ OneNoticePerSession' /\ NoticeMeansGone'
  <1> DEFINE e == [no |-> Cardinality(events) + 1, sessionId |-> i,
                   statusInfo |-> reason, auth |-> i \in creds]
  <1>1. Cardinality(events) \in Nat /\ IsFiniteSet(events \cup {e})
    BY FS_CardinalityType, FS_AddElement DEF TypeOK
  <1>2. e \in Event /\ e.sessionId = i
    <2>1. (i \in creds) \in BOOLEAN
      OBVIOUS
    <2> QED BY <1>1, <2>1 DEF Event
  <1>3. e \notin events
    BY <1>2 DEF Owed, Announced
  <1>4. events' = events \cup {e} /\ inflight' = inflight \cup {e}
        /\ received' = received /\ creds' = creds \ {i}
    BY DEF SpawnNotice
  <1> HIDE DEF e
  <1>5. OneNoticePerSession'
    BY <1>2, <1>4 DEF OneNoticePerSession, Owed, Announced
  <1>6. NoticeMeansGone'
    BY <1>2, <1>4 DEF NoticeMeansGone, Owed
  <1> QED BY <1>1, <1>2, <1>3, <1>4, <1>5, <1>6

LEMMA DeleteNotifyStep ==
  ASSUME RaceInv, NEW c \in Client, DeleteNotify(c)
  PROVE  RaceInv'
  <1> USE DEF RaceInv
  <1> DEFINE i == task[c].id
  <1>1. /\ task[c].pc = "notify"
        /\ task' = [task EXCEPT ![c] = Idle]
        /\ UNCHANGED <<live, info, used, secured, known, timer, now>>
    BY DEF DeleteNotify, store
  <1>2. Owed(i) /\ i \in Id /\ timer[i].pc # "notify"
    BY <1>1 DEF DeleterInv, Owed, TypeOK
  <1>3. PICK e \in Event : /\ e \notin events /\ e.sessionId = i
                          /\ events' = events \cup {e} /\ inflight' = inflight \cup {e}
                          /\ received' = received /\ creds' = creds \ {i}
    BY <1>1, <1>2, SpawnNoticeStep DEF DeleteNotify, Reason, NoticeInv
  <1>4. IsFiniteSet(events') /\ OneNoticePerSession' /\ NoticeMeansGone'
    BY <1>1, <1>2, SpawnNoticeStep DEF DeleteNotify, Reason, NoticeInv
  <1>5. TypeOK'
    BY <1>1, <1>3, <1>4 DEF TypeOK, Task, Idle
  <1>6. CreatorInv' /\ UpdaterInv'
    BY <1>1 DEF CreatorInv, UpdaterInv, TypeOK, Idle
  <1>7. \A j : Owed(j) /\ j # i => Owed(j)'
    BY <1>1, <1>3 DEF Owed, Announced
  <1>8. DeleterInv'
    BY <1>1, <1>7 DEF DeleterInv, TypeOK, Idle
  <1>9. TimerInv'
    BY <1>1, <1>2, <1>7 DEF TimerInv, Timed, Available
  <1>10. NoticeInv'
    BY <1>1, <1>3, <1>4 DEF NoticeInv, NoSilentEnd, Announced, Announcing,
                            DeleterOf, TypeOK, Idle
  <1> QED BY <1>5, <1>6, <1>8, <1>9, <1>10

LEMMA TimerNotifyStep ==
  ASSUME RaceInv, NEW i \in Id, TimerNotify(i)
  PROVE  RaceInv'
  <1> USE DEF RaceInv
  <1> DEFINE reason == IF Plane[info[i].device] = "terminated"
                       THEN "NETWORK_TERMINATED" ELSE "DURATION_EXPIRED"
  <1>1. /\ timer[i].pc = "notify"
        /\ timer' = [timer EXCEPT ![i] = [pc |-> "done", at |-> 0]]
        /\ UNCHANGED <<live, info, used, secured, known, task, now>>
    BY DEF TimerNotify, store
  <1>2. Owed(i) /\ (\A c \in Client : ~DeleterOf(i, c)) /\ reason \in Reason
    BY <1>1 DEF TimerInv, DeleterInv, DeleterOf, Reason
  <1>3. PICK e \in Event : /\ e \notin events /\ e.sessionId = i
                          /\ events' = events \cup {e} /\ inflight' = inflight \cup {e}
                          /\ received' = received /\ creds' = creds \ {i}
    BY <1>1, <1>2, SpawnNoticeStep DEF TimerNotify, NoticeInv
  <1>4. IsFiniteSet(events') /\ OneNoticePerSession' /\ NoticeMeansGone'
    BY <1>1, <1>2, SpawnNoticeStep DEF TimerNotify, NoticeInv
  <1>5. TypeOK'
    BY <1>1, <1>3, <1>4 DEF TypeOK, Timer
  <1>6. CreatorInv' /\ UpdaterInv'
    BY <1>1 DEF CreatorInv, UpdaterInv, TypeOK
  <1>7. \A j : Owed(j) /\ j # i => Owed(j)'
    BY <1>1, <1>3 DEF Owed, Announced
  <1>8. DeleterInv'
    BY <1>1, <1>2, <1>7 DEF DeleterInv, DeleterOf, TypeOK
  <1>9. TimerInv'
    BY <1>1, <1>2, <1>7 DEF TimerInv, Timed, Available, TypeOK
  <1>10. NoticeInv'
    BY <1>1, <1>3, <1>4 DEF NoticeInv, NoSilentEnd, Announced, Announcing,
                            DeleterOf, TypeOK
  <1> QED BY <1>5, <1>6, <1>8, <1>9, <1>10

LEMMA TimerEvictStep ==
  ASSUME RaceInv, NEW i \in Id, TimerEvict(i)
  PROVE  RaceInv'
  <1> USE DEF RaceInv
  <1>1. /\ timer[i].pc = "evict" /\ live' = live \ {i}
        /\ timer' = [timer EXCEPT ![i] =
              [pc |-> IF i \in live THEN "notify" ELSE "done", at |-> 0]]
        /\ UNCHANGED <<info, used, secured, creds, known, task, events, inflight, received, now>>
    BY DEF TimerEvict, outbox
  <1>2. i \in used /\ Timed(i)
    BY <1>1 DEF TimerInv
  <1>3. i \in live => Owed(i)' /\ \A c \in Client : ~DeleterOf(i, c)
    BY <1>1, <1>2 DEF Owed, Announced, NoticeInv, NoticeMeansGone, DeleterInv,
                      DeleterOf, Timed
  <1>4. TypeOK'
    BY <1>1 DEF TypeOK, Timer
  <1>5. CreatorInv' /\ UpdaterInv'
    BY <1>1, \A c \in Client : task[c].pc \in {"credential", "schedule"} => task[c].id # i
       DEF CreatorInv, UpdaterInv, TypeOK
  <1>6. \A j : Owed(j) => Owed(j)'
    BY <1>1 DEF Owed, Announced
  <1>7. DeleterInv'
    BY <1>1, <1>3, <1>6 DEF DeleterInv, DeleterOf, TypeOK
  <1>8. TimerInv'
    BY <1>1, <1>2, <1>3, <1>6 DEF TimerInv, Timed, Available, TypeOK
  <1>9. NoticeInv'
    BY <1>1 DEF NoticeInv, OneNoticePerSession, NoticeMeansGone, NoSilentEnd,
                Announced, Announcing, DeleterOf, TypeOK
  <1> QED BY <1>4, <1>5, <1>7, <1>8, <1>9

\* The timer's steps that only move its own program counter.
LEMMA TimerWaitStep ==
  ASSUME RaceInv, NEW i \in Id, TimerRead(i) \/ TimerClock(i) \/ TimerWake(i)
  PROVE  RaceInv'
  <1> USE DEF RaceInv
  <1>1. PICK t \in Timer : /\ t.pc \in {"clock", "sleep", "read", "evict", "done"}
                          /\ timer' = [timer EXCEPT ![i] = t]
    <2>1. CASE TimerRead(i)
      <3>1. info[i].expiresAt \in Nat
        BY DEF TypeOK, SessionInfo
      <3> DEFINE t == IF i \in live /\ Available(i)
                      THEN [pc |-> "clock", at |-> info[i].expiresAt]
                      ELSE [pc |-> "done", at |-> 0]
      <3>2. t \in Timer /\ t.pc \in {"clock", "done"} /\ timer' = [timer EXCEPT ![i] = t]
        BY <2>1, <3>1 DEF TimerRead, Timer
      <3> QED BY <3>2
    <2>2. CASE TimerClock(i)
      <3>1. timer[i].at \in Nat
        BY DEF TypeOK, Timer
      <3> DEFINE t == IF now < timer[i].at THEN [pc |-> "sleep", at |-> timer[i].at]
                      ELSE [pc |-> "evict", at |-> 0]
      <3>2. t \in Timer /\ t.pc \in {"sleep", "evict"} /\ timer' = [timer EXCEPT ![i] = t]
        BY <2>2, <3>1 DEF TimerClock, Timer
      <3> QED BY <3>2
    <2>3. CASE TimerWake(i)
      <3> DEFINE t == [pc |-> IF Plane[info[i].device] = "terminated"
                              THEN "evict" ELSE "read",
                       at |-> 0]
      <3>1. t \in Timer /\ t.pc \in {"read", "evict"} /\ timer' = [timer EXCEPT ![i] = t]
        BY <2>3 DEF TimerWake, Timer
      <3> QED BY <3>1
    <2> QED BY <2>1, <2>2, <2>3
  <1>2. /\ timer[i].pc \in {"read", "clock", "sleep"}
        /\ UNCHANGED <<live, info, used, secured, creds, known, task, events, inflight, received, now>>
    BY DEF TimerRead, TimerClock, TimerWake, store, outbox
  <1>3. TypeOK'
    BY <1>1, <1>2 DEF TypeOK
  <1>4. CreatorInv' /\ UpdaterInv'
    BY <1>1, <1>2, \A c \in Client : task[c].pc \in {"credential", "schedule"} => task[c].id # i
       DEF CreatorInv, UpdaterInv, TypeOK
  <1>5. \A j : Owed(j) => Owed(j)'
    BY <1>2 DEF Owed, Announced
  <1>6. DeleterInv'
    BY <1>1, <1>2, <1>5 DEF DeleterInv, TypeOK
  <1>7. TimerInv'
    BY <1>1, <1>2, <1>5 DEF TimerInv, Timed, Available, TypeOK
  <1>8. NoticeInv'
    BY <1>1, <1>2 DEF NoticeInv, OneNoticePerSession, NoticeMeansGone, NoSilentEnd,
                      Announced, Announcing, DeleterOf, TypeOK
  <1> QED BY <1>3, <1>4, <1>6, <1>7, <1>8

\* The steps that leave the store, the tasks, the timers and the events alone.
LEMMA BystanderStep ==
  ASSUME RaceInv,
         \/ \E c \in Client, dev \in Device : RetrieveSessions(c, dev)
         \/ \E e \in inflight : Deliver(e) \/ Lose(e)
         \/ Tick
         \/ UNCHANGED vars
  PROVE  RaceInv'
  <1> USE DEF RaceInv
  <1>1. UNCHANGED <<live, info, used, secured, creds, task, timer, events>>
    BY DEF RetrieveSessions, Deliver, Lose, Tick, vars, store, outbox
  <1>2. TypeOK'
    <2>1. CASE \E c \in Client, dev \in Device : RetrieveSessions(c, dev)
      BY <2>1 DEF RetrieveSessions, FindByDevice, TypeOK, store, outbox
    <2>2. CASE \E e \in inflight : Deliver(e) \/ Lose(e)
      BY <2>2 DEF Deliver, Lose, TypeOK, store
    <2>3. CASE Tick
      BY <2>3 DEF Tick, TypeOK, store, outbox
    <2>4. CASE UNCHANGED vars
      BY <2>4 DEF vars, TypeOK
    <2> QED BY <2>1, <2>2, <2>3, <2>4
  <1>3. CreatorInv' /\ UpdaterInv' /\ DeleterInv' /\ TimerInv'
    BY <1>1 DEF CreatorInv, UpdaterInv, DeleterInv, TimerInv, Owed, Announced,
                Timed, Available
  <1>4. NoticeInv'
    BY <1>1 DEF NoticeInv, OneNoticePerSession, NoticeMeansGone, NoSilentEnd,
                Announced, Announcing, DeleterOf
  <1> QED BY <1>2, <1>3, <1>4

LEMMA RaceInvStep == RaceInv /\ [Next]_vars => RaceInv'
  <1> SUFFICES ASSUME RaceInv, [Next]_vars PROVE RaceInv'
    OBVIOUS
  <1>1. CASE \E c \in Client : Request(c)
    BY <1>1, CreateStep, DeleteStep, ExtendCheckStep, BystanderStep DEF Request
  <1>2. CASE \E c \in Client : Continue(c)
    BY <1>2, StoreCredentialStep, ScheduleStep, DeleteNotifyStep, ExtendUpdateStep
       DEF Continue
  <1>3. CASE \E i \in Id : TimerStep(i)
    BY <1>3, TimerWaitStep, TimerEvictStep, TimerNotifyStep DEF TimerStep
  <1>4. CASE \/ \E e \in inflight : Deliver(e) \/ Lose(e)
             \/ Tick
             \/ UNCHANGED vars
    BY <1>4, BystanderStep
  <1> QED BY <1>1, <1>2, <1>3, <1>4 DEF Next

\* The inductive invariant holds of every behaviour.
THEOREM RaceInvHolds == Spec => []RaceInv
  BY InitRaceInv, RaceInvStep, PTL DEF Spec

\* Type correctness: the maps only hold minted ids, a delivery is never both
\* running and over, and every program counter is one the code has.
THEOREM TypeCorrect == Spec => []TypeOK
  BY RaceInvHolds, PTL DEF RaceInv

\* However many requests and timers race to end a session, its sink is told once.
THEOREM ToldOnce == Spec => []OneNoticePerSession
  BY RaceInvHolds, PTL DEF RaceInv, NoticeInv

\* A sink is only told of sessions that are gone from the store.
THEOREM ToldOfGoneOnly == Spec => []NoticeMeansGone
  BY RaceInvHolds, PTL DEF RaceInv, NoticeInv

\* No session with a sink ends without its notice being sent or on its way.
THEOREM NeverSilent == Spec => []NoSilentEnd
  BY RaceInvHolds, PTL DEF RaceInv, NoticeInv

-----------------------------------------------------------------------------
\* An id that was removed is never stored again: ids are fresh when inserted and
\* an extend updates in place.
THEOREM NeverRevived == Spec => GoneForGood
  <1>1. RaceInv /\ [Next]_vars => [\A i \in used \ live : i \notin live']_vars
    <2> SUFFICES ASSUME RaceInv, [Next]_vars, NEW i \in used \ live
                 PROVE  i \notin live'
      OBVIOUS
    <2>1. ASSUME NEW c \in Client, Request(c) PROVE i \notin live'
      BY <2>1 DEF Request, CreateSession, RetrieveSessions, DeleteSession, ExtendCheck, store
    <2>2. ASSUME NEW c \in Client, Continue(c) PROVE i \notin live'
      BY <2>2 DEF Continue, StoreCredential, ScheduleAndReply, DeleteNotify, ExtendUpdate, store
    <2>3. ASSUME NEW j \in Id, TimerStep(j) PROVE i \notin live'
      BY <2>3 DEF TimerStep, TimerRead, TimerClock, TimerWake, TimerEvict, TimerNotify, store
    <2>4. CASE (\E e \in inflight : Deliver(e) \/ Lose(e)) \/ Tick \/ UNCHANGED vars
      BY <2>4 DEF Deliver, Lose, Tick, vars, store
    <2> QED BY <2>1, <2>2, <2>3, <2>4 DEF Next
  <1> QED BY <1>1, RaceInvHolds, PTL DEF Spec, GoneForGood

\* What a step may do to the value of a minted id: nothing, unless it extends it.
LEMMA InfoStep ==
  ASSUME RaceInv, [Next]_vars
  PROVE  \/ \A i \in used : info'[i] = info[i]
         \/ \E c \in Client : ExtendUpdate(c)
  <1>1. CASE \E c \in Client : Request(c)
    <2>1. CASE \E c \in Client, i \in Id, dev \in Device, d \in Duration, s \in Sink,
                profile \in {"standard", "unavailable"}, cred \in BOOLEAN :
                CreateSession(c, i, dev, d, s, profile, cred)
      BY <2>1 DEF CreateSession, RaceInv, TypeOK
    <2> QED BY <1>1, <2>1 DEF Request, RetrieveSessions, DeleteSession, ExtendCheck, store
  <1>2. CASE \E c \in Client : Continue(c)
    BY <1>2 DEF Continue, StoreCredential, ScheduleAndReply, DeleteNotify, store
  <1>3. CASE \E i \in Id : TimerStep(i)
    BY <1>3 DEF TimerStep, TimerRead, TimerClock, TimerWake, TimerEvict, TimerNotify, store
  <1>4. CASE (\E e \in inflight : Deliver(e) \/ Lose(e)) \/ Tick \/ UNCHANGED vars
    BY <1>4 DEF Deliver, Lose, Tick, vars, store
  <1> QED BY <1>1, <1>2, <1>3, <1>4 DEF Next

\* A step mints at most the id of a fresh grant.
LEMMA UsedStep ==
  ASSUME RaceInv, [Next]_vars
  PROVE  \/ used' = used /\ secured' = secured
         \/ \E i \in Id \ used, dev \in Device, d \in Duration, s \in Sink :
               /\ used' = used \cup {i} /\ secured \subseteq secured'
               /\ secured' \subseteq secured \cup {i}
               /\ info' = [info EXCEPT ![i] = BuildSessionInfo(dev, d, s)]
  <1>1. CASE \E c \in Client : Request(c)
    <2>1. CASE \E c \in Client, i \in Id, dev \in Device, d \in Duration, s \in Sink,
                profile \in {"standard", "unavailable"}, cred \in BOOLEAN :
                CreateSession(c, i, dev, d, s, profile, cred)
      <3>1. PICK c \in Client, i \in Id, dev \in Device, d \in Duration, s \in Sink,
                profile \in {"standard", "unavailable"}, cred \in BOOLEAN :
                CreateSession(c, i, dev, d, s, profile, cred)
        BY <2>1
      <3>2. i \in Id \ used /\ used' = used \cup {i}
            /\ secured' \in {secured, secured \cup {i}}
            /\ info' = [info EXCEPT ![i] = BuildSessionInfo(dev, d, s)]
        BY <3>1 DEF CreateSession
      <3> QED BY <3>2
    <2> QED BY <1>1, <2>1 DEF Request, RetrieveSessions, DeleteSession, ExtendCheck, store
  <1>2. CASE \E c \in Client : Continue(c)
    BY <1>2 DEF Continue, StoreCredential, ScheduleAndReply, DeleteNotify, ExtendUpdate, store
  <1>3. CASE \E i \in Id : TimerStep(i)
    BY <1>3 DEF TimerStep, TimerRead, TimerClock, TimerWake, TimerEvict, TimerNotify, store
  <1>4. CASE (\E e \in inflight : Deliver(e) \/ Lose(e)) \/ Tick \/ UNCHANGED vars
    BY <1>4 DEF Deliver, Lose, Tick, vars, store
  <1> QED BY <1>1, <1>2, <1>3, <1>4 DEF Next

\* The reported duration is what lies between the two instants, whatever the
\* extends race with.
THEOREM DurationTruthful == Spec => []DurationMatchesExpiry
  <1>1. Init => DurationMatchesExpiry
    BY DEF Init, DurationMatchesExpiry
  <1>2. DurationMatchesExpiry /\ RaceInv /\ RaceInv' /\ [Next]_vars => DurationMatchesExpiry'
    <2> SUFFICES ASSUME DurationMatchesExpiry, RaceInv, RaceInv', [Next]_vars,
                        NEW i \in used', Available(i)'
                 PROVE  info'[i].expiresAt = info'[i].startedAt + info'[i].duration
      BY DEF DurationMatchesExpiry
    <2>1. CASE i \in used /\ info'[i] = info[i]
      BY <2>1 DEF DurationMatchesExpiry, Available
    <2>2. CASE i \notin used
      <3>1. PICK dev \in Device, d \in Duration, s \in Sink :
                info' = [info EXCEPT ![i] = BuildSessionInfo(dev, d, s)]
        BY <2>2, UsedStep
      <3>2. info'[i] = BuildSessionInfo(dev, d, s)
        BY <3>1 DEF RaceInv, TypeOK
      <3>3. d \in Nat /\ now \in Nat
        BY ConstantsAssumption DEF RaceInv, TypeOK
      <3> QED BY <3>2, <3>3 DEF BuildSessionInfo, Available
    <2>3. CASE i \in used /\ \E c \in Client : ExtendUpdate(c)
      <3>1. PICK c \in Client : ExtendUpdate(c)
        BY <2>3
      <3>2. /\ task[c].id \in Id /\ task[c].additional \in Nat
            /\ info[i] \in SessionInfo /\ i \in Id
        BY <3>1, <2>3 DEF ExtendUpdate, RaceInv, UpdaterInv, TypeOK, Task
      <3>3. CASE task[c].id = i /\ i \in live
        <4>1. /\ info'[i].duration = info[i].duration + task[c].additional
              /\ info'[i].startedAt = info[i].startedAt
              /\ info'[i].qosStatus = info[i].qosStatus
              /\ Available(i) => info'[i].expiresAt = info[i].expiresAt + task[c].additional
          BY <3>1, <3>2, <3>3 DEF ExtendUpdate, RaceInv, TypeOK, SessionInfo
        <4>2. info[i].expiresAt = info[i].startedAt + info[i].duration
          BY <2>3, <4>1 DEF DurationMatchesExpiry, Available
        <4>3. info[i].startedAt \in Nat /\ info[i].duration \in Nat
          BY <3>2 DEF SessionInfo
        <4> QED BY <3>2, <4>1, <4>2, <4>3 DEF Available
      <3>4. CASE ~(task[c].id = i /\ i \in live)
        <4>1. info'[i] = info[i]
          BY <3>1, <3>2, <3>4 DEF ExtendUpdate, RaceInv, TypeOK
        <4> QED BY <4>1, <2>1, <2>3
      <3> QED BY <3>3, <3>4
    <2> QED BY <2>1, <2>2, <2>3, InfoStep
  <1> QED BY <1>1, <1>2, RaceInvHolds, PTL DEF Spec

-----------------------------------------------------------------------------
\* The connections that carry an extension of a session they have yet to apply.
Pending(i) == {c \in Client : task[c].pc = "update" /\ task[c].id = i}

\* How far an extension that is applied now may take the session: the ceiling,
\* and the most that each connection not waiting to extend can have applied
\* since the one that passed the check last.
Room(i) == MaxDuration
             + (Cardinality(Client) - Cardinality(Pending(i))) * (MaxDuration - 1)

OvershootInv ==
    /\ OvershootBounded
    /\ \A i \in used : info[i].duration >= 1
    /\ \A c \in Client : task[c].pc = "update" =>
          task[c].additional \in 1..(MaxDuration - 1)
    /\ \A i \in used : Pending(i) # {} =>
          \E c \in Pending(i) : info[i].duration + task[c].additional <= Room(i)

\* One connection fewer that waits leaves that much more room.
LEMMA Distribute ==
  ASSUME NEW k \in Nat, NEW p \in Nat, NEW m \in Nat, p <= k
  PROVE  /\ (k - p) * m \in Nat
         /\ (k - (p - 1)) * m = (k - p) * m + m
         /\ p >= 1 => (k - p) * m + m <= k * m
  <1>1. PICK n \in Nat : k = n + p
    BY SMT
  <1>2. /\ k - p = n /\ (k - (p - 1)) = n + 1
        /\ n * m \in Nat /\ (n + 1) * m = n * m + m
        /\ k * m = n * m + p * m
    BY <1>1, SMT
  <1>3. p >= 1 => p * m >= m
    <2>1. CASE p = 0
      BY <2>1
    <2>2. CASE p # 0
      <3>1. PICK q \in Nat : p = q + 1
        BY <2>2, SMT
      <3>2. q * m \in Nat /\ p * m = q * m + m
        BY <3>1, SMT
      <3> QED BY <3>2, SMT
    <2> QED BY <2>1, <2>2
  <1>4. p * m \in Nat
    BY SMT
  <1> QED BY <1>2, <1>3, <1>4, SMT

LEMMA RoomTyped ==
  ASSUME MaxDuration >= 1, NEW i
  PROVE  /\ Pending(i) \subseteq Client /\ IsFiniteSet(Pending(i))
         /\ Cardinality(Client) \in Nat /\ Cardinality(Pending(i)) \in Nat
         /\ Cardinality(Pending(i)) <= Cardinality(Client)
         /\ MaxDuration - 1 \in Nat /\ Room(i) \in Nat
         /\ Pending(i) # {} =>
               /\ Cardinality(Pending(i)) >= 1
               /\ Room(i) <= 1 + Cardinality(Client) * (MaxDuration - 1)
  <1>1. Pending(i) \subseteq Client /\ IsFiniteSet(Client)
    BY ConstantsAssumption DEF Pending
  <1>2. /\ IsFiniteSet(Pending(i))
        /\ Cardinality(Client) \in Nat /\ Cardinality(Pending(i)) \in Nat
        /\ Cardinality(Pending(i)) <= Cardinality(Client)
    BY <1>1, FS_Subset, FS_CardinalityType
  <1>3. Pending(i) # {} => Cardinality(Pending(i)) >= 1
    BY <1>2, FS_EmptySet
  <1>4. MaxDuration - 1 \in Nat
    BY ConstantsAssumption
  <1> DEFINE k == Cardinality(Client)
             p == Cardinality(Pending(i))
             m == MaxDuration - 1
  <1>5. /\ (k - p) * m \in Nat
        /\ p >= 1 => (k - p) * m + m <= k * m
    BY <1>2, <1>4, Distribute
  <1>6. k * m \in Nat
    BY <1>2, <1>4, SMT
  <1>7. Room(i) = (m + 1) + (k - p) * m
    BY <1>4, ConstantsAssumption DEF Room
  <1> HIDE DEF k, m
  <1>8. Room(i) \in Nat /\ (p >= 1 => Room(i) <= 1 + k * m)
    BY <1>4, <1>5, <1>6, <1>7 DEF m
  <1> QED BY <1>1, <1>2, <1>3, <1>4, <1>8 DEF k, m

\* A step that neither passes the check nor applies an extension.
LEMMA OvershootFrame ==
  ASSUME OvershootInv, used' = used, \A i \in used : info'[i] = info[i],
         \A c \in Client :
            /\ task'[c].pc = "update" <=> task[c].pc = "update"
            /\ task[c].pc = "update" => task'[c] = task[c]
  PROVE  OvershootInv'
  <1>1. \A i \in used : Pending(i)' = Pending(i) /\ Room(i)' = Room(i)
    BY DEF Pending, Room
  <1>2. OvershootBounded' /\ \A i \in used' : info'[i].duration >= 1
    BY DEF OvershootInv, OvershootBounded
  <1>3. \A c \in Client : task'[c].pc = "update" =>
           task'[c].additional \in 1..(MaxDuration - 1)
    BY DEF OvershootInv
  <1>4. ASSUME NEW i \in used, Pending(i)' # {}
        PROVE  \E c \in Pending(i)' : info'[i].duration + task'[c].additional <= Room(i)'
    <2>1. PICK c \in Pending(i) : info[i].duration + task[c].additional <= Room(i)
      BY <1>1, <1>4 DEF OvershootInv
    <2>2. c \in Client /\ task'[c] = task[c]
      BY DEF Pending
    <2> QED BY <1>1, <2>1, <2>2
  <1> QED BY <1>2, <1>3, <1>4 DEF OvershootInv

LEMMA OvershootCreate ==
  ASSUME RaceInv, OvershootInv,
         NEW c \in Client, NEW i \in Id, NEW dev \in Device, NEW d \in Duration,
         NEW s \in Sink, NEW profile \in {"standard", "unavailable"}, NEW cred \in BOOLEAN,
         CreateSession(c, i, dev, d, s, profile, cred)
  PROVE  OvershootInv'
  <1>1. /\ task[c].pc = "idle" /\ i \in Id \ used /\ used' = used \cup {i}
        /\ d \in 1..MaxDuration
        /\ info' = [info EXCEPT ![i] = BuildSessionInfo(dev, d, s)]
        /\ task' = [task EXCEPT ![c] =
                      [pc |-> "credential", id |-> i, additional |-> 0]]
    BY DEF CreateSession, CreateAccepted, Idle
  <1>2. /\ task'[c].pc = "credential"
        /\ \A e \in Client \ {c} : task'[e] = task[e]
    BY <1>1 DEF RaceInv, TypeOK
  <1>3. info'[i].duration = d /\ \A j \in used : info'[j] = info[j]
    BY <1>1 DEF RaceInv, TypeOK, BuildSessionInfo
  <1>4. MaxDuration >= 1 /\ MaxDuration \in Nat
    BY <1>1, ConstantsAssumption
  <1>5. Pending(i)' = {}
    BY <1>1, <1>2 DEF Pending, RaceInv, UpdaterInv
  <1>6. \A j \in used : Pending(j)' = Pending(j) /\ Room(j)' = Room(j)
    BY <1>1, <1>2 DEF Pending, Room
  <1>7. d <= 1 + Cardinality(Client) * (MaxDuration - 1)
    <2>1. Cardinality(Client) \in Nat /\ Cardinality(Client) >= 1
      BY ConstantsAssumption, FS_CardinalityType, FS_EmptySet
    <2>2. MaxDuration - 1 \in Nat
      BY <1>4
    <2>3. (MaxDuration - 1) <= Cardinality(Client) * (MaxDuration - 1)
      <3> DEFINE k == Cardinality(Client)
                 m == MaxDuration - 1
      <3>1. (k - 1) * m \in Nat /\ (k - 1) * m + m <= k * m
        BY <2>1, <2>2, Distribute
      <3>2. k * m \in Nat
        BY <2>1, <2>2, SMT
      <3> QED BY <2>2, <3>1, <3>2
    <2>4. Cardinality(Client) * (MaxDuration - 1) \in Nat
      BY <2>1, <2>2, SMT
    <2> QED BY <1>1, <1>4, <2>3, <2>4
  <1>8. OvershootBounded' /\ \A j \in used' : info'[j].duration >= 1
    BY <1>1, <1>3, <1>7 DEF OvershootInv, OvershootBounded
  <1>9. \A e \in Client : task'[e].pc = "update" =>
           task'[e].additional \in 1..(MaxDuration - 1)
    BY <1>2 DEF OvershootInv
  <1>10. ASSUME NEW j \in used', Pending(j)' # {}
         PROVE  \E e \in Pending(j)' : info'[j].duration + task'[e].additional <= Room(j)'
    <2>1. j \in used
      BY <1>1, <1>5, <1>10
    <2>2. PICK e \in Pending(j) : info[j].duration + task[e].additional <= Room(j)
      BY <1>6, <1>10, <2>1 DEF OvershootInv
    <2>3. e # c /\ e \in Client
      BY <1>1 DEF Pending
    <2>4. task'[e] = task[e]
      BY <1>2, <2>3
    <2> QED BY <1>3, <1>6, <2>1, <2>2, <2>4
  <1> QED BY <1>8, <1>9, <1>10 DEF OvershootInv

LEMMA OvershootCheck ==
  ASSUME RaceInv, OvershootInv, NEW c \in Client, NEW i \in Id, NEW d \in Duration,
         ExtendCheck(c, i, d)
  PROVE  OvershootInv'
  <1>1. /\ task[c].pc = "idle" /\ i \in used /\ d \in 1..MaxDuration
        /\ info[i].duration + d <= MaxDuration
        /\ task' = [task EXCEPT ![c] = [pc |-> "update", id |-> i, additional |-> d]]
        /\ used' = used /\ info' = info
    BY DEF ExtendCheck, ExtendAccepted, Idle, store, RaceInv, TypeOK
  <1>2. /\ task'[c].pc = "update" /\ task'[c].id = i /\ task'[c].additional = d
        /\ \A e \in Client \ {c} : task'[e] = task[e]
    BY <1>1 DEF RaceInv, TypeOK
  <1>3. MaxDuration \in Nat /\ info[i].duration \in Nat /\ info[i].duration >= 1
    BY <1>1, ConstantsAssumption DEF RaceInv, TypeOK, SessionInfo, OvershootInv
  <1>4. d \in 1..(MaxDuration - 1) /\ MaxDuration >= 1
    BY <1>1, <1>3
  <1>5. OvershootBounded' /\ \A j \in used' : info'[j].duration >= 1
    BY <1>1 DEF OvershootInv, OvershootBounded
  <1>6. \A e \in Client : task'[e].pc = "update" =>
           task'[e].additional \in 1..(MaxDuration - 1)
    BY <1>2, <1>4 DEF OvershootInv
  <1>7. ASSUME NEW j \in used', Pending(j)' # {}
        PROVE  \E e \in Pending(j)' : info'[j].duration + task'[e].additional <= Room(j)'
    <2>1. CASE j = i
      <3>1. c \in Pending(j)'
        BY <1>2, <2>1 DEF Pending
      <3>2. Pending(j)' \subseteq Client /\ IsFiniteSet(Client)
        BY ConstantsAssumption DEF Pending
      <3>3. /\ Cardinality(Client) \in Nat /\ Cardinality(Pending(j)') \in Nat
            /\ Cardinality(Pending(j)') <= Cardinality(Client)
        BY <3>2, FS_Subset, FS_CardinalityType
      <3>4. (Cardinality(Client) - Cardinality(Pending(j)')) * (MaxDuration - 1) \in Nat
        BY <1>3, <1>4, <3>3, Distribute
      <3>5. Room(j)' >= MaxDuration
        BY <1>3, <3>4 DEF Room
      <3>6. info'[j].duration + task'[c].additional <= Room(j)'
        <4>1. Room(j)' \in Int
          BY <1>3, <3>4 DEF Room
        <4> QED BY <1>1, <1>2, <1>3, <2>1, <3>5, <4>1
      <3> QED BY <3>1, <3>6
    <2>2. CASE j # i
      <3>1. Pending(j)' = Pending(j) /\ Room(j)' = Room(j)
        BY <1>1, <1>2, <2>2 DEF Pending, Room
      <3>2. PICK e \in Pending(j) : info[j].duration + task[e].additional <= Room(j)
        BY <1>1, <1>7, <3>1 DEF OvershootInv
      <3>3. task'[e] = task[e]
        BY <1>1, <1>2 DEF Pending
      <3> QED BY <1>1, <3>1, <3>2, <3>3
    <2> QED BY <2>1, <2>2
  <1> QED BY <1>5, <1>6, <1>7 DEF OvershootInv

\* Whichever of the waiting extensions is applied, and whether or not it is the
\* one that passed the check last, one more of them has that much more room.
LEMMA OvershootApply ==
  ASSUME RaceInv, OvershootInv, NEW c \in Client, ExtendUpdate(c)
  PROVE  OvershootInv'
  <1>1. PICK i \in used : i = task[c].id
    BY DEF ExtendUpdate, RaceInv, UpdaterInv
  <1> DEFINE a == task[c].additional
  <1>2. /\ task[c].pc = "update" /\ used' = used /\ task' = [task EXCEPT ![c] = Idle]
        /\ a \in 1..(MaxDuration - 1)
    BY <1>1 DEF ExtendUpdate, RaceInv, OvershootInv
  <1>3. MaxDuration \in Nat /\ MaxDuration >= 1 /\ a \in Nat /\ a <= MaxDuration - 1
    BY <1>2, ConstantsAssumption
  <1>4. /\ task'[c].pc = "idle" /\ \A e \in Client \ {c} : task'[e] = task[e]
    BY <1>2 DEF RaceInv, TypeOK, Idle
  <1>5. /\ info[i].duration \in Nat /\ i \in Id
        /\ info'[i].duration \in {info[i].duration, info[i].duration + a}
        /\ \A j \in used \ {i} : info'[j] = info[j]
    <2>1. info \in [Id -> SessionInfo] /\ used \subseteq Id /\ info[i] \in SessionInfo
      BY DEF RaceInv, TypeOK
    <2>2. CASE i \notin live
      BY <1>1, <2>1, <2>2 DEF ExtendUpdate, SessionInfo
    <2>3. CASE i \in live
      <3>1. info'[i].duration = info[i].duration + a
        BY <1>1, <2>1, <2>3 DEF ExtendUpdate, SessionInfo
      <3>2. \A j \in used \ {i} : info'[j] = info[j]
        BY <1>1, <2>1, <2>3 DEF ExtendUpdate
      <3> QED BY <2>1, <3>1, <3>2 DEF SessionInfo
    <2> QED BY <2>2, <2>3
  <1> HIDE DEF a
  <1>6. \A j \in used \ {i} : Pending(j)' = Pending(j) /\ Room(j)' = Room(j)
    BY <1>1, <1>4 DEF Pending, Room
  <1>7. c \in Pending(i) /\ Pending(i)' = Pending(i) \ {c}
    BY <1>1, <1>2, <1>4 DEF Pending
  <1>8. /\ Room(i) \in Nat /\ IsFiniteSet(Pending(i))
        /\ Cardinality(Pending(i)) \in Nat /\ Cardinality(Client) \in Nat
        /\ Cardinality(Pending(i)) <= Cardinality(Client)
        /\ Room(i) <= 1 + Cardinality(Client) * (MaxDuration - 1)
        /\ MaxDuration - 1 \in Nat
    BY <1>3, <1>7, RoomTyped
  <1>9. Room(i)' = Room(i) + (MaxDuration - 1)
    <2> DEFINE k == Cardinality(Client)
               p == Cardinality(Pending(i))
               m == MaxDuration - 1
    <2>1. Cardinality(Pending(i)') = p - 1
      BY <1>7, <1>8, FS_RemoveElement
    <2>2. (k - (p - 1)) * m = (k - p) * m + m /\ (k - p) * m \in Nat
      BY <1>8, Distribute
    <2>3. Room(i)' = MaxDuration + (k - (p - 1)) * m /\ Room(i) = MaxDuration + (k - p) * m
      BY <2>1 DEF Room
    <2> HIDE DEF k, p, m
    <2>4. Room(i)' = Room(i) + m
      BY <1>3, <1>8, <2>2, <2>3 DEF m
    <2> QED BY <2>4 DEF m
  <1>10. Pending(i)' # {} => Room(i)' <= 1 + Cardinality(Client) * (MaxDuration - 1)
    <2>1. CASE Pending(i)' = {}
      BY <2>1
    <2>2. CASE Pending(i)' # {}
      <3> DEFINE k == Cardinality(Client)
                 q == Cardinality(Pending(i)')
                 m == MaxDuration - 1
      <3>1. q = Cardinality(Pending(i)) - 1 /\ IsFiniteSet(Pending(i)')
        BY <1>7, <1>8, FS_RemoveElement
      <3>2. q \in Nat /\ q <= k /\ q >= 1
        BY <1>8, <2>2, <3>1, FS_EmptySet, FS_CardinalityType
      <3>3. (k - q) * m \in Nat /\ (k - q) * m + m <= k * m
        BY <1>8, <3>2, Distribute
      <3>4. k * m \in Nat
        BY <1>8, SMT
      <3>5. Room(i)' = MaxDuration + (k - q) * m
        BY DEF Room
      <3> HIDE DEF k, q
      <3>6. Room(i)' <= 1 + k * m
        BY <1>3, <3>3, <3>4, <3>5
      <3> QED BY <3>6 DEF k
    <2> QED BY <2>1, <2>2
  <1>11. \A e \in Pending(i) :
            /\ e \in Client /\ task[e].additional \in Nat
            /\ task[e].additional >= 1 /\ task[e].additional <= MaxDuration - 1
    BY <1>3 DEF Pending, OvershootInv
  <1>12. PICK w \in Pending(i) : info[i].duration + task[w].additional <= Room(i)
    BY <1>7 DEF OvershootInv
  <1>13. Pending(i)' # {} =>
            \E e \in Pending(i)' : info'[i].duration + task'[e].additional <= Room(i)'
    <2>1. CASE w # c
      <3>1. w \in Pending(i)' /\ task'[w] = task[w]
        BY <1>4, <1>7, <1>11, <2>1
      <3>2. info'[i].duration + task[w].additional <= Room(i)'
        BY <1>3, <1>5, <1>8, <1>9, <1>11, <1>12
      <3> QED BY <3>1, <3>2
    <2>2. CASE w = c
      <3>1. SUFFICES ASSUME NEW v \in Pending(i)'
                     PROVE  info'[i].duration + task'[v].additional <= Room(i)'
        OBVIOUS
      <3>2. v \in Pending(i) /\ task'[v] = task[v]
        BY <1>4, <1>7, <1>11
      <3>3. info'[i].duration <= Room(i) /\ info'[i].duration \in Nat
        BY <1>3, <1>5, <1>8, <1>12, <2>2 DEF a
      <3> QED BY <1>8, <1>9, <1>11, <3>2, <3>3
    <2> QED BY <2>1, <2>2
  <1>14. info'[i].duration <= 1 + Cardinality(Client) * (MaxDuration - 1)
         /\ info'[i].duration >= 1
    <2>1. info'[i].duration >= 1 /\ info'[i].duration \in Nat
      BY <1>3, <1>5 DEF OvershootInv
    <2> DEFINE bound == 1 + Cardinality(Client) * (MaxDuration - 1)
    <2>2. bound \in Nat
      <3>1. Cardinality(Client) * (MaxDuration - 1) \in Nat
        BY <1>8, SMT
      <3> QED BY <3>1
    <2>3. Room(i) <= bound /\ (Pending(i)' # {} => Room(i)' <= bound)
      BY <1>8, <1>10
    <2> HIDE DEF bound
    <2>4. CASE w = c
      <3>1. info'[i].duration <= Room(i)
        BY <1>3, <1>5, <1>8, <1>12, <2>4 DEF a
      <3> QED BY <1>8, <2>1, <2>2, <2>3, <3>1 DEF bound
    <2>5. CASE w # c
      <3>1. w \in Pending(i)'
        BY <1>7, <2>5
      <3>2. info'[i].duration <= Room(i)'
        BY <1>3, <1>5, <1>8, <1>9, <1>11, <1>12
      <3>3. Room(i)' <= bound /\ Room(i)' \in Nat
        BY <1>8, <1>9, <2>3, <3>1
      <3> QED BY <2>1, <2>2, <3>2, <3>3 DEF bound
    <2> QED BY <2>4, <2>5
  <1>15. OvershootBounded' /\ \A j \in used' : info'[j].duration >= 1
    BY <1>2, <1>5, <1>14 DEF OvershootInv, OvershootBounded
  <1>16. \A e \in Client : task'[e].pc = "update" =>
            task'[e].additional \in 1..(MaxDuration - 1)
    BY <1>4 DEF OvershootInv
  <1>17. ASSUME NEW j \in used \ {i}, Pending(j)' # {}
         PROVE  \E e \in Pending(j)' : info'[j].duration + task'[e].additional <= Room(j)'
    <2>1. PICK e \in Pending(j) : info[j].duration + task[e].additional <= Room(j)
      BY <1>6, <1>17 DEF OvershootInv
    <2>2. e # c /\ e \in Client
      BY <1>1 DEF Pending
    <2> QED BY <1>4, <1>5, <1>6, <2>1, <2>2
  <1> QED BY <1>2, <1>13, <1>15, <1>16, <1>17 DEF OvershootInv

LEMMA OvershootStep == RaceInv /\ OvershootInv /\ [Next]_vars => OvershootInv'
  <1> SUFFICES ASSUME RaceInv, OvershootInv, [Next]_vars PROVE OvershootInv'
    OBVIOUS
  <1>1. \A c \in Client : task[c] \in Task
    BY DEF RaceInv, TypeOK
  <1>2. ASSUME NEW c \in Client, Request(c) PROVE OvershootInv'
    <2>1. ASSUME NEW dev \in Device, RetrieveSessions(c, dev) PROVE OvershootInv'
      BY <2>1, OvershootFrame DEF RetrieveSessions, store
    <2>2. ASSUME NEW i \in Id, DeleteSession(c, i) PROVE OvershootInv'
      <3>1. /\ used' = used /\ info' = info /\ task[c].pc = "idle"
            /\ task'[c].pc # "update" /\ \A e \in Client \ {c} : task'[e] = task[e]
        BY <2>2 DEF DeleteSession, Idle, RaceInv, TypeOK
      <3> QED BY <3>1, OvershootFrame
    <2> QED BY <1>2, <2>1, <2>2, OvershootCreate, OvershootCheck DEF Request
  <1>3. ASSUME NEW c \in Client, Continue(c) PROVE OvershootInv'
    <2>1. CASE ExtendUpdate(c)
      BY <2>1, OvershootApply
    <2>2. CASE ~ExtendUpdate(c)
      <3>1. /\ used' = used /\ info' = info /\ task[c].pc # "update"
            /\ \/ task' = [task EXCEPT ![c].pc = "schedule"]
               \/ task' = [task EXCEPT ![c] = Idle]
        BY <1>3, <2>2 DEF Continue, StoreCredential, ScheduleAndReply, DeleteNotify, store
      <3>2. task'[c].pc # "update" /\ \A e \in Client \ {c} : task'[e] = task[e]
        BY <1>1, <3>1 DEF Idle, Task, RaceInv, TypeOK
      <3> QED BY <3>1, <3>2, OvershootFrame
    <2> QED BY <2>1, <2>2
  <1>4. ASSUME NEW i \in Id, TimerStep(i) PROVE OvershootInv'
    <2>1. used' = used /\ info' = info /\ task' = task
      BY <1>4 DEF TimerStep, TimerRead, TimerClock, TimerWake, TimerEvict, TimerNotify, store
    <2> QED BY <2>1, OvershootFrame
  <1>5. CASE (\E e \in inflight : Deliver(e) \/ Lose(e)) \/ Tick \/ UNCHANGED vars
    <2>1. used' = used /\ info' = info /\ task' = task
      BY <1>5 DEF Deliver, Lose, Tick, vars, store
    <2> QED BY <2>1, OvershootFrame
  <1> QED BY <1>2, <1>3, <1>4, <1>5 DEF Next

\* However many extends overtake each other, a session's duration exceeds the
\* ceiling by less than the ceiling for each connection beyond the first.
THEOREM OvershootLimited == Spec => []OvershootBounded
  <1>1. Init => OvershootInv
    BY DEF Init, Idle, OvershootInv, OvershootBounded
  <1>2. OvershootInv => OvershootBounded
    BY DEF OvershootInv
  <1> QED BY <1>1, <1>2, OvershootStep, RaceInvHolds, PTL DEF Spec

-----------------------------------------------------------------------------
\* Until a session is announced, whoever will announce it after the create
\* finished finds the credential in the side-store.
CredentialInv ==
    /\ TimerNoticeAuthenticated
    /\ \A c \in Client :
          /\ task[c].pc = "schedule"
          /\ task[c].id \in live \cap secured
          /\ info[task[c].id].sink # "none"
          => task[c].id \in creds
    /\ \A i \in Id :
          /\ timer[i].pc \notin {"none", "done"}
          /\ i \in secured
          /\ i \in live \/ timer[i].pc = "notify"
          => i \in creds

LEMMA CredentialRequest ==
  ASSUME CredentialInv, RaceInv, NEW c \in Client, Request(c)
  PROVE  CredentialInv'
  <1>1. ASSUME NEW i \in Id, NEW dev \in Device, NEW d \in Duration, NEW s \in Sink,
               NEW profile, NEW cred \in BOOLEAN,
               CreateSession(c, i, dev, d, s, profile, cred)
        PROVE  CredentialInv'
    <2>1. /\ i \notin used /\ live' = live \cup {i}
          /\ secured \subseteq secured' /\ secured' \subseteq secured \cup {i}
          /\ task' = [task EXCEPT ![c] = [pc |-> "credential", id |-> i, additional |-> 0]]
          /\ info' = [info EXCEPT ![i] = BuildSessionInfo(dev, d, s)]
          /\ creds' = creds /\ timer' = timer /\ events' = events
      BY <1>1 DEF CreateSession, outbox
    <2>2. TimerNoticeAuthenticated'
      BY <2>1 DEF CredentialInv, TimerNoticeAuthenticated, RaceInv, NoticeInv, NoticeMeansGone
    <2>3. timer[i].pc = "none"
      BY <2>1 DEF RaceInv, TimerInv
    <2>4. \A b \in Client : task'[b].pc = "schedule" => task'[b] = task[b] /\ task[b].id # i
      BY <2>1 DEF RaceInv, CreatorInv, TypeOK
    <2> QED BY <2>1, <2>2, <2>3, <2>4 DEF CredentialInv, RaceInv, TypeOK
  <1>2. ASSUME NEW i \in Id, DeleteSession(c, i)
        PROVE  CredentialInv'
    <2>1. /\ task[c].pc = "idle" /\ live' \subseteq live
          /\ task' = task \/ task' = [task EXCEPT ![c] = [pc |-> "notify", id |-> i, additional |-> 0]]
          /\ UNCHANGED <<secured, info, creds, timer, events>>
      BY <1>2 DEF DeleteSession, Idle, outbox
    <2> QED BY <2>1 DEF CredentialInv, TimerNoticeAuthenticated, RaceInv, TypeOK
  <1>3. ASSUME NEW i \in Id, NEW d \in Duration, ExtendCheck(c, i, d)
        PROVE  CredentialInv'
    <2>1. /\ task' = [task EXCEPT ![c] = [pc |-> "update", id |-> i, additional |-> d]]
          /\ UNCHANGED <<live, secured, info, creds, timer, events>>
      BY <1>3 DEF ExtendCheck, store, outbox
    <2> QED BY <2>1 DEF CredentialInv, TimerNoticeAuthenticated, RaceInv, TypeOK
  <1>4. ASSUME NEW dev \in Device, RetrieveSessions(c, dev)
        PROVE  CredentialInv'
    BY <1>4 DEF RetrieveSessions, CredentialInv, TimerNoticeAuthenticated, store, outbox
  <1> QED BY <1>1, <1>2, <1>3, <1>4 DEF Request

LEMMA CredentialContinue ==
  ASSUME CredentialInv, RaceInv, NEW c \in Client, Continue(c)
  PROVE  CredentialInv'
  <1>1. CASE StoreCredential(c)
    <2>1. /\ task[c].pc = "credential"
          /\ task' = [task EXCEPT ![c].pc = "schedule"]
          /\ creds \subseteq creds'
          /\ task[c].id \in secured /\ info[task[c].id].sink # "none" => task[c].id \in creds'
          /\ UNCHANGED <<live, secured, info, timer, events>>
      BY <1>1 DEF StoreCredential, store, outbox
    <2>2. \A b \in Client : task'[b].id = task[b].id /\ (b # c => task'[b] = task[b])
      BY <2>1 DEF RaceInv, TypeOK, Task
    <2> QED BY <2>1, <2>2 DEF CredentialInv, TimerNoticeAuthenticated
  <1>2. CASE ScheduleAndReply(c)
    <2> DEFINE i == task[c].id
    <2>1. /\ task[c].pc = "schedule" /\ task' = [task EXCEPT ![c] = Idle]
          /\ \A j \in Id \ {i} : timer'[j] = timer[j]
          /\ timer'[i].pc # "notify"
          /\ timer'[i].pc # "none" => Timed(i)
          /\ UNCHANGED <<live, secured, info, creds, events>>
      BY <1>2 DEF ScheduleAndReply, RaceInv, CreatorInv, TypeOK, store, outbox
    <2>2. \A b \in Client : task'[b].pc = "schedule" => task'[b] = task[b]
      BY <2>1 DEF RaceInv, TypeOK, Idle
    <2> QED BY <2>1, <2>2 DEF CredentialInv, TimerNoticeAuthenticated, Timed
  <1>3. CASE DeleteNotify(c)
    <2> DEFINE i == task[c].id
    <2>1. /\ task[c].pc = "notify" /\ task' = [task EXCEPT ![c] = Idle]
          /\ creds' = creds \ {i}
          /\ \E e : e.statusInfo = "DELETE_REQUESTED" /\ events' = events \cup {e}
          /\ UNCHANGED <<live, secured, info, timer>>
      BY <1>3 DEF DeleteNotify, SpawnNotice, store
    <2>2. i \notin live /\ timer[i].pc # "notify"
      BY <2>1 DEF RaceInv, DeleterInv, Owed
    <2>3. \A b \in Client : task'[b].pc = "schedule" => task'[b] = task[b]
      BY <2>1 DEF RaceInv, TypeOK, Idle
    <2>4. TimerNoticeAuthenticated'
      BY <2>1 DEF CredentialInv, TimerNoticeAuthenticated
    <2> QED BY <2>1, <2>2, <2>3, <2>4 DEF CredentialInv
  <1>4. CASE ExtendUpdate(c)
    <2>1. /\ task' = [task EXCEPT ![c] = Idle]
          /\ UNCHANGED <<live, secured, creds, timer, events>>
      BY <1>4 DEF ExtendUpdate, outbox
    <2>2. task[c].id \in Id
      BY <1>4 DEF ExtendUpdate, RaceInv, UpdaterInv, TypeOK
    <2>3. \A j \in Id : info'[j].sink = info[j].sink
      BY <1>4, <2>2 DEF ExtendUpdate, RaceInv, TypeOK, SessionInfo
    <2>4. \A b \in Client : task'[b].pc = "schedule" => task'[b] = task[b] /\ task[b].id \in Id
      BY <2>1 DEF RaceInv, CreatorInv, TypeOK, Idle
    <2> QED BY <2>1, <2>3, <2>4 DEF CredentialInv, TimerNoticeAuthenticated
  <1> QED BY <1>1, <1>2, <1>3, <1>4 DEF Continue

LEMMA CredentialTimer ==
  ASSUME CredentialInv, RaceInv, NEW i \in Id, TimerStep(i)
  PROVE  CredentialInv'
  <1>1. CASE TimerRead(i) \/ TimerClock(i) \/ TimerWake(i) \/ TimerEvict(i)
    <2>1. /\ \A j \in Id \ {i} : timer'[j] = timer[j]
          /\ timer[i].pc \notin {"none", "done", "notify"}
          /\ timer'[i].pc = "notify" => i \in live
          /\ live' \subseteq live
          /\ UNCHANGED <<secured, info, creds, task, events>>
      BY <1>1 DEF TimerRead, TimerClock, TimerWake, TimerEvict, RaceInv, TypeOK, store, outbox
    <2> QED BY <2>1 DEF CredentialInv, TimerNoticeAuthenticated
  <1>2. CASE TimerNotify(i)
    <2>1. /\ timer[i].pc = "notify" /\ creds' = creds \ {i}
          /\ timer' = [timer EXCEPT ![i] = [pc |-> "done", at |-> 0]]
          /\ UNCHANGED <<live, secured, info, task>>
      BY <1>2 DEF TimerNotify, SpawnNotice, store
    <2> DEFINE e == [no |-> Cardinality(events) + 1, sessionId |-> i,
                     statusInfo |-> IF Plane[info[i].device] = "terminated"
                                    THEN "NETWORK_TERMINATED" ELSE "DURATION_EXPIRED",
                     auth |-> i \in creds]
    <2>2. e.sessionId = i /\ (e.auth <=> i \in creds) /\ events' = events \cup {e}
      BY <1>2 DEF TimerNotify, SpawnNotice
    <2> HIDE DEF e
    <2>3. i \in creds <=> i \in secured
      BY <2>1 DEF CredentialInv, RaceInv, TypeOK
    <2>4. TimerNoticeAuthenticated'
      BY <2>1, <2>2, <2>3 DEF CredentialInv, TimerNoticeAuthenticated
    <2>5. i \notin live
      BY <2>1 DEF RaceInv, TimerInv, Owed
    <2> QED BY <2>1, <2>4, <2>5 DEF CredentialInv, RaceInv, TypeOK
  <1> QED BY <1>1, <1>2 DEF TimerStep

\* A notice a timer fires carries the credential exactly when the create request
\* brought one.  (A delete has no such guarantee: see CredentialDropped.)
THEOREM TimersAuthenticate == Spec => []TimerNoticeAuthenticated
  <1>1. Init => CredentialInv
    BY DEF Init, CredentialInv, TimerNoticeAuthenticated, Idle
  <1>2. CredentialInv /\ RaceInv /\ [Next]_vars => CredentialInv'
    <2> SUFFICES ASSUME CredentialInv, RaceInv, [Next]_vars PROVE CredentialInv'
      OBVIOUS
    <2>1. CASE (\E e \in inflight : Deliver(e) \/ Lose(e)) \/ Tick \/ UNCHANGED vars
      BY <2>1 DEF Deliver, Lose, Tick, vars, store, outbox, CredentialInv,
                  TimerNoticeAuthenticated
    <2> QED BY <2>1, CredentialRequest, CredentialContinue, CredentialTimer DEF Next
  <1>3. CredentialInv => TimerNoticeAuthenticated
    BY DEF CredentialInv
  <1> QED BY <1>1, <1>2, <1>3, RaceInvHolds, PTL DEF Spec

-----------------------------------------------------------------------------
(* Refinement of SessionLifecycle *)

\* The abstract state only depends on the store's keys, the sinks and the events.
LEMMA AbstractStutter ==
  ASSUME RaceInv, UNCHANGED <<live, used, events>>,
         \A i \in used : info'[i].sink = info[i].sink
  PROVE  UNCHANGED Lifecycle!vars
  <1>1. \A i \in Id : Phase(i)' = Phase(i)
    BY DEF Phase, Announced
  <1> QED BY <1>1 DEF Lifecycle!vars

LEMMA AbstractBegin ==
  ASSUME RaceInv, NEW i \in Id \ used,
         live' = live \cup {i}, used' = used \cup {i}, events' = events,
         \A j \in used : info'[j].sink = info[j].sink
  PROVE  Lifecycle!Begin(i)
  <1>1. Phase(i) = "absent" /\ Phase(i)' = "live"
    BY DEF Phase
  <1>2. \A j \in Id \ {i} : Phase(j)' = Phase(j)
    BY DEF Phase, Announced
  <1> QED BY <1>1, <1>2 DEF Lifecycle!Begin

LEMMA AbstractEnd ==
  ASSUME RaceInv, NEW i \in live, live' = live \ {i}, UNCHANGED <<info, used, events>>
  PROVE  i \in Id /\ Lifecycle!End(i)
  <1>1. i \in used /\ i \in Id
    BY DEF RaceInv, TypeOK
  <1>2. ~Announced(i)
    BY DEF RaceInv, NoticeInv, NoticeMeansGone, Announced
  <1>3. Phase(i) = "live" /\ Phase(i)' \in {"ending", "silent"}
    BY <1>1, <1>2 DEF Phase, Announced
  <1>4. \A j \in Id \ {i} : Phase(j)' = Phase(j)
    BY DEF Phase, Announced
  <1>5. [j \in Id |-> Phase(j)]' = [[j \in Id |-> Phase(j)] EXCEPT ![i] = Phase(i)']
    BY <1>1, <1>4
  <1> QED BY <1>1, <1>3, <1>5 DEF Lifecycle!End

LEMMA AbstractAnnounce ==
  ASSUME RaceInv, NEW i \in Id, Owed(i), NEW reason, SpawnNotice(i, reason),
         UNCHANGED <<live, info, used>>
  PROVE  Lifecycle!Announce(i)
  <1> DEFINE e == [no |-> Cardinality(events) + 1, sessionId |-> i,
                   statusInfo |-> reason, auth |-> i \in creds]
             n == <<e.no, i>>
             told(E) == {<<f.no, f.sessionId>> : f \in E}
  <1>1. e.sessionId = i /\ events' = events \cup {e}
    BY DEF SpawnNotice
  <1> HIDE DEF e
  <1>2. Phase(i) = "ending"
    BY DEF Owed, Phase
  <1>3. Phase(i)' = "announced"
    BY <1>1 DEF Owed, Phase, Announced
  <1>4. \A j \in Id \ {i} : Phase(j)' = Phase(j)
    BY <1>1 DEF Phase, Announced
  <1>5. told(events)' = told(events) \cup {n}
    BY <1>1
  <1>6. n \notin told(events)
    BY <1>1 DEF Owed, Announced
  <1>7. n[2] = i
    OBVIOUS
  <1>8. \E m \in told(events)' \ told(events) :
           m[2] = i /\ told(events)' = told(events) \cup {m}
    BY <1>5, <1>6, <1>7
  <1> QED BY <1>2, <1>3, <1>4, <1>8 DEF Lifecycle!Announce

LEMMA AbstractStep == RaceInv /\ [Next]_vars => [Lifecycle!Next]_Lifecycle!vars
  <1> SUFFICES ASSUME RaceInv, [Next]_vars PROVE [Lifecycle!Next]_Lifecycle!vars
    OBVIOUS
  <1>1. ASSUME NEW c \in Client, Request(c) PROVE [Lifecycle!Next]_Lifecycle!vars
    <2>1. ASSUME NEW i \in Id, NEW dev \in Device, NEW d \in Duration, NEW s \in Sink,
                 NEW profile, NEW cred, CreateSession(c, i, dev, d, s, profile, cred)
          PROVE  Lifecycle!Begin(i)
      <3>1. /\ i \in Id \ used /\ live' = live \cup {i} /\ used' = used \cup {i}
            /\ events' = events /\ \A j \in used : info'[j] = info[j]
        BY <2>1 DEF CreateSession, RaceInv, TypeOK, outbox
      <3> QED BY <3>1, AbstractBegin
    <2>2. ASSUME NEW i \in Id, DeleteSession(c, i)
          PROVE  i \in Id /\ Lifecycle!End(i)
      BY <2>2, AbstractEnd DEF DeleteSession, outbox
    <2>3. ASSUME \/ \E dev \in Device : RetrieveSessions(c, dev)
                 \/ \E i \in Id, d \in Duration : ExtendCheck(c, i, d)
          PROVE  UNCHANGED Lifecycle!vars
      BY <2>3, AbstractStutter DEF RetrieveSessions, ExtendCheck, store, outbox
    <2> QED BY <1>1, <2>1, <2>2, <2>3 DEF Request, Lifecycle!Next
  <1>2. ASSUME NEW c \in Client, Continue(c) PROVE [Lifecycle!Next]_Lifecycle!vars
    <2>1. CASE StoreCredential(c) \/ ScheduleAndReply(c)
      BY <2>1, AbstractStutter DEF StoreCredential, ScheduleAndReply, store, outbox
    <2>2. CASE ExtendUpdate(c)
      <3>1. task[c].id \in Id
        BY <2>2 DEF ExtendUpdate, RaceInv, UpdaterInv, TypeOK
      <3>2. \A j \in used : info'[j].sink = info[j].sink
        BY <2>2, <3>1 DEF ExtendUpdate, RaceInv, TypeOK, SessionInfo
      <3> QED BY <2>2, <3>2, AbstractStutter DEF ExtendUpdate, outbox
    <2>3. CASE DeleteNotify(c)
      <3>1. PICK i \in Id : i = task[c].id /\ Owed(i)
        BY <2>3 DEF DeleteNotify, RaceInv, DeleterInv, TypeOK, Owed
      <3>2. SpawnNotice(i, "DELETE_REQUESTED") /\ UNCHANGED <<live, info, used>>
        BY <2>3, <3>1 DEF DeleteNotify, store
      <3>3. Lifecycle!Announce(i)
        BY <3>1, <3>2, AbstractAnnounce
      <3> QED BY <3>3 DEF Lifecycle!Next
    <2> QED BY <1>2, <2>1, <2>2, <2>3 DEF Continue
  <1>3. ASSUME NEW i \in Id, TimerStep(i) PROVE [Lifecycle!Next]_Lifecycle!vars
    <2>1. CASE TimerRead(i) \/ TimerClock(i) \/ TimerWake(i)
      BY <2>1, AbstractStutter DEF TimerRead, TimerClock, TimerWake, store, outbox
    <2>2. CASE TimerEvict(i) /\ i \in live
      BY <2>2, AbstractEnd DEF TimerEvict, outbox, Lifecycle!Next
    <2>3. CASE TimerEvict(i) /\ i \notin live
      BY <2>3, AbstractStutter, live \ {i} = live DEF TimerEvict, outbox
    <2>4. CASE TimerNotify(i)
      <3>1. Owed(i)
        BY <2>4 DEF TimerNotify, RaceInv, TimerInv
      <3>2. Lifecycle!Announce(i)
        BY <2>4, <3>1, AbstractAnnounce DEF TimerNotify, store
      <3> QED BY <3>2 DEF Lifecycle!Next
    <2> QED BY <1>3, <2>1, <2>2, <2>3, <2>4 DEF TimerStep
  <1>4. CASE (\E e \in inflight : Deliver(e) \/ Lose(e)) \/ Tick \/ UNCHANGED vars
    BY <1>4, AbstractStutter DEF Deliver, Lose, Tick, vars, store, outbox
  <1> QED BY <1>1, <1>2, <1>3, <1>4 DEF Next

\* The handlers and the timers together implement the session lifecycle: one
\* beginning, one end, one notice, in that order, for every id.
THEOREM LifecycleImplemented == Spec => ImplementsLifecycle
  <1>1. Init => Lifecycle!Init
    <2> SUFFICES ASSUME Init PROVE Lifecycle!Init
      OBVIOUS
    <2>1. \A i \in Id : Phase(i) = "absent"
      BY DEF Init, Phase
    <2> QED BY <2>1 DEF Init, Lifecycle!Init
  <1> QED BY <1>1, AbstractStep, RaceInvHolds, PTL DEF Spec, ImplementsLifecycle, Lifecycle!Spec

-----------------------------------------------------------------------------
(* Where the ceiling does hold *)

\* No session has two extensions that were checked and not applied.
OneExtender ==
    \A c, d \in Client :
       task[c].pc = "update" /\ task[d].pc = "update" /\ task[c].id = task[d].id => c = d

\* What was checked is still true when it is applied.
SoloInv ==
    /\ \A i \in used : info[i].duration <= MaxDuration
    /\ \A c \in Client : task[c].pc = "update" =>
          info[task[c].id].duration + task[c].additional <= MaxDuration

LEMMA SoloFrame ==
  ASSUME RaceInv, SoloInv, used' = used, \A i \in used : info'[i] = info[i],
         \A c \in Client : task'[c].pc = "update" => task'[c] = task[c]
  PROVE  SoloInv'
  BY DEF SoloInv, RaceInv, UpdaterInv

LEMMA SoloCreate ==
  ASSUME RaceInv, SoloInv, NEW c \in Client, NEW i \in Id, NEW dev \in Device,
         NEW d \in Duration, NEW s \in Sink, NEW profile, NEW cred,
         CreateSession(c, i, dev, d, s, profile, cred)
  PROVE  SoloInv'
  <1>1. /\ i \in Id \ used /\ used' = used \cup {i} /\ d \in 1..MaxDuration
        /\ info' = [info EXCEPT ![i] = BuildSessionInfo(dev, d, s)]
        /\ task' = [task EXCEPT ![c] = [pc |-> "credential", id |-> i, additional |-> 0]]
    BY DEF CreateSession, CreateAccepted
  <1>2. info'[i].duration = d /\ \A j \in used : info'[j] = info[j]
    BY <1>1 DEF RaceInv, TypeOK, BuildSessionInfo
  <1>3. \A e \in Client : task'[e].pc = "update" => task'[e] = task[e] /\ task[e].id \in used
    BY <1>1 DEF RaceInv, TypeOK, UpdaterInv
  <1>4. d <= MaxDuration
    BY <1>1, ConstantsAssumption
  <1> QED BY <1>1, <1>2, <1>3, <1>4 DEF SoloInv

LEMMA SoloCheck ==
  ASSUME RaceInv, SoloInv, NEW c \in Client, NEW i \in Id, NEW d \in Duration,
         ExtendCheck(c, i, d)
  PROVE  SoloInv'
  <1>1. /\ info[i].duration + d <= MaxDuration
        /\ task' = [task EXCEPT ![c] = [pc |-> "update", id |-> i, additional |-> d]]
        /\ used' = used /\ info' = info
    BY DEF ExtendCheck, ExtendAccepted, store
  <1>2. /\ task'[c].id = i /\ task'[c].additional = d
        /\ \A e \in Client \ {c} : task'[e] = task[e]
    BY <1>1 DEF RaceInv, TypeOK
  <1> QED BY <1>1, <1>2 DEF SoloInv

\* What an extension does to the values under the minted keys.
LEMMA ExtendEffect ==
  ASSUME RaceInv, NEW c \in Client, ExtendUpdate(c)
  PROVE  /\ task[c].pc = "update" /\ task[c].id \in used /\ used' = used /\ live' = live
         /\ task'[c].pc = "idle" /\ \A e \in Client \ {c} : task'[e] = task[e]
         /\ \A j \in used \ {task[c].id} : info'[j] = info[j]
         /\ task[c].id \notin live => info' = info
         /\ \A j \in Id : /\ info'[j].sink = info[j].sink
                          /\ info'[j].device = info[j].device
                          /\ info'[j].qosStatus = info[j].qosStatus
         /\ task[c].id \in live =>
               info'[task[c].id].duration = info[task[c].id].duration + task[c].additional
         /\ \A j \in Id : info'[j].expiresAt >= info[j].expiresAt
  <1> DEFINE i == task[c].id
             a == task[c].additional
  <1>1. task[c].pc = "update" /\ i \in used /\ i \in Id /\ a \in Nat
    BY DEF ExtendUpdate, RaceInv, UpdaterInv, TypeOK, Task
  <1>2. task' = [task EXCEPT ![c] = Idle] /\ used' = used /\ live' = live
    BY DEF ExtendUpdate
  <1>3. task'[c].pc = "idle" /\ \A e \in Client \ {c} : task'[e] = task[e]
    BY <1>2 DEF RaceInv, TypeOK, Idle
  <1>4. info \in [Id -> SessionInfo] /\ info[i] \in SessionInfo
    BY <1>1 DEF RaceInv, TypeOK
  <1>5. \A j \in Id : info[j].expiresAt \in Nat
    BY <1>4 DEF SessionInfo
  <1>6. CASE i \notin live
    <2>1. info' = info
      BY <1>6 DEF ExtendUpdate
    <2> QED BY <1>1, <1>2, <1>3, <1>5, <1>6, <2>1
  <1>7. CASE i \in live
    <2>1. info' = [info EXCEPT ![i].duration = @ + a,
                               ![i].expiresAt = IF Available(i) THEN @ + a ELSE @]
      BY <1>7 DEF ExtendUpdate
    <2>2. /\ info'[i].sink = info[i].sink
          /\ info'[i].device = info[i].device
          /\ info'[i].qosStatus = info[i].qosStatus
          /\ info'[i].duration = info[i].duration + a
          /\ info'[i].expiresAt \in {info[i].expiresAt, info[i].expiresAt + a}
          /\ \A j \in Id \ {i} : info'[j] = info[j]
      BY <1>4, <1>1, <2>1 DEF SessionInfo
    <2>3. \A j \in Id : info'[j].expiresAt >= info[j].expiresAt
      BY <1>1, <1>5, <2>2
    <2>4. used \subseteq Id
      BY DEF RaceInv, TypeOK
    <2> QED BY <1>1, <1>2, <1>3, <1>7, <2>2, <2>3, <2>4
  <1> QED BY <1>6, <1>7

LEMMA SoloApply ==
  ASSUME RaceInv, SoloInv, OneExtender, NEW c \in Client, ExtendUpdate(c)
  PROVE  SoloInv'
  <1> DEFINE i == task[c].id
  <1>1. \A e \in Client : task'[e].pc = "update" =>
           task'[e] = task[e] /\ task[e].id \in used \ {i}
    BY ExtendEffect DEF OneExtender, RaceInv, UpdaterInv
  <1>2. info'[i].duration <= MaxDuration
    BY ExtendEffect DEF SoloInv
  <1>3. \A j \in used : info'[j].duration <= MaxDuration
    BY <1>2, ExtendEffect DEF SoloInv
  <1> QED BY <1>1, <1>3, ExtendEffect DEF SoloInv

LEMMA SoloStep == RaceInv /\ SoloInv /\ OneExtender /\ [Next]_vars => SoloInv'
  <1> SUFFICES ASSUME RaceInv, SoloInv, OneExtender, [Next]_vars PROVE SoloInv'
    OBVIOUS
  <1>1. ASSUME NEW c \in Client, Request(c) PROVE SoloInv'
    <2>1. ASSUME NEW dev \in Device, RetrieveSessions(c, dev) PROVE SoloInv'
      BY <2>1, SoloFrame DEF RetrieveSessions, store
    <2>2. ASSUME NEW i \in Id, DeleteSession(c, i) PROVE SoloInv'
      <3>1. /\ used' = used /\ info' = info
            /\ \A e \in Client : task'[e].pc = "update" => task'[e] = task[e]
        BY <2>2 DEF DeleteSession, RaceInv, TypeOK
      <3> QED BY <3>1, SoloFrame
    <2> QED BY <1>1, <2>1, <2>2, SoloCreate, SoloCheck DEF Request
  <1>2. ASSUME NEW c \in Client, Continue(c) PROVE SoloInv'
    <2>1. CASE ExtendUpdate(c)
      BY <2>1, SoloApply
    <2>2. CASE ~ExtendUpdate(c)
      <3>1. /\ used' = used /\ info' = info
            /\ \/ task' = [task EXCEPT ![c].pc = "schedule"]
               \/ task' = [task EXCEPT ![c] = Idle]
        BY <1>2, <2>2 DEF Continue, StoreCredential, ScheduleAndReply, DeleteNotify, store
      <3>2. \A e \in Client : task'[e].pc = "update" => task'[e] = task[e]
        BY <3>1 DEF RaceInv, TypeOK, Task, Idle
      <3> QED BY <3>1, <3>2, SoloFrame
    <2> QED BY <2>1, <2>2
  <1>3. CASE \/ \E i \in Id : TimerStep(i)
             \/ \E e \in inflight : Deliver(e) \/ Lose(e)
             \/ Tick \/ UNCHANGED vars
    <2>1. used' = used /\ info' = info /\ task' = task
      BY <1>3 DEF TimerStep, TimerRead, TimerClock, TimerWake, TimerEvict, TimerNotify,
                  Deliver, Lose, Tick, vars, store
    <2> QED BY <2>1, SoloFrame
  <1> QED BY <1>1, <1>2, <1>3 DEF Next

\* The ceiling of DurationWithinCeiling is exceeded by overtaking alone: in a
\* behaviour where no session ever has two extensions between check and update
\* - all there are, if there is one connection - it holds.
THEOREM CeilingKeptUnlessOvertaken == Spec /\ []OneExtender => []DurationWithinCeiling
  <1>1. Init => SoloInv
    BY DEF Init, Idle, SoloInv
  <1>2. SoloInv /\ RaceInv => DurationWithinCeiling
    BY DEF SoloInv, DurationWithinCeiling, RaceInv, TypeOK
  <1> QED BY <1>1, <1>2, SoloStep, RaceInvHolds, PTL DEF Spec

-----------------------------------------------------------------------------
(* Where an extension is honoured *)

\* An extension is applied to a session whose timer has read the expiry and has
\* not slept on it again or removed the session yet.
LateExtend ==
    \E c \in Client : /\ ExtendUpdate(c)
                      /\ task[c].id \in live
                      /\ timer[task[c].id].pc \in {"clock", "evict"}

\* What an expiry timer has read is still what is stored, until it acts on it.
HonourInv ==
    \A i \in Id : Plane[info[i].device] # "terminated" =>
       /\ timer[i].pc = "clock" => timer[i].at = info[i].expiresAt
       /\ timer[i].pc = "evict" => now >= info[i].expiresAt

\* The values of the sessions that have a timer change by an extend only.
LEMMA TimedInfoStep ==
  ASSUME RaceInv, [Next]_vars, ~\E c \in Client : ExtendUpdate(c)
  PROVE  \A i \in Id : timer[i].pc # "none" => info'[i] = info[i]
  BY InfoStep DEF RaceInv, TimerInv

\* A request or the rest of one moves a timer only to start it.
LEMMA TimerFrame ==
  ASSUME RaceInv,
         \/ \E c \in Client : Request(c) \/ Continue(c)
         \/ \E e \in inflight : Deliver(e) \/ Lose(e)
         \/ Tick \/ UNCHANGED vars
  PROVE  \/ timer' = timer
         \/ \E c \in Client : ScheduleAndReply(c)
  <1>1. CASE \E c \in Client : Request(c)
    BY <1>1 DEF Request, CreateSession, RetrieveSessions, DeleteSession, ExtendCheck
  <1>2. CASE \E c \in Client : Continue(c)
    BY <1>2 DEF Continue, StoreCredential, DeleteNotify, ExtendUpdate
  <1>3. CASE (\E e \in inflight : Deliver(e) \/ Lose(e)) \/ Tick \/ UNCHANGED vars
    BY <1>3 DEF Deliver, Lose, Tick, vars
  <1> QED BY <1>1, <1>2, <1>3

\* Only a create adds a key to the store, the one its connection goes on with.
LEMMA LiveStep ==
  ASSUME RaceInv, [Next]_vars, NEW i \in live' \ live
  PROVE  \E c \in Client : task'[c].pc = "credential" /\ task'[c].id = i
  <1>1. CASE \E c \in Client : Request(c)
    <2>1. PICK c \in Client, j \in Id, dev \in Device, d \in Duration, s \in Sink,
               profile \in {"standard", "unavailable"}, cred \in BOOLEAN :
               CreateSession(c, j, dev, d, s, profile, cred)
      BY <1>1 DEF Request, RetrieveSessions, DeleteSession, ExtendCheck, store
    <2>2. /\ live' = live \cup {j}
          /\ task' = [task EXCEPT ![c] = [pc |-> "credential", id |-> j, additional |-> 0]]
      BY <2>1 DEF CreateSession
    <2>3. i = j /\ task'[c] = [pc |-> "credential", id |-> j, additional |-> 0]
      BY <2>2 DEF RaceInv, TypeOK
    <2> QED BY <2>3
  <1>2. CASE \E c \in Client : Continue(c)
    BY <1>2 DEF Continue, StoreCredential, ScheduleAndReply, DeleteNotify, ExtendUpdate, store
  <1>3. CASE \E j \in Id : TimerStep(j)
    BY <1>3 DEF TimerStep, TimerRead, TimerClock, TimerWake, TimerEvict, TimerNotify, store
  <1>4. CASE (\E e \in inflight : Deliver(e) \/ Lose(e)) \/ Tick \/ UNCHANGED vars
    BY <1>4 DEF Deliver, Lose, Tick, vars, store
  <1> QED BY <1>1, <1>2, <1>3, <1>4 DEF Next

\* ScheduleAndReply, as far as the timers go.
LEMMA ScheduleEffect ==
  ASSUME RaceInv, NEW c \in Client, ScheduleAndReply(c)
  PROVE  /\ task[c].pc = "schedule" /\ task[c].id \in used
         /\ timer[task[c].id].pc = "none"
         /\ \A j \in Id \ {task[c].id} : timer'[j] = timer[j]
         /\ Timed(task[c].id) =>
               timer'[task[c].id] =
                  IF Plane[info[task[c].id].device] = "terminated"
                  THEN [pc |-> "sleep", at |-> now + Grace]
                  ELSE [pc |-> "read", at |-> 0]
         /\ ~Timed(task[c].id) => timer' = timer
         /\ task' = [task EXCEPT ![c] = Idle]
         /\ UNCHANGED <<live, info, used, creds, secured, events, now>>
  <1>1. task[c].id \in used /\ task[c].id \in Id /\ timer[task[c].id].pc = "none"
    BY DEF ScheduleAndReply, RaceInv, CreatorInv, TypeOK
  <1> QED BY <1>1 DEF ScheduleAndReply, RaceInv, TypeOK, store, outbox

\* now never goes back.
LEMMA ClockStep == ASSUME RaceInv, [Next]_vars PROVE now' = now \/ now' = now + 1
  <1>1. CASE \E c \in Client : Request(c) \/ Continue(c)
    BY <1>1 DEF Request, CreateSession, RetrieveSessions, DeleteSession, ExtendCheck,
                Continue, StoreCredential, ScheduleAndReply, DeleteNotify, ExtendUpdate
  <1>2. CASE \E i \in Id : TimerStep(i)
    BY <1>2 DEF TimerStep, TimerRead, TimerClock, TimerWake, TimerEvict, TimerNotify
  <1>3. CASE (\E e \in inflight : Deliver(e) \/ Lose(e)) \/ Tick \/ UNCHANGED vars
    BY <1>3 DEF Deliver, Lose, Tick, vars
  <1> QED BY <1>1, <1>2, <1>3 DEF Next

\* What one step of timer i does to it.
LEMMA TimerEffect ==
  ASSUME RaceInv, NEW i \in Id, TimerStep(i)
  PROVE  /\ info' = info /\ now' = now /\ task' = task /\ used' = used
         /\ \A j \in Id \ {i} : timer'[j] = timer[j]
         /\ timer'[i].pc = "clock" =>
               timer[i].pc = "read" /\ timer'[i].at = info[i].expiresAt
         /\ timer'[i].pc = "sleep" =>
               timer[i].pc = "clock" /\ timer'[i].at = timer[i].at
         /\ timer'[i].pc = "evict" =>
               \/ timer[i].pc = "clock" /\ now >= timer[i].at
               \/ timer[i].pc = "sleep" /\ Plane[info[i].device] = "terminated"
         /\ timer'[i].pc \in {"read", "evict"} => timer'[i].at = 0
         /\ timer[i].pc = "evict" => live' = live \ {i}
         /\ timer[i].pc # "evict" => live' = live
         /\ timer'[i].pc \in {"none", "done", "notify"} => i \notin live' \/ ~Available(i)
  <1>1. timer[i] \in Timer /\ info[i] \in SessionInfo /\ now \in Nat
    BY DEF RaceInv, TypeOK
  <1>2. timer[i].at \in Nat
    BY <1>1 DEF Timer
  <1>3. CASE TimerRead(i)
    BY <1>3 DEF TimerRead, RaceInv, TypeOK, store
  <1>4. CASE TimerClock(i)
    BY <1>2, <1>3, <1>1, <1>4 DEF TimerClock, RaceInv, TypeOK, store
  <1>5. CASE TimerWake(i)
    BY <1>5 DEF TimerWake, RaceInv, TypeOK, store
  <1>6. CASE TimerEvict(i)
    BY <1>6 DEF TimerEvict, RaceInv, TypeOK
  <1>7. CASE TimerNotify(i)
    <2>1. i \notin live
      BY <1>7 DEF TimerNotify, RaceInv, TimerInv, Owed
    <2> QED BY <1>7, <2>1 DEF TimerNotify, RaceInv, TypeOK, store
  <1> QED BY <1>3, <1>4, <1>5, <1>6, <1>7 DEF TimerStep

LEMMA HonourStep == RaceInv /\ HonourInv /\ [Next /\ ~LateExtend]_vars => HonourInv'
  <1> SUFFICES ASSUME RaceInv, HonourInv, [Next]_vars, ~LateExtend \/ UNCHANGED vars
               PROVE  HonourInv'
    OBVIOUS
  <1>1. CASE \E i \in Id : TimerStep(i)
    BY <1>1, TimerEffect DEF HonourInv
  <1>2. CASE \E c \in Client : ExtendUpdate(c)
    <2>1. PICK c \in Client : ExtendUpdate(c)
      BY <1>2
    <2>2. timer' = timer /\ now' = now /\ used \subseteq Id
      BY <2>1 DEF ExtendUpdate, RaceInv, TypeOK
    <2>3. \A j \in Id : info'[j].device = info[j].device
      BY <2>1, ExtendEffect
    <2>4. CASE UNCHANGED vars
      BY <2>4 DEF vars, HonourInv
    <2>5. CASE ~LateExtend
      <3>1. \A j \in Id : timer[j].pc \in {"clock", "evict"} => info'[j] = info[j]
        BY <2>1, <2>5, ExtendEffect DEF LateExtend, RaceInv, TimerInv
      <3> QED BY <2>2, <2>3, <3>1 DEF HonourInv
    <2> QED BY <2>4, <2>5
  <1>3. CASE /\ ~\E i \in Id : TimerStep(i)
             /\ ~\E c \in Client : ExtendUpdate(c)
    <2>1. \A i \in Id : timer[i].pc # "none" => info'[i] = info[i]
      BY <1>3, TimedInfoStep
    <2>2. now' >= now
      BY ClockStep DEF RaceInv, TypeOK
    <2>3. \A i \in Id : timer'[i].pc \in {"clock", "evict"} => timer'[i] = timer[i]
      <3>1. timer' = timer \/ \E c \in Client : ScheduleAndReply(c)
        BY <1>3, TimerFrame DEF Next
      <3>2. CASE timer' = timer
        BY <3>2
      <3>3. CASE \E c \in Client : ScheduleAndReply(c)
        BY <3>3, ScheduleEffect DEF RaceInv, TypeOK
      <3> QED BY <3>1, <3>2, <3>3
    <2>4. \A i \in Id : info[i].expiresAt \in Nat /\ now \in Nat /\ now' \in Nat
      BY ClockStep DEF RaceInv, TypeOK, SessionInfo
    <2> QED BY <2>1, <2>2, <2>3, <2>4 DEF HonourInv
  <1> QED BY <1>1, <1>2, <1>3

\* The only extension a timer may not honour is one applied in the window between
\* its read of the expiry and the removal: in a behaviour without such a step
\* (LateExtend) no expiry timer ever ends a session before its stored expiry,
\* however many extends race with it before and after.
THEOREM HonouredUnlessLate == Spec /\ [][~LateExtend]_vars => ExtensionHonoured
  <1>1. Init => HonourInv
    BY DEF Init, HonourInv
  <1>2. RaceInv /\ HonourInv /\ [Next]_vars
          => [\A i \in live \ live' :
                 (timer[i].pc = "evict" /\ timer'[i].pc = "notify"
                    /\ Plane[info[i].device] # "terminated")
                 => now >= info[i].expiresAt]_vars
    BY DEF HonourInv, RaceInv, TypeOK
  <1>3. RaceInv /\ HonourInv /\ [Next]_vars /\ [~LateExtend]_vars => HonourInv'
    BY HonourStep
  <1> QED BY <1>1, <1>2, <1>3, RaceInvHolds, PTL DEF Spec, ExtensionHonoured

-----------------------------------------------------------------------------
(* The end of a timed session is in sight: what TimedSessionsEnd rests on *)

Creating(i) == \E c \in Client : task[c].pc \in {"credential", "schedule"} /\ task[c].id = i

\* The instant the timer of session i wakes up at the latest.
Deadline(i) ==
    IF Plane[info[i].device] = "terminated" THEN now + Grace ELSE info[i].expiresAt

Watched(i) ==
    \/ Creating(i)
    \/ timer[i].pc \in {"read", "clock", "sleep", "evict"} /\ timer[i].at <= Deadline(i)

WatchInv ==
    /\ \A i \in live : Timed(i) => Watched(i)
    /\ \A i \in Id : Plane[info[i].device] = "terminated" => timer[i].pc \notin {"read", "clock"}

\* A grace counted from a later instant ends later.
LEMMA GraceMovesOut ==
  ASSUME NEW m \in Nat, NEW n \in Nat, n >= m, NEW g \in Nat
  PROVE  m + g \in Nat /\ n + g \in Nat /\ n + g >= m + g
  OBVIOUS

\* A live session keeps its device and sink, and its deadline only moves out.
LEMMA DeadlineStep ==
  ASSUME RaceInv, [Next]_vars, NEW i \in used
  PROVE  /\ info'[i].device = info[i].device /\ (Timed(i)' <=> Timed(i))
         /\ Deadline(i) \in Nat /\ Deadline(i)' \in Nat /\ Deadline(i)' >= Deadline(i)
  <1>1. RaceInv'
    BY RaceInvStep
  <1>2. /\ i \in Id /\ now \in Nat /\ now' \in Nat /\ Grace \in Nat
        /\ info[i].expiresAt \in Nat /\ info'[i].expiresAt \in Nat
    BY <1>1, ConstantsAssumption DEF RaceInv, TypeOK, SessionInfo
  <1>3. /\ info'[i].device = info[i].device /\ (Timed(i)' <=> Timed(i))
        /\ info'[i].expiresAt >= info[i].expiresAt
    <2>1. CASE info'[i] = info[i]
      BY <1>2, <2>1 DEF Timed, Available
    <2>2. CASE \E c \in Client : ExtendUpdate(c)
      BY <1>2, <2>2, ExtendEffect DEF Timed, Available
    <2> QED BY <2>1, <2>2, InfoStep
  <1>4. now' >= now
    BY <1>2, ClockStep
  <1>5. Plane[info'[i].device] = Plane[info[i].device]
    BY <1>3
  <1>6. Deadline(i) \in Nat /\ Deadline(i)' \in Nat /\ Deadline(i)' >= Deadline(i)
    <2>1. CASE Plane[info[i].device] = "terminated"
      <3>1. Deadline(i) = now + Grace
        BY <2>1 DEF Deadline
      <3>2. Deadline(i)' = now' + Grace
        BY <1>5, <2>1 DEF Deadline
      <3>3. now + Grace \in Nat /\ now' + Grace \in Nat /\ now' + Grace >= now + Grace
        BY <1>2, <1>4, GraceMovesOut, Zenon
      <3> QED BY <3>1, <3>2, <3>3, Zenon
    <2>2. CASE Plane[info[i].device] # "terminated"
      <3>1. Deadline(i) = info[i].expiresAt
        BY <2>2 DEF Deadline
      <3>2. Deadline(i)' = info'[i].expiresAt
        BY <1>5, <2>2 DEF Deadline
      <3> QED BY <1>2, <1>3, <3>1, <3>2
    <2> QED BY <2>1, <2>2
  <1> QED BY <1>3, <1>6

LEMMA WatchTimer ==
  ASSUME RaceInv, WatchInv, NEW j \in Id, TimerStep(j)
  PROVE  WatchInv'
  <1>1. /\ \A i \in Id : timer'[i].pc \in {"read", "clock"} /\ timer'[i] # timer[i] =>
                           Plane[info[i].device] # "terminated"
    <2>1. timer'[j].pc = "read" => Plane[info[j].device] # "terminated"
      BY DEF TimerStep, TimerRead, TimerClock, TimerWake, TimerEvict, TimerNotify, RaceInv, TypeOK
    <2>2. timer'[j].pc = "clock" => timer[j].pc = "read"
      BY TimerEffect
    <2> QED BY <2>1, <2>2, TimerEffect DEF WatchInv
  <1>2. \A i \in Id : Plane[info'[i].device] = "terminated" => timer'[i].pc \notin {"read", "clock"}
    BY <1>1, TimerEffect DEF WatchInv
  <1>3. ASSUME NEW i \in live', Timed(i)' PROVE Watched(i)'
    <2>1. i \in live /\ i \in used /\ i \in Id
      BY TimerEffect DEF RaceInv, TypeOK
    <2>2. /\ Timed(i) /\ Deadline(i) \in Nat /\ Deadline(i)' \in Nat
          /\ Deadline(i)' = Deadline(i)
      BY <1>3, <2>1, DeadlineStep, TimerEffect DEF Next, Deadline
    <2>3. Watched(i)
      BY <2>1, <2>2 DEF WatchInv
    <2>4. CASE Creating(i)
      BY <2>4, TimerEffect DEF Watched, Creating
    <2>5. CASE j # i /\ ~Creating(i)
      BY <2>1, <2>2, <2>3, <2>5, TimerEffect DEF Watched
    <2>6. CASE j = i /\ ~Creating(i)
      <3>1. timer'[i].pc \in {"read", "clock", "sleep", "evict"}
        <4>1. timer'[i] \in Timer
          BY <2>1, RaceInvStep DEF RaceInv, TypeOK, Next
        <4>2. Available(i)
          BY <2>2 DEF Timed
        <4> QED BY <1>3, <2>6, <4>1, <4>2, TimerEffect DEF Timer
      <3>2. timer'[i].at <= Deadline(i)
        <4>1. CASE timer'[i].pc \in {"read", "evict"}
          BY <2>2, <2>6, <4>1, TimerEffect
        <4>2. CASE timer'[i].pc = "clock"
          <5>1. Plane[info[i].device] # "terminated"
            BY <1>2, <2>1, <4>2, TimerEffect
          <5>2. info[i].expiresAt \in Nat
            BY <2>1 DEF RaceInv, TypeOK, SessionInfo
          <5> QED BY <2>6, <4>2, <5>1, <5>2, TimerEffect DEF Deadline
        <4>3. CASE timer'[i].pc = "sleep"
          BY <2>3, <2>6, <4>3, TimerEffect DEF Watched
        <4> QED BY <3>1, <4>1, <4>2, <4>3
      <3> QED BY <2>2, <3>1, <3>2 DEF Watched
    <2> QED BY <2>4, <2>5, <2>6
  <1> QED BY <1>2, <1>3 DEF WatchInv

\* The creator hands the session over to its timer.
LEMMA WatchSchedule ==
  ASSUME RaceInv, WatchInv, NEW c \in Client, ScheduleAndReply(c)
  PROVE  WatchInv'
  <1> DEFINE s == task[c].id
  <1>1. /\ \A d \in Client \ {c} : task'[d] = task[d]
        /\ now \in Nat /\ Grace \in Nat /\ s \in Id /\ used \subseteq Id /\ live \subseteq used
    BY ScheduleEffect, ConstantsAssumption DEF RaceInv, TypeOK
  <1>2. \A i \in Id : Deadline(i)' = Deadline(i) /\ Timed(i)' = Timed(i)
    BY ScheduleEffect DEF Deadline, Timed, Available
  <1>3. \A i \in Id : Plane[info'[i].device] = "terminated" => timer'[i].pc \notin {"read", "clock"}
    BY <1>1, ScheduleEffect DEF WatchInv
  <1>4. ASSUME NEW i \in live, Timed(i) PROVE Watched(i)'
    <2>1. i \in Id /\ info[i].expiresAt \in Nat /\ Watched(i)
      BY <1>1, <1>4 DEF RaceInv, TypeOK, SessionInfo, WatchInv
    <2>2. CASE i = s
      <3>1. timer'[i] = IF Plane[info[i].device] = "terminated"
                        THEN [pc |-> "sleep", at |-> now + Grace]
                        ELSE [pc |-> "read", at |-> 0]
        BY <1>4, <2>2, ScheduleEffect
      <3>2. timer'[i].pc \in {"read", "sleep"} /\ timer'[i].at <= Deadline(i)
        BY <1>1, <2>1, <3>1 DEF Deadline
      <3> QED BY <1>2, <2>1, <3>2 DEF Watched
    <2>3. CASE i # s
      <3>1. Creating(i) => Creating(i)'
        BY <1>1, <2>3 DEF Creating
      <3>2. timer'[i] = timer[i]
        BY <2>1, <2>3, ScheduleEffect
      <3> QED BY <1>2, <2>1, <3>1, <3>2 DEF Watched
    <2> QED BY <2>2, <2>3
  <1> QED BY <1>1, <1>2, <1>3, <1>4, ScheduleEffect DEF WatchInv

\* A creator that does not reply goes on with the same session.
LEMMA CreatorStays ==
  ASSUME RaceInv, [Next]_vars, ~\E c \in Client : ScheduleAndReply(c),
         NEW d \in Client, task[d].pc \in {"credential", "schedule"}
  PROVE  task'[d].pc \in {"credential", "schedule"} /\ task'[d].id = task[d].id
  <1>1. CASE \E c \in Client : Request(c)
    BY <1>1 DEF Request, CreateSession, RetrieveSessions, DeleteSession, ExtendCheck, Idle,
                RaceInv, TypeOK
  <1>2. CASE \E c \in Client : Continue(c)
    <2>1. CASE \E c \in Client : StoreCredential(c)
      BY <2>1 DEF StoreCredential, RaceInv, TypeOK, Task
    <2>2. CASE \E c \in Client : DeleteNotify(c) \/ ExtendUpdate(c)
      BY <2>2 DEF DeleteNotify, ExtendUpdate, RaceInv, TypeOK
    <2> QED BY <1>2, <2>1, <2>2 DEF Continue
  <1>3. CASE \E j \in Id : TimerStep(j)
    BY <1>3, TimerEffect
  <1>4. CASE (\E e \in inflight : Deliver(e) \/ Lose(e)) \/ Tick \/ UNCHANGED vars
    BY <1>4 DEF Deliver, Lose, Tick, vars
  <1> QED BY <1>1, <1>2, <1>3, <1>4 DEF Next

LEMMA WatchStep == RaceInv /\ WatchInv /\ [Next]_vars => WatchInv'
  <1> SUFFICES ASSUME RaceInv, WatchInv, [Next]_vars PROVE WatchInv'
    OBVIOUS
  <1>1. CASE \E j \in Id : TimerStep(j)
    BY <1>1, WatchTimer
  <1>2. CASE \E c \in Client : ScheduleAndReply(c)
    BY <1>2, WatchSchedule
  <1>3. CASE /\ ~\E j \in Id : TimerStep(j)
             /\ ~\E c \in Client : ScheduleAndReply(c)
    <2>1. timer' = timer
      BY <1>3, TimerFrame DEF Next
    <2>2. live \subseteq used /\ used \subseteq Id
      BY DEF RaceInv, TypeOK
    <2>3. \A i \in Id : timer[i].pc # "none" => i \in used
      BY DEF RaceInv, TimerInv
    <2>4. \A i \in Id : Plane[info'[i].device] = "terminated" => timer'[i].pc \notin {"read", "clock"}
      BY <2>1, <2>3, DeadlineStep DEF WatchInv
    <2>5. ASSUME NEW i \in live', Timed(i)' PROVE Watched(i)'
      <3>1. CASE i \notin live
        BY <3>1, LiveStep DEF Watched, Creating
      <3>2. CASE i \in live
        <4>1. Watched(i) /\ i \in used /\ i \in Id
          BY <2>2, <2>5, <3>2, DeadlineStep DEF WatchInv
        <4>2. CASE Creating(i)
          <5>1. PICK c \in Client : task[c].pc \in {"credential", "schedule"} /\ task[c].id = i
            BY <4>2 DEF Creating
          <5>2. task'[c].pc \in {"credential", "schedule"} /\ task'[c].id = i
            BY <1>3, <5>1, CreatorStays
          <5> QED BY <5>2 DEF Watched, Creating
        <4>3. CASE ~Creating(i)
          <5>1. timer[i].at \in Nat
            BY <4>1 DEF RaceInv, TypeOK, Timer
          <5> QED BY <2>1, <4>1, <4>3, <5>1, DeadlineStep DEF Watched
        <4> QED BY <4>2, <4>3
      <3> QED BY <3>1, <3>2
    <2> QED BY <2>4, <2>5 DEF WatchInv
  <1> QED BY <1>1, <1>2, <1>3

\* No timed session is ever left without somebody who will end it: until its
\* creator has spawned the timer the creator is still there, from then on the
\* timer runs and is never asleep past the deadline - the stored expiry, or the
\* grace from now.  And however often the session is extended the expiry stays
\* within a horizon fixed at its start.
EndInSight ==
    /\ \A i \in live : Timed(i) => Watched(i)
    /\ \A i \in used : Available(i) =>
          info[i].expiresAt <= info[i].startedAt + 1 + Cardinality(Client) * (MaxDuration - 1)

\* spawn_expiry: the end of a timed session never gets out of sight, and no
\* extend moves it further than the ceiling and the overtaking allow.
THEOREM EndStaysInSight == Spec => []EndInSight
  <1>1. Init => WatchInv
    BY DEF Init, WatchInv
  <1>2. RaceInv /\ WatchInv /\ OvershootBounded /\ DurationMatchesExpiry => EndInSight
    <2> SUFFICES ASSUME RaceInv, WatchInv, OvershootBounded, DurationMatchesExpiry,
                        NEW i \in used, Available(i)
                 PROVE  info[i].expiresAt
                          <= info[i].startedAt + 1 + Cardinality(Client) * (MaxDuration - 1)
      BY DEF EndInSight, WatchInv
    <2> DEFINE bound == Cardinality(Client) * (MaxDuration - 1)
    <2>1. /\ info[i].expiresAt = info[i].startedAt + info[i].duration
          /\ info[i].duration <= 1 + bound
      BY DEF DurationMatchesExpiry, OvershootBounded
    <2>2. info[i].startedAt \in Nat /\ info[i].duration \in Nat
      BY DEF RaceInv, TypeOK, SessionInfo
    <2>3. bound \in Int
      <3>1. Cardinality(Client) \in Nat /\ MaxDuration - 1 \in Int
        BY ConstantsAssumption, FS_CardinalityType
      <3> QED BY <3>1, SMT
    <2> QED BY <2>1, <2>2, <2>3
  <1> QED BY <1>1, <1>2, WatchStep, RaceInvHolds, OvershootLimited, DurationTruthful, PTL DEF Spec

-----------------------------------------------------------------------------
(* Where a sink credential is *)

Storing(i) == \E c \in Client : task[c].pc = "credential" /\ task[c].id = i
Used(i) == \E e \in events : e.sessionId = i /\ e.auth

\* The credential a create request brought for a session with a sink is in one
\* place: its create handler has yet to store it, it is in the side-store, or a
\* notice has carried it to the sink.  It is neither lost nor kept after use.
SecretInOnePlace ==
    \A i \in secured : info[i].sink # "none" =>
       /\ Storing(i) \/ i \in creds \/ Used(i)
       /\ ~(Storing(i) /\ i \in creds) /\ ~(Storing(i) /\ Used(i)) /\ ~(i \in creds /\ Used(i))

\* A credential left in the side-store past the end of its session is that of a
\* session whose notice went out without it.
LeakIsMarked ==
    \A i \in creds : \/ i \in live \/ Announcing(i)
                     \/ \E e \in events : e.sessionId = i /\ ~e.auth

SecretInv ==
    /\ SecretInOnePlace
    /\ \A i \in creds : info[i].sink # "none"
    /\ \A e \in events : info[e.sessionId].sink # "none" /\ (e.auth => e.sessionId \in secured)

LEMMA SecretFrame ==
  ASSUME RaceInv, SecretInv,
         \A i \in used : info'[i].sink = info[i].sink,
         \A i \in used : Storing(i)' <=> Storing(i),
         UNCHANGED <<creds, secured, events>>
  PROVE  SecretInv'
  <1>1. \A i \in used : Used(i)' <=> Used(i)
    BY DEF Used
  <1>2. secured \subseteq used /\ creds \subseteq used /\ \A e \in events : e.sessionId \in used
    BY DEF RaceInv, TypeOK, NoticeInv, NoticeMeansGone
  <1>3. SecretInOnePlace'
    BY <1>1, <1>2 DEF SecretInv, SecretInOnePlace
  <1>4. \A i \in creds' : info'[i].sink # "none"
    BY <1>2 DEF SecretInv
  <1>5. \A e \in events' : info'[e.sessionId].sink # "none" /\ (e.auth => e.sessionId \in secured')
    BY <1>2 DEF SecretInv
  <1> QED BY <1>3, <1>4, <1>5 DEF SecretInv

LEMMA SecretCreate ==
  ASSUME RaceInv, SecretInv, NEW c \in Client, NEW i \in Id, NEW dev \in Device,
         NEW d \in Duration, NEW s \in Sink, NEW profile, NEW cred \in BOOLEAN,
         CreateSession(c, i, dev, d, s, profile, cred)
  PROVE  SecretInv'
  <1>1. /\ i \in Id \ used /\ creds' = creds /\ events' = events /\ task[c] = Idle
        /\ secured' \in {secured, secured \cup {i}}
        /\ info' = [info EXCEPT ![i] = BuildSessionInfo(dev, d, s)]
        /\ task' = [task EXCEPT ![c] = [pc |-> "credential", id |-> i, additional |-> 0]]
    BY DEF CreateSession, outbox
  <1>2. secured \subseteq used /\ creds \subseteq used /\ \A e \in events : e.sessionId \in used
    BY DEF RaceInv, TypeOK, NoticeInv, NoticeMeansGone
  <1>3. \A j \in used : j # i /\ info'[j] = info[j]
    BY <1>1 DEF RaceInv, TypeOK
  <1>4. /\ task'[c] = [pc |-> "credential", id |-> i, additional |-> 0] /\ task[c].pc = "idle"
        /\ \A e \in Client \ {c} : task'[e] = task[e]
    BY <1>1 DEF RaceInv, TypeOK, Idle
  <1>5. Storing(i)' /\ \A j \in used : Storing(j)' <=> Storing(j)
    BY <1>3, <1>4 DEF Storing
  <1>6. ~Used(i)' /\ \A j \in used : Used(j)' <=> Used(j)
    BY <1>1, <1>2 DEF Used
  <1>7. SecretInOnePlace'
    BY <1>1, <1>2, <1>3, <1>5, <1>6 DEF SecretInv, SecretInOnePlace
  <1> QED BY <1>1, <1>2, <1>3, <1>7 DEF SecretInv

LEMMA SecretStore ==
  ASSUME RaceInv, SecretInv, NEW c \in Client, StoreCredential(c)
  PROVE  SecretInv'
  <1> DEFINE i == task[c].id
  <1>1. /\ task[c].pc = "credential" /\ i \in used
        /\ creds' = IF i \in secured /\ info[i].sink # "none" THEN creds \cup {i} ELSE creds
        /\ task' = [task EXCEPT ![c].pc = "schedule"]
        /\ UNCHANGED <<info, used, secured, events>>
    BY DEF StoreCredential, RaceInv, CreatorInv, store, outbox
  <1>2. task'[c].pc = "schedule" /\ \A e \in Client \ {c} : task'[e] = task[e]
    BY <1>1 DEF RaceInv, TypeOK, Task
  <1>3. Storing(i) /\ ~Storing(i)' /\ \A j : j # i => (Storing(j)' <=> Storing(j))
    BY <1>1, <1>2 DEF Storing, RaceInv, CreatorInv
  <1>4. \A j : Used(j)' <=> Used(j)
    BY <1>1 DEF Used
  <1>5. SecretInOnePlace'
    BY <1>1, <1>3, <1>4 DEF SecretInv, SecretInOnePlace
  <1> QED BY <1>1, <1>5 DEF SecretInv

\* A notice carries the credential if it is stored, and takes it.
LEMMA SecretNotice ==
  ASSUME RaceInv, SecretInv, NEW i \in Id, Owed(i), NEW reason, SpawnNotice(i, reason),
         \A j \in used : Storing(j)' <=> Storing(j),
         UNCHANGED <<info, secured>>
  PROVE  SecretInv'
  <1> DEFINE e == [no |-> Cardinality(events) + 1, sessionId |-> i,
                   statusInfo |-> reason, auth |-> i \in creds]
  <1>1. /\ e.sessionId = i /\ (e.auth <=> i \in creds)
        /\ events' = events \cup {e} /\ creds' = creds \ {i}
    BY DEF SpawnNotice
  <1> HIDE DEF e
  <1>2. secured \subseteq used /\ creds \subseteq secured
    BY DEF RaceInv, TypeOK
  <1>3. ~Used(i) /\ (Used(i)' <=> i \in creds) /\ \A j : j # i => (Used(j)' <=> Used(j))
    BY <1>1 DEF Used, Owed, Announced
  <1>4. SecretInOnePlace'
    BY <1>1, <1>2, <1>3 DEF SecretInv, SecretInOnePlace
  <1>5. info[i].sink # "none"
    BY DEF Owed
  <1> QED BY <1>1, <1>2, <1>4, <1>5 DEF SecretInv

LEMMA SecretStep == RaceInv /\ SecretInv /\ [Next]_vars => SecretInv'
  <1> SUFFICES ASSUME RaceInv, SecretInv, [Next]_vars PROVE SecretInv'
    OBVIOUS
  <1>1. used \subseteq Id
    BY DEF RaceInv, TypeOK
  <1>2. ASSUME NEW c \in Client, Request(c) PROVE SecretInv'
    <2>1. ASSUME \/ \E dev \in Device : RetrieveSessions(c, dev)
                 \/ \E i \in Id : DeleteSession(c, i)
                 \/ \E i \in Id, d \in Duration : ExtendCheck(c, i, d)
          PROVE  SecretInv'
      <3>1. /\ task[c].pc = "idle" /\ task'[c].pc # "credential"
            /\ \A e \in Client \ {c} : task'[e] = task[e]
            /\ UNCHANGED <<info, creds, secured, events>>
        BY <2>1 DEF RetrieveSessions, DeleteSession, ExtendCheck, Idle, store, outbox,
                    RaceInv, TypeOK
      <3>2. \A i : Storing(i)' <=> Storing(i)
        BY <3>1 DEF Storing
      <3> QED BY <3>1, <3>2, SecretFrame
    <2> QED BY <1>2, <2>1, SecretCreate DEF Request
  <1>3. ASSUME NEW c \in Client, Continue(c) PROVE SecretInv'
    <2>1. ASSUME task[c].pc # "credential", task'[c].pc # "credential",
                 \A e \in Client \ {c} : task'[e] = task[e]
          PROVE  \A i : Storing(i)' <=> Storing(i)
      BY <2>1 DEF Storing
    <2>2. CASE ScheduleAndReply(c)
      <3>1. /\ task[c].pc = "schedule" /\ task'[c].pc = "idle"
            /\ \A e \in Client \ {c} : task'[e] = task[e]
        BY <2>2, ScheduleEffect DEF Idle, RaceInv, TypeOK
      <3> QED BY <2>1, <2>2, <3>1, ScheduleEffect, SecretFrame
    <2>3. CASE ExtendUpdate(c)
      <3>1. UNCHANGED <<creds, secured, events>>
        BY <2>3 DEF ExtendUpdate, outbox
      <3> QED BY <1>1, <2>1, <2>3, <3>1, ExtendEffect, SecretFrame
    <2>4. CASE DeleteNotify(c)
      <3>1. /\ task[c].pc = "notify" /\ task'[c].pc = "idle"
            /\ \A e \in Client \ {c} : task'[e] = task[e]
            /\ SpawnNotice(task[c].id, "DELETE_REQUESTED") /\ UNCHANGED <<info, secured>>
        BY <2>4 DEF DeleteNotify, Idle, store, RaceInv, TypeOK
      <3>2. Owed(task[c].id) /\ task[c].id \in Id
        BY <1>1, <3>1 DEF RaceInv, DeleterInv, Owed
      <3> QED BY <2>1, <3>1, <3>2, SecretNotice
    <2> QED BY <1>3, <2>2, <2>3, <2>4, SecretStore DEF Continue
  <1>4. ASSUME NEW i \in Id, TimerStep(i) PROVE SecretInv'
    <2>1. info' = info /\ \A j : Storing(j)' <=> Storing(j)
      BY <1>4, TimerEffect DEF Storing
    <2>2. CASE TimerNotify(i)
      <3>1. Owed(i) /\ secured' = secured
        BY <2>2 DEF TimerNotify, RaceInv, TimerInv, store
      <3> QED BY <2>1, <2>2, <3>1, SecretNotice DEF TimerNotify
    <2>3. CASE ~TimerNotify(i)
      <3>1. UNCHANGED <<creds, secured, events>>
        BY <1>4, <2>3 DEF TimerStep, TimerRead, TimerClock, TimerWake, TimerEvict, store, outbox
      <3> QED BY <2>1, <3>1, SecretFrame
    <2> QED BY <2>2, <2>3
  <1>5. CASE (\E e \in inflight : Deliver(e) \/ Lose(e)) \/ Tick \/ UNCHANGED vars
    <2>1. UNCHANGED <<info, task, creds, secured, events>>
      BY <1>5 DEF Deliver, Lose, Tick, vars, store, outbox
    <2>2. \A j : Storing(j)' <=> Storing(j)
      BY <2>1 DEF Storing
    <2> QED BY <2>1, <2>2, SecretFrame
  <1> QED BY <1>2, <1>3, <1>4, <1>5 DEF Next

LEMMA SecretInvHolds == Spec => []SecretInv
  <1>1. Init => SecretInv
    BY DEF Init, SecretInv, SecretInOnePlace
  <1> QED BY <1>1, SecretStep, RaceInvHolds, PTL DEF Spec

\* No interleaving loses, doubles or reuses a credential.
THEOREM SecretAccountedFor == Spec => []SecretInOnePlace
  BY SecretInvHolds, PTL DEF SecretInv

\* Whenever CredentialDropped fails, the sink was told without authentication.
THEOREM LeaksAreMarked == Spec => []LeakIsMarked
  <1>1. RaceInv /\ SecretInv => LeakIsMarked
    <2> SUFFICES ASSUME RaceInv, SecretInv, NEW i \in creds, i \notin live, ~Announcing(i)
                 PROVE  \E e \in events : e.sessionId = i /\ ~e.auth
      BY DEF LeakIsMarked
    <2>1. i \in secured /\ i \in used \ live /\ info[i].sink # "none"
      BY DEF RaceInv, TypeOK, SecretInv
    <2>2. Announced(i)
      BY <2>1 DEF RaceInv, NoticeInv, NoSilentEnd
    <2>3. ~Used(i)
      BY <2>1 DEF SecretInv, SecretInOnePlace
    <2> QED BY <2>2, <2>3 DEF Announced, Used
  <1> QED BY <1>1, SecretInvHolds, RaceInvHolds, PTL

\* A delete announces a session whose create handler still holds the credential.
EarlyNotice ==
    \E c, d \in Client : /\ DeleteNotify(c)
                         /\ task[d].pc = "credential" /\ task[d].id = task[c].id
                         /\ task[c].id \in secured

\* Without such a step, every notice of a secured session carries its credential.
PromptInv ==
    /\ \A e \in events : e.sessionId \in secured => e.auth
    /\ \A i \in secured : ~(Storing(i) /\ Announced(i))

\* What a step may add to the events.
LEMMA EventStep ==
  ASSUME RaceInv, [Next]_vars
  PROVE  \/ events' = events
         \/ \E i \in Id : /\ Owed(i)
                          /\ \/ \E c \in Client : task[c].id = i /\ DeleteNotify(c)
                             \/ timer[i].pc = "notify"
                          /\ \E e : /\ e.sessionId = i /\ (e.auth <=> i \in creds)
                                    /\ events' = events \cup {e}
                          /\ UNCHANGED <<info, secured>>
  <1>1. \A i \in Id, reason \in Reason : SpawnNotice(i, reason) =>
           \E e : /\ e.sessionId = i /\ (e.auth <=> i \in creds)
                  /\ events' = events \cup {e}
    <2> SUFFICES ASSUME NEW i \in Id, NEW reason \in Reason, SpawnNotice(i, reason)
                 PROVE  \E e : /\ e.sessionId = i /\ (e.auth <=> i \in creds)
                               /\ events' = events \cup {e}
      OBVIOUS
    <2> DEFINE e == [no |-> Cardinality(events) + 1, sessionId |-> i,
                     statusInfo |-> reason, auth |-> i \in creds]
    <2>1. e.sessionId = i /\ (e.auth <=> i \in creds) /\ events' = events \cup {e}
      BY DEF SpawnNotice
    <2> QED BY <2>1
  <1>2. CASE \E c \in Client : Request(c)
    BY <1>2 DEF Request, CreateSession, RetrieveSessions, DeleteSession, ExtendCheck, outbox
  <1>3. ASSUME NEW c \in Client, Continue(c), ~DeleteNotify(c) PROVE events' = events
    BY <1>3 DEF Continue, StoreCredential, ScheduleAndReply, ExtendUpdate, outbox
  <1>4. ASSUME NEW c \in Client, DeleteNotify(c)
        PROVE  /\ task[c].id \in Id /\ Owed(task[c].id)
               /\ SpawnNotice(task[c].id, "DELETE_REQUESTED") /\ "DELETE_REQUESTED" \in Reason
               /\ UNCHANGED <<info, secured>>
    BY <1>4 DEF DeleteNotify, RaceInv, TypeOK, DeleterInv, Owed, Reason, store
  <1>5. ASSUME NEW i \in Id, TimerStep(i), ~TimerNotify(i) PROVE events' = events
    BY <1>5 DEF TimerStep, TimerRead, TimerClock, TimerWake, TimerEvict, outbox
  <1>6. ASSUME NEW i \in Id, TimerNotify(i)
        PROVE  /\ Owed(i) /\ timer[i].pc = "notify" /\ UNCHANGED <<info, secured>>
               /\ \E reason \in Reason : SpawnNotice(i, reason)
    BY <1>6 DEF TimerNotify, RaceInv, TimerInv, Reason, store
  <1>7. CASE (\E e \in inflight : Deliver(e) \/ Lose(e)) \/ Tick \/ UNCHANGED vars
    BY <1>7 DEF Deliver, Lose, Tick, vars, outbox
  <1> QED BY <1>1, <1>2, <1>3, <1>4, <1>5, <1>6, <1>7 DEF Next

\* A connection that holds a credential already held it, or has minted its session.
LEMMA StoringStep ==
  ASSUME RaceInv, [Next]_vars, NEW i \in used, Storing(i)'
  PROVE  Storing(i)
  <1>1. CASE \E c \in Client : Request(c)
    <2>1. PICK c \in Client : Request(c)
      BY <1>1
    <2>2. \A e \in Client \ {c} : task'[e] = task[e]
      BY <2>1 DEF Request, CreateSession, RetrieveSessions, DeleteSession, ExtendCheck,
                  RaceInv, TypeOK
    <2>3. task'[c].pc = "credential" => task'[c].id \notin used
      BY <2>1 DEF Request, CreateSession, RetrieveSessions, DeleteSession, ExtendCheck,
                  Idle, RaceInv, TypeOK
    <2> QED BY <2>2, <2>3 DEF Storing
  <1>2. CASE \E c \in Client : Continue(c)
    <2>1. \E c \in Client : task' \in {[task EXCEPT ![c].pc = "schedule"], [task EXCEPT ![c] = Idle]}
      BY <1>2 DEF Continue, StoreCredential, ScheduleAndReply, DeleteNotify, ExtendUpdate
    <2>2. \A e \in Client : task'[e].pc = "credential" => task'[e] = task[e]
      BY <2>1 DEF RaceInv, TypeOK, Task, Idle
    <2> QED BY <2>2 DEF Storing
  <1>3. CASE \E j \in Id : TimerStep(j)
    BY <1>3, TimerEffect DEF Storing
  <1>4. CASE (\E e \in inflight : Deliver(e) \/ Lose(e)) \/ Tick \/ UNCHANGED vars
    BY <1>4 DEF Deliver, Lose, Tick, vars, Storing
  <1> QED BY <1>1, <1>2, <1>3, <1>4 DEF Next

LEMMA PromptStep ==
  RaceInv /\ SecretInv /\ PromptInv /\ [Next]_vars /\ [~EarlyNotice]_vars => PromptInv'
  <1> SUFFICES ASSUME RaceInv, SecretInv, PromptInv, [Next]_vars, [~EarlyNotice]_vars
               PROVE  PromptInv'
    OBVIOUS
  <1>1. /\ secured \subseteq used
        /\ \A e \in events : e.sessionId \in used
        /\ \A i \in secured' : i \in secured \/ i \notin used
    BY UsedStep DEF RaceInv, TypeOK, NoticeInv, NoticeMeansGone
  <1>2. CASE events' = events
    BY <1>1, <1>2, StoringStep DEF PromptInv, Announced
  <1>3. CASE events' # events
    <2>0. PICK i \in Id : /\ Owed(i)
                          /\ \/ \E c \in Client : task[c].id = i /\ DeleteNotify(c)
                             \/ timer[i].pc = "notify"
                          /\ \E e : /\ e.sessionId = i /\ (e.auth <=> i \in creds)
                                    /\ events' = events \cup {e}
                          /\ UNCHANGED <<info, secured>>
      BY <1>3, EventStep
    <2>1. PICK e : /\ e.sessionId = i /\ (e.auth <=> i \in creds)
                   /\ events' = events \cup {e}
      BY <2>0
    <2>2. i \in secured => ~Storing(i)
      <3>1. CASE timer[i].pc = "notify"
        BY <3>1 DEF Storing, RaceInv, CreatorInv
      <3>2. CASE \E c \in Client : task[c].id = i /\ DeleteNotify(c)
        BY <1>3, <3>2 DEF EarlyNotice, Storing, vars
      <3> QED BY <2>0, <3>1, <3>2
    <2>3. i \in secured => e.auth
      BY <2>0, <2>1, <2>2 DEF SecretInv, SecretInOnePlace, Owed, Used, Announced
    <2>4. \A j \in secured' : ~(Storing(j)' /\ Announced(j)')
      BY <1>1, <2>0, <2>1, <2>2, StoringStep DEF PromptInv, Announced
    <2> QED BY <2>0, <2>1, <2>3, <2>4 DEF PromptInv
  <1> QED BY <1>2, <1>3

\* A notice carries the credential exactly when the create request brought one.
EveryNoticeAuthenticated == \A e \in events : e.auth <=> e.sessionId \in secured

\* CredentialDropped fails in one way only: a delete that is announced while the
\* create handler still holds the credential.  Without such a step the secret is
\* dropped as its session ends, and every notice, a delete's too, carries it.
THEOREM DroppedUnlessEarly ==
  Spec /\ [][~EarlyNotice]_vars => [](CredentialDropped /\ EveryNoticeAuthenticated)
  <1>1. Init => PromptInv
    BY DEF Init, PromptInv
  <1>2. RaceInv /\ PromptInv /\ LeakIsMarked => CredentialDropped
    BY DEF LeakIsMarked, PromptInv, CredentialDropped, RaceInv, TypeOK
  <1>3. SecretInv /\ PromptInv => EveryNoticeAuthenticated
    BY Zenon DEF SecretInv, PromptInv, EveryNoticeAuthenticated
  <1> QED BY <1>1, <1>2, <1>3, PromptStep, SecretInvHolds, RaceInvHolds, LeaksAreMarked, PTL
         DEF Spec

=============================================================================
