------------------------- MODULE ClickToDialProofs -------------------------
(***************************************************************************)
(* Proofs about ClickToDial, for any pairs of numbers and any number of    *)
(* connections and calls.                                                  *)
(***************************************************************************)
EXTENDS ClickToDial, TLAPS

-----------------------------------------------------------------------------
(* The inductive invariant *)

\* The handler of the POST is past insert_sink.
Stored(n) == reporter[n] \notin {"none", "sink"}

\* What a creation is numbered is not used before, and only a call that asked
\* for a sink is about to store one.
ReporterInv ==
    \A n \in Creation :
       /\ n > placed => reporter[n] = "none"
       /\ reporter[n] = "sink" => call[n].sink
       /\ reporter[n] = "none" => lateSteps[n] = 0

\* An entry of the sink map is a stored one of its pair that nobody used.
SinkInv ==
    \A p \in Pair : sinks[p] # 0 =>
       /\ sinks[p] \in Creation /\ Stored(sinks[p])
       /\ PairOf(sinks[p]) = p /\ call[sinks[p]].sink
       /\ \A a \in notices : a.creation # sinks[p]

\* A DELETE still on its way to the sink holds an eviction of its own, of which
\* nobody was told.
HangUpInv ==
    /\ \A c \in DialConnection : \A w \in hangUp[c] :
          /\ w.eviction \in 1..hangUps[w.pair]
          /\ \A a \in notices : a.pair = w.pair => a.eviction # w.eviction
    /\ \A c, d \in DialConnection : \A w \in hangUp[c], v \in hangUp[d] :
          w.pair = v.pair /\ w.eviction = v.eviction => c = d
    /\ \A c \in DialConnection : \A w, v \in hangUp[c] : w = v

NoticeInv ==
    /\ \A a \in notices :
          /\ Stored(a.creation)
          /\ PairOf(a.creation) = a.pair /\ call[a.creation].sink
          /\ a.eviction \in 1..hangUps[a.pair]
    /\ \A a, b \in notices :
          a.pair = b.pair /\ (a.eviction = b.eviction \/ a.creation = b.creation)
             => a = b

\* A step that was looked up for a call that is gone is already paid for by the
\* eviction that removed it.
Owed(n) == IF reporter[n] = "send" /\ dialLive[PairOf(n)] = 0 THEN 1 ELSE 0
LateInv ==
    \A n \in Creation :
       lateSteps[n] + Owed(n) <= hangUps[PairOf(n)] - call[n].before

DialInv == DialTypeOK /\ ReporterInv /\ SinkInv /\ HangUpInv /\ NoticeInv /\ LateInv

-----------------------------------------------------------------------------
(* It holds initially and every action preserves it *)

LEMMA PairTyped ==
  ASSUME DialTypeOK, NEW n \in Creation
  PROVE  /\ PairOf(n) \in Pair /\ call[n].before \in Nat /\ call[n].sink \in BOOLEAN
         /\ hangUps[PairOf(n)] \in Nat /\ dialLive[PairOf(n)] \in 0..MaxCalls
         /\ lateSteps[n] \in Nat /\ reporter[n] \in ReporterPc
  <1>1. call[n] \in Call
    BY DEF DialTypeOK
  <1>2. PairOf(n) \in Pair /\ call[n].before \in Nat /\ call[n].sink \in BOOLEAN
    BY <1>1 DEF Call, PairOf
  <1> QED BY <1>2 DEF DialTypeOK

LEMMA DialInitInv == DialInit => DialInv
  <1> SUFFICES ASSUME DialInit PROVE DialInv
    OBVIOUS
  <1> DEFINE blank == [pair |-> CHOOSE p \in Pair : TRUE, sink |-> FALSE, before |-> 0]
  <1>1. (CHOOSE p \in Pair : TRUE) \in Pair
    BY DialAssumption
  <1>2. blank \in Call /\ blank.before = 0 /\ blank.pair \in Pair
    BY <1>1 DEF Call
  <1>3. call = [n \in Creation |-> blank]
    BY DEF DialInit
  <1> HIDE DEF blank
  <1>4. DialTypeOK
    <2>1. call \in [Creation -> Call]
      BY <1>2, <1>3
    <2>2. placed \in 0..MaxCalls /\ dialLive \in [Pair -> 0..MaxCalls]
          /\ sinks \in [Pair -> 0..MaxCalls]
      BY DialAssumption DEF DialInit
    <2>3. reporter \in [Creation -> ReporterPc]
      BY DEF DialInit, ReporterPc
    <2>4. /\ steps \in [Creation -> Nat] /\ lateSteps \in [Creation -> Nat]
          /\ hangUps \in [Pair -> Nat] /\ notices \subseteq Notice
          /\ hangUp \in [DialConnection -> SUBSET Waiting]
      BY DEF DialInit
    <2> QED BY <2>1, <2>2, <2>3, <2>4 DEF DialTypeOK
  <1>5. ReporterInv /\ SinkInv /\ HangUpInv /\ NoticeInv
    BY DEF DialInit, ReporterInv, SinkInv, HangUpInv, NoticeInv
  <1>6. LateInv
    BY <1>2, <1>3 DEF DialInit, LateInv, Owed, PairOf
  <1> QED BY <1>4, <1>5, <1>6 DEF DialInv

LEMMA CreateCallStep ==
  ASSUME DialInv, NEW p \in Pair, NEW sink \in BOOLEAN, NEW recording \in BOOLEAN,
         CreateCall(p, sink, recording)
  PROVE  DialInv'
  <1> DEFINE m == placed + 1
             fresh == [pair |-> p, sink |-> sink, before |-> hangUps[p]]
  <1>1. /\ m \in Creation /\ placed' = m /\ m > placed /\ placed \in 0..MaxCalls
        /\ call' = [call EXCEPT ![m] = fresh]
        /\ dialLive' = [dialLive EXCEPT ![p] = m]
        /\ reporter' = [reporter EXCEPT ![m] = IF sink THEN "sink" ELSE "done"]
        /\ UNCHANGED <<sinks, steps, lateSteps, hangUp, hangUps, notices>>
    BY DialAssumption DEF CreateCall, DialInv, DialTypeOK, Creation
  <1>2. fresh \in Call /\ fresh.pair = p /\ fresh.sink = sink /\ fresh.before = hangUps[p]
    BY DEF DialInv, DialTypeOK, Call
  <1>3. reporter[m] = "none" /\ lateSteps[m] = 0
    BY <1>1 DEF DialInv, ReporterInv
  <1> HIDE DEF m, fresh
  <1>4. /\ call'[m] = fresh /\ \A n \in Creation \ {m} : call'[n] = call[n]
        /\ call' \in [Creation -> Call]
        /\ reporter'[m] = IF sink THEN "sink" ELSE "done"
        /\ \A n \in Creation \ {m} : reporter'[n] = reporter[n]
        /\ reporter' \in [Creation -> ReporterPc]
        /\ dialLive'[p] = m /\ m # 0 /\ \A q \in Pair \ {p} : dialLive'[q] = dialLive[q]
        /\ dialLive' \in [Pair -> 0..MaxCalls]
    BY <1>1, <1>2, DialAssumption DEF DialInv, DialTypeOK, ReporterPc, Creation
  <1>5. DialTypeOK'
    BY <1>1, <1>4, DialAssumption DEF DialInv, DialTypeOK, Creation
  <1>6. ReporterInv'
    BY <1>1, <1>2, <1>3, <1>4 DEF DialInv, ReporterInv, Creation, m
  <1>7. \A n \in Creation : Stored(n) =>
           Stored(n)' /\ call'[n] = call[n] /\ n # m
    BY <1>3, <1>4 DEF Stored
  <1>8. SinkInv'
    BY <1>1, <1>7 DEF DialInv, SinkInv, PairOf
  <1>9. HangUpInv'
    BY <1>1 DEF DialInv, HangUpInv
  <1>10. \A a \in notices : a.creation \in Creation
    BY DEF DialInv, DialTypeOK, Notice
  <1>11. NoticeInv'
    BY <1>1, <1>7, <1>10 DEF DialInv, NoticeInv, PairOf
  <1>12. LateInv'
    <2> SUFFICES ASSUME NEW n \in Creation
                 PROVE  lateSteps'[n] + Owed(n)' <= hangUps'[PairOf(n)'] - call'[n].before
      BY DEF LateInv
    <2>1. CASE n = m
      <3>1. Owed(n)' = 0
        BY <1>4, <2>1 DEF Owed
      <3>2. PairOf(n)' = p /\ call'[n].before = hangUps[p] /\ hangUps[p] \in Nat
        BY <1>2, <1>4, <2>1 DEF PairOf, DialInv, DialTypeOK
      <3> QED BY <1>1, <1>3, <2>1, <3>1, <3>2
    <2>2. CASE n # m
      <3>1. call'[n] = call[n] /\ reporter'[n] = reporter[n] /\ PairOf(n)' = PairOf(n)
        BY <1>4, <2>2 DEF PairOf
      <3>2. PairOf(n) \in Pair /\ lateSteps[n] \in Nat /\ hangUps[PairOf(n)] \in Nat
            /\ call[n].before \in Nat
        BY PairTyped DEF DialInv
      <3>3. Owed(n)' <= Owed(n) /\ Owed(n)' \in Nat /\ Owed(n) \in Nat
        BY <1>4, <3>1, <3>2 DEF Owed
      <3>4. lateSteps[n] + Owed(n) <= hangUps[PairOf(n)] - call[n].before
        BY DEF DialInv, LateInv
      <3> QED BY <1>1, <3>1, <3>2, <3>3, <3>4
    <2> QED BY <2>1, <2>2
  <1> QED BY <1>5, <1>6, <1>8, <1>9, <1>11, <1>12 DEF DialInv

LEMMA StoreSinkStep ==
  ASSUME DialInv, NEW m \in Creation, StoreSink(m)
  PROVE  DialInv'
  <1> DEFINE next == IF Script(PairOf(m)) = <<>> THEN "done" ELSE "look"
  <1>1. /\ reporter[m] = "sink" /\ call[m].sink
        /\ sinks' = [sinks EXCEPT ![PairOf(m)] = m]
        /\ reporter' = [reporter EXCEPT ![m] = next]
        /\ UNCHANGED <<placed, call, dialLive, steps, lateSteps, hangUp, hangUps, notices>>
    BY DEF StoreSink, DialInv, ReporterInv
  <1>2. next \in {"done", "look"}
    OBVIOUS
  <1> HIDE DEF next
  <1>3. PairOf(m) \in Pair /\ m \in 0..MaxCalls /\ m # 0 /\ m <= placed
    BY <1>1, PairTyped DEF DialInv, DialTypeOK, ReporterInv, Creation
  <1>4. /\ reporter'[m] = next /\ \A n \in Creation \ {m} : reporter'[n] = reporter[n]
        /\ reporter' \in [Creation -> ReporterPc]
        /\ sinks'[PairOf(m)] = m /\ \A q \in Pair \ {PairOf(m)} : sinks'[q] = sinks[q]
        /\ sinks' \in [Pair -> 0..MaxCalls]
    BY <1>1, <1>2, <1>3 DEF DialInv, DialTypeOK, ReporterPc
  <1>5. DialTypeOK'
    BY <1>1, <1>4 DEF DialInv, DialTypeOK
  <1>6. ReporterInv'
    BY <1>1, <1>2, <1>3, <1>4 DEF DialInv, ReporterInv, DialTypeOK, Creation
  <1>7. \A n \in Creation : Stored(n) => Stored(n)' /\ n # m
    BY <1>1, <1>2, <1>4 DEF Stored
  <1>8. Stored(m)'
    BY <1>2, <1>4 DEF Stored
  <1>9. \A a \in notices : a.creation \in Creation /\ a.creation # m
    BY <1>7 DEF DialInv, DialTypeOK, Notice, NoticeInv
  <1>10. SinkInv'
    BY <1>1, <1>3, <1>4, <1>7, <1>8, <1>9 DEF DialInv, SinkInv, PairOf
  <1>11. HangUpInv'
    BY <1>1 DEF DialInv, HangUpInv
  <1>12. NoticeInv'
    BY <1>1, <1>7, <1>9 DEF DialInv, NoticeInv, PairOf
  <1>13. LateInv'
    <2> SUFFICES ASSUME NEW n \in Creation
                 PROVE  lateSteps'[n] + Owed(n)' <= hangUps'[PairOf(n)'] - call'[n].before
      BY DEF LateInv
    <2>1. PairOf(n) \in Pair /\ lateSteps[n] \in Nat /\ hangUps[PairOf(n)] \in Nat
          /\ call[n].before \in Nat
      BY PairTyped DEF DialInv
    <2>2. Owed(n)' <= Owed(n) /\ Owed(n)' \in Nat /\ Owed(n) \in Nat
      BY <1>1, <1>2, <1>4 DEF Owed, PairOf
    <2>3. lateSteps[n] + Owed(n) <= hangUps[PairOf(n)] - call[n].before
      BY DEF DialInv, LateInv
    <2> QED BY <1>1, <2>1, <2>2, <2>3 DEF PairOf
  <1> QED BY <1>5, <1>6, <1>10, <1>11, <1>12, <1>13 DEF DialInv

\* The progress task touches neither sinks nor hang-ups.
LEMMA ReporterFrame ==
  ASSUME DialInv, NEW m \in Creation, Stored(m), reporter'[m] \in ReporterPc,
         NEW next \in ReporterPc \ {"none", "sink"},
         reporter' = [reporter EXCEPT ![m] = next],
         UNCHANGED <<placed, call, sinks, hangUp, hangUps, notices>>,
         \A n \in Creation \ {m} : lateSteps'[n] = lateSteps[n]
  PROVE  ReporterInv' /\ SinkInv' /\ HangUpInv' /\ NoticeInv'
  <1>1. /\ reporter'[m] = next /\ \A n \in Creation \ {m} : reporter'[n] = reporter[n]
    BY DEF DialInv, DialTypeOK
  <1>2. \A n \in Creation : Stored(n) => Stored(n)'
    BY <1>1 DEF Stored
  <1>3. m <= placed
    BY DEF DialInv, DialTypeOK, ReporterInv, Creation, Stored
  <1>4. ReporterInv'
    BY <1>1, <1>3 DEF DialInv, DialTypeOK, ReporterInv, Creation
  <1>5. SinkInv'
    BY <1>2 DEF DialInv, SinkInv, PairOf
  <1>6. HangUpInv'
    BY DEF DialInv, HangUpInv
  <1>7. \A a \in notices : a.creation \in Creation
    BY DEF DialInv, DialTypeOK, Notice
  <1>8. NoticeInv'
    BY <1>2, <1>7 DEF DialInv, NoticeInv, PairOf
  <1> QED BY <1>4, <1>5, <1>6, <1>8

LEMMA LookUpStep ==
  ASSUME DialInv, NEW m \in Creation, LookUp(m)
  PROVE  DialInv'
  <1> DEFINE next == IF dialLive[PairOf(m)] = 0 THEN "done" ELSE "send"
  <1>1. /\ reporter[m] = "look"
        /\ reporter' = [reporter EXCEPT ![m] = next]
        /\ UNCHANGED <<placed, call, dialLive, sinks, steps, lateSteps, hangUp, hangUps, notices>>
    BY DEF LookUp
  <1>2. next \in ReporterPc \ {"none", "sink"}
    BY DEF ReporterPc
  <1>3. next = "send" => dialLive[PairOf(m)] # 0
    OBVIOUS
  <1> HIDE DEF next
  <1>4. /\ reporter'[m] = next /\ \A n \in Creation \ {m} : reporter'[n] = reporter[n]
        /\ reporter' \in [Creation -> ReporterPc]
    BY <1>1, <1>2 DEF DialInv, DialTypeOK
  <1>5. DialTypeOK'
    BY <1>1, <1>4 DEF DialInv, DialTypeOK
  <1>6. Stored(m)
    BY <1>1 DEF Stored
  <1>7. ReporterInv' /\ SinkInv' /\ HangUpInv' /\ NoticeInv'
    BY <1>1, <1>2, <1>4, <1>6, ReporterFrame
  <1>8. LateInv'
    <2> SUFFICES ASSUME NEW n \in Creation
                 PROVE  lateSteps'[n] + Owed(n)' <= hangUps'[PairOf(n)'] - call'[n].before
      BY DEF LateInv
    <2>1. Owed(n)' <= Owed(n) /\ Owed(n)' \in Nat /\ Owed(n) \in Nat
      BY <1>1, <1>3, <1>4 DEF Owed, PairOf
    <2>2. lateSteps[n] + Owed(n) <= hangUps[PairOf(n)] - call[n].before
      BY DEF DialInv, LateInv
    <2>3. lateSteps[n] \in Nat /\ hangUps[PairOf(n)] \in Nat /\ call[n].before \in Nat
      BY PairTyped DEF DialInv
    <2> QED BY <1>1, <2>1, <2>2, <2>3 DEF PairOf
  <1> QED BY <1>5, <1>7, <1>8 DEF DialInv

LEMMA SendStepStep ==
  ASSUME DialInv, NEW m \in Creation, SendStep(m)
  PROVE  DialInv'
  <1> DEFINE next == IF steps'[m] = Len(Script(PairOf(m))) THEN "done" ELSE "look"
             late == IF dialLive[PairOf(m)] = 0 THEN lateSteps[m] + 1 ELSE lateSteps[m]
  <1>1. /\ reporter[m] = "send"
        /\ steps' = [steps EXCEPT ![m] = @ + 1]
        /\ lateSteps' = [lateSteps EXCEPT ![m] = late]
        /\ reporter' = [reporter EXCEPT ![m] = next]
        /\ UNCHANGED <<placed, call, dialLive, sinks, hangUp, hangUps, notices>>
    BY DEF SendStep
  <1>2. next \in {"done", "look"}
    OBVIOUS
  <1>3. lateSteps[m] \in Nat
    BY PairTyped DEF DialInv
  <1>4. late \in Nat /\ late = lateSteps[m] + Owed(m)
    BY <1>1, <1>3 DEF Owed
  <1> HIDE DEF next, late
  <1>5. /\ reporter'[m] = next /\ \A n \in Creation \ {m} : reporter'[n] = reporter[n]
        /\ reporter' \in [Creation -> ReporterPc]
        /\ lateSteps'[m] = late /\ \A n \in Creation \ {m} : lateSteps'[n] = lateSteps[n]
        /\ lateSteps' \in [Creation -> Nat]
    BY <1>1, <1>2, <1>4 DEF DialInv, DialTypeOK, ReporterPc
  <1>6. steps' \in [Creation -> Nat]
    BY <1>1 DEF DialInv, DialTypeOK
  <1>7. DialTypeOK'
    BY <1>1, <1>5, <1>6 DEF DialInv, DialTypeOK
  <1>8. Stored(m) /\ next \in ReporterPc \ {"none", "sink"}
    BY <1>1, <1>2 DEF Stored, ReporterPc
  <1>9. ReporterInv' /\ SinkInv' /\ HangUpInv' /\ NoticeInv'
    BY <1>1, <1>5, <1>8, ReporterFrame
  <1>10. LateInv'
    <2> SUFFICES ASSUME NEW n \in Creation
                 PROVE  lateSteps'[n] + Owed(n)' <= hangUps'[PairOf(n)'] - call'[n].before
      BY DEF LateInv
    <2>1. lateSteps[n] + Owed(n) <= hangUps[PairOf(n)] - call[n].before
      BY DEF DialInv, LateInv
    <2>2. lateSteps[n] \in Nat /\ hangUps[PairOf(n)] \in Nat /\ call[n].before \in Nat
      BY PairTyped DEF DialInv
    <2>3. CASE n = m
      <3>1. Owed(n)' = 0
        BY <1>2, <1>5, <2>3 DEF Owed
      <3> QED BY <1>1, <1>4, <1>5, <2>1, <2>2, <2>3, <3>1 DEF PairOf
    <2>4. CASE n # m
      <3>1. Owed(n)' = Owed(n)
        BY <1>1, <1>5, <2>4 DEF Owed, PairOf
      <3> QED BY <1>1, <1>5, <2>1, <2>2, <2>4, <3>1 DEF PairOf
    <2> QED BY <2>3, <2>4
  <1> QED BY <1>7, <1>9, <1>10 DEF DialInv

LEMMA TerminateCallStep ==
  ASSUME DialInv, NEW c \in DialConnection, NEW p \in Pair, TerminateCall(c, p)
  PROVE  DialInv'
  <1> DEFINE mine == [pair |-> p, eviction |-> hangUps[p] + 1]
  <1>1. hangUps[p] \in Nat /\ hangUps'[p] = hangUps[p] + 1
        /\ hangUps' \in [Pair -> Nat]
        /\ \A q \in Pair \ {p} : hangUps'[q] = hangUps[q]
    BY DEF TerminateCall, DialInv, DialTypeOK
  <1>2. /\ hangUp[c] = {}
        /\ dialLive' = [dialLive EXCEPT ![p] = 0]
        /\ hangUp' = [hangUp EXCEPT ![c] = {mine}]
        /\ UNCHANGED <<placed, call, sinks, reporter, steps, lateSteps, notices>>
    BY <1>1 DEF TerminateCall
  <1>3. mine \in Waiting /\ mine.pair = p /\ mine.eviction = hangUps[p] + 1
    BY <1>1 DEF Waiting
  <1> HIDE DEF mine
  <1>4. /\ hangUp'[c] = {mine} /\ \A d \in DialConnection \ {c} : hangUp'[d] = hangUp[d]
        /\ hangUp' \in [DialConnection -> SUBSET Waiting]
        /\ dialLive' \in [Pair -> 0..MaxCalls]
        /\ \A q \in Pair \ {p} : dialLive'[q] = dialLive[q]
    BY <1>2, <1>3, DialAssumption DEF DialInv, DialTypeOK
  <1>5. DialTypeOK'
    BY <1>1, <1>2, <1>4 DEF DialInv, DialTypeOK
  <1>6. ReporterInv' /\ SinkInv'
    BY <1>2 DEF DialInv, ReporterInv, SinkInv, Stored, PairOf
  <1>7. \A a \in notices : a.pair \in Pair
    BY DEF DialInv, DialTypeOK, Notice
  <1>8. \A q \in Pair : hangUps[q] \in Nat /\ hangUps'[q] \in Nat /\ hangUps[q] <= hangUps'[q]
    BY <1>1 DEF DialInv, DialTypeOK
  <1>9. NoticeInv'
    <2>1. \A a \in notices : a.eviction \in 1..hangUps'[a.pair]
      BY <1>7, <1>8 DEF DialInv, NoticeInv
    <2> QED BY <1>2, <2>1 DEF DialInv, NoticeInv, Stored, PairOf
  <1>10. HangUpInv'
    <2>1. \A d \in DialConnection \ {c} : \A w \in hangUp[d] :
             w.pair \in Pair /\ w.eviction \in 1..hangUps[w.pair]
      BY DEF DialInv, DialTypeOK, Waiting, HangUpInv
    <2>2. \A d \in DialConnection \ {c} : \A w \in hangUp'[d] :
             /\ w.eviction \in 1..hangUps'[w.pair]
             /\ ~(w.pair = mine.pair /\ w.eviction = mine.eviction)
      BY <1>1, <1>3, <1>4, <1>8, <2>1
    <2>3. \A a \in notices : a.pair = p => a.eviction # hangUps[p] + 1
      BY <1>1 DEF DialInv, NoticeInv
    <2>4. mine.eviction \in 1..hangUps'[mine.pair]
      BY <1>1, <1>3
    <2>5. \A d \in DialConnection : \A w \in hangUp'[d] :
             /\ w.eviction \in 1..hangUps'[w.pair]
             /\ \A a \in notices' : a.pair = w.pair => a.eviction # w.eviction
      BY <1>2, <1>3, <1>4, <2>2, <2>3, <2>4 DEF DialInv, HangUpInv
    <2>6. \A d, e \in DialConnection : \A w \in hangUp'[d], v \in hangUp'[e] :
             w.pair = v.pair /\ w.eviction = v.eviction => d = e
      BY <1>4, <2>2 DEF DialInv, HangUpInv
    <2>7. \A d \in DialConnection : \A w, v \in hangUp'[d] : w = v
      BY <1>4 DEF DialInv, HangUpInv
    <2> QED BY <2>5, <2>6, <2>7 DEF HangUpInv
  <1>11. LateInv'
    <2> SUFFICES ASSUME NEW n \in Creation
                 PROVE  lateSteps'[n] + Owed(n)' <= hangUps'[PairOf(n)'] - call'[n].before
      BY DEF LateInv
    <2>1. lateSteps[n] + Owed(n) <= hangUps[PairOf(n)] - call[n].before
      BY DEF DialInv, LateInv
    <2>2. /\ lateSteps[n] \in Nat /\ hangUps[PairOf(n)] \in Nat
          /\ call[n].before \in Nat /\ PairOf(n) \in Pair
      BY PairTyped DEF DialInv
    <2>3. PairOf(n)' = PairOf(n) /\ call'[n] = call[n] /\ lateSteps'[n] = lateSteps[n]
          /\ reporter'[n] = reporter[n]
      BY <1>2 DEF PairOf
    <2>4. CASE PairOf(n) = p
      <3>1. Owed(n)' \in 0..1 /\ Owed(n) \in 0..1
        BY DEF Owed
      <3> QED BY <1>1, <2>1, <2>2, <2>3, <2>4, <3>1
    <2>5. CASE PairOf(n) # p
      <3>1. Owed(n)' = Owed(n) /\ Owed(n) \in 0..1
        BY <1>4, <2>2, <2>3, <2>5 DEF Owed
      <3>2. hangUps'[PairOf(n)] = hangUps[PairOf(n)]
        BY <1>1, <2>2, <2>5
      <3> QED BY <2>1, <2>3, <3>1, <3>2
    <2> QED BY <2>4, <2>5
  <1> QED BY <1>5, <1>6, <1>9, <1>10, <1>11 DEF DialInv

LEMMA NotifyHangUpStep ==
  ASSUME DialInv, NEW c \in DialConnection, NotifyHangUp(c)
  PROVE  DialInv'
  <1>1. PICK w \in hangUp[c] :
           /\ IF sinks[w.pair] = 0 THEN UNCHANGED notices
              ELSE notices' = notices \cup
                      {[pair |-> w.pair, eviction |-> w.eviction,
                        creation |-> sinks[w.pair]]}
           /\ sinks' = [sinks EXCEPT ![w.pair] = 0]
    BY DEF NotifyHangUp
  <1>2. /\ hangUp' = [hangUp EXCEPT ![c] = {}]
        /\ UNCHANGED <<placed, call, dialLive, reporter, steps, lateSteps, hangUps>>
    BY DEF NotifyHangUp
  <1> DEFINE told == [pair |-> w.pair, eviction |-> w.eviction, creation |-> sinks[w.pair]]
  <1>3. /\ w \in Waiting /\ w.pair \in Pair /\ w.eviction \in Nat
        /\ w.eviction \in 1..hangUps[w.pair]
        /\ \A a \in notices : a.pair = w.pair => a.eviction # w.eviction
    BY DEF DialInv, DialTypeOK, HangUpInv, Waiting
  <1>4. /\ hangUp'[c] = {} /\ \A d \in DialConnection \ {c} : hangUp'[d] = hangUp[d]
        /\ hangUp' \in [DialConnection -> SUBSET Waiting]
    BY <1>2 DEF DialInv, DialTypeOK
  <1>5. /\ sinks'[w.pair] = 0 /\ \A q \in Pair \ {w.pair} : sinks'[q] = sinks[q]
        /\ sinks' \in [Pair -> 0..MaxCalls]
    BY <1>1, <1>3, DialAssumption DEF DialInv, DialTypeOK
  <1>6. sinks[w.pair] # 0 =>
           /\ sinks[w.pair] \in Creation /\ Stored(sinks[w.pair])
           /\ PairOf(sinks[w.pair]) = w.pair /\ call[sinks[w.pair]].sink
           /\ \A a \in notices : a.creation # sinks[w.pair]
           /\ \A q \in Pair \ {w.pair} : sinks[q] # sinks[w.pair]
    BY <1>3 DEF DialInv, SinkInv
  <1>7. /\ told.pair = w.pair /\ told.eviction = w.eviction
        /\ told.creation = sinks[w.pair]
        /\ sinks[w.pair] # 0 => told \in Notice
    BY <1>3, <1>6 DEF Notice
  <1>8. \A a \in notices' : a \in notices \/ (a = told /\ sinks[w.pair] # 0)
    BY <1>1
  <1>9. notices' \subseteq Notice
    BY <1>7, <1>8 DEF DialInv, DialTypeOK
  <1> HIDE DEF told
  <1>10. DialTypeOK'
    BY <1>2, <1>4, <1>5, <1>9 DEF DialInv, DialTypeOK
  <1>11. ReporterInv' /\ LateInv'
    BY <1>2 DEF DialInv, ReporterInv, LateInv, Owed, PairOf
  <1>12. SinkInv'
    BY <1>2, <1>5, <1>6, <1>7, <1>8 DEF DialInv, SinkInv, Stored, PairOf
  <1>13. HangUpInv'
    <2>1. \A d \in DialConnection \ {c} : \A v \in hangUp[d] :
             ~(v.pair = w.pair /\ v.eviction = w.eviction)
      BY DEF DialInv, HangUpInv
    <2>2. \A d \in DialConnection : \A v \in hangUp'[d] :
             /\ v.eviction \in 1..hangUps'[v.pair]
             /\ \A a \in notices' : a.pair = v.pair => a.eviction # v.eviction
      BY <1>2, <1>4, <1>7, <1>8, <2>1 DEF DialInv, HangUpInv
    <2> QED BY <1>4, <2>2 DEF DialInv, HangUpInv
  <1>14. NoticeInv'
    <2>1. \A a \in notices' :
             /\ Stored(a.creation)
             /\ PairOf(a.creation) = a.pair /\ call[a.creation].sink
             /\ a.eviction \in 1..hangUps[a.pair]
      BY <1>3, <1>6, <1>7, <1>8 DEF DialInv, NoticeInv
    <2>2. \A a, b \in notices' :
             a.pair = b.pair /\ (a.eviction = b.eviction \/ a.creation = b.creation)
                => a = b
      BY <1>3, <1>6, <1>7, <1>8 DEF DialInv, NoticeInv
    <2> QED BY <1>2, <2>1, <2>2 DEF NoticeInv, Stored, PairOf
  <1> QED BY <1>10, <1>11, <1>12, <1>13, <1>14 DEF DialInv

LEMMA DialNextInv == DialInv /\ [DialNext]_dialVars => DialInv'
  <1> SUFFICES ASSUME DialInv, [DialNext]_dialVars PROVE DialInv'
    OBVIOUS
  <1>1. ASSUME NEW p \in Pair, NEW sink \in BOOLEAN, NEW recording \in BOOLEAN,
               CreateCall(p, sink, recording)
        PROVE  DialInv'
    BY <1>1, CreateCallStep
  <1>2. ASSUME NEW n \in Creation, StoreSink(n) \/ LookUp(n) \/ SendStep(n)
        PROVE  DialInv'
    BY <1>2, StoreSinkStep, LookUpStep, SendStepStep
  <1>3. ASSUME NEW c \in DialConnection, NEW p \in Pair, TerminateCall(c, p)
        PROVE  DialInv'
    BY <1>3, TerminateCallStep
  <1>4. ASSUME NEW c \in DialConnection, NotifyHangUp(c)
        PROVE  DialInv'
    BY <1>4, NotifyHangUpStep
  <1>5. CASE UNCHANGED dialVars
    BY <1>5 DEF dialVars, DialInv, DialTypeOK, ReporterInv, SinkInv, HangUpInv,
                NoticeInv, LateInv, Owed, Stored, PairOf
  <1> QED BY <1>1, <1>2, <1>3, <1>4, <1>5 DEF DialNext

LEMMA DialInvariant == DialSpec => []DialInv
  <1> QED BY DialInitInv, DialNextInv, PTL DEF DialSpec

-----------------------------------------------------------------------------
(* The theorems *)

\* No `disconnected` event of a terminate is sent twice or to a sink that was
\* already used, whatever creations and terminates share the pair's entry.
THEOREM HangUpsAreToldOnce == DialSpec => []HangUpsToldOnce
  <1>1. DialInv => HangUpsToldOnce
    BY DEF DialInv, NoticeInv, HangUpsToldOnce
  <1> QED BY <1>1, DialInvariant, PTL

\* The progress of a call outlives it by at most one step for each terminate
\* of its id since it was created.
THEOREM LateStepsAreBounded == DialSpec => []LateStepsBounded
  <1>1. DialInv => LateStepsBounded
    <2> SUFFICES ASSUME DialInv, NEW n \in Creation
                 PROVE  lateSteps[n] <= hangUps[PairOf(n)] - call[n].before
      BY DEF LateStepsBounded
    <2>1. Owed(n) \in 0..1
      BY DEF Owed
    <2>2. lateSteps[n] \in Nat /\ hangUps[PairOf(n)] \in Nat /\ call[n].before \in Nat
      BY PairTyped DEF DialInv
    <2> QED BY <2>1, <2>2 DEF DialInv, LateInv
  <1> QED BY <1>1, DialInvariant, PTL

-----------------------------------------------------------------------------
(* The progress of a call is told in full *)

Scripted(n) == Len(Script(PairOf(n)))

\* The call of creation `n` was terminated.
HungUp(n) == call[n].before < hangUps[PairOf(n)]

ScriptInv ==
    \A n \in Creation :
       /\ reporter[n] \in {"none", "sink"} => steps[n] = 0
       /\ reporter[n] \in {"look", "send"} => steps[n] < Scripted(n)
       /\ steps[n] <= Scripted(n)

\* A call has its id until it is terminated.
LivesOnInv ==
    \A n \in Creation : n <= placed /\ dialLive[PairOf(n)] # n => HungUp(n)

\* Of a call that asked for a sink, progress is told up to the completion event
\* of its script and no further, unless the call was terminated.
ToldInFull ==
    \A n \in Creation :
       /\ steps[n] <= Scripted(n)
       /\ reporter[n] = "done" /\ call[n].sink => steps[n] = Scripted(n) \/ HungUp(n)

ProgressInv == ScriptInv /\ LivesOnInv /\ ToldInFull

LEMMA ScriptLength ==
  ASSUME NEW p
  PROVE  Len(Script(p)) \in Nat /\ (Script(p) # <<>> => Len(Script(p)) > 0)
  <1>1. \/ Script(p) = <<"callingCallee", "connected", "disconnected">>
        \/ Script(p) = <<"callingCallee", "failed">>
        \/ Script(p) = <<"callingCaller", "callingCallee", "connected", "disconnected">>
        \/ Script(p) = <<>>
    BY DEF Script
  <1> HIDE DEF Script
  <1> QED BY <1>1

LEMMA ProgressInitInv == DialInit => ProgressInv
  <1> SUFFICES ASSUME DialInit PROVE ProgressInv
    OBVIOUS
  <1>1. \A n \in Creation : Scripted(n) \in Nat /\ steps[n] = 0 /\ reporter[n] = "none" /\ n > 0
    BY ScriptLength DEF DialInit, Scripted, Creation
  <1>2. placed = 0
    BY DEF DialInit
  <1> QED BY <1>1, <1>2 DEF ProgressInv, ScriptInv, LivesOnInv, ToldInFull, Creation

LEMMA CreateProgress ==
  ASSUME DialInv, ProgressInv, NEW p \in Pair, NEW sink \in BOOLEAN,
         NEW recording \in BOOLEAN, CreateCall(p, sink, recording)
  PROVE  ProgressInv'
  <1> DEFINE fresh == [pair |-> p, sink |-> sink, before |-> hangUps[p]]
  <1>1. PICK m \in Creation :
        /\ m = placed + 1 /\ placed' = m /\ placed \in 0..MaxCalls /\ dialLive[p] = 0
        /\ call' = [call EXCEPT ![m] = fresh]
        /\ dialLive' = [dialLive EXCEPT ![p] = m]
        /\ reporter' = [reporter EXCEPT ![m] = IF sink THEN "sink" ELSE "done"]
        /\ UNCHANGED <<steps, hangUps>>
    <2>1. placed + 1 \in Creation /\ placed \in 0..MaxCalls
      BY DialAssumption DEF CreateCall, DialInv, DialTypeOK, Creation
    <2> QED BY <2>1 DEF CreateCall
  <1>2. reporter[m] = "none" /\ steps[m] = 0
    BY <1>1 DEF DialInv, ReporterInv, ProgressInv, ScriptInv, Creation
  <1>3. fresh.pair = p /\ fresh.sink = sink
    OBVIOUS
  <1> HIDE DEF fresh
  <1>4. /\ call'[m] = fresh /\ \A n \in Creation \ {m} : call'[n] = call[n]
        /\ reporter'[m] = IF sink THEN "sink" ELSE "done"
        /\ \A n \in Creation \ {m} : reporter'[n] = reporter[n]
        /\ dialLive'[p] = m /\ \A q \in Pair \ {p} : dialLive'[q] = dialLive[q]
    BY <1>1 DEF DialInv, DialTypeOK
  <1>5. \A n \in Creation \ {m} :
           /\ PairOf(n)' = PairOf(n) /\ Scripted(n)' = Scripted(n) /\ PairOf(n) \in Pair
           /\ HungUp(n)' = HungUp(n)
    BY <1>1, <1>4, PairTyped DEF PairOf, Scripted, HungUp, DialInv
  <1>6. PairOf(m)' = p /\ Scripted(m)' \in Nat
    BY <1>3, <1>4, ScriptLength DEF PairOf, Scripted
  <1>7. ScriptInv'
    BY <1>1, <1>2, <1>4, <1>5, <1>6 DEF ProgressInv, ScriptInv
  <1>8. LivesOnInv'
    <2> SUFFICES ASSUME NEW n \in Creation, n <= placed', dialLive'[PairOf(n)'] # n
                 PROVE  HungUp(n)'
      BY DEF LivesOnInv
    <2>1. n # m /\ n <= placed /\ n # 0
      BY <1>1, <1>4, <1>6 DEF Creation
    <2>2. dialLive[PairOf(n)] # n
      BY <1>1, <1>4, <1>5, <2>1
    <2> QED BY <1>5, <2>1, <2>2 DEF ProgressInv, LivesOnInv
  <1>9. ToldInFull'
    BY <1>1, <1>2, <1>3, <1>4, <1>5, <1>6 DEF ProgressInv, ToldInFull
  <1> QED BY <1>7, <1>8, <1>9 DEF ProgressInv

LEMMA ReporterProgress ==
  ASSUME DialInv, ProgressInv, NEW m \in Creation,
         StoreSink(m) \/ LookUp(m) \/ SendStep(m)
  PROVE  ProgressInv'
  <1>1. UNCHANGED <<placed, call, dialLive, hangUps>>
    BY DEF StoreSink, LookUp, SendStep
  <1>2. \A n \in Creation : /\ Scripted(n)' = Scripted(n) /\ HungUp(n)' = HungUp(n)
                            /\ Scripted(n) \in Nat /\ steps[n] \in Nat
    BY <1>1, ScriptLength DEF PairOf, Scripted, HungUp, DialInv, DialTypeOK
  <1>3. LivesOnInv'
    BY <1>1 DEF ProgressInv, LivesOnInv, HungUp, PairOf
  <1>4. m <= placed
    BY DEF StoreSink, LookUp, SendStep, DialInv, DialTypeOK, ReporterInv, Creation
  <1>5. /\ \A n \in Creation \ {m} : reporter'[n] = reporter[n] /\ steps'[n] = steps[n]
        /\ reporter'[m] \in {"look", "send"} => steps'[m] < Scripted(m)
        /\ reporter'[m] \notin {"none", "sink"}
        /\ steps'[m] <= Scripted(m)
        /\ reporter'[m] = "done" => steps'[m] = Scripted(m) \/ HungUp(m)
    <2>1. CASE StoreSink(m)
      <3>1. steps[m] = 0
        BY <2>1 DEF StoreSink, ProgressInv, ScriptInv
      <3>2. Script(PairOf(m)) = <<>> => Scripted(m) = 0
        BY DEF Scripted
      <3>3. Script(PairOf(m)) # <<>> => Scripted(m) > 0
        BY ScriptLength DEF Scripted
      <3>4. /\ steps' = steps
            /\ reporter' = [reporter EXCEPT ![m] =
                              IF Script(PairOf(m)) = <<>> THEN "done" ELSE "look"]
        BY <2>1 DEF StoreSink
      <3> QED BY <1>2, <3>1, <3>2, <3>3, <3>4 DEF DialInv, DialTypeOK
    <2>2. CASE LookUp(m)
      <3>1. /\ reporter[m] = "look" /\ steps' = steps
            /\ reporter' = [reporter EXCEPT ![m] = IF dialLive[PairOf(m)] = 0
                                                   THEN "done" ELSE "send"]
        BY <2>2 DEF LookUp
      <3>2. dialLive[PairOf(m)] = 0 => HungUp(m)
        BY <1>4 DEF ProgressInv, LivesOnInv, Creation
      <3>3. steps[m] < Scripted(m)
        BY <3>1 DEF ProgressInv, ScriptInv
      <3> QED BY <1>2, <3>1, <3>2, <3>3 DEF DialInv, DialTypeOK
    <2>3. CASE SendStep(m)
      <3>1. /\ reporter[m] = "send" /\ steps' = [steps EXCEPT ![m] = @ + 1]
            /\ reporter' = [reporter EXCEPT ![m] = IF steps'[m] = Scripted(m)
                                                   THEN "done" ELSE "look"]
        BY <2>3 DEF SendStep, Scripted
      <3>2. steps[m] < Scripted(m)
        BY <3>1 DEF ProgressInv, ScriptInv
      <3> QED BY <1>2, <3>1, <3>2 DEF DialInv, DialTypeOK
    <2> QED BY <2>1, <2>2, <2>3
  <1>6. ScriptInv' /\ ToldInFull'
    BY <1>1, <1>2, <1>5 DEF ProgressInv, ScriptInv, ToldInFull
  <1> QED BY <1>3, <1>6 DEF ProgressInv

LEMMA TerminateProgress ==
  ASSUME DialInv, ProgressInv, NEW c \in DialConnection, NEW p \in Pair, TerminateCall(c, p)
  PROVE  ProgressInv'
  <1>1. /\ dialLive' = [dialLive EXCEPT ![p] = 0]
        /\ hangUps' = [hangUps EXCEPT ![p] = @ + 1]
        /\ UNCHANGED <<placed, call, reporter, steps>>
    BY DEF TerminateCall
  <1>2. ASSUME NEW n \in Creation
        PROVE  /\ Scripted(n)' = Scripted(n) /\ PairOf(n)' = PairOf(n)
               /\ HungUp(n) => HungUp(n)'
               /\ PairOf(n) = p => HungUp(n)'
    <2>1. /\ PairOf(n) \in Pair /\ call[n].before \in Nat /\ lateSteps[n] \in Nat
          /\ \A q \in Pair : hangUps[q] \in Nat
          /\ Owed(n) \in Nat /\ lateSteps[n] + Owed(n) <= hangUps[PairOf(n)] - call[n].before
      BY PairTyped DEF DialInv, DialTypeOK, LateInv, Owed
    <2>2. call[n].before <= hangUps[PairOf(n)]
      BY <2>1
    <2>3. PairOf(n)' = PairOf(n) /\ call'[n] = call[n]
      BY <1>1 DEF PairOf
    <2>4. hangUps' \in [Pair -> Nat] /\ hangUps'[p] = hangUps[p] + 1
          /\ \A q \in Pair \ {p} : hangUps'[q] = hangUps[q]
      BY <1>1 DEF DialInv, DialTypeOK
    <2> QED BY <2>1, <2>2, <2>3, <2>4 DEF Scripted, HungUp
  <1>3. \A q \in Pair \ {p} : dialLive'[q] = dialLive[q]
    BY <1>1 DEF DialInv, DialTypeOK
  <1>4. \A n \in Creation : PairOf(n) \in Pair
    BY PairTyped DEF DialInv
  <1>5. ScriptInv' /\ ToldInFull'
    BY <1>1, <1>2 DEF ProgressInv, ScriptInv, ToldInFull
  <1>6. LivesOnInv'
    <2> SUFFICES ASSUME NEW n \in Creation, n <= placed', dialLive'[PairOf(n)'] # n
                 PROVE  HungUp(n)'
      BY DEF LivesOnInv
    <2>1. CASE PairOf(n) = p
      BY <2>1, <1>2
    <2>2. CASE PairOf(n) # p
      BY <2>2, <1>1, <1>2, <1>3, <1>4 DEF ProgressInv, LivesOnInv
    <2> QED BY <2>1, <2>2
  <1> QED BY <1>5, <1>6 DEF ProgressInv

LEMMA ProgressNextInv == DialInv /\ ProgressInv /\ [DialNext]_dialVars => ProgressInv'
  <1> SUFFICES ASSUME DialInv, ProgressInv, [DialNext]_dialVars PROVE ProgressInv'
    OBVIOUS
  <1>1. CASE \/ UNCHANGED dialVars
             \/ \E c \in DialConnection : NotifyHangUp(c)
    <2>1. UNCHANGED <<placed, call, dialLive, reporter, steps, hangUps>>
      BY <1>1 DEF dialVars, NotifyHangUp
    <2> QED BY <2>1 DEF ProgressInv, ScriptInv, LivesOnInv, ToldInFull, Scripted, HungUp,
                        PairOf
  <1> QED BY <1>1, CreateProgress, ReporterProgress, TerminateProgress DEF DialNext

\* Whatever calls come and go under the id of a call, its progress is told up to
\* the completion event, or cut short because a DELETE ended that very call.
THEOREM ProgressIsToldInFull == DialSpec => []ToldInFull
  <1>1. ProgressInv => ToldInFull
    BY DEF ProgressInv
  <1> QED BY <1>1, ProgressInitInv, ProgressNextInv, DialInvariant, PTL DEF DialSpec

=============================================================================
