---------------------------- MODULE ClickToDial ----------------------------
(***************************************************************************)
(* Click to dial: a map of calls and a map of sinks, each behind a mutex,  *)
(* both keyed by an id that is a hash of the two numbers.  The id of an    *)
(* ended call is therefore the id of the next call between the same two    *)
(* numbers, and the detached task that reports the progress of a call      *)
(* looks the call up by that id before each step.                          *)
(*                                                                         *)
(* An action is one stretch between two acquisitions of a mutex; the task  *)
(* awaits its own deliveries, so a look-up and the event it leads to are   *)
(* two actions.  Accepted creations are numbered, so that two calls with   *)
(* one id can be told apart.                                               *)
(***************************************************************************)
EXTENDS Scenarios

CONSTANTS
    DialConnection,   \* connections that serve DELETEs
    Pair,             \* caller and callee: [caller, callee] of digit sequences
    MaxCalls          \* bound: calls accepted in a behaviour

ASSUME DialAssumption ==
    /\ Pair # {}
    /\ Pair \subseteq [caller : Seq(Digit), callee : Seq(Digit)]
    /\ MaxCalls \in Nat

VARIABLES
    placed,      \* calls accepted so far
    call,        \* what each of them was created with
    dialLive,    \* the call map: a pair's creation, 0 where there is none
    sinks,       \* the sink map: the creation that stored a pair's entry, or 0
    reporter,    \* where the handler and then the progress task of a call is
    steps,       \* progress events a call has sent
    lateSteps,   \* those sent while no call of its pair existed
    hangUp,      \* what a DELETE has yet to look the sink up for
    hangUps,     \* evictions per pair
    notices      \* the `disconnected` events DELETEs sent

dialVars == <<placed, call, dialLive, sinks, reporter, steps, lateSteps,
              hangUp, hangUps, notices>>

-----------------------------------------------------------------------------
(* Data *)

Creation == 1..MaxCalls

\* `before` is the number of evictions its pair had when it was created.
Call == [pair : Pair, sink : BOOLEAN, before : Nat]

ReporterPc == {"none", "sink", "look", "send", "done"}
Waiting == [pair : Pair, eviction : Nat]
Notice == [pair : Pair, eviction : Nat, creation : Creation]

\* SUCCESS_PROGRESSION and FULL_PROGRESSION end in the completion event.
Script(p) ==
    CASE TrailingThreeDigits(p.callee) = 1 ->
            <<"callingCallee", "connected", "disconnected">>
      [] TrailingThreeDigits(p.callee) = 2 -> <<"callingCallee", "failed">>
      [] TrailingThreeDigits(p.callee) = 3 ->
            <<"callingCaller", "callingCallee", "connected", "disconnected">>
      [] OTHER -> <<>>

PairOf(n) == call[n].pair

-----------------------------------------------------------------------------
(* POST: create a call *)

CallAccepted(p, recording) ==
    /\ p.caller # p.callee
    /\ ~IsReservedError(p.callee)
    /\ TrailingThreeDigits(p.caller) # 0 /\ TrailingThreeDigits(p.callee) # 0
    /\ recording => TrailingThreeDigits(p.callee) # 777

\* Validate and store::insert_new; a pair that has a call is refused with 409.
CreateCall(p, sink, recording) ==
    /\ placed < MaxCalls
    /\ CallAccepted(p, recording)
    /\ dialLive[p] = 0
    /\ placed' = placed + 1
    /\ call' = [call EXCEPT ![placed'] =
                  [pair |-> p, sink |-> sink, before |-> hangUps[p]]]
    /\ dialLive' = [dialLive EXCEPT ![p] = placed']
    /\ reporter' = [reporter EXCEPT ![placed'] = IF sink THEN "sink" ELSE "done"]
    /\ UNCHANGED <<sinks, steps, lateSteps, hangUp, hangUps, notices>>

\* store::insert_sink over whatever was there, the `initiating` event, and the
\* progress task if the callee's digits ask for one.
StoreSink(n) ==
    /\ reporter[n] = "sink"
    /\ sinks' = [sinks EXCEPT ![PairOf(n)] = n]
    /\ reporter' = [reporter EXCEPT ![n] =
                      IF Script(PairOf(n)) = <<>> THEN "done" ELSE "look"]
    /\ UNCHANGED <<placed, call, dialLive, steps, lateSteps, hangUp, hangUps, notices>>

-----------------------------------------------------------------------------
(* spawn_call_progression *)

\* Mutant: a step that finds no call is skipped, not the end of the task.
LookUpSkips(n) ==
    /\ reporter[n] = "look"
    /\ reporter' = [reporter EXCEPT ![n] = "send"]
    /\ UNCHANGED <<placed, call, dialLive, sinks, steps, lateSteps, hangUp, hangUps, notices>>

\* After the grace: is there still a call under this id?
LookUp(n) ==
    /\ reporter[n] = "look"
    /\ reporter' = [reporter EXCEPT ![n] = IF dialLive[PairOf(n)] = 0
                                           THEN "done" ELSE "send"]
    /\ UNCHANGED <<placed, call, dialLive, sinks, steps, lateSteps, hangUp, hangUps, notices>>

SendStep(n) ==
    /\ reporter[n] = "send"
    /\ steps' = [steps EXCEPT ![n] = @ + 1]
    /\ lateSteps' = [lateSteps EXCEPT ![n] = IF dialLive[PairOf(n)] = 0
                                             THEN @ + 1 ELSE @]
    /\ reporter' = [reporter EXCEPT ![n] = IF steps'[n] = Len(Script(PairOf(n)))
                                           THEN "done" ELSE "look"]
    /\ UNCHANGED <<placed, call, dialLive, sinks, hangUp, hangUps, notices>>

-----------------------------------------------------------------------------
(* DELETE: terminate a call *)

\* store::remove, for whoever asks first.
TerminateCall(c, p) ==
    /\ hangUp[c] = {}
    /\ dialLive[p] # 0
    /\ dialLive' = [dialLive EXCEPT ![p] = 0]
    /\ hangUps' = [hangUps EXCEPT ![p] = @ + 1]
    /\ hangUp' = [hangUp EXCEPT ![c] = {[pair |-> p, eviction |-> hangUps'[p]]}]
    /\ UNCHANGED <<placed, call, sinks, reporter, steps, lateSteps, notices>>

\* Mutant: the sink is read and left in the map.
NotifyHangUpKeeps(c) ==
    /\ \E w \in hangUp[c] :
          IF sinks[w.pair] = 0 THEN UNCHANGED notices
          ELSE notices' = notices \cup
                  {[pair |-> w.pair, eviction |-> w.eviction,
                    creation |-> sinks[w.pair]]}
    /\ hangUp' = [hangUp EXCEPT ![c] = {}]
    /\ UNCHANGED <<placed, call, dialLive, sinks, reporter, steps, lateSteps, hangUps>>

\* store::take_sink: tell the sink, if the map has one, and forget it.
NotifyHangUp(c) ==
    /\ \E w \in hangUp[c] :
          /\ IF sinks[w.pair] = 0 THEN UNCHANGED notices
             ELSE notices' = notices \cup
                     {[pair |-> w.pair, eviction |-> w.eviction,
                       creation |-> sinks[w.pair]]}
          /\ sinks' = [sinks EXCEPT ![w.pair] = 0]
    /\ hangUp' = [hangUp EXCEPT ![c] = {}]
    /\ UNCHANGED <<placed, call, dialLive, reporter, steps, lateSteps, hangUps>>

-----------------------------------------------------------------------------
DialInit ==
    /\ placed = 0
    /\ call = [n \in Creation |-> [pair |-> CHOOSE p \in Pair : TRUE,
                                   sink |-> FALSE, before |-> 0]]
    /\ dialLive = [p \in Pair |-> 0]
    /\ sinks = [p \in Pair |-> 0]
    /\ reporter = [n \in Creation |-> "none"]
    /\ steps = [n \in Creation |-> 0]
    /\ lateSteps = [n \in Creation |-> 0]
    /\ hangUp = [c \in DialConnection |-> {}]
    /\ hangUps = [p \in Pair |-> 0]
    /\ notices = {}

DialNext ==
    \/ \E p \in Pair, sink, recording \in BOOLEAN : CreateCall(p, sink, recording)
    \/ \E n \in Creation : StoreSink(n) \/ LookUp(n) \/ SendStep(n)
    \/ \E c \in DialConnection, p \in Pair : TerminateCall(c, p)
    \/ \E c \in DialConnection : NotifyHangUp(c)

DialSpec == DialInit /\ [][DialNext]_dialVars

-----------------------------------------------------------------------------
(* Properties *)

\* Every variable has its type.
DialTypeOK ==
    /\ placed \in 0..MaxCalls
    /\ call \in [Creation -> Call]
    /\ dialLive \in [Pair -> 0..MaxCalls]
    /\ sinks \in [Pair -> 0..MaxCalls]
    /\ reporter \in [Creation -> ReporterPc]
    /\ steps \in [Creation -> Nat]
    /\ lateSteps \in [Creation -> Nat]
    /\ hangUp \in [DialConnection -> SUBSET Waiting]
    /\ hangUps \in [Pair -> Nat]
    /\ notices \subseteq Notice

\* The `disconnected` events of terminateCall pair evictions with stored sinks
\* one to one: no eviction is announced twice, no stored sink (nor the secret
\* beside it) is used twice, and each belongs to a call of that pair that asked
\* for a sink, although the calls of a pair share one entry of the sink map.
HangUpsToldOnce ==
    /\ DialTypeOK
    /\ \A a \in notices :
          /\ PairOf(a.creation) = a.pair /\ call[a.creation].sink
          /\ a.eviction \in 1..hangUps[a.pair]
    /\ \A a, b \in notices :
          a.pair = b.pair /\ (a.eviction = b.eviction \/ a.creation = b.creation)
             => a = b

\* A call that is terminated may still report one step of its progress, the one
\* its task had looked the call up for, and no more: each eviction of its id
\* lets at most one step through while no call has that id.
LateStepsBounded ==
    \A n \in Creation : lateSteps[n] <= hangUps[PairOf(n)] - call[n].before

=============================================================================
