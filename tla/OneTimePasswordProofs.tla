----------------------- MODULE OneTimePasswordProofs -----------------------
(***************************************************************************)
(* Proofs about OneTimePassword, for any number of callers, ids and codes, *)
(* any budget and any lifetime.                                            *)
(***************************************************************************)
EXTENDS OneTimePassword, TLAPS

\* An id that was never issued is untouched; one that was redeemed is gone.
RedeemedInv ==
    \A i \in Id : /\ i \notin minted => passed[i] = 0 /\ wrong[i] = 0
                  /\ passed[i] > 0 => i \notin live

Inv == TypeOK /\ GuessBudget /\ RedeemedInv

LEMMA InitInv == Init => Inv
  <1> SUFFICES ASSUME Init PROVE Inv
    OBVIOUS
  <1>1. NoOtp \in Otp /\ NoOtp.attemptsLeft = MaxAttempts
    BY ConstantsAssumption DEF NoOtp, Otp
  <1> QED BY <1>1, ConstantsAssumption
          DEF Init, Inv, TypeOK, GuessBudget, RedeemedInv

LEMMA SendStep ==
  ASSUME Inv, NEW c \in Client, NEW p \in Phone, NEW i \in Id, SendCode(c, p, i)
  PROVE  Inv'
  <1> DEFINE entry == [code |-> OtpCode[p], expiresAt |-> now + OtpTTL,
                       attemptsLeft |-> MaxAttempts]
  <1>1. entry \in Otp /\ entry.attemptsLeft = MaxAttempts
    BY ConstantsAssumption DEF Inv, TypeOK, Otp
  <1>2. /\ i \notin minted /\ minted' = minted \cup {i} /\ live' = live \cup {i}
        /\ otp' = [otp EXCEPT ![i] = entry]
        /\ UNCHANGED <<passed, wrong, now>>
    BY DEF SendCode
  <1> HIDE DEF entry
  <1>3. wrong[i] = 0 /\ passed[i] = 0
    BY <1>2 DEF Inv, RedeemedInv
  <1> QED BY <1>1, <1>2, <1>3, ConstantsAssumption
          DEF Inv, TypeOK, GuessBudget, RedeemedInv

LEMMA EvictStep ==
  ASSUME Inv, NEW i \in live, EvictExpired(i), UNCHANGED <<minted, now>>
  PROVE  Inv'
  BY DEF Inv, TypeOK, GuessBudget, RedeemedInv, EvictExpired

LEMMA AcceptStep ==
  ASSUME Inv, NEW i \in live, NEW code \in Code, Accept(i, code), UNCHANGED <<minted, now>>
  PROVE  Inv'
  <1>1. passed[i] = 0 /\ i \in minted /\ i \in Id /\ otp[i].attemptsLeft > 0
    BY DEF Inv, TypeOK, RedeemedInv, GuessBudget
  <1>2. /\ live' = live \ {i} /\ passed' = [passed EXCEPT ![i] = 1]
        /\ UNCHANGED <<minted, otp, wrong, now>>
    BY <1>1 DEF Accept
  <1>3. wrong[i] < MaxAttempts
    BY <1>1, ConstantsAssumption DEF Inv, TypeOK, GuessBudget, Otp
  <1> QED BY <1>1, <1>2, <1>3 DEF Inv, TypeOK, GuessBudget, RedeemedInv

LEMMA RejectStep ==
  ASSUME Inv, NEW i \in live, NEW code \in Code, Reject(i, code), UNCHANGED <<minted, now>>
  PROVE  Inv'
  <1>1. /\ i \in Id /\ i \in minted /\ passed[i] = 0 /\ otp[i] \in Otp /\ wrong[i] \in Nat
        /\ otp[i].attemptsLeft \in 1..MaxAttempts
        /\ wrong[i] + otp[i].attemptsLeft = MaxAttempts
    BY ConstantsAssumption DEF Inv, TypeOK, RedeemedInv, GuessBudget, Otp
  <1>2. /\ wrong' = [wrong EXCEPT ![i] = @ + 1]
        /\ otp' = [otp EXCEPT ![i].attemptsLeft = @ - 1]
        /\ live' = IF otp[i].attemptsLeft = 1 THEN live \ {i} ELSE live
        /\ UNCHANGED <<minted, passed, now>>
    BY DEF Reject
  <1>3. /\ otp'[i].attemptsLeft = otp[i].attemptsLeft - 1 /\ otp'[i] \in Otp
        /\ wrong'[i] = wrong[i] + 1
        /\ \A j \in Id \ {i} : otp'[j] = otp[j] /\ wrong'[j] = wrong[j]
    BY <1>1, <1>2, ConstantsAssumption DEF Inv, TypeOK, Otp
  <1>4. TypeOK'
    <2>1. otp' \in [Id -> Otp]
      BY <1>2, <1>3 DEF Inv, TypeOK
    <2> QED BY <1>2, <2>1 DEF Inv, TypeOK
  <1>5. GuessBudget'
    <2> SUFFICES ASSUME NEW j \in Id
                 PROVE  /\ wrong'[j] + otp'[j].attemptsLeft = MaxAttempts
                        /\ j \in live' => otp'[j].attemptsLeft > 0
                        /\ passed'[j] > 0 => wrong'[j] < MaxAttempts
      BY DEF GuessBudget
    <2>1. CASE j = i
      BY <1>1, <1>2, <1>3, <2>1, ConstantsAssumption
    <2>2. CASE j # i
      BY <1>2, <1>3, <2>2 DEF Inv, GuessBudget
    <2> QED BY <2>1, <2>2
  <1>6. RedeemedInv'
    BY <1>1, <1>2, <1>3 DEF Inv, RedeemedInv
  <1> QED BY <1>4, <1>5, <1>6 DEF Inv

LEMMA NextInv == Inv /\ [Next]_vars => Inv'
  <1> SUFFICES ASSUME Inv, [Next]_vars PROVE Inv'
    OBVIOUS
  <1>1. ASSUME NEW c \in Client, NEW p \in Phone, NEW i \in Id, SendCode(c, p, i)
        PROVE  Inv'
    BY <1>1, SendStep
  <1>2. ASSUME NEW c \in Client, NEW code \in Code, NEW i \in Id, ValidateCode(c, i, code)
        PROVE  Inv'
    BY <1>2, EvictStep, AcceptStep, RejectStep DEF ValidateCode
  <1>3. CASE Tick
    BY <1>3 DEF Tick, Inv, TypeOK, GuessBudget, RedeemedInv
  <1>4. CASE UNCHANGED vars
    BY <1>4 DEF vars, Inv, TypeOK, GuessBudget, RedeemedInv
  <1> QED BY <1>1, <1>2, <1>3, <1>4 DEF Next

THEOREM InvHolds == Spec => []Inv
  <1> QED BY InitInv, NextInv, PTL DEF Spec

\* The state keeps its shape; in particular no id is ever answered 204 twice.
THEOREM TypeCorrect == Spec => []TypeOK
  <1>1. Inv => TypeOK
    BY DEF Inv
  <1> QED BY <1>1, InvHolds, PTL

\* store::validate: every stored password has an attempt left, attempts left and
\* attempts made add up to the budget, and none is accepted once it is spent.
THEOREM BudgetKept == Spec => []GuessBudget
  <1>1. Inv => GuessBudget
    BY DEF Inv
  <1> QED BY <1>1, InvHolds, PTL

\* store::validate: what expired, or was burned, is never answered 204.
THEOREM NeverPassedLate == Spec => ExpiredNeverPasses
  <1>1. ASSUME Inv, [Next]_vars, NEW i \in minted,
               now >= otp[i].expiresAt \/ i \notin live, passed[i] = 0
        PROVE  passed'[i] = 0
    <2>1. ASSUME NEW c \in Client, NEW p \in Phone, NEW j \in Id, SendCode(c, p, j)
          PROVE  passed'[i] = 0
      BY <1>1, <2>1 DEF SendCode
    <2>2. ASSUME NEW c \in Client, NEW code \in Code, NEW j \in Id, ValidateCode(c, j, code)
          PROVE  passed'[i] = 0
      <3>1. CASE j = i
        BY <1>1, <2>2, <3>1 DEF ValidateCode, EvictExpired, Accept, Reject, Inv, TypeOK, Otp
      <3>2. CASE j # i
        BY <1>1, <2>2, <3>2 DEF ValidateCode, EvictExpired, Accept, Reject, Inv, TypeOK
      <3> QED BY <3>1, <3>2
    <2>3. CASE Tick \/ UNCHANGED vars
      BY <1>1, <2>3 DEF Tick, vars
    <2> QED BY <1>1, <2>1, <2>2, <2>3 DEF Next
  <1>2. Inv /\ [Next]_vars =>
          [\A i \in minted :
             ((now >= otp[i].expiresAt \/ i \notin live) /\ passed[i] = 0)
                 => passed'[i] = 0]_vars
    BY <1>1
  <1> QED BY <1>2, InvHolds, PTL DEF Spec, ExpiredNeverPasses

\* An authenticationId behaves as a one-time grant: the store implements it.
THEOREM GrantImplemented == Spec => ImplementsGrants
  <1>1. Init => Grants!Init
    BY DEF Init, Grants!Init, OtpPhase
  <1>2. ASSUME Inv, Inv', [Next]_vars PROVE [Grants!Next]_(Grants!vars)
    <2> USE DEF OtpPhase
    <2>1. ASSUME NEW c \in Client, NEW p \in Phone, NEW i \in Id, SendCode(c, p, i)
          PROVE  Grants!Issue(i)
      <3>1. i \notin minted /\ i \in minted' /\ i \in live'
        BY <2>1 DEF SendCode
      <3>2. \A j \in Id \ {i} : OtpPhase(j)' = OtpPhase(j)
        BY <2>1 DEF SendCode
      <3> QED BY <2>1, <3>1, <3>2 DEF SendCode, Grants!Issue, Grants!Move
    <2>2. ASSUME NEW i \in live, EvictExpired(i), UNCHANGED <<minted, now>>
          PROVE  Grants!Reject(i)
      <3>1. i \in Id /\ i \in minted /\ passed[i] = 0
        BY <1>2 DEF Inv, TypeOK, RedeemedInv
      <3>2. \A j \in Id \ {i} : OtpPhase(j)' = OtpPhase(j)
        BY <2>2 DEF EvictExpired
      <3>3. OtpPhase(i) = "open" /\ OtpPhase(i)' = "void"
        BY <2>2, <3>1 DEF EvictExpired
      <3>4. UNCHANGED {p \in {1} \X Id : passed[p[2]] > 0}
        BY <2>2 DEF EvictExpired
      <3> HIDE DEF OtpPhase
      <3>5. Grants!Move(i, {"open", "held"}, "void")
        BY <3>1, <3>2, <3>3 DEF Grants!Move
      <3> QED BY <3>4, <3>5 DEF Grants!Reject
    <2>3. ASSUME NEW i \in live, NEW code \in Code, Accept(i, code), UNCHANGED <<minted, now>>
          PROVE  Grants!PayOut(i)
      <3>1. i \in Id /\ i \in minted /\ passed[i] = 0
        BY <1>2 DEF Inv, TypeOK, RedeemedInv
      <3>2. live' = live \ {i} /\ passed' = [passed EXCEPT ![i] = 1]
        BY <2>3, <3>1 DEF Accept
      <3>3. \A j \in Id \ {i} : OtpPhase(j)' = OtpPhase(j)
        BY <1>2, <2>3, <3>2 DEF Inv, TypeOK
      <3>4. Grants!Move(i, {"open", "held"}, "spent")
        <4>1. OtpPhase(i) = "open" /\ OtpPhase(i)' = "spent"
          BY <1>2, <2>3, <3>1, <3>2 DEF Inv, TypeOK
        <4> HIDE DEF OtpPhase
        <4> QED BY <3>1, <3>3, <4>1 DEF Grants!Move
      <3> DEFINE P == {p \in {1} \X Id : passed[p[2]] > 0}
      <3>5. <<1, i>> \in P' /\ <<1, i>> \notin P /\ P' = P \cup {<<1, i>>}
        BY <1>2, <3>1, <3>2 DEF Inv, TypeOK
      <3> QED BY <3>4, <3>5 DEF Grants!PayOut
    <2>4. ASSUME NEW i \in live, NEW code \in Code, Reject(i, code), UNCHANGED <<minted, now>>
          PROVE  Grants!Reject(i) \/ UNCHANGED Grants!vars
      <3>1. i \in Id /\ i \in minted /\ passed[i] = 0 /\ passed' = passed
        BY <1>2, <2>4 DEF Inv, TypeOK, RedeemedInv, Reject
      <3>2. \A j \in Id \ {i} : OtpPhase(j)' = OtpPhase(j)
        BY <2>4 DEF Reject
      <3>3. CASE live' = live
        BY <2>4, <3>1, <3>3 DEF Grants!vars
      <3>4. CASE live' = live \ {i}
        <4>1. OtpPhase(i) = "open" /\ OtpPhase(i)' = "void"
          BY <2>4, <3>1, <3>4
        <4>2. UNCHANGED {p \in {1} \X Id : passed[p[2]] > 0}
          BY <3>1
        <4> HIDE DEF OtpPhase
        <4>3. Grants!Move(i, {"open", "held"}, "void")
          BY <3>1, <3>2, <4>1 DEF Grants!Move
        <4> QED BY <4>2, <4>3 DEF Grants!Reject
      <3> QED BY <2>4, <3>3, <3>4 DEF Reject
    <2>5. CASE Tick \/ UNCHANGED vars
      BY <2>5 DEF Tick, vars, Grants!vars
    <2>6. ASSUME NEW c \in Client, NEW code \in Code, NEW i \in Id, ValidateCode(c, i, code)
          PROVE  \/ UNCHANGED Grants!vars
                 \/ Grants!Reject(i) \/ Grants!PayOut(i)
      BY <2>2, <2>3, <2>4, <2>6 DEF ValidateCode
    <2> QED BY <1>2, <2>1, <2>5, <2>6 DEF Next, Grants!Next
  <1> QED BY <1>1, <1>2, InvHolds, PTL DEF Spec, ImplementsGrants, Grants!Spec

=============================================================================
