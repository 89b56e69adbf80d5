-------------------------- MODULE OneTimePassword --------------------------
(***************************************************************************)
(* One Time Password SMS: POST /send-code issues an authenticationId for a *)
(* code, POST /validate-code redeems it                                    *)
(* (src/src/apis/one_time_password_sms, v1.rs and store.rs).  Each takes   *)
(* the store's lock once and does everything, the clock included, under    *)
(* it, so each is one action.  A request that a guard refuses, and one     *)
(* that names no stored id, changes nothing and is a stuttering step.      *)
(***************************************************************************)
EXTENDS Naturals

CONSTANTS
    Client,      \* callers
    Authorised,  \* those whose token carries the API's scope
    Id,          \* authenticationIds store::issue can still mint
    Phone,       \* well-formed phone numbers
    Reserved,    \* those whose suffix selects an error instead
    OtpCode,     \* the code of each phone number: its last six digits
    Code,        \* codes of 1 to 10 characters a caller may submit
    OtpTTL,      \* OTP_TTL_SECS
    MaxAttempts, \* MAX_ATTEMPTS
    MaxTime      \* bound: the clock stops here

ASSUME ConstantsAssumption ==
    /\ Phone # {}
    /\ OtpCode \in [Phone -> Code]
    /\ OtpTTL \in Nat
    /\ MaxAttempts \in Nat \ {0}

VARIABLES
    minted,  \* ids issued so far
    live,    \* the keys of the store
    otp,     \* the value under each key; kept once the key is gone
    passed,  \* validations of each id answered 204
    wrong,   \* wrong codes compared for each id
    now      \* Unix seconds

vars == <<minted, live, otp, passed, wrong, now>>

Otp == [code : Code, expiresAt : Nat, attemptsLeft : 0..MaxAttempts]

NoOtp == [code |-> OtpCode[CHOOSE p \in Phone : TRUE],
          expiresAt |-> 0, attemptsLeft |-> MaxAttempts]

-----------------------------------------------------------------------------
SendCode(c, p, i) ==
    /\ c \in Authorised
    /\ p \notin Reserved
    /\ i \in Id \ minted
    /\ minted' = minted \cup {i}
    /\ live' = live \cup {i}
    /\ otp' = [otp EXCEPT ![i] =
            [code |-> OtpCode[p], expiresAt |-> now + OtpTTL, attemptsLeft |-> MaxAttempts]]
    /\ UNCHANGED <<passed, wrong, now>>

\* Verdict::Expired
EvictExpired(i) ==
    /\ now >= otp[i].expiresAt
    /\ live' = live \ {i}
    /\ UNCHANGED <<otp, passed, wrong>>

\* Mutant: an accepted password stays valid.
AcceptKeeps(i, code) ==
    /\ now < otp[i].expiresAt
    /\ code = otp[i].code
    /\ passed' = [passed EXCEPT ![i] = @ + 1]
    /\ UNCHANGED <<live, otp, wrong>>

\* Mutant: the clock is not consulted.
AcceptLate(i, code) ==
    /\ code = otp[i].code
    /\ live' = live \ {i}
    /\ passed' = [passed EXCEPT ![i] = @ + 1]
    /\ UNCHANGED <<otp, wrong>>

\* Verdict::Ok: single use.
Accept(i, code) ==
    /\ now < otp[i].expiresAt
    /\ code = otp[i].code
    /\ live' = live \ {i}
    /\ passed' = [passed EXCEPT ![i] = @ + 1]
    /\ UNCHANGED <<otp, wrong>>

\* Mutant: the attempt that exhausts the budget is tolerated once more.
RejectLate(i, code) ==
    /\ now < otp[i].expiresAt
    /\ code # otp[i].code
    /\ wrong' = [wrong EXCEPT ![i] = @ + 1]
    /\ live' = IF otp[i].attemptsLeft = 0 THEN live \ {i} ELSE live
    /\ otp' = [otp EXCEPT ![i].attemptsLeft = IF @ = 0 THEN 0 ELSE @ - 1]
    /\ UNCHANGED passed

\* Verdict::InvalidOtp, or Verdict::Failed when it was the last attempt.
Reject(i, code) ==
    /\ now < otp[i].expiresAt
    /\ code # otp[i].code
    /\ wrong' = [wrong EXCEPT ![i] = @ + 1]
    /\ otp' = [otp EXCEPT ![i].attemptsLeft = @ - 1]
    /\ live' = IF otp[i].attemptsLeft = 1 THEN live \ {i} ELSE live
    /\ UNCHANGED passed

ValidateCode(c, i, code) ==
    /\ c \in Authorised
    /\ i \in live
    /\ EvictExpired(i) \/ Accept(i, code) \/ Reject(i, code)
    /\ UNCHANGED <<minted, now>>

Tick ==
    /\ now < MaxTime
    /\ now' = now + 1
    /\ UNCHANGED <<minted, live, otp, passed, wrong>>

Init ==
    /\ minted = {} /\ live = {}
    /\ otp = [i \in Id |-> NoOtp]
    /\ passed = [i \in Id |-> 0]
    /\ wrong = [i \in Id |-> 0]
    /\ now = 0

Next ==
    \/ \E c \in Client, i \in Id :
          \/ \E p \in Phone : SendCode(c, p, i)
          \/ \E code \in Code : ValidateCode(c, i, code)
    \/ Tick

Spec == Init /\ [][Next]_vars

-----------------------------------------------------------------------------
(* Correctness *)

TypeOK ==
    /\ live \subseteq minted /\ minted \subseteq Id
    /\ otp \in [Id -> Otp]
    /\ passed \in [Id -> 0..1]
    /\ wrong \in [Id -> Nat]
    /\ now \in Nat

\* The budget of wrong codes, however validations interleave: a stored password
\* always has an attempt left (the branch of store::validate that finds none is
\* dead code), what is left and what was tried add up to MAX_ATTEMPTS, and a
\* password accepted was accepted before the last attempt was spent.
GuessBudget ==
    \A i \in Id :
        /\ wrong[i] + otp[i].attemptsLeft = MaxAttempts
        /\ i \in live => otp[i].attemptsLeft > 0
        /\ passed[i] > 0 => wrong[i] < MaxAttempts

\* An id that expired unredeemed, or was burned, is never redeemed again.
ExpiredNeverPasses ==
    [][\A i \in minted :
          ((now >= otp[i].expiresAt \/ i \notin live) /\ passed[i] = 0) => passed'[i] = 0]_vars

OtpPhase(i) ==
    IF i \notin minted THEN "unissued"
    ELSE IF i \in live THEN "open"
    ELSE IF passed[i] > 0 THEN "spent"
    ELSE "void"

Grants == INSTANCE OneTimeGrant WITH
    Grant   <- Id,
    phase   <- [i \in Id |-> OtpPhase(i)],
    payouts <- {p \in {1} \X Id : passed[p[2]] > 0}

\* An authenticationId is a one-time grant: one 204 at most, and none later.
ImplementsGrants == Grants!Spec

=============================================================================
