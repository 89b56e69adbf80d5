------------------------- MODULE TokenServiceProofs -------------------------
(***************************************************************************)
(* Proofs about TokenService, for any number of connections, clients,      *)
(* grants, hosts and scopes, and any lifetimes.                            *)
(***************************************************************************)
EXTENDS TokenService, TLAPS, FiniteSetTheorems

\* Only an approved consent is ever filed as a code.
CodeInv == \A g \in codes : consent[g].state = "approved"

\* A redemption under way owns a grant that is out of the stores and unpaid, and
\* the grant it is about to sign for is the client's own, approved.
HolderInv ==
    \A c \in Conn : task[c].pc # "idle" =>
        LET g == task[c].grant IN
        /\ g \in minted /\ g \notin codes /\ g \notin requests
        /\ task[c].client \in Client /\ task[c].iss \in Host
        /\ consent[g].state = "approved"
        /\ (task[c].pc = "issue" \/ task[c].matches) => task[c].client = consent[g].client
        /\ \A t \in tokens : t.grant # g

\* No two redemptions own the same grant.
SoleHolderInv ==
    \A c, d \in Conn :
        (task[c].pc # "idle" /\ task[d].pc # "idle" /\ task[c].grant = task[d].grant) => c = d

\* A three-legged token states the consent it was paid from.
PaidInv ==
    \A t \in tokens : t.grant # NoGrant =>
        /\ t.grant \in minted /\ t.grant \notin codes /\ t.grant \notin requests
        /\ t.client = consent[t.grant].client
        /\ t.scope = consent[t.grant].scope
        /\ t.aud = consent[t.grant].audience
        /\ consent[t.grant].state = "approved"

Inv == TypeOK /\ CodeInv /\ HolderInv /\ SoleHolderInv /\ PaidInv /\ GrantPaidOnce

LEMMA BaseUrlType == ASSUME NEW h \in Host PROVE BaseUrl(h) \in Host
  BY ConstantsAssumption DEF BaseUrl

LEMMA BlankType == Blank \in Consent
  BY ConstantsAssumption DEF Blank, Consent, State

LEMMA InitInv == Init => Inv
  BY BlankType, FS_EmptySet
  DEF Init, Inv, TypeOK, CodeInv, HolderInv, SoleHolderInv, PaidInv, GrantPaidOnce, Task, Idle

\* A fresh id bound to a well-formed consent disturbs nothing that exists.
LEMMA MintStep ==
  ASSUME Inv, NEW g \in Grant, g \notin minted, NEW e \in Consent,
         minted' = minted \cup {g}, consent' = [consent EXCEPT ![g] = e],
         \/ codes' = codes \cup {g} /\ requests' = requests /\ e.state = "approved"
         \/ codes' = codes /\ requests' = requests \cup {g},
         UNCHANGED <<task, tokens, now>>
  PROVE  Inv'
  <1> USE DEF Inv
  <1>1. \A j \in minted : consent'[j] = consent[j] /\ j # g
    BY DEF TypeOK
  <1>2. TypeOK'
    BY DEF TypeOK
  <1>3. CodeInv'
    BY <1>1 DEF CodeInv, TypeOK
  <1>4. HolderInv' /\ SoleHolderInv'
    BY <1>1 DEF HolderInv, SoleHolderInv
  <1>5. PaidInv' /\ GrantPaidOnce'
    BY <1>1 DEF PaidInv, GrantPaidOnce
  <1> QED BY <1>2, <1>3, <1>4, <1>5

LEMMA ConsentingStep == ASSUME Inv, Consenting PROVE Inv'
  <1>1. ASSUME NEW g \in Grant, NEW client \in Client, NEW scope \in ScopeRequest,
               NEW h \in Host, NEW redirect \in Redirect, NEW verifier \in Verifier,
               Authorize(g, client, redirect, verifier, scope, h)
        PROVE  Inv'
    <2> DEFINE e == [client |-> client, redirect |-> redirect, verifier |-> verifier,
                     scope |-> scope, audience |-> BaseUrl(h), state |-> "approved",
                     expiresAt |-> now + CodeTTL]
    <2>1. e \in Consent /\ e.state = "approved"
      BY BaseUrlType, ConstantsAssumption DEF Consent, State, Inv, TypeOK
    <2>2. /\ g \notin minted /\ minted' = minted \cup {g}
          /\ consent' = [consent EXCEPT ![g] = e]
          /\ codes' = codes \cup {g} /\ requests' = requests
          /\ UNCHANGED <<task, tokens, now>>
      BY <1>1 DEF Authorize
    <2> HIDE DEF e
    <2> QED BY <2>1, <2>2, MintStep
  <1>2. ASSUME NEW g \in Grant, NEW client \in Client, NEW scope \in ScopeRequest,
               NEW h \in Host, NEW state \in State, BcAuthorize(g, client, scope, state, h)
        PROVE  Inv'
    <2> DEFINE e == [Blank EXCEPT !.client = client, !.scope = scope,
                                  !.audience = BaseUrl(h), !.state = state,
                                  !.expiresAt = now + RequestTTL]
    <2>1. e \in Consent
      <3>1. /\ BaseUrl(h) \in Host /\ scope \in SUBSET ScopeName
            /\ now + RequestTTL \in Nat
        BY BaseUrlType, ConstantsAssumption DEF Inv, TypeOK
      <3>2. \A b \in Consent :
               [b EXCEPT !.client = client, !.scope = scope, !.audience = BaseUrl(h),
                         !.state = state, !.expiresAt = now + RequestTTL] \in Consent
        BY <3>1 DEF Consent
      <3> QED BY <3>2, BlankType
    <2>2. /\ g \notin minted /\ minted' = minted \cup {g}
          /\ consent' = [consent EXCEPT ![g] = e]
          /\ codes' = codes /\ requests' = requests \cup {g}
          /\ UNCHANGED <<task, tokens, now>>
      BY <1>2 DEF BcAuthorize
    <2> HIDE DEF e
    <2> QED BY <2>1, <2>2, MintStep
  <1> QED BY <1>1, <1>2 DEF Consenting

\* A connection takes a grant out of its store.
LEMMA TakeStep ==
  ASSUME Inv, NEW c \in Conn, NEW g \in codes \cup requests, NEW w \in Task,
         task[c] = Idle, task' = [task EXCEPT ![c] = w],
         w.pc # "idle", w.grant = g, w.client \in Client, w.iss \in Host,
         consent[g].state = "approved",
         w.pc = "issue" \/ w.matches => w.client = consent[g].client,
         codes' = codes \ {g}, requests' = requests \ {g},
         UNCHANGED <<minted, consent, tokens, now>>
  PROVE  Inv'
  <1> USE DEF Inv
  <1>1. g \in minted /\ \A t \in tokens : t.grant # g
    BY ConstantsAssumption DEF TypeOK, PaidInv
  <1>2. \A d \in Conn : task[d].pc # "idle" => task[d].grant # g
    BY DEF HolderInv
  <1>3. \A d \in Conn : d # c => task'[d] = task[d]
    BY DEF TypeOK
  <1>4. task'[c] = w
    BY DEF TypeOK
  <1>5. TypeOK'
    BY DEF TypeOK
  <1>6. CodeInv' /\ PaidInv' /\ GrantPaidOnce'
    BY DEF CodeInv, PaidInv, GrantPaidOnce
  <1>7. HolderInv'
    BY <1>1, <1>3, <1>4 DEF HolderInv
  <1>8. SoleHolderInv'
    BY <1>2, <1>3, <1>4 DEF SoleHolderInv
  <1> QED BY <1>5, <1>6, <1>7, <1>8

LEMMA RedeemStep ==
  ASSUME Inv, NEW c \in Conn, NEW g \in Grant, NEW client \in Client, NEW h \in Host,
         NEW redirect \in Redirect, NEW verifier \in Verifier,
         RedeemCode(c, g, client, redirect, verifier, h)
  PROVE  Inv'
  <1> DEFINE w == [pc |-> "redeemed", grant |-> g, client |-> client, iss |-> BaseUrl(h),
                   matches |-> FormMatches(g, client, redirect, verifier)]
  <1>1. w \in Task /\ w.pc = "redeemed" /\ w.grant = g /\ w.client = client
        /\ w.iss \in Host
    <2>1. FormMatches(g, client, redirect, verifier) \in BOOLEAN
      BY DEF FormMatches
    <2> QED BY <2>1, BaseUrlType DEF Task
  <1>2. w.matches => client = consent[g].client
    BY DEF FormMatches
  <1>3. /\ task[c] = Idle /\ g \in codes /\ codes' = codes \ {g}
        /\ task' = [task EXCEPT ![c] = w]
        /\ UNCHANGED <<minted, requests, consent, tokens, now>>
    BY DEF RedeemCode
  <1>4. requests = requests \ {g} /\ consent[g].state = "approved"
    BY <1>3 DEF Inv, TypeOK, CodeInv
  <1> HIDE DEF w
  <1> QED BY <1>1, <1>2, <1>3, <1>4, TakeStep

LEMMA PollStep ==
  ASSUME Inv, NEW c \in Conn, NEW g \in Grant, NEW client \in Client, NEW h \in Host,
         PollRequest(c, g, client, h)
  PROVE  Inv'
  <1>1. /\ task[c] = Idle /\ g \in requests /\ requests' = requests \ {g}
        /\ client = consent[g].client
        /\ codes' = codes /\ codes' = codes \ {g}
        /\ UNCHANGED <<minted, consent, tokens, now>>
    BY DEF PollRequest, Inv, TypeOK
  <1>2. CASE task' = task
    <2>1. TypeOK' /\ CodeInv' /\ HolderInv' /\ SoleHolderInv'
      BY <1>1, <1>2 DEF Inv, TypeOK, CodeInv, HolderInv, SoleHolderInv
    <2>2. PaidInv' /\ GrantPaidOnce'
      BY <1>1 DEF Inv, PaidInv, GrantPaidOnce
    <2> QED BY <2>1, <2>2 DEF Inv
  <1>3. CASE task' # task
    <2> DEFINE w == [pc |-> "issue", grant |-> g, client |-> client, iss |-> BaseUrl(h),
                     matches |-> TRUE]
    <2>1. w \in Task /\ w.pc = "issue" /\ w.grant = g /\ w.client = client /\ w.iss \in Host
      BY BaseUrlType DEF Task
    <2>2. task' = [task EXCEPT ![c] = w] /\ consent[g].state = "approved"
      BY <1>3 DEF PollRequest
    <2> HIDE DEF w
    <2> QED BY <1>1, <2>1, <2>2, TakeStep
  <1> QED BY <1>2, <1>3

LEMMA CheckStep ==
  ASSUME Inv, NEW c \in Conn, CheckRedemption(c)
  PROVE  Inv'
  <1> USE DEF Inv
  <1>1. /\ task[c].pc = "redeemed" /\ task[c] \in Task
        /\ UNCHANGED <<minted, codes, requests, consent, tokens, now>>
    BY DEF CheckRedemption, TypeOK
  <1>2. \/ task' = [task EXCEPT ![c] = Idle]
        \/ task[c].matches /\ task' = [task EXCEPT ![c] = [task[c] EXCEPT !.pc = "issue"]]
    BY <1>1 DEF CheckRedemption, TypeOK
  <1>3. TypeOK'
    <2>1. Idle \in Task /\ [task[c] EXCEPT !.pc = "issue"] \in Task
      BY <1>1 DEF Task, Idle
    <2>2. task' \in [Conn -> Task]
      BY <1>2, <2>1 DEF TypeOK
    <2> QED BY <1>1, <2>2 DEF TypeOK
  <1>4. CodeInv' /\ PaidInv' /\ GrantPaidOnce'
    BY <1>1 DEF CodeInv, PaidInv, GrantPaidOnce
  <1>5. HolderInv'
    BY <1>1, <1>2 DEF HolderInv, TypeOK, Task, Idle
  <1>6. SoleHolderInv'
    BY <1>1, <1>2 DEF SoleHolderInv, TypeOK, Task, Idle
  <1> QED BY <1>3, <1>4, <1>5, <1>6

\* What Sign adds is a token, and only one.
LEMMA SignStep ==
  ASSUME TypeOK, NEW g \in Grant \cup {NoGrant}, NEW client \in Client,
         NEW scope \in SUBSET ScopeName, NEW iss \in Host, NEW aud \in Host,
         Sign(g, client, scope, iss, aud)
  PROVE  /\ IsFiniteSet(tokens')
         /\ \E t \in Token : /\ tokens' = tokens \cup {t} /\ t.grant = g /\ t.client = client
                             /\ t.scope = scope /\ t.aud = aud /\ t.iss = iss
  <1> DEFINE t == [jti |-> Cardinality(tokens) + 1, grant |-> g, client |-> client,
                   scope |-> scope, iss |-> iss, aud |-> aud, exp |-> now + TokenTTL]
  <1>1. Cardinality(tokens) \in Nat /\ IsFiniteSet(tokens \cup {t})
    BY FS_CardinalityType, FS_AddElement DEF TypeOK
  <1>2. t \in Token
    BY <1>1, ConstantsAssumption DEF Token, TypeOK
  <1>3. tokens' = tokens \cup {t}
    BY DEF Sign
  <1> QED BY <1>1, <1>2, <1>3

LEMMA IssueStep ==
  ASSUME Inv, NEW c \in Conn, IssueToken(c)
  PROVE  /\ Inv'
         /\ \E t \in Token : tokens' = tokens \cup {t} /\ t.grant = task[c].grant
  <1> USE DEF Inv
  <1> DEFINE g == task[c].grant
  <1>1. /\ task[c].pc = "issue" /\ task' = [task EXCEPT ![c] = Idle]
        /\ UNCHANGED <<minted, codes, requests, consent, now>>
    BY DEF IssueToken
  <1>2. /\ g \in minted /\ g \in Grant /\ g \notin codes /\ g \notin requests
        /\ task[c].client \in Client /\ task[c].iss \in Host
        /\ consent[g].state = "approved" /\ task[c].client = consent[g].client
        /\ consent[g] \in Consent
        /\ \A t \in tokens : t.grant # g
    BY <1>1 DEF HolderInv, TypeOK
  <1>3. consent[g].scope \in SUBSET ScopeName /\ consent[g].audience \in Host
    BY <1>2 DEF Consent
  <1>4. Sign(g, task[c].client, consent[g].scope, task[c].iss, consent[g].audience)
    BY DEF IssueToken
  <1>5. /\ IsFiniteSet(tokens')
        /\ \E t \in Token : /\ tokens' = tokens \cup {t} /\ t.grant = g
                            /\ t.client = task[c].client
                            /\ t.scope = consent[g].scope /\ t.aud = consent[g].audience
    <2>1. PICK g0 \in Grant, client0 \in Client, scope0 \in SUBSET ScopeName,
               iss0 \in Host, aud0 \in Host :
             /\ g0 = g /\ client0 = task[c].client /\ scope0 = consent[g].scope
             /\ iss0 = task[c].iss /\ aud0 = consent[g].audience
      BY <1>2, <1>3
    <2>2. Sign(g0, client0, scope0, iss0, aud0)
      BY <1>4, <2>1
    <2>3. /\ IsFiniteSet(tokens')
          /\ \E t \in Token : /\ tokens' = tokens \cup {t} /\ t.grant = g0
                              /\ t.client = client0 /\ t.scope = scope0 /\ t.aud = aud0
      <3>1. TypeOK /\ g0 \in Grant \cup {NoGrant}
        OBVIOUS
      <3>2. IsFiniteSet(tokens')
        BY <2>2, <3>1, SignStep
      <3>3. \E t \in Token : /\ tokens' = tokens \cup {t} /\ t.grant = g0
                            /\ t.client = client0 /\ t.scope = scope0 /\ t.aud = aud0
        BY <2>2, <3>1, SignStep
      <3> QED BY <3>2, <3>3
    <2> QED BY <2>1, <2>3
  <1>6. PICK t \in Token : /\ tokens' = tokens \cup {t} /\ t.grant = g
                           /\ t.client = task[c].client
                           /\ t.scope = consent[g].scope /\ t.aud = consent[g].audience
    BY <1>5
  <1>7. TypeOK'
    BY <1>1, <1>5, <1>6 DEF TypeOK, Task, Idle
  <1>8. CodeInv'
    BY <1>1 DEF CodeInv
  <1>9. HolderInv' /\ SoleHolderInv'
    <2>1. \A d \in Conn : task'[d].pc # "idle" =>
             d # c /\ task'[d] = task[d] /\ task[d].grant # g
      BY <1>1, <1>2 DEF TypeOK, Idle, SoleHolderInv
    <2> QED BY <1>1, <1>6, <2>1 DEF HolderInv, SoleHolderInv
  <1>10. PaidInv' /\ GrantPaidOnce'
    BY <1>1, <1>2, <1>6 DEF PaidInv, GrantPaidOnce
  <1> QED BY <1>6, <1>7, <1>8, <1>9, <1>10

LEMMA TwoLeggedStep ==
  ASSUME Inv, NEW client \in Client, NEW scope \in ScopeRequest, NEW h \in Host,
         ClientCredentials(client, scope, h)
  PROVE  /\ Inv'
         /\ \E t \in Token : tokens' = tokens \cup {t} /\ t.grant = NoGrant
  <1> USE DEF Inv
  <1>1. UNCHANGED <<minted, codes, requests, consent, task, now>>
    BY DEF ClientCredentials
  <1>2. /\ IsFiniteSet(tokens')
        /\ \E t \in Token : tokens' = tokens \cup {t} /\ t.grant = NoGrant
    <2>1. /\ BaseUrl(h) \in Host /\ scope \in SUBSET ScopeName
          /\ Sign(NoGrant, client, scope, BaseUrl(h), BaseUrl(h))
      BY BaseUrlType, ConstantsAssumption DEF ClientCredentials
    <2>2. TypeOK
      OBVIOUS
    <2>3. PICK g0 \in Grant \cup {NoGrant}, iss0 \in Host : g0 = NoGrant /\ iss0 = BaseUrl(h)
      BY <2>1
    <2>4. Sign(g0, client, scope, iss0, iss0)
      BY <2>1, <2>3
    <2>5. IsFiniteSet(tokens')
      BY <2>1, <2>2, <2>4, SignStep
    <2>6. \E t \in Token : tokens' = tokens \cup {t} /\ t.grant = g0
      BY <2>1, <2>2, <2>4, SignStep
    <2> QED BY <2>5, <2>6, <2>3
  <1>3. PICK t \in Token : tokens' = tokens \cup {t} /\ t.grant = NoGrant
    BY <1>2
  <1>4. TypeOK' /\ CodeInv' /\ SoleHolderInv'
    BY <1>1, <1>2, <1>3 DEF TypeOK, CodeInv, SoleHolderInv
  <1>5. HolderInv'
    BY <1>1, <1>3, ConstantsAssumption DEF HolderInv, TypeOK
  <1>6. PaidInv' /\ GrantPaidOnce'
    BY <1>1, <1>3 DEF PaidInv, GrantPaidOnce
  <1> QED BY <1>3, <1>4, <1>5, <1>6

LEMMA NextInv == Inv /\ [Next]_vars => Inv'
  <1> SUFFICES ASSUME Inv, [Next]_vars PROVE Inv'
    OBVIOUS
  <1>1. ASSUME NEW c \in Conn, TokenRequest(c) PROVE Inv'
    BY <1>1, RedeemStep, PollStep, CheckStep, IssueStep DEF TokenRequest
  <1>2. ASSUME NEW client \in Client, NEW scope \in ScopeRequest, NEW h \in Host,
               ClientCredentials(client, scope, h)
        PROVE  Inv'
    BY <1>2, TwoLeggedStep
  <1>3. CASE Tick
    BY <1>3 DEF Tick, Inv, TypeOK, CodeInv, HolderInv, SoleHolderInv, PaidInv, GrantPaidOnce
  <1>4. CASE UNCHANGED vars
    BY <1>4 DEF vars, Inv, TypeOK, CodeInv, HolderInv, SoleHolderInv, PaidInv, GrantPaidOnce
  <1> QED BY <1>1, <1>2, <1>3, <1>4, ConsentingStep DEF Next

THEOREM InvHolds == Spec => []Inv
  <1> QED BY InitInv, NextInv, PTL DEF Spec

\* The state keeps its shape.
THEOREM TypeCorrect == Spec => []TypeOK
  <1>1. Inv => TypeOK
    BY DEF Inv
  <1> QED BY <1>1, InvHolds, PTL

\* codes::redeem and ciba::poll: a grant yields at most one token, however many
\* token requests race for it.
THEOREM PaidOnce == Spec => []GrantPaidOnce
  <1>1. Inv => GrantPaidOnce
    BY DEF Inv
  <1> QED BY <1>1, InvHolds, PTL

\* verify_token over issue_access_token: what a token opens is what was consented.
THEOREM ConsentRespected == Spec => []ServedAsConsented
  <1>1. Inv => ServedAsConsented
    <2> SUFFICES ASSUME Inv, NEW t \in tokens, NEW h \in Host, NEW s \in ScopeName,
                        t.grant # NoGrant
                 PROVE  /\ Serves(t, h, s) <=>
                              /\ s \in consent[t.grant].scope
                              /\ BaseUrl(h) = consent[t.grant].audience
                              /\ t.iss = consent[t.grant].audience
                              /\ now < t.exp
                        /\ t.client = consent[t.grant].client
                        /\ consent[t.grant].state = "approved"
      BY DEF ServedAsConsented
    <2> QED BY DEF Inv, PaidInv, Serves, Verifies
  <1> QED BY <1>1, InvHolds, PTL

\* The clock is read after the code was taken and under the lock of a poll: what
\* expired before that never becomes a token.
LEMMA ExpiredStep ==
  ASSUME Inv, [Next]_vars, NEW g \in minted,
         now >= consent[g].expiresAt, ~Paid(g), ~Issuing(g)
  PROVE  ~Paid(g)' /\ ~Issuing(g)'
  <1>1. g \in Grant /\ g # NoGrant
    BY ConstantsAssumption DEF Inv, TypeOK
  <1>2. ASSUME UNCHANGED <<tokens, task>> PROVE ~Paid(g)' /\ ~Issuing(g)'
    BY <1>2 DEF Paid, Issuing, Holds
  <1>3. ASSUME NEW c \in Conn, NEW w, task' = [task EXCEPT ![c] = w], UNCHANGED tokens,
               w.pc = "issue" => w.grant # g
        PROVE  ~Paid(g)' /\ ~Issuing(g)'
    BY <1>3 DEF Paid, Issuing, Holds, Inv, TypeOK
  <1>4. ASSUME Consenting PROVE ~Paid(g)' /\ ~Issuing(g)'
    BY <1>2, <1>4 DEF Consenting, Authorize, BcAuthorize
  <1>5. ASSUME NEW c \in Conn, NEW i \in Grant, NEW client \in Client, NEW h \in Host,
               NEW redirect \in Redirect, NEW verifier \in Verifier,
               RedeemCode(c, i, client, redirect, verifier, h)
        PROVE  ~Paid(g)' /\ ~Issuing(g)'
    BY <1>3, <1>5 DEF RedeemCode
  <1>6. ASSUME NEW c \in Conn, NEW i \in Grant, NEW client \in Client, NEW h \in Host,
               PollRequest(c, i, client, h)
        PROVE  ~Paid(g)' /\ ~Issuing(g)'
    <2>1. CASE task' = task
      BY <1>2, <1>6, <2>1 DEF PollRequest
    <2>2. CASE task' # task
      <3>1. now < consent[i].expiresAt /\ now \in Nat /\ consent[i].expiresAt \in Nat
        BY <1>6, <2>2 DEF PollRequest, Inv, TypeOK, Consent
      <3>2. i # g
        BY <3>1
      <3> QED BY <1>3, <1>6, <2>2, <3>2 DEF PollRequest
    <2> QED BY <2>1, <2>2
  <1>7. ASSUME NEW c \in Conn, CheckRedemption(c)
        PROVE  ~Paid(g)' /\ ~Issuing(g)'
    <2>1. task[c] \in Task /\ now \in Nat /\ tokens' = tokens
      BY <1>7 DEF CheckRedemption, Inv, TypeOK
    <2>2. CASE now < consent[task[c].grant].expiresAt
      <3>1. consent[task[c].grant].expiresAt \in Nat
        BY <1>7 DEF CheckRedemption, Inv, TypeOK, HolderInv, Consent
      <3>2. task[c].grant # g
        BY <2>1, <2>2, <3>1
      <3>3. \E w : task' = [task EXCEPT ![c] = w] /\ (w.pc = "issue" => w.grant # g)
        <4>1. [task[c] EXCEPT !.pc = "issue"].grant # g /\ Idle.pc # "issue"
          BY <2>1, <3>2 DEF Task, Idle
        <4>2. \/ task' = [task EXCEPT ![c] = [task[c] EXCEPT !.pc = "issue"]]
              \/ task' = [task EXCEPT ![c] = Idle]
          BY <1>7 DEF CheckRedemption, Inv, TypeOK
        <4> QED BY <4>1, <4>2
      <3> QED BY <1>3, <2>1, <3>3
    <2>3. CASE ~(now < consent[task[c].grant].expiresAt)
      BY <1>3, <1>7, <2>1, <2>3 DEF CheckRedemption, Idle
    <2> QED BY <2>2, <2>3
  <1>8. ASSUME NEW c \in Conn, IssueToken(c)
        PROVE  ~Paid(g)' /\ ~Issuing(g)'
    <2>1. task[c].pc = "issue" /\ task[c].grant # g /\ task' = [task EXCEPT ![c] = Idle]
      BY <1>8 DEF IssueToken, Issuing, Holds
    <2>2. PICK t \in Token : tokens' = tokens \cup {t} /\ t.grant = task[c].grant
      BY <1>8, IssueStep
    <2> QED BY <2>1, <2>2 DEF Paid, Issuing, Holds, Idle, Inv, TypeOK
  <1>9. ASSUME NEW client \in Client, NEW scope \in ScopeRequest, NEW h \in Host,
               ClientCredentials(client, scope, h)
        PROVE  ~Paid(g)' /\ ~Issuing(g)'
    <2>1. PICK t \in Token : tokens' = tokens \cup {t} /\ t.grant = NoGrant
      BY <1>9, TwoLeggedStep
    <2> QED BY <1>1, <1>9, <2>1 DEF Paid, Issuing, Holds, ClientCredentials
  <1>10. CASE Tick \/ UNCHANGED vars
    BY <1>2, <1>10 DEF Tick, vars
  <1> QED BY <1>4, <1>5, <1>6, <1>7, <1>8, <1>9, <1>10 DEF Next, TokenRequest

\* authorization_code and ciba::poll: an expired consent never becomes a token.
THEOREM NeverPaidLate == Spec => ExpiredNeverPays
  <1>1. Inv /\ [Next]_vars =>
          [\A g \in minted :
             (now >= consent[g].expiresAt /\ ~Paid(g) /\ ~Issuing(g))
                 => ~Paid(g)' /\ ~Issuing(g)']_vars
    BY ExpiredStep
  <1> QED BY <1>1, InvHolds, PTL DEF Spec, ExpiredNeverPays

\* ciba::poll: only its own client, or time, takes a request out of the store.
THEOREM RequestsSurvive == Spec => RequestSurvivesOthers
  <1> DEFINE Survives(g) ==
        \/ now >= consent[g].expiresAt
        \/ \E c \in Conn : /\ task[c] = Idle
                           /\ (Holds(c, g) /\ task[c].pc = "issue"
                                 /\ task[c].client = consent[g].client)'
  <1>1. ASSUME Inv, [Next]_vars, NEW g \in requests \ requests'
        PROVE  Survives(g)
    <2>1. PICK c \in Conn, i \in Grant, client \in Client, h \in Host :
             PollRequest(c, i, client, h)
      BY <1>1 DEF Next, TokenRequest, Consenting, Authorize, BcAuthorize, RedeemCode,
                  CheckRedemption, IssueToken, ClientCredentials, Tick, vars
    <2>2. i = g
      BY <1>1, <2>1 DEF PollRequest
    <2>3. CASE now >= consent[g].expiresAt
      BY <2>3
    <2>4. CASE ~(now >= consent[g].expiresAt)
      <3>1. /\ task[c] = Idle /\ client = consent[g].client /\ consent' = consent
            /\ task'[c] = [pc |-> "issue", grant |-> g, client |-> client,
                           iss |-> BaseUrl(h), matches |-> TRUE]
        BY <1>1, <2>1, <2>2, <2>4 DEF PollRequest, Inv, TypeOK
      <3> QED BY <3>1 DEF Holds
    <2> QED BY <2>3, <2>4
  <1>2. Inv /\ [Next]_vars => [\A g \in requests \ requests' : Survives(g)]_vars
    BY <1>1
  <1> QED BY <1>2, InvHolds, PTL DEF Spec, RequestSurvivesOthers

Held(g) == \E c \in Conn : Holds(c, g)

Payouts == {<<t.jti, t.grant>> : t \in {u \in tokens : u.grant # NoGrant}}

\* A step that leaves what GrantPhase looks at alone for every grant but g, and
\* moves g from one phase to another, is that move of the abstract specification.
LEMMA MoveOnly ==
  ASSUME NEW g \in Grant, NEW from, NEW to, GrantPhase(g) \in from, GrantPhase(g)' = to,
         \A j \in Grant \ {g} : /\ j \in minted' <=> j \in minted
                                /\ j \in codes' \cup requests' <=> j \in codes \cup requests
                                /\ Paid(j)' <=> Paid(j)
                                /\ Held(j)' <=> Held(j)
  PROVE  Grants!Move(g, from, to)
  <1>1. \A j \in Grant \ {g} : GrantPhase(j)' = GrantPhase(j)
    BY DEF GrantPhase, Held
  <1> HIDE DEF GrantPhase
  <1> QED BY <1>1 DEF Grants!Move

\* While one connection's task moves within a grant g, no other grant's holder does.
LEMMA HeldElsewhere ==
  ASSUME TypeOK, NEW c \in Conn, NEW w, task' = [task EXCEPT ![c] = w], NEW g,
         task[c].pc = "idle" \/ task[c].grant = g, w.pc = "idle" \/ w.grant = g
  PROVE  \A j \in Grant \ {g} : Held(j)' <=> Held(j)
  BY DEF Held, Holds, TypeOK

LEMMA GrantStep ==
  ASSUME Inv, [Next]_vars
  PROVE  [Grants!Next]_(Grants!vars)
  <1>1. /\ \A g \in codes \cup requests : g \in minted /\ g \in Grant /\ ~Paid(g) /\ ~Held(g)
        /\ \A g \in Grant : g \notin minted => ~Paid(g) /\ ~Held(g)
    <2>1. codes \subseteq minted /\ requests \subseteq minted /\ minted \subseteq Grant
      BY DEF Inv, TypeOK
    <2> QED BY <2>1, ConstantsAssumption
            DEF Inv, PaidInv, HolderInv, Paid, Held, Holds
  <1>2. ASSUME NEW g \in Grant, g \notin minted, minted' = minted \cup {g},
               \/ codes' = codes \cup {g} /\ requests' = requests
               \/ codes' = codes /\ requests' = requests \cup {g},
               UNCHANGED <<task, tokens>>
        PROVE  Grants!Issue(g)
    <2>1. GrantPhase(g) = "unissued" /\ GrantPhase(g)' = "open"
      BY <1>2 DEF GrantPhase
    <2>2. \A j \in Grant : (Paid(j)' <=> Paid(j)) /\ (Held(j)' <=> Held(j))
      BY <1>2 DEF Paid, Held, Holds
    <2>3. Grants!Move(g, {"unissued"}, "open")
      BY <1>2, <2>1, <2>2, MoveOnly
    <2>4. Payouts' = Payouts
      BY <1>2 DEF Payouts
    <2> QED BY <2>3, <2>4 DEF Grants!Issue, Payouts
  <1>3. ASSUME NEW c \in Conn, NEW g \in codes \cup requests, NEW w,
               task[c] = Idle, task' = [task EXCEPT ![c] = w], w.pc # "idle", w.grant = g,
               codes' = codes \ {g}, requests' = requests \ {g}, UNCHANGED <<minted, tokens>>
        PROVE  Grants!Take(g)
    <2>1. Held(g)'
      BY <1>3 DEF Held, Holds, Inv, TypeOK
    <2>2. \A j : Paid(j)' <=> Paid(j)
      BY <1>3 DEF Paid
    <2>3. GrantPhase(g) = "open" /\ GrantPhase(g)' = "held"
      BY <1>1, <1>3, <2>1, <2>2 DEF GrantPhase, Held
    <2>4. \A j \in Grant \ {g} : Held(j)' <=> Held(j)
      <3>1. TypeOK /\ task[c].pc = "idle"
        BY <1>3 DEF Idle, Inv
      <3> QED BY <1>3, <3>1, HeldElsewhere
    <2>5. Grants!Move(g, {"open"}, "held")
      BY <1>1, <1>3, <2>2, <2>3, <2>4, MoveOnly
    <2>6. Payouts' = Payouts
      BY <1>3 DEF Payouts
    <2> QED BY <2>5, <2>6 DEF Grants!Take, Payouts
  <1>4. ASSUME Consenting PROVE Grants!Next
    BY <1>2, <1>4 DEF Consenting, Authorize, BcAuthorize, Grants!Next
  <1>5. ASSUME NEW c \in Conn, NEW g \in Grant, NEW client \in Client, NEW h \in Host,
               NEW redirect \in Redirect, NEW verifier \in Verifier,
               RedeemCode(c, g, client, redirect, verifier, h)
        PROVE  Grants!Next
    <2> DEFINE w == [pc |-> "redeemed", grant |-> g, client |-> client, iss |-> BaseUrl(h),
                     matches |-> FormMatches(g, client, redirect, verifier)]
    <2>1. /\ g \in codes \cup requests /\ task[c] = Idle
          /\ task' = [task EXCEPT ![c] = w] /\ w.pc # "idle" /\ w.grant = g
          /\ codes' = codes \ {g} /\ requests' = requests \ {g}
          /\ UNCHANGED <<minted, tokens>>
      BY <1>5 DEF RedeemCode, Inv, TypeOK
    <2> HIDE DEF w
    <2>2. Grants!Take(g)
      BY <1>3, <2>1
    <2> QED BY <2>2 DEF Grants!Next
  <1>6. ASSUME NEW c \in Conn, NEW g \in Grant, NEW client \in Client, NEW h \in Host,
               PollRequest(c, g, client, h)
        PROVE  Grants!Next
    <2>1. codes' = codes \ {g} /\ g \in requests /\ requests' = requests \ {g}
          /\ UNCHANGED <<minted, tokens>>
      BY <1>6 DEF PollRequest, Inv, TypeOK
    <2>2. CASE task' = task
      <3>1. \A j \in Grant : (Paid(j)' <=> Paid(j)) /\ (Held(j)' <=> Held(j))
        BY <2>1, <2>2 DEF Paid, Held, Holds
      <3>2. GrantPhase(g) = "open" /\ GrantPhase(g)' = "void"
        BY <1>1, <2>1, <3>1 DEF GrantPhase, Held
      <3>3. Grants!Move(g, {"open", "held"}, "void")
        BY <2>1, <3>1, <3>2, MoveOnly
      <3>4. Payouts' = Payouts
        BY <2>1 DEF Payouts
      <3> QED BY <3>3, <3>4 DEF Grants!Reject, Grants!Next, Payouts
    <2>3. CASE task' # task
      <3> DEFINE w == [pc |-> "issue", grant |-> g, client |-> client,
                       iss |-> BaseUrl(h), matches |-> TRUE]
      <3>1. /\ g \in codes \cup requests /\ task[c] = Idle
            /\ task' = [task EXCEPT ![c] = w] /\ w.pc # "idle" /\ w.grant = g
            /\ codes' = codes \ {g} /\ requests' = requests \ {g}
            /\ UNCHANGED <<minted, tokens>>
        BY <1>6, <2>1, <2>3 DEF PollRequest
      <3> HIDE DEF w
      <3>2. Grants!Take(g)
        BY <1>3, <3>1
      <3> QED BY <3>2 DEF Grants!Next
    <2> QED BY <2>2, <2>3
  <1>7. ASSUME NEW c \in Conn, CheckRedemption(c)
        PROVE  Grants!Next \/ UNCHANGED Grants!vars
    <2>1. PICK g \in Grant : g = task[c].grant
      BY <1>7 DEF CheckRedemption, Inv, TypeOK, HolderInv
    <2>2. /\ task[c].pc = "redeemed" /\ task[c] \in Task
          /\ g \in minted /\ g \notin codes /\ g \notin requests /\ ~Paid(g) /\ Held(g)
          /\ UNCHANGED <<minted, codes, requests, tokens>>
      BY <1>7, <2>1 DEF CheckRedemption, Inv, TypeOK, HolderInv, Paid, Held, Holds
    <2>3. \A j : Paid(j)' <=> Paid(j)
      BY <2>2 DEF Paid
    <2>4. Payouts' = Payouts
      BY <2>2 DEF Payouts
    <2>5. CASE task' = [task EXCEPT ![c] = [task[c] EXCEPT !.pc = "issue"]]
      <3>1. \A j : Held(j)' <=> Held(j)
        BY <2>2, <2>5 DEF Held, Holds, Inv, TypeOK, Task
      <3>2. \A j \in Grant : GrantPhase(j)' = GrantPhase(j)
        BY <2>2, <2>3, <3>1 DEF GrantPhase, Held
      <3> HIDE DEF GrantPhase
      <3> QED BY <2>4, <3>2 DEF Grants!vars, Payouts
    <2>6. CASE task' = [task EXCEPT ![c] = Idle]
      <3>1. ~Held(g)'
        BY <2>1, <2>2, <2>6 DEF Held, Holds, Idle, Inv, TypeOK, SoleHolderInv
      <3>2. GrantPhase(g) = "held" /\ GrantPhase(g)' = "void"
        BY <2>2, <2>3, <3>1 DEF GrantPhase, Held
      <3>3. \A j \in Grant \ {g} : Held(j)' <=> Held(j)
        <4>1. TypeOK /\ task[c].grant = g /\ Idle.pc = "idle"
          BY <2>1 DEF Idle, Inv
        <4> QED BY <2>6, <4>1, HeldElsewhere
      <3>4. Grants!Move(g, {"open", "held"}, "void")
        BY <2>2, <2>3, <3>2, <3>3, MoveOnly
      <3> QED BY <2>4, <3>4 DEF Grants!Reject, Grants!Next, Payouts
    <2> QED BY <1>7, <2>5, <2>6 DEF CheckRedemption, Inv, TypeOK
  <1>8. ASSUME NEW c \in Conn, IssueToken(c)
        PROVE  Grants!Next
    <2>1. PICK g \in Grant : g = task[c].grant
      BY <1>8 DEF IssueToken, Inv, TypeOK, HolderInv
    <2>2. /\ task[c].pc = "issue" /\ task' = [task EXCEPT ![c] = Idle]
          /\ g \in minted /\ g \notin codes /\ g \notin requests /\ ~Paid(g) /\ Held(g)
          /\ UNCHANGED <<minted, codes, requests>>
      BY <1>8, <2>1 DEF IssueToken, Inv, TypeOK, HolderInv, Paid, Held, Holds
    <2>3. PICK t \in Token : tokens' = tokens \cup {t} /\ t.grant = g
      BY <1>8, <2>1, IssueStep
    <2>4. Paid(g)' /\ \A j \in Grant \ {g} : Paid(j)' <=> Paid(j)
      BY <2>3 DEF Paid
    <2>5. GrantPhase(g) = "held" /\ GrantPhase(g)' = "spent"
      BY <2>2, <2>4 DEF GrantPhase, Held
    <2>6. \A j \in Grant \ {g} : Held(j)' <=> Held(j)
      <3>1. TypeOK /\ task[c].grant = g /\ Idle.pc = "idle"
        BY <2>1 DEF Idle, Inv
      <3> QED BY <2>2, <3>1, HeldElsewhere
    <2>7. Grants!Move(g, {"open", "held"}, "spent")
      BY <2>2, <2>4, <2>5, <2>6, MoveOnly
    <2>8. <<t.jti, g>> \notin Payouts
      BY <2>2, ~Paid(g) DEF Payouts, Paid
    <2>9. Payouts' = Payouts \cup {<<t.jti, g>>} /\ <<t.jti, g>> \in Payouts'
      BY <2>3, ConstantsAssumption DEF Payouts
    <2> QED BY <2>7, <2>8, <2>9 DEF Grants!PayOut, Grants!Next, Payouts
  <1>9. ASSUME NEW client \in Client, NEW scope \in ScopeRequest, NEW h \in Host,
               ClientCredentials(client, scope, h)
        PROVE  UNCHANGED Grants!vars
    <2>1. PICK t \in Token : tokens' = tokens \cup {t} /\ t.grant = NoGrant
      BY <1>9, TwoLeggedStep
    <2>2. Payouts' = Payouts
      BY <2>1 DEF Payouts
    <2>3. \A j \in Grant : Paid(j)' <=> Paid(j)
      BY <2>1, ConstantsAssumption DEF Paid
    <2>4. \A j \in Grant : GrantPhase(j)' = GrantPhase(j)
      BY <1>9, <2>3 DEF GrantPhase, Holds, ClientCredentials
    <2> HIDE DEF GrantPhase
    <2> QED BY <2>2, <2>4 DEF Grants!vars, Payouts
  <1>10. CASE Tick \/ UNCHANGED vars
    <2>1. UNCHANGED <<minted, codes, requests, task, tokens>>
      BY <1>10 DEF Tick, vars
    <2>2. \A j \in Grant : GrantPhase(j)' = GrantPhase(j)
      BY <2>1 DEF GrantPhase, Paid, Holds
    <2>3. Payouts' = Payouts
      BY <2>1 DEF Payouts
    <2> HIDE DEF GrantPhase
    <2> QED BY <2>2, <2>3 DEF Grants!vars, Payouts
  <1> QED BY <1>4, <1>5, <1>6, <1>7, <1>8, <1>9, <1>10 DEF Next, TokenRequest

\* Codes and backchannel requests, each redeemed in several steps, implement the
\* one-time grant their users rely on.
THEOREM GrantImplemented == Spec => ImplementsGrants
  <1>1. Init => Grants!Init
    BY DEF Init, Grants!Init, GrantPhase
  <1> QED BY <1>1, GrantStep, InvHolds, PTL DEF Spec, ImplementsGrants, Grants!Spec

-----------------------------------------------------------------------------
(* A pinned issuer *)

\* With CAMARASIM_ISSUER set, every consent, request and token names it.
PinnedInv ==
    /\ \A g \in minted : consent[g].audience = Issuer
    /\ \A c \in Conn : task[c].pc # "idle" => task[c].iss = Issuer
    /\ \A t \in tokens : t.iss = Issuer /\ t.aud = Issuer

\* A token is served under every name of the server, wherever it was asked for
\* and minted, exactly for its scopes and until it expires.
TokensServe ==
    \A t \in tokens, h \in Host, s \in ScopeName :
        Serves(t, h, s) <=> now < t.exp /\ s \in t.scope

LEMMA PinnedStep ==
  ASSUME Issuer # NoHost, Inv, PinnedInv, [Next]_vars
  PROVE  PinnedInv'
  <1> USE DEF Inv
  <1>0. \A h : BaseUrl(h) = Issuer
    BY DEF BaseUrl
  \* Only connection c moves, and no token is signed.
  <1>1. ASSUME NEW c \in Conn, NEW w, task' = [task EXCEPT ![c] = w],
               w.pc # "idle" => w.iss = Issuer, UNCHANGED <<minted, consent, tokens>>
        PROVE  PinnedInv'
    BY <1>1 DEF PinnedInv, TypeOK
  <1>2. ASSUME NEW g \in Grant \ minted, minted' = minted \cup {g},
               \E e \in Consent : e.audience = Issuer /\ consent' = [consent EXCEPT ![g] = e],
               UNCHANGED <<task, tokens>>
        PROVE  PinnedInv'
    <2>1. /\ consent'[g].audience = Issuer
          /\ \A j \in minted : consent'[j] = consent[j]
      BY <1>2 DEF TypeOK
    <2> QED BY <1>2, <2>1 DEF PinnedInv
  <1>3. ASSUME NEW g \in Grant, NEW client \in Client, NEW scope \in ScopeRequest,
               NEW h \in Host, NEW redirect \in Redirect, NEW verifier \in Verifier,
               Authorize(g, client, redirect, verifier, scope, h)
        PROVE  PinnedInv'
    <2> DEFINE e == [client |-> client, redirect |-> redirect, verifier |-> verifier,
                     scope |-> scope, audience |-> BaseUrl(h), state |-> "approved",
                     expiresAt |-> now + CodeTTL]
    <2>1. e \in Consent /\ e.audience = Issuer
      BY <1>0, BaseUrlType, ConstantsAssumption DEF Consent, State, TypeOK
    <2>2. g \notin minted /\ minted' = minted \cup {g}
          /\ consent' = [consent EXCEPT ![g] = e] /\ UNCHANGED <<task, tokens>>
      BY <1>3 DEF Authorize
    <2> HIDE DEF e
    <2> QED BY <1>2, <2>1, <2>2
  <1>4. ASSUME NEW g \in Grant, NEW client \in Client, NEW scope \in ScopeRequest,
               NEW h \in Host, NEW state \in State, BcAuthorize(g, client, scope, state, h)
        PROVE  PinnedInv'
    <2> DEFINE e == [Blank EXCEPT !.client = client, !.scope = scope,
                                  !.audience = BaseUrl(h), !.state = state,
                                  !.expiresAt = now + RequestTTL]
    <2>1. e \in Consent /\ e.audience = Issuer
      <3>1. /\ BaseUrl(h) \in Host /\ BaseUrl(h) = Issuer
            /\ scope \in SUBSET ScopeName /\ now + RequestTTL \in Nat
        BY <1>0, BaseUrlType, ConstantsAssumption DEF TypeOK
      <3>2. \A b \in Consent :
               LET f == [b EXCEPT !.client = client, !.scope = scope, !.audience = BaseUrl(h),
                                  !.state = state, !.expiresAt = now + RequestTTL]
               IN  f \in Consent /\ f.audience = Issuer
        BY <3>1 DEF Consent
      <3> QED BY <3>2, BlankType
    <2>2. g \notin minted /\ minted' = minted \cup {g}
          /\ consent' = [consent EXCEPT ![g] = e] /\ UNCHANGED <<task, tokens>>
      BY <1>4 DEF BcAuthorize
    <2> HIDE DEF e
    <2> QED BY <1>2, <2>1, <2>2
  <1>5. ASSUME NEW c \in Conn, NEW g \in Grant, NEW client \in Client, NEW h \in Host,
               NEW redirect \in Redirect, NEW verifier \in Verifier,
               RedeemCode(c, g, client, redirect, verifier, h)
        PROVE  PinnedInv'
    BY <1>0, <1>1, <1>5 DEF RedeemCode
  <1>6. ASSUME NEW c \in Conn, NEW g \in Grant, NEW client \in Client, NEW h \in Host,
               PollRequest(c, g, client, h)
        PROVE  PinnedInv'
    <2>1. CASE task' = task
      BY <1>6, <2>1 DEF PollRequest, PinnedInv
    <2>2. CASE task' # task
      BY <1>0, <1>1, <1>6, <2>2 DEF PollRequest
    <2> QED BY <2>1, <2>2
  <1>7. ASSUME NEW c \in Conn, CheckRedemption(c)
        PROVE  PinnedInv'
    <2>1. task[c] \in Task /\ task[c].iss = Issuer
          /\ UNCHANGED <<minted, consent, tokens>>
      BY <1>7 DEF CheckRedemption, PinnedInv, TypeOK
    <2>2. \E w : task' = [task EXCEPT ![c] = w] /\ (w.pc # "idle" => w.iss = Issuer)
      <3>1. [task[c] EXCEPT !.pc = "issue"].iss = Issuer /\ Idle.pc = "idle"
        BY <2>1 DEF Task, Idle
      <3>2. \/ task' = [task EXCEPT ![c] = [task[c] EXCEPT !.pc = "issue"]]
            \/ task' = [task EXCEPT ![c] = Idle]
        BY <1>7 DEF CheckRedemption, TypeOK
      <3> QED BY <3>1, <3>2
    <2> QED BY <1>1, <2>1, <2>2
  <1>8. ASSUME NEW c \in Conn, IssueToken(c)
        PROVE  PinnedInv'
    <2>1. /\ task[c].iss = Issuer /\ consent[task[c].grant].audience = Issuer
          /\ \A d \in Conn : task'[d].pc # "idle" => task'[d] = task[d]
          /\ UNCHANGED <<minted, consent>>
      BY <1>8 DEF IssueToken, PinnedInv, HolderInv, TypeOK, Idle
    <2>2. \A t \in tokens' : t \in tokens \/ (t.iss = Issuer /\ t.aud = Issuer)
      BY <1>8, <2>1 DEF IssueToken, Sign
    <2> QED BY <2>1, <2>2 DEF PinnedInv
  <1>9. ASSUME NEW client \in Client, NEW scope \in ScopeRequest, NEW h \in Host,
               ClientCredentials(client, scope, h)
        PROVE  PinnedInv'
    <2>1. \A t \in tokens' : t \in tokens \/ (t.iss = Issuer /\ t.aud = Issuer)
      BY <1>0, <1>9 DEF ClientCredentials, Sign
    <2> QED BY <1>9, <2>1 DEF ClientCredentials, PinnedInv
  <1>10. CASE Tick \/ UNCHANGED vars
    BY <1>10 DEF Tick, vars, PinnedInv
  <1> QED BY <1>3, <1>4, <1>5, <1>6, <1>7, <1>8, <1>9, <1>10
          DEF Next, Consenting, TokenRequest

\* base_url, CAMARASIM_ISSUER: a deployment that pins its issuer never mints a
\* token it then refuses.  ServedAsConsented has a third condition - minted where
\* it was asked for - and pinning is what makes it idle.
THEOREM PinnedTokensServe ==
  ASSUME Issuer # NoHost
  PROVE  Spec => []TokensServe
  <1>1. Init => PinnedInv
    BY DEF Init, PinnedInv, Idle
  <1>2. Inv /\ PinnedInv /\ [Next]_vars => PinnedInv'
    BY PinnedStep
  <1>3. PinnedInv => TokensServe
    BY DEF PinnedInv, TokensServe, Serves, Verifies, BaseUrl
  <1> QED BY <1>1, <1>2, <1>3, InvHolds, PTL DEF Spec

=============================================================================
