---------------------------- MODULE TokenService ----------------------------
(***************************************************************************)
(* The OAuth2 / OpenID surface of src/src/auth: the authorization endpoint *)
(* and the backchannel endpoint, which each bind a consent to an opaque id *)
(* in a store of their own; the token endpoint's three grants, which trade *)
(* such an id for an access token; and the verification every protected    *)
(* endpoint applies to a token.                                            *)
(*                                                                         *)
(* Two requests may redeem the same id at the same time.  Redeeming a code *)
(* takes it out of the store, then reads the clock and checks the form,    *)
(* then signs the token: three steps of a connection (task[c].pc).  A poll *)
(* decides under the store's lock.  A refused request that leaves the      *)
(* stores alone is a stuttering step.                                      *)
(***************************************************************************)
EXTENDS Naturals, FiniteSets

CONSTANTS
    Conn,          \* HTTP connections, each with one request in service
    Client,        \* client ids; any secret is accepted
    Grant,         \* ids codes::issue and ciba::issue can still mint
    NoGrant,       \* the grant of a two-legged token
    Host,          \* base URLs the requests name this server by
    NoHost,        \* no CAMARASIM_ISSUER is set
    Issuer,        \* CAMARASIM_ISSUER, or NoHost
    Redirect,      \* absolute redirect URIs
    Verifier,      \* PKCE verifiers, each standing for its challenge too
    ScopeName,     \* names a scope request may hold
    Malformed,     \* dpv: names that break the purpose grammar
    ScopeRequest,  \* the scope requests clients make, as sets of names
    CodeTTL,       \* CODE_TTL
    RequestTTL,    \* ciba::EXPIRES_IN
    TokenTTL,      \* token::EXPIRES_IN
    MaxTwoLegged,  \* bound: no client_credentials once so many tokens exist
    MaxTime        \* bound: the clock stops here

ASSUME ConstantsAssumption ==
    /\ NoGrant \notin Grant
    /\ Client # {} /\ Redirect # {} /\ Verifier # {} /\ Host # {}
    /\ NoHost \notin Host
    /\ Issuer \in Host \cup {NoHost}
    /\ ScopeRequest \subseteq SUBSET ScopeName
    /\ CodeTTL \in Nat /\ RequestTTL \in Nat /\ TokenTTL \in Nat

VARIABLES
    minted,    \* grant ids issued so far
    codes,     \* the keys of the authorization-code store
    requests,  \* the keys of the backchannel-request store
    consent,   \* what each id is bound to; kept once the key is gone
    task,      \* where each connection's token request is
    tokens,    \* the access tokens signed so far
    now        \* Unix seconds

vars == <<minted, codes, requests, consent, task, tokens, now>>

-----------------------------------------------------------------------------
(* Data *)

\* base_url: the pinned issuer, else what the request's headers say.
BaseUrl(h) == IF Issuer = NoHost THEN h ELSE Issuer

\* purpose::validate_scope
ValidScope(scope) == scope \cap Malformed = {}

\* What the login_hint selects; an authorization code is always approved.
State == {"approved", "pending", "denied"}

Consent == [client : Client, redirect : Redirect, verifier : Verifier,
            scope : SUBSET ScopeName, audience : Host, state : State, expiresAt : Nat]

Token == [jti : Nat, grant : Grant \cup {NoGrant}, client : Client,
          scope : SUBSET ScopeName, iss : Host, aud : Host, exp : Nat]

Task == [pc : {"idle", "redeemed", "issue"}, grant : Grant \cup {NoGrant},
         client : Client \cup {NoGrant}, iss : Host \cup {NoHost}, matches : BOOLEAN]

Idle == [pc |-> "idle", grant |-> NoGrant, client |-> NoGrant,
         iss |-> NoHost, matches |-> FALSE]

Blank == [client    |-> CHOOSE cl \in Client : TRUE,
          redirect  |-> CHOOSE r \in Redirect : TRUE,
          verifier  |-> CHOOSE v \in Verifier : TRUE,
          scope     |-> {},
          audience  |-> CHOOSE h \in Host : TRUE,
          state     |-> "denied",
          expiresAt |-> 0]

-----------------------------------------------------------------------------
(* GET /oauth2/authorize and POST /bc-authorize *)

\* Auto-consent: bind the request to a fresh code and redirect with it.
Authorize(g, client, redirect, verifier, scope, h) ==
    /\ g \in Grant \ minted
    /\ ValidScope(scope)
    /\ minted' = minted \cup {g}
    /\ codes' = codes \cup {g}
    /\ consent' = [consent EXCEPT ![g] =
            [client |-> client, redirect |-> redirect, verifier |-> verifier,
             scope |-> scope, audience |-> BaseUrl(h), state |-> "approved",
             expiresAt |-> now + CodeTTL]]
    /\ UNCHANGED <<requests, task, tokens, now>>

\* Mutant: the request is filed in both stores.
BcAuthorizeAsCode(g, client, scope, state, h) ==
    /\ g \in Grant \ minted
    /\ ValidScope(scope)
    /\ minted' = minted \cup {g}
    /\ requests' = requests \cup {g}
    /\ codes' = codes \cup {g}
    /\ consent' = [consent EXCEPT ![g] =
            [Blank EXCEPT !.client = client, !.scope = scope, !.audience = BaseUrl(h),
                          !.state = state, !.expiresAt = now + RequestTTL]]
    /\ UNCHANGED <<task, tokens, now>>

\* The login hint decides the outcome at once; the client polls for it.  A scope
\* parameter that is missing or empty is refused, but one of blanks names no
\* scope and passes, so the empty set is accepted here too.
BcAuthorize(g, client, scope, state, h) ==
    /\ g \in Grant \ minted
    /\ ValidScope(scope)
    /\ minted' = minted \cup {g}
    /\ requests' = requests \cup {g}
    /\ consent' = [consent EXCEPT ![g] =
            [Blank EXCEPT !.client = client, !.scope = scope, !.audience = BaseUrl(h),
                          !.state = state, !.expiresAt = now + RequestTTL]]
    /\ UNCHANGED <<codes, task, tokens, now>>

-----------------------------------------------------------------------------
(* POST /oauth2/token, grant_type=authorization_code *)

FormMatches(g, client, redirect, verifier) ==
    /\ redirect = consent[g].redirect
    /\ client = consent[g].client
    /\ verifier = consent[g].verifier

\* Mutant: the code is looked up, and removed only by a later step.
RedeemCodeKeeps(c, g, client, redirect, verifier, h) ==
    /\ task[c] = Idle
    /\ g \in codes
    /\ task' = [task EXCEPT ![c] =
            [pc |-> "redeemed", grant |-> g, client |-> client, iss |-> BaseUrl(h),
             matches |-> FormMatches(g, client, redirect, verifier)]]
    /\ UNCHANGED <<minted, codes, requests, consent, tokens, now>>

\* codes::redeem: whatever becomes of it, the code is consumed.
RedeemCode(c, g, client, redirect, verifier, h) ==
    /\ task[c] = Idle
    /\ g \in codes
    /\ codes' = codes \ {g}
    /\ task' = [task EXCEPT ![c] =
            [pc |-> "redeemed", grant |-> g, client |-> client, iss |-> BaseUrl(h),
             matches |-> FormMatches(g, client, redirect, verifier)]]
    /\ UNCHANGED <<minted, requests, consent, tokens, now>>

\* Mutant: the expiry is left to somebody else.
CheckRedemptionAnyTime(c) ==
    /\ task[c].pc = "redeemed"
    /\ task' = [task EXCEPT ![c] = IF task[c].matches THEN [@ EXCEPT !.pc = "issue"] ELSE Idle]
    /\ UNCHANGED <<minted, codes, requests, consent, tokens, now>>

\* An expired code, or a form that differs from the authorization: invalid_grant.
CheckRedemption(c) ==
    /\ task[c].pc = "redeemed"
    /\ task' = [task EXCEPT ![c] =
            IF now < consent[task[c].grant].expiresAt /\ task[c].matches
            THEN [@ EXCEPT !.pc = "issue"] ELSE Idle]
    /\ UNCHANGED <<minted, codes, requests, consent, tokens, now>>

-----------------------------------------------------------------------------
(* POST /oauth2/token, grant_type=urn:openid:params:grant-type:ciba *)

\* Mutant: the request is evicted before the client is compared.
PollRequestEvicts(c, g, client, h) ==
    /\ task[c] = Idle
    /\ g \in requests
    /\ requests' = requests \ {g}
    /\ task' = IF \/ client # consent[g].client
                  \/ now >= consent[g].expiresAt
                  \/ consent[g].state # "approved"
               THEN task
               ELSE [task EXCEPT ![c] = [pc |-> "issue", grant |-> g, client |-> client,
                                         iss |-> BaseUrl(h), matches |-> TRUE]]
    /\ UNCHANGED <<minted, codes, consent, tokens, now>>

\* Mutant: an approved request stays in the store once it was answered.
PollRequestReplays(c, g, client, h) ==
    /\ task[c] = Idle
    /\ g \in requests
    /\ client = consent[g].client
    /\ now < consent[g].expiresAt
    /\ consent[g].state = "approved"
    /\ task' = [task EXCEPT ![c] = [pc |-> "issue", grant |-> g, client |-> client,
                                    iss |-> BaseUrl(h), matches |-> TRUE]]
    /\ UNCHANGED <<minted, codes, requests, consent, tokens, now>>

\* ciba::poll for the client the request was issued to.  An expired request is
\* evicted, an approved one consumed; a pending or denied one stays, and so does
\* one that another client asks for.
PollRequest(c, g, client, h) ==
    /\ task[c] = Idle
    /\ g \in requests
    /\ client = consent[g].client
    /\ \/ /\ now >= consent[g].expiresAt
          /\ UNCHANGED task
       \/ /\ now < consent[g].expiresAt
          /\ consent[g].state = "approved"
          /\ task' = [task EXCEPT ![c] = [pc |-> "issue", grant |-> g, client |-> client,
                                          iss |-> BaseUrl(h), matches |-> TRUE]]
    /\ requests' = requests \ {g}
    /\ UNCHANGED <<minted, codes, consent, tokens, now>>

-----------------------------------------------------------------------------
(* issue_access_token *)

Sign(g, client, scope, iss, aud) ==
    tokens' = tokens \cup {[jti |-> Cardinality(tokens) + 1, grant |-> g,
                            client |-> client, scope |-> scope, iss |-> iss,
                            aud |-> aud, exp |-> now + TokenTTL]}

\* Mutant: the audience is this token endpoint, not the one consented to.
IssueTokenHere(c) ==
    /\ task[c].pc = "issue"
    /\ LET g == task[c].grant IN
       Sign(g, task[c].client, consent[g].scope, task[c].iss, task[c].iss)
    /\ task' = [task EXCEPT ![c] = Idle]
    /\ UNCHANGED <<minted, codes, requests, consent, now>>

\* Three-legged: scope and audience are those of the consent, the issuer is the
\* base URL of this token request.
IssueToken(c) ==
    /\ task[c].pc = "issue"
    /\ LET g == task[c].grant IN
       Sign(g, task[c].client, consent[g].scope, task[c].iss, consent[g].audience)
    /\ task' = [task EXCEPT ![c] = Idle]
    /\ UNCHANGED <<minted, codes, requests, consent, now>>

\* grant_type=client_credentials: issuer and audience are this server.
ClientCredentials(client, scope, h) ==
    /\ Cardinality(tokens) < MaxTwoLegged
    /\ ValidScope(scope)
    /\ Sign(NoGrant, client, scope, BaseUrl(h), BaseUrl(h))
    /\ UNCHANGED <<minted, codes, requests, consent, task, now>>

-----------------------------------------------------------------------------
(* verify_token and require_scope, as every protected handler applies them *)

Verifies(t, h) ==
    /\ now < t.exp
    /\ BaseUrl(h) = t.aud
    /\ BaseUrl(h) = t.iss

\* A request to host h, at an endpoint that asks for scope s, is served.
Serves(t, h, s) == Verifies(t, h) /\ s \in t.scope

-----------------------------------------------------------------------------
Tick ==
    /\ now < MaxTime
    /\ now' = now + 1
    /\ UNCHANGED <<minted, codes, requests, consent, task, tokens>>

Init ==
    /\ minted = {} /\ codes = {} /\ requests = {}
    /\ consent = [g \in Grant |-> Blank]
    /\ task = [c \in Conn |-> Idle]
    /\ tokens = {}
    /\ now = 0

Consenting ==
    \E g \in Grant, client \in Client, scope \in ScopeRequest, h \in Host :
       \/ \E redirect \in Redirect, verifier \in Verifier :
             Authorize(g, client, redirect, verifier, scope, h)
       \/ \E state \in State : BcAuthorize(g, client, scope, state, h)

TokenRequest(c) ==
    \/ \E g \in Grant, client \in Client, h \in Host :
          \/ \E redirect \in Redirect, verifier \in Verifier :
                RedeemCode(c, g, client, redirect, verifier, h)
          \/ PollRequest(c, g, client, h)
    \/ CheckRedemption(c)
    \/ IssueToken(c)

Next ==
    \/ Consenting
    \/ \E c \in Conn : TokenRequest(c)
    \/ \E client \in Client, scope \in ScopeRequest, h \in Host :
          ClientCredentials(client, scope, h)
    \/ Tick

Spec == Init /\ [][Next]_vars

-----------------------------------------------------------------------------
(* Correctness *)

TypeOK ==
    /\ minted \subseteq Grant
    /\ codes \subseteq minted /\ requests \subseteq minted
    /\ codes \cap requests = {}
    /\ consent \in [Grant -> Consent]
    /\ task \in [Conn -> Task]
    /\ tokens \subseteq Token /\ IsFiniteSet(tokens)
    /\ now \in Nat

Paid(g) == \E t \in tokens : t.grant = g

Holds(c, g) == task[c].pc # "idle" /\ task[c].grant = g
Issuing(g) == \E c \in Conn : Holds(c, g) /\ task[c].pc = "issue"

\* However many requests race to redeem one code or one backchannel request, it
\* yields one token.
GrantPaidOnce ==
    \A t, u \in tokens : t.grant # NoGrant /\ t.grant = u.grant => t = u

\* A protected endpoint serves a three-legged token exactly as far as the user
\* consented: to the client that asked, for the scope that was asked for, at the
\* server it was asked at - and only if it was also minted there.
ServedAsConsented ==
    \A t \in tokens, h \in Host, s \in ScopeName :
        (t.grant # NoGrant) =>
            /\ Serves(t, h, s) <=>
                  /\ s \in consent[t.grant].scope
                  /\ BaseUrl(h) = consent[t.grant].audience
                  /\ t.iss = consent[t.grant].audience
                  /\ now < t.exp
            /\ t.client = consent[t.grant].client
            /\ consent[t.grant].state = "approved"

\* Once a code or a request has expired unredeemed, or was redeemed too late, no
\* later step turns it into a token.
ExpiredNeverPays ==
    [][\A g \in minted :
          (now >= consent[g].expiresAt /\ ~Paid(g) /\ ~Issuing(g))
              => ~Paid(g)' /\ ~Issuing(g)']_vars

\* A backchannel request leaves its store only because it expired or because its
\* own client, finding it approved, was given the token: no other client's poll
\* and no early poll can burn it.
RequestSurvivesOthers ==
    [][\A g \in requests \ requests' :
          \/ now >= consent[g].expiresAt
          \/ \E c \in Conn : /\ task[c] = Idle
                             /\ (Holds(c, g) /\ task[c].pc = "issue"
                                   /\ task[c].client = consent[g].client)']_vars

GrantPhase(g) ==
    IF g \notin minted THEN "unissued"
    ELSE IF g \in codes \cup requests THEN "open"
    ELSE IF Paid(g) THEN "spent"
    ELSE IF \E c \in Conn : Holds(c, g) THEN "held"
    ELSE "void"

Grants == INSTANCE OneTimeGrant WITH
    phase   <- [g \in Grant |-> GrantPhase(g)],
    payouts <- {<<t.jti, t.grant>> : t \in {u \in tokens : u.grant # NoGrant}}

\* Both stores, and the redemption spread over three steps, are a one-time grant.
ImplementsGrants == Grants!Spec

=============================================================================
