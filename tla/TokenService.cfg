SPECIFICATION Spec
CONSTANTS
    Conn = {"c1", "c2"}
    Client = {"shop", "bank"}
    Grant = {"g1"}
    NoGrant = "none"
    Host = {"internal", "public"}
    NoHost = "unset"
    Issuer = "unset"
    Redirect = {"cb", "other"}
    Verifier = {"v1", "v2"}
    ScopeName = {"read", "write", "dpv:Fraud"}
    Malformed = {"dpv:Fraud"}
    ScopeRequest <- MCScopeRequest
    CodeTTL = 2
    RequestTTL = 1
    TokenTTL = 2
    MaxTwoLegged = 1
    MaxTime = 3
INVARIANTS
    TypeOK
    GrantPaidOnce
    ServedAsConsented
PROPERTIES
    ExpiredNeverPays
    RequestSurvivesOthers
    ImplementsGrants
CHECK_DEADLOCK FALSE
