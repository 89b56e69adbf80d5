SPECIFICATION ServicesSpec
CONSTANTS
    GeoConnection = {"g1", "g2"}
    Subscription = {"s1"}
    NoSubscription = "none"
    GeoDevice <- MCGeoDevice
    Limit <- MCLimit
    ExpireTime = {0, 1, 2}
    MovementGrace = 1
    GeoMaxTime = 2
    DialConnection = {"d1", "d2"}
    Pair <- MCPair
    MaxCalls = 2
    EdgeConnection = {"e1", "e2"}
    App = {"app"}
    Zone = {"zone"}
    ForeignZone = {"abroad"}
    DeploymentName = {"A", "B"}
    Absent = Absent
    TrustConnection = {"owner", "second", "barred"}
    Subject <- MCSubject
    Service = {"svc"}
    Name = {"home", "guest"}
    Label = {"tv"}
    Same = Same
INVARIANTS
    EventsTruthful
    HangUpsToldOnce
    LateStepsBounded
PROPERTIES
    TrustDomainsSound
    CatalogueSound
CHECK_DEADLOCK FALSE
