SPECIFICATION FairSpec
CONSTANTS
    Client = {"owner", "other", "third"}
    Assignment = {"asg"}
    Booking = {"bkg"}
    Insight = {"ins"}
    NoId = "none"
    Device <- MCDevice
    Echoed <- MCEchoed
    Scope <- MCScope
    Duration = {0, 2, 4}
    StartTime = {0, 2}
    MaxDuration = 3
    Grace = 1
    Lifetime = 3
    MaxCreates = 1
    MaxReports = 3
    MaxTime = 2
INVARIANTS
    TypeOK
    CredentialFollowsResource
    UnauthenticatedIsLate
PROPERTIES
    WindowHonoured
    TimedResourcesEnd
    ImplementsLifecycle
