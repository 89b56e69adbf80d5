SPECIFICATION Spec
CONSTANTS
    Client = {"shop", "stranger"}
    Authorised = {"shop"}
    Id = {"a1", "a2"}
    Phone = {"line-a", "line-a2", "line-b", "line-404"}
    Reserved = {"line-404"}
    OtpCode <- MCOtpCode
    Code = {"111111", "222222", "0"}
    OtpTTL = 2
    MaxAttempts = 3
    MaxTime = 4
INVARIANTS
    TypeOK
    GuessBudget
PROPERTIES
    ExpiredNeverPasses
    ImplementsGrants
CHECK_DEADLOCK FALSE
