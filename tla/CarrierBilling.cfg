SPECIFICATION FairSpec
CONSTANTS
    Client = {"merchant", "other"}
    Payment = {"p1", "p2"}
    NoPayment = "none"
    Scope <- MCScope
    Attempts = 3
INVARIANTS
    TypeOK
    RenderedCoherently
    OtpBudget
    NothingStuck
    TargetUsedOnce
    NoticesAuthenticated
PROPERTIES
    ImplementsPayment
    OutcomeAnnounced
