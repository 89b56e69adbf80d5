SPECIFICATION Spec
CONSTANTS
    Client = {"owner", "other"}
    Id = {"s1"}
    NoId = "none"
    Device = {"line-042", "line-001", "client-id", "line-404"}
    Plane <- MCPlane
    Echoed <- MCEchoed
    Scope <- MCScope
    Duration = {0, 1, 2, 3}
    MaxDuration = 2
    Grace = 1
    CreateUntil = 1
    MaxTime = 5
PROPERTY
    ExtensionHonoured
