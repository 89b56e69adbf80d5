SPECIFICATION HomeSpec
CONSTANTS
    HomeConnection = {"c1", "c2"}
    Ssid <- MCSsid
    Setting = {"on"}
    Unset = Unset
INVARIANT
    ConfirmedStaysLive
CHECK_DEADLOCK FALSE
