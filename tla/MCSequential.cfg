SPECIFICATION EventsSpec
CONSTANTS
    Licenses = {l1}
    Devices = {d1, d2, d3}
    Handlers = {h1}
    Ops = {"activate", "validate", "deactivate", "offline", "free"}
    RequestedSeats = {0, 2}
    Expiries = {1, Never}
    MaxClock = 2
    MaxCalls = 5
    OnlineGracePeriod = 1
    OfflineHorizon = 2
    Never = Never
    NoLicense = NoLicense
    NoCall = NoCall
SYMMETRY HandlersAndDevices
INVARIANTS
    SeatLimit
    TokenSeatsInRange
    ActivationsToldOnce
