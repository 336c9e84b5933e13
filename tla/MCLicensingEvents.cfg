SPECIFICATION EventsSpec
CONSTANTS
    Licenses = {l1}
    Devices = {d1, d2, d3}
    Handlers = {h1, h2}
    Ops = {"activate", "deactivate"}
    RequestedSeats = {0}
    Expiries = {Never}
    MaxClock = 0
    MaxCalls = 6
    OnlineGracePeriod = 1
    OfflineHorizon = 2
    Never = Never
    NoLicense = NoLicense
    NoCall = NoCall
SYMMETRY HandlersAndDevices
INVARIANTS
    DeactivationsTold
    ActivationsTold
    ActivationsToldBound
    SeatOvershootBound
PROPERTIES
    ImplementsLedger
