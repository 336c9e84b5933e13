SPECIFICATION Spec
CONSTANTS
    Licenses = {l1, l2}
    Devices = {d1, d2}
    Handlers = {h1, h2}
    Ops = {"activate", "free"}
    RequestedSeats = {0}
    Expiries = {Never}
    MaxClock = 1
    OnlineGracePeriod = 1
    OfflineHorizon = 2
    Never = Never
    NoLicense = NoLicense
    NoCall = NoCall
SYMMETRY Interchangeable
PROPERTIES
    ImplementsLedger
