SPECIFICATION HistorySpec
CONSTANTS
    Licenses = {l1}
    Devices = {d1, d2}
    Handlers = {h1, h2}
    Ops = {"activate"}
    RequestedSeats = {1}
    Expiries = {Never}
    MaxClock = 0
    OnlineGracePeriod = 1
    OfflineHorizon = 2
    Never = Never
    NoLicense = NoLicense
    NoCall = NoCall
SYMMETRY HandlersAndDevices
INVARIANTS
    RefusedForOthersSeats
