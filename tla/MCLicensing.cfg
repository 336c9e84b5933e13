SPECIFICATION HistorySpec
CONSTANTS
    Licenses = {l1}
    Devices = {d1, d2}
    Handlers = {h1, h2}
    Ops = {"activate", "validate", "deactivate", "offline", "free"}
    RequestedSeats = {0}
    Expiries = {1}
    MaxClock = 2
    OnlineGracePeriod = 1
    OfflineHorizon = 2
    Never = Never
    NoLicense = NoLicense
    NoCall = NoCall
SYMMETRY HandlersAndDevices
INVARIANTS
    HistoryTypeOK
    IInv
    SnapshotAgrees
    AcceptedTokenUnexpired
    TokenJustified
    RefusalJustified
    FreeJustified
