SPECIFICATION ClientSpec
CONSTANTS
    Licenses = {l1}
    Devices = {d1}
    LicenseKey = l1
    Machine = d1
    Handlers = {h1, h2}
    Ops = {"activate", "validate", "deactivate", "offline", "free"}
    RequestedSeats = {1}
    Expiries = {1, Never}
    OnlineGracePeriod = 1
    OfflineHorizon = 2
    MaxClock = 2
    MaxRequests = 3
    Keys = {k1, k2}
    Never = Never
    NoLicense = NoLicense
    NoCall = NoCall
    NoKey = NoKey
    NoFile = NoFile
    Torn = Torn
    NoCommand = NoCommand
SYMMETRY Interchangeable
INVARIANTS
    ClientTypeOK
    FreedSeatEnds
    RevokedLicenseEnds
    ExpiredLicenseEnds
    KeyForLife
    CachedFilesAgree
PROPERTIES
    FileOutlivesSeat
