SPECIFICATION HistorySpec
CONSTANTS
    Events = {e1}
    URLs = {u1}
    Secrets = {s1}
    NoURL = NoURL
    NoSecret = NoSecret
    Forms = {f1, f2}
    MaxSaves = 3
INVARIANTS
    HistoryTypeOK
    RetryRule
    PairJustified
PROPERTIES
    DeliveriesEnd
    ImplementsDelivery
