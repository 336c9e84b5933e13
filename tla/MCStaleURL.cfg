SPECIFICATION HistorySpec
CONSTANTS
    Events = {e1}
    URLs = {u1, u2}
    Secrets = {s1}
    NoURL = NoURL
    NoSecret = NoSecret
    Forms = {f1}
    MaxSaves = 1
PROPERTIES
    SentToCurrentURL
