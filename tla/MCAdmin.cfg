SPECIFICATION HistorySpec
CONSTANTS
    Passwords = {p1, p2}
    Tokens = {t1, t2}
    Handlers = {h1, h2}
    Ops = {"setup", "login", "logout", "page", "password"}
    SessionTTL = 1
    MaxClock = 1
    MaxCalls = 4
    NoRow = NoRow
    NoCookie = NoCookie
    NoCall = NoCall
SYMMETRY Interchangeable
INVARIANTS
    HistoryTypeOK
    AdminRowsBounded
    LogoutEnds
    GuardJustified
    PasswordJustified
    SetupJustified
PROPERTIES
    AccountChangesHands
