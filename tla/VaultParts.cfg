SPECIFICATION VaultSpec
CONSTANTS
    Parts = {"document", "codes", "signin"}
    Accounts = {a1}
    StandIns = {s1}
    Callers = {c1, c2}
    Passwords = {p1, p2}
    Inbound = {b1}
    Outbound = {e1, e2}
    Rosters = {r1, r2}
    MaxImports = 1
    MaxRecords = 1
    NoEntry = noEntry
    NoDoc = noDoc
    NoValue = noValue
    NoOne = noOne
    Relocks = FALSE
    MaxCalls = 3
    Mails = {1, 2}
    Warmings = {1, 2}
    Purge = TRUE
    MaxMinutes = 2
    StaleSkew = 0
    LoginWindow = 1
    PrewarmLifetime = 1
    MaxLogins = 3
    MaxPolls = 2
    HeaderOnOK = FALSE
SYMMETRY Symmetry
INVARIANTS SingleUseOnce  TypedForThisRequest
PROPERTIES UnrelatedWritesKeep StandInsStayGone ImportKeepsWhatIsThere WarmedForThisSignIn
CHECK_DEADLOCK FALSE
