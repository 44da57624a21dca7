SPECIFICATION AppSpec
CONSTANTS
    Parts = {"close", "watch", "settings", "userdata", "commands", "login", "refresh", "game", "tray", "backup", "tags"}
    ExitGrace = 4
    GameExitGrace = 6
    AskTimeout = 3
    HelperGrace = 1
    TermGrace = 2
    Users = {u1, u2}
    NoUser = noUser
    MaxLaunches = 2
    MaxSeconds = 2
    MaxTurns = 3
    AnswerTimeout = 1
    StartupGrace = 1
    ExitSettle = 1
    WatchLimit = 2
    EarlyActive = FALSE
    Setters = {c1}
    DefaultMinutes = 1
    MaxEnds = 2
    MaxDeaths = 3
    Folders = {"appdata", "custom"}
    Files = {"vault", "kits"}
    Faults = {}
    MaxVersion = 2
    Procs = {p1, p2, p3}
    MaxArgs = 2
    LoginIds = {a1, a2}
    NoOne = noOne
    Unreadable = unreadable
    MaxLoginEvents = 2
    Profiles = {a1, a2}
    MaxAttempts = 2
    MaxAsked = 2
    MaxLocksHere = 1
    RoleIds = {a1, a2}
    NoHome = noHome
    Writers = {w1, w2}
    MaxPatches = 1
    MaxWrites = 3
    TrayCallers = {c1, c2}
    TrayIds = {a1, a2}
    MaxRecent = 2
    MaxTrayCalls = 3
    LastFile = 2
    MaxArchives = 2
    MaxVersions = 1
    MaxBackupFaults = 1
    Tagged = {a1, a2}
    Tags = {drop, t1}
    DropClaimed = drop
    TagCallers = {c1, c2}
    Week = 2
    LastHour = 3
    MaxTagCalls = 3
INVARIANTS NothingStartsAgain    OneAppActs  QuietMeansDone HomeIsNotShared LinksOnlySwitch MenuFollows TagsStay
PROPERTIES RestoredIsTheArchive
CHECK_DEADLOCK FALSE
