SPECIFICATION FairBoundedSpec
CONSTANTS
    Parts = {remote}
    Accounts = {home, friend}
    Shared = friend
    NoPart = noPart
    NoAccount = nobody
    AnyAnswer = FALSE
    HomeMayEmpty = TRUE
    MaxFaults = 3
    MaxEvents = 2
PROPERTIES KeepsThePromise AnswerUnblocks
