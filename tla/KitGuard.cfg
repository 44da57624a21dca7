SPECIFICATION GuardSpec
CONSTANTS
    Callers = {c1, c2}
    Accounts = {a1, a2}
    Nobody = Nobody
INVARIANTS  LoginFollowsKit
PROPERTIES EveryCallReturns
