\* Two users, two overlapping requests, a key that runs out or a restart.
CONSTANTS
    u1 = u1
    u2 = u2
    User = {u1, u2}
    Nil = Nil
    MaxRequests = 4
    MaxSessions = 2
    MaxInFlight = 2
    MaxLosses = 1
SPECIFICATION Spec
SYMMETRY Symmetry
INVARIANTS
    LogoutIsFinal
    RevokedNotRefreshed
    OthersStayLoggedIn
CHECK_DEADLOCK FALSE
