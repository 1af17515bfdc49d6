\* Two overlapping requests on one email's code, with failing commands, expiry
\* and a restart.
CONSTANTS
    Code = {c1, c2}
    Nil = Nil
    OtpTtl = 1
    MaxAttempts = 2
    MaxRequests = 5
    MaxInFlight = 2
    MaxTime = 2
    MaxRestarts = 1
SYMMETRY Symmetry
SPECIFICATION Spec
CHECK_DEADLOCK FALSE
INVARIANTS GuessLimit AcceptedInTime UsedCodesRefused
PROPERTY NeverRestored
