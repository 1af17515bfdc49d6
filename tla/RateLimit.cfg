\* Three checks of one counter on their way at a time; one change of any rule
\* and one of the policies, with one failure; limits small enough to be hit.
CONSTANTS
    Check = {k1, k2, k3}
    Limit = 2
    Window = 3
    Token = 2
    Burst = 4
    Refill = 1
    BucketTtl = 4
    MaxDelay = 2
    MaxTime = 7
    MaxAdmitted = 6
    RuleCheck = {c1, c2}
    Changing = {"policies"}
    Admin = {a1}
    Nil = Nil
    RuleTtl = 2
    InvalidTtl = 1
    RuleDelay = 1
    MaxChanges = 1
    MaxFaults = 1
SYMMETRY Symmetry
SPECIFICATION RateSpec
INVARIANTS
    FixedWindowPace
    SlidingSeconds
    BucketPace
    HotReload
    DecidedByRecent
CHECK_DEADLOCK FALSE
