\* One check with a key that bypasses all limits.
CONSTANTS
    Check = {k1}
    Limit = 2
    Window = 3
    Token = 2
    Burst = 4
    Refill = 1
    BucketTtl = 4
    MaxDelay = 2
    MaxTime = 7
    MaxAdmitted = 6
    RuleCheck = {c1}
    Changing = {"key"}
    Admin = {a1}
    Nil = Nil
    RuleTtl = 2
    InvalidTtl = 1
    RuleDelay = 1
    MaxChanges = 0
    MaxFaults = 0
SPECIFICATION RateSpec
INVARIANT WhitelistedKeyPasses
CHECK_DEADLOCK FALSE
