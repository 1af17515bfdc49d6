\* Three addresses, two of them spellings of one, two usernames and passwords:
\* an account, three requests at a time and a loss; two callers of the cache
\* service with four calls and two losses; and payloads of up to three levels,
\* arrays of up to two items of which one is taken, and two approvals.
CONSTANTS
    m1 = m1
    shouted = M1
    Mail = {m1, M1, m2}
    Lower <- LowerC
    Name = {n1, n2}
    Secret = {s1, s2}
    Nil = Nil
    MaxRequests = 3
    MaxInFlight = 3
    MaxLosses = 1
    Caller = {c1, c2}
    MaxCalls = 4
    MaxCacheLosses = 2
    Deep = {"orgId", "pubKey"}
    Tree <- TreeC
    Levels = 3
    MaxDepth = 2
    MaxItems = 1
    MaxApprovals = 2
SPECIFICATION PartsSpec
INVARIANTS
    SharedOnlyByOverlap
    Accounted
    PreviewExact
PROPERTIES
    ReplacedByKnowing
    LockEnds
CHECK_DEADLOCK FALSE
