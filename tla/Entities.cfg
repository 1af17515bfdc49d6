\* Two rows, two requests at a time, three in all, a fault.
CONSTANTS
    Id = {m1, m2}
    Worker = {w1, w2}
    Nil = Nil
    Ttl = 2
    Swr = 1
    MaxDelay = 1
    MaxRequests = 3
    MaxFaults = 1
SPECIFICATION Spec
SYMMETRY Symmetry
INVARIANTS
    BoundedStaleness
    UpdatesAreSeen
    UploadBacked
CHECK_DEADLOCK FALSE
