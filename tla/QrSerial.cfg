\* Requests one at a time: the QR flow of one ticket as a sequence of calls.
CONSTANTS
    Tid = {t1}
    User = {u1, u2}
    Session = {s1}
    Nil = Nil
    Ops = {"create", "view", "scan", "approve", "reject", "exchangeGrant",
           "exchangeDelivery", "poll", "cleanTicket", "cleanGrant"}
    TicketTtl = 1
    GrantTtl = 1
    MaxRequests = 6
    MaxInFlight = 1
    MaxTime = 2
    MaxRestarts = 0
SYMMETRY Symmetry
SPECIFICATION Spec
CHECK_DEADLOCK FALSE
INVARIANTS ActionRunsOnce CodesRedeemOnce RejectionIsFinal DeliveredUserRan
    NotModifiedIsFresh
PROPERTY LifeCycle
