\* Requests that overlap: two in flight at any await.  The preview and the
\* rejection, which read and write the ticket as a scan does, and the cleaning
\* of grants are left to QrSerial.
CONSTANTS
    Tid = {t1}
    User = {u1, u2}
    Session = {s1}
    Nil = Nil
    Ops = {"create", "scan", "approve", "exchangeGrant", "exchangeDelivery",
           "poll", "cleanTicket"}
    TicketTtl = 1
    GrantTtl = 1
    MaxRequests = 4
    MaxInFlight = 2
    MaxTime = 2
    MaxRestarts = 1
SYMMETRY Symmetry
SPECIFICATION Spec
CHECK_DEADLOCK FALSE
INVARIANTS RedemptionBacked UsedIsEarned
PROPERTY ImplementsLedger
