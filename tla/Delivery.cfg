\* Two OTP jobs and a batch for two workers and a request to an endpoint, with
\* an accident and a failure; two connections and two tickets that change once; two
\* browsers with a poll each, while the ticket changes twice.
CONSTANTS
    otp1 = otp1
    otp2 = otp2
    batch1 = batch1
    Job = {otp1, otp2, batch1}
    Kind <- KindC
    Worker = {w1, w2}
    Direct = {d1}
    Nil = Nil
    Limit = 2
    MaxOld = 1
    MaxAccidents = 1
    MaxFaults = 1
    Client = {c1, c2}
    Ticket = {t1, t2}
    Namespaced = TRUE
    RoomChanges = 1
    Poll = {p1, p2}
    MaxAsks = 1
    PollChanges = 2
SPECIFICATION DeliverySpec
INVARIANTS
    RoomsAgree
    OtpJobsKept
PROPERTIES
    ImplementsPromise
    PollAnswered
    MissedChangeFound
    QueuedOtpHandled
CHECK_DEADLOCK FALSE
