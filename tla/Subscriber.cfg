\* The broadcasts alone: a subscriber, and a ticket that changes again.
CONSTANTS
    otp1 = otp1
    otp2 = otp2
    batch1 = batch1
    Job = {otp1, otp2, batch1}
    Kind <- KindC
    Worker = {w1, w2}
    Direct = {d1}
    Nil = Nil
    Limit = 3
    MaxOld = 1
    MaxAccidents = 1
    MaxFaults = 1
    Client = {c1, c2}
    Ticket = {t1, t2}
    Namespaced = TRUE
    RoomChanges = 2
    Poll = {p1, p2}
    MaxAsks = 1
    PollChanges = 2
SPECIFICATION RoomsSpec
INVARIANT SubscriberIsCurrent
CHECK_DEADLOCK FALSE
