--------------------------- MODULE QrTicketProofs ---------------------------
(***************************************************************************)
(* What holds of QrTicket for every number of tickets, users, requests and *)
(* instances, whatever the TTLs: its types, that every exchange is backed  *)
(* by an approval, that it implements ApprovalLedger, and that expiry and  *)
(* web session stay what a ticket was created with; and, when requests do  *)
(* not overlap, that actions, rejections and codes count once and tickets  *)
(* keep to their life cycle.                                               *)
(***************************************************************************)
EXTENDS QrTicket, FiniteSetTheorems, TLAPS

(***************************************************************************)
(* The frame of a request (label, locals and ticket object): which calls   *)
(* can be at a label, and which locals the code has set by then.           *)
(***************************************************************************)
Changing == {"scan", "approve", "reject"}
Exchange == {"exchangeGrant", "exchangeDelivery"}

OpFits(l, c) ==
    /\ l \in {"getTicket", "putExpired"} => c.op \in Changing \cup Exchange \cup {"view"}
    /\ l = "putTicket" => c.op \in Changing \cup Exchange \cup {"create"}
    /\ l = "publish" => c.op \in Changing \cup Exchange
    /\ l \in {"runAction", "putRevert", "putGrant", "putDelivery"} => c.op = "approve"
    /\ l \in {"getGrant", "delGrant"} => c.op = "exchangeGrant"
    /\ l = "getDelivery" => c.op = "exchangeDelivery"
    /\ l = "delDelivery" => \/ c.op = "exchangeDelivery"
                            \/ c.op = "poll" /\ ~c.valid
    /\ l \in {"snapshot", "putSnapshot", "tryGetDelivery"} => c.op = "poll" /\ ~c.valid
    /\ l \in {"cleanGet", "cleanDel"} => c.op \in {"cleanTicket", "cleanGrant"}

LocalsFit(l, c) ==
    /\ l # "getGrant" /\ c.op # "cleanGrant" => c.tid \in Tid
    /\ c.op \in Exchange \cup {"cleanGrant"} => c.code \in Rid
    /\ c.op \in Changing => c.user \in User
    /\ c.op = "exchangeGrant" /\ l # "getGrant" => c.user \in User
    /\ c.op = "exchangeDelivery" /\ l \in {"putTicket", "publish"} => c.user \in User

\* An approved ticket names its approver.
TicketOK(tk) == tk.status = "APPROVED" => tk.approvedBy \in User

FrameOK(l, c, tk) ==
    /\ l \notin {"idle", "done"} => c \in Call /\ OpFits(l, c) /\ LocalsFit(l, c)
    /\ l \in {"putExpired", "putTicket", "runAction", "putRevert", "putGrant",
              "putDelivery", "putSnapshot"} => tk \in Ticket /\ TicketOK(tk)
    /\ l = "putDelivery" => tk.webSession \in Session

LocalsOK ==
    /\ pc \in [Rid -> Pc]
    /\ call \in [Rid -> Call \cup {Nil}]
    /\ copy \in [Rid -> Ticket \cup {Nil}]
    /\ \A r \in Rid : FrameOK(pc[r], call[r], copy[r])

TicketsOK ==
    /\ tickets \in [Tid -> Key(Ticket)]
    /\ \A t \in Tid : tickets[t] # Nil => TicketOK(tickets[t].val)

RedisOK ==
    /\ TicketsOK
    /\ grants \in [Rid -> Key(Grant)]
    /\ deliveries \in [Tid -> Key(Delivery)]

BoundsOK == now \in Nat /\ started \in 0..MaxRequests /\ restarts \in Nat

SeenOK == seen \in [Tid -> [status: Status, version: Nat] \cup {Nil}]

HistoryOK ==
    /\ created \subseteq Tid
    /\ verified \subseteq Tid \X User
    /\ executed \subseteq [by: Rid, tid: Tid, user: User]
    /\ rejected \subseteq Tid
    /\ redeemed \subseteq [by: Rid, via: {"exchangeGrant", "exchangeDelivery"},
                          code: Rid, tid: Tid, user: User]

\* TypeOK with what makes it inductive.
TypeInv == LocalsOK /\ RedisOK /\ BoundsOK /\ SeenOK /\ HistoryOK

\* The inductive types are the types that are checked.
LEMMA TypeInvTypeOK == TypeInv => TypeOK
  BY DEF TypeInv, LocalsOK, RedisOK, TicketsOK, BoundsOK, SeenOK, HistoryOK, TypeOK

-----------------------------------------------------------------------------
(* A step of request r that leaves frame (l, c, tk) keeps every frame.     *)

\* A request moves to a label with a frame and a ticket object that fit it.
LEMMA FrameStep ==
  ASSUME LocalsOK, NEW r \in Rid, NEW l \in Pc,
         NEW c \in Call \cup {Nil}, NEW tk \in Ticket \cup {Nil},
         FrameOK(l, c, tk),
         pc' = [pc EXCEPT ![r] = l],
         call' = [call EXCEPT ![r] = c],
         copy' = [copy EXCEPT ![r] = tk]
  PROVE  LocalsOK'
  <1>1. /\ pc' \in [Rid -> Pc]
        /\ call' \in [Rid -> Call \cup {Nil}]
        /\ copy' \in [Rid -> Ticket \cup {Nil}]
    BY DEF LocalsOK
  <1>2. ASSUME NEW q \in Rid PROVE FrameOK(pc'[q], call'[q], copy'[q])
    <2>1. CASE q = r
      BY <2>1 DEF LocalsOK
    <2>2. CASE q # r
      BY <2>2 DEF LocalsOK
    <2>3. QED BY <2>1, <2>2
  <1>3. QED BY <1>1, <1>2 DEF LocalsOK

\* The same when the locals, the ticket object or both are left alone.
LEMMA GotoStep ==
  ASSUME LocalsOK, NEW r \in Rid, NEW l \in Pc, Goto(r, l),
         FrameOK(l, call[r], copy[r]), UNCHANGED <<call, copy>>
  PROVE  LocalsOK'
  <1>1. call' = [call EXCEPT ![r] = call[r]] /\ copy' = [copy EXCEPT ![r] = copy[r]]
    BY DEF LocalsOK
  <1>2. call[r] \in Call \cup {Nil} /\ copy[r] \in Ticket \cup {Nil}
    BY DEF LocalsOK
  <1>3. pc' = [pc EXCEPT ![r] = l]
    BY DEF Goto
  <1>4. QED BY <1>1, <1>2, <1>3, FrameStep

\* A request goes on with a changed ticket object.
LEMMA ContinueStep ==
  ASSUME LocalsOK, NEW r \in Rid, NEW l \in Pc, NEW tk \in Ticket,
         Continue(r, tk, l), FrameOK(l, call[r], tk)
  PROVE  LocalsOK'
  <1>1. call' = [call EXCEPT ![r] = call[r]] /\ call[r] \in Call \cup {Nil}
    BY DEF LocalsOK, Continue
  <1>2. QED BY <1>1, FrameStep DEF Continue, Goto

\* A request answers and drops its frame.
LEMMA FinishStep ==
  ASSUME LocalsOK, NEW r \in Rid, Finish(r)
  PROVE  LocalsOK'
  <1>1. FrameOK("done", Nil, Nil) /\ "done" \in Pc
    BY DEF FrameOK, Pc
  <1>2. QED BY <1>1, FrameStep DEF Finish, Goto

-----------------------------------------------------------------------------
(* Types: what a step writes.                                              *)

\* A status change makes a ticket of a ticket.
LEMMA BumpType ==
  ASSUME NEW tk \in Ticket, NEW s \in Status
  PROVE  /\ Bump(tk, s) \in Ticket
         /\ Bump(tk, s).status = s
         /\ Bump(tk, s).approvedBy = tk.approvedBy
         /\ Bump(tk, s).webSession = tk.webSession
  <1>1. tk.version \in Nat /\ tk.version + 1 \in Nat
    BY DEF Ticket
  <1>2. QED BY <1>1 DEF Bump, Ticket

\* What a ticket key holds.
LEMMA StoredTicket ==
  ASSUME TypeInv, NEW t \in Tid, tickets[t] # Nil
  PROVE  tickets[t].val \in Ticket /\ TicketOK(tickets[t].val)
  BY DEF TypeInv, RedisOK, TicketsOK, Key

\* What a grant key holds.
LEMMA StoredGrant ==
  ASSUME TypeInv, NEW g \in Rid, grants[g] # Nil
  PROVE  grants[g].val \in Grant
  BY DEF TypeInv, RedisOK, Key

\* What a delivery key holds.
LEMMA StoredDelivery ==
  ASSUME TypeInv, NEW t \in Tid, deliveries[t] # Nil
  PROVE  deliveries[t].val \in Delivery
  BY DEF TypeInv, RedisOK, Key

\* SETEX of a ticket object keeps the ticket keys well typed.
LEMMA WriteTicketType ==
  ASSUME TypeInv, NEW r \in Rid, call[r].tid \in Tid,
         copy[r] \in Ticket, TicketOK(copy[r]), WriteTicket(r)
  PROVE  TicketsOK'
  <1>1. SetEx(copy[r], TicketTtl) \in [val: Ticket, until: Nat]
    BY ConstantsAssumption DEF SetEx, TypeInv, BoundsOK
  <1>2. SetEx(copy[r], TicketTtl).val = copy[r]
    BY DEF SetEx
  <1>3. tickets' \in [Tid -> Key(Ticket)]
    BY <1>1 DEF WriteTicket, TypeInv, RedisOK, TicketsOK, Key
  <1>4. ASSUME NEW t \in Tid, tickets'[t] # Nil PROVE TicketOK(tickets'[t].val)
    BY <1>2, <1>4 DEF WriteTicket, TypeInv, RedisOK, TicketsOK
  <1>5. QED BY <1>3, <1>4 DEF TicketsOK, TicketOK

\* Expired keys are dropped; the others stay.
LEMMA UnexpiredType ==
  ASSUME NEW D, NEW S, NEW keys \in [D -> Key(S)], NEW n
  PROVE  /\ Unexpired(keys, n) \in [D -> Key(S)]
         /\ \A k \in D : Unexpired(keys, n)[k] # Nil => Unexpired(keys, n)[k] = keys[k]
  BY DEF Unexpired, Key

\* What the frame of a request that is being served says of its call.
LEMMA ServedCall ==
  ASSUME TypeInv, NEW r \in Rid, pc[r] \notin {"idle", "done"}
  PROVE  call[r] \in Call /\ OpFits(pc[r], call[r]) /\ LocalsFit(pc[r], call[r])
  BY DEF TypeInv, LocalsOK, FrameOK

-----------------------------------------------------------------------------
(* Types: one lemma per step.                                              *)

\* Resume keeps the types.
LEMMA ResumeType ==
  ASSUME TypeInv, NEW r \in Rid, pc[r] \in {"getTicket", "putExpired"},
         NEW tk \in Ticket, TicketOK(tk), Resume(r, tk)
  PROVE  LocalsOK' /\ verified' \subseteq Tid \X User
  <1> DEFINE c == call[r]
  <1>1. c \in Call /\ OpFits(pc[r], c) /\ LocalsFit(pc[r], c) /\ c.tid \in Tid
    BY ServedCall DEF LocalsFit, OpFits, Changing, Exchange
  <1>2. LocalsOK /\ verified \subseteq Tid \X User
    BY DEF TypeInv, HistoryOK
  <1>3. CASE c.op = "scan" /\ ScanChecks(tk) /\ Continue(r, Bump(tk, "SCANNED"), "putTicket")
             /\ UNCHANGED verified
    <2>1. FrameOK("putTicket", c, Bump(tk, "SCANNED"))
      BY <1>1, <1>3, BumpType DEF FrameOK, OpFits, LocalsFit, Changing, Exchange,
         TicketOK, Status
    <2>2. QED BY <1>2, <1>3, <2>1, BumpType, ContinueStep DEF Pc, Status
  <1>4. CASE c.op = "approve" /\ ApproveChecks(c, tk)
             /\ Continue(r, [Bump(tk, "APPROVED") EXCEPT !.approvedBy = c.user], "putTicket")
             /\ verified' = verified \cup {<<c.tid, c.user>>}
    <2> DEFINE new == [Bump(tk, "APPROVED") EXCEPT !.approvedBy = c.user]
    <2>1. c.user \in User
      BY <1>1, <1>4 DEF LocalsFit, Changing
    <2>2. new \in Ticket /\ new.approvedBy = c.user
      BY <2>1, BumpType DEF Ticket, Status
    <2>3. FrameOK("putTicket", c, new)
      BY <1>1, <1>4, <2>1, <2>2 DEF FrameOK, OpFits, LocalsFit, Changing, Exchange, TicketOK
    <2>4. LocalsOK'
      BY <1>2, <1>4, <2>2, <2>3, ContinueStep DEF Pc
    <2>5. QED BY <1>1, <1>2, <1>4, <2>1, <2>4
  <1>5. CASE c.op = "reject" /\ OpenChecks(tk) /\ Continue(r, Bump(tk, "REJECTED"), "putTicket")
             /\ UNCHANGED verified
    <2>1. FrameOK("putTicket", c, Bump(tk, "REJECTED"))
      BY <1>1, <1>5, BumpType DEF FrameOK, OpFits, LocalsFit, Changing, Exchange,
         TicketOK, Status
    <2>2. QED BY <1>2, <1>5, <2>1, BumpType, ContinueStep DEF Pc, Status
  <1>6. CASE c.op = "exchangeGrant" /\ Continue(r, Bump(tk, "USED"), "putTicket")
             /\ UNCHANGED verified
    <2>1. FrameOK("putTicket", c, Bump(tk, "USED"))
      BY <1>1, <1>6, BumpType DEF FrameOK, OpFits, LocalsFit, Changing, Exchange,
         TicketOK, Status
    <2>2. QED BY <1>2, <1>6, <2>1, BumpType, ContinueStep DEF Pc, Status
  <1>7. CASE /\ c.op = "exchangeDelivery" /\ DeliveryChecks(tk)
             /\ copy' = [copy EXCEPT ![r] = Bump(tk, "USED")]
             /\ call' = [call EXCEPT ![r].user = tk.approvedBy]
             /\ Goto(r, "putTicket")
             /\ UNCHANGED verified
    <2> DEFINE d == [c EXCEPT !.user = tk.approvedBy]
    <2>1. tk.approvedBy \in User
      BY <1>7 DEF DeliveryChecks, TicketOK
    <2>2. /\ d \in Call /\ d.op = c.op /\ d.tid = c.tid /\ d.code = c.code
          /\ d.user = tk.approvedBy
      BY <1>1, <2>1 DEF Call
    <2>3. FrameOK("putTicket", d, Bump(tk, "USED"))
      BY <1>1, <1>7, <2>1, <2>2, BumpType DEF FrameOK, OpFits, LocalsFit, Changing, Exchange,
         TicketOK, Status
    <2>4. call' = [call EXCEPT ![r] = d]
      BY <1>7
    <2>5. Bump(tk, "USED") \in Ticket /\ "putTicket" \in Pc
      BY BumpType DEF Status, Pc
    <2>6. QED BY <1>2, <1>7, <2>2, <2>3, <2>4, <2>5, FrameStep DEF Goto
  <1>8. CASE Finish(r) /\ UNCHANGED verified
    BY <1>2, <1>8, FinishStep
  <1>9. QED BY <1>3, <1>4, <1>5, <1>6, <1>7, <1>8 DEF Resume

\* Enter keeps the types.
LEMMA EnterType ==
  ASSUME TypeInv, NEW r \in Rid, NEW c \in Call, NEW l \in Pc,
         NEW tk \in Ticket \cup {Nil}, FrameOK(l, c, tk), Enter(r, c, l),
         copy' = [copy EXCEPT ![r] = tk]
  PROVE  LocalsOK' /\ started' \in 0..MaxRequests
  <1>1. LocalsOK'
    BY FrameStep DEF TypeInv, Enter, Goto
  <1>2. started' \in 0..MaxRequests
    BY ConstantsAssumption DEF Enter, Rid
  <1>3. QED BY <1>1, <1>2

\* CreateTicket keeps the types.
LEMMA CreateTicketType ==
  ASSUME TypeInv, NEW r \in Rid, NEW t \in Tid, NEW s \in Session \cup {Nil},
         CreateTicket(r, t, s)
  PROVE  TypeInv'
  <1> DEFINE c  == Frame("create", t, Nil, Nil, FALSE)
             tk == [status |-> "PENDING", webSession |-> s, approvedBy |-> Nil,
                    version |-> 1, expiresAt |-> now + TicketTtl]
  <1>1. /\ c \in Call /\ c.op = "create" /\ c.tid = t
    BY DEF Frame, Call, Op
  <1>2. tk \in Ticket
    BY ConstantsAssumption DEF Ticket, Status, TypeInv, BoundsOK
  <1>3. FrameOK("putTicket", c, tk)
    <2>1. OpFits("putTicket", c) /\ LocalsFit("putTicket", c)
      BY <1>1 DEF OpFits, LocalsFit, Changing, Exchange
    <2>2. QED BY <1>1, <1>2, <2>1 DEF FrameOK, TicketOK
  <1>4. Enter(r, c, "putTicket") /\ copy' = [copy EXCEPT ![r] = tk] /\ "putTicket" \in Pc
    BY DEF CreateTicket, Pc
  <1>5. LocalsOK' /\ started' \in 0..MaxRequests
    BY <1>1, <1>2, <1>3, <1>4, EnterType
  <1>6. RedisOK' /\ BoundsOK' /\ SeenOK' /\ HistoryOK'
    BY <1>5 DEF CreateTicket, TypeInv, RedisOK, TicketsOK, BoundsOK, SeenOK, HistoryOK,
       redis, TicketOK
  <1>7. QED BY <1>5, <1>6 DEF TypeInv

\* Every other call only adds its frame.
LEMMA RequestType ==
  ASSUME TypeInv, NEW r \in Rid, NEW c \in Call, NEW l \in Pc,
         OpFits(l, c), LocalsFit(l, c),
         l \in {"getTicket", "getGrant", "getDelivery", "snapshot", "cleanGet"},
         Request(r, c, l)
  PROVE  TypeInv'
  <1>1. FrameOK(l, c, copy[r]) /\ copy[r] \in Ticket \cup {Nil}
    BY DEF FrameOK, TypeInv, LocalsOK
  <1>2. copy' = [copy EXCEPT ![r] = copy[r]]
    BY DEF Request, TypeInv, LocalsOK
  <1>3. LocalsOK' /\ started' \in 0..MaxRequests
    BY <1>1, <1>2, EnterType DEF Request
  <1>4. RedisOK' /\ BoundsOK' /\ SeenOK' /\ HistoryOK'
    BY <1>3 DEF Request, TypeInv, RedisOK, TicketsOK, BoundsOK, SeenOK, HistoryOK,
       redis, history, TicketOK
  <1>5. QED BY <1>3, <1>4 DEF TypeInv

\* Arrive keeps the types.
LEMMA ArriveType ==
  ASSUME TypeInv, NEW r \in Rid, Arrive(r)
  PROVE  TypeInv'
  <1>1. ASSUME NEW t \in Tid, NEW s \in Session \cup {Nil}, CreateTicket(r, t, s)
        PROVE TypeInv'
    BY <1>1, CreateTicketType
  <1>2. ASSUME NEW t \in Tid, ViewTicket(r, t)
        PROVE TypeInv'
    <2> DEFINE c == Frame("view", t, Nil, Nil, FALSE)
    <2>1. c \in Call
      BY DEF Frame, Call, Op
    <2>2. OpFits("getTicket", c) /\ LocalsFit("getTicket", c) /\ "getTicket" \in Pc
      BY DEF Frame, OpFits, LocalsFit, Changing, Exchange, Pc
    <2>3. Request(r, c, "getTicket")
      BY <1>2 DEF ViewTicket
    <2> HIDE DEF c
    <2>4. QED BY <2>1, <2>2, <2>3, RequestType
  <1>3. ASSUME NEW t \in Tid, NEW u \in User, ScanTicket(r, t, u)
        PROVE TypeInv'
    <2> DEFINE c == Frame("scan", t, u, Nil, FALSE)
    <2>1. c \in Call
      BY DEF Frame, Call, Op
    <2>2. OpFits("getTicket", c) /\ LocalsFit("getTicket", c) /\ "getTicket" \in Pc
      BY DEF Frame, OpFits, LocalsFit, Changing, Exchange, Pc
    <2>3. Request(r, c, "getTicket")
      BY <1>3 DEF ScanTicket
    <2> HIDE DEF c
    <2>4. QED BY <2>1, <2>2, <2>3, RequestType
  <1>4. ASSUME NEW t \in Tid, NEW u \in User, NEW v \in BOOLEAN, ApproveTicket(r, t, u, v)
        PROVE TypeInv'
    <2> DEFINE c == Frame("approve", t, u, Nil, v)
    <2>1. c \in Call
      BY DEF Frame, Call, Op
    <2>2. OpFits("getTicket", c) /\ LocalsFit("getTicket", c) /\ "getTicket" \in Pc
      BY DEF Frame, OpFits, LocalsFit, Changing, Exchange, Pc
    <2>3. Request(r, c, "getTicket")
      BY <1>4 DEF ApproveTicket
    <2> HIDE DEF c
    <2>4. QED BY <2>1, <2>2, <2>3, RequestType
  <1>5. ASSUME NEW t \in Tid, NEW u \in User, RejectTicket(r, t, u)
        PROVE TypeInv'
    <2> DEFINE c == Frame("reject", t, u, Nil, FALSE)
    <2>1. c \in Call
      BY DEF Frame, Call, Op
    <2>2. OpFits("getTicket", c) /\ LocalsFit("getTicket", c) /\ "getTicket" \in Pc
      BY DEF Frame, OpFits, LocalsFit, Changing, Exchange, Pc
    <2>3. Request(r, c, "getTicket")
      BY <1>5 DEF RejectTicket
    <2> HIDE DEF c
    <2>4. QED BY <2>1, <2>2, <2>3, RequestType
  <1>6. ASSUME NEW t \in Tid, NEW g \in Rid, ExchangeGrant(r, t, g)
        PROVE TypeInv'
    <2> DEFINE c == Frame("exchangeGrant", t, Nil, g, FALSE)
    <2>1. c \in Call
      BY DEF Frame, Call, Op
    <2>2. OpFits("getGrant", c) /\ LocalsFit("getGrant", c) /\ "getGrant" \in Pc
      BY DEF Frame, OpFits, LocalsFit, Changing, Exchange, Pc
    <2>3. Request(r, c, "getGrant")
      BY <1>6 DEF ExchangeGrant
    <2> HIDE DEF c
    <2>4. QED BY <2>1, <2>2, <2>3, RequestType
  <1>7. ASSUME NEW t \in Tid, NEW g \in Rid, ExchangeDelivery(r, t, g)
        PROVE TypeInv'
    <2> DEFINE c == Frame("exchangeDelivery", t, Nil, g, FALSE)
    <2>1. c \in Call
      BY DEF Frame, Call, Op
    <2>2. OpFits("getDelivery", c) /\ LocalsFit("getDelivery", c) /\ "getDelivery" \in Pc
      BY DEF Frame, OpFits, LocalsFit, Changing, Exchange, Pc
    <2>3. Request(r, c, "getDelivery")
      BY <1>7 DEF ExchangeDelivery
    <2> HIDE DEF c
    <2>4. QED BY <2>1, <2>2, <2>3, RequestType
  <1>8. ASSUME NEW t \in Tid, PollTicket(r, t)
        PROVE TypeInv'
    <2> DEFINE c == Frame("poll", t, Nil, Nil, FALSE)
    <2>1. c \in Call
      BY DEF Frame, Call, Op
    <2>2. OpFits("snapshot", c) /\ LocalsFit("snapshot", c) /\ "snapshot" \in Pc
      BY DEF Frame, OpFits, LocalsFit, Changing, Exchange, Pc
    <2>3. Request(r, c, "snapshot")
      BY <1>8 DEF PollTicket
    <2> HIDE DEF c
    <2>4. QED BY <2>1, <2>2, <2>3, RequestType
  <1>9. ASSUME NEW t \in Tid, CleanTicket(r, t)
        PROVE TypeInv'
    <2> DEFINE c == Frame("cleanTicket", t, Nil, Nil, FALSE)
    <2>1. c \in Call
      BY DEF Frame, Call, Op
    <2>2. OpFits("cleanGet", c) /\ LocalsFit("cleanGet", c) /\ "cleanGet" \in Pc
      BY DEF Frame, OpFits, LocalsFit, Changing, Exchange, Pc
    <2>3. Request(r, c, "cleanGet")
      BY <1>9 DEF CleanTicket
    <2> HIDE DEF c
    <2>4. QED BY <2>1, <2>2, <2>3, RequestType
  <1>10. ASSUME NEW g \in Rid, CleanGrant(r, g)
        PROVE TypeInv'
    <2> DEFINE c == Frame("cleanGrant", Nil, Nil, g, FALSE)
    <2>1. c \in Call
      BY DEF Frame, Call, Op
    <2>2. OpFits("cleanGet", c) /\ LocalsFit("cleanGet", c) /\ "cleanGet" \in Pc
      BY DEF Frame, OpFits, LocalsFit, Changing, Exchange, Pc
    <2>3. Request(r, c, "cleanGet")
      BY <1>10 DEF CleanGrant
    <2> HIDE DEF c
    <2>4. QED BY <2>1, <2>2, <2>3, RequestType
  <1>11. Known \subseteq Tid /\ Issued \subseteq Rid
    BY DEF TypeInv, HistoryOK, Issued, Known
  <1>12. QED
    BY <1>1, <1>2, <1>3, <1>4, <1>5, <1>6, <1>7, <1>8, <1>9, <1>10, <1>11 DEF Arrive

\* Steps that change no key, no clock and no history beyond verified.
LEMMA LocalStep ==
  ASSUME TypeInv, LocalsOK', SeenOK', UNCHANGED <<redis, bounds, history>>
  PROVE  TypeInv'
  BY DEF TypeInv, RedisOK, TicketsOK, BoundsOK, HistoryOK, redis, bounds, history, TicketOK

\* Steps that write the ticket and change nothing else but frames.
LEMMA WriteStep ==
  ASSUME TypeInv, LocalsOK', TicketsOK', SeenOK',
         UNCHANGED <<grants, deliveries, bounds, history>>
  PROVE  TypeInv'
  BY DEF TypeInv, RedisOK, BoundsOK, HistoryOK, bounds, history

\* The frame of a request that holds a ticket object.
LEMMA HeldTicket ==
  ASSUME TypeInv, NEW r \in Rid,
         pc[r] \in {"putExpired", "putTicket", "runAction", "putRevert", "putGrant",
                   "putDelivery", "putSnapshot"}
  PROVE  /\ call[r] \in Call /\ OpFits(pc[r], call[r]) /\ LocalsFit(pc[r], call[r])
         /\ call[r].tid \in Tid
         /\ copy[r] \in Ticket /\ TicketOK(copy[r])
  <1>1. call[r] \in Call /\ OpFits(pc[r], call[r]) /\ LocalsFit(pc[r], call[r])
    BY ServedCall
  <1>2. call[r].tid \in Tid
    BY <1>1 DEF OpFits, LocalsFit, Changing, Exchange
  <1>3. copy[r] \in Ticket /\ TicketOK(copy[r])
    BY DEF TypeInv, LocalsOK, FrameOK
  <1>4. QED BY <1>1, <1>2, <1>3

\* GetTicket keeps the types.
LEMMA GetTicketType ==
  ASSUME TypeInv, NEW r \in Rid, GetTicket(r)
  PROVE  TypeInv'
  <1> DEFINE t   == call[r].tid
             key == tickets[t]
  <1>1. /\ pc[r] = "getTicket" /\ call[r] \in Call
        /\ OpFits("getTicket", call[r]) /\ LocalsFit("getTicket", call[r])
    BY ServedCall DEF GetTicket
  <1>2. t \in Tid
    BY <1>1 DEF OpFits, LocalsFit, Changing, Exchange
  <1>3. LocalsOK' /\ verified' \subseteq Tid \X User
    <2>1. CASE Finish(r) /\ UNCHANGED verified
      BY <2>1, FinishStep DEF TypeInv, HistoryOK
    <2>2. CASE /\ Past(key) /\ UNCHANGED verified
               /\ Continue(r, [key.val EXCEPT !.status = "EXPIRED"], "putExpired")
      <3> DEFINE new == [key.val EXCEPT !.status = "EXPIRED"]
      <3>1. new \in Ticket /\ TicketOK(new)
        BY <1>2, <2>2, StoredTicket DEF Past, Ticket, TicketOK, Status
      <3>2. FrameOK("putExpired", call[r], new) /\ "putExpired" \in Pc
        <4>1. OpFits("putExpired", call[r]) /\ LocalsFit("putExpired", call[r])
          BY <1>1, <1>2 DEF OpFits, LocalsFit, Changing, Exchange
        <4>2. QED BY <1>1, <3>1, <4>1 DEF FrameOK, Pc
      <3> HIDE DEF new
      <3>3. QED BY <2>2, <3>1, <3>2, ContinueStep DEF TypeInv, HistoryOK, new
    <2>3. CASE Live(key) /\ Resume(r, key.val)
      BY <1>1, <1>2, <2>3, StoredTicket, ResumeType DEF Live
    <2>4. QED BY <2>1, <2>2, <2>3 DEF GetTicket
  <1>4. QED
    BY <1>3 DEF GetTicket, TypeInv, RedisOK, TicketsOK, BoundsOK, SeenOK, HistoryOK,
       redis, bounds, TicketOK

\* PutExpired keeps the types.
LEMMA PutExpiredType ==
  ASSUME TypeInv, NEW r \in Rid, PutExpired(r)
  PROVE  TypeInv'
  <1>1. pc[r] = "putExpired" /\ WriteTicket(r) /\ Resume(r, copy[r])
    BY DEF PutExpired
  <1>2. LocalsOK' /\ verified' \subseteq Tid \X User
    BY <1>1, HeldTicket, ResumeType
  <1>3. TicketsOK'
    BY <1>1, HeldTicket, WriteTicketType
  <1>4. QED
    BY <1>2, <1>3 DEF PutExpired, TypeInv, RedisOK, BoundsOK, SeenOK, HistoryOK, bounds

\* PutTicket keeps the types.
LEMMA PutTicketType ==
  ASSUME TypeInv, NEW r \in Rid, PutTicket(r)
  PROVE  TypeInv'
  <1>1. pc[r] = "putTicket" /\ WriteTicket(r)
    BY DEF PutTicket
  <1>2. TicketsOK'
    BY <1>1, HeldTicket, WriteTicketType
  <1>3. LocalsOK'
    <2>1. CASE Finish(r)
      BY <2>1, FinishStep DEF TypeInv
    <2>2. CASE /\ call[r].op # "create" /\ Goto(r, AfterPut(call[r].op))
               /\ UNCHANGED <<call, copy>>
      <3>1. FrameOK(AfterPut(call[r].op), call[r], copy[r]) /\ AfterPut(call[r].op) \in Pc
        BY <1>1, <2>2, HeldTicket DEF FrameOK, OpFits, LocalsFit, Changing, Exchange,
           AfterPut, Pc
      <3>2. QED BY <2>2, <3>1, GotoStep DEF TypeInv
    <2>3. QED BY <2>1, <2>2 DEF PutTicket
  <1>4. QED BY <1>2, <1>3, WriteStep DEF PutTicket, TypeInv, SeenOK

\* RunAction keeps the types.
LEMMA RunActionType ==
  ASSUME TypeInv, NEW r \in Rid, RunAction(r)
  PROVE  TypeInv'
  <1> DEFINE c == call[r]
             d == [c EXCEPT !.expiresAt = now + GrantTtl]
  <1>1. /\ pc[r] = "runAction" /\ c \in Call /\ c.op = "approve" /\ c.tid \in Tid
        /\ c.user \in User /\ copy[r] \in Ticket /\ TicketOK(copy[r])
        /\ LocalsFit("runAction", c)
    BY HeldTicket DEF RunAction, OpFits, LocalsFit, Changing
  <1>2. /\ d \in Call /\ d.op = c.op /\ d.tid = c.tid /\ d.user = c.user
        /\ d.code = c.code
    BY <1>1, ConstantsAssumption DEF Call, TypeInv, BoundsOK
  <1>3. FrameOK("putGrant", d, copy[r]) /\ "putGrant" \in Pc
    <2>1. OpFits("putGrant", d) /\ LocalsFit("putGrant", d)
      BY <1>1, <1>2 DEF OpFits, LocalsFit, Changing, Exchange
    <2>2. QED BY <1>1, <1>2, <2>1 DEF FrameOK, Pc
  <1>4. /\ call' = [call EXCEPT ![r] = d] /\ copy' = [copy EXCEPT ![r] = copy[r]]
        /\ pc' = [pc EXCEPT ![r] = "putGrant"]
    BY DEF RunAction, Goto, TypeInv, LocalsOK
  <1>5. LocalsOK'
    BY <1>1, <1>2, <1>3, <1>4, FrameStep DEF TypeInv
  <1>6. executed' \subseteq [by: Rid, tid: Tid, user: User]
    BY <1>1 DEF RunAction, TypeInv, HistoryOK
  <1>7. QED
    BY <1>5, <1>6 DEF RunAction, TypeInv, RedisOK, TicketsOK, BoundsOK, SeenOK,
       HistoryOK, redis, bounds, TicketOK

\* FailAction keeps the types.
LEMMA FailActionType ==
  ASSUME TypeInv, NEW r \in Rid, FailAction(r)
  PROVE  TypeInv'
  <1> DEFINE new == [copy[r] EXCEPT !.status = "PENDING"]
  <1>1. pc[r] = "runAction" /\ Continue(r, new, "putRevert")
    BY DEF FailAction
  <1>2. new \in Ticket /\ TicketOK(new)
    BY <1>1, HeldTicket DEF Ticket, TicketOK, Status
  <1>3. FrameOK("putRevert", call[r], new) /\ "putRevert" \in Pc
    <2>1. OpFits("putRevert", call[r]) /\ LocalsFit("putRevert", call[r])
      BY <1>1, HeldTicket DEF OpFits, LocalsFit, Changing, Exchange
    <2>2. QED BY <1>1, <1>2, <2>1, HeldTicket DEF FrameOK, Pc
  <1>4. LocalsOK'
    <2> HIDE DEF new
    <2>1. QED BY <1>1, <1>2, <1>3, ContinueStep DEF TypeInv
  <1>5. QED BY <1>4, LocalStep DEF FailAction, TypeInv, SeenOK

\* PutRevert keeps the types.
LEMMA PutRevertType ==
  ASSUME TypeInv, NEW r \in Rid, PutRevert(r)
  PROVE  TypeInv'
  <1>1. pc[r] = "putRevert" /\ WriteTicket(r) /\ Finish(r)
    BY DEF PutRevert
  <1>2. TicketsOK' /\ LocalsOK'
    BY <1>1, HeldTicket, WriteTicketType, FinishStep DEF TypeInv
  <1>3. QED BY <1>2, WriteStep DEF PutRevert, TypeInv, SeenOK

\* PutGrant keeps the types.
LEMMA PutGrantType ==
  ASSUME TypeInv, NEW r \in Rid, PutGrant(r)
  PROVE  TypeInv'
  <1> DEFINE c == call[r]
             d == [c EXCEPT !.expiresAt = now + GrantTtl]
             g == [tid |-> c.tid, user |-> c.user, expiresAt |-> c.expiresAt]
  <1>1. /\ pc[r] = "putGrant" /\ c \in Call /\ c.op = "approve" /\ c.tid \in Tid
        /\ c.user \in User /\ copy[r] \in Ticket /\ TicketOK(copy[r])
        /\ c.expiresAt \in Nat
    BY HeldTicket DEF PutGrant, OpFits, LocalsFit, Changing, Call
  <1>2. grants' \in [Rid -> Key(Grant)]
    <2>1. g \in Grant
      BY <1>1 DEF Grant
    <2> HIDE DEF g
    <2>2. SetEx(g, GrantTtl) \in Key(Grant)
      BY <2>1, ConstantsAssumption DEF SetEx, Key, TypeInv, BoundsOK
    <2>3. QED BY <2>2 DEF PutGrant, TypeInv, RedisOK, g
  <1>3. ASSUME /\ copy[r].webSession # Nil
               /\ call' = [call EXCEPT ![r].expiresAt = now + GrantTtl]
               /\ Goto(r, "putDelivery")
        PROVE  LocalsOK'
    <2>1. /\ d \in Call /\ d.op = c.op /\ d.tid = c.tid /\ d.user = c.user
          /\ d.code = c.code
      BY <1>1, ConstantsAssumption DEF Call, TypeInv, BoundsOK
    <2>2. FrameOK("putDelivery", d, copy[r]) /\ "putDelivery" \in Pc
      <3>1. OpFits("putDelivery", d) /\ LocalsFit("putDelivery", d)
        BY <1>1, <2>1 DEF OpFits, LocalsFit, Changing, Exchange
      <3>2. copy[r].webSession \in Session
        BY <1>1, <1>3 DEF Ticket
      <3>3. QED BY <1>1, <2>1, <3>1, <3>2 DEF FrameOK, Pc
    <2>3. /\ call' = [call EXCEPT ![r] = d] /\ copy' = [copy EXCEPT ![r] = copy[r]]
          /\ pc' = [pc EXCEPT ![r] = "putDelivery"]
      BY <1>3 DEF PutGrant, Goto, TypeInv, LocalsOK
    <2> HIDE DEF d
    <2>4. QED BY <1>1, <2>1, <2>2, <2>3, FrameStep DEF TypeInv
  <1>4. ASSUME Goto(r, "publish"), UNCHANGED call
        PROVE  LocalsOK'
    <2>1. FrameOK("publish", c, copy[r]) /\ "publish" \in Pc
      BY <1>1 DEF FrameOK, OpFits, LocalsFit, Changing, Exchange, Pc
    <2>2. UNCHANGED <<call, copy>>
      BY <1>4 DEF PutGrant
    <2>3. QED BY <1>4, <2>1, <2>2, GotoStep DEF TypeInv
  <1>5. LocalsOK'
    <2>1. \/ /\ copy[r].webSession # Nil
             /\ call' = [call EXCEPT ![r].expiresAt = now + GrantTtl]
             /\ Goto(r, "putDelivery")
          \/ Goto(r, "publish") /\ UNCHANGED call
      BY DEF PutGrant
    <2> HIDE DEF g
    <2>2. QED BY <2>1, <1>3, <1>4
  <1>6. QED
    BY <1>2, <1>5 DEF PutGrant, TypeInv, RedisOK, TicketsOK, BoundsOK, SeenOK,
       HistoryOK, bounds, history, TicketOK

\* PutDelivery keeps the types.
LEMMA PutDeliveryType ==
  ASSUME TypeInv, NEW r \in Rid, PutDelivery(r)
  PROVE  TypeInv'
  <1> DEFINE c == call[r]
             d == [code |-> r, webSession |-> copy[r].webSession,
                   expiresAt |-> c.expiresAt]
  <1>1. /\ pc[r] = "putDelivery" /\ c \in Call /\ c.op = "approve" /\ c.tid \in Tid
        /\ c.user \in User /\ c.expiresAt \in Nat
    BY HeldTicket DEF PutDelivery, OpFits, LocalsFit, Changing, Call
  <1>2. copy[r].webSession \in Session
    BY <1>1 DEF TypeInv, LocalsOK, FrameOK
  <1>3. deliveries' \in [Tid -> Key(Delivery)]
    <2>1. d \in Delivery
      BY <1>1, <1>2 DEF Delivery
    <2> HIDE DEF d
    <2>2. SetEx(d, GrantTtl) \in Key(Delivery)
      BY <2>1, ConstantsAssumption DEF SetEx, Key, TypeInv, BoundsOK
    <2>3. QED BY <1>1, <2>2 DEF PutDelivery, TypeInv, RedisOK, d
  <1>4. LocalsOK'
    <2>1. FrameOK("publish", c, copy[r]) /\ "publish" \in Pc
      BY <1>1 DEF FrameOK, OpFits, LocalsFit, Changing, Exchange, Pc
    <2>2. QED BY <2>1, GotoStep DEF PutDelivery, TypeInv
  <1>5. QED
    BY <1>3, <1>4 DEF PutDelivery, TypeInv, RedisOK, TicketsOK, BoundsOK, SeenOK,
       HistoryOK, bounds, history, TicketOK

\* OfGrant keeps the types.
LEMMA OfGrantType ==
  ASSUME NEW c \in Call, c.code \in Rid, NEW g \in Grant
  PROVE  /\ OfGrant(c, g) \in Call
         /\ OfGrant(c, g).op = "exchangeGrant"
         /\ OfGrant(c, g).code = c.code
         /\ OfGrant(c, g).tid = g.tid /\ g.tid \in Tid
         /\ OfGrant(c, g).user = g.user /\ g.user \in User
  BY DEF OfGrant, Frame, Call, Grant, Op

\* GetGrant keeps the types.
LEMMA GetGrantType ==
  ASSUME TypeInv, NEW r \in Rid, GetGrant(r)
  PROVE  TypeInv'
  <1> DEFINE c   == call[r]
             key == grants[c.code]
             d   == OfGrant(c, key.val)
  <1>1. pc[r] = "getGrant" /\ c \in Call /\ c.code \in Rid
    BY ServedCall DEF GetGrant, OpFits, LocalsFit, Exchange
  <1>2. LocalsOK'
    <2>1. CASE Finish(r)
      BY <2>1, FinishStep DEF TypeInv
    <2>2. CASE Live(key) /\ call' = [call EXCEPT ![r] = OfGrant(@, key.val)]
               /\ Goto(r, "getTicket") /\ UNCHANGED copy
      <3>1. key.val \in Grant
        BY <1>1, <2>2, StoredGrant DEF Live
      <3>2. /\ d \in Call /\ d.op = "exchangeGrant" /\ d.code \in Rid
            /\ d.tid \in Tid /\ d.user \in User
        BY <1>1, <3>1, OfGrantType
      <3>3. call' = [call EXCEPT ![r] = d]
        BY <2>2 DEF TypeInv, LocalsOK
      <3> HIDE DEF d
      <3>4. FrameOK("getTicket", d, copy[r]) /\ "getTicket" \in Pc
        BY <3>2 DEF FrameOK, OpFits, LocalsFit, Changing, Exchange, Pc
      <3>5. copy' = [copy EXCEPT ![r] = copy[r]] /\ copy[r] \in Ticket \cup {Nil}
        BY <2>2 DEF TypeInv, LocalsOK
      <3>6. QED BY <2>2, <3>2, <3>3, <3>4, <3>5, FrameStep DEF TypeInv, Goto
    <2>3. QED BY <2>1, <2>2 DEF GetGrant
  <1>3. QED BY <1>2, LocalStep DEF GetGrant, TypeInv, SeenOK

\* DelGrant keeps the types.
LEMMA DelGrantType ==
  ASSUME TypeInv, NEW r \in Rid, DelGrant(r)
  PROVE  TypeInv'
  <1>1. /\ pc[r] = "delGrant" /\ call[r] \in Call /\ call[r].op = "exchangeGrant"
        /\ LocalsFit("delGrant", call[r])
    BY ServedCall DEF DelGrant, OpFits
  <1>2. LocalsOK'
    <2>1. FrameOK("publish", call[r], copy[r]) /\ "publish" \in Pc
      BY <1>1 DEF FrameOK, OpFits, LocalsFit, Changing, Exchange, Pc
    <2>2. QED BY <2>1, GotoStep DEF DelGrant, TypeInv
  <1>3. grants' \in [Rid -> Key(Grant)]
    BY DEF DelGrant, TypeInv, RedisOK, Key
  <1>4. QED
    BY <1>2, <1>3 DEF DelGrant, TypeInv, RedisOK, TicketsOK, BoundsOK, SeenOK,
       HistoryOK, bounds, history, TicketOK

\* GetDelivery keeps the types.
LEMMA GetDeliveryType ==
  ASSUME TypeInv, NEW r \in Rid, GetDelivery(r)
  PROVE  TypeInv'
  <1> DEFINE c   == call[r]
             key == deliveries[c.tid]
             b   == Matches(c, key)
             d   == [c EXCEPT !.valid = b]
  <1>1. /\ pc[r] = "getDelivery" /\ c \in Call /\ c.op = "exchangeDelivery"
        /\ LocalsFit("getDelivery", c)
    BY ServedCall DEF GetDelivery, OpFits
  <1>2. LocalsOK'
    <2>1. CASE Finish(r)
      BY <2>1, FinishStep DEF TypeInv
    <2>2. CASE call' = [call EXCEPT ![r].valid = b]
               /\ Goto(r, "delDelivery") /\ UNCHANGED copy
      <3>1. b \in BOOLEAN
        BY DEF Matches, Live
      <3> HIDE DEF b
      <3>2. /\ d \in Call /\ d.op = c.op /\ d.tid = c.tid /\ d.code = c.code
            /\ d.user = c.user
        BY <1>1, <3>1 DEF Call
      <3>3. call' = [call EXCEPT ![r] = d]
        BY <2>2
      <3>4. FrameOK("delDelivery", d, copy[r]) /\ "delDelivery" \in Pc
        BY <1>1, <3>2 DEF FrameOK, OpFits, LocalsFit, Changing, Exchange, Pc
      <3>5. copy' = [copy EXCEPT ![r] = copy[r]] /\ copy[r] \in Ticket \cup {Nil}
        BY <2>2 DEF TypeInv, LocalsOK
      <3>6. LocalsOK /\ pc' = [pc EXCEPT ![r] = "delDelivery"]
        BY <2>2 DEF TypeInv, Goto
      <3> HIDE DEF d
      <3>7. QED BY <3>2, <3>3, <3>4, <3>5, <3>6, FrameStep
    <2>3. QED BY <2>1, <2>2 DEF GetDelivery
  <1>3. QED BY <1>2, LocalStep DEF GetDelivery, TypeInv, SeenOK

\* DelDelivery keeps the types.
LEMMA DelDeliveryType ==
  ASSUME TypeInv, NEW r \in Rid, DelDelivery(r)
  PROVE  TypeInv'
  <1>1. /\ pc[r] = "delDelivery" /\ call[r] \in Call
        /\ OpFits("delDelivery", call[r]) /\ LocalsFit("delDelivery", call[r])
    BY ServedCall DEF DelDelivery
  <1>2. LocalsOK'
    <2>1. CASE Finish(r)
      BY <2>1, FinishStep DEF TypeInv
    <2>2. CASE call[r].valid /\ Goto(r, "getTicket") /\ UNCHANGED <<call, copy>>
      <3>1. FrameOK("getTicket", call[r], copy[r]) /\ "getTicket" \in Pc
        BY <1>1, <2>2 DEF FrameOK, OpFits, LocalsFit, Changing, Exchange, Pc
      <3>2. QED BY <2>2, <3>1, GotoStep DEF TypeInv
    <2>3. QED BY <2>1, <2>2 DEF DelDelivery
  <1>3. deliveries' \in [Tid -> Key(Delivery)]
    BY DEF DelDelivery, TypeInv, RedisOK, Key
  <1>4. QED
    BY <1>2, <1>3 DEF DelDelivery, TypeInv, RedisOK, TicketsOK, BoundsOK, SeenOK,
       HistoryOK, bounds, history, TicketOK

\* Publish keeps the types.
LEMMA PublishType ==
  ASSUME TypeInv, NEW r \in Rid, Publish(r)
  PROVE  TypeInv'
  <1>1. /\ pc[r] = "publish" /\ call[r] \in Call
        /\ OpFits("publish", call[r]) /\ LocalsFit("publish", call[r])
    BY ServedCall DEF Publish
  <1>2. LocalsOK'
    BY FinishStep DEF Publish, TypeInv
  <1>3. call[r].op = "reject" => call[r].tid \in Tid
    BY <1>1 DEF LocalsFit
  <1>4. Answered(call[r]) =>
           /\ call[r].op \in Exchange /\ call[r].code \in Rid
           /\ call[r].tid \in Tid /\ call[r].user \in User
    BY <1>1 DEF Answered, LocalsFit, Exchange
  <1>5. rejected' \subseteq Tid
    BY <1>3 DEF Publish, TypeInv, HistoryOK
  <1>6. redeemed' \subseteq [by: Rid, via: Exchange, code: Rid, tid: Tid, user: User]
    BY <1>4 DEF Publish, TypeInv, HistoryOK, Exchange
  <1>7. QED
    BY <1>2, <1>5, <1>6 DEF Publish, TypeInv, RedisOK, TicketsOK, BoundsOK, SeenOK,
       HistoryOK, redis, bounds, TicketOK, Exchange

\* AnswerPoll keeps the types.
LEMMA AnswerPollType ==
  ASSUME TypeInv, NEW r \in Rid, pc[r] \in {"snapshot", "putSnapshot"},
         NEW t \in Tid, NEW tk \in Ticket, AnswerPoll(r, t, tk)
  PROVE  LocalsOK' /\ SeenOK'
  <1>1. /\ call[r] \in Call
        /\ OpFits(pc[r], call[r]) /\ LocalsFit(pc[r], call[r])
    BY ServedCall
  <1>2. SeenOK'
    <2>1. Etag(tk) \in [status: Status, version: Nat]
      BY DEF Etag, Ticket
    <2>2. seen' = seen \/ seen' = [seen EXCEPT ![t] = Etag(tk)]
      BY DEF AnswerPoll
    <2> HIDE DEF Etag
    <2>3. QED BY <2>1, <2>2 DEF TypeInv, SeenOK
  <1>3. LocalsOK'
    <2>1. CASE Finish(r)
      BY <2>1, FinishStep DEF TypeInv
    <2>2. CASE Continue(r, tk, "tryGetDelivery")
      <3>1. FrameOK("tryGetDelivery", call[r], tk) /\ "tryGetDelivery" \in Pc
        BY <1>1 DEF FrameOK, OpFits, LocalsFit, Changing, Exchange, Pc
      <3>2. QED BY <2>2, <3>1, ContinueStep DEF TypeInv
    <2>3. QED BY <2>1, <2>2 DEF AnswerPoll
  <1>4. QED BY <1>2, <1>3

\* Snapshot keeps the types.
LEMMA SnapshotType ==
  ASSUME TypeInv, NEW r \in Rid, Snapshot(r)
  PROVE  TypeInv'
  <1> DEFINE t   == call[r].tid
             key == tickets[t]
             new == Bump(key.val, "EXPIRED")
  <1>1. /\ pc[r] = "snapshot" /\ call[r] \in Call
        /\ OpFits("snapshot", call[r]) /\ LocalsFit("snapshot", call[r])
    BY ServedCall DEF Snapshot
  <1>2. t \in Tid
    BY <1>1 DEF OpFits, LocalsFit, Changing, Exchange
  <1>3. LocalsOK' /\ SeenOK'
    <2>1. CASE Finish(r) /\ UNCHANGED seen
      BY <2>1, FinishStep DEF TypeInv, SeenOK
    <2>2. CASE Past(key) /\ Continue(r, new, "putSnapshot") /\ UNCHANGED seen
      <3>1. new \in Ticket /\ TicketOK(new)
        BY <1>2, <2>2, StoredTicket, BumpType DEF Past, TicketOK, Status
      <3>2. FrameOK("putSnapshot", call[r], new) /\ "putSnapshot" \in Pc
        BY <1>1, <1>2, <3>1 DEF FrameOK, OpFits, LocalsFit, Changing, Exchange, Pc
      <3> HIDE DEF new
      <3>3. QED BY <2>2, <3>1, <3>2, ContinueStep DEF TypeInv, SeenOK
    <2>3. CASE Live(key) /\ AnswerPoll(r, t, key.val)
      BY <1>1, <1>2, <2>3, StoredTicket, AnswerPollType DEF Live
    <2>4. QED BY <2>1, <2>2, <2>3 DEF Snapshot
  <1>4. QED BY <1>3, LocalStep DEF Snapshot

\* PutSnapshot keeps the types.
LEMMA PutSnapshotType ==
  ASSUME TypeInv, NEW r \in Rid, PutSnapshot(r)
  PROVE  TypeInv'
  <1>1. pc[r] = "putSnapshot" /\ WriteTicket(r) /\ AnswerPoll(r, call[r].tid, copy[r])
    BY DEF PutSnapshot
  <1>2. TicketsOK'
    BY <1>1, HeldTicket, WriteTicketType
  <1>3. LocalsOK' /\ SeenOK'
    BY <1>1, HeldTicket, AnswerPollType
  <1>4. QED BY <1>2, <1>3, WriteStep DEF PutSnapshot

\* TryGetDelivery keeps the types.
LEMMA TryGetDeliveryType ==
  ASSUME TypeInv, NEW r \in Rid, TryGetDelivery(r)
  PROVE  TypeInv'
  <1>1. /\ pc[r] = "tryGetDelivery" /\ call[r] \in Call
        /\ OpFits("tryGetDelivery", call[r]) /\ LocalsFit("tryGetDelivery", call[r])
    BY ServedCall DEF TryGetDelivery
  <1>2. LocalsOK'
    <2>1. CASE Finish(r)
      BY <2>1, FinishStep DEF TypeInv
    <2>2. CASE Goto(r, "delDelivery") /\ UNCHANGED <<call, copy>>
      <3>1. FrameOK("delDelivery", call[r], copy[r]) /\ "delDelivery" \in Pc
        BY <1>1 DEF FrameOK, OpFits, LocalsFit, Changing, Exchange, Pc
      <3>2. QED BY <2>2, <3>1, GotoStep DEF TypeInv
    <2>3. QED BY <2>1, <2>2 DEF TryGetDelivery
  <1>3. QED BY <1>2, LocalStep DEF TryGetDelivery, TypeInv, SeenOK

\* CleanGet keeps the types.
LEMMA CleanGetType ==
  ASSUME TypeInv, NEW r \in Rid, CleanGet(r)
  PROVE  TypeInv'
  <1>1. /\ pc[r] = "cleanGet" /\ call[r] \in Call
        /\ OpFits("cleanGet", call[r]) /\ LocalsFit("cleanGet", call[r])
    BY ServedCall DEF CleanGet
  <1>2. LocalsOK'
    <2>1. CASE Finish(r)
      BY <2>1, FinishStep DEF TypeInv
    <2>2. CASE Goto(r, "cleanDel") /\ UNCHANGED <<call, copy>>
      <3>1. FrameOK("cleanDel", call[r], copy[r]) /\ "cleanDel" \in Pc
        BY <1>1 DEF FrameOK, OpFits, LocalsFit, Changing, Exchange, Pc
      <3>2. QED BY <2>2, <3>1, GotoStep DEF TypeInv
    <2>3. QED BY <2>1, <2>2 DEF CleanGet
  <1>3. QED BY <1>2, LocalStep DEF CleanGet, TypeInv, SeenOK

\* A deleted key is no key; the others are as they were.
LEMMA CleanDelType ==
  ASSUME TypeInv, NEW r \in Rid, CleanDel(r)
  PROVE  TypeInv'
  <1>1. LocalsOK'
    BY FinishStep DEF CleanDel, TypeInv
  <1>2. TicketsOK' /\ grants' \in [Rid -> Key(Grant)]
    <2>1. CASE tickets' = [tickets EXCEPT ![call[r].tid] = Nil] /\ UNCHANGED grants
      BY <2>1 DEF TypeInv, RedisOK, TicketsOK, Key, TicketOK
    <2>2. CASE grants' = [grants EXCEPT ![call[r].code] = Nil] /\ UNCHANGED tickets
      BY <2>2 DEF TypeInv, RedisOK, TicketsOK, Key, TicketOK
    <2>3. QED BY <2>1, <2>2 DEF CleanDel
  <1>3. QED
    BY <1>1, <1>2 DEF CleanDel, TypeInv, RedisOK, BoundsOK, SeenOK, HistoryOK, bounds,
       history

\* Serve keeps the types.
LEMMA ServeType ==
  ASSUME TypeInv, NEW r \in Rid, Serve(r)
  PROVE  TypeInv'
  BY GetTicketType, PutExpiredType, PutTicketType, RunActionType, FailActionType,
     PutRevertType, PutGrantType, PutDeliveryType, GetGrantType, DelGrantType,
     GetDeliveryType, DelDeliveryType, PublishType, SnapshotType, PutSnapshotType,
     TryGetDeliveryType, CleanGetType, CleanDelType DEF Serve

\* RedisError keeps the types.
LEMMA RedisErrorType ==
  ASSUME TypeInv, NEW r \in Rid, RedisError(r)
  PROVE  TypeInv'
  <1>1. LocalsOK'
    BY FinishStep DEF RedisError, TypeInv
  <1>2. QED BY <1>1, LocalStep DEF RedisError, TypeInv, SeenOK

\* Tick keeps the types.
LEMMA TickType ==
  ASSUME TypeInv, Tick
  PROVE  TypeInv'
  <1>1. TicketsOK'
    <2>1. tickets \in [Tid -> Key(Ticket)] /\ tickets' = Unexpired(tickets, now + 1)
      BY DEF Tick, TypeInv, RedisOK, TicketsOK
    <2>2. /\ tickets' \in [Tid -> Key(Ticket)]
          /\ \A t \in Tid : tickets'[t] # Nil => tickets'[t] = tickets[t]
      BY <2>1, UnexpiredType
    <2>3. QED BY <2>2 DEF TypeInv, RedisOK, TicketsOK, TicketOK
  <1>2. grants' \in [Rid -> Key(Grant)]
    <2>1. grants \in [Rid -> Key(Grant)] /\ grants' = Unexpired(grants, now + 1)
      BY DEF Tick, TypeInv, RedisOK
    <2>2. QED BY <2>1, UnexpiredType
  <1>3. deliveries' \in [Tid -> Key(Delivery)]
    <2>1. deliveries \in [Tid -> Key(Delivery)] /\ deliveries' = Unexpired(deliveries, now + 1)
      BY DEF Tick, TypeInv, RedisOK
    <2>2. QED BY <2>1, UnexpiredType
  <1>4. LocalsOK' /\ BoundsOK' /\ SeenOK' /\ HistoryOK'
    BY DEF Tick, TypeInv, LocalsOK, BoundsOK, SeenOK, HistoryOK, locals, history, FrameOK,
       OpFits, LocalsFit, TicketOK
  <1>5. QED BY <1>1, <1>2, <1>3, <1>4 DEF TypeInv, RedisOK

\* A dead request's frame is gone, the others stay where they are.
LEMMA RestartType ==
  ASSUME TypeInv, Restart
  PROVE  TypeInv'
  <1>1. LocalsOK'
    <2>1. PICK dead \in SUBSET InFlight :
            /\ pc' = [q \in Rid |-> IF q \in dead THEN "done" ELSE pc[q]]
            /\ call' = [q \in Rid |-> IF q \in dead THEN Nil ELSE call[q]]
            /\ copy' = [q \in Rid |-> IF q \in dead THEN Nil ELSE copy[q]]
      BY DEF Restart
    <2>2. /\ pc' \in [Rid -> Pc]
          /\ call' \in [Rid -> Call \cup {Nil}]
          /\ copy' \in [Rid -> Ticket \cup {Nil}]
      BY <2>1 DEF TypeInv, LocalsOK, Pc
    <2>3. ASSUME NEW q \in Rid PROVE FrameOK(pc'[q], call'[q], copy'[q])
      <3>1. CASE q \in dead
        BY <2>1, <3>1 DEF FrameOK
      <3>2. CASE q \notin dead
        BY <2>1, <3>2 DEF TypeInv, LocalsOK
      <3>3. QED BY <3>1, <3>2
    <2>4. QED BY <2>2, <2>3 DEF LocalsOK
  <1>2. RedisOK'
    BY DEF Restart, RedisOK, TicketsOK, Key
  <1>3. BoundsOK' /\ SeenOK' /\ HistoryOK'
    BY DEF Restart, TypeInv, BoundsOK, SeenOK, HistoryOK, history
  <1>4. QED BY <1>1, <1>2, <1>3 DEF TypeInv

\* The types hold of the empty store with no request issued.
LEMMA InitType == Init => TypeInv
  <1> SUFFICES ASSUME Init PROVE TypeInv
    OBVIOUS
  <1>1. LocalsOK
    BY DEF Init, LocalsOK, FrameOK, Pc
  <1>2. RedisOK
    BY DEF Init, RedisOK, TicketsOK, Key
  <1>3. BoundsOK /\ SeenOK /\ HistoryOK
    BY ConstantsAssumption DEF Init, BoundsOK, SeenOK, HistoryOK
  <1>4. QED BY <1>1, <1>2, <1>3 DEF TypeInv

\* A stuttering step keeps the types.
LEMMA StutterType ==
  ASSUME TypeInv, UNCHANGED vars
  PROVE  TypeInv'
  BY DEF vars, redis, locals, history, bounds, TypeInv, LocalsOK, FrameOK, OpFits, LocalsFit,
     TicketOK, RedisOK, TicketsOK, BoundsOK, SeenOK, HistoryOK

\* Every step keeps the types.
LEMMA NextType == TypeInv /\ [Next]_vars => TypeInv'
  BY ArriveType, ServeType, RedisErrorType, TickType, RestartType, StutterType DEF Next

\* The types hold in every reachable state of the QR services.
LEMMA TypeInvariant == Spec => []TypeInv
  BY InitType, NextType, PTL DEF Spec

\* In every reachable state the Redis keys, the frames of the requests that
\* are being served and the histories have their types: no handler of
\* qr.service.ts stores or answers with an object that lacks a field.
THEOREM QrTypeCorrect == Spec => []TypeOK
  BY TypeInvariant, TypeInvTypeOK, PTL

-----------------------------------------------------------------------------
(***************************************************************************)
(* Why an exchange is backed: every place that a token, a code or an       *)
(* approver passes through carries the evidence along.  V and E stand for  *)
(* verified and executed, before or after a step.                          *)
(***************************************************************************)
Approval(g, t, u) == [by |-> g, tid |-> t, user |-> u]

Ran(E, g, t) == \E e \in E : e.by = g /\ e.tid = t

\* A ticket object of ticket t: its approver passed the PKCE check, and USED
\* means that an action ran.
TicketBacked(V, E, t, tk) ==
    /\ tk.approvedBy # Nil => <<t, tk.approvedBy>> \in V
    /\ tk.status = "USED" => \E e \in E : e.tid = t

\* The delivery code was accepted on its way to the label.
Accepted(l, c) ==
    /\ l \in {"delDelivery", "getTicket", "putExpired", "putTicket", "publish"}
    /\ c.op = "exchangeDelivery"
    /\ l = "delDelivery" => c.valid

FrameBacked(V, E, r, l, c, tk) ==
    /\ l \in {"runAction", "putRevert", "putGrant", "putDelivery"} =>
          <<c.tid, c.user>> \in V
    /\ l = "putTicket" /\ c.op = "approve" => <<c.tid, c.user>> \in V
    /\ l \in {"putGrant", "putDelivery"} => Approval(r, c.tid, c.user) \in E
    /\ l \notin {"idle", "done", "getGrant"} /\ c.op = "exchangeGrant" =>
          Approval(c.code, c.tid, c.user) \in E
    /\ Accepted(l, c) => Ran(E, c.code, c.tid)
    /\ l \in {"putTicket", "publish"} /\ c.op = "exchangeDelivery" =>
          <<c.tid, c.user>> \in V
    /\ l \in {"putExpired", "putTicket", "runAction", "putRevert", "putGrant",
              "putDelivery", "putSnapshot"} => TicketBacked(V, E, c.tid, tk)

FramesBacked ==
    \A r \in Rid : FrameBacked(verified, executed, r, pc[r], call[r], copy[r])

RedisBacked ==
    /\ \A t \in Tid : tickets[t] # Nil =>
          TicketBacked(verified, executed, t, tickets[t].val)
    /\ \A g \in Rid : grants[g] # Nil =>
          Approval(g, grants[g].val.tid, grants[g].val.user) \in executed
    /\ \A t \in Tid : deliveries[t] # Nil =>
          Ran(executed, deliveries[t].val.code, t)

Backing == FramesBacked /\ RedisBacked /\ RedemptionBacked

\* The evidence is never taken back.
Grows == verified \subseteq verified' /\ executed \subseteq executed'

Kept(D, keys, new) == \A k \in D : new[k] # Nil => new[k] = keys[k]

-----------------------------------------------------------------------------
(* Backing: what a step that leaves the evidence alone keeps.              *)

\* A request moves on with evidence for its frame.
LEMMA BackedFrameStep ==
  ASSUME TypeInv, FramesBacked, Grows, NEW r \in Rid, NEW l, NEW c, NEW tk,
         FrameBacked(verified', executed', r, l, c, tk),
         pc' = [pc EXCEPT ![r] = l],
         call' = [call EXCEPT ![r] = c],
         copy' = [copy EXCEPT ![r] = tk]
  PROVE  FramesBacked'
  <1>1. ASSUME NEW q \in Rid
        PROVE  FrameBacked(verified', executed', q, pc'[q], call'[q], copy'[q])
    <2>1. CASE q = r
      BY <2>1 DEF TypeInv, LocalsOK
    <2>2. CASE q # r
      <3>1. pc'[q] = pc[q] /\ call'[q] = call[q] /\ copy'[q] = copy[q]
        BY <2>2 DEF TypeInv, LocalsOK
      <3>2. FrameBacked(verified, executed, q, pc[q], call[q], copy[q])
        BY DEF FramesBacked
      <3>3. QED
        BY <3>1, <3>2 DEF Grows, FrameBacked, TicketBacked, Ran
    <2>3. QED BY <2>1, <2>2
  <1>2. QED BY <1>1 DEF FramesBacked

\* A request keeps its frame.
LEMMA BackedGoto ==
  ASSUME TypeInv, FramesBacked, Grows, NEW r \in Rid, NEW l, Goto(r, l),
         FrameBacked(verified', executed', r, l, call[r], copy[r]),
         UNCHANGED <<call, copy>>
  PROVE  FramesBacked'
  <1> DEFINE c == call[r]
             k == copy[r]
  <1>1. call' = [call EXCEPT ![r] = c] /\ copy' = [copy EXCEPT ![r] = k]
    BY DEF TypeInv, LocalsOK
  <1>2. FrameBacked(verified', executed', r, l, c, k) /\ pc' = [pc EXCEPT ![r] = l]
    BY DEF Goto
  <1> HIDE DEF c, k
  <1>3. QED BY <1>1, <1>2, BackedFrameStep

\* A request goes on with a changed ticket object.
LEMMA BackedContinue ==
  ASSUME TypeInv, FramesBacked, Grows, NEW r \in Rid, NEW l, NEW tk, Continue(r, tk, l),
         FrameBacked(verified', executed', r, l, call[r], tk)
  PROVE  FramesBacked'
  <1>1. call' = [call EXCEPT ![r] = call[r]]
    BY DEF TypeInv, LocalsOK, Continue
  <1>2. QED BY <1>1, BackedFrameStep DEF Continue, Goto

\* A request that answers needs no evidence.
LEMMA BackedFinish ==
  ASSUME TypeInv, FramesBacked, Grows, NEW r \in Rid, Finish(r)
  PROVE  FramesBacked'
  <1>1. FrameBacked(verified', executed', r, "done", Nil, Nil)
    BY DEF FrameBacked, Accepted
  <1>2. QED BY <1>1, BackedFrameStep DEF Finish, Goto

\* No key is written: those that are left are as they were.
LEMMA BackedKept ==
  ASSUME RedisBacked, Grows, Kept(Tid, tickets, tickets'), Kept(Rid, grants, grants'),
         Kept(Tid, deliveries, deliveries')
  PROVE  RedisBacked'
  BY DEF RedisBacked, Grows, Kept, TicketBacked, Ran

\* The stored object takes over the evidence of the frame.
LEMMA BackedWrite ==
  ASSUME TypeInv, Backing, Grows, NEW r \in Rid, WriteTicket(r),
         pc[r] \in {"putExpired", "putTicket", "runAction", "putRevert", "putGrant",
                   "putDelivery", "putSnapshot"},
         UNCHANGED <<grants, deliveries>>
  PROVE  RedisBacked'
  <1>1. TicketBacked(verified', executed', call[r].tid, copy[r])
    BY DEF Backing, FramesBacked, FrameBacked, TicketBacked, Grows
  <1>2. ASSUME NEW t \in Tid, tickets'[t] # Nil
        PROVE  TicketBacked(verified', executed', t, tickets'[t].val)
    <2>1. CASE t = call[r].tid
      BY <1>1, <2>1 DEF WriteTicket, SetEx, TypeInv, RedisOK, TicketsOK
    <2>2. CASE t # call[r].tid
      <3>1. tickets'[t] = tickets[t]
        BY <2>2 DEF WriteTicket, TypeInv, RedisOK, TicketsOK
      <3>2. QED BY <1>2, <3>1 DEF Backing, RedisBacked, TicketBacked, Grows
    <2>3. QED BY <2>1, <2>2
  <1>3. QED BY <1>2 DEF Backing, RedisBacked, Grows, Ran

\* More histories keep what was backed.
LEMMA BackedAnswers ==
  ASSUME RedemptionBacked, Grows, UNCHANGED redeemed
  PROVE  RedemptionBacked'
  BY DEF RedemptionBacked, RanFor, Grows

\* A step that leaves Redis and the answers alone.
LEMMA BackedLocal ==
  ASSUME Backing, FramesBacked', Grows, UNCHANGED <<redis, redeemed>>
  PROVE  Backing'
  <1>1. RedisBacked'
    BY BackedKept DEF Backing, Kept, redis
  <1>2. QED BY <1>1, BackedAnswers DEF Backing

-----------------------------------------------------------------------------
(* Backing: one lemma per step.                                            *)

\* The code between getTicket and the SETEX keeps the evidence.
LEMMA ResumeBacked ==
  ASSUME TypeInv, FramesBacked, NEW r \in Rid, pc[r] \in {"getTicket", "putExpired"},
         NEW tk \in Ticket, TicketOK(tk), TicketBacked(verified, executed, call[r].tid, tk),
         Resume(r, tk), UNCHANGED executed
  PROVE  FramesBacked' /\ Grows
  <1> DEFINE c == call[r]
  <1>1. FrameBacked(verified, executed, r, pc[r], c, copy[r]) /\ c \in Call
    BY ServedCall DEF FramesBacked
  <1>2. CASE c.op = "scan" /\ Continue(r, Bump(tk, "SCANNED"), "putTicket")
             /\ UNCHANGED verified
    <2>1. FrameBacked(verified', executed', r, "putTicket", c, Bump(tk, "SCANNED"))
      BY <1>2, BumpType DEF FrameBacked, TicketBacked, Accepted, Status
    <2>2. QED BY <1>2, <2>1, BackedContinue DEF Grows
  <1>3. CASE c.op = "approve"
             /\ Continue(r, [Bump(tk, "APPROVED") EXCEPT !.approvedBy = c.user], "putTicket")
             /\ verified' = verified \cup {<<c.tid, c.user>>}
    <2> DEFINE new == [Bump(tk, "APPROVED") EXCEPT !.approvedBy = c.user]
    <2>1. new.approvedBy = c.user /\ new.status = "APPROVED"
      BY BumpType DEF Status, Ticket
    <2> HIDE DEF new
    <2>2. FrameBacked(verified', executed', r, "putTicket", c, new)
      BY <1>3, <2>1 DEF FrameBacked, TicketBacked, Accepted
    <2>3. Continue(r, new, "putTicket")
      BY <1>3 DEF new
    <2>4. Grows
      BY <1>3 DEF Grows
    <2>5. QED BY <2>2, <2>3, <2>4, BackedContinue
  <1>4. CASE c.op = "reject" /\ Continue(r, Bump(tk, "REJECTED"), "putTicket")
             /\ UNCHANGED verified
    <2>1. FrameBacked(verified', executed', r, "putTicket", c, Bump(tk, "REJECTED"))
      BY <1>4, BumpType DEF FrameBacked, TicketBacked, Accepted, Status
    <2>2. QED BY <1>4, <2>1, BackedContinue DEF Grows
  <1>5. CASE c.op = "exchangeGrant" /\ Continue(r, Bump(tk, "USED"), "putTicket")
             /\ UNCHANGED verified
    <2>1. Approval(c.code, c.tid, c.user) \in executed
      BY <1>1, <1>5 DEF FrameBacked
    <2>2. \E e \in executed : e.tid = c.tid
      BY <2>1 DEF Approval
    <2>3. FrameBacked(verified', executed', r, "putTicket", c, Bump(tk, "USED"))
      BY <1>5, <2>1, <2>2, BumpType DEF FrameBacked, TicketBacked, Accepted, Status
    <2>4. QED BY <1>5, <2>3, BackedContinue DEF Grows
  <1>6. CASE /\ c.op = "exchangeDelivery" /\ DeliveryChecks(tk)
             /\ copy' = [copy EXCEPT ![r] = Bump(tk, "USED")]
             /\ call' = [call EXCEPT ![r].user = tk.approvedBy]
             /\ Goto(r, "putTicket")
             /\ UNCHANGED verified
    <2> DEFINE d == [c EXCEPT !.user = tk.approvedBy]
               k == Bump(tk, "USED")
    <2>1. /\ d.op = c.op /\ d.tid = c.tid /\ d.code = c.code
          /\ d.user = tk.approvedBy
      BY <1>1 DEF Call
    <2>2. tk.approvedBy # Nil
      BY <1>6, NilAssumption DEF DeliveryChecks, TicketOK
    <2>3. Ran(executed, c.code, c.tid)
      BY <1>1, <1>6 DEF FrameBacked, Accepted
    <2>4. k.approvedBy = tk.approvedBy
      BY BumpType DEF Status
    <2>5. /\ pc' = [pc EXCEPT ![r] = "putTicket"]
          /\ call' = [call EXCEPT ![r] = d] /\ copy' = [copy EXCEPT ![r] = k]
      BY <1>6 DEF Goto
    <2>6. Grows
      BY <1>6 DEF Grows
    <2> HIDE DEF d, k
    <2>7. FrameBacked(verified', executed', r, "putTicket", d, k)
      BY <1>6, <2>1, <2>2, <2>3, <2>4 DEF FrameBacked, TicketBacked, Accepted, Ran
    <2>8. QED BY <2>5, <2>6, <2>7, BackedFrameStep
  <1>7. CASE Finish(r) /\ UNCHANGED verified
    BY <1>7, BackedFinish DEF Grows
  <1>8. QED BY <1>2, <1>3, <1>4, <1>5, <1>6, <1>7 DEF Resume

\* GetTicket keeps the evidence.
LEMMA GetTicketBacked ==
  ASSUME TypeInv, Backing, NEW r \in Rid, GetTicket(r)
  PROVE  Backing'
  <1> DEFINE t   == call[r].tid
             key == tickets[t]
  <1>1. /\ pc[r] = "getTicket" /\ t \in Tid
        /\ FrameBacked(verified, executed, r, "getTicket", call[r], copy[r])
    BY ServedCall DEF GetTicket, OpFits, LocalsFit, Changing, Exchange, Backing, FramesBacked
  <1>2. FramesBacked' /\ Grows
    <2>1. CASE Finish(r) /\ UNCHANGED verified
      BY <2>1, BackedFinish DEF Backing, GetTicket, Grows
    <2>2. CASE /\ Past(key) /\ UNCHANGED verified
               /\ Continue(r, [key.val EXCEPT !.status = "EXPIRED"], "putExpired")
      <3> DEFINE new == [key.val EXCEPT !.status = "EXPIRED"]
      <3>1. new.approvedBy = key.val.approvedBy /\ new.status = "EXPIRED"
        BY <1>1, <2>2, StoredTicket DEF Past, Ticket
      <3>2. TicketBacked(verified, executed, t, key.val)
        BY <1>1, <2>2 DEF Past, Backing, RedisBacked
      <3>3. Continue(r, new, "putExpired")
        BY <2>2
      <3>4. Grows /\ UNCHANGED <<verified, executed>>
        BY <2>2 DEF GetTicket, Grows
      <3> HIDE DEF new
      <3>5. FrameBacked(verified', executed', r, "putExpired", call[r], new)
        BY <1>1, <3>1, <3>2, <3>4 DEF FrameBacked, TicketBacked, Accepted
      <3>6. QED BY <3>3, <3>4, <3>5, BackedContinue DEF Backing
    <2>3. CASE Live(key) /\ Resume(r, key.val)
      <3>1. key.val \in Ticket /\ TicketOK(key.val)
        BY <1>1, <2>3, StoredTicket DEF Live
      <3>2. TicketBacked(verified, executed, t, key.val)
        BY <1>1, <2>3 DEF Live, Backing, RedisBacked
      <3>3. QED BY <1>1, <2>3, <3>1, <3>2, ResumeBacked DEF Backing, GetTicket
    <2>4. QED BY <2>1, <2>2, <2>3 DEF GetTicket
  <1>3. QED BY <1>2, BackedLocal DEF GetTicket

\* PutExpired keeps the evidence.
LEMMA PutExpiredBacked ==
  ASSUME TypeInv, Backing, NEW r \in Rid, PutExpired(r)
  PROVE  Backing'
  <1>1. pc[r] = "putExpired" /\ WriteTicket(r) /\ Resume(r, copy[r])
    BY DEF PutExpired
  <1>2. TicketBacked(verified, executed, call[r].tid, copy[r])
    BY <1>1 DEF Backing, FramesBacked, FrameBacked
  <1>3. FramesBacked' /\ Grows
    BY <1>1, <1>2, HeldTicket, ResumeBacked DEF PutExpired, Backing
  <1>4. RedisBacked'
    BY <1>1, <1>3, BackedWrite DEF PutExpired
  <1>5. QED BY <1>3, <1>4, BackedAnswers DEF PutExpired, Backing

\* PutTicket keeps the evidence.
LEMMA PutTicketBacked ==
  ASSUME TypeInv, Backing, NEW r \in Rid, PutTicket(r)
  PROVE  Backing'
  <1>1. pc[r] = "putTicket" /\ WriteTicket(r) /\ Grows /\ UNCHANGED <<verified, executed>>
    BY DEF PutTicket, Grows, history
  <1>2. FramesBacked'
    <2>1. CASE Finish(r)
      BY <1>1, <2>1, BackedFinish DEF Backing
    <2>2. CASE /\ call[r].op # "create" /\ Goto(r, AfterPut(call[r].op))
               /\ UNCHANGED <<call, copy>>
      <3>1. OpFits("putTicket", call[r])
        BY <1>1, HeldTicket
      <3>2. FrameBacked(verified, executed, r, "putTicket", call[r], copy[r])
        BY <1>1 DEF Backing, FramesBacked
      <3>3. CASE call[r].op = "approve"
        <4>1. AfterPut(call[r].op) = "runAction"
          BY <3>3 DEF AfterPut
        <4>2. FrameBacked(verified', executed', r, "runAction", call[r], copy[r])
          BY <1>1, <3>2, <3>3 DEF FrameBacked, Accepted
        <4>3. QED BY <1>1, <2>2, <4>1, <4>2, BackedGoto DEF Backing
      <3>4. CASE call[r].op = "exchangeGrant"
        <4>1. AfterPut(call[r].op) = "delGrant"
          BY <3>4 DEF AfterPut
        <4>2. FrameBacked(verified', executed', r, "delGrant", call[r], copy[r])
          BY <1>1, <3>2, <3>4 DEF FrameBacked, Accepted
        <4>3. QED BY <1>1, <2>2, <4>1, <4>2, BackedGoto DEF Backing
      <3>5. CASE call[r].op \notin {"approve", "exchangeGrant"}
        <4>1. AfterPut(call[r].op) = "publish"
          BY <3>5 DEF AfterPut
        <4>2. FrameBacked(verified', executed', r, "publish", call[r], copy[r])
          BY <1>1, <3>2, <3>5 DEF FrameBacked, Accepted
        <4>3. QED BY <1>1, <2>2, <4>1, <4>2, BackedGoto DEF Backing
      <3>6. QED BY <3>3, <3>4, <3>5
    <2>3. QED BY <2>1, <2>2 DEF PutTicket
  <1>3. RedisBacked'
    BY <1>1, BackedWrite DEF PutTicket
  <1>4. QED BY <1>1, <1>2, <1>3, BackedAnswers DEF PutTicket, Backing, history

\* RunAction keeps the evidence.
LEMMA RunActionBacked ==
  ASSUME TypeInv, Backing, NEW r \in Rid, RunAction(r)
  PROVE  Backing'
  <1> DEFINE c == call[r]
             d == [c EXCEPT !.expiresAt = now + GrantTtl]
             k == copy[r]
  <1>1. /\ pc[r] = "runAction" /\ c \in Call /\ c.op = "approve"
        /\ FrameBacked(verified, executed, r, "runAction", c, k)
    BY HeldTicket DEF RunAction, OpFits, Backing, FramesBacked
  <1>2. d.op = c.op /\ d.tid = c.tid /\ d.user = c.user /\ d.code = c.code
    BY <1>1 DEF Call
  <1>3. Grows /\ UNCHANGED verified /\ Approval(r, c.tid, c.user) \in executed'
    BY DEF RunAction, Grows, Approval
  <1>4. /\ pc' = [pc EXCEPT ![r] = "putGrant"]
        /\ call' = [call EXCEPT ![r] = d] /\ copy' = [copy EXCEPT ![r] = k]
    BY DEF RunAction, Goto, TypeInv, LocalsOK
  <1>5. FramesBacked'
    <2> HIDE DEF d, k
    <2>1. FrameBacked(verified', executed', r, "putGrant", d, k)
      BY <1>1, <1>2, <1>3 DEF FrameBacked, TicketBacked, Accepted, Grows
    <2>2. QED BY <1>3, <1>4, <2>1, BackedFrameStep DEF Backing
  <1>6. QED BY <1>3, <1>5, BackedLocal DEF RunAction

\* FailAction keeps the evidence.
LEMMA FailActionBacked ==
  ASSUME TypeInv, Backing, NEW r \in Rid, FailAction(r)
  PROVE  Backing'
  <1> DEFINE new == [copy[r] EXCEPT !.status = "PENDING"]
  <1>1. /\ pc[r] = "runAction" /\ call[r].op = "approve"
        /\ FrameBacked(verified, executed, r, "runAction", call[r], copy[r])
    BY HeldTicket DEF FailAction, OpFits, Backing, FramesBacked
  <1>2. Grows /\ UNCHANGED <<verified, executed>> /\ Continue(r, new, "putRevert")
    BY DEF FailAction, Grows, history
  <1>3. new.approvedBy = copy[r].approvedBy /\ new.status = "PENDING"
    BY <1>1, HeldTicket DEF Ticket
  <1> HIDE DEF new
  <1>4. FrameBacked(verified', executed', r, "putRevert", call[r], new)
    BY <1>1, <1>2, <1>3 DEF FrameBacked, TicketBacked, Accepted
  <1>5. FramesBacked'
    BY <1>2, <1>4, BackedContinue DEF Backing
  <1>6. QED BY <1>2, <1>5, BackedLocal DEF FailAction, history

\* PutRevert keeps the evidence.
LEMMA PutRevertBacked ==
  ASSUME TypeInv, Backing, NEW r \in Rid, PutRevert(r)
  PROVE  Backing'
  <1>1. pc[r] = "putRevert" /\ WriteTicket(r) /\ Finish(r) /\ Grows
    BY DEF PutRevert, Grows, history
  <1>2. FramesBacked' /\ RedisBacked'
    BY <1>1, BackedFinish, BackedWrite DEF PutRevert, Backing
  <1>3. QED BY <1>1, <1>2, BackedAnswers DEF PutRevert, Backing, history

\* PutGrant keeps the evidence.
LEMMA PutGrantBacked ==
  ASSUME TypeInv, Backing, NEW r \in Rid, PutGrant(r)
  PROVE  Backing'
  <1> DEFINE c == call[r]
             d == [c EXCEPT !.expiresAt = now + GrantTtl]
             k == copy[r]
  <1>1. /\ pc[r] = "putGrant" /\ c \in Call /\ c.op = "approve"
        /\ FrameBacked(verified, executed, r, "putGrant", c, k)
    BY HeldTicket DEF PutGrant, OpFits, Backing, FramesBacked
  <1>2. Grows /\ UNCHANGED <<verified, executed, redeemed, tickets, deliveries>>
    BY DEF PutGrant, Grows, history
  <1>3. FramesBacked'
    <2>1. d.op = c.op /\ d.tid = c.tid /\ d.user = c.user /\ d.code = c.code
      BY <1>1 DEF Call
    <2>2. copy' = [copy EXCEPT ![r] = k]
      BY DEF PutGrant, TypeInv, LocalsOK
    <2>3. \/ Goto(r, "putDelivery") /\ call' = [call EXCEPT ![r] = d]
          \/ Goto(r, "publish") /\ UNCHANGED <<call, copy>>
      BY DEF PutGrant
    <2> HIDE DEF d, k
    <2>4. FrameBacked(verified', executed', r, "putDelivery", d, k)
      BY <1>1, <1>2, <2>1 DEF FrameBacked, Accepted
    <2>5. FrameBacked(verified', executed', r, "publish", c, k)
      BY <1>1, <1>2 DEF FrameBacked, Accepted
    <2>6. CASE Goto(r, "putDelivery") /\ call' = [call EXCEPT ![r] = d]
      BY <1>2, <2>2, <2>4, <2>6, BackedFrameStep DEF Goto, Backing
    <2>7. CASE Goto(r, "publish") /\ UNCHANGED <<call, copy>>
      BY <1>2, <2>5, <2>7, BackedGoto DEF Backing, k
    <2>8. QED BY <2>3, <2>6, <2>7
  <1>4. RedisBacked'
    <2>1. ASSUME NEW g \in Rid, grants'[g] # Nil
          PROVE  Approval(g, grants'[g].val.tid, grants'[g].val.user) \in executed'
      <3>1. CASE g = r
        <4>1. grants'[g].val.tid = c.tid /\ grants'[g].val.user = c.user
          BY <3>1 DEF PutGrant, SetEx, TypeInv, RedisOK
        <4>2. QED BY <1>1, <1>2, <3>1, <4>1 DEF FrameBacked
      <3>2. CASE g # r
        BY <1>2, <2>1, <3>2 DEF PutGrant, TypeInv, RedisOK, Backing, RedisBacked
      <3>3. QED BY <3>1, <3>2
    <2>2. QED BY <1>2, <2>1 DEF Backing, RedisBacked
  <1>5. QED BY <1>2, <1>3, <1>4, BackedAnswers DEF Backing

\* PutDelivery keeps the evidence.
LEMMA PutDeliveryBacked ==
  ASSUME TypeInv, Backing, NEW r \in Rid, PutDelivery(r)
  PROVE  Backing'
  <1> DEFINE c == call[r]
  <1>1. /\ pc[r] = "putDelivery" /\ c \in Call /\ c.op = "approve"
        /\ FrameBacked(verified, executed, r, "putDelivery", c, copy[r])
    BY HeldTicket DEF PutDelivery, OpFits, Backing, FramesBacked
  <1>2. Grows /\ UNCHANGED <<verified, executed, redeemed, tickets, grants>>
    BY DEF PutDelivery, Grows, history
  <1>3. FramesBacked'
    <2>1. FrameBacked(verified', executed', r, "publish", c, copy[r])
      BY <1>1, <1>2 DEF FrameBacked, Accepted
    <2>2. Goto(r, "publish") /\ UNCHANGED <<call, copy>>
      BY DEF PutDelivery
    <2>3. QED BY <1>2, <2>1, <2>2, BackedGoto DEF Backing
  <1>4. RedisBacked'
    <2>1. ASSUME NEW t \in Tid, deliveries'[t] # Nil
          PROVE  Ran(executed', deliveries'[t].val.code, t)
      <3>1. CASE t = c.tid
        <4>1. deliveries'[t].val.code = r
          BY <3>1 DEF PutDelivery, SetEx, TypeInv, RedisOK
        <4>2. Approval(r, t, c.user) \in executed
          BY <1>1, <3>1 DEF FrameBacked
        <4>3. QED BY <1>2, <4>1, <4>2 DEF Ran, Approval
      <3>2. CASE t # c.tid
        BY <1>2, <2>1, <3>2 DEF PutDelivery, TypeInv, RedisOK, Backing, RedisBacked
      <3>3. QED BY <3>1, <3>2
    <2>2. QED BY <1>2, <2>1 DEF Backing, RedisBacked
  <1>5. QED BY <1>2, <1>3, <1>4, BackedAnswers DEF Backing

\* GetGrant keeps the evidence.
LEMMA GetGrantBacked ==
  ASSUME TypeInv, Backing, NEW r \in Rid, GetGrant(r)
  PROVE  Backing'
  <1> DEFINE c   == call[r]
             key == grants[c.code]
             d   == OfGrant(c, key.val)
             k   == copy[r]
  <1>1. pc[r] = "getGrant" /\ c \in Call /\ c.code \in Rid
    BY ServedCall DEF GetGrant, OpFits, LocalsFit, Exchange
  <1>2. Grows /\ UNCHANGED <<redis, verified, executed, redeemed>>
    BY DEF GetGrant, Grows, history
  <1>3. FramesBacked'
    <2>1. CASE Finish(r)
      BY <1>2, <2>1, BackedFinish DEF Backing
    <2>2. CASE Live(key) /\ call' = [call EXCEPT ![r] = OfGrant(@, key.val)]
               /\ Goto(r, "getTicket") /\ UNCHANGED copy
      <3>1. key.val \in Grant
        BY <1>1, <2>2, StoredGrant DEF Live
      <3>2. /\ d.op = "exchangeGrant" /\ d.code = c.code
            /\ d.tid = key.val.tid /\ d.user = key.val.user
        BY <1>1, <3>1, OfGrantType
      <3>3. Approval(d.code, d.tid, d.user) \in executed
        BY <1>1, <2>2, <3>2 DEF Live, Backing, RedisBacked
      <3>4. /\ call' = [call EXCEPT ![r] = d] /\ pc' = [pc EXCEPT ![r] = "getTicket"]
            /\ copy' = [copy EXCEPT ![r] = k]
        BY <2>2 DEF TypeInv, LocalsOK, Goto
      <3> HIDE DEF d, k
      <3>5. FrameBacked(verified', executed', r, "getTicket", d, k)
        BY <1>2, <3>2, <3>3 DEF FrameBacked, Accepted
      <3>6. QED BY <1>2, <3>4, <3>5, BackedFrameStep DEF Backing
    <2>3. QED BY <2>1, <2>2 DEF GetGrant
  <1>4. QED BY <1>2, <1>3, BackedLocal

\* DelGrant keeps the evidence.
LEMMA DelGrantBacked ==
  ASSUME TypeInv, Backing, NEW r \in Rid, DelGrant(r)
  PROVE  Backing'
  <1>1. /\ pc[r] = "delGrant" /\ call[r].op = "exchangeGrant"
        /\ FrameBacked(verified, executed, r, "delGrant", call[r], copy[r])
    BY ServedCall DEF DelGrant, OpFits, Backing, FramesBacked
  <1>2. Grows /\ UNCHANGED <<verified, executed, redeemed, tickets, deliveries>>
    BY DEF DelGrant, Grows, history
  <1>3. FrameBacked(verified', executed', r, "publish", call[r], copy[r])
    BY <1>1, <1>2 DEF FrameBacked, Accepted
  <1>4. FramesBacked'
    BY <1>2, <1>3, BackedGoto DEF DelGrant, Backing
  <1>5. Kept(Rid, grants, grants')
    BY DEF Kept, DelGrant, TypeInv, RedisOK
  <1>6. RedisBacked'
    BY <1>2, <1>5, BackedKept DEF Backing, Kept
  <1>7. QED BY <1>2, <1>4, <1>6, BackedAnswers DEF Backing

\* An accepted code is the one stored for the ticket the client names.
LEMMA GetDeliveryBacked ==
  ASSUME TypeInv, Backing, NEW r \in Rid, GetDelivery(r)
  PROVE  Backing'
  <1> DEFINE c   == call[r]
             key == deliveries[c.tid]
             b   == Matches(c, key)
             d   == [c EXCEPT !.valid = b]
             k   == copy[r]
  <1>1. /\ pc[r] = "getDelivery" /\ c \in Call /\ c.op = "exchangeDelivery"
        /\ c.tid \in Tid
    BY ServedCall DEF GetDelivery, OpFits, LocalsFit
  <1>2. Grows /\ UNCHANGED <<redis, verified, executed, redeemed>>
    BY DEF GetDelivery, Grows, history
  <1>3. FramesBacked'
    <2>1. CASE Finish(r)
      BY <1>2, <2>1, BackedFinish DEF Backing
    <2>2. CASE call' = [call EXCEPT ![r].valid = b]
               /\ Goto(r, "delDelivery") /\ UNCHANGED copy
      <3>1. b => Ran(executed, c.code, c.tid)
        BY <1>1 DEF Matches, Live, Backing, RedisBacked
      <3>2. /\ d.op = c.op /\ d.tid = c.tid /\ d.code = c.code
            /\ d.valid = b
        BY <1>1 DEF Call
      <3>3. /\ call' = [call EXCEPT ![r] = d] /\ pc' = [pc EXCEPT ![r] = "delDelivery"]
            /\ copy' = [copy EXCEPT ![r] = k]
        BY <2>2 DEF TypeInv, LocalsOK, Goto
      <3> HIDE DEF b, d, k
      <3>4. FrameBacked(verified', executed', r, "delDelivery", d, k)
        BY <1>1, <1>2, <3>1, <3>2 DEF FrameBacked, Accepted
      <3>5. QED BY <1>2, <3>3, <3>4, BackedFrameStep DEF Backing
    <2>3. QED BY <2>1, <2>2 DEF GetDelivery
  <1>4. QED BY <1>2, <1>3, BackedLocal

\* DelDelivery keeps the evidence.
LEMMA DelDeliveryBacked ==
  ASSUME TypeInv, Backing, NEW r \in Rid, DelDelivery(r)
  PROVE  Backing'
  <1>1. /\ pc[r] = "delDelivery" /\ OpFits("delDelivery", call[r])
        /\ FrameBacked(verified, executed, r, "delDelivery", call[r], copy[r])
    BY ServedCall DEF DelDelivery, Backing, FramesBacked
  <1>2. Grows /\ UNCHANGED <<verified, executed, redeemed, tickets, grants>>
    BY DEF DelDelivery, Grows, history
  <1>3. FramesBacked'
    <2>1. CASE Finish(r)
      BY <1>2, <2>1, BackedFinish DEF Backing
    <2>2. CASE call[r].valid /\ Goto(r, "getTicket") /\ UNCHANGED <<call, copy>>
      <3>1. FrameBacked(verified', executed', r, "getTicket", call[r], copy[r])
        BY <1>1, <1>2, <2>2 DEF FrameBacked, Accepted, OpFits
      <3>2. QED BY <1>2, <2>2, <3>1, BackedGoto DEF Backing
    <2>3. QED BY <2>1, <2>2 DEF DelDelivery
  <1>4. Kept(Tid, deliveries, deliveries')
    BY DEF Kept, DelDelivery, TypeInv, RedisOK
  <1>5. RedisBacked'
    BY <1>2, <1>4, BackedKept DEF Backing, Kept
  <1>6. QED BY <1>2, <1>3, <1>5, BackedAnswers DEF Backing

\* The answer carries what its frame carried.
LEMMA PublishBacked ==
  ASSUME TypeInv, Backing, NEW r \in Rid, Publish(r)
  PROVE  Backing'
  <1> DEFINE c == call[r]
             new == [by |-> r, via |-> c.op, code |-> c.code, tid |-> c.tid,
                     user |-> c.user]
  <1>1. /\ pc[r] = "publish"
        /\ FrameBacked(verified, executed, r, "publish", c, copy[r])
    BY DEF Publish, Backing, FramesBacked
  <1>2. Grows /\ UNCHANGED <<redis, verified, executed>>
    BY DEF Publish, Grows
  <1>3. FramesBacked' /\ RedisBacked'
    BY <1>2, BackedFinish, BackedKept DEF Publish, Backing, Kept, redis
  <1>4. Answered(c) => /\ RanFor(c.code, c.tid)
                       /\ c.op = "exchangeGrant" =>
                             Approval(c.code, c.tid, c.user) \in executed
                       /\ c.op = "exchangeDelivery" => <<c.tid, c.user>> \in verified
    BY <1>1 DEF Answered, FrameBacked, Accepted, RanFor, Ran, Approval
  <1>5. \A m \in redeemed' : m \in redeemed \/ (Answered(c) /\ m = new)
    BY DEF Publish
  <1>6. UNCHANGED executed /\ UNCHANGED verified
    BY <1>2
  <1>7. ASSUME NEW m \in redeemed'
        PROVE  /\ RanFor(m.code, m.tid)
               /\ m.via = "exchangeGrant" => Approval(m.code, m.tid, m.user) \in executed
               /\ m.via = "exchangeDelivery" => <<m.tid, m.user>> \in verified
    <2>1. CASE m \in redeemed
      BY <2>1 DEF Backing, RedemptionBacked, Approval
    <2>2. CASE Answered(c) /\ m = new
      <3>1. /\ m.via = c.op /\ m.code = c.code /\ m.tid = c.tid /\ m.user = c.user
        BY <2>2
      <3>2. QED BY <1>4, <2>2, <3>1
    <2>3. QED BY <1>5, <2>1, <2>2
  <1>8. RedemptionBacked'
    BY <1>6, <1>7 DEF RedemptionBacked, RanFor, Approval
  <1>9. QED BY <1>3, <1>8 DEF Backing

\* AnswerPoll keeps the evidence.
LEMMA AnswerPollBacked ==
  ASSUME TypeInv, FramesBacked, Grows, NEW r \in Rid, NEW t, NEW tk,
         pc[r] \in {"snapshot", "putSnapshot"}, AnswerPoll(r, t, tk)
  PROVE  FramesBacked'
  <1>1. call[r].op = "poll"
    BY ServedCall DEF OpFits
  <1>2. CASE Finish(r)
    BY <1>2, BackedFinish
  <1>3. CASE Continue(r, tk, "tryGetDelivery")
    <2>1. FrameBacked(verified', executed', r, "tryGetDelivery", call[r], tk)
      BY <1>1 DEF FrameBacked, Accepted
    <2>2. QED BY <1>3, <2>1, BackedContinue
  <1>4. QED BY <1>2, <1>3 DEF AnswerPoll

\* Snapshot keeps the evidence.
LEMMA SnapshotBacked ==
  ASSUME TypeInv, Backing, NEW r \in Rid, Snapshot(r)
  PROVE  Backing'
  <1> DEFINE t   == call[r].tid
             key == tickets[t]
             new == Bump(key.val, "EXPIRED")
  <1>1. /\ pc[r] = "snapshot" /\ call[r].op = "poll" /\ t \in Tid
    BY ServedCall DEF Snapshot, OpFits, LocalsFit
  <1>2. Grows /\ UNCHANGED <<redis, verified, executed, redeemed>>
    BY DEF Snapshot, Grows, history
  <1>3. FramesBacked'
    <2>1. CASE Finish(r)
      BY <1>2, <2>1, BackedFinish DEF Backing
    <2>2. CASE Past(key) /\ Continue(r, new, "putSnapshot")
      <3>1. TicketBacked(verified, executed, t, key.val)
        BY <1>1, <2>2 DEF Past, Backing, RedisBacked
      <3>2. new.approvedBy = key.val.approvedBy /\ new.status = "EXPIRED"
        BY <1>1, <2>2, StoredTicket, BumpType DEF Past, Status
      <3> HIDE DEF new
      <3>3. FrameBacked(verified', executed', r, "putSnapshot", call[r], new)
        BY <1>1, <1>2, <3>1, <3>2 DEF FrameBacked, TicketBacked, Accepted
      <3>4. QED BY <1>2, <2>2, <3>3, BackedContinue DEF Backing
    <2>3. CASE AnswerPoll(r, t, key.val)
      BY <1>1, <1>2, <2>3, AnswerPollBacked DEF Backing
    <2>4. QED BY <2>1, <2>2, <2>3 DEF Snapshot
  <1>4. QED BY <1>2, <1>3, BackedLocal

\* PutSnapshot keeps the evidence.
LEMMA PutSnapshotBacked ==
  ASSUME TypeInv, Backing, NEW r \in Rid, PutSnapshot(r)
  PROVE  Backing'
  <1>1. /\ pc[r] = "putSnapshot" /\ WriteTicket(r) /\ AnswerPoll(r, call[r].tid, copy[r])
        /\ Grows
    BY DEF PutSnapshot, Grows, history
  <1>2. FramesBacked' /\ RedisBacked'
    BY <1>1, AnswerPollBacked, BackedWrite DEF PutSnapshot, Backing
  <1>3. QED BY <1>1, <1>2, BackedAnswers DEF PutSnapshot, Backing, history

\* TryGetDelivery keeps the evidence.
LEMMA TryGetDeliveryBacked ==
  ASSUME TypeInv, Backing, NEW r \in Rid, TryGetDelivery(r)
  PROVE  Backing'
  <1>1. pc[r] = "tryGetDelivery" /\ call[r].op = "poll"
    BY ServedCall DEF TryGetDelivery, OpFits
  <1>2. Grows /\ UNCHANGED <<redis, redeemed>>
    BY DEF TryGetDelivery, Grows, history
  <1>3. FramesBacked'
    <2>1. CASE Finish(r)
      BY <1>2, <2>1, BackedFinish DEF Backing
    <2>2. CASE Goto(r, "delDelivery") /\ UNCHANGED <<call, copy>>
      <3>1. FrameBacked(verified', executed', r, "delDelivery", call[r], copy[r])
        BY <1>1 DEF FrameBacked, Accepted
      <3>2. QED BY <1>2, <2>2, <3>1, BackedGoto DEF Backing
    <2>3. QED BY <2>1, <2>2 DEF TryGetDelivery
  <1>4. QED BY <1>2, <1>3, BackedLocal

\* CleanGet keeps the evidence.
LEMMA CleanGetBacked ==
  ASSUME TypeInv, Backing, NEW r \in Rid, CleanGet(r)
  PROVE  Backing'
  <1>1. pc[r] = "cleanGet" /\ call[r].op \in {"cleanTicket", "cleanGrant"}
    BY ServedCall DEF CleanGet, OpFits
  <1>2. Grows /\ UNCHANGED <<redis, redeemed>>
    BY DEF CleanGet, Grows, history
  <1>3. FramesBacked'
    <2>1. CASE Finish(r)
      BY <1>2, <2>1, BackedFinish DEF Backing
    <2>2. CASE Goto(r, "cleanDel") /\ UNCHANGED <<call, copy>>
      <3>1. FrameBacked(verified', executed', r, "cleanDel", call[r], copy[r])
        BY <1>1 DEF FrameBacked, Accepted
      <3>2. QED BY <1>2, <2>2, <3>1, BackedGoto DEF Backing
    <2>3. QED BY <2>1, <2>2 DEF CleanGet
  <1>4. QED BY <1>2, <1>3, BackedLocal

\* CleanDel keeps the evidence.
LEMMA CleanDelBacked ==
  ASSUME TypeInv, Backing, NEW r \in Rid, CleanDel(r)
  PROVE  Backing'
  <1>1. Finish(r) /\ Grows /\ UNCHANGED <<deliveries, redeemed>>
    BY DEF CleanDel, Grows, history
  <1>2. Kept(Tid, tickets, tickets') /\ Kept(Rid, grants, grants')
    BY DEF Kept, CleanDel, TypeInv, RedisOK, TicketsOK
  <1>3. FramesBacked' /\ RedisBacked'
    BY <1>1, <1>2, BackedFinish, BackedKept DEF Backing, Kept
  <1>4. QED BY <1>1, <1>3, BackedAnswers DEF Backing

\* Serve keeps the evidence.
LEMMA ServeBacked ==
  ASSUME TypeInv, Backing, NEW r \in Rid, Serve(r)
  PROVE  Backing'
  BY GetTicketBacked, PutExpiredBacked, PutTicketBacked, RunActionBacked,
     FailActionBacked, PutRevertBacked, PutGrantBacked, PutDeliveryBacked,
     GetGrantBacked, DelGrantBacked, GetDeliveryBacked, DelDeliveryBacked,
     PublishBacked, SnapshotBacked, PutSnapshotBacked, TryGetDeliveryBacked,
     CleanGetBacked, CleanDelBacked DEF Serve

\* Arrivals: the new frame carries nothing that needs evidence yet.
LEMMA RequestBacked ==
  ASSUME TypeInv, Backing, NEW r \in Rid, NEW c, NEW l, Request(r, c, l),
         \/ l \in {"getGrant", "getDelivery", "snapshot", "cleanGet"}
            /\ (l # "getGrant" => c.op # "exchangeGrant")
         \/ l = "getTicket" /\ c.op \notin Exchange
  PROVE  Backing'
  <1>1. Grows /\ UNCHANGED <<redis, redeemed>>
    BY DEF Request, Grows, history
  <1>2. FrameBacked(verified', executed', r, l, c, copy[r])
    BY DEF FrameBacked, Accepted, Exchange
  <1>3. /\ copy' = [copy EXCEPT ![r] = copy[r]] /\ pc' = [pc EXCEPT ![r] = l]
        /\ call' = [call EXCEPT ![r] = c]
    BY DEF Request, Enter, Goto, TypeInv, LocalsOK
  <1>4. FramesBacked'
    <2> DEFINE k == copy[r]
    <2>1. FrameBacked(verified', executed', r, l, c, k) /\ copy' = [copy EXCEPT ![r] = k]
      BY <1>2, <1>3
    <2> HIDE DEF k
    <2>2. QED BY <1>1, <1>3, <2>1, BackedFrameStep DEF Backing
  <1>5. QED BY <1>1, <1>4, BackedLocal

\* CreateTicket keeps the evidence.
LEMMA CreateTicketBacked ==
  ASSUME TypeInv, Backing, NEW r \in Rid, NEW t \in Tid, NEW s, CreateTicket(r, t, s)
  PROVE  Backing'
  <1> DEFINE c  == Frame("create", t, Nil, Nil, FALSE)
             tk == [status |-> "PENDING", webSession |-> s, approvedBy |-> Nil,
                    version |-> 1, expiresAt |-> now + TicketTtl]
  <1>1. Grows /\ UNCHANGED <<redis, redeemed>>
    BY DEF CreateTicket, Grows
  <1>2. FrameBacked(verified', executed', r, "putTicket", c, tk)
    <2>1. c.op = "create" /\ tk.approvedBy = Nil /\ tk.status = "PENDING"
      BY DEF Frame
    <2> HIDE DEF c, tk
    <2>2. QED BY <2>1 DEF FrameBacked, TicketBacked, Accepted
  <1>3. /\ copy' = [copy EXCEPT ![r] = tk] /\ pc' = [pc EXCEPT ![r] = "putTicket"]
        /\ call' = [call EXCEPT ![r] = c]
    BY DEF CreateTicket, Enter, Goto
  <1>4. FramesBacked'
    <2> HIDE DEF c, tk
    <2>1. QED BY <1>1, <1>2, <1>3, BackedFrameStep DEF Backing
  <1>5. QED BY <1>1, <1>4, BackedLocal

\* Arrive keeps the evidence.
LEMMA ArriveBacked ==
  ASSUME TypeInv, Backing, NEW r \in Rid, Arrive(r)
  PROVE  Backing'
  <1>1. ASSUME NEW t \in Tid, NEW s \in Session \cup {Nil}, CreateTicket(r, t, s)
        PROVE  Backing'
    BY <1>1, CreateTicketBacked
  <1>2. ASSUME NEW c, NEW l, Request(r, c, l), l = "getTicket", c.op \notin Exchange
        PROVE  Backing'
    BY <1>2, RequestBacked
  <1>3. ASSUME NEW c, NEW l, Request(r, c, l), l \in {"getDelivery", "snapshot", "cleanGet"},
               c.op # "exchangeGrant"
        PROVE  Backing'
    BY <1>3, RequestBacked
  <1>4. ASSUME NEW t, ViewTicket(r, t) PROVE Backing'
    <2> DEFINE c == Frame("view", t, Nil, Nil, FALSE)
    <2>1. Request(r, c, "getTicket") /\ c.op \notin Exchange
      BY <1>4 DEF ViewTicket, Frame, Exchange
    <2> HIDE DEF c
    <2>2. QED BY <1>2, <2>1
  <1>5. ASSUME NEW t, NEW u, ScanTicket(r, t, u) PROVE Backing'
    <2> DEFINE c == Frame("scan", t, u, Nil, FALSE)
    <2>1. Request(r, c, "getTicket") /\ c.op \notin Exchange
      BY <1>5 DEF ScanTicket, Frame, Exchange
    <2> HIDE DEF c
    <2>2. QED BY <1>2, <2>1
  <1>6. ASSUME NEW t, NEW u, NEW v, ApproveTicket(r, t, u, v) PROVE Backing'
    <2> DEFINE c == Frame("approve", t, u, Nil, v)
    <2>1. Request(r, c, "getTicket") /\ c.op \notin Exchange
      BY <1>6 DEF ApproveTicket, Frame, Exchange
    <2> HIDE DEF c
    <2>2. QED BY <1>2, <2>1
  <1>7. ASSUME NEW t, NEW u, RejectTicket(r, t, u) PROVE Backing'
    <2> DEFINE c == Frame("reject", t, u, Nil, FALSE)
    <2>1. Request(r, c, "getTicket") /\ c.op \notin Exchange
      BY <1>7 DEF RejectTicket, Frame, Exchange
    <2> HIDE DEF c
    <2>2. QED BY <1>2, <2>1
  <1>8. ASSUME NEW t, NEW g, ExchangeGrant(r, t, g) PROVE Backing'
    <2> DEFINE c == Frame("exchangeGrant", t, Nil, g, FALSE)
    <2>1. Request(r, c, "getGrant")
      BY <1>8 DEF ExchangeGrant
    <2> HIDE DEF c
    <2>2. QED BY <2>1, RequestBacked
  <1>9. ASSUME NEW t, NEW g, ExchangeDelivery(r, t, g) PROVE Backing'
    <2> DEFINE c == Frame("exchangeDelivery", t, Nil, g, FALSE)
    <2>1. Request(r, c, "getDelivery") /\ c.op # "exchangeGrant"
      BY <1>9 DEF ExchangeDelivery, Frame
    <2> HIDE DEF c
    <2>2. QED BY <1>3, <2>1
  <1>10. ASSUME NEW t, PollTicket(r, t) PROVE Backing'
    <2> DEFINE c == Frame("poll", t, Nil, Nil, FALSE)
    <2>1. Request(r, c, "snapshot") /\ c.op # "exchangeGrant"
      BY <1>10 DEF PollTicket, Frame
    <2> HIDE DEF c
    <2>2. QED BY <1>3, <2>1
  <1>11. ASSUME NEW t, CleanTicket(r, t) PROVE Backing'
    <2> DEFINE c == Frame("cleanTicket", t, Nil, Nil, FALSE)
    <2>1. Request(r, c, "cleanGet") /\ c.op # "exchangeGrant"
      BY <1>11 DEF CleanTicket, Frame
    <2> HIDE DEF c
    <2>2. QED BY <1>3, <2>1
  <1>12. ASSUME NEW g, CleanGrant(r, g) PROVE Backing'
    <2> DEFINE c == Frame("cleanGrant", Nil, Nil, g, FALSE)
    <2>1. Request(r, c, "cleanGet") /\ c.op # "exchangeGrant"
      BY <1>12 DEF CleanGrant, Frame
    <2> HIDE DEF c
    <2>2. QED BY <1>3, <2>1
  <1>13. QED
    BY <1>1, <1>4, <1>5, <1>6, <1>7, <1>8, <1>9, <1>10, <1>11, <1>12 DEF Arrive

\* RedisError keeps the evidence.
LEMMA RedisErrorBacked ==
  ASSUME TypeInv, Backing, NEW r \in Rid, RedisError(r)
  PROVE  Backing'
  <1>1. Grows /\ UNCHANGED <<redis, redeemed>> /\ Finish(r)
    BY DEF RedisError, Grows, history
  <1>2. QED BY <1>1, BackedFinish, BackedLocal DEF Backing

\* Tick keeps the evidence.
LEMMA TickBacked ==
  ASSUME TypeInv, Backing, Tick
  PROVE  Backing'
  <1>1. Grows /\ UNCHANGED <<pc, call, copy, verified, executed, redeemed>>
    BY DEF Tick, Grows, history, locals
  <1>2. Kept(Tid, tickets, tickets') /\ Kept(Rid, grants, grants')
        /\ Kept(Tid, deliveries, deliveries')
    BY DEF Kept, Tick, Unexpired, TypeInv, RedisOK, TicketsOK
  <1>3. FramesBacked'
    BY <1>1 DEF Backing, FramesBacked
  <1>4. QED BY <1>1, <1>2, <1>3, BackedKept, BackedAnswers DEF Backing

\* Restart keeps the evidence.
LEMMA RestartBacked ==
  ASSUME TypeInv, Backing, Restart
  PROVE  Backing'
  <1>1. Grows /\ UNCHANGED <<verified, executed, redeemed>>
    BY DEF Restart, Grows, history
  <1>2. Kept(Tid, tickets, tickets') /\ Kept(Rid, grants, grants')
        /\ Kept(Tid, deliveries, deliveries')
    BY DEF Kept, Restart
  <1>3. FramesBacked'
    <2>1. PICK dead \in SUBSET InFlight :
            /\ pc' = [q \in Rid |-> IF q \in dead THEN "done" ELSE pc[q]]
            /\ call' = [q \in Rid |-> IF q \in dead THEN Nil ELSE call[q]]
            /\ copy' = [q \in Rid |-> IF q \in dead THEN Nil ELSE copy[q]]
      BY DEF Restart
    <2>2. ASSUME NEW q \in Rid
          PROVE  FrameBacked(verified', executed', q, pc'[q], call'[q], copy'[q])
      <3>1. CASE q \in dead
        BY <2>1, <3>1 DEF FrameBacked, Accepted
      <3>2. CASE q \notin dead
        BY <1>1, <2>1, <3>2 DEF Backing, FramesBacked
      <3>3. QED BY <3>1, <3>2
    <2>3. QED BY <2>2 DEF FramesBacked
  <1>4. QED BY <1>1, <1>2, <1>3, BackedKept, BackedAnswers DEF Backing

\* Nothing needs evidence at the start.
LEMMA InitBacked == Init => Backing
  BY DEF Init, Backing, FramesBacked, FrameBacked, Accepted, RedisBacked, RedemptionBacked

\* A stuttering step keeps the evidence.
LEMMA StutterBacked ==
  ASSUME Backing, UNCHANGED vars
  PROVE  Backing'
  BY DEF vars, redis, locals, history, Backing, FramesBacked, RedisBacked,
     RedemptionBacked, RanFor

\* Every step keeps the evidence.
LEMMA NextBacked == TypeInv /\ Backing /\ [Next]_vars => Backing'
  BY ArriveBacked, ServeBacked, RedisErrorBacked, TickBacked, RestartBacked,
     StutterBacked DEF Next

\* The evidence is there in every reachable state of the QR services.
LEMMA BackingInvariant == Spec => []Backing
  BY TypeInvariant, InitBacked, NextBacked, PTL DEF Spec

\* However the requests interleave, fail between two Redis commands, expire or
\* lose Redis under them, what exchangeGrant and exchangeDeliveryCode answer
\* with is an approval that happened.
THEOREM QrRedemptionBacked == Spec => []RedemptionBacked
  <1>1. Backing => RedemptionBacked
    BY DEF Backing
  <1>2. QED BY <1>1, BackingInvariant, PTL

\* A stored ticket is only ever USED when an action of it ran.
THEOREM QrUsedIsEarned == Spec => []UsedIsEarned
  <1>1. Backing => UsedIsEarned
    BY DEF Backing, RedisBacked, TicketBacked, UsedIsEarned
  <1>2. QED BY <1>1, BackingInvariant, PTL

-----------------------------------------------------------------------------
(***************************************************************************)
(* Implementation of the ledger.  A request's number names one run of an   *)
(* action: requests are numbered as they arrive, and one that has run its  *)
(* action is past it.                                                      *)
(***************************************************************************)
AfterRun == {"putGrant", "putDelivery", "publish", "done"}

Once ==
    /\ \A e \in executed : pc[e.by] \in AfterRun
    /\ \A r \in Rid : r > started => pc[r] = "idle"

\* The step of a request that runs no action.
LEMMA OnceStep ==
  ASSUME TypeInv, Once, NEW r \in Rid, NEW l, Goto(r, l),
         pc[r] \notin {"idle", "done"}, pc[r] \in AfterRun => l \in AfterRun,
         UNCHANGED <<executed, started>>
  PROVE  Once'
  <1>1. ASSUME NEW e \in executed PROVE pc'[e.by] \in AfterRun
    BY DEF Goto, Once, TypeInv, LocalsOK, HistoryOK
  <1>2. r <= started
    BY DEF Once, TypeInv, BoundsOK, Rid
  <1>3. ASSUME NEW q \in Rid, q > started PROVE pc'[q] = "idle"
    BY <1>2, <1>3 DEF Goto, Once, TypeInv, LocalsOK, BoundsOK, Rid
  <1>4. QED BY <1>1, <1>3 DEF Once

\* A finished request adds no line again.
LEMMA OnceFinish ==
  ASSUME TypeInv, Once, NEW r \in Rid, Finish(r), pc[r] \notin {"idle", "done"},
         UNCHANGED <<executed, started>>
  PROVE  Once'
  BY OnceStep DEF Finish, AfterRun

\* A new request runs nothing yet.
LEMMA OnceEnter ==
  ASSUME TypeInv, Once, NEW r \in Rid, NEW c, NEW l, Enter(r, c, l), UNCHANGED executed
  PROVE  Once'
  <1>1. r = started + 1 /\ started' = r /\ pc' = [pc EXCEPT ![r] = l] /\ started \in Nat
    BY DEF Enter, Goto, TypeInv, BoundsOK
  <1>2. pc[r] = "idle"
    BY <1>1 DEF Once, Rid
  <1>3. ASSUME NEW e \in executed PROVE pc'[e.by] \in AfterRun
    BY <1>1, <1>2 DEF Once, AfterRun, TypeInv, LocalsOK, HistoryOK
  <1>4. ASSUME NEW q \in Rid, q > started' PROVE pc'[q] = "idle"
    BY <1>1, <1>4 DEF Once, TypeInv, LocalsOK, Rid
  <1>5. QED BY <1>3, <1>4 DEF Once

\* A call that arrives adds no line.
LEMMA ArriveOnce ==
  ASSUME TypeInv, Once, NEW r \in Rid, Arrive(r)
  PROVE  Once' /\ UNCHANGED <<verified, executed, redeemed>>
  <1>1. ASSUME NEW c, NEW l, Request(r, c, l)
        PROVE  Once' /\ UNCHANGED <<verified, executed, redeemed>>
    BY <1>1, OnceEnter DEF Request, history
  <1>2. ASSUME NEW t, NEW s, CreateTicket(r, t, s)
        PROVE  Once' /\ UNCHANGED <<verified, executed, redeemed>>
    <2> DEFINE c == Frame("create", t, Nil, Nil, FALSE)
    <2>1. Enter(r, c, "putTicket") /\ UNCHANGED <<verified, executed, redeemed>>
      BY <1>2 DEF CreateTicket
    <2> HIDE DEF c
    <2>2. QED BY <2>1, OnceEnter
  <1>3. QED
    BY <1>1, <1>2 DEF Arrive, ViewTicket, ScanTicket, ApproveTicket, RejectTicket,
       ExchangeGrant, ExchangeDelivery, PollTicket, CleanTicket, CleanGrant

\* getTicket runs no action and verifies at most one user.
LEMMA ResumeOnce ==
  ASSUME TypeInv, Once, NEW r \in Rid, pc[r] \in {"getTicket", "putExpired"},
         NEW tk, Resume(r, tk), UNCHANGED <<executed, started>>
  PROVE  /\ Once'
         /\ \/ UNCHANGED verified
            \/ \E t \in Tid, u \in User : verified' = verified \cup {<<t, u>>}
  <1>1. Once'
    <2>1. Goto(r, "putTicket") \/ Finish(r)
      BY DEF Resume, Continue
    <2>2. QED BY <2>1, OnceStep, OnceFinish DEF AfterRun
  <1>2. \/ UNCHANGED verified
        \/ call[r].op = "approve" /\ verified' = verified \cup {<<call[r].tid, call[r].user>>}
    BY DEF Resume
  <1>3. call[r].op = "approve" => call[r].tid \in Tid /\ call[r].user \in User
    BY ServedCall DEF LocalsFit, Changing
  <1>4. QED BY <1>1, <1>2, <1>3

\* What a served step does to the ledger.
LEMMA ServeLedger ==
  ASSUME TypeInv, Backing, Once, NEW r \in Rid, Serve(r)
  PROVE  Once' /\ [Ledger!Next]_(Ledger!ledger)
  <1> DEFINE Same == UNCHANGED <<verified, executed, redeemed>>
  <1>1. Same => [Ledger!Next]_(Ledger!ledger)
    BY DEF Ledger!ledger
  <1>2. ASSUME GetTicket(r) \/ PutExpired(r)
        PROVE  Once' /\ [Ledger!Next]_(Ledger!ledger)
    <2>1. UNCHANGED <<executed, started, redeemed>> /\ pc[r] \in {"getTicket", "putExpired"}
      BY <1>2 DEF GetTicket, PutExpired, bounds
    <2>2. Once' /\ \/ UNCHANGED verified
                   \/ \E t \in Tid, u \in User : verified' = verified \cup {<<t, u>>}
      <3>1. CASE PutExpired(r)
        BY <2>1, <3>1, ResumeOnce DEF PutExpired
      <3>2. CASE GetTicket(r)
        <4> DEFINE key == tickets[call[r].tid]
        <4>1. \/ Finish(r) /\ UNCHANGED verified
              \/ Goto(r, "putExpired") /\ UNCHANGED verified
              \/ Resume(r, key.val)
          BY <3>2 DEF GetTicket, Continue
        <4> HIDE DEF key
        <4>2. CASE Finish(r) /\ UNCHANGED verified
          BY <2>1, <4>2, OnceFinish
        <4>3. CASE Goto(r, "putExpired") /\ UNCHANGED verified
          BY <2>1, <4>3, OnceStep DEF AfterRun
        <4>4. CASE Resume(r, key.val)
          BY <2>1, <4>4, ResumeOnce
        <4>5. QED BY <4>1, <4>2, <4>3, <4>4
      <3>3. QED BY <1>2, <3>1, <3>2
    <2>3. ASSUME NEW t \in Tid, NEW u \in User, verified' = verified \cup {<<t, u>>}
          PROVE  Ledger!Next
      BY <2>1, <2>3 DEF Ledger!Next, Ledger!Verify
    <2>4. QED BY <1>1, <2>1, <2>2, <2>3
  <1>3. ASSUME RunAction(r)
        PROVE  Once' /\ [Ledger!Next]_(Ledger!ledger)
    <2> DEFINE t == call[r].tid
               u == call[r].user
    <2>1. /\ pc[r] = "runAction" /\ Goto(r, "putGrant") /\ UNCHANGED started
          /\ executed' = executed \cup {[by |-> r, tid |-> t, user |-> u]}
          /\ UNCHANGED <<verified, redeemed>>
      BY <1>3 DEF RunAction, bounds
    <2>2. t \in Tid /\ u \in User /\ <<t, u>> \in verified
      BY <2>1, HeldTicket DEF OpFits, LocalsFit, Changing, Backing, FramesBacked, FrameBacked
    <2>3. \A e \in executed : e.by # r
      BY <2>1 DEF Once, AfterRun
    <2> HIDE DEF t, u
    <2>4. Once'
      <3>1. ASSUME NEW e \in executed' PROVE pc'[e.by] \in AfterRun
        <4>1. CASE e.by = r
          BY <2>1, <4>1 DEF Goto, AfterRun, TypeInv, LocalsOK
        <4>2. CASE e.by # r
          <5>1. e \in executed /\ e.by \in Rid
            BY <2>1, <4>2 DEF TypeInv, HistoryOK
          <5>2. QED BY <2>1, <4>2, <5>1 DEF Goto, Once, TypeInv, LocalsOK
        <4>3. QED BY <4>1, <4>2
      <3>2. ASSUME NEW q \in Rid, q > started' PROVE pc'[q] = "idle"
        BY <2>1, <3>2 DEF Goto, Once, TypeInv, LocalsOK
      <3>3. QED BY <3>1, <3>2 DEF Once
    <2>5. Ledger!Execute(r, t, u)
      BY <2>1, <2>2, <2>3 DEF Ledger!Execute
    <2>6. QED BY <2>2, <2>4, <2>5 DEF Ledger!Next
  <1>4. ASSUME Publish(r)
        PROVE  Once' /\ [Ledger!Next]_(Ledger!ledger)
    <2> DEFINE c == call[r]
               new == [by |-> r, via |-> c.op, code |-> c.code, tid |-> c.tid,
                       user |-> c.user]
    <2>1. /\ pc[r] = "publish" /\ Finish(r) /\ UNCHANGED <<verified, executed, started>>
          /\ redeemed' = redeemed \cup {m \in {new} : Answered(c)}
      BY <1>4 DEF Publish, bounds
    <2>2. FrameBacked(verified, executed, r, "publish", c, copy[r]) /\ LocalsFit("publish", c)
      BY <2>1, ServedCall DEF Backing, FramesBacked
    <2>3. Once'
      BY <2>1, OnceFinish
    <2>4. CASE ~Answered(c)
      <3>1. redeemed' = redeemed
        BY <2>1, <2>4
      <3>2. QED BY <1>1, <2>1, <2>3, <3>1
    <2>5. CASE c.op = "exchangeGrant" /\ Answered(c)
      <3>1. /\ c.tid \in Tid /\ c.user \in User /\ c.code \in Rid
            /\ Approval(c.code, c.tid, c.user) \in executed
        BY <2>2, <2>5 DEF LocalsFit, FrameBacked, Exchange
      <3>2. redeemed' = redeemed \cup {[by |-> r, via |-> "exchangeGrant", code |-> c.code,
                                        tid |-> c.tid, user |-> c.user]}
        BY <2>1, <2>5
      <3>3. Ledger!RedeemGrant(r, c.code, c.tid, c.user)
        BY <2>1, <3>1, <3>2 DEF Ledger!RedeemGrant, Approval
      <3>4. QED BY <2>3, <3>1, <3>3 DEF Ledger!Next
    <2>6. CASE c.op = "exchangeDelivery" /\ Answered(c)
      <3>1. /\ c.tid \in Tid /\ c.user \in User /\ c.code \in Rid
            /\ Ran(executed, c.code, c.tid) /\ <<c.tid, c.user>> \in verified
        BY <2>2, <2>6 DEF LocalsFit, FrameBacked, Exchange, Accepted
      <3>2. redeemed' = redeemed \cup {[by |-> r, via |-> "exchangeDelivery", code |-> c.code,
                                        tid |-> c.tid, user |-> c.user]}
        BY <2>1, <2>6
      <3>3. Ledger!RedeemDelivery(r, c.code, c.tid, c.user)
        BY <2>1, <3>1, <3>2 DEF Ledger!RedeemDelivery, Ran
      <3>4. QED BY <2>3, <3>1, <3>3 DEF Ledger!Next
    <2>7. QED BY <2>4, <2>5, <2>6 DEF Answered
  <1>5. ASSUME /\ UNCHANGED <<executed, started>> /\ Same
               /\ pc[r] \notin {"idle", "done"}
               /\ Finish(r) \/ \E l : Goto(r, l) /\ (pc[r] \in AfterRun => l \in AfterRun)
        PROVE  Once' /\ [Ledger!Next]_(Ledger!ledger)
    BY <1>1, <1>5, OnceStep, OnceFinish
  <1>6. CASE PutTicket(r) \/ FailAction(r) \/ PutRevert(r)
    BY <1>5, <1>6 DEF PutTicket, FailAction, PutRevert, Continue, history, bounds, AfterRun
  <1>7. CASE PutGrant(r) \/ PutDelivery(r)
    BY <1>5, <1>7 DEF PutGrant, PutDelivery, history, bounds, AfterRun
  <1>8. CASE GetGrant(r) \/ DelGrant(r) \/ GetDelivery(r) \/ DelDelivery(r)
    BY <1>5, <1>8 DEF GetGrant, DelGrant, GetDelivery, DelDelivery, history, bounds, AfterRun
  <1>9. CASE Snapshot(r) \/ PutSnapshot(r) \/ TryGetDelivery(r)
    BY <1>5, <1>9 DEF Snapshot, PutSnapshot, TryGetDelivery, AnswerPoll, Continue, history,
       bounds, AfterRun
  <1>10. CASE CleanGet(r) \/ CleanDel(r)
    BY <1>5, <1>10 DEF CleanGet, CleanDel, history, bounds, AfterRun
  <1>11. QED
    BY <1>2, <1>3, <1>4, <1>6, <1>7, <1>8, <1>9, <1>10 DEF Serve

\* Every step is a step of the ledger or leaves it alone.
LEMMA NextLedger ==
  TypeInv /\ Backing /\ Once /\ [Next]_vars => Once' /\ [Ledger!Next]_(Ledger!ledger)
  <1> SUFFICES ASSUME TypeInv, Backing, Once, [Next]_vars
               PROVE  Once' /\ [Ledger!Next]_(Ledger!ledger)
    OBVIOUS
  <1>1. UNCHANGED <<verified, executed, redeemed>> => [Ledger!Next]_(Ledger!ledger)
    BY DEF Ledger!ledger
  <1>2. ASSUME NEW r \in Rid, Arrive(r) PROVE Once' /\ [Ledger!Next]_(Ledger!ledger)
    BY <1>1, <1>2, ArriveOnce
  <1>3. ASSUME NEW r \in Rid, Serve(r) PROVE Once' /\ [Ledger!Next]_(Ledger!ledger)
    BY <1>3, ServeLedger
  <1>4. ASSUME NEW r \in Rid, RedisError(r) PROVE Once' /\ [Ledger!Next]_(Ledger!ledger)
    BY <1>1, <1>4, OnceFinish DEF RedisError, history, bounds
  <1>5. CASE Tick
    BY <1>1, <1>5 DEF Tick, history, locals, Once
  <1>6. CASE Restart
    <2>1. UNCHANGED <<started, verified, executed, redeemed>>
      BY <1>6 DEF Restart, history
    <2>2. PICK dead \in SUBSET InFlight :
            pc' = [q \in Rid |-> IF q \in dead THEN "done" ELSE pc[q]]
      BY <1>6 DEF Restart
    <2>3. \A q \in dead : q \in Rid /\ pc[q] # "idle"
      BY DEF InFlight
    <2>4. Once'
      BY <2>1, <2>2, <2>3 DEF Once, AfterRun, TypeInv, HistoryOK
    <2>5. QED BY <1>1, <2>1, <2>4
  <1>7. CASE UNCHANGED vars
    BY <1>1, <1>7 DEF vars, history, locals, bounds, Once
  <1>8. QED BY <1>2, <1>3, <1>4, <1>5, <1>6, <1>7 DEF Next

\* The flow with all its Redis commands, failures and overlapping requests
\* does to the outside nothing that the approval ledger would not do: it is
\* safe to think of approvals and exchanges as lines of the ledger.
THEOREM QrImplementsLedger == Spec => ImplementsLedger
  <1>1. Init => Once /\ Ledger!Init
    BY DEF Init, Once, Ledger!Init
  <1>2. QED
    BY <1>1, NextLedger, TypeInvariant, BackingInvariant, PTL
       DEF Spec, ImplementsLedger, Ledger!Spec

(***************************************************************************)
(* Origins.  The web session and the expiry a ticket is created with stay  *)
(* with every object made of it: o gives the pair of each ticket.          *)
(***************************************************************************)
Holding == {"putExpired", "putTicket", "runAction", "putRevert", "putGrant",
            "putDelivery", "putSnapshot"}

\* An object of ticket t at instant n: it has t's origin, and it is only
\* marked EXPIRED when it is.
Genuine(n, o, t, tk) ==
    /\ o[t] = <<tk.webSession, tk.expiresAt>>
    /\ tk.status = "EXPIRED" => n > tk.expiresAt

FrameGenuine(n, o, C, l, c, tk) ==
    l \in Holding => c.tid \in C /\ Genuine(n, o, c.tid, tk)

TicketGenuine(n, o, C, t, key) ==
    key # Nil => t \in C /\ Genuine(n, o, t, key.val)

DeliveryGenuine(o, C, t, key) ==
    key # Nil => t \in C /\ key.val.webSession = o[t][1]

AllGenuine(o) ==
    /\ \A r \in Rid : FrameGenuine(now, o, created, pc[r], call[r], copy[r])
    /\ \A t \in Tid : /\ TicketGenuine(now, o, created, t, tickets[t])
                      /\ DeliveryGenuine(o, created, t, deliveries[t])

Origin == (Session \cup {Nil}) \X Nat

Origins == \E o \in [Tid -> Origin] : AllGenuine(o)

\* What was genuine stays so as time passes and tickets are created.
LEMMA GenuineLater ==
  ASSUME NEW o, NEW n \in Nat, NEW m \in Nat, n <= m, NEW C, NEW D, C \subseteq D
  PROVE  /\ \A l, c, tk : FrameGenuine(n, o, C, l, c, tk) /\ (l \in Holding => tk \in Ticket)
                            => FrameGenuine(m, o, D, l, c, tk)
         /\ \A t, key : TicketGenuine(n, o, C, t, key) /\ key \in Key(Ticket)
                            => TicketGenuine(m, o, D, t, key)
         /\ \A t, key : DeliveryGenuine(o, C, t, key) => DeliveryGenuine(o, D, t, key)
  <1>1. ASSUME NEW t, NEW tk \in Ticket, Genuine(n, o, t, tk) PROVE Genuine(m, o, t, tk)
    <2>1. tk.expiresAt \in Nat
      BY DEF Ticket
    <2>2. QED BY <1>1, <2>1 DEF Genuine
  <1>2. QED BY <1>1 DEF FrameGenuine, TicketGenuine, DeliveryGenuine, Key

\* A step of request r that leaves a genuine frame and writes genuine keys.
LEMMA GenuineStep ==
  ASSUME TypeInv, TypeInv', NEW o, AllGenuine(o), NEW r \in Rid,
         now <= now', created \subseteq created',
         \A q \in Rid \ {r} : pc'[q] = pc[q] /\ call'[q] = call[q] /\ copy'[q] = copy[q],
         FrameGenuine(now', o, created', pc'[r], call'[r], copy'[r]),
         \A t \in Tid : \/ tickets'[t] = tickets[t]
                        \/ TicketGenuine(now', o, created', t, tickets'[t]),
         \A t \in Tid : \/ deliveries'[t] = deliveries[t]
                        \/ DeliveryGenuine(o, created', t, deliveries'[t])
  PROVE  AllGenuine(o)'
  <1>1. now \in Nat /\ now' \in Nat
    BY DEF TypeInv, BoundsOK
  <1>2. ASSUME NEW q \in Rid
        PROVE  FrameGenuine(now', o, created', pc'[q], call'[q], copy'[q])
    <2>1. CASE q = r
      BY <2>1
    <2>2. CASE q # r
      <3>1. /\ FrameGenuine(now, o, created, pc[q], call[q], copy[q])
            /\ pc[q] \in Holding => copy[q] \in Ticket
        BY HeldTicket DEF AllGenuine, Holding
      <3>2. FrameGenuine(now', o, created', pc[q], call[q], copy[q])
        BY <1>1, <3>1, GenuineLater
      <3>3. QED BY <2>2, <3>2
    <2>3. QED BY <2>1, <2>2
  <1>3. ASSUME NEW t \in Tid
        PROVE  /\ TicketGenuine(now', o, created', t, tickets'[t])
               /\ DeliveryGenuine(o, created', t, deliveries'[t])
    <2>1. /\ TicketGenuine(now, o, created, t, tickets[t]) /\ tickets[t] \in Key(Ticket)
          /\ DeliveryGenuine(o, created, t, deliveries[t])
      BY DEF AllGenuine, TypeInv, RedisOK, TicketsOK
    <2>2. /\ TicketGenuine(now', o, created', t, tickets[t])
          /\ DeliveryGenuine(o, created', t, deliveries[t])
      BY <1>1, <2>1, GenuineLater
    <2>3. QED BY <2>2
  <1>4. QED BY <1>2, <1>3 DEF AllGenuine

\* A request that answers, or goes where it holds no object, needs nothing.
LEMMA GenuineFree ==
  ASSUME NEW n, NEW o, NEW C, NEW l, NEW c, NEW tk, l \notin Holding
  PROVE  FrameGenuine(n, o, C, l, c, tk)
  BY DEF FrameGenuine

\* The step of a request leaves the frames of the others alone.
LEMMA OthersKept ==
  ASSUME TypeInv, NEW r \in Rid, NEW l, Goto(r, l),
         \/ UNCHANGED call
         \/ \E c : call' = [call EXCEPT ![r] = c],
         \/ UNCHANGED copy
         \/ \E tk : copy' = [copy EXCEPT ![r] = tk]
  PROVE  /\ pc'[r] = l
         /\ \A q \in Rid \ {r} : pc'[q] = pc[q] /\ call'[q] = call[q] /\ copy'[q] = copy[q]
  BY DEF Goto, TypeInv, LocalsOK

\* SETEX of a genuine object leaves genuine keys.
LEMMA WriteGenuine ==
  ASSUME TypeInv, NEW o, AllGenuine(o), NEW r \in Rid, pc[r] \in Holding, WriteTicket(r)
  PROVE  \A t \in Tid : \/ tickets'[t] = tickets[t]
                        \/ TicketGenuine(now, o, created, t, tickets'[t])
  <1>1. call[r].tid \in created /\ Genuine(now, o, call[r].tid, copy[r])
    BY DEF AllGenuine, FrameGenuine
  <1>2. ASSUME NEW t \in Tid
        PROVE  \/ tickets'[t] = tickets[t]
               \/ TicketGenuine(now, o, created, t, tickets'[t])
    <2>1. CASE t = call[r].tid
      <3>1. tickets'[t].val = copy[r]
        BY <2>1 DEF WriteTicket, SetEx, TypeInv, RedisOK, TicketsOK
      <3>2. QED BY <1>1, <2>1, <3>1 DEF TicketGenuine
    <2>2. CASE t # call[r].tid
      BY <2>2 DEF WriteTicket, TypeInv, RedisOK, TicketsOK
    <2>3. QED BY <2>1, <2>2
  <1>3. QED BY <1>2

\* A status other than EXPIRED keeps an object genuine.
LEMMA BumpGenuine ==
  ASSUME NEW n, NEW o, NEW t, NEW tk \in Ticket, Genuine(n, o, t, tk),
         NEW s \in Status \ {"EXPIRED"}
  PROVE  Genuine(n, o, t, Bump(tk, s))
  BY DEF Genuine, Bump

\* What a handler makes of a genuine object is genuine.
LEMMA ResumeGenuine ==
  ASSUME TypeInv, NEW o, NEW r \in Rid, NEW tk \in Ticket, Resume(r, tk),
         call[r].tid \in created, Genuine(now, o, call[r].tid, tk), call[r] \in Call
  PROVE  /\ \A q \in Rid \ {r} : pc'[q] = pc[q] /\ call'[q] = call[q] /\ copy'[q] = copy[q]
         /\ FrameGenuine(now, o, created, pc'[r], call'[r], copy'[r])
  <1> DEFINE c == call[r]
             Goal == /\ \A q \in Rid \ {r} : /\ pc'[q] = pc[q] /\ call'[q] = call[q]
                                             /\ copy'[q] = copy[q]
                     /\ FrameGenuine(now, o, created, pc'[r], call'[r], copy'[r])
  <1>1. ASSUME NEW new, Genuine(now, o, c.tid, new), Continue(r, new, "putTicket")
        PROVE  Goal
    <2>1. copy'[r] = new /\ call'[r] = call[r]
      BY <1>1 DEF Continue, TypeInv, LocalsOK
    <2>2. /\ pc'[r] = "putTicket"
          /\ \A q \in Rid \ {r} : pc'[q] = pc[q] /\ call'[q] = call[q] /\ copy'[q] = copy[q]
      BY <1>1, OthersKept DEF Continue
    <2>3. QED BY <1>1, <2>1, <2>2 DEF FrameGenuine
  <1>2. ASSUME NEW s \in Status \ {"EXPIRED"}, Continue(r, Bump(tk, s), "putTicket")
        PROVE  Goal
    BY <1>1, <1>2, BumpGenuine
  <1>3. ASSUME Continue(r, [Bump(tk, "APPROVED") EXCEPT !.approvedBy = c.user], "putTicket")
        PROVE  Goal
    <2> DEFINE new == [Bump(tk, "APPROVED") EXCEPT !.approvedBy = c.user]
    <2>1. Bump(tk, "APPROVED") \in Ticket /\ Genuine(now, o, c.tid, Bump(tk, "APPROVED"))
      BY BumpType, BumpGenuine DEF Status
    <2>2. Genuine(now, o, c.tid, new)
      BY <2>1 DEF Genuine, Ticket
    <2>3. QED BY <1>1, <1>3, <2>2
  <1>4. ASSUME /\ copy' = [copy EXCEPT ![r] = Bump(tk, "USED")]
               /\ call' = [call EXCEPT ![r].user = tk.approvedBy]
               /\ Goto(r, "putTicket")
        PROVE  Goal
    <2>1. Genuine(now, o, c.tid, Bump(tk, "USED"))
      BY BumpGenuine DEF Status
    <2>2. copy'[r] = Bump(tk, "USED") /\ call'[r].tid = c.tid
      BY <1>4 DEF TypeInv, LocalsOK, Call
    <2>3. /\ pc'[r] = "putTicket"
          /\ \A q \in Rid \ {r} : pc'[q] = pc[q] /\ call'[q] = call[q] /\ copy'[q] = copy[q]
      BY <1>4, OthersKept
    <2>4. QED BY <2>1, <2>2, <2>3 DEF FrameGenuine
  <1>5. ASSUME Finish(r) PROVE Goal
    <2>1. /\ pc'[r] = "done"
          /\ \A q \in Rid \ {r} : pc'[q] = pc[q] /\ call'[q] = call[q] /\ copy'[q] = copy[q]
      BY <1>5, OthersKept DEF Finish
    <2>2. QED BY <2>1 DEF FrameGenuine, Holding
  <1> HIDE DEF Goal
  <1>6. Goal
    BY <1>2, <1>3, <1>4, <1>5 DEF Resume, Status
  <1>7. QED BY <1>6 DEF Goal

\* A served step keeps objects genuine.
LEMMA ServeGenuine ==
  ASSUME TypeInv, TypeInv', NEW o, AllGenuine(o), NEW r \in Rid, Serve(r)
  PROVE  AllGenuine(o)'
  <1> DEFINE Others == \A q \in Rid \ {r} : /\ pc'[q] = pc[q] /\ call'[q] = call[q]
                                            /\ copy'[q] = copy[q]
             Mine == FrameGenuine(now, o, created, pc'[r], call'[r], copy'[r])
             Tickets == \A t \in Tid : \/ tickets'[t] = tickets[t]
                                       \/ TicketGenuine(now, o, created, t, tickets'[t])
             Deliveries == \A t \in Tid : \/ deliveries'[t] = deliveries[t]
                                          \/ DeliveryGenuine(o, created, t, deliveries'[t])
             held == copy[r]
             tid == call[r].tid
  <1>1. ASSUME UNCHANGED <<now, created>>, Others, Mine, Tickets, Deliveries
        PROVE  AllGenuine(o)'
    <2>1. now <= now'
      BY <1>1 DEF TypeInv, BoundsOK
    <2>2. QED BY <1>1, <2>1, GenuineStep
  <1>2. ASSUME Finish(r) PROVE Others /\ Mine
    <2>1. pc'[r] = "done" /\ Others
      BY <1>2, OthersKept DEF Finish
    <2>2. QED BY <2>1, GenuineFree DEF Holding
  <1>3. ASSUME NEW l, Goto(r, l), UNCHANGED <<call, copy>>, pc[r] \in Holding \/ l \notin Holding
        PROVE  Others /\ Mine
    <2>1. pc'[r] = l /\ Others
      BY <1>3, OthersKept
    <2>2. QED BY <1>3, <2>1 DEF FrameGenuine, AllGenuine
  <1>4. pc[r] \in Holding => /\ tid \in created /\ held \in Ticket /\ tid \in Tid
                             /\ call[r] \in Call /\ Genuine(now, o, tid, held)
    BY HeldTicket DEF Holding, AllGenuine, FrameGenuine
  <1>5. UNCHANGED tickets => Tickets
    OBVIOUS
  <1>6. UNCHANGED deliveries => Deliveries
    OBVIOUS
  <1>7. pc[r] \in Holding /\ WriteTicket(r) => Tickets
    BY WriteGenuine
  <1>8. ASSUME NEW t \in Tid, tickets[t] # Nil
        PROVE  /\ tickets[t].val \in Ticket /\ t \in created
               /\ Genuine(now, o, t, tickets[t].val)
    BY <1>8, StoredTicket DEF AllGenuine, TicketGenuine
  <1>9. ASSUME NEW tk, NEW l, Continue(r, tk, l), tid \in created, Genuine(now, o, tid, tk)
        PROVE  Others /\ Mine
    <2>1. pc'[r] = l /\ Others
      BY <1>9, OthersKept DEF Continue
    <2>2. copy'[r] = tk /\ call'[r] = call[r]
      BY <1>9 DEF Continue, TypeInv, LocalsOK
    <2>3. QED BY <1>9, <2>1, <2>2 DEF FrameGenuine
  <1>10. ASSUME NEW t \in Tid, Past(tickets[t])
         PROVE  /\ Genuine(now, o, t, [tickets[t].val EXCEPT !.status = "EXPIRED"])
                /\ Genuine(now, o, t, Bump(tickets[t].val, "EXPIRED"))
                /\ t \in created
    <2>1. tickets[t].val \in Ticket /\ now > tickets[t].val.expiresAt
      BY <1>10, <1>8 DEF Past, Expired
    <2>2. QED BY <1>10, <1>8, <2>1 DEF Past, Genuine, Ticket, Bump
  <1>11. ASSUME NEW t, t = tid, NEW tk, AnswerPoll(r, t, tk)
         PROVE  Others /\ Mine
    <2>1. Finish(r) \/ Continue(r, tk, "tryGetDelivery")
      BY <1>11 DEF AnswerPoll
    <2>2. ASSUME Continue(r, tk, "tryGetDelivery") PROVE Others /\ Mine
      <3>1. pc'[r] = "tryGetDelivery" /\ Others
        BY <2>2, OthersKept DEF Continue
      <3>2. QED BY <3>1, GenuineFree DEF Holding
    <2>3. QED BY <1>2, <2>1, <2>2
  <1> HIDE DEF Others, Mine, Tickets, Deliveries
  <1>12. CASE GetTicket(r)
    <2>1. UNCHANGED <<tickets, deliveries, now, created>> /\ tid \in Tid /\ call[r] \in Call
      BY <1>12, ServedCall DEF GetTicket, redis, bounds, OpFits, LocalsFit, Changing, Exchange
    <2>2. CASE Past(tickets[tid]) /\ Continue(r, [tickets[tid].val EXCEPT !.status = "EXPIRED"],
                                              "putExpired")
      BY <1>1, <1>5, <1>6, <1>9, <1>10, <2>1, <2>2
    <2>3. CASE Live(tickets[tid]) /\ Resume(r, tickets[tid].val)
      <3>1. Others /\ Mine
        BY <1>8, <2>1, <2>3, ResumeGenuine DEF Live, Others, Mine
      <3>2. QED BY <1>1, <1>5, <1>6, <2>1, <3>1
    <2>4. CASE Finish(r)
      BY <1>1, <1>2, <1>5, <1>6, <2>1, <2>4
    <2>5. QED BY <1>12, <2>2, <2>3, <2>4 DEF GetTicket
  <1>13. CASE PutExpired(r)
    <2>1. /\ pc[r] \in Holding /\ WriteTicket(r) /\ Resume(r, held)
          /\ UNCHANGED <<deliveries, now, created>>
      BY <1>13 DEF PutExpired, Holding, bounds
    <2>2. Others /\ Mine
      BY <1>4, <2>1, ResumeGenuine DEF Others, Mine
    <2>3. QED BY <1>1, <1>6, <1>7, <2>1, <2>2
  <1>14. CASE PutTicket(r)
    <2>1. /\ pc[r] \in Holding /\ WriteTicket(r) /\ UNCHANGED <<deliveries, now, created>>
          /\ \/ Finish(r)
             \/ \E l : Goto(r, l) /\ UNCHANGED <<call, copy>>
      BY <1>14 DEF PutTicket, Holding, bounds, history
    <2>2. QED BY <1>1, <1>2, <1>3, <1>6, <1>7, <2>1
  <1>15. CASE RunAction(r)
    <2>1. /\ pc[r] = "runAction" /\ UNCHANGED <<tickets, deliveries, now, created, copy>>
          /\ call' = [call EXCEPT ![r].expiresAt = now + GrantTtl] /\ Goto(r, "putGrant")
      BY <1>15 DEF RunAction, redis, bounds
    <2>2. Others /\ pc'[r] = "putGrant"
      BY <2>1, OthersKept DEF Others
    <2>3. call'[r].tid = tid /\ copy'[r] = held
      BY <1>4, <2>1 DEF TypeInv, LocalsOK, Call, Holding
    <2>4. Mine
      BY <1>4, <2>1, <2>2, <2>3 DEF Mine, FrameGenuine, Holding
    <2>5. QED BY <1>1, <1>5, <1>6, <2>1, <2>2, <2>4
  <1>16. CASE FailAction(r)
    <2>1. /\ pc[r] \in Holding /\ UNCHANGED <<tickets, deliveries, now, created>>
          /\ Continue(r, [held EXCEPT !.status = "PENDING"], "putRevert")
      BY <1>16 DEF FailAction, Holding, redis, bounds, history
    <2>2. Genuine(now, o, tid, [held EXCEPT !.status = "PENDING"])
      BY <1>4, <2>1 DEF Genuine, Ticket
    <2>3. QED BY <1>1, <1>4, <1>5, <1>6, <1>9, <2>1, <2>2
  <1>17. CASE PutRevert(r)
    <2>1. /\ pc[r] \in Holding /\ WriteTicket(r) /\ Finish(r)
          /\ UNCHANGED <<deliveries, now, created>>
      BY <1>17 DEF PutRevert, Holding, bounds, history
    <2>2. QED BY <1>1, <1>2, <1>6, <1>7, <2>1
  <1>18. CASE PutGrant(r)
    <2>1. pc[r] = "putGrant" /\ UNCHANGED <<tickets, deliveries, now, created, copy>>
      BY <1>18 DEF PutGrant, bounds, history
    <2>2. CASE Goto(r, "publish") /\ UNCHANGED call
      BY <1>1, <1>3, <1>5, <1>6, <2>1, <2>2 DEF Holding
    <2>3. CASE /\ call' = [call EXCEPT ![r].expiresAt = now + GrantTtl]
               /\ Goto(r, "putDelivery")
      <3>1. Others /\ pc'[r] = "putDelivery"
        BY <2>1, <2>3, OthersKept DEF Others
      <3>2. call'[r].tid = tid /\ copy'[r] = held
        BY <1>4, <2>1, <2>3 DEF TypeInv, LocalsOK, Call, Holding
      <3>3. Mine
        BY <1>4, <2>1, <3>1, <3>2 DEF Mine, FrameGenuine, Holding
      <3>4. QED BY <1>1, <1>5, <1>6, <2>1, <3>1, <3>3
    <2>4. QED BY <1>18, <2>2, <2>3 DEF PutGrant
  <1>19. CASE PutDelivery(r)
    <2>1. /\ pc[r] = "putDelivery" /\ UNCHANGED <<tickets, call, copy, now, created>>
          /\ Goto(r, "publish")
          /\ deliveries' = [deliveries EXCEPT ![tid] =
                SetEx([code |-> r, webSession |-> held.webSession,
                       expiresAt |-> call[r].expiresAt], GrantTtl)]
      BY <1>19 DEF PutDelivery, bounds, history
    <2>2. o[tid][1] = held.webSession /\ tid \in created
      BY <1>4, <2>1 DEF Genuine, Holding
    <2>3. Deliveries
      <3>1. ASSUME NEW t \in Tid
            PROVE  \/ deliveries'[t] = deliveries[t]
                   \/ DeliveryGenuine(o, created, t, deliveries'[t])
        <4>1. CASE t = tid
          <5>1. deliveries'[t].val.webSession = held.webSession
            BY <2>1, <4>1 DEF SetEx, TypeInv, RedisOK
          <5>2. QED BY <2>2, <4>1, <5>1 DEF DeliveryGenuine
        <4>2. CASE t # tid
          BY <2>1, <4>2 DEF TypeInv, RedisOK
        <4>3. QED BY <4>1, <4>2
      <3>2. QED BY <3>1 DEF Deliveries
    <2>4. QED BY <1>1, <1>3, <1>5, <2>1, <2>3 DEF Holding
  <1>20. CASE GetGrant(r)
    <2>1. UNCHANGED <<tickets, deliveries, now, created>>
      BY <1>20 DEF GetGrant, redis, bounds, history
    <2>2. Others /\ (Finish(r) \/ pc'[r] = "getTicket")
      <3>1. CASE Finish(r)
        BY <1>2, <3>1
      <3>2. CASE \E c : /\ call' = [call EXCEPT ![r] = c]
                        /\ Goto(r, "getTicket") /\ UNCHANGED copy
        BY <3>2, OthersKept DEF Others
      <3>3. QED BY <1>20, <3>1, <3>2 DEF GetGrant
    <2>3. Mine
      BY <1>2, <2>2, GenuineFree DEF Mine, Holding
    <2>4. QED BY <1>1, <1>5, <1>6, <2>1, <2>2, <2>3
  <1>21. CASE DelGrant(r) \/ TryGetDelivery(r) \/ CleanGet(r)
    <2>1. UNCHANGED <<tickets, deliveries, now, created>>
      BY <1>21 DEF DelGrant, TryGetDelivery, CleanGet, redis, bounds, history
    <2>2. \/ Finish(r)
          \/ \E l : Goto(r, l) /\ UNCHANGED <<call, copy>> /\ l \notin Holding
      BY <1>21 DEF DelGrant, TryGetDelivery, CleanGet, Holding
    <2>3. QED BY <1>1, <1>2, <1>3, <1>5, <1>6, <2>1, <2>2
  <1>22. CASE GetDelivery(r)
    <2>1. UNCHANGED <<tickets, deliveries, now, created>>
      BY <1>22 DEF GetDelivery, redis, bounds, history
    <2>2. CASE Finish(r)
      BY <1>1, <1>2, <1>5, <1>6, <2>1, <2>2
    <2>3. CASE \E v : /\ call' = [call EXCEPT ![r].valid = v]
                      /\ Goto(r, "delDelivery") /\ UNCHANGED copy
      <3>1. Others /\ pc'[r] = "delDelivery"
        BY <2>3, OthersKept DEF Others
      <3>2. Mine
        BY <3>1, GenuineFree DEF Mine, Holding
      <3>3. QED BY <1>1, <1>5, <1>6, <2>1, <3>1, <3>2
    <2>4. QED BY <1>22, <2>2, <2>3 DEF GetDelivery
  <1>23. CASE DelDelivery(r)
    <2>1. /\ UNCHANGED <<tickets, now, created>>
          /\ deliveries' = [deliveries EXCEPT ![tid] = Nil]
      BY <1>23 DEF DelDelivery, bounds, history
    <2>2. Deliveries
      BY <2>1 DEF Deliveries, DeliveryGenuine, TypeInv, RedisOK
    <2>3. \/ Finish(r)
          \/ Goto(r, "getTicket") /\ UNCHANGED <<call, copy>>
      BY <1>23 DEF DelDelivery
    <2>4. QED BY <1>1, <1>2, <1>3, <1>5, <2>1, <2>2, <2>3 DEF Holding
  <1>24. CASE Publish(r)
    BY <1>1, <1>2, <1>5, <1>6, <1>24 DEF Publish, redis, bounds
  <1>25. CASE Snapshot(r)
    <2>1. UNCHANGED <<tickets, deliveries, now, created>> /\ tid \in Tid
      BY <1>25, ServedCall DEF Snapshot, redis, bounds, history, OpFits, LocalsFit, Exchange
    <2>2. CASE Finish(r)
      BY <1>1, <1>2, <1>5, <1>6, <2>1, <2>2
    <2>3. CASE /\ Past(tickets[tid])
               /\ Continue(r, Bump(tickets[tid].val, "EXPIRED"), "putSnapshot")
      BY <1>1, <1>5, <1>6, <1>9, <1>10, <2>1, <2>3
    <2>4. CASE AnswerPoll(r, tid, tickets[tid].val)
      BY <1>1, <1>5, <1>6, <1>11, <2>1, <2>4
    <2>5. QED BY <1>25, <2>2, <2>3, <2>4 DEF Snapshot
  <1>26. CASE PutSnapshot(r)
    <2>1. /\ pc[r] \in Holding /\ WriteTicket(r) /\ AnswerPoll(r, tid, held)
          /\ UNCHANGED <<deliveries, now, created>>
      BY <1>26 DEF PutSnapshot, Holding, bounds, history
    <2>2. QED BY <1>1, <1>6, <1>7, <1>11, <2>1
  <1>27. CASE CleanDel(r)
    <2>1. /\ UNCHANGED <<deliveries, now, created>> /\ Finish(r)
          /\ \/ UNCHANGED tickets
             \/ tickets' = [tickets EXCEPT ![tid] = Nil]
      BY <1>27 DEF CleanDel, bounds, history
    <2>2. Tickets
      BY <2>1 DEF Tickets, TicketGenuine, TypeInv, RedisOK, TicketsOK
    <2>3. QED BY <1>1, <1>2, <1>6, <2>1, <2>2
  <1>28. QED
    BY <1>12, <1>13, <1>14, <1>15, <1>16, <1>17, <1>18, <1>19, <1>20, <1>21, <1>22, <1>23,
       <1>24, <1>25, <1>26, <1>27 DEF Serve

\* A call that arrives keeps objects genuine; a new ticket brings its origin.
LEMMA ArriveGenuine ==
  ASSUME TypeInv, TypeInv', Origins, NEW r \in Rid, Arrive(r)
  PROVE  Origins'
  <1>0. PICK o \in [Tid -> Origin] : AllGenuine(o)
    BY DEF Origins
  <1>1. ASSUME NEW c, NEW l, Request(r, c, l), l \notin Holding
        PROVE  Origins'
    <2>1. /\ UNCHANGED <<tickets, deliveries, now, created, copy>> /\ Goto(r, l)
          /\ call' = [call EXCEPT ![r] = c]
      BY <1>1 DEF Request, Enter, redis, history
    <2>2. /\ pc'[r] = l
          /\ \A q \in Rid \ {r} : pc'[q] = pc[q] /\ call'[q] = call[q] /\ copy'[q] = copy[q]
      BY <2>1, OthersKept
    <2>3. FrameGenuine(now', o, created', pc'[r], call'[r], copy'[r])
      BY <1>1, <2>2, GenuineFree
    <2>4. now <= now'
      BY <2>1 DEF TypeInv, BoundsOK
    <2>5. AllGenuine(o)'
      BY <1>0, <2>1, <2>2, <2>3, <2>4, GenuineStep
    <2>6. QED BY <2>5 DEF Origins
  <1>2. ASSUME NEW t \in Tid, NEW s \in Session \cup {Nil}, CreateTicket(r, t, s)
        PROVE  Origins'
    <2> DEFINE c  == Frame("create", t, Nil, Nil, FALSE)
               tk == [status |-> "PENDING", webSession |-> s, approvedBy |-> Nil,
                      version |-> 1, expiresAt |-> now + TicketTtl]
    <2>1. /\ t \notin created /\ created' = created \cup {t}
          /\ UNCHANGED <<tickets, deliveries, now>> /\ Goto(r, "putTicket")
          /\ call' = [call EXCEPT ![r] = c] /\ copy' = [copy EXCEPT ![r] = tk]
      BY <1>2 DEF CreateTicket, Enter, redis
    <2>2. c.tid = t /\ tk.webSession = s /\ tk.expiresAt = now + TicketTtl
          /\ tk.status = "PENDING"
      BY DEF Frame
    <2>3. PICK p \in [Tid -> Origin] : /\ p[t] = <<s, now + TicketTtl>>
                                      /\ \A u \in Tid \ {t} : p[u] = o[u]
      <3> DEFINE w == [o EXCEPT ![t] = <<s, now + TicketTtl>>]
      <3>1. w \in [Tid -> Origin] /\ w[t] = <<s, now + TicketTtl>>
        BY ConstantsAssumption DEF Origin, TypeInv, BoundsOK
      <3>2. \A u \in Tid \ {t} : w[u] = o[u]
        OBVIOUS
      <3>3. QED BY <3>1, <3>2
    <2>4. created \subseteq Tid
      BY DEF TypeInv, HistoryOK
    <2> HIDE DEF c, tk
    <2>5. AllGenuine(p)
      BY <1>0, <2>1, <2>3, <2>4 DEF AllGenuine, FrameGenuine, TicketGenuine, DeliveryGenuine,
         Genuine
    <2>6. /\ pc'[r] = "putTicket"
          /\ \A q \in Rid \ {r} : pc'[q] = pc[q] /\ call'[q] = call[q] /\ copy'[q] = copy[q]
      BY <2>1, OthersKept
    <2>7. call'[r] = c /\ copy'[r] = tk
      BY <2>1 DEF TypeInv, LocalsOK
    <2>8. FrameGenuine(now', p, created', pc'[r], call'[r], copy'[r])
      BY <2>1, <2>2, <2>3, <2>6, <2>7 DEF FrameGenuine, Genuine
    <2>9. now <= now'
      BY <2>1 DEF TypeInv, BoundsOK
    <2>10. AllGenuine(p)'
      BY <2>1, <2>5, <2>6, <2>8, <2>9, GenuineStep
    <2>11. QED BY <2>3, <2>10 DEF Origins
  <1>3. Known \subseteq Tid
    BY DEF Known, TypeInv, HistoryOK
  <1>4. QED
    BY <1>1, <1>2, <1>3 DEF Arrive, ViewTicket, ScanTicket, ApproveTicket, RejectTicket,
       ExchangeGrant, ExchangeDelivery, PollTicket, CleanTicket, CleanGrant, Holding

\* Requests that die and keys that go leave what is left genuine.
LEMMA FewerGenuine ==
  ASSUME TypeInv, TypeInv', NEW o, AllGenuine(o), now <= now', UNCHANGED created,
         \A q \in Rid : \/ pc'[q] \notin Holding
                        \/ pc'[q] = pc[q] /\ call'[q] = call[q] /\ copy'[q] = copy[q],
         Kept(Tid, tickets, tickets'), Kept(Tid, deliveries, deliveries')
  PROVE  AllGenuine(o)'
  <1>1. now \in Nat /\ now' \in Nat /\ created \subseteq created'
    BY DEF TypeInv, BoundsOK
  <1>2. ASSUME NEW q \in Rid
        PROVE  FrameGenuine(now', o, created', pc'[q], call'[q], copy'[q])
    <2>1. CASE pc'[q] \notin Holding
      BY <2>1, GenuineFree
    <2>2. CASE pc'[q] = pc[q] /\ call'[q] = call[q] /\ copy'[q] = copy[q]
      <3>1. /\ FrameGenuine(now, o, created, pc[q], call[q], copy[q])
            /\ pc[q] \in Holding => copy[q] \in Ticket
        BY HeldTicket DEF AllGenuine, Holding
      <3>2. QED BY <1>1, <2>2, <3>1, GenuineLater
    <2>3. QED BY <2>1, <2>2
  <1>3. ASSUME NEW t \in Tid
        PROVE  /\ TicketGenuine(now', o, created', t, tickets'[t])
               /\ DeliveryGenuine(o, created', t, deliveries'[t])
    <2>1. /\ TicketGenuine(now, o, created, t, tickets[t]) /\ tickets[t] \in Key(Ticket)
          /\ DeliveryGenuine(o, created, t, deliveries[t])
      BY DEF AllGenuine, TypeInv, RedisOK, TicketsOK
    <2>2. /\ TicketGenuine(now', o, created', t, tickets[t])
          /\ DeliveryGenuine(o, created', t, deliveries[t])
      BY <1>1, <2>1, GenuineLater
    <2>3. QED BY <2>2 DEF Kept, TicketGenuine, DeliveryGenuine
  <1>4. QED BY <1>2, <1>3 DEF AllGenuine

\* Every step keeps the origins.
LEMMA NextOrigins == TypeInv /\ Origins /\ [Next]_vars => Origins'
  <1> SUFFICES ASSUME TypeInv, Origins, [Next]_vars PROVE Origins'
    OBVIOUS
  <1>0. TypeInv'
    BY NextType
  <1>1. PICK o \in [Tid -> Origin] : AllGenuine(o)
    BY DEF Origins
  <1>2. ASSUME NEW r \in Rid, Arrive(r) PROVE Origins'
    BY <1>0, <1>2, ArriveGenuine
  <1>3. ASSUME NEW r \in Rid, Serve(r) PROVE Origins'
    BY <1>0, <1>1, <1>3, ServeGenuine DEF Origins
  <1>4. AllGenuine(o)' => Origins'
    BY DEF Origins
  <1>5. ASSUME NEW r \in Rid, RedisError(r) PROVE Origins'
    <2>1. Finish(r) /\ UNCHANGED <<tickets, deliveries, now, created>>
      BY <1>5 DEF RedisError, redis, bounds, history
    <2>2. /\ pc'[r] = "done"
          /\ \A q \in Rid \ {r} : pc'[q] = pc[q] /\ call'[q] = call[q] /\ copy'[q] = copy[q]
      BY <2>1, OthersKept DEF Finish
    <2>3. now <= now' /\ Kept(Tid, tickets, tickets') /\ Kept(Tid, deliveries, deliveries')
      BY <2>1 DEF Kept, TypeInv, BoundsOK
    <2>4. \A q \in Rid : \/ pc'[q] \notin Holding
                         \/ pc'[q] = pc[q] /\ call'[q] = call[q] /\ copy'[q] = copy[q]
      BY <2>2 DEF Holding
    <2>5. AllGenuine(o)'
      BY <1>0, <1>1, <2>1, <2>3, <2>4, FewerGenuine
    <2>6. QED BY <1>4, <2>5
  <1>6. CASE Tick
    <2>1. UNCHANGED <<pc, call, copy, created>> /\ now <= now'
      BY <1>6 DEF Tick, locals, history, TypeInv, BoundsOK
    <2>2. Kept(Tid, tickets, tickets') /\ Kept(Tid, deliveries, deliveries')
      BY <1>6, UnexpiredType DEF Tick, Kept, TypeInv, RedisOK, TicketsOK
    <2>3. AllGenuine(o)'
      BY <1>0, <1>1, <2>1, <2>2, FewerGenuine
    <2>4. QED BY <1>4, <2>3
  <1>7. CASE Restart
    <2>1. UNCHANGED <<now, created>> /\ now <= now'
      BY <1>7 DEF Restart, history, TypeInv, BoundsOK
    <2>2. Kept(Tid, tickets, tickets') /\ Kept(Tid, deliveries, deliveries')
      BY <1>7 DEF Restart, Kept
    <2>3. PICK dead \in SUBSET InFlight :
             /\ pc' = [q \in Rid |-> IF q \in dead THEN "done" ELSE pc[q]]
             /\ call' = [q \in Rid |-> IF q \in dead THEN Nil ELSE call[q]]
             /\ copy' = [q \in Rid |-> IF q \in dead THEN Nil ELSE copy[q]]
      BY <1>7 DEF Restart
    <2>4. \A q \in Rid : \/ pc'[q] \notin Holding
                         \/ pc'[q] = pc[q] /\ call'[q] = call[q] /\ copy'[q] = copy[q]
      <3>1. ASSUME NEW q \in Rid, q \in dead PROVE pc'[q] \notin Holding
        BY <2>3, <3>1 DEF Holding
      <3>2. ASSUME NEW q \in Rid, q \notin dead
            PROVE  pc'[q] = pc[q] /\ call'[q] = call[q] /\ copy'[q] = copy[q]
        BY <2>3, <3>2
      <3>3. QED BY <3>1, <3>2
    <2>5. AllGenuine(o)'
      BY <1>0, <1>1, <2>1, <2>2, <2>4, FewerGenuine
    <2>6. QED BY <1>4, <2>5
  <1>8. CASE UNCHANGED vars
    <2>1. UNCHANGED <<pc, call, copy, tickets, deliveries, now, created>>
      BY <1>8 DEF vars, locals, redis, bounds, history
    <2>2. AllGenuine(o)'
      BY <1>1, <2>1 DEF AllGenuine
    <2>3. QED BY <1>4, <2>2
  <1>9. QED BY <1>2, <1>3, <1>5, <1>6, <1>7, <1>8 DEF Next

\* The origins are invariant.
LEMMA OriginsInvariant == Spec => []Origins
  <1>1. Init => Origins
    <2> SUFFICES ASSUME Init PROVE Origins
      OBVIOUS
    <2> DEFINE o == [t \in Tid |-> <<Nil, 0>>]
    <2>1. o \in [Tid -> Origin]
      BY DEF Origin
    <2>2. AllGenuine(o)
      BY DEF Init, AllGenuine, FrameGenuine, TicketGenuine, DeliveryGenuine, Holding
    <2>3. QED BY <2>1, <2>2 DEF Origins
  <1>2. QED BY <1>1, NextOrigins, TypeInvariant, PTL DEF Spec

\* However stale the copy it is written from, a ticket is stored as EXPIRED
\* only once its time is over.
THEOREM QrExpiredIsPast == Spec => []ExpiredIsPast
  <1>1. Origins => ExpiredIsPast
    BY DEF Origins, AllGenuine, TicketGenuine, Genuine, ExpiredIsPast
  <1>2. QED BY <1>1, OriginsInvariant, PTL

\* A delivery code is made for the web session of its ticket, whatever was
\* written over the ticket since.
THEOREM QrSessionBound == Spec => []SessionBound
  <1>1. Origins => SessionBound
    BY DEF Origins, AllGenuine, TicketGenuine, DeliveryGenuine, Genuine, SessionBound
  <1>2. QED BY <1>1, OriginsInvariant, PTL

-----------------------------------------------------------------------------
(***************************************************************************)
(* One request at a time.  What the code gets wrong when requests overlap  *)
(* it gets right when they do not, whatever fails, runs out or restarts in *)
(* between.  The reason is the life of a ticket: what is stored of it fits *)
(* what has happened to it, and a request that holds a copy of it is about *)
(* to take it one step further.                                            *)
(***************************************************************************)
OneAtATime == MaxInFlight = 1

Serving(r) == pc[r] \notin {"idle", "done"}

Alone == \A q, r \in Rid : Serving(q) /\ Serving(r) => q = r

\* An action of ticket t has run.
Settled(t) == \E e \in executed : e.tid = t

NotAhead(s, tk) == s # Nil => s.version <= tk.version

Behind(s, tk) == s # Nil => s.version < tk.version

\* Object new may replace the stored object old.
Follows(old, new) ==
    /\ new.status # old.status => new.status \in Successors[old.status]
    /\ new.version >= old.version

\* Object tk of ticket t fits the actions, rejections and polls there were.
StoredLife(t, tk) ==
    /\ Settled(t) => tk.status \in {"APPROVED", "USED", "EXPIRED"}
    /\ t \in rejected => tk.status \in {"REJECTED", "EXPIRED"}
    /\ Settled(t) /\ tk.status = "APPROVED" =>
          \E e \in executed : e.tid = t /\ e.user = tk.approvedBy
    /\ NotAhead(seen[t], tk)
    /\ seen[t] # Nil /\ seen[t].version = tk.version /\ ~Expired(tk) =>
          seen[t].status = tk.status

TicketLife(t) ==
    /\ tickets[t] # Nil => StoredLife(t, tickets[t].val)
    /\ ~(Settled(t) /\ t \in rejected)
    /\ t \notin created =>
          tickets[t] = Nil /\ seen[t] = Nil /\ ~Settled(t) /\ t \notin rejected

\* The labels at which a request changes its ticket for good, and those before
\* a SETEX of it.
Working == {"putTicket", "runAction", "putRevert"}
Storing == {"putTicket", "putExpired", "putSnapshot", "putRevert"}

Target == [create |-> "PENDING", scan |-> "SCANNED", approve |-> "APPROVED",
           reject |-> "REJECTED", exchangeGrant |-> "USED",
           exchangeDelivery |-> "USED"]

\* What request r is about to make of its ticket.
FrameStatus(r) ==
    /\ pc[r] = "putTicket" => copy[r].status = Target[call[r].op]
    /\ pc[r] \in {"putExpired", "putSnapshot"} =>
          copy[r].status = "EXPIRED" /\ Expired(copy[r])
    /\ pc[r] = "putRevert" => copy[r].status = "PENDING"
    /\ pc[r] = "runAction" => copy[r].status = "APPROVED"
    /\ pc[r] \in {"putTicket", "runAction"} /\ call[r].op = "approve" =>
          copy[r].approvedBy = call[r].user

\* It may do so: nothing final has happened to the ticket yet.
FrameOpen(r) ==
    /\ Serving(r) /\ pc[r] # "getGrant" /\ call[r].op # "cleanGrant" =>
          call[r].tid \in created
    /\ pc[r] \in Working /\ call[r].op \notin Exchange =>
          ~Settled(call[r].tid) /\ call[r].tid \notin rejected
    /\ pc[r] = "publish" /\ call[r].op = "reject" =>
          /\ ~Settled(call[r].tid)
          /\ tickets[call[r].tid] # Nil =>
                tickets[call[r].tid].val.status \in {"REJECTED", "EXPIRED"}

\* Its copy comes from what is stored, unless the key is gone.
FrameFresh(r) ==
    /\ pc[r] = "putTicket" /\ call[r].op = "create" =>
          tickets[call[r].tid] = Nil /\ seen[call[r].tid] = Nil
    /\ pc[r] \in Storing /\ tickets[call[r].tid] # Nil =>
          Follows(tickets[call[r].tid].val, copy[r])
    /\ pc[r] = "runAction" /\ tickets[call[r].tid] # Nil =>
          tickets[call[r].tid].val = copy[r]
    /\ pc[r] \in Working => Behind(seen[call[r].tid], copy[r])
    /\ pc[r] \in {"putExpired", "putSnapshot"} => NotAhead(seen[call[r].tid], copy[r])

FrameLife(r) == FrameStatus(r) /\ FrameOpen(r) /\ FrameFresh(r)

Lives ==
    /\ Alone
    /\ \A t \in Tid : TicketLife(t)
    /\ \A r \in Rid : FrameLife(r)
    /\ ActionRunsOnce

\* The invariants of all instances that the life of a ticket rests on.
Basics == TypeInv /\ Backing /\ Once

\* The others stay where they are, and are not being served.
LEMMA LifeStep ==
  ASSUME TypeInv, TypeInv', Lives, NEW r \in Rid,
         \A q \in Rid : q # r => pc'[q] = pc[q] /\ pc[q] \in {"idle", "done"},
         \A t \in Tid : TicketLife(t)', FrameLife(r)', ActionRunsOnce'
  PROVE  Lives'
  <1>1. Alone'
    BY DEF Alone, Serving
  <1>2. ASSUME NEW q \in Rid PROVE FrameLife(q)'
    <2>1. CASE q = r
      BY <2>1
    <2>2. CASE q # r
      <3>1. pc'[q] \in {"idle", "done"}
        BY <2>2
      <3>2. QED
        BY <3>1 DEF FrameLife, FrameStatus, FrameOpen, FrameFresh, Serving, Working, Storing
    <2>3. QED BY <2>1, <2>2
  <1>3. QED BY <1>1, <1>2 DEF Lives

\* A request that is being served is the only one.
LEMMA OthersRest ==
  ASSUME Lives, NEW r \in Rid, Serving(r), NEW q \in Rid, q # r
  PROVE  pc[q] \in {"idle", "done"}
  BY DEF Lives, Alone, Serving

\* A ticket whose key is left alone or dropped, and of which nothing happens.
LEMMA TicketKept ==
  ASSUME TypeInv, TypeInv', NEW t \in Tid, TicketLife(t),
         tickets'[t] \in {tickets[t], Nil}, seen'[t] = seen[t], now' >= now,
         created \subseteq created', t \in rejected' <=> t \in rejected,
         executed \subseteq executed', Settled(t)' <=> Settled(t)
  PROVE  TicketLife(t)'
  <1>1. ASSUME tickets'[t] # Nil PROVE StoredLife(t, tickets[t].val)'
    <2>1. /\ tickets'[t] = tickets[t] /\ tickets[t].val \in Ticket
          /\ StoredLife(t, tickets[t].val)
      BY <1>1, StoredTicket DEF TicketLife
    <2>2. Expired(tickets[t].val) => Expired(tickets[t].val)'
      BY <2>1 DEF Expired, Ticket, TypeInv, BoundsOK
    <2>3. \A e \in executed : e \in executed'
      OBVIOUS
    <2>4. QED BY <2>1, <2>2, <2>3 DEF StoredLife, NotAhead
  <1>2. t \notin created' => t \notin created
    OBVIOUS
  <1>3. QED BY <1>1, <1>2 DEF TicketLife

\* The lives of tickets that a step leaves alone.
LEMMA TicketsKept ==
  ASSUME TypeInv, TypeInv', Lives, UNCHANGED <<seen, executed, rejected, now>>,
         created \subseteq created', NEW t \in Tid, tickets'[t] \in {tickets[t], Nil}
  PROVE  TicketLife(t)'
  <1>1. now \in Nat /\ TicketLife(t)
    BY DEF TypeInv, BoundsOK, Lives
  <1>2. QED BY <1>1, TicketKept DEF Settled

\* A request arrives only when none is being served.
LEMMA EnterRest ==
  ASSUME OneAtATime, TypeInv, NEW r, NEW c, NEW l, Enter(r, c, l), NEW q \in Rid
  PROVE  pc[q] \in {"idle", "done"}
  <1>1. IsFiniteSet(Rid) /\ InFlight \subseteq Rid
    BY FS_Interval, ConstantsAssumption DEF Rid, InFlight
  <1>2. IsFiniteSet(InFlight) /\ Cardinality(InFlight) \in Nat
    BY <1>1, FS_Subset, FS_CardinalityType
  <1>3. Cardinality(InFlight) = 0
    BY <1>2 DEF Enter, OneAtATime
  <1>4. InFlight = {}
    BY <1>2, <1>3, FS_EmptySet
  <1>5. QED BY <1>4 DEF InFlight

-----------------------------------------------------------------------------
(* The life of a ticket: one lemma per step.                               *)

\* A call on a ticket that is known, or the cleaning of a grant.
LEMMA RequestLife ==
  ASSUME OneAtATime, TypeInv, TypeInv', Lives, NEW r \in Rid, NEW c, NEW l, Request(r, c, l),
         l \in {"getTicket", "getGrant", "getDelivery", "snapshot", "cleanGet"},
         c.tid \in created \/ c.op = "cleanGrant"
  PROVE  Lives'
  <1>1. /\ pc'[r] = l /\ call'[r] = c
        /\ \A q \in Rid : q # r => pc'[q] = pc[q] /\ pc[q] \in {"idle", "done"}
    BY EnterRest DEF Request, Enter, Goto, TypeInv, LocalsOK
  <1>2. FrameLife(r)'
    BY <1>1 DEF FrameLife, FrameStatus, FrameOpen, FrameFresh, Working, Storing, Request, history
  <1>3. ASSUME NEW t \in Tid PROVE TicketLife(t)'
    BY TicketsKept DEF Request, history, redis
  <1>4. ActionRunsOnce'
    BY DEF Lives, Request, history, ActionRunsOnce
  <1>5. QED BY <1>1, <1>2, <1>3, <1>4, LifeStep

\* A new ticket has no life yet.
LEMMA CreateTicketLife ==
  ASSUME OneAtATime, TypeInv, TypeInv', Lives, NEW r \in Rid,
         NEW t \in Tid, NEW s \in Session \cup {Nil}, CreateTicket(r, t, s)
  PROVE  Lives'
  <1> DEFINE c == Frame("create", t, Nil, Nil, FALSE)
  <1>1. Enter(r, c, "putTicket") /\ c.op = "create" /\ c.tid = t
    BY DEF CreateTicket, Frame
  <1>2. /\ pc'[r] = "putTicket" /\ call'[r] = c
        /\ \A q \in Rid : q # r => pc'[q] = pc[q] /\ pc[q] \in {"idle", "done"}
    BY <1>1, EnterRest DEF Enter, Goto, TypeInv, LocalsOK
  <1>3. copy'[r].status = "PENDING" /\ copy'[r].approvedBy = Nil
    BY DEF CreateTicket, TypeInv, LocalsOK
  <1>4. /\ created' = created \cup {t} /\ t \notin created
        /\ UNCHANGED <<tickets, seen, executed, rejected, now>>
    BY DEF CreateTicket, redis
  <1>5. tickets[t] = Nil /\ seen[t] = Nil /\ ~Settled(t) /\ t \notin rejected
    BY <1>4 DEF Lives, TicketLife
  <1> HIDE DEF c
  <1>6. FrameStatus(r)'
    BY <1>1, <1>2, <1>3 DEF FrameStatus, Target
  <1>7. FrameOpen(r)'
    BY <1>1, <1>2, <1>4, <1>5 DEF FrameOpen, Settled
  <1>8. FrameFresh(r)'
    BY <1>1, <1>2, <1>4, <1>5 DEF FrameFresh, Behind
  <1>9. ASSUME NEW u \in Tid PROVE TicketLife(u)'
    BY <1>4, TicketsKept
  <1>10. ActionRunsOnce'
    BY <1>4 DEF Lives, ActionRunsOnce
  <1>11. QED BY <1>2, <1>6, <1>7, <1>8, <1>9, <1>10, LifeStep DEF FrameLife

\* Whatever arrives.
LEMMA ArriveLife ==
  ASSUME OneAtATime, TypeInv, TypeInv', Lives, NEW r \in Rid, Arrive(r)
  PROVE  Lives'
  <1>1. ASSUME NEW t \in Known, NEW o \in Op, NEW u, NEW g, NEW v, NEW l,
               Request(r, Frame(o, t, u, g, v), l),
               l \in {"getTicket", "getGrant", "getDelivery", "snapshot", "cleanGet"}
        PROVE Lives'
    <2> DEFINE c == Frame(o, t, u, g, v)
    <2>1. c.tid \in created
      BY DEF Frame, Known
    <2> HIDE DEF c
    <2>2. Request(r, c, l)
      BY <1>1 DEF c
    <2>3. QED BY <1>1, <2>1, <2>2, RequestLife
  <1>2. ASSUME NEW g \in Rid, CleanGrant(r, g) PROVE Lives'
    <2> DEFINE c == Frame("cleanGrant", Nil, Nil, g, FALSE)
    <2>1. c.op = "cleanGrant"
      BY DEF Frame
    <2>2. Request(r, c, "cleanGet")
      BY <1>2 DEF CleanGrant
    <2> HIDE DEF c
    <2>3. QED BY <2>1, <2>2, RequestLife
  <1>3. ASSUME NEW t \in Known, NEW u \in User,
               ScanTicket(r, t, u) \/ RejectTicket(r, t, u)
                  \/ \E v \in BOOLEAN : ApproveTicket(r, t, u, v)
        PROVE Lives'
    BY <1>1, <1>3 DEF ScanTicket, RejectTicket, ApproveTicket, Op
  <1>4. ASSUME NEW t \in Known, ViewTicket(r, t) \/ PollTicket(r, t) \/ CleanTicket(r, t)
        PROVE Lives'
    BY <1>1, <1>4 DEF ViewTicket, PollTicket, CleanTicket, Op
  <1>5. ASSUME NEW t \in Known, NEW g, ExchangeGrant(r, t, g) \/ ExchangeDelivery(r, t, g)
        PROVE Lives'
    BY <1>1, <1>5 DEF ExchangeGrant, ExchangeDelivery, Op
  <1>6. QED BY <1>2, <1>3, <1>4, <1>5, CreateTicketLife DEF Arrive

\* The step of request r leaves the other requests where they are.
Elsewhere(r) == \A q \in Rid : q # r => pc'[q] = pc[q]

\* Goto moves one request.
LEMMA GotoElsewhere ==
  ASSUME TypeInv, NEW r \in Rid, NEW l, Goto(r, l)
  PROVE  Elsewhere(r) /\ pc'[r] = l
  BY DEF Elsewhere, Goto, TypeInv, LocalsOK

\* A step of the request that is being served.
LEMMA ServedLife ==
  ASSUME TypeInv, TypeInv', Lives, NEW r \in Rid, Serving(r), Elsewhere(r),
         \A t \in Tid : TicketLife(t)', FrameLife(r)', ActionRunsOnce'
  PROVE  Lives'
  <1>1. \A q \in Rid : q # r => pc'[q] = pc[q] /\ pc[q] \in {"idle", "done"}
    BY OthersRest DEF Elsewhere
  <1>2. QED BY <1>1, LifeStep

\* Its frame is gone.
LEMMA FinishedFrame ==
  ASSUME TypeInv, NEW r \in Rid, Finish(r)
  PROVE  FrameLife(r)' /\ Elsewhere(r)
  <1>1. pc'[r] = "done" /\ Elsewhere(r)
    BY GotoElsewhere DEF Finish
  <1>2. QED
    BY <1>1 DEF FrameLife, FrameStatus, FrameOpen, FrameFresh, Serving, Working, Storing

\* It only moves on.
LEMMA LocalLife ==
  ASSUME TypeInv, TypeInv', Lives, NEW r \in Rid, Serving(r), Elsewhere(r), FrameLife(r)',
         \A t \in Tid : tickets'[t] \in {tickets[t], Nil},
         UNCHANGED <<seen, executed, rejected, created, now>>
  PROVE  Lives'
  <1>1. ASSUME NEW t \in Tid PROVE TicketLife(t)'
    BY TicketsKept
  <1>2. ActionRunsOnce'
    BY DEF Lives, ActionRunsOnce
  <1>3. QED BY <1>1, <1>2, ServedLife

\* What is known of the ticket of an exchange.
LEMMA ExchangeSettled ==
  ASSUME Basics, NEW r \in Rid, Serving(r), call[r].op \in Exchange,
         pc[r] \in {"getTicket", "putExpired", "putTicket", "publish"}
  PROVE  Settled(call[r].tid)
  <1>1. FrameBacked(verified, executed, r, pc[r], call[r], copy[r])
    BY DEF Basics, Backing, FramesBacked
  <1>2. QED
    BY <1>1 DEF FrameBacked, Accepted, Ran, Approval, Settled, Serving, Exchange

\* A status change follows what it was made of, and nobody has seen it.
LEMMA BumpFollows ==
  ASSUME NEW tk \in Ticket, NEW s \in Status, s = tk.status \/ s \in Successors[tk.status],
         NEW e \in [status: Status, version: Nat] \cup {Nil}, NotAhead(e, tk)
  PROVE  Follows(tk, Bump(tk, s)) /\ Behind(e, Bump(tk, s))
  <1>1. tk.version \in Nat /\ (e # Nil => e.version \in Nat)
    BY DEF Ticket
  <1>2. Bump(tk, s).status = s /\ Bump(tk, s).version = tk.version + 1
    BY DEF Bump
  <1>3. QED BY <1>1, <1>2 DEF Follows, Behind, NotAhead

\* A handler goes on with an object that fits what has happened, which is the
\* one that is stored then, if any is.
LEMMA ResumeLife ==
  ASSUME Basics, Lives, NEW r \in Rid, pc[r] \in {"getTicket", "putExpired"},
         NEW tk \in Ticket, StoredLife(call[r].tid, tk), Resume(r, tk),
         tickets'[call[r].tid] # Nil => tickets'[call[r].tid].val = tk,
         UNCHANGED <<seen, executed, rejected, created, now>>
  PROVE  FrameLife(r)' /\ Elsewhere(r)
  <1> DEFINE c == call[r]
             t == c.tid
  <1>1. Serving(r) /\ TypeInv
    BY DEF Serving, Basics
  <1>2. /\ c \in Call /\ c.op \in Changing \cup Exchange \cup {"view"} /\ t \in Tid
        /\ seen[t] \in [status: Status, version: Nat] \cup {Nil}
        /\ pc \in [Rid -> Pc] /\ copy \in [Rid -> Ticket \cup {Nil}]
        /\ call \in [Rid -> Call \cup {Nil}]
    BY <1>1, ServedCall DEF Serving, OpFits, LocalsFit, TypeInv, LocalsOK, SeenOK, Changing, Exchange
  <1>3. t \in created /\ TicketLife(t) /\ NotAhead(seen[t], tk)
    BY <1>1, <1>2 DEF Lives, FrameLife, FrameOpen, StoredLife, Changing, Exchange
  <1>4. ASSUME NEW s \in {"SCANNED", "REJECTED"}, NEW o \in Changing, c.op = o, Target[o] = s,
               o # "approve", OpenChecks(tk), s \in Successors[tk.status],
               Continue(r, Bump(tk, s), "putTicket")
        PROVE  FrameLife(r)' /\ Elsewhere(r)
    <2>1. /\ pc'[r] = "putTicket" /\ call' = call /\ copy'[r] = Bump(tk, s) /\ Elsewhere(r)
      BY <1>1, <1>2, <1>4, GotoElsewhere DEF Continue
    <2>2. Follows(tk, copy'[r]) /\ Behind(seen[t], copy'[r]) /\ copy'[r].status = s
      BY <1>2, <1>3, <1>4, <2>1, BumpFollows, BumpType DEF Status
    <2>3. ~Settled(t) /\ t \notin rejected
      BY <1>4 DEF StoredLife, OpenChecks
    <2>4. FrameStatus(r)'
      BY <1>4, <2>1, <2>2 DEF FrameStatus
    <2>5. FrameOpen(r)'
      BY <1>3, <2>1, <2>3 DEF FrameOpen, Settled
    <2>6. FrameFresh(r)'
      BY <1>4, <2>1, <2>2 DEF FrameFresh, Changing, Behind
    <2>7. QED BY <2>1, <2>4, <2>5, <2>6 DEF FrameLife
  <1>5. CASE c.op = "scan" /\ ScanChecks(tk) /\ Continue(r, Bump(tk, "SCANNED"), "putTicket")
    BY <1>4, <1>5 DEF Target, Changing, ScanChecks, OpenChecks, Successors
  <1>6. CASE c.op = "reject" /\ OpenChecks(tk) /\ Continue(r, Bump(tk, "REJECTED"), "putTicket")
    BY <1>4, <1>6 DEF Target, Changing, OpenChecks, Successors
  <1>7. CASE c.op = "approve" /\ ApproveChecks(c, tk)
             /\ Continue(r, [Bump(tk, "APPROVED") EXCEPT !.approvedBy = c.user], "putTicket")
    <2> DEFINE new == [Bump(tk, "APPROVED") EXCEPT !.approvedBy = c.user]
    <2>1. /\ new.status = "APPROVED" /\ new.approvedBy = c.user
          /\ new.version = Bump(tk, "APPROVED").version
      BY DEF Bump
    <2>2. /\ pc'[r] = "putTicket" /\ call' = call /\ copy'[r] = new /\ Elsewhere(r)
      BY <1>1, <1>2, <1>7, GotoElsewhere DEF Continue
    <2>3. "APPROVED" \in Successors[tk.status] /\ ~Settled(t) /\ t \notin rejected
      BY <1>7 DEF ApproveChecks, OpenChecks, Successors, StoredLife
    <2>4. Follows(tk, new) /\ Behind(seen[t], new)
      BY <1>2, <1>3, <2>1, <2>3, BumpFollows, BumpType DEF Status, Follows, Behind
    <2> HIDE DEF new
    <2>5. FrameStatus(r)'
      BY <1>7, <2>1, <2>2 DEF FrameStatus, Target
    <2>6. FrameOpen(r)'
      BY <1>3, <2>2, <2>3 DEF FrameOpen, Settled
    <2>7. FrameFresh(r)'
      BY <1>7, <2>2, <2>4 DEF FrameFresh, Behind
    <2>8. QED BY <2>2, <2>5, <2>6, <2>7 DEF FrameLife
  <1>8. ASSUME c.op \in Exchange, tk.status \in {"APPROVED", "USED", "EXPIRED"},
               pc'[r] = "putTicket", Elsewhere(r), copy'[r] = Bump(tk, "USED"),
               call'[r].op = c.op, call'[r].tid = t
        PROVE  FrameLife(r)'
    <2>1. Follows(tk, copy'[r]) /\ Behind(seen[t], copy'[r]) /\ copy'[r].status = "USED"
      BY <1>2, <1>3, <1>8, BumpFollows, BumpType DEF Status, Successors
    <2>2. FrameStatus(r)'
      BY <1>8, <2>1 DEF FrameStatus, Target, Exchange
    <2>3. FrameOpen(r)'
      BY <1>3, <1>8 DEF FrameOpen
    <2>4. FrameFresh(r)'
      BY <1>8, <2>1 DEF FrameFresh, Behind, Exchange
    <2>5. QED BY <2>2, <2>3, <2>4 DEF FrameLife
  <1>9. CASE c.op = "exchangeGrant" /\ Continue(r, Bump(tk, "USED"), "putTicket")
    <2>1. /\ pc'[r] = "putTicket" /\ call' = call /\ copy'[r] = Bump(tk, "USED") /\ Elsewhere(r)
      BY <1>1, <1>2, <1>9, GotoElsewhere DEF Continue
    <2>2. tk.status \in {"APPROVED", "USED", "EXPIRED"}
      BY <1>1, <1>9, ExchangeSettled DEF StoredLife, Exchange
    <2>3. QED BY <1>8, <1>9, <2>1, <2>2 DEF Exchange
  <1>10. CASE /\ c.op = "exchangeDelivery" /\ DeliveryChecks(tk)
              /\ copy' = [copy EXCEPT ![r] = Bump(tk, "USED")]
              /\ call' = [call EXCEPT ![r].user = tk.approvedBy]
              /\ Goto(r, "putTicket")
    <2>1. /\ pc'[r] = "putTicket" /\ copy'[r] = Bump(tk, "USED") /\ Elsewhere(r)
      BY <1>1, <1>2, <1>10, GotoElsewhere
    <2>2. call'[r].op = c.op /\ call'[r].tid = t
      BY <1>2, <1>10 DEF Call
    <2>3. QED BY <1>8, <1>10, <2>1, <2>2 DEF Exchange, DeliveryChecks
  <1>11. CASE Finish(r)
    BY <1>1, <1>11, FinishedFrame
  <1>12. QED BY <1>5, <1>6, <1>7, <1>9, <1>10, <1>11 DEF Resume

\* A request at a label that says nothing about the ticket.
Plain == {"getTicket", "putGrant", "putDelivery", "delGrant", "delDelivery",
          "tryGetDelivery", "cleanDel", "publish"}

\* There its frame needs no more than a known ticket.
LEMMA PlainFrame ==
  ASSUME NEW r \in Rid, pc'[r] \in Plain,
         pc'[r] = "publish" => call'[r].op # "reject",
         call'[r].op # "cleanGrant" => call'[r].tid \in created'
  PROVE  FrameLife(r)'
  BY DEF Plain, FrameLife, FrameStatus, FrameOpen, FrameFresh, Serving, Working, Storing

\* It goes there with its locals, whatever else of them changes.
LEMMA PlainGoto ==
  ASSUME TypeInv, Lives, NEW r \in Rid, Serving(r), pc[r] # "getGrant",
         NEW l \in Plain, Goto(r, l), l = "publish" => call[r].op # "reject",
         call'[r].op = call[r].op, call'[r].tid = call[r].tid, UNCHANGED created
  PROVE  FrameLife(r)' /\ Elsewhere(r)
  <1>1. pc'[r] = l /\ Elsewhere(r)
    BY GotoElsewhere
  <1>2. call[r].op # "cleanGrant" => call[r].tid \in created
    BY DEF Lives, FrameLife, FrameOpen
  <1>3. QED BY <1>1, <1>2, PlainFrame

\* The object that a request stores fits what has happened to its ticket.
LEMMA CopyFits ==
  ASSUME Basics, Lives, NEW r \in Rid, pc[r] \in Storing
  PROVE  /\ call[r] \in Call /\ call[r].tid \in Tid /\ copy[r] \in Ticket
         /\ StoredLife(call[r].tid, copy[r])
  <1> DEFINE t == call[r].tid
             tk == copy[r]
  <1>1. /\ TypeInv /\ Serving(r) /\ FrameLife(r)
        /\ call[r] \in Call /\ OpFits(pc[r], call[r]) /\ t \in Tid /\ tk \in Ticket
    BY HeldTicket DEF Basics, Serving, Storing, Lives
  <1>2. /\ TicketLife(t) /\ tk.version \in Nat
        /\ seen[t] # Nil => seen[t].version \in Nat
    BY <1>1 DEF Lives, TypeInv, SeenOK, Ticket
  <1>3. CASE pc[r] \in {"putExpired", "putSnapshot"}
    <2>1. tk.status = "EXPIRED" /\ Expired(tk) /\ NotAhead(seen[t], tk)
      BY <1>1, <1>3 DEF FrameLife, FrameStatus, FrameFresh
    <2>2. QED BY <1>1, <2>1 DEF StoredLife
  <1>4. ASSUME Behind(seen[t], tk)
        PROVE  /\ NotAhead(seen[t], tk)
               /\ seen[t] # Nil => seen[t].version # tk.version
    BY <1>2, <1>4 DEF Behind, NotAhead
  <1>5. CASE pc[r] \in {"putTicket", "putRevert"} /\ call[r].op \notin Exchange
    <2>1. ~Settled(t) /\ t \notin rejected /\ Behind(seen[t], tk)
      BY <1>1, <1>5 DEF FrameLife, FrameOpen, FrameFresh, Working
    <2>2. QED BY <1>1, <1>4, <2>1 DEF StoredLife
  <1>6. CASE pc[r] = "putTicket" /\ call[r].op \in Exchange
    <2>1. Settled(t) /\ t \notin rejected
      BY <1>1, <1>2, <1>6, ExchangeSettled DEF TicketLife
    <2>2. tk.status = "USED" /\ Behind(seen[t], tk)
      BY <1>1, <1>6 DEF FrameLife, FrameStatus, FrameFresh, Working, Target, Exchange
    <2>3. QED BY <1>1, <1>4, <2>1, <2>2 DEF StoredLife
  <1>7. pc[r] = "putRevert" => call[r].op \notin Exchange
    BY <1>1 DEF OpFits, Exchange
  <1>8. QED BY <1>3, <1>5, <1>6, <1>7 DEF Storing

\* It is what is stored then.
LEMMA WriteLife ==
  ASSUME Basics, Lives, TypeInv', NEW r \in Rid, pc[r] \in Storing, WriteTicket(r)
  PROVE  /\ tickets'[call[r].tid] # Nil /\ tickets'[call[r].tid].val = copy[r]
         /\ \A t \in Tid : t # call[r].tid => tickets'[t] = tickets[t]
         /\ UNCHANGED <<seen, executed, rejected, created, now>> =>
               \A t \in Tid : TicketLife(t)'
  <1> DEFINE u == call[r].tid
  <1>1. TypeInv /\ u \in Tid /\ StoredLife(u, copy[r]) /\ copy[r] \in Ticket
    BY CopyFits DEF Basics
  <1>2. SetEx(copy[r], TicketTtl) \in [val: Ticket, until: Nat]
    BY <1>1, ConstantsAssumption DEF SetEx, TypeInv, BoundsOK
  <1>3. /\ tickets'[u] = SetEx(copy[r], TicketTtl) /\ tickets'[u].val = copy[r]
        /\ tickets'[u] # Nil
        /\ \A t \in Tid : t # u => tickets'[t] = tickets[t]
    BY <1>1, <1>2, NilAssumption DEF WriteTicket, TypeInv, RedisOK, TicketsOK, SetEx
  <1>4. ASSUME UNCHANGED <<seen, executed, rejected, created, now>>, NEW t \in Tid
        PROVE  TicketLife(t)'
    <2>1. CASE t # u
      BY <1>1, <1>3, <1>4, <2>1, TicketsKept
    <2>2. CASE t = u
      <3>1. TicketLife(t) /\ Serving(r)
        BY <1>1 DEF Lives, Serving, Storing
      <3>2. call[r].op # "cleanGrant" /\ pc[r] # "getGrant"
        BY <1>1, <3>1, ServedCall DEF Serving, Storing, OpFits, Changing, Exchange
      <3>3. t \in created
        BY <2>2, <3>1, <3>2 DEF Lives, FrameLife, FrameOpen
      <3>4. StoredLife(t, copy[r]) /\ tickets'[t].val = copy[r]
        BY <1>1, <1>3, <2>2
      <3>5. StoredLife(t, tickets[t].val)'
        BY <1>4, <3>4 DEF StoredLife, Settled, NotAhead, Expired
      <3>6. QED BY <1>4, <3>1, <3>3, <3>5 DEF TicketLife, Settled
    <2>3. QED BY <2>1, <2>2
  <1>5. QED BY <1>3, <1>4

\* The object that an expired ticket becomes replaces the stored one.
LEMMA ExpireFollows ==
  ASSUME TypeInv, NEW t \in Tid, tickets[t] # Nil, NEW tk,
         tk.status = "EXPIRED", tk.version \in {tickets[t].val.version, tickets[t].val.version + 1}
  PROVE  Follows(tickets[t].val, tk)
  <1>1. tickets[t].val.status \in Status /\ tickets[t].val.version \in Nat
    BY StoredTicket DEF Ticket
  <1>2. QED BY <1>1 DEF Follows, Successors, Status

\* A GET of the ticket keeps the lives.
LEMMA GetTicketLife ==
  ASSUME Basics, TypeInv', Lives, NEW r \in Rid, GetTicket(r)
  PROVE  Lives'
  <1> DEFINE t == call[r].tid
             key == tickets[t]
  <1>1. TypeInv /\ Serving(r) /\ pc[r] = "getTicket"
    BY DEF GetTicket, Serving, Basics
  <1>2. t \in Tid /\ call[r].op # "cleanGrant" /\ FrameLife(r)
    BY <1>1, ServedCall DEF OpFits, LocalsFit, Changing, Exchange, Lives
  <1>3. t \in created /\ TicketLife(t)
    BY <1>1, <1>2 DEF FrameLife, FrameOpen, Lives
  <1>4. /\ UNCHANGED <<tickets, seen, executed, rejected, created, now>>
        /\ \/ Finish(r)
           \/ /\ Past(key)
              /\ Continue(r, [key.val EXCEPT !.status = "EXPIRED"], "putExpired")
           \/ Live(key) /\ Resume(r, key.val)
    BY DEF GetTicket, redis, bounds
  <1>5. CASE Finish(r)
    BY <1>1, <1>4, <1>5, FinishedFrame, LocalLife DEF Basics
  <1>6. CASE Past(key) /\ Continue(r, [key.val EXCEPT !.status = "EXPIRED"], "putExpired")
    <2> DEFINE new == [key.val EXCEPT !.status = "EXPIRED"]
    <2>1. key # Nil /\ Expired(key.val) /\ key.val \in Ticket /\ StoredLife(t, key.val)
      BY <1>1, <1>2, <1>3, <1>6, StoredTicket DEF Past, TicketLife
    <2>2. /\ new.status = "EXPIRED" /\ new.version = key.val.version
          /\ new.expiresAt = key.val.expiresAt
      BY <2>1 DEF Ticket
    <2>3. /\ pc'[r] = "putExpired" /\ call' = call /\ copy'[r] = new /\ Elsewhere(r)
      BY <1>1, <1>6, GotoElsewhere DEF Continue, TypeInv, LocalsOK
    <2>4. Follows(key.val, new) /\ Expired(new) /\ NotAhead(seen[t], new)
      BY <1>1, <1>2, <2>1, <2>2, ExpireFollows DEF Expired, StoredLife, NotAhead
    <2> HIDE DEF new
    <2>5. FrameStatus(r)'
      BY <1>4, <2>2, <2>3, <2>4 DEF FrameStatus, Expired
    <2>6. FrameOpen(r)'
      BY <1>3, <1>4, <2>3 DEF FrameOpen, Working
    <2>7. FrameFresh(r)'
      BY <1>4, <2>3, <2>4 DEF FrameFresh, Working, NotAhead
    <2>8. QED BY <1>1, <1>4, <2>3, <2>5, <2>6, <2>7, LocalLife DEF FrameLife
  <1>7. CASE Live(key) /\ Resume(r, key.val)
    <2>1. key.val \in Ticket /\ StoredLife(t, key.val)
      BY <1>1, <1>2, <1>3, <1>7, StoredTicket DEF Live, TicketLife
    <2>2. FrameLife(r)' /\ Elsewhere(r)
      BY <1>1, <1>4, <1>7, <2>1, ResumeLife
    <2>3. QED BY <1>1, <1>4, <2>2, LocalLife
  <1>8. QED BY <1>4, <1>5, <1>6, <1>7

\* An expired ticket is written back and the handler goes on with it.
LEMMA PutExpiredLife ==
  ASSUME Basics, TypeInv', Lives, NEW r \in Rid, PutExpired(r)
  PROVE  Lives'
  <1>1. /\ TypeInv /\ Serving(r) /\ pc[r] = "putExpired"
        /\ WriteTicket(r) /\ Resume(r, copy[r])
        /\ UNCHANGED <<seen, executed, rejected, created, now>>
    BY DEF PutExpired, Serving, Basics, bounds
  <1>2. pc[r] \in Storing /\ copy[r] \in Ticket /\ StoredLife(call[r].tid, copy[r])
    BY <1>1, CopyFits DEF Storing
  <1>3. tickets'[call[r].tid].val = copy[r] /\ \A t \in Tid : TicketLife(t)'
    BY <1>1, <1>2, WriteLife
  <1>4. FrameLife(r)' /\ Elsewhere(r)
    BY <1>1, <1>2, <1>3, ResumeLife
  <1>5. ActionRunsOnce'
    BY <1>1 DEF Lives, ActionRunsOnce
  <1>6. QED BY <1>1, <1>3, <1>4, <1>5, ServedLife

\* The SETEX of the operation itself.
LEMMA PutTicketLife ==
  ASSUME Basics, TypeInv', Lives, NEW r \in Rid, PutTicket(r)
  PROVE  Lives'
  <1> DEFINE c == call[r]
             t == c.tid
  <1>1. /\ TypeInv /\ Serving(r) /\ pc[r] = "putTicket" /\ WriteTicket(r)
        /\ UNCHANGED <<seen, executed, rejected, created, now>>
    BY DEF PutTicket, Serving, Basics, bounds, history
  <1>2. pc[r] \in Storing /\ FrameLife(r)
    BY <1>1 DEF Storing, Lives
  <1>3. tickets'[t].val = copy[r] /\ \A u \in Tid : TicketLife(u)'
    BY <1>1, <1>2, WriteLife
  <1>4. c.op \in Changing \cup Exchange \cup {"create"} /\ t \in created
    BY <1>1, <1>2, ServedCall DEF OpFits, Serving, Changing, Exchange, FrameLife, FrameOpen
  <1>5. ActionRunsOnce'
    BY <1>1 DEF Lives, ActionRunsOnce
  <1>6. CASE Finish(r)
    BY <1>1, <1>3, <1>5, <1>6, FinishedFrame, ServedLife
  <1>7. CASE c.op # "create" /\ Goto(r, AfterPut(c.op)) /\ UNCHANGED <<call, copy>>
    <2>1. pc'[r] = AfterPut(c.op) /\ Elsewhere(r)
      BY <1>1, <1>7, GotoElsewhere
    <2>2. CASE c.op = "approve"
      <3>1. pc'[r] = "runAction"
        BY <2>1, <2>2 DEF AfterPut
      <3>2. FrameStatus(r)'
        BY <1>1, <1>2, <1>7, <2>2, <3>1 DEF FrameLife, FrameStatus, Target
      <3>3. FrameOpen(r)'
        BY <1>1, <1>2, <1>4, <1>7, <2>2, <3>1
        DEF FrameLife, FrameOpen, Working, Exchange, Settled
      <3>4. FrameFresh(r)'
        BY <1>1, <1>2, <1>3, <1>7, <3>1 DEF FrameLife, FrameFresh, Working, Storing, Behind
      <3>5. QED BY <1>1, <1>3, <1>5, <2>1, <3>2, <3>3, <3>4, ServedLife DEF FrameLife
    <2>3. CASE c.op = "reject"
      <3>1. pc'[r] = "publish" /\ copy[r].status = "REJECTED"
        BY <1>1, <1>2, <2>1, <2>3 DEF AfterPut, FrameLife, FrameStatus, Target
      <3>2. FrameStatus(r)' /\ FrameFresh(r)'
        BY <3>1 DEF FrameStatus, FrameFresh, Working, Storing
      <3>3. FrameOpen(r)'
        BY <1>1, <1>2, <1>3, <1>4, <1>7, <2>3, <3>1
        DEF FrameLife, FrameOpen, Working, Exchange, Settled
      <3>4. QED BY <1>1, <1>3, <1>5, <2>1, <3>2, <3>3, ServedLife DEF FrameLife
    <2>4. CASE c.op \notin {"approve", "reject"}
      <3>1. AfterPut(c.op) \in Plain
        BY <1>4, <1>7, <2>4 DEF AfterPut, Plain
      <3>2. FrameLife(r)' /\ Elsewhere(r)
        BY <1>1, <1>7, <2>4, <3>1, PlainGoto
      <3>3. QED BY <1>1, <1>3, <1>5, <3>2, ServedLife
    <2>5. QED BY <2>2, <2>3, <2>4
  <1>8. QED BY <1>6, <1>7 DEF PutTicket

\* The action runs: it is the first of its ticket.
LEMMA RunActionLife ==
  ASSUME Basics, TypeInv', Lives, NEW r \in Rid, RunAction(r)
  PROVE  Lives'
  <1> DEFINE c == call[r]
             e == [by |-> r, tid |-> c.tid, user |-> c.user]
  <1>1. /\ TypeInv /\ Serving(r) /\ pc[r] = "runAction" /\ FrameLife(r)
        /\ executed' = executed \cup {e} /\ Goto(r, "putGrant")
        /\ call' = [call EXCEPT ![r].expiresAt = now + GrantTtl]
        /\ UNCHANGED <<tickets, seen, rejected, created, now>>
    BY DEF RunAction, Serving, Basics, Lives, redis, bounds
  <1>2. /\ c \in Call /\ c.op = "approve" /\ c.tid \in Tid
        /\ call'[r].op = c.op /\ call'[r].tid = c.tid
    BY <1>1, ServedCall DEF OpFits, LocalsFit, Call, TypeInv, LocalsOK
  <1>3. /\ ~Settled(c.tid) /\ c.tid \notin rejected /\ c.tid \in created
        /\ tickets[c.tid] # Nil => tickets[c.tid].val = copy[r]
        /\ copy[r].status = "APPROVED" /\ copy[r].approvedBy = c.user
        /\ Behind(seen[c.tid], copy[r])
    BY <1>1, <1>2 DEF FrameLife, FrameStatus, FrameOpen, FrameFresh, Working, Exchange
  <1>4. FrameLife(r)' /\ Elsewhere(r)
    BY <1>1, <1>2, PlainGoto DEF Plain
  <1>5. ASSUME NEW t \in Tid, t # c.tid PROVE TicketLife(t)'
    <2>1. Settled(t)' <=> Settled(t)
      BY <1>1, <1>5 DEF Settled
    <2>2. now \in Nat /\ TicketLife(t)
      BY <1>1 DEF TypeInv, BoundsOK, Lives
    <2>3. QED BY <1>1, <2>1, <2>2, TicketKept
  <1>6. ASSUME NEW t \in Tid, t = c.tid PROVE TicketLife(t)'
    <2>1. e \in executed' /\ e.tid = t /\ e.user = c.user
      BY <1>1, <1>6
    <2> HIDE DEF e
    <2>2. TicketLife(t) /\ t \notin rejected /\ t \in created
      BY <1>3, <1>6 DEF Lives
    <2>3. ASSUME tickets[t] # Nil PROVE StoredLife(t, tickets[t].val)'
      <3>1. StoredLife(t, tickets[t].val) /\ tickets[t].val = copy[r]
        BY <1>3, <1>6, <2>2, <2>3 DEF TicketLife
      <3>2. NotAhead(seen[t], tickets[t].val)'
        BY <1>1, <3>1 DEF StoredLife, NotAhead
      <3>3. (seen[t] # Nil /\ seen[t].version = tickets[t].val.version
                /\ ~Expired(tickets[t].val) => seen[t].status = tickets[t].val.status)'
        BY <1>1, <3>1 DEF StoredLife, Expired
      <3>4. QED BY <1>1, <1>3, <2>1, <2>2, <3>1, <3>2, <3>3 DEF StoredLife
    <2>4. QED BY <1>1, <2>2, <2>3 DEF TicketLife
  <1>7. ActionRunsOnce'
    <2>1. \A f \in executed : f.tid # c.tid
      BY <1>3 DEF Settled
    <2>2. \A f, g \in executed : f.tid = g.tid => f = g
      BY DEF Lives, ActionRunsOnce
    <2>3. e.tid = c.tid
      OBVIOUS
    <2> HIDE DEF e
    <2>4. ASSUME NEW f \in executed', NEW g \in executed', f.tid = g.tid PROVE f = g
      BY <1>1, <2>1, <2>2, <2>3, <2>4
    <2>5. QED BY <2>4 DEF ActionRunsOnce
  <1>8. QED BY <1>1, <1>4, <1>5, <1>6, <1>7, ServedLife

\* The action fails: the ticket is about to be PENDING again.
LEMMA FailActionLife ==
  ASSUME Basics, TypeInv', Lives, NEW r \in Rid, FailAction(r)
  PROVE  Lives'
  <1> DEFINE t == call[r].tid
             new == [copy[r] EXCEPT !.status = "PENDING"]
  <1>1. /\ TypeInv /\ Serving(r) /\ pc[r] = "runAction" /\ FrameLife(r)
        /\ Continue(r, new, "putRevert")
        /\ UNCHANGED <<tickets, seen, executed, rejected, created, now>>
    BY DEF FailAction, Serving, Basics, Lives, redis, bounds, history
  <1>2. call[r].op = "approve" /\ copy[r] \in Ticket
    BY <1>1, HeldTicket DEF OpFits
  <1>3. /\ ~Settled(t) /\ t \notin rejected /\ t \in created
        /\ tickets[t] # Nil => tickets[t].val = copy[r]
        /\ copy[r].status = "APPROVED" /\ Behind(seen[t], copy[r])
    BY <1>1, <1>2 DEF FrameLife, FrameStatus, FrameOpen, FrameFresh, Working, Exchange
  <1>4. /\ pc'[r] = "putRevert" /\ call' = call /\ copy'[r] = new /\ Elsewhere(r)
    BY <1>1, GotoElsewhere DEF Continue, TypeInv, LocalsOK
  <1>5. new.status = "PENDING" /\ new.version = copy[r].version /\ new.version \in Nat
    BY <1>2 DEF Ticket
  <1> HIDE DEF new
  <1>6. FrameStatus(r)' /\ FrameOpen(r)'
    BY <1>1, <1>3, <1>4, <1>5 DEF FrameStatus, FrameOpen, Settled
  <1>7. FrameFresh(r)'
    BY <1>1, <1>3, <1>4, <1>5 DEF FrameFresh, Follows, Successors, Behind
  <1>8. QED BY <1>1, <1>4, <1>6, <1>7, LocalLife DEF FrameLife

\* It is stored as PENDING.
LEMMA PutRevertLife ==
  ASSUME Basics, TypeInv', Lives, NEW r \in Rid, PutRevert(r)
  PROVE  Lives'
  <1>1. /\ TypeInv /\ Serving(r) /\ pc[r] \in Storing /\ WriteTicket(r) /\ Finish(r)
        /\ UNCHANGED <<seen, executed, rejected, created, now>>
    BY DEF PutRevert, Serving, Basics, Storing, bounds, history
  <1>2. \A t \in Tid : TicketLife(t)'
    BY <1>1, WriteLife
  <1>3. ActionRunsOnce'
    BY <1>1 DEF Lives, ActionRunsOnce
  <1>4. QED BY <1>1, <1>2, <1>3, FinishedFrame, ServedLife

\* The steps that write a grant or a code, or read or delete one.
LEMMA PutGrantLife ==
  ASSUME Basics, TypeInv', Lives, NEW r \in Rid, PutGrant(r)
  PROVE  Lives'
  <1>1. /\ TypeInv /\ Serving(r) /\ pc[r] # "getGrant"
        /\ call[r] \in Call /\ call[r].op = "approve" /\ call \in [Rid -> Call \cup {Nil}]
        /\ UNCHANGED <<tickets, seen, executed, rejected, created, now>>
    BY ServedCall DEF PutGrant, Serving, Basics, bounds, history, OpFits, TypeInv, LocalsOK
  <1>2. PICK l \in {"putDelivery", "publish"} :
           /\ Goto(r, l)
           /\ call' = [call EXCEPT ![r].expiresAt = now + GrantTtl] \/ UNCHANGED call
    BY DEF PutGrant
  <1>3. call'[r].op = call[r].op /\ call'[r].tid = call[r].tid
    BY <1>1, <1>2 DEF Call
  <1>4. FrameLife(r)' /\ Elsewhere(r)
    BY <1>1, <1>2, <1>3, PlainGoto DEF Plain
  <1>5. QED BY <1>1, <1>4, LocalLife

\* The delivery code is stored.
LEMMA PutDeliveryLife ==
  ASSUME Basics, TypeInv', Lives, NEW r \in Rid, PutDelivery(r)
  PROVE  Lives'
  <1>1. /\ TypeInv /\ Serving(r) /\ pc[r] # "getGrant" /\ call[r].op = "approve"
        /\ Goto(r, "publish")
        /\ UNCHANGED <<tickets, call, seen, executed, rejected, created, now>>
    BY ServedCall DEF PutDelivery, Serving, Basics, bounds, history, OpFits
  <1>2. FrameLife(r)' /\ Elsewhere(r)
    BY <1>1, PlainGoto DEF Plain
  <1>3. QED BY <1>1, <1>2, LocalLife

\* An exchange finds the ticket of its grant, which an action was run for.
LEMMA GetGrantLife ==
  ASSUME Basics, TypeInv', Lives, NEW r \in Rid, GetGrant(r)
  PROVE  Lives'
  <1> DEFINE c == call[r]
             key == grants[c.code]
             d == OfGrant(c, key.val)
  <1>1. /\ TypeInv /\ Serving(r) /\ c \in Call /\ c.code \in Rid
        /\ UNCHANGED <<tickets, seen, executed, rejected, created, now>>
    BY ServedCall
    DEF GetGrant, Serving, Basics, redis, bounds, history, OpFits, LocalsFit, Exchange
  <1>2. CASE Finish(r)
    BY <1>1, <1>2, FinishedFrame, LocalLife
  <1>3. CASE Live(key) /\ call' = [call EXCEPT ![r] = OfGrant(@, key.val)] /\ Goto(r, "getTicket")
    <2>1. key.val \in Grant /\ Approval(c.code, key.val.tid, key.val.user) \in executed
      BY <1>1, <1>3, StoredGrant DEF Live, Basics, Backing, RedisBacked
    <2>2. key.val.tid \in Tid /\ Settled(key.val.tid)
      BY <2>1 DEF Grant, Approval, Settled
    <2>3. d.op = "exchangeGrant" /\ d.tid = key.val.tid
      BY <1>1, <2>1, OfGrantType
    <2>4. call'[r] = d
      BY <1>1, <1>3 DEF TypeInv, LocalsOK
    <2> HIDE DEF d
    <2>5. d.tid \in created'
      BY <1>1, <2>2, <2>3 DEF Lives, TicketLife
    <2>6. pc'[r] = "getTicket" /\ Elsewhere(r)
      BY <1>1, <1>3, GotoElsewhere
    <2>7. FrameLife(r)'
      BY <2>3, <2>4, <2>5, <2>6, PlainFrame DEF Plain
    <2>8. QED BY <1>1, <2>6, <2>7, LocalLife
  <1>4. QED BY <1>2, <1>3 DEF GetGrant

\* The grant is deleted.
LEMMA DelGrantLife ==
  ASSUME Basics, TypeInv', Lives, NEW r \in Rid, DelGrant(r)
  PROVE  Lives'
  <1>1. /\ TypeInv /\ Serving(r) /\ pc[r] # "getGrant" /\ call[r].op = "exchangeGrant"
        /\ Goto(r, "publish")
        /\ UNCHANGED <<tickets, call, seen, executed, rejected, created, now>>
    BY ServedCall DEF DelGrant, Serving, Basics, bounds, history, OpFits
  <1>2. FrameLife(r)' /\ Elsewhere(r)
    BY <1>1, PlainGoto DEF Plain
  <1>3. QED BY <1>1, <1>2, LocalLife

\* An exchange compares its delivery code.
LEMMA GetDeliveryLife ==
  ASSUME Basics, TypeInv', Lives, NEW r \in Rid, GetDelivery(r)
  PROVE  Lives'
  <1>1. /\ TypeInv /\ Serving(r) /\ pc[r] # "getGrant"
        /\ call[r] \in Call /\ call \in [Rid -> Call \cup {Nil}]
        /\ UNCHANGED <<tickets, seen, executed, rejected, created, now>>
    BY ServedCall DEF GetDelivery, Serving, Basics, redis, bounds, history, TypeInv, LocalsOK
  <1>2. CASE Finish(r)
    BY <1>1, <1>2, FinishedFrame, LocalLife
  <1>3. CASE /\ call' = [call EXCEPT ![r].valid = Matches(call[r], deliveries[call[r].tid])]
             /\ Goto(r, "delDelivery")
    <2>1. call'[r].op = call[r].op /\ call'[r].tid = call[r].tid
      BY <1>1, <1>3 DEF Call
    <2>2. FrameLife(r)' /\ Elsewhere(r)
      BY <1>1, <1>3, <2>1, PlainGoto DEF Plain
    <2>3. QED BY <1>1, <2>2, LocalLife
  <1>4. QED BY <1>2, <1>3 DEF GetDelivery

\* A request that only moves on to a label that says nothing, or answers.
LEMMA MoveLife ==
  ASSUME Basics, TypeInv', Lives, NEW r \in Rid, Serving(r), pc[r] # "getGrant",
         NEW l \in Plain \ {"publish"}, Finish(r) \/ (Goto(r, l) /\ UNCHANGED call),
         \A t \in Tid : tickets'[t] \in {tickets[t], Nil},
         UNCHANGED <<seen, executed, rejected, created, now>>
  PROVE  Lives'
  <1>1. CASE Finish(r)
    BY <1>1, FinishedFrame, LocalLife DEF Basics
  <1>2. CASE Goto(r, l) /\ UNCHANGED call
    BY <1>2, PlainGoto, LocalLife DEF Basics
  <1>3. QED BY <1>1, <1>2

\* The delivery code is deleted.
LEMMA DelDeliveryLife ==
  ASSUME Basics, TypeInv', Lives, NEW r \in Rid, DelDelivery(r)
  PROVE  Lives'
  <1>1. /\ Serving(r) /\ pc[r] # "getGrant"
        /\ Finish(r) \/ (Goto(r, "getTicket") /\ UNCHANGED call)
        /\ UNCHANGED <<tickets, seen, executed, rejected, created, now>>
    BY DEF DelDelivery, Serving, bounds, history
  <1>2. "getTicket" \in Plain \ {"publish"}
    BY DEF Plain
  <1>3. QED BY <1>1, <1>2, MoveLife

\* A poll looks for the delivery code.
LEMMA TryGetDeliveryLife ==
  ASSUME Basics, TypeInv', Lives, NEW r \in Rid, TryGetDelivery(r)
  PROVE  Lives'
  <1>1. /\ Serving(r) /\ pc[r] # "getGrant"
        /\ Finish(r) \/ (Goto(r, "delDelivery") /\ UNCHANGED call)
        /\ UNCHANGED <<tickets, seen, executed, rejected, created, now>>
    BY DEF TryGetDelivery, Serving, redis, bounds, history
  <1>2. "delDelivery" \in Plain \ {"publish"}
    BY DEF Plain
  <1>3. QED BY <1>1, <1>2, MoveLife

\* The cleanup looks at a key.
LEMMA CleanGetLife ==
  ASSUME Basics, TypeInv', Lives, NEW r \in Rid, CleanGet(r)
  PROVE  Lives'
  <1>1. /\ Serving(r) /\ pc[r] # "getGrant"
        /\ Finish(r) \/ (Goto(r, "cleanDel") /\ UNCHANGED call)
        /\ UNCHANGED <<tickets, seen, executed, rejected, created, now>>
    BY DEF CleanGet, Serving, redis, bounds, history
  <1>2. "cleanDel" \in Plain \ {"publish"}
    BY DEF Plain
  <1>3. QED BY <1>1, <1>2, MoveLife

\* The cleanup deletes a key.
LEMMA CleanDelLife ==
  ASSUME Basics, TypeInv', Lives, NEW r \in Rid, CleanDel(r)
  PROVE  Lives'
  <1>1. \A t \in Tid : tickets'[t] \in {tickets[t], Nil}
    BY DEF CleanDel, Basics, TypeInv, RedisOK, TicketsOK
  <1>2. /\ Serving(r) /\ Finish(r) /\ TypeInv
        /\ UNCHANGED <<seen, executed, rejected, created, now>>
    BY DEF CleanDel, Serving, bounds, history, Basics
  <1>3. QED BY <1>1, <1>2, FinishedFrame, LocalLife

\* A request ends with an error.
LEMMA RedisErrorLife ==
  ASSUME Basics, TypeInv', Lives, NEW r \in Rid, RedisError(r)
  PROVE  Lives'
  <1>1. /\ TypeInv /\ Serving(r) /\ Finish(r)
        /\ UNCHANGED <<tickets, seen, executed, rejected, created, now>>
    BY DEF RedisError, Serving, Basics, redis, bounds, history
  <1>2. QED BY <1>1, FinishedFrame, LocalLife

\* What a rejection leaves behind.
LEMMA PublishLife ==
  ASSUME Basics, TypeInv', Lives, NEW r \in Rid, Publish(r)
  PROVE  Lives'
  <1> DEFINE c == call[r]
  <1>1. /\ TypeInv /\ Serving(r) /\ pc[r] = "publish" /\ Finish(r) /\ FrameLife(r)
        /\ rejected' = rejected \cup {t \in {c.tid} : c.op = "reject"}
        /\ UNCHANGED <<tickets, seen, executed, created, now>>
    BY DEF Publish, Serving, Basics, Lives, redis, bounds
  <1>2. ASSUME NEW t \in Tid, ~(t = c.tid /\ c.op = "reject") PROVE TicketLife(t)'
    <2>1. t \in rejected' <=> t \in rejected
      BY <1>1, <1>2
    <2>2. now \in Nat /\ TicketLife(t)
      BY <1>1 DEF TypeInv, BoundsOK, Lives
    <2>3. QED BY <1>1, <2>1, <2>2, TicketKept DEF Settled
  <1>3. ASSUME NEW t \in Tid, t = c.tid, c.op = "reject" PROVE TicketLife(t)'
    <2>1. /\ TicketLife(t) /\ t \in created /\ ~Settled(t)
          /\ tickets[t] # Nil => tickets[t].val.status \in {"REJECTED", "EXPIRED"}
      BY <1>1, <1>3 DEF Lives, FrameLife, FrameOpen
    <2>2. ASSUME tickets[t] # Nil PROVE StoredLife(t, tickets[t].val)'
      <3>1. StoredLife(t, tickets[t].val)
        BY <2>1, <2>2 DEF TicketLife
      <3>2. NotAhead(seen[t], tickets[t].val)'
        BY <1>1, <3>1 DEF StoredLife, NotAhead
      <3>3. (seen[t] # Nil /\ seen[t].version = tickets[t].val.version
                /\ ~Expired(tickets[t].val) => seen[t].status = tickets[t].val.status)'
        BY <1>1, <3>1 DEF StoredLife, Expired
      <3>4. ~Settled(t)'
        BY <1>1, <2>1 DEF Settled
      <3>5. QED BY <1>1, <2>1, <2>2, <3>2, <3>3, <3>4 DEF StoredLife
    <2>3. QED BY <1>1, <2>1, <2>2 DEF TicketLife, Settled
  <1>4. ActionRunsOnce'
    BY <1>1 DEF Lives, ActionRunsOnce
  <1>5. QED BY <1>1, <1>2, <1>3, <1>4, FinishedFrame, ServedLife

\* A poll answers with the object that is stored.
LEMMA AnswerLife ==
  ASSUME Basics, TypeInv', Lives, NEW r \in Rid, pc[r] \in {"snapshot", "putSnapshot"},
         NEW tk \in Ticket, NEW t \in Tid, t = call[r].tid, AnswerPoll(r, t, tk),
         StoredLife(t, tk), tickets'[t] # Nil => tickets'[t].val = tk,
         \A u \in Tid : u # t => tickets'[u] = tickets[u],
         UNCHANGED <<executed, rejected, created, now>>
  PROVE  Lives'
  <1>1. TypeInv /\ Serving(r) /\ TicketLife(t) /\ tk.version \in Nat
    BY DEF Basics, Serving, Lives, Ticket
  <1>2. call[r].op = "poll" /\ t \in created
    BY <1>1, ServedCall DEF OpFits, Serving, Lives, FrameLife, FrameOpen
  <1>3. \/ Finish(r)
        \/ Goto(r, "tryGetDelivery") /\ UNCHANGED call
    BY DEF AnswerPoll, Continue
  <1>4. FrameLife(r)' /\ Elsewhere(r)
    <2>1. CASE Finish(r)
      BY <1>1, <2>1, FinishedFrame
    <2>2. CASE Goto(r, "tryGetDelivery") /\ UNCHANGED call
      BY <1>1, <2>2, PlainGoto DEF Plain
    <2>3. QED BY <1>3, <2>1, <2>2
  <1>5. /\ \A u \in Tid : u # t => seen'[u] = seen[u]
        /\ seen'[t] = seen[t] \/ seen'[t] = Etag(tk)
    BY <1>1 DEF AnswerPoll, TypeInv, SeenOK
  <1>6. ASSUME NEW u \in Tid, u # t PROVE TicketLife(u)'
    <2>1. now \in Nat /\ TicketLife(u)
      BY <1>1 DEF TypeInv, BoundsOK, Lives
    <2>2. QED BY <1>1, <1>5, <1>6, <2>1, TicketKept DEF Settled
  <1>7. TicketLife(t)'
    <2>1. NotAhead(seen[t], tk)'
      BY <1>1, <1>5 DEF StoredLife, NotAhead, Etag
    <2>2. (seen[t] # Nil /\ seen[t].version = tk.version /\ ~Expired(tk) =>
               seen[t].status = tk.status)'
      BY <1>5 DEF StoredLife, Etag, Expired
    <2>3. StoredLife(t, tk)'
      BY <2>1, <2>2 DEF StoredLife, Settled
    <2>4. tickets'[t] # Nil => StoredLife(t, tickets[t].val)'
      BY <2>3 DEF StoredLife
    <2>5. QED BY <1>1, <1>2, <2>4 DEF TicketLife, Settled
  <1>8. ActionRunsOnce'
    BY DEF Lives, ActionRunsOnce
  <1>9. QED BY <1>1, <1>4, <1>6, <1>7, <1>8, ServedLife

\* A poll reads the ticket.
LEMMA SnapshotLife ==
  ASSUME Basics, TypeInv', Lives, NEW r \in Rid, Snapshot(r)
  PROVE  Lives'
  <1> DEFINE t == call[r].tid
             key == tickets[t]
  <1>1. /\ TypeInv /\ Serving(r) /\ pc[r] = "snapshot"
        /\ UNCHANGED <<tickets, executed, rejected, created, now>>
    BY DEF Snapshot, Serving, Basics, redis, bounds, history
  <1>2. t \in Tid /\ call[r].op = "poll" /\ FrameLife(r)
    BY <1>1, ServedCall DEF OpFits, LocalsFit, Lives
  <1>3. t \in created /\ TicketLife(t)
    BY <1>1, <1>2 DEF FrameLife, FrameOpen, Lives
  <1>4. CASE Finish(r) /\ UNCHANGED seen
    BY <1>1, <1>4, FinishedFrame, LocalLife
  <1>5. CASE Past(key) /\ Continue(r, Bump(key.val, "EXPIRED"), "putSnapshot") /\ UNCHANGED seen
    <2> DEFINE new == Bump(key.val, "EXPIRED")
    <2>1. key # Nil /\ Expired(key.val) /\ key.val \in Ticket /\ StoredLife(t, key.val)
      BY <1>1, <1>2, <1>3, <1>5, StoredTicket DEF Past, TicketLife
    <2>2. /\ new.status = "EXPIRED" /\ new.version = key.val.version + 1
          /\ new.expiresAt = key.val.expiresAt
      BY DEF Bump
    <2>3. /\ pc'[r] = "putSnapshot" /\ call' = call /\ copy'[r] = new /\ Elsewhere(r)
      BY <1>1, <1>5, GotoElsewhere DEF Continue, TypeInv, LocalsOK
    <2>4. Follows(key.val, new) /\ Expired(new)
      BY <1>1, <1>2, <2>1, <2>2, ExpireFollows DEF Expired
    <2>5. NotAhead(seen[t], new)
      <3>1. NotAhead(seen[t], key.val) /\ key.val.version \in Nat
        BY <2>1 DEF StoredLife, Ticket
      <3>2. seen[t] # Nil => seen[t].version \in Nat
        BY <1>1, <1>2 DEF TypeInv, SeenOK
      <3>3. QED BY <2>2, <3>1, <3>2 DEF NotAhead
    <2> HIDE DEF new
    <2>6. FrameStatus(r)'
      BY <1>1, <2>2, <2>3, <2>4 DEF FrameStatus, Expired
    <2>7. FrameOpen(r)'
      BY <1>1, <1>3, <2>3 DEF FrameOpen, Working
    <2>8. FrameFresh(r)'
      BY <1>1, <1>5, <2>3, <2>4, <2>5 DEF FrameFresh, Working, NotAhead
    <2>9. QED BY <1>1, <1>5, <2>3, <2>6, <2>7, <2>8, LocalLife DEF FrameLife
  <1>6. CASE Live(key) /\ AnswerPoll(r, t, key.val)
    <2>1. key.val \in Ticket /\ StoredLife(t, key.val)
      BY <1>1, <1>2, <1>3, <1>6, StoredTicket DEF Live, TicketLife
    <2>2. QED BY <1>1, <1>2, <1>6, <2>1, AnswerLife
  <1>7. QED BY <1>4, <1>5, <1>6 DEF Snapshot

\* A poll writes the expired ticket back and answers with it.
LEMMA PutSnapshotLife ==
  ASSUME Basics, TypeInv', Lives, NEW r \in Rid, PutSnapshot(r)
  PROVE  Lives'
  <1>1. /\ TypeInv /\ pc[r] = "putSnapshot" /\ pc[r] \in Storing
        /\ WriteTicket(r) /\ AnswerPoll(r, call[r].tid, copy[r])
        /\ UNCHANGED <<executed, rejected, created, now>>
    BY DEF PutSnapshot, Basics, Storing, bounds, history
  <1>2. /\ call[r].tid \in Tid /\ copy[r] \in Ticket /\ StoredLife(call[r].tid, copy[r])
        /\ tickets'[call[r].tid].val = copy[r]
        /\ \A u \in Tid : u # call[r].tid => tickets'[u] = tickets[u]
    BY <1>1, CopyFits, WriteLife
  <1>3. QED BY <1>1, <1>2, AnswerLife

\* Time passes: what has expired stays expired.
LEMMA TickLife ==
  ASSUME Basics, TypeInv', Lives, Tick
  PROVE  Lives'
  <1>1. /\ TypeInv /\ now \in Nat /\ now' = now + 1
        /\ UNCHANGED <<pc, call, copy, seen, executed, rejected, created>>
    BY DEF Tick, Basics, TypeInv, BoundsOK, locals, history
  <1>2. \A t \in Tid : tickets'[t] \in {tickets[t], Nil}
    BY <1>1 DEF Tick, Unexpired, TypeInv, RedisOK, TicketsOK
  <1>3. ASSUME NEW t \in Tid PROVE TicketLife(t)'
    <2>1. TicketLife(t)
      BY DEF Lives
    <2>2. QED BY <1>1, <1>2, <2>1, TicketKept DEF Settled
  <1>4. ASSUME NEW r \in Rid PROVE FrameLife(r)'
    <2>1. FrameLife(r)
      BY DEF Lives
    <2>2. CASE ~Serving(r)
      BY <1>1, <2>2 DEF FrameLife, FrameStatus, FrameOpen, FrameFresh, Serving, Working, Storing
    <2>3. CASE Serving(r)
      <3>1. call[r].tid \in Tid => tickets'[call[r].tid] \in {tickets[call[r].tid], Nil}
        BY <1>2
      <3>2. FrameStatus(r)'
        <4>1. pc[r] \in {"putExpired", "putSnapshot"} => copy[r].expiresAt \in Nat
          BY <1>1, HeldTicket DEF Ticket
        <4>2. QED BY <1>1, <2>1, <4>1 DEF FrameLife, FrameStatus, Expired
      <3>3. call[r].op # "cleanGrant" /\ pc[r] # "getGrant" => call[r].tid \in Tid
        BY <1>1, <2>3, ServedCall DEF LocalsFit, Serving
      <3>4. pc[r] \in Storing \cup {"runAction", "publish"} =>
               call[r].op # "cleanGrant" /\ pc[r] # "getGrant"
        BY <1>1, <2>3, ServedCall DEF OpFits, Serving, Storing, Changing, Exchange
      <3>5. FrameOpen(r)'
        BY <1>1, <2>1, <3>1, <3>3, <3>4 DEF FrameLife, FrameOpen, Serving, Settled
      <3>6. FrameFresh(r)'
        BY <1>1, <2>1, <3>1, <3>3, <3>4
        DEF FrameLife, FrameFresh, Storing, Working, Behind, NotAhead
      <3>7. QED BY <3>2, <3>5, <3>6 DEF FrameLife
    <2>4. QED BY <2>2, <2>3
  <1>5. QED BY <1>1, <1>3, <1>4 DEF Lives, Alone, Serving, ActionRunsOnce

\* A restart: the keys are gone, and some frames.
LEMMA RestartLife ==
  ASSUME Basics, TypeInv', Lives, Restart
  PROVE  Lives'
  <1>1. /\ TypeInv /\ now \in Nat /\ \A t \in Tid : tickets'[t] = Nil
        /\ UNCHANGED <<seen, executed, rejected, created, now>>
    BY DEF Restart, Basics, TypeInv, BoundsOK, history
  <1>2. \A r \in Rid : \/ pc'[r] = "done"
                       \/ pc'[r] = pc[r] /\ call'[r] = call[r] /\ copy'[r] = copy[r]
    BY DEF Restart
  <1>3. ASSUME NEW t \in Tid PROVE TicketLife(t)'
    BY <1>1, <1>3, TicketsKept
  <1>4. ASSUME NEW r \in Rid PROVE FrameLife(r)'
    <2>1. FrameLife(r)
      BY DEF Lives
    <2>2. CASE pc'[r] \in {"idle", "done"}
      BY <2>2 DEF FrameLife, FrameStatus, FrameOpen, FrameFresh, Serving, Working, Storing
    <2>3. CASE Serving(r) /\ pc'[r] = pc[r] /\ call'[r] = call[r] /\ copy'[r] = copy[r]
      <3>1. FrameStatus(r)'
        BY <1>1, <2>1, <2>3 DEF FrameLife, FrameStatus, Expired
      <3>2. call[r].op # "cleanGrant" /\ pc[r] # "getGrant" => call[r].tid \in Tid
        BY <1>1, <2>3, ServedCall DEF LocalsFit, Serving
      <3>3. pc[r] \in Storing \cup {"runAction", "publish"} =>
               call[r].op # "cleanGrant" /\ pc[r] # "getGrant"
        BY <1>1, <2>3, ServedCall DEF OpFits, Serving, Storing, Changing, Exchange
      <3>4. FrameOpen(r)'
        BY <1>1, <2>1, <2>3, <3>2, <3>3 DEF FrameLife, FrameOpen, Serving, Settled
      <3>5. FrameFresh(r)'
        BY <1>1, <2>1, <2>3, <3>2, <3>3
        DEF FrameLife, FrameFresh, Storing, Working, Behind, NotAhead
      <3>6. QED BY <3>1, <3>4, <3>5 DEF FrameLife
    <2>4. QED BY <1>2, <2>2, <2>3 DEF Serving
  <1>5. QED BY <1>1, <1>2, <1>3, <1>4 DEF Lives, Alone, Serving, ActionRunsOnce

\* The life of the tickets goes on.
LEMMA NextLife ==
  ASSUME OneAtATime, Basics, TypeInv', Lives, [Next]_vars
  PROVE  Lives'
  <1>1. CASE Next
    <2>1. ASSUME NEW r \in Rid, Arrive(r) PROVE Lives'
      BY <2>1, ArriveLife DEF Basics
    <2>2. ASSUME NEW r \in Rid, Serve(r) PROVE Lives'
      BY <2>2, GetTicketLife, PutExpiredLife, PutTicketLife, RunActionLife, FailActionLife,
         PutRevertLife, PutGrantLife, PutDeliveryLife, GetGrantLife, DelGrantLife,
         GetDeliveryLife, DelDeliveryLife, PublishLife, SnapshotLife, PutSnapshotLife,
         TryGetDeliveryLife, CleanGetLife, CleanDelLife DEF Serve
    <2>3. QED BY <1>1, <2>1, <2>2, RedisErrorLife, TickLife, RestartLife DEF Next
  <1>2. CASE UNCHANGED vars
    <2>1. UNCHANGED <<tickets, pc, call, copy, seen, executed, rejected, created, now>>
      BY <1>2 DEF vars, redis, locals, history, bounds
    <2>2. ASSUME NEW t \in Tid PROVE TicketLife(t)'
      BY <2>1, TicketsKept DEF Basics
    <2>3. ASSUME NEW r \in Rid PROVE FrameLife(r)'
      BY <2>1 DEF Lives, FrameLife, FrameStatus, FrameOpen, FrameFresh, Serving, Settled, Expired
    <2>4. QED BY <2>1, <2>2, <2>3 DEF Lives, Alone, Serving, ActionRunsOnce
  <1>3. QED BY <1>1, <1>2

\* At the start no ticket has a life.
LEMMA InitLife == Init => Lives
  BY DEF Init, Lives, Alone, TicketLife, FrameLife, FrameStatus, FrameOpen, FrameFresh,
     Serving, Working, Storing, Settled, ActionRunsOnce

\* The invariants of all instances together.
LEMMA BasicsInvariant == Spec => []Basics
  <1>1. Init => Once
    BY DEF Init, Once
  <1>2. TypeInv /\ Backing /\ Once /\ [Next]_vars => Once'
    BY NextLedger
  <1>3. QED BY <1>1, <1>2, TypeInvariant, BackingInvariant, PTL DEF Spec, Basics

\* When requests do not overlap, every ticket has its life, in every reachable
\* state.
LEMMA LivesInvariant ==
  ASSUME OneAtATime
  PROVE  Spec => []Lives
  <1>1. Basics => TypeInv
    BY DEF Basics
  <1>2. Basics /\ TypeInv' /\ Lives /\ [Next]_vars => Lives'
    BY NextLife
  <1>3. QED BY <1>1, <1>2, InitLife, BasicsInvariant, TypeInvariant, PTL DEF Spec

\* approveTicket runs the action of a ticket at most once, whatever was retried
\* after an action that failed, as long as requests do not overlap.
THEOREM QrActionRunsOnce ==
  ASSUME OneAtATime
  PROVE  Spec => []ActionRunsOnce
  <1>1. Lives => ActionRunsOnce
    BY DEF Lives
  <1>2. QED BY <1>1, LivesInvariant, PTL

\* A ticket whose rejection was acknowledged has run no action and answers no
\* exchange, then or later, as long as requests do not overlap.
THEOREM QrRejectionIsFinal ==
  ASSUME OneAtATime
  PROVE  Spec => []RejectionIsFinal
  <1>1. Basics /\ Lives => RejectionIsFinal
    <2> SUFFICES ASSUME Basics, Lives, NEW t \in rejected
                 PROVE  (\A e \in executed : e.tid # t) /\ (\A m \in redeemed : m.tid # t)
      BY DEF RejectionIsFinal
    <2>1. ~Settled(t)
      BY DEF Lives, TicketLife, Basics, TypeInv, HistoryOK
    <2>2. \A m \in redeemed : Settled(m.tid)
      BY DEF Basics, Backing, RedemptionBacked, RanFor, Settled
    <2>3. QED BY <2>1, <2>2 DEF Settled
  <1>2. QED BY <1>1, LivesInvariant, BasicsInvariant, PTL

\* A poll that is answered with 304 hides no change: the status that the web
\* client last saw is the one that is stored, as long as requests do not overlap.
THEOREM QrNotModifiedIsFresh ==
  ASSUME OneAtATime
  PROVE  Spec => []NotModifiedIsFresh
  <1>1. Lives => NotModifiedIsFresh
    BY DEF Lives, TicketLife, StoredLife, NotModifiedIsFresh, NotModified, Live
  <1>2. QED BY <1>1, LivesInvariant, PTL

\* What a step may do to a stored ticket.
Along ==
    \A t \in Tid :
        tickets[t] # Nil /\ tickets'[t] # Nil => Follows(tickets[t].val, tickets'[t].val)

\* A step that leaves the objects alone.
LEMMA AlongKept ==
  ASSUME TypeInv, \A t \in Tid : tickets'[t] \in {tickets[t], Nil}
  PROVE  Along
  <1> SUFFICES ASSUME NEW t \in Tid, tickets[t] # Nil
               PROVE  Follows(tickets[t].val, tickets[t].val)
    BY DEF Along
  <1>1. tickets[t].val.version \in Nat
    BY StoredTicket DEF Ticket
  <1>2. QED BY <1>1 DEF Follows

\* A step that stores the object of a request.
LEMMA AlongWrite ==
  ASSUME Basics, TypeInv', Lives, NEW r \in Rid, pc[r] \in Storing, WriteTicket(r)
  PROVE  Along
  <1> SUFFICES ASSUME NEW t \in Tid, tickets[t] # Nil, tickets'[t] # Nil
               PROVE  Follows(tickets[t].val, tickets'[t].val)
    BY DEF Along
  <1>1. CASE t = call[r].tid
    BY <1>1, WriteLife DEF Lives, FrameLife, FrameFresh
  <1>2. CASE t # call[r].tid
    <2>1. tickets'[t] = tickets[t] /\ tickets[t].val.version \in Nat
      BY <1>2, WriteLife, StoredTicket DEF Basics, Ticket
    <2>2. QED BY <2>1 DEF Follows
  <1>3. QED BY <1>1, <1>2

\* Every step goes along the life cycle.
LEMMA NextAlong ==
  ASSUME Basics, TypeInv', Lives, [Next]_vars
  PROVE  Along
  <1>1. TypeInv
    BY DEF Basics
  <1>2. CASE \A t \in Tid : tickets'[t] \in {tickets[t], Nil}
    BY <1>1, <1>2, AlongKept
  <1>3. ASSUME NEW r \in Rid, Arrive(r) PROVE UNCHANGED tickets
    BY <1>3 DEF Arrive, CreateTicket, ViewTicket, ScanTicket, ApproveTicket, RejectTicket,
       ExchangeGrant, ExchangeDelivery, PollTicket, CleanTicket, CleanGrant, Request, redis
  <1>4. ASSUME NEW r \in Rid, Serve(r)
        PROVE  \/ pc[r] \in Storing /\ WriteTicket(r)
               \/ \A t \in Tid : tickets'[t] \in {tickets[t], Nil}
    <2>1. CASE PutExpired(r) \/ PutTicket(r) \/ PutRevert(r) \/ PutSnapshot(r)
      BY <2>1 DEF PutExpired, PutTicket, PutRevert, PutSnapshot, Storing
    <2>2. CASE CleanDel(r)
      BY <1>1, <2>2 DEF CleanDel, TypeInv, RedisOK, TicketsOK
    <2>3. CASE GetTicket(r) \/ RunAction(r) \/ FailAction(r) \/ GetGrant(r) \/ GetDelivery(r)
               \/ Publish(r) \/ Snapshot(r) \/ TryGetDelivery(r) \/ CleanGet(r)
      BY <2>3 DEF GetTicket, RunAction, FailAction, GetGrant, GetDelivery, Publish,
         Snapshot, TryGetDelivery, CleanGet, redis
    <2>4. CASE PutGrant(r) \/ PutDelivery(r) \/ DelGrant(r) \/ DelDelivery(r)
      BY <2>4 DEF PutGrant, PutDelivery, DelGrant, DelDelivery
    <2>5. QED BY <1>4, <2>1, <2>2, <2>3, <2>4 DEF Serve
  <1>5. ASSUME NEW r \in Rid, RedisError(r) PROVE UNCHANGED tickets
    BY <1>5 DEF RedisError, redis
  <1>6. CASE Tick \/ Restart
    BY <1>1, <1>2, <1>6 DEF Tick, Restart, Unexpired, TypeInv, RedisOK, TicketsOK
  <1>7. CASE UNCHANGED vars
    BY <1>2, <1>7 DEF vars, redis
  <1>8. QED BY <1>2, <1>3, <1>4, <1>5, <1>6, <1>7, AlongWrite DEF Next

\* While its key exists a ticket is only rewritten along the life cycle, and its
\* version never goes back, as long as requests do not overlap.
THEOREM QrLifeCycle ==
  ASSUME OneAtATime
  PROVE  Spec => LifeCycle
  <1>1. Along => \A t \in Tid :
                    tickets[t] # Nil /\ tickets'[t] # Nil =>
                       LET old == tickets[t].val
                           new == tickets'[t].val
                       IN /\ new.status # old.status =>
                                new.status \in Successors[old.status]
                          /\ new.version >= old.version
    BY DEF Along, Follows
  <1>2. Basics /\ TypeInv' /\ Lives /\ [Next]_vars => Along
    BY NextAlong
  <1>3. QED BY <1>1, <1>2, LivesInvariant, BasicsInvariant, TypeInvariant, PTL DEF Spec, LifeCycle

-----------------------------------------------------------------------------
(***************************************************************************)
(* Codes.  A grant token or a delivery code is the number of the request   *)
(* that made it, so once that request is over and the key is gone nothing  *)
(* can bring it back.                                                      *)
(***************************************************************************)
\* Nothing stored redeems code g again by way of v.
Spent(v, g) ==
    /\ pc[g] = "done"
    /\ v = "exchangeGrant" => grants[g] = Nil
    /\ v = "exchangeDelivery" =>
          \A t \in Tid : deliveries[t] # Nil => deliveries[t].val.code # g

Redeemed(v, g) == \E m \in redeemed : m.via = v /\ m.code = g

\* What request r knows of the code it exchanges.
FrameCodes(r) ==
    Serving(r) /\ call[r].op \in Exchange =>
        /\ pc[call[r].code] = "done"
        /\ (call[r].op = "exchangeGrant" /\ pc[r] # "getGrant") \/ Accepted(pc[r], call[r]) =>
              ~Redeemed(call[r].op, call[r].code)
        /\ \/ Accepted(pc[r], call[r]) /\ pc[r] # "delDelivery"
           \/ pc[r] = "publish"
           => Spent(call[r].op, call[r].code)
        /\ Accepted(pc[r], call[r]) /\ pc[r] \in {"putTicket", "publish"} =>
              Approval(call[r].code, call[r].tid, call[r].user) \in executed

\* A request runs one action.
OneEach == \A e, f \in executed : e.by = f.by => e = f

CodeInv ==
    /\ OneEach
    /\ \A m \in redeemed : Spent(m.via, m.code)
    /\ \A r \in Rid : FrameCodes(r)
    /\ CodesRedeemOnce
    /\ DeliveredUserRan

\* The step of request r writes no key but its own.
OwnKeys(r) ==
    /\ \A g \in Rid : grants'[g] \in {grants[g], Nil} \/ g = r
    /\ \A t \in Tid : deliveries'[t] \in {deliveries[t], Nil} \/ deliveries'[t].val.code = r

\* What is spent stays spent.
LEMMA SpentStays ==
  ASSUME NEW r \in Rid, pc[r] # "done", Elsewhere(r), OwnKeys(r),
         NEW v, NEW g \in Rid, Spent(v, g)
  PROVE  Spent(v, g)'
  <1>1. g # r /\ pc'[g] = "done"
    BY DEF Spent, Elsewhere
  <1>2. v = "exchangeGrant" => grants'[g] = Nil
    BY <1>1 DEF Spent, OwnKeys
  <1>3. v = "exchangeDelivery" =>
           \A t \in Tid : deliveries'[t] # Nil => deliveries'[t].val.code # g
    BY <1>1 DEF Spent, OwnKeys
  <1>4. QED BY <1>1, <1>2, <1>3 DEF Spent

\* A step of request r after which its frame fits its code.
LEMMA CodeStep ==
  ASSUME Basics, Lives, CodeInv, NEW r \in Rid, pc[r] # "done", Elsewhere(r), OwnKeys(r),
         \A q \in Rid : q # r => pc[q] \in {"idle", "done"},
         FrameCodes(r)', OneEach', executed \subseteq executed', UNCHANGED redeemed
  PROVE  CodeInv'
  <1>1. ASSUME NEW m \in redeemed PROVE Spent(m.via, m.code)'
    <2>1. m.code \in Rid /\ Spent(m.via, m.code)
      BY DEF CodeInv, Basics, TypeInv, HistoryOK
    <2>2. QED BY <2>1, SpentStays
  <1>2. ASSUME NEW q \in Rid, q # r PROVE FrameCodes(q)'
    BY <1>2 DEF FrameCodes, Serving, Elsewhere
  <1>3. CodesRedeemOnce' /\ DeliveredUserRan'
    BY DEF CodeInv, CodesRedeemOnce, DeliveredUserRan
  <1>4. QED BY <1>1, <1>2, <1>3 DEF CodeInv

\* A served step: whose frame it changes, what it keeps of it, and which keys
\* it writes.
LEMMA ServeFrame ==
  ASSUME TypeInv, NEW r \in Rid, Serve(r)
  PROVE  /\ Serving(r) /\ Elsewhere(r) /\ OwnKeys(r)
         /\ \/ pc'[r] = "done"
            \/ call'[r].op = call[r].op /\ call'[r].code = call[r].code
  <1>1. Serving(r)
    BY DEF Serve, Serving, GetTicket, PutExpired, PutTicket, RunAction, FailAction, PutRevert,
       PutGrant, PutDelivery, GetGrant, DelGrant, GetDelivery, DelDelivery, Publish,
       Snapshot, PutSnapshot, TryGetDelivery, CleanGet, CleanDel
  <1>2. \E l : Goto(r, l)
    BY DEF Serve, GetTicket, PutExpired, PutTicket, RunAction, FailAction, PutRevert,
       PutGrant, PutDelivery, GetGrant, DelGrant, GetDelivery, DelDelivery, Publish,
       Snapshot, PutSnapshot, TryGetDelivery, CleanGet, CleanDel, Finish, Continue, Resume,
       AnswerPoll
  <1>3. /\ call[r] \in Call /\ call \in [Rid -> Call \cup {Nil}]
        /\ OpFits(pc[r], call[r]) /\ LocalsFit(pc[r], call[r])
    BY <1>1, ServedCall DEF Serving, TypeInv, LocalsOK
  <1>4. OwnKeys(r)
    <2>1. CASE PutGrant(r)
      BY <2>1 DEF PutGrant, OwnKeys, TypeInv, RedisOK
    <2>2. CASE PutDelivery(r)
      <3>1. call[r].tid \in Tid
        BY <1>3, <2>2 DEF PutDelivery, OpFits, LocalsFit
      <3>2. deliveries'[call[r].tid].val.code = r /\ UNCHANGED grants
            /\ \A t \in Tid : t # call[r].tid => deliveries'[t] = deliveries[t]
        BY <2>2, <3>1 DEF PutDelivery, TypeInv, RedisOK, SetEx
      <3>3. QED BY <3>2 DEF OwnKeys
    <2>3. CASE DelGrant(r) \/ DelDelivery(r) \/ CleanDel(r)
      BY <2>3 DEF DelGrant, DelDelivery, CleanDel, OwnKeys, TypeInv, RedisOK
    <2>4. CASE UNCHANGED <<grants, deliveries>>
      BY <2>4 DEF OwnKeys
    <2>5. QED
      BY <2>1, <2>2, <2>3, <2>4
      DEF Serve, GetTicket, PutExpired, PutTicket, RunAction, FailAction, PutRevert,
          GetGrant, GetDelivery, Publish, Snapshot, PutSnapshot, TryGetDelivery, CleanGet, redis
  <1>5. ASSUME Finish(r) PROVE pc'[r] = "done"
    BY <1>5, GotoElsewhere DEF Finish
  <1>6. ASSUME UNCHANGED call
        PROVE  call'[r].op = call[r].op /\ call'[r].code = call[r].code
    BY <1>6
  <1>7. \/ pc'[r] = "done"
        \/ call'[r].op = call[r].op /\ call'[r].code = call[r].code
    <2>1. ASSUME NEW tk, Resume(r, tk)
          PROVE  \/ pc'[r] = "done"
                 \/ call'[r].op = call[r].op /\ call'[r].code = call[r].code
      <3>1. CASE call' = [call EXCEPT ![r].user = tk.approvedBy]
        BY <1>3, <3>1 DEF Call
      <3>2. QED BY <1>5, <1>6, <2>1, <3>1 DEF Resume, Continue
    <2>2. CASE GetTicket(r) \/ PutExpired(r)
      BY <1>5, <1>6, <2>1, <2>2 DEF GetTicket, PutExpired, Continue
    <2>3. CASE RunAction(r) \/ PutGrant(r)
      <3>1. UNCHANGED call \/ call' = [call EXCEPT ![r].expiresAt = now + GrantTtl]
        BY <2>3 DEF RunAction, PutGrant
      <3>2. QED BY <1>3, <1>6, <3>1 DEF Call
    <2>4. CASE GetGrant(r)
      <3>1. CASE Live(grants[call[r].code]) /\ call' = [call EXCEPT ![r] = OfGrant(@, grants[call[r].code].val)]
        <4>1. call[r].op = "exchangeGrant" /\ call[r].code \in Rid
              /\ grants[call[r].code].val \in Grant
          BY <1>3, <2>4, <3>1, StoredGrant DEF GetGrant, OpFits, LocalsFit, Live, Exchange
        <4>2. QED BY <1>3, <3>1, <4>1, OfGrantType
      <3>2. QED BY <1>5, <2>4, <3>1 DEF GetGrant
    <2>5. CASE GetDelivery(r)
      <3>1. CASE call' = [call EXCEPT ![r].valid = Matches(call[r], deliveries[call[r].tid])]
        BY <1>3, <3>1 DEF Call
      <3>2. QED BY <1>5, <2>5, <3>1 DEF GetDelivery
    <2>6. CASE PutTicket(r) \/ FailAction(r) \/ PutRevert(r) \/ PutDelivery(r) \/ DelGrant(r)
               \/ DelDelivery(r) \/ Publish(r) \/ TryGetDelivery(r) \/ CleanGet(r) \/ CleanDel(r)
      BY <1>5, <1>6, <2>6 DEF PutTicket, FailAction, PutRevert, PutDelivery, DelGrant,
         DelDelivery, Publish, TryGetDelivery, CleanGet, CleanDel, Continue
    <2>7. CASE Snapshot(r) \/ PutSnapshot(r)
      BY <1>5, <1>6, <2>7 DEF Snapshot, PutSnapshot, AnswerPoll, Continue
    <2>8. QED BY <2>2, <2>3, <2>4, <2>5, <2>6, <2>7 DEF Serve
  <1>8. QED BY <1>1, <1>2, <1>4, <1>7, GotoElsewhere

\* Only an exchange holds a code.
LEMMA OtherCodes ==
  ASSUME TypeInv, NEW r \in Rid, Serve(r), call[r].op \notin Exchange
  PROVE  FrameCodes(r)'
  BY ServeFrame DEF FrameCodes, Serving

\* The request that made the code of an exchange is another one, and is over.
LEMMA CodeKept ==
  ASSUME Basics, CodeInv, NEW r \in Rid, Serving(r), call[r].op \in Exchange, Elsewhere(r)
  PROVE  call[r].code \in Rid /\ call[r].code # r /\ pc'[call[r].code] = "done"
  <1>1. call[r].code \in Rid /\ pc[call[r].code] = "done"
    BY ServedCall DEF Basics, Serving, LocalsFit, CodeInv, FrameCodes
  <1>2. call[r].code # r
    BY <1>1 DEF Serving
  <1>3. QED BY <1>1, <1>2 DEF Elsewhere

\* An exchange goes on to a label with the same call: what it has to know
\* there it knows already.
LEMMA ExchangeMoves ==
  ASSUME Basics, CodeInv, NEW r \in Rid, Serving(r), call[r].op \in Exchange,
         Elsewhere(r), OwnKeys(r), UNCHANGED <<redeemed, executed>>,
         call'[r].op = call[r].op, call'[r].code = call[r].code,
         call[r].op = "exchangeGrant" => pc[r] # "getGrant" /\ pc'[r] # "publish",
         call[r].op = "exchangeDelivery" => Accepted(pc[r], call[r]) /\ pc[r] # "delDelivery",
         call[r].op = "exchangeDelivery" /\ pc'[r] \in {"putTicket", "publish"} =>
            Approval(call'[r].code, call'[r].tid, call'[r].user) \in executed
  PROVE  FrameCodes(r)'
  <1> DEFINE g == call[r].code
             o == call[r].op
  <1>1. g \in Rid /\ g # r /\ pc'[g] = "done" /\ pc[r] # "done"
    BY CodeKept DEF Serving
  <1>2. FrameCodes(r)
    BY DEF CodeInv
  <1>3. ~Redeemed(o, g)
    BY <1>2 DEF FrameCodes, Accepted, Exchange
  <1>4. \A m \in redeemed : ~(m.via = o /\ m.code = g)
    BY <1>3 DEF Redeemed
  <1>5. ~Redeemed(call[r].op, call[r].code)'
    BY <1>4 DEF Redeemed
  <1>6. o = "exchangeDelivery" =>
           \A t \in Tid : deliveries'[t] # Nil => deliveries'[t].val.code # g
    BY <1>1, <1>2, SpentStays DEF FrameCodes, Spent
  <1>7. o = "exchangeDelivery" => Spent(call[r].op, call[r].code)'
    BY <1>1, <1>6 DEF Spent
  <1>8. QED BY <1>1, <1>5, <1>7 DEF FrameCodes, Accepted, Exchange

\* The user of the ticket is the one whose action made the code.
LEMMA ApproverRan ==
  ASSUME Basics, Lives, NEW t \in Tid, NEW g, NEW tk, StoredLife(t, tk),
         tk.status = "APPROVED", Ran(executed, g, t)
  PROVE  Approval(g, t, tk.approvedBy) \in executed
  <1>1. PICK e \in executed : e.by = g /\ e.tid = t
    BY DEF Ran
  <1>2. PICK f \in executed : f.tid = t /\ f.user = tk.approvedBy
    BY <1>1 DEF StoredLife, Settled
  <1>3. e = f
    BY <1>1, <1>2 DEF Lives, ActionRunsOnce
  <1>4. e \in [by: Rid, tid: Tid, user: User]
    BY DEF Basics, TypeInv, HistoryOK
  <1>5. QED BY <1>1, <1>2, <1>3, <1>4 DEF Approval

\* An exchange goes on with the ticket.
LEMMA ResumeCodes ==
  ASSUME Basics, Lives, CodeInv, NEW r \in Rid, pc[r] \in {"getTicket", "putExpired"},
         call[r].op \in Exchange, Elsewhere(r), NEW tk, StoredLife(call[r].tid, tk),
         Resume(r, tk), UNCHANGED <<grants, deliveries, executed, redeemed>>
  PROVE  FrameCodes(r)'
  <1>1. TypeInv /\ Serving(r) /\ OwnKeys(r)
    BY DEF Basics, Serving, OwnKeys
  <1>2. /\ call[r] \in Call /\ call[r].tid \in Tid /\ call \in [Rid -> Call \cup {Nil}]
        /\ call[r].op = "exchangeDelivery" =>
              Accepted(pc[r], call[r]) /\ Ran(executed, call[r].code, call[r].tid)
    BY <1>1, ServedCall
    DEF Serving, LocalsFit, Exchange, TypeInv, LocalsOK, Accepted, Basics, Backing,
        FramesBacked, FrameBacked
  <1>3. CASE Finish(r)
    BY <1>1, <1>3, GotoElsewhere DEF Finish, FrameCodes, Serving
  <1>4. CASE call[r].op = "exchangeGrant" /\ Continue(r, Bump(tk, "USED"), "putTicket")
    <2>1. pc'[r] = "putTicket" /\ call' = call
      BY <1>1, <1>4, GotoElsewhere DEF Continue
    <2>2. QED BY <1>1, <1>2, <1>4, <2>1, ExchangeMoves
  <1>5. CASE /\ call[r].op = "exchangeDelivery" /\ DeliveryChecks(tk)
             /\ call' = [call EXCEPT ![r].user = tk.approvedBy]
    <2>1. /\ call'[r].op = call[r].op /\ call'[r].code = call[r].code
          /\ call'[r].tid = call[r].tid /\ call'[r].user = tk.approvedBy
      BY <1>2, <1>5 DEF Call
    <2>2. Approval(call[r].code, call[r].tid, tk.approvedBy) \in executed
      BY <1>2, <1>5, ApproverRan DEF DeliveryChecks
    <2>3. QED BY <1>1, <1>2, <1>5, <2>1, <2>2, ExchangeMoves
  <1>6. QED BY <1>3, <1>4, <1>5 DEF Resume, Exchange

\* The code of a live grant, or of the delivery that matches, was not redeemed.
LEMMA LiveUnredeemed ==
  ASSUME Basics, CodeInv, NEW g \in Rid
  PROVE  /\ grants[g] # Nil => ~Redeemed("exchangeGrant", g)
         /\ \A t \in Tid : deliveries[t] # Nil /\ deliveries[t].val.code = g =>
               ~Redeemed("exchangeDelivery", g)
  BY DEF CodeInv, Redeemed, Spent

\* What the steps of an exchange say of its code.
LEMMA ExchangeCodes ==
  ASSUME Basics, TypeInv', Lives, CodeInv, NEW r \in Rid, Serve(r), ~Publish(r),
         call[r].op \in Exchange
  PROVE  FrameCodes(r)'
  <1> DEFINE c == call[r]
             g == c.code
             o == c.op
  <1>1. /\ TypeInv /\ Serving(r) /\ Elsewhere(r) /\ OwnKeys(r)
        /\ pc'[r] = "done" \/ (call'[r].op = o /\ call'[r].code = g)
    BY ServeFrame DEF Basics
  <1>2. /\ c \in Call /\ OpFits(pc[r], c) /\ LocalsFit(pc[r], c) /\ g \in Rid
        /\ pc[g] = "done" /\ g # r /\ pc'[g] = "done"
        /\ call \in [Rid -> Call \cup {Nil}]
    BY <1>1, ServedCall DEF Serving, LocalsFit, CodeInv, FrameCodes, Elsewhere, TypeInv, LocalsOK
  <1>3. CASE pc'[r] = "done"
    BY <1>3 DEF FrameCodes, Serving
  <1>4. CASE GetTicket(r)
    <2>1. c.tid \in Tid
      BY <1>2, <1>4 DEF GetTicket, LocalsFit, Exchange
    <2>2. CASE Resume(r, tickets[c.tid].val) /\ Live(tickets[c.tid])
      <3>1. StoredLife(c.tid, tickets[c.tid].val)
        BY <2>1, <2>2 DEF Live, Lives, TicketLife
      <3>2. QED BY <1>1, <1>4, <2>2, <3>1, ResumeCodes DEF GetTicket, redis
    <2>3. CASE Continue(r, [tickets[c.tid].val EXCEPT !.status = "EXPIRED"], "putExpired")
      <3>1. pc'[r] = "putExpired" /\ call' = call
        BY <1>1, <2>3, GotoElsewhere DEF Continue
      <3>2. QED
        BY <1>1, <1>2, <1>4, <3>1, ExchangeMoves DEF GetTicket, Accepted, Exchange, redis
    <2>4. CASE Finish(r)
      BY <1>1, <1>3, <2>4, GotoElsewhere DEF Finish
    <2>5. QED BY <1>4, <2>2, <2>3, <2>4 DEF GetTicket
  <1>5. CASE PutExpired(r)
    <2>1. StoredLife(c.tid, copy[r])
      BY <1>5, CopyFits DEF PutExpired, Storing
    <2>2. QED BY <1>1, <1>5, <2>1, ResumeCodes DEF PutExpired
  <1>6. CASE PutTicket(r)
    <2>1. /\ pc[r] = "putTicket" /\ UNCHANGED <<executed, redeemed>>
          /\ pc'[r] = "done" \/ (pc'[r] = AfterPut(o) /\ call' = call)
      BY <1>1, <1>6, GotoElsewhere DEF PutTicket, Finish, history
    <2>2. CASE o = "exchangeGrant" /\ call' = call /\ pc'[r] = AfterPut(o)
      BY <1>1, <2>1, <2>2, ExchangeMoves DEF AfterPut
    <2>3. CASE o = "exchangeDelivery" /\ call' = call
      <3>1. Accepted(pc[r], c) /\ Approval(c.code, c.tid, c.user) \in executed
        BY <1>1, <2>1, <2>3 DEF Accepted, CodeInv, FrameCodes, Exchange
      <3>2. QED BY <1>1, <2>1, <2>3, <3>1, ExchangeMoves
    <2>4. QED BY <1>3, <2>1, <2>2, <2>3 DEF Exchange
  <1>7. CASE GetGrant(r)
    <2>1. CASE Finish(r)
      BY <1>1, <1>3, <2>1, GotoElsewhere DEF Finish
    <2>2. CASE grants[g] # Nil /\ Goto(r, "getTicket")
      <3>1. o = "exchangeGrant" /\ pc'[r] = "getTicket" /\ redeemed' = redeemed
        BY <1>1, <1>2, <1>7, <2>2, GotoElsewhere DEF GetGrant, OpFits, history
      <3>2. ~Redeemed(o, g)
        BY <1>2, <2>2, <3>1, LiveUnredeemed
      <3>3. QED BY <1>1, <1>2, <1>3, <3>1, <3>2 DEF FrameCodes, Redeemed, Accepted
    <2>3. QED BY <1>7, <2>1, <2>2 DEF GetGrant, Live
  <1>8. CASE DelGrant(r)
    <2>1. /\ o = "exchangeGrant" /\ pc[r] # "getGrant" /\ pc'[r] = "publish" /\ call' = call
          /\ redeemed' = redeemed /\ grants'[g] = Nil
      BY <1>1, <1>2, <1>8, GotoElsewhere DEF DelGrant, OpFits, history, TypeInv, RedisOK
    <2>2. ~Redeemed(o, g)
      BY <1>1, <2>1 DEF CodeInv, FrameCodes
    <2>3. QED BY <1>2, <2>1, <2>2 DEF FrameCodes, Redeemed, Accepted, Spent
  <1>9. CASE GetDelivery(r)
    <2>1. CASE Finish(r)
      BY <1>1, <1>3, <2>1, GotoElsewhere DEF Finish
    <2>2. CASE Goto(r, "delDelivery")
               /\ call' = [call EXCEPT ![r].valid = Matches(c, deliveries[c.tid])]
      <3>1. /\ o = "exchangeDelivery" /\ c.tid \in Tid /\ pc'[r] = "delDelivery"
            /\ redeemed' = redeemed /\ call'[r].valid = Matches(c, deliveries[c.tid])
            /\ call'[r].op = o /\ call'[r].code = g
        BY <1>1, <1>2, <1>9, <2>2, GotoElsewhere
        DEF GetDelivery, OpFits, LocalsFit, Exchange, history, Call
      <3>2. Matches(c, deliveries[c.tid]) => ~Redeemed(o, g)
        BY <1>2, <3>1, LiveUnredeemed DEF Matches, Live
      <3>3. QED BY <1>2, <3>1, <3>2 DEF FrameCodes, Redeemed, Accepted
    <2>3. QED BY <1>9, <2>1, <2>2 DEF GetDelivery
  <1>10. CASE DelDelivery(r)
    <2>1. CASE Finish(r)
      BY <1>1, <1>3, <2>1, GotoElsewhere DEF Finish
    <2>2. CASE c.valid /\ Goto(r, "getTicket") /\ UNCHANGED call
      <3>1. /\ pc[r] = "delDelivery" /\ o = "exchangeDelivery" /\ c.tid \in Tid
            /\ pc'[r] = "getTicket" /\ redeemed' = redeemed
            /\ deliveries' = [deliveries EXCEPT ![c.tid] = Nil]
        BY <1>1, <1>2, <1>10, <2>2, GotoElsewhere
        DEF DelDelivery, OpFits, LocalsFit, Exchange, history
      <3>2. Accepted(pc[r], c) /\ ~Redeemed(o, g) /\ Ran(executed, g, c.tid)
        BY <1>1, <2>2, <3>1
        DEF Accepted, CodeInv, FrameCodes, Basics, Backing, FramesBacked, FrameBacked
      <3>3. ASSUME NEW t \in Tid, deliveries'[t] # Nil PROVE deliveries'[t].val.code # g
        <4>1. t # c.tid /\ deliveries'[t] = deliveries[t] /\ deliveries[t] # Nil
          BY <1>1, <3>1, <3>3 DEF TypeInv, RedisOK
        <4>2. Ran(executed, deliveries[t].val.code, t)
          BY <4>1 DEF Basics, Backing, RedisBacked
        <4>3. QED BY <3>2, <4>1, <4>2 DEF Ran, CodeInv, OneEach
      <3>4. QED BY <1>2, <2>2, <3>1, <3>2, <3>3 DEF FrameCodes, Redeemed, Accepted, Spent, Exchange
    <2>3. QED BY <1>10, <2>1, <2>2 DEF DelDelivery
  <1>11. QED
    BY <1>2, <1>4, <1>5, <1>6, <1>7, <1>8, <1>9, <1>10
    DEF Serve, OpFits, Exchange, RunAction, FailAction, PutRevert, PutGrant, PutDelivery,
        Snapshot, PutSnapshot, TryGetDelivery, CleanGet, CleanDel, Changing

\* An exchange is answered: its code is spent and was not redeemed before.
LEMMA PublishCodes ==
  ASSUME Basics, TypeInv', Lives, CodeInv, NEW r \in Rid, Publish(r)
  PROVE  CodeInv'
  <1> DEFINE c == call[r]
             new == [by |-> r, via |-> c.op, code |-> c.code, tid |-> c.tid, user |-> c.user]
  <1>1. /\ TypeInv /\ Serving(r) /\ pc[r] = "publish" /\ pc[r] # "done" /\ Elsewhere(r)
        /\ UNCHANGED <<grants, deliveries, executed>>
        /\ redeemed' = redeemed \cup {m \in {new} : Answered(c)}
        /\ pc'[r] = "done"
    BY GotoElsewhere DEF Publish, Serving, Basics, redis, Finish
  <1>2. OwnKeys(r) /\ \A q \in Rid : q # r => pc[q] \in {"idle", "done"}
    BY <1>1, OthersRest DEF OwnKeys
  <1>3. /\ new.via = c.op /\ new.code = c.code /\ new.by = r
        /\ new.tid = c.tid /\ new.user = c.user
    OBVIOUS
  <1>4. ASSUME Answered(c)
        PROVE  /\ c.code \in Rid /\ Spent(c.op, c.code) /\ ~Redeemed(c.op, c.code)
               /\ c.op = "exchangeDelivery" => Approval(c.code, c.tid, c.user) \in executed
    <2>1. c.op \in Exchange /\ c.code \in Rid
      BY <1>1, <1>4, ServedCall DEF Answered, Exchange, LocalsFit, Serving
    <2>2. c.op = "exchangeGrant" \/ Accepted(pc[r], c)
      BY <1>1, <2>1 DEF Accepted, Exchange
    <2>3. FrameCodes(r)
      BY DEF CodeInv
    <2>4. QED BY <1>1, <2>1, <2>2, <2>3 DEF FrameCodes, Accepted
  <1> HIDE DEF new
  <1>5. ASSUME NEW m \in redeemed' PROVE Spent(m.via, m.code)'
    <2>1. m.code \in Rid /\ Spent(m.via, m.code)
      <3>1. CASE m \in redeemed
        BY <1>1, <3>1 DEF CodeInv, TypeInv, HistoryOK
      <3>2. CASE m = new /\ Answered(c)
        BY <1>3, <1>4, <3>2
      <3>3. QED BY <1>1, <3>1, <3>2
    <2>2. QED BY <1>1, <1>2, <2>1, SpentStays
  <1>6. ASSUME NEW q \in Rid PROVE FrameCodes(q)'
    BY <1>1, <1>2 DEF FrameCodes, Serving, Elsewhere
  <1>7. CodesRedeemOnce'
    <2>1. \A m, n \in redeemed : m.via = n.via /\ m.code = n.code => m = n
      BY DEF CodeInv, CodesRedeemOnce
    <2>2. Answered(c) => \A m \in redeemed : ~(m.via = new.via /\ m.code = new.code)
      BY <1>3, <1>4 DEF Redeemed
    <2>3. ASSUME NEW m \in redeemed', NEW n \in redeemed', m.via = n.via, m.code = n.code
          PROVE  m = n
      BY <1>1, <2>1, <2>2, <2>3
    <2>4. QED BY <2>3 DEF CodesRedeemOnce
  <1>8. DeliveredUserRan'
    <2>1. ASSUME NEW m \in redeemed', m.via = "exchangeDelivery"
          PROVE  [by |-> m.code, tid |-> m.tid, user |-> m.user] \in executed'
      <3>1. CASE m \in redeemed
        BY <1>1, <2>1, <3>1 DEF CodeInv, DeliveredUserRan
      <3>2. CASE m = new /\ Answered(c)
        BY <1>1, <1>3, <1>4, <2>1, <3>2 DEF Approval
      <3>3. QED BY <1>1, <3>1, <3>2
    <2>2. QED BY <2>1 DEF DeliveredUserRan
  <1>9. OneEach'
    BY <1>1 DEF CodeInv, OneEach
  <1>10. QED BY <1>5, <1>6, <1>7, <1>8, <1>9 DEF CodeInv

\* A request that runs its action has run none before.
LEMMA ServeEach ==
  ASSUME Basics, CodeInv, NEW r \in Rid, Serve(r)
  PROVE  OneEach' /\ executed \subseteq executed'
  <1>1. CASE RunAction(r)
    <2> DEFINE e == Approval(r, call[r].tid, call[r].user)
    <2>1. executed' = executed \cup {e} /\ e.by = r /\ pc[r] = "runAction"
      BY <1>1 DEF RunAction, Approval
    <2> HIDE DEF e
    <2>2. \A f \in executed : f.by # r
      BY <2>1 DEF Basics, Once, AfterRun
    <2>3. ASSUME NEW f \in executed', NEW g \in executed', f.by = g.by PROVE f = g
      BY <2>1, <2>2, <2>3 DEF CodeInv, OneEach
    <2>4. QED BY <2>1, <2>3 DEF OneEach
  <1>2. CASE ~RunAction(r)
    <2>1. executed' = executed
      BY <1>2
      DEF Serve, GetTicket, PutExpired, PutTicket, FailAction, PutRevert,
          PutGrant, PutDelivery, GetGrant, DelGrant, GetDelivery, DelDelivery, Publish,
          Snapshot, PutSnapshot, TryGetDelivery, CleanGet, CleanDel, history
    <2>2. QED BY <2>1 DEF CodeInv, OneEach
  <1>3. QED BY <1>1, <1>2

\* A served step fits the codes.
LEMMA ServeCodes ==
  ASSUME Basics, TypeInv', Lives, CodeInv, NEW r \in Rid, Serve(r)
  PROVE  CodeInv'
  <1>1. TypeInv
    BY DEF Basics
  <1>2. CASE Publish(r)
    BY <1>2, PublishCodes
  <1>3. CASE ~Publish(r)
    <2>1. /\ Serving(r) /\ pc[r] # "done" /\ Elsewhere(r) /\ OwnKeys(r)
          /\ \A q \in Rid : q # r => pc[q] \in {"idle", "done"}
      BY <1>1, ServeFrame, OthersRest DEF Serving
    <2>2. FrameCodes(r)'
      BY <1>1, <1>3, OtherCodes, ExchangeCodes
    <2>3. redeemed' = redeemed
      BY <1>3
      DEF Serve, GetTicket, PutExpired, PutTicket, RunAction, FailAction, PutRevert,
          PutGrant, PutDelivery, GetGrant, DelGrant, GetDelivery, DelDelivery,
          Snapshot, PutSnapshot, TryGetDelivery, CleanGet, CleanDel, history
    <2>4. QED BY <2>1, <2>2, <2>3, ServeEach, CodeStep
  <1>4. QED BY <1>2, <1>3

\* A code that a client can present was made by a request that is over.
LEMMA IssuedOver ==
  ASSUME Basics, NEW g \in Issued, \A q \in Rid : pc[q] \in {"idle", "done"}
  PROVE  g \in Rid /\ pc[g] = "done"
  <1>1. PICK e \in executed : e.by = g
    <2>1. CASE \E e \in executed : e.by = g
      BY <2>1
    <2>2. CASE g \in Rid /\ grants[g] # Nil
      <3>1. Approval(g, grants[g].val.tid, grants[g].val.user) \in executed
        BY <2>2 DEF Basics, Backing, RedisBacked
      <3>2. QED BY <3>1 DEF Approval
    <2>3. QED BY <2>1, <2>2 DEF Issued
  <1>2. g \in Rid /\ pc[g] \in AfterRun
    BY <1>1 DEF Basics, Once, TypeInv, HistoryOK
  <1>3. QED BY <1>2 DEF AfterRun

\* A new exchange knows nothing of its code yet.
LEMMA ArriveCodes ==
  ASSUME OneAtATime, Basics, Lives, CodeInv, NEW r \in Rid, Arrive(r)
  PROVE  CodeInv'
  <1>1. TypeInv
    BY DEF Basics
  <1>2. ASSUME NEW c, NEW l, Enter(r, c, l), UNCHANGED <<grants, deliveries, executed, redeemed>>,
               c.op \in Exchange => c.code \in Issued,
               c.op = "exchangeGrant" => l = "getGrant",
               c.op = "exchangeDelivery" => l = "getDelivery"
        PROVE  CodeInv'
    <2>1. \A q \in Rid : pc[q] \in {"idle", "done"}
      BY <1>1, <1>2, EnterRest
    <2>2. pc[r] # "done"
      BY <1>1, <1>2 DEF Enter, Basics, Once, TypeInv, BoundsOK, Rid
    <2>3. Elsewhere(r) /\ pc'[r] = l /\ call'[r] = c
      BY <1>1, <1>2, GotoElsewhere DEF Enter, TypeInv, LocalsOK
    <2>4. OwnKeys(r) /\ OneEach'
      BY <1>2 DEF OwnKeys, CodeInv, OneEach
    <2>5. FrameCodes(r)'
      <3>1. CASE c.op \in Exchange
        <4>1. c.code \in Rid /\ pc[c.code] = "done"
          BY <1>2, <2>1, <3>1, IssuedOver
        <4>2. pc'[c.code] = "done"
          BY <2>2, <2>3, <4>1 DEF Elsewhere
        <4>3. /\ l \in {"getGrant", "getDelivery"} /\ ~Accepted(l, c)
              /\ c.op = "exchangeGrant" => l = "getGrant"
          BY <1>2, <3>1 DEF Accepted, Exchange
        <4>4. QED BY <2>3, <4>2, <4>3 DEF FrameCodes
      <3>2. CASE c.op \notin Exchange
        BY <2>3, <3>2 DEF FrameCodes
      <3>3. QED BY <3>1, <3>2
    <2>6. QED BY <1>2, <2>1, <2>2, <2>3, <2>4, <2>5, CodeStep
  <1>3. ASSUME NEW o \in Op, NEW t, NEW u, NEW g, NEW v, NEW l,
               Request(r, Frame(o, t, u, g, v), l), o \in Exchange => g \in Issued,
               o = "exchangeGrant" => l = "getGrant",
               o = "exchangeDelivery" => l = "getDelivery"
        PROVE  CodeInv'
    <2> DEFINE c == Frame(o, t, u, g, v)
    <2>1. c.op = o /\ c.code = g
      BY DEF Frame
    <2>2. Enter(r, c, l) /\ UNCHANGED <<grants, deliveries, executed, redeemed>>
      BY <1>3 DEF Request, redis, history
    <2> HIDE DEF c
    <2>3. QED BY <1>2, <1>3, <2>1, <2>2
  <1>4. ASSUME NEW t, NEW s, CreateTicket(r, t, s) PROVE CodeInv'
    <2> DEFINE c == Frame("create", t, Nil, Nil, FALSE)
    <2>1. c.op = "create"
      BY DEF Frame
    <2>2. Enter(r, c, "putTicket") /\ UNCHANGED <<grants, deliveries, executed, redeemed>>
      BY <1>4 DEF CreateTicket, redis
    <2> HIDE DEF c
    <2>3. QED BY <1>2, <2>1, <2>2 DEF Exchange
  <1>5. ASSUME NEW t, NEW u, NEW v, ScanTicket(r, t, u) \/ RejectTicket(r, t, u) \/ ApproveTicket(r, t, u, v)
        PROVE  CodeInv'
    BY <1>3, <1>5 DEF ScanTicket, RejectTicket, ApproveTicket, Op, Exchange
  <1>6. ASSUME NEW t, ViewTicket(r, t) \/ PollTicket(r, t) \/ CleanTicket(r, t) \/ CleanGrant(r, t)
        PROVE  CodeInv'
    BY <1>3, <1>6 DEF ViewTicket, PollTicket, CleanTicket, CleanGrant, Op, Exchange
  <1>7. ASSUME NEW t, NEW g \in Issued, ExchangeGrant(r, t, g) PROVE CodeInv'
    BY <1>3, <1>7 DEF ExchangeGrant, Op, Exchange
  <1>8. ASSUME NEW t, NEW g \in Issued, ExchangeDelivery(r, t, g) PROVE CodeInv'
    BY <1>3, <1>8 DEF ExchangeDelivery, Op, Exchange
  <1>9. QED BY <1>4, <1>5, <1>6, <1>7, <1>8 DEF Arrive

\* Keys run out, and frames and keys are lost: what is spent stays spent.
LEMMA FewerCodes ==
  ASSUME Basics, CodeInv,
         \A r \in Rid : \/ pc'[r] = "done"
                        \/ pc'[r] = pc[r] /\ call'[r] = call[r],
         \A g \in Rid : grants'[g] \in {grants[g], Nil},
         \A t \in Tid : deliveries'[t] \in {deliveries[t], Nil},
         UNCHANGED <<executed, redeemed>>
  PROVE  CodeInv'
  <1>1. ASSUME NEW v, NEW g \in Rid, Spent(v, g) PROVE Spent(v, g)'
    BY <1>1 DEF Spent
  <1>2. ASSUME NEW m \in redeemed PROVE Spent(m.via, m.code)'
    <2>1. m.code \in Rid /\ Spent(m.via, m.code)
      BY DEF CodeInv, Basics, TypeInv, HistoryOK
    <2>2. QED BY <1>1, <2>1
  <1>3. ASSUME NEW r \in Rid PROVE FrameCodes(r)'
    <2>1. CASE pc'[r] = "done"
      BY <2>1 DEF FrameCodes, Serving
    <2>2. CASE Serving(r) /\ call[r].op \in Exchange /\ pc'[r] = pc[r] /\ call'[r] = call[r]
      <3>1. call[r].code \in Rid /\ FrameCodes(r)
        BY <2>2, ServedCall DEF Basics, Serving, LocalsFit, CodeInv
      <3>2. Spent(call[r].op, call[r].code) => Spent(call[r].op, call[r].code)'
        BY <2>2, <3>1 DEF Spent
      <3>3. pc[call[r].code] = "done" => pc'[call[r].code] = "done"
        BY <3>1
      <3>4. QED BY <2>2, <3>1, <3>2, <3>3 DEF FrameCodes, Serving, Redeemed
    <2>3. CASE ~(Serving(r) /\ call[r].op \in Exchange) /\ pc'[r] = pc[r] /\ call'[r] = call[r]
      BY <2>3 DEF FrameCodes, Serving
    <2>4. QED BY <2>1, <2>2, <2>3
  <1>4. QED BY <1>2, <1>3 DEF CodeInv, OneEach, CodesRedeemOnce, DeliveredUserRan

\* Every step fits the codes.
LEMMA NextCodes ==
  ASSUME OneAtATime, Basics, TypeInv', Lives, CodeInv, [Next]_vars
  PROVE  CodeInv'
  <1>1. TypeInv
    BY DEF Basics
  <1>2. ASSUME NEW r \in Rid, RedisError(r) PROVE CodeInv'
    <2>1. /\ Serving(r) /\ pc[r] # "done" /\ Goto(r, "done")
          /\ UNCHANGED <<grants, deliveries, executed, redeemed>>
      BY <1>2 DEF RedisError, Serving, Finish, redis, history
    <2>2. Elsewhere(r) /\ pc'[r] = "done" /\ OwnKeys(r)
      BY <1>1, <2>1, GotoElsewhere DEF OwnKeys
    <2>3. FrameCodes(r)'
      BY <2>2 DEF FrameCodes, Serving
    <2>4. \A q \in Rid : q # r => pc[q] \in {"idle", "done"}
      BY <2>1, OthersRest
    <2>5. OneEach'
      BY <2>1 DEF CodeInv, OneEach
    <2>6. QED BY <2>1, <2>2, <2>3, <2>4, <2>5, CodeStep
  <1>3. CASE Tick
    <2>1. /\ \A g \in Rid : grants'[g] \in {grants[g], Nil}
          /\ \A t \in Tid : deliveries'[t] \in {deliveries[t], Nil}
          /\ UNCHANGED <<pc, call, executed, redeemed>>
      BY <1>1, <1>3 DEF Tick, Unexpired, TypeInv, RedisOK, locals, history
    <2>2. QED BY <2>1, FewerCodes
  <1>4. CASE Restart
    <2>1. /\ \A g \in Rid : grants'[g] = Nil
          /\ \A t \in Tid : deliveries'[t] = Nil
          /\ UNCHANGED <<executed, redeemed>>
      BY <1>4 DEF Restart, history
    <2>2. \A r \in Rid : \/ pc'[r] = "done"
                         \/ pc'[r] = pc[r] /\ call'[r] = call[r]
      BY <1>4 DEF Restart
    <2>3. QED BY <2>1, <2>2, FewerCodes
  <1>5. CASE UNCHANGED vars
    BY <1>5, FewerCodes DEF vars, redis, locals, history
  <1>6. QED BY <1>2, <1>3, <1>4, <1>5, ArriveCodes, ServeCodes DEF Next

\* At the start there is no code.
LEMMA InitCodes == Init => CodeInv
  BY DEF Init, CodeInv, OneEach, FrameCodes, Serving, CodesRedeemOnce, DeliveredUserRan

\* The codes fit in every reachable state, when requests do not overlap.
LEMMA CodeInvariant ==
  ASSUME OneAtATime
  PROVE  Spec => []CodeInv
  <1>1. Basics /\ TypeInv' /\ Lives /\ CodeInv /\ [Next]_vars => CodeInv'
    BY NextCodes
  <1>2. QED
    BY <1>1, InitCodes, LivesInvariant, BasicsInvariant, TypeInvariant, PTL DEF Spec

\* A grant token and a delivery code are each exchanged at most once, whatever
\* fails or restarts between the GET and the DEL, as long as requests do not
\* overlap.
THEOREM QrCodesRedeemOnce ==
  ASSUME OneAtATime
  PROVE  Spec => []CodesRedeemOnce
  <1>1. CodeInv => CodesRedeemOnce
    BY DEF CodeInv
  <1>2. QED BY <1>1, CodeInvariant, PTL

\* exchangeDeliveryCode answers with the user whose action made the code,
\* although it reads the user from the ticket, as long as requests do not
\* overlap.
THEOREM QrDeliveredUserRan ==
  ASSUME OneAtATime
  PROVE  Spec => []DeliveredUserRan
  <1>1. CodeInv => DeliveredUserRan
    BY DEF CodeInv
  <1>2. QED BY <1>1, CodeInvariant, PTL

=============================================================================
