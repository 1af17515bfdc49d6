------------------------------ MODULE QrTicket ------------------------------
(***************************************************************************)
(* The life of a QR ticket: QrService (src/src/qr/qr.service.ts), the      *)
(* parts of QrPollingService that read and write the same Redis keys       *)
(* (src/src/qr/qr-polling.service.ts) and the controller handlers that     *)
(* call them (src/src/qr/qr.controller.ts).                                *)
(*                                                                         *)
(* The state of the feature is three families of Redis keys: the ticket,   *)
(* the grant of an approval and the delivery code of a ticket.  Every      *)
(* operation is a plain GET, a change to the parsed object and a SETEX,    *)
(* with an await between them: there is no lock and no compare-and-swap.   *)
(* A request is therefore a process with a program counter; one step of it *)
(* is one Redis command together with the synchronous code that follows    *)
(* its await.                                                              *)
(*                                                                         *)
(* Date.now() and the key TTLs run on one discrete clock, now.  Random     *)
(* tokens never collide: the grant token and the delivery code that a      *)
(* request generates are named by the request's own number.                *)
(***************************************************************************)
EXTENDS Naturals, FiniteSets

CONSTANTS
    Tid,          \* ticket ids generateTicketId can return
    User,         \* authenticated mobile users
    Session,      \* web session ids
    Nil,          \* JavaScript's null / undefined
    Ops,          \* the operations clients issue, a subset of Op
    TicketTtl,    \* QR_TICKET_TTL_SECONDS
    GrantTtl,     \* QR_GRANT_TTL_SECONDS, also the TTL of a delivery code
    MaxRequests,  \* bound: requests issued in a behaviour
    MaxInFlight,  \* bound: requests being served at the same time
    MaxTime,      \* bound: the last instant of the clock
    MaxRestarts   \* bound: restarts of a server instance

Op == {"create", "view", "scan", "approve", "reject", "exchangeGrant",
       "exchangeDelivery", "poll", "cleanTicket", "cleanGrant"}

Rid == 1..MaxRequests

Status == {"PENDING", "SCANNED", "APPROVED", "REJECTED", "EXPIRED", "USED"}

\* QrTicket.  The verifier behind codeChallenge is the boolean a caller of
\* approve presents; type and payload only decide whether the action fails.
Ticket == [status: Status, webSession: Session \cup {Nil},
           approvedBy: User \cup {Nil}, version: Nat, expiresAt: Nat]

\* QrGrant and QrDeliveryCode; their keys are the token and the ticket id.
Grant == [tid: Tid, user: User, expiresAt: Nat]
Delivery == [code: Rid, webSession: Session, expiresAt: Nat]

\* A Redis key: a value with the instant its TTL runs out, or no key.
Key(S) == [val: S, until: Nat] \cup {Nil}

\* The arguments and locals of a request, beside its ticket object: asked is
\* the ticket the client names, tid the one whose key the handler works on,
\* valid whether the verifier (approve) or the delivery code is accepted.
Call == [op: Op, asked: Tid \cup {Nil}, tid: Tid \cup {Nil},
         user: User \cup {Nil}, code: Rid \cup {Nil}, valid: BOOLEAN,
         expiresAt: Nat]

Pc == {"idle", "getGrant", "getDelivery", "getTicket", "putExpired",
       "putTicket", "runAction", "putRevert", "putGrant", "putDelivery",
       "delGrant", "delDelivery", "publish", "snapshot", "putSnapshot",
       "tryGetDelivery", "cleanGet", "cleanDel", "done"}

ASSUME ConstantsAssumption ==
    /\ Ops \subseteq Op
    /\ TicketTtl \in Nat \ {0} /\ GrantTtl \in Nat \ {0}
    /\ MaxRequests \in Nat /\ MaxInFlight \in Nat
    /\ MaxTime \in Nat /\ MaxRestarts \in Nat

ASSUME NilAssumption ==
    /\ Nil \notin Tid /\ Nil \notin User /\ Nil \notin Session
    /\ Nil \notin Nat /\ Nil \notin Ticket
    /\ Nil \notin [val: Ticket, until: Nat]
    /\ Nil \notin [val: Grant, until: Nat]
    /\ Nil \notin [val: Delivery, until: Nat]
    /\ Nil \notin Call

VARIABLES
    now,         \* Date.now(), and the clock of Redis
    tickets,     \* Redis: qr:ticket:<tid>
    grants,      \* Redis: qr:grant:<token>
    deliveries,  \* Redis: qr:delivery:<tid>
    started,     \* requests issued so far; the next one is started + 1
    restarts,    \* restarts so far
    pc,          \* where each request is
    call,        \* its arguments and locals
    copy,        \* its parsed ticket object
    seen,        \* the web client's last poll answer per ticket (its ETag)
    created,     \* history: ids given to a ticket
    verified,    \* history: <<ticket, user>> that passed the PKCE check
    executed,    \* history: actions that ran to success
    rejected,    \* history: tickets whose rejection was acknowledged
    redeemed     \* history: exchanges answered with a grant

redis   == <<tickets, grants, deliveries>>
locals  == <<pc, call, copy>>
history == <<created, verified, executed, rejected, redeemed>>
bounds  == <<now, started, restarts>>
vars    == <<redis, locals, history, bounds, seen>>

-----------------------------------------------------------------------------
(* Requests and Redis.                                                     *)

InFlight == {r \in Rid : pc[r] \notin {"idle", "done"}}

Goto(r, l) == pc' = [pc EXCEPT ![r] = l]

\* The request has answered (a result or an HTTP error); its frame is gone.
Finish(r) ==
    /\ Goto(r, "done")
    /\ call' = [call EXCEPT ![r] = Nil]
    /\ copy' = [copy EXCEPT ![r] = Nil]

\* SETEX: the value, and a TTL that starts again at every write.
SetEx(v, ttl) == [val |-> v, until |-> now + ttl]

\* Keys whose TTL has run out at instant n are not returned any more.
Unexpired(keys, n) ==
    [k \in DOMAIN keys |-> IF keys[k] # Nil /\ keys[k].until < n THEN Nil
                                                               ELSE keys[k]]

Expired(obj) == now > obj.expiresAt

\* What a GET followed by the expiry test tells a handler.
Past(key) == key # Nil /\ Expired(key.val)
Live(key) == key # Nil /\ ~Expired(key.val)

WriteTicket(r) ==
    tickets' = [tickets EXCEPT ![call[r].tid] = SetEx(copy[r], TicketTtl)]

\* Mutant: the version is forgotten.
BumpForgotten(tk, s) == [tk EXCEPT !.status = s]

\* A status change: ticket.status = s; ticket.version = (version || 0) + 1.
Bump(tk, s) ==
    [status |-> s, webSession |-> tk.webSession, approvedBy |-> tk.approvedBy,
     version |-> tk.version + 1, expiresAt |-> tk.expiresAt]

-----------------------------------------------------------------------------
(* A client's call reaches a handler.                                      *)

\* Request r enters with frame c at label l.
Enter(r, c, l) ==
    /\ r = started + 1
    /\ Cardinality(InFlight) < MaxInFlight
    /\ c.op \in Ops
    /\ started' = r
    /\ Goto(r, l)
    /\ call' = [call EXCEPT ![r] = c]

Frame(o, t, u, g, v) ==
    [op |-> o, asked |-> t, tid |-> t, user |-> u, code |-> g,
     valid |-> v, expiresAt |-> 0]

\* createTicket: the object is built, then stored by the putTicket step.
CreateTicket(r, t, s) ==
    /\ t \notin created
    /\ Enter(r, Frame("create", t, Nil, Nil, FALSE), "putTicket")
    /\ copy' = [copy EXCEPT ![r] =
                  [status |-> "PENDING", webSession |-> s, approvedBy |-> Nil,
                   version |-> 1, expiresAt |-> now + TicketTtl]]
    /\ created' = created \cup {t}
    /\ UNCHANGED <<redis, now, restarts, seen, verified, executed, rejected,
                   redeemed>>

\* A call on a ticket that exists or existed; handlers start with a GET.
Request(r, c, l) ==
    /\ Enter(r, c, l)
    /\ UNCHANGED <<redis, copy, now, restarts, seen, history>>

\* getTicketPreview and the gateway's getTicket.
ViewTicket(r, t) ==
    Request(r, Frame("view", t, Nil, Nil, FALSE), "getTicket")

ScanTicket(r, t, u) ==
    Request(r, Frame("scan", t, u, Nil, FALSE), "getTicket")

ApproveTicket(r, t, u, v) ==
    Request(r, Frame("approve", t, u, Nil, v), "getTicket")

RejectTicket(r, t, u) ==
    Request(r, Frame("reject", t, u, Nil, FALSE), "getTicket")

ExchangeGrant(r, t, g) ==
    Request(r, Frame("exchangeGrant", t, Nil, g, FALSE), "getGrant")

ExchangeDelivery(r, t, g) ==
    Request(r, Frame("exchangeDelivery", t, Nil, g, FALSE), "getDelivery")

PollTicket(r, t) ==
    Request(r, Frame("poll", t, Nil, Nil, FALSE), "snapshot")

\* cleanupExpired visits the keys that SCAN returned, one after the other;
\* one visit is a request.
CleanTicket(r, t) ==
    /\ tickets[t] # Nil
    /\ Request(r, Frame("cleanTicket", t, Nil, Nil, FALSE), "cleanGet")

CleanGrant(r, g) ==
    /\ grants[g] # Nil
    /\ Request(r, Frame("cleanGrant", Nil, Nil, g, FALSE), "cleanGet")

-----------------------------------------------------------------------------
(* getTicket and what each caller does with the object it returns.         *)

\* The caller goes on with tk changed to new, at label l.
Continue(r, new, l) ==
    /\ copy' = [copy EXCEPT ![r] = new]
    /\ Goto(r, l)
    /\ UNCHANGED call

\* Mutants: a scan of any unscanned ticket; an approved or a rejected ticket
\* counted as open.
ScanChecksLoose(tk)    == tk.status # "SCANNED"
OpenChecksApproved(tk) == tk.status \in {"PENDING", "SCANNED", "APPROVED"}
OpenChecksRejected(tk) == tk.status \in {"PENDING", "SCANNED", "REJECTED"}

ScanChecks(tk) == tk.status = "PENDING"

OpenChecks(tk) == tk.status \in {"PENDING", "SCANNED"}

ApproveChecks(c, tk) == OpenChecks(tk) /\ c.valid

DeliveryChecks(tk) == tk.status = "APPROVED"

\* The code of each caller between getTicket and its own SETEX.
Resume(r, tk) ==
    LET c == call[r] IN
    \/ /\ c.op = "scan" /\ ScanChecks(tk)
       /\ Continue(r, Bump(tk, "SCANNED"), "putTicket")
       /\ UNCHANGED verified
    \/ /\ c.op = "approve" /\ ApproveChecks(c, tk)
       /\ Continue(r, [Bump(tk, "APPROVED") EXCEPT !.approvedBy = c.user],
                   "putTicket")
       /\ verified' = verified \cup {<<c.tid, c.user>>}
    \/ /\ c.op = "reject" /\ OpenChecks(tk)
       /\ Continue(r, Bump(tk, "REJECTED"), "putTicket")
       /\ UNCHANGED verified
    \/ /\ c.op = "exchangeGrant"
       /\ Continue(r, Bump(tk, "USED"), "putTicket")
       /\ UNCHANGED verified
    \/ /\ c.op = "exchangeDelivery" /\ DeliveryChecks(tk)
       /\ copy' = [copy EXCEPT ![r] = Bump(tk, "USED")]
       /\ call' = [call EXCEPT ![r].user = tk.approvedBy]
       /\ Goto(r, "putTicket")
       /\ UNCHANGED verified
    \/ /\ \/ c.op = "view"
          \/ c.op = "scan" /\ ~ScanChecks(tk)
          \/ c.op = "approve" /\ ~ApproveChecks(c, tk)
          \/ c.op = "reject" /\ ~OpenChecks(tk)
          \/ c.op = "exchangeDelivery" /\ ~DeliveryChecks(tk)
       /\ Finish(r)
       /\ UNCHANGED verified

\* GET of the ticket: not found ends the request with 404; a ticket past its
\* expiry is marked and written back before the caller sees it.
GetTicket(r) ==
    /\ pc[r] = "getTicket"
    /\ LET key == tickets[call[r].tid] IN
       \/ /\ key = Nil
          /\ Finish(r)
          /\ UNCHANGED verified
       \/ /\ Past(key)
          /\ Continue(r, [key.val EXCEPT !.status = "EXPIRED"], "putExpired")
          /\ UNCHANGED verified
       \/ /\ Live(key)
          /\ Resume(r, key.val)
    /\ UNCHANGED <<redis, bounds, seen, created, executed, rejected, redeemed>>

PutExpired(r) ==
    /\ pc[r] = "putExpired"
    /\ WriteTicket(r)
    /\ Resume(r, copy[r])
    /\ UNCHANGED <<grants, deliveries, bounds, seen, created, executed,
                   rejected, redeemed>>

\* Mutant: the grant is stored without running the action.
AfterPutNoAction(o) ==
    CASE o = "approve"       -> "putGrant"
      [] o = "exchangeGrant" -> "delGrant"
      [] OTHER               -> "publish"

\* The operation's own SETEX, and where its caller goes from there.
AfterPut(o) ==
    CASE o = "approve"       -> "runAction"
      [] o = "exchangeGrant" -> "delGrant"
      [] OTHER               -> "publish"

PutTicket(r) ==
    /\ pc[r] = "putTicket"
    /\ WriteTicket(r)
    /\ \/ /\ call[r].op = "create"
          /\ Finish(r)
       \/ /\ call[r].op # "create"
          /\ Goto(r, AfterPut(call[r].op))
          /\ UNCHANGED <<call, copy>>
    /\ UNCHANGED <<grants, deliveries, bounds, seen, history>>

-----------------------------------------------------------------------------
(* approveTicket after the ticket is stored as APPROVED.                   *)

\* The action succeeds: the grant is built.
RunAction(r) ==
    /\ pc[r] = "runAction"
    /\ executed' = executed \cup
          {[by |-> r, tid |-> call[r].tid, user |-> call[r].user]}
    /\ call' = [call EXCEPT ![r].expiresAt = now + GrantTtl]
    /\ Goto(r, "putGrant")
    /\ UNCHANGED <<redis, copy, bounds, seen, created, verified, rejected,
                   redeemed>>

\* Mutant: the action's exception is swallowed and the grant built anyway.
FailActionIgnored(r) ==
    /\ pc[r] = "runAction"
    /\ call' = [call EXCEPT ![r].expiresAt = now + GrantTtl]
    /\ Goto(r, "putGrant")
    /\ UNCHANGED <<redis, copy, bounds, seen, history>>

\* The action throws: the ticket object goes back to PENDING; its version
\* and approvedBy stay as they were stored.
FailAction(r) ==
    /\ pc[r] = "runAction"
    /\ Continue(r, [copy[r] EXCEPT !.status = "PENDING"], "putRevert")
    /\ UNCHANGED <<redis, bounds, seen, history>>

PutRevert(r) ==
    /\ pc[r] = "putRevert"
    /\ WriteTicket(r)
    /\ Finish(r)
    /\ UNCHANGED <<grants, deliveries, bounds, seen, history>>

PutGrant(r) ==
    /\ pc[r] = "putGrant"
    /\ grants' = [grants EXCEPT ![r] =
          SetEx([tid |-> call[r].tid, user |-> call[r].user,
                 expiresAt |-> call[r].expiresAt], GrantTtl)]
    /\ \/ /\ copy[r].webSession # Nil
          /\ call' = [call EXCEPT ![r].expiresAt = now + GrantTtl]
          /\ Goto(r, "putDelivery")
       \/ /\ copy[r].webSession = Nil
          /\ Goto(r, "publish")
          /\ UNCHANGED call
    /\ UNCHANGED <<tickets, deliveries, copy, bounds, seen, history>>

\* createDeliveryCode: one key per ticket, so a second code replaces the first.
PutDelivery(r) ==
    /\ pc[r] = "putDelivery"
    /\ deliveries' = [deliveries EXCEPT ![call[r].tid] =
          SetEx([code |-> r, webSession |-> copy[r].webSession,
                 expiresAt |-> call[r].expiresAt], GrantTtl)]
    /\ Goto(r, "publish")
    /\ UNCHANGED <<tickets, grants, call, copy, bounds, seen, history>>

-----------------------------------------------------------------------------
(* Exchanges.                                                              *)

\* The exchange goes on with the ticket and the user of the grant it read.
OfGrant(c, g) ==
    [Frame("exchangeGrant", c.asked, g.user, c.code, FALSE) EXCEPT !.tid = g.tid]

\* exchangeGrant: GET of the grant; the ticket is the one the grant names.
GetGrant(r) ==
    /\ pc[r] = "getGrant"
    /\ LET key == grants[call[r].code] IN
       \/ /\ ~Live(key)
          /\ Finish(r)
       \/ /\ Live(key)
          /\ call' = [call EXCEPT ![r] = OfGrant(@, key.val)]
          /\ Goto(r, "getTicket")
          /\ UNCHANGED copy
    /\ UNCHANGED <<redis, bounds, seen, history>>

\* Mutant: the grant is not deleted.
DelGrantKept(r) ==
    /\ pc[r] = "delGrant"
    /\ Goto(r, "publish")
    /\ UNCHANGED <<redis, call, copy, bounds, seen, history>>

DelGrant(r) ==
    /\ pc[r] = "delGrant"
    /\ grants' = [grants EXCEPT ![call[r].code] = Nil]
    /\ Goto(r, "publish")
    /\ UNCHANGED <<tickets, deliveries, call, copy, bounds, seen, history>>

\* validateAndConsumeDeliveryCode: an expired key is deleted and refused, a
\* wrong code is refused, the right one is deleted and accepted.
Matches(c, key) == Live(key) /\ key.val.code = c.code

GetDelivery(r) ==
    /\ pc[r] = "getDelivery"
    /\ LET c   == call[r]
           key == deliveries[c.tid]
       IN \/ /\ Past(key) \/ Matches(c, key)
             /\ call' = [call EXCEPT ![r].valid = Matches(c, key)]
             /\ Goto(r, "delDelivery")
             /\ UNCHANGED copy
          \/ /\ ~(Past(key) \/ Matches(c, key))
             /\ Finish(r)
    /\ UNCHANGED <<redis, bounds, seen, history>>

\* DEL of the ticket's delivery key, whichever code it now holds.
DelDelivery(r) ==
    /\ pc[r] = "delDelivery"
    /\ deliveries' = [deliveries EXCEPT ![call[r].tid] = Nil]
    /\ \/ /\ call[r].valid
          /\ Goto(r, "getTicket")
          /\ UNCHANGED <<call, copy>>
       \/ /\ ~call[r].valid
          /\ Finish(r)
    /\ UNCHANGED <<tickets, grants, bounds, seen, history>>

\* publishStatusChange swallows its errors; the handler then answers.  The
\* controller refuses a grant of another ticket only here, after the fact.
Answered(c) ==
    \/ c.op = "exchangeDelivery"
    \/ c.op = "exchangeGrant" /\ c.tid = c.asked

Publish(r) ==
    /\ pc[r] = "publish"
    /\ rejected' = rejected \cup
          {t \in {call[r].tid} : call[r].op = "reject"}
    /\ redeemed' = redeemed \cup
          {m \in {[by |-> r, via |-> call[r].op, code |-> call[r].code,
                   tid |-> call[r].tid, user |-> call[r].user]} :
             Answered(call[r])}
    /\ Finish(r)
    /\ UNCHANGED <<redis, bounds, seen, created, verified, executed>>

-----------------------------------------------------------------------------
(* pollTicket: readTicketSnapshot, the ETag test, tryGetDeliveryCode.      *)

Etag(tk) == [status |-> tk.status, version |-> tk.version]

\* The client sends the ETag of its last answer; equal versions get a 304.
NotModified(t, tk) == seen[t] # Nil /\ seen[t].version = tk.version

\* The snapshot is answered, after a look for the delivery code if APPROVED.
AnswerPoll(r, t, tk) ==
    \/ /\ NotModified(t, tk)
       /\ Finish(r)
       /\ UNCHANGED seen
    \/ /\ ~NotModified(t, tk)
       /\ seen' = [seen EXCEPT ![t] = Etag(tk)]
       /\ \/ /\ tk.status = "APPROVED"
             /\ Continue(r, tk, "tryGetDelivery")
          \/ /\ tk.status # "APPROVED"
             /\ Finish(r)

Snapshot(r) ==
    /\ pc[r] = "snapshot"
    /\ LET t   == call[r].tid
           key == tickets[t]
       IN \/ /\ key = Nil
             /\ Finish(r)
             /\ UNCHANGED seen
          \/ /\ Past(key)
             /\ Continue(r, Bump(key.val, "EXPIRED"), "putSnapshot")
             /\ UNCHANGED seen
          \/ /\ Live(key)
             /\ AnswerPoll(r, t, key.val)
    /\ UNCHANGED <<redis, bounds, history>>

PutSnapshot(r) ==
    /\ pc[r] = "putSnapshot"
    /\ WriteTicket(r)
    /\ AnswerPoll(r, call[r].tid, copy[r])
    /\ UNCHANGED <<grants, deliveries, bounds, history>>

\* tryGetDeliveryCode; the code itself is read by the client, an expired one
\* is deleted.
TryGetDelivery(r) ==
    /\ pc[r] = "tryGetDelivery"
    /\ LET key == deliveries[call[r].tid] IN
       \/ /\ Past(key)
          /\ Goto(r, "delDelivery")
          /\ UNCHANGED <<call, copy>>
       \/ /\ ~Past(key)
          /\ Finish(r)
    /\ UNCHANGED <<redis, bounds, seen, history>>

-----------------------------------------------------------------------------
(* cleanupExpired, on one key: GET, then DEL if the object has expired.    *)

CleanGet(r) ==
    /\ pc[r] = "cleanGet"
    /\ LET key == IF call[r].op = "cleanTicket" THEN tickets[call[r].tid]
                                                ELSE grants[call[r].code]
       IN \/ /\ Past(key)
             /\ Goto(r, "cleanDel")
             /\ UNCHANGED <<call, copy>>
          \/ /\ ~Past(key)
             /\ Finish(r)
    /\ UNCHANGED <<redis, bounds, seen, history>>

CleanDel(r) ==
    /\ pc[r] = "cleanDel"
    /\ \/ /\ call[r].op = "cleanTicket"
          /\ tickets' = [tickets EXCEPT ![call[r].tid] = Nil]
          /\ UNCHANGED grants
       \/ /\ call[r].op = "cleanGrant"
          /\ grants' = [grants EXCEPT ![call[r].code] = Nil]
          /\ UNCHANGED tickets
    /\ Finish(r)
    /\ UNCHANGED <<deliveries, bounds, seen, history>>

-----------------------------------------------------------------------------
(* The environment.                                                        *)

\* A Redis command throws: CacheService rethrows and the request ends with
\* its earlier writes in place.  The action's own failure is FailAction, and
\* a failed publish is swallowed.
RedisError(r) ==
    /\ pc[r] \notin {"idle", "done", "runAction", "publish"}
    /\ Finish(r)
    /\ UNCHANGED <<redis, bounds, seen, history>>

\* Time passes; Redis drops the keys whose TTL has run out.
Tick ==
    /\ now < MaxTime
    /\ now' = now + 1
    /\ tickets' = Unexpired(tickets, now + 1)
    /\ grants' = Unexpired(grants, now + 1)
    /\ deliveries' = Unexpired(deliveries, now + 1)
    /\ UNCHANGED <<locals, started, restarts, seen, history>>

\* An instance restarts: the requests it was serving die, and CacheService's
\* onModuleInit flushes Redis under the requests of the other instances.
Restart ==
    /\ restarts < MaxRestarts
    /\ restarts' = restarts + 1
    /\ \E dead \in SUBSET InFlight :
          /\ pc' = [r \in Rid |-> IF r \in dead THEN "done" ELSE pc[r]]
          /\ call' = [r \in Rid |-> IF r \in dead THEN Nil ELSE call[r]]
          /\ copy' = [r \in Rid |-> IF r \in dead THEN Nil ELSE copy[r]]
    /\ tickets' = [t \in Tid |-> Nil]
    /\ grants' = [g \in Rid |-> Nil]
    /\ deliveries' = [t \in Tid |-> Nil]
    /\ UNCHANGED <<now, started, seen, history>>

-----------------------------------------------------------------------------
Init ==
    /\ now = 0 /\ started = 0 /\ restarts = 0
    /\ tickets = [t \in Tid |-> Nil]
    /\ grants = [g \in Rid |-> Nil]
    /\ deliveries = [t \in Tid |-> Nil]
    /\ pc = [r \in Rid |-> "idle"]
    /\ call = [r \in Rid |-> Nil]
    /\ copy = [r \in Rid |-> Nil]
    /\ seen = [t \in Tid |-> Nil]
    /\ created = {} /\ verified = {} /\ executed = {}
    /\ rejected = {} /\ redeemed = {}

\* Tokens and codes are random: a client can only present one that an
\* approval generated, used up or not, for whichever ticket.
Issued == {e.by : e \in executed} \cup {g \in Rid : grants[g] # Nil}

\* Nor does a client know a ticket id before createTicket has answered.
Known == {t \in created :
            \A q \in InFlight : call[q].op = "create" => call[q].tid # t}

Arrive(r) ==
    \/ \E t \in Tid, s \in Session \cup {Nil} : CreateTicket(r, t, s)
    \/ \E t \in Known :
         \/ ViewTicket(r, t)
         \/ \E u \in User : \/ ScanTicket(r, t, u)
                            \/ \E v \in BOOLEAN : ApproveTicket(r, t, u, v)
                            \/ RejectTicket(r, t, u)
         \/ \E g \in Issued : ExchangeGrant(r, t, g) \/ ExchangeDelivery(r, t, g)
         \/ PollTicket(r, t)
         \/ CleanTicket(r, t)
    \/ \E g \in Rid : CleanGrant(r, g)

Serve(r) ==
    \/ GetTicket(r) \/ PutExpired(r) \/ PutTicket(r)
    \/ RunAction(r) \/ FailAction(r) \/ PutRevert(r)
    \/ PutGrant(r) \/ PutDelivery(r)
    \/ GetGrant(r) \/ DelGrant(r) \/ GetDelivery(r) \/ DelDelivery(r)
    \/ Publish(r)
    \/ Snapshot(r) \/ PutSnapshot(r) \/ TryGetDelivery(r)
    \/ CleanGet(r) \/ CleanDel(r)

Next ==
    \/ \E r \in Rid : Arrive(r) \/ Serve(r) \/ RedisError(r)
    \/ Tick
    \/ Restart

Spec == Init /\ [][Next]_vars

-----------------------------------------------------------------------------
(* What holds of every instance.                                           *)

\* Types of the Redis keys, the requests' frames and the histories.
TypeOK ==
    /\ now \in Nat /\ started \in 0..MaxRequests /\ restarts \in Nat
    /\ tickets \in [Tid -> Key(Ticket)]
    /\ grants \in [Rid -> Key(Grant)]
    /\ deliveries \in [Tid -> Key(Delivery)]
    /\ pc \in [Rid -> Pc]
    /\ call \in [Rid -> Call \cup {Nil}]
    /\ copy \in [Rid -> Ticket \cup {Nil}]
    /\ seen \in [Tid -> [status: Status, version: Nat] \cup {Nil}]
    /\ created \subseteq Tid
    /\ verified \subseteq Tid \X User
    /\ executed \subseteq [by: Rid, tid: Tid, user: User]
    /\ rejected \subseteq Tid
    /\ redeemed \subseteq [by: Rid, via: {"exchangeGrant", "exchangeDelivery"},
                          code: Rid, tid: Tid, user: User]

\* The action that request g ran to success was for ticket t.
RanFor(g, t) == \E e \in executed : e.by = g /\ e.tid = t

\* However requests interleave, fail half way or meet a flushed Redis, an
\* exchange answers only with an approval that happened: a grant token names
\* the user whose action ran (approveTicket stores the grant after the
\* action), a delivery code was made after an action of that ticket and the
\* user it answers with passed that ticket's PKCE check.
RedemptionBacked ==
    \A m \in redeemed :
        /\ RanFor(m.code, m.tid)
        /\ m.via = "exchangeGrant" =>
              [by |-> m.code, tid |-> m.tid, user |-> m.user] \in executed
        /\ m.via = "exchangeDelivery" => <<m.tid, m.user>> \in verified

\* A ticket is never stored as USED unless its action ran, even when the
\* status is written from a stale copy.
UsedIsEarned ==
    \A t \in Tid :
        tickets[t] # Nil /\ tickets[t].val.status = "USED" =>
            \E e \in executed : e.tid = t

\* EXPIRED is only written after expiresAt, which no operation extends.
ExpiredIsPast ==
    \A t \in Tid :
        tickets[t] # Nil /\ tickets[t].val.status = "EXPIRED" =>
            now > tickets[t].val.expiresAt

\* A ticket's delivery code is bound to the web session the ticket was
\* created for, and a ticket without a session has none.
SessionBound ==
    \A t \in Tid :
        tickets[t] # Nil /\ deliveries[t] # Nil =>
            deliveries[t].val.webSession = tickets[t].val.webSession

Ledger == INSTANCE ApprovalLedger
             WITH Tid <- Tid, User <- User, Rid <- Rid, verified <- verified,
                  executed <- executed, redeemed <- redeemed

\* Seen from its histories alone, every behaviour of the flow is one of the
\* approval ledger: approvals and exchanges are only ever added, each backed
\* by the lines before it (approveTicket, exchangeGrant and
\* exchangeDeliveryCode with everything they do in between).
ImplementsLedger == Ledger!Spec

-----------------------------------------------------------------------------
(* What holds when requests do not overlap (MaxInFlight = 1).              *)

\* approveTicket runs a ticket's action at most once, also after a failed
\* action put the ticket back to PENDING.
ActionRunsOnce ==
    \A e, f \in executed : e.tid = f.tid => e = f

\* A grant token and a delivery code are each exchanged at most once.
CodesRedeemOnce ==
    \A m, n \in redeemed : m.via = n.via /\ m.code = n.code => m = n

\* A ticket whose rejection was acknowledged ran no action and is never
\* exchanged.
RejectionIsFinal ==
    \A t \in rejected :
        /\ \A e \in executed : e.tid # t
        /\ \A m \in redeemed : m.tid # t

\* The user that a delivery code answers with is the one whose action ran,
\* although it is read from the ticket and not from the code.
DeliveredUserRan ==
    \A m \in redeemed :
        m.via = "exchangeDelivery" =>
            [by |-> m.code, tid |-> m.tid, user |-> m.user] \in executed

\* "Returns 304 Not Modified if status hasn't changed" (docs/QR_ACTIONS.md):
\* a poll whose ETag matches the stored version finds the status its client
\* last saw.  (An expired ticket gets a new version from the poll itself.)
NotModifiedIsFresh ==
    \A t \in Tid :
        Live(tickets[t]) /\ NotModified(t, tickets[t].val) =>
            seen[t].status = tickets[t].val.status

\* The life cycle of a stored ticket; the way back to PENDING is the failed
\* action's, and EXPIRED may be overwritten only by an exchange.
Successors ==
    [PENDING  |-> {"SCANNED", "APPROVED", "REJECTED", "EXPIRED"},
     SCANNED  |-> {"APPROVED", "REJECTED", "EXPIRED"},
     APPROVED |-> {"PENDING", "USED", "EXPIRED"},
     REJECTED |-> {"EXPIRED"},
     USED     |-> {"EXPIRED"},
     EXPIRED  |-> {"USED"}]

\* While its key exists, a ticket is only rewritten along the life cycle and
\* its version never goes back.
LifeCycle ==
    [][\A t \in Tid :
         tickets[t] # Nil /\ tickets'[t] # Nil =>
             LET old == tickets[t].val
                 new == tickets'[t].val
             IN /\ new.status # old.status =>
                      new.status \in Successors[old.status]
                /\ new.version >= old.version
      ]_vars

=============================================================================
