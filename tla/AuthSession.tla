---------------------------- MODULE AuthSession ----------------------------
(***************************************************************************)
(* Sessions and their tokens: generateToken, refreshToken, logout and      *)
(* logoutAll of AuthService (src/src/auth/auth.service.ts), the session    *)
(* part of UsersService (src/src/users/users.service.ts) and the guards    *)
(* that ask Redis about a token (src/src/auth/guard).                      *)
(*                                                                         *)
(* A session lives in two places: a row of the database and two Redis      *)
(* keys.  A token is accepted when its signature is valid and its key is   *)
(* there, whatever the row says; a refresh also looks at the row.  Nothing *)
(* ties the two places together, so a request is a process whose steps are *)
(* its queries and Redis commands; the two sides of a Promise.all advance  *)
(* in any order.                                                           *)
(*                                                                         *)
(* There is no clock: a key may run out and a token or a row may be found  *)
(* expired at any time.  A session is named by the request that created it.*)
(***************************************************************************)
EXTENDS Naturals, FiniteSets

CONSTANTS
    User,         \* users that can log in
    Nil,          \* null
    MaxRequests,  \* bound: requests in a behaviour
    MaxSessions,  \* bound: sessions created
    MaxInFlight,  \* bound: requests being served at the same time
    MaxLosses     \* bound: keys that run out and restarts of an instance

Rid == 1..MaxRequests

\* auth:user:<uid>:accessToken:<ssid> and auth:user:<uid>:refreshToken:<ssid>;
\* a session has one user.
Key == {"access", "refresh"} \X Rid

UserSession == [user: User, revoked: BOOLEAN]

Op == {"login", "use", "refresh", "logout", "logoutAll"}

\* The payload of the request's token and the locals: whether the database
\* side is still to run, the keys still to set or delete, and whether a side
\* has failed.  The last three are history:
\* the sessions this logout is to end, and whether, when the request arrived,
\* its session's row was revoked and an answered logout had ended it.
Call == [op: Op, user: User, ssid: Rid, db: BOOLEAN, todo: SUBSET Key,
         failed: BOOLEAN, ends: SUBSET Rid, revoked: BOOLEAN, ended: BOOLEAN]

Pc == {"idle", "createSession", "setKeys", "guard", "findSession", "putAccess",
       "ending", "done"}

ASSUME ConstantsAssumption ==
    /\ MaxRequests \in Nat /\ MaxInFlight \in Nat
    /\ MaxSessions \in Nat /\ MaxLosses \in Nat

ASSUME NilAssumption == Nil \notin UserSession /\ Nil \notin Call

VARIABLES
    sessions,  \* database: the row of each session
    keys,      \* Redis: the token keys that are there
    started,   \* requests issued so far
    losses,    \* keys that ran out and restarts so far
    pc,        \* where each request is
    call,      \* its arguments and locals
    known,     \* history: sessions whose login was answered
    ended,     \* history: sessions ended by a logout that was answered
    logouts,   \* history: the logouts asked for
    raced      \* history: sessions that a refresh and a logout of theirs
               \*   were in flight for at the same time

store   == <<sessions, keys>>
bounds  == <<started, losses>>
history == <<known, ended, logouts, raced>>
vars    == <<store, bounds, pc, call, history>>

-----------------------------------------------------------------------------
InFlight == {r \in Rid : pc[r] \notin {"idle", "done"}}

Goto(r, l) == pc' = [pc EXCEPT ![r] = l]

Finish(r) ==
    /\ Goto(r, "done")
    /\ call' = [call EXCEPT ![r] = Nil]

Revoked == {s \in Rid : sessions[s] # Nil /\ sessions[s].revoked}

KeysOf(s) == {k \in Key : k[2] = s}

-----------------------------------------------------------------------------
(* Arrivals.                                                               *)

\* The frame of operation o of user u and session s.
NewCall(o, u, s, ends) ==
    [op |-> o, user |-> u, ssid |-> s, db |-> FALSE, todo |-> {},
     failed |-> FALSE, ends |-> ends, revoked |-> s \in Revoked,
     ended |-> s \in ended]

\* Frame c with other locals.
WithLocals(c, db, todo, failed) ==
    [op |-> c.op, user |-> c.user, ssid |-> c.ssid, db |-> db, todo |-> todo,
     failed |-> failed, ends |-> c.ends, revoked |-> c.revoked,
     ended |-> c.ended]

\* A frame that refreshes session s, and one that ends it.
Opens(c, s) == c.op = "refresh" /\ c.ssid = s
Ends(c, s)  == c.op \in {"logout", "logoutAll"} /\ s \in c.ends

\* Request r enters as operation o of user u and session s, at label l.
Enter(r, o, u, s, ends, l) ==
    /\ r = started + 1
    /\ Cardinality(InFlight) < MaxInFlight
    /\ started' = r
    /\ Goto(r, l)
    /\ call' = [call EXCEPT ![r] = NewCall(o, u, s, ends)]
    /\ raced' = raced \cup
          {x \in Rid : \E q \in InFlight :
             \/ Opens(call[q], x) /\ Ends(NewCall(o, u, s, ends), x)
             \/ Ends(call[q], x) /\ Opens(NewCall(o, u, s, ends), x)}
    /\ logouts' = IF ends = {} THEN logouts
                  ELSE logouts \cup {[op |-> o, user |-> u, ssid |-> s]}
    /\ UNCHANGED <<store, losses, known, ended>>

\* login and verifyOtp, from generateToken on; the session will be r's.
Login(r, u) ==
    /\ Cardinality({s \in Rid : sessions[s] # Nil \/ pc[s] = "createSession"})
          < MaxSessions
    /\ Enter(r, "login", u, r, {}, "createSession")

\* Requests with a token of a session whose login was answered.
UseToken(r, s) == Enter(r, "use", sessions[s].user, s, {}, "guard")

RefreshToken(r, s) == Enter(r, "refresh", sessions[s].user, s, {}, "guard")

Logout(r, s) == Enter(r, "logout", sessions[s].user, s, {s}, "guard")

\* The caller expects every session of the user that it can know of to end.
LogoutAll(r, s) ==
    Enter(r, "logoutAll", sessions[s].user, s,
          {x \in known : sessions[x].user = sessions[s].user}, "guard")

-----------------------------------------------------------------------------
(* generateToken.                                                          *)

\* The row of a new session.
NewSession(u) == [user |-> u, revoked |-> FALSE]

\* INSERT of the session; the tokens are signed and both SETs are sent.
CreateSession(r) ==
    /\ pc[r] = "createSession"
    /\ sessions' = [sessions EXCEPT ![r] = NewSession(call[r].user)]
    /\ call' = [call EXCEPT ![r] = WithLocals(@, FALSE, KeysOf(r), FALSE)]
    /\ Goto(r, "setKeys")
    /\ UNCHANGED <<keys, bounds, history>>

\* One of the SETs succeeds or fails; the login is answered after both.
SetKey(r, k, ok) ==
    /\ pc[r] = "setKeys"
    /\ k \in call[r].todo
    /\ keys' = IF ok THEN keys \cup {k} ELSE keys
    /\ \/ /\ call[r].todo # {k}
          /\ call' = [call EXCEPT ![r] =
                WithLocals(@, FALSE, @.todo \ {k}, @.failed \/ ~ok)]
          /\ UNCHANGED <<pc, known>>
       \/ /\ call[r].todo = {k}
          /\ known' = IF ok /\ ~call[r].failed THEN known \cup {r} ELSE known
          /\ Finish(r)
    /\ UNCHANGED <<sessions, bounds, ended, logouts, raced>>

-----------------------------------------------------------------------------
(* The guards.                                                             *)

\* The TTL of the token's key: the refresh token's for a refresh, the access
\* token's for everything else.
LetThrough(c) ==
    IF c.op = "refresh" THEN <<"refresh", c.ssid>> \in keys
                        ELSE <<"access", c.ssid>> \in keys

\* Mutants: a logout that scans for the keys of the user, and a logout of all
\* sessions that scans for those of the caller's session.
DoomedUser(c) == {k \in Key : sessions[k[2]] # Nil /\ sessions[k[2]].user = c.user}
DoomedOwn(c)  == KeysOf(c.ssid)

\* The pattern that the logout scans for: the session's id, or the user's.
Doomed(c) ==
    IF c.op = "logout" THEN KeysOf(c.ssid)
    ELSE {k \in Key : sessions[k[2]] # Nil /\ sessions[k[2]].user = c.user}

\* A token that fails the guard, by its expiry or its key, is answered 401.
GuardRefuses(r) ==
    /\ pc[r] = "guard"
    /\ Finish(r)
    /\ UNCHANGED <<store, bounds, history>>

\* A refresh goes on to the session's row, a logout to both sides of its
\* Promise.all; any other handler is outside of this module.
GuardPasses(r) ==
    /\ pc[r] = "guard"
    /\ LetThrough(call[r])
    /\ \/ /\ call[r].op = "use"
          /\ Finish(r)
       \/ /\ call[r].op = "refresh"
          /\ Goto(r, "findSession")
          /\ UNCHANGED call
       \/ /\ call[r].op \in {"logout", "logoutAll"}
          /\ Goto(r, "ending")
          /\ call' = [call EXCEPT ![r] = WithLocals(@, TRUE, Doomed(@), FALSE)]
    /\ UNCHANGED <<store, bounds, history>>

-----------------------------------------------------------------------------
(* refreshToken.                                                           *)

\* Mutant: the row is looked up by its id alone.
RowFoundAny(s) == sessions[s] # Nil

\* findOne({id, revoked: false}).
RowFound(s) == sessions[s] # Nil /\ ~sessions[s].revoked

\* A row that is missing, revoked or expired is answered 401.
FindSession(r) ==
    /\ pc[r] = "findSession"
    /\ \/ Finish(r)
       \/ /\ RowFound(call[r].ssid)
          /\ Goto(r, "putAccess")
          /\ UNCHANGED call
    /\ UNCHANGED <<store, bounds, history>>

\* The user has been read and the token signed: SET of the access key.
PutAccess(r) ==
    /\ pc[r] = "putAccess"
    /\ keys' = keys \cup {<<"access", call[r].ssid>>}
    /\ Finish(r)
    /\ UNCHANGED <<sessions, bounds, history>>

-----------------------------------------------------------------------------
(* logout and logoutAll.                                                   *)

\* Request r goes on with frame c; once both sides are through it is answered.
Settle(r, c) ==
    IF c.db \/ c.todo # {}
    THEN /\ call' = [call EXCEPT ![r] = c]
         /\ UNCHANGED <<pc, ended>>
    ELSE /\ Finish(r)
         /\ ended' = IF c.failed THEN ended ELSE ended \cup c.ends

\* revokeSession, and revokeSessionsByUserId: one UPDATE of the user's rows.
Revoke(c) ==
    [s \in Rid |->
       IF sessions[s] # Nil
          /\ IF c.op = "logout" THEN s = c.ssid ELSE sessions[s].user = c.user
       THEN [user |-> sessions[s].user, revoked |-> TRUE]
       ELSE sessions[s]]

RevokeRows(r) ==
    /\ pc[r] = "ending"
    /\ call[r].db
    /\ sessions' = Revoke(call[r])
    /\ Settle(r, WithLocals(call[r], FALSE, call[r].todo, call[r].failed))
    /\ UNCHANGED <<keys, bounds, known, logouts, raced>>

\* SCAN and DEL until the cursor is back at 0.  A key counts as visited when
\* it is deleted, or found to be missing: one that is set or deleted between
\* the SCAN and the DEL fares as if it had been visited just after.  A SCAN
\* returns every key that is there throughout; it may return one again, and
\* may miss one that was set meanwhile.
Sweep(r, k) ==
    /\ pc[r] = "ending"
    /\ call[r].todo # {}
    /\ k \in Doomed(call[r])
    /\ keys' = keys \ {k}
    /\ Settle(r, WithLocals(call[r], call[r].db, call[r].todo \ {k}, call[r].failed))
    /\ UNCHANGED <<sessions, bounds, known, logouts, raced>>

-----------------------------------------------------------------------------
(* Failures, expiry, restarts.                                             *)

\* The pending query or command fails, or the user is not found, and the
\* request is answered with an error.
QueryFails(r) ==
    /\ pc[r] \in {"createSession", "findSession", "putAccess"}
    /\ Finish(r)
    /\ UNCHANGED <<store, bounds, history>>

\* One side of a logout fails; the other runs on all the same.
SideFails(r) ==
    /\ pc[r] = "ending"
    /\ \/ /\ call[r].db
          /\ Settle(r, WithLocals(call[r], FALSE, call[r].todo, TRUE))
       \/ /\ call[r].todo # {}
          /\ Settle(r, WithLocals(call[r], call[r].db, {}, TRUE))
    /\ UNCHANGED <<store, bounds, known, logouts, raced>>

Expire(k) ==
    /\ losses < MaxLosses
    /\ k \in keys
    /\ losses' = losses + 1
    /\ keys' = keys \ {k}
    /\ UNCHANGED <<sessions, started, pc, call, history>>

\* A server instance goes down with the requests it serves; as it comes up,
\* onModuleInit empties Redis.
Restart(dead) ==
    /\ losses < MaxLosses
    /\ losses' = losses + 1
    /\ keys' = {}
    /\ pc' = [r \in Rid |-> IF r \in dead THEN "done" ELSE pc[r]]
    /\ call' = [r \in Rid |-> IF r \in dead THEN Nil ELSE call[r]]
    /\ UNCHANGED <<sessions, started, history>>

-----------------------------------------------------------------------------
Init ==
    /\ sessions = [s \in Rid |-> Nil]
    /\ keys = {}
    /\ started = 0 /\ losses = 0
    /\ pc = [r \in Rid |-> "idle"]
    /\ call = [r \in Rid |-> Nil]
    /\ known = {} /\ ended = {} /\ logouts = {} /\ raced = {}

Arrive ==
    \E r \in Rid :
       \/ \E u \in User : Login(r, u)
       \/ \E s \in known :
             \/ UseToken(r, s)
             \/ RefreshToken(r, s)
             \/ Logout(r, s)
             \/ LogoutAll(r, s)

Step ==
    \E r \in Rid :
       \/ CreateSession(r)
       \/ \E k \in KeysOf(r), ok \in BOOLEAN : SetKey(r, k, ok)
       \/ GuardRefuses(r)
       \/ GuardPasses(r)
       \/ FindSession(r)
       \/ PutAccess(r)
       \/ RevokeRows(r)
       \/ \E k \in Key : Sweep(r, k)
       \/ QueryFails(r)
       \/ SideFails(r)

Next ==
    \/ Arrive
    \/ Step
    \/ \E k \in Key : Expire(k)
    \/ \E dead \in SUBSET InFlight : Restart(dead)

Spec == Init /\ [][Next]_vars

-----------------------------------------------------------------------------
(* Properties.                                                             *)

\* Every variable has its type.
TypeOK ==
    /\ sessions \in [Rid -> UserSession \cup {Nil}]
    /\ keys \subseteq Key
    /\ started \in 0..MaxRequests
    /\ losses \in 0..MaxLosses
    /\ pc \in [Rid -> Pc]
    /\ call \in [Rid -> Call \cup {Nil}]
    /\ known \subseteq Rid /\ ended \subseteq Rid /\ raced \subseteq Rid
    /\ logouts \subseteq [op : {"logout", "logoutAll"}, user : User, ssid : Rid]

\* Once a logout was answered, no later request with a token of a session it
\* ended passes the access guard, whatever the logout, logoutAll, failing
\* commands and restarts around it did.  A refresh of the session that was
\* under way during the logout may set its access key again, and such sessions
\* are in raced.
LogoutIsFinal ==
    \A r \in Rid :
       /\ pc[r] = "guard" /\ call[r].op # "refresh"
       /\ call[r].ended
       /\ LetThrough(call[r])
       => call[r].ssid \in raced

\* No refresh that arrived after the session's row was revoked issues a token,
\* even while the session's Redis keys are still there, be it that their
\* deletion has yet to come or that it failed.
RevokedNotRefreshed ==
    \A r \in Rid : pc[r] = "putAccess" => ~call[r].revoked

\* While no key runs out and no instance restarts, a session whose login was
\* answered keeps both of its keys and a row that is not revoked until a logout
\* of that very session or a logoutAll of its user is asked for: the logouts
\* reach no other session and no other user.
OthersStayLoggedIn ==
    losses = 0 =>
       \A s \in known :
          \/ KeysOf(s) \subseteq keys /\ s \notin Revoked
          \/ \E m \in logouts :
               IF m.op = "logout" THEN m.ssid = s ELSE m.user = sessions[s].user
=============================================================================
