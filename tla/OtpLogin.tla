------------------------------ MODULE OtpLogin ------------------------------
(***************************************************************************)
(* Login by a one-time code: AuthService.requestOtp and verifyOtp          *)
(* (src/src/auth/auth.service.ts) over RedisOtpStore                       *)
(* (src/src/auth/providers/otp-store.provider.ts).                         *)
(*                                                                         *)
(* The state is one Redis key per email; emails do not share any, so the   *)
(* model is the life of one of them.  A request is a process: a step is    *)
(* one command (a Lua script is one command) with the synchronous code     *)
(* after its await.  A code of an issue is named by the request that       *)
(* issued it; two issues may well have the same digits.                    *)
(***************************************************************************)
EXTENDS Integers, FiniteSets

CONSTANTS
    Code,         \* the digits generateOtpCode can return and a client type
    Nil,          \* null
    OtpTtl,       \* OTP_TTL_SECONDS
    MaxAttempts,  \* MAX_ATTEMPTS
    MaxRequests,  \* bound: requests in a behaviour
    MaxInFlight,  \* bound: requests being served at the same time
    MaxTime,      \* bound: the last instant of the clock
    MaxRestarts   \* bound: restarts of a server instance

Rid == 1..MaxRequests

\* OtpData.  isUsed is false in every stored object: markAsUsed sets it on a
\* copy that it deletes in the same script.
Otp == [issue: Rid, code: Code, expiresAt: Nat, attempts: Nat]

\* A request's arguments and locals: the code it generates or presents, its
\* otpData (built by requestOtp, read by verifyOtp) and when it had it, and
\* the issues that had already logged somebody in when it arrived.
Call == [op: {"request", "verify"}, code: Code, otpData: Otp \cup {Nil},
         at: Nat, used: SUBSET Rid]

Pc == {"idle", "findUser", "putOtp", "sendMail", "getOtp", "delOtp", "incr",
       "mark", "login", "done"}

ASSUME ConstantsAssumption ==
    /\ OtpTtl \in Nat \ {0} /\ MaxAttempts \in Nat \ {0}
    /\ MaxRequests \in Nat /\ MaxInFlight \in Nat
    /\ MaxTime \in Nat /\ MaxRestarts \in Nat

ASSUME NilAssumption ==
    /\ Nil \notin Nat /\ Nil \notin Call /\ Nil \notin Otp
    /\ Nil \notin [val: Otp, until: Nat \cup {Nil}]

VARIABLES
    now,       \* Date.now(), and the clock of Redis
    otp,       \* Redis: otp:otp:login:<email>, [val, until] or Nil
    started,   \* requests issued so far
    restarts,  \* restarts so far
    pc,        \* where each request is
    call,      \* its arguments and locals
    expiry,    \* history: expiresAt of each issue that was ever stored
    wrong,     \* history: wrong codes compared with each issue
    lost,      \* history: those whose increment failed
    logins     \* history: logins, with the issue that was accepted

bounds == <<now, started, restarts>>
tally  == <<expiry, wrong, lost>>
vars   == <<bounds, otp, pc, call, tally, logins>>

-----------------------------------------------------------------------------
InFlight == {r \in Rid : pc[r] \notin {"idle", "done"}}

Goto(r, l) == pc' = [pc EXCEPT ![r] = l]

\* The request has answered, with a result or an error.
Finish(r) ==
    /\ Goto(r, "done")
    /\ call' = [call EXCEPT ![r] = Nil]

\* The request now holds otpData o.
Hold(r, o) ==
    call' = [call EXCEPT ![r] = [op |-> @.op, code |-> @.code, otpData |-> o,
                                 at |-> now, used |-> @.used]]

Used == {m.issue : m \in logins}

Enter(r, o, c, l) ==
    /\ r = started + 1
    /\ Cardinality(InFlight) < MaxInFlight
    /\ started' = r
    /\ Goto(r, l)
    /\ call' = [call EXCEPT ![r] =
          [op |-> o, code |-> c, otpData |-> Nil, at |-> 0, used |-> Used]]
    /\ UNCHANGED <<now, restarts, otp, tally, logins>>

RequestOtp(r, c) == Enter(r, "request", c, "findUser")

VerifyOtp(r, c) == Enter(r, "verify", c, "getOtp")

-----------------------------------------------------------------------------
(* requestOtp.                                                             *)

\* findByEmail: nothing is stored or sent for an unknown email.
FindUser(r) ==
    /\ pc[r] = "findUser"
    /\ \/ /\ Hold(r, [issue |-> r, code |-> call[r].code,
                      expiresAt |-> now + OtpTtl, attempts |-> 0])
          /\ Goto(r, "putOtp")
       \/ Finish(r)
    /\ UNCHANGED <<bounds, otp, tally, logins>>

\* SETEX: the new code replaces the old one and its attempts.
PutOtp(r) ==
    /\ pc[r] = "putOtp"
    /\ otp' = [val |-> call[r].otpData, until |-> now + OtpTtl]
    /\ expiry' = [expiry EXCEPT ![r] = call[r].otpData.expiresAt]
    /\ Goto(r, "sendMail")
    /\ UNCHANGED <<bounds, call, wrong, lost, logins>>

\* The mail is queued, or the queue refuses it; the code stays either way.
SendMail(r) ==
    /\ pc[r] = "sendMail"
    /\ Finish(r)
    /\ UNCHANGED <<bounds, otp, tally, logins>>

-----------------------------------------------------------------------------
(* verifyOtp.                                                              *)

\* Mutant: the TTL of the key is trusted to end the code's life.
ExpiredByTtl(o) == FALSE

Expired(o) == now > o.expiresAt

Exhausted(o) == o.attempts >= MaxAttempts

\* RedisOtpStore.get and the checks that follow it: a missing code ends the
\* request, an expired or exhausted one is deleted, a wrong one is counted.
GetOtp(r) ==
    /\ pc[r] = "getOtp"
    /\ \/ /\ otp = Nil
          /\ Finish(r)
          /\ UNCHANGED wrong
       \/ /\ otp # Nil
          /\ Expired(otp.val) \/ Exhausted(otp.val)
          /\ Goto(r, "delOtp")
          /\ UNCHANGED <<call, wrong>>
       \/ /\ otp # Nil
          /\ ~Expired(otp.val) /\ ~Exhausted(otp.val)
          /\ Hold(r, otp.val)
          /\ \/ /\ otp.val.code = call[r].code
                /\ Goto(r, "mark")
                /\ UNCHANGED wrong
             \/ /\ otp.val.code # call[r].code
                /\ Goto(r, "incr")
                /\ wrong' = [wrong EXCEPT ![otp.val.issue] = @ + 1]
    /\ UNCHANGED <<bounds, otp, expiry, lost, logins>>

\* DEL, of whatever the key holds by now; the request then answers 401.
DelOtp(r) ==
    /\ pc[r] = "delOtp"
    /\ otp' = Nil
    /\ Finish(r)
    /\ UNCHANGED <<bounds, tally, logins>>

\* Mutant: the count is not saved.
IncrementUnsaved(o) == o

Increment(o) == [o EXCEPT !.attempts = @ + 1]

\* Mutant: GET and SET without the script, so the object read before is
\* written back whether or not the key is still there.
IncrAttemptsPlain(r) ==
    /\ pc[r] = "incr"
    /\ otp' = [val |-> Increment(call[r].otpData), until |-> Nil]
    /\ Finish(r)
    /\ UNCHANGED <<bounds, tally, logins>>

\* incrementAttempts: one script on whatever the key holds.  Its SET has no
\* TTL, so from here on only expiresAt ends the code's life.
IncrAttempts(r) ==
    /\ pc[r] = "incr"
    /\ \/ /\ otp = Nil
          /\ Finish(r)
          /\ UNCHANGED otp
       \/ /\ otp # Nil
          /\ otp' = [val |-> Increment(otp.val), until |-> Nil]
          /\ \/ /\ otp'.val.attempts >= MaxAttempts
                /\ Goto(r, "delOtp")
                /\ UNCHANGED call
             \/ /\ otp'.val.attempts < MaxAttempts
                /\ Finish(r)
    /\ UNCHANGED <<bounds, tally, logins>>

\* Mutant: the code is marked but its key kept.
MarkAsUsedKept(r) ==
    /\ pc[r] = "mark"
    /\ Goto(r, "login")
    /\ UNCHANGED <<bounds, otp, call, tally, logins>>

\* markAsUsed: DEL of whatever the key holds.  Its result, whether there was
\* anything to delete, is not looked at.
MarkAsUsed(r) ==
    /\ pc[r] = "mark"
    /\ otp' = Nil
    /\ Goto(r, "login")
    /\ UNCHANGED <<bounds, call, tally, logins>>

\* findByEmail, then generateToken: a session and its tokens (AuthSession).
Login(r) ==
    /\ pc[r] = "login"
    /\ \/ logins' = logins \cup
             {[by |-> r, issue |-> call[r].otpData.issue, at |-> call[r].at,
               used |-> call[r].used]}
       \/ UNCHANGED logins
    /\ Finish(r)
    /\ UNCHANGED <<bounds, otp, tally>>

-----------------------------------------------------------------------------
(* The environment.                                                        *)

\* A Redis command or a query throws: the request answers 500.  An increment
\* that fails leaves its wrong code uncounted.
CommandFails(r) ==
    /\ pc[r] \in {"findUser", "putOtp", "getOtp", "delOtp", "incr", "mark"}
    /\ Finish(r)
    /\ lost' = IF pc[r] = "incr" THEN [lost EXCEPT ![call[r].otpData.issue] = @ + 1]
                                 ELSE lost
    /\ UNCHANGED <<bounds, otp, expiry, wrong, logins>>

\* Time passes; Redis drops the key when its TTL, if it has one, runs out.
Tick ==
    /\ now < MaxTime
    /\ now' = now + 1
    /\ otp' = IF otp # Nil /\ otp.until # Nil /\ otp.until < now' THEN Nil
                                                                  ELSE otp
    /\ UNCHANGED <<started, restarts, pc, call, tally, logins>>

\* An instance restarts: CacheService.onModuleInit flushes Redis under the
\* requests of the other instances, and its own requests are gone.
Restart ==
    /\ restarts < MaxRestarts
    /\ restarts' = restarts + 1
    /\ otp' = Nil
    /\ \E dead \in SUBSET InFlight :
          /\ pc' = [r \in Rid |-> IF r \in dead THEN "done" ELSE pc[r]]
          /\ call' = [r \in Rid |-> IF r \in dead THEN Nil ELSE call[r]]
    /\ UNCHANGED <<now, started, tally, logins>>

-----------------------------------------------------------------------------
Init ==
    /\ now = 0 /\ started = 0 /\ restarts = 0
    /\ otp = Nil
    /\ pc = [r \in Rid |-> "idle"]
    /\ call = [r \in Rid |-> Nil]
    /\ expiry = [i \in Rid |-> Nil]
    /\ wrong = [i \in Rid |-> 0] /\ lost = [i \in Rid |-> 0]
    /\ logins = {}

Serve(r) ==
    \/ FindUser(r) \/ PutOtp(r) \/ SendMail(r)
    \/ GetOtp(r) \/ DelOtp(r) \/ IncrAttempts(r) \/ MarkAsUsed(r) \/ Login(r)

Next ==
    \/ \E r \in Rid :
         \/ \E c \in Code : RequestOtp(r, c) \/ VerifyOtp(r, c)
         \/ Serve(r)
         \/ CommandFails(r)
    \/ Tick
    \/ Restart

Spec == Init /\ [][Next]_vars

-----------------------------------------------------------------------------
\* Types; in particular the counter of attempts stops short of MaxAttempts
\* plus the requests that were between their look at it and their increment.
TypeOK ==
    /\ now \in Nat /\ started \in 0..MaxRequests /\ restarts \in Nat
    /\ otp \in [val: Otp, until: Nat \cup {Nil}] \cup {Nil}
    /\ otp # Nil => otp.val.attempts < MaxAttempts + MaxInFlight
    /\ pc \in [Rid -> Pc]
    /\ call \in [Rid -> Call \cup {Nil}]
    /\ expiry \in [Rid -> Nat \cup {Nil}]
    /\ wrong \in [Rid -> Nat] /\ lost \in [Rid -> Nat]
    /\ logins \subseteq [by: Rid, issue: Rid, at: Nat, used: SUBSET Rid]

\* However verifications overlap, an issue is compared with fewer than
\* MaxAttempts wrong codes, plus one for each request that can be between its
\* comparison and its increment, plus the increments that failed.
GuessLimit ==
    \A i \in Rid : wrong[i] < MaxAttempts + MaxInFlight + lost[i]

\* A code is only accepted within its five minutes, also after an increment
\* took the TTL from its key.
AcceptedInTime ==
    \A m \in logins : expiry[m.issue] # Nil /\ m.at <= expiry[m.issue]

\* Once a code has logged somebody in, no request that begins later is
\* accepted with it, whatever increments and deletions raced with the login.
UsedCodesRefused ==
    \A m \in logins : m.issue \notin m.used

\* An issue that left Redis (used, exhausted, expired, replaced or flushed)
\* never comes back, and while it is there its attempts are never given back.
NeverRestored ==
    [][otp' # Nil =>
          IF otp # Nil /\ otp.val.issue = otp'.val.issue
          THEN otp'.val.attempts >= otp.val.attempts
          ELSE expiry[otp'.val.issue] = Nil]_vars

=============================================================================
