---------------------------- MODULE RateCounter ----------------------------
(***************************************************************************)
(* One rate-limit key in Redis: applyRateLimit and applyPolicyRateLimit of *)
(* RateLimitService (src/src/rate-limit/rate-limit.service.ts) once the    *)
(* plan or the policy is known.                                            *)
(*                                                                         *)
(* A check reads the clock and sends a Lua script, which Redis runs in one *)
(* step some time later: scripts may run in another order than their       *)
(* clocks were read.  A key disappears during the second its EXPIRE names. *)
(* Time is in seconds, as in the scripts.                                  *)
(***************************************************************************)
EXTENDS Integers, Sequences, FiniteSets

CONSTANTS
    Check,        \* checks that may be on their way at the same time
    Limit,        \* limitPerMin of the plan, limit of the policy
    Window,       \* ttlSec, windowSec
    Token,        \* what a request takes from a bucket, in the unit of the
                  \* next two: a policy may refill a tenth of a token a second
    Burst,        \* what a bucket holds
    Refill,       \* refillPerSec
    BucketTtl,    \* 3600 in the code
    MaxDelay,     \* bound: seconds a script is on its way
    MaxTime,      \* bound: last second
    MaxAdmitted   \* bound: checks admitted since the last invalidation

Strategy == {"fixedWindow", "slidingWindow", "tokenBucket"}

ASSUME CounterAssumption ==
    /\ Limit \in Nat /\ Window \in Nat \ {0}
    /\ Token \in Nat \ {0} /\ Burst \in Nat /\ Refill \in Nat
    /\ BucketTtl \in Nat \ {0}
    /\ MaxDelay \in Nat /\ MaxDelay < BucketTtl
    /\ MaxTime \in Nat /\ MaxAdmitted \in Nat

VARIABLES
    strategy,    \* of the policy this key belongs to; a plan's is fixedWindow
    now,         \* seconds
    clock,       \* the second each check on its way has read; 0 for none
    expires,     \* the second in which the key runs out; 0 when there is none
    count,       \* fixedWindow: the counter
    scores,      \* slidingWindow: the members of the sorted set
    tokens,      \* tokenBucket: the two fields of the hash
    lastRefill,
    renewals,    \* history: how often a bucket's key ran out, and
    log          \* history: the admissions, since the last invalidation

key  == <<expires, count, scores, tokens, lastRefill>>
vars == <<strategy, now, clock, key, renewals, log>>

Admission == [at: Nat, clock: Nat, renewals: Nat]

InFlight == {c \in Check : clock[c] # 0}

-----------------------------------------------------------------------------
\* The key is not there: GET, HMGET and ZCARD give the scripts' defaults.
NoKey ==
    /\ expires' = 0
    /\ count' = 0
    /\ scores' = {}
    /\ tokens' = 0
    /\ lastRefill' = 0

\* A check reads Date.now() and sends its script.
Send(c) ==
    /\ clock[c] = 0
    /\ Len(log) + Cardinality(InFlight) < MaxAdmitted
    /\ clock' = [clock EXCEPT ![c] = now]
    /\ UNCHANGED <<strategy, now, key, renewals, log>>

Answered(c) == clock' = [clock EXCEPT ![c] = 0]

\* Mutants: one more request than the limit says; the entries of the current
\* window are removed as well.
FullLate(n)    == n > Limit
OutdatedAll(t) == 0..(t - 1)

Full(n) == n >= Limit

\* EXPIRE is sent with the first request of a window.
Expiry(n) == IF n = 1 THEN now + Window ELSE expires

\* ZREMRANGEBYSCORE key 0 (t - window)
Outdated(t) == 0..(t - Window)

Entry(c) == [at |-> now, clock |-> clock[c], renewals |-> renewals]

Admit(c) == log' = Append(log, Entry(c))

FixedWindow(c) ==
    /\ strategy = "fixedWindow"
    /\ \/ /\ Full(count)
          /\ UNCHANGED <<key, log>>
       \/ /\ ~Full(count)
          /\ count' = count + 1
          /\ expires' = Expiry(count + 1)
          /\ Admit(c)
          /\ UNCHANGED <<scores, tokens, lastRefill>>

\* The member added is the clock itself: checks of one second are one member.
\* ZREMRANGEBYSCORE removes an emptied set, and its expiry with it.
SlidingWindow(c) ==
    LET kept == scores \ Outdated(clock[c])
    IN  /\ strategy = "slidingWindow"
        /\ \/ /\ Full(Cardinality(kept))
              /\ scores' = kept
              /\ expires' = IF kept = {} THEN 0 ELSE expires
              /\ UNCHANGED log
           \/ /\ ~Full(Cardinality(kept))
              /\ scores' = kept \cup {clock[c]}
              /\ expires' = now + Window
              /\ Admit(c)
        /\ UNCHANGED <<count, tokens, lastRefill>>

\* Mutants: the refill is not capped; lastRefill is only set for a new bucket.
TokensAtUncapped(t) == IF expires = 0 THEN Burst
                       ELSE tokens + (t - lastRefill) * Refill
RefilledAtKept(t)   == IF expires = 0 THEN t ELSE lastRefill

TokensAt(t) ==
    IF expires = 0 THEN Burst
    ELSE LET refilled == tokens + (t - lastRefill) * Refill
         IN  IF refilled < Burst THEN refilled ELSE Burst

RefilledAt(t) == t

\* A refused check is stored as well, and a clock that is behind takes back
\* what a later one had refilled.
TokenBucket(c) ==
    LET available == TokensAt(clock[c])
    IN  /\ strategy = "tokenBucket"
        /\ \/ /\ available < Token
              /\ tokens' = available
              /\ UNCHANGED log
           \/ /\ available >= Token
              /\ tokens' = available - Token
              /\ Admit(c)
        /\ lastRefill' = RefilledAt(clock[c])
        /\ expires' = now + BucketTtl
        /\ UNCHANGED <<count, scores>>

\* Redis runs the script of check c.
Script(c) ==
    /\ clock[c] # 0
    /\ FixedWindow(c) \/ SlidingWindow(c) \/ TokenBucket(c)
    /\ Answered(c)
    /\ UNCHANGED <<strategy, now, renewals>>

\* eval throws: the request is let through and nothing is counted.
ScriptFails(c) ==
    /\ clock[c] # 0
    /\ Answered(c)
    /\ UNCHANGED <<strategy, now, key, renewals, log>>

\* clearAllCache and resetRateLimit delete rl:*, the counters included.
Invalidate ==
    /\ log # <<>>
    /\ NoKey
    /\ log' = <<>>
    /\ renewals' = 0
    /\ UNCHANGED <<strategy, now, clock>>

\* The key's time to live ends within this second.
Expire ==
    /\ expires # 0 /\ now >= expires
    /\ NoKey
    /\ renewals' = IF strategy = "tokenBucket" THEN renewals + 1 ELSE 0
    /\ UNCHANGED <<strategy, now, clock, log>>

Tick ==
    /\ now < MaxTime
    /\ expires = 0 \/ now < expires
    /\ \A c \in InFlight : now < clock[c] + MaxDelay
    /\ now' = now + 1
    /\ UNCHANGED <<strategy, clock, key, renewals, log>>

Init ==
    /\ strategy \in Strategy
    /\ now = 1
    /\ clock = [c \in Check |-> 0]
    /\ expires = 0 /\ count = 0 /\ scores = {} /\ tokens = 0 /\ lastRefill = 0
    /\ renewals = 0 /\ log = <<>>

Next ==
    \/ \E c \in Check : Send(c) \/ Script(c) \/ ScriptFails(c)
    \/ Invalidate \/ Expire \/ Tick

Spec == Init /\ [][Next]_vars

-----------------------------------------------------------------------------
(* Properties.                                                             *)

\* Type invariant.
TypeOK ==
    /\ strategy \in Strategy
    /\ now \in 1..(MaxTime + 1)
    /\ clock \in [Check -> 0..now]
    /\ expires \in Nat
    /\ count \in 0..Limit
    /\ scores \in SUBSET (1..now)
    /\ tokens \in Int /\ tokens <= Burst
    /\ lastRefill \in 0..now
    /\ renewals \in Nat
    /\ log \in Seq(Admission)

Ttl == IF strategy = "tokenBucket" THEN BucketTtl ELSE Window

\* A key that holds anything runs out, and no later than its script's time to
\* live from now: no order of checks refuses a client that waits for ever.
KeysRunOut ==
    /\ count # 0 \/ scores # {} => expires # 0
    /\ expires # 0 => now <= expires /\ expires <= now + Ttl

\* applyRateLimit: two windows may touch, but no 2 * Limit admissions lie
\* within one window's length, however the checks interleave.
FixedWindowPace ==
    strategy = "fixedWindow" =>
        \A i \in 1..Len(log) :
            i + 2 * Limit - 1 <= Len(log) =>
                log[i + 2 * Limit - 1].at - log[i].at >= Window

\* What the sliding window does bound: of the last Window seconds, at most
\* Limit have an admission whose clock read them, even when scripts run out
\* of order or the set has run out in between.
SlidingSeconds ==
    strategy = "slidingWindow" =>
        Cardinality({t \in 1..now : /\ now - Window < t
                                    /\ \E i \in 1..Len(log) : log[i].clock = t})
            <= Limit

\* What a key that ran out gives a bucket ahead of its refill: a bucket that
\* BucketTtl seconds would not have filled is full again.  Nothing with the
\* defaults, 20 and 5 a second; 40 tokens for 400 and 0.1.
Early ==
    LET refilled == Refill * (BucketTtl - MaxDelay)
    IN  IF Burst <= refilled THEN 0 ELSE Burst - refilled

\* Between any two admissions a bucket gives out no more than what it holds,
\* what flowed in between their clocks, also when the clocks go backwards, and
\* what the key's running out gives ahead, as often as it ran out in between.
BucketPace ==
    strategy = "tokenBucket" =>
        \A i, j \in 1..Len(log) :
            i < j => (j - i + 1) * Token <=
                        Burst + Refill * (log[j].clock - log[i].clock)
                              + Early * (log[j].renewals - log[i].renewals)

\* Entity comment on limit: "Number of requests allowed per window".
\* Requests of one second share a member of the set, so this does not hold.
SlidingLimit ==
    strategy = "slidingWindow" =>
        \A i \in 1..Len(log) :
            i + Limit <= Len(log) => log[i + Limit].at - log[i].at >= Window
=============================================================================
