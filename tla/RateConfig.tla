----------------------------- MODULE RateConfig -----------------------------
(***************************************************************************)
(* The rules behind the rate limit: RateLimitService                       *)
(* (src/src/rate-limit/rate-limit.service.ts) from a request's arrival at  *)
(* the guard to the plan or the policy that its counter (RateCounter) is   *)
(* held against, and the administration that changes the rules.            *)
(*                                                                         *)
(* A check looks up, one after the other, its address in the whitelist,    *)
(* its API key, the policies and the plan.  Each look-up is a GET, on a    *)
(* miss a query, and a SETEX, and other checks, administrators and the     *)
(* clearing of the cache run in between.  One address, one key and one     *)
(* plan stand for all: look-ups of others do not meet.                     *)
(***************************************************************************)
EXTENDS Naturals, FiniteSets

CONSTANTS
    Check,        \* checks that may be under way at the same time
    Admin,        \* administrators' requests under way at the same time
    Nil,
    Ttl,          \* CACHE_TTL, seconds
    InvalidTtl,   \* seconds an invalid key is kept
    MaxDelay,     \* longest time between a query's answer and its SETEX
    Changing,     \* bound: rules that have a row and are changed
    MaxChanges,   \* bound: requests of administrators
    MaxFaults     \* bound: commands, queries and messages that fail

\* rl:ipwl:<ip>, rl:apikey:<key>, rl:policies:active, rl:plan:anonymous.
Rule == {"ip", "key", "policies", "plan"}

\* What the database may hold: no row, one that does not count (not active, not
\* enabled), or one that does.
States(k) ==
    {"gone", "off"} \cup (CASE k = "ip" -> {"on"}
                            [] k = "key" -> {"plain", "white"}
                            [] k = "policies" -> {"matching"}
                            [] k = "plan" -> {"on"})

VARIABLES
    rules,     \* database: the state of each rule and how often it changed
    cached,    \* Redis: the entry of each rule, or Nil
    call,      \* the look-up each check is at, or Nil
    admin,     \* the change each administrator is at, or Nil
    signals,   \* messages on ratelimit:invalidate that no instance has heard
    changes,   \* requests of administrators so far
    faults,    \* failures so far
    answered,  \* history: the last change of each rule that was answered
    lost       \* history: an invalidation has failed, and none has worked since

bounds == <<changes, faults>>
cvars  == <<rules, cached, call, admin, signals, bounds, answered, lost>>

-----------------------------------------------------------------------------
\* A rule as it was read, on its way to the cache and there: `overlap` tells
\* whether its key was deleted between the query and the SETEX and `old` for
\* how long it has not been the rule, both as history.
Value(k) == [state |-> rules[k].state, ver |-> rules[k].ver,
             left |-> MaxDelay, overlap |-> FALSE, old |-> 0]

NoValue == [state |-> "gone", ver |-> 0, left |-> 0, overlap |-> FALSE, old |-> 0]

\* getApiKey takes the key from X-API-Key or from either form of
\* Authorization; `keyed` says whether there was one.
Arrive(c) ==
    /\ call[c] = Nil
    /\ \E keyed \in BOOLEAN :
          call' = [call EXCEPT ![c] = [at |-> "ip", stage |-> "get", keyed |-> keyed,
                                       value |-> Nil, basis |-> 0, white |-> FALSE]]
    /\ UNCHANGED <<rules, cached, admin, signals, bounds, answered, lost>>

\* ApiKey.isValid looks at `active`, which is not among the columns that
\* resolveApiKey selects: no row passes.
Active(state)  == IF state \in {"plain", "white"} THEN Nil ELSE FALSE
IsValid(state) == Active(state) = TRUE

\* Where a check goes from look-up k once it has a state: to another look-up,
\* or to a decision.  A policy from the cache has lost its methods: calling
\* `matches` throws, and no policy is taken.
AfterIp(state, keyed) ==
    IF state = "on" THEN "free" ELSE IF keyed THEN "key" ELSE "policies"

AfterKey(state) ==
    IF ~IsValid(state) THEN "plan" ELSE IF state = "white" THEN "free" ELSE "policies"

AfterPolicies(state, hit) ==
    IF state = "matching" /\ ~hit THEN "policy" ELSE "plan"

After(k, state, keyed, hit) ==
    CASE k = "ip"       -> AfterIp(state, keyed)
      [] k = "key"      -> AfterKey(state)
      [] k = "policies" -> AfterPolicies(state, hit)
      [] k = "plan"     -> "planned"

\* Check c goes on from its look-up with value v.
Proceed(c, v, hit) ==
    LET next  == After(call[c].at, v.state, call[c].keyed, hit)
        basis == IF v.old > call[c].basis THEN v.old ELSE call[c].basis
        white == call[c].white \/ v.state = "white" IN
    call' = [call EXCEPT ![c] = [@ EXCEPT !.at = next,
                                          !.stage = IF next \in Rule THEN "get" ELSE "decided",
                                          !.value = Nil, !.basis = basis, !.white = white]]

At(c, stage) == call[c] # Nil /\ call[c].stage = stage

Get(c) ==
    /\ At(c, "get")
    /\ IF cached[call[c].at] = Nil
       THEN call' = [call EXCEPT ![c].stage = "load"]
       ELSE Proceed(c, cached[call[c].at], TRUE)
    /\ UNCHANGED <<rules, cached, admin, signals, bounds, answered, lost>>

\* The query; getPlan does not store that there is no plan.
Load(c) ==
    /\ At(c, "load")
    /\ LET v == Value(call[c].at) IN
       IF call[c].at = "plan" /\ v.state # "on"
       THEN Proceed(c, v, FALSE)
       ELSE call' = [call EXCEPT ![c].stage = "put", ![c].value = v]
    /\ UNCHANGED <<rules, cached, admin, signals, bounds, answered, lost>>

\* Mutant: an entry that is stored again is given its time on top.
KeptLonger(k, v) == [v EXCEPT !.left = Ttl + InvalidTtl + MaxDelay]

\* The entry that SETEX makes of v.
Kept(k, v) == [v EXCEPT !.left = IF k = "key" /\ ~IsValid(v.state) THEN InvalidTtl
                                                                  ELSE Ttl]

Put(c) ==
    /\ At(c, "put")
    /\ LET k == call[c].at IN
       cached' = [cached EXCEPT ![k] = Kept(k, call[c].value)]
    /\ Proceed(c, call[c].value, FALSE)
    /\ UNCHANGED <<rules, admin, signals, bounds, answered, lost>>

\* A command or a query of the look-up fails: the check goes on as if there
\* were no row.
LookupFails(c) ==
    /\ call[c] # Nil /\ call[c].stage # "decided"
    /\ faults < MaxFaults
    /\ faults' = faults + 1
    /\ Proceed(c, NoValue, FALSE)
    /\ UNCHANGED <<rules, cached, admin, signals, changes, answered, lost>>

\* The check is let through, or held against the counter that was decided on.
Answer(c) ==
    /\ At(c, "decided")
    /\ call' = [call EXCEPT ![c] = Nil]
    /\ UNCHANGED <<rules, cached, admin, signals, bounds, answered, lost>>

-----------------------------------------------------------------------------
(* Administration: a write, for an update its read-back, the message.      *)

Accept(a, k, op, to, stage) ==
    /\ admin[a] = Nil
    /\ changes < MaxChanges
    /\ changes' = changes + 1
    /\ admin' = [admin EXCEPT ![a] = [rule |-> k, op |-> op, to |-> to,
                                      stage |-> stage, ver |-> 0]]
    /\ UNCHANGED <<rules, cached, call, signals, faults, answered, lost>>

\* createPlan, createApiKey, addIpToWhitelist, createPolicy.
CreateRule(a, k, to) == to # "gone" /\ Accept(a, k, "create", to, "write")

\* updateApiKey, updateIpWhitelist, updatePolicy.  updatePlan gives the name
\* of the plan for its id and fails in the database.
UpdateRule(a, k, to) ==
    to # "gone" /\ k # "plan" /\ Accept(a, k, "update", to, "write")

\* deleteApiKey, removeIpFromWhitelist, deletePolicy: softDelete.
DeleteRule(a, k) == k # "plan" /\ Accept(a, k, "delete", "gone", "write")

\* invalidateCache.
InvalidateCache(a) == Accept(a, Nil, "invalidate", Nil, "publish")

\* What the statement makes of rule r: an UPDATE finds the row by its id and
\* leaves a deleted one deleted, an INSERT fails on the unique column.
Written(op, r, to) ==
    IF (op = "create") = (r.state # "gone")
    THEN r ELSE [state |-> to, ver |-> r.ver + 1]

WriteRule(a) ==
    /\ admin[a] # Nil /\ admin[a].stage = "write"
    /\ LET c   == admin[a]
           new == Written(c.op, rules[c.rule], c.to) IN
       /\ rules' = [rules EXCEPT ![c.rule] = new]
       /\ admin' = [admin EXCEPT ![a] =
                      IF c.op = "create" /\ new = rules[c.rule] THEN Nil
                      ELSE [c EXCEPT !.ver = new.ver,
                                     !.stage = IF c.op = "update" THEN "read" ELSE "publish"]]
    /\ UNCHANGED <<cached, call, signals, bounds, answered, lost>>

\* An update that no longer finds its row throws before it publishes.
ReadRule(a) ==
    /\ admin[a] # Nil /\ admin[a].stage = "read"
    /\ admin' = [admin EXCEPT ![a] = IF rules[admin[a].rule].state = "gone" THEN Nil
                                     ELSE [admin[a] EXCEPT !.stage = "publish"]]
    /\ UNCHANGED <<rules, cached, call, signals, bounds, answered, lost>>

\* Mutant: a deletion is not published.
PublishedKept(op) == IF op = "delete" THEN 0 ELSE 1

\* publishCacheInvalidation: the messages that operation op sends.
Published(op) == 1

Answered(a) ==
    /\ admin' = [admin EXCEPT ![a] = Nil]
    /\ answered' = IF admin[a].rule = Nil THEN answered
                   ELSE [answered EXCEPT ![admin[a].rule] =
                           IF admin[a].ver > @ THEN admin[a].ver ELSE @]

Publish(a) ==
    /\ admin[a] # Nil /\ admin[a].stage = "publish"
    /\ signals' = signals + Published(admin[a].op)
    /\ Answered(a)
    /\ UNCHANGED <<rules, cached, call, bounds, lost>>

\* PUBLISH fails, which is only logged, or nobody is connected to hear it.
PublishFails(a) ==
    /\ admin[a] # Nil /\ admin[a].stage = "publish"
    /\ faults < MaxFaults
    /\ faults' = faults + 1
    /\ lost' = TRUE
    /\ Answered(a)
    /\ UNCHANGED <<rules, cached, call, signals, changes>>

-----------------------------------------------------------------------------
(* Invalidation and time.                                                  *)

\* The keys of rl:* that clearAllCache deletes.
ClearedKeys == Rule

\* A rule that was replaced, was read before its key is deleted and is stored
\* after, brings back what the deletion was to take away.
Overlapped(S) ==
    [c \in Check |->
        IF At(c, "put") /\ call[c].at \in S /\ call[c].value.ver # rules[call[c].at].ver
        THEN [call[c] EXCEPT !.value.overlap = TRUE] ELSE call[c]]

Delete(S) ==
    /\ cached' = [k \in Rule |-> IF k \in S THEN Nil ELSE cached[k]]
    /\ call' = Overlapped(S)

\* An instance hears a message and deletes the keys; another instance may
\* still have to hear it.  The keys are deleted one by one, but nothing relates
\* two of them.
ClearAllCache ==
    /\ signals > 0
    /\ signals' \in {signals, signals - 1}
    /\ Delete(ClearedKeys)
    /\ lost' = FALSE
    /\ UNCHANGED <<rules, admin, bounds, answered>>

\* deleteKeysByPattern fails, which is only logged.
ClearFails ==
    /\ signals > 0
    /\ signals' = signals - 1
    /\ faults < MaxFaults
    /\ faults' = faults + 1
    /\ lost' = TRUE
    /\ UNCHANGED <<rules, cached, call, admin, changes, answered>>

\* resetRateLimit takes the first two parts of the key it is given as a
\* pattern, which may be that of a rule's key, or rl*.
ResetRateLimit(S) ==
    /\ \E k \in S : cached[k] # Nil
    /\ Delete(S)
    /\ UNCHANGED <<rules, admin, signals, bounds, answered, lost>>

\* Value v of rule k a second later.
Aged(k, v) == [v EXCEPT !.left = @ - 1,
                        !.old = IF v.ver # rules[k].ver THEN @ + 1 ELSE @]

Tick ==
    /\ \A c \in Check : At(c, "put") => call[c].value.left > 0
    /\ cached' = [k \in Rule |-> IF cached[k] = Nil \/ cached[k].left <= 1 THEN Nil
                                 ELSE Aged(k, cached[k])]
    /\ call' = [c \in Check |-> IF At(c, "put")
                                THEN [call[c] EXCEPT !.value = Aged(call[c].at, call[c].value)]
                                ELSE call[c]]
    /\ UNCHANGED <<rules, admin, signals, bounds, answered, lost>>

-----------------------------------------------------------------------------
\* initializeData has seeded whatever was missing.
Init ==
    /\ rules \in {r \in [Rule -> [state : UNION {States(k) : k \in Rule}, ver : {0}]] :
                     \A k \in Rule : r[k].state \in IF k \in Changing
                                                    THEN States(k) \ {"off"} ELSE {"gone"}}
    /\ cached = [k \in Rule |-> Nil]
    /\ call = [c \in Check |-> Nil]
    /\ admin = [a \in Admin |-> Nil]
    /\ signals = 0
    /\ changes = 0 /\ faults = 0
    /\ answered = [k \in Rule |-> 0]
    /\ lost = FALSE

Next ==
    \/ \E c \in Check : Arrive(c) \/ Get(c) \/ Load(c) \/ Put(c) \/ Answer(c)
                           \/ LookupFails(c)
    \/ \E a \in Admin :
          \/ \E k \in Changing : \/ \E to \in States(k) : CreateRule(a, k, to) \/ UpdateRule(a, k, to)
                                 \/ DeleteRule(a, k)
          \/ InvalidateCache(a) \/ WriteRule(a) \/ ReadRule(a)
          \/ Publish(a) \/ PublishFails(a)
    \/ ClearAllCache \/ ClearFails
    \/ \E S \in {{k} : k \in Rule} \cup {Rule} : ResetRateLimit(S)
    \/ Tick

Spec == Init /\ [][Next]_cvars

-----------------------------------------------------------------------------
(* Properties.                                                             *)

\* "Hot-reload across instances" (docs/HYBRID_RATE_LIMITING_IMPLEMENTATION.md):
\* once a change was answered and its message heard, an entry with the rule as
\* it was before has been read before its key was deleted and stored after,
\* unless the message or the deletion has failed.
HotReload ==
    \A k \in Rule :
        cached[k] # Nil /\ cached[k].ver < answered[k] =>
            cached[k].overlap \/ signals > 0 \/ lost

\* Whatever was lost or overlapped, no check is decided by a rule that had
\* been replaced for longer than an entry lives plus the time that a query's
\* answer may take to the cache.
DecidedByRecent ==
    \A c \in Check : At(c, "decided") => call[c].basis <= Ttl + MaxDelay

\* rate-limit/entities/README.md: "If API key has `isWhitelist = true` ->
\* Allow immediately", of a check that has read such a key itself.
WhitelistedKeyPasses ==
    \A c \in Check : At(c, "decided") /\ call[c].white => call[c].at = "free"
=============================================================================
