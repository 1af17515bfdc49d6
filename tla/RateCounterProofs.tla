------------------------- MODULE RateCounterProofs -------------------------
(***************************************************************************)
(* Proofs about rate limiting.                                             *)
(*                                                                         *)
(* RateCounter: its type invariant and the bound each of the three         *)
(* strategies keeps, for every limit, window, bucket and number of checks  *)
(* on their way.                                                           *)
(*                                                                         *)
(* RateConfig: what the rules in the cache, and the decisions made of      *)
(* them, have to do with the rules in the database, for every number of    *)
(* checks, administrators, changes and failures.                           *)
(***************************************************************************)
EXTENDS MCRateLimit, FiniteSetTheorems, TLAPS

-----------------------------------------------------------------------------
(* The invariant.                                                          *)

\* Admissions are logged in the order they happen, with a clock of the past.
Chronicle ==
    /\ \A i, j \in 1..Len(log) : i <= j => log[i].at <= log[j].at
    /\ \A i \in 1..Len(log) : log[i].at <= now /\ log[i].clock <= log[i].at
    /\ \A c \in Check : clock[c] # 0 => now <= clock[c] + MaxDelay

\* Where the current fixed window starts in the log.
Start == Len(log) - count + 1

\* The current window runs out Window seconds after its first admission; an
\* admission Limit places before it belongs to a window that had ended by then.
FixedInv ==
    strategy = "fixedWindow" =>
        /\ count <= Len(log)
        /\ expires # 0 => count # 0
        /\ count # 0 =>
              /\ expires = log[Start].at + Window
              /\ \A i \in 1..Len(log) :
                    i + Limit <= Start => log[i].at + Window <= log[Start].at
        /\ count = 0 =>
              \A i \in 1..Len(log) :
                  i + Limit <= Len(log) + 1 => log[i].at + Window <= now

\* The set still has every recent second that was admitted.
SlidingInv ==
    strategy = "slidingWindow" =>
        /\ Cardinality(scores) <= Limit
        /\ \A i \in 1..Len(log) :
              /\ now < log[i].clock + Window => log[i].clock \in scores
              /\ expires # 0 => log[i].at + Window <= expires

\* What a bucket gave out since admission i, and what it got up to clock t: the
\* refill, and what the run-outs of its key gave ahead.
Given(i) == (Len(log) - i + 1) * Token

Flow(a, b) == Refill * (b - a)

Inflow(i, t) ==
    Refill * (t - log[i].clock) + Early * (renewals - log[i].renewals)

\* What the bucket holds and gave out since an admission come from its capacity
\* and what it got since; once the key has run out, the latter pays for all.
BucketInv ==
    strategy = "tokenBucket" =>
        /\ expires # 0 =>
              /\ 0 <= tokens + Refill * (expires - BucketTtl - lastRefill)
              /\ \A i \in 1..Len(log) :
                    Given(i) + tokens <= Burst + Inflow(i, lastRefill)
        /\ expires = 0 =>
              \A i \in 1..Len(log) : Given(i) <= Inflow(i, now - MaxDelay)

\* A strategy leaves the fields of the others alone.
OwnFields ==
    /\ count # 0 => strategy = "fixedWindow"
    /\ scores # {} => strategy = "slidingWindow"

IInv == /\ TypeOK /\ OwnFields /\ KeysRunOut /\ Chronicle
        /\ FixedInv /\ FixedWindowPace
        /\ SlidingInv
        /\ BucketInv /\ BucketPace

-----------------------------------------------------------------------------
(* Lemmas.                                                                 *)

LEMMA AppendFacts ==
    ASSUME NEW s \in Seq(Admission), NEW e \in Admission
    PROVE  /\ Append(s, e) \in Seq(Admission)
           /\ Len(Append(s, e)) = Len(s) + 1
           /\ \A i \in 1..Len(s) : Append(s, e)[i] = s[i]
           /\ Append(s, e)[Len(s) + 1] = e
           /\ Len(s) \in Nat
  OBVIOUS

LEMMA MonotoneProduct ==
    ASSUME NEW r \in Nat, NEW a \in Int, NEW b \in Int, a <= b
    PROVE  r * a <= r * b
  OBVIOUS

LEMMA EarlyFacts ==
    /\ Early \in Nat
    /\ Refill * (BucketTtl - MaxDelay) \in Int
    /\ Burst <= Refill * (BucketTtl - MaxDelay) + Early
  <1> DEFINE refilled == Refill * (BucketTtl - MaxDelay)
  <1>1. refilled \in Int
    BY CounterAssumption
  <1>2. Early = IF Burst <= refilled THEN 0 ELSE Burst - refilled
    BY DEF Early
  <1> HIDE DEF refilled
  <1>3. Early \in Nat /\ Burst <= refilled + Early
    BY <1>1, <1>2, CounterAssumption
  <1> QED  BY <1>1, <1>3 DEF refilled

LEMMA EarlyConstant == Early' = Early
  BY DEF Early

LEMMA Apart ==
    ASSUME NEW a \in Nat, NEW b \in Nat, NEW d \in Nat, NEW w \in Nat,
           a + w <= b, b <= d
    PROVE  d - a >= w
  OBVIOUS

LEMMA Chain ==
    ASSUME NEW r \in Int, NEW a \in Int, NEW b \in Int, NEW d \in Int
    PROVE  /\ r * (a - b) \in Int
           /\ r * (b - d) \in Int
           /\ r * (a - d) \in Int
           /\ (a - b) * r = r * (a - b)
           /\ r * (a - b) + r * (b - d) = r * (a - d)
  OBVIOUS

\* Scripts change nothing but the key and the log; the log gains at most one
\* admission.
LEMMA ScriptEffect ==
    ASSUME TypeOK, NEW c \in Check, Script(c)
    PROVE  /\ clock[c] \in 1..now
           /\ clock' = [clock EXCEPT ![c] = 0]
           /\ strategy' = strategy /\ now' = now /\ renewals' = renewals
           /\ \/ log' = log
              \/ log' = Append(log, Entry(c))
           /\ Entry(c) \in Admission /\ Entry(c).at = now
           /\ Entry(c).clock = clock[c] /\ Entry(c).renewals = renewals
  <1>1. clock[c] \in 0..now /\ clock[c] # 0 /\ now \in Nat /\ renewals \in Nat
    BY DEF TypeOK, Script
  <1>2. /\ Entry(c) \in Admission /\ Entry(c).at = now
        /\ Entry(c).clock = clock[c] /\ Entry(c).renewals = renewals
    BY <1>1 DEF Admission, Entry
  <1>3. \/ log' = log
        \/ log' = Append(log, Entry(c))
    BY DEF Script, FixedWindow, SlidingWindow, TokenBucket, Admit, key
  <1> QED  BY <1>1, <1>2, <1>3 DEF Script, Answered

LEMMA TypeFacts ==
    ASSUME TypeOK
    PROVE  /\ now \in Nat /\ log \in Seq(Admission) /\ Len(log) \in Nat
           /\ \A c \in Check : clock[c] \in Nat
           /\ clock \in [Check -> Nat]
           /\ \A i \in 1..Len(log) : log[i].at \in Nat /\ log[i].clock \in Nat
                                      /\ log[i].renewals \in Nat
           /\ renewals \in Nat /\ expires \in Nat /\ count \in Nat /\ count <= Limit
           /\ tokens \in Int /\ lastRefill \in Nat
  <1> USE CounterAssumption
  <1>1. /\ now \in Nat /\ log \in Seq(Admission) /\ expires \in Nat
        /\ count \in Nat /\ count <= Limit
        /\ tokens \in Int /\ lastRefill \in Nat /\ renewals \in Nat
    BY DEF TypeOK
  <1>2. Len(log) \in Nat /\ \A i \in 1..Len(log) : log[i] \in Admission
    BY <1>1
  <1>3. clock \in [Check -> Nat]
    BY <1>1 DEF TypeOK
  <1> QED  BY <1>1, <1>2, <1>3 DEF Admission

-----------------------------------------------------------------------------
(* Types.                                                                  *)

LEMMA TokensAtType ==
    ASSUME TypeOK, NEW t \in Nat
    PROVE  TokensAt(t) \in Int /\ TokensAt(t) <= Burst
  <1>1. tokens + (t - lastRefill) * Refill \in Int
    BY CounterAssumption DEF TypeOK
  <1> DEFINE refilled == tokens + (t - lastRefill) * Refill
  <1>2. refilled \in Int  BY <1>1
  <1>3. TokensAt(t) = IF expires = 0 THEN Burst
                      ELSE IF refilled < Burst THEN refilled ELSE Burst
    BY DEF TokensAt
  <1> HIDE DEF refilled
  <1> QED  BY <1>2, <1>3, CounterAssumption

LEMMA KeptFinite ==
    ASSUME TypeOK, NEW S
    PROVE  /\ IsFiniteSet(scores \ S)
           /\ IsFiniteSet(scores)
           /\ Cardinality(scores \ S) \in Nat
           /\ Cardinality(scores \ S) <= Cardinality(scores)
  <1>1. now \in Nat /\ scores \subseteq 1..now  BY DEF TypeOK
  <1>2. IsFiniteSet(1..now)  BY <1>1, FS_Interval
  <1>3. IsFiniteSet(scores)  BY <1>1, <1>2, FS_Subset
  <1>4. scores \ S \subseteq scores  OBVIOUS
  <1> QED  BY <1>3, <1>4, FS_Subset, FS_CardinalityType

LEMMA TypeStep ==
    ASSUME TypeOK, [Next]_vars
    PROVE  TypeOK'
  <1> USE CounterAssumption
  <1>1. ASSUME NEW c \in Check, Send(c) PROVE TypeOK'
    BY <1>1 DEF TypeOK, Send, key
  <1>2. ASSUME NEW c \in Check, Script(c) PROVE TypeOK'
    <2>1. /\ clock[c] \in 1..now /\ clock' = [clock EXCEPT ![c] = 0]
          /\ strategy' = strategy /\ now' = now /\ renewals' = renewals
          /\ \/ log' = log
             \/ log' = Append(log, Entry(c))
          /\ Entry(c) \in Admission
      BY <1>2, ScriptEffect
    <2>2. log' \in Seq(Admission) /\ renewals' \in Nat
      BY <2>1, AppendFacts DEF TypeOK
    <2>3. /\ strategy' \in Strategy /\ now' \in 1..(MaxTime + 1)
          /\ clock' \in [Check -> 0..now']
      BY <2>1 DEF TypeOK
    <2>4. CASE FixedWindow(c)
      <3>0. /\ expires \in Nat /\ count \in 0..Limit /\ now \in Nat
            /\ Limit \in Nat /\ Window \in Nat
        BY DEF TypeOK
      <3>1. expires' \in Nat /\ count' \in 0..Limit
        <4>1. CASE UNCHANGED key
          BY <4>1, <3>0 DEF key
        <4>2. CASE ~Full(count) /\ count' = count + 1
                   /\ expires' = Expiry(count + 1)
          BY <4>2, <3>0 DEF Full, Expiry
        <4> QED  BY <2>4, <4>1, <4>2 DEF FixedWindow
      <3>2. UNCHANGED <<scores, tokens, lastRefill>>
        BY <2>4 DEF FixedWindow, key
      <3> QED  BY <3>1, <3>2, <2>1, <2>2, <2>3 DEF TypeOK
    <2>5. CASE SlidingWindow(c)
      <3>0. /\ expires \in Nat /\ now \in Nat /\ Window \in Nat
            /\ scores \subseteq 1..now
        BY DEF TypeOK
      <3>1. scores' \subseteq scores \cup {clock[c]}
        BY <2>5 DEF SlidingWindow
      <3>2. expires' \in {0, expires, now + Window}
        BY <2>5 DEF SlidingWindow
      <3>3. expires' \in Nat /\ scores' \subseteq 1..now'
        BY <3>0, <3>1, <3>2, <2>1
      <3>4. UNCHANGED <<count, tokens, lastRefill>>
        BY <2>5 DEF SlidingWindow
      <3> QED  BY <3>3, <3>4, <2>1, <2>2, <2>3 DEF TypeOK
    <2>6. CASE TokenBucket(c)
      <3>1. TokensAt(clock[c]) \in Int /\ TokensAt(clock[c]) <= Burst
        BY <2>1, TokensAtType
      <3>2. tokens' \in Int /\ tokens' <= Burst
        BY <3>1, <2>6 DEF TokenBucket
      <3>3. lastRefill' \in 0..now'
        BY <2>6, <2>1 DEF TokenBucket, RefilledAt, TypeOK
      <3>4. expires' \in Nat /\ UNCHANGED <<count, scores>>
        BY <2>6 DEF TokenBucket, TypeOK
      <3> QED  BY <3>2, <3>3, <3>4, <2>1, <2>2, <2>3 DEF TypeOK
    <2> QED  BY <1>2, <2>4, <2>5, <2>6 DEF Script
  <1>3. ASSUME NEW c \in Check, ScriptFails(c) PROVE TypeOK'
    BY <1>3 DEF TypeOK, ScriptFails, Answered, key
  <1>4. CASE Invalidate
    <2>1. <<>> \in Seq(Admission)  OBVIOUS
    <2> QED  BY <1>4, <2>1 DEF TypeOK, Invalidate, NoKey
  <1>5. CASE Expire
    BY <1>5 DEF TypeOK, Expire, NoKey
  <1>6. CASE Tick
    BY <1>6 DEF TypeOK, Tick, key
  <1>7. CASE UNCHANGED vars
    BY <1>7 DEF TypeOK, vars, key
  <1> QED  BY <1>1, <1>2, <1>3, <1>4, <1>5, <1>6, <1>7 DEF Next

LEMMA RunOutStep ==
    ASSUME TypeOK, OwnFields, KeysRunOut, [Next]_vars
    PROVE  KeysRunOut' /\ OwnFields'
  <1> USE CounterAssumption
  <1>0. now \in Nat /\ now >= 1 /\ expires \in Nat /\ count \in Nat
    BY DEF TypeOK
  <1> DEFINE Goal == KeysRunOut' /\ OwnFields'
  <1>1. ASSUME NEW c \in Check, Script(c) PROVE Goal
    <2>1. strategy' = strategy /\ now' = now /\ Ttl' = Ttl
      BY <1>1, ScriptEffect DEF Ttl
    <2>2. CASE FixedWindow(c)
      <3>1. Ttl = Window /\ UNCHANGED scores /\ scores = {}
        BY <2>2 DEF FixedWindow, Ttl, key, OwnFields
      <3>2. expires # 0 => now <= expires /\ expires <= now + Window
        BY <3>1 DEF KeysRunOut
      <3>3. CASE UNCHANGED key
        BY <3>3, <2>1 DEF KeysRunOut, OwnFields, key
      <3>4. CASE count' = count + 1 /\ expires' = Expiry(count + 1)
        <4>1. expires' # 0 /\ now <= expires' /\ expires' <= now + Window
          <5>1. CASE count = 0  BY <5>1, <3>4, <1>0 DEF Expiry
          <5>2. CASE count # 0
            BY <5>2, <3>2, <3>4, <1>0 DEF Expiry, KeysRunOut
          <5> QED  BY <5>1, <5>2
        <4> QED  BY <4>1, <2>1, <3>1, <2>2 DEF KeysRunOut, OwnFields, FixedWindow
      <3> QED  BY <2>2, <3>3, <3>4 DEF FixedWindow
    <2>3. CASE SlidingWindow(c)
      <3>1. Ttl = Window /\ UNCHANGED count /\ count = 0
        BY <2>3 DEF SlidingWindow, Ttl, OwnFields
      <3>2. expires' = expires \/ expires' = now + Window
            \/ (scores' = {} /\ expires' = 0)
        BY <2>3 DEF SlidingWindow
      <3>3. scores' # {} => expires' # 0
        BY <2>3, <1>0 DEF SlidingWindow, KeysRunOut
      <3>4. expires # 0 => now <= expires /\ expires <= now + Window
        BY <3>1 DEF KeysRunOut
      <3>5. expires' # 0 => now <= expires' /\ expires' <= now + Window
        BY <3>2, <3>4, <1>0
      <3>6. OwnFields'
        BY <2>3, <3>1, <2>1 DEF OwnFields, SlidingWindow
      <3> QED
        BY <3>1, <3>3, <3>5, <3>6, <2>1 DEF KeysRunOut
    <2>4. CASE TokenBucket(c)
      <3>1. /\ Ttl = BucketTtl /\ expires' = now + BucketTtl
            /\ UNCHANGED <<count, scores>>
        BY <2>4 DEF TokenBucket, Ttl
      <3> QED  BY <3>1, <2>1, <1>0 DEF KeysRunOut, OwnFields
    <2> QED  BY <1>1, <2>2, <2>3, <2>4 DEF Script
  <1>2. CASE Invalidate \/ Expire
    BY <1>2 DEF Invalidate, Expire, NoKey, KeysRunOut, OwnFields
  <1>3. CASE Tick
    BY <1>3, <1>0 DEF Tick, KeysRunOut, OwnFields, Ttl, key
  <1>4. CASE UNCHANGED vars \/ \E c \in Check : Send(c) \/ ScriptFails(c)
    BY <1>4 DEF vars, key, Send, ScriptFails, KeysRunOut, OwnFields, Ttl
  <1> QED  BY <1>1, <1>2, <1>3, <1>4 DEF Next

\* The log stays in order.
LEMMA ChronicleStep ==
    ASSUME TypeOK, Chronicle, [Next]_vars
    PROVE  Chronicle'
  <1> USE CounterAssumption
  <1>0. /\ now \in Nat /\ log \in Seq(Admission) /\ Len(log) \in Nat
        /\ \A c \in Check : clock[c] \in Nat
        /\ clock \in [Check -> Nat]
        /\ \A i \in 1..Len(log) : log[i].at \in Nat /\ log[i].clock \in Nat
    BY TypeFacts
  <1>1. ASSUME NEW c \in Check, Script(c) PROVE Chronicle'
    <2>1. /\ clock[c] \in 1..now /\ clock' = [clock EXCEPT ![c] = 0]
          /\ now' = now
          /\ \/ log' = log
             \/ log' = Append(log, Entry(c))
          /\ Entry(c) \in Admission /\ Entry(c).at = now
          /\ Entry(c).clock = clock[c]
      BY <1>1, ScriptEffect
    <2>2. \A d \in Check : clock'[d] # 0 => now' <= clock'[d] + MaxDelay
      BY <2>1, <1>0 DEF Chronicle
    <2>3. CASE log' = log
      BY <2>1, <2>2, <2>3 DEF Chronicle
    <2>4. CASE log' = Append(log, Entry(c))
      <3>1. /\ Len(log') = Len(log) + 1
            /\ \A i \in 1..Len(log) : log'[i] = log[i]
            /\ log'[Len(log) + 1] = Entry(c)
        BY <2>4, <2>1, <1>0, AppendFacts
      <3>2. \A i \in 1..Len(log') :
               log'[i].at <= now' /\ log'[i].clock <= log'[i].at
        BY <3>1, <2>1, <1>0 DEF Chronicle
      <3>3. ASSUME NEW i \in 1..Len(log'), NEW j \in 1..Len(log'), i <= j
            PROVE  log'[i].at <= log'[j].at
        <4>1. log'[Len(log) + 1].at = now
          BY <3>1, <2>1
        <4>2. CASE j \in 1..Len(log)
          <5>1. i \in 1..Len(log)
            BY <4>2, <3>1, <3>3, <1>0
          <5> QED  BY <5>1, <4>2, <3>1, <3>3 DEF Chronicle
        <4>3. CASE j = Len(log) + 1 /\ i \in 1..Len(log)
          BY <4>1, <4>3, <3>1 DEF Chronicle
        <4>4. CASE j = Len(log) + 1 /\ i = Len(log) + 1
          BY <4>1, <4>4, <1>0
        <4> QED  BY <4>2, <4>3, <4>4, <3>1, <1>0
      <3> QED  BY <2>2, <3>2, <3>3 DEF Chronicle
    <2> QED  BY <2>1, <2>3, <2>4
  <1>2. ASSUME NEW c \in Check, Send(c) PROVE Chronicle'
    <2>1. UNCHANGED <<now, log>> /\ clock' = [clock EXCEPT ![c] = now]
      BY <1>2 DEF Send
    <2>2. \A d \in Check : clock'[d] # 0 => now <= clock'[d] + MaxDelay
      BY <2>1, <1>0 DEF Chronicle
    <2> QED  BY <2>1, <2>2 DEF Chronicle
  <1>3. ASSUME NEW c \in Check, ScriptFails(c) PROVE Chronicle'
    BY <1>3, <1>0 DEF ScriptFails, Answered, Chronicle
  <1>4. CASE Invalidate
    BY <1>4, <1>0 DEF Invalidate, Chronicle
  <1>5. CASE Expire
    BY <1>5 DEF Expire, Chronicle
  <1>6. CASE Tick
    <2>1. now' = now + 1 /\ UNCHANGED <<clock, log>>
      BY <1>6 DEF Tick
    <2>2. \A c \in Check : clock[c] # 0 => now < clock[c] + MaxDelay
      BY <1>6 DEF Tick, InFlight
    <2> QED  BY <2>1, <2>2, <1>0 DEF Chronicle
  <1>7. CASE UNCHANGED vars
    BY <1>7 DEF vars, Chronicle
  <1> QED  BY <1>1, <1>2, <1>3, <1>4, <1>5, <1>6, <1>7 DEF Next

-----------------------------------------------------------------------------
(* The fixed window.                                                       *)

\* An admission in a window of count checks, none of them yet if count is 0.
LEMMA FixedAdmission ==
    ASSUME TypeOK, KeysRunOut, Chronicle, FixedInv, FixedWindowPace,
           NEW c \in Check, Script(c), FixedWindow(c), ~Full(count),
           count' = count + 1, expires' = Expiry(count + 1),
           log' = Append(log, Entry(c))
    PROVE  FixedInv' /\ FixedWindowPace'
  <1> DEFINE n == Len(log)
             e == Entry(c)
  <1>0. /\ Limit \in Nat /\ Window \in Nat \ {0} /\ now \in Nat /\ n \in Nat
        /\ count \in Nat /\ count < Limit /\ expires \in Nat
        /\ log \in Seq(Admission)
        /\ \A i \in 1..n : log[i].at \in Nat
    BY TypeFacts, CounterAssumption DEF Full
  <1>1. strategy = "fixedWindow" /\ strategy' = strategy /\ now' = now
        /\ e \in Admission
    BY ScriptEffect DEF FixedWindow
  <1>2. /\ Len(log') = n + 1
        /\ \A i \in 1..n : log'[i] = log[i]
        /\ log'[n + 1] = e /\ e.at = now
    BY <1>0, <1>1, AppendFacts, ScriptEffect
  <1>3. /\ \A i, j \in 1..n : i <= j => log[i].at <= log[j].at
        /\ \A i \in 1..n : log[i].at <= now
    BY DEF Chronicle
  <1>4. count <= n /\ (expires # 0 => count # 0)
    BY <1>1 DEF FixedInv
  <1>5. Start' = n - count + 1
    BY <1>0, <1>2 DEF Start
  <1> HIDE DEF n, e
  <1>6. /\ expires' = log'[n - count + 1].at + Window
        /\ \A i \in 1..n + 1 :
              i + Limit <= n - count + 1 =>
                  log'[i].at + Window <= log'[n - count + 1].at
    <2>1. CASE count = 0
      <3>1. expires' = now + Window
        BY <2>1 DEF Expiry
      <3>2. \A i \in 1..n : i + Limit <= n + 1 => log[i].at + Window <= now
        BY <2>1, <1>1 DEF FixedInv, n
      <3>3. n - count + 1 = n + 1 /\ log'[n + 1].at = now
        BY <2>1, <1>0, <1>2
      <3>4. ASSUME NEW i \in 1..n + 1, i + Limit <= n + 1
            PROVE  log'[i].at + Window <= now
        <4>1. i \in 1..n
          BY <2>1, <3>4, <1>0
        <4>2. QED BY <3>2, <3>4, <4>1, <1>2
      <3> QED  BY <3>1, <3>3, <3>4
    <2>2. CASE count # 0
      <3>1. expires' = expires
        BY <2>2, <1>0 DEF Expiry
      <3>2. /\ expires = log[n - count + 1].at + Window
            /\ \A i \in 1..n : i + Limit <= n - count + 1 =>
                                  log[i].at + Window <= log[n - count + 1].at
        BY <2>2, <1>1 DEF FixedInv, Start, n
      <3>3. n - count + 1 \in 1..n
        BY <2>2, <1>0, <1>4
      <3>4. log'[n - count + 1] = log[n - count + 1]
        BY <3>3, <1>2
      <3>5. ASSUME NEW i \in 1..n + 1, i + Limit <= n - count + 1
            PROVE  i \in 1..n /\ log'[i] = log[i]
        <4>1. i \in 1..n  BY <3>5, <1>0
        <4> QED  BY <4>1, <1>2
      <3> QED  BY <3>1, <3>2, <3>4, <3>5
    <2> QED  BY <2>1, <2>2
  <1>7. FixedInv'
    BY <1>0, <1>1, <1>2, <1>4, <1>5, <1>6 DEF FixedInv
  <1>8. \A i \in 1..n + 1 : i + 2 * Limit - 1 <= n + 1 =>
           log'[i + 2 * Limit - 1].at - log'[i].at >= Window
    <2> SUFFICES ASSUME NEW i \in 1..n + 1, i + 2 * Limit - 1 <= n + 1
                 PROVE  log'[i + 2 * Limit - 1].at - log'[i].at >= Window
      OBVIOUS
    <2>1. CASE i + 2 * Limit - 1 <= n
      <3>1. log[i + 2 * Limit - 1].at - log[i].at >= Window
        BY <2>1, <1>0, <1>1 DEF FixedWindowPace, n
      <3>2. i \in 1..n /\ i + 2 * Limit - 1 \in 1..n
        BY <2>1, <1>0
      <3> QED  BY <3>1, <3>2, <1>2
    <2>2. CASE i + 2 * Limit - 1 = n + 1
      <3>1. i \in 1..n /\ i + Limit <= n - count + 1
        BY <2>2, <1>0
      <3>2. log'[i].at + Window <= log'[n - count + 1].at
        BY <3>1, <1>0, <1>6
      <3>3. log'[n - count + 1].at <= now /\ log'[n - count + 1].at \in Nat
        BY <1>0, <1>2, <1>3, <1>4
      <3>4. log'[i].at \in Nat /\ log'[n + 1].at = now
        BY <3>1, <1>0, <1>2
      <3>5. log'[i + 2 * Limit - 1].at = now
        BY <3>4, <2>2
      <3>6. now - log'[i].at >= Window
        BY <3>2, <3>3, <3>4, <1>0, Apart
      <3> QED  BY <3>5, <3>6
    <2> DEFINE m == i + 2 * Limit - 1
    <2>3. m \in Int /\ m <= n + 1
      BY <1>0
    <2> HIDE DEF m
    <2>4. m <= n \/ m = n + 1
      BY <2>3, <1>0
    <2> USE DEF m
    <2> QED  BY <2>1, <2>2, <2>4
  <1>9. FixedWindowPace'
    BY <1>2, <1>8 DEF FixedWindowPace
  <1> QED  BY <1>7, <1>9

LEMMA FixedStep ==
    ASSUME TypeOK, OwnFields, KeysRunOut, Chronicle, FixedInv, FixedWindowPace,
           [Next]_vars
    PROVE  FixedInv' /\ FixedWindowPace'
  <1> DEFINE Goal == FixedInv' /\ FixedWindowPace'
  <1>0. /\ Limit \in Nat /\ Window \in Nat \ {0} /\ now \in Nat
        /\ Len(log) \in Nat /\ count \in Nat /\ count <= Limit
        /\ expires \in Nat
        /\ \A i \in 1..Len(log) : log[i].at \in Nat
    BY TypeFacts, CounterAssumption
  <1>1. ASSUME UNCHANGED <<strategy, expires, count, log>>, now' \in Nat,
               now <= now'
        PROVE  Goal
    <2>1. FixedWindowPace'
      BY <1>1 DEF FixedWindowPace
    <2>2. Start' = Start
      BY <1>1 DEF Start
    <2>3. strategy = "fixedWindow" /\ count = 0 =>
             \A i \in 1..Len(log) :
                i + Limit <= Len(log) + 1 => log[i].at + Window <= now'
      BY <1>1, <1>0 DEF FixedInv
    <2>4. FixedInv'
      BY <1>1, <2>2, <2>3 DEF FixedInv
    <2> QED  BY <2>1, <2>4
  <1>2. ASSUME NEW c \in Check, Script(c) PROVE Goal
    <2>1. strategy' = strategy /\ now' = now
      BY <1>2, ScriptEffect
    <2>2. CASE FixedWindow(c)
      <3>1. CASE UNCHANGED <<key, log>>
        BY <3>1, <2>1, <1>0, <1>1 DEF key
      <3>2. CASE /\ ~Full(count)
                 /\ count' = count + 1
                 /\ expires' = Expiry(count + 1)
                 /\ Admit(c)
        BY <3>2, <2>2, <1>2, FixedAdmission DEF Admit
      <3> QED  BY <2>2, <3>1, <3>2 DEF FixedWindow
    <2>3. CASE ~FixedWindow(c)
      <3>1. strategy' # "fixedWindow"
        BY <2>3, <2>1, <1>2 DEF Script, SlidingWindow, TokenBucket
      <3> QED  BY <3>1 DEF FixedInv, FixedWindowPace
    <2> QED  BY <2>2, <2>3
  <1>3. CASE Invalidate
    BY <1>3, <1>0 DEF Invalidate, NoKey, FixedInv, FixedWindowPace
  <1>4. CASE Expire
    <2>1. /\ expires' = 0 /\ count' = 0 /\ expires # 0 /\ now >= expires
          /\ UNCHANGED <<strategy, now, log>>
      BY <1>4 DEF Expire, NoKey
    <2>2. FixedWindowPace'
      BY <2>1 DEF FixedWindowPace
    <2>3. ASSUME strategy = "fixedWindow", NEW i \in 1..Len(log),
                 i + Limit <= Len(log) + 1
          PROVE  log[i].at + Window <= now
      <3>1. /\ count # 0 /\ count <= Len(log)
            /\ expires = log[Start].at + Window
        BY <2>1, <2>3 DEF FixedInv
      <3>2. Start \in 1..Len(log) /\ i <= Start
        BY <3>1, <2>3, <1>0 DEF Start
      <3>3. log[i].at <= log[Start].at
        BY <3>2 DEF Chronicle
      <3> QED  BY <3>1, <3>2, <3>3, <2>1, <1>0
    <2>4. FixedInv'
      BY <2>1, <2>3, <1>0 DEF FixedInv
    <2> QED  BY <2>2, <2>4
  <1>5. CASE \/ Tick \/ UNCHANGED vars
             \/ \E c \in Check : Send(c) \/ ScriptFails(c)
    <2>1. UNCHANGED <<strategy, expires, count, log>> /\ now' \in Nat
          /\ now <= now'
      BY <1>5, <1>0 DEF Tick, vars, key, Send, ScriptFails
    <2> QED  BY <2>1, <1>1
  <1> QED  BY <1>2, <1>3, <1>4, <1>5 DEF Next

-----------------------------------------------------------------------------
(* The sliding window.                                                     *)

LEMMA SlidingAdmission ==
    ASSUME TypeOK, KeysRunOut, Chronicle, SlidingInv,
           NEW c \in Check, Script(c), SlidingWindow(c),
           ~Full(Cardinality(scores \ Outdated(clock[c]))),
           scores' = (scores \ Outdated(clock[c])) \cup {clock[c]},
           expires' = now + Window,
           log' = Append(log, Entry(c))
    PROVE  SlidingInv'
  <1> DEFINE n == Len(log)
             e == Entry(c)
             kept == scores \ Outdated(clock[c])
  <1>0. /\ Limit \in Nat /\ Window \in Nat \ {0} /\ now \in Nat /\ n \in Nat
        /\ log \in Seq(Admission) /\ clock[c] \in 1..now
        /\ \A i \in 1..n : log[i].at \in Nat /\ log[i].clock \in Nat
    BY TypeFacts, CounterAssumption, ScriptEffect
  <1>1. strategy = "slidingWindow" /\ strategy' = strategy /\ now' = now
        /\ e \in Admission
    BY ScriptEffect DEF SlidingWindow
  <1>2. /\ Len(log') = n + 1
        /\ \A i \in 1..n : log'[i] = log[i]
        /\ log'[n + 1] = e /\ e.at = now /\ e.clock = clock[c]
    BY <1>0, <1>1, AppendFacts, ScriptEffect
  <1>3. \A i \in 1..n : log[i].at <= now
    BY DEF Chronicle
  <1>4. Cardinality(scores') <= Limit
    <2>1. IsFiniteSet(kept) /\ Cardinality(kept) \in Nat
      BY KeptFinite
    <2>2. Cardinality(kept \cup {clock[c]}) <= Cardinality(kept) + 1
      <3>1. Cardinality(kept \cup {clock[c]})
               = IF clock[c] \in kept THEN Cardinality(kept)
                                      ELSE Cardinality(kept) + 1
        BY <2>1, FS_AddElement
      <3> HIDE DEF kept
      <3> QED  BY <2>1, <3>1
    <2>3. Cardinality(kept) < Limit
      BY <2>1, <1>0 DEF Full
    <2>4. Cardinality(kept \cup {clock[c]}) \in Nat
      BY <2>1, FS_AddElement, FS_CardinalityType
    <2> QED  BY <2>1, <2>2, <2>3, <2>4, <1>0
  <1> HIDE DEF n, e
  <1>5. ASSUME NEW i \in 1..n + 1
        PROVE  /\ now < log'[i].clock + Window => log'[i].clock \in scores'
               /\ log'[i].at + Window <= now + Window
    <2>1. CASE i = n + 1
      BY <2>1, <1>0, <1>2
    <2>2. CASE i \in 1..n
      <3>1. now < log[i].clock + Window => log[i].clock \in scores
        BY <2>2, <1>1 DEF SlidingInv, n
      <3>2. now < log[i].clock + Window =>
               log[i].clock \notin 0..(clock[c] - Window)
        BY <2>2, <1>0
      <3>3. log'[i] = log[i]
        BY <2>2, <1>2
      <3>4. now < log[i].clock + Window => log[i].clock \in scores'
        BY <3>1, <3>2 DEF Outdated
      <3>5. log[i].at + Window <= now + Window
        BY <2>2, <1>0, <1>3
      <3> QED  BY <3>3, <3>4, <3>5
    <2>3. i = n + 1 \/ i \in 1..n
      BY <1>0
    <2> QED  BY <2>1, <2>2, <2>3
  <1> QED  BY <1>1, <1>2, <1>4, <1>5 DEF SlidingInv

LEMMA SlidingStep ==
    ASSUME TypeOK, OwnFields, KeysRunOut, Chronicle, SlidingInv, [Next]_vars
    PROVE  SlidingInv'
  <1>0. /\ Limit \in Nat /\ Window \in Nat \ {0} /\ now \in Nat
        /\ Len(log) \in Nat /\ expires \in Nat
        /\ \A i \in 1..Len(log) : log[i].at \in Nat /\ log[i].clock \in Nat
    BY TypeFacts, CounterAssumption
  <1>1. ASSUME UNCHANGED <<strategy, expires, scores, log>>, now' \in Nat,
               now <= now'
        PROVE  SlidingInv'
    BY <1>1, <1>0 DEF SlidingInv
  <1>2. ASSUME NEW c \in Check, Script(c) PROVE SlidingInv'
    <2>1. strategy' = strategy /\ now' = now /\ clock[c] \in 1..now
      BY <1>2, ScriptEffect
    <2>2. CASE SlidingWindow(c)
      <3> DEFINE kept == scores \ Outdated(clock[c])
      <3>1. CASE /\ ~Full(Cardinality(kept))
                 /\ scores' = kept \cup {clock[c]}
                 /\ expires' = now + Window
                 /\ Admit(c)
        BY <3>1, <2>2, <1>2, SlidingAdmission DEF Admit
      <3>2. CASE /\ Full(Cardinality(kept))
                 /\ scores' = kept
                 /\ expires' = IF kept = {} THEN 0 ELSE expires
                 /\ UNCHANGED log
        <4>1. strategy = "slidingWindow"  BY <2>2 DEF SlidingWindow
        <4>2. Cardinality(kept) <= Cardinality(scores)
              /\ Cardinality(kept) \in Nat
          BY KeptFinite
        <4>3. Cardinality(scores) \in Nat
          BY KeptFinite, FS_CardinalityType
        <4>4. Cardinality(scores') <= Limit
          BY <3>2, <4>1, <4>2, <4>3, <1>0 DEF SlidingInv
        <4>5. ASSUME NEW i \in 1..Len(log), now < log[i].clock + Window
              PROVE  log[i].clock \in scores'
          <5>1. log[i].clock \in scores  BY <4>1, <4>5 DEF SlidingInv
          <5>2. log[i].clock \notin 0..(clock[c] - Window)
            BY <4>5, <2>1, <1>0
          <5> QED  BY <5>1, <5>2, <3>2 DEF Outdated
        <4>6. expires' # 0 => expires' = expires
          BY <3>2
        <4> QED  BY <4>1, <4>4, <4>5, <4>6, <3>2, <2>1 DEF SlidingInv
      <3> QED  BY <2>2, <3>1, <3>2 DEF SlidingWindow
    <2>3. CASE ~SlidingWindow(c)
      <3>1. strategy' # "slidingWindow"
        BY <2>3, <2>1, <1>2 DEF Script, FixedWindow, TokenBucket
      <3> QED  BY <3>1 DEF SlidingInv
    <2> QED  BY <2>2, <2>3
  <1>3. CASE Invalidate
    <2>1. Cardinality({}) = 0  BY FS_EmptySet
    <2> QED  BY <1>3, <2>1, <1>0 DEF Invalidate, NoKey, SlidingInv
  <1>4. CASE Expire
    <2>1. /\ expires' = 0 /\ scores' = {} /\ expires # 0 /\ now >= expires
          /\ UNCHANGED <<strategy, now, log>>
      BY <1>4 DEF Expire, NoKey
    <2>2. Cardinality({}) = 0  BY FS_EmptySet
    <2>3. ASSUME strategy = "slidingWindow", NEW i \in 1..Len(log)
          PROVE  ~(now < log[i].clock + Window)
      <3>1. log[i].at + Window <= expires
        BY <2>1, <2>3 DEF SlidingInv
      <3>2. log[i].clock <= log[i].at
        BY DEF Chronicle
      <3> QED  BY <3>1, <3>2, <2>1, <1>0
    <2> QED  BY <2>1, <2>2, <2>3, <1>0 DEF SlidingInv
  <1>5. CASE \/ Tick \/ UNCHANGED vars
             \/ \E c \in Check : Send(c) \/ ScriptFails(c)
    <2>1. UNCHANGED <<strategy, expires, scores, log>> /\ now' \in Nat
          /\ now <= now'
      BY <1>5, <1>0 DEF Tick, vars, key, Send, ScriptFails
    <2> QED  BY <2>1, <1>1
  <1> QED  BY <1>2, <1>3, <1>4, <1>5 DEF Next

\* The recent seconds with an admission are members of the set.
LEMMA SlidingBound ==
    ASSUME TypeOK, SlidingInv
    PROVE  SlidingSeconds
  <1> SUFFICES ASSUME strategy = "slidingWindow" PROVE SlidingSeconds
    BY DEF SlidingSeconds
  <1> DEFINE recent == {t \in 1..now :
                          /\ now - Window < t
                          /\ \E i \in 1..Len(log) : log[i].clock = t}
  <1>1. now \in Nat /\ Window \in Nat /\ Limit \in Nat
    BY TypeFacts, CounterAssumption
  <1>2. recent \subseteq scores
    <2> SUFFICES ASSUME NEW t \in recent PROVE t \in scores
      OBVIOUS
    <2>1. PICK i \in 1..Len(log) : log[i].clock = t
      OBVIOUS
    <2>2. now < log[i].clock + Window
      BY <2>1, <1>1
    <2> QED  BY <2>1, <2>2 DEF SlidingInv
  <1>3. IsFiniteSet(scores)
    BY KeptFinite
  <1>4. IsFiniteSet(recent) /\ Cardinality(recent) <= Cardinality(scores)
    BY <1>2, <1>3, FS_Subset
  <1>5. Cardinality(recent) \in Nat /\ Cardinality(scores) \in Nat
    BY <1>3, <1>4, FS_CardinalityType
  <1>6. Cardinality(scores) <= Limit
    BY DEF SlidingInv
  <1>7. Cardinality(recent) <= Limit
    BY <1>1, <1>4, <1>5, <1>6
  <1> QED  BY <1>7 DEF SlidingSeconds

-----------------------------------------------------------------------------
(* The token bucket.                                                       *)

\* A later clock has more flowed in, by the refill.
LEMMA InflowFacts ==
    ASSUME TypeOK, NEW i \in 1..Len(log), NEW a \in Int, NEW b \in Int
    PROVE  /\ Given(i) \in Nat /\ Inflow(i, a) \in Int /\ Inflow(i, b) \in Int
           /\ Flow(a, b) \in Int /\ Inflow(i, b) = Inflow(i, a) + Flow(a, b)
           /\ a <= b => Inflow(i, a) <= Inflow(i, b)
  <1>1. /\ Refill \in Nat /\ Token \in Nat /\ Early \in Nat /\ renewals \in Nat
        /\ log[i].clock \in Nat /\ log[i].renewals \in Nat
        /\ Len(log) - i + 1 \in Nat
    BY TypeFacts, EarlyFacts, CounterAssumption
  <1> DEFINE u == log[i].clock
             x == Early * (renewals - log[i].renewals)
  <1>2. Given(i) \in Nat
    <2>1. \A m, n \in Nat : m * n \in Nat
      OBVIOUS
    <2> QED  BY <1>1, <2>1 DEF Given
  <1>3. x \in Int /\ u \in Int
    BY <1>1
  <1>4. Inflow(i, a) = Refill * (a - u) + x /\ Inflow(i, b) = Refill * (b - u) + x
    BY DEF Inflow
  <1> HIDE DEF u, x
  <1>5. /\ Refill * (b - a) \in Int /\ Refill * (a - u) \in Int
        /\ Refill * (b - u) \in Int
        /\ Refill * (b - a) + Refill * (a - u) = Refill * (b - u)
    BY <1>1, <1>3, Chain
  <1>6. a <= b => 0 <= Refill * (b - a)
    <2>1. SUFFICES ASSUME a <= b PROVE 0 <= Refill * (b - a)
      OBVIOUS
    <2>2. 0 <= b - a /\ b - a \in Int
      BY <2>1
    <2>3. Refill * 0 <= Refill * (b - a)
      BY <2>2, <1>1, MonotoneProduct
    <2> QED  BY <2>3, <1>1
  <1> DEFINE p == Refill * (b - a)
             q == Refill * (a - u)
             r == Refill * (b - u)
  <1>7. p \in Int /\ q \in Int /\ r \in Int /\ p + q = r /\ (a <= b => 0 <= p)
    BY <1>5, <1>6
  <1>8. Inflow(i, a) = q + x /\ Inflow(i, b) = r + x
    BY <1>4
  <1> HIDE DEF p, q, r
  <1>9. /\ Inflow(i, a) \in Int /\ Inflow(i, b) \in Int
        /\ Inflow(i, b) = Inflow(i, a) + p
        /\ a <= b => Inflow(i, a) <= Inflow(i, b)
    BY <1>3, <1>7, <1>8
  <1> QED  BY <1>2, <1>7, <1>9 DEF p, Flow

\* What a script finds in the bucket, against each earlier admission.
LEMMA Available ==
    ASSUME TypeOK, Chronicle, BucketInv, strategy = "tokenBucket",
           NEW c \in Check, clock[c] \in 1..now, NEW i \in 1..Len(log)
    PROVE  Given(i) + TokensAt(clock[c]) <= Burst + Inflow(i, clock[c])
  <1> DEFINE t == clock[c]
  <1>0. /\ Burst \in Nat /\ Refill \in Nat /\ MaxDelay \in Nat
        /\ now \in Nat /\ t \in Nat
        /\ tokens \in Int /\ lastRefill \in Nat /\ TokensAt(t) \in Int
    BY TypeFacts, CounterAssumption, TokensAtType
  <1>1. CASE expires = 0
    <2>1. TokensAt(t) = Burst
      BY <1>1 DEF TokensAt
    <2>2. Given(i) <= Inflow(i, now - MaxDelay)
      BY <1>1 DEF BucketInv
    <2>3. now - MaxDelay <= t /\ now - MaxDelay \in Int
      BY <1>0 DEF Chronicle
    <2> HIDE DEF t
    <2>4. /\ Inflow(i, now - MaxDelay) <= Inflow(i, t) /\ Given(i) \in Nat
          /\ Inflow(i, now - MaxDelay) \in Int /\ Inflow(i, t) \in Int
      <3> DEFINE d == now - MaxDelay
      <3>1. d \in Int /\ t \in Int /\ d <= t
        BY <2>3, <1>0
      <3> HIDE DEF d
      <3>2. /\ Inflow(i, d) <= Inflow(i, t) /\ Given(i) \in Nat
            /\ Inflow(i, d) \in Int /\ Inflow(i, t) \in Int
        BY <3>1, InflowFacts
      <3> QED  BY <3>2 DEF d
    <2>5. Given(i) + TokensAt(t) <= Burst + Inflow(i, t)
      BY <2>1, <2>2, <2>4, <1>0
    <2> QED  BY <2>5 DEF t
  <1>2. CASE expires # 0
    <2>1. TokensAt(t) <= tokens + (t - lastRefill) * Refill
      <3> DEFINE r == tokens + (t - lastRefill) * Refill
      <3>1. r \in Int  BY <1>0
      <3>2. TokensAt(t) = IF r < Burst THEN r ELSE Burst
        BY <1>2 DEF TokensAt
      <3> HIDE DEF r
      <3>3. TokensAt(t) <= r  BY <3>1, <3>2, <1>0
      <3> QED  BY <3>3 DEF r
    <2>2. Given(i) + tokens <= Burst + Inflow(i, lastRefill)
      BY <1>2 DEF BucketInv
    <2> HIDE DEF t
    <2>3. (t - lastRefill) * Refill = Refill * (t - lastRefill)
      BY <1>0, Chain
    <2>4. /\ Given(i) \in Nat /\ Inflow(i, lastRefill) \in Int
          /\ Inflow(i, t) \in Int /\ Flow(lastRefill, t) \in Int
          /\ Inflow(i, t) = Inflow(i, lastRefill) + Flow(lastRefill, t)
      <3>1. lastRefill \in Int /\ t \in Int
        BY <1>0
      <3> QED  BY <3>1, InflowFacts
    <2>5. TokensAt(t) <= tokens + Flow(lastRefill, t)
      BY <2>1, <2>3 DEF Flow
    <2>6. Given(i) + TokensAt(t) <= Burst + Inflow(i, t)
      BY <2>2, <2>4, <2>5, <1>0
    <2> QED  BY <2>6 DEF t
  <1> QED  BY <1>1, <1>2

\* The bucket was never overdrawn further than the clock went back.
LEMMA NotOverdrawn ==
    ASSUME TypeOK, KeysRunOut, BucketInv, strategy = "tokenBucket",
           NEW c \in Check, clock[c] \in 1..now
    PROVE  0 <= TokensAt(clock[c]) + Refill * (now - clock[c])
  <1> DEFINE t == clock[c]
  <1>0. /\ Burst \in Nat /\ Refill \in Nat /\ BucketTtl \in Nat
        /\ now \in Nat /\ t \in Nat /\ t <= now /\ expires \in Nat
        /\ tokens \in Int /\ lastRefill \in Nat
    BY TypeFacts, CounterAssumption
  <1> HIDE DEF t
  <1>1. Refill * (now - t) \in Int /\ 0 <= Refill * (now - t)
    <2>1. 0 <= now - t  BY <1>0
    <2>2. Refill * 0 <= Refill * (now - t)
      BY <2>1, <1>0, MonotoneProduct
    <2> QED  BY <2>2, <1>0
  <1>2. CASE TokensAt(t) = Burst
    BY <1>2, <1>0, <1>1 DEF t
  <1>3. CASE expires # 0 /\ TokensAt(t) = tokens + (t - lastRefill) * Refill
    <2>1. 0 <= tokens + Refill * (expires - BucketTtl - lastRefill)
      BY <1>3 DEF BucketInv
    <2>2. expires <= now + BucketTtl
      BY <1>3 DEF KeysRunOut, Ttl
    <2>3. expires - BucketTtl - lastRefill <= now - lastRefill
      BY <2>2, <1>0
    <2>4. /\ Refill * (expires - BucketTtl - lastRefill)
                <= Refill * (now - lastRefill)
          /\ Refill * (expires - BucketTtl - lastRefill) \in Int
      BY <2>3, <1>0, MonotoneProduct
    <2>5. /\ Refill * (now - t) + Refill * (t - lastRefill)
                = Refill * (now - lastRefill)
          /\ Refill * (t - lastRefill) \in Int
          /\ Refill * (now - lastRefill) \in Int
      BY <1>0, Chain
    <2>6. (t - lastRefill) * Refill = Refill * (t - lastRefill)
      BY <1>0, Chain
    <2>7. 0 <= TokensAt(t) + Refill * (now - t)
      BY <2>1, <2>4, <2>5, <2>6, <1>0, <1>1, <1>3
    <2> QED  BY <2>7 DEF t
  <1>4. \/ TokensAt(t) = Burst
        \/ expires # 0 /\ TokensAt(t) = tokens + (t - lastRefill) * Refill
    BY DEF TokensAt
  <1> QED  BY <1>2, <1>3, <1>4

LEMMA BucketScript ==
    ASSUME TypeOK, KeysRunOut, Chronicle, BucketInv, BucketPace,
           NEW c \in Check, Script(c), TokenBucket(c)
    PROVE  BucketInv' /\ BucketPace'
  <1> DEFINE t == clock[c]
             n == Len(log)
             e == Entry(c)
             available == TokensAt(clock[c])
  <1>0. /\ Burst \in Nat /\ Token \in Nat /\ Refill \in Nat
        /\ BucketTtl \in Nat \ {0} /\ Early \in Nat
        /\ now \in Nat /\ t \in 1..now /\ n \in Nat /\ available \in Int
        /\ available <= Burst /\ log \in Seq(Admission) /\ renewals \in Nat
        /\ \A i \in 1..n : log[i].clock \in Nat /\ log[i].renewals \in Nat
    BY TypeFacts, CounterAssumption, EarlyFacts, ScriptEffect, TokensAtType
  <1>1. /\ strategy = "tokenBucket" /\ strategy' = strategy /\ now' = now
        /\ renewals' = renewals /\ lastRefill' = t /\ expires' = now + BucketTtl
        /\ e \in Admission /\ e.clock = t /\ e.renewals = renewals
    BY ScriptEffect DEF TokenBucket, RefilledAt
  <1>2. \A i \in 1..n : Given(i) + available <= Burst + Inflow(i, t)
    BY <1>0, <1>1, Available
  <1>3. 0 <= available + Refill * (now - t)
    BY <1>0, <1>1, NotOverdrawn
  <1>4. /\ Refill * (now - t) \in Int /\ 0 <= Refill * (now - t)
    <2>1. 0 <= now - t  BY <1>0
    <2>2. Refill * 0 <= Refill * (now - t)
      BY <2>1, <1>0, MonotoneProduct
    <2> QED  BY <2>2, <1>0
  <1>5. expires' # 0 /\ expires' - BucketTtl - lastRefill' = now - t
    BY <1>0, <1>1
  <1>6. \A i \in 1..n : Given(i) \in Nat /\ Inflow(i, t) \in Int
    <2>1. t \in Int
      BY <1>0
    <2> QED  BY <2>1, InflowFacts DEF n
  <1>7. \/ tokens' = available /\ log' = log
        \/ available >= Token /\ tokens' = available - Token /\ log' = Append(log, e)
    BY DEF TokenBucket, Admit
  <1> HIDE DEF t, n, e, available
  <1>8. CASE tokens' = available /\ log' = log
    <2>1. 0 <= tokens' + Refill * (expires' - BucketTtl - lastRefill')
      BY <1>3, <1>5, <1>8
    <2>2. \A i \in 1..Len(log) :
             Given(i)' + tokens' <= Burst + Inflow(i, lastRefill)'
      BY <1>1, <1>2, <1>8, EarlyConstant DEF n, Given, Inflow
    <2>3. BucketInv'
      BY <2>1, <2>2, <1>5, <1>8 DEF BucketInv
    <2>4. BucketPace'
      BY <1>1, <1>8, EarlyConstant DEF BucketPace
    <2> QED  BY <2>3, <2>4
  <1>9. CASE available >= Token /\ tokens' = available - Token /\ log' = Append(log, e)
    <2>1. /\ Len(log') = n + 1
          /\ \A i \in 1..n : log'[i] = log[i]
          /\ log'[n + 1] = e
      BY <1>0, <1>1, <1>9, AppendFacts DEF n
    <2>2. 0 <= tokens' + Token + Refill * (expires' - BucketTtl - lastRefill')
          /\ 0 <= tokens'
      BY <1>0, <1>3, <1>5, <1>9
    <2>3. ASSUME NEW i \in 1..n
          PROVE  Given(i)' = Given(i) + Token /\ Inflow(i, lastRefill)' = Inflow(i, t)
      <3>1. Given(i)' = (n + 1 - i + 1) * Token /\ Given(i) = (n - i + 1) * Token
        BY <2>1 DEF Given, n
      <3>2. (n + 1 - i + 1) * Token = (n - i + 1) * Token + Token
        BY <1>0
      <3>3. Inflow(i, lastRefill)' = Inflow(i, t)
        BY <2>1, <1>1, EarlyConstant DEF Inflow
      <3> QED  BY <3>1, <3>2, <3>3
    <2>4. ASSUME NEW i \in 1..n + 1, i = n + 1
          PROVE  Given(i)' = Token /\ Inflow(i, lastRefill)' = 0
      <3>1. Given(i)' = (n + 1 - i + 1) * Token
        BY <2>1, <1>0 DEF Given
      <3>2. Inflow(i, lastRefill)' = Refill * (t - t) + Early * (renewals - renewals)
        BY <2>1, <2>4, <1>1, EarlyConstant DEF Inflow
      <3>3. Refill * (t - t) = 0 /\ Early * (renewals - renewals) = 0
        BY <1>0
      <3>4. (n + 1 - i + 1) * Token = Token
        BY <2>4, <1>0
      <3> QED  BY <3>1, <3>2, <3>3, <3>4
    <2>5. ASSUME NEW i \in 1..n + 1
          PROVE  Given(i)' + tokens' <= Burst + Inflow(i, lastRefill)'
      <3>1. CASE i \in 1..n
        <4>1. Given(i)' = Given(i) + Token /\ Inflow(i, lastRefill)' = Inflow(i, t)
          BY <2>3, <3>1
        <4>2. Given(i) + available <= Burst + Inflow(i, t) /\ Given(i) \in Nat
              /\ Inflow(i, t) \in Int
          BY <1>2, <1>6, <3>1
        <4> QED  BY <4>1, <4>2, <1>0, <1>9
      <3>2. CASE i = n + 1
        BY <3>2, <2>4, <1>0, <1>9
      <3>3. i \in 1..n \/ i = n + 1
        BY <1>0
      <3> QED  BY <3>1, <3>2, <3>3
    <2>6. BucketInv'
      <3>1. 0 <= tokens' + Refill * (expires' - BucketTtl - lastRefill')
        BY <2>2, <1>4, <1>5, <1>0, <1>9
      <3> QED  BY <3>1, <2>1, <2>5, <1>5 DEF BucketInv
    <2>7. ASSUME NEW i \in 1..n + 1, NEW j \in 1..n + 1, i < j
          PROVE  (j - i + 1) * Token
                    <= Burst + Refill * (log'[j].clock - log'[i].clock)
                             + Early * (log'[j].renewals - log'[i].renewals)
      <3>1. i \in 1..n  BY <2>7, <1>0
      <3>2. CASE j \in 1..n
        <4>1. (j - i + 1) * Token
                 <= Burst + Refill * (log[j].clock - log[i].clock)
                          + Early * (log[j].renewals - log[i].renewals)
          BY <3>1, <3>2, <2>7, <1>1 DEF BucketPace, n
        <4> QED  BY <4>1, <3>1, <3>2, <2>1
      <3>3. CASE j = n + 1
        <4>1. Given(i) + available <= Burst + Inflow(i, t) /\ Given(i) \in Nat
              /\ Inflow(i, t) \in Int
          BY <3>1, <1>2, <1>6
        <4>2. (j - i + 1) * Token = Given(i) + Token
          <5>1. Given(i) = (n - i + 1) * Token  BY DEF Given, n
          <5>2. (n + 1 - i + 1) * Token = (n - i + 1) * Token + Token
            BY <3>1, <1>0
          <5>3. j - i + 1 = n + 1 - i + 1
            BY <3>1, <3>3, <1>0
          <5> QED  BY <5>1, <5>2, <5>3
        <4>3. (j - i + 1) * Token <= Burst + Inflow(i, t)
          BY <4>1, <4>2, <1>0, <1>9
        <4>4. Inflow(i, t) = Refill * (log'[j].clock - log'[i].clock)
                               + Early * (log'[j].renewals - log'[i].renewals)
          BY <3>1, <3>3, <2>1, <1>1 DEF Inflow
        <4>5. /\ Refill * (log'[j].clock - log'[i].clock) \in Int
              /\ Early * (log'[j].renewals - log'[i].renewals) \in Int
          <5>1. /\ log'[j].clock \in Int /\ log'[i].clock \in Int
                /\ log'[j].renewals \in Int /\ log'[i].renewals \in Int
            BY <3>1, <3>3, <2>1, <1>0, <1>1
          <5> QED  BY <5>1, <1>0
        <4> DEFINE p == Refill * (log'[j].clock - log'[i].clock)
                   q == Early * (log'[j].renewals - log'[i].renewals)
        <4>6. p \in Int /\ q \in Int /\ Inflow(i, t) = p + q
          BY <4>4, <4>5
        <4> HIDE DEF p, q
        <4>7. Burst + (p + q) = Burst + p + q
          BY <4>6, <1>0
        <4>8. (j - i + 1) * Token <= Burst + p + q
          BY <4>3, <4>6, <4>7
        <4> QED  BY <4>8 DEF p, q
      <3>4. j \in 1..n \/ j = n + 1  BY <1>0
      <3> QED  BY <3>2, <3>3, <3>4
    <2>8. BucketPace'
      BY <2>1, <2>7, EarlyConstant DEF BucketPace
    <2> QED  BY <2>6, <2>8
  <1> QED  BY <1>7, <1>8, <1>9

LEMMA BucketStep ==
    ASSUME TypeOK, OwnFields, KeysRunOut, Chronicle, BucketInv, BucketPace,
           [Next]_vars
    PROVE  BucketInv' /\ BucketPace'
  <1> DEFINE Goal == BucketInv' /\ BucketPace'
  <1>0. /\ Burst \in Nat /\ Refill \in Nat /\ BucketTtl \in Nat \ {0}
        /\ MaxDelay \in Nat /\ Early \in Nat /\ renewals \in Nat
        /\ now \in Nat /\ expires \in Nat /\ tokens \in Int
        /\ lastRefill \in Nat /\ Len(log) \in Nat
        /\ \A i \in 1..Len(log) : log[i].clock \in Nat
                                   /\ log[i].renewals \in Nat
    BY TypeFacts, CounterAssumption, EarlyFacts
  <1>1. ASSUME NEW c \in Check, Script(c) PROVE Goal
    <2>1. CASE TokenBucket(c)
      BY <2>1, <1>1, BucketScript
    <2>2. CASE ~TokenBucket(c)
      <3>1. strategy' # "tokenBucket"
        BY <2>2, <1>1, ScriptEffect DEF Script, FixedWindow, SlidingWindow
      <3> QED  BY <3>1 DEF BucketInv, BucketPace
    <2> QED  BY <2>1, <2>2
  <1>2. CASE Invalidate
    BY <1>2, <1>0 DEF Invalidate, NoKey, BucketInv, BucketPace
  <1>3. CASE Expire
    <2>1. /\ expires' = 0 /\ expires # 0 /\ now >= expires
          /\ UNCHANGED <<strategy, now, log>>
          /\ strategy = "tokenBucket" => renewals' = renewals + 1
      BY <1>3 DEF Expire, NoKey
    <2>2. BucketPace'
      BY <2>1, EarlyConstant DEF BucketPace
    <2>3. ASSUME strategy = "tokenBucket", NEW i \in 1..Len(log)
          PROVE  Given(i) <= Inflow(i, now - MaxDelay) + Early
      <3> DEFINE last == expires - BucketTtl
                 d == now - MaxDelay
      <3>1. /\ 0 <= tokens + Flow(lastRefill, last)
            /\ Given(i) + tokens <= Burst + Inflow(i, lastRefill)
        BY <2>1, <2>3 DEF BucketInv, Flow
      <3>2. /\ last \in Int /\ d \in Int /\ lastRefill \in Int
            /\ BucketTtl - MaxDelay <= d - last
        BY <2>1, <1>0
      <3> HIDE DEF last, d
      <3>3. /\ Given(i) \in Nat /\ Inflow(i, lastRefill) \in Int
            /\ Inflow(i, last) \in Int /\ Flow(lastRefill, last) \in Int
            /\ Inflow(i, last) = Inflow(i, lastRefill) + Flow(lastRefill, last)
        BY <3>2, InflowFacts
      <3>4. /\ Inflow(i, d) \in Int /\ Flow(last, d) \in Int
            /\ Inflow(i, d) = Inflow(i, last) + Flow(last, d)
        BY <3>2, InflowFacts
      <3>5. Burst <= Flow(last, d) + Early
        <4> DEFINE w == Refill * (BucketTtl - MaxDelay)
        <4>1. BucketTtl - MaxDelay \in Int /\ d - last \in Int
          BY <3>2, <1>0
        <4>2. w <= Flow(last, d)
          BY <4>1, <3>2, <1>0, MonotoneProduct DEF Flow
        <4>3. w \in Int /\ Burst <= w + Early
          BY EarlyFacts
        <4> HIDE DEF w
        <4> QED  BY <4>2, <4>3, <3>4, <1>0
      <3>6. Given(i) <= Burst + Inflow(i, last)
        BY <3>1, <3>3, <1>0
      <3>7. Given(i) <= Inflow(i, d) + Early
        BY <3>3, <3>4, <3>5, <3>6, <1>0
      <3> QED  BY <3>7 DEF d
    <2>4. ASSUME strategy = "tokenBucket", NEW i \in 1..Len(log)
          PROVE  Given(i)' <= Inflow(i, now - MaxDelay)'
      <3> DEFINE x == renewals - log[i].renewals
                 f == Refill * (now - MaxDelay - log[i].clock)
      <3>1. x \in Int /\ f \in Int
        BY <1>0
      <3>2. Inflow(i, now - MaxDelay) = f + Early * x
        BY DEF Inflow
      <3>3. Inflow(i, now - MaxDelay)' = f + Early * ((renewals + 1) - log[i].renewals)
        <4>1. now' = now /\ renewals' = renewals + 1 /\ log' = log
          BY <2>1, <2>4
        <4> QED  BY <4>1, EarlyConstant DEF Inflow
      <3>4. (renewals + 1) - log[i].renewals = x + 1
        BY <1>0
      <3>5. Given(i)' = Given(i)
        BY <2>1 DEF Given
      <3> HIDE DEF x, f
      <3>6. Early * (x + 1) = Early * x + Early /\ Early * x \in Int
        BY <3>1, <1>0
      <3> DEFINE y == Early * x
      <3>7. /\ y \in Int /\ Inflow(i, now - MaxDelay) = f + y
            /\ Inflow(i, now - MaxDelay)' = f + (y + Early)
        BY <3>2, <3>3, <3>4, <3>6
      <3> HIDE DEF y
      <3>8. Inflow(i, now - MaxDelay)' = Inflow(i, now - MaxDelay) + Early
        BY <3>1, <3>7, <1>0
      <3> QED  BY <2>3, <2>4, <3>5, <3>8
    <2>5. BucketInv'
      BY <2>1, <2>4 DEF BucketInv
    <2> QED  BY <2>2, <2>5
  <1>4. CASE Tick
    <2>1. now' = now + 1 /\ UNCHANGED <<strategy, key, renewals, log>>
      BY <1>4 DEF Tick
    <2>2. BucketPace'
      BY <2>1, EarlyConstant DEF BucketPace
    <2>3. ASSUME strategy = "tokenBucket", expires = 0, NEW i \in 1..Len(log)
          PROVE  Given(i)' <= Inflow(i, now - MaxDelay)'
      <3>1. Given(i) <= Inflow(i, now - MaxDelay)
        BY <2>3 DEF BucketInv
      <3>2. /\ now - MaxDelay \in Int /\ now + 1 - MaxDelay \in Int
            /\ now - MaxDelay <= now + 1 - MaxDelay
        BY <1>0
      <3>3. /\ Inflow(i, now - MaxDelay) <= Inflow(i, now + 1 - MaxDelay)
            /\ Given(i) \in Nat /\ Inflow(i, now - MaxDelay) \in Int
            /\ Inflow(i, now + 1 - MaxDelay) \in Int
        BY <3>2, InflowFacts
      <3>4. /\ Given(i)' = Given(i)
            /\ Inflow(i, now - MaxDelay)' = Inflow(i, now + 1 - MaxDelay)
        BY <2>1, <1>0, EarlyConstant DEF Given, Inflow
      <3> QED  BY <3>1, <3>3, <3>4
    <2>4. \A i \in 1..Len(log) : UNCHANGED Given(i) /\ UNCHANGED Inflow(i, lastRefill)
      BY <2>1, EarlyConstant DEF Given, Inflow, key
    <2>5. UNCHANGED <<strategy, expires, tokens, lastRefill, log>>
      BY <2>1 DEF key
    <2>6. BucketInv'
      BY <2>3, <2>4, <2>5 DEF BucketInv
    <2> QED  BY <2>2, <2>6
  <1>5. CASE UNCHANGED vars \/ \E c \in Check : Send(c) \/ ScriptFails(c)
    <2>1. UNCHANGED <<strategy, now, expires, tokens, lastRefill, renewals, log>>
      BY <1>5 DEF vars, key, Send, ScriptFails
    <2> QED  BY <2>1, EarlyConstant DEF BucketInv, BucketPace, Given, Inflow
  <1> QED  BY <1>1, <1>2, <1>3, <1>4, <1>5 DEF Next


-----------------------------------------------------------------------------
(* The theorems.                                                           *)

LEMMA Initially == Init => IInv
  <1> SUFFICES ASSUME Init PROVE IInv
    OBVIOUS
  <1>1. Cardinality({}) = 0
    BY FS_EmptySet
  <1>2. /\ now = 1 /\ expires = 0 /\ count = 0 /\ scores = {} /\ tokens = 0
        /\ lastRefill = 0 /\ renewals = 0 /\ log = <<>> /\ strategy \in Strategy
        /\ clock = [c \in Check |-> 0]
    BY DEF Init
  <1>3. <<>> \in Seq(Admission) /\ Len(log) = 0
    BY <1>2
  <1>4. TypeOK
    BY <1>2, <1>3, CounterAssumption DEF TypeOK
  <1>5. KeysRunOut /\ OwnFields
    BY <1>2 DEF KeysRunOut, OwnFields
  <1>6. Chronicle
    BY <1>2, <1>3 DEF Chronicle
  <1>7. FixedInv /\ FixedWindowPace /\ BucketInv /\ BucketPace
    BY <1>2, <1>3 DEF FixedInv, FixedWindowPace, BucketInv, BucketPace
  <1>8. SlidingInv
    BY <1>1, <1>2, <1>3, CounterAssumption DEF SlidingInv
  <1> QED  BY <1>4, <1>5, <1>6, <1>7, <1>8 DEF IInv

LEMMA Inductive == IInv /\ [Next]_vars => IInv'
  BY TypeStep, RunOutStep, ChronicleStep, FixedStep, SlidingStep, BucketStep
  DEF IInv

THEOREM CounterInvariant == Spec => []IInv
  BY Initially, Inductive, PTL DEF Spec

\* A key and its histories keep their types, for all limits and bounds.
THEOREM CounterTypeCorrect == Spec => []TypeOK
  <1>1. IInv => TypeOK  BY DEF IInv
  <1> QED  BY <1>1, CounterInvariant, PTL

\* A key that refuses anything runs out within its script's time to live.
THEOREM CounterKeysRunOut == Spec => []KeysRunOut
  <1>1. IInv => KeysRunOut  BY DEF IInv
  <1> QED  BY <1>1, CounterInvariant, PTL

\* 2 * Limit admissions of a fixed window never fit into one window's length.
THEOREM CounterFixedWindowPace == Spec => []FixedWindowPace
  <1>1. IInv => FixedWindowPace  BY DEF IInv
  <1> QED  BY <1>1, CounterInvariant, PTL

\* A sliding window admits in at most Limit of the last Window seconds.
THEOREM CounterSlidingSeconds == Spec => []SlidingSeconds
  <1>1. IInv => SlidingSeconds  BY SlidingBound DEF IInv
  <1> QED  BY <1>1, CounterInvariant, PTL

\* A bucket gives out at most its capacity, the refill in between and what the
\* run-outs of its key in between gave ahead, whatever burst and refill a policy
\* has.
THEOREM CounterBucketPace == Spec => []BucketPace
  <1>1. IInv => BucketPace  BY DEF IInv
  <1> QED  BY <1>1, CounterInvariant, PTL

-----------------------------------------------------------------------------
(* What the rules' proofs ask of the constants, and what the variables of  *)
(* RateConfig hold.                                                        *)

RuleState == {"gone", "off", "on", "plain", "white", "matching"}

RuleRow == [state: RuleState, ver: Nat]

\* A rule that was read, on its way to the cache and there.
RuleValue == [state: RuleState, ver: Nat, left: Nat, overlap: BOOLEAN, old: Nat]

\* A check's frame.
Lookup == [at: Config!Rule \cup {"free", "policy", "planned"},
           stage: {"get", "load", "put", "decided"}, keyed: BOOLEAN,
           value: RuleValue \cup {Nil}, basis: Nat, white: BOOLEAN]

\* An administrator's.
Order == [rule: Config!Rule \cup {Nil}, op: {"create", "update", "delete", "invalidate"},
          to: RuleState \cup {Nil}, stage: {"write", "read", "publish"}, ver: Nat]

\* What is asked of the constants: an invalid key is kept no longer than other
\* rules, and null is none of the data it stands next to.
RuleSound ==
    /\ RuleTtl \in Nat /\ InvalidTtl \in Nat /\ RuleDelay \in Nat /\ InvalidTtl <= RuleTtl
    /\ Changing \subseteq Config!Rule
    /\ Nil \notin Config!Rule \cup RuleValue \cup Lookup \cup Order

\* Value v of rule k is the rule after its last answered change; or it was read
\* before its key was deleted and is stored after, or a deletion is yet to come
\* or has failed.
Heard(k, v) ==
    /\ v.ver <= rules[k].ver
    /\ v.ver < answered[k] => v.overlap \/ signals > 0 \/ lost

\* A value in the cache has been old for no longer than it can have been there.
EntryOK(k, v) ==
    /\ v \in RuleValue /\ Heard(k, v)
    /\ v.old + v.left <= RuleTtl + RuleDelay

\* A frame has a rule to look up until it is decided, and a value that was read
\* in time.
LookupOK(f) ==
    /\ f.stage # "decided" => f.at \in Config!Rule
    /\ f.basis <= RuleTtl + RuleDelay
    /\ f.stage = "put" =>
          /\ f.value \in RuleValue /\ Heard(f.at, f.value)
          /\ f.value.old + f.value.left <= RuleDelay

\* What an administrator has written is a version that the rule had.
OrderOK(o) ==
    /\ o.stage # "publish" => o.rule \in Config!Rule /\ o.to \in RuleState
    /\ o.rule # Nil => o.ver <= rules[o.rule].ver

RuleTypes ==
    /\ rules \in [Config!Rule -> RuleRow]
    /\ cached \in [Config!Rule -> RuleValue \cup {Nil}]
    /\ call \in [RuleCheck -> Lookup \cup {Nil}]
    /\ admin \in [Admin -> Order \cup {Nil}]
    /\ signals \in Nat /\ answered \in [Config!Rule -> Nat] /\ lost \in BOOLEAN

RuleInv ==
    /\ RuleTypes
    /\ \A k \in Config!Rule : answered[k] <= rules[k].ver
    /\ \A k \in Config!Rule : cached[k] # Nil => EntryOK(k, cached[k])
    /\ \A c \in RuleCheck : call[c] # Nil => LookupOK(call[c])
    /\ \A a \in Admin : admin[a] # Nil => OrderOK(admin[a])

-----------------------------------------------------------------------------
(* The steps of a check.                                                   *)

\* A check's step from one frame to the next.
LEMMA CheckStep ==
    ASSUME RuleSound, RuleInv, NEW c \in RuleCheck, NEW f \in Lookup \cup {Nil},
           call' = [call EXCEPT ![c] = f], f # Nil => LookupOK(f)',
           UNCHANGED <<rules, admin, signals, answered, lost>>,
           cached' \in [Config!Rule -> RuleValue \cup {Nil}],
           \A k \in Config!Rule : cached'[k] # Nil => EntryOK(k, cached'[k])
    PROVE  RuleInv'
  <1>1. RuleTypes'
    BY DEF RuleInv, RuleTypes
  <1>2. \A k \in Config!Rule : cached'[k] # Nil => EntryOK(k, cached[k])'
    BY DEF EntryOK, Heard
  <1>3. ASSUME NEW d \in RuleCheck, call'[d] # Nil PROVE LookupOK(call[d])'
    <2>1. CASE d = c
      <3>1. call'[d] = f
        BY <2>1 DEF RuleInv, RuleTypes
      <3>2. QED BY <1>3, <3>1 DEF LookupOK, Heard
    <2>2. CASE d # c
      <3>1. call'[d] = call[d]
        BY <2>2 DEF RuleInv, RuleTypes
      <3>2. QED BY <1>3, <3>1 DEF RuleInv, LookupOK, Heard
    <2>3. QED BY <2>1, <2>2
  <1>4. \A a \in Admin : admin'[a] # Nil => OrderOK(admin[a])'
    BY DEF RuleInv, OrderOK
  <1>5. QED BY <1>1, <1>2, <1>3, <1>4 DEF RuleInv

\* Where a check goes with a value that is recent enough.
LEMMA ProceedFrame ==
    ASSUME RuleSound, RuleTypes, NEW c \in RuleCheck, call[c] # Nil, LookupOK(call[c]),
           call[c].stage # "decided", NEW v, v.old \in Nat, v.old <= RuleTtl + RuleDelay,
           NEW hit, Config!Proceed(c, v, hit)
    PROVE  \E f \in Lookup :
              /\ call' = [call EXCEPT ![c] = f] /\ f.stage \in {"get", "decided"}
              /\ f.stage # "decided" => f.at \in Config!Rule
              /\ f.basis <= RuleTtl + RuleDelay
  <1> DEFINE next == Config!After(call[c].at, v.state, call[c].keyed, hit)
             stage == IF next \in Config!Rule THEN "get" ELSE "decided"
             basis == IF v.old > call[c].basis THEN v.old ELSE call[c].basis
             white == call[c].white \/ v.state = "white"
             f == [call[c] EXCEPT !.at = next, !.stage = stage, !.value = Nil,
                                  !.basis = basis, !.white = white]
  <1>1. call[c] \in Lookup /\ call[c].at \in Config!Rule
    BY DEF RuleTypes, LookupOK
  <1>2. next \in Config!Rule \cup {"free", "policy", "planned"}
    BY <1>1 DEF Config!After, Config!AfterIp, Config!AfterKey, Config!AfterPolicies,
       Config!Rule
  <1>3. basis \in Nat /\ basis <= RuleTtl + RuleDelay /\ white \in BOOLEAN
        /\ stage \in {"get", "decided"}
    BY <1>1 DEF Lookup, LookupOK
  <1>4. call' = [call EXCEPT ![c] = f]
    BY <1>1 DEF Config!Proceed, RuleTypes
  <1>5. stage # "decided" => next \in Config!Rule
    OBVIOUS
  <1> HIDE DEF next, stage, basis, white
  <1>6. f \in Lookup /\ f.stage = stage /\ f.at = next /\ f.basis = basis
    BY <1>1, <1>2, <1>3 DEF Lookup
  <1> HIDE DEF f
  <1>7. QED BY <1>2, <1>3, <1>4, <1>5, <1>6

\* Such a step keeps the invariant.
LEMMA ProceedStep ==
    ASSUME RuleSound, RuleInv, NEW c \in RuleCheck, call[c] # Nil, call[c].stage # "decided",
           NEW v, v.old \in Nat, v.old <= RuleTtl + RuleDelay, NEW hit,
           Config!Proceed(c, v, hit),
           UNCHANGED <<rules, admin, signals, answered, lost>>,
           cached' \in [Config!Rule -> RuleValue \cup {Nil}],
           \A k \in Config!Rule : cached'[k] # Nil => EntryOK(k, cached'[k])
    PROVE  RuleInv'
  <1>1. PICK f \in Lookup :
              /\ call' = [call EXCEPT ![c] = f] /\ f.stage \in {"get", "decided"}
              /\ f.stage # "decided" => f.at \in Config!Rule
              /\ f.basis <= RuleTtl + RuleDelay
    BY ProceedFrame DEF RuleInv
  <1>2. LookupOK(f)'
    BY <1>1 DEF LookupOK
  <1>3. QED BY <1>1, <1>2, CheckStep

LEMMA ArriveRule ==
    ASSUME RuleSound, RuleInv, NEW c \in RuleCheck, Config!Arrive(c) \/ Config!Answer(c)
    PROVE  RuleInv'
  <1>1. UNCHANGED <<rules, cached, admin, signals, answered, lost>>
    BY DEF Config!Arrive, Config!Answer
  <1>2. /\ cached' \in [Config!Rule -> RuleValue \cup {Nil}]
        /\ \A k \in Config!Rule : cached'[k] # Nil => EntryOK(k, cached'[k])
    BY <1>1 DEF RuleInv, RuleTypes
  <1>3. CASE Config!Arrive(c)
    <2>1. PICK keyed \in BOOLEAN :
             call' = [call EXCEPT ![c] = [at |-> "ip", stage |-> "get", keyed |-> keyed,
                                          value |-> Nil, basis |-> 0, white |-> FALSE]]
      BY <1>3 DEF Config!Arrive
    <2> DEFINE f == [at |-> "ip", stage |-> "get", keyed |-> keyed,
                     value |-> Nil, basis |-> 0, white |-> FALSE]
    <2>2. f \in Lookup /\ f.stage = "get" /\ f.at \in Config!Rule /\ f.basis = 0
      BY DEF Lookup, Config!Rule
    <2>3. call' = [call EXCEPT ![c] = f]
      BY <2>1
    <2> HIDE DEF f
    <2>4. LookupOK(f)'
      BY <2>2 DEF LookupOK, RuleSound
    <2>5. QED BY <1>1, <1>2, <2>2, <2>3, <2>4, CheckStep
  <1>4. CASE Config!Answer(c)
    <2>1. call' = [call EXCEPT ![c] = Nil]
      BY <1>4 DEF Config!Answer
    <2>2. PICK f : f = Nil
      OBVIOUS
    <2>3. QED BY <1>1, <1>2, <2>1, <2>2, CheckStep
  <1>5. QED BY <1>3, <1>4

\* A hit, or the way to the query.
LEMMA GetRule == ASSUME RuleSound, RuleInv, NEW c \in RuleCheck, Config!Get(c) PROVE RuleInv'
  <1>1. /\ UNCHANGED <<rules, cached, admin, signals, answered, lost>>
        /\ call[c] # Nil /\ call[c].stage = "get" /\ call[c] \in Lookup /\ LookupOK(call[c])
        /\ call[c].at \in Config!Rule
    BY DEF Config!Get, Config!At, RuleInv, RuleTypes, LookupOK
  <1>2. /\ cached' \in [Config!Rule -> RuleValue \cup {Nil}]
        /\ \A k \in Config!Rule : cached'[k] # Nil => EntryOK(k, cached'[k])
    BY <1>1 DEF RuleInv, RuleTypes
  <1>3. CASE cached[call[c].at] = Nil
    <2> DEFINE f == [call[c] EXCEPT !.stage = "load"]
    <2>1. f \in Lookup /\ f.stage = "load" /\ f.at = call[c].at /\ f.basis = call[c].basis
      BY <1>1 DEF Lookup
    <2>2. call' = [call EXCEPT ![c] = f]
      BY <1>3 DEF Config!Get
    <2> HIDE DEF f
    <2>3. PICK g \in Lookup : /\ call' = [call EXCEPT ![c] = g] /\ g.stage = "load"
                              /\ g.at \in Config!Rule /\ g.basis <= RuleTtl + RuleDelay
      BY <1>1, <2>1, <2>2 DEF LookupOK
    <2>4. LookupOK(g)'
      BY <2>3 DEF LookupOK
    <2>5. QED BY <1>1, <1>2, <2>3, <2>4, CheckStep
  <1>4. CASE cached[call[c].at] # Nil
    <2>1. PICK v : v = cached[call[c].at]
      OBVIOUS
    <2>2. EntryOK(call[c].at, v) /\ v \in RuleValue
      BY <1>1, <1>4, <2>1 DEF RuleInv, EntryOK
    <2>3. v.old \in Nat /\ v.old <= RuleTtl + RuleDelay
      BY <2>2 DEF EntryOK, RuleValue, RuleSound
    <2>4. Config!Proceed(c, v, TRUE)
      BY <1>4, <2>1 DEF Config!Get
    <2>5. QED BY <1>1, <1>2, <2>3, <2>4, ProceedStep
  <1>5. QED BY <1>3, <1>4

\* What the query finds is the rule as it is.
LEMMA LoadRule == ASSUME RuleSound, RuleInv, NEW c \in RuleCheck, Config!Load(c) PROVE RuleInv'
  <1>1. /\ UNCHANGED <<rules, cached, admin, signals, answered, lost>>
        /\ call[c] # Nil /\ call[c].stage = "load" /\ call[c] \in Lookup /\ LookupOK(call[c])
        /\ call[c].at \in Config!Rule /\ rules[call[c].at] \in RuleRow
    BY DEF Config!Load, Config!At, RuleInv, RuleTypes, LookupOK
  <1>2. /\ cached' \in [Config!Rule -> RuleValue \cup {Nil}]
        /\ \A k \in Config!Rule : cached'[k] # Nil => EntryOK(k, cached'[k])
    BY <1>1 DEF RuleInv, RuleTypes
  <1>3. PICK k, v : k = call[c].at /\ v = Config!Value(k)
    OBVIOUS
  <1>4. /\ v \in RuleValue /\ v.ver = rules[k].ver /\ v.old = 0 /\ v.left = RuleDelay
    BY <1>1, <1>3 DEF Config!Value, RuleValue, RuleRow, RuleSound
  <1>5. Heard(k, v) /\ 0 <= RuleTtl + RuleDelay /\ v.old + v.left <= RuleDelay
    BY <1>1, <1>3, <1>4 DEF Heard, RuleInv, RuleTypes, RuleRow, RuleSound
  <1>6. CASE Config!Proceed(c, v, FALSE)
    <2>1. v.old \in Nat /\ v.old <= RuleTtl + RuleDelay /\ call[c].stage # "decided"
      BY <1>1, <1>4, <1>5
    <2>2. QED BY <1>1, <1>2, <1>6, <2>1, ProceedStep
  <1>7. CASE call' = [call EXCEPT ![c] = [[call[c] EXCEPT !.stage = "put"] EXCEPT !.value = v]]
    <2> DEFINE g == [call[c] EXCEPT !.stage = "put"]
               f == [g EXCEPT !.value = v]
    <2>1. g \in Lookup /\ g.stage = "put" /\ g.at = k /\ g.basis = call[c].basis
      BY <1>1, <1>3 DEF Lookup
    <2>2. call' = [call EXCEPT ![c] = f]
      BY <1>7
    <2> HIDE DEF g
    <2>3. f \in Lookup /\ f.stage = "put" /\ f.at = k /\ f.basis = call[c].basis /\ f.value = v
      BY <1>4, <2>1 DEF Lookup
    <2> HIDE DEF f
    <2>4. PICK h \in Lookup : /\ call' = [call EXCEPT ![c] = h] /\ h.stage = "put" /\ h.at = k
                              /\ h.basis <= RuleTtl + RuleDelay /\ h.value = v
      BY <1>1, <2>2, <2>3 DEF LookupOK
    <2>5. LookupOK(h)'
      BY <1>1, <1>3, <1>4, <1>5, <2>4 DEF LookupOK, Heard
    <2>6. QED BY <1>1, <1>2, <2>4, <2>5, CheckStep
  <1>8. QED BY <1>1, <1>3, <1>6, <1>7 DEF Config!Load

\* It is stored for as long as its kind is, and not changed.
LEMMA PutRule == ASSUME RuleSound, RuleInv, NEW c \in RuleCheck, Config!Put(c) PROVE RuleInv'
  <1>1. PICK k, v, w : k = call[c].at /\ v = call[c].value /\ w = Config!Kept(k, v)
    OBVIOUS
  <1>2. /\ UNCHANGED <<rules, admin, signals, answered, lost>>
        /\ call[c] # Nil /\ call[c].stage = "put" /\ LookupOK(call[c])
        /\ k \in Config!Rule /\ v \in RuleValue /\ Heard(k, v) /\ v.old + v.left <= RuleDelay
        /\ cached' = [cached EXCEPT ![k] = w] /\ Config!Proceed(c, v, FALSE)
    BY <1>1 DEF Config!Put, Config!At, RuleInv, RuleTypes, LookupOK
  <1>3. PICK t \in Nat : t <= RuleTtl /\ w = [v EXCEPT !.left = t]
    BY <1>1 DEF Config!Kept, RuleSound
  <1>4. /\ w \in RuleValue /\ w.left = t /\ w.old = v.old /\ w.ver = v.ver
        /\ w.overlap = v.overlap /\ v.old \in Nat /\ v.left \in Nat
    BY <1>2, <1>3 DEF RuleValue
  <1>5. EntryOK(k, w)
    BY <1>2, <1>3, <1>4 DEF EntryOK, Heard, RuleSound
  <1>6. /\ cached' \in [Config!Rule -> RuleValue \cup {Nil}]
        /\ \A j \in Config!Rule : cached'[j] # Nil => EntryOK(j, cached'[j])
    BY <1>2, <1>4, <1>5 DEF RuleInv, RuleTypes
  <1>7. v.old <= RuleTtl + RuleDelay
    BY <1>2, <1>4 DEF RuleSound
  <1>8. QED BY <1>2, <1>4, <1>6, <1>7, ProceedStep

\* A look-up that fails finds nothing.
LEMMA FailRule ==
    ASSUME RuleSound, RuleInv, NEW c \in RuleCheck, Config!LookupFails(c) PROVE RuleInv'
  <1>1. /\ UNCHANGED <<rules, cached, admin, signals, answered, lost>>
        /\ call[c] # Nil /\ call[c].stage # "decided"
        /\ Config!Proceed(c, Config!NoValue, FALSE)
    BY DEF Config!LookupFails
  <1>2. /\ cached' \in [Config!Rule -> RuleValue \cup {Nil}]
        /\ \A k \in Config!Rule : cached'[k] # Nil => EntryOK(k, cached'[k])
    BY <1>1 DEF RuleInv, RuleTypes
  <1>3. PICK v : v = Config!NoValue
    OBVIOUS
  <1>4. v.old = 0 /\ v.old \in Nat /\ v.old <= RuleTtl + RuleDelay
    BY <1>3 DEF Config!NoValue, RuleSound
  <1>5. Config!Proceed(c, v, FALSE)
    BY <1>1, <1>3
  <1>6. QED BY <1>1, <1>2, <1>4, <1>5, ProceedStep

-----------------------------------------------------------------------------
(* The steps of the administrators.                                        *)

\* A step that leaves the cache and the look-ups alone, and makes nothing
\* unheard of that was heard of.
LEMMA AdminStep ==
    ASSUME RuleSound, RuleInv, UNCHANGED <<cached, call>>,
           RuleTypes',
           \A k \in Config!Rule : rules[k].ver <= rules[k].ver',
           \A k \in Config!Rule : answered[k]' <= rules[k].ver',
           \A k \in Config!Rule : answered[k]' = answered[k] \/ signals' > 0 \/ lost',
           (signals > 0 \/ lost) => (signals' > 0 \/ lost'),
           \A a \in Admin : admin'[a] # Nil => OrderOK(admin[a])'
    PROVE  RuleInv'
  <1>1. ASSUME NEW k \in Config!Rule, NEW v \in RuleValue, Heard(k, v) PROVE Heard(k, v)'
    <2>1. rules[k].ver \in Nat /\ rules[k].ver' \in Nat /\ v.ver \in Nat
      BY DEF RuleInv, RuleTypes, RuleRow, RuleValue
    <2>2. QED BY <1>1, <2>1 DEF Heard
  <1>2. ASSUME NEW k \in Config!Rule, cached'[k] # Nil PROVE EntryOK(k, cached[k])'
    <2>1. PICK v : v = cached[k]
      OBVIOUS
    <2>2. v \in RuleValue /\ EntryOK(k, v) /\ cached'[k] = v
      BY <1>2, <2>1 DEF RuleInv, EntryOK
    <2>3. Heard(k, v)'
      BY <1>1, <2>2 DEF EntryOK
    <2>4. EntryOK(k, v)'
      BY <2>2, <2>3 DEF EntryOK
    <2>5. QED BY <2>2, <2>4 DEF EntryOK, Heard
  <1>3. ASSUME NEW c \in RuleCheck, call'[c] # Nil PROVE LookupOK(call[c])'
    <2>1. PICK f : f = call[c]
      OBVIOUS
    <2>2. LookupOK(f) /\ call'[c] = f /\ (f.stage = "put" => f.at \in Config!Rule)
      BY <1>3, <2>1 DEF RuleInv, LookupOK
    <2>3. f.stage = "put" => Heard(f.at, f.value)'
      BY <1>1, <2>2 DEF LookupOK
    <2>4. LookupOK(f)'
      BY <2>2, <2>3 DEF LookupOK
    <2>5. QED BY <2>2, <2>4 DEF LookupOK, Heard
  <1>4. QED BY <1>2, <1>3 DEF RuleInv

\* A request is taken, with what it is to do.
LEMMA AcceptStep ==
    ASSUME RuleSound, RuleInv, NEW a \in Admin, NEW k \in Config!Rule \cup {Nil},
           NEW op \in {"create", "update", "delete", "invalidate"},
           NEW to \in RuleState \cup {Nil}, NEW stage \in {"write", "publish"},
           stage = "write" => k \in Config!Rule /\ to \in RuleState,
           Config!Accept(a, k, op, to, stage)
    PROVE  RuleInv'
  <1>1. PICK o : o = [rule |-> k, op |-> op, to |-> to, stage |-> stage, ver |-> 0]
    OBVIOUS
  <1>2. /\ o \in Order /\ o.rule = k /\ o.stage = stage /\ o.ver = 0 /\ o.to = to
        /\ admin' = [admin EXCEPT ![a] = o]
        /\ UNCHANGED <<rules, cached, call, signals, answered, lost>>
    BY <1>1 DEF Config!Accept, Order
  <1>3. RuleTypes'
    BY <1>2 DEF RuleInv, RuleTypes
  <1>4. OrderOK(o)'
    BY <1>2 DEF OrderOK, RuleInv, RuleTypes, RuleRow
  <1>5. ASSUME NEW b \in Admin, admin'[b] # Nil PROVE OrderOK(admin[b])'
    <2>1. CASE b = a
      BY <1>2, <1>4, <2>1 DEF RuleInv, RuleTypes, OrderOK
    <2>2. CASE b # a
      BY <1>2, <1>5, <2>2 DEF RuleInv, RuleTypes, OrderOK
    <2>3. QED BY <2>1, <2>2
  <1>6. \A j \in Config!Rule : rules[j].ver <= rules[j].ver' /\ answered[j]' <= rules[j].ver'
    BY <1>2 DEF RuleInv, RuleTypes, RuleRow
  <1>7. QED BY <1>2, <1>3, <1>5, <1>6, AdminStep

\* The statement makes at most one new version of its rule.
LEMMA WriteRuleStep ==
    ASSUME RuleSound, RuleInv, NEW a \in Admin, Config!WriteRule(a) PROVE RuleInv'
  <1>1. PICK c, k, r, new : /\ c = admin[a] /\ k = c.rule /\ r = rules[k]
                            /\ new = Config!Written(c.op, r, c.to)
    OBVIOUS
  <1>2. /\ c \in Order /\ c # Nil /\ c.stage = "write" /\ k \in Config!Rule
        /\ c.to \in RuleState
        /\ r \in RuleRow /\ c.rule = k
        /\ UNCHANGED <<cached, call, signals, answered, lost>>
        /\ rules' = [rules EXCEPT ![k] = new]
    BY <1>1 DEF Config!WriteRule, RuleInv, RuleTypes, OrderOK
  <1>3. new \in RuleRow /\ r.ver <= new.ver
    BY <1>1, <1>2 DEF Config!Written, RuleRow
  <1>4. rules' \in [Config!Rule -> RuleRow]
    BY <1>2, <1>3 DEF RuleInv, RuleTypes
  <1>5. \A j \in Config!Rule : rules[j].ver <= rules[j].ver' /\ answered[j]' <= rules[j].ver'
    <2>1. TAKE j \in Config!Rule
    <2>2. rules[j].ver \in Nat /\ answered[j] \in Nat /\ answered[j] <= rules[j].ver
      BY DEF RuleInv, RuleTypes, RuleRow
    <2>3. rules'[j].ver \in Nat /\ rules[j].ver <= rules'[j].ver
      BY <1>1, <1>2, <1>3, <2>2, <1>4 DEF RuleInv, RuleTypes, RuleRow
    <2>4. QED BY <1>2, <2>2, <2>3
  <1>6. PICK o \in Order \cup {Nil} : /\ admin' = [admin EXCEPT ![a] = o]
                                      /\ o # Nil => /\ o.rule = k /\ o.to \in RuleState
                                                    /\ o.ver = new.ver
    <2>1. CASE c.op = "create" /\ new = rules[k]
      BY <1>1, <1>2, <2>1 DEF Config!WriteRule
    <2>2. CASE ~(c.op = "create" /\ new = rules[k])
      <3> DEFINE stage == IF c.op = "update" THEN "read" ELSE "publish"
                 g == [c EXCEPT !.ver = new.ver]
                 o == [g EXCEPT !.stage = stage]
      <3>1. g \in Order /\ g.rule = k /\ g.to = c.to /\ g.ver = new.ver
        BY <1>2, <1>3 DEF Order, RuleRow
      <3>2. stage \in {"read", "publish"}
        OBVIOUS
      <3>3. admin' = [admin EXCEPT ![a] = o]
        BY <1>1, <1>2, <2>2 DEF Config!WriteRule
      <3> HIDE DEF g, stage
      <3>4. o \in Order /\ o.rule = k /\ o.to = c.to /\ o.ver = new.ver
        BY <3>1, <3>2 DEF Order
      <3> HIDE DEF o
      <3>5. QED BY <1>2, <3>3, <3>4
    <2>3. QED BY <2>1, <2>2
  <1>7. RuleTypes'
    BY <1>2, <1>4, <1>6 DEF RuleInv, RuleTypes
  <1>8. ASSUME NEW b \in Admin, admin'[b] # Nil PROVE OrderOK(admin[b])'
    <2>1. CASE b = a
      <3>1. admin'[b] = o /\ o # Nil
        BY <1>6, <1>8, <2>1 DEF RuleInv, RuleTypes
      <3>2. rules'[k] = new /\ new.ver \in Nat
        BY <1>2, <1>3 DEF RuleInv, RuleTypes, RuleRow
      <3>3. QED BY <1>2, <1>6, <3>1, <3>2 DEF OrderOK
    <2>2. CASE b # a
      <3>1. PICK q : q = admin[b]
        OBVIOUS
      <3>2. admin'[b] = q /\ q # Nil /\ q \in Order /\ OrderOK(q)
        BY <1>6, <1>8, <2>2, <3>1 DEF RuleInv, RuleTypes
      <3>3. q.rule # Nil =>
               q.rule \in Config!Rule /\ q.ver \in Nat /\ q.ver <= rules[q.rule].ver
        BY <3>2 DEF OrderOK, Order
      <3>4. q.rule \in Config!Rule => rules[q.rule].ver \in Nat /\ rules'[q.rule].ver \in Nat
        BY <1>4 DEF RuleInv, RuleTypes, RuleRow
      <3>5. q.rule # Nil => q.ver <= rules'[q.rule].ver
        BY <1>5, <3>3, <3>4
      <3>6. QED BY <3>2, <3>5 DEF OrderOK
    <2>3. QED BY <2>1, <2>2
  <1>9. QED BY <1>2, <1>5, <1>7, <1>8, AdminStep

\* What the other steps of administrators ask of the versions.
LEMMA SameRules ==
    ASSUME RuleInv, rules' = rules, answered' = answered
    PROVE  \A j \in Config!Rule : rules[j].ver <= rules[j].ver' /\ answered[j]' <= rules[j].ver'
  BY DEF RuleInv, RuleTypes, RuleRow

\* The read-back decides whether there is a message.
LEMMA ReadRuleStep ==
    ASSUME RuleSound, RuleInv, NEW a \in Admin, Config!ReadRule(a) PROVE RuleInv'
  <1>1. PICK c : c = admin[a]
    OBVIOUS
  <1>2. /\ c \in Order /\ c # Nil /\ OrderOK(c)
        /\ UNCHANGED <<rules, cached, call, signals, answered, lost>>
    BY <1>1 DEF Config!ReadRule, RuleInv, RuleTypes
  <1>3. PICK o \in Order \cup {Nil} : /\ admin' = [admin EXCEPT ![a] = o]
                                      /\ o # Nil => OrderOK(o)
    <2>1. CASE rules[c.rule].state = "gone"
      BY <1>1, <2>1 DEF Config!ReadRule
    <2>2. CASE rules[c.rule].state # "gone"
      <3> DEFINE o == [c EXCEPT !.stage = "publish"]
      <3>1. o \in Order /\ o.stage = "publish" /\ o.rule = c.rule /\ o.ver = c.ver
        BY <1>2 DEF Order
      <3>2. admin' = [admin EXCEPT ![a] = o]
        BY <1>1, <2>2 DEF Config!ReadRule
      <3> HIDE DEF o
      <3>3. OrderOK(o)
        BY <1>2, <3>1 DEF OrderOK
      <3>4. QED BY <3>1, <3>2, <3>3
    <2>3. QED BY <2>1, <2>2
  <1>4. RuleTypes'
    BY <1>2, <1>3 DEF RuleInv, RuleTypes
  <1>5. ASSUME NEW b \in Admin, admin'[b] # Nil PROVE OrderOK(admin[b])'
    <2>1. PICK q : q = admin'[b]
      OBVIOUS
    <2>2. OrderOK(q)
      BY <1>3, <1>5, <2>1 DEF RuleInv, RuleTypes
    <2>3. QED BY <1>2, <2>1, <2>2 DEF OrderOK
  <1>6. QED BY <1>2, <1>4, <1>5, SameRules, AdminStep

\* The answer raises what was answered of its rule, to no more than it is.
LEMMA AnsweredStep ==
    ASSUME RuleSound, RuleInv, NEW a \in Admin, admin[a] # Nil, Config!Answered(a),
           signals' \in Nat, lost' \in BOOLEAN, signals' > 0 \/ lost',
           UNCHANGED <<rules, cached, call>>
    PROVE  RuleInv'
  <1>1. PICK c : c = admin[a]
    OBVIOUS
  <1>2. c \in Order /\ OrderOK(c) /\ admin' = [admin EXCEPT ![a] = Nil]
    BY <1>1 DEF Config!Answered, RuleInv, RuleTypes
  <1>3. PICK t \in [Config!Rule -> Nat] : /\ answered' = t
                                   /\ \A j \in Config!Rule : t[j] <= rules[j].ver
    <2>1. CASE c.rule = Nil
      BY <1>1, <2>1 DEF Config!Answered, RuleInv, RuleTypes
    <2>2. CASE c.rule # Nil
      <3>1. c.rule \in Config!Rule /\ c.ver \in Nat /\ c.ver <= rules[c.rule].ver
        BY <1>2, <2>2 DEF OrderOK, Order
      <3>2. PICK n \in Nat : /\ n = IF c.ver > answered[c.rule] THEN c.ver ELSE answered[c.rule]
                             /\ n <= rules[c.rule].ver
        BY <3>1 DEF RuleInv, RuleTypes
      <3>3. answered' = [answered EXCEPT ![c.rule] = n]
        BY <1>1, <2>2, <3>2 DEF Config!Answered
      <3>4. QED BY <3>1, <3>2, <3>3 DEF RuleInv, RuleTypes
    <2>3. QED BY <2>1, <2>2
  <1>4. RuleTypes'
    BY <1>2, <1>3 DEF RuleInv, RuleTypes
  <1>5. \A j \in Config!Rule : rules[j].ver <= rules[j].ver' /\ answered[j]' <= rules[j].ver'
    BY <1>3 DEF RuleInv, RuleTypes, RuleRow
  <1>6. \A b \in Admin : admin'[b] # Nil => OrderOK(admin[b])'
    BY <1>2 DEF RuleInv, RuleTypes, OrderOK
  <1>7. QED BY <1>4, <1>5, <1>6, AdminStep

\* A message that is sent, or that is not.
LEMMA PublishStep ==
    ASSUME RuleSound, RuleInv, NEW a \in Admin,
           Config!Publish(a) \/ Config!PublishFails(a)
    PROVE  RuleInv'
  <1>1. /\ admin[a] # Nil /\ Config!Answered(a) /\ UNCHANGED <<rules, cached, call>>
        /\ \/ signals' = signals + 1 /\ lost' = lost
           \/ signals' = signals /\ lost' = TRUE
    BY DEF Config!Publish, Config!PublishFails, Config!Published
  <1>2. signals \in Nat /\ lost \in BOOLEAN
    BY DEF RuleInv, RuleTypes
  <1>3. lost' \in BOOLEAN
    BY <1>1, <1>2, Zenon
  <1>4. signals' \in Nat /\ (signals' > 0 \/ lost')
    <2>1. CASE signals' = signals + 1
      BY <1>2, <2>1
    <2>2. CASE signals' = signals /\ lost' = TRUE
      BY <1>2, <2>2
    <2>3. QED BY <1>1, <2>1, <2>2
  <1>5. QED BY <1>1, <1>3, <1>4, AnsweredStep

\* A deletion that fails is remembered.
LEMMA ClearFailsStep == ASSUME RuleSound, RuleInv, Config!ClearFails PROVE RuleInv'
  <1>1. /\ UNCHANGED <<rules, cached, call, admin, answered>> /\ lost' = TRUE
        /\ signals' \in Nat
    BY DEF Config!ClearFails, RuleInv, RuleTypes
  <1>2. RuleTypes'
    BY <1>1 DEF RuleInv, RuleTypes
  <1>3. \A a \in Admin : admin'[a] # Nil => OrderOK(admin[a])'
    BY <1>1 DEF RuleInv, RuleTypes, OrderOK
  <1>4. QED BY <1>1, <1>2, <1>3, SameRules, AdminStep

-----------------------------------------------------------------------------
(* Deletions and time.                                                     *)

\* A step of neither a check nor an administrator: entries go or stay good,
\* and a frame stays as it is but for a value on its way to the cache.
LEMMA CacheStep ==
    ASSUME RuleSound, RuleInv, UNCHANGED <<rules, admin, answered>>,
           signals' \in Nat, lost' \in BOOLEAN,
           cached' \in [Config!Rule -> RuleValue \cup {Nil}],
           call' \in [RuleCheck -> Lookup \cup {Nil}],
           \A k \in Config!Rule : cached'[k] # Nil => EntryOK(k, cached[k])',
           \A c \in RuleCheck : call'[c] # Nil => LookupOK(call[c])'
    PROVE  RuleInv'
  <1>1. RuleTypes'
    BY DEF RuleInv, RuleTypes
  <1>2. \A a \in Admin : admin'[a] # Nil => OrderOK(admin[a])'
    BY DEF RuleInv, RuleTypes, OrderOK
  <1>3. QED BY <1>1, <1>2 DEF RuleInv

\* A value that is stored after its key was deleted, and had been replaced, is
\* marked; one that had not is the rule as it is.
LEMMA OverlappedFrame ==
    ASSUME RuleSound, RuleInv, NEW S \in SUBSET Config!Rule, NEW c \in RuleCheck, call[c] # Nil
    PROVE  \E g \in Lookup \cup {Nil} :
              /\ Config!Overlapped(S)[c] = g /\ g # Nil /\ g \in Lookup
              /\ g.stage # "decided" => g.at \in Config!Rule
              /\ g.basis <= RuleTtl + RuleDelay
              /\ g.stage = "put" =>
                    /\ g.value \in RuleValue /\ Heard(g.at, g.value)
                    /\ g.value.old + g.value.left <= RuleDelay
                    /\ g.at \in S => \/ g.value.overlap
                                     \/ g.value.ver = rules[g.at].ver
  <1>1. call[c] \in Lookup /\ LookupOK(call[c])
    BY DEF RuleInv, RuleTypes
  <1>2. CASE /\ Config!At(c, "put") /\ call[c].at \in S
             /\ call[c].value.ver # rules[call[c].at].ver
    <2>1. PICK v, k : v = call[c].value /\ k = call[c].at
      OBVIOUS
    <2>2. /\ k \in Config!Rule /\ v \in RuleValue /\ Heard(k, v) /\ v.old + v.left <= RuleDelay
          /\ call[c].stage = "put" /\ call[c].basis <= RuleTtl + RuleDelay
      BY <1>1, <1>2, <2>1 DEF LookupOK, Config!At
    <2> DEFINE w == [v EXCEPT !.overlap = TRUE]
               g == [call[c] EXCEPT !.value = w]
    <2>3. /\ w \in RuleValue /\ w.overlap = TRUE /\ w.old = v.old /\ w.left = v.left
          /\ w.ver = v.ver
      BY <2>2 DEF RuleValue
    <2>4. Config!Overlapped(S)[c] = g
      BY <1>2, <2>1 DEF Config!Overlapped
    <2> HIDE DEF w
    <2>5. /\ g \in Lookup /\ g.value = w /\ g.at = k /\ g.stage = "put"
          /\ g.basis = call[c].basis
      BY <1>1, <2>1, <2>2, <2>3 DEF Lookup
    <2> HIDE DEF g
    <2>6. Heard(k, w)
      BY <2>2, <2>3 DEF Heard
    <2>7. QED BY <2>2, <2>3, <2>4, <2>5, <2>6 DEF RuleSound
  <1>3. CASE ~(/\ Config!At(c, "put") /\ call[c].at \in S
               /\ call[c].value.ver # rules[call[c].at].ver)
    <2>1. Config!Overlapped(S)[c] = call[c]
      BY <1>3 DEF Config!Overlapped
    <2>2. call[c].stage = "put" /\ call[c].at \in S => call[c].value.ver = rules[call[c].at].ver
      BY <1>3 DEF Config!At
    <2>3. QED BY <1>1, <2>1, <2>2 DEF LookupOK
  <1>4. QED BY <1>2, <1>3

\* A free frame stays free.
LEMMA OverlappedNil ==
    ASSUME NEW S, NEW c \in RuleCheck, call[c] = Nil PROVE Config!Overlapped(S)[c] = Nil
  BY DEF Config!Overlapped, Config!At

\* A deletion that leaves what was to be heard as it is, or takes all of it.
LEMMA DeleteStep ==
    ASSUME RuleSound, RuleInv, NEW S \in SUBSET Config!Rule, Config!Delete(S),
           UNCHANGED <<rules, admin, answered>>, signals' \in Nat, lost' \in BOOLEAN,
           S = Config!Rule \/ UNCHANGED <<signals, lost>>
    PROVE  RuleInv'
  <1>1. ASSUME NEW k \in Config!Rule, cached'[k] # Nil
        PROVE  cached'[k] = cached[k] /\ UNCHANGED <<signals, lost>>
    BY <1>1 DEF Config!Delete
  <1>2. cached' \in [Config!Rule -> RuleValue \cup {Nil}]
    BY DEF Config!Delete, RuleInv, RuleTypes
  <1>3. \A k \in Config!Rule : cached'[k] # Nil => EntryOK(k, cached[k])'
    BY <1>1 DEF RuleInv, EntryOK, Heard
  <1>4. ASSUME NEW c \in RuleCheck
        PROVE  /\ call'[c] \in Lookup \cup {Nil}
               /\ call'[c] # Nil => LookupOK(call[c])'
    <2>1. call' = Config!Overlapped(S)
      BY DEF Config!Delete
    <2>2. CASE call[c] = Nil
      BY <2>1, <2>2, OverlappedNil
    <2>3. CASE call[c] # Nil
      <3>1. PICK g \in Lookup \cup {Nil} :
               /\ Config!Overlapped(S)[c] = g /\ g # Nil /\ g \in Lookup
               /\ g.stage # "decided" => g.at \in Config!Rule
               /\ g.basis <= RuleTtl + RuleDelay
               /\ g.stage = "put" =>
                     /\ g.value \in RuleValue /\ Heard(g.at, g.value)
                     /\ g.value.old + g.value.left <= RuleDelay
                     /\ g.at \in S => \/ g.value.overlap
                                      \/ g.value.ver = rules[g.at].ver
        BY <2>3, OverlappedFrame
      <3>2. g.stage = "put" => Heard(g.at, g.value)'
        <4>1. SUFFICES ASSUME g.stage = "put" PROVE Heard(g.at, g.value)'
          OBVIOUS
        <4>2. g.at \in Config!Rule /\ Heard(g.at, g.value) /\ g.value \in RuleValue
          BY <3>1, <4>1
        <4>3. CASE UNCHANGED <<signals, lost>>
          BY <4>2, <4>3 DEF Heard
        <4>4. CASE S = Config!Rule
          <5>1. g.value.overlap \/ g.value.ver = rules[g.at].ver
            BY <3>1, <4>1, <4>2, <4>4
          <5>2. /\ answered[g.at] <= rules[g.at].ver /\ answered[g.at] \in Nat
                /\ rules[g.at].ver \in Nat
            BY <4>2 DEF RuleInv, RuleTypes, RuleRow
          <5>3. QED BY <4>2, <5>1, <5>2 DEF Heard
        <4>5. QED BY <4>3, <4>4
      <3>3. LookupOK(g)'
        BY <3>1, <3>2 DEF LookupOK
      <3>4. call'[c] = g
        BY <2>1, <3>1
      <3>5. QED BY <3>1, <3>3, <3>4 DEF LookupOK, Heard
    <2>4. QED BY <2>2, <2>3
  <1>5. call' \in [RuleCheck -> Lookup \cup {Nil}]
    <2>1. call' = [c \in RuleCheck |-> call'[c]]
      BY DEF Config!Delete, Config!Overlapped
    <2>2. QED BY <1>4, <2>1
  <1>6. QED BY <1>2, <1>3, <1>4, <1>5, CacheStep

\* A message is heard, and every key deleted.
LEMMA ClearStep == ASSUME RuleSound, RuleInv, Config!ClearAllCache PROVE RuleInv'
  <1>1. /\ UNCHANGED <<rules, admin, answered>> /\ Config!Delete(Config!Rule) /\ lost' = FALSE
        /\ signals' \in Nat
    BY DEF Config!ClearAllCache, Config!ClearedKeys, RuleInv, RuleTypes
  <1>2. Config!Rule \in SUBSET Config!Rule
    OBVIOUS
  <1>3. QED BY <1>1, <1>2, DeleteStep

\* A reset that meets the keys of rules.
LEMMA ResetStep ==
    ASSUME RuleSound, RuleInv, NEW S \in SUBSET Config!Rule, Config!ResetRateLimit(S)
    PROVE  RuleInv'
  <1>1. /\ UNCHANGED <<rules, admin, answered, signals, lost>> /\ Config!Delete(S)
        /\ signals' \in Nat /\ lost' \in BOOLEAN
    BY DEF Config!ResetRateLimit, RuleInv, RuleTypes
  <1>2. QED BY <1>1, DeleteStep

\* A second more of age is a second less to live.
LEMMA AgedValue ==
    ASSUME RuleInv, NEW k \in Config!Rule, NEW v \in RuleValue, v.left > 0, Heard(k, v),
           NEW n \in Nat, v.old + v.left <= n
    PROVE  \E w \in RuleValue : /\ Config!Aged(k, v) = w /\ Heard(k, w) /\ w.old + w.left <= n
  <1> DEFINE old == IF v.ver # rules[k].ver THEN v.old + 1 ELSE v.old
             u == [v EXCEPT !.left = v.left - 1]
             w == [u EXCEPT !.old = old]
  <1>1. u \in RuleValue /\ u.left = v.left - 1 /\ u.old = v.old /\ u.ver = v.ver
        /\ u.overlap = v.overlap
    BY DEF RuleValue
  <1>2. old \in Nat /\ old <= v.old + 1
    BY DEF RuleValue
  <1>3. Config!Aged(k, v) = w
    BY DEF Config!Aged
  <1> HIDE DEF u, old
  <1>4. w \in RuleValue /\ w.left = v.left - 1 /\ w.old = old /\ w.ver = v.ver
        /\ w.overlap = v.overlap
    BY <1>1, <1>2 DEF RuleValue
  <1> HIDE DEF w
  <1>5. Heard(k, w)
    BY <1>4 DEF Heard
  <1>6. w.old + w.left <= n
    BY <1>2, <1>4 DEF RuleValue
  <1>7. QED BY <1>3, <1>4, <1>5, <1>6

\* A second passes.
LEMMA TickRule == ASSUME RuleSound, RuleInv, Config!Tick PROVE RuleInv'
  <1>1. UNCHANGED <<rules, admin, answered, signals, lost>>
    BY DEF Config!Tick
  <1>2. ASSUME NEW k \in Config!Rule
        PROVE  \E w \in RuleValue \cup {Nil} : cached'[k] = w /\ (w # Nil => EntryOK(k, w))
    <2>1. PICK v : v = cached[k]
      OBVIOUS
    <2>2. CASE v = Nil \/ v.left <= 1
      BY <2>1, <2>2 DEF Config!Tick
    <2>3. CASE ~(v = Nil \/ v.left <= 1)
      <3>1. /\ v \in RuleValue /\ Heard(k, v) /\ v.left > 0
            /\ v.old + v.left <= RuleTtl + RuleDelay
            /\ cached'[k] = Config!Aged(k, v)
        BY <2>1, <2>3 DEF Config!Tick, RuleInv, EntryOK, RuleValue
      <3>2. RuleTtl + RuleDelay \in Nat
        BY DEF RuleSound
      <3>3. PICK w \in RuleValue : /\ Config!Aged(k, v) = w /\ Heard(k, w)
                                   /\ w.old + w.left <= RuleTtl + RuleDelay
        BY <3>1, <3>2, AgedValue
      <3>4. QED BY <3>1, <3>3 DEF EntryOK
    <2>4. QED BY <2>2, <2>3
  <1>3. ASSUME NEW c \in RuleCheck
        PROVE  \E g \in Lookup \cup {Nil} : call'[c] = g /\ (g # Nil => LookupOK(g))
    <2>1. PICK f : f = call[c]
      OBVIOUS
    <2>2. CASE ~Config!At(c, "put")
      BY <2>1, <2>2 DEF Config!Tick, RuleInv, RuleTypes
    <2>3. CASE Config!At(c, "put")
      <3>1. PICK k, v : k = f.at /\ v = f.value
        OBVIOUS
      <3>2. /\ f \in Lookup /\ f # Nil /\ LookupOK(f) /\ f.stage = "put"
            /\ k \in Config!Rule /\ v \in RuleValue /\ Heard(k, v) /\ v.left > 0
            /\ v.old + v.left <= RuleDelay
            /\ call'[c] = [f EXCEPT !.value = Config!Aged(k, v)]
        BY <2>1, <2>3, <3>1 DEF Config!Tick, Config!At, RuleInv, RuleTypes, LookupOK
      <3>3. RuleDelay \in Nat
        BY DEF RuleSound
      <3>4. PICK w \in RuleValue : /\ Config!Aged(k, v) = w /\ Heard(k, w)
                                   /\ w.old + w.left <= RuleDelay
        BY <3>2, <3>3, AgedValue
      <3> DEFINE g == [f EXCEPT !.value = w]
      <3>5. /\ g \in Lookup /\ g.value = w /\ g.at = k /\ g.stage = "put"
            /\ g.basis = f.basis
        BY <3>1, <3>2 DEF Lookup
      <3>6. call'[c] = g
        BY <3>2, <3>4
      <3> HIDE DEF g
      <3>7. LookupOK(g)
        BY <3>2, <3>4, <3>5 DEF LookupOK
      <3>8. QED BY <3>5, <3>6, <3>7
    <2>4. QED BY <2>2, <2>3
  <1>4. /\ cached' \in [Config!Rule -> RuleValue \cup {Nil}]
        /\ call' \in [RuleCheck -> Lookup \cup {Nil}]
    <2>1. DOMAIN cached' = Config!Rule /\ cached' = [k \in Config!Rule |-> cached'[k]]
      BY DEF Config!Tick
    <2>2. call' = [c \in RuleCheck |-> call'[c]]
      BY DEF Config!Tick
    <2>3. \A k \in Config!Rule : cached'[k] \in RuleValue \cup {Nil}
      BY <1>2
    <2>4. \A c \in RuleCheck : call'[c] \in Lookup \cup {Nil}
      BY <1>3
    <2>5. QED BY <2>1, <2>2, <2>3, <2>4
  <1>5. \A k \in Config!Rule : cached'[k] # Nil => EntryOK(k, cached[k])'
    BY <1>1, <1>2 DEF EntryOK, Heard
  <1>6. \A c \in RuleCheck : call'[c] # Nil => LookupOK(call[c])'
    BY <1>1, <1>3 DEF LookupOK, Heard
  <1>7. signals' \in Nat /\ lost' \in BOOLEAN
    BY <1>1 DEF RuleInv, RuleTypes
  <1>8. QED BY <1>1, <1>4, <1>5, <1>6, <1>7, CacheStep

-----------------------------------------------------------------------------
(* The two facts.                                                          *)

\* Nothing is cached at the start and nobody is under way.
LEMMA RuleInit == ASSUME RuleSound, Config!Init PROVE RuleInv
  <1>1. rules \in [Config!Rule -> RuleRow]
    <2>1. UNION {Config!States(k) : k \in Config!Rule} \subseteq RuleState
      BY DEF Config!States, RuleState, Config!Rule
    <2>2. QED BY <2>1 DEF Config!Init, RuleRow
  <1>2. RuleTypes
    BY <1>1 DEF Config!Init, RuleTypes
  <1>3. \A k \in Config!Rule : answered[k] <= rules[k].ver
    BY <1>1 DEF Config!Init, RuleRow
  <1>4. QED BY <1>2, <1>3 DEF Config!Init, RuleInv

\* The states of a rule that a request may ask for.
LEMMA StatesOf == \A k \in Config!Rule : Config!States(k) \subseteq RuleState
  BY DEF Config!States, RuleState, Config!Rule

\* Requests that are taken.
LEMMA RequestStep ==
    ASSUME RuleSound, RuleInv, NEW a \in Admin,
           \/ \E k \in Changing :
                 \/ \E to \in Config!States(k) :
                       Config!CreateRule(a, k, to) \/ Config!UpdateRule(a, k, to)
                 \/ Config!DeleteRule(a, k)
           \/ Config!InvalidateCache(a)
    PROVE  RuleInv'
  <1>1. CASE Config!InvalidateCache(a)
    <2>1. Config!Accept(a, Nil, "invalidate", Nil, "publish")
      BY <1>1 DEF Config!InvalidateCache
    <2>2. QED BY <2>1, AcceptStep
  <1>2. CASE \E k \in Changing : \E to \in Config!States(k) :
                Config!CreateRule(a, k, to) \/ Config!UpdateRule(a, k, to)
    <2>0. PICK k \in Changing : \E to \in Config!States(k) :
             Config!CreateRule(a, k, to) \/ Config!UpdateRule(a, k, to)
      BY <1>2
    <2>1. PICK to \in Config!States(k) :
             Config!CreateRule(a, k, to) \/ Config!UpdateRule(a, k, to)
      BY <2>0
    <2>2. k \in Config!Rule /\ to \in RuleState
      BY StatesOf DEF RuleSound
    <2>3. \/ Config!Accept(a, k, "create", to, "write")
          \/ Config!Accept(a, k, "update", to, "write")
      BY <2>1 DEF Config!CreateRule, Config!UpdateRule
    <2>4. QED BY <2>2, <2>3, AcceptStep
  <1>3. CASE \E k \in Changing : Config!DeleteRule(a, k)
    <2>1. PICK k \in Changing : Config!DeleteRule(a, k)
      BY <1>3
    <2>2. k \in Config!Rule /\ "gone" \in RuleState
      BY DEF RuleSound, RuleState
    <2>3. Config!Accept(a, k, "delete", "gone", "write")
      BY <2>1 DEF Config!DeleteRule
    <2>4. QED BY <2>2, <2>3, AcceptStep
  <1>4. QED BY <1>1, <1>2, <1>3

\* The invariant holds in every state of the rules.
LEMMA RuleCorrect == ASSUME RuleSound PROVE Config!Spec => []RuleInv
  <1>1. Config!Init => RuleInv
    BY RuleInit
  <1>2. RuleInv /\ [Config!Next]_(Config!cvars) => RuleInv'
    <2>1. SUFFICES ASSUME RuleInv, [Config!Next]_(Config!cvars) PROVE RuleInv'
      OBVIOUS
    <2>2. CASE UNCHANGED Config!cvars
      BY <2>1, <2>2 DEF Config!cvars, RuleInv, RuleTypes, EntryOK, LookupOK, OrderOK, Heard
    <2>3. CASE \E c \in RuleCheck :
                  \/ Config!Arrive(c) \/ Config!Get(c) \/ Config!Load(c)
                  \/ Config!Put(c) \/ Config!Answer(c) \/ Config!LookupFails(c)
      BY <2>1, <2>3, ArriveRule, GetRule, LoadRule, PutRule, FailRule
    <2>4. CASE \E a \in Admin :
                  \/ \E k \in Changing :
                        \/ \E to \in Config!States(k) :
                              Config!CreateRule(a, k, to) \/ Config!UpdateRule(a, k, to)
                        \/ Config!DeleteRule(a, k)
                  \/ Config!InvalidateCache(a)
      BY <2>1, <2>4, RequestStep
    <2>5. CASE \E a \in Admin :
                  \/ Config!WriteRule(a) \/ Config!ReadRule(a)
                  \/ Config!Publish(a) \/ Config!PublishFails(a)
      BY <2>1, <2>5, WriteRuleStep, ReadRuleStep, PublishStep
    <2>6. CASE Config!ClearAllCache \/ Config!ClearFails
      BY <2>1, <2>6, ClearStep, ClearFailsStep
    <2>7. CASE \E S \in {{k} : k \in Config!Rule} \cup {Config!Rule} : Config!ResetRateLimit(S)
      <3>1. {{k} : k \in Config!Rule} \cup {Config!Rule} \subseteq SUBSET Config!Rule
        OBVIOUS
      <3>2. QED BY <2>1, <2>7, <3>1, ResetStep
    <2>8. CASE Config!Tick
      BY <2>1, <2>8, TickRule
    <2>9. QED BY <2>1, <2>2, <2>3, <2>4, <2>5, <2>6, <2>7, <2>8 DEF Config!Next
  <1>3. QED BY <1>1, <1>2, PTL DEF Config!Spec

\* Once a change of a rule was answered and its message heard, an entry with
\* the rule as it was before was read before its key was deleted and stored
\* after, unless the message or the deletion failed (publishCacheInvalidation,
\* clearAllCache).
THEOREM RuleHotReload == ASSUME RuleSound PROVE Config!Spec => []HotReload
  <1>1. RuleInv => HotReload
    BY DEF RuleInv, EntryOK, Heard, HotReload, Config!HotReload
  <1>2. QED BY <1>1, RuleCorrect, PTL

\* No check is decided by a rule that had been replaced for longer than an
\* entry lives plus the time a query's answer may take to the cache (isIpWhitelisted,
\* resolveApiKey, findMatchingPolicy, getPlan).
THEOREM RuleDecidedByRecent == ASSUME RuleSound PROVE Config!Spec => []DecidedByRecent
  <1>1. RuleInv => DecidedByRecent
    BY DEF RuleInv, LookupOK, DecidedByRecent, Config!DecidedByRecent, Config!At
  <1>2. QED BY <1>1, RuleCorrect, PTL
=============================================================================
