--------------------------- MODULE OtpLoginProofs ---------------------------
(***************************************************************************)
(* What holds of OtpLogin for every number of requests, in flight or not,  *)
(* every limit on attempts and every set of codes.                         *)
(*                                                                         *)
(* The inductive invariant has four parts.  TypeInv: types, and what a     *)
(* request holds at each label.  Expiries: every accepted code was in time *)
(* and an issue that was not stored yet has no wrong codes.  Retirement:   *)
(* an issue that logged somebody in is not in Redis.  Counting: the wrong  *)
(* codes of the stored issue are counted, about to be counted, or lost.    *)
(***************************************************************************)
EXTENDS OtpLogin, FiniteSetTheorems, TLAPS

Idle == {"idle", "done"}

\* What request r holds at label l.
FrameOK(r, l, c) ==
    /\ l \in Idle => c = Nil
    /\ l \notin Idle => c \in Call
    /\ l = "putOtp" =>
          c.otpData \in Otp /\ c.otpData.issue = r /\ c.otpData.attempts = 0
    /\ l \in {"incr", "mark", "login"} => c.otpData \in Otp

Frames ==
    /\ pc \in [Rid -> Pc]
    /\ call \in [Rid -> Call \cup {Nil}]
    /\ \A r \in Rid : FrameOK(r, pc[r], call[r])
    /\ \A r \in Rid : r > started => pc[r] = "idle"

Tallies ==
    /\ expiry \in [Rid -> Nat \cup {Nil}]
    /\ wrong \in [Rid -> Nat] /\ lost \in [Rid -> Nat]
    /\ logins \subseteq [by: Rid, issue: Rid, at: Nat, used: SUBSET Rid]

TypeInv ==
    /\ now \in Nat /\ started \in 0..MaxRequests /\ restarts \in Nat
    /\ otp \in [val: Otp, until: Nat \cup {Nil}] \cup {Nil}
    /\ Frames
    /\ Tallies

\* The code that frame c compared with was accepted in time.
InTime(c) == expiry[c.otpData.issue] # Nil /\ c.at <= expiry[c.otpData.issue]

Expiries ==
    /\ \A r \in Rid : pc[r] \in {"idle", "findUser", "putOtp"} => expiry[r] = Nil
    /\ \A i \in Rid : expiry[i] = Nil => wrong[i] = 0
    /\ otp # Nil => expiry[otp.val.issue] = otp.val.expiresAt
    /\ \A r \in Rid : pc[r] \in {"incr", "mark", "login"} => InTime(call[r])
    /\ AcceptedInTime

Retirement ==
    /\ otp # Nil => otp.val.issue \notin Used
    /\ \A r \in Rid :
          pc[r] = "login" /\ otp # Nil => otp.val.issue # call[r].otpData.issue
    /\ \A r \in Rid : pc[r] \notin Idle => call[r].used \subseteq Used
    /\ \A r \in Rid :
          pc[r] \in {"mark", "login"} => call[r].otpData.issue \notin call[r].used
    /\ UsedCodesRefused

Incrementing == {r \in Rid : pc[r] = "incr"}

Pending(i) == {r \in Rid : pc[r] = "incr" /\ call[r].otpData.issue = i}

Counting ==
    /\ Cardinality(InFlight) <= MaxInFlight
    /\ otp # Nil =>
          otp.val.attempts + Cardinality(Incrementing) < MaxAttempts + MaxInFlight
    /\ otp # Nil =>
          wrong[otp.val.issue] <= otp.val.attempts
              + Cardinality(Pending(otp.val.issue)) + lost[otp.val.issue]
    /\ GuessLimit

-----------------------------------------------------------------------------
(* Types.                                                                  *)

\* Types hold of the empty store with no request issued.
LEMMA InitType == Init => TypeInv
  BY ConstantsAssumption
     DEF Init, TypeInv, Frames, FrameOK, Idle, Tallies, Rid, Pc

\* A request moves to label l with frame c.
LEMMA MoveStep ==
  ASSUME TypeInv, NEW r \in Rid, NEW l \in Pc \ {"idle"}, NEW c, FrameOK(r, l, c),
         pc' = [pc EXCEPT ![r] = l], call' = [call EXCEPT ![r] = c],
         started' \in Nat, started <= started', r <= started'
  PROVE  Frames'
  <1>1. c \in Call \cup {Nil}
    BY DEF FrameOK, Idle
  <1>2. started \in Nat /\ Rid \subseteq Nat
    BY ConstantsAssumption DEF TypeInv, Rid
  <1>3. /\ pc' \in [Rid -> Pc]
        /\ call' \in [Rid -> Call \cup {Nil}]
    BY <1>1 DEF TypeInv, Frames
  <1>4. \A q \in Rid : FrameOK(q, pc'[q], call'[q])
    BY DEF TypeInv, Frames
  <1>5. \A q \in Rid : q > started' => pc'[q] = "idle"
    BY <1>2 DEF TypeInv, Frames
  <1>6. QED BY <1>3, <1>4, <1>5 DEF Frames

\* A served request has been issued.
LEMMA ServedStarted ==
  ASSUME TypeInv, NEW r \in Rid, pc[r] # "idle"
  PROVE  /\ started \in Nat /\ r <= started
  <1>1. started \in Nat /\ r \in Nat
    BY ConstantsAssumption DEF TypeInv, Rid
  <1>2. ~(r > started)
    BY DEF TypeInv, Frames
  <1>3. QED BY <1>1, <1>2

\* A request answers and drops its frame.
LEMMA FinishType ==
  ASSUME TypeInv, NEW r \in Rid, pc[r] # "idle", Finish(r), UNCHANGED started
  PROVE  Frames'
  <1>1. FrameOK(r, "done", Nil) /\ "done" \in Pc \ {"idle"}
    BY DEF FrameOK, Idle, Pc
  <1>2. started' \in Nat /\ started <= started' /\ r <= started'
    BY ServedStarted
  <1>3. QED BY <1>1, <1>2, MoveStep DEF Finish, Goto

\* A request keeps its frame and moves to a label that asks nothing more.
LEMMA GotoType ==
  ASSUME TypeInv, NEW r \in Rid, pc[r] \notin Idle, NEW l \in Pc \ {"idle"},
         FrameOK(r, l, call[r]), Goto(r, l), UNCHANGED <<call, started>>
  PROVE  Frames'
  <1>1. call' = [call EXCEPT ![r] = call[r]]
    BY DEF TypeInv, Frames
  <1>2. started' \in Nat /\ started <= started' /\ r <= started'
    BY ServedStarted DEF Idle
  <1>3. QED BY <1>1, <1>2, MoveStep DEF Goto

\* A request takes otpData o and moves on.
LEMMA HoldType ==
  ASSUME TypeInv, NEW r \in Rid, pc[r] \notin Idle, NEW l \in Pc \ Idle,
         NEW o \in Otp, l = "putOtp" => o.issue = r /\ o.attempts = 0,
         Hold(r, o), Goto(r, l), UNCHANGED started
  PROVE  Frames'
  <1> DEFINE c == [op |-> call[r].op, code |-> call[r].code, otpData |-> o,
                   at |-> now, used |-> call[r].used]
  <1>1. call[r] \in Call
    BY DEF TypeInv, Frames, FrameOK
  <1>2. c \in Call /\ c.otpData = o
    BY <1>1 DEF Call, TypeInv
  <1>3. call' = [call EXCEPT ![r] = c]
    BY DEF Hold, TypeInv, Frames
  <1> HIDE DEF c
  <1>4. FrameOK(r, l, c)
    BY <1>2 DEF FrameOK
  <1>5. l # "idle"
    BY DEF Idle
  <1>6. started' \in Nat /\ started <= started' /\ r <= started'
    BY ServedStarted DEF Idle
  <1>7. QED BY <1>3, <1>4, <1>5, <1>6, MoveStep DEF Goto

\* requestOtp or verifyOtp is called.
LEMMA EnterType ==
  ASSUME TypeInv, NEW r \in Rid, NEW o \in {"request", "verify"}, NEW c \in Code,
         NEW l \in {"findUser", "getOtp"}, Enter(r, o, c, l)
  PROVE  TypeInv'
  <1> DEFINE f == [op |-> o, code |-> c, otpData |-> Nil, at |-> 0, used |-> Used]
  <1>1. f \in Call
    BY DEF Call, Used, TypeInv, Tallies
  <1>2. call' = [call EXCEPT ![r] = f]
    BY DEF Enter
  <1> HIDE DEF f
  <1>3. FrameOK(r, l, f) /\ l \in Pc \ {"idle"}
    BY <1>1 DEF FrameOK, Idle, Pc
  <1>4. started' = r /\ started' \in 0..MaxRequests /\ started <= started'
    BY DEF Enter, Rid, TypeInv
  <1>5. started' \in Nat /\ r <= started'
    BY <1>4, ConstantsAssumption DEF Rid
  <1>6. Frames'
    BY <1>2, <1>3, <1>4, <1>5, MoveStep DEF Enter, Goto
  <1>7. QED BY <1>4, <1>6 DEF Enter, TypeInv, Tallies, tally

\* Requests end in any order; nothing else of a frame changes.
LEMMA RestartType ==
  ASSUME TypeInv, Restart
  PROVE  TypeInv'
  <1>1. PICK dead \in SUBSET InFlight :
          /\ pc' = [r \in Rid |-> IF r \in dead THEN "done" ELSE pc[r]]
          /\ call' = [r \in Rid |-> IF r \in dead THEN Nil ELSE call[r]]
    BY DEF Restart
  <1>2. pc' \in [Rid -> Pc] /\ call' \in [Rid -> Call \cup {Nil}]
    BY <1>1 DEF TypeInv, Frames, Pc
  <1>3. \A r \in Rid : FrameOK(r, pc'[r], call'[r])
    BY <1>1 DEF TypeInv, Frames, FrameOK, Idle
  <1>4. \A r \in Rid : r > started => pc'[r] = "idle"
    BY <1>1 DEF TypeInv, Frames, InFlight
  <1>5. Frames'
    BY <1>2, <1>3, <1>4 DEF Frames, Restart
  <1>6. restarts' \in Nat
    BY DEF Restart, TypeInv
  <1>7. QED BY <1>5, <1>6 DEF Restart, TypeInv, Tallies, tally

-----------------------------------------------------------------------------
(* Each action keeps the types.                                            *)

\* Every step of a request, and its failure, keeps the types.
LEMMA ServeType ==
  ASSUME TypeInv, NEW r \in Rid, Serve(r) \/ CommandFails(r)
  PROVE  TypeInv'
  <1>1. CASE FindUser(r)
    <2>1. CASE Finish(r)
      <3>1. Frames'
        BY <1>1, <2>1, FinishType DEF FindUser, bounds
      <3>2. QED BY <1>1, <3>1 DEF FindUser, TypeInv, Tallies, tally, bounds
    <2>2. CASE /\ Hold(r, [issue |-> r, code |-> call[r].code,
                           expiresAt |-> now + OtpTtl, attempts |-> 0])
               /\ Goto(r, "putOtp")
      <3> DEFINE o == [issue |-> r, code |-> call[r].code,
                       expiresAt |-> now + OtpTtl, attempts |-> 0]
      <3>1. call[r] \in Call /\ pc[r] \notin Idle
        BY <1>1 DEF TypeInv, Frames, FrameOK, FindUser, Idle
      <3>2. now + OtpTtl \in Nat
        BY ConstantsAssumption DEF TypeInv
      <3>3. o \in Otp /\ o.issue = r /\ o.attempts = 0
        BY <3>1, <3>2 DEF Otp, Call
      <3>4. "putOtp" \in Pc \ Idle /\ UNCHANGED started
        BY <1>1 DEF Pc, Idle, FindUser, bounds
      <3>5. Hold(r, o)
        BY <2>2
      <3> HIDE DEF o
      <3>6. Frames'
        BY <2>2, <3>1, <3>3, <3>4, <3>5, HoldType
      <3>7. QED BY <1>1, <3>6 DEF FindUser, TypeInv, Tallies, tally, bounds
    <2>3. QED BY <1>1, <2>1, <2>2 DEF FindUser
  <1>2. CASE PutOtp(r)
    <2>1. /\ call[r] \in Call /\ pc[r] \notin Idle
          /\ call[r].otpData \in Otp
      BY <1>2 DEF TypeInv, Frames, FrameOK, PutOtp, Idle
    <2>2. FrameOK(r, "sendMail", call[r]) /\ "sendMail" \in Pc \ {"idle"}
      BY <2>1 DEF FrameOK, Idle, Pc
    <2>3. Frames'
      BY <1>2, <2>1, <2>2, GotoType DEF PutOtp, bounds
    <2>4. now + OtpTtl \in Nat
      BY ConstantsAssumption DEF TypeInv
    <2>5. otp' \in [val: Otp, until: Nat \cup {Nil}]
      BY <1>2, <2>1, <2>4 DEF PutOtp
    <2>6. call[r].otpData.expiresAt \in Nat
      BY <2>1 DEF Otp
    <2>7. Tallies'
      BY <1>2, <2>6 DEF PutOtp, TypeInv, Tallies
    <2>8. QED BY <1>2, <2>3, <2>5, <2>7 DEF PutOtp, TypeInv, bounds
  <1>3. CASE SendMail(r)
    <2>1. Frames'
      BY <1>3, FinishType DEF SendMail, bounds
    <2>2. QED BY <1>3, <2>1 DEF SendMail, TypeInv, Tallies, tally, bounds
  <1>4. CASE GetOtp(r)
    <2>1. call[r] \in Call /\ pc[r] \notin Idle /\ UNCHANGED started
      BY <1>4 DEF TypeInv, Frames, FrameOK, GetOtp, Idle, bounds
    <2>2. CASE Finish(r) /\ UNCHANGED wrong
      <3>1. Frames'
        BY <2>1, <2>2, FinishType DEF Idle
      <3>2. QED BY <1>4, <2>2, <3>1 DEF GetOtp, TypeInv, Tallies, bounds
    <2>3. CASE Goto(r, "delOtp") /\ UNCHANGED <<call, wrong>>
      <3>1. FrameOK(r, "delOtp", call[r]) /\ "delOtp" \in Pc \ {"idle"}
        BY <2>1 DEF FrameOK, Idle, Pc
      <3>2. Frames'
        BY <2>1, <2>3, <3>1, GotoType
      <3>3. QED BY <1>4, <2>3, <3>2 DEF GetOtp, TypeInv, Tallies, bounds
    <2>4. ASSUME NEW l \in {"mark", "incr"}, otp # Nil, Hold(r, otp.val),
                 Goto(r, l), \/ UNCHANGED wrong
                             \/ wrong' = [wrong EXCEPT ![otp.val.issue] = @ + 1]
          PROVE  TypeInv'
      <3>1. otp.val \in Otp /\ otp.val.issue \in Rid
        BY <2>4 DEF TypeInv, Otp
      <3>2. l \in Pc \ Idle /\ l # "putOtp"
        BY DEF Pc, Idle
      <3>3. Frames'
        BY <2>1, <2>4, <3>1, <3>2, HoldType
      <3>4. wrong' \in [Rid -> Nat]
        BY <2>4, <3>1 DEF TypeInv, Tallies
      <3>5. QED BY <1>4, <3>3, <3>4 DEF GetOtp, TypeInv, Tallies, bounds
    <2>5. QED BY <1>4, <2>2, <2>3, <2>4 DEF GetOtp
  <1>5. CASE DelOtp(r)
    <2>1. Frames'
      BY <1>5, FinishType DEF DelOtp, bounds
    <2>2. QED BY <1>5, <2>1 DEF DelOtp, TypeInv, Tallies, tally, bounds
  <1>6. CASE IncrAttempts(r)
    <2>1. call[r] \in Call /\ pc[r] \notin Idle /\ UNCHANGED started
      BY <1>6 DEF TypeInv, Frames, FrameOK, IncrAttempts, Idle, bounds
    <2>2. otp' \in [val: Otp, until: Nat \cup {Nil}] \cup {Nil}
      <3>1. CASE otp # Nil /\ otp' = [val |-> Increment(otp.val), until |-> Nil]
        <4>1. otp.val \in Otp
          BY <3>1 DEF TypeInv
        <4>2. Increment(otp.val) \in Otp
          BY <4>1 DEF Increment, Otp
        <4>3. QED BY <3>1, <4>2
      <3>2. QED BY <1>6, <3>1 DEF IncrAttempts, TypeInv
    <2>3. FrameOK(r, "delOtp", call[r]) /\ "delOtp" \in Pc \ {"idle"}
      BY <2>1 DEF FrameOK, Idle, Pc
    <2>4. CASE Finish(r)
      <3>1. Frames'
        BY <2>1, <2>4, FinishType DEF Idle
      <3>2. QED BY <1>6, <2>2, <3>1 DEF IncrAttempts, TypeInv, Tallies, tally, bounds
    <2>5. CASE Goto(r, "delOtp") /\ UNCHANGED call
      <3>1. Frames'
        BY <2>1, <2>3, <2>5, GotoType
      <3>2. QED BY <1>6, <2>2, <3>1 DEF IncrAttempts, TypeInv, Tallies, tally, bounds
    <2>6. QED BY <1>6, <2>4, <2>5 DEF IncrAttempts
  <1>7. CASE MarkAsUsed(r)
    <2>1. call[r] \in Call /\ pc[r] \notin Idle /\ call[r].otpData \in Otp
      BY <1>7 DEF TypeInv, Frames, FrameOK, MarkAsUsed, Idle
    <2>2. FrameOK(r, "login", call[r]) /\ "login" \in Pc \ {"idle"}
      BY <2>1 DEF FrameOK, Idle, Pc
    <2>3. Frames'
      BY <1>7, <2>1, <2>2, GotoType DEF MarkAsUsed, bounds
    <2>4. QED BY <1>7, <2>3 DEF MarkAsUsed, TypeInv, Tallies, tally, bounds
  <1>8. CASE Login(r)
    <2>1. call[r] \in Call /\ call[r].otpData \in Otp
      BY <1>8 DEF TypeInv, Frames, FrameOK, Login, Idle
    <2>2. [by |-> r, issue |-> call[r].otpData.issue, at |-> call[r].at,
           used |-> call[r].used] \in
             [by: Rid, issue: Rid, at: Nat, used: SUBSET Rid]
      BY <2>1 DEF Call, Otp
    <2>3. Frames'
      BY <1>8, FinishType DEF Login, bounds
    <2>4. logins' \subseteq [by: Rid, issue: Rid, at: Nat, used: SUBSET Rid]
      BY <1>8, <2>2 DEF Login, TypeInv, Tallies
    <2>5. QED BY <1>8, <2>3, <2>4 DEF Login, TypeInv, Tallies, tally, bounds
  <1>9. CASE CommandFails(r)
    <2>1. Frames'
      BY <1>9, FinishType DEF CommandFails, bounds
    <2>2. lost' \in [Rid -> Nat]
      <3>1. CASE pc[r] = "incr"
        <4>1. call[r].otpData.issue \in Rid
          BY <3>1 DEF TypeInv, Frames, FrameOK, Otp
        <4>2. QED BY <1>9, <3>1, <4>1 DEF CommandFails, TypeInv, Tallies
      <3>2. QED BY <1>9, <3>1 DEF CommandFails, TypeInv, Tallies
    <2>3. QED BY <1>9, <2>1, <2>2 DEF CommandFails, TypeInv, Tallies, bounds
  <1>10. QED
    BY <1>1, <1>2, <1>3, <1>4, <1>5, <1>6, <1>7, <1>8, <1>9 DEF Serve

\* Every step keeps the types.
LEMMA NextType == TypeInv /\ [Next]_vars => TypeInv'
  <1> SUFFICES ASSUME TypeInv, [Next]_vars
               PROVE  TypeInv'
    OBVIOUS
  <1>1. ASSUME NEW r \in Rid, NEW c \in Code, RequestOtp(r, c) \/ VerifyOtp(r, c)
        PROVE  TypeInv'
    BY <1>1, EnterType DEF RequestOtp, VerifyOtp
  <1>2. CASE Tick
    <2>1. Frames'
      BY <1>2 DEF Tick, TypeInv, Frames, FrameOK
    <2>2. otp' \in {otp, Nil} /\ now' \in Nat
      BY <1>2 DEF Tick, TypeInv
    <2>3. QED BY <1>2, <2>1, <2>2 DEF Tick, TypeInv, Tallies, tally
  <1>3. CASE UNCHANGED vars
    BY <1>3 DEF vars, bounds, tally, TypeInv, Frames, FrameOK, Tallies
  <1>4. QED BY <1>1, <1>2, <1>3, ServeType, RestartType DEF Next

-----------------------------------------------------------------------------
(* Codes are accepted in time.                                             *)

\* What a request holds between its comparison and its answer.
LEMMA Compared ==
  ASSUME TypeInv, NEW r \in Rid, pc[r] \in {"incr", "mark", "login"}
  PROVE  /\ call[r] \in Call /\ call[r].otpData \in Otp
         /\ call[r].otpData.issue \in Rid
  BY DEF TypeInv, Frames, FrameOK, Idle, Otp

\* What the key holds.
LEMMA StoredOtp ==
  ASSUME TypeInv, otp # Nil
  PROVE  /\ otp.val \in Otp /\ otp.val.issue \in Rid
         /\ otp.val.expiresAt \in Nat /\ otp.val.attempts \in Nat
  BY DEF TypeInv, Otp

\* A request ends; nothing that expiries depend on changes.
LEMMA QuietExpiries ==
  ASSUME TypeInv, Expiries, NEW r \in Rid, NEW l \in {"delOtp", "done"},
         Goto(r, l),
         \A q \in Rid \ {r} : call'[q] = call[q],
         otp' \in {otp, Nil}, UNCHANGED <<expiry, wrong, logins>>
  PROVE  Expiries'
  <1>1. \A q \in Rid : pc'[q] \in {"idle", "findUser", "putOtp"} => expiry'[q] = Nil
    BY DEF Goto, TypeInv, Frames, Expiries
  <1>2. \A q \in Rid : pc'[q] \in {"incr", "mark", "login"} => InTime(call[q])'
    BY DEF Goto, TypeInv, Frames, Expiries, InTime
  <1>3. QED BY <1>1, <1>2 DEF Expiries, AcceptedInTime

\* Every step of a request keeps the expiries.
LEMMA ServeExpiries ==
  ASSUME TypeInv, Expiries, NEW r \in Rid, Serve(r) \/ CommandFails(r)
  PROVE  Expiries'
  <1>1. CASE FindUser(r)
    <2>1. CASE Finish(r)
      BY <1>1, <2>1, QuietExpiries DEF FindUser, Finish, tally, TypeInv, Frames
    <2>2. CASE Goto(r, "putOtp") /\ \A q \in Rid \ {r} : call'[q] = call[q]
      <3>1. \A q \in Rid : pc'[q] \in {"idle", "findUser", "putOtp"} => expiry'[q] = Nil
        BY <1>1, <2>2 DEF FindUser, Goto, tally, TypeInv, Frames, Expiries
      <3>2. \A q \in Rid : pc'[q] \in {"incr", "mark", "login"} => InTime(call[q])'
        BY <1>1, <2>2 DEF FindUser, Goto, tally, TypeInv, Frames, Expiries, InTime
      <3>3. QED BY <1>1, <3>1, <3>2 DEF FindUser, tally, Expiries, AcceptedInTime
    <2>3. QED BY <1>1, <2>1, <2>2 DEF FindUser, Hold, TypeInv, Frames
  <1>2. CASE PutOtp(r)
    <2>1. call[r].otpData \in Otp /\ call[r].otpData.issue = r
      BY <1>2 DEF TypeInv, Frames, FrameOK, PutOtp
    <2>2. expiry[r] = Nil /\ call[r].otpData.expiresAt \in Nat
      BY <1>2, <2>1 DEF Expiries, PutOtp, Otp
    <2>3. \A q \in Rid : pc'[q] \in {"idle", "findUser", "putOtp"} => expiry'[q] = Nil
      BY <1>2 DEF PutOtp, Goto, TypeInv, Frames, Expiries, Tallies
    <2>4. \A i \in Rid : expiry'[i] = Nil => wrong'[i] = 0
      BY <1>2, <2>2, NilAssumption DEF PutOtp, TypeInv, Tallies, Expiries
    <2>5. expiry'[otp'.val.issue] = otp'.val.expiresAt
      BY <1>2, <2>1 DEF PutOtp, TypeInv, Tallies
    <2>6. \A i \in Rid : expiry[i] # Nil => expiry'[i] = expiry[i]
      BY <1>2, <2>2 DEF PutOtp, TypeInv, Tallies
    <2>7. \A q \in Rid : pc'[q] \in {"incr", "mark", "login"} => InTime(call[q])'
      <3>1. SUFFICES ASSUME NEW q \in Rid, pc'[q] \in {"incr", "mark", "login"}
                     PROVE  InTime(call[q])'
        OBVIOUS
      <3>2. pc[q] \in {"incr", "mark", "login"} /\ call'[q] = call[q]
        BY <1>2, <3>1 DEF PutOtp, Goto, TypeInv, Frames
      <3>3. QED BY <2>6, <3>2, Compared DEF InTime, Expiries
    <2>8. AcceptedInTime'
      BY <1>2, <2>6 DEF PutOtp, Expiries, AcceptedInTime, TypeInv, Tallies
    <2>9. QED BY <2>3, <2>4, <2>5, <2>7, <2>8 DEF Expiries
  <1>3. CASE SendMail(r)
    BY <1>3, QuietExpiries DEF SendMail, Finish, tally, TypeInv, Frames
  <1>4. CASE GetOtp(r)
    <2>1. CASE (Goto(r, "done") \/ Goto(r, "delOtp")) /\ UNCHANGED wrong
               /\ \A q \in Rid \ {r} : call'[q] = call[q]
      BY <1>4, <2>1, QuietExpiries DEF GetOtp
    <2>2. ASSUME NEW l \in {"mark", "incr"}, otp # Nil, ~Expired(otp.val),
                 Hold(r, otp.val), Goto(r, l),
                 \/ UNCHANGED wrong
                 \/ wrong' = [wrong EXCEPT ![otp.val.issue] = @ + 1]
          PROVE  Expiries'
      <3>1. /\ otp.val.issue \in Rid /\ expiry[otp.val.issue] = otp.val.expiresAt
            /\ otp.val.expiresAt \in Nat
        BY <2>2, StoredOtp DEF Expiries
      <3>2. now <= otp.val.expiresAt
        BY <2>2, <3>1 DEF Expired, TypeInv
      <3>3. call'[r].otpData = otp.val /\ call'[r].at = now
        BY <2>2 DEF Hold, TypeInv, Frames
      <3>4. InTime(call[r])'
        BY <1>4, <3>1, <3>2, <3>3, NilAssumption DEF InTime, GetOtp
      <3>5. \A q \in Rid : pc'[q] \in {"incr", "mark", "login"} => InTime(call[q])'
        BY <1>4, <2>2, <3>4 DEF GetOtp, Hold, Goto, TypeInv, Frames, Expiries, InTime
      <3>6. \A q \in Rid : pc'[q] \in {"idle", "findUser", "putOtp"} => expiry'[q] = Nil
        BY <1>4, <2>2 DEF GetOtp, Goto, TypeInv, Frames, Expiries
      <3>7. \A i \in Rid : expiry'[i] = Nil => wrong'[i] = 0
        BY <1>4, <2>2, <3>1, NilAssumption DEF GetOtp, Expiries, TypeInv, Tallies
      <3>8. QED BY <1>4, <3>5, <3>6, <3>7 DEF GetOtp, Expiries, AcceptedInTime
    <2>3. QED BY <1>4, <2>1, <2>2 DEF GetOtp, Finish, TypeInv, Frames
  <1>5. CASE DelOtp(r)
    BY <1>5, QuietExpiries DEF DelOtp, Finish, tally, TypeInv, Frames
  <1>6. CASE IncrAttempts(r)
    <2>1. CASE otp = Nil /\ Finish(r) /\ UNCHANGED otp
      BY <1>6, <2>1, QuietExpiries DEF IncrAttempts, Finish, tally, TypeInv, Frames
    <2>2. CASE /\ otp # Nil
               /\ otp' = [val |-> Increment(otp.val), until |-> Nil]
               /\ Goto(r, "delOtp") \/ Goto(r, "done")
               /\ \A q \in Rid \ {r} : call'[q] = call[q]
      <3>1. /\ otp'.val.issue = otp.val.issue
            /\ otp'.val.expiresAt = otp.val.expiresAt
        BY <2>2, StoredOtp DEF Increment, Otp
      <3>2. \A q \in Rid : pc'[q] \in {"idle", "findUser", "putOtp"} => expiry'[q] = Nil
        BY <1>6, <2>2 DEF IncrAttempts, Goto, tally, TypeInv, Frames, Expiries
      <3>3. \A q \in Rid : pc'[q] \in {"incr", "mark", "login"} => InTime(call[q])'
        BY <1>6, <2>2 DEF IncrAttempts, Goto, tally, TypeInv, Frames, Expiries, InTime
      <3>4. QED
        BY <1>6, <2>2, <3>1, <3>2, <3>3 DEF IncrAttempts, tally, Expiries, AcceptedInTime
    <2>3. QED BY <1>6, <2>1, <2>2 DEF IncrAttempts, Finish, TypeInv, Frames
  <1>7. CASE MarkAsUsed(r)
    <2>1. \A q \in Rid : pc'[q] \in {"idle", "findUser", "putOtp"} => expiry'[q] = Nil
      BY <1>7 DEF MarkAsUsed, Goto, tally, TypeInv, Frames, Expiries
    <2>2. \A q \in Rid : pc'[q] \in {"incr", "mark", "login"} => InTime(call[q])'
      BY <1>7 DEF MarkAsUsed, Goto, tally, TypeInv, Frames, Expiries, InTime
    <2>3. QED BY <1>7, <2>1, <2>2 DEF MarkAsUsed, tally, Expiries, AcceptedInTime
  <1>8. CASE Login(r)
    <2>1. \A q \in Rid : pc'[q] \in {"idle", "findUser", "putOtp"} => expiry'[q] = Nil
      BY <1>8 DEF Login, Finish, Goto, tally, TypeInv, Frames, Expiries
    <2>2. \A q \in Rid : pc'[q] \in {"incr", "mark", "login"} => InTime(call[q])'
      BY <1>8 DEF Login, Finish, Goto, tally, TypeInv, Frames, Expiries, InTime
    <2>3. InTime(call[r])
      BY <1>8 DEF Login, Expiries
    <2>4. AcceptedInTime'
      BY <1>8, <2>3 DEF Login, tally, AcceptedInTime, Expiries, InTime
    <2>5. QED BY <1>8, <2>1, <2>2, <2>4 DEF Login, tally, Expiries
  <1>9. CASE CommandFails(r)
    BY <1>9, QuietExpiries DEF CommandFails, Finish, TypeInv, Frames
  <1>10. QED
    BY <1>1, <1>2, <1>3, <1>4, <1>5, <1>6, <1>7, <1>8, <1>9 DEF Serve

\* Every step keeps the expiries.
LEMMA NextExpiries == TypeInv /\ Expiries /\ [Next]_vars => Expiries'
  <1> SUFFICES ASSUME TypeInv, Expiries, [Next]_vars
               PROVE  Expiries'
    OBVIOUS
  <1>1. ASSUME NEW r \in Rid, NEW c \in Code, RequestOtp(r, c) \/ VerifyOtp(r, c)
        PROVE  Expiries'
    <2>1. PICK o \in {"request", "verify"}, l \in {"findUser", "getOtp"} :
            Enter(r, o, c, l)
      BY <1>1 DEF RequestOtp, VerifyOtp
    <2>2. pc[r] = "idle"
      BY <2>1, ConstantsAssumption DEF Enter, TypeInv, Frames, Rid
    <2>3. \A q \in Rid : pc'[q] \in {"idle", "findUser", "putOtp"} => expiry'[q] = Nil
      BY <2>1, <2>2 DEF Enter, Goto, tally, TypeInv, Frames, Expiries
    <2>4. \A q \in Rid : pc'[q] \in {"incr", "mark", "login"} => InTime(call[q])'
      BY <2>1 DEF Enter, Goto, tally, TypeInv, Frames, Expiries, InTime
    <2>5. QED BY <2>1, <2>3, <2>4 DEF Enter, tally, Expiries, AcceptedInTime
  <1>2. CASE Tick
    BY <1>2 DEF Tick, tally, Expiries, AcceptedInTime, InTime
  <1>3. CASE Restart
    <2>1. \A q \in Rid : pc'[q] \in {"idle", "findUser", "putOtp"} => expiry'[q] = Nil
      BY <1>3 DEF Restart, tally, TypeInv, Frames, Expiries
    <2>2. \A q \in Rid : pc'[q] \in {"incr", "mark", "login"} => InTime(call[q])'
      BY <1>3 DEF Restart, tally, TypeInv, Frames, Expiries, InTime
    <2>3. QED BY <1>3, <2>1, <2>2 DEF Restart, tally, Expiries, AcceptedInTime
  <1>4. CASE UNCHANGED vars
    BY <1>4 DEF vars, tally, Expiries, AcceptedInTime, InTime
  <1>5. QED BY <1>1, <1>2, <1>3, <1>4, ServeExpiries DEF Next

-----------------------------------------------------------------------------
(* A used code stays out of Redis.                                         *)

\* A request ends or is about to delete; the key keeps its issue or is gone.
LEMMA QuietRetirement ==
  ASSUME TypeInv, Retirement, NEW r \in Rid, NEW l \in {"delOtp", "done"},
         Goto(r, l), pc[r] \notin Idle,
         \A q \in Rid \ {r} : call'[q] = call[q],
         l = "delOtp" => call'[r].used = call[r].used,
         otp' # Nil => otp # Nil /\ otp'.val.issue = otp.val.issue,
         UNCHANGED logins
  PROVE  Retirement'
  <1>1. Used' = Used
    BY DEF Used
  <1>2. \A q \in Rid :
          pc'[q] = "login" /\ otp' # Nil => otp'.val.issue # call'[q].otpData.issue
    BY DEF Goto, TypeInv, Frames, Retirement
  <1>3. \A q \in Rid : pc'[q] \notin Idle => call'[q].used \subseteq Used
    BY DEF Goto, TypeInv, Frames, Retirement, Idle
  <1>4. \A q \in Rid : pc'[q] \in {"mark", "login"} =>
          call'[q].otpData.issue \notin call'[q].used
    BY DEF Goto, TypeInv, Frames, Retirement
  <1>5. QED BY <1>1, <1>2, <1>3, <1>4 DEF Retirement, UsedCodesRefused

\* Every step of a request keeps used codes out of Redis.
LEMMA ServeRetirement ==
  ASSUME TypeInv, Expiries, Retirement, NEW r \in Rid, Serve(r) \/ CommandFails(r)
  PROVE  Retirement'
  <1>1. CASE FindUser(r)
    <2>1. CASE Finish(r)
      BY <1>1, <2>1, QuietRetirement DEF FindUser, Finish, TypeInv, Frames, Idle
    <2>2. CASE /\ Goto(r, "putOtp") /\ call'[r].used = call[r].used
               /\ \A q \in Rid \ {r} : call'[q] = call[q]
      <3>1. Used' = Used
        BY <1>1 DEF FindUser, Used
      <3>2. \A q \in Rid :
              pc'[q] = "login" /\ otp' # Nil => otp'.val.issue # call'[q].otpData.issue
        BY <1>1, <2>2 DEF FindUser, Goto, TypeInv, Frames, Retirement
      <3>3. \A q \in Rid : pc'[q] \notin Idle => call'[q].used \subseteq Used
        BY <1>1, <2>2 DEF FindUser, Goto, TypeInv, Frames, Retirement, Idle
      <3>4. \A q \in Rid : pc'[q] \in {"mark", "login"} =>
              call'[q].otpData.issue \notin call'[q].used
        BY <1>1, <2>2 DEF FindUser, Goto, TypeInv, Frames, Retirement
      <3>5. QED
        BY <1>1, <3>1, <3>2, <3>3, <3>4 DEF FindUser, Retirement, UsedCodesRefused
    <2>3. QED BY <1>1, <2>1, <2>2 DEF FindUser, Hold, TypeInv, Frames
  <1>2. CASE PutOtp(r)
    <2>1. otp'.val.issue = r /\ expiry[r] = Nil
      BY <1>2 DEF TypeInv, Frames, FrameOK, PutOtp, Expiries
    <2>2. Used' = Used /\ r \notin Used
      BY <1>2, <2>1 DEF PutOtp, Used, Expiries, AcceptedInTime
    <2>3. \A q \in Rid : pc'[q] = "login" => call'[q].otpData.issue # r
      BY <1>2, <2>1 DEF PutOtp, Goto, TypeInv, Frames, Expiries, InTime
    <2>4. \A q \in Rid : pc'[q] \notin Idle => call'[q].used \subseteq Used
      BY <1>2 DEF PutOtp, Goto, TypeInv, Frames, Retirement, Idle
    <2>5. \A q \in Rid : pc'[q] \in {"mark", "login"} =>
            call'[q].otpData.issue \notin call'[q].used
      BY <1>2 DEF PutOtp, Goto, TypeInv, Frames, Retirement
    <2>6. QED
      BY <1>2, <2>1, <2>2, <2>3, <2>4, <2>5 DEF PutOtp, Retirement, UsedCodesRefused
  <1>3. CASE SendMail(r)
    BY <1>3, QuietRetirement DEF SendMail, Finish, TypeInv, Frames, Idle
  <1>4. CASE GetOtp(r)
    <2>1. CASE (Goto(r, "done") \/ (Goto(r, "delOtp") /\ UNCHANGED call))
               /\ \A q \in Rid \ {r} : call'[q] = call[q]
      BY <1>4, <2>1, QuietRetirement DEF GetOtp, Idle
    <2>2. ASSUME NEW l \in {"mark", "incr"}, otp # Nil, Hold(r, otp.val), Goto(r, l)
          PROVE  Retirement'
      <3>1. Used' = Used /\ otp.val.issue \notin Used
        BY <1>4, <2>2 DEF GetOtp, Used, Retirement
      <3>2. call'[r].otpData = otp.val /\ call'[r].used = call[r].used
        BY <2>2 DEF Hold, TypeInv, Frames
      <3>3. call[r].used \subseteq Used
        BY <1>4 DEF GetOtp, Retirement, Idle
      <3>4. \A q \in Rid \ {r} : call'[q] = call[q] /\ pc'[q] = pc[q]
        BY <2>2 DEF Hold, Goto, TypeInv, Frames
      <3>5. pc'[r] = l
        BY <2>2 DEF Goto, TypeInv, Frames
      <3>6. \A q \in Rid :
              pc'[q] = "login" /\ otp' # Nil => otp'.val.issue # call'[q].otpData.issue
        BY <1>4, <3>4, <3>5 DEF GetOtp, Retirement
      <3>7. \A q \in Rid : pc'[q] \notin Idle => call'[q].used \subseteq Used
        BY <3>2, <3>3, <3>4 DEF Retirement
      <3>8. \A q \in Rid : pc'[q] \in {"mark", "login"} =>
              call'[q].otpData.issue \notin call'[q].used
        BY <3>1, <3>2, <3>3, <3>4 DEF Retirement
      <3>9. QED
        BY <1>4, <3>1, <3>6, <3>7, <3>8 DEF GetOtp, Retirement, UsedCodesRefused
    <2>3. QED BY <1>4, <2>1, <2>2 DEF GetOtp, Finish, TypeInv, Frames
  <1>5. CASE DelOtp(r)
    BY <1>5, QuietRetirement DEF DelOtp, Finish, TypeInv, Frames, Idle
  <1>6. CASE IncrAttempts(r)
    <2>1. otp' # Nil => otp # Nil /\ otp'.val.issue = otp.val.issue
      BY <1>6, StoredOtp DEF IncrAttempts, Increment, Otp
    <2>2. /\ Goto(r, "done") \/ (Goto(r, "delOtp") /\ UNCHANGED call)
          /\ \A q \in Rid \ {r} : call'[q] = call[q]
      BY <1>6 DEF IncrAttempts, Finish, TypeInv, Frames
    <2>3. QED BY <1>6, <2>1, <2>2, QuietRetirement DEF IncrAttempts, Idle
  <1>7. CASE MarkAsUsed(r)
    <2>1. Used' = Used
      BY <1>7 DEF MarkAsUsed, Used
    <2>2. \A q \in Rid : pc'[q] \notin Idle => call'[q].used \subseteq Used
      BY <1>7 DEF MarkAsUsed, Goto, TypeInv, Frames, Retirement, Idle
    <2>3. \A q \in Rid : pc'[q] \in {"mark", "login"} =>
            call'[q].otpData.issue \notin call'[q].used
      BY <1>7 DEF MarkAsUsed, Goto, TypeInv, Frames, Retirement
    <2>4. QED BY <1>7, <2>1, <2>2, <2>3 DEF MarkAsUsed, Retirement, UsedCodesRefused
  <1>8. CASE Login(r)
    <2> DEFINE i == call[r].otpData.issue
    <2>1. Used \subseteq Used' /\ Used' \subseteq Used \cup {i}
      BY <1>8 DEF Login, Used
    <2>2. otp' # Nil => otp'.val.issue \notin Used'
      BY <1>8, <2>1 DEF Login, Retirement
    <2>3. \A q \in Rid :
            pc'[q] = "login" /\ otp' # Nil => otp'.val.issue # call'[q].otpData.issue
      BY <1>8 DEF Login, Finish, Goto, TypeInv, Frames, Retirement
    <2>4. \A q \in Rid : pc'[q] \notin Idle => call'[q].used \subseteq Used'
      BY <1>8, <2>1 DEF Login, Finish, Goto, TypeInv, Frames, Retirement, Idle
    <2>5. \A q \in Rid : pc'[q] \in {"mark", "login"} =>
            call'[q].otpData.issue \notin call'[q].used
      BY <1>8 DEF Login, Finish, Goto, TypeInv, Frames, Retirement
    <2>6. i \notin call[r].used
      BY <1>8 DEF Login, Retirement
    <2>7. UsedCodesRefused'
      BY <1>8, <2>6 DEF Login, Retirement, UsedCodesRefused
    <2>8. QED BY <2>2, <2>3, <2>4, <2>5, <2>7 DEF Retirement
  <1>9. CASE CommandFails(r)
    BY <1>9, QuietRetirement DEF CommandFails, Finish, TypeInv, Frames, Idle
  <1>10. QED
    BY <1>1, <1>2, <1>3, <1>4, <1>5, <1>6, <1>7, <1>8, <1>9 DEF Serve

\* Every step keeps used codes out of Redis.
LEMMA NextRetirement == TypeInv /\ Expiries /\ Retirement /\ [Next]_vars => Retirement'
  <1> SUFFICES ASSUME TypeInv, Expiries, Retirement, [Next]_vars
               PROVE  Retirement'
    OBVIOUS
  <1>1. ASSUME NEW r \in Rid, NEW c \in Code, RequestOtp(r, c) \/ VerifyOtp(r, c)
        PROVE  Retirement'
    <2>1. PICK o \in {"request", "verify"}, l \in {"findUser", "getOtp"} :
            Enter(r, o, c, l)
      BY <1>1 DEF RequestOtp, VerifyOtp
    <2>2. Used' = Used /\ call'[r].used = Used /\ pc'[r] = l
      BY <2>1 DEF Enter, Goto, Used, TypeInv, Frames
    <2>3. \A q \in Rid \ {r} : call'[q] = call[q] /\ pc'[q] = pc[q]
      BY <2>1 DEF Enter, Goto, TypeInv, Frames
    <2>4. \A q \in Rid :
            pc'[q] = "login" /\ otp' # Nil => otp'.val.issue # call'[q].otpData.issue
      BY <2>1, <2>2, <2>3 DEF Enter, Retirement
    <2>5. \A q \in Rid : pc'[q] \notin Idle => call'[q].used \subseteq Used
      BY <2>2, <2>3 DEF Retirement
    <2>6. \A q \in Rid : pc'[q] \in {"mark", "login"} =>
            call'[q].otpData.issue \notin call'[q].used
      BY <2>2, <2>3 DEF Retirement
    <2>7. QED BY <2>1, <2>2, <2>4, <2>5, <2>6 DEF Enter, Retirement, UsedCodesRefused
  <1>2. CASE Tick
    BY <1>2 DEF Tick, Retirement, UsedCodesRefused, Used
  <1>3. CASE Restart
    <2>1. \A q \in Rid : pc'[q] \notin Idle => call'[q].used \subseteq Used
      BY <1>3 DEF Restart, TypeInv, Frames, Retirement, Idle
    <2>2. \A q \in Rid : pc'[q] \in {"mark", "login"} =>
            call'[q].otpData.issue \notin call'[q].used
      BY <1>3 DEF Restart, TypeInv, Frames, Retirement
    <2>3. Used' = Used
      BY <1>3 DEF Restart, Used
    <2>4. QED BY <1>3, <2>1, <2>2, <2>3 DEF Restart, Retirement, UsedCodesRefused
  <1>4. CASE UNCHANGED vars
    BY <1>4 DEF vars, Retirement, UsedCodesRefused, Used
  <1>5. QED BY <1>1, <1>2, <1>3, <1>4, ServeRetirement DEF Next

-----------------------------------------------------------------------------
(* Wrong codes are counted.                                                *)

\* Sets of requests are finite.
LEMMA Populations ==
  ASSUME NEW S \in SUBSET Rid
  PROVE  IsFiniteSet(S) /\ Cardinality(S) \in Nat
  <1>1. IsFiniteSet(Rid)
    BY FS_Interval, ConstantsAssumption DEF Rid
  <1>2. IsFiniteSet(S)
    BY <1>1, FS_Subset
  <1>3. QED BY <1>2, FS_CardinalityType

\* A smaller set of requests has no more elements.
LEMMA Smaller ==
  ASSUME NEW S \in SUBSET Rid, NEW T \in SUBSET S
  PROVE  Cardinality(T) <= Cardinality(S)
  BY Populations, FS_Subset

\* A request leaves a set.
LEMMA OneLess ==
  ASSUME NEW S \in SUBSET Rid, NEW r \in S
  PROVE  Cardinality(S \ {r}) = Cardinality(S) - 1
  BY Populations, FS_RemoveElement

\* A request joins a set.
LEMMA OneMore ==
  ASSUME NEW S \in SUBSET Rid, NEW r \in Rid \ S
  PROVE  Cardinality(S \cup {r}) = Cardinality(S) + 1
  BY Populations, FS_AddElement

\* The numbers that Counting relates.
LEMMA Numbers ==
  ASSUME TypeInv
  PROVE  /\ Cardinality(InFlight) \in Nat /\ Cardinality(Incrementing) \in Nat
         /\ \A i \in Rid : /\ Cardinality(Pending(i)) \in Nat
                           /\ wrong[i] \in Nat /\ lost[i] \in Nat
                           /\ Cardinality(Pending(i)) <= Cardinality(InFlight)
         /\ Cardinality(Incrementing) <= Cardinality(InFlight)
         /\ MaxAttempts \in Nat /\ MaxAttempts >= 1 /\ MaxInFlight \in Nat
  <1>1. InFlight \in SUBSET Rid /\ Incrementing \in SUBSET InFlight
    BY DEF InFlight, Incrementing
  <1>2. \A i \in Rid : Pending(i) \in SUBSET InFlight
    BY DEF InFlight, Pending
  <1>3. /\ Cardinality(InFlight) \in Nat /\ Cardinality(Incrementing) \in Nat
        /\ \A i \in Rid : Cardinality(Pending(i)) \in Nat
    BY <1>1, <1>2, Populations
  <1>4. /\ \A i \in Rid : Cardinality(Pending(i)) <= Cardinality(InFlight)
        /\ Cardinality(Incrementing) <= Cardinality(InFlight)
    BY <1>1, <1>2, Smaller
  <1>5. \A i \in Rid : wrong[i] \in Nat /\ lost[i] \in Nat
    BY DEF TypeInv, Tallies
  <1>6. MaxAttempts \in Nat /\ MaxAttempts >= 1 /\ MaxInFlight \in Nat
    BY ConstantsAssumption
  <1>7. QED BY <1>3, <1>4, <1>5, <1>6

\* The same numbers after a step.
LEMMA NextNumbers ==
  /\ Cardinality(InFlight') \in Nat /\ Cardinality(Incrementing') \in Nat
  /\ Cardinality(Incrementing') <= Cardinality(InFlight')
  /\ \A i \in Rid : /\ Cardinality(Pending(i)') \in Nat
                    /\ Cardinality(Pending(i)') <= Cardinality(InFlight')
  <1>1. InFlight' \in SUBSET Rid /\ Incrementing' \in SUBSET InFlight'
    BY DEF InFlight, Incrementing
  <1>2. \A i \in Rid : Pending(i)' \in SUBSET InFlight'
    BY DEF InFlight, Pending
  <1>3. QED BY <1>1, <1>2, Populations, Smaller

\* Nobody starts or stops counting, and the key keeps its attempts or is gone.
LEMMA QuietCounting ==
  ASSUME TypeInv, TypeInv', Counting, InFlight' \subseteq InFlight,
         Incrementing' = Incrementing, \A i \in Rid : Pending(i)' = Pending(i),
         otp' \in {otp, Nil}, UNCHANGED <<wrong, lost>>
  PROVE  Counting'
  <1>1. Cardinality(InFlight') <= Cardinality(InFlight)
    BY Smaller DEF InFlight
  <1>2. Cardinality(InFlight)' <= MaxInFlight
    BY <1>1, Numbers, NextNumbers DEF Counting
  <1>3. ASSUME otp' # Nil
        PROVE  /\ otp'.val.attempts + Cardinality(Incrementing)' < MaxAttempts + MaxInFlight
               /\ wrong'[otp'.val.issue] <= otp'.val.attempts
                    + Cardinality(Pending(otp.val.issue))' + lost'[otp'.val.issue]
    BY <1>3, StoredOtp DEF Counting
  <1>4. otp' # Nil => otp' = otp
    OBVIOUS
  <1>5. GuessLimit'
    BY DEF Counting, GuessLimit
  <1>6. QED BY <1>2, <1>3, <1>4, <1>5 DEF Counting

\* A request that is not counting goes to a label that does not count.
LEMMA QuietMove ==
  ASSUME TypeInv, NEW r \in Rid, NEW l \in Pc \ {"incr"}, Goto(r, l),
         pc[r] \notin Idle, pc[r] # "incr", \A q \in Rid \ {r} : call'[q] = call[q]
  PROVE  /\ InFlight' \subseteq InFlight /\ Incrementing' = Incrementing
         /\ \A i \in Rid : Pending(i)' = Pending(i)
  <1>1. \A q \in Rid : pc'[q] = IF q = r THEN l ELSE pc[q]
    BY DEF Goto, TypeInv, Frames
  <1>2. InFlight' \subseteq InFlight
    BY <1>1 DEF InFlight, Idle
  <1>3. Incrementing' = Incrementing
    BY <1>1 DEF Incrementing
  <1>4. \A i \in Rid : Pending(i)' = Pending(i)
    BY <1>1 DEF Pending
  <1>5. QED BY <1>2, <1>3, <1>4

\* A request that was counting no longer is.
LEMMA CountedMove ==
  ASSUME TypeInv, NEW r \in Rid, NEW l \in {"delOtp", "done"}, Goto(r, l),
         pc[r] = "incr", \A q \in Rid \ {r} : call'[q] = call[q]
  PROVE  /\ Cardinality(InFlight)' <= Cardinality(InFlight)
         /\ Cardinality(Incrementing)' = Cardinality(Incrementing) - 1
         /\ \A i \in Rid :
              Cardinality(Pending(i))' =
                IF call[r].otpData.issue = i THEN Cardinality(Pending(i)) - 1
                                             ELSE Cardinality(Pending(i))
  <1>1. \A q \in Rid : pc'[q] = IF q = r THEN l ELSE pc[q]
    BY DEF Goto, TypeInv, Frames
  <1>2. InFlight' \subseteq InFlight /\ InFlight \in SUBSET Rid
    BY <1>1 DEF InFlight
  <1>3. Incrementing' = Incrementing \ {r} /\ r \in Incrementing
        /\ Incrementing \in SUBSET Rid
    BY <1>1 DEF Incrementing
  <1>4. ASSUME NEW i \in Rid
        PROVE  /\ Pending(i) \in SUBSET Rid
               /\ Pending(i)' = Pending(i) \ {r}
               /\ r \in Pending(i) <=> call[r].otpData.issue = i
    BY <1>1 DEF Pending
  <1>5. ASSUME NEW i \in Rid
        PROVE  Cardinality(Pending(i))' =
                IF call[r].otpData.issue = i THEN Cardinality(Pending(i)) - 1
                                             ELSE Cardinality(Pending(i))
    <2>1. CASE call[r].otpData.issue = i
      BY <1>4, <2>1, OneLess
    <2>2. CASE call[r].otpData.issue # i
      <3>1. Pending(i)' = Pending(i)
        BY <1>1, <2>2 DEF Pending
      <3>2. QED BY <2>2, <3>1
    <2>3. QED BY <2>1, <2>2
  <1>6. QED BY <1>2, <1>3, <1>5, Smaller, OneLess

\* A stored key is not null.
LEMMA NextNil ==
  ASSUME NEW o \in Otp, NEW n \in Nat
  PROVE  [val |-> o, until |-> n] # Nil
  <1>1. [val |-> o, until |-> n] \in [val: Otp, until: Nat \cup {Nil}]
    OBVIOUS
  <1>2. QED BY <1>1, NilAssumption

\* Every step of a request keeps the count.
LEMMA ServeCounting ==
  ASSUME TypeInv, TypeInv', Expiries, Counting, NEW r \in Rid,
         Serve(r) \/ CommandFails(r)
  PROVE  Counting'
  <1> DEFINE Others == \A q \in Rid \ {r} : call'[q] = call[q]
  <1>1. CASE FindUser(r)
    <2>1. Others /\ (Goto(r, "done") \/ Goto(r, "putOtp"))
      BY <1>1 DEF FindUser, Finish, Hold, TypeInv, Frames
    <2>2. pc[r] \notin Idle /\ pc[r] # "incr" /\ {"done", "putOtp"} \subseteq Pc \ {"incr"}
      BY <1>1 DEF FindUser, Idle, Pc
    <2>3. QED BY <1>1, <2>1, <2>2, QuietMove, QuietCounting DEF FindUser, tally
  <1>2. CASE PutOtp(r)
    <2>1. /\ call[r].otpData \in Otp /\ call[r].otpData.issue = r
          /\ call[r].otpData.attempts = 0 /\ expiry[r] = Nil
      BY <1>2 DEF TypeInv, Frames, FrameOK, PutOtp, Expiries
    <2>2. /\ otp' # Nil /\ otp'.val.issue = r /\ otp'.val.attempts = 0
          /\ wrong'[r] = 0 /\ lost' = lost /\ wrong' = wrong
      <3>1. otp' # Nil
        BY <1>2, <2>1, ConstantsAssumption, NextNil DEF PutOtp, TypeInv
      <3>2. wrong[r] = 0
        BY <2>1 DEF Expiries
      <3>3. QED BY <1>2, <2>1, <3>1, <3>2 DEF PutOtp
    <2>3. pc[r] \notin Idle /\ pc[r] # "incr" /\ "sendMail" \in Pc \ {"incr"}
      BY <1>2 DEF PutOtp, Idle, Pc
    <2>4. InFlight' \subseteq InFlight
      BY <1>2, <2>3, QuietMove DEF PutOtp
    <2>5. Cardinality(InFlight)' <= Cardinality(InFlight)
      BY <2>4, Smaller DEF InFlight
    <2>6. Cardinality(InFlight)' <= MaxInFlight
      BY <2>5, Numbers, NextNumbers DEF Counting
    <2>7. /\ Cardinality(Incrementing)' \in Nat /\ Cardinality(Pending(r))' \in Nat
          /\ Cardinality(Incrementing)' <= Cardinality(InFlight)' /\ lost'[r] \in Nat
          /\ Cardinality(InFlight)' \in Nat
          /\ MaxAttempts \in Nat /\ MaxAttempts >= 1 /\ MaxInFlight \in Nat
      <3>1. lost'[r] \in Nat
        BY DEF TypeInv, Tallies
      <3>2. QED BY <3>1, Numbers, NextNumbers
    <2>8. 0 + Cardinality(Incrementing)' < MaxAttempts + MaxInFlight
      BY <2>6, <2>7
    <2>9. 0 <= 0 + Cardinality(Pending(r))' + lost'[r]
      BY <2>7
    <2>10. GuessLimit'
      BY <2>2 DEF Counting, GuessLimit
    <2>11. QED BY <2>2, <2>6, <2>8, <2>9, <2>10 DEF Counting
  <1>3. CASE SendMail(r)
    <2>1. Others /\ Goto(r, "done")
      BY <1>3 DEF SendMail, Finish, TypeInv, Frames
    <2>2. pc[r] \notin Idle /\ pc[r] # "incr" /\ "done" \in Pc \ {"incr"}
      BY <1>3 DEF SendMail, Idle, Pc
    <2>3. QED BY <1>3, <2>1, <2>2, QuietMove, QuietCounting DEF SendMail, tally
  <1>4. CASE GetOtp(r)
    <2>1. pc[r] \notin Idle /\ pc[r] # "incr"
          /\ {"done", "delOtp", "mark"} \subseteq Pc \ {"incr"}
      BY <1>4 DEF GetOtp, Idle, Pc
    <2>2. CASE /\ Others /\ UNCHANGED wrong
               /\ Goto(r, "done") \/ Goto(r, "delOtp") \/ Goto(r, "mark")
      BY <1>4, <2>1, <2>2, QuietMove, QuietCounting DEF GetOtp
    <2>3. CASE /\ otp # Nil /\ ~Exhausted(otp.val) /\ Hold(r, otp.val)
               /\ Goto(r, "incr") /\ wrong' = [wrong EXCEPT ![otp.val.issue] = @ + 1]
      <3>0. PICK i \in Rid : i = otp.val.issue
        BY <2>3, StoredOtp
      <3>1. /\ otp' = otp /\ i \in Rid /\ otp.val.attempts \in Nat
            /\ otp.val.attempts < MaxAttempts /\ lost' = lost
        BY <1>4, <2>3, <3>0, StoredOtp, ConstantsAssumption DEF GetOtp, Exhausted
      <3>2. \A q \in Rid : pc'[q] = IF q = r THEN "incr" ELSE pc[q]
        BY <2>3 DEF Goto, TypeInv, Frames
      <3>3. call'[r].otpData = otp.val /\ Others
        BY <2>3 DEF Hold, TypeInv, Frames
      <3>4. InFlight' = InFlight
        BY <2>1, <3>2 DEF InFlight, Idle
      <3>5. /\ Pending(i)' = Pending(i) \cup {r} /\ r \in Rid \ Pending(i)
            /\ Pending(i) \in SUBSET Rid
        BY <2>1, <3>0, <3>2, <3>3 DEF Pending
      <3>6. Cardinality(Pending(i)') = Cardinality(Pending(i)) + 1
        BY <3>5, OneMore
      <3>7. Cardinality(InFlight)' = Cardinality(InFlight)
        BY <3>4
      <3>8. Cardinality(Incrementing)' <= Cardinality(InFlight)'
            /\ Cardinality(Incrementing)' \in Nat
        BY NextNumbers
      <3>9. Pending(i)' \in SUBSET InFlight' /\ InFlight' \in SUBSET Rid
        BY DEF Pending, InFlight
      <3>10. Cardinality(Pending(i)') <= Cardinality(InFlight')
        BY <3>9, Smaller
      <3>11. /\ wrong'[i] = wrong[i] + 1
             /\ \A j \in Rid \ {i} : wrong'[j] = wrong[j]
        BY <2>3, <3>0 DEF TypeInv, Tallies
      <3>12. wrong[i] <= otp.val.attempts + Cardinality(Pending(i)) + lost[i]
        BY <2>3, <3>0 DEF Counting
      <3>13. /\ wrong[i] \in Nat /\ lost[i] \in Nat /\ MaxAttempts \in Nat
             /\ MaxInFlight \in Nat /\ Cardinality(Pending(i)) \in Nat
             /\ Cardinality(InFlight) \in Nat /\ Cardinality(InFlight) <= MaxInFlight
        BY <3>1, Numbers DEF Counting
      <3>14. wrong'[i] <= otp.val.attempts + Cardinality(Pending(i)') + lost[i]
        BY <3>1, <3>6, <3>11, <3>12, <3>13
      <3>15. wrong'[i] < MaxAttempts + MaxInFlight + lost[i]
        BY <3>1, <3>6, <3>7, <3>10, <3>11, <3>13, <3>14
      <3>16. otp.val.attempts + Cardinality(Incrementing)' < MaxAttempts + MaxInFlight
        BY <3>1, <3>7, <3>8, <3>13
      <3>17. GuessLimit'
        BY <3>1, <3>11, <3>15 DEF Counting, GuessLimit
      <3>18. QED
        BY <3>0, <3>1, <3>7, <3>13, <3>14, <3>16, <3>17 DEF Counting
    <2>4. QED BY <1>4, <2>2, <2>3 DEF GetOtp, Finish, Hold, TypeInv, Frames
  <1>5. CASE DelOtp(r)
    <2>1. Others /\ Goto(r, "done")
      BY <1>5 DEF DelOtp, Finish, TypeInv, Frames
    <2>2. pc[r] \notin Idle /\ pc[r] # "incr" /\ "done" \in Pc \ {"incr"}
      BY <1>5 DEF DelOtp, Idle, Pc
    <2>3. QED BY <1>5, <2>1, <2>2, QuietMove, QuietCounting DEF DelOtp, tally
  <1>6. CASE IncrAttempts(r)
    <2>1. Others /\ (Goto(r, "done") \/ Goto(r, "delOtp")) /\ pc[r] = "incr"
      BY <1>6 DEF IncrAttempts, Finish, TypeInv, Frames
    <2>2. /\ Cardinality(InFlight)' <= Cardinality(InFlight)
          /\ Cardinality(Incrementing)' = Cardinality(Incrementing) - 1
          /\ \A i \in Rid : \/ Cardinality(Pending(i))' = Cardinality(Pending(i)) - 1
                            \/ Cardinality(Pending(i))' = Cardinality(Pending(i))
      BY <2>1, CountedMove
    <2>3. wrong' = wrong /\ lost' = lost
      BY <1>6 DEF IncrAttempts, tally
    <2>4. Cardinality(InFlight)' <= MaxInFlight
      <3>1. Cardinality(InFlight)' \in Nat
        BY NextNumbers
      <3>2. QED BY <2>2, <3>1, Numbers DEF Counting
    <2>5. GuessLimit'
      BY <2>3 DEF Counting, GuessLimit
    <2>6. CASE otp' = Nil
      BY <2>4, <2>5, <2>6 DEF Counting
    <2>7. CASE otp # Nil /\ otp' = [val |-> Increment(otp.val), until |-> Nil]
      <3> DEFINE i == otp.val.issue
                 a == otp.val.attempts
      <3>1. i \in Rid /\ a \in Nat
        BY <2>7, StoredOtp
      <3>2. otp'.val.issue = i /\ otp'.val.attempts = a + 1
        BY <2>7, StoredOtp DEF Increment, Otp
      <3>3. /\ a + Cardinality(Incrementing) < MaxAttempts + MaxInFlight
            /\ wrong[i] <= a + Cardinality(Pending(i)) + lost[i]
        BY <2>7 DEF Counting
      <3>4. /\ wrong[i] \in Nat /\ lost[i] \in Nat /\ MaxAttempts \in Nat
            /\ MaxInFlight \in Nat /\ Cardinality(Pending(i)) \in Nat
            /\ Cardinality(Incrementing) \in Nat
        BY <3>1, Numbers
      <3>5. \/ Cardinality(Pending(i))' = Cardinality(Pending(i)) - 1
            \/ Cardinality(Pending(i))' = Cardinality(Pending(i))
        <4>1. i' = i
          BY <3>2
        <4>2. QED BY <2>2, <3>1, <4>1
      <3> DEFINE inc == Cardinality(Incrementing)'
                 pen == Cardinality(Pending(i))'
      <3>6. inc = Cardinality(Incrementing) - 1
        BY <2>2
      <3> HIDE DEF i, a, inc, pen
      <3>7. a + 1 + inc < MaxAttempts + MaxInFlight
        BY <3>1, <3>3, <3>4, <3>6
      <3>8. wrong[i] <= a + 1 + pen + lost[i]
        BY <3>1, <3>3, <3>4, <3>5 DEF pen
      <3>9. QED
        BY <2>3, <2>4, <2>5, <3>2, <3>7, <3>8 DEF Counting, inc, pen, i
    <2>8. QED BY <1>6, <2>6, <2>7 DEF IncrAttempts
  <1>7. CASE MarkAsUsed(r)
    <2>1. Others /\ Goto(r, "login")
      BY <1>7 DEF MarkAsUsed
    <2>2. pc[r] \notin Idle /\ pc[r] # "incr" /\ "login" \in Pc \ {"incr"}
      BY <1>7 DEF MarkAsUsed, Idle, Pc
    <2>3. QED BY <1>7, <2>1, <2>2, QuietMove, QuietCounting DEF MarkAsUsed, tally
  <1>8. CASE Login(r)
    <2>1. Others /\ Goto(r, "done")
      BY <1>8 DEF Login, Finish, TypeInv, Frames
    <2>2. pc[r] \notin Idle /\ pc[r] # "incr" /\ "done" \in Pc \ {"incr"}
      BY <1>8 DEF Login, Idle, Pc
    <2>3. QED BY <1>8, <2>1, <2>2, QuietMove, QuietCounting DEF Login, tally
  <1>9. CASE CommandFails(r)
    <2>1. Others /\ Goto(r, "done") /\ "done" \in Pc \ {"incr"}
      BY <1>9 DEF CommandFails, Finish, TypeInv, Frames, Pc
    <2>2. CASE pc[r] # "incr"
      <3>1. pc[r] \notin Idle /\ lost' = lost
        BY <1>9, <2>2 DEF CommandFails, Idle
      <3>2. QED
        BY <1>9, <2>1, <2>2, <3>1, QuietMove, QuietCounting DEF CommandFails
    <2>3. CASE pc[r] = "incr"
      <3> DEFINE j == call[r].otpData.issue
      <3>1. j \in Rid
        BY <2>3, Compared
      <3>2. /\ otp' = otp /\ wrong' = wrong
            /\ \A i \in Rid : lost'[i] = IF i = j THEN lost[i] + 1 ELSE lost[i]
        BY <1>9, <2>3, <3>1 DEF CommandFails, TypeInv, Tallies
      <3>3. /\ Cardinality(InFlight)' <= Cardinality(InFlight)
            /\ Cardinality(Incrementing)' = Cardinality(Incrementing) - 1
            /\ \A i \in Rid : Cardinality(Pending(i))' =
                 IF j = i THEN Cardinality(Pending(i)) - 1 ELSE Cardinality(Pending(i))
        BY <2>1, <2>3, CountedMove
      <3> HIDE DEF j
      <3>4. Cardinality(InFlight)' <= MaxInFlight
        <4>1. Cardinality(InFlight)' \in Nat
          BY NextNumbers
        <4>2. QED BY <3>3, <4>1, Numbers DEF Counting
      <3>5. GuessLimit'
        <4>1. SUFFICES ASSUME NEW i \in Rid
                       PROVE  wrong[i] < MaxAttempts + MaxInFlight + lost'[i]
          BY <3>2 DEF GuessLimit
        <4>2. /\ wrong[i] \in Nat /\ lost[i] \in Nat
              /\ MaxAttempts \in Nat /\ MaxInFlight \in Nat
              /\ wrong[i] < MaxAttempts + MaxInFlight + lost[i]
          BY Numbers DEF Counting, GuessLimit
        <4>3. QED BY <3>2, <4>2
      <3>6. ASSUME otp # Nil
            PROVE  /\ otp.val.attempts + Cardinality(Incrementing)' < MaxAttempts + MaxInFlight
                   /\ wrong[otp.val.issue] <= otp.val.attempts
                        + Cardinality(Pending(otp.val.issue))' + lost'[otp.val.issue]
        <4> DEFINE i == otp.val.issue
                   a == otp.val.attempts
        <4>1. i \in Rid /\ a \in Nat
          BY <3>6, StoredOtp
        <4>2. /\ a + Cardinality(Incrementing) < MaxAttempts + MaxInFlight
              /\ wrong[i] <= a + Cardinality(Pending(i)) + lost[i]
          BY <3>6 DEF Counting
        <4>3. /\ wrong[i] \in Nat /\ lost[i] \in Nat /\ MaxAttempts \in Nat
              /\ MaxInFlight \in Nat /\ Cardinality(Pending(i)) \in Nat
              /\ Cardinality(Incrementing) \in Nat
          BY <4>1, Numbers
        <4> DEFINE inc == Cardinality(Incrementing)'
                   pen == Cardinality(Pending(i))'
        <4>4. inc = Cardinality(Incrementing) - 1
          BY <3>3
        <4>5. pen + lost'[i] = Cardinality(Pending(i)) + lost[i]
          <5>1. i' = i
            BY <3>2
          <5>2. QED BY <3>2, <3>3, <4>1, <4>3, <5>1
        <4>6. pen \in Int /\ lost'[i] \in Int
          <5>1. i' = i
            BY <3>2
          <5>2. QED BY <3>2, <3>3, <4>1, <4>3, <5>1
        <4> HIDE DEF i, a, inc, pen
        <4>7. a + inc < MaxAttempts + MaxInFlight
          BY <4>1, <4>2, <4>3, <4>4
        <4>8. wrong[i] <= a + pen + lost'[i]
          BY <4>1, <4>2, <4>3, <4>5, <4>6
        <4>9. QED BY <4>7, <4>8, <3>2 DEF i, a, inc, pen
      <3>7. QED BY <3>2, <3>4, <3>5, <3>6 DEF Counting
    <2>4. QED BY <2>2, <2>3
  <1>10. QED
    BY <1>1, <1>2, <1>3, <1>4, <1>5, <1>6, <1>7, <1>8, <1>9 DEF Serve

\* Every step keeps the count.
LEMMA NextCounting ==
  TypeInv /\ TypeInv' /\ Expiries /\ Counting /\ [Next]_vars => Counting'
  <1> SUFFICES ASSUME TypeInv, TypeInv', Expiries, Counting, [Next]_vars
               PROVE  Counting'
    OBVIOUS
  <1>1. ASSUME NEW r \in Rid, NEW c \in Code, RequestOtp(r, c) \/ VerifyOtp(r, c)
        PROVE  Counting'
    <2>1. PICK o \in {"request", "verify"}, l \in {"findUser", "getOtp"} :
            Enter(r, o, c, l)
      BY <1>1 DEF RequestOtp, VerifyOtp
    <2>2. pc[r] = "idle"
      BY <2>1, ConstantsAssumption DEF Enter, TypeInv, Frames, Rid
    <2>3. \A q \in Rid : pc'[q] = IF q = r THEN l ELSE pc[q]
      BY <2>1 DEF Enter, Goto, TypeInv, Frames
    <2>4. \A q \in Rid \ {r} : call'[q] = call[q]
      BY <2>1 DEF Enter, TypeInv, Frames
    <2>5. /\ InFlight' = InFlight \cup {r} /\ r \in Rid \ InFlight
          /\ InFlight \in SUBSET Rid
      BY <2>2, <2>3 DEF InFlight
    <2>6. Cardinality(InFlight') = Cardinality(InFlight) + 1
      BY <2>5, OneMore
    <2>7. Cardinality(InFlight') <= MaxInFlight
      BY <2>1, <2>6, Numbers DEF Enter
    <2>8. Incrementing' = Incrementing
      BY <2>2, <2>3 DEF Incrementing
    <2>9. \A i \in Rid : Pending(i)' = Pending(i)
      BY <2>2, <2>3, <2>4 DEF Pending
    <2>10. UNCHANGED <<otp, wrong, lost>>
      BY <2>1 DEF Enter, tally
    <2>11. ASSUME otp # Nil
           PROVE  Cardinality(Pending(otp.val.issue))' = Cardinality(Pending(otp.val.issue))
      <3>1. PICK i \in Rid : i = otp.val.issue
        BY <2>11, StoredOtp
      <3>2. QED BY <2>9, <2>10, <3>1
    <2>12. GuessLimit'
      BY <2>10 DEF Counting, GuessLimit
    <2>13. QED BY <2>7, <2>8, <2>10, <2>11, <2>12 DEF Counting
  <1>2. CASE Tick
    <2>1. UNCHANGED <<InFlight, Incrementing, wrong, lost>> /\ otp' \in {otp, Nil}
      BY <1>2 DEF Tick, InFlight, Incrementing, tally
    <2>2. \A i \in Rid : Pending(i)' = Pending(i)
      BY <1>2 DEF Tick, Pending
    <2>3. QED BY <2>1, <2>2, QuietCounting
  <1>3. CASE Restart
    <2>1. InFlight' \subseteq InFlight
      BY <1>3 DEF Restart, InFlight, TypeInv, Frames
    <2>2. Cardinality(InFlight') <= Cardinality(InFlight)
      BY <2>1, Smaller DEF InFlight
    <2>3. Cardinality(InFlight') <= MaxInFlight
      BY <2>2, Numbers, NextNumbers DEF Counting
    <2>4. QED BY <1>3, <2>3 DEF Restart, tally, Counting, GuessLimit
  <1>4. CASE UNCHANGED vars
    <2>1. UNCHANGED <<otp, InFlight, Incrementing, wrong, lost>>
      BY <1>4 DEF vars, InFlight, Incrementing, tally
    <2>2. \A i \in Rid : Pending(i)' = Pending(i)
      BY <1>4 DEF vars, Pending
    <2>3. QED BY <2>1, <2>2, QuietCounting
  <1>5. QED BY <1>1, <1>2, <1>3, <1>4, ServeCounting DEF Next

-----------------------------------------------------------------------------
(* The invariant, and what follows from it.                                *)

IInv == TypeInv /\ Expiries /\ Retirement /\ Counting

\* The invariant holds at the start.
LEMMA InitInv == Init => IInv
  <1> SUFFICES ASSUME Init
               PROVE  IInv
    OBVIOUS
  <1>1. Expiries
    BY DEF Init, Expiries, AcceptedInTime
  <1>2. Retirement
    BY DEF Init, Retirement, UsedCodesRefused, Idle
  <1>3. Cardinality(InFlight) = 0
    <2>1. InFlight = {}
      BY DEF Init, InFlight
    <2>2. QED BY <2>1, FS_EmptySet
  <1>4. Counting
    BY <1>3, ConstantsAssumption DEF Init, Counting, GuessLimit
  <1>5. QED BY <1>1, <1>2, <1>4, InitType DEF IInv

\* Every step keeps the invariant.
LEMMA NextInv == IInv /\ [Next]_vars => IInv'
  BY NextType, NextExpiries, NextRetirement, NextCounting DEF IInv

\* The four parts together hold in every reachable state of requestOtp and
\* verifyOtp.
THEOREM Invariant == Spec => []IInv
  BY InitInv, NextInv, PTL DEF Spec

\* Types, with the bound on the attempts that a stored code can have counted
\* (RedisOtpStore.incrementAttempts and the checks around it).
THEOREM OtpTypeCorrect == Spec => []TypeOK
  <1>1. IInv => TypeOK
    <2> SUFFICES ASSUME IInv
                 PROVE  TypeOK
      OBVIOUS
    <2>1. otp # Nil => otp.val.attempts < MaxAttempts + MaxInFlight
      BY StoredOtp, Numbers DEF IInv, Counting
    <2>2. QED BY <2>1 DEF IInv, TypeInv, Frames, Tallies, TypeOK
  <1>2. QED BY <1>1, Invariant, PTL

\* However many verifications overlap, an issue is compared with fewer than
\* MaxAttempts + MaxInFlight wrong codes, not counting those whose increment
\* failed (AuthService.verifyOtp).
THEOREM OtpGuessLimit == Spec => []GuessLimit
  <1>1. IInv => GuessLimit
    BY DEF IInv, Counting
  <1>2. QED BY <1>1, Invariant, PTL

\* No code is accepted after its expiresAt, with or without a TTL on its key
\* (AuthService.verifyOtp, RedisOtpStore.get).
THEOREM OtpAcceptedInTime == Spec => []AcceptedInTime
  <1>1. IInv => AcceptedInTime
    BY DEF IInv, Expiries
  <1>2. QED BY <1>1, Invariant, PTL

\* A request that begins after a code logged somebody in is not accepted with
\* it (AuthService.verifyOtp, RedisOtpStore.markAsUsed).
THEOREM OtpUsedCodesRefused == Spec => []UsedCodesRefused
  <1>1. IInv => UsedCodesRefused
    BY DEF IInv, Retirement
  <1>2. QED BY <1>1, Invariant, PTL

\* An issue that left Redis never comes back and its attempts are never given
\* back (the scripts of RedisOtpStore).
THEOREM OtpNeverRestored == Spec => NeverRestored
  <1> DEFINE Kept ==
        otp' # Nil =>
          IF otp # Nil /\ otp.val.issue = otp'.val.issue
          THEN otp'.val.attempts >= otp.val.attempts
          ELSE expiry[otp'.val.issue] = Nil
  <1>1. IInv /\ [Next]_vars => [Kept]_vars
    <2> SUFFICES ASSUME TypeInv, Expiries, [Next]_vars
                 PROVE  Kept
      BY DEF IInv
    <2>1. CASE otp' \in {otp, Nil}
      BY <2>1, StoredOtp
    <2>2. ASSUME NEW r \in Rid, PutOtp(r)
          PROVE  Kept
      <3>1. otp'.val.issue = r /\ expiry[r] = Nil
        BY <2>2 DEF TypeInv, Frames, FrameOK, PutOtp, Expiries
      <3>2. otp # Nil => otp.val.issue # r
        BY <3>1, StoredOtp, NilAssumption DEF Expiries
      <3>3. QED BY <3>1, <3>2
    <2>3. ASSUME NEW r \in Rid, otp # Nil,
                 otp' = [val |-> Increment(otp.val), until |-> Nil]
          PROVE  Kept
      <3>1. /\ otp'.val.issue = otp.val.issue
            /\ otp'.val.attempts = otp.val.attempts + 1 /\ otp.val.attempts \in Nat
        BY <2>3, StoredOtp DEF Increment, Otp
      <3>2. QED BY <2>3, <3>1
    <2>4. ASSUME NEW r \in Rid, Serve(r) \/ CommandFails(r)
          PROVE  Kept
      BY <2>1, <2>2, <2>3, <2>4
         DEF Serve, FindUser, SendMail, GetOtp, DelOtp, IncrAttempts, MarkAsUsed,
             Login, CommandFails
    <2>5. ASSUME NEW r \in Rid, NEW c \in Code, RequestOtp(r, c) \/ VerifyOtp(r, c)
          PROVE  Kept
      BY <2>1, <2>5 DEF RequestOtp, VerifyOtp, Enter
    <2>6. CASE Tick \/ Restart \/ UNCHANGED vars
      BY <2>1, <2>6 DEF Tick, Restart, vars
    <2> HIDE DEF Kept
    <2>7. QED BY <2>4, <2>5, <2>6 DEF Next
  <1>2. QED BY <1>1, Invariant, PTL DEF Spec, NeverRestored
=============================================================================
