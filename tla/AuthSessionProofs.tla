------------------------- MODULE AuthSessionProofs -------------------------
(***************************************************************************)
(* What holds of AuthSession for every number of users, sessions, requests *)
(* and failures.                                                           *)
(*                                                                         *)
(* The inductive invariant has four parts.  TypeInv: types, and what a     *)
(* request holds at each label.  Finality: the keys of a session that was  *)
(* ended are gone, those of one being ended are still to be deleted, and   *)
(* nobody is about to set them again.  Revocation: a refresh that found    *)
(* its row revoked on arrival goes no further than the row.  Isolation: a  *)
(* key that is missing, or a row that is revoked, was asked for.           *)
(***************************************************************************)
EXTENDS AuthSession, TLAPS

Idle == {"idle", "done"}

Logouts == {"logout", "logoutAll"}

\* The session a frame is about: the one it creates, or one whose login was
\* answered.
Owner(r, l, c) ==
    \/ /\ l = "createSession"
       /\ c.op = "login" /\ c.ssid = r
    \/ /\ l = "setKeys"
       /\ c.op = "login" /\ c.ssid = r
       /\ sessions[r] \in UserSession
       /\ c.todo \subseteq KeysOf(r)
    \/ /\ l \in {"guard", "findSession", "putAccess", "ending"}
       /\ c.op # "login" /\ c.ssid \in known
       /\ sessions[c.ssid].user = c.user
       /\ l \in {"findSession", "putAccess"} => c.op = "refresh"
       /\ l = "ending" => c.op \in Logouts

\* What a logout is to end was known when it arrived, and asked for.
Targets(c) ==
    /\ c.ends \subseteq known
    /\ \A x \in c.ends : sessions[x].user = c.user
    /\ c.op = "logout" => c.ends = {c.ssid}
    /\ c.op \notin Logouts => c.ends = {}
    /\ c.op \in Logouts =>
          [op |-> c.op, user |-> c.user, ssid |-> c.ssid] \in logouts

FrameOK(r, l, c) ==
    /\ l \in Idle => c = Nil
    /\ l \notin Idle => c \in Call /\ Owner(r, l, c) /\ Targets(c)

Frames ==
    /\ pc \in [Rid -> Pc]
    /\ call \in [Rid -> Call \cup {Nil}]
    /\ \A r \in Rid : FrameOK(r, pc[r], call[r])
    /\ \A r \in Rid : r > started => pc[r] = "idle"

Stored ==
    /\ sessions \in [Rid -> UserSession \cup {Nil}]
    /\ keys \subseteq Key
    /\ started \in 0..MaxRequests /\ losses \in 0..MaxLosses
    /\ known \subseteq Rid /\ ended \subseteq known /\ raced \subseteq Rid
    /\ logouts \subseteq [op : Logouts, user : User, ssid : Rid]
    /\ \A s \in known : sessions[s] \in UserSession /\ pc[s] = "done"
    /\ \A s \in Rid : pc[s] \in {"idle", "createSession"} => sessions[s] = Nil

TypeInv == Stored /\ Frames

\* What every step keeps.
Grows ==
    /\ known \subseteq known' /\ logouts \subseteq logouts'
    /\ \A s \in Rid : sessions[s] \in UserSession =>
          /\ sessions'[s] \in UserSession
          /\ sessions'[s].user = sessions[s].user
          /\ sessions[s].revoked => sessions'[s].revoked

Finality ==
    /\ \A s \in ended \ raced : KeysOf(s) \cap keys = {}
    /\ \A s \in ended \ raced, r \in Rid :
          pc[r] \in {"findSession", "putAccess"} => call[r].ssid # s
    /\ \A q \in Rid : pc[q] = "ending" /\ ~call[q].failed =>
          \A s \in call[q].ends \ raced : KeysOf(s) \cap keys \subseteq call[q].todo
    /\ \A q, r \in InFlight, s \in Rid :
          Opens(call[r], s) /\ Ends(call[q], s) => s \in raced
    /\ \A r \in InFlight : call[r].ended => call[r].ssid \in ended

Revocation ==
    \A r \in InFlight : call[r].op = "refresh" /\ call[r].revoked =>
       call[r].ssid \in Revoked /\ pc[r] # "putAccess"

\* A logout of session s, or of all sessions of its user, was asked for.
Targeted(s) ==
    \E m \in logouts :
       IF m.op = "logout" THEN m.ssid = s ELSE m.user = sessions[s].user

Isolation ==
    losses = 0 =>
       /\ \A s \in known :
             \/ KeysOf(s) \subseteq keys /\ s \notin Revoked
             \/ Targeted(s)
       /\ \A r \in Rid : pc[r] = "setKeys" =>
             \/ /\ r \notin Revoked
                /\ call[r].failed \/ KeysOf(r) \ call[r].todo \subseteq keys
             \/ Targeted(r)

-----------------------------------------------------------------------------
(* Types.                                                                  *)

\* Types hold of the empty store with no request issued.
LEMMA InitType == Init => TypeInv
  BY ConstantsAssumption
     DEF Init, TypeInv, Stored, Frames, FrameOK, Idle, Rid, Pc

\* The session and the targets of a frame stay what they are as the store
\* grows.
LEMMA FrameKept ==
  ASSUME TypeInv, Grows, NEW r \in Rid, NEW l, NEW c, FrameOK(r, l, c)
  PROVE  FrameOK(r, l, c)'
  <1>1. CASE l \in Idle
    BY <1>1 DEF FrameOK
  <1>2. CASE l \notin Idle
    <2>1. c \in Call /\ Owner(r, l, c) /\ Targets(c)
      BY <1>2 DEF FrameOK
    <2>2. known \subseteq Rid /\ \A s \in known : sessions[s] \in UserSession
      BY DEF TypeInv, Stored
    <2>3. Owner(r, l, c)'
      BY <2>1, <2>2 DEF Owner, Grows, KeysOf
    <2>4. Targets(c)'
      BY <2>1, <2>2 DEF Targets, Grows
    <2>5. QED BY <1>2, <2>1, <2>3, <2>4 DEF FrameOK
  <1>3. QED BY <1>1, <1>2

\* A request moves to label l with frame c.
LEMMA MoveStep ==
  ASSUME TypeInv, Grows, NEW r \in Rid, NEW l \in Pc \ {"idle"}, NEW c,
         FrameOK(r, l, c)',
         pc' = [pc EXCEPT ![r] = l], call' = [call EXCEPT ![r] = c],
         started' \in Nat, started <= started', r <= started'
  PROVE  Frames'
  <1>1. c \in Call \cup {Nil}
    BY DEF FrameOK, Idle
  <1>2. started \in Nat /\ Rid \subseteq Nat
    BY ConstantsAssumption DEF TypeInv, Stored, Rid
  <1>3. /\ pc' \in [Rid -> Pc]
        /\ call' \in [Rid -> Call \cup {Nil}]
    BY <1>1 DEF TypeInv, Frames
  <1>4. ASSUME NEW q \in Rid
        PROVE  FrameOK(q, pc[q], call[q])'
    <2>1. CASE q = r
      BY <2>1 DEF TypeInv, Frames
    <2>2. CASE q # r
      <3>1. pc'[q] = pc[q] /\ call'[q] = call[q]
        BY <2>2 DEF TypeInv, Frames
      <3>2. PICK l0, c0 : l0 = pc[q] /\ c0 = call[q]
        OBVIOUS
      <3>3. FrameOK(q, l0, c0)
        BY <3>2 DEF TypeInv, Frames
      <3>4. FrameOK(q, l0, c0)'
        BY <3>3, FrameKept
      <3>5. QED BY <3>1, <3>2, <3>4
    <2>3. QED BY <2>1, <2>2
  <1>5. \A q \in Rid : q > started' => pc'[q] = "idle"
    BY <1>2 DEF TypeInv, Frames
  <1>6. QED BY <1>3, <1>4, <1>5 DEF Frames

\* A served request has been issued.
LEMMA ServedStarted ==
  ASSUME TypeInv, NEW r \in Rid, pc[r] # "idle"
  PROVE  /\ started \in Nat /\ r <= started
  <1>1. started \in Nat /\ r \in Nat
    BY ConstantsAssumption DEF TypeInv, Stored, Rid
  <1>2. ~(r > started)
    BY DEF TypeInv, Frames
  <1>3. QED BY <1>1, <1>2

\* A request answers and drops its frame.
LEMMA FinishType ==
  ASSUME TypeInv, Grows, NEW r \in Rid, pc[r] # "idle", Finish(r), UNCHANGED started
  PROVE  Frames'
  <1>1. FrameOK(r, "done", Nil)' /\ "done" \in Pc \ {"idle"}
    BY DEF FrameOK, Idle, Pc
  <1>2. started' \in Nat /\ started <= started' /\ r <= started'
    BY ServedStarted
  <1>3. QED BY <1>1, <1>2, MoveStep DEF Finish, Goto

\* A request goes on to label l with frame c.
LEMMA GoOnType ==
  ASSUME TypeInv, Grows, NEW r \in Rid, pc[r] # "idle", UNCHANGED started,
         NEW l \in Pc \ Idle, NEW c, c \in Call, Owner(r, l, c)', Targets(c),
         pc' = [pc EXCEPT ![r] = l], call' = [call EXCEPT ![r] = c]
  PROVE  Frames'
  <1>1. Targets(c)'
    BY DEF Targets, Grows, TypeInv, Stored
  <1>2. FrameOK(r, l, c)' /\ l \in Pc \ {"idle"}
    BY <1>1 DEF FrameOK, Idle
  <1>3. started' \in Nat /\ started <= started' /\ r <= started'
    BY ServedStarted
  <1>4. QED BY <1>2, <1>3, MoveStep

\* What is known of a request being served.
LEMMA Served ==
  ASSUME TypeInv, NEW r \in Rid, pc[r] \notin Idle
  PROVE  /\ call[r] \in Call /\ Owner(r, pc[r], call[r]) /\ Targets(call[r])
         /\ r \notin known
         /\ pc[r] # "idle" /\ pc[r] # "done"
         /\ [pc EXCEPT ![r] = pc[r]] = pc
  BY DEF TypeInv, Frames, Stored, FrameOK, Idle

\* A frame with other locals.
LEMMA LocalsType ==
  ASSUME TypeInv, NEW c \in Call, NEW db \in BOOLEAN, NEW todo \in SUBSET Key,
         NEW failed \in BOOLEAN, Targets(c)
  PROVE  /\ WithLocals(c, db, todo, failed) \in Call
         /\ Targets(WithLocals(c, db, todo, failed))
         /\ WithLocals(c, db, todo, failed).op = c.op
         /\ WithLocals(c, db, todo, failed).user = c.user
         /\ WithLocals(c, db, todo, failed).ssid = c.ssid
         /\ WithLocals(c, db, todo, failed).todo = todo
         /\ WithLocals(c, db, todo, failed).db = db
         /\ WithLocals(c, db, todo, failed).failed = failed
         /\ WithLocals(c, db, todo, failed).ends = c.ends
         /\ WithLocals(c, db, todo, failed).revoked = c.revoked
         /\ WithLocals(c, db, todo, failed).ended = c.ended
  <1>1. WithLocals(c, db, todo, failed) \in Call
    BY DEF WithLocals, Call
  <1>2. QED BY <1>1 DEF WithLocals, Targets
-----------------------------------------------------------------------------
(* Types: the steps.                                                       *)

\* The rows a logout writes keep their users, and none is taken back.
LEMMA RevokeType ==
  ASSUME TypeInv, NEW c
  PROVE  /\ Revoke(c) \in [Rid -> UserSession \cup {Nil}]
         /\ \A s \in Rid : sessions[s] \in UserSession =>
               /\ Revoke(c)[s] \in UserSession
               /\ Revoke(c)[s].user = sessions[s].user
               /\ sessions[s].revoked => Revoke(c)[s].revoked
         /\ \A s \in Rid : Revoke(c)[s] \in UserSession => sessions[s] \in UserSession
  <1>1. \A s \in Rid : sessions[s] \in UserSession \cup {Nil}
    BY DEF TypeInv, Stored
  <1>2. \A s \in Rid : Revoke(c)[s] \in UserSession \cup {Nil}
    BY <1>1 DEF Revoke, UserSession
  <1>3. DOMAIN Revoke(c) = Rid
    BY DEF Revoke
  <1>4. Revoke(c) = [s \in Rid |-> Revoke(c)[s]]
    BY DEF Revoke
  <1>5. Revoke(c) \in [Rid -> UserSession \cup {Nil}]
    BY <1>2, <1>4
  <1>6. ASSUME NEW s \in Rid, sessions[s] \in UserSession
        PROVE  /\ Revoke(c)[s] \in UserSession
               /\ Revoke(c)[s].user = sessions[s].user
               /\ sessions[s].revoked => Revoke(c)[s].revoked
    BY <1>6 DEF Revoke, UserSession
  <1>7. ASSUME NEW s \in Rid, Revoke(c)[s] \in UserSession
        PROVE  sessions[s] \in UserSession
    BY <1>1, <1>7, NilAssumption DEF Revoke
  <1>8. QED BY <1>5, <1>6, <1>7

\* Steps that leave the database and the histories alone keep all that grows.
LEMMA GrowsSame ==
  ASSUME UNCHANGED sessions, known \subseteq known', logouts \subseteq logouts'
  PROVE  Grows
  BY DEF Grows

\* The variables that a step of a request leaves alone keep their types.
LEMMA StoredKept ==
  ASSUME TypeInv, NEW r \in Rid, pc[r] # "done",
         sessions' \in [Rid -> UserSession \cup {Nil}], Grows, keys' \subseteq Key,
         UNCHANGED <<started, losses, raced, logouts>>,
         ended' \subseteq known, known \subseteq known',
         \A q \in known' \ known : q = r /\ pc'[r] = "done" /\ sessions'[r] \in UserSession,
         pc'[r] \notin {"idle", "createSession"},
         \A q \in Rid : q # r => pc'[q] = pc[q] /\ (sessions[q] = Nil => sessions'[q] = Nil)
  PROVE  Stored'
  <1>1. r \notin known
    BY DEF TypeInv, Stored
  <1>2. \A q \in known' : sessions'[q] \in UserSession /\ pc'[q] = "done"
    BY <1>1 DEF TypeInv, Stored, Grows
  <1>3. \A q \in Rid : pc'[q] \in {"idle", "createSession"} => sessions'[q] = Nil
    BY DEF TypeInv, Stored
  <1>4. QED BY <1>2, <1>3 DEF TypeInv, Stored

\* Arriving requests.
LEMMA EnterType ==
  ASSUME TypeInv, NEW r \in Rid, NEW o \in Op, NEW u \in User, NEW s \in Rid,
         NEW ends \in SUBSET known, NEW l \in Pc \ Idle,
         Enter(r, o, u, s, ends, l),
         o \in Logouts => ends # {},
         Owner(r, l, NewCall(o, u, s, ends)),
         \A x \in ends : sessions[x].user = u,
         o = "logout" => ends = {s}, o \notin Logouts => ends = {}
  PROVE  TypeInv' /\ Grows
  <1>1. Grows /\ UNCHANGED <<sessions, known>>
    BY DEF Enter, Grows, store
  <1>2. PICK c : c = NewCall(o, u, s, ends)
    OBVIOUS
  <1>3. c \in Call /\ c.op = o /\ c.user = u /\ c.ssid = s /\ c.ends = ends
    BY <1>2 DEF NewCall, Call, TypeInv, Stored
  <1>4. Owner(r, l, c)'
    BY <1>1, <1>2 DEF Owner
  <1>5. Targets(c)'
    BY <1>1, <1>3 DEF Targets, Enter
  <1>6. FrameOK(r, l, c)' /\ l \in Pc \ {"idle"}
    BY <1>3, <1>4, <1>5 DEF FrameOK, Idle
  <1>7. /\ started \in Nat /\ started \in 0..MaxRequests
        /\ started' = started + 1 /\ r = started' /\ started' \in 0..MaxRequests
    BY ConstantsAssumption DEF TypeInv, Stored, Enter, Rid
  <1>8. started' \in Nat /\ started <= started' /\ r <= started'
    BY <1>7
  <1>9. pc[r] = "idle"
    <2>1. r > started
      BY <1>7
    <2>2. QED BY <2>1 DEF TypeInv, Frames
  <1>10. Frames'
    BY <1>1, <1>2, <1>6, <1>8, MoveStep DEF Enter, Goto
  <1>11. raced' \subseteq Rid
    BY DEF TypeInv, Stored, Enter
  <1>12. logouts' \subseteq [op : Logouts, user : User, ssid : Rid]
    BY DEF TypeInv, Stored, Enter
  <1>13. \A q \in known' : sessions'[q] \in UserSession /\ pc'[q] = "done"
    BY <1>1, <1>9 DEF TypeInv, Stored, Enter, Goto
  <1>14. \A q \in Rid : pc'[q] \in {"idle", "createSession"} => sessions'[q] = Nil
    BY <1>1, <1>9 DEF TypeInv, Stored, Frames, Enter, Goto
  <1>15. Stored'
    BY <1>1, <1>7, <1>11, <1>12, <1>13, <1>14 DEF TypeInv, Stored, Enter, store
  <1>16. QED BY <1>1, <1>10, <1>15 DEF TypeInv

\* Every request that arrives, with a token it can have.
LEMMA ArriveType == TypeInv /\ Arrive => TypeInv' /\ Grows
  <1> SUFFICES ASSUME TypeInv, NEW r \in Rid,
                      \/ \E u \in User : Login(r, u)
                      \/ \E s \in known :
                            \/ UseToken(r, s)
                            \/ RefreshToken(r, s)
                            \/ Logout(r, s)
                            \/ LogoutAll(r, s)
               PROVE  TypeInv' /\ Grows
    BY DEF Arrive
  <1>1. ASSUME NEW u \in User, Login(r, u)
        PROVE  TypeInv' /\ Grows
    <2>1. Enter(r, "login", u, r, {}, "createSession")
      BY <1>1 DEF Login
    <2>2. Owner(r, "createSession", NewCall("login", u, r, {}))
      BY DEF Owner, NewCall
    <2>3. /\ "login" \in Op /\ "login" \notin Logouts
          /\ "createSession" \in Pc \ Idle
      BY DEF Op, Logouts, Pc, Idle
    <2>4. QED BY <2>1, <2>2, <2>3, EnterType
  <1>2. ASSUME NEW s \in known, NEW o \in Op \ {"login"}, NEW ends \in SUBSET known,
               o \in Logouts => ends # {}, o = "logout" => ends = {s},
               o \notin Logouts => ends = {},
               \A x \in ends : sessions[x].user = sessions[s].user,
               Enter(r, o, sessions[s].user, s, ends, "guard")
        PROVE  TypeInv' /\ Grows
    <2>1. s \in Rid /\ sessions[s].user \in User
      BY DEF TypeInv, Stored, UserSession
    <2>2. Owner(r, "guard", NewCall(o, sessions[s].user, s, ends))
      BY DEF Owner, NewCall
    <2>3. "guard" \in Pc \ Idle
      BY DEF Pc, Idle
    <2>4. PICK u \in User : u = sessions[s].user
      BY <2>1
    <2>5. QED BY <1>2, <2>1, <2>2, <2>3, <2>4, EnterType
  <1>3. ASSUME NEW s \in known, UseToken(r, s) \/ RefreshToken(r, s)
        PROVE  TypeInv' /\ Grows
    BY <1>2, <1>3 DEF UseToken, RefreshToken, Op, Logouts
  <1>4. ASSUME NEW s \in known, Logout(r, s)
        PROVE  TypeInv' /\ Grows
    BY <1>2, <1>4 DEF Logout, Op, Logouts
  <1>5. ASSUME NEW s \in known, LogoutAll(r, s)
        PROVE  TypeInv' /\ Grows
    <2> DEFINE ends == {x \in known : sessions[x].user = sessions[s].user}
    <2>1. /\ ends \in SUBSET known /\ ends # {}
          /\ \A x \in ends : sessions[x].user = sessions[s].user
          /\ Enter(r, "logoutAll", sessions[s].user, s, ends, "guard")
      BY <1>5 DEF LogoutAll
    <2>2. "logoutAll" \in Op \ {"login"} /\ "logoutAll" \in Logouts
      BY DEF Op, Logouts
    <2> HIDE DEF ends
    <2>3. QED BY <1>2, <2>1, <2>2
  <1>6. QED BY <1>1, <1>3, <1>4, <1>5
\* A step that finishes request r and leaves the database alone.
LEMMA FinishStep ==
  ASSUME TypeInv, NEW r \in Rid, pc[r] \notin Idle, Finish(r),
         UNCHANGED <<started, losses, raced, logouts>>,
         keys' \subseteq Key, known' \in {known, known \cup {r}},
         known' = known \/ sessions[r] \in UserSession,
         ended' \subseteq known, UNCHANGED sessions
  PROVE  TypeInv' /\ Grows
  <1>1. Grows
    BY DEF Grows
  <1>2. pc[r] # "idle"
    BY DEF Idle
  <1>3. Frames'
    BY <1>1, <1>2, FinishType
  <1>4. pc[r] # "done" /\ pc'[r] = "done" /\ \A q \in Rid : q # r => pc'[q] = pc[q]
    BY DEF Idle, Finish, Goto, TypeInv, Frames
  <1>5. sessions' \in [Rid -> UserSession \cup {Nil}]
    BY DEF TypeInv, Stored
  <1>6. known \subseteq known' /\ pc'[r] \notin {"idle", "createSession"}
    BY <1>4
  <1>7. \A q \in known' \ known :
           q = r /\ pc'[r] = "done" /\ sessions'[r] \in UserSession
    BY <1>4
  <1>8. Stored'
    <2>1. pc[r] # "done" /\ \A q \in Rid : q # r =>
             pc'[q] = pc[q] /\ (sessions[q] = Nil => sessions'[q] = Nil)
      BY <1>4
    <2>2. UNCHANGED <<started, losses, raced, logouts>> /\ ended' \subseteq known
      OBVIOUS
    <2>3. QED BY <1>1, <1>5, <1>6, <1>7, <2>1, <2>2, StoredKept
  <1>9. QED BY <1>1, <1>3, <1>8 DEF TypeInv

\* A step that takes request r on to label l with frame c.
LEMMA GoOnStep ==
  ASSUME TypeInv, Grows, NEW r \in Rid, pc[r] \notin Idle,
         NEW l \in Pc \ (Idle \cup {"createSession"}),
         NEW c, c \in Call, Owner(r, l, c)', Targets(c),
         pc' = [pc EXCEPT ![r] = l], call' = [call EXCEPT ![r] = c],
         sessions' \in [Rid -> UserSession \cup {Nil}],
         \A q \in Rid \ {r} : sessions[q] = Nil => sessions'[q] = Nil,
         keys' \subseteq Key,
         UNCHANGED <<started, losses, known, ended, raced, logouts>>
  PROVE  TypeInv'
  <1>1. pc[r] # "idle" /\ pc[r] # "done" /\ l \in Pc \ Idle
    BY DEF Idle
  <1>2. Frames'
    BY <1>1, GoOnType
  <1>3. pc'[r] = l /\ l \notin {"idle", "createSession"}
        /\ \A q \in Rid : q # r => pc'[q] = pc[q]
    BY DEF TypeInv, Frames, Idle
  <1>4. ended' \subseteq known /\ known' = known
    BY DEF TypeInv, Stored
  <1>5. Stored'
    BY <1>1, <1>3, <1>4, StoredKept
  <1>6. QED BY <1>2, <1>5 DEF TypeInv

\* The INSERT.
LEMMA CreateSessionType ==
  ASSUME TypeInv, NEW r \in Rid, CreateSession(r)
  PROVE  TypeInv' /\ Grows
  <1>1. pc[r] \notin Idle /\ pc[r] = "createSession"
    BY DEF CreateSession, Idle
  <1>2. /\ call[r] \in Call /\ Owner(r, pc[r], call[r]) /\ Targets(call[r])
        /\ r \notin known /\ sessions[r] = Nil
    BY <1>1, Served DEF TypeInv, Stored
  <1>3. sessions' \in [Rid -> UserSession \cup {Nil}] /\ sessions'[r] \in UserSession
    BY <1>2 DEF CreateSession, NewSession, UserSession, Call, TypeInv, Stored
  <1>4. KeysOf(r) \in SUBSET Key /\ FALSE \in BOOLEAN
    BY DEF KeysOf
  <1>5. PICK c : c = WithLocals(call[r], FALSE, KeysOf(r), FALSE)
    OBVIOUS
  <1>6. c \in Call /\ Targets(c)
    BY <1>2, <1>4, <1>5, LocalsType
  <1>7. c.op = "login" /\ c.ssid = r /\ c.todo = KeysOf(r)
    BY <1>1, <1>2, <1>5 DEF Owner, WithLocals
  <1>8. \A s \in Rid \ {r} : sessions'[s] = sessions[s]
    BY DEF CreateSession, TypeInv, Stored
  <1>9. Grows
    BY <1>2, <1>8, NilAssumption DEF Grows, CreateSession, history
  <1>10. "setKeys" \in Pc \ (Idle \cup {"createSession"})
    BY DEF Pc, Idle
  <1>11. Owner(r, "setKeys", c)'
    BY <1>3, <1>7 DEF Owner, KeysOf
  <1>12. /\ pc' = [pc EXCEPT ![r] = "setKeys"] /\ call' = [call EXCEPT ![r] = c]
         /\ UNCHANGED <<keys, started, losses, known, ended, raced, logouts>>
         /\ keys' \subseteq Key
    BY <1>5 DEF CreateSession, Goto, bounds, history, TypeInv, Stored
  <1>13. QED BY <1>1, <1>3, <1>6, <1>8, <1>9, <1>10, <1>11, <1>12, GoOnStep

\* The SETs of a login.
LEMMA SetKeyType ==
  ASSUME TypeInv, NEW r \in Rid, NEW k \in KeysOf(r), NEW ok \in BOOLEAN,
         SetKey(r, k, ok)
  PROVE  TypeInv' /\ Grows
  <1>1. pc[r] \notin Idle /\ pc[r] = "setKeys"
    BY DEF SetKey, Idle
  <1>2. call[r] \in Call /\ Owner(r, pc[r], call[r]) /\ Targets(call[r])
    BY <1>1, Served
  <1>3. keys' \subseteq Key
    BY DEF SetKey, KeysOf, TypeInv, Stored
  <1>4. sessions[r] \in UserSession /\ call[r].op = "login" /\ call[r].ssid = r
        /\ call[r].todo \subseteq KeysOf(r)
    BY <1>1, <1>2 DEF Owner
  <1>5. UNCHANGED <<sessions, started, losses, raced, logouts, ended>>
    BY DEF SetKey, bounds
  <1>6. CASE call[r].todo # {k}
    <2>1. PICK c : c = WithLocals(call[r], FALSE, call[r].todo \ {k}, call[r].failed \/ ~ok)
      OBVIOUS
    <2>2. /\ call[r].todo \ {k} \in SUBSET Key /\ FALSE \in BOOLEAN
          /\ (call[r].failed \/ ~ok) \in BOOLEAN
      BY <1>2 DEF Call
    <2>3. c \in Call /\ Targets(c)
      BY <1>2, <2>1, <2>2, LocalsType
    <2>4. c.op = "login" /\ c.ssid = r /\ c.todo \subseteq KeysOf(r)
      BY <1>4, <2>1 DEF WithLocals
    <2>5. Owner(r, "setKeys", c)'
      BY <1>4, <1>5, <2>4 DEF Owner, KeysOf
    <2>6. /\ "setKeys" \in Pc \ (Idle \cup {"createSession"})
          /\ pc = [pc EXCEPT ![r] = "setKeys"]
      BY <1>1 DEF Pc, Idle, TypeInv, Frames
    <2>7. /\ pc' = pc /\ call' = [call EXCEPT ![r] = c] /\ known' = known
          /\ sessions' \in [Rid -> UserSession \cup {Nil}]
      BY <1>5, <1>6, <2>1 DEF SetKey, TypeInv, Stored
    <2>8. Grows
      BY <1>5, <2>7 DEF Grows
    <2>9. QED BY <1>1, <1>3, <1>5, <2>3, <2>5, <2>6, <2>7, <2>8, GoOnStep
  <1>7. CASE call[r].todo = {k}
    <2>1. Finish(r) /\ known' \in {known, known \cup {r}}
      BY <1>7 DEF SetKey
    <2>2. ended' \subseteq known
      BY <1>5 DEF TypeInv, Stored
    <2>3. QED BY <1>1, <1>3, <1>4, <1>5, <2>1, <2>2, FinishStep
  <1>8. QED BY <1>6, <1>7
\* The keys that a logout scans for are keys.
LEMMA DoomedKeys == ASSUME NEW c PROVE Doomed(c) \in SUBSET Key
  BY DEF Doomed, KeysOf

\* A step that moves request r on to label l with the frame it has and
\* touches nothing else.
LEMMA LabelStep ==
  ASSUME TypeInv, NEW r \in Rid, pc[r] \notin Idle,
         NEW l \in Pc \ (Idle \cup {"createSession"}), Owner(r, l, call[r]),
         Goto(r, l), UNCHANGED call, UNCHANGED <<store, bounds, history>>
  PROVE  TypeInv' /\ Grows
  <1>1. UNCHANGED <<sessions, keys, started, losses, known, ended, logouts, raced>>
    BY DEF store, bounds, history
  <1>2. call[r] \in Call /\ Targets(call[r])
    BY Served
  <1>3. PICK c : c = call[r]
    OBVIOUS
  <1>4. Owner(r, l, c)'
    BY <1>1, <1>3 DEF Owner, KeysOf
  <1>5. pc' = [pc EXCEPT ![r] = l] /\ call' = [call EXCEPT ![r] = c]
    BY <1>3 DEF Goto, TypeInv, Frames
  <1>6. sessions' \in [Rid -> UserSession \cup {Nil}] /\ keys' \subseteq Key
    BY <1>1 DEF TypeInv, Stored
  <1>7. Grows
    BY <1>1 DEF Grows
  <1>8. QED BY <1>1, <1>2, <1>3, <1>4, <1>5, <1>6, <1>7, GoOnStep

\* A request that answers and touches nothing else.
LEMMA AnswerStep ==
  ASSUME TypeInv, NEW r \in Rid, pc[r] \notin Idle, Finish(r),
         UNCHANGED <<store, bounds, history>>
  PROVE  TypeInv' /\ Grows
  <1>1. UNCHANGED <<sessions, keys, started, losses, known, ended, logouts, raced>>
    BY DEF store, bounds, history
  <1>2. keys' \subseteq Key /\ ended' \subseteq known
    BY <1>1 DEF TypeInv, Stored
  <1>3. QED BY <1>1, <1>2, FinishStep

\* The guards.
LEMMA GuardType ==
  ASSUME TypeInv, NEW r \in Rid, GuardRefuses(r) \/ GuardPasses(r)
  PROVE  TypeInv' /\ Grows
  <1>1. pc[r] = "guard" /\ pc[r] \notin Idle
    BY DEF GuardRefuses, GuardPasses, Idle
  <1>2. /\ call[r] \in Call /\ Targets(call[r])
        /\ call[r].op # "login" /\ call[r].ssid \in known
        /\ sessions[call[r].ssid].user = call[r].user
    BY <1>1, Served DEF Owner
  <1>3. CASE GuardRefuses(r)
    BY <1>1, <1>3, AnswerStep DEF GuardRefuses
  <1>4. CASE GuardPasses(r) /\ call[r].op = "use"
    <2>1. Finish(r) /\ UNCHANGED <<store, bounds, history>>
      BY <1>4 DEF GuardPasses
    <2>2. QED BY <1>1, <2>1, AnswerStep
  <1>5. CASE GuardPasses(r) /\ call[r].op = "refresh"
    <2>1. /\ Goto(r, "findSession") /\ UNCHANGED call
          /\ UNCHANGED <<store, bounds, history>>
      BY <1>5 DEF GuardPasses
    <2>2. Owner(r, "findSession", call[r])
      BY <1>2, <1>5 DEF Owner
    <2>3. "findSession" \in Pc \ (Idle \cup {"createSession"})
      BY DEF Pc, Idle
    <2>4. QED BY <1>1, <2>1, <2>2, <2>3, LabelStep
  <1>6. CASE GuardPasses(r) /\ call[r].op \in Logouts
    <2>1. PICK c : c = WithLocals(call[r], TRUE, Doomed(call[r]), FALSE)
      OBVIOUS
    <2>2. /\ pc' = [pc EXCEPT ![r] = "ending"] /\ call' = [call EXCEPT ![r] = c]
          /\ UNCHANGED <<sessions, keys, started, losses, known, ended, logouts, raced>>
      BY <1>6, <2>1 DEF GuardPasses, Goto, Logouts, store, bounds, history
    <2>3. Doomed(call[r]) \in SUBSET Key /\ TRUE \in BOOLEAN /\ FALSE \in BOOLEAN
      BY DoomedKeys
    <2>4. c \in Call /\ Targets(c)
      BY <1>2, <2>1, <2>3, LocalsType
    <2>5. Owner(r, "ending", c)'
      BY <1>2, <1>6, <2>1, <2>2 DEF Owner, WithLocals, Logouts
    <2>6. "ending" \in Pc \ (Idle \cup {"createSession"})
      BY DEF Pc, Idle
    <2>7. sessions' \in [Rid -> UserSession \cup {Nil}] /\ keys' \subseteq Key
      BY <2>2 DEF TypeInv, Stored
    <2>8. Grows
      BY <2>2 DEF Grows
    <2>9. QED BY <1>1, <2>2, <2>4, <2>5, <2>6, <2>7, <2>8, GoOnStep
  <1>7. GuardPasses(r) => call[r].op = "use" \/ call[r].op = "refresh" \/ call[r].op \in Logouts
    BY DEF GuardPasses, Logouts
  <1>8. QED BY <1>3, <1>4, <1>5, <1>6, <1>7

\* The row of a refresh, and its new access key.
LEMMA RefreshType ==
  ASSUME TypeInv, NEW r \in Rid, FindSession(r) \/ PutAccess(r) \/ QueryFails(r)
  PROVE  TypeInv' /\ Grows
  <1>1. pc[r] \notin Idle
    BY DEF FindSession, PutAccess, QueryFails, Idle
  <1>2. CASE FindSession(r) /\ ~Finish(r)
    <2>1. /\ Goto(r, "putAccess") /\ UNCHANGED call /\ pc[r] = "findSession"
          /\ UNCHANGED <<store, bounds, history>>
      BY <1>2 DEF FindSession
    <2>2. Owner(r, "putAccess", call[r])
      BY <1>1, <2>1, Served DEF Owner
    <2>3. "putAccess" \in Pc \ (Idle \cup {"createSession"})
      BY DEF Pc, Idle
    <2>4. QED BY <1>1, <2>1, <2>2, <2>3, LabelStep
  <1>3. CASE (FindSession(r) \/ QueryFails(r)) /\ Finish(r)
    <2>1. UNCHANGED <<store, bounds, history>>
      BY <1>3 DEF FindSession, QueryFails
    <2>2. QED BY <1>1, <1>3, <2>1, AnswerStep
  <1>4. CASE PutAccess(r)
    <2>1. call[r].ssid \in Rid
      BY <1>1, Served DEF Call
    <2>2. keys' \subseteq Key
      BY <1>4, <2>1 DEF PutAccess, Key, TypeInv, Stored
    <2>3. Finish(r) /\ UNCHANGED <<sessions, started, losses, known, ended, logouts, raced>>
      BY <1>4 DEF PutAccess, bounds, history
    <2>4. ended' \subseteq known
      BY <2>3 DEF TypeInv, Stored
    <2>5. QED BY <1>1, <2>2, <2>3, <2>4, FinishStep
  <1>5. QED BY <1>2, <1>3, <1>4 DEF QueryFails

\* A logout that goes on or is answered.
LEMMA SettleType ==
  ASSUME TypeInv, Grows, NEW r \in Rid, pc[r] = "ending",
         NEW db \in BOOLEAN, NEW todo \in SUBSET Key, NEW failed \in BOOLEAN,
         Settle(r, WithLocals(call[r], db, todo, failed)),
         sessions' \in [Rid -> UserSession \cup {Nil}],
         \A q \in Rid : sessions[q] = Nil => sessions'[q] = Nil,
         keys' \subseteq Key,
         UNCHANGED <<started, losses, known, logouts, raced>>
  PROVE  TypeInv'
  <1>1. pc[r] \notin Idle /\ pc[r] # "idle" /\ pc[r] # "done"
    BY DEF Idle
  <1>2. /\ call[r] \in Call /\ Targets(call[r]) /\ Owner(r, pc[r], call[r])
    BY <1>1, Served
  <1>3. PICK c : c = WithLocals(call[r], db, todo, failed)
    OBVIOUS
  <1>4. c \in Call /\ Targets(c)
    BY <1>2, <1>3, LocalsType
  <1>5. CASE db \/ todo # {}
    <2>1. call' = [call EXCEPT ![r] = c] /\ UNCHANGED <<pc, ended>>
      BY <1>3, <1>5 DEF Settle, WithLocals
    <2>2. Owner(r, "ending", c)
      BY <1>2, <1>3 DEF Owner, WithLocals
    <2>3. known \subseteq Rid /\ \A s \in known : sessions[s] \in UserSession
      BY DEF TypeInv, Stored
    <2>4. Owner(r, "ending", c)'
      BY <2>2, <2>3 DEF Owner, Grows
    <2>5. /\ pc' = [pc EXCEPT ![r] = "ending"]
          /\ "ending" \in Pc \ (Idle \cup {"createSession"})
      BY <2>1 DEF Pc, Idle, TypeInv, Frames
    <2>6. QED BY <1>1, <1>4, <2>1, <2>4, <2>5, GoOnStep
  <1>6. CASE ~(db \/ todo # {})
    <2>1. /\ Finish(r) /\ ended' \subseteq ended \cup c.ends
      BY <1>3, <1>6 DEF Settle, WithLocals
    <2>2. ended' \subseteq known
      BY <1>4, <2>1 DEF Targets, TypeInv, Stored
    <2>3. Frames'
      BY <1>1, <2>1, FinishType
    <2>4. pc'[r] = "done" /\ \A q \in Rid : q # r => pc'[q] = pc[q]
      BY <2>1 DEF Finish, Goto, TypeInv, Frames
    <2>5. known' = known /\ pc'[r] \notin {"idle", "createSession"}
      BY <2>4
    <2>6. Stored'
      BY <1>1, <2>2, <2>4, <2>5, StoredKept
    <2>7. QED BY <2>3, <2>6 DEF TypeInv
  <1>7. QED BY <1>5, <1>6

\* Both sides of a logout, and their failures.
LEMMA EndingType ==
  ASSUME TypeInv, NEW r \in Rid,
         RevokeRows(r) \/ SideFails(r) \/ \E k \in Key : Sweep(r, k)
  PROVE  TypeInv' /\ Grows
  <1>1. /\ pc[r] = "ending" /\ pc[r] \notin Idle
        /\ UNCHANGED <<started, losses, known, logouts, raced>>
    BY DEF RevokeRows, SideFails, Sweep, bounds, Idle
  <1>2. /\ call[r] \in Call /\ call[r].todo \in SUBSET Key
        /\ call[r].failed \in BOOLEAN /\ call[r].db \in BOOLEAN
    BY <1>1, Served DEF Call
  <1>3. CASE RevokeRows(r)
    <2>1. /\ sessions' = Revoke(call[r]) /\ UNCHANGED keys
          /\ Settle(r, WithLocals(call[r], FALSE, call[r].todo, call[r].failed))
      BY <1>3 DEF RevokeRows
    <2>2. /\ sessions' \in [Rid -> UserSession \cup {Nil}]
          /\ \A s \in Rid : sessions[s] \in UserSession =>
               /\ sessions'[s] \in UserSession
               /\ sessions'[s].user = sessions[s].user
               /\ sessions[s].revoked => sessions'[s].revoked
          /\ \A s \in Rid : sessions'[s] \in UserSession => sessions[s] \in UserSession
      BY <2>1, RevokeType
    <2>3. Grows
      BY <1>1, <2>2 DEF Grows
    <2>4. /\ \A q \in Rid : sessions[q] = Nil => sessions'[q] = Nil
          /\ keys' \subseteq Key
      BY <2>1, <2>2, NilAssumption DEF TypeInv, Stored
    <2>5. FALSE \in BOOLEAN
      OBVIOUS
    <2>6. QED BY <1>1, <1>2, <2>1, <2>2, <2>3, <2>4, <2>5, SettleType
  <1>4. ASSUME UNCHANGED sessions, keys' \subseteq keys,
               NEW db \in BOOLEAN, NEW todo \in SUBSET Key, NEW failed \in BOOLEAN,
               Settle(r, WithLocals(call[r], db, todo, failed))
        PROVE  TypeInv' /\ Grows
    <2>1. Grows
      BY <1>1, <1>4 DEF Grows
    <2>2. /\ sessions' \in [Rid -> UserSession \cup {Nil}] /\ keys' \subseteq Key
          /\ \A q \in Rid : sessions[q] = Nil => sessions'[q] = Nil
      BY <1>4 DEF TypeInv, Stored
    <2>3. QED BY <1>1, <1>4, <2>1, <2>2, SettleType
  <1>5. ASSUME NEW k \in Key, Sweep(r, k)
        PROVE  TypeInv' /\ Grows
    <2>1. call[r].todo \ {k} \in SUBSET Key
      BY <1>2
    <2>2. /\ UNCHANGED sessions /\ keys' \subseteq keys
          /\ Settle(r, WithLocals(call[r], call[r].db, call[r].todo \ {k}, call[r].failed))
      BY <1>5 DEF Sweep
    <2>3. QED BY <1>2, <1>4, <2>1, <2>2
  <1>6. CASE SideFails(r)
    <2>1. UNCHANGED sessions /\ keys' \subseteq keys
      BY <1>6 DEF SideFails, store
    <2>2. \/ Settle(r, WithLocals(call[r], FALSE, call[r].todo, TRUE))
          \/ Settle(r, WithLocals(call[r], call[r].db, {}, TRUE))
      BY <1>6 DEF SideFails
    <2>3. {} \in SUBSET Key /\ TRUE \in BOOLEAN /\ FALSE \in BOOLEAN
      OBVIOUS
    <2>4. QED BY <1>2, <1>4, <2>1, <2>2, <2>3
  <1>7. QED BY <1>3, <1>5, <1>6

\* A key runs out, or an instance restarts.
LEMMA LossType ==
  ASSUME TypeInv,
         (\E k \in Key : Expire(k)) \/ \E dead \in SUBSET InFlight : Restart(dead)
  PROVE  TypeInv' /\ Grows
  <1>1. /\ losses < MaxLosses /\ losses' = losses + 1 /\ keys' \subseteq keys
        /\ UNCHANGED <<sessions, started, known, ended, logouts, raced>>
    BY DEF Expire, Restart, history
  <1>2. Grows
    BY <1>1 DEF Grows
  <1>3. losses' \in 0..MaxLosses
    BY <1>1, ConstantsAssumption DEF TypeInv, Stored
  <1>4. PICK dead \in SUBSET InFlight :
           /\ pc' = [r \in Rid |-> IF r \in dead THEN "done" ELSE pc[r]]
           /\ call' = [r \in Rid |-> IF r \in dead THEN Nil ELSE call[r]]
    <2>1. ASSUME NEW k \in Key, Expire(k)
          PROVE  /\ pc' = [r \in Rid |-> IF r \in {} THEN "done" ELSE pc[r]]
                 /\ call' = [r \in Rid |-> IF r \in {} THEN Nil ELSE call[r]]
      BY <2>1 DEF Expire, TypeInv, Frames
    <2>2. CASE \E k \in Key : Expire(k)
      <3>1. {} \in SUBSET InFlight
        OBVIOUS
      <3>2. QED BY <2>1, <2>2, <3>1
    <2>3. CASE \E dead \in SUBSET InFlight : Restart(dead)
      BY <2>3 DEF Restart
    <2>4. QED BY <2>2, <2>3
  <1>5. \A r \in dead : r \in Rid /\ pc[r] \notin Idle
    BY DEF InFlight, Idle
  <1>6. ASSUME NEW r \in Rid
        PROVE  FrameOK(r, pc[r], call[r])'
    <2>1. PICK l, c : l = pc'[r] /\ c = call'[r]
      OBVIOUS
    <2>2. CASE r \in dead
      BY <1>4, <2>2 DEF FrameOK, Idle
    <2>3. CASE r \notin dead
      <3>1. l = pc[r] /\ c = call[r]
        BY <1>4, <2>1, <2>3
      <3>2. FrameOK(r, l, c)
        BY <3>1 DEF TypeInv, Frames
      <3>3. FrameOK(r, l, c)'
        BY <1>2, <3>2, FrameKept
      <3>4. QED BY <2>1, <3>3
    <2>4. QED BY <2>2, <2>3
  <1>7. \A r \in Rid : r > started' => pc'[r] = "idle"
    BY <1>1, <1>4, <1>5 DEF TypeInv, Frames, Idle
  <1>8. pc' \in [Rid -> Pc] /\ call' \in [Rid -> Call \cup {Nil}]
    BY <1>4 DEF TypeInv, Frames, Pc
  <1>9. Frames'
    BY <1>6, <1>7, <1>8 DEF Frames
  <1>10. \A s \in known' : sessions'[s] \in UserSession /\ pc'[s] = "done"
    BY <1>1, <1>4 DEF TypeInv, Stored
  <1>11. \A s \in Rid : pc'[s] \in {"idle", "createSession"} => sessions'[s] = Nil
    BY <1>1, <1>4 DEF TypeInv, Stored
  <1>12. Stored'
    BY <1>1, <1>3, <1>10, <1>11 DEF TypeInv, Stored
  <1>13. QED BY <1>2, <1>9, <1>12 DEF TypeInv

\* Every step keeps the types, and all that grows.
LEMMA NextType == TypeInv /\ [Next]_vars => TypeInv' /\ Grows
  <1> SUFFICES ASSUME TypeInv, [Next]_vars PROVE TypeInv' /\ Grows
    OBVIOUS
  <1>1. CASE Arrive
    BY <1>1, ArriveType
  <1>2. CASE Step
    BY <1>2, CreateSessionType, SetKeyType, GuardType, RefreshType, EndingType DEF Step
  <1>3. CASE (\E k \in Key : Expire(k)) \/ \E dead \in SUBSET InFlight : Restart(dead)
    BY <1>3, LossType
  <1>4. CASE UNCHANGED vars
    <2>1. UNCHANGED <<sessions, keys, started, losses, pc, call, known, ended, logouts, raced>>
      BY <1>4 DEF vars, store, bounds, history
    <2>2. Grows
      BY <2>1 DEF Grows
    <2>3. Stored'
      BY <2>1 DEF TypeInv, Stored
    <2>4. Frames'
      BY <2>1 DEF TypeInv, Frames, FrameOK, Owner, Targets, KeysOf
    <2>5. QED BY <2>2, <2>3, <2>4 DEF TypeInv
  <1>5. QED BY <1>1, <1>2, <1>3, <1>4 DEF Next

\* The invariant types every variable as the specification declares it.
LEMMA TypeInvOK == TypeInv => TypeOK
  BY DEF TypeInv, Stored, Frames, TypeOK, Logouts

\* Sessions, keys and frames are typed in every state of AuthSession.
THEOREM SessionTypeCorrect == Spec => []TypeOK
  <1>1. Init => TypeInv
    BY InitType
  <1>2. TypeInv /\ [Next]_vars => TypeInv'
    BY NextType
  <1>3. TypeInv => TypeOK
    BY TypeInvOK
  <1>4. QED BY <1>1, <1>2, <1>3, PTL DEF Spec
-----------------------------------------------------------------------------
(* LogoutIsFinal.                                                          *)

\* Finality holds of the empty store.
LEMMA InitFinality == Init => Finality
  BY DEF Init, Finality, InFlight

\* Request q is over, or is about what it was before and has done no more than
\* find its keys deleted.
Goes(q) ==
    \/ pc'[q] \in Idle
    \/ /\ pc[q] \notin Idle
       /\ call'[q].op = call[q].op /\ call'[q].ssid = call[q].ssid
       /\ call'[q].ends = call[q].ends /\ call'[q].ended = call[q].ended
       /\ pc'[q] \in {"findSession", "putAccess"} =>
             pc[q] \in {"findSession", "putAccess"}
       /\ pc'[q] = "ending" /\ ~call'[q].failed =>
             /\ pc[q] = "ending" /\ ~call[q].failed
             /\ keys' \cap call[q].todo \subseteq call'[q].todo

\* Steps that set no key and answer no logout.
LEMMA FinalityGoes ==
  ASSUME TypeInv, Finality, keys' \subseteq keys, UNCHANGED <<ended, raced>>,
         \A q \in Rid : Goes(q)
  PROVE  Finality'
  <1>1. \A s \in ended' \ raced' : KeysOf(s) \cap keys' = {}
    BY DEF Finality
  <1>2. \A s \in ended' \ raced', r \in Rid :
           pc'[r] \in {"findSession", "putAccess"} => call'[r].ssid # s
    BY DEF Finality, Goes, Idle
  <1>3. ASSUME NEW q \in Rid, pc'[q] = "ending", ~call'[q].failed,
               NEW s \in call'[q].ends \ raced'
        PROVE  KeysOf(s) \cap keys' \subseteq call'[q].todo
    <2>1. /\ pc[q] = "ending" /\ ~call[q].failed /\ s \in call[q].ends \ raced
          /\ keys' \cap call[q].todo \subseteq call'[q].todo
      BY <1>3 DEF Goes, Idle
    <2>2. KeysOf(s) \cap keys \subseteq call[q].todo
      BY <2>1 DEF Finality
    <2>3. QED BY <2>1, <2>2
  <1>4. InFlight' \subseteq InFlight
    BY DEF InFlight, Goes, Idle
  <1>5. ASSUME NEW q \in InFlight', NEW r \in InFlight', NEW s \in Rid,
               Opens(call'[r], s) /\ Ends(call'[q], s)
        PROVE  s \in raced'
    <2>1. q \in InFlight /\ r \in InFlight
      BY <1>4
    <2>2. Opens(call[r], s) /\ Ends(call[q], s)
      BY <1>5 DEF Goes, Opens, Ends, InFlight, Idle
    <2>3. QED BY <2>1, <2>2 DEF Finality
  <1>6. \A r \in InFlight' : call'[r].ended => call'[r].ssid \in ended'
    BY <1>4 DEF Finality, Goes, InFlight, Idle
  <1>7. QED BY <1>1, <1>2, <1>3, <1>5, <1>6 DEF Finality

\* A request that answers without more, and the others.
LEMMA FinishGoes ==
  ASSUME TypeInv, NEW r \in Rid, Finish(r)
  PROVE  \A q \in Rid : Goes(q)
  BY DEF Finish, Goto, Goes, Idle, TypeInv, Frames

\* Arriving requests are entered into raced.
LEMMA EnterFinality ==
  ASSUME TypeInv, Finality, NEW r \in Rid, NEW o, NEW u, NEW s \in Rid, NEW ends,
         NEW l \in {"createSession", "guard"},
         Enter(r, o, u, s, ends, l)
  PROVE  Finality'
  <1>1. PICK c : c = NewCall(o, u, s, ends)
    OBVIOUS
  <1>2. c.ssid = s /\ c.ends = ends /\ c.op = o /\ (c.ended <=> s \in ended)
    BY <1>1 DEF NewCall
  <1>3. /\ pc' = [pc EXCEPT ![r] = l] /\ call' = [call EXCEPT ![r] = c]
        /\ UNCHANGED <<keys, ended>> /\ raced \subseteq raced'
        /\ \A x \in Rid, q \in InFlight :
              /\ Opens(call[q], x) /\ Ends(c, x) => x \in raced'
              /\ Ends(call[q], x) /\ Opens(c, x) => x \in raced'
    BY <1>1 DEF Enter, Goto, store
  <1>4. /\ pc'[r] = l /\ call'[r] = c
        /\ \A q \in Rid \ {r} : pc'[q] = pc[q] /\ call'[q] = call[q]
    BY <1>3 DEF TypeInv, Frames
  <1>5. \A x \in ended' \ raced' : KeysOf(x) \cap keys' = {}
    BY <1>3 DEF Finality
  <1>6. \A x \in ended' \ raced', q \in Rid :
           pc'[q] \in {"findSession", "putAccess"} => call'[q].ssid # x
    BY <1>3, <1>4 DEF Finality
  <1>7. \A q \in Rid : pc'[q] = "ending" /\ ~call'[q].failed =>
           \A x \in call'[q].ends \ raced' : KeysOf(x) \cap keys' \subseteq call'[q].todo
    BY <1>3, <1>4 DEF Finality
  <1>8. \A q \in InFlight' : q # r => q \in InFlight /\ call'[q] = call[q]
    BY <1>4 DEF InFlight
  <1>9. \A x \in Rid : ~(Opens(c, x) /\ Ends(c, x))
    BY DEF Opens, Ends
  <1>10. ASSUME NEW p \in InFlight', NEW q \in InFlight', NEW x \in Rid,
                Opens(call'[q], x) /\ Ends(call'[p], x)
         PROVE  x \in raced'
    <2>1. CASE p # r /\ q # r
      BY <1>3, <1>8, <1>10, <2>1 DEF Finality
    <2>2. CASE p = r /\ q # r
      BY <1>3, <1>4, <1>8, <1>10, <2>2
    <2>3. CASE p # r /\ q = r
      BY <1>3, <1>4, <1>8, <1>10, <2>3
    <2>4. p # r \/ q # r
      BY <1>4, <1>9, <1>10
    <2>5. QED BY <2>1, <2>2, <2>3, <2>4
  <1>11. \A q \in InFlight' : call'[q].ended => call'[q].ssid \in ended'
    BY <1>2, <1>3, <1>4, <1>8 DEF Finality
  <1>12. QED BY <1>5, <1>6, <1>7, <1>10, <1>11 DEF Finality

\* A login sets the keys of a session that nobody ends yet.
LEMMA SetKeyFinality ==
  ASSUME TypeInv, Finality, NEW r \in Rid, NEW k \in KeysOf(r), NEW ok \in BOOLEAN,
         SetKey(r, k, ok)
  PROVE  Finality'
  <1>1. pc[r] \notin Idle /\ pc[r] = "setKeys"
    BY DEF SetKey, Idle
  <1>2. r \notin known /\ k[2] = r
    BY <1>1, Served DEF KeysOf
  <1>3. /\ UNCHANGED <<ended, raced>> /\ keys' \subseteq keys \cup {k}
        /\ \/ Finish(r)
           \/ /\ UNCHANGED pc
              /\ call' = [call EXCEPT ![r] =
                    WithLocals(@, FALSE, @.todo \ {k}, @.failed \/ ~ok)]
    BY DEF SetKey
  <1>4. /\ \A q \in Rid \ {r} : pc'[q] = pc[q] /\ call'[q] = call[q]
        /\ pc'[r] \in {"done", "setKeys"}
        /\ pc'[r] = "setKeys" => /\ call'[r].op = call[r].op
                                 /\ call'[r].ssid = call[r].ssid
                                 /\ call'[r].ends = call[r].ends
                                 /\ call'[r].ended = call[r].ended
    BY <1>1, <1>3 DEF Finish, Goto, WithLocals, TypeInv, Frames
  <1>5. \A s \in known : KeysOf(s) \cap keys' \subseteq KeysOf(s) \cap keys
    BY <1>2, <1>3 DEF KeysOf
  <1>6. ended \subseteq known
    BY DEF TypeInv, Stored
  <1>7. \A s \in ended' \ raced' : KeysOf(s) \cap keys' = {}
    BY <1>3, <1>5, <1>6 DEF Finality
  <1>8. \A s \in ended' \ raced', q \in Rid :
           pc'[q] \in {"findSession", "putAccess"} => call'[q].ssid # s
    BY <1>3, <1>4 DEF Finality
  <1>9. ASSUME NEW q \in Rid, pc'[q] = "ending", ~call'[q].failed,
               NEW s \in call'[q].ends \ raced'
        PROVE  KeysOf(s) \cap keys' \subseteq call'[q].todo
    <2>1. pc[q] = "ending" /\ pc[q] \notin Idle /\ call'[q] = call[q]
      BY <1>4, <1>9 DEF Idle
    <2>2. call[q].ends \subseteq known
      BY <2>1, Served DEF Targets
    <2>3. QED BY <1>3, <1>5, <1>9, <2>1, <2>2 DEF Finality
  <1>10. InFlight' \subseteq InFlight
    BY <1>1, <1>4 DEF InFlight, Idle
  <1>11. \A q \in InFlight' : /\ call'[q].op = call[q].op
                              /\ call'[q].ssid = call[q].ssid
                              /\ call'[q].ends = call[q].ends
                              /\ call'[q].ended = call[q].ended
    BY <1>4 DEF InFlight
  <1>12. \A p, q \in InFlight', s \in Rid :
            Opens(call'[q], s) /\ Ends(call'[p], s) => s \in raced'
    BY <1>3, <1>10, <1>11 DEF Finality, Opens, Ends
  <1>13. \A q \in InFlight' : call'[q].ended => call'[q].ssid \in ended'
    BY <1>3, <1>10, <1>11 DEF Finality
  <1>14. QED BY <1>7, <1>8, <1>9, <1>12, <1>13 DEF Finality

\* A step of r that leaves the keys and all that the frame is about alone.
LEMMA MoveFinality ==
  ASSUME TypeInv, Finality, NEW r \in Rid, pc[r] \notin Idle,
         NEW l \in {"findSession", "ending"}, NEW c,
         pc' = [pc EXCEPT ![r] = l], call' = [call EXCEPT ![r] = c],
         UNCHANGED <<keys, ended, raced>>,
         c.op = call[r].op, c.ssid = call[r].ssid, c.ends = call[r].ends,
         c.ended = call[r].ended,
         l = "findSession" => c.ssid \notin ended \ raced,
         l = "ending" => \A s \in c.ends : KeysOf(s) \subseteq c.todo
  PROVE  Finality'
  <1>1. /\ pc'[r] = l /\ call'[r] = c
        /\ \A q \in Rid \ {r} : pc'[q] = pc[q] /\ call'[q] = call[q]
    BY DEF TypeInv, Frames
  <1>2. \A s \in ended' \ raced' : KeysOf(s) \cap keys' = {}
    BY DEF Finality
  <1>3. \A s \in ended' \ raced', q \in Rid :
           pc'[q] \in {"findSession", "putAccess"} => call'[q].ssid # s
    BY <1>1 DEF Finality
  <1>4. \A q \in Rid : pc'[q] = "ending" /\ ~call'[q].failed =>
           \A s \in call'[q].ends \ raced' : KeysOf(s) \cap keys' \subseteq call'[q].todo
    BY <1>1 DEF Finality
  <1>5. InFlight' \subseteq InFlight
    BY <1>1 DEF InFlight, Idle
  <1>6. \A q \in InFlight' : /\ call'[q].op = call[q].op
                             /\ call'[q].ssid = call[q].ssid
                             /\ call'[q].ends = call[q].ends
                             /\ call'[q].ended = call[q].ended
    BY <1>1 DEF InFlight
  <1>7. \A p, q \in InFlight', s \in Rid :
           Opens(call'[q], s) /\ Ends(call'[p], s) => s \in raced'
    BY <1>5, <1>6 DEF Finality, Opens, Ends
  <1>8. \A q \in InFlight' : call'[q].ended => call'[q].ssid \in ended'
    BY <1>5, <1>6 DEF Finality
  <1>9. QED BY <1>2, <1>3, <1>4, <1>7, <1>8 DEF Finality

\* No refresh of an ended session passes its guard; a logout that does has all
\* its keys to delete.
LEMMA GuardFinality ==
  ASSUME TypeInv, Finality, NEW r \in Rid, GuardPasses(r)
  PROVE  Finality'
  <1>1. /\ pc[r] \notin Idle /\ pc[r] = "guard" /\ LetThrough(call[r])
        /\ UNCHANGED <<keys, ended, raced>>
    BY DEF GuardPasses, Idle, store, history
  <1>2. call[r] \in Call /\ Targets(call[r]) /\ call[r].ssid \in known
    BY <1>1, Served DEF Owner
  <1>3. CASE call[r].op = "use"
    BY <1>1, <1>3, FinishGoes, FinalityGoes DEF GuardPasses
  <1>4. CASE call[r].op = "refresh"
    <2>1. PICK c : c = call[r]
      OBVIOUS
    <2>2. pc' = [pc EXCEPT ![r] = "findSession"] /\ call' = [call EXCEPT ![r] = c]
      BY <1>4, <2>1 DEF GuardPasses, Goto, TypeInv, Frames
    <2>3. <<"refresh", c.ssid>> \in keys /\ <<"refresh", c.ssid>> \in KeysOf(c.ssid)
      BY <1>1, <1>2, <1>4, <2>1 DEF LetThrough, KeysOf, Key, TypeInv, Stored
    <2>4. c.ssid \notin ended \ raced
      BY <2>3 DEF Finality
    <2>5. QED BY <1>1, <2>1, <2>2, <2>4, MoveFinality
  <1>5. CASE call[r].op \in Logouts
    <2>1. PICK c : c = WithLocals(call[r], TRUE, Doomed(call[r]), FALSE)
      OBVIOUS
    <2>2. pc' = [pc EXCEPT ![r] = "ending"] /\ call' = [call EXCEPT ![r] = c]
      BY <1>5, <2>1 DEF GuardPasses, Goto, Logouts
    <2>3. /\ c.op = call[r].op /\ c.ssid = call[r].ssid /\ c.ends = call[r].ends
          /\ c.ended = call[r].ended /\ c.todo = Doomed(call[r])
      BY <2>1 DEF WithLocals
    <2>4. ASSUME NEW s \in c.ends
          PROVE  KeysOf(s) \subseteq Doomed(call[r])
      <3>1. /\ s \in known /\ sessions[s] \in UserSession
            /\ sessions[s].user = call[r].user
            /\ call[r].op = "logout" => s = call[r].ssid
        BY <1>2, <2>3, <2>4 DEF Targets, TypeInv, Stored
      <3>2. QED BY <3>1, NilAssumption DEF Doomed, KeysOf
    <2>5. QED BY <1>1, <2>2, <2>3, <2>4, MoveFinality
  <1>6. QED BY <1>3, <1>4, <1>5 DEF GuardPasses, Logouts
\* A refresh sets the access key of its session, which nobody ends meanwhile
\* without racing with it.
LEMMA PutAccessFinality ==
  ASSUME TypeInv, Finality, NEW r \in Rid, PutAccess(r)
  PROVE  Finality'
  <1>1. pc[r] \notin Idle /\ pc[r] = "putAccess" /\ r \in InFlight
    BY DEF PutAccess, Idle, InFlight
  <1>2. PICK s0 : s0 = call[r].ssid
    OBVIOUS
  <1>3. s0 \in Rid /\ Opens(call[r], s0)
    BY <1>1, <1>2, Served DEF Owner, Call, Opens
  <1>4. /\ UNCHANGED <<ended, raced>> /\ keys' = keys \cup {<<"access", s0>>}
        /\ pc' = [pc EXCEPT ![r] = "done"] /\ call' = [call EXCEPT ![r] = Nil]
    BY <1>2 DEF PutAccess, Finish, Goto, history
  <1>5. /\ pc'[r] = "done"
        /\ \A q \in Rid \ {r} : pc'[q] = pc[q] /\ call'[q] = call[q]
    BY <1>4 DEF TypeInv, Frames
  <1>6. s0 \notin ended \ raced
    BY <1>1, <1>2 DEF Finality
  <1>7. \A s \in Rid \ {s0} : KeysOf(s) \cap keys' = KeysOf(s) \cap keys
    BY <1>4 DEF KeysOf
  <1>8. ended \subseteq Rid
    BY DEF TypeInv, Stored
  <1>9. \A s \in ended' \ raced' : KeysOf(s) \cap keys' = {}
    BY <1>4, <1>6, <1>7, <1>8 DEF Finality
  <1>10. \A s \in ended' \ raced', q \in Rid :
            pc'[q] \in {"findSession", "putAccess"} => call'[q].ssid # s
    BY <1>4, <1>5 DEF Finality
  <1>11. ASSUME NEW q \in Rid, pc'[q] = "ending", ~call'[q].failed,
                NEW s \in call'[q].ends \ raced'
         PROVE  KeysOf(s) \cap keys' \subseteq call'[q].todo
    <2>1. /\ q # r /\ pc[q] = "ending" /\ pc[q] \notin Idle /\ call'[q] = call[q]
          /\ q \in InFlight
      BY <1>5, <1>11 DEF Idle, InFlight
    <2>2. call[q].ends \subseteq known /\ call[q].op \in Logouts /\ s \in Rid
      BY <1>11, <2>1, Served DEF Targets, Owner, TypeInv, Stored
    <2>3. Ends(call[q], s)
      BY <1>11, <2>1, <2>2 DEF Ends, Logouts
    <2>4. s # s0
      BY <1>1, <1>3, <1>4, <1>11, <2>1, <2>3 DEF Finality
    <2>5. QED BY <1>4, <1>7, <1>11, <2>1, <2>2, <2>4 DEF Finality
  <1>12. \A q \in InFlight' : q \in InFlight /\ call'[q] = call[q]
    BY <1>5 DEF InFlight
  <1>13. \A p, q \in InFlight', s \in Rid :
            Opens(call'[q], s) /\ Ends(call'[p], s) => s \in raced'
    BY <1>4, <1>12 DEF Finality
  <1>14. \A q \in InFlight' : call'[q].ended => call'[q].ssid \in ended'
    BY <1>4, <1>12 DEF Finality
  <1>15. QED BY <1>9, <1>10, <1>11, <1>13, <1>14 DEF Finality

\* A logout goes on, or is answered after all of its keys were deleted.
LEMMA SettleFinality ==
  ASSUME TypeInv, Finality, NEW r \in Rid, pc[r] = "ending",
         NEW db, NEW todo, NEW failed,
         Settle(r, WithLocals(call[r], db, todo, failed)),
         keys' \subseteq keys, UNCHANGED raced,
         ~failed => ~call[r].failed /\ keys' \cap call[r].todo \subseteq todo
  PROVE  Finality'
  <1>1. pc[r] \notin Idle /\ r \in InFlight
    BY DEF Idle, InFlight
  <1>2. PICK c : c = WithLocals(call[r], db, todo, failed)
    OBVIOUS
  <1>3. /\ c.db = db /\ c.todo = todo /\ c.failed = failed
        /\ c.op = call[r].op /\ c.ssid = call[r].ssid
        /\ c.ends = call[r].ends /\ c.ended = call[r].ended
    BY <1>2 DEF WithLocals
  <1>4. CASE db \/ todo # {}
    <2>1. call' = [call EXCEPT ![r] = c] /\ UNCHANGED <<pc, ended>>
      BY <1>2, <1>3, <1>4 DEF Settle
    <2>2. pc'[r] = "ending" /\ call'[r] = c
      BY <2>1 DEF TypeInv, Frames
    <2>3. \A q \in Rid \ {r} : Goes(q)
      BY <2>1 DEF Goes, TypeInv, Frames
    <2>4. Goes(r)
      BY <1>1, <1>3, <2>1, <2>2 DEF Goes
    <2>5. QED BY <2>1, <2>3, <2>4, FinalityGoes
  <1>5. CASE ~(db \/ todo # {}) /\ failed
    <2>1. Finish(r) /\ UNCHANGED ended
      BY <1>2, <1>3, <1>5 DEF Settle
    <2>2. QED BY <2>1, FinishGoes, FinalityGoes
  <1>6. CASE ~(db \/ todo # {}) /\ ~failed
    <2>1. Finish(r) /\ ended' = ended \cup call[r].ends
      BY <1>2, <1>3, <1>6 DEF Settle
    <2>2. /\ pc'[r] = "done"
          /\ \A q \in Rid \ {r} : pc'[q] = pc[q] /\ call'[q] = call[q]
      BY <2>1 DEF Finish, Goto, TypeInv, Frames
    <2>3. call[r].op \in Logouts /\ call[r].ends \subseteq Rid
      BY <1>1, Served DEF Owner, Targets, TypeInv, Stored
    <2>4. ASSUME NEW s \in ended' \ raced'
          PROVE  KeysOf(s) \cap keys' = {}
      <3>1. CASE s \in ended
        BY <2>4, <3>1 DEF Finality
      <3>2. CASE s \in call[r].ends
        <4>1. KeysOf(s) \cap keys \subseteq call[r].todo
          BY <1>6, <2>4, <3>2 DEF Finality
        <4>2. QED BY <1>6, <4>1
      <3>3. QED BY <2>1, <2>4, <3>1, <3>2
    <2>5. ASSUME NEW s \in ended' \ raced', NEW q \in Rid,
                 pc'[q] \in {"findSession", "putAccess"}
          PROVE  call'[q].ssid # s
      <3>1. q # r /\ pc[q] \in {"findSession", "putAccess"} /\ call'[q] = call[q]
        BY <2>2, <2>5
      <3>2. CASE s \in ended
        BY <2>5, <3>1, <3>2 DEF Finality
      <3>3. CASE s \in call[r].ends /\ call[q].ssid = s
        <4>1. pc[q] \notin Idle /\ q \in InFlight
          BY <3>1 DEF Idle, InFlight
        <4>2. Opens(call[q], s)
          BY <3>1, <3>3, <4>1, Served DEF Owner, Opens
        <4>3. Ends(call[r], s) /\ s \in Rid
          BY <2>3, <3>3 DEF Ends, Logouts
        <4>4. s \in raced
          BY <1>1, <4>1, <4>2, <4>3 DEF Finality
        <4>5. QED BY <2>5, <4>4
      <3>4. QED BY <2>1, <2>5, <3>1, <3>2, <3>3
    <2>6. \A q \in Rid : pc'[q] = "ending" /\ ~call'[q].failed =>
             \A s \in call'[q].ends \ raced' : KeysOf(s) \cap keys' \subseteq call'[q].todo
      BY <2>2 DEF Finality
    <2>7. \A q \in InFlight' : q \in InFlight /\ call'[q] = call[q]
      BY <2>2 DEF InFlight
    <2>8. \A p, q \in InFlight', s \in Rid :
             Opens(call'[q], s) /\ Ends(call'[p], s) => s \in raced'
      BY <2>7 DEF Finality
    <2>9. \A q \in InFlight' : call'[q].ended => call'[q].ssid \in ended'
      BY <2>1, <2>7 DEF Finality
    <2>10. QED BY <2>4, <2>5, <2>6, <2>8, <2>9 DEF Finality
  <1>7. QED BY <1>4, <1>5, <1>6

\* Every step of a request keeps Finality.
LEMMA StepFinality ==
  ASSUME TypeInv, Finality, NEW r \in Rid,
         \/ CreateSession(r)
         \/ \E k \in KeysOf(r), ok \in BOOLEAN : SetKey(r, k, ok)
         \/ GuardRefuses(r)
         \/ GuardPasses(r)
         \/ FindSession(r)
         \/ PutAccess(r)
         \/ RevokeRows(r)
         \/ \E k \in Key : Sweep(r, k)
         \/ QueryFails(r)
         \/ SideFails(r)
  PROVE  Finality'
  <1>1. CASE CreateSession(r)
    <2>1. PICK c : c = WithLocals(call[r], FALSE, KeysOf(r), FALSE)
      OBVIOUS
    <2>2. /\ pc' = [pc EXCEPT ![r] = "setKeys"] /\ call' = [call EXCEPT ![r] = c]
          /\ pc[r] \notin Idle /\ UNCHANGED <<keys, ended, raced>>
      BY <1>1, <2>1 DEF CreateSession, Goto, history, Idle
    <2>3. /\ pc'[r] = "setKeys" /\ call'[r] = c
          /\ \A q \in Rid \ {r} : Goes(q)
      BY <2>2 DEF Goes, Idle, TypeInv, Frames
    <2>4. Goes(r)
      BY <2>1, <2>2, <2>3 DEF Goes, WithLocals
    <2>5. QED BY <2>2, <2>3, <2>4, FinalityGoes
  <1>2. ASSUME NEW k \in KeysOf(r), NEW ok \in BOOLEAN, SetKey(r, k, ok)
        PROVE  Finality'
    BY <1>2, SetKeyFinality
  <1>3. CASE Finish(r) /\ (GuardRefuses(r) \/ FindSession(r) \/ QueryFails(r))
    <2>1. UNCHANGED <<keys, ended, raced>>
      BY <1>3 DEF GuardRefuses, FindSession, QueryFails, store, history
    <2>2. QED BY <1>3, <2>1, FinishGoes, FinalityGoes
  <1>4. CASE GuardPasses(r)
    BY <1>4, GuardFinality
  <1>5. CASE FindSession(r) /\ ~Finish(r)
    <2>1. PICK c : c = call[r]
      OBVIOUS
    <2>2. /\ pc' = [pc EXCEPT ![r] = "putAccess"] /\ call' = [call EXCEPT ![r] = c]
          /\ pc[r] = "findSession" /\ UNCHANGED <<keys, ended, raced>>
      BY <1>5, <2>1 DEF FindSession, Goto, store, history, TypeInv, Frames
    <2>3. /\ pc'[r] = "putAccess" /\ call'[r] = c
          /\ \A q \in Rid \ {r} : Goes(q)
      BY <2>2 DEF Goes, Idle, TypeInv, Frames
    <2>4. Goes(r)
      BY <2>1, <2>2, <2>3 DEF Goes, Idle
    <2>5. QED BY <2>2, <2>3, <2>4, FinalityGoes
  <1>6. CASE PutAccess(r)
    BY <1>6, PutAccessFinality
  <1>7. CASE RevokeRows(r)
    <2>1. /\ pc[r] = "ending" /\ UNCHANGED <<keys, raced>>
          /\ Settle(r, WithLocals(call[r], FALSE, call[r].todo, call[r].failed))
      BY <1>7 DEF RevokeRows
    <2>2. QED BY <2>1, SettleFinality
  <1>8. ASSUME NEW k \in Key, Sweep(r, k)
        PROVE  Finality'
    <2>1. /\ pc[r] = "ending" /\ keys' = keys \ {k} /\ UNCHANGED raced
          /\ Settle(r, WithLocals(call[r], call[r].db, call[r].todo \ {k}, call[r].failed))
      BY <1>8 DEF Sweep
    <2>2. QED BY <2>1, SettleFinality
  <1>9. CASE SideFails(r)
    <2>1. /\ pc[r] = "ending" /\ UNCHANGED <<keys, raced>>
          /\ \/ Settle(r, WithLocals(call[r], FALSE, call[r].todo, TRUE))
             \/ Settle(r, WithLocals(call[r], call[r].db, {}, TRUE))
      BY <1>9 DEF SideFails, store
    <2>2. QED BY <2>1, SettleFinality
  <1>10. QED
    BY <1>1, <1>2, <1>3, <1>4, <1>5, <1>6, <1>7, <1>8, <1>9
       DEF GuardRefuses, QueryFails

\* Every step keeps Finality.
LEMMA NextFinality == TypeInv /\ Finality /\ [Next]_vars => Finality'
  <1> SUFFICES ASSUME TypeInv, Finality, [Next]_vars PROVE Finality'
    OBVIOUS
  <1>1. CASE Arrive
    <2>1. PICK r \in Rid :
             \/ \E u \in User : Login(r, u)
             \/ \E s \in known : \/ UseToken(r, s) \/ RefreshToken(r, s)
                                 \/ Logout(r, s) \/ LogoutAll(r, s)
      BY <1>1 DEF Arrive
    <2>2. known \subseteq Rid
      BY DEF TypeInv, Stored
    <2>3. ASSUME NEW u \in User, Login(r, u)
          PROVE  Finality'
      BY <2>3, EnterFinality DEF Login
    <2>4. ASSUME NEW s \in known,
                 UseToken(r, s) \/ RefreshToken(r, s) \/ Logout(r, s) \/ LogoutAll(r, s)
          PROVE  Finality'
      <3>1. PICK o, u, ends : Enter(r, o, u, s, ends, "guard")
        BY <2>4 DEF UseToken, RefreshToken, Logout, LogoutAll
      <3>2. QED BY <2>2, <2>4, <3>1, EnterFinality
    <2>5. QED BY <2>1, <2>3, <2>4
  <1>2. CASE Step
    BY <1>2, StepFinality DEF Step
  <1>3. CASE \E k \in Key : Expire(k)
    <2>1. keys' \subseteq keys /\ UNCHANGED <<pc, call, ended, raced>>
      BY <1>3 DEF Expire, history
    <2>2. \A q \in Rid : Goes(q)
      BY <2>1 DEF Goes
    <2>3. QED BY <2>1, <2>2, FinalityGoes
  <1>4. CASE \E dead \in SUBSET InFlight : Restart(dead)
    <2>1. PICK dead \in SUBSET InFlight : Restart(dead)
      BY <1>4
    <2>2. keys' \subseteq keys /\ UNCHANGED <<ended, raced>>
      BY <2>1 DEF Restart, history
    <2>3. \A q \in Rid : Goes(q)
      BY <2>1 DEF Goes, Restart, Idle
    <2>4. QED BY <2>2, <2>3, FinalityGoes
  <1>5. CASE UNCHANGED vars
    <2>1. UNCHANGED <<keys, pc, call, ended, raced>>
      BY <1>5 DEF vars, store, history
    <2>2. \A q \in Rid : Goes(q)
      BY <2>1 DEF Goes
    <2>3. QED BY <2>1, <2>2, FinalityGoes
  <1>6. QED BY <1>1, <1>2, <1>3, <1>4, <1>5 DEF Next

\* An answered logout is final: a later request with a token of the session it
\* ended finds no key, unless a refresh of the session overlapped with it.
THEOREM SessionLogoutIsFinal == Spec => []LogoutIsFinal
  <1>1. Init => TypeInv /\ Finality
    BY InitType, InitFinality
  <1>2. TypeInv /\ Finality /\ [Next]_vars => (TypeInv /\ Finality)'
    BY NextType, NextFinality
  <1>3. TypeInv /\ Finality => LogoutIsFinal
    <2> SUFFICES ASSUME TypeInv, Finality, NEW r \in Rid, pc[r] = "guard",
                        call[r].op # "refresh", call[r].ended, LetThrough(call[r])
                 PROVE  call[r].ssid \in raced
      BY DEF LogoutIsFinal
    <2>1. pc[r] \notin Idle /\ r \in InFlight
      BY DEF Idle, InFlight
    <2>2. call[r].ssid \in known /\ known \subseteq Rid
      BY <2>1, Served DEF Owner, TypeInv, Stored
    <2>3. <<"access", call[r].ssid>> \in keys \cap KeysOf(call[r].ssid)
      BY <2>2 DEF LetThrough, KeysOf, Key
    <2>4. call[r].ssid \in ended
      BY <2>1 DEF Finality
    <2>5. QED BY <2>3, <2>4 DEF Finality
  <1>4. QED BY <1>1, <1>2, <1>3, PTL DEF Spec
-----------------------------------------------------------------------------
(* RevokedNotRefreshed.                                                    *)

\* Request q is over, or is about what it was before, and was at the SET
\* already unless it found its row not revoked.
Follows(q) ==
    \/ pc'[q] \in Idle
    \/ /\ pc[q] \notin Idle
       /\ call'[q].op = call[q].op /\ call'[q].ssid = call[q].ssid
       /\ call'[q].revoked = call[q].revoked
       /\ pc'[q] = "putAccess" =>
             pc[q] = "putAccess" \/ call[q].ssid \notin Revoked

\* Rows are not taken back from being revoked.
LEMMA RevokedGrows ==
  ASSUME TypeInv, Grows
  PROVE  Revoked \subseteq Revoked'
  BY NilAssumption DEF Revoked, Grows, TypeInv, Stored

\* Steps that bring nobody to the SET but by a row that is not revoked.
LEMMA RevocationFollows ==
  ASSUME TypeInv, Revocation, Grows, \A q \in Rid : Follows(q)
  PROVE  Revocation'
  <1>1. Revoked \subseteq Revoked'
    BY RevokedGrows
  <1>2. SUFFICES ASSUME NEW r \in InFlight', call'[r].op = "refresh", call'[r].revoked
                 PROVE  call'[r].ssid \in Revoked' /\ pc'[r] # "putAccess"
    BY DEF Revocation
  <1>3. r \in Rid /\ pc'[r] \notin Idle
    BY DEF InFlight, Idle
  <1>4. /\ r \in InFlight /\ call[r].op = "refresh" /\ call[r].revoked
        /\ call'[r].ssid = call[r].ssid
        /\ pc'[r] = "putAccess" =>
             pc[r] = "putAccess" \/ call[r].ssid \notin Revoked
    BY <1>2, <1>3 DEF Follows, InFlight, Idle
  <1>5. QED BY <1>1, <1>4 DEF Revocation

\* An arriving refresh looks at its row.
LEMMA EnterRevocation ==
  ASSUME TypeInv, Revocation, Grows, NEW r \in Rid, NEW o, NEW u, NEW s, NEW ends,
         NEW l \in {"createSession", "guard"},
         Enter(r, o, u, s, ends, l)
  PROVE  Revocation'
  <1>1. PICK c : c = NewCall(o, u, s, ends)
    OBVIOUS
  <1>2. c.ssid = s /\ (c.revoked <=> s \in Revoked)
    BY <1>1 DEF NewCall
  <1>3. /\ pc' = [pc EXCEPT ![r] = l] /\ call' = [call EXCEPT ![r] = c]
    BY <1>1 DEF Enter, Goto
  <1>4. /\ pc'[r] = l /\ call'[r] = c
        /\ \A q \in Rid \ {r} : pc'[q] = pc[q] /\ call'[q] = call[q]
    BY <1>3 DEF TypeInv, Frames
  <1>5. Revoked \subseteq Revoked'
    BY RevokedGrows
  <1>6. ASSUME NEW q \in InFlight', call'[q].op = "refresh", call'[q].revoked
        PROVE  call'[q].ssid \in Revoked' /\ pc'[q] # "putAccess"
    <2>1. CASE q = r
      BY <1>2, <1>4, <1>5, <1>6, <2>1
    <2>2. CASE q # r
      <3>1. q \in InFlight /\ pc'[q] = pc[q] /\ call'[q] = call[q]
        BY <1>4, <2>2 DEF InFlight
      <3>2. QED BY <1>5, <1>6, <3>1 DEF Revocation
    <2>3. QED BY <2>1, <2>2
  <1>7. QED BY <1>6 DEF Revocation

\* Every step of a request keeps Revocation.
LEMMA StepRevocation ==
  ASSUME TypeInv, Revocation, Grows, NEW r \in Rid,
         \/ CreateSession(r)
         \/ \E k \in KeysOf(r), ok \in BOOLEAN : SetKey(r, k, ok)
         \/ GuardRefuses(r)
         \/ GuardPasses(r)
         \/ FindSession(r)
         \/ PutAccess(r)
         \/ RevokeRows(r)
         \/ \E k \in Key : Sweep(r, k)
         \/ QueryFails(r)
         \/ SideFails(r)
  PROVE  Revocation'
  <1>1. pc[r] \notin Idle
    BY DEF CreateSession, SetKey, GuardRefuses, GuardPasses, FindSession, PutAccess,
           RevokeRows, Sweep, QueryFails, SideFails, Idle
  <1>2. ASSUME NEW l \in Pc, NEW c, c.op = call[r].op, c.ssid = call[r].ssid,
               c.revoked = call[r].revoked,
               l = "putAccess" => call[r].ssid \notin Revoked,
               Goto(r, l) \/ (l = pc[r] /\ pc' = pc), call' = [call EXCEPT ![r] = c]
        PROVE  Revocation'
    <2>1. \A q \in Rid : Follows(q)
      BY <1>1, <1>2 DEF Follows, Goto, Idle, TypeInv, Frames
    <2>2. QED BY <2>1, RevocationFollows
  <1>3. CASE Finish(r)
    <2>1. \A q \in Rid : Follows(q)
      BY <1>3 DEF Follows, Finish, Goto, Idle, TypeInv, Frames
    <2>2. QED BY <2>1, RevocationFollows
  <1>4. CASE CreateSession(r)
    <2>1. PICK c : c = WithLocals(call[r], FALSE, KeysOf(r), FALSE)
      OBVIOUS
    <2>2. /\ call' = [call EXCEPT ![r] = c] /\ Goto(r, "setKeys") /\ "setKeys" \in Pc
          /\ c.op = call[r].op /\ c.ssid = call[r].ssid /\ c.revoked = call[r].revoked
      BY <1>4, <2>1 DEF CreateSession, WithLocals, Pc
    <2>3. QED BY <1>2, <2>2
  <1>5. ASSUME NEW db, NEW todo, NEW failed, pc[r] # "putAccess", UNCHANGED pc,
               call' = [call EXCEPT ![r] = WithLocals(call[r], db, todo, failed)]
        PROVE  Revocation'
    <2>1. PICK c : c = WithLocals(call[r], db, todo, failed)
      OBVIOUS
    <2>2. c.op = call[r].op /\ c.ssid = call[r].ssid /\ c.revoked = call[r].revoked
      BY <2>1 DEF WithLocals
    <2>3. \A q \in Rid : Follows(q)
      BY <1>1, <1>5, <2>1, <2>2 DEF Follows, TypeInv, Frames
    <2>4. QED BY <2>3, RevocationFollows
  <1>6. ASSUME NEW k \in KeysOf(r), NEW ok \in BOOLEAN, SetKey(r, k, ok), ~Finish(r)
        PROVE  Revocation'
    <2>1. /\ pc[r] # "putAccess" /\ UNCHANGED pc
          /\ call' = [call EXCEPT ![r] =
                WithLocals(call[r], FALSE, call[r].todo \ {k}, call[r].failed \/ ~ok)]
      BY <1>6 DEF SetKey
    <2>2. QED BY <1>5, <2>1
  <1>7. CASE GuardPasses(r) /\ ~Finish(r)
    <2>1. CASE call[r].op = "refresh"
      <3>1. /\ Goto(r, "findSession") /\ "findSession" \in Pc /\ UNCHANGED call
        BY <1>7, <2>1 DEF GuardPasses, Pc
      <3>2. \A q \in Rid : Follows(q)
        BY <1>1, <3>1 DEF Follows, Goto, TypeInv, Frames
      <3>3. QED BY <3>2, RevocationFollows
    <2>2. CASE call[r].op # "refresh"
      <3>1. PICK c : c = WithLocals(call[r], TRUE, Doomed(call[r]), FALSE)
        OBVIOUS
      <3>2. /\ Goto(r, "ending") /\ "ending" \in Pc /\ call' = [call EXCEPT ![r] = c]
            /\ c.op = call[r].op /\ c.ssid = call[r].ssid /\ c.revoked = call[r].revoked
        BY <1>7, <2>2, <3>1 DEF GuardPasses, Pc, WithLocals
      <3>3. QED BY <1>2, <3>2
    <2>3. QED BY <2>1, <2>2
  <1>8. CASE FindSession(r) /\ ~Finish(r)
    <2>1. /\ Goto(r, "putAccess") /\ UNCHANGED call /\ RowFound(call[r].ssid)
      BY <1>8 DEF FindSession
    <2>2. call[r].ssid \notin Revoked
      BY <2>1 DEF RowFound, Revoked
    <2>3. \A q \in Rid : Follows(q)
      BY <1>1, <2>1, <2>2 DEF Follows, Goto, TypeInv, Frames
    <2>4. QED BY <2>3, RevocationFollows
  <1>9. ASSUME NEW db, NEW todo, NEW failed, pc[r] = "ending",
               Settle(r, WithLocals(call[r], db, todo, failed)), ~Finish(r)
        PROVE  Revocation'
    <2>1. /\ pc[r] # "putAccess" /\ UNCHANGED pc
          /\ call' = [call EXCEPT ![r] = WithLocals(call[r], db, todo, failed)]
      BY <1>9 DEF Settle
    <2>2. QED BY <1>5, <2>1
  <1>10. CASE RevokeRows(r)
    BY <1>3, <1>9, <1>10 DEF RevokeRows
  <1>11. ASSUME NEW k \in Key, Sweep(r, k)
         PROVE  Revocation'
    BY <1>3, <1>9, <1>11 DEF Sweep
  <1>12. CASE SideFails(r)
    BY <1>3, <1>9, <1>12 DEF SideFails
  <1>13. QED
    BY <1>3, <1>4, <1>6, <1>7, <1>8, <1>10, <1>11, <1>12
       DEF GuardRefuses, QueryFails, PutAccess

\* Every step keeps Revocation.
LEMMA NextRevocation == TypeInv /\ Revocation /\ [Next]_vars => Revocation'
  <1> SUFFICES ASSUME TypeInv, Revocation, [Next]_vars PROVE Revocation'
    OBVIOUS
  <1>1. Grows
    BY NextType
  <1>2. CASE Arrive
    <2>1. PICK r \in Rid :
             \/ \E u \in User : Login(r, u)
             \/ \E s \in known : \/ UseToken(r, s) \/ RefreshToken(r, s)
                                 \/ Logout(r, s) \/ LogoutAll(r, s)
      BY <1>2 DEF Arrive
    <2>2. ASSUME NEW u \in User, Login(r, u)
          PROVE  Revocation'
      BY <1>1, <2>2, EnterRevocation DEF Login
    <2>3. ASSUME NEW s \in known,
                 UseToken(r, s) \/ RefreshToken(r, s) \/ Logout(r, s) \/ LogoutAll(r, s)
          PROVE  Revocation'
      <3>1. PICK o, u, ends : Enter(r, o, u, s, ends, "guard")
        BY <2>3 DEF UseToken, RefreshToken, Logout, LogoutAll
      <3>2. QED BY <1>1, <3>1, EnterRevocation
    <2>4. QED BY <2>1, <2>2, <2>3
  <1>3. CASE Step
    BY <1>1, <1>3, StepRevocation DEF Step
  <1>4. CASE UNCHANGED vars \/ (\E k \in Key : Expire(k))
             \/ \E dead \in SUBSET InFlight : Restart(dead)
    <2>1. \A q \in Rid : Follows(q)
      BY <1>4 DEF Follows, Expire, Restart, vars, Idle
    <2>2. QED BY <1>1, <2>1, RevocationFollows
  <1>5. QED BY <1>2, <1>3, <1>4 DEF Next

\* A refresh that arrives after its session was revoked issues no token.
THEOREM SessionRevokedNotRefreshed == Spec => []RevokedNotRefreshed
  <1>1. Init => TypeInv /\ Revocation
    BY InitType DEF Init, Revocation, InFlight
  <1>2. TypeInv /\ Revocation /\ [Next]_vars => (TypeInv /\ Revocation)'
    BY NextType, NextRevocation
  <1>3. TypeInv /\ Revocation => RevokedNotRefreshed
    <2> SUFFICES ASSUME TypeInv, Revocation, NEW r \in Rid, pc[r] = "putAccess",
                        call[r].revoked
                 PROVE  FALSE
      BY DEF RevokedNotRefreshed
    <2>1. pc[r] \notin Idle /\ r \in InFlight
      BY DEF Idle, InFlight
    <2>2. call[r].op = "refresh"
      BY <2>1, Served DEF Owner
    <2>3. QED BY <2>1, <2>2 DEF Revocation
  <1>4. QED BY <1>1, <1>2, <1>3, PTL DEF Spec
-----------------------------------------------------------------------------
(* OthersStayLoggedIn.                                                     *)

\* The step leaves session s its keys and its row, or a logout asked for it.
Spares(s) ==
    \/ /\ KeysOf(s) \cap keys \subseteq keys'
       /\ s \in Revoked' => s \in Revoked
    \/ Targeted(s)

\* A session that a logout asked for remains so.
LEMMA TargetedStays ==
  ASSUME TypeInv, Grows, NEW s \in Rid, sessions[s] \in UserSession, Targeted(s)
  PROVE  Targeted(s)'
  BY DEF Targeted, Grows

\* Steps that spare the others' sessions and take no login further.
LEMMA IsolationSpares ==
  ASSUME TypeInv, Isolation, Grows, UNCHANGED <<losses, known>>,
         \A s \in Rid : Spares(s),
         \A q \in Rid : pc'[q] = "setKeys" => pc[q] = "setKeys" /\ call'[q] = call[q]
  PROVE  Isolation'
  <1> SUFFICES ASSUME losses = 0
               PROVE  /\ \A s \in known :
                            \/ KeysOf(s) \subseteq keys' /\ s \notin Revoked'
                            \/ Targeted(s)'
                      /\ \A r \in Rid : pc'[r] = "setKeys" =>
                            \/ /\ r \notin Revoked'
                               /\ \/ call'[r].failed
                                  \/ KeysOf(r) \ call'[r].todo \subseteq keys'
                            \/ Targeted(r)'
    BY DEF Isolation, KeysOf
  <1>1. ASSUME NEW s \in known
        PROVE  \/ KeysOf(s) \subseteq keys' /\ s \notin Revoked'
               \/ Targeted(s)'
    <2>1. s \in Rid /\ sessions[s] \in UserSession
      BY DEF TypeInv, Stored
    <2>2. (KeysOf(s) \subseteq keys /\ s \notin Revoked) \/ Targeted(s)
      BY DEF Isolation
    <2>3. CASE Targeted(s)
      BY <2>1, <2>3, TargetedStays
    <2>4. CASE ~Targeted(s)
      BY <2>1, <2>2, <2>4 DEF Spares
    <2>5. QED BY <2>3, <2>4
  <1>2. ASSUME NEW r \in Rid, pc'[r] = "setKeys"
        PROVE  \/ /\ r \notin Revoked'
                  /\ \/ call'[r].failed
                     \/ KeysOf(r) \ call'[r].todo \subseteq keys'
               \/ Targeted(r)'
    <2>1. pc[r] = "setKeys" /\ call'[r] = call[r] /\ pc[r] \notin Idle
      BY <1>2 DEF Idle
    <2>2. sessions[r] \in UserSession
      BY <2>1, Served DEF Owner
    <2>3. \/ /\ r \notin Revoked
             /\ call[r].failed \/ KeysOf(r) \ call[r].todo \subseteq keys
          \/ Targeted(r)
      BY <2>1 DEF Isolation
    <2>4. CASE Targeted(r)
      BY <2>2, <2>4, TargetedStays
    <2>5. CASE ~Targeted(r)
      BY <2>1, <2>3, <2>5 DEF Spares
    <2>6. QED BY <2>4, <2>5
  <1>3. QED BY <1>1, <1>2

\* A step of r that only adds keys, touches no row and takes no login further.
LEMMA IsolationKeeps ==
  ASSUME TypeInv, Isolation, Grows, UNCHANGED <<losses, known, sessions>>,
         keys \subseteq keys', NEW r \in Rid, pc'[r] # "setKeys",
         \A q \in Rid \ {r} : pc'[q] = pc[q] /\ call'[q] = call[q]
  PROVE  Isolation'
  <1>1. \A s \in Rid : Spares(s)
    BY DEF Spares, Revoked
  <1>2. \A q \in Rid : pc'[q] = "setKeys" => pc[q] = "setKeys" /\ call'[q] = call[q]
    OBVIOUS
  <1>3. QED BY <1>1, <1>2, IsolationSpares

\* A new session has nothing to lose yet.
LEMMA CreateSessionIsolation ==
  ASSUME TypeInv, Isolation, Grows, NEW r \in Rid, CreateSession(r)
  PROVE  Isolation'
  <1>1. pc[r] = "createSession" /\ pc[r] \notin Idle
    BY DEF CreateSession, Idle
  <1>2. r \notin known
    BY <1>1, Served
  <1>3. PICK c : c = WithLocals(call[r], FALSE, KeysOf(r), FALSE)
    OBVIOUS
  <1>4. c.todo = KeysOf(r)
    BY <1>3 DEF WithLocals
  <1>5. /\ pc'[r] = "setKeys" /\ call'[r] = c
        /\ \A q \in Rid \ {r} : pc'[q] = pc[q] /\ call'[q] = call[q]
    BY <1>3 DEF CreateSession, Goto, TypeInv, Frames
  <1>6. UNCHANGED <<keys, losses, known, logouts>>
    BY DEF CreateSession, bounds, history
  <1>7. /\ \A s \in Rid \ {r} : sessions'[s] = sessions[s]
        /\ r \notin Revoked'
    BY DEF CreateSession, NewSession, TypeInv, Stored, Revoked
  <1>8. /\ \A s \in Rid \ {r} : s \in Revoked' <=> s \in Revoked
        /\ \A s \in Rid \ {r} : Targeted(s) => Targeted(s)'
    BY <1>6, <1>7 DEF Revoked, Targeted
  <1>9. known \subseteq Rid \ {r}
    BY <1>2 DEF TypeInv, Stored
  <1>10. losses = 0 =>
            \A s \in known : \/ KeysOf(s) \subseteq keys /\ s \notin Revoked'
                             \/ Targeted(s)'
    BY <1>8, <1>9 DEF Isolation
  <1>11. losses = 0 =>
            \A q \in Rid : pc'[q] = "setKeys" =>
               \/ /\ q \notin Revoked'
                  /\ call'[q].failed \/ KeysOf(q) \ call'[q].todo \subseteq keys
               \/ Targeted(q)'
    <2>1. \A q \in Rid \ {r} : losses = 0 /\ pc'[q] = "setKeys" =>
             \/ /\ q \notin Revoked'
                /\ call'[q].failed \/ KeysOf(q) \ call'[q].todo \subseteq keys
             \/ Targeted(q)'
      BY <1>5, <1>8 DEF Isolation
    <2>2. r \notin Revoked' /\ KeysOf(r) \ call'[r].todo \subseteq keys
      BY <1>4, <1>5, <1>7
    <2>3. QED BY <2>1, <2>2
  <1>12. QED BY <1>6, <1>10, <1>11 DEF Isolation, KeysOf

\* A login is answered when both of its keys are set.
LEMMA SetKeyIsolation ==
  ASSUME TypeInv, Isolation, Grows, NEW r \in Rid, NEW k \in KeysOf(r),
         NEW ok \in BOOLEAN, SetKey(r, k, ok)
  PROVE  Isolation'
  <1>1. pc[r] = "setKeys" /\ pc[r] \notin Idle
    BY DEF SetKey, Idle
  <1>2. /\ UNCHANGED <<sessions, losses, logouts>> /\ keys \subseteq keys'
        /\ ok => k \in keys'
    BY DEF SetKey, bounds
  <1>3. /\ \A s \in Rid : s \in Revoked' <=> s \in Revoked
        /\ \A s \in Rid : Targeted(s)' <=> Targeted(s)
    BY <1>2 DEF Revoked, Targeted
  <1>4. known \subseteq Rid
    BY DEF TypeInv, Stored
  <1>5. CASE losses # 0
    BY <1>2, <1>5 DEF Isolation
  <1>6. CASE losses = 0 /\ ~Finish(r)
    <2>1. PICK c : c = WithLocals(call[r], FALSE, call[r].todo \ {k}, call[r].failed \/ ~ok)
      OBVIOUS
    <2>2. c.todo = call[r].todo \ {k} /\ (c.failed <=> call[r].failed \/ ~ok)
      BY <2>1 DEF WithLocals
    <2>3. UNCHANGED <<pc, known>> /\ call' = [call EXCEPT ![r] = c]
      BY <1>6, <2>1 DEF SetKey
    <2>4. call'[r] = c /\ \A q \in Rid \ {r} : call'[q] = call[q]
      BY <2>3 DEF TypeInv, Frames
    <2>5. \A s \in known : \/ KeysOf(s) \subseteq keys' /\ s \notin Revoked'
                           \/ Targeted(s)'
      BY <1>2, <1>3, <1>4, <1>6 DEF Isolation
    <2>6. ASSUME NEW q \in Rid, pc[q] = "setKeys"
          PROVE  \/ /\ q \notin Revoked'
                    /\ call'[q].failed \/ KeysOf(q) \ call'[q].todo \subseteq keys'
                 \/ Targeted(q)'
      <3>1. \/ /\ q \notin Revoked
               /\ call[q].failed \/ KeysOf(q) \ call[q].todo \subseteq keys
            \/ Targeted(q)
        BY <1>6, <2>6 DEF Isolation
      <3>2. CASE q # r
        BY <1>2, <1>3, <2>4, <3>1, <3>2
      <3>3. CASE q = r
        BY <1>2, <1>3, <2>2, <2>4, <3>1, <3>3
      <3>4. QED BY <3>2, <3>3
    <2>7. QED BY <1>2, <2>3, <2>5, <2>6 DEF Isolation, KeysOf
  <1>7. CASE losses = 0 /\ Finish(r)
    <2>1. /\ pc'[r] = "done"
          /\ \A q \in Rid \ {r} : pc'[q] = pc[q] /\ call'[q] = call[q]
      BY <1>7 DEF Finish, Goto, TypeInv, Frames
    <2>2. /\ call[r].todo = {k}
          /\ known' = IF ok /\ ~call[r].failed THEN known \cup {r} ELSE known
      BY <1>1, <2>1 DEF SetKey
    <2>3. \/ /\ r \notin Revoked
             /\ call[r].failed \/ KeysOf(r) \ call[r].todo \subseteq keys
          \/ Targeted(r)
      BY <1>1, <1>7 DEF Isolation
    <2>4. ASSUME NEW s \in known'
          PROVE  \/ KeysOf(s) \subseteq keys' /\ s \notin Revoked'
                 \/ Targeted(s)'
      <3>1. CASE s \in known
        BY <1>2, <1>3, <1>4, <1>7, <3>1 DEF Isolation
      <3>2. CASE s \notin known
        <4>1. s = r /\ ok /\ ~call[r].failed
          BY <2>2, <2>4, <3>2
        <4>2. QED BY <1>2, <1>3, <2>2, <2>3, <4>1
      <3>3. QED BY <3>1, <3>2
    <2>5. ASSUME NEW q \in Rid, pc'[q] = "setKeys"
          PROVE  \/ /\ q \notin Revoked'
                    /\ call'[q].failed \/ KeysOf(q) \ call'[q].todo \subseteq keys'
                 \/ Targeted(q)'
      <3>1. q # r /\ pc[q] = "setKeys" /\ call'[q] = call[q]
        BY <2>1, <2>5
      <3>2. \/ /\ q \notin Revoked
               /\ call[q].failed \/ KeysOf(q) \ call[q].todo \subseteq keys
            \/ Targeted(q)
        BY <1>7, <3>1 DEF Isolation
      <3>3. QED BY <1>2, <1>3, <3>1, <3>2
    <2>6. QED BY <1>2, <2>4, <2>5 DEF Isolation, KeysOf
  <1>8. QED BY <1>5, <1>6, <1>7

\* Both sides of a logout reach only sessions that it was asked for.
LEMMA EndingIsolation ==
  ASSUME TypeInv, Isolation, Grows, NEW r \in Rid,
         RevokeRows(r) \/ SideFails(r) \/ \E k \in Key : Sweep(r, k)
  PROVE  Isolation'
  <1>1. /\ pc[r] = "ending" /\ pc[r] \notin Idle /\ UNCHANGED <<losses, known, logouts>>
    BY DEF RevokeRows, SideFails, Sweep, bounds, Idle
  <1>2. PICK m : m = [op |-> call[r].op, user |-> call[r].user, ssid |-> call[r].ssid]
    OBVIOUS
  <1>3. /\ m \in logouts /\ m.op = call[r].op /\ m.user = call[r].user
        /\ m.ssid = call[r].ssid /\ call[r].op \in Logouts
    BY <1>1, <1>2, Served DEF Owner, Targets
  <1>4. ASSUME NEW db, NEW todo, NEW failed,
               Settle(r, WithLocals(call[r], db, todo, failed)),
               \A s \in Rid : Spares(s)
        PROVE  Isolation'
    <2>1. \/ UNCHANGED pc /\ call' = [call EXCEPT ![r] = WithLocals(call[r], db, todo, failed)]
          \/ Finish(r)
      BY <1>4 DEF Settle
    <2>2. \A q \in Rid : pc'[q] = "setKeys" => pc[q] = "setKeys" /\ call'[q] = call[q]
      BY <1>1, <2>1 DEF Finish, Goto, TypeInv, Frames
    <2>3. QED BY <1>1, <1>4, <2>2, IsolationSpares
  <1>5. CASE RevokeRows(r)
    <2>1. /\ sessions' = Revoke(call[r]) /\ UNCHANGED keys
          /\ Settle(r, WithLocals(call[r], FALSE, call[r].todo, call[r].failed))
      BY <1>5 DEF RevokeRows
    <2>2. ASSUME NEW s \in Rid, s \in Revoked', s \notin Revoked
          PROVE  Targeted(s)
      <3>1. sessions'[s] # sessions[s]
        BY <2>2 DEF Revoked
      <3>2. IF call[r].op = "logout" THEN s = call[r].ssid
                                     ELSE sessions[s].user = call[r].user
        BY <2>1, <3>1 DEF Revoke
      <3>3. QED BY <1>3, <3>2 DEF Targeted
    <2>3. \A s \in Rid : Spares(s)
      BY <2>1, <2>2 DEF Spares
    <2>4. QED BY <1>4, <2>1, <2>3
  <1>6. ASSUME NEW k \in Key, Sweep(r, k)
        PROVE  Isolation'
    <2>1. /\ k \in Doomed(call[r]) /\ keys' = keys \ {k} /\ UNCHANGED sessions
          /\ Settle(r, WithLocals(call[r], call[r].db, call[r].todo \ {k}, call[r].failed))
      BY <1>6 DEF Sweep
    <2>2. IF call[r].op = "logout" THEN k[2] = call[r].ssid
                                   ELSE sessions[k[2]].user = call[r].user
      BY <2>1 DEF Doomed, KeysOf
    <2>3. \A s \in Rid : k \in KeysOf(s) => Targeted(s)
      BY <1>3, <2>2 DEF Targeted, KeysOf
    <2>4. \A s \in Rid : Spares(s)
      BY <2>1, <2>3 DEF Spares, Revoked
    <2>5. QED BY <1>4, <2>1, <2>4
  <1>7. CASE SideFails(r)
    <2>1. UNCHANGED <<sessions, keys>>
      BY <1>7 DEF SideFails, store
    <2>2. \A s \in Rid : Spares(s)
      BY <2>1 DEF Spares, Revoked
    <2>3. \/ Settle(r, WithLocals(call[r], FALSE, call[r].todo, TRUE))
          \/ Settle(r, WithLocals(call[r], call[r].db, {}, TRUE))
      BY <1>7 DEF SideFails
    <2>4. QED BY <1>4, <2>2, <2>3
  <1>8. QED BY <1>5, <1>6, <1>7

\* Every step of a request keeps Isolation.
LEMMA StepIsolation ==
  ASSUME TypeInv, Isolation, Grows, NEW r \in Rid,
         \/ CreateSession(r)
         \/ \E k \in KeysOf(r), ok \in BOOLEAN : SetKey(r, k, ok)
         \/ GuardRefuses(r)
         \/ GuardPasses(r)
         \/ FindSession(r)
         \/ PutAccess(r)
         \/ RevokeRows(r)
         \/ \E k \in Key : Sweep(r, k)
         \/ QueryFails(r)
         \/ SideFails(r)
  PROVE  Isolation'
  <1>1. CASE GuardRefuses(r) \/ GuardPasses(r) \/ FindSession(r) \/ PutAccess(r)
             \/ QueryFails(r)
    <2>1. UNCHANGED <<sessions, losses, known>> /\ keys \subseteq keys'
      BY <1>1 DEF GuardRefuses, GuardPasses, FindSession, PutAccess, QueryFails,
                  store, bounds, history
    <2>2. /\ \E l \in Pc \ {"setKeys"} : pc' = [pc EXCEPT ![r] = l]
          /\ \E c : call' = [call EXCEPT ![r] = c]
      <3>1. CASE Finish(r)
        BY <3>1 DEF Finish, Goto, Pc
      <3>2. CASE UNCHANGED call /\ \E l \in Pc \ {"setKeys"} : Goto(r, l)
        <4>1. call' = [call EXCEPT ![r] = call[r]]
          BY <3>2 DEF TypeInv, Frames
        <4>2. QED BY <3>2, <4>1 DEF Goto
      <3>3. CASE Goto(r, "ending") /\ \E c : call' = [call EXCEPT ![r] = c]
        BY <3>3 DEF Goto, Pc
      <3>4. QED
        BY <1>1, <3>1, <3>2, <3>3
           DEF GuardRefuses, GuardPasses, FindSession, PutAccess, QueryFails, Pc
    <2>3. /\ pc'[r] # "setKeys"
          /\ \A q \in Rid \ {r} : pc'[q] = pc[q] /\ call'[q] = call[q]
      BY <2>2 DEF TypeInv, Frames
    <2>4. QED BY <2>1, <2>3, IsolationKeeps
  <1>2. QED BY <1>1, CreateSessionIsolation, SetKeyIsolation, EndingIsolation

\* Every step keeps Isolation.
LEMMA NextIsolation == TypeInv /\ Isolation /\ [Next]_vars => Isolation'
  <1> SUFFICES ASSUME TypeInv, Isolation, [Next]_vars PROVE Isolation'
    OBVIOUS
  <1>1. Grows
    BY NextType
  <1>2. ASSUME NEW r \in Rid, NEW o, NEW u, NEW s, NEW ends,
               NEW l \in {"createSession", "guard"}, Enter(r, o, u, s, ends, l)
        PROVE  Isolation'
    <2>1. UNCHANGED <<sessions, keys, losses, known>> /\ keys \subseteq keys'
      BY <1>2 DEF Enter, store
    <2>2. /\ pc'[r] # "setKeys"
          /\ \A q \in Rid \ {r} : pc'[q] = pc[q] /\ call'[q] = call[q]
      BY <1>2 DEF Enter, Goto, TypeInv, Frames
    <2>3. QED BY <1>1, <2>1, <2>2, IsolationKeeps
  <1>3. CASE Arrive
    <2>1. PICK r \in Rid :
             \/ \E u \in User : Login(r, u)
             \/ \E s \in known : \/ UseToken(r, s) \/ RefreshToken(r, s)
                                 \/ Logout(r, s) \/ LogoutAll(r, s)
      BY <1>3 DEF Arrive
    <2>2. ASSUME NEW u \in User, Login(r, u)
          PROVE  Isolation'
      BY <1>2, <2>2 DEF Login
    <2>3. ASSUME NEW s \in known,
                 UseToken(r, s) \/ RefreshToken(r, s) \/ Logout(r, s) \/ LogoutAll(r, s)
          PROVE  Isolation'
      <3>1. PICK o, u, ends : Enter(r, o, u, s, ends, "guard")
        BY <2>3 DEF UseToken, RefreshToken, Logout, LogoutAll
      <3>2. QED BY <1>2, <3>1
    <2>4. QED BY <2>1, <2>2, <2>3
  <1>4. CASE Step
    BY <1>1, <1>4, StepIsolation DEF Step
  <1>5. CASE (\E k \in Key : Expire(k)) \/ \E dead \in SUBSET InFlight : Restart(dead)
    <2>1. losses' = losses + 1 /\ losses \in Nat
      BY <1>5, ConstantsAssumption DEF Expire, Restart, TypeInv, Stored
    <2>2. losses' # 0
      BY <2>1
    <2>3. QED BY <2>2 DEF Isolation
  <1>6. CASE UNCHANGED vars
    BY <1>6 DEF vars, store, bounds, history, Isolation, Targeted, Revoked, KeysOf
  <1>7. QED BY <1>3, <1>4, <1>5, <1>6 DEF Next

\* Until a key runs out or an instance restarts, no session is lost but to a
\* logout that asked for it.
THEOREM SessionOthersStayLoggedIn == Spec => []OthersStayLoggedIn
  <1>1. Init => TypeInv /\ Isolation
    BY InitType DEF Init, Isolation, Rid
  <1>2. TypeInv /\ Isolation /\ [Next]_vars => (TypeInv /\ Isolation)'
    BY NextType, NextIsolation
  <1>3. TypeInv /\ Isolation => OthersStayLoggedIn
    BY DEF Isolation, OthersStayLoggedIn, Targeted
  <1>4. QED BY <1>1, <1>2, <1>3, PTL DEF Spec
=============================================================================
