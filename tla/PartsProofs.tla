---------------------------- MODULE PartsProofs ----------------------------
(***************************************************************************)
(* Proofs about the three parts of MCParts.  Accounts: its type            *)
(* invariant, and for any numbers of addresses, passwords, requests and    *)
(* failures that two accounts share an address only when their             *)
(* registrations overlapped and that a password is replaced only by        *)
(* somebody who knew it.  CacheOps: its type invariant, and that the       *)
(* counter accounts for every increment, for any number of callers, calls  *)
(* and losses.  QrActions: that the preview shows what it is to show and   *)
(* no more, for payloads of any depth and width and any limits.            *)
(***************************************************************************)
EXTENDS MCParts, Sequences, WellFoundedInduction, TLAPS

-----------------------------------------------------------------------------
(* The invariant.                                                          *)

Registering(r) == pc[r] \in {"findByEmail", "insert"}

Looking(r) == pc[r] \in {"get", "load", "put"}

Knowing(r) == pc[r] \in {"again", "reload", "reput", "update"}

\* A request that has not been received, or has not inserted its row yet, has
\* no account.
Unborn ==
    \A r \in Rid :
        /\ r > started => pc[r] = "idle" /\ users[r] = Nil
        /\ Registering(r) => users[r] = Nil

\* A registration has a normalised address, and finds it untaken by the
\* accounts that were there before.
Asking(r) ==
    Registering(r) =>
        /\ call[r] \in Call /\ call[r].op = "register"
        /\ call[r].mail \in Mail /\ Lower(call[r].mail) = call[r].mail
        /\ call[r].name \in Name /\ call[r].new \in Secret
        /\ \A u \in call[r].before :
              There(u) /\ (pc[r] = "insert" => users[u].mail # call[r].mail)

\* A password change knows every password its account has had since it came,
\* and past the comparison its own is one of them.
Changing(r) ==
    Looking(r) \/ Knowing(r) =>
        /\ call[r] \in Call /\ call[r].op # "register"
        /\ pc[r] \in {"put", "reput"} => copy[r] \in Row
        /\ call[r].op = "updatePassword" =>
              /\ There(call[r].uid)
              /\ call[r].old \in Secret /\ call[r].new \in Secret
              /\ users[call[r].uid].secret \in call[r].seen
              /\ pc[r] = "put" => copy[r].secret \in call[r].seen
        /\ Knowing(r) =>
              call[r].op = "updatePassword" /\ call[r].old \in call[r].seen

\* An account has a normalised address, which none had that it found there.
Mailed ==
    \A u \in Uid : There(u) =>
        /\ Lower(users[u].mail) = users[u].mail
        /\ \A v \in peers[u] : There(v) /\ users[v].mail # users[u].mail

IInv ==
    /\ TypeOK /\ Unborn /\ Mailed
    /\ \A r \in Rid : Asking(r) /\ Changing(r)

-----------------------------------------------------------------------------
\* The states a behaviour may begin in.
LEMMA InitIInv == Init => IInv
  <1> SUFFICES ASSUME Init PROVE IInv
    OBVIOUS
  <1>0. 0 \in Uid /\ \A r \in Rid : r \in Uid /\ r # 0
    BY AccountsAssumption DEF Rid, Uid
  <1>1. PICK row \in [mail: {Lower(m) : m \in Mail}, name: Name, secret: Secret] :
           users = [u \in Uid |-> IF u = 0 THEN row ELSE Nil]
    BY DEF Init
  <1>2. row \in Row /\ Lower(row.mail) = row.mail
    BY AccountsAssumption DEF Row
  <1>3. TypeOK
    BY <1>1, <1>2, AccountsAssumption DEF Init, TypeOK, Pc
  <1>4. Unborn /\ \A r \in Rid : Asking(r) /\ Changing(r)
    BY <1>0, <1>1 DEF Init, Unborn, Asking, Changing, Registering, Looking, Knowing
  <1>5. Mailed
    BY <1>1, <1>2 DEF Init, Mailed, There
  <1> QED  BY <1>3, <1>4, <1>5 DEF IInv

-----------------------------------------------------------------------------
(* The steps.  A step of request r leaves the parts of the other requests  *)
(* as they are, unless it changes their account.                           *)

\* Requests are numbered, and so are the accounts after them.
LEMMA Numbers ==
    TypeOK => /\ Rid \subseteq Uid /\ Rid \subseteq Nat /\ Uid \subseteq Nat
              /\ started \in Nat /\ (started < MaxRequests => started + 1 \in Rid)
  BY AccountsAssumption DEF Rid, Uid, TypeOK

\* A request that comes in.
LEMMA ReceiveStep ==
    ASSUME IInv, NEW c \in Call, NEW l \in {"findByEmail", "get"}, Receive(c, l),
           c.seen = IF There(c.uid) THEN {users[c.uid].secret} ELSE {},
           c.before = {u \in Uid : There(u)},
           l = "findByEmail" =>
              /\ c.op = "register" /\ c.mail \in Mail /\ Lower(c.mail) = c.mail
              /\ c.name \in Name /\ c.new \in Secret,
           l = "get" =>
              /\ c.op # "register"
              /\ c.op = "updatePassword" =>
                    There(c.uid) /\ c.old \in Secret /\ c.new \in Secret
    PROVE  IInv'
  <1> DEFINE r == started + 1
  <1>0. /\ started' = r /\ pc' = [pc EXCEPT ![r] = l] /\ call' = [call EXCEPT ![r] = c]
        /\ UNCHANGED <<users, copies, copy, peers, losses>>
        /\ r \in Rid /\ r \in 0..MaxRequests
    BY Numbers, AccountsAssumption DEF Receive, Goto, IInv, Rid
  <1>1. TypeOK'
    BY <1>0 DEF IInv, TypeOK, Pc
  <1>2. /\ pc'[r] = l /\ call'[r] = c
        /\ \A q \in Rid : q # r => pc'[q] = pc[q] /\ call'[q] = call[q]
    BY <1>0 DEF IInv, TypeOK
  <1>3. r > started /\ \A q \in Rid : q > r => q > started
    BY Numbers DEF IInv
  <1> HIDE DEF r
  <1>4. Unborn'
    BY <1>0, <1>2, <1>3 DEF IInv, Unborn, Registering
  <1>5. \A q \in Rid : Asking(q)'
    BY <1>0, <1>2 DEF IInv, Asking, Registering, There
  <1>6. \A q \in Rid : Changing(q)'
    BY <1>0, <1>2 DEF IInv, Changing, Looking, Knowing, There
  <1>7. Mailed'
    BY <1>0 DEF IInv, Mailed, There
  <1> QED  BY <1>1, <1>4, <1>5, <1>6, <1>7 DEF IInv

\* A registration, a look-up or a password change comes in.
LEMMA ArriveStep ==
    ASSUME IInv, Register \/ GetUserById \/ UpdatePassword
    PROVE  IInv'
  <1>0. TypeOK
    BY DEF IInv
  <1>2. CASE Register
    <2>1. PICK m \in Mail, n \in Name, s \in Secret :
             Receive(Asked("register", Normal(m), n, Nil, s, started + 1), "findByEmail")
      BY <1>2 DEF Register
    <2>2. PICK u \in Uid : u = started + 1
      BY <1>0, <2>1, Numbers DEF Receive
    <2>3. PICK k \in Mail : k = Normal(m) /\ Lower(k) = k
      BY AccountsAssumption DEF Normal
    <2> DEFINE a == Asked("register", k, n, Nil, s, u)
    <2>4. /\ a \in Call
         /\ a.seen = (IF There(a.uid) THEN {users[a.uid].secret} ELSE {})
         /\ a.before = {v \in Uid : There(v)}
         /\ a.op = "register" /\ a.mail = k /\ a.name = n /\ a.new = s
      BY <1>0, <2>2, <2>3 DEF Asked, Call, Op, TypeOK, There, Row
    <2> HIDE DEF a
    <2>5. PICK c \in Call : c = a
      BY <2>4
    <2>6. Receive(c, "findByEmail")
      BY <2>1, <2>2, <2>3, <2>5 DEF a
    <2> QED  BY <2>3, <2>4, <2>5, <2>6, ReceiveStep
  <1>3. CASE GetUserById
    <2>1. PICK u \in Uid : Receive(Asked("getUserById", Nil, Nil, Nil, Nil, u), "get")
      BY <1>3 DEF GetUserById
    <2> DEFINE a == Asked("getUserById", Nil, Nil, Nil, Nil, u)
    <2>2. /\ a \in Call
         /\ a.seen = (IF There(a.uid) THEN {users[a.uid].secret} ELSE {})
         /\ a.before = {v \in Uid : There(v)}
         /\ a.op = "getUserById"
      BY <1>0 DEF Asked, Call, Op, TypeOK, There, Row
    <2> HIDE DEF a
    <2>3. PICK c \in Call : c = a
      BY <2>2
    <2>4. Receive(c, "get")
      BY <2>1, <2>3 DEF a
    <2> QED  BY <2>2, <2>3, <2>4, ReceiveStep
  <1>4. CASE UpdatePassword
    <2>1. PICK u \in Uid, old \in Secret, new \in Secret :
             There(u) /\ Receive(Asked("updatePassword", Nil, Nil, old, new, u), "get")
      BY <1>4 DEF UpdatePassword
    <2> DEFINE a == Asked("updatePassword", Nil, Nil, old, new, u)
    <2>2. /\ a \in Call
         /\ a.seen = (IF There(a.uid) THEN {users[a.uid].secret} ELSE {})
         /\ a.before = {v \in Uid : There(v)}
         /\ a.op = "updatePassword" /\ a.uid = u /\ a.old = old /\ a.new = new
      BY <1>0, <2>1 DEF Asked, Call, Op, TypeOK, There, Row
    <2> HIDE DEF a
    <2>3. PICK c \in Call : c = a
      BY <2>2
    <2>4. Receive(c, "get")
      BY <2>1, <2>3 DEF a
    <2> QED  BY <2>1, <2>2, <2>3, <2>4, ReceiveStep
  <1> QED  BY <1>2, <1>3, <1>4

\* A step of request r that leaves the accounts alone.
LEMMA QuietStep ==
    ASSUME IInv, NEW r \in Rid, TypeOK', UNCHANGED <<users, peers, started>>,
           \A q \in Rid \ {r} :
              pc'[q] = pc[q] /\ call'[q] = call[q] /\ copy'[q] = copy[q],
           pc[r] # "idle", Registering(r)' => Registering(r), Asking(r)', Changing(r)'
    PROVE  IInv'
  <1>1. Unborn'
    BY DEF IInv, Unborn, Registering
  <1>2. Mailed'
    BY DEF IInv, Mailed, There
  <1>3. ASSUME NEW q \in Rid \ {r}
        PROVE  Asking(q)' /\ Changing(q)'
    BY DEF IInv, Asking, Changing, Registering, Looking, Knowing, There
  <1> QED  BY <1>1, <1>2, <1>3 DEF IInv

\* A request is answered.
LEMMA FinishStep ==
    ASSUME IInv, NEW r \in Rid, Finish(r), pc[r] # "idle",
           UNCHANGED <<users, peers, started>>, TypeOK'
    PROVE  IInv'
  <1>1. pc'[r] = "done" /\ \A q \in Rid \ {r} :
              pc'[q] = pc[q] /\ call'[q] = call[q] /\ copy'[q] = copy[q]
    BY DEF Finish, Goto, IInv, TypeOK
  <1>2. Asking(r)' /\ Changing(r)' /\ ~Registering(r)'
    BY <1>1 DEF Asking, Changing, Registering, Looking, Knowing
  <1> QED  BY <1>1, <1>2, QuietStep

\* The types after any step.
LEMMA TypeStep ==
    ASSUME IInv, NEW r \in Rid,
           FindByEmail(r) \/ Insert(r) \/ Get(r) \/ Load(r) \/ Put(r) \/ Fail(r)
    PROVE  TypeOK'
  <1>0. TypeOK /\ Rid \subseteq Uid
    BY Numbers DEF IInv
  <1>1. CASE FindByEmail(r)
    BY <1>0, <1>1 DEF FindByEmail, Finish, Goto, TypeOK, Pc, bounds
  <1>2. CASE Insert(r)
    <2>1. call[r] \in Call /\ call[r].mail \in Mail /\ call[r].name \in Name
          /\ call[r].new \in Secret
      BY <1>2 DEF IInv, Asking, Registering, Insert
    <2>2. users' \in [Uid -> Row \cup {Nil}]
      BY <1>0, <1>2, <2>1 DEF Insert, TypeOK, Row
    <2>3. peers' \in [Uid -> SUBSET Uid]
      BY <1>0, <1>2, <2>1 DEF Insert, TypeOK, Call
    <2>4. pc' \in [Rid -> Pc] /\ call' \in [Rid -> Call \cup {Nil}]
          /\ copy' \in [Rid -> Row \cup {Nil}]
      BY <1>0, <1>2 DEF Insert, Finish, Goto, TypeOK, Pc
    <2> QED  BY <1>0, <1>2, <2>2, <2>3, <2>4 DEF Insert, TypeOK, bounds
  <1>3. CASE Get(r)
    <2>1. pc' \in [Rid -> Pc]
      BY <1>0, <1>3 DEF Get, Found, Finish, Goto, TypeOK, Pc
    <2>2. call' \in [Rid -> Call \cup {Nil}] /\ copy' \in [Rid -> Row \cup {Nil}]
      BY <1>0, <1>3 DEF Get, Found, Finish, TypeOK
    <2> QED  BY <1>0, <1>3, <2>1, <2>2 DEF Get, TypeOK, bounds
  <1>4. CASE Load(r)
    <2>0. call[r] \in Call /\ call[r].uid \in Uid
      BY <1>4 DEF IInv, Changing, Looking, Knowing, Load, Call
    <2>1. pc' \in [Rid -> Pc]
      BY <1>0, <1>4 DEF Load, Finish, Goto, TypeOK, Pc
    <2>2. call' \in [Rid -> Call \cup {Nil}] /\ copy' \in [Rid -> Row \cup {Nil}]
      BY <1>0, <1>4, <2>0 DEF Load, Finish, TypeOK
    <2> QED  BY <1>0, <1>4, <2>1, <2>2 DEF Load, TypeOK, bounds
  <1>5. CASE Put(r)
    <2>0. copy[r] \in Row
      BY <1>5 DEF IInv, Changing, Looking, Knowing, Put
    <2>1. ToJSON(copy[r]) \in [mail: Mail, name: Name, secret: {Nil}]
      BY <2>0 DEF ToJSON, Row
    <2>2. copies' \in [Uid -> [mail: Mail, name: Name, secret: {Nil}] \cup {Nil}]
      BY <1>0, <1>5, <2>1 DEF Put, TypeOK
    <2>3. pc' \in [Rid -> Pc]
      BY <1>0, <1>5 DEF Put, Found, Finish, Goto, TypeOK, Pc
    <2>4. call' \in [Rid -> Call \cup {Nil}] /\ copy' \in [Rid -> Row \cup {Nil}]
      BY <1>0, <1>5 DEF Put, Found, Finish, TypeOK
    <2> QED  BY <1>0, <1>5, <2>2, <2>3, <2>4 DEF Put, TypeOK, bounds
  <1>6. CASE Fail(r)
    <2>1. losses' \in 0..MaxLosses
      BY <1>0, <1>6, AccountsAssumption DEF Fail, Lose, TypeOK
    <2> QED  BY <1>0, <1>6, <2>1 DEF Fail, Finish, Goto, TypeOK, Pc
  <1> QED  BY <1>1, <1>2, <1>3, <1>4, <1>5, <1>6

-----------------------------------------------------------------------------
(* The actions.                                                            *)

\* The address is taken or free.
LEMMA FindByEmailStep ==
    ASSUME IInv, NEW r \in Rid, FindByEmail(r)
    PROVE  IInv'
  <1>0. /\ TypeOK' /\ pc[r] = "findByEmail"
        /\ UNCHANGED <<users, peers, started>>
    BY TypeStep DEF FindByEmail, bounds
  <1>1. CASE \E u \in Uid : There(u) /\ users[u].mail = call[r].mail
    BY <1>0, <1>1, FinishStep DEF FindByEmail
  <1>2. CASE ~\E u \in Uid : There(u) /\ users[u].mail = call[r].mail
    <2>1. /\ pc' = [pc EXCEPT ![r] = "insert"] /\ UNCHANGED <<call, copy>>
          /\ pc'[r] = "insert"
      BY <1>2 DEF FindByEmail, Goto, IInv, TypeOK
    <2>2. Asking(r) /\ call[r].before \subseteq Uid
      BY <1>0 DEF IInv, Asking, Registering, Call
    <2>3. Asking(r)'
      BY <1>0, <1>2, <2>1, <2>2 DEF Asking, Registering, There
    <2>4. Changing(r)'
      BY <2>1 DEF Changing, Looking, Knowing
    <2>5. \A q \in Rid \ {r} :
              pc'[q] = pc[q] /\ call'[q] = call[q] /\ copy'[q] = copy[q]
      BY <2>1 DEF IInv, TypeOK
    <2> QED  BY <1>0, <2>3, <2>4, <2>5, QuietStep DEF Registering
  <1> QED  BY <1>1, <1>2

\* The new account has an address that no account had that it found there.
LEMMA InsertStep ==
    ASSUME IInv, NEW r \in Rid, Insert(r)
    PROVE  IInv'
  <1>0. /\ TypeOK /\ TypeOK' /\ pc[r] = "insert" /\ r \in Uid /\ started' = started
        /\ users[r] = Nil
    BY TypeStep, Numbers DEF IInv, Insert, bounds, Unborn, Registering
  <1>1. /\ pc'[r] = "done"
        /\ \A q \in Rid \ {r} :
              pc'[q] = pc[q] /\ call'[q] = call[q] /\ copy'[q] = copy[q]
    BY <1>0 DEF Insert, Finish, Goto, TypeOK
  <1>2. CASE UNCHANGED <<users, peers>>
    BY <1>0, <1>2, FinishStep DEF Insert
  <1>3. CASE /\ users' = [users EXCEPT ![r] = [mail |-> call[r].mail,
                             name |-> call[r].name, secret |-> call[r].new]]
             /\ peers' = [peers EXCEPT ![r] = call[r].before]
    <2>1. /\ call[r] \in Call /\ call[r].mail \in Mail /\ call[r].name \in Name
          /\ call[r].new \in Secret /\ Lower(call[r].mail) = call[r].mail
          /\ \A u \in call[r].before : There(u) /\ users[u].mail # call[r].mail
      BY <1>0 DEF IInv, Asking, Registering
    <2>2. users'[r] # Nil /\ users'[r].mail = call[r].mail /\ peers'[r] = call[r].before
      BY <1>0, <1>3, <2>1, AccountsAssumption DEF TypeOK, Row
    <2>3. /\ \A u \in Uid : u # r => users'[u] = users[u] /\ peers'[u] = peers[u]
          /\ \A u \in Uid : There(u) => u # r
      BY <1>0, <1>3 DEF TypeOK, There
    <2>4. /\ \A u \in Uid : peers[u] \subseteq Uid
          /\ call[r].before \subseteq Uid
      BY <1>0, <2>1 DEF TypeOK, Call
    <2>5. Unborn'
      BY <1>0, <1>1, <2>3, Numbers DEF IInv, Unborn, Registering
    <2>6. Mailed'
      BY <1>0, <2>1, <2>2, <2>3, <2>4 DEF IInv, Mailed, There
    <2>7. ASSUME NEW q \in Rid \ {r}
          PROVE  Asking(q)' /\ Changing(q)'
      <3>1. Asking(q)'
        BY <1>1, <2>3 DEF IInv, Asking, Registering, There, Call
      <3>2. Changing(q)'
        BY <1>1, <2>3 DEF IInv, Changing, Looking, Knowing, There, Call
      <3> QED  BY <3>1, <3>2
    <2>8. Asking(r)' /\ Changing(r)'
      BY <1>1 DEF Asking, Changing, Registering, Looking, Knowing
    <2> QED  BY <1>0, <2>5, <2>6, <2>7, <2>8 DEF IInv
  <1> QED  BY <1>2, <1>3 DEF Insert

\* findById returned a row whose password the request may compare with.
LEMMA FoundStep ==
    ASSUME IInv, NEW r \in Rid, NEW row, NEW second \in BOOLEAN, Found(r, row, second),
           TypeOK', UNCHANGED <<users, peers, started>>,
           IF second THEN pc[r] \in {"again", "reput"} ELSE pc[r] \in {"get", "put"},
           call[r].op = "updatePassword" /\ ~second /\ row.secret # Nil =>
              row.secret \in call[r].seen
    PROVE  IInv'
  <1>0. /\ call[r] \in Call /\ (Looking(r) \/ Knowing(r)) /\ ~Registering(r)
        /\ second => call[r].op = "updatePassword" /\ call[r].old \in call[r].seen
    BY DEF IInv, Changing, Looking, Knowing, Registering
  <1>1. CASE call[r].op = "getUserById" \/ (~second /\ ~Matches(call[r].old, row.secret))
    BY <1>0, <1>1, FinishStep DEF Found
  <1>2. CASE ~(call[r].op = "getUserById" \/ (~second /\ ~Matches(call[r].old, row.secret)))
    <2>1. /\ pc'[r] = IF second THEN "update" ELSE "again"
          /\ call' = call
          /\ \A q \in Rid \ {r} : pc'[q] = pc[q] /\ copy'[q] = copy[q]
      BY <1>2 DEF Found, Goto, IInv, TypeOK
    <2>2. Changing(r) /\ call[r].op = "updatePassword"
      BY <1>0, <1>2 DEF IInv, Changing, Call, Op
    <2>3. call[r].old \in call[r].seen
      BY <1>0, <1>2, <2>2 DEF Matches
    <2>4. Changing(r)'
      BY <1>0, <2>1, <2>2, <2>3 DEF Changing, Looking, Knowing, There
    <2>5. Asking(r)' /\ ~Registering(r)'
      BY <2>1 DEF Asking, Registering
    <2> QED  BY <1>0, <2>1, <2>4, <2>5, QuietStep DEF Looking, Knowing
  <1> QED  BY <1>1, <1>2

\* The look-up of the cached copy.
LEMMA GetStep ==
    ASSUME IInv, NEW r \in Rid, Get(r)
    PROVE  IInv'
  <1>0. /\ TypeOK /\ TypeOK' /\ pc[r] \in {"get", "again"} /\ Changing(r)
        /\ call[r] \in Call /\ call[r].uid \in Uid
        /\ UNCHANGED <<users, peers, started>>
    BY TypeStep DEF IInv, Get, Changing, Looking, Knowing, Call, bounds
  <1>1. CASE copies[call[r].uid] # Nil
    <2>1. PICK row : row = copies[call[r].uid]
      OBVIOUS
    <2>2. row.secret = Nil
      BY <1>0, <1>1, <2>1 DEF TypeOK
    <2>3. PICK second \in BOOLEAN : second = (pc[r] = "again")
      OBVIOUS
    <2>4. Found(r, row, second)
      BY <1>1, <2>1, <2>3 DEF Get
    <2> QED  BY <1>0, <2>2, <2>3, <2>4, FoundStep
  <1>2. CASE copies[call[r].uid] = Nil
    <2>1. /\ pc'[r] = (IF pc[r] = "get" THEN "load" ELSE "reload")
          /\ UNCHANGED <<call, copy>> /\ \A q \in Rid \ {r} : pc'[q] = pc[q]
      BY <1>0, <1>2 DEF Get, Goto, TypeOK
    <2>2. Changing(r)'
      BY <1>0, <2>1 DEF Changing, Looking, Knowing, There
    <2>3. Asking(r)' /\ ~Registering(r)'
      BY <2>1 DEF Asking, Registering
    <2> QED  BY <1>0, <2>1, <2>2, <2>3, QuietStep
  <1> QED  BY <1>1, <1>2

\* The look-up of the row.
LEMMA LoadStep ==
    ASSUME IInv, NEW r \in Rid, Load(r)
    PROVE  IInv'
  <1>0. /\ TypeOK /\ TypeOK' /\ pc[r] \in {"load", "reload"} /\ Changing(r)
        /\ call[r] \in Call /\ call[r].uid \in Uid
        /\ UNCHANGED <<users, peers, started>>
    BY TypeStep DEF IInv, Load, Changing, Looking, Knowing, Call, bounds
  <1>1. CASE There(call[r].uid)
    <2>1. /\ pc'[r] = (IF pc[r] = "load" THEN "put" ELSE "reput")
          /\ call' = call /\ copy'[r] = users[call[r].uid]
          /\ \A q \in Rid \ {r} : pc'[q] = pc[q] /\ copy'[q] = copy[q]
      BY <1>0, <1>1 DEF Load, Goto, TypeOK
    <2>2. users[call[r].uid] \in Row
      BY <1>0, <1>1 DEF TypeOK, There
    <2>3. Changing(r)'
      BY <1>0, <2>1, <2>2 DEF Changing, Looking, Knowing, There
    <2>4. Asking(r)' /\ ~Registering(r)'
      BY <2>1 DEF Asking, Registering
    <2> QED  BY <1>0, <2>1, <2>3, <2>4, QuietStep
  <1>2. CASE ~There(call[r].uid)
    BY <1>0, <1>2, FinishStep DEF Load
  <1> QED  BY <1>1, <1>2

\* The row that was read goes into the cache.
LEMMA PutStep ==
    ASSUME IInv, NEW r \in Rid, Put(r)
    PROVE  IInv'
  <1>0. /\ TypeOK' /\ pc[r] \in {"put", "reput"} /\ Changing(r)
        /\ UNCHANGED <<users, peers, started>>
    BY TypeStep DEF IInv, Put, bounds
  <1>1. PICK row : row = copy[r]
    OBVIOUS
  <1>2. PICK second \in BOOLEAN : second = (pc[r] = "reput")
    OBVIOUS
  <1>3. Found(r, row, second)
    BY <1>1, <1>2 DEF Put
  <1>4. call[r].op = "updatePassword" /\ ~second => row.secret \in call[r].seen
    BY <1>0, <1>1, <1>2 DEF Changing, Looking
  <1> QED  BY <1>0, <1>2, <1>3, <1>4, FoundStep

\* Whoever is under way learns of the password that is written.
LEMMA UpdateStep ==
    ASSUME IInv, NEW r \in Rid, Update(r)
    PROVE  IInv'
  <1> DEFINE u == call[r].uid
  <1>0. /\ TypeOK /\ pc[r] = "update" /\ UNCHANGED <<copies, peers, started, losses>>
        /\ call[r] \in Call /\ u \in Uid /\ There(u) /\ call[r].new \in Secret
        /\ users[u] \in Row
    BY DEF IInv, Update, Changing, Knowing, Call, bounds, There, TypeOK
  <1>1. /\ users' = [users EXCEPT ![u].secret = call[r].new]
        /\ pc' = [pc EXCEPT ![r] = "done"] /\ copy' = [copy EXCEPT ![r] = Nil]
        /\ call' = [q \in Rid |->
             IF q = r THEN Nil
             ELSE IF call[q] # Nil /\ call[q].uid = u
             THEN [call[q] EXCEPT !.seen = @ \cup {call[r].new}] ELSE call[q]]
    BY DEF Update, Goto
  <1> HIDE DEF u
  <1>2. /\ users'[u] \in Row /\ users'[u] # Nil
        /\ users'[u].secret = call[r].new /\ users'[u].mail = users[u].mail
        /\ \A v \in Uid \ {u} : users'[v] = users[v]
    BY <1>0, <1>1, AccountsAssumption DEF TypeOK, Row
  <1>3. /\ \A v \in Uid : There(v)' <=> There(v)
        /\ \A v \in Uid : There(v) => users'[v].mail = users[v].mail
    BY <1>0, <1>2 DEF There
  <1>4. ASSUME NEW q \in Rid \ {r}, call[q] \in Call
        PROVE  /\ call'[q] \in Call /\ call'[q].op = call[q].op
               /\ call'[q].mail = call[q].mail /\ call'[q].name = call[q].name
               /\ call'[q].old = call[q].old /\ call'[q].new = call[q].new
               /\ call'[q].uid = call[q].uid /\ call'[q].before = call[q].before
               /\ call[q].seen \subseteq call'[q].seen
               /\ call[q].uid = u => call[r].new \in call'[q].seen
    <2>1. call'[q] = IF call[q].uid = u
                     THEN [call[q] EXCEPT !.seen = @ \cup {call[r].new}] ELSE call[q]
      BY <1>1, <1>4, AccountsAssumption
    <2> QED  BY <1>0, <1>4, <2>1 DEF Call
  <1>5. TypeOK'
    <2>1. users' \in [Uid -> Row \cup {Nil}]
      BY <1>0, <1>1, <1>2 DEF TypeOK
    <2>2. call' \in [Rid -> Call \cup {Nil}]
      BY <1>0, <1>1, <1>4 DEF TypeOK
    <2> QED  BY <1>0, <1>1, <2>1, <2>2 DEF TypeOK, Pc
  <1>6. pc'[r] = "done" /\ \A q \in Rid \ {r} : pc'[q] = pc[q] /\ copy'[q] = copy[q]
    BY <1>0, <1>1 DEF TypeOK
  <1>7. Unborn'
    BY <1>0, <1>3, <1>6, Numbers DEF IInv, Unborn, Registering, There
  <1>8. Mailed'
    BY <1>0, <1>3 DEF IInv, Mailed, TypeOK
  <1>9. Asking(r)' /\ Changing(r)'
    BY <1>6 DEF Asking, Changing, Registering, Looking, Knowing
  <1>10. ASSUME NEW q \in Rid \ {r}
         PROVE  Asking(q)' /\ Changing(q)'
    <2>1. Asking(q)'
      BY <1>3, <1>4, <1>6 DEF IInv, Asking, Registering, Call
    <2>2. Changing(q)'
      <3>1. SUFFICES ASSUME Looking(q) \/ Knowing(q)
                     PROVE  Changing(q)'
        BY <1>6 DEF Changing, Looking, Knowing
      <3>2. Changing(q) /\ call[q] \in Call /\ call[q].uid \in Uid
        BY <3>1 DEF IInv, Changing, Call
      <3> QED  BY <1>2, <1>3, <1>4, <1>6, <3>1, <3>2 DEF Changing, Looking, Knowing
    <2> QED  BY <2>1, <2>2
  <1> QED  BY <1>5, <1>7, <1>8, <1>9, <1>10 DEF IInv

\* A cached copy runs out.
LEMMA RunOutStep ==
    ASSUME IInv, RunOut
    PROVE  IInv'
  <1>1. TypeOK'
    BY AccountsAssumption DEF IInv, TypeOK, RunOut, Lose, locals
  <1>2. UNCHANGED <<users, pc, call, copy, peers, started>>
    BY DEF RunOut, locals
  <1> QED  BY <1>1, <1>2 DEF IInv, Unborn, Mailed, Asking, Changing, Registering,
             Looking, Knowing, There

\* Every step keeps the invariant.
LEMMA NextStep == IInv /\ [Next]_vars => IInv'
  <1> SUFFICES ASSUME IInv, [Next]_vars PROVE IInv'
    OBVIOUS
  <1>1. CASE Register \/ GetUserById \/ UpdatePassword
    BY <1>1, ArriveStep
  <1>2. ASSUME NEW r \in Rid, Fail(r)
        PROVE  IInv'
    BY <1>2, TypeStep, FinishStep DEF Fail
  <1>3. ASSUME NEW r \in Rid,
               \/ FindByEmail(r) \/ Insert(r)
               \/ Get(r) \/ Load(r) \/ Put(r) \/ Update(r)
        PROVE  IInv'
    BY <1>3, FindByEmailStep, InsertStep, GetStep, LoadStep, PutStep, UpdateStep
  <1>4. CASE RunOut
    BY <1>4, RunOutStep
  <1>5. CASE UNCHANGED vars
    BY <1>5 DEF vars, locals, bounds, IInv, TypeOK, Unborn, Mailed, Asking, Changing,
          Registering, Looking, Knowing, There
  <1> QED  BY <1>1, <1>2, <1>3, <1>4, <1>5 DEF Next

-----------------------------------------------------------------------------
\* Accounts, cached copies and requests are typed in every state.
THEOREM AccountsTypeCorrect == Spec => []TypeOK
  <1>1. IInv => TypeOK
    BY DEF IInv
  <1> QED  BY InitIInv, NextStep, <1>1, PTL DEF Spec

\* However many registrations overlap, two accounts share an address only when
\* neither registration was asked for after the other account was there.
THEOREM AccountsSharedOnlyByOverlap == Spec => []SharedOnlyByOverlap
  <1>1. IInv => SharedOnlyByOverlap
    BY DEF IInv, Mailed, SharedOnlyByOverlap
  <1> QED  BY InitIInv, NextStep, <1>1, PTL DEF Spec

\* However requests overlap, fail and meet cached copies, a password is replaced
\* only by a change that knew one the account had while it was under way.
THEOREM AccountsReplacedByKnowing == Spec => ReplacedByKnowing
  <1> DEFINE Known == \A u \in Uid : There(u) /\ users'[u] # users[u] =>
                         \E r \in InFlight : /\ call[r].uid = u
                                             /\ call[r].old \in call[r].seen
  <1>1. ASSUME IInv, [Next]_vars PROVE Known
    <2>1. CASE users' = users
      BY <2>1
    <2>2. ASSUME NEW r \in Rid, Insert(r)
          PROVE  Known
      <3>1. users[r] = Nil /\ \A u \in Uid : u # r => users'[u] = users[u]
        BY <1>1, <2>2 DEF Insert, IInv, Unborn, Registering, TypeOK
      <3> QED  BY <3>1 DEF There
    <2>3. ASSUME NEW r \in Rid, Update(r)
          PROVE  Known
      <3>1. r \in InFlight /\ call[r].old \in call[r].seen
        BY <1>1, <2>3 DEF Update, InFlight, IInv, Changing, Knowing
      <3>2. \A u \in Uid : u # call[r].uid => users'[u] = users[u]
        BY <1>1, <2>3 DEF Update, IInv, TypeOK
      <3> QED  BY <3>1, <3>2
    <2>4. \/ users' = users
          \/ \E r \in Rid : Insert(r) \/ Update(r)
      BY <1>1 DEF Next, vars, Register, GetUserById, UpdatePassword, Receive, FindByEmail,
            Get, Load, Put, Fail, RunOut
    <2> QED  BY <2>1, <2>2, <2>3, <2>4
  <1>2. IInv /\ [Next]_vars => [Known]_vars
    BY <1>1
  <1> QED  BY InitIInv, NextStep, <1>2, PTL DEF Spec, ReplacedByKnowing

-----------------------------------------------------------------------------
\* What is asked of the constants: null is no value of a key.
Sound == MaxCalls \in Nat /\ MaxCacheLosses \in Nat /\ Nil \notin Nat \cup Cache!Entry

\* What is about to be stored is a value.
Computed == \A c \in Caller : at[c] = "store" => read[c] # Nil

CacheInv == Cache!TypeOK /\ Computed /\ Cache!Accounted

-----------------------------------------------------------------------------
\* The states the cache may begin in.
LEMMA CacheInit == ASSUME Sound, Cache!Init PROVE CacheInv
  BY DEF Sound, Cache!Init, CacheInv, Cache!TypeOK, Cache!Pc, Computed, Cache!Accounted,
     Cache!Current, Cache!OrZero, Cache!Key

\* What the counter holds when its key is there, and when it is not.
LEMMA CurrentOf ==
    ASSUME Sound, Cache!TypeOK
    PROVE  /\ "counter" \in Cache!Key /\ "lock" \in Cache!Key /\ "memo" \in Cache!Key
           /\ keys["counter"] = Nil => Cache!Current = Nil /\ Cache!OrZero(Cache!Current) = 0
           /\ keys["counter"] # Nil =>
                 /\ keys["counter"] \in Cache!Entry /\ Cache!Current = keys["counter"].val
                 /\ Cache!Current \in Nat /\ Cache!Current # Nil
                 /\ Cache!OrZero(Cache!Current) = Cache!Current
  BY DEF Sound, Cache!TypeOK, Cache!Current, Cache!OrZero, Cache!Key, Cache!Entry

\* A step that leaves the counter and the tally alone.
LEMMA AsideStep ==
    ASSUME CacheInv, Cache!TypeOK', Computed', keys'["counter"] = keys["counter"],
           UNCHANGED Cache!tally
    PROVE  CacheInv'
  BY DEF CacheInv, Cache!Accounted, Cache!Current, Cache!OrZero, Cache!tally

\* The steps of a caller that leave the counter alone.
LEMMA CallerStep ==
    ASSUME Sound, CacheInv, NEW c \in Caller,
           \/ Cache!SetLock(c) \/ Cache!AskLock(c) \/ Cache!TakeLock(c) \/ Cache!ReleaseLock(c)
           \/ Cache!ReadCounter(c) \/ Cache!Remember(c) \/ Cache!Recall(c) \/ Cache!Store(c)
           \/ Cache!Factory(c, Nil) \/ Cache!Factory(c, calls) \/ Cache!Crash(c)
    PROVE  CacheInv'
  <1>0. /\ Cache!TypeOK /\ Computed /\ calls \in Nat /\ Nil \notin Nat
        /\ Cache!Current \in Nat \cup {Nil}
    BY CurrentOf DEF CacheInv, Cache!TypeOK, Sound
  <1>1. CASE \/ Cache!SetLock(c) \/ Cache!AskLock(c) \/ Cache!Remember(c)
             \/ Cache!Recall(c) \/ Cache!Crash(c)
    <2>1. /\ calls' = calls \/ (calls < MaxCalls /\ calls' = calls + 1)
          /\ lost' = lost \/ (lost < MaxCacheLosses /\ lost' = lost + 1)
          /\ at' \in [Caller -> Cache!Pc]
      <3>1. CASE Cache!SetLock(c) \/ Cache!Remember(c)
        BY <1>0, <3>1 DEF Cache!SetLock, Cache!Remember, Cache!Begin, Cache!Goto,
           Cache!TypeOK, Cache!Pc
      <3>2. CASE Cache!AskLock(c) \/ Cache!Recall(c)
        BY <1>0, <3>2 DEF Cache!AskLock, Cache!Recall, Cache!Goto, Cache!bounds,
           Cache!TypeOK, Cache!Pc
      <3>3. CASE Cache!Crash(c)
        BY <1>0, <3>3 DEF Cache!Crash, Cache!Lose, Cache!Goto, Cache!TypeOK, Cache!Pc
      <3> QED  BY <1>1, <3>1, <3>2, <3>3
    <2>2. /\ UNCHANGED <<keys, read, holders, Cache!tally>>
          /\ \A q \in Caller : at'[q] = "store" => at[q] = "store"
      BY <1>0, <1>1 DEF Cache!SetLock, Cache!AskLock, Cache!Remember, Cache!Recall,
         Cache!Crash, Cache!Begin, Cache!Goto, Cache!TypeOK
    <2>3. Cache!TypeOK' /\ Computed'
      BY <1>0, <2>1, <2>2 DEF Cache!TypeOK, Computed, Cache!tally, Sound
    <2> QED  BY <2>2, <2>3, AsideStep
  <1>2. CASE Cache!TakeLock(c) \/ Cache!ReleaseLock(c)
    <2>1. /\ keys' \in [Cache!Key -> Cache!Entry \cup {Nil}]
          /\ keys'["counter"] = keys["counter"]
      <3>1. "lock" \in Cache!Key /\ "counter" \in Cache!Key /\ Cache!LockEntry \in Cache!Entry
        BY DEF Cache!Key, Cache!LockEntry, Cache!Entry
      <3>2. PICK e \in Cache!Entry \cup {Nil} : keys' = [keys EXCEPT !["lock"] = e]
        BY <1>2, <3>1 DEF Cache!TakeLock, Cache!ReleaseLock
      <3> QED  BY <1>0, <3>1, <3>2 DEF Cache!TypeOK
    <2>2. Cache!TypeOK' /\ Computed'
      BY <1>0, <1>2, <2>1 DEF Cache!TakeLock, Cache!ReleaseLock, Cache!Goto, Cache!TypeOK,
         Cache!Pc, Computed, Cache!bounds, Cache!tally
    <2> QED  BY <1>2, <2>1, <2>2, AsideStep DEF Cache!TakeLock, Cache!ReleaseLock
  <1>3. CASE Cache!ReadCounter(c) \/ Cache!Factory(c, Nil) \/ Cache!Factory(c, calls)
    <2>1. /\ calls' \in 0..MaxCalls /\ lost' = lost /\ at' \in [Caller -> Cache!Pc]
          /\ read' \in [Caller -> Nat \cup {Nil}] /\ UNCHANGED <<keys, holders, Cache!tally>>
      BY <1>0, <1>3 DEF Cache!ReadCounter, Cache!Factory, Cache!Begin, Cache!Goto,
         Cache!bounds, Cache!TypeOK, Cache!Pc, Sound
    <2>2. Computed'
      BY <1>0, <1>3 DEF Cache!ReadCounter, Cache!Factory, Cache!Begin, Cache!Goto,
         Cache!TypeOK, Computed
    <2> QED  BY <1>0, <2>1, <2>2, AsideStep DEF Cache!TypeOK, Cache!tally
  <1>4. CASE Cache!Store(c)
    <2>1. read[c] \in Nat
      BY <1>0, <1>4 DEF Cache!Store, Computed, Cache!TypeOK
    <2>2. keys' \in [Cache!Key -> Cache!Entry \cup {Nil}] /\ keys'["counter"] = keys["counter"]
      BY <1>0, <1>4, <2>1, CurrentOf DEF Cache!Store, Cache!Entry, Cache!TypeOK
    <2>3. Cache!TypeOK' /\ Computed'
      BY <1>0, <1>4, <2>2 DEF Cache!Store, Cache!Goto, Cache!TypeOK, Cache!Pc, Computed,
         Cache!bounds, Cache!tally
    <2> QED  BY <1>4, <2>2, <2>3, AsideStep DEF Cache!Store
  <1> QED  BY <1>1, <1>2, <1>3, <1>4

\* The script that swaps counts what it answers, and what it does not answer.
LEMMA CompareAndSwapStep ==
    ASSUME Sound, CacheInv, NEW c \in Caller, NEW ttl \in BOOLEAN, NEW fails \in BOOLEAN,
           Cache!CompareAndSwap(c, ttl, fails)
    PROVE  CacheInv'
  <1>0. Cache!TypeOK /\ Computed /\ counted \in Nat /\ unsure \in Nat /\ "counter" \in Cache!Key
    BY CurrentOf DEF CacheInv, Cache!TypeOK
  <1>1. /\ at' \in [Caller -> Cache!Pc] /\ read' \in [Caller -> Nat \cup {Nil}]
        /\ lost' \in 0..MaxCacheLosses /\ calls' = calls /\ holders' = holders
        /\ \A q \in Caller : at'[q] = "store" => at[q] = "store" /\ read'[q] = read[q]
    BY <1>0 DEF Cache!CompareAndSwap, Cache!Goto, Cache!Lose, Cache!TypeOK, Cache!Pc, Sound
  <1>2. Computed'
    BY <1>0, <1>1 DEF Computed
  <1>3. CASE Cache!Current # read[c]
    <2>1. UNCHANGED <<keys, Cache!tally>>
      BY <1>3 DEF Cache!CompareAndSwap, Cache!Match
    <2>2. Cache!TypeOK'
      BY <1>0, <1>1, <2>1 DEF Cache!TypeOK, Cache!tally
    <2> QED  BY <1>2, <2>1, <2>2, AsideStep
  <1>4. CASE Cache!Current = read[c]
    <2>1. PICK n \in Nat : n = Cache!OrZero(Cache!Current)
      BY CurrentOf, <1>0
    <2>2. keys' = [keys EXCEPT !["counter"] = [val |-> n + 1, expires |-> ttl]]
      BY <1>4, <2>1 DEF Cache!CompareAndSwap, Cache!Match
    <2>3. /\ keys' \in [Cache!Key -> Cache!Entry \cup {Nil}]
          /\ keys'["counter"] = [val |-> n + 1, expires |-> ttl]
          /\ keys'["counter"] \in Cache!Entry
      BY <1>0, <2>1, <2>2 DEF Cache!TypeOK, Cache!Entry
    <2>4. \/ counted' = counted + 1 /\ unsure' = unsure
          \/ unsure' = unsure + 1 /\ counted' = counted
      BY <1>4 DEF Cache!CompareAndSwap, Cache!Match
    <2>5. Cache!TypeOK'
      BY <1>0, <1>1, <2>3, <2>4 DEF Cache!TypeOK
    <2>6. keys'["counter"] # Nil /\ keys'["counter"].val = n + 1 /\ n + 1 # Nil
      BY <2>3 DEF Sound
    <2>7. Cache!OrZero(Cache!Current)' = n + 1
      BY <2>6 DEF Cache!Current, Cache!OrZero
    <2>8. counted <= n /\ n <= counted + unsure
      BY <2>1 DEF CacheInv, Cache!Accounted
    <2>9. counted' <= n + 1 /\ n + 1 <= counted' + unsure'
      BY <1>0, <2>4, <2>8
    <2> QED  BY <1>2, <2>5, <2>7, <2>9 DEF CacheInv, Cache!Accounted
  <1> QED  BY <1>3, <1>4

\* The script that increments counts what it did before it stopped.
LEMMA MultiOperationStep ==
    ASSUME Sound, CacheInv, NEW c \in Caller, NEW del \in BOOLEAN, NEW falsy \in BOOLEAN,
           Cache!AtomicMultiOperation(c, del, falsy)
    PROVE  CacheInv'
  <1>0. /\ Cache!TypeOK /\ Computed /\ counted \in Nat /\ unsure \in Nat /\ calls \in Nat
        /\ "counter" \in Cache!Key /\ "memo" \in Cache!Key
    BY CurrentOf DEF CacheInv, Cache!TypeOK
  <1>1. /\ calls < MaxCalls /\ calls' = calls + 1 /\ at' = [at EXCEPT ![c] = "idle"]
        /\ UNCHANGED <<read, lost, holders>>
    BY DEF Cache!AtomicMultiOperation, Cache!Begin, Cache!Goto
  <1>2. Computed'
    BY <1>0, <1>1 DEF Computed, Cache!TypeOK
  <1> DEFINE old == IF del THEN Nil ELSE keys["counter"]
             new == IF old = Nil THEN [val |-> 1, expires |-> FALSE]
                                 ELSE [old EXCEPT !.val = @ + 1]
  <1>3. PICK n \in Nat : n = (IF del THEN 0 ELSE Cache!OrZero(Cache!Current))
    BY CurrentOf, <1>0
  <1>4. new \in Cache!Entry /\ new.val = n + 1
    BY <1>0, <1>3, CurrentOf DEF Cache!Entry
  <1>5. /\ keys' = [keys EXCEPT !["counter"] = new,
              !["memo"] = IF falsy THEN @ ELSE [val |-> calls, expires |-> FALSE]]
    BY DEF Cache!AtomicMultiOperation
  <1> HIDE DEF new
  <1>6. keys' \in [Cache!Key -> Cache!Entry \cup {Nil}] /\ keys'["counter"] = new
    BY <1>0, <1>4, <1>5 DEF Cache!TypeOK, Cache!Entry
  <1>7. Cache!OrZero(Cache!Current)' = n + 1
    BY <1>4, <1>6 DEF Cache!Current, Cache!OrZero, Sound
  <1>8. /\ counted' = (IF del THEN 0 ELSE counted) + (IF falsy THEN 0 ELSE 1)
        /\ unsure' = (IF del THEN 0 ELSE unsure) + (IF falsy THEN 1 ELSE 0)
    BY DEF Cache!AtomicMultiOperation, Cache!tally
  <1>9. /\ (IF del THEN 0 ELSE counted) <= n
        /\ n <= (IF del THEN 0 ELSE counted) + (IF del THEN 0 ELSE unsure)
    BY <1>3 DEF CacheInv, Cache!Accounted
  <1>10. counted' <= n + 1 /\ n + 1 <= counted' + unsure' /\ counted' \in Nat /\ unsure' \in Nat
    BY <1>0, <1>8, <1>9
  <1>11. Cache!TypeOK'
    BY <1>0, <1>1, <1>6, <1>10 DEF Cache!TypeOK, Cache!Pc, Sound
  <1> QED  BY <1>2, <1>7, <1>10, <1>11 DEF CacheInv, Cache!Accounted

\* A key that goes takes what was counted along.
LEMMA VanishStep ==
    ASSUME Sound, CacheInv, NEW K \in SUBSET Cache!Key, Cache!Vanish(K),
           UNCHANGED <<at, read, calls, holders>>,
           lost' \in 0..MaxCacheLosses
    PROVE  CacheInv'
  <1>0. Cache!TypeOK /\ Computed /\ "counter" \in Cache!Key
    BY CurrentOf DEF CacheInv
  <1>1. keys' \in [Cache!Key -> Cache!Entry \cup {Nil}]
    BY <1>0 DEF Cache!Vanish, Cache!TypeOK
  <1>2. Computed'
    BY <1>0 DEF Computed
  <1>3. CASE "counter" \in K
    <2>1. keys'["counter"] = Nil /\ counted' = 0 /\ unsure' = 0
      BY <1>0, <1>3 DEF Cache!Vanish
    <2>2. Cache!OrZero(Cache!Current)' = 0
      BY <2>1 DEF Cache!OrZero, Cache!Current
    <2>3. Cache!TypeOK'
      BY <1>0, <1>1, <2>1 DEF Cache!TypeOK
    <2> QED  BY <1>2, <2>1, <2>2, <2>3 DEF CacheInv, Cache!Accounted
  <1>4. CASE "counter" \notin K
    <2>1. keys'["counter"] = keys["counter"] /\ UNCHANGED Cache!tally
      BY <1>0, <1>4 DEF Cache!Vanish
    <2>2. Cache!TypeOK'
      BY <1>0, <1>1, <2>1 DEF Cache!TypeOK, Cache!tally
    <2> QED  BY <1>2, <2>1, <2>2, AsideStep
  <1> QED  BY <1>3, <1>4

\* Every step keeps the invariant.
LEMMA CacheNext == ASSUME Sound, CacheInv, [Cache!Next]_(Cache!vars) PROVE CacheInv'
  <1>1. ASSUME NEW k \in Cache!Key, Cache!RunOut(k)
        PROVE  CacheInv'
    <2>1. lost' \in 0..MaxCacheLosses /\ {k} \in SUBSET Cache!Key
      BY <1>1 DEF Cache!RunOut, Cache!Lose, CacheInv, Cache!TypeOK, Sound
    <2> QED  BY <1>1, <2>1, VanishStep DEF Cache!RunOut
  <1>2. CASE Cache!Reset
    <2>1. lost' \in 0..MaxCacheLosses /\ Cache!Key \in SUBSET Cache!Key
      BY <1>2 DEF Cache!Reset, Cache!Lose, CacheInv, Cache!TypeOK, Sound
    <2> QED  BY <1>2, <2>1, VanishStep DEF Cache!Reset
  <1>3. ASSUME NEW c \in Caller,
               \/ Cache!SetLock(c) \/ Cache!AskLock(c)
               \/ Cache!TakeLock(c) \/ Cache!ReleaseLock(c)
               \/ Cache!ReadCounter(c) \/ Cache!Remember(c) \/ Cache!Recall(c) \/ Cache!Store(c)
               \/ (\E v \in {Nil, calls} : Cache!Factory(c, v)) \/ Cache!Crash(c)
        PROVE  CacheInv'
    BY <1>3, CallerStep
  <1>4. ASSUME NEW c \in Caller, \E ttl, fails \in BOOLEAN : Cache!CompareAndSwap(c, ttl, fails)
        PROVE  CacheInv'
    BY <1>4, CompareAndSwapStep
  <1>5. ASSUME NEW c \in Caller,
               \E del, falsy \in BOOLEAN : Cache!AtomicMultiOperation(c, del, falsy)
        PROVE  CacheInv'
    BY <1>5, MultiOperationStep
  <1>6. CASE UNCHANGED Cache!vars
    BY <1>6 DEF Cache!vars, Cache!bounds, Cache!tally, CacheInv, Cache!TypeOK, Computed,
       Cache!Accounted, Cache!Current, Cache!OrZero
  <1> QED  BY <1>1, <1>2, <1>3, <1>4, <1>5, <1>6 DEF Cache!Next

-----------------------------------------------------------------------------
\* Keys, callers and tallies are typed in every state.
THEOREM CacheTypeCorrect == ASSUME Sound PROVE Cache!Spec => []Cache!TypeOK
  <1>1. Cache!Init => CacheInv
    BY CacheInit
  <1>2. CacheInv /\ [Cache!Next]_(Cache!vars) => CacheInv'
    BY CacheNext
  <1>3. CacheInv => Cache!TypeOK
    BY DEF CacheInv
  <1> QED  BY <1>1, <1>2, <1>3, PTL DEF Cache!Spec

\* However many callers swap and increment, and whatever is fails, the counter
\* holds what was answered and no more than that and what failed.
THEOREM CacheAccounted == ASSUME Sound PROVE Cache!Spec => []Accounted
  <1>1. Cache!Init => CacheInv
    BY CacheInit
  <1>2. CacheInv /\ [Cache!Next]_(Cache!vars) => CacheInv'
    BY CacheNext
  <1>3. CacheInv => Accounted
    BY DEF CacheInv, Accounted
  <1> QED  BY <1>1, <1>2, <1>3, PTL DEF Cache!Spec

-----------------------------------------------------------------------------
(* QrActions.  The provers have no induction over an operator: it is had   *)
(* from the order of the naturals, for the set of the numbers of which a   *)
(* formula is true.                                                        *)

\* A set of naturals with 0 and every successor is all of them.
LEMMA SetInduction ==
    ASSUME NEW T \in SUBSET Nat, 0 \in T, \A n \in T : n + 1 \in T
    PROVE  T = Nat
  <1> SUFFICES ASSUME T # Nat PROVE FALSE
    OBVIOUS
  <1> DEFINE R == {ss \in Nat \X Nat : ss[1] < ss[2]}
             U == Nat \ T
  <1>1. IsWellFoundedOn(R, Nat)
    BY NatLessThanWellFounded DEF OpToRel
  <1>2. U \subseteq Nat /\ U # {}
    OBVIOUS
  <1>3. \A x, y \in Nat : <<y, x>> \in R <=> y < x
    OBVIOUS
  <1> HIDE DEF R, U
  <1>4. PICK x \in U : \A y \in U : ~ (<<y, x>> \in R)
    BY <1>1, <1>2, WFMin
  <1> USE DEF U
  <1>5. x \in Nat /\ x # 0 /\ x - 1 \in Nat /\ x - 1 < x
    BY <1>4
  <1>6. x - 1 \in T
    BY <1>3, <1>4, <1>5
  <1>7. x - 1 + 1 \in T
    BY <1>6
  <1> QED  BY <1>4, <1>5, <1>7

\* What sanitizeValue does at one depth with what it does at the next.
Clean(f, depth) == [v \in Tree |->
    IF depth > MaxDepth THEN Actions!Text("[Nested Object]")
    ELSE IF Actions!IsArray(v)
    THEN LET kept == IF Len(v.items) < MaxItems THEN Len(v.items) ELSE MaxItems
         IN Actions!Array([i \in 1..kept |-> f[depth + 1][v.items[i]]])
    ELSE IF Actions!IsObject(v)
    THEN Actions!Object([k \in DOMAIN v.fields |->
                            IF k \in Actions!Sensitive THEN Actions!Hidden
                            ELSE f[depth + 1][v.fields[k]]])
    ELSE Actions!Cut(v)]

\* What is done at a depth depends on the next one only, and past the limit on none.
LEMMA CleanLocal ==
    ASSUME NEW f, NEW g, NEW d \in Nat, d > MaxDepth \/ f[d + 1] = g[d + 1]
    PROVE  Clean(f, d) = Clean(g, d)
  <1>1. CASE d > MaxDepth
    BY <1>1 DEF Clean
  <1>2. CASE f[d + 1] = g[d + 1]
    BY <1>2 DEF Clean
  <1> QED  BY <1>1, <1>2

\* The recursion of sanitizeValue ends: each depth has one result.
LEMMA SanitizeExists == \E f : f = [d \in Nat |-> Clean(f, d)]
  <1> DEFINE From(k) == \E f : \A d \in Nat : d + k > MaxDepth => f[d] = Clean(f, d)
             T == {k \in Nat : From(k)}
  <1>0. MaxDepth \in Nat
    BY PayloadsAssumption DEF Actions!TreeSound
  <1>1. 0 \in T
    <2> DEFINE f == [d \in Nat |-> Clean(d, d)]
    <2>1. \A d \in Nat : d + 0 > MaxDepth => f[d] = Clean(f, d)
      BY CleanLocal, <1>0
    <2> QED  BY <2>1
  <1>2. ASSUME NEW k \in T PROVE k + 1 \in T
    <2>1. PICK f : \A d \in Nat : d + k > MaxDepth => f[d] = Clean(f, d)
      BY <1>2
    <2> DEFINE g == [d \in Nat |-> Clean(f, d)]
    <2>2. ASSUME NEW d \in Nat, d + (k + 1) > MaxDepth PROVE g[d] = Clean(g, d)
      <3>1. g[d] = Clean(f, d)
        OBVIOUS
      <3>2. d + 1 \in Nat /\ (d + 1) + k > MaxDepth
        BY <1>0, <2>2
      <3>3. f[d + 1] = Clean(f, d + 1) /\ g[d + 1] = Clean(f, d + 1)
        BY <2>1, <3>2
      <3> HIDE DEF g
      <3>4. Clean(f, d) = Clean(g, d)
        BY <3>3, CleanLocal
      <3> QED  BY <3>1, <3>4
    <2>3. From(k + 1)
      BY <2>2
    <2> QED  BY <2>3
  <1>3. T \in SUBSET Nat
    OBVIOUS
  <1> HIDE DEF T
  <1>4. MaxDepth + 1 \in T
    BY <1>0, <1>1, <1>2, <1>3, SetInduction
  <1>5. PICK f : \A d \in Nat : d + (MaxDepth + 1) > MaxDepth => f[d] = Clean(f, d)
    BY <1>4 DEF T
  <1> DEFINE g == [d \in Nat |-> Clean(f, d)]
  <1>6. \A d \in Nat : f[d] = Clean(f, d) /\ g[d] = f[d]
    BY <1>0, <1>5
  <1>7. \A d \in Nat : Clean(f, d) = Clean(g, d)
    <2> SUFFICES ASSUME NEW d \in Nat PROVE Clean(f, d) = Clean(g, d)
      OBVIOUS
    <2>1. d + 1 \in Nat /\ f[d + 1] = g[d + 1]
      BY <1>6
    <2> HIDE DEF g
    <2> QED  BY <2>1, CleanLocal
  <1>8. g = [d \in Nat |-> Clean(g, d)]
    BY <1>7
  <1> QED  BY <1>8

\* sanitizeValue satisfies its equations.
LEMMA SanitizeDefined ==
    ASSUME NEW d \in Nat
    PROVE  Actions!SanitizeValue[d] = Clean(Actions!SanitizeValue, d)
  <1>1. Actions!SanitizeValue = CHOOSE f : f = [e \in Nat |-> Clean(f, e)]
    BY DEF Actions!SanitizeValue, Clean
  <1>2. Actions!SanitizeValue = [e \in Nat |-> Clean(Actions!SanitizeValue, e)]
    BY <1>1, SanitizeExists
  <1> QED  BY <1>2

-----------------------------------------------------------------------------
\* The parts at one level from those at the level before.
Deeper(v, f, n) == IF n = 0 THEN {<< << >>, v>>}
                   ELSE UNION {Actions!Parts(t) : t \in f[n - 1]}

\* The levels of a tree are defined, for every tree.
LEMMA BelowExists ==
    ASSUME NEW v
    PROVE  \E f : f = [n \in 0..Levels |-> Deeper(v, f, n)]
  <1> DEFINE To(k) == \E f : \A n \in Nat : n <= k => f[n] = Deeper(v, f, n)
             T == {k \in Nat : To(k)}
  <1>0. Levels \in Nat
    BY PayloadsAssumption DEF Actions!TreeSound
  <1>1. 0 \in T
    <2> DEFINE f == [n \in Nat |-> {<< << >>, v>>}]
    <2>1. \A n \in Nat : n <= 0 => f[n] = Deeper(v, f, n)
      BY DEF Deeper
    <2> QED  BY <2>1
  <1>2. ASSUME NEW k \in T PROVE k + 1 \in T
    <2>1. PICK f : \A n \in Nat : n <= k => f[n] = Deeper(v, f, n)
      BY <1>2
    <2> DEFINE g == [n \in Nat |-> Deeper(v, f, n)]
    <2>2. ASSUME NEW n \in Nat, n <= k + 1 PROVE g[n] = Deeper(v, g, n)
      <3>1. CASE n = 0
        BY <3>1 DEF Deeper
      <3>2. CASE n # 0
        <4>1. n - 1 \in Nat /\ n - 1 <= k
          BY <2>2, <3>2
        <4>2. f[n - 1] = g[n - 1]
          BY <2>1, <4>1
        <4>3. g[n] = Deeper(v, f, n)
          OBVIOUS
        <4> HIDE DEF g
        <4> QED  BY <4>2, <4>3, <3>2 DEF Deeper
      <3> QED  BY <3>1, <3>2
    <2>3. To(k + 1)
      BY <2>2
    <2> QED  BY <2>3
  <1>3. T \in SUBSET Nat
    OBVIOUS
  <1> HIDE DEF T
  <1>4. Levels \in T
    BY <1>0, <1>1, <1>2, <1>3, SetInduction
  <1>5. PICK f : \A n \in Nat : n <= Levels => f[n] = Deeper(v, f, n)
    BY <1>4 DEF T
  <1> DEFINE g == [n \in 0..Levels |-> f[n]]
  <1>6. ASSUME NEW n \in 0..Levels PROVE g[n] = Deeper(v, g, n)
    <2>1. n \in Nat /\ n <= Levels /\ g[n] = Deeper(v, f, n)
      BY <1>0, <1>5
    <2>2. n # 0 => n - 1 \in 0..Levels /\ g[n - 1] = f[n - 1]
      BY <1>0, <2>1
    <2> HIDE DEF g
    <2> QED  BY <2>1, <2>2 DEF Deeper
  <1>7. g = [n \in 0..Levels |-> Deeper(v, g, n)]
    BY <1>6
  <1> QED  BY <1>7

\* The levels satisfy their equation.
LEMMA BelowDefined ==
    ASSUME NEW v, NEW n \in 0..Levels
    PROVE  Actions!Below(v)[n] = Deeper(v, Actions!Below(v), n)
  <1>1. Actions!Below(v) = CHOOSE f : f = [m \in 0..Levels |-> Deeper(v, f, m)]
    BY DEF Actions!Below, Deeper
  <1>2. Actions!Below(v) = [m \in 0..Levels |-> Deeper(v, Actions!Below(v), m)]
    BY <1>1, BelowExists
  <1> QED  BY <1>2

-----------------------------------------------------------------------------
\* A value is a text, an object or an array, and never two of them.
LEMMA Shapes ==
    /\ \A t : /\ ~Actions!IsObject(Actions!Text(t)) /\ ~Actions!IsArray(Actions!Text(t))
              /\ Actions!Text(t).text = t
    /\ \A f : /\ Actions!IsObject(Actions!Object(f)) /\ ~Actions!IsArray(Actions!Object(f))
              /\ Actions!Object(f).fields = f
    /\ \A s : /\ Actions!IsArray(Actions!Array(s)) /\ ~Actions!IsObject(Actions!Array(s))
              /\ Actions!Array(s).items = s
  BY DEF Actions!Text, Actions!Object, Actions!Array, Actions!IsObject, Actions!IsArray

Letters == {Actions!Text("short"), Actions!Text("empty"), Actions!Text("long")}
Withheld == {Actions!Hidden, Actions!Text("[Nested Object]")}
Readable == {Actions!Text("short"), Actions!Text("empty"), Actions!Text("long...")}

\* What is withheld is no text of a payload.
LEMMA WithheldApart == Withheld \cap Readable = {}
  BY Shapes DEF Withheld, Readable, Actions!Hidden

\* Past the limit nothing is shown.
LEMMA TooDeep ==
    ASSUME NEW v \in Tree, NEW d \in Nat, d > MaxDepth
    PROVE  Actions!SanitizeValue[d][v] \in Withheld
  BY SanitizeDefined DEF Clean, Withheld

\* What is shown of a text, of an object and of an array within the limit.
LEMMA OfText ==
    ASSUME NEW v \in Letters, v \in Tree, NEW d \in 0..MaxDepth
    PROVE  /\ Actions!SanitizeValue[d][v] = Actions!Cut(v) /\ Actions!Cut(v) \in Readable
           /\ ~Actions!IsObject(v) /\ ~Actions!IsArray(v)
           /\ ~Actions!IsObject(Actions!Cut(v)) /\ ~Actions!IsArray(Actions!Cut(v))
  <1>1. d \in Nat /\ ~(d > MaxDepth)
    BY PayloadsAssumption DEF Actions!TreeSound
  <1>2. ~Actions!IsObject(v) /\ ~Actions!IsArray(v)
    BY Shapes DEF Letters
  <1>3. Actions!SanitizeValue[d][v] = Actions!Cut(v)
    BY <1>1, <1>2, SanitizeDefined DEF Clean
  <1>4. Actions!Cut(v) \in Readable
    BY DEF Actions!Cut, Letters, Readable
  <1>5. ~Actions!IsObject(Actions!Cut(v)) /\ ~Actions!IsArray(Actions!Cut(v))
    BY <1>4, Shapes DEF Readable
  <1> QED  BY <1>2, <1>3, <1>4, <1>5

LEMMA OfObject ==
    ASSUME NEW v \in Tree, Actions!IsObject(v), NEW d \in 0..MaxDepth
    PROVE  Actions!SanitizeValue[d][v] =
             Actions!Object([k \in DOMAIN v.fields |->
                               IF k \in Actions!Sensitive THEN Actions!Hidden
                               ELSE Actions!SanitizeValue[d + 1][v.fields[k]]])
  <1>1. d \in Nat /\ ~(d > MaxDepth)
    BY PayloadsAssumption DEF Actions!TreeSound
  <1>2. ~Actions!IsArray(v)
    BY DEF Actions!IsObject, Actions!IsArray
  <1> QED  BY <1>1, <1>2, SanitizeDefined DEF Clean

Kept(v) == IF Len(v.items) < MaxItems THEN Len(v.items) ELSE MaxItems

LEMMA OfArray ==
    ASSUME NEW v \in Tree, Actions!IsArray(v), NEW d \in 0..MaxDepth
    PROVE  Actions!SanitizeValue[d][v] =
             Actions!Array([i \in 1..Kept(v) |->
                               Actions!SanitizeValue[d + 1][v.items[i]]])
  <1>1. d \in Nat /\ ~(d > MaxDepth)
    BY PayloadsAssumption DEF Actions!TreeSound
  <1> QED  BY <1>1, SanitizeDefined DEF Clean, Kept

\* The parts of a tree's parts.
LEMMA TreeShape ==
    ASSUME NEW v \in Tree
    PROVE  \/ v \in Letters
           \/ /\ Actions!IsObject(v) /\ v = Actions!Object(v.fields)
              /\ \A k \in DOMAIN v.fields : v.fields[k] \in Tree
           \/ Actions!IsArray(v) /\ v = Actions!Array(v.items) /\ v.items \in Seq(Tree)
  BY PayloadsAssumption DEF Actions!TreeSound, Letters

-----------------------------------------------------------------------------
(* One level down, in the payload and in what is shown of it.              *)

\* A way through fields, by their names, and through arrays, by place.
Named == {"item"} \cup UNION {DOMAIN v.fields : v \in {u \in Tree : Actions!IsObject(u)}}
Step == Named \X Nat
Way == Seq(Step)

Shown(way) == Actions!ToBeShown(way)

\* A way is shown if all but its last step is, and that is.
LEMMA ShownOneMore ==
    ASSUME NEW way \in Way, NEW e \in Step
    PROVE  /\ Append(way, e) \in Way /\ Len(Append(way, e)) = Len(way) + 1
           /\ Shown(Append(way, e)) <=>
                /\ Shown(way) /\ Len(way) + 1 <= MaxDepth
                /\ e[1] \notin Actions!Sensitive /\ e[2] <= MaxItems
  <1> DEFINE more == Append(way, e)
             n == Len(way)
  <1>1. /\ more \in Way /\ Len(more) = n + 1 /\ n \in Nat
        /\ DOMAIN way = 1..n /\ DOMAIN more = 1..(n + 1)
        /\ more[n + 1] = e /\ \A i \in 1..n : more[i] = way[i]
    BY DEF Way
  <1>2. MaxDepth \in Nat
    BY PayloadsAssumption DEF Actions!TreeSound
  <1> HIDE DEF more, n
  <1>3. 1..(n + 1) = (1..n) \cup {n + 1}
    BY <1>1
  <1>4. Shown(more) <=>
          /\ Len(more) <= MaxDepth
          /\ \A i \in 1..n : way[i][1] \notin Actions!Sensitive /\ way[i][2] <= MaxItems
          /\ e[1] \notin Actions!Sensitive /\ e[2] <= MaxItems
    BY <1>1, <1>3 DEF Shown, Actions!ToBeShown
  <1>5. Shown(way) <=>
          /\ n <= MaxDepth
          /\ \A i \in 1..n : way[i][1] \notin Actions!Sensitive /\ way[i][2] <= MaxItems
    BY <1>1 DEF Shown, Actions!ToBeShown, n
  <1>6. Shown(more) <=> /\ Shown(way) /\ n + 1 <= MaxDepth
                        /\ e[1] \notin Actions!Sensitive /\ e[2] <= MaxItems
    BY <1>1, <1>2, <1>4, <1>5
  <1> QED  BY <1>1, <1>6 DEF more, n

\* The parts of an object, of an array and of a text.
LEMMA PartsOfObject ==
    ASSUME NEW way, NEW f
    PROVE  Actions!Parts(<<way, Actions!Object(f)>>)
             = {<<Append(way, <<k, 0>>), f[k]>> : k \in DOMAIN f}
  BY Shapes DEF Actions!Parts

LEMMA PartsOfArray ==
    ASSUME NEW way, NEW s
    PROVE  Actions!Parts(<<way, Actions!Array(s)>>)
             = {<<Append(way, <<"item", i>>), s[i]>> : i \in DOMAIN s}
  BY Shapes DEF Actions!Parts

LEMMA PartsOfText ==
    ASSUME NEW way, NEW v, ~Actions!IsObject(v), ~Actions!IsArray(v)
    PROVE  Actions!Parts(<<way, v>>) = {}
  BY DEF Actions!Parts

\* What is kept of an array.
LEMMA KeptItems ==
    ASSUME NEW v \in Tree, Actions!IsArray(v)
    PROVE  /\ Kept(v) \in Nat
           /\ DOMAIN v.items = 1..Len(v.items) /\ \A i \in DOMAIN v.items : v.items[i] \in Tree
           /\ \A i \in Nat : i \in 1..Kept(v) <=> i \in DOMAIN v.items /\ i <= MaxItems
  <1>1. v.items \in Seq(Tree) /\ MaxItems \in Nat
    BY TreeShape, Shapes, PayloadsAssumption DEF Actions!TreeSound, Letters
  <1>2. Len(v.items) \in Nat /\ DOMAIN v.items = 1..Len(v.items)
    BY <1>1
  <1>3. \A i \in DOMAIN v.items : v.items[i] \in Tree
    BY <1>1, <1>2
  <1> QED  BY <1>1, <1>2, <1>3 DEF Kept

\* The steps that a way is made of.
LEMMA Places ==
    /\ "item" \notin Actions!Sensitive
    /\ \A i \in Nat : <<"item", i>> \in Step
  BY DEF Actions!Sensitive, Step, Named

LEMMA Fields ==
    ASSUME NEW v \in Tree, Actions!IsObject(v), NEW k \in DOMAIN v.fields
    PROVE  <<k, 0>> \in Step /\ v = Actions!Object(v.fields) /\ v.fields[k] \in Tree
  <1>1. k \in Named
    BY DEF Named
  <1>2. v = Actions!Object(v.fields) /\ v.fields[k] \in Tree
    BY TreeShape, Shapes DEF Letters
  <1> QED  BY <1>1, <1>2 DEF Step

\* t is what is shown of a part of v.
PartOf(way, v, n, t) ==
    \E w \in Tree :
        /\ <<t[1], w>> \in Actions!Parts(<<way, v>>)
        /\ t = <<t[1], Actions!SanitizeValue[n][w]>>
        /\ t[1] \in Way /\ Len(t[1]) = n /\ Shown(t[1])

\* What is shown of a part is a part of what is shown.
LEMMA LevelDown ==
    ASSUME NEW v \in Tree, NEW n \in 0..MaxDepth, NEW way \in Way, Len(way) = n, Shown(way),
           NEW t \in Actions!Parts(<<way, Actions!SanitizeValue[n][v]>>)
    PROVE  t[2] \in Withheld \/ PartOf(way, v, n + 1, t)
  <1> DEFINE S == Actions!SanitizeValue
  <1>0. /\ MaxDepth \in Nat /\ MaxItems \in Nat /\ n \in Nat /\ n + 1 \in Nat
        /\ n + 1 > MaxDepth \/ n + 1 <= MaxDepth
    BY PayloadsAssumption DEF Actions!TreeSound
  <1>1. ASSUME NEW e \in Step, NEW w \in Tree, n + 1 <= MaxDepth,
               e[1] \notin Actions!Sensitive, e[2] <= MaxItems,
               t = <<Append(way, e), S[n + 1][w]>>,
               <<Append(way, e), w>> \in Actions!Parts(<<way, v>>)
        PROVE  PartOf(way, v, n + 1, t)
    <2>1. t[1] = Append(way, e) /\ t = <<t[1], S[n + 1][w]>>
      BY <1>1
    <2>2. Append(way, e) \in Way /\ Len(Append(way, e)) = n + 1 /\ Shown(Append(way, e))
      BY <1>1, ShownOneMore
    <2>3. t[1] \in Way /\ Len(t[1]) = n + 1 /\ Shown(t[1]) /\ <<t[1], w>> \in Actions!Parts(<<way, v>>)
      BY <1>1, <2>1, <2>2
    <2> QED  BY <2>1, <2>3 DEF PartOf
  <1>2. CASE v \in Letters
    BY <1>2, OfText, PartsOfText
  <1>3. CASE Actions!IsObject(v)
    <2> DEFINE f == [k \in DOMAIN v.fields |->
                        IF k \in Actions!Sensitive THEN Actions!Hidden
                        ELSE S[n + 1][v.fields[k]]]
    <2>1. S[n][v] = Actions!Object(f)
      BY <1>3, OfObject
    <2>2. DOMAIN f = DOMAIN v.fields
      OBVIOUS
    <2>3. \A k \in DOMAIN v.fields : f[k] = IF k \in Actions!Sensitive THEN Actions!Hidden
                                           ELSE S[n + 1][v.fields[k]]
      OBVIOUS
    <2> HIDE DEF f
    <2>4. t \in {<<Append(way, <<k, 0>>), f[k]>> : k \in DOMAIN f}
      BY <2>1, PartsOfObject
    <2>5. PICK k \in DOMAIN v.fields : t = <<Append(way, <<k, 0>>), f[k]>>
      BY <2>2, <2>4
    <2>6. <<k, 0>> \in Step /\ v = Actions!Object(v.fields) /\ v.fields[k] \in Tree
      BY <1>3, Fields
    <2>7. CASE k \in Actions!Sensitive
      BY <2>3, <2>5, <2>7 DEF Withheld
    <2>8. CASE k \notin Actions!Sensitive /\ n + 1 > MaxDepth
      BY <1>0, <2>3, <2>5, <2>6, <2>8, TooDeep
    <2>9. CASE k \notin Actions!Sensitive /\ n + 1 <= MaxDepth
      <3>1. t = <<Append(way, <<k, 0>>), S[n + 1][v.fields[k]]>>
        BY <2>3, <2>5, <2>9
      <3>2. <<Append(way, <<k, 0>>), v.fields[k]>> \in Actions!Parts(<<way, v>>)
        BY <2>6, PartsOfObject
      <3>3. <<k, 0>>[1] \notin Actions!Sensitive /\ <<k, 0>>[2] <= MaxItems
        BY <1>0, <2>9
      <3> QED  BY <1>1, <2>6, <2>9, <3>1, <3>2, <3>3
    <2> QED  BY <1>0, <2>7, <2>8, <2>9
  <1>4. CASE Actions!IsArray(v)
    <2> DEFINE s == [i \in 1..Kept(v) |-> S[n + 1][v.items[i]]]
    <2>1. S[n][v] = Actions!Array(s)
      BY <1>4, OfArray
    <2>2. DOMAIN s = 1..Kept(v) /\ \A i \in 1..Kept(v) : s[i] = S[n + 1][v.items[i]]
      OBVIOUS
    <2> HIDE DEF s
    <2>4. t \in {<<Append(way, <<"item", i>>), s[i]>> : i \in DOMAIN s}
      BY <2>1, PartsOfArray
    <2>5. PICK i \in 1..Kept(v) : t = <<Append(way, <<"item", i>>), S[n + 1][v.items[i]]>>
      BY <2>2, <2>4
    <2>6. i \in Nat /\ i \in DOMAIN v.items /\ i <= MaxItems /\ v.items[i] \in Tree
      BY <1>4, KeptItems
    <2>7. CASE n + 1 > MaxDepth
      BY <1>0, <2>5, <2>6, <2>7, TooDeep
    <2>8. CASE n + 1 <= MaxDepth
      <3>1. v = Actions!Array(v.items)
        BY <1>4, TreeShape, Shapes DEF Letters
      <3>2. <<Append(way, <<"item", i>>), v.items[i]>> \in Actions!Parts(<<way, v>>)
        BY <2>6, <3>1, PartsOfArray
      <3> QED  BY <1>1, <2>5, <2>6, <2>8, <3>2, Places
    <2> QED  BY <1>0, <2>7, <2>8
  <1> QED  BY <1>2, <1>3, <1>4, TreeShape

\* A part of the payload, and what is shown of it.
LEMMA LevelUp ==
    ASSUME NEW v \in Tree, NEW n \in Nat, NEW way \in Way, Len(way) = n,
           NEW t \in Actions!Parts(<<way, v>>)
    PROVE  /\ t = <<t[1], t[2]>> /\ t[1] \in Way /\ Len(t[1]) = n + 1 /\ t[2] \in Tree
           /\ Shown(t[1]) =>
                /\ Shown(way) /\ n + 1 <= MaxDepth
                /\ <<t[1], Actions!SanitizeValue[n + 1][t[2]]>>
                     \in Actions!Parts(<<way, Actions!SanitizeValue[n][v]>>)
  <1> DEFINE S == Actions!SanitizeValue
  <1>0. MaxDepth \in Nat
    BY PayloadsAssumption DEF Actions!TreeSound
  <1>1. CASE v \in Letters
    <2>1. ~Actions!IsObject(v) /\ ~Actions!IsArray(v)
      BY <1>1, Shapes DEF Letters
    <2> QED  BY <2>1, PartsOfText
  <1>2. CASE Actions!IsObject(v)
    <2>1. PICK k \in DOMAIN v.fields : t = <<Append(way, <<k, 0>>), v.fields[k]>>
      <3>1. v = Actions!Object(v.fields)
        BY <1>2, TreeShape, Shapes DEF Letters
      <3>2. t \in {<<Append(way, <<k, 0>>), v.fields[k]>> : k \in DOMAIN v.fields}
        BY <3>1, PartsOfObject
      <3> QED  BY <3>2
    <2>2. <<k, 0>> \in Step /\ v.fields[k] \in Tree
      BY <1>2, Fields
    <2>3. t[1] = Append(way, <<k, 0>>) /\ t[2] = v.fields[k] /\ t = <<t[1], t[2]>>
      BY <2>1
    <2>4. t[1] \in Way /\ Len(t[1]) = n + 1
      BY <2>2, <2>3, ShownOneMore
    <2>5. ASSUME Shown(t[1])
          PROVE  /\ Shown(way) /\ n + 1 <= MaxDepth
                 /\ <<t[1], S[n + 1][t[2]]>> \in Actions!Parts(<<way, S[n][v]>>)
      <3>1. Shown(way) /\ n + 1 <= MaxDepth /\ <<k, 0>>[1] \notin Actions!Sensitive
        BY <2>2, <2>3, <2>5, ShownOneMore
      <3>2. n \in 0..MaxDepth /\ k \notin Actions!Sensitive
        BY <1>0, <3>1
      <3> DEFINE f == [l \in DOMAIN v.fields |->
                          IF l \in Actions!Sensitive THEN Actions!Hidden
                          ELSE S[n + 1][v.fields[l]]]
      <3>3. S[n][v] = Actions!Object(f)
        BY <1>2, <3>2, OfObject
      <3>4. k \in DOMAIN f /\ f[k] = S[n + 1][t[2]]
        BY <2>3, <3>2
      <3> HIDE DEF f
      <3>5. <<Append(way, <<k, 0>>), f[k]>> \in Actions!Parts(<<way, S[n][v]>>)
        BY <3>3, <3>4, PartsOfObject
      <3> QED  BY <2>3, <3>1, <3>4, <3>5
    <2> QED  BY <2>2, <2>3, <2>4, <2>5
  <1>3. CASE Actions!IsArray(v)
    <2>1. PICK i \in DOMAIN v.items : t = <<Append(way, <<"item", i>>), v.items[i]>>
      <3>1. v = Actions!Array(v.items)
        BY <1>3, TreeShape, Shapes DEF Letters
      <3>2. t \in {<<Append(way, <<"item", i>>), v.items[i]>> : i \in DOMAIN v.items}
        BY <3>1, PartsOfArray
      <3> QED  BY <3>2
    <2>2. i \in Nat /\ <<"item", i>> \in Step /\ v.items[i] \in Tree
      BY <1>3, KeptItems, Places
    <2>3. t[1] = Append(way, <<"item", i>>) /\ t[2] = v.items[i] /\ t = <<t[1], t[2]>>
      BY <2>1
    <2>4. t[1] \in Way /\ Len(t[1]) = n + 1
      BY <2>2, <2>3, ShownOneMore
    <2>5. ASSUME Shown(t[1])
          PROVE  /\ Shown(way) /\ n + 1 <= MaxDepth
                 /\ <<t[1], S[n + 1][t[2]]>> \in Actions!Parts(<<way, S[n][v]>>)
      <3>1. Shown(way) /\ n + 1 <= MaxDepth /\ <<"item", i>>[2] <= MaxItems
        BY <2>2, <2>3, <2>5, ShownOneMore
      <3>2. n \in 0..MaxDepth /\ i \in 1..Kept(v)
        BY <1>0, <1>3, <2>2, <3>1, KeptItems
      <3> DEFINE s == [j \in 1..Kept(v) |-> S[n + 1][v.items[j]]]
      <3>3. S[n][v] = Actions!Array(s)
        BY <1>3, <3>2, OfArray
      <3>4. i \in DOMAIN s /\ s[i] = S[n + 1][t[2]]
        BY <2>3, <3>2
      <3> HIDE DEF s
      <3>5. <<Append(way, <<"item", i>>), s[i]>> \in Actions!Parts(<<way, S[n][v]>>)
        BY <3>3, <3>4, PartsOfArray
      <3> QED  BY <2>3, <3>1, <3>4, <3>5
    <2> QED  BY <2>2, <2>3, <2>4, <2>5
  <1> QED  BY <1>1, <1>2, <1>3, TreeShape

-----------------------------------------------------------------------------
(* Every level of what is shown of a payload, against that of the payload. *)

Part(p, n, t) ==
    \E w \in Tree : /\ <<t[1], w>> \in Actions!Below(p)[n]
                   /\ t = <<t[1], Actions!SanitizeValue[n][w]>>
                   /\ t[1] \in Way /\ Len(t[1]) = n /\ Shown(t[1])

ShowsOnly(p, n) ==
    \A t \in Actions!Below(Actions!SanitizeValue[0][p])[n] : t[2] \in Withheld \/ Part(p, n, t)

ShowsAll(p, n) ==
    \A t \in Actions!Below(p)[n] :
        /\ t = <<t[1], t[2]>> /\ t[1] \in Way /\ Len(t[1]) = n /\ t[2] \in Tree
        /\ Shown(t[1]) => <<t[1], Actions!SanitizeValue[n][t[2]]>>
                            \in Actions!Below(Actions!SanitizeValue[0][p])[n]

\* A way that is shown is not too deep.
LEMMA ShownLength == ASSUME NEW way, Shown(way) PROVE Len(way) <= MaxDepth
  BY DEF Shown, Actions!ToBeShown

\* The payload itself, and the levels below it one after the other.
LEMMA LevelZero == ASSUME NEW p \in Tree PROVE ShowsOnly(p, 0) /\ ShowsAll(p, 0)
  <1>0. Levels \in Nat /\ MaxDepth \in Nat /\ 0 \in 0..Levels
    BY PayloadsAssumption DEF Actions!TreeSound
  <1>1. \A v : Actions!Below(v)[0] = {<< << >>, v>>}
    BY <1>0, BelowDefined DEF Deeper
  <1>2. << >> \in Way /\ Len(<< >>) = 0 /\ DOMAIN << >> = {}
    BY DEF Way
  <1>3. Shown(<< >>)
    BY <1>0, <1>2 DEF Shown, Actions!ToBeShown
  <1>4. ShowsOnly(p, 0)
    <2> SUFFICES ASSUME NEW t, t = << << >>, Actions!SanitizeValue[0][p]>> PROVE Part(p, 0, t)
      BY <1>1 DEF ShowsOnly
    <2>1. t[1] = << >> /\ t = <<t[1], Actions!SanitizeValue[0][p]>>
      OBVIOUS
    <2> QED  BY <1>1, <1>2, <1>3, <2>1 DEF Part
  <1>5. ShowsAll(p, 0)
    <2> SUFFICES ASSUME NEW t, t = << << >>, p>>
                 PROVE  /\ t = <<t[1], t[2]>> /\ t[1] \in Way /\ Len(t[1]) = 0 /\ t[2] \in Tree
                        /\ Shown(t[1]) =>
                              <<t[1], Actions!SanitizeValue[0][t[2]]>>
                                \in Actions!Below(Actions!SanitizeValue[0][p])[0]
      BY <1>1 DEF ShowsAll
    <2>1. t[1] = << >> /\ t[2] = p
      OBVIOUS
    <2> QED  BY <1>1, <1>2, <2>1
  <1> QED  BY <1>4, <1>5

LEMMA NextLevel ==
    ASSUME NEW p \in Tree, NEW n \in Nat, n + 1 <= Levels, ShowsOnly(p, n), ShowsAll(p, n)
    PROVE  ShowsOnly(p, n + 1) /\ ShowsAll(p, n + 1)
  <1> DEFINE S == Actions!SanitizeValue
             P == Actions!Below(p)
             C == Actions!Below(S[0][p])
  <1>0. /\ Levels \in Nat /\ MaxDepth \in Nat
        /\ n + 1 \in 0..Levels /\ n + 1 # 0 /\ (n + 1) - 1 = n
    BY PayloadsAssumption DEF Actions!TreeSound
  <1>1. \A v : Actions!Below(v)[n + 1] = UNION {Actions!Parts(t) : t \in Actions!Below(v)[n]}
    BY <1>0, BelowDefined DEF Deeper
  <1>2. ShowsOnly(p, n + 1)
    <2> SUFFICES ASSUME NEW t \in C[n + 1] PROVE t[2] \in Withheld \/ Part(p, n + 1, t)
      BY DEF ShowsOnly
    <2>1. PICK u \in C[n] : t \in Actions!Parts(u)
      BY <1>1
    <2>2. CASE u[2] \in Withheld
      <3>1. ~Actions!IsObject(u[2]) /\ ~Actions!IsArray(u[2])
        BY <2>2, Shapes DEF Withheld, Actions!Hidden
      <3> QED  BY <2>1, <3>1 DEF Actions!Parts
    <2>3. CASE Part(p, n, u)
      <3>1. PICK v \in Tree : /\ <<u[1], v>> \in P[n] /\ u = <<u[1], S[n][v]>>
                              /\ u[1] \in Way /\ Len(u[1]) = n /\ Shown(u[1])
        BY <2>3 DEF Part
      <3>2. n \in 0..MaxDepth
        BY <1>0, <3>1, ShownLength
      <3>3. t \in Actions!Parts(<<u[1], S[n][v]>>)
        BY <2>1, <3>1
      <3>4. t[2] \in Withheld \/ PartOf(u[1], v, n + 1, t)
        BY <3>1, <3>2, <3>3, LevelDown
      <3>5. Actions!Parts(<<u[1], v>>) \subseteq P[n + 1]
        BY <1>1, <3>1
      <3> QED  BY <3>4, <3>5 DEF Part, PartOf
    <2> QED  BY <2>2, <2>3 DEF ShowsOnly
  <1>3. ShowsAll(p, n + 1)
    <2> SUFFICES ASSUME NEW t \in P[n + 1]
                 PROVE  /\ t = <<t[1], t[2]>> /\ t[1] \in Way /\ Len(t[1]) = n + 1 /\ t[2] \in Tree
                        /\ Shown(t[1]) => <<t[1], S[n + 1][t[2]]>> \in C[n + 1]
      BY DEF ShowsAll
    <2>1. PICK u \in P[n] : t \in Actions!Parts(u)
      BY <1>1
    <2>2. /\ u = <<u[1], u[2]>> /\ u[1] \in Way /\ Len(u[1]) = n /\ u[2] \in Tree
          /\ Shown(u[1]) => <<u[1], S[n][u[2]]>> \in C[n]
      BY DEF ShowsAll
    <2>3. t \in Actions!Parts(<<u[1], u[2]>>)
      BY <2>1, <2>2
    <2>4. /\ t = <<t[1], t[2]>> /\ t[1] \in Way /\ Len(t[1]) = n + 1 /\ t[2] \in Tree
          /\ Shown(t[1]) =>
               /\ Shown(u[1])
               /\ <<t[1], S[n + 1][t[2]]>> \in Actions!Parts(<<u[1], S[n][u[2]]>>)
      BY <2>2, <2>3, LevelUp
    <2>5. ASSUME Shown(t[1]) PROVE <<t[1], S[n + 1][t[2]]>> \in C[n + 1]
      BY <1>1, <2>2, <2>4, <2>5
    <2> QED  BY <2>4, <2>5
  <1> QED  BY <1>2, <1>3

LEMMA AllLevels ==
    ASSUME NEW p \in Tree, NEW n \in 0..Levels
    PROVE  ShowsOnly(p, n) /\ ShowsAll(p, n)
  <1> DEFINE T == {k \in Nat : k <= Levels => ShowsOnly(p, k) /\ ShowsAll(p, k)}
  <1>0. Levels \in Nat /\ n \in Nat /\ n <= Levels
    BY PayloadsAssumption DEF Actions!TreeSound
  <1>1. 0 \in T
    BY LevelZero
  <1>2. ASSUME NEW k \in T PROVE k + 1 \in T
    <2>1. k \in Nat /\ k + 1 \in Nat /\ (k + 1 <= Levels => k <= Levels)
      BY <1>0
    <2>2. k + 1 <= Levels => ShowsOnly(p, k + 1) /\ ShowsAll(p, k + 1)
      BY <2>1, NextLevel
    <2> QED  BY <2>1, <2>2
  <1>3. T \in SUBSET Nat
    OBVIOUS
  <1> HIDE DEF T
  <1>4. n \in T
    BY <1>0, <1>1, <1>2, <1>3, SetInduction
  <1> QED  BY <1>0, <1>4 DEF T

-----------------------------------------------------------------------------
(* The preview in a state.                                                 *)

\* What is readable of what is shown, and what of the payload is to be shown.
LEMMA ReadableExact ==
    ASSUME NEW p \in Tree
    PROVE  {t \in Actions!Texts(Actions!SanitizeValue[0][p]) : t[2] \in Readable}
         = {<<t[1], Actions!Cut(t[2])>> : t \in {t \in Actions!Texts(p) : Shown(t[1])}}
  <1> DEFINE S == Actions!SanitizeValue
             Left == {t \in Actions!Texts(S[0][p]) : t[2] \in Readable}
             Wanted == {t \in Actions!Texts(p) : Shown(t[1])}
             Right == {<<t[1], Actions!Cut(t[2])>> : t \in Wanted}
  <1>0. Levels \in Nat /\ MaxDepth \in Nat
    BY PayloadsAssumption DEF Actions!TreeSound
  <1>1. ASSUME NEW w \in Tree, NEW n \in 0..MaxDepth
        PROVE  \/ /\ w \in Letters /\ S[n][w] = Actions!Cut(w) /\ S[n][w] \in Readable
                  /\ ~Actions!IsObject(w) /\ ~Actions!IsArray(w)
                  /\ ~Actions!IsObject(S[n][w]) /\ ~Actions!IsArray(S[n][w])
               \/ /\ Actions!IsObject(w) \/ Actions!IsArray(w)
                  /\ Actions!IsObject(S[n][w]) \/ Actions!IsArray(S[n][w])
    <2>1. CASE w \in Letters
      BY <2>1, OfText
    <2>2. CASE Actions!IsObject(w)
      <3> DEFINE f == [k \in DOMAIN w.fields |->
                          IF k \in Actions!Sensitive THEN Actions!Hidden
                          ELSE S[n + 1][w.fields[k]]]
      <3>1. S[n][w] = Actions!Object(f)
        BY <2>2, OfObject
      <3> HIDE DEF f
      <3>2. Actions!IsObject(S[n][w])
        BY <3>1, Shapes
      <3> QED  BY <2>2, <3>2
    <2>3. CASE Actions!IsArray(w)
      BY <2>3, OfArray, Shapes
    <2> QED  BY <2>1, <2>2, <2>3, TreeShape
  <1>2. ASSUME NEW t \in Left PROVE t \in Right
    <2>1. PICK n \in 0..Levels : t \in Actions!Below(S[0][p])[n]
      BY DEF Actions!Texts
    <2>2. Part(p, n, t)
      BY <2>1, AllLevels, WithheldApart DEF ShowsOnly
    <2>3. PICK w \in Tree : /\ <<t[1], w>> \in Actions!Below(p)[n] /\ t = <<t[1], S[n][w]>>
                            /\ Len(t[1]) = n /\ Shown(t[1])
      BY <2>2 DEF Part
    <2>4. n \in 0..MaxDepth
      BY <1>0, <2>1, <2>3, ShownLength
    <2>5. t[2] = S[n][w] /\ ~Actions!IsObject(t[2]) /\ ~Actions!IsArray(t[2])
      BY <2>3 DEF Actions!Texts
    <2>6. S[n][w] = Actions!Cut(w) /\ ~Actions!IsObject(w) /\ ~Actions!IsArray(w)
      BY <1>1, <2>4, <2>5
    <2> DEFINE u == <<t[1], w>>
    <2>7. u[1] = t[1] /\ u[2] = w /\ u \in Actions!Below(p)[n]
      BY <2>3
    <2> HIDE DEF u
    <2>8. u \in Wanted
      BY <2>1, <2>3, <2>6, <2>7 DEF Actions!Texts
    <2>9. t = <<u[1], Actions!Cut(u[2])>>
      BY <2>3, <2>6, <2>7
    <2> QED  BY <2>8, <2>9
  <1>3. ASSUME NEW u \in Wanted PROVE <<u[1], Actions!Cut(u[2])>> \in Left
    <2>1. PICK n \in 0..Levels : u \in Actions!Below(p)[n]
      BY DEF Actions!Texts
    <2>2. /\ Len(u[1]) = n /\ u[2] \in Tree
          /\ <<u[1], S[n][u[2]]>> \in Actions!Below(S[0][p])[n]
      BY <2>1, AllLevels DEF ShowsAll
    <2>3. n \in 0..MaxDepth
      BY <1>0, <2>1, <2>2, ShownLength
    <2>4. ~Actions!IsObject(u[2]) /\ ~Actions!IsArray(u[2])
      BY DEF Actions!Texts
    <2>5. /\ S[n][u[2]] = Actions!Cut(u[2]) /\ S[n][u[2]] \in Readable
          /\ ~Actions!IsObject(S[n][u[2]]) /\ ~Actions!IsArray(S[n][u[2]])
      BY <1>1, <2>2, <2>3, <2>4
    <2> DEFINE t == <<u[1], S[n][u[2]]>>
    <2>6. t[2] = S[n][u[2]] /\ t \in Actions!Below(S[0][p])[n] /\ t = <<u[1], Actions!Cut(u[2])>>
      BY <2>2, <2>5
    <2> HIDE DEF t
    <2>7. t \in Left
      BY <2>1, <2>5, <2>6 DEF Actions!Texts
    <2> QED  BY <2>6, <2>7
  <1> QED  BY <1>2, <1>3

\* sanitizePayload is sanitizeValue at depth 0.
LEMMA PayloadAtZero ==
    ASSUME NEW p \in Tree, Actions!IsObject(p)
    PROVE  Actions!SanitizePayload(p) = Actions!SanitizeValue[0][p]
  <1>1. 0 \in 0..MaxDepth /\ 0 + 1 = 1
    BY PayloadsAssumption DEF Actions!TreeSound
  <1> QED  BY <1>1, OfObject DEF Actions!SanitizePayload

\* The payload does not change, and what is shown is nothing or made of it.
ActionsInv ==
    /\ payload \in Tree /\ Actions!IsObject(payload)
    /\ preview \in {Actions!Text("none"), Actions!SanitizePayload(payload)}

\* A preview shows every text of the payload that is neither below a name that
\* is withheld nor too deep nor behind the items taken of an array, and no
\* other: for any payloads, however deep, and any limits.
THEOREM PreviewIsExact == Actions!Spec => []PreviewExact
  <1>1. Actions!Init => ActionsInv
    BY DEF Actions!Init, ActionsInv
  <1>2. ActionsInv /\ [Actions!Next]_(Actions!vars) => ActionsInv'
    <2> SUFFICES ASSUME ActionsInv, [Actions!Next]_(Actions!vars) PROVE ActionsInv'
      OBVIOUS
    <2>1. /\ payload' = payload
          /\ preview' \in {preview, Actions!SanitizePayload(payload)}
      BY DEF Actions!Next, Actions!vars, Actions!View, Actions!Approve, Actions!ValidateContext,
         Actions!BeforeExecute, Actions!Execute, Actions!AfterExecute, Actions!Advance,
         Actions!Throw
    <2>2. Actions!SanitizePayload(payload)' = Actions!SanitizePayload(payload)
      BY <2>1
    <2> QED  BY <2>1, <2>2 DEF ActionsInv
  <1>3. ActionsInv => PreviewExact
    <2> SUFFICES ASSUME ActionsInv, preview # Actions!Text("none") PROVE PreviewExact
      BY DEF PreviewExact, Actions!PreviewExact
    <2>1. preview = Actions!SanitizeValue[0][payload]
      BY PayloadAtZero DEF ActionsInv
    <2>2. {t \in Actions!Texts(preview) : t[2] \in Readable}
            = {<<t[1], Actions!Cut(t[2])>> : t \in {t \in Actions!Texts(payload) : Shown(t[1])}}
      BY <2>1, ReadableExact DEF ActionsInv
    <2>3. Readable = {Actions!Text("short"), Actions!Text("empty"), Actions!Text("long...")}
      BY DEF Readable
    <2> QED  BY <2>2, <2>3 DEF PreviewExact, Actions!PreviewExact, Shown
  <1> QED  BY <1>1, <1>2, <1>3, PTL DEF Actions!Spec
=============================================================================
