------------------------------ MODULE Accounts ------------------------------
(***************************************************************************)
(* The accounts of UsersService (src/src/users/users.service.ts) and what  *)
(* AuthService does with them (src/src/auth/auth.service.ts): register,    *)
(* updatePassword and the look-ups by id that put an account into the      *)
(* cache of the entity service.                                            *)
(*                                                                         *)
(* Two things are done in more than one step.  A registration looks the    *)
(* e-mail up, hashes the password and inserts the row, and the database    *)
(* has a unique index on the username but none on the e-mail.  A password  *)
(* change compares with the account that findById returned, which is       *)
(* either the row as it was read or the plain copy of the cache, and       *)
(* User.toJSON leaves the password out of that copy; it then writes a row  *)
(* by its id, whatever it holds by now, and leaves the cache alone.        *)
(*                                                                         *)
(* An account is named by the request that registered it, account 0 was    *)
(* there before.  A hash is the password it was made from, and there is no *)
(* clock: a cached copy may run out at any time.  Sessions and tokens are  *)
(* the subject of AuthSession.                                             *)
(***************************************************************************)
EXTENDS Naturals, FiniteSets

CONSTANTS
    Mail,         \* e-mail addresses as clients spell them
    Lower(_),     \* toLowerCase().trim()
    Name,         \* usernames
    Secret,       \* passwords
    Nil,          \* null / undefined
    MaxRequests,  \* bound: requests in a behaviour
    MaxInFlight,  \* bound: requests being served at the same time
    MaxLosses     \* bound: copies that run out, failing queries and commands

Rid == 1..MaxRequests

Uid == 0..MaxRequests

Row == [mail: Mail, name: Name, secret: Secret]

Op == {"register", "updatePassword", "getUserById"}

\* The arguments of a request, the account it works on and what findById
\* returned of it.  The last two are history: the passwords the account had
\* since the request came, and the accounts that were there when it came.
Call == [op: Op, mail: Mail \cup {Nil}, name: Name \cup {Nil},
         old: Secret \cup {Nil}, new: Secret \cup {Nil}, uid: Uid,
         seen: SUBSET Secret, before: SUBSET Uid]

Pc == {"idle", "findByEmail", "insert", "get", "load", "put", "again",
       "reload", "reput", "update", "done"}

ASSUME AccountsAssumption ==
    /\ MaxRequests \in Nat /\ MaxInFlight \in Nat /\ MaxLosses \in Nat
    /\ \A m \in Mail : Lower(m) \in Mail /\ Lower(Lower(m)) = Lower(m)
    /\ Nil \notin Mail \cup Name \cup Secret \cup Row \cup Call

VARIABLES
    users,    \* database: the row of each account, or Nil
    copies,   \* Redis: users:id:<id>, the plain copy of an account, or Nil
    started,  \* requests received so far
    losses,   \* losses so far
    pc,       \* where each request is
    call,     \* its arguments and locals
    copy,     \* the account that its findById read
    peers     \* history: the accounts that were there when one was asked for

locals  == <<pc, call, copy>>
bounds  == <<started, losses>>
vars    == <<users, copies, locals, peers, bounds>>

-----------------------------------------------------------------------------
There(u) == users[u] # Nil

\* Mutant: the transformation of the DTO is missing.
Verbatim(m) == m

\* RegisterDto's transformation of the e-mail.
Normal(m) == Lower(m)

\* Mutant: the stored copy keeps the password.
WholeRow(row) == row

\* User.toJSON, which JSON.stringify calls on the way to the cache.
ToJSON(row) == [row EXCEPT !.secret = Nil]

\* bcrypt.compare, which rejects when it gets no hash to compare with; the
\* outcome is the same to a request as that of a wrong password: an error.
Matches(secret, hash) == hash # Nil /\ secret = hash

InFlight == {r \in Rid : pc[r] \notin {"idle", "done"}}

Goto(r, l) == pc' = [pc EXCEPT ![r] = l]

Finish(r) ==
    /\ Goto(r, "done")
    /\ call' = [call EXCEPT ![r] = Nil]
    /\ copy' = [copy EXCEPT ![r] = Nil]

\* A request comes in, and is first of all the next one.
Receive(c, l) ==
    LET r == started + 1 IN
    /\ started < MaxRequests
    /\ Cardinality(InFlight) < MaxInFlight
    /\ started' = r
    /\ Goto(r, l)
    /\ call' = [call EXCEPT ![r] = c]
    /\ UNCHANGED <<users, copies, copy, peers, losses>>

Asked(o, m, n, old, new, u) ==
    [op |-> o, mail |-> m, name |-> n, old |-> old, new |-> new, uid |-> u,
     seen |-> IF There(u) THEN {users[u].secret} ELSE {},
     before |-> {v \in Uid : There(v)}]

-----------------------------------------------------------------------------
(* Registration.                                                           *)

Register == \E m \in Mail, n \in Name, s \in Secret :
    Receive(Asked("register", Normal(m), n, Nil, s, started + 1), "findByEmail")

\* Mutant: nobody looks whether the address is taken.
FindByEmailUnchecked(r) ==
    /\ pc[r] = "findByEmail"
    /\ Goto(r, "insert")
    /\ UNCHANGED <<users, copies, call, copy, peers, bounds>>

\* The address is looked up; the password is hashed before the next query.
FindByEmail(r) ==
    /\ pc[r] = "findByEmail"
    /\ IF \E u \in Uid : There(u) /\ users[u].mail = call[r].mail
       THEN Finish(r)
       ELSE Goto(r, "insert") /\ UNCHANGED <<call, copy>>
    /\ UNCHANGED <<users, copies, peers, bounds>>

\* The row is saved; of its columns, only the username has to be unique.
Insert(r) ==
    /\ pc[r] = "insert"
    /\ \/ /\ \E u \in Uid : There(u) /\ users[u].name = call[r].name
          /\ UNCHANGED <<users, peers>>
       \/ /\ \A u \in Uid : There(u) => users[u].name # call[r].name
          /\ users' = [users EXCEPT ![r] = [mail |-> call[r].mail,
                          name |-> call[r].name, secret |-> call[r].new]]
          /\ peers' = [peers EXCEPT ![r] = call[r].before]
    /\ Finish(r)
    /\ UNCHANGED <<copies, bounds>>

-----------------------------------------------------------------------------
(* findById and the password change.                                       *)

GetUserById == \E u \in Uid :
    Receive(Asked("getUserById", Nil, Nil, Nil, Nil, u), "get")

\* The token names the account, which is there.
UpdatePassword == \E u \in Uid, old, new \in Secret :
    /\ There(u)
    /\ Receive(Asked("updatePassword", Nil, Nil, old, new, u), "get")

\* findById returned row: the request is answered, compares the password and
\* asks again in updateUser, or, asked again, goes on to its UPDATE.
Found(r, row, second) ==
    IF call[r].op = "getUserById" \/ (~second /\ ~Matches(call[r].old, row.secret))
    THEN Finish(r)
    ELSE /\ Goto(r, IF second THEN "update" ELSE "again")
         /\ copy' = [copy EXCEPT ![r] = Nil]
         /\ UNCHANGED call

\* GET of the cached copy.
Get(r) ==
    /\ pc[r] \in {"get", "again"}
    /\ IF copies[call[r].uid] # Nil
       THEN Found(r, copies[call[r].uid], pc[r] = "again")
       ELSE /\ Goto(r, IF pc[r] = "get" THEN "load" ELSE "reload")
            /\ UNCHANGED <<call, copy>>
    /\ UNCHANGED <<users, copies, peers, bounds>>

\* The query; an id that names nobody is answered with 404.
Load(r) ==
    /\ pc[r] \in {"load", "reload"}
    /\ IF There(call[r].uid)
       THEN /\ copy' = [copy EXCEPT ![r] = users[call[r].uid]]
            /\ Goto(r, IF pc[r] = "load" THEN "put" ELSE "reput")
            /\ UNCHANGED call
       ELSE Finish(r)
    /\ UNCHANGED <<users, copies, peers, bounds>>

\* SETEX of what was read, whatever the row has become since.
Put(r) ==
    /\ pc[r] \in {"put", "reput"}
    /\ copies' = [copies EXCEPT ![call[r].uid] = ToJSON(copy[r])]
    /\ Found(r, copy[r], pc[r] = "reput")
    /\ UNCHANGED <<users, peers, bounds>>

\* updateUser's UPDATE by the id.
Update(r) ==
    /\ pc[r] = "update"
    /\ LET u == call[r].uid IN
       /\ users' = [users EXCEPT ![u].secret = call[r].new]
       /\ call' = [q \in Rid |->
             IF q = r THEN Nil
             ELSE IF call[q] # Nil /\ call[q].uid = u
             THEN [call[q] EXCEPT !.seen = @ \cup {call[r].new}] ELSE call[q]]
    /\ Goto(r, "done")
    /\ copy' = [copy EXCEPT ![r] = Nil]
    /\ UNCHANGED <<copies, peers, bounds>>

-----------------------------------------------------------------------------
(* What goes wrong.                                                        *)

Lose == losses < MaxLosses /\ losses' = losses + 1

\* The TTL of a copy ends, or the cache is flushed by an instance that starts.
RunOut == \E U \in {{u} : u \in Uid} \cup {Uid} :
    /\ \E u \in U : copies[u] # Nil
    /\ copies' = [u \in Uid |-> IF u \in U THEN Nil ELSE copies[u]]
    /\ Lose
    /\ UNCHANGED <<users, locals, peers, started>>

\* A query or command fails and the request with it; earlier steps stay.
Fail(r) ==
    /\ pc[r] \notin {"idle", "done"}
    /\ Finish(r)
    /\ Lose
    /\ UNCHANGED <<users, copies, peers, started>>

Init ==
    /\ users \in {[u \in Uid |-> IF u = 0 THEN row ELSE Nil] :
                     row \in [mail: {Lower(m) : m \in Mail}, name: Name,
                              secret: Secret]}
    /\ copies = [u \in Uid |-> Nil]
    /\ started = 0 /\ losses = 0
    /\ pc = [r \in Rid |-> "idle"]
    /\ call = [r \in Rid |-> Nil] /\ copy = [r \in Rid |-> Nil]
    /\ peers = [u \in Uid |-> {}]

Next ==
    \/ Register \/ GetUserById \/ UpdatePassword
    \/ \E r \in Rid :
         \/ FindByEmail(r) \/ Insert(r)
         \/ Get(r) \/ Load(r) \/ Put(r) \/ Update(r) \/ Fail(r)
    \/ RunOut

Spec == Init /\ [][Next]_vars

-----------------------------------------------------------------------------
TypeOK ==
    /\ users \in [Uid -> Row \cup {Nil}]
    /\ copies \in [Uid -> [mail: Mail, name: Name, secret: {Nil}] \cup {Nil}]
    /\ started \in 0..MaxRequests /\ losses \in 0..MaxLosses
    /\ pc \in [Rid -> Pc] /\ call \in [Rid -> Call \cup {Nil}]
    /\ copy \in [Rid -> Row \cup {Nil}]
    /\ peers \in [Uid -> SUBSET Uid]

\* Two accounts have one address only when each was asked for before the other
\* one was there (UsersService.register): nobody registers an address a second
\* time once it has been taken, however it is spelled.
SharedOnlyByOverlap ==
    \A u, v \in Uid :
        /\ There(u) /\ There(v) /\ u # v
        /\ Lower(users[u].mail) = Lower(users[v].mail)
        => u \notin peers[v] /\ v \notin peers[u]

\* A password is replaced only by a change whose current password was the
\* account's while the change was under way (AuthService.updatePassword); a
\* password that had been replaced before the change came is of no use.
ReplacedByKnowing ==
    [][\A u \in Uid : There(u) /\ users'[u] # users[u] =>
          \E r \in InFlight : /\ call[r].uid = u
                              /\ call[r].old \in call[r].seen]_vars
=============================================================================
