------------------------------ MODULE MCParts ------------------------------
(***************************************************************************)
(* Three small parts for TLC: Accounts, CacheOps and QrActions.  They      *)
(* share no state: a behaviour is about one of them, and the other two     *)
(* stay where they began.                                                  *)
(***************************************************************************)
EXTENDS Accounts

CONSTANTS m1, shouted, Caller, MaxCalls, MaxCacheLosses,
          Deep, Tree, Levels, MaxDepth, MaxItems, MaxApprovals

VARIABLES
    part,                                                       \* the one that moves
    keys, at, read, calls, lost, holders, counted, unsure,      \* of CacheOps
    type, payload, status, preview, stage, approvals            \* of QrActions

cache   == <<keys, at, read, calls, lost, holders, counted, unsure>>
actions == <<type, payload, status, preview, stage, approvals>>

Cache == INSTANCE CacheOps WITH
    MaxLosses <- MaxCacheLosses, pc <- at, losses <- lost

Actions == INSTANCE QrActions

\* Payloads with every set of the fields that an action looks at, empty and
\* long texts among them, and with objects and arrays in objects.
Objects(F, V) == {[fields |-> f] : f \in UNION {[S -> V] : S \in SUBSET F}}
Arrays(V) == {[items |-> s] : s \in {<<v>> : v \in V} \cup {<<v, v>> : v \in V}}

Short == [text |-> "short"]
Ends == {[text |-> "empty"], [text |-> "long"]}

Flat == Objects({"friendUserId", "friendUsername", "orgId", "deviceInfo", "pubKey"}, {Short})
            \cup Objects({"orgId", "friendUserId"}, Ends)
Inner == {Short} \cup Objects(Deep, {Short})
Outer == Objects(Deep, Inner) \cup Arrays(Inner)
Nested == Objects(Deep, Outer \cup {Short})

TreeC == Ends \cup Inner \cup Outer \cup Nested \cup Flat

ASSUME PayloadsAssumption == Actions!TreeSound

\* Two spellings of one address.
LowerC(m) == IF m = shouted THEN m1 ELSE m

PartsInit ==
    /\ part \in {"accounts", "cache", "actions"}
    /\ Init /\ Cache!Init /\ Actions!Init
    /\ part # "accounts" => users[0] = CHOOSE row \in Row : row.mail = m1
    /\ part # "actions" => type = "LOGIN" /\ payload = Actions!Object(<< >>)
    /\ type # "JOIN_ORG" => payload \in Flat

PartsNext ==
    /\ \/ part = "accounts" /\ Next /\ UNCHANGED <<cache, actions>>
       \/ part = "cache" /\ Cache!Next /\ UNCHANGED <<vars, actions>>
       \/ part = "actions" /\ Actions!Next /\ UNCHANGED <<vars, cache>>
    /\ UNCHANGED part

PartsSpec ==
    /\ PartsInit /\ [][PartsNext]_<<vars, cache, actions, part>>
    /\ Cache!Fairness

\* See CacheOps.
Accounted == Cache!Accounted

\* See CacheOps.
LockEnds == Cache!LockEnds

\* See QrActions.
PreviewExact == Actions!PreviewExact
=============================================================================
