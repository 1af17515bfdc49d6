----------------------------- MODULE QrActions -----------------------------
(***************************************************************************)
(* What a QR ticket does when it is approved, and what its user sees       *)
(* before: QrActionExecutorService and the actions behind it               *)
(* (src/src/qr/qr-action-executor.service.ts, src/src/qr/actions) and the  *)
(* preview of the payload (sanitizePayload in src/src/qr/qr.utils.ts).     *)
(*                                                                         *)
(* To QrTicket an action succeeds or fails.  Here is which: the executor   *)
(* takes a context through the stages of BaseQrAction.run, and the only    *)
(* thing that can go wrong is that the payload, which createTicket stores  *)
(* as it comes, lacks what the action needs.  The bodies of the actions    *)
(* are to be written; that execute has returned stands for their effect.   *)
(*                                                                         *)
(* A payload is a tree of objects, arrays and texts.  The preview is       *)
(* computed by recursion, as in the code, and compared with what it is to  *)
(* show, which is said path by path.                                       *)
(***************************************************************************)
EXTENDS Naturals, Sequences, FiniteSets

CONSTANTS
    Tree,         \* payloads and what they are made of
    Levels,       \* how deep payloads go
    MaxDepth,     \* maxDepth of sanitizePayload
    MaxItems,     \* how many items of an array it takes (10)
    MaxApprovals  \* bound: approvals of a ticket

ActionType == {"LOGIN", "ADD_FRIEND", "JOIN_ORG", "PAIR"}

\* The names of fields that contain one of sensitiveKeys: userid, and key.
Sensitive == {"friendUserId", "pubKey"}

Text(t) == [text |-> t]
Object(f) == [fields |-> f]
Array(s) == [items |-> s]

IsObject(v) == DOMAIN v = {"fields"}
IsArray(v) == DOMAIN v = {"items"}

\* What JSON gives: a text, an object or an array, and their parts as well.
TreeSound ==
    /\ Levels \in Nat /\ MaxDepth \in Nat /\ MaxItems \in Nat
    /\ \A v \in Tree :
          \/ v \in {Text("short"), Text("empty"), Text("long")}
          \/ /\ IsObject(v) /\ v = Object(v.fields)
             /\ \A k \in DOMAIN v.fields : v.fields[k] \in Tree
          \/ IsArray(v) /\ v = Array(v.items) /\ v.items \in Seq(Tree)

VARIABLES
    type,       \* ticket.type
    payload,    \* ticket.payload
    status,     \* ticket.status
    preview,    \* payloadPreview, as it was last shown, or the payload of nobody
    stage,      \* how far the run of the action has come
    approvals   \* approvals so far

vars == <<type, payload, status, preview, stage, approvals>>

-----------------------------------------------------------------------------
(* The preview.                                                            *)

Hidden == Text("[Sensitive Data]")

Cut(v) == IF v = Text("long") THEN Text("long...") ELSE v

\* sanitizeValue, for a value at each depth.
SanitizeValue[depth \in Nat] == [v \in Tree |->
    IF depth > MaxDepth THEN Text("[Nested Object]")
    ELSE IF IsArray(v)
    THEN LET kept == IF Len(v.items) < MaxItems THEN Len(v.items) ELSE MaxItems
         IN Array([i \in 1..kept |-> SanitizeValue[depth + 1][v.items[i]]])
    ELSE IF IsObject(v)
    THEN Object([k \in DOMAIN v.fields |->
                    IF k \in Sensitive THEN Hidden
                    ELSE SanitizeValue[depth + 1][v.fields[k]]])
    ELSE Cut(v)]

\* Mutant: the values of the payload's own fields count as depth 0.
SanitizeFromZero(p) ==
    Object([k \in DOMAIN p.fields |->
        IF k \in Sensitive THEN Hidden ELSE SanitizeValue[0][p.fields[k]]])

\* sanitizePayload: the loop over the payload's own fields.
SanitizePayload(p) ==
    Object([k \in DOMAIN p.fields |->
        IF k \in Sensitive THEN Hidden ELSE SanitizeValue[1][p.fields[k]]])

\* getTicketPreview.
View ==
    /\ status = "PENDING" /\ preview # SanitizePayload(payload)
    /\ preview' = SanitizePayload(payload)
    /\ UNCHANGED <<type, payload, status, stage, approvals>>

-----------------------------------------------------------------------------
(* The run of an action.                                                   *)

\* payload?.field is there and truthy.
Given(k) == k \in DOMAIN payload.fields /\ payload.fields[k] # Text("empty")

\* LoginAction needs nothing, AddFriendAction a friend by id or by name,
\* JoinOrgAction an organization, PairAction a device or its key.
LoginAction == TRUE
AddFriendAction == Given("friendUserId") \/ Given("friendUsername")
JoinOrgAction == Given("orgId")
PairAction == Given("deviceInfo") \/ Given("pubKey")

\* The registry: the action of each type, by what it needs.
Actions == [LOGIN |-> LoginAction, ADD_FRIEND |-> AddFriendAction,
            JOIN_ORG |-> JoinOrgAction, PAIR |-> PairAction]

\* approveTicket stores the ticket and calls the executor.
Approve ==
    /\ status = "PENDING" /\ approvals < MaxApprovals
    /\ status' = "APPROVED" /\ approvals' = approvals + 1
    /\ stage' = "validateContext"
    /\ UNCHANGED <<type, payload, preview>>

Advance(next) ==
    /\ stage' = next
    /\ UNCHANGED <<type, payload, status, preview, approvals>>

\* The executor throws and approveTicket reverts the ticket.
Throw ==
    /\ status' = "PENDING" /\ stage' = "idle"
    /\ UNCHANGED <<type, payload, preview, approvals>>

\* validateContext: approveTicket gives the ticket, the user and the time.
ValidateContext == stage = "validateContext" /\ Advance("beforeExecute")

BeforeExecute == stage = "beforeExecute" /\ Advance("execute")

\* What the payload lacks is noticed before anything is done.
Execute ==
    /\ stage = "execute"
    /\ IF Actions[type] THEN Advance("afterExecute") ELSE Throw

AfterExecute == stage = "afterExecute" /\ Advance("granted")

Init ==
    /\ type \in ActionType /\ payload \in {v \in Tree : IsObject(v)}
    /\ status = "PENDING" /\ preview = Text("none")
    /\ stage = "idle" /\ approvals = 0

Next ==
    \/ View \/ Approve
    \/ ValidateContext \/ BeforeExecute \/ Execute \/ AfterExecute

Spec == Init /\ [][Next]_vars

-----------------------------------------------------------------------------
\* The parts of t[2], with the way to each, which goes on from t[1]: by a
\* field's name, or by the place in an array.
Parts(t) ==
    IF IsObject(t[2])
    THEN {<<Append(t[1], <<k, 0>>), t[2].fields[k]>> : k \in DOMAIN t[2].fields}
    ELSE IF IsArray(t[2])
    THEN {<<Append(t[1], <<"item", i>>), t[2].items[i]>> : i \in DOMAIN t[2].items}
    ELSE {}

\* The parts of v with the way to each, level by level.
Below(v) ==
    LET below[n \in 0..Levels] == IF n = 0 THEN {<< << >>, v>>}
                                  ELSE UNION {Parts(t) : t \in below[n - 1]}
    IN below

\* Its texts.
Texts(v) ==
    {t \in UNION {Below(v)[n] : n \in 0..Levels} : ~IsObject(t[2]) /\ ~IsArray(t[2])}

ToBeShown(path) ==
    /\ Len(path) <= MaxDepth
    /\ \A i \in DOMAIN path : path[i][1] \notin Sensitive /\ path[i][2] <= MaxItems

\* The preview shows every text of the payload that is neither below a name
\* that is withheld nor too deep nor behind the items taken of an array, and
\* no other (QrService.getTicketPreview), wherever in the payload it is.
PreviewExact ==
    preview # Text("none") =>
        {t \in Texts(preview) : t[2] \in {Text("short"), Text("empty"), Text("long...")}}
      = {<<t[1], Cut(t[2])>> : t \in {t \in Texts(payload) : ToBeShown(t[1])}}
=============================================================================
