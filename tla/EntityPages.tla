---------------------------- MODULE EntityPages ----------------------------
(***************************************************************************)
(* A client that walks through a list page by page while rows come and go: *)
(* listOffset and listCursor of BaseService, the connections that          *)
(* GraphQLBaseService makes of them, ConditionBuilder and the cursors of   *)
(* src/src/common/utils/cursor.util.ts.                                    *)
(*                                                                         *)
(* Rows are their ids, which are ordered; a row has one value of the       *)
(* column the list is sorted by.  How much of that value a cursor carries  *)
(* depends on the column: all of it, the milliseconds of a timestamp that  *)
(* the database keeps in finer steps, or nothing, when the entity's select *)
(* whitelist leaves the column out of what is read.  An answer from the    *)
(* cache is a page of some time ago; it is the subject of EntityService.   *)
(***************************************************************************)
EXTENDS Integers, FiniteSets, SequencesExt

CONSTANTS
    Id,          \* ids of rows, a set of numbers
    Value,       \* values of the sort column, a set of numbers
    PerMs,       \* how many of them one millisecond has
    Field,       \* the searchable columns
    Removed,     \* the rows whose status is REMOVED
    Hits,        \* the columns in which each row has the search text
    Owned,       \* the rows of the user that a list is narrowed to
    Nil,         \* undefined
    MaxChanges,  \* bound: rows that are inserted, deleted or changed
    MaxPages     \* bound: pages asked for

PagesOK ==
    /\ Id \subseteq Nat /\ Value \subseteq Nat /\ PerMs \in Nat \ {0}
    /\ Removed \subseteq Id /\ Owned \subseteq Id /\ Hits \in [Id -> SUBSET Field]
    /\ MaxChanges \in Nat /\ MaxPages \in Nat

\* The extra filters of the media lists: by user, and by type, isPublic or size.
Extra == {"none", "userId", "type"}

Query == [mode: {"offset", "cursor", "graphql"}, order: {"ASC", "DESC"},
          column: {"plain", "timestamp", "unselected"},
          fields: SUBSET Field, extra: Extra, limit: 1..2]

VARIABLES
    query,    \* what the client asks for, on every page
    rows,     \* database: the sort value of each row, or Nil
    cursor,   \* the cursor of the last page, or Nil
    page,     \* pages asked for so far
    state,    \* "walking", "done" or "failed"
    changes,  \* rows changed so far
    seen,     \* history: the ids answered, in order
    steady    \* history: the rows that are there, unchanged, since the start

vars == <<query, rows, cursor, page, state, changes, seen, steady>>

-----------------------------------------------------------------------------
(* What the list selects.                                                  *)

\* What an extra filter asks of row i.  ConditionBuilder reads the user; it
\* does not know the other filters and leaves them out.
Filtered(i) == query.extra = "userId" => i \in Owned

\* Alternative f of the conditions, Nil without a search: one searched column
\* and the conditions that all alternatives share.
Selected(f, i) == i \notin Removed /\ Filtered(i) /\ (f = Nil \/ f \in Hits[i])

\* ConditionBuilder.build: a search in several columns is an array, one
\* alternative for each.
Where == IF query.fields = {} THEN {Nil} ELSE query.fields

Matching == {i \in Id : rows[i] # Nil /\ \E f \in Where : Selected(f, i)}

\* Mutant: rows with the same value come in any order.
BeforeByValue(o, i, j) == IF o = "ASC" THEN rows[i] < rows[j] ELSE rows[i] > rows[j]

\* ORDER BY the column and then the id, both in the same direction.
Before(o, i, j) ==
    IF o = "ASC" THEN rows[i] < rows[j] \/ (rows[i] = rows[j] /\ i < j)
                 ELSE rows[i] > rows[j] \/ (rows[i] = rows[j] /\ i > j)

\* The orders in which the database may answer the rows of S.
Answers(o, S) ==
    {s \in SetToSeqs(S) : \A m, n \in DOMAIN s : m < n => ~Before(o, s[n], s[m])}

Take(s, n) == SubSeq(s, 1, IF Len(s) < n THEN Len(s) ELSE n)

Skip(s, n) == SubSeq(s, n + 1, Len(s))

-----------------------------------------------------------------------------
(* Cursors.                                                                *)

\* What JSON keeps of a sort value.
Carried(v) ==
    CASE query.column = "plain"      -> v
      [] query.column = "timestamp"  -> (v \div PerMs) * PerMs
      [] query.column = "unselected" -> Nil

\* The cursor of a page whose last row is i.  A connection's own cursors are
\* not signed and say ASC whatever the page's order.
Encode(i, o) ==
    [signed |-> query.mode = "cursor", order |-> IF query.mode = "cursor" THEN o ELSE "ASC",
     value |-> Carried(rows[i]), id |-> i]

\* A cursor without a signature is taken for none.
Decode(c) == IF c = Nil \/ ~c.signed THEN Nil ELSE c

\* The page's order: the cursor's, or the client's; a connection asks for ASC
\* as soon as it has an `after`.
OrderOf(c) ==
    IF Decode(c) # Nil THEN c.order
    ELSE IF query.mode = "graphql" THEN (IF c # Nil THEN "ASC" ELSE "DESC")
    ELSE query.order

\* A cursor that lacks one of its two values sets no boundary.
Bounds(c) == Decode(c) # Nil /\ Decode(c).value # Nil

\* Mutant: the second alternative of the boundary is left out.
BeyondValue(c, i) == IF c.order = "ASC" THEN rows[i] > c.value ELSE rows[i] < c.value

\* The rows after a boundary: (column, id) beyond (value, id).
Beyond(c, i) ==
    \/ IF c.order = "ASC" THEN rows[i] > c.value ELSE rows[i] < c.value
    \/ rows[i] = c.value /\ IF c.order = "ASC" THEN i > c.id ELSE i < c.id

-----------------------------------------------------------------------------
(* The walk.                                                               *)

\* listOffset of the next page; the client stops at the last of totalPages.
OffsetPage ==
    /\ query.mode = "offset"
    /\ \E s \in Answers(query.order, Matching) :
          seen' = seen \o Take(Skip(s, page * query.limit), query.limit)
    /\ state' = IF (page + 1) * query.limit >= Cardinality(Matching)
                THEN "done" ELSE "walking"
    /\ UNCHANGED cursor

\* listCursor after the last cursor; a page without rows has no next cursor.
CursorPage ==
    /\ query.mode # "offset"
    /\ ~(Bounds(cursor) /\ Cardinality(Where) > 1)
    /\ LET o == OrderOf(cursor)
           S == IF Bounds(cursor) THEN {i \in Matching : Beyond(cursor, i)} ELSE Matching IN
       \E s \in Answers(o, S) :
          /\ seen' = seen \o Take(s, query.limit)
          /\ cursor' = IF S = {} THEN Nil ELSE Encode(Last(Take(s, query.limit)), o)
          /\ state' = IF S = {} THEN "done" ELSE "walking"

\* The boundary is spread over an object: an array of alternatives becomes
\* columns that do not exist, and the query throws.
CursorFails ==
    /\ query.mode # "offset"
    /\ Bounds(cursor) /\ Cardinality(Where) > 1
    /\ state' = "failed"
    /\ UNCHANGED <<cursor, seen>>

NextPage ==
    /\ state = "walking"
    /\ page < MaxPages
    /\ page' = page + 1
    /\ OffsetPage \/ CursorPage \/ CursorFails
    /\ UNCHANGED <<query, rows, changes, steady>>

\* Somebody inserts, deletes or updates row i meanwhile.
Change(i, v) ==
    /\ state = "walking"
    /\ changes < MaxChanges
    /\ rows[i] # v
    /\ changes' = changes + 1
    /\ rows' = [rows EXCEPT ![i] = v]
    /\ steady' = steady \ {i}
    /\ UNCHANGED <<query, cursor, page, state, seen>>

Init ==
    /\ query \in Query
    /\ rows \in [Id -> Value \cup {Nil}]
    /\ cursor = Nil /\ page = 0 /\ state = "walking" /\ changes = 0
    /\ seen = << >>
    /\ steady = {i \in Id : rows[i] # Nil}

Next == NextPage \/ \E i \in Id, v \in Value \cup {Nil} : Change(i, v)

Spec == Init /\ [][Next]_vars

-----------------------------------------------------------------------------
(* Whether the pages tile the list: while rows come and go for a cursor    *)
(* that carries the row's position, only while nothing changes for offsets.*)

Tiles ==
    \/ query.mode = "cursor" /\ query.column = "plain"
    \/ query.mode = "offset" /\ changes = 0

\* However rows come and go around it, a row that stays where it is is not
\* answered twice; a timestamp cut to milliseconds is safe downwards only.
NoRowTwice ==
    Tiles \/ (query.mode = "cursor" /\ query.column = "timestamp" /\ query.order = "DESC") =>
       \A i \in steady : Cardinality({n \in DOMAIN seen : seen[n] = i}) <= 1

\* A walk that came to its end has answered every selected row that was there
\* all the time.
NoRowMissed ==
    Tiles /\ state = "done" => (steady \cap Matching) \subseteq ToSet(seen)
=============================================================================
