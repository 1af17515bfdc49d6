------------------------------ MODULE MCLists -------------------------------
(***************************************************************************)
(* The lists of the entity service for TLC: EntityPages, a client's walk   *)
(* through the pages, and QueryScope, what a request may select.  They     *)
(* share no state: a behaviour is about one of the two.                    *)
(***************************************************************************)
CONSTANTS RowId, SortValue, PerMs, Field, Removed, Hits, Owned, MaxChanges, MaxPages,
          Name, Relation, Taken, Hidden, Undefined, f1, f2, f3

VARIABLES
    query, table, cursor, page, walk, changes, seen, steady,  \* of EntityPages
    select, relations, listed, whiteS, whiteR, info           \* of QueryScope

pages == <<query, table, cursor, page, walk, changes, seen, steady>>
scope == <<select, relations, listed, whiteS, whiteR, info>>

Pages == INSTANCE EntityPages WITH
    Id <- RowId, Value <- SortValue, Nil <- Undefined, rows <- table, state <- walk

Scope == INSTANCE QueryScope WITH Nil <- Undefined

ASSUME ListsAssumption == Pages!PagesOK

HitsC == [i \in RowId |-> IF i = 1 THEN {f1} ELSE IF i = 2 THEN {f1, f2} ELSE {f2}]

NoScope ==
    /\ select = Undefined /\ relations = Undefined /\ listed = FALSE
    /\ whiteS = Undefined /\ whiteR = Undefined /\ info = Undefined

NoPages ==
    /\ query = [mode |-> "offset", order |-> "ASC", column |-> "plain", fields |-> {},
                extra |-> "none", limit |-> 1]
    /\ table = [i \in RowId |-> Undefined] /\ cursor = Undefined
    /\ page = 0 /\ walk = "done" /\ changes = 0 /\ seen = << >> /\ steady = {}

ListsSpec ==
    /\ (Pages!Init /\ NoScope) \/ (Scope!Init /\ NoPages)
    /\ [][Pages!Next /\ UNCHANGED scope]_<<pages, scope>>

\* See EntityPages.
NoRowTwice == Pages!NoRowTwice

\* See EntityPages.
NoRowMissed == Pages!NoRowMissed

\* A column that the select whitelist hides is read only where no whitelisted
\* column was asked for, of the entity or of the relation; what is whitelisted
\* and asked for is read; only whitelisted relations are loaded (applyQueryOpts
\* and the filters it calls).
WhitelistHolds == Scope!WhitelistHolds
=============================================================================
