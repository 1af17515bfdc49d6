----------------------------- MODULE QueryScope -----------------------------
(***************************************************************************)
(* What of a caller's select and relations reaches the repository, and     *)
(* what columns are read by it: applyQueryOpts and the whitelist filters   *)
(* of BaseService, the options that GraphQLBaseService derives from the    *)
(* fields of a query, and what TypeORM makes of the options.               *)
(*                                                                         *)
(* An object of options is a tree whose leaves are `true`, at most two     *)
(* keys deep; here it is the set of the paths to its leaves.  false and    *)
(* values of other types are dropped by every filter and left out.  A      *)
(* request is a state: the options, the whitelists and one query.          *)
(***************************************************************************)
EXTENDS Naturals, FiniteSets, Sequences

CONSTANTS
    Name,      \* names of fields
    Relation,  \* those that are relations of the entity; the others are columns
    Taken,     \* those that isRelationField takes for relations
    Hidden,    \* "__typename", "id" and "cursor"
    Nil        \* undefined

Path == {<<a>> : a \in Name} \cup {<<a, b>> : a \in Relation, b \in Name}

\* The nodes of a tree: what extractRelationKeys names.
Nodes(t) == t \cup {<<p[1]>> : p \in t}

\* A leaf of a tree is not inside of another leaf's path.
IsTree(t) == \A p \in t : Len(p) = 2 => <<p[1]>> \notin t

Tree == {t \in SUBSET Path : IsTree(t)}

\* What may stand in relations: names of relations only.
Related(t) == \A p \in t : \A n \in DOMAIN p : p[n] \in Relation

VARIABLES
    select,      \* the caller's select: a tree, or Nil
    relations,   \* the caller's relations: a tree, a list of paths, or Nil
    listed,      \* relations is a list
    whiteS, whiteR,  \* selectWhitelist and relationsWhitelist: trees, or Nil
    info         \* the nodes of the GraphQL query, or Nil without one

vars == <<select, relations, listed, whiteS, whiteR, info>>

-----------------------------------------------------------------------------
(* The filters.                                                            *)

Keys(t) == {p[1] : p \in t}

\* handleBooleanSelect: `true` stays where the whitelist has the key, a
\* boolean or an object.
Booleans(t, w) == {p \in t : Len(p) = 1 /\ p[1] \in Keys(w)}

\* handleNestedSelect: of an object, what the whitelist's object has; nothing
\* where the whitelist has a boolean.
Objects(t, w) == {p \in t : Len(p) = 2 /\ <<p[1]>> \notin w /\ p \in w}

\* Mutant: a key is enough, whatever is below it.
FilterByKey(t, w) == {p \in t : p[1] \in Keys(w)}

\* filterSelectByWhitelist, and filterRelationsObject.
Filter(t, w) == Booleans(t, w) \cup Objects(t, w)

\* filterRelationsByWhitelist, of a list or of an object.
FilterRelations(r, isList, w) ==
    IF r = Nil \/ w = Nil THEN r
    ELSE IF isList THEN r \cap Nodes(w) ELSE Filter(r, w)

\* The select of applyQueryOpts: the whitelist itself when there is none.
ScopedSelect(s, w) ==
    IF w = Nil THEN s ELSE IF s = Nil THEN w ELSE Filter(s, w)

-----------------------------------------------------------------------------
(* The options of a GraphQL query.                                         *)

\* extractFieldsFromGraphQLInfo: the names of all nodes, at whatever depth,
\* as columns of the entity.
Fields(q) ==
    LET names == {p[Len(p)] : p \in q} \ Hidden
    IN IF names = {} THEN Nil ELSE {<<f>> : f \in names}

\* extractRelationsFromGraphQLInfo: the nodes whose whole path looks like
\* relations.
QueryRelations(q) == {p \in q : \A n \in DOMAIN p : p[n] \in Taken}

\* filterRelationsForGraphQL takes the relations of the query for the caller's,
\* if both have any.
FromQuery == info # Nil /\ relations # Nil /\ QueryRelations(info) # {}

\* getAllowedRelations.
Allowed == IF whiteR = Nil THEN {} ELSE Nodes(whiteR)

\* The options that findWithGraphQLFieldsAndRelations hands to findOne.
SelectAsked == IF info = Nil \/ Fields(info) = Nil THEN select ELSE Fields(info)

RelationsAsked ==
    IF ~FromQuery THEN relations
    ELSE {p \in QueryRelations(info) : Nodes({p}) \cap Allowed # {}}

\* What reaches the repository.
SelectUsed    == ScopedSelect(SelectAsked, whiteS)
RelationsUsed == FilterRelations(RelationsAsked, listed \/ FromQuery, whiteR)

-----------------------------------------------------------------------------
(* External: TypeORM, by what the services expect of it.  A select that     *)
(* names no column restricts nothing; a relation that is loaded, or whose   *)
(* bare name is selected, is read whole unless columns of it are named.     *)

Columns == {p \in Path : p[Len(p)] \notin Relation}

Restricts(s) == s # Nil /\ s \cap Columns # {}

Loaded(s, r, a) == (r # Nil /\ <<a>> \in Nodes(r)) \/ (s # Nil /\ <<a>> \in s)

Itemised(s, a) == s # Nil /\ \E p \in s : Len(p) = 2 /\ p[1] = a

\* The columns read for select s and relations r.
Read(s, r) ==
    {p \in Columns :
        \/ s # Nil /\ p \in s
        \/ Len(p) = 1 /\ ~Restricts(s)
        \/ Len(p) = 2 /\ Loaded(s, r, p[1]) /\ ~Itemised(s, p[1])}

-----------------------------------------------------------------------------
\* A query has one field at its root.  The caller's select counts only where
\* the query's fields do not replace it, and a list of relations is tried
\* without a query.
Init ==
    /\ info \in {Nil} \cup {{<<a>>} \cup {<<a, b>> : b \in B} : a \in Name, B \in SUBSET Name}
    /\ select \in IF info # Nil /\ Fields(info) # Nil THEN {Nil} ELSE Tree \cup {Nil}
    /\ listed \in IF info = Nil THEN BOOLEAN ELSE {FALSE}
    /\ IF listed THEN relations \in {t \in SUBSET Path : Related(t)}
                 ELSE relations \in {t \in Tree : Related(t)} \cup {Nil}
    /\ whiteS \in Tree \cup {Nil}
    /\ whiteR \in {t \in Tree : Related(t)} \cup {Nil}

-----------------------------------------------------------------------------
(* What the whitelists promise of a request.                               *)

\* The columns that a whitelist lets a caller read.
Granted(w) == {p \in Columns : <<p[1]>> \in w \/ p \in w}

\* Without a select, the whitelist is what is asked for.
Asked == IF SelectAsked = Nil THEN whiteS ELSE SelectAsked

\* No asked-for column of the relation a is on the whitelist: it was asked for
\* by its bare name, by columns that are hidden, or not at all.
NotItemised(a) == \A p \in Asked : Len(p) = 2 /\ p[1] = a => p \notin whiteS

\* A column that the whitelist hides is read only where a select came out
\* empty, because none of its columns is on the whitelist, or with all of its
\* relation, because none of the relation's was.
NothingHiddenRead ==
    \A p \in Read(SelectUsed, RelationsUsed) :
       \/ p \in Granted(whiteS)
       \/ Len(p) = 1 /\ Asked \cap whiteS \cap Columns = {}
       \/ Len(p) = 2 /\ NotItemised(p[1])

\* A column that was asked for and is on the whitelist is read.
NothingLost == Asked \cap whiteS \cap Columns \subseteq Read(SelectUsed, RelationsUsed)

\* Only relations on the whitelist are loaded, on the way to others too, and
\* those of them that were asked for.
RelationsExact ==
    /\ Nodes(RelationsUsed) \subseteq Nodes(whiteR)
    /\ RelationsAsked \cap Nodes(whiteR) \subseteq RelationsUsed

\* What a request's options make the database read, for a service with
\* whitelists (applyQueryOpts): of columns that are hidden no more than the two
\* ways that the filters leave open, of what is whitelisted and asked for all.
WhitelistHolds ==
    /\ whiteS # Nil => NothingHiddenRead /\ NothingLost
    /\ whiteR # Nil /\ RelationsUsed # Nil => RelationsExact
=============================================================================
