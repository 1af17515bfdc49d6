--------------------------- MODULE EntityService ---------------------------
(***************************************************************************)
(* The entity service that every resource of the server is built on:       *)
(* BaseService (src/src/common/services/base.service.ts), its GraphQL      *)
(* extension (graphql-base.service.ts) and the repository under them       *)
(* (common/repositories/typeorm.base-repo.ts), with the cache in front.    *)
(*                                                                         *)
(* The cache keeps plain copies of rows under one key per row, one per     *)
(* list and one per batch; a write drops the keys after it has changed the *)
(* row.  Every query and every Redis command is a step of the request that *)
(* sends it.  A row's columns are its version, the columns the media       *)
(* handlers look at and `key`, a column that the entity's toJSON leaves    *)
(* out.  All lists are one key, and so are all batches: a list's filter    *)
(* only selects among the rows it read.                                    *)
(***************************************************************************)
EXTENDS Naturals, Sequences, FiniteSets

CONSTANTS
    Id,           \* names of rows
    Worker,       \* requests served at the same time
    Nil,          \* null
    Ttl,          \* ttlSec of the cache option
    Swr,          \* swrSec of the cache option
    MaxDelay,     \* longest time between a query's answer and its SETEX
    MaxRequests,  \* bound: requests in a behaviour
    MaxFaults     \* bound: queries and commands that fail, and flushes

\* <prefix>:id:<id>, <prefix>:list:<hash> and <prefix>:batch:<ids>.
Key == Id \cup {"list", "batch"}

\* The classes derived from the service: media and users with the operations
\* that they pass on, and any other class, with all of them and with batches.
Kind == {"media", "users", "graphql"}

Row == [life: {"new", "live", "soft", "absent"}, ver: Nat,
        status: {"inactive", "active", "deleted"}, views: Nat, key: Id \cup {Nil}]

\* What an UPDATE sets: Nil leaves a column as it is, a key of "none" empties it.
Patch == [status: {"inactive", "active", "deleted", Nil}, views: Nat \cup {Nil},
          key: Id \cup {"none", Nil}]

ConstantsOK ==
    /\ {Ttl, Swr, MaxDelay, MaxRequests, MaxFaults} \subseteq Nat
    /\ Swr < Ttl
    /\ Nil \notin Id /\ "none" \notin Id

VARIABLES
    kind,      \* the derived class
    rows,      \* database: the row of each name
    cache,     \* Redis: the entry of each key, or Nil
    started,   \* requests received so far
    faults,    \* failures so far
    pc,        \* where each worker is
    call,      \* the request it serves: arguments and locals
    completed, \* history: per row the version of the last write that the service
               \* answered
    past       \* history: and of the last one that went past it and was answered

store   == <<rows, cache>>
bounds  == <<started, faults>>
vars    == <<kind, store, bounds, pc, call, completed, past>>

-----------------------------------------------------------------------------
NoPatch == [status |-> Nil, views |-> Nil, key |-> Nil]

\* What JSON.stringify leaves of a row.
Plain(r) == [r EXCEPT !.key = Nil]

Covers(k) == IF k \in Id THEN {k} ELSE Id

\* What was read of the rows of a key, on its way to the cache and there: the
\* copies, the seconds left until it must be stored or runs out, whether the
\* key was dropped between the query and the SETEX, and, as history, for how
\* long it has not been what the database holds (Nil: it still is).
Value(vals) == [vals |-> vals, left |-> MaxDelay, overlap |-> FALSE, old |-> Nil]

\* The frame of operation o on the rows of s, with cache key k: the rows it
\* goes through and the place among them, what it read for the cache, the row
\* handed on, the patch, and the versions that it wrote.
Frame(o, s, k, patch) ==
    [op |-> o, ids |-> s, at |-> 1, key |-> k, value |-> Nil, copy |-> Nil,
     patch |-> patch, wrote |-> [i \in Id |-> 0]]

Goto(p, l) == pc' = [pc EXCEPT ![p] = l]

Finish(p) ==
    /\ Goto(p, "idle")
    /\ call' = [call EXCEPT ![p] = Nil]

\* The row that worker p has come to.
This(p) == call[p].ids[call[p].at]

Enter(p, o, s, k, patch, l) ==
    /\ pc[p] = "idle"
    /\ started < MaxRequests
    /\ started' = started + 1
    /\ Goto(p, l)
    /\ call' = [call EXCEPT ![p] = Frame(o, s, k, patch)]
    /\ UNCHANGED <<kind, store, faults, completed, past>>

-----------------------------------------------------------------------------
(* Reads: findById, listOffset, batchLoadByIds.                            *)

FindById(p, o, i) == Enter(p, o, <<i>>, i, NoPatch, "get")

ListOffset(p) == Enter(p, "list", << >>, "list", NoPatch, "get")

BatchLoadByIds(p) ==
    /\ kind = "graphql"
    /\ Enter(p, "batch", << >>, "batch", NoPatch, "get")

\* listCursor, findOne and findByIds do not cache: they have no effect here.

\* findById has its row, in frame c, and returns it to the controller, to
\* updateUser's own UPDATE, or to a handler of the derived class.
HandOn(p, c) ==
    IF c.op = "find" THEN Finish(p)
    ELSE /\ Goto(p, IF c.op = "updateUser" THEN "write" ELSE "found")
         /\ call' = [call EXCEPT ![p] = c]

\* GET.  On a hit, findById goes on with the plain copy, and a list is
\* answered and may be refreshed in the background.
GetCached(p) ==
    /\ pc[p] = "get"
    /\ IF cache[call[p].key] = Nil
       THEN Goto(p, "load") /\ UNCHANGED call
       ELSE CASE call[p].key \in Id ->
                   HandOn(p, [call[p] EXCEPT !.copy =
                                cache[call[p].key].vals[call[p].key]])
              [] call[p].key = "list" /\ Swr > 0 ->
                   Goto(p, "ttl") /\ UNCHANGED call
              [] OTHER -> Finish(p)
    /\ UNCHANGED <<kind, store, bounds, completed, past>>

\* refreshCacheInBackground: the TTL of a list that was just answered.
Refresh(p) ==
    /\ pc[p] = "ttl"
    /\ IF cache["list"] # Nil /\ cache["list"].left <= Swr
       THEN Goto(p, "load") /\ UNCHANGED call
       ELSE Finish(p)
    /\ UNCHANGED <<kind, store, bounds, completed, past>>

\* The SELECT.  A row that is not there, or deleted, is answered 404.
Load(p) ==
    /\ pc[p] = "load"
    /\ IF call[p].key \in Id /\ rows[call[p].key].life # "live"
       THEN Finish(p)
       ELSE /\ Goto(p, "put")
            /\ LET k == call[p].key IN
               call' = [call EXCEPT
                          ![p].value = Value([i \in Covers(k) |-> Plain(rows[i])]),
                          ![p].copy = IF k \in Id THEN rows[k] ELSE Nil]
    /\ UNCHANGED <<kind, store, bounds, completed, past>>

\* Mutant: the SWR window is added to the time to live.
StoredLonger(v) == [v EXCEPT !.left = Ttl + Swr]

\* The entry that SETEX makes of v.
Stored(v) == [v EXCEPT !.left = Ttl]

Put(p) ==
    /\ pc[p] = "put"
    /\ LET c == call[p] IN
       /\ cache' = [cache EXCEPT ![c.key] = Stored(c.value)]
       /\ IF c.key \in Id THEN HandOn(p, [c EXCEPT !.value = Nil]) ELSE Finish(p)
    /\ UNCHANGED <<kind, rows, bounds, completed, past>>

-----------------------------------------------------------------------------
(* Writes: create, update, remove, softDelete, restore and their -Many.    *)

\* The rows of a creation get their names from the INSERT.
Fresh(i) ==
    /\ rows[i].life = "new"
    /\ \A q \in Worker : call[q] # Nil => i \notin {call[q].ids[n] : n \in DOMAIN call[q].ids}

Create(p, s) ==
    /\ \A n \in DOMAIN s : Fresh(s[n])
    /\ Enter(p, "create", s, "list", NoPatch, "write")

Update(p, s, patch) == Enter(p, "update", s, "list", patch, "write")

Delete(p, o, s) ==
    /\ kind = "graphql"
    /\ Enter(p, o, s, "list", NoPatch, "write")

\* UsersService goes past the service to write: updateUser is findById and the
\* repository's own UPDATE, register its own INSERT; neither drops a key.
UpdateUser(p, i) ==
    /\ kind = "users"
    /\ FindById(p, "updateUser", i)

Register(p, i) ==
    /\ kind = "users"
    /\ Fresh(i)
    /\ Enter(p, "register", <<i>>, "list", NoPatch, "write")

Direct(c) == c.op \in {"register", "updateUser"}

\* The key that a patch with key k gives a row.
Given(k) == IF k = "none" THEN Nil ELSE k

Patched(r, patch) ==
    [r EXCEPT !.status = IF patch.status = Nil THEN @ ELSE patch.status,
              !.views  = IF patch.views = Nil THEN @ ELSE patch.views,
              !.key    = IF patch.key = Nil THEN @ ELSE Given(patch.key)]

\* What the statement of operation o makes of row r.  UPDATE and DELETE go by
\* the id alone and reach rows that are soft deleted.
Written(o, r, patch, i) ==
    LET next == [r EXCEPT !.ver = @ + 1] IN
    IF o \in {"create", "register"}
    THEN [next EXCEPT !.life = "live", !.key = IF kind = "media" THEN i ELSE Nil]
    ELSE IF r.life \notin {"live", "soft"} THEN r
    ELSE CASE o = "remove" -> [next EXCEPT !.life = "absent"]
           [] o = "softDelete" -> [next EXCEPT !.life = "soft"]
           [] o = "restore" -> [next EXCEPT !.life = "live"]
           [] OTHER -> Patched(next, patch)

\* The rows that one statement of worker p touches: the one it has come to,
\* or all of them, which saveMany inserts in one transaction.
Touched(p) ==
    IF call[p].op = "create" THEN {call[p].ids[n] : n \in DOMAIN call[p].ids}
                             ELSE {This(p)}

\* Where a row's turn begins after the writes.
AfterWrite(o) ==
    IF o \in {"create", "remove", "softDelete", "restore"} THEN "dropId" ELSE "read"

\* Value v, and all frames with p's being c, once the rows are new: a value
\* that was up to date until now begins to be old.
Outdated(v, new) ==
    IF v.old = Nil /\ \E i \in DOMAIN v.vals : v.vals[i].ver # new[i].ver
    THEN [v EXCEPT !.old = 0] ELSE v

AllOutdated(p, c, new) ==
    [q \in Worker |-> IF q = p THEN c
                      ELSE IF pc[q] = "put" THEN [call[q] EXCEPT !.value = Outdated(@, new)]
                      ELSE call[q]]

\* The statement of the next row; after the last, the rows are gone through
\* again.  updateUser is answered at once.
Write(p) ==
    /\ pc[p] = "write"
    /\ LET c == call[p]
           new == [i \in Id |-> IF i \in Touched(p) THEN Written(c.op, rows[i], c.patch, i)
                                                   ELSE rows[i]]
           last == c.op = "create" \/ c.at = Len(c.ids)
           next == [c EXCEPT !.at = IF last THEN 1 ELSE @ + 1,
                             !.patch = IF last THEN NoPatch ELSE @,
                             !.wrote = [i \in Id |-> IF new[i] = rows[i] THEN @[i]
                                                     ELSE new[i].ver]] IN
       /\ rows' = new
       /\ cache' = [k \in Key |-> IF cache[k] = Nil THEN Nil ELSE Outdated(cache[k], new)]
       /\ IF Direct(c)
          THEN /\ call' = AllOutdated(p, Nil, new) /\ Goto(p, "idle")
               /\ past' = [i \in Id |-> IF new[i] = rows[i] THEN past[i] ELSE new[i].ver]
          ELSE /\ call' = AllOutdated(p, next, new)
               /\ IF last THEN Goto(p, AfterWrite(c.op)) ELSE UNCHANGED pc
               /\ UNCHANGED past
    /\ UNCHANGED <<kind, bounds, completed>>

\* An update reads its row back; one that is missing throws, and the rows
\* after it keep their keys.
ReadBack(p) ==
    /\ pc[p] = "read"
    /\ IF rows[This(p)].life = "live" THEN Goto(p, "dropId") /\ UNCHANGED call
                                      ELSE Finish(p)
    /\ UNCHANGED <<kind, store, bounds, completed, past>>

\* Mutant: a list is left to run out.
DroppedIdOnly(l, i) == IF l = "dropId" THEN {i} ELSE {}

\* The key that invalidateCacheForEntity(i) deletes at label l.
Dropped(l, i) ==
    CASE l = "dropId"   -> {i}
      [] l = "dropList" -> {"list"}
      [] l = "dropBatch" -> {"batch"}

\* Whoever has read a key's rows and not stored them yet, when worker p drops
\* the key, will bring back what was dropped.
Overlapped(p) ==
    [q \in Worker |-> IF pc[q] = "put" /\ call[q].key \in Dropped(pc[p], This(p))
                      THEN [call[q] EXCEPT !.value.overlap = TRUE] ELSE call[q]]

\* The label after l; Nil is the end of the row's turn.
AfterDrop(l) ==
    CASE l = "dropId" -> "dropList"
      [] l = "dropList" /\ kind = "graphql" -> "dropBatch"
      [] OTHER -> Nil

\* Worker p leaves a row: it goes on with frame c to the next, or answers, and
\* what it wrote counts as answered.
NextRow(p, c) ==
    IF c.at < Len(c.ids)
    THEN /\ Goto(p, AfterWrite(c.op))
         /\ call' = [Overlapped(p) EXCEPT ![p] = [c EXCEPT !.at = @ + 1]]
         /\ UNCHANGED completed
    ELSE /\ Goto(p, "idle")
         /\ call' = [Overlapped(p) EXCEPT ![p] = Nil]
         /\ completed' = [i \in Id |-> IF c.wrote[i] > completed[i]
                                       THEN c.wrote[i] ELSE completed[i]]

\* One deletion of invalidateCacheForEntity.  The SCAN and DEL of a pattern
\* count as one step, at the moment the key is visited.
Drop(p) ==
    /\ pc[p] \in {"dropId", "dropList", "dropBatch"}
    /\ cache' = [k \in Key |-> IF k \in Dropped(pc[p], This(p)) THEN Nil ELSE cache[k]]
    /\ IF AfterDrop(pc[p]) = Nil THEN NextRow(p, call[p])
       ELSE /\ Goto(p, AfterDrop(pc[p]))
            /\ call' = Overlapped(p)
            /\ UNCHANGED completed
    /\ UNCHANGED <<kind, rows, bounds, past>>

-----------------------------------------------------------------------------
(* Failures and time.                                                      *)

\* A pending query or command fails, or the instance goes down: the request
\* ends where it is, and what it has done stays done.
Fail(p) ==
    /\ pc[p] \notin {"idle", "found"}
    /\ faults < MaxFaults
    /\ faults' = faults + 1
    /\ Finish(p)
    /\ UNCHANGED <<kind, store, started, completed, past>>

\* An instance that comes up empties Redis.
Flush ==
    /\ faults < MaxFaults
    /\ faults' = faults + 1
    /\ cache' = [k \in Key |-> Nil]
    /\ UNCHANGED <<kind, rows, started, pc, call, completed, past>>

\* Value v a second later.
Aged(v) == [v EXCEPT !.left = @ - 1, !.old = IF @ = Nil THEN Nil ELSE @ + 1]

\* A second passes, unless a value that was read has waited for MaxDelay.
Tick ==
    /\ \A p \in Worker : pc[p] = "put" => call[p].value.left > 0
    /\ cache' = [k \in Key |-> IF cache[k] = Nil \/ cache[k].left <= 1
                               THEN Nil ELSE Aged(cache[k])]
    /\ call' = [p \in Worker |-> IF pc[p] = "put" THEN [call[p] EXCEPT !.value = Aged(@)]
                                                  ELSE call[p]]
    /\ UNCHANGED <<kind, rows, bounds, pc, completed, past>>

-----------------------------------------------------------------------------
Blank(i, life) ==
    [life |-> life, ver |-> 0, status |-> "inactive", views |-> 0,
     key |-> IF kind = "media" /\ life = "live" THEN i ELSE Nil]

Init ==
    /\ kind \in Kind
    /\ \E live \in SUBSET Id :
          rows = [i \in Id |-> Blank(i, IF i \in live THEN "live" ELSE "new")]
    /\ cache = [k \in Key |-> Nil]
    /\ started = 0 /\ faults = 0
    /\ pc = [p \in Worker |-> "idle"]
    /\ call = [p \in Worker |-> Nil]
    /\ completed = [i \in Id |-> 0] /\ past = [i \in Id |-> 0]

\* The rows of a request for many: one or two.
Some == {<<i>> : i \in Id} \cup ({<<i, j>> : i, j \in Id} \ {<<i, i>> : i \in Id})

\* Requests that the derived class passes straight on to the service; what media
\* does with a row that it finds is in MediaService.
Arrive(p) ==
    \/ kind # "media" /\ \E i \in Id : FindById(p, "find", i)
    \/ \E i \in Id : UpdateUser(p, i) \/ Register(p, i)
    \/ ListOffset(p)
    \/ BatchLoadByIds(p)
    \/ /\ kind = "graphql"
       /\ \E s \in Some :
             \/ Create(p, s)
             \/ Update(p, s, NoPatch)
             \/ \E o \in {"remove", "softDelete", "restore"} :
                   (o = "restore" => Len(s) = 1) /\ Delete(p, o, s)

Step(p) ==
    \/ GetCached(p) \/ Refresh(p) \/ Load(p) \/ Put(p)
    \/ Write(p) \/ ReadBack(p) \/ Drop(p)

EntityNext == Tick \/ Flush \/ \E p \in Worker : Arrive(p) \/ Step(p) \/ Fail(p)

-----------------------------------------------------------------------------
(* What the cache in front of the rows promises.                           *)

\* No request is ever answered from an entry older than the time to live
\* allows: a value in the cache was what the database held at most Ttl plus the
\* delay between a query and its SETEX ago, whatever invalidation was missed,
\* failed, or was overtaken, and whoever refreshed the entry since.
BoundedStaleness ==
    \A k \in Key : cache[k] # Nil /\ cache[k].old # Nil => cache[k].old < Ttl + MaxDelay

\* Whether a value stored under k still lacks an answered write of version n.
Lacks(v, i, n) == v.vals[i].ver < n

\* An answered write is seen by everyone, as far as its path goes.  One that
\* the service made: an entry that still lacks it was read before one of the
\* deletions of its key and stored after it, which is the only way around an
\* invalidation.  One that went past the service, by updateUser or register,
\* dropped no key: an entry may lack it without any overlap, and the age that
\* bounds the entry's life counts from that write at the latest.
UpdatesAreSeen ==
    \A k \in Key : cache[k] # Nil =>
       \A i \in Covers(k) :
          /\ Lacks(cache[k], i, completed[i]) => cache[k].overlap
          /\ Lacks(cache[k], i, past[i]) =>
                cache[k].old # Nil /\ cache[k].old < Ttl + MaxDelay
=============================================================================
