---------------------------- MODULE EntityProofs ----------------------------
(***************************************************************************)
(* What the cache in front of an entity's rows promises, that a medium has *)
(* its file, and that the pages of a list tile it, for any number of rows  *)
(* and of requests served at once.                                         *)
(*                                                                         *)
(* Four invariants, each on top of the types: `Fresher`, how old a value   *)
(* is and how long it has to go; `SeenAll`, what every value read holds of *)
(* the writes that were answered and of those whose request has dropped    *)
(* the value's key; `Dated`, that a value without a write is known to be   *)
(* old; `Backed`, what a request has of its objects.  The walk through a   *)
(* list has one for cursors, `Walked`, and one for offsets,                *)
(* `OffsetWalked`.                                                         *)
(***************************************************************************)
EXTENDS MediaService, MCLists, FiniteSetTheorems, SequenceTheorems, TLAPS

\* The copies of rows that a key may stand for.
Copies == UNION {[Covers(k) -> Row] : k \in Key}

Values == [vals: Copies, left: Nat, overlap: BOOLEAN, old: Nat \cup {Nil}]

Op == {"find", "list", "batch", "create", "update", "remove", "softDelete", "restore",
       "register", "updateUser"} \cup MediaOp

Frames ==
    [op: Op, ids: Seq(Id), at: Nat, key: Key, value: Values \cup {Nil},
     copy: Row \cup {Nil}, patch: Patch, wrote: [Id -> Nat]]

\* What is asked of the constants: those of the module, null is none of the
\* data it stands next to, and the keys of lists and batches are not names.
Sound ==
    /\ ConstantsOK
    /\ Nil \notin Nat /\ Nil \notin Values /\ Nil \notin Frames
    /\ "list" \notin Id /\ "batch" \notin Id /\ Nil \notin {"dropList", "dropBatch"}

\* Where a request reads through the cache, and where it goes through the rows
\* that it wrote.
Reading  == {"get", "ttl", "load", "put"}
Dropping == {"read", "dropId", "dropList", "dropBatch"}
Label    == {"idle", "upload", "found", "object", "write"} \cup Reading \cup Dropping

\* A read's frame: of one row, or of a list or a batch.
ReadFits(p) ==
    /\ call[p].key \in Id =>
          /\ call[p].ids = <<call[p].key>> /\ call[p].at = 1
          /\ call[p].op \in {"find", "updateUser"} \cup MediaOp
    /\ pc[p] = "put" =>
          /\ call[p].value \in Values
          /\ call[p].value.vals \in [Covers(call[p].key) -> Row]
          /\ call[p].key \in Id => call[p].copy \in Row

\* A frame has what its request comes to next.
Fits(p) ==
    /\ pc[p] = "idle" <=> call[p] = Nil
    /\ pc[p] \in Reading => ReadFits(p)
    /\ pc[p] = "upload" =>
          call[p].op = "create" /\ call[p].at \in 1..(Len(call[p].ids) + 1)
    /\ pc[p] \in {"found", "object", "write"} \cup Dropping =>
          call[p].at \in 1..Len(call[p].ids)
    /\ pc[p] = "found" => call[p].op \in MediaOp /\ call[p].copy \in Row
    /\ pc[p] = "object" => call[p].op = "delete" /\ call[p].copy \in Row

CacheTypes ==
    /\ cache \in [Key -> Values \cup {Nil}]
    /\ \A k \in Key : cache[k] # Nil => cache[k].vals \in [Covers(k) -> Row]

Types ==
    /\ kind \in Kind
    /\ rows \in [Id -> Row]
    /\ CacheTypes
    /\ pc \in [Worker -> Label]
    /\ call \in [Worker -> Frames \cup {Nil}]
    /\ completed \in [Id -> Nat]
    /\ \A p \in Worker : Fits(p)

-----------------------------------------------------------------------------
\* A value that was read is stored in time; one that is stored runs out in
\* time; and for as long as it has been old, it had that much less to go.
Fresher ==
    /\ \A k \in Key : cache[k] # Nil =>
          /\ cache[k].left \in 1..Ttl
          /\ cache[k].old # Nil => cache[k].old + cache[k].left <= Ttl + MaxDelay
    /\ \A p \in Worker : pc[p] = "put" =>
          /\ call[p].value.left <= MaxDelay
          /\ call[p].value.old # Nil =>
                call[p].value.old + call[p].value.left <= MaxDelay

-----------------------------------------------------------------------------
\* Key k was dropped by request p since its last statement.
Gone(p, k) ==
    /\ pc[p] \in Dropping
    /\ \/ \E n \in 1..Len(call[p].ids) :
             /\ k = call[p].ids[n]
             /\ \/ n < call[p].at
                \/ n = call[p].at /\ pc[p] \in {"dropList", "dropBatch"}
       \/ k \in {"list", "batch"} /\ call[p].at > 1
       \/ k = "list" /\ pc[p] = "dropBatch"

\* Value v of key k is what every answered write left, and every write whose
\* request has dropped the key since; or it overlapped with a deletion.
Seen(k, v) ==
    \A i \in Covers(k) :
       /\ v.vals[i].ver < completed[i] => v.overlap
       /\ \A p \in Worker : Gone(p, k) /\ v.vals[i].ver < call[p].wrote[i] => v.overlap

\* What a request wrote is a version that its rows had.
WroteOwn(p) ==
    pc[p] # "idle" =>
       \A i \in Id :
          /\ call[p].wrote[i] <= rows[i].ver
          /\ call[p].wrote[i] # 0 =>
                /\ pc[p] \in {"write"} \cup Dropping
                /\ \E n \in 1..Len(call[p].ids) : call[p].ids[n] = i

\* Only the GraphQL service has batches.
NoBatch ==
    kind # "graphql" =>
       /\ cache["batch"] = Nil
       /\ \A p \in Worker : pc[p] \in Reading => call[p].key # "batch"

SeenAll ==
    /\ \A k \in Key : cache[k] # Nil => Seen(k, cache[k])
    /\ \A p \in Worker : pc[p] = "put" => Seen(call[p].key, call[p].value)
    /\ \A i \in Id : completed[i] <= rows[i].ver
    /\ \A p \in Worker : WroteOwn(p)
    /\ NoBatch

-----------------------------------------------------------------------------
\* A row has its name for a key, or one that an update gave; no copy in the
\* cache has one.
Keys ==
    /\ \A i \in Id : rows[i].key \in {i, Nil} \cup given
    /\ \A i \in Id : rows[i].life # "new" => rows[i].key \in {i} \cup given
    /\ \A i \in Id : cache[i] # Nil => cache[i].vals[i].key = Nil
    /\ \A p \in Worker : pc[p] = "put" /\ call[p].key \in Id =>
          call[p].value.vals[call[p].key].key = Nil

\* The names whose object may go: of a deletion that went to R2, or given away.
Loose == asked \cup given

\* The key that frame c will write is the one of its rows, or given to them.
Told(c) ==
    \/ c.patch.key = Nil \/ Given(c.patch.key) \in given
    \/ \A n \in 1..Len(c.ids) : c.ids[n] = Given(c.patch.key)

\* A deletion goes to the object of its own row, or to one that an update gave;
\* a creation has the objects of the files that it has gone through.
Own(p) ==
    /\ pc[p] # "idle" => call[p].op \notin {"register", "updateUser"}
    /\ pc[p] = "write" /\ call[p].op # "create" => Told(call[p])
    /\ /\ pc[p] \in {"found", "object"} \/ (pc[p] = "put" /\ call[p].key \in Id)
       /\ call[p].op = "delete"
       => call[p].copy.key \in {call[p].key, Nil} \cup given
    /\ pc[p] = "upload" =>
          \A n \in 1..Len(call[p].ids) :
             n < call[p].at => call[p].ids[n] \in objects \cup Loose
    /\ pc[p] = "write" /\ call[p].op = "create" =>
          \A n \in 1..Len(call[p].ids) : call[p].ids[n] \in objects \cup Loose

\* The object of a row's own name is there, or may be gone.
Filed == \A i \in Id : rows[i].life # "new" => i \in objects \cup Loose

Backed ==
    kind = "media" =>
       Keys /\ (\A p \in Worker : Own(p)) /\ Filed

-----------------------------------------------------------------------------
(* Types.                                                                  *)

\* What a value becomes is a value.
LEMMA ValueTypes ==
  ASSUME Sound, NEW v \in Values
  PROVE  /\ \A new : /\ Outdated(v, new) \in Values
                     /\ Outdated(v, new).vals = v.vals
                     /\ Outdated(v, new).left = v.left
                     /\ Outdated(v, new).overlap = v.overlap
                     /\ Outdated(v, new).old \in {v.old, 0}
                     /\ Outdated(v, new).old # v.old => v.old = Nil
         /\ Stored(v) = [v EXCEPT !.left = Ttl] /\ Stored(v) \in Values
         /\ Stored(v).left = Ttl /\ Stored(v).vals = v.vals
         /\ Stored(v).overlap = v.overlap /\ Stored(v).old = v.old
         /\ [v EXCEPT !.overlap = TRUE] \in Values
         /\ [v EXCEPT !.overlap = TRUE].overlap
         /\ [v EXCEPT !.overlap = TRUE].vals = v.vals
         /\ [v EXCEPT !.overlap = TRUE].left = v.left
         /\ [v EXCEPT !.overlap = TRUE].old = v.old
  <1>1. ASSUME NEW new
        PROVE  /\ Outdated(v, new) \in Values
               /\ Outdated(v, new).vals = v.vals
               /\ Outdated(v, new).left = v.left
               /\ Outdated(v, new).overlap = v.overlap
               /\ Outdated(v, new).old \in {v.old, 0}
               /\ Outdated(v, new).old # v.old => v.old = Nil
    BY DEF Outdated, Values
  <1>2. Ttl \in Nat
    BY DEF Sound, ConstantsOK
  <1>3. QED BY <1>1, <1>2 DEF Values, Stored

\* A value is a second older after a second.
LEMMA AgedTypes ==
  ASSUME Sound, NEW v \in Values, v.left > 0
  PROVE  /\ Aged(v) \in Values /\ Aged(v).vals = v.vals /\ Aged(v).overlap = v.overlap
         /\ Aged(v).left = v.left - 1
         /\ v.old = Nil => Aged(v).old = Nil
         /\ v.old # Nil => v.old \in Nat /\ Aged(v).old = v.old + 1
  <1>1. v.left - 1 \in Nat /\ v.left \in Nat /\ v.old \in Nat \cup {Nil}
    BY DEF Values
  <1>2. CASE v.old = Nil
    <2>1. Aged(v) = [v EXCEPT !.left = v.left - 1, !.old = Nil]
      BY <1>2 DEF Aged
    <2>2. QED BY <1>1, <1>2, <2>1 DEF Values
  <1>3. CASE v.old # Nil
    <2>1. Aged(v) = [v EXCEPT !.left = v.left - 1, !.old = v.old + 1] /\ v.old \in Nat
      BY <1>1, <1>3 DEF Aged
    <2> DEFINE d == v.left - 1
               o == v.old + 1
    <2>2. Aged(v) = [v EXCEPT !.left = d, !.old = o] /\ d \in Nat /\ o \in Nat
      BY <1>1, <2>1
    <2> HIDE DEF d, o
    <2>3. /\ [v EXCEPT !.left = d, !.old = o] \in Values
          /\ [v EXCEPT !.left = d, !.old = o].vals = v.vals
          /\ [v EXCEPT !.left = d, !.old = o].overlap = v.overlap
          /\ [v EXCEPT !.left = d, !.old = o].left = d
          /\ [v EXCEPT !.left = d, !.old = o].old = o
      BY <2>2 DEF Values
    <2>4. QED BY <1>3, <2>1, <2>2, <2>3 DEF d, o
  <1>4. QED BY <1>2, <1>3

\* What is read of a row has no key; and a query's answer is a value.
LEMMA LoadTypes ==
  ASSUME Sound, rows \in [Id -> Row], NEW k \in Key
  PROVE  LET v == Value([i \in Covers(k) |-> Plain(rows[i])]) IN
         /\ v \in Values /\ v.left = MaxDelay /\ v.old = Nil
         /\ v.vals \in [Covers(k) -> Row]
         /\ \A i \in Covers(k) : v.vals[i].ver = rows[i].ver /\ v.vals[i].key = Nil
  <1> DEFINE f == [i \in Covers(k) |-> Plain(rows[i])]
  <1>1. Covers(k) \subseteq Id
    BY DEF Covers
  <1>2. ASSUME NEW i \in Id
        PROVE  Plain(rows[i]) \in Row /\ Plain(rows[i]).ver = rows[i].ver
               /\ Plain(rows[i]).key = Nil
    BY DEF Plain, Row
  <1>3. f \in [Covers(k) -> Row]
    BY <1>1, <1>2
  <1>4. f \in Copies
    BY <1>3 DEF Copies
  <1>5. \A i \in Covers(k) : f[i].ver = rows[i].ver /\ f[i].key = Nil
    BY <1>1, <1>2
  <1>6. MaxDelay \in Nat
    BY DEF Sound, ConstantsOK
  <1> HIDE DEF f
  <1>7. /\ Value(f) \in Values /\ Value(f).left = MaxDelay /\ Value(f).old = Nil
        /\ Value(f).vals = f
    BY <1>4, <1>6 DEF Value, Values
  <1>8. QED BY <1>3, <1>5, <1>7 DEF f

\* A row that was written is a row.
LEMMA WrittenTypes ==
  ASSUME NEW r \in Row, NEW o, NEW patch \in Patch, NEW i \in Id
  PROVE  /\ Written(o, r, patch, i) \in Row
         /\ \/ Written(o, r, patch, i) = r
            \/ Written(o, r, patch, i).ver = r.ver + 1
         /\ r.life = "new" /\ Written(o, r, patch, i).life # "new" =>
              o \in {"create", "register"}
         /\ Written(o, r, patch, i).life = "new" => Written(o, r, patch, i) = r
         /\ o \in {"create", "register"} =>
              Written(o, r, patch, i).key = IF kind = "media" THEN i ELSE Nil
         /\ o \notin {"create", "register"} =>
              \/ Written(o, r, patch, i).key = r.key
              \/ patch.key # Nil /\ Written(o, r, patch, i).key = Given(patch.key)
  <1> DEFINE next == [r EXCEPT !.ver = @ + 1]
  <1>1. /\ next \in Row /\ next.ver = r.ver + 1 /\ next.key = r.key /\ next.life = r.life
        /\ next.status = r.status /\ next.views = r.views
    BY DEF Row
  <1> HIDE DEF next
  <1>2. CASE o \in {"create", "register"}
    <2>1. Written(o, r, patch, i) = [next EXCEPT !.life = "live",
                                                 !.key = IF kind = "media" THEN i ELSE Nil]
      BY <1>2 DEF Written, next
    <2>2. CASE kind = "media"
      <3>1. Written(o, r, patch, i) = [next EXCEPT !.life = "live", !.key = i]
        BY <2>1, <2>2
      <3>2. QED BY <1>1, <1>2, <2>2, <3>1 DEF Row
    <2>3. CASE kind # "media"
      <3>1. Written(o, r, patch, i) = [next EXCEPT !.life = "live", !.key = Nil]
        BY <2>1, <2>3
      <3>2. QED BY <1>1, <1>2, <2>3, <3>1 DEF Row
    <2>4. QED BY <2>2, <2>3
  <1>3. CASE o \notin {"create", "register"} /\ r.life \notin {"live", "soft"}
    BY <1>3 DEF Written
  <1>4. CASE o \notin {"create", "register"} /\ r.life \in {"live", "soft"}
    <2>1. CASE o = "remove"
      <3>1. Written(o, r, patch, i) = [next EXCEPT !.life = "absent"]
        BY <1>4, <2>1 DEF Written, next
      <3>2. QED BY <1>1, <1>4, <3>1 DEF Row
    <2>2. CASE o = "softDelete"
      <3>1. Written(o, r, patch, i) = [next EXCEPT !.life = "soft"]
        BY <1>4, <2>2 DEF Written, next
      <3>2. QED BY <1>1, <1>4, <3>1 DEF Row
    <2>3. CASE o = "restore"
      <3>1. Written(o, r, patch, i) = [next EXCEPT !.life = "live"]
        BY <1>4, <2>3 DEF Written, next
      <3>2. QED BY <1>1, <1>4, <3>1 DEF Row
    <2>4. CASE o \notin {"remove", "softDelete", "restore"}
      <3>1. Written(o, r, patch, i) = Patched(next, patch)
        BY <1>4, <2>4 DEF Written, next
      <3> DEFINE status == IF patch.status = Nil THEN next.status ELSE patch.status
                 views  == IF patch.views = Nil THEN next.views ELSE patch.views
                 key    == IF patch.key = Nil THEN next.key ELSE Given(patch.key)
      <3>2. Patched(next, patch) = [next EXCEPT !.status = status, !.views = views, !.key = key]
        BY <1>1 DEF Patched, Row
      <3>3. /\ status \in {"inactive", "active", "deleted"} /\ views \in Nat
            /\ key \in Id \cup {Nil}
            /\ key = r.key \/ (patch.key # Nil /\ key = Given(patch.key))
        BY <1>1 DEF Row, Patch, Given
      <3> HIDE DEF status, views, key
      <3>4. /\ Patched(next, patch) \in Row /\ Patched(next, patch).ver = next.ver
            /\ Patched(next, patch).key = key /\ Patched(next, patch).life = next.life
        BY <1>1, <3>2, <3>3 DEF Row
      <3>5. QED BY <1>1, <1>4, <3>1, <3>3, <3>4
    <2>5. QED BY <2>1, <2>2, <2>3, <2>4
  <1>5. QED BY <1>2, <1>3, <1>4

\* The value that request q has to store was marked or has aged.
Revalued(q) ==
    \E v \in Values : v.vals = call[q].value.vals /\ call'[q] = [call[q] EXCEPT !.value = v]

\* A worker that did nothing, or whose value was changed while it waited to
\* store it, still has what it comes to next.
LEMMA FitsStays ==
  ASSUME Sound, Types, NEW q \in Worker, pc'[q] = pc[q],
         \/ call'[q] = call[q]
         \/ pc[q] = "put" /\ Revalued(q)
  PROVE  call'[q] \in Frames \cup {Nil} /\ Fits(q)'
  <1>1. call[q] \in Frames \cup {Nil} /\ Fits(q)
    BY DEF Types
  <1>2. CASE call'[q] = call[q]
    BY <1>1, <1>2 DEF Fits, ReadFits
  <1>3. CASE pc[q] = "put" /\ Revalued(q)
    <2>1. PICK v \in Values : /\ v.vals = call[q].value.vals
                              /\ call'[q] = [call[q] EXCEPT !.value = v]
      BY <1>3 DEF Revalued
    <2>2. call[q] \in Frames
      BY <1>1, <1>3 DEF Fits
    <2>3. /\ call'[q] \in Frames /\ call'[q].value = v
          /\ call'[q].key = call[q].key /\ call'[q].ids = call[q].ids
          /\ call'[q].at = call[q].at /\ call'[q].op = call[q].op
          /\ call'[q].copy = call[q].copy
      BY <2>1, <2>2 DEF Frames
    <2>4. call'[q] # Nil
      BY <2>3 DEF Sound
    <2>5. QED BY <1>1, <1>3, <2>1, <2>3, <2>4 DEF Fits, ReadFits
  <1>4. QED BY <1>2, <1>3

\* A step of one worker, to label l with frame c.
LEMMA OneStep ==
  ASSUME Sound, Types, NEW p \in Worker, NEW l \in Label, NEW c \in Frames \cup {Nil},
         pc' = [pc EXCEPT ![p] = l], call' = [call EXCEPT ![p] = c],
         kind' = kind, rows' \in [Id -> Row], CacheTypes',
         completed' \in [Id -> Nat], Fits(p)'
  PROVE  Types'
  <1>1. pc' \in [Worker -> Label] /\ call' \in [Worker -> Frames \cup {Nil}] /\ kind' \in Kind
    BY DEF Types
  <1>2. \A q \in Worker \ {p} : pc'[q] = pc[q] /\ call'[q] = call[q]
    BY DEF Types
  <1>3. \A q \in Worker : Fits(q)'
    BY <1>2, FitsStays
  <1>4. QED BY <1>1, <1>3 DEF Types

\* The request ends.
LEMMA FinishStep ==
  ASSUME Sound, Types, NEW p \in Worker, Finish(p),
         kind' = kind, rows' = rows, cache' = cache, completed' = completed
  PROVE  Types'
  <1>1. pc' = [pc EXCEPT ![p] = "idle"] /\ call' = [call EXCEPT ![p] = Nil]
    BY DEF Finish, Goto
  <1>2. pc'[p] = "idle" /\ call'[p] = Nil
    BY <1>1 DEF Types
  <1>3. Fits(p)'
    BY <1>2 DEF Fits, Reading, Dropping
  <1>4. CacheTypes'
    BY DEF Types, CacheTypes
  <1>5. QED BY <1>1, <1>3, <1>4, OneStep DEF Types, Label

\* The cache as it was.
LEMMA CacheStays == ASSUME Types, cache' = cache PROVE CacheTypes'
  BY DEF Types, CacheTypes

\* A request for one or two rows.
LEMMA SomeTypes ==
  ASSUME NEW s \in Some
  PROVE  s \in Seq(Id) /\ Len(s) >= 1 /\ DOMAIN s = 1..Len(s)
  <1>1. CASE \E i \in Id : s = <<i>>
    BY <1>1
  <1>2. CASE \E i, j \in Id : s = <<i, j>>
    BY <1>2
  <1>3. QED BY <1>1, <1>2 DEF Some

\* A patch of nothing is a patch.
LEMMA NoPatchTypes == NoPatch \in Patch
  BY DEF NoPatch, Patch

\* A request arrives.
LEMMA EnterStep ==
  ASSUME Sound, Types, NEW p \in Worker, NEW o \in Op, NEW s \in Seq(Id), NEW k \in Key,
         NEW patch \in Patch, NEW l \in {"get", "upload", "write"}, Enter(p, o, s, k, patch, l),
         l = "get" /\ k \in Id => s = <<k>> /\ o \in {"find", "updateUser"} \cup MediaOp,
         l = "upload" => o = "create",
         l = "write" => Len(s) >= 1
  PROVE  /\ Types' /\ pc[p] = "idle" /\ call' = [call EXCEPT ![p] = Frame(o, s, k, patch)]
         /\ pc' = [pc EXCEPT ![p] = l] /\ Frame(o, s, k, patch) \in Frames
         /\ UNCHANGED <<kind, rows, cache, completed>>
  <1> DEFINE c == Frame(o, s, k, patch)
  <1>1. [i \in Id |-> 0] \in [Id -> Nat]
    OBVIOUS
  <1>2. c \in Frames /\ c.ids = s /\ c.key = k /\ c.op = o /\ c.at = 1
    BY <1>1 DEF Frame, Frames
  <1>3. /\ pc[p] = "idle" /\ pc' = [pc EXCEPT ![p] = l] /\ call' = [call EXCEPT ![p] = c]
        /\ UNCHANGED <<kind, rows, cache, completed>>
    BY DEF Enter, Goto, store
  <1> HIDE DEF c
  <1>4. pc'[p] = l /\ call'[p] = c /\ c # Nil
    BY <1>2, <1>3 DEF Types, Sound
  <1>5. Fits(p)'
    BY <1>2, <1>4 DEF Fits, ReadFits, Reading, Dropping
  <1>6. Types'
    BY <1>2, <1>3, <1>5, CacheStays, OneStep DEF Types, Label, Reading
  <1>7. QED BY <1>2, <1>3, <1>6 DEF c

\* findById returns its row.
LEMMA HandOnStep ==
  ASSUME Sound, Types, NEW p \in Worker, NEW c \in Frames, HandOn(p, c),
         pc[p] \in Reading, call[p].key \in Id, c.copy \in Row,
         c.ids = call[p].ids, c.at = call[p].at, c.op = call[p].op,
         CacheTypes', UNCHANGED <<kind, rows, completed>>
  PROVE  /\ Types'
         /\ \/ pc' = [pc EXCEPT ![p] = "idle"] /\ call' = [call EXCEPT ![p] = Nil]
            \/ /\ pc' = [pc EXCEPT ![p] = "write"] /\ call' = [call EXCEPT ![p] = c]
               /\ c.op = "updateUser"
            \/ /\ pc' = [pc EXCEPT ![p] = "found"] /\ call' = [call EXCEPT ![p] = c]
               /\ c.op \in MediaOp
  <1>1. Fits(p) /\ c # Nil /\ c.at = 1 /\ Len(c.ids) = 1
        /\ c.op \in {"find", "updateUser"} \cup MediaOp
    <2>1. Fits(p) /\ c # Nil
      BY DEF Types, Sound
    <2>2. ReadFits(p)
      BY <2>1 DEF Fits
    <2>3. c.ids = <<call[p].key>> /\ c.at = 1 /\ c.op \in {"find", "updateUser"} \cup MediaOp
      BY <2>2 DEF ReadFits
    <2>4. QED BY <2>1, <2>3
  <1>2. CASE c.op = "find"
    <2>1. pc' = [pc EXCEPT ![p] = "idle"] /\ call' = [call EXCEPT ![p] = Nil]
      BY <1>2 DEF HandOn, Finish, Goto
    <2>2. pc'[p] = "idle" /\ call'[p] = Nil
      BY <2>1 DEF Types
    <2>3. Fits(p)'
      BY <2>2 DEF Fits, Reading, Dropping
    <2>4. QED BY <2>1, <2>3, OneStep DEF Types, Label
  <1>3. CASE c.op # "find"
    <2> DEFINE l == IF c.op = "updateUser" THEN "write" ELSE "found"
    <2>1. pc' = [pc EXCEPT ![p] = l] /\ call' = [call EXCEPT ![p] = c] /\ l \in Label
          /\ l \in {"write", "found"} /\ (l = "found" => c.op \in MediaOp)
          /\ (l = "write" => c.op = "updateUser")
      BY <1>1, <1>3 DEF HandOn, Goto, Label
    <2> HIDE DEF l
    <2>2. pc'[p] = l /\ call'[p] = c
      BY <2>1 DEF Types
    <2>3. Fits(p)'
      <3>0. c # Nil /\ c.at \in 1..Len(c.ids)
        BY <1>1
      <3>1. CASE l = "write"
        BY <2>2, <3>0, <3>1 DEF Fits, Reading, Dropping
      <3>2. CASE l = "found"
        BY <2>1, <2>2, <3>0, <3>2 DEF Fits, Reading, Dropping
      <3>3. QED BY <2>1, <3>1, <3>2
    <2>4. Types'
      BY <2>1, <2>3, OneStep DEF Types
    <2>5. QED BY <2>1, <2>4
  <1>4. QED BY <1>2, <1>3

\* A worker goes on to label l with the frame that it has.
LEMMA GotoStep ==
  ASSUME Sound, Types, NEW p \in Worker, NEW l \in Label, Goto(p, l), call' = call,
         UNCHANGED <<kind, rows, cache, completed>>, pc[p] # "idle", l # "idle",
         l \in Reading => l # "put" /\ ReadFits(p),
         l # "upload", l # "found",
         l \in {"object", "write"} \cup Dropping => call[p].at \in 1..Len(call[p].ids),
         l = "object" => call[p].op = "delete" /\ call[p].copy \in Row
  PROVE  Types' /\ pc' = [pc EXCEPT ![p] = l]
  <1>1. pc' = [pc EXCEPT ![p] = l] /\ call[p] \in Frames \cup {Nil}
        /\ call' = [call EXCEPT ![p] = call[p]] /\ call[p] # Nil
    BY DEF Goto, Types, Fits
  <1>2. pc'[p] = l /\ call'[p] = call[p]
    BY DEF Types, Goto
  <1>3. Fits(p)'
    BY <1>1, <1>2 DEF Fits, ReadFits, Types
  <1>4. QED BY <1>1, <1>3, CacheStays, OneStep DEF Types

\* The cached copy goes to its request, a list is answered.
LEMMA GetTypes ==
  ASSUME Sound, Types, NEW p \in Worker, GetCached(p)
  PROVE  /\ Types' /\ pc[p] = "get" /\ UNCHANGED <<kind, rows, cache, completed>>
         /\ \/ pc' = [pc EXCEPT ![p] = "idle"] /\ call' = [call EXCEPT ![p] = Nil]
            \/ pc' = [pc EXCEPT ![p] = "load"] /\ call' = call
            \/ pc' = [pc EXCEPT ![p] = "ttl"] /\ call' = call
            \/ \E c \in Frames :
                 /\ c.op = call[p].op /\ c.wrote = call[p].wrote /\ c.key = call[p].key
                 /\ call[p].key \in Id /\ cache[call[p].key] # Nil
                 /\ c.copy = cache[call[p].key].vals[call[p].key]
                 /\ call' = [call EXCEPT ![p] = c]
                 /\ \/ pc' = [pc EXCEPT ![p] = "write"] /\ c.op = "updateUser"
                    \/ pc' = [pc EXCEPT ![p] = "found"]
  <1>1. /\ pc[p] = "get" /\ UNCHANGED <<kind, rows, cache, completed>> /\ Fits(p) /\ ReadFits(p)
        /\ call[p] \in Frames /\ call[p].key \in Key
    BY DEF GetCached, store, Types, Fits, Reading, Frames
  <1>2. CASE cache[call[p].key] = Nil
    <2>1. Goto(p, "load") /\ call' = call
      BY <1>2 DEF GetCached
    <2>2. QED BY <1>1, <2>1, GotoStep DEF Label, Reading, Dropping
  <1>3. CASE cache[call[p].key] # Nil /\ call[p].key \in Id
    <2> DEFINE c == [call[p] EXCEPT !.copy = cache[call[p].key].vals[call[p].key]]
    <2>1. HandOn(p, c)
      BY <1>3 DEF GetCached, Sound
    <2>2. cache[call[p].key].vals[call[p].key] \in Row
      BY <1>1, <1>3 DEF Types, CacheTypes, Covers
    <2>3. /\ c \in Frames /\ c.copy \in Row /\ c.ids = call[p].ids /\ c.at = call[p].at
          /\ c.op = call[p].op /\ c.wrote = call[p].wrote /\ c.key = call[p].key
          /\ c.copy = cache[call[p].key].vals[call[p].key]
      BY <1>1, <2>2 DEF Frames
    <2> HIDE DEF c
    <2>4. /\ Types'
          /\ \/ pc' = [pc EXCEPT ![p] = "idle"] /\ call' = [call EXCEPT ![p] = Nil]
             \/ /\ pc' = [pc EXCEPT ![p] = "write"] /\ call' = [call EXCEPT ![p] = c]
                /\ c.op = "updateUser"
             \/ /\ pc' = [pc EXCEPT ![p] = "found"] /\ call' = [call EXCEPT ![p] = c]
                /\ c.op \in MediaOp
      BY <1>1, <1>3, <2>1, <2>3, CacheStays, HandOnStep DEF Reading
    <2>5. QED BY <1>1, <1>3, <2>3, <2>4
  <1>4. CASE cache[call[p].key] # Nil /\ call[p].key \notin Id
    <2>1. \/ Goto(p, "ttl") /\ call' = call
          \/ Finish(p)
      BY <1>4 DEF GetCached
    <2>2. CASE Goto(p, "ttl") /\ call' = call
      BY <1>1, <2>2, GotoStep DEF Label, Reading, Dropping
    <2>3. CASE Finish(p)
      BY <1>1, <2>3, FinishStep DEF Finish, Goto
    <2>4. QED BY <2>1, <2>2, <2>3
  <1>5. QED BY <1>2, <1>3, <1>4

\* A list is refreshed or not.
LEMMA RefreshTypes ==
  ASSUME Sound, Types, NEW p \in Worker, Refresh(p)
  PROVE  /\ Types' /\ pc[p] = "ttl" /\ UNCHANGED <<kind, rows, cache, completed>>
         /\ \/ Finish(p)
            \/ pc' = [pc EXCEPT ![p] = "load"] /\ call' = call
  <1>1. /\ pc[p] = "ttl" /\ UNCHANGED <<kind, rows, cache, completed>> /\ ReadFits(p)
        /\ \/ Goto(p, "load") /\ call' = call
           \/ Finish(p)
    BY DEF Refresh, store, Types, Fits, Reading
  <1>2. CASE Goto(p, "load") /\ call' = call
    BY <1>1, <1>2, GotoStep DEF Label, Reading, Dropping
  <1>3. CASE Finish(p)
    BY <1>1, <1>3, FinishStep
  <1>4. QED BY <1>1, <1>2, <1>3

\* The value that worker p has read, and the row that it hands on.
LEMMA LoadTypesStep ==
  ASSUME Sound, Types, NEW p \in Worker, Load(p)
  PROVE  /\ Types' /\ UNCHANGED <<kind, rows, cache, completed>>
         /\ \/ Finish(p)
            \/ \E c \in Frames :
                  /\ pc[p] = "load" /\ pc' = [pc EXCEPT ![p] = "put"]
                  /\ call' = [call EXCEPT ![p] = c] /\ c.key = call[p].key
                  /\ c.op = call[p].op /\ c.wrote = call[p].wrote
                  /\ c.value \in Values /\ c.value.left = MaxDelay /\ c.value.old = Nil
                  /\ \A i \in Covers(c.key) : /\ c.value.vals[i].ver = rows[i].ver
                                              /\ c.value.vals[i].key = Nil
                  /\ c.key \in Id => c.copy = rows[c.key]
  <1>1. /\ pc[p] = "load" /\ UNCHANGED <<kind, rows, cache, completed>> /\ ReadFits(p)
        /\ call[p] \in Frames /\ call[p].key \in Key
    BY DEF Load, store, Types, Fits, Reading, Frames
  <1>2. CASE Finish(p)
    BY <1>1, <1>2, FinishStep
  <1>3. CASE ~Finish(p)
    <2> DEFINE k == call[p].key
               v == Value([i \in Covers(k) |-> Plain(rows[i])])
               r == IF k \in Id THEN rows[k] ELSE Nil
               c == [call[p] EXCEPT !.value = v, !.copy = r]
    <2>1. pc' = [pc EXCEPT ![p] = "put"]
          /\ call' = [call EXCEPT ![p].value = v, ![p].copy = r]
      BY <1>3 DEF Load, Goto
    <2>2. /\ v \in Values /\ v.left = MaxDelay /\ v.old = Nil /\ v.vals \in [Covers(k) -> Row]
          /\ \A i \in Covers(k) : v.vals[i].ver = rows[i].ver /\ v.vals[i].key = Nil
      BY <1>1, LoadTypes DEF Types
    <2>3. r \in Row \cup {Nil} /\ (k \in Id => r \in Row /\ r = rows[k])
      BY <1>1 DEF Types
    <2> HIDE DEF v, r
    <2>4. call' = [call EXCEPT ![p] = c]
      BY <1>1, <2>1 DEF Types
    <2>5. /\ c \in Frames /\ c.key = k /\ c.value = v /\ c.copy = r /\ c.ids = call[p].ids
          /\ c.at = call[p].at /\ c.op = call[p].op /\ c.wrote = call[p].wrote
      BY <1>1, <2>2, <2>3 DEF Frames
    <2> HIDE DEF c
    <2>6. pc'[p] = "put" /\ call'[p] = c /\ c # Nil
      BY <2>1, <2>4, <2>5 DEF Types, Sound
    <2>7. Fits(p)'
      BY <1>1, <2>2, <2>3, <2>5, <2>6 DEF Fits, ReadFits, Reading, Dropping
    <2>8. Types'
      BY <1>1, <2>1, <2>4, <2>5, <2>7, CacheStays, OneStep DEF Types, Label, Reading
    <2>9. QED BY <1>1, <2>1, <2>2, <2>3, <2>4, <2>5, <2>8
  <1>4. QED BY <1>2, <1>3

\* A step of worker p that may mark or age the values that others have to
\* store.
LEMMA ManyStep ==
  ASSUME Sound, Types, NEW p \in Worker,
         pc' \in [Worker -> Label], call' = [q \in Worker |-> call'[q]],
         \A q \in Worker \ {p} :
            /\ pc'[q] = pc[q]
            /\ call'[q] = call[q] \/ (pc[q] = "put" /\ Revalued(q)),
         kind' = kind, rows' \in [Id -> Row], CacheTypes', completed' \in [Id -> Nat],
         call'[p] \in Frames \cup {Nil}, Fits(p)'
  PROVE  Types'
  <1>1. \A q \in Worker : call'[q] \in Frames \cup {Nil} /\ Fits(q)'
    BY FitsStays
  <1>2. call' \in [Worker -> Frames \cup {Nil}]
    BY <1>1
  <1>3. QED BY <1>1, <1>2 DEF Types

\* A value that was read is stored, and its row handed on.
LEMMA PutTypes ==
  ASSUME Sound, Types, NEW p \in Worker, Put(p)
  PROVE  /\ Types' /\ pc[p] = "put" /\ UNCHANGED <<kind, rows, completed>>
         /\ cache' = [cache EXCEPT ![call[p].key] = Stored(call[p].value)]
         /\ \/ pc' = [pc EXCEPT ![p] = "idle"] /\ call' = [call EXCEPT ![p] = Nil]
            \/ \E c \in Frames :
                 /\ c.op = call[p].op /\ c.wrote = call[p].wrote /\ c.key = call[p].key
                 /\ c.copy = call[p].copy /\ call[p].key \in Id
                 /\ call' = [call EXCEPT ![p] = c]
                 /\ \/ pc' = [pc EXCEPT ![p] = "write"] /\ c.op = "updateUser"
                    \/ pc' = [pc EXCEPT ![p] = "found"]
  <1>1. /\ pc[p] = "put" /\ UNCHANGED <<kind, rows, completed>> /\ ReadFits(p)
        /\ call[p] \in Frames /\ call[p].key \in Key /\ call[p].value \in Values
        /\ call[p].value.vals \in [Covers(call[p].key) -> Row]
        /\ cache' = [cache EXCEPT ![call[p].key] = Stored(call[p].value)]
    BY DEF Put, Types, Fits, Reading, Frames, ReadFits
  <1>2. CacheTypes'
    <2>1. /\ Stored(call[p].value) \in Values
          /\ Stored(call[p].value).vals = call[p].value.vals
      BY <1>1, ValueTypes
    <2>2. CacheTypes
      BY DEF Types
    <2>3. QED BY <1>1, <2>1, <2>2 DEF CacheTypes
  <1>3. CASE call[p].key \in Id
    <2> DEFINE c == [call[p] EXCEPT !.value = Nil]
    <2>1. HandOn(p, c)
      BY <1>3 DEF Put
    <2>2. /\ c \in Frames /\ c.copy = call[p].copy /\ c.ids = call[p].ids
          /\ c.at = call[p].at /\ c.op = call[p].op /\ c.wrote = call[p].wrote
          /\ c.key = call[p].key
      BY <1>1 DEF Frames
    <2> HIDE DEF c
    <2>3. c.copy \in Row
      BY <1>1, <1>3, <2>2 DEF ReadFits
    <2>4. /\ Types'
          /\ \/ pc' = [pc EXCEPT ![p] = "idle"] /\ call' = [call EXCEPT ![p] = Nil]
             \/ /\ pc' = [pc EXCEPT ![p] = "write"] /\ call' = [call EXCEPT ![p] = c]
                /\ c.op = "updateUser"
             \/ /\ pc' = [pc EXCEPT ![p] = "found"] /\ call' = [call EXCEPT ![p] = c]
                /\ c.op \in MediaOp
      BY <1>1, <1>2, <1>3, <2>1, <2>2, <2>3, HandOnStep DEF Reading
    <2>5. QED BY <1>1, <1>3, <2>2, <2>4
  <1>4. CASE call[p].key \notin Id
    <2>1. pc' = [pc EXCEPT ![p] = "idle"] /\ call' = [call EXCEPT ![p] = Nil]
      BY <1>4 DEF Put, Finish, Goto
    <2>2. pc'[p] = "idle" /\ call'[p] = Nil
      BY <2>1 DEF Types
    <2>3. Fits(p)'
      BY <2>2 DEF Fits, Reading, Dropping
    <2>4. Types'
      BY <1>1, <1>2, <2>1, <2>3, OneStep DEF Types, Label
    <2>5. QED BY <1>1, <2>1, <2>4
  <1>5. QED BY <1>3, <1>4

\* The rows that one statement writes.
LEMMA TouchedTypes ==
  ASSUME Sound, Types, NEW p \in Worker, pc[p] \in {"write"} \cup Dropping
  PROVE  /\ Touched(p) \subseteq Id /\ This(p) \in Id
         /\ \A i \in Touched(p) : \E n \in 1..Len(call[p].ids) : call[p].ids[n] = i
         /\ call[p] \in Frames /\ call[p].at \in 1..Len(call[p].ids)
         /\ call[p].ids \in Seq(Id) /\ call[p].at \in Nat
         /\ \A n \in 1..Len(call[p].ids) : call[p].ids[n] \in Id
  <1>1. call[p] \in Frames /\ call[p].at \in 1..Len(call[p].ids)
    BY DEF Types, Fits, Dropping
  <1>2. call[p].ids \in Seq(Id) /\ call[p].at \in Nat
    BY <1>1 DEF Frames
  <1>3. \A n \in 1..Len(call[p].ids) : call[p].ids[n] \in Id
    BY <1>2
  <1>4. DOMAIN call[p].ids = 1..Len(call[p].ids)
    BY <1>2
  <1>5. QED BY <1>1, <1>2, <1>3, <1>4 DEF Touched, This

\* What the statement of a request does.
LEMMA WriteTypes ==
  ASSUME Sound, Types, NEW p \in Worker, Write(p)
  PROVE  /\ Types' /\ pc[p] = "write" /\ UNCHANGED <<kind, completed>>
         /\ \A i \in Id :
              \/ rows'[i] = rows[i]
              \/ /\ i \in Touched(p)
                 /\ rows'[i] = Written(call[p].op, rows[i], call[p].patch, i)
                 /\ rows'[i].ver = rows[i].ver + 1
         /\ \A k \in Key : cache'[k] = IF cache[k] = Nil THEN Nil ELSE Outdated(cache[k], rows')
         /\ \A q \in Worker \ {p} :
              /\ pc'[q] = pc[q]
              /\ call'[q] = IF pc[q] = "put"
                            THEN [call[q] EXCEPT !.value = Outdated(call[q].value, rows')]
                            ELSE call[q]
         /\ \/ pc'[p] = "idle" /\ call'[p] = Nil
            \/ /\ pc'[p] \in {"write", "read", "dropId"} /\ call'[p] \in Frames
               /\ pc'[p] # "write" => call'[p].at = 1
               /\ call'[p].op = call[p].op /\ call'[p].ids = call[p].ids
               /\ call'[p].patch = call[p].patch \/ call'[p].patch.key = Nil
               /\ \A i \in Id :
                    call'[p].wrote[i] = IF rows'[i] = rows[i] THEN call[p].wrote[i]
                                        ELSE rows'[i].ver
               /\ pc'[p] = "write" => call[p].op # "create"
  <1> DEFINE c == call[p]
             new == [i \in Id |-> IF i \in Touched(p) THEN Written(c.op, rows[i], c.patch, i)
                                                     ELSE rows[i]]
             last == c.op = "create" \/ c.at = Len(c.ids)
             at == IF last THEN 1 ELSE c.at + 1
             wrote == [i \in Id |-> IF new[i] = rows[i] THEN c.wrote[i] ELSE new[i].ver]
             todo == IF last THEN NoPatch ELSE c.patch
             next == [c EXCEPT !.at = at, !.patch = todo, !.wrote = wrote]
  <1>1. /\ pc[p] = "write" /\ UNCHANGED <<kind, completed>> /\ rows' = new
        /\ cache' = [k \in Key |-> IF cache[k] = Nil THEN Nil ELSE Outdated(cache[k], new)]
        /\ \/ call' = AllOutdated(p, Nil, new) /\ Goto(p, "idle")
           \/ /\ call' = AllOutdated(p, next, new)
              /\ IF last THEN Goto(p, AfterWrite(c.op)) ELSE UNCHANGED pc
    BY DEF Write
  <1>2. /\ Touched(p) \subseteq Id /\ c \in Frames /\ c.at \in 1..Len(c.ids)
        /\ c.ids \in Seq(Id) /\ c.at \in Nat /\ c.patch \in Patch /\ c.wrote \in [Id -> Nat]
    BY <1>1, TouchedTypes DEF Frames
  <1>3. new \in [Id -> Row]
        /\ \A i \in Id : \/ new[i] = rows[i]
                         \/ /\ i \in Touched(p) /\ new[i] = Written(c.op, rows[i], c.patch, i)
                            /\ new[i].ver = rows[i].ver + 1
    <2>1. ASSUME NEW i \in Id
          PROVE  /\ Written(c.op, rows[i], c.patch, i) \in Row
                 /\ \/ Written(c.op, rows[i], c.patch, i) = rows[i]
                    \/ Written(c.op, rows[i], c.patch, i).ver = rows[i].ver + 1
      BY <1>2, WrittenTypes DEF Types
    <2>2. QED BY <2>1 DEF Types
  <1>4. wrote \in [Id -> Nat]
    <2>1. \A i \in Id : new[i].ver \in Nat
      BY <1>3 DEF Row
    <2>2. QED BY <1>2, <2>1
  <1> HIDE DEF new
  <1>5. at \in Nat /\ at \in 1..Len(c.ids)
    BY <1>2
  <1>5a. todo \in Patch /\ (todo = c.patch \/ todo.key = Nil)
    BY <1>2, NoPatchTypes DEF NoPatch
  <1> HIDE DEF at, wrote, todo
  <1>6. /\ next \in Frames /\ next.at = at /\ next.wrote = wrote /\ next.op = c.op
        /\ next.ids = c.ids /\ (next.patch = c.patch \/ next.patch.key = Nil)
    BY <1>2, <1>4, <1>5, <1>5a DEF Frames
  <1> HIDE DEF next
  <1>7. \A q \in Worker : pc[q] = "put" => call[q] \in Frames /\ call[q].value \in Values
    BY DEF Types, Fits, ReadFits, Reading
  <1>8. ASSUME NEW x \in {Nil, next}, call' = AllOutdated(p, x, new)
        PROVE  /\ call'[p] = x /\ call' = [q \in Worker |-> call'[q]]
               /\ \A q \in Worker \ {p} :
                    /\ call'[q] = IF pc[q] = "put"
                                  THEN [call[q] EXCEPT !.value = Outdated(call[q].value, new)]
                                  ELSE call[q]
                    /\ call'[q] = call[q] \/ (pc[q] = "put" /\ Revalued(q))
    <2>1. /\ call'[p] = x /\ call' = [q \in Worker |-> call'[q]]
          /\ \A q \in Worker \ {p} :
                call'[q] = IF pc[q] = "put"
                           THEN [call[q] EXCEPT !.value = Outdated(call[q].value, new)]
                           ELSE call[q]
      BY <1>8 DEF AllOutdated
    <2>2. ASSUME NEW q \in Worker \ {p}, pc[q] = "put" PROVE Revalued(q)
      <3>1. /\ Outdated(call[q].value, new) \in Values
            /\ Outdated(call[q].value, new).vals = call[q].value.vals
        BY <1>7, <2>2, ValueTypes
      <3>2. QED BY <2>1, <2>2, <3>1 DEF Revalued
    <2>3. QED BY <2>1, <2>2
  <1>9. CacheTypes'
    <2>1. ASSUME NEW k \in Key, cache[k] # Nil
          PROVE  /\ Outdated(cache[k], new) \in Values
                 /\ Outdated(cache[k], new).vals \in [Covers(k) -> Row]
      <3>1. cache[k] \in Values /\ cache[k].vals \in [Covers(k) -> Row]
        BY <2>1 DEF Types, CacheTypes
      <3>2. QED BY <3>1, ValueTypes
    <2>2. QED BY <1>1, <2>1 DEF CacheTypes
  <1>10. CASE call' = AllOutdated(p, Nil, new) /\ Goto(p, "idle")
    <2>1. pc' = [pc EXCEPT ![p] = "idle"] /\ pc' \in [Worker -> Label] /\ pc'[p] = "idle"
          /\ \A q \in Worker \ {p} : pc'[q] = pc[q]
      BY <1>10 DEF Goto, Types, Label
    <2>2. Fits(p)'
      BY <1>8, <1>10, <2>1 DEF Fits, Reading, Dropping
    <2>3. Types'
      BY <1>1, <1>3, <1>8, <1>9, <1>10, <2>1, <2>2, ManyStep DEF Types
    <2>4. QED BY <1>1, <1>3, <1>8, <1>10, <2>1, <2>3
  <1>11. CASE /\ call' = AllOutdated(p, next, new)
              /\ IF last THEN Goto(p, AfterWrite(c.op)) ELSE UNCHANGED pc
    <2> DEFINE l == IF last THEN AfterWrite(c.op) ELSE "write"
    <2>1. /\ pc' = [pc EXCEPT ![p] = l] /\ l \in {"write", "read", "dropId"}
          /\ l # "write" => at = 1
          /\ l = "write" => c.op # "create"
      <3>1. CASE last
        BY <1>11, <3>1 DEF AfterWrite, Goto, at
      <3>2. CASE ~last
        <4>1. pc' = [pc EXCEPT ![p] = "write"]
          BY <1>1, <1>11, <3>2 DEF Types
        <4>2. QED BY <3>2, <4>1
      <3>3. QED BY <3>1, <3>2
    <2> HIDE DEF l
    <2>2. pc' \in [Worker -> Label] /\ pc'[p] = l /\ \A q \in Worker \ {p} : pc'[q] = pc[q]
      BY <2>1 DEF Types, Label, Dropping
    <2>3. call'[p] = next /\ next # Nil
      BY <1>6, <1>8, <1>11 DEF Sound
    <2>4. Fits(p)'
      BY <1>5, <1>6, <2>1, <2>2, <2>3 DEF Fits, Reading, Dropping
    <2>5. Types'
      BY <1>1, <1>3, <1>6, <1>8, <1>9, <1>11, <2>2, <2>3, <2>4, ManyStep DEF Types
    <2>6. \A i \in Id : next.wrote[i] = IF new[i] = rows[i] THEN c.wrote[i] ELSE new[i].ver
      BY <1>6 DEF wrote
    <2>7. QED BY <1>1, <1>3, <1>6, <1>8, <1>11, <2>1, <2>2, <2>3, <2>5, <2>6
  <1>12. QED BY <1>1, <1>10, <1>11

\* The row that was written is there or not.
LEMMA ReadBackTypes ==
  ASSUME Sound, Types, NEW p \in Worker, ReadBack(p)
  PROVE  /\ Types' /\ UNCHANGED <<kind, rows, cache, completed>>
         /\ \/ Finish(p)
            \/ pc[p] = "read" /\ pc' = [pc EXCEPT ![p] = "dropId"] /\ call' = call
  <1>1. /\ pc[p] = "read" /\ UNCHANGED <<kind, rows, cache, completed>>
        /\ \/ Goto(p, "dropId") /\ call' = call
           \/ Finish(p)
    BY DEF ReadBack, store
  <1>2. CASE Goto(p, "dropId") /\ call' = call
    <2>1. call[p].at \in 1..Len(call[p].ids)
      BY <1>1, TouchedTypes DEF Dropping
    <2>2. QED BY <1>1, <1>2, <2>1, GotoStep DEF Label, Reading, Dropping
  <1>3. CASE Finish(p)
    BY <1>1, <1>3, FinishStep
  <1>4. QED BY <1>1, <1>2, <1>3

\* What one deletion of a key does to those who wait to store it.
LEMMA OverlapTypes ==
  ASSUME Sound, Types, NEW p \in Worker, pc[p] # "put"
  PROVE  /\ Overlapped(p) = [q \in Worker |-> Overlapped(p)[q]] /\ Overlapped(p)[p] = call[p]
         /\ \A q \in Worker :
              Overlapped(p)[q] =
                IF pc[q] = "put" /\ call[q].key \in Dropped(pc[p], This(p))
                THEN [call[q] EXCEPT !.value = [call[q].value EXCEPT !.overlap = TRUE]]
                ELSE call[q]
         /\ \A q \in Worker : pc[q] = "put" =>
              /\ call[q] \in Frames /\ call[q].value \in Values
              /\ [call[q].value EXCEPT !.overlap = TRUE] \in Values
              /\ [call[q].value EXCEPT !.overlap = TRUE].vals = call[q].value.vals
  <1>1. \A q \in Worker : pc[q] = "put" => call[q] \in Frames /\ call[q].value \in Values
    BY DEF Types, Fits, ReadFits, Reading
  <1>2. \A q \in Worker : pc[q] = "put" =>
              /\ [call[q].value EXCEPT !.overlap = TRUE] \in Values
              /\ [call[q].value EXCEPT !.overlap = TRUE].vals = call[q].value.vals
    BY <1>1, ValueTypes
  <1>3. \A q \in Worker : pc[q] = "put" =>
           [call[q] EXCEPT !.value.overlap = TRUE]
           = [call[q] EXCEPT !.value = [call[q].value EXCEPT !.overlap = TRUE]]
    BY <1>1 DEF Frames
  <1>4. QED BY <1>1, <1>2, <1>3 DEF Overlapped

\* The end of a deletion: where its request goes.
LEMMA DropTypes ==
  ASSUME Sound, Types, NEW p \in Worker, Drop(p)
  PROVE  /\ Types' /\ pc[p] \in {"dropId", "dropList", "dropBatch"} /\ UNCHANGED <<kind, rows>>
         /\ \A k \in Key : cache'[k] = IF k \in Dropped(pc[p], This(p)) THEN Nil ELSE cache[k]
         /\ \A q \in Worker \ {p} :
              /\ pc'[q] = pc[q]
              /\ call'[q] =
                   IF pc[q] = "put" /\ call[q].key \in Dropped(pc[p], This(p))
                   THEN [call[q] EXCEPT !.value = [call[q].value EXCEPT !.overlap = TRUE]]
                   ELSE call[q]
         /\ \/ /\ pc'[p] = AfterDrop(pc[p]) /\ AfterDrop(pc[p]) # Nil /\ call'[p] = call[p]
               /\ completed' = completed
            \/ /\ AfterDrop(pc[p]) = Nil /\ call[p].at < Len(call[p].ids)
               /\ pc'[p] \in {"read", "dropId"} /\ completed' = completed
               /\ call'[p].at = call[p].at + 1 /\ call'[p].ids = call[p].ids
               /\ call'[p].wrote = call[p].wrote /\ call'[p].op = call[p].op
            \/ /\ AfterDrop(pc[p]) = Nil /\ call[p].at = Len(call[p].ids)
               /\ pc'[p] = "idle" /\ call'[p] = Nil
               /\ completed' = [i \in Id |-> IF call[p].wrote[i] > completed[i]
                                             THEN call[p].wrote[i] ELSE completed[i]]
  <1> DEFINE c == call[p]
  <1>1. /\ pc[p] \in {"dropId", "dropList", "dropBatch"} /\ UNCHANGED <<kind, rows>>
        /\ pc[p] # "put" /\ pc[p] # "idle"
        /\ cache' = [k \in Key |-> IF k \in Dropped(pc[p], This(p)) THEN Nil ELSE cache[k]]
    BY DEF Drop
  <1>2. /\ c \in Frames /\ c.at \in 1..Len(c.ids) /\ c.ids \in Seq(Id) /\ c.at \in Nat
        /\ c # Nil
    BY <1>1, TouchedTypes DEF Dropping, Sound
  <1>3. CacheTypes'
    BY <1>1 DEF CacheTypes, Types
  <1>4. ASSUME NEW x, call' = [Overlapped(p) EXCEPT ![p] = x]
        PROVE  /\ call'[p] = x /\ call' = [q \in Worker |-> call'[q]]
               /\ \A q \in Worker \ {p} :
                    call'[q] =
                      IF pc[q] = "put" /\ call[q].key \in Dropped(pc[p], This(p))
                      THEN [call[q] EXCEPT !.value = [call[q].value EXCEPT !.overlap = TRUE]]
                      ELSE call[q]
               /\ \A q \in Worker \ {p} : call'[q] = call[q] \/ (pc[q] = "put" /\ Revalued(q))
    <2>1. /\ call'[p] = x /\ call' = [q \in Worker |-> call'[q]]
          /\ \A q \in Worker \ {p} : call'[q] = Overlapped(p)[q]
      BY <1>1, <1>4, OverlapTypes
    <2>2. ASSUME NEW q \in Worker \ {p}
          PROVE  call'[q] = call[q] \/ (pc[q] = "put" /\ Revalued(q))
      <3>1. CASE pc[q] = "put" /\ call[q].key \in Dropped(pc[p], This(p))
        <4> DEFINE v == [call[q].value EXCEPT !.overlap = TRUE]
        <4>1. call'[q] = [call[q] EXCEPT !.value = v]
          BY <1>1, <2>1, <3>1, OverlapTypes
        <4>2. v \in Values /\ v.vals = call[q].value.vals
          BY <1>1, <3>1, OverlapTypes
        <4> HIDE DEF v
        <4>3. QED BY <3>1, <4>1, <4>2 DEF Revalued
      <3>2. CASE ~(pc[q] = "put" /\ call[q].key \in Dropped(pc[p], This(p)))
        BY <1>1, <2>1, <3>2, OverlapTypes
      <3>3. QED BY <3>1, <3>2
    <2>3. QED BY <1>1, <2>1, <2>2, OverlapTypes
  <1>5. CASE AfterDrop(pc[p]) # Nil
    <2>1. pc' = [pc EXCEPT ![p] = AfterDrop(pc[p])] /\ call' = Overlapped(p)
          /\ completed' = completed
      BY <1>5 DEF Drop, Goto
    <2>2. Overlapped(p) = [Overlapped(p) EXCEPT ![p] = call[p]]
      BY <1>1, OverlapTypes
    <2>3. AfterDrop(pc[p]) \in {"dropList", "dropBatch"}
      BY <1>1, <1>5 DEF AfterDrop
    <2>4. /\ pc' \in [Worker -> Label] /\ pc'[p] = AfterDrop(pc[p])
          /\ \A q \in Worker \ {p} : pc'[q] = pc[q]
      BY <2>1, <2>3 DEF Types, Label, Dropping
    <2>5. call'[p] = c
      BY <1>4, <2>1, <2>2
    <2>6. Fits(p)'
      BY <1>2, <2>3, <2>4, <2>5 DEF Fits, Reading, Dropping
    <2>7. Types'
      BY <1>1, <1>2, <1>3, <1>4, <2>1, <2>2, <2>4, <2>5, <2>6, ManyStep DEF Types
    <2>8. QED BY <1>1, <1>4, <1>5, <2>1, <2>2, <2>4, <2>5, <2>7
  <1>6. CASE AfterDrop(pc[p]) = Nil /\ c.at < Len(c.ids)
    <2> DEFINE at == c.at + 1
               d == [c EXCEPT !.at = at]
               l == AfterWrite(c.op)
    <2>1. pc' = [pc EXCEPT ![p] = l] /\ call' = [Overlapped(p) EXCEPT ![p] = d]
          /\ completed' = completed
      BY <1>6 DEF Drop, NextRow, Goto
    <2>2. at \in Nat /\ at \in 1..Len(c.ids)
      BY <1>2, <1>6
    <2>3. l \in {"read", "dropId"}
      BY DEF AfterWrite
    <2> HIDE DEF at, l
    <2>4. d \in Frames /\ d.at = at /\ d.ids = c.ids /\ d.wrote = c.wrote /\ d.op = c.op
      BY <1>2, <2>2 DEF Frames
    <2> HIDE DEF d
    <2>5. pc' \in [Worker -> Label] /\ pc'[p] = l /\ \A q \in Worker \ {p} : pc'[q] = pc[q]
      BY <2>1, <2>3 DEF Types, Label, Dropping
    <2>6. call'[p] = d /\ d # Nil
      BY <1>4, <2>1, <2>4 DEF Sound
    <2>7. Fits(p)'
      BY <2>2, <2>3, <2>4, <2>5, <2>6 DEF Fits, Reading, Dropping
    <2>8. Types'
      BY <1>1, <1>3, <1>4, <2>1, <2>4, <2>5, <2>6, <2>7, ManyStep DEF Types
    <2>9. QED BY <1>1, <1>4, <1>6, <2>1, <2>3, <2>4, <2>5, <2>6, <2>8 DEF at
  <1>7. CASE AfterDrop(pc[p]) = Nil /\ ~(c.at < Len(c.ids))
    <2>1. /\ pc' = [pc EXCEPT ![p] = "idle"] /\ call' = [Overlapped(p) EXCEPT ![p] = Nil]
          /\ completed' = [i \in Id |-> IF c.wrote[i] > completed[i]
                                        THEN c.wrote[i] ELSE completed[i]]
      BY <1>7 DEF Drop, NextRow, Goto
    <2>2. pc' \in [Worker -> Label] /\ pc'[p] = "idle" /\ \A q \in Worker \ {p} : pc'[q] = pc[q]
      BY <2>1 DEF Types, Label
    <2>3. call'[p] = Nil
      BY <1>4, <2>1
    <2>4. Fits(p)'
      BY <2>2, <2>3 DEF Fits, Reading, Dropping
    <2>5. completed' \in [Id -> Nat]
      BY <1>2, <2>1 DEF Types, Frames
    <2>6. Types'
      BY <1>1, <1>3, <1>4, <2>1, <2>2, <2>3, <2>4, <2>5, ManyStep DEF Types
    <2>7. c.at = Len(c.ids)
      BY <1>2, <1>7
    <2>8. QED BY <1>1, <1>4, <1>7, <2>1, <2>2, <2>3, <2>6, <2>7
  <1>8. QED BY <1>5, <1>6, <1>7

\* A request fails.
LEMMA FailTypes ==
  ASSUME Sound, Types, NEW p \in Worker, Fail(p)
  PROVE  Types' /\ Finish(p) /\ UNCHANGED <<kind, rows, cache, completed>>
  BY FinishStep DEF Fail, store

\* The cache is emptied.
LEMMA FlushTypes == ASSUME Sound, Types, Flush PROVE Types'
  <1>1. UNCHANGED <<kind, rows, pc, call, completed>> /\ cache' = [k \in Key |-> Nil]
    BY DEF Flush
  <1>2. CacheTypes'
    BY <1>1 DEF CacheTypes
  <1>3. \A p \in Worker : Fits(p)'
    BY <1>1 DEF Types, Fits, ReadFits
  <1>4. QED BY <1>1, <1>2, <1>3 DEF Types

\* A second passes for every value.
LEMMA TickTypes ==
  ASSUME Sound, Types, Tick
  PROVE  /\ Types' /\ UNCHANGED <<kind, rows, pc, completed>>
         /\ \A k \in Key :
              cache'[k] = IF cache[k] = Nil \/ cache[k].left <= 1 THEN Nil ELSE Aged(cache[k])
         /\ \A q \in Worker : pc[q] = "put" =>
              /\ call[q].value.left > 0
              /\ call'[q] = [call[q] EXCEPT !.value = Aged(call[q].value)]
         /\ \A q \in Worker : pc[q] # "put" => call'[q] = call[q]
  <1>1. /\ UNCHANGED <<kind, rows, pc, completed>>
        /\ \A p \in Worker : pc[p] = "put" => call[p].value.left > 0
        /\ cache' = [k \in Key |-> IF cache[k] = Nil \/ cache[k].left <= 1
                                   THEN Nil ELSE Aged(cache[k])]
        /\ \A q \in Worker : pc[q] = "put" =>
              call'[q] = [call[q] EXCEPT !.value = Aged(call[q].value)]
        /\ \A q \in Worker : pc[q] # "put" => call'[q] = call[q]
        /\ call' = [q \in Worker |-> call'[q]]
    BY DEF Tick, bounds
  <1>2. ASSUME NEW q \in Worker
        PROVE  call'[q] = call[q] \/ (pc[q] = "put" /\ Revalued(q))
    <2>1. pc[q] = "put" => call[q].value \in Values
      BY DEF Types, Fits, ReadFits, Reading
    <2>2. QED BY <1>1, <2>1, AgedTypes DEF Revalued
  <1>3. \A q \in Worker : call'[q] \in Frames \cup {Nil} /\ Fits(q)'
    BY <1>1, <1>2, FitsStays
  <1>4. CacheTypes'
    <2>1. ASSUME NEW k \in Key, cache[k] # Nil, ~(cache[k].left <= 1)
          PROVE  Aged(cache[k]) \in Values /\ Aged(cache[k]).vals \in [Covers(k) -> Row]
      <3>1. cache[k] \in Values /\ cache[k].vals \in [Covers(k) -> Row]
        BY <2>1 DEF Types, CacheTypes
      <3>2. cache[k].left > 0
        BY <2>1, <3>1 DEF Values
      <3>3. QED BY <3>1, <3>2, AgedTypes
    <2>2. QED BY <1>1, <2>1 DEF CacheTypes
  <1>5. call' \in [Worker -> Frames \cup {Nil}]
    BY <1>1, <1>3
  <1>6. QED BY <1>1, <1>3, <1>4, <1>5 DEF Types

\* What is left of the files without one.
LEMMA WithoutTypes ==
  ASSUME NEW S, NEW s \in Seq(S), NEW n \in 1..Len(s)
  PROVE  /\ Without(s, n) \in Seq(S) /\ Len(Without(s, n)) = Len(s) - 1
         /\ \A m \in 1..Len(Without(s, n)) :
              Without(s, n)[m] = IF m < n THEN s[m] ELSE s[m + 1]
  <1> DEFINE a == SubSeq(s, 1, n - 1)
             b == SubSeq(s, n + 1, Len(s))
  <1>1. a \in Seq(S) /\ Len(a) = n - 1 /\ \A m \in 1..(n - 1) : a[m] = s[m]
    OBVIOUS
  <1>2. b \in Seq(S) /\ Len(b) = Len(s) - n /\ \A m \in 1..(Len(s) - n) : b[m] = s[n + m]
    OBVIOUS
  <1> HIDE DEF a, b
  <1>3. a \o b \in Seq(S) /\ Len(a \o b) = Len(a) + Len(b)
        /\ \A m \in 1..(Len(a) + Len(b)) :
              (a \o b)[m] = IF m <= Len(a) THEN a[m] ELSE b[m - Len(a)]
    <2>1. a \in Seq(S) /\ b \in Seq(S)
      BY <1>1, <1>2
    <2>2. a \o b \in Seq(S)
      BY <2>1
    <2>3. Len(a \o b) = Len(a) + Len(b)
      BY <2>1
    <2>4. \A m \in 1..(Len(a) + Len(b)) :
              (a \o b)[m] = IF m <= Len(a) THEN a[m] ELSE b[m - Len(a)]
      BY <2>1
    <2>5. QED BY <2>2, <2>3, <2>4
  <1>4. Without(s, n) = a \o b
    BY DEF Without, a, b
  <1>5. ASSUME NEW m \in 1..(Len(s) - 1)
        PROVE  (a \o b)[m] = IF m < n THEN s[m] ELSE s[m + 1]
    <2>1. CASE m < n
      BY <1>1, <1>2, <1>3, <2>1
    <2>2. CASE ~(m < n)
      <3>1. m - Len(a) \in 1..(Len(s) - n) /\ n + (m - Len(a)) = m + 1 /\ ~(m <= Len(a))
            /\ m \in 1..(Len(a) + Len(b))
        BY <1>1, <1>2, <2>2, Len(s) \in Nat
      <3>2. (a \o b)[m] = b[m - Len(a)]
        BY <1>3, <3>1
      <3>3. b[m - Len(a)] = s[n + (m - Len(a))]
        BY <1>2, <3>1
      <3>4. QED BY <2>2, <3>1, <3>2, <3>3
    <2>3. QED BY <2>1, <2>2
  <1>6. Len(a \o b) = Len(s) - 1
    BY <1>1, <1>2, <1>3
  <1>7. QED BY <1>3, <1>4, <1>5, <1>6

\* A file that worker p has gone through, or left out.
LEMMA FileTypes ==
  ASSUME Sound, Types, NEW p \in Worker, ProcessFile(p)
  PROVE  /\ Types' /\ UNCHANGED <<kind, rows, cache, completed, pc, asked, given>> /\ pc[p] = "upload"
         /\ call[p] \in Frames /\ call[p].at \in 1..Len(call[p].ids)
         /\ call[p].ids \in Seq(Id) /\ call[p].op = "create" /\ call[p].at \in Nat
         /\ \E c \in Frames :
              /\ call' = [call EXCEPT ![p] = c] /\ c.op = "create" /\ c.wrote = call[p].wrote
              /\ \/ /\ c.at = call[p].at + 1 /\ c.ids = call[p].ids
                    /\ objects' = objects \cup {call[p].ids[call[p].at]}
                 \/ /\ c.at = call[p].at
                    /\ c.ids = Without(call[p].ids, call[p].at)
                    /\ objects' \in {objects, objects \cup {call[p].ids[call[p].at]}}
  <1> DEFINE c == call[p]
  <1>1. /\ pc[p] = "upload" /\ UNCHANGED <<kind, rows, cache, completed, pc, asked, given>>
        /\ c.at <= Len(c.ids)
        /\ \/ /\ objects' = objects \cup {c.ids[c.at]}
              /\ call' = [call EXCEPT ![p].at = @ + 1]
           \/ /\ objects' \in {objects, objects \cup {c.ids[c.at]}}
              /\ call' = [call EXCEPT ![p].ids = Without(@, call[p].at)]
    BY DEF ProcessFile, store, This, Store!Upload, Store!UploadFails, LeftOut
  <1>2. /\ c \in Frames /\ c.op = "create" /\ c.at \in 1..(Len(c.ids) + 1)
        /\ c.ids \in Seq(Id) /\ c.at \in Nat
    BY <1>1 DEF Types, Fits, Frames
  <1>3. c.at \in 1..Len(c.ids)
    BY <1>1, <1>2
  <1>4. ASSUME NEW d \in Frames, call' = [call EXCEPT ![p] = d], d.op = "create",
               d.at \in 1..(Len(d.ids) + 1)
        PROVE  Types'
    <2>1. pc' = [pc EXCEPT ![p] = "upload"] /\ pc'[p] = "upload" /\ call'[p] = d /\ d # Nil
      BY <1>1, <1>4 DEF Types, Sound
    <2>2. Fits(p)'
      BY <1>4, <2>1 DEF Fits, Reading, Dropping
    <2>3. QED BY <1>1, <1>4, <2>1, <2>2, CacheStays, OneStep DEF Types, Label
  <1>5. CASE /\ objects' = objects \cup {c.ids[c.at]}
             /\ call' = [call EXCEPT ![p].at = @ + 1]
    <2> DEFINE at == c.at + 1
               d == [c EXCEPT !.at = at]
    <2>1. call' = [call EXCEPT ![p] = d] /\ at \in Nat /\ at \in 1..(Len(c.ids) + 1)
      BY <1>2, <1>3, <1>5 DEF Types
    <2> HIDE DEF at
    <2>2. d \in Frames /\ d.at = at /\ d.ids = c.ids /\ d.op = c.op /\ d.wrote = c.wrote
      BY <1>2, <2>1 DEF Frames
    <2> HIDE DEF d
    <2>3. Types'
      BY <1>2, <1>4, <2>1, <2>2
    <2>4. QED BY <1>1, <1>2, <1>3, <1>5, <2>1, <2>2, <2>3 DEF at
  <1>6. CASE /\ objects' \in {objects, objects \cup {c.ids[c.at]}}
             /\ call' = [call EXCEPT ![p].ids = Without(@, call[p].at)]
    <2> DEFINE s == Without(c.ids, c.at)
               d == [c EXCEPT !.ids = s]
    <2>1. call' = [call EXCEPT ![p] = d]
      BY <1>2, <1>6 DEF Types
    <2>2. s \in Seq(Id) /\ Len(s) = Len(c.ids) - 1
      BY <1>2, <1>3, WithoutTypes
    <2> HIDE DEF s
    <2>3. d \in Frames /\ d.at = c.at /\ d.ids = s /\ d.op = c.op /\ d.wrote = c.wrote
      BY <1>2, <2>2 DEF Frames
    <2>4. d.at \in 1..(Len(d.ids) + 1)
      BY <1>2, <1>3, <2>2, <2>3
    <2> HIDE DEF d
    <2>5. Types'
      BY <1>2, <1>4, <2>1, <2>3, <2>4
    <2>6. QED BY <1>1, <1>2, <1>3, <1>6, <2>1, <2>3, <2>5 DEF s
  <1>7. QED BY <1>1, <1>5, <1>6

\* The files that were stored get their rows.
LEMMA RowsTypes ==
  ASSUME Sound, Types, NEW p \in Worker, CreateRows(p)
  PROVE  /\ Types' /\ UNCHANGED <<kind, rows, cache, completed, objects, asked, given>>
         /\ \/ Finish(p)
            \/ \E c \in Frames :
                 /\ pc[p] = "upload" /\ call[p].at > Len(call[p].ids)
                 /\ call' = [call EXCEPT ![p] = c] /\ pc' = [pc EXCEPT ![p] = "write"]
                 /\ c.op = "create" /\ c.ids = call[p].ids /\ c.wrote = call[p].wrote
  <1>1. /\ pc[p] = "upload" /\ UNCHANGED <<kind, rows, cache, completed, objects, asked, given>>
        /\ call[p].at > Len(call[p].ids)
        /\ \/ Finish(p)
           \/ /\ call[p].ids # << >> /\ call' = [call EXCEPT ![p].at = 1]
              /\ pc' = [pc EXCEPT ![p] = "write"]
    BY DEF CreateRows, store, media, Goto
  <1>2. CASE Finish(p)
    BY <1>1, <1>2, FinishStep
  <1>3. CASE /\ call[p].ids # << >> /\ call' = [call EXCEPT ![p].at = 1]
             /\ pc' = [pc EXCEPT ![p] = "write"]
    <2> DEFINE c == [call[p] EXCEPT !.at = 1]
    <2>1. call[p] \in Frames /\ call[p].op = "create" /\ call[p].ids \in Seq(Id)
      BY <1>1 DEF Types, Fits, Frames
    <2>2. c \in Frames /\ c.at = 1 /\ c.ids = call[p].ids /\ c.op = "create"
          /\ c.wrote = call[p].wrote
      BY <2>1 DEF Frames
    <2>3. call' = [call EXCEPT ![p] = c]
      BY <1>3, <2>1 DEF Types
    <2> HIDE DEF c
    <2>4. c.at \in 1..Len(c.ids)
      BY <1>3, <2>1, <2>2
    <2>5. pc'[p] = "write" /\ call'[p] = c /\ c # Nil
      BY <1>3, <2>2, <2>3 DEF Types, Sound
    <2>6. Fits(p)'
      BY <2>4, <2>5 DEF Fits, Reading, Dropping
    <2>7. Types'
      BY <1>1, <1>3, <2>2, <2>3, <2>6, CacheStays, OneStep DEF Types, Label
    <2>8. QED BY <1>1, <1>3, <2>2, <2>3, <2>7
  <1>4. QED BY <1>1, <1>2, <1>3

\* The columns that a handler writes.
LEMMA PatchTypes ==
  ASSUME NEW c \in Frames, c.copy \in Row, c.op \in MediaOp \ {"file"}
  PROVE  PatchOf(c) \in Patch /\ PatchOf(c).key = Nil
  <1>1. c.copy.views \in Nat /\ Counted(c) \in Nat
    BY DEF Row, Counted
  <1>2. CASE c.op = "activate"
    BY <1>2 DEF PatchOf, NoPatch, Patch
  <1>3. CASE c.op = "deactivate"
    BY <1>3 DEF PatchOf, NoPatch, Patch
  <1>4. CASE c.op = "delete"
    BY <1>4 DEF PatchOf, NoPatch, Patch
  <1>5. CASE c.op = "view"
    BY <1>1, <1>5 DEF PatchOf, NoPatch, Patch
  <1>6. QED BY <1>2, <1>3, <1>4, <1>5 DEF MediaOp

\* A handler goes on to its update.
LEMMA PatchStep ==
  ASSUME Sound, Types, NEW p \in Worker, pc[p] \in {"found", "object"},
         call[p].op \in MediaOp \ {"file"}, Updating(p),
         UNCHANGED <<kind, rows, cache, completed>>
  PROVE  /\ Types' /\ pc' = [pc EXCEPT ![p] = "write"]
         /\ \E c \in Frames : /\ call' = [call EXCEPT ![p] = c] /\ c.op = "update"
                              /\ c.wrote = [i \in Id |-> 0] /\ c.patch.key = Nil
  <1> DEFINE c == Frame("update", call[p].ids, "list", PatchOf(call[p]))
  <1>1. /\ call[p] \in Frames /\ call[p].copy \in Row /\ call[p].at \in 1..Len(call[p].ids)
        /\ call[p].ids \in Seq(Id)
    BY DEF Types, Fits, Frames
  <1>2. PatchOf(call[p]) \in Patch /\ PatchOf(call[p]).key = Nil
    BY <1>1, PatchTypes
  <1>3. "update" \in Op /\ "list" \in Key /\ [i \in Id |-> 0] \in [Id -> Nat]
    BY DEF Op, Key
  <1>4. /\ c \in Frames /\ c.op = "update" /\ c.ids = call[p].ids /\ c.at = 1
        /\ c.wrote = [i \in Id |-> 0] /\ c.patch.key = Nil
    BY <1>1, <1>2, <1>3 DEF Frame, Frames
  <1>5. call' = [call EXCEPT ![p] = c] /\ pc' = [pc EXCEPT ![p] = "write"]
    BY DEF Types, Goto, Updating
  <1> HIDE DEF c
  <1>6. pc'[p] = "write" /\ call'[p] = c /\ c # Nil
    BY <1>4, <1>5 DEF Types, Sound
  <1>7. 1 \in 1..Len(call[p].ids)
    BY <1>1
  <1>8. Fits(p)'
    BY <1>4, <1>6, <1>7 DEF Fits, Reading, Dropping
  <1>9. Types'
    BY <1>4, <1>5, <1>8, CacheStays, OneStep DEF Types, Label
  <1>10. QED BY <1>4, <1>5, <1>9

\* A handler has its medium.
LEMMA DecideTypes ==
  ASSUME Sound, Types, NEW p \in Worker, Decide(p)
  PROVE  /\ Types' /\ UNCHANGED <<kind, rows, cache, completed, objects, asked, given>>
         /\ pc[p] = "found"
         /\ \/ Finish(p)
            \/ /\ pc' = [pc EXCEPT ![p] = "object"] /\ call' = call /\ call[p].op = "delete"
               /\ HasObject(call[p])
            \/ /\ pc' = [pc EXCEPT ![p] = "write"]
               /\ \E c \in Frames : /\ call' = [call EXCEPT ![p] = c] /\ c.op = "update"
                                    /\ c.wrote = [i \in Id |-> 0] /\ c.patch.key = Nil
  <1>1. /\ pc[p] = "found" /\ UNCHANGED <<kind, rows, cache, completed, objects, asked, given>>
        /\ call[p].op \in MediaOp \ {"file"}
        /\ \/ Finish(p)
           \/ /\ call[p].op = "delete" /\ HasObject(call[p]) /\ Goto(p, "object")
              /\ call' = call
           \/ Updating(p)
    <2>1. Idempotent(call[p]) => call[p].op # "delete"
      BY DEF Idempotent
    <2>2. QED BY <2>1 DEF Decide, store, media
  <1>2. CASE Finish(p)
    BY <1>1, <1>2, FinishStep
  <1>3. CASE /\ call[p].op = "delete" /\ HasObject(call[p]) /\ Goto(p, "object")
             /\ call' = call
    <2>1. call[p].copy \in Row /\ call[p].at \in 1..Len(call[p].ids)
      BY <1>1 DEF Types, Fits
    <2>2. QED BY <1>1, <1>3, <2>1, GotoStep DEF Label, Reading, Dropping
  <1>4. CASE Updating(p)
    BY <1>1, <1>4, PatchStep
  <1>5. QED BY <1>1, <1>2, <1>3, <1>4

\* The object goes, or its deletion fails.
LEMMA ObjectTypes ==
  ASSUME Sound, Types, NEW p \in Worker, DeleteObject(p)
  PROVE  /\ Types' /\ UNCHANGED <<kind, rows, cache, completed, given>> /\ pc[p] = "object"
         /\ objects' \in {objects, objects \ {call[p].copy.key}} /\ call[p].op = "delete"
         /\ asked' = asked \cup {call[p].key}
         /\ \/ Finish(p)
            \/ /\ pc' = [pc EXCEPT ![p] = "write"]
               /\ \E c \in Frames : /\ call' = [call EXCEPT ![p] = c] /\ c.op = "update"
                                    /\ c.wrote = [i \in Id |-> 0] /\ c.patch.key = Nil
  <1>1. /\ pc[p] = "object" /\ UNCHANGED <<kind, rows, cache, completed, given>>
        /\ objects' \in {objects, objects \ {call[p].copy.key}}
        /\ asked' = asked \cup {call[p].key}
        /\ Finish(p) \/ Updating(p)
    BY DEF DeleteObject, store, Store!Delete, Store!DeleteFails
  <1>2. call[p].op = "delete"
    BY <1>1 DEF Types, Fits
  <1>3. CASE Finish(p)
    BY <1>1, <1>2, <1>3, FinishStep
  <1>4. CASE Updating(p)
    BY <1>1, <1>2, <1>4, PatchStep DEF MediaOp
  <1>5. QED BY <1>1, <1>3, <1>4

-----------------------------------------------------------------------------
(* The steps, as the proofs see them.                                      *)

\* A request that the service or its derived class may start.
Arrives(p, o, s, k, patch, l) ==
    /\ Enter(p, o, s, k, patch, l)
    /\ l = "get" /\ k \in Id => s = <<k>> /\ o \in {"find", "updateUser"} \cup MediaOp
    /\ l = "upload" => o = "create"
    /\ l = "write" => Len(s) >= 1 /\ (o = "create" => kind = "graphql") /\ o # "delete"
    /\ l = "get" /\ k = "batch" => kind = "graphql"
    /\ o = "register" => kind = "users"
    /\ o = "updateUser" => kind = "users"
    /\ l = "write" => \/ patch.key = Nil \/ Given(patch.key) \in given'
                      \/ s = <<Given(patch.key)>>
    /\ UNCHANGED <<objects, asked>> /\ given \subseteq given'

\* A request of somebody.
Requested(p) ==
    \E o \in Op, s \in Seq(Id), k \in Key, patch \in Patch, l \in {"get", "upload", "write"} :
       Arrives(p, o, s, k, patch, l)

\* Whatever arrives is a request.
LEMMA ArriveSteps ==
  ASSUME Sound, NEW p \in Worker,
         \/ Arrive(p) /\ UNCHANGED media
         \/ \E s \in Some : UploadMedia(p, s)
         \/ \E i \in Id : \/ \E o \in MediaOp : FindMedia(p, o, i)
                          \/ \E patch \in Changes : UpdateMedia(p, i, patch)
  PROVE  Requested(p)
  <1> DEFINE Calm == UNCHANGED <<objects, asked, given>>
  <1>0. NoPatch.key = Nil
    BY DEF NoPatch
  <1>1. ASSUME NEW i \in Id, NEW o \in {"find", "updateUser"}, FindById(p, o, i), Calm,
               o = "updateUser" => kind = "users"
        PROVE  Requested(p)
    <2>1. Enter(p, o, <<i>>, i, NoPatch, "get")
      BY <1>1 DEF FindById
    <2>2. <<i>> \in Seq(Id) /\ i \in Key /\ NoPatch \in Patch /\ o \in Op
      BY <1>1, NoPatchTypes DEF Key, Op
    <2>3. Arrives(p, o, <<i>>, i, NoPatch, "get")
      BY <1>1, <2>1 DEF Arrives, Sound
    <2>4. QED BY <2>2, <2>3 DEF Requested
  <1>2. ASSUME NEW o \in Op, NEW k \in {"list", "batch"}, Enter(p, o, << >>, k, NoPatch, "get"),
               Calm, k = "batch" => kind = "graphql", o \in {"list", "batch"}
        PROVE  Requested(p)
    <2>1. << >> \in Seq(Id) /\ k \in Key /\ NoPatch \in Patch
      BY NoPatchTypes DEF Key
    <2>2. Arrives(p, o, << >>, k, NoPatch, "get")
      BY <1>2 DEF Arrives, Sound
    <2>3. QED BY <2>1, <2>2 DEF Requested
  <1>3. ASSUME NEW o \in Op, NEW s \in Seq(Id), Len(s) >= 1, NEW patch \in Patch,
               NEW l \in {"upload", "write"}, Enter(p, o, s, "list", patch, l), Calm,
               l = "upload" => o = "create", l = "write" /\ o = "create" => kind = "graphql",
               o = "register" => kind = "users", o \notin {"delete", "updateUser"},
               patch.key = Nil
        PROVE  Requested(p)
    <2>1. "list" \in Key
      BY DEF Key
    <2>2. Arrives(p, o, s, "list", patch, l)
      BY <1>3 DEF Arrives, Sound
    <2>3. QED BY <1>3, <2>1, <2>2 DEF Requested
  <1>4. CASE Arrive(p) /\ UNCHANGED media
    <2>0. Calm
      BY <1>4 DEF media
    <2>1. CASE \E i \in Id : FindById(p, "find", i)
      BY <1>1, <2>0, <2>1
    <2>2. CASE \E i \in Id : UpdateUser(p, i)
      BY <1>1, <2>0, <2>2 DEF UpdateUser
    <2>3. CASE \E i \in Id : Register(p, i)
      <3>1. PICK i \in Id : Register(p, i)
        BY <2>3
      <3>2. kind = "users" /\ Enter(p, "register", <<i>>, "list", NoPatch, "write")
        BY <3>1 DEF Register
      <3>3. <<i>> \in Seq(Id) /\ Len(<<i>>) >= 1 /\ "register" \in Op
        BY DEF Op
      <3>4. QED BY <1>0, <1>3, <2>0, <3>2, <3>3, NoPatchTypes
    <2>4. CASE ListOffset(p)
      <3>1. "list" \in Op
        BY DEF Op
      <3>2. QED BY <1>2, <2>0, <2>4, <3>1 DEF ListOffset
    <2>5. CASE BatchLoadByIds(p)
      <3>1. "batch" \in Op
        BY DEF Op
      <3>2. QED BY <1>2, <2>0, <2>5, <3>1 DEF BatchLoadByIds
    <2>6. CASE /\ kind = "graphql"
               /\ \E s \in Some :
                    \/ Create(p, s)
                    \/ Update(p, s, NoPatch)
                    \/ \E o \in {"remove", "softDelete", "restore"} :
                          (o = "restore" => Len(s) = 1) /\ Delete(p, o, s)
      <3>1. PICK s \in Some :
                    \/ Create(p, s)
                    \/ Update(p, s, NoPatch)
                    \/ \E o \in {"remove", "softDelete", "restore"} : Delete(p, o, s)
        BY <2>6
      <3>2. s \in Seq(Id) /\ Len(s) >= 1
        BY SomeTypes
      <3>3. PICK o \in {"create", "update", "remove", "softDelete", "restore"} :
                   Enter(p, o, s, "list", NoPatch, "write")
        BY <3>1 DEF Create, Update, Delete
      <3>4. o \in Op /\ o \notin {"register", "delete", "updateUser"}
        BY DEF Op
      <3>5. QED BY <1>0, <1>3, <2>0, <2>6, <3>2, <3>3, <3>4, NoPatchTypes
    <2>7. QED BY <1>4, <2>1, <2>2, <2>3, <2>4, <2>5, <2>6 DEF Arrive
  <1>5. CASE \E s \in Some : UploadMedia(p, s)
    <2>1. PICK s \in Some : UploadMedia(p, s)
      BY <1>5
    <2>2. s \in Seq(Id) /\ Len(s) >= 1 /\ "create" \in Op
      BY SomeTypes DEF Op
    <2>3. Enter(p, "create", s, "list", NoPatch, "upload") /\ Calm
      BY <2>1 DEF UploadMedia, media
    <2>4. QED BY <1>0, <1>3, <2>2, <2>3, NoPatchTypes
  <1>6. CASE \E i \in Id, o \in MediaOp : FindMedia(p, o, i)
    <2>1. PICK i \in Id, o \in MediaOp : FindMedia(p, o, i)
      BY <1>6
    <2>2. Enter(p, o, <<i>>, i, NoPatch, "get") /\ Calm
      BY <2>1 DEF FindMedia, FindById, media
    <2>3. <<i>> \in Seq(Id) /\ i \in Key /\ o \in Op /\ o \notin {"register", "updateUser"}
      BY DEF Key, Op, MediaOp
    <2>4. Arrives(p, o, <<i>>, i, NoPatch, "get")
      BY <2>2, <2>3 DEF Arrives, Sound
    <2>5. QED BY <2>3, <2>4, NoPatchTypes DEF Requested
  <1>7. CASE \E i \in Id, patch \in Changes : UpdateMedia(p, i, patch)
    <2>1. PICK i \in Id, patch \in Changes : UpdateMedia(p, i, patch)
      BY <1>7
    <2>2. /\ Enter(p, "update", <<i>>, "list", patch, "write") /\ UNCHANGED <<objects, asked>>
          /\ given' = given \cup ({Given(patch.key)} \ {i})
      BY <2>1 DEF UpdateMedia, Update
    <2>3. patch \in Patch
      BY DEF Changes, Patch, NoPatch
    <2>4. <<i>> \in Seq(Id) /\ Len(<<i>>) >= 1 /\ "update" \in Op /\ "list" \in Key
      BY DEF Op, Key
    <2>5. Given(patch.key) \in given' \/ <<i>> = <<Given(patch.key)>>
      BY <2>2
    <2>6. Arrives(p, "update", <<i>>, "list", patch, "write")
      BY <2>2, <2>4, <2>5 DEF Arrives, Sound
    <2>7. QED BY <2>3, <2>4, <2>6 DEF Requested
  <1>8. QED BY <1>4, <1>5, <1>6, <1>7

\* The kinds of steps.
Quiet(p) ==
    \/ Requested(p)
    \/ UNCHANGED media /\ (GetCached(p) \/ Refresh(p) \/ ReadBack(p) \/ Fail(p))
    \/ ProcessFile(p) \/ CreateRows(p) \/ Decide(p) \/ DeleteObject(p) \/ ServeFile(p)

\* The steps, sorted.
LEMMA NextSteps ==
  ASSUME Sound, MediaNext
  PROVE  \/ \E p \in Worker :
              Quiet(p) \/ (UNCHANGED media /\ (Load(p) \/ Put(p) \/ Write(p) \/ Drop(p)))
         \/ (Flush \/ Tick) /\ UNCHANGED media
  <1>1. CASE EntityNext /\ UNCHANGED media
    BY <1>1, ArriveSteps DEF EntityNext, Step, Quiet
  <1>2. CASE \E p \in Worker :
          \/ \E s \in Some : UploadMedia(p, s)
          \/ ProcessFile(p) \/ CreateRows(p)
          \/ \E i \in Id : \/ \E o \in MediaOp : FindMedia(p, o, i)
                           \/ \E patch \in Changes : UpdateMedia(p, i, patch)
          \/ Decide(p) \/ DeleteObject(p) \/ ServeFile(p)
    BY <1>2, ArriveSteps DEF Quiet
  <1>3. QED BY <1>1, <1>2 DEF MediaNext

\* A request begins with a frame of its own.
LEMMA RequestedTypes ==
  ASSUME Sound, Types, NEW p \in Worker, Requested(p)
  PROVE  /\ Types' /\ pc[p] = "idle"
         /\ UNCHANGED <<kind, rows, cache, completed, objects, asked>> /\ given \subseteq given'
         /\ \E c \in Frames, l \in {"get", "upload", "write"} :
              /\ call' = [call EXCEPT ![p] = c] /\ pc' = [pc EXCEPT ![p] = l]
              /\ c.wrote = [i \in Id |-> 0] /\ c.at = 1
              /\ l = "get" /\ c.key = "batch" => kind = "graphql"
              /\ c.op \in {"register", "updateUser"} => kind = "users"
              /\ l = "write" => \/ c.patch.key = Nil \/ Given(c.patch.key) \in given'
                                \/ c.ids = <<Given(c.patch.key)>>
              /\ l = "write" /\ c.op = "create" => kind = "graphql"
  <1>1. PICK o \in Op, s \in Seq(Id), k \in Key, patch \in Patch,
             l \in {"get", "upload", "write"} :
               Arrives(p, o, s, k, patch, l)
    BY DEF Requested
  <1> DEFINE c == Frame(o, s, k, patch)
  <1>2. /\ Types' /\ pc[p] = "idle" /\ UNCHANGED <<kind, rows, cache, completed>>
        /\ call' = [call EXCEPT ![p] = c] /\ pc' = [pc EXCEPT ![p] = l] /\ c \in Frames
    BY <1>1, EnterStep DEF Arrives
  <1>3. /\ c.wrote = [i \in Id |-> 0] /\ c.at = 1 /\ c.key = k /\ c.op = o
        /\ c.patch = patch /\ c.ids = s
    BY DEF Frame
  <1> HIDE DEF c
  <1>4. /\ UNCHANGED <<objects, asked>> /\ given \subseteq given'
        /\ l = "get" /\ c.key = "batch" => kind = "graphql"
        /\ c.op \in {"register", "updateUser"} => kind = "users"
        /\ l = "write" => \/ c.patch.key = Nil \/ Given(c.patch.key) \in given'
                          \/ c.ids = <<Given(c.patch.key)>>
        /\ l = "write" /\ c.op = "create" => kind = "graphql"
    BY <1>1, <1>3 DEF Arrives
  <1>5. QED BY <1>2, <1>3, <1>4

\* A file is answered.
LEMMA ServeTypes ==
  ASSUME Sound, Types, NEW p \in Worker, ServeFile(p)
  PROVE  Types' /\ Finish(p) /\ UNCHANGED <<kind, rows, cache, completed, objects, asked, given>>
  BY FinishStep DEF ServeFile, store, media

\* The steps that store nothing keep the types.
LEMMA QuietTypes == ASSUME Sound, Types, NEW p \in Worker, Quiet(p) PROVE Types'
  BY RequestedTypes, GetTypes, RefreshTypes, ReadBackTypes, FailTypes, FileTypes, RowsTypes,
     DecideTypes, ObjectTypes, ServeTypes DEF Quiet

\* Every step keeps the types.
LEMMA NextTypes == ASSUME Sound, Types, [MediaNext]_mediaVars PROVE Types'
  <1>1. ASSUME NEW p \in Worker, Quiet(p) \/ Load(p) \/ Put(p) \/ Write(p) \/ Drop(p)
        PROVE  Types'
    BY <1>1, QuietTypes, LoadTypesStep, PutTypes, WriteTypes, DropTypes
  <1>2. CASE Flush \/ Tick
    BY <1>2, FlushTypes, TickTypes
  <1>3. CASE UNCHANGED mediaVars
    BY <1>3 DEF mediaVars, vars, store, bounds, Types, CacheTypes, Fits, ReadFits
  <1>4. QED BY <1>1, <1>2, <1>3, NextSteps

\* The states a behaviour may begin in.
LEMMA InitTypes ==
  ASSUME Sound, Init
  PROVE  /\ Types /\ \A i \in Id : rows[i].ver = 0 /\ rows[i].key \in {i, Nil}
         /\ \A i \in Id : rows[i].life # "new" /\ kind = "media" => rows[i].key # Nil
         /\ cache = [k \in Key |-> Nil] /\ completed = [i \in Id |-> 0]
         /\ \A p \in Worker : pc[p] = "idle"
  <1>1. PICK live \in SUBSET Id :
          rows = [i \in Id |-> Blank(i, IF i \in live THEN "live" ELSE "new")]
    BY DEF Init
  <1>2. ASSUME NEW i \in Id, NEW l \in {"live", "new"}
        PROVE  /\ Blank(i, l) \in Row /\ Blank(i, l).ver = 0 /\ Blank(i, l).key \in {i, Nil}
               /\ Blank(i, l).life = l /\ (l = "live" /\ kind = "media" => Blank(i, l).key = i)
    BY DEF Blank, Row
  <1>3. rows \in [Id -> Row] /\ \A i \in Id : rows[i].ver = 0 /\ rows[i].key \in {i, Nil}
        /\ (rows[i].life # "new" /\ kind = "media" => rows[i].key = i)
    BY <1>1, <1>2
  <1>4. /\ cache = [k \in Key |-> Nil] /\ completed = [i \in Id |-> 0]
        /\ kind \in Kind /\ \A p \in Worker : pc[p] = "idle" /\ call[p] = Nil
    BY DEF Init
  <1>5. \A p \in Worker : Fits(p)
    BY <1>4 DEF Fits, Reading, Dropping
  <1>6. pc \in [Worker -> Label] /\ call \in [Worker -> Frames \cup {Nil}] /\ CacheTypes
        /\ completed \in [Id -> Nat]
    BY DEF Init, Label, CacheTypes
  <1>7. QED BY <1>3, <1>4, <1>5, <1>6 DEF Types, Sound, ConstantsOK

\* A step of worker p that leaves what is stored alone, and the values that
\* others have to store.
Calm(p) ==
    /\ UNCHANGED <<kind, rows, cache, completed>> /\ pc'[p] # "put"
    /\ \A q \in Worker \ {p} : pc'[q] = pc[q] /\ call'[q] = call[q]
    /\ \/ pc'[p] = "idle"
       \/ pc'[p] \notin Dropping /\ call'[p].wrote = [i \in Id |-> 0]
       \/ pc[p] = "read" /\ pc'[p] = "dropId" /\ call'[p] = call[p]
       \/ /\ pc[p] \notin Dropping \cup {"write", "idle"} /\ pc'[p] \notin Dropping
          /\ call'[p].wrote = call[p].wrote
    /\ pc'[p] \in Reading /\ call'[p].key = "batch" =>
          kind = "graphql" \/ (pc[p] \in Reading /\ call[p].key = "batch")

\* To end is calm.
LEMMA FinishCalm ==
  ASSUME Types, NEW p \in Worker, Finish(p), UNCHANGED <<kind, rows, cache, completed>>
  PROVE  Calm(p) /\ pc'[p] = "idle" /\ call'[p] = Nil
  BY DEF Finish, Goto, Types, Calm, Reading

\* And so are the steps that store nothing.
LEMMA QuietCalm ==
  ASSUME Sound, Types, NEW p \in Worker, Quiet(p)
  PROVE  Calm(p)
  <1>0. p \in DOMAIN pc /\ p \in DOMAIN call
        /\ pc = [q \in Worker |-> pc[q]] /\ call = [q \in Worker |-> call[q]]
    BY DEF Types
  <1>1. CASE Requested(p)
    BY <1>0, <1>1, RequestedTypes DEF Calm, Dropping, Reading
  <1>2. CASE GetCached(p)
    BY <1>0, <1>2, GetTypes DEF Calm, Dropping, Reading
  <1>3. CASE Refresh(p)
    BY <1>0, <1>3, RefreshTypes, FinishCalm DEF Calm, Dropping, Reading
  <1>4. CASE ReadBack(p)
    BY <1>0, <1>4, ReadBackTypes, FinishCalm DEF Calm, Dropping, Reading
  <1>5. CASE Fail(p) \/ ServeFile(p)
    BY <1>5, FailTypes, ServeTypes, FinishCalm
  <1>6. CASE ProcessFile(p)
    BY <1>0, <1>6, FileTypes DEF Calm, Dropping, Reading
  <1>7. CASE CreateRows(p)
    BY <1>0, <1>7, RowsTypes, FinishCalm DEF Calm, Dropping, Reading
  <1>8. CASE Decide(p)
    BY <1>0, <1>8, DecideTypes, FinishCalm DEF Calm, Dropping, Reading
  <1>9. CASE DeleteObject(p)
    BY <1>0, <1>9, ObjectTypes, FinishCalm DEF Calm, Dropping, Reading
  <1>10. QED BY <1>1, <1>2, <1>3, <1>4, <1>5, <1>6, <1>7, <1>8, <1>9 DEF Quiet

-----------------------------------------------------------------------------
(* Nothing is answered that is too old.                                    *)

\* The number of seconds of a value.
LEMMA ValueNumbers ==
  ASSUME Sound, Types
  PROVE  /\ Ttl \in Nat /\ Ttl > 0 /\ MaxDelay \in Nat /\ 0 # Nil
         /\ \A k \in Key : cache[k] # Nil =>
              /\ cache[k] \in Values /\ cache[k].left \in Nat
              /\ cache[k].old # Nil => cache[k].old \in Nat
         /\ \A q \in Worker : pc[q] = "put" =>
              /\ call[q] \in Frames /\ call[q].key \in Key
              /\ call[q].value \in Values /\ call[q].value.left \in Nat
              /\ call[q].value.old # Nil => call[q].value.old \in Nat
  <1>1. Ttl \in Nat /\ Ttl > 0 /\ MaxDelay \in Nat /\ 0 # Nil
    BY DEF Sound, ConstantsOK
  <1>2. \A k \in Key : cache[k] # Nil => cache[k] \in Values
    BY DEF Types, CacheTypes
  <1>3. \A q \in Worker : pc[q] = "put" =>
           call[q] \in Frames /\ call[q].key \in Key /\ call[q].value \in Values
    BY DEF Types, Fits, ReadFits, Reading, Frames
  <1>4. \A v \in Values : v.left \in Nat /\ (v.old # Nil => v.old \in Nat)
    BY DEF Values
  <1>5. QED BY <1>1, <1>2, <1>3, <1>4

\* A second makes a value older by one, and leaves it one less to go.
LEMMA TickFresher == ASSUME Sound, Types, Fresher, Tick PROVE Fresher'
  <1>1. ASSUME NEW k \in Key, cache'[k] # Nil
        PROVE  /\ cache'[k].left \in 1..Ttl
               /\ cache'[k].old # Nil => cache'[k].old + cache'[k].left <= Ttl + MaxDelay
    <2>1. cache[k] # Nil /\ ~(cache[k].left <= 1) /\ cache'[k] = Aged(cache[k])
      BY <1>1, TickTypes
    <2>2. cache[k] \in Values /\ cache[k].left > 0 /\ cache[k].left \in Nat
      BY <2>1, ValueNumbers
    <2>3. /\ Aged(cache[k]).left = cache[k].left - 1
          /\ cache[k].old = Nil => Aged(cache[k]).old = Nil
          /\ cache[k].old # Nil => cache[k].old \in Nat /\ Aged(cache[k]).old = cache[k].old + 1
      BY <2>2, AgedTypes
    <2>4. QED BY <2>1, <2>2, <2>3, ValueNumbers DEF Fresher
  <1>2. ASSUME NEW q \in Worker, pc'[q] = "put"
        PROVE  /\ call'[q].value.left <= MaxDelay
               /\ call'[q].value.old # Nil =>
                     call'[q].value.old + call'[q].value.left <= MaxDelay
    <2> DEFINE v == call[q].value
    <2>1. pc[q] = "put" /\ v.left > 0 /\ call'[q] = [call[q] EXCEPT !.value = Aged(v)]
      BY <1>2, TickTypes
    <2>2. v \in Values /\ v.left \in Nat /\ call[q] \in Frames
      BY <2>1, ValueNumbers
    <2>3. call'[q].value = Aged(v)
      BY <2>1, <2>2 DEF Frames
    <2>4. v.left <= MaxDelay /\ (v.old # Nil => v.old + v.left <= MaxDelay)
      BY <2>1 DEF Fresher
    <2> HIDE DEF v
    <2>5. /\ Aged(v).left = v.left - 1
          /\ v.old = Nil => Aged(v).old = Nil
          /\ v.old # Nil => v.old \in Nat /\ Aged(v).old = v.old + 1
      BY <2>1, <2>2, AgedTypes
    <2>6. QED BY <2>2, <2>3, <2>4, <2>5, ValueNumbers
  <1>3. QED BY <1>1, <1>2 DEF Fresher

\* A write makes values old that were not.
LEMMA WriteFresher ==
  ASSUME Sound, Types, Fresher, NEW p \in Worker, Write(p) PROVE Fresher'
  <1>1. ASSUME NEW k \in Key, cache'[k] # Nil
        PROVE  /\ cache'[k].left \in 1..Ttl
               /\ cache'[k].old # Nil => cache'[k].old + cache'[k].left <= Ttl + MaxDelay
    <2>1. cache[k] # Nil /\ cache'[k] = Outdated(cache[k], rows')
      BY <1>1, WriteTypes
    <2>2. cache[k] \in Values /\ cache[k].left \in Nat
      BY <2>1, ValueNumbers
    <2> DEFINE v == cache[k]
    <2> HIDE DEF v
    <2>3. Outdated(v, rows').left = v.left /\ Outdated(v, rows').old \in {v.old, 0}
      BY <2>2, ValueTypes DEF v
    <2>4. QED BY <2>1, <2>2, <2>3, ValueNumbers DEF Fresher, v
  <1>2. ASSUME NEW q \in Worker, pc'[q] = "put"
        PROVE  /\ call'[q].value.left <= MaxDelay
               /\ call'[q].value.old # Nil =>
                     call'[q].value.old + call'[q].value.left <= MaxDelay
    <2> DEFINE v == call[q].value
    <2>1. /\ q # p /\ pc[q] = "put"
          /\ call'[q] = [call[q] EXCEPT !.value = Outdated(v, rows')]
      BY <1>2, WriteTypes
    <2>2. v \in Values /\ v.left \in Nat /\ call[q] \in Frames
      BY <2>1, ValueNumbers
    <2>3. call'[q].value = Outdated(v, rows')
      BY <2>1, <2>2 DEF Frames
    <2>4. v.left <= MaxDelay /\ (v.old # Nil => v.old + v.left <= MaxDelay)
      BY <2>1 DEF Fresher
    <2> HIDE DEF v
    <2>5. Outdated(v, rows').left = v.left /\ Outdated(v, rows').old \in {v.old, 0}
      BY <2>2, ValueTypes
    <2>6. QED BY <2>2, <2>3, <2>4, <2>5, ValueNumbers
  <1>3. QED BY <1>1, <1>2 DEF Fresher

\* What is stored was read in time.
LEMMA PutFresher == ASSUME Sound, Types, Fresher, NEW p \in Worker, Put(p) PROVE Fresher'
  <1> DEFINE v == call[p].value
             k == call[p].key
  <1>1. /\ pc[p] = "put" /\ cache' = [cache EXCEPT ![k] = Stored(v)]
        /\ \A q \in Worker : pc'[q] = "put" => pc[q] = "put" /\ call'[q] = call[q]
    BY PutTypes DEF Types
  <1>2. /\ v \in Values /\ v.left \in Nat /\ k \in Key /\ (v.old # Nil => v.old \in Nat)
        /\ v.left <= MaxDelay /\ (v.old # Nil => v.old + v.left <= MaxDelay)
    BY <1>1, ValueNumbers DEF Fresher
  <1>3. Stored(v).left = Ttl /\ Stored(v).old = v.old
    BY <1>2, ValueTypes
  <1>4. cache'[k] = Stored(v) /\ \A j \in Key \ {k} : cache'[j] = cache[j]
    BY <1>1, <1>2 DEF Types, CacheTypes
  <1> HIDE DEF v, k
  <1>5. /\ cache'[k].left \in 1..Ttl
        /\ cache'[k].old # Nil => cache'[k].old + cache'[k].left <= Ttl + MaxDelay
    BY <1>2, <1>3, <1>4, ValueNumbers
  <1>6. QED BY <1>1, <1>4, <1>5 DEF Fresher

\* Every step keeps what is fresh enough.
LEMMA NextFresher ==
  ASSUME Sound, Types, Types', Fresher, [MediaNext]_mediaVars PROVE Fresher'
  <1>1. ASSUME NEW p \in Worker, Quiet(p) PROVE Fresher'
    BY <1>1, QuietCalm DEF Calm, Fresher
  <1>2. ASSUME NEW p \in Worker, Load(p) PROVE Fresher'
    <2>1. cache' = cache
      BY <1>2, LoadTypesStep
    <2>2. ASSUME NEW q \in Worker, pc'[q] = "put"
          PROVE  \/ pc[q] = "put" /\ call'[q] = call[q]
                 \/ call'[q].value.left = MaxDelay /\ call'[q].value.old = Nil
      BY <1>2, <2>2, LoadTypesStep, FinishCalm DEF Calm, Types
    <2>3. QED BY <2>1, <2>2, ValueNumbers DEF Fresher
  <1>3. ASSUME NEW p \in Worker, Drop(p) PROVE Fresher'
    <2>1. \A k \in Key : cache'[k] \in {Nil, cache[k]}
      BY <1>3, DropTypes
    <2>2. ASSUME NEW q \in Worker, pc'[q] = "put"
          PROVE  /\ pc[q] = "put" /\ call'[q].value.left = call[q].value.left
                 /\ call'[q].value.old = call[q].value.old
      <3>1. q # p /\ pc[q] = "put"
            /\ call'[q] \in {call[q], [call[q] EXCEPT !.value =
                                         [call[q].value EXCEPT !.overlap = TRUE]]}
        BY <1>3, <2>2, DropTypes DEF AfterDrop
      <3>2. call[q] \in Frames /\ call[q].value \in Values
        BY <3>1, ValueNumbers
      <3>3. /\ [call[q].value EXCEPT !.overlap = TRUE].left = call[q].value.left
            /\ [call[q].value EXCEPT !.overlap = TRUE].old = call[q].value.old
        BY <3>2, ValueTypes
      <3>4. QED BY <3>1, <3>2, <3>3 DEF Frames
    <2>3. QED BY <2>1, <2>2 DEF Fresher
  <1>4. CASE Flush
    BY <1>4 DEF Flush, Fresher
  <1>5. CASE UNCHANGED mediaVars
    BY <1>5 DEF mediaVars, vars, store, Fresher
  <1>6. QED BY <1>1, <1>2, <1>3, <1>4, <1>5, TickFresher, WriteFresher, PutFresher, NextSteps

\* Types for every step.
LEMMA MediaTypes == ASSUME Sound PROVE Spec => []Types
  <1>1. MediaInit => Types
    BY InitTypes DEF MediaInit
  <1>2. Types /\ [MediaNext]_mediaVars => Types'
    BY NextTypes
  <1>3. QED BY <1>1, <1>2, PTL DEF Spec

\* However requests overlap, whatever fails and whichever invalidation is missed,
\* no entry of the cache stopped being what the database holds longer ago than
\* its time to live and the delay between a query and its SETEX.
THEOREM EntityBoundedStaleness == ASSUME Sound PROVE Spec => []BoundedStaleness
  <1>1. MediaInit => Types /\ Fresher
    BY InitTypes DEF MediaInit, Fresher
  <1>2. Types /\ Fresher /\ [MediaNext]_mediaVars => (Types /\ Fresher)'
    BY NextTypes, NextFresher
  <1>3. Types /\ Fresher => BoundedStaleness
    BY ValueNumbers DEF Fresher, BoundedStaleness
  <1>4. QED BY <1>1, <1>2, <1>3, PTL DEF Spec

-----------------------------------------------------------------------------
(* Every answered write is seen.                                           *)

\* The key that a step drops (none, or those of X): a value that was right
\* stays right, one of a dropped key when it is marked.
LEMMA SeenStays ==
  ASSUME NEW X,
         \A p \in Worker, k \in Key : Gone(p, k)' =>
            \/ Gone(p, k) /\ call'[p].wrote = call[p].wrote
            \/ k \in X \/ (k = "batch" /\ kind # "graphql"),
         \A k \in Key : \A i \in Covers(k) :
            \/ completed'[i] = completed[i]
            \/ \E p \in Worker : Gone(p, k) /\ completed'[i] = call[p].wrote[i]
            \/ k \in X \/ (k = "batch" /\ kind # "graphql"),
         NEW k \in Key, NEW v, NEW w, Seen(k, v), w.vals = v.vals, v.overlap => w.overlap,
         k \in X => w.overlap, k = "batch" => kind = "graphql"
  PROVE  /\ \A i \in Covers(k) : w.vals[i].ver < completed'[i] => w.overlap
         /\ \A i \in Covers(k) : \A p \in Worker :
              Gone(p, k)' /\ w.vals[i].ver < call'[p].wrote[i] => w.overlap
  <1>1. CASE k \in X
    BY <1>1
  <1>2. CASE k \notin X
    <2>1. ASSUME NEW i \in Covers(k), w.vals[i].ver < completed'[i] PROVE w.overlap
      BY <1>2, <2>1 DEF Seen
    <2>2. ASSUME NEW i \in Covers(k), NEW p \in Worker, Gone(p, k)',
                 w.vals[i].ver < call'[p].wrote[i]
          PROVE  w.overlap
      <3>1. Gone(p, k) /\ call'[p].wrote = call[p].wrote
        BY <1>2, <2>2
      <3>2. QED BY <2>2, <3>1 DEF Seen
    <2>3. QED BY <2>1, <2>2
  <1>3. QED BY <1>1, <1>2

\* The values that are stored or wait to be, of a service that has batches
\* or not.
LEMMA BatchOnly ==
  ASSUME Types, SeenAll
  PROVE  /\ \A k \in Key : cache[k] # Nil => (k = "batch" => kind = "graphql")
         /\ \A q \in Worker : pc[q] = "put" => (call[q].key = "batch" => kind = "graphql")
  BY DEF SeenAll, NoBatch, Reading

\* A worker that another's step leaves alone.
LEMMA GoneSame ==
  ASSUME NEW q, pc'[q] = pc[q], call'[q] = call[q], NEW k
  PROVE  Gone(q, k)' <=> Gone(q, k)
  BY DEF Gone

\* What another wrote stays a version of its rows.
LEMMA WroteSame ==
  ASSUME Types, NEW q \in Worker, WroteOwn(q), pc'[q] = pc[q], call'[q] = call[q],
         \A i \in Id : rows[i].ver <= rows'[i].ver /\ rows'[i].ver \in Nat
  PROVE  WroteOwn(q)'
  <1>1. pc[q] # "idle" => call[q] \in Frames
    BY DEF Types, Fits
  <1>2. pc[q] # "idle" => call[q].wrote \in [Id -> Nat]
    BY <1>1 DEF Frames
  <1>3. \A i \in Id : rows[i].ver \in Nat
    BY DEF Types, Row
  <1>4. QED BY <1>2, <1>3 DEF WroteOwn

\* A step that writes, drops and answers nothing.
LEMMA CalmSeen ==
  ASSUME Sound, Types, Types', SeenAll, NEW p \in Worker, Calm(p) PROVE SeenAll'
  <1>1. \A q \in Worker, k \in Key : Gone(q, k)' => Gone(q, k) /\ call'[q].wrote = call[q].wrote
    <2>1. ASSUME NEW q \in Worker \ {p}, NEW k \in Key, Gone(q, k)'
          PROVE  Gone(q, k) /\ call'[q].wrote = call[q].wrote
      BY <2>1, GoneSame DEF Calm
    <2>2. ASSUME NEW k \in Key, Gone(p, k)'
          PROVE  Gone(p, k) /\ call'[p].wrote = call[p].wrote
      <3>1. pc[p] = "read" /\ pc'[p] = "dropId" /\ call'[p] = call[p]
        BY <2>2 DEF Calm, Gone, Dropping
      <3>2. QED BY <2>2, <3>1 DEF Gone, Dropping
    <2>3. QED BY <2>1, <2>2
  <1>2. UNCHANGED <<kind, rows, cache, completed>>
        /\ \A q \in Worker : pc'[q] = "put" => pc[q] = "put" /\ call'[q] = call[q]
    BY DEF Calm
  <1>3. ASSUME NEW k \in Key, NEW v, Seen(k, v), k = "batch" => kind = "graphql"
        PROVE  /\ \A i \in Covers(k) : v.vals[i].ver < completed'[i] => v.overlap
               /\ \A i \in Covers(k) : \A q \in Worker :
                    Gone(q, k)' /\ v.vals[i].ver < call'[q].wrote[i] => v.overlap
    BY <1>1, <1>2, <1>3 DEF Seen
  <1>4. \A k \in Key : cache'[k] # Nil => Seen(k, cache[k])'
    <2>1. ASSUME NEW k \in Key, cache'[k] # Nil PROVE Seen(k, cache[k])'
      <3>1. Seen(k, cache[k]) /\ cache'[k] = cache[k] /\ (k = "batch" => kind = "graphql")
        BY <1>2, <2>1, BatchOnly DEF SeenAll
      <3>2. QED BY <1>3, <3>1 DEF Seen, Covers
    <2>2. QED BY <2>1
  <1>5. \A q \in Worker : pc'[q] = "put" => Seen(call[q].key, call[q].value)'
    <2>1. ASSUME NEW q \in Worker, pc'[q] = "put" PROVE Seen(call[q].key, call[q].value)'
      <3>1. pc[q] = "put" /\ call'[q] = call[q] /\ Seen(call[q].key, call[q].value)
            /\ call[q].key \in Key /\ (call[q].key = "batch" => kind = "graphql")
        BY <1>2, <2>1, BatchOnly, ValueNumbers DEF SeenAll
      <3>2. QED BY <1>3, <3>1 DEF Seen, Covers
    <2>2. QED BY <2>1
  <1>6. \A q \in Worker : WroteOwn(q)'
    <2>1. \A i \in Id : rows[i].ver \in Nat
      BY DEF Types, Row
    <2>2. ASSUME NEW q \in Worker \ {p} PROVE WroteOwn(q)'
      BY <1>2, <2>1, WroteSame DEF Calm, SeenAll
    <2>3. WroteOwn(p)
      BY DEF SeenAll
    <2>4. WroteOwn(p)'
      <3>1. CASE pc'[p] = "idle"
        BY <3>1 DEF WroteOwn
      <3>2. CASE call'[p].wrote = [i \in Id |-> 0]
        BY <1>2, <2>1, <3>2 DEF WroteOwn
      <3>3. CASE pc[p] = "read" /\ pc'[p] = "dropId" /\ call'[p] = call[p]
        BY <1>2, <2>3, <3>3 DEF WroteOwn, Dropping
      <3>4. CASE /\ pc[p] \notin Dropping \cup {"write", "idle"} /\ pc'[p] \notin Dropping
                 /\ call'[p].wrote = call[p].wrote
        <4>1. \A i \in Id : call[p].wrote[i] = 0
          BY <2>3, <3>4 DEF WroteOwn
        <4>2. QED BY <1>2, <2>1, <3>4, <4>1 DEF WroteOwn
      <3>5. QED BY <3>1, <3>2, <3>3, <3>4 DEF Calm
    <2>5. QED BY <2>2, <2>4
  <1>7. NoBatch'
    BY <1>2 DEF Calm, SeenAll, NoBatch
  <1>8. QED BY <1>2, <1>4, <1>5, <1>6, <1>7 DEF SeenAll

\* A value that was just read is what every write left.
LEMMA LoadSeen ==
  ASSUME Sound, Types, Types', SeenAll, NEW p \in Worker, Load(p) PROVE SeenAll'
  <1>1. UNCHANGED <<kind, rows, cache, completed>>
    BY LoadTypesStep
  <1>2. CASE Finish(p)
    BY <1>1, <1>2, FinishCalm, CalmSeen
  <1>3. CASE ~Finish(p)
    <2>1. PICK c \in Frames :
                  /\ pc[p] = "load" /\ pc' = [pc EXCEPT ![p] = "put"]
                  /\ call' = [call EXCEPT ![p] = c] /\ c.key = call[p].key
                  /\ c.wrote = call[p].wrote
                  /\ \A i \in Covers(c.key) : c.value.vals[i].ver = rows[i].ver
      BY <1>3, LoadTypesStep
    <2>2. /\ pc'[p] = "put" /\ call'[p] = c
          /\ \A q \in Worker \ {p} : pc'[q] = pc[q] /\ call'[q] = call[q]
      BY <2>1 DEF Types
    <2>3. \A q \in Worker, k \in Key :
             Gone(q, k)' => Gone(q, k) /\ call'[q].wrote = call[q].wrote
      <3>1. \A k \in Key : ~Gone(p, k)'
        BY <2>2 DEF Gone, Dropping
      <3>2. ASSUME NEW q \in Worker \ {p}, NEW k \in Key, Gone(q, k)'
            PROVE  Gone(q, k) /\ call'[q].wrote = call[q].wrote
        BY <2>2, <3>2, GoneSame
      <3>3. QED BY <3>1, <3>2
    <2>4. ASSUME NEW k \in Key, NEW v, Seen(k, v)
          PROVE  /\ \A i \in Covers(k) : v.vals[i].ver < completed'[i] => v.overlap
                 /\ \A i \in Covers(k) : \A q \in Worker :
                      Gone(q, k)' /\ v.vals[i].ver < call'[q].wrote[i] => v.overlap
      BY <1>1, <2>3, <2>4 DEF Seen
    <2>5. \A k \in Key : cache'[k] # Nil => Seen(k, cache[k])'
      <3>1. ASSUME NEW k \in Key, cache'[k] # Nil PROVE Seen(k, cache[k])'
        <4>1. Seen(k, cache[k]) /\ cache'[k] = cache[k]
          BY <1>1, <3>1 DEF SeenAll
        <4>2. QED BY <2>4, <4>1 DEF Seen, Covers
      <3>2. QED BY <3>1
    <2>6. ASSUME NEW q \in Worker \ {p}, pc'[q] = "put" PROVE Seen(call[q].key, call[q].value)'
      <3>1. pc[q] = "put" /\ call'[q] = call[q] /\ Seen(call[q].key, call[q].value)
            /\ call[q].key \in Key
        BY <2>2, <2>6, ValueNumbers DEF SeenAll
      <3>2. QED BY <2>4, <3>1 DEF Seen, Covers
    <2>7. c.key \in Key /\ Covers(c.key) \subseteq Id
      BY DEF Frames, Covers
    <2>8. \A i \in Id :
             rows[i].ver \in Nat /\ completed[i] \in Nat /\ completed[i] <= rows[i].ver
      BY DEF Types, Row, SeenAll
    <2>9. ASSUME NEW i \in Id, NEW q \in Worker, NEW k \in Key, Gone(q, k)'
          PROVE  call'[q].wrote[i] \in Nat /\ call'[q].wrote[i] <= rows[i].ver
      <3>1. q # p /\ call'[q] = call[q] /\ pc[q] \in Dropping
        BY <2>2, <2>9 DEF Gone, Dropping
      <3>2. call[q] \in Frames
        BY <3>1 DEF Types, Fits, Dropping
      <3>3. QED BY <3>1, <3>2 DEF Frames, SeenAll, WroteOwn, Dropping
    <2>10. Seen(call[p].key, call[p].value)'
      <3>1. \A i \in Covers(c.key) : ~(c.value.vals[i].ver < completed'[i])
        BY <1>1, <2>1, <2>7, <2>8
      <3>2. \A i \in Covers(c.key), q \in Worker :
               Gone(q, c.key)' => ~(c.value.vals[i].ver < call'[q].wrote[i])
        BY <2>1, <2>7, <2>8, <2>9
      <3>3. QED BY <2>2, <3>1, <3>2 DEF Seen, Covers
    <2>11. \A q \in Worker : WroteOwn(q)'
      <3>1. ASSUME NEW q \in Worker \ {p} PROVE WroteOwn(q)'
        BY <1>1, <2>2, <2>8, WroteSame DEF SeenAll
      <3>2. WroteOwn(p)'
        BY <1>1, <2>1, <2>2 DEF SeenAll, WroteOwn, Dropping
      <3>3. QED BY <3>1, <3>2
    <2>12. NoBatch'
      BY <1>1, <2>1, <2>2 DEF SeenAll, NoBatch, Reading
    <2>13. QED BY <1>1, <2>2, <2>5, <2>6, <2>8, <2>10, <2>11, <2>12 DEF SeenAll
  <1>4. QED BY <1>2, <1>3

\* What was read is stored as it was read.
LEMMA PutSeen ==
  ASSUME Sound, Types, Types', SeenAll, NEW p \in Worker, Put(p) PROVE SeenAll'
  <1> DEFINE v == call[p].value
             j == call[p].key
  <1>1. /\ pc[p] = "put" /\ UNCHANGED <<kind, rows, completed>>
        /\ cache' = [cache EXCEPT ![j] = Stored(v)]
        /\ \A q \in Worker \ {p} : pc'[q] = pc[q] /\ call'[q] = call[q]
        /\ pc'[p] \notin Dropping \cup Reading
        /\ pc'[p] # "idle" => call'[p].wrote = call[p].wrote
    BY PutTypes DEF Types, Dropping, Reading
  <1>2. /\ v \in Values /\ j \in Key /\ Seen(j, v) /\ (j = "batch" => kind = "graphql")
    BY <1>1, ValueNumbers, BatchOnly DEF SeenAll
  <1>3. Stored(v).vals = v.vals /\ Stored(v).overlap = v.overlap
    BY <1>2, ValueTypes
  <1>4. cache'[j] = Stored(v) /\ \A k \in Key \ {j} : cache'[k] = cache[k]
    BY <1>1, <1>2 DEF Types, CacheTypes
  <1>5. \A q \in Worker, k \in Key : Gone(q, k)' => Gone(q, k) /\ call'[q].wrote = call[q].wrote
    <2>1. \A k \in Key : ~Gone(p, k)'
      BY <1>1 DEF Gone
    <2>2. ASSUME NEW q \in Worker \ {p}, NEW k \in Key, Gone(q, k)'
          PROVE  Gone(q, k) /\ call'[q].wrote = call[q].wrote
      BY <1>1, <2>2, GoneSame
    <2>3. QED BY <2>1, <2>2
  <1> HIDE DEF v, j
  <1>6. ASSUME NEW k \in Key, NEW u, Seen(k, u), NEW w, w.vals = u.vals, w.overlap = u.overlap
        PROVE  /\ \A i \in Covers(k) : w.vals[i].ver < completed'[i] => w.overlap
               /\ \A i \in Covers(k) : \A q \in Worker :
                    Gone(q, k)' /\ w.vals[i].ver < call'[q].wrote[i] => w.overlap
    BY <1>1, <1>5, <1>6 DEF Seen
  <1>7. \A k \in Key : cache'[k] # Nil => Seen(k, cache[k])'
    <2>1. ASSUME NEW k \in Key, cache'[k] # Nil PROVE Seen(k, cache[k])'
      <3>1. CASE k # j
        <4>1. Seen(k, cache[k]) /\ cache'[k] = cache[k]
          BY <1>4, <2>1, <3>1 DEF SeenAll
        <4>2. QED BY <1>6, <4>1 DEF Seen, Covers
      <3>2. CASE k = j
        <4>1. PICK w : w = Stored(v)
          OBVIOUS
        <4>2. cache'[k] = w /\ Seen(k, v) /\ w.vals = v.vals /\ w.overlap = v.overlap
          BY <1>2, <1>3, <1>4, <3>2, <4>1
        <4>3. /\ \A i \in Covers(k) : w.vals[i].ver < completed'[i] => w.overlap
              /\ \A i \in Covers(k) : \A q \in Worker :
                    Gone(q, k)' /\ w.vals[i].ver < call'[q].wrote[i] => w.overlap
          BY <1>6, <4>2
        <4>4. QED BY <4>2, <4>3 DEF Seen, Covers
      <3>3. QED BY <3>1, <3>2
    <2>2. QED BY <2>1
  <1>8. \A q \in Worker : pc'[q] = "put" => Seen(call[q].key, call[q].value)'
    <2>1. ASSUME NEW q \in Worker, pc'[q] = "put" PROVE Seen(call[q].key, call[q].value)'
      <3>1. pc[q] = "put" /\ call'[q] = call[q] /\ Seen(call[q].key, call[q].value)
            /\ call[q].key \in Key
        BY <1>1, <2>1, ValueNumbers DEF SeenAll, Reading
      <3>2. QED BY <1>6, <3>1 DEF Seen, Covers
    <2>2. QED BY <2>1
  <1>9. \A q \in Worker : WroteOwn(q)'
    <2>1. \A i \in Id : rows[i].ver \in Nat /\ rows' = rows
      BY <1>1 DEF Types, Row
    <2>2. ASSUME NEW q \in Worker \ {p} PROVE WroteOwn(q)'
      BY <1>1, <2>1, WroteSame DEF SeenAll
    <2>3. \A i \in Id : call[p].wrote[i] = 0
      BY <1>1 DEF SeenAll, WroteOwn, Dropping
    <2>4. WroteOwn(p)'
      BY <1>1, <2>1, <2>3 DEF WroteOwn
    <2>5. QED BY <2>2, <2>4
  <1>10. NoBatch'
    <2>1. kind # "graphql" => j # "batch"
      BY <1>2
    <2>2. "batch" \in Key
      BY DEF Key
    <2>3. QED BY <1>1, <1>4, <2>1, <2>2 DEF SeenAll, NoBatch
  <1>11. QED BY <1>1, <1>7, <1>8, <1>9, <1>10 DEF SeenAll

\* A statement makes new versions, which nobody has been told of yet.
LEMMA WriteSeen ==
  ASSUME Sound, Types, Types', SeenAll, NEW p \in Worker, Write(p) PROVE SeenAll'
  <1>1. /\ pc[p] = "write" /\ UNCHANGED <<kind, completed>>
        /\ \A i \in Id : /\ rows[i].ver <= rows'[i].ver
                         /\ rows'[i].ver \in Nat /\ rows[i].ver \in Nat
        /\ \A i \in Id : rows'[i] # rows[i] => i \in Touched(p)
    <2>1. \A i \in Id : rows[i].ver \in Nat /\ rows'[i].ver \in Nat
      BY DEF Types, Row
    <2>2. QED BY <2>1, WriteTypes
  <1>2. \A k \in Key : cache'[k] = IF cache[k] = Nil THEN Nil ELSE Outdated(cache[k], rows')
    BY WriteTypes
  <1>3. \A q \in Worker \ {p} :
           /\ pc'[q] = pc[q]
           /\ call'[q] = IF pc[q] = "put"
                         THEN [call[q] EXCEPT !.value = Outdated(call[q].value, rows')]
                         ELSE call[q]
    BY WriteTypes
  <1>4. \/ pc'[p] = "idle" /\ call'[p] = Nil
        \/ /\ pc'[p] \in {"write", "read", "dropId"} /\ call'[p] \in Frames
           /\ pc'[p] # "write" => call'[p].at = 1
           /\ call'[p].ids = call[p].ids
           /\ \A i \in Id :
                call'[p].wrote[i] = IF rows'[i] = rows[i] THEN call[p].wrote[i]
                                    ELSE rows'[i].ver
    BY WriteTypes
  <1>5. \A q \in Worker, k \in Key : Gone(q, k)' => Gone(q, k) /\ call'[q].wrote = call[q].wrote
    <2>1. ASSUME NEW k \in Key, Gone(p, k)' PROVE FALSE
      <3>1. /\ pc'[p] \in {"read", "dropId"} /\ call'[p].at = 1
        BY <1>4, <2>1 DEF Gone, Dropping
      <3>2. \E n \in 1..Len(call'[p].ids) : n < call'[p].at
        BY <2>1, <3>1 DEF Gone
      <3>3. QED BY <3>1, <3>2
    <2>2. ASSUME NEW q \in Worker \ {p}, NEW k \in Key, Gone(q, k)'
          PROVE  Gone(q, k) /\ call'[q].wrote = call[q].wrote
      <3>1. pc'[q] = pc[q] /\ call'[q] = call[q]
        BY <1>3, <2>2 DEF Gone, Dropping
      <3>2. QED BY <2>2, <3>1, GoneSame
    <2>3. QED BY <2>1, <2>2
  <1>6. ASSUME NEW k \in Key, NEW u, Seen(k, u), NEW w, w.vals = u.vals, w.overlap = u.overlap
        PROVE  /\ \A i \in Covers(k) : w.vals[i].ver < completed'[i] => w.overlap
               /\ \A i \in Covers(k) : \A q \in Worker :
                    Gone(q, k)' /\ w.vals[i].ver < call'[q].wrote[i] => w.overlap
    BY <1>1, <1>5, <1>6 DEF Seen
  <1>7. \A k \in Key : cache'[k] # Nil => Seen(k, cache[k])'
    <2>1. ASSUME NEW k \in Key, cache'[k] # Nil PROVE Seen(k, cache[k])'
      <3> DEFINE v == cache[k]
                 w == Outdated(v, rows')
      <3>1. v # Nil /\ cache'[k] = w /\ v \in Values /\ Seen(k, v)
        BY <1>2, <2>1, ValueNumbers DEF SeenAll
      <3> HIDE DEF v
      <3>2. w.vals = v.vals /\ w.overlap = v.overlap
        BY <3>1, ValueTypes
      <3> HIDE DEF w
      <3>3. /\ \A i \in Covers(k) : w.vals[i].ver < completed'[i] => w.overlap
            /\ \A i \in Covers(k) : \A q \in Worker :
                  Gone(q, k)' /\ w.vals[i].ver < call'[q].wrote[i] => w.overlap
        BY <1>6, <3>1, <3>2
      <3>4. QED BY <3>1, <3>3 DEF Seen, Covers
    <2>2. QED BY <2>1
  <1>8. \A q \in Worker : pc'[q] = "put" => Seen(call[q].key, call[q].value)'
    <2>1. ASSUME NEW q \in Worker, pc'[q] = "put" PROVE Seen(call[q].key, call[q].value)'
      <3> DEFINE v == call[q].value
                 w == Outdated(v, rows')
      <3>0. PICK k : k = call[q].key
        OBVIOUS
      <3>1. q # p
        BY <1>4, <2>1
      <3>2. pc[q] = "put" /\ call'[q] = [call[q] EXCEPT !.value = w]
        BY <1>3, <2>1, <3>1
      <3>3. /\ call[q] \in Frames /\ v \in Values /\ k \in Key /\ Seen(k, v)
        BY <3>0, <3>2, ValueNumbers DEF SeenAll
      <3>4. call'[q].value = w /\ call'[q].key = k
        BY <3>0, <3>2, <3>3 DEF Frames
      <3> HIDE DEF v
      <3>5. w.vals = v.vals /\ w.overlap = v.overlap
        BY <3>3, ValueTypes
      <3> HIDE DEF w
      <3>6. /\ \A i \in Covers(k) : w.vals[i].ver < completed'[i] => w.overlap
            /\ \A i \in Covers(k) : \A r \in Worker :
                  Gone(r, k)' /\ w.vals[i].ver < call'[r].wrote[i] => w.overlap
        BY <1>6, <3>3, <3>5
      <3>7. QED BY <3>4, <3>6 DEF Seen, Covers
    <2>2. QED BY <2>1
  <1>9. \A q \in Worker : WroteOwn(q)'
    <2>1. ASSUME NEW q \in Worker \ {p} PROVE WroteOwn(q)'
      <3>1. CASE pc[q] = "put"
        <4>1. pc'[q] = "put" /\ call'[q].wrote = call[q].wrote
          BY <1>3, <3>1, ValueNumbers DEF Frames
        <4>2. \A i \in Id : call[q].wrote[i] = 0
          BY <3>1 DEF SeenAll, WroteOwn, Dropping
        <4>3. QED BY <1>1, <4>1, <4>2 DEF WroteOwn
      <3>2. CASE pc[q] # "put"
        BY <1>1, <1>3, <3>2, WroteSame DEF SeenAll
      <3>3. QED BY <3>1, <3>2
    <2>2. ASSUME pc'[p] # "idle" PROVE WroteOwn(p)'
      <3>1. /\ pc'[p] \in {"write", "read", "dropId"} /\ call'[p].ids = call[p].ids
            /\ \A i \in Id :
                 call'[p].wrote[i] = IF rows'[i] = rows[i] THEN call[p].wrote[i]
                                     ELSE rows'[i].ver
        BY <1>4, <2>2
      <3>2. \A i \in Touched(p) : \E n \in 1..Len(call[p].ids) : call[p].ids[n] = i
        BY <1>1, TouchedTypes
      <3>3. WroteOwn(p)
        BY DEF SeenAll
      <3>4. ASSUME NEW i \in Id
            PROVE  /\ call'[p].wrote[i] <= rows'[i].ver
                   /\ call'[p].wrote[i] # 0 =>
                        \E n \in 1..Len(call[p].ids) : call[p].ids[n] = i
        <4>1. CASE rows'[i] = rows[i]
          BY <1>1, <3>1, <3>3, <4>1 DEF WroteOwn
        <4>2. CASE rows'[i] # rows[i]
          BY <1>1, <3>1, <3>2, <4>2
        <4>3. QED BY <4>1, <4>2
      <3>5. ASSUME NEW i \in Id
            PROVE  /\ call'[p].wrote[i] <= rows'[i].ver
                   /\ call'[p].wrote[i] # 0 =>
                        /\ pc'[p] \in {"write"} \cup Dropping
                        /\ \E n \in 1..Len(call'[p].ids) : call'[p].ids[n] = i
        BY <3>1, <3>4 DEF Dropping
      <3>6. QED BY <3>5 DEF WroteOwn
    <2>3. WroteOwn(p)'
      BY <2>2 DEF WroteOwn
    <2>4. QED BY <2>1, <2>3
  <1>10. NoBatch'
    <2>1. "batch" \in Key
      BY DEF Key
    <2>2. ASSUME NEW q \in Worker, pc'[q] \in Reading
          PROVE  pc[q] \in Reading /\ call'[q].key = call[q].key
      <3>1. q # p
        BY <1>4, <2>2 DEF Reading
      <3>2. pc[q] \in Reading
        BY <1>3, <2>2, <3>1
      <3>3. QED BY <1>3, <3>1, <3>2, ValueNumbers DEF Frames
    <2>3. QED BY <1>1, <1>2, <2>1, <2>2 DEF SeenAll, NoBatch
  <1>11. \A i \in Id : completed[i] <= rows[i].ver /\ completed[i] \in Nat
    BY DEF SeenAll, Types
  <1>12. \A i \in Id : completed'[i] <= rows'[i].ver
    BY <1>1, <1>11
  <1>13. QED BY <1>7, <1>8, <1>9, <1>10, <1>12 DEF SeenAll

\* The key that a deletion drops, and what its request has dropped by then.
LEMMA DropGone ==
  ASSUME Sound, Types, NEW p \in Worker, Drop(p), NEW X, X = Dropped(pc[p], This(p))
  PROVE  /\ \A q \in Worker, k \in Key : Gone(q, k)' =>
              \/ Gone(q, k) /\ call'[q].wrote = call[q].wrote
              \/ k \in X \/ (k = "batch" /\ kind # "graphql")
         /\ AfterDrop(pc[p]) = Nil /\ call[p].at = Len(call[p].ids) =>
              /\ \A n \in 1..Len(call[p].ids) : Gone(p, call[p].ids[n])
              /\ Gone(p, "list") \/ "list" \in X
              /\ "batch" \in X \/ kind # "graphql"
  <1>1. /\ pc[p] \in {"dropId", "dropList", "dropBatch"}
        /\ call[p].at \in 1..Len(call[p].ids) /\ call[p].ids \in Seq(Id) /\ call[p].at \in Nat
        /\ call[p] \in Frames
    BY DropTypes, TouchedTypes DEF Dropping
  <1>2. /\ pc[p] = "dropId" => X = {call[p].ids[call[p].at]} /\ AfterDrop(pc[p]) = "dropList"
        /\ pc[p] = "dropList" => /\ X = {"list"}
                                 /\ AfterDrop(pc[p]) =
                                         IF kind = "graphql" THEN "dropBatch" ELSE Nil
        /\ pc[p] = "dropBatch" => X = {"batch"} /\ AfterDrop(pc[p]) = Nil
    BY DEF Dropped, AfterDrop, This
  <1>3. Len(call[p].ids) \in Nat /\ Nil # "dropList" /\ Nil # "dropBatch"
    BY <1>1 DEF Sound
  <1>4. ASSUME NEW q \in Worker \ {p}, NEW k \in Key, Gone(q, k)'
        PROVE  Gone(q, k) /\ call'[q].wrote = call[q].wrote
    <2>1. pc'[q] = pc[q] /\ pc[q] # "put"
      BY <1>4, DropTypes DEF Gone, Dropping
    <2>2. call'[q] = call[q]
      BY <2>1, DropTypes
    <2>3. QED BY <1>4, <2>1, <2>2, GoneSame
  <1>5. ASSUME NEW k \in Key, Gone(p, k)'
        PROVE  \/ Gone(p, k) /\ call'[p].wrote = call[p].wrote
               \/ k \in X \/ (k = "batch" /\ kind # "graphql")
    <2>1. CASE pc'[p] = AfterDrop(pc[p]) /\ AfterDrop(pc[p]) # Nil /\ call'[p] = call[p]
      <3>1. CASE pc[p] = "dropId"
        BY <1>1, <1>2, <1>5, <2>1, <3>1 DEF Gone, Dropping
      <3>2. CASE pc[p] = "dropList"
        BY <1>1, <1>2, <1>5, <2>1, <3>2 DEF Gone, Dropping
      <3>3. QED BY <1>1, <1>2, <2>1, <3>1, <3>2
    <2>2. CASE /\ AfterDrop(pc[p]) = Nil /\ call[p].at < Len(call[p].ids)
               /\ pc'[p] \in {"read", "dropId"}
               /\ call'[p].at = call[p].at + 1 /\ call'[p].ids = call[p].ids
               /\ call'[p].wrote = call[p].wrote
      <3>1. pc[p] = "dropBatch" \/ (pc[p] = "dropList" /\ kind # "graphql")
        BY <1>1, <1>2, <1>3, <2>2
      <3>2. CASE \E n \in 1..Len(call'[p].ids) : k = call'[p].ids[n] /\ n < call'[p].at
        <4>1. PICK n \in 1..Len(call[p].ids) : k = call[p].ids[n] /\ n < call[p].at + 1
          BY <2>2, <3>2
        <4>2. n < call[p].at \/ n = call[p].at
          BY <1>1, <4>1
        <4>3. Gone(p, k)
          BY <3>1, <4>1, <4>2 DEF Gone, Dropping
        <4>4. QED BY <2>2, <4>3
      <3>3. CASE k \in {"list", "batch"}
        BY <1>2, <2>2, <3>1, <3>3 DEF Gone, Dropping
      <3>4. QED BY <1>5, <2>2, <3>2, <3>3 DEF Gone
    <2>3. CASE pc'[p] = "idle"
      BY <1>5, <2>3 DEF Gone, Dropping
    <2>4. QED BY <2>1, <2>2, <2>3, DropTypes
  <1>6. ASSUME AfterDrop(pc[p]) = Nil, call[p].at = Len(call[p].ids)
        PROVE  /\ \A n \in 1..Len(call[p].ids) : Gone(p, call[p].ids[n])
               /\ Gone(p, "list") \/ "list" \in X
               /\ "batch" \in X \/ kind # "graphql"
    <2>1. pc[p] = "dropBatch" \/ (pc[p] = "dropList" /\ kind # "graphql")
      BY <1>1, <1>2, <1>3, <1>6
    <2>2. \A n \in 1..Len(call[p].ids) : n < call[p].at \/ n = call[p].at
      BY <1>1, <1>3, <1>6
    <2>3. \A n \in 1..Len(call[p].ids) : Gone(p, call[p].ids[n])
      BY <2>1, <2>2 DEF Gone, Dropping
    <2>4. QED BY <1>2, <2>1, <2>3 DEF Gone, Dropping
  <1>7. QED BY <1>4, <1>5, <1>6

\* A deletion leaves no copy of its key but those of which it is known.
LEMMA DropSeen ==
  ASSUME Sound, Types, Types', SeenAll, NEW p \in Worker, Drop(p) PROVE SeenAll'
  <1>0. PICK X : X = Dropped(pc[p], This(p))
    OBVIOUS
  <1>1. /\ pc[p] \in {"dropId", "dropList", "dropBatch"} /\ UNCHANGED <<kind, rows>>
        /\ \A k \in Key : cache'[k] = IF k \in X THEN Nil ELSE cache[k]
        /\ \A q \in Worker \ {p} :
              /\ pc'[q] = pc[q]
              /\ call'[q] = IF pc[q] = "put" /\ call[q].key \in X
                            THEN [call[q] EXCEPT !.value =
                                    [call[q].value EXCEPT !.overlap = TRUE]]
                            ELSE call[q]
        /\ pc'[p] \notin Reading
    BY <1>0, DropTypes DEF AfterDrop, Reading
  <1>2. \/ /\ pc'[p] = AfterDrop(pc[p]) /\ AfterDrop(pc[p]) # Nil /\ call'[p] = call[p]
           /\ completed' = completed
        \/ /\ AfterDrop(pc[p]) = Nil /\ call[p].at < Len(call[p].ids)
           /\ pc'[p] \in {"read", "dropId"} /\ completed' = completed
           /\ call'[p].ids = call[p].ids /\ call'[p].wrote = call[p].wrote
        \/ /\ AfterDrop(pc[p]) = Nil /\ call[p].at = Len(call[p].ids)
           /\ pc'[p] = "idle" /\ call'[p] = Nil
           /\ completed' = [i \in Id |-> IF call[p].wrote[i] > completed[i]
                                         THEN call[p].wrote[i] ELSE completed[i]]
    BY DropTypes
  <1>3. /\ \A i \in Id : /\ rows[i].ver \in Nat /\ completed[i] \in Nat
                         /\ completed[i] <= rows[i].ver
        /\ call[p] \in Frames /\ call[p].wrote \in [Id -> Nat]
        /\ \A i \in Id : /\ call[p].wrote[i] <= rows[i].ver
                         /\ call[p].wrote[i] # 0 =>
                               \E n \in 1..Len(call[p].ids) : call[p].ids[n] = i
    <2>1. call[p] \in Frames
      BY <1>1, TouchedTypes DEF Dropping
    <2>2. call[p].wrote \in [Id -> Nat]
      BY <2>1 DEF Frames
    <2>3. \A i \in Id :
             rows[i].ver \in Nat /\ completed[i] \in Nat /\ completed[i] <= rows[i].ver
      BY DEF Types, Row, SeenAll
    <2>4. WroteOwn(p) /\ pc[p] # "idle"
      BY <1>1 DEF SeenAll
    <2>5. QED BY <2>1, <2>2, <2>3, <2>4 DEF WroteOwn
  <1>4. \A k \in Key : \A i \in Covers(k) :
            \/ completed'[i] = completed[i]
            \/ \E q \in Worker : Gone(q, k) /\ completed'[i] = call[q].wrote[i]
            \/ k \in X \/ (k = "batch" /\ kind # "graphql")
    <2>1. CASE completed' = completed
      BY <2>1
    <2>2. CASE /\ AfterDrop(pc[p]) = Nil /\ call[p].at = Len(call[p].ids)
               /\ completed' = [i \in Id |-> IF call[p].wrote[i] > completed[i]
                                             THEN call[p].wrote[i] ELSE completed[i]]
      <3>1. /\ \A n \in 1..Len(call[p].ids) : Gone(p, call[p].ids[n])
            /\ Gone(p, "list") \/ "list" \in X
            /\ "batch" \in X \/ kind # "graphql"
        BY <1>0, <2>2, DropGone
      <3>2. ASSUME NEW k \in Key, NEW i \in Covers(k), completed'[i] # completed[i],
                   k \notin X, ~(k = "batch" /\ kind # "graphql")
            PROVE  Gone(p, k) /\ completed'[i] = call[p].wrote[i]
        <4>1. i \in Id /\ (k \in Id => i = k)
          BY DEF Covers
        <4>2. completed'[i] = call[p].wrote[i] /\ call[p].wrote[i] > completed[i]
          BY <2>2, <3>2, <4>1
        <4>3. call[p].wrote[i] # 0
          BY <1>3, <4>1, <4>2
        <4>4. Gone(p, i)
          BY <1>3, <3>1, <4>1, <4>3
        <4>5. CASE k \in Id
          BY <4>1, <4>2, <4>4, <4>5
        <4>6. CASE k \in {"list", "batch"}
          BY <3>1, <3>2, <4>2, <4>6
        <4>7. QED BY <4>5, <4>6 DEF Key
      <3>3. QED BY <3>2
    <2>3. QED BY <1>2, <2>1, <2>2
  <1>5. \A q \in Worker, k \in Key : Gone(q, k)' =>
              \/ Gone(q, k) /\ call'[q].wrote = call[q].wrote
              \/ k \in X \/ (k = "batch" /\ kind # "graphql")
    BY <1>0, DropGone
  <1>6. \A k \in Key : cache'[k] # Nil => Seen(k, cache[k])'
    <2>1. ASSUME NEW k \in Key, cache'[k] # Nil PROVE Seen(k, cache[k])'
      <3>1. k \notin X /\ cache'[k] = cache[k] /\ Seen(k, cache[k])
            /\ (k = "batch" => kind = "graphql")
        BY <1>1, <2>1, BatchOnly DEF SeenAll
      <3>2. PICK v : v = cache[k]
        OBVIOUS
      <3>3. /\ \A i \in Covers(k) : v.vals[i].ver < completed'[i] => v.overlap
            /\ \A i \in Covers(k) : \A q \in Worker :
                  Gone(q, k)' /\ v.vals[i].ver < call'[q].wrote[i] => v.overlap
        BY <1>4, <1>5, <3>1, <3>2, SeenStays
      <3>4. QED BY <3>1, <3>2, <3>3 DEF Seen, Covers
    <2>2. QED BY <2>1
  <1>7. \A q \in Worker : pc'[q] = "put" => Seen(call[q].key, call[q].value)'
    <2>1. ASSUME NEW q \in Worker, pc'[q] = "put" PROVE Seen(call[q].key, call[q].value)'
      <3>1. PICK k, v, w : /\ k = call[q].key /\ v = call[q].value
                           /\ w = IF k \in X THEN [v EXCEPT !.overlap = TRUE] ELSE v
        OBVIOUS
      <3>2. /\ q # p /\ pc[q] = "put" /\ call[q] \in Frames /\ v \in Values /\ k \in Key
            /\ Seen(k, v) /\ (k = "batch" => kind = "graphql")
        BY <1>1, <2>1, <3>1, ValueNumbers, BatchOnly DEF SeenAll, Reading
      <3>3. w.vals = v.vals /\ (v.overlap => w.overlap) /\ (k \in X => w.overlap)
        BY <3>1, <3>2, ValueTypes
      <3>4. call'[q].key = k /\ call'[q].value = w
        BY <1>1, <3>1, <3>2 DEF Frames
      <3>5. /\ \A i \in Covers(k) : w.vals[i].ver < completed'[i] => w.overlap
            /\ \A i \in Covers(k) : \A r \in Worker :
                  Gone(r, k)' /\ w.vals[i].ver < call'[r].wrote[i] => w.overlap
        BY <1>4, <1>5, <3>2, <3>3, SeenStays
      <3>6. QED BY <3>4, <3>5 DEF Seen, Covers
    <2>2. QED BY <2>1
  <1>8. \A i \in Id : completed'[i] <= rows'[i].ver
    BY <1>1, <1>2, <1>3
  <1>9. \A q \in Worker : WroteOwn(q)'
    <2>1. ASSUME NEW q \in Worker \ {p} PROVE WroteOwn(q)'
      <3>1. CASE pc[q] = "put"
        <4>1. pc'[q] = "put" /\ call'[q].wrote = call[q].wrote
          BY <1>1, <3>1, ValueNumbers DEF Frames
        <4>2. \A i \in Id : call[q].wrote[i] = 0
          BY <3>1 DEF SeenAll, WroteOwn, Dropping
        <4>3. QED BY <1>1, <1>3, <4>1, <4>2 DEF WroteOwn
      <3>2. CASE pc[q] # "put"
        <4>1. pc'[q] = pc[q] /\ call'[q] = call[q] /\ rows' = rows
          BY <1>1, <3>2
        <4>2. WroteOwn(q) /\ \A i \in Id : rows[i].ver <= rows'[i].ver /\ rows'[i].ver \in Nat
          BY <1>3, <4>1 DEF SeenAll
        <4>3. QED BY <4>1, <4>2, WroteSame
      <3>3. QED BY <3>1, <3>2
    <2>2. WroteOwn(p)'
      <3>1. CASE pc'[p] = "idle"
        BY <3>1 DEF WroteOwn
      <3>2. CASE pc'[p] # "idle"
        <4>1. /\ pc'[p] \in Dropping /\ call'[p].ids = call[p].ids
              /\ call'[p].wrote = call[p].wrote
          BY <1>2, <3>2 DEF AfterDrop, Dropping
        <4>2. QED BY <1>1, <1>3, <4>1 DEF WroteOwn
      <3>3. QED BY <3>1, <3>2
    <2>3. QED BY <2>1, <2>2
  <1>10. NoBatch'
    <2>1. "batch" \in Key
      BY DEF Key
    <2>2. ASSUME NEW q \in Worker, pc'[q] \in Reading
          PROVE  pc[q] \in Reading /\ call'[q].key = call[q].key
      <3>1. q # p /\ pc[q] \in Reading
        BY <1>1, <2>2
      <3>2. QED BY <1>1, <3>1, ValueNumbers DEF Frames
    <2>3. QED BY <1>1, <2>1, <2>2 DEF SeenAll, NoBatch
  <1>11. QED BY <1>6, <1>7, <1>8, <1>9, <1>10 DEF SeenAll

\* Time changes no copy, and a flush leaves none.
LEMMA TimeSeen ==
  ASSUME Sound, Types, Types', SeenAll, Tick \/ Flush PROVE SeenAll'
  <1>1. UNCHANGED <<kind, rows, pc, completed>>
    BY TickTypes DEF Flush
  <1>2. \A k \in Key : cache'[k] # Nil =>
           /\ cache[k] # Nil /\ cache'[k].vals = cache[k].vals
           /\ cache'[k].overlap = cache[k].overlap
    <2>1. ASSUME NEW k \in Key, cache'[k] # Nil, Tick
          PROVE  /\ cache[k] # Nil /\ cache'[k].vals = cache[k].vals
                 /\ cache'[k].overlap = cache[k].overlap
      <3>1. cache[k] # Nil /\ ~(cache[k].left <= 1) /\ cache'[k] = Aged(cache[k])
        BY <2>1, TickTypes
      <3>2. cache[k] \in Values /\ cache[k].left > 0
        BY <3>1, ValueNumbers
      <3>3. QED BY <3>1, <3>2, AgedTypes
    <2>2. QED BY <2>1 DEF Flush
  <1>3. \A q \in Worker :
           IF pc[q] = "put"
           THEN /\ call'[q].key = call[q].key /\ call'[q].wrote = call[q].wrote
                /\ call'[q].value.vals = call[q].value.vals
                /\ call'[q].value.overlap = call[q].value.overlap
           ELSE call'[q] = call[q]
    <2>1. ASSUME NEW q \in Worker, Tick, pc[q] = "put"
          PROVE  /\ call'[q].key = call[q].key /\ call'[q].wrote = call[q].wrote
                 /\ call'[q].value.vals = call[q].value.vals
                 /\ call'[q].value.overlap = call[q].value.overlap
      <3>1. /\ call[q] \in Frames /\ call[q].value \in Values /\ call[q].value.left > 0
            /\ call'[q] = [call[q] EXCEPT !.value = Aged(call[q].value)]
        BY <2>1, TickTypes, ValueNumbers
      <3>2. QED BY <3>1, AgedTypes DEF Frames
    <2>2. ASSUME NEW q \in Worker, Tick, pc[q] # "put" PROVE call'[q] = call[q]
      BY <2>2, TickTypes
    <2>3. QED BY <2>1, <2>2 DEF Flush
  <1>4. \A q \in Worker, k \in Key : Gone(q, k)' => Gone(q, k) /\ call'[q].wrote = call[q].wrote
    <2>1. ASSUME NEW q \in Worker, NEW k \in Key, Gone(q, k)'
          PROVE  Gone(q, k) /\ call'[q].wrote = call[q].wrote
      <3>1. pc[q] # "put"
        BY <1>1, <2>1 DEF Gone, Dropping
      <3>2. QED BY <1>1, <1>3, <2>1, <3>1, GoneSame
    <2>2. QED BY <2>1
  <1>5. ASSUME NEW k \in Key, NEW u, Seen(k, u), NEW w, w.vals = u.vals, w.overlap = u.overlap
        PROVE  /\ \A i \in Covers(k) : w.vals[i].ver < completed'[i] => w.overlap
               /\ \A i \in Covers(k) : \A q \in Worker :
                    Gone(q, k)' /\ w.vals[i].ver < call'[q].wrote[i] => w.overlap
    BY <1>1, <1>4, <1>5 DEF Seen
  <1>6. \A k \in Key : cache'[k] # Nil => Seen(k, cache[k])'
    BY <1>2, <1>5 DEF Seen, Covers, SeenAll
  <1>7. \A q \in Worker : pc'[q] = "put" => Seen(call[q].key, call[q].value)'
    <2>1. ASSUME NEW q \in Worker, pc'[q] = "put" PROVE Seen(call[q].key, call[q].value)'
      <3>1. /\ pc[q] = "put" /\ Seen(call[q].key, call[q].value) /\ call[q].key \in Key
            /\ call'[q].key = call[q].key
            /\ call'[q].value.vals = call[q].value.vals
            /\ call'[q].value.overlap = call[q].value.overlap
        BY <1>1, <1>3, <2>1, ValueNumbers DEF SeenAll
      <3>2. QED BY <1>5, <3>1 DEF Seen, Covers
    <2>2. QED BY <2>1
  <1>8. \A q \in Worker : WroteOwn(q)'
    <2>1. ASSUME NEW q \in Worker PROVE WroteOwn(q)'
      <3>1. CASE pc[q] = "put"
        <4>1. \A i \in Id : call[q].wrote[i] = 0 /\ rows[i].ver \in Nat
          BY <3>1 DEF SeenAll, WroteOwn, Dropping, Types, Row
        <4>2. QED BY <1>1, <1>3, <3>1, <4>1 DEF WroteOwn
      <3>2. CASE pc[q] # "put"
        BY <1>1, <1>3, <3>2 DEF SeenAll, WroteOwn
      <3>3. QED BY <3>1, <3>2
    <2>2. QED BY <2>1
  <1>9. NoBatch'
    <2>1. "batch" \in Key
      BY DEF Key
    <2>2. \A q \in Worker :
             pc'[q] \in Reading => pc[q] \in Reading /\ call'[q].key = call[q].key
      BY <1>1, <1>3
    <2>3. QED BY <1>1, <1>2, <2>1, <2>2 DEF SeenAll, NoBatch
  <1>10. QED BY <1>1, <1>6, <1>7, <1>8, <1>9 DEF SeenAll

\* Every step keeps what is known of the values.
LEMMA NextSeen ==
  ASSUME Sound, Types, Types', SeenAll, [MediaNext]_mediaVars PROVE SeenAll'
  <1>1. ASSUME NEW p \in Worker, Quiet(p) \/ Load(p) \/ Put(p) \/ Write(p) \/ Drop(p)
        PROVE  SeenAll'
    BY <1>1, QuietCalm, CalmSeen, LoadSeen, PutSeen, WriteSeen, DropSeen
  <1>2. CASE UNCHANGED mediaVars
    <2>1. UNCHANGED <<kind, rows, cache, pc, call, completed>>
      BY <1>2 DEF mediaVars, vars, store
    <2>2. QED BY <2>1 DEF SeenAll, Seen, Covers, Gone, WroteOwn, NoBatch
  <1>3. QED BY <1>1, <1>2, TimeSeen, NextSteps

\* The age of values.

\* Value v holds what the rows hold, or it is known to be old.
Current(v) == v.old = Nil => \A i \in DOMAIN v.vals : v.vals[i].ver = rows[i].ver

\* So does every value read; and an answered write is a version of its row.
Dated ==
    /\ \A k \in Key : cache[k] # Nil => Current(cache[k])
    /\ \A p \in Worker : pc[p] = "put" => Current(call[p].value)
    /\ past \in [Id -> Nat]
    /\ \A i \in Id : past[i] <= rows[i].ver

\* Only a statement writes past the service.
LEMMA PastStays ==
  ASSUME NEW p \in Worker, Quiet(p) \/ Load(p) \/ Put(p) \/ Drop(p)
  PROVE  past' = past
  <1>1. CASE Requested(p)
    BY <1>1 DEF Requested, Arrives, Enter
  <1>2. CASE GetCached(p) \/ Refresh(p) \/ ReadBack(p) \/ Fail(p)
    BY <1>2 DEF GetCached, Refresh, ReadBack, Fail
  <1>3. CASE ProcessFile(p) \/ CreateRows(p) \/ Decide(p) \/ DeleteObject(p) \/ ServeFile(p)
    BY <1>3 DEF ProcessFile, CreateRows, Decide, DeleteObject, ServeFile
  <1>4. CASE Load(p) \/ Put(p) \/ Drop(p)
    BY <1>4 DEF Load, Put, Drop
  <1>5. QED BY <1>1, <1>2, <1>3, <1>4 DEF Quiet

\* A value with the copies and the age of another, over the same rows.
LEMMA CurrentStays ==
  ASSUME NEW v, NEW w, Current(v), w.vals = v.vals, w.old = v.old, rows' = rows
  PROVE  w.old = Nil => \A i \in DOMAIN w.vals : w.vals[i].ver = rows'[i].ver
  BY DEF Current

\* A value that others read, after a statement.
LEMMA OutdatedCurrent ==
  ASSUME Sound, NEW v \in Values, Current(v)
  PROVE  LET w == Outdated(v, rows') IN
         w.old = Nil => \A i \in DOMAIN w.vals : w.vals[i].ver = rows'[i].ver
  <1>1. CASE v.old = Nil /\ \E i \in DOMAIN v.vals : v.vals[i].ver # rows'[i].ver
    <2>1. Outdated(v, rows').old = 0
      BY <1>1 DEF Outdated, Values
    <2>2. QED BY <2>1 DEF Sound
  <1>2. CASE ~(v.old = Nil /\ \E i \in DOMAIN v.vals : v.vals[i].ver # rows'[i].ver)
    <2>1. Outdated(v, rows') = v
      BY <1>2 DEF Outdated
    <2>2. QED BY <1>2, <2>1
  <1>3. QED BY <1>1, <1>2

\* A statement dates the values that it overtakes.
LEMMA WriteDated ==
  ASSUME Sound, Types, Types', Dated, NEW p \in Worker, Write(p) PROVE Dated'
  <1>1. ASSUME NEW k \in Key, cache'[k] # Nil PROVE Current(cache[k])'
    <2>1. cache[k] # Nil /\ cache'[k] = Outdated(cache[k], rows')
      BY <1>1, WriteTypes
    <2>2. cache[k] \in Values /\ Current(cache[k])
      BY <2>1, ValueNumbers DEF Dated
    <2>3. QED BY <2>1, <2>2, OutdatedCurrent DEF Current
  <1>2. ASSUME NEW q \in Worker, pc'[q] = "put" PROVE Current(call[q].value)'
    <2>1. q # p
      BY <1>2, WriteTypes
    <2>2. pc[q] = "put" /\ call'[q] = [call[q] EXCEPT !.value = Outdated(call[q].value, rows')]
      BY <1>2, <2>1, WriteTypes
    <2>3. call[q] \in Frames /\ call[q].value \in Values /\ Current(call[q].value)
      BY <2>2, ValueNumbers DEF Dated
    <2>4. call'[q].value = Outdated(call[q].value, rows')
      BY <2>2, <2>3 DEF Frames
    <2>5. QED BY <2>3, <2>4, OutdatedCurrent DEF Current
  <1>3. \A i \in Id : /\ rows[i].ver \in Nat /\ rows'[i].ver \in Nat
                     /\ rows[i].ver <= rows'[i].ver
    <2>1. \A i \in Id : rows[i].ver \in Nat /\ rows'[i].ver \in Nat
      BY DEF Types, Row
    <2>2. QED BY <2>1, WriteTypes
  <1>4. \/ past' = past
        \/ past' = [i \in Id |-> IF rows'[i] = rows[i] THEN past[i] ELSE rows'[i].ver]
    BY DEF Write
  <1>5. past' \in [Id -> Nat] /\ \A i \in Id : past'[i] <= rows'[i].ver
    BY <1>3, <1>4 DEF Dated
  <1>6. QED BY <1>1, <1>2, <1>5 DEF Dated

\* A value that is read now is current; one that is kept, marked or ages stays so.
LEMMA NextDated ==
  ASSUME Sound, Types, Types', Dated, [MediaNext]_mediaVars PROVE Dated'
  <1>1. ASSUME NEW p \in Worker, Quiet(p) PROVE Dated'
    BY <1>1, QuietCalm, PastStays DEF Calm, Dated, Current
  <1>2. ASSUME NEW p \in Worker, Load(p) PROVE Dated'
    <2>1. cache' = cache /\ rows' = rows /\ past' = past
      BY <1>2, LoadTypesStep, PastStays
    <2>2. ASSUME NEW q \in Worker, pc'[q] = "put" PROVE Current(call[q].value)'
      <3>1. CASE pc[q] = "put" /\ call'[q] = call[q]
        BY <2>1, <3>1 DEF Dated, Current
      <3>2. CASE ~(pc[q] = "put" /\ call'[q] = call[q])
        <4>1. PICK c \in Frames :
                  /\ pc' = [pc EXCEPT ![p] = "put"] /\ call' = [call EXCEPT ![p] = c]
                  /\ \A i \in Covers(c.key) : c.value.vals[i].ver = rows[i].ver
          BY <1>2, <2>2, <3>2, LoadTypesStep, FinishCalm DEF Calm, Types
        <4>2. call'[q] = c
          BY <2>2, <3>2, <4>1 DEF Types
        <4>3. c.value.vals \in [Covers(c.key) -> Row]
          BY <2>2, <4>2 DEF Types, Fits, ReadFits, Reading, Covers
        <4>4. QED BY <2>1, <4>1, <4>2, <4>3 DEF Current
      <3>3. QED BY <3>1, <3>2
    <2>3. QED BY <2>1, <2>2 DEF Dated, Current
  <1>3. ASSUME NEW p \in Worker, Put(p) PROVE Dated'
    <2>0. PICK k, v : k = call[p].key /\ v = call[p].value
      OBVIOUS
    <2>1. /\ pc[p] = "put" /\ cache' = [cache EXCEPT ![k] = Stored(v)]
          /\ rows' = rows /\ past' = past
          /\ \A q \in Worker : pc'[q] = "put" => pc[q] = "put" /\ call'[q] = call[q]
      BY <1>3, <2>0, PutTypes, PastStays DEF Types
    <2>2. v \in Values /\ k \in Key /\ Current(v)
      BY <2>0, <2>1, ValueNumbers DEF Dated
    <2>3. Stored(v).vals = v.vals /\ Stored(v).old = v.old
      BY <2>2, ValueTypes
    <2>4. cache'[k] = Stored(v) /\ \A j \in Key \ {k} : cache'[j] = cache[j]
      BY <2>1, <2>2 DEF Types, CacheTypes
    <2>5. Current(cache[k])'
      BY <2>1, <2>2, <2>3, <2>4 DEF Current
    <2>6. QED BY <2>1, <2>4, <2>5 DEF Dated, Current
  <1>4. ASSUME NEW p \in Worker, Write(p) PROVE Dated'
    BY <1>4, WriteDated
  <1>5. ASSUME NEW p \in Worker, Drop(p) PROVE Dated'
    <2>1. /\ rows' = rows /\ past' = past
          /\ \A k \in Key : cache'[k] \in {Nil, cache[k]}
      BY <1>5, DropTypes, PastStays
    <2>2. ASSUME NEW q \in Worker, pc'[q] = "put" PROVE Current(call[q].value)'
      <3>1. q # p /\ pc[q] = "put"
            /\ call'[q] \in {call[q], [call[q] EXCEPT !.value =
                                         [call[q].value EXCEPT !.overlap = TRUE]]}
        BY <1>5, <2>2, DropTypes DEF AfterDrop
      <3>2. call[q] \in Frames /\ call[q].value \in Values /\ Current(call[q].value)
        BY <3>1, ValueNumbers DEF Dated
      <3>3. /\ [call[q].value EXCEPT !.overlap = TRUE].vals = call[q].value.vals
            /\ [call[q].value EXCEPT !.overlap = TRUE].old = call[q].value.old
        BY <3>2, ValueTypes
      <3>4. call'[q].value.vals = call[q].value.vals /\ call'[q].value.old = call[q].value.old
        BY <3>1, <3>2, <3>3 DEF Frames
      <3>5. QED BY <2>1, <3>2, <3>4 DEF Current
    <2>3. QED BY <2>1, <2>2 DEF Dated, Current
  <1>6. CASE Flush
    BY <1>6 DEF Flush, Dated, Current
  <1>7. CASE Tick
    <2>1. rows' = rows /\ past' = past
      BY <1>7 DEF Tick
    <2>2. ASSUME NEW k \in Key, cache'[k] # Nil PROVE Current(cache[k])'
      <3>1. cache[k] # Nil /\ ~(cache[k].left <= 1) /\ cache'[k] = Aged(cache[k])
        BY <1>7, <2>2, TickTypes
      <3>2. cache[k] \in Values /\ cache[k].left > 0 /\ Current(cache[k])
        BY <3>1, ValueNumbers DEF Dated
      <3>3. QED BY <2>1, <3>1, <3>2, AgedTypes DEF Current, Sound
    <2>3. ASSUME NEW q \in Worker, pc'[q] = "put" PROVE Current(call[q].value)'
      <3>1. /\ pc[q] = "put" /\ call[q].value.left > 0
            /\ call'[q] = [call[q] EXCEPT !.value = Aged(call[q].value)]
        BY <1>7, <2>3, TickTypes
      <3>2. call[q] \in Frames /\ call[q].value \in Values /\ Current(call[q].value)
        BY <3>1, ValueNumbers DEF Dated
      <3>3. call'[q].value = Aged(call[q].value)
        BY <3>1, <3>2 DEF Frames
      <3>4. QED BY <2>1, <3>1, <3>2, <3>3, AgedTypes DEF Current, Sound
    <2>4. QED BY <2>1, <2>2, <2>3 DEF Dated
  <1>8. CASE UNCHANGED mediaVars
    BY <1>8 DEF mediaVars, vars, store, Dated, Current
  <1>9. QED BY <1>1, <1>2, <1>3, <1>4, <1>5, <1>6, <1>7, <1>8, NextSteps

\* However reads and writes of many requests overlap, an entry that still has an
\* older version of a row than an answered write of the service left was read
\* before one of the deletions of its key, and stored after it; one that lacks a
\* write that went past the service is known to be old, and bounded in age.
THEOREM EntityUpdatesAreSeen == ASSUME Sound PROVE Spec => []UpdatesAreSeen
  <1>1. MediaInit => Types /\ SeenAll /\ Dated /\ Fresher
    <2>1. ASSUME Init PROVE SeenAll /\ Dated
      <3>1. /\ \A i \in Id : rows[i].ver = 0 /\ completed[i] = 0
            /\ \A k \in Key : cache[k] = Nil
            /\ \A p \in Worker : pc[p] = "idle"
            /\ "batch" \in Key
        BY <2>1, InitTypes DEF Key
      <3>2. past = [i \in Id |-> 0]
        BY <2>1 DEF Init
      <3>3. Dated
        BY <3>1, <3>2 DEF Dated
      <3>4. QED BY <3>1, <3>3 DEF SeenAll, WroteOwn, NoBatch, Reading
    <2>2. QED BY <2>1, InitTypes DEF MediaInit, Fresher
  <1>2. Types /\ SeenAll /\ Dated /\ Fresher /\ [MediaNext]_mediaVars
          => (Types /\ SeenAll /\ Dated /\ Fresher)'
    BY NextTypes, NextSeen, NextDated, NextFresher
  <1>3. Types /\ SeenAll /\ Dated /\ Fresher => UpdatesAreSeen
    <2> SUFFICES ASSUME Types, SeenAll, Dated, Fresher, NEW k \in Key, cache[k] # Nil,
                        NEW i \in Covers(k)
                 PROVE  /\ Lacks(cache[k], i, completed[i]) => cache[k].overlap
                        /\ Lacks(cache[k], i, past[i]) =>
                              cache[k].old # Nil /\ cache[k].old < Ttl + MaxDelay
      BY DEF UpdatesAreSeen
    <2>1. Lacks(cache[k], i, completed[i]) => cache[k].overlap
      BY DEF SeenAll, Seen, Lacks
    <2>2. ASSUME Lacks(cache[k], i, past[i]) PROVE cache[k].old # Nil
      <3>1. i \in Id /\ cache[k].vals \in [Covers(k) -> Row]
        BY DEF Covers, Types, CacheTypes
      <3>2. /\ cache[k].vals[i].ver \in Nat /\ rows[i].ver \in Nat /\ past[i] \in Nat
            /\ past[i] <= rows[i].ver /\ i \in DOMAIN cache[k].vals
        BY <3>1 DEF Types, Row, Dated
      <3>3. cache[k].vals[i].ver # rows[i].ver
        BY <2>2, <3>2 DEF Lacks
      <3>4. QED BY <3>2, <3>3 DEF Dated, Current
    <2>3. cache[k].old # Nil => cache[k].old < Ttl + MaxDelay
      BY ValueNumbers DEF Fresher
    <2>4. QED BY <2>1, <2>2, <2>3
  <1>4. QED BY <1>1, <1>2, <1>3, PTL DEF Spec

-----------------------------------------------------------------------------
(* The file that a row names is there.                                     *)

\* No step takes an object unless its name is loose by then.
Kept ==
    /\ asked \subseteq asked' /\ given \subseteq given'
    /\ \A i \in Id : i \in objects \cup Loose => i \in objects' \cup Loose'

\* What another's step does to a request does not undo what it has.
LEMMA OwnStays ==
  ASSUME Sound, Types, NEW q \in Worker, Own(q), Kept, pc'[q] = pc[q],
         \/ call'[q] = call[q]
         \/ pc[q] = "put" /\ \E v : call'[q] = [call[q] EXCEPT !.value = v]
  PROVE  Own(q)'
  <1>1. call[q] \in Frames \cup {Nil} /\ (pc[q] = "idle" <=> call[q] = Nil)
    BY DEF Types, Fits
  <1>2. CASE call'[q] = call[q]
    <2>1. pc[q] # "idle" => \A n \in 1..Len(call[q].ids) : call[q].ids[n] \in Id
      BY <1>1 DEF Frames
    <2>2. pc'[q] = "write" /\ call'[q].op # "create" => Told(call[q])'
      BY <1>2 DEF Own, Told, Kept
    <2>3. QED BY <1>2, <2>1, <2>2 DEF Own, Kept, Reading
  <1>3. CASE pc[q] = "put" /\ \E v : call'[q] = [call[q] EXCEPT !.value = v]
    <2>1. call'[q].op = call[q].op /\ call'[q].key = call[q].key /\ call'[q].copy = call[q].copy
      BY <1>1, <1>3 DEF Frames
    <2>2. QED BY <1>3, <2>1 DEF Own, Kept, Reading
  <1>4. QED BY <1>2, <1>3

\* A request that ends keeps nothing.
LEMMA FinishOwn ==
  ASSUME Types, NEW p \in Worker, Finish(p)
  PROVE  Own(p)' /\ pc'[p] = "idle"
  BY DEF Finish, Goto, Types, Own, Reading

\* The request's own step, where it stores nothing.
LEMMA QuietOwn ==
  ASSUME Sound, Types, kind = "media", Keys, NEW p \in Worker, Own(p), Quiet(p)
  PROVE  Own(p)' /\ Kept
  <1>0. /\ pc \in [Worker -> Label] /\ call \in [Worker -> Frames \cup {Nil}]
        /\ UNCHANGED media => Kept
        /\ "create" # "delete"
    BY DEF Types, Kept, media, Loose
  <1>1. CASE Requested(p)
    <2>1. PICK c \in Frames, l \in {"get", "upload", "write"} :
              /\ call' = [call EXCEPT ![p] = c] /\ pc' = [pc EXCEPT ![p] = l]
              /\ c.at = 1
              /\ c.op \in {"register", "updateUser"} => kind = "users"
              /\ l = "write" => \/ c.patch.key = Nil \/ Given(c.patch.key) \in given'
                                \/ c.ids = <<Given(c.patch.key)>>
              /\ l = "write" /\ c.op = "create" => kind = "graphql"
      BY <1>1, RequestedTypes
    <2>2. pc'[p] = l /\ call'[p] = c
      BY <1>0, <2>1
    <2>3. Kept
      BY <1>1, RequestedTypes DEF Kept, Loose
    <2>4. pc'[p] = "write" => Told(call[p])'
      BY <2>1, <2>2 DEF Told
    <2>5. QED BY <2>1, <2>2, <2>3, <2>4 DEF Own, Reading
  <1>2. CASE GetCached(p) /\ UNCHANGED media
    <2>1. pc[p] = "get"
      BY <1>2, GetTypes
    <2>2. CASE pc' = [pc EXCEPT ![p] = "idle"] /\ call' = [call EXCEPT ![p] = Nil]
      BY <1>0, <1>2, <2>2 DEF Own, Reading
    <2>3. CASE /\ pc' = [pc EXCEPT ![p] = "load"] \/ pc' = [pc EXCEPT ![p] = "ttl"]
               /\ call' = call
      BY <1>0, <1>2, <2>1, <2>3 DEF Own, Reading, media
    <2>4. CASE \E c \in Frames :
                 /\ c.op = call[p].op /\ c.key = call[p].key
                 /\ call[p].key \in Id /\ cache[call[p].key] # Nil
                 /\ c.copy = cache[call[p].key].vals[call[p].key]
                 /\ call' = [call EXCEPT ![p] = c]
                 /\ \/ pc' = [pc EXCEPT ![p] = "write"] /\ c.op = "updateUser"
                    \/ pc' = [pc EXCEPT ![p] = "found"]
      <3>1. PICK c \in Frames :
                 /\ c.op = call[p].op /\ c.key = call[p].key
                 /\ call[p].key \in Id /\ cache[call[p].key] # Nil
                 /\ c.copy = cache[call[p].key].vals[call[p].key]
                 /\ call' = [call EXCEPT ![p] = c]
                 /\ \/ pc' = [pc EXCEPT ![p] = "write"] /\ c.op = "updateUser"
                    \/ pc' = [pc EXCEPT ![p] = "found"]
        BY <2>4
      <3>2. /\ call'[p] = c /\ pc'[p] \in {"write", "found"}
            /\ pc'[p] = "write" => c.op = "updateUser"
        BY <1>0, <3>1
      <3>3. c.copy.key = Nil
        BY <3>1 DEF Keys
      <3>4. QED BY <1>0, <1>2, <2>1, <3>1, <3>2, <3>3 DEF Own, Reading, media
    <2>5. QED BY <1>2, <2>2, <2>3, <2>4, GetTypes
  <1>3. CASE Refresh(p) /\ UNCHANGED media
    <2>1. CASE Finish(p)
      BY <1>0, <1>3, <2>1, FinishOwn
    <2>2. CASE pc[p] = "ttl" /\ pc' = [pc EXCEPT ![p] = "load"] /\ call' = call
      BY <1>0, <1>3, <2>2 DEF Own, Reading, media
    <2>3. QED BY <1>3, <2>1, <2>2, RefreshTypes
  <1>4. CASE ReadBack(p) /\ UNCHANGED media
    <2>1. CASE Finish(p)
      BY <1>0, <1>4, <2>1, FinishOwn
    <2>2. CASE pc[p] = "read" /\ pc' = [pc EXCEPT ![p] = "dropId"] /\ call' = call
      BY <1>0, <1>4, <2>2 DEF Own, Reading, media
    <2>3. QED BY <1>4, <2>1, <2>2, ReadBackTypes
  <1>5. CASE (Fail(p) /\ UNCHANGED media) \/ ServeFile(p)
    BY <1>0, <1>5, FailTypes, ServeTypes, FinishOwn DEF media
  <1>6. CASE ProcessFile(p)
    <2>1. PICK c \in Frames :
              /\ call' = [call EXCEPT ![p] = c] /\ c.op = "create"
              /\ \/ /\ c.at = call[p].at + 1 /\ c.ids = call[p].ids
                    /\ objects' = objects \cup {call[p].ids[call[p].at]}
                 \/ /\ c.at = call[p].at
                    /\ c.ids = Without(call[p].ids, call[p].at)
                    /\ objects' \in {objects, objects \cup {call[p].ids[call[p].at]}}
      BY <1>6, FileTypes
    <2>2. /\ pc'[p] = "upload" /\ pc[p] = "upload" /\ call'[p] = c /\ UNCHANGED <<asked, given>>
          /\ call[p] \in Frames /\ call[p].at \in 1..Len(call[p].ids)
          /\ call[p].ids \in Seq(Id) /\ call[p].at \in Nat
      BY <1>0, <1>6, <2>1, FileTypes
    <2>3. Kept /\ objects \subseteq objects' /\ Loose' = Loose
      BY <2>1, <2>2 DEF Kept, Loose
    <2>4. \A n \in 1..Len(call[p].ids) :
             n < call[p].at => call[p].ids[n] \in objects' \cup Loose'
      BY <2>2, <2>3 DEF Own
    <2>5. ASSUME NEW n \in 1..Len(c.ids), n < c.at
          PROVE  c.ids[n] \in objects' \cup Loose'
      <3>1. CASE /\ c.at = call[p].at + 1 /\ c.ids = call[p].ids
                 /\ objects' = objects \cup {call[p].ids[call[p].at]}
        <4>1. n < call[p].at \/ n = call[p].at
          BY <2>2, <2>5, <3>1
        <4>2. QED BY <2>4, <2>5, <3>1, <4>1
      <3>2. CASE c.at = call[p].at /\ c.ids = Without(call[p].ids, call[p].at)
        <4>1. c.ids[n] = call[p].ids[n] /\ n \in 1..Len(call[p].ids)
          BY <2>2, <2>5, <3>2, WithoutTypes
        <4>2. QED BY <2>4, <2>5, <3>2, <4>1
      <3>3. QED BY <2>1, <3>1, <3>2
    <2>6. QED BY <2>1, <2>2, <2>3, <2>5 DEF Own, Reading
  <1>7. CASE CreateRows(p)
    <2>0. UNCHANGED media
      BY <1>7, RowsTypes DEF media
    <2>1. CASE Finish(p)
      BY <1>0, <2>0, <2>1, FinishOwn
    <2>2. CASE \E c \in Frames :
                 /\ pc[p] = "upload" /\ call[p].at > Len(call[p].ids)
                 /\ call' = [call EXCEPT ![p] = c] /\ pc' = [pc EXCEPT ![p] = "write"]
                 /\ c.op = "create" /\ c.ids = call[p].ids
      <3>1. PICK c \in Frames :
                 /\ pc[p] = "upload" /\ call[p].at > Len(call[p].ids)
                 /\ call' = [call EXCEPT ![p] = c] /\ pc' = [pc EXCEPT ![p] = "write"]
                 /\ c.op = "create" /\ c.ids = call[p].ids
        BY <2>2
      <3>2. /\ pc'[p] = "write" /\ call'[p] = c /\ call[p] \in Frames
            /\ Len(call[p].ids) \in Nat /\ call[p].at \in Nat
        BY <1>0, <3>1 DEF Types, Fits, Frames
      <3>3. \A n \in 1..Len(call[p].ids) : call[p].ids[n] \in objects \cup Loose
        BY <3>1, <3>2 DEF Own
      <3>4. QED BY <1>0, <2>0, <3>1, <3>2, <3>3 DEF Own, Reading, media, Loose
    <2>3. QED BY <1>7, <2>1, <2>2, RowsTypes
  <1>8. CASE Decide(p)
    <2>0. UNCHANGED media /\ pc[p] = "found"
      BY <1>8, DecideTypes DEF media
    <2>1. CASE Finish(p)
      BY <1>0, <2>0, <2>1, FinishOwn
    <2>2. CASE pc' = [pc EXCEPT ![p] = "object"] /\ call' = call
      BY <1>0, <2>0, <2>2 DEF Own, Reading, media
    <2>3. CASE /\ pc' = [pc EXCEPT ![p] = "write"]
               /\ \E c \in Frames : /\ call' = [call EXCEPT ![p] = c] /\ c.op = "update"
                                    /\ c.patch.key = Nil
      <3>1. pc'[p] = "write" /\ call'[p].op = "update" /\ call'[p].patch.key = Nil
        BY <1>0, <2>3
      <3>2. QED BY <1>0, <2>0, <3>1 DEF Own, Reading, Told
    <2>4. QED BY <1>8, <2>1, <2>2, <2>3, DecideTypes
  <1>9. CASE DeleteObject(p)
    <2>1. /\ pc[p] = "object" /\ call[p].op = "delete" /\ given' = given
          /\ asked' = asked \cup {call[p].key}
          /\ objects' \in {objects, objects \ {call[p].copy.key}}
      BY <1>9, ObjectTypes
    <2>2. call[p].copy.key \in {call[p].key, Nil} \cup given
      BY <2>1 DEF Own, Reading
    <2>3. Kept
      BY <2>1, <2>2 DEF Kept, Loose, Sound, ConstantsOK
    <2>4. CASE Finish(p)
      BY <2>3, <2>4, FinishOwn
    <2>5. CASE /\ pc' = [pc EXCEPT ![p] = "write"]
               /\ \E c \in Frames : /\ call' = [call EXCEPT ![p] = c] /\ c.op = "update"
                                    /\ c.patch.key = Nil
      <3>1. pc'[p] = "write" /\ call'[p].op = "update" /\ call'[p].patch.key = Nil
        BY <1>0, <2>5
      <3>2. QED BY <2>3, <3>1 DEF Own, Reading, Told
    <2>6. QED BY <1>9, <2>4, <2>5, ObjectTypes
  <1>10. QED BY <1>1, <1>2, <1>3, <1>4, <1>5, <1>6, <1>7, <1>8, <1>9 DEF Quiet

\* Where no row changes, each has its file.
LEMMA BackedStays ==
  ASSUME Filed, Kept, UNCHANGED rows
  PROVE  Filed'
  <1>1. ASSUME NEW i \in Id, rows[i].life # "new" PROVE i \in (objects \cup Loose)'
    BY <1>1 DEF Filed, Kept
  <1>2. QED BY <1>1 DEF Filed

\* Such a step stores nothing, and no row changes.
LEMMA QuietBacked ==
  ASSUME Sound, Types, Types', Backed, NEW p \in Worker, Quiet(p) PROVE Backed'
  <1> SUFFICES ASSUME kind = "media" PROVE Backed'
    BY QuietCalm DEF Calm, Backed
  <1>1. /\ UNCHANGED <<kind, rows, cache>> /\ pc'[p] # "put"
        /\ \A q \in Worker \ {p} : pc'[q] = pc[q] /\ call'[q] = call[q]
        /\ Keys /\ (\A q \in Worker : Own(q)) /\ Filed
    BY QuietCalm DEF Calm, Backed
  <1>2. Own(p)' /\ Kept
    BY <1>1, QuietOwn
  <1>3. \A q \in Worker : Own(q)'
    BY <1>1, <1>2, OwnStays
  <1>4. Keys'
    BY <1>1, <1>2 DEF Keys, Kept
  <1>5. Filed'
    BY <1>1, <1>2, BackedStays
  <1>6. QED BY <1>3, <1>4, <1>5 DEF Backed

\* What is read for the cache has no key; the request has the row.
LEMMA LoadBacked ==
  ASSUME Sound, Types, Backed, NEW p \in Worker, Load(p), UNCHANGED media PROVE Backed'
  <1> SUFFICES ASSUME kind = "media" PROVE Backed'
    BY LoadTypesStep DEF Backed
  <1>1. /\ UNCHANGED <<kind, rows, cache, objects, asked, given>> /\ Kept
        /\ Keys /\ (\A q \in Worker : Own(q)) /\ Filed
        /\ pc \in [Worker -> Label] /\ call \in [Worker -> Frames \cup {Nil}]
    BY LoadTypesStep DEF Backed, media, Types, Kept, Loose
  <1>2. CASE Finish(p)
    <2>1. /\ pc'[p] = "idle"
          /\ \A q \in Worker \ {p} : pc'[q] = pc[q] /\ call'[q] = call[q]
      BY <1>1, <1>2 DEF Finish, Goto
    <2>2. \A q \in Worker : Own(q)'
      BY <1>1, <1>2, <2>1, OwnStays, FinishOwn
    <2>3. Keys' /\ Filed'
      BY <1>1, <2>1 DEF Keys, Filed, Loose
    <2>4. QED BY <2>2, <2>3 DEF Backed
  <1>3. CASE \E c \in Frames :
                  /\ pc[p] = "load" /\ pc' = [pc EXCEPT ![p] = "put"]
                  /\ call' = [call EXCEPT ![p] = c] /\ c.key = call[p].key
                  /\ c.op = call[p].op
                  /\ \A i \in Covers(c.key) : c.value.vals[i].key = Nil
                  /\ c.key \in Id => c.copy = rows[c.key]
    <2>1. PICK c \in Frames :
                  /\ pc[p] = "load" /\ pc' = [pc EXCEPT ![p] = "put"]
                  /\ call' = [call EXCEPT ![p] = c] /\ c.key = call[p].key
                  /\ c.op = call[p].op
                  /\ \A i \in Covers(c.key) : c.value.vals[i].key = Nil
                  /\ c.key \in Id => c.copy = rows[c.key]
      BY <1>3
    <2>2. /\ pc'[p] = "put" /\ call'[p] = c
          /\ \A q \in Worker \ {p} : pc'[q] = pc[q] /\ call'[q] = call[q]
      BY <1>1, <2>1
    <2>3. Own(p)'
      BY <1>1, <2>1, <2>2 DEF Own, Reading, Keys
    <2>4. \A q \in Worker : Own(q)'
      BY <1>1, <2>2, <2>3, OwnStays
    <2>5. c.key \in Id => c.value.vals[c.key].key = Nil
      BY <2>1 DEF Covers
    <2>6. Keys'
      BY <1>1, <2>2, <2>5 DEF Keys
    <2>7. QED BY <1>1, <2>4, <2>6 DEF Backed, Filed, Loose
  <1>4. QED BY <1>2, <1>3, LoadTypesStep

\* What is stored has no key either.
LEMMA PutBacked ==
  ASSUME Sound, Types, Backed, NEW p \in Worker, Put(p), UNCHANGED media PROVE Backed'
  <1> SUFFICES ASSUME kind = "media" PROVE Backed'
    BY PutTypes DEF Backed
  <1>1. PICK k, v : k = call[p].key /\ v = call[p].value
    OBVIOUS
  <1>2. /\ UNCHANGED <<kind, rows, objects, asked, given>> /\ Kept /\ pc[p] = "put"
        /\ Keys /\ (\A q \in Worker : Own(q)) /\ Filed
        /\ pc \in [Worker -> Label] /\ call \in [Worker -> Frames \cup {Nil}]
        /\ cache' = [cache EXCEPT ![k] = Stored(v)] /\ cache \in [Key -> Values \cup {Nil}]
    BY <1>1, PutTypes DEF Backed, media, Types, CacheTypes, Kept, Loose
  <1>3. k \in Key /\ v \in Values /\ Stored(v).vals = v.vals
    BY <1>1, <1>2, ValueNumbers, ValueTypes
  <1>4. /\ Own(p)' /\ pc'[p] # "put"
        /\ \A q \in Worker \ {p} : pc'[q] = pc[q] /\ call'[q] = call[q]
    <2>1. CASE pc' = [pc EXCEPT ![p] = "idle"] /\ call' = [call EXCEPT ![p] = Nil]
      BY <1>2, <2>1 DEF Own, Reading
    <2>2. CASE \E c \in Frames :
                 /\ c.op = call[p].op /\ c.key = call[p].key
                 /\ c.copy = call[p].copy /\ call[p].key \in Id
                 /\ call' = [call EXCEPT ![p] = c]
                 /\ \/ pc' = [pc EXCEPT ![p] = "write"] /\ c.op = "updateUser"
                    \/ pc' = [pc EXCEPT ![p] = "found"]
      <3>1. /\ call'[p].op = call[p].op /\ call'[p].key = call[p].key
            /\ call'[p].copy = call[p].copy /\ call[p].key \in Id
            /\ pc'[p] \in {"write", "found"} /\ (pc'[p] = "write" => call'[p].op = "updateUser")
            /\ \A q \in Worker \ {p} : pc'[q] = pc[q] /\ call'[q] = call[q]
        BY <1>2, <2>2
      <3>2. QED BY <1>2, <3>1 DEF Own, Reading
    <2>3. QED BY <2>1, <2>2, PutTypes
  <1>5. \A q \in Worker : Own(q)'
    BY <1>2, <1>4, OwnStays
  <1>6. Keys'
    <2>1. ASSUME NEW i \in Id, cache'[i] # Nil PROVE cache'[i].vals[i].key = Nil
      <3>1. i \in Key
        BY DEF Key
      <3>2. CASE i = k
        BY <1>1, <1>2, <1>3, <3>1, <3>2 DEF Keys
      <3>3. CASE i # k
        BY <1>2, <1>3, <2>1, <3>1, <3>3 DEF Keys
      <3>4. QED BY <3>2, <3>3
    <2>2. QED BY <1>2, <1>4, <2>1 DEF Keys
  <1>7. QED BY <1>2, <1>5, <1>6 DEF Backed, Filed, Loose

\* A row comes to be by a creation, which has the objects of its files.
LEMMA WriteBacked ==
  ASSUME Sound, Types, Backed, NEW p \in Worker, Write(p), UNCHANGED media PROVE Backed'
  <1> SUFFICES ASSUME kind = "media" PROVE Backed'
    BY WriteTypes DEF Backed
  <1>1. /\ UNCHANGED <<kind, objects, asked, given>> /\ Kept /\ pc[p] = "write"
        /\ Keys /\ (\A q \in Worker : Own(q)) /\ Filed
        /\ call[p] \in Frames /\ rows \in [Id -> Row]
        /\ cache \in [Key -> Values \cup {Nil}]
    BY WriteTypes, TouchedTypes DEF Backed, media, Types, CacheTypes, Kept, Loose
  <1>2. ASSUME NEW i \in Id
        PROVE  /\ rows'[i].key \in {i, Nil} \cup given
               /\ rows'[i].life # "new" => rows'[i].key \in {i} \cup given
               /\ rows'[i].life # "new" => i \in objects \cup Loose
    <2>1. CASE rows'[i] = rows[i]
      BY <1>1, <2>1 DEF Keys, Filed
    <2>2. CASE i \in Touched(p) /\ rows'[i] = Written(call[p].op, rows[i], call[p].patch, i)
      <3>1. PICK n \in 1..Len(call[p].ids) : call[p].ids[n] = i
        BY <1>1, <2>2, TouchedTypes
      <3>2. /\ rows[i] \in Row /\ call[p].patch \in Patch
            /\ rows[i].key \in {i, Nil} \cup given /\ call[p].op # "register"
        BY <1>1 DEF Frames, Keys, Own
      <3>3. CASE call[p].op = "create"
        <4>1. rows'[i].key = i
          BY <2>2, <3>2, <3>3, WrittenTypes
        <4>2. i \in objects \cup Loose
          BY <1>1, <3>1, <3>3 DEF Own
        <4>3. QED BY <4>1, <4>2 DEF Loose
      <3>4. CASE call[p].op # "create"
        <4>1. call[p].op \notin {"create", "register"}
          BY <3>2, <3>4
        <4>2. /\ rows[i].life = "new" => rows'[i].life = "new"
              /\ \/ rows'[i].key = rows[i].key
                 \/ call[p].patch.key # Nil /\ rows'[i].key = Given(call[p].patch.key)
          BY <2>2, <3>2, <4>1, WrittenTypes
        <4>3. rows'[i].key = rows[i].key \/ rows'[i].key \in {i} \cup given
          <5>1. Told(call[p])
            BY <1>1, <3>4 DEF Own
          <5>2. CASE call[p].patch.key # Nil /\ rows'[i].key = Given(call[p].patch.key)
            BY <3>1, <5>1, <5>2 DEF Told
          <5>3. QED BY <4>2, <5>2
        <4>4. rows'[i].life = "new" => rows'[i].key = rows[i].key
          BY <2>2, <3>2, WrittenTypes
        <4>5. /\ rows'[i].key \in {i, Nil} \cup given
              /\ rows'[i].life # "new" => rows'[i].key \in {i} \cup given
          BY <1>1, <4>2, <4>3, <4>4 DEF Keys
        <4>6. rows'[i].life # "new" => i \in objects \cup Loose
          BY <1>1, <4>2 DEF Filed
        <4>7. QED BY <4>5, <4>6
      <3>5. QED BY <3>3, <3>4
    <2>3. QED BY <2>1, <2>2, WriteTypes
  <1>3. ASSUME NEW i \in Id, cache'[i] # Nil PROVE cache'[i].vals[i].key = Nil
    <2>1. i \in Key /\ cache[i] # Nil /\ cache'[i] = Outdated(cache[i], rows')
      BY <1>3, WriteTypes DEF Key
    <2>2. cache[i] \in Values
      BY <2>1, ValueNumbers
    <2>3. Outdated(cache[i], rows').vals = cache[i].vals
      BY <2>2, ValueTypes
    <2>4. QED BY <1>1, <2>1, <2>3 DEF Keys
  <1>4. ASSUME NEW q \in Worker \ {p}
        PROVE  /\ Own(q)'
               /\ pc'[q] = "put" /\ call'[q].key \in Id =>
                     call'[q].value.vals[call'[q].key].key = Nil
    <2>1. CASE pc[q] = "put"
      <3>1. PICK v : v = Outdated(call[q].value, rows')
        OBVIOUS
      <3>2. pc'[q] = pc[q] /\ call'[q] = [call[q] EXCEPT !.value = v]
        BY <2>1, <3>1, WriteTypes
      <3>3. call[q] \in Frames /\ v.vals = call[q].value.vals
        BY <2>1, <3>1, ValueNumbers, ValueTypes
      <3>4. call'[q].key = call[q].key /\ call'[q].value = v
        BY <3>2, <3>3 DEF Frames
      <3>5. Own(q)'
        BY <1>1, <2>1, <3>2, OwnStays
      <3>6. QED BY <1>1, <2>1, <3>3, <3>4, <3>5 DEF Keys
    <2>2. CASE pc[q] # "put"
      <3>1. pc'[q] = pc[q] /\ call'[q] = call[q]
        BY <2>2, WriteTypes
      <3>2. QED BY <1>1, <2>2, <3>1, OwnStays
    <2>3. QED BY <2>1, <2>2
  <1>5. Own(p)' /\ pc'[p] # "put"
    <2>1. CASE pc'[p] = "idle"
      BY <2>1 DEF Own, Reading
    <2>2. CASE /\ pc'[p] \in {"write", "read", "dropId"} /\ call'[p].op = call[p].op
               /\ pc'[p] = "write" => call[p].op # "create"
               /\ call'[p].ids = call[p].ids
               /\ call'[p].patch = call[p].patch \/ call'[p].patch.key = Nil
      <3>1. pc'[p] = "write" => Told(call[p])'
        BY <1>1, <2>2 DEF Own, Told
      <3>2. QED BY <1>1, <2>2, <3>1 DEF Own, Reading
    <2>3. QED BY <2>1, <2>2, WriteTypes
  <1>6. Keys' /\ Filed'
    BY <1>1, <1>2, <1>3, <1>4, <1>5 DEF Keys, Filed, Loose
  <1>7. QED BY <1>4, <1>5, <1>6 DEF Backed

\* A step that only takes keys from the cache or changes what is waiting.
LEMMA LostBacked ==
  ASSUME Sound, Types, Backed, UNCHANGED <<kind, rows, objects, asked, given>>,
         \A k \in Key : cache'[k] # Nil => cache[k] # Nil /\ cache'[k].vals = cache[k].vals,
         NEW P,
         \A q \in P : Own(q)' /\ pc'[q] # "put",
         \A q \in Worker \ P :
            /\ pc'[q] = pc[q]
            /\ \/ call'[q] = call[q]
               \/ /\ pc[q] = "put"
                  /\ \E v \in Values : /\ v.vals = call[q].value.vals
                                       /\ call'[q] = [call[q] EXCEPT !.value = v]
  PROVE  Backed'
  <1> SUFFICES ASSUME kind = "media" PROVE Backed'
    BY DEF Backed
  <1>1. Kept /\ Keys /\ (\A q \in Worker : Own(q)) /\ Filed
    BY DEF Backed, Kept, Loose
  <1>2. \A q \in Worker : Own(q)'
    BY <1>1, OwnStays
  <1>3. ASSUME NEW q \in Worker, pc'[q] = "put", call'[q].key \in Id
        PROVE  call'[q].value.vals[call'[q].key].key = Nil
    <2>1. q \in Worker \ P /\ pc[q] = "put" /\ call[q] \in Frames
      BY <1>3, ValueNumbers
    <2>2. call'[q].key = call[q].key /\ call'[q].value.vals = call[q].value.vals
      <3>1. CASE call'[q] = call[q]
        BY <3>1
      <3>2. CASE \E v \in Values : /\ v.vals = call[q].value.vals
                                   /\ call'[q] = [call[q] EXCEPT !.value = v]
        BY <2>1, <3>2 DEF Frames
      <3>3. QED BY <2>1, <3>1, <3>2
    <2>3. QED BY <1>1, <1>3, <2>1, <2>2 DEF Keys
  <1>4. \A i \in Id : cache'[i] # Nil => cache'[i].vals[i].key = Nil
    BY <1>1 DEF Keys, Key
  <1>5. QED BY <1>1, <1>2, <1>3, <1>4 DEF Backed, Keys, Filed, Loose

\* A deletion of a key.
LEMMA DropBacked ==
  ASSUME Sound, Types, Backed, NEW p \in Worker, Drop(p), UNCHANGED media PROVE Backed'
  <1>1. UNCHANGED <<kind, rows, objects, asked, given>>
    BY DropTypes DEF media
  <1>2. \A k \in Key : cache'[k] # Nil => cache[k] # Nil /\ cache'[k].vals = cache[k].vals
    BY DropTypes
  <1>3. ASSUME NEW q \in Worker \ {p}
        PROVE  /\ pc'[q] = pc[q]
               /\ \/ call'[q] = call[q]
                  \/ /\ pc[q] = "put"
                     /\ \E v \in Values : /\ v.vals = call[q].value.vals
                                          /\ call'[q] = [call[q] EXCEPT !.value = v]
    <2>1. pc'[q] = pc[q]
      BY DropTypes
    <2>2. \/ call'[q] = call[q]
          \/ pc[q] = "put" /\ call'[q] = [call[q] EXCEPT !.value =
                                             [call[q].value EXCEPT !.overlap = TRUE]]
      BY DropTypes
    <2>3. pc[q] = "put" => /\ [call[q].value EXCEPT !.overlap = TRUE] \in Values
                           /\ [call[q].value EXCEPT !.overlap = TRUE].vals = call[q].value.vals
      BY ValueNumbers, ValueTypes
    <2>4. QED BY <2>1, <2>2, <2>3
  <1>4. kind = "media" => Own(p)' /\ pc'[p] # "put"
    <2>1. pc[p] \in {"dropId", "dropList", "dropBatch"}
      BY DropTypes
    <2>2. CASE pc'[p] = "idle"
      BY <2>2 DEF Own, Reading
    <2>3. CASE pc'[p] \in Dropping /\ call'[p].op = call[p].op
      BY <2>1, <2>3 DEF Own, Reading, Dropping, Backed
    <2>4. CASE pc'[p] = AfterDrop(pc[p]) /\ AfterDrop(pc[p]) # Nil /\ call'[p] = call[p]
      <3>1. pc'[p] \in Dropping
        BY <2>1, <2>4 DEF AfterDrop, Dropping
      <3>2. QED BY <2>3, <2>4, <3>1
    <2>5. QED BY <2>2, <2>3, <2>4, DropTypes DEF Dropping
  <1>5. CASE kind = "media"
    <2>1. PICK P : P = {p}
      OBVIOUS
    <2>2. \A q \in P : Own(q)' /\ pc'[q] # "put"
      BY <1>4, <1>5, <2>1
    <2>3. QED BY <1>1, <1>2, <1>3, <2>1, <2>2, LostBacked
  <1>6. QED BY <1>1, <1>5 DEF Backed

\* Time, and a flush.
LEMMA TimeBacked ==
  ASSUME Sound, Types, Backed, Tick \/ Flush, UNCHANGED media PROVE Backed'
  <1>1. UNCHANGED <<kind, rows, objects, asked, given, pc>>
    BY TickTypes DEF media, Flush
  <1>2. CASE Flush
    <2>1. call' = call /\ \A k \in Key : cache'[k] = Nil
      BY <1>2 DEF Flush
    <2>2. PICK P : P = {}
      OBVIOUS
    <2>3. QED BY <1>1, <2>1, <2>2, LostBacked
  <1>3. CASE Tick
    <2>1. ASSUME NEW k \in Key, cache'[k] # Nil
          PROVE  cache[k] # Nil /\ cache'[k].vals = cache[k].vals
      <3>1. cache[k] # Nil /\ ~(cache[k].left <= 1) /\ cache'[k] = Aged(cache[k])
        BY <1>3, <2>1, TickTypes
      <3>2. cache[k] \in Values /\ cache[k].left > 0
        BY <3>1, ValueNumbers
      <3>3. QED BY <3>1, <3>2, AgedTypes
    <2>2. ASSUME NEW q \in Worker, pc[q] = "put"
          PROVE  \E v \in Values : /\ v.vals = call[q].value.vals
                                   /\ call'[q] = [call[q] EXCEPT !.value = v]
      BY <1>3, <2>2, TickTypes, ValueNumbers, AgedTypes
    <2>3. \A q \in Worker : pc[q] # "put" => call'[q] = call[q]
      BY <1>3, TickTypes
    <2>4. PICK P : P = {}
      OBVIOUS
    <2>5. \A q \in Worker \ P :
             /\ pc'[q] = pc[q]
             /\ \/ call'[q] = call[q]
                \/ /\ pc[q] = "put"
                   /\ \E v \in Values : /\ v.vals = call[q].value.vals
                                        /\ call'[q] = [call[q] EXCEPT !.value = v]
      BY <1>1, <2>2, <2>3
    <2>6. \A q \in P : Own(q)' /\ pc'[q] # "put"
      BY <2>4
    <2>7. \A k \in Key : cache'[k] # Nil => cache[k] # Nil /\ cache'[k].vals = cache[k].vals
      BY <2>1
    <2>8. UNCHANGED <<kind, rows, objects, asked, given>>
      BY <1>1
    <2>9. QED BY <2>5, <2>6, <2>7, <2>8, LostBacked
  <1>4. QED BY <1>2, <1>3

\* Every step keeps a request its objects.
LEMMA NextBacked ==
  ASSUME Sound, Types, Types', Backed, [MediaNext]_mediaVars PROVE Backed'
  <1>1. ASSUME NEW p \in Worker,
               Quiet(p) \/ (UNCHANGED media /\ (Load(p) \/ Put(p) \/ Write(p) \/ Drop(p)))
        PROVE  Backed'
    BY <1>1, QuietBacked, LoadBacked, PutBacked, WriteBacked, DropBacked
  <1>2. CASE UNCHANGED mediaVars
    <2>1. UNCHANGED <<kind, rows, cache, pc, call, objects, asked, given>>
      BY <1>2 DEF mediaVars, vars, store, media
    <2>2. QED BY <2>1 DEF Backed, Keys, Own, Filed, Told, Loose
  <1>3. QED BY <1>1, <1>2, TimeBacked, NextSteps

\* Whatever of an upload, an insert or a deletion fails, and however requests
\* for the same medium overlap, the file that a row names is there, unless an
\* update was asked to give its name, or none, to another row, or the row's own
\* deletion went to R2.
THEOREM MediaUploadBacked == ASSUME Sound PROVE Spec => []UploadBacked
  <1>1. MediaInit => Types /\ Backed
    <2>1. ASSUME MediaInit PROVE Backed
      <3>1. /\ \A i \in Id : rows[i].key \in {i, Nil}
            /\ \A i \in Id : rows[i].life # "new" /\ kind = "media" => rows[i].key # Nil
            /\ \A k \in Key : cache[k] = Nil
            /\ \A p \in Worker : pc[p] = "idle"
            /\ objects = {i \in Id : rows[i].key # Nil}
        BY <2>1, InitTypes DEF MediaInit
      <3>2. \A i \in Id : cache[i] = Nil
        BY <3>1 DEF Key
      <3>3. QED BY <3>1, <3>2 DEF Backed, Keys, Own, Filed, Reading
    <2>2. QED BY <2>1, InitTypes DEF MediaInit
  <1>2. Types /\ Backed /\ [MediaNext]_mediaVars => (Types /\ Backed)'
    BY NextTypes, NextBacked
  <1>3. Backed => UploadBacked
    <2>1. ASSUME Backed, kind = "media", NEW i \in Id, rows[i].life # "new",
                 rows[i].key \notin given, i \notin asked
          PROVE  rows[i].key \in objects
      BY <2>1 DEF Backed, Keys, Filed, Loose
    <2>2. QED BY <2>1 DEF UploadBacked
  <1>4. QED BY <1>1, <1>2, <1>3, PTL DEF Spec

-----------------------------------------------------------------------------
(* The pages of a list.                                                    *)

Cursors == [signed: BOOLEAN, order: {"ASC", "DESC"}, value: Nat \cup {Undefined}, id: RowId]

\* What is asked of the constants: a table is finite, and undefined is neither
\* a number nor a cursor.
PagesSound ==
    /\ Pages!PagesOK /\ IsFiniteSet(RowId)
    /\ Undefined \notin Nat /\ Undefined \notin Cursors

PageTypes ==
    /\ query \in Pages!Query
    /\ table \in [RowId -> SortValue \cup {Undefined}]
    /\ cursor \in Cursors \cup {Undefined}
    /\ page \in Nat /\ changes \in Nat
    /\ walk \in {"walking", "done", "failed"}
    /\ seen \in Seq(RowId)
    /\ steady \subseteq RowId /\ \A i \in steady : table[i] # Undefined

\* A page is cut off the front, after what the pages before it had.
LEMMA TakeFacts ==
  ASSUME NEW S, NEW s \in Seq(S), NEW n \in Nat
  PROVE  /\ Pages!Take(s, n) \in Seq(S)
         /\ Len(Pages!Take(s, n)) = IF Len(s) < n THEN Len(s) ELSE n
         /\ \A k \in 1..Len(Pages!Take(s, n)) : Pages!Take(s, n)[k] = s[k]
  <1> DEFINE l == IF Len(s) < n THEN Len(s) ELSE n
  <1>1. Len(s) \in Nat /\ l \in Nat /\ l <= Len(s)
    BY LenProperties
  <1>2. \A i \in 1..l : s[i] \in S
    BY <1>1, ElementOfSeq
  <1>3. Pages!Take(s, n) = SubSeq(s, 1, l)
    BY DEF Pages!Take
  <1> HIDE DEF l
  <1>4. /\ SubSeq(s, 1, l) \in Seq(S)
        /\ Len(SubSeq(s, 1, l)) = IF 1 <= l THEN l - 1 + 1 ELSE 0
        /\ \A i \in 1..(l - 1 + 1) : SubSeq(s, 1, l)[i] = s[1 + i - 1]
    BY <1>1, <1>2, SubSeqProperties
  <1>5. Len(SubSeq(s, 1, l)) = l /\ \A i \in 1..l : SubSeq(s, 1, l)[i] = s[i]
    BY <1>1, <1>4
  <1>6. QED BY <1>3, <1>4, <1>5 DEF l

LEMMA SkipFacts ==
  ASSUME NEW S, NEW s \in Seq(S), NEW n \in Nat
  PROVE  /\ Pages!Skip(s, n) \in Seq(S)
         /\ Len(Pages!Skip(s, n)) = IF n < Len(s) THEN Len(s) - n ELSE 0
         /\ \A k \in 1..Len(Pages!Skip(s, n)) : Pages!Skip(s, n)[k] = s[n + k]
  <1>1. Len(s) \in Nat
    BY LenProperties
  <1>2. \A i \in (n + 1)..Len(s) : s[i] \in S
    BY <1>1, ElementOfSeq
  <1>3. Pages!Skip(s, n) = SubSeq(s, n + 1, Len(s))
    BY DEF Pages!Skip
  <1>4. /\ SubSeq(s, n + 1, Len(s)) \in Seq(S)
        /\ Len(SubSeq(s, n + 1, Len(s))) = IF n + 1 <= Len(s) THEN Len(s) - (n + 1) + 1 ELSE 0
        /\ \A i \in 1..(Len(s) - (n + 1) + 1) :
              SubSeq(s, n + 1, Len(s))[i] = s[n + 1 + i - 1]
    BY <1>1, <1>2, SubSeqProperties
  <1>5. QED BY <1>1, <1>3, <1>4

\* The order of the list is a strict order of the rows that are there.
Present(S) == \A i \in S : i \in RowId /\ table[i] # Undefined

LEMMA BeforeFacts ==
  ASSUME PagesSound, PageTypes, NEW o \in {"ASC", "DESC"}, NEW S \in SUBSET RowId, Present(S)
  PROVE  /\ \A i, j \in S : i # j => Pages!Before(o, i, j) \/ Pages!Before(o, j, i)
         /\ \A i, j \in S : ~(Pages!Before(o, i, j) /\ Pages!Before(o, j, i))
         /\ \A i, j, k \in S :
               Pages!Before(o, i, j) /\ Pages!Before(o, j, k) => Pages!Before(o, i, k)
  <1>1. \A i \in S : i \in Nat /\ table[i] \in Nat
    BY DEF PagesSound, Pages!PagesOK, PageTypes, Present
  <1>2. QED BY <1>1 DEF Pages!Before

\* The pages count as everybody does.
LEMMA SameCount == ASSUME NEW S PROVE Pages!Cardinality(S) = Cardinality(S)
  BY DEF Pages!Cardinality, Cardinality

\* An answer has every row of S once, in the list's order.
LEMMA AnswerFacts ==
  ASSUME PagesSound, NEW S \in SUBSET RowId, NEW o, NEW s \in Pages!Answers(o, S)
  PROVE  /\ Cardinality(S) \in Nat /\ Len(s) = Cardinality(S) /\ s \in Seq(S)
         /\ \A m, n \in 1..Len(s) : m # n => s[m] # s[n]
  <1> DEFINE c == Cardinality(S)
  <1>1. IsFiniteSet(S) /\ c \in Nat
    BY FS_Subset, FS_CardinalityType DEF PagesSound
  <1>2. s \in [1..c -> S] /\ \A m, n \in 1..c : m # n => s[m] # s[n]
    <2>1. Pages!SetToSeqs(S) = {f \in [1..c -> S] : \A m, n \in 1..c : m # n => f[m] # f[n]}
      BY SameCount DEF Pages!SetToSeqs
    <2>2. s \in Pages!SetToSeqs(S)
      BY Zenon DEF Pages!Answers
    <2>3. QED BY <2>1, <2>2
  <1>3. s \in Seq(S) /\ Len(s) = c
    BY <1>1, <1>2, SeqDef, LenProperties
  <1>4. QED BY <1>1, <1>2, <1>3

LEMMA AnswerHasAll ==
  ASSUME PagesSound, NEW S \in SUBSET RowId, NEW o, NEW s \in Pages!Answers(o, S), NEW i \in S
  PROVE  \E n \in 1..Len(s) : s[n] = i
  <1>1. IsFiniteSet(S)
    BY FS_Subset DEF PagesSound
  <1>2. /\ Cardinality(S) \in Nat /\ Len(s) = Cardinality(S) /\ s \in Seq(S)
        /\ \A m, n \in 1..Len(s) : m # n => s[m] # s[n]
    BY AnswerFacts
  <1>3. PICK c \in Nat : c = Len(s) /\ c = Cardinality(S)
    BY <1>2
  <1>4. s \in [1..c -> S]
    BY <1>2, <1>3, LenProperties
  <1>5. s \in Injection(1..c, S)
    BY <1>2, <1>3, <1>4 DEF Injection, IsInjective
  <1>6. Cardinality(1..c) = c
    BY FS_Interval
  <1>7. s \in Surjection(1..c, S)
    BY <1>1, <1>3, <1>5, <1>6, FS_Injection
  <1>8. QED BY <1>3, <1>7 DEF Surjection

LEMMA AnswerOrdered ==
  ASSUME PagesSound, NEW S \in SUBSET RowId, NEW o, NEW s \in Pages!Answers(o, S),
         NEW m \in 1..Len(s), NEW n \in 1..Len(s), m < n
  PROVE  ~Pages!Before(o, s[n], s[m])
  <1>1. \A i, j \in DOMAIN s : i < j => ~Pages!Before(o, s[j], s[i])
    BY Zenon DEF Pages!Answers
  <1>2. DOMAIN s = 1..Len(s)
    BY AnswerFacts, LenProperties
  <1>3. QED BY <1>1, <1>2

-----------------------------------------------------------------------------
(* Cursors.                                                                *)

\* The walks whose cursors carry a place in the order: all of it, or, for a
\* timestamp, one that is not before it.
Placed ==
    /\ query.mode = "cursor"
    /\ query.column = "plain" \/ (query.column = "timestamp" /\ query.order = "DESC")

\* What the cursors of such a walk are.
Place(c) == /\ c \in Cursors /\ c.signed = TRUE /\ c.order = query.order /\ c.value \in Nat

\* Milliseconds are cut off downwards.
LEMMA CutDown == ASSUME NEW v \in Nat, NEW p \in Nat \ {0} PROVE (v \div p) * p \in Nat /\ (v \div p) * p <= v
  OBVIOUS

\* The cursor of row l is the row's place, or one after it.
LEMMA EncodeFacts ==
  ASSUME PagesSound, PageTypes, Placed, NEW l \in RowId, table[l] # Undefined,
         NEW c, c = Pages!Encode(l, query.order)
  PROVE  /\ Place(c) /\ c.id = l
         /\ c.value <= table[l]
         /\ query.column = "plain" => c.value = table[l]
  <1>1. table[l] \in Nat /\ PerMs \in Nat \ {0}
    BY DEF PageTypes, PagesSound, Pages!PagesOK
  <1>2. PICK v \in Nat : /\ v = Pages!Carried(table[l]) /\ v <= table[l]
                         /\ query.column = "plain" => v = table[l]
    <2>1. CASE query.column = "plain"
      BY <1>1, <2>1 DEF Pages!Carried
    <2>2. CASE query.column = "timestamp"
      BY <1>1, <2>2, CutDown DEF Pages!Carried
    <2>3. QED BY <2>1, <2>2 DEF Placed
  <1>3. c = [signed |-> TRUE, order |-> query.order, value |-> v, id |-> l]
    BY <1>2 DEF Pages!Encode, Placed
  <1>4. query.order \in {"ASC", "DESC"}
    BY DEF PageTypes, Pages!Query
  <1>5. QED BY <1>2, <1>3, <1>4 DEF Place, Cursors

\* Rows that are not after row l in the list are not after its cursor; the
\* others are, if the cursor carries all of the place.
LEMMA EncodeBeyond ==
  ASSUME PagesSound, PageTypes, Placed, NEW l \in RowId, table[l] # Undefined,
         NEW c, c = Pages!Encode(l, query.order), NEW x \in RowId, table[x] # Undefined
  PROVE  /\ ~Pages!Before(query.order, l, x) => ~Pages!Beyond(c, x)
         /\ query.column = "plain" /\ Pages!Before(query.order, l, x) => Pages!Beyond(c, x)
  <1>1. /\ c.order = query.order /\ c.value \in Nat /\ c.id = l /\ c.value <= table[l]
        /\ query.column = "plain" => c.value = table[l]
    BY EncodeFacts DEF Place
  <1>2. table[l] \in Nat /\ table[x] \in Nat /\ l \in Nat /\ x \in Nat
    BY DEF PageTypes, PagesSound, Pages!PagesOK
  <1>3. query.order \in {"ASC", "DESC"}
    BY DEF PageTypes, Pages!Query
  <1>4. CASE query.order = "ASC"
    <2>1. c.value = table[l]
      BY <1>1, <1>4 DEF Placed
    <2>2. QED BY <1>1, <1>2, <1>4, <2>1 DEF Pages!Before, Pages!Beyond
  <1>5. CASE query.order = "DESC"
    BY <1>1, <1>2, <1>5 DEF Pages!Before, Pages!Beyond
  <1>6. QED BY <1>3, <1>4, <1>5

\* What is not after a place is not after a row that is.
LEMMA BeyondBefore ==
  ASSUME PagesSound, PageTypes, NEW c, Place(c), NEW l \in RowId, table[l] # Undefined,
         NEW x \in RowId, table[x] # Undefined, Pages!Beyond(c, l), ~Pages!Beyond(c, x)
  PROVE  ~Pages!Before(query.order, l, x)
  <1>1. /\ c.order = query.order /\ c.value \in Nat /\ c.id \in Nat
        /\ table[l] \in Nat /\ table[x] \in Nat /\ l \in Nat /\ x \in Nat
    BY DEF PageTypes, PagesSound, Pages!PagesOK, Place, Cursors
  <1>2. query.order \in {"ASC", "DESC"}
    BY DEF PageTypes, Pages!Query
  <1>3. QED BY <1>1, <1>2 DEF Pages!Before, Pages!Beyond

-----------------------------------------------------------------------------
(* Walks by cursor.                                                        *)

Answered(i) == \E m \in 1..Len(seen) : seen[m] = i

\* The cursor is a place; before there is one, nothing was answered.
CursorPlaced ==
    /\ cursor # Undefined => Place(cursor)
    /\ walk = "walking" /\ cursor = Undefined => seen = << >>

\* A steady row was answered once.
AnsweredOnce ==
    \A m, n \in 1..Len(seen) : seen[m] \in steady /\ seen[m] = seen[n] => m = n

\* The steady rows that were answered are not after the cursor.
AnsweredBehind ==
    walk = "walking" /\ cursor # Undefined =>
       \A m \in 1..Len(seen) : seen[m] \in steady => ~Pages!Beyond(cursor, seen[m])

\* The cursor, or the end, has passed row i.
Passed(i) ==
    \/ walk = "walking" /\ cursor # Undefined /\ ~Pages!Beyond(cursor, i)
    \/ walk = "done"

\* The steady rows of the list that were passed were answered.
PassedAnswered ==
    query.column = "plain" =>
       \A i \in steady \cap Pages!Matching : Passed(i) => Answered(i)

Walked == Placed => CursorPlaced /\ AnsweredOnce /\ AnsweredBehind /\ PassedAnswered

\* What the rows of S, read after the cursor, add to the answers of a walk.
LEMMA PageRead ==
  ASSUME PagesSound, PageTypes, NEW S \in SUBSET RowId, NEW o,
         NEW s \in Pages!Answers(o, S), seen' = seen \o Pages!Take(s, query.limit)
  PROVE  \E n \in Nat :
            /\ n <= Len(s) /\ n <= query.limit /\ Len(s) \in Nat /\ Len(seen) \in Nat
            /\ n = Len(s) \/ n = query.limit
            /\ Len(Pages!Take(s, query.limit)) = n
            /\ \A k \in 1..n : Pages!Take(s, query.limit)[k] = s[k]
            /\ seen' \in Seq(RowId) /\ Len(seen') = Len(seen) + n
            /\ \A m \in 1..Len(seen) : seen'[m] = seen[m]
            /\ \A k \in 1..n : seen'[Len(seen) + k] = s[k]
            /\ S # {} => n > 0
            /\ S = {} => n = 0
  <1>1. query.limit \in Nat /\ query.limit > 0
    BY DEF PageTypes, Pages!Query
  <1>2. /\ s \in Seq(S) /\ Len(s) = Cardinality(S) /\ Cardinality(S) \in Nat
    BY AnswerFacts
  <1>3. PICK t : t = Pages!Take(s, query.limit)
    OBVIOUS
  <1>4. /\ t \in Seq(S) /\ Len(t) = IF Len(s) < query.limit THEN Len(s) ELSE query.limit
        /\ \A k \in 1..Len(t) : t[k] = s[k]
    BY <1>1, <1>2, <1>3, TakeFacts
  <1>5. t \in Seq(RowId) /\ seen \in Seq(RowId) /\ Len(seen) \in Nat
    BY <1>4, SeqMonotonic, LenProperties DEF PageTypes
  <1>6. /\ seen \o t \in Seq(RowId) /\ Len(seen \o t) = Len(seen) + Len(t)
        /\ \A i \in 1..Len(seen) + Len(t) :
              (seen \o t)[i] = IF i <= Len(seen) THEN seen[i] ELSE t[i - Len(seen)]
    BY <1>5, ConcatProperties
  <1>7. seen' = seen \o t
    BY <1>3
  <1>8. S = {} => Cardinality(S) = 0
    BY FS_EmptySet
  <1>9. S # {} => Len(s) > 0
    <2>1. SUFFICES ASSUME NEW i \in S PROVE Len(s) > 0
      OBVIOUS
    <2>2. PICK k \in 1..Len(s) : s[k] = i
      BY AnswerHasAll
    <2>3. QED BY <1>2, <2>2
  <1>10. PICK n \in Nat : n = Len(t)
    BY <1>1, <1>2, <1>4
  <1>11. /\ n <= Len(s) /\ n <= query.limit /\ Len(s) \in Nat
         /\ n = Len(s) \/ n = query.limit
         /\ (S # {} => n > 0) /\ (S = {} => n = 0)
    BY <1>1, <1>2, <1>4, <1>8, <1>9, <1>10
  <1>12. \A k \in 1..n : t[k] = s[k]
    BY <1>4, <1>10
  <1>13. \A m \in 1..Len(seen) : seen'[m] = seen[m]
    BY <1>5, <1>6, <1>7, <1>10
  <1>14. \A k \in 1..n : seen'[Len(seen) + k] = s[k]
    <2>1. TAKE k \in 1..n
    <2>2. Len(seen) + k \in 1..(Len(seen) + Len(t)) /\ ~(Len(seen) + k <= Len(seen))
          /\ Len(seen) + k - Len(seen) = k
      BY <1>5, <1>10
    <2>3. QED BY <1>6, <1>7, <1>12, <2>2
  <1>15. seen' \in Seq(RowId) /\ Len(seen') = Len(seen) + n
    BY <1>6, <1>7, <1>10
  <1>16. QED BY <1>3, <1>5, <1>10, <1>11, <1>12, <1>13, <1>14, <1>15

\* Rows that match are there.
LEMMA MatchingThere ==
  ASSUME PageTypes PROVE Pages!Matching \in SUBSET RowId /\ Present(Pages!Matching)
  BY DEF Pages!Matching, Present

-----------------------------------------------------------------------------
(* The steps of a walk, as the proofs use them.                            *)

\* The rows that a page by cursor is read from.
Ahead == IF Pages!Bounds(cursor) THEN {i \in Pages!Matching : Pages!Beyond(cursor, i)}
                                 ELSE Pages!Matching

LEMMA AheadThere == ASSUME PageTypes PROVE Ahead \in SUBSET RowId /\ Present(Ahead)
  BY MatchingThere DEF Ahead, Present

\* What a page by cursor does: the rows it appends, the cursor of the last.
LEMMA CursorPageDoes ==
  ASSUME PagesSound, PageTypes, Pages!CursorPage
  PROVE  \E s \in Pages!Answers(Pages!OrderOf(cursor), Ahead), n \in Nat :
            /\ n <= Len(s) /\ n <= query.limit /\ Len(s) \in Nat /\ Len(seen) \in Nat
            /\ n = Len(s) \/ n = query.limit
            /\ seen' \in Seq(RowId) /\ Len(seen') = Len(seen) + n
            /\ \A m \in 1..Len(seen) : seen'[m] = seen[m]
            /\ \A k \in 1..n : seen'[Len(seen) + k] = s[k]
            /\ Ahead = {} => n = 0 /\ cursor' = Undefined /\ walk' = "done"
            /\ Ahead # {} => /\ n > 0 /\ walk' = "walking"
                             /\ cursor' = Pages!Encode(s[n], Pages!OrderOf(cursor))
  <1>1. PICK o : o = Pages!OrderOf(cursor)
    OBVIOUS
  <1>2. PICK S : S = Ahead
    OBVIOUS
  <1>3. PICK s \in Pages!Answers(o, S) :
           /\ seen' = seen \o Pages!Take(s, query.limit)
           /\ cursor' = IF S = {} THEN Undefined
                        ELSE Pages!Encode(Pages!Last(Pages!Take(s, query.limit)), o)
           /\ walk' = IF S = {} THEN "done" ELSE "walking"
    BY <1>1, <1>2, Zenon DEF Pages!CursorPage, Ahead
  <1>4. S \in SUBSET RowId
    BY <1>2, AheadThere
  <1>5. PICK n \in Nat :
            /\ n <= Len(s) /\ n <= query.limit /\ Len(s) \in Nat /\ Len(seen) \in Nat
            /\ n = Len(s) \/ n = query.limit
            /\ Len(Pages!Take(s, query.limit)) = n
            /\ \A k \in 1..n : Pages!Take(s, query.limit)[k] = s[k]
            /\ seen' \in Seq(RowId) /\ Len(seen') = Len(seen) + n
            /\ \A m \in 1..Len(seen) : seen'[m] = seen[m]
            /\ \A k \in 1..n : seen'[Len(seen) + k] = s[k]
            /\ S # {} => n > 0
            /\ S = {} => n = 0
    BY <1>3, <1>4, PageRead
  <1>6. n > 0 => Pages!Last(Pages!Take(s, query.limit)) = s[n]
    BY <1>5 DEF Pages!Last
  <1>7. S # {} => /\ n > 0 /\ walk' = "walking"
                  /\ cursor' = Pages!Encode(s[n], o)
    BY <1>3, <1>5, <1>6
  <1>8. S = {} => n = 0 /\ cursor' = Undefined /\ walk' = "done"
    BY <1>3, <1>5
  <1>9. QED BY <1>1, <1>2, <1>3, <1>5, <1>7, <1>8

LEMMA OrderType ==
  ASSUME PageTypes PROVE Pages!OrderOf(cursor) \in {"ASC", "DESC"}
  <1>1. cursor # Undefined => cursor.order \in {"ASC", "DESC"}
    BY DEF PageTypes, Cursors
  <1>2. query.order \in {"ASC", "DESC"}
    BY DEF PageTypes, Pages!Query
  <1>3. QED BY <1>1, <1>2 DEF Pages!OrderOf, Pages!Decode

LEMMA EncodeType ==
  ASSUME PagesSound, PageTypes, NEW l \in RowId, table[l] # Undefined,
         NEW o \in {"ASC", "DESC"}
  PROVE  Pages!Encode(l, o) \in Cursors
  <1>1. table[l] \in Nat /\ PerMs \in Nat \ {0}
    BY DEF PageTypes, PagesSound, Pages!PagesOK
  <1>2. PICK v \in Nat \cup {Undefined} : v = Pages!Carried(table[l])
    <2>1. query.column \in {"plain", "timestamp", "unselected"}
      BY DEF PageTypes, Pages!Query
    <2>2. CASE query.column = "plain"
      BY <1>1, <2>2 DEF Pages!Carried
    <2>3. CASE query.column = "timestamp"
      BY <1>1, <2>3, CutDown DEF Pages!Carried
    <2>4. CASE query.column = "unselected"
      BY <2>4 DEF Pages!Carried
    <2>5. QED BY <2>1, <2>2, <2>3, <2>4
  <1>3. PICK g \in BOOLEAN : g = (query.mode = "cursor")
    OBVIOUS
  <1>4. PICK w \in {"ASC", "DESC"} : w = IF query.mode = "cursor" THEN o ELSE "ASC"
    OBVIOUS
  <1>5. Pages!Encode(l, o) = [signed |-> g, order |-> w, value |-> v, id |-> l]
    BY <1>2, <1>3, <1>4, Zenon DEF Pages!Encode
  <1>6. QED BY <1>5 DEF Cursors

\* What an offset page does.
LEMMA OffsetPageDoes ==
  ASSUME PagesSound, PageTypes, Pages!OffsetPage
  PROVE  \E s \in Pages!Answers(query.order, Pages!Matching), n \in Nat :
            /\ Len(s) \in Nat /\ Len(seen) \in Nat /\ Len(s) = Cardinality(Pages!Matching)
            /\ n = IF page * query.limit >= Len(s) THEN 0
                   ELSE IF Len(s) - page * query.limit < query.limit
                        THEN Len(s) - page * query.limit ELSE query.limit
            /\ seen' \in Seq(RowId) /\ Len(seen') = Len(seen) + n
            /\ \A m \in 1..Len(seen) : seen'[m] = seen[m]
            /\ \A k \in 1..n : seen'[Len(seen) + k] = s[page * query.limit + k]
            /\ walk' = IF (page + 1) * query.limit >= Len(s) THEN "done" ELSE "walking"
            /\ cursor' = cursor
  <1>1. query.limit \in Nat /\ query.limit > 0 /\ page \in Nat /\ page * query.limit \in Nat
    BY DEF PageTypes, Pages!Query
  <1>2. PICK s \in Pages!Answers(query.order, Pages!Matching) :
           seen' = seen \o Pages!Take(Pages!Skip(s, page * query.limit), query.limit)
    BY DEF Pages!OffsetPage
  <1>3. /\ s \in Seq(Pages!Matching) /\ Len(s) = Cardinality(Pages!Matching)
        /\ Cardinality(Pages!Matching) \in Nat
    BY MatchingThere, AnswerFacts
  <1>4. PICK q : q = Pages!Skip(s, page * query.limit)
    OBVIOUS
  <1>5. /\ q \in Seq(Pages!Matching)
        /\ Len(q) = IF page * query.limit < Len(s) THEN Len(s) - page * query.limit ELSE 0
        /\ \A k \in 1..Len(q) : q[k] = s[page * query.limit + k]
    BY <1>1, <1>3, <1>4, SkipFacts
  <1>6. PICK t : t = Pages!Take(q, query.limit)
    OBVIOUS
  <1>7. /\ t \in Seq(Pages!Matching)
        /\ Len(t) = IF Len(q) < query.limit THEN Len(q) ELSE query.limit
        /\ \A k \in 1..Len(t) : t[k] = q[k]
    BY <1>1, <1>5, <1>6, TakeFacts
  <1>8. t \in Seq(RowId) /\ seen \in Seq(RowId) /\ Len(seen) \in Nat
    BY <1>7, SeqMonotonic, MatchingThere, LenProperties DEF PageTypes
  <1>9. /\ seen \o t \in Seq(RowId) /\ Len(seen \o t) = Len(seen) + Len(t)
        /\ \A i \in 1..Len(seen) + Len(t) :
              (seen \o t)[i] = IF i <= Len(seen) THEN seen[i] ELSE t[i - Len(seen)]
    BY <1>8, ConcatProperties
  <1>10. seen' = seen \o t
    BY <1>2, <1>4, <1>6
  <1>11. PICK n \in Nat : n = Len(t)
    BY <1>8, LenProperties
  <1>12. n = IF page * query.limit >= Len(s) THEN 0
             ELSE IF Len(s) - page * query.limit < query.limit
                  THEN Len(s) - page * query.limit ELSE query.limit
    BY <1>1, <1>3, <1>5, <1>7, <1>11
  <1>13. n <= Len(q) /\ Len(q) \in Nat
    BY <1>1, <1>3, <1>5, <1>7, <1>11
  <1>14. \A m \in 1..Len(seen) : seen'[m] = seen[m]
    BY <1>8, <1>9, <1>10, <1>11
  <1>15. ASSUME NEW k \in 1..n PROVE seen'[Len(seen) + k] = s[page * query.limit + k]
    <2>1. Len(seen) + k \in 1..(Len(seen) + Len(t)) /\ ~(Len(seen) + k <= Len(seen))
          /\ Len(seen) + k - Len(seen) = k
      BY <1>8, <1>11
    <2>2. seen'[Len(seen) + k] = t[k]
      BY <1>9, <1>10, <2>1
    <2>3. k \in 1..Len(t) /\ k \in 1..Len(q)
      BY <1>11, <1>13
    <2>4. QED BY <1>5, <1>7, <2>2, <2>3
  <1>16. walk' = IF (page + 1) * query.limit >= Len(s) THEN "done" ELSE "walking"
    BY <1>3, SameCount DEF Pages!OffsetPage
  <1>17. cursor' = cursor
    BY DEF Pages!OffsetPage
  <1>18. QED BY <1>3, <1>8, <1>9, <1>10, <1>11, <1>12, <1>14, <1>15, <1>16, <1>17

LEMMA PageTypesInit == ASSUME PagesSound, Pages!Init PROVE PageTypes
  BY EmptySeq DEF PagesSound, Pages!PagesOK, Pages!Init, PageTypes

LEMMA PageTypesStep ==
  ASSUME PagesSound, PageTypes, Pages!Next PROVE PageTypes'
  <1>1. CASE Pages!NextPage
    <2>1. /\ query' = query /\ table' = table /\ changes' = changes /\ steady' = steady
          /\ page' = page + 1
          /\ Pages!OffsetPage \/ Pages!CursorPage \/ Pages!CursorFails
      BY <1>1 DEF Pages!NextPage
    <2>2. /\ cursor' \in Cursors \cup {Undefined} /\ walk' \in {"walking", "done", "failed"}
          /\ seen' \in Seq(RowId)
      <3>1. CASE Pages!OffsetPage
        <4>1. seen' \in Seq(RowId) /\ walk' \in {"walking", "done", "failed"} /\ cursor' = cursor
          BY <3>1, OffsetPageDoes
        <4>2. QED BY <4>1 DEF PageTypes
      <3>2. CASE Pages!CursorPage
        <4>1. PICK s \in Pages!Answers(Pages!OrderOf(cursor), Ahead), n \in Nat :
                /\ n <= Len(s) /\ Len(s) \in Nat
                /\ seen' \in Seq(RowId)
                /\ Ahead = {} => n = 0 /\ cursor' = Undefined /\ walk' = "done"
                /\ Ahead # {} => /\ n > 0 /\ walk' = "walking"
                                 /\ cursor' = Pages!Encode(s[n], Pages!OrderOf(cursor))
          BY <3>2, CursorPageDoes
        <4>2. CASE Ahead = {}
          BY <4>1, <4>2
        <4>3. CASE Ahead # {}
          <5>1. s[n] \in Ahead
            <6>1. s \in Seq(Ahead)
              BY AnswerFacts, AheadThere
            <6>2. n \in 1..Len(s)
              BY <4>1, <4>3
            <6>3. QED BY <6>1, <6>2, ElementOfSeq
          <5>2. cursor' \in Cursors
            BY <4>1, <4>3, <5>1, AheadThere, OrderType, EncodeType DEF Present
          <5>3. QED BY <4>1, <4>3, <5>2
        <4>4. QED BY <4>2, <4>3
      <3>3. CASE Pages!CursorFails
        BY <3>3 DEF Pages!CursorFails, PageTypes
      <3>4. QED BY <2>1, <3>1, <3>2, <3>3
    <2>3. QED BY <2>1, <2>2 DEF PageTypes
  <1>2. ASSUME NEW i \in RowId, NEW v \in SortValue \cup {Undefined}, Pages!Change(i, v)
        PROVE  PageTypes'
    <2>1. /\ changes' = changes + 1 /\ table' = [table EXCEPT ![i] = v]
          /\ steady' = steady \ {i}
          /\ query' = query /\ cursor' = cursor /\ page' = page /\ walk' = walk /\ seen' = seen
      BY <1>2 DEF Pages!Change
    <2>2. \A j \in steady \ {i} : table'[j] = table[j]
      BY <2>1 DEF PageTypes
    <2>3. QED BY <2>1, <2>2 DEF PageTypes
  <1>3. QED BY <1>1, <1>2 DEF Pages!Next

-----------------------------------------------------------------------------
(* Every step of a placed walk keeps its invariant.                        *)

LEMMA PlacedCursor ==
  ASSUME PagesSound, PageTypes, Placed, CursorPlaced
  PROVE  /\ Pages!OrderOf(cursor) = query.order
         /\ Pages!Bounds(cursor) <=> cursor # Undefined
         /\ cursor # Undefined =>
               Place(cursor) /\ Ahead = {i \in Pages!Matching : Pages!Beyond(cursor, i)}
         /\ cursor = Undefined => Ahead = Pages!Matching
  <1>1. CASE cursor = Undefined
    BY <1>1 DEF Placed, Pages!OrderOf, Pages!Decode, Pages!Bounds, Ahead
  <1>2. CASE cursor # Undefined
    <2>1. Place(cursor) /\ Undefined \notin Nat
      BY <1>2 DEF CursorPlaced, PagesSound
    <2>2. Pages!Decode(cursor) = cursor
      BY <1>2, <2>1 DEF Pages!Decode, Place
    <2>3. Pages!Bounds(cursor) /\ Pages!OrderOf(cursor) = query.order
      BY <1>2, <2>1, <2>2 DEF Pages!Bounds, Pages!OrderOf, Place
    <2>4. QED BY <1>2, <2>1, <2>3 DEF Ahead
  <1>3. QED BY <1>1, <1>2

LEMMA WalkedInit == ASSUME Pages!Init PROVE Walked
  BY DEF Pages!Init, Walked, CursorPlaced, AnsweredOnce, AnsweredBehind, PassedAnswered,
         Passed

\* The last row of a page is behind its cursor, and so is all that was
\* answered; what is not was not answered.
LEMMA WalkedPage ==
  ASSUME PagesSound, PageTypes, Placed, CursorPlaced, AnsweredOnce, AnsweredBehind,
         PassedAnswered, walk = "walking", Pages!CursorPage, 
         query' = query, table' = table, steady' = steady
  PROVE  Walked'
  <1>1. PICK o \in {"ASC", "DESC"} : o = query.order
    BY DEF PageTypes, Pages!Query
  <1>2. PICK s \in Pages!Answers(o, Ahead), n \in Nat :
            /\ n <= Len(s) /\ Len(s) \in Nat /\ Len(seen) \in Nat
            /\ seen' \in Seq(RowId) /\ Len(seen') = Len(seen) + n
            /\ \A m \in 1..Len(seen) : seen'[m] = seen[m]
            /\ \A k \in 1..n : seen'[Len(seen) + k] = s[k]
            /\ Ahead = {} => n = 0 /\ cursor' = Undefined /\ walk' = "done"
            /\ Ahead # {} => n > 0 /\ walk' = "walking" /\ cursor' = Pages!Encode(s[n], o)
    BY <1>1, CursorPageDoes, PlacedCursor
  <1>3. Ahead \in SUBSET RowId /\ Present(Ahead)
    BY AheadThere
  <1>4. /\ \A k \in 1..Len(s) : s[k] \in Ahead
        /\ \A k, m \in 1..Len(s) : k # m => s[k] # s[m]
        /\ \A i \in Ahead : \E k \in 1..Len(s) : s[k] = i
        /\ \A k, m \in 1..Len(s) : k < m => ~Pages!Before(o, s[m], s[k])
    <2>1. s \in Seq(Ahead)
      BY <1>3, AnswerFacts
    <2>2. \A k \in 1..Len(s) : s[k] \in Ahead
      BY <2>1, ElementOfSeq
    <2>3. \A k, m \in 1..Len(s) : k # m => s[k] # s[m]
      BY <1>3, AnswerFacts
    <2>4. ASSUME NEW i \in Ahead PROVE \E k \in 1..Len(s) : s[k] = i
      <3>1. PagesSound /\ Ahead \in SUBSET RowId /\ s \in Pages!Answers(o, Ahead) /\ i \in Ahead
        BY <1>3, <2>4
      <3>2. QED BY <3>1, AnswerHasAll
    <2>5. ASSUME NEW k \in 1..Len(s), NEW m \in 1..Len(s), k < m
          PROVE  ~Pages!Before(o, s[m], s[k])
      BY <1>3, <2>5, AnswerOrdered
    <2>6. QED BY <2>2, <2>3, <2>4, <2>5
  <1>5. Pages!Matching' = Pages!Matching
    BY DEF Pages!Matching, Pages!Where, Pages!Selected, Pages!Filtered
  <1>6. ASSUME NEW m \in 1..Len(seen')
        PROVE  \/ m \in 1..Len(seen) /\ seen'[m] = seen[m]
               \/ m - Len(seen) \in 1..n /\ seen'[m] = s[m - Len(seen)]
                  /\ m - Len(seen) \in 1..Len(s)
    <2>1. CASE m <= Len(seen)
      BY <1>2, <2>1
    <2>2. CASE ~(m <= Len(seen))
      <3>1. m - Len(seen) \in 1..n /\ Len(seen) + (m - Len(seen)) = m
        BY <1>2, <2>2
      <3>2. QED BY <1>2, <3>1
    <2>3. QED BY <2>1, <2>2
  <1>7. ASSUME NEW m \in 1..Len(seen), NEW i \in Ahead, seen[m] \in steady
        PROVE  /\ seen[m] # i
               /\ cursor # Undefined /\ Place(cursor)
               /\ Pages!Beyond(cursor, i) /\ ~Pages!Beyond(cursor, seen[m])
    <2>1. cursor # Undefined
      BY <1>2, EmptySeq DEF CursorPlaced
    <2>2. Place(cursor) /\ Pages!Beyond(cursor, i)
      BY <2>1, PlacedCursor
    <2>3. ~Pages!Beyond(cursor, seen[m])
      BY <1>7, <2>1 DEF AnsweredBehind
    <2>4. QED BY <2>1, <2>2, <2>3
  <1>8. AnsweredOnce'
    <2>1. SUFFICES ASSUME NEW a \in 1..Len(seen'), NEW b \in 1..Len(seen'),
                          seen'[a] \in steady, seen'[a] = seen'[b]
                   PROVE  a = b
      BY DEF AnsweredOnce
    <2>2. CASE a \in 1..Len(seen) /\ seen'[a] = seen[a] /\ b \in 1..Len(seen) /\ seen'[b] = seen[b]
      BY <2>1, <2>2 DEF AnsweredOnce
    <2>3. CASE /\ a \in 1..Len(seen) /\ seen'[a] = seen[a]
               /\ b - Len(seen) \in 1..Len(s) /\ seen'[b] = s[b - Len(seen)]
      BY <1>4, <1>7, <2>1, <2>3
    <2>4. CASE /\ b \in 1..Len(seen) /\ seen'[b] = seen[b]
               /\ a - Len(seen) \in 1..Len(s) /\ seen'[a] = s[a - Len(seen)]
      BY <1>4, <1>7, <2>1, <2>4
    <2>5. CASE /\ a - Len(seen) \in 1..Len(s) /\ seen'[a] = s[a - Len(seen)]
               /\ b - Len(seen) \in 1..Len(s) /\ seen'[b] = s[b - Len(seen)]
      <3>1. a - Len(seen) = b - Len(seen)
        BY <1>4, <2>1, <2>5
      <3>2. a \in Int /\ b \in Int /\ Len(seen) \in Int
        BY <1>2
      <3>3. QED BY <3>1, <3>2
    <2>6. QED BY <1>6, <2>2, <2>3, <2>4, <2>5
  <1>9. CASE Ahead = {}
    <2>1. cursor' = Undefined /\ walk' = "done" /\ n = 0
      BY <1>2, <1>9
    <2>2. CursorPlaced' /\ AnsweredBehind'
      BY <2>1 DEF CursorPlaced, AnsweredBehind
    <2>3. PassedAnswered'
      <3>1. SUFFICES ASSUME query.column = "plain", NEW i \in steady, i \in Pages!Matching
                     PROVE  \E m \in 1..Len(seen') : seen'[m] = i
        BY <1>5 DEF PassedAnswered, Answered
      <3>2. cursor # Undefined /\ ~Pages!Beyond(cursor, i)
        BY <1>9, <3>1, PlacedCursor
      <3>3. PICK m \in 1..Len(seen) : seen[m] = i
        BY <3>1, <3>2 DEF PassedAnswered, Passed, Answered
      <3>4. m \in 1..Len(seen') /\ seen'[m] = i
        BY <1>2, <3>3
      <3>5. QED BY <3>4
    <2>4. QED BY <1>8, <2>2, <2>3 DEF Walked
  <1>10. CASE Ahead # {}
    <2>1. n \in 1..Len(s) /\ n > 0 /\ walk' = "walking"
      BY <1>2, <1>10
    <2>2. PICK l \in Ahead : l = s[n]
      BY <1>4, <2>1
    <2>3. PICK c : c = Pages!Encode(l, o) /\ c = cursor'
      BY <1>2, <1>10, <2>2
    <2>4. l \in RowId /\ table[l] # Undefined
      BY <1>3 DEF Present
    <2>5. Place(c)
      BY <1>1, <2>3, <2>4, EncodeFacts
    <2>6. c # Undefined
      BY <2>5 DEF Place, PagesSound
    <2>7. Place(cursor)'
      BY <2>3, <2>5 DEF Place, Cursors
    <2>8. CursorPlaced'
      BY <2>3, <2>6, <2>7 DEF CursorPlaced
    <2>9. \A x \in RowId : Pages!Beyond(cursor, x)' <=> Pages!Beyond(c, x)
      BY <2>3 DEF Pages!Beyond
    <2>10. ASSUME NEW x \in RowId, table[x] # Undefined
           PROVE  /\ ~Pages!Before(o, l, x) => ~Pages!Beyond(c, x)
                  /\ query.column = "plain" /\ Pages!Before(o, l, x) => Pages!Beyond(c, x)
      BY <1>1, <2>3, <2>4, <2>10, EncodeBeyond
    <2>11. AnsweredBehind'
      <3>1. SUFFICES ASSUME NEW m \in 1..Len(seen'), seen'[m] \in steady
                     PROVE  ~Pages!Beyond(cursor, seen[m])'
        BY DEF AnsweredBehind
      <3>2. PICK x \in RowId : x = seen'[m] /\ table[x] # Undefined
        BY <3>1 DEF PageTypes
      <3>3. CASE m \in 1..Len(seen) /\ seen'[m] = seen[m]
        <4>1. /\ Place(cursor) /\ Pages!Beyond(cursor, l) /\ ~Pages!Beyond(cursor, x)
          BY <1>7, <3>1, <3>2, <3>3
        <4>2. ~Pages!Before(o, l, x)
          BY <1>1, <2>4, <3>2, <4>1, BeyondBefore
        <4>3. QED BY <2>9, <2>10, <3>2, <4>2
      <3>4. CASE /\ m - Len(seen) \in 1..n /\ seen'[m] = s[m - Len(seen)]
                 /\ m - Len(seen) \in 1..Len(s)
        <4>1. PICK k \in 1..n : k = m - Len(seen)
          BY <3>4
        <4>2. k \in 1..Len(s) /\ x = s[k] /\ x \in Ahead
          BY <1>4, <3>2, <3>4, <4>1
        <4>3. ~Pages!Before(o, l, x)
          <5>1. CASE k = n
            BY <1>3, <2>2, <4>2, <5>1, BeforeFacts
          <5>2. CASE k # n
            BY <1>4, <2>1, <2>2, <4>2, <5>2
          <5>3. QED BY <5>1, <5>2
        <4>4. QED BY <2>9, <2>10, <3>2, <4>3
      <3>5. QED BY <1>6, <3>3, <3>4
    <2>12. PassedAnswered'
      <3>1. SUFFICES ASSUME query.column = "plain", NEW i \in steady, i \in Pages!Matching,
                            ~Pages!Beyond(cursor, i)'
                     PROVE  \E m \in 1..Len(seen') : seen'[m] = i
        BY <1>5, <2>1 DEF PassedAnswered, Passed, Answered
      <3>2. i \in RowId /\ table[i] # Undefined
        BY DEF PageTypes
      <3>3. ~Pages!Before(o, l, i)
        BY <2>9, <2>10, <3>1, <3>2
      <3>4. CASE i \in Ahead
        <4>1. PICK k \in 1..Len(s) : s[k] = i
          BY <1>4, <3>4
        <4>2. k <= n
          <5>1. SUFFICES ASSUME n < k PROVE FALSE
            BY <1>2
          <5>2. ~Pages!Before(o, i, l) /\ i # l
            BY <1>4, <2>1, <2>2, <4>1, <5>1
          <5>3. QED BY <1>3, <3>3, <3>4, <5>2, BeforeFacts
        <4>3. k \in 1..n /\ Len(seen) + k \in 1..Len(seen')
          BY <1>2, <4>2
        <4>4. seen'[Len(seen) + k] = i
          BY <1>2, <4>1, <4>3
        <4>5. QED BY <4>3, <4>4
      <3>5. CASE i \notin Ahead
        <4>1. cursor # Undefined /\ ~Pages!Beyond(cursor, i)
          BY <3>1, <3>5, PlacedCursor
        <4>2. PICK m \in 1..Len(seen) : seen[m] = i
          BY <3>1, <4>1 DEF PassedAnswered, Passed, Answered
        <4>3. m \in 1..Len(seen') /\ seen'[m] = i
          BY <1>2, <4>2
        <4>4. QED BY <4>3
      <3>6. QED BY <3>4, <3>5
    <2>13. QED BY <1>8, <2>8, <2>11, <2>12 DEF Walked
  <1>11. QED BY <1>9, <1>10

\* A change of another row moves neither the steady rows nor the cursor.
LEMMA WalkedChange ==
  ASSUME PageTypes, Walked, NEW i \in RowId, NEW v \in SortValue \cup {Undefined},
         Pages!Change(i, v)
  PROVE  Walked'
  <1>1. /\ table' = [table EXCEPT ![i] = v] /\ steady' = steady \ {i}
        /\ query' = query /\ cursor' = cursor /\ walk' = walk /\ seen' = seen
    BY DEF Pages!Change
  <1>2. \A j \in steady' : j \in steady /\ j \in RowId /\ table'[j] = table[j]
    BY <1>1 DEF PageTypes
  <1>3. \A j \in steady' : /\ j \in Pages!Matching' => j \in Pages!Matching
                           /\ Pages!Beyond(cursor, j)' <=> Pages!Beyond(cursor, j)
    BY <1>1, <1>2 DEF Pages!Matching, Pages!Where, Pages!Selected, Pages!Filtered,
                      Pages!Beyond
  <1>4. SUFFICES ASSUME Placed
                 PROVE  CursorPlaced' /\ AnsweredOnce' /\ AnsweredBehind' /\ PassedAnswered'
    BY <1>1 DEF Walked, Placed
  <1>5. CursorPlaced /\ AnsweredOnce /\ AnsweredBehind /\ PassedAnswered
    BY <1>4 DEF Walked
  <1>6. CursorPlaced'
    BY <1>1, <1>5 DEF CursorPlaced, Place, Cursors
  <1>7. AnsweredOnce'
    BY <1>1, <1>2, <1>5 DEF AnsweredOnce
  <1>8. AnsweredBehind'
    <2>1. SUFFICES ASSUME walk = "walking", cursor # Undefined, NEW m \in 1..Len(seen),
                          seen[m] \in steady'
                   PROVE  ~Pages!Beyond(cursor, seen[m])'
      BY <1>1 DEF AnsweredBehind
    <2>2. PICK j : j = seen[m]
      OBVIOUS
    <2>3. ~Pages!Beyond(cursor, j) /\ j \in steady'
      BY <1>2, <1>5, <2>1, <2>2 DEF AnsweredBehind
    <2>4. seen'[m] = j
      BY <1>1, <2>2
    <2>5. QED BY <1>3, <2>3, <2>4 DEF Pages!Beyond
  <1>9. PassedAnswered'
    <2>1. SUFFICES ASSUME query.column = "plain", NEW j \in steady', j \in Pages!Matching',
                          Passed(j)'
                   PROVE  Answered(j)
      BY <1>1 DEF PassedAnswered, Answered
    <2>2. Passed(j)
      BY <1>1, <1>3, <2>1 DEF Passed
    <2>3. QED BY <1>2, <1>3, <1>5, <2>1, <2>2 DEF PassedAnswered
  <1>10. QED BY <1>6, <1>7, <1>8, <1>9

LEMMA WalkedStep ==
  ASSUME PagesSound, PageTypes, Walked, Pages!Next PROVE Walked'
  <1>1. CASE Pages!NextPage
    <2>1. SUFFICES ASSUME Placed PROVE Walked'
      BY <1>1 DEF Walked, Placed, Pages!NextPage
    <2>2. CursorPlaced /\ AnsweredOnce /\ AnsweredBehind /\ PassedAnswered
      BY <2>1 DEF Walked
    <2>3. /\ query' = query /\ table' = table /\ steady' = steady /\ walk = "walking"
          /\ Pages!CursorPage \/ Pages!CursorFails
      BY <1>1, <2>1 DEF Pages!NextPage, Pages!OffsetPage, Placed
    <2>4. CASE Pages!CursorPage
      BY <2>1, <2>2, <2>3, <2>4, WalkedPage
    <2>5. CASE Pages!CursorFails
      <3>1. walk' = "failed" /\ cursor' = cursor /\ seen' = seen
        BY <2>5 DEF Pages!CursorFails
      <3>2. CursorPlaced' /\ AnsweredOnce' /\ AnsweredBehind' /\ PassedAnswered'
        BY <2>2, <2>3, <3>1 DEF CursorPlaced, AnsweredOnce, AnsweredBehind, PassedAnswered,
                                Passed, Place, Cursors
      <3>3. QED BY <3>2 DEF Walked
    <2>6. QED BY <2>3, <2>4, <2>5
  <1>2. ASSUME NEW i \in RowId, NEW v \in SortValue \cup {Undefined}, Pages!Change(i, v)
        PROVE  Walked'
    BY <1>2, WalkedChange
  <1>3. QED BY <1>1, <1>2 DEF Pages!Next

-----------------------------------------------------------------------------
(* Walks by offset of a table that nobody changes.                         *)

\* How many rows of the list come before row i.
Rank(i) == Cardinality({j \in Pages!Matching : Pages!Before(query.order, j, i)})

\* After p pages the first p * limit rows were answered, in the list's order.
OffsetWalked ==
    query.mode = "offset" /\ changes = 0 =>
       /\ Len(seen) = IF page * query.limit <= Cardinality(Pages!Matching)
                      THEN page * query.limit ELSE Cardinality(Pages!Matching)
       /\ \A m \in 1..Len(seen) : seen[m] \in Pages!Matching /\ Rank(seen[m]) = m - 1
       /\ walk = "done" => page * query.limit >= Cardinality(Pages!Matching)

\* The row at place k of an answer is the one with k - 1 rows before it.
LEMMA RankFacts ==
  ASSUME PagesSound, PageTypes,
         NEW s \in Pages!Answers(query.order, Pages!Matching), NEW k \in 1..Len(s)
  PROVE  s[k] \in Pages!Matching /\ Rank(s[k]) = k - 1
  <1>1. PICK o \in {"ASC", "DESC"} : o = query.order
    BY DEF PageTypes, Pages!Query
  <1>2. PICK S \in SUBSET RowId : S = Pages!Matching /\ Present(S)
    BY MatchingThere
  <1>3. s \in Pages!Answers(o, S)
    BY <1>1, <1>2
  <1>4. /\ Len(s) \in Nat /\ s \in Seq(S)
        /\ \A m, n \in 1..Len(s) : m # n => s[m] # s[n]
        /\ \A i \in S : \E n \in 1..Len(s) : s[n] = i
        /\ \A m, n \in 1..Len(s) : m < n => ~Pages!Before(o, s[n], s[m])
    <2>1. Len(s) \in Nat /\ s \in Seq(S)
      BY <1>3, AnswerFacts
    <2>2. \A m, n \in 1..Len(s) : m # n => s[m] # s[n]
      BY <1>3, AnswerFacts
    <2>3. ASSUME NEW i \in S PROVE \E n \in 1..Len(s) : s[n] = i
      <3>1. PagesSound /\ S \in SUBSET RowId /\ s \in Pages!Answers(o, S) /\ i \in S
        BY <1>3, <2>3
      <3>2. QED BY <3>1, AnswerHasAll
    <2>4. ASSUME NEW m \in 1..Len(s), NEW n \in 1..Len(s), m < n
          PROVE  ~Pages!Before(o, s[n], s[m])
      BY <1>3, <2>4, AnswerOrdered
    <2>5. QED BY <2>1, <2>2, <2>3, <2>4
  <1>5. \A m \in 1..Len(s) : s[m] \in S
    BY <1>4, ElementOfSeq
  <1>6. \A m \in 1..Len(s) : Pages!Before(o, s[m], s[k]) <=> m < k
    <2>1. TAKE m \in 1..Len(s)
    <2>2. CASE m < k
      <3>1. ~Pages!Before(o, s[k], s[m]) /\ s[m] # s[k]
        BY <1>4, <2>2
      <3>2. QED BY <1>2, <1>5, <2>2, <3>1, BeforeFacts
    <2>3. CASE m = k
      BY <1>2, <1>5, <2>3, BeforeFacts
    <2>4. CASE k < m
      BY <1>4, <2>4
    <2>5. QED BY <1>4, <2>2, <2>3, <2>4
  <1>7. PICK T : T = {j \in S : Pages!Before(o, j, s[k])}
    OBVIOUS
  <1>8. PICK f : f = [m \in 1..(k - 1) |-> s[m]]
    OBVIOUS
  <1>9. \A m \in 1..(k - 1) : m \in 1..Len(s) /\ m < k /\ f[m] = s[m]
    BY <1>4, <1>8
  <1>10. f \in [1..(k - 1) -> T]
    BY <1>5, <1>6, <1>7, <1>8, <1>9
  <1>11. \A j \in T : \E m \in 1..(k - 1) : f[m] = j
    <2>1. TAKE j \in T
    <2>2. PICK m \in 1..Len(s) : s[m] = j
      BY <1>4, <1>7
    <2>3. m < k
      BY <1>6, <1>7, <2>2
    <2>4. m \in 1..(k - 1)
      BY <1>4, <2>3
    <2>5. QED BY <1>9, <2>2, <2>4
  <1>12. f \in Surjection(1..(k - 1), T) /\ f \in Injection(1..(k - 1), T)
    <2>1. \A m, n \in 1..(k - 1) : f[m] = f[n] => m = n
      BY <1>4, <1>9
    <2>2. QED BY <1>10, <1>11, <2>1 DEF Surjection, Injection, IsInjective
  <1>13. IsFiniteSet(1..(k - 1)) /\ Cardinality(1..(k - 1)) = k - 1
    <2>1. PICK q \in Nat : q = k - 1
      BY <1>4
    <2>2. IsFiniteSet(1..q) /\ Cardinality(1..q) = q
      BY FS_Interval
    <2>3. QED BY <2>1, <2>2
  <1>14. Cardinality(T) = k - 1
    BY <1>12, <1>13, FS_Surjection
  <1>15. QED BY <1>1, <1>2, <1>5, <1>7, <1>14 DEF Rank

LEMMA OffsetInit == ASSUME PagesSound, Pages!Init PROVE OffsetWalked
  <1>1. PageTypes
    BY PageTypesInit
  <1>2. Cardinality(Pages!Matching) \in Nat
    <2>1. IsFiniteSet(Pages!Matching)
      BY <1>1, MatchingThere, FS_Subset DEF PagesSound
    <2>2. QED BY <2>1, FS_CardinalityType
  <1>3. page = 0 /\ Len(seen) = 0 /\ walk = "walking" /\ query.limit \in Nat
    BY DEF Pages!Init, Pages!Query
  <1>4. QED BY <1>2, <1>3 DEF OffsetWalked

LEMMA OffsetStep ==
  ASSUME PagesSound, PageTypes, OffsetWalked, Pages!Next PROVE OffsetWalked'
  <1>1. CASE Pages!NextPage
    <2>1. /\ query' = query /\ table' = table /\ changes' = changes /\ page' = page + 1
          /\ walk = "walking"
          /\ Pages!OffsetPage \/ Pages!CursorPage \/ Pages!CursorFails
      BY <1>1 DEF Pages!NextPage
    <2>2. SUFFICES ASSUME query.mode = "offset", changes = 0 PROVE OffsetWalked'
      BY <2>1 DEF OffsetWalked
    <2>3. PICK c \in Nat : c = Cardinality(Pages!Matching)
      <3>1. IsFiniteSet(Pages!Matching)
        BY MatchingThere, FS_Subset DEF PagesSound
      <3>2. QED BY <3>1, FS_CardinalityType
    <2>4. PICK b \in Nat : b = page * query.limit
      BY DEF PageTypes, Pages!Query
    <2>5. page' * query'.limit = b + query.limit /\ query.limit \in {1, 2}
      BY <2>1, <2>4 DEF PageTypes, Pages!Query
    <2>6. Pages!OffsetPage
      BY <2>1, <2>2 DEF Pages!CursorPage, Pages!CursorFails
    <2>7. PICK s \in Pages!Answers(query.order, Pages!Matching), n \in Nat :
            /\ Len(s) \in Nat /\ Len(seen) \in Nat /\ Len(s) = c
            /\ n = IF b >= Len(s) THEN 0
                   ELSE IF Len(s) - b < query.limit THEN Len(s) - b ELSE query.limit
            /\ Len(seen') = Len(seen) + n
            /\ \A m \in 1..Len(seen) : seen'[m] = seen[m]
            /\ \A k \in 1..n : seen'[Len(seen) + k] = s[b + k]
            /\ walk' = IF (page + 1) * query.limit >= Len(s) THEN "done" ELSE "walking"
      BY <2>3, <2>4, <2>6, OffsetPageDoes
    <2>8. Pages!Matching' = Pages!Matching
      BY <2>1 DEF Pages!Matching, Pages!Where, Pages!Selected, Pages!Filtered
    <2>9. \A x : Rank(x)' = Rank(x)
      BY <2>1, <2>8 DEF Rank, Pages!Before
    <2>10. /\ Len(seen) = IF b <= c THEN b ELSE c
           /\ \A m \in 1..Len(seen) : seen[m] \in Pages!Matching /\ Rank(seen[m]) = m - 1
      BY <2>2, <2>3, <2>4 DEF OffsetWalked
    <2>11. Len(seen') = IF b + query.limit <= c THEN b + query.limit ELSE c
      BY <2>5, <2>7, <2>10
    <2>12. walk' = "done" => b + query.limit >= c
      <3>1. (page + 1) * query.limit = b + query.limit
        BY <2>1, <2>5
      <3>2. QED BY <2>7, <3>1
    <2>13. ASSUME NEW m \in 1..Len(seen')
           PROVE  seen'[m] \in Pages!Matching /\ Rank(seen'[m]) = m - 1
      <3>1. CASE m <= Len(seen)
        <4>1. m \in 1..Len(seen)
          <5>1. Len(seen) \in Nat
            BY <2>7
          <5>2. QED BY <3>1, <5>1
        <4>2. seen'[m] = seen[m]
          BY <2>7, <4>1
        <4>3. seen[m] \in Pages!Matching /\ Rank(seen[m]) = m - 1
          BY <2>10, <4>1
        <4>4. QED BY <4>2, <4>3
      <3>2. CASE ~(m <= Len(seen))
        <4>1. PICK k \in 1..n : k = m - Len(seen)
          <5>1. Len(seen) \in Nat /\ n \in Nat /\ Len(seen') = Len(seen) + n
            BY <2>7
          <5>2. m - Len(seen) \in 1..n
            BY <3>2, <5>1
          <5>3. QED BY <5>2
        <4>2. b < c /\ Len(seen) = b
          BY <2>5, <2>7, <2>10, <4>1
        <4>3. b + k \in 1..Len(s) /\ b + k = m
          BY <2>5, <2>7, <4>1, <4>2
        <4>4. seen'[m] = s[b + k]
          BY <2>7, <4>1, <4>2, <4>3
        <4>5. s[b + k] \in Pages!Matching /\ Rank(s[b + k]) = b + k - 1
          BY <4>3, RankFacts
        <4>6. QED BY <4>3, <4>4, <4>5
      <3>3. QED BY <3>1, <3>2
    <2>14. \A m \in 1..Len(seen') : seen'[m] \in Pages!Matching' /\ Rank(seen[m])' = m - 1
      BY <2>1, <2>8, <2>13 DEF Rank, Pages!Before
    <2>15. QED BY <2>3, <2>5, <2>8, <2>11, <2>12, <2>14 DEF OffsetWalked
  <1>2. ASSUME NEW i \in RowId, NEW v \in SortValue \cup {Undefined}, Pages!Change(i, v)
        PROVE  OffsetWalked'
    <2>1. changes' = changes + 1 /\ changes \in Nat
      BY <1>2 DEF Pages!Change, PageTypes
    <2>2. changes' # 0
      BY <2>1
    <2>3. QED BY <2>2 DEF OffsetWalked
  <1>3. QED BY <1>1, <1>2 DEF Pages!Next

-----------------------------------------------------------------------------
(* The two promises of a walk.                                             *)

LEMMA SeenOnce ==
  ASSUME PagesSound, PageTypes, Walked, OffsetWalked PROVE Pages!NoRowTwice
  <1>1. SUFFICES ASSUME \/ Placed
                        \/ query.mode = "offset" /\ changes = 0,
                        NEW i \in steady
                 PROVE  Pages!Cardinality({n \in DOMAIN seen : seen[n] = i}) <= 1
    BY DEF Pages!NoRowTwice, Pages!Tiles, Placed
  <1>2. DOMAIN seen = 1..Len(seen) /\ Len(seen) \in Nat
    BY LenProperties DEF PageTypes
  <1>3. PICK A : A = {n \in DOMAIN seen : seen[n] = i}
    OBVIOUS
  <1>4. \A m, n \in A : m = n
    <2>1. CASE Placed
      BY <1>2, <1>3, <2>1 DEF Walked, AnsweredOnce
    <2>2. CASE query.mode = "offset" /\ changes = 0
      <3>1. TAKE m, n \in A
      <3>2. m \in 1..Len(seen) /\ n \in 1..Len(seen) /\ seen[m] = seen[n]
        BY <1>2, <1>3
      <3>3. m - 1 = n - 1
        BY <2>2, <3>2 DEF OffsetWalked
      <3>4. QED BY <1>2, <3>2, <3>3
    <2>3. QED BY <1>1, <2>1, <2>2
  <1>5. CASE A = {}
    BY <1>3, <1>5, SameCount, FS_EmptySet
  <1>6. CASE A # {}
    <2>1. PICK n : A = {n}
      BY <1>4, <1>6
    <2>2. QED BY <1>3, <2>1, SameCount, FS_Singleton
  <1>7. QED BY <1>5, <1>6

LEMMA SeenAllRows ==
  ASSUME PagesSound, PageTypes, Walked, OffsetWalked PROVE Pages!NoRowMissed
  <1>1. SUFFICES ASSUME \/ query.mode = "cursor" /\ query.column = "plain"
                        \/ query.mode = "offset" /\ changes = 0,
                        walk = "done", NEW i \in steady, i \in Pages!Matching
                 PROVE  Answered(i)
    <2>1. \A j : Answered(j) => j \in Pages!ToSet(seen)
      BY LenProperties DEF Pages!ToSet, Answered, PageTypes
    <2>2. QED BY <2>1 DEF Pages!NoRowMissed, Pages!Tiles
  <1>2. CASE query.mode = "cursor" /\ query.column = "plain"
    BY <1>1, <1>2 DEF Walked, Placed, PassedAnswered, Passed
  <1>3. CASE query.mode = "offset" /\ changes = 0
    <2>1. IsFiniteSet(Pages!Matching)
      BY MatchingThere, FS_Subset DEF PagesSound
    <2>2. PICK c \in Nat : c = Cardinality(Pages!Matching)
      BY <2>1, FS_CardinalityType
    <2>3. page * query.limit \in Nat
      BY DEF PageTypes, Pages!Query
    <2>4. /\ Len(seen) = c
          /\ \A m \in 1..Len(seen) : seen[m] \in Pages!Matching /\ Rank(seen[m]) = m - 1
      BY <1>1, <1>3, <2>2, <2>3 DEF OffsetWalked
    <2>5. DOMAIN seen = 1..c
      BY <2>4, LenProperties DEF PageTypes
    <2>6. seen \in [1..c -> Pages!Matching]
      <3>1. seen = [m \in 1..c |-> seen[m]]
        BY <2>4, <2>5, LenProperties, SeqDef DEF PageTypes
      <3>2. QED BY <2>4, <3>1
    <2>7. \A m, n \in 1..c : seen[m] = seen[n] => m = n
      <3>1. TAKE m, n \in 1..c
      <3>2. HAVE seen[m] = seen[n]
      <3>3. m - 1 = n - 1
        BY <2>4, <3>2
      <3>4. QED BY <3>3
    <2>8. seen \in Injection(1..c, Pages!Matching)
      BY <2>6, <2>7 DEF Injection, IsInjective
    <2>9. Cardinality(1..c) = c
      BY FS_Interval
    <2>10. seen \in Surjection(1..c, Pages!Matching)
      BY <2>1, <2>2, <2>8, <2>9, FS_Injection
    <2>11. \E m \in 1..c : seen[m] = i
      BY <1>1, <2>10 DEF Surjection
    <2>12. QED BY <2>4, <2>11 DEF Answered
  <1>4. QED BY <1>1, <1>2, <1>3

PageInv == PageTypes /\ Walked /\ OffsetWalked

LEMMA PageInvStep ==
  ASSUME PagesSound, PageInv, [Pages!Next]_(Pages!vars) PROVE PageInv'
  <1>1. PageTypes /\ Walked /\ OffsetWalked
    BY DEF PageInv
  <1>2. CASE Pages!Next
    BY <1>1, <1>2, PageTypesStep, WalkedStep, OffsetStep DEF PageInv
  <1>3. CASE UNCHANGED Pages!vars
    <2>1. /\ query' = query /\ table' = table /\ cursor' = cursor /\ page' = page
          /\ walk' = walk /\ changes' = changes /\ seen' = seen /\ steady' = steady
      BY <1>3 DEF Pages!vars
    <2>2. PageTypes'
      BY <1>1, <2>1 DEF PageTypes, Cursors
    <2>3. Pages!Matching' = Pages!Matching
      BY <2>1 DEF Pages!Matching, Pages!Where, Pages!Selected, Pages!Filtered
    <2>4. Walked'
      BY <1>1, <2>1, <2>3
         DEF Walked, Placed, CursorPlaced, AnsweredOnce, AnsweredBehind, PassedAnswered,
             Passed, Answered, Place, Cursors, Pages!Beyond
    <2>5. OffsetWalked'
      BY <1>1, <2>1, <2>3 DEF OffsetWalked, Rank, Pages!Before
    <2>6. QED BY <2>2, <2>4, <2>5 DEF PageInv
  <1>4. QED BY <1>2, <1>3

LEMMA PageInvHolds == ASSUME PagesSound PROVE Pages!Spec => []PageInv
  <1>1. Pages!Init => PageInv
    BY PageTypesInit, WalkedInit, OffsetInit DEF PageInv
  <1>2. PageInv /\ [Pages!Next]_(Pages!vars) => PageInv'
    BY PageInvStep
  <1>3. QED BY <1>1, <1>2, PTL DEF Pages!Spec

\* However rows come and go around it, a row that stays where it is is
\* answered at most once: by cursors on the whole value of the sort column, by
\* descending cursors on milliseconds of it, and by offsets while nothing
\* changes (listCursor, listOffset).
THEOREM NoRowIsTwice == ASSUME PagesSound PROVE Pages!Spec => []NoRowTwice
  <1>1. PageInv => NoRowTwice
    BY SeenOnce DEF PageInv, NoRowTwice
  <1>2. QED BY <1>1, PageInvHolds, PTL

\* A walk by cursor that came to its end has answered every row of the list
\* that was there, unchanged, all the time; so has one by offset if nothing
\* changed.
THEOREM NoRowIsMissed == ASSUME PagesSound PROVE Pages!Spec => []NoRowMissed
  <1>1. PageInv => NoRowMissed
    BY SeenAllRows DEF PageInv, NoRowMissed
  <1>2. QED BY <1>1, PageInvHolds, PTL

-----------------------------------------------------------------------------
(* What a request may select.                                              *)

\* Undefined is no set of paths.
ScopeSound == Undefined \notin SUBSET Scope!Path

ScopeTypes ==
    /\ info # Undefined => \A p \in info : p[Len(p)] \in Name
    /\ select \in (SUBSET Scope!Path) \cup {Undefined}
    /\ relations \in (SUBSET Scope!Path) \cup {Undefined}
    /\ whiteS \in Scope!Tree \cup {Undefined}
    /\ whiteR \in Scope!Tree \cup {Undefined}

\* A path has one name, or that of a relation and one below it.
LEMMA PathFacts ==
  ASSUME NEW p \in Scope!Path
  PROVE  \/ Len(p) = 1 /\ p = <<p[1]>>
         \/ Len(p) = 2 /\ p[1] \in Relation
  <1>1. CASE p \in {<<a>> : a \in Name}
    <2>1. PICK a \in Name : p = <<a>>
      BY <1>1
    <2>2. Len(<<a>>) = 1 /\ <<a>>[1] = a
      OBVIOUS
    <2>3. QED BY <2>1, <2>2
  <1>2. CASE p \in {<<a, b>> : a \in Relation, b \in Name}
    <2>1. PICK a \in Relation, b \in Name : p = <<a, b>>
      BY <1>2
    <2>2. Len(<<a, b>>) = 2 /\ <<a, b>>[1] = a
      OBVIOUS
    <2>3. QED BY <2>1, <2>2
  <1>3. QED BY <1>1, <1>2 DEF Scope!Path

\* What a filter leaves: nothing new, all that is in the whitelist, a pair of
\* names only if it is in the whitelist, a name only if the whitelist has it.
LEMMA FilterFacts ==
  ASSUME NEW t, NEW w \in Scope!Tree
  PROVE  /\ Scope!Filter(t, w) \subseteq t
         /\ t \cap w \subseteq Scope!Filter(t, w)
         /\ \A p \in Scope!Filter(t, w) : /\ Len(p) = 1 => p[1] \in Scope!Keys(w)
                                          /\ Len(p) = 2 => p \in w
         /\ \A p \in t : Len(p) = 1 /\ p[1] \in Scope!Keys(w) => p \in Scope!Filter(t, w)
  <1>1. ASSUME NEW p \in t \cap w PROVE p \in Scope!Filter(t, w)
    <2>1. p \in Scope!Path /\ (Len(p) = 2 => <<p[1]>> \notin w) /\ p[1] \in Scope!Keys(w)
      BY <1>1 DEF Scope!Tree, Scope!IsTree, Scope!Keys
    <2>2. Len(p) = 1 \/ Len(p) = 2
      BY <2>1, PathFacts
    <2>3. QED BY <1>1, <2>1, <2>2 DEF Scope!Filter, Scope!Booleans, Scope!Objects
  <1>2. QED BY <1>1 DEF Scope!Filter, Scope!Booleans, Scope!Objects

\* The columns.
LEMMA SelectHolds ==
  ASSUME ScopeSound, ScopeTypes, whiteS # Undefined
  PROVE  Scope!NothingHiddenRead /\ Scope!NothingLost
  <1>1. Scope!Asked \subseteq Scope!Path
    <2>1. whiteS \subseteq Scope!Path
      BY DEF ScopeTypes, Scope!Tree
    <2>2. CASE info # Undefined /\ Scope!Fields(info) # Undefined
      <3>1. Scope!Fields(info) = {<<n>> : n \in {p[Len(p)] : p \in info} \ Hidden}
        BY <2>2 DEF Scope!Fields
      <3>2. \A n \in {p[Len(p)] : p \in info} \ Hidden : <<n>> \in Scope!Path
        BY <2>2 DEF ScopeTypes, Scope!Path
      <3>3. Scope!SelectAsked \subseteq Scope!Path
        BY <2>2, <3>1, <3>2 DEF Scope!SelectAsked
      <3>4. QED BY <2>1, <3>3 DEF Scope!Asked
    <2>3. CASE ~(info # Undefined /\ Scope!Fields(info) # Undefined)
      <3>1. Scope!SelectAsked = select
        BY <2>3 DEF Scope!SelectAsked
      <3>2. QED BY <2>1, <3>1 DEF Scope!Asked, ScopeTypes
    <2>4. QED BY <2>2, <2>3
  <1>2. PICK w \in Scope!Tree : w = whiteS
    BY DEF ScopeTypes
  <1>3. PICK a : a = Scope!Asked
    OBVIOUS
  <1>4. PICK u : u = Scope!SelectUsed
    OBVIOUS
  <1>5. w \subseteq Scope!Path /\ Scope!Columns \subseteq Scope!Path
    BY DEF Scope!Tree, Scope!Columns
  <1>6. \/ u = w /\ a = w
        \/ u = Scope!Filter(a, w)
    BY <1>2, <1>3, <1>4 DEF Scope!SelectUsed, Scope!ScopedSelect, Scope!Asked
  <1>7. /\ a \cap w \subseteq u
        /\ \A p \in u : /\ Len(p) = 1 => p[1] \in Scope!Keys(w)
                        /\ Len(p) = 2 => p \in w
    BY <1>6, FilterFacts DEF Scope!Keys
  <1>8. u # Undefined
    <2>1. u \subseteq Scope!Path
      BY <1>1, <1>3, <1>5, <1>6, FilterFacts
    <2>2. QED BY <2>1 DEF ScopeSound
  <1>9. ASSUME NEW p \in Scope!Columns, Len(p) = 1, p[1] \in Scope!Keys(w)
        PROVE  p \in Scope!Granted(w)
    <2>1. p = <<p[1]>> /\ p[1] \notin Relation
      <3>1. p \in Scope!Path /\ p[Len(p)] \notin Relation
        BY <1>9 DEF Scope!Columns
      <3>2. QED BY <1>9, <3>1, PathFacts
    <2>2. PICK q \in w : q[1] = p[1]
      BY <1>9 DEF Scope!Keys
    <2>3. q = <<q[1]>>
      BY <1>5, <2>1, <2>2, PathFacts
    <2>4. QED BY <2>1, <2>2, <2>3 DEF Scope!Granted
  <1>10. ASSUME NEW p \in Scope!Read(u, Scope!RelationsUsed)
        PROVE  \/ p \in Scope!Granted(w)
               \/ Len(p) = 1 /\ a \cap w \cap Scope!Columns = {}
               \/ Len(p) = 2 /\ \A q \in a : Len(q) = 2 /\ q[1] = p[1] => q \notin w
    <2>1. /\ p \in Scope!Columns
          /\ \/ u # Undefined /\ p \in u
             \/ Len(p) = 1 /\ ~Scope!Restricts(u)
             \/ Len(p) = 2 /\ ~Scope!Itemised(u, p[1])
      BY DEF Scope!Read
    <2>2. CASE p \in u
      <3>1. Len(p) = 1 \/ Len(p) = 2
        BY <1>5, <2>1, PathFacts
      <3>2. CASE Len(p) = 1
        BY <1>7, <1>9, <2>1, <2>2, <3>2
      <3>3. CASE Len(p) = 2
        BY <1>7, <2>1, <2>2, <3>3 DEF Scope!Granted
      <3>4. QED BY <3>1, <3>2, <3>3
    <2>3. CASE Len(p) = 1 /\ ~Scope!Restricts(u)
      BY <1>7, <1>8, <2>3 DEF Scope!Restricts
    <2>4. CASE Len(p) = 2 /\ ~Scope!Itemised(u, p[1])
      BY <1>7, <1>8, <2>4 DEF Scope!Itemised
    <2>5. QED BY <2>1, <2>2, <2>3, <2>4
  <1>11. a \cap w \cap Scope!Columns \subseteq Scope!Read(u, Scope!RelationsUsed)
    BY <1>7, <1>8 DEF Scope!Read
  <1>12. QED BY <1>2, <1>3, <1>4, <1>10, <1>11
             DEF Scope!NothingHiddenRead, Scope!NothingLost, Scope!NotItemised

\* The relations.
LEMMA RelationsHold ==
  ASSUME ScopeTypes, whiteR # Undefined, Scope!RelationsUsed # Undefined
  PROVE  Scope!RelationsExact
  <1>1. PICK w \in Scope!Tree : w = whiteR
    BY DEF ScopeTypes
  <1>2. PICK r : r = Scope!RelationsAsked
    OBVIOUS
  <1>3. PICK u : u = Scope!RelationsUsed
    OBVIOUS
  <1>4. r # Undefined
    BY <1>2 DEF Scope!RelationsUsed, Scope!FilterRelations
  <1>5. \A q \in w : <<q[1]>> \in Scope!Nodes(w) /\ q \in Scope!Nodes(w)
    BY DEF Scope!Nodes
  <1>6. \A k \in Scope!Keys(w) : <<k>> \in Scope!Nodes(w)
    BY <1>5 DEF Scope!Keys
  <1>7. ASSUME NEW q \in Scope!Nodes(w) PROVE <<q[1]>> \in Scope!Nodes(w) /\ q[1] \in Scope!Keys(w)
    <2>1. PICK p \in w : q = p \/ q = <<p[1]>>
      BY <1>7 DEF Scope!Nodes
    <2>2. q[1] = p[1]
      BY <2>1
    <2>3. QED BY <1>5, <2>1, <2>2 DEF Scope!Keys
  <1>8. u \subseteq Scope!Nodes(w) /\ r \cap Scope!Nodes(w) \subseteq u
    <2>1. CASE listed \/ Scope!FromQuery
      <3>1. u = r \cap Scope!Nodes(w)
        BY <1>1, <1>2, <1>3, <1>4, <2>1 DEF Scope!RelationsUsed, Scope!FilterRelations
      <3>2. QED BY <3>1
    <2>2. CASE ~(listed \/ Scope!FromQuery)
      <3>1. u = Scope!Filter(r, w) /\ r \subseteq Scope!Path
        BY <1>1, <1>2, <1>3, <1>4, <2>2
           DEF Scope!RelationsUsed, Scope!FilterRelations, Scope!RelationsAsked, ScopeTypes
      <3>2. ASSUME NEW p \in u PROVE p \in Scope!Nodes(w)
        <4>1. p \in Scope!Path /\ (Len(p) = 1 => p[1] \in Scope!Keys(w)) /\ (Len(p) = 2 => p \in w)
          BY <3>1, FilterFacts
        <4>2. (Len(p) = 1 /\ p = <<p[1]>>) \/ Len(p) = 2
          BY <4>1, PathFacts
        <4>3. QED BY <1>5, <1>6, <4>1, <4>2
      <3>3. ASSUME NEW p \in r, p \in Scope!Nodes(w) PROVE p \in u
        <4>1. Len(p) = 1 \/ Len(p) = 2
          BY <3>1, PathFacts
        <4>2. CASE Len(p) = 1
          BY <1>7, <3>1, <3>3, <4>2, FilterFacts
        <4>3. CASE Len(p) = 2
          <5>1. PICK q \in w : p = q \/ p = <<q[1]>>
            BY <3>3 DEF Scope!Nodes
          <5>2. p = q
            <6>1. Len(<<q[1]>>) = 1
              OBVIOUS
            <6>2. QED BY <4>3, <5>1, <6>1
          <5>3. QED BY <3>1, <5>2, FilterFacts
        <4>4. QED BY <4>1, <4>2, <4>3
      <3>4. QED BY <3>2, <3>3
    <2>3. QED BY <2>1, <2>2
  <1>9. Scope!Nodes(u) \subseteq Scope!Nodes(w)
    <2>1. ASSUME NEW q \in Scope!Nodes(u) PROVE q \in Scope!Nodes(w)
      <3>1. PICK p \in u : q = p \/ q = <<p[1]>>
        BY <2>1 DEF Scope!Nodes
      <3>2. QED BY <1>7, <1>8, <3>1
    <2>2. QED BY <2>1
  <1>10. QED BY <1>1, <1>2, <1>3, <1>8, <1>9 DEF Scope!RelationsExact

\* For every set of names and all whitelists: a column that the whitelist hides
\* is read only where no whitelisted column was asked for, of the entity or of
\* the relation; what is whitelisted and asked for is read; only whitelisted
\* relations are loaded (applyQueryOpts).
THEOREM WhitelistAlwaysHolds == ASSUME ScopeSound PROVE ListsSpec => []WhitelistHolds
  <1> DEFINE I == ScopeTypes
  <1>1. (Pages!Init /\ NoScope) \/ (Scope!Init /\ NoPages) => I
    <2>1. ASSUME Scope!Init PROVE I
      <3>1. info # Undefined => \A p \in info : p[Len(p)] \in Name
        <4>1. ASSUME info # Undefined, NEW p \in info PROVE p[Len(p)] \in Name
          <5>1. PICK a \in Name, B \in SUBSET Name : info = {<<a>>} \cup {<<a, b>> : b \in B}
            BY <2>1, <4>1 DEF Scope!Init
          <5>2. CASE p = <<a>>
            BY <5>2
          <5>3. CASE p \in {<<a, b>> : b \in B}
            <6>1. PICK b \in B : p = <<a, b>>
              BY <5>3
            <6>2. QED BY <6>1
          <5>4. QED BY <4>1, <5>1, <5>2, <5>3
        <4>2. QED BY <4>1
      <3>2. select \in (SUBSET Scope!Path) \cup {Undefined}
        BY <2>1 DEF Scope!Init, Scope!Tree
      <3>3. relations \in (SUBSET Scope!Path) \cup {Undefined}
        BY <2>1 DEF Scope!Init, Scope!Tree
      <3>4. whiteS \in Scope!Tree \cup {Undefined} /\ whiteR \in Scope!Tree \cup {Undefined}
        BY <2>1 DEF Scope!Init
      <3>5. QED BY <3>1, <3>2, <3>3, <3>4 DEF ScopeTypes
    <2>2. NoScope => I
      BY DEF NoScope, ScopeTypes
    <2>3. QED BY <2>1, <2>2
  <1>2. I /\ [Pages!Next /\ UNCHANGED scope]_<<pages, scope>> => I'
    BY DEF ScopeTypes, scope
  <1>3. ASSUME ScopeTypes PROVE WhitelistHolds
    <2>1. whiteS # Undefined => Scope!NothingHiddenRead /\ Scope!NothingLost
      BY <1>3, SelectHolds
    <2>2. whiteR # Undefined /\ Scope!RelationsUsed # Undefined => Scope!RelationsExact
      BY <1>3, RelationsHold
    <2>3. QED BY <2>1, <2>2, Zenon DEF WhitelistHolds, Scope!WhitelistHolds
  <1>4. I => WhitelistHolds
    BY <1>3
  <1> HIDE DEF I
  <1>5. QED BY <1>1, <1>2, <1>4, PTL DEF ListsSpec
=============================================================================
