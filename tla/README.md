# A TLA+ model of the nest.js-postgresql service

The repository is a NestJS backend: accounts with password and one-time-code
login, a QR login flow between a phone and a browser, media uploads, rate
limiting, mail over RabbitMQ, PostgreSQL through TypeORM and Redis for
everything short-lived. This directory holds a model of its stateful parts,
the TLC runs that check it and TLAPS proofs about it. Line numbers are in
`PROJECT.json`, which maps every definition to the code it stands for.

Run, in this directory: `tlc -workers 2 -config QrSerial.cfg MCQrTicket` (the
other runs are listed below), `tlapm QrTicketProofs.tla`.

## 1. Inventory

What makes this code hard is the same everywhere. A handler is a chain of
awaits; between two of them any other request, on this instance or another,
may run. Redis values are read, changed and written back whole, without a lock
or a compare-and-swap (the Lua scripts of the rate limiter are the exception).
Redis and PostgreSQL are written one after the other or side by side with
nothing tying them together. Every Redis command and every query may fail,
which ends a handler where it stands. And `CacheService.onModuleInit` empties
the whole Redis whenever any instance starts.

| Component | State | Operations | Hard behaviour | What makes it correct |
|---|---|---|---|---|
| QR ticket service (`qr/qr.service.ts`) | Redis: ticket, grant | create, view, scan, approve, reject, exchange of a grant or a delivery code, clean-up | read-change-write over a copy that may be stale; a status stored before the action it announces has run | an exchange answers only with an approval that happened; a rejection, a use, an expiry is what it says |
| QR polling service (`qr/qr-polling.service.ts`) | Redis: delivery code; the Redis channel of a ticket | snapshot, make and consume a delivery code, publish, wait for a change | the wait subscribes after reading; GET, compare, DEL of a code | a waiting poll learns of a change; a code is bound to its web session |
| QR controller (`qr/qr.controller.ts`) | none | the HTTP handlers, ETags, long poll | answers 304 from a version | a client is not told "unchanged" after a change |
| QR poll guard, QR utilities, QR actions | one counter key; none; none | limit polls; tokens, PKCE, previews of payloads; run an action | an action throws after the ticket was stored APPROVED; a preview hides nested fields | a failed action leaves the ticket open; the preview shows all that is not sensitive and nothing else |
| QR gateway (`qr/qr.gateway.ts`, `common/gateways/base.gateway.ts`) | rooms, client-room maps | connect, subscribe, unsubscribe, broadcast, disconnect | callbacks of one socket interleave with its disconnect; a status is read before the room is joined | the maps agree with the rooms; no subscriber is left behind with an old status |
| OTP login (`auth/auth.service.ts`, `auth/providers`) | Redis: code with its attempts | requestOtp, verifyOtp, the store's set/get/delete/increment/markAsUsed | overlapping verifications; increments that drop the key's TTL | few guesses per code, one login per code, none after expiry |
| Sessions and tokens (`auth`, `users/users.service.ts`) | user_sessions rows; Redis: two token keys per session | login, refresh, logout, logoutAll, the token guards | two stores written side by side; pattern deletions; a refresh beside a logout | a logout is final, and only for the sessions it names |
| Users | users, device_tokens rows | register, profile, device tokens | look-up, then insert | one account per e-mail |
| Rate limiting (`rate-limit/`) | Redis counters; cached plans, keys, policies, whitelist | check and apply a limit; administration with an invalidation message | policies come back from the cache without their methods; window edges; a late invalidation | no window admits more than its limit; a rule change is seen |
| Cache service (`shared/services/cache`) | all of Redis | get/set/delete, patterns, locks, Lua counters, flush | GET then SETEX as a lock; SCAN while keys change | one holder per lock; counters count |
| Entity service (`common/services/base.service.ts`) and the GraphQL one | rows; Redis: cached entities | CRUD, cached findById, cursor pages | a cache filled after an await, invalidated in between | a read after an update is not older than the update for ever; pages neither skip nor repeat |
| Media, object storage | rows; stored objects | upload, update, delete, counters | two stores, one after the other; an update may set a row's key; counters read and written back | the file a row names is there |
| Mail queue, worker, sender | RabbitMQ queue; SMTP; a counter per recipient | enqueue, consume, acknowledge, send | acknowledged after a failure; a handler that throws is requeued at once; a lost channel requeues under a handler that lives on; messages are not persistent | a job is handled, and its mail goes out again only after an accident |
| Primary keys (`shared/libs/snowflake`) | per process: last millisecond, sequence | nextId, parseId | sequence wrap-around with a busy-wait; clock set back; several processes with the same numbers | the keys of a process are unique and grow |
| Entity subscribers, Firebase, health, HTTP client, bootstrap, filters, decorators, configuration | none of their own | hooks, pass-through clients, wiring | none | not modelled: no protocol of their own |

Interactions. Controllers call services; services share nothing in memory but
the rooms of the gateway. Everything else meets in Redis keys, PostgreSQL rows,
the channel on which a ticket's changes are published, the channel on which the
rate limiter announces rule changes, the mail queue and the object store. The
OTP login ends in the same `generateToken` as the password login, so
`AuthSession` begins where `OtpLogin` stops; `Accounts` is the part of the users
that touches no session. Media are entities: `MediaService` extends
`EntityService` and adds the objects. The ticket's life is `QrTicket`; what of
it reaches whom is `QrLongPoll` (polls) and `QrRooms` (sockets), over a ticket
reduced to its version; what its approval runs is `QrActions`.

## 2. Plan

The modules were written in this order, the ones with the hardest
interleavings first: `QrTicket` with `ApprovalLedger`, `Snowflake`, `OtpLogin`,
`AuthSession`, `RateCounter`; then `EntityService` with `ObjectStore` and
`MediaService`, `EntityPages` and `QueryScope`, `RateConfig`, `QrRooms`,
`QrLongPoll`, `MailQueue` with `MailPromise`, `Accounts`, `CacheOps`, `QrActions`.

Proved: every safety property of the runs that hold (section 5). A next step of modelling would be the Redis adapter between instances of the gateway and the
device tokens once their upsert has an index to conflict on.

## 3. How the code became modules

A request is a process: `pc[r]` says before which await it stands, `call[r]`
(and `copy[r]` in `QrTicket`) holds its arguments and locals. One action is one
Redis command or query together with the synchronous code up to the next await,
early returns and `throw`s included. Requests are numbered in the order they
arrive, `MaxInFlight` of them may be served at once, on any number of
instances. What a request generates (a token, a code, an issue, a session) is
named by its number: generated values do not collide. A failing command is
modelled as one that was not applied; the request ends there.

**QrTicket** (`tickets`, `grants`, `deliveries` are the three families of keys
with their TTLs; `seen` is the ETag the ticket's browser holds; `created`,
`verified`, `executed`, `rejected`, `redeemed` are histories). `CreateTicket`
to `CleanGrant` are arrivals; `GetTicket`/`Resume` read the ticket and run the
checks of scan, approve, reject and the exchanges; `PutTicket`, `RunAction`,
`FailAction`, `PutRevert`, `PutGrant`, `PutDelivery`, `GetGrant`, `DelGrant`,
`GetDelivery`, `DelDelivery`, `Publish`, `Snapshot`, `PutSnapshot`,
`TryGetDelivery`, `CleanGet`, `CleanDel` are the awaits in the order of the
code. The boundary is the interface of `QrService` and the controller's calls
of it: the HTTP DTOs never deliver the verifier and the grant token that the
service expects, so the model's clients have them. `cleanupExpired` is called
only from its spec and is an operation like the others. The second expiry
checks of scan and approve coincide with the first, since nothing is awaited
between them. A poll's guard is left out: it only refuses. A poll answers with
the ETag it computed before it looked for the delivery code.
`ApprovalLedger` is the abstract specification: an append-only ledger of
verified users, executed actions and exchanges.

**Snowflake** (`sequence`, `lastMillisecond`, `waiting` per process; `ids` is a
history). `NextId` is `nextId` up to its return or its busy-wait, `EndWait` the
end of the wait, `Tick` and `SetBack` the clock, which may skip ahead. `Pack`
and `Parse` are the bit fields, written as arithmetic; `SeqLimit` is 4096 in
the code. Worker and process number are 1 in every process, so nothing is said
of the ids of two processes, which may coincide.

**OtpLogin** (`otp` is the key of one e-mail; e-mails share no state; `expiry`,
`wrong`, `lost`, `logins` are histories). `RequestOtp` leads to `FindUser`,
`PutOtp`, `SendMail`, `VerifyOtp` to `GetOtp`, then `DelOtp`, `IncrAttempts` or
`MarkAsUsed` and `Login`. `isUsed` is never stored as true (markAsUsed
deletes), the boolean it returns is not looked at, and an increment writes the
code back without its TTL, all as in the code. The second expiry check in
`verifyOtp` coincides with the store's.

**AuthSession** (`sessions` are the rows, `keys` the Redis keys of a session;
`known`, `ended`, `logouts`, `raced` are histories). `Login` starts at
`generateToken`: `CreateSession`, then two `SetKey` in either order.
`GuardPasses` and `GuardRefuses` are the HTTP guards, `FindSession` and
`PutAccess` the refresh, `RevokeRows` and `Sweep` the two sides of a logout's
`Promise.all`, `SideFails` the failure of one while the other runs on.
There is no clock: keys may run out (`Expire`), and a guard may always refuse,
as it does for an expired signature. A scanned page is deleted in one `DEL`;
deleting its keys one at a time, each at some instant after the scan began, has
the same outcomes and is what `Sweep` does. Session ids are taken not to be
suffixes of one another, which the length of the generated ids ensures, so
`*<ssid>` matches one session. The user's row is read between `FindSession` and
`PutAccess`; a missing user is one of the failures. `register`,
`updatePassword` and the WebSocket guard do not touch this state.

**RateCounter** (one `rl:` key in its three shapes: `count`, `scores`, `tokens`
with `lastRefill`; `expires` is 0 when the key is not there; `log` is the
history of admissions). `Send` reads the clock, `Script` is the Lua script,
which Redis runs in one step: `FixedWindow` (also a plan's), `SlidingWindow`,
`TokenBucket`. `ScriptFails` is the answer "error-fallback", which lets the
request through uncounted; `Invalidate` deletes `rl:*`, as every change of the
configuration does, and the properties count from the last one. Tokens are
counted in parts: a request takes `Token` of them, so that a policy's refill of
0.1 tokens a second is 1 with `Token` 10. `renewals` is a history, how often a
bucket's key ran out: where `BucketTtl` seconds (3600) of refill are less than
the bucket holds, a key that runs out fills it early, by `Early`. All instances
read one clock. The branch for an unknown strategy is dead, the column being an
enumeration, and is left out.

A restart (`Restart`) kills some requests and flushes Redis in one step. A
request killed a while before the flush is covered by one whose command fails.

**EntityService** (`rows` and `cache`, one key per row, one for lists, one for
batches; `pc` and `call` the requests; `completed` and `past` are histories: per
row the version of the last answered write that the service made, and of the
last one that went past it). An entry is what the cache holds: plain values,
what is left of their life, and for how long they have not been what the
database holds. `GetCached` answers from it, and a list's entry with no more
than `Swr` seconds to go may be read anew (`Refresh`, which is
`refreshCacheInBackground`); `Load` and `Put` are the query and the SETEX of a
miss, `Write` the query of a creation, update or deletion, `ReadBack` the
reading after an update, `Drop` one deletion of the invalidation each, in the
order of `invalidateCacheForEntity`. `UpdateUser` and `Register` write through
the repository and drop no key (users.service.ts:142, 85): what they wrote is
counted in `past` when they are answered.

**MediaService** extends it by a file for each row (`objects` in R2; `asked`,
the rows whose deletion went to R2, and `given`, the keys that an update was
asked to give to a row of another name, are histories). `ProcessFile` and
`CreateRows` are the upload, `FindMedia` and `Decide` the handlers that look
their medium up first, `DeleteObject` and `ServeFile` what follows. `toJSON`
leaves out the key, so a medium that comes from the cache has none: `Plain` and
`HasObject` have that. `UpdateMedia` is PUT /media/:id, which passes on whatever
`UpdateMediaDto` accepts, `key` included (create-media.dto.ts:112): any name,
one without an object, or none. `ObjectStore` is R2: a failing command may have
been carried out.

**EntityPages** (`rows`, `cursor`, `page`, `seen`; `steady` are the rows nobody
touches). A walk is a client that asks for page after page; `OffsetPage` is
`listOffset`, `CursorPage` is `listCursor` and the GraphQL connection, with
`Encode`, `Decode`, `Bounds`, `Beyond` of `cursor.util.ts` and
`ConditionBuilder`; `Change` inserts, moves or deletes a row between two pages.
`Carried` is what of a value survives in a cursor: all of it, the milliseconds
of a finer timestamp, or nothing.

**QueryScope** (`select`, `relations`, `listed`, `info` the request, `whiteS`,
`whiteR` the whitelists). A tree of options is the set of the paths to its
leaves, two names deep; its states are all requests over three names, of which
`f1` is a relation and `f3` a column that `isRelationField` takes for one, and it
has no steps. `Filter` goes by the shape of both trees, as
`filterSelectByWhitelist` and `filterRelationsObject` do: `true` stays where the
whitelist has the key, be it a boolean or an object (`Booleans`), an object is
filtered where the whitelist has an object, and is dropped otherwise
(`Objects`). `ScopedSelect` and `FilterRelations` are `applyQueryOpts`,
`SelectAsked` and `RelationsAsked` what a GraphQL query makes of the options.
What the database then reads is TypeORM's, and modelled from what the services
expect of it (`Read`): a select that names no column restricts nothing, and a
relation that is loaded, or selected by its bare name, comes whole unless
columns of it are selected.

**RateConfig** (`rules` the rows behind whitelist, key, policies and plan,
`cached` their copies, `call` the checks, `admin` the administrators, `signals`
the published invalidations on their way). `Get`, `Load`, `Put` are a look-up's
commands, `After` what follows from it, with a policy coming back from the
cache without its methods; `WriteRule`, `Publish`, `ClearAllCache`, `Delete`
are a change, its message and what the receivers delete.
`PublishFails` and `LookupFails` are the errors, which let the request through.

**QrRooms** (`conn`, `room` of socket.io and `tracked`, the gateway's own map;
`pending` what a subscription has read before its await; `told` the version a
client was last told). `Connect`, `Ask`, `Join`, `JoinFails`, `Leave`,
`Disconnect`, `Change` and `BroadcastStatus` are the callbacks. `Namespaced`
says whether the gateway declares a namespace, as it does.

**QrLongPoll** (`version`, `writer`, `expired`; `poll` with the stage and what
it has read, `inbox` what reached its subscription, `paced` the guard's
window). `Read`, `Subscribe`, `Handle`, `Timeout`, `Fail` are the poll, `Change`,
`Store`, `PublishStatusChange` the writer of the ticket in the order of the
code, `Expire` and `Vanish` the ticket's end. The version read first is the one
that messages are compared with; one that is published before the subscription
is lost.

**MailQueue** (`queue`; `task`, what each worker, request and old handler is at;
`loaded`, `count`, `emitted`, `acked`; `lost`, `forgotten`, `tried`, `sent` and
`cut` are histories). `Emit` may lose the job silently, as `emit` without an
observer of errors does; `Deliver`, `Ask`, `Count`, `SendMail`, `Ack`, `Nack` are
the worker with the limit per recipient. Three accidents put a job back or
remove it. `Crash` and `Start` are a worker's death and its return. With
`ChannelLost` (acknowledgement is by hand, main.ts:72) the broker requeues what
the channel had not acknowledged while the handler lives on: it becomes one of
the worker's `Old` handlers, which may still count and send the mail, and whose
acknowledgement reaches nobody; the job may be in the queue, with another worker
and with an old handler at once. `BrokerRestart` empties the queue, since the
messages are not persistent (rabbitmq.module.ts:15-22): what was there or
unacknowledged is `forgotten`, and all channels are new. A handler that has only
its acknowledgement left when its channel is lost is at its end. A batch's
handler throws and is requeued, the handlers of single and template jobs find no
field and acknowledge. `MailPromise` is the abstract specification, what the
queue promises to whoever puts a job into it: a job is lost at once or pending
until it is done or the broker forgets it, it is done only after something was
tried for it, and its mail goes out again only after its handling was cut short
with the mail sent or the handler still at it (`cut`). `Standing` reads that off
`emitted`, `lost`, `forgotten` and `acked`.

**Accounts** (`users` the rows, `cached` which of them the cache holds, `pc`,
`call`, `copy` the requests; `peers` who was there when an account was asked
for). `Register`, `FindByEmail`, `Insert`; `UpdatePassword`, `Get`, `Load`,
`Put`, `Found`, `Update`. `ToJSON` leaves the password out, so that a change
which meets a cached account fails.

**CacheOps** (`keys`, three of them; `read` what a caller has read; `counted`,
`unsure` histories). `AskLock` and `TakeLock` are `setLock`'s two commands,
`CompareAndSwap` and `AtomicMultiOperation` the scripts, `Recall`, `Factory`
and `Store` are `remember`. A script that fails half way has done its first
half; a lost reply is one of its outcomes.

**QrActions** (`type`, `payload`, `status`, `preview`, `stage`). `Advance` and
`Throw` are the stages of `BaseQrAction.run`; an action needs fields and the
payload has any shape: `Tree` is the set of payloads and of what they are made
of, any set of texts, objects and arrays that has the parts of each
(`TreeSound`). `SanitizeValue` is `sanitizePayload`'s recursion as a function of
the depth and the value; `Below` takes a tree apart level by level, and
`ToBeShown` says path by path what a preview is to contain.

Some modules are checked together in one run (`MCLists`, `MCRateLimit`,
`MCDelivery`, `MCParts`): a behaviour picks one of them and leaves the variables
of the others alone, so that nothing of one depends on the other. `MCLists`
instantiates both of its modules; the constants and variables that the two share
a name for with `EntityService` are called `RowId`, `SortValue`, `Undefined`,
`table` and `walk` there, so that one module can hold the proofs about all that
happens to an entity's rows.

## 4. Runs

Times are for two workers.

| Run | Module, cfg | Question | Result |
|---|---|---|---|
| `qr_serial` | MCQrTicket, QrSerial | Requests one at a time, each failing anywhere: does the ticket's life cycle hold? | holds (20 s): an action runs once per ticket, codes are exchanged once, rejections are final, a delivery answers with the user whose action ran, a poll is not told "unchanged" wrongly |
| `qr_concurrent` | MCQrTicket, QrConcurrent | Two requests at every interleaving, with failures and a flush: what is left? | holds (2 min): exchanges are backed by actions, USED is earned; the flow implements the ledger |
| `snowflake` | MCSnowflake, Snowflake | Two generators with the same numbers, as all processes have, on a clock that skips and is set back | holds (12 s): each one's ids grow while the clock is not set back, the busy-wait ends |
| `otp` | MCOtpLogin, OtpLogin | Two requests on one code, failures, expiry, a restart | holds (90 s): guesses bounded, acceptance in time, a used code refused afterwards, no issue comes back |
| `session` | MCAuthSession, AuthSession | Two users, logins, refreshes and logouts, two at a time, failures, a loss of keys | holds (45 s): logouts are final but for refreshes that overlap with them, revoked rows are not refreshed, nobody else is logged out |
| `entities` | MCMediaService, Entities | Rows, copies and files under two overlapping requests with a fault: how old is what a client gets, and is the file that a row names there? | holds (4 min): no entry is older than its life and the delay of its SETEX; an entry that lacks an answered write of the service was read before one of the deletions and stored after it, one that lacks a write past the service runs out; a row's file is there unless an update gave its name, or none, to another row, or its own deletion went to R2 |
| `lists` | MCLists, Lists | Walking through pages while a row comes, goes or moves; every request's options against every whitelist | holds (3 min): plain cursors neither skip nor repeat, timestamps repeat nothing downwards; a hidden column is read in two ways only, nothing that is whitelisted is lost, and relations are exact |
| `rate_limit` | MCRateLimit, RateLimit | Three checks of one counter for each strategy; two checks under a change of the rules | holds (150 s): fewer than twice the limit per window's length, at most the limit of recent seconds, capacity plus refill plus what keys that ran out give ahead; a rule change is seen by checks that begin after it, and a check decides by rules of the last moments |
| `delivery` | MCDelivery, Delivery | Joining, leaving and broadcasts; polls beside changes; jobs with a failure and an accident: a crash, a lost channel or a restart of the broker | holds (200 s): rooms agree, polls are answered with what they missed, an OTP job in the queue is kept and handled unless the broker restarts, the queue implements `MailPromise` |
| `parts` | MCParts, Parts | Registrations and password changes at once; the cache's scripts and lock; every payload | holds (130 s): two accounts on one address were both asked for before either was there, passwords are replaced by who knew them, counters account for every increment, locks end, previews are exact |
| `rate_key_white` | MCRateLimit, RateKeyWhite | "Allow immediately" if the API key has `isWhitelist` (rate-limit/entities/README.md:305-307) | violated: the query leaves out the column that `isValid` looks at first, so every key counts as invalid |
| `subscriber` | MCDelivery, Subscriber | "Join the ticket room to receive updates" (qr.gateway.ts:194) | violated: `broadcastToRoom` looks the room up where a namespace has none, so nobody hears of a change |

What does not hold when requests overlap is not claimed: `ActionRunsOnce`,
`CodesRedeemOnce`, `RejectionIsFinal`, `DeliveredUserRan`, `NotModifiedIsFresh`
and `LifeCycle` are properties of requests that do not overlap, because two
approvals, or two exchanges of one code, may both pass their checks before
either writes. `Increasing` is conditioned on a clock that was not set back.
`LogoutIsFinal` excepts sessions in `raced`: a refresh that read its row before
the logout revoked it sets the access key again after the logout deleted it.
`SharedOnlyByOverlap` is what is left of one account per address without a
unique index. `UpdatesAreSeen` excepts, for writes of the service, entries that
were read before a deletion of their key and stored after it (`overlap`), and
promises of writes past the service no more than that the entries without them
run out: the age that bounds such an entry's life counts from that write at the
latest. `UploadBacked` excepts rows that name a key which an update was asked to
give to another row, or none after one was asked to empty another row's, and
rows whose own deletion went to R2: a deletion that fails between R2 and its
UPDATE, or an activation after it, leaves a row without its file. `WhitelistHolds`
excepts the two ways in which a hidden column is read, a select of which nothing
is left, and a relation of which no whitelisted column is selected.
`OtpJobsKept` and `QueuedOtpHandled` except jobs that a restart of the broker
forgot; the latter also excepts queues with a batch job, which is requeued for
ever, and both speak of jobs that the broker got: one that is emitted may be
lost before. `NoRowTwice` and `NoRowMissed` leave out the cases in which the
code does repeat or skip rows: offsets under changes, cursors over a column
that the whitelist hides, and timestamps upwards.

Deadlock is not checked: every behaviour ends when the bound on requests is
reached.

### Disagreements found on the way

The two violated runs are the findings. The model has, or led to, these as
well; each is a difference between the code and what it or its documentation
says, and none has a run of its own.

- QR: the grant and the delivery code of one approval are both exchanged
  (docs/QR_ACTIONS.md:27 "can only be used once"; qr.service.ts:411). A failed
  action goes back to PENDING under the version of the approval
  (qr.service.ts:299): a long poll that waits for a version misses it. A poll
  that meets an expired ticket raises its version and publishes nothing.
  `parseIfNoneMatch` ignores the ticket id. A client that leaves its last room
  is no longer counted as connected; one that goes while its subscription is
  pending stays in the maps. `handleConnection` looks for a user that only a
  later guard sets. `friendUserId` and `pubKey` are hidden from the preview that
  is to show them. The bodies of the actions are not written yet.
- Primary keys: every process has worker and process number 1
  (snowflake/index.ts:6), so two processes that insert in one millisecond may
  give the same id (base.entity.ts:90 "unique IDs across distributed systems").
- OTP: two overlapping verifications both log in (src/auth/README.md:56
  "One-time use").
- Entities: `batchLoadByIds` stores the rows in its caller's order under a key
  made of the sorted ids; `findById`'s key ignores the options;
  `updateUser` drops no key. The whitelists let hidden columns through in two
  ways: `user: true` against a whitelist of the user's columns is kept
  (base.service.ts:738, and 657 for relations), and a select of which nothing is
  left makes TypeORM select everything (568 "prevents exposing sensitive data");
  only media has a nested whitelist (media.service.ts:56), and no endpoint passes
  a client's select on. PUT /media/:id may set any `key`, another row's too,
  whose object is then served under it and taken by its deletion. A cursor over `createdAt`, which the media
  whitelist hides, gives the first page again, and with GraphQL's unsigned
  cursors `after` is ignored and the order turns. A search over several fields
  together with a cursor is refused by the database. `deleteMedia` of a medium
  from the cache leaves the file in R2 (media.entity.ts:139). The counters of
  views and downloads lose overlapping increments.
- Rate limit: policies apply only on a cache miss. `updatePlan` looks a name up
  as an id and always fails. The sliding window counts seconds, not requests
  (rate-limit-policy.entity.ts:85). A change of the configuration deletes every
  client's counters.
- Mail: the messages are not persistent (rabbitmq.module.ts:15-22;
  docs/ARCHITECTURE.md:423 and docs/PROJECT_OVERVIEW.md:192 "Message
  Persistence: Durable message storage"), so a restart of the broker loses the
  jobs it had accepted. A lost channel sends a mail twice with every worker
  alive. A mail is never tried again and there is no dead-letter queue
  (docs/MAIL_QUEUE_IMPLEMENTATION.md:143-146); single and template jobs are
  lost, a batch job blocks the queue; the tenth mail of an hour is refused; a
  Redis that fails at start leaves the OTP template unregistered, and OTP jobs
  are acknowledged unsent.
- Accounts: a password change within a minute of any look-up of the account
  fails, since the cached copy has no password; `logoutFromAllDevices` is never
  read. Addresses are lower-cased at registration and not at login. One address
  may get two accounts. The upsert of device tokens has no index to conflict on.
- Cache: `setLock` is a GET and a SETEX, so two callers may both take the lock,
  and anybody releases it; `atomicMultiOperation` does not undo its first half.

### Bounds

- Requests: six in sequence suffice for create, scan, a failed approval, a
  successful one and both exchanges; four overlapping ones for a create, two
  racing writers and a reader. Three overlapping writers add no new pair of
  conflicting steps, and each write depends on one earlier read only.
- `MaxInFlight` 2: every conflict in these handlers is between two requests.
  The proofs hold for any number.
- Time: TTLs of 1 and a clock of 0..2 put every step before, at and after an
  expiry.
- `QrConcurrent` leaves out preview, reject and the clean-up of grants, which
  `QrSerial` has; a rejection reads and writes the ticket as a scan does.
- `SeqLimit` 2: one full millisecond and its wrap-around; 4096 in the code, any
  value up to that in the proofs.
- `OtpLogin`: `MaxAttempts` 2 (5 in the code) and two codes, a right one and a
  wrong one; five requests for an issue, its exhaustion and a second issue.
- `AuthSession`: four requests are two logins, a logout and a later use, or one
  login, a refresh beside a logout and a use; two sessions tell "this session"
  from "this user's", two users tell users apart. `MaxLosses` counts keys that
  run out and restarts together.
- `RateCounter`: a limit of 2 and a bucket of two requests, refilled by half a
  request a second, are reached twice within seven seconds, with windows of three
  seconds, a bucket's key of four and a script up to two seconds late; four
  seconds do not fill the bucket, so a key that runs out fills it early.
- `Entities`: two rows tell "this entry" from "all entries", and a list of two
  is half changed in between; two workers give every pair of overlapping
  requests, and three requests leave one to look afterwards. `Ttl` 2 with `Swr`
  1 puts a reading before, in and after the second half of an entry's life;
  `MaxDelay` 1 lets a SETEX come late.
- `Lists`: four rows and pages of one or two make walks with a full and a
  half-full last page and, after an insertion, one page more; three values in
  two milliseconds give equal values, equal milliseconds of different values
  and different ones; one change is enough to move any row past the cursor. The
  options have three names, a relation, a column and a column that looks like a
  relation, each of them also below the relation; one of them is hidden from
  queries.
- `RateLimit`: all four kinds of rules are looked up, the policies are the ones
  changed (`Changing`); their caching differs from the others' only in what
  comes back. One administrator, one change: a second one repeats the first.
- `Delivery`: two tickets tell rooms apart, a change each; two polls share the
  channel, two changes are one heard and one missed; two OTP jobs and a batch
  for two workers are a job behind, beside and before another. One accident
  (`MaxAccidents`) of each kind, one old handler per worker (`MaxOld`) and a limit
  of two mails, of which the second is refused; the proofs are for any number.
- `Parts`: three requests are an account and two that race for it, or a change
  between two look-ups; three addresses of which two are spellings of one. Two
  callers with four calls race for a lock, leave it, and swap a counter. The
  payloads have up to three levels, one below where `sanitizePayload` cuts with
  `MaxDepth` 2, as in the code, and arrays cut at `MaxItems` 1 (10).
- Symmetry is declared for users, sessions, codes, checks, rows and workers,
  which are only compared, and only in runs without liveness.

### Fairness

- `Snowflake`: weak fairness of `Tick` (the wall clock goes on) and of
  `EndWait` (the thread that spins in `nextId` is scheduled and looks at the
  clock again).
- `QrLongPoll`: weak fairness of a poll's own steps. They are continuations of
  promises that settle: a Redis command answers or fails, and the wait has a
  timer of its own. Neither the ticket nor its writer is fair: it may never
  change, and a writer may die between its SETEX and its message.
- `MailQueue`: weak fairness of a worker's steps: the broker delivers what is in
  the queue to a worker that is there, a worker that died is started again by
  its supervisor, and the sending ends. Emitting is not fair, nor is an old
  handler. Accidents are bounded.
- `CacheOps`: weak fairness of the expiry of the lock's key, which is Redis's.
  No caller is fair: a holder may never release.

Nothing else is fair: clients may stop, and a process may be killed.

## 5. Proofs

| Theorem | Says |
|---|---|
| `QrTypeCorrect`, `QrRedemptionBacked`, `QrUsedIsEarned`, `QrImplementsLedger` | types; exchanges and USED are backed by executed actions; the flow implements `ApprovalLedger` |
| `QrExpiredIsPast`, `QrSessionBound` | EXPIRED is stored only after `expiresAt`; a delivery code belongs to the web session of its ticket |
| `QrActionRunsOnce`, `QrCodesRedeemOnce`, `QrRejectionIsFinal`, `QrDeliveredUserRan`, `QrNotModifiedIsFresh`, `QrLifeCycle` | what holds of requests that do not overlap, the properties of the run `qr_serial` |
| `ParsePack`, `SnowflakeTypeCorrect`, `SnowflakeIncreasing` | `parseId` inverts the packing; types; a process's ids grow |
| `OtpTypeCorrect`, `OtpGuessLimit`, `OtpAcceptedInTime`, `OtpUsedCodesRefused`, `OtpNeverRestored` | types and the properties of the run `otp` |
| `SessionTypeCorrect`, `SessionLogoutIsFinal`, `SessionRevokedNotRefreshed`, `SessionOthersStayLoggedIn` | types and the properties of the run `session` |
| `CounterTypeCorrect`, `CounterKeysRunOut`, `CounterFixedWindowPace`, `CounterSlidingSeconds`, `CounterBucketPace` | types; no counter's key stays for ever; the three paces of the run `rate_limit`, that of the bucket for any capacity and refill |
| `AccountsTypeCorrect`, `AccountsSharedOnlyByOverlap`, `AccountsReplacedByKnowing` | types; who shares an address; who replaces a password |
| `CacheTypeCorrect`, `CacheAccounted` | types; the counter holds what was answered |
| `PreviewIsExact` | what of a payload of any depth a preview shows |
| `EntityBoundedStaleness`, `EntityUpdatesAreSeen`, `MediaUploadBacked` | how old an entry of the cache is; which entries lack an answered write; the object of the key of every row |
| `RuleHotReload`, `RuleDecidedByRecent` | a rule as it was before a change that was answered and heard is in the cache only by an overlap; by how old a rule a check is decided |
| `NoRowIsTwice`, `NoRowIsMissed`, `WhitelistAlwaysHolds` | the pages of a list tile it; what of a request's options reaches the repository, and which columns are read by it |
| `MailOtpJobsKept`, `MailImplementsPromise`, `MailSentOnceUnlessCut` | a one-time-code job that the broker has not forgotten is in one place until it is acknowledged; the queue and its workers implement `MailPromise`; so a second mail takes a worker's death with the mail sent, or a channel lost under a handler that could still send it |
| `QrRoomsAgree` | the gateway's two records of its rooms agree |

They hold for all values of the constants; the assumptions are that bounds and
TTLs are natural numbers, that `Nil` is no record or value, what `Snowflake` says
of worker and process numbers and of `SeqLimit`, that lower-casing an address
twice is lower-casing it once (`Accounts`), and, in `RateCounter`, that a script
is not as late as a bucket's time to live; capacity and refill are any numbers.
`Sound` (`CacheOps`, `QrRooms`, the entities) and `RuleSound` (`RateConfig`) say
the same of modules whose constants TLC's modules fix: bounds and TTLs are
natural numbers, `Nil` is none of the data, the keys of lists are not ids of
rows, an invalid key is kept no longer than others. `PagesSound` says of the
pages that a table is finite, ids and sort values are numbers and undefined is
neither a number nor a cursor; `ScopeSound`, that undefined is no object of
options; `TreeSound`, of payloads, that they are what JSON gives, with their parts. The six properties of
requests that do not overlap are proved under `OneAtATime`, `MaxInFlight = 1`,
which is how the run checks them: any number of requests, tickets, users and
failures, one request after the other. None of the properties is
inductive: a stale copy in a request's frame can break each of them a few steps
later, so the invariants speak about what requests hold at each label. Type
correctness is proved and, where it is, not checked by a run as well.

- *QrTicket.* `TypeInv` (types and, per label, what a frame holds), `Backing`
  (whatever a frame is about to store or answer with is already backed by a
  history, as is everything in Redis) and `Once` (a request number occurs once
  in the histories, which is what lets a token name its action). The refinement
  needs only that each step adds at most one backed line. For requests one at a
  time the invariant is the life of a ticket: `StoredLife` says for every stored
  status what the histories hold of the ticket, `FrameLife` what the one request
  on its way may still write, and `TicketLife` joins the two; `Spent`,
  `FrameCodes` and `OneEach` do the same for the codes, where a grant that could
  not be deleted is the case that matters: its ticket is USED. `Origins` says that
  some function gives every ticket a session and an expiry with which each
  object of it, stored or held, agrees.
- *Snowflake.* `Order`: per process, the last id is the packing of what the
  generator holds, the ids are sorted and none is above it. `ParsePack` is arithmetic with quotients and
  remainders, shown field by field.
- *OtpLogin.* `TypeInv`; `Expiries` (the stored expiry is the issue's, and
  whoever compared did so in time); `Retirement` (an issue that logged in is
  neither in Redis nor in a frame about to write it back); `Counting` (wrong
  codes are in the stored counter, in a frame about to count them, or lost).
- *AuthSession.* `TypeInv`; `Finality` (keys of an ended session are gone,
  those of one being ended are still to be visited, and no refresh holds such a
  session past its guard unless it raced); `Revocation` (a refresh that arrived
  after the row was revoked stops at the row); `Isolation` (a key or row that is
  missing or revoked belongs to a session some logout asked for).
- *RateCounter.* `FixedInv` (when the current window started in the log, and
  that an admission a whole limit earlier is older than that window by its
  length), `SlidingInv` (the set still has every recent admitted second),
  `BucketInv` (tokens and what was given out since any admission never exceed
  the capacity, the refill since its clock and `Early` for each time the key ran
  out since; once the key has run out, the latter two alone pay for it). `SlidingSeconds` follows by comparing cardinalities.
- *Accounts.* `Unborn` (a request before its insertion has no row), `Mailed`
  (addresses of rows are normalised, and `peers` is who was there), `Asking` (a
  registration past its look-up met no account of its address that was there
  when it came) and `Knowing` (a change past the comparison knew one of the
  passwords in `seen`, which holds all that the row had since).
- *CacheOps.* What a swap is about to compare with is a value that was read;
  each script moves counter and tally together.
- *QrActions.* The state has little to say (`ActionsInv`: the preview is made of
  the payload), the recursion all. The library's induction theorems take a
  formula as a parameter, which no installed prover instantiates; so
  `SetInduction` is shown for sets of naturals, from the well-founded order, and
  used with the set of the numbers for which a formula is true. With it,
  `SanitizeExists` and `BelowExists` show that the two recursive functions
  satisfy their equations (for each k some function does within k steps of the
  end), and `AllLevels` that at every level the preview has only what is
  withheld and what is shown of parts of the payload at that level (`ShowsOnly`)
  and all of the latter (`ShowsAll`); `LevelDown` and `LevelUp` are its step.
- *EntityService, MediaService.* `Fresher`: a value on its way to the cache is as
  old as its life is short, so that what it is stored with adds up. `SeenAll`: a
  value older than an answered write is marked as overlapped, and so is one
  older than a write whose request has dropped the value's key already (`Gone`):
  when the request is answered, it has dropped all of them. `Dated`, for the
  writes past the service: a value that is not known to be old holds what the
  rows hold (`Current`), and a version in `past` is one that its row had; with
  `Fresher`, an entry without it is old and not yet too old. `Backed`, with `Own`,
  for the files: a row's key is its own name or one that an update was asked for
  (`Told`), a creation has the objects of the files that it has gone through, and
  a deletion goes to the object its copy names; `Loose` are the names whose
  object may go, those given away and those of rows whose deletion went to R2,
  and no step takes the object of another (`Kept`).
- *EntityPages.* `Walked`, for cursors that carry a place in the order: no
  steady row that was answered is after the cursor, each was answered once, and,
  if the place is whole, every steady row that matches and is not after the
  cursor was answered. A millisecond cut off downwards puts the cursor after its
  row when the order descends (`EncodeBeyond`), which is why nothing is repeated
  then, and why rows can be missed. `OffsetWalked`, for offsets: the row at place
  n of the answers is the one with n - 1 rows before it, so no row has two
  places, and as many answers as rows are all of them.
- *QueryScope.* `FilterFacts`: a filter adds nothing, keeps what the whitelist has
  in the same place, and of what it keeps a pair of names is in the whitelist and
  a single name at least one of its keys. `SelectHolds` goes through the columns
  that `Read` has and says why each was read; `RelationsHold` does the same for
  lists, objects and queries.
- *RateConfig.* `RuleInv`: a value in the cache or on its way (`Heard`) is the
  rule after its last answered change, or is marked as overlapped, or a deletion
  is yet to come or was lost; its age and what is left of its life add up to no
  more than a life and the delay (`EntryOK`, `LookupOK`); and an administrator
  has written no version that the rule did not have (`OrderOK`).
- *MailQueue.* `MailInv`: a job is in the queue at one place or in one worker's
  hands, never both, and in neither once it is acknowledged or forgotten
  (`Somewhere`); a worker's stage says whether its mail was sent (`TaskFits`). The
  mails of a job are those sent and those that its old handlers, of which there
  may be several, can still send (`Spent`): there is at most one more of them
  than the times it was cut short, and none more while it has still to be handled
  (`SentFits`), which is what lets an old handler and a worker send at once.
  Every step then is one of the abstract steps (`EmitPromise`, `SendPromise`,
  `AckPromise`, `CutPromise`, `RestartPromise`) or leaves what it sees alone
  (`QuietStep`, `DeliverPromise`), and `MailSentOnceUnlessCut` is the abstract
  specification's own property.
- *QrRooms.* `Waiting`: a client that went while its subscription was pending is
  remembered as late, which is the one way into a map for a client that is gone.

Only model-checked: the liveness properties (`WaitEnds`, `PollAnswered`,
`MissedChangeFound`, `QueuedOtpHandled`, `LockEnds`), which rest on fairness.
The two violated statements are counterexamples found by TLC.

## 6. Not modelled

- *Entity subscribers*: TypeORM hooks that validate and log; the one that would
  touch the cache is commented out. *Firebase*, *health*, the *HTTP client*:
  pass-through clients. *Bootstrap, filters, decorators, configuration*: wiring.
- In components modelled partly: the generators of tokens and the deep links of
  the QR utilities (distinct values and text); the WebSocket guard, which checks
  a signature and no key; device tokens, whose upsert fails at the database for
  want of a unique index, and roles; listings of keys, monitoring and metrics of
  the cache service; templates and their validation in the mail sender.
- Everywhere: formats, hashing, validation, logging and wording; what an action
  does beyond succeeding or throwing, which is not written yet; replication and
  eviction in Redis; isolation levels in PostgreSQL, whose statements are atomic
  here; the forwarding of broadcasts between instances of the gateway.
