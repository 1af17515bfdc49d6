----------------------------- MODULE QrLongPoll -----------------------------
(***************************************************************************)
(* The long poll for a ticket: longPollTicket of the controller            *)
(* (src/src/qr/qr.controller.ts) with the waiting and the publishing of    *)
(* QrPollingService (src/src/qr/qr-polling.service.ts).                    *)
(*                                                                         *)
(* A poll reads the ticket's version, subscribes to its channel on a       *)
(* connection of its own and waits for a message with a later version or   *)
(* for its timer; whichever comes first, it reads the ticket again and     *)
(* answers with that.  A change of the ticket is stored first and          *)
(* published afterwards.  Redis keeps no message for a subscriber that     *)
(* comes late, so what is published between the reading and the            *)
(* subscription is not heard.  Both outcomes of the wait are handled       *)
(* alike and are not told apart here; nor are the ticket's other fields,   *)
(* which are the subject of QrTicket.                                      *)
(***************************************************************************)
EXTENDS Naturals, FiniteSets

CONSTANTS
    Poll,       \* browsers, each with one poll at a time
    MaxAsks,    \* bound: polls of a browser
    MaxChanges  \* bound: changes of the ticket by other requests

VARIABLES
    version,  \* Redis: the version of the ticket, 0 when there is no such key
    expired,  \* Date.now() is past ticket.expiresAt
    writer,   \* the request that changes the ticket: where it is, what it read
    poll,     \* the poll of each browser: where it is, since, and what it read
    inbox,    \* the messages on the way to each subscription, as their versions
    paced,    \* Redis: the browsers with a key of the polling rate limit
    asks,     \* polls of each browser so far
    changes   \* changes of the ticket so far

vars == <<version, expired, writer, poll, inbox, paced, asks, changes>>

Stage == {"idle", "read", "keep", "subscribing", "listening", "closing",
          "reread", "rekeep"}

Waiting(p) == poll[p].stage \in {"subscribing", "listening", "closing"}

\* Reads may raise the version of an expired ticket, two in each poll.
MaxVersion == 1 + MaxChanges + 2 * MaxAsks * Cardinality(Poll)

Goto(p, stage, got) == poll' = [poll EXCEPT ![p].stage = stage, ![p].got = got]

-----------------------------------------------------------------------------
(* A poll.                                                                 *)

\* If-None-Match has the version of the last answer, or is missing.
Known(p) == {0, poll[p].got}

\* QrPollingRateLimitGuard: SET NX on the browser's key, and a failure of it
\* lets the request pass.  A refused poll changes nothing.
Ask(p) ==
    /\ poll[p].stage = "idle" /\ asks[p] < MaxAsks
    /\ \/ p \notin paced /\ paced' = paced \cup {p}
       \/ UNCHANGED paced
    /\ \E since \in Known(p) :
          poll' = [poll EXCEPT ![p] = [stage |-> "read", since |-> since, got |-> 0]]
    /\ asks' = [asks EXCEPT ![p] = @ + 1]
    /\ UNCHANGED <<version, expired, writer, inbox, changes>>

\* Where a poll goes with the version it has read: the first time it waits
\* when that is no later than `since`.
After(p, v) ==
    IF poll[p].stage \in {"read", "keep"} /\ v # 0 /\ v <= poll[p].since
    THEN "subscribing" ELSE "idle"

\* readTicketSnapshot, its GET.  A missing ticket ends the poll; an expired
\* one is given a new version, which is stored but not published.
Read(p) ==
    /\ poll[p].stage \in {"read", "reread"}
    /\ IF version # 0 /\ expired
       THEN Goto(p, IF poll[p].stage = "read" THEN "keep" ELSE "rekeep", version + 1)
       ELSE Goto(p, After(p, version), version)
    /\ UNCHANGED <<version, expired, writer, inbox, paced, asks, changes>>

\* Its SETEX of the expired ticket.
Keep(p) ==
    /\ poll[p].stage \in {"keep", "rekeep"}
    /\ version' = poll[p].got
    /\ Goto(p, After(p, poll[p].got), poll[p].got)
    /\ UNCHANGED <<expired, writer, inbox, paced, asks, changes>>

\* SUBSCRIBE is carried out: from here on the poll gets the messages.
Subscribe(p) ==
    /\ poll[p].stage = "subscribing"
    /\ Goto(p, "listening", poll[p].got)
    /\ UNCHANGED <<version, expired, writer, inbox, paced, asks, changes>>

\* SUBSCRIBE or the connection fails; the messages on it are gone.
Fail(p) ==
    /\ poll[p].stage \in {"subscribing", "listening"}
    /\ Goto(p, "closing", poll[p].got)
    /\ inbox' = [inbox EXCEPT ![p] = {}]
    /\ UNCHANGED <<version, expired, writer, paced, asks, changes>>

\* A message.  The first that is later than `since` begins the clean-up; one
\* that comes while it goes on finds the poll resolved and does not wait.
Handle(p) ==
    \E v \in inbox[p] :
       /\ poll[p].stage \in {"listening", "closing"}
       /\ inbox' = [inbox EXCEPT ![p] = @ \ {v}]
       /\ IF v > poll[p].since
          THEN Goto(p, IF poll[p].stage = "listening" THEN "closing" ELSE "reread",
                    poll[p].got)
          ELSE UNCHANGED poll
       /\ UNCHANGED <<version, expired, writer, paced, asks, changes>>

\* UNSUBSCRIBE and QUIT of the clean-up are done or have failed.
Closed(p) ==
    /\ poll[p].stage = "closing"
    /\ Goto(p, "reread", poll[p].got)
    /\ inbox' = [inbox EXCEPT ![p] = {}]
    /\ UNCHANGED <<version, expired, writer, paced, asks, changes>>

\* Mutant: the timer answers with what the poll has read before.
TimeoutAnswers(p) ==
    /\ poll[p].stage \in {"subscribing", "listening"}
    /\ Goto(p, "idle", poll[p].got)
    /\ inbox' = [inbox EXCEPT ![p] = {}]
    /\ UNCHANGED <<version, expired, writer, paced, asks, changes>>

\* Mutant: the timer is stopped as soon as the subscription stands.
TimeoutStopped(p) ==
    /\ poll[p].stage = "subscribing"
    /\ Goto(p, "reread", poll[p].got)
    /\ inbox' = [inbox EXCEPT ![p] = {}]
    /\ UNCHANGED <<version, expired, writer, paced, asks, changes>>

\* The timer of LONG_POLL_TIMEOUT_MS; it does not wait for its clean-up.
Timeout(p) ==
    /\ poll[p].stage \in {"subscribing", "listening"}
    /\ Goto(p, "reread", poll[p].got)
    /\ inbox' = [inbox EXCEPT ![p] = {}]
    /\ UNCHANGED <<version, expired, writer, paced, asks, changes>>

\* The key of the polling rate limit runs out after RATE_LIMIT_WINDOW_SEC.
PaceEnds(p) ==
    /\ p \in paced
    /\ paced' = paced \ {p}
    /\ UNCHANGED <<version, expired, writer, poll, inbox, asks, changes>>

-----------------------------------------------------------------------------
(* The ticket.                                                             *)

\* A scan, an approval, a rejection or an exchange reads the ticket; only the
\* exchange goes on when that has expired.
Change ==
    /\ writer.stage = "idle" /\ version # 0 /\ changes < MaxChanges
    /\ writer' = [stage |-> "store", version |-> version + 1]
    /\ changes' = changes + 1
    /\ UNCHANGED <<version, expired, poll, inbox, paced, asks>>

\* It stores it, over whatever was stored in between.
Store ==
    /\ writer.stage = "store"
    /\ version' = writer.version
    /\ writer' = [writer EXCEPT !.stage = "publish"]
    /\ UNCHANGED <<expired, poll, inbox, paced, asks, changes>>

\* publishStatusChange: the message goes to whoever listens now; a failure
\* is logged.
PublishStatusChange ==
    /\ writer.stage = "publish"
    /\ \/ inbox' = [p \in Poll |-> IF poll[p].stage \in {"listening", "closing"}
                                   THEN inbox[p] \cup {writer.version} ELSE inbox[p]]
       \/ UNCHANGED inbox
    /\ writer' = [stage |-> "idle", version |-> 0]
    /\ UNCHANGED <<version, expired, poll, paced, asks, changes>>

\* Date.now() passes ticket.expiresAt.
Expire ==
    /\ ~expired
    /\ expired' = TRUE
    /\ UNCHANGED <<version, writer, poll, inbox, paced, asks, changes>>

\* The ticket's key runs out, or cleanupTicket deletes it.
Vanish ==
    /\ version # 0
    /\ version' = 0
    /\ UNCHANGED <<expired, writer, poll, inbox, paced, asks, changes>>

-----------------------------------------------------------------------------
Init ==
    /\ version = 1 /\ expired = FALSE
    /\ writer = [stage |-> "idle", version |-> 0]
    /\ \E got \in [Poll -> {0, 1}] :    \* some have asked before
          poll = [p \in Poll |-> [stage |-> "idle", since |-> 0, got |-> got[p]]]
    /\ inbox = [p \in Poll |-> {}]
    /\ paced = {}
    /\ asks = [p \in Poll |-> 0] /\ changes = 0

\* What a poll does by itself once it has been asked.
Progress(p) ==
    Read(p) \/ Keep(p) \/ Subscribe(p) \/ Handle(p) \/ Closed(p) \/ Timeout(p)

Next ==
    \/ \E p \in Poll : Ask(p) \/ Progress(p) \/ Fail(p) \/ PaceEnds(p)
    \/ Change \/ Store \/ PublishStatusChange \/ Expire \/ Vanish

\* Commands are answered or fail, and timers fire.  That a connection fails is
\* not part of it.
Fairness == \A p \in Poll : WF_vars(Progress(p))

Spec == Init /\ [][Next]_vars /\ Fairness

-----------------------------------------------------------------------------
TypeOK ==
    /\ version \in 0..MaxVersion /\ expired \in BOOLEAN
    /\ writer \in [stage: {"idle", "store", "publish"}, version: 0..MaxVersion]
    /\ poll \in [Poll -> [stage: Stage, since: 0..MaxVersion, got: 0..MaxVersion]]
    /\ inbox \in [Poll -> SUBSET (1..MaxVersion)]
    /\ paced \subseteq Poll
    /\ asks \in [Poll -> 0..MaxAsks] /\ changes \in 0..MaxChanges

\* Every long poll is answered, whatever fails and whatever is missed: the
\* timer covers the message that was published before the subscription stood.
PollAnswered == \A p \in Poll : poll[p].stage = "read" ~> poll[p].stage = "idle"

\* A change that a waiting poll has not heard of is still in its answer: a
\* poll that waits while the ticket is past what the browser knows is
\* answered with a version past that, unless an overlapping request sets the
\* ticket back or its key goes.
MissedChangeFound ==
    \A p \in Poll :
        Waiting(p) /\ version > poll[p].since
            ~> \/ poll[p].stage = "idle" /\ poll[p].got > poll[p].since
               \/ version <= poll[p].since
=============================================================================
