------------------------------ MODULE CacheOps ------------------------------
(***************************************************************************)
(* What CacheService offers beyond get, set and delete                     *)
(* (src/src/shared/services/cache/cache.service.ts): the lock, the         *)
(* cache-aside helper and the two Lua scripts that change keys.  The       *)
(* server's own code calls none of them so far.                            *)
(*                                                                         *)
(* Three keys stand for all: a lock, a counter that callers advance with   *)
(* compareAndSwap and with increments of atomicMultiOperation, and a value *)
(* that remember computes.  A script is one step; everything else takes a  *)
(* step for every command.  A script that meets an error stops there, and  *)
(* Redis does not take back what it has done.  There is no clock: a key    *)
(* with a TTL may run out at any time and does in the end.                 *)
(***************************************************************************)
EXTENDS Naturals, FiniteSets

CONSTANTS
    Caller,    \* requests that call the service
    Nil,       \* no key, null
    MaxCalls,  \* bound: calls in a behaviour
    MaxLosses  \* bound: crashed callers, failed calls, flushes, counters run out

Key == {"lock", "counter", "memo"}

Entry == [val: Nat, expires: BOOLEAN]

Pc == {"idle", "lock", "setLock", "swap", "recall", "factory", "store", "dead"}

VARIABLES
    keys,    \* Redis: the entry of each key, or Nil
    pc,      \* where each caller is
    read,    \* what it has read or computed
    calls,   \* calls so far
    losses,  \* losses so far
    holders, \* callers that were told they have the lock and have not released it
    counted, \* history: increments of the counter's life that were answered
    unsure   \* history: those that were not, because their call failed

bounds == <<calls, losses>>
tally  == <<counted, unsure>>
vars   == <<keys, pc, read, bounds, holders, tally>>

-----------------------------------------------------------------------------
Goto(c, l) == pc' = [pc EXCEPT ![c] = l]

Begin(c, l) ==
    /\ pc[c] = "idle" /\ calls < MaxCalls
    /\ calls' = calls + 1
    /\ Goto(c, l)

Lose == losses < MaxLosses /\ losses' = losses + 1

\* What the counter's key holds, as compareAndSwap and INCR see it.
Current == IF keys["counter"] = Nil THEN Nil ELSE keys["counter"].val

OrZero(v) == IF v = Nil THEN 0 ELSE v

-----------------------------------------------------------------------------
(* The lock.                                                               *)

\* setLock: GET.
SetLock(c) ==
    /\ Begin(c, "lock")
    /\ UNCHANGED <<keys, read, losses, holders, tally>>

\* Mutant: the lock is stored without a TTL.
LockForever == [val |-> 1, expires |-> FALSE]

\* The value that setLock stores, with SETEX.
LockEntry == [val |-> 1, expires |-> TRUE]

\* The answer to the GET: taken, or to be stored with a command of its own.
AskLock(c) ==
    /\ pc[c] = "lock"
    /\ Goto(c, IF keys["lock"] = Nil THEN "setLock" ELSE "idle")
    /\ UNCHANGED <<keys, read, bounds, holders, tally>>

TakeLock(c) ==
    /\ pc[c] = "setLock"
    /\ keys' = [keys EXCEPT !["lock"] = LockEntry]
    /\ holders' = holders \cup {c}
    /\ Goto(c, "idle")
    /\ UNCHANGED <<read, bounds, tally>>

\* releaseLock: DEL, whoever holds it now.
ReleaseLock(c) ==
    /\ c \in holders /\ pc[c] = "idle"
    /\ keys' = [keys EXCEPT !["lock"] = Nil]
    /\ holders' = holders \ {c}
    /\ UNCHANGED <<pc, read, bounds, tally>>

-----------------------------------------------------------------------------
(* The counter.                                                            *)

\* A caller reads the counter to advance it by one.
ReadCounter(c) ==
    /\ Begin(c, "swap")
    /\ read' = [read EXCEPT ![c] = Current]
    /\ UNCHANGED <<keys, losses, holders, tally>>

\* Mutant: the script swaps whatever the key holds.
AnyMatch(expected) == TRUE

\* The script's two tests: no key for null, or the value expected.
Match(expected) == Current = expected

\* compareAndSwap, with or without a TTL; a reply that is lost is an error.
CompareAndSwap(c, ttl, lost) ==
    /\ pc[c] = "swap"
    /\ IF Match(read[c])
       THEN /\ keys' = [keys EXCEPT !["counter"] =
                          [val |-> OrZero(read[c]) + 1, expires |-> ttl]]
            /\ IF lost THEN unsure' = unsure + 1 /\ UNCHANGED counted
                       ELSE counted' = counted + 1 /\ UNCHANGED unsure
       ELSE UNCHANGED <<keys, tally>>
    /\ IF lost THEN Lose ELSE UNCHANGED losses
    /\ Goto(c, "idle")
    /\ read' = [read EXCEPT ![c] = Nil]
    /\ UNCHANGED <<calls, holders>>

\* atomicMultiOperation of an increment of the counter, after a delete of it or
\* not, with a set of the remembered value behind.  A value that is falsy is
\* sent as null, which SET refuses: the script stops at it, with an error.
AtomicMultiOperation(c, del, falsy) ==
    /\ Begin(c, "idle")
    /\ LET old == IF del THEN Nil ELSE keys["counter"]
           new == IF old = Nil THEN [val |-> 1, expires |-> FALSE]
                               ELSE [old EXCEPT !.val = @ + 1]
       IN keys' = [keys EXCEPT
            !["counter"] = new,
            !["memo"] = IF falsy THEN @ ELSE [val |-> calls, expires |-> FALSE]]
    /\ LET before == IF del THEN <<0, 0>> ELSE tally
       IN /\ counted' = before[1] + (IF falsy THEN 0 ELSE 1)
          /\ unsure' = before[2] + (IF falsy THEN 1 ELSE 0)
    /\ UNCHANGED <<read, losses, holders>>

-----------------------------------------------------------------------------
(* remember and getOrSetWithPrefix.                                        *)

Remember(c) ==
    /\ Begin(c, "recall")
    /\ UNCHANGED <<keys, read, losses, holders, tally>>

\* GET; a hit is the answer.
Recall(c) ==
    /\ pc[c] = "recall"
    /\ Goto(c, IF keys["memo"] = Nil THEN "factory" ELSE "idle")
    /\ UNCHANGED <<keys, read, bounds, holders, tally>>

\* The factory answers, with null or not, or throws.
Factory(c, v) ==
    /\ pc[c] = "factory"
    /\ Goto(c, IF v = Nil THEN "idle" ELSE "store")
    /\ read' = [read EXCEPT ![c] = v]
    /\ UNCHANGED <<keys, bounds, holders, tally>>

\* SETEX of the answer, also when somebody else has stored one by now.
Store(c) ==
    /\ pc[c] = "store"
    /\ keys' = [keys EXCEPT !["memo"] = [val |-> read[c], expires |-> TRUE]]
    /\ Goto(c, "idle")
    /\ read' = [read EXCEPT ![c] = Nil]
    /\ UNCHANGED <<bounds, holders, tally>>

-----------------------------------------------------------------------------
(* What goes wrong, and the end of a TTL.                                  *)

Vanish(K) ==
    /\ keys' = [k \in Key |-> IF k \in K THEN Nil ELSE keys[k]]
    /\ IF "counter" \in K THEN counted' = 0 /\ unsure' = 0 ELSE UNCHANGED tally

\* The TTL of a key ends.
RunOut(k) ==
    /\ keys[k] # Nil /\ keys[k].expires
    /\ Vanish({k})
    /\ IF k = "counter" THEN Lose ELSE UNCHANGED losses
    /\ UNCHANGED <<pc, read, calls, holders>>

\* An instance starts and flushes Redis.
Reset ==
    /\ \E k \in Key : keys[k] # Nil
    /\ Vanish(Key)
    /\ Lose
    /\ UNCHANGED <<pc, read, calls, holders>>

\* A caller's process ends, with the lock or without.
Crash(c) ==
    /\ pc[c] # "dead" /\ (pc[c] # "idle" \/ c \in holders)
    /\ Goto(c, "dead")
    /\ Lose
    /\ UNCHANGED <<keys, read, calls, holders, tally>>

Init ==
    /\ keys = [k \in Key |-> Nil]
    /\ pc = [c \in Caller |-> "idle"] /\ read = [c \in Caller |-> Nil]
    /\ calls = 0 /\ losses = 0 /\ holders = {}
    /\ counted = 0 /\ unsure = 0

Next ==
    \/ \E c \in Caller :
         \/ SetLock(c) \/ AskLock(c) \/ TakeLock(c) \/ ReleaseLock(c)
         \/ ReadCounter(c) \/ \E ttl, lost \in BOOLEAN : CompareAndSwap(c, ttl, lost)
         \/ \E del, falsy \in BOOLEAN : AtomicMultiOperation(c, del, falsy)
         \/ Remember(c) \/ Recall(c) \/ Store(c)
         \/ \E v \in {Nil, calls} : Factory(c, v)
         \/ Crash(c)
    \/ \E k \in Key : RunOut(k)
    \/ Reset

\* Redis removes a lock whose TTL has ended.
Fairness == WF_vars(RunOut("lock"))

Spec == Init /\ [][Next]_vars /\ Fairness

-----------------------------------------------------------------------------
TypeOK ==
    /\ keys \in [Key -> Entry \cup {Nil}]
    /\ pc \in [Caller -> Pc] /\ read \in [Caller -> Nat \cup {Nil}]
    /\ calls \in 0..MaxCalls /\ losses \in 0..MaxLosses
    /\ holders \subseteq Caller /\ counted \in Nat /\ unsure \in Nat

\* The counter holds every increment that was answered with success, and no
\* more than these and the ones whose call failed (compareAndSwap,
\* atomicMultiOperation): callers that advance it at the same time do not undo
\* each other, and a call that failed may have been carried out.
Accounted ==
    /\ counted <= OrZero(Current)
    /\ OrZero(Current) <= counted + unsure

\* A lock is free again in the end, whether its holder released it, forgot it
\* or is gone (setLock): the TTL is stored by the command that takes the lock.
LockEnds == keys["lock"] # Nil ~> keys["lock"] = Nil
=============================================================================
