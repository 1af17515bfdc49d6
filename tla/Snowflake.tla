------------------------------ MODULE Snowflake ------------------------------
(***************************************************************************)
(* Primary keys: Snowflake.nextId (src/src/shared/libs/snowflake/          *)
(* snowflake.ts), called by BaseEntity.generateId before every insert.     *)
(*                                                                         *)
(* Every process of the system (API instances and workers) has a generator *)
(* of its own, built from the constants of snowflake/index.ts, so Worker   *)
(* and Proc are the same number everywhere and two processes may well pack *)
(* the same id; what is said here is about the ids of one process.  nextId *)
(* runs without an await: one call is one step, unless it has to wait for  *)
(* the next millisecond.                                                   *)
(***************************************************************************)
EXTENDS Naturals, Sequences

CONSTANTS
    Process,      \* operating system processes that insert entities
    Worker,       \* Process -> workerId
    Proc,         \* Process -> processId
    SeqLimit,     \* ids per millisecond, 0xfff + 1 in the code
    MaxTime,      \* bound: last millisecond after the epoch
    MaxIds,       \* bound: ids a process generates
    MaxSetbacks   \* bound: times the wall clock is set back

ASSUME GeneratorAssumption ==
    /\ Worker \in [Process -> Nat] /\ Proc \in [Process -> Nat]
    /\ SeqLimit \in 1..4096
    /\ MaxTime \in Nat /\ MaxIds \in Nat /\ MaxSetbacks \in Nat

VARIABLES
    now,              \* Date.now() - epoch
    setbacks,         \* times the clock went back
    sequence,         \* per generator
    lastMillisecond,  \* per generator; 0 stands for -1 (the clock starts at 1)
    waiting,          \* generators inside nextId's busy-wait
    ids               \* history: the ids each process generated, in order

vars == <<now, setbacks, sequence, lastMillisecond, waiting, ids>>

\* The four parts side by side; worker and process are cut to five bits.
Pack(ms, w, q, s) ==
    ms * 4194304 + (w % 32) * 131072 + (q % 32) * 4096 + s

\* parseId without the epoch.
Parse(id) ==
    [timestamp |-> id \div 4194304, workerId |-> (id \div 131072) % 32,
     processId |-> (id \div 4096) % 32, sequence |-> id % 4096]

\* nextId returns at millisecond ms with sequence s.
Return(p, ms, s) ==
    /\ sequence' = [sequence EXCEPT ![p] = s]
    /\ lastMillisecond' = [lastMillisecond EXCEPT ![p] = ms]
    /\ ids' = [ids EXCEPT ![p] = Append(@, Pack(ms, Worker[p], Proc[p], s))]

NextSequence(s) == (s + 1) % SeqLimit

\* A call of nextId, up to its return or its busy-wait.
NextId(p) ==
    /\ p \notin waiting
    /\ Len(ids[p]) < MaxIds /\ now < MaxTime
    /\ \/ /\ now # lastMillisecond[p]
          /\ Return(p, now, 0)
          /\ UNCHANGED waiting
       \/ /\ now = lastMillisecond[p] /\ NextSequence(sequence[p]) # 0
          /\ Return(p, now, NextSequence(sequence[p]))
          /\ UNCHANGED waiting
       \/ /\ now = lastMillisecond[p] /\ NextSequence(sequence[p]) = 0
          /\ sequence' = [sequence EXCEPT ![p] = 0]
          /\ waiting' = waiting \cup {p}
          /\ UNCHANGED <<lastMillisecond, ids>>
    /\ UNCHANGED <<now, setbacks>>

\* Mutants: the busy-wait ends at once; a clock that was set back ends it.
WaitOverEarly(p) == TRUE
WaitOverChanged(p) == now = lastMillisecond[p] + 1

WaitOver(p) == now > lastMillisecond[p]

\* The busy-wait sees a later millisecond.
EndWait(p) ==
    /\ p \in waiting /\ WaitOver(p)
    /\ Return(p, now, 0)
    /\ waiting' = waiting \ {p}
    /\ UNCHANGED <<now, setbacks>>

\* The clock moves on, maybe past a millisecond in which nothing looked at it.
Tick ==
    /\ now < MaxTime
    /\ \E n \in now + 1 .. MaxTime : now' = n
    /\ UNCHANGED <<setbacks, sequence, lastMillisecond, waiting, ids>>

\* The host corrects its clock.
SetBack ==
    /\ setbacks < MaxSetbacks
    /\ \E n \in 1 .. now - 1 : now' = n
    /\ setbacks' = setbacks + 1
    /\ UNCHANGED <<sequence, lastMillisecond, waiting, ids>>

Init ==
    /\ now = 1 /\ setbacks = 0
    /\ sequence = [p \in Process |-> 0]
    /\ lastMillisecond = [p \in Process |-> 0]
    /\ waiting = {}
    /\ ids = [p \in Process |-> <<>>]

Next ==
    \/ \E p \in Process : NextId(p) \/ EndWait(p)
    \/ Tick
    \/ SetBack

Spec == Init /\ [][Next]_vars

\* The clock moves, and a thread that spins on it is scheduled.
Fairness == WF_vars(Tick) /\ \A p \in Process : WF_vars(EndWait(p))

LiveSpec == Spec /\ Fairness

-----------------------------------------------------------------------------
\* Types; a generator never holds a millisecond the clock has not shown.
TypeOK ==
    /\ now \in 1 .. MaxTime + 1 /\ setbacks \in 0..MaxSetbacks
    /\ sequence \in [Process -> 0 .. SeqLimit - 1]
    /\ lastMillisecond \in [Process -> Nat]
    /\ waiting \subseteq Process
    /\ ids \in [Process -> Seq(Nat)]
    /\ setbacks = 0 => \A p \in Process : lastMillisecond[p] <= now

\* A process's ids only grow while its clock is not set back, whatever the
\* burst: a full millisecond is waited out (nextId's busy-wait).
Increasing ==
    setbacks = 0 =>
        \A p \in Process : \A i, j \in 1..Len(ids[p]) :
            i < j => ids[p][i] < ids[p][j]

\* nextId returns: its busy-wait, which stops the whole process, ends.
WaitEnds == \A p \in Process : p \in waiting ~> p \notin waiting

=============================================================================
