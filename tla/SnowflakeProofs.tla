--------------------------- MODULE SnowflakeProofs ---------------------------
(***************************************************************************)
(* What holds of Snowflake for every number of processes, whatever their   *)
(* numbers and the ids per millisecond.                                    *)
(***************************************************************************)
EXTENDS Snowflake, TLAPS

-----------------------------------------------------------------------------
(* The packed number.                                                      *)

\* The five bits that are kept of a number.
Five(n) == n % 32

\* What fits into the twelve bits of the sequence.
Twelve(s) == s \in Nat /\ s <= 4095

\* The parts that parseId finds in a packed number.
Packed(id, ms, w, q, s) ==
    /\ id \in Nat
    /\ Parse(id).timestamp = ms /\ Parse(id).workerId = Five(w)
    /\ Parse(id).processId = Five(q) /\ Parse(id).sequence = s

\* No part of a packed number runs into its neighbour.
LEMMA PackFields ==
  ASSUME NEW ms \in Nat, NEW w \in Nat, NEW q \in Nat, NEW s, Twelve(s)
  PROVE  Packed(Pack(ms, w, q, s), ms, w, q, s)
  <1> DEFINE a == w % 32
             b == q % 32
             id == Pack(ms, w, q, s)
  <1>1. a \in 0..31 /\ b \in 0..31 /\ s \in 0..4095
    BY DEF Twelve
  <1>2. id = ms * 4194304 + a * 131072 + b * 4096 + s
    BY DEF Pack
  <1> HIDE DEF a, b, id
  <1>3. id \in Nat
    BY <1>1, <1>2
  <1>4. id \div 4194304 = ms
    BY <1>1, <1>2
  <1>5. id % 4096 = s
    BY <1>1, <1>2
  <1>6. id \div 4096 = ms * 1024 + a * 32 + b
    BY <1>1, <1>2
  <1>7. (id \div 4096) % 32 = b
    BY <1>1, <1>6
  <1>8. id \div 131072 = ms * 32 + a
    BY <1>1, <1>2
  <1>9. (id \div 131072) % 32 = a
    BY <1>1, <1>8
  <1>10. QED
    BY <1>3, <1>4, <1>5, <1>7, <1>9 DEF Packed, Parse, Five, a, b, id

\* parseId gives back the four parts that nextId packed.
THEOREM ParsePack ==
  ASSUME NEW ms \in Nat, NEW w \in Nat, NEW q \in Nat, NEW s \in 0..4095
  PROVE  /\ Pack(ms, w, q, s) \in Nat
         /\ Parse(Pack(ms, w, q, s)) =
              [timestamp |-> ms, workerId |-> w % 32, processId |-> q % 32,
               sequence |-> s]
  <1>1. Twelve(s)
    BY DEF Twelve
  <1> DEFINE id == Pack(ms, w, q, s)
  <1>2. Packed(id, ms, w, q, s)
    BY <1>1, PackFields
  <1> HIDE DEF id
  <1>3. Parse(id) = [timestamp |-> Parse(id).timestamp, workerId |-> Parse(id).workerId,
                     processId |-> Parse(id).processId, sequence |-> Parse(id).sequence]
    BY DEF Parse
  <1>4. id \in Nat /\ Parse(id) = [timestamp |-> ms, workerId |-> w % 32,
                                   processId |-> q % 32, sequence |-> s]
    BY <1>2, <1>3 DEF Packed, Five
  <1>5. QED BY <1>4 DEF id

\* The masked increment of the sequence.
LEMMA NextSequenceValue ==
  ASSUME NEW s \in 0 .. SeqLimit - 1
  PROVE  /\ NextSequence(s) \in 0 .. SeqLimit - 1
         /\ NextSequence(s) # 0 => NextSequence(s) = s + 1
  <1>1. SeqLimit \in Nat \ {0}
    BY GeneratorAssumption
  <1>2. CASE s + 1 < SeqLimit
    <2>1. (s + 1) % SeqLimit = s + 1
      BY <1>1, <1>2
    <2>2. QED BY <1>1, <1>2, <2>1 DEF NextSequence
  <1>3. CASE s + 1 = SeqLimit
    <2>1. (s + 1) % SeqLimit = 0
      BY <1>1, <1>3
    <2>2. QED BY <1>1, <1>3, <2>1 DEF NextSequence
  <1>4. QED BY <1>1, <1>2, <1>3

-----------------------------------------------------------------------------
(* Types.                                                                  *)

\* A packed key is a number.
LEMMA PackNat ==
  ASSUME NEW p \in Process, NEW ms \in Nat, NEW s \in Nat
  PROVE  Pack(ms, Worker[p], Proc[p], s) \in Nat
  <1>1. Worker[p] % 32 \in Nat /\ Proc[p] % 32 \in Nat
    BY GeneratorAssumption
  <1>2. QED BY <1>1 DEF Pack

\* What nextId stores and returns is in range.
LEMMA ReturnType ==
  ASSUME TypeOK, NEW p \in Process, NEW s \in 0 .. SeqLimit - 1, Return(p, now, s),
         UNCHANGED <<now, setbacks>>, waiting' \subseteq Process
  PROVE  TypeOK'
  <1>1. now \in Nat /\ s \in Nat
    BY GeneratorAssumption DEF TypeOK
  <1>2. ids' \in [Process -> Seq(Nat)]
    BY <1>1, PackNat DEF Return, TypeOK
  <1>3. QED
    BY <1>1, <1>2 DEF Return, TypeOK

\* Every step keeps the ranges.
LEMMA NextType == TypeOK /\ [Next]_vars => TypeOK'
  <1> SUFFICES ASSUME TypeOK, [Next]_vars PROVE TypeOK'
    OBVIOUS
  <1>1. ASSUME NEW p \in Process, NextId(p) PROVE TypeOK'
    <2>1. sequence[p] \in 0 .. SeqLimit - 1 /\ 0 \in 0 .. SeqLimit - 1
      BY GeneratorAssumption DEF TypeOK
    <2>2. NextSequence(sequence[p]) \in 0 .. SeqLimit - 1
      BY <2>1, NextSequenceValue
    <2>3. CASE Return(p, now, 0) /\ UNCHANGED waiting
      <3>1. UNCHANGED <<now, setbacks>> /\ waiting' \subseteq Process
        BY <1>1, <2>3 DEF NextId, TypeOK
      <3>2. QED BY <2>1, <2>3, <3>1, ReturnType
    <2>4. CASE Return(p, now, NextSequence(sequence[p])) /\ UNCHANGED waiting
      <3>1. UNCHANGED <<now, setbacks>> /\ waiting' \subseteq Process
        BY <1>1, <2>4 DEF NextId, TypeOK
      <3>2. QED BY <2>2, <2>4, <3>1, ReturnType
    <2>5. CASE /\ sequence' = [sequence EXCEPT ![p] = 0]
               /\ waiting' = waiting \cup {p}
               /\ UNCHANGED <<lastMillisecond, ids>>
      BY <1>1, <2>1, <2>5 DEF NextId, TypeOK
    <2>6. QED BY <1>1, <2>3, <2>4, <2>5 DEF NextId
  <1>2. ASSUME NEW p \in Process, EndWait(p) PROVE TypeOK'
    <2>1. 0 \in 0 .. SeqLimit - 1
      BY GeneratorAssumption
    <2>2. QED BY <1>2, <2>1, ReturnType DEF EndWait, TypeOK
  <1>3. CASE Tick
    BY <1>3, GeneratorAssumption DEF Tick, TypeOK
  <1>4. CASE SetBack
    BY <1>4, GeneratorAssumption DEF SetBack, TypeOK
  <1>5. CASE UNCHANGED vars
    BY <1>5 DEF vars, TypeOK
  <1>6. QED BY <1>1, <1>2, <1>3, <1>4, <1>5 DEF Next

\* The ranges hold of new generators.
LEMMA InitType == Init => TypeOK
  BY GeneratorAssumption DEF Init, TypeOK

\* Every generator's fields stay in range, and none is ahead of a clock that
\* was never set back.
THEOREM SnowflakeTypeCorrect == Spec => []TypeOK
  BY InitType, NextType, PTL DEF Spec

-----------------------------------------------------------------------------
(***************************************************************************)
(* Order.  The ids of a process are below the id that its generator would  *)
(* return for the next sequence: the last one is the bound, or, when a     *)
(* full millisecond is waited out, the first id of the next millisecond.   *)
(***************************************************************************)
Slot(p) == (Worker[p] % 32) * 131072 + (Proc[p] % 32) * 4096

PackOf(p, ms, s) == ms * 4194304 + Slot(p) + s

Bounded(p) ==
    \A i \in 1..Len(ids[p]) :
        /\ p \notin waiting => ids[p][i] <= PackOf(p, lastMillisecond[p], sequence[p])
        /\ p \in waiting => ids[p][i] < PackOf(p, lastMillisecond[p] + 1, 0)

Sorted(p) == \A i, j \in 1..Len(ids[p]) : i < j => ids[p][i] < ids[p][j]

Order == setbacks = 0 => \A p \in Process : Bounded(p) /\ Sorted(p)

\* A packed key in terms of its millisecond and its process's slot.
LEMMA PackOfPack ==
  ASSUME NEW p \in Process, NEW ms \in Nat, NEW s \in Nat
  PROVE  /\ Slot(p) \in Nat
         /\ Pack(ms, Worker[p], Proc[p], s) = PackOf(p, ms, s)
  <1> DEFINE a == Worker[p] % 32
             b == Proc[p] % 32
  <1>1. a \in Nat /\ b \in Nat
    BY GeneratorAssumption
  <1>2. Slot(p) = a * 131072 + b * 4096
    BY DEF Slot
  <1>3. Pack(ms, Worker[p], Proc[p], s) = ms * 4194304 + a * 131072 + b * 4096 + s
    BY DEF Pack
  <1> HIDE DEF a, b
  <1>4. QED BY <1>1, <1>2, <1>3 DEF PackOf

\* Packed numbers are ordered as the pairs of millisecond and sequence are.
LEMMA PackOfNat ==
  ASSUME NEW p \in Process, NEW ms \in Nat, NEW s \in Nat
  PROVE  PackOf(p, ms, s) \in Nat
  <1>1. Slot(p) \in Nat
    BY PackOfPack
  <1>2. QED BY <1>1, SMT DEF PackOf

\* Within a millisecond keys grow with the sequence.
LEMMA PackOfSequence ==
  ASSUME NEW p \in Process, NEW ms \in Nat, NEW s \in Nat
  PROVE  PackOf(p, ms, s) < PackOf(p, ms, s + 1)
  <1>1. Slot(p) \in Nat
    BY PackOfPack
  <1>2. QED BY <1>1, SMT DEF PackOf

\* Keys grow with the millisecond.
LEMMA PackOfMillisecond ==
  ASSUME NEW p \in Process, NEW s \in 0 .. SeqLimit - 1,
         NEW ms1 \in Nat, NEW ms2 \in Nat, ms1 < ms2
  PROVE  PackOf(p, ms1, s) < PackOf(p, ms2, 0)
  <1> DEFINE slot == Slot(p)
  <1>1. slot \in Nat
    BY PackOfPack
  <1>2. s \in 0..4095
    BY GeneratorAssumption
  <1> HIDE DEF slot
  <1>3. ms1 * 4194304 + slot + s < ms2 * 4194304 + slot + 0
    BY <1>1, <1>2, SMT
  <1>4. QED BY <1>3, SMT DEF PackOf, slot

\* A returned id above all the earlier ones keeps the order.
LEMMA ReturnOrder ==
  ASSUME TypeOK, NEW p \in Process, NEW s \in 0 .. SeqLimit - 1, Return(p, now, s),
         \A i \in 1..Len(ids[p]) : ids[p][i] < PackOf(p, now, s),
         p \notin waiting', \A q \in Process \ {p} : Bounded(q) /\ Sorted(q),
         Sorted(p), \A q \in Process \ {p} : q \in waiting' <=> q \in waiting
  PROVE  \A q \in Process : Bounded(q)' /\ Sorted(q)'
  <1> DEFINE new == PackOf(p, now, s)
  <1>1. new \in Nat /\ new = Pack(now, Worker[p], Proc[p], s)
    <2>1. now \in Nat /\ s \in Nat
      BY GeneratorAssumption DEF TypeOK
    <2>2. Slot(p) \in Nat /\ Pack(now, Worker[p], Proc[p], s) = new
      BY <2>1, PackOfPack
    <2>3. QED BY <2>1, <2>2 DEF PackOf
  <1>2. /\ ids'[p] = Append(ids[p], new) /\ ids[p] \in Seq(Nat)
        /\ sequence'[p] = s /\ lastMillisecond'[p] = now
    <2> HIDE DEF new
    <2>1. QED BY <1>1 DEF Return, TypeOK
  <1>3. /\ Len(ids'[p]) = Len(ids[p]) + 1
        /\ \A i \in 1..Len(ids[p]) : ids'[p][i] = ids[p][i] /\ ids'[p][i] \in Nat
        /\ ids'[p][Len(ids[p]) + 1] = new
    BY <1>1, <1>2
  <1>4. Len(ids[p]) \in Nat
    BY <1>2
  <1>5. \A i \in 1..Len(ids'[p]) : i \in 1..Len(ids[p]) \/ i = Len(ids[p]) + 1
    BY <1>3, <1>4
  <1> HIDE DEF new
  <1>6. \A i \in 1..Len(ids'[p]) : ids'[p][i] <= new
    BY <1>1, <1>3, <1>5 DEF new
  <1>7. Bounded(p)'
    BY <1>2, <1>6 DEF Bounded, new, PackOf
  <1>8. Sorted(p)'
    <2>1. ASSUME NEW i \in 1..Len(ids'[p]), NEW j \in 1..Len(ids'[p]), i < j
          PROVE  ids'[p][i] < ids'[p][j]
      <3>1. i \in 1..Len(ids[p])
        BY <1>3, <1>4, <2>1
      <3>2. CASE j \in 1..Len(ids[p])
        BY <1>3, <2>1, <3>1, <3>2 DEF Sorted
      <3>3. CASE j = Len(ids[p]) + 1
        BY <1>3, <3>1, <3>3 DEF new
      <3>4. QED BY <1>5, <3>2, <3>3
    <2>2. QED BY <2>1 DEF Sorted
  <1>9. ASSUME NEW q \in Process \ {p} PROVE Bounded(q)' /\ Sorted(q)'
    <2>1. /\ ids'[q] = ids[q] /\ sequence'[q] = sequence[q]
          /\ lastMillisecond'[q] = lastMillisecond[q]
      BY DEF Return, TypeOK
    <2>2. QED BY <2>1 DEF Bounded, Sorted, PackOf
  <1>10. QED BY <1>7, <1>8, <1>9

\* Every step keeps the order.
LEMMA NextOrder == TypeOK /\ Order /\ [Next]_vars => Order'
  <1> SUFFICES ASSUME TypeOK, Order, [Next]_vars, setbacks' = 0
               PROVE  \A q \in Process : Bounded(q)' /\ Sorted(q)'
    BY DEF Order
  <1>1. ASSUME setbacks = 0, NEW p \in Process, NextId(p)
        PROVE  \A q \in Process : Bounded(q)' /\ Sorted(q)'
    <2> DEFINE last == lastMillisecond[p]
               seq  == sequence[p]
    <2>0. seq \in 0 .. SeqLimit - 1
      BY DEF TypeOK
    <2>1. /\ last \in Nat /\ last <= now /\ now \in Nat
          /\ 0 \in 0 .. SeqLimit - 1 /\ seq \in Nat
      BY <1>1, <2>0, GeneratorAssumption DEF TypeOK
    <2>2. /\ p \notin waiting /\ Sorted(p) /\ \A q \in Process : Bounded(q) /\ Sorted(q)
          /\ \A i \in 1..Len(ids[p]) : ids[p][i] <= PackOf(p, last, seq)
      BY <1>1 DEF NextId, Order, Bounded
    <2>3. \A i \in 1..Len(ids[p]) :
            ids[p][i] \in Nat /\ ids[p][i] <= PackOf(p, last, seq)
      <3>1. ids[p] \in Seq(Nat)
        BY DEF TypeOK
      <3>2. QED BY <2>2, <3>1
    <2>4. CASE now # last /\ Return(p, now, 0) /\ UNCHANGED waiting
      <3>1. /\ PackOf(p, last, seq) < PackOf(p, now, 0)
            /\ PackOf(p, last, seq) \in Nat /\ PackOf(p, now, 0) \in Nat
        <4>1. /\ last < now /\ last \in Nat /\ now \in Nat
              /\ seq \in 0 .. SeqLimit - 1 /\ seq \in Nat /\ 0 \in Nat
          BY <2>0, <2>1, <2>4
        <4> HIDE DEF last, seq
        <4>2. PackOf(p, last, seq) < PackOf(p, now, 0)
          BY <4>1, PackOfMillisecond
        <4>3. QED BY <4>1, <4>2, PackOfNat
      <3>2. \A i \in 1..Len(ids[p]) : ids[p][i] < PackOf(p, now, 0)
        <4> HIDE DEF last, seq
        <4>1. QED BY <2>3, <3>1
      <3>3. QED BY <2>1, <2>2, <2>4, <3>2, ReturnOrder
    <2>5. CASE /\ now = last /\ NextSequence(seq) # 0
               /\ Return(p, now, NextSequence(seq)) /\ UNCHANGED waiting
      <3>1. NextSequence(seq) = seq + 1 /\ seq < NextSequence(seq)
        <4>1. NextSequence(seq) = seq + 1
          BY <2>0, <2>5, NextSequenceValue
        <4>2. QED BY <2>1, <4>1
      <3>2. /\ PackOf(p, last, seq) < PackOf(p, now, NextSequence(seq))
            /\ PackOf(p, last, seq) \in Nat /\ PackOf(p, now, NextSequence(seq)) \in Nat
        <4>1. now = last /\ last \in Nat /\ seq \in Nat /\ seq + 1 \in Nat
          BY <2>1, <2>5, GeneratorAssumption
        <4> HIDE DEF last, seq
        <4>2. PackOf(p, last, seq) < PackOf(p, last, seq + 1)
          BY <4>1, PackOfSequence
        <4>3. PackOf(p, last, seq) \in Nat
          BY <4>1, PackOfNat
        <4>4. PackOf(p, last, seq + 1) \in Nat
          BY <4>1, PackOfNat
        <4>5. QED BY <3>1, <4>1, <4>2, <4>3, <4>4
      <3>3. \A i \in 1..Len(ids[p]) : ids[p][i] < PackOf(p, now, NextSequence(seq))
        <4> HIDE DEF last, seq
        <4>1. QED BY <2>3, <3>2
      <3>4. NextSequence(seq) \in 0 .. SeqLimit - 1
        BY <2>0, NextSequenceValue
      <3>5. QED BY <2>2, <2>5, <3>3, <3>4, ReturnOrder
    <2>6. CASE /\ sequence' = [sequence EXCEPT ![p] = 0]
               /\ waiting' = waiting \cup {p}
               /\ UNCHANGED <<lastMillisecond, ids>>
      <3>1. /\ PackOf(p, last, seq) < PackOf(p, last + 1, 0)
            /\ PackOf(p, last, seq) \in Nat /\ PackOf(p, last + 1, 0) \in Nat
        <4>1. /\ last < last + 1 /\ last \in Nat /\ last + 1 \in Nat
              /\ seq \in 0 .. SeqLimit - 1 /\ seq \in Nat /\ 0 \in Nat
          BY <2>0, <2>1
        <4> HIDE DEF last, seq
        <4>2. PackOf(p, last, seq) < PackOf(p, last + 1, 0)
          BY <4>1, PackOfMillisecond
        <4>3. QED BY <4>1, <4>2, PackOfNat
      <3>2. \A i \in 1..Len(ids[p]) : ids[p][i] < PackOf(p, last + 1, 0)
        <4> HIDE DEF last, seq
        <4>1. QED BY <2>3, <3>1
      <3>3. Bounded(p)' /\ Sorted(p)'
        BY <2>2, <2>6, <3>2 DEF Bounded, Sorted, PackOf
      <3>4. ASSUME NEW q \in Process \ {p} PROVE Bounded(q)' /\ Sorted(q)'
        BY <2>2, <2>6 DEF Bounded, Sorted, PackOf, TypeOK
      <3>5. QED BY <3>3, <3>4
    <2>7. QED BY <1>1, <2>4, <2>5, <2>6 DEF NextId
  <1>2. ASSUME setbacks = 0, NEW p \in Process, EndWait(p)
        PROVE  \A q \in Process : Bounded(q)' /\ Sorted(q)'
    <2> DEFINE last == lastMillisecond[p]
    <2>1. /\ last \in Nat /\ now \in Nat /\ last < now
          /\ 0 \in 0 .. SeqLimit - 1
          /\ \A i \in 1..Len(ids[p]) : ids[p][i] \in Nat
      BY <1>2, GeneratorAssumption DEF TypeOK, EndWait, WaitOver
    <2>2. \A i \in 1..Len(ids[p]) : ids[p][i] < PackOf(p, last + 1, 0)
      BY <1>2 DEF EndWait, Order, Bounded
    <2>3. PackOf(p, last + 1, 0) <= PackOf(p, now, 0) /\ PackOf(p, last + 1, 0) \in Nat
          /\ PackOf(p, now, 0) \in Nat
      <3>1. Slot(p) \in Nat
        BY PackOfPack
      <3>2. QED BY <2>1, <3>1 DEF PackOf
    <2>4. \A i \in 1..Len(ids[p]) : ids[p][i] < PackOf(p, now, 0)
      BY <2>1, <2>2, <2>3
    <2>5. \A q \in Process : Bounded(q) /\ Sorted(q)
      BY <1>2 DEF Order
    <2>6. /\ Return(p, now, 0) /\ p \notin waiting'
          /\ \A q \in Process \ {p} : q \in waiting' <=> q \in waiting
      BY <1>2 DEF EndWait
    <2>7. QED BY <2>1, <2>4, <2>5, <2>6, ReturnOrder
  <1>3. CASE Tick
    BY <1>3 DEF Tick, Order, Bounded, Sorted, PackOf
  <1>4. CASE SetBack
    BY <1>4 DEF SetBack, TypeOK
  <1>5. CASE UNCHANGED vars
    BY <1>5 DEF vars, Order, Bounded, Sorted, PackOf
  <1>6. setbacks = 0 \/ SetBack
    BY DEF Next, NextId, EndWait, Tick, vars
  <1>7. QED BY <1>1, <1>2, <1>3, <1>4, <1>5, <1>6 DEF Next

\* As long as nobody sets the clock back, the keys a process inserts only
\* grow, through every burst that fills a millisecond.
THEOREM SnowflakeIncreasing == Spec => []Increasing
  <1>1. Init => Order
    <2> SUFFICES ASSUME Init PROVE \A p \in Process : Bounded(p) /\ Sorted(p)
      BY DEF Order
    <2>1. ASSUME NEW p \in Process PROVE Bounded(p) /\ Sorted(p)
      <3>1. ids[p] = <<>>
        BY DEF Init
      <3>2. 1..Len(ids[p]) = {}
        BY <3>1
      <3>3. QED BY <3>2 DEF Bounded, Sorted
    <2>2. QED BY <2>1
  <1>2. Order => Increasing
    BY DEF Order, Sorted, Increasing
  <1>3. QED
    BY <1>1, <1>2, NextOrder, SnowflakeTypeCorrect, PTL DEF Spec

=============================================================================
