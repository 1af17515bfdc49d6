-------------------------- MODULE DeliveryProofs ---------------------------
(***************************************************************************)
(* Proofs about two of the ways to tell somebody.  Of the mails            *)
(* (MailQueue): an OTP mail's job is in one place until a send was tried,  *)
(* or the broker forgot it with a restart, and the queue with its workers  *)
(* implements MailPromise, in which a job sends a second mail only after   *)
(* its handling was cut short.  Of the broadcasts (QrRooms, the instance   *)
(* Rooms): socket.io and connectedClients agree on who is in which room.   *)
(* For any numbers of jobs, workers, handlers that outlive their channels, *)
(* accidents, connections, tickets and changes.                            *)
(***************************************************************************)
EXTENDS MCDelivery, FiniteSetTheorems, TLAPS

-----------------------------------------------------------------------------
(***************************************************************************)
(* The mails.  A job that was neither acknowledged nor forgotten is in one *)
(* place: in the queue once, or with one worker.  And the mails that were  *)
(* sent for it, with those that old handlers can still send, are no more   *)
(* than it was cut short while it has still to be handled, and one more    *)
(* after that.                                                             *)
(***************************************************************************)
Task == [at: {"idle", "limit", "send", "ack", "nack"}, job: Job \cup {Nil}, sent: BOOLEAN]

MailTypes ==
    /\ queue \in Seq(Job) /\ task \in [Sender -> Task]
    /\ emitted \subseteq Job /\ acked \subseteq emitted /\ lost \subseteq emitted
    /\ forgotten \subseteq emitted
    /\ sent \in [Job -> Nat] /\ cut \in [Job -> Nat]

\* What a sender is at says whether it has a job, and what became of it.
TaskFits(x) ==
    /\ x \notin Direct => (task[x].at = "idle" <=> task[x].job = Nil)
    /\ x \in Direct => task[x].job = Nil
    /\ x \notin Worker => task[x].at \in {"idle", "limit", "send"}
    /\ task[x].job # Nil => task[x].job \in emitted \ lost
    /\ task[x].at = "ack" => task[x].job \in tried
    /\ task[x].sent => task[x].at = "ack"

Queued(j) == \E i \in 1..Len(queue) : queue[i] = j

\* No job is in the queue twice.
Distinct == \A i, k \in 1..Len(queue) : queue[i] = queue[k] => i = k

\* A job is held by one worker, and not in the queue then.
HeldOnce ==
    \A v, w \in Worker :
        task[w].job # Nil =>
            /\ task[v].job = task[w].job => v = w
            /\ ~Queued(task[w].job)

\* The broker got the job, and it was neither acknowledged nor forgotten.
Pending(j) == j \in emitted \ (lost \cup acked \cup forgotten)

\* A pending job is somewhere, and no other is anywhere.
Somewhere(j) ==
    /\ j \in acked => j \in tried
    /\ j \in forgotten => j \notin lost \cup acked
    /\ Queued(j) \/ Held(j) # {} <=> Pending(j)

\* The old handlers that can still send the mail of a job.
Strays(j) == {s \in Old : task[s].job = j}

\* The mails of a job: those that were sent, and those of its old handlers.
Spent(j) == sent[j] + Cardinality(Strays(j))

\* A job that has still to be handled.
Open(j) == j \notin emitted \/ Queued(j) \/ \E w \in Worker : task[w].job = j /\ ~task[w].sent

SentFits(j) == Spent(j) <= 1 + cut[j] /\ (Open(j) => Spent(j) <= cut[j])

MailInv ==
    /\ MailTypes /\ Distinct /\ HeldOnce
    /\ \A x \in Sender : TaskFits(x)
    /\ \A j \in Job : Somewhere(j) /\ SentFits(j)

-----------------------------------------------------------------------------
(* What a change of the queue does to the jobs in it.                      *)

\* A job is put at the end.
LEMMA QueueAppend ==
  ASSUME queue \in Seq(Job), Distinct, NEW j \in Job, ~Queued(j), queue' = Append(queue, j)
  PROVE  queue' \in Seq(Job) /\ Distinct' /\ \A i \in Job : Queued(i)' <=> Queued(i) \/ i = j
  <1>1. /\ queue' \in Seq(Job) /\ Len(queue') = Len(queue) + 1 /\ Len(queue) \in Nat
        /\ \A i \in 1..Len(queue) : queue'[i] = queue[i]
        /\ queue'[Len(queue) + 1] = j
    OBVIOUS
  <1>2. Distinct'
    BY <1>1 DEF Distinct, Queued
  <1>3. ASSUME NEW i \in Job PROVE Queued(i)' <=> Queued(i) \/ i = j
    BY <1>1 DEF Queued
  <1>4. QED BY <1>1, <1>2, <1>3

\* The first job is taken out.
LEMMA QueueTail ==
  ASSUME queue \in Seq(Job), Distinct, queue # <<>>, queue' = Tail(queue)
  PROVE  /\ Head(queue) \in Job /\ Queued(Head(queue))
         /\ queue' \in Seq(Job) /\ Distinct'
         /\ \A i \in Job : Queued(i)' <=> Queued(i) /\ i # Head(queue)
  <1>1. /\ queue' \in Seq(Job) /\ Len(queue') = Len(queue) - 1
        /\ Len(queue) \in Nat /\ Len(queue) > 0 /\ Head(queue) = queue[1] /\ Head(queue) \in Job
        /\ \A i \in 1..Len(queue) - 1 : queue'[i] = queue[i + 1]
    OBVIOUS
  <1>2. Distinct'
    BY <1>1 DEF Distinct
  <1>3. ASSUME NEW i \in Job PROVE Queued(i)' <=> Queued(i) /\ i # Head(queue)
    <2>1. ASSUME NEW k \in 1..Len(queue), queue[k] = i, i # Head(queue)
          PROVE  k - 1 \in 1..Len(queue') /\ queue'[k - 1] = i
      BY <1>1, <2>1
    <2>2. ASSUME NEW k \in 1..Len(queue'), queue'[k] = i
          PROVE  k + 1 \in 1..Len(queue) /\ queue[k + 1] = i /\ i # Head(queue)
      BY <1>1, <2>2 DEF Distinct
    <2>3. QED BY <2>1, <2>2 DEF Queued
  <1>4. QED BY <1>1, <1>2, <1>3 DEF Queued

\* A job goes back to the head.
LEMMA QueueFront ==
  ASSUME queue \in Seq(Job), Distinct, NEW j \in Job, ~Queued(j), queue' = <<j>> \o queue
  PROVE  queue' \in Seq(Job) /\ Distinct' /\ \A i \in Job : Queued(i)' <=> Queued(i) \/ i = j
  <1>1. /\ queue' \in Seq(Job) /\ Len(queue') = Len(queue) + 1 /\ Len(queue) \in Nat
        /\ \A i \in 1..Len(queue') : queue'[i] = IF i = 1 THEN j ELSE queue[i - 1]
    OBVIOUS
  <1>2. \A i \in 1..Len(queue) : i + 1 \in 1..Len(queue') /\ queue'[i + 1] = queue[i]
    BY <1>1
  <1>3. Distinct'
    BY <1>1 DEF Distinct, Queued
  <1>4. ASSUME NEW i \in Job PROVE Queued(i)' <=> Queued(i) \/ i = j
    BY <1>1, <1>2 DEF Queued
  <1>5. QED BY <1>1, <1>3, <1>4

-----------------------------------------------------------------------------
(* What the senders are, and counting their old handlers.                  *)

\* A sender is of one kind.
LEMMA Kinds ==
  /\ \A x \in Worker : x \in Sender /\ x \notin Direct /\ x \notin Old
  /\ \A x \in Direct : x \in Sender /\ x \notin Worker /\ x \notin Old
  /\ \A x \in Old : x \in Sender /\ x \notin Worker /\ x \notin Direct
  /\ \A x \in Sender : x \in Worker \/ x \in Direct \/ x \in Old
  /\ \A j \in Job : j # Nil
  BY MailAssumption DEF Sender

LEMMA OldFinite == IsFiniteSet(Old)
  <1>1. IsFiniteSet(1..MaxOld) /\ IsFiniteSet(Worker)
    BY MailAssumption, FS_Interval
  <1>2. QED BY <1>1, FS_Product DEF Old

\* The number of elements of sets of old handlers that differ by one at most.
LEMMA StrayCount ==
  ASSUME NEW S \in SUBSET Old, NEW T \in SUBSET Old
  PROVE  /\ Cardinality(S) \in Nat /\ Cardinality(T) \in Nat
         /\ S \subseteq T => Cardinality(S) <= Cardinality(T)
         /\ \A x \in Old : S \subseteq T \cup {x} => Cardinality(S) <= Cardinality(T) + 1
         /\ \A x \in T : S \subseteq T \ {x} => Cardinality(S) + 1 <= Cardinality(T)
  <1>1. IsFiniteSet(S) /\ IsFiniteSet(T)
    BY OldFinite, FS_Subset
  <1>2. Cardinality(S) \in Nat /\ Cardinality(T) \in Nat
    BY <1>1, FS_CardinalityType
  <1>3. S \subseteq T => Cardinality(S) <= Cardinality(T)
    BY <1>1, FS_Subset
  <1>4. ASSUME NEW x \in Old, S \subseteq T \cup {x}
        PROVE  Cardinality(S) <= Cardinality(T) + 1
    <2>1. /\ IsFiniteSet(T \cup {x})
          /\ Cardinality(T \cup {x}) = IF x \in T THEN Cardinality(T) ELSE Cardinality(T) + 1
      BY <1>1, FS_AddElement
    <2>2. Cardinality(S) <= Cardinality(T \cup {x})
      BY <1>4, <2>1, FS_Subset
    <2>3. QED BY <1>2, <2>1, <2>2
  <1>5. ASSUME NEW x \in T, S \subseteq T \ {x}
        PROVE  Cardinality(S) + 1 <= Cardinality(T)
    <2>1. IsFiniteSet(T \ {x}) /\ Cardinality(T \ {x}) = Cardinality(T) - 1
      BY <1>1, FS_RemoveElement
    <2>2. Cardinality(S) <= Cardinality(T \ {x})
      BY <1>5, <2>1, FS_Subset
    <2>3. QED BY <1>2, <2>1, <2>2
  <1>6. QED BY <1>2, <1>3, <1>4, <1>5

\* A job that no handler comes to have and that is sent by none has no more mails.
LEMMA SpentLess ==
  ASSUME MailInv, NEW i \in Job, Strays(i)' \subseteq Strays(i), sent'[i] = sent[i]
  PROVE  Spent(i) \in Nat /\ Spent(i)' \in Nat /\ Spent(i)' <= Spent(i)
  <1>1. Strays(i) \in SUBSET Old /\ Strays(i)' \in SUBSET Old /\ sent[i] \in Nat
    BY DEF Strays, MailInv, MailTypes
  <1>2. /\ Cardinality(Strays(i)) \in Nat /\ Cardinality(Strays(i)') \in Nat
        /\ Cardinality(Strays(i)') <= Cardinality(Strays(i))
    BY <1>1, StrayCount
  <1>3. QED BY <1>1, <1>2 DEF Spent

\* What was true of a job's mails is so still.
LEMMA SentKept ==
  ASSUME MailInv, NEW i \in Job, Strays(i)' \subseteq Strays(i), sent'[i] = sent[i],
         cut'[i] = cut[i], Open(i)' => Open(i)
  PROVE  SentFits(i)'
  <1>1. Spent(i) \in Nat /\ Spent(i)' \in Nat /\ Spent(i)' <= Spent(i) /\ cut[i] \in Nat
    BY SpentLess DEF MailInv, MailTypes
  <1>2. SentFits(i)
    BY DEF MailInv
  <1>3. QED BY <1>1, <1>2 DEF SentFits

-----------------------------------------------------------------------------
(* Mails: one lemma per step.                                              *)

\* A job is put into the queue, or the broker never gets it.
LEMMA EmitMail ==
  ASSUME MailInv, NEW j \in Job, Emit(j)
  PROVE  MailInv'
  <1>1. /\ j \notin emitted /\ emitted' = emitted \cup {j}
        /\ UNCHANGED <<task, acked, forgotten, tried, sent, cut>>
    BY DEF Emit
  <1>2. /\ ~Queued(j) /\ Held(j) = {} /\ j \notin acked /\ j \notin lost /\ j \notin forgotten
        /\ \A x \in Sender : task[x].job # j
    BY <1>1, Kinds DEF MailInv, Somewhere, Pending, MailTypes, TaskFits
  <1>3. /\ \A i \in Job : Held(i)' = Held(i) /\ Strays(i)' = Strays(i)
        /\ \A w \in Worker : w \in Sender /\ task[w].job \in Job \cup {Nil}
    BY <1>1 DEF Held, Strays, MailInv, MailTypes, Task, Sender
  <1>4. CASE queue' = Append(queue, j) /\ UNCHANGED lost
    <2>1. queue' \in Seq(Job) /\ Distinct' /\ \A i \in Job : Queued(i)' <=> Queued(i) \/ i = j
      BY <1>2, <1>4, QueueAppend DEF MailInv, MailTypes
    <2>2. MailTypes'
      BY <1>1, <1>4, <2>1 DEF MailInv, MailTypes
    <2>3. HeldOnce'
      BY <1>1, <1>2, <1>3, <2>1 DEF MailInv, HeldOnce
    <2>4. ASSUME NEW i \in Job PROVE Somewhere(i)' /\ SentFits(i)'
      <3>1. Somewhere(i)
        BY DEF MailInv
      <3>2. Somewhere(i)'
        BY <1>1, <1>2, <1>3, <1>4, <2>1, <3>1 DEF Somewhere, Pending
      <3>3. Open(i)' => Open(i)
        BY <1>1, <2>1 DEF Open
      <3>4. QED BY <1>1, <1>3, <3>2, <3>3, SentKept
    <2>5. \A x \in Sender : TaskFits(x)'
      BY <1>1, <1>4 DEF MailInv, TaskFits
    <2>6. QED BY <2>1, <2>2, <2>3, <2>4, <2>5 DEF MailInv
  <1>5. CASE lost' = lost \cup {j} /\ UNCHANGED queue
    <2>1. MailTypes' /\ Distinct'
      BY <1>1, <1>5 DEF MailInv, MailTypes, Distinct
    <2>2. HeldOnce' /\ \A x \in Sender : TaskFits(x)'
      BY <1>1, <1>2, <1>5 DEF MailInv, HeldOnce, Queued, TaskFits
    <2>3. ASSUME NEW i \in Job PROVE Somewhere(i)' /\ SentFits(i)'
      <3>1. Somewhere(i) /\ (Queued(i)' <=> Queued(i))
        BY <1>5 DEF MailInv, Queued
      <3>2. Somewhere(i)'
        BY <1>1, <1>2, <1>3, <1>5, <3>1 DEF Somewhere, Pending
      <3>3. Open(i)' => Open(i)
        BY <1>1, <3>1 DEF Open
      <3>4. QED BY <1>1, <1>3, <3>2, <3>3, SentKept
    <2>4. QED BY <2>1, <2>2, <2>3 DEF MailInv
  <1>6. QED BY <1>4, <1>5 DEF Emit, SendData

\* A worker gets the first job.
LEMMA DeliverMail ==
  ASSUME MailInv, NEW w \in Worker, Deliver(w)
  PROVE  MailInv'
  <1> DEFINE j == Head(queue)
             k == [Idle EXCEPT !.at = Entry(w, j), !.job = j]
  <1>1. /\ task[w].at = "idle" /\ queue # <<>> /\ queue' = Tail(queue)
        /\ task' = [task EXCEPT ![w] = k]
        /\ tried' = IF Entry(w, j) = "ack" THEN tried \cup {j} ELSE tried
        /\ UNCHANGED <<emitted, acked, lost, forgotten, sent, cut>>
    BY DEF Deliver
  <1>2. /\ j \in Job /\ Queued(j) /\ queue' \in Seq(Job) /\ Distinct'
        /\ \A i \in Job : Queued(i)' <=> Queued(i) /\ i # j
    BY <1>1, QueueTail DEF MailInv, MailTypes
  <1>3. j # Nil /\ w \in Sender /\ w \notin Direct /\ w \notin Old
    BY <1>2, Kinds
  <1>4. Entry(w, j) \in {"limit", "ack", "nack"}
    BY <1>2, MailAssumption DEF Entry
  <1>5. k.at = Entry(w, j) /\ k.job = j /\ k.sent = FALSE /\ k \in Task
    BY <1>2, <1>4 DEF Idle, Task
  <1>6. /\ task'[w] = k /\ \A x \in Sender : x # w => task'[x] = task[x]
        /\ task' \in [Sender -> Task]
    BY <1>1, <1>3, <1>5 DEF MailInv, MailTypes
  <1> HIDE DEF j, k
  <1>7. \A v \in Worker : v \in Sender /\ task[v].job \in Job \cup {Nil} /\ task[v].job # j
    BY <1>2, <1>3, Kinds DEF MailInv, MailTypes, HeldOnce, Task
  <1>8. task[w].job = Nil
    BY <1>1, <1>3 DEF MailInv, TaskFits
  <1>9. MailTypes' /\ Pending(j)
    BY <1>1, <1>2, <1>6 DEF MailInv, MailTypes, Somewhere
  <1>10. HeldOnce'
    BY <1>2, <1>5, <1>6, <1>7 DEF MailInv, HeldOnce
  <1>11. ASSUME NEW x \in Sender PROVE TaskFits(x)'
    <2>1. CASE x = w
      BY <1>1, <1>3, <1>4, <1>5, <1>6, <1>9, <2>1 DEF TaskFits, Pending
    <2>2. CASE x # w
      BY <1>1, <1>6, <2>2 DEF MailInv, TaskFits
    <2>3. QED BY <2>1, <2>2
  <1>12. ASSUME NEW i \in Job PROVE Somewhere(i)' /\ SentFits(i)'
    <2>1. Somewhere(i)
      BY DEF MailInv
    <2>2. Held(i)' = IF i = j THEN {w} ELSE Held(i)
      BY <1>3, <1>5, <1>6, <1>7, <1>8, Kinds DEF Held
    <2>3. Somewhere(i)'
      BY <1>1, <1>2, <2>1, <2>2 DEF Somewhere, Pending
    <2>4. Open(i)' => Open(i)
      BY <1>1, <1>2, <1>5, <1>6, <1>7 DEF Open
    <2>5. Strays(i)' \subseteq Strays(i)
      BY <1>3, <1>6, Kinds DEF Strays
    <2>6. QED BY <1>1, <2>3, <2>4, <2>5, SentKept
  <1>13. QED BY <1>2, <1>9, <1>10, <1>11, <1>12 DEF MailInv

\* The job that a worker holds.
LEMMA HeldJob ==
  ASSUME MailInv, NEW w \in Worker, task[w].at # "idle"
  PROVE  /\ w \in Sender /\ w \notin Direct /\ task[w].job \in Job /\ task[w].job # Nil
         /\ Held(task[w].job) = {w} /\ ~Queued(task[w].job)
         /\ Pending(task[w].job)
         /\ \A v \in Worker : v # w => task[v].job # task[w].job
         /\ task \in [Sender -> Task] /\ \A i \in Job : i # Nil
  <1>1. w \in Sender /\ w \notin Direct /\ task \in [Sender -> Task] /\ \A i \in Job : i # Nil
    BY Kinds DEF MailInv, MailTypes
  <1>2. task[w].job # Nil /\ task[w].job \in Job
    BY <1>1 DEF MailInv, TaskFits, Task
  <1>3. ~Queued(task[w].job) /\ \A v \in Worker : v # w => task[v].job # task[w].job
    BY <1>2 DEF MailInv, HeldOnce
  <1>4. Held(task[w].job) = {w}
    BY <1>3 DEF Held
  <1>5. Pending(task[w].job)
    BY <1>2, <1>4 DEF MailInv, Somewhere
  <1>6. QED BY <1>1, <1>2, <1>3, <1>4, <1>5

\* A worker gives its job up: it is idle, and the others hold what they held.
LEMMA GiveUp ==
  ASSUME MailInv, NEW w \in Worker, task[w].at # "idle", task' = [task EXCEPT ![w] = Idle],
         UNCHANGED <<tried, emitted, lost>>
  PROVE  /\ task' \in [Sender -> Task] /\ task'[w] = Idle
         /\ \A x \in Sender : x # w => task'[x] = task[x]
         /\ \A i \in Job : Held(i)' = IF i = task[w].job THEN {} ELSE Held(i)
         /\ \A i \in Job : Strays(i)' = Strays(i)
         /\ \A x \in Sender : TaskFits(x)'
  <1>1. /\ w \in Sender /\ w \notin Direct /\ w \notin Old /\ task \in [Sender -> Task]
        /\ \A v \in Worker : v # w => task[v].job # task[w].job
        /\ \A i \in Job : i # Nil
    BY HeldJob, Kinds
  <1>2. Idle \in Task /\ Idle.at = "idle" /\ Idle.job = Nil /\ Idle.sent = FALSE
    BY DEF Idle, Task
  <1>3. /\ task' \in [Sender -> Task] /\ task'[w] = Idle
        /\ \A x \in Sender : x # w => task'[x] = task[x]
    BY <1>1, <1>2
  <1>4. ASSUME NEW i \in Job PROVE Held(i)' = IF i = task[w].job THEN {} ELSE Held(i)
    BY <1>1, <1>2, <1>3, Kinds DEF Held
  <1>5. ASSUME NEW x \in Sender PROVE TaskFits(x)'
    <2>1. CASE x = w
      BY <1>1, <1>2, <1>3, <2>1 DEF TaskFits
    <2>2. CASE x # w
      BY <1>3, <2>2 DEF MailInv, TaskFits
    <2>3. QED BY <2>1, <2>2
  <1>6. ASSUME NEW i \in Job PROVE Strays(i)' = Strays(i)
    BY <1>1, <1>3, Kinds DEF Strays
  <1>7. QED BY <1>3, <1>4, <1>5, <1>6

\* A job is acknowledged.
LEMMA AckMail ==
  ASSUME MailInv, NEW w \in Worker, Ack(w)
  PROVE  MailInv'
  <1> DEFINE j == task[w].job
  <1>1. /\ task[w].at = "ack" /\ task[w].at # "idle" /\ acked' = acked \cup {j}
        /\ task' = [task EXCEPT ![w] = Idle]
        /\ UNCHANGED <<queue, emitted, lost, forgotten, tried, sent, cut>>
    BY DEF Ack, history
  <1>2. /\ w \in Sender /\ w \notin Direct /\ j \in Job /\ Pending(j)
        /\ ~Queued(j) /\ Held(j) = {w}
        /\ \A v \in Worker : v # w => task[v].job # j
    BY <1>1, HeldJob
  <1>3. j \in tried
    BY <1>1, <1>2 DEF MailInv, TaskFits
  <1>4. /\ task' \in [Sender -> Task] /\ task'[w] = Idle
        /\ \A x \in Sender : x # w => task'[x] = task[x]
        /\ \A i \in Job : Held(i)' = IF i = j THEN {} ELSE Held(i)
        /\ \A i \in Job : Strays(i)' = Strays(i)
        /\ \A x \in Sender : TaskFits(x)'
    BY <1>1, GiveUp
  <1> HIDE DEF j
  <1>5. MailTypes' /\ Distinct' /\ \A i \in Job : Queued(i)' <=> Queued(i)
    BY <1>1, <1>2, <1>4 DEF MailInv, MailTypes, Distinct, Queued, Pending
  <1>6. HeldOnce'
    BY <1>1, <1>4, Kinds DEF MailInv, HeldOnce, Idle, Queued
  <1>7. ASSUME NEW i \in Job PROVE Somewhere(i)' /\ SentFits(i)'
    <2>1. Somewhere(i)
      BY DEF MailInv
    <2>2. Somewhere(i)'
      BY <1>1, <1>2, <1>3, <1>4, <1>5, <2>1 DEF Somewhere, Pending
    <2>3. Open(i)' => Open(i)
      BY <1>1, <1>4, <1>5, Kinds DEF Open, Idle
    <2>4. QED BY <1>1, <1>4, <2>2, <2>3, SentKept
  <1>8. QED BY <1>4, <1>5, <1>6, <1>7 DEF MailInv

\* A job goes back to the queue, with its mail sent or not.
LEMMA BackMail ==
  ASSUME MailInv, NEW w \in Worker, task[w].at # "idle", NEW j \in Job, j = task[w].job,
         queue' = <<j>> \o queue,
         task' \in [Sender -> Task], task'[w] = Idle,
         \A v \in Worker : v # w => task'[v] = task[v],
         \A x \in Sender : TaskFits(x)',
         cut' \in [Job -> Nat], Spent(j)' \in Nat, Spent(j)' <= cut'[j],
         \A i \in Job : i # j => Strays(i)' \subseteq Strays(i) /\ cut'[i] = cut[i],
         UNCHANGED <<emitted, acked, lost, forgotten, tried, sent>>
  PROVE  MailInv'
  <1>1. /\ w \in Sender /\ w \notin Direct /\ Pending(j)
        /\ ~Queued(j) /\ Held(j) = {w}
        /\ \A v \in Worker : v # w => task[v].job # j
        /\ \A i \in Job : i # Nil
    BY HeldJob
  <1>2. queue' \in Seq(Job) /\ Distinct' /\ \A i \in Job : Queued(i)' <=> Queued(i) \/ i = j
    BY <1>1, QueueFront DEF MailInv, MailTypes
  <1>0. task'[w].job = Nil
    BY DEF Idle
  <1>3. ASSUME NEW i \in Job PROVE Held(i)' = IF i = j THEN {} ELSE Held(i)
    <2>1. \A v \in Worker : task'[v].job = i <=> v # w /\ task[v].job = i
      BY <1>0, <1>1
    <2>2. \A v \in Worker : i = j => ~(v # w /\ task[v].job = i)
      BY <1>1
    <2>3. i # j => \A v \in Worker : task[v].job = i => v # w
      OBVIOUS
    <2>4. QED BY <2>1, <2>2, <2>3 DEF Held
  <1>4. MailTypes'
    BY <1>2 DEF MailInv, MailTypes
  <1>5. HeldOnce'
    <2>1. \A v \in Worker : v \in Sender /\ task[v].job \in Job \cup {Nil}
      BY Kinds DEF MailInv, MailTypes, Task
    <2>2. QED BY <1>1, <1>2, <2>1 DEF MailInv, HeldOnce, Idle
  <1>6. ASSUME NEW i \in Job PROVE Somewhere(i)' /\ SentFits(i)'
    <2>1. Somewhere(i)
      BY DEF MailInv
    <2>2. Somewhere(i)'
      BY <1>1, <1>2, <1>3, <2>1 DEF Somewhere, Pending
    <2>3. CASE i = j
      <3>1. Spent(i)' \in Nat /\ Spent(i)' <= cut'[i] /\ cut'[i] \in Nat
        BY <2>3
      <3>2. QED BY <2>2, <3>1 DEF SentFits
    <2>4. CASE i # j
      <3>1. \A v \in Worker : task'[v].job = i => task'[v] = task[v]
        BY <1>0, <1>1
      <3>2. Open(i)' => Open(i)
        BY <1>2, <2>4, <3>1 DEF Open
      <3>3. QED BY <2>2, <2>4, <3>2, SentKept
    <2>5. QED BY <2>3, <2>4
  <1>7. QED BY <1>2, <1>4, <1>5, <1>6 DEF MailInv

\* A refused job goes back with its mail not sent.
LEMMA NackMail ==
  ASSUME MailInv, NEW w \in Worker, Nack(w)
  PROVE  MailInv'
  <1>1. /\ task[w].at = "nack" /\ task[w].at # "idle"
        /\ queue' = <<task[w].job>> \o queue /\ task' = [task EXCEPT ![w] = Idle]
        /\ UNCHANGED <<emitted, acked, lost, forgotten, tried, sent, cut>>
    BY DEF Nack, history
  <1>2. task[w].job \in Job
    BY <1>1, HeldJob
  <1> SUFFICES ASSUME NEW j \in Job, j = task[w].job PROVE MailInv'
    BY <1>2
  <1>3. ~task[w].sent /\ cut \in [Job -> Nat]
    BY <1>1, Kinds DEF MailInv, TaskFits, MailTypes
  <1>4. /\ task' \in [Sender -> Task] /\ task'[w] = Idle
        /\ \A x \in Sender : x # w => task'[x] = task[x]
        /\ \A i \in Job : Strays(i)' = Strays(i)
        /\ \A x \in Sender : TaskFits(x)'
    BY <1>1, GiveUp
  <1>5. Spent(j)' = Spent(j) /\ Spent(j) \in Nat /\ Spent(j) <= cut[j]
    <2>1. Spent(j) \in Nat
      BY <1>1, <1>4, SpentLess
    <2>2. Open(j) /\ SentFits(j)
      BY <1>3 DEF MailInv, Open
    <2>3. QED BY <1>1, <1>4, <2>1, <2>2 DEF Spent, SentFits
  <1>6. \A v \in Worker : v # w => task'[v] = task[v]
    BY <1>4, Kinds
  <1>7. /\ queue' = <<j>> \o queue /\ cut' \in [Job -> Nat]
        /\ Spent(j)' \in Nat /\ Spent(j)' <= cut'[j]
        /\ \A i \in Job : i # j => Strays(i)' \subseteq Strays(i) /\ cut'[i] = cut[i]
    BY <1>1, <1>3, <1>4, <1>5
  <1>8. QED BY <1>1, <1>4, <1>6, <1>7, BackMail

\* How a job's cuts count when it goes back: one more when its mail was sent,
\* or can still be sent.
LEMMA CutCount ==
  ASSUME MailInv, NEW w \in Worker, NEW also \in BOOLEAN, CutShort(w, also),
         NEW j \in Job, j = task[w].job
  PROVE  /\ cut' \in [Job -> Nat] /\ \A i \in Job : i # j => cut'[i] = cut[i]
         /\ task[w].sent \/ also => cut'[j] = cut[j] + 1
         /\ ~(task[w].sent \/ also) => cut'[j] = cut[j] /\ cut' = cut
  <1>1. cut \in [Job -> Nat] /\ task[w].sent \in BOOLEAN
    BY Kinds DEF MailInv, MailTypes, Task
  <1>2. cut' = [cut EXCEPT ![j] = IF task[w].sent \/ also THEN @ + 1 ELSE @]
    BY DEF CutShort
  <1>3. QED BY <1>1, <1>2

\* An instance dies: what its handlers had is nobody's.
LEMMA CrashMail ==
  ASSUME MailInv, NEW w \in Worker, Crash(w)
  PROVE  MailInv'
  <1>1. /\ task[w].job # Nil /\ task' = Ended(w) /\ queue' = <<task[w].job>> \o queue
        /\ CutShort(w, FALSE)
        /\ UNCHANGED <<emitted, acked, lost, forgotten, tried, sent>>
    BY DEF Crash
  <1>2. task[w].at # "idle"
    BY <1>1, Kinds DEF MailInv, TaskFits
  <1>3. /\ task[w].job \in Job /\ task \in [Sender -> Task]
    BY <1>2, HeldJob
  <1> SUFFICES ASSUME NEW j \in Job, j = task[w].job PROVE MailInv'
    BY <1>3
  <1>4. Idle \in Task /\ Idle.at = "idle" /\ Idle.job = Nil /\ Idle.sent = FALSE
    BY DEF Idle, Task
  <1>5. /\ task' \in [Sender -> Task] /\ task'[w] = Idle
        /\ \A x \in Sender : x \notin Old /\ x # w => task'[x] = task[x]
        /\ \A x \in Sender : task'[x] \in {Idle, task[x]}
    BY <1>1, <1>3, <1>4, Kinds DEF Ended
  <1>6. ASSUME NEW x \in Sender PROVE TaskFits(x)'
    BY <1>1, <1>4, <1>5 DEF MailInv, TaskFits
  <1>7. \A i \in Job : Strays(i)' \subseteq Strays(i)
    BY <1>4, <1>5, Kinds DEF Strays
  <1>8. /\ cut' \in [Job -> Nat] /\ \A i \in Job : i # j => cut'[i] = cut[i]
        /\ task[w].sent => cut'[j] = cut[j] + 1
        /\ ~task[w].sent => cut'[j] = cut[j]
    BY <1>1, CutCount
  <1>9. Spent(j) \in Nat /\ Spent(j)' \in Nat /\ Spent(j)' <= Spent(j)
    BY <1>1, <1>7, SpentLess
  <1>10. Spent(j)' <= cut'[j]
    <2>1. SentFits(j) /\ (~task[w].sent => Open(j)) /\ cut[j] \in Nat
      BY DEF MailInv, MailTypes, Open
    <2>2. QED BY <1>8, <1>9, <2>1 DEF SentFits
  <1>11. \A v \in Worker : v # w => task'[v] = task[v]
    BY <1>5, Kinds
  <1>12. queue' = <<j>> \o queue
    BY <1>1
  <1>13. QED BY <1>1, <1>2, <1>5, <1>6, <1>7, <1>8, <1>9, <1>10, <1>11, <1>12, BackMail

\* New channels: the workers of S have nothing, and an old handler that was not
\* there before has what its worker had, whose mail is not sent.
LEMMA NewChannels ==
  ASSUME MailInv, NEW S \in SUBSET Worker, NEW f \in [S -> 1..MaxOld], Free(S, f),
         task' = Reconnected(S, f), UNCHANGED <<emitted, lost, tried>>
  PROVE  /\ task' \in [Sender -> Task]
         /\ \A w \in S : task'[w] = Idle
         /\ \A w \in Worker \ S : task'[w] = task[w]
         /\ \A s \in Old : task'[s] = task[s]
              \/ \E w \in S : /\ s = <<w, f[w]>> /\ CanSend(w) /\ task[s].at = "idle"
                              /\ task'[s] = task[w]
         /\ \A x \in Sender : TaskFits(x)'
  <1>1. Idle \in Task /\ Idle.at = "idle" /\ Idle.job = Nil /\ Idle.sent = FALSE
    BY DEF Idle, Task
  <1>2. task \in [Sender -> Task] /\ \A w \in S : w \in Worker /\ w \in Sender
    BY Kinds DEF MailInv, MailTypes
  <1>3. /\ task' \in [Sender -> Task]
        /\ \A x \in Sender :
              task'[x] = IF x \in S THEN Idle
                         ELSE IF x \in Old /\ x[1] \in S /\ x[2] = f[x[1]] /\ CanSend(x[1])
                              THEN task[x[1]] ELSE task[x]
    BY <1>1, <1>2 DEF Reconnected
  <1>4. /\ \A w \in S : task'[w] = Idle
        /\ \A w \in Worker \ S : task'[w] = task[w]
        /\ \A d \in Direct : task'[d] = task[d]
    BY <1>2, <1>3, Kinds
  <1>5. ASSUME NEW s \in Old
        PROVE  task'[s] = task[s]
                 \/ \E w \in S : /\ s = <<w, f[w]>> /\ CanSend(w) /\ task[s].at = "idle"
                                 /\ task'[s] = task[w]
    <2>1. s \in Sender /\ s \notin S /\ s = <<s[1], s[2]>>
      BY Kinds DEF Old
    <2>2. CASE s[1] \in S /\ s[2] = f[s[1]] /\ CanSend(s[1])
      <3>1. s = <<s[1], f[s[1]]>> /\ task'[s] = task[s[1]]
        BY <1>3, <2>1, <2>2
      <3>2. task[s].at = "idle"
        BY <2>2, <3>1 DEF Free
      <3>3. QED BY <2>2, <3>1, <3>2
    <2>3. CASE ~(s[1] \in S /\ s[2] = f[s[1]] /\ CanSend(s[1]))
      BY <1>3, <2>1, <2>3
    <2>4. QED BY <2>2, <2>3
  <1>6. ASSUME NEW x \in Sender PROVE TaskFits(x)'
    <2>1. TaskFits(x)
      BY DEF MailInv
    <2>2. CASE task'[x] = task[x]
      BY <2>1, <2>2 DEF TaskFits
    <2>3. CASE x \in S
      BY <1>1, <1>2, <1>4, <2>3, Kinds DEF TaskFits
    <2>4. ASSUME x \in Old, NEW w \in S, CanSend(w), task'[x] = task[w] PROVE TaskFits(x)'
      <3>1. TaskFits(w) /\ w \notin Direct /\ w \in Worker
        BY <1>2, Kinds DEF MailInv
      <3>2. QED BY <2>4, <3>1, Kinds DEF TaskFits, CanSend
    <2>5. QED BY <1>4, <1>5, <2>2, <2>3, <2>4, Kinds
  <1>7. QED BY <1>3, <1>4, <1>5, <1>6

\* A worker's channel is lost: its job is in the queue again, and perhaps with
\* an old handler.
LEMMA LostMail ==
  ASSUME MailInv, NEW w \in Worker, ChannelLost(w)
  PROVE  MailInv'
  <1>1. /\ task[w].job # Nil /\ queue' = <<task[w].job>> \o queue
        /\ CutShort(w, CanSend(w))
        /\ UNCHANGED <<emitted, acked, lost, forgotten, tried, sent>>
    BY DEF ChannelLost
  <1>2. PICK f \in [{w} -> 1..MaxOld] : Free({w}, f) /\ task' = Reconnected({w}, f)
    BY DEF ChannelLost
  <1>3. task[w].at # "idle"
    BY <1>1, Kinds DEF MailInv, TaskFits
  <1>4. task[w].job \in Job
    BY <1>3, HeldJob
  <1> SUFFICES ASSUME NEW j \in Job, j = task[w].job PROVE MailInv'
    BY <1>4
  <1> DEFINE s == <<w, f[w]>>
  <1>5. s \in Old
    BY DEF Old
  <1>6. /\ task' \in [Sender -> Task] /\ task'[w] = Idle
        /\ \A v \in Worker : v # w => task'[v] = task[v]
        /\ \A x \in Old : task'[x] = task[x]
              \/ (x = s /\ CanSend(w) /\ task'[x] = task[w])
        /\ \A x \in Sender : TaskFits(x)'
    <2>1. /\ task' \in [Sender -> Task]
          /\ \A v \in {w} : task'[v] = Idle
          /\ \A v \in Worker \ {w} : task'[v] = task[v]
          /\ \A x \in Old : task'[x] = task[x]
               \/ \E v \in {w} : /\ x = <<v, f[v]>> /\ CanSend(v) /\ task[x].at = "idle"
                                 /\ task'[x] = task[v]
          /\ \A x \in Sender : TaskFits(x)'
      BY <1>1, <1>2, NewChannels
    <2>2. QED BY <2>1
  <1> HIDE DEF s
  <1>7. \A i \in Job : i # j => Strays(i)' \subseteq Strays(i)
    BY <1>6 DEF Strays
  <1>8. /\ ~CanSend(w) => Strays(j)' \subseteq Strays(j)
        /\ Strays(j)' \subseteq Strays(j) \cup {s}
    BY <1>6 DEF Strays
  <1>9. CanSend(w) \in BOOLEAN
    BY DEF CanSend
  <1>10. /\ cut' \in [Job -> Nat] /\ \A i \in Job : i # j => cut'[i] = cut[i]
         /\ task[w].sent \/ CanSend(w) => cut'[j] = cut[j] + 1
         /\ ~(task[w].sent \/ CanSend(w)) => cut'[j] = cut[j]
    BY <1>1, <1>9, CutCount
  <1>11. Spent(j)' \in Nat /\ Spent(j)' <= cut'[j]
    <2>1. SentFits(j) /\ (~task[w].sent => Open(j)) /\ cut[j] \in Nat /\ sent[j] \in Nat
      BY DEF MailInv, MailTypes, Open
    <2>2. CASE CanSend(w)
      <3>1. ~task[w].sent
        BY <2>2, Kinds DEF CanSend, MailInv, TaskFits
      <3>2. Strays(j) \in SUBSET Old /\ Strays(j)' \in SUBSET Old
        BY DEF Strays
      <3>3. /\ Cardinality(Strays(j)) \in Nat /\ Cardinality(Strays(j)') \in Nat
            /\ Cardinality(Strays(j)') <= Cardinality(Strays(j)) + 1
        BY <1>5, <1>8, <3>2, StrayCount
      <3>4. Spent(j) <= cut[j]
        BY <2>1, <3>1 DEF SentFits
      <3>5. QED BY <1>1, <1>10, <2>1, <2>2, <3>3, <3>4 DEF Spent
    <2>3. CASE ~CanSend(w)
      <3>1. Spent(j) \in Nat /\ Spent(j)' \in Nat /\ Spent(j)' <= Spent(j)
        BY <1>1, <1>8, <2>3, SpentLess
      <3>2. QED BY <1>10, <2>1, <2>3, <3>1 DEF SentFits
    <2>4. QED BY <2>2, <2>3
  <1>12. queue' = <<j>> \o queue
    BY <1>1
  <1>13. QED BY <1>1, <1>3, <1>6, <1>7, <1>10, <1>11, <1>12, BackMail

\* The jobs that the broker has lost when it comes back.
LEMMA Forgotten ==
  ASSUME MailInv
  PROVE  {j \in Job : Contains(queue, j) \/ Held(j) # {}} = {j \in Job : Pending(j)}
  <1>1. \A j \in Job : Contains(queue, j) <=> Queued(j)
    BY DEF MailInv, MailTypes, Contains, Queued
  <1>2. QED BY <1>1 DEF MailInv, Somewhere

\* The broker restarts: what was pending is forgotten, and the handlers that
\* were at it can still send.
LEMMA RestartMail ==
  ASSUME MailInv, BrokerRestart
  PROVE  MailInv'
  <1>1. /\ forgotten' = forgotten \cup {j \in Job : Pending(j)} /\ queue' = <<>>
        /\ UNCHANGED <<emitted, acked, lost, tried, sent, cut>>
    BY Forgotten DEF BrokerRestart
  <1>2. PICK f \in [Worker -> 1..MaxOld] : Free(Worker, f) /\ task' = Reconnected(Worker, f)
    BY DEF BrokerRestart
  <1>3. /\ task' \in [Sender -> Task]
        /\ \A w \in Worker : task'[w] = Idle
        /\ \A x \in Old : task'[x] = task[x]
              \/ \E w \in Worker : /\ x = <<w, f[w]>> /\ CanSend(w) /\ task[x].at = "idle"
                                   /\ task'[x] = task[w]
        /\ \A x \in Sender : TaskFits(x)'
    BY <1>1, <1>2, NewChannels
  <1>4. \A i \in Job : Held(i)' = {} /\ ~Queued(i)' /\ i # Nil
    BY <1>1, <1>3, Kinds DEF Held, Queued, Idle
  <1>5. MailTypes' /\ Distinct' /\ HeldOnce'
    BY <1>1, <1>3, Kinds DEF MailInv, MailTypes, Distinct, HeldOnce, Idle, Pending
  <1>6. ASSUME NEW i \in Job PROVE Somewhere(i)'
    <2>1. Somewhere(i)
      BY DEF MailInv
    <2>2. QED BY <1>1, <1>4, <2>1 DEF Somewhere, Pending
  <1>7. ASSUME NEW i \in Job PROVE SentFits(i)'
    <2>1. /\ SentFits(i) /\ cut[i] \in Nat /\ sent[i] \in Nat
          /\ Strays(i) \in SUBSET Old /\ Strays(i)' \in SUBSET Old
      BY DEF MailInv, MailTypes, Strays
    <2>2. Open(i)' => i \notin emitted
      BY <1>1, <1>3, <1>4, Kinds DEF Open, Idle
    <2>3. ASSUME NEW w \in Worker, task[w].job = i, CanSend(w)
          PROVE  SentFits(i)'
      <3>1. \A v \in Worker : task[v].job = i => v = w
        BY <1>4, <2>3 DEF MailInv, HeldOnce
      <3>2. <<w, f[w]>> \in Old /\ Strays(i)' \subseteq Strays(i) \cup {<<w, f[w]>>}
        BY <1>3, <3>1 DEF Strays, Old
      <3>3. /\ Cardinality(Strays(i)) \in Nat /\ Cardinality(Strays(i)') \in Nat
            /\ Cardinality(Strays(i)') <= Cardinality(Strays(i)) + 1
        BY <2>1, <3>2, StrayCount
      <3>4. Open(i) /\ i \in emitted
        BY <1>4, <2>3, Kinds DEF Open, CanSend, MailInv, TaskFits
      <3>5. Spent(i) <= cut[i]
        BY <2>1, <3>4 DEF SentFits
      <3>6. Spent(i)' <= 1 + cut'[i]
        BY <1>1, <2>1, <3>3, <3>5 DEF Spent
      <3>7. QED BY <2>2, <3>4, <3>6 DEF SentFits
    <2>4. CASE \A w \in Worker : ~(task[w].job = i /\ CanSend(w))
      <3>1. Strays(i)' \subseteq Strays(i)
        BY <1>3, <2>4 DEF Strays
      <3>2. QED BY <1>1, <2>2, <3>1, SentKept DEF Open
    <2>5. QED BY <2>3, <2>4
  <1>8. QED BY <1>3, <1>5, <1>6, <1>7 DEF MailInv

\* A sender works on the job it has, or is done with it; a mail is sent to no
\* end, or from "send", once.
LEMMA SendStepMail ==
  ASSUME MailInv, NEW x \in Sender, NEW k \in Task, task' = [task EXCEPT ![x] = k],
         x \in Direct => k.job = Nil /\ k.at \in {"idle", "limit", "send"},
         x \in Worker => /\ task[x].at # "idle" /\ k.job = task[x].job
                         /\ k.at \in {"send", "ack"},
         x \in Old => k = Idle \/ (k.job = task[x].job /\ task[x].at # "idle" /\ k.at = "send"),
         k.sent => x \in Worker /\ k.at = "ack",
         tried \subseteq tried', x \in Worker /\ k.at = "ack" => task[x].job \in tried',
         \/ UNCHANGED sent /\ (task[x].sent => k.sent)
         \/ /\ task[x].at = "send" /\ sent' = [sent EXCEPT ![task[x].job] = @ + 1]
            /\ (x \in Worker /\ k.sent) \/ (x \in Old /\ k = Idle),
         UNCHANGED <<queue, emitted, acked, lost, forgotten, cut>>
  PROVE  MailInv'
  <1>1. /\ task \in [Sender -> Task] /\ task' \in [Sender -> Task] /\ task'[x] = k
        /\ \A y \in Sender : y # x => task'[y] = task[y]
        /\ sent \in [Job -> Nat] /\ cut \in [Job -> Nat]
        /\ TaskFits(x) /\ Idle.at = "idle" /\ Idle.job = Nil /\ Idle.sent = FALSE
    BY DEF MailInv, MailTypes, Idle
  <1>2. \A w \in Worker : task'[w].job = task[w].job
    BY <1>1, Kinds
  <1>3. /\ \A i \in Job : Held(i)' = Held(i)
        /\ \A i \in Job : Queued(i)' <=> Queued(i)
        /\ \A i \in Job : Strays(i)' \subseteq Strays(i)
    <2>1. \A s \in Old : task'[s].job \in {task[s].job, Nil}
      BY <1>1, Kinds
    <2>2. QED BY <1>2, <2>1, Kinds DEF Held, Queued, Strays
  <1>4. Distinct' /\ HeldOnce'
    BY <1>2 DEF MailInv, Distinct, HeldOnce, Queued
  <1>5. ASSUME NEW y \in Sender PROVE TaskFits(y)'
    <2>1. TaskFits(y)
      BY DEF MailInv
    <2>2. CASE y # x
      BY <1>1, <2>1, <2>2 DEF TaskFits
    <2>3. CASE y = x /\ x \in Worker
      BY <1>1, <2>1, <2>3, Kinds DEF TaskFits
    <2>4. CASE y = x /\ x \in Direct
      BY <1>1, <2>1, <2>4, Kinds DEF TaskFits
    <2>5. CASE y = x /\ x \in Old
      BY <1>1, <2>1, <2>5, Kinds DEF TaskFits
    <2>6. QED BY <2>2, <2>3, <2>4, <2>5, Kinds
  <1>6. ASSUME NEW i \in Job PROVE Somewhere(i)'
    BY <1>3 DEF MailInv, Somewhere, Pending
  <1>7. CASE UNCHANGED sent /\ (task[x].sent => k.sent)
    <2>1. ASSUME NEW i \in Job PROVE SentFits(i)'
      <3>1. \A w \in Worker : ~task'[w].sent => ~task[w].sent
        BY <1>1, <1>7, Kinds
      <3>2. Open(i)' => Open(i)
        BY <1>2, <1>3, <3>1 DEF Open
      <3>3. QED BY <1>3, <1>7, <3>2, SentKept
    <2>2. QED BY <1>1, <1>4, <1>5, <1>6, <1>7, <2>1 DEF MailInv, MailTypes
  <1>8. ASSUME task[x].at = "send", sent' = [sent EXCEPT ![task[x].job] = @ + 1],
               (x \in Worker /\ k.sent) \/ (x \in Old /\ k = Idle)
        PROVE  MailInv'
    <2>1. task[x].job \in Job
      BY <1>1, <1>8, Kinds DEF TaskFits, Task
    <2> SUFFICES ASSUME NEW j \in Job, j = task[x].job PROVE MailInv'
      BY <2>1
    <2>2. /\ sent' \in [Job -> Nat] /\ sent'[j] = sent[j] + 1
          /\ \A i \in Job : i # j => sent'[i] = sent[i]
      BY <1>1, <1>8
    <2>3. \A w \in Worker : ~task'[w].sent => ~task[w].sent
      BY <1>1, <1>8, Kinds DEF TaskFits
    <2>4. \A i \in Job : Open(i)' => Open(i)
      BY <1>2, <1>3, <2>3 DEF Open
    <2>5. SentFits(j)'
      <3>1. /\ SentFits(j) /\ Strays(j) \in SUBSET Old /\ Strays(j)' \in SUBSET Old
            /\ sent[j] \in Nat /\ cut[j] \in Nat /\ cut' = cut
        BY <1>1 DEF MailInv, Strays
      <3>2. CASE x \in Worker /\ k.sent
        <4>1. /\ Cardinality(Strays(j)) \in Nat /\ Cardinality(Strays(j)') \in Nat
              /\ Cardinality(Strays(j)') <= Cardinality(Strays(j))
          BY <1>3, <3>1, StrayCount
        <4>2. Open(j) /\ j \in emitted /\ ~Queued(j) /\ \A v \in Worker : v # x => task[v].job # j
          BY <1>1, <1>8, <3>2, HeldJob DEF Open, TaskFits, Pending
        <4>3. ~Open(j)'
          BY <1>1, <1>2, <1>3, <3>2, <4>2, Kinds DEF Open
        <4>4. QED BY <2>2, <3>1, <4>1, <4>2, <4>3 DEF SentFits, Spent
      <3>3. CASE x \in Old /\ k = Idle
        <4>1. x \in Strays(j) /\ Strays(j)' \subseteq Strays(j) \ {x}
          BY <1>1, <1>3, <3>3, Kinds DEF Strays
        <4>2. /\ Cardinality(Strays(j)) \in Nat /\ Cardinality(Strays(j)') \in Nat
              /\ Cardinality(Strays(j)') + 1 <= Cardinality(Strays(j))
          BY <3>1, <4>1, StrayCount
        <4>3. QED BY <2>2, <2>4, <3>1, <4>2 DEF SentFits, Spent
      <3>4. QED BY <1>8, <3>2, <3>3
    <2>6. \A i \in Job : i # j => SentFits(i)'
      BY <1>3, <2>2, <2>4, SentKept
    <2>7. QED BY <1>1, <1>4, <1>5, <1>6, <2>2, <2>5, <2>6 DEF MailInv, MailTypes
  <1>9. QED BY <1>7, <1>8

\* What a sender has when it is done.
LEMMA Results ==
  ASSUME MailInv, NEW x \in Sender
  PROVE  /\ x \in Worker => /\ Result(x) \in Task /\ Result(x).job = task[x].job
                            /\ Result(x).at = "ack" /\ Result(x).sent = task[x].sent
                            /\ Mailed(x) \in Task /\ Mailed(x).job = task[x].job
                            /\ Mailed(x).at = "ack" /\ Mailed(x).sent = TRUE
         /\ x \notin Worker => Result(x) = Idle /\ Mailed(x) = Idle
         /\ Idle \in Task /\ Idle.at = "idle" /\ Idle.job = Nil /\ Idle.sent = FALSE
         /\ tried \subseteq Tried(x) /\ (x \notin Direct => task[x].job \in Tried(x))
         /\ Tried(x) \in {tried, tried \cup {task[x].job}}
  <1>1. task[x] \in Task
    BY DEF MailInv, MailTypes
  <1>2. Idle \in Task /\ Idle.at = "idle" /\ Idle.job = Nil /\ Idle.sent = FALSE
    BY DEF Idle, Task
  <1>3. x \in Worker => /\ Result(x) \in Task /\ Result(x).job = task[x].job
                        /\ Result(x).at = "ack" /\ Result(x).sent = task[x].sent
    BY <1>1 DEF Result, Task
  <1>4. x \in Worker => /\ Mailed(x) \in Task /\ Mailed(x).job = task[x].job
                        /\ Mailed(x).at = "ack" /\ Mailed(x).sent = TRUE
    BY <1>1 DEF Mailed, Task
  <1>5. QED BY <1>2, <1>3, <1>4 DEF Result, Mailed, Tried

\* A sender moves on with what it has.
LEMMA SendMails ==
  ASSUME MailInv, NEW x \in Sender, Send(x) \/ (x \in Direct /\ Ask(x))
  PROVE  MailInv'
  <1>1. /\ task[x] \in Task /\ TaskFits(x)
        /\ task[x].job \in Job \cup {Nil} /\ task[x].sent \in BOOLEAN
    BY DEF MailInv, MailTypes, Task
  <1>2. ASSUME NEW at \in {"send", "limit"}, Goto(x, at),
               task[x].at \in {"idle", "limit"}, x \notin Direct => at = "send",
               x \notin Direct => task[x].at # "idle",
               UNCHANGED <<tried, sent, queue, emitted, acked, lost, forgotten, cut>>
        PROVE  MailInv'
    <2> DEFINE k == [task[x] EXCEPT !.at = at]
    <2>1. /\ k.at = at /\ k.job = task[x].job /\ k.sent = task[x].sent /\ k \in Task
      BY <1>1 DEF Task
    <2>2. task' = [task EXCEPT ![x] = k]
      BY <1>2 DEF Goto
    <2>3. ~task[x].sent /\ (x \in Direct => task[x].job = Nil)
      BY <1>1, <1>2 DEF TaskFits
    <2> HIDE DEF k
    <2>4. QED BY <1>2, <2>1, <2>2, <2>3, SendStepMail, Kinds
  <1>3. ASSUME Finish(x), tried' = Tried(x), task[x].at \in {"limit", "send"},
               UNCHANGED <<sent, queue, emitted, acked, lost, forgotten, cut>>
        PROVE  MailInv'
    <2>1. ~task[x].sent
      BY <1>1, <1>3 DEF TaskFits
    <2>2. QED BY <1>1, <1>3, <2>1, Results, SendStepMail, Kinds DEF Finish
  <1>4. CASE Count(x)
    BY <1>2, <1>3, <1>4 DEF Count
  <1>5. CASE CountFails(x)
    BY <1>2, <1>5 DEF CountFails, history
  <1>6. CASE SendFails(x)
    BY <1>3, <1>6 DEF SendFails
  <1>7. CASE x \in Direct /\ Ask(x)
    BY <1>2, <1>7 DEF Ask, history
  <1>8. CASE SendMail(x)
    <2>1. /\ task[x].at = "send" /\ tried' = Tried(x) /\ sent' = Counted(x)
          /\ task' = [task EXCEPT ![x] = Mailed(x)]
          /\ UNCHANGED <<queue, emitted, acked, lost, forgotten, cut>>
      BY <1>8 DEF SendMail
    <2>2. ~task[x].sent
      BY <1>1, <2>1 DEF TaskFits
    <2>3. CASE x \in Worker
      <3>1. sent' = [sent EXCEPT ![task[x].job] = @ + 1] /\ task[x].job \in tried'
            /\ tried \subseteq tried'
        BY <2>1, <2>3, Kinds, Results DEF Counted
      <3>2. /\ Mailed(x) \in Task /\ Mailed(x).job = task[x].job /\ Mailed(x).at = "ack"
            /\ Mailed(x).sent = TRUE
        BY <2>3, Results
      <3>3. x \notin Direct /\ x \notin Old
        BY <2>3, Kinds
      <3>4. QED BY <2>1, <2>3, <3>1, <3>2, <3>3, SendStepMail
    <2>4. CASE x \notin Worker
      <3>1. task' = [task EXCEPT ![x] = Idle] /\ tried \subseteq tried' /\ Idle \in Task
            /\ Idle.at = "idle" /\ Idle.job = Nil /\ Idle.sent = FALSE
        BY <2>1, <2>4, Results
      <3>2. x \in Direct => UNCHANGED sent
        BY <2>1 DEF Counted
      <3>3. x \in Old => sent' = [sent EXCEPT ![task[x].job] = @ + 1]
        BY <2>1, Kinds DEF Counted
      <3>4. QED BY <2>1, <2>2, <2>4, <3>1, <3>2, <3>3, SendStepMail, Kinds
    <2>5. QED BY <2>3, <2>4
  <1>9. QED BY <1>4, <1>5, <1>6, <1>7, <1>8 DEF Send

\* Every step leaves each job in one place.
LEMMA NextMail == ASSUME MailInv, [Next]_vars PROVE MailInv'
  <1>1. ASSUME NEW w \in Worker, Work(w) \/ Crash(w) \/ ChannelLost(w) PROVE MailInv'
    BY <1>1, DeliverMail, SendMails, AckMail, NackMail, CrashMail, LostMail DEF Work, Sender
  <1>2. ASSUME NEW d \in Direct, Ask(d) \/ Send(d) PROVE MailInv'
    BY <1>2, SendMails DEF Sender
  <1>3. ASSUME NEW s \in Old, Send(s) PROVE MailInv'
    BY <1>3, SendMails DEF Sender
  <1>4. CASE WindowEnds \/ UNCHANGED vars
    <2>1. UNCHANGED <<queue, task, emitted, acked, lost, forgotten, tried, sent, cut>>
      BY <1>4 DEF WindowEnds, vars, history
    <2>2. \A i \in Job : SentFits(i)' <=> SentFits(i)
      BY <2>1 DEF SentFits, Spent, Strays, Open, Queued
    <2>3. QED
      BY <2>1, <2>2 DEF MailInv, MailTypes, Distinct, HeldOnce, TaskFits, Somewhere, Pending,
         Queued, Held
  <1>5. QED BY <1>1, <1>2, <1>3, <1>4, EmitMail, RestartMail DEF Next

\* At the start no job was put into the queue.
LEMMA InitMail == Init => MailInv
  <1> SUFFICES ASSUME Init PROVE MailInv
    OBVIOUS
  <1>1. /\ queue = <<>> /\ task = [x \in Sender |-> Idle] /\ emitted = {} /\ acked = {}
        /\ lost = {} /\ forgotten = {}
        /\ sent = [j \in Job |-> 0] /\ cut = [j \in Job |-> 0]
    BY DEF Init
  <1>2. Idle \in Task /\ Idle.at = "idle" /\ Idle.job = Nil /\ Idle.sent = FALSE
    BY DEF Idle, Task
  <1>3. \A j \in Job : ~Queued(j) /\ Held(j) = {} /\ Strays(j) = {}
    BY <1>1, <1>2, Kinds DEF Queued, Held, Strays
  <1>4. MailTypes /\ Distinct /\ HeldOnce
    BY <1>1, <1>2 DEF MailTypes, Distinct, HeldOnce, Sender
  <1>5. \A x \in Sender : TaskFits(x)
    BY <1>1, <1>2 DEF TaskFits
  <1>6. ASSUME NEW j \in Job PROVE Somewhere(j) /\ SentFits(j)
    <2>1. Spent(j) = 0
      BY <1>1, <1>3, FS_EmptySet DEF Spent
    <2>2. QED BY <1>1, <1>3, <2>1 DEF Somewhere, Pending, SentFits
  <1>7. QED BY <1>4, <1>5, <1>6 DEF MailInv

LEMMA MailInvariant == Spec => []MailInv
  BY InitMail, NextMail, PTL DEF Spec

\* No OTP job that reached the broker gets lost but by a restart of the broker,
\* whichever of any number of workers die or lose their channels in whatever
\* order: it waits in the queue once or is with one worker until it is
\* acknowledged, and then it was sent, refused or failed; and nobody has what
\* was acknowledged or forgotten.
THEOREM MailOtpJobsKept == Spec => []OtpJobsKept
  <1>1. MailInv => OtpJobsKept
    <2> SUFFICES ASSUME MailInv, NEW j \in Otp \cap (emitted \ lost)
                 PROVE  LET places == Cardinality(Held(j)) + Cardinality(Places(j))
                        IN  /\ j \in forgotten => j \notin acked /\ places = 0
                            /\ j \in acked => j \in tried /\ places = 0
                            /\ j \notin forgotten \cup acked => places = 1
      BY DEF OtpJobsKept
    <2>1. j \in Job /\ j # Nil /\ Somewhere(j) /\ queue \in Seq(Job) /\ Distinct
      BY MailAssumption DEF Otp, MailInv, MailTypes
    <2>2. ~Queued(j) => Cardinality(Places(j)) = 0
      <3>1. ~Queued(j) => Places(j) = {}
        BY <2>1 DEF Places, Queued
      <3>2. QED BY <3>1, FS_EmptySet
    <2>3. Queued(j) => Cardinality(Places(j)) = 1
      <3> SUFFICES ASSUME Queued(j) PROVE Cardinality(Places(j)) = 1
        OBVIOUS
      <3>1. PICK i \in 1..Len(queue) : queue[i] = j
        BY DEF Queued
      <3>2. Places(j) = {i}
        BY <2>1, <3>1 DEF Places, Distinct
      <3>3. QED BY <3>2, FS_Singleton
    <2>4. Held(j) = {} => Cardinality(Held(j)) = 0
      BY FS_EmptySet
    <2>5. Held(j) # {} => Cardinality(Held(j)) = 1 /\ ~Queued(j)
      <3> SUFFICES ASSUME Held(j) # {} PROVE Cardinality(Held(j)) = 1 /\ ~Queued(j)
        OBVIOUS
      <3>1. PICK w \in Worker : w \in Held(j)
        BY DEF Held
      <3>2. Held(j) = {w} /\ ~Queued(j)
        BY <2>1, <3>1 DEF Held, MailInv, HeldOnce
      <3>3. QED BY <3>2, FS_Singleton
    <2>6. CASE Pending(j)
      BY <2>1, <2>2, <2>3, <2>4, <2>5, <2>6 DEF Somewhere, Pending
    <2>7. CASE ~Pending(j)
      BY <2>1, <2>2, <2>4, <2>7 DEF Somewhere, Pending
    <2>8. QED BY <2>6, <2>7
  <1>2. QED BY <1>1, MailInvariant, PTL

-----------------------------------------------------------------------------
(* The promise.  A step of the queue, of a worker, of an old handler or of *)
(* an endpoint is a step of MailPromise for one job, or none; a restart of *)
(* the broker is one for all that are pending.                             *)

PromiseStep == [Promise!Next]_(Promise!promise)

\* What a step does not touch stands as it stood.
LEMMA StandingSame ==
  ASSUME UNCHANGED <<emitted, lost, forgotten, acked>> PROVE Standing' = Standing
  BY DEF Standing

\* How a job stands.
LEMMA Stands ==
  ASSUME MailInv, NEW j \in Job
  PROVE  /\ Standing[j] = "pending" <=> Pending(j)
         /\ j \in emitted \ lost /\ j \notin acked => Standing[j] \in {"pending", "forgotten"}
         /\ j \in emitted \ lost => Standing[j] \notin {"new", "lost"}
  BY DEF MailInv, Somewhere, Standing, Pending

\* A step that sends nothing, cuts nothing short and ends nothing; what was
\* acknowledged was tried before.
LEMMA QuietStep ==
  ASSUME MailInv, UNCHANGED <<emitted, lost, forgotten, acked, sent, cut>>,
         tried' = tried \/ \E j \in Job : j \in emitted \ lost /\ tried' = tried \cup {j}
  PROVE  PromiseStep
  <1>1. Standing' = Standing
    BY StandingSame
  <1>2. CASE tried' = tried
    BY <1>1, <1>2 DEF PromiseStep, Promise!promise
  <1>3. ASSUME NEW j \in Job, j \in emitted \ lost, tried' = tried \cup {j}
        PROVE  PromiseStep
    <2>1. CASE j \in acked
      <3>1. tried' = tried
        BY <1>3, <2>1 DEF MailInv, Somewhere
      <3>2. QED BY <1>2, <3>1
    <2>2. CASE j \notin acked
      <3>1. Standing[j] \in {"pending", "forgotten"}
        BY <1>3, <2>2, Stands
      <3>2. Promise!Try(j)
        BY <1>1, <1>3, <3>1 DEF Promise!Try
      <3>3. QED BY <3>2 DEF PromiseStep, Promise!Next
    <2>3. QED BY <2>1, <2>2
  <1>4. QED BY <1>2, <1>3

\* A job is put into the queue, or never gets there.
LEMMA EmitPromise ==
  ASSUME MailInv, NEW j \in Job, Emit(j)
  PROVE  PromiseStep
  <1>1. /\ j \notin emitted /\ emitted' = emitted \cup {j}
        /\ UNCHANGED <<acked, forgotten, tried, sent, cut>>
        /\ lost' = lost \/ lost' = lost \cup {j}
    BY DEF Emit, SendData
  <1>2. j \notin lost /\ j \notin acked /\ j \notin forgotten
    BY <1>1 DEF MailInv, MailTypes
  <1>3. Standing[j] = "new"
    BY <1>1 DEF Standing
  <1>4. \A to \in {"pending", "lost"} :
          (to = "lost" <=> j \in lost') => Standing' = [Standing EXCEPT ![j] = to]
    BY <1>1, <1>2 DEF Standing
  <1>5. \E to \in {"pending", "lost"} : Promise!Becomes(j, "new", to)
    BY <1>3, <1>4 DEF Promise!Becomes
  <1>6. Promise!Put(j)
    BY <1>1, <1>5 DEF Promise!Put
  <1>7. QED BY <1>6 DEF PromiseStep, Promise!Next

\* A worker gets a job, which is sometimes all that is ever tried for it.
LEMMA DeliverPromise ==
  ASSUME MailInv, NEW w \in Worker, Deliver(w)
  PROVE  PromiseStep
  <1> DEFINE j == Head(queue)
  <1>1. /\ tried' = tried \/ tried' = tried \cup {j}
        /\ UNCHANGED <<emitted, acked, lost, forgotten, sent, cut>>
        /\ queue # <<>>
    BY DEF Deliver, bounds
  <1>2. j \in Job /\ Queued(j)
    BY <1>1 DEF MailInv, MailTypes, Queued
  <1>3. j \in emitted \ lost
    BY <1>2 DEF MailInv, Somewhere, Pending
  <1> HIDE DEF j
  <1>4. QED BY <1>1, <1>2, <1>3, QuietStep

\* A job is acknowledged.
LEMMA AckPromise ==
  ASSUME MailInv, NEW w \in Worker, Ack(w)
  PROVE  PromiseStep
  <1> DEFINE j == task[w].job
  <1>1. /\ task[w].at = "ack" /\ task[w].at # "idle" /\ acked' = acked \cup {j}
        /\ UNCHANGED <<emitted, lost, forgotten, tried, sent, cut>>
    BY DEF Ack, history
  <1>2. j \in Job /\ Pending(j)
    BY <1>1, HeldJob
  <1>3. j \in tried
    BY <1>1, Kinds DEF MailInv, TaskFits
  <1> HIDE DEF j
  <1>4. Standing[j] = "pending" /\ Standing' = [Standing EXCEPT ![j] = "done"]
    BY <1>1, <1>2 DEF Standing, Pending
  <1>5. Promise!Finish(j)
    BY <1>1, <1>3, <1>4 DEF Promise!Finish, Promise!Becomes
  <1>6. QED BY <1>2, <1>5 DEF PromiseStep, Promise!Next

\* A worker dies or loses its channel.
LEMMA CutPromise ==
  ASSUME MailInv, NEW w \in Worker, Crash(w) \/ ChannelLost(w)
  PROVE  PromiseStep
  <1>1. /\ task[w].job # Nil
        /\ \E also \in BOOLEAN : CutShort(w, also)
        /\ UNCHANGED <<emitted, acked, lost, forgotten, tried, sent>>
    <2>1. CanSend(w) \in BOOLEAN
      BY DEF CanSend
    <2>2. QED BY <2>1 DEF Crash, ChannelLost
  <1>2. task[w].at # "idle"
    BY <1>1, Kinds DEF MailInv, TaskFits
  <1>3. task[w].job \in Job /\ Pending(task[w].job)
    BY <1>2, HeldJob
  <1> SUFFICES ASSUME NEW j \in Job, j = task[w].job PROVE PromiseStep
    BY <1>3
  <1>4. PICK also \in BOOLEAN : CutShort(w, also)
    BY <1>1
  <1>5. CASE ~(task[w].sent \/ also)
    <2>1. cut' = cut
      BY <1>4, <1>5, CutCount
    <2>2. QED BY <1>1, <2>1, QuietStep
  <1>6. CASE task[w].sent \/ also
    <2>1. cut' = [cut EXCEPT ![j] = @ + 1]
      BY <1>4, <1>6 DEF CutShort
    <2>2. Standing[j] = "pending" /\ Standing' = Standing
      BY <1>1, <1>3, Stands, StandingSame
    <2>3. Promise!Cut(j)
      BY <1>1, <2>1, <2>2 DEF Promise!Cut
    <2>4. QED BY <2>3 DEF PromiseStep, Promise!Next
  <1>7. QED BY <1>5, <1>6

\* The broker restarts.
LEMMA RestartPromise ==
  ASSUME MailInv, BrokerRestart
  PROVE  PromiseStep
  <1>1. /\ forgotten' = forgotten \cup {j \in Job : Pending(j)}
        /\ UNCHANGED <<emitted, acked, lost, tried, sent, cut>>
    BY Forgotten DEF BrokerRestart
  <1>2. Standing' = [j \in Job |-> IF Standing[j] = "pending" THEN "forgotten" ELSE Standing[j]]
    <2>1. ASSUME NEW j \in Job
          PROVE  Standing'[j] = IF Standing[j] = "pending" THEN "forgotten" ELSE Standing[j]
      BY <1>1 DEF Standing, Pending
    <2>2. QED BY <2>1 DEF Standing
  <1>3. Promise!Forget
    BY <1>1, <1>2 DEF Promise!Forget
  <1>4. QED BY <1>3 DEF PromiseStep, Promise!Next

\* A sender goes on; a worker or an old handler sends a job's mail.
LEMMA SendPromise ==
  ASSUME MailInv, NEW x \in Sender, Send(x) \/ (x \in Direct /\ Ask(x))
  PROVE  PromiseStep
  <1>1. /\ task[x] \in Task /\ TaskFits(x)
        /\ UNCHANGED <<emitted, acked, lost, forgotten, cut>>
    BY DEF MailInv, MailTypes, Send, Count, CountFails, SendMail, SendFails, Ask, history, bounds
  <1>2. x \notin Direct /\ task[x].at # "idle" => task[x].job \in Job /\ task[x].job \in emitted \ lost
    BY <1>1 DEF TaskFits, Task
  <1>3. CASE ~SendMail(x)
    <2>1. UNCHANGED sent
      BY <1>3 DEF Send, Count, CountFails, SendFails, Ask, history
    <2>2. \/ tried' = tried
          \/ task[x].at # "idle" /\ tried' = Tried(x)
      BY <1>3 DEF Send, Count, CountFails, SendFails, Ask, history
    <2>3. tried' = tried \/ \E j \in Job : j \in emitted \ lost /\ tried' = tried \cup {j}
      BY <1>2, <2>2 DEF Tried
    <2>4. QED BY <1>1, <2>1, <2>3, QuietStep
  <1>4. CASE SendMail(x)
    <2>1. task[x].at = "send" /\ tried' = Tried(x) /\ sent' = Counted(x)
      BY <1>4 DEF SendMail
    <2>2. CASE x \in Direct
      BY <1>1, <2>1, <2>2, QuietStep DEF Tried, Counted
    <2>3. CASE x \notin Direct
      <3>1. task[x].job \in Job /\ task[x].job \in emitted \ lost
        BY <1>2, <2>1, <2>3
      <3> SUFFICES ASSUME NEW j \in Job, j = task[x].job PROVE PromiseStep
        BY <3>1
      <3>2. /\ SentFits(j) /\ Strays(j) \in SUBSET Old /\ {} \in SUBSET Old
            /\ sent[j] \in Nat /\ cut[j] \in Nat
        BY DEF MailInv, MailTypes, Strays
      <3>3. Cardinality(Strays(j)) \in Nat
        BY <3>2, StrayCount
      <3>4. sent[j] <= cut[j]
        <4>1. CASE x \in Worker
          <5>1. Open(j)
            BY <1>1, <2>1, <4>1 DEF Open, TaskFits
          <5>2. QED BY <3>2, <3>3, <5>1 DEF SentFits, Spent
        <4>2. CASE x \in Old
          <5>1. x \in Strays(j) /\ {} \subseteq Strays(j) \ {x}
            BY <4>2 DEF Strays
          <5>2. Cardinality({}) \in Nat /\ Cardinality({}) + 1 <= Cardinality(Strays(j))
            BY <3>2, <5>1, StrayCount
          <5>3. QED BY <3>2, <3>3, <5>2 DEF SentFits, Spent
        <4>3. QED BY <2>3, <4>1, <4>2, Kinds
      <3>5. /\ tried' = tried \cup {j} /\ sent' = [sent EXCEPT ![j] = @ + 1]
        BY <2>1, <2>3 DEF Tried, Counted
      <3>6. Standing[j] \notin {"new", "lost"} /\ Standing' = Standing
        BY <1>1, <3>1, Stands, StandingSame
      <3>7. Promise!Send(j)
        BY <1>1, <3>4, <3>5, <3>6 DEF Promise!Send
      <3>8. QED BY <3>7 DEF PromiseStep, Promise!Next
    <2>4. QED BY <2>2, <2>3
  <1>5. QED BY <1>3, <1>4

\* Every step of the queue and its users.
LEMMA NextPromise == ASSUME MailInv, [Next]_vars PROVE PromiseStep
  <1>1. ASSUME NEW w \in Worker, Nack(w) PROVE PromiseStep
    BY <1>1, QuietStep DEF Nack, history
  <1>2. ASSUME NEW w \in Worker, Work(w) \/ Crash(w) \/ ChannelLost(w) PROVE PromiseStep
    BY <1>1, <1>2, DeliverPromise, SendPromise, AckPromise, CutPromise DEF Work, Sender
  <1>3. ASSUME NEW x \in Direct \cup Old, Send(x) \/ (x \in Direct /\ Ask(x)) PROVE PromiseStep
    BY <1>3, SendPromise DEF Sender
  <1>4. CASE WindowEnds \/ UNCHANGED vars
    BY <1>4, QuietStep DEF WindowEnds, vars, history
  <1>5. QED BY <1>2, <1>3, <1>4, EmitPromise, RestartPromise DEF Next

\* The queue and its workers keep the promise of MailPromise, for any numbers of
\* jobs, workers, accidents and failures: a job's mail is sent again only when
\* the job went back to the queue after its mail was sent, or while the handler
\* of a lost channel could still send it.
THEOREM MailImplementsPromise == Spec => ImplementsPromise
  <1>1. Init => Promise!Init
    <2> SUFFICES ASSUME Init PROVE Promise!Init
      OBVIOUS
    <2>1. /\ sent = [j \in Job |-> 0] /\ cut = [j \in Job |-> 0]
          /\ emitted = {} /\ tried = {}
      BY DEF Init
    <2>2. Standing = [j \in Job |-> "new"]
      BY <2>1 DEF Standing
    <2>3. QED BY <2>1, <2>2 DEF Promise!Init
  <1>2. MailInv /\ [Next]_vars => [Promise!Next]_(Promise!promise)
    BY NextPromise DEF PromiseStep
  <1>3. QED BY <1>1, <1>2, MailInvariant, PTL DEF Spec, ImplementsPromise, Promise!Spec

\* A job's mail is sent at most once for each time the job is handled to the
\* end: a second mail takes a worker that died after it had sent the mail, or
\* whose channel was lost before the job was acknowledged.
THEOREM MailSentOnceUnlessCut == Spec => []Promise!SentOnceUnlessCut
  <1>1. ASSUME MailInv, NEW j \in Job PROVE sent[j] <= 1 + cut[j]
    <2>1. Strays(j) \in SUBSET Old /\ sent[j] \in Nat /\ cut[j] \in Nat /\ SentFits(j)
      BY <1>1 DEF Strays, MailInv, MailTypes
    <2>2. Cardinality(Strays(j)) \in Nat
      BY <2>1, StrayCount
    <2>3. QED BY <2>1, <2>2 DEF SentFits, Spent
  <1>2. MailInv => Promise!SentOnceUnlessCut
    BY <1>1 DEF Promise!SentOnceUnlessCut
  <1>3. QED BY <1>2, MailInvariant, PTL

-----------------------------------------------------------------------------
(***************************************************************************)
(* The rooms.                                                              *)
(***************************************************************************)
Subscription == [ticket: Ticket, version: Nat]

\* What is asked of the constants: null is neither a set of rooms nor a
\* subscription.
Sound == Nil \notin Subscription /\ Nil \notin SUBSET Ticket

RoomTypes ==
    /\ version \in [Ticket -> Nat] /\ writer \in Ticket \cup {Nil}
    /\ conn \in [Client -> {"new", "on", "gone"}]
    /\ tracked \in [Client -> (SUBSET Ticket) \cup {Nil}]
    /\ room \in [Ticket -> SUBSET Client]
    /\ pending \in [Client -> Subscription \cup {Nil}]
    /\ late \subseteq Client

\* A client that is not connected yet waits for nothing and is tracked
\* nowhere; one that went while it waited is remembered.
RoomsWaiting ==
    \A c \in Client :
        /\ conn[c] = "new" => pending[c] = Nil /\ tracked[c] = Nil
        /\ conn[c] = "gone" /\ pending[c] # Nil => c \in late

RoomsInv == RoomTypes /\ RoomsWaiting /\ RoomsAgree

-----------------------------------------------------------------------------
\* Before anybody connects the records are empty.
LEMMA InitRooms == ASSUME Rooms!Init PROVE RoomsInv
  <1>1. RoomTypes
    BY DEF Rooms!Init, RoomTypes
  <1>2. RoomsWaiting
    BY DEF Rooms!Init, RoomsWaiting
  <1>3. ASSUME NEW c \in Client
        PROVE  conn[c] # "on" /\ Rooms!SocketRooms(c) = {} /\ ~Rooms!IsClientConnected(c)
    BY DEF Rooms!Init, Rooms!SocketRooms, Rooms!IsClientConnected
  <1>4. RoomsAgree
    BY <1>3 DEF RoomsAgree, Rooms!RoomsAgree
  <1> QED  BY <1>1, <1>2, <1>4 DEF RoomsInv

\* Client c's step: the records of the others stay, and its own two agree.
LEMMA OwnRooms ==
    ASSUME RoomsInv, NEW c \in Client, RoomTypes',
           \A d \in Client \ {c} :
              /\ conn'[d] = conn[d] /\ tracked'[d] = tracked[d] /\ pending'[d] = pending[d]
              /\ \A t \in Ticket : d \in room'[t] <=> d \in room[t]
              /\ d \in late => d \in late',
           conn'[c] = "new" => pending'[c] = Nil /\ tracked'[c] = Nil,
           conn'[c] = "gone" /\ pending'[c] # Nil => c \in late',
           IF conn'[c] = "on" THEN Rooms!ClientRooms(c)' = Rooms!SocketRooms(c)'
           ELSE Rooms!SocketRooms(c)' = {} /\ (Rooms!IsClientConnected(c)' => c \in late')
    PROVE  RoomsInv'
  <1>1. \A d \in Client \ {c} :
           /\ Rooms!ClientRooms(d)' = Rooms!ClientRooms(d)
           /\ Rooms!SocketRooms(d)' = Rooms!SocketRooms(d)
           /\ Rooms!IsClientConnected(d)' = Rooms!IsClientConnected(d)
    BY DEF Rooms!ClientRooms, Rooms!SocketRooms, Rooms!IsClientConnected
  <1>2. RoomsWaiting'
    BY DEF RoomsInv, RoomsWaiting
  <1>3. RoomsAgree'
    BY <1>1 DEF RoomsInv, RoomsAgree, Rooms!RoomsAgree
  <1> QED  BY <1>2, <1>3 DEF RoomsInv

\* A connection begins in no room.
LEMMA ConnectStep ==
    ASSUME Sound, RoomsInv, NEW c \in Client, Rooms!Connect(c)
    PROVE  RoomsInv'
  <1>1. /\ RoomTypes' /\ conn'[c] = "on" /\ tracked'[c] = {} /\ room' = room
        /\ \A d \in Client \ {c} : conn'[d] = conn[d] /\ tracked'[d] = tracked[d]
    BY DEF Rooms!Connect, RoomsInv, RoomTypes
  <1>2. /\ Rooms!SocketRooms(c) = {} /\ Rooms!SocketRooms(c)' = Rooms!SocketRooms(c)
        /\ Rooms!ClientRooms(c)' = {}
    BY <1>1 DEF Rooms!Connect, RoomsInv, RoomsAgree, Rooms!RoomsAgree,
                Rooms!SocketRooms, Rooms!ClientRooms
  <1> QED  BY <1>1, <1>2, OwnRooms DEF Rooms!Connect

\* A subscription that is asked for or fails.
LEMMA PendingStep ==
    ASSUME Sound, RoomsInv, NEW c \in Client,
           Rooms!JoinFails(c) \/ \E t \in Ticket : Rooms!Ask(c, t)
    PROVE  RoomsInv'
  <1>1. pending' \in [Client -> Subscription \cup {Nil}]
    BY DEF Rooms!JoinFails, Rooms!Ask, RoomsInv, RoomTypes, Subscription
  <1>2. UNCHANGED <<version, writer, conn, tracked, room, late>>
    BY DEF Rooms!JoinFails, Rooms!Ask
  <1>3. \A d \in Client : conn[d] # "on" => pending'[d] \in {pending[d], Nil}
    BY DEF Rooms!JoinFails, Rooms!Ask, RoomsInv, RoomTypes
  <1>4. RoomTypes' /\ RoomsWaiting'
    BY <1>1, <1>2, <1>3 DEF RoomsInv, RoomTypes, RoomsWaiting
  <1> QED  BY <1>2, <1>4 DEF RoomsInv, RoomsAgree, Rooms!RoomsAgree,
                Rooms!ClientRooms, Rooms!SocketRooms, Rooms!IsClientConnected

\* A subscription that was read puts its client in both records, or in one when
\* the client went meanwhile.
LEMMA JoinStep ==
    ASSUME Sound, RoomsInv, NEW c \in Client, Rooms!Join(c)
    PROVE  RoomsInv'
  <1>0. RoomTypes /\ conn[c] \in {"on", "gone"} /\ pending[c] \in Subscription
    BY DEF Rooms!Join, RoomsInv, RoomTypes, RoomsWaiting
  <1>1. PICK t \in Ticket : t = pending[c].ticket
    BY <1>0 DEF Subscription
  <1>2. /\ tracked' = [tracked EXCEPT ![c] = Rooms!Track(c, t)]
        /\ pending' = [pending EXCEPT ![c] = Nil] /\ UNCHANGED <<version, writer, conn, late>>
        /\ room' = (IF conn[c] = "on" THEN [room EXCEPT ![t] = @ \cup {c}] ELSE room)
    BY <1>1 DEF Rooms!Join
  <1>3. Rooms!Track(c, t) \in SUBSET Ticket /\ Rooms!Track(c, t) # Nil
    <2>1. CASE tracked[c] = Nil
      <3>1. Rooms!Track(c, t) = {t} /\ {t} \in SUBSET Ticket
        BY <2>1 DEF Rooms!Track
      <3> QED  BY <3>1 DEF Sound
    <2>2. CASE tracked[c] # Nil
      <3>1. Rooms!Track(c, t) = tracked[c] \cup {t} /\ tracked[c] \in SUBSET Ticket
        BY <1>0, <2>2 DEF Rooms!Track, RoomTypes
      <3>2. tracked[c] \cup {t} \in SUBSET Ticket
        BY <3>1
      <3> QED  BY <3>1, <3>2 DEF Sound
    <2> QED  BY <2>1, <2>2
  <1>4. RoomTypes'
    BY <1>0, <1>2, <1>3 DEF RoomTypes
  <1>5. /\ tracked'[c] = Rooms!Track(c, t) /\ pending'[c] = Nil
        /\ \A d \in Client \ {c} : /\ tracked'[d] = tracked[d] /\ pending'[d] = pending[d]
                                   /\ \A s \in Ticket : d \in room'[s] <=> d \in room[s]
    BY <1>0, <1>2 DEF RoomTypes
  <1>6. CASE conn[c] = "on"
    <2>1. Rooms!ClientRooms(c) = Rooms!SocketRooms(c) 
          /\ Rooms!Track(c, t) = Rooms!ClientRooms(c) \cup {t}
      BY <1>6 DEF RoomsInv, RoomsAgree, Rooms!RoomsAgree, Rooms!Track, Rooms!ClientRooms
    <2>2. Rooms!ClientRooms(c)' = Rooms!ClientRooms(c) \cup {t}
      BY <1>3, <1>5, <2>1 DEF Rooms!ClientRooms
    <2>3. Rooms!SocketRooms(c)' = Rooms!SocketRooms(c) \cup {t}
      BY <1>0, <1>2, <1>6 DEF Rooms!SocketRooms, RoomTypes
    <2> QED  BY <1>2, <1>4, <1>5, <1>6, <2>1, <2>2, <2>3, OwnRooms
  <1>7. CASE conn[c] = "gone"
    <2>1. /\ c \in late /\ Rooms!SocketRooms(c) = {}
          /\ Rooms!SocketRooms(c)' = Rooms!SocketRooms(c)
      BY <1>2, <1>7 DEF Rooms!Join, RoomsInv, RoomsWaiting, RoomsAgree, Rooms!RoomsAgree,
                Rooms!SocketRooms
    <2> QED  BY <1>2, <1>4, <1>5, <1>7, <2>1, OwnRooms
  <1> QED  BY <1>0, <1>6, <1>7

\* Leaving a room takes the client out of both records.
LEMMA LeaveStep ==
    ASSUME Sound, RoomsInv, NEW c \in Client, NEW t \in Ticket, Rooms!Leave(c, t)
    PROVE  RoomsInv'
  <1>0. RoomTypes /\ conn[c] = "on" /\ UNCHANGED <<version, writer, conn, pending, late>>
    BY DEF Rooms!Leave, RoomsInv
  <1>1. /\ room' = [room EXCEPT ![t] = @ \ {c}]
        /\ tracked' = [tracked EXCEPT ![c] = Rooms!Untrack(c, t)]
    BY DEF Rooms!Leave
  <1>2. tracked[c] = Nil \/ tracked[c] \in SUBSET Ticket
    BY <1>0 DEF RoomTypes
  <1>8. \/ Rooms!Untrack(c, t) = Nil
        \/ tracked[c] \in SUBSET Ticket /\ Rooms!Untrack(c, t) = tracked[c] \ {t}
    BY <1>2 DEF Rooms!Untrack
  <1>3. RoomTypes'
    BY <1>0, <1>1, <1>8 DEF RoomTypes
  <1>4. /\ tracked'[c] = Rooms!Untrack(c, t)
        /\ \A d \in Client \ {c} : /\ tracked'[d] = tracked[d]
                                   /\ \A s \in Ticket : d \in room'[s] <=> d \in room[s]
    BY <1>0, <1>1 DEF RoomTypes
  <1>5. Rooms!ClientRooms(c) = Rooms!SocketRooms(c)
    BY <1>0 DEF RoomsInv, RoomsAgree, Rooms!RoomsAgree
  <1>6. Rooms!ClientRooms(c)' = Rooms!ClientRooms(c) \ {t}
    <2>1. CASE tracked[c] = Nil
      BY <1>4, <2>1 DEF Rooms!ClientRooms, Rooms!Untrack
    <2>2. CASE tracked[c] # Nil /\ tracked[c] \subseteq {t}
      BY <1>4, <2>2 DEF Rooms!ClientRooms, Rooms!Untrack
    <2>3. CASE tracked[c] # Nil /\ ~(tracked[c] \subseteq {t})
      <3>1. Rooms!Untrack(c, t) = tracked[c] \ {t} /\ tracked[c] \ {t} \in SUBSET Ticket
        BY <1>2, <2>3 DEF Rooms!Untrack
      <3>2. Rooms!Untrack(c, t) # Nil
        BY <3>1 DEF Sound
      <3> QED  BY <1>4, <2>3, <3>1, <3>2 DEF Rooms!ClientRooms
    <2> QED  BY <2>1, <2>2, <2>3
  <1>7. Rooms!SocketRooms(c)' = Rooms!SocketRooms(c) \ {t}
    BY <1>0, <1>1 DEF Rooms!SocketRooms, RoomTypes
  <1> QED  BY <1>0, <1>3, <1>4, <1>5, <1>6, <1>7, OwnRooms

\* A client that goes is taken out of every room.
LEMMA DisconnectStep ==
    ASSUME Sound, RoomsInv, NEW c \in Client, Rooms!Disconnect(c)
    PROVE  RoomsInv'
  <1>0. RoomTypes /\ conn[c] = "on" /\ UNCHANGED <<version, writer, pending>>
    BY DEF Rooms!Disconnect, RoomsInv
  <1>1. /\ conn' = [conn EXCEPT ![c] = "gone"] /\ tracked' = [tracked EXCEPT ![c] = Nil]
        /\ room' = [t \in Ticket |-> room[t] \ {c}]
        /\ late' = IF pending[c] = Nil THEN late ELSE late \cup {c}
    BY DEF Rooms!Disconnect, Rooms!Vacated
  <1>2. RoomTypes'
    <2>1. room' \in [Ticket -> SUBSET Client] /\ late' \subseteq Client
      BY <1>0, <1>1 DEF RoomTypes
    <2>2. conn' \in [Client -> {"new", "on", "gone"}]
          /\ tracked' \in [Client -> (SUBSET Ticket) \cup {Nil}]
      BY <1>0, <1>1 DEF RoomTypes
    <2> QED  BY <1>0, <2>1, <2>2 DEF RoomTypes
  <1>3. /\ conn'[c] = "gone" /\ tracked'[c] = Nil /\ \A t \in Ticket : c \notin room'[t]
        /\ \A d \in Client \ {c} :
              /\ conn'[d] = conn[d] /\ tracked'[d] = tracked[d]
              /\ \A t \in Ticket : d \in room'[t] <=> d \in room[t]
    BY <1>0, <1>1 DEF RoomTypes
  <1>4. Rooms!SocketRooms(c)' = {} /\ ~Rooms!IsClientConnected(c)'
    BY <1>3 DEF Rooms!SocketRooms, Rooms!IsClientConnected
  <1> QED  BY <1>0, <1>1, <1>2, <1>3, <1>4, OwnRooms

\* The requests that change a ticket touch no record of the rooms.
LEMMA TicketStep ==
    ASSUME RoomsInv,
           Rooms!BroadcastStatus \/ Rooms!ChangeFails \/ \E t \in Ticket : Rooms!Change(t)
    PROVE  RoomsInv'
  <1>1. UNCHANGED <<conn, tracked, room, pending, late>>
    BY DEF Rooms!BroadcastStatus, Rooms!ChangeFails, Rooms!Change
  <1>2. version' \in [Ticket -> Nat] /\ writer' \in Ticket \cup {Nil}
    BY DEF Rooms!BroadcastStatus, Rooms!ChangeFails, Rooms!Change, RoomsInv, RoomTypes
  <1> QED  BY <1>1, <1>2 DEF RoomsInv, RoomTypes, RoomsWaiting, RoomsAgree, Rooms!RoomsAgree,
                Rooms!ClientRooms, Rooms!SocketRooms,
                             Rooms!IsClientConnected

\* Every step keeps the records in agreement.
LEMMA NextRooms == ASSUME Sound, RoomsInv, [Rooms!Next]_(Rooms!vars) PROVE RoomsInv'
  <1>1. CASE UNCHANGED Rooms!vars
    BY <1>1 DEF Rooms!vars, RoomsInv, RoomTypes, RoomsWaiting, RoomsAgree, Rooms!RoomsAgree,
                Rooms!ClientRooms, Rooms!SocketRooms,
                Rooms!IsClientConnected
  <1>2. ASSUME NEW c \in Client,
               \/ Rooms!Connect(c) \/ Rooms!Join(c) \/ Rooms!JoinFails(c) \/ Rooms!Disconnect(c)
               \/ \E t \in Ticket : Rooms!Ask(c, t) \/ Rooms!Leave(c, t)
        PROVE  RoomsInv'
    BY <1>2, ConnectStep, JoinStep, PendingStep, LeaveStep, DisconnectStep
  <1>3. CASE Rooms!BroadcastStatus \/ Rooms!ChangeFails \/ \E t \in Ticket : Rooms!Change(t)
    BY <1>3, TicketStep
  <1> QED  BY <1>1, <1>2, <1>3 DEF Rooms!Next

-----------------------------------------------------------------------------
\* However connections, subscriptions, failures and departures overlap, the two
\* records of the rooms agree for every client that is connected, and a client
\* that is gone is tracked only if it went while its subscription was pending.
THEOREM QrRoomsAgree == ASSUME Sound PROVE Rooms!Spec => []RoomsAgree
  <1>1. Rooms!Init => RoomsInv
    BY InitRooms
  <1>2. RoomsInv /\ [Rooms!Next]_(Rooms!vars) => RoomsInv'
    BY NextRooms
  <1>3. RoomsInv => RoomsAgree
    BY DEF RoomsInv
  <1> QED  BY <1>1, <1>2, <1>3, PTL DEF Rooms!Spec
=============================================================================
