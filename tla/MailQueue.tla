----------------------------- MODULE MailQueue ------------------------------
(***************************************************************************)
(* Mail by way of the queue: MailQueueService and                          *)
(* MailQueueIntegrationService, which put jobs into it                     *)
(* (src/src/shared/services/mail/), WorkerController and WorkerService,    *)
(* which take them out (src/src/workers/), and MailService, which sends,   *)
(* also for the HTTP endpoints of MailController.                          *)
(*                                                                         *)
(* The queue is acknowledged by hand, and a consumer has one message at a  *)
(* time (src/src/main.ts).  A message that is not acknowledged when its    *)
(* consumer dies, or when the channel to it is lost while its handler      *)
(* lives on, goes back to where it was, and so does one that is refused    *)
(* with requeue.  The queue is durable but the messages are not: none of   *)
(* them is there after a restart of the broker.  All mails here are for    *)
(* one recipient, which is what MailService counts by.                     *)
(*                                                                         *)
(* RabbitMQService emits every job as a JSON string, and of the worker's   *)
(* handlers only that of OTP jobs parses it: the others find none of the   *)
(* job's fields.  Priority, delay and maxAttempts are put into a job and   *)
(* read by nobody.                                                         *)
(***************************************************************************)
EXTENDS Naturals, FiniteSets, SequencesExt

CONSTANTS
    Job,         \* jobs that are put into the queue, each once
    Kind(_),     \* the kind of each: "otp", "single", "template" or "batch"
    Worker,      \* consumers, one in each instance of the application
    MaxOld,      \* bound: handlers of an instance whose channel was lost
    Direct,      \* requests to the mail endpoints
    Nil,         \* no job
    Limit,       \* the limit of mails to a recipient in a window
    MaxAccidents, \* bound: workers that die, channels lost, broker restarts
    MaxFaults    \* bound: failures of the broker, the limiter and the server

\* Handlers that run on without their channel, those of each worker.
Old == Worker \X (1..MaxOld)

ASSUME MailAssumption ==
    /\ \A j \in Job : Kind(j) \in {"otp", "single", "template", "batch"}
    /\ Nil \notin Job /\ IsFiniteSet(Worker) /\ MaxOld \in Nat
    /\ Worker \cap Direct = {} /\ Worker \cap Old = {} /\ Direct \cap Old = {}
    /\ Limit \in Nat \ {0} /\ MaxAccidents \in Nat /\ MaxFaults \in Nat

VARIABLES
    queue,    \* RabbitMQ: the jobs that wait, the first to be delivered first
    task,     \* what each worker and each request to an endpoint is at
    loaded,   \* workers in whose instance the OTP template is registered
    count,    \* Redis: mails counted in the recipient's window, 0 without a key
    emitted,  \* jobs that were put into the queue
    acked,    \* jobs that were acknowledged
    accidents, \* accidents so far
    faults,   \* failures so far
    lost,     \* history: jobs that the broker never got
    forgotten, \* history: jobs that the broker had and lost with a restart
    tried,    \* history: jobs that were sent, refused or failed at least once
    sent,     \* history: how often the mail of each job was sent
    cut       \* history: how often each job went back to the queue when its
              \* mail was sent or its handler could still send it

bounds  == <<accidents, faults>>
history == <<lost, forgotten, tried, sent, cut>>
vars    == <<queue, task, loaded, count, emitted, acked, bounds, history>>

Sender == Worker \cup Direct \cup Old

Idle == [at |-> "idle", job |-> Nil, sent |-> FALSE]

Otp == {j \in Job : Kind(j) = "otp"}

Held(j) == {w \in Worker : task[w].job = j}

Places(j) == {i \in DOMAIN queue : queue[i] = j}

Goto(x, at) == task' = [task EXCEPT ![x].at = at]

\* One of the bounded accidents, one of the bounded failures happens.
Accident == accidents < MaxAccidents /\ accidents' = accidents + 1

Fault == faults < MaxFaults /\ faults' = faults + 1

-----------------------------------------------------------------------------
(* The queue.                                                              *)

\* sendDataToRabbitMQ: emit() only hands the message to the client; the caller
\* is told of success even when the broker never gets it.
SendData(j) ==
    \/ queue' = Append(queue, j) /\ UNCHANGED <<lost, faults>>
    \/ Fault /\ lost' = lost \cup {j} /\ UNCHANGED queue

\* sendOtpEmail and its like.
Emit(j) ==
    /\ j \notin emitted
    /\ emitted' = emitted \cup {j}
    /\ SendData(j)
    /\ UNCHANGED <<loaded, task, count, acked, accidents, forgotten, tried, sent, cut>>

\* Where the worker's handler begins: without its fields a single mail is not
\* valid and a template is not found, which are results like any other, and the
\* recipients of a batch are looked at outside of any try.
Entry(w, j) ==
    CASE Kind(j) = "otp" -> IF w \in loaded THEN "limit" ELSE "ack"
      [] Kind(j) \in {"single", "template"} -> "ack"
      [] Kind(j) = "batch" -> "nack"

\* The first job is delivered to a worker that has none.
Deliver(w) ==
    /\ task[w].at = "idle" /\ queue # <<>>
    /\ LET j == Head(queue)
       IN /\ task' = [task EXCEPT ![w] = [Idle EXCEPT !.at = Entry(w, j), !.job = j]]
          /\ tried' = IF Entry(w, j) = "ack" THEN tried \cup {j} ELSE tried
    /\ queue' = Tail(queue)
    /\ UNCHANGED <<loaded, count, emitted, acked, bounds, lost, forgotten, sent, cut>>

\* channel.ack.
Ack(w) ==
    /\ task[w].at = "ack" /\ task[w].job # Nil
    /\ acked' = acked \cup {task[w].job}
    /\ task' = [task EXCEPT ![w] = Idle]
    /\ UNCHANGED <<loaded, queue, count, emitted, bounds, history>>

\* channel.nack with requeue: back to the head of the queue.
Nack(w) ==
    /\ task[w].at = "nack"
    /\ queue' = <<task[w].job>> \o queue
    /\ task' = [task EXCEPT ![w] = Idle]
    /\ UNCHANGED <<loaded, count, emitted, acked, bounds, history>>

\* onModuleInit of an instance: loadTemplates registers a template and stores
\* it in Redis, one after the other, and gives up at the first failure.
Start(w) ==
    \/ loaded' = loaded \cup {w} /\ UNCHANGED faults
    \/ loaded' = loaded \ {w} /\ Fault

\* The handler that worker w is at can still send a mail; what comes after the
\* mail is an acknowledgement, which needs the channel.
CanSend(w) == task[w].at \in {"limit", "send"}

\* A job goes back to the queue from worker w, which may have sent its mail, or
\* whose handler may still send it.
CutShort(w, also) ==
    cut' = [cut EXCEPT ![task[w].job] = IF task[w].sent \/ also THEN @ + 1 ELSE @]

\* The handlers of instance w end.
Ended(w) == [x \in Sender |-> IF x = w \/ (x \in Old /\ x[1] = w) THEN Idle ELSE task[x]]

\* Mutant: the consumer is configured with noAck, a job is gone once delivered.
CrashLoses(w) ==
    /\ task[w].job # Nil /\ Accident
    /\ CutShort(w, FALSE)
    /\ task' = Ended(w)
    /\ Start(w)
    /\ UNCHANGED <<queue, count, emitted, acked, lost, forgotten, tried, sent>>

\* An instance dies with a job that it has not acknowledged, and comes back.
Crash(w) ==
    /\ task[w].job # Nil /\ Accident
    /\ CutShort(w, FALSE)
    /\ queue' = <<task[w].job>> \o queue
    /\ task' = Ended(w)
    /\ Start(w)
    /\ UNCHANGED <<count, emitted, acked, lost, forgotten, tried, sent>>

\* The workers of S get new channels: one that can still send a mail runs on as
\* an old handler, in a place f that is free.
Free(S, f) == \A w \in S : task[<<w, f[w]>>].at = "idle"

Reconnected(S, f) ==
    [x \in Sender |->
        IF x \in S THEN Idle
        ELSE IF x \in Old /\ x[1] \in S /\ x[2] = f[x[1]] /\ CanSend(x[1]) THEN task[x[1]]
        ELSE task[x]]

\* The channel of a worker that has a job is lost: RabbitMQ puts the job back.
ChannelLost(w) ==
    /\ task[w].job # Nil /\ Accident
    /\ CutShort(w, CanSend(w))
    /\ queue' = <<task[w].job>> \o queue
    /\ \E f \in [{w} -> 1..MaxOld] : Free({w}, f) /\ task' = Reconnected({w}, f)
    /\ UNCHANGED <<loaded, count, emitted, acked, faults, lost, forgotten, tried, sent>>

\* RabbitMQ restarts: the queue is there again, without its messages, those
\* that were delivered and not acknowledged included, and all channels are new.
BrokerRestart ==
    /\ Accident
    /\ forgotten' = forgotten \cup {j \in Job : Contains(queue, j) \/ Held(j) # {}}
    /\ queue' = <<>>
    /\ \E f \in [Worker -> 1..MaxOld] : Free(Worker, f) /\ task' = Reconnected(Worker, f)
    /\ UNCHANGED <<loaded, count, emitted, acked, faults, lost, tried, sent, cut>>

-----------------------------------------------------------------------------
(* Sending.                                                                *)

\* A request to send a mail at once.
Ask(d) ==
    /\ task[d].at = "idle"
    /\ Goto(d, "limit")
    /\ UNCHANGED <<loaded, queue, count, emitted, acked, bounds, history>>

\* A request is answered, a job acknowledged, whatever became of the mail; what
\* an old handler acknowledges reaches nobody.
Result(x) == IF x \in Worker THEN [task[x] EXCEPT !.at = "ack"] ELSE Idle

Tried(x) == IF x \in Direct THEN tried ELSE tried \cup {task[x].job}

Counted(x) == IF x \in Direct THEN sent ELSE [sent EXCEPT ![task[x].job] = @ + 1]

\* As Result, with the mail sent.
Mailed(x) == IF x \in Worker THEN [task[x] EXCEPT !.at = "ack", !.sent = TRUE] ELSE Idle

Finish(x) == task' = [task EXCEPT ![x] = Result(x)]

\* checkRateLimit: the script counts the mail unless the limit is reached, and
\* the mail passes only when there is something left after it.
Count(x) ==
    /\ task[x].at = "limit"
    /\ count' = IF count < Limit THEN count + 1 ELSE count
    /\ IF count + 1 < Limit
       THEN /\ Goto(x, "send")
            /\ UNCHANGED tried
       ELSE /\ Finish(x)
            /\ tried' = Tried(x)
    /\ UNCHANGED <<loaded, queue, emitted, acked, bounds, lost, forgotten, sent, cut>>

\* The script fails: the mail passes.
CountFails(x) ==
    /\ task[x].at = "limit" /\ Fault
    /\ Goto(x, "send")
    /\ UNCHANGED <<loaded, queue, count, emitted, acked, accidents, history>>

\* Mutant: a mail whose sending gave no answer in time is sent again.
SendAgain(x) ==
    /\ task[x].at = "send"
    /\ sent' = Counted(x)
    /\ task' = [task EXCEPT ![x] = Mailed(x)] \/ UNCHANGED task
    /\ tried' = Tried(x)
    /\ UNCHANGED <<loaded, queue, count, emitted, acked, bounds, lost, forgotten, cut>>

\* transporter.sendMail, and the mail is on its way.
SendMail(x) ==
    /\ task[x].at = "send"
    /\ sent' = Counted(x)
    /\ task' = [task EXCEPT ![x] = Mailed(x)]
    /\ tried' = Tried(x)
    /\ UNCHANGED <<loaded, queue, count, emitted, acked, bounds, lost, forgotten, cut>>

\* Mutant: a job whose mail could not be sent is not answered at all.
SendUnanswered(x) ==
    /\ task[x].at = "send" /\ Fault
    /\ IF x \in Worker THEN Goto(x, "silent") ELSE Finish(x)
    /\ tried' = Tried(x)
    /\ UNCHANGED <<loaded, queue, count, emitted, acked, accidents, lost, forgotten, sent, cut>>

\* The server refuses the mail, or the connection fails: a result with
\* success FALSE, which nobody tries again.
SendFails(x) ==
    /\ task[x].at = "send" /\ Fault
    /\ Finish(x)
    /\ tried' = Tried(x)
    /\ UNCHANGED <<loaded, queue, count, emitted, acked, accidents, lost, forgotten, sent, cut>>

\* The keys of the window run out.
WindowEnds ==
    /\ count # 0
    /\ count' = 0
    /\ UNCHANGED <<queue, task, loaded, emitted, acked, bounds, history>>

-----------------------------------------------------------------------------
Init ==
    /\ queue = <<>> /\ task = [x \in Sender |-> Idle] /\ count = 0
    /\ loaded \in SUBSET Worker
    /\ emitted = {} /\ acked = {}
    /\ accidents = 0 /\ faults = Cardinality(Worker \ loaded) /\ faults <= MaxFaults
    /\ lost = {} /\ forgotten = {} /\ tried = {}
    /\ sent = [j \in Job |-> 0] /\ cut = [j \in Job |-> 0]

\* What a sender does by itself.
Send(x) == Count(x) \/ CountFails(x) \/ SendMail(x) \/ SendFails(x)
Work(w) == Deliver(w) \/ Send(w) \/ Ack(w) \/ Nack(w)

Next ==
    \/ \E j \in Job : Emit(j)
    \/ \E w \in Worker : Work(w) \/ Crash(w) \/ ChannelLost(w)
    \/ \E x \in Old : Send(x)
    \/ \E d \in Direct : Ask(d) \/ Send(d)
    \/ BrokerRestart \/ WindowEnds

\* A worker that is up is given the messages there are, and scripts and the
\* mail server answer or time out.
Fairness == \A w \in Worker : WF_vars(Work(w))

Spec == Init /\ [][Next]_vars /\ Fairness

-----------------------------------------------------------------------------
\* No OTP job that reached the broker gets lost but by a restart of the broker:
\* until it is acknowledged it is either in the queue, once, or with one worker,
\* and what is acknowledged was sent, refused or failed, whichever worker dies
\* and whichever channel is lost when.  What the broker forgot nobody has.
OtpJobsKept ==
    \A j \in Otp \cap (emitted \ lost) :
        LET places == Cardinality(Held(j)) + Cardinality(Places(j))
        IN  /\ j \in forgotten => j \notin acked /\ places = 0
            /\ j \in acked => j \in tried /\ places = 0
            /\ j \notin forgotten \cup acked => places = 1

\* How a job stands, to whoever put it into the queue.
Standing == [j \in Job |->
    IF j \notin emitted THEN "new" ELSE IF j \in lost THEN "lost"
    ELSE IF j \in forgotten THEN "forgotten"
    ELSE IF j \in acked THEN "done" ELSE "pending"]

Promise == INSTANCE MailPromise WITH standing <- Standing

\* The queue and its workers keep the promise of MailPromise, for jobs of every
\* kind: a job is acknowledged once, after it was handled, and its mail is sent
\* again only when it went back to the queue after its mail was sent, or while
\* an old handler could still send it.
ImplementsPromise == Promise!Spec

\* An OTP job in the queue is handled at last, however many jobs fail before
\* it, unless the broker restarts; only a batch job stops the queue, since it is
\* requeued for ever.
QueuedOtpHandled ==
    \A j \in Otp : Contains(queue, j)
        ~> \/ j \in acked \cup forgotten
           \/ \E b \in emitted \ lost : Kind(b) = "batch"
=============================================================================
