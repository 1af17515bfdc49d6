---------------------------- MODULE MailPromise ----------------------------
(***************************************************************************)
(* What the mail queue promises to whoever puts a job into it, with the    *)
(* queue, the workers and the limit of mails left out.  A job that got     *)
(* there is pending until it is done or the broker forgets it; it is done  *)
(* only after something was tried for it; and its mail is sent again only  *)
(* after its handling was cut short, with the mail sent or the handler     *)
(* still at it.                                                            *)
(***************************************************************************)
EXTENDS Naturals

CONSTANT Job

VARIABLES
    standing,  \* of each job: "new", "pending", "done", "lost", "forgotten"
    tried,     \* jobs for which something was tried: sent, refused or failed
    sent,      \* how often the mail of each was sent
    cut        \* how often the handling of each was cut short, so that it is
               \* handled again

promise == <<standing, tried, sent, cut>>

Init ==
    /\ standing = [j \in Job |-> "new"] /\ tried = {}
    /\ sent = [j \in Job |-> 0] /\ cut = [j \in Job |-> 0]

Becomes(j, from, to) == standing[j] = from /\ standing' = [standing EXCEPT ![j] = to]

\* The caller is told the same in both cases.
Put(j) ==
    /\ Becomes(j, "new", "pending") \/ Becomes(j, "new", "lost")
    /\ UNCHANGED <<tried, sent, cut>>

\* No mail was sent: the limit is reached, or the server does not take it.
Try(j) ==
    /\ standing[j] \in {"pending", "forgotten"}
    /\ tried' = tried \cup {j}
    /\ UNCHANGED <<standing, sent, cut>>

\* A handler that lives on may send the mail of a job that another has done.
Send(j) ==
    /\ standing[j] \notin {"new", "lost"} /\ sent[j] <= cut[j]
    /\ sent' = [sent EXCEPT ![j] = @ + 1]
    /\ tried' = tried \cup {j}
    /\ UNCHANGED <<standing, cut>>

Cut(j) ==
    /\ standing[j] = "pending"
    /\ cut' = [cut EXCEPT ![j] = @ + 1]
    /\ UNCHANGED <<standing, tried, sent>>

\* The broker restarts: all jobs that are pending are gone.
Forget ==
    /\ standing' = [j \in Job |-> IF standing[j] = "pending" THEN "forgotten" ELSE standing[j]]
    /\ UNCHANGED <<tried, sent, cut>>

Finish(j) ==
    /\ j \in tried /\ Becomes(j, "pending", "done")
    /\ UNCHANGED <<tried, sent, cut>>

Next == Forget \/ \E j \in Job : Put(j) \/ Try(j) \/ Send(j) \/ Cut(j) \/ Finish(j)

Spec == Init /\ [][Next]_promise

\* A job's mail is sent at most once for each time it was handed out: a second
\* mail takes a worker that died or lost its channel before the job was done.
SentOnceUnlessCut == \A j \in Job : sent[j] <= 1 + cut[j]
=============================================================================
