------------------------------- MODULE Mailer -------------------------------
(***************************************************************************)
(* The background queue of e-mails (server/lib/mailer.js, sendEmail and    *)
(* queueEmail).  Jobs form one chain of promises; each makes up to three   *)
(* attempts, and an attempt races the transport against a deadline.  The   *)
(* deadline only stops waiting: the transport goes on with the mail, while *)
(* the job retries or the next one starts.                                 *)
(***************************************************************************)
EXTENDS Integers, Sequences, FiniteSets

CONSTANT Mails

ATTEMPTS == 3         \* RETRY_DELAYS_MS.length
MAX_CONNECTIONS == 2  \* maxConnections of the pool

VARIABLES
  chain,    \* mails whose job has not started
  mailJob,  \* the job running
  sends,    \* calls of sendMail the transport has not ended
  copies,   \* copies of each mail the other side accepted
  report,   \* how the job of each mail ended
  overrun,  \* whether a deadline has ever left a send behind (history)
  doubt     \* attempts that failed with the mail perhaps accepted (history)

mailVars == <<chain, mailJob, sends, copies, report, overrun, doubt>>

NoMail == [mail |-> {}, attempt |-> 0, phase |-> "none"]
Sends == [mail: Mails, attempt: 1..ATTEMPTS, open: BOOLEAN]
Queued(m) == report[m] # "none" \/ mailJob.mail = {m} \/ \E i \in DOMAIN chain : chain[i] = m

MailInit ==
  /\ chain = <<>> /\ mailJob = NoMail /\ sends = {}
  /\ copies = [m \in Mails |-> 0]
  /\ report = [m \in Mails |-> "none"]
  /\ overrun = FALSE
  /\ doubt = [m \in Mails |-> 0]

----------------------------------------------------------------------------
(* Faulty variant: the mail is put before those that wait.                 *)
QueueEmailFirst(m) ==
  /\ ~Queued(m)
  /\ chain' = <<m>> \o chain
  /\ UNCHANGED <<mailJob, sends, copies, report, overrun, doubt>>

(* queueEmail: the caller goes on at once.                                 *)
QueueEmail(m) ==
  /\ ~Queued(m)
  /\ chain' = Append(chain, m)
  /\ UNCHANGED <<mailJob, sends, copies, report, overrun, doubt>>

(* Faulty variant: a job does not wait for the one before it.              *)
StartJobEarly ==
  /\ chain # <<>>
  /\ mailJob' = [mail |-> {Head(chain)}, attempt |-> 1, phase |-> "ready"]
  /\ chain' = Tail(chain)
  /\ UNCHANGED <<sends, copies, report, overrun, doubt>>

(* The job before has ended, well or badly: chain = job.catch(...).        *)
StartJob ==
  /\ mailJob = NoMail /\ chain # <<>>
  /\ mailJob' = [mail |-> {Head(chain)}, attempt |-> 1, phase |-> "ready"]
  /\ chain' = Tail(chain)
  /\ UNCHANGED <<sends, copies, report, overrun, doubt>>

(* The delay before a retry is over.                                       *)
Wake ==
  /\ mailJob.phase = "asleep"
  /\ mailJob' = [mailJob EXCEPT !.phase = "ready"]
  /\ UNCHANGED <<chain, sends, copies, report, overrun, doubt>>

(* sendEmail: hands the mail to the transport and sets the deadline.       *)
Send(m) ==
  /\ mailJob.phase = "ready" /\ mailJob.mail = {m}
  /\ mailJob' = [mailJob EXCEPT !.phase = "racing"]
  /\ sends' = sends \cup {[mail |-> m, attempt |-> mailJob.attempt, open |-> FALSE]}
  /\ UNCHANGED <<chain, copies, report, overrun, doubt>>

(* Faulty variant: retries for ever.                                       *)
AttemptFailedAgain(m) ==
  /\ mailJob' = [mailJob EXCEPT !.attempt = @ + 1, !.phase = "asleep"]
  /\ UNCHANGED report

(* What the job does with an error: sleeps, or gives up.                   *)
AttemptFailed(m) ==
  IF mailJob.attempt < ATTEMPTS
  THEN /\ mailJob' = [mailJob EXCEPT !.attempt = @ + 1, !.phase = "asleep"]
       /\ UNCHANGED report
  ELSE /\ mailJob' = NoMail
       /\ report' = [report EXCEPT ![m] = "failed"]

(* Faulty variant: no deadline; the transport's answer is waited for.      *)
DeadlineNever(m) == FALSE /\ UNCHANGED mailVars

(* The deadline wins the race.                                             *)
Deadline(m) ==
  /\ mailJob.phase = "racing" /\ mailJob.mail = {m}
  /\ AttemptFailed(m)
  /\ overrun' = TRUE
  /\ doubt' = [doubt EXCEPT ![m] = @ + 1]
  /\ UNCHANGED <<chain, sends, copies>>

----------------------------------------------------------------------------
(* The transport and the server of e-mails, neither of which must answer   *)

Open == {s \in sends : s.open}

(* The pool gives a send one of its connections.                           *)
Connect(s) ==
  /\ s \in sends /\ ~s.open /\ Cardinality(Open) < MAX_CONNECTIONS
  /\ sends' = (sends \ {s}) \cup {[s EXCEPT !.open = TRUE]}
  /\ UNCHANGED <<chain, mailJob, copies, report, overrun, doubt>>

(* Whether the job still waits for this send.                              *)
Awaited(s) ==
  mailJob.phase = "racing" /\ mailJob.mail = {s.mail} /\ mailJob.attempt = s.attempt

(* Faulty variant: the mail is sent and the job retries all the same.      *)
AcceptedRetried(s) ==
  /\ s \in Open
  /\ sends' = sends \ {s}
  /\ copies' = [copies EXCEPT ![s.mail] = @ + 1]
  /\ IF Awaited(s) THEN AttemptFailed(s.mail) ELSE UNCHANGED <<mailJob, report>>
  /\ UNCHANGED <<chain, overrun, doubt>>

Accepted(s) ==
  /\ s \in Open
  /\ sends' = sends \ {s}
  /\ copies' = [copies EXCEPT ![s.mail] = @ + 1]
  /\ IF Awaited(s)
     THEN /\ mailJob' = NoMail
          /\ report' = [report EXCEPT ![s.mail] = "sent"]
     ELSE UNCHANGED <<mailJob, report>>
  /\ UNCHANGED <<chain, overrun, doubt>>

(* No connection, a refusal, or a connection lost: taken tells whether the *)
(* other side had accepted the mail before it was lost.                    *)
Broken(s, taken) ==
  /\ s \in sends /\ (taken => s.open)
  /\ sends' = sends \ {s}
  /\ copies' = [copies EXCEPT ![s.mail] = IF taken THEN @ + 1 ELSE @]
  /\ IF Awaited(s) THEN AttemptFailed(s.mail) ELSE UNCHANGED <<mailJob, report>>
  /\ doubt' = [doubt EXCEPT ![s.mail] = IF taken /\ Awaited(s) THEN @ + 1 ELSE @]
  /\ UNCHANGED <<chain, overrun>>

----------------------------------------------------------------------------
(* The queue's own steps: promises and timers of node, which always come.  *)
JobStep == StartJob \/ Wake \/ \E m \in Mails : Send(m) \/ Deadline(m)

Transport ==
  \E s \in sends : Connect(s) \/ Accepted(s) \/ \E taken \in BOOLEAN : Broken(s, taken)

MailNext == JobStep \/ Transport \/ \E m \in Mails : QueueEmail(m)

MailFairness ==
  /\ WF_mailVars(StartJob) /\ WF_mailVars(Wake)
  /\ WF_mailVars(\E m \in Mails : Send(m)) /\ WF_mailVars(\E m \in Mails : Deadline(m))

MailSpec == MailInit /\ [][MailNext]_mailVars /\ MailFairness

----------------------------------------------------------------------------
(* Properties                                                              *)

MailTypeOK ==
  /\ chain \in Seq(Mails)
  /\ mailJob \in [mail: {{}} \cup {{m} : m \in Mails}, attempt: 0..ATTEMPTS,
                  phase: {"none", "asleep", "ready", "racing"}]
  /\ sends \subseteq Sends
  /\ copies \in [Mails -> 0..ATTEMPTS]
  /\ report \in [Mails -> {"none", "sent", "failed"}]
  /\ overrun \in BOOLEAN
  /\ doubt \in [Mails -> 0..ATTEMPTS]

(* What a job reports is true as far as it can know: a mail reported sent  *)
(* was accepted, and it is accepted twice, or in spite of a failure        *)
(* reported, only for an attempt that ended in doubt (queueEmail).         *)
ReportsTrue ==
  \A m \in Mails :
    LET pending == Cardinality({s \in sends : s.mail = m}) IN
    /\ report[m] = "sent" => copies[m] >= 1
    /\ copies[m] + pending <= doubt[m] + (IF report[m] = "failed" THEN 0 ELSE 1)

(* Mails go one after the other on one connection, to spare the address    *)
(* from being blocked; a deadline that left a send behind is the exception *)
(* the comment above queueEmail does not make.                             *)
OneConnection == ~overrun => Cardinality(sends) <= 1

(* The mails not ended, in order: the one of the job running, and those    *)
(* that wait.                                                              *)
Line ==
  IF mailJob.mail = {} THEN chain
  ELSE <<CHOOSE m \in Mails : mailJob.mail = {m}>> \o chain

(* The queue of mails, whatever the transport does.                        *)
Queue == INSTANCE MailQueue WITH line <- Line, outcome <- report

QueuePromise == Queue!QueueSpec
=============================================================================
