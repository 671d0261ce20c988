---------------------------- MODULE WorkerProofs ----------------------------
(***************************************************************************)
(* For any mails, limits, queries and requests, of one worker's memory:    *)
(*                                                                         *)
(*  - the queue of mails ends each of them once and in order (it           *)
(*    implements the safety part of MailQueue), mails share one connection *)
(*    until a deadline leaves a send behind, and what is reported of a     *)
(*    mail is true up to the attempts that ended in doubt;                 *)
(*  - a limit lets through twice its number at most in a stretch as long   *)
(*    as its window, and sign-in the guesses in flight beyond that;        *)
(*  - the cache of searches never holds more than its maximum.             *)
(*                                                                         *)
(* Each part has an invariant of its own, which the other steps of the     *)
(* worker leave alone.                                                     *)
(***************************************************************************)
EXTENDS Worker, FiniteSetTheorems, SequenceTheorems, TLAPS

----------------------------------------------------------------------------
(* The mailer.  The invariant has three parts: which job runs and which    *)
(* wait (JobOK), the one send there is while no deadline has passed        *)
(* (Lone), and the account of copies made and pending against the doubts   *)
(* (Accounted).                                                            *)

Running(m) == mailJob.mail = {m}

JobOK ==
  /\ chain \in Seq(Mails)
  /\ mailJob \in [mail: {{}} \cup {{m} : m \in Mails}, attempt: Nat,
                  phase: {"none", "asleep", "ready", "racing"}]
  /\ mailJob.mail = {} <=> mailJob.phase = "none"
  /\ report \in [Mails -> {"none", "sent", "failed"}]

(* A mail waits once, and none that waits runs or has ended.               *)
WaitsOnce ==
  /\ \A i, j \in DOMAIN chain : chain[i] = chain[j] => i = j
  /\ \A i \in DOMAIN chain : report[chain[i]] = "none" /\ ~Running(chain[i])
  /\ \A m \in Mails : Running(m) => report[m] = "none"

(* Until a deadline passes, a send is the one the job waits for.           *)
Lone ==
  ~overrun =>
    \/ sends = {}
    \/ mailJob.phase = "racing" /\ \E s \in sends : sends = {s} /\ Awaited(s)

SendsOK == IsFiniteSet(sends) /\ \A s \in sends : s.mail \in Mails

Of(S, m) == {s \in S : s.mail = m}
Pending(m) == Cardinality(Of(sends, m))

(* The copy a mail may have or get without a doubt.                        *)
Credit(m) ==
  IF report[m] = "sent" \/ (Running(m) /\ mailJob.phase = "racing") THEN 1 ELSE 0

Accounted ==
  /\ copies \in [Mails -> Nat] /\ doubt \in [Mails -> Nat]
  /\ \A m \in Mails : copies[m] + Pending(m) <= doubt[m] + Credit(m)
  /\ \A m \in Mails : report[m] = "sent" => copies[m] >= 1

MailInv == JobOK /\ WaitsOnce /\ SendsOK /\ Lone /\ Accounted

(* The line, seen from the job and the chain.                              *)
LEMMA LineShape ==
  ASSUME NEW m \in Mails, mailJob.mail = {m}
  PROVE  Line = <<m>> \o chain
<1>1. (CHOOSE n \in Mails : mailJob.mail = {n}) = m
  OBVIOUS
<1> QED
  BY <1>1 DEF Line

(* The same after a step.                                                  *)
LEMMA LineShapeNext ==
  ASSUME NEW m \in Mails, mailJob'.mail = {m}
  PROVE  Line' = <<m>> \o chain'
<1>1. (CHOOSE n \in Mails : mailJob'.mail = {n}) = m
  OBVIOUS
<1> QED
  BY <1>1 DEF Line

(* A sequence put behind one mail.                                         *)
LEMMA Behind ==
  ASSUME NEW m \in Mails, NEW c \in Seq(Mails)
  PROVE  /\ <<m>> \o c \in Seq(Mails) /\ <<m>> \o c # <<>>
         /\ Head(<<m>> \o c) = m /\ Tail(<<m>> \o c) = c
OBVIOUS

(* A mail put at its end goes behind the rest.                             *)
LEMMA BehindAppend ==
  ASSUME NEW m \in Mails, NEW c \in Seq(Mails), NEW n \in Mails
  PROVE  Append(<<m>> \o c, n) = <<m>> \o Append(c, n)
OBVIOUS

(* A mail that neither is the first nor waits is not in it.                *)
LEMMA BehindHolds ==
  ASSUME NEW m \in Mails, NEW c \in Seq(Mails), NEW n \in Mails, n # m,
         \A i \in DOMAIN c : c[i] # n
  PROVE  \A i \in DOMAIN (<<m>> \o c) : (<<m>> \o c)[i] # n
OBVIOUS

(* A sequence of mails is its first and the rest.                          *)
LEMMA FirstAndRest ==
  ASSUME NEW c \in Seq(Mails), c # <<>>
  PROVE  /\ Head(c) \in Mails /\ Tail(c) \in Seq(Mails)
         /\ c = <<Head(c)>> \o Tail(c)
         /\ 1 \in DOMAIN c /\ c[1] = Head(c)
         /\ \A i \in DOMAIN Tail(c) : i + 1 \in DOMAIN c /\ Tail(c)[i] = c[i + 1]
         /\ DOMAIN Tail(c) \subseteq Nat \ {0}
OBVIOUS

----------------------------------------------------------------------------
(* The queue                                                               *)

(* A step that leaves the queue alone.                                     *)
LEMMA QueueStill ==
  ASSUME JobOK, UNCHANGED <<chain, report>>, mailJob'.mail = mailJob.mail
  PROVE  UNCHANGED <<Line, report>>
BY DEF Line

(* The job running ends.                                                   *)
LEMMA QueueEnds ==
  ASSUME JobOK, NEW m \in Mails, Running(m), NEW result \in {"sent", "failed"},
         mailJob' = NoMail, report' = [report EXCEPT ![m] = result], UNCHANGED chain
  PROVE  Queue!QueueNext
<1>1. Line = <<m>> \o chain /\ Line' = chain
  BY LineShape DEF Running, Line, NoMail
<1>2. Line # <<>> /\ Head(Line) = m /\ Tail(Line) = Line'
  BY <1>1, Behind DEF JobOK
<1>3. Queue!End(result)
  BY <1>2 DEF Queue!End
<1> QED
  BY <1>3 DEF Queue!QueueNext, Queue!Ends

(* What a job does of an error ends the mail or leaves the queue alone.    *)
LEMMA QueueFails ==
  ASSUME JobOK, NEW m \in Mails, Running(m), AttemptFailed(m), UNCHANGED chain
  PROVE  Queue!QueueNext \/ UNCHANGED <<Line, report>>
<1>1. CASE mailJob.attempt < ATTEMPTS
  BY <1>1, QueueStill DEF AttemptFailed, JobOK
<1>2. CASE ~(mailJob.attempt < ATTEMPTS)
  BY <1>2, QueueEnds DEF AttemptFailed
<1> QED
  BY <1>1, <1>2

(* Every step of the mailer is one of the queue, or none.                  *)
LEMMA QueueStep ==
  ASSUME MailInv, [MailNext]_mailVars
  PROVE  [Queue!QueueNext]_(Queue!queueVars)
<1> SUFFICES Queue!QueueNext \/ UNCHANGED <<Line, report>>
  BY DEF Queue!queueVars
<1> USE DEF MailInv
<1>1. ASSUME NEW m \in Mails, QueueEmail(m)
      PROVE  Queue!QueueNext
  <2>1. ~Queued(m) /\ chain' = Append(chain, m) /\ UNCHANGED <<mailJob, report>>
    BY <1>1 DEF QueueEmail
  <2>2. Line' = Append(Line, m) /\ \A i \in DOMAIN Line : Line[i] # m
    <3>1. CASE mailJob.mail = {}
      BY <2>1, <3>1 DEF Line, Queued
    <3>2. CASE mailJob.mail # {}
      <4>1. PICK n \in Mails : mailJob.mail = {n}
        BY <3>2 DEF JobOK
      <4>2. Line = <<n>> \o chain /\ Line' = <<n>> \o Append(chain, m)
        BY <2>1, <4>1, LineShape, LineShapeNext
      <4>3. chain \in Seq(Mails)
        BY DEF JobOK
      <4>4. Line' = Append(Line, m)
        BY <4>2, <4>3, BehindAppend
      <4>5. m # n /\ \A i \in DOMAIN chain : chain[i] # m
        BY <2>1, <4>1 DEF Queued
      <4> QED
        BY <4>2, <4>3, <4>4, <4>5, BehindHolds
    <3> QED
      BY <3>1, <3>2
  <2>3. Queue!Enqueue(m)
    BY <2>1, <2>2 DEF Queue!Enqueue, Queued
  <2> QED
    BY <2>3 DEF Queue!QueueNext
<1>2. CASE StartJob
  <2>1. mailJob'.mail = {Head(chain)} /\ chain' = Tail(chain) /\ Line = chain
    BY <1>2 DEF StartJob, Line, NoMail
  <2>2. Line' = <<Head(chain)>> \o Tail(chain)
    BY <1>2, <2>1, LineShapeNext, FirstAndRest DEF StartJob, JobOK
  <2> QED
    BY <1>2, <2>1, <2>2, FirstAndRest DEF StartJob, JobOK
<1>3. CASE Wake
  BY <1>3, QueueStill DEF Wake, JobOK
<1>4. ASSUME NEW m \in Mails, Send(m)
      PROVE  UNCHANGED <<Line, report>>
  BY <1>4, QueueStill DEF Send, JobOK
<1>5. ASSUME NEW m \in Mails, Deadline(m)
      PROVE  Queue!QueueNext \/ UNCHANGED <<Line, report>>
  BY <1>5, QueueFails DEF Deadline, Running
<1>6. ASSUME NEW s \in sends, Connect(s)
      PROVE  UNCHANGED <<Line, report>>
  BY <1>6, QueueStill DEF Connect
<1>7. ASSUME NEW s \in sends, Accepted(s)
      PROVE  Queue!QueueNext \/ UNCHANGED <<Line, report>>
  <2>1. CASE Awaited(s)
    BY <1>7, <2>1, QueueEnds DEF Accepted, Awaited, Running, SendsOK
  <2>2. CASE ~Awaited(s)
    BY <1>7, <2>2, QueueStill DEF Accepted
  <2> QED
    BY <2>1, <2>2
<1>8. ASSUME NEW s \in sends, NEW taken \in BOOLEAN, Broken(s, taken)
      PROVE  Queue!QueueNext \/ UNCHANGED <<Line, report>>
  <2>1. CASE Awaited(s)
    BY <1>8, <2>1, QueueFails DEF Broken, Awaited, Running, SendsOK
  <2>2. CASE ~Awaited(s)
    BY <1>8, <2>2, QueueStill DEF Broken
  <2> QED
    BY <2>1, <2>2
<1>9. CASE UNCHANGED mailVars
  BY <1>9, QueueStill DEF mailVars
<1> QED
  BY <1>1, <1>2, <1>3, <1>4, <1>5, <1>6, <1>7, <1>8, <1>9 DEF MailNext, JobStep, Transport

----------------------------------------------------------------------------
(* The invariant: jobs and waiting mails                                   *)

Phases == {"none", "asleep", "ready", "racing"}
Order == JobOK /\ WaitsOnce

(* The job goes on with its mail.                                          *)
LEMMA JobGoesOn ==
  ASSUME Order, NEW m \in Mails, Running(m), NEW a \in Nat, NEW p \in Phases \ {"none"},
         mailJob' = [mail |-> {m}, attempt |-> a, phase |-> p], UNCHANGED <<chain, report>>
  PROVE  Order'
BY DEF Order, JobOK, WaitsOnce, Running, Phases

(* The job ends.                                                           *)
LEMMA JobEnds ==
  ASSUME Order, NEW m \in Mails, Running(m), NEW result \in {"sent", "failed"},
         mailJob' = NoMail, report' = [report EXCEPT ![m] = result], UNCHANGED chain
  PROVE  Order'
<1>1. JobOK'
  BY DEF Order, JobOK, NoMail
<1>2. \A i \in DOMAIN chain : chain[i] # m /\ chain[i] \in Mails
  BY DEF Order, JobOK, WaitsOnce
<1>3. \A n \in Mails : ~Running(n)'
  BY DEF Running, NoMail
<1> QED
  BY <1>1, <1>2, <1>3 DEF Order, JobOK, WaitsOnce

(* The record of the job that runs.                                        *)
LEMMA JobShape ==
  ASSUME JobOK, NEW m \in Mails, Running(m)
  PROVE  /\ mailJob = [mail |-> {m}, attempt |-> mailJob.attempt, phase |-> mailJob.phase]
         /\ mailJob.attempt \in Nat /\ mailJob.phase \in Phases \ {"none"}
BY DEF JobOK, Running, Phases

(* What the job does of an error.                                          *)
LEMMA JobFails ==
  ASSUME Order, NEW m \in Mails, Running(m), AttemptFailed(m), UNCHANGED chain
  PROVE  /\ Order'
         /\ \/ mailJob'.phase = "asleep" /\ mailJob'.mail = {m} /\ UNCHANGED report
            \/ mailJob' = NoMail /\ report' = [report EXCEPT ![m] = "failed"]
<1>1. CASE mailJob.attempt < ATTEMPTS
  <2>1. mailJob' = [mail |-> {m}, attempt |-> mailJob.attempt + 1, phase |-> "asleep"]
    <3>1. PICK a, p : mailJob = [mail |-> {m}, attempt |-> a, phase |-> p]
      BY JobShape DEF Order
    <3>2. mailJob' = [mailJob EXCEPT !.attempt = mailJob.attempt + 1, !.phase = "asleep"]
      BY <1>1 DEF AttemptFailed
    <3> QED
      BY <3>1, <3>2
  <2> QED
    BY <1>1, <2>1, JobGoesOn, JobShape DEF AttemptFailed, Order, Phases
<1>2. CASE ~(mailJob.attempt < ATTEMPTS)
  BY <1>2, JobEnds DEF AttemptFailed
<1> QED
  BY <1>1, <1>2

(* The next job starts with the first that waits.                          *)
LEMMA JobStarts ==
  ASSUME Order, StartJob
  PROVE  Order'
<1>1. /\ mailJob = NoMail /\ chain # <<>> /\ chain \in Seq(Mails) /\ chain' = Tail(chain)
      /\ mailJob' = [mail |-> {Head(chain)}, attempt |-> 1, phase |-> "ready"]
      /\ report' = report
  BY DEF StartJob, Order, JobOK
<1>2. JobOK'
  BY <1>1, FirstAndRest DEF Order, JobOK
<1>3. \A i \in DOMAIN chain' : /\ i + 1 \in DOMAIN chain /\ chain'[i] = chain[i + 1]
                              /\ i \in Nat \ {0}
  BY <1>1, FirstAndRest
<1>4. 1 \in DOMAIN chain /\ chain[1] = Head(chain)
  BY <1>1, FirstAndRest
<1>5. \A i, j \in DOMAIN chain' : chain'[i] = chain'[j] => i = j
  <2> TAKE i \in DOMAIN chain', j \in DOMAIN chain'
  <2>1. i + 1 \in DOMAIN chain /\ j + 1 \in DOMAIN chain /\ i \in Nat /\ j \in Nat
    BY <1>3
  <2>2. chain'[i] = chain'[j] => i + 1 = j + 1
    BY <1>3, <2>1 DEF Order, WaitsOnce
  <2> QED
    BY <2>1, <2>2
<1>6. \A i \in DOMAIN chain' : report[chain'[i]] = "none" /\ chain'[i] # Head(chain)
  <2> TAKE i \in DOMAIN chain'
  <2>1. i + 1 \in DOMAIN chain /\ i + 1 # 1 /\ chain'[i] = chain[i + 1]
    BY <1>3
  <2> QED
    BY <1>4, <2>1 DEF Order, WaitsOnce
<1>7. \A n \in Mails : Running(n)' => n = Head(chain)
  BY <1>1 DEF Running
<1>8. \A i \in DOMAIN chain' : mailJob'.mail # {chain'[i]}
  BY <1>1, <1>6
<1>9. report[Head(chain)] = "none"
  BY <1>4 DEF Order, WaitsOnce
<1> QED
  BY <1>1, <1>2, <1>5, <1>6, <1>7, <1>8, <1>9 DEF Order, WaitsOnce, Running

(* A mail is put behind those that wait.                                   *)
LEMMA MailWaits ==
  ASSUME Order, NEW m \in Mails, QueueEmail(m)
  PROVE  Order'
<1>1. /\ chain \in Seq(Mails) /\ chain' = Append(chain, m)
      /\ report' = report /\ mailJob' = mailJob
      /\ report[m] = "none" /\ ~Running(m) /\ \A i \in DOMAIN chain : chain[i] # m
  BY DEF QueueEmail, Queued, Order, JobOK, Running
<1>2. /\ chain' \in Seq(Mails) /\ Len(chain) \in Nat
      /\ DOMAIN chain = 1..Len(chain) /\ DOMAIN chain' = 1..(Len(chain) + 1)
      /\ chain'[Len(chain) + 1] = m /\ \A i \in DOMAIN chain : chain'[i] = chain[i]
  BY <1>1
<1>3. JobOK'
  BY <1>1, <1>2 DEF Order, JobOK
<1>4. \A i \in DOMAIN chain' : i \in DOMAIN chain \/ (i = Len(chain) + 1 /\ chain'[i] = m)
  BY <1>2
<1>5. \A i, j \in DOMAIN chain' : chain'[i] = chain'[j] => i = j
  BY <1>1, <1>2, <1>4 DEF Order, WaitsOnce
<1>6. \A i \in DOMAIN chain' : report[chain'[i]] = "none" /\ ~Running(chain'[i])
  BY <1>1, <1>2, <1>4 DEF Order, WaitsOnce
<1>7. \A n : Running(n)' <=> Running(n)
  BY <1>1 DEF Running
<1> QED
  BY <1>1, <1>3, <1>5, <1>6, <1>7 DEF Order, WaitsOnce

----------------------------------------------------------------------------
(* The invariant: sends and copies                                         *)

(* A send taken out of a finite set.                                       *)
LEMMA SendGone ==
  ASSUME NEW S, IsFiniteSet(S), NEW s \in S
  PROVE  /\ IsFiniteSet(S \ {s})
         /\ Cardinality(Of(S, s.mail)) \in Nat
         /\ Cardinality(Of(S \ {s}, s.mail)) = Cardinality(Of(S, s.mail)) - 1
         /\ \A n : n # s.mail => Of(S \ {s}, n) = Of(S, n)
<1>1. IsFiniteSet(S \ {s})
  BY FS_RemoveElement
<1>2. IsFiniteSet(Of(S, s.mail))
  BY FS_Subset DEF Of
<1>3. Of(S \ {s}, s.mail) = Of(S, s.mail) \ {s} /\ s \in Of(S, s.mail)
  BY DEF Of
<1>4. Cardinality(Of(S, s.mail) \ {s}) = Cardinality(Of(S, s.mail)) - 1
  BY <1>2, <1>3, FS_RemoveElement
<1>5. Cardinality(Of(S, s.mail)) \in Nat
  BY <1>2, FS_CardinalityType
<1>6. \A n : n # s.mail => Of(S \ {s}, n) = Of(S, n)
  BY DEF Of
<1> QED
  BY <1>1, <1>3, <1>4, <1>5, <1>6

(* A send put into a finite set.                                           *)
LEMMA SendCame ==
  ASSUME NEW S, IsFiniteSet(S), NEW s
  PROVE  /\ IsFiniteSet(S \cup {s})
         /\ Cardinality(Of(S, s.mail)) \in Nat
         /\ Cardinality(Of(S \cup {s}, s.mail)) \in Nat
         /\ Cardinality(Of(S \cup {s}, s.mail)) <= Cardinality(Of(S, s.mail)) + 1
         /\ \A n : n # s.mail => Of(S \cup {s}, n) = Of(S, n)
<1>1. IsFiniteSet(S \cup {s})
  BY FS_AddElement
<1>2. IsFiniteSet(Of(S, s.mail))
  BY FS_Subset DEF Of
<1>3. Of(S \cup {s}, s.mail) = Of(S, s.mail) \cup {s}
  BY DEF Of
<1>4. /\ IsFiniteSet(Of(S, s.mail) \cup {s})
      /\ Cardinality(Of(S, s.mail) \cup {s}) =
           IF s \in Of(S, s.mail) THEN Cardinality(Of(S, s.mail)) ELSE Cardinality(Of(S, s.mail)) + 1
  BY <1>2, FS_AddElement
<1>5. Cardinality(Of(S, s.mail)) \in Nat
  BY <1>2, FS_CardinalityType
<1>6. \A n : n # s.mail => Of(S \cup {s}, n) = Of(S, n)
  BY DEF Of
<1>7. /\ Cardinality(Of(S \cup {s}, s.mail)) \in Nat
      /\ Cardinality(Of(S \cup {s}, s.mail)) <= Cardinality(Of(S, s.mail)) + 1
  BY <1>3, <1>4, <1>5
<1> QED
  BY <1>1, <1>5, <1>6, <1>7

(* How many sends a mail has is a number.                                  *)
LEMMA PendingType ==
  ASSUME SendsOK
  PROVE  \A m : Pending(m) \in Nat
BY FS_Subset, FS_CardinalityType DEF SendsOK, Pending, Of

(* The account after a step that touches mail k alone.                     *)
LEMMA AccountOf ==
  ASSUME Accounted, NEW k \in Mails,
         copies' \in [Mails -> Nat], doubt' \in [Mails -> Nat],
         \A n \in Mails \ {k} :
           /\ copies'[n] = copies[n] /\ doubt'[n] = doubt[n] /\ report'[n] = report[n]
           /\ Pending(n)' = Pending(n) /\ Credit(n)' = Credit(n),
         copies'[k] + Pending(k)' <= doubt'[k] + Credit(k)',
         report'[k] = "sent" => copies'[k] >= 1
  PROVE  Accounted'
BY DEF Accounted

(* A step that leaves sends, copies and reports alone, and no job that     *)
(* waits for an answer before or after it.                                 *)
LEMMA AccountStill ==
  ASSUME Accounted, UNCHANGED <<sends, copies, report, doubt>>,
         \/ UNCHANGED mailJob
         \/ mailJob.phase # "racing" /\ mailJob'.phase # "racing"
  PROVE  Accounted'
<1>1. \A n \in Mails : Pending(n)' = Pending(n) /\ Credit(n)' = Credit(n)
  BY DEF Pending, Credit, Running
<1> QED
  BY <1>1 DEF Accounted

(* The job's answer is an error; the copy it had credit for is in doubt or *)
(* is not pending any more.                                                *)
LEMMA AccountFails ==
  ASSUME Accounted, Order, SendsOK, NEW k \in Mails, Running(k), AttemptFailed(k),
         UNCHANGED chain,
         copies' \in [Mails -> Nat], doubt' \in [Mails -> Nat],
         \A n \in Mails \ {k} :
           copies'[n] = copies[n] /\ doubt'[n] = doubt[n] /\ Pending(n)' = Pending(n),
         Pending(k)' \in Nat,
         copies'[k] + Pending(k)' <= doubt'[k]
  PROVE  Accounted'
<1>1. \/ mailJob'.phase = "asleep" /\ mailJob'.mail = {k} /\ report' = report
      \/ mailJob' = NoMail /\ report' = [report EXCEPT ![k] = "failed"]
  BY JobFails
<1>2. report[k] = "none" /\ report \in [Mails -> {"none", "sent", "failed"}]
  BY DEF Order, JobOK, WaitsOnce
<1>3. /\ report'[k] # "sent" /\ Credit(k)' = 0
      /\ \A n \in Mails \ {k} : report'[n] = report[n] /\ Credit(n)' = Credit(n)
  BY <1>1, <1>2 DEF Credit, Running, NoMail
<1>4. copies'[k] + Pending(k)' <= doubt'[k] + Credit(k)'
  BY <1>3
<1> QED
  BY <1>3, <1>4, AccountOf

(* A send ends well.                                                       *)
LEMMA AcceptedKeeps ==
  ASSUME MailInv, NEW s \in sends, Accepted(s)
  PROVE  MailInv'
<1> DEFINE k == s.mail
<1>1. /\ k \in Mails /\ IsFiniteSet(sends) /\ sends' = sends \ {s}
      /\ copies' = [copies EXCEPT ![k] = @ + 1] /\ UNCHANGED <<chain, overrun, doubt>>
  BY DEF MailInv, SendsOK, Accepted
<1>2. /\ IsFiniteSet(sends') /\ Pending(k) \in Nat /\ Pending(k)' = Pending(k) - 1
      /\ \A n \in Mails \ {k} : Pending(n)' = Pending(n)
  BY <1>1, SendGone DEF Pending
<1>3. /\ copies \in [Mails -> Nat] /\ copies' \in [Mails -> Nat]
      /\ doubt' \in [Mails -> Nat] /\ copies'[k] = copies[k] + 1 /\ copies'[k] >= 1
      /\ \A n \in Mails \ {k} : copies'[n] = copies[n]
      /\ copies[k] + Pending(k) <= doubt[k] + Credit(k)
  BY <1>1 DEF MailInv, Accounted
<1>4. SendsOK'
  BY <1>1, <1>2 DEF MailInv, SendsOK
<1>5. CASE Awaited(s)
  <2>1. /\ Running(k) /\ mailJob.phase = "racing"
        /\ mailJob' = NoMail /\ report' = [report EXCEPT ![k] = "sent"]
    BY <1>5 DEF Awaited, Running, Accepted
  <2>2. Order'
    BY <1>1, <2>1, JobEnds DEF MailInv, Order
  <2>3. report[k] = "none" /\ report \in [Mails -> {"none", "sent", "failed"}]
    BY <1>1, <2>1 DEF MailInv, JobOK, WaitsOnce
  <2>4. /\ Credit(k) = 1 /\ Credit(k)' = 1
        /\ \A n \in Mails \ {k} : report'[n] = report[n] /\ Credit(n)' = Credit(n)
    BY <1>1, <2>1, <2>3 DEF Credit, Running, NoMail
  <2>5. copies'[k] + Pending(k)' <= doubt'[k] + Credit(k)'
    BY <1>1, <1>2, <1>3, <2>4 DEF MailInv, Accounted
  <2>6. Accounted'
    BY <1>1, <1>2, <1>3, <2>4, <2>5, AccountOf DEF MailInv
  <2>7. Lone'
    BY <1>1 DEF MailInv, Lone
  <2> QED
    BY <1>4, <2>2, <2>6, <2>7 DEF MailInv, Order
<1>6. CASE ~Awaited(s)
  <2>1. mailJob' = mailJob /\ report' = report
    BY <1>6 DEF Accepted
  <2>2. JobOK' /\ WaitsOnce'
    BY <1>1, <2>1 DEF MailInv, JobOK, WaitsOnce, Running
  <2>3. \A n \in Mails : Credit(n)' = Credit(n)
    BY <2>1 DEF Credit, Running
  <2>4. Credit(k) \in {0, 1} /\ Credit(k)' = Credit(k)
    BY <1>1, <2>3 DEF Credit
  <2>5. copies'[k] + Pending(k)' <= doubt'[k] + Credit(k)'
    BY <1>1, <1>2, <1>3, <2>4 DEF MailInv, Accounted
  <2>6. Accounted'
    BY <1>1, <1>2, <1>3, <2>1, <2>3, <2>5, AccountOf DEF MailInv
  <2>7. Lone'
    BY <1>1, <1>6, <2>1 DEF MailInv, Lone, Awaited
  <2> QED
    BY <1>4, <2>2, <2>6, <2>7 DEF MailInv
<1> QED
  BY <1>5, <1>6

(* A send ends badly, perhaps after the mail was accepted.                 *)
LEMMA BrokenKeeps ==
  ASSUME MailInv, NEW s \in sends, NEW taken \in BOOLEAN, Broken(s, taken)
  PROVE  MailInv'
<1> DEFINE k == s.mail
<1>1. /\ k \in Mails /\ IsFiniteSet(sends) /\ sends' = sends \ {s} /\ UNCHANGED <<chain, overrun>>
      /\ copies' = [copies EXCEPT ![k] = IF taken THEN @ + 1 ELSE @]
      /\ doubt' = [doubt EXCEPT ![k] = IF taken /\ Awaited(s) THEN @ + 1 ELSE @]
  BY DEF MailInv, SendsOK, Broken
<1>2. /\ IsFiniteSet(sends') /\ Pending(k) \in Nat /\ Pending(k)' = Pending(k) - 1
      /\ Pending(k)' \in Nat /\ \A n \in Mails \ {k} : Pending(n)' = Pending(n)
  <2>1. IsFiniteSet(sends')
    BY <1>1, SendGone
  <2>2. Pending(k)' \in Nat
    BY <2>1, FS_Subset, FS_CardinalityType DEF Pending, Of
  <2> QED
    BY <1>1, <2>1, <2>2, SendGone DEF Pending
<1>3. /\ copies \in [Mails -> Nat] /\ copies' \in [Mails -> Nat]
      /\ doubt \in [Mails -> Nat] /\ doubt' \in [Mails -> Nat]
      /\ copies'[k] = copies[k] + (IF taken THEN 1 ELSE 0)
      /\ doubt'[k] = doubt[k] + (IF taken /\ Awaited(s) THEN 1 ELSE 0)
      /\ \A n \in Mails \ {k} : copies'[n] = copies[n] /\ doubt'[n] = doubt[n]
      /\ copies[k] + Pending(k) <= doubt[k] + Credit(k)
  BY <1>1 DEF MailInv, Accounted
<1>4. SendsOK'
  BY <1>1, <1>2 DEF MailInv, SendsOK
<1>5. CASE Awaited(s)
  <2>1. Running(k) /\ mailJob.phase = "racing" /\ AttemptFailed(k)
    BY <1>5 DEF Awaited, Running, Broken
  <2>2. Order'
    BY <1>1, <2>1, JobFails DEF MailInv, Order
  <2>3. Credit(k) = 1
    BY <2>1 DEF Credit
  <2>4. copies'[k] + Pending(k)' <= doubt'[k]
    BY <1>1, <1>2, <1>3, <1>5, <2>3
  <2>5. Accounted'
    BY <1>1, <1>2, <1>3, <2>1, <2>4, AccountFails DEF MailInv, Order
  <2>6. Lone'
    BY <1>1 DEF MailInv, Lone
  <2> QED
    BY <1>4, <2>2, <2>5, <2>6 DEF MailInv, Order
<1>6. CASE ~Awaited(s)
  <2>1. mailJob' = mailJob /\ report' = report
    BY <1>6 DEF Broken
  <2>2. JobOK' /\ WaitsOnce'
    BY <1>1, <2>1 DEF MailInv, JobOK, WaitsOnce, Running
  <2>3. \A n \in Mails : Credit(n)' = Credit(n)
    BY <2>1 DEF Credit, Running
  <2>4. Credit(k) \in {0, 1} /\ Credit(k)' = Credit(k)
    BY <1>1, <2>3 DEF Credit
  <2>5. copies'[k] + Pending(k)' <= doubt'[k] + Credit(k)'
    BY <1>1, <1>2, <1>3, <1>6, <2>4
  <2>6. report[k] = "sent" => copies[k] >= 1
    BY <1>1 DEF MailInv, Accounted
  <2>7. report'[k] = "sent" => copies'[k] >= 1
    BY <1>1, <1>3, <2>1, <2>6
  <2>8. Accounted'
    BY <1>1, <1>2, <1>3, <2>1, <2>3, <2>5, <2>7, AccountOf DEF MailInv
  <2>9. Lone'
    BY <1>1, <1>6, <2>1 DEF MailInv, Lone, Awaited
  <2> QED
    BY <1>4, <2>2, <2>8, <2>9 DEF MailInv
<1> QED
  BY <1>5, <1>6

(* A send is given a connection.                                           *)
LEMMA ConnectKeeps ==
  ASSUME MailInv, NEW s \in sends, Connect(s)
  PROVE  MailInv'
<1> DEFINE k == s.mail  t == [s EXCEPT !.open = TRUE]
<1>1. /\ k \in Mails /\ IsFiniteSet(sends) /\ sends' = (sends \ {s}) \cup {t}
      /\ UNCHANGED <<chain, mailJob, copies, report, overrun, doubt>>
  BY DEF MailInv, SendsOK, Connect
<1>2. t.mail = k /\ t.attempt = s.attempt
  OBVIOUS
<1> HIDE DEF t
<1>3. /\ IsFiniteSet(sends \ {s})
      /\ Cardinality(Of(sends \ {s}, k)) = Pending(k) - 1 /\ Pending(k) \in Nat
      /\ \A n \in Mails \ {k} : Of(sends \ {s}, n) = Of(sends, n)
  BY <1>1, SendGone DEF Pending
<1>4. /\ IsFiniteSet(sends') /\ Pending(k)' \in Nat /\ Pending(k)' <= Pending(k)
      /\ \A n \in Mails \ {k} : Pending(n)' = Pending(n)
  BY <1>1, <1>2, <1>3, SendCame DEF Pending
<1>5. SendsOK'
  BY <1>1, <1>2, <1>4 DEF MailInv, SendsOK
<1>6. JobOK' /\ WaitsOnce'
  BY <1>1 DEF MailInv, JobOK, WaitsOnce, Running
<1>7. \A n \in Mails : Credit(n)' = Credit(n) /\ Credit(n) \in {0, 1}
  BY <1>1 DEF Credit, Running
<1>8. copies[k] + Pending(k) <= doubt[k] + Credit(k) /\ copies[k] \in Nat /\ doubt[k] \in Nat
  BY <1>1 DEF MailInv, Accounted
<1>9. copies'[k] + Pending(k)' <= doubt'[k] + Credit(k)'
  BY <1>1, <1>3, <1>4, <1>7, <1>8
<1>10. Accounted'
  BY <1>1, <1>4, <1>7, <1>9, AccountOf DEF MailInv, Accounted
<1>11. Lone'
  <2>1. CASE overrun
    BY <1>1, <2>1 DEF Lone
  <2>2. CASE ~overrun
    <3>1. mailJob.phase = "racing" /\ sends = {s} /\ Awaited(s)
      BY <2>2 DEF MailInv, Lone
    <3>2. sends' = {t} /\ mailJob'.phase = "racing" /\ Awaited(t)'
      BY <1>1, <1>2, <3>1 DEF Awaited, t
    <3> QED
      BY <3>2 DEF Lone
  <2> QED
    BY <2>1, <2>2
<1> QED
  BY <1>5, <1>6, <1>10, <1>11 DEF MailInv

(* A job hands its mail to the transport.                                  *)
LEMMA SendKeeps ==
  ASSUME MailInv, NEW m \in Mails, Send(m)
  PROVE  MailInv'
<1> DEFINE t == [mail |-> m, attempt |-> mailJob.attempt, open |-> FALSE]
<1>1. /\ Running(m) /\ mailJob.phase = "ready" /\ IsFiniteSet(sends)
      /\ sends' = sends \cup {t} /\ UNCHANGED <<chain, copies, report, overrun, doubt>>
      /\ mailJob' = [mailJob EXCEPT !.phase = "racing"]
  BY DEF MailInv, SendsOK, Send, Running
<1>2. mailJob' = [mail |-> {m}, attempt |-> mailJob.attempt, phase |-> "racing"]
  <2>1. PICK a, p : mailJob = [mail |-> {m}, attempt |-> a, phase |-> p]
    BY <1>1, JobShape DEF MailInv
  <2> QED
    BY <1>1, <2>1
<1>3. t.mail = m /\ t.attempt = mailJob'.attempt
  BY <1>2
<1> HIDE DEF t
<1>4. /\ IsFiniteSet(sends') /\ Pending(m) \in Nat /\ Pending(m)' \in Nat
      /\ Pending(m)' <= Pending(m) + 1
      /\ \A n \in Mails \ {m} : Pending(n)' = Pending(n)
  BY <1>1, <1>3, SendCame DEF Pending
<1>5. SendsOK'
  BY <1>1, <1>3, <1>4 DEF MailInv, SendsOK
<1>6. Order'
  BY <1>1, <1>2, JobGoesOn, JobShape DEF MailInv, Order, Phases
<1>7. /\ Credit(m) = 0 /\ Credit(m)' = 1
      /\ \A n \in Mails \ {m} : Credit(n)' = Credit(n)
  BY <1>1, <1>2 DEF Credit, Running, MailInv, WaitsOnce
<1>8. /\ copies[m] + Pending(m) <= doubt[m] + Credit(m) /\ copies[m] \in Nat /\ doubt[m] \in Nat
  BY DEF MailInv, Accounted
<1>9. copies'[m] + Pending(m)' <= doubt'[m] + Credit(m)'
  BY <1>1, <1>4, <1>7, <1>8
<1>10. Accounted'
  BY <1>1, <1>4, <1>7, <1>9, AccountOf DEF MailInv, Accounted
<1>11. Lone'
  BY <1>1, <1>2, <1>3 DEF MailInv, Lone, Awaited
<1> QED
  BY <1>5, <1>6, <1>10, <1>11 DEF MailInv, Order

(* The deadline passes.                                                    *)
LEMMA DeadlineKeeps ==
  ASSUME MailInv, NEW m \in Mails, Deadline(m)
  PROVE  MailInv'
<1>1. /\ Running(m) /\ mailJob.phase = "racing" /\ AttemptFailed(m)
      /\ overrun' = TRUE /\ doubt' = [doubt EXCEPT ![m] = @ + 1]
      /\ UNCHANGED <<chain, sends, copies>>
  BY DEF Deadline, Running
<1>2. Order'
  BY <1>1, JobFails DEF MailInv, Order
<1>3. \A n \in Mails : Pending(n)' = Pending(n) /\ Pending(n) \in Nat
  BY <1>1, PendingType DEF MailInv, Pending
<1>4. /\ copies' \in [Mails -> Nat] /\ doubt' \in [Mails -> Nat] /\ doubt'[m] = doubt[m] + 1
      /\ \A n \in Mails \ {m} : copies'[n] = copies[n] /\ doubt'[n] = doubt[n]
  BY <1>1 DEF MailInv, Accounted
<1>5. copies[m] + Pending(m) <= doubt[m] + Credit(m) /\ Credit(m) = 1 /\ copies[m] \in Nat /\ doubt[m] \in Nat
  BY <1>1 DEF MailInv, Accounted, Credit
<1>6. copies'[m] + Pending(m)' <= doubt'[m]
  BY <1>1, <1>3, <1>4, <1>5
<1>7. Accounted'
  BY <1>1, <1>3, <1>4, <1>6, AccountFails DEF MailInv, Order
<1> QED
  BY <1>1, <1>2, <1>7 DEF MailInv, Order, SendsOK, Lone

----------------------------------------------------------------------------
(* The mailer's theorems                                                   *)

(* A worker begins with nothing queued and nothing sent.                   *)
LEMMA InitKeeps == MailInit => MailInv
<1> SUFFICES ASSUME MailInit PROVE MailInv
  OBVIOUS
<1> USE DEF MailInit, NoMail
<1>1. JobOK
  BY DEF JobOK
<1>2. WaitsOnce
  BY DEF WaitsOnce, Running
<1>3. SendsOK /\ Lone
  BY FS_EmptySet DEF SendsOK, Lone
<1>4. \A m \in Mails : Pending(m) = 0 /\ Credit(m) = 0
  <2> TAKE m \in Mails
  <2>1. Of(sends, m) = {}
    BY DEF Of
  <2> QED
    BY <2>1, FS_EmptySet DEF Pending, Credit, Running
<1>5. Accounted
  BY <1>4 DEF Accounted
<1> QED
  BY <1>1, <1>2, <1>3, <1>5 DEF MailInv

(* Steps that touch neither sends nor copies.                              *)
LEMMA QuietKeeps ==
  ASSUME MailInv, Order', UNCHANGED <<sends, copies, report, overrun, doubt>>,
         \/ UNCHANGED mailJob
         \/ mailJob.phase # "racing" /\ mailJob'.phase # "racing"
  PROVE  MailInv'
<1>1. Accounted'
  BY AccountStill DEF MailInv
<1>2. SendsOK' /\ Lone'
  BY DEF MailInv, SendsOK, Lone, Awaited
<1> QED
  BY <1>1, <1>2 DEF MailInv, Order

(* Every step of the mailer keeps its invariant.                           *)
LEMMA NextKeeps == MailInv /\ [MailNext]_mailVars => MailInv'
<1> SUFFICES ASSUME MailInv, [MailNext]_mailVars PROVE MailInv'
  OBVIOUS
<1>0. Order
  BY DEF MailInv, Order
<1>1. ASSUME NEW m \in Mails, QueueEmail(m)
      PROVE  MailInv'
  BY <1>0, <1>1, MailWaits, QuietKeeps DEF QueueEmail
<1>2. CASE StartJob
  BY <1>0, <1>2, JobStarts, QuietKeeps DEF StartJob, NoMail
<1>3. CASE Wake
  <2>1. PICK m \in Mails : Running(m)
    BY <1>3 DEF Wake, MailInv, JobOK, Running
  <2>2. mailJob' = [mail |-> {m}, attempt |-> mailJob.attempt, phase |-> "ready"]
    <3>1. PICK a, p : mailJob = [mail |-> {m}, attempt |-> a, phase |-> p]
      BY <2>1, JobShape DEF MailInv
    <3> QED
      BY <1>3, <3>1 DEF Wake
  <2>3. Order'
    BY <1>0, <1>3, <2>1, <2>2, JobGoesOn, JobShape DEF Wake, Order, Phases
  <2> QED
    BY <1>3, <2>2, <2>3, QuietKeeps DEF Wake
<1>4. ASSUME NEW m \in Mails, Send(m) \/ Deadline(m)
      PROVE  MailInv'
  BY <1>4, SendKeeps, DeadlineKeeps
<1>5. ASSUME NEW s \in sends, NEW taken \in BOOLEAN,
             Connect(s) \/ Accepted(s) \/ Broken(s, taken)
      PROVE  MailInv'
  BY <1>5, ConnectKeeps, AcceptedKeeps, BrokenKeeps
<1>6. CASE UNCHANGED mailVars
  BY <1>0, <1>6, QuietKeeps DEF mailVars, Order, JobOK, WaitsOnce, Running
<1> QED
  BY <1>1, <1>2, <1>3, <1>4, <1>5, <1>6 DEF MailNext, JobStep, Transport

(* The invariant of the mailer.                                            *)
THEOREM Invariant == MailInit /\ [][MailNext]_mailVars => []MailInv
BY InitKeeps, NextKeeps, PTL

(* The only send there is, is one.                                         *)
LEMMA LoneSend == MailInv => OneConnection
<1> SUFFICES ASSUME MailInv, ~overrun PROVE Cardinality(sends) <= 1
  BY DEF OneConnection
<1>1. sends = {} \/ \E s : sends = {s}
  BY DEF MailInv, Lone
<1>2. Cardinality(sends) \in {0, 1}
  BY <1>1, FS_EmptySet, FS_Singleton
<1> QED
  BY <1>2

(* The account bounds what is reported.                                    *)
LEMMA TrueReports == MailInv => ReportsTrue
<1> SUFFICES ASSUME MailInv, NEW m \in Mails
             PROVE  /\ report[m] = "sent" => copies[m] >= 1
                    /\ copies[m] + Cardinality({s \in sends : s.mail = m})
                         <= doubt[m] + (IF report[m] = "failed" THEN 0 ELSE 1)
  BY DEF ReportsTrue
<1>1. /\ copies[m] + Pending(m) <= doubt[m] + Credit(m)
      /\ copies[m] \in Nat /\ doubt[m] \in Nat /\ Pending(m) \in Nat
      /\ report[m] = "sent" => copies[m] >= 1
  BY PendingType DEF MailInv, Accounted
<1>2. Credit(m) \in {0, 1} /\ (report[m] = "failed" => Credit(m) = 0)
  BY DEF Credit, MailInv, WaitsOnce
<1>3. Pending(m) = Cardinality({s \in sends : s.mail = m})
  BY DEF Pending, Of
<1> QED
  BY <1>1, <1>2, <1>3

(* The mailer implements the safety of the queue: each mail ends once, in  *)
(* the order of queueing, whatever the transport does.                     *)
THEOREM QueueKept == MailSpec => Queue!QueueSafety
<1>1. MailInit => Queue!QueueInit
  BY DEF MailInit, NoMail, Queue!QueueInit, Line
<1>2. MailInv /\ [MailNext]_mailVars => [Queue!QueueNext]_(Queue!queueVars)
  BY QueueStep
<1> QED
  BY <1>1, <1>2, Invariant, PTL DEF MailSpec, Queue!QueueSafety

----------------------------------------------------------------------------
(* The mailer's bounds: no mail is handed over more often than it is tried *)

(* Attempts handed to the transport so far, at most.                       *)
Tried(m) ==
  IF Running(m) THEN IF mailJob.phase = "racing" THEN mailJob.attempt ELSE mailJob.attempt - 1
  ELSE IF report[m] = "none" THEN 0 ELSE ATTEMPTS

(* Attempts given up so far, at most.                                      *)
GivenUp(m) ==
  IF Running(m) THEN mailJob.attempt - 1 ELSE IF report[m] = "none" THEN 0 ELSE ATTEMPTS

MailCounts ==
  /\ sends \subseteq Sends /\ overrun \in BOOLEAN
  /\ mailJob.attempt \in 0..ATTEMPTS /\ (mailJob.mail # {} => mailJob.attempt >= 1)
  /\ \A m \in Mails : copies[m] + Pending(m) <= Tried(m) /\ doubt[m] <= GivenUp(m)

(* The numbers the bounds speak of.                                        *)
LEMMA CountsType ==
  ASSUME MailInv, MailCounts, NEW m \in Mails
  PROVE  /\ copies[m] \in Nat /\ doubt[m] \in Nat /\ Pending(m) \in Nat
         /\ Tried(m) \in Nat /\ GivenUp(m) \in Nat
         /\ mailJob.attempt \in 0..3
         /\ copies[m] + Pending(m) <= Tried(m) /\ doubt[m] <= GivenUp(m)
<1>1. copies[m] \in Nat /\ doubt[m] \in Nat
  BY DEF MailInv, Accounted
<1>2. Pending(m) \in Nat
  BY PendingType DEF MailInv
<1>3. mailJob.attempt \in 0..3 /\ (mailJob.mail # {} => mailJob.attempt >= 1)
  BY DEF MailCounts, ATTEMPTS
<1>4. Tried(m) \in Nat /\ GivenUp(m) \in Nat
  BY <1>3 DEF Tried, GivenUp, ATTEMPTS, Running
<1> QED
  BY <1>1, <1>2, <1>3, <1>4 DEF MailCounts

(* After an error a job has tried as often, and given up once more.        *)
LEMMA FailCounts ==
  ASSUME MailInv, MailCounts, NEW m \in Mails, Running(m), mailJob.phase = "racing",
         AttemptFailed(m)
  PROVE  /\ mailJob'.attempt \in 0..ATTEMPTS /\ (mailJob'.mail # {} => mailJob'.attempt >= 1)
         /\ Tried(m)' = Tried(m) /\ GivenUp(m)' = GivenUp(m) + 1
         /\ \A n \in Mails \ {m} : Tried(n)' = Tried(n) /\ GivenUp(n)' = GivenUp(n)
<1>1. mailJob.attempt \in 1..3 /\ mailJob.mail = {m}
  BY DEF MailCounts, ATTEMPTS, Running
<1>2. PICK a, p : mailJob = [mail |-> {m}, attempt |-> a, phase |-> p]
  BY JobShape DEF MailInv
<1>3. report[m] = "none" /\ report \in [Mails -> {"none", "sent", "failed"}]
  BY DEF MailInv, WaitsOnce, JobOK
<1>4. Tried(m) = a /\ GivenUp(m) = a - 1 /\ a \in 1..3
  BY <1>1, <1>2 DEF Tried, GivenUp
<1>5. CASE a < 3
  <2>1. mailJob' = [mail |-> {m}, attempt |-> a + 1, phase |-> "asleep"] /\ report' = report
    BY <1>2, <1>5 DEF AttemptFailed, ATTEMPTS
  <2>2. Running(m)' /\ \A n \in Mails \ {m} : ~Running(n) /\ ~Running(n)'
    BY <1>1, <2>1 DEF Running
  <2> QED
    BY <1>2, <1>4, <1>5, <2>1, <2>2 DEF Tried, GivenUp, ATTEMPTS
<1>6. CASE ~(a < 3)
  <2>1. mailJob' = NoMail /\ report' = [report EXCEPT ![m] = "failed"] /\ a = 3
    BY <1>2, <1>4, <1>6 DEF AttemptFailed, ATTEMPTS
  <2>2. \A n \in Mails : ~Running(n)'
    BY <2>1 DEF Running, NoMail
  <2>3. report'[m] = "failed" /\ \A n \in Mails \ {m} : report'[n] = report[n] /\ ~Running(n)
    BY <1>1, <1>3, <2>1 DEF Running
  <2> QED
    BY <1>2, <1>4, <2>1, <2>2, <2>3 DEF Tried, GivenUp, ATTEMPTS, NoMail
<1> QED
  BY <1>5, <1>6

(* A step that hands nothing over.                                         *)
LEMMA CountsStill ==
  ASSUME MailInv, MailCounts, UNCHANGED <<sends, copies, doubt, overrun>>,
         mailJob'.attempt \in 0..ATTEMPTS, mailJob'.mail # {} => mailJob'.attempt >= 1,
         \A n \in Mails : Tried(n)' = Tried(n) /\ GivenUp(n)' = GivenUp(n)
  PROVE  MailCounts'
<1>1. \A n \in Mails : Pending(n)' = Pending(n)
  BY DEF Pending
<1> QED
  BY <1>1 DEF MailCounts

(* A step that moves one mail, k.                                          *)
LEMMA CountsOf ==
  ASSUME MailInv, MailCounts, NEW k \in Mails, sends' \subseteq Sends, overrun' \in BOOLEAN,
         mailJob'.attempt \in 0..ATTEMPTS, mailJob'.mail # {} => mailJob'.attempt >= 1,
         \A n \in Mails \ {k} :
           /\ Tried(n)' = Tried(n) /\ GivenUp(n)' = GivenUp(n) /\ Pending(n)' = Pending(n)
           /\ copies'[n] = copies[n] /\ doubt'[n] = doubt[n],
         copies'[k] + Pending(k)' <= Tried(k)', doubt'[k] <= GivenUp(k)'
  PROVE  MailCounts'
BY DEF MailCounts

(* A job starts.                                                           *)
LEMMA StartCounts ==
  ASSUME MailInv, MailCounts, StartJob
  PROVE  MailCounts'
<1> DEFINE m == Head(chain)
<1>1. m \in Mails /\ report[m] = "none"
  <2>1. chain \in Seq(Mails) /\ chain # <<>>
    BY DEF MailInv, JobOK, StartJob
  <2>2. 1 \in DOMAIN chain /\ m = chain[1]
    BY <2>1
  <2> QED
    BY <2>1, <2>2 DEF MailInv, WaitsOnce
<1>2. /\ mailJob' = [mail |-> {m}, attempt |-> 1, phase |-> "ready"] /\ mailJob = NoMail
      /\ UNCHANGED <<sends, copies, report, overrun, doubt>>
  BY DEF StartJob
<1> HIDE DEF m
<1>3. \A n \in Mails : ~Running(n) /\ (Running(n)' => n = m)
  BY <1>2 DEF Running, NoMail
<1>4. \A n \in Mails : Tried(n)' = Tried(n) /\ GivenUp(n)' = GivenUp(n)
  BY <1>1, <1>2, <1>3 DEF Tried, GivenUp
<1> QED
  BY <1>2, <1>4, CountsStill DEF ATTEMPTS

(* A job wakes up.                                                         *)
LEMMA WakeCounts ==
  ASSUME MailInv, MailCounts, Wake
  PROVE  MailCounts'
<1>1. PICK m \in Mails : Running(m)
  BY DEF Wake, MailInv, JobOK, Running
<1>2. PICK a : mailJob = [mail |-> {m}, attempt |-> a, phase |-> "asleep"]
  BY <1>1, JobShape DEF MailInv, Wake
<1>3. /\ mailJob' = [mail |-> {m}, attempt |-> a, phase |-> "ready"]
      /\ UNCHANGED <<sends, copies, report, overrun, doubt>>
  BY <1>2 DEF Wake
<1>4. \A n \in Mails : Running(n)' <=> Running(n)
  BY <1>2, <1>3 DEF Running
<1>5. \A n \in Mails : Tried(n)' = Tried(n) /\ GivenUp(n)' = GivenUp(n)
  BY <1>2, <1>3, <1>4 DEF Tried, GivenUp
<1> QED
  BY <1>2, <1>3, <1>5, CountsStill DEF MailCounts

(* A mail is handed to the transport.                                      *)
LEMMA SendCounts ==
  ASSUME MailInv, MailCounts, NEW m \in Mails, Send(m)
  PROVE  MailCounts'
<1> DEFINE t == [mail |-> m, attempt |-> mailJob.attempt, open |-> FALSE]
<1>1. /\ Running(m) /\ mailJob.phase = "ready" /\ IsFiniteSet(sends)
      /\ sends' = sends \cup {t} /\ UNCHANGED <<chain, copies, report, overrun, doubt>>
      /\ mailJob' = [mailJob EXCEPT !.phase = "racing"]
  BY DEF MailInv, SendsOK, Send, Running
<1>2. PICK a : mailJob = [mail |-> {m}, attempt |-> a, phase |-> "ready"]
  BY <1>1, JobShape DEF MailInv
<1>3. mailJob' = [mail |-> {m}, attempt |-> a, phase |-> "racing"]
  BY <1>1, <1>2
<1>4. a \in 1..3
  BY <1>2 DEF MailCounts, ATTEMPTS
<1>5. t \in Sends /\ t.mail = m
  BY <1>2, <1>4 DEF Sends, ATTEMPTS
<1> HIDE DEF t
<1>6. /\ Pending(m)' \in Nat /\ Pending(m)' <= Pending(m) + 1
      /\ \A n \in Mails \ {m} : Pending(n)' = Pending(n)
  BY <1>1, <1>5, SendCame DEF Pending
<1>7. \A n \in Mails : Running(n)' <=> Running(n)
  BY <1>2, <1>3 DEF Running
<1>8. /\ Tried(m) = a - 1 /\ Tried(m)' = a /\ GivenUp(m)' = GivenUp(m)
      /\ \A n \in Mails \ {m} : ~Running(n)
  BY <1>1, <1>2, <1>3, <1>7 DEF Tried, GivenUp, Running
<1>9. \A n \in Mails \ {m} : Tried(n)' = Tried(n) /\ GivenUp(n)' = GivenUp(n)
  BY <1>1, <1>7, <1>8 DEF Tried, GivenUp
<1>10. copies[m] + Pending(m)' <= a /\ doubt[m] <= GivenUp(m)
  BY <1>4, <1>6, <1>8, CountsType
<1>11. sends' \subseteq Sends /\ overrun' \in BOOLEAN /\ mailJob'.attempt \in 0..ATTEMPTS
       /\ mailJob'.attempt >= 1
  BY <1>1, <1>3, <1>4, <1>5 DEF MailCounts, ATTEMPTS
<1> QED
  BY <1>1, <1>6, <1>8, <1>9, <1>10, <1>11, CountsOf

(* The deadline passes.                                                    *)
LEMMA DeadlineCounts ==
  ASSUME MailInv, MailCounts, NEW m \in Mails, Deadline(m)
  PROVE  MailCounts'
<1>1. /\ Running(m) /\ mailJob.phase = "racing" /\ AttemptFailed(m)
      /\ overrun' = TRUE /\ doubt' = [doubt EXCEPT ![m] = @ + 1]
      /\ UNCHANGED <<chain, sends, copies>>
  BY DEF Deadline, Running
<1>2. \A n \in Mails : Pending(n)' = Pending(n)
  BY <1>1 DEF Pending
<1>3. doubt'[m] = doubt[m] + 1 /\ \A n \in Mails \ {m} : doubt'[n] = doubt[n]
  BY <1>1 DEF MailInv, Accounted
<1>4. /\ mailJob'.attempt \in 0..ATTEMPTS /\ (mailJob'.mail # {} => mailJob'.attempt >= 1)
      /\ Tried(m)' = Tried(m) /\ GivenUp(m)' = GivenUp(m) + 1
      /\ \A n \in Mails \ {m} : Tried(n)' = Tried(n) /\ GivenUp(n)' = GivenUp(n)
  BY <1>1, FailCounts
<1>5. copies'[m] + Pending(m)' <= Tried(m)' /\ doubt'[m] <= GivenUp(m)'
  BY <1>1, <1>2, <1>3, <1>4, CountsType
<1>6. sends' \subseteq Sends /\ overrun' \in BOOLEAN
  BY <1>1 DEF MailCounts
<1> QED
  BY <1>1, <1>2, <1>3, <1>4, <1>5, <1>6, CountsOf

(* The pool opens a connection for a send.                                 *)
LEMMA ConnectCounts ==
  ASSUME MailInv, MailCounts, NEW s \in sends, Connect(s)
  PROVE  MailCounts'
<1> DEFINE t == [s EXCEPT !.open = TRUE]
           k == s.mail
<1>1. /\ k \in Mails /\ IsFiniteSet(sends) /\ sends' = (sends \ {s}) \cup {t}
      /\ UNCHANGED <<chain, mailJob, copies, report, overrun, doubt>>
  BY DEF MailInv, SendsOK, Connect
<1>2. s \in Sends /\ sends \subseteq Sends
  BY DEF MailCounts
<1>3. t \in Sends
  BY <1>2 DEF Sends
<1>9. t.mail = k
  OBVIOUS
<1> HIDE DEF t
<1>4. /\ IsFiniteSet(sends \ {s})
      /\ Cardinality(Of(sends \ {s}, k)) = Pending(k) - 1 /\ Pending(k) \in Nat
      /\ \A n \in Mails \ {k} : Of(sends \ {s}, n) = Of(sends, n)
  BY <1>1, SendGone DEF Pending
<1>5. /\ IsFiniteSet(sends') /\ Pending(k)' \in Nat /\ Pending(k)' <= Pending(k)
      /\ \A n \in Mails \ {k} : Pending(n)' = Pending(n)
  BY <1>1, <1>4, <1>9, SendCame DEF Pending
<1>6. \A n \in Mails : Tried(n)' = Tried(n) /\ GivenUp(n)' = GivenUp(n)
  BY <1>1 DEF Tried, GivenUp, Running
<1>7. copies'[k] + Pending(k)' <= Tried(k)' /\ doubt'[k] <= GivenUp(k)'
  BY <1>1, <1>5, <1>6, CountsType
<1>8. sends' \subseteq Sends /\ overrun' \in BOOLEAN /\ mailJob'.attempt \in 0..ATTEMPTS
      /\ (mailJob'.mail # {} => mailJob'.attempt >= 1)
  BY <1>1, <1>2, <1>3 DEF MailCounts
<1> QED
  BY <1>1, <1>5, <1>6, <1>7, <1>8, CountsOf

(* A send ends: its copy was pending before.                               *)
LEMMA GoneCounts ==
  ASSUME MailInv, MailCounts, NEW s \in sends, sends' = sends \ {s}
  PROVE  /\ s.mail \in Mails /\ sends' \subseteq Sends
         /\ Pending(s.mail)' = Pending(s.mail) - 1
         /\ \A n \in Mails \ {s.mail} : Pending(n)' = Pending(n)
<1>1. s.mail \in Mails /\ IsFiniteSet(sends) /\ sends \subseteq Sends
  BY DEF MailInv, SendsOK, MailCounts
<1> QED
  BY <1>1, SendGone DEF Pending

(* A send is accepted.                                                     *)
LEMMA AcceptedCounts ==
  ASSUME MailInv, MailCounts, NEW s \in sends, Accepted(s)
  PROVE  MailCounts'
<1> DEFINE k == s.mail
<1>1. /\ sends' = sends \ {s} /\ copies' = [copies EXCEPT ![k] = @ + 1]
      /\ UNCHANGED <<chain, overrun, doubt>>
  BY DEF Accepted
<1>2. /\ k \in Mails /\ sends' \subseteq Sends /\ Pending(k)' = Pending(k) - 1
      /\ \A n \in Mails \ {k} : Pending(n)' = Pending(n)
  BY <1>1, GoneCounts
<1>3. copies'[k] = copies[k] + 1 /\ \A n \in Mails \ {k} : copies'[n] = copies[n]
  BY <1>1, <1>2 DEF MailInv, Accounted
<1>4. overrun' \in BOOLEAN
  BY <1>1 DEF MailCounts
<1> HIDE DEF k
<1>5. CASE Awaited(s)
  <2>1. /\ Running(k) /\ mailJob.phase = "racing"
        /\ mailJob' = NoMail /\ report' = [report EXCEPT ![k] = "sent"]
    BY <1>5 DEF Awaited, Running, Accepted, k
  <2>2. report \in [Mails -> {"none", "sent", "failed"}]
    BY DEF MailInv, JobOK
  <2>3. /\ report'[k] = "sent" /\ \A n \in Mails : ~Running(n)'
        /\ \A n \in Mails \ {k} : report'[n] = report[n] /\ ~Running(n)
    BY <1>2, <2>1, <2>2 DEF Running, NoMail
  <2>4. /\ Tried(k)' = 3 /\ GivenUp(k)' = 3 /\ Tried(k) <= 3 /\ GivenUp(k) <= 3
        /\ \A n \in Mails \ {k} : Tried(n)' = Tried(n) /\ GivenUp(n)' = GivenUp(n)
    BY <1>2, <2>1, <2>3, CountsType DEF Tried, GivenUp, ATTEMPTS
  <2>5. copies'[k] + Pending(k)' <= Tried(k)' /\ doubt'[k] <= GivenUp(k)'
    BY <1>1, <1>2, <1>3, <2>4, CountsType
  <2>6. mailJob'.attempt \in 0..ATTEMPTS /\ (mailJob'.mail # {} => mailJob'.attempt >= 1)
    BY <2>1 DEF NoMail, ATTEMPTS
  <2> QED
    BY <1>1, <1>2, <1>3, <1>4, <2>4, <2>5, <2>6, CountsOf
<1>6. CASE ~Awaited(s)
  <2>1. mailJob' = mailJob /\ report' = report
    BY <1>6 DEF Accepted
  <2>2. \A n \in Mails : Tried(n)' = Tried(n) /\ GivenUp(n)' = GivenUp(n)
    BY <2>1 DEF Tried, GivenUp, Running
  <2>3. copies'[k] + Pending(k)' <= Tried(k)' /\ doubt'[k] <= GivenUp(k)'
    BY <1>1, <1>2, <1>3, <2>2, CountsType
  <2>4. mailJob'.attempt \in 0..ATTEMPTS /\ (mailJob'.mail # {} => mailJob'.attempt >= 1)
    BY <2>1 DEF MailCounts
  <2> QED
    BY <1>1, <1>2, <1>3, <1>4, <2>2, <2>3, <2>4, CountsOf
<1> QED
  BY <1>5, <1>6

(* A send ends badly.                                                      *)
LEMMA BrokenCounts ==
  ASSUME MailInv, MailCounts, NEW s \in sends, NEW taken \in BOOLEAN, Broken(s, taken)
  PROVE  MailCounts'
<1> DEFINE k == s.mail
<1>1. /\ sends' = sends \ {s} /\ UNCHANGED <<chain, overrun>>
      /\ copies' = [copies EXCEPT ![k] = IF taken THEN @ + 1 ELSE @]
      /\ doubt' = [doubt EXCEPT ![k] = IF taken /\ Awaited(s) THEN @ + 1 ELSE @]
  BY DEF Broken
<1>2. /\ k \in Mails /\ sends' \subseteq Sends /\ Pending(k)' = Pending(k) - 1
      /\ \A n \in Mails \ {k} : Pending(n)' = Pending(n)
  BY <1>1, GoneCounts
<1>3. /\ copies'[k] \in {copies[k], copies[k] + 1}
      /\ doubt'[k] \in {doubt[k], doubt[k] + 1} /\ (~Awaited(s) => doubt'[k] = doubt[k])
      /\ \A n \in Mails \ {k} : copies'[n] = copies[n] /\ doubt'[n] = doubt[n]
  BY <1>1, <1>2 DEF MailInv, Accounted
<1>4. overrun' \in BOOLEAN
  BY <1>1 DEF MailCounts
<1> HIDE DEF k
<1>5. CASE Awaited(s)
  <2>1. Running(k) /\ mailJob.phase = "racing" /\ AttemptFailed(k)
    BY <1>5 DEF Awaited, Running, Broken, k
  <2>2. /\ mailJob'.attempt \in 0..ATTEMPTS /\ (mailJob'.mail # {} => mailJob'.attempt >= 1)
        /\ Tried(k)' = Tried(k) /\ GivenUp(k)' = GivenUp(k) + 1
        /\ \A n \in Mails \ {k} : Tried(n)' = Tried(n) /\ GivenUp(n)' = GivenUp(n)
    BY <1>2, <2>1, FailCounts
  <2>3. copies'[k] + Pending(k)' <= Tried(k)' /\ doubt'[k] <= GivenUp(k)'
    BY <1>2, <1>3, <2>2, CountsType
  <2> QED
    BY <1>2, <1>3, <1>4, <2>2, <2>3, CountsOf
<1>6. CASE ~Awaited(s)
  <2>1. mailJob' = mailJob /\ report' = report
    BY <1>6 DEF Broken
  <2>2. \A n \in Mails : Tried(n)' = Tried(n) /\ GivenUp(n)' = GivenUp(n)
    BY <2>1 DEF Tried, GivenUp, Running
  <2>3. copies'[k] + Pending(k)' <= Tried(k)' /\ doubt'[k] <= GivenUp(k)'
    BY <1>2, <1>3, <1>6, <2>2, CountsType
  <2>4. mailJob'.attempt \in 0..ATTEMPTS /\ (mailJob'.mail # {} => mailJob'.attempt >= 1)
    BY <2>1 DEF MailCounts
  <2> QED
    BY <1>2, <1>3, <1>4, <2>2, <2>3, <2>4, CountsOf
<1> QED
  BY <1>5, <1>6

(* Nothing is handed over at first.                                        *)
LEMMA CountsBegin == MailInit => MailCounts
<1> SUFFICES ASSUME MailInit PROVE MailCounts
  OBVIOUS
<1>1. \A m \in Mails : Pending(m) = 0 /\ ~Running(m)
  <2> TAKE m \in Mails
  <2>1. Of(sends, m) = {}
    BY DEF Of, MailInit
  <2> QED
    BY <2>1, FS_EmptySet DEF Pending, Running, MailInit, NoMail
<1>2. \A m \in Mails : Tried(m) = 0 /\ GivenUp(m) = 0 /\ copies[m] = 0 /\ doubt[m] = 0
  BY <1>1 DEF MailInit, Tried, GivenUp
<1>3. \A m \in Mails : copies[m] + Pending(m) <= Tried(m) /\ doubt[m] <= GivenUp(m)
  BY <1>1, <1>2
<1>4. sends = {} /\ overrun = FALSE /\ mailJob.attempt = 0 /\ mailJob.mail = {}
  BY DEF MailInit, NoMail
<1>5. sends \subseteq Sends /\ overrun \in BOOLEAN
  BY <1>4
<1>6. mailJob.attempt \in 0..ATTEMPTS /\ (mailJob.mail # {} => mailJob.attempt >= 1)
  BY <1>4 DEF ATTEMPTS
<1> QED
  BY <1>3, <1>5, <1>6 DEF MailCounts

(* Every step of the mailer keeps the bounds.                              *)
LEMMA CountsKeep == MailInv /\ MailCounts /\ [MailNext]_mailVars => MailCounts'
<1> SUFFICES ASSUME MailInv, MailCounts, [MailNext]_mailVars PROVE MailCounts'
  OBVIOUS
<1>1. ASSUME UNCHANGED <<mailJob, sends, copies, report, overrun, doubt>>
      PROVE  MailCounts'
  BY <1>1 DEF MailCounts, Tried, GivenUp, Running, Pending
<1>2. ASSUME NEW m \in Mails, QueueEmail(m)
      PROVE  MailCounts'
  BY <1>1, <1>2 DEF QueueEmail
<1>3. ASSUME NEW m \in Mails, Send(m) \/ Deadline(m)
      PROVE  MailCounts'
  BY <1>3, SendCounts, DeadlineCounts
<1>4. ASSUME NEW s \in sends, NEW taken \in BOOLEAN,
             Connect(s) \/ Accepted(s) \/ Broken(s, taken)
      PROVE  MailCounts'
  BY <1>4, ConnectCounts, AcceptedCounts, BrokenCounts
<1>5. UNCHANGED mailVars => MailCounts'
  BY <1>1 DEF mailVars
<1> QED
  BY <1>2, <1>3, <1>4, <1>5, StartCounts, WakeCounts DEF MailNext, JobStep, Transport

(* The types the mailer's variables keep.                                  *)
LEMMA MailTypes == MailInv /\ MailCounts => MailTypeOK
<1> SUFFICES ASSUME MailInv, MailCounts PROVE MailTypeOK
  OBVIOUS
<1>1. \A m \in Mails : copies[m] \in 0..ATTEMPTS /\ doubt[m] \in 0..ATTEMPTS
  <2> TAKE m \in Mails
  <2>1. Tried(m) <= 3 /\ GivenUp(m) <= 3
    BY CountsType DEF Tried, GivenUp, ATTEMPTS
  <2>2. /\ copies[m] \in Nat /\ doubt[m] \in Nat /\ Pending(m) \in Nat
        /\ Tried(m) \in Nat /\ GivenUp(m) \in Nat
        /\ copies[m] + Pending(m) <= Tried(m) /\ doubt[m] <= GivenUp(m)
    BY CountsType
  <2> QED
    BY <2>1, <2>2 DEF ATTEMPTS
<1>2. mailJob \in [mail: {{}} \cup {{m} : m \in Mails}, attempt: 0..ATTEMPTS,
                   phase: {"none", "asleep", "ready", "racing"}]
  BY DEF MailInv, JobOK, MailCounts
<1>3. copies \in [Mails -> 0..ATTEMPTS] /\ doubt \in [Mails -> 0..ATTEMPTS]
  BY <1>1 DEF MailInv, Accounted
<1> QED
  BY <1>2, <1>3 DEF MailTypeOK, MailInv, JobOK, MailCounts

----------------------------------------------------------------------------
(* Maps: what setting and deleting leave of one.                           *)

(* Setting a key leaves a Map, with the key last unless it was there.      *)
LEMMA SetKeeps ==
  ASSUME NEW m, IsMap(m), NEW key, NEW v
  PROVE  /\ IsMap(MapSet(m, key, v))
         /\ DOMAIN MapSet(m, key, v) = DOMAIN m \cup {key}
<1> DEFINE n == MapSet(m, key, v)
<1>1. DOMAIN n = DOMAIN m \cup {key}
  BY DEF MapSet
<1>2. n[key].value = v /\ n[key].older = IF key \in DOMAIN m THEN m[key].older ELSE DOMAIN m
  BY DEF MapSet
<1>3. \A k \in DOMAIN m : k # key => n[k] = m[k]
  BY DEF MapSet
<1>4. \A k \in DOMAIN m : n[k].older = m[k].older
  BY <1>2, <1>3
<1>5. IsFiniteSet(DOMAIN n)
  BY <1>1, FS_AddElement DEF IsMap
<1>6. n = [k \in DOMAIN n |-> [value |-> n[k].value, older |-> n[k].older]]
  <2>1. \A k \in DOMAIN m : m[k] = [value |-> m[k].value, older |-> m[k].older]
    BY DEF IsMap
  <2> QED
    BY <2>1 DEF MapSet
<1> HIDE DEF n
<1>7. \A k \in DOMAIN n : k \notin n[k].older /\ n[k].older \subseteq DOMAIN n
  BY <1>1, <1>2, <1>4 DEF IsMap
<1>8. \A j, k \in DOMAIN n : j = k \/ j \in n[k].older \/ k \in n[j].older
  BY <1>1, <1>2, <1>4 DEF IsMap
<1>9. \A j, k \in DOMAIN n : j \in n[k].older => n[j].older \subseteq n[k].older
  BY <1>1, <1>2, <1>4 DEF IsMap
<1>10. IsMap(n)
  BY <1>5, <1>6, <1>7, <1>8, <1>9 DEF IsMap
<1> QED
  BY <1>1, <1>2, <1>3, <1>10 DEF n

(* Deleting keys leaves a Map of the others, in their order.               *)
LEMMA DeleteKeeps ==
  ASSUME NEW m, IsMap(m), NEW keys
  PROVE  /\ IsMap(MapDelete(m, keys))
         /\ DOMAIN MapDelete(m, keys) = DOMAIN m \ keys
         /\ \A k \in DOMAIN m \ keys : MapDelete(m, keys)[k].value = m[k].value
<1> DEFINE n == MapDelete(m, keys)
<1>1. DOMAIN n = DOMAIN m \ keys
  BY DEF MapDelete
<1>2. \A k \in DOMAIN n : n[k] = [value |-> m[k].value, older |-> m[k].older \ keys]
  BY DEF MapDelete
<1>3. IsFiniteSet(DOMAIN n)
  <2>1. IsFiniteSet(DOMAIN m \ keys)
    BY FS_Difference DEF IsMap
  <2> QED
    BY <1>1, <2>1
<1>4. n = [k \in DOMAIN n |-> [value |-> n[k].value, older |-> n[k].older]]
  BY DEF MapDelete
<1> HIDE DEF n
<1>5. \A k \in DOMAIN n : k \notin n[k].older /\ n[k].older \subseteq DOMAIN n
  BY <1>1, <1>2 DEF IsMap
<1>6. \A j, k \in DOMAIN n : j = k \/ j \in n[k].older \/ k \in n[j].older
  BY <1>1, <1>2 DEF IsMap
<1>7. \A j, k \in DOMAIN n : j \in n[k].older => n[j].older \subseteq n[k].older
  BY <1>1, <1>2 DEF IsMap
<1>8. IsMap(n)
  BY <1>3, <1>4, <1>5, <1>6, <1>7 DEF IsMap
<1> QED
  BY <1>1, <1>2, <1>8 DEF n

(* The place of a key in the order is its own, and below the size.         *)
LEMMA PlacesDiffer ==
  ASSUME NEW m, IsMap(m)
  PROVE  /\ \A k \in DOMAIN m : /\ Cardinality(m[k].older) \in Nat
                                /\ Cardinality(m[k].older) < MapSize(m)
         /\ \A j, k \in DOMAIN m :
              Cardinality(m[j].older) = Cardinality(m[k].older) => j = k
<1>1. ASSUME NEW S, IsFiniteSet(S), NEW T, T \subseteq S, T # S
      PROVE  /\ Cardinality(T) \in Nat /\ Cardinality(S) \in Nat /\ IsFiniteSet(T)
             /\ Cardinality(T) < Cardinality(S)
  <2>1. T \in SUBSET S
    BY <1>1
  <2>2. IsFiniteSet(T) /\ Cardinality(T) <= Cardinality(S) /\ Cardinality(T) # Cardinality(S)
    BY <1>1, <2>1, FS_Subset
  <2>3. Cardinality(T) \in Nat /\ Cardinality(S) \in Nat
    BY <1>1, <2>2, FS_CardinalityType
  <2> QED
    BY <2>2, <2>3
<1>2. ASSUME NEW k \in DOMAIN m
      PROVE  /\ Cardinality(m[k].older) \in Nat /\ IsFiniteSet(m[k].older)
             /\ Cardinality(m[k].older) < MapSize(m)
  <2>1. m[k].older \subseteq DOMAIN m /\ m[k].older # DOMAIN m /\ IsFiniteSet(DOMAIN m)
    BY DEF IsMap
  <2> QED
    BY <1>1, <2>1 DEF MapSize
<1>3. ASSUME NEW j \in DOMAIN m, NEW k \in DOMAIN m, j \in m[k].older
      PROVE  Cardinality(m[j].older) # Cardinality(m[k].older)
  <2>1. m[j].older \subseteq m[k].older /\ m[j].older # m[k].older
    BY <1>3 DEF IsMap
  <2> QED
    BY <1>1, <1>2, <2>1
<1>4. ASSUME NEW j \in DOMAIN m, NEW k \in DOMAIN m,
             Cardinality(m[j].older) = Cardinality(m[k].older)
      PROVE  j = k
  BY <1>3, <1>4 DEF IsMap
<1> QED
  BY <1>2, <1>4

(* Without its first n keys a Map has n fewer, if it has that many.        *)
LEMMA FirstGone ==
  ASSUME NEW m, IsMap(m), NEW n \in Int, n <= MapSize(m)
  PROVE  MapSize(MapDelete(m, MapFirst(m, n))) <= MapSize(m) - n
<1> DEFINE rest == DOMAIN m \ MapFirst(m, n)
           size == MapSize(m)
<1>1. DOMAIN MapDelete(m, MapFirst(m, n)) = rest
  BY DEF MapDelete
<1>2. IsFiniteSet(DOMAIN m) /\ size \in Nat /\ n <= size
  BY FS_CardinalityType DEF IsMap, MapSize
<1>3. CASE n < 0
  <2>1. rest \in SUBSET DOMAIN m
    OBVIOUS
  <2>2. Cardinality(rest) <= size /\ IsFiniteSet(rest)
    BY <1>2, <2>1, FS_Subset DEF MapSize
  <2> HIDE DEF rest, size
  <2>3. Cardinality(rest) \in Nat
    BY <2>2, FS_CardinalityType
  <2>4. Cardinality(rest) <= size - n
    BY <1>2, <1>3, <2>2, <2>3
  <2> QED
    BY <1>1, <2>4 DEF MapSize, size
<1>4. CASE n >= 0
  <2> DEFINE place == [k \in rest |-> Cardinality(m[k].older)]
             T == n..(size - 1)
  <2>1. \A k \in rest : Cardinality(m[k].older) \in T
    BY <1>2, <1>4, PlacesDiffer DEF MapFirst
  <2>2. \A j, k \in rest : place[j] = place[k] => j = k
    BY PlacesDiffer
  <2>3. place \in Injection(rest, T)
    BY <2>1, <2>2 DEF Injection, IsInjective
  <2>4. IsFiniteSet(T) /\ Cardinality(T) = size - n
    <3> HIDE DEF size
    <3> QED
      BY <1>2, FS_Interval
  <2> HIDE DEF T, place, rest
  <2>5. Cardinality(rest) <= Cardinality(T)
    BY <2>3, <2>4, FS_Injection
  <2> QED
    BY <1>1, <2>4, <2>5 DEF MapSize, size
<1> QED
  BY <1>3, <1>4

----------------------------------------------------------------------------
(* The limits.  A key is followed through the Map: whatever is done to it  *)
(* or to others, the key counts as before, once more, or no longer         *)
(* (SameCount, Bumped, ~Counting), and for each of these what was let      *)
(* through of the key stays within its bound (RouteKeyOK, NameKeyOK).      *)

(* What is let through in a stretch only grows with the stretch.           *)
Grows(r) == \A m, n \in 0..WINDOW : m <= n => r[m] <= r[n]

(* A key that routes check.  While its window runs, what this window let   *)
(* through is in the count, and what came before is within the limit; when *)
(* it is over or gone, all that is left of it is.                          *)
RouteKeyOK(limit, b, key, r) ==
  IF Counting(b, key)
  THEN LET slot == b[key].value IN
       /\ r[WINDOW - slot.left] <= slot.count
       /\ slot.count <= limit
       /\ r[WINDOW] <= limit + r[WINDOW - slot.left]
  ELSE r[WINDOW] <= limit /\ r[0] = 0

(* The same of a name, with the guesses not yet counted.                   *)
Pend(g, key) == Cardinality({s \in Guards : key \in g[s]})
MOST == LIMIT_NAME + Cardinality(Guards) - 1
NameKeyOK(b, key, r, pend) ==
  IF Counting(b, key)
  THEN LET slot == b[key].value IN
       /\ slot.count + pend <= MOST
       /\ r[WINDOW - slot.left] <= slot.count + pend
       /\ r[WINDOW] <= MOST + slot.count + pend
  ELSE r[0] <= pend /\ r[WINDOW] <= MOST + pend

BucketOK(b) ==
  /\ IsMap(b) /\ DOMAIN b \subseteq Keys
  /\ \A k \in DOMAIN b : b[k].value \in [count: Nat \ {0}, left: -1..WINDOW]

RateInv ==
  /\ BucketOK(bucket)
  /\ guess \in [Guards -> SUBSET Keys] /\ evicted \subseteq Keys
  /\ recent \in [Keys -> [0..WINDOW -> Nat]]
  /\ \A key \in Keys : Grows(recent[key])
  /\ \A c \in Limits :
       c[1] \notin evicted => RouteKeyOK(c[2], bucket, c[1], recent[c[1]])
  /\ \A l \in Logins :
       l.name \notin evicted =>
         NameKeyOK(bucket, l.name, recent[l.name], Pend(guess, l.name))

(* A key counts in c as it did in b.                                       *)
SameCount(b, c, key) ==
  /\ Counting(b, key) <=> Counting(c, key)
  /\ Counting(b, key) => c[key].value = b[key].value

(* In c a key has been counted once more than in b.                        *)
Bumped(b, c, key) ==
  /\ Counting(c, key)
  /\ c[key].value = IF Counting(b, key)
                     THEN [count |-> b[key].value.count + 1, left |-> b[key].value.left]
                     ELSE [count |-> 1, left |-> WINDOW]

(* What a slot that counts holds.                                          *)
LEMMA SlotType ==
  ASSUME NEW b, BucketOK(b), NEW key, Counting(b, key)
  PROVE  /\ b[key].value.count \in Nat \ {0}
         /\ b[key].value.left \in 0..WINDOW
         /\ WINDOW - b[key].value.left \in 0..WINDOW
<1>1. b[key].value \in [count: Nat \ {0}, left: -1..WINDOW] /\ b[key].value.left >= 0
  BY DEF BucketOK, Counting
<1> QED
  BY <1>1, RateAssumption

(* Deleting keys leaves the others as they were.                           *)
LEMMA DeleteSlots ==
  ASSUME NEW b, BucketOK(b), NEW keys
  PROVE  /\ BucketOK(MapDelete(b, keys))
         /\ \A k \in Keys \ keys : SameCount(b, MapDelete(b, keys), k)
         /\ \A k \in keys : ~Counting(MapDelete(b, keys), k)
<1>1. IsMap(b)
  BY DEF BucketOK
<1> DEFINE c == MapDelete(b, keys)
<1>2. /\ IsMap(c) /\ DOMAIN c = DOMAIN b \ keys
      /\ \A k \in DOMAIN b \ keys : c[k].value = b[k].value
  BY <1>1, DeleteKeeps
<1> HIDE DEF c
<1>3. BucketOK(c)
  BY <1>2 DEF BucketOK
<1>4. \A k \in Keys \ keys : SameCount(b, c, k)
  BY <1>2 DEF SameCount, Counting
<1>5. \A k \in keys : ~Counting(c, k)
  BY <1>2 DEF Counting
<1> QED
  BY <1>3, <1>4, <1>5 DEF c

(* Looking at a key changes no count.                                      *)
LEMMA LookedSlots ==
  ASSUME NEW b, BucketOK(b), NEW key
  PROVE  BucketOK(Looked(b, key)) /\ \A k \in Keys : SameCount(b, Looked(b, key), k)
<1>1. CASE Counting(b, key)
  BY <1>1 DEF Looked, SameCount
<1>2. CASE ~Counting(b, key)
  <2>1. Looked(b, key) = MapDelete(b, {key})
    BY <1>2 DEF Looked
  <2>2. SameCount(b, MapDelete(b, {key}), key)
    BY <1>2, DeleteSlots DEF SameCount
  <2> QED
    BY <2>1, <2>2, DeleteSlots
<1> QED
  BY <1>1, <1>2

(* Setting a slot of a window not over changes only that key.              *)
LEMMA SetSlots ==
  ASSUME NEW b, BucketOK(b), NEW key \in Keys,
         NEW v \in [count: Nat \ {0}, left: 0..WINDOW]
  PROVE  /\ BucketOK(MapSet(b, key, v))
         /\ Counting(MapSet(b, key, v), key) /\ MapSet(b, key, v)[key].value = v
         /\ \A k \in Keys \ {key} : SameCount(b, MapSet(b, key, v), k)
<1> DEFINE c == MapSet(b, key, v)
<1>1. v \in [count: Nat \ {0}, left: -1..WINDOW] /\ v.left >= 0
  BY RateAssumption
<1>2. IsMap(b)
  BY DEF BucketOK
<1>3. /\ IsMap(c) /\ DOMAIN c = DOMAIN b \cup {key} /\ c[key].value = v
      /\ \A k \in DOMAIN b \ {key} : c[k].value = b[k].value
  <2>1. IsMap(c) /\ DOMAIN c = DOMAIN b \cup {key}
    BY <1>2, SetKeeps
  <2>2. c[key].value = v
    BY DEF MapSet
  <2>3. \A k \in DOMAIN b \ {key} : c[k].value = b[k].value
    BY DEF MapSet
  <2> QED
    BY <2>1, <2>2, <2>3
<1> HIDE DEF c
<1>4. BucketOK(c)
  BY <1>1, <1>3 DEF BucketOK
<1>5. Counting(c, key)
  BY <1>1, <1>3 DEF Counting
<1>6. \A k \in Keys \ {key} : SameCount(b, c, k)
  BY <1>3 DEF SameCount, Counting
<1> QED
  BY <1>3, <1>4, <1>5, <1>6 DEF c

(* An attempt counts on its own key.                                       *)
LEMMA RecordSlots ==
  ASSUME NEW b, BucketOK(b), NEW key \in Keys
  PROVE  /\ BucketOK(Record(b, key)) /\ Bumped(b, Record(b, key), key)
         /\ \A k \in Keys \ {key} : SameCount(b, Record(b, key), k)
<1>1. CASE Counting(b, key)
  <2> DEFINE v == [count |-> b[key].value.count + 1, left |-> b[key].value.left]
  <2>1. v \in [count: Nat \ {0}, left: 0..WINDOW]
    <3>1. b[key].value.count \in Nat \ {0} /\ b[key].value.left \in 0..WINDOW
      BY <1>1, SlotType
    <3> QED
      BY <3>1
  <2>2. Record(b, key) = MapSet(b, key, v)
    BY <1>1 DEF Record
  <2>3. Counting(MapSet(b, key, v), key) /\ MapSet(b, key, v)[key].value = v
        => Bumped(b, MapSet(b, key, v), key)
    BY <1>1 DEF Bumped
  <2> HIDE DEF v
  <2> QED
    BY <2>1, <2>2, <2>3, SetSlots
<1>2. CASE ~Counting(b, key)
  <2> DEFINE v == [count |-> 1, left |-> WINDOW]
  <2>1. v \in [count: Nat \ {0}, left: 0..WINDOW]
    BY RateAssumption
  <2>2. Record(b, key) = MapSet(b, key, v)
    BY <1>2 DEF Record
  <2>3. Counting(MapSet(b, key, v), key) /\ MapSet(b, key, v)[key].value = v
        => Bumped(b, MapSet(b, key, v), key)
    BY <1>2 DEF Bumped
  <2> HIDE DEF v
  <2> QED
    BY <2>1, <2>2, <2>3, SetSlots
<1> QED
  BY <1>1, <1>2

(* A count is that of the key, however the Map has changed around it.      *)
LEMMA SameCounts ==
  ASSUME NEW b, NEW c, NEW d, NEW key, SameCount(b, c, key)
  PROVE  /\ SameCount(c, d, key) => SameCount(b, d, key)
         /\ Bumped(c, d, key) => Bumped(b, d, key)
         /\ Count(c, key) = Count(b, key)
BY DEF SameCount, Bumped, Count

(* After one check: a key that was not let through counts as before.       *)
After(b, so, key) ==
  IF key \in so.passed THEN Bumped(b, so.b, key) ELSE SameCount(b, so.b, key)

(* One check: only its own key can be let through, and only when its count *)
(* is below the limit.                                                     *)
LEMMA CheckSlots ==
  ASSUME NEW so, so = [ok |-> so.ok, b |-> so.b, passed |-> so.passed],
         BucketOK(so.b), so.passed \subseteq Keys,
         NEW check \in Keys \X (Nat \ {0}), check[1] \notin so.passed,
         NEW b, \A k \in Keys : After(b, so, k),
         NEW to, to = RateCheck(so, check)
  PROVE  /\ to = [ok |-> to.ok, b |-> to.b, passed |-> to.passed]
         /\ BucketOK(to.b) /\ to.passed \in {so.passed, so.passed \cup {check[1]}}
         /\ check[1] \in to.passed => Count(b, check[1]) < check[2]
         /\ \A k \in Keys : After(b, to, k)
<1> DEFINE key == check[1]
           seen == Looked(so.b, key)
<1>1. key \in Keys /\ check[2] \in Nat
  OBVIOUS
<1>2. BucketOK(seen) /\ \A k \in Keys : SameCount(so.b, seen, k)
  BY LookedSlots
<1> HIDE DEF seen
<1>3. CASE ~so.ok
  <2>1. to = so
    BY <1>3 DEF RateCheck
  <2> QED
    BY <2>1
<1>4. CASE so.ok /\ Count(so.b, key) >= check[2]
  <2>1. to = [ok |-> FALSE, b |-> seen, passed |-> so.passed]
    BY <1>4 DEF RateCheck, seen
  <2>2. ASSUME NEW k \in Keys
        PROVE  After(b, to, k)
    <3>1. SameCount(so.b, seen, k) /\ After(b, so, k)
      BY <1>2
    <3>2. SameCount(b, so.b, k) => SameCount(b, seen, k)
      BY <3>1, SameCounts
    <3>3. Bumped(b, so.b, k) => Bumped(b, seen, k)
      BY <3>1 DEF SameCount, Bumped
    <3> QED
      BY <2>1, <3>1, <3>2, <3>3 DEF After
  <2>3. to.b = seen /\ to.passed = so.passed
    BY <2>1
  <2> QED
    BY <1>2, <2>1, <2>2, <2>3
<1>5. CASE so.ok /\ ~(Count(so.b, key) >= check[2])
  <2> DEFINE rec == Record(seen, key)
  <2>1. to = [ok |-> TRUE, b |-> rec, passed |-> so.passed \cup {key}]
    BY <1>5 DEF RateCheck, seen
  <2>2. BucketOK(rec) /\ Bumped(seen, rec, key) /\ \A k \in Keys \ {key} : SameCount(seen, rec, k)
    BY <1>1, <1>2, RecordSlots
  <2> HIDE DEF rec
  <2>3. ASSUME NEW k \in Keys, k # key
        PROVE  After(b, to, k)
    <3>1. SameCount(so.b, seen, k) /\ SameCount(seen, rec, k) /\ After(b, so, k)
      BY <1>2, <2>2, <2>3
    <3>2. SameCount(so.b, rec, k)
      BY <3>1, SameCounts
    <3>3. SameCount(b, so.b, k) => SameCount(b, rec, k)
      BY <3>2, SameCounts
    <3>4. Bumped(b, so.b, k) => Bumped(b, rec, k)
      BY <3>2 DEF SameCount, Bumped
    <3> QED
      BY <2>1, <2>3, <3>1, <3>3, <3>4 DEF After
  <2>4. SameCount(b, so.b, key)
    BY <1>1 DEF After
  <2>5. After(b, to, key)
    <3>1. SameCount(so.b, seen, key)
      BY <1>1, <1>2
    <3>2. SameCount(b, seen, key)
      BY <2>4, <3>1, SameCounts
    <3>3. Bumped(b, rec, key)
      BY <2>2, <3>2, SameCounts
    <3> QED
      BY <2>1, <3>3 DEF After
  <2>6. Count(b, key) < check[2]
    <3>1. Count(so.b, key) = Count(b, key)
      BY <2>4, SameCounts
    <3>2. Count(so.b, key) \in Nat
      BY SlotType DEF Count
    <3> QED
      BY <1>1, <1>5, <3>1, <3>2
  <2>7. to.b = rec /\ to.passed = so.passed \cup {key}
    BY <2>1
  <2> QED
    BY <2>1, <2>2, <2>3, <2>5, <2>6, <2>7
<1> QED
  BY <1>3, <1>4, <1>5

Stretch == [0..WINDOW -> Nat]

(* A route's key, as long as it counts the same.                           *)
LEMMA SameRoute ==
  ASSUME NEW b, NEW c, NEW key, SameCount(b, c, key), NEW r, NEW limit,
         RouteKeyOK(limit, b, key, r)
  PROVE  RouteKeyOK(limit, c, key, r)
BY DEF SameCount, RouteKeyOK

(* A name, as long as it counts the same.                                  *)
LEMMA SameName ==
  ASSUME NEW b, NEW c, NEW key, SameCount(b, c, key), NEW r, NEW p,
         NameKeyOK(b, key, r, p)
  PROVE  NameKeyOK(c, key, r, p)
BY DEF SameCount, NameKeyOK

(* Most guesses a window of a name takes.                                  *)
LEMMA MostType == Cardinality(Guards) \in Nat /\ MOST = 1 + Cardinality(Guards) /\ MOST \in Nat
<1>1. Cardinality(Guards) \in Nat
  BY RateAssumption, FS_CardinalityType
<1> QED
  BY <1>1 DEF MOST, LIMIT_NAME

(* What Bumped says, field by field.                                       *)
LEMMA BumpedSlot ==
  ASSUME NEW b, BucketOK(b), NEW c, NEW key, Bumped(b, c, key)
  PROVE  /\ Counting(c, key)
         /\ Counting(b, key) => /\ c[key].value.count = b[key].value.count + 1
                                /\ c[key].value.left = b[key].value.left
         /\ ~Counting(b, key) => c[key].value.count = 1 /\ c[key].value.left = WINDOW
<1>1. CASE Counting(b, key)
  BY <1>1 DEF Bumped
<1>2. CASE ~Counting(b, key)
  BY <1>2 DEF Bumped
<1> QED
  BY <1>1, <1>2

(* A route lets one more through.                                          *)
LEMMA RouteCounts ==
  ASSUME NEW b, BucketOK(b), NEW c, NEW key, NEW limit \in Nat \ {0},
         Bumped(b, c, key), Count(b, key) < limit,
         NEW r \in Stretch, NEW s \in Stretch, \A n \in 0..WINDOW : s[n] = r[n] + 1,
         RouteKeyOK(limit, b, key, r)
  PROVE  RouteKeyOK(limit, c, key, s)
<1>1. CASE Counting(b, key)
  <2> DEFINE cnt == b[key].value.count
             n == WINDOW - b[key].value.left
  <2>1. cnt \in Nat /\ n \in 0..WINDOW /\ WINDOW \in 0..WINDOW
    <3>1. cnt \in Nat /\ n \in 0..WINDOW
      BY <1>1, SlotType
    <3> QED
      BY <3>1, RateAssumption
  <2>2. r[n] <= cnt /\ cnt <= limit /\ r[WINDOW] <= limit + r[n]
    BY <1>1 DEF RouteKeyOK
  <2>3. cnt < limit
    BY <1>1 DEF Count
  <2>4. Counting(c, key) /\ c[key].value.count = cnt + 1 /\ WINDOW - c[key].value.left = n
    BY <1>1, BumpedSlot
  <2>5. s[n] = r[n] + 1 /\ s[WINDOW] = r[WINDOW] + 1 /\ r[n] \in Nat /\ r[WINDOW] \in Nat
    BY <2>1 DEF Stretch
  <2> HIDE DEF cnt, n
  <2>6. s[n] <= cnt + 1 /\ cnt + 1 <= limit /\ s[WINDOW] <= limit + s[n]
    BY <2>1, <2>2, <2>3, <2>5
  <2> QED
    BY <2>4, <2>6 DEF RouteKeyOK
<1>2. CASE ~Counting(b, key)
  <2>1. WINDOW \in 0..WINDOW /\ 0 \in 0..WINDOW /\ WINDOW - WINDOW = 0
    BY RateAssumption
  <2>2. r[WINDOW] <= limit /\ r[0] = 0
    BY <1>2 DEF RouteKeyOK
  <2>3. Counting(c, key) /\ c[key].value.count = 1 /\ WINDOW - c[key].value.left = 0
    BY <1>2, <2>1, BumpedSlot
  <2>4. s[0] = r[0] + 1 /\ s[WINDOW] = r[WINDOW] + 1 /\ r[WINDOW] \in Nat
    BY <2>1 DEF Stretch
  <2>5. s[0] <= 1 /\ 1 <= limit /\ s[WINDOW] <= limit + s[0]
    BY <2>2, <2>4
  <2> QED
    BY <2>3, <2>5 DEF RouteKeyOK
<1> QED
  BY <1>1, <1>2

(* A sign-in below the limit goes on to its guess.                         *)
LEMMA NameLooks ==
  ASSUME NEW b, BucketOK(b), NEW key, Count(b, key) < LIMIT_NAME,
         NEW r \in Stretch, NEW s \in Stretch, \A n \in 0..WINDOW : s[n] = r[n] + 1,
         NEW p \in Nat, p < Cardinality(Guards), NameKeyOK(b, key, r, p)
  PROVE  NameKeyOK(b, key, s, p + 1)
<1>1. CASE Counting(b, key)
  <2> DEFINE cnt == b[key].value.count
             n == WINDOW - b[key].value.left
  <2>1. cnt \in Nat /\ n \in 0..WINDOW /\ WINDOW \in 0..WINDOW
    <3>1. cnt \in Nat /\ n \in 0..WINDOW
      BY <1>1, SlotType
    <3> QED
      BY <3>1, RateAssumption
  <2>2. r[n] <= cnt + p /\ cnt + p <= MOST /\ r[WINDOW] <= MOST + cnt + p
    BY <1>1 DEF NameKeyOK
  <2>3. cnt < 2
    BY <1>1 DEF Count, LIMIT_NAME
  <2>5. s[n] = r[n] + 1 /\ s[WINDOW] = r[WINDOW] + 1 /\ r[n] \in Nat /\ r[WINDOW] \in Nat
    BY <2>1 DEF Stretch
  <2> HIDE DEF cnt, n
  <2>6. s[n] <= cnt + (p + 1) /\ cnt + (p + 1) <= MOST /\ s[WINDOW] <= MOST + cnt + (p + 1)
    BY <2>1, <2>2, <2>3, <2>5, MostType
  <2> QED
    BY <1>1, <2>6 DEF NameKeyOK, cnt, n
<1>2. CASE ~Counting(b, key)
  <2>1. WINDOW \in 0..WINDOW /\ 0 \in 0..WINDOW
    BY RateAssumption
  <2>2. r[WINDOW] <= MOST + p /\ r[0] <= p
    BY <1>2 DEF NameKeyOK
  <2>3. s[0] = r[0] + 1 /\ s[WINDOW] = r[WINDOW] + 1 /\ r[WINDOW] \in Nat /\ r[0] \in Nat
    BY <2>1 DEF Stretch
  <2>4. s[WINDOW] <= MOST + (p + 1) /\ s[0] <= p + 1
    BY <2>2, <2>3, MostType
  <2> QED
    BY <1>2, <2>4 DEF NameKeyOK
<1> QED
  BY <1>1, <1>2

(* A guess that was wrong is counted.                                      *)
LEMMA NameFails ==
  ASSUME NEW b, BucketOK(b), NEW c, NEW key, Bumped(b, c, key), NEW r \in Stretch,
         NEW p \in Nat, p + 1 <= Cardinality(Guards), NameKeyOK(b, key, r, p + 1)
  PROVE  NameKeyOK(c, key, r, p)
<1>1. CASE Counting(b, key)
  <2> DEFINE cnt == b[key].value.count
             n == WINDOW - b[key].value.left
  <2>1. cnt \in Nat /\ n \in 0..WINDOW /\ WINDOW \in 0..WINDOW
    <3>1. cnt \in Nat /\ n \in 0..WINDOW
      BY <1>1, SlotType
    <3> QED
      BY <3>1, RateAssumption
  <2>2. r[n] <= cnt + (p + 1) /\ cnt + (p + 1) <= MOST /\ r[WINDOW] <= MOST + cnt + (p + 1)
    BY <1>1 DEF NameKeyOK
  <2>4. Counting(c, key) /\ c[key].value.count = cnt + 1 /\ WINDOW - c[key].value.left = n
    BY <1>1, BumpedSlot
  <2>5. r[n] \in Nat /\ r[WINDOW] \in Nat
    BY <2>1 DEF Stretch
  <2> HIDE DEF cnt, n
  <2>6. r[n] <= (cnt + 1) + p /\ (cnt + 1) + p <= MOST /\ r[WINDOW] <= MOST + (cnt + 1) + p
    BY <2>1, <2>2, <2>5, MostType
  <2> QED
    BY <2>4, <2>6 DEF NameKeyOK
<1>2. CASE ~Counting(b, key)
  <2>1. WINDOW \in 0..WINDOW /\ 0 \in 0..WINDOW /\ WINDOW - WINDOW = 0
    BY RateAssumption
  <2>2. r[WINDOW] <= MOST + (p + 1) /\ r[0] <= p + 1
    BY <1>2 DEF NameKeyOK
  <2>3. Counting(c, key) /\ c[key].value.count = 1 /\ WINDOW - c[key].value.left = 0
    BY <1>2, <2>1, BumpedSlot
  <2>4. r[WINDOW] \in Nat /\ r[0] \in Nat
    BY <2>1 DEF Stretch
  <2>5. r[0] <= 1 + p /\ 1 + p <= MOST /\ r[WINDOW] <= MOST + 1 + p
    BY <2>2, <2>4, MostType
  <2> QED
    BY <2>3, <2>5 DEF NameKeyOK
<1> QED
  BY <1>1, <1>2

(* A key forgotten begins anew, whatever guesses are still in flight.      *)
LEMMA Anew ==
  ASSUME NEW c, NEW key, ~Counting(c, key), NEW r, \A n \in 0..WINDOW : r[n] = 0
  PROVE  /\ \A limit \in Nat : RouteKeyOK(limit, c, key, r)
         /\ \A p \in Nat : NameKeyOK(c, key, r, p)
<1>1. r[0] = 0 /\ r[WINDOW] = 0
  BY RateAssumption
<1> QED
  BY <1>1, MostType DEF RouteKeyOK, NameKeyOK

Ticked(b) == [k \in DOMAIN b |-> [value |-> Shorter(b[k].value), older |-> b[k].older]]
Shifted(r) == [n \in 0..WINDOW |-> IF n = 0 THEN 0 ELSE r[n - 1]]

(* A tick moves every attempt one tick back.                               *)
LEMMA ShiftGrows ==
  ASSUME NEW r \in Stretch, Grows(r)
  PROVE  /\ Shifted(r) \in Stretch /\ Grows(Shifted(r))
         /\ \A n \in 0..WINDOW : Shifted(r)[n] <= r[n]
<1>1. \A n \in 0..WINDOW : n # 0 => n - 1 \in 0..WINDOW
  BY RateAssumption
<1>2. Shifted(r) \in Stretch
  BY <1>1 DEF Stretch, Shifted
<1>3. ASSUME NEW m \in 0..WINDOW, NEW n \in 0..WINDOW, m <= n
      PROVE  Shifted(r)[m] <= Shifted(r)[n]
  <2>1. CASE m = 0
    <3>1. Shifted(r)[m] = 0
      BY <2>1 DEF Shifted
    <3>2. Shifted(r)[n] \in Nat
      BY <1>2 DEF Stretch
    <3> QED
      BY <3>1, <3>2
  <2>2. CASE m # 0
    <3>1. n # 0 /\ m - 1 <= n - 1 /\ m - 1 \in 0..WINDOW /\ n - 1 \in 0..WINDOW
      BY <1>1, <1>3, <2>2
    <3> QED
      BY <2>2, <3>1 DEF Shifted, Grows
  <2> QED
    BY <2>1, <2>2
<1>4. ASSUME NEW n \in 0..WINDOW
      PROVE  Shifted(r)[n] <= r[n]
  <2>1. CASE n = 0
    BY <2>1 DEF Shifted, Stretch
  <2>2. CASE n # 0
    <3>1. n - 1 <= n /\ n - 1 \in 0..WINDOW
      BY <1>1, <2>2
    <3> QED
      BY <2>2, <3>1 DEF Shifted, Grows
  <2> QED
    BY <2>1, <2>2
<1> QED
  BY <1>2, <1>3, <1>4 DEF Grows

(* A tick shortens every window, and ends those that had nothing left.     *)
LEMMA TickSlots ==
  ASSUME NEW b, BucketOK(b)
  PROVE  /\ BucketOK(Ticked(b))
         /\ \A k : Counting(Ticked(b), k) =>
              /\ Counting(b, k) /\ b[k].value.left > 0
              /\ Ticked(b)[k].value.count = b[k].value.count
              /\ Ticked(b)[k].value.left = b[k].value.left - 1
         /\ \A k : Counting(b, k) /\ ~Counting(Ticked(b), k) => b[k].value.left = 0
<1> DEFINE c == Ticked(b)
<1>1. DOMAIN c = DOMAIN b
  BY DEF Ticked
<1>2. \A k \in DOMAIN b : c[k] = [value |-> Shorter(b[k].value), older |-> b[k].older]
  BY DEF Ticked
<1>3. ASSUME NEW k \in DOMAIN b
      PROVE  /\ c[k].older = b[k].older /\ c[k].value = Shorter(b[k].value)
             /\ Shorter(b[k].value) \in [count: Nat \ {0}, left: -1..WINDOW]
             /\ Shorter(b[k].value).count = b[k].value.count
             /\ IF b[k].value.left < 1 THEN Shorter(b[k].value).left = -1
                ELSE Shorter(b[k].value).left = b[k].value.left - 1
  <2> DEFINE cnt == b[k].value.count
             left == b[k].value.left
  <2>1. c[k].older = b[k].older /\ c[k].value = Shorter(b[k].value)
    BY DEF Ticked
  <2>2. cnt \in Nat \ {0} /\ left \in -1..WINDOW /\ WINDOW \in Nat
    BY RateAssumption DEF BucketOK
  <2>3. Shorter(b[k].value) = [count |-> cnt, left |-> IF left < 0 THEN -1 ELSE left - 1]
    BY DEF Shorter
  <2> HIDE DEF cnt, left
  <2>4. (IF left < 0 THEN -1 ELSE left - 1) \in -1..WINDOW
    BY <2>2
  <2>5. IF left < 1 THEN Shorter(b[k].value).left = -1 ELSE Shorter(b[k].value).left = left - 1
    BY <2>2, <2>3
  <2> QED
    BY <2>1, <2>2, <2>3, <2>4, <2>5 DEF cnt, left
<1>4. IsMap(b)
  BY DEF BucketOK
<1>5. c = [k \in DOMAIN c |-> [value |-> c[k].value, older |-> c[k].older]]
  BY DEF Ticked
<1>6. \A k \in DOMAIN b : b[k].value.left \in -1..WINDOW
  BY DEF BucketOK
<1> HIDE DEF c
<1>7. IsMap(c)
  <2>1. IsFiniteSet(DOMAIN c)
    BY <1>1, <1>4 DEF IsMap
  <2>2. \A k \in DOMAIN c : c[k].older = b[k].older
    BY <1>1, <1>3
  <2> QED
    BY <1>1, <1>4, <1>5, <2>1, <2>2 DEF IsMap
<1>8. BucketOK(c)
  BY <1>1, <1>3, <1>7 DEF BucketOK
<1>9. ASSUME NEW k, Counting(c, k)
      PROVE  /\ Counting(b, k) /\ b[k].value.left > 0
             /\ c[k].value.count = b[k].value.count
             /\ c[k].value.left = b[k].value.left - 1
  <2>1. k \in DOMAIN b /\ c[k].value.left >= 0
    BY <1>1, <1>9 DEF Counting
  <2>2. b[k].value.left \in -1..WINDOW
    BY <1>6, <2>1
  <2> QED
    BY <1>3, <2>1, <2>2, RateAssumption DEF Counting
<1>10. ASSUME NEW k, Counting(b, k), ~Counting(c, k)
       PROVE  b[k].value.left = 0
  <2>1. k \in DOMAIN b /\ b[k].value.left >= 0 /\ ~(c[k].value.left >= 0)
    BY <1>1, <1>10 DEF Counting
  <2>2. b[k].value.left \in -1..WINDOW
    BY <1>6, <2>1
  <2> QED
    BY <1>3, <2>1, <2>2, RateAssumption
<1> QED
  BY <1>8, <1>9, <1>10 DEF c

(* A route's key after a tick.                                             *)
LEMMA RouteTicks ==
  ASSUME NEW b, BucketOK(b), NEW key, NEW limit \in Nat \ {0},
         NEW r \in Stretch, Grows(r), RouteKeyOK(limit, b, key, r)
  PROVE  RouteKeyOK(limit, Ticked(b), key, Shifted(r))
<1> DEFINE s == Shifted(r)
<1>1. s \in Stretch /\ Grows(s) /\ (\A n \in 0..WINDOW : s[n] <= r[n]) /\ s[0] = 0
  BY ShiftGrows, RateAssumption DEF Shifted
<1>2. WINDOW \in 0..WINDOW /\ 0 \in 0..WINDOW /\ WINDOW \in Nat
  BY RateAssumption
<1>3. r[WINDOW] \in Nat /\ s[WINDOW] \in Nat /\ s[WINDOW] <= r[WINDOW]
  BY <1>1, <1>2 DEF Stretch
<1>4. CASE Counting(Ticked(b), key)
  <2> DEFINE cnt == b[key].value.count
             left == b[key].value.left
             n == WINDOW - left
  <2>1. /\ Counting(b, key) /\ left > 0
        /\ Ticked(b)[key].value.count = cnt /\ Ticked(b)[key].value.left = left - 1
    BY <1>4, TickSlots
  <2>2. cnt \in Nat /\ left \in 0..WINDOW
    BY <2>1, SlotType
  <2>3. r[n] <= cnt /\ cnt <= limit /\ r[WINDOW] <= limit + r[n]
    BY <2>1 DEF RouteKeyOK
  <2> HIDE DEF cnt, left
  <2>4. n \in 0..WINDOW /\ WINDOW - (left - 1) \in 0..WINDOW /\ WINDOW - (left - 1) # 0
        /\ WINDOW - (left - 1) - 1 = n
    BY <1>2, <2>1, <2>2
  <2>5. s[WINDOW - (left - 1)] = r[n]
    BY <2>4 DEF Shifted
  <2>6. r[n] \in Nat
    BY <2>4 DEF Stretch
  <2> HIDE DEF n, s
  <2>7. s[WINDOW] <= limit + r[n]
    BY <1>3, <2>3, <2>6
  <2> QED
    BY <1>4, <2>1, <2>3, <2>5, <2>7 DEF RouteKeyOK, s
<1>5. CASE ~Counting(Ticked(b), key)
  <2>1. r[WINDOW] <= limit
    <3>1. CASE Counting(b, key)
      <4>1. b[key].value.left = 0
        BY <1>5, <3>1, TickSlots
      <4>2. b[key].value.count \in Nat
        BY <3>1, SlotType
      <4>3. r[WINDOW - 0] <= b[key].value.count /\ b[key].value.count <= limit
        BY <3>1, <4>1 DEF RouteKeyOK
      <4> QED
        BY <1>2, <1>3, <4>2, <4>3
    <3>2. CASE ~Counting(b, key)
      BY <3>2 DEF RouteKeyOK
    <3> QED
      BY <3>1, <3>2
  <2>2. s[WINDOW] <= limit
    BY <1>3, <2>1
  <2> QED
    BY <1>1, <1>5, <2>2 DEF RouteKeyOK
<1> QED
  BY <1>4, <1>5

(* A name after a tick.                                                    *)
LEMMA NameTicks ==
  ASSUME NEW b, BucketOK(b), NEW key, NEW p \in Nat,
         NEW r \in Stretch, Grows(r), NameKeyOK(b, key, r, p)
  PROVE  NameKeyOK(Ticked(b), key, Shifted(r), p)
<1> DEFINE s == Shifted(r)
<1>1. s \in Stretch /\ Grows(s) /\ (\A n \in 0..WINDOW : s[n] <= r[n]) /\ s[0] = 0
  BY ShiftGrows, RateAssumption DEF Shifted
<1>2. WINDOW \in 0..WINDOW /\ 0 \in 0..WINDOW /\ WINDOW \in Nat
  BY RateAssumption
<1>3. r[WINDOW] \in Nat /\ s[WINDOW] \in Nat /\ s[WINDOW] <= r[WINDOW]
  BY <1>1, <1>2 DEF Stretch
<1>4. CASE Counting(Ticked(b), key)
  <2> DEFINE cnt == b[key].value.count
             left == b[key].value.left
             n == WINDOW - left
  <2>1. /\ Counting(b, key) /\ left > 0
        /\ Ticked(b)[key].value.count = cnt /\ Ticked(b)[key].value.left = left - 1
    BY <1>4, TickSlots
  <2>2. cnt \in Nat /\ left \in 0..WINDOW
    BY <2>1, SlotType
  <2>3. r[n] <= cnt + p /\ cnt + p <= MOST /\ r[WINDOW] <= MOST + cnt + p
    BY <2>1 DEF NameKeyOK
  <2> HIDE DEF cnt, left
  <2>4. n \in 0..WINDOW /\ WINDOW - (left - 1) \in 0..WINDOW /\ WINDOW - (left - 1) # 0
        /\ WINDOW - (left - 1) - 1 = n
    BY <1>2, <2>1, <2>2
  <2>5. s[WINDOW - (left - 1)] = r[n]
    BY <2>4 DEF Shifted
  <2> HIDE DEF n, s
  <2>6. s[WINDOW] <= MOST + cnt + p
    BY <1>3, <2>2, <2>3, MostType
  <2> QED
    BY <1>4, <2>1, <2>3, <2>5, <2>6 DEF NameKeyOK, s
<1>5. CASE ~Counting(Ticked(b), key)
  <2>1. r[WINDOW] <= MOST + p
    <3>1. CASE Counting(b, key)
      <4>1. b[key].value.left = 0
        BY <1>5, <3>1, TickSlots
      <4>2. b[key].value.count \in Nat
        BY <3>1, SlotType
      <4>3. r[WINDOW - 0] <= b[key].value.count + p /\ b[key].value.count + p <= MOST
        BY <3>1, <4>1 DEF NameKeyOK
      <4> QED
        BY <1>2, <1>3, <4>2, <4>3, MostType
    <3>2. CASE ~Counting(b, key)
      BY <3>2 DEF NameKeyOK
    <3> QED
      BY <3>1, <3>2
  <2>2. s[WINDOW] <= MOST + p
    BY <1>3, <2>1, MostType
  <2> QED
    BY <1>1, <1>5, <2>2 DEF NameKeyOK
<1> QED
  BY <1>4, <1>5

(* The guesses of a name, as sign-ins come and go.                         *)
LEMMA PendType ==
  ASSUME NEW g, NEW key
  PROVE  /\ IsFiniteSet({s \in Guards : key \in g[s]})
         /\ Pend(g, key) \in Nat /\ Pend(g, key) <= Cardinality(Guards)
<1> DEFINE S == {s \in Guards : key \in g[s]}
<1>1. IsFiniteSet(Guards) /\ S \in SUBSET Guards
  BY RateAssumption
<1> HIDE DEF S
<1>2. IsFiniteSet(S) /\ Cardinality(S) <= Cardinality(Guards)
  BY <1>1, FS_Subset
<1>3. Cardinality(S) \in Nat
  BY <1>2, FS_CardinalityType
<1> QED
  BY <1>2, <1>3 DEF Pend, S

(* A guard that keeps its interest in a name changes nothing for it.       *)
LEMMA PendOther ==
  ASSUME NEW g \in [Guards -> SUBSET Keys], NEW s \in Guards, NEW keys \in SUBSET Keys,
         NEW key, key \in g[s] <=> key \in keys
  PROVE  Pend([g EXCEPT ![s] = keys], key) = Pend(g, key)
<1>1. {t \in Guards : key \in [g EXCEPT ![s] = keys][t]} = {t \in Guards : key \in g[t]}
  OBVIOUS
<1> QED
  BY <1>1 DEF Pend

(* One guess more.                                                         *)
LEMMA PendMore ==
  ASSUME NEW g \in [Guards -> SUBSET Keys], NEW s \in Guards, NEW keys \in SUBSET Keys,
         NEW key, key \notin g[s], key \in keys
  PROVE  /\ Pend([g EXCEPT ![s] = keys], key) = Pend(g, key) + 1
         /\ Pend(g, key) < Cardinality(Guards)
<1> DEFINE S == {t \in Guards : key \in g[t]}
           n == [g EXCEPT ![s] = keys]
<1>1. {t \in Guards : key \in n[t]} = S \cup {s}
  OBVIOUS
<1>2. s \notin S /\ IsFiniteSet(S) /\ Cardinality(S) \in Nat
  BY PendType DEF Pend
<1>3. Pend(g, key) = Cardinality(S) /\ Pend(n, key) = Cardinality(S \cup {s})
  BY <1>1 DEF Pend
<1>4. Pend(n, key) <= Cardinality(Guards)
  BY PendType
<1> HIDE DEF S, n
<1>5. Cardinality(S \cup {s}) = Cardinality(S) + 1
  BY <1>2, FS_AddElement
<1>6. Cardinality(Guards) \in Nat
  BY MostType
<1> QED
  BY <1>2, <1>3, <1>4, <1>5, <1>6 DEF n

(* One guess less.                                                         *)
LEMMA PendLess ==
  ASSUME NEW g \in [Guards -> SUBSET Keys], NEW s \in Guards,
         NEW key, key \in g[s]
  PROVE  /\ Pend(g, key) = Pend([g EXCEPT ![s] = {}], key) + 1
         /\ Pend([g EXCEPT ![s] = {}], key) \in Nat
         /\ Pend([g EXCEPT ![s] = {}], key) + 1 <= Cardinality(Guards)
<1> DEFINE n == [g EXCEPT ![s] = {}]
<1>1. n \in [Guards -> SUBSET Keys] /\ key \notin n[s] /\ g[s] \in SUBSET Keys
  OBVIOUS
<1>2. [n EXCEPT ![s] = g[s]] = g
  OBVIOUS
<1>3. Pend(n, key) \in Nat
  BY PendType
<1>4. Pend([n EXCEPT ![s] = g[s]], key) = Pend(n, key) + 1
  <2> HIDE DEF n
  <2> QED
    BY <1>1, PendMore
<1>5. Pend(g, key) <= Cardinality(Guards)
  BY PendType
<1> HIDE DEF n
<1> QED
  BY <1>2, <1>3, <1>4, <1>5 DEF n

(* What the checks of a request do to each key.                            *)
LEMMA CheckAllSlots ==
  ASSUME NEW b, BucketOK(b), NEW r \in Routes,
         NEW to, to = CheckAll(b, r.checks)
  PROVE  /\ BucketOK(to.b) /\ to.passed \subseteq Keys
         /\ \A k \in Keys : After(b, to, k)
         /\ \A k \in to.passed : \E c \in Limits : c[1] = k /\ Count(b, k) < c[2]
<1> DEFINE none == [ok |-> TRUE, b |-> b, passed |-> {}]
           one == RateCheck(none, r.checks[1])
<1>1. none = [ok |-> none.ok, b |-> none.b, passed |-> none.passed] /\ none.b = b /\ none.passed = {}
  OBVIOUS
<1>2. \A k \in Keys : After(b, none, k)
  BY <1>1 DEF After, SameCount
<1>3. r.checks \in Seq(Keys \X (Nat \ {0})) /\ Len(r.checks) \in {0, 1, 2}
  <2>1. r \in RouteType
    BY RateAssumption
  <2>2. r.checks \in Seq(Keys \X (Nat \ {0}))
    BY <2>1 DEF RouteType
  <2>3. Len(r.checks) \in Nat
    BY <2>2
  <2>4. Len(r.checks) <= 2
    BY RateAssumption
  <2>5. Len(r.checks) \in {0, 1, 2}
    <3> DEFINE len == Len(r.checks)
    <3> HIDE DEF len
    <3>1. len \in Nat /\ len <= 2 => len \in {0, 1, 2}
      OBVIOUS
    <3> QED
      BY <2>3, <2>4, <3>1 DEF len
  <2> QED
    BY <2>2, <2>5
<1>4. \A i \in DOMAIN r.checks : r.checks[i] \in Keys \X (Nat \ {0}) /\ r.checks[i] \in Limits
  BY <1>3 DEF Limits
<1> HIDE DEF none
<1>5. CASE Len(r.checks) = 0
  <2>1. to = none
    BY <1>5 DEF CheckAll, none
  <2> QED
    BY <1>1, <1>2, <2>1
<1>6. ASSUME Len(r.checks) # 0
      PROVE  /\ one = [ok |-> one.ok, b |-> one.b, passed |-> one.passed]
             /\ BucketOK(one.b) /\ one.passed \subseteq {r.checks[1][1]}
             /\ r.checks[1][1] \in one.passed => Count(b, r.checks[1][1]) < r.checks[1][2]
             /\ \A k \in Keys : After(b, one, k)
             /\ r.checks[1] \in Keys \X (Nat \ {0}) /\ r.checks[1] \in Limits
  <2>1. r.checks[1] \in Keys \X (Nat \ {0}) /\ r.checks[1] \in Limits
    BY <1>3, <1>4, <1>6
  <2> DEFINE check == r.checks[1]
  <2> HIDE DEF one, check
  <2>2. one = RateCheck(none, check)
    BY DEF one, check
  <2>3. check \in Keys \X (Nat \ {0}) /\ check[1] \notin none.passed /\ none.passed \subseteq Keys
        /\ BucketOK(none.b)
    BY <1>1, <2>1 DEF check
  <2>4. /\ one = [ok |-> one.ok, b |-> one.b, passed |-> one.passed]
        /\ BucketOK(one.b) /\ one.passed \in {none.passed, none.passed \cup {check[1]}}
        /\ check[1] \in one.passed => Count(b, check[1]) < check[2]
        /\ \A k \in Keys : After(b, one, k)
    BY <1>1, <1>2, <2>2, <2>3, CheckSlots
  <2>5. one.passed \subseteq {check[1]}
    BY <1>1, <2>4
  <2> QED
    BY <2>1, <2>4, <2>5 DEF check
<1>7. CASE Len(r.checks) = 1
  <2>1. to = one
    BY <1>7 DEF CheckAll, none
  <2>2. r.checks[1][1] \in Keys
    BY <1>6, <1>7
  <2> HIDE DEF one
  <2> QED
    BY <1>6, <1>7, <2>1, <2>2
<1>8. CASE Len(r.checks) = 2
  <2> DEFINE check == r.checks[2]
  <2>1. check \in Keys \X (Nat \ {0}) /\ check \in Limits
    BY <1>3, <1>4, <1>8
  <2>2. r.checks[1] # r.checks[2]
    BY <1>8, RateAssumption
  <2>3. check[1] # r.checks[1][1]
    BY <1>6, <1>8, <2>1, <2>2, RateAssumption
  <2>4. to = RateCheck(one, check)
    BY <1>8 DEF CheckAll, none
  <2> HIDE DEF one, check
  <2>5. check[1] \notin one.passed /\ one.passed \subseteq Keys
    BY <1>6, <1>8, <2>3
  <2>6. /\ BucketOK(to.b) /\ to.passed \in {one.passed, one.passed \cup {check[1]}}
        /\ check[1] \in to.passed => Count(b, check[1]) < check[2]
        /\ \A k \in Keys : After(b, to, k)
    BY <1>6, <1>8, <2>1, <2>4, <2>5, CheckSlots
  <2>7. check[1] \in Keys
    BY <2>1
  <2> QED
    BY <1>6, <1>8, <2>1, <2>5, <2>6, <2>7
<1> QED
  BY <1>3, <1>5, <1>7, <1>8

(* Attempts noted.                                                         *)
LEMMA NoteShape ==
  ASSUME RateInv, NEW keys
  PROVE  /\ Note(keys) \in [Keys -> Stretch]
         /\ \A k \in Keys : Grows(Note(keys)[k])
         /\ \A k \in Keys : k \in keys \ evicted =>
              \A n \in 0..WINDOW : Note(keys)[k][n] = recent[k][n] + 1
         /\ \A k \in Keys : k \notin keys \ evicted => Note(keys)[k] = recent[k]
<1>1. recent \in [Keys -> [0..WINDOW -> Nat]] /\ \A k \in Keys : Grows(recent[k])
  BY DEF RateInv
<1>2. \A k \in Keys : k \in keys \ evicted =>
        \A n \in 0..WINDOW : Note(keys)[k][n] = recent[k][n] + 1
  BY DEF Note
<1>3. ASSUME NEW k \in Keys, k \notin keys \ evicted
      PROVE  Note(keys)[k] = recent[k]
  <2>1. Note(keys)[k] = [n \in 0..WINDOW |-> recent[k][n]]
    BY <1>3 DEF Note
  <2> QED
    BY <1>1, <2>1
<1>4. ASSUME NEW k \in Keys, k \in keys \ evicted
      PROVE  Note(keys)[k] \in Stretch /\ Grows(Note(keys)[k])
  <2>1. \A n \in 0..WINDOW : recent[k][n] \in Nat
    BY <1>1
  <2>2. Note(keys)[k] = [n \in 0..WINDOW |-> recent[k][n] + 1]
    BY <1>4 DEF Note
  <2>3. Note(keys)[k] \in Stretch
    BY <2>1, <2>2 DEF Stretch
  <2>4. ASSUME NEW m \in 0..WINDOW, NEW n \in 0..WINDOW, m <= n
        PROVE  Note(keys)[k][m] <= Note(keys)[k][n]
    <3>1. recent[k][m] <= recent[k][n]
      BY <1>1, <2>4 DEF Grows
    <3> QED
      BY <2>1, <2>2, <3>1
  <2> QED
    BY <2>3, <2>4 DEF Grows
<1>5. \A k \in Keys : Note(keys)[k] \in Stretch /\ Grows(Note(keys)[k])
  BY <1>1, <1>3, <1>4 DEF Stretch
<1>6. Note(keys) \in [Keys -> Stretch]
  <2>1. Note(keys) = [k \in Keys |-> Note(keys)[k]]
    BY DEF Note
  <2> QED
    BY <1>5, <2>1
<1> QED
  BY <1>2, <1>3, <1>5, <1>6

(* Attempts forgotten.                                                     *)
LEMMA ForgetShape ==
  ASSUME RateInv, NEW keys
  PROVE  /\ Forget(keys) \in [Keys -> Stretch]
         /\ \A k \in Keys : Grows(Forget(keys)[k])
         /\ \A k \in Keys : k \in keys => \A n \in 0..WINDOW : Forget(keys)[k][n] = 0
         /\ \A k \in Keys : k \notin keys => Forget(keys)[k] = recent[k]
<1>1. recent \in [Keys -> [0..WINDOW -> Nat]] /\ \A k \in Keys : Grows(recent[k])
  BY DEF RateInv
<1>2. \A k \in Keys : k \in keys => \A n \in 0..WINDOW : Forget(keys)[k][n] = 0
  BY DEF Forget
<1>3. \A k \in Keys : k \notin keys => Forget(keys)[k] = recent[k]
  BY DEF Forget
<1>4. Forget(keys) \in [Keys -> Stretch]
  BY <1>1 DEF Forget, Stretch
<1>5. ASSUME NEW k \in Keys
      PROVE  Grows(Forget(keys)[k])
  BY <1>1, <1>2, <1>3 DEF Grows
<1> QED
  BY <1>2, <1>3, <1>4, <1>5

(* Keys of limits and of names.                                            *)
LEMMA LimitsType == \A c \in Limits : c[1] \in Keys /\ c[2] \in Nat \ {0}
<1> SUFFICES ASSUME NEW c \in Limits PROVE c[1] \in Keys /\ c[2] \in Nat \ {0}
  OBVIOUS
<1>1. PICK r \in Routes : \E i \in DOMAIN r.checks : c = r.checks[i]
  BY DEF Limits
<1>2. r \in RouteType
  BY RateAssumption
<1>3. r.checks \in Seq(Keys \X (Nat \ {0}))
  BY <1>2 DEF RouteType
<1>4. c \in Keys \X (Nat \ {0})
  BY <1>1, <1>3
<1> QED
  BY <1>4

(* Sign-ins count on keys of their own.                                    *)
LEMMA LoginsType ==
  /\ \A l \in Logins : l.ip \in Keys /\ l.name \in Keys
  /\ \A l, k \in Logins : l.ip # k.name /\ \A c \in Limits : c[1] # l.ip /\ c[1] # k.name
<1>1. ASSUME NEW l \in Logins
      PROVE  l.ip \in Keys /\ l.name \in Keys
  <2>1. l \in [ip: Keys, name: Keys]
    BY RateAssumption
  <2> QED
    BY <2>1
<1>2. ASSUME NEW l \in Logins, NEW k \in Logins
      PROVE  l.ip # k.name /\ \A c \in Limits : c[1] # l.ip /\ c[1] # k.name
  BY RateAssumption
<1> QED
  BY <1>1, <1>2

(* A route that checks its limits.                                         *)
LEMMA CheckKeeps ==
  ASSUME RateInv, NEW r \in Routes, NEW passed, Check(r, passed)
  PROVE  RateInv'
<1> DEFINE to == CheckAll(bucket, r.checks)
<1>1. bucket' = to.b /\ recent' = Note(to.passed) /\ guess' = guess /\ evicted' = evicted
  BY DEF Check
<1> HIDE DEF to
<1>2. BucketOK(bucket) /\ to = CheckAll(bucket, r.checks)
  BY DEF RateInv, to
<1>3. /\ BucketOK(to.b) /\ to.passed \subseteq Keys
      /\ \A k \in Keys : After(bucket, to, k)
      /\ \A k \in to.passed : \E c \in Limits : c[1] = k /\ Count(bucket, k) < c[2]
  BY <1>2, CheckAllSlots
<1>4. /\ recent' \in [Keys -> Stretch] /\ \A k \in Keys : Grows(recent'[k])
      /\ \A k \in Keys : k \in to.passed \ evicted =>
           \A n \in 0..WINDOW : recent'[k][n] = recent[k][n] + 1
      /\ \A k \in Keys : k \notin to.passed \ evicted => recent'[k] = recent[k]
  BY <1>1, NoteShape
<1>5. ASSUME NEW c \in Limits, c[1] \notin evicted
      PROVE  RouteKeyOK(c[2], bucket', c[1], recent'[c[1]])
  <2>1. c[1] \in Keys /\ c[2] \in Nat \ {0}
    BY LimitsType
  <2>2. RouteKeyOK(c[2], bucket, c[1], recent[c[1]])
    BY <1>5 DEF RateInv
  <2>3. CASE c[1] \in to.passed
    <3>1. Bumped(bucket, to.b, c[1])
      BY <1>3, <2>1, <2>3 DEF After
    <3>2. PICK d \in Limits : d[1] = c[1] /\ Count(bucket, c[1]) < d[2]
      BY <1>3, <2>3
    <3>3. d = c
      BY <3>2, RateAssumption
    <3>4. recent[c[1]] \in Stretch /\ recent'[c[1]] \in Stretch
      BY <1>4, <2>1 DEF RateInv, Stretch
    <3>5. \A n \in 0..WINDOW : recent'[c[1]][n] = recent[c[1]][n] + 1
      BY <1>4, <1>5, <2>1, <2>3
    <3>6. Count(bucket, c[1]) < c[2]
      BY <3>2, <3>3
    <3> QED
      BY <1>1, <1>2, <2>1, <2>2, <3>1, <3>4, <3>5, <3>6, RouteCounts
  <2>4. CASE c[1] \notin to.passed
    <3>1. SameCount(bucket, to.b, c[1]) /\ recent'[c[1]] = recent[c[1]]
      BY <1>3, <1>4, <2>1, <2>4 DEF After
    <3> QED
      BY <1>1, <2>2, <3>1, SameRoute
  <2> QED
    BY <2>3, <2>4
<1>6. ASSUME NEW l \in Logins, l.name \notin evicted
      PROVE  NameKeyOK(bucket', l.name, recent'[l.name], Pend(guess', l.name))
  <2>1. l.name \in Keys /\ l.name \notin to.passed
    BY <1>3, LoginsType
  <2>2. SameCount(bucket, to.b, l.name) /\ recent'[l.name] = recent[l.name]
    BY <1>3, <1>4, <2>1 DEF After
  <2>3. NameKeyOK(bucket, l.name, recent[l.name], Pend(guess, l.name))
    BY <1>6 DEF RateInv
  <2> QED
    BY <1>1, <2>2, <2>3, SameName
<1>7. guess \in [Guards -> SUBSET Keys] /\ evicted \subseteq Keys
  BY DEF RateInv
<1> QED
  BY <1>1, <1>3, <1>4, <1>5, <1>6, <1>7 DEF RateInv, Stretch

(* Keys forgotten: their slots go, they are thrown out no more, and what   *)
(* was let through of them is forgotten too.                               *)
LEMMA ForgetKeeps ==
  ASSUME RateInv, NEW keys,
         BucketOK(bucket'), \A k \in Keys \ keys : SameCount(bucket, bucket', k),
         \A k \in keys : ~Counting(bucket', k),
         recent' = Forget(keys), guess' \in [Guards -> SUBSET Keys],
         \A k \in Keys \ keys : Pend(guess', k) = Pend(guess, k),
         evicted' \subseteq Keys, \A k \in Keys \ keys : k \notin evicted' => k \notin evicted
  PROVE  RateInv'
<1>1. /\ recent' \in [Keys -> Stretch] /\ \A k \in Keys : Grows(recent'[k])
      /\ \A k \in Keys : k \in keys => \A n \in 0..WINDOW : recent'[k][n] = 0
      /\ \A k \in Keys : k \notin keys => recent'[k] = recent[k]
  BY ForgetShape
<1>2. ASSUME NEW c \in Limits, c[1] \notin evicted'
      PROVE  RouteKeyOK(c[2], bucket', c[1], recent'[c[1]])
  <2>1. c[1] \in Keys /\ c[2] \in Nat
    BY LimitsType
  <2>2. CASE c[1] \in keys
    BY <1>1, <2>1, <2>2, Anew
  <2>3. CASE c[1] \notin keys
    <3>1. RouteKeyOK(c[2], bucket, c[1], recent[c[1]])
      BY <1>2, <2>1, <2>3 DEF RateInv
    <3>2. SameCount(bucket, bucket', c[1]) /\ recent'[c[1]] = recent[c[1]]
      BY <1>1, <2>1, <2>3
    <3> QED
      BY <3>1, <3>2, SameRoute
  <2> QED
    BY <2>2, <2>3
<1>3. ASSUME NEW l \in Logins, l.name \notin evicted'
      PROVE  NameKeyOK(bucket', l.name, recent'[l.name], Pend(guess', l.name))
  <2>1. l.name \in Keys /\ Pend(guess', l.name) \in Nat
    BY LoginsType, PendType
  <2>2. CASE l.name \in keys
    BY <1>1, <2>1, <2>2, Anew
  <2>3. CASE l.name \notin keys
    <3>1. NameKeyOK(bucket, l.name, recent[l.name], Pend(guess, l.name))
      BY <1>3, <2>1, <2>3 DEF RateInv
    <3>2. /\ SameCount(bucket, bucket', l.name) /\ recent'[l.name] = recent[l.name]
          /\ Pend(guess', l.name) = Pend(guess, l.name)
      BY <1>1, <2>1, <2>3
    <3> QED
      BY <3>1, <3>2, SameName
  <2> QED
    BY <2>2, <2>3
<1> QED
  BY <1>1, <1>2, <1>3 DEF RateInv, Stretch

(* A right code clears the limits of its route.                            *)
LEMMA ClearKeeps ==
  ASSUME RateInv, NEW r \in Routes, CheckAndClear(r)
  PROVE  RateInv'
<1> DEFINE keys == {r.checks[i][1] : i \in DOMAIN r.checks}
<1>1. /\ bucket' = MapDelete(bucket, keys) /\ recent' = Forget(keys)
      /\ evicted' = evicted \ keys /\ guess' = guess
  BY DEF CheckAndClear
<1> HIDE DEF keys
<1>2. /\ BucketOK(bucket) /\ evicted \subseteq Keys
      /\ guess' \in [Guards -> SUBSET Keys]
  BY <1>1 DEF RateInv
<1>3. /\ BucketOK(bucket') /\ \A k \in Keys \ keys : SameCount(bucket, bucket', k)
      /\ \A k \in keys : ~Counting(bucket', k)
  BY <1>1, <1>2, DeleteSlots
<1>4. /\ \A k \in Keys \ keys : Pend(guess', k) = Pend(guess, k)
      /\ evicted' \subseteq Keys /\ \A k \in Keys \ keys : k \notin evicted' => k \notin evicted
  BY <1>1, <1>2
<1> QED
  BY <1>1, <1>2, <1>3, <1>4, ForgetKeeps

(* A right password clears both keys of the sign-in.                       *)
LEMMA WorksKeeps ==
  ASSUME RateInv, NEW s \in Guards, NEW l \in Logins, LoginWorks(s, l)
  PROVE  RateInv'
<1> DEFINE keys == {l.ip, l.name}
<1>1. /\ bucket' = MapDelete(bucket, keys) /\ recent' = Forget(keys)
      /\ evicted' = evicted \ keys /\ guess' = [guess EXCEPT ![s] = {}] /\ guess[s] = keys
  BY DEF LoginWorks
<1> HIDE DEF keys
<1>2. /\ BucketOK(bucket) /\ evicted \subseteq Keys /\ guess \in [Guards -> SUBSET Keys]
      /\ guess' \in [Guards -> SUBSET Keys]
  BY <1>1 DEF RateInv
<1>3. /\ BucketOK(bucket') /\ \A k \in Keys \ keys : SameCount(bucket, bucket', k)
      /\ \A k \in keys : ~Counting(bucket', k)
  BY <1>1, <1>2, DeleteSlots
<1>4. \A k \in Keys \ keys : Pend(guess', k) = Pend(guess, k)
  <2> SUFFICES ASSUME NEW k \in Keys \ keys PROVE Pend(guess', k) = Pend(guess, k)
    OBVIOUS
  <2>1. (k \in guess[s] <=> k \in {}) /\ {} \in SUBSET Keys
    BY <1>1
  <2>2. Pend([guess EXCEPT ![s] = {}], k) = Pend(guess, k)
    BY <1>2, <2>1, PendOther
  <2> QED
    BY <1>1, <2>2
<1>5. evicted' \subseteq Keys /\ \A k \in Keys \ keys : k \notin evicted' => k \notin evicted
  BY <1>1, <1>2
<1> QED
  BY <1>1, <1>2, <1>3, <1>4, <1>5, ForgetKeeps

(* The sweep: windows that are over go unseen, and keys beyond the cap are *)
(* thrown out.                                                             *)
LEMMA SweepKeeps ==
  ASSUME RateInv, Sweep
  PROVE  RateInv'
<1> DEFINE over == {k \in DOMAIN bucket : ~Counting(bucket, k)}
           live == MapDelete(bucket, over)
           out == MapFirst(live, MapSize(live) - MAX_BUCKETS)
<1>1. /\ bucket' = MapDelete(live, out) /\ evicted' = evicted \cup out
      /\ recent' = Forget(out) /\ guess' = guess
  BY DEF Sweep
<1>2. BucketOK(bucket) /\ evicted \subseteq Keys /\ guess \in [Guards -> SUBSET Keys]
  BY DEF RateInv
<1>3. out \subseteq DOMAIN live
  BY DEF MapFirst
<1> HIDE DEF out
<1>4. /\ BucketOK(live) /\ \A k \in Keys \ over : SameCount(bucket, live, k)
      /\ \A k \in over : ~Counting(live, k)
  <2> HIDE DEF over
  <2> QED
    BY <1>2, DeleteSlots
<1>5. \A k \in Keys : SameCount(bucket, live, k)
  <2>1. \A k \in over : ~Counting(bucket, k)
    OBVIOUS
  <2> HIDE DEF over, live
  <2> QED
    BY <1>4, <2>1 DEF SameCount
<1> HIDE DEF live, over
<1>6. /\ BucketOK(bucket') /\ \A k \in Keys \ out : SameCount(live, bucket', k)
      /\ \A k \in out : ~Counting(bucket', k)
  BY <1>1, <1>4, DeleteSlots
<1>7. \A k \in Keys \ out : SameCount(bucket, bucket', k)
  BY <1>5, <1>6, SameCounts
<1>8. out \subseteq Keys
  BY <1>3, <1>4 DEF BucketOK
<1>9. evicted' \subseteq Keys /\ \A k \in Keys \ out : k \notin evicted' => k \notin evicted
  BY <1>1, <1>2, <1>8
<1> QED
  BY <1>1, <1>2, <1>6, <1>7, <1>9, ForgetKeeps

(* Sign-in looks: the counts stay, and a guess more is in flight if both   *)
(* counts are below their limits.                                          *)
LEMMA LookKeeps ==
  ASSUME RateInv, NEW s \in Guards, NEW l \in Logins, LoginLook(s, l)
  PROVE  RateInv'
<1> DEFINE keys == {l.ip, l.name}
           seen == Looked(bucket, l.ip)
<1>1. bucket' = Looked(seen, l.name) /\ evicted' = evicted /\ guess[s] = {}
  BY DEF LoginLook
<1>2. BucketOK(bucket) /\ evicted \subseteq Keys /\ guess \in [Guards -> SUBSET Keys]
      /\ recent \in [Keys -> Stretch] /\ \A k \in Keys : Grows(recent[k])
  BY DEF RateInv, Stretch
<1>3. BucketOK(seen) /\ \A k \in Keys : SameCount(bucket, seen, k)
  BY <1>2, LookedSlots
<1> HIDE DEF seen
<1>4. BucketOK(bucket') /\ \A k \in Keys : SameCount(seen, bucket', k)
  BY <1>1, <1>3, LookedSlots
<1>5. \A k \in Keys : SameCount(bucket, bucket', k)
  BY <1>3, <1>4, SameCounts
<1>6. l.ip \in Keys /\ l.name \in Keys /\ keys \in SUBSET Keys
  BY LoginsType
<1>7. CASE guess' = guess /\ recent' = recent
  <2>1. \A c \in Limits : c[1] \notin evicted => RouteKeyOK(c[2], bucket', c[1], recent[c[1]])
    BY <1>5, LimitsType, SameRoute DEF RateInv
  <2>2. \A k \in Logins : k.name \notin evicted =>
          NameKeyOK(bucket', k.name, recent[k.name], Pend(guess, k.name))
    BY <1>5, LoginsType, SameName DEF RateInv
  <2> QED
    BY <1>1, <1>2, <1>4, <1>7, <2>1, <2>2 DEF RateInv, Stretch
<1>8. CASE /\ Count(bucket, l.name) < LIMIT_NAME
           /\ guess' = [guess EXCEPT ![s] = keys] /\ recent' = Note(keys)
  <2>1. /\ recent' \in [Keys -> Stretch] /\ \A k \in Keys : Grows(recent'[k])
        /\ \A k \in Keys : k \in keys \ evicted =>
             \A n \in 0..WINDOW : recent'[k][n] = recent[k][n] + 1
        /\ \A k \in Keys : k \notin keys \ evicted => recent'[k] = recent[k]
    BY <1>8, NoteShape
  <2>2. guess' \in [Guards -> SUBSET Keys]
    BY <1>2, <1>6, <1>8
  <2>3. ASSUME NEW c \in Limits, c[1] \notin evicted
        PROVE  RouteKeyOK(c[2], bucket', c[1], recent'[c[1]])
    <3>1. c[1] \in Keys /\ c[1] \notin keys
      BY LimitsType, LoginsType
    <3>2. RouteKeyOK(c[2], bucket, c[1], recent[c[1]]) /\ recent'[c[1]] = recent[c[1]]
      BY <2>1, <2>3, <3>1 DEF RateInv
    <3> QED
      BY <1>5, <3>1, <3>2, SameRoute
  <2>4. ASSUME NEW k \in Logins, k.name \notin evicted
        PROVE  NameKeyOK(bucket', k.name, recent'[k.name], Pend(guess', k.name))
    <3>1. k.name \in Keys /\ k.name # l.ip
      BY LoginsType
    <3>2. NameKeyOK(bucket, k.name, recent[k.name], Pend(guess, k.name))
      BY <2>4 DEF RateInv
    <3>3. CASE k.name = l.name
      <4>1. k.name \notin guess[s] /\ k.name \in keys
        BY <1>1, <3>3
      <4>2. /\ Pend([guess EXCEPT ![s] = keys], k.name) = Pend(guess, k.name) + 1
            /\ Pend(guess, k.name) < Cardinality(Guards)
        <5> HIDE DEF keys
        <5> QED
          BY <1>2, <1>6, <4>1, PendMore
      <4>3. Pend(guess, k.name) \in Nat
        BY PendType
      <4>4. recent[k.name] \in Stretch /\ recent'[k.name] \in Stretch
        BY <1>2, <2>1, <3>1
      <4>5. \A n \in 0..WINDOW : recent'[k.name][n] = recent[k.name][n] + 1
        BY <2>1, <2>4, <3>1, <4>1
      <4>6. NameKeyOK(bucket, k.name, recent'[k.name], Pend(guess, k.name) + 1)
        BY <1>2, <1>8, <3>2, <3>3, <4>2, <4>3, <4>4, <4>5, NameLooks
      <4> QED
        BY <1>5, <1>8, <3>1, <4>2, <4>6, SameName
    <3>4. CASE k.name # l.name
      <4>1. k.name \in guess[s] <=> k.name \in keys
        BY <1>1, <3>1, <3>4
      <4>2. Pend([guess EXCEPT ![s] = keys], k.name) = Pend(guess, k.name)
        <5> HIDE DEF keys
        <5> QED
          BY <1>2, <1>6, <4>1, PendOther
      <4>3. recent'[k.name] = recent[k.name]
        BY <2>1, <3>1, <3>4
      <4> QED
        BY <1>5, <1>8, <3>1, <3>2, <4>2, <4>3, SameName
    <3> QED
      BY <3>3, <3>4
  <2> QED
    BY <1>1, <1>2, <1>4, <2>1, <2>2, <2>3, <2>4 DEF RateInv, Stretch
<1> QED
  BY <1>7, <1>8 DEF LoginLook

(* A wrong password is counted on both keys, and its guess is over.        *)
LEMMA FailsKeeps ==
  ASSUME RateInv, NEW s \in Guards, NEW l \in Logins, LoginFails(s, l)
  PROVE  RateInv'
<1> DEFINE one == Record(bucket, l.ip)
<1>1. /\ bucket' = Record(one, l.name) /\ evicted' = evicted /\ recent' = recent
      /\ guess[s] = {l.ip, l.name} /\ guess' = [guess EXCEPT ![s] = {}]
  BY DEF LoginFails
<1>2. BucketOK(bucket) /\ evicted \subseteq Keys /\ guess \in [Guards -> SUBSET Keys]
      /\ recent \in [Keys -> Stretch] /\ \A k \in Keys : Grows(recent[k])
  BY DEF RateInv, Stretch
<1>3. l.ip \in Keys /\ l.name \in Keys /\ l.ip # l.name
  BY LoginsType
<1>4. BucketOK(one) /\ \A k \in Keys \ {l.ip} : SameCount(bucket, one, k)
  BY <1>2, <1>3, RecordSlots
<1> HIDE DEF one
<1>5. /\ BucketOK(bucket') /\ Bumped(one, bucket', l.name)
      /\ \A k \in Keys \ {l.name} : SameCount(one, bucket', k)
  BY <1>1, <1>3, <1>4, RecordSlots
<1>6. \A k \in Keys \ {l.ip, l.name} : SameCount(bucket, bucket', k)
  BY <1>4, <1>5, SameCounts
<1>7. Bumped(bucket, bucket', l.name)
  BY <1>3, <1>4, <1>5, SameCounts
<1>8. guess' \in [Guards -> SUBSET Keys]
  BY <1>1, <1>2
<1>9. ASSUME NEW c \in Limits, c[1] \notin evicted
      PROVE  RouteKeyOK(c[2], bucket', c[1], recent[c[1]])
  <2>1. c[1] \in Keys \ {l.ip, l.name}
    BY LimitsType, LoginsType
  <2>2. RouteKeyOK(c[2], bucket, c[1], recent[c[1]])
    BY <1>9 DEF RateInv
  <2> QED
    BY <1>6, <2>1, <2>2, SameRoute
<1>10. ASSUME NEW k \in Logins, k.name \notin evicted
       PROVE  NameKeyOK(bucket', k.name, recent[k.name], Pend(guess', k.name))
  <2>1. k.name \in Keys /\ k.name # l.ip
    BY LoginsType
  <2>2. NameKeyOK(bucket, k.name, recent[k.name], Pend(guess, k.name))
    BY <1>10 DEF RateInv
  <2>3. CASE k.name = l.name
    <3>1. k.name \in guess[s]
      BY <1>1, <2>3
    <3>2. /\ Pend(guess, k.name) = Pend([guess EXCEPT ![s] = {}], k.name) + 1
          /\ Pend([guess EXCEPT ![s] = {}], k.name) \in Nat
          /\ Pend([guess EXCEPT ![s] = {}], k.name) + 1 <= Cardinality(Guards)
      BY <1>2, <3>1, PendLess
    <3>3. /\ Pend(guess, k.name) = Pend(guess', k.name) + 1
          /\ Pend(guess', k.name) \in Nat
          /\ Pend(guess', k.name) + 1 <= Cardinality(Guards)
      BY <1>1, <3>2
    <3>4. recent[k.name] \in Stretch
      BY <1>2, <2>1
    <3>5. Bumped(bucket, bucket', k.name)
      BY <1>7, <2>3
    <3>6. NameKeyOK(bucket, k.name, recent[k.name], Pend(guess', k.name) + 1)
      BY <2>2, <3>3
    <3> DEFINE p == Pend(guess', k.name)
               r == recent[k.name]
               c == bucket'
    <3> HIDE DEF p, r, c
    <3>7. NameKeyOK(c, k.name, r, p)
      BY <1>2, <3>3, <3>4, <3>5, <3>6, NameFails DEF p, r, c
    <3> QED
      BY <3>7 DEF p, r, c
  <2>4. CASE k.name # l.name
    <3>1. (k.name \in guess[s] <=> k.name \in {}) /\ {} \in SUBSET Keys
      BY <1>1, <2>1, <2>4
    <3>2. Pend([guess EXCEPT ![s] = {}], k.name) = Pend(guess, k.name)
      BY <1>2, <3>1, PendOther
    <3> QED
      BY <1>1, <1>6, <2>1, <2>2, <2>4, <3>2, SameName
  <2> QED
    BY <2>3, <2>4
<1> QED
  BY <1>1, <1>2, <1>5, <1>8, <1>9, <1>10 DEF RateInv, Stretch

(* A tick of the clock.                                                    *)
LEMMA TickKeeps ==
  ASSUME RateInv, Tick
  PROVE  RateInv'
<1>1. bucket' = Ticked(bucket) /\ guess' = guess /\ evicted' = evicted
  BY DEF Tick, Ticked
<1>2. recent' = [k \in Keys |-> Shifted(recent[k])]
  BY DEF Tick, Shifted
<1>3. BucketOK(bucket) /\ evicted \subseteq Keys /\ guess \in [Guards -> SUBSET Keys]
      /\ recent \in [Keys -> Stretch] /\ \A k \in Keys : Grows(recent[k])
  BY DEF RateInv, Stretch
<1>4. BucketOK(bucket')
  BY <1>1, <1>3, TickSlots
<1>5. \A k \in Keys : recent'[k] = Shifted(recent[k]) /\ recent[k] \in Stretch
  BY <1>2, <1>3
<1>6. \A k \in Keys : recent'[k] \in Stretch /\ Grows(recent'[k])
  BY <1>3, <1>5, ShiftGrows
<1>7. recent' \in [Keys -> Stretch]
  BY <1>2, <1>6
<1>8. ASSUME NEW c \in Limits, c[1] \notin evicted
      PROVE  RouteKeyOK(c[2], bucket', c[1], recent'[c[1]])
  <2>1. c[1] \in Keys /\ c[2] \in Nat \ {0}
    BY LimitsType
  <2>2. RouteKeyOK(c[2], bucket, c[1], recent[c[1]])
    BY <1>8 DEF RateInv
  <2>3. RouteKeyOK(c[2], Ticked(bucket), c[1], Shifted(recent[c[1]]))
    BY <1>3, <1>5, <2>1, <2>2, RouteTicks
  <2> QED
    BY <1>1, <1>5, <2>1, <2>3
<1>9. ASSUME NEW l \in Logins, l.name \notin evicted
      PROVE  NameKeyOK(bucket', l.name, recent'[l.name], Pend(guess, l.name))
  <2>1. l.name \in Keys /\ Pend(guess, l.name) \in Nat
    BY LoginsType, PendType
  <2>2. NameKeyOK(bucket, l.name, recent[l.name], Pend(guess, l.name))
    BY <1>9 DEF RateInv
  <2>3. NameKeyOK(Ticked(bucket), l.name, Shifted(recent[l.name]), Pend(guess, l.name))
    BY <1>3, <1>5, <2>1, <2>2, NameTicks
  <2> QED
    BY <1>1, <1>5, <2>1, <2>3
<1> QED
  BY <1>1, <1>3, <1>4, <1>6, <1>7, <1>8, <1>9 DEF RateInv, Stretch

(* A worker begins with nothing counted.                                   *)
LEMMA RateBegins == RateInit => RateInv
<1> SUFFICES ASSUME RateInit PROVE RateInv
  OBVIOUS
<1>1. DOMAIN bucket = {} /\ bucket = EmptyMap
  BY DEF RateInit, EmptyMap
<1>2. IsMap(bucket)
  <2>1. IsFiniteSet(DOMAIN bucket)
    BY <1>1, FS_EmptySet
  <2>2. bucket = [k \in DOMAIN bucket |-> [value |-> bucket[k].value, older |-> bucket[k].older]]
    BY <1>1 DEF EmptyMap
  <2> QED
    BY <1>1, <2>1, <2>2 DEF IsMap
<1>3. BucketOK(bucket)
  BY <1>1, <1>2 DEF BucketOK
<1>4. /\ guess \in [Guards -> SUBSET Keys] /\ evicted \subseteq Keys
      /\ recent \in [Keys -> [0..WINDOW -> Nat]]
      /\ \A k \in Keys : \A n \in 0..WINDOW : recent[k][n] = 0
  BY DEF RateInit
<1>5. \A k \in Keys : Grows(recent[k])
  BY <1>4 DEF Grows
<1>6. \A k \in Keys : ~Counting(bucket, k)
  BY <1>1 DEF Counting
<1>7. \A c \in Limits : RouteKeyOK(c[2], bucket, c[1], recent[c[1]])
  BY <1>4, <1>6, LimitsType, Anew
<1>8. \A l \in Logins : NameKeyOK(bucket, l.name, recent[l.name], Pend(guess, l.name))
  BY <1>4, <1>6, LoginsType, PendType, Anew
<1> QED
  BY <1>3, <1>4, <1>5, <1>7, <1>8 DEF RateInv

(* What the invariant says of the limits.                                  *)
LEMMA RateMeans == RateInv => RateTypeOK /\ RateHeld /\ GuessesBounded
<1> SUFFICES ASSUME RateInv PROVE RateTypeOK /\ RateHeld /\ GuessesBounded
  OBVIOUS
<1>1. RateTypeOK
  BY DEF RateInv, RateTypeOK, BucketOK
<1>2. BucketOK(bucket) /\ recent \in [Keys -> [0..WINDOW -> Nat]] /\ WINDOW \in 0..WINDOW
      /\ 0 \in 0..WINDOW
  BY RateAssumption DEF RateInv
<1>3. ASSUME NEW c \in Limits, c[1] \notin evicted
      PROVE  recent[c[1]][WINDOW] <= 2 * c[2]
  <2> DEFINE slot == bucket[c[1]].value
             r == recent[c[1]]
             n == WINDOW - slot.left
  <2>1. c[1] \in Keys /\ c[2] \in Nat
    BY LimitsType
  <2>2. RouteKeyOK(c[2], bucket, c[1], r)
    BY <1>3 DEF RateInv
  <2>3. r \in [0..WINDOW -> Nat]
    BY <1>2, <2>1
  <2>4. CASE Counting(bucket, c[1])
    <3>1. n \in 0..WINDOW /\ slot.count \in Nat
      BY <1>2, <2>4, SlotType
    <3>2. r[n] <= slot.count /\ slot.count <= c[2] /\ r[WINDOW] <= c[2] + r[n]
      BY <2>2, <2>4 DEF RouteKeyOK
    <3>3. r[n] \in Nat /\ r[WINDOW] \in Nat
      BY <1>2, <2>3, <3>1
    <3> HIDE DEF r, n, slot
    <3>4. r[WINDOW] <= 2 * c[2]
      BY <2>1, <3>1, <3>2, <3>3
    <3> QED
      BY <3>4 DEF r
  <2>5. CASE ~Counting(bucket, c[1])
    <3>1. r[WINDOW] <= c[2]
      BY <2>2, <2>5 DEF RouteKeyOK
    <3>2. r[WINDOW] \in Nat
      BY <1>2, <2>3
    <3> QED
      BY <2>1, <3>1, <3>2
  <2> QED
    BY <2>4, <2>5
<1>4. RateHeld
  BY <1>3 DEF RateHeld, Limits
<1>5. ASSUME NEW l \in Logins, l.name \notin evicted
      PROVE  recent[l.name][WINDOW] <= 2 * MOST
  <2> DEFINE slot == bucket[l.name].value
             r == recent[l.name]
             p == Pend(guess, l.name)
  <2>1. l.name \in Keys /\ p \in Nat /\ p <= Cardinality(Guards)
    BY LoginsType, PendType
  <2>2. NameKeyOK(bucket, l.name, r, p)
    BY <1>5 DEF RateInv
  <2>3. r[WINDOW] \in Nat
    BY <1>2, <2>1
  <2>4. CASE Counting(bucket, l.name)
    <3>1. slot.count \in Nat
      BY <1>2, <2>4, SlotType
    <3>2. slot.count + p <= MOST /\ r[WINDOW] <= MOST + slot.count + p
      BY <2>2, <2>4 DEF NameKeyOK
    <3> QED
      BY <2>1, <2>3, <3>1, <3>2, MostType
  <2>5. CASE ~Counting(bucket, l.name)
    <3>1. r[WINDOW] <= MOST + p
      BY <2>2, <2>5 DEF NameKeyOK
    <3> QED
      BY <2>1, <2>3, <3>1, MostType
  <2> QED
    BY <2>4, <2>5
<1>6. GuessesBounded
  BY <1>5 DEF GuessesBounded, MOST
<1> QED
  BY <1>1, <1>4, <1>6

----------------------------------------------------------------------------
(* The gateway: its requests and its cache                                 *)

CacheOK(c) ==
  /\ IsMap(c) /\ DOMAIN c \subseteq Queries
  /\ \A q \in DOMAIN c : c[q].value \in BOOLEAN

AiInv == wait \in [Waits -> Waiting \cup {Idle}] /\ CacheOK(cache) /\ CacheHeld

(* Deleting from a cache leaves a cache.                                   *)
LEMMA CacheDelete ==
  ASSUME NEW c, CacheOK(c), NEW gone
  PROVE  CacheOK(MapDelete(c, gone)) /\ MapSize(MapDelete(c, gone)) <= MapSize(c)
         /\ MapSize(c) \in Nat
<1> DEFINE d == MapDelete(c, gone)
<1>1. IsMap(c)
  BY DEF CacheOK
<1>2. /\ IsMap(d) /\ DOMAIN d = DOMAIN c \ gone
      /\ \A q \in DOMAIN c \ gone : d[q].value = c[q].value
  BY <1>1, DeleteKeeps
<1> HIDE DEF d
<1>3. CacheOK(d)
  BY <1>2 DEF CacheOK
<1>4. IsFiniteSet(DOMAIN c) /\ DOMAIN d \in SUBSET DOMAIN c
  BY <1>1, <1>2 DEF IsMap
<1>5. Cardinality(DOMAIN d) <= Cardinality(DOMAIN c)
  BY <1>4, FS_Subset
<1>6. Cardinality(DOMAIN c) \in Nat
  BY <1>4, FS_CardinalityType
<1> QED
  BY <1>3, <1>5, <1>6 DEF MapSize, d

(* An answer kept is an entry of the cache.                                *)
LEMMA CachePut ==
  ASSUME NEW c, CacheOK(c), NEW q \in Queries, NEW good \in BOOLEAN
  PROVE  CacheOK(MapSet(c, q, good)) /\ DOMAIN MapSet(c, q, good) = DOMAIN c \cup {q}
<1> DEFINE d == MapSet(c, q, good)
<1>1. IsMap(c)
  BY DEF CacheOK
<1>2. IsMap(d) /\ DOMAIN d = DOMAIN c \cup {q}
  BY <1>1, SetKeeps
<1>3. d[q].value = good
  BY DEF MapSet
<1>4. \A k \in DOMAIN c \ {q} : d[k].value = c[k].value
  BY DEF MapSet
<1> HIDE DEF d
<1>5. CacheOK(d)
  BY <1>2, <1>3, <1>4 DEF CacheOK
<1> QED
  BY <1>2, <1>5 DEF d

(* cacheSet never leaves more than the maximum: whatever was dropped as    *)
(* stale, the first keys go until it is reached.                           *)
LEMMA CacheSetKeeps ==
  ASSUME NEW c, CacheOK(c), NEW q \in Queries
  PROVE  CacheOK(CacheSet(c, q)) /\ MapSize(CacheSet(c, q)) <= CACHE_MAX
<1> DEFINE set == MapSet(c, q, TRUE)
           less == DropOld(set)
<1>1. CacheOK(set)
  BY CachePut
<1>2. CASE MapSize(set) <= CACHE_MAX
  BY <1>1, <1>2 DEF CacheSet
<1>3. CASE ~(MapSize(set) <= CACHE_MAX)
  <2>1. CacheSet(c, q) = DropFirst(less)
    BY <1>3 DEF CacheSet
  <2> HIDE DEF set
  <2>2. CacheOK(less)
    BY <1>1, CacheDelete DEF DropOld
  <2> HIDE DEF less
  <2> DEFINE n == MapSize(less) - CACHE_MAX
             first == MapFirst(less, n)
  <2>3. MapSize(less) \in Nat /\ CACHE_MAX \in Nat
    BY <2>2, CacheDelete, AiAssumption
  <2>4. n \in Int /\ n <= MapSize(less) /\ MapSize(less) - n = CACHE_MAX
    BY <2>3
  <2>5. DropFirst(less) = MapDelete(less, first)
    BY DEF DropFirst
  <2> HIDE DEF n
  <2>6. MapSize(MapDelete(less, first)) <= MapSize(less) - n
    BY <2>2, <2>4, FirstGone DEF CacheOK
  <2> HIDE DEF first
  <2>7. CacheOK(MapDelete(less, first))
    BY <2>2, CacheDelete
  <2> QED
    BY <2>1, <2>4, <2>5, <2>6, <2>7
<1> QED
  BY <1>2, <1>3

(* A request in flight.                                                    *)
LEMMA WaitingType ==
  ASSUME AiInv, NEW a \in Waits, wait[a] # Idle
  PROVE  /\ wait[a] \in Waiting
         /\ wait[a].kind \in {"chat", "search"} /\ wait[a].try \in 1..(MODELS + 1)
         /\ wait[a].query \in {{}} \cup {{q} : q \in Queries}
<1>1. wait[a] \in Waiting
  BY DEF AiInv
<1> QED
  BY <1>1 DEF Waiting

(* Waiting goes on, or a request ends; the cache may have changed.         *)
LEMMA WaitMoves ==
  ASSUME AiInv, NEW a \in Waits, NEW w \in Waiting \cup {Idle},
         wait' = [wait EXCEPT ![a] = w], CacheOK(cache'), MapSize(cache') <= CACHE_MAX
  PROVE  AiInv'
BY DEF AiInv, CacheHeld

(* A call of the gateway.                                                  *)
LEMMA CallType ==
  ASSUME NEW kind \in {"chat", "search"}, NEW query \in {{}} \cup {{q} : q \in Queries},
         NEW try \in 1..(MODELS + 1)
  PROVE  Call(kind, query, try) \in Waiting
BY DEF Call, Waiting

(* A call fails.                                                           *)
LEMMA FailsWaits ==
  ASSUME AiInv, NEW a \in Waits, NEW e, CallFails(a, e)
  PROVE  AiInv'
<1> DEFINE w == wait[a]
           again == \/ w.kind = "chat" /\ Retryable(e) /\ w.try < MODELS
                    \/ w.kind = "search" /\ w.try = 1 /\ e \in {"400", "length"}
           v == IF again THEN Call(w.kind, w.query, w.try + 1) ELSE Idle
<1>1. wait[a] # Idle
  BY DEF CallFails, Idle
<1>2. /\ w.kind \in {"chat", "search"} /\ w.try \in 1..(MODELS + 1)
      /\ w.query \in {{}} \cup {{q} : q \in Queries}
  BY <1>1, WaitingType
<1>3. wait' = [wait EXCEPT ![a] = v] /\ cache' = cache
  BY DEF CallFails
<1> HIDE DEF w
<1>4. again => w.try + 1 \in 1..(MODELS + 1)
  BY <1>2, AiAssumption
<1>5. v \in Waiting \cup {Idle}
  <2>1. CASE again
    <3>1. Call(w.kind, w.query, w.try + 1) \in Waiting
      BY <1>2, <1>4, <2>1, CallType
    <3> QED
      BY <2>1, <3>1
  <2>2. CASE ~again
    BY <2>2
  <2> HIDE DEF again
  <2> QED
    BY <2>1, <2>2
<1> HIDE DEF v
<1> QED
  BY <1>3, <1>5, WaitMoves DEF AiInv, CacheHeld

(* The gateway begins to answer, ends its text, or its pictures come.      *)
LEMMA AnswerWaits ==
  ASSUME AiInv, NEW a \in Waits,
         \/ Headers(a) \/ Images(a) \/ \E prices, bare \in BOOLEAN : Text(a, prices, bare)
  PROVE  AiInv'
<1>1. wait[a] # Idle
  BY DEF Headers, Images, Text, Idle
<1>2. wait[a] \in Waiting /\ wait[a].query \in {{}} \cup {{q} : q \in Queries}
  BY <1>1, WaitingType
<1>3. /\ [wait[a] EXCEPT !.at = "body"] \in Waiting
      /\ [wait[a] EXCEPT !.at = "images"] \in Waiting
  BY <1>2 DEF Waiting
<1>4. CacheOK(cache) /\ MapSize(cache) <= CACHE_MAX
  BY DEF AiInv, CacheHeld
<1>5. ASSUME cache' = cache \/ \E q \in wait[a].query : cache' = CacheSet(cache, q)
      PROVE  CacheOK(cache') /\ MapSize(cache') <= CACHE_MAX
  <2>1. CASE cache' = cache
    BY <1>4, <2>1
  <2>2. ASSUME NEW q \in wait[a].query, cache' = CacheSet(cache, q)
        PROVE  CacheOK(cache') /\ MapSize(cache') <= CACHE_MAX
    <3>1. q \in Queries
      BY <1>2
    <3> QED
      BY <1>4, <2>2, <3>1, CacheSetKeeps
  <2> QED
    BY <1>5, <2>1, <2>2
<1>6. CASE Headers(a)
  <2>1. wait' = [wait EXCEPT ![a] = [wait[a] EXCEPT !.at = "body"]] /\ cache' = cache
    BY <1>6 DEF Headers
  <2> QED
    BY <1>3, <1>5, <2>1, WaitMoves
<1>7. CASE Images(a)
  <2>1. wait' = [wait EXCEPT ![a] = Idle] /\ \E q \in wait[a].query : cache' = CacheSet(cache, q)
    BY <1>7 DEF Images
  <2> QED
    BY <1>5, <2>1, WaitMoves
<1>8. ASSUME NEW prices \in BOOLEAN, NEW bare \in BOOLEAN, Text(a, prices, bare)
      PROVE  AiInv'
  <2>1. cache' = cache \/ \E q \in wait[a].query : cache' = CacheSet(cache, q)
    BY <1>8 DEF Text
  <2>2. \/ wait' = [wait EXCEPT ![a] = [wait[a] EXCEPT !.at = "images"]]
        \/ wait' = [wait EXCEPT ![a] = Idle]
    BY <1>8 DEF Text
  <2> QED
    BY <1>3, <1>5, <2>1, <2>2, WaitMoves
<1> QED
  BY <1>6, <1>7, <1>8

(* A request starts, or is answered from the cache.                        *)
LEMMA StartWaits ==
  ASSUME AiInv, NEW a \in Waits,
         StartChat(a) \/ \E q \in Queries : StartSearch(a, q)
  PROVE  AiInv'
<1>1. 1 \in 1..(MODELS + 1) /\ CacheOK(cache) /\ MapSize(cache) <= CACHE_MAX
  BY AiAssumption DEF AiInv, CacheHeld
<1>2. CASE StartChat(a)
  <2>1. Call("chat", {}, 1) \in Waiting
    BY <1>1, CallType
  <2>2. wait' = [wait EXCEPT ![a] = Call("chat", {}, 1)] /\ cache' = cache
    BY <1>2 DEF StartChat
  <2> QED
    BY <1>1, <2>1, <2>2, WaitMoves
<1>3. ASSUME NEW q \in Queries, StartSearch(a, q)
      PROVE  AiInv'
  <2>1. Call("search", {q}, 1) \in Waiting
    BY <1>1, CallType
  <2>2. CASE Cached(q)
    <3>1. wait' = wait /\ cache' = cache
      BY <1>3, <2>2 DEF StartSearch
    <3> QED
      BY <3>1 DEF AiInv, CacheHeld
  <2>3. CASE ~Cached(q)
    <3>1. wait' = [wait EXCEPT ![a] = Call("search", {q}, 1)] /\ cache' = cache
      BY <1>3, <2>3 DEF StartSearch
    <3> QED
      BY <1>1, <2>1, <3>1, WaitMoves
  <2> QED
    BY <2>2, <2>3
<1> QED
  BY <1>2, <1>3

(* A minute passes for an entry, and the sweep deletes the stale ones.     *)
LEMMA CacheAges ==
  ASSUME AiInv, SweepCache \/ \E q \in Queries : AgeEntry(q)
  PROVE  AiInv'
<1>1. CacheOK(cache) /\ MapSize(cache) <= CACHE_MAX /\ CACHE_MAX \in Nat
  BY AiAssumption DEF AiInv, CacheHeld
<1>2. CASE SweepCache
  <2>1. cache' = MapDelete(cache, Stale(cache, DOMAIN cache)) /\ wait' = wait
    BY <1>2 DEF SweepCache
  <2>2. CacheOK(cache') /\ MapSize(cache') <= MapSize(cache) /\ MapSize(cache) \in Nat
    BY <1>1, <2>1, CacheDelete
  <2>3. MapSize(cache') \in Nat
    BY <2>2, CacheDelete
  <2>4. MapSize(cache') <= CACHE_MAX
    BY <1>1, <2>2, <2>3
  <2> QED
    BY <2>1, <2>2, <2>4 DEF AiInv, CacheHeld
<1>3. ASSUME NEW q \in Queries, AgeEntry(q)
      PROVE  AiInv'
  <2>1. q \in DOMAIN cache /\ cache' = MapSet(cache, q, FALSE) /\ wait' = wait
    BY <1>3 DEF AgeEntry, Cached
  <2>2. CacheOK(cache') /\ DOMAIN cache' = DOMAIN cache \cup {q}
    BY <1>1, <2>1, CachePut
  <2>3. DOMAIN cache' = DOMAIN cache
    BY <2>1, <2>2
  <2>4. MapSize(cache') <= CACHE_MAX
    BY <1>1, <2>3 DEF MapSize
  <2> QED
    BY <2>1, <2>2, <2>4 DEF AiInv, CacheHeld
<1> QED
  BY <1>2, <1>3

(* Every step of the gateway's requests keeps the invariant.               *)
LEMMA AiKeeps == AiInv /\ AiStep => AiInv'
<1> SUFFICES ASSUME AiInv, AiStep PROVE AiInv'
  OBVIOUS
<1>1. ASSUME NEW a \in Waits, GatewayStep(a)
      PROVE  AiInv'
  <2>1. \/ \E e : CallFails(a, e)
        \/ Headers(a) \/ Images(a) \/ \E prices, bare \in BOOLEAN : Text(a, prices, bare)
    BY <1>1 DEF GatewayStep, Timer, BodyEnds
  <2> QED
    BY <2>1, FailsWaits, AnswerWaits
<1> QED
  BY <1>1, CacheAges DEF AiStep

(* A worker begins with no request and an empty cache.                     *)
LEMMA AiBegins == AiInit => AiInv
<1> SUFFICES ASSUME AiInit PROVE AiInv
  OBVIOUS
<1>1. DOMAIN cache = {} /\ cache = EmptyMap /\ wait = [a \in Waits |-> Idle]
  BY DEF AiInit, EmptyMap
<1>2. IsFiniteSet(DOMAIN cache) /\ MapSize(cache) = 0
  BY <1>1, FS_EmptySet DEF MapSize
<1>3. cache = [k \in DOMAIN cache |-> [value |-> cache[k].value, older |-> cache[k].older]]
  BY <1>1 DEF EmptyMap
<1>4. CacheOK(cache)
  BY <1>1, <1>2, <1>3 DEF CacheOK, IsMap
<1>5. CacheHeld
  BY <1>2, AiAssumption DEF CacheHeld
<1> QED
  BY <1>1, <1>4, <1>5 DEF AiInv

(* What the invariant says of the gateway.                                 *)
LEMMA AiMeans == AiInv => AiTypeOK /\ CacheHeld
BY DEF AiInv, AiTypeOK, CacheOK

----------------------------------------------------------------------------
(* The worker: every step of it keeps the invariants of its parts.         *)

(* The mix of requests is chosen once.                                     *)
MixChosen == traffic \in Traffics

(* Every step of the worker is one of the mailer, or leaves it alone.      *)
LEMMA WorkerMails == MixChosen /\ [Next]_vars => [MailNext]_mailVars
<1> SUFFICES ASSUME MixChosen, [Next]_vars, ~UNCHANGED mailVars PROVE MailNext
  OBVIOUS
<1>1. traffic.mails \subseteq Mails
  BY TrafficAssumption DEF MixChosen
<1>2. ASSUME NEW r \in traffic.routes, Request(r)
      PROVE  \E m \in Mails : QueueEmail(m)
  BY <1>1, <1>2 DEF Request, Refused, CodeRequest, VerifyRequest, ChatRequest, SearchRequest
<1>3. ASSUME NEW m \in Mails, SignUpHashed(m)
      PROVE  QueueEmail(m)
  BY <1>3 DEF SignUpHashed
<1>4. ~Login /\ ~Clock
  BY DEF Login, Clock
<1>5. UNCHANGED vars => UNCHANGED mailVars
  BY DEF vars
<1> QED
  BY <1>2, <1>3, <1>4, <1>5 DEF Next, MailNext

(* The invariant of the mailer is one of the worker.                       *)
LEMMA WorkerInvariant == Spec => []MailInv
<1>1. Init => MailInit /\ MixChosen
  BY DEF Init, MixChosen
<1>2. MixChosen /\ [Next]_vars => MixChosen'
  BY DEF Next, vars, MixChosen
<1> QED
  BY <1>1, <1>2, WorkerMails, Invariant, PTL DEF Spec

(* The worker's mails are those of the mailer: whatever else it does, each *)
(* mail it queues ends once and in order.                                  *)
THEOREM WorkerQueueKept == Spec => Queue!QueueSafety
<1>1. Init => Queue!QueueInit /\ MixChosen
  BY DEF Init, MixChosen, MailInit, NoMail, Queue!QueueInit, Line
<1>2. MixChosen /\ [Next]_vars => MixChosen'
  BY DEF Next, vars, MixChosen
<1>3. MailInv /\ [MailNext]_mailVars => [Queue!QueueNext]_(Queue!queueVars)
  BY QueueStep
<1> QED
  BY <1>1, <1>2, <1>3, WorkerMails, WorkerInvariant, PTL DEF Spec, Queue!QueueSafety

(* Until a deadline leaves a send behind, the transport has one mail at a  *)
(* time (queueEmail).                                                      *)
THEOREM OneAtATime == Spec => []OneConnection
BY LoneSend, WorkerInvariant, PTL

(* A mail reported sent was accepted, and no mail is accepted more often   *)
(* than its doubts and one sending allow (sendEmail, queueEmail).          *)
THEOREM ReportsHold == Spec => []ReportsTrue
BY TrueReports, WorkerInvariant, PTL

(* The routes and sign-ins of a behaviour's mix.                           *)
LEMMA MixType ==
  MixChosen => traffic.routes \subseteq Routes /\ traffic.logins \subseteq Logins
BY TrafficAssumption DEF MixChosen

(* The limits.                                                             *)
LEMMA WorkerRates == MixChosen /\ RateInv /\ [Next]_vars => RateInv'
<1> SUFFICES ASSUME MixChosen, RateInv, [Next]_vars PROVE RateInv'
  OBVIOUS
<1>1. ASSUME UNCHANGED rateVars
      PROVE  RateInv'
  BY <1>1 DEF rateVars, RateInv, Pend, RouteKeyOK, NameKeyOK, Counting, Grows
<1>2. ASSUME NEW r \in traffic.routes, Request(r)
      PROVE  RateInv'
  <2>1. r \in Routes
    BY MixType
  <2>2. (\E passed \in BOOLEAN : Check(r, passed)) \/ CheckAndClear(r)
    BY <1>2 DEF Request, Refused, CodeRequest, VerifyRequest, ChatRequest, SearchRequest
  <2> QED
    BY <2>1, <2>2, CheckKeeps, ClearKeeps
<1>3. CASE Login
  <2>1. PICK s \in Guards, l \in Logins : LoginLook(s, l) \/ LoginFails(s, l) \/ LoginWorks(s, l)
    BY <1>3, MixType DEF Login
  <2> QED
    BY <2>1, LookKeeps, FailsKeeps, WorksKeeps
<1>4. CASE Clock
  BY <1>4, TickKeeps, SweepKeeps DEF Clock
<1>5. (\E m \in Mails : SignUpHashed(m)) \/ UNCHANGED vars => UNCHANGED rateVars
  BY DEF SignUpHashed, vars
<1> QED
  BY <1>1, <1>2, <1>3, <1>4, <1>5 DEF Next

(* The gateway.                                                            *)
LEMMA WorkerGateway == AiInv /\ [Next]_vars => AiInv'
<1> SUFFICES ASSUME AiInv, [Next]_vars PROVE AiInv'
  OBVIOUS
<1>1. ASSUME UNCHANGED aiVars
      PROVE  AiInv'
  BY <1>1 DEF aiVars, AiInv, CacheHeld
<1>2. ASSUME NEW r \in traffic.routes, Request(r)
      PROVE  AiInv'
  <2>1. \/ UNCHANGED aiVars
        \/ \E a \in Waits : StartChat(a) \/ \E q \in Queries : StartSearch(a, q)
    BY <1>2 DEF Request, Refused, CodeRequest, VerifyRequest, ChatRequest, SearchRequest
  <2> QED
    BY <1>1, <2>1, StartWaits
<1>3. (\E m \in Mails : SignUpHashed(m)) \/ Login \/ Clock \/ UNCHANGED vars
      => UNCHANGED aiVars
  BY DEF SignUpHashed, Login, Clock, vars
<1> QED
  BY <1>1, <1>2, <1>3, AiKeeps DEF Next

(* Sign-ups that wait for a hash.                                          *)
HashingOK == hashing \subseteq Mails

(* Only mails of the mix wait for a hash.                                  *)
LEMMA WorkerHashes == MixChosen /\ HashingOK /\ [Next]_vars => HashingOK'
<1> SUFFICES ASSUME MixChosen, HashingOK, [Next]_vars PROVE HashingOK'
  OBVIOUS
<1>1. traffic.mails \subseteq Mails
  BY TrafficAssumption DEF MixChosen
<1>2. ASSUME NEW r \in traffic.routes, Request(r)
      PROVE  HashingOK'
  BY <1>1, <1>2
     DEF Request, Refused, CodeRequest, VerifyRequest, ChatRequest, SearchRequest, HashingOK
<1>3. ASSUME NEW m \in Mails, SignUpHashed(m)
      PROVE  HashingOK'
  BY <1>3 DEF SignUpHashed, HashingOK
<1>4. Login \/ Clock \/ UNCHANGED vars => hashing' = hashing
  BY DEF Login, Clock, vars
<1> QED
  BY <1>2, <1>3, <1>4 DEF Next, HashingOK

(* All that a worker's memory keeps.                                       *)
WorkerInv == MixChosen /\ RateInv /\ MailInv /\ MailCounts /\ AiInv /\ HashingOK

(* The invariant of the worker.                                            *)
LEMMA WorkerKeeps == Spec => []WorkerInv
<1>1. Init => WorkerInv
  BY RateBegins, InitKeeps, CountsBegin, AiBegins DEF Init, WorkerInv, MixChosen, HashingOK
<1>2. WorkerInv /\ [Next]_vars => WorkerInv'
  <2>1. MixChosen /\ [Next]_vars => MixChosen'
    BY DEF Next, vars, MixChosen
  <2>2. MailInv /\ [MailNext]_mailVars => MailInv'
    BY NextKeeps
  <2> QED
    BY <2>1, <2>2, WorkerRates, WorkerMails, CountsKeep, WorkerGateway, WorkerHashes
       DEF WorkerInv
<1> QED
  BY <1>1, <1>2, PTL DEF Spec

(* A stretch as long as its window lets through twice the limit at most,   *)
(* whatever requests, sign-ins, ticks and sweeps come in between, unless   *)
(* the cap on buckets threw the key out (rateCheck).                       *)
THEOREM LimitsHold == Spec => []RateHeld
<1>1. WorkerInv => RateHeld
  BY RateMeans DEF WorkerInv
<1> QED
  BY <1>1, WorkerKeeps, PTL

(* Sign-ins that look before they wait and count after it go beyond the    *)
(* limit of a name by those in flight and no more (POST /login).           *)
THEOREM GuessesHold == Spec => []GuessesBounded
<1>1. WorkerInv => GuessesBounded
  BY RateMeans DEF WorkerInv
<1> QED
  BY <1>1, WorkerKeeps, PTL

(* The cache of searches holds no more than its maximum (cacheSet).        *)
THEOREM CacheHolds == Spec => []CacheHeld
<1>1. WorkerInv => CacheHeld
  BY AiMeans DEF WorkerInv
<1> QED
  BY <1>1, WorkerKeeps, PTL

(* What is in a worker's memory keeps its type: a Map stays a Map, an      *)
(* attempt stays within its number, a call within those it may make.       *)
THEOREM TypesHold == Spec => []TypeOK
<1>1. WorkerInv => TypeOK
  BY RateMeans, MailTypes, AiMeans DEF WorkerInv, TypeOK, HashingOK
<1> QED
  BY <1>1, WorkerKeeps, PTL
=============================================================================
