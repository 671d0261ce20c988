------------------------------- MODULE Worker -------------------------------
(***************************************************************************)
(* What one worker keeps in its own memory, with the requests that move    *)
(* it: the attempts it has counted (RateLimit), the queue of e-mails       *)
(* (Mailer) and the requests that wait for the AI gateway (AiGateway).     *)
(* Another worker has its own of each; all is lost when the process ends.  *)
(***************************************************************************)
EXTENDS RateLimit, Mailer, AiGateway

(* A mix of requests: routes and sign-ins that come, and mails they queue. *)
CONSTANT Traffics
ASSUME TrafficAssumption ==
  Traffics \subseteq [routes: SUBSET Routes, logins: SUBSET Logins, mails: SUBSET Mails]

VARIABLES
  traffic,   \* the mix of this behaviour
  hashing    \* mails of sign-ups that wait for their password's hash

vars == <<traffic, hashing, rateVars, mailVars, aiVars>>

Init == traffic \in Traffics /\ hashing = {} /\ RateInit /\ MailInit /\ AiInit

----------------------------------------------------------------------------
(* A route that checks its limits first.  What follows a passed check is   *)
(* part of the same turn of the event loop up to the first await.          *)

Refused(r) == Check(r, FALSE) /\ UNCHANGED <<hashing, mailVars, aiVars>>

(* signup, resend-verification, change-verification-email (which has no    *)
(* limit: checks is empty): a mail is queued at once, or after the password    *)
(* has been hashed, or not at all if the form is refused after the count.  *)
CodeRequest(r, m) ==
  /\ r.then = "mail"
  /\ Check(r, TRUE)
  /\ \/ QueueEmail(m) /\ UNCHANGED hashing
     \/ ~Queued(m) /\ hashing' = hashing \cup {m} /\ UNCHANGED mailVars
     \/ UNCHANGED <<hashing, mailVars>>
  /\ UNCHANGED aiVars

SignUpHashed(m) ==
  /\ m \in hashing
  /\ hashing' = hashing \ {m}
  /\ QueueEmail(m) \/ (Queued(m) /\ UNCHANGED mailVars)
  /\ UNCHANGED <<rateVars, aiVars>>

(* verify-email: the right code clears both limits and queues a welcome.   *)
VerifyRequest(r, m, right) ==
  /\ r.then = "verify"
  /\ IF right
     THEN CheckAndClear(r) /\ (QueueEmail(m) \/ UNCHANGED mailVars)
     ELSE Check(r, TRUE) /\ UNCHANGED mailVars
  /\ UNCHANGED <<hashing, aiVars>>

(* support/chat: an empty or long message is refused after the count.      *)
ChatRequest(r, a) ==
  /\ r.then = "chat"
  /\ Check(r, TRUE)
  /\ StartChat(a) \/ UNCHANGED aiVars
  /\ UNCHANGED <<hashing, mailVars>>

(* estimate/search: an empty query is refused before the count.            *)
SearchRequest(r, a, q) ==
  /\ r.then = "search"
  /\ Check(r, TRUE)
  /\ StartSearch(a, q)
  /\ UNCHANGED <<hashing, mailVars>>

Request(r) ==
  /\ \/ Refused(r)
     \/ \E m \in traffic.mails : CodeRequest(r, m) \/ \E right \in BOOLEAN : VerifyRequest(r, m, right)
     \/ \E a \in Waits : ChatRequest(r, a) \/ \E q \in Queries : SearchRequest(r, a, q)

Login ==
  /\ \E s \in Guards, l \in traffic.logins : LoginLook(s, l) \/ LoginFails(s, l) \/ LoginWorks(s, l)
  /\ UNCHANGED <<hashing, mailVars, aiVars>>

Clock == (Tick \/ Sweep) /\ UNCHANGED <<hashing, mailVars, aiVars>>

Next ==
  /\ \/ Login \/ Clock
     \/ \E r \in traffic.routes : Request(r)
     \/ \E m \in Mails : SignUpHashed(m)
     \/ (JobStep \/ Transport) /\ UNCHANGED <<hashing, rateVars, aiVars>>
     \/ AiStep /\ UNCHANGED <<hashing, rateVars, mailVars>>
  /\ UNCHANGED traffic

(* Promises and timers of node always come; the server of e-mails and the  *)
(* gateway need not answer.                                                *)
Spec == Init /\ [][Next]_vars /\ MailFairness /\ AiFairness

TypeOK == RateTypeOK /\ MailTypeOK /\ AiTypeOK /\ hashing \subseteq Mails
=============================================================================
