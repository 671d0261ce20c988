----------------------------- MODULE MailQueue -----------------------------
(***************************************************************************)
(* What the queue of e-mails promises those who call queueEmail            *)
(* (server/lib/mailer.js): a mail queued ends once, sent or given up, in   *)
(* the order of queueing, and none waits for ever.  How mails are sent,    *)
(* retried and timed out is left to module Mailer, which implements this.  *)
(***************************************************************************)
EXTENDS Sequences

CONSTANT Mails

VARIABLES
  line,     \* mails queued and not ended, in order
  outcome   \* what became of each: "none" until it ends

queueVars == <<line, outcome>>

Ends == {"sent", "failed"}

QueueInit ==
  /\ line = <<>>
  /\ outcome = [m \in Mails |-> "none"]

Enqueue(m) ==
  /\ outcome[m] = "none" /\ \A i \in DOMAIN line : line[i] # m
  /\ line' = Append(line, m)
  /\ UNCHANGED outcome

End(result) ==
  /\ line # <<>>
  /\ outcome' = [outcome EXCEPT ![Head(line)] = result]
  /\ line' = Tail(line)

QueueNext == (\E m \in Mails : Enqueue(m)) \/ (\E result \in Ends : End(result))

QueueSafety == QueueInit /\ [][QueueNext]_queueVars

QueueSpec == QueueSafety /\ WF_queueVars(\E result \in Ends : End(result))
=============================================================================
