---------------------------- MODULE MCLifecycle ----------------------------
(* Two processes and one product.                                          *)
EXTENDS Lifecycle, TLC

Scenario(workers, earlier, crash, opened, written) ==
  [workers |-> workers, earlier |-> earlier, products |-> [i \in Ids |-> "a"],
   crashes |-> crash, starts |-> opened, writes |-> written]

(* An update with one worker that dies twice; two workers on a new         *)
(* database; the desktop application opened twice, or its server dying.    *)
Starting == {Scenario(1, TRUE, 2, 0, 3), Scenario(2, FALSE, 1, 0, 0),
             Scenario(0, FALSE, 0, 2, 1), Scenario(0, FALSE, 1, 1, 1)}
Updating == {Scenario(2, TRUE, 0, 0, 1)}
=============================================================================
