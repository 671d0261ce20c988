----------------------------- MODULE MCEstimate -----------------------------
(* Small instances of Estimate: two users looking at the same products.    *)
EXTENDS Estimate, TLC

CONSTANTS w1, w2

OneWorker == {w1}
TwoWorkers == {w1, w2}
Symmetry == Permutations(TwoWorkers)

MCSupplierOf == [p \in Products |-> IF p = 2 THEN 2 ELSE 1]
MCPlace == [p \in Products |-> p]
MCSees == [u \in Users |-> IF u = 1 THEN Products ELSE {1}]
Halves == [p \in Products |-> IF p = 1 THEN 25000 ELSE 10000]     \* 2.5 and 1

Req(op, u, p, qty, price, per, link, s) ==
  [op |-> op, user |-> u, product |-> p, qty |-> qty, price |-> price,
   per |-> per, link |-> link, supplier |-> s]

Amounts(op, u, ps, qtys) == {Req(op, u, p, q, Absent, Absent, "absent", 0) : p \in ps, q \in qtys}
Prices(u, ps, prices, pers, links) ==
  {Req("item", u, p, 0, price, per, link, 0) :
     p \in ps, price \in prices, per \in pers, link \in links}
Budgets(u, values) == {Req("budget", u, 1, 0, v, Absent, "absent", 0) : v \in values}
Trims(u, suppliers) == {Req("trim", u, 1, 0, Absent, Absent, "absent", s) : s \in suppliers}

(* One worker, everything. *)
PageRequests ==
  Amounts("next", 1, {1}, {0, 5000}) \cup Amounts("next", 1, {2}, {30000})
  \cup Amounts("restore", 1, {1}, {0}) \cup Amounts("restore", 1, {2}, {5000})
  \cup Amounts("edit", 1, {1}, {20001}) \cup Amounts("archive", 1, {2}, {0})
  \cup Prices(1, {1}, {Absent, 4}, {Absent, Cleared, 2}, {"absent"})
  \cup Prices(1, {2}, {Invalid, 3}, {Absent}, {"absent"})
  \cup Budgets(1, {Cleared, Invalid, 5, 10}) \cup Trims(1, {0, 1})
  \cup Trims(2, {0}) \cup Budgets(2, {4})

(* Two workers move the same products. *)
MoveRequests ==
  Amounts("next", 1, {1, 2}, {0, 5000}) \cup Amounts("restore", 2, {1, 2}, {0, 10000})
  \cup Prices(1, {1, 2}, {4}, {Absent}, {"absent"})
  \cup Budgets(1, {5}) \cup Trims(1, {0})
=============================================================================
