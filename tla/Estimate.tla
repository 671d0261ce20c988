------------------------------ MODULE Estimate ------------------------------
(***************************************************************************)
(* The estimate page: prices, the budget, and moving quantities between    *)
(* "now" and the next purchase (server/lib/queries.js, the estimate routes *)
(* of server/routes/app.js, the amounts of server/lib/utils.js).           *)
(*                                                                         *)
(* Handlers interleave as in module Store: one SQL statement a step, one   *)
(* handler at a time in each worker.  A handler of this page reads whole   *)
(* rows, computes on them and writes the results back, so what it writes   *)
(* is as old as what it read.  Which products a user has access to is the  *)
(* subject of Catalog; here Sees is given and products stay.               *)
(*                                                                         *)
(* Quantities are texts in the database.  storeAmount() writes at most     *)
(* four decimals, so an amount is an integer number of ten-thousandths: a  *)
(* column's value here is the amount parseAmount() reads from its text,    *)
(* and Stored(x) what it will read after storeAmount() wrote x.  Prices    *)
(* and budgets are in whole rials (tenths of a toman).                     *)
(*                                                                         *)
(* The program computes prices in floating point.  A sum of amounts and    *)
(* prices that are binary fractions is exact there; any other may be off   *)
(* by a rounding error, which decides only a comparison of equals: the     *)
(* operators OverBudget and PiecesNeeded say what may come out, as sets.   *)
(***************************************************************************)
EXTENDS Integers, FiniteSets, FiniteSetsExt

CONSTANTS
  Workers, Users, Products,
  SupplierOf,         \* product -> supplier
  Place,              \* product -> its place on the page
  Sees,               \* user -> the products he may see
  InitialQuantity,    \* product -> quantity on its form
  Requests,           \* the requests clients may send
  Fine,               \* a rest below a Fine-th of a piece may go unnoticed: 1e-9,
                      \* give or take a rounding error
  MaxAmount           \* bound: an edit may not bring a product above it

Unit == 10000         \* one piece, in ten-thousandths

(* A form's amount: not sent, sent empty, sent but no number (or a         *)
(* negative one), or a number.                                             *)
Absent == -3
Cleared == -2
Invalid == -1
Field == {Absent, Cleared, Invalid} \cup Nat

(* product: the product the URL names; qty: the quantity sent, 0 for none; *)
(* supplier: the page's filter, 0 for none.                                *)
RequestType ==
  [op: {"item", "budget", "next", "restore", "trim", "edit", "archive"},
   user: Users, product: Products, qty: Nat, price: Field, per: Field,
   link: {"absent", "clear", "set"}, supplier: Nat]

ASSUME ProductsAssumption ==
  /\ IsFiniteSet(Products)
  /\ SupplierOf \in [Products -> Nat \ {0}]
  /\ Place \in [Products -> Nat]
  /\ \A p, q \in Products : Place[p] = Place[q] => p = q
  /\ Sees \in [Users -> SUBSET Products]
  /\ InitialQuantity \in [Products -> Nat]
ASSUME PageRequestsAssumption == Requests \subseteq RequestType /\ MaxAmount \in Nat
ASSUME FineAssumption == Fine \in Nat \ {0}

Rows == [quantity: Int, held: Int, price: Nat, per: Nat,
         link: BOOLEAN, archived: BOOLEAN]

VARIABLES
  product,    \* the estimate columns of products
  budget,     \* users.estimate_budget, 0 for none
  job         \* what each worker is doing

tables == <<product, budget>>
vars == <<product, budget, job>>

----------------------------------------------------------------------------
(* Amounts *)

(* Exactly three decimals after one to three digits look like a separator  *)
(* of thousands to parseAmount(): 2.375 is read as 2375.                   *)
Stored(x) ==
  IF x \in 0..(1000 * Unit - 1) /\ x % 10 = 0 /\ x % 100 # 0 THEN 1000 * x ELSE x

AtMost(x, limit) == IF x < limit THEN x ELSE limit
AtLeast(x, limit) == IF x > limit THEN x ELSE limit
CeilDiv(a, b) == (a + b - 1) \div b

(* What a piece costs: the price, times the pieces per unit if given.      *)
Cost(row) == row.price * (IF row.per > 0 THEN row.per ELSE 1)
RowTotal(row) == row.quantity * Cost(row)

(* The sum of the rows still to buy. *)
Total(rows) ==
  MapThenSumSet(LAMBDA p : RowTotal(rows[p]), {p \in DOMAIN rows : rows[p].quantity > 0})

(* userProducts, not archived, under the page's filter. *)
Listed(r) ==
  {p \in Sees[r.user] : /\ ~product[p].archived
                        /\ r.supplier \in {0, SupplierOf[p]}}

RowsOf(ps) == [p \in ps |-> product[p]]

(* Every quantity is a binary fraction of a piece (10000 = 16 * 625), every *)
(* price one of a toman: their products and sums are floats without error. *)
Exact(rows) ==
  \A p \in DOMAIN rows :
    rows[p].quantity > 0 => rows[p].quantity % 625 = 0 /\ rows[p].price % 5 = 0

(* What comparing the float total with the budget may answer: a total that *)
(* is the budget may come out above it (1.1 * 110000 > 121000).            *)
OverBudget(rows, limit) ==
  IF limit > 0 /\ Total(rows) = limit * Unit /\ ~Exact(rows) THEN BOOLEAN
  ELSE {limit > 0 /\ Total(rows) > limit * Unit}

----------------------------------------------------------------------------
(* A worker's handler.  rows: the product rows it remembers; left: those   *)
(* the trim loop has still to visit; limit: the budget it read; last, sent:*)
(* the latest entry of trim's "moved".                                     *)

Labels == {"row", "price", "per", "link", "budget", "next", "restore",
           "total", "limit", "list", "trim", "edit", "archive"}
Idle == [pc |-> "idle"]

IsJob(j) ==
  /\ j.pc \in Labels /\ j.req \in RequestType
  /\ DOMAIN j.rows \subseteq Products /\ j.rows \in [DOMAIN j.rows -> Rows]
  /\ j.left \subseteq DOMAIN j.rows
  /\ j.limit \in Nat /\ j.last \in Products /\ j.sent \in Int

At(w, label) == job[w].pc = label
Goto(w, label) == job' = [job EXCEPT ![w] = [@ EXCEPT !.pc = label]]
Respond(w) == job' = [job EXCEPT ![w] = Idle]

FirstLabel(op) == CASE op = "trim" -> "total" [] op = "budget" -> "budget" [] OTHER -> "row"

Begin(w) ==
  /\ job[w] = Idle
  /\ \E r \in Requests :
       /\ r.op = "edit" => r.qty + product[r.product].held <= MaxAmount
       /\ job' = [job EXCEPT ![w] =
            [pc |-> FirstLabel(r.op), req |-> r, rows |-> RowsOf({}), left |-> {},
             limit |-> 0, last |-> r.product, sent |-> 0]]
  /\ UNCHANGED tables

(* ownedProduct: the row the rest of the handler works on. *)
ReadRow(w) ==
  LET j == job[w]
      next == IF j.req.op = "item" THEN "price" ELSE j.req.op
  IN /\ At(w, "row")
     /\ IF j.req.product \in Sees[j.req.user]
        THEN job' = [job EXCEPT ![w] = [@ EXCEPT !.rows = RowsOf({j.req.product}), !.pc = next]]
        ELSE Respond(w)
     /\ UNCHANGED tables

SetRow(p, row) == product' = [product EXCEPT ![p] = row] /\ UNCHANGED budget

----------------------------------------------------------------------------
(* The price form: up to three UPDATEs.  An invalid price ends it before   *)
(* the first, an invalid number of pieces after it.                        *)

(* Faulty variant: an emptied field is stored as it was sent. *)
ValueAsSent(field) == field

ValueOf(field) == IF field = Cleared THEN 0 ELSE field

SetPrice(w) ==
  LET r == job[w].req IN
  /\ At(w, "price")
  /\ IF r.price = Invalid THEN Respond(w) ELSE Goto(w, "per")
  /\ IF r.price \in {Absent, Invalid} THEN UNCHANGED tables
     ELSE SetRow(r.product, [product[r.product] EXCEPT !.price = ValueOf(r.price)])

SetPer(w) ==
  LET r == job[w].req IN
  /\ At(w, "per")
  /\ IF r.per = Invalid THEN Respond(w) ELSE Goto(w, "link")
  /\ IF r.per \in {Absent, Invalid} THEN UNCHANGED tables
     ELSE SetRow(r.product, [product[r.product] EXCEPT !.per = ValueOf(r.per)])

(* A cleared price takes the link along unless the form sends one. *)
SetLink(w) ==
  LET r == job[w].req
      drop == r.price = Cleared /\ job[w].rows[r.product].link
  IN /\ At(w, "link")
     /\ IF r.link # "absent" \/ drop
        THEN SetRow(r.product, [product[r.product] EXCEPT !.link = (r.link = "set")])
        ELSE UNCHANGED tables
     /\ Respond(w)

SetBudget(w) ==
  LET r == job[w].req IN
  /\ At(w, "budget")
  /\ Respond(w)
  /\ budget' = IF r.price = Invalid THEN budget
               ELSE [budget EXCEPT ![r.user] = AtLeast(ValueOf(r.price), 0)]
  /\ UNCHANGED product

----------------------------------------------------------------------------
(* Moving quantities.  Both columns are written from the remembered row.   *)

Moved(row, quantity, held) ==
  [row EXCEPT !.quantity = Stored(quantity), !.held = Stored(held)]

(* Faulty variant: no more than nothing stops the move. *)
SendableUnclamped(row, qty) == IF qty <= 0 THEN row.quantity ELSE qty

(* All of it, if no amount was given, and never more than there is. *)
Sendable(row, qty) == AtMost(IF qty <= 0 THEN row.quantity ELSE qty, row.quantity)
Returnable(row, qty) == AtMost(IF qty <= 0 THEN row.held ELSE qty, row.held)

(* UPDATE products SET quantity, next_qty: the other columns stay. *)
WriteQuantities(p, row) ==
  SetRow(p, [product[p] EXCEPT !.quantity = row.quantity, !.held = row.held])

(* Faulty variant: the amount held is not read again after the move. *)
ApplyNextQtyForgettingHeld(w) ==
  LET p == job[w].req.product
      row == job[w].rows[p]
      send == Sendable(row, job[w].req.qty)
  IN /\ At(w, "next")
     /\ IF send <= 0 THEN UNCHANGED tables
        ELSE WriteQuantities(p, Moved(row, row.quantity - send, send))
     /\ Respond(w)

ApplyNextQty(w) ==
  LET p == job[w].req.product
      row == job[w].rows[p]
      send == Sendable(row, job[w].req.qty)
  IN /\ At(w, "next")
     /\ IF send <= 0 THEN UNCHANGED tables
        ELSE WriteQuantities(p, Moved(row, row.quantity - send, row.held + send))
     /\ Respond(w)

RestoreNextQty(w) ==
  LET p == job[w].req.product
      row == job[w].rows[p]
      back == Returnable(row, job[w].req.qty)
  IN /\ At(w, "restore")
     /\ IF back <= 0 THEN UNCHANGED tables
        ELSE WriteQuantities(p, Moved(row, row.quantity + back, row.held - back))
     /\ Respond(w)

(* The product form: its quantity is stored as typed. *)
EditQuantity(w) ==
  LET r == job[w].req IN
  /\ At(w, "edit")
  /\ SetRow(r.product, [product[r.product] EXCEPT !.quantity = r.qty])
  /\ Respond(w)

(* toggle-order archives, unarchive brings back. *)
SetArchived(w) ==
  LET p == job[w].req.product IN
  /\ At(w, "archive")
  /\ \E archived \in BOOLEAN : SetRow(p, [product[p] EXCEPT !.archived = archived])
  /\ Respond(w)

----------------------------------------------------------------------------
(* Trimming to the budget *)

(* estimateSnapshot reads the products, then the user's budget. *)
ReadTotal(w) ==
  /\ At(w, "total")
  /\ job' = [job EXCEPT ![w] =
               [@ EXCEPT !.rows = RowsOf(Listed(job[w].req)), !.pc = "limit"]]
  /\ UNCHANGED tables

ReadLimit(w) ==
  LET limit == budget[job[w].req.user] IN
  /\ At(w, "limit")
  /\ \E over \in OverBudget(job[w].rows, limit) :
       IF over
       THEN job' = [job EXCEPT ![w] = [@ EXCEPT !.limit = limit, !.pc = "list"]]
       ELSE Respond(w)
  /\ UNCHANGED tables

(* The list the loop works on is read again. *)
ReadList(w) ==
  LET ps == Listed(job[w].req) IN
  /\ At(w, "list")
  /\ job' = [job EXCEPT ![w] =
               [@ EXCEPT !.rows = RowsOf(ps), !.left = ps, !.pc = "trim"]]
  /\ UNCHANGED tables

(* How far a page is above the budget, in pieces of cost c: the whole      *)
(* pieces, and whether there is a rest or may seem to be one.              *)
WholePieces(excess, c) == excess \div c

(* A rest of a piece of cost c that is small enough to go unnoticed.       *)
Negligible(rest, c) == rest < CeilDiv(c, Fine)

(* Faulty variant: rounded down. *)
PiecesRoundedDown(rows, limit, p) ==
  {AtLeast(WholePieces(Total(rows) - limit * Unit, Cost(rows[p]) * Unit), 1)}

(* Faulty variant: one piece more than needed. *)
OnePieceMore(rows, limit, p) ==
  {WholePieces(Total(rows) - limit * Unit, Cost(rows[p]) * Unit) + 2}

(* Whole pieces, at least one, that bring the total down to the budget: a  *)
(* rest asks for one more unless it goes unnoticed, and a rounding error   *)
(* may look like a rest.                                                   *)
PiecesNeeded(rows, limit, p) ==
  LET c == Cost(rows[p]) * Unit
      excess == Total(rows) - limit * Unit
      whole == WholePieces(excess, c)
      rest == excess % c
  IN  {k \in {AtLeast(whole, 1), whole + 1} :
         \/ k = AtLeast(whole, 1) /\ Negligible(rest, c)
         \/ k = whole + 1 /\ (rest > 0 \/ ~Exact(rows))}

(* Products not yet visited that cost something. *)
Trimmable(j) == {p \in j.left : j.rows[p].quantity > 0 /\ RowTotal(j.rows[p]) > 0}

(* One round of the loop, from the end of the page: the last product that  *)
(* costs something gives what is needed, or all it has.                    *)
TrimProduct(w) ==
  LET j == job[w] IN
  /\ At(w, "trim")
  /\ TRUE \in OverBudget(j.rows, j.limit)
  /\ \E p \in Trimmable(j) : \E pieces \in PiecesNeeded(j.rows, j.limit, p) :
       LET row == j.rows[p]
           send == Sendable(row, Stored(AtMost(pieces * Unit, row.quantity)))
           moved == Moved(row, row.quantity - send, row.held + send)
       IN /\ \A q \in Trimmable(j) : Place[q] <= Place[p]
          /\ WriteQuantities(p, moved)
          /\ job' = [job EXCEPT ![w] =
               [@ EXCEPT !.rows = [j.rows EXCEPT ![p] = moved],
                         !.left = {q \in j.left : Place[q] < Place[p]},
                         !.last = p, !.sent = send]]

TrimEnds(w) ==
  LET j == job[w] IN
  /\ At(w, "trim")
  /\ FALSE \in OverBudget(j.rows, j.limit) \/ Trimmable(j) = {}
  /\ Respond(w)
  /\ UNCHANGED tables

----------------------------------------------------------------------------
Init ==
  /\ product = [p \in Products |->
       [quantity |-> InitialQuantity[p], held |-> 0, price |-> 0, per |-> 0,
        link |-> FALSE, archived |-> FALSE]]
  /\ budget = [u \in Users |-> 0]
  /\ job = [w \in Workers |-> Idle]

Next ==
  \E w \in Workers :
    \/ Begin(w) \/ ReadRow(w)
    \/ SetPrice(w) \/ SetPer(w) \/ SetLink(w) \/ SetBudget(w)
    \/ ApplyNextQty(w) \/ RestoreNextQty(w) \/ EditQuantity(w) \/ SetArchived(w)
    \/ ReadTotal(w) \/ ReadLimit(w) \/ ReadList(w) \/ TrimProduct(w) \/ TrimEnds(w)

Spec == Init /\ [][Next]_vars

----------------------------------------------------------------------------
TypeOK ==
  /\ product \in [Products -> Rows]
  /\ budget \in [Users -> Nat]
  /\ DOMAIN job = Workers
  /\ \A w \in Workers : job[w] # Idle => IsJob(job[w])

Sum(row) == row.quantity + row.held

(* Moving to the next purchase and back, and trimming, lose and invent     *)
(* nothing: a product's two amounts add up to the same, in whatever order  *)
(* the workers' writes of old rows come.  Only the product form changes    *)
(* the sum (queries.js:382-414).                                           *)
QuantityConserved ==
  [][\A p \in Products :
       Sum(product'[p]) # Sum(product[p]) =>
         \E w \in Workers : At(w, "edit") /\ job[w].req.product = p /\ job'[w] = Idle]_vars

(* No move takes more than there is, whatever amount the client names and  *)
(* however old the row the move was computed from.                         *)
NoOverdraft == \A p \in Products : product[p].quantity >= 0 /\ product[p].held >= 0

(* The page fits, or is above the budget by a rest that went unnoticed.    *)
AlmostFits(rows, limit) ==
  LET excess == Total(rows) - limit * Unit IN
  excess <= 0 \/ \E p \in DOMAIN rows : Negligible(excess, Cost(rows[p]) * Unit)

PutBack(rows, p, amount) ==
  [rows EXCEPT ![p] = [rows[p] EXCEPT !.quantity = rows[p].quantity + amount]]

(* When the trim of a page ends, the page fits the budget it was trimmed   *)
(* to, up to a rest of a piece that went unnoticed; and the trim took no   *)
(* more than it must: with one piece of the last product back, or all that *)
(* was taken of it if less, the page could be over the budget again.  That *)
(* is above it or, if its sum is no exact float, just at it: then a piece  *)
(* may go although the page fitted (app.js:637-682).                       *)
TrimFits ==
  [][\A w \in Workers : At(w, "trim") /\ job'[w] = Idle =>
       LET j     == job[w]
           rows  == RowsOf(Listed(j.req))
           limit == budget[j.req.user]
       IN  /\ AlmostFits(rows, limit)
           /\ j.sent > 0 =>
                TRUE \in OverBudget(PutBack(rows, j.last, AtMost(j.sent, Unit)), limit)]_vars
=============================================================================
