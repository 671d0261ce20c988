--------------------------- MODULE EstimateProofs ---------------------------
(***************************************************************************)
(* For any number of workers, users and products: moving quantities never  *)
(* overdraws, and if amounts have at most two decimals and nobody edits a  *)
(* quantity, nothing is lost however old the rows are that handlers write  *)
(* back.  Both rest on what is true of every remembered row: its amounts   *)
(* are not negative, and they add up to what the table's add up to now.    *)
(*                                                                         *)
(* For one worker, any users and products: a trim brings the page within   *)
(* the budget, but for a rest below the loop's tolerance, and one piece    *)
(* less would leave it above or, where floats round, seem to.  This rests  *)
(* on what a loop that works on a list knows of it, and on how a change of *)
(* one row changes the total of a page.                                    *)
(***************************************************************************)
EXTENDS Estimate, FiniteSetTheorems, NaturalsInduction, WellFoundedInduction, TLAPS

(* Labels at which a handler works on the row it read. *)
KnowsRow == {"price", "per", "link", "next", "restore", "edit", "archive"}

(* A multiple of a hundredth: at most two decimals. *)
Whole(x) == x % 100 = 0

(* The amounts typed have at most two decimals.                            *)
TwoDecimals ==
  /\ \A p \in Products : Whole(InitialQuantity[p])
  /\ \A r \in Requests : Whole(r.qty)

(* Moreover, the clients only move quantities.                             *)
MovesOnly == TwoDecimals /\ \A r \in Requests : r.op # "edit"

GoodRow(row) ==
  /\ row \in Rows
  /\ row.quantity >= 0 /\ row.held >= 0
  /\ TwoDecimals => Whole(row.quantity) /\ Whole(row.held)

(* A remembered row may be old, but it adds up to what the table's does.   *)
GoodMemory(j, table) ==
  /\ IsJob(j) /\ j.req \in Requests
  /\ j.pc \in KnowsRow => j.req.product \in DOMAIN j.rows
  /\ j.pc = "edit" => j.req.op = "edit"
  /\ j.pc = "row" => j.req.op \notin {"budget", "trim"}
  /\ j.pc # "trim" => j.left = {}
  /\ \A p \in DOMAIN j.rows : GoodRow(j.rows[p])
  /\ MovesOnly => \A p \in DOMAIN j.rows : Sum(j.rows[p]) = Sum(table[p])

TablesGood ==
  /\ product \in [Products -> Rows]
  /\ \A p \in Products : GoodRow(product[p])
  /\ budget \in [Users -> Nat]

Inv ==
  /\ TablesGood
  /\ DOMAIN job = Workers
  /\ \A w \in Workers : job[w] # Idle => GoodMemory(job[w], product)

SumsKept == MovesOnly => \A p \in Products : Sum(product'[p]) = Sum(product[p])

----------------------------------------------------------------------------
(* Amounts *)

(* An amount stays an amount in the text, exact with two decimals.         *)
LEMMA StoredFacts ==
  ASSUME NEW x \in Int
  PROVE  /\ Stored(x) \in Int
         /\ x >= 0 => Stored(x) >= 0
         /\ Whole(x) => Stored(x) = x
<1>1. Stored(x) = x \/ (Stored(x) = 1000 * x /\ x >= 0 /\ x % 100 # 0)
  <2>1. CASE x \in 0..(1000 * Unit - 1) /\ x % 10 = 0 /\ x % 100 # 0
    BY <2>1 DEF Stored
  <2>2. CASE ~(x \in 0..(1000 * Unit - 1) /\ x % 10 = 0 /\ x % 100 # 0)
    BY <2>2, Zenon DEF Stored
  <2>3. QED
    BY <2>1, <2>2
<1>2. 1000 * x \in Int /\ (x >= 0 => 1000 * x >= 0)
  OBVIOUS
<1>3. QED
  BY <1>1, <1>2 DEF Whole

(* What is moved is no more than what there is. *)
LEMMA SendableFacts ==
  ASSUME NEW row \in Rows, NEW qty \in Int
  PROVE  /\ Sendable(row, qty) \in Int /\ Sendable(row, qty) <= row.quantity
         /\ row.quantity >= 0 => Sendable(row, qty) >= 0
         /\ Returnable(row, qty) \in Int /\ Returnable(row, qty) <= row.held
         /\ row.held >= 0 => Returnable(row, qty) >= 0
         /\ Whole(row.quantity) /\ Whole(qty) => Whole(Sendable(row, qty))
         /\ Whole(row.held) /\ Whole(qty) => Whole(Returnable(row, qty))
  BY DEF Sendable, Returnable, AtMost, Rows

(* A row after a move is a good row, and the move keeps the sum.           *)
LEMMA MovedGood ==
  ASSUME NEW row, GoodRow(row), NEW send \in Int,
         row.quantity - send >= 0, row.held + send >= 0,
         TwoDecimals => Whole(send)
  PROVE  LET moved == Moved(row, row.quantity - send, row.held + send)
         IN  GoodRow(moved) /\ (TwoDecimals => Sum(moved) = Sum(row))
<1> DEFINE q == row.quantity - send
           h == row.held + send
<1>1. row \in Rows /\ row.quantity \in Int /\ row.held \in Int /\ q \in Int /\ h \in Int
  BY DEF GoodRow, Rows
<1>2. Stored(q) \in Int /\ Stored(q) >= 0 /\ Stored(h) \in Int /\ Stored(h) >= 0
  BY <1>1, StoredFacts
<1>3. /\ Moved(row, q, h) \in Rows
      /\ Moved(row, q, h).quantity = Stored(q) /\ Moved(row, q, h).held = Stored(h)
  BY <1>1, <1>2 DEF Rows, Moved
<1>4. ASSUME TwoDecimals
      PROVE  Whole(q) /\ Whole(h) /\ Stored(q) = q /\ Stored(h) = h
  <2>1. Whole(q) /\ Whole(h)
    BY <1>1, <1>4 DEF GoodRow, Whole
  <2>2. QED
    BY <1>1, <2>1, StoredFacts
<1>5. QED
  BY <1>1, <1>2, <1>3, <1>4 DEF GoodRow, Sum

-----------------------------------------------------------------------------
(* Sums of rows: the total of a page is a recursive function on its rows.  *)

(* The rows a page's total is taken over.                                  *)
Priced(rows) == {p \in DOMAIN rows : rows[p].quantity > 0}

(* The row the sum takes next.                                             *)
Pick(s) == CHOOSE x \in s : TRUE

(* The sums of the subsets of S, from those of smaller subsets.            *)
Adding(rows, S, g) ==
  [s \in SUBSET S |-> IF s = {} THEN 0 ELSE RowTotal(rows[Pick(s)]) + g[s \ {Pick(s)}]]

(* The function that Total defines recursively solves this equation ...    *)
Adds(rows, S, g) == g = Adding(rows, S, g)

(* ... and its value at S is what the rows of S add up to.                 *)
TheSum(rows, S) == (CHOOSE g : Adds(rows, S, g))[S]

(* The total of a page is the sum over its rows with a quantity.           *)
LEMMA TotalIs ==
  ASSUME NEW rows
  PROVE Total(rows) = TheSum(rows, Priced(rows))
BY DEF Total, MapThenSumSet, MapThenFoldSet, Priced, Adds, TheSum, Pick, Adding

(* Among some subsets of a finite set, one is smallest: what a proof by    *)
(* induction over the rows of a page rests on.                             *)
LEMMA Smallest ==
  ASSUME NEW S, IsFiniteSet(S), NEW B \in SUBSET (SUBSET S), B # {}
  PROVE  \E T \in B : \A U \in B : U \subseteq T => U = T
<1> DEFINE R == {ss \in Nat \X Nat : ss[1] < ss[2]}
           N == {Cardinality(T) : T \in B}
<1>1. IsWellFoundedOn(R, Nat)
  BY NatLessThanWellFounded DEF OpToRel
<1>2. \A a, b \in Nat : a < b => <<a, b>> \in R
  OBVIOUS
<1> HIDE DEF R
<1>3. \A T \in B : IsFiniteSet(T) /\ Cardinality(T) \in Nat
  BY FS_Subset, FS_CardinalityType
<1>4. N \in SUBSET Nat /\ N # {}
  BY <1>3
<1> HIDE DEF N
<1>5. PICK n \in N : \A m \in N : ~ (<<m, n>> \in R)
  BY <1>1, <1>4, WFMin
<1>6. PICK T \in B : n = Cardinality(T)
  BY <1>5 DEF N
<1>7. ASSUME NEW U \in B, U \subseteq T PROVE U = T
  <2>1. Cardinality(U) \in N BY DEF N
  <2>2. ~(Cardinality(U) < Cardinality(T))
    BY <1>2, <1>3, <1>5, <1>6, <2>1
  <2>3. Cardinality(U) <= Cardinality(T) /\ (Cardinality(T) = Cardinality(U) => T = U)
    BY <1>3, <1>7, FS_Subset
  <2> QED BY <1>3, <2>2, <2>3
<1> QED BY <1>6, <1>7

(* The equation, set by set. *)
LEMMA AddsAt ==
  ASSUME NEW rows, NEW S, NEW g, Adds(rows, S, g), NEW T \in SUBSET S
  PROVE  /\ T = {} => g[T] = 0
         /\ T # {} => g[T] = RowTotal(rows[Pick(T)]) + g[T \ {Pick(T)}]
<1>1. g[T] = Adding(rows, S, g)[T]
  BY DEF Adds
<1> QED BY <1>1 DEF Adding

(* The row taken next is one of them.                                      *)
LEMMA Picked == ASSUME NEW T, T # {} PROVE Pick(T) \in T
BY DEF Pick

(* Solutions of the equation agree on the rows they have in common: take   *)
(* the smallest set on which they do not.                                  *)
LEMMA OneSum ==
  ASSUME NEW S, IsFiniteSet(S), NEW ra, NEW rb, NEW Sa, NEW Sb, NEW g, NEW h,
         Adds(ra, Sa, g), Adds(rb, Sb, h), S \subseteq Sa, S \subseteq Sb,
         \A p \in S : RowTotal(ra[p]) = RowTotal(rb[p])
  PROVE  g[S] = h[S]
<1> DEFINE B == {T \in SUBSET S : g[T] # h[T]}
<1> SUFFICES ASSUME B # {} PROVE FALSE
  OBVIOUS
<1>1. \E T \in B : \A U \in B : U \subseteq T => U = T
  <2>1. B \in SUBSET (SUBSET S)
    OBVIOUS
  <2> HIDE DEF B
  <2> QED BY <2>1, Smallest
<1>0. PICK T \in B : \A U \in B : U \subseteq T => U = T
  BY <1>1
<1>2. T \in SUBSET Sa /\ T \in SUBSET Sb /\ T \in SUBSET S
  BY <1>0
<1> HIDE DEF B
<1>3. /\ T = {} => g[T] = 0
      /\ T # {} => g[T] = RowTotal(ra[Pick(T)]) + g[T \ {Pick(T)}]
  BY <1>2, AddsAt
<1>4. /\ T = {} => h[T] = 0
      /\ T # {} => h[T] = RowTotal(rb[Pick(T)]) + h[T \ {Pick(T)}]
  BY <1>2, AddsAt
<1>5. CASE T = {}
  BY <1>0, <1>3, <1>4, <1>5 DEF B
<1>6. CASE T # {}
  <2>1. Pick(T) \in T
    BY <1>6, Picked
  <2>2. g[T \ {Pick(T)}] = h[T \ {Pick(T)}]
    BY <1>0, <1>2, <2>1 DEF B
  <2>3. RowTotal(ra[Pick(T)]) = RowTotal(rb[Pick(T)])
    BY <1>2, <2>1
  <2> QED BY <1>0, <1>3, <1>4, <1>6, <2>2, <2>3 DEF B
<1> QED BY <1>5, <1>6

(* The equation has a solution: the smallest set without one would get     *)
(* one from the sums of its subsets.                                       *)
LEMMA SumExists ==
  ASSUME NEW rows, NEW S, IsFiniteSet(S)
  PROVE  \E g : Adds(rows, S, g)
<1> DEFINE B == {T \in SUBSET S : ~ \E g : Adds(rows, T, g)}
<1> SUFFICES ASSUME B # {} PROVE FALSE
  OBVIOUS
<1>1. \E T \in B : \A U \in B : U \subseteq T => U = T
  <2>1. B \in SUBSET (SUBSET S)
    OBVIOUS
  <2> HIDE DEF B
  <2> QED BY <2>1, Smallest
<1>0. PICK T \in B : \A U \in B : U \subseteq T => U = T
  BY <1>1
<1>2. T \in SUBSET S /\ IsFiniteSet(T)
  BY <1>0, FS_Subset
<1>3. ASSUME NEW U \in SUBSET T, U # T
      PROVE  \E g : Adds(rows, U, g)
  BY <1>0, <1>2, <1>3
<1> HIDE DEF B
<1> DEFINE V == [U \in SUBSET T |-> TheSum(rows, U)]
           g == Adding(rows, T, V)
<1>4. ASSUME NEW U \in SUBSET T, U # T
      PROVE  V[U] = IF U = {} THEN 0 ELSE RowTotal(rows[Pick(U)]) + V[U \ {Pick(U)}]
  <2> DEFINE h == CHOOSE h : Adds(rows, U, h)
  <2>1. Adds(rows, U, h)
    BY <1>3, <1>4
  <2>2. V[U] = h[U]
    BY DEF TheSum
  <2> HIDE DEF h, V
  <2>3. /\ U = {} => h[U] = 0
        /\ U # {} => h[U] = RowTotal(rows[Pick(U)]) + h[U \ {Pick(U)}]
    BY <2>1, AddsAt
  <2>4. ASSUME U # {} PROVE V[U \ {Pick(U)}] = h[U \ {Pick(U)}]
    <3> DEFINE W == U \ {Pick(U)}
               k == CHOOSE k : Adds(rows, W, k)
    <3>1. Pick(U) \in U
      BY <2>4, Picked
    <3>2. W \in SUBSET T /\ W # T /\ W \subseteq U /\ W \subseteq S
      BY <1>2, <1>4, <3>1
    <3>3. Adds(rows, W, k)
      BY <1>3, <3>2
    <3>4. V[W] = k[W]
      BY <3>2 DEF TheSum, V
    <3> HIDE DEF W, k
    <3>5. IsFiniteSet(W)
      BY <3>2, FS_Subset
    <3>6. k[W] = h[W]
      BY <2>1, <3>2, <3>3, <3>5, OneSum
    <3> QED BY <3>4, <3>6 DEF W
  <2> QED BY <2>2, <2>3, <2>4
<1> HIDE DEF V
<1>5. \A U \in SUBSET T : U # {} => g[U \ {Pick(U)}] = V[U \ {Pick(U)}]
  <2> SUFFICES ASSUME NEW U \in SUBSET T, U # {} PROVE g[U \ {Pick(U)}] = V[U \ {Pick(U)}]
    OBVIOUS
  <2> DEFINE W == U \ {Pick(U)}
  <2>1. Pick(U) \in U
    BY Picked
  <2>2. W \in SUBSET T /\ W # T
    BY <2>1
  <2> HIDE DEF W
  <2>3. g[W] = IF W = {} THEN 0 ELSE RowTotal(rows[Pick(W)]) + V[W \ {Pick(W)}]
    BY <2>2 DEF Adding
  <2> QED BY <1>4, <2>2, <2>3 DEF W
<1>6. Adds(rows, T, g)
  <2> HIDE DEF g
  <2>1. g = Adding(rows, T, V)
    BY DEF g
  <2>2. \A U \in SUBSET T :
           (IF U = {} THEN 0 ELSE RowTotal(rows[Pick(U)]) + V[U \ {Pick(U)}])
         = (IF U = {} THEN 0 ELSE RowTotal(rows[Pick(U)]) + g[U \ {Pick(U)}])
    BY <1>5
  <2>3. Adding(rows, T, V) = Adding(rows, T, g)
    BY <2>2 DEF Adding
  <2> QED BY <2>1, <2>3 DEF Adds
<1>7. \E f : Adds(rows, T, f)
  BY <1>6
<1> QED BY <1>0, <1>7 DEF B

(* The sum, opened at the row it takes first.                              *)
LEMMA SumStep ==
  ASSUME NEW rows, NEW S, IsFiniteSet(S)
  PROVE  /\ S = {} => TheSum(rows, S) = 0
         /\ S # {} => TheSum(rows, S) = RowTotal(rows[Pick(S)]) + TheSum(rows, S \ {Pick(S)})
<1> DEFINE g == CHOOSE g : Adds(rows, S, g)
           W == S \ {Pick(S)}
           h == CHOOSE h : Adds(rows, W, h)
<1>1. IsFiniteSet(W)
  BY FS_Subset
<1>2. Adds(rows, S, g)
  BY SumExists
<1> HIDE DEF W
<1>3. Adds(rows, W, h)
  BY <1>1, SumExists
<1>4. TheSum(rows, S) = g[S] /\ TheSum(rows, W) = h[W]
  BY DEF TheSum
<1> HIDE DEF g, h
<1>5. /\ S = {} => g[S] = 0
      /\ S # {} => g[S] = RowTotal(rows[Pick(S)]) + g[W]
  BY <1>2, AddsAt DEF W
<1>6. W \subseteq S
  BY DEF W
<1>7. g[W] = h[W]
  BY <1>1, <1>2, <1>3, <1>6, OneSum
<1> QED BY <1>4, <1>5, <1>7 DEF W

(* Rows that cost the same add up to the same.                             *)
LEMMA SameSum ==
  ASSUME NEW S, IsFiniteSet(S), NEW ra, NEW rb, \A p \in S : RowTotal(ra[p]) = RowTotal(rb[p])
  PROVE  TheSum(ra, S) = TheSum(rb, S)
<1> DEFINE g == CHOOSE g : Adds(ra, S, g)
           h == CHOOSE h : Adds(rb, S, h)
<1>1. Adds(ra, S, g)
  BY SumExists
<1>2. Adds(rb, S, h)
  BY SumExists
<1>3. TheSum(ra, S) = g[S] /\ TheSum(rb, S) = h[S]
  BY DEF TheSum
<1> HIDE DEF g, h
<1> QED BY <1>1, <1>2, <1>3, OneSum

(* A sum of natural numbers is one.                                        *)
LEMMA SumNat ==
  ASSUME NEW rows, NEW S, IsFiniteSet(S), \A p \in S : RowTotal(rows[p]) \in Nat
  PROVE  TheSum(rows, S) \in Nat
<1> DEFINE B == {T \in SUBSET S : TheSum(rows, T) \notin Nat}
<1> SUFFICES ASSUME B # {} PROVE FALSE
  OBVIOUS
<1>1. \E T \in B : \A U \in B : U \subseteq T => U = T
  <2>1. B \in SUBSET (SUBSET S)
    OBVIOUS
  <2> HIDE DEF B
  <2> QED BY <2>1, Smallest
<1>2. PICK T \in B : \A U \in B : U \subseteq T => U = T
  BY <1>1
<1>3. T \in SUBSET S /\ IsFiniteSet(T) /\ TheSum(rows, T) \notin Nat
  BY <1>2, FS_Subset
<1>4. T # {} /\ TheSum(rows, T) = RowTotal(rows[Pick(T)]) + TheSum(rows, T \ {Pick(T)})
  BY <1>3, SumStep
<1>5. Pick(T) \in T
  BY <1>4, Picked
<1>6. T \ {Pick(T)} \notin B
  BY <1>2, <1>5
<1>7. TheSum(rows, T \ {Pick(T)}) \in Nat
  BY <1>3, <1>6
<1> QED BY <1>3, <1>4, <1>5, <1>7

(* The order does not matter: any row can be taken out of the sum.         *)
LEMMA SumWithout ==
  ASSUME NEW rows, NEW S, IsFiniteSet(S), \A p \in S : RowTotal(rows[p]) \in Nat, NEW x \in S
  PROVE  TheSum(rows, S) = RowTotal(rows[x]) + TheSum(rows, S \ {x})
<1> DEFINE B == {T \in SUBSET S : \E z \in T :
                   TheSum(rows, T) # RowTotal(rows[z]) + TheSum(rows, T \ {z})}
<1> SUFFICES ASSUME B # {} PROVE FALSE
  OBVIOUS
<1>1. \E T \in B : \A U \in B : U \subseteq T => U = T
  <2>1. B \in SUBSET (SUBSET S)
    OBVIOUS
  <2> HIDE DEF B
  <2> QED BY <2>1, Smallest
<1>2. PICK T \in B : \A U \in B : U \subseteq T => U = T
  BY <1>1
<1>3. T \in SUBSET S /\ IsFiniteSet(T)
  BY <1>2, FS_Subset
<1>0. PICK z \in T : TheSum(rows, T) # RowTotal(rows[z]) + TheSum(rows, T \ {z})
  BY <1>2
<1> DEFINE y == Pick(T)
<1>4. y \in T /\ TheSum(rows, T) = RowTotal(rows[y]) + TheSum(rows, T \ {y})
  BY <1>3, <1>0, SumStep, Picked
<1> HIDE DEF y
<1>5. z # y
  BY <1>0, <1>4
<1> DEFINE U == (T \ {y}) \ {z}
<1>6. T \ {y} \notin B /\ z \in T \ {y} /\ T \ {y} \in SUBSET S
  BY <1>0, <1>2, <1>3, <1>4, <1>5
<1>7. TheSum(rows, T \ {y}) = RowTotal(rows[z]) + TheSum(rows, U)
  BY <1>6
<1>8. T \ {z} \notin B /\ y \in T \ {z} /\ T \ {z} \in SUBSET S
  BY <1>0, <1>2, <1>3, <1>4, <1>5
<1>9. TheSum(rows, T \ {z}) = RowTotal(rows[y]) + TheSum(rows, (T \ {z}) \ {y})
  BY <1>8
<1>10. (T \ {z}) \ {y} = U
  OBVIOUS
<1>11. TheSum(rows, U) \in Nat
  <2>1. U \in SUBSET S
    BY <1>3
  <2> QED BY <2>1, FS_Subset, SumNat
<1>12. RowTotal(rows[z]) \in Nat /\ RowTotal(rows[y]) \in Nat
  BY <1>3, <1>0, <1>4
<1>13. TheSum(rows, T \ {z}) = RowTotal(rows[y]) + TheSum(rows, U)
  BY <1>9, <1>10, Zenon
<1>14. TheSum(rows, T) = RowTotal(rows[y]) + (RowTotal(rows[z]) + TheSum(rows, U))
  BY <1>4, <1>7, Zenon
<1>15. TheSum(rows, T) # RowTotal(rows[z]) + (RowTotal(rows[y]) + TheSum(rows, U))
  BY <1>0, <1>13, Zenon
<1> HIDE DEF B, U
<1> QED BY <1>11, <1>12, <1>14, <1>15

(* Rows that cost nothing add up to nothing.                               *)
LEMMA SumZero ==
  ASSUME NEW rows, NEW S, IsFiniteSet(S), \A p \in S : RowTotal(rows[p]) = 0
  PROVE  TheSum(rows, S) = 0
<1> DEFINE B == {T \in SUBSET S : TheSum(rows, T) # 0}
<1> SUFFICES ASSUME B # {} PROVE FALSE
  OBVIOUS
<1>1. \E T \in B : \A U \in B : U \subseteq T => U = T
  <2>1. B \in SUBSET (SUBSET S)
    OBVIOUS
  <2> HIDE DEF B
  <2> QED BY <2>1, Smallest
<1>2. PICK T \in B : \A U \in B : U \subseteq T => U = T
  BY <1>1
<1>3. T \in SUBSET S /\ IsFiniteSet(T) /\ TheSum(rows, T) # 0
  BY <1>2, FS_Subset
<1>4. T # {} /\ TheSum(rows, T) = RowTotal(rows[Pick(T)]) + TheSum(rows, T \ {Pick(T)})
  BY <1>3, SumStep
<1>5. Pick(T) \in T
  BY <1>4, Picked
<1>6. T \ {Pick(T)} \notin B
  BY <1>2, <1>5
<1>7. TheSum(rows, T \ {Pick(T)}) = 0
  BY <1>3, <1>6
<1> QED BY <1>3, <1>4, <1>5, <1>7

(* A product of natural numbers is one.                                    *)
LEMMA NatTimes == ASSUME NEW a \in Nat, NEW b \in Nat PROVE a * b \in Nat
  OBVIOUS

(* More of what is not negative is no less.                                *)
LEMMA MoreTimes ==
  ASSUME NEW a \in Int, NEW b \in Int, a <= b, NEW c \in Nat PROVE a * c <= b * c
  OBVIOUS

(* The price of a row is a natural number, and nothing for a quantity of 0. *)
LEMMA TotalOfGood ==
  ASSUME NEW row, GoodRow(row)
  PROVE  /\ Cost(row) \in Nat /\ RowTotal(row) \in Nat /\ row.quantity \in Nat
         /\ RowTotal(row) = row.quantity * Cost(row)
         /\ row.quantity = 0 => RowTotal(row) = 0
<1>1. row.quantity \in Nat /\ row.price \in Nat /\ row.per \in Nat
  BY DEF GoodRow, Rows
<1>2. Cost(row) \in Nat
  BY <1>1, NatTimes DEF Cost
<1>3. RowTotal(row) = row.quantity * Cost(row)
  BY DEF RowTotal
<1>4. \A c \in Nat : 0 * c = 0
  OBVIOUS
<1> QED BY <1>1, <1>2, <1>3, <1>4, NatTimes

(* The rows of a page are finitely many and good.                          *)
GoodRows(rows) == IsFiniteSet(DOMAIN rows) /\ \A p \in DOMAIN rows : GoodRow(rows[p])

(* What one row contributes to the total, and what is left.                *)
LEMMA Apart ==
  ASSUME NEW rows, GoodRows(rows), NEW p \in DOMAIN rows
  PROVE  /\ TheSum(rows, Priced(rows) \ {p}) \in Nat
         /\ RowTotal(rows[p]) \in Nat
         /\ Total(rows) = RowTotal(rows[p]) + TheSum(rows, Priced(rows) \ {p})
<1> DEFINE S == Priced(rows)
<1>1. S \subseteq DOMAIN rows /\ IsFiniteSet(S) /\ IsFiniteSet(S \ {p})
  <2>1. S \subseteq DOMAIN rows BY DEF Priced
  <2> QED BY <2>1, FS_Subset DEF GoodRows
<1>2. \A q \in DOMAIN rows : RowTotal(rows[q]) \in Nat
  BY TotalOfGood DEF GoodRows
<1>3. Total(rows) = TheSum(rows, S)
  BY TotalIs
<1>4. p \in S <=> rows[p].quantity > 0
  BY DEF Priced
<1> HIDE DEF S
<1>5. TheSum(rows, S \ {p}) \in Nat
  BY <1>1, <1>2, SumNat
<1>6. CASE p \in S
  BY <1>1, <1>2, <1>3, <1>5, <1>6, SumWithout DEF S
<1>7. CASE p \notin S
  <2>1. S \ {p} = S
    BY <1>7
  <2>2. rows[p].quantity = 0
    BY <1>4, <1>7, TotalOfGood DEF GoodRows
  <2>3. RowTotal(rows[p]) = 0
    BY <2>2, TotalOfGood DEF GoodRows
  <2>4. Total(rows) = TheSum(rows, S \ {p})
    BY <1>3, <2>1, Zenon
  <2> HIDE DEF S
  <2> QED BY <1>5, <2>3, <2>4 DEF S
<1> QED BY <1>6, <1>7

(* A change of one row changes the total by the difference of its prices.  *)
LEMMA ChangeTotal ==
  ASSUME NEW rows, GoodRows(rows), rows = [q \in DOMAIN rows |-> rows[q]],
         NEW p \in DOMAIN rows, NEW row, GoodRow(row)
  PROVE  LET new == [rows EXCEPT ![p] = row] IN
         /\ GoodRows(new) /\ Total(new) \in Nat /\ Total(rows) \in Nat
         /\ Total(new) = Total(rows) - RowTotal(rows[p]) + RowTotal(row)
<1> DEFINE new == [rows EXCEPT ![p] = row]
<1>1. DOMAIN new = DOMAIN rows /\ new[p] = row /\ \A q \in DOMAIN rows \ {p} : new[q] = rows[q]
  OBVIOUS
<1> HIDE DEF new
<1>2. GoodRows(new)
  BY <1>1 DEF GoodRows
<1>3. Priced(new) \ {p} = Priced(rows) \ {p}
  BY <1>1 DEF Priced
<1> DEFINE S == Priced(rows) \ {p}
<1>4. IsFiniteSet(S)
  <2>1. S \subseteq DOMAIN rows BY DEF Priced
  <2> QED BY <2>1, FS_Subset DEF GoodRows
<1>5. \A q \in S : RowTotal(new[q]) = RowTotal(rows[q])
  BY <1>1 DEF Priced
<1> HIDE DEF S
<1>6. TheSum(new, S) = TheSum(rows, S)
  BY <1>4, <1>5, SameSum
<1>7. /\ TheSum(rows, S) \in Nat /\ RowTotal(rows[p]) \in Nat
      /\ Total(rows) = RowTotal(rows[p]) + TheSum(rows, S)
  BY Apart DEF S
<1>8. /\ TheSum(new, S) \in Nat /\ RowTotal(new[p]) \in Nat
      /\ Total(new) = RowTotal(new[p]) + TheSum(new, S)
  BY <1>1, <1>2, <1>3, Apart DEF S
<1> QED BY <1>1, <1>2, <1>6, <1>7, <1>8 DEF new

(* A page of rows that cost nothing costs nothing.                         *)
LEMMA NoTotal ==
  ASSUME NEW rows, GoodRows(rows), \A p \in DOMAIN rows : RowTotal(rows[p]) = 0
  PROVE  Total(rows) = 0
<1>1. Priced(rows) \subseteq DOMAIN rows
  BY DEF Priced
<1>2. IsFiniteSet(Priced(rows))
  BY <1>1, FS_Subset DEF GoodRows
<1> QED BY <1>1, <1>2, SumZero, TotalIs

(* The total of a page is a natural number. *)
LEMMA TotalNat == ASSUME NEW rows, GoodRows(rows) PROVE Total(rows) \in Nat
<1>1. Priced(rows) \subseteq DOMAIN rows
  BY DEF Priced
<1>2. IsFiniteSet(Priced(rows))
  BY <1>1, FS_Subset DEF GoodRows
<1>3. \A q \in Priced(rows) : RowTotal(rows[q]) \in Nat
  BY <1>1, TotalOfGood DEF GoodRows
<1> QED BY <1>2, <1>3, SumNat, TotalIs

-----------------------------------------------------------------------------
(* What comparing and dividing floats may answer.                          *)

(* A page comes out above the budget if it is, or by a rounding error ...  *)
LEMMA OverTrue ==
  ASSUME NEW rows, NEW limit \in Nat, TRUE \in OverBudget(rows, limit)
  PROVE  /\ limit > 0
         /\ \/ Total(rows) > limit * Unit
            \/ Total(rows) = limit * Unit /\ ~Exact(rows)
<1> DEFINE over == limit > 0 /\ Total(rows) > limit * Unit
           tie == limit > 0 /\ Total(rows) = limit * Unit /\ ~Exact(rows)
<1>1. CASE tie
  BY <1>1
<1>2. CASE ~tie
  <2>1. OverBudget(rows, limit) = {over}
    BY <1>2, Zenon DEF OverBudget
  <2>2. TRUE = over
    BY <2>1, Zenon
  <2> QED BY <2>2
<1> QED BY <1>1, <1>2

(* ... whichever it is ...                                                 *)
LEMMA TrueOver ==
  ASSUME NEW rows, NEW limit \in Nat, limit > 0, Total(rows) \in Int,
         Total(rows) > limit * Unit \/ (Total(rows) = limit * Unit /\ ~Exact(rows))
  PROVE  TRUE \in OverBudget(rows, limit)
<1> DEFINE over == limit > 0 /\ Total(rows) > limit * Unit
           tie == limit > 0 /\ Total(rows) = limit * Unit /\ ~Exact(rows)
<1>1. CASE tie
  <2>1. OverBudget(rows, limit) = BOOLEAN
    BY <1>1, Zenon DEF OverBudget
  <2> QED BY <2>1, Zenon
<1>2. CASE ~tie
  <2>1. OverBudget(rows, limit) = {over}
    BY <1>2, Zenon DEF OverBudget
  <2>2. over
    BY <1>2
  <2>3. over = TRUE
    BY <2>2, Zenon
  <2> QED BY <2>1, <2>3, Zenon
<1> QED BY <1>1, <1>2

(* ... and if its sum is above, it does not come out as one that fits.     *)
LEMMA OverFalse ==
  ASSUME NEW rows, NEW limit \in Nat, limit > 0, Total(rows) \in Int,
         Total(rows) > limit * Unit
  PROVE  FALSE \notin OverBudget(rows, limit)
<1> DEFINE over == limit > 0 /\ Total(rows) > limit * Unit
           tie == limit > 0 /\ Total(rows) = limit * Unit /\ ~Exact(rows)
<1>1. ~tie
  BY DEF Unit
<1>2. OverBudget(rows, limit) = {over}
  BY <1>1, Zenon DEF OverBudget
<1>3. over
  OBVIOUS
<1> QED BY <1>2, <1>3, Zenon

(* Whole pieces and a rest.                                                *)
LEMMA Division ==
  ASSUME NEW d \in Nat, NEW c \in Nat, c > 0
  PROVE  /\ d \div c \in Nat /\ d % c \in Nat /\ d % c < c
         /\ (d \div c) * c \in Nat /\ d = (d \div c) * c + (d % c)
<1> DEFINE k == d \div c
           r == d % c
<1>1. k \in Int /\ r \in 0..(c - 1) /\ d = c * k + r
  OBVIOUS
<1> HIDE DEF k, r
<1>2. k >= 0
  <2> SUFFICES ASSUME k <= -1 PROVE FALSE
    BY <1>1
  <2>1. c * k <= -c
    BY <1>1
  <2> QED BY <1>1, <2>1
<1>3. c * k = k * c /\ k * c \in Nat
  BY <1>1, <1>2
<1>4. k \in Nat /\ r \in Nat /\ r < c /\ k * c \in Nat /\ d = k * c + r
  BY <1>1, <1>2, <1>3
<1> QED BY <1>4, Zenon DEF k, r

(* The pieces taken of a product of a page that may be above the budget:   *)
(* one less leaves it there, and what they leave above it is negligible.   *)
LEMMA PiecesFacts ==
  ASSUME NEW rows, GoodRows(rows), rows = [q \in DOMAIN rows |-> rows[q]],
         NEW limit \in Nat, TRUE \in OverBudget(rows, limit),
         NEW p \in DOMAIN rows, RowTotal(rows[p]) > 0,
         NEW pieces \in PiecesNeeded(rows, limit, p)
  PROVE  LET c == Cost(rows[p]) * Unit
             d == Total(rows) - limit * Unit
         IN  /\ Cost(rows[p]) > 0 /\ c \in Nat /\ c > 0 /\ d \in Nat
             /\ pieces \in Nat /\ pieces >= 1
             /\ (pieces - 1) * c < d \/ ((pieces - 1) * c = d /\ ~Exact(rows))
             /\ d <= pieces * c \/ Negligible(d - pieces * c, c)
<1> DEFINE c == Cost(rows[p]) * Unit
           d == Total(rows) - limit * Unit
           whole == WholePieces(d, c)
           rest == d % c
<1>1. GoodRow(rows[p])
  BY DEF GoodRows
<1>2. Cost(rows[p]) \in Nat /\ Cost(rows[p]) > 0
  <2>1. Cost(rows[p]) \in Nat /\ rows[p].quantity \in Nat
        /\ RowTotal(rows[p]) = rows[p].quantity * Cost(rows[p])
    BY <1>1, TotalOfGood
  <2>2. rows[p].quantity * 0 = 0
    BY <2>1
  <2>3. Cost(rows[p]) # 0
    <3>1. SUFFICES ASSUME Cost(rows[p]) = 0 PROVE FALSE
      OBVIOUS
    <3>2. RowTotal(rows[p]) = 0
      BY <2>1, <2>2, <3>1, Zenon
    <3> QED BY <3>2
  <2> QED BY <2>1, <2>3
<1>3. c \in Nat /\ c > 0
  BY <1>2 DEF Unit
<1>4. Total(rows) \in Nat
  BY <1>1, ChangeTotal
<1>5. limit * Unit \in Nat
  BY DEF Unit
<1>6. d \in Nat /\ (d > 0 \/ ~Exact(rows))
  <2>1. limit > 0 /\ (\/ Total(rows) > limit * Unit
                      \/ Total(rows) = limit * Unit /\ ~Exact(rows))
    BY OverTrue
  <2> QED BY <1>4, <1>5, <2>1
<1>7. \/ pieces = AtLeast(whole, 1) /\ Negligible(rest, c)
      \/ pieces = whole + 1 /\ (rest > 0 \/ ~Exact(rows))
  BY DEF PiecesNeeded
<1> HIDE DEF c, d
<1>8. /\ whole \in Nat /\ rest \in Nat /\ rest < c
      /\ whole * c \in Nat /\ d = whole * c + rest
  BY <1>3, <1>6, Division DEF WholePieces
<1> HIDE DEF whole, rest
<1>9. CASE pieces = whole + 1 /\ (rest > 0 \/ ~Exact(rows))
  <2>1. pieces * c = whole * c + c
    BY <1>3, <1>8, <1>9
  <2>2. pieces - 1 = whole
    BY <1>8, <1>9
  <2>3. (pieces - 1) * c < d \/ ((pieces - 1) * c = d /\ ~Exact(rows))
    BY <1>8, <1>9, <2>2
  <2> QED BY <1>2, <1>3, <1>6, <1>8, <1>9, <2>1, <2>3 DEF c, d
<1>10. CASE pieces = AtLeast(whole, 1) /\ Negligible(rest, c)
  <2>1. CASE whole >= 1
    <3>1. pieces = whole
      BY <1>8, <1>10, <2>1 DEF AtLeast
    <3>2. (pieces - 1) * c = whole * c - c
      BY <1>3, <1>8, <3>1
    <3>3. (pieces - 1) * c < d
      BY <1>3, <1>8, <3>2
    <3>4. d - pieces * c = rest
      BY <1>8, <3>1
    <3>5. Negligible(d - pieces * c, c)
      BY <1>10, <3>4, Zenon
    <3> QED BY <1>2, <1>3, <1>6, <1>8, <2>1, <3>1, <3>3, <3>5 DEF c, d
  <2>2. CASE whole = 0
    <3>1. pieces = 1
      BY <1>10, <2>2 DEF AtLeast
    <3>2. (pieces - 1) * c = 0 /\ pieces * c = c /\ d = rest
      BY <1>3, <1>8, <2>2, <3>1
    <3> QED BY <1>2, <1>3, <1>6, <1>8, <3>1, <3>2 DEF c, d
  <2> QED BY <1>8, <2>1, <2>2
<1> QED BY <1>7, <1>9, <1>10

----------------------------------------------------------------------------
(* How a step changes one worker's memory and one row. *)

(* Another memory for one worker; the others' survive, sums being kept.    *)
LEMMA MemoryStep ==
  ASSUME Inv, TablesGood', SumsKept, NEW w \in Workers, NEW n,
         job' = [job EXCEPT ![w] = n], n = Idle \/ GoodMemory(n, product')
  PROVE  Inv'
<1>1. DOMAIN job' = Workers
  BY DEF Inv
<1>2. ASSUME NEW v \in Workers, job'[v] # Idle
      PROVE  GoodMemory(job'[v], product')
  <2>1. CASE v = w
    BY <1>2, <2>1 DEF Inv
  <2>2. CASE v # w
    <3>1. job'[v] = job[v] /\ GoodMemory(job[v], product)
      BY <1>2, <2>2 DEF Inv
    <3>2. DOMAIN job[v].rows \subseteq Products
      BY <3>1 DEF GoodMemory, IsJob
    <3>3. MovesOnly => \A p \in DOMAIN job[v].rows : Sum(job[v].rows[p]) = Sum(product'[p])
      BY <3>1, <3>2 DEF GoodMemory, SumsKept
    <3>4. QED
      BY <3>1, <3>3 DEF GoodMemory
  <2>3. QED
    BY <2>1, <2>2
<1>3. QED
  BY <1>1, <1>2 DEF Inv

(* Answering leaves nothing remembered. *)
LEMMA RespondStep ==
  ASSUME Inv, TablesGood', SumsKept, NEW w \in Workers, Respond(w)
  PROVE  Inv'
  BY MemoryStep DEF Respond

(* Another good row for one product.                                       *)
LEMMA RowStep ==
  ASSUME Inv, NEW p \in Products, NEW row, GoodRow(row), SetRow(p, row),
         MovesOnly => Sum(row) = Sum(product[p])
  PROVE  TablesGood' /\ SumsKept
<1>1. row \in Rows
  BY DEF GoodRow
<1>2. product' \in [Products -> Rows] /\ \A q \in Products : GoodRow(product'[q])
  BY <1>1 DEF Inv, TablesGood, SetRow
<1>3. SumsKept
  BY DEF Inv, TablesGood, SetRow, SumsKept
<1>4. QED
  BY <1>2, <1>3 DEF Inv, TablesGood, SetRow

(* Writing the two amounts of a good row, the other columns staying.       *)
LEMMA WriteStep ==
  ASSUME Inv, NEW p \in Products, NEW row, GoodRow(row), WriteQuantities(p, row),
         MovesOnly => Sum(row) = Sum(product[p])
  PROVE  TablesGood' /\ SumsKept
<1> DEFINE new == [product[p] EXCEPT !.quantity = row.quantity, !.held = row.held]
<1>1. product[p] \in Rows /\ row \in Rows
  BY DEF Inv, TablesGood, GoodRow
<1>2. new \in Rows /\ new.quantity = row.quantity /\ new.held = row.held
  BY <1>1 DEF Rows
<1>3. GoodRow(new) /\ (MovesOnly => Sum(new) = Sum(product[p]))
  BY <1>2 DEF GoodRow, Sum
<1>4. QED
  BY <1>3, RowStep DEF WriteQuantities

(* A statement that only reads. *)
LEMMA ReadOnly ==
  ASSUME Inv, UNCHANGED tables
  PROVE  TablesGood' /\ SumsKept
  BY DEF Inv, TablesGood, tables, SumsKept

(* A worker at a label has a good memory. *)
LEMMA AtLabel ==
  ASSUME Inv, NEW w \in Workers, NEW label \in Labels, At(w, label)
  PROVE  job[w] # Idle /\ GoodMemory(job[w], product) /\ job[w].pc = label
  BY DEF Inv, At, Labels, Idle

(* The rows read from the table are good rows. *)
LEMMA RowsOfGood ==
  ASSUME Inv, NEW ps \in SUBSET Products
  PROVE  /\ DOMAIN RowsOf(ps) = ps /\ RowsOf(ps) \in [ps -> Rows]
         /\ \A p \in ps : GoodRow(RowsOf(ps)[p]) /\ Sum(RowsOf(ps)[p]) = Sum(product[p])
  BY DEF Inv, TablesGood, RowsOf, Sum

(* The list names products. *)
LEMMA ListedProducts ==
  ASSUME NEW r \in RequestType
  PROVE  Listed(r) \in SUBSET Products
  BY ProductsAssumption DEF Listed, RequestType

(* A memory stays good while its label changes and sums are kept.          *)
LEMMA MemoryKept ==
  ASSUME NEW j, GoodMemory(j, product), SumsKept, NEW next \in Labels, next \notin {"edit", "row"},
         next \in KnowsRow => j.pc \in KnowsRow, j.pc # "trim"
  PROVE  /\ GoodMemory([j EXCEPT !.pc = next], product')
         /\ GoodMemory(j, product')
<1> DEFINE n == [j EXCEPT !.pc = next]
<1>1. j.pc \in Labels /\ j.req \in RequestType /\ DOMAIN j.rows \subseteq Products
  BY DEF GoodMemory, IsJob
<1>2. MovesOnly => \A p \in DOMAIN j.rows : Sum(j.rows[p]) = Sum(product'[p])
  BY <1>1 DEF GoodMemory, SumsKept
<1>3. GoodMemory(j, product')
  BY <1>2 DEF GoodMemory
<1>4. /\ n.pc = next /\ n.req = j.req /\ n.rows = j.rows /\ n.left = j.left
      /\ n.limit = j.limit /\ n.last = j.last /\ n.sent = j.sent
  BY DEF GoodMemory, IsJob
<1>5. QED
  BY <1>2, <1>3, <1>4 DEF GoodMemory, IsJob

(* Going on to another label with the same memory.                         *)
LEMMA GotoStep ==
  ASSUME Inv, TablesGood', SumsKept, NEW w \in Workers, NEW label \in Labels, At(w, label),
         NEW next \in Labels, Goto(w, next), next \notin {"edit", "row"},
         next \in KnowsRow => label \in KnowsRow, label # "trim"
  PROVE  Inv'
<1>1. GoodMemory(job[w], product) /\ job[w].pc = label
  BY AtLabel
<1>2. GoodMemory([job[w] EXCEPT !.pc = next], product')
  BY <1>1, MemoryKept
<1>3. job' = [job EXCEPT ![w] = [job[w] EXCEPT !.pc = next]]
  BY DEF Goto
<1>4. QED
  BY <1>2, <1>3, MemoryStep, Zenon

----------------------------------------------------------------------------
(* One lemma per action: it keeps the invariant and the sums. *)

(* A request arrives: nothing is remembered yet.                           *)
LEMMA BeginKeeps ==
  ASSUME Inv, NEW w \in Workers, Begin(w)
  PROVE  Inv' /\ SumsKept
<1>1. TablesGood' /\ SumsKept
  BY ReadOnly DEF Begin
<1>2. PICK r \in Requests :
        job' = [job EXCEPT ![w] =
          [pc |-> FirstLabel(r.op), req |-> r, rows |-> RowsOf({}), left |-> {},
           limit |-> 0, last |-> r.product, sent |-> 0]]
  BY DEF Begin
<1> DEFINE n == [pc |-> FirstLabel(r.op), req |-> r, rows |-> RowsOf({}), left |-> {},
                 limit |-> 0, last |-> r.product, sent |-> 0]
<1>3. r \in RequestType /\ r.product \in Products
  BY PageRequestsAssumption DEF RequestType
<1>4. n.pc \in {"total", "budget", "row"} /\ (n.pc = "row" => r.op \notin {"budget", "trim"})
  BY DEF FirstLabel
<1>5. DOMAIN n.rows = {} /\ n.rows \in [{} -> Rows]
  BY DEF RowsOf
<1>6. GoodMemory(n, product')
  BY <1>3, <1>4, <1>5 DEF GoodMemory, IsJob, Labels, KnowsRow
<1>7. QED
  BY <1>1, <1>2, <1>6, MemoryStep, Zenon

(* Reading rows of products before the loop: a good memory again.          *)
LEMMA RowsRead ==
  ASSUME Inv, NEW j, GoodMemory(j, product), j.pc # "trim", NEW ps \in SUBSET Products,
         NEW next \in Labels, next \notin {"trim", "row"},
         next \in KnowsRow => j.req.product \in ps, next = "edit" => j.req.op = "edit"
  PROVE  GoodMemory([j EXCEPT !.rows = RowsOf(ps), !.pc = next], product)
<1> DEFINE a == [j EXCEPT !.rows = RowsOf(ps)]
           n == [a EXCEPT !.pc = next]
<1>1. /\ DOMAIN RowsOf(ps) = ps /\ RowsOf(ps) \in [ps -> Rows]
      /\ \A p \in ps : GoodRow(RowsOf(ps)[p]) /\ Sum(RowsOf(ps)[p]) = Sum(product[p])
  BY RowsOfGood
<1>2. IsJob(j) /\ j.req \in Requests /\ j.left = {}
  BY DEF GoodMemory
<1>3. /\ n.pc = next /\ n.req = j.req /\ n.rows = RowsOf(ps) /\ n.left = {}
      /\ n.limit = j.limit /\ n.last = j.last /\ n.sent = j.sent
  BY <1>2 DEF IsJob
<1>4. QED
  BY <1>1, <1>2, <1>3 DEF GoodMemory, IsJob

(* The product the URL names is read.                                      *)
LEMMA ReadRowKeeps ==
  ASSUME Inv, NEW w \in Workers, ReadRow(w)
  PROVE  Inv' /\ SumsKept
<1> DEFINE j == job[w]
           next == IF j.req.op = "item" THEN "price" ELSE j.req.op
           n == [j EXCEPT !.rows = RowsOf({j.req.product}), !.pc = next]
<1>1. TablesGood' /\ SumsKept /\ product' = product
  BY ReadOnly DEF ReadRow, tables
<1>2. GoodMemory(j, product) /\ j.pc = "row"
  BY AtLabel DEF ReadRow, Labels
<1>3. j.req \in RequestType /\ j.req.product \in Products
  BY <1>2 DEF GoodMemory, IsJob, RequestType
<1>4. CASE Respond(w)
  BY <1>1, <1>4, RespondStep
<1>5. CASE job' = [job EXCEPT ![w] = n] /\ next \in KnowsRow
  <2>1. next \in Labels /\ next \notin {"trim", "row"} /\ (next = "edit" => j.req.op = "edit")
    BY <1>5 DEF KnowsRow, Labels
  <2>2. GoodMemory(n, product)
    BY <1>2, <1>3, <2>1, RowsRead
  <2>3. QED
    BY <1>1, <1>5, <2>2, MemoryStep, Zenon
<1>6. next \in KnowsRow
  BY <1>2, <1>3 DEF GoodMemory, RequestType, KnowsRow
<1>7. QED
  BY <1>4, <1>5, <1>6 DEF ReadRow

(* Other columns of one row: the two amounts stay.                         *)
LEMMA ColumnStep ==
  ASSUME Inv, NEW p \in Products, NEW row \in Rows, SetRow(p, row),
         row.quantity = product[p].quantity, row.held = product[p].held
  PROVE  TablesGood' /\ SumsKept
<1>1. GoodRow(row) /\ Sum(row) = Sum(product[p])
  BY DEF Inv, TablesGood, GoodRow, Sum
<1>2. QED
  BY <1>1, RowStep

(* What a form's number is stored as. *)
LEMMA ValueOfNat ==
  ASSUME NEW field \in Field, field \notin {Absent, Invalid}
  PROVE  ValueOf(field) \in Nat
  BY DEF ValueOf, Field, Cleared, Absent, Invalid

(* What is known of a handler at one of the labels that work on a row.     *)
LEMMA AtRow ==
  ASSUME Inv, NEW w \in Workers, NEW label \in KnowsRow, At(w, label)
  PROVE  LET j == job[w]
             p == j.req.product
         IN  /\ GoodMemory(j, product) /\ j.pc = label
             /\ j.req \in RequestType /\ p \in Products /\ j.req.qty \in Int
             /\ j.req.price \in Field /\ j.req.per \in Field
             /\ GoodRow(j.rows[p]) /\ j.rows[p] \in Rows
             /\ MovesOnly => Sum(j.rows[p]) = Sum(product[p])
             /\ TwoDecimals => Whole(j.req.qty)
             /\ product[p] \in Rows
<1>1. label \in Labels
  BY DEF KnowsRow, Labels
<1>2. GoodMemory(job[w], product) /\ job[w].pc = label
  BY <1>1, AtLabel
<1>3. job[w].req \in RequestType
  BY <1>2 DEF GoodMemory, IsJob
<1>4. QED
  BY <1>2, <1>3 DEF GoodMemory, GoodRow, RequestType, Inv, TablesGood, TwoDecimals

(* The price form's first statement. *)
LEMMA SetPriceKeeps ==
  ASSUME Inv, NEW w \in Workers, SetPrice(w)
  PROVE  Inv' /\ SumsKept
<1> DEFINE r == job[w].req
           p == r.product
           row == [product[p] EXCEPT !.price = ValueOf(r.price)]
<1>1. At(w, "price") /\ "price" \in KnowsRow
  BY DEF SetPrice, KnowsRow
<1>2. p \in Products /\ r.price \in Field /\ product[p] \in Rows
  BY <1>1, AtRow
<1>3. TablesGood' /\ SumsKept
  <2>1. CASE UNCHANGED tables
    BY <2>1, ReadOnly
  <2>2. CASE r.price \notin {Absent, Invalid} /\ SetRow(p, row)
    <3>1. ValueOf(r.price) \in Nat
      BY <1>2, <2>2, ValueOfNat
    <3>2. row \in Rows /\ row.quantity = product[p].quantity /\ row.held = product[p].held
      BY <1>2, <3>1 DEF Rows
    <3>3. QED
      BY <1>2, <2>2, <3>2, ColumnStep
  <2>3. QED
    BY <2>1, <2>2 DEF SetPrice
<1>4. CASE Respond(w)
  BY <1>3, <1>4, RespondStep
<1>5. CASE Goto(w, "per")
  BY <1>1, <1>3, <1>5, GotoStep DEF Labels, KnowsRow
<1>6. QED
  BY <1>3, <1>4, <1>5 DEF SetPrice

(* Its second statement. *)
LEMMA SetPerKeeps ==
  ASSUME Inv, NEW w \in Workers, SetPer(w)
  PROVE  Inv' /\ SumsKept
<1> DEFINE r == job[w].req
           p == r.product
           row == [product[p] EXCEPT !.per = ValueOf(r.per)]
<1>1. At(w, "per") /\ "per" \in KnowsRow
  BY DEF SetPer, KnowsRow
<1>2. p \in Products /\ r.per \in Field /\ product[p] \in Rows
  BY <1>1, AtRow
<1>3. TablesGood' /\ SumsKept
  <2>1. CASE UNCHANGED tables
    BY <2>1, ReadOnly
  <2>2. CASE r.per \notin {Absent, Invalid} /\ SetRow(p, row)
    <3>1. ValueOf(r.per) \in Nat
      BY <1>2, <2>2, ValueOfNat
    <3>2. row \in Rows /\ row.quantity = product[p].quantity /\ row.held = product[p].held
      BY <1>2, <3>1 DEF Rows
    <3>3. QED
      BY <1>2, <2>2, <3>2, ColumnStep
  <2>3. QED
    BY <2>1, <2>2 DEF SetPer
<1>4. CASE Respond(w)
  BY <1>3, <1>4, RespondStep
<1>5. CASE Goto(w, "link")
  BY <1>1, <1>3, <1>5, GotoStep DEF Labels, KnowsRow
<1>6. QED
  BY <1>3, <1>4, <1>5 DEF SetPer

(* Its third statement. *)
LEMMA SetLinkKeeps ==
  ASSUME Inv, NEW w \in Workers, SetLink(w)
  PROVE  Inv' /\ SumsKept
<1> DEFINE p == job[w].req.product
           row == [product[p] EXCEPT !.link = (job[w].req.link = "set")]
<1>1. p \in Products /\ product[p] \in Rows
  BY AtRow DEF SetLink, KnowsRow
<1>2. row \in Rows /\ row.quantity = product[p].quantity /\ row.held = product[p].held
  BY <1>1 DEF Rows
<1>3. UNCHANGED tables \/ SetRow(p, row)
  BY DEF SetLink
<1>4. TablesGood' /\ SumsKept
  BY <1>1, <1>2, <1>3, ReadOnly, ColumnStep
<1>5. QED
  BY <1>4, RespondStep DEF SetLink

(* The budget form. *)
LEMMA SetBudgetKeeps ==
  ASSUME Inv, NEW w \in Workers, SetBudget(w)
  PROVE  Inv' /\ SumsKept
<1> DEFINE r == job[w].req
<1>1. r \in RequestType /\ r.price \in Field /\ r.user \in Users
  BY AtLabel DEF SetBudget, Labels, GoodMemory, IsJob, RequestType
<1>2. AtLeast(ValueOf(r.price), 0) \in Nat
  BY <1>1 DEF AtLeast, ValueOf, Field, Cleared, Absent, Invalid
<1>3. budget' \in [Users -> Nat] /\ product' = product
  BY <1>1, <1>2 DEF SetBudget, Inv, TablesGood
<1>4. TablesGood' /\ SumsKept
  BY <1>3 DEF Inv, TablesGood, SumsKept
<1>5. QED
  BY <1>4, RespondStep DEF SetBudget
(* Sending to the next purchase: computed from an old row, but the sums of *)
(* the old row and the new one are the same.                               *)
LEMMA ApplyNextQtyKeeps ==
  ASSUME Inv, NEW w \in Workers, ApplyNextQty(w)
  PROVE  Inv' /\ SumsKept
<1> DEFINE p == job[w].req.product
           row == job[w].rows[p]
           qty == job[w].req.qty
           send == Sendable(row, qty)
           moved == Moved(row, row.quantity - send, row.held + send)
<1>1. /\ p \in Products /\ qty \in Int /\ GoodRow(row) /\ row \in Rows
      /\ MovesOnly => Sum(row) = Sum(product[p])
      /\ TwoDecimals => Whole(qty)
  BY AtRow DEF ApplyNextQty, KnowsRow
<1>2. /\ send \in Int /\ row.quantity - send >= 0 /\ row.held + send >= 0
      /\ TwoDecimals => Whole(send)
  <2>1. row.quantity >= 0 /\ row.held >= 0 /\ row.quantity \in Int /\ row.held \in Int
    BY <1>1 DEF GoodRow, Rows
  <2>2. send \in Int /\ send <= row.quantity /\ send >= 0
    BY <1>1, <2>1, SendableFacts
  <2>3. TwoDecimals => Whole(send)
    BY <1>1, SendableFacts DEF GoodRow
  <2>4. QED
    BY <2>1, <2>2, <2>3
<1>3. GoodRow(moved) /\ (TwoDecimals => Sum(moved) = Sum(row))
  BY <1>1, <1>2, MovedGood
<1>4. UNCHANGED tables \/ WriteQuantities(p, moved)
  BY DEF ApplyNextQty
<1>5. TablesGood' /\ SumsKept
  <2>1. CASE UNCHANGED tables
    BY <2>1, ReadOnly
  <2>2. CASE WriteQuantities(p, moved)
    BY <1>1, <1>3, <2>2, WriteStep DEF MovesOnly
  <2>3. QED
    BY <1>4, <2>1, <2>2
<1>6. QED
  BY <1>5, RespondStep DEF ApplyNextQty

(* Bringing back: the same with the sign reversed. *)
LEMMA RestoreNextQtyKeeps ==
  ASSUME Inv, NEW w \in Workers, RestoreNextQty(w)
  PROVE  Inv' /\ SumsKept
<1> DEFINE p == job[w].req.product
           row == job[w].rows[p]
           qty == job[w].req.qty
           back == Returnable(row, qty)
           send == -back
           moved == Moved(row, row.quantity + back, row.held - back)
<1>1. /\ p \in Products /\ qty \in Int /\ GoodRow(row) /\ row \in Rows
      /\ MovesOnly => Sum(row) = Sum(product[p])
      /\ TwoDecimals => Whole(qty)
  BY AtRow DEF RestoreNextQty, KnowsRow
<1>2. row.quantity >= 0 /\ row.held >= 0 /\ row.quantity \in Int /\ row.held \in Int
  BY <1>1 DEF GoodRow, Rows
<1>3. back \in Int /\ back <= row.held /\ back >= 0
  BY <1>1, <1>2, SendableFacts
<1>4. TwoDecimals => Whole(back)
  BY <1>1, SendableFacts DEF GoodRow
<1>5. /\ send \in Int /\ row.quantity - send >= 0 /\ row.held + send >= 0
      /\ row.quantity - send = row.quantity + back /\ row.held + send = row.held - back
  BY <1>2, <1>3
<1>6. TwoDecimals => Whole(send)
  BY <1>3, <1>4 DEF Whole
<1>7. GoodRow(moved) /\ (TwoDecimals => Sum(moved) = Sum(row))
  BY <1>1, <1>5, <1>6, MovedGood
<1>8. UNCHANGED tables \/ WriteQuantities(p, moved)
  BY DEF RestoreNextQty
<1>9. TablesGood' /\ SumsKept
  <2>1. CASE UNCHANGED tables
    BY <2>1, ReadOnly
  <2>2. CASE WriteQuantities(p, moved)
    BY <1>1, <1>7, <2>2, WriteStep DEF MovesOnly
  <2>3. QED
    BY <1>8, <2>1, <2>2
<1>10. QED
  BY <1>9, RespondStep DEF RestoreNextQty

(* The product form: among clients that only move nobody sends it.         *)
LEMMA EditQuantityKeeps ==
  ASSUME Inv, NEW w \in Workers, EditQuantity(w)
  PROVE  Inv' /\ SumsKept
<1> DEFINE r == job[w].req
           p == r.product
           row == [product[p] EXCEPT !.quantity = r.qty]
<1>1. /\ GoodMemory(job[w], product) /\ job[w].pc = "edit" /\ r \in RequestType
      /\ p \in Products /\ product[p] \in Rows
  BY AtRow DEF EditQuantity, KnowsRow
<1>2. ~MovesOnly
  BY <1>1 DEF GoodMemory, MovesOnly
<1>3. r.qty \in Nat /\ (TwoDecimals => Whole(r.qty))
  BY <1>1 DEF RequestType, GoodMemory, TwoDecimals
<1>4. GoodRow(row)
  BY <1>1, <1>3 DEF Inv, TablesGood, GoodRow, Rows
<1>5. TablesGood' /\ SumsKept
  BY <1>1, <1>2, <1>4, RowStep DEF EditQuantity
<1>6. QED
  BY <1>5, RespondStep DEF EditQuantity

(* Archiving and unarchiving. *)
LEMMA SetArchivedKeeps ==
  ASSUME Inv, NEW w \in Workers, SetArchived(w)
  PROVE  Inv' /\ SumsKept
<1> DEFINE p == job[w].req.product
<1>1. p \in Products /\ product[p] \in Rows
  BY AtRow DEF SetArchived, KnowsRow
<1>2. PICK archived \in BOOLEAN : SetRow(p, [product[p] EXCEPT !.archived = archived])
  BY DEF SetArchived
<1> DEFINE row == [product[p] EXCEPT !.archived = archived]
<1>3. row \in Rows /\ row.quantity = product[p].quantity /\ row.held = product[p].held
  BY <1>1 DEF Rows
<1>4. TablesGood' /\ SumsKept
  BY <1>1, <1>2, <1>3, ColumnStep
<1>5. QED
  BY <1>4, RespondStep DEF SetArchived

(* The page's total is read from the rows listed now. *)
LEMMA ReadTotalKeeps ==
  ASSUME Inv, NEW w \in Workers, ReadTotal(w)
  PROVE  Inv' /\ SumsKept
<1> DEFINE j == job[w]
           n == [j EXCEPT !.rows = RowsOf(Listed(j.req)), !.pc = "limit"]
<1>1. TablesGood' /\ SumsKept /\ product' = product
  BY ReadOnly DEF ReadTotal, tables
<1>2. GoodMemory(j, product) /\ j.pc = "total"
  BY AtLabel DEF ReadTotal, Labels
<1>3. Listed(j.req) \in SUBSET Products
  BY <1>2, ListedProducts DEF GoodMemory, IsJob
<1>4. GoodMemory(n, product)
  BY <1>2, <1>3, RowsRead DEF Labels, KnowsRow
<1>5. job' = [job EXCEPT ![w] = n]
  BY DEF ReadTotal
<1>6. QED
  BY <1>1, <1>4, <1>5, MemoryStep, Zenon

(* The budget is read and compared. *)
LEMMA ReadLimitKeeps ==
  ASSUME Inv, NEW w \in Workers, ReadLimit(w)
  PROVE  Inv' /\ SumsKept
<1> DEFINE j == job[w]
           limit == budget[j.req.user]
           a == [j EXCEPT !.limit = limit]
           n == [a EXCEPT !.pc = "list"]
<1>1. TablesGood' /\ SumsKept /\ product' = product
  BY ReadOnly DEF ReadLimit, tables
<1>2. GoodMemory(j, product) /\ IsJob(j) /\ j.pc = "limit" /\ j.req \in RequestType
  BY AtLabel DEF ReadLimit, Labels, GoodMemory, IsJob
<1>3. limit \in Nat
  BY <1>2 DEF RequestType, Inv, TablesGood
<1>4. /\ n.pc = "list" /\ n.req = j.req /\ n.rows = j.rows /\ n.left = j.left
      /\ n.limit = limit /\ n.last = j.last /\ n.sent = j.sent
  BY <1>2 DEF IsJob
<1>5. GoodMemory(n, product)
  BY <1>2, <1>3, <1>4 DEF GoodMemory, IsJob, Labels, KnowsRow
<1>6. Respond(w) \/ job' = [job EXCEPT ![w] = n]
  BY DEF ReadLimit
<1>7. CASE Respond(w)
  BY <1>1, <1>7, RespondStep
<1>8. CASE job' = [job EXCEPT ![w] = n]
  BY <1>1, <1>5, <1>8, MemoryStep, Zenon
<1>9. QED
  BY <1>1, <1>6, <1>7, <1>8

(* The rows the loop works on are read. *)
LEMMA ReadListKeeps ==
  ASSUME Inv, NEW w \in Workers, ReadList(w)
  PROVE  Inv' /\ SumsKept
<1> DEFINE j == job[w]
           ps == Listed(j.req)
           a == [j EXCEPT !.rows = RowsOf(ps)]
           b == [a EXCEPT !.left = ps]
           n == [b EXCEPT !.pc = "trim"]
<1>1. TablesGood' /\ SumsKept /\ product' = product
  BY ReadOnly DEF ReadList, tables
<1>2. GoodMemory(j, product) /\ IsJob(j) /\ j.req \in RequestType
  BY AtLabel DEF ReadList, Labels, GoodMemory, IsJob
<1>3. ps \in SUBSET Products
  BY <1>2, ListedProducts
<1>4. /\ DOMAIN RowsOf(ps) = ps /\ RowsOf(ps) \in [ps -> Rows]
      /\ \A p \in ps : GoodRow(RowsOf(ps)[p]) /\ Sum(RowsOf(ps)[p]) = Sum(product[p])
  BY <1>3, RowsOfGood
<1>5. /\ n.pc = "trim" /\ n.req = j.req /\ n.rows = RowsOf(ps) /\ n.left = ps
      /\ n.limit = j.limit /\ n.last = j.last /\ n.sent = j.sent
  BY <1>2 DEF IsJob
<1>6. GoodMemory(n, product)
  BY <1>2, <1>3, <1>4, <1>5 DEF GoodMemory, IsJob, Labels, KnowsRow
<1>7. job' = [job EXCEPT ![w] = n]
  BY DEF ReadList
<1>8. QED
  BY <1>1, <1>6, <1>7, MemoryStep, Zenon

(* What one round of the loop sends is no more than the row has.           *)
LEMMA TrimSends ==
  ASSUME NEW row, GoodRow(row), NEW pieces \in Nat
  PROVE  LET send == Sendable(row, Stored(AtMost(pieces * Unit, row.quantity)))
         IN  /\ send \in Int /\ row.quantity - send >= 0 /\ row.held + send >= 0
             /\ TwoDecimals => Whole(send)
<1> DEFINE most == AtMost(pieces * Unit, row.quantity)
           send == Sendable(row, Stored(most))
<1>1. row \in Rows /\ row.quantity \in Int /\ row.held \in Int
      /\ row.quantity >= 0 /\ row.held >= 0
  BY DEF GoodRow, Rows
<1>2. most \in Int
  BY <1>1 DEF AtMost, Unit
<1>3. Stored(most) \in Int
  BY <1>2, StoredFacts
<1>4. send \in Int /\ send <= row.quantity /\ send >= 0
  BY <1>1, <1>3, SendableFacts
<1>5. ASSUME TwoDecimals
      PROVE  Whole(send)
  <2>1. Whole(row.quantity)
    BY <1>5 DEF GoodRow
  <2>2. Whole(pieces * Unit)
    BY DEF Whole, Unit
  <2>3. Whole(most)
    BY <2>1, <2>2 DEF AtMost
  <2>4. Stored(most) = most
    BY <1>2, <2>3, StoredFacts
  <2>5. QED
    BY <1>1, <1>3, <2>1, <2>3, <2>4, SendableFacts
<1>6. QED
  BY <1>1, <1>4, <1>5

(* One round of the loop: the write and the remembered row stay in step.   *)
LEMMA TrimProductKeeps ==
  ASSUME Inv, NEW w \in Workers, TrimProduct(w)
  PROVE  Inv' /\ SumsKept
<1> DEFINE j == job[w]
<1>1. /\ GoodMemory(j, product) /\ IsJob(j) /\ j.pc = "trim"
  BY AtLabel DEF TrimProduct, Labels, GoodMemory
<1>2. PICK p \in Trimmable(j) : \E pieces \in PiecesNeeded(j.rows, j.limit, p) :
       LET row == j.rows[p]
           send == Sendable(row, Stored(AtMost(pieces * Unit, row.quantity)))
           moved == Moved(row, row.quantity - send, row.held + send)
       IN /\ WriteQuantities(p, moved)
          /\ job' = [job EXCEPT ![w] =
               [j EXCEPT !.rows = [j.rows EXCEPT ![p] = moved],
                         !.left = {q \in j.left : Place[q] < Place[p]},
                         !.last = p, !.sent = send]]
  BY DEF TrimProduct
<1>3. PICK pieces \in PiecesNeeded(j.rows, j.limit, p) :
       LET row == j.rows[p]
           send == Sendable(row, Stored(AtMost(pieces * Unit, row.quantity)))
           moved == Moved(row, row.quantity - send, row.held + send)
       IN /\ WriteQuantities(p, moved)
          /\ job' = [job EXCEPT ![w] =
               [j EXCEPT !.rows = [j.rows EXCEPT ![p] = moved],
                         !.left = {q \in j.left : Place[q] < Place[p]},
                         !.last = p, !.sent = send]]
  BY <1>2
<1> DEFINE row == j.rows[p]
           send == Sendable(row, Stored(AtMost(pieces * Unit, row.quantity)))
           moved == Moved(row, row.quantity - send, row.held + send)
           left == {q \in j.left : Place[q] < Place[p]}
           rows == [j.rows EXCEPT ![p] = moved]
           n == [j EXCEPT !.rows = rows, !.left = left, !.last = p, !.sent = send]
<1>4. WriteQuantities(p, moved) /\ job' = [job EXCEPT ![w] = n]
  BY <1>3, Zenon
<1>5. p \in DOMAIN j.rows /\ p \in Products /\ j.left \subseteq DOMAIN j.rows
      /\ DOMAIN j.rows \subseteq Products /\ j.rows \in [DOMAIN j.rows -> Rows]
  BY <1>1, <1>2 DEF Trimmable, IsJob
<1>6. GoodRow(row) /\ (MovesOnly => Sum(row) = Sum(product[p]))
  BY <1>1, <1>5 DEF GoodMemory
<1>7. send \in Int /\ row.quantity - send >= 0 /\ row.held + send >= 0
      /\ (TwoDecimals => Whole(send))
  <2>1. GoodRows(j.rows)
    <3>1. IsFiniteSet(DOMAIN j.rows)
      BY <1>5, FS_Subset, ProductsAssumption
    <3> QED BY <1>1, <3>1 DEF GoodMemory, GoodRows
  <2>2. TRUE \in OverBudget(j.rows, j.limit) /\ RowTotal(row) > 0
    BY <1>2 DEF TrimProduct, Trimmable
  <2>3. pieces \in Nat
    BY <1>1, <1>3, <1>5, <2>1, <2>2, PiecesFacts DEF IsJob
  <2> QED BY <1>6, <2>3, TrimSends
<1> HIDE DEF send
<1>8. GoodRow(moved) /\ (TwoDecimals => Sum(moved) = Sum(row))
  BY <1>6, <1>7, MovedGood
<1> HIDE DEF moved
<1>9. TablesGood' /\ SumsKept
  BY <1>4, <1>5, <1>6, <1>8, WriteStep DEF MovesOnly
<1>10. GoodMemory(n, product')
  <2>1. DOMAIN rows = DOMAIN j.rows /\ rows \in [DOMAIN j.rows -> Rows]
        /\ \A q \in DOMAIN j.rows : rows[q] = (IF q = p THEN moved ELSE j.rows[q])
    BY <1>5, <1>8 DEF GoodRow
  <2>2. \A q \in DOMAIN j.rows : GoodRow(rows[q])
    BY <1>1, <1>8, <2>1 DEF GoodMemory
  <2>3. MovesOnly => \A q \in DOMAIN j.rows : Sum(rows[q]) = Sum(product'[q])
    <3>1. MovesOnly => \A q \in DOMAIN j.rows : Sum(rows[q]) = Sum(j.rows[q])
      BY <1>8, <2>1 DEF MovesOnly
    <3>2. MovesOnly => \A q \in DOMAIN j.rows : Sum(j.rows[q]) = Sum(product'[q])
      BY <1>1, <1>5, <1>9 DEF GoodMemory, SumsKept
    <3>3. QED
      BY <3>1, <3>2
  <2>4. left \subseteq DOMAIN j.rows
    BY <1>5
  <2> HIDE DEF rows, left
  <2>5. /\ n.pc = "trim" /\ n.req = j.req /\ n.rows = rows /\ n.left = left
        /\ n.limit = j.limit /\ n.last = p /\ n.sent = send
    BY <1>1 DEF IsJob
  <2>6. QED
    BY <1>1, <1>5, <1>7, <2>1, <2>2, <2>3, <2>4, <2>5 DEF GoodMemory, IsJob, KnowsRow
<1>11. QED
  BY <1>4, <1>9, <1>10, MemoryStep, Zenon

(* The loop ends. *)
LEMMA TrimEndsKeeps ==
  ASSUME Inv, NEW w \in Workers, TrimEnds(w)
  PROVE  Inv' /\ SumsKept
  BY ReadOnly, RespondStep DEF TrimEnds

----------------------------------------------------------------------------
(* The invariant *)

(* New rows hold what their forms held. *)
LEMMA InitInv == Init => Inv
<1> SUFFICES ASSUME Init PROVE Inv
  OBVIOUS
<1>1. ASSUME NEW p \in Products
      PROVE  product[p] \in Rows /\ GoodRow(product[p])
  BY ProductsAssumption DEF Init, Rows, GoodRow, TwoDecimals, Whole
<1>2. QED
  BY <1>1 DEF Init, Inv, TablesGood

(* No step breaks the invariant, and if only moves are made no step        *)
(* changes a sum.                                                          *)
LEMMA NextInv == Inv /\ [Next]_vars => Inv' /\ SumsKept
<1> SUFFICES ASSUME Inv, [Next]_vars PROVE Inv' /\ SumsKept
  OBVIOUS
<1>1. CASE UNCHANGED vars
  <2>1. TablesGood' /\ SumsKept
    BY <1>1, ReadOnly DEF vars, tables
  <2>2. product' = product /\ job' = job
    BY <1>1 DEF vars
  <2>3. QED
    BY <2>1, <2>2 DEF Inv
<1>2. ASSUME NEW w \in Workers,
             \/ Begin(w) \/ ReadRow(w)
             \/ SetPrice(w) \/ SetPer(w) \/ SetLink(w) \/ SetBudget(w)
             \/ ApplyNextQty(w) \/ RestoreNextQty(w) \/ EditQuantity(w) \/ SetArchived(w)
             \/ ReadTotal(w) \/ ReadLimit(w) \/ ReadList(w) \/ TrimProduct(w) \/ TrimEnds(w)
      PROVE  Inv' /\ SumsKept
  BY <1>2, BeginKeeps, ReadRowKeeps, SetPriceKeeps, SetPerKeeps, SetLinkKeeps, SetBudgetKeeps,
     ApplyNextQtyKeeps, RestoreNextQtyKeeps, EditQuantityKeeps, SetArchivedKeeps,
     ReadTotalKeeps, ReadLimitKeeps, ReadListKeeps, TrimProductKeeps, TrimEndsKeeps
<1>3. QED
  BY <1>1, <1>2 DEF Next

(* The inductive invariant of the page.                                    *)
THEOREM PageInvariance == Spec => []Inv
<1>1. Inv /\ [Next]_vars => Inv'
  BY NextInv
<1>2. QED
  BY InitInv, <1>1, PTL DEF Spec

(* Tables and memories are well-typed.                                     *)
THEOREM PageTypeCorrect == Spec => []TypeOK
<1>1. Inv => TypeOK
  BY DEF Inv, TablesGood, TypeOK, GoodMemory
<1>2. QED
  BY PageInvariance, <1>1, PTL

(* Whatever amounts clients name and however old the rows their moves are  *)
(* computed from, no product and no next purchase goes below zero.         *)
THEOREM NothingOverdrawn == Spec => []NoOverdraft
<1>1. Inv => NoOverdraft
  BY DEF Inv, TablesGood, GoodRow, NoOverdraft
<1>2. QED
  BY PageInvariance, <1>1, PTL

(* With amounts of two decimals and clients that only move quantities, a   *)
(* product's two amounts add up to the same for ever: two workers that     *)
(* write back old rows lose nothing.                                       *)
THEOREM MovesConserve ==
  ASSUME MovesOnly
  PROVE  Spec => QuantityConserved
<1>1. Inv /\ [Next]_vars =>
        [\A p \in Products :
           Sum(product'[p]) # Sum(product[p]) =>
             \E w \in Workers : At(w, "edit") /\ job[w].req.product = p /\ job'[w] = Idle]_vars
  BY NextInv DEF SumsKept
<1>2. QED
  BY PageInvariance, <1>1, PTL DEF Spec, QuantityConserved

-----------------------------------------------------------------------------
(* Trims, in one process.                                                  *)

(* npm start: one worker, and a handler of app.js answers before the next   *)
(* one begins.                                                             *)
OneWorker == \A v, w \in Workers : v = w

(* What is remembered is the list of now. *)
Live(j, table) ==
  /\ DOMAIN j.rows = {p \in Sees[j.req.user] : ~table[p].archived
                                               /\ j.req.supplier \in {0, SupplierOf[p]}}
  /\ \A p \in DOMAIN j.rows : j.rows[p] = table[p]

(* What a trim at its loop knows: the budget and the list are those of now; *)
(* the rows behind it cost nothing unless the page fits, all but           *)
(* negligibly; and without the last piece it took, the page could be over  *)
(* the budget.                                                             *)
TrimOK(j, table, money) ==
  /\ j.pc \in {"list", "trim"} => j.limit = money[j.req.user] /\ j.limit > 0
  /\ j.pc # "trim" => j.sent = 0
  /\ j.pc = "trim" =>
       /\ Live(j, table)
       /\ \/ AlmostFits(j.rows, j.limit)
          \/ \A p \in DOMAIN j.rows \ j.left : RowTotal(j.rows[p]) = 0
       /\ j.sent > 0 =>
            TRUE \in OverBudget(PutBack(j.rows, j.last, AtMost(j.sent, Unit)), j.limit)

(* Every handler that trims knows that.                                    *)
TrimInv == \A w \in Workers : job[w] # Idle => TrimOK(job[w], product, budget)

(* One worker: its step is the only one. *)
LEMMA TrimStep ==
  ASSUME OneWorker, Inv, TrimInv, NEW w \in Workers, NEW n, job' = [job EXCEPT ![w] = n],
         n = Idle \/ TrimOK(n, product', budget')
  PROVE  TrimInv'
<1>1. \A v \in Workers : v = w
  BY DEF OneWorker
<1>2. job'[w] = n
  BY DEF Inv
<1> QED BY <1>1, <1>2 DEF TrimInv

(* A handler that answers leaves nothing to know.                          *)
LEMMA TrimAnswered ==
  ASSUME OneWorker, Inv, TrimInv, NEW w \in Workers, Respond(w)
  PROVE  TrimInv'
BY TrimStep DEF Respond

(* A handler that is no trim at its loop has sent nothing. *)
LEMMA TrimElsewhere ==
  ASSUME OneWorker, Inv, TrimInv, NEW w \in Workers, NEW n, job' = [job EXCEPT ![w] = n],
         n.pc \notin {"list", "trim"}, n.sent = 0
  PROVE  TrimInv'
<1>1. TrimOK(n, product', budget')
  BY DEF TrimOK
<1> QED BY <1>1, TrimStep

(* A handler that goes on to a label that is not the trim's.               *)
LEMMA TrimGoesOn ==
  ASSUME OneWorker, Inv, TrimInv, NEW w \in Workers, NEW label \in Labels, At(w, label),
         label # "trim", NEW next, next \notin {"list", "trim"}, Goto(w, next)
  PROVE  TrimInv'
<1> DEFINE n == [job[w] EXCEPT !.pc = next]
<1>1. GoodMemory(job[w], product) /\ job[w].pc = label /\ job[w] # Idle
  BY AtLabel
<1>2. job[w].sent = 0
  BY <1>1 DEF TrimInv, TrimOK
<1>3. n.pc = next /\ n.sent = 0
  BY <1>1, <1>2 DEF GoodMemory, IsJob
<1>4. job' = [job EXCEPT ![w] = n]
  BY DEF Goto
<1> HIDE DEF n
<1> QED BY <1>3, <1>4, TrimElsewhere

(* A handler at a label other than the loop's has sent nothing. *)
LEMMA NothingSent ==
  ASSUME Inv, TrimInv, NEW w \in Workers, NEW label \in Labels, At(w, label), label # "trim"
  PROVE  GoodMemory(job[w], product) /\ IsJob(job[w]) /\ job[w].pc = label /\ job[w].sent = 0
<1>1. GoodMemory(job[w], product) /\ job[w].pc = label /\ job[w] # Idle
  BY AtLabel
<1> QED BY <1>1 DEF TrimInv, TrimOK, GoodMemory

(* A request that arrives has sent nothing.                                *)
LEMMA TrimBegins ==
  ASSUME OneWorker, Inv, TrimInv, NEW w \in Workers, Begin(w)
  PROVE  TrimInv'
<1>1. PICK r \in Requests :
         job' = [job EXCEPT ![w] =
            [pc |-> FirstLabel(r.op), req |-> r, rows |-> RowsOf({}), left |-> {},
             limit |-> 0, last |-> r.product, sent |-> 0]]
  BY DEF Begin
<1> DEFINE n == [pc |-> FirstLabel(r.op), req |-> r, rows |-> RowsOf({}), left |-> {},
             limit |-> 0, last |-> r.product, sent |-> 0]
<1>2. n.pc \notin {"list", "trim"} /\ n.sent = 0
  BY DEF FirstLabel
<1>3. job' = [job EXCEPT ![w] = n]
  BY <1>1
<1> HIDE DEF n
<1> QED BY <1>2, <1>3, TrimElsewhere

(* The handlers of one product read it.                                    *)
LEMMA TrimReadsRow ==
  ASSUME OneWorker, Inv, TrimInv, NEW w \in Workers, ReadRow(w)
  PROVE  TrimInv'
<1> DEFINE j == job[w]
           next == IF j.req.op = "item" THEN "price" ELSE j.req.op
           a == [j EXCEPT !.rows = RowsOf({j.req.product})]
           n == [a EXCEPT !.pc = next]
<1>1. At(w, "row") /\ (Respond(w) \/ job' = [job EXCEPT ![w] = n])
  BY DEF ReadRow
<1>2. GoodMemory(j, product) /\ IsJob(j) /\ j.pc = "row" /\ j.sent = 0
  BY <1>1, NothingSent DEF Labels
<1>3. next \notin {"list", "trim"}
  BY <1>2 DEF GoodMemory, IsJob, RequestType
<1> HIDE DEF next
<1>4. n.pc = next /\ n.sent = 0
  BY <1>2 DEF IsJob
<1> HIDE DEF n
<1> QED BY <1>1, <1>3, <1>4, TrimElsewhere, TrimAnswered

(* A trim reads what the page costs ...                                    *)
LEMMA TrimReadsTotal ==
  ASSUME OneWorker, Inv, TrimInv, NEW w \in Workers, ReadTotal(w)
  PROVE  TrimInv'
<1> DEFINE j == job[w]
           a == [j EXCEPT !.rows = RowsOf(Listed(j.req))]
           n == [a EXCEPT !.pc = "limit"]
<1>1. At(w, "total") /\ job' = [job EXCEPT ![w] = n]
  BY DEF ReadTotal
<1>2. IsJob(j) /\ j.pc = "total" /\ j.sent = 0
  BY <1>1, NothingSent DEF Labels
<1>3. n.pc = "limit" /\ n.sent = 0
  BY <1>2 DEF IsJob
<1> HIDE DEF n
<1> QED BY <1>1, <1>3, TrimElsewhere

(* ... the budget, which is that of now ...                                *)
LEMMA TrimReadsLimit ==
  ASSUME OneWorker, Inv, TrimInv, NEW w \in Workers, ReadLimit(w)
  PROVE  TrimInv'
<1> DEFINE j == job[w]
           limit == budget[j.req.user]
           a == [j EXCEPT !.limit = limit]
           n == [a EXCEPT !.pc = "list"]
<1>1. /\ At(w, "limit") /\ budget' = budget
      /\ \E over \in OverBudget(j.rows, limit) :
           IF over THEN job' = [job EXCEPT ![w] = n] ELSE Respond(w)
  BY DEF ReadLimit, tables
<1>2. GoodMemory(j, product) /\ IsJob(j) /\ j.pc = "limit" /\ j.sent = 0
  BY <1>1, NothingSent DEF Labels
<1>0. Respond(w) \/ (job' = [job EXCEPT ![w] = n] /\ limit > 0)
  <2> HIDE DEF n
  <2>1. OverBudget(j.rows, limit) \subseteq BOOLEAN
    BY DEF OverBudget
  <2>2. CASE Respond(w)
    BY <2>2
  <2>3. CASE TRUE \in OverBudget(j.rows, limit) /\ job' = [job EXCEPT ![w] = n]
    <3>1. limit > 0
      BY <2>3 DEF OverBudget
    <3> QED BY <2>3, <3>1
  <2> QED BY <1>1, <2>1, <2>2, <2>3
<1>3. n.pc = "list" /\ n.sent = 0 /\ n.limit = limit /\ n.req = j.req
  BY <1>2 DEF IsJob
<1> HIDE DEF n
<1>4. ASSUME limit > 0 PROVE TrimOK(n, product', budget')
  BY <1>1, <1>3, <1>4 DEF TrimOK
<1> QED BY <1>0, <1>4, TrimStep, TrimAnswered

(* ... and the list, which is that of now, nothing of it behind the loop.  *)
LEMMA TrimReadsList ==
  ASSUME OneWorker, Inv, TrimInv, NEW w \in Workers, ReadList(w)
  PROVE  TrimInv'
<1> DEFINE j == job[w]
           ps == Listed(j.req)
           a == [j EXCEPT !.rows = RowsOf(ps)]
           b == [a EXCEPT !.left = ps]
           n == [b EXCEPT !.pc = "trim"]
<1>1. At(w, "list") /\ job' = [job EXCEPT ![w] = n] /\ budget' = budget /\ product' = product
  BY DEF ReadList, tables
<1>2. IsJob(j) /\ j.pc = "list" /\ j.sent = 0
  BY <1>1, NothingSent DEF Labels
<1>3. /\ n.pc = "trim" /\ n.sent = 0 /\ n.limit = j.limit /\ n.req = j.req
      /\ n.left = ps /\ n.rows = RowsOf(ps)
  BY <1>2 DEF IsJob
<1>4. j.limit = budget[j.req.user] /\ j.limit > 0
  <2>1. j # Idle
    BY <1>2 DEF Idle
  <2>2. TrimOK(j, product, budget)
    BY <2>1 DEF TrimInv
  <2> QED BY <1>2, <2>2 DEF TrimOK
<1> HIDE DEF n
<1>5. DOMAIN n.rows = ps /\ \A p \in ps : n.rows[p] = product[p]
  BY <1>3 DEF RowsOf
<1>6. Live(n, product)
  BY <1>3, <1>5 DEF Live, Listed
<1>7. DOMAIN n.rows \ n.left = {}
  BY <1>3, <1>5
<1>8. TrimOK(n, product', budget')
  BY <1>1, <1>3, <1>4, <1>6, <1>7 DEF TrimOK
<1> QED BY <1>1, <1>8, TrimStep

(* With two decimals, what a round sends is what it means to send. *)
LEMMA SendsExactly ==
  ASSUME TwoDecimals, NEW row, GoodRow(row), row.quantity > 0, NEW pieces \in Nat, pieces >= 1
  PROVE  LET most == AtMost(pieces * Unit, row.quantity)
             send == Sendable(row, Stored(most))
             moved == Moved(row, row.quantity - send, row.held + send)
         IN  /\ send = most /\ GoodRow(moved)
             /\ moved.quantity = row.quantity - send
             /\ moved = [row EXCEPT !.quantity = moved.quantity, !.held = moved.held]
             /\ Cost(moved) = Cost(row) /\ moved.archived = row.archived
<1> DEFINE most == AtMost(pieces * Unit, row.quantity)
           send == Sendable(row, Stored(most))
           moved == Moved(row, row.quantity - send, row.held + send)
<1>1. row \in Rows /\ row.quantity \in Nat /\ row.held \in Nat
      /\ Whole(row.quantity) /\ Whole(row.held)
  BY DEF GoodRow, Rows
<1>2. most \in Nat /\ most > 0 /\ most <= row.quantity
  BY <1>1 DEF AtMost, Unit
<1>3. Whole(most)
  <2>1. Whole(pieces * Unit)
    BY DEF Whole, Unit
  <2> QED BY <1>1, <2>1 DEF AtMost
<1>4. Stored(most) = most
  BY <1>2, <1>3, StoredFacts
<1>5. send = most
  BY <1>1, <1>2, <1>4 DEF Sendable, AtMost
<1>6. row.quantity - most \in Nat /\ row.held + most \in Nat
      /\ Whole(row.quantity - most) /\ Whole(row.held + most)
  BY <1>1, <1>2, <1>3 DEF Whole
<1> HIDE DEF most
<1>7. /\ Stored(row.quantity - most) = row.quantity - most
      /\ Stored(row.held + most) = row.held + most
  BY <1>6, StoredFacts
<1>8. moved = [row EXCEPT !.quantity = row.quantity - most, !.held = row.held + most]
  BY <1>5, <1>7, Zenon DEF Moved
<1>9. GoodRow(moved)
  <2>1. row.quantity - most >= 0 /\ row.held + most >= 0 /\ most \in Int
    BY <1>2, <1>6
  <2> HIDE DEF moved
  <2>2. GoodRow(Moved(row, row.quantity - most, row.held + most))
    BY <1>3, <2>1, MovedGood
  <2> QED BY <1>5, <2>2, Zenon DEF moved
<1> HIDE DEF moved
<1>10. /\ moved.quantity = row.quantity - most /\ moved.held = row.held + most
       /\ moved.price = row.price /\ moved.per = row.per /\ moved.archived = row.archived
  BY <1>1, <1>8 DEF Rows
<1>11. Cost(moved) = Cost(row)
  BY <1>10 DEF Cost
<1>12. moved = [row EXCEPT !.quantity = moved.quantity, !.held = moved.held]
  BY <1>8, <1>10
<1> HIDE DEF send
<1> QED BY <1>5, <1>9, <1>10, <1>11, <1>12 DEF most, send, moved

(* A cheaper page of the same prices fits as well.                         *)
LEMMA StillFits ==
  ASSUME NEW rows, NEW new, Total(rows) \in Int, Total(new) \in Int, NEW limit \in Nat,
         Total(new) <= Total(rows), DOMAIN new = DOMAIN rows,
         \A p \in DOMAIN rows : Cost(new[p]) = Cost(rows[p]) /\ Cost(rows[p]) \in Nat,
         AlmostFits(rows, limit)
  PROVE  AlmostFits(new, limit)
<1> DEFINE d == Total(rows) - limit * Unit
           e == Total(new) - limit * Unit
<1>1. d \in Int /\ e \in Int /\ e <= d
  BY DEF Unit
<1>2. CASE d <= 0
  <2>1. e <= 0
    BY <1>1, <1>2
  <2> QED BY <2>1 DEF AlmostFits
<1>3. CASE ~(d <= 0)
  <2>1. PICK p \in DOMAIN rows : Negligible(d, Cost(rows[p]) * Unit)
    BY <1>3 DEF AlmostFits
  <2> DEFINE c == Cost(rows[p]) * Unit
  <2>2. c \in Nat
    BY DEF Unit
  <2> HIDE DEF c
  <2>3. CeilDiv(c, Fine) \in Int
    BY <2>2, FineAssumption DEF CeilDiv
  <2> HIDE DEF d, e
  <2>4. Negligible(e, c)
    BY <1>1, <2>1, <2>3 DEF Negligible, c
  <2>5. p \in DOMAIN new /\ Cost(new[p]) * Unit = c
    BY DEF c
  <2>6. Negligible(e, Cost(new[p]) * Unit)
    BY <2>4, <2>5, Zenon
  <2> QED BY <2>5, <2>6 DEF AlmostFits, e
<1> QED BY <1>2, <1>3

(* One round: the page gets cheaper by what is sent; it fits, all but      *)
(* negligibly, unless the row gave all it had; and with the last piece     *)
(* back it could be over the budget.                                       *)
LEMMA RoundTotal ==
  ASSUME TwoDecimals, NEW rows, GoodRows(rows), rows = [q \in DOMAIN rows |-> rows[q]],
         NEW limit \in Nat, TRUE \in OverBudget(rows, limit),
         NEW p \in DOMAIN rows, rows[p].quantity > 0, RowTotal(rows[p]) > 0,
         NEW pieces \in PiecesNeeded(rows, limit, p)
  PROVE  LET row == rows[p]
             send == Sendable(row, Stored(AtMost(pieces * Unit, row.quantity)))
             moved == Moved(row, row.quantity - send, row.held + send)
             new == [rows EXCEPT ![p] = moved]
         IN  /\ pieces \in Nat /\ pieces >= 1 /\ send \in Nat
             /\ Total(rows) \in Nat /\ Total(new) \in Nat /\ Total(new) <= Total(rows)
             /\ TRUE \in OverBudget(PutBack(new, p, AtMost(send, Unit)), limit)
             /\ send = row.quantity \/ AlmostFits(new, limit)
<1> DEFINE row == rows[p]
           c == Cost(row)
           d == Total(rows) - limit * Unit
           send == Sendable(row, Stored(AtMost(pieces * Unit, row.quantity)))
           moved == Moved(row, row.quantity - send, row.held + send)
           new == [rows EXCEPT ![p] = moved]
           m == AtMost(send, Unit)
           more == [moved EXCEPT !.quantity = moved.quantity + m]
           back == [new EXCEPT ![p] = more]
<1>1. GoodRow(row)
  BY DEF GoodRows
<1>2. /\ c \in Nat /\ row.quantity \in Nat
      /\ RowTotal(row) = row.quantity * c /\ RowTotal(row) \in Nat
  BY <1>1, TotalOfGood
<1>3. /\ c > 0 /\ c * Unit \in Nat /\ c * Unit > 0 /\ d \in Nat
      /\ pieces \in Nat /\ pieces >= 1
      /\ (pieces - 1) * (c * Unit) < d \/ ((pieces - 1) * (c * Unit) = d /\ ~Exact(rows))
      /\ d <= pieces * (c * Unit) \/ Negligible(d - pieces * (c * Unit), c * Unit)
  BY PiecesFacts
<1>4. Total(rows) \in Nat
  BY <1>1, ChangeTotal
<1>5. limit * Unit \in Nat /\ limit > 0
  <2>1. limit * Unit \in Nat
    BY DEF Unit
  <2>2. limit > 0
    BY OverTrue
  <2> QED BY <2>1, <2>2
<1>6. /\ send = AtMost(pieces * Unit, row.quantity) /\ GoodRow(moved)
      /\ moved.quantity = row.quantity - send /\ Cost(moved) = c
      /\ moved = [row EXCEPT !.quantity = moved.quantity, !.held = moved.held]
  BY <1>1, <1>3, SendsExactly
<1>7. /\ moved.price = row.price /\ moved.per = row.per
      /\ moved \in Rows /\ row \in Rows
  BY <1>1, <1>6 DEF GoodRow, Rows
<1> HIDE DEF d, send, moved
<1>8. /\ send \in Nat /\ m \in Nat /\ send > 0 /\ m > 0 /\ m <= send
      /\ send <= row.quantity /\ send - m <= (pieces - 1) * Unit
  BY <1>2, <1>3, <1>6 DEF AtMost, Unit
<1>9. GoodRow(more) /\ more.quantity = row.quantity - (send - m) /\ Cost(more) = c
      /\ more.price = row.price
  <2>1. more \in Rows /\ more.quantity = moved.quantity + m /\ more.held = moved.held
        /\ more.price = moved.price /\ more.per = moved.per
    BY <1>7, <1>8 DEF Rows
  <2>2. moved.quantity >= 0 /\ moved.held >= 0 /\ moved.quantity \in Int
    BY <1>6 DEF GoodRow, Rows
  <2>3. ASSUME TwoDecimals PROVE Whole(moved.quantity + m)
    <3>1. Whole(moved.quantity) /\ Whole(row.quantity)
      BY <1>1, <1>6 DEF GoodRow
    <3>2. Whole(m)
      BY <1>2, <1>3, <1>6, <3>1 DEF AtMost, Unit, Whole
    <3> QED BY <1>8, <2>2, <3>1, <3>2 DEF Whole
  <2> HIDE DEF more, m
  <2>4. GoodRow(more)
    BY <1>6, <1>8, <2>1, <2>2, <2>3 DEF GoodRow
  <2> QED BY <1>2, <1>6, <1>7, <1>8, <2>1, <2>4 DEF Cost
<1>10. /\ RowTotal(moved) = (row.quantity - send) * c
       /\ RowTotal(more) = (row.quantity - (send - m)) * c
  BY <1>6, <1>9, TotalOfGood
<1> HIDE DEF more, m
<1>11. /\ Total(new) = Total(rows) - RowTotal(row) + RowTotal(moved) /\ Total(new) \in Nat
       /\ GoodRows(new) /\ new = [q \in DOMAIN new |-> new[q]] /\ p \in DOMAIN new
       /\ DOMAIN new = DOMAIN rows /\ new[p] = moved
       /\ \A q \in DOMAIN rows \ {p} : new[q] = rows[q]
  BY <1>6, ChangeTotal
<1>12. [rows EXCEPT ![p] = more] = back
  BY <1>11
<1>13. Total(back) = Total(rows) - RowTotal(row) + RowTotal(more) /\ Total(back) \in Nat
  <2>1. /\ Total([rows EXCEPT ![p] = more]) = Total(rows) - RowTotal(row) + RowTotal(more)
        /\ Total([rows EXCEPT ![p] = more]) \in Nat
    BY <1>9, ChangeTotal
  <2> QED BY <1>12, <2>1, Zenon
<1>14. /\ DOMAIN back = DOMAIN rows /\ back[p] = more
       /\ \A q \in DOMAIN rows \ {p} : back[q] = rows[q]
  BY <1>11
<1>15. back = PutBack(new, p, m)
  <2>1. new[p] = moved
    BY <1>11
  <2> HIDE DEF new
  <2>2. PutBack(new, p, m) = [new EXCEPT ![p] = [new[p] EXCEPT !.quantity = new[p].quantity + m]]
    BY Zenon DEF PutBack
  <2> QED BY <2>1, <2>2, Zenon DEF more
<1> HIDE DEF new, back, c, row
<1>16. Total(new) = Total(rows) - send * c
  <2>1. (row.quantity - send) * c = row.quantity * c - send * c
    BY <1>2, <1>8
  <2>2. row.quantity * c \in Int /\ send * c \in Int
    BY <1>2, <1>8
  <2> QED BY <1>2, <1>4, <1>10, <1>11, <2>1, <2>2
<1>17. Total(back) = Total(rows) - (send - m) * c /\ send - m \in Nat
  <2>0. send - m \in Nat
    BY <1>8
  <2>1. (row.quantity - (send - m)) * c = row.quantity * c - (send - m) * c
    BY <1>2, <2>0
  <2>2. row.quantity * c \in Int /\ (send - m) * c \in Int
    BY <1>2, <2>0
  <2> QED BY <1>2, <1>4, <1>10, <1>13, <2>0, <2>1, <2>2
<1>18. TRUE \in OverBudget(back, limit)
  <2> DEFINE k == pieces - 1
  <2>1. k \in Nat /\ k * Unit \in Nat /\ (k * Unit) * c = k * (c * Unit)
    BY <1>2, <1>3 DEF Unit
  <2>2. (send - m) * c <= (k * Unit) * c
    BY <1>2, <1>8, <1>17, <2>1, MoreTimes
  <2>3. (send - m) * c \in Nat /\ k * (c * Unit) \in Nat
    BY <1>2, <1>3, <1>17, <2>1, NatTimes
  <2>4. CASE (send - m) * c < d
    <3>1. Total(back) > limit * Unit
      BY <1>4, <1>5, <1>17, <2>3, <2>4 DEF d
    <3>2. Total(back) \in Int
      BY <1>13
    <3> QED BY <1>5, <3>1, <3>2, TrueOver
  <2>5. CASE ~((send - m) * c < d)
    <3>1. (send - m) * c = d /\ k * (c * Unit) = d /\ ~Exact(rows)
      BY <1>3, <2>1, <2>2, <2>3, <2>5
    <3>2. Total(back) = limit * Unit
      BY <1>4, <1>5, <1>17, <2>3, <3>1 DEF d
    <3>3. send - m = k * Unit
      <4> SUFFICES ASSUME send - m <= k * Unit - 1 PROVE FALSE
        BY <1>8, <1>17, <2>1
      <4>1. (send - m) * c <= (k * Unit - 1) * c
        <5>1. k * Unit - 1 \in Int BY <2>1
        <5> QED BY <1>2, <1>17, <5>1, MoreTimes
      <4>2. (k * Unit - 1) * c = (k * Unit) * c - c
        BY <1>2, <2>1
      <4> QED BY <1>2, <1>3, <2>1, <2>3, <3>1, <4>1, <4>2
    <3>4. more.quantity % 625 = row.quantity % 625 /\ more.quantity > 0
      <4>1. more.quantity = row.quantity - k * Unit /\ more.quantity > 0
        BY <1>2, <1>8, <1>9, <3>3
      <4> QED BY <1>2, <2>1, <4>1 DEF Unit
    <3>5. ~Exact(back)
      <4>1. PICK q \in DOMAIN rows :
              rows[q].quantity > 0 /\ ~(rows[q].quantity % 625 = 0 /\ rows[q].price % 5 = 0)
        BY <3>1 DEF Exact
      <4>2. CASE q = p
        <5>1. back[p].quantity > 0 /\ ~(back[p].quantity % 625 = 0 /\ back[p].price % 5 = 0)
          BY <1>9, <1>14, <3>4, <4>1, <4>2 DEF row
        <5> QED BY <1>14, <5>1 DEF Exact
      <4>3. CASE q # p
        BY <1>14, <4>1, <4>3 DEF Exact
      <4> QED BY <4>2, <4>3
    <3>6. Total(back) \in Int
      BY <1>13
    <3> QED BY <1>5, <3>2, <3>5, <3>6, TrueOver
  <2> QED BY <2>4, <2>5
<1>19. ASSUME send # row.quantity PROVE AlmostFits(new, limit)
  <2>1. send = pieces * Unit
    BY <1>6, <1>19 DEF AtMost
  <2>2. send * c = pieces * (c * Unit)
    BY <1>2, <1>3, <2>1 DEF Unit
  <2>3. send * c \in Int
    BY <1>2, <1>8
  <2>4. Total(new) - limit * Unit = d - pieces * (c * Unit)
    BY <1>4, <1>5, <1>16, <2>2, <2>3 DEF d
  <2>5. CASE d <= pieces * (c * Unit)
    <3>1. Total(new) - limit * Unit <= 0
      BY <1>3, <2>2, <2>3, <2>4, <2>5
    <3> QED BY <3>1 DEF AlmostFits
  <2>6. CASE Negligible(d - pieces * (c * Unit), c * Unit)
    <3>1. Negligible(Total(new) - limit * Unit, Cost(new[p]) * Unit)
      BY <1>6, <1>11, <2>4, <2>6, Zenon
    <3> QED BY <1>11, <3>1 DEF AlmostFits
  <2> QED BY <1>3, <2>5, <2>6
<1>20. Total(new) <= Total(rows)
  <2>1. send * c \in Nat
    BY <1>2, <1>8, NatTimes
  <2> QED BY <1>4, <1>16, <2>1
<1>21. TRUE \in OverBudget(PutBack(new, p, m), limit)
  BY <1>15, <1>18, Zenon
<1> QED BY <1>3, <1>4, <1>8, <1>11, <1>19, <1>20, <1>21 DEF row, c, send, moved, new, m

(* A round writes what it remembers, so the list stays that of now; it takes *)
(* the last row that costs anything, so the rows behind stay worth nothing. *)
LEMMA TrimRounds ==
  ASSUME OneWorker, TwoDecimals, Inv, TrimInv, NEW w \in Workers, TrimProduct(w)
  PROVE  TrimInv'
<1> DEFINE j == job[w]
<1>1. /\ GoodMemory(j, product) /\ IsJob(j) /\ j.pc = "trim" /\ TrimOK(j, product, budget)
      /\ TRUE \in OverBudget(j.rows, j.limit)
  <2>1. At(w, "trim") /\ TRUE \in OverBudget(j.rows, j.limit)
    BY DEF TrimProduct
  <2> QED BY <2>1, AtLabel DEF Labels, GoodMemory, TrimInv
<1>2. PICK p \in Trimmable(j) : \E pieces \in PiecesNeeded(j.rows, j.limit, p) :
       LET row == j.rows[p]
           send == Sendable(row, Stored(AtMost(pieces * Unit, row.quantity)))
           moved == Moved(row, row.quantity - send, row.held + send)
       IN /\ \A q \in Trimmable(j) : Place[q] <= Place[p]
          /\ WriteQuantities(p, moved)
          /\ job' = [job EXCEPT ![w] =
               [j EXCEPT !.rows = [j.rows EXCEPT ![p] = moved],
                         !.left = {q \in j.left : Place[q] < Place[p]},
                         !.last = p, !.sent = send]]
  BY DEF TrimProduct
<1>0. PICK pieces \in PiecesNeeded(j.rows, j.limit, p) :
       LET row == j.rows[p]
           send == Sendable(row, Stored(AtMost(pieces * Unit, row.quantity)))
           moved == Moved(row, row.quantity - send, row.held + send)
       IN /\ \A q \in Trimmable(j) : Place[q] <= Place[p]
          /\ WriteQuantities(p, moved)
          /\ job' = [job EXCEPT ![w] =
               [j EXCEPT !.rows = [j.rows EXCEPT ![p] = moved],
                         !.left = {q \in j.left : Place[q] < Place[p]},
                         !.last = p, !.sent = send]]
  BY <1>2
<1> DEFINE row == j.rows[p]
           send == Sendable(row, Stored(AtMost(pieces * Unit, row.quantity)))
           moved == Moved(row, row.quantity - send, row.held + send)
           left == {q \in j.left : Place[q] < Place[p]}
           rows == [j.rows EXCEPT ![p] = moved]
           n == [j EXCEPT !.rows = rows, !.left = left, !.last = p, !.sent = send]
<1>3. /\ \A q \in Trimmable(j) : Place[q] <= Place[p]
      /\ WriteQuantities(p, moved) /\ job' = [job EXCEPT ![w] = n]
  BY <1>0, Zenon
<1>4. /\ p \in DOMAIN j.rows /\ p \in Products /\ j.left \subseteq DOMAIN j.rows
      /\ DOMAIN j.rows \subseteq Products /\ j.rows \in [DOMAIN j.rows -> Rows]
      /\ p \in j.left /\ row.quantity > 0 /\ RowTotal(row) > 0
  BY <1>1, <1>2 DEF Trimmable, IsJob
<1>5. GoodRows(j.rows) /\ j.rows = [q \in DOMAIN j.rows |-> j.rows[q]] /\ j.limit \in Nat
  <2>1. IsFiniteSet(DOMAIN j.rows)
    BY <1>4, FS_Subset, ProductsAssumption
  <2>2. \A q \in DOMAIN j.rows : GoodRow(j.rows[q])
    BY <1>1 DEF GoodMemory
  <2> QED BY <1>1, <1>4, <2>1, <2>2 DEF GoodRows, IsJob
<1>7. /\ pieces \in Nat /\ pieces >= 1 /\ send \in Nat
      /\ Total(j.rows) \in Nat /\ Total(rows) \in Nat /\ Total(rows) <= Total(j.rows)
      /\ TRUE \in OverBudget(PutBack(rows, p, AtMost(send, Unit)), j.limit)
      /\ send = row.quantity \/ AlmostFits(rows, j.limit)
  <2> DEFINE R == j.rows
             limit == j.limit
  <2>1. /\ p \in DOMAIN R /\ R[p].quantity > 0 /\ RowTotal(R[p]) > 0
        /\ TRUE \in OverBudget(R, limit) /\ pieces \in PiecesNeeded(R, limit, p)
        /\ GoodRows(R) /\ R = [q \in DOMAIN R |-> R[q]] /\ limit \in Nat
    BY <1>1, <1>4, <1>5
  <2> HIDE DEF R, limit
  <2>2. LET r0 == R[p]
            s0 == Sendable(r0, Stored(AtMost(pieces * Unit, r0.quantity)))
            m0 == Moved(r0, r0.quantity - s0, r0.held + s0)
            n0 == [R EXCEPT ![p] = m0]
        IN  /\ pieces \in Nat /\ pieces >= 1 /\ s0 \in Nat
            /\ Total(R) \in Nat /\ Total(n0) \in Nat /\ Total(n0) <= Total(R)
            /\ TRUE \in OverBudget(PutBack(n0, p, AtMost(s0, Unit)), limit)
            /\ s0 = r0.quantity \/ AlmostFits(n0, limit)
    BY <2>1, RoundTotal
  <2> QED BY <2>2, Zenon DEF R, limit
<1>8. /\ GoodRow(moved) /\ moved.quantity = row.quantity - send /\ moved.archived = row.archived
      /\ moved = [row EXCEPT !.quantity = moved.quantity, !.held = moved.held]
      /\ Cost(moved) = Cost(row)
  BY <1>4, <1>5, <1>7, SendsExactly DEF GoodRows
<1> HIDE DEF send
<1>9. product[p] = row /\ product' = [product EXCEPT ![p] = moved] /\ budget' = budget
  <2>1. product[p] = row
    BY <1>1, <1>4 DEF TrimOK, Live
  <2> HIDE DEF moved
  <2>2. [product[p] EXCEPT !.quantity = moved.quantity, !.held = moved.held] = moved
    BY <1>8, <2>1, Zenon
  <2>3. SetRow(p, [product[p] EXCEPT !.quantity = moved.quantity, !.held = moved.held])
    BY <1>3 DEF WriteQuantities
  <2> QED BY <2>1, <2>2, <2>3, Zenon DEF SetRow
<1> HIDE DEF moved
<1>10. /\ n.pc = "trim" /\ n.req = j.req /\ n.rows = rows /\ n.left = left
       /\ n.limit = j.limit /\ n.last = p /\ n.sent = send
  BY <1>1 DEF IsJob
<1>11. /\ DOMAIN rows = DOMAIN j.rows /\ rows[p] = moved
       /\ \A q \in DOMAIN j.rows \ {p} : rows[q] = j.rows[q]
  BY <1>4
<1>12. Live(n, product')
  <2>0. product \in [Products -> Rows]
    BY DEF Inv, TablesGood
  <2>1. \A q \in Products : product'[q].archived = product[q].archived
    BY <1>4, <1>8, <1>9, <2>0
  <2>2. Sees[j.req.user] \subseteq Products
    BY <1>1, ProductsAssumption DEF IsJob, RequestType
  <2>3. {q \in Sees[j.req.user] : ~product'[q].archived /\ j.req.supplier \in {0, SupplierOf[q]}}
      = {q \in Sees[j.req.user] : ~product[q].archived /\ j.req.supplier \in {0, SupplierOf[q]}}
    BY <2>1, <2>2
  <2>4. /\ DOMAIN j.rows = {q \in Sees[j.req.user] : ~product[q].archived
                                               /\ j.req.supplier \in {0, SupplierOf[q]}}
        /\ \A q \in DOMAIN j.rows : j.rows[q] = product[q]
    BY <1>1 DEF TrimOK, Live
  <2>5. \A q \in DOMAIN rows : rows[q] = product'[q]
    BY <1>4, <1>9, <1>11, <2>0, <2>4
  <2> HIDE DEF n, rows
  <2> QED BY <1>10, <1>11, <2>3, <2>4, <2>5 DEF Live
<1>13. n.limit = budget'[n.req.user] /\ n.limit > 0
  BY <1>1, <1>9, <1>10 DEF TrimOK
<1>14. ASSUME ~AlmostFits(rows, j.limit), NEW q \in DOMAIN rows \ left
       PROVE  RowTotal(rows[q]) = 0
  <2>1. send = row.quantity
    BY <1>7, <1>14
  <2>4. ~AlmostFits(j.rows, j.limit)
    <3>1. \A z \in DOMAIN j.rows : Cost(rows[z]) = Cost(j.rows[z]) /\ Cost(j.rows[z]) \in Nat
      BY <1>5, <1>8, <1>11, TotalOfGood DEF GoodRows
    <3> HIDE DEF rows
    <3> QED BY <1>5, <1>7, <1>11, <1>14, <3>1, StillFits
  <2>2. CASE q = p
    <3>1. moved.quantity = 0
      BY <1>4, <1>5, <1>8, <2>1, TotalOfGood DEF GoodRows
    <3> QED BY <1>8, <1>11, <2>2, <3>1, TotalOfGood
  <2>3. CASE q # p
    <3>1. q \in DOMAIN j.rows /\ rows[q] = j.rows[q]
      BY <1>11, <2>3
    <3>2. CASE q \notin j.left
      BY <1>1, <2>4, <3>1, <3>2 DEF TrimOK
    <3>3. CASE q \in j.left
      <4>1. ~(Place[q] < Place[p])
        BY <1>14, <3>3
      <4>2. Place[q] # Place[p] /\ Place[q] \in Nat /\ Place[p] \in Nat
        BY <1>4, <2>3, <3>1, ProductsAssumption
      <4>3. q \notin Trimmable(j)
        BY <1>3, <4>1, <4>2
      <4>4. ~(j.rows[q].quantity > 0 /\ RowTotal(j.rows[q]) > 0)
        BY <3>3, <4>3 DEF Trimmable
      <4>5. /\ RowTotal(j.rows[q]) \in Nat /\ j.rows[q].quantity \in Nat
            /\ j.rows[q].quantity = 0 => RowTotal(j.rows[q]) = 0
        BY <1>5, <3>1, TotalOfGood DEF GoodRows
      <4> QED BY <3>1, <4>4, <4>5
    <3> QED BY <3>2, <3>3
  <2> QED BY <2>2, <2>3
<1> HIDE DEF n, rows, left
<1>15. TRUE \in OverBudget(PutBack(n.rows, n.last, AtMost(n.sent, Unit)), n.limit)
  BY <1>7, <1>10, Zenon
<1>16. TrimOK(n, product', budget')
  BY <1>10, <1>12, <1>13, <1>14, <1>15 DEF TrimOK
<1> QED BY <1>3, <1>16, TrimStep

(* The loop ends when the page fits: were every row worth nothing, so      *)
(* would be the page.                                                      *)
LEMMA TrimEndsRight ==
  ASSUME TwoDecimals, Inv, TrimInv, NEW w \in Workers, TrimEnds(w)
  PROVE  LET j     == job[w]
             rows  == RowsOf(Listed(j.req))
             limit == budget[j.req.user]
         IN  /\ AlmostFits(rows, limit)
             /\ j.sent > 0 =>
                  TRUE \in OverBudget(PutBack(rows, j.last, AtMost(j.sent, Unit)), limit)
<1> DEFINE j == job[w]
<1>1. /\ GoodMemory(j, product) /\ IsJob(j) /\ j.pc = "trim" /\ TrimOK(j, product, budget)
      /\ FALSE \in OverBudget(j.rows, j.limit) \/ Trimmable(j) = {}
  <2>1. At(w, "trim") /\ (FALSE \in OverBudget(j.rows, j.limit) \/ Trimmable(j) = {})
    BY DEF TrimEnds
  <2> QED BY <2>1, AtLabel DEF Labels, GoodMemory, TrimInv
<1>2. GoodRows(j.rows) /\ j.rows = [q \in DOMAIN j.rows |-> j.rows[q]] /\ j.limit \in Nat
  <2>1. IsFiniteSet(DOMAIN j.rows)
    BY <1>1, FS_Subset, ProductsAssumption DEF IsJob
  <2>2. \A q \in DOMAIN j.rows : GoodRow(j.rows[q])
    BY <1>1 DEF GoodMemory
  <2> QED BY <1>1, <2>1, <2>2 DEF GoodRows, IsJob
<1>3. Live(j, product) /\ j.limit = budget[j.req.user]
  BY <1>1 DEF TrimOK
<1>4. j.rows = RowsOf(Listed(j.req))
  BY <1>2, <1>3 DEF Live, RowsOf, Listed
<1>5. AlmostFits(j.rows, j.limit)
  <2> SUFFICES ASSUME ~AlmostFits(j.rows, j.limit) PROVE FALSE
    OBVIOUS
  <2>0. j.limit > 0 /\ Total(j.rows) > j.limit * Unit /\ Total(j.rows) \in Int
    <3>1. j.limit > 0
      BY <1>1 DEF TrimOK
    <3>2. Total(j.rows) \in Int
      BY <1>2, TotalNat
    <3>3. ~(Total(j.rows) - j.limit * Unit <= 0)
      BY DEF AlmostFits
    <3> QED BY <1>2, <3>1, <3>2, <3>3 DEF Unit
  <2>1. Trimmable(j) = {}
    <3>1. FALSE \notin OverBudget(j.rows, j.limit)
      BY <1>2, <2>0, OverFalse
    <3> QED BY <1>1, <3>1
  <2>2. ASSUME NEW q \in DOMAIN j.rows PROVE RowTotal(j.rows[q]) = 0
    <3>1. CASE q \notin j.left
      BY <1>1, <3>1 DEF TrimOK
    <3>2. CASE q \in j.left
      <4>1. ~(j.rows[q].quantity > 0 /\ RowTotal(j.rows[q]) > 0)
        BY <2>1, <3>2 DEF Trimmable
      <4>2. /\ RowTotal(j.rows[q]) \in Nat /\ j.rows[q].quantity \in Nat
            /\ j.rows[q].quantity = 0 => RowTotal(j.rows[q]) = 0
        BY <1>2, TotalOfGood DEF GoodRows
      <4> QED BY <4>1, <4>2
    <3> QED BY <3>1, <3>2
  <2>3. Total(j.rows) = 0
    BY <1>2, <2>2, NoTotal
  <2>4. 0 <= j.limit * Unit /\ j.limit * Unit \in Int
    BY <1>2 DEF Unit
  <2>5. ~(0 > j.limit * Unit)
    BY <2>4
  <2>6. 0 > j.limit * Unit
    BY <2>0, <2>3, Zenon
  <2> QED BY <2>5, <2>6
<1>7. j.sent > 0 => TRUE \in OverBudget(PutBack(j.rows, j.last, AtMost(j.sent, Unit)), j.limit)
  BY <1>1 DEF TrimOK
<1> HIDE DEF j
<1>8. /\ AlmostFits(RowsOf(Listed(j.req)), budget[j.req.user])
      /\ j.sent > 0 =>
           TRUE \in OverBudget(PutBack(RowsOf(Listed(j.req)), j.last, AtMost(j.sent, Unit)),
                              budget[j.req.user])
  BY <1>3, <1>4, <1>5, <1>7, Zenon
<1> QED BY <1>8 DEF j

(* The handlers that are no trims. *)
LEMMA TrimOthers ==
  ASSUME OneWorker, Inv, TrimInv, NEW w \in Workers,
         \/ SetPrice(w) \/ SetPer(w) \/ SetLink(w) \/ SetBudget(w)
         \/ ApplyNextQty(w) \/ RestoreNextQty(w) \/ EditQuantity(w) \/ SetArchived(w)
         \/ TrimEnds(w)
  PROVE  TrimInv'
<1>1. CASE SetPrice(w)
  <2>1. At(w, "price") /\ (Respond(w) \/ Goto(w, "per"))
    BY <1>1 DEF SetPrice
  <2> QED BY <2>1, TrimAnswered, TrimGoesOn DEF Labels
<1>2. CASE SetPer(w)
  <2>1. At(w, "per") /\ (Respond(w) \/ Goto(w, "link"))
    BY <1>2 DEF SetPer
  <2> QED BY <2>1, TrimAnswered, TrimGoesOn DEF Labels
<1>3. CASE \/ SetLink(w) \/ SetBudget(w) \/ ApplyNextQty(w) \/ RestoreNextQty(w)
           \/ EditQuantity(w) \/ SetArchived(w) \/ TrimEnds(w)
  <2>1. Respond(w)
    BY <1>3 DEF SetLink, SetBudget, ApplyNextQty, RestoreNextQty, EditQuantity, SetArchived,
                TrimEnds
  <2> QED BY <2>1, TrimAnswered
<1> QED BY <1>1, <1>2, <1>3

(* The step form of TrimFits.                                              *)
TrimmedRight ==
  \A w \in Workers : At(w, "trim") /\ job'[w] = Idle =>
       LET j     == job[w]
           rows  == RowsOf(Listed(j.req))
           limit == budget[j.req.user]
       IN  /\ AlmostFits(rows, limit)
           /\ j.sent > 0 =>
                TRUE \in OverBudget(PutBack(rows, j.last, AtMost(j.sent, Unit)), limit)

(* A round of the loop is no answer. *)
LEMMA TrimStays ==
  ASSUME Inv, NEW w \in Workers, job[w] # Idle, TrimProduct(w)
  PROVE  \E n : job' = [job EXCEPT ![w] = n] /\ n.pc = "trim"
<1> DEFINE j == job[w]
<1>1. IsJob(j) /\ j.pc = "trim"
  BY DEF TrimProduct, At, Inv, GoodMemory
<1>2. PICK p \in Trimmable(j) : \E pieces \in PiecesNeeded(j.rows, j.limit, p) :
       LET row == j.rows[p]
           send == Sendable(row, Stored(AtMost(pieces * Unit, row.quantity)))
           moved == Moved(row, row.quantity - send, row.held + send)
       IN /\ \A q \in Trimmable(j) : Place[q] <= Place[p]
          /\ WriteQuantities(p, moved)
          /\ job' = [job EXCEPT ![w] =
               [j EXCEPT !.rows = [j.rows EXCEPT ![p] = moved],
                         !.left = {q \in j.left : Place[q] < Place[p]},
                         !.last = p, !.sent = send]]
  BY DEF TrimProduct
<1>0. PICK pieces \in PiecesNeeded(j.rows, j.limit, p) :
       LET row == j.rows[p]
           send == Sendable(row, Stored(AtMost(pieces * Unit, row.quantity)))
           moved == Moved(row, row.quantity - send, row.held + send)
       IN /\ \A q \in Trimmable(j) : Place[q] <= Place[p]
          /\ WriteQuantities(p, moved)
          /\ job' = [job EXCEPT ![w] =
               [j EXCEPT !.rows = [j.rows EXCEPT ![p] = moved],
                         !.left = {q \in j.left : Place[q] < Place[p]},
                         !.last = p, !.sent = send]]
  BY <1>2
<1> DEFINE send == Sendable(j.rows[p], Stored(AtMost(pieces * Unit, j.rows[p].quantity)))
           moved == Moved(j.rows[p], j.rows[p].quantity - send, j.rows[p].held + send)
           n == [j EXCEPT !.rows = [j.rows EXCEPT ![p] = moved],
                          !.left = {q \in j.left : Place[q] < Place[p]},
                          !.last = p, !.sent = send]
<1>3. job' = [job EXCEPT ![w] = n]
  BY <1>0, Zenon
<1>4. n.pc = "trim"
  BY <1>1 DEF IsJob
<1> QED BY <1>3, <1>4, Zenon

(* Every step keeps what trims know, and a trim that answers has fitted.   *)
LEMMA TrimNext ==
  ASSUME OneWorker, TwoDecimals
  PROVE  Inv /\ TrimInv /\ [Next]_vars => TrimInv' /\ [TrimmedRight]_vars
<1> SUFFICES ASSUME Inv, TrimInv, [Next]_vars PROVE TrimInv' /\ [TrimmedRight]_vars
  OBVIOUS
<1>1. CASE UNCHANGED vars
  BY <1>1 DEF vars, TrimInv
<1>2. CASE Next
  <2>1. PICK u \in Workers :
    \/ Begin(u) \/ ReadRow(u)
    \/ SetPrice(u) \/ SetPer(u) \/ SetLink(u) \/ SetBudget(u)
    \/ ApplyNextQty(u) \/ RestoreNextQty(u) \/ EditQuantity(u) \/ SetArchived(u)
    \/ ReadTotal(u) \/ ReadLimit(u) \/ ReadList(u) \/ TrimProduct(u) \/ TrimEnds(u)
    BY <1>2 DEF Next
  <2>2. TrimInv'
    BY <2>1, TrimBegins, TrimReadsRow, TrimOthers, TrimReadsTotal, TrimReadsLimit, TrimReadsList,
       TrimRounds
  <2>3. ASSUME NEW w \in Workers, At(w, "trim"), job'[w] = Idle
        PROVE  TrimEnds(w)
    <3>1. u = w
      BY DEF OneWorker
    <3>2. job[w].pc = "trim" /\ job[w] # Idle
      BY <2>3 DEF At, Idle
    <3>3. CASE Begin(u)
      BY <3>1, <3>2, <3>3 DEF Begin
    <3>4. CASE ReadRow(u) \/ SetPrice(u) \/ SetPer(u) \/ SetLink(u) \/ SetBudget(u)
               \/ ApplyNextQty(u) \/ RestoreNextQty(u) \/ EditQuantity(u) \/ SetArchived(u)
               \/ ReadTotal(u) \/ ReadLimit(u) \/ ReadList(u)
      <4>1. At(u, "row") \/ At(u, "price") \/ At(u, "per") \/ At(u, "link") \/ At(u, "budget")
            \/ At(u, "next") \/ At(u, "restore") \/ At(u, "edit") \/ At(u, "archive")
            \/ At(u, "total") \/ At(u, "limit") \/ At(u, "list")
        BY <3>4 DEF ReadRow, SetPrice, SetPer, SetLink, SetBudget, ApplyNextQty, RestoreNextQty,
                    EditQuantity, SetArchived, ReadTotal, ReadLimit, ReadList
      <4> QED BY <3>1, <3>2, <4>1 DEF At
    <3>5. CASE TrimProduct(u)
      <4>1. PICK n : job' = [job EXCEPT ![w] = n] /\ n.pc = "trim"
        BY <3>1, <3>2, <3>5, TrimStays
      <4>2. job'[w].pc = "trim"
        BY <4>1 DEF Inv
      <4> QED BY <2>3, <4>2 DEF Idle
    <3>6. CASE TrimEnds(u)
      BY <3>1, <3>6
    <3> QED BY <2>1, <3>3, <3>4, <3>5, <3>6
  <2>4. TrimmedRight
    BY <2>3, TrimEndsRight DEF TrimmedRight
  <2> QED BY <2>2, <2>4
<1> QED BY <1>1, <1>2

(* With one worker, and amounts of two decimals at most, a trim ends with  *)
(* the page within the budget but for a rest below the loop's tolerance,   *)
(* and has not taken a piece more from the last product than it had to,    *)
(* unless the page was worth the budget to the rial and its sum is no      *)
(* exact float: app.js:637-682, for any products, prices, budgets and      *)
(* number of users, however floats round at a tie.                         *)
THEOREM TrimsFit ==
  ASSUME OneWorker, TwoDecimals
  PROVE  Spec => TrimFits
<1>1. Init => TrimInv
  BY DEF Init, TrimInv
<1>2. Inv /\ TrimInv /\ [Next]_vars => TrimInv' /\ [TrimmedRight]_vars
  BY TrimNext
<1>3. [][TrimmedRight]_vars => TrimFits
  BY DEF TrimFits, TrimmedRight
<1> QED BY PageInvariance, <1>1, <1>2, <1>3, PTL DEF Spec
=============================================================================
