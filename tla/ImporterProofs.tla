--------------------------- MODULE ImporterProofs ---------------------------
(***************************************************************************)
(* Proofs about the import of a spreadsheet, for any files, names, sizes   *)
(* of a chunk and quotas, and any number of imports at once.  The          *)
(* invariant says of an import between its chunks that every row it has    *)
(* read is accounted for (Settled), and of the one in a transaction what   *)
(* the rows done and the rows to come add up to (Halfway).  The open       *)
(* transaction holds what it would go back to, which is settled too, so a  *)
(* rollback finds the invariant where the transaction left it.             *)
(***************************************************************************)
EXTENDS Importer, FiniteSetTheorems, WellFoundedInduction, TLAPS

Early == {"none", "parsing", "suppliers", "products"}
Stages == Early \cup {"rows", "chunk", "done", "failed"}

(* What an import keeps.                                                   *)
Shape(m) ==
  m = [at |-> m.at, file |-> m.file, licensed |-> m.licensed, map |-> m.map,
       fuzzy |-> m.fuzzy, suppliers |-> m.suppliers, products |-> m.products,
       next |-> m.next, added |-> m.added, errors |-> m.errors, upload |-> m.upload,
       flushed |-> m.flushed, gone |-> m.gone, others |-> m.others]

ImportOK(m) ==
  /\ Shape(m)
  /\ m.at \in Stages /\ m.file \in Files \cup {<<>>} /\ m.next \in 1..(Len(m.file) + 1)
  /\ m.products \in Nat /\ m.added \in Nat /\ m.errors \in Nat
  /\ m.flushed \in Nat /\ m.gone \in Nat /\ m.others \in Nat
  /\ m.at \in Early => m.next = 1

(* Its products F are those of suppliers it knows by their names, but for  *)
(* those that a form has moved.                                            *)
Homes(m, F) ==
  \A p \in F : LET n == NormalOf[m.file[p.row].name]
               IN n \in DOMAIN m.map /\ (p.moved \/ p.supplier = m.map[n])

(* Of a trial user it has inserted up to his quota, as it counted it.      *)
Spared(m) == ~m.licensed /\ m.added > 0 => m.products + m.added <= FreeMaxProducts

(* Between its transactions: every row read is accounted for, and there    *)
(* are no more products than it counted, added, and others did.            *)
Settled(m, F, total) ==
  /\ Cardinality(F) + m.gone = m.added
  /\ m.added + m.errors = m.flushed /\ m.flushed = m.next - 1
  /\ \A p \in F : p.row \in 1..m.flushed
  /\ m.at = "done" => m.flushed = Len(m.file)
  /\ Homes(m, F) /\ Spared(m)
  /\ m.at = "rows" \/ m.added > 0 => total <= m.products + m.added + m.others

(* In a transaction begun as m0: rows is what is left of its chunk.        *)
Halfway(m0, m, F, rows) ==
  /\ m.at = "chunk"
  /\ m.file = m0.file /\ m.licensed = m0.licensed /\ m.products = m0.products
  /\ m.others = m0.others /\ m.gone = m0.gone /\ m.added >= m0.added
  /\ rows \subseteq 1..(m.next - 1) /\ \A j \in rows : Valid(m.file[j])
  /\ Cardinality(F) + m.gone = m.added
  /\ m.added + m.errors + Cardinality(rows) = m.next - 1
  /\ \A p \in F : p.row \in (1..(m.next - 1)) \ rows
  /\ Homes(m, F) /\ Spared(m)

(* No row of a file has two products.                                      *)
Keyed(P) ==
  \A p, q \in P : p.from \in Imports /\ p.from = q.from /\ p.row = q.row => p = q

(* The tables of the user.                                                 *)
TablesOK(s, P, next) ==
  /\ next \in Nat
  /\ \A id \in DOMAIN s : id \in Nat /\ id < next /\ s[id] \in Names
  /\ \A a, b \in DOMAIN s : s[a] = s[b] => a = b
  /\ IsFiniteSet(P) /\ Keyed(P)
  /\ \A p \in P : p.supplier \in DOMAIN s /\ p.from \in Imports \cup {Stranger}

Of(P, i) == {p \in P : p.from = i}

(* The open transaction t, and the import m that it is in.                 *)
OpenOK(t, m, P) ==
  /\ t = [by |-> t.by, rows |-> t.rows, supplier |-> t.supplier, product |-> t.product,
          next |-> t.next, import |-> t.import]
  /\ TablesOK(t.supplier, t.product, t.next)
  /\ ImportOK(t.import) /\ t.import.at = "rows"
  /\ Settled(t.import, Of(t.product, t.by), Cardinality(t.product))
  /\ Halfway(t.import, m, Of(P, t.by), t.rows)
  /\ \A i \in Imports \ {t.by} : Of(P, i) = Of(t.product, i)
  /\ Cardinality(P) = Cardinality(t.product) + m.added - t.import.added

Committed == IF Unlocked THEN product ELSE tx[1].product

IInv ==
  /\ TablesOK(supplier, product, nextSupplier) /\ others \in Nat /\ licensed \in BOOLEAN
  /\ import = [i \in Imports |-> import[i]] /\ \A i \in Imports : ImportOK(import[i])
  /\ \A i \in Imports :
       IF import[i].at = "chunk" THEN ~Unlocked /\ tx[1].by = i
       ELSE Settled(import[i], Of(product, i), Cardinality(Committed))
  /\ ~Unlocked => /\ tx = <<tx[1]>> /\ tx[1].by \in Imports
                  /\ OpenOK(tx[1], import[tx[1].by], product)

----------------------------------------------------------------------------
(* Sets of numbers and their sizes                                         *)

(* A set of numbers that is not empty has a least one: Min is in it.       *)
LEMMA Least ==
  ASSUME NEW T \in SUBSET Nat, T # {}
  PROVE  Min(T) \in T /\ \A n \in T : Min(T) <= n
<1> DEFINE R == {ss \in Nat \X Nat : ss[1] < ss[2]}
<1>1. IsWellFoundedOn(R, Nat)
  BY NatLessThanWellFounded DEF OpToRel
<1>2. \A a, b \in Nat : a < b => <<a, b>> \in R
  OBVIOUS
<1> HIDE DEF R
<1>3. PICK x \in T : \A y \in T : ~ (<<y, x>> \in R)
  BY <1>1, WFMin
<1>4. \A y \in T : ~(y < x)
  BY <1>2, <1>3
<1>5. \A y \in T : x <= y
  BY <1>4
<1> QED
  BY <1>5 DEF Min

(* What is in an interval and what is not in it split its size.            *)
LEMMA Split ==
  ASSUME NEW a \in Nat, NEW b \in Nat, a <= b + 1, NEW T \in SUBSET (a..b)
  PROVE  /\ IsFiniteSet(T) /\ Cardinality(T) \in Nat
         /\ IsFiniteSet((a..b) \ T) /\ Cardinality((a..b) \ T) \in Nat
         /\ Cardinality(T) + Cardinality((a..b) \ T) = b - a + 1
<1> DEFINE S == a..b
<1>1. IsFiniteSet(S) /\ Cardinality(S) = b - a + 1
  BY FS_Interval
<1> HIDE DEF S
<1>2. T \in SUBSET S /\ S \cap T = T
  BY DEF S
<1>3. IsFiniteSet(T) /\ Cardinality(T) \in Nat
  BY <1>1, <1>2, FS_Subset, FS_CardinalityType
<1>4. IsFiniteSet(S \ T) /\ Cardinality(S \ T) = Cardinality(S) - Cardinality(T)
  <2>1. IsFiniteSet(S \ T) /\ Cardinality(S \ T) = Cardinality(S) - Cardinality(S \cap T)
    BY <1>1, FS_Difference, Zenon
  <2> QED
    BY <1>2, <2>1
<1>5. Cardinality(S \ T) \in Nat
  BY <1>4, FS_CardinalityType
<1> QED
  BY <1>1, <1>3, <1>4, <1>5 DEF S

(* Parts of a finite set.                                                  *)
LEMMA Part ==
  ASSUME NEW P, IsFiniteSet(P), NEW F \in SUBSET P
  PROVE  /\ IsFiniteSet(F) /\ Cardinality(F) \in Nat /\ Cardinality(P) \in Nat
         /\ Cardinality(F) <= Cardinality(P)
BY FS_Subset, FS_CardinalityType

(* One element more.                                                       *)
LEMMA OneMore ==
  ASSUME NEW P, IsFiniteSet(P), NEW r, r \notin P
  PROVE  /\ IsFiniteSet(P \cup {r}) /\ Cardinality(P) \in Nat
         /\ Cardinality(P \cup {r}) = Cardinality(P) + 1
BY FS_AddElement, FS_CardinalityType

(* One element less.                                                       *)
LEMMA OneLess ==
  ASSUME NEW P, IsFiniteSet(P), NEW r \in P
  PROVE  /\ IsFiniteSet(P \ {r}) /\ Cardinality(P) \in Nat /\ Cardinality(P \ {r}) \in Nat
         /\ Cardinality(P \ {r}) = Cardinality(P) - 1
BY FS_RemoveElement, FS_CardinalityType

----------------------------------------------------------------------------
(* Parts of the invariant                                                  *)

(* A file is a sequence of rows.                                           *)
LEMMA FileSeq ==
  ASSUME NEW f \in Files \cup {<<>>}
  PROVE  f \in Seq(Row) /\ Len(f) \in Nat
<1>1. <<>> \in Seq(Row) /\ Files \subseteq Seq(Row)
  BY ImportAssumption
<1>2. f \in Seq(Row)
  BY <1>1
<1> QED
  BY <1>2

(* The file of an import, row by row.                                      *)
LEMMA FileType ==
  ASSUME NEW m, ImportOK(m)
  PROVE  /\ Len(m.file) \in Nat /\ m.next \in Nat \ {0} /\ m.next <= Len(m.file) + 1
         /\ \A j \in 1..Len(m.file) : Valid(m.file[j]) => m.file[j].name \in Names
<1>1. m.file \in Seq(Row) /\ Len(m.file) \in Nat
  BY FileSeq DEF ImportOK
<1>2. \A j \in 1..Len(m.file) : m.file[j] \in Row
  BY <1>1
<1>3. \A j \in 1..Len(m.file) : Valid(m.file[j]) => m.file[j].name \in Names
  BY <1>2 DEF Valid, Row
<1> QED
  BY <1>1, <1>3 DEF ImportOK

(* Only the stage of an import changes.                                    *)
LEMMA AtMoves ==
  ASSUME NEW m, ImportOK(m), NEW at \in Stages, at \in Early => m.next = 1,
         NEW n, n = [m EXCEPT !.at = at]
  PROVE  /\ ImportOK(n) /\ n.at = at /\ n.file = m.file /\ n.licensed = m.licensed
         /\ n.map = m.map /\ n.products = m.products /\ n.next = m.next /\ n.added = m.added
         /\ n.errors = m.errors /\ n.flushed = m.flushed /\ n.gone = m.gone
         /\ n.others = m.others
<1>1. /\ Shape(n) /\ n.at = at /\ n.file = m.file /\ n.licensed = m.licensed
      /\ n.map = m.map /\ n.products = m.products /\ n.next = m.next /\ n.added = m.added
      /\ n.errors = m.errors /\ n.flushed = m.flushed /\ n.gone = m.gone
      /\ n.others = m.others
  BY DEF ImportOK, Shape
<1>2. ImportOK(n)
  BY <1>1 DEF ImportOK
<1> QED
  BY <1>1, <1>2

(* An import that ends badly is settled if it was before.                  *)
LEMMA FailSettled ==
  ASSUME NEW m, ImportOK(m), NEW F, NEW total, Settled(m, F, total),
         NEW n, n = [m EXCEPT !.at = "failed"]
  PROVE  ImportOK(n) /\ n.at = "failed" /\ Settled(n, F, total)
<1>1. /\ ImportOK(n) /\ n.at = "failed" /\ n.file = m.file /\ n.licensed = m.licensed
      /\ n.map = m.map /\ n.products = m.products /\ n.next = m.next /\ n.added = m.added
      /\ n.errors = m.errors /\ n.flushed = m.flushed /\ n.gone = m.gone
      /\ n.others = m.others
  BY AtMoves DEF Stages, Early
<1> QED
  BY <1>1 DEF Settled, Homes, Spared

(* An import that has read no row has inserted nothing.                    *)
LEMMA NoneYet ==
  ASSUME IInv, NEW i \in Imports, import[i].at # "chunk", import[i].next = 1
  PROVE  /\ Of(product, i) = {} /\ import[i].added = 0 /\ import[i].errors = 0
         /\ import[i].flushed = 0 /\ import[i].gone = 0
<1> DEFINE m == import[i]
           F == Of(product, i)
<1>1. /\ ImportOK(m) /\ Settled(m, F, Cardinality(Committed)) /\ IsFiniteSet(product)
  BY DEF IInv, TablesOK
<1>2. IsFiniteSet(F) /\ Cardinality(F) \in Nat
  BY <1>1, Part DEF Of
<1>3. m.added \in Nat /\ m.errors \in Nat /\ m.flushed \in Nat /\ m.gone \in Nat /\ m.next = 1
  BY <1>1 DEF ImportOK
<1> HIDE DEF m, F
<1>4. Cardinality(F) + m.gone = m.added /\ m.added + m.errors = m.flushed /\ m.flushed = m.next - 1
  BY <1>1 DEF Settled
<1>5. Cardinality(F) = 0 /\ m.added = 0 /\ m.errors = 0 /\ m.flushed = 0 /\ m.gone = 0
  BY <1>2, <1>3, <1>4
<1>6. F = {}
  BY <1>2, <1>5, FS_EmptySet
<1> QED
  BY <1>5, <1>6 DEF m, F

(* An import that reads nothing and inserts nothing, while others may have *)
(* the transaction.                                                        *)
LEMMA MoveKeeps ==
  ASSUME IInv, NEW i \in Imports, import[i].at # "chunk",
         NEW m, ImportOK(m), m.at # "chunk",
         Settled(m, Of(product, i), Cardinality(Committed)),
         import' = [import EXCEPT ![i] = m],
         UNCHANGED <<supplier, product, nextSupplier, tx>>, others' \in Nat, licensed' \in BOOLEAN
  PROVE  IInv'
<1>1. TablesOK(supplier, product, nextSupplier)'
  BY DEF IInv, TablesOK
<1>2. import'[i] = m /\ \A k \in Imports \ {i} : import'[k] = import[k]
  BY DEF IInv
<1>3. import' = [k \in Imports |-> import'[k]] /\ \A k \in Imports : ImportOK(import'[k])
  BY <1>2 DEF IInv
<1>4. Committed' = Committed /\ Unlocked' = Unlocked
  BY DEF Committed, Unlocked
<1>5. ASSUME NEW k \in Imports
      PROVE  IF import'[k].at = "chunk" THEN ~Unlocked' /\ tx'[1].by = k
             ELSE Settled(import'[k], Of(product', k), Cardinality(Committed'))
  BY <1>2, <1>4 DEF IInv
<1>6. ASSUME ~Unlocked
      PROVE  tx = <<tx[1]>> /\ tx[1].by \in Imports /\ OpenOK(tx[1], import'[tx[1].by], product)
  <2>1. tx = <<tx[1]>> /\ tx[1].by \in Imports /\ OpenOK(tx[1], import[tx[1].by], product)
    BY <1>6 DEF IInv
  <2>2. import[tx[1].by].at = "chunk"
    BY <2>1 DEF OpenOK, Halfway
  <2> QED
    BY <1>2, <2>1, <2>2
<1> QED
  BY <1>1, <1>3, <1>4, <1>5, <1>6 DEF IInv

----------------------------------------------------------------------------
(* What changes of an import                                               *)

(* A request that has just come.                                           *)
LEMMA NewImport ==
  ASSUME NEW at, NEW f, NEW on, NEW n,
         \/ n = [NoImport EXCEPT !.at = at, !.file = f, !.licensed = on, !.upload = TRUE]
         \/ /\ n = [NoImport EXCEPT !.at = at, !.upload = TRUE]
            /\ f = <<>> /\ on = FALSE
  PROVE  /\ Shape(n) /\ n.at = at /\ n.file = f /\ n.licensed = on /\ n.products = 0
         /\ n.next = 1 /\ n.added = 0 /\ n.errors = 0 /\ n.flushed = 0 /\ n.gone = 0 /\ n.others = 0
BY DEF Shape, NoImport

(* The file is gone.                                                       *)
LEMMA UploadGone ==
  ASSUME NEW m, Shape(m), NEW n, n = [m EXCEPT !.upload = FALSE]
  PROVE  /\ Shape(n) /\ n.at = m.at /\ n.file = m.file /\ n.licensed = m.licensed
         /\ n.map = m.map /\ n.products = m.products /\ n.next = m.next /\ n.added = m.added
         /\ n.errors = m.errors /\ n.flushed = m.flushed /\ n.gone = m.gone
         /\ n.others = m.others
BY DEF Shape

(* The suppliers have been read.                                           *)
HasRead(m, map, fuzzy, suppliers) ==
  [m EXCEPT !.at = "products", !.map = map, !.fuzzy = fuzzy, !.suppliers = suppliers]

(* What that changes.                                                      *)
LEMMA SuppliersRead ==
  ASSUME NEW m, Shape(m), NEW map, NEW fuzzy, NEW suppliers,
         NEW n, n = HasRead(m, map, fuzzy, suppliers)
  PROVE  /\ Shape(n) /\ n.at = "products" /\ n.file = m.file /\ n.licensed = m.licensed
         /\ n.map = map /\ n.products = m.products /\ n.next = m.next /\ n.added = m.added
         /\ n.errors = m.errors /\ n.flushed = m.flushed /\ n.gone = m.gone
         /\ n.others = m.others
BY DEF Shape, HasRead

(* The products have been counted.                                         *)
HasCounted(m, total) == [m EXCEPT !.at = "rows", !.products = total]

(* What that changes.                                                      *)
LEMMA ProductsCounted ==
  ASSUME NEW m, Shape(m), NEW total, NEW n, n = HasCounted(m, total)
  PROVE  /\ Shape(n) /\ n.at = "rows" /\ n.file = m.file /\ n.licensed = m.licensed
         /\ n.map = m.map /\ n.products = total /\ n.next = m.next /\ n.added = m.added
         /\ n.errors = m.errors /\ n.flushed = m.flushed /\ n.gone = m.gone
         /\ n.others = m.others
BY DEF Shape, HasCounted

(* Rows have been read.                                                    *)
ReadOn(m, next, errors) == [m EXCEPT !.next = next, !.errors = errors]

(* What that changes.                                                      *)
LEMMA RowsRead ==
  ASSUME NEW m, Shape(m), NEW next, NEW errors,
         NEW n, n = ReadOn(m, next, errors)
  PROVE  /\ Shape(n) /\ n.at = m.at /\ n.file = m.file
         /\ n.licensed = m.licensed /\ n.map = m.map
         /\ n.products = m.products /\ n.next = next /\ n.added = m.added
         /\ n.errors = errors /\ n.flushed = m.flushed /\ n.gone = m.gone
         /\ n.others = m.others
BY DEF Shape, ReadOn

(* They are accounted for.                                                 *)
Flush(m, at, flushed) == [m EXCEPT !.at = at, !.flushed = flushed]

(* What that changes.                                                      *)
LEMMA Flushed ==
  ASSUME NEW m, Shape(m), NEW at, NEW flushed,
         NEW n, n = Flush(m, at, flushed)
  PROVE  /\ Shape(n) /\ n.at = at /\ n.file = m.file
         /\ n.licensed = m.licensed /\ n.map = m.map
         /\ n.products = m.products /\ n.next = m.next /\ n.added = m.added
         /\ n.errors = m.errors /\ n.flushed = flushed /\ n.gone = m.gone
         /\ n.others = m.others
BY DEF Shape, Flush

(* A row is refused.                                                       *)
WithErrors(m, errors) == [m EXCEPT !.errors = errors]

(* What that changes.                                                      *)
LEMMA ErrorCounted ==
  ASSUME NEW m, Shape(m), NEW errors,
         NEW n, n = WithErrors(m, errors)
  PROVE  /\ Shape(n) /\ n.at = m.at /\ n.file = m.file
         /\ n.licensed = m.licensed /\ n.map = m.map
         /\ n.products = m.products /\ n.next = m.next /\ n.added = m.added
         /\ n.errors = errors /\ n.flushed = m.flushed /\ n.gone = m.gone
         /\ n.others = m.others
BY DEF Shape, WithErrors

(* Its product is inserted.                                                *)
WithAdded(m, added) == [m EXCEPT !.added = added]

(* What that changes.                                                      *)
LEMMA ProductAdded ==
  ASSUME NEW m, Shape(m), NEW added,
         NEW n, n = WithAdded(m, added)
  PROVE  /\ Shape(n) /\ n.at = m.at /\ n.file = m.file
         /\ n.licensed = m.licensed /\ n.map = m.map
         /\ n.products = m.products /\ n.next = m.next /\ n.added = added
         /\ n.errors = m.errors /\ n.flushed = m.flushed /\ n.gone = m.gone
         /\ n.others = m.others
BY DEF Shape, WithAdded

(* Its supplier is inserted.                                               *)
WithSupplier(m, map, suppliers) == [m EXCEPT !.map = map, !.suppliers = suppliers]

(* What that changes.                                                      *)
LEMMA SupplierAdded ==
  ASSUME NEW m, Shape(m), NEW map, NEW suppliers,
         NEW n, n = WithSupplier(m, map, suppliers)
  PROVE  /\ Shape(n) /\ n.at = m.at /\ n.file = m.file
         /\ n.licensed = m.licensed /\ n.map = map /\ n.products = m.products
         /\ n.next = m.next /\ n.added = m.added /\ n.errors = m.errors
         /\ n.flushed = m.flushed /\ n.gone = m.gone /\ n.others = m.others
BY DEF Shape, WithSupplier

(* Somebody has deleted its products.                                      *)
WithGone(m, gone) == [m EXCEPT !.gone = gone]

(* What that changes.                                                      *)
LEMMA ProductsGone ==
  ASSUME NEW m, Shape(m), NEW gone,
         NEW n, n = WithGone(m, gone)
  PROVE  /\ Shape(n) /\ n.at = m.at /\ n.file = m.file
         /\ n.licensed = m.licensed /\ n.map = m.map
         /\ n.products = m.products /\ n.next = m.next /\ n.added = m.added
         /\ n.errors = m.errors /\ n.flushed = m.flushed /\ n.gone = gone
         /\ n.others = m.others
BY DEF Shape, WithGone

(* Somebody has inserted others.                                           *)
WithOthers(m, theirs) == [m EXCEPT !.others = theirs]

(* What that changes.                                                      *)
LEMMA OthersAdded ==
  ASSUME NEW m, Shape(m), NEW theirs,
         NEW n, n = WithOthers(m, theirs)
  PROVE  /\ Shape(n) /\ n.at = m.at /\ n.file = m.file
         /\ n.licensed = m.licensed /\ n.map = m.map
         /\ n.products = m.products /\ n.next = m.next /\ n.added = m.added
         /\ n.errors = m.errors /\ n.flushed = m.flushed /\ n.gone = m.gone
         /\ n.others = theirs
BY DEF Shape, WithOthers

(* A request comes, with a spreadsheet or not.                             *)
LEMMA UploadKeeps ==
  ASSUME IInv, others' \in Nat, licensed' \in BOOLEAN, NEW i \in Imports,
         WrongKind(i) \/ \E f \in Files : Upload(i, f)
  PROVE  IInv'
<1> DEFINE total == Cardinality(Committed)
<1>1. /\ import[i] = NoImport
      /\ UNCHANGED <<supplier, product, nextSupplier, tx>>
  BY DEF WrongKind, Upload
<1>2. import[i].at # "chunk" /\ import[i].next = 1
  BY <1>1 DEF NoImport
<1>3. Of(product, i) = {}
  BY <1>2, NoneYet
<1>4. ASSUME NEW m, NEW at \in {"parsing", "failed"}, NEW f \in Files \cup {<<>>}, NEW on \in BOOLEAN,
             \/ m = [NoImport EXCEPT !.at = at, !.file = f, !.licensed = on, !.upload = TRUE]
             \/ /\ m = [NoImport EXCEPT !.at = at, !.upload = TRUE]
                /\ f = <<>> /\ on = FALSE
      PROVE  ImportOK(m) /\ m.at # "chunk" /\ Settled(m, Of(product, i), total)
  <2>1. /\ Shape(m) /\ m.at = at /\ m.file = f /\ m.licensed = on /\ m.products = 0
        /\ m.next = 1 /\ m.added = 0 /\ m.errors = 0 /\ m.flushed = 0 /\ m.gone = 0
        /\ m.others = 0
    BY <1>4 DEF NoImport, Shape
  <2>2. 1 \in 1..(Len(f) + 1)
    <3>1. Len(f) \in Nat
      BY <1>4, FileSeq
    <3> QED
      BY <3>1
  <2>3. ImportOK(m)
    BY <2>1, <2>2 DEF ImportOK, Stages, Early
  <2>4. Cardinality({}) = 0
    BY FS_EmptySet
  <2>5. Settled(m, {}, total)
    BY <2>1, <2>4 DEF Settled, Homes, Spared
  <2> QED
    BY <1>3, <2>1, <2>3, <2>5
<1>5. CASE WrongKind(i)
  <2> DEFINE m == [NoImport EXCEPT !.at = "failed", !.upload = TRUE]
  <2>1. import' = [import EXCEPT ![i] = m]
    BY <1>5 DEF WrongKind
  <2>2. \E at \in {"parsing", "failed"}, f \in Files \cup {<<>>}, on \in BOOLEAN :
          m = [NoImport EXCEPT !.at = at, !.upload = TRUE] /\ f = <<>> /\ on = FALSE
    OBVIOUS
  <2> HIDE DEF m
  <2>3. ImportOK(m) /\ m.at # "chunk" /\ Settled(m, Of(product, i), total)
    BY <1>4, <2>2
  <2> QED
    BY <1>1, <1>2, <2>1, <2>3, MoveKeeps
<1>6. ASSUME NEW f \in Files, Upload(i, f)
      PROVE  IInv'
  <2> DEFINE m == [NoImport EXCEPT !.at = "parsing", !.file = f, !.licensed = licensed,
                                   !.upload = TRUE]
  <2>1. import' = [import EXCEPT ![i] = m]
    BY <1>6 DEF Upload
  <2> HIDE DEF m
  <2>3. licensed \in BOOLEAN
    BY DEF IInv
  <2>4. ImportOK(m) /\ m.at # "chunk" /\ Settled(m, Of(product, i), total)
    BY <1>4, <2>3 DEF m
  <2> QED
    BY <1>1, <1>2, <2>1, <2>4, MoveKeeps
<1> QED
  BY <1>5, <1>6

(* An import goes to another stage and nothing else changes.               *)
LEMMA StageKeeps ==
  ASSUME IInv, others' \in Nat, licensed' \in BOOLEAN, NEW i \in Imports, import[i].at # "chunk",
         NEW at \in Stages \ {"chunk", "rows", "done"}, at \in Early => import[i].next = 1,
         import' = [import EXCEPT ![i] = [import[i] EXCEPT !.at = at]],
         UNCHANGED <<supplier, product, nextSupplier, tx>>
  PROVE  IInv'
<1> DEFINE m == import[i]
           n == [m EXCEPT !.at = at]
           total == Cardinality(Committed)
<1>1. ImportOK(m) /\ Settled(m, Of(product, i), total)
  BY DEF IInv
<1> HIDE DEF m, total
<1>2. /\ ImportOK(n) /\ n.at = at /\ n.file = m.file /\ n.licensed = m.licensed
      /\ n.map = m.map /\ n.products = m.products /\ n.next = m.next /\ n.added = m.added
      /\ n.errors = m.errors /\ n.flushed = m.flushed /\ n.gone = m.gone
      /\ n.others = m.others
  <2>1. at \in Early => m.next = 1
    BY DEF m
  <2> QED
    BY <1>1, <2>1, AtMoves
<1>3. import' = [import EXCEPT ![i] = n]
  BY DEF m
<1> HIDE DEF n
<1>4. Settled(n, Of(product, i), total)
  BY <1>1, <1>2 DEF Settled, Homes, Spared
<1> QED
  BY <1>2, <1>3, <1>4, MoveKeeps DEF total

(* The thread answers, or its time is over; the database is busy.          *)
LEMMA ThreadKeeps ==
  ASSUME IInv, others' \in Nat, licensed' \in BOOLEAN, NEW i \in Imports,
         Parsed(i) \/ ParseFails(i) \/ ParseTimeout(i) \/ Busy(i)
  PROVE  IInv'
<1>1. import[i].at \in {"parsing", "rows"}
  BY DEF Parsed, ParseFails, ParseTimeout, Busy
<1>2. ImportOK(import[i])
  BY DEF IInv
<1>3. CASE Fail(i) /\ UNCHANGED <<supplier, product, nextSupplier, tx>>
  <2>1. import' = [import EXCEPT ![i] = [import[i] EXCEPT !.at = "failed"]]
    BY <1>3 DEF Fail
  <2> QED
    BY <1>1, <1>3, <2>1, StageKeeps DEF Stages, Early
<1>4. CASE /\ import[i].at = "parsing" /\ UNCHANGED <<supplier, product, nextSupplier, tx>>
           /\ import' = [import EXCEPT ![i].at = "suppliers"]
  <2>1. import' = [import EXCEPT ![i] = [import[i] EXCEPT !.at = "suppliers"]]
    BY <1>4
  <2>2. import[i].next = 1
    BY <1>2, <1>4 DEF ImportOK, Early
  <2> QED
    BY <1>4, <2>1, <2>2, StageKeeps DEF Stages, Early
<1> QED
  BY <1>3, <1>4 DEF Parsed, ParseFails, ParseTimeout, Busy

(* The suppliers are read before the first row.                            *)
LEMMA SuppliersKeep ==
  ASSUME IInv, others' \in Nat, licensed' \in BOOLEAN, NEW i \in Imports, ReadSuppliers(i)
  PROVE  IInv'
<1> DEFINE m == import[i]
           n == [m EXCEPT !.at = "products", !.map = [k \in NormalNames |-> IdOf(k)],
                          !.fuzzy = NormalNames, !.suppliers = Cardinality(DOMAIN supplier)]
           total == Cardinality(Committed)
<1>1. /\ m.at = "suppliers" /\ import' = [import EXCEPT ![i] = n]
      /\ UNCHANGED <<supplier, product, nextSupplier, tx>>
  BY DEF ReadSuppliers
<1>2. ImportOK(m) /\ Settled(m, Of(product, i), total)
  BY <1>1 DEF IInv
<1>3. m.next = 1
  BY <1>1, <1>2 DEF ImportOK, Early
<1>4. Of(product, i) = {} /\ m.added = 0
  BY <1>1, <1>3, NoneYet
<1> HIDE DEF m, total
<1>5. /\ Shape(n)
      /\ n.at = "products" /\ n.file = m.file /\ n.licensed = m.licensed
      /\ n.products = m.products /\ n.next = m.next /\ n.added = m.added
      /\ n.errors = m.errors /\ n.flushed = m.flushed /\ n.gone = m.gone
      /\ n.others = m.others
  <2>1. Shape(m)
    BY <1>2 DEF ImportOK
  <2>2. n = HasRead(m, [k \in NormalNames |-> IdOf(k)], NormalNames, Cardinality(DOMAIN supplier))
    BY DEF HasRead
  <2> HIDE DEF n
  <2> QED
    BY <2>1, <2>2, SuppliersRead
<1> HIDE DEF n
<1>6. ImportOK(n)
  BY <1>2, <1>3, <1>5 DEF ImportOK, Stages, Early
<1>7. Settled(n, Of(product, i), total)
  BY <1>2, <1>4, <1>5 DEF Settled, Homes, Spared
<1> QED
  BY <1>1, <1>5, <1>6, <1>7, MoveKeeps DEF m, total

(* The products are counted, and nobody is inserting.                      *)
LEMMA CountKeeps ==
  ASSUME IInv, others' \in Nat, licensed' \in BOOLEAN, NEW i \in Imports, CountProducts(i)
  PROVE  IInv'
<1> DEFINE m == import[i]
           total == Cardinality(Committed)
           n == [m EXCEPT !.at = "rows", !.products = total]
<1>1. /\ m.at = "products" /\ import' = [import EXCEPT ![i] = n]
      /\ UNCHANGED <<supplier, product, nextSupplier, tx>>
  BY DEF CountProducts, Committed
<1>2. ImportOK(m) /\ Settled(m, Of(product, i), total)
  BY <1>1 DEF IInv
<1>3. m.next = 1
  BY <1>1, <1>2 DEF ImportOK, Early
<1>4. Of(product, i) = {} /\ m.added = 0
  BY <1>1, <1>3, NoneYet
<1>5. total \in Nat
  BY FS_CardinalityType DEF IInv, TablesOK, CountProducts, Committed
<1> HIDE DEF m, total
<1>6. /\ Shape(n)
      /\ n.at = "rows" /\ n.file = m.file /\ n.licensed = m.licensed
      /\ n.products = total /\ n.next = m.next /\ n.added = m.added
      /\ n.errors = m.errors /\ n.flushed = m.flushed /\ n.gone = m.gone
      /\ n.others = m.others
  <2>1. Shape(m)
    BY <1>2 DEF ImportOK
  <2>2. n = HasCounted(m, total)
    BY DEF HasCounted
  <2> HIDE DEF n
  <2> QED
    BY <2>1, <2>2, ProductsCounted
<1> HIDE DEF n
<1>7. ImportOK(n)
  BY <1>2, <1>3, <1>5, <1>6 DEF ImportOK, Stages, Early
<1>8. m.others \in Nat
  BY <1>2 DEF ImportOK
<1>9. total <= n.products + n.added + n.others
  BY <1>4, <1>5, <1>6, <1>8
<1>10. Settled(n, Of(product, i), total)
  BY <1>2, <1>4, <1>6, <1>9 DEF Settled, Homes, Spared
<1> QED
  BY <1>1, <1>6, <1>7, <1>10, MoveKeeps DEF m, total

(* The answer was given, and the file goes.                                *)
LEMMA UnlinkKeeps ==
  ASSUME IInv, others' \in Nat, licensed' \in BOOLEAN, NEW i \in Imports, Unlink(i)
  PROVE  IInv'
<1> DEFINE m == import[i]
           n == [m EXCEPT !.upload = FALSE]
           total == Cardinality(Committed)
<1>1. /\ m.at \in {"done", "failed"} /\ import' = [import EXCEPT ![i] = n]
      /\ UNCHANGED <<supplier, product, nextSupplier, tx>>
  BY DEF Unlink
<1>2. ImportOK(m) /\ Settled(m, Of(product, i), total)
  BY <1>1 DEF IInv
<1> HIDE DEF m, total
<1>3. /\ Shape(n)
      /\ n.at = m.at /\ n.file = m.file /\ n.licensed = m.licensed /\ n.map = m.map
      /\ n.products = m.products /\ n.next = m.next /\ n.added = m.added
      /\ n.errors = m.errors /\ n.flushed = m.flushed /\ n.gone = m.gone
      /\ n.others = m.others
  <2>1. Shape(m)
    BY <1>2 DEF ImportOK
  <2> QED
    BY <2>1, UploadGone
<1> HIDE DEF n
<1>4. ImportOK(n)
  BY <1>2, <1>3 DEF ImportOK
<1>5. Settled(n, Of(product, i), total)
  BY <1>2, <1>3 DEF Settled, Homes, Spared
<1> QED
  BY <1>1, <1>3, <1>4, <1>5, MoveKeeps DEF m, total

----------------------------------------------------------------------------
(* The rows of an open transaction                                         *)

(* Rows still to come are of the file, and their number is one.            *)
LEMMA RowsLeft ==
  ASSUME NEW m0, NEW m, ImportOK(m), NEW F, NEW rows, Halfway(m0, m, F, rows), NEW j \in rows
  PROVE  /\ rows \subseteq 1..(m.next - 1) /\ rows \subseteq Nat /\ j \in 1..Len(m.file)
         /\ m.file[j].name \in Names
         /\ IsFiniteSet(rows) /\ Cardinality(rows) \in Nat /\ Cardinality(rows \ {j}) \in Nat
         /\ Cardinality(rows \ {j}) = Cardinality(rows) - 1
<1>1. rows \subseteq 1..(m.next - 1) /\ \A k \in rows : Valid(m.file[k])
  BY DEF Halfway
<1>2. Len(m.file) \in Nat /\ m.next \in Nat \ {0} /\ m.next <= Len(m.file) + 1
  BY FileType
<1>3. j \in 1..Len(m.file) /\ rows \subseteq Nat
  BY <1>1, <1>2
<1>4. m.file[j].name \in Names
  BY <1>1, <1>3, FileType
<1>5. m.next - 1 \in Nat /\ 1 <= (m.next - 1) + 1
  BY <1>2
<1>6. IsFiniteSet(rows)
  BY <1>1, <1>5, Split
<1> QED
  BY <1>1, <1>3, <1>4, <1>6, OneLess

(* What a row leaves of its import, which only learns of new suppliers.    *)
Kept(m, n) ==
  /\ n.at = m.at /\ n.file = m.file /\ n.licensed = m.licensed /\ n.products = m.products
  /\ n.next = m.next /\ n.gone = m.gone /\ n.others = m.others
  /\ DOMAIN m.map \subseteq DOMAIN n.map /\ \A k \in DOMAIN m.map : n.map[k] = m.map[k]

(* A row is refused, after a supplier was inserted for it or not.          *)
LEMMA RowRefused ==
  ASSUME NEW m0, ImportOK(m0), NEW m, ImportOK(m), NEW F, NEW rows, Halfway(m0, m, F, rows),
         NEW j \in rows, NEW n,
         Kept(m, n), n.added = m.added, n.errors = m.errors + 1
  PROVE  Halfway(m0, n, F, rows \ {j})
<1>1. /\ Cardinality(rows) \in Nat /\ Cardinality(rows \ {j}) \in Nat
      /\ Cardinality(rows \ {j}) = Cardinality(rows) - 1
  BY RowsLeft
<1>2. Homes(n, F)
  BY DEF Halfway, Homes, Kept
<1>3. Spared(n)
  BY DEF Halfway, Spared, Kept
<1>4. m.added \in Nat /\ m.errors \in Nat /\ m.next \in Nat
  <2>1. m.next \in Nat
    BY FileType
  <2> QED
    BY <2>1 DEF ImportOK
<1>5. n.added + n.errors + Cardinality(rows \ {j}) = n.next - 1
  <2>1. m.added + m.errors + Cardinality(rows) = m.next - 1
    BY DEF Halfway
  <2> QED
    BY <1>1, <1>4, <2>1 DEF Kept
<1>6. \A p \in F : p.row \in (1..(n.next - 1)) \ (rows \ {j})
  BY DEF Halfway, Kept
<1> QED
  BY <1>2, <1>3, <1>5, <1>6 DEF Halfway, Kept

(* The import has inserted the product of row j.                           *)
OneAdded(m, n, j, home) ==
  /\ Kept(m, n) /\ n.added = m.added + 1 /\ n.errors = m.errors
  /\ NormalOf[m.file[j].name] \in DOMAIN n.map /\ home = n.map[NormalOf[m.file[j].name]]

(* The product of a row.                                                   *)
ProductOf(i, j, home) == [from |-> i, row |-> j, supplier |-> home, moved |-> FALSE]

(* A product is inserted for it, of the supplier the import has for its    *)
(* name.                                                                   *)
LEMMA RowInserted ==
  ASSUME NEW m0, ImportOK(m0), NEW m, ImportOK(m), NEW P, IsFiniteSet(P), NEW i,
         NEW rows, Halfway(m0, m, Of(P, i), rows), NEW j \in rows, ~QuotaFull(m), NEW n,
         NEW home, OneAdded(m, n, j, home), NEW r, r = ProductOf(i, j, home)
  PROVE  /\ Halfway(m0, n, Of(P \cup {r}, i), rows \ {j})
         /\ IsFiniteSet(P \cup {r}) /\ Cardinality(P) \in Nat
         /\ Cardinality(P \cup {r}) = Cardinality(P) + 1
<1> USE DEF OneAdded
<1> DEFINE F == Of(P, i)
<1>1. /\ Cardinality(rows) \in Nat /\ Cardinality(rows \ {j}) \in Nat
      /\ Cardinality(rows \ {j}) = Cardinality(rows) - 1
      /\ j \in 1..(m.next - 1)
  BY RowsLeft
<1>2. /\ r.from = i /\ r.row = j /\ r.moved = FALSE
      /\ r.supplier = n.map[NormalOf[m.file[j].name]]
  BY DEF ProductOf
<1>3. \A p \in F : p.row \in (1..(m.next - 1)) \ rows
  BY DEF Halfway
<1>4. r \notin F
  BY <1>2, <1>3
<1>5. r \notin P
  BY <1>2, <1>4 DEF Of
<1>6. Of(P \cup {r}, i) = F \cup {r}
  BY <1>2 DEF Of
<1>7. IsFiniteSet(F) /\ F \subseteq P
  BY Part DEF Of
<1>8. /\ IsFiniteSet(P \cup {r}) /\ Cardinality(P) \in Nat
      /\ Cardinality(P \cup {r}) = Cardinality(P) + 1
  BY <1>5, OneMore
<1>9. Cardinality(F) \in Nat /\ Cardinality(F \cup {r}) = Cardinality(F) + 1
  BY <1>4, <1>7, OneMore
<1>10. m.added \in Nat /\ m.errors \in Nat /\ m.next \in Nat /\ m.gone \in Nat /\ m0.added \in Nat
       /\ m.products \in Nat
  <2>1. m.next \in Nat
    BY FileType
  <2> QED
    BY <2>1 DEF ImportOK
<1>11. Homes(m, F) /\ Spared(m) /\ Cardinality(F) + m.gone = m.added
       /\ m.added + m.errors + Cardinality(rows) = m.next - 1 /\ m.added >= m0.added
  BY DEF Halfway
<1> HIDE DEF F
<1>12. Homes(n, F \cup {r})
  <2>1. Homes(n, F)
    BY <1>11 DEF Homes, Kept
  <2> QED
    BY <1>2, <2>1 DEF Homes, Kept
<1>13. Spared(n)
  <2>1. FreeMaxProducts \in Nat
    BY ImportAssumption
  <2>2. m.licensed \/ m.products + m.added < FreeMaxProducts
    <3>1. m.licensed \/ ~(m.products + m.added >= FreeMaxProducts)
      BY DEF QuotaFull
    <3> QED
      BY <1>10, <2>1, <3>1
  <2>3. n.licensed = m.licensed /\ n.products = m.products /\ n.added = m.added + 1
    BY DEF Kept
  <2>4. m.products + m.added < FreeMaxProducts => m.products + (m.added + 1) <= FreeMaxProducts
    BY <1>10, <2>1
  <2> QED
    BY <2>2, <2>3, <2>4 DEF Spared
<1>14. Cardinality(F \cup {r}) + n.gone = n.added /\ n.added >= m0.added
  BY <1>9, <1>10, <1>11 DEF Kept
<1>15. n.added + n.errors + Cardinality(rows \ {j}) = n.next - 1
  BY <1>1, <1>10, <1>11 DEF Kept
<1>16. \A p \in F \cup {r} : p.row \in (1..(n.next - 1)) \ (rows \ {j})
  BY <1>1, <1>2, <1>3 DEF F, Kept
<1>17. Halfway(m0, n, F \cup {r}, rows \ {j})
  BY <1>12, <1>13, <1>14, <1>15, <1>16 DEF Halfway, Kept
<1> QED
  BY <1>6, <1>8, <1>17

(* A transaction with fewer rows to come.                                  *)
LessRows(t, rows) == [t EXCEPT !.rows = rows]

(* What that changes.                                                      *)
LEMMA RowsTaken ==
  ASSUME NEW t, NEW rows, NEW s, s = LessRows(t, rows),
         t = [by |-> t.by, rows |-> t.rows, supplier |-> t.supplier, product |-> t.product,
              next |-> t.next, import |-> t.import]
  PROVE  /\ s = [by |-> s.by, rows |-> s.rows, supplier |-> s.supplier, product |-> s.product,
                 next |-> s.next, import |-> s.import]
         /\ s.by = t.by /\ s.rows = rows /\ s.supplier = t.supplier
         /\ s.product = t.product /\ s.next = t.next /\ s.import = t.import
BY DEF LessRows

(* The import that is in the transaction.                                  *)
LEMMA InTx ==
  ASSUME IInv, NEW i \in Imports, import[i].at = "chunk"
  PROVE  /\ ~Unlocked /\ tx = <<tx[1]>> /\ tx[1].by = i /\ Committed = tx[1].product
         /\ OpenOK(tx[1], import[i], product) /\ ImportOK(import[i])
         /\ \A k \in Imports \ {i} :
              /\ import[k].at # "chunk"
              /\ Settled(import[k], Of(product, k), Cardinality(Committed))
BY DEF IInv, Committed

(* A row is done: the rest of its chunk is still to come.                  *)
LEMMA RowKeeps ==
  ASSUME IInv, NEW i \in Imports, import[i].at = "chunk",
         NEW m, import' = [import EXCEPT ![i] = m], ImportOK(m),
         NEW t, tx' = <<t>>, NEW rows, t = LessRows(tx[1], rows),
         TablesOK(supplier, product, nextSupplier)', others' \in Nat, licensed' \in BOOLEAN,
         Halfway(tx[1].import, m, Of(product', i), rows),
         \A k \in Imports \ {i} : Of(product', k) = Of(product, k),
         Cardinality(product') = Cardinality(tx[1].product) + m.added - tx[1].import.added
  PROVE  IInv'
<1> DEFINE t0 == tx[1]
<1>1. /\ ~Unlocked /\ tx = <<t0>> /\ t0.by = i /\ Committed = t0.product
      /\ OpenOK(t0, import[i], product) /\ ImportOK(import[i])
      /\ \A k \in Imports \ {i} :
           /\ import[k].at # "chunk"
           /\ Settled(import[k], Of(product, k), Cardinality(Committed))
  BY InTx
<1>2. t0 = [by |-> t0.by, rows |-> t0.rows, supplier |-> t0.supplier, product |-> t0.product,
            next |-> t0.next, import |-> t0.import]
  BY <1>1 DEF OpenOK
<1>3. /\ t = [by |-> t.by, rows |-> t.rows, supplier |-> t.supplier, product |-> t.product,
              next |-> t.next, import |-> t.import]
      /\ t.by = t0.by /\ t.rows = rows /\ t.supplier = t0.supplier
      /\ t.product = t0.product /\ t.next = t0.next /\ t.import = t0.import
  BY <1>2, RowsTaken
<1>4. ~Unlocked' /\ tx'[1] = t /\ Committed' = t0.product /\ tx' = <<tx'[1]>>
  BY <1>3 DEF Unlocked, Committed
<1>5. import'[i] = m /\ \A k \in Imports \ {i} : import'[k] = import[k]
  BY DEF IInv
<1>6. import' = [k \in Imports |-> import'[k]] /\ \A k \in Imports : ImportOK(import'[k])
  BY <1>5 DEF IInv
<1>7. m.at = "chunk"
  BY DEF Halfway
<1>8. OpenOK(t, m, product')
  <2>1. Halfway(t.import, m, Of(product', t.by), t.rows)
    BY <1>1, <1>3
  <2>2. \A k \in Imports \ {t.by} : Of(product', k) = Of(t.product, k)
    BY <1>1, <1>3 DEF OpenOK
  <2>3. Cardinality(product') = Cardinality(t.product) + m.added - t.import.added
    BY <1>3
  <2>4. /\ TablesOK(t.supplier, t.product, t.next)
        /\ ImportOK(t.import) /\ t.import.at = "rows"
        /\ Settled(t.import, Of(t.product, t.by), Cardinality(t.product))
    BY <1>1, <1>3 DEF OpenOK
  <2> QED
    BY <1>3, <2>1, <2>2, <2>3, <2>4 DEF OpenOK
<1>9. tx'[1].by = i
  BY <1>1, <1>3, <1>4
<1>10. ASSUME NEW k \in Imports
       PROVE  IF import'[k].at = "chunk" THEN ~Unlocked' /\ tx'[1].by = k
              ELSE Settled(import'[k], Of(product', k), Cardinality(Committed'))
  <2>1. CASE k = i
    BY <1>4, <1>5, <1>7, <1>9, <2>1
  <2>2. CASE k # i
    <3>1. import'[k] = import[k] /\ Of(product', k) = Of(product, k) /\ Committed' = Committed
      BY <1>1, <1>4, <1>5, <2>2
    <3>2. import[k].at # "chunk" /\ Settled(import[k], Of(product, k), Cardinality(Committed))
      BY <1>1, <2>2
    <3> QED
      BY <3>1, <3>2
  <2> QED
    BY <2>1, <2>2
<1>11. OpenOK(tx'[1], import'[tx'[1].by], product')
  BY <1>4, <1>5, <1>8, <1>9
<1>12. TablesOK(supplier', product', nextSupplier')
  OBVIOUS
<1> QED
  BY <1>4, <1>6, <1>9, <1>10, <1>11, <1>12 DEF IInv

(* A row is refused.                                                       *)
LEMMA RefuseKeeps ==
  ASSUME IInv, others' \in Nat, licensed' \in BOOLEAN, NEW i \in Imports, import[i].at = "chunk",
         NEW j \in tx[1].rows, Refuse(i, j)
  PROVE  IInv'
<1> DEFINE m == import[i]
           t0 == tx[1]
           n == WithErrors(m, m.errors + 1)
           t == LessRows(t0, t0.rows \ {j})
<1>1. import' = [import EXCEPT ![i] = n] /\ tx' = <<t>>
  BY DEF Refuse, RowDone, WithErrors, LessRows
<1>2. UNCHANGED <<supplier, product, nextSupplier>>
  BY DEF Refuse
<1>3. OpenOK(t0, m, product) /\ ImportOK(m) /\ t0.by = i
  BY InTx
<1>4. Halfway(t0.import, m, Of(product, i), t0.rows) /\ ImportOK(t0.import)
      /\ Cardinality(product) = Cardinality(t0.product) + m.added - t0.import.added
      /\ \A k \in Imports \ {i} : Of(product, k) = Of(t0.product, k)
  BY <1>3 DEF OpenOK
<1>5. TablesOK(supplier, product, nextSupplier)'
  BY <1>2 DEF IInv, TablesOK
<1> HIDE DEF m, n, t
<1>6. /\ Shape(n) /\ n.at = m.at /\ n.file = m.file /\ n.licensed = m.licensed
      /\ n.map = m.map /\ n.products = m.products /\ n.next = m.next
      /\ n.added = m.added /\ n.errors = m.errors + 1 /\ n.flushed = m.flushed
      /\ n.gone = m.gone /\ n.others = m.others
  <2>1. Shape(m)
    BY <1>3 DEF ImportOK
  <2> QED
    BY <2>1, ErrorCounted DEF n
<1>7. ImportOK(n)
  BY <1>3, <1>6 DEF ImportOK
<1>8. Halfway(t0.import, n, Of(product, i), t0.rows \ {j})
  <2> HIDE DEF t0
  <2>1. j \in t0.rows
    BY DEF t0
  <2> QED
    <3>1. Kept(m, n)
      BY <1>6 DEF Kept
    <3> QED
      BY <1>3, <1>4, <1>6, <2>1, <3>1, RowRefused
<1>9. t = LessRows(tx[1], t0.rows \ {j})
  BY DEF t
<1>10. Cardinality(product) = Cardinality(tx[1].product) + n.added - tx[1].import.added
  BY <1>4, <1>6
<1>11. product' = product /\ import[i].at = "chunk"
  BY <1>2
<1> QED
  BY <1>1, <1>5, <1>7, <1>8, <1>9, <1>10, <1>11, RowKeeps

(* A statement throws: all is as before the transaction, but for an import *)
(* that has failed.                                                        *)
LEMMA RollbackKeeps ==
  ASSUME IInv, others' \in Nat, licensed' \in BOOLEAN, NEW i \in Imports, import[i].at = "chunk",
         Rollback(i)
  PROVE  IInv'
<1> DEFINE t == tx[1]
           n == [t.import EXCEPT !.at = "failed"]
<1>1. /\ tx' = <<>> /\ supplier' = t.supplier /\ product' = t.product /\ nextSupplier' = t.next
      /\ import' = [import EXCEPT ![i] = n]
  BY DEF Rollback
<1>2. /\ ~Unlocked /\ t.by = i /\ Committed = t.product
      /\ OpenOK(t, import[i], product)
      /\ \A k \in Imports \ {i} :
           /\ import[k].at # "chunk"
           /\ Settled(import[k], Of(product, k), Cardinality(Committed))
  BY InTx
<1> HIDE DEF t
<1>3. /\ TablesOK(t.supplier, t.product, t.next) /\ ImportOK(t.import)
      /\ Settled(t.import, Of(t.product, i), Cardinality(t.product))
      /\ \A k \in Imports \ {i} : Of(product, k) = Of(t.product, k)
  BY <1>2 DEF OpenOK
<1>4. ImportOK(n) /\ n.at = "failed" /\ Settled(n, Of(t.product, i), Cardinality(t.product))
  BY <1>3, FailSettled
<1> HIDE DEF n
<1>5. Unlocked' /\ Committed' = t.product
  BY <1>1 DEF Unlocked, Committed
<1>6. import'[i] = n /\ \A k \in Imports \ {i} : import'[k] = import[k]
  BY <1>1 DEF IInv
<1>7. import' = [k \in Imports |-> import'[k]] /\ \A k \in Imports : ImportOK(import'[k])
  BY <1>1, <1>4, <1>6 DEF IInv
<1>8. TablesOK(supplier', product', nextSupplier')
  BY <1>1, <1>3
<1>9. ASSUME NEW k \in Imports
      PROVE  /\ import'[k].at # "chunk"
             /\ Settled(import'[k], Of(product', k), Cardinality(Committed'))
  <2>1. CASE k = i
    BY <1>1, <1>4, <1>5, <1>6, <2>1
  <2>2. CASE k # i
    <3>1. import'[k] = import[k] /\ Of(product', k) = Of(product, k) /\ Committed' = Committed
      BY <1>1, <1>2, <1>3, <1>5, <1>6, <2>2
    <3> QED
      BY <1>2, <2>2, <3>1
  <2> QED
    BY <2>1, <2>2
<1> QED
  BY <1>5, <1>7, <1>8, <1>9 DEF IInv

(* One more supplier of a name that no supplier has.                       *)
LEMMA SupplierGrows ==
  ASSUME NEW s, NEW P, NEW next, TablesOK(s, P, next), NEW name \in Names,
         name \notin {s[id] : id \in DOMAIN s}, NEW t, t = Put(s, next, name)
  PROVE  TablesOK(t, P, next + 1) /\ DOMAIN t = DOMAIN s \cup {next}
<1>1. DOMAIN t = DOMAIN s \cup {next} /\ t[next] = name /\ next \notin DOMAIN s
  BY DEF TablesOK, Put
<1>2. \A id \in DOMAIN s : t[id] = s[id]
  BY <1>1 DEF Put
<1>3. next + 1 \in Nat /\ next < next + 1 /\ next \in Nat
  BY DEF TablesOK
<1>4. ASSUME NEW id \in DOMAIN t
      PROVE  id \in Nat /\ id < next + 1 /\ t[id] \in Names
  <2>1. CASE id \in DOMAIN s
    BY <1>2, <2>1 DEF TablesOK
  <2>2. CASE id = next
    BY <1>1, <1>3, <2>2
  <2> QED
    BY <1>1, <2>1, <2>2
<1>5. \A a, b \in DOMAIN t : t[a] = t[b] => a = b
  BY <1>1, <1>2 DEF TablesOK
<1> QED
  BY <1>1, <1>3, <1>4, <1>5 DEF TablesOK

(* One more product of a supplier that is there, of no row that has one.   *)
LEMMA ProductGrows ==
  ASSUME NEW s, NEW P, NEW next, TablesOK(s, P, next), NEW r, r.supplier \in DOMAIN s,
         r.from \in Imports \cup {Stranger},
         r.from \in Imports => \A p \in P : p.from = r.from => p.row # r.row
  PROVE  TablesOK(s, P \cup {r}, next)
<1>1. IsFiniteSet(P \cup {r})
  BY FS_AddElement DEF TablesOK
<1>2. Keyed(P \cup {r})
  BY DEF TablesOK, Keyed
<1> QED
  BY <1>1, <1>2 DEF TablesOK

(* A product is inserted for a row.                                        *)
LEMMA InsertKeeps ==
  ASSUME IInv, others' \in Nat, licensed' \in BOOLEAN, NEW i \in Imports, import[i].at = "chunk",
         NEW j \in tx[1].rows, ~QuotaFull(import[i]),
         NEW n, ImportOK(n), import' = [import EXCEPT ![i] = n],
         NEW home, OneAdded(import[i], n, j, home),
         InsertProduct(i, j, home), RowDone(j),
         TablesOK(supplier', product, nextSupplier'), home \in DOMAIN supplier'
  PROVE  IInv'
<1> DEFINE m == import[i]
           t0 == tx[1]
           t == LessRows(t0, t0.rows \ {j})
           r == ProductOf(i, j, home)
<1>1. product' = product \cup {r} /\ tx' = <<t>>
  BY DEF InsertProduct, RowDone, LessRows, ProductOf
<1>2. OpenOK(t0, m, product) /\ t0.by = i
  BY InTx
<1>3. /\ Halfway(t0.import, m, Of(product, i), t0.rows) /\ ImportOK(t0.import)
      /\ Cardinality(product) = Cardinality(t0.product) + m.added - t0.import.added
      /\ \A q \in Imports \ {i} : Of(product, q) = Of(t0.product, q)
      /\ TablesOK(t0.supplier, t0.product, t0.next)
  BY <1>2 DEF OpenOK
<1>4. IsFiniteSet(product)
  BY DEF IInv, TablesOK
<1>5. j \in t0.rows /\ ~QuotaFull(m) /\ import[i].at = "chunk" /\ ImportOK(m) /\ OneAdded(m, n, j, home)
  BY DEF IInv
<1> HIDE DEF t, m
<1>6. /\ Halfway(t0.import, n, Of(product \cup {r}, i), t0.rows \ {j})
      /\ IsFiniteSet(product \cup {r}) /\ Cardinality(product) \in Nat
      /\ Cardinality(product \cup {r}) = Cardinality(product) + 1
  <2>1. r = ProductOf(i, j, home)
    OBVIOUS
  <2>2. Halfway(t0.import, m, Of(product, i), t0.rows) /\ ImportOK(t0.import)
    BY <1>3
  <2>3. j \in t0.rows /\ ~QuotaFull(m) /\ ImportOK(m) /\ OneAdded(m, n, j, home)
    BY <1>5
  <2> HIDE DEF t0, r
  <2> QED
    BY <1>4, <2>1, <2>2, <2>3, RowInserted
<1>7. /\ r.from = i /\ r.supplier = home
      /\ \A p \in product : p.from = r.from => p.row # r.row
  BY <1>3, <1>5 DEF ProductOf, Halfway, Of
<1> HIDE DEF r
<1>8. TablesOK(supplier', product', nextSupplier')
  BY <1>1, <1>7, ProductGrows
<1>9. \A q \in Imports \ {i} : Of(product', q) = Of(product, q)
  BY <1>1, <1>7 DEF Of
<1>10. Cardinality(product') = Cardinality(t0.product) + n.added - t0.import.added
  <2>1. m.added \in Nat /\ t0.import.added \in Nat
    BY <1>3, <1>5 DEF ImportOK
  <2>2. Cardinality(t0.product) \in Nat
    BY <1>3, FS_CardinalityType DEF TablesOK
  <2>3. /\ n.added = m.added + 1 /\ Cardinality(product') = Cardinality(product) + 1
        /\ Cardinality(product) = Cardinality(t0.product) + m.added - t0.import.added
    BY <1>1, <1>3, <1>5, <1>6 DEF OneAdded
  <2> QED
    BY <1>6, <2>1, <2>2, <2>3
<1>11. t = LessRows(tx[1], t0.rows \ {j})
  BY DEF t
<1>12. Halfway(t0.import, n, Of(product', i), t0.rows \ {j})
  BY <1>1, <1>6
<1> QED
  BY <1>1, <1>5, <1>8, <1>9, <1>10, <1>11, <1>12, RowKeeps

(* A row of a supplier that the import knows.                              *)
LEMMA KnownKeeps ==
  ASSUME IInv, others' \in Nat, licensed' \in BOOLEAN, NEW i \in Imports, import[i].at = "chunk",
         NEW j \in tx[1].rows, Known(import[i], NormalOf[import[i].file[j].name]),
         KnownSupplier(i, j, import[i].map[NormalOf[import[i].file[j].name]])
  PROVE  IInv'
<1> DEFINE m == import[i]
           n == WithAdded(m, m.added + 1)
           home == m.map[NormalOf[m.file[j].name]]
<1>1. CASE QuotaFull(m)
  <2>1. Refuse(i, j)
    BY <1>1 DEF KnownSupplier
  <2> QED
    BY <2>1, RefuseKeeps
<1>2. CASE ~QuotaFull(m) /\ home \notin DOMAIN supplier
  <2>1. Rollback(i)
    BY <1>2 DEF KnownSupplier
  <2> QED
    BY <2>1, RollbackKeeps
<1>3. CASE ~QuotaFull(m) /\ home \in DOMAIN supplier
  <2>1. /\ InsertProduct(i, j, home) /\ RowDone(j) /\ UNCHANGED <<supplier, nextSupplier>>
        /\ import' = [import EXCEPT ![i] = n]
    BY <1>3 DEF KnownSupplier, WithAdded
  <2>2. m = import[i] /\ home \in DOMAIN supplier'
    BY <1>3, <2>1
  <2>3. ImportOK(m) /\ NormalOf[m.file[j].name] \in DOMAIN m.map
    BY DEF IInv, Known
  <2>4. Shape(m) /\ m.added \in Nat
    BY <2>3 DEF ImportOK
  <2> HIDE DEF m, n, home
  <2>5. /\ Shape(n) /\ n.at = m.at /\ n.file = m.file /\ n.licensed = m.licensed
        /\ n.map = m.map /\ n.products = m.products /\ n.next = m.next
        /\ n.added = m.added + 1 /\ n.errors = m.errors /\ n.flushed = m.flushed
        /\ n.gone = m.gone /\ n.others = m.others
    BY <2>4, ProductAdded DEF n
  <2>6. m.added + 1 \in Nat
    BY <2>4
  <2>7. ImportOK(n)
    BY <2>3, <2>5, <2>6 DEF ImportOK
  <2>8. Kept(m, n)
    BY <2>5 DEF Kept
  <2>9. TablesOK(supplier', product, nextSupplier')
    BY <2>1 DEF IInv
  <2>10. OneAdded(m, n, j, home)
    BY <2>3, <2>5, <2>8 DEF home, OneAdded
  <2> QED
    BY <1>3, <2>1, <2>2, <2>7, <2>9, <2>10, InsertKeeps
<1> QED
  BY <1>1, <1>2, <1>3

(* A row of a supplier that is new.                                        *)
LEMMA NewKeeps ==
  ASSUME IInv, others' \in Nat, licensed' \in BOOLEAN, NEW i \in Imports, import[i].at = "chunk",
         NEW j \in tx[1].rows, ~Known(import[i], NormalOf[import[i].file[j].name]),
         NewSupplier(i, j, import[i].file[j].name)
  PROVE  IInv'
<1> DEFINE m == import[i]
           t0 == tx[1]
           name == m.file[j].name
           map == Put(m.map, NormalOf[name], nextSupplier)
           m1 == WithSupplier(m, map, m.suppliers + 1)
<1>1. CASE name \in {supplier[id] : id \in DOMAIN supplier}
  <2>1. Rollback(i)
    BY <1>1 DEF NewSupplier
  <2> QED
    BY <2>1, RollbackKeeps
<1>2. CASE name \notin {supplier[id] : id \in DOMAIN supplier}
  <2>1. /\ supplier' = Put(supplier, nextSupplier, name) /\ nextSupplier' = nextSupplier + 1
        /\ RowDone(j)
        /\ \/ QuotaFull(m1) /\ import' = [import EXCEPT ![i] = WithErrors(m1, m1.errors + 1)]
              /\ UNCHANGED product
           \/ ~QuotaFull(m1) /\ import' = [import EXCEPT ![i] = WithAdded(m1, m1.added + 1)]
              /\ InsertProduct(i, j, nextSupplier)
    BY <1>2 DEF NewSupplier, WithSupplier, WithErrors, WithAdded
  <2>2. OpenOK(t0, m, product) /\ t0.by = i /\ ImportOK(m)
    BY InTx
  <2>3. /\ Halfway(t0.import, m, Of(product, i), t0.rows) /\ ImportOK(t0.import)
        /\ Cardinality(product) = Cardinality(t0.product) + m.added - t0.import.added
        /\ \A q \in Imports \ {i} : Of(product, q) = Of(t0.product, q)
    BY <2>2 DEF OpenOK
  <2>4. j \in t0.rows /\ NormalOf[name] \notin DOMAIN m.map
    BY DEF Known
  <2>5. name \in Names
    <3> HIDE DEF t0, m
    <3> QED
      BY <2>2, <2>3, <2>4, RowsLeft
  <2>6. TablesOK(supplier', product, nextSupplier') /\ nextSupplier \in DOMAIN supplier'
    <3>1. TablesOK(supplier, product, nextSupplier)
      BY DEF IInv
    <3>2. supplier' = Put(supplier, nextSupplier, name) /\ nextSupplier' = nextSupplier + 1
      BY <2>1
    <3> HIDE DEF name
    <3>3. /\ TablesOK(supplier', product, nextSupplier + 1)
          /\ DOMAIN supplier' = DOMAIN supplier \cup {nextSupplier}
      <4>1. supplier' = Put(supplier, nextSupplier, name)
        BY <3>2
      <4> QED
        BY <1>2, <2>5, <3>1, <4>1, SupplierGrows
    <3> QED
      BY <3>2, <3>3
  <2>7. Shape(m) /\ m.added \in Nat /\ m.errors \in Nat
    BY <2>2 DEF ImportOK
  <2>8. DOMAIN m.map \subseteq DOMAIN map /\ NormalOf[name] \in DOMAIN map
        /\ map[NormalOf[name]] = nextSupplier /\ \A k \in DOMAIN m.map : map[k] = m.map[k]
    <3> HIDE DEF m, name
    <3> QED
      BY <2>4 DEF Put
  <2>9. m = import[i] /\ import[i].at = "chunk" /\ name = m.file[j].name
    OBVIOUS
  <2> HIDE DEF m, m1, map, name
  <2>10. /\ Shape(m1) /\ m1.at = m.at /\ m1.file = m.file /\ m1.licensed = m.licensed
         /\ m1.map = map /\ m1.products = m.products /\ m1.next = m.next
         /\ m1.added = m.added /\ m1.errors = m.errors /\ m1.flushed = m.flushed
         /\ m1.gone = m.gone /\ m1.others = m.others
    BY <2>7, SupplierAdded DEF m1
  <2>11. CASE QuotaFull(m1)
    <3> DEFINE n == WithErrors(m1, m1.errors + 1)
               t == LessRows(t0, t0.rows \ {j})
    <3>1. import' = [import EXCEPT ![i] = n] /\ product' = product /\ tx' = <<t>>
          /\ t = LessRows(tx[1], t0.rows \ {j})
      BY <2>1, <2>11 DEF RowDone, LessRows
    <3> HIDE DEF n, t
    <3>2. /\ Shape(n) /\ n.at = m1.at /\ n.file = m1.file /\ n.licensed = m1.licensed
          /\ n.map = m1.map /\ n.products = m1.products /\ n.next = m1.next
          /\ n.added = m1.added /\ n.errors = m1.errors + 1 /\ n.flushed = m1.flushed
          /\ n.gone = m1.gone /\ n.others = m1.others
      BY <2>10, ErrorCounted DEF n
    <3>3. /\ Kept(m, n) /\ n.added = m.added /\ n.errors = m.errors + 1
      BY <2>8, <2>10, <3>2 DEF Kept
    <3>4. m.errors + 1 \in Nat
      BY <2>7
    <3>5. ImportOK(n)
      BY <2>2, <2>10, <3>2, <3>4 DEF ImportOK
    <3>6. Halfway(t0.import, n, Of(product, i), t0.rows \ {j})
      <4> HIDE DEF t0
      <4> QED
        BY <2>2, <2>3, <2>4, <3>3, RowRefused
    <3>7. Cardinality(product) = Cardinality(t0.product) + n.added - t0.import.added
      BY <2>3, <3>3
    <3>8. TablesOK(supplier', product', nextSupplier')
      BY <2>6, <3>1
    <3> QED
      BY <2>9, <3>1, <3>5, <3>6, <3>7, <3>8, RowKeeps
  <2>12. CASE ~QuotaFull(m1)
    <3> DEFINE n == WithAdded(m1, m1.added + 1)
    <3>1. import' = [import EXCEPT ![i] = n] /\ InsertProduct(i, j, nextSupplier) /\ RowDone(j)
      BY <2>1, <2>12
    <3> HIDE DEF n
    <3>2. /\ Shape(n) /\ n.at = m1.at /\ n.file = m1.file /\ n.licensed = m1.licensed
          /\ n.map = m1.map /\ n.products = m1.products /\ n.next = m1.next
          /\ n.added = m1.added + 1 /\ n.errors = m1.errors /\ n.flushed = m1.flushed
          /\ n.gone = m1.gone /\ n.others = m1.others
      BY <2>10, ProductAdded DEF n
    <3>3. /\ Kept(m, n) /\ n.added = m.added + 1 /\ n.errors = m.errors
      BY <2>8, <2>10, <3>2 DEF Kept
    <3>4. m.added + 1 \in Nat
      BY <2>7
    <3>5. ImportOK(n)
      BY <2>2, <2>10, <3>2, <3>4 DEF ImportOK
    <3>6. OneAdded(m, n, j, nextSupplier)
      BY <2>8, <2>9, <2>10, <3>2, <3>3 DEF OneAdded
    <3>7. ~QuotaFull(m)
      BY <2>10, <2>12 DEF QuotaFull
    <3> QED
      BY <2>6, <2>9, <3>1, <3>5, <3>6, <3>7, InsertKeeps
  <2> QED
    BY <2>11, <2>12
<1> QED
  BY <1>1, <1>2

(* The loop over a chunk, row by row.                                      *)
LEMMA ImportRowKeeps ==
  ASSUME IInv, others' \in Nat, licensed' \in BOOLEAN, NEW i \in Imports, ImportRow(i)
  PROVE  IInv'
<1> DEFINE m == import[i]
           j == Min(tx[1].rows)
           name == m.file[j].name
           n == NormalOf[name]
<1>1. import[i].at = "chunk" /\ tx[1].rows # {}
  BY DEF ImportRow
<1>2. j \in tx[1].rows
  <2>1. OpenOK(tx[1], m, product) /\ ImportOK(m)
    BY <1>1, InTx
  <2>2. tx[1].rows \subseteq 1..(m.next - 1)
    BY <2>1 DEF OpenOK, Halfway
  <2>3. m.next \in Nat
    BY <2>1, FileType
  <2>4. tx[1].rows \subseteq Nat
    BY <2>2, <2>3
  <2> QED
    BY <1>1, <2>4, Least
<1>3. \/ Known(m, n) /\ KnownSupplier(i, j, m.map[n])
      \/ ~Known(m, n) /\ Refuse(i, j)
      \/ ~Known(m, n) /\ NewSupplier(i, j, name)
  BY DEF ImportRow
<1> HIDE DEF j
<1>4. CASE Known(m, n) /\ KnownSupplier(i, j, m.map[n])
  BY <1>1, <1>2, <1>4, KnownKeeps
<1>5. CASE Refuse(i, j)
  BY <1>1, <1>2, <1>5, RefuseKeeps
<1>6. CASE ~Known(m, n) /\ NewSupplier(i, j, name)
  BY <1>1, <1>2, <1>6, NewKeeps
<1> QED
  BY <1>3, <1>4, <1>5, <1>6

----------------------------------------------------------------------------
(* Between two transactions                                                *)

(* Nobody is in a transaction, and every import is settled.                *)
LEMMA OpenKeeps ==
  ASSUME TablesOK(supplier', product', nextSupplier'), others' \in Nat, licensed' \in BOOLEAN,
         tx' = <<>>, import' = [k \in Imports |-> import'[k]],
         \A k \in Imports : /\ ImportOK(import'[k]) /\ import'[k].at # "chunk"
                            /\ Settled(import'[k], Of(product', k), Cardinality(product'))
  PROVE  IInv'
<1>1. Unlocked' /\ Committed' = product'
  BY DEF Unlocked, Committed
<1> QED
  BY <1>1 DEF IInv

(* No import is in a transaction when none is open.                        *)
LEMMA AllSettled ==
  ASSUME IInv, Unlocked, NEW k \in Imports
  PROVE  /\ ImportOK(import[k]) /\ import[k].at # "chunk"
         /\ Settled(import[k], Of(product, k), Cardinality(product))
BY DEF IInv, Committed

(* Up to k products were inserted by others, and the import notes k.       *)
LEMMA OthersNoted ==
  ASSUME NEW m, ImportOK(m), NEW F, NEW total \in Nat, NEW more \in Nat, NEW k \in Nat,
         more <= total + k, Settled(m, F, total), NEW n, n = WithOthers(m, m.others + k)
  PROVE  ImportOK(n) /\ n.at = m.at /\ Settled(n, F, more)
<1>1. Shape(m) /\ m.others \in Nat /\ m.products \in Nat /\ m.added \in Nat
  BY DEF ImportOK
<1> DEFINE theirs == m.others + k
<1>2. theirs \in Nat
  BY <1>1
<1>3. n = WithOthers(m, theirs)
  OBVIOUS
<1>4. m.products + m.added + m.others + k = m.products + m.added + theirs
  BY <1>1
<1> HIDE DEF theirs
<1>5. /\ Shape(n) /\ n.at = m.at /\ n.file = m.file /\ n.licensed = m.licensed
      /\ n.map = m.map /\ n.products = m.products /\ n.next = m.next /\ n.added = m.added
      /\ n.errors = m.errors /\ n.flushed = m.flushed /\ n.gone = m.gone
      /\ n.others = theirs
  BY <1>1, <1>3, OthersAdded
<1>6. ImportOK(n)
  BY <1>2, <1>5 DEF ImportOK
<1>7. n.at = "rows" \/ n.added > 0 => more <= n.products + n.added + n.others
  <2>1. m.at = "rows" \/ m.added > 0 => total <= m.products + m.added + m.others
    BY DEF Settled
  <2>2. total <= m.products + m.added + m.others => more <= m.products + m.added + m.others + k
    BY <1>1
  <2> QED
    BY <1>4, <1>5, <2>1, <2>2
<1> QED
  BY <1>5, <1>6, <1>7 DEF Settled, Homes, Spared

(* An import that has not begun counts nothing.                            *)
LEMMA NoneNoted ==
  ASSUME NEW m, ImportOK(m), m.at = "none", NEW F, IsFiniteSet(F), NEW total, NEW more,
         Settled(m, F, total)
  PROVE  Settled(m, F, more)
<1>1. m.next = 1 /\ m.added \in Nat /\ m.errors \in Nat /\ m.flushed \in Nat
  BY DEF ImportOK, Early
<1>2. m.added + m.errors = m.flushed /\ m.flushed = m.next - 1
  BY DEF Settled
<1>3. m.added = 0
  BY <1>1, <1>2
<1> QED
  BY <1>3 DEF Settled

(* What NotedBy makes of the imports.                                      *)
LEMMA NotedEach ==
  ASSUME NEW who, NEW k, NEW imports, NEW next, next = NotedBy(who, k, imports)
  PROVE  /\ next = [q \in Imports |-> next[q]]
         /\ \A q \in Imports :
              next[q] = IF q = who \/ imports[q].at = "none" THEN imports[q]
                        ELSE WithOthers(imports[q], imports[q].others + k)
BY DEF NotedBy, WithOthers

(* A chunk is committed.                                                   *)
LEMMA CommitKeeps ==
  ASSUME IInv, others' \in Nat, licensed' \in BOOLEAN, NEW i \in Imports, Commit(i)
  PROVE  IInv'
<1> DEFINE m == import[i]
           m0 == tx[1].import
           k == m.added - m0.added
           at == IF m.next > Len(m.file) THEN "done" ELSE "rows"
           b == Flush(m, at, m.next - 1)
           imports == [import EXCEPT ![i] = b]
           P0 == tx[1].product
<1>1. /\ m.at = "chunk" /\ tx[1].rows = {} /\ tx' = <<>>
      /\ UNCHANGED <<supplier, product, nextSupplier>>
  BY DEF Commit
<1>2. import' = NotedBy(i, k, imports)
  BY DEF Commit, Flush
<1>3. imports[i] = b /\ \A q \in Imports \ {i} : imports[q] = import[q]
  BY DEF IInv
<1> HIDE DEF imports
<1>4. /\ import' = [q \in Imports |-> import'[q]] /\ import'[i] = b
      /\ \A q \in Imports \ {i} :
           import'[q] = IF import[q].at = "none" THEN import[q]
                        ELSE WithOthers(import[q], import[q].others + k)
  <2> HIDE DEF k, b
  <2> QED
    BY <1>2, <1>3, NotedEach
<1>5. /\ OpenOK(tx[1], m, product) /\ ImportOK(m) /\ tx[1].by = i
      /\ \A q \in Imports \ {i} :
           /\ import[q].at # "chunk"
           /\ Settled(import[q], Of(product, q), Cardinality(P0))
  BY <1>1, InTx
<1>6. /\ Halfway(m0, m, Of(product, i), {}) /\ ImportOK(m0) /\ m0.at = "rows"
      /\ Settled(m0, Of(P0, i), Cardinality(P0)) /\ TablesOK(tx[1].supplier, P0, tx[1].next)
      /\ Cardinality(product) = Cardinality(P0) + m.added - m0.added
  BY <1>1, <1>5 DEF OpenOK
<1>7. IsFiniteSet(product) /\ Cardinality(product) \in Nat /\ Cardinality(P0) \in Nat
  BY <1>6, FS_CardinalityType DEF IInv, TablesOK
<1> HIDE DEF m, m0, P0
<1>8. /\ m.added \in Nat /\ m0.added \in Nat /\ m.added >= m0.added /\ m.errors \in Nat
      /\ m.next \in Nat \ {0} /\ Len(m.file) \in Nat /\ m.next <= Len(m.file) + 1
      /\ m.others \in Nat /\ m.products \in Nat /\ Shape(m)
  <2>1. m.next \in Nat \ {0} /\ Len(m.file) \in Nat /\ m.next <= Len(m.file) + 1
    BY <1>5, FileType
  <2> QED
    BY <1>5, <1>6, <2>1 DEF ImportOK, Halfway
<1>9. k \in Nat /\ Cardinality(product) = Cardinality(P0) + k
  BY <1>6, <1>7, <1>8
<1>10. /\ at \in {"rows", "done"} /\ (at = "done" => m.next - 1 = Len(m.file)) /\ m.next - 1 \in Nat
  BY <1>8
<1> HIDE DEF k, at
<1>11. /\ Shape(b) /\ b.at = at /\ b.file = m.file /\ b.licensed = m.licensed
       /\ b.map = m.map /\ b.products = m.products /\ b.next = m.next /\ b.added = m.added
       /\ b.errors = m.errors /\ b.flushed = m.next - 1 /\ b.gone = m.gone
       /\ b.others = m.others
  BY <1>8, Flushed
<1> HIDE DEF b
<1>12. ImportOK(b) /\ b.at # "chunk"
  BY <1>5, <1>10, <1>11 DEF ImportOK, Stages, Early
<1>13. Settled(b, Of(product, i), Cardinality(product))
  <2>1. /\ Cardinality(Of(product, i)) + m.gone = m.added
        /\ m.added + m.errors + Cardinality({}) = m.next - 1
        /\ \A p \in Of(product, i) : p.row \in (1..(m.next - 1)) \ {}
        /\ Homes(m, Of(product, i)) /\ Spared(m)
        /\ m.products = m0.products /\ m.others = m0.others
    BY <1>6 DEF Halfway
  <2>2. m.added + m.errors = m.next - 1
    <3>1. Cardinality({}) = 0
      BY FS_EmptySet
    <3> QED
      BY <1>8, <2>1, <3>1
  <2>3. Cardinality(product) <= m.products + m.added + m.others
    <3>1. Cardinality(P0) <= m0.products + m0.added + m0.others
      BY <1>6 DEF Settled
    <3>2. m0.products = m.products /\ m0.others = m.others
      BY <2>1
    <3> QED
      BY <1>6, <1>7, <1>8, <3>1, <3>2
  <2>4. Homes(b, Of(product, i)) /\ Spared(b)
    BY <1>11, <2>1 DEF Homes, Spared
  <2>5. \A p \in Of(product, i) : p.row \in 1..(m.next - 1)
    BY <2>1
  <2> QED
    BY <1>10, <1>11, <2>1, <2>2, <2>3, <2>4, <2>5 DEF Settled
<1>14. ASSUME NEW q \in Imports
       PROVE  /\ ImportOK(import'[q]) /\ import'[q].at # "chunk"
              /\ Settled(import'[q], Of(product, q), Cardinality(product))
  <2>1. CASE q = i
    BY <1>4, <1>12, <1>13, <2>1
  <2>2. CASE q # i
    <3> DEFINE o == import[q]
               n == import'[q]
    <3>1. /\ ImportOK(o) /\ o.at # "chunk" /\ Settled(o, Of(product, q), Cardinality(P0))
          /\ n = IF o.at = "none" THEN o ELSE WithOthers(o, o.others + k)
      BY <1>4, <1>5, <2>2 DEF IInv
    <3>2. IsFiniteSet(Of(product, q))
      BY <1>7, Part DEF Of
    <3> HIDE DEF o, n
    <3>3. CASE o.at = "none"
      BY <3>1, <3>2, <3>3, NoneNoted DEF n
    <3>4. CASE o.at # "none"
      <4>1. n = WithOthers(o, o.others + k)
        BY <3>1, <3>4
      <4>2. Cardinality(product) <= Cardinality(P0) + k
        BY <1>7, <1>9
      <4>3. ImportOK(n) /\ n.at = o.at /\ Settled(n, Of(product, q), Cardinality(product))
        BY <1>7, <1>9, <3>1, <4>1, <4>2, OthersNoted
      <4> QED
        BY <3>1, <4>3 DEF n
    <3> QED
      BY <3>3, <3>4
  <2> QED
    BY <2>1, <2>2
<1>15. TablesOK(supplier', product', nextSupplier')
  BY <1>1 DEF IInv
<1>16. \A q \in Imports : /\ ImportOK(import'[q]) /\ import'[q].at # "chunk"
                          /\ Settled(import'[q], Of(product', q), Cardinality(product'))
  BY <1>1, <1>14
<1> QED
  BY <1>1, <1>4, <1>15, <1>16, OpenKeeps

(* The rows read end a chunk, or they are the last.                        *)
LEMMA ReadToEnds ==
  ASSUME NEW m, ImportOK(m)
  PROVE  /\ ReadTo(m) \in Nat /\ m.next <= ReadTo(m) + 1 /\ ReadTo(m) <= Len(m.file)
         /\ \/ ReadTo(m) = Len(m.file)
            \/ \E k \in m.next..ReadTo(m) : Valid(m.file[k])
<1> DEFINE full == {j \in m.next..Len(m.file) :
                      Cardinality({k \in m.next..j : Valid(m.file[k])}) = CHUNK}
<1>1. Len(m.file) \in Nat /\ m.next \in Nat \ {0} /\ m.next <= Len(m.file) + 1
  BY FileType
<1>2. ReadTo(m) = IF full = {} THEN Len(m.file) ELSE Min(full)
  BY DEF ReadTo
<1>3. CASE full = {}
  BY <1>1, <1>2, <1>3
<1>4. CASE full # {}
  <2>1. full \in SUBSET Nat
    BY <1>1
  <2>2. Min(full) \in full
    <3> HIDE DEF full
    <3> QED
      BY <1>4, <2>1, Least
  <2>3. ReadTo(m) \in full
    BY <1>2, <1>4, <2>2
  <2>4. /\ ReadTo(m) \in m.next..Len(m.file)
        /\ Cardinality({k \in m.next..ReadTo(m) : Valid(m.file[k])}) = CHUNK
    BY <2>3
  <2>5. {k \in m.next..ReadTo(m) : Valid(m.file[k])} # {}
    <3>1. Cardinality({}) = 0 /\ CHUNK # 0
      BY FS_EmptySet, ImportAssumption
    <3> QED
      BY <2>4, <3>1
  <2>6. \E k \in m.next..ReadTo(m) : Valid(m.file[k])
    BY <2>5
  <2>7. ReadTo(m) \in Nat /\ m.next <= ReadTo(m) + 1 /\ ReadTo(m) <= Len(m.file)
    BY <1>1, <2>4
  <2> QED
    BY <2>6, <2>7
<1> QED
  BY <1>3, <1>4

(* An import reads on: all of it was bad rows, or a transaction opens.     *)
LEMMA BeginKeeps ==
  ASSUME IInv, others' \in Nat, licensed' \in BOOLEAN, NEW i \in Imports, Begin(i)
  PROVE  IInv'
<1> DEFINE m == import[i]
           last == ReadTo(m)
           bad == {j \in m.next..last : ~Valid(m.file[j])}
           good == (m.next..last) \ bad
           read == ReadOn(m, last + 1, m.errors + Cardinality(bad))
           F == Of(product, i)
           t == [by |-> i, rows |-> good, supplier |-> supplier, product |-> product,
                 next |-> nextSupplier, import |-> m]
<1>1. /\ m.at = "rows" /\ Unlocked /\ UNCHANGED <<supplier, product, nextSupplier>>
      /\ \/ good = {} /\ tx' = tx /\ import' = [import EXCEPT ![i] = Flush(read, "done", last)]
         \/ good # {} /\ tx' = <<t>> /\ import' = [import EXCEPT ![i] = [read EXCEPT !.at = "chunk"]]
  BY DEF Begin, ReadOn, Flush
<1>2. ImportOK(m) /\ Settled(m, F, Cardinality(product))
  BY <1>1, AllSettled
<1>3. \A k \in Imports : /\ ImportOK(import[k]) /\ import[k].at # "chunk"
                         /\ Settled(import[k], Of(product, k), Cardinality(product))
  BY <1>1, AllSettled
<1>4. TablesOK(supplier, product, nextSupplier) /\ import = [k \in Imports |-> import[k]]
  BY DEF IInv
<1>5. t = [by |-> t.by, rows |-> t.rows, supplier |-> t.supplier, product |-> t.product,
           next |-> t.next, import |-> t.import]
      /\ t.by = i /\ t.rows = good /\ t.supplier = supplier /\ t.product = product
      /\ t.next = nextSupplier /\ t.import = m
  OBVIOUS
<1> HIDE DEF m, F, t
<1>6. /\ last \in Nat /\ m.next \in Nat \ {0} /\ m.next <= last + 1 /\ last <= Len(m.file)
      /\ Len(m.file) \in Nat
      /\ (last = Len(m.file) \/ \E k \in m.next..last : Valid(m.file[k]))
  BY <1>2, ReadToEnds, FileType
<1> HIDE DEF last
<1>7. /\ Cardinality(bad) \in Nat /\ Cardinality(good) \in Nat
      /\ Cardinality(bad) + Cardinality(good) = last - m.next + 1
  <2>1. bad \in SUBSET (m.next..last) /\ m.next \in Nat
    BY <1>6
  <2> HIDE DEF bad
  <2> QED
    BY <1>6, <2>1, Split
<1>8. \A j \in good : Valid(m.file[j]) /\ j \in m.next..last
  OBVIOUS
<1>9. good = {} => last = Len(m.file)
  BY <1>6
<1>10. Shape(m) /\ m.errors \in Nat /\ m.added \in Nat
  BY <1>2 DEF ImportOK
<1> DEFINE errors == m.errors + Cardinality(bad)
<1>11. errors \in Nat /\ errors = m.errors + Cardinality(bad)
  BY <1>7, <1>10
<1>12. read = ReadOn(m, last + 1, errors)
  OBVIOUS
<1> HIDE DEF bad, good, read, errors
<1>13. /\ Shape(read) /\ read.at = m.at /\ read.file = m.file /\ read.licensed = m.licensed
       /\ read.map = m.map /\ read.products = m.products /\ read.next = last + 1
       /\ read.added = m.added /\ read.errors = errors /\ read.flushed = m.flushed
       /\ read.gone = m.gone /\ read.others = m.others
  BY <1>10, <1>12, RowsRead
<1>14. ImportOK(read)
  <2>1. last + 1 \in 1..(Len(m.file) + 1)
    BY <1>6
  <2> QED
    BY <1>1, <1>2, <1>11, <1>13, <2>1 DEF ImportOK, Stages, Early
<1>15. /\ Cardinality(F) + m.gone = m.added
       /\ m.added + errors + Cardinality(good) = last
       /\ \A p \in F : p.row \in 1..(m.next - 1)
       /\ Homes(m, F) /\ Spared(m)
       /\ Cardinality(product) <= m.products + m.added + m.others
  <2>1. /\ Cardinality(F) + m.gone = m.added
        /\ m.added + m.errors = m.next - 1
        /\ \A p \in F : p.row \in 1..(m.next - 1)
        /\ Homes(m, F) /\ Spared(m)
        /\ Cardinality(product) <= m.products + m.added + m.others
    BY <1>1, <1>2 DEF Settled
  <2>2. m.added + errors + Cardinality(good) = last
    <3>1. m.added + m.errors = m.next - 1 /\ m.next \in Nat
      BY <1>6, <2>1
    <3>2. errors = m.errors + Cardinality(bad) /\ Cardinality(bad) \in Nat
          /\ Cardinality(good) \in Nat /\ Cardinality(bad) + Cardinality(good) = last - m.next + 1
      BY <1>7, <1>11
    <3>3. last \in Nat /\ m.added \in Nat /\ m.errors \in Nat
      BY <1>6, <1>10
    <3> QED
      BY <3>1, <3>2, <3>3
  <2> QED
    BY <2>1, <2>2
<1>16. CASE good = {}
  <2> DEFINE n == Flush(read, "done", last)
  <2>1. import' = [import EXCEPT ![i] = n] /\ tx' = tx
    BY <1>1, <1>16
  <2> HIDE DEF n
  <2>2. /\ Shape(n) /\ n.at = "done" /\ n.file = read.file /\ n.licensed = read.licensed
        /\ n.map = read.map /\ n.products = read.products /\ n.next = read.next
        /\ n.added = read.added /\ n.errors = read.errors /\ n.flushed = last
        /\ n.gone = read.gone /\ n.others = read.others
    BY <1>13, Flushed DEF n
  <2>3. ImportOK(n)
    BY <1>6, <1>14, <2>2 DEF ImportOK, Stages, Early
  <2>4. m.added + errors = last
    <3>1. Cardinality(good) = 0
      BY <1>16, FS_EmptySet
    <3> QED
      BY <1>10, <1>11, <1>15, <3>1
  <2>5. last = (last + 1) - 1
    BY <1>6
  <2>6. \A p \in F : p.row \in 1..last
    BY <1>6, <1>15
  <2>7. Homes(n, F) /\ Spared(n)
    BY <1>13, <1>15, <2>2 DEF Homes, Spared
  <2>8. Settled(n, F, Cardinality(product))
    BY <1>9, <1>13, <1>15, <1>16, <2>2, <2>4, <2>5, <2>6, <2>7 DEF Settled
  <2>9. Committed = product
    BY <1>1 DEF Committed
  <2> QED
    BY <1>1, <1>3, <2>1, <2>2, <2>3, <2>8, <2>9, MoveKeeps DEF F
<1>17. CASE good # {}
  <2> DEFINE n == [read EXCEPT !.at = "chunk"]
  <2>1. import' = [import EXCEPT ![i] = n] /\ tx' = <<t>>
    BY <1>1, <1>17
  <2>2. "chunk" \in Stages /\ ~("chunk" \in Early)
    BY DEF Stages, Early
  <2>3. /\ ImportOK(n) /\ n.at = "chunk" /\ n.file = read.file /\ n.licensed = read.licensed
        /\ n.map = read.map /\ n.products = read.products /\ n.next = read.next
        /\ n.added = read.added /\ n.errors = read.errors /\ n.flushed = read.flushed
        /\ n.gone = read.gone /\ n.others = read.others
    BY <1>14, <2>2, AtMoves
  <2> HIDE DEF n
  <2>4. n.next - 1 = last
    BY <1>6, <1>13, <2>3
  <2>5. /\ good \subseteq 1..(n.next - 1) /\ \A j \in good : Valid(n.file[j])
        /\ n.added + n.errors + Cardinality(good) = n.next - 1 /\ n.added >= m.added
        /\ \A p \in F : p.row \in (1..(n.next - 1)) \ good
    <3>1. good \subseteq 1..last
      BY <1>6, <1>8
    <3>2. \A p \in F : p.row \in (1..last) \ good
      BY <1>6, <1>8, <1>15
    <3> QED
      BY <1>8, <1>10, <1>13, <1>15, <2>3, <2>4, <3>1, <3>2
  <2>6. Homes(n, F) /\ Spared(n)
    BY <1>13, <1>15, <2>3 DEF Homes, Spared
  <2>7. Halfway(m, n, F, good)
    BY <1>13, <1>15, <2>3, <2>5, <2>6 DEF Halfway
  <2>8. import'[i] = n /\ \A k \in Imports \ {i} : import'[k] = import[k]
    BY <1>4, <2>1
  <2>9. /\ import' = [k \in Imports |-> import'[k]] /\ \A k \in Imports : ImportOK(import'[k])
    BY <1>3, <1>4, <2>1, <2>3, <2>8
  <2>10. ~Unlocked' /\ tx' = <<tx'[1]>> /\ tx'[1] = t /\ Committed' = product
    BY <1>5, <2>1 DEF Unlocked, Committed
  <2>11. Cardinality(product) = Cardinality(product) + n.added - m.added
    <3>1. Cardinality(product) \in Nat
      BY <1>4, FS_CardinalityType DEF TablesOK
    <3> QED
      BY <1>10, <1>13, <2>3, <3>1
  <2>12. OpenOK(t, n, product)
    BY <1>1, <1>2, <1>4, <1>5, <2>7, <2>11 DEF OpenOK, F
  <2>13. ASSUME NEW k \in Imports
         PROVE  IF import'[k].at = "chunk" THEN ~Unlocked' /\ tx'[1].by = k
                ELSE Settled(import'[k], Of(product', k), Cardinality(Committed'))
    <3>1. CASE k = i
      BY <1>5, <2>3, <2>8, <2>10, <3>1
    <3>2. CASE k # i
      BY <1>1, <1>3, <2>8, <2>10, <3>2
    <3> QED
      BY <3>1, <3>2
  <2>14. OpenOK(tx'[1], import'[tx'[1].by], product')
    BY <1>1, <1>5, <2>8, <2>10, <2>12
  <2>15. TablesOK(supplier', product', nextSupplier') /\ tx'[1].by \in Imports
    BY <1>1, <1>4, <1>5, <2>10
  <2> QED
    BY <2>9, <2>10, <2>13, <2>14, <2>15 DEF IInv
<1> QED
  BY <1>16, <1>17

----------------------------------------------------------------------------
(* Other requests                                                          *)

(* Another request inserts a supplier.                                     *)
LEMMA AddSupplierKeeps ==
  ASSUME IInv, NEW name \in Names, AddSupplier(name)
  PROVE  IInv'
<1>1. /\ Unlocked /\ others > 0 /\ others' = others - 1 /\ others \in Nat
      /\ supplier' = Put(supplier, nextSupplier, name) /\ nextSupplier' = nextSupplier + 1
      /\ UNCHANGED <<product, licensed, import, tx>>
  BY DEF AddSupplier, Another, IInv
<1>2. name \notin {supplier[id] : id \in DOMAIN supplier}
  BY DEF AddSupplier
<1>3. TablesOK(supplier', product, nextSupplier + 1)
  <2>1. TablesOK(supplier, product, nextSupplier)
    BY DEF IInv
  <2>2. supplier' = Put(supplier, nextSupplier, name)
    BY <1>1
  <2> QED
    BY <1>2, <2>1, <2>2, SupplierGrows
<1>4. TablesOK(supplier', product', nextSupplier')
  BY <1>1, <1>3
<1>5. \A k \in Imports : /\ ImportOK(import'[k]) /\ import'[k].at # "chunk"
                         /\ Settled(import'[k], Of(product', k), Cardinality(product'))
  BY <1>1, AllSettled
<1>6. others' \in Nat /\ licensed' \in BOOLEAN /\ tx' = <<>>
      /\ import' = [k \in Imports |-> import'[k]]
  BY <1>1 DEF IInv, Unlocked
<1> QED
  BY <1>4, <1>5, <1>6, OpenKeeps

(* Products of an import are deleted by another request.                   *)
LEMMA GoneSettled ==
  ASSUME NEW m, ImportOK(m), NEW F, IsFiniteSet(F), NEW D \in SUBSET F,
         NEW total \in Nat, NEW less \in Nat, less <= total, Settled(m, F, total),
         NEW n, n = WithGone(m, m.gone + Cardinality(D))
  PROVE  ImportOK(n) /\ n.at = m.at /\ Settled(n, F \ D, less)
<1>1. /\ Shape(m) /\ m.gone \in Nat /\ m.products \in Nat /\ m.added \in Nat /\ m.others \in Nat
  BY DEF ImportOK
<1>2. /\ Cardinality(F) \in Nat /\ Cardinality(D) \in Nat /\ Cardinality(F \ D) \in Nat
      /\ Cardinality(F \ D) = Cardinality(F) - Cardinality(D)
  <2>1. IsFiniteSet(F \ D) /\ Cardinality(F \ D) = Cardinality(F) - Cardinality(F \cap D)
    BY FS_Difference
  <2>2. F \cap D = D
    OBVIOUS
  <2>3. IsFiniteSet(D)
    BY FS_Subset
  <2> QED
    BY <2>1, <2>2, <2>3, FS_CardinalityType
<1> DEFINE gone == m.gone + Cardinality(D)
<1>3. gone \in Nat /\ gone = m.gone + Cardinality(D) /\ n = WithGone(m, gone)
  BY <1>1, <1>2
<1> HIDE DEF gone
<1>4. /\ Shape(n) /\ n.at = m.at /\ n.file = m.file /\ n.licensed = m.licensed
      /\ n.map = m.map /\ n.products = m.products /\ n.next = m.next /\ n.added = m.added
      /\ n.errors = m.errors /\ n.flushed = m.flushed /\ n.gone = gone
      /\ n.others = m.others
  BY <1>1, <1>3, ProductsGone
<1>5. ImportOK(n)
  BY <1>3, <1>4 DEF ImportOK
<1>6. Cardinality(F \ D) + n.gone = n.added
  <2>1. Cardinality(F) + m.gone = m.added
    BY DEF Settled
  <2> QED
    BY <1>1, <1>2, <1>3, <1>4, <2>1
<1>7. Homes(n, F \ D) /\ Spared(n)
  BY <1>4 DEF Settled, Homes, Spared
<1>8. n.at = "rows" \/ n.added > 0 => less <= n.products + n.added + n.others
  <2>1. m.at = "rows" \/ m.added > 0 => total <= m.products + m.added + m.others
    BY DEF Settled
  <2>2. total <= m.products + m.added + m.others => less <= m.products + m.added + m.others
    BY <1>1
  <2> QED
    BY <1>4, <2>1, <2>2
<1> QED
  BY <1>4, <1>5, <1>6, <1>7, <1>8 DEF Settled

(* Another request deletes a supplier, and the products go with it.        *)
LEMMA DeleteSupplierKeeps ==
  ASSUME IInv, NEW id \in DOMAIN supplier, DeleteSupplier(id)
  PROVE  IInv'
<1> DEFINE gone(k) == {p \in From(k) : p.supplier = id}
<1>1. /\ Unlocked /\ others > 0 /\ others' = others - 1 /\ others \in Nat
      /\ supplier' = [k \in DOMAIN supplier \ {id} |-> supplier[k]]
      /\ product' = {p \in product : p.supplier # id}
      /\ UNCHANGED <<nextSupplier, licensed, tx>>
  BY DEF DeleteSupplier, Another, IInv
<1>2. /\ import' = [k \in Imports |-> import'[k]]
      /\ \A k \in Imports : import'[k] = WithGone(import[k], import[k].gone + Cardinality(gone(k)))
  BY DEF DeleteSupplier, WithGone
<1>3. TablesOK(supplier, product, nextSupplier)
  BY DEF IInv
<1>4. IsFiniteSet(product') /\ Cardinality(product') \in Nat /\ Cardinality(product) \in Nat
      /\ Cardinality(product') <= Cardinality(product)
  <2>1. product' \in SUBSET product
    BY <1>1
  <2> QED
    BY <1>3, <2>1, Part DEF TablesOK
<1>5. TablesOK(supplier', product', nextSupplier')
  <2>1. DOMAIN supplier' = DOMAIN supplier \ {id}
        /\ \A k \in DOMAIN supplier' : supplier'[k] = supplier[k]
    BY <1>1
  <2> QED
    BY <1>1, <1>3, <1>4, <2>1 DEF TablesOK, Keyed
<1>6. ASSUME NEW k \in Imports
      PROVE  /\ ImportOK(import'[k]) /\ import'[k].at # "chunk"
             /\ Settled(import'[k], Of(product', k), Cardinality(product'))
  <2> DEFINE m == import[k]
             n == import'[k]
             F == Of(product, k)
             D == gone(k)
  <2>1. /\ ImportOK(m) /\ m.at # "chunk" /\ Settled(m, F, Cardinality(product))
    BY <1>1, AllSettled
  <2>2. IsFiniteSet(F)
    BY <1>3, Part DEF TablesOK, Of
  <2>3. D \in SUBSET F /\ Of(product', k) = F \ D
    BY <1>1 DEF From, Of
  <2>4. n = WithGone(m, m.gone + Cardinality(D))
    BY <1>2
  <2> HIDE DEF m, n, F, D
  <2>5. ImportOK(n) /\ n.at = m.at /\ Settled(n, F \ D, Cardinality(product'))
    BY <1>4, <2>1, <2>2, <2>3, <2>4, GoneSettled
  <2> QED
    BY <2>1, <2>3, <2>5 DEF n
<1>7. others' \in Nat /\ licensed' \in BOOLEAN /\ tx' = <<>>
  BY <1>1 DEF IInv, Unlocked
<1> QED
  BY <1>2, <1>5, <1>6, <1>7, OpenKeeps

(* Another request inserts a product, or moves one in.                     *)
LEMMA ProductComesKeeps ==
  ASSUME IInv, NEW id \in DOMAIN supplier, Another, ProductComes(id)
  PROVE  IInv'
<1> DEFINE r == [from |-> Stranger, row |-> others, supplier |-> id, moved |-> FALSE]
<1>1. /\ Unlocked /\ others > 0 /\ others' = others - 1 /\ others \in Nat
      /\ product' = product \cup {r}
      /\ UNCHANGED <<supplier, nextSupplier, licensed, tx>>
  BY DEF ProductComes, Another, IInv
<1>2. r.from = Stranger /\ r.supplier = id
  OBVIOUS
<1> HIDE DEF r
<1>3. import' = NotedBy(Stranger, 1, import)
  BY DEF ProductComes
<1>4. /\ import' = [k \in Imports |-> import'[k]]
      /\ \A k \in Imports :
           import'[k] = IF import[k].at = "none" THEN import[k]
                        ELSE WithOthers(import[k], import[k].others + 1)
  <2>1. \A k \in Imports : k # Stranger
    BY ImportAssumption
  <2> QED
    BY <1>3, <2>1, NotedEach
<1>5. TablesOK(supplier, product, nextSupplier)
  BY DEF IInv
<1>6. TablesOK(supplier', product', nextSupplier')
  <2>1. TablesOK(supplier, product \cup {r}, nextSupplier)
    <3>1. Stranger \notin Imports
      BY ImportAssumption
    <3> QED
      BY <1>2, <1>5, <3>1, ProductGrows
  <2> QED
    BY <1>1, <2>1
<1>7. IsFiniteSet(product) /\ Cardinality(product) \in Nat /\ Cardinality(product') \in Nat
      /\ Cardinality(product') <= Cardinality(product) + 1
  <2>1. IsFiniteSet(product) /\ Cardinality(product) \in Nat
    BY <1>5, FS_CardinalityType DEF TablesOK
  <2>2. CASE r \in product
    <3>1. product' = product
      BY <1>1, <2>2
    <3> QED
      BY <2>1, <3>1
  <2>3. CASE r \notin product
    <3>1. Cardinality(product') = Cardinality(product) + 1
      BY <1>1, <2>1, <2>3, OneMore
    <3> QED
      BY <2>1, <3>1
  <2> QED
    BY <2>2, <2>3
<1>8. ASSUME NEW k \in Imports
      PROVE  /\ ImportOK(import'[k]) /\ import'[k].at # "chunk"
             /\ Settled(import'[k], Of(product', k), Cardinality(product'))
  <2> DEFINE m == import[k]
             n == import'[k]
             F == Of(product, k)
  <2>1. /\ ImportOK(m) /\ m.at # "chunk" /\ Settled(m, F, Cardinality(product))
    BY <1>1, AllSettled
  <2>2. IsFiniteSet(F)
    BY <1>7, Part DEF Of
  <2>3. Of(product', k) = F
    <3>1. k # Stranger
      BY ImportAssumption
    <3> QED
      BY <1>1, <1>2, <3>1 DEF Of
  <2>4. n = IF m.at = "none" THEN m ELSE WithOthers(m, m.others + 1)
    BY <1>4
  <2> HIDE DEF m, n, F
  <2>5. CASE m.at = "none"
    BY <2>1, <2>2, <2>3, <2>4, <2>5, NoneNoted DEF n
  <2>6. CASE m.at # "none"
    <3>1. n = WithOthers(m, m.others + 1)
      BY <2>4, <2>6
    <3>2. ImportOK(n) /\ n.at = m.at /\ Settled(n, F, Cardinality(product'))
      BY <1>7, <2>1, <3>1, OthersNoted
    <3> QED
      BY <2>1, <2>3, <3>2 DEF n
  <2> QED
    BY <2>5, <2>6
<1>9. others' \in Nat /\ licensed' \in BOOLEAN /\ tx' = <<>>
  BY <1>1 DEF IInv, Unlocked
<1> QED
  BY <1>4, <1>6, <1>8, <1>9, OpenKeeps

(* Another request renames a supplier.                                     *)
LEMMA RenameSupplierKeeps ==
  ASSUME IInv, NEW id \in DOMAIN supplier, NEW name \in Names, RenameSupplier(id, name)
  PROVE  IInv'
<1>1. /\ Unlocked /\ others > 0 /\ others' = others - 1 /\ others \in Nat
      /\ supplier' = [supplier EXCEPT ![id] = name]
      /\ name \notin {supplier[k] : k \in DOMAIN supplier \ {id}}
      /\ UNCHANGED <<product, nextSupplier, licensed, import, tx>>
  BY DEF RenameSupplier, Another, IInv
<1>2. TablesOK(supplier, product, nextSupplier)
  BY DEF IInv
<1>3. /\ DOMAIN supplier' = DOMAIN supplier /\ supplier'[id] = name
      /\ \A k \in DOMAIN supplier \ {id} : supplier'[k] = supplier[k]
  BY <1>1
<1>4. TablesOK(supplier', product', nextSupplier')
  <2>1. \A k \in DOMAIN supplier' : k \in Nat /\ k < nextSupplier /\ supplier'[k] \in Names
    BY <1>2, <1>3 DEF TablesOK
  <2>2. \A a, b \in DOMAIN supplier' : supplier'[a] = supplier'[b] => a = b
    BY <1>1, <1>2, <1>3 DEF TablesOK
  <2> QED
    BY <1>1, <1>2, <1>3, <2>1, <2>2 DEF TablesOK
<1>5. \A k \in Imports : /\ ImportOK(import'[k]) /\ import'[k].at # "chunk"
                         /\ Settled(import'[k], Of(product', k), Cardinality(product'))
  BY <1>1, AllSettled
<1>6. others' \in Nat /\ licensed' \in BOOLEAN /\ tx' = <<>>
      /\ import' = [k \in Imports |-> import'[k]]
  BY <1>1 DEF IInv, Unlocked
<1> QED
  BY <1>4, <1>5, <1>6, OpenKeeps

(* A product that a form has moved.                                        *)
MovedTo(p, id) == [from |-> p.from, row |-> p.row, supplier |-> id, moved |-> TRUE]

(* What moving a product of F does to an import's products.                *)
LEMMA MovedSettled ==
  ASSUME NEW m, ImportOK(m), NEW F, IsFiniteSet(F), NEW p \in F, NEW id, MovedTo(p, id) \notin F,
         NEW total \in Nat, NEW less \in Nat, less <= total, Settled(m, F, total)
  PROVE  Settled(m, (F \ {p}) \cup {MovedTo(p, id)}, less)
<1> DEFINE r == MovedTo(p, id)
           G == (F \ {p}) \cup {r}
<1>1. r.from = p.from /\ r.row = p.row /\ r.moved = TRUE
  BY DEF MovedTo
<1>2. r \notin F
  OBVIOUS
<1> HIDE DEF r
<1>3. Cardinality(G) = Cardinality(F)
  <2>1. IsFiniteSet(F \ {p}) /\ Cardinality(F \ {p}) = Cardinality(F) - 1
        /\ Cardinality(F) \in Nat
    BY OneLess
  <2>2. r \notin F \ {p}
    BY <1>2
  <2>3. Cardinality((F \ {p}) \cup {r}) = Cardinality(F \ {p}) + 1
    BY <2>1, <2>2, OneMore
  <2> QED
    BY <2>1, <2>3
<1>4. m.products \in Nat /\ m.added \in Nat /\ m.others \in Nat
  BY DEF ImportOK
<1>5. \A q \in G : q.row \in 1..m.flushed
  BY <1>1 DEF Settled
<1>6. Homes(m, G)
  BY <1>1 DEF Settled, Homes
<1>7. m.at = "rows" \/ m.added > 0 => less <= m.products + m.added + m.others
  <2>1. m.at = "rows" \/ m.added > 0 => total <= m.products + m.added + m.others
    BY DEF Settled
  <2> QED
    BY <1>4, <2>1
<1>8. Cardinality(G) + m.gone = m.added
  BY <1>3 DEF Settled
<1> HIDE DEF G
<1>9. Settled(m, G, less)
  BY <1>5, <1>6, <1>7, <1>8 DEF Settled
<1> QED
  BY <1>9 DEF G, r

(* An import that inserted nothing of what changed stays settled when      *)
(* there are no more products than before.                                 *)
LEMMA FewerSettled ==
  ASSUME NEW m, ImportOK(m), NEW F, NEW total \in Nat, NEW less \in Nat, less <= total,
         Settled(m, F, total)
  PROVE  Settled(m, F, less)
<1>1. m.products \in Nat /\ m.added \in Nat /\ m.others \in Nat
  BY DEF ImportOK
<1>2. m.at = "rows" \/ m.added > 0 => less <= m.products + m.added + m.others
  <2>1. m.at = "rows" \/ m.added > 0 => total <= m.products + m.added + m.others
    BY DEF Settled
  <2> QED
    BY <1>1, <2>1
<1> QED
  BY <1>2 DEF Settled

(* Another request moves a product to another supplier of the user.        *)
LEMMA MoveProductKeeps ==
  ASSUME IInv, NEW p \in product, NEW id \in DOMAIN supplier, MoveProduct(p, id)
  PROVE  IInv'
<1> DEFINE r == MovedTo(p, id)
<1>1. /\ Unlocked /\ others > 0 /\ others' = others - 1 /\ others \in Nat
      /\ p.supplier # id /\ product' = (product \ {p}) \cup {r}
      /\ UNCHANGED <<supplier, nextSupplier, licensed, import, tx>>
  BY DEF MoveProduct, Another, IInv, MovedTo
<1>2. r.from = p.from /\ r.row = p.row /\ r.supplier = id /\ r = MovedTo(p, id)
  BY DEF MovedTo
<1> HIDE DEF r
<1>3. TablesOK(supplier, product, nextSupplier) /\ Keyed(product) /\ IsFiniteSet(product)
  BY DEF IInv, TablesOK
<1>4. r # p
  BY <1>1, <1>2
<1>5. /\ IsFiniteSet(product') /\ Cardinality(product') \in Nat
      /\ Cardinality(product) \in Nat /\ Cardinality(product') <= Cardinality(product)
  <2>1. /\ IsFiniteSet(product \ {p}) /\ Cardinality(product \ {p}) = Cardinality(product) - 1
        /\ Cardinality(product) \in Nat /\ Cardinality(product \ {p}) \in Nat
    BY <1>3, OneLess
  <2>2. CASE r \in product \ {p}
    <3>1. product' = product \ {p}
      BY <1>1, <2>2
    <3> QED
      BY <2>1, <3>1
  <2>3. CASE r \notin product \ {p}
    <3>1. /\ IsFiniteSet((product \ {p}) \cup {r})
          /\ Cardinality((product \ {p}) \cup {r}) = Cardinality(product \ {p}) + 1
      BY <2>1, <2>3, OneMore
    <3> QED
      BY <1>1, <2>1, <3>1
  <2> QED
    BY <2>2, <2>3
<1>6. TablesOK(supplier', product', nextSupplier')
  <2>1. Keyed(product')
    BY <1>1, <1>2, <1>3 DEF Keyed
  <2>2. \A q \in product' : q.supplier \in DOMAIN supplier /\ q.from \in Imports \cup {Stranger}
    BY <1>1, <1>2, <1>3 DEF TablesOK
  <2> QED
    BY <1>1, <1>3, <1>5, <2>1, <2>2 DEF TablesOK
<1>7. ASSUME NEW k \in Imports
      PROVE  /\ ImportOK(import[k]) /\ import[k].at # "chunk"
             /\ Settled(import[k], Of(product', k), Cardinality(product'))
  <2> DEFINE m == import[k]
             F == Of(product, k)
  <2>1. ImportOK(m) /\ m.at # "chunk" /\ Settled(m, F, Cardinality(product))
    BY <1>1, AllSettled
  <2>2. IsFiniteSet(F)
    BY <1>3, Part DEF Of
  <2>3. CASE p.from = k
    <3>1. p \in F /\ Of(product', k) = (F \ {p}) \cup {r}
      BY <1>1, <1>2, <2>3 DEF Of
    <3>2. r \notin F
      BY <1>2, <1>3, <1>4, <2>3 DEF Of, Keyed
    <3> HIDE DEF F, m
    <3>3. Settled(m, (F \ {p}) \cup {r}, Cardinality(product'))
      BY <1>2, <1>5, <2>1, <2>2, <3>1, <3>2, MovedSettled
    <3> QED
      BY <2>1, <3>1, <3>3 DEF m
  <2>4. CASE p.from # k
    <3>1. Of(product', k) = F
      BY <1>1, <1>2, <2>4 DEF Of
    <3> HIDE DEF F, m
    <3> QED
      BY <1>5, <2>1, <3>1, FewerSettled DEF m
  <2> QED
    BY <2>3, <2>4
<1>8. others' \in Nat /\ licensed' \in BOOLEAN /\ tx' = <<>>
      /\ import' = [k \in Imports |-> import'[k]] /\ import' = import
  BY <1>1 DEF IInv, Unlocked
<1> QED
  BY <1>6, <1>7, <1>8, OpenKeeps

(* Another request deletes a product, or moves it to another owner.        *)
LEMMA DropProductKeeps ==
  ASSUME IInv, NEW p \in product, DropProduct(p)
  PROVE  IInv'
<1>1. /\ Unlocked /\ others > 0 /\ others' = others - 1 /\ others \in Nat
      /\ product' = product \ {p}
      /\ UNCHANGED <<supplier, nextSupplier, licensed, tx>>
  BY DEF DropProduct, Another, IInv
<1>2. /\ import' = [k \in Imports |-> import'[k]]
      /\ \A k \in Imports :
           import'[k] = WithGone(import[k], import[k].gone + Cardinality(From(k) \cap {p}))
  BY DEF DropProduct, WithGone
<1>3. TablesOK(supplier, product, nextSupplier) /\ IsFiniteSet(product)
  BY DEF IInv, TablesOK
<1>4. IsFiniteSet(product') /\ Cardinality(product') \in Nat /\ Cardinality(product) \in Nat
      /\ Cardinality(product') <= Cardinality(product)
  <2>1. product' \in SUBSET product
    BY <1>1
  <2> QED
    BY <1>3, <2>1, Part
<1>5. TablesOK(supplier', product', nextSupplier')
  BY <1>1, <1>3, <1>4 DEF TablesOK, Keyed
<1>6. ASSUME NEW k \in Imports
      PROVE  /\ ImportOK(import'[k]) /\ import'[k].at # "chunk"
             /\ Settled(import'[k], Of(product', k), Cardinality(product'))
  <2> DEFINE m == import[k]
             n == import'[k]
             F == Of(product, k)
             D == From(k) \cap {p}
  <2>1. /\ ImportOK(m) /\ m.at # "chunk" /\ Settled(m, F, Cardinality(product))
    BY <1>1, AllSettled
  <2>2. IsFiniteSet(F)
    BY <1>3, Part DEF Of
  <2>3. D \in SUBSET F /\ Of(product', k) = F \ D
    BY <1>1 DEF From, Of
  <2>4. n = WithGone(m, m.gone + Cardinality(D))
    BY <1>2
  <2> HIDE DEF m, n, F, D
  <2>5. ImportOK(n) /\ n.at = m.at /\ Settled(n, F \ D, Cardinality(product'))
    BY <1>4, <2>1, <2>2, <2>3, <2>4, GoneSettled
  <2> QED
    BY <2>1, <2>3, <2>5 DEF n
<1>7. others' \in Nat /\ licensed' \in BOOLEAN /\ tx' = <<>>
  BY <1>1 DEF IInv, Unlocked
<1> QED
  BY <1>2, <1>5, <1>6, <1>7, OpenKeeps

(* The licence of the user changes.                                        *)
LEMMA LicenceKeeps ==
  ASSUME IInv, LicenceChanges
  PROVE  IInv'
<1>1. /\ Unlocked /\ others > 0 /\ others' = others - 1 /\ others \in Nat
      /\ UNCHANGED <<supplier, product, nextSupplier, import, tx>>
  BY DEF LicenceChanges, Another, IInv
<1>2. licensed' \in BOOLEAN
  BY ImportAssumption DEF LicenceChanges
<1>3. TablesOK(supplier', product', nextSupplier') /\ import' = [k \in Imports |-> import'[k]]
  BY <1>1 DEF IInv
<1>4. \A k \in Imports : /\ ImportOK(import'[k]) /\ import'[k].at # "chunk"
                         /\ Settled(import'[k], Of(product', k), Cardinality(product'))
  BY <1>1, AllSettled
<1>5. others' \in Nat /\ tx' = <<>>
  BY <1>1 DEF Unlocked
<1> QED
  BY <1>2, <1>3, <1>4, <1>5, OpenKeeps

----------------------------------------------------------------------------
(* The invariant, and what follows from it                                 *)

(* No upload has come.                                                     *)
LEMMA InitKeeps ==
  ASSUME Init
  PROVE  IInv
<1>1. /\ product = {} /\ tx = <<>> /\ others = MaxOthers
      /\ import = [k \in Imports |-> NoImport]
  BY DEF Init
<1>2. licensed \in BOOLEAN /\ others \in Nat
  BY ImportAssumption DEF Init
<1>3. TablesOK(supplier, product, nextSupplier)
  <2>1. IsFiniteSet(product)
    BY <1>1, FS_EmptySet
  <2>2. CASE supplier = <<>>
    <3>1. DOMAIN supplier = {}
      BY <2>2
    <3>2. nextSupplier = 1
      BY <3>1, FS_EmptySet DEF Init
    <3> QED
      BY <1>1, <2>1, <3>1, <3>2 DEF TablesOK, Keyed
  <2>3. CASE supplier \in {[id \in {1} |-> n] : n \in AtStart}
    <3>1. PICK n \in AtStart : supplier = [id \in {1} |-> n]
      BY <2>3
    <3>2. DOMAIN supplier = {1} /\ supplier[1] = n /\ n \in Names
      BY <3>1, ImportAssumption
    <3>3. nextSupplier = 2
      <4>1. Cardinality({1}) = 1
        BY FS_Singleton
      <4> QED
        BY <3>2, <4>1 DEF Init
    <3> QED
      BY <1>1, <2>1, <3>2, <3>3 DEF TablesOK, Keyed
  <2> QED
    BY <2>2, <2>3 DEF Init
<1>4. Unlocked /\ Committed = {}
  BY <1>1 DEF Unlocked, Committed
<1>5. ASSUME NEW k \in Imports
      PROVE  /\ ImportOK(import[k]) /\ import[k].at # "chunk"
             /\ Settled(import[k], Of(product, k), Cardinality(Committed))
  <2>1. import[k] = NoImport
    BY <1>1
  <2>2. Of(product, k) = {} /\ Cardinality({}) = 0
    BY <1>1, FS_EmptySet DEF Of
  <2>3. /\ Shape(NoImport) /\ NoImport.at = "none" /\ NoImport.file = <<>>
        /\ NoImport.products = 0 /\ NoImport.next = 1 /\ NoImport.added = 0
        /\ NoImport.errors = 0 /\ NoImport.flushed = 0 /\ NoImport.gone = 0
        /\ NoImport.others = 0
    BY DEF NoImport, Shape
  <2>4. 1 \in 1..(Len(<<>>) + 1)
    OBVIOUS
  <2> HIDE DEF NoImport
  <2>5. ImportOK(NoImport)
    BY <2>3, <2>4 DEF ImportOK, Stages, Early
  <2>6. Settled(NoImport, {}, 0)
    BY <2>2, <2>3 DEF Settled, Homes, Spared
  <2> QED
    BY <1>4, <2>1, <2>2, <2>3, <2>5, <2>6
<1>6. import = [k \in Imports |-> import[k]]
  BY <1>1
<1> QED
  BY <1>2, <1>3, <1>4, <1>5, <1>6 DEF IInv

(* Every step keeps it.                                                    *)
LEMMA NextKeeps ==
  ASSUME IInv, [Next]_vars
  PROVE  IInv'
<1>1. others \in Nat /\ licensed \in BOOLEAN
  BY DEF IInv
<1>2. ASSUME NEW i \in Imports, Step(i) \/ WrongKind(i) \/ \E f \in Files : Upload(i, f),
             UNCHANGED others
      PROVE  IInv'
  <2>1. others' \in Nat
    BY <1>1, <1>2
  <2>2. licensed' \in BOOLEAN
    BY <1>1, <1>2 DEF Step, Parsed, ParseFails, ParseTimeout, ReadSuppliers, CountProducts,
                      Begin, Busy, ImportRow, Commit, Unlink, WrongKind, Upload
  <2>3. CASE Parsed(i) \/ ParseFails(i) \/ ParseTimeout(i) \/ Busy(i)
    BY <2>1, <2>2, <2>3, ThreadKeeps
  <2>4. CASE ReadSuppliers(i)
    BY <2>1, <2>2, <2>4, SuppliersKeep
  <2>5. CASE CountProducts(i)
    BY <2>1, <2>2, <2>5, CountKeeps
  <2>6. CASE Begin(i)
    BY <2>1, <2>2, <2>6, BeginKeeps
  <2>7. CASE ImportRow(i)
    BY <2>1, <2>2, <2>7, ImportRowKeeps
  <2>8. CASE Commit(i)
    BY <2>1, <2>2, <2>8, CommitKeeps
  <2>9. CASE Unlink(i)
    BY <2>1, <2>2, <2>9, UnlinkKeeps
  <2>10. CASE WrongKind(i) \/ \E f \in Files : Upload(i, f)
    BY <2>1, <2>2, <2>10, UploadKeeps
  <2> QED
    BY <1>2, <2>3, <2>4, <2>5, <2>6, <2>7, <2>8, <2>9, <2>10 DEF Step
<1>3. ASSUME NEW name \in Names, AddSupplier(name)
      PROVE  IInv'
  BY <1>3, AddSupplierKeeps
<1>4. ASSUME NEW id \in DOMAIN supplier,
             \/ DeleteSupplier(id) \/ \E name \in Names : RenameSupplier(id, name)
             \/ AddProduct(id) \/ TakeProduct(id) \/ \E p \in product : MoveProduct(p, id)
      PROVE  IInv'
  <2>1. CASE DeleteSupplier(id)
    BY <1>4, <2>1, DeleteSupplierKeeps
  <2>2. CASE \E name \in Names : RenameSupplier(id, name)
    BY <1>4, <2>2, RenameSupplierKeeps
  <2>3. CASE AddProduct(id) \/ TakeProduct(id)
    BY <1>4, <2>3, ProductComesKeeps DEF AddProduct, TakeProduct
  <2>4. CASE \E p \in product : MoveProduct(p, id)
    BY <1>4, <2>4, MoveProductKeeps
  <2> QED
    BY <1>4, <2>1, <2>2, <2>3, <2>4
<1>4a. ASSUME NEW p \in product, DropProduct(p)
       PROVE  IInv'
  BY <1>4a, DropProductKeeps
<1>5. CASE LicenceChanges
  BY <1>5, LicenceKeeps
<1>6. CASE UNCHANGED vars
  BY <1>6 DEF vars, importVars, IInv, Committed, Unlocked
<1> QED
  BY <1>2, <1>3, <1>4, <1>4a, <1>5, <1>6 DEF Next

(* The inductive invariant holds of every state.                           *)
LEMMA Invariant == Spec => []IInv
<1>1. Init => IInv
  BY InitKeeps
<1>2. IInv /\ [Next]_vars => IInv'
  BY NextKeeps
<1> QED
  BY <1>1, <1>2, PTL DEF Spec

(* What an import reports and keeps is of its type; suppliers' names       *)
(* differ, and every product is of a supplier that is there, in the middle *)
(* of a chunk too.                                                         *)
THEOREM TypeStays == Spec => []TypeOK
<1>1. IInv => TypeOK
  BY DEF IInv, TypeOK, TablesOK, ImportOK, Stages, Early
<1> QED
  BY <1>1, Invariant, PTL

(* Every row up to the last commit is in the table, taken from it since by *)
(* another request, or among the errors, and a chunk that fails leaves     *)
(* nothing.                                                                *)
THEOREM RowsStayAccounted == Spec => []RowsAccounted
<1>1. ASSUME IInv, NEW i \in Imports, import[i].at # "chunk"
      PROVE  /\ Cardinality(From(i)) + import[i].gone = import[i].added
             /\ Cardinality(From(i)) + import[i].gone + import[i].errors = import[i].flushed
             /\ \A p \in From(i) : p.row <= import[i].flushed
             /\ import[i].at = "done" => import[i].flushed = Len(import[i].file)
  <2> DEFINE m == import[i]
             F == From(i)
             total == Cardinality(Committed)
  <2>1. Settled(m, F, total) /\ ImportOK(m)
    BY <1>1 DEF IInv, Of, From
  <2> HIDE DEF m, F, total
  <2>2. m.flushed \in Nat
    BY <2>1 DEF ImportOK
  <2>3. /\ Cardinality(F) + m.gone = m.added /\ m.added + m.errors = m.flushed
        /\ \A p \in F : p.row \in 1..m.flushed
        /\ m.at = "done" => m.flushed = Len(m.file)
    BY <2>1 DEF Settled
  <2>4. \A p \in F : p.row <= m.flushed
    BY <2>2, <2>3
  <2>5. Cardinality(F) + m.gone + m.errors = m.flushed
    BY <2>3
  <2> QED
    BY <2>3, <2>4, <2>5 DEF m, F
<1>2. IInv => RowsAccounted
  BY <1>1 DEF RowsAccounted
<1> QED
  BY <1>2, Invariant, PTL

(* Rows whose supplier has one normal name go to one supplier, wherever    *)
(* the chunks end, and while suppliers come, go and change their names in  *)
(* between; only the product form parts their products.                    *)
THEOREM HomesStayOne == Spec => []OneHome
<1>1. ASSUME IInv, NEW i \in Imports
      PROVE  Homes(import[i], From(i))
  <2>1. CASE import[i].at # "chunk"
    BY <1>1, <2>1 DEF IInv, Settled, Of, From
  <2>2. CASE import[i].at = "chunk"
    <3>1. OpenOK(tx[1], import[i], product) /\ tx[1].by = i
      BY <1>1, <2>2, InTx
    <3>2. Halfway(tx[1].import, import[i], Of(product, i), tx[1].rows)
      BY <3>1 DEF OpenOK
    <3>3. Homes(import[i], Of(product, i))
      BY <3>2 DEF Halfway
    <3> QED
      BY <3>3 DEF Of, From
  <2> QED
    BY <2>1, <2>2
<1>2. IInv => OneHome
  BY <1>1 DEF OneHome, Homes
<1> QED
  BY <1>2, Invariant, PTL

(* A trial user's import goes beyond the quota only by what other requests *)
(* have inserted, or moved in, since the upload.                           *)
THEOREM QuotaStaysByOthers == Spec => []QuotaByOthers
<1>1. ASSUME IInv, Unlocked, NEW i \in Imports, ~import[i].licensed, import[i].added > 0
      PROVE  Cardinality(product) <= FreeMaxProducts + import[i].others
  <2> DEFINE m == import[i]
             total == Cardinality(product)
  <2>1. Settled(m, Of(product, i), total) /\ ImportOK(m)
    BY <1>1, AllSettled
  <2>2. ~m.licensed /\ m.added > 0
    BY <1>1
  <2>3. total \in Nat /\ FreeMaxProducts \in Nat
    BY <1>1, FS_CardinalityType, ImportAssumption DEF IInv, TablesOK
  <2> HIDE DEF m, total
  <2>4. total <= m.products + m.added + m.others /\ m.products + m.added <= FreeMaxProducts
    BY <2>1, <2>2 DEF Settled, Spared
  <2>5. m.products \in Nat /\ m.added \in Nat /\ m.others \in Nat
    BY <2>1 DEF ImportOK
  <2>6. total <= FreeMaxProducts + m.others
    BY <2>3, <2>4, <2>5
  <2> QED
    BY <2>6 DEF m, total
<1>2. IInv => QuotaByOthers
  BY <1>1 DEF QuotaByOthers
<1> QED
  BY <1>2, Invariant, PTL
=============================================================================
