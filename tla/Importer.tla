------------------------------ MODULE Importer ------------------------------
(***************************************************************************)
(* Importing a spreadsheet (server/lib/importer.js, importWorker.js, and   *)
(* the route /import of server/routes/app.js).  A file is parsed in a      *)
(* thread with a time limit.  Its rows are then inserted chunk by chunk,   *)
(* a transaction each, and between two chunks the event loop serves other  *)
(* requests, while the import goes on with the suppliers and counts it     *)
(* read at its start.  The rows here are those of one user.                *)
(***************************************************************************)
EXTENDS Integers, Sequences, FiniteSets, FiniteSetsExt

CONSTANTS
  Imports,          \* imports in flight
  Files,            \* sequences of rows
  Names, NormalOf,  \* supplier names, and normalizeName
  Rank,             \* ORDER BY name: the place of a name
  AtStart,          \* names the user may have a supplier of at the start
  Close,            \* pairs of normal names closestMatch finds alike
  CHUNK, MAX_ROWS,
  FreeMaxSuppliers, FreeMaxProducts,
  Licensed,         \* whether the user's licence may be on: a set of BOOLEAN
  MaxSupplierId,    \* bound on the ids of suppliers
  MaxOthers         \* bound on the other requests

(* good: the other cells pass their checks.  An empty name is "".          *)
Row == [name: Names \cup {""}, good: BOOLEAN]

Stranger == "others"    \* from of a product no import inserted

ASSUME ImportAssumption ==
  /\ Files \subseteq Seq(Row) /\ Stranger \notin Imports
  /\ NormalOf \in [Names -> STRING] /\ Rank \in [Names -> Nat] /\ AtStart \subseteq Names
  /\ CHUNK \in Nat \ {0} /\ MAX_ROWS \in Nat /\ Licensed \subseteq BOOLEAN
  /\ FreeMaxProducts \in Nat /\ MaxOthers \in Nat

VARIABLES
  supplier,      \* the user's suppliers: id -> name
  product,       \* the user's products: [from, row, supplier, moved]
  nextSupplier,  \* sqlite_sequence
  licensed,      \* users.is_licensed of the user
  import,        \* what each import is doing
  others,        \* other requests still to come
  tx             \* the open transaction: rows to come, and what to go back to

importVars == <<supplier, product, nextSupplier, licensed, import, tx>>
vars == <<importVars, others>>

Unlocked == tx = <<>>    \* nobody else runs while a transaction is open

NoImport ==
  [at |-> "none", file |-> <<>>, licensed |-> FALSE, map |-> <<>>, fuzzy |-> {},
   suppliers |-> 0, products |-> 0, next |-> 1, added |-> 0, errors |-> 0,
   upload |-> FALSE, flushed |-> 0, gone |-> 0, others |-> 0]

(* upload: the file multer left on the disk.  map: normal name -> supplier *)
(* id.  fuzzy: the normal names found at the start.  Histories: flushed,   *)
(* the rows up to the last commit; gone, products of this import the user  *)
(* no longer has; others, products that have come otherwise since the      *)
(* upload; and of a product moved, that a form has changed its supplier.   *)

Init ==
  /\ supplier \in {<<>>} \cup {[id \in {1} |-> n] : n \in AtStart}
  /\ nextSupplier = Cardinality(DOMAIN supplier) + 1
  /\ product = {}
  /\ licensed \in Licensed
  /\ import = [i \in Imports |-> NoImport]
  /\ tx = <<>> /\ others = MaxOthers

----------------------------------------------------------------------------
(* The route and the parsing thread                                        *)

(* multer has stored the file; req.user was read before.                   *)
Upload(i, f) ==
  /\ import[i] = NoImport
  /\ import' = [import EXCEPT ![i] =
                  [NoImport EXCEPT !.at = "parsing", !.file = f, !.licensed = licensed,
                                   !.upload = TRUE]]
  /\ UNCHANGED <<supplier, product, nextSupplier, licensed, tx>>

(* A name that is no spreadsheet's: the file is removed, then the answer.  *)
WrongKind(i) ==
  /\ import[i] = NoImport
  /\ import' = [import EXCEPT ![i] = [NoImport EXCEPT !.at = "failed", !.upload = TRUE]]
  /\ UNCHANGED <<supplier, product, nextSupplier, licensed, tx>>

Fail(i) == import' = [import EXCEPT ![i].at = "failed"]

(* The thread's message: rows, or that it could not read them.             *)
Parsed(i) ==
  /\ import[i].at = "parsing"
  /\ IF Len(import[i].file) > MAX_ROWS THEN Fail(i)
     ELSE import' = [import EXCEPT ![i].at = "suppliers"]
  /\ UNCHANGED <<supplier, product, nextSupplier, licensed, tx>>

ParseFails(i) ==
  /\ import[i].at = "parsing"
  /\ Fail(i)
  /\ UNCHANGED <<supplier, product, nextSupplier, licensed, tx>>

(* Sixty seconds without a message.                                        *)
ParseTimeout(i) ==
  /\ import[i].at = "parsing"
  /\ Fail(i)
  /\ UNCHANGED <<supplier, product, nextSupplier, licensed, tx>>

----------------------------------------------------------------------------
(* What importRows reads at its start                                      *)

(* The function f with one more key.                                       *)
Put(f, key, v) == [k \in DOMAIN f \cup {key} |-> IF k = key THEN v ELSE f[k]]

NormalNames == {NormalOf[supplier[id]] : id \in DOMAIN supplier}

(* Of two spellings the Map keeps the supplier read last.                  *)
IdOf(n) ==
  LET ids == {id \in DOMAIN supplier : NormalOf[supplier[id]] = n}
  IN CHOOSE id \in ids : \A k \in ids : Rank[supplier[k]] <= Rank[supplier[id]]

ReadSuppliers(i) ==
  /\ import[i].at = "suppliers" /\ Unlocked
  /\ import' = [import EXCEPT ![i].at = "products", ![i].map = [n \in NormalNames |-> IdOf(n)],
                              ![i].fuzzy = NormalNames,
                              ![i].suppliers = Cardinality(DOMAIN supplier)]
  /\ UNCHANGED <<supplier, product, nextSupplier, licensed, tx>>

CountProducts(i) ==
  /\ import[i].at = "products" /\ Unlocked
  /\ import' = [import EXCEPT ![i].at = "rows", ![i].products = Cardinality(product)]
  /\ UNCHANGED <<supplier, product, nextSupplier, licensed, tx>>

----------------------------------------------------------------------------
(* The rows                                                                *)

(* k products that one inserts count as others' for the imports running.   *)
NotedBy(who, k, imports) ==
  [i \in Imports |-> IF i = who \/ imports[i].at = "none" THEN imports[i]
                     ELSE [imports[i] EXCEPT !.others = @ + k]]

Valid(row) == row.name # "" /\ row.good

(* The rows the loop reads before it next stops: up to a full chunk.       *)
ReadTo(m) ==
  LET full == {j \in m.next..Len(m.file) :
                 Cardinality({k \in m.next..j : Valid(m.file[k])}) = CHUNK}
  IN IF full = {} THEN Len(m.file) ELSE Min(full)

(* Reads on to a full chunk or the end, and opens its transaction.         *)
Begin(i) ==
  /\ import[i].at = "rows" /\ Unlocked
  /\ LET m == import[i]
         last == ReadTo(m)
         bad == {j \in m.next..last : ~Valid(m.file[j])}
         good == (m.next..last) \ bad
         read == [m EXCEPT !.next = last + 1, !.errors = @ + Cardinality(bad)]
     IN IF good = {}
        THEN /\ import' = [import EXCEPT ![i] = [read EXCEPT !.at = "done", !.flushed = last]]
             /\ UNCHANGED tx
        ELSE /\ import' = [import EXCEPT ![i] = [read EXCEPT !.at = "chunk"]]
             /\ tx' = <<[by |-> i, rows |-> good, supplier |-> supplier, product |-> product,
                        next |-> nextSupplier, import |-> m]>>
  /\ UNCHANGED <<supplier, product, nextSupplier, licensed>>

(* Faulty variant: what a chunk inserted before it threw stays.            *)
RollbackNothing(i) ==
  /\ tx' = <<>>
  /\ import' = [import EXCEPT ![i] = [tx[1].import EXCEPT !.at = "failed"]]
  /\ UNCHANGED <<supplier, product, nextSupplier>>

(* A statement threw: the transaction is undone, and the import ends.      *)
Rollback(i) ==
  /\ tx' = <<>>
  /\ supplier' = tx[1].supplier /\ product' = tx[1].product /\ nextSupplier' = tx[1].next
  /\ import' = [import EXCEPT ![i] = [tx[1].import EXCEPT !.at = "failed"]]

RowDone(j) == tx' = <<[tx[1] EXCEPT !.rows = @ \ {j}]>>
Refuse(i, j) ==
  /\ RowDone(j)
  /\ import' = [import EXCEPT ![i].errors = @ + 1]
  /\ UNCHANGED <<supplier, product, nextSupplier>>

(* Faulty variant: the rows this import has added are not counted.         *)
QuotaFullUncounted(m) == ~m.licensed /\ m.products >= FreeMaxProducts

QuotaFull(m) == ~m.licensed /\ m.products + m.added >= FreeMaxProducts

(* The product of row j goes to a supplier; its key must exist.            *)
InsertProduct(i, j, home) ==
  product' = product \cup {[from |-> i, row |-> j, supplier |-> home, moved |-> FALSE]}

(* Faulty variant: foreign keys are not enforced.                          *)
KnownSupplierUnchecked(i, j, home) ==
  IF QuotaFull(import[i]) THEN Refuse(i, j)
  ELSE /\ InsertProduct(i, j, home)
       /\ RowDone(j)
       /\ import' = [import EXCEPT ![i].added = @ + 1]
       /\ UNCHANGED <<supplier, nextSupplier>>

(* The row's supplier is known.                                            *)
KnownSupplier(i, j, home) ==
  IF QuotaFull(import[i]) THEN Refuse(i, j)
  ELSE IF home \notin DOMAIN supplier THEN Rollback(i)
  ELSE /\ InsertProduct(i, j, home)
       /\ RowDone(j)
       /\ import' = [import EXCEPT ![i].added = @ + 1]
       /\ UNCHANGED <<supplier, nextSupplier>>

(* It is new, and inserted; the product still may be refused.              *)
NewSupplier(i, j, name) ==
  IF name \in {supplier[id] : id \in DOMAIN supplier} THEN Rollback(i)
  ELSE /\ supplier' = Put(supplier, nextSupplier, name)
       /\ nextSupplier' = nextSupplier + 1
       /\ RowDone(j)
       /\ LET m == [import[i] EXCEPT !.map = Put(@, NormalOf[name], nextSupplier),
                                     !.suppliers = @ + 1]
          IN IF QuotaFull(m)
             THEN import' = [import EXCEPT ![i] = [m EXCEPT !.errors = @ + 1]] /\ UNCHANGED product
             ELSE /\ InsertProduct(i, j, nextSupplier)
                  /\ import' = [import EXCEPT ![i] = [m EXCEPT !.added = @ + 1]]

(* Faulty variant: suppliers inserted by this import are not remembered.   *)
KnownAtStart(m, n) == n \in m.fuzzy

Known(m, n) == n \in DOMAIN m.map

ImportRow(i) ==
  /\ import[i].at = "chunk" /\ tx[1].rows # {}
  /\ LET j == Min(tx[1].rows)
         m == import[i]
         name == m.file[j].name
         n == NormalOf[name]
     IN IF Known(m, n) THEN KnownSupplier(i, j, m.map[n])
        ELSE IF \/ \E known \in m.fuzzy : <<n, known>> \in Close
                \/ ~m.licensed /\ m.suppliers >= FreeMaxSuppliers
        THEN Refuse(i, j)
        ELSE NewSupplier(i, j, name)
  /\ UNCHANGED licensed

(* COMMIT; then the event loop runs, or the import answers.                *)
Commit(i) ==
  /\ import[i].at = "chunk" /\ tx[1].rows = {}
  /\ tx' = <<>>
  /\ import' = NotedBy(i, import[i].added - tx[1].import.added, [import EXCEPT ![i] =
       [@ EXCEPT !.flushed = import[i].next - 1,
                 !.at = IF import[i].next > Len(import[i].file) THEN "done" ELSE "rows"]])
  /\ UNCHANGED <<supplier, product, nextSupplier, licensed>>

(* Another worker holds the database for longer than the busy timeout.     *)
Busy(i) ==
  /\ import[i].at = "rows"
  /\ Fail(i)
  /\ UNCHANGED <<supplier, product, nextSupplier, licensed, tx>>

(* Faulty variant: only a success removes the file.                        *)
UnlinkOnSuccess(i) ==
  /\ import[i].at = "done" /\ import[i].upload
  /\ import' = [import EXCEPT ![i].upload = FALSE]
  /\ UNCHANGED <<supplier, product, nextSupplier, licensed, tx>>

(* finally: the answer was given, the file is removed.                     *)
Unlink(i) ==
  /\ import[i].at \in {"done", "failed"} /\ import[i].upload
  /\ import' = [import EXCEPT ![i].upload = FALSE]
  /\ UNCHANGED <<supplier, product, nextSupplier, licensed, tx>>

----------------------------------------------------------------------------
(* Other requests of the same user, each one synchronous handler           *)

From(i) == {p \in product : p.from = i}

Another == Unlocked /\ others > 0 /\ others' = others - 1

(* Names differ as lower() tells them apart, not as normalizeName does.    *)
AddSupplier(name) ==
  /\ Another
  /\ name \notin {supplier[id] : id \in DOMAIN supplier}
  /\ licensed \/ Cardinality(DOMAIN supplier) < FreeMaxSuppliers
  /\ nextSupplier <= MaxSupplierId
  /\ supplier' = Put(supplier, nextSupplier, name)
  /\ nextSupplier' = nextSupplier + 1
  /\ UNCHANGED <<product, licensed, import, tx>>

DeleteSupplier(id) ==
  /\ Another
  /\ id \in DOMAIN supplier
  /\ supplier' = [k \in DOMAIN supplier \ {id} |-> supplier[k]]
  /\ product' = {p \in product : p.supplier # id}
  /\ import' = [i \in Imports |->
                  [import[i] EXCEPT !.gone = @ + Cardinality({p \in From(i) : p.supplier = id})]]
  /\ UNCHANGED <<nextSupplier, licensed, tx>>

RenameSupplier(id, name) ==
  /\ Another
  /\ id \in DOMAIN supplier /\ name \notin {supplier[k] : k \in DOMAIN supplier \ {id}}
  /\ supplier' = [supplier EXCEPT ![id] = name]
  /\ UNCHANGED <<product, nextSupplier, licensed, import, tx>>

ProductComes(id) ==
  /\ product' = product \cup {[from |-> Stranger, row |-> others, supplier |-> id, moved |-> FALSE]}
  /\ import' = NotedBy(Stranger, 1, import)
  /\ UNCHANGED <<supplier, nextSupplier, licensed, tx>>

AddProduct(id) ==
  /\ Another
  /\ id \in DOMAIN supplier
  /\ licensed \/ Cardinality(product) < FreeMaxProducts
  /\ ProductComes(id)

(* The product form changes the supplier: the product moves to another of  *)
(* the user's, or, where suppliers are shared, comes from another owner,   *)
(* for which no quota is checked.                                          *)
MoveProduct(p, id) ==
  /\ Another
  /\ p \in product /\ id \in DOMAIN supplier \ {p.supplier}
  /\ product' = (product \ {p}) \cup
       {[from |-> p.from, row |-> p.row, supplier |-> id, moved |-> TRUE]}
  /\ UNCHANGED <<supplier, nextSupplier, licensed, import, tx>>

TakeProduct(id) ==
  /\ Another
  /\ id \in DOMAIN supplier
  /\ ProductComes(id)

(* A product is deleted, or moved to a supplier of another owner.          *)
DropProduct(p) ==
  /\ Another
  /\ p \in product
  /\ product' = product \ {p}
  /\ import' = [i \in Imports |->
                  [import[i] EXCEPT !.gone = @ + Cardinality(From(i) \cap {p})]]
  /\ UNCHANGED <<supplier, nextSupplier, licensed, tx>>

LicenceChanges ==
  /\ Another
  /\ \E on \in Licensed : licensed' = on /\ on # licensed
  /\ UNCHANGED <<supplier, product, nextSupplier, import, tx>>

----------------------------------------------------------------------------
Step(i) ==
  \/ Parsed(i) \/ ParseFails(i) \/ ParseTimeout(i) \/ ReadSuppliers(i) \/ CountProducts(i)
  \/ Begin(i) \/ Busy(i) \/ ImportRow(i) \/ Commit(i) \/ Unlink(i)

Next ==
  \/ /\ \E i \in Imports : Step(i) \/ WrongKind(i) \/ \E f \in Files : Upload(i, f)
     /\ UNCHANGED others
  \/ \E name \in Names : AddSupplier(name)
  \/ \E id \in DOMAIN supplier :
       \/ DeleteSupplier(id) \/ \E name \in Names : RenameSupplier(id, name)
       \/ AddProduct(id) \/ TakeProduct(id) \/ \E p \in product : MoveProduct(p, id)
  \/ \E p \in product : DropProduct(p)
  \/ LicenceChanges

(* The timer of the parsing, and whatever the event loop owes a handler    *)
(* that has yielded.                                                       *)
Fairness ==
  \A i \in Imports :
    /\ WF_importVars(ParseTimeout(i)) /\ WF_importVars(ReadSuppliers(i)) /\ WF_importVars(CountProducts(i))
    /\ WF_importVars(Begin(i)) /\ WF_importVars(ImportRow(i)) /\ WF_importVars(Commit(i)) /\ WF_importVars(Unlink(i))

Spec == Init /\ [][Next]_vars /\ Fairness

----------------------------------------------------------------------------
(* Properties                                                              *)

TypeOK ==
  /\ \A id \in DOMAIN supplier : id < nextSupplier /\ supplier[id] \in Names
  /\ \A a, b \in DOMAIN supplier : supplier[a] = supplier[b] => a = b
  /\ \A p \in product : p.supplier \in DOMAIN supplier /\ p.from \in Imports \cup {Stranger}
  /\ \A i \in Imports :
       /\ import[i].at \in {"none", "parsing", "suppliers", "products", "rows", "chunk", "done", "failed"}
       /\ import[i].next \in 1..(Len(import[i].file) + 1)

(* Each row up to the last commit is in the table, taken from it since by  *)
(* another request, or among the errors, and the count announced is the    *)
(* number inserted; an import that fails leaves whole chunks and nothing   *)
(* of the chunk that failed (importRows).                                  *)
RowsAccounted ==
  \A i \in Imports : import[i].at # "chunk" =>
    LET m == import[i]
        inserted == Cardinality(From(i)) + m.gone
    IN /\ inserted = m.added /\ inserted + m.errors = m.flushed
       /\ \A p \in From(i) : p.row <= m.flushed
       /\ m.at = "done" => m.flushed = Len(m.file)

(* Rows whose supplier has one normal name go to one supplier, wherever    *)
(* the chunks end, and while suppliers are inserted, renamed and deleted   *)
(* in between: products of such rows are of different suppliers only if    *)
(* the product form has moved one of them.                                 *)
OneHome ==
  \A i \in Imports : \A p, q \in From(i) :
    NormalOf[import[i].file[p.row].name] = NormalOf[import[i].file[q.row].name]
      => p.supplier = q.supplier \/ p.moved \/ q.moved

(* A trial user's import goes beyond his quota only by the products that   *)
(* other requests have inserted, or moved in, since the upload: its counts *)
(* are of its start.                                                       *)
QuotaByOthers ==
  Unlocked => \A i \in Imports :
    ~import[i].licensed /\ import[i].added > 0 =>
      Cardinality(product) <= FreeMaxProducts + import[i].others

(* Every upload is answered and its file removed (parseInWorker, finally). *)
ImportsEnd ==
  \A i \in Imports :
    import[i].at # "none" ~> import[i].at \in {"done", "failed"} /\ ~import[i].upload
=============================================================================
