------------------------------- MODULE Server -------------------------------
(***************************************************************************)
(* The server over one database: the workers' handlers interleaved, and    *)
(* what is required of them together.                                      *)
(***************************************************************************)
EXTENDS Catalog, Sharing

Next ==
  \/ \E w \in Workers : Begin(w) \/ CatalogNext(w) \/ SharingNext(w)
  \/ \E u \in Users : LicenceExpires(u)

Spec == Init /\ [][Next]_vars

----------------------------------------------------------------------------
(* Types of the tables and of the workers' jobs. *)
SupplierRows == [owner: Users, name: Names]
ProductRows  == [owner: Users, supplier: Nat, ordered: Days \cup {NotOrdered}]
ShareRows    == [owner: Users, with: Users]

IsTable(table, rows, next) ==
  /\ next \in Nat \ {0}
  /\ DOMAIN table \subseteq 1..(next - 1)
  /\ table \in [DOMAIN table -> rows]

TypeOK ==
  /\ account \in [Users -> Accounts]
  /\ IsTable(supplier, SupplierRows, nextSupplier)
  /\ IsTable(product, ProductRows, nextProduct)
  /\ IsTable(share, ShareRows, nextShare)
  /\ job \in [Workers -> {Idle} \cup Jobs]

(* Every product's supplier exists, every supplier's and every share's     *)
(* users exist: no foreign key dangles, in whatever order the deletes of   *)
(* one worker meet the inserts of another (db.js:93-124).                  *)
ReferencesOK ==
  /\ \A p \in DOMAIN product : product[p].supplier \in DOMAIN supplier
  /\ \A s \in DOMAIN supplier : account[supplier[s].owner].exists
  /\ \A h \in DOMAIN share : /\ account[share[h].owner].exists
                             /\ account[share[h].with].exists

(* A product belongs to the user its supplier belongs to.  Two columns say *)
(* whose a product is (products.owner_id, and suppliers.owner_id through   *)
(* supplier_id); queries filter on the first, deletions cascade along the  *)
(* second.  Between reading the supplier and writing the product a handler *)
(* relies on what it remembers (app.js:297-313, 340-356, token.js:69-74).  *)
OwnerConsistent ==
  \A p \in DOMAIN product :
    product[p].supplier \in DOMAIN supplier
      => supplier[product[p].supplier].owner = product[p].owner

(* Labels a handler reaches only after it found the user its request names. *)
KnowsUser == {"existing", "countShares", "insertShare", "grant", "revoke", "unadmin",
              "purgeShares", "purgeProducts", "purgeSuppliers", "purgeUser"}

(* The labels quick-add goes through. *)
QuickAddLabels == {"quickAddQuota", "resolveId", "resolveName", "lastProduct", "lastSupplier",
                   "firstSupplier", "countSuppliers", "insertSupplier", "insertProduct"}

(* What a worker remembers of a supplier stays true as long as the row     *)
(* exists, whatever other workers do meanwhile; quick-add only remembers   *)
(* suppliers of its caller.                                                *)
GoodJob(j, suppliers, next) ==
  /\ j.sup.id < next
  /\ j.sup.id \in DOMAIN suppliers => suppliers[j.sup.id].owner = j.sup.owner
  /\ j.req.op = "quickAdd" => j.sup.owner = j.req.user /\ j.pc \in QuickAddLabels
  /\ j.pc \in KnowsUser => j.req.id \in Users
  /\ j.pc = "renameSupplier" => j.req.name \in Names

MemoryOK ==
  \A w \in Workers : job[w].pc # "idle" => GoodJob(job[w], supplier, nextSupplier)

(* A supplier id means the same owner for ever: a rename keeps the owner,  *)
(* and an id once given is not given again (AUTOINCREMENT, db.js:94), so a *)
(* handler that remembers an id over another worker's delete and insert    *)
(* misses the row instead of meeting somebody else's.                      *)
KeepsOwner ==
  /\ nextSupplier <= nextSupplier'
  /\ \A s \in DOMAIN supplier' :
       IF s \in DOMAIN supplier THEN supplier'[s].owner = supplier[s].owner
       ELSE s >= nextSupplier
SupplierIdentity == [][KeepsOwner]_vars

IInv == TypeOK /\ ReferencesOK /\ OwnerConsistent /\ MemoryOK

----------------------------------------------------------------------------
(* An owner has no two suppliers whose names differ at most in ASCII case, *)
(* although four handlers write names and only two of them ask with the    *)
(* same folding (app.js:153-158, 215-221, token.js:42-48, 82).             *)
NoDuplicateNames ==
  \A s, t \in DOMAIN supplier :
    s # t /\ supplier[s].owner = supplier[t].owner
      => LowerOf[supplier[s].name] # LowerOf[supplier[t].name]

NeverLicensed(u) == account[u].licence = "free" /\ ~IsAdmin(u, account[u])

(* No request adds a row to a trial account beyond its quota, neither its  *)
(* owner's nor a collaborator's; an account may hold more than the quota   *)
(* only since a licence it had ended (app.js:142-150, 267-304).            *)
QuotaHeld ==
  [][\A u \in Users : NeverLicensed(u) =>
       /\ (\E s \in DOMAIN supplier' \ DOMAIN supplier : supplier'[s].owner = u)
            => Cardinality(SuppliersOf(u)') <= FreeMaxSuppliers
       /\ (\E p \in DOMAIN product' \ DOMAIN product : product'[p].owner = u)
            => Cardinality(ProductsOf(u)') <= FreeMaxProducts]_vars

(* No user has more than MaxShares collaborators (account.js:243-246).     *)
ShareLimitHeld == \A u \in Users : Cardinality(SharesOf(u)) <= MaxShares

(* Both are rules no key of a table enforces: handlers ask, then insert.   *)
NamesAndSharesHeld == NoDuplicateNames /\ ShareLimitHeld

(* Ending a share deletes by an id read one statement earlier.  Whatever   *)
(* other workers delete and share in between, the row deleted is one of    *)
(* the caller's own shares, or of his guest rights (account.js:271-300).   *)
OnlyOwnShares ==
  [][\A w \in Workers : At(w, "deleteShare") /\ job'[w] = Idle =>
       \A h \in DOMAIN share \ DOMAIN share' :
         job[w].req.user = IF job[w].req.op = "leave" THEN share[h].with
                           ELSE share[h].owner]_vars

(* The owners whose rows worker w's request may change right now. *)
MayTouch(w, owner) ==
  LET j == job[w] IN
  \/ owner = j.req.user
  \/ \E h \in DOMAIN share : share[h].owner = owner /\ share[h].with = j.req.user
  \/ j.req.op = "deleteUser" /\ owner = j.req.id

ChangedOwners(table, new) ==
  {table[i].owner : i \in {i \in DOMAIN table : i \notin DOMAIN new \/ new[i] # table[i]}}
  \cup {new[i].owner : i \in {i \in DOMAIN new : i \notin DOMAIN table \/ new[i] # table[i]}}

(* A request changes, deletes by cascade, or takes over only rows of its   *)
(* user and of those who share with him at that moment (queries.js:143-154,*)
(* 295-321).  It needs OwnerConsistent: a cascade follows supplier_id.     *)
AccessRespected ==
  [][\A w \in Workers : job'[w] # job[w] =>
       \A u \in ChangedOwners(supplier, supplier') \cup ChangedOwners(product, product') :
         MayTouch(w, u)]_vars
=============================================================================
