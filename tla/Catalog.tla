------------------------------ MODULE Catalog ------------------------------
(***************************************************************************)
(* The handlers that change suppliers and products: server/routes/app.js   *)
(* and the API-key handler quick-add of server/routes/token.js.            *)
(***************************************************************************)
EXTENDS Store

(* The quota of the caller, before anything else: addSupplier and          *)
(* addProduct ask getUserLimits, quick-add counts for itself and asks the  *)
(* is_licensed column.                                                     *)
Proceed(w, ok, label) == IF ok THEN Goto(w, label) ELSE Respond(w)

CheckSupplierQuota(w) ==
  /\ At(w, "supplierQuota")
  /\ Proceed(w, MayAddSupplier(job[w].req.user, job[w].row), "duplicate")
  /\ UNCHANGED tables

CheckProductQuota(w) ==
  /\ At(w, "productQuota")
  /\ Proceed(w, MayAddProduct(job[w].req.user, job[w].row), "owners")
  /\ UNCHANGED tables

CheckQuickAddQuota(w) ==
  LET j == job[w]
      ok == \/ FlagLicensed(j.req.user, j.row)
            \/ Cardinality(ProductsOf(j.req.user)) < FreeMaxProducts
      next == IF j.req.to # 0 THEN "resolveId"
              ELSE IF j.req.name # NoName THEN "resolveName"
              ELSE "lastProduct"
  IN /\ At(w, "quickAddQuota")
     /\ Proceed(w, ok, next)
     /\ UNCHANGED tables

(* Faulty variant: the two columns of shared_access swapped. *)
ReadOwnersSwapped(w) ==
  LET j == job[w]
      guests == {share[h].with : h \in SharesOf(j.req.user)}
      onProduct == {"editProduct", "deleteProduct", "toggleOrder", "unarchive"}
  IN /\ At(w, "owners")
     /\ job' = [job EXCEPT ![w] =
                  [@ EXCEPT !.owners = {j.req.user} \cup guests,
                            !.pc = IF j.req.op \in onProduct /\ j.found = 0
                                   THEN "product" ELSE "supplier"]]
     /\ UNCHANGED tables

(* accessibleOwnerIds: the caller and everyone who shares with him.        *)
ReadOwners(w) ==
  LET j == job[w]
      sharers == {share[h].owner : h \in {h \in DOMAIN share : share[h].with = j.req.user}}
      onProduct == {"editProduct", "deleteProduct", "toggleOrder", "unarchive"}
  IN /\ At(w, "owners")
     /\ job' = [job EXCEPT ![w] =
                  [@ EXCEPT !.owners = {j.req.user} \cup sharers,
                            !.pc = IF j.req.op \in onProduct /\ j.found = 0
                                   THEN "product" ELSE "supplier"]]
     /\ UNCHANGED tables

(* The supplier the request names, if the caller may see it.  Editing a    *)
(* product goes on without a move when it may not; the others answer 404.  *)
FindSupplier(w) ==
  LET j == job[w]
      s == IF j.req.op \in {"addProduct", "editProduct"} THEN j.req.to ELSE j.req.id
      visible == s \in DOMAIN supplier /\ supplier[s].owner \in j.owners
      next == CASE j.req.op = "editSupplier"   -> "duplicate"
                [] j.req.op = "deleteSupplier" -> "deleteSupplier"
                [] j.req.op = "deleteArchive"  -> "deleteArchive"
                [] j.req.op = "editProduct"    -> "moveProduct"
                [] OTHER -> IF supplier[s].owner # j.req.user THEN "host"
                            ELSE "insertProduct"
  IN /\ At(w, "supplier")
     /\ \/ /\ visible
           /\ job' = [job EXCEPT ![w] =
                [@ EXCEPT !.sup = [id |-> s, owner |-> supplier[s].owner], !.pc = next]]
        \/ /\ ~visible
           /\ IF j.req.op = "editProduct" THEN Goto(w, "updateProduct") ELSE Respond(w)
     /\ UNCHANGED tables

(* ownedProduct *)
FindProduct(w) ==
  LET j == job[w]
      p == j.req.id
      next == CASE j.req.op = "editProduct" -> IF j.req.to # 0 THEN "owners"
                                               ELSE "updateProduct"
                [] j.req.op = "deleteProduct" -> "deleteProduct"
                [] j.req.op = "toggleOrder"   -> "archive"
                [] OTHER -> "unarchive"
  IN /\ At(w, "product")
     /\ IF p \in DOMAIN product /\ product[p].owner \in j.owners
        THEN job' = [job EXCEPT ![w] = [@ EXCEPT !.found = p, !.pc = next]]
        ELSE Respond(w)
     /\ UNCHANGED tables

----------------------------------------------------------------------------
(* Suppliers *)

(* Faulty variant: the names compared as they are, as UNIQUE does. *)
NameTakenExactly(owner, name, except) ==
  \E s \in SuppliersOf(owner) \ {except} : supplier[s].name = name

NameTaken(owner, name, except) ==
  \E s \in SuppliersOf(owner) \ {except} : LowerOf[supplier[s].name] = LowerOf[name]

(* UNIQUE(owner_id, name) compares exactly. *)
ViolatesUnique(owner, name, except) ==
  \E s \in SuppliersOf(owner) \ {except} : supplier[s].name = name

(* A form without a name, or with a taken one, is refused. *)
CheckDuplicate(w) ==
  LET j == job[w] IN
  /\ At(w, "duplicate")
  /\ IF j.req.name = NoName \/ NameTaken(j.sup.owner, j.req.name, j.sup.id)
     THEN Respond(w)
     ELSE Goto(w, IF j.req.op = "addSupplier" THEN "insertSupplier" ELSE "renameSupplier")
  /\ UNCHANGED tables

(* addSupplier answers; quick-add goes on to the product.  A broken UNIQUE *)
(* or foreign key leaves nothing behind and answers 500.                   *)
InsertSupplier(w) ==
  LET j == job[w]
      u == j.req.user
      name == IF j.req.name = NoName THEN Unnamed ELSE j.req.name
  IN /\ At(w, "insertSupplier")
     /\ IF account[u].exists /\ ~ViolatesUnique(u, name, 0)
        THEN /\ supplier' = Inserted(supplier, nextSupplier, [owner |-> u, name |-> name])
             /\ nextSupplier' = nextSupplier + 1
             /\ IF j.req.op = "addSupplier" THEN Respond(w)
                ELSE job' = [job EXCEPT ![w] =
                       [@ EXCEPT !.sup = [id |-> nextSupplier, owner |-> u],
                                 !.pc = "insertProduct"]]
        ELSE Respond(w) /\ UNCHANGED <<supplier, nextSupplier>>
     /\ UNCHANGED <<account, product, share, nextProduct, nextShare>>

RenameSupplier(w) ==
  LET j == job[w]
      s == j.sup.id
  IN /\ At(w, "renameSupplier")
     /\ IF s \in DOMAIN supplier /\ ~ViolatesUnique(supplier[s].owner, j.req.name, s)
        THEN supplier' = [supplier EXCEPT ![s] = [@ EXCEPT !.name = j.req.name]]
        ELSE UNCHANGED supplier
     /\ Respond(w)
     /\ UNCHANGED <<account, product, share, nextSupplier, nextProduct, nextShare>>

(* Faulty variant: ids without AUTOINCREMENT, one more than the largest.   *)
DeleteSupplierFreeingIds(w) ==
  /\ At(w, "deleteSupplier")
  /\ DeleteSuppliers({job[w].sup.id})
  /\ nextSupplier' = CHOOSE n \in 1..nextSupplier :
                       /\ \A s \in DOMAIN supplier' : s < n
                       /\ n = 1 \/ n - 1 \in DOMAIN supplier'
  /\ Respond(w)
  /\ UNCHANGED <<account, share, nextProduct, nextShare>>

DeleteSupplier(w) ==
  /\ At(w, "deleteSupplier")
  /\ DeleteSuppliers({job[w].sup.id})
  /\ Respond(w)
  /\ UNCHANGED <<account, share, nextSupplier, nextProduct, nextShare>>

(* One archive group of one supplier: the products archived on one day.    *)
DeleteArchive(w) ==
  /\ At(w, "deleteArchive")
  /\ \E day \in Days :
       product' = Without(product,
         {p \in DOMAIN product : /\ product[p].supplier = job[w].sup.id
                                 /\ product[p].ordered = day})
  /\ Respond(w)
  /\ UNCHANGED <<account, supplier, share, nextSupplier, nextProduct, nextShare>>

----------------------------------------------------------------------------
(* Products *)

(* getUserById(productOwnerId): the quota of a shared supplier's owner.    *)
ReadHost(w) ==
  LET j == job[w] IN
  /\ At(w, "host")
  /\ IF account[j.sup.owner].exists
     THEN job' = [job EXCEPT ![w] = [@ EXCEPT !.row = account[j.sup.owner],
                                              !.pc = "hostQuota"]]
     ELSE Respond(w)
  /\ UNCHANGED tables

CheckHostQuota(w) ==
  LET j == job[w] IN
  /\ At(w, "hostQuota")
  /\ IF MayAddProduct(j.sup.owner, j.row) THEN Goto(w, "insertProduct") ELSE Respond(w)
  /\ UNCHANGED tables

(* Faulty variant: a product belongs to whoever enters it. *)
ProductOwnerCaller(j) == j.req.user

(* A product belongs to its supplier's owner; quick-add writes the caller. *)
ProductOwner(j) == IF j.req.op = "quickAdd" THEN j.req.user ELSE j.sup.owner

(* Faulty variant: the id counter is not stored. *)
InsertProductKeepingCounter(w) ==
  LET j == job[w] IN
  /\ At(w, "insertProduct")
  /\ IF account[ProductOwner(j)].exists /\ j.sup.id \in DOMAIN supplier
     THEN product' = Inserted(product, nextProduct,
                       [owner |-> ProductOwner(j), supplier |-> j.sup.id,
                        ordered |-> NotOrdered])
     ELSE UNCHANGED product
  /\ Respond(w)
  /\ UNCHANGED <<account, supplier, share, nextSupplier, nextProduct, nextShare>>

InsertProduct(w) ==
  LET j == job[w] IN
  /\ At(w, "insertProduct")
  /\ IF account[ProductOwner(j)].exists /\ j.sup.id \in DOMAIN supplier
     THEN /\ product' = Inserted(product, nextProduct,
                          [owner |-> ProductOwner(j), supplier |-> j.sup.id,
                           ordered |-> NotOrdered])
          /\ nextProduct' = nextProduct + 1
     ELSE UNCHANGED <<product, nextProduct>>
  /\ Respond(w)
  /\ UNCHANGED <<account, supplier, share, nextSupplier, nextShare>>

(* The first UPDATE of the edit form: the product changes supplier and, if *)
(* the supplier is somebody else's, owner.  With the supplier gone the     *)
(* foreign key fails and the request ends; with the product gone no row    *)
(* matches and it goes on.                                                 *)
MoveProduct(w) ==
  LET j == job[w] IN
  /\ At(w, "moveProduct")
  /\ IF j.found \notin DOMAIN product THEN Goto(w, "updateProduct") /\ UNCHANGED product
     ELSE IF j.sup.id \notin DOMAIN supplier THEN Respond(w) /\ UNCHANGED product
     ELSE /\ product' = [product EXCEPT ![j.found] =
                           [@ EXCEPT !.supplier = j.sup.id, !.owner = j.sup.owner]]
          /\ Goto(w, "updateProduct")
  /\ UNCHANGED <<account, supplier, share, nextSupplier, nextProduct, nextShare>>

(* The second UPDATE writes name, quantity, unit and description, which    *)
(* are left out here.                                                      *)
UpdateProduct(w) ==
  /\ At(w, "updateProduct")
  /\ Respond(w)
  /\ UNCHANGED tables

DeleteProduct(w) ==
  /\ At(w, "deleteProduct")
  /\ product' = Without(product, {job[w].found})
  /\ Respond(w)
  /\ UNCHANGED <<account, supplier, share, nextSupplier, nextProduct, nextShare>>

SetOrdered(w, day) ==
  /\ product' = IF job[w].found \in DOMAIN product
                THEN [product EXCEPT ![job[w].found] = [@ EXCEPT !.ordered = day]]
                ELSE product
  /\ Respond(w)
  /\ UNCHANGED <<account, supplier, share, nextSupplier, nextProduct, nextShare>>

ArchiveProductToday(w) == At(w, "archive") /\ \E today \in Days : SetOrdered(w, today)

UnarchiveProduct(w) == At(w, "unarchive") /\ SetOrdered(w, NotOrdered)

----------------------------------------------------------------------------
(* resolveSupplier of quick-add: by id, by name, else the supplier of the  *)
(* caller's last product, his first supplier, or a new one.                *)

UseSupplier(w, s, label) ==
  job' = [job EXCEPT ![w] =
            [@ EXCEPT !.sup = [id |-> s, owner |-> job[w].req.user], !.pc = label]]

ResolveById(w) ==
  LET s == job[w].req.to IN
  /\ At(w, "resolveId")
  /\ IF s \in SuppliersOf(job[w].req.user) THEN UseSupplier(w, s, "insertProduct")
     ELSE Goto(w, "resolveName")
  /\ UNCHANGED tables

(* A request that named an unknown id goes on with its digits as a name.   *)
ResolveByName(w) ==
  LET j == job[w]
      mine == SuppliersOf(j.req.user)
      same == {s \in mine : NormalOf[supplier[s].name] = NormalOf[j.req.name]}
  IN /\ At(w, "resolveName")
     /\ \/ \E s \in same : UseSupplier(w, s, "insertProduct")
        \/ /\ same = {}
           /\ IF FlagLicensed(j.req.user, j.row) \/ Cardinality(mine) < FreeMaxSuppliers
              THEN Goto(w, "insertSupplier") ELSE Respond(w)
     /\ UNCHANGED tables

ReadLastProduct(w) ==
  LET mine == ProductsOf(job[w].req.user) IN
  /\ At(w, "lastProduct")
  /\ \/ \E p \in mine : /\ \A q \in mine : q <= p
                        /\ UseSupplier(w, product[p].supplier, "lastSupplier")
     \/ mine = {} /\ Goto(w, "firstSupplier")
  /\ UNCHANGED tables

ReadLastSupplier(w) ==
  /\ At(w, "lastSupplier")
  /\ Goto(w, IF job[w].sup.id \in DOMAIN supplier THEN "insertProduct" ELSE "firstSupplier")
  /\ UNCHANGED tables

ReadFirstSupplier(w) ==
  LET mine == SuppliersOf(job[w].req.user) IN
  /\ At(w, "firstSupplier")
  /\ \/ \E s \in mine : (\A t \in mine : s <= t) /\ UseSupplier(w, s, "insertProduct")
     \/ mine = {} /\ Goto(w, "countSuppliers")
  /\ UNCHANGED tables

CountSuppliers(w) ==
  LET j == job[w] IN
  /\ At(w, "countSuppliers")
  /\ IF FlagLicensed(j.req.user, j.row)
        \/ Cardinality(SuppliersOf(j.req.user)) < FreeMaxSuppliers
     THEN Goto(w, "insertSupplier") ELSE Respond(w)
  /\ UNCHANGED tables

----------------------------------------------------------------------------
CatalogNext(w) ==
  \/ CheckSupplierQuota(w) \/ CheckProductQuota(w) \/ CheckQuickAddQuota(w)
  \/ ReadOwners(w) \/ FindSupplier(w) \/ FindProduct(w)
  \/ CheckDuplicate(w) \/ InsertSupplier(w) \/ RenameSupplier(w)
  \/ DeleteSupplier(w) \/ DeleteArchive(w)
  \/ ReadHost(w) \/ CheckHostQuota(w) \/ InsertProduct(w) \/ MoveProduct(w)
  \/ UpdateProduct(w) \/ DeleteProduct(w) \/ ArchiveProductToday(w)
  \/ UnarchiveProduct(w)
  \/ ResolveById(w) \/ ResolveByName(w) \/ ReadLastProduct(w)
  \/ ReadLastSupplier(w) \/ ReadFirstSupplier(w) \/ CountSuppliers(w)
=============================================================================
