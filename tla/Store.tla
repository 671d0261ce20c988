------------------------------- MODULE Store -------------------------------
(***************************************************************************)
(* The SQLite tables every request handler works on (server/lib/db.js) and *)
(* the handlers' local state.                                              *)
(*                                                                         *)
(* node:sqlite is synchronous: inside one worker process a handler runs to *)
(* its end without another handler of that worker in between, and one SQL  *)
(* statement is atomic against every other process.  cluster.js runs       *)
(* several workers over one database file, so handlers of different        *)
(* workers interleave statement by statement.  A worker's handler is       *)
(* therefore a job that advances through labels, one statement a step;     *)
(* Workers with one element is `npm start` (index.js).                     *)
(*                                                                         *)
(* A table is a function from row ids to rows, its domain the ids in use.  *)
(* Ids are AUTOINCREMENT: next... only grows and a deleted id never        *)
(* returns.  Product names, quantities and prices are left out (module     *)
(* Estimate is about those); a supplier's name is kept because the         *)
(* duplicate checks compare it under two foldings.                         *)
(***************************************************************************)
EXTENDS Integers, FiniteSets

CONSTANTS
  Workers,            \* worker processes sharing the database
  Users,              \* ids of the users registered at the start
  Admins,             \* users named in ADMIN_USERNAMES
  InitialAccounts,    \* the users' rows at the start
  Names,              \* supplier names
  Unnamed,            \* the name quick-add gives a supplier it must invent
  LowerOf,            \* SQLite's lower(): folds ASCII case only
  NormalOf,           \* normalizeName(): folds spacing and letter variants too
  Days,               \* calendar days a product may be archived on
  FreeMaxSuppliers, FreeMaxProducts,   \* quota of the trial version
  MaxShares,          \* collaborators one user may have
  Requests,           \* the requests clients may send
  MaxSupplierId, MaxProductId, MaxShareId   \* bounds on the id counters

NoName == "noName"        \* a request without a supplier name
NotOrdered == "active"    \* ordered = 0, ordered_date NULL

Licences == {"free", "timed", "life", "expired"}
Accounts == [exists: BOOLEAN, licence: Licences, admin: BOOLEAN]

Operations == {"addSupplier", "editSupplier", "deleteSupplier", "deleteArchive",
               "addProduct", "editProduct", "deleteProduct", "toggleOrder",
               "unarchive", "quickAdd", "share", "unshare", "leave",
               "activate", "grant", "revoke", "deleteUser"}

(* id: the row the URL names; to: a second id (the product form's supplier *)
(* or quick-add's numeric supplier), 0 when absent; name: a supplier name. *)
RequestType == [op: Operations, user: Users, id: Nat, to: Nat,
                name: Names \cup {NoName}]

ASSUME UsersAssumption == Users \subseteq Nat \ {0} /\ Admins \subseteq Users
ASSUME NamesAssumption == Unnamed \in Names /\ NoName \notin Names
                          /\ LowerOf \in [Names -> Names]
                          /\ NormalOf \in [Names -> Names]
ASSUME FoldingAssumption ==
  \A a, b \in Names : LowerOf[a] = LowerOf[b] => NormalOf[a] = NormalOf[b]
ASSUME DaysAssumption == NotOrdered \notin Days
ASSUME QuotaAssumption == FreeMaxSuppliers \in Nat /\ FreeMaxProducts \in Nat
                          /\ MaxShares \in Nat
ASSUME RequestsAssumption == Requests \subseteq RequestType
(* quick-add has one field for its supplier: digits are a name as well.    *)
ASSUME DigitsAssumption ==
  \A r \in Requests : r.op = "quickAdd" /\ r.to # 0 => r.name # NoName
ASSUME AccountsAssumption == InitialAccounts \in [Users -> Accounts]

VARIABLES
  account,        \* users
  supplier,       \* suppliers
  product,        \* products
  share,          \* shared_access
  nextSupplier, nextProduct, nextShare,   \* sqlite_sequence
  job             \* what each worker is doing

tables == <<account, supplier, product, share,
            nextSupplier, nextProduct, nextShare>>
vars == <<account, supplier, product, share,
          nextSupplier, nextProduct, nextShare, job>>

----------------------------------------------------------------------------
(* Statements on a table. *)

EmptyTable == [i \in {} |-> i]

Inserted(table, id, row) ==
  [i \in DOMAIN table \cup {id} |-> IF i = id THEN row ELSE table[i]]

Without(table, ids) == [i \in DOMAIN table \ ids |-> table[i]]

(* DELETE FROM suppliers: ON DELETE CASCADE takes their products along. *)
DeleteSuppliers(ids) ==
  /\ supplier' = Without(supplier, ids)
  /\ product' = Without(product, {p \in DOMAIN product : product[p].supplier \in ids})

SuppliersOf(owner) == {s \in DOMAIN supplier : supplier[s].owner = owner}
ProductsOf(owner)  == {p \in DOMAIN product : product[p].owner = owner}
SharesOf(owner)    == {h \in DOMAIN share : share[h].owner = owner}

----------------------------------------------------------------------------
(* Licence state as the two readers of it see it. *)

(* isAdminUser *)
IsAdmin(u, row) == row.admin \/ u \in Admins

(* getUserLimits().is_licensed: an expired licence is none *)
InForce(u, row) == IsAdmin(u, row) \/ row.licence \in {"timed", "life"}

(* token.js userLicensed: the is_licensed column alone, which expiry leaves *)
FlagLicensed(u, row) == IsAdmin(u, row) \/ row.licence # "free"

MayAddSupplier(u, row) == InForce(u, row) \/ Cardinality(SuppliersOf(u)) < FreeMaxSuppliers

(* Faulty variant: the count may still reach the quota plus one. *)
MayAddProductOffByOne(u, row) ==
  InForce(u, row) \/ Cardinality(ProductsOf(u)) <= FreeMaxProducts

MayAddProduct(u, row) == InForce(u, row) \/ Cardinality(ProductsOf(u)) < FreeMaxProducts

----------------------------------------------------------------------------
(* A worker's handler.  row: the user row it last read; owners: the result *)
(* of accessibleOwnerIds; sup: the supplier row it last read; found: the   *)
(* id of the product or share row it last read.                            *)

Labels == {"supplierQuota", "productQuota", "quickAddQuota",
           "duplicate", "insertSupplier", "owners", "supplier",
           "product", "host", "hostQuota", "renameSupplier", "deleteSupplier",
           "deleteArchive", "insertProduct", "moveProduct", "updateProduct",
           "deleteProduct", "archive", "unarchive", "resolveId", "resolveName",
           "lastProduct", "lastSupplier", "firstSupplier", "countSuppliers",
           "target", "existing", "countShares", "insertShare", "shareById",
           "shareByUser", "ownShare", "deleteShare", "activate", "readUser",
           "grant", "revoke", "unadmin", "purgeShares", "purgeProducts",
           "purgeSuppliers", "purgeUser"}

Idle == [pc |-> "idle"]

NoSupplier(u) == [id |-> 0, owner |-> u]

Jobs == [pc: Labels, req: RequestType, row: Accounts, owners: SUBSET Users,
         sup: [id: Nat, owner: Users], found: Nat]

FirstLabel(op) ==
  CASE op = "addSupplier" -> "supplierQuota"
    [] op = "addProduct" -> "productQuota"
    [] op = "quickAdd" -> "quickAddQuota"
    [] op \in {"editSupplier", "deleteSupplier", "deleteArchive", "editProduct",
               "deleteProduct", "toggleOrder", "unarchive"} -> "owners"
    [] op = "share" -> "target"
    [] op = "unshare" -> "shareById"
    [] op = "leave" -> "ownShare"
    [] op = "activate" -> "activate"
    [] op \in {"grant", "revoke", "deleteUser"} -> "readUser"

(* The counters a request may draw an id from, at most one of each. *)
Draws(op) ==
  CASE op = "addSupplier" -> {"supplier"}
    [] op = "addProduct" -> {"product"}
    [] op = "quickAdd" -> {"supplier", "product"}
    [] op = "share" -> {"share"}
    [] OTHER -> {}

(* Bound: a request is accepted only while there is an id for it and for   *)
(* all those in flight.                                                    *)
RoomFor(op) ==
  LET InFlight(c) == Cardinality({w \in Workers : job[w] # Idle /\ c \in Draws(job[w].req.op)})
  IN \A c \in Draws(op) :
       CASE c = "supplier" -> nextSupplier + InFlight(c) <= MaxSupplierId
         [] c = "product" -> nextProduct + InFlight(c) <= MaxProductId
         [] c = "share" -> nextShare + InFlight(c) <= MaxShareId

(* attachUser and requireAuth (or getUserByToken): the request gets the    *)
(* user row as it is now and keeps it to its end; /api/admin asks for an   *)
(* administrator.                                                          *)
Begin(w) ==
  /\ job[w] = Idle
  /\ \E r \in Requests :
       /\ RoomFor(r.op)
       /\ account[r.user].exists
       /\ r.op \in {"grant", "revoke", "deleteUser"} => IsAdmin(r.user, account[r.user])
       /\ job' = [job EXCEPT ![w] =
                    [pc |-> FirstLabel(r.op), req |-> r, row |-> account[r.user],
                     owners |-> {}, sup |-> NoSupplier(r.user), found |-> 0]]
  /\ UNCHANGED tables

At(w, label) == job[w].pc = label

Goto(w, label) == job' = [job EXCEPT ![w] = [@ EXCEPT !.pc = label]]

(* The response is sent: the result, a refusal, or a 500 from a failed     *)
(* statement; nothing is rolled back.                                      *)
Respond(w) == job' = [job EXCEPT ![w] = Idle]

Init ==
  /\ account = InitialAccounts
  /\ supplier = EmptyTable /\ product = EmptyTable /\ share = EmptyTable
  /\ nextSupplier = 1 /\ nextProduct = 1 /\ nextShare = 1
  /\ job = [w \in Workers |-> Idle]
=============================================================================
