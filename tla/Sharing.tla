------------------------------ MODULE Sharing ------------------------------
(***************************************************************************)
(* The handlers that change who may see whose data, and who is licensed:   *)
(* sharing and licence activation (server/routes/account.js), granting and *)
(* revoking licences and deleting users (server/routes/admin.js).          *)
(***************************************************************************)
EXTENDS Store

(* Sharing my data with the user a name resolves to. *)
FindTarget(w) ==
  LET j == job[w] IN
  /\ At(w, "target")
  /\ IF j.req.id # j.req.user /\ j.req.id \in Users /\ account[j.req.id].exists
     THEN Goto(w, "existing") ELSE Respond(w)
  /\ UNCHANGED tables

SharedWith(owner, u) == {h \in SharesOf(owner) : share[h].with = u}

CheckExistingShare(w) ==
  LET j == job[w] IN
  /\ At(w, "existing")
  /\ IF SharedWith(j.req.user, j.req.id) # {} THEN Respond(w) ELSE Goto(w, "countShares")
  /\ UNCHANGED tables

(* Faulty variant: one collaborator too many. *)
CountSharesOffByOne(w) ==
  /\ At(w, "countShares")
  /\ IF Cardinality(SharesOf(job[w].req.user)) > MaxShares THEN Respond(w)
     ELSE Goto(w, "insertShare")
  /\ UNCHANGED tables

CountShares(w) ==
  /\ At(w, "countShares")
  /\ IF Cardinality(SharesOf(job[w].req.user)) >= MaxShares THEN Respond(w)
     ELSE Goto(w, "insertShare")
  /\ UNCHANGED tables

(* Faulty variant: the lowest free id is given again. *)
InsertShareReusingIds(w) ==
  LET j == job[w]
      free == CHOOSE h \in 1..nextShare : /\ h \notin DOMAIN share
                                          /\ \A i \in 1..(h - 1) : i \in DOMAIN share
  IN /\ At(w, "insertShare")
     /\ share' = IF SharedWith(j.req.user, j.req.id) = {}
                 THEN Inserted(share, free, [owner |-> j.req.user, with |-> j.req.id])
                 ELSE share
     /\ nextShare' = IF free = nextShare THEN nextShare + 1 ELSE nextShare
     /\ Respond(w)
     /\ UNCHANGED <<account, supplier, product, nextSupplier, nextProduct>>

(* UNIQUE(owner_id, shared_with_id) and both foreign keys. *)
InsertShare(w) ==
  LET j == job[w] IN
  /\ At(w, "insertShare")
  /\ IF /\ account[j.req.user].exists /\ account[j.req.id].exists
        /\ SharedWith(j.req.user, j.req.id) = {}
     THEN /\ share' = Inserted(share, nextShare, [owner |-> j.req.user, with |-> j.req.id])
          /\ nextShare' = nextShare + 1
     ELSE UNCHANGED <<share, nextShare>>
  /\ Respond(w)
  /\ UNCHANGED <<account, supplier, product, nextSupplier, nextProduct>>

(* Ending a share of mine: the id is taken for a share's id first, then    *)
(* for a collaborator's user id.                                           *)
FindShareById(w) ==
  LET j == job[w] IN
  /\ At(w, "shareById")
  /\ IF j.req.id \in SharesOf(j.req.user)
     THEN job' = [job EXCEPT ![w] = [@ EXCEPT !.found = j.req.id, !.pc = "deleteShare"]]
     ELSE Goto(w, "shareByUser")
  /\ UNCHANGED tables

(* The share a SELECT on (owner, shared with) finds, or a 404. *)
TakeShare(w, owner, u) ==
  \/ \E h \in SharedWith(owner, u) :
       job' = [job EXCEPT ![w] = [@ EXCEPT !.found = h, !.pc = "deleteShare"]]
  \/ SharedWith(owner, u) = {} /\ Respond(w)

FindShareByUser(w) ==
  /\ At(w, "shareByUser")
  /\ TakeShare(w, job[w].req.user, job[w].req.id)
  /\ UNCHANGED tables

(* Leaving somebody else's data. *)
FindShareWithMe(w) ==
  /\ At(w, "ownShare")
  /\ TakeShare(w, job[w].req.id, job[w].req.user)
  /\ UNCHANGED tables

DeleteShare(w) ==
  /\ At(w, "deleteShare")
  /\ share' = Without(share, {job[w].found})
  /\ Respond(w)
  /\ UNCHANGED <<account, supplier, product, nextSupplier, nextProduct, nextShare>>

----------------------------------------------------------------------------
(* Licences.  Which keys verify, and for how long, is not part of this     *)
(* module: a key or a grant is for a period or for life.                   *)

SetAccount(u, row) ==
  /\ account' = IF account[u].exists THEN [account EXCEPT ![u] = row] ELSE account
  /\ UNCHANGED <<supplier, product, share, nextSupplier, nextProduct, nextShare>>

SetLicence(u, licence) == SetAccount(u, [account[u] EXCEPT !.licence = licence])

ActivateLicence(w) ==
  /\ At(w, "activate")
  /\ \E period \in {"timed", "life"} : SetLicence(job[w].req.user, period)
  /\ Respond(w)

(* The clock passes license_expires_at; is_licensed stays 1.  Handlers     *)
(* compare the date in the row they hold with the clock when they use it,  *)
(* so the rows they hold expire too.                                       *)
HoldsRowOf(j, u) == u = IF j.pc = "hostQuota" THEN j.sup.owner ELSE j.req.user

LicenceExpires(u) ==
  /\ account[u].licence = "timed"
  /\ SetLicence(u, "expired")
  /\ job' = [w \in Workers |->
       IF job[w] # Idle /\ HoldsRowOf(job[w], u) /\ job[w].row.licence = "timed"
       THEN [job[w] EXCEPT !.row = [@ EXCEPT !.licence = "expired"]]
       ELSE job[w]]

(* targetUser, then the refusals of the three admin handlers. *)
FindUser(w) ==
  LET j == job[w]
      u == j.req.id
      refused == \/ u \notin Users
                 \/ ~account[u].exists
                 \/ j.req.op # "grant" /\ u \in Admins
                 \/ j.req.op = "deleteUser" /\ u = j.req.user
      next == CASE j.req.op = "grant"  -> "grant"
                [] j.req.op = "revoke" -> "revoke"
                [] OTHER -> "purgeShares"
  IN /\ At(w, "readUser")
     /\ IF refused THEN Respond(w) ELSE Goto(w, next)
     /\ UNCHANGED tables

GrantLicence(w) ==
  /\ At(w, "grant")
  /\ \E period \in {"timed", "life"} : SetLicence(job[w].req.id, period)
  /\ Respond(w)

RevokeLicence(w) ==
  LET j == job[w] IN
  /\ At(w, "revoke")
  /\ SetLicence(j.req.id, "free")
  /\ IF j.req.id = j.req.user THEN Respond(w) ELSE Goto(w, "unadmin")

RevokeAdmin(w) ==
  LET u == job[w].req.id IN
  /\ At(w, "unadmin")
  /\ SetAccount(u, [account[u] EXCEPT !.admin = FALSE])
  /\ Respond(w)

----------------------------------------------------------------------------
(* Deleting a user: four DELETEs, each a statement of its own. *)

PurgeShares(w) ==
  LET u == job[w].req.id IN
  /\ At(w, "purgeShares")
  /\ share' = Without(share, {h \in DOMAIN share : u \in {share[h].owner, share[h].with}})
  /\ Goto(w, "purgeProducts")
  /\ UNCHANGED <<account, supplier, product, nextSupplier, nextProduct, nextShare>>

PurgeProducts(w) ==
  /\ At(w, "purgeProducts")
  /\ product' = Without(product, ProductsOf(job[w].req.id))
  /\ Goto(w, "purgeSuppliers")
  /\ UNCHANGED <<account, supplier, share, nextSupplier, nextProduct, nextShare>>

PurgeSuppliers(w) ==
  /\ At(w, "purgeSuppliers")
  /\ DeleteSuppliers(SuppliersOf(job[w].req.id))
  /\ Goto(w, "purgeUser")
  /\ UNCHANGED <<account, share, nextSupplier, nextProduct, nextShare>>

(* Faulty variant: a schema without ON DELETE CASCADE. *)
PurgeUserAlone(w) ==
  /\ At(w, "purgeUser")
  /\ account' = [account EXCEPT ![job[w].req.id] =
                   [exists |-> FALSE, licence |-> "free", admin |-> FALSE]]
  /\ Respond(w)
  /\ UNCHANGED <<supplier, product, share, nextSupplier, nextProduct, nextShare>>

(* ON DELETE CASCADE removes what other workers inserted in between. *)
PurgeUser(w) ==
  LET u == job[w].req.id
      gone == SuppliersOf(u)
  IN /\ At(w, "purgeUser")
     /\ account' = [account EXCEPT ![u] =
                      [exists |-> FALSE, licence |-> "free", admin |-> FALSE]]
     /\ supplier' = Without(supplier, gone)
     /\ product' = Without(product, {p \in DOMAIN product :
                      product[p].owner = u \/ product[p].supplier \in gone})
     /\ share' = Without(share, {h \in DOMAIN share :
                      u \in {share[h].owner, share[h].with}})
     /\ Respond(w)
     /\ UNCHANGED <<nextSupplier, nextProduct, nextShare>>

----------------------------------------------------------------------------
SharingNext(w) ==
  \/ FindTarget(w) \/ CheckExistingShare(w) \/ CountShares(w) \/ InsertShare(w)
  \/ FindShareById(w) \/ FindShareByUser(w) \/ FindShareWithMe(w) \/ DeleteShare(w)
  \/ ActivateLicence(w) \/ FindUser(w) \/ GrantLicence(w) \/ RevokeLicence(w)
  \/ RevokeAdmin(w)
  \/ PurgeShares(w) \/ PurgeProducts(w) \/ PurgeSuppliers(w) \/ PurgeUser(w)
=============================================================================
