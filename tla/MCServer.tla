------------------------------ MODULE MCServer ------------------------------
(***************************************************************************)
(* Small instances of Server: two users, a few suppliers and products, and *)
(* the requests each run lets clients send.                                *)
(***************************************************************************)
EXTENDS Server, TLC

CONSTANTS w1, w2

OneWorker == {w1}
TwoWorkers == {w1, w2}
Symmetry == Permutations(TwoWorkers)

TwoUsers == {1, 2}

(* Three spellings: the first two differ in ASCII case, the third in a     *)
(* letter only normalizeName() folds. *)
MCNames == {"ali", "ALI", "aly"}
MCLowerOf == [n \in MCNames |-> IF n = "ALI" THEN "ali" ELSE n]
MCNormalOf == [n \in MCNames |-> "ali"]

Account(licence, admin) == [exists |-> TRUE, licence |-> licence, admin |-> admin]
LicensedAndAdmin == [u \in TwoUsers |-> Account("life", u = 2)]

Req(op, u, id, to, name) == [op |-> op, user |-> u, id |-> id, to |-> to, name |-> name]

Supplier(u, ids) ==
  {Req("addSupplier", u, 0, 0, n) : n \in MCNames}
  \cup {Req("editSupplier", u, i, 0, n) : i \in ids, n \in MCNames}
  \cup {Req("deleteSupplier", u, i, 0, NoName) : i \in ids}
Product(u, sids, pids) ==
  {Req("addProduct", u, 0, s, NoName) : s \in sids}
  \cup {Req(op, u, p, 0, NoName) : op \in {"deleteProduct"}, p \in pids}
Archive(u, sids, pids) ==
  {Req(op, u, p, 0, NoName) : op \in {"toggleOrder", "unarchive"}, p \in pids}
  \cup {Req("deleteArchive", u, s, 0, NoName) : s \in sids}
Move(u, sids, pids) ==
  {Req("editProduct", u, p, s, NoName) : p \in pids, s \in sids \cup {0}}
QuickAdd(u, sids) ==
  {Req("quickAdd", u, 0, 0, n) : n \in MCNames \cup {NoName}}
  \cup {Req("quickAdd", u, 0, s, "aly") : s \in sids}
Share(u, v, hids) ==
  {Req("share", u, v, 0, NoName), Req("leave", v, u, 0, NoName)}
  \cup {Req("unshare", u, h, 0, NoName) : h \in hids}

(* Trial user 1 shares with administrator 2, who grants and revokes his    *)
(* licence, adds products to his suppliers and, having no quota himself,   *)
(* names suppliers through every handler that can; he also activates a     *)
(* licence himself.  User 3 only receives.                                 *)
ThreeUsers == {1, 2, 3}
ThreeAccounts == [u \in ThreeUsers |-> Account("free", u = 2)]
OneWorkerRequests ==
  {Req("addSupplier", 1, 0, 0, n) : n \in {"ali", "ALI"}}
  \cup {Req("deleteSupplier", 1, 1, 0, NoName), Req("deleteSupplier", 2, 1, 0, NoName)}
  \cup Product(1, {1}, {1}) \cup Product(2, {1, 2}, {2})
  \cup Supplier(2, {2}) \cup QuickAdd(2, {2})
  \cup {Req("quickAdd", 1, 0, 0, NoName), Req("quickAdd", 1, 0, 2, "aly")}
  \cup Share(1, 2, {1, 2}) \cup {Req("share", 1, 3, 0, NoName), Req("share", 1, 1, 0, NoName)}
  \cup {Req(op, 2, 1, 0, NoName) : op \in {"grant", "revoke"}}
  \cup {Req("activate", 1, 0, 0, NoName)}

(* Two users with access to each other's suppliers, from two workers. *)
RaceRequests ==
  {Req("addSupplier", u, 0, 0, "ali") : u \in TwoUsers}
  \cup {Req("deleteSupplier", 1, 1, 0, NoName)}
  \cup {Req("editSupplier", 2, 1, 0, "aly")}
  \cup {Req("addProduct", 2, 0, 1, NoName)}
  \cup {Req("editProduct", 1, 1, 2, NoName), Req("editProduct", 2, 1, 1, NoName)}
  \cup {Req("quickAdd", 1, 0, 0, NoName), Req("quickAdd", 1, 0, 1, "aly")}
  \cup Archive(1, {1}, {1})
  \cup {Req("share", 1, 2, 0, NoName), Req("share", 2, 1, 0, NoName)}

(* Administrator 2 removes user 1 while his requests and shares go on. *)
DeleteRequests ==
  {Req("addSupplier", 1, 0, 0, "ali"), Req("addProduct", 1, 0, 1, NoName),
   Req("quickAdd", 1, 0, 0, NoName), Req("addProduct", 2, 0, 1, NoName),
   Req("editProduct", 2, 1, 2, NoName), Req("addSupplier", 2, 0, 0, "ali"),
   Req("deleteUser", 2, 1, 0, NoName)}
  \cup Share(1, 2, {1}) \cup Share(2, 1, {1})

TwoWorkerRequests == RaceRequests \cup DeleteRequests
=============================================================================
