---------------------------- MODULE ServerProofs ----------------------------
(***************************************************************************)
(* For any number of workers, users and requests: no foreign key dangles,  *)
(* every product belongs to the owner of its supplier, and whoever ends a  *)
(* share ends one of his own.                                              *)
(*                                                                         *)
(* The invariant is inductive with what the workers remember: a handler    *)
(* writes a product with the supplier it read some statements ago, so the  *)
(* proof needs that the remembered owner is still the supplier's, if the   *)
(* supplier is still there (MemoryOK), and that rests on ids never coming  *)
(* back (KeepsOwner).  Each action has one lemma, in three parts: what it  *)
(* does to the tables, that it keeps owners, and which job it leaves.      *)
(***************************************************************************)
EXTENDS Server, FiniteSetTheorems, TLAPS

(* The part of IInv about the tables, and the part about the jobs. *)
TablesOK ==
  /\ account \in [Users -> Accounts]
  /\ IsTable(supplier, SupplierRows, nextSupplier)
  /\ IsTable(product, ProductRows, nextProduct)
  /\ IsTable(share, ShareRows, nextShare)
  /\ ReferencesOK
  /\ OwnerConsistent

JobsOK == job \in [Workers -> {Idle} \cup Jobs] /\ MemoryOK

(* A job a worker may turn to: none, or a well-formed one whose memory is  *)
(* right about the given table of suppliers.                               *)
MayBecome(j, suppliers, next) ==
  j = Idle \/ (j \in Jobs /\ GoodJob(j, suppliers, next))

(* Labels reached only after a check of the request. *)
Checked == KnowsUser \cup {"renameSupplier"}

(* What every action owes. *)
Preserved == TablesOK' /\ KeepsOwner /\ JobsOK'

(* The invariant splits into its tables and its jobs. *)
LEMMA IInvParts == IInv <=> TablesOK /\ JobsOK
  BY DEF IInv, TypeOK, TablesOK, JobsOK

(* What a worker remembers survives every step that keeps owners.          *)
LEMMA MemorySurvives ==
  ASSUME NEW j \in Jobs, GoodJob(j, supplier, nextSupplier), TablesOK, TablesOK',
         KeepsOwner
  PROVE  GoodJob(j, supplier', nextSupplier')
  BY DEF GoodJob, KeepsOwner, TablesOK, IsTable, Jobs

(* A step of worker w on tables that stay well-formed keeps all jobs right *)
(* if the job it turns to is.                                              *)
LEMMA JobStep ==
  ASSUME TablesOK, TablesOK', JobsOK, KeepsOwner, NEW w \in Workers, NEW n,
         job' = [job EXCEPT ![w] = n], MayBecome(n, supplier', nextSupplier')
  PROVE  JobsOK'
<1>1. job' \in [Workers -> {Idle} \cup Jobs]
  BY DEF JobsOK, MayBecome
<1>2. ASSUME NEW v \in Workers, job'[v].pc # "idle"
      PROVE  GoodJob(job'[v], supplier', nextSupplier')
  <2>1. CASE v = w
    BY <1>2, <2>1 DEF MayBecome, Idle, JobsOK
  <2>2. CASE v # w
    <3>1. job'[v] = job[v]
      BY <2>2 DEF JobsOK
    <3>2. job[v] \in Jobs /\ GoodJob(job[v], supplier, nextSupplier)
      BY <1>2, <3>1 DEF JobsOK, MemoryOK, Idle
    <3>3. QED
      BY <3>1, <3>2, MemorySurvives
  <2>3. QED
    BY <2>1, <2>2
<1>3. QED
  BY <1>1, <1>2 DEF JobsOK, MemoryOK

(* A worker at a label has a job, and remembers rightly.                   *)
LEMMA AtLabel ==
  ASSUME JobsOK, NEW w \in Workers, NEW label \in Labels, At(w, label)
  PROVE  job[w] \in Jobs /\ GoodJob(job[w], supplier, nextSupplier)
<1>1. label # "idle"
  BY DEF Labels
<1>2. QED
  BY <1>1 DEF JobsOK, MemoryOK, At, Idle

(* A statement that only reads keeps the tables right. *)
LEMMA ReadOnly ==
  ASSUME TablesOK, UNCHANGED tables
  PROVE  TablesOK' /\ KeepsOwner
<1>1. TablesOK'
  BY DEF TablesOK, tables, IsTable, ReferencesOK, OwnerConsistent
<1>2. KeepsOwner
  BY DEF TablesOK, IsTable, KeepsOwner, tables
<1>3. QED
  BY <1>1, <1>2

----------------------------------------------------------------------------
(* The ways a handler leaves its job. *)

(* Answering the request leaves a right job: none. *)
LEMMA RespondStep ==
  ASSUME TablesOK, TablesOK', JobsOK, KeepsOwner, NEW w \in Workers, Respond(w)
  PROVE  JobsOK'
  BY JobStep DEF MayBecome, Respond

(* Going on to a label the request has been checked for. *)
LEMMA GotoStep ==
  ASSUME TablesOK, TablesOK', JobsOK, KeepsOwner, NEW w \in Workers,
         NEW label \in Labels, At(w, label), NEW next \in Labels, Goto(w, next),
         next \in KnowsUser => job[w].req.id \in Users,
         next = "renameSupplier" => job[w].req.name \in Names,
         job[w].req.op = "quickAdd" => next \in QuickAddLabels
  PROVE  JobsOK'
<1> DEFINE n == [job[w] EXCEPT !.pc = next]
<1>1. job[w] \in Jobs /\ GoodJob(job[w], supplier', nextSupplier')
  BY AtLabel, MemorySurvives
<1>2. n \in Jobs
  BY <1>1 DEF Jobs
<1>3. GoodJob(n, supplier', nextSupplier')
  BY <1>1 DEF GoodJob, Jobs
<1>4. job' = [job EXCEPT ![w] = n]
  BY DEF Goto, JobsOK
<1>5. MayBecome(n, supplier', nextSupplier')
  BY <1>2, <1>3 DEF MayBecome
<1>6. QED
  BY <1>4, <1>5, JobStep

(* Remembering a supplier the caller read. *)
LEMMA SupplierJobStep ==
  ASSUME TablesOK, TablesOK', JobsOK, KeepsOwner, NEW w \in Workers,
         NEW label \in Labels, At(w, label), NEW next \in Labels \ Checked,
         NEW s \in Nat, NEW u \in Users, s < nextSupplier',
         s \in DOMAIN supplier' => supplier'[s].owner = u,
         job[w].req.op = "quickAdd" => u = job[w].req.user /\ next \in QuickAddLabels,
         job' = [job EXCEPT ![w] =
                   [@ EXCEPT !.sup = [id |-> s, owner |-> u], !.pc = next]]
  PROVE  JobsOK'
<1> DEFINE n == [job[w] EXCEPT !.sup = [id |-> s, owner |-> u], !.pc = next]
<1>1. job[w] \in Jobs
  BY AtLabel
<1>2. n \in Jobs
  BY <1>1 DEF Jobs
<1>3. GoodJob(n, supplier', nextSupplier')
  BY <1>1 DEF GoodJob, Checked, Jobs
<1>4. job' = [job EXCEPT ![w] = n]
  BY DEF JobsOK
<1>5. MayBecome(n, supplier', nextSupplier')
  BY <1>2, <1>3 DEF MayBecome
<1>6. QED
  BY <1>4, <1>5, JobStep

(* Remembering anything else: the request and the supplier stay. *)
LEMMA OtherJobStep ==
  ASSUME TablesOK, TablesOK', JobsOK, KeepsOwner, NEW w \in Workers,
         NEW label \in Labels, At(w, label), NEW n \in Jobs,
         n.req = job[w].req, n.sup = job[w].sup, n.pc \notin Checked,
         n.req.op # "quickAdd",
         job' = [job EXCEPT ![w] = n]
  PROVE  JobsOK'
<1>1. job[w] \in Jobs /\ GoodJob(job[w], supplier', nextSupplier')
  BY AtLabel, MemorySurvives
<1>2. GoodJob(n, supplier', nextSupplier')
  BY <1>1 DEF GoodJob, Checked
<1>3. MayBecome(n, supplier', nextSupplier')
  BY <1>2 DEF MayBecome
<1>4. QED
  BY <1>3, JobStep

----------------------------------------------------------------------------
(* The reads: suppliers and products. *)

(* attachUser starts a job that remembers nothing yet. *)
LEMMA BeginStep ==
  ASSUME TablesOK, JobsOK, NEW w \in Workers, Begin(w)
  PROVE  Preserved
<1>1. TablesOK' /\ KeepsOwner
  BY ReadOnly DEF Begin
<1>2. PICK r \in Requests :
         /\ account[r.user].exists
         /\ job' = [job EXCEPT ![w] =
              [pc |-> FirstLabel(r.op), req |-> r, row |-> account[r.user],
               owners |-> {}, sup |-> NoSupplier(r.user), found |-> 0]]
  BY DEF Begin
<1> DEFINE n == [pc |-> FirstLabel(r.op), req |-> r, row |-> account[r.user],
                 owners |-> {}, sup |-> NoSupplier(r.user), found |-> 0]
<1>3. r \in RequestType
  BY RequestsAssumption
<1>4. FirstLabel(r.op) \in Labels \ Checked
  BY <1>3 DEF FirstLabel, RequestType, Operations, Labels, KnowsUser, Checked
<1>5. n \in Jobs
  BY <1>3, <1>4 DEF Jobs, RequestType, NoSupplier, TablesOK
<1>6. nextSupplier' > 0 /\ 0 \notin DOMAIN supplier'
  <2>1. nextSupplier \in Nat \ {0} /\ DOMAIN supplier \subseteq 1..(nextSupplier - 1)
    BY DEF TablesOK, IsTable
  <2>2. QED
    BY <2>1 DEF Begin, tables
<1>7. GoodJob(n, supplier', nextSupplier')
  BY <1>4, <1>6 DEF GoodJob, Checked, NoSupplier, FirstLabel, QuickAddLabels
<1>8. MayBecome(n, supplier', nextSupplier')
  BY <1>5, <1>7 DEF MayBecome
<1>9. QED
  BY <1>1, <1>2, <1>8, JobStep DEF Preserved

(* The quota checks read only. *)
LEMMA CheckQuotaStep ==
  ASSUME TablesOK, JobsOK, NEW w \in Workers,
         CheckSupplierQuota(w) \/ CheckProductQuota(w) \/ CheckQuickAddQuota(w)
  PROVE  Preserved
<1>1. TablesOK' /\ KeepsOwner
  BY ReadOnly DEF CheckSupplierQuota, CheckProductQuota, CheckQuickAddQuota
<1>2. CASE Respond(w)
  BY <1>1, <1>2, RespondStep DEF Preserved
<1>3. CASE At(w, "supplierQuota") /\ Goto(w, "duplicate")
  <2>1. job[w].req.op # "quickAdd"
    BY <1>3, AtLabel DEF Labels, GoodJob, QuickAddLabels, At
  <2>2. QED
    BY <1>1, <1>3, <2>1, GotoStep DEF Labels, KnowsUser, Preserved
<1>4. CASE At(w, "productQuota") /\ Goto(w, "owners")
  <2>1. job[w].req.op # "quickAdd"
    BY <1>4, AtLabel DEF Labels, GoodJob, QuickAddLabels, At
  <2>2. QED
    BY <1>1, <1>4, <2>1, GotoStep DEF Labels, KnowsUser, Preserved
<1>5. CASE /\ At(w, "quickAddQuota")
           /\ \E next \in {"resolveId", "resolveName", "lastProduct"} : Goto(w, next)
  BY <1>1, <1>5, GotoStep DEF Labels, KnowsUser, QuickAddLabels, Preserved
<1>6. QED
  BY <1>2, <1>3, <1>4, <1>5
     DEF CheckSupplierQuota, CheckProductQuota, CheckQuickAddQuota, Proceed

(* accessibleOwnerIds reads only. *)
LEMMA ReadOwnersStep ==
  ASSUME TablesOK, JobsOK, NEW w \in Workers, ReadOwners(w)
  PROVE  Preserved
<1>1. TablesOK' /\ KeepsOwner
  BY ReadOnly DEF ReadOwners
<1>2. PICK owners, label :
        /\ owners \in SUBSET Users
        /\ label \in {"product", "supplier"}
        /\ job' = [job EXCEPT ![w] = [job[w] EXCEPT !.owners = owners, !.pc = label]]
  <2>1. job[w] \in Jobs
    BY AtLabel DEF ReadOwners, Labels
  <2>2. {job[w].req.user} \cup
        {share[h].owner : h \in {h \in DOMAIN share : share[h].with = job[w].req.user}}
          \in SUBSET Users
    BY <2>1 DEF Jobs, RequestType, TablesOK, IsTable, ShareRows
  <2>3. QED
    BY <2>2 DEF ReadOwners
<1> DEFINE n == [job[w] EXCEPT !.owners = owners, !.pc = label]
<1>3. job[w] \in Jobs
  BY AtLabel DEF ReadOwners, Labels
<1>4. n \in Jobs /\ n.req = job[w].req /\ n.sup = job[w].sup /\ n.pc \notin Checked
  BY <1>2, <1>3 DEF Jobs, Labels, KnowsUser, Checked
<1>5. n.req.op # "quickAdd"
  BY <1>4, AtLabel DEF ReadOwners, GoodJob, QuickAddLabels, At, Labels
<1>6. QED
  BY <1>1, <1>2, <1>4, <1>5, OtherJobStep DEF ReadOwners, Labels, Preserved

(* A handler remembers the supplier as the table has it. *)
LEMMA FindSupplierStep ==
  ASSUME TablesOK, JobsOK, NEW w \in Workers, FindSupplier(w)
  PROVE  Preserved
<1>1. TablesOK' /\ KeepsOwner
  BY ReadOnly DEF FindSupplier
<1>2. job[w].req.op # "quickAdd"
  BY AtLabel DEF FindSupplier, GoodJob, QuickAddLabels, At, Labels
<1>3. CASE Respond(w)
  BY <1>1, <1>3, RespondStep DEF Preserved
<1>4. CASE Goto(w, "updateProduct")
  BY <1>1, <1>2, <1>4, GotoStep DEF FindSupplier, Labels, KnowsUser, Checked, Preserved
<1>5. ASSUME NEW s \in DOMAIN supplier, NEW next \in Labels \ Checked,
             job' = [job EXCEPT ![w] =
               [@ EXCEPT !.sup = [id |-> s, owner |-> supplier[s].owner], !.pc = next]]
      PROVE  Preserved
  <2>1. s \in Nat /\ s < nextSupplier' /\ supplier' = supplier /\ supplier[s].owner \in Users
    BY DEF TablesOK, IsTable, SupplierRows, FindSupplier, tables
  <2>2. QED
    BY <1>1, <1>2, <1>5, <2>1, SupplierJobStep DEF FindSupplier, Labels, Preserved
<1>6. QED
  <2> DEFINE s == IF job[w].req.op \in {"addProduct", "editProduct"} THEN job[w].req.to
                  ELSE job[w].req.id
             next == CASE job[w].req.op = "editSupplier"   -> "duplicate"
                       [] job[w].req.op = "deleteSupplier" -> "deleteSupplier"
                       [] job[w].req.op = "deleteArchive"  -> "deleteArchive"
                       [] job[w].req.op = "editProduct"    -> "moveProduct"
                       [] OTHER -> IF supplier[s].owner # job[w].req.user THEN "host"
                                   ELSE "insertProduct"
  <2>1. next \in Labels \ Checked
    BY DEF Labels, KnowsUser, Checked
  <2>2. CASE s \in DOMAIN supplier /\ supplier[s].owner \in job[w].owners
    BY <1>5, <2>1, <2>2 DEF FindSupplier
  <2>3. CASE ~(s \in DOMAIN supplier /\ supplier[s].owner \in job[w].owners)
    BY <1>3, <1>4, <2>3 DEF FindSupplier
  <2>4. QED
    BY <2>2, <2>3

(* ownedProduct reads only. *)
LEMMA FindProductStep ==
  ASSUME TablesOK, JobsOK, NEW w \in Workers, FindProduct(w)
  PROVE  Preserved
<1>1. TablesOK' /\ KeepsOwner
  BY ReadOnly DEF FindProduct
<1>2. job[w] \in Jobs /\ job[w].req.op # "quickAdd"
  BY AtLabel DEF FindProduct, GoodJob, QuickAddLabels, At, Labels
<1>3. CASE Respond(w)
  BY <1>1, <1>3, RespondStep DEF Preserved
<1>4. ASSUME NEW next \in Labels \ Checked,
             job' = [job EXCEPT ![w] = [@ EXCEPT !.found = job[w].req.id, !.pc = next]]
      PROVE  Preserved
  <2> DEFINE n == [job[w] EXCEPT !.found = job[w].req.id, !.pc = next]
  <2>1. n \in Jobs /\ n.req = job[w].req /\ n.sup = job[w].sup /\ n.pc = next
    BY <1>2 DEF Jobs, RequestType
  <2>2. QED
    BY <1>1, <1>2, <1>4, <2>1, OtherJobStep DEF FindProduct, Labels, Preserved
<1>5. QED
  <2> DEFINE next == CASE job[w].req.op = "editProduct" ->
                            IF job[w].req.to # 0 THEN "owners" ELSE "updateProduct"
                       [] job[w].req.op = "deleteProduct" -> "deleteProduct"
                       [] job[w].req.op = "toggleOrder"   -> "archive"
                       [] OTHER -> "unarchive"
  <2>1. next \in Labels \ Checked
    BY DEF Labels, KnowsUser, Checked
  <2>2. QED
    BY <1>3, <1>4, <2>1 DEF FindProduct

(* Only a request with a name goes on to write it. *)
LEMMA CheckDuplicateStep ==
  ASSUME TablesOK, JobsOK, NEW w \in Workers, CheckDuplicate(w)
  PROVE  Preserved
<1>1. TablesOK' /\ KeepsOwner
  BY ReadOnly DEF CheckDuplicate
<1>2. job[w] \in Jobs /\ job[w].req.op # "quickAdd"
  BY AtLabel DEF CheckDuplicate, GoodJob, QuickAddLabels, At, Labels
<1>3. CASE Respond(w)
  BY <1>1, <1>3, RespondStep DEF Preserved
<1>4. CASE /\ \E next \in {"insertSupplier", "renameSupplier"} : Goto(w, next)
           /\ job[w].req.name \in Names
  <2>1. At(w, "duplicate") /\ "duplicate" \in Labels
    BY DEF CheckDuplicate, Labels
  <2>2. PICK next \in {"insertSupplier", "renameSupplier"} : Goto(w, next)
    BY <1>4
  <2>3. next \in Labels /\ next \notin KnowsUser
    BY DEF Labels, KnowsUser
  <2>4. QED
    BY <1>1, <1>2, <1>4, <2>1, <2>2, <2>3, GotoStep DEF Preserved
<1>5. QED
  BY <1>2, <1>3, <1>4 DEF CheckDuplicate, Jobs, RequestType

(* Reading the supplier's owner keeps the remembered supplier. *)
LEMMA ReadHostStep ==
  ASSUME TablesOK, JobsOK, NEW w \in Workers, ReadHost(w)
  PROVE  Preserved
<1>1. TablesOK' /\ KeepsOwner
  BY ReadOnly DEF ReadHost
<1>2. job[w] \in Jobs /\ job[w].req.op # "quickAdd"
  BY AtLabel DEF ReadHost, GoodJob, QuickAddLabels, At, Labels
<1>3. CASE Respond(w)
  BY <1>1, <1>3, RespondStep DEF Preserved
<1>4. CASE job' = [job EXCEPT ![w] = [@ EXCEPT !.row = account[job[w].sup.owner],
                                               !.pc = "hostQuota"]]
  <2> DEFINE n == [job[w] EXCEPT !.row = account[job[w].sup.owner], !.pc = "hostQuota"]
  <2>1. account[job[w].sup.owner] \in Accounts
    BY <1>2 DEF Jobs, TablesOK
  <2>2. n \in Jobs /\ n.req = job[w].req /\ n.sup = job[w].sup /\ n.pc \notin Checked
    BY <1>2, <2>1 DEF Jobs, Labels, KnowsUser, Checked
  <2>3. QED
    BY <1>1, <1>2, <1>4, <2>2, OtherJobStep DEF ReadHost, Labels, Preserved
<1>5. QED
  BY <1>3, <1>4 DEF ReadHost

(* The owner's quota is read only. *)
LEMMA CheckHostQuotaStep ==
  ASSUME TablesOK, JobsOK, NEW w \in Workers, CheckHostQuota(w)
  PROVE  Preserved
<1>1. TablesOK' /\ KeepsOwner
  BY ReadOnly DEF CheckHostQuota
<1>2. CASE Respond(w)
  BY <1>1, <1>2, RespondStep DEF Preserved
<1>3. CASE Goto(w, "insertProduct")
  BY <1>1, <1>3, GotoStep DEF CheckHostQuota, Labels, KnowsUser, Checked, QuickAddLabels, Preserved
<1>4. QED
  BY <1>2, <1>3 DEF CheckHostQuota

(* quick-add's reads: every supplier it takes is its caller's.             *)

(* quick-add remembers a supplier of its caller. *)
LEMMA UseSupplierStep ==
  ASSUME TablesOK, TablesOK', KeepsOwner, JobsOK, NEW w \in Workers,
         NEW label \in Labels, At(w, label), UNCHANGED supplier, UNCHANGED nextSupplier,
         NEW s \in DOMAIN supplier, supplier[s].owner = job[w].req.user,
         NEW next \in {"insertProduct", "lastSupplier"}, UseSupplier(w, s, next)
  PROVE  Preserved
<1>1. s \in Nat /\ s < nextSupplier'
  BY DEF TablesOK, IsTable
<1>2. job[w].req.user \in Users
  BY AtLabel DEF Jobs, RequestType
<1>3. next \in Labels \ Checked /\ next \in QuickAddLabels
  BY DEF Labels, KnowsUser, Checked, QuickAddLabels
<1>4. QED
  BY <1>1, <1>2, <1>3, SupplierJobStep DEF UseSupplier, Preserved

(* Resolving by id or by name finds suppliers of the caller. *)
LEMMA ResolveStep ==
  ASSUME TablesOK, JobsOK, NEW w \in Workers,
         ResolveById(w) \/ ResolveByName(w) \/ ReadFirstSupplier(w)
  PROVE  Preserved
<1>1. TablesOK' /\ KeepsOwner /\ UNCHANGED supplier /\ UNCHANGED nextSupplier
  BY ReadOnly DEF ResolveById, ResolveByName, ReadFirstSupplier, tables
<1>2. PICK label \in {"resolveId", "resolveName", "firstSupplier"} : At(w, label)
  BY DEF ResolveById, ResolveByName, ReadFirstSupplier
<1>3. label \in Labels
  BY DEF Labels
<1>4. CASE Respond(w)
  BY <1>1, <1>4, RespondStep DEF Preserved
<1>5. CASE \E next \in {"resolveName", "insertSupplier", "countSuppliers"} : Goto(w, next)
  BY <1>1, <1>2, <1>3, <1>5, GotoStep DEF Labels, KnowsUser, Checked, QuickAddLabels, Preserved
<1>6. CASE \E s \in SuppliersOf(job[w].req.user) : UseSupplier(w, s, "insertProduct")
  BY <1>1, <1>2, <1>3, <1>6, UseSupplierStep DEF SuppliersOf
<1>7. QED
  BY <1>4, <1>5, <1>6 DEF ResolveById, ResolveByName, ReadFirstSupplier

(* The supplier of the caller's last product is his, by OwnerConsistent.   *)
LEMMA ReadLastStep ==
  ASSUME TablesOK, JobsOK, NEW w \in Workers,
         ReadLastProduct(w) \/ ReadLastSupplier(w)
  PROVE  Preserved
<1>1. TablesOK' /\ KeepsOwner /\ UNCHANGED supplier /\ UNCHANGED nextSupplier
  BY ReadOnly DEF ReadLastProduct, ReadLastSupplier, tables
<1>2. PICK label \in {"lastProduct", "lastSupplier"} : At(w, label)
  BY DEF ReadLastProduct, ReadLastSupplier
<1>3. label \in Labels
  BY DEF Labels
<1>4. CASE \E next \in {"insertProduct", "firstSupplier"} : Goto(w, next)
  BY <1>1, <1>2, <1>3, <1>4, GotoStep DEF Labels, KnowsUser, Checked, QuickAddLabels, Preserved
<1>5. ASSUME NEW p \in ProductsOf(job[w].req.user),
             UseSupplier(w, product[p].supplier, "lastSupplier")
      PROVE  Preserved
  <2>1. /\ product[p].supplier \in DOMAIN supplier
        /\ supplier[product[p].supplier].owner = job[w].req.user
    BY DEF ProductsOf, TablesOK, ReferencesOK, OwnerConsistent
  <2>2. QED
    BY <1>1, <1>2, <1>3, <1>5, <2>1, UseSupplierStep
<1>6. QED
  BY <1>4, <1>5 DEF ReadLastProduct, ReadLastSupplier

(* The count before a new supplier reads only. *)
LEMMA CountSuppliersStep ==
  ASSUME TablesOK, JobsOK, NEW w \in Workers, CountSuppliers(w)
  PROVE  Preserved
<1>1. TablesOK' /\ KeepsOwner
  BY ReadOnly DEF CountSuppliers
<1>2. CASE Respond(w)
  BY <1>1, <1>2, RespondStep DEF Preserved
<1>3. CASE Goto(w, "insertSupplier")
  BY <1>1, <1>3, GotoStep DEF CountSuppliers, Labels, KnowsUser, Checked, QuickAddLabels, Preserved
<1>4. QED
  BY <1>2, <1>3 DEF CountSuppliers

----------------------------------------------------------------------------
(* The writes to suppliers and products. *)

(* Deleting any products keeps everything; deleting suppliers does as long *)
(* as their products go too.                                               *)
LEMMA DropProducts ==
  ASSUME TablesOK, NEW ids, product' = Without(product, ids),
         UNCHANGED <<account, supplier, share, nextSupplier, nextProduct, nextShare>>
  PROVE  TablesOK' /\ KeepsOwner
<1>1. TablesOK'
  BY DEF TablesOK, IsTable, Without, ReferencesOK, OwnerConsistent
<1>2. KeepsOwner
  BY DEF TablesOK, IsTable, KeepsOwner
<1>3. QED
  BY <1>1, <1>2

(* Deleting suppliers, their products with them, keeps the tables right. *)
LEMMA DropSuppliers ==
  ASSUME TablesOK, NEW ids, DeleteSuppliers(ids),
         UNCHANGED <<account, share, nextSupplier, nextProduct, nextShare>>
  PROVE  TablesOK' /\ KeepsOwner
<1> DEFINE gone == {p \in DOMAIN product : product[p].supplier \in ids}
<1>1. /\ DOMAIN supplier' = DOMAIN supplier \ ids
      /\ \A s \in DOMAIN supplier' : supplier'[s] = supplier[s]
      /\ DOMAIN product' = DOMAIN product \ gone
      /\ \A p \in DOMAIN product' : product'[p] = product[p]
  BY DEF DeleteSuppliers, Without
<1>2. IsTable(supplier', SupplierRows, nextSupplier') /\ IsTable(product', ProductRows, nextProduct')
  BY DEF TablesOK, IsTable, DeleteSuppliers, Without
<1>3. ReferencesOK' /\ OwnerConsistent'
  BY <1>1 DEF TablesOK, ReferencesOK, OwnerConsistent
<1>4. KeepsOwner
  BY <1>1 DEF TablesOK, IsTable, KeepsOwner
<1>5. QED
  BY <1>2, <1>3, <1>4 DEF TablesOK, IsTable

(* A new supplier has a new id and an existing owner. *)
LEMMA InsertSupplierStep ==
  ASSUME TablesOK, JobsOK, NEW w \in Workers, InsertSupplier(w)
  PROVE  Preserved
<1> DEFINE u == job[w].req.user
           name == IF job[w].req.name = NoName THEN Unnamed ELSE job[w].req.name
<1>1. job[w] \in Jobs /\ "insertSupplier" \in Labels /\ At(w, "insertSupplier")
  BY AtLabel DEF InsertSupplier, Labels
<1>2. u \in Users /\ name \in Names
  BY <1>1, NamesAssumption DEF Jobs, RequestType
<1>3. CASE account[u].exists /\ ~ViolatesUnique(u, name, 0)
  <2>1. /\ supplier' = Inserted(supplier, nextSupplier, [owner |-> u, name |-> name])
        /\ nextSupplier' = nextSupplier + 1
        /\ UNCHANGED <<account, product, share, nextProduct, nextShare>>
    BY <1>3 DEF InsertSupplier
  <2>2. nextSupplier \in Nat \ {0} /\ nextSupplier \notin DOMAIN supplier
    BY DEF TablesOK, IsTable
  <2>3. IsTable(supplier', SupplierRows, nextSupplier')
    BY <1>2, <2>1, <2>2 DEF TablesOK, IsTable, SupplierRows, Inserted
  <2>4. ReferencesOK' /\ OwnerConsistent'
    BY <1>3, <2>1, <2>2 DEF TablesOK, ReferencesOK, OwnerConsistent, Inserted
  <2>5. TablesOK'
    BY <2>1, <2>3, <2>4 DEF TablesOK, IsTable
  <2>6. KeepsOwner
    BY <2>1, <2>2 DEF KeepsOwner, Inserted
  <2>7. CASE Respond(w)
    BY <2>5, <2>6, <2>7, RespondStep DEF Preserved
  <2>8. CASE job' = [job EXCEPT ![w] =
               [@ EXCEPT !.sup = [id |-> nextSupplier, owner |-> u], !.pc = "insertProduct"]]
    <3>1. "insertProduct" \in Labels \ Checked /\ "insertProduct" \in QuickAddLabels
      BY DEF Labels, KnowsUser, Checked, QuickAddLabels
    <3>2. nextSupplier < nextSupplier' /\ supplier'[nextSupplier].owner = u
      BY <2>1, <2>2 DEF Inserted
    <3>3. QED
      BY <1>1, <1>2, <2>2, <2>5, <2>6, <2>8, <3>1, <3>2, SupplierJobStep DEF Preserved
  <2>9. QED
    BY <1>3, <2>7, <2>8 DEF InsertSupplier
<1>4. CASE ~(account[u].exists /\ ~ViolatesUnique(u, name, 0))
  <2>1. Respond(w) /\ UNCHANGED tables
    BY <1>4 DEF InsertSupplier, tables
  <2>2. QED
    BY <2>1, ReadOnly, RespondStep DEF Preserved
<1>5. QED
  BY <1>3, <1>4

(* A rename changes no owner. *)
LEMMA RenameSupplierStep ==
  ASSUME TablesOK, JobsOK, NEW w \in Workers, RenameSupplier(w)
  PROVE  Preserved
<1> DEFINE s == job[w].sup.id
           name == job[w].req.name
<1>0. name \in Names
  BY AtLabel DEF RenameSupplier, Labels, GoodJob, At
<1>1. UNCHANGED <<account, product, share, nextSupplier, nextProduct, nextShare>> /\ Respond(w)
  BY DEF RenameSupplier
<1>2. CASE UNCHANGED supplier
  BY <1>1, <1>2, ReadOnly, RespondStep DEF Preserved, tables
<1>3. CASE /\ s \in DOMAIN supplier /\ name \in Names
           /\ supplier' = [supplier EXCEPT ![s] = [@ EXCEPT !.name = name]]
  <2>1. /\ DOMAIN supplier' = DOMAIN supplier
        /\ \A t \in DOMAIN supplier : supplier'[t] \in SupplierRows
                                      /\ supplier'[t].owner = supplier[t].owner
    BY <1>3 DEF TablesOK, IsTable, SupplierRows
  <2>2. supplier' \in [DOMAIN supplier -> SupplierRows]
    BY <1>3, <2>1
  <2>3. TablesOK'
    BY <1>1, <2>1, <2>2 DEF TablesOK, IsTable, ReferencesOK, OwnerConsistent
  <2>4. KeepsOwner
    BY <1>1, <2>1 DEF TablesOK, IsTable, KeepsOwner
  <2>5. QED
    BY <1>1, <2>3, <2>4, RespondStep DEF Preserved
<1>4. QED
  BY <1>0, <1>2, <1>3 DEF RenameSupplier

(* The deletions of the catalogue. *)
LEMMA DeletesStep ==
  ASSUME TablesOK, JobsOK, NEW w \in Workers,
         DeleteSupplier(w) \/ DeleteArchive(w) \/ DeleteProduct(w)
  PROVE  Preserved
<1>1. CASE DeleteSupplier(w)
  BY <1>1, DropSuppliers, RespondStep DEF DeleteSupplier, Preserved
<1>2. CASE DeleteArchive(w)
  <2>1. \E ids : product' = Without(product, ids)
    BY <1>2 DEF DeleteArchive
  <2>2. QED
    BY <1>2, <2>1, DropProducts, RespondStep DEF DeleteArchive, Preserved
<1>3. CASE DeleteProduct(w)
  BY <1>3, DropProducts, RespondStep DEF DeleteProduct, Preserved
<1>4. QED
  BY <1>1, <1>2, <1>3

(* The new product's owner is the remembered owner of its supplier; that   *)
(* the supplier, being there, still has that owner is GoodJob.             *)
LEMMA InsertProductStep ==
  ASSUME TablesOK, JobsOK, NEW w \in Workers, InsertProduct(w)
  PROVE  Preserved
<1> DEFINE j == job[w]
           u == ProductOwner(j)
           row == [owner |-> u, supplier |-> j.sup.id, ordered |-> NotOrdered]
<1>1. Respond(w) /\ UNCHANGED <<account, supplier, share, nextSupplier, nextShare>>
  BY DEF InsertProduct
<1>2. j \in Jobs /\ GoodJob(j, supplier, nextSupplier)
  BY AtLabel DEF InsertProduct, Labels
<1>3. CASE UNCHANGED <<product, nextProduct>>
  BY <1>1, <1>3, ReadOnly, RespondStep DEF Preserved, tables
<1>4. CASE /\ j.sup.id \in DOMAIN supplier
           /\ product' = Inserted(product, nextProduct, row)
           /\ nextProduct' = nextProduct + 1
  <2>1. u \in Users /\ u = j.sup.owner
    BY <1>2 DEF ProductOwner, GoodJob, Jobs, RequestType
  <2>2. supplier[j.sup.id].owner = u /\ j.sup.id \in Nat
    BY <1>2, <1>4, <2>1 DEF GoodJob, Jobs
  <2>3. nextProduct \in Nat \ {0} /\ nextProduct \notin DOMAIN product
    BY DEF TablesOK, IsTable
  <2>4. row \in ProductRows
    BY <2>1, <2>2 DEF ProductRows
  <2>5. IsTable(product', ProductRows, nextProduct')
    BY <1>4, <2>3, <2>4 DEF TablesOK, IsTable, Inserted
  <2>6. ReferencesOK' /\ OwnerConsistent'
    BY <1>1, <1>4, <2>2, <2>3 DEF TablesOK, ReferencesOK, OwnerConsistent, Inserted
  <2>7. TablesOK'
    BY <1>1, <2>5, <2>6 DEF TablesOK, IsTable
  <2>8. KeepsOwner
    BY <1>1 DEF TablesOK, IsTable, KeepsOwner
  <2>9. QED
    BY <1>1, <2>7, <2>8, RespondStep DEF Preserved
<1>5. QED
  BY <1>3, <1>4 DEF InsertProduct

(* Replacing one product's row by another right one.                       *)
LEMMA ReplaceProduct ==
  ASSUME TablesOK, NEW p \in DOMAIN product, NEW row \in ProductRows,
         row.supplier \in DOMAIN supplier, supplier[row.supplier].owner = row.owner,
         product' = [product EXCEPT ![p] = row],
         UNCHANGED <<account, supplier, share, nextSupplier, nextProduct, nextShare>>
  PROVE  TablesOK' /\ KeepsOwner
<1>1. IsTable(product', ProductRows, nextProduct')
  BY DEF TablesOK, IsTable
<1>2. ReferencesOK' /\ OwnerConsistent'
  BY DEF TablesOK, IsTable, ReferencesOK, OwnerConsistent
<1>3. KeepsOwner
  BY DEF TablesOK, IsTable, KeepsOwner
<1>4. QED
  BY <1>1, <1>2, <1>3 DEF TablesOK, IsTable

(* A moved product takes the owner of the supplier it moves to. *)
LEMMA MoveProductStep ==
  ASSUME TablesOK, JobsOK, NEW w \in Workers, MoveProduct(w)
  PROVE  Preserved
<1> DEFINE j == job[w]
           row == [product[j.found] EXCEPT !.supplier = j.sup.id, !.owner = j.sup.owner]
<1>1. /\ UNCHANGED <<account, supplier, share, nextSupplier, nextProduct, nextShare>>
      /\ At(w, "moveProduct") /\ "moveProduct" \in Labels
      /\ Respond(w) \/ Goto(w, "updateProduct")
  BY DEF MoveProduct, Labels
<1>2. j \in Jobs /\ GoodJob(j, supplier, nextSupplier) /\ j.req.op # "quickAdd"
  BY <1>1, AtLabel DEF GoodJob, QuickAddLabels, At
<1>3. TablesOK' /\ KeepsOwner
  <2>1. CASE UNCHANGED product
    BY <1>1, <2>1, ReadOnly DEF tables
  <2>2. CASE /\ j.found \in DOMAIN product /\ j.sup.id \in DOMAIN supplier
             /\ product' = [product EXCEPT ![j.found] = row]
    <3>1. product[j.found] \in ProductRows
      BY <2>2 DEF TablesOK, IsTable
    <3>2. row \in ProductRows /\ row.supplier = j.sup.id /\ row.owner = j.sup.owner
      BY <1>2, <3>1 DEF ProductRows, Jobs
    <3>3. supplier[row.supplier].owner = row.owner
      BY <1>2, <2>2, <3>2 DEF GoodJob
    <3>4. QED
      BY <1>1, <2>2, <3>2, <3>3, ReplaceProduct
  <2>3. QED
    BY <2>1, <2>2 DEF MoveProduct
<1>4. "updateProduct" \in Labels \ Checked
  BY DEF Labels, KnowsUser, Checked
<1>5. QED
  BY <1>1, <1>2, <1>3, <1>4, RespondStep, GotoStep DEF Preserved, Checked

(* Archiving changes neither supplier nor owner. *)
LEMMA OrderedStep ==
  ASSUME TablesOK, JobsOK, NEW w \in Workers,
         UpdateProduct(w) \/ ArchiveProductToday(w) \/ UnarchiveProduct(w)
  PROVE  Preserved
<1>1. CASE UpdateProduct(w)
  BY <1>1, ReadOnly, RespondStep DEF UpdateProduct, Preserved
<1>2. ASSUME NEW day \in Days \cup {NotOrdered}, SetOrdered(w, day)
      PROVE  Preserved
  <2> DEFINE p == job[w].found
             row == [product[p] EXCEPT !.ordered = day]
  <2>1. /\ UNCHANGED <<account, supplier, share, nextSupplier, nextProduct, nextShare>>
        /\ Respond(w)
    BY <1>2 DEF SetOrdered
  <2>2. CASE p \in DOMAIN product
    <3>1. product[p] \in ProductRows
      BY <2>2 DEF TablesOK, IsTable
    <3>2. /\ row \in ProductRows /\ row.supplier = product[p].supplier
          /\ row.owner = product[p].owner
      BY <3>1 DEF ProductRows
    <3>3. row.supplier \in DOMAIN supplier /\ supplier[row.supplier].owner = row.owner
      BY <2>2, <3>2 DEF TablesOK, ReferencesOK, OwnerConsistent
    <3>4. product' = [product EXCEPT ![p] = row]
      BY <1>2, <2>2 DEF SetOrdered
    <3>5. QED
      BY <2>1, <2>2, <3>2, <3>3, <3>4, ReplaceProduct, RespondStep DEF Preserved
  <2>3. CASE p \notin DOMAIN product
    BY <1>2, <2>1, <2>3, ReadOnly, RespondStep DEF SetOrdered, tables, Preserved
  <2>4. QED
    BY <2>2, <2>3
<1>3. QED
  BY <1>1, <1>2 DEF ArchiveProductToday, UnarchiveProduct

----------------------------------------------------------------------------
(* Sharing, licences and the deletion of users. *)

(* Deleting shares keeps the tables right. *)
LEMMA DropShares ==
  ASSUME TablesOK, NEW ids, share' = Without(share, ids),
         UNCHANGED <<account, supplier, product, nextSupplier, nextProduct, nextShare>>
  PROVE  TablesOK' /\ KeepsOwner
<1>1. TablesOK'
  BY DEF TablesOK, IsTable, Without, ReferencesOK, OwnerConsistent
<1>2. KeepsOwner
  BY DEF TablesOK, IsTable, KeepsOwner
<1>3. QED
  BY <1>1, <1>2

(* The reads before a share is inserted. *)
LEMMA ShareReadsStep ==
  ASSUME TablesOK, JobsOK, NEW w \in Workers,
         FindTarget(w) \/ CheckExistingShare(w) \/ CountShares(w)
  PROVE  Preserved
<1>1. TablesOK' /\ KeepsOwner
  BY ReadOnly DEF FindTarget, CheckExistingShare, CountShares
<1>2. PICK label \in {"target", "existing", "countShares"} : At(w, label)
  BY DEF FindTarget, CheckExistingShare, CountShares
<1>3. label \in Labels
  BY DEF Labels
<1>4. job[w].req.op # "quickAdd"
  BY <1>2, <1>3, AtLabel DEF GoodJob, QuickAddLabels, At
<1>5. CASE Respond(w)
  BY <1>1, <1>5, RespondStep DEF Preserved
<1>6. CASE /\ \E next \in {"existing", "countShares", "insertShare"} : Goto(w, next)
           /\ job[w].req.id \in Users
  <2>1. PICK next \in {"existing", "countShares", "insertShare"} : Goto(w, next)
    BY <1>6
  <2>2. next \in Labels /\ next # "renameSupplier"
    BY DEF Labels
  <2>3. QED
    BY <1>1, <1>2, <1>3, <1>4, <1>6, <2>1, <2>2, GotoStep DEF Preserved
<1>7. label \in KnowsUser => job[w].req.id \in Users
  BY <1>2, <1>3, AtLabel DEF GoodJob, At
<1>8. CASE FindTarget(w)
  BY <1>5, <1>6, <1>8 DEF FindTarget
<1>9. CASE CheckExistingShare(w) \/ CountShares(w)
  <2>1. label \in KnowsUser
    BY <1>2, <1>9 DEF CheckExistingShare, CountShares, At, KnowsUser
  <2>2. QED
    BY <1>5, <1>6, <1>7, <1>9, <2>1 DEF CheckExistingShare, CountShares
<1>10. QED
  BY <1>8, <1>9

(* A new share has two existing users. *)
LEMMA InsertShareStep ==
  ASSUME TablesOK, JobsOK, NEW w \in Workers, InsertShare(w)
  PROVE  Preserved
<1> DEFINE row == [owner |-> job[w].req.user, with |-> job[w].req.id]
<1>1. Respond(w) /\ UNCHANGED <<account, supplier, product, nextSupplier, nextProduct>>
  BY DEF InsertShare
<1>2. row \in ShareRows
  BY AtLabel DEF InsertShare, Labels, KnowsUser, GoodJob, At, Jobs, RequestType, ShareRows
<1>3. CASE UNCHANGED <<share, nextShare>>
  BY <1>1, <1>3, ReadOnly, RespondStep DEF Preserved, tables
<1>4. CASE /\ account[job[w].req.user].exists /\ account[job[w].req.id].exists
           /\ share' = Inserted(share, nextShare, row)
           /\ nextShare' = nextShare + 1
  <2>1. nextShare \in Nat \ {0} /\ nextShare \notin DOMAIN share
    BY DEF TablesOK, IsTable
  <2>2. IsTable(share', ShareRows, nextShare')
    BY <1>2, <1>4, <2>1 DEF TablesOK, IsTable, Inserted
  <2>3. ReferencesOK' /\ OwnerConsistent'
    BY <1>1, <1>4, <2>1 DEF TablesOK, ReferencesOK, OwnerConsistent, Inserted
  <2>4. TablesOK'
    BY <1>1, <2>2, <2>3 DEF TablesOK, IsTable
  <2>5. KeepsOwner
    BY <1>1 DEF TablesOK, IsTable, KeepsOwner
  <2>6. QED
    BY <1>1, <2>4, <2>5, RespondStep DEF Preserved
<1>5. QED
  BY <1>3, <1>4 DEF InsertShare

(* The reads before a share is deleted. *)
LEMMA FindShareStep ==
  ASSUME TablesOK, JobsOK, NEW w \in Workers,
         FindShareById(w) \/ FindShareByUser(w) \/ FindShareWithMe(w)
  PROVE  Preserved
<1>1. TablesOK' /\ KeepsOwner
  BY ReadOnly DEF FindShareById, FindShareByUser, FindShareWithMe
<1>2. PICK label \in {"shareById", "shareByUser", "ownShare"} : At(w, label)
  BY DEF FindShareById, FindShareByUser, FindShareWithMe
<1>3. label \in Labels
  BY DEF Labels
<1>4. job[w] \in Jobs /\ job[w].req.op # "quickAdd"
  BY <1>2, <1>3, AtLabel DEF GoodJob, QuickAddLabels, At
<1>5. CASE Respond(w)
  BY <1>1, <1>5, RespondStep DEF Preserved
<1>6. CASE Goto(w, "shareByUser")
  <2>1. "shareByUser" \in Labels \ Checked
    BY DEF Labels, KnowsUser, Checked
  <2>2. QED
    BY <1>1, <1>2, <1>3, <1>4, <1>6, <2>1, GotoStep DEF Preserved, Checked
<1>7. ASSUME NEW h \in DOMAIN share,
             job' = [job EXCEPT ![w] = [@ EXCEPT !.found = h, !.pc = "deleteShare"]]
      PROVE  Preserved
  <2> DEFINE n == [job[w] EXCEPT !.found = h, !.pc = "deleteShare"]
  <2>1. h \in Nat
    BY DEF TablesOK, IsTable
  <2>2. n \in Jobs /\ n.req = job[w].req /\ n.sup = job[w].sup /\ n.pc \notin Checked
    BY <1>4, <2>1 DEF Jobs, Labels, KnowsUser, Checked
  <2>3. QED
    BY <1>1, <1>2, <1>3, <1>4, <1>7, <2>2, OtherJobStep DEF Preserved
<1>8. QED
  BY <1>5, <1>6, <1>7
     DEF FindShareById, FindShareByUser, FindShareWithMe, TakeShare, SharedWith, SharesOf

(* Deleting a share by the id read. *)
LEMMA DeleteShareStep ==
  ASSUME TablesOK, JobsOK, NEW w \in Workers, DeleteShare(w)
  PROVE  Preserved
  BY DropShares, RespondStep DEF DeleteShare, Preserved

(* Changing a user's licence or admin flag, the user staying.              *)
LEMMA SetAccountTables ==
  ASSUME TablesOK, NEW u \in Users, NEW row \in Accounts, row.exists = account[u].exists,
         SetAccount(u, row)
  PROVE  TablesOK' /\ KeepsOwner
<1>1. /\ account' \in [Users -> Accounts]
      /\ \A v \in Users : account'[v].exists = account[v].exists
  BY DEF SetAccount, TablesOK
<1>2. UNCHANGED <<supplier, product, share, nextSupplier, nextProduct, nextShare>>
  BY DEF SetAccount
<1>3. /\ IsTable(supplier', SupplierRows, nextSupplier')
      /\ IsTable(product', ProductRows, nextProduct')
      /\ IsTable(share', ShareRows, nextShare')
      /\ OwnerConsistent'
  BY <1>2 DEF TablesOK, IsTable, OwnerConsistent
<1>4. ReferencesOK'
  BY <1>1, <1>2 DEF TablesOK, IsTable, ReferencesOK, SupplierRows, ShareRows
<1>5. KeepsOwner
  BY <1>2 DEF TablesOK, IsTable, KeepsOwner
<1>6. QED
  BY <1>1, <1>3, <1>4, <1>5 DEF TablesOK

(* Changing a licence keeps the tables right. *)
LEMMA SetLicenceTables ==
  ASSUME TablesOK, NEW u \in Users, NEW licence \in Licences, SetLicence(u, licence)
  PROVE  TablesOK' /\ KeepsOwner
<1>1. account[u] \in Accounts
  BY DEF TablesOK
<1>2. /\ [account[u] EXCEPT !.licence = licence] \in Accounts
      /\ [account[u] EXCEPT !.licence = licence].exists = account[u].exists
  BY <1>1 DEF Accounts
<1>3. QED
  BY <1>2, SetAccountTables DEF SetLicence

(* The admin handlers go on only with a user there is. *)
LEMMA FindUserStep ==
  ASSUME TablesOK, JobsOK, NEW w \in Workers, FindUser(w)
  PROVE  Preserved
<1>1. TablesOK' /\ KeepsOwner
  BY ReadOnly DEF FindUser
<1>2. At(w, "readUser") /\ "readUser" \in Labels
  BY DEF FindUser, Labels
<1>3. job[w].req.op # "quickAdd"
  BY <1>2, AtLabel DEF GoodJob, QuickAddLabels, At
<1>4. CASE Respond(w)
  BY <1>1, <1>4, RespondStep DEF Preserved
<1>5. CASE /\ \E next \in {"grant", "revoke", "purgeShares"} : Goto(w, next)
           /\ job[w].req.id \in Users
  <2>1. PICK next \in {"grant", "revoke", "purgeShares"} : Goto(w, next)
    BY <1>5
  <2>2. next \in Labels /\ next # "renameSupplier"
    BY DEF Labels
  <2>3. QED
    BY <1>1, <1>2, <1>3, <1>5, <2>1, <2>2, GotoStep DEF Preserved
<1>6. QED
  BY <1>4, <1>5 DEF FindUser

(* A label behind FindUser: the user exists in the model, and the handler  *)
(* is an administrator's.                                                  *)
LEMMA AdminLabel ==
  ASSUME JobsOK, NEW w \in Workers, NEW label \in KnowsUser, At(w, label)
  PROVE  /\ label \in Labels /\ job[w] \in Jobs
         /\ job[w].req.id \in Users /\ job[w].req.op # "quickAdd"
<1>1. label \in Labels
  BY DEF KnowsUser, Labels
<1>2. job[w] \in Jobs /\ GoodJob(job[w], supplier, nextSupplier)
  BY <1>1, AtLabel
<1>3. label \notin QuickAddLabels
  BY DEF KnowsUser, QuickAddLabels
<1>4. QED
  BY <1>1, <1>2, <1>3 DEF GoodJob, At

(* An admin handler goes on with the user it found. *)
LEMMA AdminGotoStep ==
  ASSUME TablesOK, TablesOK', KeepsOwner, JobsOK, NEW w \in Workers,
         NEW label \in KnowsUser, At(w, label), NEW next \in KnowsUser, Goto(w, next)
  PROVE  Preserved
<1>1. next \in Labels /\ next # "renameSupplier"
  BY DEF KnowsUser, Labels
<1>2. QED
  BY <1>1, AdminLabel, GotoStep DEF Preserved

(* Activating, granting and revoking keep every user. *)
LEMMA LicenceStep ==
  ASSUME TablesOK, JobsOK, NEW w \in Workers,
         ActivateLicence(w) \/ GrantLicence(w) \/ RevokeLicence(w) \/ RevokeAdmin(w)
  PROVE  Preserved
<1>1. {"timed", "life", "free"} \subseteq Licences
  BY DEF Licences
<1>2. CASE ActivateLicence(w)
  <2>1. job[w].req.user \in Users
    BY <1>2, AtLabel DEF ActivateLicence, Labels, Jobs, RequestType
  <2>2. QED
    BY <1>1, <1>2, <2>1, SetLicenceTables, RespondStep DEF ActivateLicence, Preserved
<1>3. CASE GrantLicence(w)
  <2>1. job[w].req.id \in Users
    BY <1>3, AdminLabel DEF GrantLicence, KnowsUser
  <2>2. QED
    BY <1>1, <1>3, <2>1, SetLicenceTables, RespondStep DEF GrantLicence, Preserved
<1>4. CASE RevokeLicence(w)
  <2>1. At(w, "revoke") /\ "revoke" \in KnowsUser /\ "unadmin" \in KnowsUser
    BY <1>4 DEF RevokeLicence, KnowsUser
  <2>2. job[w].req.id \in Users
    BY <2>1, AdminLabel
  <2>3. TablesOK' /\ KeepsOwner
    BY <1>1, <1>4, <2>2, SetLicenceTables DEF RevokeLicence
  <2>4. CASE Respond(w)
    BY <2>3, <2>4, RespondStep DEF Preserved
  <2>5. CASE Goto(w, "unadmin")
    BY <2>1, <2>3, <2>5, AdminGotoStep
  <2>6. QED
    BY <1>4, <2>4, <2>5 DEF RevokeLicence
<1>5. CASE RevokeAdmin(w)
  <2> DEFINE u == job[w].req.id
             row == [account[u] EXCEPT !.admin = FALSE]
  <2>1. u \in Users
    BY <1>5, AdminLabel DEF RevokeAdmin, KnowsUser
  <2>2. account[u] \in Accounts
    BY <2>1 DEF TablesOK
  <2>3. row \in Accounts /\ row.exists = account[u].exists
    BY <2>2 DEF Accounts
  <2>4. SetAccount(u, row) /\ Respond(w)
    BY <1>5 DEF RevokeAdmin
  <2>5. QED
    BY <2>1, <2>3, <2>4, SetAccountTables, RespondStep DEF Preserved
<1>6. QED
  BY <1>2, <1>3, <1>4, <1>5

(* The first three deletions of a user's rows. *)
LEMMA PurgeStep ==
  ASSUME TablesOK, JobsOK, NEW w \in Workers,
         PurgeShares(w) \/ PurgeProducts(w) \/ PurgeSuppliers(w)
  PROVE  Preserved
<1>1. PICK label \in KnowsUser : At(w, label)
  BY DEF PurgeShares, PurgeProducts, PurgeSuppliers, KnowsUser
<1>2. PICK next \in KnowsUser : Goto(w, next)
  BY DEF PurgeShares, PurgeProducts, PurgeSuppliers, KnowsUser
<1>3. TablesOK' /\ KeepsOwner
  <2>1. CASE PurgeShares(w)
    BY <2>1, DropShares DEF PurgeShares
  <2>2. CASE PurgeProducts(w)
    BY <2>2, DropProducts DEF PurgeProducts
  <2>3. CASE PurgeSuppliers(w)
    BY <2>3, DropSuppliers DEF PurgeSuppliers
  <2>4. QED
    BY <2>1, <2>2, <2>3
<1>4. QED
  BY <1>1, <1>2, <1>3, AdminGotoStep

(* The last DELETE: the rows that refer to the user go with him.           *)
LEMMA PurgeUserStep ==
  ASSUME TablesOK, JobsOK, NEW w \in Workers, PurgeUser(w)
  PROVE  Preserved
<1> DEFINE u == job[w].req.id
           gone == SuppliersOf(u)
           goneProducts == {p \in DOMAIN product :
                              product[p].owner = u \/ product[p].supplier \in gone}
           goneShares == {h \in DOMAIN share : u \in {share[h].owner, share[h].with}}
<1>1. /\ account' = [account EXCEPT ![u] =
                       [exists |-> FALSE, licence |-> "free", admin |-> FALSE]]
      /\ supplier' = Without(supplier, gone)
      /\ product' = Without(product, goneProducts)
      /\ share' = Without(share, goneShares)
      /\ Respond(w)
      /\ UNCHANGED <<nextSupplier, nextProduct, nextShare>>
  BY DEF PurgeUser
<1>2. account' \in [Users -> Accounts] /\ \A v \in Users \ {u} : account'[v] = account[v]
  BY <1>1 DEF TablesOK, Accounts, Licences
<1>3. /\ IsTable(supplier', SupplierRows, nextSupplier')
      /\ IsTable(product', ProductRows, nextProduct')
      /\ IsTable(share', ShareRows, nextShare')
  BY <1>1 DEF TablesOK, IsTable, Without
<1>4. /\ DOMAIN supplier' = DOMAIN supplier \ gone
      /\ \A s \in DOMAIN supplier' : supplier'[s] = supplier[s] /\ supplier[s].owner \in Users \ {u}
      /\ DOMAIN product' = DOMAIN product \ goneProducts
      /\ \A p \in DOMAIN product' : product'[p] = product[p] /\ product[p].supplier \notin gone
      /\ \A h \in DOMAIN share' : /\ h \in DOMAIN share /\ share'[h] = share[h]
                                 /\ share[h].owner \in Users \ {u}
                                 /\ share[h].with \in Users \ {u}
  <2>1. \A s \in DOMAIN supplier \ gone : supplier[s].owner \in Users \ {u}
    BY DEF SuppliersOf, TablesOK, IsTable, SupplierRows
  <2>2. \A h \in DOMAIN share \ goneShares :
          share[h].owner \in Users \ {u} /\ share[h].with \in Users \ {u}
    BY DEF TablesOK, IsTable, ShareRows
  <2>3. QED
    BY <1>1, <2>1, <2>2 DEF Without
<1>5. ReferencesOK' /\ OwnerConsistent'
  BY <1>2, <1>4 DEF TablesOK, ReferencesOK, OwnerConsistent
<1>6. TablesOK'
  BY <1>2, <1>3, <1>5 DEF TablesOK
<1>7. KeepsOwner
  BY <1>1, <1>4 DEF TablesOK, IsTable, KeepsOwner
<1>8. QED
  BY <1>1, <1>6, <1>7, RespondStep DEF Preserved

(* The clock changes licences only, in the rows handlers hold too. *)
LEMMA LicenceExpiresStep ==
  ASSUME TablesOK, JobsOK, NEW u \in Users, LicenceExpires(u)
  PROVE  Preserved
<1>1. TablesOK' /\ KeepsOwner
  BY SetLicenceTables DEF LicenceExpires, Licences
<1>2. job' = [w \in Workers |->
         IF job[w] # Idle /\ HoldsRowOf(job[w], u) /\ job[w].row.licence = "timed"
         THEN [job[w] EXCEPT !.row = [@ EXCEPT !.licence = "expired"]]
         ELSE job[w]]
  BY DEF LicenceExpires
<1>3. ASSUME NEW w \in Workers
      PROVE  MayBecome(job'[w], supplier', nextSupplier')
  <2>1. CASE job[w] = Idle
    BY <1>2, <2>1 DEF MayBecome
  <2>2. CASE job[w] # Idle
    <3>1. job[w] \in Jobs
      BY <2>2 DEF JobsOK
    <3>2. job[w].pc # "idle"
      BY <3>1 DEF Jobs, Labels
    <3>3. GoodJob(job[w], supplier', nextSupplier')
      BY <1>1, <3>1, <3>2, MemorySurvives DEF JobsOK, MemoryOK
    <3>4. CASE job'[w] = job[w]
      BY <3>1, <3>3, <3>4 DEF MayBecome
    <3>5. CASE job'[w] = [job[w] EXCEPT !.row = [@ EXCEPT !.licence = "expired"]]
      <4> DEFINE row == [job[w].row EXCEPT !.licence = "expired"]
                 n == [job[w] EXCEPT !.row = row]
      <4>1. row \in Accounts
        BY <3>1 DEF Jobs, Accounts, Licences
      <4>2. n \in Jobs /\ n.pc = job[w].pc /\ n.req = job[w].req /\ n.sup = job[w].sup
        BY <3>1, <4>1 DEF Jobs
      <4>3. GoodJob(n, supplier', nextSupplier')
        BY <3>3, <4>2 DEF GoodJob
      <4>4. QED
        BY <3>5, <4>2, <4>3 DEF MayBecome
    <3>6. QED
      BY <1>2, <3>4, <3>5
  <2>3. QED
    BY <2>1, <2>2
<1>4. job' \in [Workers -> {Idle} \cup Jobs]
  BY <1>2, <1>3 DEF MayBecome
<1>5. MemoryOK'
  BY <1>3 DEF MemoryOK, MayBecome, Idle
<1>6. QED
  BY <1>1, <1>4, <1>5 DEF Preserved, JobsOK

----------------------------------------------------------------------------
(* The invariant. *)

(* The empty database satisfies the invariant. *)
LEMMA InitIInv == Init => IInv
<1> SUFFICES ASSUME Init PROVE IInv
  OBVIOUS
<1>1. TablesOK
  BY AccountsAssumption DEF Init, TablesOK, IsTable, EmptyTable, ReferencesOK, OwnerConsistent
<1>2. JobsOK
  BY DEF Init, JobsOK, MemoryOK, Idle
<1>3. QED
  BY <1>1, <1>2, IInvParts

(* Every action keeps what it owes. *)
LEMMA NextPreserves ==
  ASSUME IInv, [Next]_vars
  PROVE  Preserved
<1>1. TablesOK /\ JobsOK
  BY IInvParts
<1>2. ASSUME NEW w \in Workers, CatalogNext(w)
      PROVE  Preserved
  BY <1>1, <1>2, CheckQuotaStep, ReadOwnersStep, FindSupplierStep, FindProductStep,
     CheckDuplicateStep, InsertSupplierStep, RenameSupplierStep, DeletesStep, ReadHostStep,
     CheckHostQuotaStep, InsertProductStep, MoveProductStep, OrderedStep, ResolveStep,
     ReadLastStep, CountSuppliersStep DEF CatalogNext
<1>3. ASSUME NEW w \in Workers, SharingNext(w)
      PROVE  Preserved
  BY <1>1, <1>3, ShareReadsStep, InsertShareStep, FindShareStep, DeleteShareStep,
     FindUserStep, LicenceStep, PurgeStep, PurgeUserStep DEF SharingNext
<1>4. CASE UNCHANGED vars
  <2>1. TablesOK' /\ KeepsOwner
    BY <1>1, <1>4, ReadOnly DEF vars, tables
  <2>2. JobsOK'
    BY <1>1, <1>4 DEF vars, JobsOK, MemoryOK
  <2>3. QED
    BY <2>1, <2>2 DEF Preserved
<1>5. QED
  BY <1>1, <1>2, <1>3, <1>4, BeginStep, LicenceExpiresStep DEF Next

(* The invariant is inductive. *)
LEMMA NextIInv == IInv /\ [Next]_vars => IInv'
<1> SUFFICES ASSUME IInv, [Next]_vars PROVE IInv'
  OBVIOUS
<1>1. TablesOK' /\ JobsOK'
  BY NextPreserves DEF Preserved
<1>2. QED
  BY <1>1 DEF IInv, TypeOK, TablesOK, JobsOK

(* The invariant holds in every reachable state of the server. *)
THEOREM Invariance == Spec => []IInv
  BY InitIInv, NextIInv, PTL DEF Spec

(* Every table and every worker's memory is well-typed.                    *)
THEOREM TypeCorrect == Spec => []TypeOK
  BY Invariance, PTL DEF IInv

(* No foreign key ever dangles, whatever the workers' deletes and inserts  *)
(* interleave to.                                                          *)
THEOREM ReferencesHold == Spec => []ReferencesOK
  BY Invariance, PTL DEF IInv

(* Every product belongs to the owner of its supplier.                     *)
THEOREM OwnersConsistent == Spec => []OwnerConsistent
  BY Invariance, PTL DEF IInv

(* What a worker remembers of a supplier is never another owner's row.     *)
THEOREM MemoryHolds == Spec => []MemoryOK
  BY Invariance, PTL DEF IInv

(* A supplier id belongs to one owner for ever.                            *)
THEOREM SupplierIdentityHolds == Spec => SupplierIdentity
<1>1. IInv /\ [Next]_vars => [KeepsOwner]_vars
  BY NextPreserves DEF Preserved
<1>2. QED
  BY <1>1, Invariance, PTL DEF Spec, SupplierIdentity

----------------------------------------------------------------------------
(* What the steps do to the tables of suppliers and shares. *)

(* Rows only disappear. *)
Shrinks(old, new) ==
  DOMAIN new \subseteq DOMAIN old /\ \A i \in DOMAIN new : new[i] = old[i]

(* Suppliers appear or change in two statements only. *)
LEMMA SupplierChange ==
  ASSUME [Next]_vars
  PROVE  \/ Shrinks(supplier, supplier')
         \/ \E w \in Workers : InsertSupplier(w) \/ RenameSupplier(w)
<1>1. CASE supplier' = supplier
  BY <1>1 DEF Shrinks
<1>2. ASSUME NEW w \in Workers, DeleteSupplier(w) \/ PurgeSuppliers(w) \/ PurgeUser(w)
      PROVE  Shrinks(supplier, supplier')
  BY <1>2 DEF DeleteSupplier, PurgeSuppliers, PurgeUser, DeleteSuppliers, Without, Shrinks
<1>3. ASSUME NEW w \in Workers, Begin(w)
      PROVE  supplier' = supplier
  BY <1>3 DEF Begin, tables
<1>4. ASSUME NEW w \in Workers, CatalogNext(w),
             ~InsertSupplier(w), ~RenameSupplier(w), ~DeleteSupplier(w)
      PROVE  supplier' = supplier
  BY <1>4 DEF CatalogNext, CheckSupplierQuota, CheckProductQuota, CheckQuickAddQuota,
     ReadOwners, FindSupplier, FindProduct, CheckDuplicate, DeleteArchive, ReadHost,
     CheckHostQuota, InsertProduct, MoveProduct, UpdateProduct, DeleteProduct,
     ArchiveProductToday, UnarchiveProduct, SetOrdered, ResolveById, ResolveByName,
     ReadLastProduct, ReadLastSupplier, ReadFirstSupplier, CountSuppliers, tables
<1>5. ASSUME NEW w \in Workers, SharingNext(w), ~PurgeSuppliers(w), ~PurgeUser(w)
      PROVE  supplier' = supplier
  BY <1>5 DEF SharingNext, FindTarget, CheckExistingShare, CountShares, InsertShare,
     FindShareById, FindShareByUser, FindShareWithMe, DeleteShare, ActivateLicence, FindUser,
     GrantLicence, RevokeLicence, RevokeAdmin, PurgeShares, PurgeProducts, SetLicence,
     SetAccount, tables
<1>6. ASSUME NEW u \in Users, LicenceExpires(u)
      PROVE  supplier' = supplier
  BY <1>6 DEF LicenceExpires, SetLicence, SetAccount
<1>7. CASE UNCHANGED vars
  BY <1>1, <1>7 DEF vars
<1>8. QED
  BY <1>1, <1>2, <1>3, <1>4, <1>5, <1>6, <1>7 DEF Next

(* Shares appear in one statement only, and never change. *)
LEMMA ShareChange ==
  ASSUME [Next]_vars
  PROVE  \/ Shrinks(share, share') /\ nextShare' = nextShare
         \/ \E w \in Workers : InsertShare(w)
<1>1. CASE share' = share /\ nextShare' = nextShare
  BY <1>1 DEF Shrinks
<1>2. ASSUME NEW w \in Workers, DeleteShare(w) \/ PurgeShares(w) \/ PurgeUser(w)
      PROVE  Shrinks(share, share') /\ nextShare' = nextShare
  BY <1>2 DEF DeleteShare, PurgeShares, PurgeUser, Without, Shrinks
<1>3. ASSUME NEW w \in Workers, Begin(w)
      PROVE  share' = share /\ nextShare' = nextShare
  BY <1>3 DEF Begin, tables
<1>4. ASSUME NEW w \in Workers, CatalogNext(w)
      PROVE  share' = share /\ nextShare' = nextShare
  BY <1>4 DEF CatalogNext, CheckSupplierQuota, CheckProductQuota, CheckQuickAddQuota,
     ReadOwners, FindSupplier, FindProduct, CheckDuplicate, InsertSupplier, RenameSupplier,
     DeleteSupplier, DeleteArchive, ReadHost,
     CheckHostQuota, InsertProduct, MoveProduct, UpdateProduct, DeleteProduct,
     ArchiveProductToday, UnarchiveProduct, SetOrdered, ResolveById, ResolveByName,
     ReadLastProduct, ReadLastSupplier, ReadFirstSupplier, CountSuppliers, tables
<1>5. ASSUME NEW w \in Workers, SharingNext(w), ~InsertShare(w), ~DeleteShare(w),
             ~PurgeShares(w), ~PurgeUser(w)
      PROVE  share' = share /\ nextShare' = nextShare
  BY <1>5 DEF SharingNext, FindTarget, CheckExistingShare, CountShares,
     FindShareById, FindShareByUser, FindShareWithMe, ActivateLicence, FindUser,
     GrantLicence, RevokeLicence, RevokeAdmin, PurgeProducts, PurgeSuppliers, SetLicence,
     SetAccount, tables
<1>6. ASSUME NEW u \in Users, LicenceExpires(u)
      PROVE  share' = share /\ nextShare' = nextShare
  BY <1>6 DEF LicenceExpires, SetLicence, SetAccount
<1>7. CASE UNCHANGED vars
  BY <1>1, <1>7 DEF vars
<1>8. QED
  BY <1>1, <1>2, <1>3, <1>4, <1>5, <1>6, <1>7 DEF Next

----------------------------------------------------------------------------
(* Ending a share, with any number of workers. *)

ShareLabels == {"shareById", "shareByUser", "ownShare", "deleteShare"}

(* What a handler that ends a share remembers of it: the row with that id, *)
(* if it is still there, is the caller's to end.                           *)
ShareJob(j, shares, next) ==
  /\ j.pc \in {"shareById", "shareByUser"} => j.req.op = "unshare"
  /\ j.pc = "ownShare" => j.req.op = "leave"
  /\ j.pc = "deleteShare" =>
       /\ j.found < next
       /\ j.found \in DOMAIN shares =>
            j.req.user = IF j.req.op = "leave" THEN shares[j.found].with
                         ELSE shares[j.found].owner

SharesKnown ==
  \A w \in Workers : job[w] # Idle => ShareJob(job[w], share, nextShare)

(* A share keeps its users, and its id is not given again. *)
KeepsShares ==
  /\ nextShare <= nextShare'
  /\ \A h \in DOMAIN share' : IF h \in DOMAIN share THEN share'[h] = share[h]
                              ELSE h >= nextShare

(* Inserts draw new ids, everything else only deletes. *)
LEMMA SharesKept ==
  ASSUME TablesOK, [Next]_vars
  PROVE  KeepsShares
<1>1. nextShare \in Nat \ {0} /\ nextShare \notin DOMAIN share
  BY DEF TablesOK, IsTable
<1>2. CASE Shrinks(share, share') /\ nextShare' = nextShare
  BY <1>1, <1>2 DEF Shrinks, KeepsShares
<1>3. ASSUME NEW w \in Workers, InsertShare(w)
      PROVE  KeepsShares
  <2>1. CASE UNCHANGED <<share, nextShare>>
    BY <1>1, <2>1 DEF KeepsShares
  <2>2. CASE /\ nextShare' = nextShare + 1
             /\ \E row : share' = Inserted(share, nextShare, row)
    BY <1>1, <2>2 DEF KeepsShares, Inserted
  <2>3. QED
    BY <1>3, <2>1, <2>2 DEF InsertShare
<1>4. QED
  BY <1>2, <1>3, ShareChange

(* What is remembered of a share stays right. *)
LEMMA ShareJobStays ==
  ASSUME TablesOK, NEW j \in Jobs, ShareJob(j, share, nextShare), KeepsShares, TablesOK'
  PROVE  ShareJob(j, share', nextShare')
<1>1. nextShare \in Nat /\ nextShare' \in Nat /\ j.found \in Nat
  BY DEF TablesOK, IsTable, Jobs
<1>2. QED
  BY <1>1 DEF ShareJob, KeepsShares

(* The handlers of products and suppliers never come to a share's labels.  *)
LEMMA CatalogLabels ==
  ASSUME JobsOK, NEW w \in Workers, CatalogNext(w)
  PROVE  \E n : job' = [job EXCEPT ![w] = n] /\ (n = Idle \/ n.pc \notin ShareLabels)
<1>1. job[w] \in Jobs
  <2>1. PICK label \in Labels : At(w, label)
    BY DEF CatalogNext, CheckSupplierQuota, CheckProductQuota, CheckQuickAddQuota,
       ReadOwners, FindSupplier, FindProduct, CheckDuplicate, InsertSupplier, RenameSupplier,
       DeleteSupplier, DeleteArchive, ReadHost, CheckHostQuota, InsertProduct, MoveProduct,
       UpdateProduct, DeleteProduct, ArchiveProductToday, UnarchiveProduct, ResolveById,
       ResolveByName, ReadLastProduct, ReadLastSupplier, ReadFirstSupplier, CountSuppliers,
       Labels
  <2>2. QED
    BY <2>1, AtLabel
<1>2. CASE Respond(w)
  BY <1>2 DEF Respond
<1>3. ASSUME NEW next \in Labels \ ShareLabels, NEW n, n.pc = next,
             job' = [job EXCEPT ![w] = n]
      PROVE  \E m : job' = [job EXCEPT ![w] = m] /\ (m = Idle \/ m.pc \notin ShareLabels)
  BY <1>3
<1>4. ASSUME NEW next \in Labels \ ShareLabels, Goto(w, next)
      PROVE  \E m : job' = [job EXCEPT ![w] = m] /\ (m = Idle \/ m.pc \notin ShareLabels)
  <2> DEFINE n == [job[w] EXCEPT !.pc = next]
  <2>1. n.pc = next /\ job' = [job EXCEPT ![w] = n]
    BY <1>1, <1>4 DEF Jobs, Goto, JobsOK
  <2>2. QED
    BY <2>1
<1>5. ASSUME NEW next \in Labels \ ShareLabels, NEW s,
             job' = [job EXCEPT ![w] = [@ EXCEPT !.sup = s, !.pc = next]]
      PROVE  \E m : job' = [job EXCEPT ![w] = m] /\ (m = Idle \/ m.pc \notin ShareLabels)
  <2> DEFINE n == [job[w] EXCEPT !.sup = s, !.pc = next]
  <2>1. n.pc = next /\ job' = [job EXCEPT ![w] = n]
    BY <1>1, <1>5 DEF Jobs, JobsOK
  <2>2. QED
    BY <2>1
<1>6. ASSUME NEW next \in Labels \ ShareLabels, NEW f,
             job' = [job EXCEPT ![w] = [@ EXCEPT !.found = f, !.pc = next]]
      PROVE  \E m : job' = [job EXCEPT ![w] = m] /\ (m = Idle \/ m.pc \notin ShareLabels)
  <2> DEFINE n == [job[w] EXCEPT !.found = f, !.pc = next]
  <2>1. n.pc = next /\ job' = [job EXCEPT ![w] = n]
    BY <1>1, <1>6 DEF Jobs, JobsOK
  <2>2. QED
    BY <2>1
<1>7. CASE CheckSupplierQuota(w) \/ CheckProductQuota(w) \/ CheckQuickAddQuota(w)
  BY <1>2, <1>4, <1>7
     DEF CheckSupplierQuota, CheckProductQuota, CheckQuickAddQuota, Proceed, Labels, ShareLabels
<1>8. CASE ReadOwners(w)
  <2> DEFINE sharers == {share[h].owner : h \in {h \in DOMAIN share :
                                             share[h].with = job[w].req.user}}
             next == IF job[w].req.op \in {"editProduct", "deleteProduct", "toggleOrder",
                                           "unarchive"} /\ job[w].found = 0
                     THEN "product" ELSE "supplier"
             n == [job[w] EXCEPT !.owners = {job[w].req.user} \cup sharers, !.pc = next]
  <2>1. job' = [job EXCEPT ![w] = n]
    BY <1>8 DEF ReadOwners, JobsOK
  <2>2. n.pc = next /\ next \notin ShareLabels
    BY <1>1 DEF Jobs, ShareLabels
  <2>3. QED
    BY <2>1, <2>2
<1>9. CASE FindSupplier(w)
  BY <1>2, <1>4, <1>5, <1>9 DEF FindSupplier, Labels, ShareLabels
<1>10. CASE FindProduct(w)
  BY <1>2, <1>6, <1>10 DEF FindProduct, Labels, ShareLabels
<1>11. CASE CheckDuplicate(w) \/ InsertSupplier(w) \/ CheckHostQuota(w) \/ MoveProduct(w)
  BY <1>2, <1>4, <1>5, <1>11
     DEF CheckDuplicate, InsertSupplier, CheckHostQuota, MoveProduct, Labels, ShareLabels
<1>12. CASE ReadHost(w)
  <2> DEFINE n == [job[w] EXCEPT !.row = account[job[w].sup.owner], !.pc = "hostQuota"]
  <2>1. n.pc = "hostQuota" /\ "hostQuota" \notin ShareLabels
    BY <1>1 DEF Jobs, ShareLabels
  <2>2. Respond(w) \/ job' = [job EXCEPT ![w] = n]
    BY <1>12 DEF ReadHost, JobsOK
  <2>3. QED
    BY <1>2, <2>1, <2>2
<1>13. CASE ResolveById(w) \/ ResolveByName(w) \/ ReadLastProduct(w)
            \/ ReadLastSupplier(w) \/ ReadFirstSupplier(w) \/ CountSuppliers(w)
  BY <1>2, <1>4, <1>5, <1>13
     DEF ResolveById, ResolveByName, ReadLastProduct, ReadLastSupplier, ReadFirstSupplier,
         CountSuppliers, UseSupplier, Labels, ShareLabels
<1>14. QED
  BY <1>2, <1>7, <1>8, <1>9, <1>10, <1>11, <1>12, <1>13
     DEF CatalogNext, RenameSupplier, DeleteSupplier, DeleteArchive, InsertProduct,
         UpdateProduct, DeleteProduct, ArchiveProductToday, UnarchiveProduct, SetOrdered

(* The handlers that end a share read the row they remember; the others of *)
(* module Sharing never come to those labels.                              *)
LEMMA SharingLabels ==
  ASSUME TablesOK, JobsOK, SharesKnown, NEW w \in Workers, SharingNext(w)
  PROVE  \E n : /\ job' = [job EXCEPT ![w] = n]
                /\ n = Idle \/ ShareJob(n, share', nextShare')
<1>1. PICK label \in Labels : At(w, label)
  BY DEF SharingNext, FindTarget, CheckExistingShare, CountShares, InsertShare,
     FindShareById, FindShareByUser, FindShareWithMe, DeleteShare, ActivateLicence, FindUser,
     GrantLicence, RevokeLicence, RevokeAdmin, PurgeShares, PurgeProducts, PurgeSuppliers,
     PurgeUser, Labels
<1>2. job[w] \in Jobs /\ job[w] # Idle /\ ShareJob(job[w], share, nextShare)
  BY <1>1, AtLabel DEF SharesKnown, Jobs, Labels, Idle
<1>3. CASE Respond(w)
  BY <1>3 DEF Respond
<1>4. ASSUME NEW next \in Labels \ ShareLabels, Goto(w, next)
      PROVE  \E n : job' = [job EXCEPT ![w] = n] /\ ShareJob(n, share', nextShare')
  <2> DEFINE n == [job[w] EXCEPT !.pc = next]
  <2>1. n.pc = next /\ job' = [job EXCEPT ![w] = n]
    BY <1>2, <1>4 DEF Jobs, Goto, JobsOK
  <2>2. ShareJob(n, share', nextShare')
    BY <2>1 DEF ShareJob, ShareLabels
  <2>3. QED
    BY <2>1, <2>2
<1>5. ASSUME NEW h \in DOMAIN share, UNCHANGED tables,
             job[w].req.user = IF job[w].req.op = "leave" THEN share[h].with ELSE share[h].owner,
             job' = [job EXCEPT ![w] = [@ EXCEPT !.found = h, !.pc = "deleteShare"]]
      PROVE  \E n : job' = [job EXCEPT ![w] = n] /\ ShareJob(n, share', nextShare')
  <2> DEFINE n == [job[w] EXCEPT !.found = h, !.pc = "deleteShare"]
  <2>1. n.pc = "deleteShare" /\ n.found = h /\ n.req = job[w].req
    BY <1>2 DEF Jobs
  <2>2. share' = share /\ nextShare' = nextShare /\ h < nextShare
    BY <1>5 DEF tables, TablesOK, IsTable
  <2>3. ShareJob(n, share', nextShare')
    BY <1>5, <2>1, <2>2 DEF ShareJob
  <2>4. job' = [job EXCEPT ![w] = n]
    BY <1>5 DEF JobsOK
  <2>5. QED
    BY <2>3, <2>4
<1>6. CASE FindShareById(w)
  <2>1. job[w].req.op = "unshare" /\ UNCHANGED tables
    BY <1>2, <1>6 DEF FindShareById, ShareJob, At
  <2>2. CASE Goto(w, "shareByUser")
    <3> DEFINE n == [job[w] EXCEPT !.pc = "shareByUser"]
    <3>1. n.pc = "shareByUser" /\ n.req = job[w].req /\ job' = [job EXCEPT ![w] = n]
      BY <1>2, <2>2 DEF Jobs, Goto, JobsOK
    <3>2. ShareJob(n, share', nextShare')
      BY <2>1, <3>1 DEF ShareJob
    <3>3. QED
      BY <3>1, <3>2
  <2>3. CASE job[w].req.id \in SharesOf(job[w].req.user)
    BY <1>5, <1>6, <2>1, <2>3 DEF FindShareById, SharesOf
  <2>4. QED
    BY <1>6, <2>2, <2>3 DEF FindShareById
<1>7. CASE FindShareByUser(w)
  <2>1. job[w].req.op = "unshare" /\ UNCHANGED tables
    BY <1>2, <1>7 DEF FindShareByUser, ShareJob, At
  <2>2. ASSUME NEW h \in SharedWith(job[w].req.user, job[w].req.id)
        PROVE  h \in DOMAIN share /\ share[h].owner = job[w].req.user
    BY DEF SharedWith, SharesOf
  <2>3. QED
    BY <1>3, <1>5, <1>7, <2>1, <2>2 DEF FindShareByUser, TakeShare
<1>8. CASE FindShareWithMe(w)
  <2>1. job[w].req.op = "leave" /\ UNCHANGED tables
    BY <1>2, <1>8 DEF FindShareWithMe, ShareJob, At
  <2>2. ASSUME NEW h \in SharedWith(job[w].req.id, job[w].req.user)
        PROVE  h \in DOMAIN share /\ share[h].with = job[w].req.user
    BY DEF SharedWith, SharesOf
  <2>3. QED
    BY <1>3, <1>5, <1>8, <2>1, <2>2 DEF FindShareWithMe, TakeShare
<1>9. CASE FindTarget(w) \/ CheckExistingShare(w) \/ CountShares(w)
  BY <1>3, <1>4, <1>9 DEF FindTarget, CheckExistingShare, CountShares, Labels, ShareLabels
<1>10. CASE FindUser(w) \/ RevokeLicence(w)
  BY <1>3, <1>4, <1>10 DEF FindUser, RevokeLicence, Labels, ShareLabels
<1>11. CASE PurgeShares(w) \/ PurgeProducts(w) \/ PurgeSuppliers(w)
  BY <1>4, <1>11 DEF PurgeShares, PurgeProducts, PurgeSuppliers, Labels, ShareLabels
<1>12. QED
  BY <1>3, <1>6, <1>7, <1>8, <1>9, <1>10, <1>11
     DEF SharingNext, InsertShare, DeleteShare, ActivateLicence, GrantLicence, RevokeAdmin,
         PurgeUser

(* Whoever steps, every handler's memory of a share stays right. *)
LEMMA SharesKnownKept ==
  ASSUME IInv, SharesKnown, [Next]_vars
  PROVE  SharesKnown'
<1>1. TablesOK /\ JobsOK /\ TablesOK' /\ JobsOK'
  BY IInvParts, NextPreserves DEF Preserved
<1>2. KeepsShares
  BY <1>1, SharesKept
<1>3. ASSUME NEW w \in Workers, NEW n, job' = [job EXCEPT ![w] = n],
             n = Idle \/ ShareJob(n, share', nextShare')
      PROVE  SharesKnown'
  <2>1. ASSUME NEW v \in Workers, job'[v] # Idle
        PROVE  ShareJob(job'[v], share', nextShare')
    <3>1. CASE v = w
      BY <1>1, <1>3, <2>1, <3>1 DEF JobsOK
    <3>2. CASE v # w
      <4>1. job'[v] = job[v] /\ job[v] \in Jobs
        BY <1>1, <1>3, <2>1, <3>2 DEF JobsOK
      <4>2. ShareJob(job[v], share, nextShare)
        BY <2>1, <4>1 DEF SharesKnown
      <4>3. QED
        BY <1>1, <1>2, <4>1, <4>2, ShareJobStays
    <3>3. QED
      BY <3>1, <3>2
  <2>2. QED
    BY <2>1 DEF SharesKnown
<1>4. ASSUME NEW w \in Workers, Begin(w)
      PROVE  SharesKnown'
  <2>1. PICK r \in Requests :
           job' = [job EXCEPT ![w] =
                [pc |-> FirstLabel(r.op), req |-> r, row |-> account[r.user],
                 owners |-> {}, sup |-> NoSupplier(r.user), found |-> 0]]
    BY <1>4 DEF Begin
  <2> DEFINE n == [pc |-> FirstLabel(r.op), req |-> r, row |-> account[r.user],
                   owners |-> {}, sup |-> NoSupplier(r.user), found |-> 0]
  <2>2. r.op \in Operations
    BY RequestsAssumption DEF RequestType
  <2>3. ShareJob(n, share', nextShare')
    BY <2>2 DEF ShareJob, FirstLabel, Operations
  <2>4. QED
    BY <1>3, <2>1, <2>3
<1>5. ASSUME NEW w \in Workers, CatalogNext(w)
      PROVE  SharesKnown'
  <2>1. PICK n : job' = [job EXCEPT ![w] = n] /\ (n = Idle \/ n.pc \notin ShareLabels)
    BY <1>1, <1>5, CatalogLabels
  <2>2. n.pc \notin ShareLabels => ShareJob(n, share', nextShare')
    BY DEF ShareJob, ShareLabels
  <2>3. QED
    BY <1>3, <2>1, <2>2
<1>6. ASSUME NEW w \in Workers, SharingNext(w)
      PROVE  SharesKnown'
  BY <1>1, <1>3, <1>6, SharingLabels
<1>7. ASSUME NEW v \in Workers, job[v] # Idle, job'[v] # Idle,
             job'[v].pc = job[v].pc, job'[v].req = job[v].req, job'[v].found = job[v].found
      PROVE  ShareJob(job'[v], share', nextShare')
  <2>1. job[v] \in Jobs /\ ShareJob(job[v], share, nextShare)
    BY <1>1, <1>7 DEF SharesKnown, JobsOK
  <2>2. ShareJob(job[v], share', nextShare')
    BY <1>1, <1>2, <2>1, ShareJobStays
  <2>3. QED
    BY <1>7, <2>2 DEF ShareJob
<1>8. ASSUME NEW u \in Users, LicenceExpires(u)
      PROVE  SharesKnown'
  <2>1. ASSUME NEW v \in Workers, job'[v] # Idle
        PROVE  ShareJob(job'[v], share', nextShare')
    <3>1. job[v] # Idle
      BY <1>8, <2>1 DEF LicenceExpires
    <3>2. job[v] \in Jobs
      BY <1>1, <3>1 DEF JobsOK
    <3>3. /\ job'[v].pc = job[v].pc /\ job'[v].req = job[v].req
          /\ job'[v].found = job[v].found
      BY <1>8, <3>2 DEF LicenceExpires, Jobs
    <3>4. QED
      BY <1>7, <2>1, <3>1, <3>3
  <2>2. QED
    BY <2>1 DEF SharesKnown
<1>9. CASE UNCHANGED vars
  BY <1>9 DEF vars, SharesKnown
<1>10. QED
  BY <1>4, <1>5, <1>6, <1>8, <1>9 DEF Next

(* The row a DELETE takes is the one remembered. *)
OwnShares ==
  \A w \in Workers : At(w, "deleteShare") /\ job'[w] = Idle =>
    \A h \in DOMAIN share \ DOMAIN share' :
      job[w].req.user = IF job[w].req.op = "leave" THEN share[h].with ELSE share[h].owner

(* Another worker's step in the meantime may delete other shares, but then *)
(* this worker has not answered.                                           *)
LEMMA OwnSharesStep ==
  ASSUME IInv, SharesKnown, [Next]_vars
  PROVE  OwnShares
<1> SUFFICES ASSUME NEW w \in Workers, At(w, "deleteShare"), job'[w] = Idle,
                    NEW h \in DOMAIN share \ DOMAIN share'
             PROVE  job[w].req.user = IF job[w].req.op = "leave" THEN share[h].with
                                      ELSE share[h].owner
  BY DEF OwnShares
<1>1. TablesOK /\ JobsOK /\ "deleteShare" \in Labels
  BY IInvParts DEF Labels
<1>2. job[w] \in Jobs /\ job[w] # Idle /\ job[w].pc = "deleteShare"
  BY <1>1, AtLabel DEF Jobs, Idle, At
<1>3. ShareJob(job[w], share, nextShare)
  BY <1>2 DEF SharesKnown
<1>4. DeleteShare(w)
  <2>1. ASSUME NEW v \in Workers, Begin(v) PROVE FALSE
    BY <2>1 DEF Begin, tables
  <2>2. ASSUME NEW v \in Workers, CatalogNext(v) PROVE FALSE
    <3>1. share' # share
      OBVIOUS
    <3>2. QED
      BY <2>2, <3>1
         DEF CatalogNext, CheckSupplierQuota, CheckProductQuota, CheckQuickAddQuota,
     ReadOwners, FindSupplier, FindProduct, CheckDuplicate, InsertSupplier, RenameSupplier,
     DeleteSupplier, DeleteArchive, ReadHost,
     CheckHostQuota, InsertProduct, MoveProduct, UpdateProduct, DeleteProduct,
     ArchiveProductToday, UnarchiveProduct, SetOrdered, ResolveById, ResolveByName,
     ReadLastProduct, ReadLastSupplier, ReadFirstSupplier, CountSuppliers, tables
  <2>3. ASSUME NEW v \in Workers, SharingNext(v), ~DeleteShare(w) PROVE FALSE
    <3>1. v # w
      BY <1>2, <2>3
         DEF SharingNext, FindTarget, CheckExistingShare, CountShares, InsertShare,
     FindShareById, FindShareByUser, FindShareWithMe, ActivateLicence, FindUser,
     GrantLicence, RevokeLicence, RevokeAdmin, PurgeShares, PurgeProducts, PurgeSuppliers,
     PurgeUser, At
    <3>2. \E n : job' = [job EXCEPT ![v] = n]
      BY <1>1, <2>3, SharingLabels
    <3>3. job'[w] = job[w]
      BY <1>1, <3>1, <3>2 DEF JobsOK
    <3>4. QED
      BY <1>2, <3>3
  <2>4. ASSUME NEW u \in Users, LicenceExpires(u) PROVE FALSE
    BY <2>4 DEF LicenceExpires, SetLicence, SetAccount
  <2>5. ~UNCHANGED vars
    BY DEF vars
  <2>6. QED
    BY <2>1, <2>2, <2>3, <2>4, <2>5 DEF Next
<1>5. h = job[w].found
  BY <1>4 DEF DeleteShare, Without
<1>6. QED
  BY <1>2, <1>3, <1>5 DEF ShareJob

(* A handler that ends a share ends one of its caller's, whatever other    *)
(* workers do between the SELECT and the DELETE.                           *)
THEOREM OwnSharesOnly == Spec => OnlyOwnShares
<1>1. Init => SharesKnown
  BY DEF Init, SharesKnown
<1>2. IInv /\ SharesKnown /\ [Next]_vars => SharesKnown'
  BY SharesKnownKept
<1>3. IInv /\ SharesKnown /\ [Next]_vars => [OwnShares]_vars
  BY OwnSharesStep
<1>4. [][OwnShares]_vars => OnlyOwnShares
  BY DEF OnlyOwnShares, OwnShares
<1>5. QED
  BY <1>1, <1>2, <1>3, <1>4, Invariance, PTL DEF Spec

-----------------------------------------------------------------------------
(***************************************************************************)
(* The server as `npm start` runs it, one worker over the database, for    *)
(* any users, requests and quotas: what a handler has checked is still so  *)
(* when it acts on it.  From that follow the rules no key of a table       *)
(* enforces (names, shares, quotas) and that a request touches only rows   *)
(* its user has access to.                                                 *)
(*                                                                         *)
(* The invariant, HandlersOK, says label by label what the handler knows   *)
(* (OnPath, MayUse, HasRoom, IsFree).  A read step extends it, with the    *)
(* tables unchanged (ReadHeld); a write usually answers, and then nothing  *)
(* is left to know (AnswerHeld).  Each action has one lemma.  The clock,   *)
(* which is not the worker's, can end a licence at any point: it turns no  *)
(* trial account into a licensed one and leaves the counts alone.          *)
(***************************************************************************)

(* npm start: one worker, so a handler's statements meet no other's. *)
OneWorker == \A v, w \in Workers : v = w

(* The labels each operation goes through. *)
LabelsOf(op) ==
  CASE op = "addSupplier"    -> {"supplierQuota", "duplicate", "insertSupplier"}
    [] op = "editSupplier"   -> {"owners", "supplier", "duplicate", "renameSupplier"}
    [] op = "deleteSupplier" -> {"owners", "supplier", "deleteSupplier"}
    [] op = "deleteArchive"  -> {"owners", "supplier", "deleteArchive"}
    [] op = "addProduct"     -> {"productQuota", "owners", "supplier", "host", "hostQuota",
                                 "insertProduct"}
    [] op = "editProduct"    -> {"owners", "product", "supplier", "moveProduct",
                                 "updateProduct"}
    [] op = "deleteProduct"  -> {"owners", "product", "deleteProduct"}
    [] op = "toggleOrder"    -> {"owners", "product", "archive"}
    [] op = "unarchive"      -> {"owners", "product", "unarchive"}
    [] op = "quickAdd"       -> QuickAddLabels
    [] op = "share"          -> {"target", "existing", "countShares", "insertShare"}
    [] op = "unshare"        -> {"shareById", "shareByUser", "deleteShare"}
    [] op = "leave"          -> {"ownShare", "deleteShare"}
    [] op = "activate"       -> {"activate"}
    [] op = "grant"          -> {"readUser", "grant"}
    [] op = "revoke"         -> {"readUser", "revoke", "unadmin"}
    [] op = "deleteUser"     -> {"readUser", "purgeShares", "purgeProducts",
                                 "purgeSuppliers", "purgeUser"}

ProductOps == {"editProduct", "deleteProduct", "toggleOrder", "unarchive"}
CatalogOps == ProductOps \cup {"addSupplier", "editSupplier", "deleteSupplier",
                               "deleteArchive", "addProduct", "quickAdd"}

(* A handler is where its operation leads; a product is looked for once. *)
OnPath(j) ==
  /\ j.req \in Requests
  /\ j.pc \in LabelsOf(j.req.op)
  /\ j.req.op \in ProductOps \ {"editProduct"} /\ j.pc \in {"owners", "product"} => j.found = 0
  /\ j.req.op \in ProductOps /\ j.pc \in {"supplier"} => j.found # 0
  /\ j.req.op = "addSupplier" => j.sup = NoSupplier(j.req.user)
  /\ j.pc = "resolveId" => j.req.to # 0
  /\ j.pc = "resolveName" => j.req.name # NoName

Reaches(u, owner) ==
  owner = u \/ \E h \in DOMAIN share : share[h].owner = owner /\ share[h].with = u

(* The caller may touch what he found. *)
MayUse(j) ==
  LET u == j.req.user IN
  /\ j.req.op \in CatalogOps => Reaches(u, j.sup.owner)
  /\ j.pc \in {"supplier", "product"} => \A o \in j.owners : Reaches(u, o)
  /\ j.req.op \in ProductOps /\ j.found \in DOMAIN product => Reaches(u, product[j.found].owner)

(* A trial account's row still says so. *)
SeenFree(u, row) == NeverLicensed(u) => row.licence = "free" /\ ~IsAdmin(u, row)

SupplierRoom(u) == NeverLicensed(u) => Cardinality(SuppliersOf(u)) < FreeMaxSuppliers
ProductRoom(u) == NeverLicensed(u) => Cardinality(ProductsOf(u)) < FreeMaxProducts

QuotaLabels == {"supplierQuota", "productQuota", "quickAddQuota", "resolveId", "resolveName",
                "lastProduct", "lastSupplier", "firstSupplier", "countSuppliers"}

(* The row a quota is checked with, and what the check has shown. *)
HasRoom(j) ==
  LET u == j.req.user IN
  /\ j.pc \in QuotaLabels => SeenFree(u, j.row)
  /\ j.pc = "hostQuota" => SeenFree(j.sup.owner, j.row)
  /\ j.pc \in {"duplicate", "insertSupplier"} /\ j.req.op # "editSupplier" => SupplierRoom(u)
  /\ j.req.op = "addProduct" /\ j.pc \in {"owners", "supplier"} => ProductRoom(u)
  /\ j.req.op = "quickAdd" /\ j.pc # "quickAddQuota" => ProductRoom(u)
  /\ j.pc = "insertProduct" => ProductRoom(ProductOwner(j))

NewName(j) == IF j.req.name = NoName THEN Unnamed ELSE j.req.name

(* The name is free, and the share has room. *)
IsFree(j) ==
  LET u == j.req.user IN
  /\ j.pc = "insertSupplier" => ~NameTaken(u, NewName(j), 0)
  /\ j.pc = "renameSupplier" => ~NameTaken(j.sup.owner, j.req.name, j.sup.id)
  /\ j.pc = "countSuppliers" => SuppliersOf(u) = {}
  /\ j.pc = "insertShare" => Cardinality(SharesOf(u)) < MaxShares

Held(j) == OnPath(j) /\ MayUse(j) /\ HasRoom(j) /\ IsFree(j)

HandlersOK == \A w \in Workers : job[w] # Idle => Held(job[w])

(* A read leaves every question about the tables with its answer. *)
LEMMA SameTables ==
  ASSUME UNCHANGED tables
  PROVE  /\ \A u : /\ SuppliersOf(u)' = SuppliersOf(u)
                   /\ ProductsOf(u)' = ProductsOf(u)
                   /\ SharesOf(u)' = SharesOf(u)
                   /\ NeverLicensed(u)' <=> NeverLicensed(u)
         /\ \A u, o : Reaches(u, o)' <=> Reaches(u, o)
         /\ \A o, n, s : NameTaken(o, n, s)' <=> NameTaken(o, n, s)
  BY DEF tables, SuppliersOf, ProductsOf, SharesOf, NeverLicensed, IsAdmin, Reaches, NameTaken

(* The only worker answers. *)
LEMMA AnswerHeld ==
  ASSUME OneWorker, JobsOK, NEW w \in Workers, Respond(w)
  PROVE  HandlersOK'
  BY DEF OneWorker, Respond, HandlersOK, JobsOK

(* The only worker goes on, having changed its own memory only: what it    *)
(* takes for true of the tables must be true already.                      *)
LEMMA ReadHeld ==
  ASSUME OneWorker, JobsOK, NEW w \in Workers, UNCHANGED tables, NEW n,
         job' = [job EXCEPT ![w] = n], Held(n)
  PROVE  HandlersOK'
<1>1. job'[w] = n
  BY DEF JobsOK
<1>2. OnPath(job[w])'
  BY <1>1 DEF OnPath, Held
<1>3. MayUse(job[w])'
  BY <1>1, SameTables DEF MayUse, Held, tables
<1>4. HasRoom(job[w])'
  BY <1>1, SameTables DEF HasRoom, Held, SeenFree, SupplierRoom, ProductRoom, ProductOwner, IsAdmin
<1>5. IsFree(job[w])'
  BY <1>1, SameTables DEF IsFree, Held, NewName
<1>6. QED
  BY <1>2, <1>3, <1>4, <1>5 DEF HandlersOK, Held, OneWorker

(* What a handler may rely on when it runs. *)
LEMMA AtHeld ==
  ASSUME JobsOK, HandlersOK, NEW w \in Workers, NEW label \in Labels, At(w, label)
  PROVE  job[w] \in Jobs /\ job[w].pc = label /\ Held(job[w])
<1>1. job[w] \in Jobs
  BY AtLabel
<1>2. job[w] # Idle
  BY <1>1 DEF Jobs, Labels, Idle
<1>3. QED
  BY <1>1, <1>2 DEF HandlersOK, At

(* Only the label changes: what the next statement needs to know is all    *)
(* there is to show.                                                       *)
LEMMA GotoHeld ==
  ASSUME OneWorker, JobsOK, HandlersOK, NEW w \in Workers, UNCHANGED tables,
         NEW label \in Labels, At(w, label),
         NEW next \in Labels \ {"supplier", "product", "hostQuota"}, Goto(w, next),
         NEW n, n = [job[w] EXCEPT !.pc = next], OnPath(n), HasRoom(n), IsFree(n)
  PROVE  HandlersOK'
<1>1. job[w] \in Jobs /\ Held(job[w])
  BY AtHeld
<1>2. /\ n.req = job[w].req /\ n.sup = job[w].sup /\ n.owners = job[w].owners
      /\ n.found = job[w].found /\ n.pc = next
  BY <1>1 DEF Jobs
<1>3. MayUse(n)
  BY <1>1, <1>2 DEF Held, MayUse
<1>4. job' = [job EXCEPT ![w] = n]
  BY DEF Goto, JobsOK
<1>5. QED
  BY <1>3, <1>4, ReadHeld DEF Held

(* A request starts with nothing to be wrong about. *)
LEMMA BeginHeld ==
  ASSUME OneWorker, TablesOK, JobsOK, HandlersOK, NEW w \in Workers, Begin(w)
  PROVE  HandlersOK'
<1>1. PICK r \in Requests :
         /\ account[r.user].exists
         /\ job' = [job EXCEPT ![w] =
              [pc |-> FirstLabel(r.op), req |-> r, row |-> account[r.user],
               owners |-> {}, sup |-> NoSupplier(r.user), found |-> 0]]
  BY DEF Begin
<1> DEFINE n == [pc |-> FirstLabel(r.op), req |-> r, row |-> account[r.user],
                 owners |-> {}, sup |-> NoSupplier(r.user), found |-> 0]
<1>2. r.op \in Operations
  BY RequestsAssumption DEF RequestType
<1>3. OnPath(n)
  BY <1>2 DEF OnPath, FirstLabel, LabelsOf, Operations, ProductOps, QuickAddLabels
<1>4. 0 \notin DOMAIN product
  BY DEF TablesOK, IsTable
<1>5. MayUse(n)
  BY <1>4 DEF MayUse, NoSupplier, Reaches
<1>6. FirstLabel(r.op) \in {"supplierQuota", "productQuota", "quickAddQuota", "owners",
                            "target", "shareById", "ownShare", "activate", "readUser"}
  BY <1>2 DEF FirstLabel, Operations
<1>7. HasRoom(n)
  <2>1. SeenFree(r.user, account[r.user])
    BY DEF SeenFree, NeverLicensed
  <2>2. r.op = "quickAdd" => n.pc = "quickAddQuota"
    BY DEF FirstLabel
  <2>3. r.op = "addProduct" => n.pc = "productQuota"
    BY DEF FirstLabel
  <2>4. QED
    BY <1>6, <2>1, <2>2, <2>3 DEF HasRoom
<1>8. IsFree(n)
  BY <1>6 DEF IsFree
<1>9. UNCHANGED tables
  BY DEF Begin
<1>10. QED
  BY <1>1, <1>3, <1>5, <1>7, <1>8, <1>9, ReadHeld DEF Held

(* A quota check that passes has shown that there is room. *)
LEMMA CheckQuotaHeld ==
  ASSUME OneWorker, JobsOK, HandlersOK, NEW w \in Workers,
         CheckSupplierQuota(w) \/ CheckProductQuota(w) \/ CheckQuickAddQuota(w)
  PROVE  HandlersOK'
<1>1. UNCHANGED tables
  BY DEF CheckSupplierQuota, CheckProductQuota, CheckQuickAddQuota
<1>2. CASE Respond(w)
  BY <1>2, AnswerHeld
<1>3. CASE CheckSupplierQuota(w) /\ ~Respond(w)
  <2> DEFINE n == [job[w] EXCEPT !.pc = "duplicate"]
  <2>1. job[w] \in Jobs /\ job[w].pc = "supplierQuota" /\ Held(job[w])
    BY <1>3, AtHeld DEF CheckSupplierQuota, Labels
  <2>2. /\ n.req = job[w].req /\ n.sup = job[w].sup /\ n.row = job[w].row
        /\ n.found = job[w].found /\ n.pc = "duplicate"
    BY <2>1 DEF Jobs
  <2>3. n.req.op = "addSupplier" /\ n.req.op \in Operations
    BY <2>1, <2>2 DEF Held, OnPath, LabelsOf, Jobs, RequestType, Operations, QuickAddLabels
  <2>4. OnPath(n)
    BY <2>1, <2>2, <2>3 DEF Held, OnPath, LabelsOf, ProductOps
  <2>5. SupplierRoom(n.req.user)
    BY <1>3, <2>1, <2>2 DEF CheckSupplierQuota, Proceed, MayAddSupplier, InForce, Held, HasRoom,
       QuotaLabels, SeenFree, SupplierRoom
  <2>6. HasRoom(n)
    BY <2>2, <2>3, <2>5 DEF HasRoom, QuotaLabels
  <2>7. IsFree(n)
    BY <2>2 DEF IsFree
  <2>8. Goto(w, "duplicate") /\ At(w, "supplierQuota")
    BY <1>3 DEF CheckSupplierQuota, Proceed
  <2>9. QED
    BY <1>1, <2>4, <2>6, <2>7, <2>8, GotoHeld DEF Labels
<1>4. CASE CheckProductQuota(w) /\ ~Respond(w)
  <2> DEFINE n == [job[w] EXCEPT !.pc = "owners"]
  <2>1. job[w] \in Jobs /\ job[w].pc = "productQuota" /\ Held(job[w])
    BY <1>4, AtHeld DEF CheckProductQuota, Labels
  <2>2. /\ n.req = job[w].req /\ n.sup = job[w].sup /\ n.row = job[w].row
        /\ n.found = job[w].found /\ n.pc = "owners"
    BY <2>1 DEF Jobs
  <2>3. n.req.op = "addProduct" /\ n.req.op \in Operations
    BY <2>1, <2>2 DEF Held, OnPath, LabelsOf, Jobs, RequestType, Operations, QuickAddLabels
  <2>4. OnPath(n)
    BY <2>1, <2>2, <2>3 DEF Held, OnPath, LabelsOf, ProductOps
  <2>5. ProductRoom(n.req.user)
    BY <1>4, <2>1, <2>2 DEF CheckProductQuota, Proceed, MayAddProduct, InForce, Held, HasRoom,
       QuotaLabels, SeenFree, ProductRoom
  <2>6. HasRoom(n)
    BY <2>2, <2>3, <2>5 DEF HasRoom, QuotaLabels
  <2>7. IsFree(n)
    BY <2>2 DEF IsFree
  <2>8. Goto(w, "owners") /\ At(w, "productQuota")
    BY <1>4 DEF CheckProductQuota, Proceed
  <2>9. QED
    BY <1>1, <2>4, <2>6, <2>7, <2>8, GotoHeld DEF Labels
<1>5. CASE CheckQuickAddQuota(w) /\ ~Respond(w)
  <2>1. job[w] \in Jobs /\ job[w].pc = "quickAddQuota" /\ Held(job[w])
    BY <1>5, AtHeld DEF CheckQuickAddQuota, Labels
  <2>2. PICK next \in {"resolveId", "resolveName", "lastProduct"} :
           /\ Goto(w, next)
           /\ next = "resolveId" => job[w].req.to # 0
           /\ next = "resolveName" => job[w].req.name # NoName
    BY <1>5 DEF CheckQuickAddQuota, Proceed
  <2> DEFINE n == [job[w] EXCEPT !.pc = next]
  <2>3. /\ n.req = job[w].req /\ n.sup = job[w].sup /\ n.row = job[w].row
        /\ n.found = job[w].found /\ n.pc = next
    BY <2>1 DEF Jobs
  <2>4. n.req.op = "quickAdd" /\ n.req.op \in Operations
    BY <2>1, <2>3 DEF Held, OnPath, LabelsOf, Jobs, RequestType, Operations
  <2>5. OnPath(n)
    BY <2>1, <2>2, <2>3, <2>4 DEF Held, OnPath, LabelsOf, ProductOps, QuickAddLabels
  <2>6. ProductRoom(n.req.user) /\ SeenFree(n.req.user, n.row)
    BY <1>5, <2>1, <2>3 DEF CheckQuickAddQuota, Proceed, FlagLicensed, Held, HasRoom,
       QuotaLabels, SeenFree, ProductRoom
  <2>7. HasRoom(n)
    BY <2>2, <2>3, <2>4, <2>6 DEF HasRoom
  <2>8. IsFree(n)
    BY <2>2, <2>3 DEF IsFree
  <2>9. At(w, "quickAddQuota")
    BY <1>5 DEF CheckQuickAddQuota
  <2>10. QED
    BY <1>1, <2>2, <2>5, <2>7, <2>8, <2>9, GotoHeld DEF Labels
<1>6. QED
  BY <1>2, <1>3, <1>4, <1>5

(* The owners read are those the caller reaches. *)
LEMMA ReadOwnersHeld ==
  ASSUME OneWorker, JobsOK, HandlersOK, NEW w \in Workers, ReadOwners(w)
  PROVE  HandlersOK'
<1> DEFINE u == job[w].req.user
           sharers == {share[h].owner : h \in {h \in DOMAIN share : share[h].with = u}}
           next == IF job[w].req.op \in ProductOps /\ job[w].found = 0
                   THEN "product" ELSE "supplier"
           n == [job[w] EXCEPT !.owners = {u} \cup sharers, !.pc = next]
<1>1. UNCHANGED tables
  BY DEF ReadOwners
<1>2. job' = [job EXCEPT ![w] = n]
  BY DEF ReadOwners, ProductOps, JobsOK
<1>3. job[w] \in Jobs /\ job[w].pc = "owners" /\ Held(job[w])
  BY AtHeld DEF ReadOwners, Labels
<1>4. /\ n.req = job[w].req /\ n.sup = job[w].sup /\ n.owners = {u} \cup sharers
      /\ n.found = job[w].found /\ n.pc = next
  BY <1>3 DEF Jobs
<1>5. n.req.op \in Operations
  BY <1>3, <1>4 DEF Jobs, RequestType
<1>6. OnPath(n)
  BY <1>3, <1>4, <1>5
     DEF Held, OnPath, LabelsOf, ProductOps, Operations, QuickAddLabels
<1>7. MayUse(n)
  <2>1. \A o \in {u} \cup sharers : Reaches(u, o)
    BY DEF Reaches
  <2>2. QED
    BY <1>3, <1>4, <2>1 DEF Held, MayUse
<1>8. HasRoom(n)
  <2>1. n.req.op # "quickAdd"
    BY <1>3, <1>4 DEF Held, OnPath, LabelsOf, QuickAddLabels
  <2>2. QED
    BY <1>3, <1>4, <2>1 DEF Held, HasRoom, QuotaLabels
<1>9. IsFree(n)
  BY <1>4 DEF IsFree
<1>10. QED
  BY <1>1, <1>2, <1>6, <1>7, <1>8, <1>9, ReadHeld DEF Held

(* The supplier found is one the caller reaches. *)
LEMMA FindSupplierHeld ==
  ASSUME OneWorker, JobsOK, HandlersOK, NEW w \in Workers, FindSupplier(w)
  PROVE  HandlersOK'
<1> DEFINE j == job[w]
           s == IF j.req.op \in {"addProduct", "editProduct"} THEN j.req.to ELSE j.req.id
           next == CASE j.req.op = "editSupplier"   -> "duplicate"
                     [] j.req.op = "deleteSupplier" -> "deleteSupplier"
                     [] j.req.op = "deleteArchive"  -> "deleteArchive"
                     [] j.req.op = "editProduct"    -> "moveProduct"
                     [] OTHER -> IF supplier[s].owner # j.req.user THEN "host"
                                 ELSE "insertProduct"
<1>1. UNCHANGED tables /\ At(w, "supplier")
  BY DEF FindSupplier
<1>2. j \in Jobs /\ j.pc = "supplier" /\ Held(j)
  BY <1>1, AtHeld DEF Labels
<1>3. j.req.op \in {"editSupplier", "deleteSupplier", "deleteArchive", "addProduct", "editProduct"}
  BY <1>2 DEF Held, OnPath, LabelsOf, Jobs, RequestType, Operations, QuickAddLabels
<1>4. CASE Respond(w)
  BY <1>4, AnswerHeld
<1>5. CASE j.req.op = "editProduct" /\ Goto(w, "updateProduct")
  <2> DEFINE n == [j EXCEPT !.pc = "updateProduct"]
  <2>1. /\ n.req = j.req /\ n.sup = j.sup /\ n.owners = j.owners
        /\ n.found = j.found /\ n.pc = "updateProduct"
    BY <1>2 DEF Jobs
  <2>2. OnPath(n)
    BY <1>2, <1>5, <2>1 DEF Held, OnPath, LabelsOf
  <2>3. HasRoom(n) /\ IsFree(n)
    BY <1>5, <2>1 DEF HasRoom, IsFree, QuotaLabels
  <2>4. QED
    BY <1>1, <1>5, <2>2, <2>3, GotoHeld DEF Labels
<1>6. CASE /\ s \in DOMAIN supplier /\ supplier[s].owner \in j.owners
           /\ job' = [job EXCEPT ![w] =
                [@ EXCEPT !.sup = [id |-> s, owner |-> supplier[s].owner], !.pc = next]]
  <2> DEFINE n == [j EXCEPT !.sup = [id |-> s, owner |-> supplier[s].owner], !.pc = next]
  <2>1. job' = [job EXCEPT ![w] = n]
    BY <1>6 DEF JobsOK
  <2>2. /\ n.req = j.req /\ n.sup.owner = supplier[s].owner /\ n.owners = j.owners
        /\ n.found = j.found /\ n.pc = next
    BY <1>2 DEF Jobs
  <2>3. OnPath(n)
    BY <1>2, <1>3, <2>2 DEF Held, OnPath, LabelsOf, ProductOps
  <2>4. MayUse(n)
    BY <1>2, <1>3, <1>6, <2>2 DEF Held, MayUse
  <2>5. HasRoom(n)
    BY <1>2, <1>3, <2>2 DEF Held, HasRoom, QuotaLabels, ProductOwner
  <2>6. IsFree(n)
    BY <1>3, <2>2 DEF IsFree
  <2>7. QED
    BY <1>1, <2>1, <2>3, <2>4, <2>5, <2>6, ReadHeld DEF Held
<1>7. QED
  BY <1>4, <1>5, <1>6 DEF FindSupplier

(* The product found is one the caller reaches. *)
LEMMA FindProductHeld ==
  ASSUME OneWorker, JobsOK, HandlersOK, NEW w \in Workers, FindProduct(w)
  PROVE  HandlersOK'
<1> DEFINE j == job[w]
           p == j.req.id
           next == CASE j.req.op = "editProduct" -> IF j.req.to # 0 THEN "owners"
                                                    ELSE "updateProduct"
                     [] j.req.op = "deleteProduct" -> "deleteProduct"
                     [] j.req.op = "toggleOrder"   -> "archive"
                     [] OTHER -> "unarchive"
           n == [j EXCEPT !.found = p, !.pc = next]
<1>1. UNCHANGED tables /\ At(w, "product")
  BY DEF FindProduct
<1>2. j \in Jobs /\ j.pc = "product" /\ Held(j)
  BY <1>1, AtHeld DEF Labels
<1>3. j.req.op \in ProductOps
  BY <1>2 DEF Held, OnPath, LabelsOf, Jobs, RequestType, Operations, QuickAddLabels, ProductOps
<1>4. CASE Respond(w)
  BY <1>4, AnswerHeld
<1>5. CASE /\ p \in DOMAIN product /\ product[p].owner \in j.owners
           /\ job' = [job EXCEPT ![w] = [@ EXCEPT !.found = p, !.pc = next]]
  <2>1. job' = [job EXCEPT ![w] = n]
    BY <1>5 DEF JobsOK
  <2>2. /\ n.req = j.req /\ n.sup = j.sup /\ n.owners = j.owners
        /\ n.found = p /\ n.pc = next
    BY <1>2 DEF Jobs
  <2>3. OnPath(n)
    BY <1>2, <1>3, <2>2 DEF Held, OnPath, LabelsOf, ProductOps
  <2>4. MayUse(n)
    BY <1>2, <1>5, <2>2 DEF Held, MayUse
  <2>5. HasRoom(n) /\ IsFree(n)
    BY <1>3, <2>2 DEF HasRoom, IsFree, QuotaLabels, ProductOps
  <2>6. QED
    BY <1>1, <2>1, <2>3, <2>4, <2>5, ReadHeld DEF Held
<1>6. QED
  BY <1>4, <1>5 DEF FindProduct

(* A name that passes is free, before an insert and before a rename. *)
LEMMA CheckDuplicateHeld ==
  ASSUME OneWorker, JobsOK, HandlersOK, NEW w \in Workers, CheckDuplicate(w)
  PROVE  HandlersOK'
<1> DEFINE j == job[w]
           next == IF j.req.op = "addSupplier" THEN "insertSupplier" ELSE "renameSupplier"
           n == [j EXCEPT !.pc = next]
<1>1. UNCHANGED tables /\ At(w, "duplicate")
  BY DEF CheckDuplicate
<1>2. j \in Jobs /\ j.pc = "duplicate" /\ Held(j)
  BY <1>1, AtHeld DEF Labels
<1>3. j.req.op \in {"addSupplier", "editSupplier"}
  BY <1>2 DEF Held, OnPath, LabelsOf, Jobs, RequestType, Operations, QuickAddLabels
<1>4. CASE Respond(w)
  BY <1>4, AnswerHeld
<1>5. CASE /\ j.req.name # NoName /\ ~NameTaken(j.sup.owner, j.req.name, j.sup.id)
           /\ Goto(w, next)
  <2>1. n.req = j.req /\ n.sup = j.sup /\ n.found = j.found /\ n.pc = next
    BY <1>2 DEF Jobs
  <2>2. OnPath(n)
    BY <1>2, <1>3, <2>1 DEF Held, OnPath, LabelsOf, ProductOps
  <2>3. HasRoom(n)
    BY <1>2, <1>3, <2>1 DEF Held, HasRoom, QuotaLabels
  <2>4. IsFree(n)
    BY <1>2, <1>3, <1>5, <2>1 DEF Held, OnPath, IsFree, NewName, NoSupplier
  <2>5. next \in Labels \ {"supplier", "product", "hostQuota"}
    BY DEF Labels
  <2>6. QED
    BY <1>1, <1>5, <2>2, <2>3, <2>4, <2>5, GotoHeld DEF Labels
<1>6. QED
  BY <1>4, <1>5 DEF CheckDuplicate

(* The quota of a shared supplier's owner, with the owner's row.           *)
LEMMA HostHeld ==
  ASSUME OneWorker, JobsOK, HandlersOK, NEW w \in Workers,
         ReadHost(w) \/ CheckHostQuota(w)
  PROVE  HandlersOK'
<1> DEFINE j == job[w]
<1>1. UNCHANGED tables
  BY DEF ReadHost, CheckHostQuota
<1>2. CASE Respond(w)
  BY <1>2, AnswerHeld
<1>3. CASE ReadHost(w) /\ ~Respond(w)
  <2> DEFINE n == [j EXCEPT !.row = account[j.sup.owner], !.pc = "hostQuota"]
  <2>1. j \in Jobs /\ j.pc = "host" /\ Held(j)
    BY <1>3, AtHeld DEF ReadHost, Labels
  <2>2. j.req.op = "addProduct"
    BY <2>1 DEF Held, OnPath, LabelsOf, Jobs, RequestType, Operations, QuickAddLabels
  <2>3. job' = [job EXCEPT ![w] = n]
    BY <1>3 DEF JobsOK, ReadHost
  <2>4. /\ n.req = j.req /\ n.sup = j.sup /\ n.row = account[j.sup.owner]
        /\ n.found = j.found /\ n.pc = "hostQuota"
    BY <2>1 DEF Jobs
  <2>5. OnPath(n)
    BY <2>1, <2>2, <2>4 DEF Held, OnPath, LabelsOf, ProductOps
  <2>6. MayUse(n)
    BY <2>1, <2>2, <2>4 DEF Held, MayUse, ProductOps
  <2>7. HasRoom(n) /\ IsFree(n)
    BY <2>2, <2>4 DEF HasRoom, IsFree, QuotaLabels, SeenFree, NeverLicensed
  <2>8. QED
    BY <1>1, <2>3, <2>5, <2>6, <2>7, ReadHeld DEF Held
<1>4. CASE CheckHostQuota(w) /\ ~Respond(w)
  <2> DEFINE n == [j EXCEPT !.pc = "insertProduct"]
  <2>1. j \in Jobs /\ j.pc = "hostQuota" /\ Held(j)
    BY <1>4, AtHeld DEF CheckHostQuota, Labels
  <2>2. j.req.op = "addProduct"
    BY <2>1 DEF Held, OnPath, LabelsOf, Jobs, RequestType, Operations, QuickAddLabels
  <2>3. /\ n.req = j.req /\ n.sup = j.sup /\ n.row = j.row
        /\ n.found = j.found /\ n.pc = "insertProduct"
    BY <2>1 DEF Jobs
  <2>4. OnPath(n)
    BY <2>1, <2>2, <2>3 DEF Held, OnPath, LabelsOf, ProductOps
  <2>5. ProductRoom(j.sup.owner)
    BY <1>4, <2>1 DEF CheckHostQuota, MayAddProduct, InForce, Held, HasRoom, SeenFree, ProductRoom
  <2>6. HasRoom(n) /\ IsFree(n)
    BY <2>2, <2>3, <2>5 DEF HasRoom, IsFree, QuotaLabels, ProductOwner
  <2>7. Goto(w, "insertProduct") /\ At(w, "hostQuota")
    BY <1>4 DEF CheckHostQuota
  <2>8. QED
    BY <1>1, <2>4, <2>6, <2>7, GotoHeld DEF Labels
<1>5. QED
  BY <1>2, <1>3, <1>4

(* The labels where quick-add chooses the supplier. *)
Resolving == {"resolveId", "resolveName", "lastProduct", "lastSupplier", "firstSupplier",
              "countSuppliers"}

(* What quick-add carries along while it chooses. *)
LEMMA ResolvingFacts ==
  ASSUME JobsOK, HandlersOK, NEW w \in Workers, NEW label \in Resolving, At(w, label)
  PROVE  /\ label \in Labels /\ job[w] \in Jobs /\ job[w].pc = label /\ Held(job[w])
         /\ job[w].req.op = "quickAdd"
         /\ SeenFree(job[w].req.user, job[w].row)
         /\ ProductRoom(job[w].req.user)
<1>1. label \in Labels
  BY DEF Labels, Resolving
<1>2. job[w] \in Jobs /\ job[w].pc = label /\ Held(job[w])
  BY <1>1, AtHeld
<1>3. job[w].req.op = "quickAdd"
  BY <1>2 DEF Held, OnPath, LabelsOf, Jobs, RequestType, Operations, Resolving
<1>4. SeenFree(job[w].req.user, job[w].row) /\ ProductRoom(job[w].req.user)
  BY <1>2, <1>3 DEF Held, HasRoom, Resolving, QuotaLabels
<1>5. QED
  BY <1>1, <1>2, <1>3, <1>4

(* quick-add takes a supplier of its caller. *)
LEMMA UseSupplierHeld ==
  ASSUME OneWorker, JobsOK, HandlersOK, NEW w \in Workers, UNCHANGED tables,
         NEW label \in Resolving, At(w, label), NEW s,
         NEW next \in {"insertProduct", "lastSupplier"}, UseSupplier(w, s, next)
  PROVE  HandlersOK'
<1> DEFINE j == job[w]
           n == [j EXCEPT !.sup = [id |-> s, owner |-> j.req.user], !.pc = next]
<1>1. /\ j \in Jobs /\ j.pc = label /\ Held(j) /\ j.req.op = "quickAdd"
      /\ SeenFree(j.req.user, j.row) /\ ProductRoom(j.req.user)
  BY ResolvingFacts
<1>2. job' = [job EXCEPT ![w] = n]
  BY DEF JobsOK, UseSupplier
<1>3. /\ n.req = j.req /\ n.sup.owner = j.req.user /\ n.row = j.row
      /\ n.found = j.found /\ n.pc = next
  BY <1>1 DEF Jobs
<1>4. OnPath(n)
  BY <1>1, <1>3 DEF Held, OnPath, LabelsOf, ProductOps, QuickAddLabels
<1>5. MayUse(n)
  BY <1>1, <1>3 DEF Held, MayUse, ProductOps, Reaches
<1>6. HasRoom(n) /\ IsFree(n)
  BY <1>1, <1>3 DEF HasRoom, IsFree, ProductOwner
<1>7. QED
  BY <1>2, <1>4, <1>5, <1>6, ReadHeld DEF Held

(* quick-add goes on choosing, or to a new supplier whose name is free.    *)
LEMMA ResolvingGoto ==
  ASSUME OneWorker, JobsOK, HandlersOK, NEW w \in Workers, UNCHANGED tables,
         NEW label \in Resolving, At(w, label),
         NEW next \in Resolving \cup {"insertProduct", "insertSupplier"}, Goto(w, next),
         next # "resolveId",
         next = "resolveName" => job[w].req.name # NoName,
         next = "countSuppliers" => SuppliersOf(job[w].req.user) = {},
         next = "insertSupplier" => /\ SupplierRoom(job[w].req.user)
                                    /\ ~NameTaken(job[w].req.user, NewName(job[w]), 0)
  PROVE  HandlersOK'
<1> DEFINE j == job[w]
           n == [j EXCEPT !.pc = next]
<1>1. /\ j \in Jobs /\ j.pc = label /\ Held(j) /\ j.req.op = "quickAdd" /\ label \in Labels
      /\ SeenFree(j.req.user, j.row) /\ ProductRoom(j.req.user)
  BY ResolvingFacts
<1>2. /\ n.req = j.req /\ n.sup = j.sup /\ n.row = j.row
      /\ n.found = j.found /\ n.pc = next
  BY <1>1 DEF Jobs
<1>3. OnPath(n)
  BY <1>1, <1>2 DEF Held, OnPath, LabelsOf, ProductOps, QuickAddLabels, Resolving
<1>4. HasRoom(n)
  BY <1>1, <1>2 DEF HasRoom, ProductOwner, Resolving
<1>5. IsFree(n)
  BY <1>2 DEF IsFree, NewName, Resolving
<1>6. next \in Labels \ {"supplier", "product", "hostQuota"}
  BY DEF Labels, Resolving
<1>7. QED
  BY <1>1, <1>3, <1>4, <1>5, <1>6, GotoHeld

(* By id, then by name. *)
LEMMA ResolveHeld ==
  ASSUME OneWorker, TablesOK, JobsOK, HandlersOK, NEW w \in Workers,
         ResolveById(w) \/ ResolveByName(w)
  PROVE  HandlersOK'
<1> DEFINE j == job[w]
           u == j.req.user
<1>1. UNCHANGED tables
  BY DEF ResolveById, ResolveByName
<1>2. CASE ResolveById(w)
  <2>1. At(w, "resolveId") /\ "resolveId" \in Resolving
    BY <1>2 DEF ResolveById, Resolving
  <2>2. CASE UseSupplier(w, j.req.to, "insertProduct")
    BY <1>1, <2>1, <2>2, UseSupplierHeld
  <2>3. CASE Goto(w, "resolveName")
    <3>1. j.req.name # NoName
      BY <2>1, ResolvingFacts, DigitsAssumption DEF Held, OnPath
    <3>2. QED
      BY <1>1, <2>1, <2>3, <3>1, ResolvingGoto DEF Resolving
  <2>4. QED
    BY <1>2, <2>2, <2>3 DEF ResolveById
<1>3. CASE ResolveByName(w)
  <2> DEFINE mine == SuppliersOf(u)
             same == {s \in mine : NormalOf[supplier[s].name] = NormalOf[j.req.name]}
  <2>1. At(w, "resolveName") /\ "resolveName" \in Resolving
    BY <1>3 DEF ResolveByName, Resolving
  <2>2. /\ j \in Jobs /\ j.pc = "resolveName" /\ Held(j) /\ SeenFree(u, j.row)
    BY <2>1, ResolvingFacts
  <2>3. CASE \E s \in same : UseSupplier(w, s, "insertProduct")
    BY <1>1, <2>1, <2>3, UseSupplierHeld
  <2>4. CASE Respond(w)
    BY <2>4, AnswerHeld
  <2>5. CASE /\ same = {}
             /\ FlagLicensed(u, j.row) \/ Cardinality(mine) < FreeMaxSuppliers
             /\ Goto(w, "insertSupplier")
    <3>1. SupplierRoom(u)
      BY <2>2, <2>5 DEF SeenFree, FlagLicensed, SupplierRoom
    <3>2. j.req.name \in Names /\ NewName(j) = j.req.name
      BY <2>2 DEF Held, OnPath, Jobs, RequestType, NewName
    <3>3. \A s \in mine : supplier[s].name \in Names
      BY DEF SuppliersOf, TablesOK, IsTable, SupplierRows
    <3>4. ~NameTaken(u, NewName(j), 0)
      BY <2>5, <3>2, <3>3, FoldingAssumption DEF NameTaken
    <3>5. QED
      BY <1>1, <2>1, <2>5, <3>1, <3>4, ResolvingGoto DEF Resolving
  <2>6. QED
    BY <1>3, <2>3, <2>4, <2>5 DEF ResolveByName
<1>4. QED
  BY <1>2, <1>3

(* Without a name: the last product's supplier, the first, a new one.      *)
LEMMA ReadLastHeld ==
  ASSUME OneWorker, JobsOK, HandlersOK, NEW w \in Workers,
         ReadLastProduct(w) \/ ReadLastSupplier(w) \/ ReadFirstSupplier(w) \/ CountSuppliers(w)
  PROVE  HandlersOK'
<1> DEFINE j == job[w]
           u == j.req.user
<1>1. UNCHANGED tables
  BY DEF ReadLastProduct, ReadLastSupplier, ReadFirstSupplier, CountSuppliers
<1>2. CASE ReadLastProduct(w)
  <2>1. At(w, "lastProduct") /\ "lastProduct" \in Resolving
    BY <1>2 DEF ReadLastProduct, Resolving
  <2>2. \/ \E s : UseSupplier(w, s, "lastSupplier")
        \/ Goto(w, "firstSupplier")
    BY <1>2 DEF ReadLastProduct
  <2>3. QED
    BY <1>1, <2>1, <2>2, UseSupplierHeld, ResolvingGoto DEF Resolving
<1>3. CASE ReadLastSupplier(w)
  <2>1. At(w, "lastSupplier") /\ "lastSupplier" \in Resolving
    BY <1>3 DEF ReadLastSupplier, Resolving
  <2>2. Goto(w, "insertProduct") \/ Goto(w, "firstSupplier")
    BY <1>3 DEF ReadLastSupplier
  <2>3. QED
    BY <1>1, <2>1, <2>2, ResolvingGoto DEF Resolving
<1>4. CASE ReadFirstSupplier(w)
  <2>1. At(w, "firstSupplier") /\ "firstSupplier" \in Resolving
    BY <1>4 DEF ReadFirstSupplier, Resolving
  <2>2. \/ \E s : UseSupplier(w, s, "insertProduct")
        \/ SuppliersOf(u) = {} /\ Goto(w, "countSuppliers")
    BY <1>4 DEF ReadFirstSupplier
  <2>3. QED
    BY <1>1, <2>1, <2>2, UseSupplierHeld, ResolvingGoto DEF Resolving
<1>5. CASE CountSuppliers(w)
  <2>1. At(w, "countSuppliers") /\ "countSuppliers" \in Resolving
    BY <1>5 DEF CountSuppliers, Resolving
  <2>2. CASE Respond(w)
    BY <2>2, AnswerHeld
  <2>3. CASE /\ FlagLicensed(u, j.row) \/ Cardinality(SuppliersOf(u)) < FreeMaxSuppliers
             /\ Goto(w, "insertSupplier")
    <3>1. j.pc = "countSuppliers" /\ Held(j) /\ SeenFree(u, j.row)
      BY <2>1, ResolvingFacts
    <3>2. SupplierRoom(u)
      BY <2>3, <3>1 DEF SeenFree, FlagLicensed, SupplierRoom
    <3>3. ~NameTaken(u, NewName(j), 0)
      BY <3>1 DEF Held, IsFree, NameTaken
    <3>4. QED
      BY <1>1, <2>1, <2>3, <3>2, <3>3, ResolvingGoto DEF Resolving
  <2>4. QED
    BY <1>5, <2>2, <2>3 DEF CountSuppliers
<1>6. QED
  BY <1>2, <1>3, <1>4, <1>5

SharingOps == {"share", "unshare", "leave", "activate", "grant", "revoke", "deleteUser"}

(* The other handlers rely on no table, but for the count of shares.       *)
LEMMA SharingHeld ==
  ASSUME OneWorker, JobsOK, NEW w \in Workers, NEW n,
         job' = [job EXCEPT ![w] = n], n.req = job[w].req, n.req \in Requests,
         n.req.op \in SharingOps, n.pc \in LabelsOf(n.req.op),
         n.pc = "insertShare" => /\ Cardinality(SharesOf(n.req.user)) < MaxShares
                                 /\ UNCHANGED share
  PROVE  HandlersOK'
<1>1. job'[w] = n
  BY DEF JobsOK
<1>2. n.pc \in {"target", "existing", "countShares", "insertShare", "shareById", "shareByUser",
                "deleteShare", "ownShare", "activate", "readUser", "grant", "revoke", "unadmin",
                "purgeShares", "purgeProducts", "purgeSuppliers", "purgeUser"}
  BY DEF SharingOps, LabelsOf
<1>3. OnPath(job[w])'
  BY <1>1, <1>2 DEF OnPath, SharingOps, ProductOps
<1>4. MayUse(job[w])'
  BY <1>1, <1>2 DEF MayUse, SharingOps, ProductOps, CatalogOps
<1>5. HasRoom(job[w])'
  BY <1>1, <1>2 DEF HasRoom, SharingOps, QuotaLabels
<1>6. UNCHANGED share => \A u : SharesOf(u)' = SharesOf(u)
  BY DEF SharesOf
<1>7. IsFree(job[w])'
  BY <1>1, <1>2, <1>6 DEF IsFree
<1>8. QED
  BY <1>3, <1>4, <1>5, <1>7 DEF HandlersOK, Held, OneWorker

(* Going on in one of them. *)
LEMMA SharingGoto ==
  ASSUME OneWorker, JobsOK, HandlersOK, NEW w \in Workers, NEW label \in Labels, At(w, label),
         job[w].req.op \in SharingOps, NEW next \in LabelsOf(job[w].req.op), Goto(w, next),
         next = "insertShare" => /\ Cardinality(SharesOf(job[w].req.user)) < MaxShares
                                 /\ UNCHANGED share
  PROVE  HandlersOK'
<1> DEFINE n == [job[w] EXCEPT !.pc = next]
<1>1. job[w] \in Jobs /\ Held(job[w])
  BY AtHeld
<1>2. n.req = job[w].req /\ n.pc = next /\ n.req \in Requests
  BY <1>1 DEF Jobs, Held, OnPath
<1>3. job' = [job EXCEPT ![w] = n]
  BY DEF Goto, JobsOK
<1>4. QED
  BY <1>2, <1>3, SharingHeld

(* Which operation a label of theirs belongs to. *)
LEMMA SharingPath ==
  ASSUME JobsOK, HandlersOK, NEW w \in Workers,
         NEW label \in {"target", "existing", "countShares", "insertShare", "shareById",
                        "shareByUser", "deleteShare", "ownShare", "activate", "readUser",
                        "grant", "revoke", "unadmin", "purgeShares", "purgeProducts",
                        "purgeSuppliers", "purgeUser"},
         At(w, label)
  PROVE  /\ label \in Labels /\ job[w] \in Jobs /\ job[w].req.op \in SharingOps
         /\ label \in LabelsOf(job[w].req.op)
<1>1. label \in Labels
  BY DEF Labels
<1>2. job[w] \in Jobs /\ job[w].pc = label /\ Held(job[w])
  BY <1>1, AtHeld
<1>3. job[w].req.op \in Operations /\ label \in LabelsOf(job[w].req.op)
  BY <1>2 DEF Held, OnPath, Jobs, RequestType
<1>4. job[w].req.op \in SharingOps
  BY <1>3 DEF LabelsOf, Operations, SharingOps, QuickAddLabels
<1>5. QED
  BY <1>1, <1>2, <1>3, <1>4

(* A user's rows are finitely many. *)
LEMMA Counted ==
  ASSUME TablesOK, NEW u
  PROVE  /\ IsFiniteSet(SuppliersOf(u)) /\ Cardinality(SuppliersOf(u)) \in Nat
         /\ IsFiniteSet(ProductsOf(u)) /\ Cardinality(ProductsOf(u)) \in Nat
         /\ IsFiniteSet(SharesOf(u)) /\ Cardinality(SharesOf(u)) \in Nat
<1>1. ASSUME NEW m \in Nat \ {0}
      PROVE  IsFiniteSet(1..(m - 1))
  BY FS_Interval
<1>2. IsFiniteSet(DOMAIN supplier) /\ IsFiniteSet(DOMAIN product) /\ IsFiniteSet(DOMAIN share)
  BY <1>1, FS_Subset DEF TablesOK, IsTable
<1>3. IsFiniteSet(SuppliersOf(u)) /\ IsFiniteSet(ProductsOf(u)) /\ IsFiniteSet(SharesOf(u))
  BY <1>2, FS_Subset DEF SuppliersOf, ProductsOf, SharesOf
<1>4. QED
  BY <1>3, FS_CardinalityType

(* The handlers of module Sharing, in one worker. *)
LEMMA SharingNextHeld ==
  ASSUME OneWorker, TablesOK, JobsOK, HandlersOK, NEW w \in Workers, SharingNext(w)
  PROVE  HandlersOK'
<1>1. CASE Respond(w)
  BY <1>1, AnswerHeld
<1>2. CASE FindTarget(w) /\ ~Respond(w)
  <2>1. At(w, "target") /\ Goto(w, "existing")
    BY <1>2 DEF FindTarget
  <2>2. "existing" \in LabelsOf(job[w].req.op)
    BY <2>1, SharingPath DEF LabelsOf, SharingOps
  <2>3. QED
    BY <2>1, <2>2, SharingPath, SharingGoto
<1>3. CASE CheckExistingShare(w) /\ ~Respond(w)
  <2>1. At(w, "existing") /\ Goto(w, "countShares")
    BY <1>3 DEF CheckExistingShare
  <2>2. "countShares" \in LabelsOf(job[w].req.op)
    BY <2>1, SharingPath DEF LabelsOf, SharingOps
  <2>3. QED
    BY <2>1, <2>2, SharingPath, SharingGoto
<1>4. CASE CountShares(w) /\ ~Respond(w)
  <2>1. /\ At(w, "countShares") /\ Goto(w, "insertShare") /\ UNCHANGED share
        /\ Cardinality(SharesOf(job[w].req.user)) < MaxShares
    BY <1>4, Counted, QuotaAssumption DEF CountShares, tables
  <2>2. "insertShare" \in LabelsOf(job[w].req.op)
    BY <2>1, SharingPath DEF LabelsOf, SharingOps
  <2>3. QED
    BY <2>1, <2>2, SharingPath, SharingGoto
<1>5. CASE (FindShareById(w) \/ FindShareByUser(w) \/ FindShareWithMe(w)) /\ ~Respond(w)
  <2>1. PICK label \in {"shareById", "shareByUser", "ownShare"} : At(w, label)
    BY <1>5 DEF FindShareById, FindShareByUser, FindShareWithMe
  <2>2. /\ "deleteShare" \in LabelsOf(job[w].req.op)
        /\ label = "shareById" => "shareByUser" \in LabelsOf(job[w].req.op)
    BY <2>1, SharingPath DEF LabelsOf, SharingOps
  <2>3. CASE Goto(w, "shareByUser") /\ label = "shareById"
    BY <2>1, <2>2, <2>3, SharingPath, SharingGoto
  <2>4. ASSUME NEW h, job' = [job EXCEPT ![w] = [@ EXCEPT !.found = h, !.pc = "deleteShare"]]
        PROVE  HandlersOK'
    <3> DEFINE n == [job[w] EXCEPT !.found = h, !.pc = "deleteShare"]
    <3>1. job[w] \in Jobs /\ job[w].req.op \in SharingOps /\ label \in Labels
      BY <2>1, SharingPath
    <3>2. n.req = job[w].req /\ n.pc = "deleteShare"
      BY <3>1 DEF Jobs
    <3>3. n.req \in Requests
      BY <2>1, <3>1, <3>2, AtHeld DEF Held, OnPath
    <3>4. job' = [job EXCEPT ![w] = n]
      BY <2>4 DEF JobsOK
    <3>5. QED
      BY <2>2, <3>1, <3>2, <3>3, <3>4, SharingHeld
  <2>5. QED
    BY <1>5, <2>1, <2>3, <2>4
       DEF FindShareById, FindShareByUser, FindShareWithMe, TakeShare, At
<1>6. CASE FindUser(w) /\ ~Respond(w)
  <2>1. At(w, "readUser")
    BY <1>6 DEF FindUser
  <2>2. job[w].req.op \in {"grant", "revoke", "deleteUser"}
    BY <2>1, SharingPath DEF LabelsOf, SharingOps
  <2>3. PICK next \in LabelsOf(job[w].req.op) : Goto(w, next) /\ next # "insertShare"
    BY <1>6, <2>2 DEF FindUser, LabelsOf
  <2>4. QED
    BY <2>1, <2>3, SharingPath, SharingGoto
<1>7. CASE RevokeLicence(w) /\ ~Respond(w)
  <2>1. At(w, "revoke") /\ Goto(w, "unadmin")
    BY <1>7 DEF RevokeLicence
  <2>2. job[w].req.op = "revoke"
    BY <2>1, SharingPath DEF LabelsOf, SharingOps
  <2>3. "unadmin" \in LabelsOf(job[w].req.op)
    BY <2>2 DEF LabelsOf
  <2>4. QED
    BY <2>1, <2>3, SharingPath, SharingGoto
<1>8. CASE PurgeShares(w) \/ PurgeProducts(w) \/ PurgeSuppliers(w)
  <2>1. PICK label \in {"purgeShares", "purgeProducts", "purgeSuppliers"},
             next \in {"purgeProducts", "purgeSuppliers", "purgeUser"} :
           At(w, label) /\ Goto(w, next)
    BY <1>8 DEF PurgeShares, PurgeProducts, PurgeSuppliers
  <2>2. next \in LabelsOf(job[w].req.op)
    BY <2>1, SharingPath DEF LabelsOf, SharingOps
  <2>3. QED
    BY <2>1, <2>2, SharingPath, SharingGoto
<1>9. QED
  BY <1>1, <1>2, <1>3, <1>4, <1>5, <1>6, <1>7, <1>8
     DEF SharingNext, InsertShare, DeleteShare, ActivateLicence, GrantLicence, RevokeAdmin,
         PurgeUser

(* After a new supplier quick-add goes on to its product. *)
LEMMA InsertSupplierHeld ==
  ASSUME OneWorker, JobsOK, HandlersOK, NEW w \in Workers, InsertSupplier(w)
  PROVE  HandlersOK'
<1> DEFINE j == job[w]
           u == j.req.user
           n == [j EXCEPT !.sup = [id |-> nextSupplier, owner |-> u], !.pc = "insertProduct"]
<1>1. CASE Respond(w)
  BY <1>1, AnswerHeld
<1>2. CASE /\ j.req.op # "addSupplier"
           /\ job' = [job EXCEPT ![w] =
                [@ EXCEPT !.sup = [id |-> nextSupplier, owner |-> u], !.pc = "insertProduct"]]
  <2>1. j \in Jobs /\ j.pc = "insertSupplier" /\ Held(j)
    BY AtHeld DEF InsertSupplier, Labels
  <2>2. j.req.op = "quickAdd"
    BY <1>2, <2>1 DEF Held, OnPath, LabelsOf, Jobs, RequestType, Operations
  <2>3. job'[w] = n
    BY <1>2 DEF JobsOK
  <2>4. /\ n.req = j.req /\ n.sup.owner = u /\ n.pc = "insertProduct"
    BY <2>1 DEF Jobs
  <2>5. UNCHANGED <<account, product, share>>
    BY DEF InsertSupplier
  <2>6. ProductRoom(u) /\ n.req \in Requests
    BY <2>1, <2>2, <2>4 DEF Held, HasRoom, OnPath
  <2>7. \A v : ProductsOf(v)' = ProductsOf(v) /\ (NeverLicensed(v)' <=> NeverLicensed(v))
    BY <2>5 DEF ProductsOf, NeverLicensed, IsAdmin
  <2>8. \A v : ProductRoom(v)' <=> ProductRoom(v)
    BY <2>7 DEF ProductRoom
  <2>9. OnPath(job[w])'
    BY <2>2, <2>3, <2>4, <2>6 DEF OnPath, LabelsOf, ProductOps, QuickAddLabels
  <2>10. MayUse(job[w])'
    BY <2>2, <2>3, <2>4 DEF MayUse, Reaches, ProductOps
  <2>11. HasRoom(job[w])'
    BY <2>2, <2>3, <2>4, <2>6, <2>8 DEF HasRoom, QuotaLabels, ProductOwner
  <2>12. IsFree(job[w])'
    BY <2>3, <2>4 DEF IsFree
  <2>13. QED
    BY <2>9, <2>10, <2>11, <2>12 DEF HandlersOK, Held, OneWorker
<1>3. QED
  BY <1>1, <1>2 DEF InsertSupplier

(* A product moved is the remembered supplier's owner's. *)
LEMMA MoveProductHeld ==
  ASSUME OneWorker, TablesOK, JobsOK, HandlersOK, NEW w \in Workers, MoveProduct(w)
  PROVE  HandlersOK'
<1> DEFINE j == job[w]
           n == [j EXCEPT !.pc = "updateProduct"]
<1>1. CASE Respond(w)
  BY <1>1, AnswerHeld
<1>2. CASE Goto(w, "updateProduct")
  <2>1. j \in Jobs /\ j.pc = "moveProduct" /\ Held(j)
    BY AtHeld DEF MoveProduct, Labels
  <2>2. j.req.op = "editProduct"
    BY <2>1 DEF Held, OnPath, LabelsOf, Jobs, RequestType, Operations, QuickAddLabels
  <2>3. job'[w] = n
    BY <1>2 DEF JobsOK, Goto
  <2>4. n.req = j.req /\ n.sup = j.sup /\ n.found = j.found /\ n.pc = "updateProduct"
    BY <2>1 DEF Jobs
  <2>5. share' = share
    BY DEF MoveProduct
  <2>6. \A o : Reaches(j.req.user, o)' <=> Reaches(j.req.user, o)
    BY <2>3, <2>4, <2>5 DEF Reaches
  <2>7. Reaches(j.req.user, j.sup.owner)
    BY <2>1, <2>2 DEF Held, MayUse, CatalogOps, ProductOps
  <2>8. j.found \in DOMAIN product' => Reaches(j.req.user, product'[j.found].owner)
    <3>1. CASE j.found \in DOMAIN product /\ product' = product
      BY <2>1, <2>2, <3>1 DEF Held, MayUse, ProductOps
    <3>2. CASE /\ j.found \in DOMAIN product
               /\ product' = [product EXCEPT ![j.found] =
                                [@ EXCEPT !.supplier = j.sup.id, !.owner = j.sup.owner]]
      <4>1. product[j.found] \in ProductRows
        BY <3>2 DEF TablesOK, IsTable
      <4>2. product'[j.found].owner = j.sup.owner
        BY <3>2, <4>1 DEF ProductRows
      <4>3. QED
        BY <2>7, <4>2
    <3>3. QED
      BY <3>1, <3>2 DEF MoveProduct
  <2>9. OnPath(job[w])'
    BY <2>1, <2>2, <2>3, <2>4 DEF Held, OnPath, LabelsOf
  <2>10. MayUse(job[w])'
    BY <2>2, <2>3, <2>4, <2>5, <2>7, <2>8 DEF MayUse, Reaches
  <2>11. HasRoom(job[w])' /\ IsFree(job[w])'
    BY <2>2, <2>3, <2>4 DEF HasRoom, IsFree, QuotaLabels
  <2>12. QED
    BY <2>9, <2>10, <2>11 DEF HandlersOK, Held, OneWorker
<1>3. QED
  BY <1>1, <1>2 DEF MoveProduct

(* The clock takes licences away and gives none: a free account stays one, *)
(* and the rows handlers hold of free accounts say so still.               *)
LEMMA LicenceExpiresHeld ==
  ASSUME TablesOK, JobsOK, HandlersOK, NEW u \in Users, LicenceExpires(u)
  PROVE  HandlersOK'
<1>1. UNCHANGED <<supplier, product, share>>
  BY DEF LicenceExpires, SetLicence, SetAccount
<1>2. \A v \in Users : NeverLicensed(v)' => NeverLicensed(v)
  BY DEF LicenceExpires, SetLicence, SetAccount, NeverLicensed, IsAdmin, TablesOK, Accounts
<1>3. \A v : /\ SuppliersOf(v)' = SuppliersOf(v) /\ ProductsOf(v)' = ProductsOf(v)
             /\ SharesOf(v)' = SharesOf(v)
  BY <1>1 DEF SuppliersOf, ProductsOf, SharesOf
<1>4. \A v, o : Reaches(v, o)' <=> Reaches(v, o)
  BY <1>1 DEF Reaches
<1>5. \A o, m, s : NameTaken(o, m, s)' <=> NameTaken(o, m, s)
  BY <1>1, <1>3 DEF NameTaken
<1>6. ASSUME NEW w \in Workers, job'[w] # Idle
      PROVE  Held(job[w])'
  <2>1. /\ job[w] # Idle
        /\ \/ job'[w] = job[w]
           \/ /\ job[w].row.licence = "timed"
              /\ job'[w] = [job[w] EXCEPT !.row = [@ EXCEPT !.licence = "expired"]]
    BY <1>6 DEF LicenceExpires
  <2>2. job[w] \in Jobs /\ Held(job[w])
    BY <2>1 DEF JobsOK, HandlersOK
  <2>3. /\ job'[w].req = job[w].req /\ job'[w].sup = job[w].sup /\ job'[w].pc = job[w].pc
        /\ job'[w].owners = job[w].owners /\ job'[w].found = job[w].found
        /\ job[w].row.licence = "free" => job'[w].row = job[w].row
    BY <2>1, <2>2 DEF Jobs
  <2>4. OnPath(job[w])'
    BY <2>2, <2>3 DEF Held, OnPath
  <2>5. MayUse(job[w])'
    BY <1>1, <1>4, <2>2, <2>3 DEF Held, MayUse
  <2>6. \A v \in Users : SeenFree(v, job[w].row) => SeenFree(v, job[w].row)'
    BY <1>2, <2>3 DEF SeenFree, IsAdmin
  <2>7. \A v \in Users : /\ SupplierRoom(v) => SupplierRoom(v)'
                         /\ ProductRoom(v) => ProductRoom(v)'
    BY <1>2, <1>3 DEF SupplierRoom, ProductRoom
  <2>8. HasRoom(job[w])'
    <3>1. job[w].req.user \in Users /\ job[w].sup.owner \in Users
      BY <2>2 DEF Jobs, RequestType
    <3>2. QED
      BY <2>2, <2>3, <2>6, <2>7, <3>1 DEF Held, HasRoom, ProductOwner
  <2>9. IsFree(job[w])'
    BY <1>3, <1>5, <2>2, <2>3 DEF Held, IsFree, NewName
  <2>10. QED
    BY <2>4, <2>5, <2>8, <2>9 DEF Held
<1>7. QED
  BY <1>6 DEF HandlersOK

(* Every step of the server, with one worker. *)
LEMMA NextHeld ==
  ASSUME OneWorker, IInv, HandlersOK, [Next]_vars
  PROVE  HandlersOK'
<1>1. TablesOK /\ JobsOK
  BY IInvParts
<1>2. ASSUME NEW w \in Workers, CatalogNext(w)
      PROVE  HandlersOK'
  <2>1. CASE Respond(w)
    BY <1>1, <2>1, AnswerHeld
  <2>2. CASE ~Respond(w)
    BY <1>1, <1>2, <2>2, CheckQuotaHeld, ReadOwnersHeld, FindSupplierHeld, FindProductHeld,
       CheckDuplicateHeld, HostHeld, ResolveHeld, ReadLastHeld, InsertSupplierHeld,
       MoveProductHeld
       DEF CatalogNext, RenameSupplier, DeleteSupplier, DeleteArchive, InsertProduct,
           UpdateProduct, DeleteProduct, ArchiveProductToday, UnarchiveProduct, SetOrdered
  <2>3. QED
    BY <2>1, <2>2
<1>3. CASE UNCHANGED vars
  <2>1. UNCHANGED tables /\ UNCHANGED job
    BY <1>3 DEF vars, tables
  <2>2. ASSUME NEW w \in Workers, job[w] # Idle
        PROVE  Held(job[w])'
    <3>1. Held(job[w])
      BY <2>2 DEF HandlersOK
    <3>2. OnPath(job[w])' /\ MayUse(job[w])'
      BY <2>1, <3>1, SameTables DEF Held, OnPath, MayUse, tables
    <3>3. HasRoom(job[w])'
      BY <2>1, <3>1, SameTables
         DEF Held, HasRoom, SeenFree, SupplierRoom, ProductRoom, ProductOwner, IsAdmin
    <3>4. IsFree(job[w])'
      BY <2>1, <3>1, SameTables DEF Held, IsFree, NewName
    <3>5. QED
      BY <3>2, <3>3, <3>4 DEF Held
  <2>3. QED
    BY <2>1, <2>2 DEF HandlersOK
<1>4. QED
  BY <1>1, <1>2, <1>3, BeginHeld, SharingNextHeld, LicenceExpiresHeld DEF Next

----------------------------------------------------------------------------
(* Names and shares. *)

(* A new supplier's name is nobody's yet. *)
LEMMA NamesInserted ==
  ASSUME TablesOK, JobsOK, HandlersOK, NoDuplicateNames, NEW w \in Workers, InsertSupplier(w)
  PROVE  NoDuplicateNames'
<1> DEFINE u == job[w].req.user
           name == NewName(job[w])
<1>1. Held(job[w]) /\ job[w].pc = "insertSupplier"
  BY AtHeld DEF InsertSupplier, Labels
<1>2. \A s \in DOMAIN supplier : supplier[s].owner = u => LowerOf[supplier[s].name] # LowerOf[name]
  <2>1. 0 \notin DOMAIN supplier
    BY DEF TablesOK, IsTable
  <2>2. QED
    BY <1>1, <2>1 DEF Held, IsFree, NameTaken, SuppliersOf
<1>3. CASE supplier' = supplier
  BY <1>3 DEF NoDuplicateNames
<1>4. CASE supplier' = Inserted(supplier, nextSupplier, [owner |-> u, name |-> name])
  <2>1. nextSupplier \notin DOMAIN supplier
    BY DEF TablesOK, IsTable
  <2>2. /\ DOMAIN supplier' = DOMAIN supplier \cup {nextSupplier}
        /\ supplier'[nextSupplier] = [owner |-> u, name |-> name]
        /\ \A s \in DOMAIN supplier : supplier'[s] = supplier[s]
    BY <1>4, <2>1 DEF Inserted
  <2>3. QED
    BY <1>2, <2>1, <2>2 DEF NoDuplicateNames
<1>5. QED
  BY <1>3, <1>4 DEF InsertSupplier, NewName

(* A renamed supplier's name is no other's. *)
LEMMA NamesRenamed ==
  ASSUME TablesOK, JobsOK, HandlersOK, NoDuplicateNames, NEW w \in Workers, RenameSupplier(w)
  PROVE  NoDuplicateNames'
<1> DEFINE j == job[w]
           r == j.sup.id
<1>1. Held(j) /\ j.pc = "renameSupplier" /\ "renameSupplier" \in Labels
  BY AtHeld DEF RenameSupplier, Labels
<1>2. CASE supplier' = supplier
  BY <1>2 DEF NoDuplicateNames
<1>3. CASE /\ r \in DOMAIN supplier
           /\ supplier' = [supplier EXCEPT ![r] = [@ EXCEPT !.name = j.req.name]]
  <2>1. supplier[r].owner = j.sup.owner
    BY <1>1, <1>3, AtLabel DEF RenameSupplier, GoodJob
  <2>2. \A s \in DOMAIN supplier \ {r} : supplier[s].owner = supplier[r].owner
                                          => LowerOf[supplier[s].name] # LowerOf[j.req.name]
    BY <1>1, <2>1 DEF Held, IsFree, NameTaken, SuppliersOf
  <2>3. supplier[r] \in SupplierRows
    BY <1>3 DEF TablesOK, IsTable
  <2>4. /\ DOMAIN supplier' = DOMAIN supplier
        /\ supplier'[r].owner = supplier[r].owner /\ supplier'[r].name = j.req.name
        /\ \A s \in DOMAIN supplier \ {r} : supplier'[s] = supplier[s]
    BY <1>3, <2>3 DEF SupplierRows
  <2>5. QED
    BY <2>2, <2>4 DEF NoDuplicateNames
<1>4. QED
  BY <1>2, <1>3 DEF RenameSupplier

(* A new share is counted before it is made. *)
LEMMA ShareInserted ==
  ASSUME TablesOK, JobsOK, HandlersOK, ShareLimitHeld, NEW w \in Workers, InsertShare(w)
  PROVE  ShareLimitHeld'
<1> DEFINE u == job[w].req.user
           row == [owner |-> u, with |-> job[w].req.id]
<1>1. Cardinality(SharesOf(u)) < MaxShares
  BY AtHeld DEF InsertShare, Labels, Held, IsFree
<1>2. CASE share' = share
  BY <1>2 DEF ShareLimitHeld, SharesOf
<1>3. CASE share' = Inserted(share, nextShare, row)
  <2>1. nextShare \notin DOMAIN share
    BY DEF TablesOK, IsTable
  <2>2. ASSUME NEW v \in Users
        PROVE  Cardinality(SharesOf(v)') <= MaxShares
    <3>1. CASE v = u
      <4>1. SharesOf(v)' = SharesOf(v) \cup {nextShare}
        BY <1>3, <2>1, <3>1 DEF SharesOf, Inserted
      <4>2. nextShare \notin SharesOf(v)
        BY <2>1 DEF SharesOf
      <4>3. IsFiniteSet(SharesOf(v)) /\ Cardinality(SharesOf(v)) \in Nat
        BY Counted
      <4>4. Cardinality(SharesOf(v)') = Cardinality(SharesOf(v)) + 1
        BY <4>1, <4>2, <4>3, FS_AddElement
      <4>5. QED
        BY <1>1, <3>1, <4>3, <4>4, QuotaAssumption
    <3>2. CASE v # u
      <4>1. SharesOf(v)' = SharesOf(v)
        BY <1>3, <2>1, <3>2 DEF SharesOf, Inserted
      <4>2. QED
        BY <4>1 DEF ShareLimitHeld
    <3>3. QED
      BY <3>1, <3>2
  <2>3. QED
    BY <2>2 DEF ShareLimitHeld
<1>4. QED
  BY <1>2, <1>3 DEF InsertShare

(* With one worker the rules no key enforces are kept. *)
LEMMA NamesAndSharesKept ==
  ASSUME IInv, HandlersOK, NamesAndSharesHeld, [Next]_vars
  PROVE  NamesAndSharesHeld'
<1>1. TablesOK /\ JobsOK /\ NoDuplicateNames /\ ShareLimitHeld
  BY IInvParts DEF NamesAndSharesHeld
<1>2. NoDuplicateNames'
  <2>1. CASE Shrinks(supplier, supplier')
    BY <1>1, <2>1 DEF Shrinks, NoDuplicateNames
  <2>2. QED
    BY <1>1, <2>1, SupplierChange, NamesInserted, NamesRenamed
<1>3. ShareLimitHeld'
  <2>1. CASE Shrinks(share, share')
    <3>1. ASSUME NEW u \in Users
          PROVE  Cardinality(SharesOf(u)') <= MaxShares
      <4>1. SharesOf(u)' \subseteq SharesOf(u)
        BY <2>1 DEF Shrinks, SharesOf
      <4>2. IsFiniteSet(SharesOf(u)) /\ Cardinality(SharesOf(u)) \in Nat
        BY <1>1, Counted
      <4>3. /\ Cardinality(SharesOf(u)') <= Cardinality(SharesOf(u))
            /\ Cardinality(SharesOf(u)') \in Nat
        BY <4>1, <4>2, FS_Subset, FS_CardinalityType
      <4>4. Cardinality(SharesOf(u)) <= MaxShares
        BY <1>1 DEF ShareLimitHeld
      <4>5. QED
        BY <4>2, <4>3, <4>4, QuotaAssumption
    <3>2. QED
      BY <3>1 DEF ShareLimitHeld
  <2>2. QED
    BY <1>1, <2>1, ShareChange, ShareInserted
<1>4. QED
  BY <1>2, <1>3 DEF NamesAndSharesHeld

----------------------------------------------------------------------------
(* The quota of trial accounts. *)

(* A step that gives a trial account a row leaves it within its quota.     *)
WithinQuota ==
  \A u \in Users : NeverLicensed(u) =>
    /\ (\E s \in DOMAIN supplier' \ DOMAIN supplier : supplier'[s].owner = u)
         => Cardinality(SuppliersOf(u)') <= FreeMaxSuppliers
    /\ (\E p \in DOMAIN product' \ DOMAIN product : product'[p].owner = u)
         => Cardinality(ProductsOf(u)') <= FreeMaxProducts

(* Products appear in one statement only. *)
LEMMA ProductChange ==
  ASSUME [Next]_vars
  PROVE  \/ DOMAIN product' \subseteq DOMAIN product
         \/ \E w \in Workers : InsertProduct(w)
<1>1. ASSUME NEW w \in Workers, Begin(w)
      PROVE  product' = product
  BY <1>1 DEF Begin, tables
<1>2. ASSUME NEW w \in Workers, CatalogNext(w), ~InsertProduct(w)
      PROVE  DOMAIN product' \subseteq DOMAIN product
  <2>1. ASSUME product' = product PROVE DOMAIN product' \subseteq DOMAIN product
    BY <2>1
  <2>2. CASE MoveProduct(w)
    BY <2>2 DEF MoveProduct
  <2>3. CASE ArchiveProductToday(w) \/ UnarchiveProduct(w)
    BY <2>3 DEF ArchiveProductToday, UnarchiveProduct, SetOrdered
  <2>4. CASE DeleteSupplier(w) \/ DeleteArchive(w) \/ DeleteProduct(w)
    BY <2>4 DEF DeleteSupplier, DeleteSuppliers, DeleteArchive, DeleteProduct, Without
  <2>5. QED
    BY <1>2, <2>1, <2>2, <2>3, <2>4
       DEF CatalogNext, CheckSupplierQuota, CheckProductQuota, CheckQuickAddQuota,
           ReadOwners, FindSupplier, FindProduct, CheckDuplicate, InsertSupplier, RenameSupplier,
           ReadHost, CheckHostQuota, UpdateProduct, ResolveById, ResolveByName,
           ReadLastProduct, ReadLastSupplier, ReadFirstSupplier, CountSuppliers, tables
<1>3. ASSUME NEW w \in Workers, SharingNext(w)
      PROVE  DOMAIN product' \subseteq DOMAIN product
  <2>1. ASSUME product' = product PROVE DOMAIN product' \subseteq DOMAIN product
    BY <2>1
  <2>2. CASE PurgeProducts(w) \/ PurgeSuppliers(w) \/ PurgeUser(w)
    BY <2>2 DEF PurgeProducts, PurgeSuppliers, DeleteSuppliers, PurgeUser, Without
  <2>3. QED
    BY <1>3, <2>1, <2>2
       DEF SharingNext, FindTarget, CheckExistingShare, CountShares, InsertShare,
           FindShareById, FindShareByUser, FindShareWithMe, DeleteShare, ActivateLicence,
           FindUser, GrantLicence, RevokeLicence, RevokeAdmin, PurgeShares, SetLicence,
           SetAccount, tables
<1>4. ASSUME NEW u \in Users, LicenceExpires(u)
      PROVE  product' = product
  BY <1>4 DEF LicenceExpires, SetLicence, SetAccount
<1>5. CASE UNCHANGED vars
  BY <1>5 DEF vars
<1>6. QED
  BY <1>1, <1>2, <1>3, <1>4, <1>5 DEF Next

(* Every insert comes after a count that nothing has changed since.        *)
LEMMA QuotaStep ==
  ASSUME IInv, HandlersOK, [Next]_vars
  PROVE  WithinQuota
<1>1. TablesOK /\ JobsOK
  BY IInvParts
<1>2. ASSUME NEW u \in Users, NeverLicensed(u),
             NEW s \in DOMAIN supplier' \ DOMAIN supplier, supplier'[s].owner = u
      PROVE  Cardinality(SuppliersOf(u)') <= FreeMaxSuppliers
  <2>1. PICK w \in Workers : InsertSupplier(w)
    BY <1>2, SupplierChange DEF Shrinks, RenameSupplier
  <2> DEFINE row == [owner |-> job[w].req.user, name |-> NewName(job[w])]
  <2>2. Held(job[w]) /\ job[w].pc = "insertSupplier" /\ job[w] \in Jobs
    BY <1>1, <2>1, AtHeld DEF InsertSupplier, Labels
  <2>3. nextSupplier \notin DOMAIN supplier
    BY <1>1 DEF TablesOK, IsTable
  <2>4. supplier' = Inserted(supplier, nextSupplier, row)
    BY <1>2, <2>1 DEF InsertSupplier, NewName
  <2>5. s = nextSupplier /\ job[w].req.user = u
    BY <1>2, <2>3, <2>4 DEF Inserted
  <2>6. Cardinality(SuppliersOf(u)) < FreeMaxSuppliers
    <3>1. job[w].req.op # "editSupplier"
      BY <2>2 DEF Held, OnPath, LabelsOf
    <3>2. QED
      BY <1>2, <2>2, <2>5, <3>1 DEF Held, HasRoom, SupplierRoom
  <2>7. SuppliersOf(u)' = SuppliersOf(u) \cup {nextSupplier} /\ nextSupplier \notin SuppliersOf(u)
    BY <2>3, <2>4, <2>5 DEF SuppliersOf, Inserted
  <2>8. IsFiniteSet(SuppliersOf(u)) /\ Cardinality(SuppliersOf(u)) \in Nat
    BY <1>1, Counted
  <2>9. Cardinality(SuppliersOf(u)') = Cardinality(SuppliersOf(u)) + 1
    BY <2>7, <2>8, FS_AddElement
  <2>10. QED
    BY <2>6, <2>8, <2>9, QuotaAssumption
<1>3. ASSUME NEW u \in Users, NeverLicensed(u),
             NEW p \in DOMAIN product' \ DOMAIN product, product'[p].owner = u
      PROVE  Cardinality(ProductsOf(u)') <= FreeMaxProducts
  <2>1. PICK w \in Workers : InsertProduct(w)
    BY <1>3, ProductChange
  <2> DEFINE row == [owner |-> ProductOwner(job[w]), supplier |-> job[w].sup.id,
                     ordered |-> NotOrdered]
  <2>2. Held(job[w]) /\ job[w].pc = "insertProduct"
    BY <1>1, <2>1, AtHeld DEF InsertProduct, Labels
  <2>3. nextProduct \notin DOMAIN product
    BY <1>1 DEF TablesOK, IsTable
  <2>4. product' = Inserted(product, nextProduct, row)
    BY <1>3, <2>1 DEF InsertProduct
  <2>5. p = nextProduct /\ ProductOwner(job[w]) = u
    BY <1>3, <2>3, <2>4 DEF Inserted
  <2>6. Cardinality(ProductsOf(u)) < FreeMaxProducts
    BY <1>3, <2>2, <2>5 DEF Held, HasRoom, ProductRoom
  <2>7. ProductsOf(u)' = ProductsOf(u) \cup {nextProduct} /\ nextProduct \notin ProductsOf(u)
    BY <2>3, <2>4, <2>5 DEF ProductsOf, Inserted
  <2>8. IsFiniteSet(ProductsOf(u)) /\ Cardinality(ProductsOf(u)) \in Nat
    BY <1>1, Counted
  <2>9. Cardinality(ProductsOf(u)') = Cardinality(ProductsOf(u)) + 1
    BY <2>7, <2>8, FS_AddElement
  <2>10. QED
    BY <2>6, <2>8, <2>9, QuotaAssumption
<1>4. QED
  BY <1>2, <1>3 DEF WithinQuota

----------------------------------------------------------------------------
(* Access. *)

(* A step of worker w touches what it may. *)
Touches(w) ==
  \A u \in ChangedOwners(supplier, supplier') \cup ChangedOwners(product, product') :
    MayTouch(w, u)

(* Row by row: what changed or went was within reach, and so is what came. *)
LEMMA TouchesRows ==
  ASSUME NEW w \in Workers,
         \A i \in DOMAIN supplier : i \notin DOMAIN supplier' \/ supplier'[i] # supplier[i]
           => MayTouch(w, supplier[i].owner),
         \A i \in DOMAIN supplier' : i \notin DOMAIN supplier \/ supplier'[i] # supplier[i]
           => MayTouch(w, supplier'[i].owner),
         \A i \in DOMAIN product : i \notin DOMAIN product' \/ product'[i] # product[i]
           => MayTouch(w, product[i].owner),
         \A i \in DOMAIN product' : i \notin DOMAIN product \/ product'[i] # product[i]
           => MayTouch(w, product'[i].owner)
  PROVE  Touches(w)
  BY DEF Touches, ChangedOwners

(* A step that writes neither table touches nothing. *)
LEMMA TouchesNothing ==
  ASSUME NEW w \in Workers, supplier' = supplier, product' = product
  PROVE  Touches(w)
  BY TouchesRows

(* What the handlers of module Catalog know they may touch. *)
LEMMA Within ==
  ASSUME JobsOK, HandlersOK, NEW w \in Workers, NEW label \in Labels, At(w, label)
  PROVE  /\ job[w].req.op \in CatalogOps => MayTouch(w, job[w].sup.owner)
         /\ MayTouch(w, job[w].req.user)
         /\ job[w].req.op \in ProductOps /\ job[w].found \in DOMAIN product
              => MayTouch(w, product[job[w].found].owner)
  BY AtHeld DEF Held, MayUse, Reaches, MayTouch

(* The inserts. *)
LEMMA InsertsTouch ==
  ASSUME TablesOK, JobsOK, HandlersOK, NEW w \in Workers,
         InsertSupplier(w) \/ InsertProduct(w)
  PROVE  Touches(w)
<1>1. CASE InsertSupplier(w)
  <2>1. product' = product
    BY <1>1 DEF InsertSupplier
  <2>2. CASE supplier' = supplier
    BY <2>1, <2>2, TouchesNothing
  <2>3. CASE supplier' = Inserted(supplier, nextSupplier,
                                  [owner |-> job[w].req.user, name |-> NewName(job[w])])
    <3>1. nextSupplier \notin DOMAIN supplier
      BY DEF TablesOK, IsTable
    <3>2. MayTouch(w, job[w].req.user)
      BY DEF MayTouch
    <3>3. QED
      BY <2>1, <2>3, <3>1, <3>2, TouchesRows DEF Inserted
  <2>4. QED
    BY <1>1, <2>2, <2>3 DEF InsertSupplier, NewName
<1>2. CASE InsertProduct(w)
  <2> DEFINE j == job[w]
             row == [owner |-> ProductOwner(j), supplier |-> j.sup.id, ordered |-> NotOrdered]
  <2>1. supplier' = supplier
    BY <1>2 DEF InsertProduct
  <2>2. CASE product' = product
    BY <2>1, <2>2, TouchesNothing
  <2>3. CASE product' = Inserted(product, nextProduct, row)
    <3>1. nextProduct \notin DOMAIN product
      BY DEF TablesOK, IsTable
    <3>2. At(w, "insertProduct") /\ "insertProduct" \in Labels
      BY <1>2 DEF InsertProduct, Labels
    <3>3. j.req.op \in {"addProduct", "quickAdd"}
      BY <3>2, AtHeld DEF Held, OnPath, LabelsOf, Jobs, RequestType, Operations
    <3>4. MayTouch(w, row.owner)
      BY <3>2, <3>3, Within DEF ProductOwner, CatalogOps
    <3>5. QED
      BY <2>1, <2>3, <3>1, <3>4, TouchesRows DEF Inserted
  <2>4. QED
    BY <1>2, <2>2, <2>3 DEF InsertProduct
<1>3. QED
  BY <1>1, <1>2

(* The changes. *)
LEMMA ChangesTouch ==
  ASSUME TablesOK, JobsOK, HandlersOK, NEW w \in Workers,
         RenameSupplier(w) \/ MoveProduct(w) \/ ArchiveProductToday(w) \/ UnarchiveProduct(w)
  PROVE  Touches(w)
<1> DEFINE j == job[w]
<1>1. CASE RenameSupplier(w)
  <2> DEFINE r == j.sup.id
  <2>1. product' = product
    BY <1>1 DEF RenameSupplier
  <2>2. CASE supplier' = supplier
    BY <2>1, <2>2, TouchesNothing
  <2>3. CASE /\ r \in DOMAIN supplier
             /\ supplier' = [supplier EXCEPT ![r] = [@ EXCEPT !.name = j.req.name]]
    <3>1. At(w, "renameSupplier") /\ "renameSupplier" \in Labels
      BY <1>1 DEF RenameSupplier, Labels
    <3>2. j.req.op = "editSupplier"
      BY <3>1, AtHeld DEF Held, OnPath, LabelsOf, Jobs, RequestType, Operations, QuickAddLabels
    <3>3. supplier[r].owner = j.sup.owner
      BY <2>3, <3>1, AtLabel DEF GoodJob
    <3>4. MayTouch(w, supplier[r].owner)
      BY <3>1, <3>2, <3>3, Within DEF CatalogOps
    <3>5. supplier[r] \in SupplierRows
      BY <2>3 DEF TablesOK, IsTable
    <3>6. /\ DOMAIN supplier' = DOMAIN supplier /\ supplier'[r].owner = supplier[r].owner
          /\ \A s \in DOMAIN supplier \ {r} : supplier'[s] = supplier[s]
      BY <2>3, <3>5 DEF SupplierRows
    <3>7. QED
      BY <2>1, <3>4, <3>6, TouchesRows
  <2>4. QED
    BY <1>1, <2>2, <2>3 DEF RenameSupplier
<1>2. ASSUME NEW label \in {"moveProduct", "archive", "unarchive"}, At(w, label),
             supplier' = supplier, j.found \in DOMAIN product, NEW row,
             product' = [product EXCEPT ![j.found] = row],
             row.owner \in {j.sup.owner, product[j.found].owner}
      PROVE  Touches(w)
  <2>1. label \in Labels
    BY DEF Labels
  <2>2. j.req.op \in ProductOps
    BY <1>2, <2>1, AtHeld
       DEF Held, OnPath, LabelsOf, Jobs, RequestType, Operations, QuickAddLabels, ProductOps
  <2>3. MayTouch(w, j.sup.owner) /\ MayTouch(w, product[j.found].owner)
    BY <1>2, <2>1, <2>2, Within DEF CatalogOps
  <2>4. /\ DOMAIN product' = DOMAIN product /\ product'[j.found] = row
        /\ \A p \in DOMAIN product \ {j.found} : product'[p] = product[p]
    BY <1>2
  <2>5. QED
    BY <1>2, <2>3, <2>4, TouchesRows
<1>3. CASE MoveProduct(w)
  <2>1. supplier' = supplier /\ At(w, "moveProduct")
    BY <1>3 DEF MoveProduct
  <2>2. CASE product' = product
    BY <2>1, <2>2, TouchesNothing
  <2>3. CASE /\ j.found \in DOMAIN product
             /\ product' = [product EXCEPT ![j.found] =
                              [@ EXCEPT !.supplier = j.sup.id, !.owner = j.sup.owner]]
    <3> DEFINE row == [product[j.found] EXCEPT !.supplier = j.sup.id, !.owner = j.sup.owner]
    <3>1. product[j.found] \in ProductRows
      BY <2>3 DEF TablesOK, IsTable
    <3>2. row.owner = j.sup.owner
      BY <3>1 DEF ProductRows
    <3>3. product' = [product EXCEPT ![j.found] = row]
      BY <2>3
    <3>4. QED
      BY <1>2, <2>1, <2>3, <3>2, <3>3
  <2>4. QED
    BY <1>3, <2>2, <2>3 DEF MoveProduct
<1>4. ASSUME NEW day, NEW label \in {"archive", "unarchive"}, At(w, label), SetOrdered(w, day)
      PROVE  Touches(w)
  <2>1. supplier' = supplier
    BY <1>4 DEF SetOrdered
  <2>2. CASE product' = product
    BY <2>1, <2>2, TouchesNothing
  <2>3. CASE /\ j.found \in DOMAIN product
             /\ product' = [product EXCEPT ![j.found] = [@ EXCEPT !.ordered = day]]
    <3> DEFINE row == [product[j.found] EXCEPT !.ordered = day]
    <3>1. product[j.found] \in ProductRows
      BY <2>3 DEF TablesOK, IsTable
    <3>2. row.owner = product[j.found].owner
      BY <3>1 DEF ProductRows
    <3>3. product' = [product EXCEPT ![j.found] = row]
      BY <2>3
    <3>4. QED
      BY <1>2, <1>4, <2>1, <2>3, <3>2, <3>3
  <2>4. QED
    BY <1>4, <2>2, <2>3 DEF SetOrdered
<1>5. QED
  BY <1>1, <1>3, <1>4 DEF ArchiveProductToday, UnarchiveProduct

(* The deletions: row by row within reach. *)
LEMMA DropsTouch ==
  ASSUME NEW w \in Workers, NEW gone, NEW goneProducts,
         \A s \in DOMAIN supplier : s \in gone => MayTouch(w, supplier[s].owner),
         \A p \in DOMAIN product : p \in goneProducts => MayTouch(w, product[p].owner),
         supplier' = Without(supplier, gone), product' = Without(product, goneProducts)
  PROVE  Touches(w)
<1>1. \A s \in DOMAIN supplier' : s \in DOMAIN supplier /\ supplier'[s] = supplier[s]
  BY DEF Without
<1>2. \A p \in DOMAIN product' : p \in DOMAIN product /\ product'[p] = product[p]
  BY DEF Without
<1>3. /\ \A s \in DOMAIN supplier : s \notin DOMAIN supplier' => s \in gone
      /\ \A p \in DOMAIN product : p \notin DOMAIN product' => p \in goneProducts
  BY DEF Without
<1>4. QED
  BY <1>1, <1>2, <1>3, TouchesRows

(* Nothing is dropped from a table that stays. *)
LEMMA WithoutNothing ==
  ASSUME NEW table, NEW rows, NEW next, IsTable(table, rows, next)
  PROVE  table = Without(table, {})
  BY DEF Without, IsTable

(* A cascade follows supplier_id, and meets rows of the supplier's owner   *)
(* only.                                                                   *)
LEMMA CatalogDropsTouch ==
  ASSUME TablesOK, JobsOK, HandlersOK, NEW w \in Workers,
         DeleteSupplier(w) \/ DeleteArchive(w) \/ DeleteProduct(w)
  PROVE  Touches(w)
<1> DEFINE j == job[w]
<1>1. \A p \in DOMAIN product : product[p].owner = supplier[product[p].supplier].owner
                                /\ product[p].supplier \in DOMAIN supplier
  BY DEF TablesOK, OwnerConsistent, ReferencesOK
<1>2. supplier = Without(supplier, {})
  BY WithoutNothing DEF TablesOK
<1>3. ASSUME NEW label \in {"deleteSupplier", "deleteArchive"}, At(w, label),
             j.sup.id \in DOMAIN supplier
      PROVE  MayTouch(w, supplier[j.sup.id].owner)
  <2>1. label \in Labels
    BY DEF Labels
  <2>2. j.req.op \in {"deleteSupplier", "deleteArchive"}
    BY <1>3, <2>1, AtHeld
       DEF Held, OnPath, LabelsOf, Jobs, RequestType, Operations, QuickAddLabels
  <2>3. supplier[j.sup.id].owner = j.sup.owner
    BY <1>3, <2>1, AtLabel DEF GoodJob
  <2>4. QED
    BY <1>3, <2>1, <2>2, <2>3, Within DEF CatalogOps
<1>4. CASE DeleteSupplier(w)
  <2> DEFINE goneProducts == {p \in DOMAIN product : product[p].supplier \in {j.sup.id}}
  <2>1. /\ supplier' = Without(supplier, {j.sup.id}) /\ product' = Without(product, goneProducts)
        /\ At(w, "deleteSupplier")
    BY <1>4 DEF DeleteSupplier, DeleteSuppliers
  <2>2. \A s \in DOMAIN supplier : s \in {j.sup.id} => MayTouch(w, supplier[s].owner)
    BY <1>3, <2>1
  <2>3. \A p \in DOMAIN product : p \in goneProducts => MayTouch(w, product[p].owner)
    BY <1>1, <1>3, <2>1
  <2>4. QED
    BY <2>1, <2>2, <2>3, DropsTouch
<1>5. CASE DeleteArchive(w)
  <2>1. PICK day \in Days : product' = Without(product,
           {p \in DOMAIN product : /\ product[p].supplier = j.sup.id
                                   /\ product[p].ordered = day})
    BY <1>5 DEF DeleteArchive
  <2> DEFINE goneProducts == {p \in DOMAIN product : /\ product[p].supplier = j.sup.id
                                                     /\ product[p].ordered = day}
  <2>2. supplier' = supplier /\ At(w, "deleteArchive")
    BY <1>5 DEF DeleteArchive
  <2>3. \A p \in DOMAIN product : p \in goneProducts => MayTouch(w, product[p].owner)
    BY <1>1, <1>3, <2>2
  <2>4. QED
    BY <1>2, <2>1, <2>2, <2>3, DropsTouch
<1>6. CASE DeleteProduct(w)
  <2>1. /\ supplier' = supplier /\ product' = Without(product, {j.found})
        /\ At(w, "deleteProduct") /\ "deleteProduct" \in Labels
    BY <1>6 DEF DeleteProduct, Labels
  <2>2. j.req.op \in ProductOps
    BY <2>1, AtHeld
       DEF Held, OnPath, LabelsOf, Jobs, RequestType, Operations, QuickAddLabels, ProductOps
  <2>3. \A p \in DOMAIN product : p \in {j.found} => MayTouch(w, product[p].owner)
    BY <2>1, <2>2, Within
  <2>4. QED
    BY <1>2, <2>1, <2>3, DropsTouch
<1>7. QED
  BY <1>4, <1>5, <1>6

(* Deleting a user takes his rows. *)
LEMMA PurgesTouch ==
  ASSUME TablesOK, JobsOK, HandlersOK, NEW w \in Workers,
         PurgeProducts(w) \/ PurgeSuppliers(w) \/ PurgeUser(w)
  PROVE  Touches(w)
<1> DEFINE u == job[w].req.id
<1>1. PICK label \in {"purgeProducts", "purgeSuppliers", "purgeUser"} : At(w, label)
  BY DEF PurgeProducts, PurgeSuppliers, PurgeUser
<1>2. job[w].req.op = "deleteUser"
  BY <1>1, SharingPath DEF LabelsOf, SharingOps
<1>3. MayTouch(w, u)
  BY <1>2 DEF MayTouch
<1>4. \A p \in DOMAIN product : product[p].supplier \in SuppliersOf(u) => product[p].owner = u
  BY DEF TablesOK, OwnerConsistent, SuppliersOf
<1>5. supplier = Without(supplier, {})
  BY WithoutNothing DEF TablesOK
<1>6. CASE PurgeProducts(w)
  <2>1. supplier' = supplier /\ product' = Without(product, ProductsOf(u))
    BY <1>6 DEF PurgeProducts
  <2>2. \A p \in DOMAIN product : p \in ProductsOf(u) => MayTouch(w, product[p].owner)
    BY <1>3 DEF ProductsOf
  <2>3. QED
    BY <1>5, <2>1, <2>2, DropsTouch
<1>7. CASE PurgeSuppliers(w)
  <2> DEFINE goneProducts == {p \in DOMAIN product : product[p].supplier \in SuppliersOf(u)}
  <2>1. supplier' = Without(supplier, SuppliersOf(u)) /\ product' = Without(product, goneProducts)
    BY <1>7 DEF PurgeSuppliers, DeleteSuppliers
  <2>2. \A s \in DOMAIN supplier : s \in SuppliersOf(u) => MayTouch(w, supplier[s].owner)
    BY <1>3 DEF SuppliersOf
  <2>3. \A p \in DOMAIN product : p \in goneProducts => MayTouch(w, product[p].owner)
    BY <1>3, <1>4
  <2>4. QED
    BY <2>1, <2>2, <2>3, DropsTouch
<1>8. CASE PurgeUser(w)
  <2> DEFINE goneProducts == {p \in DOMAIN product :
                                product[p].owner = u \/ product[p].supplier \in SuppliersOf(u)}
  <2>1. supplier' = Without(supplier, SuppliersOf(u)) /\ product' = Without(product, goneProducts)
    BY <1>8 DEF PurgeUser
  <2>2. \A s \in DOMAIN supplier : s \in SuppliersOf(u) => MayTouch(w, supplier[s].owner)
    BY <1>3 DEF SuppliersOf
  <2>3. \A p \in DOMAIN product : p \in goneProducts => MayTouch(w, product[p].owner)
    BY <1>3, <1>4
  <2>4. QED
    BY <2>1, <2>2, <2>3, DropsTouch
<1>9. QED
  BY <1>6, <1>7, <1>8

(* Whatever the only worker does, it touches what its request may. *)
LEMMA AccessStep ==
  ASSUME OneWorker, IInv, HandlersOK, [Next]_vars, NEW w \in Workers, job'[w] # job[w]
  PROVE  Touches(w)
<1>1. TablesOK /\ JobsOK
  BY IInvParts
<1>2. CASE Begin(w)
  BY <1>2, TouchesNothing DEF Begin, tables
<1>3. CASE CatalogNext(w)
  BY <1>1, <1>3, InsertsTouch, ChangesTouch, CatalogDropsTouch, TouchesNothing
     DEF CatalogNext, CheckSupplierQuota, CheckProductQuota, CheckQuickAddQuota, ReadOwners,
         FindSupplier, FindProduct, CheckDuplicate, ReadHost, CheckHostQuota, UpdateProduct,
         ResolveById, ResolveByName, ReadLastProduct, ReadLastSupplier, ReadFirstSupplier,
         CountSuppliers, tables
<1>4. CASE SharingNext(w)
  BY <1>1, <1>4, PurgesTouch, TouchesNothing
     DEF SharingNext, FindTarget, CheckExistingShare, CountShares, InsertShare,
         FindShareById, FindShareByUser, FindShareWithMe, DeleteShare, ActivateLicence,
         FindUser, GrantLicence, RevokeLicence, RevokeAdmin, PurgeShares, SetLicence,
         SetAccount, tables
<1>5. ASSUME NEW u \in Users, LicenceExpires(u)
      PROVE  Touches(w)
  BY <1>5, TouchesNothing DEF LicenceExpires, SetLicence, SetAccount
<1>6. CASE UNCHANGED vars
  BY <1>6 DEF vars
<1>7. QED
  BY <1>2, <1>3, <1>4, <1>5, <1>6 DEF Next, OneWorker

----------------------------------------------------------------------------
(* The theorems about one worker. *)

(* The empty database, nobody at work. *)
LEMMA InitOne == Init => HandlersOK /\ NamesAndSharesHeld
<1> SUFFICES ASSUME Init PROVE HandlersOK /\ NamesAndSharesHeld
  OBVIOUS
<1>1. HandlersOK
  BY DEF Init, HandlersOK
<1>2. NoDuplicateNames
  BY DEF Init, EmptyTable, NoDuplicateNames
<1>3. \A u \in Users : SharesOf(u) = {}
  BY DEF Init, EmptyTable, SharesOf
<1>4. ShareLimitHeld
  BY <1>3, FS_EmptySet, QuotaAssumption DEF ShareLimitHeld
<1>5. QED
  BY <1>1, <1>2, <1>4 DEF NamesAndSharesHeld

(* What a handler has checked is still so when it acts on it. *)
THEOREM HandlersStayRight ==
  ASSUME OneWorker
  PROVE  Spec => []HandlersOK
<1>1. IInv /\ HandlersOK /\ [Next]_vars => HandlersOK'
  BY NextHeld
<1>2. QED
  BY <1>1, InitOne, Invariance, PTL DEF Spec

(* No two suppliers of one owner with the same name, and nobody with too   *)
(* many shares, though no key of a table says so.                          *)
THEOREM NamesAndSharesStay ==
  ASSUME OneWorker
  PROVE  Spec => []NamesAndSharesHeld
<1>1. IInv /\ HandlersOK /\ NamesAndSharesHeld /\ [Next]_vars => NamesAndSharesHeld'
  BY NamesAndSharesKept
<1>2. QED
  BY <1>1, InitOne, Invariance, HandlersStayRight, PTL DEF Spec

(* No request takes a trial account beyond its quota. *)
THEOREM QuotaStays ==
  ASSUME OneWorker
  PROVE  Spec => QuotaHeld
<1>1. IInv /\ HandlersOK /\ [Next]_vars => [WithinQuota]_vars
  BY QuotaStep
<1>2. [][WithinQuota]_vars => QuotaHeld
  BY DEF QuotaHeld, WithinQuota
<1>3. QED
  BY <1>1, <1>2, Invariance, HandlersStayRight, PTL DEF Spec

(* A request touches its user's rows and those he has access to.           *)
THEOREM AccessStays ==
  ASSUME OneWorker
  PROVE  Spec => AccessRespected
<1> DEFINE Respects == \A w \in Workers : job'[w] # job[w] => Touches(w)
<1>1. IInv /\ HandlersOK /\ [Next]_vars => [Respects]_vars
  BY AccessStep
<1>2. [][Respects]_vars => AccessRespected
  BY DEF AccessRespected, Touches
<1>3. QED
  BY <1>1, <1>2, Invariance, HandlersStayRight, PTL DEF Spec
=============================================================================
