--------------------------- MODULE AccountsProofs ---------------------------
(***************************************************************************)
(* For any number of users and of requests in flight: the tables and what  *)
(* the handlers remember are well-typed; and in one worker, a token worth  *)
(* something that was given for a password was given for the one stored    *)
(* now, an address counts as verified for a reason, and stays so.          *)
(*                                                                         *)
(* A password never changes without its epoch (Grows).  So a row read long *)
(* ago is either of an older epoch, and worth nothing, or has the password *)
(* of now: signing in may check against it after an await.  The password   *)
(* form reads the epoch again after its UPDATE; that this is the epoch of  *)
(* its own password needs that nobody comes in between, which one event    *)
(* loop grants and two do not.                                             *)
(***************************************************************************)
EXTENDS Accounts, TLAPS

OneWorker == \A s, t \in Slots : WorkerOf[s] = WorkerOf[t]

(* Labels at which a handler works on the row it read. *)
Holding ==
  {"sendCode", "verifySet", "verifyFresh", "changeTaken", "changeSet", "changeFresh",
   "signupRead", "loginHash", "passwordCheck", "passwordHash", "passwordFresh",
   "renameTaken", "rename", "emailTaken", "profile", "reset", "resetHash", "admin", "purge"}

HeldRows(ids) == [id: 1..(ids - 1), row: Rows]

(* The checks of the request that lie behind a handler at its label. *)
Checked(label, req, row) ==
  /\ label \in Holding => row # NoRow
  /\ label \in {"signupEmail", "signupHash"} => Complete(req)
  /\ label \in {"changeTaken", "changeSet"} => req.newEmail \in Emails
  /\ label \in {"passwordHash", "passwordFresh", "resetHash", "signupRead"} =>
       req.password \in Passwords
  /\ label = "rename" => req.name \in Names
  /\ label = "profile" => req.email \in Emails

(* Who has the password this row once had, at this epoch, has the one of   *)
(* now, or the epoch is over.                                              *)
Knows(users, u, epoch, password) ==
  u \in DOMAIN users =>
    /\ epoch <= users[u].epoch
    /\ epoch = users[u].epoch => password = users[u].password

(* Between writing a password and reading the row again, the password of   *)
(* the request is the one stored: in the password form, and signing up.    *)
Settled(label, me, row, req, users) ==
  /\ label = "passwordFresh" /\ me \in DOMAIN users => users[me].password = req.password
  /\ label = "signupRead" /\ row.id \in DOMAIN users => users[row.id].password = req.password

Remembers(j, users, ids, codes) ==
  /\ j \in Jobs(ids, codes)
  /\ Checked(j.pc, j.req, j.row)
  /\ j.pc = "loginHash" => Knows(users, j.row.id, j.row.row.epoch, j.row.row.password)
  /\ OneWorker => Settled(j.pc, j.me, j.row, j.req, users)

TablesOK ==
  /\ nextUser \in Nat \ {0} /\ DOMAIN user \subseteq 1..(nextUser - 1)
  /\ user \in [DOMAIN user -> Rows]
  /\ nextCode \in Nat \ {0} /\ mailbox \subseteq [code: 1..(nextCode - 1), to: Emails]

SessionsOK ==
  /\ session \subseteq [user: 1..(nextUser - 1), epoch: Nat, knew: Passwords \cup {None}]
  /\ OneWorker =>
       \A t \in session : t.knew # None => Knows(user, t.user, t.epoch, t.knew)

JobsOK ==
  /\ job \in [Slots -> {Idle} \cup Jobs(nextUser, nextCode)]
  /\ \A s \in Slots : job[s].pc # "idle" => Remembers(job[s], user, nextUser, nextCode)

Inv == TablesOK /\ SessionsOK /\ JobsOK

(* No step brings an id or a code back, or changes a password without its  *)
(* epoch.                                                                  *)
Grows ==
  /\ nextUser <= nextUser' /\ nextCode <= nextCode'
  /\ \A u \in DOMAIN user' :
       IF u \in DOMAIN user
       THEN /\ user[u].epoch <= user'[u].epoch
            /\ user[u].epoch = user'[u].epoch => user[u].password = user'[u].password
       ELSE u >= nextUser

(* What every action owes. *)
Preserved == TablesOK' /\ Grows /\ SessionsOK' /\ JobsOK'

----------------------------------------------------------------------------
(* What is known survives every step that grows. *)
LEMMA KnowsSurvives ==
  ASSUME TablesOK, TablesOK', Grows, NEW u \in 1..(nextUser - 1), NEW epoch \in Nat,
         NEW password, Knows(user, u, epoch, password)
  PROVE  Knows(user', u, epoch, password)
<1> SUFFICES ASSUME u \in DOMAIN user'
             PROVE  /\ epoch <= user'[u].epoch
                    /\ epoch = user'[u].epoch => password = user'[u].password
  BY DEF Knows
<1>1. u \in DOMAIN user /\ user[u] \in Rows /\ user'[u] \in Rows
  BY DEF Grows, TablesOK
<1>2. user[u].epoch \in Nat /\ user'[u].epoch \in Nat
  BY <1>1 DEF Rows
<1>3. QED
  BY <1>1, <1>2 DEF Knows, Grows

(* A handler that does not move keeps remembering rightly, unless it is    *)
(* between its UPDATE and its reading again.                               *)
LEMMA MemorySurvives ==
  ASSUME TablesOK, TablesOK', Grows, NEW j, Remembers(j, user, nextUser, nextCode),
         OneWorker => Settled(j.pc, j.me, j.row, j.req, user')
  PROVE  Remembers(j, user', nextUser', nextCode')
<1>1. j \in Jobs(nextUser, nextCode) /\ Checked(j.pc, j.req, j.row)
  BY DEF Remembers
<1>2. j \in Jobs(nextUser', nextCode')
  BY <1>1 DEF Jobs, Grows, TablesOK
<1>3. ASSUME j.pc = "loginHash"
      PROVE  Knows(user', j.row.id, j.row.row.epoch, j.row.row.password)
  <2>1. j.row \in HeldRows(nextUser)
    BY <1>1, <1>3 DEF Jobs, Checked, Holding, HeldRows
  <2>2. j.row.id \in 1..(nextUser - 1) /\ j.row.row \in Rows
    BY <2>1 DEF HeldRows
  <2>3. j.row.row.epoch \in Nat
    BY <2>2 DEF Rows
  <2>4. QED
    BY <1>3, <2>2, <2>3, KnowsSurvives DEF Remembers
<1>4. QED
  BY <1>1, <1>2, <1>3 DEF Remembers

(* Sessions stay what they are while no step opens one. *)
LEMMA SessionsKept ==
  ASSUME TablesOK, TablesOK', Grows, SessionsOK, UNCHANGED session
  PROVE  SessionsOK'
<1>1. session' \subseteq [user: 1..(nextUser' - 1), epoch: Nat, knew: Passwords \cup {None}]
  BY DEF SessionsOK, Grows, TablesOK
<1>2. ASSUME OneWorker, NEW t \in session, t.knew # None
      PROVE  Knows(user', t.user, t.epoch, t.knew)
  <2>1. t.user \in 1..(nextUser - 1) /\ t.epoch \in Nat
    BY DEF SessionsOK
  <2>2. Knows(user, t.user, t.epoch, t.knew)
    BY <1>2 DEF SessionsOK
  <2>3. QED
    BY <2>1, <2>2, KnowsSurvives
<1>3. QED
  BY <1>1, <1>2 DEF SessionsOK, OneWorker

(* A slot that may run leaves the others of its worker where they await.   *)
LEMMA OthersAwait ==
  ASSUME NEW s \in Slots, CanRun(s), OneWorker, NEW t \in Slots, t # s
  PROVE  job[t].pc \notin {"passwordFresh", "signupRead"}
  BY DEF CanRun, OneWorker, Awaiting

(* A step of slot s keeps all jobs right if the job it turns to is.        *)
LEMMA JobStep ==
  ASSUME TablesOK, TablesOK', Grows, JobsOK, NEW s \in Slots, CanRun(s), NEW n,
         job' = [job EXCEPT ![s] = n],
         n = Idle \/ Remembers(n, user', nextUser', nextCode')
  PROVE  JobsOK'
<1>1. ASSUME NEW t \in Slots, t # s, job[t].pc # "idle"
      PROVE  Remembers(job[t], user', nextUser', nextCode')
  <2>1. Remembers(job[t], user, nextUser, nextCode)
    BY <1>1 DEF JobsOK
  <2>2. OneWorker => Settled(job[t].pc, job[t].me, job[t].row, job[t].req, user')
    BY <1>1, OthersAwait DEF Settled
  <2>3. QED
    BY <2>1, <2>2, MemorySurvives
<1>2. ASSUME NEW t \in Slots
      PROVE  /\ job'[t] \in {Idle} \cup Jobs(nextUser', nextCode')
             /\ job'[t].pc # "idle" => Remembers(job'[t], user', nextUser', nextCode')
  <2>1. CASE t = s
    BY <2>1 DEF JobsOK, Remembers, Idle
  <2>2. CASE t # s
    <3>1. job'[t] = job[t]
      BY <2>2 DEF JobsOK
    <3>2. CASE job[t] = Idle
      BY <3>1, <3>2 DEF Idle
    <3>3. CASE job[t] # Idle
      <4>1. job[t].pc # "idle"
        BY <3>3 DEF JobsOK, Jobs, Labels, Awaiting
      <4>2. QED
        BY <1>1, <2>2, <3>1, <4>1 DEF Remembers
    <3>4. QED
      BY <3>2, <3>3
  <2>3. QED
    BY <2>1, <2>2
<1>3. job' \in [Slots -> {Idle} \cup Jobs(nextUser', nextCode')]
  BY <1>2 DEF JobsOK
<1>4. QED
  BY <1>2, <1>3 DEF JobsOK

(* A slot at a label has a job, and remembers rightly. *)
LEMMA AtLabel ==
  ASSUME JobsOK, NEW s \in Slots, NEW label \in Labels, At(s, label)
  PROVE  /\ CanRun(s) /\ job[s].pc = label
         /\ Remembers(job[s], user, nextUser, nextCode)
         /\ job[s] \in Jobs(nextUser, nextCode)
<1>1. label # "idle"
  BY DEF Labels, Awaiting
<1>2. QED
  BY <1>1 DEF JobsOK, At, Remembers

(* A handler that holds a row holds one that has been in the table.        *)
LEMMA HeldRow ==
  ASSUME JobsOK, NEW s \in Slots, NEW label \in Labels \cap Holding, At(s, label)
  PROVE  /\ job[s].row \in HeldRows(nextUser)
         /\ job[s].row.id \in 1..(nextUser - 1) /\ job[s].row.row \in Rows
<1>1. job[s].row \in HeldRows(nextUser)
  BY AtLabel DEF Remembers, Checked, Jobs, HeldRows
<1>2. QED
  BY <1>1 DEF HeldRows

----------------------------------------------------------------------------
(* The ways a handler leaves its job. *)

(* Answering the request leaves a right job: none. *)
LEMMA RespondStep ==
  ASSUME TablesOK, TablesOK', Grows, SessionsOK, JobsOK, NEW s \in Slots, CanRun(s), Respond(s)
  PROVE  SessionsOK' /\ JobsOK'
  BY JobStep, SessionsKept DEF Respond

(* Going on to a label whose checks lie behind. *)
LEMMA GotoStep ==
  ASSUME TablesOK, TablesOK', Grows, SessionsOK, JobsOK, NEW s \in Slots,
         NEW label \in Labels, At(s, label), NEW next \in Labels, Goto(s, next),
         UNCHANGED session, next # "loginHash",
         Checked(next, job[s].req, job[s].row),
         OneWorker => Settled(next, job[s].me, job[s].row, job[s].req, user')
  PROVE  SessionsOK' /\ JobsOK'
<1> DEFINE n == [job[s] EXCEPT !.pc = next]
<1>1. CanRun(s) /\ job[s] \in Jobs(nextUser, nextCode)
  BY AtLabel
<1>2. /\ n \in Jobs(nextUser', nextCode')
      /\ n.pc = next /\ n.req = job[s].req /\ n.me = job[s].me /\ n.row = job[s].row
  BY <1>1 DEF Jobs, Grows, TablesOK
<1>3. Remembers(n, user', nextUser', nextCode')
  BY <1>2 DEF Remembers
<1>4. job' = [job EXCEPT ![s] = n]
  BY DEF Goto, JobsOK
<1>5. QED
  BY <1>1, <1>3, <1>4, JobStep, SessionsKept

(* Going on with a row that has been in the table. *)
LEMMA HoldStep ==
  ASSUME TablesOK, TablesOK', Grows, SessionsOK, JobsOK, NEW s \in Slots,
         NEW label \in Labels, At(s, label), NEW next \in Labels,
         NEW held \in HeldRows(nextUser'), Hold(s, held, next),
         UNCHANGED session, next # "passwordFresh",
         next = "signupRead" /\ held.id \in DOMAIN user' =>
           user'[held.id].password = job[s].req.password,
         next = "loginHash" => Knows(user', held.id, held.row.epoch, held.row.password),
         Checked(next, job[s].req, held)
  PROVE  SessionsOK' /\ JobsOK'
<1> DEFINE m == [job[s] EXCEPT !.row = held]
           n == [m EXCEPT !.pc = next]
<1>1. CanRun(s) /\ job[s] \in Jobs(nextUser, nextCode)
  BY AtLabel
<1>2. m \in Jobs(nextUser', nextCode') /\ m.req = job[s].req /\ m.row = held
  BY <1>1 DEF Jobs, HeldRows, Grows, TablesOK
<1> HIDE DEF m
<1>2a. /\ n \in Jobs(nextUser', nextCode')
       /\ n.pc = next /\ n.req = job[s].req /\ n.row = held
  BY <1>2 DEF Jobs
<1>3. Remembers(n, user', nextUser', nextCode')
  BY <1>2a DEF Remembers, Settled
<1>4. job' = [job EXCEPT ![s] = n]
  BY DEF Hold, JobsOK, m
<1>5. QED
  BY <1>1, <1>3, <1>4, JobStep, SessionsKept

(* Opening a session, for a mailed code or for the password of that epoch. *)
LEMMA OpenStep ==
  ASSUME TablesOK, TablesOK', Grows, SessionsOK, JobsOK, NEW s \in Slots, CanRun(s),
         NEW u \in 1..(nextUser - 1), NEW row \in Rows,
         NEW knew \in Passwords \cup {None},
         OneWorker /\ knew # None => Knows(user', u, row.epoch, knew), Open(s, u, row, knew)
  PROVE  SessionsOK' /\ JobsOK'
<1> DEFINE t == [user |-> u, epoch |-> row.epoch, knew |-> knew]
<1>1. JobsOK'
  BY JobStep DEF Open
<1>2. row.epoch \in Nat
  BY DEF Rows
<1>3. session' = session \cup {t}
  BY DEF Open
<1>4. session' \subseteq [user: 1..(nextUser' - 1), epoch: Nat, knew: Passwords \cup {None}]
  BY <1>2, <1>3 DEF SessionsOK, Grows, TablesOK
<1>5. ASSUME OneWorker, NEW v \in session', v.knew # None
      PROVE  Knows(user', v.user, v.epoch, v.knew)
  <2>1. CASE v = t
    BY <1>5, <2>1
  <2>2. CASE v \in session
    <3>1. v.user \in 1..(nextUser - 1) /\ v.epoch \in Nat
      BY <2>2 DEF SessionsOK
    <3>2. Knows(user, v.user, v.epoch, v.knew)
      BY <1>5, <2>2 DEF SessionsOK
    <3>3. QED
      BY <3>1, <3>2, KnowsSurvives
  <2>3. QED
    BY <1>3, <2>1, <2>2
<1>6. QED
  BY <1>1, <1>4, <1>5 DEF SessionsOK, OneWorker

----------------------------------------------------------------------------
(* The ways a statement leaves the tables. *)

(* A statement that only reads. *)
LEMMA ReadOnly ==
  ASSUME TablesOK, UNCHANGED db
  PROVE  TablesOK' /\ Grows
<1>1. TablesOK'
  BY DEF TablesOK, db
<1>2. Grows
  BY DEF TablesOK, Grows, db, Rows
<1>3. QED
  BY <1>1, <1>2

(* A row written keeps its password, or raises its epoch. *)
LEMMA UserStep ==
  ASSUME TablesOK, NEW u, NEW row, SetUser(u, row), UNCHANGED <<nextUser, nextCode, mailbox>>,
         u \in DOMAIN user =>
           /\ row \in Rows
           /\ user[u].epoch <= row.epoch
           /\ user[u].epoch = row.epoch => user[u].password = row.password
  PROVE  TablesOK' /\ Grows
<1>1. \A v \in DOMAIN user : user[v] \in Rows /\ user[v].epoch \in Nat
  BY DEF TablesOK, Rows
<1>2. TablesOK'
  BY <1>1 DEF TablesOK, SetUser
<1>3. Grows
  BY <1>1 DEF TablesOK, SetUser, Grows
<1>4. QED
  BY <1>2, <1>3

(* What a read finds is a row of the table, as it is. *)
LEMMA FoundFacts ==
  ASSUME TablesOK, NEW us \in SUBSET DOMAIN user, Found(us) # NoRow
  PROVE  /\ Found(us) \in HeldRows(nextUser)
         /\ Found(us).id \in DOMAIN user /\ Found(us).row = user[Found(us).id]
<1>1. PICK u \in us : Found(us) = RowOf(u)
  BY DEF Found
<1>2. user[u] \in Rows /\ u \in 1..(nextUser - 1)
  BY DEF TablesOK
<1>3. QED
  BY <1>1, <1>2 DEF RowOf, HeldRows

(* So is a row read by its id. *)
LEMMA RowOfFacts ==
  ASSUME TablesOK, NEW u \in DOMAIN user
  PROVE  RowOf(u) \in HeldRows(nextUser) /\ RowOf(u) # NoRow /\ user[u] \in Rows
<1>1. user[u] \in Rows /\ u \in 1..(nextUser - 1)
  BY DEF TablesOK
<1>2. RowOf(u) \in HeldRows(nextUser) /\ RowOf(u).id = u
  BY <1>1 DEF RowOf, HeldRows
<1>3. NoRow.id = 0 /\ u # 0
  BY <1>1, TablesOK DEF NoRow, TablesOK
<1>4. QED
  BY <1>1, <1>2, <1>3

----------------------------------------------------------------------------
(* Statements that only read, by how they leave their job. *)

(* Reading, and answering. *)
LEMMA RespondReads ==
  ASSUME Inv, NEW s \in Slots, CanRun(s), Respond(s), UNCHANGED db
  PROVE  Preserved
  BY ReadOnly, RespondStep DEF Inv, Preserved

(* Reading, and going on. *)
LEMMA GotoReads ==
  ASSUME Inv, NEW s \in Slots, NEW label \in Labels, At(s, label),
         NEW next \in Labels \ {"loginHash", "passwordFresh", "signupRead"}, Goto(s, next),
         UNCHANGED session, UNCHANGED db, Checked(next, job[s].req, job[s].row)
  PROVE  Preserved
<1>1. OneWorker => Settled(next, job[s].me, job[s].row, job[s].req, user')
  BY DEF Settled
<1>2. QED
  BY <1>1, ReadOnly, GotoStep DEF Inv, Preserved

(* Reading, and going on with the row found by name or address. *)
LEMMA FoundReads ==
  ASSUME Inv, NEW s \in Slots, NEW label \in Labels, At(s, label),
         NEW next \in Labels \ {"passwordFresh", "signupRead"}, NEW us \in SUBSET DOMAIN user,
         Found(us) # NoRow, Hold(s, Found(us), next),
         UNCHANGED session, UNCHANGED db, Checked(next, job[s].req, Found(us))
  PROVE  Preserved
<1> DEFINE held == Found(us)
<1>1. TablesOK' /\ Grows
  BY ReadOnly DEF Inv
<1>2. /\ held \in HeldRows(nextUser)
      /\ held.id \in DOMAIN user /\ held.row = user[held.id]
  BY FoundFacts DEF Inv
<1>3. user[held.id].epoch \in Nat
  BY <1>2 DEF Inv, TablesOK, Rows
<1>4. Knows(user', held.id, held.row.epoch, held.row.password)
  BY <1>2, <1>3 DEF Knows, db
<1>5. held \in HeldRows(nextUser')
  BY <1>2 DEF db
<1> HIDE DEF held
<1>6. Hold(s, held, next) /\ Checked(next, job[s].req, held)
  BY DEF held
<1>7. QED
  BY <1>1, <1>4, <1>5, <1>6, HoldStep DEF Inv, Preserved

(* Reading, and going on with the row read by its id. *)
LEMMA RowReads ==
  ASSUME Inv, NEW s \in Slots, NEW label \in Labels, At(s, label),
         NEW next \in Labels \ {"loginHash", "passwordFresh", "signupRead"}, NEW u \in DOMAIN user,
         Hold(s, RowOf(u), next),
         UNCHANGED session, UNCHANGED db, Checked(next, job[s].req, RowOf(u))
  PROVE  Preserved
<1>1. TablesOK' /\ Grows
  BY ReadOnly DEF Inv
<1>2. RowOf(u) \in HeldRows(nextUser')
  BY RowOfFacts DEF Inv, db
<1>3. QED
  BY <1>1, <1>2, HoldStep DEF Inv, Preserved

(* Reading a row, and opening a session for it. *)
LEMMA OpenReads ==
  ASSUME Inv, NEW s \in Slots, CanRun(s), NEW u \in DOMAIN user,
         NEW knew \in Passwords \cup {None},
         OneWorker => knew \in {None, user[u].password}, Open(s, u, user[u], knew), UNCHANGED db
  PROVE  Preserved
<1>1. TablesOK' /\ Grows
  BY ReadOnly DEF Inv
<1>2. u \in 1..(nextUser - 1) /\ user[u] \in Rows
  BY DEF Inv, TablesOK
<1>3. user[u].epoch \in Nat
  BY <1>2 DEF Rows
<1>4. OneWorker /\ knew # None => Knows(user', u, user[u].epoch, knew)
  BY <1>3 DEF Knows, db
<1>5. QED
  BY <1>1, <1>2, <1>4, OpenStep DEF Inv, Preserved

----------------------------------------------------------------------------
(* Requests and codes *)

(* A request starts a job that holds no row yet. *)
LEMMA BeginKeeps ==
  ASSUME Inv, NEW s \in Slots, Begin(s)
  PROVE  Preserved
<1>1. TablesOK' /\ Grows
  BY ReadOnly DEF Begin, Inv
<1>2. PICK r \in Requests :
        \E me \in IF r.op \in WithSession THEN {t.user : t \in {t \in session : Valid(t)}} ELSE {0} :
        \E code \in IF r.op = "verify" THEN {m.code : m \in mailbox} ELSE {0} :
          job' = [job EXCEPT ![s] = [pc |-> FirstLabel(r.op), req |-> r, me |-> me, code |-> code,
                                     row |-> NoRow]]
  BY DEF Begin
<1> DEFINE callers == IF r.op \in WithSession THEN {t.user : t \in {t \in session : Valid(t)}} ELSE {0}
           codes == IF r.op = "verify" THEN {m.code : m \in mailbox} ELSE {0}
<1>3. PICK me \in callers : \E code \in codes :
         job' = [job EXCEPT ![s] = [pc |-> FirstLabel(r.op), req |-> r, me |-> me, code |-> code,
                                    row |-> NoRow]]
  BY <1>2
<1>4. PICK code \in codes :
         job' = [job EXCEPT ![s] = [pc |-> FirstLabel(r.op), req |-> r, me |-> me, code |-> code,
                                    row |-> NoRow]]
  BY <1>3
<1> DEFINE n == [pc |-> FirstLabel(r.op), req |-> r, me |-> me, code |-> code, row |-> NoRow]
<1>5. r \in RequestType
  BY FieldsAssumption
<1>6. r.op \in Operations
  BY <1>5 DEF RequestType
<1>7. FirstLabel(r.op) \in {"signupName", "loginRead", "verifyRead", "resendRead", "changeRead",
                            "passwordRead", "target"}
  BY <1>6 DEF FirstLabel, Operations, AdminOnly
<1>8. me \in 0..(nextUser - 1)
  BY DEF Inv, TablesOK, SessionsOK
<1>9. code \in 0..(nextCode - 1)
  BY DEF Inv, TablesOK
<1>10. n \in Jobs(nextUser', nextCode')
  BY <1>7, <1>8, <1>9 DEF Jobs, Labels, Awaiting, Begin, db
<1>11. Remembers(n, user', nextUser', nextCode')
  BY <1>7, <1>10 DEF Remembers, Checked, Holding, Settled
<1>12. QED
  BY <1>1, <1>4, <1>11, JobStep, SessionsKept DEF Begin, Inv, Preserved

(* A code ages in the row only. *)
LEMMA CodeAgesKeeps ==
  ASSUME Inv, NEW u, CodeAges(u)
  PROVE  Preserved
<1> DEFINE age == IF user[u].age = "fresh" THEN "live" ELSE "expired"
           row == [user[u] EXCEPT !.age = age]
<1>1. user[u] \in Rows
  BY DEF CodeAges, Inv, TablesOK
<1>2. row \in Rows /\ row.epoch = user[u].epoch /\ row.password = user[u].password
  BY <1>1 DEF Rows, Ages
<1>3. user' = [user EXCEPT ![u] = row]
  BY DEF CodeAges
<1> HIDE DEF row
<1>4. \A v \in DOMAIN user : user[v] \in Rows /\ user[v].epoch \in Nat
  BY DEF Inv, TablesOK, Rows
<1>5. TablesOK'
  BY <1>2, <1>3 DEF CodeAges, Inv, TablesOK
<1>6. Grows
  BY <1>2, <1>3, <1>4 DEF CodeAges, Inv, TablesOK, Grows
<1>7. SessionsOK'
  BY <1>5, <1>6, SessionsKept DEF CodeAges, Inv
<1>8. ASSUME NEW s \in Slots, job[s].pc # "idle"
      PROVE  Remembers(job[s], user', nextUser', nextCode')
  <2>1. Remembers(job[s], user, nextUser, nextCode)
    BY <1>8 DEF Inv, JobsOK
  <2>2. \A v \in DOMAIN user : user'[v].password = user[v].password
    BY <1>2, <1>3 DEF Inv, TablesOK
  <2>3. OneWorker => Settled(job[s].pc, job[s].me, job[s].row, job[s].req, user')
    BY <1>3, <2>1, <2>2 DEF Remembers, Settled
  <2>4. QED
    BY <1>5, <1>6, <2>1, <2>3, MemorySurvives DEF Inv
<1>9. JobsOK'
  BY <1>8 DEF CodeAges, Inv, JobsOK
<1>10. QED
  BY <1>5, <1>6, <1>7, <1>9 DEF Preserved

(* A code is checked. *)
LEMMA VerifyReadKeeps ==
  ASSUME Inv, NEW s \in Slots, VerifyRead(s)
  PROVE  Preserved
<1> DEFINE us == Addressed(job[s].req.email)
<1>1. At(s, "verifyRead") /\ UNCHANGED db /\ CanRun(s)
  BY DEF VerifyRead, At
<1>2. us \in SUBSET DOMAIN user
  BY DEF Addressed
<1>3. CASE Respond(s)
  BY <1>1, <1>3, RespondReads
<1>4. CASE Found(us) # NoRow /\ Hold(s, Found(us), "verifySet") /\ UNCHANGED session
  <2>1. Checked("verifySet", job[s].req, Found(us))
    BY <1>4 DEF Checked
  <2>2. QED
    BY <1>1, <1>2, <1>4, <2>1, FoundReads DEF Labels
<1>5. QED
  BY <1>3, <1>4 DEF VerifyRead

(* Another code may be sent. *)
LEMMA ResendReadKeeps ==
  ASSUME Inv, NEW s \in Slots, ResendRead(s)
  PROVE  Preserved
<1> DEFINE us == Addressed(job[s].req.email)
<1>1. At(s, "resendRead") /\ UNCHANGED db /\ CanRun(s)
  BY DEF ResendRead, At
<1>2. us \in SUBSET DOMAIN user
  BY DEF Addressed
<1>3. CASE Respond(s)
  BY <1>1, <1>3, RespondReads
<1>4. CASE Found(us) # NoRow /\ Hold(s, Found(us), "sendCode") /\ UNCHANGED session
  <2>1. Checked("sendCode", job[s].req, Found(us))
    BY <1>4 DEF Checked
  <2>2. QED
    BY <1>1, <1>2, <1>4, <2>1, FoundReads DEF Labels
<1>5. QED
  BY <1>3, <1>4 DEF ResendRead

(* The account whose address changes is found. *)
LEMMA ChangeReadKeeps ==
  ASSUME Inv, NEW s \in Slots, ChangeRead(s)
  PROVE  Preserved
<1> DEFINE us == Addressed(job[s].req.email)
<1>1. At(s, "changeRead") /\ UNCHANGED db /\ CanRun(s)
  BY DEF ChangeRead, At
<1>2. us \in SUBSET DOMAIN user
  BY DEF Addressed
<1>3. CASE Respond(s)
  BY <1>1, <1>3, RespondReads
<1>4. CASE /\ job[s].req.newEmail \in Emails
           /\ Found(us) # NoRow /\ Hold(s, Found(us), "changeTaken") /\ UNCHANGED session
  <2>1. Checked("changeTaken", job[s].req, Found(us))
    BY <1>4 DEF Checked
  <2>2. QED
    BY <1>1, <1>2, <1>4, <2>1, FoundReads DEF Labels
<1>5. QED
  BY <1>3, <1>4 DEF ChangeRead

(* The address wanted is free. *)
LEMMA ChangeTakenKeeps ==
  ASSUME Inv, NEW s \in Slots, ChangeTaken(s)
  PROVE  Preserved
<1>1. At(s, "changeTaken") /\ UNCHANGED db /\ CanRun(s)
  BY DEF ChangeTaken, At
<1>2. CASE Respond(s)
  BY <1>1, <1>2, RespondReads
<1>3. CASE Goto(s, "changeSet") /\ UNCHANGED session
  <2>1. job[s].pc = "changeTaken" /\ Checked(job[s].pc, job[s].req, job[s].row)
    BY <1>1, AtLabel DEF Labels, Inv, Remembers
  <2>2. Checked("changeSet", job[s].req, job[s].row)
    BY <2>1 DEF Checked, Holding
  <2>3. QED
    BY <1>1, <1>3, <2>2, GotoReads DEF Labels
<1>4. QED
  BY <1>2, <1>3 DEF ChangeTaken

(* The account is read again for its new code. *)
LEMMA ChangeFreshKeeps ==
  ASSUME Inv, NEW s \in Slots, ChangeFresh(s)
  PROVE  Preserved
<1> DEFINE u == job[s].row.id
<1>1. At(s, "changeFresh") /\ UNCHANGED db /\ CanRun(s)
  BY DEF ChangeFresh, At
<1>2. CASE Respond(s)
  BY <1>1, <1>2, RespondReads
<1>3. CASE u \in DOMAIN user /\ Hold(s, RowOf(u), "sendCode") /\ UNCHANGED session
  <2>1. Checked("sendCode", job[s].req, RowOf(u))
    BY <1>3, RowOfFacts DEF Checked, Inv
  <2>2. QED
    BY <1>1, <1>3, <2>1, RowReads DEF Labels
<1>4. QED
  BY <1>2, <1>3 DEF ChangeFresh

(* The account verified is read again, and signed in. *)
LEMMA VerifyFreshKeeps ==
  ASSUME Inv, NEW s \in Slots, VerifyFresh(s)
  PROVE  Preserved
<1> DEFINE u == job[s].row.id
<1>1. UNCHANGED db /\ CanRun(s)
  BY DEF VerifyFresh, At
<1>2. CASE Respond(s)
  BY <1>1, <1>2, RespondReads
<1>3. CASE u \in DOMAIN user /\ Open(s, u, user[u], None)
  BY <1>1, <1>3, OpenReads
<1>4. QED
  BY <1>2, <1>3 DEF VerifyFresh

----------------------------------------------------------------------------
(* Signing up: reads *)

(* The form is complete and the name free. *)
LEMMA SignupNameKeeps ==
  ASSUME Inv, NEW s \in Slots, SignupName(s)
  PROVE  Preserved
<1> DEFINE us == Named(job[s].req.name)
<1>1. At(s, "signupName") /\ UNCHANGED db /\ CanRun(s)
  BY DEF SignupName, At
<1>2. us \in SUBSET DOMAIN user
  BY DEF Named
<1>3. CASE Respond(s)
  BY <1>1, <1>3, RespondReads
<1>4. CASE Found(us) # NoRow /\ Hold(s, Found(us), "sendCode") /\ UNCHANGED session
  <2>1. Checked("sendCode", job[s].req, Found(us))
    BY <1>4 DEF Checked
  <2>2. QED
    BY <1>1, <1>2, <1>4, <2>1, FoundReads DEF Labels
<1>5. CASE Complete(job[s].req) /\ Goto(s, "signupEmail") /\ UNCHANGED session
  <2>1. Checked("signupEmail", job[s].req, job[s].row)
    BY <1>5 DEF Checked, Holding
  <2>2. QED
    BY <1>1, <1>5, <2>1, GotoReads DEF Labels
<1>6. QED
  BY <1>3, <1>4, <1>5 DEF SignupName

(* The address is free. *)
LEMMA SignupEmailKeeps ==
  ASSUME Inv, NEW s \in Slots, SignupEmail(s)
  PROVE  Preserved
<1> DEFINE us == Addressed(job[s].req.email)
<1>1. At(s, "signupEmail") /\ UNCHANGED db /\ CanRun(s)
  BY DEF SignupEmail, At
<1>2. us \in SUBSET DOMAIN user
  BY DEF Addressed
<1>3. CASE Respond(s)
  BY <1>1, <1>3, RespondReads
<1>4. CASE Found(us) # NoRow /\ Hold(s, Found(us), "sendCode") /\ UNCHANGED session
  <2>1. Checked("sendCode", job[s].req, Found(us))
    BY <1>4 DEF Checked
  <2>2. QED
    BY <1>1, <1>2, <1>4, <2>1, FoundReads DEF Labels
<1>5. CASE Goto(s, "signupHash") /\ UNCHANGED session
  <2>1. job[s].pc = "signupEmail" /\ Checked(job[s].pc, job[s].req, job[s].row)
    BY <1>1, AtLabel DEF Labels, Inv, Remembers
  <2>2. Checked("signupHash", job[s].req, job[s].row)
    BY <2>1 DEF Checked, Holding
  <2>3. QED
    BY <1>1, <1>5, <2>2, GotoReads DEF Labels, Awaiting
<1>6. QED
  BY <1>3, <1>4, <1>5 DEF SignupEmail

(* The new account is read again: the password sent is the one stored.     *)
LEMMA SignupReadKeeps ==
  ASSUME Inv, NEW s \in Slots, SignupRead(s)
  PROVE  Preserved
<1> DEFINE u == job[s].row.id
<1>1. At(s, "signupRead") /\ UNCHANGED db /\ CanRun(s)
  BY DEF SignupRead, At
<1>2. CASE Respond(s)
  BY <1>1, <1>2, RespondReads
<1>3. CASE u \in DOMAIN user /\ Open(s, u, user[u], job[s].req.password)
  <2>1. /\ job[s].pc = "signupRead" /\ Remembers(job[s], user, nextUser, nextCode)
    BY <1>1, AtLabel DEF Labels, Inv
  <2>2. job[s].req.password \in Passwords
    BY <2>1 DEF Remembers, Checked
  <2>3. OneWorker => job[s].req.password = user[u].password
    BY <1>3, <2>1 DEF Remembers, Settled
  <2>4. QED
    BY <1>1, <1>3, <2>2, <2>3, OpenReads
<1>4. CASE u \in DOMAIN user /\ Hold(s, RowOf(u), "sendCode") /\ UNCHANGED session
  <2>1. Checked("sendCode", job[s].req, RowOf(u))
    BY <1>4, RowOfFacts DEF Checked, Inv
  <2>2. QED
    BY <1>1, <1>4, <2>1, RowReads DEF Labels
<1>5. QED
  BY <1>2, <1>3, <1>4 DEF SignupRead

----------------------------------------------------------------------------
(* Signing in and the password form: reads *)

(* The row held over the await is the one of now. *)
LEMMA LoginReadKeeps ==
  ASSUME Inv, NEW s \in Slots, LoginRead(s)
  PROVE  Preserved
<1> DEFINE us == Named(job[s].req.name)
<1>1. At(s, "loginRead") /\ UNCHANGED db /\ CanRun(s)
  BY DEF LoginRead, At
<1>2. us \in SUBSET DOMAIN user
  BY DEF Named
<1>3. CASE Respond(s)
  BY <1>1, <1>3, RespondReads
<1>4. CASE Found(us) # NoRow /\ Hold(s, Found(us), "loginHash") /\ UNCHANGED session
  <2>1. Checked("loginHash", job[s].req, Found(us))
    BY <1>4 DEF Checked
  <2>2. QED
    BY <1>1, <1>2, <1>4, <2>1, FoundReads DEF Labels, Awaiting
<1>5. QED
  BY <1>3, <1>4 DEF LoginRead

(* The password form reads its user. *)
LEMMA PasswordReadKeeps ==
  ASSUME Inv, NEW s \in Slots, PasswordRead(s)
  PROVE  Preserved
<1> DEFINE u == job[s].me
<1>1. At(s, "passwordRead") /\ UNCHANGED db /\ CanRun(s)
  BY DEF PasswordRead, At
<1>2. CASE Respond(s)
  BY <1>1, <1>2, RespondReads
<1>3. CASE u \in DOMAIN user /\ Hold(s, RowOf(u), "passwordCheck") /\ UNCHANGED session
  <2>1. Checked("passwordCheck", job[s].req, RowOf(u))
    BY <1>3, RowOfFacts DEF Checked, Inv
  <2>2. QED
    BY <1>1, <1>3, <2>1, RowReads DEF Labels, Awaiting
<1>4. QED
  BY <1>2, <1>3 DEF PasswordRead

(* The new password is one. *)
LEMMA PasswordCheckKeeps ==
  ASSUME Inv, NEW s \in Slots, PasswordCheck(s)
  PROVE  Preserved
<1>1. At(s, "passwordCheck") /\ UNCHANGED db /\ CanRun(s)
  BY DEF PasswordCheck, At
<1>2. CASE Respond(s)
  BY <1>1, <1>2, RespondReads
<1>3. CASE job[s].req.password \in Passwords /\ Goto(s, "passwordHash") /\ UNCHANGED session
  <2>1. job[s].pc = "passwordCheck" /\ Checked(job[s].pc, job[s].req, job[s].row)
    BY <1>1, AtLabel DEF Labels, Awaiting, Inv, Remembers
  <2>2. Checked("passwordHash", job[s].req, job[s].row)
    BY <1>3, <2>1 DEF Checked, Holding
  <2>3. QED
    BY <1>1, <1>3, <2>2, GotoReads DEF Labels, Awaiting
<1>4. QED
  BY <1>2, <1>3 DEF PasswordCheck

(* The only step that needs one worker: the password of the epoch read is  *)
(* the one this handler has just written.                                  *)
LEMMA PasswordFreshKeeps ==
  ASSUME Inv, NEW s \in Slots, PasswordFresh(s)
  PROVE  Preserved
<1> DEFINE u == job[s].me
           knew == job[s].req.password
<1>1. At(s, "passwordFresh") /\ UNCHANGED db /\ CanRun(s)
  BY DEF PasswordFresh, At
<1>2. CASE Respond(s)
  BY <1>1, <1>2, RespondReads
<1>3. CASE u \in DOMAIN user /\ Open(s, u, user[u], knew)
  <2>1. job[s].pc = "passwordFresh" /\ Remembers(job[s], user, nextUser, nextCode)
    BY <1>1, AtLabel DEF Labels, Inv
  <2>2. knew \in Passwords
    BY <2>1 DEF Remembers, Checked
  <2>3. OneWorker => knew = user[u].password
    BY <1>3, <2>1 DEF Remembers, Settled
  <2>4. QED
    BY <1>1, <1>3, <2>2, <2>3, OpenReads
<1>4. QED
  BY <1>2, <1>3 DEF PasswordFresh

----------------------------------------------------------------------------
(* The user form: reads *)

(* The user the form is about is found. *)
LEMMA FindTargetKeeps ==
  ASSUME Inv, NEW s \in Slots, FindTarget(s)
  PROVE  Preserved
<1> DEFINE u == job[s].req.id
<1>1. At(s, "target") /\ UNCHANGED db /\ CanRun(s)
  BY DEF FindTarget, At
<1>2. CASE Respond(s)
  BY <1>1, <1>2, RespondReads
<1>3. ASSUME NEW next \in {"renameTaken", "purge"}, u \in DOMAIN user,
             Hold(s, RowOf(u), next), UNCHANGED session
      PROVE  Preserved
  <2>1. Checked(next, job[s].req, RowOf(u))
    BY <1>3, RowOfFacts DEF Checked, Inv
  <2>2. QED
    BY <1>1, <1>3, <2>1, RowReads DEF Labels
<1>4. QED
  BY <1>2, <1>3 DEF FindTarget

(* The new name is a name. *)
LEMMA RenameTakenKeeps ==
  ASSUME Inv, NEW s \in Slots, RenameTaken(s)
  PROVE  Preserved
<1>1. At(s, "renameTaken") /\ UNCHANGED db /\ CanRun(s)
  BY DEF RenameTaken, At
<1>2. CASE Respond(s)
  BY <1>1, <1>2, RespondReads
<1>3. /\ job[s].pc = "renameTaken" /\ Checked(job[s].pc, job[s].req, job[s].row)
      /\ job[s].req \in RequestType
  BY <1>1, AtLabel, FieldsAssumption DEF Labels, Inv, Remembers, Jobs
<1>4. CASE Goto(s, "emailTaken") /\ UNCHANGED session
  <2>1. Checked("emailTaken", job[s].req, job[s].row)
    BY <1>3 DEF Checked, Holding
  <2>2. QED
    BY <1>1, <1>4, <2>1, GotoReads DEF Labels
<1>5. CASE job[s].req.name # None /\ Goto(s, "rename") /\ UNCHANGED session
  <2>1. job[s].req.name \in Names
    BY <1>3, <1>5 DEF RequestType
  <2>2. Checked("rename", job[s].req, job[s].row)
    BY <1>3, <2>1 DEF Checked, Holding
  <2>3. QED
    BY <1>1, <1>5, <2>2, GotoReads DEF Labels
<1>6. QED
  BY <1>2, <1>4, <1>5 DEF RenameTaken

(* The new address is an address. *)
LEMMA EmailTakenKeeps ==
  ASSUME Inv, NEW s \in Slots, EmailTaken(s)
  PROVE  Preserved
<1>1. At(s, "emailTaken") /\ UNCHANGED db /\ CanRun(s)
  BY DEF EmailTaken, At
<1>2. CASE Respond(s)
  BY <1>1, <1>2, RespondReads
<1>3. job[s].pc = "emailTaken" /\ Checked(job[s].pc, job[s].req, job[s].row)
  BY <1>1, AtLabel DEF Labels, Inv, Remembers
<1>4. CASE Goto(s, "reset") /\ UNCHANGED session
  <2>1. Checked("reset", job[s].req, job[s].row)
    BY <1>3 DEF Checked, Holding
  <2>2. QED
    BY <1>1, <1>4, <2>1, GotoReads DEF Labels
<1>5. CASE job[s].req.email \in Emails /\ Goto(s, "profile") /\ UNCHANGED session
  <2>1. Checked("profile", job[s].req, job[s].row)
    BY <1>3, <1>5 DEF Checked, Holding
  <2>2. QED
    BY <1>1, <1>5, <2>1, GotoReads DEF Labels
<1>6. QED
  BY <1>2, <1>4, <1>5 DEF EmailTaken

(* The new password is one. *)
LEMMA ResetKeeps ==
  ASSUME Inv, NEW s \in Slots, Reset(s)
  PROVE  Preserved
<1>1. At(s, "reset") /\ UNCHANGED db /\ CanRun(s)
  BY DEF Reset, At
<1>2. CASE Respond(s)
  BY <1>1, <1>2, RespondReads
<1>3. /\ job[s].pc = "reset" /\ Checked(job[s].pc, job[s].req, job[s].row)
      /\ job[s].req \in RequestType
  BY <1>1, AtLabel, FieldsAssumption DEF Labels, Inv, Remembers, Jobs
<1>4. CASE Goto(s, "admin") /\ UNCHANGED session
  <2>1. Checked("admin", job[s].req, job[s].row)
    BY <1>3 DEF Checked, Holding
  <2>2. QED
    BY <1>1, <1>4, <2>1, GotoReads DEF Labels
<1>5. CASE job[s].req.password \notin {None, Invalid} /\ Goto(s, "resetHash") /\ UNCHANGED session
  <2>1. job[s].req.password \in Passwords
    BY <1>3, <1>5 DEF RequestType
  <2>2. Checked("resetHash", job[s].req, job[s].row)
    BY <1>3, <2>1 DEF Checked, Holding
  <2>3. QED
    BY <1>1, <1>5, <2>2, GotoReads DEF Labels, Awaiting
<1>6. QED
  BY <1>2, <1>4, <1>5 DEF Reset

----------------------------------------------------------------------------
(* Statements that write a row *)

(* Going on after a row was written that keeps its password, or raises its *)
(* epoch.                                                                  *)
LEMMA GotoWrites ==
  ASSUME Inv, NEW s \in Slots, NEW label \in Labels, At(s, label),
         NEW next \in Labels \ {"loginHash"}, Goto(s, next), UNCHANGED session,
         Checked(next, job[s].req, job[s].row),
         OneWorker => Settled(next, job[s].me, job[s].row, job[s].req, user'),
         TablesOK', Grows
  PROVE  Preserved
  BY GotoStep DEF Inv, Preserved

(* Answering after such a statement. *)
LEMMA RespondWrites ==
  ASSUME Inv, NEW s \in Slots, CanRun(s), Respond(s), TablesOK', Grows
  PROVE  Preserved
  BY RespondStep DEF Inv, Preserved

(* Writing some columns, neither password nor epoch. *)
SameSecret(old, row) ==
  row \in Rows /\ row.epoch = old.epoch /\ row.password = old.password

(* Such a statement keeps the tables right. *)
LEMMA ColumnsStep ==
  ASSUME Inv, NEW u, NEW row, SetUser(u, row), UNCHANGED <<nextUser, nextCode, mailbox>>,
         u \in DOMAIN user => SameSecret(user[u], row)
  PROVE  TablesOK' /\ Grows
<1>1. u \in DOMAIN user => user[u].epoch \in Nat
  BY DEF Inv, TablesOK, Rows
<1>2. QED
  BY <1>1, UserStep DEF Inv, SameSecret

(* Writing another password and the next epoch. *)
LEMMA PasswordStep ==
  ASSUME Inv, NEW u, NEW password \in Passwords, UNCHANGED <<nextUser, nextCode, mailbox>>,
         SetUser(u, [user[u] EXCEPT !.password = password, !.epoch = @ + 1])
  PROVE  TablesOK' /\ Grows /\ (u \in DOMAIN user' => user'[u].password = password)
<1> DEFINE row == [user[u] EXCEPT !.password = password, !.epoch = @ + 1]
           mid == [user[u] EXCEPT !.password = password]
           new == [mid EXCEPT !.epoch = user[u].epoch + 1]
<1>1. ASSUME u \in DOMAIN user
      PROVE  row \in Rows /\ row.password = password /\ row.epoch = user[u].epoch + 1
  <2>1. user[u] \in Rows
    BY <1>1 DEF Inv, TablesOK
  <2>2. user[u].epoch \in Nat
    BY <2>1 DEF Rows
  <2>3. mid \in Rows /\ mid.password = password /\ mid.epoch = user[u].epoch
    BY <2>1 DEF Rows
  <2>4. row = new
    BY <2>3
  <2> HIDE DEF mid, row
  <2>5. new \in Rows /\ new.password = password /\ new.epoch = user[u].epoch + 1
    BY <2>2, <2>3 DEF Rows
  <2>6. QED
    BY <2>4, <2>5
<1> HIDE DEF row
<1>2. SetUser(u, row)
  BY DEF row
<1>3. u \in DOMAIN user => user[u].epoch \in Nat
  BY DEF Inv, TablesOK, Rows
<1>4. TablesOK' /\ Grows
  BY <1>1, <1>2, <1>3, UserStep DEF Inv
<1>5. u \in DOMAIN user' => user'[u].password = password
  BY <1>1, <1>2 DEF SetUser
<1>6. QED
  BY <1>4, <1>5

(* A code drawn is below the counter. *)
LEMMA SendCodeKeeps ==
  ASSUME Inv, NEW s \in Slots, SendCode(s)
  PROVE  Preserved
<1> DEFINE held == job[s].row
           mid == [user[held.id] EXCEPT !.code = nextCode]
           row == [mid EXCEPT !.age = "fresh"]
<1>1. At(s, "sendCode") /\ CanRun(s) /\ Respond(s)
  BY DEF SendCode, At
<1>2. held.row.email \in Emails
  BY <1>1, HeldRow DEF Inv, Labels, Holding, Rows
<1>3. ASSUME held.id \in DOMAIN user
      PROVE  row \in Rows /\ row.epoch = user[held.id].epoch
             /\ row.password = user[held.id].password
  <2>1. user[held.id] \in Rows /\ nextCode \in Nat
    BY <1>3 DEF Inv, TablesOK
  <2>2. /\ mid \in Rows
        /\ mid.epoch = user[held.id].epoch /\ mid.password = user[held.id].password
    BY <2>1 DEF Rows
  <2> HIDE DEF mid
  <2>3. QED
    BY <2>2 DEF Rows, Ages
<1>4. SetUser(held.id, row)
  BY DEF SendCode
<1> HIDE DEF row
<1>5. \A v \in DOMAIN user : user[v] \in Rows /\ user[v].epoch \in Nat
  BY DEF Inv, TablesOK, Rows
<1>6. /\ nextUser' = nextUser /\ nextCode' = nextCode + 1
      /\ mailbox' = mailbox \cup {[code |-> nextCode, to |-> held.row.email]}
  BY DEF SendCode
<1>7. /\ DOMAIN user' = DOMAIN user
      /\ \A v \in DOMAIN user : /\ user'[v] \in Rows
                                /\ user'[v].epoch = user[v].epoch
                                /\ user'[v].password = user[v].password
  BY <1>3, <1>4, <1>5 DEF SetUser
<1>8. user' \in [DOMAIN user' -> Rows]
  BY <1>4, <1>7 DEF SetUser
<1>9. mailbox' \subseteq [code: 1..(nextCode' - 1), to: Emails] /\ nextCode' \in Nat \ {0}
  BY <1>2, <1>6 DEF Inv, TablesOK
<1>10. TablesOK'
  BY <1>6, <1>7, <1>8, <1>9 DEF Inv, TablesOK
<1>11. Grows
  BY <1>5, <1>6, <1>7 DEF Inv, TablesOK, Grows
<1>12. QED
  BY <1>1, <1>10, <1>11, RespondWrites

(* The flag and the code are columns of their own. *)
LEMMA VerifySetKeeps ==
  ASSUME Inv, NEW s \in Slots, VerifySet(s)
  PROVE  Preserved
<1> DEFINE u == job[s].row.id
           one == [user[u] EXCEPT !.verified = TRUE]
           two == [one EXCEPT !.code = 0]
           row == [two EXCEPT !.age = "fresh"]
<1>1. At(s, "verifySet") /\ CanRun(s) /\ Goto(s, "verifyFresh")
  BY DEF VerifySet, At
<1>2. ASSUME u \in DOMAIN user
      PROVE  SameSecret(user[u], row)
  <2>1. user[u] \in Rows
    BY <1>2 DEF Inv, TablesOK
  <2>2. SameSecret(user[u], one)
    BY <2>1 DEF Rows, SameSecret
  <2> HIDE DEF one
  <2>3. SameSecret(user[u], two)
    BY <2>2 DEF Rows, SameSecret
  <2> HIDE DEF two
  <2>4. QED
    BY <2>3 DEF Rows, Ages, SameSecret
<1>3. SetUser(u, row)
  BY DEF VerifySet
<1> HIDE DEF row
<1>4. TablesOK' /\ Grows
  BY <1>2, <1>3, ColumnsStep DEF VerifySet
<1>5. job[s].pc = "verifySet" /\ Checked(job[s].pc, job[s].req, job[s].row)
  BY <1>1, AtLabel DEF Labels, Inv, Remembers
<1>6. Checked("verifyFresh", job[s].req, job[s].row)
  BY <1>5 DEF Checked, Holding
<1>7. QED
  BY <1>1, <1>4, <1>6, GotoWrites DEF Labels, Settled, VerifySet

(* The address is a column of its own. *)
LEMMA ChangeSetKeeps ==
  ASSUME Inv, NEW s \in Slots, ChangeSet(s)
  PROVE  Preserved
<1> DEFINE u == job[s].row.id
           row == [user[u] EXCEPT !.email = job[s].req.newEmail]
<1>1. At(s, "changeSet") /\ CanRun(s)
  BY DEF ChangeSet, At
<1>2. job[s].pc = "changeSet" /\ Checked(job[s].pc, job[s].req, job[s].row)
  BY <1>1, AtLabel DEF Labels, Inv, Remembers
<1>3. CASE Respond(s) /\ UNCHANGED user
  BY <1>1, <1>3, RespondReads DEF ChangeSet, db
<1>4. CASE SetUser(u, row) /\ Goto(s, "changeFresh") /\ UNCHANGED session
  <2>1. ASSUME u \in DOMAIN user
        PROVE  SameSecret(user[u], row)
    <3>1. user[u] \in Rows /\ job[s].req.newEmail \in Emails
      BY <1>2, <2>1 DEF Inv, TablesOK, Checked
    <3>2. QED
      BY <3>1 DEF Rows, SameSecret
  <2> HIDE DEF row
  <2>2. TablesOK' /\ Grows
    BY <1>4, <2>1, ColumnsStep DEF ChangeSet
  <2>3. Checked("changeFresh", job[s].req, job[s].row)
    BY <1>2 DEF Checked, Holding
  <2>4. QED
    BY <1>1, <1>4, <2>2, <2>3, GotoWrites DEF Labels, Settled
<1>5. QED
  BY <1>3, <1>4 DEF ChangeSet

(* The password form raises the epoch, and settles its password. *)
LEMMA PasswordSetKeeps ==
  ASSUME Inv, NEW s \in Slots, PasswordSet(s)
  PROVE  Preserved
<1>1. At(s, "passwordHash") /\ CanRun(s) /\ Goto(s, "passwordFresh") /\ UNCHANGED session
  BY DEF PasswordSet, At
<1>2. job[s].pc = "passwordHash" /\ Checked(job[s].pc, job[s].req, job[s].row)
  BY <1>1, AtLabel DEF Labels, Awaiting, Inv, Remembers
<1>3. job[s].req.password \in Passwords
  BY <1>2 DEF Checked
<1>4. /\ TablesOK' /\ Grows
      /\ job[s].me \in DOMAIN user' => user'[job[s].me].password = job[s].req.password
  BY <1>3, PasswordStep DEF PasswordSet
<1>5. Checked("passwordFresh", job[s].req, job[s].row)
  BY <1>2 DEF Checked, Holding
<1>6. Settled("passwordFresh", job[s].me, job[s].row, job[s].req, user')
  BY <1>4 DEF Settled
<1>7. QED
  BY <1>1, <1>4, <1>5, <1>6, GotoWrites DEF Labels, Awaiting

(* The administrator's reset raises the epoch. *)
LEMMA ResetSetKeeps ==
  ASSUME Inv, NEW s \in Slots, ResetSet(s)
  PROVE  Preserved
<1>1. At(s, "resetHash") /\ CanRun(s) /\ Goto(s, "admin") /\ UNCHANGED session
  BY DEF ResetSet, At
<1>2. job[s].pc = "resetHash" /\ Checked(job[s].pc, job[s].req, job[s].row)
  BY <1>1, AtLabel DEF Labels, Awaiting, Inv, Remembers
<1>3. job[s].req.password \in Passwords
  BY <1>2 DEF Checked
<1>4. TablesOK' /\ Grows
  BY <1>3, PasswordStep DEF ResetSet
<1>5. Checked("admin", job[s].req, job[s].row)
  BY <1>2 DEF Checked, Holding
<1>6. QED
  BY <1>1, <1>4, <1>5, GotoWrites DEF Labels, Awaiting, Settled

(* A row deleted takes its id along for ever. *)
LEMMA PurgeUserKeeps ==
  ASSUME Inv, NEW s \in Slots, PurgeUser(s)
  PROVE  Preserved
<1>1. CanRun(s) /\ Respond(s)
  BY DEF PurgeUser, At
<1>2. user' = [v \in DOMAIN user \ {job[s].row.id} |-> user[v]]
      /\ UNCHANGED <<nextUser, nextCode, mailbox>>
  BY DEF PurgeUser
<1>3. \A v \in DOMAIN user : user[v] \in Rows /\ user[v].epoch \in Nat
  BY DEF Inv, TablesOK, Rows
<1>4. TablesOK'
  BY <1>2, <1>3 DEF Inv, TablesOK
<1>5. Grows
  BY <1>2, <1>3 DEF Inv, TablesOK, Grows
<1>6. QED
  BY <1>1, <1>4, <1>5, RespondWrites

(* The name changes in the table and in the row held. *)
LEMMA RenameKeeps ==
  ASSUME Inv, NEW s \in Slots, Rename(s)
  PROVE  Preserved
<1> DEFINE name == job[s].req.name
           u == job[s].row.id
           row == [user[u] EXCEPT !.name = name]
           held == [job[s].row EXCEPT !.row = [@ EXCEPT !.name = name]]
<1>1. At(s, "rename") /\ CanRun(s)
  BY DEF Rename, At
<1>2. job[s].pc = "rename" /\ Checked(job[s].pc, job[s].req, job[s].row)
  BY <1>1, AtLabel DEF Labels, Inv, Remembers
<1>3. name \in Names
  BY <1>2 DEF Checked
<1>4. CASE Respond(s) /\ UNCHANGED user
  BY <1>1, <1>4, RespondReads DEF Rename, db
<1>5. CASE SetUser(u, row) /\ Hold(s, held, "emailTaken") /\ UNCHANGED session
  <2>1. ASSUME u \in DOMAIN user
        PROVE  SameSecret(user[u], row)
    <3>1. user[u] \in Rows
      BY <2>1 DEF Inv, TablesOK
    <3>2. QED
      BY <1>3, <3>1 DEF Rows, SameSecret
  <2>2. job[s].row \in HeldRows(nextUser) /\ job[s].row.row \in Rows
    BY <1>1, HeldRow DEF Inv, Labels, Holding
  <2>3. held \in HeldRows(nextUser) /\ held.id = u /\ u # 0
    <3>1. [job[s].row.row EXCEPT !.name = name] \in Rows
      BY <1>3, <2>2 DEF Rows
    <3>2. QED
      BY <2>2, <3>1 DEF HeldRows
  <2> HIDE DEF row, held
  <2>4. TablesOK' /\ Grows
    BY <1>5, <2>1, ColumnsStep DEF Rename
  <2>5. held \in HeldRows(nextUser')
    BY <2>3 DEF Rename
  <2>6. held # NoRow
    BY <2>3 DEF NoRow
  <2>7. Checked("emailTaken", job[s].req, held)
    BY <2>6 DEF Checked
  <2>8. QED
    BY <1>1, <1>5, <2>4, <2>5, <2>7, HoldStep DEF Inv, Preserved, Labels
<1>6. QED
  BY <1>4, <1>5 DEF Rename

(* Address, flag and code are columns of their own. *)
LEMMA ProfileKeeps ==
  ASSUME Inv, NEW s \in Slots, Profile(s)
  PROVE  Preserved
<1> DEFINE email == job[s].req.email
           u == job[s].row.id
           verified == job[s].row.row.email # email \/ job[s].row.row.verified
           one == [user[u] EXCEPT !.email = email]
           two == [one EXCEPT !.verified = verified]
           three == [two EXCEPT !.code = 0]
           row == [three EXCEPT !.age = "fresh"]
<1>1. At(s, "profile") /\ CanRun(s)
  BY DEF Profile, At
<1>2. job[s].pc = "profile" /\ Checked(job[s].pc, job[s].req, job[s].row)
  BY <1>1, AtLabel DEF Labels, Inv, Remembers
<1>3. email \in Emails
  BY <1>2 DEF Checked
<1>4. verified \in BOOLEAN
  <2>1. job[s].row.row.verified \in BOOLEAN
    BY <1>1, HeldRow DEF Inv, Labels, Holding, Rows
  <2>2. QED
    BY <2>1
<1>5. CASE Respond(s) /\ UNCHANGED user
  BY <1>1, <1>5, RespondReads DEF Profile, db
<1>6. CASE SetUser(u, row) /\ Goto(s, "reset") /\ UNCHANGED session
  <2> HIDE DEF verified
  <2>1. ASSUME u \in DOMAIN user
        PROVE  SameSecret(user[u], row)
    <3>1. user[u] \in Rows
      BY <2>1 DEF Inv, TablesOK
    <3>2. SameSecret(user[u], one)
      BY <1>3, <3>1 DEF Rows, SameSecret
    <3> HIDE DEF one
    <3>3. SameSecret(user[u], two)
      BY <1>4, <3>2 DEF Rows, SameSecret
    <3> HIDE DEF two
    <3>4. SameSecret(user[u], three)
      BY <3>3 DEF Rows, SameSecret
    <3> HIDE DEF three
    <3>5. QED
      BY <3>4 DEF Rows, Ages, SameSecret
  <2> HIDE DEF row
  <2>2. TablesOK' /\ Grows
    BY <1>6, <2>1, ColumnsStep DEF Profile
  <2>3. Checked("reset", job[s].req, job[s].row)
    BY <1>2 DEF Checked, Holding
  <2>4. QED
    BY <1>1, <1>6, <2>2, <2>3, GotoWrites DEF Labels, Settled
<1>7. QED
  BY <1>5, <1>6 DEF Profile

(* The administrator flag is a column of its own. *)
LEMMA SetAdminKeeps ==
  ASSUME Inv, NEW s \in Slots, SetAdmin(s)
  PROVE  Preserved
<1> DEFINE u == job[s].row.id
           wants == job[s].req.admin = "yes"
           row == [user[u] EXCEPT !.admin = wants]
<1>1. CanRun(s) /\ Respond(s) /\ UNCHANGED <<nextUser, nextCode, mailbox>>
  BY DEF SetAdmin, At
<1>2. CASE UNCHANGED user
  BY <1>1, <1>2, RespondReads DEF db
<1>3. CASE SetUser(u, row)
  <2>1. ASSUME u \in DOMAIN user
        PROVE  SameSecret(user[u], row)
    <3>1. user[u] \in Rows
      BY <2>1 DEF Inv, TablesOK
    <3>2. QED
      BY <3>1 DEF Rows, SameSecret
  <2> HIDE DEF row
  <2>2. TablesOK' /\ Grows
    BY <1>1, <1>3, <2>1, ColumnsStep
  <2>3. QED
    BY <1>1, <2>2, RespondWrites
<1>4. QED
  BY <1>2, <1>3 DEF SetAdmin

(* The new row is held, with an id no session and no handler remembers.    *)
LEMMA SignupInsertKeeps ==
  ASSUME Inv, NEW s \in Slots, SignupInsert(s)
  PROVE  Preserved
<1> DEFINE r == job[s].req
           reserved == r.name \in Reserved
           row == [name |-> r.name, email |-> r.email, verified |-> reserved, code |-> 0,
                   age |-> "fresh", password |-> r.password, epoch |-> 0, admin |-> reserved]
           held == [id |-> nextUser, row |-> row]
<1>1. At(s, "signupHash") /\ CanRun(s)
  BY DEF SignupInsert, At
<1>2. job[s].pc = "signupHash" /\ Checked(job[s].pc, job[s].req, job[s].row)
  BY <1>1, AtLabel DEF Labels, Awaiting, Inv, Remembers
<1>3. Complete(r)
  BY <1>2 DEF Checked
<1>4. row \in Rows
  BY <1>3 DEF Complete, Rows, Ages
<1>5. CASE Respond(s) /\ UNCHANGED <<user, nextUser>>
  BY <1>1, <1>5, RespondReads DEF SignupInsert, db
<1>6. CASE /\ user' = [v \in DOMAIN user \cup {nextUser} |->
                         IF v = nextUser THEN row ELSE user[v]]
           /\ nextUser' = nextUser + 1
           /\ Hold(s, held, "signupRead") /\ UNCHANGED session
  <2>0. user'[held.id].password = r.password /\ r.password \in Passwords
    BY <1>3, <1>6 DEF Complete
  <2>1. \A v \in DOMAIN user : user[v] \in Rows /\ user[v].epoch \in Nat /\ v # nextUser
    BY DEF Inv, TablesOK, Rows
  <2>2. held \in HeldRows(nextUser') /\ held # NoRow
    <3>1. nextUser \in 1..(nextUser' - 1)
      BY <1>6 DEF Inv, TablesOK
    <3>2. held \in HeldRows(nextUser') /\ held.id = nextUser /\ nextUser # 0
      BY <1>4, <3>1 DEF HeldRows, Inv, TablesOK
    <3> HIDE DEF held
    <3>3. QED
      BY <3>2 DEF NoRow
  <2> HIDE DEF row
  <2>3. UNCHANGED <<nextCode, mailbox>>
    BY DEF SignupInsert
  <2>4. TablesOK'
    BY <1>4, <1>6, <2>1, <2>3 DEF Inv, TablesOK
  <2>5. Grows
    BY <1>6, <2>1, <2>3 DEF Inv, TablesOK, Grows
  <2> HIDE DEF held
  <2>6. Checked("signupRead", job[s].req, held)
    BY <2>0, <2>2 DEF Checked
  <2>7. QED
    BY <1>1, <1>6, <2>0, <2>2, <2>4, <2>5, <2>6, HoldStep DEF Inv, Preserved, Labels, Awaiting
<1>7. QED
  BY <1>5, <1>6 DEF SignupInsert

(* The password was right for the row held: whoever gave it knows that     *)
(* row's password, and so the one of now if the epoch is still the same.   *)
LEMMA LoginKeeps ==
  ASSUME Inv, NEW s \in Slots, Login(s)
  PROVE  Preserved
<1> DEFINE u == job[s].row.id
           old == job[s].row.row
           right == old.password = job[s].req.current
           one == [user[u] EXCEPT !.admin = TRUE]
           row == [one EXCEPT !.verified = TRUE]
<1>1. At(s, "loginHash") /\ CanRun(s) /\ UNCHANGED <<nextUser, nextCode, mailbox>>
  BY DEF Login, At
<1>2. job[s].pc = "loginHash" /\ Remembers(job[s], user, nextUser, nextCode)
  BY <1>1, AtLabel DEF Labels, Awaiting, Inv
<1>3. u \in 1..(nextUser - 1) /\ old \in Rows
  BY <1>1, HeldRow DEF Inv, Labels, Awaiting, Holding
<1>4. Knows(user, u, old.epoch, old.password)
  BY <1>2 DEF Remembers
<1>5. TablesOK' /\ Grows
  <2>1. CASE UNCHANGED user
    BY <1>1, <2>1, ReadOnly DEF Inv, db
  <2>2. CASE SetUser(u, row)
    <3>1. ASSUME u \in DOMAIN user
          PROVE  SameSecret(user[u], row)
      <4>1. user[u] \in Rows
        BY <3>1 DEF Inv, TablesOK
      <4>2. SameSecret(user[u], one)
        BY <4>1 DEF Rows, SameSecret
      <4> HIDE DEF one
      <4>3. QED
        BY <4>2 DEF Rows, SameSecret
    <3> HIDE DEF row
    <3>2. QED
      BY <1>1, <2>2, <3>1, ColumnsStep
  <2>3. QED
    BY <2>1, <2>2 DEF Login
<1>6. CASE Respond(s)
  BY <1>1, <1>5, <1>6, RespondWrites
<1>7. CASE right /\ Open(s, u, old, job[s].req.current)
  <2>1. old.epoch \in Nat /\ old.password \in Passwords
    BY <1>3 DEF Rows
  <2>2. Knows(user', u, old.epoch, old.password)
    BY <1>3, <1>4, <1>5, <2>1, KnowsSurvives DEF Inv
  <2>3. QED
    BY <1>1, <1>3, <1>5, <1>7, <2>1, <2>2, OpenStep DEF Inv, Preserved
<1>8. QED
  BY <1>6, <1>7 DEF Login

----------------------------------------------------------------------------
(* The invariant. *)

(* The first state has users, and nothing else. *)
LEMMA InitInv == Init => Inv
<1> SUFFICES ASSUME Init PROVE Inv
  OBVIOUS
<1>1. Len(InitialUsers) \in Nat /\ DOMAIN InitialUsers = 1..Len(InitialUsers)
      /\ InitialUsers \in [DOMAIN InitialUsers -> Rows]
  BY RowsAssumption
<1>2. TablesOK
  BY <1>1 DEF Init, TablesOK
<1>3. SessionsOK
  BY DEF Init, SessionsOK
<1>4. JobsOK
  BY DEF Init, JobsOK, Idle
<1>5. QED
  BY <1>2, <1>3, <1>4 DEF Inv

(* Every action keeps what it owes. *)
LEMMA NextPreserves ==
  ASSUME Inv, [Next]_vars
  PROVE  Preserved
<1>1. ASSUME NEW s \in Slots, Step(s)
      PROVE  Preserved
  BY <1>1, BeginKeeps, SendCodeKeeps, VerifyReadKeeps, VerifySetKeeps, VerifyFreshKeeps,
     ResendReadKeeps, ChangeReadKeeps, ChangeTakenKeeps, ChangeSetKeeps, ChangeFreshKeeps,
     SignupNameKeeps, SignupEmailKeeps, SignupInsertKeeps, SignupReadKeeps, LoginReadKeeps,
     LoginKeeps, PasswordReadKeeps, PasswordCheckKeeps, PasswordSetKeeps, PasswordFreshKeeps,
     FindTargetKeeps, PurgeUserKeeps, RenameTakenKeeps, RenameKeeps, EmailTakenKeeps,
     ProfileKeeps, ResetKeeps, ResetSetKeeps, SetAdminKeeps
  DEF Step
<1>2. CASE UNCHANGED vars
  <2>1. TablesOK' /\ Grows
    BY <1>2, ReadOnly DEF Inv, vars, db
  <2>2. SessionsOK' /\ JobsOK'
    BY <1>2 DEF Inv, vars, SessionsOK, JobsOK, OneWorker
  <2>3. QED
    BY <2>1, <2>2 DEF Preserved
<1>3. QED
  BY <1>1, <1>2, CodeAgesKeeps DEF Next

(* The invariant is inductive. *)
LEMMA NextInv == Inv /\ [Next]_vars => Inv'
  BY NextPreserves DEF Preserved, Inv

(* The invariant holds in every reachable state. *)
THEOREM AccountsInvariance == Spec => []Inv
  BY InitInv, NextInv, PTL DEF Spec

(* Tables, sessions and handlers are well-typed, for any number of workers.*)
THEOREM AccountsTypeCorrect == Spec => []TypeOK
<1>1. Inv => TypeOK
  BY DEF Inv, TablesOK, SessionsOK, JobsOK, TypeOK
<1>2. QED
  BY <1>1, AccountsInvariance, PTL

(* In one worker, whatever requests overtake each other while passwords    *)
(* are hashed, a valid token given for a password was given for this one.  *)
THEOREM SessionsStayFresh ==
  ASSUME OneWorker
  PROVE  Spec => []SessionsFresh
<1>1. Inv => SessionsFresh
  BY DEF Inv, SessionsOK, SessionsFresh, Valid, Knows
<1>2. QED
  BY <1>1, AccountsInvariance, PTL

(* A password never changes without its epoch: every token given before    *)
(* the change is worth nothing after it.                                   *)
THEOREM PasswordsRaiseEpoch == Spec => [][Grows]_vars
<1>1. Inv /\ [Next]_vars => [Grows]_vars
  BY NextPreserves DEF Preserved
<1>2. QED
  BY <1>1, AccountsInvariance, PTL DEF Spec
----------------------------------------------------------------------------
(* Verified addresses, in one worker.  Between two awaits nobody else      *)
(* writes, so a handler finds the row it read as it read it; and a code    *)
(* stored was mailed to the address stored, but for the moment in which    *)
(* the address changes.                                                    *)

(* The address of the row as read is the one stored, for the handlers that *)
(* mail to it or compare with it.                                          *)
Unmoved(label, code, held, users, box) ==
  held.id \in DOMAIN users =>
    LET row == users[held.id] IN
    /\ label \in {"sendCode", "renameTaken", "rename", "emailTaken", "profile"} =>
         row.email = held.row.email /\ row.verified = held.row.verified
    /\ label \in {"changeTaken", "changeSet"} => ~row.verified
    /\ label = "verifySet" => [code |-> code, to |-> row.email] \in box

(* A code is worth something at the address it was mailed to.              *)
Mailed(u) == user[u].code # 0 => [code |-> user[u].code, to |-> user[u].email] \in mailbox

(* The address of u has changed: its next code is on its way.              *)
Changing(u) == \E s \in Slots : job[s].pc \in {"changeFresh", "sendCode"} /\ job[s].row.id = u

RowsUnmoved ==
  \A s \in Slots :
    job[s].pc # "idle" => Unmoved(job[s].pc, job[s].code, job[s].row, user, mailbox)
CodesMailed == \A u \in DOMAIN user : Mailed(u) \/ Changing(u)

AddressInv == RowsUnmoved /\ CodesMailed

(* What EmailProven and StaysVerified say of a step. *)
ProvenStep ==
  \A u \in DOMAIN user' :
    user'[u].verified
      /\ (u \notin DOMAIN user \/ ~user[u].verified \/ user[u].email # user'[u].email)
    => \/ user'[u].name \in Reserved
       \/ \E s \in Slots : /\ job'[s] # job[s] /\ job[s].row.id = u
                          /\ \/ job[s].pc = "profile"
                             \/ job[s].pc = "loginHash" /\ job[s].row.row.name \in Reserved
                             \/ /\ job[s].pc = "verifySet"
                                /\ [code |-> job[s].code, to |-> user'[u].email] \in mailbox
StaysStep == \A u \in DOMAIN user \cap DOMAIN user' : user[u].verified => user'[u].verified

(* What every action of one worker owes. *)
Truthful == AddressInv' /\ ProvenStep /\ StaysStep

(* While a slot runs, the others await. *)
LEMMA OthersPaused ==
  ASSUME NEW s \in Slots, CanRun(s), OneWorker, NEW t \in Slots, t # s
  PROVE  job[t].pc \in Awaiting
  BY DEF CanRun, OneWorker

(* A handler that awaits relies on nothing it read. *)
LEMMA PausedUnmoved ==
  ASSUME NEW label \in Awaiting, NEW code, NEW held
  PROVE  Unmoved(label, code, held, user', mailbox')
  BY DEF Awaiting, Unmoved

(* So a step keeps the rows unmoved if it does for the slot that runs.     *)
LEMMA UnmovedStep ==
  ASSUME OneWorker, Inv, NEW s \in Slots, CanRun(s), NEW n, job' = [job EXCEPT ![s] = n],
         n = Idle \/ Unmoved(n.pc, n.code, n.row, user', mailbox')
  PROVE  RowsUnmoved'
<1> SUFFICES ASSUME NEW t \in Slots, job'[t].pc # "idle"
             PROVE  Unmoved(job'[t].pc, job'[t].code, job'[t].row, user', mailbox')
  BY DEF RowsUnmoved
<1>1. CASE t = s
  <2>1. job'[t] = n
    BY <1>1 DEF Inv, JobsOK
  <2>2. QED
    BY <2>1 DEF Idle
<1>2. CASE t # s
  <2>1. job'[t] = job[t] /\ job[t].pc \in Awaiting
    BY <1>2, OthersPaused DEF Inv, JobsOK
  <2>2. QED
    BY <2>1, PausedUnmoved
<1>3. QED
  BY <1>1, <1>2

(* Whoever runs finds every code mailed, but for an address he changes.    *)
LEMMA MailedNow ==
  ASSUME OneWorker, CodesMailed, NEW s \in Slots, CanRun(s), NEW u \in DOMAIN user,
         job[s].pc \notin {"changeFresh", "sendCode"} \/ job[s].row.id # u
  PROVE  Mailed(u)
<1> SUFFICES ASSUME Changing(u) PROVE FALSE
  BY DEF CodesMailed
<1>1. PICK t \in Slots : job[t].pc \in {"changeFresh", "sendCode"} /\ job[t].row.id = u
  BY DEF Changing
<1>2. t # s
  BY <1>1
<1>3. job[t].pc \in Awaiting
  BY <1>2, OthersPaused
<1>4. QED
  BY <1>1, <1>3 DEF Awaiting

(* Codes stay mailed where a step leaves code and address, or no code.     *)
LEMMA CodesCarry ==
  ASSUME OneWorker, CodesMailed, NEW s \in Slots, CanRun(s),
         job[s].pc \notin {"changeFresh", "sendCode"}, mailbox \subseteq mailbox',
         \A v \in DOMAIN user' :
           \/ user'[v].code = 0
           \/ v \in DOMAIN user /\ user'[v].code = user[v].code /\ user'[v].email = user[v].email
  PROVE  CodesMailed'
<1> SUFFICES ASSUME NEW v \in DOMAIN user', user'[v].code # 0
             PROVE  [code |-> user'[v].code, to |-> user'[v].email] \in mailbox'
  BY DEF CodesMailed, Mailed
<1>1. v \in DOMAIN user /\ user'[v].code = user[v].code /\ user'[v].email = user[v].email
  OBVIOUS
<1>2. Mailed(v)
  BY <1>1, MailedNow
<1>3. QED
  BY <1>1, <1>2 DEF Mailed

(* A step that writes neither code, address nor flag. *)
LEMMA ColumnsKept ==
  ASSUME OneWorker, Inv, AddressInv, NEW s \in Slots, CanRun(s),
         job[s].pc \notin {"changeFresh", "sendCode"}, UNCHANGED mailbox,
         NEW n, job' = [job EXCEPT ![s] = n],
         n = Idle \/ Unmoved(n.pc, n.code, n.row, user', mailbox'),
         \A v \in DOMAIN user' :
           /\ v \in DOMAIN user /\ user'[v].code = user[v].code
           /\ user'[v].email = user[v].email /\ user'[v].verified = user[v].verified
  PROVE  Truthful
<1>1. RowsUnmoved'
  BY UnmovedStep
<1>2. CodesMailed'
  BY CodesCarry DEF AddressInv
<1>3. QED
  BY <1>1, <1>2 DEF Truthful, AddressInv, ProvenStep, StaysStep

(* A step that only reads. *)
LEMMA ReadsTruthful ==
  ASSUME OneWorker, Inv, AddressInv, NEW s \in Slots, CanRun(s),
         job[s].pc \notin {"changeFresh", "sendCode"}, UNCHANGED db,
         NEW n, job' = [job EXCEPT ![s] = n],
         n = Idle \/ Unmoved(n.pc, n.code, n.row, user, mailbox)
  PROVE  Truthful
<1>1. user' = user /\ mailbox' = mailbox
  BY DEF db
<1>2. QED
  BY <1>1, ColumnsKept

(* Reading, and answering, with a session or without. *)
LEMMA AnswerTruthful ==
  ASSUME OneWorker, Inv, AddressInv, NEW s \in Slots, CanRun(s),
         job[s].pc \notin {"changeFresh", "sendCode"}, UNCHANGED db,
         job' = [job EXCEPT ![s] = Idle]
  PROVE  Truthful
  BY ReadsTruthful

(* Reading, and going on. *)
LEMMA GotoTruthful ==
  ASSUME OneWorker, Inv, AddressInv, NEW s \in Slots,
         NEW label \in Labels \ {"changeFresh", "sendCode"}, At(s, label),
         NEW next \in Labels, Goto(s, next), UNCHANGED db,
         \/ next \notin {"sendCode", "renameTaken", "rename", "emailTaken", "profile",
                         "changeTaken", "changeSet", "verifySet"}
         \/ {label, next} \subseteq {"renameTaken", "rename", "emailTaken", "profile"}
         \/ label = "changeTaken" /\ next = "changeSet"
  PROVE  Truthful
<1> DEFINE n == [job[s] EXCEPT !.pc = next]
<1>1. CanRun(s) /\ job[s] \in Jobs(nextUser, nextCode) /\ job[s].pc = label
  BY AtLabel DEF Inv
<1>2. n.pc = next /\ n.code = job[s].code /\ n.row = job[s].row
  BY <1>1 DEF Jobs
<1>3. label # "idle"
  BY DEF Labels, Awaiting
<1>4. Unmoved(label, job[s].code, job[s].row, user, mailbox)
  BY <1>1, <1>3 DEF AddressInv, RowsUnmoved
<1>5. Unmoved(next, job[s].code, job[s].row, user, mailbox)
  BY <1>4 DEF Unmoved
<1>6. job' = [job EXCEPT ![s] = n]
  BY DEF Goto, Inv, JobsOK
<1> HIDE DEF n
<1>7. QED
  BY <1>1, <1>2, <1>5, <1>6, ReadsTruthful

(* Reading, and going on with the row found.  Whoever is to be verified, or *)
(* to change his address, is not verified yet.                              *)
LEMMA HoldTruthful ==
  ASSUME OneWorker, Inv, AddressInv, NEW s \in Slots,
         NEW label \in Labels \ {"changeFresh", "sendCode"}, At(s, label),
         NEW next \in Labels, NEW held, Hold(s, held, next), UNCHANGED db,
         held.id \in DOMAIN user => held.row = user[held.id],
         next \in {"changeTaken", "changeSet"} => ~held.row.verified,
         next = "verifySet" => held.row.code = job[s].code /\ held.row.code # 0
  PROVE  Truthful
<1> DEFINE m == [job[s] EXCEPT !.row = held]
           n == [m EXCEPT !.pc = next]
<1>1. CanRun(s) /\ job[s] \in Jobs(nextUser, nextCode) /\ job[s].pc = label
  BY AtLabel DEF Inv
<1>2. m.code = job[s].code /\ m.row = held /\ DOMAIN m = DOMAIN job[s]
  BY <1>1 DEF Jobs
<1>3. DOMAIN job[s] = {"pc", "req", "me", "code", "row"}
  BY <1>1 DEF Jobs
<1> HIDE DEF m
<1>4. n.pc = next /\ n.code = job[s].code /\ n.row = held
  BY <1>2, <1>3
<1>5. held.id \in DOMAIN user => Mailed(held.id)
  BY <1>1, MailedNow DEF AddressInv
<1>6. Unmoved(next, job[s].code, held, user, mailbox)
  BY <1>5 DEF Unmoved, Mailed
<1>7. job' = [job EXCEPT ![s] = n]
  BY DEF Hold, Inv, JobsOK, m
<1> HIDE DEF n
<1>8. QED
  BY <1>1, <1>4, <1>6, <1>7, ReadsTruthful
----------------------------------------------------------------------------
(* What the actions that only read owe. *)

(* A request starts. *)
LEMMA BeginTruthful ==
  ASSUME OneWorker, Inv, AddressInv, NEW s \in Slots, Begin(s)
  PROVE  Truthful
<1>1. CanRun(s) /\ UNCHANGED db /\ job[s].pc = "idle"
  BY DEF Begin, Idle
<1>2. PICK r \in Requests :
        \E me \in IF r.op \in WithSession THEN {t.user : t \in {t \in session : Valid(t)}} ELSE {0} :
        \E code \in IF r.op = "verify" THEN {m.code : m \in mailbox} ELSE {0} :
          job' = [job EXCEPT ![s] = [pc |-> FirstLabel(r.op), req |-> r, me |-> me, code |-> code,
                                     row |-> NoRow]]
  BY DEF Begin
<1>3. PICK me, code :
          job' = [job EXCEPT ![s] = [pc |-> FirstLabel(r.op), req |-> r, me |-> me, code |-> code,
                                     row |-> NoRow]]
  BY <1>2
<1> DEFINE n == [pc |-> FirstLabel(r.op), req |-> r, me |-> me, code |-> code, row |-> NoRow]
<1>4. NoRow.id \notin DOMAIN user
  BY DEF NoRow, Inv, TablesOK
<1>5. Unmoved(n.pc, n.code, n.row, user, mailbox)
  BY <1>4 DEF Unmoved
<1>6. QED
  BY <1>1, <1>3, <1>5, ReadsTruthful

(* A code ages while it is what it is. *)
LEMMA CodeAgesTruthful ==
  ASSUME OneWorker, Inv, AddressInv, NEW u, CodeAges(u)
  PROVE  Truthful
<1>1. user[u] \in Rows /\ u \in DOMAIN user
  BY DEF CodeAges, Inv, TablesOK
<1>2. /\ DOMAIN user' = DOMAIN user
      /\ \A v \in DOMAIN user :
           /\ user'[v].code = user[v].code /\ user'[v].email = user[v].email
           /\ user'[v].verified = user[v].verified
  BY <1>1 DEF CodeAges, Rows
<1>3. mailbox' = mailbox /\ job' = job
  BY DEF CodeAges
<1>4. RowsUnmoved'
  BY <1>2, <1>3 DEF AddressInv, RowsUnmoved, Unmoved
<1>5. CodesMailed'
  BY <1>2, <1>3 DEF AddressInv, CodesMailed, Mailed, Changing
<1>6. QED
  BY <1>2, <1>4, <1>5 DEF Truthful, AddressInv, ProvenStep, StaysStep

(* A code is checked: it is the row's, and was mailed. *)
LEMMA VerifyReadTruthful ==
  ASSUME OneWorker, Inv, AddressInv, NEW s \in Slots, VerifyRead(s)
  PROVE  Truthful
<1> DEFINE held == Found(Addressed(job[s].req.email))
<1>1. At(s, "verifyRead") /\ UNCHANGED db /\ CanRun(s) /\ job[s].pc = "verifyRead"
  BY DEF VerifyRead, At
<1>2. CASE Respond(s)
  BY <1>1, <1>2, AnswerTruthful DEF Respond
<1>3. CASE /\ held # NoRow /\ held.row.code # 0 /\ held.row.code = job[s].code
           /\ Hold(s, held, "verifySet")
  <2>1. held.row = user[held.id]
    BY <1>3, FoundFacts DEF Addressed, Inv
  <2> HIDE DEF held
  <2>2. QED
    BY <1>1, <1>3, <2>1, HoldTruthful DEF Labels
<1>4. QED
  BY <1>2, <1>3 DEF VerifyRead

(* Another code may be sent. *)
LEMMA ResendReadTruthful ==
  ASSUME OneWorker, Inv, AddressInv, NEW s \in Slots, ResendRead(s)
  PROVE  Truthful
<1> DEFINE held == Found(Addressed(job[s].req.email))
<1>1. At(s, "resendRead") /\ UNCHANGED db /\ CanRun(s) /\ job[s].pc = "resendRead"
  BY DEF ResendRead, At
<1>2. CASE Respond(s)
  BY <1>1, <1>2, AnswerTruthful DEF Respond
<1>3. CASE held # NoRow /\ Hold(s, held, "sendCode")
  <2>1. held.row = user[held.id]
    BY <1>3, FoundFacts DEF Addressed, Inv
  <2> HIDE DEF held
  <2>2. QED
    BY <1>1, <1>3, <2>1, HoldTruthful DEF Labels
<1>4. QED
  BY <1>2, <1>3 DEF ResendRead

(* The account whose address is to change is not verified. *)
LEMMA ChangeReadTruthful ==
  ASSUME OneWorker, Inv, AddressInv, NEW s \in Slots, ChangeRead(s)
  PROVE  Truthful
<1> DEFINE held == Found(Addressed(job[s].req.email))
<1>1. At(s, "changeRead") /\ UNCHANGED db /\ CanRun(s) /\ job[s].pc = "changeRead"
  BY DEF ChangeRead, At
<1>2. CASE Respond(s)
  BY <1>1, <1>2, AnswerTruthful DEF Respond
<1>3. CASE held # NoRow /\ ~held.row.verified /\ Hold(s, held, "changeTaken")
  <2>1. held.row = user[held.id]
    BY <1>3, FoundFacts DEF Addressed, Inv
  <2> HIDE DEF held
  <2>2. QED
    BY <1>1, <1>3, <2>1, HoldTruthful DEF Labels
<1>4. QED
  BY <1>2, <1>3 DEF ChangeRead

(* The address wanted is free. *)
LEMMA ChangeTakenTruthful ==
  ASSUME OneWorker, Inv, AddressInv, NEW s \in Slots, ChangeTaken(s)
  PROVE  Truthful
<1>1. At(s, "changeTaken") /\ UNCHANGED db /\ CanRun(s) /\ job[s].pc = "changeTaken"
  BY DEF ChangeTaken, At
<1>2. CASE Respond(s)
  BY <1>1, <1>2, AnswerTruthful DEF Respond
<1>3. CASE Goto(s, "changeSet")
  BY <1>1, <1>3, GotoTruthful DEF Labels
<1>4. QED
  BY <1>2, <1>3 DEF ChangeTaken

(* The account verified is signed in. *)
LEMMA VerifyFreshTruthful ==
  ASSUME OneWorker, Inv, AddressInv, NEW s \in Slots, VerifyFresh(s)
  PROVE  Truthful
<1>1. UNCHANGED db /\ CanRun(s) /\ job[s].pc = "verifyFresh"
  BY DEF VerifyFresh, At
<1>2. job' = [job EXCEPT ![s] = Idle]
  BY DEF VerifyFresh, Respond, Open
<1>3. QED
  BY <1>1, <1>2, AnswerTruthful

(* The name is free, or of an account that gets another code. *)
LEMMA SignupNameTruthful ==
  ASSUME OneWorker, Inv, AddressInv, NEW s \in Slots, SignupName(s)
  PROVE  Truthful
<1> DEFINE held == Found(Named(job[s].req.name))
<1>1. At(s, "signupName") /\ UNCHANGED db /\ CanRun(s) /\ job[s].pc = "signupName"
  BY DEF SignupName, At
<1>2. CASE Respond(s)
  BY <1>1, <1>2, AnswerTruthful DEF Respond
<1>3. CASE held # NoRow /\ Hold(s, held, "sendCode")
  <2>1. held.row = user[held.id]
    BY <1>3, FoundFacts DEF Named, Inv
  <2> HIDE DEF held
  <2>2. QED
    BY <1>1, <1>3, <2>1, HoldTruthful DEF Labels
<1>4. CASE Goto(s, "signupEmail")
  BY <1>1, <1>4, GotoTruthful DEF Labels
<1>5. QED
  BY <1>2, <1>3, <1>4 DEF SignupName

(* So with the address. *)
LEMMA SignupEmailTruthful ==
  ASSUME OneWorker, Inv, AddressInv, NEW s \in Slots, SignupEmail(s)
  PROVE  Truthful
<1> DEFINE held == Found(Addressed(job[s].req.email))
<1>1. At(s, "signupEmail") /\ UNCHANGED db /\ CanRun(s) /\ job[s].pc = "signupEmail"
  BY DEF SignupEmail, At
<1>2. CASE Respond(s)
  BY <1>1, <1>2, AnswerTruthful DEF Respond
<1>3. CASE held # NoRow /\ Hold(s, held, "sendCode")
  <2>1. held.row = user[held.id]
    BY <1>3, FoundFacts DEF Addressed, Inv
  <2> HIDE DEF held
  <2>2. QED
    BY <1>1, <1>3, <2>1, HoldTruthful DEF Labels
<1>4. CASE Goto(s, "signupHash")
  BY <1>1, <1>4, GotoTruthful DEF Labels, Awaiting
<1>5. QED
  BY <1>2, <1>3, <1>4 DEF SignupEmail

(* The new account is read again. *)
LEMMA SignupReadTruthful ==
  ASSUME OneWorker, Inv, AddressInv, NEW s \in Slots, SignupRead(s)
  PROVE  Truthful
<1> DEFINE u == job[s].row.id
<1>1. At(s, "signupRead") /\ UNCHANGED db /\ CanRun(s) /\ job[s].pc = "signupRead"
  BY DEF SignupRead, At
<1>2. CASE job' = [job EXCEPT ![s] = Idle]
  BY <1>1, <1>2, AnswerTruthful
<1>3. CASE u \in DOMAIN user /\ Hold(s, RowOf(u), "sendCode")
  <2>1. RowOf(u).row = user[RowOf(u).id]
    BY DEF RowOf
  <2>2. QED
    BY <1>1, <1>3, <2>1, HoldTruthful DEF Labels
<1>4. QED
  BY <1>2, <1>3 DEF SignupRead, Respond, Open

(* Signing in relies on what stays with the epoch only. *)
LEMMA LoginReadTruthful ==
  ASSUME OneWorker, Inv, AddressInv, NEW s \in Slots, LoginRead(s)
  PROVE  Truthful
<1> DEFINE held == Found(Named(job[s].req.name))
<1>1. At(s, "loginRead") /\ UNCHANGED db /\ CanRun(s) /\ job[s].pc = "loginRead"
  BY DEF LoginRead, At
<1>2. CASE Respond(s)
  BY <1>1, <1>2, AnswerTruthful DEF Respond
<1>3. CASE held # NoRow /\ Hold(s, held, "loginHash")
  <2>1. held.row = user[held.id]
    BY <1>3, FoundFacts DEF Named, Inv
  <2> HIDE DEF held
  <2>2. QED
    BY <1>1, <1>3, <2>1, HoldTruthful DEF Labels, Awaiting
<1>4. QED
  BY <1>2, <1>3 DEF LoginRead

(* The reads of the password form. *)
LEMMA PasswordReadsTruthful ==
  ASSUME OneWorker, Inv, AddressInv, NEW s \in Slots,
         PasswordRead(s) \/ PasswordCheck(s) \/ PasswordFresh(s)
  PROVE  Truthful
<1>1. /\ UNCHANGED db /\ CanRun(s)
      /\ job[s].pc \in {"passwordRead", "passwordCheck", "passwordFresh"}
  BY DEF PasswordRead, PasswordCheck, PasswordFresh, At
<1>2. CASE job' = [job EXCEPT ![s] = Idle]
  BY <1>1, <1>2, AnswerTruthful
<1>3. CASE At(s, "passwordCheck") /\ Goto(s, "passwordHash")
  BY <1>1, <1>3, GotoTruthful DEF Labels, Awaiting
<1>4. CASE At(s, "passwordRead") /\ Hold(s, RowOf(job[s].me), "passwordCheck")
  <2>1. RowOf(job[s].me).row = user[RowOf(job[s].me).id]
    BY DEF RowOf
  <2>2. QED
    BY <1>1, <1>4, <2>1, HoldTruthful DEF Labels, Awaiting
<1>5. QED
  BY <1>2, <1>3, <1>4 DEF PasswordRead, PasswordCheck, PasswordFresh, Respond, Open

(* The user form finds its row. *)
LEMMA FindTargetTruthful ==
  ASSUME OneWorker, Inv, AddressInv, NEW s \in Slots, FindTarget(s)
  PROVE  Truthful
<1> DEFINE u == job[s].req.id
<1>1. At(s, "target") /\ UNCHANGED db /\ CanRun(s) /\ job[s].pc = "target"
  BY DEF FindTarget, At
<1>2. CASE Respond(s)
  BY <1>1, <1>2, AnswerTruthful DEF Respond
<1>3. ASSUME NEW next \in {"renameTaken", "purge"}, Hold(s, RowOf(u), next)
      PROVE  Truthful
  <2>1. RowOf(u).row = user[RowOf(u).id]
    BY DEF RowOf
  <2>2. QED
    BY <1>1, <1>3, <2>1, HoldTruthful DEF Labels
<1>4. QED
  BY <1>2, <1>3 DEF FindTarget

(* The checks of the user form. *)
LEMMA FormReadsTruthful ==
  ASSUME OneWorker, Inv, AddressInv, NEW s \in Slots,
         RenameTaken(s) \/ EmailTaken(s) \/ Reset(s)
  PROVE  Truthful
<1>1. UNCHANGED db /\ CanRun(s) /\ job[s].pc \in {"renameTaken", "emailTaken", "reset"}
  BY DEF RenameTaken, EmailTaken, Reset, At
<1>2. CASE Respond(s)
  BY <1>1, <1>2, AnswerTruthful DEF Respond
<1>3. CASE At(s, "renameTaken") /\ (Goto(s, "emailTaken") \/ Goto(s, "rename"))
  BY <1>1, <1>3, GotoTruthful DEF Labels
<1>4. CASE At(s, "emailTaken") /\ (Goto(s, "reset") \/ Goto(s, "profile"))
  BY <1>1, <1>4, GotoTruthful DEF Labels
<1>5. CASE At(s, "reset") /\ (Goto(s, "admin") \/ Goto(s, "resetHash"))
  BY <1>1, <1>5, GotoTruthful DEF Labels, Awaiting
<1>6. QED
  BY <1>2, <1>3, <1>4, <1>5 DEF RenameTaken, EmailTaken, Reset
----------------------------------------------------------------------------
(* What the actions that write owe. *)

(* The job a slot goes on with keeps its fields. *)
LEMMA GotoFields ==
  ASSUME Inv, NEW s \in Slots, NEW label \in Labels, At(s, label), NEW next, Goto(s, next)
  PROVE  \E n : /\ job' = [job EXCEPT ![s] = n]
                /\ n.pc = next /\ n.code = job[s].code /\ n.row = job[s].row
<1> DEFINE n == [job[s] EXCEPT !.pc = next]
<1>1. job[s] \in Jobs(nextUser, nextCode)
  BY AtLabel DEF Inv
<1>2. n.pc = next /\ n.code = job[s].code /\ n.row = job[s].row
  BY <1>1 DEF Jobs
<1>3. job' = [job EXCEPT ![s] = n]
  BY DEF Goto, Inv, JobsOK
<1> HIDE DEF n
<1>4. QED
  BY <1>2, <1>3

(* So it does with another row to hold. *)
LEMMA HoldFields ==
  ASSUME Inv, NEW s \in Slots, NEW label \in Labels, At(s, label), NEW next, NEW held,
         Hold(s, held, next)
  PROVE  \E n : /\ job' = [job EXCEPT ![s] = n]
                /\ n.pc = next /\ n.code = job[s].code /\ n.row = held
<1> DEFINE m == [job[s] EXCEPT !.row = held]
           n == [m EXCEPT !.pc = next]
<1>1. job[s] \in Jobs(nextUser, nextCode)
  BY AtLabel DEF Inv
<1>2. m.code = job[s].code /\ m.row = held /\ DOMAIN m = DOMAIN job[s]
  BY <1>1 DEF Jobs
<1>3. DOMAIN job[s] = {"pc", "req", "me", "code", "row"}
  BY <1>1 DEF Jobs
<1>4. job' = [job EXCEPT ![s] = n]
  BY DEF Hold, Inv, JobsOK
<1> HIDE DEF m
<1>5. n.pc = next /\ n.code = job[s].code /\ n.row = held
  BY <1>2, <1>3
<1> HIDE DEF n
<1>6. QED
  BY <1>4, <1>5

(* What a handler between two awaits knows of the row it read. *)
LEMMA UnmovedNow ==
  ASSUME AddressInv, NEW s \in Slots, NEW label \in Labels, At(s, label)
  PROVE  job[s].pc = label /\ Unmoved(label, job[s].code, job[s].row, user, mailbox)
<1>1. label # "idle" /\ job[s].pc = label
  BY DEF Labels, Awaiting, At
<1>2. QED
  BY <1>1 DEF AddressInv, RowsUnmoved

(* The account whose address has changed is read again: its code is due.   *)
LEMMA ChangeFreshTruthful ==
  ASSUME OneWorker, Inv, AddressInv, NEW s \in Slots, ChangeFresh(s)
  PROVE  Truthful
<1> DEFINE u == job[s].row.id
<1>1. /\ At(s, "changeFresh") /\ CanRun(s) /\ job[s].pc = "changeFresh"
      /\ user' = user /\ mailbox' = mailbox
  BY DEF ChangeFresh, At, db
<1>2. ProvenStep /\ StaysStep
  BY <1>1 DEF ProvenStep, StaysStep
<1>3. CASE Respond(s) /\ u \notin DOMAIN user
  <2>1. RowsUnmoved'
    BY <1>1, <1>3, UnmovedStep DEF Respond
  <2>2. \A v \in DOMAIN user : Mailed(v)
    BY <1>1, <1>3, MailedNow DEF AddressInv
  <2>3. CodesMailed'
    BY <1>1, <2>2 DEF CodesMailed, Mailed
  <2>4. QED
    BY <1>2, <2>1, <2>3 DEF Truthful, AddressInv
<1>4. CASE u \in DOMAIN user /\ Hold(s, RowOf(u), "sendCode")
  <2>1. PICK n : /\ job' = [job EXCEPT ![s] = n]
                 /\ n.pc = "sendCode" /\ n.code = job[s].code /\ n.row = RowOf(u)
    BY <1>1, <1>4, HoldFields DEF Labels
  <2>2. Unmoved(n.pc, n.code, n.row, user', mailbox')
    BY <1>1, <2>1 DEF Unmoved, RowOf
  <2>3. RowsUnmoved'
    BY <1>1, <2>1, <2>2, UnmovedStep
  <2>4. \A v \in DOMAIN user : v # u => Mailed(v)
    BY <1>1, MailedNow DEF AddressInv
  <2>5. \A v : v = u => Changing(v)'
    <3>1. job'[s] = n
      BY <2>1 DEF Inv, JobsOK
    <3>2. QED
      BY <2>1, <3>1 DEF Changing, RowOf
  <2>6. CodesMailed'
    BY <1>1, <2>4, <2>5 DEF CodesMailed, Mailed
  <2>7. QED
    BY <1>2, <2>3, <2>6 DEF Truthful, AddressInv
<1>5. QED
  BY <1>3, <1>4 DEF ChangeFresh

(* The code is mailed to the address stored. *)
LEMMA SendCodeTruthful ==
  ASSUME OneWorker, Inv, AddressInv, NEW s \in Slots, SendCode(s)
  PROVE  Truthful
<1> DEFINE held == job[s].row
           one == [user[held.id] EXCEPT !.code = nextCode]
           row == [one EXCEPT !.age = "fresh"]
<1>1. At(s, "sendCode") /\ CanRun(s)
  BY DEF SendCode, At
<1>2. job[s].pc = "sendCode" /\ Unmoved("sendCode", job[s].code, held, user, mailbox)
  BY <1>1, UnmovedNow DEF Labels
<1>3. /\ job' = [job EXCEPT ![s] = Idle]
      /\ mailbox' = mailbox \cup {[code |-> nextCode, to |-> held.row.email]}
      /\ user' = [v \in DOMAIN user |-> IF v = held.id THEN row ELSE user[v]]
  BY DEF SendCode, Respond, SetUser
<1>4. ASSUME held.id \in DOMAIN user
      PROVE  /\ row.code = nextCode
             /\ row.email = user[held.id].email /\ row.verified = user[held.id].verified
             /\ row.email = held.row.email
  <2>1. user[held.id] \in Rows
    BY <1>4 DEF Inv, TablesOK
  <2>2. user[held.id].email = held.row.email
    BY <1>2, <1>4 DEF Unmoved
  <2>3. QED
    BY <2>1, <2>2 DEF Rows
<1> HIDE DEF row
<1>5. RowsUnmoved'
  BY <1>1, <1>3, UnmovedStep
<1>6. ASSUME NEW v \in DOMAIN user'
      PROVE  Mailed(v)'
  <2>1. CASE v = held.id
    BY <1>3, <1>4, <2>1 DEF Mailed
  <2>2. CASE v # held.id
    <3>1. Mailed(v)
      BY <1>1, <1>3, <1>6, <2>2, MailedNow DEF AddressInv
    <3>2. QED
      BY <1>3, <2>2, <3>1 DEF Mailed
  <2>3. QED
    BY <2>1, <2>2
<1>7. CodesMailed'
  BY <1>6 DEF CodesMailed
<1>8. ProvenStep /\ StaysStep
  BY <1>3, <1>4 DEF ProvenStep, StaysStep
<1>9. QED
  BY <1>5, <1>7, <1>8 DEF Truthful, AddressInv

(* The flag is set for the address the code was mailed to. *)
LEMMA VerifySetTruthful ==
  ASSUME OneWorker, Inv, AddressInv, NEW s \in Slots, VerifySet(s)
  PROVE  Truthful
<1> DEFINE u == job[s].row.id
           one == [user[u] EXCEPT !.verified = TRUE]
           two == [one EXCEPT !.code = 0]
           row == [two EXCEPT !.age = "fresh"]
<1>1. At(s, "verifySet") /\ CanRun(s) /\ Goto(s, "verifyFresh")
  BY DEF VerifySet, At
<1>2. job[s].pc = "verifySet" /\ Unmoved("verifySet", job[s].code, job[s].row, user, mailbox)
  BY <1>1, UnmovedNow DEF Labels
<1>3. /\ mailbox' = mailbox
      /\ user' = [v \in DOMAIN user |-> IF v = u THEN row ELSE user[v]]
  BY DEF VerifySet, SetUser
<1>4. u \in DOMAIN user => row.code = 0 /\ row.verified /\ row.email = user[u].email
  BY DEF Inv, TablesOK, Rows
<1> HIDE DEF row
<1>5. PICK n : /\ job' = [job EXCEPT ![s] = n]
               /\ n.pc = "verifyFresh" /\ n.code = job[s].code /\ n.row = job[s].row
  BY <1>1, GotoFields DEF Labels
<1>6. RowsUnmoved'
  BY <1>1, <1>5, UnmovedStep DEF Unmoved
<1>7. CodesMailed'
  BY <1>1, <1>2, <1>3, <1>4, CodesCarry DEF AddressInv
<1>8. job'[s] # job[s]
  BY <1>2, <1>5 DEF Inv, JobsOK
<1>9. u \in DOMAIN user => [code |-> job[s].code, to |-> row.email] \in mailbox
  BY <1>2, <1>4 DEF Unmoved
<1>10. ProvenStep /\ StaysStep
  BY <1>2, <1>3, <1>4, <1>8, <1>9 DEF ProvenStep, StaysStep
<1>11. QED
  BY <1>6, <1>7, <1>10 DEF Truthful, AddressInv

(* Only an address not verified is changed by its user. *)
LEMMA ChangeSetTruthful ==
  ASSUME OneWorker, Inv, AddressInv, NEW s \in Slots, ChangeSet(s)
  PROVE  Truthful
<1> DEFINE u == job[s].row.id
           row == [user[u] EXCEPT !.email = job[s].req.newEmail]
<1>1. At(s, "changeSet") /\ CanRun(s) /\ mailbox' = mailbox
  BY DEF ChangeSet, At
<1>2. job[s].pc = "changeSet" /\ Unmoved("changeSet", job[s].code, job[s].row, user, mailbox)
  BY <1>1, UnmovedNow DEF Labels
<1>3. CASE Respond(s) /\ UNCHANGED user
  BY <1>1, <1>2, <1>3, AnswerTruthful DEF ChangeSet, Respond, db
<1>4. CASE SetUser(u, row) /\ Goto(s, "changeFresh")
  <2>1. user' = [v \in DOMAIN user |-> IF v = u THEN row ELSE user[v]]
    BY <1>4 DEF SetUser
  <2>2. u \in DOMAIN user => row.verified = user[u].verified /\ ~user[u].verified
    BY <1>2 DEF Unmoved, Inv, TablesOK, Rows
  <2> HIDE DEF row
  <2>3. PICK n : /\ job' = [job EXCEPT ![s] = n]
                 /\ n.pc = "changeFresh" /\ n.code = job[s].code /\ n.row = job[s].row
    BY <1>1, <1>4, GotoFields DEF Labels
  <2>4. RowsUnmoved'
    BY <1>1, <2>3, UnmovedStep DEF Unmoved
  <2>5. \A v \in DOMAIN user : Mailed(v)
    BY <1>1, <1>2, MailedNow DEF AddressInv
  <2>6. \A v : v = u => Changing(v)'
    <3>1. job'[s] = n
      BY <2>3 DEF Inv, JobsOK
    <3>2. QED
      BY <2>3, <3>1 DEF Changing
  <2>7. CodesMailed'
    BY <1>1, <2>1, <2>5, <2>6 DEF CodesMailed, Mailed
  <2>8. ProvenStep /\ StaysStep
    BY <2>1, <2>2 DEF ProvenStep, StaysStep
  <2>9. QED
    BY <2>4, <2>7, <2>8 DEF Truthful, AddressInv
<1>5. QED
  BY <1>3, <1>4 DEF ChangeSet

(* A new account has no code, and is verified if its name is reserved.     *)
LEMMA SignupInsertTruthful ==
  ASSUME OneWorker, Inv, AddressInv, NEW s \in Slots, SignupInsert(s)
  PROVE  Truthful
<1> DEFINE r == job[s].req
           reserved == r.name \in Reserved
           row == [name |-> r.name, email |-> r.email, verified |-> reserved, code |-> 0,
                   age |-> "fresh", password |-> r.password, epoch |-> 0, admin |-> reserved]
           held == [id |-> nextUser, row |-> row]
<1>1. /\ At(s, "signupHash") /\ CanRun(s) /\ mailbox' = mailbox /\ UNCHANGED nextCode
      /\ job[s].pc = "signupHash"
  BY DEF SignupInsert, At
<1>2. CASE Respond(s) /\ UNCHANGED <<user, nextUser>>
  BY <1>1, <1>2, AnswerTruthful DEF Respond, db
<1>3. CASE /\ user' = [v \in DOMAIN user \cup {nextUser} |->
                         IF v = nextUser THEN row ELSE user[v]]
           /\ Hold(s, held, "signupRead")
  <2>1. row.code = 0 /\ (row.verified => row.name \in Reserved)
    OBVIOUS
  <2>2. nextUser \notin DOMAIN user
    BY DEF Inv, TablesOK
  <2> HIDE DEF row
  <2>3. PICK n : /\ job' = [job EXCEPT ![s] = n]
                 /\ n.pc = "signupRead" /\ n.code = job[s].code /\ n.row = held
    BY <1>1, <1>3, HoldFields DEF Labels, Awaiting
  <2>4. RowsUnmoved'
    BY <1>1, <2>3, UnmovedStep DEF Unmoved
  <2>5. CodesMailed'
    BY <1>1, <1>3, <2>1, CodesCarry DEF AddressInv
  <2>6. ProvenStep /\ StaysStep
    BY <1>3, <2>1, <2>2 DEF ProvenStep, StaysStep
  <2>7. QED
    BY <2>4, <2>5, <2>6 DEF Truthful, AddressInv
<1>4. QED
  BY <1>2, <1>3 DEF SignupInsert

(* A sign-in verifies under a reserved name only. *)
LEMMA LoginTruthful ==
  ASSUME OneWorker, Inv, AddressInv, NEW s \in Slots, Login(s)
  PROVE  Truthful
<1> DEFINE u == job[s].row.id
           one == [user[u] EXCEPT !.admin = TRUE]
           row == [one EXCEPT !.verified = TRUE]
<1>1. /\ At(s, "loginHash") /\ CanRun(s) /\ UNCHANGED <<nextUser, nextCode, mailbox>>
      /\ job[s].pc = "loginHash"
  BY DEF Login, At
<1>2. job' = [job EXCEPT ![s] = Idle]
  BY DEF Login, Respond, Open
<1>3. CASE UNCHANGED user
  BY <1>1, <1>2, <1>3, AnswerTruthful DEF db
<1>4. CASE SetUser(u, row) /\ job[s].row.row.name \in Reserved
  <2>1. user' = [v \in DOMAIN user |-> IF v = u THEN row ELSE user[v]]
    BY <1>4 DEF SetUser
  <2>2. u \in DOMAIN user => row.verified /\ row.email = user[u].email /\ row.code = user[u].code
    BY DEF Inv, TablesOK, Rows
  <2> HIDE DEF row
  <2>3. RowsUnmoved'
    BY <1>1, <1>2, UnmovedStep
  <2>4. CodesMailed'
    BY <1>1, <2>1, <2>2, CodesCarry DEF AddressInv
  <2>5. job'[s] # job[s]
    BY <1>1, <1>2 DEF Inv, JobsOK, Idle
  <2>6. ProvenStep /\ StaysStep
    BY <1>1, <1>4, <2>1, <2>2, <2>5 DEF ProvenStep, StaysStep
  <2>7. QED
    BY <2>3, <2>4, <2>6 DEF Truthful, AddressInv
<1>5. QED
  BY <1>3, <1>4 DEF Login

(* A password is a column of its own. *)
LEMMA PasswordsTruthful ==
  ASSUME OneWorker, Inv, AddressInv, NEW s \in Slots, PasswordSet(s) \/ ResetSet(s)
  PROVE  Truthful
<1>1. PICK label \in {"passwordHash", "resetHash"}, next \in {"passwordFresh", "admin"},
           u \in {job[s].me, job[s].row.id} :
        /\ At(s, label) /\ Goto(s, next) /\ mailbox' = mailbox
        /\ SetUser(u, [user[u] EXCEPT !.password = job[s].req.password, !.epoch = @ + 1])
  BY DEF PasswordSet, ResetSet
<1> DEFINE row == [user[u] EXCEPT !.password = job[s].req.password, !.epoch = @ + 1]
<1>2. ASSUME u \in DOMAIN user
      PROVE  /\ row.code = user[u].code /\ row.email = user[u].email
             /\ row.verified = user[u].verified
  <2>1. user[u] \in Rows
    BY <1>2 DEF Inv, TablesOK
  <2>2. QED
    BY <2>1 DEF Rows
<1>3. user' = [v \in DOMAIN user |-> IF v = u THEN row ELSE user[v]]
  BY <1>1 DEF SetUser
<1> HIDE DEF row
<1>4. label \in Labels /\ CanRun(s) /\ job[s].pc = label
  BY <1>1 DEF Labels, Awaiting, At
<1>5. PICK n : /\ job' = [job EXCEPT ![s] = n]
               /\ n.pc = next /\ n.code = job[s].code /\ n.row = job[s].row
  BY <1>1, <1>4, GotoFields
<1>6. Unmoved(n.pc, n.code, n.row, user', mailbox')
  BY <1>5 DEF Unmoved
<1>7. QED
  BY <1>1, <1>2, <1>3, <1>4, <1>5, <1>6, ColumnsKept

(* A row deleted verifies nothing. *)
LEMMA PurgeUserTruthful ==
  ASSUME OneWorker, Inv, AddressInv, NEW s \in Slots, PurgeUser(s)
  PROVE  Truthful
<1>1. CanRun(s) /\ job[s].pc = "purge" /\ mailbox' = mailbox /\ job' = [job EXCEPT ![s] = Idle]
  BY DEF PurgeUser, At, Respond
<1>2. user' = [v \in DOMAIN user \ {job[s].row.id} |-> user[v]]
  BY DEF PurgeUser
<1>3. QED
  BY <1>1, <1>2, ColumnsKept

(* The name is a column of its own, in the row held too. *)
LEMMA RenameTruthful ==
  ASSUME OneWorker, Inv, AddressInv, NEW s \in Slots, Rename(s)
  PROVE  Truthful
<1> DEFINE name == job[s].req.name
           u == job[s].row.id
           row == [user[u] EXCEPT !.name = name]
           mine == [job[s].row.row EXCEPT !.name = name]
           held == [job[s].row EXCEPT !.row = mine]
<1>1. At(s, "rename") /\ CanRun(s) /\ mailbox' = mailbox
  BY DEF Rename, At
<1>2. job[s].pc = "rename" /\ Unmoved("rename", job[s].code, job[s].row, user, mailbox)
  BY <1>1, UnmovedNow DEF Labels
<1>3. CASE Respond(s) /\ UNCHANGED user
  BY <1>1, <1>2, <1>3, AnswerTruthful DEF Rename, Respond, db
<1>4. CASE SetUser(u, row) /\ Hold(s, held, "emailTaken")
  <2>1. user' = [v \in DOMAIN user |-> IF v = u THEN row ELSE user[v]]
    BY <1>4 DEF SetUser
  <2>2. ASSUME u \in DOMAIN user
        PROVE  /\ row.code = user[u].code /\ row.email = user[u].email
               /\ row.verified = user[u].verified
    <3>1. user[u] \in Rows
      BY <2>2 DEF Inv, TablesOK
    <3>2. QED
      BY <3>1 DEF Rows
  <2>3. job[s].row \in HeldRows(nextUser) /\ job[s].row.row \in Rows
    BY <1>1, HeldRow DEF Inv, Labels, Holding
  <2>4. mine.email = job[s].row.row.email /\ mine.verified = job[s].row.row.verified
    BY <2>3 DEF Rows
  <2> HIDE DEF mine
  <2>5. held.id = u /\ held.row = mine
    BY <2>3 DEF HeldRows
  <2> HIDE DEF row, held
  <2>6. PICK n : /\ job' = [job EXCEPT ![s] = n]
                 /\ n.pc = "emailTaken" /\ n.code = job[s].code /\ n.row = held
    BY <1>1, <1>4, HoldFields DEF Labels
  <2>7. Unmoved("emailTaken", job[s].code, held, user', mailbox')
    BY <1>2, <2>1, <2>2, <2>4, <2>5 DEF Unmoved
  <2>8. QED
    BY <1>1, <1>2, <2>1, <2>2, <2>6, <2>7, ColumnsKept
<1>5. QED
  BY <1>3, <1>4 DEF Rename

(* The form gives an address, or leaves the flag as it is stored. *)
LEMMA ProfileTruthful ==
  ASSUME OneWorker, Inv, AddressInv, NEW s \in Slots, Profile(s)
  PROVE  Truthful
<1> DEFINE email == job[s].req.email
           u == job[s].row.id
           verified == job[s].row.row.email # email \/ job[s].row.row.verified
           one == [user[u] EXCEPT !.email = email]
           two == [one EXCEPT !.verified = verified]
           three == [two EXCEPT !.code = 0]
           row == [three EXCEPT !.age = "fresh"]
<1>1. At(s, "profile") /\ CanRun(s) /\ mailbox' = mailbox
  BY DEF Profile, At
<1>2. job[s].pc = "profile" /\ Unmoved("profile", job[s].code, job[s].row, user, mailbox)
  BY <1>1, UnmovedNow DEF Labels
<1>3. CASE Respond(s) /\ UNCHANGED user
  BY <1>1, <1>2, <1>3, AnswerTruthful DEF Profile, Respond, db
<1>4. CASE SetUser(u, row) /\ Goto(s, "reset")
  <2>1. user' = [v \in DOMAIN user |-> IF v = u THEN row ELSE user[v]]
    BY <1>4 DEF SetUser
  <2>2. u \in DOMAIN user => row.code = 0 /\ (user[u].verified => row.verified)
    <3>1. u \in DOMAIN user => user[u] \in Rows /\ (user[u].verified => verified)
      BY <1>2 DEF Unmoved, Inv, TablesOK
    <3> HIDE DEF verified
    <3>2. QED
      BY <3>1 DEF Rows
  <2> HIDE DEF row
  <2>3. PICK n : /\ job' = [job EXCEPT ![s] = n]
                 /\ n.pc = "reset" /\ n.code = job[s].code /\ n.row = job[s].row
    BY <1>1, <1>4, GotoFields DEF Labels
  <2>4. RowsUnmoved'
    BY <1>1, <2>3, UnmovedStep DEF Unmoved
  <2>5. CodesMailed'
    BY <1>1, <1>2, <2>1, <2>2, CodesCarry DEF AddressInv
  <2>6. job'[s] # job[s]
    BY <1>2, <2>3 DEF Inv, JobsOK
  <2>7. ProvenStep /\ StaysStep
    BY <1>2, <2>1, <2>2, <2>6 DEF ProvenStep, StaysStep
  <2>8. QED
    BY <2>4, <2>5, <2>7 DEF Truthful, AddressInv
<1>5. QED
  BY <1>3, <1>4 DEF Profile

(* The administrator flag is a column of its own. *)
LEMMA SetAdminTruthful ==
  ASSUME OneWorker, Inv, AddressInv, NEW s \in Slots, SetAdmin(s)
  PROVE  Truthful
<1> DEFINE u == job[s].row.id
           row == [user[u] EXCEPT !.admin = (job[s].req.admin = "yes")]
<1>1. /\ CanRun(s) /\ job[s].pc = "admin" /\ job' = [job EXCEPT ![s] = Idle]
      /\ UNCHANGED <<nextUser, nextCode, mailbox>>
  BY DEF SetAdmin, At, Respond
<1>2. CASE UNCHANGED user
  BY <1>1, <1>2, AnswerTruthful DEF db
<1>3. CASE SetUser(u, row)
  <2>1. user' = [v \in DOMAIN user |-> IF v = u THEN row ELSE user[v]]
    BY <1>3 DEF SetUser
  <2>2. ASSUME u \in DOMAIN user
        PROVE  /\ row.code = user[u].code /\ row.email = user[u].email
               /\ row.verified = user[u].verified
    <3>1. user[u] \in Rows
      BY <2>2 DEF Inv, TablesOK
    <3>2. QED
      BY <3>1 DEF Rows
  <2> HIDE DEF row
  <2>3. QED
    BY <1>1, <2>1, <2>2, ColumnsKept
<1>4. QED
  BY <1>2, <1>3 DEF SetAdmin

(* Every step of one worker is truthful. *)
LEMMA NextTruthful ==
  ASSUME OneWorker, Inv, AddressInv, Next
  PROVE  Truthful
<1>1. ASSUME NEW s \in Slots, Step(s)
      PROVE  Truthful
  BY <1>1, BeginTruthful, SendCodeTruthful, VerifyReadTruthful, VerifySetTruthful,
     VerifyFreshTruthful, ResendReadTruthful, ChangeReadTruthful, ChangeTakenTruthful,
     ChangeSetTruthful, ChangeFreshTruthful, SignupNameTruthful, SignupEmailTruthful,
     SignupInsertTruthful, SignupReadTruthful, LoginReadTruthful, LoginTruthful,
     PasswordReadsTruthful, PasswordsTruthful, FindTargetTruthful, PurgeUserTruthful,
     RenameTruthful, FormReadsTruthful, ProfileTruthful, SetAdminTruthful
  DEF Step
<1>2. QED
  BY <1>1, CodeAgesTruthful DEF Next

(* In one worker, handlers find the rows they read, and codes are mailed   *)
(* to the addresses stored.                                                *)
LEMMA AddressInvariance ==
  ASSUME OneWorker
  PROVE  Spec => [](Inv /\ AddressInv)
<1>1. Init => AddressInv
  <2> SUFFICES ASSUME Init PROVE AddressInv
    OBVIOUS
  <2>1. RowsUnmoved
    BY DEF Init, RowsUnmoved, Idle
  <2>2. \A u \in DOMAIN user : Mailed(u)
    BY CodesAssumption DEF Init, Mailed
  <2>3. QED
    BY <2>1, <2>2 DEF AddressInv, CodesMailed
<1>2. ASSUME Inv, AddressInv, [Next]_vars
      PROVE  AddressInv'
  <2>1. CASE UNCHANGED vars
    BY <1>2, <2>1 DEF vars, AddressInv, RowsUnmoved, CodesMailed, Mailed, Changing, Unmoved
  <2>2. QED
    BY <1>2, <2>1, NextTruthful DEF Truthful
<1>3. QED
  BY <1>1, <1>2, AccountsInvariance, PTL DEF Spec

(* An address counts as verified for a reason: its code, the               *)
(* administrator, or a reserved name.                                      *)
THEOREM AddressesProven ==
  ASSUME OneWorker
  PROVE  Spec => EmailProven
<1>1. ASSUME Inv, AddressInv, [Next]_vars
      PROVE  [ProvenStep]_vars
  BY <1>1, NextTruthful DEF Truthful
<1>2. EmailProven <=> [][ProvenStep]_vars
  BY PTL DEF EmailProven, ProvenStep
<1>3. QED
  BY <1>1, <1>2, AddressInvariance, PTL DEF Spec

(* Verified stays verified, whatever forms overlap. *)
THEOREM VerifiedStays ==
  ASSUME OneWorker
  PROVE  Spec => StaysVerified
<1>1. ASSUME Inv, AddressInv, [Next]_vars
      PROVE  [StaysStep]_vars
  BY <1>1, NextTruthful DEF Truthful
<1>2. StaysVerified <=> [][StaysStep]_vars
  BY PTL DEF StaysVerified, StaysStep
<1>3. QED
  BY <1>1, <1>2, AddressInvariance, PTL DEF Spec
=============================================================================
