------------------------------ MODULE Accounts ------------------------------
(***************************************************************************)
(* Accounts and sessions: signing up, verifying an e-mail address, signing *)
(* in, changing a password, and the administrator's user form              *)
(* (server/routes/auth.js, the password form of server/routes/account.js,  *)
(* the user form of server/routes/admin.js, sessions of server/lib/auth.js)*)
(*                                                                         *)
(* Here handlers are not atomic even within a worker: hashing or checking  *)
(* a password is awaited, and other requests of the same worker run then.  *)
(* A slot is one request in flight; it belongs to a worker, and between    *)
(* two awaits no other slot of that worker moves.  Slots of different      *)
(* workers interleave statement by statement, as in module Store.          *)
(*                                                                         *)
(* Left out: rate limits, licence columns (module Sharing), the wording    *)
(* and loss of e-mails, names of persons and telephones, cookies, and the  *)
(* thirty days of a session.  Codes never repeat by chance; two spellings  *)
(* of one user name are one name.                                          *)
(***************************************************************************)
EXTENDS Integers, Sequences, FiniteSets

CONSTANTS
  Slots, Workers, WorkerOf,    \* requests in flight, and where they run
  Names, Reserved,             \* user names; those in ADMIN_USERNAMES
  Emails, Passwords,
  InitialUsers,                \* the rows of users at the start, by id
  Requests,                    \* what clients may send
  MaxUserId, MaxCode, MaxEpoch \* bounds on the counters

None == "none"        \* a form field not sent, or a handler without a session
Invalid == "invalid"  \* a field that validation refuses

Operations == {"signup", "login", "verify", "resend", "changeEmail",
               "password", "update", "delete"}
WithSession == {"password", "update", "delete"}
AdminOnly == {"update", "delete"}

(* id: the user the administrator's form is about; current: the password   *)
(* given; password: the new one; setup: the set-up key was right.          *)
RequestType ==
  [op: Operations, id: Nat, name: Names \cup {None}, email: Emails \cup {None, Invalid},
   newEmail: Emails \cup {None}, current: Passwords \cup {None},
   password: Passwords \cup {None, Invalid}, setup: BOOLEAN, admin: {"keep", "yes", "no"}]

Ages == {"fresh", "live", "expired"}   \* of a code: a minute, ten minutes, older
Rows == [name: Names, email: Emails, verified: BOOLEAN, code: Nat, age: Ages,
         password: Passwords, epoch: Nat, admin: BOOLEAN]

ASSUME SlotsAssumption == WorkerOf \in [Slots -> Workers] /\ Reserved \subseteq Names
ASSUME FieldsAssumption == /\ {None, Invalid} \cap (Names \cup Emails \cup Passwords) = {}
                           /\ Requests \subseteq RequestType
ASSUME RowsAssumption == InitialUsers \in Seq(Rows)
(* No code is out at the start: those drawn are numbered from 1.           *)
ASSUME CodesAssumption == \A u \in DOMAIN InitialUsers : InitialUsers[u].code = 0

VARIABLES
  user,       \* users: id -> row
  nextUser,   \* sqlite_sequence
  nextCode,   \* codes are numbered as they are drawn
  mailbox,    \* the codes mailed: [code, to]
  session,    \* the tokens handed out: [user, epoch, knew]
  job         \* what each slot is doing

db == <<user, nextUser, nextCode, mailbox>>
vars == <<user, nextUser, nextCode, mailbox, session, job>>

----------------------------------------------------------------------------
(* Slots *)

Idle == [pc |-> "idle"]

(* Labels at which a handler awaits the thread pool.                       *)
Awaiting == {"idle", "loginHash", "signupHash", "passwordCheck", "passwordHash", "resetHash"}

Labels == (Awaiting \ {"idle"}) \cup
  {"loginRead", "signupName", "signupEmail", "signupRead", "sendCode",
   "verifyRead", "verifySet", "verifyFresh", "resendRead", "changeRead", "changeTaken",
   "changeSet", "changeFresh", "passwordRead", "passwordSet", "passwordFresh",
   "target", "renameTaken", "rename", "emailTaken", "profile", "reset", "admin", "purge"}

(* One event loop: a slot moves when no other of its worker is between two *)
(* awaits.                                                                 *)
CanRun(s) ==
  \A t \in Slots \ {s} : WorkerOf[t] = WorkerOf[s] => job[t].pc \in Awaiting

At(s, label) == job[s].pc = label /\ CanRun(s)

Goto(s, label) == job' = [job EXCEPT ![s] = [@ EXCEPT !.pc = label]]
Hold(s, row, label) == job' = [job EXCEPT ![s] = [@ EXCEPT !.row = row, !.pc = label]]
Respond(s) == job' = [job EXCEPT ![s] = Idle] /\ UNCHANGED session

(* sessionFor: a token for the row the handler holds.  knew, which no step *)
(* reads, is the password the client sent for it, None if he sent none.    *)
Open(s, id, row, knew) ==
  /\ session' = session \cup {[user |-> id, epoch |-> row.epoch, knew |-> knew]}
  /\ job' = [job EXCEPT ![s] = Idle]

(* attachUser: a token is worth something while its epoch is the row's.    *)
Valid(t) == t.user \in DOMAIN user /\ t.epoch = user[t.user].epoch

IsAdmin(row) == row.admin \/ row.name \in Reserved

Named(name) == {u \in DOMAIN user : user[u].name = name}
Addressed(email) == {u \in DOMAIN user : user[u].email = email}

(* UPDATE users ... WHERE id: no row, no change.  UNIQUE lets a name or an *)
(* address belong to one row only.                                         *)
SetUser(u, row) == user' = [v \in DOMAIN user |-> IF v = u THEN row ELSE user[v]]
NameFree(name, u) == Named(name) \subseteq {u}
EmailFree(email, u) == Addressed(email) \subseteq {u}

NoRow == [id |-> 0]
RowOf(u) == [id |-> u, row |-> user[u]]
Found(us) == IF us = {} THEN NoRow ELSE RowOf(CHOOSE u \in us : TRUE)

----------------------------------------------------------------------------
(* A request arrives.                                                      *)

FirstLabel(op) ==
  CASE op = "signup" -> "signupName" [] op = "login" -> "loginRead"
    [] op = "verify" -> "verifyRead" [] op = "resend" -> "resendRead"
    [] op = "changeEmail" -> "changeRead" [] op = "password" -> "passwordRead"
    [] op \in AdminOnly -> "target"

(* Bound: requests are accepted while every slot could still draw an id,   *)
(* a code and an epoch.                                                    *)
RoomFor(op) ==
  /\ op = "signup" => nextUser + Cardinality(Slots) <= MaxUserId + 1
  /\ op \in {"signup", "resend", "changeEmail"} =>
       nextCode + Cardinality(Slots) <= MaxCode + 1
  /\ op \in {"password", "update"} =>
       \A u \in DOMAIN user : user[u].epoch + Cardinality(Slots) <= MaxEpoch

Begin(s) ==
  /\ job[s] = Idle /\ CanRun(s)
  /\ \E r \in Requests :
       /\ RoomFor(r.op)
       /\ \E me \in IF r.op \in WithSession THEN {t.user : t \in {t \in session : Valid(t)}} ELSE {0} :
          \E code \in IF r.op = "verify" THEN {m.code : m \in mailbox} ELSE {0} :
            /\ r.op \in AdminOnly => IsAdmin(user[me])
            /\ job' = [job EXCEPT ![s] =
                 [pc |-> FirstLabel(r.op), req |-> r, me |-> me, code |-> code,
                  row |-> NoRow]]
  /\ UNCHANGED <<db, session>>

----------------------------------------------------------------------------
(* Codes *)

(* sendVerificationCode for the row held: a new code replaces the last,    *)
(* and is mailed to the address in that row.                               *)
SendCode(s) ==
  LET held == job[s].row IN
  /\ At(s, "sendCode")
  /\ SetUser(held.id, [user[held.id] EXCEPT !.code = nextCode, !.age = "fresh"])
  /\ mailbox' = mailbox \cup {[code |-> nextCode, to |-> held.row.email]}
  /\ nextCode' = nextCode + 1
  /\ Respond(s)
  /\ UNCHANGED nextUser

(* The minute between two codes, and their ten minutes, go by.             *)
CodeAges(u) ==
  /\ u \in DOMAIN user /\ user[u].code # 0 /\ user[u].age # "expired"
  /\ user' = [user EXCEPT ![u].age = IF @ = "fresh" THEN "live" ELSE "expired"]
  /\ UNCHANGED <<nextUser, nextCode, mailbox, session, job>>

VerifyRead(s) ==
  LET found == Found(Addressed(job[s].req.email)) IN
  /\ At(s, "verifyRead")
  /\ IF /\ found # NoRow
        /\ ~found.row.verified /\ found.row.code # 0 /\ found.row.age # "expired"
        /\ found.row.code = job[s].code
     THEN Hold(s, found, "verifySet") /\ UNCHANGED session
     ELSE Respond(s)
  /\ UNCHANGED db

VerifySet(s) ==
  LET u == job[s].row.id IN
  /\ At(s, "verifySet")
  /\ SetUser(u, [user[u] EXCEPT !.verified = TRUE, !.code = 0, !.age = "fresh"])
  /\ Goto(s, "verifyFresh")
  /\ UNCHANGED <<nextUser, nextCode, mailbox, session>>

(* The user verified is signed in: the code is asked for, no password.     *)
VerifyFresh(s) ==
  LET u == job[s].row.id IN
  /\ At(s, "verifyFresh")
  /\ IF u \in DOMAIN user THEN Open(s, u, user[u], None) ELSE Respond(s)
  /\ UNCHANGED db

(* A minute must have passed since the last code.                          *)
ResendRead(s) ==
  LET found == Found(Addressed(job[s].req.email)) IN
  /\ At(s, "resendRead")
  /\ IF found # NoRow /\ ~found.row.verified /\ (found.row.code = 0 \/ found.row.age # "fresh")
     THEN Hold(s, found, "sendCode") /\ UNCHANGED session
     ELSE Respond(s)
  /\ UNCHANGED db

(* An account not verified may be given another address, if it is one.     *)
ChangeRead(s) ==
  LET found == Found(Addressed(job[s].req.email)) IN
  /\ At(s, "changeRead")
  /\ IF job[s].req.newEmail \in Emails /\ found # NoRow /\ ~found.row.verified
     THEN Hold(s, found, "changeTaken") /\ UNCHANGED session
     ELSE Respond(s)
  /\ UNCHANGED db

ChangeTaken(s) ==
  /\ At(s, "changeTaken")
  /\ IF EmailFree(job[s].req.newEmail, job[s].row.id)
     THEN Goto(s, "changeSet") /\ UNCHANGED session
     ELSE Respond(s)
  /\ UNCHANGED db

ChangeSet(s) ==
  LET u == job[s].row.id
      email == job[s].req.newEmail
  IN /\ At(s, "changeSet")
     /\ IF EmailFree(email, u)
        THEN /\ SetUser(u, [user[u] EXCEPT !.email = email])
             /\ Goto(s, "changeFresh")
             /\ UNCHANGED session
        ELSE Respond(s) /\ UNCHANGED user
     /\ UNCHANGED <<nextUser, nextCode, mailbox>>

(* Faulty variant: the address changes, the code stays. *)
ChangeFreshKeepingCode(s) == At(s, "changeFresh") /\ Respond(s) /\ UNCHANGED db

ChangeFresh(s) ==
  LET u == job[s].row.id IN
  /\ At(s, "changeFresh")
  /\ IF u \in DOMAIN user THEN Hold(s, RowOf(u), "sendCode") /\ UNCHANGED session
     ELSE Respond(s)
  /\ UNCHANGED db

----------------------------------------------------------------------------
(* Signing up *)

Complete(r) == r.name \in Names /\ r.email \in Emails /\ r.password \in Passwords

(* The form is complete.  A name or an address of an account not verified: *)
(* a new code for it.                                                      *)
SignupName(s) ==
  LET r == job[s].req
      found == Found(Named(r.name))
  IN /\ At(s, "signupName")
     /\ CASE Complete(r) /\ found = NoRow -> Goto(s, "signupEmail") /\ UNCHANGED session
          [] Complete(r) /\ found # NoRow /\ ~found.row.verified ->
               Hold(s, found, "sendCode") /\ UNCHANGED session
          [] OTHER -> Respond(s)
     /\ UNCHANGED db

(* A reserved name needs the set-up key.                                   *)
SignupEmail(s) ==
  LET found == Found(Addressed(job[s].req.email))
      allowed == job[s].req.name \in Reserved => job[s].req.setup
  IN /\ At(s, "signupEmail")
     /\ CASE found = NoRow /\ allowed -> Goto(s, "signupHash") /\ UNCHANGED session
          [] found # NoRow /\ ~found.row.verified -> Hold(s, found, "sendCode") /\ UNCHANGED session
          [] OTHER -> Respond(s)
     /\ UNCHANGED db

(* The hash is there: INSERT, which fails if the name or the address was   *)
(* taken meanwhile.                                                        *)
SignupInsert(s) ==
  LET r == job[s].req
      reserved == r.name \in Reserved
      row == [name |-> r.name, email |-> r.email, verified |-> reserved, code |-> 0,
              age |-> "fresh", password |-> r.password, epoch |-> 0, admin |-> reserved]
  IN /\ At(s, "signupHash")
     /\ IF NameFree(r.name, 0) /\ EmailFree(r.email, 0)
        THEN /\ user' = [v \in DOMAIN user \cup {nextUser} |->
                          IF v = nextUser THEN row ELSE user[v]]
             /\ nextUser' = nextUser + 1
             /\ Hold(s, [id |-> nextUser, row |-> row], "signupRead")
             /\ UNCHANGED session
        ELSE Respond(s) /\ UNCHANGED <<user, nextUser>>
     /\ UNCHANGED <<nextCode, mailbox>>

SignupRead(s) ==
  LET u == job[s].row.id IN
  /\ At(s, "signupRead")
  /\ CASE u \notin DOMAIN user -> Respond(s)
       [] u \in DOMAIN user /\ job[s].req.name \in Reserved ->
            Open(s, u, user[u], job[s].req.password)
       [] OTHER -> Hold(s, RowOf(u), "sendCode") /\ UNCHANGED session
  /\ UNCHANGED db
----------------------------------------------------------------------------
(* Signing in, and changing one's password *)

LoginRead(s) ==
  LET found == Found(Named(job[s].req.name)) IN
  /\ At(s, "loginRead")
  /\ IF found # NoRow THEN Hold(s, found, "loginHash") /\ UNCHANGED session ELSE Respond(s)
  /\ UNCHANGED db

(* Faulty variant: the row is read again after the password was checked.   *)
LoginReread(s) ==
  LET held == job[s].row IN
  /\ At(s, "loginHash")
  /\ IF /\ held.row.password = job[s].req.current
        /\ held.id \in DOMAIN user /\ user[held.id].verified
     THEN Open(s, held.id, user[held.id], held.row.password)
     ELSE Respond(s)
  /\ UNCHANGED db

(* The password is checked against the row read before the await, and the  *)
(* token carries that row's epoch.  A reserved name becomes administrator. *)
Login(s) ==
  LET held == job[s].row
      right == held.row.password = job[s].req.current
      reserved == held.row.name \in Reserved
  IN /\ At(s, "loginHash")
     /\ IF right /\ reserved
        THEN SetUser(held.id, [user[held.id] EXCEPT !.admin = TRUE, !.verified = TRUE])
        ELSE UNCHANGED user
     /\ IF right /\ (reserved \/ held.row.verified)
        THEN Open(s, held.id, held.row, job[s].req.current)
        ELSE Respond(s)
     /\ UNCHANGED <<nextUser, nextCode, mailbox>>

PasswordRead(s) ==
  LET u == job[s].me IN
  /\ At(s, "passwordRead")
  /\ IF u \in DOMAIN user THEN Hold(s, RowOf(u), "passwordCheck") /\ UNCHANGED session
     ELSE Respond(s)
  /\ UNCHANGED db

(* The current password is right, and the new one is one and another.      *)
PasswordCheck(s) ==
  LET r == job[s].req IN
  /\ At(s, "passwordCheck")
  /\ IF job[s].row.row.password = r.current /\ r.password \in Passwords \ {r.current}
     THEN Goto(s, "passwordHash") /\ UNCHANGED session
     ELSE Respond(s)
  /\ UNCHANGED db

(* The new hash is there.  Whatever happened to the row since it was read, *)
(* it is overwritten and every session ends.                               *)
PasswordSet(s) ==
  LET u == job[s].me IN
  /\ At(s, "passwordHash")
  /\ SetUser(u, [user[u] EXCEPT !.password = job[s].req.password, !.epoch = @ + 1])
  /\ Goto(s, "passwordFresh")
  /\ UNCHANGED <<nextUser, nextCode, mailbox, session>>

PasswordFresh(s) ==
  LET u == job[s].me IN
  /\ At(s, "passwordFresh")
  /\ IF u \in DOMAIN user THEN Open(s, u, user[u], job[s].req.password) ELSE Respond(s)
  /\ UNCHANGED db

----------------------------------------------------------------------------
(* The administrator's user form: every part the form sends is written by  *)
(* a statement of its own, and a part refused ends it.                     *)

FindTarget(s) ==
  LET r == job[s].req
      u == r.id
      refused == u = job[s].me \/ user[u].name \in Reserved
  IN /\ At(s, "target")
     /\ CASE u \notin DOMAIN user -> Respond(s)
          [] u \in DOMAIN user /\ r.op = "update" ->
               Hold(s, RowOf(u), "renameTaken") /\ UNCHANGED session
          [] OTHER -> IF refused THEN Respond(s)
                      ELSE Hold(s, RowOf(u), "purge") /\ UNCHANGED session
     /\ UNCHANGED db

(* The last of the statements that delete a user (module Sharing).         *)
PurgeUser(s) ==
  /\ At(s, "purge")
  /\ user' = [v \in DOMAIN user \ {job[s].row.id} |-> user[v]]
  /\ Respond(s)
  /\ UNCHANGED <<nextUser, nextCode, mailbox>>

RenameTaken(s) ==
  LET name == job[s].req.name
      held == job[s].row
  IN /\ At(s, "renameTaken")
     /\ CASE name \in {None, held.row.name} -> Goto(s, "emailTaken") /\ UNCHANGED session
          [] name \notin {None, held.row.name} /\ NameFree(name, held.id) /\ name \notin Reserved ->
               Goto(s, "rename") /\ UNCHANGED session
          [] OTHER -> Respond(s)
     /\ UNCHANGED db

Rename(s) ==
  LET name == job[s].req.name
      held == job[s].row
  IN /\ At(s, "rename")
     /\ IF NameFree(name, held.id)
        THEN /\ SetUser(held.id, [user[held.id] EXCEPT !.name = name])
             /\ Hold(s, [held EXCEPT !.row.name = name], "emailTaken")
             /\ UNCHANGED session
        ELSE Respond(s) /\ UNCHANGED user
     /\ UNCHANGED <<nextUser, nextCode, mailbox>>

(* Faulty variant: what was refused is written. *)
EmailTakenUnchecked(s) ==
  LET r == job[s].req IN
  /\ At(s, "emailTaken")
  /\ IF r.email # None /\ EmailFree(r.email, job[s].row.id)
     THEN Goto(s, "profile") ELSE Goto(s, "reset")
  /\ UNCHANGED <<db, session>>

EmailTaken(s) ==
  LET r == job[s].req IN
  /\ At(s, "emailTaken")
  /\ CASE r.email = None -> Goto(s, "reset") /\ UNCHANGED session
       [] r.email \in Emails /\ EmailFree(r.email, job[s].row.id) ->
            Goto(s, "profile") /\ UNCHANGED session
       [] OTHER -> Respond(s)
  /\ UNCHANGED db

(* An address the administrator gives counts as verified; one he leaves    *)
(* keeps the flag of the row read.                                         *)
Profile(s) ==
  LET email == job[s].req.email
      held == job[s].row
      verified == held.row.email # email \/ held.row.verified
  IN /\ At(s, "profile")
     /\ IF EmailFree(email, held.id)
        THEN /\ SetUser(held.id, [user[held.id] EXCEPT !.email = email, !.verified = verified,
                                                       !.code = 0, !.age = "fresh"])
             /\ Goto(s, "reset") /\ UNCHANGED session
        ELSE Respond(s) /\ UNCHANGED user
     /\ UNCHANGED <<nextUser, nextCode, mailbox>>

Reset(s) ==
  LET password == job[s].req.password IN
  /\ At(s, "reset")
  /\ CASE password = None -> Goto(s, "admin") /\ UNCHANGED session
       [] password = Invalid -> Respond(s)
       [] OTHER -> Goto(s, "resetHash") /\ UNCHANGED session
  /\ UNCHANGED db

(* Faulty variant: the whole row read before the await is written back. *)
ResetSetWritingRow(s) ==
  LET held == job[s].row IN
  /\ At(s, "resetHash")
  /\ SetUser(held.id, [held.row EXCEPT !.password = job[s].req.password,
                                       !.epoch = user[held.id].epoch + 1])
  /\ Goto(s, "admin")
  /\ UNCHANGED <<nextUser, nextCode, mailbox, session>>

ResetSet(s) ==
  LET u == job[s].row.id IN
  /\ At(s, "resetHash")
  /\ SetUser(u, [user[u] EXCEPT !.password = job[s].req.password, !.epoch = @ + 1])
  /\ Goto(s, "admin")
  /\ UNCHANGED <<nextUser, nextCode, mailbox, session>>

(* Nobody takes his own administration away, nor a reserved account's.     *)
SetAdmin(s) ==
  LET r == job[s].req
      held == job[s].row
      wants == r.admin = "yes"
      refused == ~wants /\ (held.id = job[s].me \/ held.row.name \in Reserved)
  IN /\ At(s, "admin")
     /\ IF r.admin # "keep" /\ ~refused /\ held.row.admin # wants
        THEN SetUser(held.id, [user[held.id] EXCEPT !.admin = wants])
        ELSE UNCHANGED user
     /\ Respond(s)
     /\ UNCHANGED <<nextUser, nextCode, mailbox>>

----------------------------------------------------------------------------
Init ==
  /\ user = InitialUsers
  /\ nextUser = Len(InitialUsers) + 1
  /\ nextCode = 1 /\ mailbox = {} /\ session = {}
  /\ job = [s \in Slots |-> Idle]

Step(s) ==
  \/ Begin(s) \/ SendCode(s)
  \/ VerifyRead(s) \/ VerifySet(s) \/ VerifyFresh(s) \/ ResendRead(s)
  \/ ChangeRead(s) \/ ChangeTaken(s) \/ ChangeSet(s) \/ ChangeFresh(s)
  \/ SignupName(s) \/ SignupEmail(s) \/ SignupInsert(s) \/ SignupRead(s)
  \/ LoginRead(s) \/ Login(s)
  \/ PasswordRead(s) \/ PasswordCheck(s) \/ PasswordSet(s) \/ PasswordFresh(s)
  \/ FindTarget(s) \/ PurgeUser(s) \/ RenameTaken(s) \/ Rename(s)
  \/ EmailTaken(s) \/ Profile(s) \/ Reset(s) \/ ResetSet(s) \/ SetAdmin(s)

Next == (\E s \in Slots : Step(s)) \/ (\E u \in 1..MaxUserId : CodeAges(u))

Spec == Init /\ [][Next]_vars
----------------------------------------------------------------------------
(* A handler: me is the user of its session, row the row it last read,     *)
(* code the code a client entered; ids and codes have been drawn.          *)
Jobs(ids, codes) ==
  [pc: Labels, req: Requests, me: 0..(ids - 1), code: 0..(codes - 1),
   row: {NoRow} \cup [id: 1..(ids - 1), row: Rows]]

TypeOK ==
  /\ nextUser \in Nat \ {0} /\ DOMAIN user \subseteq 1..(nextUser - 1)
  /\ user \in [DOMAIN user -> Rows]
  /\ nextCode \in Nat \ {0} /\ mailbox \subseteq [code: 1..(nextCode - 1), to: Emails]
  /\ session \subseteq [user: 1..(nextUser - 1), epoch: Nat, knew: Passwords \cup {None}]
  /\ job \in [Slots -> {Idle} \cup Jobs(nextUser, nextCode)]

(* A token that is worth something, and was given for a password, was      *)
(* given for the one stored now: no sign-in that was waiting while the     *)
(* password changed, and no change that was overtaken by another, leaves a *)
(* session behind ("all other sessions become invalid", account.js:141,    *)
(* auth.js:216).  A token given for a mailed code (auth.js:365-383) says   *)
(* nothing of what its holder knows.                                       *)
SessionsFresh ==
  \A t \in session : Valid(t) /\ t.knew # None => t.knew = user[t.user].password

(* An address counts as verified because a code mailed to it was entered,  *)
(* or the administrator entered the address, or the name is reserved, or   *)
(* was when a sign-in read it (auth.js:278-289, 319-399,                   *)
(* admin.js:155-166).  A code mailed to an address the account had before  *)
(* is worth nothing.                                                       *)
EmailProven ==
  [][\A u \in DOMAIN user' :
       user'[u].verified
         /\ (u \notin DOMAIN user \/ ~user[u].verified \/ user[u].email # user'[u].email)
       => \/ user'[u].name \in Reserved
          \/ \E s \in Slots : /\ job'[s] # job[s] /\ job[s].row.id = u
                             /\ \/ job[s].pc = "profile"
                                \/ job[s].pc = "loginHash" /\ job[s].row.row.name \in Reserved
                                \/ /\ job[s].pc = "verifySet"
                                   /\ [code |-> job[s].code, to |-> user'[u].email] \in mailbox]_vars

(* An account once verified is never found unverified again, which would   *)
(* shut its user out: forms write back flags and rows they read before     *)
(* (admin.js:155-166, auth.js:278).                                        *)
StaysVerified ==
  [][\A u \in DOMAIN user \cap DOMAIN user' : user[u].verified => user'[u].verified]_vars

(* The password form changes a password only for somebody who knows it     *)
(* (account.js:128-130): one reset by the administrator stands             *)
(* (admin.js:180).                                                         *)
PasswordKnown ==
  [][\A s \in Slots :
       LET u == job[s].me IN
       job[s].pc = "passwordHash" /\ job'[s] # job[s] /\ u \in DOMAIN user
         => user[u].password = job[s].req.current]_vars
=============================================================================
