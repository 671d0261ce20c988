----------------------------- MODULE MCAccounts -----------------------------
(* Small instances of Accounts: an administrator with a reserved name, a   *)
(* user not yet verified, and names and addresses for one more.            *)
EXTENDS Accounts, TLC

CONSTANTS s1, s2

TwoSlots == {s1, s2}
Symmetry == Permutations(TwoSlots)
InOneWorker == [s \in TwoSlots |-> 1]

MCNames == {"admin", "ops", "ann", "bob"}
MCEmails == {"a@x", "b@x", "c@x"}

Row(name, email, verified, password) ==
  [name |-> name, email |-> email, verified |-> verified, code |-> 0, age |-> "fresh",
   password |-> password, epoch |-> 0, admin |-> name = "admin"]
AdminAndAnn == <<Row("admin", "a@x", TRUE, "p1"), Row("ann", "b@x", FALSE, "p1")>>

Req(op, name, email, current, password) ==
  [op |-> op, id |-> 0, name |-> name, email |-> email, newEmail |-> None,
   current |-> current, password |-> password, setup |-> FALSE, admin |-> "keep"]
Form(id, name, email, password, admin) ==
  [Req("update", name, email, None, password) EXCEPT !.id = id, !.admin = admin]

Mails == {Req("resend", None, "b@x", None, None)}
  \cup {Req("verify", None, e, None, None) : e \in {"b@x", "c@x"}}
  \cup {[Req("changeEmail", None, "b@x", None, None) EXCEPT !.newEmail = "c@x"]}
Logins == {Req("login", "admin", None, "p1", None)}
  \cup {Req("login", "ann", None, p, None) : p \in {"p1", "p2"}}
Changes == {Req("password", None, None, "p1", "p2")}

AllRequests == Mails \cup Logins \cup Changes
  \cup {Form(2, None, None, "p2", "keep"), Form(2, "bob", "b@x", "p1", "yes"),
        Form(2, None, Invalid, None, "no"), [Form(2, None, None, None, "keep") EXCEPT !.op = "delete"]}
  \cup {Req("signup", n, "c@x", None, "p1") : n \in {"ann", "bob"}}
  \cup {[Req("signup", "ops", "c@x", None, "p2") EXCEPT !.setup = TRUE]}

ResetRequests == {Req("login", n, None, "p1", None) : n \in {"admin", "ann"}}
  \cup {Form(2, None, "b@x", "p2", "keep"), Form(2, None, "c@x", "p2", "keep")}
  \cup {Req("password", None, None, "p1", "p3")}
=============================================================================
