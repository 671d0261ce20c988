------------------------------ MODULE Session ------------------------------
(* Who is signed in on the tab (client/src/context/AppContext.jsx), what   *)
(* the routes show for it (App.jsx), the sign-in page (pages/AuthPage.jsx) *)
(* and signing out (components/Layout.jsx).                                *)
EXTENDS Api

(* "boot" while the first /me is awaited, then the sign-in page or the     *)
(* pages of a user: GuestOnly and Protected.                               *)
Screen(t) == IF t.booting THEN "boot" ELSE IF t.user = None THEN "login" ELSE "app"

NoAuth == [mode |-> "closed", busy |-> {}, waits |-> FALSE, changes |-> FALSE]
FreshAuth == [NoAuth EXCEPT !.mode = "login"]

(* The panel opens with the seconds counting down (AuthPage.jsx:400).      *)
Verifying(auth) ==
  IF auth.mode = "verify" THEN auth
  ELSE [auth EXCEPT !.mode = "verify", !.waits = TRUE, !.changes = FALSE]

NoArg == [page |-> None, row |-> None, of |-> "", upto |-> 1, then |-> None]

(* Only the last refresh is heard: refreshSeq.                             *)
refresh(t, then) ==
  Send(Deafen(t, {"refresh"}), "refresh", [NoArg EXCEPT !.then = then], TRUE)

onUnauth(t) == [t EXCEPT !.user = None, !.count = 0]

(* Faulty variant: answers to earlier refreshes are still heard.           *)
applyAuthUnheeding(t, a) ==
  LET saved == saveSessionToken(t, Named(a)) IN
  IF a.user # None THEN [saved EXCEPT !.user = a.user] ELSE refresh(saved, None)

applyAuth(t, a) ==
  LET quiet == saveSessionToken(Deafen(t, {"refresh"}), Named(a)) IN
  IF a.user # None THEN [quiet EXCEPT !.user = a.user] ELSE refresh(quiet, None)

----------------------------------------------------------------------------
(* What is mounted.                                                        *)
(* A page holds what it asks for (of), the data shown, a timer before the  *)
(* next request (wait), the flags of its buttons (busy), an open window    *)
(* (modal) and what was found in it; or the card of the error boundary is  *)
(* there in its place (error).  "crossed" is no state of the page: it      *)
(* records that answers met on the way (module Pages).                     *)
NoView == [page |-> None, of |-> "", data |-> None, wait |-> FALSE, loading |-> FALSE,
           busy |-> {}, modal |-> None, found |-> None, error |-> FALSE, crossed |-> FALSE]

FreshView(p) == [NoView EXCEPT !.page = p, !.wait = p = "admin"]

Loading == {"dashboard", "purchases", "suppliers", "supplier", "estimate", "account"}
PageNames == Loading \cup {"search", "admin", "license", "import"}

NoChat == [open |-> FALSE, enabled |-> None, busy |-> FALSE, typing |-> FALSE,
           error |-> FALSE, log |-> <<>>]

(* Neither requests nor the open question has a page to come back to.      *)
Orphaned(t, kinds) ==
  [Deafen(t, kinds) EXCEPT !.dialog = IF @ = None THEN @ ELSE [@ EXCEPT !.heard = FALSE]]

Others(t) == {t.flight[i].what : i \in DOMAIN t.flight} \ {"refresh"}

OpenPage(t, p) ==
  LET asked == Others(t) \ {"chat", "status"}
      bare  == [Orphaned(t, asked) EXCEPT !.view = [FreshView(p) EXCEPT !.crossed = asked # {}],
                                        !.address = p]
  IN  IF p \in Loading THEN Send(bare, "load", [NoArg EXCEPT !.page = p], TRUE) ELSE bare

(* A page that throws while it is drawn is taken down and the boundary's   *)
(* card is shown (ErrorBoundary.jsx): nothing more is said of this page    *)
(* until it is opened again.                                               *)
Crashed(t) ==
  [Orphaned(t, Others(t) \ {"chat", "status"}) EXCEPT
     !.view = [NoView EXCEPT !.page = t.view.page, !.error = TRUE, !.crossed = TRUE]]

(* From the sign-in page one comes to "/", whatever was asked for before.  *)
EnterApp(t, p) ==
  OpenPage([Orphaned(t, Others(t)) EXCEPT !.auth = NoAuth,
              !.chat = [NoChat EXCEPT !.log = t.kept[t.user]]], p)

EnterLogin(t) ==
  LET shown == [Orphaned(t, Others(t)) EXCEPT !.auth = FreshAuth, !.view = NoView, !.chat = NoChat]
  IN  IF Held(shown) # None THEN refresh(shown, None) ELSE shown

Rendered(t) ==
  LET was == Screen(tab)
      now == Screen(t)
  IN  IF was = now
      THEN IF t.user \in {None, tab.user} THEN t ELSE [t EXCEPT !.chat.log = t.kept[t.user]]
      ELSE IF now = "login" THEN EnterLogin(t)
      ELSE EnterApp(t, IF was = "boot" THEN t.address ELSE "dashboard")

(* The end of a handler's stretch: React renders.                          *)
Becomes(t) == tab' = Rendered(t)

(* A page load: memory and everything under way are gone.                  *)
Reloaded(t) ==
  LET bare == [t EXCEPT !.memory = None, !.user = None, !.booting = TRUE, !.count = 0,
                        !.flight = <<>>, !.auth = NoAuth, !.view = NoView, !.chat = NoChat,
                        !.dialog = None]
  IN  refresh(bare, None)

Loaded(stored, cookie, address) ==
  refresh([memory |-> None, stored |-> stored, cookie |-> cookie, user |-> None,
           booting |-> TRUE, count |-> 0, flight |-> <<>>, auth |-> NoAuth,
           view |-> NoView, chat |-> NoChat, dialog |-> None,
           kept |-> [u \in Users |-> <<>>], address |-> address], None)

Reload == Spend("signs") /\ tab' = Reloaded(tab) /\ UNCHANGED server

----------------------------------------------------------------------------
(* The sign-in page: a request per button, a flag while it runs.           *)
AuthFlag(what) ==
  CASE what \in {"login", "signup"} -> "submit"
    [] what = "verify" -> "verify"
    [] what = "resend" -> "resend"
    [] what = "change" -> "change"

(* The buttons that are there and enabled.                                 *)
Offered(auth) ==
  (IF auth.mode \in {"login", "signup"} /\ "submit" \notin auth.busy THEN {auth.mode} ELSE {})
    \cup (IF auth.mode = "verify" /\ "verify" \notin auth.busy THEN {"verify"} ELSE {})
    \cup (IF auth.mode = "verify" /\ ~auth.waits /\ auth.busy \cap {"verify", "resend"} = {}
          THEN {"resend"} ELSE {})
    \cup (IF auth.mode = "verify" /\ auth.changes /\ "change" \notin auth.busy
          THEN {"change"} ELSE {})

Press(what) ==
  /\ Screen(tab) = "login"
  /\ what \in Offered(tab.auth)
  /\ Spend("signs")
  /\ tab' = Send([tab EXCEPT !.auth.busy = @ \cup {AuthFlag(what)}], what, NoArg, TRUE)
  /\ UNCHANGED server

SwitchMode ==
  /\ tab.auth.mode \in {"login", "signup"}
  /\ Spend("signs")
  /\ tab' = [tab EXCEPT !.auth.mode = IF @ = "login" THEN "signup" ELSE "login"]
  /\ UNCHANGED server

ToggleChange ==
  /\ tab.auth.mode = "verify" /\ "resend" \notin tab.auth.busy
  /\ Spend("signs")
  /\ tab' = [tab EXCEPT !.auth.changes = ~@]
  /\ UNCHANGED server

CountedDown ==
  /\ tab.auth.waits
  /\ tab' = [tab EXCEPT !.auth.waits = FALSE]
  /\ UNCHANGED <<server, left>>

(* What the form does with an answer, if it is still there.                *)
AuthAnswered(t, r, a) ==
  IF ~r.heard THEN t
  ELSE LET rested == [t.auth EXCEPT !.busy = @ \ {AuthFlag(r.what)}]
           auth   == CASE a.status = "verify" -> Verifying(rested)
                       [] r.what \in {"resend", "change"} /\ a.status \in {"ok", "garbled", "early"} ->
                            [rested EXCEPT !.waits = TRUE, !.changes = @ /\ r.what = "resend"]
                       [] OTHER -> rested
       IN  [t EXCEPT !.auth = auth]

(* submit and onDone: a sign-in is applied, and after the login form it is *)
(* tried at once with /me before the form's flag is released.              *)
FormEnds(i, a) ==
  LET r == tab.flight[i]
      t == Received(tab, i, a)
  IN  IF a.status \in {"ok", "garbled"} /\ r.what \in {"login", "signup", "verify"}
      THEN LET in == applyAuth(t, a) IN
           Becomes(IF r.what = "login" THEN Send(in, "check", NoArg, r.heard)
                   ELSE AuthAnswered(in, r, a))
      ELSE Becomes(AuthAnswered(t, r, a))

(* The token just got works, and the user is brought to "/"; or it does    *)
(* not work here and is dropped again.                                     *)
CheckEnds(i, a) ==
  LET r    == tab.flight[i]
      t    == Received(tab, i, a)
      rest == IF r.heard THEN [t EXCEPT !.auth.busy = @ \ {"submit"}] ELSE t
  IN  Becomes(IF a.user = None THEN saveSessionToken(rest, None)
              ELSE IF Screen(t) = "app" /\ t.view.page # "dashboard" THEN OpenPage(rest, "dashboard")
              ELSE rest)

(* The end of a refresh; a later one has taken the turn of one not heard.  *)
Refreshed(i, a) ==
  LET r == tab.flight[i]
      t == Received(tab, i, a)
  IN  IF r.heard THEN [t EXCEPT !.user = a.user, !.booting = FALSE] ELSE t

logout ==
  /\ Screen(tab) = "app"
  /\ Spend("signs")
  /\ tab' = Send(tab, "logout", NoArg, TRUE)
  /\ UNCHANGED server

(* The token goes whatever the server said, then the page is loaded anew.  *)
LogoutEnds(i, a) ==
  tab' = Reloaded([saveSessionToken(Received(tab, i, a), None) EXCEPT !.address = "dashboard"])

----------------------------------------------------------------------------
(* The server's side (server/routes/auth.js).                              *)
Me(token) == [Answer("ok") EXCEPT !.user = IF Valid(token) THEN token.user ELSE None]

AuthAnswers(r) ==
  CASE r.what \in {"refresh", "check"}  -> {Me(r.token)}
    [] r.what \in {"login", "signup"}   -> {SessionFor(u) : u \in Users}
                                             \cup {Answer("refused"), Answer("verify")}
    [] r.what = "verify"                -> {SessionFor(u) : u \in Users} \cup {Answer("refused")}
    [] r.what \in {"resend", "change"}  -> {Answer("ok"), Answer("early"), Answer("refused")}
    [] r.what = "logout"                -> {Answer("ok")}

AuthRequests == {"refresh", "check", "login", "signup", "verify", "resend", "change", "logout"}

ServeAuth(i) ==
  LET r == tab.flight[i] IN
  /\ r.at = "sent" /\ r.what \in AuthRequests
  /\ \E a \in AuthAnswers(r) : Answered(i, a)
  /\ UNCHANGED <<server, left>>

SessionClick ==
  \/ \E what \in {"login", "signup", "verify", "resend", "change"} : Press(what)
  \/ SwitchMode \/ ToggleChange \/ logout \/ Reload

----------------------------------------------------------------------------
(* Everything speaks for one user: the token held and the cookie, a        *)
(* refresh whose answer will be shown, and the user shown if none is       *)
(* under way.                                                              *)
Asks(r) == r.what = "refresh" /\ r.heard
Asked(t) == \E i \in DOMAIN t.flight : Asks(t.flight[i])

AgreeOn(t, u) ==
  /\ t.cookie # None => t.cookie.user = u
  /\ \A i \in DOMAIN t.flight :
       Asks(t.flight[i]) /\ t.flight[i].token # None => t.flight[i].token.user = u
  /\ Asked(t) \/ t.user \in {None, u}

Agree == Carried(tab) # None => AgreeOn(tab, Carried(tab).user)
=============================================================================
