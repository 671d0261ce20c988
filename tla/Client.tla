------------------------------- MODULE Client -------------------------------
(* One tab of the browser and the server it talks to: the session, the     *)
(* pages and the support window share the token, the routes and the list   *)
(* of requests under way.                                                  *)
EXTENDS Pages, Chat

CONSTANTS
  Starts       \* what the behaviours begin with: a tab, and the bounds (left) of
               \* clicks on a page, questions to support, uses of the menu, steps
               \* of signing in and out; of answers that get lost, come cut short
               \* or hang; of sessions ended elsewhere

(* The data a page shows, and the answers: None and Bare are no such       *)
(* values.                                                                 *)
RowStates == {"active", "archived", "gone", "hidden"}
PageData  == [of: Terms, upto: Nat, row: [Items -> RowStates], edits: Nat]
Statuses  == {"ok", "refused", "early", "verify", "unauth"}
Answers   == [status: Statuses, user: Users \cup {None}, token: Tokens \cup {None},
              data: {None} \cup BOOLEAN \cup PageData]

ASSUME NoneAssumption ==
  /\ None \notin PageNames \cup RowStates \cup Tokens \cup PageData \cup Answers
  /\ Bare \notin PageData

(* The window for the price of a product, open on the estimate.            *)
PricesOpen(token, p) ==
  [Loaded(token, token, "estimate") EXCEPT
     !.user = token.user, !.booting = FALSE, !.flight = <<>>,
     !.view = [FreshView("estimate") EXCEPT
                 !.data = [of |-> "", upto |-> 1, row |-> [q \in Items |-> "active"], edits |-> 0],
                 !.modal = [kind |-> "price", row |-> p]]]

(* A tab begins as the browser loads it, or with this window open, which   *)
(* shortens the behaviours.                                                *)
ASSUME StartsAssumption ==
  \A s \in Starts :
    LET t == s.tab IN
    /\ {t.stored, t.cookie} \subseteq {None} \cup Tokens /\ (CanStore \/ t.stored = None)
    /\ \/ t.address \in PageNames /\ t = Loaded(t.stored, t.cookie, t.address)
       \/ t.stored # None /\ \E p \in Items : t = PricesOpen(t.stored, p)

vars == <<server, tab, left>>

Init ==
  /\ server = [epoch |-> [u \in Users |-> 0], row |-> [p \in Items |-> "active"], edits |-> 0]
  /\ \E s \in Starts : tab = s.tab /\ left = s.left

Requests == DOMAIN tab.flight

Serve(i) == ServeAuth(i) \/ ServePage(i) \/ ServeChat(i)

(* Request i ends, and the handler that awaits it goes on.                 *)
End(i) ==
  LET what == tab.flight[i].what IN
  \E a \in Endings(i) :
    /\ Spends(a)
    /\ UNCHANGED server
    /\ \/ what = "refresh"                     /\ RefreshEnds(i, a)
       \/ what = "check"                       /\ CheckEnds(i, a)
       \/ what = "logout"                      /\ LogoutEnds(i, a)
       \/ what \in {"login", "signup", "verify", "resend", "change"} /\ FormEnds(i, a)
       \/ what \in {"status", "chat"}          /\ ChatEnds(i, a)
       \/ PageEnds(i, a)

Net == \E i \in Requests : Serve(i) \/ (tab.flight[i].at # "hung" /\ End(i))
LateBody == \E i \in Requests : tab.flight[i].at = "hung" /\ End(i)
Timers == Debounced \/ typeOut

Next ==
  \/ Net \/ LateBody \/ Timers \/ CountedDown
  \/ \E i \in Requests : Hang(i)
  \/ \E u \in Users : SessionEnds(u)
  \/ SessionClick \/ PageClick
  \/ \E yes \in BOOLEAN : Confirm(yes)
  \/ OpenChat \/ CloseChat \/ ask \/ clearChat

(* The server answers or the timer of the request ends it; timers run.     *)
(* Nothing obliges the body of an answer to come once its headers have.    *)
Fairness == WF_vars(Net) /\ WF_vars(Timers)

Spec == Init /\ [][Next]_vars /\ Fairness

----------------------------------------------------------------------------
TypeOK ==
  /\ {tab.memory, tab.stored, tab.cookie} \subseteq {None} \cup Tokens
  /\ tab.user \in Users \cup {None}
  /\ tab.booting \in BOOLEAN /\ tab.count \in Nat
  /\ (tab.auth.mode = "closed" <=> Screen(tab) # "login")
  /\ (tab.view.page = None <=> Screen(tab) # "app")
  /\ tab.view.data \in {None, Bare} \cup PageData
  /\ (tab.view.data = Bare => tab.view.page \in Lenient)
  /\ \A i \in Requests :
       LET r == tab.flight[i] IN
       /\ r.at \in {"sent", "served", "hung"} /\ r.heard \in BOOLEAN
       /\ (r.at = "sent" <=> r.answer = None)
       /\ r.answer # None => r.answer.status \in Statuses
  /\ server.row \in [Items -> {"active", "archived", "gone"}] /\ server.edits \in Nat

(* The user whose name is on the page is the one the requests speak for,   *)
(* whatever answers of earlier sessions come late: only the late answer to *)
(* a change of password brings a token back that is not the tab's any more *)
(* (AppContext.jsx:46-69, :117-128, api.js:142).                           *)
LatePassword ==
  \E i \in Requests :
    LET r == tab.flight[i] IN
    /\ r.what = "password" /\ r.answer # None /\ r.answer.status = "ok"
    /\ tab'.cookie = r.answer.token
    /\ Carried(tab) = None \/ Carried(tab).user # r.token.user

ShownIsSender == [][Agree /\ ~Agree' => LatePassword]_vars

(* The answer to an older request does not overwrite a newer state         *)
(* (AppContext.jsx:46-48): once a refused request has signed the user out, *)
(* no answer that shows the user is still on its way to a refresh.         *)
Refused == tab.user # None /\ tab'.user = None /\ Held(tab) # None /\ Held(tab)' = None /\ ~tab'.booting

OldRefreshIgnored ==
  [][Refused => \A i \in Requests' :
       LET r == tab'.flight[i] IN
       r.what = "refresh" /\ r.heard /\ r.answer # None => r.answer.user = None]_vars

(* Once a search is done, what is shown was found for the term in the      *)
(* field, however the answers to the terms typed before it come            *)
(* (SearchPage.jsx:31-50).                                                 *)
SearchShowsTerm ==
  LET v == tab.view IN
  v.page = "search" /\ ~v.loading /\ v.data # None => v.data.of = v.of

(* A page that has its answers shows what the server has, whatever failed  *)
(* on the way, as long as no two answers crossed: rows taken out at once   *)
(* come back if the server refused (Purchases.jsx:83-99,                   *)
(* SupplierDetail.jsx:74-119), every change is followed by a load or       *)
(* answered with the page, and a page opened again after an answer cut     *)
(* short asks anew (ErrorBoundary.jsx:48).  Not said: of a page that shows *)
(* such an answer, as none (api.js:128, Suppliers.jsx:25); of the counter, *)
(* except on the two pages whose loads set it.                             *)
PagesAgree == AtRest(tab) => Agrees(tab)

(* No button stays disabled, the first screen gives way and a search for a *)
(* term ends, unless the body of an answer never comes: these flags are    *)
(* released, whatever fails.  Not said: of the search's flag once the term *)
(* is too short to search for (SearchPage.jsx:33-36 leaves it as it is),   *)
(* of a page whose first load failed.                                      *)
Searching == tab.view.page = "search" /\ tab.view.loading /\ tab.view.of \in Long

Busy == \/ tab.auth.busy # {} \/ tab.view.busy # {} \/ tab.chat.busy \/ tab.chat.typing
        \/ tab.booting \/ Searching
Hung == \E i \in Requests : tab.flight[i].at = "hung"

BusyEnds == Busy ~> (~Busy \/ Hung)
=============================================================================
