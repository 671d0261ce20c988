------------------------------- MODULE ClientProofs -------------------------------
(***************************************************************************)
(* The tab of the browser, for any users, products, terms and pages of the *)
(* menu, and however many requests are under way: its types, a search that *)
(* shows what the field says, a page that shows what the server has once   *)
(* its answers are in, and the user shown being the one spoken for.        *)
(*                                                                         *)
(* The invariant, Inv, is made of three parts.  Core says what the fields  *)
(* of the tab and of each request are, and that a request still heard is   *)
(* of the page and the form that are there (HeardOK).  Mounted says that   *)
(* the routes show what the user and the boot flag say.  PagesOK is the    *)
(* reason why pages agree with the server: on a page whose answers never   *)
(* crossed, requests take turns (TurnsOK), and what is shown is the        *)
(* server's state (Matches) unless a request under way excuses it          *)
(* (Excuses): a load that will replace it, a change the server has made    *)
(* and the page will hear of, a row shown ahead of the server.  A page     *)
(* that shows an answer without fields (Bare) matches nothing, and one     *)
(* that such an answer has taken down counts as crossed.                   *)
(*                                                                         *)
(* A stretch of the code is a chain of functions from tab to tab.  Each    *)
(* has a lemma: what it keeps mounted (Keeps), that it keeps pages right   *)
(* (PagesToo) and that it parts nobody from who speaks for him (Calm).     *)
(* The stretches are put together from these, and rendering (RenderedOK)   *)
(* ends each of them.                                                      *)
(***************************************************************************)
EXTENDS Client, FiniteSetTheorems, SequenceTheorems, TLAPS

----------------------------------------------------------------------------
(* The handlers of the pages.                                              *)

Tokens0  == Tokens \cup {None}
Users0   == Users \cup {None}
Pages0   == PageNames \cup {None}
Items0   == Items \cup {None}
Data0    == PageData \cup {None}
DataV    == Data0 \cup {Bare}
Forms    == {"login", "signup", "verify", "resend", "change"}
Kinds    == AuthRequests \cup {"status", "chat", "load", "search"} \cup Handlers
PageKinds == Handlers \cup {"load", "search"}
Loads    == {"load", "loadAll", "loadThen"}
Calls    == Loads \cup {"refresh", "refreshThen", "close"}
Seen     == Loading \cup {"admin"}
Hiding   == {"purchasesArchive", "supplierArchive", "supplierUnarchive"}

LoadsIn(calls) == \E k \in DOMAIN calls : calls[k] \in Loads
CallsOK(calls) == DOMAIN calls \subseteq 1..3 /\ \A k \in DOMAIN calls : calls[k] \in Calls

(* What the invariant relies on in a handler: which pages have it, that a  *)
(* change is followed by a load or answered with the page, and what is     *)
(* shown before the answer comes.                                          *)
HandlerOK(what, h) ==
  /\ CallsOK(h.ok) /\ CallsOK(h.err)
  /\ h.on \subseteq PageNames \ {"search"}
  /\ h.gives => h.on = {"estimate"} /\ h.does = "edit"
  /\ LoadsIn(h.ok) \/ LoadsIn(h.err) => h.on \subseteq Seen
  /\ h.does # "none" /\ ~h.gives /\ h.on \cap Seen # {} /\ what # "purchasesArchive"
       => LoadsIn(h.ok)
  /\ LoadsIn(h.ok) => "estimate" \notin h.on
  /\ LoadsIn(h.err) /\ "estimate" \in h.on => h.gives
  /\ \A k \in DOMAIN h.err : h.err[k] # "loadAll"
  /\ h.shows # None <=> what \in Hiding
  /\ what \in Hiding => ~h.asks /\ ~h.gives /\ LoadsIn(h.err) /\ h.from # {}
       /\ h.shows \in RowStates /\ h.window = "" /\ h.does # "none"
  /\ what \in Hiding \ {"purchasesArchive"} => h.on = {"supplier"}
  /\ what = "purchasesArchive" =>
       h.on = {"purchases"} /\ h.from = {"active"} /\ h.shows = "archived" /\ h.does = "archived"
  /\ h.does \in {"archived", "active", "gone"} => h.on \subseteq {"purchases", "supplier"}

(* The lists of calls there are.                                           *)
LEMMA CallLists ==
  /\ CallsOK(<<"load", "refresh", "close">>) /\ LoadsIn(<<"load", "refresh", "close">>)
  /\ CallsOK(<<"load", "refresh">>) /\ LoadsIn(<<"load", "refresh">>)
  /\ CallsOK(<<"load">>) /\ LoadsIn(<<"load">>)
  /\ CallsOK(<<"loadAll", "close">>) /\ LoadsIn(<<"loadAll", "close">>)
  /\ CallsOK(<<"loadAll">>) /\ LoadsIn(<<"loadAll">>)
  /\ CallsOK(<<"loadThen">>) /\ LoadsIn(<<"loadThen">>)
  /\ CallsOK(<<"refresh">>) /\ ~LoadsIn(<<"refresh">>)
  /\ CallsOK(<<"refreshThen">>) /\ ~LoadsIn(<<"refreshThen">>)
  /\ CallsOK(<<>>) /\ ~LoadsIn(<<>>)
BY DEF CallsOK, LoadsIn, Calls, Loads

(* A handler that shows nothing before it is answered; one whose answer is *)
(* the page.                                                               *)
Plain(h, on, does, ok) ==
  h.shows = None /\ ~h.gives /\ h.err = <<>> /\ h.on = on /\ h.does = does /\ h.ok = ok

Giving(h, err) ==
  /\ h.shows = None /\ h.gives /\ h.err = err
  /\ h.on = {"estimate"} /\ h.does = "edit" /\ h.ok = <<>>

(* What the handlers are, by their fields.                                 *)
LEMMA Fields ==
  /\ Plain(purchasesRemove, {"purchases"}, "gone", <<"load", "refresh">>)
  /\ Plain(supplierRemove, {"supplier"}, "gone", <<"load", "refresh">>)
  /\ Plain(deleteArchiveGroup, {"supplier"}, "group", <<"load", "refresh">>)
  /\ Plain(suppliersRemove, {"suppliers"}, "edit", <<"load", "refresh">>)
  /\ Plain(saveProduct, {"purchases", "supplier"}, "edit", <<"load", "refresh", "close">>)
  /\ Plain(checkDuplicate, {"purchases", "supplier"}, "none", <<>>)
  /\ Plain(saveSupplier, {"suppliers"}, "edit", <<"load", "refresh", "close">>)
  /\ Plain(submitQuick, {"dashboard"}, "edit", <<"load", "refresh">>)
  /\ Giving(saveBudget, <<>>)
  /\ Giving(saveItemField, <<"load">>)
  /\ Giving(clearPrice, <<"load">>)
  /\ Giving(moveToNext, <<>>)
  /\ Giving(restoreFromNext, <<>>)
  /\ Giving(trimToBudget, <<>>)
  /\ Plain(priceSearch, {"estimate"}, "none", <<>>)
  /\ Plain(profile, {"account"}, "edit", <<"loadThen">>)
  /\ Plain(password, {"account"}, "session", <<"loadThen">>)
  /\ Plain(newToken, {"account"}, "edit", <<"loadThen">>)
  /\ Plain(share, {"account"}, "edit", <<"loadThen">>)
  /\ Plain(unshare, {"account"}, "edit", <<"loadThen">>)
  /\ Plain(leave, {"account"}, "edit", <<"loadThen">>)
  /\ Plain(activate, {"license"}, "edit", <<"refreshThen">>)
  /\ Plain(sendFile, {"import"}, "edit", <<"refresh">>)
  /\ Plain(removeUser, {"admin"}, "edit", <<"loadAll">>)
  /\ Plain(saveUser, {"admin"}, "edit", <<"loadAll", "close">>)
  /\ Plain(grant, {"admin"}, "edit", <<"loadAll", "close">>)
  /\ Plain(revoke, {"admin"}, "edit", <<"loadAll", "close">>)
  /\ Plain(generate, {"admin"}, "none", <<>>)
BY DEF Plain, Giving, Handler, OnEstimate, action, purchasesRemove,
       supplierRemove, deleteArchiveGroup, suppliersRemove, saveProduct,
       checkDuplicate, saveSupplier, submitQuick, saveBudget, saveItemField,
       clearPrice, moveToNext, restoreFromNext, trimToBudget, priceSearch,
       profile, password, newToken, share, unshare, leave, activate, sendFile,
       removeUser, saveUser, grant, revoke, generate, purchasesArchive

(* Those that show nothing at once and are not answered with the page.     *)
LEMMA PlainIsOK ==
  ASSUME NEW what, what \notin Hiding, NEW h, NEW on, NEW does, NEW ok, Plain(h, on, does, ok),
         CallsOK(ok), on \subseteq PageNames \ {"search"}, LoadsIn(ok) => on \subseteq Seen,
         LoadsIn(ok) => "estimate" \notin on,
         does = "none" \/ LoadsIn(ok) \/ on \cap Seen = {},
         does \in {"none", "edit", "group", "session"} \/ on \subseteq {"purchases", "supplier"}
  PROVE  HandlerOK(what, h)
<1>6. \A k \in DOMAIN h.err : h.err[k] # "loadAll"
  BY DEF Plain
<1>1. /\ h.shows = None /\ ~h.gives /\ CallsOK(h.ok) /\ CallsOK(h.err) /\ ~LoadsIn(h.err)
      /\ h.on = on /\ h.does = does /\ h.ok = ok
  BY CallLists DEF Plain
<1>5. what # "purchasesArchive" BY DEF Hiding
<1>2. h.does \in {"archived", "active", "gone"} => h.on \subseteq {"purchases", "supplier"}
  BY <1>1
<1>3. h.does # "none" /\ h.on \cap Seen # {} => LoadsIn(h.ok)
  BY <1>1
<1>4. /\ h.on \subseteq PageNames \ {"search"} /\ (LoadsIn(h.ok) => h.on \subseteq Seen)
      /\ LoadsIn(h.ok) => "estimate" \notin h.on
  BY <1>1
<1> QED BY <1>1, <1>2, <1>3, <1>4, <1>5, <1>6 DEF HandlerOK

(* A handler whose answer is the page.                                     *)
LEMMA GivingIsOK ==
  ASSUME NEW what, what \notin Hiding, NEW h, NEW err \in {<<>>, <<"load">>}, Giving(h, err)
  PROVE  HandlerOK(what, h)
BY CallLists DEF Giving, HandlerOK, Hiding, Seen, Loading, PageNames

(* Every handler is such that the invariant can rely on it.                *)
LEMMA HandlerTable == \A w \in Handlers : HandlerOK(w, HandlerOf[w])
<1>1. HandlerOK("purchasesArchive", purchasesArchive)
  BY CallLists, NoneAssumption DEF HandlerOK, purchasesArchive, Handler, Seen, Loading,
      PageNames, Hiding, RowStates
<1>p0. HandlerOK("purchasesRemove", purchasesRemove)
  BY Fields, CallLists, PlainIsOK DEF Hiding, Seen, Loading, PageNames
<1>p1. HandlerOK("supplierRemove", supplierRemove)
  BY Fields, CallLists, PlainIsOK DEF Hiding, Seen, Loading, PageNames
<1>p2. HandlerOK("deleteArchiveGroup", deleteArchiveGroup)
  BY Fields, CallLists, PlainIsOK DEF Hiding, Seen, Loading, PageNames
<1>p3. HandlerOK("suppliersRemove", suppliersRemove)
  BY Fields, CallLists, PlainIsOK DEF Hiding, Seen, Loading, PageNames
<1>p4. HandlerOK("saveProduct", saveProduct)
  BY Fields, CallLists, PlainIsOK DEF Hiding, Seen, Loading, PageNames
<1>p5. HandlerOK("checkDuplicate", checkDuplicate)
  BY Fields, CallLists, PlainIsOK DEF Hiding, Seen, Loading, PageNames
<1>p6. HandlerOK("saveSupplier", saveSupplier)
  BY Fields, CallLists, PlainIsOK DEF Hiding, Seen, Loading, PageNames
<1>p7. HandlerOK("submitQuick", submitQuick)
  BY Fields, CallLists, PlainIsOK DEF Hiding, Seen, Loading, PageNames
<1>p8. HandlerOK("priceSearch", priceSearch)
  BY Fields, CallLists, PlainIsOK DEF Hiding, Seen, Loading, PageNames
<1>p9. HandlerOK("profile", profile)
  BY Fields, CallLists, PlainIsOK DEF Hiding, Seen, Loading, PageNames
<1>p10. HandlerOK("password", password)
  BY Fields, CallLists, PlainIsOK DEF Hiding, Seen, Loading, PageNames
<1>p11. HandlerOK("newToken", newToken)
  BY Fields, CallLists, PlainIsOK DEF Hiding, Seen, Loading, PageNames
<1>p12. HandlerOK("share", share)
  BY Fields, CallLists, PlainIsOK DEF Hiding, Seen, Loading, PageNames
<1>p13. HandlerOK("unshare", unshare)
  BY Fields, CallLists, PlainIsOK DEF Hiding, Seen, Loading, PageNames
<1>p14. HandlerOK("leave", leave)
  BY Fields, CallLists, PlainIsOK DEF Hiding, Seen, Loading, PageNames
<1>p15. HandlerOK("activate", activate)
  BY Fields, CallLists, PlainIsOK DEF Hiding, Seen, Loading, PageNames
<1>p16. HandlerOK("sendFile", sendFile)
  BY Fields, CallLists, PlainIsOK DEF Hiding, Seen, Loading, PageNames
<1>p17. HandlerOK("removeUser", removeUser)
  BY Fields, CallLists, PlainIsOK DEF Hiding, Seen, Loading, PageNames
<1>p18. HandlerOK("saveUser", saveUser)
  BY Fields, CallLists, PlainIsOK DEF Hiding, Seen, Loading, PageNames
<1>p19. HandlerOK("grant", grant)
  BY Fields, CallLists, PlainIsOK DEF Hiding, Seen, Loading, PageNames
<1>p20. HandlerOK("revoke", revoke)
  BY Fields, CallLists, PlainIsOK DEF Hiding, Seen, Loading, PageNames
<1>p21. HandlerOK("generate", generate)
  BY Fields, CallLists, PlainIsOK DEF Hiding, Seen, Loading, PageNames
<1>g0. HandlerOK("saveBudget", saveBudget)
  BY Fields, CallLists, GivingIsOK DEF Hiding
<1>g1. HandlerOK("saveItemField", saveItemField)
  BY Fields, CallLists, GivingIsOK DEF Hiding
<1>g2. HandlerOK("clearPrice", clearPrice)
  BY Fields, CallLists, GivingIsOK DEF Hiding
<1>g3. HandlerOK("moveToNext", moveToNext)
  BY Fields, CallLists, GivingIsOK DEF Hiding
<1>g4. HandlerOK("restoreFromNext", restoreFromNext)
  BY Fields, CallLists, GivingIsOK DEF Hiding
<1>g5. HandlerOK("trimToBudget", trimToBudget)
  BY Fields, CallLists, GivingIsOK DEF Hiding
<1>s1. HandlerOK("supplierArchive", supplierArchive)
  BY CallLists, NoneAssumption DEF HandlerOK, supplierArchive, purchasesArchive, Handler, Seen,
      Loading, PageNames, Hiding, RowStates
<1>s2. HandlerOK("supplierUnarchive", supplierUnarchive)
  BY CallLists, NoneAssumption DEF HandlerOK, supplierUnarchive, supplierArchive,
      purchasesArchive, Handler, Seen, Loading, PageNames, Hiding, RowStates
<1> QED
  BY <1>1, <1>s1, <1>s2, <1>p0, <1>p1, <1>p2, <1>p3, <1>p4, <1>p5, <1>p6, <1>p7, <1>p8, <1>p9,
      <1>p10, <1>p11, <1>p12, <1>p13, <1>p14, <1>p15, <1>p16, <1>p17, <1>p18, <1>p19, <1>p20,
      <1>p21, <1>g0, <1>g1, <1>g2, <1>g3, <1>g4, <1>g5 DEF Handlers, HandlerOf

----------------------------------------------------------------------------
(* What is known of a tab: its fields, its requests, its answers.          *)

Args == [page: Pages0, row: Items0, of: Terms, upto: Nat, then: Handlers \cup {None, "more"}]
Reqs == [what: Kinds, arg: Args, token: Tokens0, at: {"sent", "served", "hung"},
         answer: Answers \cup {None}, heard: BOOLEAN]

Signs == {"login", "signup", "verify"}

(* What the answers of the server are like.                                *)
AnsOK(r) ==
  LET a == r.answer IN
  /\ r.at = "sent" <=> a = None
  /\ a # None =>
       /\ r.what \in {"refresh", "check"} =>
            /\ a.status = "ok" /\ a.token = None
            /\ a.user # None => r.token # None /\ a.user = r.token.user
       /\ r.what \in Signs /\ a.status = "ok" => a.token # None /\ a.user = a.token.user
       /\ r.what = "password" /\ a.status = "ok" =>
            a.token # None /\ r.token # None /\ a.token.user = r.token.user
       /\ r.what \notin Signs \cup {"password"} \/ a.status # "ok" => a.token = None
       /\ r.what \in PageKinds => a.data \in Data0 /\ (a.data # None => a.data.of = r.arg.of)
       /\ Gives(r.what) => (a.status = "ok" <=> a.data # None)
       /\ a.status = "unauth" => r.what \in PageKinds \cup {"status", "chat"}

(* A request still heard is of the page and of the form that are there.    *)
HeardOK(r, page, of, mode) ==
  r.heard =>
    /\ r.what = "search" => page = "search" /\ r.arg.of = of
    /\ r.what = "load" => page \in Seen /\ r.arg.page = page
    /\ r.what \in Handlers => page \in HandlerOf[r.what].on /\ r.arg.page = page
    /\ r.what \in Forms => mode # "closed"

(* The requests under way.                                                 *)
FlightOK(f, page, of, mode) ==
  f \in Seq(Reqs) /\ \A i \in DOMAIN f : AnsOK(f[i]) /\ HeardOK(f[i], page, of, mode)

(* A record of these fields.                                               *)
Record(r, fields) == r = [x \in fields |-> r[x]]

(* The fields of the records.                                              *)
TabFields == {"memory", "stored", "cookie", "user", "booting", "count", "flight", "auth",
              "view", "chat", "dialog", "kept", "address"}
AuthFields   == {"mode", "busy", "waits", "changes"}
ChatFields   == {"open", "enabled", "busy", "typing", "error", "log"}
ViewFields   == {"page", "of", "data", "wait", "loading", "busy", "modal", "found", "error",
                "crossed"}
DialogFields == {"what", "page", "row", "of", "heard"}

Shape(t)     == Record(t, TabFields)
AuthShape(a) == Record(a, AuthFields)
ChatShape(c) == Record(c, ChatFields)
ViewShape(v) == Record(v, ViewFields)

(* The page that is there, and what it shows.                              *)
ViewOK(v) ==
  /\ ViewShape(v)
  /\ v.page \in Pages0 /\ v.of \in Terms /\ v.data \in DataV
  /\ v.data = Bare => v.page \in Lenient
  /\ v.wait \in BOOLEAN /\ v.loading \in BOOLEAN /\ v.crossed \in BOOLEAN
  /\ v.wait => v.page \in {"search", "admin"}
  /\ v.modal # None => v.modal.row \in Items0 /\ (v.modal.kind = "price" => v.page = "estimate")
  /\ v.page = "search" /\ ~v.loading /\ v.data # None => v.data.of = v.of

(* The question asked before a request, of the page that is there or of    *)
(* another.                                                                *)
DialogOK(d, page) ==
  d # None =>
    /\ Record(d, DialogFields)
    /\ d.what \in Handlers /\ HandlerOf[d.what].asks
    /\ d.page \in Pages0 /\ d.row \in Items0 /\ d.of \in Terms /\ d.heard \in BOOLEAN
    /\ d.heard => d.page = page /\ page \in HandlerOf[d.what].on

(* The token in memory and the stored one: without a store a token lives   *)
(* in memory only.                                                         *)
TokensOK(t) ==
  /\ t.memory \in Tokens0 /\ t.stored \in Tokens0 /\ t.cookie \in Tokens0
  /\ IF CanStore THEN t.memory \in {None, t.stored} ELSE t.stored = None

(* A tab, apart from what is mounted and what its page shows.              *)
Core(t) ==
  /\ Shape(t) /\ AuthShape(t.auth) /\ ChatShape(t.chat) /\ TokensOK(t)
  /\ t.user \in Users0 /\ t.booting \in BOOLEAN /\ t.count \in Nat /\ t.address \in PageNames
  /\ ViewOK(t.view) /\ DialogOK(t.dialog, t.view.page)
  /\ FlightOK(t.flight, t.view.page, t.view.of, t.auth.mode)

(* The sign-in page and a page are there when the routes say so.           *)
Mounted(t, screen) ==
  (t.auth.mode = "closed" <=> screen # "login") /\ (t.view.page = None <=> screen # "app")

(* A sequence with one more request.                                       *)
LEMMA Appended ==
  ASSUME NEW f \in Seq(Reqs), NEW r \in Reqs
  PROVE  /\ Append(f, r) \in Seq(Reqs) /\ DOMAIN f = 1..Len(f)
         /\ DOMAIN Append(f, r) = DOMAIN f \cup {Len(f) + 1} /\ Len(f) + 1 \notin DOMAIN f
         /\ \A i \in DOMAIN f : Append(f, r)[i] = f[i] /\ f[i] \in Reqs
         /\ Append(f, r)[Len(f) + 1] = r
BY AppendProperties

(* The k-th of the requests that are left.                                 *)
Without(f, i, k) == IF k < i THEN f[k] ELSE f[k + 1]

(* A sequence without its i-th request: those after it move down by one.   *)
LEMMA Removed ==
  ASSUME NEW f \in Seq(Reqs), NEW i \in DOMAIN f
  PROVE  /\ RemoveAt(f, i) \in Seq(Reqs)
         /\ DOMAIN RemoveAt(f, i) = 1..(Len(f) - 1) /\ DOMAIN f = 1..Len(f)
         /\ \A k \in DOMAIN RemoveAt(f, i) : RemoveAt(f, i)[k] = Without(f, i, k)
<1> DEFINE x == SubSeq(f, 1, i - 1)
           y == SubSeq(f, i + 1, Len(f))
           n == Len(f)
<1>1. n \in Nat /\ i \in 1..n /\ DOMAIN f = 1..n /\ \A k \in 1..n : f[k] \in Reqs
  OBVIOUS
<1>2. x \in Seq(Reqs) /\ Len(x) = i - 1 /\ \A k \in 1..(i - 1) : x[k] = f[k]
  BY <1>1, SubSeqProperties
<1>3. y \in Seq(Reqs) /\ Len(y) = n - i /\ \A k \in 1..(n - i) : y[k] = f[i + k]
  BY <1>1, SubSeqProperties
<1>4. RemoveAt(f, i) = x \o y
  BY DEF RemoveAt
<1> HIDE DEF x, y, n
<1>5. /\ x \o y \in Seq(Reqs) /\ Len(x \o y) = Len(x) + Len(y)
      /\ \A k \in 1..(Len(x) + Len(y)) : (x \o y)[k] = IF k <= Len(x) THEN x[k] ELSE y[k - Len(x)]
  BY <1>2, <1>3, ConcatProperties
<1>6. Len(x) + Len(y) = n - 1
  BY <1>1, <1>2, <1>3
<1>7. \A k \in 1..(n - 1) : (x \o y)[k] = Without(f, i, k)
  <2> TAKE k \in 1..(n - 1)
  <2>0. (x \o y)[k] = IF k <= Len(x) THEN x[k] ELSE y[k - Len(x)]
    BY <1>5, <1>6
  <2>1. CASE k < i
    <3>1. k \in 1..(i - 1) /\ k <= Len(x) BY <2>1, <1>1, <1>2
    <3> QED BY <2>0, <3>1, <1>2, <2>1 DEF Without
  <2>2. CASE ~(k < i)
    <3>1. k - (i - 1) \in 1..(n - i) /\ i + (k - (i - 1)) = k + 1 /\ ~(k <= Len(x))
      BY <2>2, <1>1, <1>2
    <3>2. y[k - (i - 1)] = f[k + 1] BY <3>1, <1>3
    <3> QED BY <2>0, <3>1, <3>2, <2>2, <1>2 DEF Without
  <2> QED BY <2>1, <2>2
<1>8. Len(x \o y) = n - 1 /\ DOMAIN (x \o y) = 1..Len(x \o y)
  BY <1>5, <1>6
<1> QED BY <1>1, <1>4, <1>5, <1>7, <1>8 DEF n

----------------------------------------------------------------------------
(* Sending and unhearing requests.                                         *)

(* Only the requests change.                                               *)
OnlyFlight(t, u) ==
  /\ Shape(u)
  /\ u.memory = t.memory /\ u.stored = t.stored /\ u.cookie = t.cookie
  /\ u.user = t.user /\ u.booting = t.booting /\ u.count = t.count
  /\ u.auth = t.auth /\ u.view = t.view /\ u.chat = t.chat /\ u.dialog = t.dialog
  /\ u.kept = t.kept /\ u.address = t.address

(* The same requests, those of some kinds unheard.                         *)
Dims(f, g, kinds) ==
  /\ g \in Seq(Reqs) /\ DOMAIN g = DOMAIN f /\ Len(g) = Len(f)
  /\ \A i \in DOMAIN f :
       /\ g[i].what = f[i].what /\ g[i].arg = f[i].arg /\ g[i].token = f[i].token
       /\ g[i].at = f[i].at /\ g[i].answer = f[i].answer
       /\ g[i].heard <=> f[i].heard /\ f[i].what \notin kinds

(* Replacing the requests replaces nothing else.                           *)
LEMMA WithFlight ==
  ASSUME NEW t, Shape(t), NEW f
  PROVE  OnlyFlight(t, [t EXCEPT !.flight = f]) /\ [t EXCEPT !.flight = f].flight = f
BY DEF Shape, Record, TabFields, OnlyFlight

(* What is known of a tab depends on the requests only through FlightOK.   *)
LEMMA FlightStep ==
  ASSUME NEW t, Core(t), NEW u, OnlyFlight(t, u),
      FlightOK(u.flight, t.view.page, t.view.of, t.auth.mode)
  PROVE  Core(u)
BY DEF Core, OnlyFlight, TokensOK

(* Sending appends a request and changes nothing else.                     *)
LEMMA SendIs ==
  ASSUME NEW t, Shape(t), NEW what, NEW arg, NEW heard
  PROVE  /\ OnlyFlight(t, Send(t, what, arg, heard))
         /\ Send(t, what, arg, heard).flight = Append(t.flight, Request(t, what, arg, heard))
BY WithFlight DEF Send

(* A request as it leaves the tab.                                         *)
Sent(r, what, arg, token, heard) ==
  /\ r.what = what /\ r.arg = arg /\ r.token = token /\ r.at = "sent" /\ r.answer = None
  /\ r.heard <=> heard

(* A request as it is sent, its answer still to come.                      *)
LEMMA RequestIs ==
  ASSUME NEW t, TokensOK(t), NEW what \in Kinds, NEW arg \in Args, NEW heard \in BOOLEAN
  PROVE  /\ Request(t, what, arg, heard) \in Reqs /\ AnsOK(Request(t, what, arg, heard))
         /\ Sent(Request(t, what, arg, heard), what, arg, Carried(t), heard)
<1>1. Carried(t) \in Tokens0
  BY DEF TokensOK, Carried, Held
<1> QED BY <1>1 DEF Request, Reqs, AnsOK, Sent

(* Deafening unhears the requests of some kinds and changes nothing else.  *)
LEMMA DeafenIs ==
  ASSUME NEW t, Shape(t), t.flight \in Seq(Reqs), NEW kinds
  PROVE  OnlyFlight(t, Deafen(t, kinds)) /\ Dims(t.flight, Deafen(t, kinds).flight, kinds)
<1> DEFINE f == t.flight
           g == [i \in DOMAIN t.flight |-> Unheard(t.flight[i], kinds)]
<1>1. Deafen(t, kinds) = [t EXCEPT !.flight = g]
  BY DEF Deafen
<1> USE DEF Unheard
<1>2. DOMAIN f = 1..Len(f) /\ Len(f) \in Nat /\ \A i \in DOMAIN f : f[i] \in Reqs
  OBVIOUS
<1>3. \A i \in DOMAIN f : g[i] \in Reqs
  BY <1>2 DEF Reqs
<1>4. g \in [1..Len(f) -> Reqs] /\ DOMAIN g = DOMAIN f
  BY <1>2, <1>3
<1>5. g \in Seq(Reqs)
  BY <1>2, <1>4, SeqDef
<1>6. Len(g) = Len(f)
  BY <1>2, <1>4, <1>5
<1>7. \A i \in DOMAIN f :
       /\ g[i].what = f[i].what /\ g[i].arg = f[i].arg /\ g[i].token = f[i].token
       /\ g[i].at = f[i].at /\ g[i].answer = f[i].answer
       /\ g[i].heard <=> f[i].heard /\ f[i].what \notin kinds
  BY <1>2 DEF Reqs
<1>8. Dims(f, g, kinds)
  BY <1>4, <1>5, <1>6, <1>7 DEF Dims
<1> QED BY <1>1, <1>8, WithFlight

(* Unheard requests may stay whatever the page is.                         *)
LEMMA DimsOK ==
  ASSUME NEW f, NEW g, NEW kinds, NEW p, NEW o, NEW m, FlightOK(f, p, o, m), Dims(f, g, kinds)
  PROVE  FlightOK(g, p, o, m)
BY DEF FlightOK, Dims, AnsOK, HeardOK

(* One more request that fits the page.                                    *)
LEMMA AppendOK ==
  ASSUME NEW f, NEW p, NEW o, NEW m, FlightOK(f, p, o, m), NEW r \in Reqs, AnsOK(r),
      HeardOK(r, p, o, m)
  PROVE  FlightOK(Append(f, r), p, o, m)
BY Appended DEF FlightOK

(* One request less.                                                       *)
LEMMA RemoveOK ==
  ASSUME NEW f, NEW p, NEW o, NEW m, FlightOK(f, p, o, m), NEW i \in DOMAIN f
  PROVE  FlightOK(RemoveAt(f, i), p, o, m)
<1> DEFINE g == RemoveAt(f, i)
<1>1. f \in Seq(Reqs) /\ Len(f) \in Nat
  BY DEF FlightOK
<1>2. /\ g \in Seq(Reqs) /\ DOMAIN g = 1..(Len(f) - 1) /\ DOMAIN f = 1..Len(f)
      /\ \A k \in DOMAIN g : g[k] = Without(f, i, k)
  BY <1>1, Removed
<1> HIDE DEF g
<1>3. \A k \in DOMAIN g : \E j \in DOMAIN f : g[k] = f[j]
  BY <1>1, <1>2 DEF Without
<1> QED BY <1>2, <1>3 DEF FlightOK, g

(* Nothing heard is of a page or a form.                                   *)
Mute(f) == \A i \in DOMAIN f : f[i].heard => f[i].what \notin PageKinds \cup Forms

(* Where no page and no form hears an answer, any page may come.           *)
LEMMA MuteOK ==
  ASSUME NEW f, NEW p, NEW o, NEW m, FlightOK(f, p, o, m), Mute(f), NEW q, NEW oo, NEW mm
  PROVE  FlightOK(f, q, oo, mm)
BY DEF FlightOK, Mute, HeardOK, PageKinds

(* The arguments of a request that has none.                               *)
LEMMA NoArgIs ==
  /\ NoArg \in Args
  /\ NoArg = [page |-> None, row |-> None, of |-> "", upto |-> 1, then |-> None]
BY PagesAssumption DEF Args, NoArg, Pages0, Items0

(* Sending a request that fits the page keeps what is known of the tab.    *)
LEMMA SendOK ==
  ASSUME NEW t, Core(t), NEW what \in Kinds, NEW arg \in Args, NEW heard \in BOOLEAN,
         HeardOK(Request(t, what, arg, heard), t.view.page, t.view.of, t.auth.mode)
  PROVE  Core(Send(t, what, arg, heard))
<1> DEFINE r == Request(t, what, arg, heard)
           u == Send(t, what, arg, heard)
<1>1. r \in Reqs /\ AnsOK(r)
  BY RequestIs DEF Core
<1>2. OnlyFlight(t, u) /\ u.flight = Append(t.flight, r)
  BY SendIs DEF Core
<1>3. FlightOK(t.flight, t.view.page, t.view.of, t.auth.mode)
  BY DEF Core
<1> HIDE DEF r, u
<1>4. FlightOK(u.flight, t.view.page, t.view.of, t.auth.mode)
  BY <1>1, <1>2, <1>3, AppendOK DEF r
<1> QED BY <1>2, <1>4, FlightStep DEF u

(* Deafening keeps what is known of the tab.                               *)
LEMMA DeafenOK ==
  ASSUME NEW t, Core(t), NEW kinds
  PROVE  Core(Deafen(t, kinds))
<1> DEFINE u == Deafen(t, kinds)
<1>1. OnlyFlight(t, u) /\ Dims(t.flight, u.flight, kinds)
  BY DeafenIs DEF Core, FlightOK
<1>2. FlightOK(t.flight, t.view.page, t.view.of, t.auth.mode)
  BY DEF Core
<1> HIDE DEF u
<1>3. FlightOK(u.flight, t.view.page, t.view.of, t.auth.mode)
  BY <1>1, <1>2, DimsOK
<1> QED BY <1>1, <1>3, FlightStep DEF u

(* A refresh: the earlier ones are unheard.                                *)
LEMMA RefreshOK ==
  ASSUME NEW t, Core(t), NEW then \in Handlers \cup {None, "more"}
  PROVE  /\ Core(refresh(t, then)) /\ OnlyFlight(t, refresh(t, then))
         /\ \E f, r : /\ Dims(t.flight, f, {"refresh"}) /\ refresh(t, then).flight = Append(f, r)
                      /\ r \in Reqs /\ r.what = "refresh" /\ r.token = Carried(t) /\ r.heard
                      /\ r.arg.then = then /\ r.answer = None
<1> DEFINE d == Deafen(t, {"refresh"})
           arg == [NoArg EXCEPT !.then = then]
           r == Request(d, "refresh", arg, TRUE)
<1>1. arg \in Args /\ arg.then = then
  BY NoArgIs DEF Args
<1>2. Core(d) /\ OnlyFlight(t, d) /\ Dims(t.flight, d.flight, {"refresh"})
  BY DeafenOK, DeafenIs DEF Core, FlightOK
<1>3. "refresh" \in Kinds /\ "refresh" \notin Handlers \cup Forms
  BY DEF Kinds, AuthRequests, Forms, Handlers, HandlerOf
<1>4. r \in Reqs /\ Sent(r, "refresh", arg, Carried(d), TRUE)
  BY <1>1, <1>2, <1>3, RequestIs, TokensOK(d) DEF Core
<1>5. HeardOK(r, d.view.page, d.view.of, d.auth.mode)
  BY <1>3, <1>4 DEF HeardOK, Sent
<1>6. Core(Send(d, "refresh", arg, TRUE))
  BY <1>1, <1>2, <1>3, <1>5, SendOK
<1>7. /\ OnlyFlight(d, Send(d, "refresh", arg, TRUE))
      /\ Send(d, "refresh", arg, TRUE).flight = Append(d.flight, r)
  BY <1>2, SendIs DEF Core
<1>8. Carried(d) = Carried(t)
  BY <1>2 DEF OnlyFlight, Carried, Held
<1> QED BY <1>1, <1>2, <1>4, <1>6, <1>7, <1>8 DEF refresh, OnlyFlight, Sent

----------------------------------------------------------------------------
(* Receiving an answer: tokens, cookie, signing out.                       *)

(* Everything but the tokens, the user and the requests.                   *)
SameRest(t, u) ==
  /\ Shape(u) /\ u.booting = t.booting
  /\ u.auth = t.auth /\ u.view = t.view /\ u.chat = t.chat /\ u.dialog = t.dialog
  /\ u.kept = t.kept /\ u.address = t.address

SameTokens(t, u) == u.memory = t.memory /\ u.stored = t.stored /\ u.cookie = t.cookie

Saves(t, u, token) ==
  u.memory = token /\ u.stored = IF CanStore THEN token ELSE t.stored

(* New tokens, a new user or other requests keep the rest of what is       *)
(* known.                                                                  *)
LEMMA CoreStep ==
  ASSUME NEW t, Core(t), NEW u, SameRest(t, u), TokensOK(u), u.user \in Users0, u.count \in Nat,
         FlightOK(u.flight, t.view.page, t.view.of, t.auth.mode)
  PROVE  Core(u)
BY DEF Core, SameRest

(* Saving a token changes the two stores and nothing else.                 *)
LEMMA SaveIs ==
  ASSUME NEW t, Shape(t), NEW token
  PROVE  LET u == saveSessionToken(t, token) IN
         /\ SameRest(t, u) /\ u.user = t.user /\ u.count = t.count /\ u.flight = t.flight
         /\ u.cookie = t.cookie /\ Saves(t, u, token)
BY DEF saveSessionToken, Shape, Record, TabFields, SameRest, Saves

(* Saving a token keeps what is known of the tab.                          *)
LEMMA SaveOK ==
  ASSUME NEW t, Core(t), NEW token \in Tokens0
  PROVE  Core(saveSessionToken(t, token))
<1> DEFINE u == saveSessionToken(t, token)
<1>1. /\ SameRest(t, u) /\ u.user = t.user /\ u.count = t.count /\ u.flight = t.flight
      /\ u.cookie = t.cookie /\ Saves(t, u, token)
  BY SaveIs DEF Core
<1> HIDE DEF u
<1>2. TokensOK(u)
  BY <1>1 DEF Core, TokensOK, Saves
<1> QED BY <1>1, <1>2, CoreStep DEF u, Core

(* What the browser and api.js make of an answer.                          *)
Receipt(t, i, a, u) ==
  /\ SameRest(t, u) /\ u.user = t.user /\ u.count = t.count /\ u.flight = RemoveAt(t.flight, i)
  /\ u.cookie = IF t.flight[i].what = "logout" /\ a.status # "lost" THEN None
                ELSE IF a.token # None THEN a.token ELSE t.cookie
  /\ IF a.status = "unauth" THEN Saves(t, u, None)
     ELSE IF Named(a) # None THEN Saves(t, u, Named(a))
     ELSE u.memory = t.memory /\ u.stored = t.stored

(* What an answer does to the tokens and the cookie (api.js:114-143).      *)
LEMMA ReceivedIs ==
  ASSUME NEW t, Shape(t), NEW i, NEW a
  PROVE  Receipt(t, i, a, Received(t, i, a))
<1> DEFINE rest == [t EXCEPT !.flight = RemoveAt(@, i)]
           cookies == IF t.flight[i].what = "logout" /\ a.status # "lost"
                      THEN [rest EXCEPT !.cookie = None]
                      ELSE IF a.token # None THEN [rest EXCEPT !.cookie = a.token] ELSE rest
<1>1. /\ SameRest(t, cookies) /\ cookies.user = t.user /\ cookies.count = t.count
      /\ cookies.flight = RemoveAt(t.flight, i)
      /\ cookies.memory = t.memory /\ cookies.stored = t.stored
      /\ cookies.cookie = IF t.flight[i].what = "logout" /\ a.status # "lost" THEN None
                          ELSE IF a.token # None THEN a.token ELSE t.cookie
  BY DEF Shape, Record, TabFields, SameRest
<1>2. Received(t, i, a) = IF a.status = "unauth" THEN saveSessionToken(cookies, None)
                          ELSE IF Named(a) # None THEN saveSessionToken(cookies, Named(a))
                          ELSE cookies
  BY DEF Received
<1> HIDE DEF rest, cookies
<1>3. ASSUME NEW token
      PROVE  LET u == saveSessionToken(cookies, token) IN
             /\ SameRest(cookies, u) /\ u.user = cookies.user /\ u.count = cookies.count
             /\ u.flight = cookies.flight /\ u.cookie = cookies.cookie /\ Saves(cookies, u, token)
  BY <1>1, SaveIs DEF SameRest
<1>4. ASSUME NEW token, NEW u, u = saveSessionToken(cookies, token)
      PROVE  /\ SameRest(t, u) /\ u.user = t.user /\ u.count = t.count
             /\ u.flight = RemoveAt(t.flight, i) /\ u.cookie = cookies.cookie
             /\ Saves(t, u, token)
  BY <1>1, <1>3, <1>4 DEF SameRest, Saves
<1>5. CASE a.status = "unauth"
  BY <1>1, <1>2, <1>4, <1>5 DEF Receipt
<1>6. CASE a.status # "unauth" /\ Named(a) # None
  BY <1>1, <1>2, <1>4, <1>6 DEF Receipt
<1>7. CASE a.status # "unauth" /\ Named(a) = None
  BY <1>1, <1>2, <1>7 DEF Receipt
<1> QED BY <1>5, <1>6, <1>7

(* Receiving an answer keeps what is known of the tab.                     *)
LEMMA ReceivedOK ==
  ASSUME NEW t, Core(t), NEW i \in DOMAIN t.flight, NEW a, a.token \in Tokens0
  PROVE  Core(Received(t, i, a))
<1> DEFINE u == Received(t, i, a)
<1>1. Receipt(t, i, a, u)
  BY ReceivedIs DEF Core
<1> HIDE DEF u
<1>2. Named(a) \in Tokens0
  BY DEF Named, Tokens0
<1>3. u.cookie \in Tokens0
  BY <1>1 DEF Receipt, Core, TokensOK, Tokens0
<1>4. u.memory \in Tokens0 /\ u.stored \in Tokens0
      /\ IF CanStore THEN u.memory \in {None, u.stored} ELSE u.stored = None
  BY <1>1, <1>2 DEF Receipt, Core, TokensOK, Tokens0, Saves
<1>5. FlightOK(u.flight, t.view.page, t.view.of, t.auth.mode)
  BY <1>1, RemoveOK DEF Core, Receipt
<1> QED BY <1>1, <1>3, <1>4, <1>5, CoreStep DEF u, Core, Receipt, TokensOK

(* Signing out clears the user and the counter and nothing else.           *)
LEMMA OutIs ==
  ASSUME NEW t, Shape(t)
  PROVE  LET u == onUnauth(t) IN
         SameRest(t, u) /\ SameTokens(t, u) /\ u.flight = t.flight /\ u.user = None /\ u.count = 0
BY DEF onUnauth, Shape, Record, TabFields, SameRest, SameTokens

(* Signing out keeps what is known of the tab.                             *)
LEMMA OutOK ==
  ASSUME NEW t, Core(t)
  PROVE  Core(onUnauth(t))
<1> DEFINE u == onUnauth(t)
<1>1. SameRest(t, u) /\ SameTokens(t, u) /\ u.flight = t.flight /\ u.user = None /\ u.count = 0
  BY OutIs DEF Core
<1> HIDE DEF u
<1>2. TokensOK(u) /\ u.user \in Users0
  BY <1>1 DEF Core, TokensOK, SameTokens, Users0
<1> QED BY <1>1, <1>2, CoreStep DEF u, Core

----------------------------------------------------------------------------
(* Who is spoken for: the token held, the refresh under way, the user      *)
(* shown.                                                                  *)

(* What is held does not change; a refresh heard speaks for it, or was     *)
(* heard before; the user is the same, nobody, or being asked for.         *)
Calm(t, u) ==
  /\ SameTokens(t, u)
  /\ \A j \in DOMAIN u.flight : Asks(u.flight[j]) =>
       \/ u.flight[j].token = Carried(t)
       \/ \E i \in DOMAIN t.flight : Asks(t.flight[i]) /\ t.flight[i].token = u.flight[j].token
  /\ Asked(u) \/ u.user = None \/ (u.user = t.user /\ ~Asked(t))

AgreesOn(t) == Carried(t) # None => AgreeOn(t, Carried(t).user)

(* A calm step does not part the user shown from the one spoken for.       *)
LEMMA CalmAgrees ==
  ASSUME NEW t, NEW u, Calm(t, u), AgreesOn(t)
  PROVE  AgreesOn(u)
<1>1. Carried(u) = Carried(t) /\ u.cookie = t.cookie
  BY DEF Calm, SameTokens, Carried, Held
<1>2. SUFFICES ASSUME Carried(t) # None PROVE AgreeOn(u, Carried(t).user)
  BY <1>1 DEF AgreesOn
<1>3. AgreeOn(t, Carried(t).user)
  BY <1>2 DEF AgreesOn
<1>4. \A j \in DOMAIN u.flight :
        Asks(u.flight[j]) /\ u.flight[j].token # None => u.flight[j].token.user = Carried(t).user
  BY <1>3 DEF Calm, AgreeOn
<1>5. Asked(u) \/ u.user \in {None, Carried(t).user}
  BY <1>3 DEF Calm, AgreeOn
<1> QED BY <1>1, <1>3, <1>4, <1>5 DEF AgreeOn

(* Two calm steps are one.                                                 *)
LEMMA CalmTwice ==
  ASSUME NEW t, NEW u, NEW w, Calm(t, u), Calm(u, w)
  PROVE  Calm(t, w)
<1>1. Carried(u) = Carried(t) /\ SameTokens(t, w)
  BY DEF Calm, SameTokens, Carried, Held
<1>2. \A j \in DOMAIN w.flight : Asks(w.flight[j]) =>
       \/ w.flight[j].token = Carried(t)
       \/ \E i \in DOMAIN t.flight : Asks(t.flight[i]) /\ t.flight[i].token = w.flight[j].token
  BY <1>1 DEF Calm
<1>3. Asked(w) \/ w.user = None \/ (w.user = t.user /\ ~Asked(t))
  BY DEF Calm
<1> QED BY <1>1, <1>2, <1>3 DEF Calm

(* Requests of other kinds may come, be unheard and end.                   *)
LEMMA CalmDims ==
  ASSUME NEW t, NEW u, SameTokens(t, u), u.user = t.user, NEW kinds, "refresh" \notin kinds,
         Dims(t.flight, u.flight, kinds)
  PROVE  Calm(t, u)
BY DEF Calm, Dims, Asks, Asked

(* A step with the requests as they are is calm if nobody new is shown.    *)
LEMMA CalmSame ==
  ASSUME NEW t, NEW u, SameTokens(t, u), u.user \in {t.user, None}, u.flight = t.flight
  PROVE  Calm(t, u)
BY DEF Calm, Asked

(* One more request is calm if it is no refresh or carries the token held. *)
LEMMA CalmAppend ==
  ASSUME NEW t, NEW u, SameTokens(t, u), u.user = t.user, t.flight \in Seq(Reqs),
         NEW r \in Reqs, r.what # "refresh"
             \/ r.token = Carried(t), u.flight = Append(t.flight, r)
  PROVE  Calm(t, u)
<1> DEFINE f == t.flight
<1>1. /\ DOMAIN Append(f, r) = DOMAIN f \cup {Len(f) + 1} /\ Len(f) + 1 \notin DOMAIN f
      /\ \A i \in DOMAIN f : Append(f, r)[i] = f[i]
      /\ Append(f, r)[Len(f) + 1] = r
  BY Appended
<1>2. Asks(r) => r.token = Carried(t)
  BY DEF Asks
<1>3. Asked(t) => Asked(u)
  BY <1>1 DEF Asked
<1> QED BY <1>1, <1>2, <1>3 DEF Calm

(* A refresh is calm.                                                      *)
LEMMA CalmRefresh ==
  ASSUME NEW t, Core(t), NEW then \in Handlers \cup {None, "more"}
  PROVE  Calm(t, refresh(t, then)) /\ Asked(refresh(t, then))
<1> DEFINE u == refresh(t, then)
<1>1. OnlyFlight(t, u)
  BY RefreshOK
<1>2. PICK f, r : /\ Dims(t.flight, f, {"refresh"}) /\ u.flight = Append(f, r)
                  /\ r \in Reqs /\ r.what = "refresh" /\ r.token = Carried(t) /\ r.heard
  BY RefreshOK
<1> HIDE DEF u
<1>3. /\ DOMAIN Append(f, r) = DOMAIN f \cup {Len(f) + 1}
      /\ \A i \in DOMAIN f : Append(f, r)[i] = f[i]
      /\ Append(f, r)[Len(f) + 1] = r
  BY <1>2, Appended DEF Dims
<1>4. Asked(u)
  BY <1>2, <1>3 DEF Asked, Asks
<1>5. \A j \in DOMAIN u.flight : Asks(u.flight[j]) => u.flight[j].token = Carried(t)
  BY <1>2, <1>3 DEF Asks, Dims
<1> QED BY <1>1, <1>4, <1>5 DEF Calm, OnlyFlight, SameTokens, u

----------------------------------------------------------------------------
(* What a page shows, and which requests excuse it meanwhile.              *)

(* The server did what was asked.                                          *)
Good(r) == r.answer # None /\ r.answer.status = "ok"

(* What a page would be told if it asked now.                              *)
Fresh(d, page, s) == d.row = RowsFor(page, s) /\ d.edits = s.edits

(* While such a request is under way the page may be behind: a load that   *)
(* will replace it all, a change that the server has made, a row that      *)
(* shows neither what it was nor what it will be.                          *)
Excuses(r) ==
  \/ r.what = "load" /\ ~(r.arg.upto > 1)
  \/ r.what # "purchasesArchive" /\ Changes(r.what) /\ Good(r)
  \/ r.what \in Hiding \ {"purchasesArchive"}
Excused(f) == \E i \in DOMAIN f : Excuses(f[i])

(* A product taken out of the list that the server has not archived yet.   *)
Hides(r, q) == r.what = "purchasesArchive" /\ r.arg.row = q /\ ~Good(r)
Hidden(f, q) == \E i \in DOMAIN f : Hides(f[i], q)

(* The page shows what the server has.                                     *)
Matches(v, f, s) ==
  /\ v.data.edits = s.edits
  /\ v.page = "estimate" => v.data.of = v.of
  /\ v.page = "supplier" => v.data.row = s.row
  /\ v.page = "purchases" =>
       \A q \in Items : v.data.row[q] = "active" <=> s.row[q] = "active" /\ ~Hidden(f, q)
  /\ v.page = "dashboard" =>
       \A q \in Items : v.data.row[q] = "active" <=> s.row[q] = "active"

(* Requests of a page take turns.                                          *)
TurnsOK(v, f, s) ==
  \A i \in DOMAIN f :
    /\ f[i].what \in PageKinds => f[i].heard
    /\ Gives(f[i].what) =>
         /\ \A j \in DOMAIN f \ {i} : ~Gives(f[j].what) /\ ~Changes(f[j].what)
         /\ Good(f[i]) => Fresh(f[i].answer.data, v.page, s)
         /\ v.page = "estimate" => f[i].arg.of = v.of

ShownOK(v, f, s) == Excused(f) \/ Matches(v, f, s)
CountOK(v, count) ==
  v.page \in {"purchases", "dashboard"} => count = Cardinality(ActiveIn(v.data))

(* A page that loads its data, where no two answers crossed.               *)
Straight(v) == v.page \in Seen /\ ~v.crossed

(* waived: the load that will make up for it is about to be sent.          *)
PagesOK(t, s, waived) ==
  Straight(t.view) =>
    /\ TurnsOK(t.view, t.flight, s)
    /\ t.view.data \notin {None, Bare} =>
         CountOK(t.view, t.count) /\ (waived \/ ShownOK(t.view, t.flight, s))

(* Requests of the session and of the support say nothing about a page.    *)
LEMMA OfPages ==
  ASSUME NEW r, r.what \notin PageKinds
  PROVE  ~Gives(r.what) /\ ~Changes(r.what) /\ ~Excuses(r) /\ \A q : ~Hides(r, q)
BY DEF PageKinds, Gives, Changes, Excuses, Hides, Hiding, Handlers, HandlerOf

(* What the page's part looks at of a view.                                *)
SameView(v, w) == w.page = v.page /\ w.of = v.of /\ w.data = v.data /\ (v.crossed => w.crossed)

(* A page stays right while its data, the counter and the requests stay.   *)
LEMMA PagesSame ==
  ASSUME NEW t, NEW u, NEW s, NEW waived, PagesOK(t, s, waived), SameView(t.view, u.view),
         u.count = t.count, u.flight = t.flight
  PROVE  PagesOK(u, s, waived)
BY DEF PagesOK, Straight, TurnsOK, ShownOK, CountOK, Matches, SameView

(* A page stays right when requests not its own are unheard.               *)
LEMMA PagesDims ==
  ASSUME NEW t, NEW u, NEW s, NEW waived, PagesOK(t, s, waived), SameView(t.view, u.view),
         u.count = t.count, NEW kinds, kinds \cap PageKinds = {}, Dims(t.flight, u.flight, kinds)
  PROVE  PagesOK(u, s, waived)
<1> DEFINE f == t.flight
           g == u.flight
<1>1. /\ DOMAIN g = DOMAIN f
      /\ \A i \in DOMAIN f : /\ g[i].what = f[i].what /\ g[i].arg = f[i].arg
                             /\ g[i].answer = f[i].answer
                             /\ f[i].what \in PageKinds => (g[i].heard <=> f[i].heard)
  BY DEF Dims
<1> HIDE DEF f, g
<1>2. \A i \in DOMAIN f : Good(g[i]) <=> Good(f[i])
  BY <1>1 DEF Good
<1>3. Excused(g) <=> Excused(f)
  BY <1>1, <1>2 DEF Excused, Excuses
<1>4. \A q : Hidden(g, q) <=> Hidden(f, q)
  BY <1>1, <1>2 DEF Hidden, Hides
<1>5. TurnsOK(t.view, f, s) /\ SameView(t.view, u.view) => TurnsOK(u.view, g, s)
  BY <1>1, <1>2 DEF TurnsOK, SameView
<1>6. ShownOK(t.view, f, s) => ShownOK(u.view, g, s)
  BY <1>3, <1>4 DEF ShownOK, Matches, SameView
<1> QED BY <1>5, <1>6 DEF PagesOK, Straight, CountOK, SameView, f, g

(* A page stays right when a request not its own is sent.                  *)
LEMMA PagesAppend ==
  ASSUME NEW t, NEW u, NEW s, NEW waived, PagesOK(t, s, waived), SameView(t.view, u.view),
         u.count = t.count, t.flight \in Seq(Reqs), NEW r \in Reqs, r.what \notin PageKinds,
         u.flight = Append(t.flight, r)
  PROVE  PagesOK(u, s, waived)
<1> DEFINE f == t.flight
           g == u.flight
           n == Len(t.flight) + 1
<1>1. /\ DOMAIN g = DOMAIN f \cup {n} /\ n \notin DOMAIN f
      /\ \A i \in DOMAIN f : g[i] = f[i]
      /\ g[n] = r
  BY Appended
<1>2. ~Gives(r.what) /\ ~Changes(r.what) /\ ~Excuses(r) /\ \A q : ~Hides(r, q)
  BY OfPages
<1> HIDE DEF f, g, n
<1>3. Excused(g) <=> Excused(f)
  BY <1>1, <1>2 DEF Excused
<1>4. \A q : Hidden(g, q) <=> Hidden(f, q)
  BY <1>1, <1>2 DEF Hidden
<1>5. TurnsOK(t.view, f, s) /\ SameView(t.view, u.view) => TurnsOK(u.view, g, s)
  BY <1>1, <1>2 DEF TurnsOK, SameView
<1>6. ShownOK(t.view, f, s) => ShownOK(u.view, g, s)
  BY <1>3, <1>4 DEF ShownOK, Matches, SameView
<1> QED BY <1>5, <1>6 DEF PagesOK, Straight, CountOK, SameView, f, g

(* A page stays right when the user is asked for.                          *)
LEMMA PagesRefresh ==
  ASSUME NEW t, Core(t), NEW then \in Handlers \cup {None, "more"}, NEW s, NEW waived,
         PagesOK(t, s, waived)
  PROVE  PagesOK(refresh(t, then), s, waived)
<1> DEFINE u == refresh(t, then)
<1>1. OnlyFlight(t, u)
  BY RefreshOK
<1>2. PICK f, r : /\ Dims(t.flight, f, {"refresh"}) /\ u.flight = Append(f, r)
                  /\ r \in Reqs /\ r.what = "refresh"
  BY RefreshOK
<1> DEFINE m == [t EXCEPT !.flight = f]
<1>3. OnlyFlight(t, m) /\ m.flight = f
  BY WithFlight DEF Core
<1> HIDE DEF u, m
<1>4. "refresh" \notin PageKinds
  BY DEF PageKinds, Handlers, HandlerOf
<1>5. {"refresh"} \cap PageKinds = {} /\ SameView(t.view, m.view) /\ SameView(m.view, u.view)
  BY <1>1, <1>3, <1>4 DEF OnlyFlight, SameView
<1>6. PagesOK(m, s, waived)
  BY <1>2, <1>3, <1>5, PagesDims DEF OnlyFlight
<1> QED BY <1>1, <1>2, <1>3, <1>4, <1>5, <1>6, PagesAppend DEF u, OnlyFlight, Dims

----------------------------------------------------------------------------
(* What is mounted.                                                        *)

(* Names of pages are no value of None.                                    *)
LEMMA Strings == None \notin PageNames /\ "search" \in PageNames /\ "admin" \in PageNames
BY NoneAssumption DEF PageNames

(* No page is a view.                                                      *)
LEMMA NoViewIs ==
  /\ ViewOK(NoView) /\ NoView.page = None /\ NoView.of = "" /\ NoView.data = None
       /\ ~NoView.crossed
  /\ NoView.modal = None
<1>1. ViewShape(NoView)
  BY DEF ViewShape, Record, ViewFields, NoView
<1>2. "" \in Terms
  BY PagesAssumption
<1> QED BY <1>1, <1>2, ApiAssumption DEF ViewOK, NoView, Pages0, DataV, Data0

(* A page just opened is a view with nothing shown yet.                    *)
LEMMA FreshViewIs ==
  ASSUME NEW p \in PageNames, NEW c \in BOOLEAN
  PROVE  LET v == [FreshView(p) EXCEPT !.crossed = c] IN
         ViewOK(v) /\ v.page = p /\ v.of = "" /\ v.data = None /\ (v.crossed <=> c)
<1> DEFINE v == [FreshView(p) EXCEPT !.crossed = c]
<1>1. ViewShape(v)
  BY DEF ViewShape, Record, ViewFields, NoView, FreshView
<1>2. v.page = p /\ v.of = "" /\ v.data = None /\ (v.crossed <=> c) /\ v.crossed \in BOOLEAN
      /\ v.loading = FALSE /\ v.modal = None
  BY DEF NoView, FreshView
<1>3. v.wait \in BOOLEAN /\ (v.wait => p = "admin")
  BY DEF NoView, FreshView
<1>4. "" \in Terms
  BY PagesAssumption
<1> HIDE DEF v
<1>5. ViewOK(v)
  BY <1>1, <1>2, <1>3, <1>4, ApiAssumption DEF ViewOK, Pages0, DataV, Data0
<1> QED BY <1>2, <1>5 DEF v

(* Everything but the requests and the open question.                      *)
SameApart(t, u) ==
  /\ Shape(u) /\ SameTokens(t, u)
  /\ u.user = t.user /\ u.booting = t.booting /\ u.count = t.count
  /\ u.auth = t.auth /\ u.view = t.view /\ u.chat = t.chat
  /\ u.kept = t.kept /\ u.address = t.address

(* What a page leaves behind when it goes: requests and a question         *)
(* unheard.                                                                *)
LEMMA OrphanedIs ==
  ASSUME NEW t, Core(t), NEW kinds
  PROVE  LET u == Orphaned(t, kinds) IN
         SameApart(t, u) /\ Dims(t.flight, u.flight, kinds) /\ \A page : DialogOK(u.dialog, page)
<1> DEFINE d == Deafen(t, kinds)
           e == IF d.dialog = None THEN d.dialog ELSE [d.dialog EXCEPT !.heard = FALSE]
           u == [d EXCEPT !.dialog = e]
<1>1. OnlyFlight(t, d) /\ Dims(t.flight, d.flight, kinds)
  BY DeafenIs DEF Core, FlightOK
<1>2. Orphaned(t, kinds) = u
  BY DEF Orphaned
<1>3. DialogOK(d.dialog, t.view.page)
  BY <1>1 DEF OnlyFlight, Core
<1>4. \A page : DialogOK(e, page)
  BY <1>3 DEF DialogOK, Record, DialogFields
<1> HIDE DEF d, e
<1>5. SameApart(t, u) /\ u.flight = d.flight /\ u.dialog = e
  BY <1>1 DEF SameApart, OnlyFlight, SameTokens, Shape, Record, TabFields
<1> QED BY <1>1, <1>2, <1>4, <1>5

(* What nobody hears any more once what is mounted changes.                *)
LEMMA OthersMute ==
  ASSUME NEW t, Core(t), NEW g, NEW kinds, Dims(t.flight, g, kinds),
         Others(t) \ {"chat", "status"} \subseteq kinds
  PROVE  Mute(g)
<1>1. \A i \in DOMAIN t.flight : t.flight[i].what \in kinds \cup {"refresh", "chat", "status"}
  BY DEF Others
<1>2. {"refresh", "chat", "status"} \cap (PageKinds \cup Forms) = {}
  BY DEF PageKinds, Forms, Handlers, HandlerOf
<1> QED BY <1>1, <1>2 DEF Dims, Mute

(* What is known of a tab, put together from its parts.                    *)
LEMMA CoreView ==
  ASSUME NEW t, Core(t), NEW u, Shape(u), SameTokens(t, u), u.user = t.user,
      u.booting = t.booting,
         u.count = t.count, u.address \in PageNames, AuthShape(u.auth), ChatShape(u.chat),
         ViewOK(u.view), DialogOK(u.dialog, u.view.page),
         FlightOK(u.flight, u.view.page, u.view.of, u.auth.mode)
  PROVE  Core(u)
BY DEF Core, SameTokens, TokensOK

(* Opening a page, from whatever page: what was under way for the old one  *)
(* is not heard, and if there was any the new one counts as crossed.       *)
LEMMA OpenPageOK ==
  ASSUME NEW t, Core(t), NEW p \in PageNames
  PROVE  LET u == OpenPage(t, p) IN
         /\ Core(u) /\ Calm(t, u) /\ \A s : PagesOK(u, s, FALSE)
         /\ u.user = t.user /\ u.booting = t.booting /\ u.auth = t.auth /\ u.view.page = p
<1> DEFINE asked == Others(t) \ {"chat", "status"}
           o == Orphaned(t, asked)
           v == [FreshView(p) EXCEPT !.crossed = asked # {}]
           b == [o EXCEPT !.view = v, !.address = p]
           arg == [NoArg EXCEPT !.page = p]
           r == Request(b, "load", arg, TRUE)
           u == OpenPage(t, p)
<1>1. SameApart(t, o) /\ Dims(t.flight, o.flight, asked) /\ \A page : DialogOK(o.dialog, page)
  BY OrphanedIs
<1>2. ViewOK(v) /\ v.page = p /\ v.of = "" /\ v.data = None /\ (v.crossed <=> asked # {})
  BY FreshViewIs, (asked # {}) \in BOOLEAN
<1>3. u = IF p \in Loading THEN Send(b, "load", arg, TRUE) ELSE b
  BY DEF OpenPage
<1>4. arg \in Args /\ arg.page = p /\ arg.of = ""
  BY NoArgIs DEF Args, Pages0
<1>5. "refresh" \notin asked
  BY DEF Others
<1>6. \A i \in DOMAIN t.flight : t.flight[i].what \in asked \cup {"refresh", "chat", "status"}
  BY DEF Others
<1>7. Mute(o.flight)
  BY <1>1, OthersMute
<1> HIDE DEF asked, o, v, arg, u
<1>8. /\ Shape(b) /\ SameTokens(t, b) /\ b.user = t.user /\ b.booting = t.booting
      /\ b.count = t.count /\ b.auth = t.auth /\ b.chat = t.chat
      /\ b.view = v /\ b.address = p /\ b.flight = o.flight /\ b.dialog = o.dialog
  BY <1>1 DEF SameApart, SameTokens, Shape, Record, TabFields
<1> HIDE DEF b
<1>9. FlightOK(o.flight, p, "", t.auth.mode)
  <2>1. FlightOK(t.flight, t.view.page, t.view.of, t.auth.mode) BY DEF Core
  <2>2. FlightOK(o.flight, t.view.page, t.view.of, t.auth.mode) BY <1>1, <2>1, DimsOK
  <2> QED BY <1>7, <2>2, MuteOK
<1>10. Core(b)
  BY <1>1, <1>2, <1>8, <1>9, CoreView DEF Core
<1>11. Calm(t, b)
  BY <1>1, <1>5, <1>8, CalmDims
<1>12. {"refresh", "chat", "status"} \cap PageKinds = {}
  BY DEF PageKinds, Handlers, HandlerOf
<1>13. ~v.crossed => \A i \in DOMAIN b.flight : b.flight[i].what \notin PageKinds
  <2>1. ~v.crossed => asked = {} BY <1>2
  <2>2. DOMAIN b.flight = DOMAIN t.flight
        /\ \A i \in DOMAIN t.flight : b.flight[i].what = t.flight[i].what
    BY <1>1, <1>8 DEF Dims
  <2> QED BY <2>1, <2>2, <1>6, <1>12
<1>14. CASE p \notin Loading
  <2>1. u = b BY <1>3, <1>14
  <2>2. \A s : PagesOK(b, s, FALSE)
    BY <1>2, <1>8, <1>13, OfPages DEF PagesOK, Straight, TurnsOK
  <2> QED BY <2>1, <2>2, <1>2, <1>8, <1>10, <1>11 DEF u
<1>15. CASE p \in Loading
  <2>0. "load" \in Kinds /\ "load" \notin Handlers \cup Forms /\ "load" \in PageKinds
            /\ p \in Seen
    BY <1>15 DEF Kinds, Handlers, HandlerOf, Forms, Seen, PageKinds
  <2>1. r \in Reqs /\ Sent(r, "load", arg, Carried(b), TRUE)
    BY <1>4, <1>10, <2>0, RequestIs DEF Core
  <2>2. HeardOK(r, b.view.page, b.view.of, b.auth.mode)
    BY <2>0, <2>1, <1>2, <1>4, <1>8 DEF Sent, HeardOK
  <2>3. Core(Send(b, "load", arg, TRUE))
    BY <1>4, <1>10, <2>0, <2>2, SendOK DEF r
  <2>4. u = Send(b, "load", arg, TRUE) /\ OnlyFlight(b, u) /\ u.flight = Append(b.flight, r)
    BY <1>3, <1>15, <1>8, SendIs DEF r
  <2> HIDE DEF r
  <2>5. b.flight \in Seq(Reqs)
    BY <1>10 DEF Core, FlightOK
  <2>6. Calm(b, u)
    BY <2>1, <2>4, <2>5, CalmAppend DEF OnlyFlight, SameTokens, Sent
  <2>7. \A s : PagesOK(u, s, FALSE)
    <3> DEFINE n == Len(b.flight) + 1
    <3>1. /\ DOMAIN u.flight = DOMAIN b.flight \cup {n} /\ n \notin DOMAIN b.flight
          /\ \A i \in DOMAIN b.flight : u.flight[i] = b.flight[i]
          /\ u.flight[n] = r
      <4> DEFINE f == b.flight
      <4>1. f \in Seq(Reqs) /\ r \in Reqs BY <2>1, <2>5
      <4> HIDE DEF f
      <4>2. /\ DOMAIN Append(f, r) = DOMAIN f \cup {Len(f) + 1} /\ Len(f) + 1 \notin DOMAIN f
            /\ \A i \in DOMAIN f : Append(f, r)[i] = f[i]
            /\ Append(f, r)[Len(f) + 1] = r
        BY <4>1, Appended
      <4>3. u.flight = Append(f, r) BY <2>4 DEF f
      <4> QED BY <4>2, <4>3 DEF f
    <3> HIDE DEF n
    <3>2. u.view = v BY <2>4, <1>8 DEF OnlyFlight
    <3>3. ~v.crossed => \A s : TurnsOK(v, u.flight, s)
      BY <3>1, <1>2, <1>4, <1>13, <2>1, OfPages DEF TurnsOK, Sent, Good
    <3> QED BY <3>2, <3>3, <1>2 DEF PagesOK, Straight
  <2>8. Calm(t, u)
    BY <1>11, <2>6, CalmTwice
  <2> QED BY <2>3, <2>4, <2>7, <2>8, <1>2, <1>8 DEF u, OnlyFlight
<1> QED BY <1>14, <1>15

(* A page taken down while it was drawn: of what was under way nothing is  *)
(* heard by it, and it is in the state it is in with the boundary's card.  *)
LEMMA CrashedOK ==
  ASSUME NEW t, Core(t)
  PROVE  LET u == Crashed(t) IN
         /\ Core(u) /\ SameTokens(t, u) /\ Calm(t, u)
         /\ \A s, waived : PagesOK(u, s, waived)
         /\ u.user = t.user /\ u.booting = t.booting /\ u.count = t.count /\ u.auth = t.auth
         /\ u.view.page = t.view.page /\ u.view.crossed
<1> DEFINE gone == Others(t) \ {"chat", "status"}
           o == Orphaned(t, gone)
           v == [NoView EXCEPT !.page = t.view.page, !.error = TRUE, !.crossed = TRUE]
           u == [o EXCEPT !.view = v]
<1>1. SameApart(t, o) /\ Dims(t.flight, o.flight, gone) /\ \A page : DialogOK(o.dialog, page)
  BY OrphanedIs
<1>2. ViewOK(v) /\ v.page = t.view.page /\ v.of = "" /\ v.crossed
  <2>1. t.view.page \in Pages0
    BY DEF Core, ViewOK
  <2>2. /\ v.page = t.view.page /\ v.of = "" /\ v.data = None /\ v.wait = FALSE
        /\ v.loading = FALSE /\ v.modal = None /\ v.crossed = TRUE
    BY DEF NoView
  <2>3. ViewShape(v)
    BY DEF ViewShape, Record, ViewFields, NoView
  <2>4. "" \in Terms
    BY PagesAssumption
  <2> HIDE DEF v
  <2> QED BY <2>1, <2>2, <2>3, <2>4, ApiAssumption DEF ViewOK, DataV, Data0
<1>3. Crashed(t) = u
  BY DEF Crashed
<1>4. "refresh" \notin gone /\ Mute(o.flight)
  BY <1>1, OthersMute DEF Others
<1> HIDE DEF gone, o, v
<1>5. /\ Shape(u) /\ SameTokens(t, u) /\ u.user = t.user /\ u.booting = t.booting
      /\ u.count = t.count /\ u.auth = t.auth /\ u.chat = t.chat /\ u.address = t.address
      /\ u.view = v /\ u.flight = o.flight /\ u.dialog = o.dialog
  BY <1>1 DEF SameApart, SameTokens, Shape, Record, TabFields
<1> HIDE DEF u
<1>6. FlightOK(o.flight, v.page, v.of, t.auth.mode)
  <2>1. FlightOK(t.flight, t.view.page, t.view.of, t.auth.mode) BY DEF Core
  <2>2. FlightOK(o.flight, t.view.page, t.view.of, t.auth.mode) BY <1>1, <2>1, DimsOK
  <2> QED BY <1>4, <2>2, MuteOK
<1>7. Core(u)
  BY <1>1, <1>2, <1>5, <1>6, CoreView DEF Core
<1>8. Calm(t, u)
  BY <1>1, <1>4, <1>5, CalmDims
<1>9. \A s, waived : PagesOK(u, s, waived)
  BY <1>2, <1>5 DEF PagesOK, Straight
<1> QED BY <1>2, <1>3, <1>5, <1>7, <1>8, <1>9

(* The sign-in page gone or fresh, the support window fresh.               *)
LEMMA Closed ==
  /\ AuthShape(NoAuth) /\ NoAuth.mode = "closed" /\ AuthShape(FreshAuth)
       /\ FreshAuth.mode = "login"
  /\ ChatShape(NoChat) /\ \A x : ChatShape([NoChat EXCEPT !.log = x])
BY DEF AuthShape, ChatShape, Record, AuthFields, ChatFields, NoAuth, FreshAuth, NoChat

(* The pages of a user mount as they should.                               *)
LEMMA EnterAppOK ==
  ASSUME NEW t, Core(t), NEW p \in PageNames
  PROVE  LET u == EnterApp(t, p) IN
         /\ Core(u) /\ Calm(t, u) /\ \A s : PagesOK(u, s, FALSE)
         /\ u.user = t.user /\ u.booting = t.booting /\ Mounted(u, "app")
<1> DEFINE kinds == Others(t)
           o == Orphaned(t, kinds)
           c == [NoChat EXCEPT !.log = t.kept[t.user]]
           b == [o EXCEPT !.auth = NoAuth, !.chat = c]
           u == EnterApp(t, p)
<1>1. SameApart(t, o) /\ Dims(t.flight, o.flight, kinds) /\ \A page : DialogOK(o.dialog, page)
  BY OrphanedIs
<1>2. u = OpenPage(b, p)
  BY DEF EnterApp
<1>3. "refresh" \notin kinds
  BY DEF Others
<1>4. Mute(o.flight)
  BY <1>1, OthersMute
<1>5. ChatShape(c)
  BY Closed
<1> HIDE DEF kinds, o, c, u
<1>6. /\ Shape(b) /\ SameTokens(t, b) /\ b.user = t.user /\ b.booting = t.booting
      /\ b.count = t.count /\ b.auth = NoAuth /\ b.chat = c /\ b.address = t.address
      /\ b.view = t.view /\ b.flight = o.flight /\ b.dialog = o.dialog
  BY <1>1 DEF SameApart, SameTokens, Shape, Record, TabFields
<1> HIDE DEF b
<1>7. FlightOK(o.flight, t.view.page, t.view.of, "closed")
  <2>1. FlightOK(t.flight, t.view.page, t.view.of, t.auth.mode) BY DEF Core
  <2>2. FlightOK(o.flight, t.view.page, t.view.of, t.auth.mode) BY <1>1, <2>1, DimsOK
  <2> QED BY <1>4, <2>2, MuteOK
<1>8. ViewOK(t.view) /\ t.address \in PageNames
  BY DEF Core
<1>9. Core(b)
  BY <1>1, <1>5, <1>6, <1>7, <1>8, Closed, CoreView
<1>10. Calm(t, b)
  BY <1>1, <1>3, <1>6, CalmDims
<1>11. /\ Core(u) /\ Calm(b, u) /\ \A s : PagesOK(u, s, FALSE)
       /\ u.user = b.user /\ u.booting = b.booting /\ u.auth = b.auth /\ u.view.page = p
  BY <1>2, <1>9, OpenPageOK
<1>12. Calm(t, u)
  BY <1>10, <1>11, CalmTwice
<1>13. Mounted(u, "app")
  BY <1>6, <1>11, Closed, Strings DEF Mounted
<1> QED BY <1>6, <1>11, <1>12, <1>13 DEF u

(* Nothing is asked of a page that is not there.                           *)
LEMMA NoPage ==
  ASSUME NEW t, t.view.page = None, NEW s, NEW waived
  PROVE  PagesOK(t, s, waived)
<1>1. None \notin Seen
  BY Strings DEF Seen, PageNames
<1> QED BY <1>1 DEF PagesOK, Straight

(* The sign-in page mounts as it should.                                   *)
LEMMA EnterLoginOK ==
  ASSUME NEW t, Core(t)
  PROVE  LET u == EnterLogin(t) IN
         /\ Core(u) /\ Calm(t, u) /\ \A s : PagesOK(u, s, FALSE)
         /\ u.user = t.user /\ u.booting = t.booting /\ Mounted(u, "login")
<1> DEFINE kinds == Others(t)
           o == Orphaned(t, kinds)
           b == [o EXCEPT !.auth = FreshAuth, !.view = NoView, !.chat = NoChat]
           u == EnterLogin(t)
<1>1. SameApart(t, o) /\ Dims(t.flight, o.flight, kinds) /\ \A page : DialogOK(o.dialog, page)
  BY OrphanedIs
<1>2. u = IF Held(b) # None THEN refresh(b, None) ELSE b
  BY DEF EnterLogin
<1>3. "refresh" \notin kinds
  BY DEF Others
<1>4. Mute(o.flight)
  BY <1>1, OthersMute
<1> HIDE DEF kinds, o, u
<1>6. /\ Shape(b) /\ SameTokens(t, b) /\ b.user = t.user /\ b.booting = t.booting
      /\ b.count = t.count /\ b.auth = FreshAuth /\ b.chat = NoChat /\ b.address = t.address
      /\ b.view = NoView /\ b.flight = o.flight /\ b.dialog = o.dialog
  BY <1>1 DEF SameApart, SameTokens, Shape, Record, TabFields
<1> HIDE DEF b
<1>7. FlightOK(o.flight, None, "", "login")
  <2>1. FlightOK(t.flight, t.view.page, t.view.of, t.auth.mode) BY DEF Core
  <2>2. FlightOK(o.flight, t.view.page, t.view.of, t.auth.mode) BY <1>1, <2>1, DimsOK
  <2> QED BY <1>4, <2>2, MuteOK
<1>8. t.address \in PageNames
  BY DEF Core
<1>9. Core(b)
  BY <1>1, <1>6, <1>7, <1>8, Closed, NoViewIs, CoreView
<1>10. Calm(t, b)
  BY <1>1, <1>3, <1>6, CalmDims
<1>11. Mounted(b, "login")
  BY <1>6, Closed, NoViewIs DEF Mounted
<1>12. CASE Held(b) # None
  <2>1. u = refresh(b, None) BY <1>2, <1>12
  <2>2. Core(u) /\ OnlyFlight(b, u) BY <1>9, <2>1, RefreshOK
  <2>3. Calm(b, u) BY <1>9, <2>1, CalmRefresh
  <2>4. Calm(t, u) BY <1>10, <2>3, CalmTwice
  <2>5. u.view.page = None BY <1>6, <2>2, NoViewIs DEF OnlyFlight
  <2>6. \A s : PagesOK(u, s, FALSE) BY <2>5, NoPage
  <2> QED BY <1>6, <1>11, <2>2, <2>4, <2>6 DEF u, OnlyFlight, Mounted
<1>13. CASE Held(b) = None
  <2>1. u = b BY <1>2, <1>13
  <2>2. \A s : PagesOK(b, s, FALSE) BY <1>6, NoViewIs, NoPage
  <2> QED BY <1>6, <1>9, <1>10, <1>11, <2>1, <2>2 DEF u
<1> QED BY <1>12, <1>13

(* A tab between two stretches of the code.                                *)
Settled(t, s) == Core(t) /\ Mounted(t, Screen(t)) /\ PagesOK(t, s, FALSE)

(* Another user's conversation in the support window changes nothing else. *)
LEMMA RelogIs ==
  ASSUME NEW t, Core(t), NEW log
  PROVE  LET u == [t EXCEPT !.chat.log = log] IN
         /\ Core(u) /\ SameTokens(t, u) /\ u.user = t.user /\ u.booting = t.booting
         /\ u.count = t.count /\ u.auth = t.auth /\ u.view = t.view /\ u.flight = t.flight
<1> DEFINE c == [t.chat EXCEPT !.log = log]
           u == [t EXCEPT !.chat = c]
<1>1. ChatShape(c)
  BY DEF Core, ChatShape, Record, ChatFields
<1>2. [t EXCEPT !.chat.log = log] = u
  OBVIOUS
<1> HIDE DEF c
<1>3. /\ Shape(u) /\ SameTokens(t, u) /\ u.user = t.user /\ u.booting = t.booting
      /\ u.count = t.count /\ u.auth = t.auth /\ u.view = t.view /\ u.flight = t.flight
      /\ u.chat = c /\ u.dialog = t.dialog /\ u.address = t.address
  BY DEF Core, Shape, Record, TabFields, SameTokens
<1> HIDE DEF u
<1>4. Core(u)
  BY <1>1, <1>3, CoreView DEF Core
<1> QED BY <1>2, <1>3, <1>4

(* Whatever a stretch of the code leaves, rendering mounts what the user   *)
(* and the boot flag say (App.jsx).                                        *)
LEMMA RenderedOK ==
  ASSUME NEW t, Core(t), Mounted(t, Screen(tab)), t.booting => tab.booting, NEW s,
         Screen(t) = "app" /\ Screen(tab) = "app" => PagesOK(t, s, FALSE)
  PROVE  Settled(Rendered(t), s) /\ Calm(t, Rendered(t))
<1> DEFINE u == Rendered(t)
           was == Screen(tab)
           now == Screen(t)
<1>1. was \in {"boot", "login", "app"} /\ now \in {"boot", "login", "app"}
          /\ (now = "boot" => was = "boot")
  BY DEF Screen
<1>2. "dashboard" \in PageNames /\ t.address \in PageNames
  BY DEF Core, PageNames, Loading
<1>3. CASE was = now
  <2>1. PagesOK(t, s, FALSE)
    BY <1>3, NoPage DEF Mounted
  <2>2. CASE t.user \in {None, tab.user}
    <3>1. u = t BY <1>3, <2>2 DEF Rendered
    <3>2. Calm(t, t) BY CalmSame DEF SameTokens
    <3> QED BY <1>3, <2>1, <3>1, <3>2 DEF Settled
  <2>3. CASE t.user \notin {None, tab.user}
    <3>1. u = [t EXCEPT !.chat.log = t.kept[t.user]] BY <1>3, <2>3 DEF Rendered
    <3>2. /\ Core(u) /\ SameTokens(t, u) /\ u.user = t.user /\ u.booting = t.booting
          /\ u.count = t.count /\ u.auth = t.auth /\ u.view = t.view /\ u.flight = t.flight
      BY <3>1, RelogIs
    <3> HIDE DEF u
    <3>3. Calm(t, u) BY <3>2, CalmSame
    <3>4. SameView(t.view, u.view) BY <3>2 DEF SameView
    <3>5. PagesOK(u, s, FALSE) BY <2>1, <3>2, <3>4, PagesSame
    <3>6. Mounted(u, Screen(u)) BY <1>3, <3>2 DEF Mounted, Screen
    <3> QED BY <3>2, <3>3, <3>5, <3>6 DEF Settled, u
  <2> QED BY <2>2, <2>3
<1>4. CASE was # now /\ now = "login"
  <2>1. u = EnterLogin(t) BY <1>4 DEF Rendered
  <2>2. /\ Core(u) /\ Calm(t, u) /\ PagesOK(u, s, FALSE)
        /\ u.user = t.user /\ u.booting = t.booting /\ Mounted(u, "login")
    BY <2>1, EnterLoginOK
  <2>3. Screen(u) = "login" BY <1>4, <2>2 DEF Screen
  <2> QED BY <2>2, <2>3 DEF Settled
<1>5. CASE was # now /\ now = "app"
  <2> DEFINE p == IF was = "boot" THEN t.address ELSE "dashboard"
  <2>0. p \in PageNames BY <1>2
  <2>1. u = EnterApp(t, p) BY <1>5 DEF Rendered
  <2> HIDE DEF p
  <2>2. /\ Core(u) /\ Calm(t, u) /\ PagesOK(u, s, FALSE)
        /\ u.user = t.user /\ u.booting = t.booting /\ Mounted(u, "app")
    BY <2>0, <2>1, EnterAppOK
  <2>3. Screen(u) = "app" BY <1>5, <2>2 DEF Screen
  <2> QED BY <2>2, <2>3 DEF Settled
<1> QED BY <1>1, <1>3, <1>4, <1>5

----------------------------------------------------------------------------
(* The sign-in form, saving a token, reloading.                            *)

(* The same things are mounted.                                            *)
Keeps(t, u) ==
  /\ u.booting = t.booting /\ u.view.page = t.view.page
  /\ u.auth.mode = "closed" <=> t.auth.mode = "closed"

(* If the page was right, it still is.                                     *)
PagesToo(t, u) == \A s, waived : PagesOK(t, s, waived) => PagesOK(u, s, waived)

(* A change of the sign-in form alone.                                     *)
LEMMA AuthStep ==
  ASSUME NEW t, Core(t), NEW a, AuthShape(a), a.mode = "closed" <=> t.auth.mode = "closed"
  PROVE  LET u == [t EXCEPT !.auth = a] IN
         /\ Core(u) /\ SameTokens(t, u) /\ Keeps(t, u) /\ PagesToo(t, u) /\ Calm(t, u)
         /\ u.user = t.user /\ u.count = t.count /\ u.view = t.view /\ u.flight = t.flight
         /\ u.auth = a
<1> DEFINE u == [t EXCEPT !.auth = a]
<1>1. /\ Shape(u) /\ SameTokens(t, u) /\ u.user = t.user /\ u.booting = t.booting
      /\ u.count = t.count /\ u.view = t.view /\ u.flight = t.flight /\ u.chat = t.chat
      /\ u.dialog = t.dialog /\ u.address = t.address /\ u.auth = a
  BY DEF Core, Shape, Record, TabFields, SameTokens
<1> HIDE DEF u
<1>2. FlightOK(t.flight, t.view.page, t.view.of, a.mode)
  BY DEF Core, FlightOK, HeardOK
<1>3. Core(u)
  BY <1>1, <1>2, CoreView DEF Core
<1>4. Calm(t, u)
  BY <1>1, CalmSame
<1>5. SameView(t.view, u.view)
  BY <1>1 DEF SameView
<1>6. PagesToo(t, u)
  BY <1>1, <1>5, PagesSame DEF PagesToo
<1> QED BY <1>1, <1>3, <1>4, <1>6 DEF Keeps, u

(* What the form does with an answer changes the form alone.               *)
LEMMA AuthAnsweredOK ==
  ASSUME NEW t, Core(t), NEW r, NEW a, r.heard => t.auth.mode # "closed"
  PROVE  LET u == AuthAnswered(t, r, a) IN
         /\ Core(u) /\ Keeps(t, u) /\ PagesToo(t, u) /\ Calm(t, u) /\ u.user = t.user
<1>1. CASE ~r.heard
  <2>1. AuthAnswered(t, r, a) = t BY <1>1 DEF AuthAnswered
  <2>2. Calm(t, t) BY CalmSame DEF SameTokens
  <2> QED BY <2>1, <2>2 DEF Keeps, PagesToo
<1>2. CASE r.heard
  <2> DEFINE rested == [t.auth EXCEPT !.busy = @ \ {AuthFlag(r.what)}]
             auth == CASE a.status = "verify" -> Verifying(rested)
                       [] r.what \in {"resend", "change"}
                           /\ a.status \in {"ok", "garbled", "early"} ->
                            [rested EXCEPT !.waits = TRUE, !.changes = @ /\ r.what = "resend"]
                       [] OTHER -> rested
  <2>1. AuthAnswered(t, r, a) = [t EXCEPT !.auth = auth]
    BY <1>2 DEF AuthAnswered
  <2>2. AuthShape(rested) /\ rested.mode = t.auth.mode
    BY DEF Core, AuthShape, Record, AuthFields
  <2> HIDE DEF rested
  <2>3. AuthShape(Verifying(rested)) /\ Verifying(rested).mode = "verify"
    BY <2>2 DEF Verifying, AuthShape, Record, AuthFields
  <2>4. AuthShape(auth) /\ auth.mode \in {t.auth.mode, "verify"}
    BY <2>2, <2>3 DEF AuthShape, Record, AuthFields
  <2> HIDE DEF auth
  <2>5. auth.mode = "closed" <=> t.auth.mode = "closed"
    BY <1>2, <2>4
  <2> QED BY <2>1, <2>4, <2>5, AuthStep
<1> QED BY <1>1, <1>2

(* Requests that no page is about.                                         *)
LEMMA SendQuiet ==
  ASSUME NEW t, Core(t), NEW what \in Kinds \ PageKinds, what # "refresh",
         what \in Forms => t.auth.mode # "closed", NEW heard \in BOOLEAN
  PROVE  LET u == Send(t, what, NoArg, heard) IN
         Core(u) /\ OnlyFlight(t, u) /\ Keeps(t, u) /\ Calm(t, u) /\ PagesToo(t, u)
<1> DEFINE r == Request(t, what, NoArg, heard)
           u == Send(t, what, NoArg, heard)
<1>1. r \in Reqs /\ Sent(r, what, NoArg, Carried(t), heard)
  BY NoArgIs, RequestIs DEF Core
<1>2. HeardOK(r, t.view.page, t.view.of, t.auth.mode)
  BY <1>1 DEF Sent, HeardOK, PageKinds
<1>3. Core(u)
  BY <1>2, NoArgIs, SendOK
<1>4. OnlyFlight(t, u) /\ u.flight = Append(t.flight, r)
  BY SendIs DEF Core
<1>5. t.flight \in Seq(Reqs)
  BY DEF Core, FlightOK
<1> HIDE DEF r, u
<1>6. Calm(t, u)
  BY <1>1, <1>4, <1>5, CalmAppend DEF OnlyFlight, SameTokens, Sent
<1>7. SameView(t.view, u.view) /\ u.count = t.count /\ r.what \notin PageKinds
  BY <1>1, <1>4 DEF OnlyFlight, SameView, Sent
<1>8. PagesToo(t, u)
  BY <1>1, <1>4, <1>5, <1>7, PagesAppend DEF PagesToo
<1> QED BY <1>3, <1>4, <1>6, <1>8 DEF Keeps, OnlyFlight, u

(* The refresh asked for last speaks for what is held.                     *)
LEMMA RefreshAgrees ==
  ASSUME NEW t, Core(t), NEW then \in Handlers \cup {None, "more"},
         Carried(t) # None /\ t.cookie # None => t.cookie.user = Carried(t).user
  PROVE  AgreesOn(refresh(t, then))
<1> DEFINE u == refresh(t, then)
<1>1. OnlyFlight(t, u)
  BY RefreshOK
<1>2. PICK f, r : /\ Dims(t.flight, f, {"refresh"}) /\ u.flight = Append(f, r)
                  /\ r \in Reqs /\ r.what = "refresh" /\ r.token = Carried(t) /\ r.heard
  BY RefreshOK
<1> HIDE DEF u
<1>3. /\ DOMAIN Append(f, r) = DOMAIN f \cup {Len(f) + 1}
      /\ \A i \in DOMAIN f : Append(f, r)[i] = f[i]
      /\ Append(f, r)[Len(f) + 1] = r
  BY <1>2, Appended DEF Dims
<1>4. Asked(u)
  BY <1>2, <1>3 DEF Asked, Asks
<1>5. \A j \in DOMAIN u.flight : Asks(u.flight[j]) => u.flight[j].token = Carried(t)
  BY <1>2, <1>3 DEF Asks, Dims
<1>6. Carried(u) = Carried(t) /\ u.cookie = t.cookie
  BY <1>1 DEF OnlyFlight, Carried, Held
<1> QED BY <1>4, <1>5, <1>6 DEF AgreesOn, AgreeOn, u

(* A page load leaves a tab with a refresh under way, and the user spoken  *)
(* for is the one the stored token and the cookie agree on.                *)
LEMMA ReloadedOK ==
  ASSUME NEW t, Core(t), NEW s
  PROVE  /\ Settled(Reloaded(t), s)
         /\ (t.stored # None /\ t.cookie # None => t.stored.user = t.cookie.user)
              => AgreesOn(Reloaded(t))
<1> DEFINE b == [t EXCEPT !.memory = None, !.user = None, !.booting = TRUE, !.count = 0,
                          !.flight = <<>>, !.auth = NoAuth, !.view = NoView, !.chat = NoChat,
                          !.dialog = None]
           u == Reloaded(t)
<1>1. u = refresh(b, None)
  BY DEF Reloaded
<1>2. /\ Shape(b) /\ b.memory = None /\ b.stored = t.stored /\ b.cookie = t.cookie
      /\ b.user = None /\ b.booting = TRUE /\ b.count = 0 /\ b.flight = <<>>
      /\ b.auth = NoAuth /\ b.view = NoView /\ b.chat = NoChat /\ b.dialog = None
      /\ b.address = t.address
  BY DEF Core, Shape, Record, TabFields
<1> HIDE DEF b, u
<1>3. FlightOK(<<>>, NoView.page, NoView.of, NoAuth.mode)
  BY DEF FlightOK
<1>4. TokensOK(b) /\ b.user \in Users0 /\ b.booting \in BOOLEAN /\ b.count \in Nat
  <2>1. TokensOK(t) BY DEF Core
  <2>2. TokensOK(b) BY <1>2, <2>1 DEF TokensOK, Tokens0
  <2>3. b.user \in Users0 /\ b.count \in Nat BY <1>2 DEF Users0
  <2> QED BY <1>2, <2>2, <2>3
<1>5. DialogOK(None, NoView.page)
  BY DEF DialogOK
<1>6. Core(b)
  BY <1>2, <1>3, <1>4, <1>5, Closed, NoViewIs DEF Core
<1>7. ASSUME t.stored # None /\ t.cookie # None => t.stored.user = t.cookie.user
      PROVE  Carried(b) # None /\ b.cookie # None => b.cookie.user = Carried(b).user
  BY <1>2, <1>7 DEF Carried, Held
<1>8. Core(u) /\ OnlyFlight(b, u)
  BY <1>1, <1>6, RefreshOK
<1>9. (t.stored # None /\ t.cookie # None => t.stored.user = t.cookie.user) => AgreesOn(u)
  BY <1>1, <1>6, <1>7, RefreshAgrees
<1>10. Screen(u) = "boot" /\ u.view.page = None /\ u.auth.mode = "closed"
  BY <1>2, <1>8, Closed, NoViewIs DEF OnlyFlight, Screen
<1>11. PagesOK(u, s, FALSE)
  BY <1>10, NoPage
<1> QED BY <1>8, <1>9, <1>10, <1>11 DEF Settled, Mounted, u

(* While everything speaks for one user, the stored token and the cookie   *)
(* do.                                                                     *)
LEMMA StoreAgrees ==
  ASSUME NEW t, Core(t), AgreesOn(t)
  PROVE  t.stored # None /\ t.cookie # None => t.stored.user = t.cookie.user
BY DEF Core, TokensOK, AgreesOn, AgreeOn, Carried, Held

(* A token thrown away.                                                    *)
LEMMA DropAgrees ==
  ASSUME NEW t, Core(t), AgreesOn(t), NEW u, Saves(t, u, None), u.cookie = t.cookie,
         u.user \in {t.user, None},
         \A j \in DOMAIN u.flight : Asks(u.flight[j]) =>
           \E i \in DOMAIN t.flight : Asks(t.flight[i]) /\ t.flight[i].token = u.flight[j].token,
         Asked(t) => Asked(u)
  PROVE  AgreesOn(u)
<1>1. SUFFICES ASSUME Carried(u) # None PROVE AgreeOn(u, Carried(u).user)
  BY DEF AgreesOn
<1>2. u.memory = None /\ u.stored = None
  BY DEF Saves, Core, TokensOK
<1>3. Carried(u) = t.cookie
  BY <1>2 DEF Carried, Held
<1>4. Carried(t) # None
  BY <1>1, <1>3 DEF Carried
<1>5. AgreeOn(t, Carried(t).user)
  BY <1>4 DEF AgreesOn
<1>6. Carried(u).user = Carried(t).user
  BY <1>1, <1>3, <1>5 DEF AgreeOn
<1>7. \A j \in DOMAIN u.flight :
        Asks(u.flight[j]) /\ u.flight[j].token # None => u.flight[j].token.user = Carried(t).user
  BY <1>5 DEF AgreeOn
<1>8. Asked(u) \/ u.user \in {None, Carried(t).user}
  BY <1>5 DEF AgreeOn
<1> QED BY <1>3, <1>6, <1>7, <1>8 DEF AgreeOn

----------------------------------------------------------------------------
(* The end of a request.                                                   *)

(* How the answer a handler gets relates to the server's.                  *)
EndOK(r, a) ==
  /\ a.token \in Tokens0 /\ a.user \in Users0
  /\ \/ a = r.answer /\ r.answer # None
     \/ a.status = "lost" /\ a.token = None /\ a.user = None /\ a.data = None /\ r.at # "hung"
     \/ /\ a.status = "garbled" /\ Good(r)
        /\ a.token = r.answer.token /\ a.user = None /\ a.data = None

(* The three ways a request ends: answered, lost, or with half an answer.  *)
LEMMA EndingsAre ==
  ASSUME NEW r \in Reqs, AnsOK(r), NEW a,
         \/ r.at # "sent" /\ a = r.answer
         \/ a = Lost /\ r.at # "hung"
         \/ r.at # "sent" /\ r.answer.status = "ok" /\ a = Garbled(r.answer)
  PROVE  EndOK(r, a)
<1>1. CASE r.at # "sent" /\ a = r.answer
  <2>1. a \in Answers /\ r.answer # None
    BY <1>1 DEF AnsOK, Reqs
  <2> QED BY <1>1, <2>1 DEF EndOK, Answers, Tokens0, Users0
<1>2. CASE a = Lost /\ r.at # "hung"
  BY <1>2 DEF EndOK, Lost, Answer, Tokens0, Users0
<1>3. CASE r.at # "sent" /\ r.answer.status = "ok" /\ a = Garbled(r.answer)
  <2>1. r.answer \in Answers /\ r.answer # None
    BY <1>3 DEF AnsOK, Reqs
  <2>2. a.status = "garbled" /\ a.token = r.answer.token /\ a.user = None /\ a.data = None
    BY <1>3, <2>1 DEF Garbled, Answers
  <2> QED BY <1>3, <2>1, <2>2 DEF EndOK, Good, Answers, Tokens0, Users0
<1> QED BY <1>1, <1>2, <1>3

(* What a handler may rely on in the answer it gets.                       *)
LEMMA EndFacts ==
  ASSUME NEW r \in Reqs, AnsOK(r), NEW a, EndOK(r, a)
  PROVE  /\ r.what \notin Signs \cup {"password"} => a.token = None
         /\ a.status \notin {"ok", "garbled"} => a.token = None
         /\ r.what \in Signs /\ a.status \in {"ok", "garbled"} => a.token # None
         /\ r.what \in Signs /\ a.status = "ok" => a.user = a.token.user
         /\ a.status = "garbled" => a.user = None
         /\ a.status = "ok" => a = r.answer
         /\ a.status \in {"ok", "garbled"} => Good(r)
         /\ r.what \in {"refresh", "check"} /\ a.user # None => r.token # None
              /\ a.user = r.token.user
         /\ r.what \in PageKinds => a.data \in Data0 /\ (a.data # None => a.data.of = r.arg.of)
         /\ Gives(r.what) => (a.status = "ok" <=> a.data # None)
         /\ r.what = "password" /\ a.token # None =>
              /\ r.token # None /\ a.token.user = r.token.user
              /\ Good(r) /\ a.token = r.answer.token
<1>1. CASE a = r.answer /\ r.answer # None
  <2>1. a.status \in Statuses
    BY <1>1 DEF Reqs, Answers
  <2>2. a.status # "garbled" /\ a.status # "lost"
    BY <2>1 DEF Statuses
  <2>3. a.status = "ok" <=> Good(r)
    BY <1>1 DEF Good
  <2>4. /\ r.what \in Signs /\ a.status = "ok" => a.token # None /\ a.user = a.token.user
        /\ r.what \notin Signs \cup {"password"} \/ a.status # "ok" => a.token = None
    BY <1>1 DEF AnsOK
  <2>5. /\ r.what \in {"refresh", "check"} /\ a.user # None => r.token # None
             /\ a.user = r.token.user
        /\ r.what \in PageKinds => a.data \in Data0 /\ (a.data # None => a.data.of = r.arg.of)
        /\ Gives(r.what) => (a.status = "ok" <=> a.data # None)
        /\ r.what = "password" /\ a.status = "ok" => r.token # None /\ a.token.user = r.token.user
    BY <1>1 DEF AnsOK
  <2> QED BY <1>1, <2>2, <2>3, <2>4, <2>5
<1>2. CASE a.status = "lost" /\ a.token = None /\ a.user = None /\ a.data = None
  BY <1>2 DEF Data0
<1>3. CASE /\ a.status = "garbled" /\ Good(r)
           /\ a.token = r.answer.token /\ a.user = None /\ a.data = None
  BY <1>3 DEF AnsOK, Good, Data0
<1> QED BY <1>1, <1>2, <1>3 DEF EndOK

(* The requests that are left are those that were there but one.           *)
Lacks(f, g, i) ==
  /\ \A j \in DOMAIN g : \E k \in DOMAIN f \ {i} : g[j] = f[k]
  /\ \A k \in DOMAIN f \ {i} : \E j \in DOMAIN g : g[j] = f[k]
  /\ \A j, m \in DOMAIN g : j # m =>
       \E k, n \in DOMAIN f \ {i} : k # n /\ g[j] = f[k] /\ g[m] = f[n]

(* Removing a request leaves every other one once.                         *)
LEMMA LacksIs ==
  ASSUME NEW f \in Seq(Reqs), NEW i \in DOMAIN f
  PROVE  Lacks(f, RemoveAt(f, i), i)
<1> DEFINE g == RemoveAt(f, i)
           n == Len(f)
           at(k) == IF k < i THEN k ELSE k + 1
           to(k) == IF k < i THEN k ELSE k - 1
<1>1. /\ DOMAIN g = 1..(n - 1) /\ DOMAIN f = 1..n
      /\ \A k \in DOMAIN g : g[k] = Without(f, i, k)
  BY Removed
<1>2. n \in Nat /\ i \in 1..n
  BY <1>1
<1> HIDE DEF g, n
<1>3. \A k \in DOMAIN g : at(k) \in DOMAIN f \ {i} /\ g[k] = f[at(k)]
  BY <1>1, <1>2 DEF Without
<1>4. \A k \in DOMAIN f \ {i} : to(k) \in DOMAIN g /\ at(to(k)) = k
  BY <1>1, <1>2
<1>5. \A j, m \in DOMAIN g : j # m => at(j) # at(m)
  BY <1>1, <1>2
<1> HIDE DEF at, to
<1>6. \A k \in DOMAIN f \ {i} : g[to(k)] = f[k]
  BY <1>3, <1>4
<1> QED BY <1>3, <1>4, <1>5, <1>6 DEF Lacks, g

(* An answer without a token leaves everything with one user.              *)
LEMMA ReceivedAgrees ==
  ASSUME NEW t, Core(t), AgreesOn(t), NEW i \in DOMAIN t.flight,
         t.flight[i].what \notin {"refresh", "logout"}, NEW a, a.token = None
  PROVE  AgreesOn(Received(t, i, a)) /\ AgreesOn(onUnauth(Received(t, i, a)))
<1> DEFINE u == Received(t, i, a)
<1>1. Receipt(t, i, a, u)
  BY ReceivedIs DEF Core
<1>2. t.flight \in Seq(Reqs)
  BY DEF Core, FlightOK
<1>3. Lacks(t.flight, u.flight, i)
  BY <1>1, <1>2, LacksIs DEF Receipt
<1> HIDE DEF u
<1>4. \A j \in DOMAIN u.flight : Asks(u.flight[j]) =>
        \E k \in DOMAIN t.flight : Asks(t.flight[k]) /\ t.flight[k].token = u.flight[j].token
  BY <1>3 DEF Lacks
<1>5. Asked(t) => Asked(u)
  BY <1>3 DEF Lacks, Asked, Asks
<1>6. u.user = t.user /\ u.cookie = t.cookie /\ Named(a) = None
  BY <1>1 DEF Receipt, Named
<1>7. AgreesOn(u)
  <2>1. CASE a.status = "unauth"
    BY <1>1, <1>4, <1>5, <1>6, <2>1, DropAgrees DEF Receipt
  <2>2. CASE a.status # "unauth"
    <3>1. u.memory = t.memory /\ u.stored = t.stored BY <1>1, <1>6, <2>2 DEF Receipt
    <3>2. Carried(u) = Carried(t) BY <1>6, <3>1 DEF Carried, Held
    <3> QED BY <1>4, <1>5, <1>6, <3>2 DEF AgreesOn, AgreeOn
  <2> QED BY <2>1, <2>2
<1>8. Shape(u)
  BY <1>1 DEF Receipt, SameRest
<1>9. Calm(u, onUnauth(u))
  BY <1>8, OutIs, CalmSame DEF SameRest
<1> QED BY <1>7, <1>9, CalmAgrees DEF u

(* Requests of a page that take turns still do with one less.              *)
LEMMA TurnsRemove ==
  ASSUME NEW f, NEW g, NEW i, Lacks(f, g, i), NEW v, NEW w, w.page = v.page, w.of = v.of, NEW s,
         TurnsOK(v, f, s)
  PROVE  TurnsOK(w, g, s)
<1> SUFFICES ASSUME NEW j \in DOMAIN g
             PROVE  /\ g[j].what \in PageKinds => g[j].heard
                    /\ Gives(g[j].what) =>
                         /\ \A m \in DOMAIN g \ {j} : ~Gives(g[m].what) /\ ~Changes(g[m].what)
                         /\ Good(g[j]) => Fresh(g[j].answer.data, w.page, s)
                         /\ w.page = "estimate" => g[j].arg.of = w.of
  BY DEF TurnsOK
<1>1. PICK k \in DOMAIN f : g[j] = f[k]
  BY DEF Lacks
<1>2. g[j].what \in PageKinds => g[j].heard
  BY <1>1 DEF TurnsOK
<1>3. ASSUME Gives(g[j].what), NEW m \in DOMAIN g \ {j}
      PROVE  ~Gives(g[m].what) /\ ~Changes(g[m].what)
  <2>1. PICK kk \in DOMAIN f \ {i}, n \in DOMAIN f \ {i} : kk # n /\ g[j] = f[kk] /\ g[m] = f[n]
    BY <1>3 DEF Lacks
  <2> QED BY <1>3, <2>1 DEF TurnsOK
<1>4. Gives(g[j].what) => /\ Good(g[j]) => Fresh(g[j].answer.data, w.page, s)
                          /\ w.page = "estimate" => g[j].arg.of = w.of
  BY <1>1 DEF TurnsOK
<1> QED BY <1>2, <1>3, <1>4

(* A request ends that no page is about, or that leaves no trace.          *)
LEMMA PagesRemove ==
  ASSUME NEW t, t.flight \in Seq(Reqs), NEW u, NEW i \in DOMAIN t.flight,
      SameView(t.view, u.view),
         u.flight = RemoveAt(t.flight, i), NEW s, NEW waived, PagesOK(t, s, waived),
         u.count = t.count,
         waived \/ (~Excuses(t.flight[i]) /\ \A q : ~Hides(t.flight[i], q))
  PROVE  PagesOK(u, s, waived)
<1> DEFINE f == t.flight
           g == u.flight
<1>1. Lacks(f, g, i)
  BY LacksIs
<1> HIDE DEF f, g
<1>2. TurnsOK(t.view, f, s) => TurnsOK(u.view, g, s)
  BY <1>1, TurnsRemove DEF SameView
<1>3. ~Excuses(f[i]) => (Excused(g) <=> Excused(f))
  BY <1>1 DEF Excused, Lacks
<1>4. (\A q : ~Hides(f[i], q)) => \A q : Hidden(g, q) <=> Hidden(f, q)
  BY <1>1 DEF Hidden, Lacks
<1>5. ASSUME ~Excuses(f[i]), \A q : ~Hides(f[i], q), ShownOK(t.view, f, s)
      PROVE  ShownOK(u.view, g, s)
  BY <1>3, <1>4, <1>5 DEF ShownOK, Matches, SameView
<1> QED BY <1>2, <1>5 DEF PagesOK, Straight, CountOK, SameView, f, g

(* A page stays right when an answer arrives that it does not wait for.    *)
LEMMA ReceivedPages ==
  ASSUME NEW t, Core(t), NEW i \in DOMAIN t.flight, NEW a, NEW s, NEW waived,
      PagesOK(t, s, waived),
         waived \/ (~Excuses(t.flight[i]) /\ \A q : ~Hides(t.flight[i], q))
  PROVE  PagesOK(Received(t, i, a), s, waived)
<1> DEFINE u == Received(t, i, a)
<1>1. Receipt(t, i, a, u)
  BY ReceivedIs DEF Core
<1>2. t.flight \in Seq(Reqs)
  BY DEF Core, FlightOK
<1> HIDE DEF u
<1>3. SameView(t.view, u.view) /\ u.count = t.count /\ u.flight = RemoveAt(t.flight, i)
  BY <1>1 DEF Receipt, SameRest, SameView
<1> QED BY <1>2, <1>3, PagesRemove DEF u

(* Receiving an answer leaves everything mounted and shown as it is.       *)
LEMMA ReceivedKeeps ==
  ASSUME NEW t, Core(t), NEW i \in DOMAIN t.flight, NEW a, a.token \in Tokens0
  PROVE  LET u == Received(t, i, a) IN
         /\ Core(u) /\ Keeps(t, u) /\ u.user = t.user /\ u.auth = t.auth /\ u.view = t.view
         /\ u.count = t.count /\ u.flight = RemoveAt(t.flight, i) /\ Receipt(t, i, a, u)
BY ReceivedOK, ReceivedIs DEF Core, Receipt, SameRest, Keeps

----------------------------------------------------------------------------
(* The invariant, and how a stretch of the code ends.                      *)

(* The server's side.                                                      *)
ServerOK(s) ==
  /\ s.row \in [Items -> {"active", "archived", "gone"}] /\ s.edits \in Nat
  /\ s.epoch \in [Users -> Nat]

(* The invariant.                                                          *)
Inv == ServerOK(server) /\ Settled(tab, server)

(* A 401 is an answer to a page's request or to the support window.        *)
LEMMA UnauthFrom ==
  ASSUME NEW r \in Reqs, AnsOK(r), NEW a, EndOK(r, a), a.status = "unauth"
  PROVE  r.what \in PageKinds \cup {"status", "chat"} /\ ~Good(r)
<1>1. a = r.answer /\ r.answer # None
  BY DEF EndOK
<1> QED BY <1>1 DEF AnsOK, Good

(* A handler's stretch ends and the tab is rendered.                       *)
LEMMA Finish ==
  ASSUME NEW t, Core(t), Mounted(t, Screen(tab)), t.booting => tab.booting,
         Screen(t) = "app" /\ Screen(tab) = "app" => PagesOK(t, server, FALSE), Becomes(t)
  PROVE  Settled(tab', server) /\ (AgreesOn(t) => AgreesOn(tab')) /\ SameTokens(t, tab')
<1>1. tab' = Rendered(t)
  BY DEF Becomes
<1> QED BY <1>1, RenderedOK, CalmAgrees DEF Calm

(* A step without one.                                                     *)
LEMMA Direct ==
  ASSUME Settled(tab, server), NEW t, Core(t), Keeps(tab, t), PagesOK(t, server, FALSE),
      t.user = tab.user,
         Calm(tab, t), tab' = t
  PROVE  Settled(tab', server) /\ (AgreesOn(tab) => AgreesOn(tab'))
<1>1. Screen(t) = Screen(tab)
  BY DEF Keeps, Screen
<1>2. Mounted(t, Screen(t))
  BY <1>1 DEF Settled, Mounted, Keeps
<1> QED BY <1>2, CalmAgrees DEF Settled

(* What keeps the same things mounted keeps them rightly mounted.          *)
LEMMA KeepsMounted ==
  ASSUME NEW t, NEW u, Keeps(t, u), NEW screen, Mounted(t, screen)
  PROVE  Mounted(u, screen)
BY DEF Keeps, Mounted

(* Two steps that keep things mounted are one.                             *)
LEMMA KeepsTwice ==
  ASSUME NEW t, NEW u, NEW w, Keeps(t, u), Keeps(u, w)
  PROVE  Keeps(t, w)
BY DEF Keeps

(* Two steps that keep pages right are one.                                *)
LEMMA PagesTwice ==
  ASSUME NEW t, NEW u, NEW w, PagesToo(t, u), PagesToo(u, w)
  PROVE  PagesToo(t, w)
BY DEF PagesToo

(* After applyAuth the token, the cookie and the user are of one account,  *)
(* and earlier refreshes are not heard (AppContext.jsx:117-128).           *)
LEMMA ApplyAuthOK ==
  ASSUME NEW t, Core(t), NEW a, a.token # None, a.token \in Tokens0, a.user \in Users0,
         t.cookie = a.token, a.status \in {"ok", "garbled"},
         a.status = "ok" => a.user = a.token.user, a.status = "garbled" => a.user = None
  PROVE  LET u == applyAuth(t, a) IN
         Core(u) /\ AgreesOn(u) /\ Keeps(t, u) /\ PagesToo(t, u) /\ u.auth = t.auth
<1> DEFINE d == Deafen(t, {"refresh"})
           q == saveSessionToken(d, Named(a))
           u == applyAuth(t, a)
<1>1. Core(d) /\ OnlyFlight(t, d) /\ Dims(t.flight, d.flight, {"refresh"})
  BY DeafenOK, DeafenIs DEF Core, FlightOK
<1>2. Named(a) \in Tokens0
  BY DEF Named, Tokens0
<1>3. u = IF a.user # None THEN [q EXCEPT !.user = a.user] ELSE refresh(q, None)
  BY DEF applyAuth
<1> HIDE DEF d, u
<1>4. Core(q) /\ SameRest(d, q) /\ q.user = d.user /\ q.count = d.count /\ q.flight = d.flight
      /\ q.cookie = d.cookie /\ Saves(d, q, Named(a))
  BY <1>1, <1>2, SaveOK, SaveIs DEF Core
<1> HIDE DEF q
<1>5. SameView(t.view, q.view) /\ q.count = t.count /\ q.flight = d.flight /\ q.auth = t.auth
      /\ q.booting = t.booting /\ q.view = t.view /\ q.cookie = a.token
  BY <1>1, <1>4 DEF SameView, OnlyFlight, SameRest
<1>6. {"refresh"} \cap PageKinds = {}
  BY DEF PageKinds, Handlers, HandlerOf
<1>7. PagesToo(t, q)
  BY <1>1, <1>5, <1>6, PagesDims DEF PagesToo
<1>8. ~Asked(q)
  BY <1>1, <1>4 DEF Asked, Asks, Dims
<1>9. CASE a.user # None
  <2> DEFINE w == [q EXCEPT !.user = a.user]
  <2>1. a.status = "ok" /\ Named(a) = a.token /\ a.user = a.token.user
    BY <1>9 DEF Named
  <2>2. SameRest(q, w) /\ SameTokens(q, w) /\ w.user = a.user /\ w.count = q.count
            /\ w.flight = q.flight
        /\ w.view = q.view /\ w.auth = q.auth /\ w.booting = q.booting
    BY <1>4 DEF Core, Shape, Record, TabFields, SameRest, SameTokens
  <2>3. u = w BY <1>3, <1>9
  <2> HIDE DEF w
  <2>4. Core(w)
    BY <1>4, <2>2, CoreStep DEF Core, TokensOK, SameTokens
  <2>5. SameView(q.view, w.view) BY <2>2 DEF SameView
  <2>6. PagesToo(q, w)
    BY <2>2, <2>5, PagesSame DEF PagesToo
  <2>7. Carried(w) = a.token /\ w.cookie = a.token
    BY <1>4, <1>5, <2>1, <2>2 DEF Saves, SameTokens, Carried, Held
  <2>8. AgreesOn(w)
    BY <1>8, <2>1, <2>2, <2>7 DEF AgreesOn, AgreeOn, Asked
  <2> QED BY <1>5, <1>7, <2>2, <2>3, <2>4, <2>6, <2>8, PagesTwice DEF u, Keeps
<1>10. CASE a.user = None
  <2>1. a.status = "garbled" \/ None \in Users
    BY <1>10 DEF Tokens0, Tokens
  <2>2. Named(a) = None
    BY <2>1, ApiAssumption DEF Named
  <2>3. u = refresh(q, None) BY <1>3, <1>10
  <2>4. q.memory = None /\ q.stored = None
    BY <1>4, <2>2 DEF Saves, Core, TokensOK
  <2>5. Carried(q) = q.cookie
    BY <2>4 DEF Carried, Held
  <2>6. AgreesOn(u)
    BY <1>4, <2>3, <2>5, RefreshAgrees
  <2>7. Core(u) /\ OnlyFlight(q, u)
    BY <1>4, <2>3, RefreshOK
  <2>8. PagesToo(q, u)
    BY <1>4, <2>3, PagesRefresh DEF PagesToo
  <2>9. PagesToo(t, u)
    BY <1>7, <2>8, PagesTwice
  <2> QED BY <1>5, <2>6, <2>7, <2>9 DEF u, Keeps, OnlyFlight
<1> QED BY <1>9, <1>10

(* The end of a form of the sign-in page.                                  *)
LEMMA FormEndsOK ==
  ASSUME Settled(tab, server), NEW i \in Requests, tab.flight[i].what \in Forms,
         NEW a, EndOK(tab.flight[i], a), FormEnds(i, a)
  PROVE  Settled(tab', server) /\ (AgreesOn(tab) => AgreesOn(tab'))
<1> DEFINE r == tab.flight[i]
           t == Received(tab, i, a)
           in == applyAuth(t, a)
<1>1. Core(tab) /\ Mounted(tab, Screen(tab)) /\ PagesOK(tab, server, FALSE)
  BY DEF Settled
<1>2. i \in DOMAIN tab.flight /\ r \in Reqs /\ AnsOK(r) /\ (r.heard => tab.auth.mode # "closed")
  BY <1>1 DEF Core, FlightOK, HeardOK, Requests
<1>3. a.token \in Tokens0 /\ a.user \in Users0
  BY DEF EndOK
<1>4. /\ Core(t) /\ Keeps(tab, t) /\ t.user = tab.user /\ t.auth = tab.auth
      /\ Receipt(tab, i, a, t)
  BY <1>1, <1>2, <1>3, ReceivedKeeps
<1>5. r.what \notin PageKinds /\ r.what \notin {"refresh", "logout"}
  BY DEF Forms, PageKinds, Handlers, HandlerOf
<1>6. PagesOK(t, server, FALSE)
  BY <1>1, <1>2, <1>5, OfPages, ReceivedPages
<1>7. CASE a.status \in {"ok", "garbled"} /\ r.what \in Signs
  <2>1. /\ a.token # None /\ (a.status = "ok" => a.user = a.token.user)
        /\ (a.status = "garbled" => a.user = None)
    BY <1>2, <1>7, EndFacts
  <2>2. t.cookie = a.token
    BY <1>4, <1>5, <2>1 DEF Receipt
  <2>3. Core(in) /\ AgreesOn(in) /\ Keeps(t, in) /\ PagesToo(t, in) /\ in.auth = t.auth
    BY <1>3, <1>4, <1>7, <2>1, <2>2, ApplyAuthOK
  <2> DEFINE w == IF r.what = "login" THEN Send(in, "check", NoArg, r.heard)
                                     ELSE AuthAnswered(in, r, a)
  <2>4. Becomes(w)
    BY <1>7 DEF FormEnds, Signs
  <2> HIDE DEF in, t, r
  <2>5. Core(w) /\ Keeps(in, w) /\ Calm(in, w) /\ PagesToo(in, w)
    <3>1. CASE r.what = "login"
      <4>1. "check" \in Kinds \ PageKinds /\ "check" # "refresh" /\ "check" \notin Forms
        BY DEF Kinds, AuthRequests, PageKinds, Handlers, HandlerOf, Forms
      <4>2. r.heard \in BOOLEAN BY <1>2 DEF Reqs
      <4> QED BY <2>3, <3>1, <4>1, <4>2, SendQuiet
    <3>2. CASE r.what # "login"
      BY <1>2, <1>4, <2>3, <3>2, AuthAnsweredOK
    <3> QED BY <3>1, <3>2
  <2> HIDE DEF w
  <2>6. AgreesOn(w) BY <2>3, <2>5, CalmAgrees
  <2>7. PagesOK(w, server, FALSE) BY <1>6, <2>3, <2>5 DEF PagesToo
  <2>8. Keeps(tab, w) BY <1>4, <2>3, <2>5, KeepsTwice
  <2>9. Mounted(w, Screen(tab)) /\ (w.booting => tab.booting)
    BY <1>1, <2>8, KeepsMounted DEF Keeps
  <2> QED BY <2>4, <2>5, <2>6, <2>7, <2>9, Finish
<1>8. CASE ~(a.status \in {"ok", "garbled"} /\ r.what \in Signs)
  <2> DEFINE w == AuthAnswered(t, r, a)
  <2>1. Becomes(w)
    BY <1>8 DEF FormEnds, Signs
  <2>2. a.token = None
    <3>1. "password" \notin Forms BY DEF Forms
    <3> QED BY <1>2, <1>8, <3>1, EndFacts
  <2>3. AgreesOn(tab) => AgreesOn(t)
    BY <1>1, <1>2, <1>5, <2>2, ReceivedAgrees
  <2> HIDE DEF t, r
  <2>4. Core(w) /\ Keeps(t, w) /\ Calm(t, w) /\ PagesToo(t, w)
    BY <1>2, <1>4, AuthAnsweredOK
  <2> HIDE DEF w
  <2>5. AgreesOn(tab) => AgreesOn(w) BY <2>3, <2>4, CalmAgrees
  <2>6. PagesOK(w, server, FALSE) BY <1>6, <2>4 DEF PagesToo
  <2>7. Keeps(tab, w) BY <1>4, <2>4, KeepsTwice
  <2>8. Mounted(w, Screen(tab)) /\ (w.booting => tab.booting)
    BY <1>1, <2>7, KeepsMounted DEF Keeps
  <2> QED BY <2>1, <2>4, <2>5, <2>6, <2>8, Finish
<1> QED BY <1>7, <1>8

(* A change of the view alone, on the same page.                           *)
LEMMA ViewStep ==
  ASSUME NEW t, Core(t), NEW v, ViewOK(v), v.page = t.view.page,
         FlightOK(t.flight, v.page, v.of, t.auth.mode)
  PROVE  LET u == [t EXCEPT !.view = v] IN
         /\ Core(u) /\ SameTokens(t, u) /\ Keeps(t, u) /\ Calm(t, u)
         /\ u.user = t.user /\ u.count = t.count /\ u.view = v /\ u.flight = t.flight
         /\ u.auth = t.auth /\ u.dialog = t.dialog
         /\ (SameView(t.view, v) => PagesToo(t, u))
<1> DEFINE u == [t EXCEPT !.view = v]
<1>1. /\ Shape(u) /\ SameTokens(t, u) /\ u.user = t.user /\ u.booting = t.booting
      /\ u.count = t.count /\ u.view = v /\ u.flight = t.flight /\ u.chat = t.chat
      /\ u.dialog = t.dialog /\ u.address = t.address /\ u.auth = t.auth
  BY DEF Core, Shape, Record, TabFields, SameTokens
<1> HIDE DEF u
<1>2. Core(u)
  BY <1>1, CoreView DEF Core
<1>3. Calm(t, u)
  BY <1>1, CalmSame
<1>4. SameView(t.view, v) => PagesToo(t, u)
  BY <1>1, PagesSame DEF PagesToo
<1> QED BY <1>1, <1>2, <1>3, <1>4 DEF Keeps, u

(* The flags of the buttons.                                               *)
LEMMA FlagStep ==
  ASSUME NEW t, Core(t), NEW busy
  PROVE  LET u == [t EXCEPT !.view.busy = busy] IN
         /\ Core(u) /\ SameTokens(t, u) /\ Keeps(t, u) /\ Calm(t, u) /\ PagesToo(t, u)
         /\ u.user = t.user /\ u.count = t.count /\ u.flight = t.flight /\ u.auth = t.auth
         /\ u.dialog = t.dialog
         /\ u.view.page = t.view.page /\ u.view.of = t.view.of /\ u.view.data = t.view.data
         /\ u.view.crossed = t.view.crossed
<1> DEFINE v == [t.view EXCEPT !.busy = busy]
           u == [t EXCEPT !.view = v]
<1>1. [t EXCEPT !.view.busy = busy] = u
  OBVIOUS
<1>2. /\ ViewOK(v) /\ v.page = t.view.page /\ v.of = t.view.of /\ v.data = t.view.data
      /\ v.crossed = t.view.crossed
  BY DEF Core, ViewOK, ViewShape, Record, ViewFields
<1>3. SameView(t.view, v)
  BY <1>2 DEF SameView
<1>4. FlightOK(t.flight, v.page, v.of, t.auth.mode)
  BY <1>2 DEF Core
<1> HIDE DEF v
<1>5. /\ Core(u) /\ SameTokens(t, u) /\ Keeps(t, u) /\ Calm(t, u)
      /\ u.user = t.user /\ u.count = t.count /\ u.view = v /\ u.flight = t.flight
      /\ u.auth = t.auth /\ u.dialog = t.dialog
      /\ (SameView(t.view, v) => PagesToo(t, u))
  BY <1>2, <1>4, ViewStep
<1> QED BY <1>1, <1>2, <1>3, <1>5

(* Asking for the user leaves what is shown as it is.                      *)
LEMMA RefreshKeeps ==
  ASSUME NEW t, Core(t), NEW then \in Handlers \cup {None, "more"}
  PROVE  LET u == refresh(t, then) IN
         Core(u) /\ OnlyFlight(t, u) /\ Keeps(t, u) /\ Calm(t, u) /\ PagesToo(t, u)
BY RefreshOK, CalmRefresh, PagesRefresh DEF Keeps, OnlyFlight, PagesToo

(* What waited for a load or for the user goes on, with flags and a        *)
(* refresh only.                                                           *)
LEMMA ResumedOK ==
  ASSUME NEW t, Core(t), NEW r, NEW then, NEW good
  PROVE  LET u == Resumed(t, r, then, good) IN
         Core(u) /\ Keeps(t, u) /\ Calm(t, u) /\ PagesToo(t, u) /\ u.user = t.user
<1> DEFINE busy == IF then = "more" THEN t.view.busy \ {"more"}
                                    ELSE Lowered(t.view.busy, then, None)
           rested == IF r.heard /\ then # None THEN [t EXCEPT !.view.busy = busy] ELSE t
           u == Resumed(t, r, then, good)
<1>1. Resumed(t, r, then, good) =
        IF then \in Handlers /\ HandlerOf[then].on = {"account"} /\ good
        THEN refresh(rested, None) ELSE rested
  BY DEF Resumed
<1> HIDE DEF busy, u
<1>2. Calm(t, t) /\ Keeps(t, t) /\ PagesToo(t, t)
  BY CalmSame DEF SameTokens, Keeps, PagesToo
<1>3. /\ Core(rested) /\ Keeps(t, rested) /\ Calm(t, rested) /\ PagesToo(t, rested)
      /\ rested.user = t.user
  <2>1. CASE r.heard /\ then # None
    BY <2>1, FlagStep
  <2>2. CASE ~(r.heard /\ then # None)
    BY <1>2, <2>2
  <2> QED BY <2>1, <2>2
<1> HIDE DEF rested
<1>4. LET w == refresh(rested, None) IN
      /\ Core(w) /\ OnlyFlight(rested, w) /\ Keeps(rested, w) /\ Calm(rested, w)
      /\ PagesToo(rested, w)
  BY <1>3, RefreshKeeps
<1>5. LET w == refresh(rested, None) IN
      Core(w) /\ Keeps(t, w) /\ Calm(t, w) /\ PagesToo(t, w) /\ w.user = t.user
  BY <1>3, <1>4, CalmTwice, KeepsTwice, PagesTwice DEF OnlyFlight
<1> QED BY <1>1, <1>3, <1>5

(* The end of a refresh: heard, it shows the user its token names.         *)
LEMMA RefreshEndsOK ==
  ASSUME Settled(tab, server), NEW i \in Requests, tab.flight[i].what = "refresh",
         NEW a, EndOK(tab.flight[i], a), RefreshEnds(i, a)
  PROVE  Settled(tab', server) /\ (AgreesOn(tab) => AgreesOn(tab'))
<1> DEFINE r == tab.flight[i]
           t == Received(tab, i, a)
           q == Refreshed(i, a)
           w == Resumed(q, r, r.arg.then, TRUE)
<1>1. Core(tab) /\ Mounted(tab, Screen(tab)) /\ PagesOK(tab, server, FALSE)
  BY DEF Settled
<1>2. i \in DOMAIN tab.flight /\ r \in Reqs /\ AnsOK(r) /\ tab.flight \in Seq(Reqs)
  BY <1>1 DEF Core, FlightOK, Requests
<1>3. a.token \in Tokens0 /\ a.user \in Users0
  BY DEF EndOK
<1>4. /\ Core(t) /\ Keeps(tab, t) /\ t.user = tab.user /\ t.auth = tab.auth /\ t.view = tab.view
      /\ t.count = tab.count /\ t.flight = RemoveAt(tab.flight, i) /\ Receipt(tab, i, a, t)
  BY <1>1, <1>2, <1>3, ReceivedKeeps
<1>5. r.what \notin PageKinds
  BY DEF PageKinds, Handlers, HandlerOf
<1>6. PagesOK(t, server, FALSE)
  BY <1>1, <1>2, <1>5, OfPages, ReceivedPages
<1>7. /\ a.token = None /\ a.status # "unauth"
      /\ (a.user # None => r.token # None /\ a.user = r.token.user)
  <2>1. r.what \notin Signs \cup {"password"} BY DEF Signs
  <2>2. a.token = None /\ (a.user # None => r.token # None /\ a.user = r.token.user)
    BY <1>2, <2>1, EndFacts
  <2>3. a.status # "unauth"
    BY <1>2, <1>5, UnauthFrom
  <2> QED BY <2>2, <2>3
<1>8. SameTokens(tab, t) /\ Carried(t) = Carried(tab)
  BY <1>4, <1>7 DEF Receipt, Named, SameTokens, Carried, Held
<1>9. Lacks(tab.flight, t.flight, i)
  BY <1>2, <1>4, LacksIs
<1>10. q = IF r.heard THEN [t EXCEPT !.user = a.user, !.booting = FALSE] ELSE t
  BY DEF Refreshed
<1>11. Becomes(w)
  BY DEF RefreshEnds
<1> HIDE DEF t, q, r
<1>12. /\ Core(q) /\ q.view = t.view /\ q.auth = t.auth /\ q.count = t.count
            /\ q.flight = t.flight
       /\ SameTokens(t, q) /\ (q.booting => tab.booting)
       /\ q.user = IF r.heard THEN a.user ELSE t.user
  <2>1. CASE r.heard
    <3> DEFINE x == [t EXCEPT !.user = a.user, !.booting = FALSE]
    <3>1. /\ Shape(x) /\ x.view = t.view /\ x.auth = t.auth /\ x.count = t.count
               /\ x.flight = t.flight
          /\ SameTokens(t, x) /\ x.user = a.user /\ x.booting = FALSE /\ x.chat = t.chat
          /\ x.dialog = t.dialog /\ x.address = t.address
      BY <1>4 DEF Core, Shape, Record, TabFields, SameTokens
    <3>2. q = x BY <1>10, <2>1
    <3> HIDE DEF x
    <3>3. TokensOK(x) BY <1>4, <3>1 DEF Core, TokensOK, SameTokens
    <3>4. x.booting \in BOOLEAN BY <3>1
    <3>5. Core(x) BY <1>3, <1>4, <3>1, <3>3, <3>4 DEF Core
    <3> QED BY <2>1, <3>1, <3>2, <3>5
  <2>2. CASE ~r.heard
    BY <1>4, <1>10, <2>2 DEF SameTokens, Keeps
  <2> QED BY <2>1, <2>2
<1> HIDE DEF w
<1>13. AgreesOn(tab) => AgreesOn(q)
  <2> SUFFICES ASSUME AgreesOn(tab), Carried(tab) # None PROVE AgreeOn(q, Carried(tab).user)
    BY <1>8, <1>12 DEF AgreesOn, SameTokens, Carried, Held
  <2>1. AgreeOn(tab, Carried(tab).user) BY DEF AgreesOn
  <2>2. q.cookie = tab.cookie BY <1>8, <1>12 DEF SameTokens
  <2>3. \A j \in DOMAIN q.flight :
          Asks(q.flight[j]) /\ q.flight[j].token # None
              => q.flight[j].token.user = Carried(tab).user
    BY <1>9, <1>12, <2>1 DEF AgreeOn, Lacks
  <2>4. Asked(q) \/ q.user \in {None, Carried(tab).user}
    <3>1. CASE r.heard
      <4>1. Asks(r) BY <3>1 DEF Asks, r
      <4>2. r.token # None => r.token.user = Carried(tab).user
        BY <1>2, <2>1, <4>1 DEF AgreeOn, r
      <4> QED BY <1>7, <1>12, <3>1, <4>2
    <3>2. CASE ~r.heard
      <4>1. ~Asks(r) BY <3>2 DEF Asks
      <4>2. Asked(tab) => Asked(q)
        BY <1>9, <1>12, <4>1 DEF Asked, Lacks, r
      <4> QED BY <1>4, <1>12, <2>1, <3>2, <4>2 DEF AgreeOn
    <3> QED BY <3>1, <3>2
  <2> QED BY <2>1, <2>2, <2>3, <2>4 DEF AgreeOn
<1>14. PagesOK(q, server, FALSE)
  <2>1. SameView(t.view, q.view) BY <1>12 DEF SameView
  <2> QED BY <1>6, <1>12, <2>1, PagesSame
<1>15. Core(w) /\ Keeps(q, w) /\ Calm(q, w) /\ PagesToo(q, w) /\ w.user = q.user
  <2>1. w = Resumed(q, r, r.arg.then, TRUE) BY DEF w
  <2>2. Core(q) BY <1>12
  <2> QED BY <2>1, <2>2, ResumedOK
<1>16. Mounted(q, Screen(tab))
  BY <1>1, <1>4, <1>12 DEF Mounted
<1>17. Mounted(w, Screen(tab)) /\ (w.booting => tab.booting) /\ PagesOK(w, server, FALSE)
  BY <1>12, <1>14, <1>15, <1>16, KeepsMounted DEF Keeps, PagesToo
<1>18. AgreesOn(tab) => AgreesOn(w)
  BY <1>13, <1>15, CalmAgrees
<1> QED BY <1>11, <1>15, <1>17, <1>18, Finish

(* The end of the /me after a sign-in.                                     *)
LEMMA CheckEndsOK ==
  ASSUME Settled(tab, server), NEW i \in Requests, tab.flight[i].what = "check",
         NEW a, EndOK(tab.flight[i], a), CheckEnds(i, a)
  PROVE  Settled(tab', server) /\ (AgreesOn(tab) => AgreesOn(tab'))
<1> DEFINE r == tab.flight[i]
           t == Received(tab, i, a)
           q == IF r.heard THEN [t EXCEPT !.auth.busy = @ \ {"submit"}] ELSE t
           w == IF a.user = None THEN saveSessionToken(q, None)
                ELSE IF Screen(t) = "app" /\ t.view.page # "dashboard"
                  THEN OpenPage(q, "dashboard")
                ELSE q
<1>1. Core(tab) /\ Mounted(tab, Screen(tab)) /\ PagesOK(tab, server, FALSE)
  BY DEF Settled
<1>2. i \in DOMAIN tab.flight /\ r \in Reqs /\ AnsOK(r)
  BY <1>1 DEF Core, FlightOK, Requests
<1>3. a.token \in Tokens0 /\ a.user \in Users0
  BY DEF EndOK
<1>4. Core(t) /\ Keeps(tab, t) /\ t.user = tab.user
  BY <1>1, <1>2, <1>3, ReceivedKeeps
<1>5. r.what \notin PageKinds
  BY DEF PageKinds, Handlers, HandlerOf
<1>6. PagesOK(t, server, FALSE)
  BY <1>1, <1>2, <1>5, OfPages, ReceivedPages
<1>7. a.token = None
  <2>1. r.what \notin Signs \cup {"password"} BY DEF Signs
  <2> QED BY <1>2, <2>1, EndFacts
<1>8. AgreesOn(tab) => AgreesOn(t)
  BY <1>1, <1>2, <1>7, ReceivedAgrees
<1>9. Becomes(w)
  BY DEF CheckEnds
<1> HIDE DEF t, w
<1>10. Core(q) /\ Keeps(t, q) /\ PagesToo(t, q) /\ Calm(t, q) /\ q.user = t.user
  <2>1. CASE r.heard
    <3> DEFINE x == [t.auth EXCEPT !.busy = @ \ {"submit"}]
    <3>1. AuthShape(x) /\ x.mode = t.auth.mode
      BY <1>4 DEF Core, AuthShape, Record, AuthFields
    <3>2. q = [t EXCEPT !.auth = x] BY <2>1
    <3> HIDE DEF x, q
    <3> QED BY <1>4, <3>1, <3>2, AuthStep
  <2>2. CASE ~r.heard
    BY <1>4, <2>2, CalmSame DEF SameTokens, Keeps, PagesToo
  <2> QED BY <2>1, <2>2
<1> HIDE DEF q
<1>11. AgreesOn(tab) => AgreesOn(q)
  BY <1>8, <1>10, CalmAgrees
<1>12. PagesOK(q, server, FALSE) /\ Keeps(tab, q)
  BY <1>4, <1>6, <1>10, KeepsTwice DEF PagesToo
<1>13. Mounted(q, Screen(tab)) /\ (q.booting => tab.booting)
  BY <1>1, <1>12, KeepsMounted DEF Keeps
<1>14. CASE a.user = None
  <2>1. w = saveSessionToken(q, None) BY <1>14 DEF w
  <2>2. /\ Core(w) /\ SameRest(q, w) /\ w.user = q.user /\ w.count = q.count
             /\ w.flight = q.flight
        /\ w.cookie = q.cookie /\ Saves(q, w, None)
    BY <1>10, <2>1, SaveOK, SaveIs DEF Core, Tokens0
  <2>3. SameView(q.view, w.view) BY <2>2 DEF SameRest, SameView
  <2>4. PagesOK(w, server, FALSE) BY <1>12, <2>2, <2>3, PagesSame
  <2>5. AgreesOn(q) => AgreesOn(w) BY <1>10, <2>2, DropAgrees DEF Asked
  <2>6. Mounted(w, Screen(tab)) /\ (w.booting => tab.booting)
    BY <1>13, <2>2 DEF SameRest, Mounted
  <2> QED BY <1>9, <1>11, <2>2, <2>4, <2>5, <2>6, Finish
<1>15. CASE a.user # None /\ Screen(t) = "app" /\ t.view.page # "dashboard"
  <2>1. w = OpenPage(q, "dashboard") BY <1>15 DEF w
  <2>2. "dashboard" \in PageNames BY DEF PageNames, Loading
  <2>3. /\ Core(w) /\ Calm(q, w) /\ PagesOK(w, server, FALSE)
        /\ w.user = q.user /\ w.booting = q.booting /\ w.auth = q.auth
             /\ w.view.page = "dashboard"
    BY <1>10, <2>1, <2>2, OpenPageOK
  <2>4. AgreesOn(q) => AgreesOn(w) BY <2>3, CalmAgrees
  <2>5. Screen(tab) = "app" BY <1>4, <1>15 DEF Keeps, Screen
  <2>6. Mounted(w, Screen(tab)) /\ (w.booting => tab.booting)
    BY <1>13, <2>2, <2>3, <2>5, Strings DEF Mounted
  <2> QED BY <1>9, <1>11, <2>3, <2>4, <2>6, Finish
<1>16. CASE a.user # None /\ ~(Screen(t) = "app" /\ t.view.page # "dashboard")
  <2>1. w = q BY <1>16 DEF w
  <2> QED BY <1>9, <1>10, <1>11, <1>12, <1>13, <2>1, Finish
<1> QED BY <1>14, <1>15, <1>16

(* A button of the sign-in page.                                           *)
LEMMA PressOK ==
  ASSUME Settled(tab, server), NEW what \in Forms, Press(what)
  PROVE  Settled(tab', server) /\ (AgreesOn(tab) => AgreesOn(tab'))
<1> DEFINE x == [tab.auth EXCEPT !.busy = @ \cup {AuthFlag(what)}]
           t == [tab EXCEPT !.auth = x]
           u == Send(t, what, NoArg, TRUE)
<1>1. Core(tab) /\ Mounted(tab, Screen(tab)) /\ PagesOK(tab, server, FALSE)
  BY DEF Settled
<1>2. Screen(tab) = "login" /\ tab' = u
  BY DEF Press
<1>3. AuthShape(x) /\ x.mode = tab.auth.mode
  BY <1>1 DEF Core, AuthShape, Record, AuthFields
<1> HIDE DEF x
<1>4. /\ Core(t) /\ SameTokens(tab, t) /\ Keeps(tab, t) /\ PagesToo(tab, t) /\ Calm(tab, t)
      /\ t.user = tab.user /\ t.auth = x
  BY <1>1, <1>3, AuthStep
<1>5. t.auth.mode # "closed"
  BY <1>1, <1>2, <1>3, <1>4 DEF Mounted
<1>6. what \in Kinds \ PageKinds /\ what # "refresh"
  BY DEF Forms, Kinds, AuthRequests, PageKinds, Handlers, HandlerOf
<1> HIDE DEF t
<1>7. Core(u) /\ OnlyFlight(t, u) /\ Keeps(t, u) /\ Calm(t, u) /\ PagesToo(t, u)
  BY <1>4, <1>5, <1>6, SendQuiet, TRUE \in BOOLEAN
<1> HIDE DEF u
<1>8. Calm(tab, u) /\ Keeps(tab, u) /\ PagesOK(u, server, FALSE) /\ u.user = tab.user
  BY <1>1, <1>4, <1>7, CalmTwice, KeepsTwice DEF PagesToo, OnlyFlight
<1> QED BY <1>2, <1>7, <1>8, Direct

(* The controls of the sign-in page that send nothing.                     *)
LEMMA AuthOnly ==
  ASSUME Settled(tab, server), NEW x, AuthShape(x),
      x.mode = "closed" <=> tab.auth.mode = "closed",
         tab' = [tab EXCEPT !.auth = x]
  PROVE  Settled(tab', server) /\ (AgreesOn(tab) => AgreesOn(tab'))
<1> DEFINE u == [tab EXCEPT !.auth = x]
<1>1. Core(tab) /\ PagesOK(tab, server, FALSE)
  BY DEF Settled
<1>2. /\ Core(u) /\ Keeps(tab, u) /\ PagesToo(tab, u) /\ Calm(tab, u) /\ u.user = tab.user
  BY <1>1, AuthStep
<1> HIDE DEF u
<1>3. tab' = u /\ PagesOK(u, server, FALSE)
  BY <1>1, <1>2 DEF PagesToo, u
<1> QED BY <1>2, <1>3, Direct

(* The switches of the sign-in page and its countdown.                     *)
LEMMA SwitchesOK ==
  ASSUME Settled(tab, server), SwitchMode \/ ToggleChange \/ CountedDown
  PROVE  Settled(tab', server) /\ (AgreesOn(tab) => AgreesOn(tab'))
<1>1. AuthShape(tab.auth)
  BY DEF Settled, Core
<1>2. CASE SwitchMode
  <2> DEFINE x == [tab.auth EXCEPT !.mode = IF @ = "login" THEN "signup" ELSE "login"]
  <2>1. AuthShape(x) /\ x.mode # "closed"
    BY <1>1 DEF AuthShape, Record, AuthFields
  <2>2. tab' = [tab EXCEPT !.auth = x] /\ tab.auth.mode # "closed"
    BY <1>2 DEF SwitchMode
  <2> HIDE DEF x
  <2> QED BY <2>1, <2>2, AuthOnly
<1>3. CASE ToggleChange
  <2> DEFINE x == [tab.auth EXCEPT !.changes = ~@]
  <2>1. AuthShape(x) /\ x.mode = tab.auth.mode
    BY <1>1 DEF AuthShape, Record, AuthFields
  <2>2. tab' = [tab EXCEPT !.auth = x]
    BY <1>3 DEF ToggleChange
  <2> HIDE DEF x
  <2> QED BY <2>1, <2>2, AuthOnly
<1>4. CASE CountedDown
  <2> DEFINE x == [tab.auth EXCEPT !.waits = FALSE]
  <2>1. AuthShape(x) /\ x.mode = tab.auth.mode
    BY <1>1 DEF AuthShape, Record, AuthFields
  <2>2. tab' = [tab EXCEPT !.auth = x]
    BY <1>4 DEF CountedDown
  <2> HIDE DEF x
  <2> QED BY <2>1, <2>2, AuthOnly
<1> QED BY <1>2, <1>3, <1>4

(* The button that signs out.                                              *)
LEMMA logoutOK ==
  ASSUME Settled(tab, server), logout
  PROVE  Settled(tab', server) /\ (AgreesOn(tab) => AgreesOn(tab'))
<1> DEFINE u == Send(tab, "logout", NoArg, TRUE)
<1>1. Core(tab) /\ PagesOK(tab, server, FALSE)
  BY DEF Settled
<1>2. "logout" \in Kinds \ PageKinds /\ "logout" # "refresh" /\ "logout" \notin Forms
  BY DEF Forms, Kinds, AuthRequests, PageKinds, Handlers, HandlerOf
<1>3. Core(u) /\ OnlyFlight(tab, u) /\ Keeps(tab, u) /\ Calm(tab, u) /\ PagesToo(tab, u)
  BY <1>1, <1>2, SendQuiet, TRUE \in BOOLEAN
<1>4. tab' = u
  BY DEF logout
<1> HIDE DEF u
<1> QED BY <1>1, <1>3, <1>4, Direct DEF PagesToo, OnlyFlight

(* The browser's reload.                                                   *)
LEMMA ReloadOK ==
  ASSUME Settled(tab, server), Reload
  PROVE  Settled(tab', server) /\ (AgreesOn(tab) => AgreesOn(tab'))
<1>1. tab' = Reloaded(tab)
  BY DEF Reload
<1>2. Core(tab)
  BY DEF Settled
<1> QED BY <1>1, <1>2, ReloadedOK, StoreAgrees

(* The end of signing out, whatever the server said: nobody is spoken for  *)
(* that is not shown.                                                      *)
LEMMA LogoutEndsOK ==
  ASSUME Settled(tab, server), NEW i \in Requests, NEW a, EndOK(tab.flight[i], a),
      LogoutEnds(i, a)
  PROVE  Settled(tab', server) /\ AgreesOn(tab')
<1> DEFINE t == Received(tab, i, a)
           q == saveSessionToken(t, None)
           u == [q EXCEPT !.address = "dashboard"]
<1>1. Core(tab) /\ i \in DOMAIN tab.flight /\ a.token \in Tokens0
  BY DEF Settled, Requests, EndOK
<1>2. Core(t)
  BY <1>1, ReceivedOK
<1>3. tab' = Reloaded(u)
  BY DEF LogoutEnds
<1> HIDE DEF t
<1>4. Core(q) /\ Saves(t, q, None)
  BY <1>2, SaveOK, SaveIs DEF Tokens0, Core
<1> HIDE DEF q
<1>5. /\ Shape(u) /\ SameTokens(q, u) /\ u.user = q.user /\ u.booting = q.booting
      /\ u.count = q.count /\ u.auth = q.auth /\ u.chat = q.chat /\ u.view = q.view
      /\ u.flight = q.flight /\ u.dialog = q.dialog /\ u.address = "dashboard"
  BY <1>4 DEF Core, Shape, Record, TabFields, SameTokens
<1> HIDE DEF u
<1>6. "dashboard" \in PageNames
  BY DEF PageNames, Loading
<1>7. Core(u)
  BY <1>4, <1>5, <1>6, CoreView DEF Core
<1>8. u.stored = None
  BY <1>2, <1>4, <1>5 DEF Core, TokensOK, Saves, SameTokens
<1> QED BY <1>3, <1>7, <1>8, ReloadedOK

(* The server's answer, or that it hangs: nothing else moves.              *)

(* The same requests, with other answers.                                  *)
FlightStays(f, g) ==
  /\ g \in Seq(Reqs) /\ DOMAIN g = DOMAIN f
  /\ \A k \in DOMAIN f :
       /\ g[k].what = f[k].what /\ g[k].arg = f[k].arg /\ g[k].token = f[k].token
       /\ g[k].heard = f[k].heard /\ AnsOK(g[k])

(* The server's answer changes one request and nothing else of the tab.    *)
LEMMA AnsweredIs ==
  ASSUME NEW i \in DOMAIN tab.flight, Core(tab), NEW a \in Answers, Answered(i, a),
         AnsOK([tab.flight[i] EXCEPT !.at = "served", !.answer = a])
  PROVE  /\ OnlyFlight(tab, tab') /\ FlightStays(tab.flight, tab'.flight)
         /\ tab'.flight[i].answer = a
         /\ \A k \in DOMAIN tab.flight \ {i} : tab'.flight[k] = tab.flight[k]
<1> DEFINE f == tab.flight
           r == [f[i] EXCEPT !.at = "served", !.answer = a]
           g == [f EXCEPT ![i] = r]
<1>1. f \in Seq(Reqs) /\ \A k \in DOMAIN f : f[k] \in Reqs /\ AnsOK(f[k])
  BY DEF Core, FlightOK
<1>2. tab' = [tab EXCEPT !.flight = g]
  BY DEF Answered
<1>3. r \in Reqs /\ r.what = f[i].what /\ r.arg = f[i].arg /\ r.token = f[i].token
      /\ r.heard = f[i].heard /\ r.answer = a
  BY <1>1 DEF Reqs
<1>4. OnlyFlight(tab, tab') /\ tab'.flight = g
  BY <1>2, WithFlight DEF Core
<1>5. AnsOK(r) OBVIOUS
<1> HIDE DEF r
<1>6. g \in Seq(Reqs) /\ DOMAIN g = DOMAIN f /\ g[i] = r /\ \A k \in DOMAIN f \ {i} : g[k] = f[k]
  BY <1>1, <1>3
<1> HIDE DEF g, f
<1>7. FlightStays(f, g)
  BY <1>1, <1>3, <1>5, <1>6 DEF FlightStays
<1> QED BY <1>3, <1>4, <1>6, <1>7 DEF f

----------------------------------------------------------------------------
(* The server's answers.                                                   *)

(* With one request answered, what is known of the tab stays.              *)
LEMMA StaysOK ==
  ASSUME Core(tab), NEW u, OnlyFlight(tab, u), FlightStays(tab.flight, u.flight)
  PROVE  Core(u) /\ Keeps(tab, u) /\ Calm(tab, u) /\ u.user = tab.user
<1>1. FlightOK(tab.flight, tab.view.page, tab.view.of, tab.auth.mode)
  BY DEF Core
<1>2. FlightOK(u.flight, tab.view.page, tab.view.of, tab.auth.mode)
  BY <1>1 DEF FlightOK, FlightStays, HeardOK
<1>3. Core(u)
  BY <1>2, FlightStep
<1>4. Calm(tab, u)
  BY DEF Calm, OnlyFlight, SameTokens, FlightStays, Asks, Asked
<1> QED BY <1>3, <1>4 DEF OnlyFlight, Keeps

(* With one request answered, the requests of a page still take turns.     *)
LEMMA TurnsStay ==
  ASSUME NEW v, NEW f, NEW g, FlightStays(f, g), NEW s, NEW z, TurnsOK(v, f, s),
         \A k \in DOMAIN g : Gives(g[k].what) /\ Good(g[k]) => Fresh(g[k].answer.data, v.page, z)
  PROVE  TurnsOK(v, g, z)
BY DEF TurnsOK, FlightStays

(* With one request answered, the tab stays settled if its page stays      *)
(* right.                                                                  *)
LEMMA SettledStays ==
  ASSUME Settled(tab, server), OnlyFlight(tab, tab'), FlightStays(tab.flight, tab'.flight),
         NEW s, PagesOK(tab', s, FALSE)
  PROVE  Settled(tab', s) /\ (AgreesOn(tab) => AgreesOn(tab'))
<1>1. Core(tab) /\ Mounted(tab, Screen(tab))
  BY DEF Settled
<1>2. Core(tab') /\ Keeps(tab, tab') /\ Calm(tab, tab') /\ tab'.user = tab.user
  BY <1>1, StaysOK
<1>3. Mounted(tab', Screen(tab'))
  BY <1>1, <1>2 DEF Mounted, Keeps, Screen
<1> QED BY <1>2, <1>3, CalmAgrees DEF Settled

(* The other requests stay as they are, and this one is of no page, or has *)
(* no good answer yet.                                                     *)
LEMMA PagesStay ==
  ASSUME NEW t, NEW u, NEW s, PagesOK(t, s, FALSE), OnlyFlight(t, u),
      FlightStays(t.flight, u.flight),
         NEW i \in DOMAIN t.flight,
         \A k \in DOMAIN t.flight \ {i} : u.flight[k].answer = t.flight[k].answer,
         t.flight[i].what \notin PageKinds \/ (~Good(t.flight[i]) /\ ~Good(u.flight[i])),
         NEW z, z.row = s.row, z.edits = s.edits
  PROVE  PagesOK(u, z, FALSE)
<1> DEFINE f == t.flight
           g == u.flight
           v == t.view
<1>1. /\ DOMAIN g = DOMAIN f
      /\ \A k \in DOMAIN f : g[k].what = f[k].what /\ g[k].arg = f[k].arg
  BY DEF FlightStays
<1>2. FlightStays(f, g) /\ u.view = v /\ u.count = t.count
  BY DEF OnlyFlight
<1>3. \A k \in DOMAIN f : f[k].what \in PageKinds =>
        (Good(g[k]) <=> Good(f[k])) /\ (Good(g[k]) => g[k].answer = f[k].answer)
  BY DEF Good
<1> HIDE DEF f, g, v
<1>4. \A page : RowsFor(page, z) = RowsFor(page, s)
  BY DEF RowsFor, DashboardRows, PurchasesRows, SupplierRows, SuppliersRows, EstimateRows,
         SearchRows, AccountRows, UsersRows, Only
<1>5. \A r : r.what \notin PageKinds => ~Gives(r.what) /\ ~Excuses(r) /\ \A q : ~Hides(r, q)
  BY OfPages
<1>6. \A k \in DOMAIN f : Excuses(g[k]) <=> Excuses(f[k])
  <2> SUFFICES ASSUME NEW k \in DOMAIN f PROVE Excuses(g[k]) <=> Excuses(f[k])
    OBVIOUS
  <2>1. CASE f[k].what \in PageKinds
    BY <1>1, <1>3, <2>1 DEF Excuses
  <2>2. CASE f[k].what \notin PageKinds
    BY <1>1, <1>5, <2>2
  <2> QED BY <2>1, <2>2
<1>7. \A k \in DOMAIN f : \A q : Hides(g[k], q) <=> Hides(f[k], q)
  <2> SUFFICES ASSUME NEW k \in DOMAIN f, NEW q PROVE Hides(g[k], q) <=> Hides(f[k], q)
    OBVIOUS
  <2>1. CASE f[k].what \in PageKinds
    BY <1>1, <1>3, <2>1 DEF Hides
  <2>2. CASE f[k].what \notin PageKinds
    BY <1>1, <1>5, <2>2
  <2> QED BY <2>1, <2>2
<1>8. (Excused(g) <=> Excused(f)) /\ \A q : Hidden(g, q) <=> Hidden(f, q)
  BY <1>1, <1>6, <1>7 DEF Excused, Hidden
<1>9. TurnsOK(v, f, s) => TurnsOK(v, g, z)
  <2> SUFFICES ASSUME TurnsOK(v, f, s), NEW k \in DOMAIN g, Gives(g[k].what), Good(g[k])
               PROVE  Fresh(g[k].answer.data, v.page, z)
    BY <1>2, TurnsStay
  <2>1. k \in DOMAIN f /\ f[k].what \in PageKinds /\ Gives(f[k].what)
    BY <1>1, <1>5
  <2>2. Good(f[k]) /\ g[k].answer = f[k].answer
    BY <1>3, <2>1
  <2>3. Fresh(f[k].answer.data, v.page, s)
    BY <2>1, <2>2 DEF TurnsOK
  <2> QED BY <1>4, <2>2, <2>3 DEF Fresh
<1>10. ShownOK(v, f, s) => ShownOK(v, g, z)
  BY <1>8 DEF ShownOK, Matches
<1> QED BY <1>2, <1>9, <1>10 DEF PagesOK, f, g, v

(* What a step of the server or the network leaves.                        *)
Stands == ServerOK(server') /\ Settled(tab', server') /\ (AgreesOn(tab) => AgreesOn(tab'))

(* A record with the fields of an answer is one.                           *)
LEMMA AnswerIs ==
  ASSUME NEW status \in Statuses, NEW user \in Users0, NEW token \in Tokens0,
         NEW data \in {None} \cup BOOLEAN \cup PageData
  PROVE  [status |-> status, user |-> user, token |-> token, data |-> data] \in Answers
BY DEF Answers, Users0, Tokens0

(* The answers the handlers build are answers.                             *)
LEMMA AnswersAre ==
  /\ \A status \in Statuses : Answer(status) \in Answers
  /\ \A status \in Statuses, data \in {None} \cup BOOLEAN \cup PageData :
       [Answer(status) EXCEPT !.data = data] \in Answers
  /\ None \notin Answers
<1>1. None \notin Answers
  BY NoneAssumption
<1>2. None \in Users0 /\ None \in Tokens0
  BY DEF Users0, Tokens0
<1>3. ASSUME NEW status \in Statuses
      PROVE  Answer(status) \in Answers
  BY <1>2, AnswerIs DEF Answer
<1>4. ASSUME NEW status \in Statuses, NEW data \in {None} \cup BOOLEAN \cup PageData
      PROVE  [Answer(status) EXCEPT !.data = data] \in Answers
  <2>1. [Answer(status) EXCEPT !.data = data] =
          [status |-> status, user |-> None, token |-> None, data |-> data]
    BY DEF Answer
  <2> QED BY <1>2, <2>1, AnswerIs
<1> QED BY <1>1, <1>3, <1>4

(* The answers of the session's routes are as the tab expects them.        *)
LEMMA AuthAnswersAre ==
  ASSUME NEW r \in Reqs, r.what \in AuthRequests, ServerOK(server), NEW a \in AuthAnswers(r)
  PROVE  a \in Answers /\ AnsOK([r EXCEPT !.at = "served", !.answer = a])
<1> DEFINE q == [r EXCEPT !.at = "served", !.answer = a]
<1>1. q.what = r.what /\ q.at = "served" /\ q.answer = a /\ q.token = r.token /\ q.arg = r.arg
  BY DEF Reqs
<1> HIDE DEF q
<1>2. r.what \notin PageKinds \cup {"status", "chat", "password"}
  BY DEF AuthRequests, PageKinds, Handlers, HandlerOf
<1>3. ~Gives(r.what)
  BY <1>2, OfPages
<1>4. {"ok", "refused", "verify", "early"} \subseteq Statuses
  BY DEF Statuses
<1>5. CASE r.what \in {"refresh", "check"} /\ a = Me(r.token)
  <2> DEFINE user == IF Valid(r.token) THEN r.token.user ELSE None
  <2>1. user \in Users0 /\ (user # None => r.token # None /\ user = r.token.user)
    BY DEF Reqs, Tokens0, Tokens, Users0, Valid
  <2>2. a = [status |-> "ok", user |-> user, token |-> None, data |-> None]
    BY <1>5 DEF Me, Answer
  <2> HIDE DEF user
  <2>3. a \in Answers
    BY <1>4, <2>1, <2>2, AnswerIs DEF Tokens0
  <2>4. a # None
    BY <2>3, AnswersAre
  <2>5. a.status = "ok" /\ a.token = None /\ a.user = user
    BY <2>2
  <2>6. r.what \notin Signs
    BY <1>5 DEF Signs
  <2>7. AnsOK(q)
    BY <1>1, <1>2, <1>3, <2>1, <2>4, <2>5, <2>6 DEF AnsOK
  <2> QED BY <2>3, <2>7 DEF q
<1>6. ASSUME NEW u \in Users, r.what \in Signs, a = SessionFor(u)
      PROVE  a \in Answers /\ AnsOK(q)
  <2> DEFINE token == [user |-> u, epoch |-> server.epoch[u]]
  <2>1. token \in Tokens /\ token.user = u
    BY DEF ServerOK, Tokens
  <2>2. a = [status |-> "ok", user |-> u, token |-> token, data |-> None]
    BY <1>6 DEF SessionFor, Answer
  <2> HIDE DEF token
  <2>3. a \in Answers
    BY <1>4, <2>1, <2>2, AnswerIs DEF Tokens0, Users0
  <2>4. token # None
    BY <2>1, NoneAssumption
  <2>5. r.what \notin {"refresh", "check"}
    BY <1>6 DEF Signs
  <2>6. a # None
    BY <2>3, AnswersAre
  <2>7. a.status = "ok" /\ a.token = token /\ a.user = u
    BY <2>2
  <2>8. AnsOK(q)
    BY <1>1, <1>2, <1>3, <1>6, <2>1, <2>4, <2>5, <2>6, <2>7 DEF AnsOK
  <2> QED BY <2>3, <2>8
<1>7. ASSUME NEW status \in {"ok", "refused", "verify", "early"}, a = Answer(status),
             status = "ok" => r.what \notin Signs, r.what \notin {"refresh", "check"}
      PROVE  a \in Answers /\ AnsOK(q)
  <2>1. a = [status |-> status, user |-> None, token |-> None, data |-> None]
    BY <1>7 DEF Answer
  <2>2. a \in Answers /\ a # None
    BY <1>4, <1>7, AnswersAre
  <2> QED BY <1>1, <1>2, <1>3, <1>7, <2>1, <2>2 DEF AnsOK
<1>8. /\ r.what \in {"refresh", "check"} => a = Me(r.token)
      /\ r.what \in Signs => (\E u \in Users : a = SessionFor(u)) \/ a = Answer("refused")
           \/ a = Answer("verify")
      /\ r.what \in {"resend", "change", "logout"} =>
           a = Answer("ok") \/ a = Answer("early") \/ a = Answer("refused")
  BY DEF AuthAnswers, Signs
<1>9. r.what \in {"refresh", "check"} \cup Signs \cup {"resend", "change", "logout"}
  BY DEF AuthRequests, Signs
<1>10. CASE r.what \in {"resend", "change", "logout"}
  BY <1>7, <1>8, <1>10 DEF q, Signs
<1>11. CASE r.what \in Signs
  <2>1. r.what \notin {"refresh", "check"} BY <1>11 DEF Signs
  <2> QED BY <1>6, <1>7, <1>8, <1>11, <2>1 DEF q
<1> QED BY <1>5, <1>8, <1>9, <1>10, <1>11 DEF q

(* The server answers a request of the session (routes/auth.js).           *)
LEMMA ServeAuthOK ==
  ASSUME Inv, NEW i \in Requests, ServeAuth(i)
  PROVE  Stands
<1> DEFINE r == tab.flight[i]
<1>1. Core(tab) /\ PagesOK(tab, server, FALSE) /\ ServerOK(server) /\ i \in DOMAIN tab.flight
  BY DEF Inv, Settled, Requests
<1>2. r \in Reqs /\ r.what \in AuthRequests /\ server' = server
  BY <1>1 DEF ServeAuth, Core, FlightOK
<1>3. PICK a \in AuthAnswers(r) : Answered(i, a)
  BY DEF ServeAuth
<1>4. a \in Answers /\ AnsOK([r EXCEPT !.at = "served", !.answer = a])
  BY <1>1, <1>2, <1>3, AuthAnswersAre
<1>5. /\ OnlyFlight(tab, tab') /\ FlightStays(tab.flight, tab'.flight)
      /\ \A k \in DOMAIN tab.flight \ {i} : tab'.flight[k] = tab.flight[k]
  BY <1>1, <1>3, <1>4, AnsweredIs
<1>6. r.what \notin PageKinds
  BY <1>2 DEF AuthRequests, PageKinds, Handlers, HandlerOf
<1>7. PagesOK(tab', server, FALSE)
  BY <1>1, <1>5, <1>6, PagesStay
<1> QED BY <1>1, <1>2, <1>5, <1>7, SettledStays DEF Inv, Stands

(* The server answers the support window (routes/support.js).              *)
LEMMA ServeChatOK ==
  ASSUME Inv, NEW i \in Requests, ServeChat(i)
  PROVE  Stands
<1> DEFINE r == tab.flight[i]
<1>1. Core(tab) /\ PagesOK(tab, server, FALSE) /\ ServerOK(server) /\ i \in DOMAIN tab.flight
  BY DEF Inv, Settled, Requests
<1>2. r \in Reqs /\ r.what \in {"status", "chat"} /\ server' = server
  BY <1>1 DEF ServeChat, Core, FlightOK
<1>3. PICK status \in {"unauth", "ok", "refused"}, data \in {None} \cup BOOLEAN :
        Answered(i, [Answer(status) EXCEPT !.data = data])
  <2>1. \A status : [Answer(status) EXCEPT !.data = None] = Answer(status) BY DEF Answer
  <2> QED BY <2>1 DEF ServeChat
<1> DEFINE a == [Answer(status) EXCEPT !.data = data]
           q == [r EXCEPT !.at = "served", !.answer = a]
<1>4. a \in Answers /\ a # None /\ a.token = None
  <2>1. status \in Statuses /\ data \in {None} \cup BOOLEAN \cup PageData
    BY DEF Statuses
  <2>2. a \in Answers /\ a # None
    BY <2>1, AnswersAre
  <2>3. a.token = None
    BY DEF Answer
  <2> QED BY <2>2, <2>3
<1>5. r.what \notin PageKinds \cup Signs \cup {"password", "refresh", "check"}
  BY <1>2 DEF PageKinds, Handlers, HandlerOf, Signs
<1> HIDE DEF a
<1>6. q.what = r.what /\ q.at = "served" /\ q.answer = a
  BY <1>2 DEF Reqs
<1>7. AnsOK(q)
  BY <1>2, <1>4, <1>5, <1>6, OfPages DEF AnsOK
<1> HIDE DEF q
<1>8. /\ OnlyFlight(tab, tab') /\ FlightStays(tab.flight, tab'.flight)
      /\ \A k \in DOMAIN tab.flight \ {i} : tab'.flight[k] = tab.flight[k]
  BY <1>1, <1>3, <1>4, <1>7, AnsweredIs DEF q, a
<1>9. PagesOK(tab', server, FALSE)
  BY <1>1, <1>5, <1>8, PagesStay
<1> QED BY <1>1, <1>2, <1>8, <1>9, SettledStays DEF Inv, Stands

(* The headers of an answer come and its body does not.                    *)
LEMMA HangOK ==
  ASSUME Inv, NEW i \in Requests, Hang(i)
  PROVE  Stands
<1> DEFINE f == tab.flight
           r == [f[i] EXCEPT !.at = "hung"]
           g == [f EXCEPT ![i] = r]
<1>1. Core(tab) /\ PagesOK(tab, server, FALSE) /\ ServerOK(server) /\ i \in DOMAIN f
  BY DEF Inv, Settled, Requests
<1>2. f \in Seq(Reqs) /\ \A k \in DOMAIN f : f[k] \in Reqs /\ AnsOK(f[k])
  BY <1>1 DEF Core, FlightOK
<1>3. tab' = [tab EXCEPT !.flight = g] /\ f[i].at = "served" /\ server' = server
  BY DEF Hang
<1>4. r \in Reqs /\ r.what = f[i].what /\ r.arg = f[i].arg /\ r.token = f[i].token
      /\ r.heard = f[i].heard /\ r.answer = f[i].answer /\ r.at = "hung"
  BY <1>1, <1>2 DEF Reqs
<1>5. AnsOK(r)
  BY <1>1, <1>2, <1>3, <1>4 DEF AnsOK
<1>6. OnlyFlight(tab, tab') /\ tab'.flight = g
  BY <1>1, <1>3, WithFlight DEF Core
<1> HIDE DEF r
<1>7. g \in Seq(Reqs) /\ DOMAIN g = DOMAIN f /\ g[i] = r /\ \A k \in DOMAIN f \ {i} : g[k] = f[k]
  BY <1>1, <1>2, <1>4
<1> HIDE DEF g, f
<1>8. FlightStays(f, g) /\ \A k \in DOMAIN f : g[k].answer = f[k].answer
  BY <1>1, <1>2, <1>4, <1>5, <1>7 DEF FlightStays
<1>9. \A k \in DOMAIN f : Good(g[k]) <=> Good(f[k])
  BY <1>8 DEF Good
<1>10. PagesOK(tab', server, FALSE)
  <2> DEFINE m == [tab EXCEPT !.flight = g]
  <2>1. tab' = m BY <1>3
  <2> HIDE DEF m
  <2>2. (Excused(g) <=> Excused(f)) /\ \A q : Hidden(g, q) <=> Hidden(f, q)
    BY <1>8, <1>9 DEF Excused, Excuses, Hidden, Hides, FlightStays
  <2>3. \A s : TurnsOK(tab.view, f, s) => TurnsOK(tab.view, g, s)
    <3> SUFFICES ASSUME NEW s, TurnsOK(tab.view, f, s), NEW k \in DOMAIN g, Gives(g[k].what),
            Good(g[k])
                 PROVE  Fresh(g[k].answer.data, tab.view.page, s)
      BY <1>8, TurnsStay
    <3> QED BY <1>8, <1>9 DEF TurnsOK, FlightStays
  <2> QED BY <1>1, <1>6, <2>2, <2>3 DEF PagesOK, OnlyFlight, ShownOK, Matches, f
<1> QED BY <1>1, <1>3, <1>6, <1>8, <1>10, SettledStays DEF Inv, Stands, f

(* The account's sessions end elsewhere.                                   *)
LEMMA SessionEndsOK ==
  ASSUME Inv, NEW u \in Users, SessionEnds(u)
  PROVE  Stands
<1>1. tab' = tab /\ server' = [server EXCEPT !.epoch[u] = @ + 1]
  BY DEF SessionEnds
<1>2. ServerOK(server') /\ server'.row = server.row /\ server'.edits = server.edits
  BY <1>1 DEF Inv, ServerOK
<1>3. \A page : RowsFor(page, server') = RowsFor(page, server)
  BY <1>2 DEF RowsFor, DashboardRows, PurchasesRows, SupplierRows, SuppliersRows, EstimateRows,
              SearchRows, AccountRows, UsersRows, Only
<1>4. PagesOK(tab, server, FALSE) => PagesOK(tab, server', FALSE)
  BY <1>2, <1>3 DEF PagesOK, TurnsOK, Fresh, ShownOK, Matches
<1> QED BY <1>1, <1>2, <1>4 DEF Inv, Stands, Settled

(* The data of an answer are what the server has for that page at that     *)
(* moment.                                                                 *)
LEMMA DataIs ==
  ASSUME NEW r \in Reqs, NEW s, ServerOK(s)
  PROVE  /\ Data(s, r) \in Data0
         /\ Data(s, r) # None => Data(s, r).of = r.arg.of
         /\ Gives(r.what) => Data(s, r) # None /\ Fresh(Data(s, r), r.arg.page, s)
<1> DEFINE d == [of |-> r.arg.of, upto |-> r.arg.upto, row |-> RowsFor(r.arg.page, s),
                   edits |-> s.edits]
<1>1. r.arg.of \in Terms /\ r.arg.upto \in Nat /\ s.edits \in Nat
  BY DEF Reqs, Args, ServerOK
<1>2. \A states : Only(s, states) \in [Items -> {"active", "archived", "gone"}]
  BY DEF ServerOK, Only
<1>3. RowsFor(r.arg.page, s) \in [Items -> {"active", "archived", "gone"}]
  BY <1>2 DEF RowsFor, DashboardRows, PurchasesRows, SupplierRows, SuppliersRows, EstimateRows,
              SearchRows, AccountRows, UsersRows
<1>4. RowsFor(r.arg.page, s) \in [Items -> RowStates]
  BY <1>3 DEF RowStates
<1>5. d \in PageData /\ d.of = r.arg.of /\ d.row = RowsFor(r.arg.page, s) /\ d.edits = s.edits
  BY <1>1, <1>4 DEF PageData
<1>6. Data(s, r) = IF Gives(r.what) \/ r.what = "search" THEN d ELSE None
  BY DEF Data
<1> HIDE DEF d
<1>7. d # None
  BY <1>5, NoneAssumption
<1> QED BY <1>5, <1>6, <1>7 DEF Data0, Fresh

(* What a handler of the server may leave in the tables.                   *)
LEMMA DoneIs ==
  ASSUME ServerOK(server), NEW what \in Handlers, NEW p, NEW s \in Done(what, p)
  PROVE  /\ ServerOK(s)
         /\ ~Changes(what) => s = server
         /\ what = "purchasesArchive" =>
              s.edits = server.edits /\ s.row = [server.row EXCEPT ![p] = "archived"]
         /\ what # "password"
<1> DEFINE does == HandlerOf[what].does
<1>1. /\ what = "purchasesArchive" => does = "archived"
      /\ what = "password" => does = "session"
  <2>1. HandlerOK("purchasesArchive", HandlerOf["purchasesArchive"])
    BY HandlerTable DEF Handlers, HandlerOf
  <2>2. HandlerOf["password"].does = "session"
    BY Fields DEF HandlerOf, Plain
  <2> QED BY <2>1, <2>2 DEF HandlerOK
<1>2. Changes(what) <=> does # "none"
  BY DEF Changes
<1>3. CASE does \in {"archived", "active", "gone"}
  <2>1. s = [server EXCEPT !.row[p] = does] BY <1>3 DEF Done
  <2> HIDE DEF does
  <2>2. s.row = [server.row EXCEPT ![p] = does] /\ s.edits = server.edits
            /\ s.epoch = server.epoch
    BY <2>1, <1>3 DEF ServerOK
  <2>3. ServerOK(s) BY <1>3, <2>2 DEF ServerOK
  <2> QED BY <1>1, <1>2, <1>3, <2>2, <2>3
<1>4. CASE does = "group"
  <2> DEFINE row == [q \in Items |-> IF server.row[q] = "archived" THEN "gone" ELSE server.row[q]]
  <2>1. s = [server EXCEPT !.row = row] BY <1>4 DEF Done
  <2>2. row \in [Items -> {"active", "archived", "gone"}] BY DEF ServerOK
  <2> HIDE DEF does, row
  <2>3. s.row = row /\ s.edits = server.edits /\ s.epoch = server.epoch
    BY <2>1 DEF ServerOK
  <2> QED BY <1>1, <1>2, <1>4, <2>2, <2>3 DEF ServerOK
<1>5. CASE does = "edit"
  <2>1. s = [server EXCEPT !.edits = @ + 1] BY <1>5 DEF Done
  <2> HIDE DEF does
  <2>2. s.row = server.row /\ s.edits = server.edits + 1 /\ s.epoch = server.epoch
    BY <2>1 DEF ServerOK
  <2> QED BY <1>1, <1>2, <1>5, <2>2 DEF ServerOK
<1>6. CASE does = "none"
  <2>1. s = server BY <1>6 DEF Done
  <2> HIDE DEF does
  <2> QED BY <1>1, <1>6, <2>1
<1>7. CASE does \notin {"archived", "active", "gone", "group", "edit", "none"}
  <2>1. Done(what, p) = {} BY <1>7 DEF Done
  <2> QED BY <2>1
<1> QED BY <1>3, <1>4, <1>5, <1>6, <1>7

(* A good answer of the server.                                            *)
LEMMA PagesServed ==
  ASSUME Core(tab), PagesOK(tab, server, FALSE), NEW u, OnlyFlight(tab, u),
         FlightStays(tab.flight, u.flight), NEW i \in DOMAIN tab.flight,
         \A k \in DOMAIN tab.flight \ {i} : u.flight[k] = tab.flight[k],
         tab.flight[i].what \in PageKinds, ~Good(tab.flight[i]), Good(u.flight[i]), NEW s,
         ~Changes(tab.flight[i].what) => s.row = server.row /\ s.edits = server.edits,
         tab.flight[i].what = "purchasesArchive" =>
           /\ s.edits = server.edits
           /\ s.row = [server.row EXCEPT ![tab.flight[i].arg.row] = "archived"],
         Gives(tab.flight[i].what) => Fresh(u.flight[i].answer.data, tab.flight[i].arg.page, s),
         ServerOK(server)
  PROVE  PagesOK(u, s, FALSE)
<1> DEFINE f == tab.flight
           g == u.flight
           v == tab.view
           r == f[i]
<1>1. FlightStays(f, g) /\ u.view = v /\ u.count = tab.count /\ DOMAIN g = DOMAIN f
      /\ g[i].what = r.what /\ g[i].arg = r.arg
      /\ \A k \in DOMAIN f \ {i} : g[k] = f[k]
  BY DEF OnlyFlight, FlightStays
<1>2. AnsOK(r) /\ HeardOK(r, v.page, v.of, tab.auth.mode)
  BY DEF Core, FlightOK
<1> SUFFICES ASSUME Straight(v), TurnsOK(v, f, server),
                    v.data \notin {None, Bare} => CountOK(v, tab.count) /\ ShownOK(v, f, server)
             PROVE  TurnsOK(v, g, s) /\ (v.data \notin {None, Bare} => ShownOK(v, g, s))
  BY <1>1 DEF PagesOK
<1>3. r.heard
  BY DEF TurnsOK
<1>4. /\ Gives(r.what) => r.arg.page = v.page
      /\ r.what \in Handlers => v.page \in HandlerOf[r.what].on
  BY <1>2, <1>3 DEF HeardOK, Gives
<1> HIDE DEF f, g, v, r
<1>5. \A page : s.row = server.row => RowsFor(page, s) = RowsFor(page, server)
  BY DEF RowsFor, DashboardRows, PurchasesRows, SupplierRows, SuppliersRows, EstimateRows,
         SearchRows, AccountRows, UsersRows, Only
<1>6. TurnsOK(v, g, s)
  <2> SUFFICES ASSUME NEW k \in DOMAIN g, Gives(g[k].what), Good(g[k])
               PROVE  Fresh(g[k].answer.data, v.page, s)
    BY <1>1, TurnsStay
  <2>1. CASE k = i
    BY <1>1, <1>4, <2>1 DEF f, g, r
  <2>2. CASE k # i
    <3>1. g[k] = f[k] /\ k \in DOMAIN f BY <1>1, <2>2
    <3>2. ~Changes(r.what) /\ Fresh(f[k].answer.data, v.page, server)
      BY <2>2, <3>1 DEF TurnsOK, r, f
    <3>3. s.row = server.row /\ s.edits = server.edits BY <3>2 DEF r, f
    <3> QED BY <1>5, <3>1, <3>2, <3>3 DEF Fresh
  <2> QED BY <2>1, <2>2
<1>7. ASSUME v.data \notin {None, Bare}, ~Excused(g)
      PROVE  Matches(v, g, s)
  <2>1. ~Excuses(g[i]) /\ \A k \in DOMAIN f \ {i} : ~Excuses(f[k])
    BY <1>1, <1>7 DEF Excused, f
  <2>2. r.what = "purchasesArchive" \/ ~Changes(r.what)
    BY <1>1, <2>1 DEF Excuses, g
  <2>3. ~Excuses(r)
    BY <1>1, <2>1 DEF Excuses, r, f
  <2>4. ~Excused(f)
    BY <2>1, <2>3 DEF Excused, r
  <2>5. Matches(v, f, server)
    BY <1>7, <2>4 DEF ShownOK
  <2>6. \A k \in DOMAIN f \ {i} : \A q : Hides(g[k], q) <=> Hides(f[k], q)
    BY <1>1
  <2>7. \A q : ~Hides(g[i], q)
    BY DEF Hides, g
  <2>8. CASE ~Changes(r.what)
    <3>1. s.row = server.row /\ s.edits = server.edits BY <2>8 DEF r, f
    <3>2. r.what # "purchasesArchive"
      <4>1. HandlerOK("purchasesArchive", HandlerOf["purchasesArchive"])
                /\ "purchasesArchive" \in Handlers
        BY HandlerTable DEF Handlers, HandlerOf
      <4>2. Changes("purchasesArchive")
        BY <4>1 DEF Changes, HandlerOK
      <4> QED BY <2>8, <4>2
    <3>3. \A q : ~Hides(r, q) BY <3>2 DEF Hides
    <3>4. \A q : Hidden(g, q) <=> Hidden(f, q)
      BY <1>1, <2>6, <2>7, <3>3 DEF Hidden, r
    <3> QED BY <2>5, <3>1, <3>4 DEF Matches
  <2>9. CASE r.what = "purchasesArchive"
    <3> DEFINE p == r.arg.row
    <3>1. s.edits = server.edits /\ s.row = [server.row EXCEPT ![p] = "archived"]
      BY <2>9 DEF r, f
    <3>2. v.page = "purchases"
      <4>1. HandlerOK("purchasesArchive", HandlerOf["purchasesArchive"])
                /\ "purchasesArchive" \in Handlers
        BY HandlerTable DEF Handlers, HandlerOf
      <4> QED BY <1>4, <2>9, <4>1 DEF HandlerOK
    <3>3. Hides(r, p) /\ \A q : Hides(r, q) => q = p
      BY <2>9 DEF Hides, r, f
    <3>4. Hidden(f, p) BY <3>3 DEF Hidden, r, f
    <3> HIDE DEF p
    <3>5. \A q : q # p => (Hidden(g, q) <=> Hidden(f, q))
      BY <1>1, <2>6, <2>7, <3>3 DEF Hidden, r
    <3>6. \A q \in Items : v.data.row[q] = "active" <=> s.row[q] = "active" /\ ~Hidden(g, q)
      <4> SUFFICES ASSUME NEW q \in Items
                   PROVE  v.data.row[q] = "active" <=> s.row[q] = "active" /\ ~Hidden(g, q)
        OBVIOUS
      <4>1. v.data.row[q] = "active" <=> server.row[q] = "active" /\ ~Hidden(f, q)
        BY <2>5, <3>2 DEF Matches
      <4>2. q \in DOMAIN server.row BY DEF ServerOK
      <4>3. CASE q = p
        BY <3>1, <3>4, <4>1, <4>2, <4>3
      <4>4. CASE q # p
        <5>1. s.row[q] = server.row[q] BY <3>1, <4>2, <4>4
        <5> QED BY <3>5, <4>1, <4>4, <5>1
      <4> QED BY <4>3, <4>4
    <3> QED BY <2>5, <3>1, <3>2, <3>6 DEF Matches
  <2> QED BY <2>2, <2>8, <2>9
<1> QED BY <1>6, <1>7 DEF ShownOK

(* What the answers to a page's requests are.                              *)
LEMMA PageAnswerIs ==
  ASSUME NEW r \in Reqs, r.what \in PageKinds, NEW status \in {"ok", "refused", "unauth"},
         NEW token \in Tokens0, NEW data \in Data0,
         IF r.what = "password" /\ status = "ok"
         THEN token # None /\ r.token # None /\ token.user = r.token.user
         ELSE token = None,
         data # None => data.of = r.arg.of,
         Gives(r.what) => (status = "ok" <=> data # None),
         NEW a, a = [status |-> status, user |-> None, token |-> token, data |-> data]
  PROVE  a \in Answers /\ AnsOK([r EXCEPT !.at = "served", !.answer = a])
<1> DEFINE q == [r EXCEPT !.at = "served", !.answer = a]
<1>1. q.what = r.what /\ q.at = "served" /\ q.answer = a /\ q.token = r.token /\ q.arg = r.arg
  BY DEF Reqs
<1> HIDE DEF q
<1>2. status \in Statuses /\ data \in {None} \cup BOOLEAN \cup PageData
  BY DEF Statuses, Data0
<1>3. a \in Answers
  BY <1>2, AnswerIs DEF Users0
<1>4. a # None
  BY <1>3, AnswersAre
<1>5. a.status = status /\ a.token = token /\ a.data = data
  OBVIOUS
<1>6. r.what \notin {"refresh", "check"} \cup Signs
  BY DEF PageKinds, Signs, Handlers, HandlerOf
<1>7. AnsOK(q)
  BY <1>1, <1>4, <1>5, <1>6 DEF AnsOK
<1> QED BY <1>3, <1>7 DEF q

(* The server answers a request of a page, and did what it asked or not.   *)
LEMMA ServePageOK ==
  ASSUME Inv, NEW i \in Requests, ServePage(i)
  PROVE  Stands
<1> DEFINE r == tab.flight[i]
<1>1. Core(tab) /\ PagesOK(tab, server, FALSE) /\ ServerOK(server) /\ i \in DOMAIN tab.flight
  BY DEF Inv, Settled, Requests
<1>2. r \in Reqs /\ AnsOK(r)
  BY <1>1 DEF Core, FlightOK
<1>3. r.at = "sent" /\ r.what \in PageKinds
  BY DEF ServePage, PageKinds
<1>4. ~Good(r) /\ r.what \in Kinds
  BY <1>2, <1>3 DEF AnsOK, Good, Reqs
<1>5. None \in Tokens0 /\ None \in Data0
  BY DEF Tokens0, Data0
<1>6. ASSUME NEW status \in {"refused", "unauth"}, Answered(i, Answer(status)), server' = server
      PROVE  Stands
  <2> DEFINE a == Answer(status)
  <2>1. a = [status |-> status, user |-> None, token |-> None, data |-> None]
    BY DEF Answer
  <2>2. status \in {"ok", "refused", "unauth"} /\ status # "ok"
    OBVIOUS
  <2>3. a \in Answers /\ AnsOK([r EXCEPT !.at = "served", !.answer = a])
    BY <1>2, <1>3, <1>5, <2>1, <2>2, PageAnswerIs
  <2>4. /\ OnlyFlight(tab, tab') /\ FlightStays(tab.flight, tab'.flight)
        /\ tab'.flight[i].answer = a
        /\ \A k \in DOMAIN tab.flight \ {i} : tab'.flight[k] = tab.flight[k]
    BY <1>1, <1>6, <2>3, AnsweredIs
  <2>5. ~Good(tab'.flight[i])
    BY <2>1, <2>2, <2>4 DEF Good
  <2>6. PagesOK(tab', server, FALSE)
    BY <1>1, <1>4, <2>4, <2>5, PagesStay
  <2> QED BY <1>1, <1>6, <2>4, <2>6, SettledStays DEF Inv, Stands
<1>7. ASSUME NEW token \in Tokens0, NEW data \in Data0, NEW a,
             a = [status |-> "ok", user |-> None, token |-> token, data |-> data],
             IF r.what = "password" THEN token # None /\ r.token # None
                 /\ token.user = r.token.user
             ELSE token = None,
             data # None => data.of = r.arg.of,
             Gives(r.what) => data # None /\ Fresh(data, r.arg.page, server'),
             Answered(i, a), ServerOK(server'),
             ~Changes(r.what) => server'.row = server.row /\ server'.edits = server.edits,
             r.what = "purchasesArchive" =>
               server'.edits = server.edits
               /\ server'.row = [server.row EXCEPT ![r.arg.row] = "archived"]
      PROVE  Stands
  <2>1. "ok" \in {"ok", "refused", "unauth"}
    OBVIOUS
  <2>2. a \in Answers /\ AnsOK([r EXCEPT !.at = "served", !.answer = a])
    BY <1>2, <1>3, <1>7, <2>1, PageAnswerIs
  <2>3. /\ OnlyFlight(tab, tab') /\ FlightStays(tab.flight, tab'.flight)
        /\ tab'.flight[i].answer = a
        /\ \A k \in DOMAIN tab.flight \ {i} : tab'.flight[k] = tab.flight[k]
    BY <1>1, <1>7, <2>2, AnsweredIs
  <2>4. Good(tab'.flight[i]) /\ a.data = data
    BY <1>7, <2>2, <2>3, AnswersAre DEF Good
  <2>5. Gives(r.what) => Fresh(tab'.flight[i].answer.data, r.arg.page, server')
    BY <1>7, <2>3, <2>4
  <2>6. PagesOK(tab', server', FALSE)
    BY <1>1, <1>3, <1>4, <1>7, <2>3, <2>4, <2>5, PagesServed
  <2> QED BY <1>1, <1>7, <2>3, <2>6, SettledStays DEF Inv, Stands
<1>8. \A data : [Answer("ok") EXCEPT !.data = data] =
        [status |-> "ok", user |-> None, token |-> None, data |-> data]
  BY DEF Answer
<1>9. CASE ~Valid(r.token)
  BY <1>6, <1>9 DEF ServePage
<1>10. CASE r.what \in {"load", "search"} /\ server' = server
            /\ Answered(i, [Answer("ok") EXCEPT !.data = Data(server, r)])
  <2> DEFINE d == Data(server, r)
  <2>1. d \in Data0 /\ (d # None => d.of = r.arg.of)
        /\ (Gives(r.what) => d # None /\ Fresh(d, r.arg.page, server))
    BY <1>1, <1>2, DataIs
  <2>2. r.what \notin {"password", "purchasesArchive"} BY <1>10
  <2>3. Answered(i, [status |-> "ok", user |-> None, token |-> None, data |-> d])
    BY <1>8, <1>10
  <2> HIDE DEF d
  <2> QED BY <1>1, <1>5, <1>7, <1>10, <2>1, <2>2, <2>3
<1>11. CASE Answered(i, Answer("refused")) /\ server' = server
  BY <1>6, <1>11
<1>12. ASSUME r.what \in Handlers, NEW s \in Done(r.what, r.arg.row), server' = s,
              Answered(i, [Answer("ok") EXCEPT !.data = Data(s, r)])
       PROVE  Stands
  <2> DEFINE d == Data(s, r)
  <2>1. /\ ServerOK(s)
        /\ ~Changes(r.what) => s = server
        /\ r.what = "purchasesArchive" =>
             s.edits = server.edits /\ s.row = [server.row EXCEPT ![r.arg.row] = "archived"]
        /\ r.what # "password"
    BY <1>1, <1>12, DoneIs
  <2>2. d \in Data0 /\ (d # None => d.of = r.arg.of)
        /\ (Gives(r.what) => d # None /\ Fresh(d, r.arg.page, s))
    BY <1>2, <2>1, DataIs
  <2>3. Answered(i, [status |-> "ok", user |-> None, token |-> None, data |-> d])
    BY <1>8, <1>12
  <2> HIDE DEF d
  <2> QED BY <1>5, <1>7, <1>12, <2>1, <2>2, <2>3
<1>13. ASSUME r.what = "password", Valid(r.token),
              server' = [server EXCEPT !.epoch[r.token.user] = @ + 1],
              Answered(i, [Answer("ok") EXCEPT
                             !.token = [user |-> r.token.user,
                                 epoch |-> server.epoch[r.token.user] + 1]])
       PROVE  Stands
  <2> DEFINE u == r.token.user
             token == [user |-> u, epoch |-> server.epoch[u] + 1]
  <2>1. r.token # None /\ u \in Users
    BY <1>2, <1>13 DEF Valid, Reqs, Tokens0, Tokens
  <2>2. token \in Tokens /\ token.user = u
    BY <1>1, <2>1 DEF Tokens, ServerOK
  <2>3. token # None
    BY <2>2, NoneAssumption
  <2>4. ServerOK(server') /\ server'.row = server.row /\ server'.edits = server.edits
    BY <1>1, <1>13, <2>1 DEF ServerOK
  <2>5. Answered(i, [status |-> "ok", user |-> None, token |-> token, data |-> None])
    BY <1>13 DEF Answer
  <2> HIDE DEF token
  <2>6. ~Gives(r.what)
    BY <1>13, Fields DEF Gives, HandlerOf, Plain
  <2>7. r.what # "purchasesArchive" /\ token \in Tokens0
    BY <1>13, <2>2 DEF Tokens0
  <2> HIDE DEF u
  <2> QED BY <1>5, <1>7, <1>13, <2>1, <2>2, <2>3, <2>4, <2>5, <2>6, <2>7 DEF u
<1>14. CASE Valid(r.token)
  BY <1>10, <1>11, <1>12, <1>13, <1>14 DEF ServePage
<1> QED BY <1>9, <1>14

----------------------------------------------------------------------------
(* Asking for data, and the calls a handler makes after its request.       *)

(* Answers may be marked as crossed.                                       *)
LEMMA CrossStep ==
  ASSUME NEW t, Core(t), NEW c \in BOOLEAN, t.view.crossed => c
  PROVE  LET u == [t EXCEPT !.view.crossed = c] IN
         /\ Core(u) /\ SameTokens(t, u) /\ Keeps(t, u) /\ Calm(t, u) /\ PagesToo(t, u)
         /\ u.user = t.user /\ u.count = t.count /\ u.flight = t.flight /\ u.auth = t.auth
         /\ u.dialog = t.dialog /\ SameView(t.view, u.view) /\ (u.view.crossed <=> c)
<1> DEFINE v == [t.view EXCEPT !.crossed = c]
           u == [t EXCEPT !.view = v]
<1>1. [t EXCEPT !.view.crossed = c] = u
  OBVIOUS
<1>2. ViewOK(v) /\ v.page = t.view.page /\ v.of = t.view.of /\ v.data = t.view.data
          /\ v.crossed = c
  BY DEF Core, ViewOK, ViewShape, Record, ViewFields
<1>3. SameView(t.view, v)
  BY <1>2 DEF SameView
<1>4. FlightOK(t.flight, v.page, v.of, t.auth.mode)
  BY <1>2 DEF Core
<1> HIDE DEF v
<1>5. /\ Core(u) /\ SameTokens(t, u) /\ Keeps(t, u) /\ Calm(t, u)
      /\ u.user = t.user /\ u.count = t.count /\ u.view = v /\ u.flight = t.flight
      /\ u.auth = t.auth /\ u.dialog = t.dialog
      /\ (SameView(t.view, v) => PagesToo(t, u))
  BY <1>2, <1>4, ViewStep
<1> QED BY <1>1, <1>2, <1>3, <1>5

(* A request sent by the page that is there, or by one that is gone.       *)
LEMMA SendPage ==
  ASSUME NEW t, Core(t), NEW what \in PageKinds, NEW arg \in Args, NEW heard \in BOOLEAN,
         \A r : Sent(r, what, arg, Carried(t), heard) =>
           HeardOK(r, t.view.page, t.view.of, t.auth.mode)
  PROVE  LET u == Send(t, what, arg, heard) IN
         /\ Core(u) /\ OnlyFlight(t, u) /\ Keeps(t, u) /\ Calm(t, u)
         /\ \E r \in Reqs : Sent(r, what, arg, Carried(t), heard)
              /\ u.flight = Append(t.flight, r)
<1> DEFINE r == Request(t, what, arg, heard)
           u == Send(t, what, arg, heard)
<1>1. what \in Kinds /\ what # "refresh"
  BY DEF PageKinds, Kinds, Handlers, HandlerOf
<1>2. r \in Reqs /\ Sent(r, what, arg, Carried(t), heard)
  BY <1>1, RequestIs DEF Core
<1>3. Core(u)
  BY <1>1, <1>2, SendOK
<1>4. OnlyFlight(t, u) /\ u.flight = Append(t.flight, r)
  BY SendIs DEF Core
<1>5. t.flight \in Seq(Reqs)
  BY DEF Core, FlightOK
<1> HIDE DEF r, u
<1>6. Calm(t, u)
  BY <1>1, <1>2, <1>4, <1>5, CalmAppend DEF OnlyFlight, SameTokens, Sent
<1> QED BY <1>2, <1>3, <1>4, <1>6 DEF Keeps, OnlyFlight, u

(* Asking for a page's data marks the page as crossed if answers may meet. *)
LEMMA AskIs ==
  ASSUME NEW t, Core(t), NEW what \in PageKinds, NEW arg \in Args, NEW heard \in BOOLEAN,
         \A r : Sent(r, what, arg, Carried(t), heard) =>
           HeardOK(r, t.view.page, t.view.of, t.auth.mode)
  PROVE  LET u == Ask(t, what, arg, heard) IN
         /\ Core(u) /\ Keeps(t, u) /\ Calm(t, u)
         /\ u.user = t.user /\ u.count = t.count /\ u.auth = t.auth /\ SameView(t.view, u.view)
         /\ (u.view.crossed <=> t.view.crossed \/ Crosses(t, what))
         /\ \E r \in Reqs : Sent(r, what, arg, Carried(t), heard)
              /\ u.flight = Append(t.flight, r)
<1> DEFINE c == t.view.crossed \/ Crosses(t, what)
           b == [t EXCEPT !.view.crossed = c]
           u == Send(b, what, arg, heard)
<1>1. Ask(t, what, arg, heard) = u
  BY DEF Ask
<1>2. c \in BOOLEAN
  BY DEF Crosses, Core, ViewOK
<1> HIDE DEF c
<1>3. /\ Core(b) /\ SameTokens(t, b) /\ Keeps(t, b) /\ Calm(t, b)
      /\ b.user = t.user /\ b.count = t.count /\ b.flight = t.flight /\ b.auth = t.auth
      /\ SameView(t.view, b.view) /\ (b.view.crossed <=> c)
  BY <1>2, CrossStep DEF c
<1> HIDE DEF b
<1>4. Carried(b) = Carried(t)
  BY <1>3 DEF SameTokens, Carried, Held
<1>5. \A r : Sent(r, what, arg, Carried(b), heard)
          => HeardOK(r, b.view.page, b.view.of, b.auth.mode)
  BY <1>3, <1>4 DEF SameView
<1>6. /\ Core(u) /\ OnlyFlight(b, u) /\ Keeps(b, u) /\ Calm(b, u)
      /\ \E r \in Reqs : Sent(r, what, arg, Carried(b), heard) /\ u.flight = Append(b.flight, r)
  BY <1>3, <1>5, SendPage
<1> HIDE DEF u
<1>7. Calm(t, u) /\ Keeps(t, u)
  BY <1>3, <1>6, CalmTwice, KeepsTwice
<1>8. u.view = b.view /\ u.user = t.user /\ u.count = t.count /\ u.auth = t.auth
  BY <1>3, <1>6 DEF OnlyFlight
<1> QED BY <1>1, <1>3, <1>4, <1>6, <1>7, <1>8 DEF c

(* One request more.                                                       *)
LEMMA AppendTells ==
  ASSUME NEW f \in Seq(Reqs), NEW r \in Reqs
  PROVE  /\ Excused(Append(f, r)) <=> Excused(f) \/ Excuses(r)
         /\ \A q : Hidden(Append(f, r), q) <=> Hidden(f, q) \/ Hides(r, q)
<1> DEFINE g == Append(f, r)
           n == Len(f) + 1
<1>1. /\ DOMAIN g = DOMAIN f \cup {n} /\ n \notin DOMAIN f
      /\ \A i \in DOMAIN f : g[i] = f[i]
      /\ g[n] = r
  BY Appended
<1> HIDE DEF g, n
<1> QED BY <1>1 DEF Excused, Hidden, g

(* A request that crosses no other takes its turn.                         *)
LEMMA AskTurns ==
  ASSUME NEW t, t.flight \in Seq(Reqs), NEW v, NEW s, TurnsOK(v, t.flight, s), NEW r \in Reqs,
         r.heard, r.answer = None, ~Crosses(t, r.what), NEW w, w.page = v.page, w.of = v.of,
         Gives(r.what) /\ w.page = "estimate" => r.arg.of = w.of
  PROVE  TurnsOK(w, Append(t.flight, r), s)
<1> DEFINE f == t.flight
           g == Append(f, r)
           n == Len(f) + 1
<1>1. /\ DOMAIN g = DOMAIN f \cup {n} /\ n \notin DOMAIN f
      /\ \A i \in DOMAIN f : g[i] = f[i]
      /\ g[n] = r
  BY Appended
<1>2. \A i \in DOMAIN f : /\ Gives(r.what) => ~Gives(f[i].what) /\ ~Changes(f[i].what)
                          /\ Changes(r.what) => ~Gives(f[i].what)
  BY DEF Crosses
<1>3. Gives(r.what) => ~Good(r)
  BY DEF Good
<1>4. \A i \in DOMAIN f : Gives(f[i].what) => ~Gives(r.what) /\ ~Changes(r.what)
  BY <1>2
<1> HIDE DEF f, g, n
<1>5. TurnsOK(v, f, s)
  BY DEF f
<1>6. ASSUME NEW i \in DOMAIN g
      PROVE  /\ g[i].what \in PageKinds => g[i].heard
             /\ Gives(g[i].what) =>
                  /\ \A j \in DOMAIN g \ {i} : ~Gives(g[j].what) /\ ~Changes(g[j].what)
                  /\ Good(g[i]) => Fresh(g[i].answer.data, w.page, s)
                  /\ w.page = "estimate" => g[i].arg.of = w.of
  <2>1. CASE i = n
    BY <1>1, <1>2, <1>3, <2>1
  <2>2. CASE i \in DOMAIN f
    BY <1>1, <1>4, <1>5, <2>2 DEF TurnsOK
  <2> QED BY <1>1, <2>1, <2>2
<1> QED BY <1>6 DEF TurnsOK, f, g

(* The rest of a handler: the same page is there, and the same user.       *)
Moves(t, u) ==
  /\ Core(u) /\ Keeps(t, u) /\ Calm(t, u) /\ u.user = t.user /\ u.count = t.count
  /\ u.view.page = t.view.page /\ u.view.of = t.view.of /\ (t.view.crossed => u.view.crossed)

(* Two moves are one.                                                      *)
LEMMA MovesTwice ==
  ASSUME NEW t, NEW u, NEW w, Moves(t, u), Moves(u, w)
  PROVE  Moves(t, w)
BY CalmTwice, KeepsTwice DEF Moves

(* Doing nothing is a move.                                                *)
LEMMA MovesNot ==
  ASSUME NEW t, Core(t)
  PROVE  Moves(t, t)
BY CalmSame DEF Moves, Keeps, SameTokens

(* A request of the page that is there, if nothing crossed.                *)
Fits(v, r) ==
  /\ r.heard => r.arg.page = v.page /\ v.page \in Seen
  /\ Straight(v) => r.heard
  /\ Straight(v) /\ v.page = "estimate" => r.arg.of = v.of

(* A handler's answer fits the page as long as the page stays.             *)
LEMMA FitsStays ==
  ASSUME NEW t, NEW u, NEW r, Moves(t, u), Fits(t.view, r)
  PROVE  Fits(u.view, r)
BY DEF Moves, Fits, Straight

(* A load gives the page its data, hides nothing and excuses it meanwhile. *)
LEMMA LoadIs ==
  /\ "load" \in PageKinds /\ "load" \notin Handlers \cup Forms /\ Gives("load")
  /\ \A r : r.what = "load" => ~(\E q : Hides(r, q))
  /\ \A r : r.what = "load" /\ r.arg.upto = 1 => Excuses(r)
BY DEF PageKinds, Handlers, HandlerOf, Forms, Gives, Hides, Excuses

(* The load a handler sends makes the page right again, whatever was owed. *)
LEMMA SendLoadOK ==
  ASSUME NEW t, Core(t), NEW r \in Reqs, NEW of \in Terms,
      NEW then \in Handlers \cup {None, "more"},
         Fits(t.view, r), Straight(t.view) /\ t.view.page = "estimate" => of = t.view.of
  PROVE  LET u == SendLoad(t, r, of, then) IN
         /\ Moves(t, u)
         /\ \A s, waived : PagesOK(t, s, waived) => PagesOK(u, s, FALSE)
<1> DEFINE arg == [NoArg EXCEPT !.page = r.arg.page, !.of = of, !.then = then]
           u == SendLoad(t, r, of, then)
<1>1. u = Ask(t, "load", arg, r.heard)
  BY DEF SendLoad
<1>2. r.arg.page \in Pages0 /\ r.heard \in BOOLEAN
  BY DEF Reqs, Args
<1>3. arg \in Args /\ arg.page = r.arg.page /\ arg.of = of /\ arg.upto = 1
  <2> DEFINE p == r.arg.page
  <2>1. p \in Pages0 BY <1>2
  <2> HIDE DEF p
  <2>2. LET a == [NoArg EXCEPT !.page = p, !.of = of, !.then = then] IN
        a \in Args /\ a.page = p /\ a.of = of /\ a.then = then /\ a.upto = 1
    BY <2>1, NoArgIs DEF Args
  <2> QED BY <2>2 DEF p
<1> HIDE DEF arg, u
<1>4. \A q : Sent(q, "load", arg, Carried(t), r.heard)
          => HeardOK(q, t.view.page, t.view.of, t.auth.mode)
  BY <1>3, LoadIs DEF Sent, HeardOK, Fits
<1>5. /\ Core(u) /\ Keeps(t, u) /\ Calm(t, u)
      /\ u.user = t.user /\ u.count = t.count /\ SameView(t.view, u.view)
      /\ (u.view.crossed <=> t.view.crossed \/ Crosses(t, "load"))
      /\ \E q \in Reqs : Sent(q, "load", arg, Carried(t), r.heard)
           /\ u.flight = Append(t.flight, q)
  <2>1. "load" \in PageKinds BY LoadIs
  <2> QED BY <1>1, <1>2, <1>3, <1>4, <2>1, AskIs
<1>6. Moves(t, u)
  BY <1>5 DEF Moves, SameView
<1>7. ASSUME NEW s, NEW waived, PagesOK(t, s, waived), Straight(u.view)
      PROVE  /\ TurnsOK(u.view, u.flight, s)
             /\ u.view.data \notin {None, Bare} =>
                  CountOK(u.view, u.count) /\ ShownOK(u.view, u.flight, s)
  <2>1. PICK q \in Reqs : Sent(q, "load", arg, Carried(t), r.heard)
            /\ u.flight = Append(t.flight, q)
    BY <1>5
  <2>2. Straight(t.view) /\ ~Crosses(t, "load")
    BY <1>5, <1>7 DEF Straight, SameView
  <2>3. t.flight \in Seq(Reqs)
    BY DEF Core, FlightOK
  <2>4. q.what = "load" /\ q.heard /\ q.answer = None /\ q.arg = arg
    BY <2>1, <2>2 DEF Sent, Fits
  <2>5. Gives(q.what) /\ u.view.page = "estimate" => q.arg.of = u.view.of
    BY <1>3, <1>5, <2>2, <2>4 DEF SameView
  <2>6. TurnsOK(u.view, u.flight, s)
    <3>1. TurnsOK(t.view, t.flight, s) BY <1>7, <2>2 DEF PagesOK
    <3>2. u.view.page = t.view.page /\ u.view.of = t.view.of BY <1>5 DEF SameView
    <3>3. ~Crosses(t, q.what) BY <2>2, <2>4
    <3>4. TurnsOK(u.view, Append(t.flight, q), s)
      BY <2>3, <2>4, <2>5, <3>1, <3>2, <3>3, AskTurns
    <3> QED BY <2>1, <3>4
  <2>7. Excused(u.flight)
    <3>1. Excuses(q) BY <1>3, <2>4, LoadIs
    <3> QED BY <2>1, <2>3, <3>1, AppendTells
  <2>8. t.view.data \notin {None, Bare} => CountOK(u.view, u.count)
    BY <1>5, <1>7, <2>2 DEF PagesOK, CountOK, SameView
  <2> QED BY <1>5, <2>6, <2>7, <2>8 DEF ShownOK, SameView
<1> QED BY <1>6, <1>7 DEF PagesOK, u

(* A change of the open window alone.                                      *)
LEMMA ModalStep ==
  ASSUME NEW t, Core(t), NEW m,
          m # None => m.row \in Items0 /\ (m.kind = "price" => t.view.page = "estimate")
  PROVE  LET u == [t EXCEPT !.view.modal = m] IN
         /\ Core(u) /\ SameTokens(t, u) /\ Keeps(t, u) /\ Calm(t, u) /\ PagesToo(t, u)
         /\ u.user = t.user /\ u.count = t.count /\ u.flight = t.flight /\ u.auth = t.auth
         /\ u.dialog = t.dialog /\ SameView(t.view, u.view) /\ u.view.crossed = t.view.crossed
         /\ u.view.busy = t.view.busy /\ u.view.modal = m
<1> DEFINE v == [t.view EXCEPT !.modal = m]
           u == [t EXCEPT !.view = v]
<1>1. [t EXCEPT !.view.modal = m] = u
  OBVIOUS
<1>2. /\ ViewOK(v) /\ v.page = t.view.page /\ v.of = t.view.of /\ v.data = t.view.data
      /\ v.crossed = t.view.crossed /\ v.busy = t.view.busy /\ v.modal = m
  BY DEF Core, ViewOK, ViewShape, Record, ViewFields
<1>3. SameView(t.view, v)
  BY <1>2 DEF SameView
<1>4. FlightOK(t.flight, v.page, v.of, t.auth.mode)
  BY <1>2 DEF Core
<1> HIDE DEF v
<1>5. /\ Core(u) /\ SameTokens(t, u) /\ Keeps(t, u) /\ Calm(t, u)
      /\ u.user = t.user /\ u.count = t.count /\ u.view = v /\ u.flight = t.flight
      /\ u.auth = t.auth /\ u.dialog = t.dialog
      /\ (SameView(t.view, v) => PagesToo(t, u))
  BY <1>2, <1>4, ViewStep
<1> QED BY <1>1, <1>2, <1>3, <1>5

(* Each of the calls a handler makes after its request.                    *)
LEMMA FollowUpOK ==
  ASSUME NEW t, Core(t), NEW r \in Reqs, r.what \in Handlers, NEW f \in Calls,
         f \in Loads => Fits(t.view, r),
         f = "loadAll" /\ Straight(t.view) => t.view.page # "estimate"
  PROVE  LET u == FollowUp(t, r, f) IN
         /\ Moves(t, u)
         /\ \A s, waived : PagesOK(t, s, waived) => PagesOK(u, s, waived /\ f \notin Loads)
<1> DEFINE u == FollowUp(t, r, f)
<1>1. r.arg.of \in Terms /\ r.heard \in BOOLEAN /\ "" \in Terms
  BY PagesAssumption DEF Reqs, Args
<1>2. ASSUME NEW of \in Terms, NEW then \in Handlers \cup {None, "more"},
          u = SendLoad(t, r, of, then),
             f \in Loads, Straight(t.view) /\ t.view.page = "estimate" => of = t.view.of
      PROVE  Moves(t, u) /\ \A s, waived : PagesOK(t, s, waived) =>
                            PagesOK(u, s, waived /\ f \notin Loads)
  <2>1. Moves(t, u) /\ \A s, waived : PagesOK(t, s, waived) => PagesOK(u, s, FALSE)
    BY <1>2, SendLoadOK
  <2>2. \A waived : (waived /\ f \notin Loads) = FALSE
    BY <1>2
  <2> QED BY <2>1, <2>2
<1>3. ASSUME NEW then \in Handlers \cup {None, "more"}, u = refresh(t, then), f \notin Loads
      PROVE  Moves(t, u) /\ \A s, waived : PagesOK(t, s, waived) =>
                            PagesOK(u, s, waived /\ f \notin Loads)
  <2>1. Core(u) /\ OnlyFlight(t, u) /\ Keeps(t, u) /\ Calm(t, u) /\ PagesToo(t, u)
    BY <1>3, RefreshKeeps
  <2> HIDE DEF u
  <2>2. Moves(t, u) BY <2>1 DEF Moves, OnlyFlight
  <2>3. ASSUME NEW s, NEW waived, PagesOK(t, s, waived)
        PROVE  PagesOK(u, s, waived /\ f \notin Loads)
    BY <1>3, <2>1, <2>3 DEF PagesToo, PagesOK
  <2> QED BY <2>2, <2>3
<1>4. CASE f = "load"
  <2>1. u = SendLoad(t, r, r.arg.of, None) /\ f \in Loads BY <1>4 DEF FollowUp, Loads
  <2>2. Straight(t.view) /\ t.view.page = "estimate" => r.arg.of = t.view.of BY <2>1 DEF Fits
  <2> QED BY <1>1, <1>2, <2>1, <2>2
<1>5. CASE f = "loadAll"
  <2>1. u = SendLoad(t, r, "", None) /\ f \in Loads BY <1>5 DEF FollowUp, Loads
  <2> QED BY <1>1, <1>2, <1>5, <2>1
<1>6. CASE f = "loadThen"
  <2>1. u = SendLoad(t, r, r.arg.of, r.what) /\ f \in Loads BY <1>6 DEF FollowUp, Loads
  <2>2. Straight(t.view) /\ t.view.page = "estimate" => r.arg.of = t.view.of BY <2>1 DEF Fits
  <2> QED BY <1>1, <1>2, <2>1, <2>2
<1>7. CASE f = "refresh"
  <2>1. u = refresh(t, None) /\ f \notin Loads BY <1>7 DEF FollowUp, Loads
  <2> QED BY <1>3, <2>1
<1>8. CASE f = "refreshThen"
  <2>1. u = refresh(t, r.what) /\ f \notin Loads BY <1>8 DEF FollowUp, Loads
  <2> QED BY <1>3, <2>1
<1>9. CASE f = "close"
  <2> DEFINE w == [t EXCEPT !.view.modal = None]
  <2>1. u = (IF r.heard THEN w ELSE t) /\ f \notin Loads BY <1>9 DEF FollowUp, Loads
  <2>2. /\ Core(w) /\ Keeps(t, w) /\ Calm(t, w) /\ PagesToo(t, w)
        /\ w.user = t.user /\ w.count = t.count /\ SameView(t.view, w.view)
    BY ModalStep
  <2> HIDE DEF w, u
  <2>3. Moves(t, w) BY <2>2 DEF Moves, SameView
  <2>4. Moves(t, u) BY <2>1, <2>3, MovesNot
  <2>5. ASSUME NEW s, NEW waived, PagesOK(t, s, waived)
        PROVE  PagesOK(u, s, waived /\ f \notin Loads)
    <3>1. PagesOK(w, s, waived) BY <2>2, <2>5 DEF PagesToo
    <3>2. PagesOK(u, s, waived) BY <2>1, <2>5, <3>1
    <3> QED BY <2>1, <3>2 DEF PagesOK
  <2> QED BY <2>4, <2>5 DEF u
<1> QED BY <1>4, <1>5, <1>6, <1>7, <1>8, <1>9 DEF Calls, Loads

(* The k-th call, if there is one.                                         *)
LEMMA CalledOK ==
  ASSUME NEW t, Core(t), NEW r \in Reqs, r.what \in Handlers, NEW calls, CallsOK(calls), NEW k,
         LoadsIn(calls) => Fits(t.view, r),
         Straight(t.view) /\ t.view.page = "estimate"
             => \A j \in DOMAIN calls : calls[j] # "loadAll"
  PROVE  LET u == Called(t, r, calls, k) IN
         /\ Moves(t, u)
         /\ \A s, waived : PagesOK(t, s, waived) =>
              PagesOK(u, s, waived /\ ~(k \in DOMAIN calls /\ calls[k] \in Loads))
<1> DEFINE u == Called(t, r, calls, k)
<1>1. CASE k \in DOMAIN calls
  <2>1. u = FollowUp(t, r, calls[k]) BY <1>1 DEF Called
  <2>2. calls[k] \in Calls /\ (calls[k] \in Loads => Fits(t.view, r))
        /\ (calls[k] = "loadAll" /\ Straight(t.view) => t.view.page # "estimate")
    BY <1>1 DEF CallsOK, LoadsIn
  <2> DEFINE f == calls[k]
  <2> HIDE DEF f
  <2>3. f \in Calls /\ (f \in Loads => Fits(t.view, r))
            /\ (f = "loadAll" /\ Straight(t.view) => t.view.page # "estimate")
    BY <2>2 DEF f
  <2>4. LET w == FollowUp(t, r, f) IN
        /\ Moves(t, w)
        /\ \A s, waived : PagesOK(t, s, waived) => PagesOK(w, s, waived /\ f \notin Loads)
    BY <2>3, FollowUpOK
  <2>5. \A waived : (waived /\ ~(k \in DOMAIN calls /\ calls[k] \in Loads))
                     = (waived /\ f \notin Loads)
    BY <1>1 DEF f
  <2> QED BY <2>1, <2>4, <2>5 DEF f
<1>2. CASE k \notin DOMAIN calls
  <2>1. u = t BY <1>2 DEF Called
  <2>2. \A s, waived : PagesOK(t, s, waived) =>
          PagesOK(t, s, waived /\ ~(k \in DOMAIN calls /\ calls[k] \in Loads))
    BY <1>2 DEF PagesOK
  <2> QED BY <2>1, <2>2, MovesNot
<1> QED BY <1>1, <1>2

(* The three calls of a handler.                                           *)
LEMMA CallsDone ==
  ASSUME NEW t, Core(t), NEW r \in Reqs, r.what \in Handlers, NEW calls, CallsOK(calls),
         LoadsIn(calls) => Fits(t.view, r),
         Straight(t.view) /\ t.view.page = "estimate"
             => \A j \in DOMAIN calls : calls[j] # "loadAll"
  PROVE  LET u == Called(Called(Called(t, r, calls, 1), r, calls, 2), r, calls, 3) IN
         /\ Moves(t, u)
         /\ \A s : PagesOK(t, s, LoadsIn(calls)) => PagesOK(u, s, FALSE)
<1> DEFINE t1 == Called(t, r, calls, 1)
           t2 == Called(t1, r, calls, 2)
           t3 == Called(t2, r, calls, 3)
           in(k) == k \in DOMAIN calls /\ calls[k] \in Loads
<1>1. /\ Moves(t, t1)
      /\ \A s, waived : PagesOK(t, s, waived) => PagesOK(t1, s, waived /\ ~in(1))
  BY CalledOK
<1> HIDE DEF t1
<1>2. /\ Core(t1) /\ (LoadsIn(calls) => Fits(t1.view, r))
      /\ Straight(t1.view) /\ t1.view.page = "estimate"
           => \A j \in DOMAIN calls : calls[j] # "loadAll"
  BY <1>1, FitsStays DEF Moves, Straight
<1>3. /\ Moves(t1, t2)
      /\ \A s, waived : PagesOK(t1, s, waived) => PagesOK(t2, s, waived /\ ~in(2))
  BY <1>2, CalledOK
<1> HIDE DEF t2
<1>4. /\ Core(t2) /\ (LoadsIn(calls) => Fits(t2.view, r))
      /\ Straight(t2.view) /\ t2.view.page = "estimate"
           => \A j \in DOMAIN calls : calls[j] # "loadAll"
  BY <1>2, <1>3, FitsStays DEF Moves, Straight
<1>5. /\ Moves(t2, t3)
      /\ \A s, waived : PagesOK(t2, s, waived) => PagesOK(t3, s, waived /\ ~in(3))
  BY <1>4, CalledOK
<1> HIDE DEF t3
<1>6. Moves(t, t3)
  BY <1>1, <1>3, <1>5, MovesTwice
<1>7. LoadsIn(calls) => in(1) \/ in(2) \/ in(3)
  BY DEF LoadsIn, CallsOK
<1> HIDE DEF in
<1>8. ASSUME NEW s, PagesOK(t, s, LoadsIn(calls))
      PROVE  PagesOK(t3, s, FALSE)
  <2>1. PagesOK(t1, s, LoadsIn(calls) /\ ~in(1)) BY <1>1, <1>8
  <2>2. PagesOK(t2, s, (LoadsIn(calls) /\ ~in(1)) /\ ~in(2)) BY <1>3, <2>1
  <2>3. PagesOK(t3, s, ((LoadsIn(calls) /\ ~in(1)) /\ ~in(2)) /\ ~in(3)) BY <1>5, <2>2
  <2>4. ~(((LoadsIn(calls) /\ ~in(1)) /\ ~in(2)) /\ ~in(3)) BY <1>7
  <2> QED BY <2>3, <2>4 DEF PagesOK
<1> QED BY <1>6, <1>8 DEF t1, t2, t3

----------------------------------------------------------------------------
(* The end of a page's request.                                            *)

(* What a handler goes on with, after a 401 too.                           *)
Told(i, a) == IF a.status = "unauth" THEN onUnauth(Received(tab, i, a)) ELSE Received(tab, i, a)

(* The request is gone; the user is too after a 401.                       *)
Gone(i, a, t) ==
  /\ Core(t) /\ t.booting = tab.booting /\ t.view = tab.view /\ t.auth = tab.auth
  /\ t.chat = tab.chat /\ t.flight = RemoveAt(tab.flight, i) /\ Keeps(tab, t)
  /\ IF a.status = "unauth" THEN t.user = None ELSE t.user = tab.user /\ t.count = tab.count

(* The tab when the handler goes on: the request is gone, and after a 401  *)
(* the user is.                                                            *)
LEMMA ToldIs ==
  ASSUME Settled(tab, server), NEW i \in Requests,
      tab.flight[i].what \notin {"refresh", "logout"},
         NEW a, EndOK(tab.flight[i], a)
  PROVE  /\ Gone(i, a, Told(i, a))
         /\ AgreesOn(tab) /\ a.token = None => AgreesOn(Told(i, a))
         /\ a.status # "unauth" => Receipt(tab, i, a, Told(i, a))
<1> DEFINE q == Received(tab, i, a)
<1>1. Core(tab) /\ i \in DOMAIN tab.flight /\ a.token \in Tokens0
  BY DEF Settled, Requests, EndOK
<1>2. /\ Core(q) /\ Keeps(tab, q) /\ q.user = tab.user /\ q.auth = tab.auth /\ q.view = tab.view
      /\ q.count = tab.count /\ q.flight = RemoveAt(tab.flight, i) /\ Receipt(tab, i, a, q)
  BY <1>1, ReceivedKeeps
<1>3. AgreesOn(tab) /\ a.token = None => AgreesOn(q) /\ AgreesOn(onUnauth(q))
  BY <1>1, ReceivedAgrees
<1> HIDE DEF q
<1>4. q.chat = tab.chat /\ q.booting = tab.booting
  BY <1>2 DEF Receipt, SameRest
<1>5. CASE a.status = "unauth"
  <2> DEFINE t == onUnauth(q)
  <2>1. Core(t) /\ SameRest(q, t) /\ t.flight = q.flight /\ t.user = None
    BY <1>2, OutOK, OutIs DEF Core
  <2>2. Told(i, a) = t BY <1>5 DEF Told, q
  <2> HIDE DEF t
  <2>3. Gone(i, a, t)
    BY <1>2, <1>4, <1>5, <2>1 DEF Gone, SameRest, Keeps
  <2>4. AgreesOn(tab) /\ a.token = None => AgreesOn(t)
    BY <1>3 DEF t
  <2> QED BY <1>5, <2>2, <2>3, <2>4
<1>6. CASE a.status # "unauth"
  <2>1. Told(i, a) = q BY <1>6 DEF Told, q
  <2>2. Gone(i, a, q) BY <1>2, <1>4, <1>6 DEF Gone
  <2> QED BY <1>2, <1>3, <2>1, <2>2
<1> QED BY <1>5, <1>6

(* What is left of a step that starts from there.                          *)
LEMMA ToldFinish ==
  ASSUME Settled(tab, server), NEW i, NEW a, NEW t, Gone(i, a, t), NEW u, Core(u), Keeps(t, u),
         u.user = t.user, a.status # "unauth" => PagesOK(u, server, FALSE), Becomes(u)
  PROVE  Settled(tab', server) /\ (AgreesOn(u) => AgreesOn(tab')) /\ SameTokens(u, tab')
<1>1. Mounted(tab, Screen(tab)) /\ Keeps(tab, u)
  BY KeepsTwice DEF Settled, Gone
<1>2. Mounted(u, Screen(tab)) /\ (u.booting => tab.booting)
  BY <1>1, KeepsMounted DEF Keeps
<1>3. Screen(u) = "app" => a.status # "unauth"
  BY DEF Screen, Gone
<1> QED BY <1>2, <1>3, Finish

(* A change of password answered while the tab is that user's.             *)
LEMMA PasswordAgrees ==
  ASSUME Core(tab), AgreesOn(tab), NEW i \in DOMAIN tab.flight, tab.flight[i].what = "password",
      NEW a,
         a.token # None, a.status \in {"ok", "garbled"},
         Carried(tab) # None, a.token.user = Carried(tab).user,
         NEW t, Receipt(tab, i, a, t)
  PROVE  AgreesOn(t)
<1> DEFINE u == Carried(tab).user
<1>1. t.cookie = a.token /\ t.user = tab.user /\ a.status # "unauth"
  BY DEF Receipt
<1>2. IF Named(a) # None THEN Saves(tab, t, a.token) ELSE t.memory = tab.memory
          /\ t.stored = tab.stored
  BY <1>1 DEF Receipt, Named
<1>3. Carried(t) # None /\ Carried(t).user = u
  <2>1. CASE Named(a) # None
    BY <1>2, <2>1 DEF Saves, Carried, Held
  <2>2. CASE Named(a) = None
    <3>1. Held(t) = Held(tab) BY <1>2, <2>2 DEF Held
    <3> QED BY <1>1, <3>1 DEF Carried
  <2> QED BY <2>1, <2>2
<1>4. AgreeOn(tab, u)
  BY DEF AgreesOn
<1>5. tab.flight \in Seq(Reqs)
  BY DEF Core, FlightOK
<1>6. Lacks(tab.flight, t.flight, i)
  BY <1>5, LacksIs DEF Receipt
<1> HIDE DEF u
<1>7. \A j \in DOMAIN t.flight :
        Asks(t.flight[j]) /\ t.flight[j].token # None => t.flight[j].token.user = u
  BY <1>4, <1>6 DEF AgreeOn, Lacks
<1>8. Asked(tab) => Asked(t)
  BY <1>6 DEF Lacks, Asked, Asks
<1>9. AgreeOn(t, u)
  BY <1>1, <1>4, <1>7, <1>8, a.token.user = u DEF AgreeOn, u
<1> QED BY <1>3, <1>9 DEF AgreesOn

(* A handler that ends without a load, nothing having crossed, owed        *)
(* nothing to the page.                                                    *)
LEMMA NothingOwed ==
  ASSUME NEW r \in Reqs, AnsOK(r), r.what \in Handlers, NEW a, EndOK(r, a), NEW page,
         page \in HandlerOf[r.what].on, page \in Seen, ~Unnoticed(r, a),
         LET h == HandlerOf[r.what]
             good == a.status \in {"ok", "garbled"}
         IN  ~(good /\ h.gives) /\ ~LoadsIn(IF good THEN h.ok ELSE h.err)
  PROVE  ~Excuses(r) /\ \A q : ~Hides(r, q)
<1> DEFINE h == HandlerOf[r.what]
<1>1. HandlerOK(r.what, h)
  BY HandlerTable
<1>2. a.status \in {"ok", "garbled"} => Good(r)
  BY EndFacts
<1>3. r.what # "load"
  BY LoadIs
<1>4. Changes(r.what) <=> h.does # "none"
  BY DEF Changes
<1> HIDE DEF h
<1>5. CASE a.status \in {"ok", "garbled"}
  <2>1. Good(r) /\ ~h.gives /\ ~LoadsIn(h.ok)
    BY <1>2, <1>5 DEF h
  <2>2. h.on \cap Seen # {}
    BY DEF h
  <2>3. r.what = "purchasesArchive" \/ ~Changes(r.what)
    BY <1>1, <1>4, <2>1, <2>2 DEF HandlerOK
  <2>4. r.what \in Hiding => Changes(r.what)
    BY <1>1, <1>4 DEF HandlerOK
  <2>5. ~Excuses(r)
    BY <1>3, <2>3, <2>4 DEF Excuses
  <2> QED BY <2>1, <2>5 DEF Hides
<1>6. CASE a.status \notin {"ok", "garbled"}
  <2>1. ~LoadsIn(h.err)
    BY <1>6 DEF h
  <2>2. r.what \notin Hiding
    BY <1>1, <2>1 DEF HandlerOK
  <2>3. \A k \in DOMAIN h.err : h.err[k] # "load"
    BY <2>1 DEF LoadsIn, Loads
  <2>4. ~(Changes(r.what) /\ Good(r))
    <3> SUFFICES ASSUME Changes(r.what), Good(r) PROVE FALSE
      OBVIOUS
    <3>1. a # r.answer
      BY <1>6 DEF Good
    <3>2. a.status = "lost" /\ r.at # "hung"
      BY <1>6, <3>1 DEF EndOK
    <3>3. r.at # "sent"
      BY DEF AnsOK, Good
    <3>4. r.at = "served"
      BY <3>2, <3>3 DEF Reqs
    <3>5. Unnoticed(r, a)
      BY <2>3, <3>2, <3>4 DEF Unnoticed, Good, h
    <3> QED BY <3>5
  <2>5. ~Excuses(r)
    BY <1>3, <2>2, <2>4 DEF Excuses
  <2>6. r.what # "purchasesArchive"
    BY <2>2 DEF Hiding
  <2> QED BY <2>5, <2>6 DEF Hides
<1> QED BY <1>5, <1>6

(* The page as it is when the handler makes its calls.                     *)
SeenView(v, r, a) ==
  LET h     == HandlerOf[r.what]
      good  == a.status \in {"ok", "garbled"}
      calls == IF good THEN h.ok ELSE h.err
  IN  [v EXCEPT
        !.busy    = IF Awaits(calls) THEN @ ELSE Lowered(@, r.what, r.arg.row),
        !.data    = IF good /\ h.gives THEN a.data ELSE @,
        !.found   = IF good /\ h.finds THEN r.arg.row ELSE @,
        !.crossed = @ \/ Unnoticed(r, a) \/ (r.what = "clearPrice" /\ r.arg.of # "")]

(* The view after a handler's answer.                                      *)
LEMMA SeenViewIs ==
  ASSUME NEW v, ViewOK(v), NEW r \in Reqs, AnsOK(r), r.what \in Handlers,
      v.page \in HandlerOf[r.what].on,
         NEW a, EndOK(r, a)
  PROVE  LET w == SeenView(v, r, a)
             shows == a.status \in {"ok", "garbled"} /\ HandlerOf[r.what].gives
         IN  /\ ViewOK(w) /\ w.page = v.page /\ w.of = v.of
             /\ w.data = IF shows THEN a.data ELSE v.data
             /\ (v.crossed => w.crossed) /\ (Unnoticed(r, a) => w.crossed)
<1> DEFINE w == SeenView(v, r, a)
           shows == a.status \in {"ok", "garbled"} /\ HandlerOf[r.what].gives
           lost == Unnoticed(r, a) \/ (r.what = "clearPrice" /\ r.arg.of # "")
<1>1. /\ ViewShape(w) /\ w.page = v.page /\ w.of = v.of /\ w.wait = v.wait
      /\ w.loading = v.loading /\ w.modal = v.modal
      /\ w.data = (IF shows THEN a.data ELSE v.data)
      /\ w.crossed = (v.crossed \/ lost)
  <2>1. Record(v, ViewFields)
    BY DEF ViewOK, ViewShape
  <2>2. ViewShape(w)
    BY <2>1 DEF SeenView, ViewShape, Record, ViewFields
  <2>3. /\ w.page = v.page /\ w.of = v.of /\ w.wait = v.wait
        /\ w.loading = v.loading /\ w.modal = v.modal
    BY <2>1 DEF SeenView, Record, ViewFields
  <2>4. w.data = (IF shows THEN a.data ELSE v.data)
    BY <2>1 DEF SeenView, Record, ViewFields
  <2>5. w.crossed = (v.crossed \/ lost)
    BY <2>1 DEF SeenView, Record, ViewFields
  <2> QED BY <2>2, <2>3, <2>4, <2>5
<1>2. a.data \in Data0
  <2>1. r.what \in PageKinds BY DEF PageKinds
  <2> QED BY <2>1, EndFacts
<1>3. shows => v.page = "estimate"
  <2> DEFINE h == HandlerOf[r.what]
  <2>1. HandlerOK(r.what, h)
    BY HandlerTable
  <2> HIDE DEF h
  <2>2. h.gives => h.on = {"estimate"}
    BY <2>1 DEF HandlerOK
  <2> QED BY <2>2 DEF h
<1> HIDE DEF w, shows
<1>4. w.data \in DataV /\ w.crossed \in BOOLEAN
  BY <1>1, <1>2 DEF ViewOK, DataV, lost
<1>5. a.data # Bare
  BY <1>2, ApiAssumption, NoneAssumption DEF Data0
<1>6. ViewOK(w)
  BY <1>1, <1>3, <1>4, <1>5 DEF ViewOK
<1> QED BY <1>1, <1>6 DEF w, shows, lost

(* The calls a handler makes after its request.                            *)
CallsOf(r, a) ==
  IF a.status \in {"ok", "garbled"} THEN HandlerOf[r.what].ok ELSE HandlerOf[r.what].err

(* Without and with a page that throws.                                    *)
WholeTab(t, r, a) == IF r.heard THEN [t EXCEPT !.view = SeenView(t.view, r, a)] ELSE t

SeenTab(t, r, a) ==
  IF ~r.heard THEN t
  ELSE IF Breaks(r, a) THEN Crashed(t)
  ELSE [t EXCEPT !.view = SeenView(t.view, r, a)]

(* The page when the handler makes its calls, nothing having been thrown:  *)
(* right, or a load is still to be sent.                                   *)
LEMMA WholeSeen ==
  ASSUME Settled(tab, server), NEW i \in Requests, tab.flight[i].what \in Handlers,
         NEW a, EndOK(tab.flight[i], a), NEW t, Gone(i, a, t)
  PROVE  LET r == tab.flight[i]
             calls == CallsOf(r, a)
             u == WholeTab(t, r, a)
         IN
         /\ Core(u) /\ Keeps(t, u) /\ Calm(t, u) /\ u.user = t.user
         /\ LoadsIn(calls) => Fits(u.view, r)
         /\ Straight(u.view) /\ u.view.page = "estimate"
              => \A k \in DOMAIN calls : calls[k] # "loadAll"
         /\ a.status # "unauth" => PagesOK(u, server, LoadsIn(calls))
<1> DEFINE r == tab.flight[i]
           calls == CallsOf(r, a)
           u == WholeTab(t, r, a)
           h == HandlerOf[r.what]
           good == a.status \in {"ok", "garbled"}
           page == tab.view.page
<1>0. /\ r.what \in Handlers /\ EndOK(r, a) /\ calls = IF good THEN h.ok ELSE h.err
      /\ u = IF r.heard THEN [t EXCEPT !.view = SeenView(t.view, r, a)] ELSE t
  BY DEF CallsOf, WholeTab
<1>1. Core(tab) /\ PagesOK(tab, server, FALSE) /\ i \in DOMAIN tab.flight
  BY DEF Settled, Requests
<1>2. r \in Reqs /\ AnsOK(r) /\ tab.flight \in Seq(Reqs)
      /\ (r.heard => page \in h.on /\ r.arg.page = page) /\ r.heard \in BOOLEAN
  <2>1. r \in Reqs /\ AnsOK(r) /\ HeardOK(r, page, tab.view.of, tab.auth.mode)
            /\ tab.flight \in Seq(Reqs)
    BY <1>1 DEF Core, FlightOK, r
  <2>2. r.heard => page \in h.on /\ r.arg.page = page
    BY <1>0, <2>1 DEF HeardOK, h
  <2> QED BY <2>1, <2>2 DEF Reqs
<1>3. HandlerOK(r.what, h)
  BY <1>0, HandlerTable
<1>4. Core(t) /\ t.view = tab.view /\ t.flight = RemoveAt(tab.flight, i)
      /\ (a.status # "unauth" => t.user = tab.user /\ t.count = tab.count)
  BY DEF Gone
<1>5. r.what \in PageKinds
  BY <1>0 DEF PageKinds
<1>6. Straight(tab.view) => TurnsOK(tab.view, tab.flight, server) /\ r.heard
  BY <1>1, <1>5 DEF PagesOK, TurnsOK, r
<1>7. Lacks(tab.flight, t.flight, i)
  BY <1>1, <1>2, <1>4, LacksIs
<1> HIDE DEF r, u, calls, h, good, page
<1>8. /\ Core(u) /\ Keeps(t, u) /\ Calm(t, u) /\ u.user = t.user
      /\ u.view.page = page /\ u.view.of = tab.view.of /\ (tab.view.crossed => u.view.crossed)
      /\ u.count = t.count /\ u.flight = t.flight
      /\ r.heard => /\ u.view.data = IF good /\ h.gives THEN a.data ELSE tab.view.data
                    /\ Unnoticed(r, a) => u.view.crossed
  <2>1. CASE r.heard
    <3> DEFINE v == SeenView(t.view, r, a)
    <3>1. ViewOK(t.view) /\ t.view.page \in HandlerOf[r.what].on
      BY <1>2, <1>4, <2>1 DEF Core, h, page
    <3>2. /\ ViewOK(v) /\ v.page = page /\ v.of = tab.view.of
          /\ v.data = (IF good /\ h.gives THEN a.data ELSE tab.view.data)
          /\ (tab.view.crossed => v.crossed) /\ (Unnoticed(r, a) => v.crossed)
      BY <1>0, <1>2, <1>4, <3>1, SeenViewIs DEF h, good, page
    <3> HIDE DEF v
    <3>3. v.page = t.view.page /\ FlightOK(t.flight, v.page, v.of, t.auth.mode)
      BY <1>4, <3>2 DEF Core, page
    <3>4. LET w == [t EXCEPT !.view = v] IN
          /\ Core(w) /\ SameTokens(t, w) /\ Keeps(t, w) /\ Calm(t, w)
          /\ w.user = t.user /\ w.count = t.count /\ w.view = v /\ w.flight = t.flight
      BY <1>4, <3>2, <3>3, ViewStep
    <3>5. u = [t EXCEPT !.view = v]
      BY <1>0, <2>1 DEF v
    <3> QED BY <3>2, <3>4, <3>5
  <2>2. CASE ~r.heard
    BY <1>0, <1>4, <2>2, CalmSame DEF Keeps, SameTokens, page
  <2> QED BY <2>1, <2>2
<1>9. Straight(u.view) => Straight(tab.view)
  BY <1>8 DEF Straight, page
<1>10. LoadsIn(calls) => Fits(u.view, r)
  <2>1. LoadsIn(calls) /\ r.heard => page \in Seen
    BY <1>0, <1>2, <1>3 DEF HandlerOK
  <2>2. LoadsIn(calls) /\ page = "estimate" /\ page \in h.on => h.gives
    BY <1>0, <1>3 DEF HandlerOK
  <2>3. h.gives /\ Straight(tab.view) /\ page = "estimate" => r.arg.of = tab.view.of
    BY <1>0, <1>1, <1>6 DEF TurnsOK, Gives, h, page, r
  <2> QED BY <1>2, <1>6, <1>8, <1>9, <2>1, <2>2, <2>3 DEF Fits
<1>11. Straight(u.view) /\ u.view.page = "estimate"
           => \A k \in DOMAIN calls : calls[k] # "loadAll"
  <2> SUFFICES ASSUME Straight(u.view), page = "estimate"
               PROVE  \A k \in DOMAIN calls : calls[k] # "loadAll"
    BY <1>8
  <2>1. "estimate" \in h.on
    BY <1>2, <1>6, <1>9
  <2>2. ~LoadsIn(h.ok) /\ \A k \in DOMAIN h.err : h.err[k] # "loadAll"
    BY <1>3, <2>1 DEF HandlerOK
  <2>3. \A k \in DOMAIN h.ok : h.ok[k] # "loadAll"
    BY <2>2 DEF LoadsIn, Loads
  <2> QED BY <1>0, <2>2, <2>3
<1>12. ASSUME a.status # "unauth", Straight(u.view)
       PROVE  /\ TurnsOK(u.view, u.flight, server)
              /\ u.view.data \notin {None, Bare} =>
                   CountOK(u.view, u.count)
                      /\ (LoadsIn(calls) \/ ShownOK(u.view, u.flight, server))
  <2>1. Straight(tab.view) /\ r.heard /\ page \in h.on /\ page \in Seen
    BY <1>2, <1>6, <1>9, <1>12 DEF Straight, page
  <2>2. TurnsOK(u.view, u.flight, server)
    BY <1>6, <1>7, <1>8, <2>1, TurnsRemove DEF page
  <2>3. ~Unnoticed(r, a)
    BY <1>8, <1>12, <2>1 DEF Straight
  <2>4. CASE good /\ h.gives
    <3>1. page = "estimate"
      BY <1>3, <2>1, <2>4 DEF HandlerOK
    <3>2. ASSUME a.data # None PROVE Matches(u.view, u.flight, server)
      <4>1. Gives(r.what) BY <1>0, <2>4 DEF Gives, h
      <4>2. a.status = "ok" /\ a = r.answer /\ Good(r) /\ a.data.of = r.arg.of
        BY <1>0, <1>2, <1>5, <3>2, <4>1, EndFacts
      <4>3. Fresh(r.answer.data, page, server) /\ r.arg.of = tab.view.of
        BY <1>1, <1>6, <2>1, <3>1, <4>1, <4>2 DEF TurnsOK, page, r
      <4>4. u.view.data = r.answer.data BY <1>8, <2>1, <2>4, <4>2
      <4>5. u.view.data.edits = server.edits /\ u.view.data.of = u.view.of
        BY <1>8, <4>2, <4>3, <4>4 DEF Fresh
      <4> QED BY <1>8, <3>1, <4>5 DEF Matches
    <3> QED BY <1>8, <2>1, <2>2, <2>4, <3>1, <3>2 DEF ShownOK, CountOK
  <2>5. CASE ~(good /\ h.gives)
    <3>1. SameView(tab.view, u.view) /\ u.count = tab.count /\ u.flight = RemoveAt(tab.flight, i)
      BY <1>4, <1>8, <1>12, <2>1, <2>5 DEF SameView, page
    <3>2. PagesOK(tab, server, LoadsIn(calls))
      BY <1>1 DEF PagesOK
    <3>3. LoadsIn(calls) \/ (~Excuses(r) /\ \A q : ~Hides(r, q))
      <4> SUFFICES ASSUME ~LoadsIn(calls) PROVE ~Excuses(r) /\ \A q : ~Hides(r, q)
        OBVIOUS
      <4> QED BY <1>0, <1>2, <2>1, <2>3, <2>5, NothingOwed DEF h, good
    <3>4. PagesOK(u, server, LoadsIn(calls))
      BY <1>1, <1>2, <3>1, <3>2, <3>3, PagesRemove DEF r
    <3> QED BY <1>12, <3>4 DEF PagesOK
  <2> QED BY <2>4, <2>5
<1> QED BY <1>8, <1>10, <1>11, <1>12 DEF PagesOK, r, u, calls

(* The page when the handler makes its calls: as above, or taken down.     *)
LEMMA HandlerSeen ==
  ASSUME Settled(tab, server), NEW i \in Requests, tab.flight[i].what \in Handlers,
         NEW a, EndOK(tab.flight[i], a), NEW t, Gone(i, a, t)
  PROVE  LET r == tab.flight[i]
             calls == CallsOf(r, a)
             u == SeenTab(t, r, a)
         IN
         /\ Core(u) /\ Keeps(t, u) /\ Calm(t, u) /\ u.user = t.user
         /\ LoadsIn(calls) => Fits(u.view, r)
         /\ Straight(u.view) /\ u.view.page = "estimate"
              => \A k \in DOMAIN calls : calls[k] # "loadAll"
         /\ a.status # "unauth" => PagesOK(u, server, LoadsIn(calls))
<1> DEFINE r == tab.flight[i]
           h == HandlerOf[r.what]
           u == SeenTab(t, r, a)
<1>1. CASE ~(r.heard /\ Breaks(r, a))
  <2>1. u = WholeTab(t, r, a)
    BY <1>1 DEF SeenTab, WholeTab
  <2> QED BY <2>1, WholeSeen
<1>2. CASE r.heard /\ Breaks(r, a)
  <2>1. u = Crashed(t) /\ CallsOf(r, a) = h.ok
    BY <1>2 DEF SeenTab, CallsOf, Breaks
  <2>2. Core(t) /\ t.view.page = tab.view.page
    BY DEF Gone
  <2>3. /\ Core(u) /\ Calm(t, u) /\ \A s, waived : PagesOK(u, s, waived)
        /\ u.user = t.user /\ u.booting = t.booting /\ u.auth = t.auth
        /\ u.view.page = t.view.page /\ u.view.crossed
    BY <2>1, <2>2, CrashedOK
  <2>4. tab.view.page \in h.on
    BY <1>2 DEF Settled, Core, FlightOK, HeardOK, Requests
  <2>5. HandlerOK(r.what, h)
    BY HandlerTable
  <2>8. r.what = "priceSearch" => h.ok = <<>>
    <3>1. HandlerOf["priceSearch"] = priceSearch BY DEF HandlerOf
    <3>2. priceSearch.ok = <<>> BY DEF priceSearch, Handler
    <3> QED BY <3>1, <3>2
  <2>9. h.gives \/ r.what = "priceSearch"
    BY <1>2 DEF Breaks
  <2> HIDE DEF u, r, h
  <2>6. ~LoadsIn(h.ok)
    <3>1. CASE h.gives
      BY <2>4, <2>5, <3>1 DEF HandlerOK
    <3>2. CASE r.what = "priceSearch"
      BY <2>8, <3>2 DEF LoadsIn, Loads
    <3> QED BY <2>9, <3>1, <3>2
  <2>7. ~Straight(u.view) /\ Keeps(t, u)
    BY <2>3 DEF Straight, Keeps
  <2> QED BY <2>1, <2>3, <2>6, <2>7 DEF u, r
<1> QED BY <1>1, <1>2

(* The rest of a handler.  Only the late answer to a change of password    *)
(* may part the user shown from the one spoken for.                        *)
LEMMA HandlerEndsOK ==
  ASSUME Settled(tab, server), NEW i \in Requests, tab.flight[i].what \in Handlers,
         NEW a, EndOK(tab.flight[i], a), HandlerEnds(i, a)
  PROVE  Settled(tab', server) /\ (AgreesOn(tab) => AgreesOn(tab') \/ LatePassword)
<1> DEFINE r == tab.flight[i]
           t == Told(i, a)
           calls == CallsOf(r, a)
           u == SeenTab(t, r, a)
           w == Called(Called(Called(u, r, calls, 1), r, calls, 2), r, calls, 3)
<1>1. Becomes(w)
  BY ZenonT(60) DEF HandlerEnds, Told, SeenView, SeenTab, CallsOf
<1>2. Core(tab) /\ i \in DOMAIN tab.flight /\ r \in Reqs /\ AnsOK(r)
  BY DEF Settled, Core, FlightOK, Requests
<1>3. r.what \notin {"refresh", "logout"} \cup Signs /\ CallsOK(calls)
  <2>1. HandlerOK(r.what, HandlerOf[r.what])
    BY HandlerTable
  <2>2. "refresh" \notin Handlers /\ "logout" \notin Handlers /\ Signs \cap Handlers = {}
    BY DEF Handlers, HandlerOf, Signs
  <2> QED BY <2>1, <2>2 DEF HandlerOK, CallsOf
<1>4. /\ Gone(i, a, t)
      /\ AgreesOn(tab) /\ a.token = None => AgreesOn(t)
      /\ a.status # "unauth" => Receipt(tab, i, a, t)
  BY <1>3, ToldIs
<1> HIDE DEF t, calls
<1>5. /\ Core(u) /\ Keeps(t, u) /\ Calm(t, u) /\ u.user = t.user
      /\ LoadsIn(calls) => Fits(u.view, r)
      /\ Straight(u.view) /\ u.view.page = "estimate"
           => \A k \in DOMAIN calls : calls[k] # "loadAll"
      /\ a.status # "unauth" => PagesOK(u, server, LoadsIn(calls))
  BY <1>4, HandlerSeen DEF calls
<1> HIDE DEF u
<1>6. Moves(u, w) /\ \A s : PagesOK(u, s, LoadsIn(calls)) => PagesOK(w, s, FALSE)
  BY <1>2, <1>3, <1>5, CallsDone
<1> HIDE DEF w
<1>7. /\ Core(w) /\ Keeps(t, w) /\ Calm(t, w) /\ w.user = t.user
      /\ a.status # "unauth" => PagesOK(w, server, FALSE)
  BY <1>5, <1>6, KeepsTwice, CalmTwice DEF Moves
<1>8. Settled(tab', server) /\ (AgreesOn(w) => AgreesOn(tab')) /\ SameTokens(w, tab')
  BY <1>1, <1>4, <1>7, ToldFinish
<1>9. AgreesOn(t) => AgreesOn(tab')
  BY <1>7, <1>8, CalmAgrees
<1>10. ASSUME AgreesOn(tab), a.token # None PROVE AgreesOn(tab') \/ LatePassword
  <2>1. r.what = "password" /\ a.status \in {"ok", "garbled"} /\ r.token # None
        /\ a.token.user = r.token.user /\ Good(r) /\ a.token = r.answer.token
    BY <1>2, <1>3, <1>10, EndFacts
  <2>2. Receipt(tab, i, a, t)
    BY <1>4, <2>1
  <2>3. CASE Carried(tab) # None /\ Carried(tab).user = r.token.user
    <3>1. a.token.user = Carried(tab).user BY <2>1, <2>3
    <3>2. AgreesOn(t)
      BY <1>2, <1>10, <2>1, <2>2, <2>3, <3>1, PasswordAgrees
    <3> QED BY <1>9, <3>2
  <2>4. CASE Carried(tab) = None \/ Carried(tab).user # r.token.user
    <3>1. t.cookie = a.token BY <1>10, <2>1, <2>2 DEF Receipt
    <3>2. tab'.cookie = r.answer.token
      BY <1>7, <1>8, <2>1, <3>1 DEF Calm, SameTokens
    <3> QED BY <2>1, <2>4, <3>2 DEF LatePassword, Good
  <2> QED BY <2>3, <2>4
<1> QED BY <1>4, <1>8, <1>9, <1>10

(* A change of the counter alone.                                          *)
LEMMA CountStep ==
  ASSUME NEW t, Core(t), NEW c \in Nat
  PROVE  LET u == [t EXCEPT !.count = c] IN
         /\ Core(u) /\ SameTokens(t, u) /\ Keeps(t, u) /\ Calm(t, u)
         /\ u.user = t.user /\ u.count = c /\ u.view = t.view /\ u.flight = t.flight
         /\ u.auth = t.auth /\ u.dialog = t.dialog
<1> DEFINE u == [t EXCEPT !.count = c]
<1>1. /\ Shape(u) /\ SameTokens(t, u) /\ u.user = t.user /\ u.booting = t.booting
      /\ u.count = c /\ u.view = t.view /\ u.flight = t.flight /\ u.chat = t.chat
      /\ u.dialog = t.dialog /\ u.address = t.address /\ u.auth = t.auth
  BY DEF Core, Shape, Record, TabFields, SameTokens
<1> HIDE DEF u
<1>2. Core(u)
  BY <1>1 DEF Core, SameTokens, TokensOK
<1>3. Calm(t, u)
  BY <1>1, CalmSame
<1> QED BY <1>1, <1>2, <1>3 DEF Keeps, u

(* What a load makes of the page.                                          *)

(* The view a load leaves, if the page does not throw.                     *)
LoadedView(v, r, a) ==
  LET new == Taken(r, a, v.data)
  IN  IF a.status \notin {"ok", "garbled"} THEN [v EXCEPT !.crossed = TRUE]
      ELSE [v EXCEPT !.data = new,
                     !.wait = v.wait \/ (r.arg.page = "admin" /\ UptoOf(v.data) # UptoOf(new))]

(* The data after a load: the answer's, with the older rows counted in     *)
(* when more were asked for.                                               *)
LEMMA LoadedDataIs ==
  ASSUME NEW old \in DataV, NEW r \in Reqs, NEW a, a.status = "ok", a.data \in PageData,
         ~Throws(r, a, old)
  PROVE  LET d == Taken(r, a, old) IN
         /\ d \in PageData /\ d.of = a.data.of /\ d.upto = a.data.upto /\ d.row = a.data.row
         /\ d.edits = IF Appends(r, old) /\ old.edits < a.data.edits
                      THEN old.edits ELSE a.data.edits
         /\ Appends(r, old) => old \notin {None, Bare}
<1>1. Appends(r, old) => old \in PageData /\ old # Bare /\ old # None
  BY NoneAssumption DEF Appends, Throws, DataV, Data0
<1>2. Appends(r, old) => old.edits \in Nat
  BY <1>1 DEF PageData
<1>3. CASE Appends(r, old)
  <2>1. Taken(r, a, old)
          = [a.data EXCEPT !.edits = IF old.edits < a.data.edits THEN old.edits ELSE a.data.edits]
    BY <1>3 DEF Taken
  <2> QED BY <1>1, <1>2, <1>3, <2>1 DEF PageData
<1>4. CASE ~Appends(r, old)
  BY <1>4 DEF Taken
<1> QED BY <1>3, <1>4

(* The view after a load: new data after a good answer, none of the kind   *)
(* expected after one cut short, crossed after a bad one.                  *)
LEMMA LoadedViewIs ==
  ASSUME NEW v, ViewOK(v), NEW r \in Reqs, AnsOK(r), r.what = "load", v.page \in Seen,
         r.arg.page = v.page, NEW a, EndOK(r, a), ~Throws(r, a, v.data)
  PROVE  LET w == LoadedView(v, r, a) IN
         /\ ViewOK(w) /\ w.page = v.page /\ w.of = v.of
         /\ (a.status = "ok" => a.data \in PageData /\ w.data = Taken(r, a, v.data))
         /\ (a.status = "garbled" => w.data = Bare)
         /\ (a.status \notin {"ok", "garbled"} => w.crossed)
         /\ (v.crossed => w.crossed)
<1> DEFINE w == LoadedView(v, r, a)
           d == Taken(r, a, v.data)
           wait == v.wait \/ (r.arg.page = "admin" /\ UptoOf(v.data) # UptoOf(d))
<1>1. a.data \in Data0 /\ (a.status = "ok" => a.data # None)
  BY EndFacts, LoadIs
<1>2. a.status = "ok" => a.data \in PageData
  BY <1>1 DEF Data0
<1>3. v.page # "search"
  BY DEF Seen, Loading
<1>4. CASE a.status \in {"ok", "garbled"}
  <2>1. d \in DataV /\ (d = Bare => v.page \in Lenient) /\ (a.status = "garbled" => d = Bare)
    <3>1. CASE a.status = "ok"
      <4>1. v.data \in DataV BY DEF ViewOK
      <4>2. d \in PageData BY <1>2, <3>1, <4>1, LoadedDataIs
      <4> QED BY <3>1, <4>2, NoneAssumption DEF DataV, Data0
    <3>2. CASE a.status = "garbled"
      BY <3>2 DEF Taken, Throws, DataV
    <3> QED BY <1>4, <3>1, <3>2
  <2>2. w = [v EXCEPT !.data = d, !.wait = wait]
    BY <1>4 DEF LoadedView
  <2>3. wait \in BOOLEAN /\ (wait => v.page \in {"search", "admin"})
    BY DEF ViewOK
  <2> HIDE DEF d, wait, w
  <2>4. /\ ViewShape(w) /\ w.page = v.page /\ w.of = v.of /\ w.data = d /\ w.wait = wait
        /\ w.loading = v.loading /\ w.crossed = v.crossed /\ w.modal = v.modal
    BY <2>2 DEF ViewOK, ViewShape, Record, ViewFields
  <2>5. ViewOK(w)
    BY <1>3, <2>1, <2>3, <2>4 DEF ViewOK
  <2> QED BY <1>2, <1>4, <2>1, <2>4, <2>5 DEF w, d
<1>5. CASE a.status \notin {"ok", "garbled"}
  <2>2. w = [v EXCEPT !.crossed = TRUE]
    BY <1>5 DEF LoadedView
  <2> HIDE DEF w
  <2>4. /\ ViewShape(w) /\ w.page = v.page /\ w.of = v.of /\ w.data = v.data /\ w.wait = v.wait
        /\ w.loading = v.loading /\ w.crossed = TRUE /\ w.modal = v.modal
    BY <2>2 DEF ViewOK, ViewShape, Record, ViewFields
  <2>5. ViewOK(w)
    BY <2>4 DEF ViewOK
  <2> QED BY <1>5, <2>4, <2>5 DEF w
<1> QED BY <1>4, <1>5

(* A fresh answer, with nothing else of the page under way, is the page    *)
(* as the server has it.                                                   *)
LEMMA FreshMatches ==
  ASSUME NEW s, ServerOK(s), NEW v, v.data.row = RowsFor(v.page, s), v.data.edits = s.edits,
         v.page = "estimate" => v.data.of = v.of, NEW f, \A j \in DOMAIN f : ~Changes(f[j].what)
  PROVE  Matches(v, f, s)
<1>1. "purchasesArchive" \in Handlers
          /\ HandlerOK("purchasesArchive", HandlerOf["purchasesArchive"])
  BY HandlerTable DEF Handlers, HandlerOf
<1>2. Changes("purchasesArchive")
  BY <1>1 DEF Changes, HandlerOK
<1>3. \A q : ~Hidden(f, q)
  BY <1>2 DEF Hidden, Hides
<1>4. SupplierRows(s) = s.row
  BY DEF SupplierRows, Only, ServerOK
<1>5. \A q \in Items : PurchasesRows(s)[q] = "active" <=> s.row[q] = "active"
  BY DEF PurchasesRows, Only, ServerOK
<1>6. /\ RowsFor("supplier", s) = SupplierRows(s) /\ RowsFor("purchases", s) = PurchasesRows(s)
      /\ RowsFor("dashboard", s) = PurchasesRows(s)
  BY DEF RowsFor, PurchasesRows, DashboardRows
<1> QED BY <1>3, <1>4, <1>5, <1>6 DEF Matches

(* The active products can be counted.                                     *)
LEMMA ActiveCount ==
  ASSUME NEW d
  PROVE  IsFiniteSet(ActiveIn(d)) /\ Cardinality(ActiveIn(d)) \in Nat
<1>1. ActiveIn(d) \subseteq Items
  BY DEF ActiveIn
<1> QED BY <1>1, PagesAssumption, FS_Subset, FS_CardinalityType

(* The counter after a load.                                               *)
CountAfter(c, r, a) ==
  IF a.status = "ok" /\ r.arg.page \in {"dashboard", "purchases"}
  THEN Cardinality(ActiveIn(a.data))
  ELSE IF a.status = "garbled" /\ r.arg.page = "dashboard" THEN 0 ELSE c

(* A load changes the counter and nothing besides it and the view.         *)
LEMMA CountedByIs ==
  ASSUME NEW t, Core(t), NEW r, NEW a
  PROVE  LET u == CountedBy(t, r, a) IN
         /\ Core(u) /\ Keeps(t, u) /\ Calm(t, u) /\ u.user = t.user /\ u.flight = t.flight
         /\ u.view = t.view /\ u.count = CountAfter(t.count, r, a)
<1> DEFINE u == CountedBy(t, r, a)
           c == CountAfter(t.count, r, a)
<1>1. CASE u = t /\ c = t.count
  BY <1>1, CalmSame DEF Keeps, SameTokens
<1>2. CASE u = [t EXCEPT !.count = c] /\ c \in Nat
  <2> HIDE DEF u, c
  <2> QED BY <1>2, CountStep DEF u, c
<1>3. \/ u = t /\ c = t.count
      \/ u = [t EXCEPT !.count = c] /\ c \in Nat
  <2>1. Cardinality(ActiveIn(a.data)) \in Nat
    BY ActiveCount
  <2> QED BY <2>1 DEF CountedBy, CountAfter
<1> QED BY <1>1, <1>2, <1>3

(* The tab after a load that the page stands.                              *)
LoadSeen(t, r, a) == IF r.heard THEN [t EXCEPT !.view = LoadedView(t.view, r, a)] ELSE t

(* The tab after a load, field by field.                                   *)
LEMMA LoadSteps ==
  ASSUME NEW t, Core(t), NEW r \in Reqs, AnsOK(r), r.what = "load",
         HeardOK(r, t.view.page, t.view.of, t.auth.mode), NEW a, EndOK(r, a),
         r.heard => ~Throws(r, a, t.view.data)
  PROVE  LET u == CountedBy(LoadSeen(t, r, a), r, a) IN
         /\ Core(u) /\ Keeps(t, u) /\ Calm(t, u) /\ u.user = t.user /\ u.flight = t.flight
         /\ u.view = IF r.heard THEN LoadedView(t.view, r, a) ELSE t.view
         /\ u.count = CountAfter(t.count, r, a)
<1> DEFINE v == LoadedView(t.view, r, a)
           q == LoadSeen(t, r, a)
           u == CountedBy(q, r, a)
<1>1. r.heard => t.view.page \in Seen /\ r.arg.page = t.view.page
  BY DEF HeardOK
<1>2. /\ Core(q) /\ Keeps(t, q) /\ Calm(t, q) /\ q.user = t.user /\ q.flight = t.flight
      /\ q.view = (IF r.heard THEN v ELSE t.view) /\ q.count = t.count
  <2>1. CASE r.heard
    <3>1. ViewOK(v) /\ v.page = t.view.page /\ v.of = t.view.of
      BY <1>1, <2>1, LoadedViewIs DEF Core
    <3>2. FlightOK(t.flight, v.page, v.of, t.auth.mode)
      BY <3>1 DEF Core
    <3>3. q = [t EXCEPT !.view = v]
      BY <2>1 DEF LoadSeen
    <3> HIDE DEF v, q
    <3> QED BY <2>1, <3>1, <3>2, <3>3, ViewStep
  <2>2. CASE ~r.heard
    <3>1. q = t BY <2>2 DEF LoadSeen
    <3> QED BY <2>2, <3>1, CalmSame DEF Keeps, SameTokens
  <2> QED BY <2>1, <2>2
<1> HIDE DEF q, v
<1>3. /\ Core(u) /\ Keeps(q, u) /\ Calm(q, u) /\ u.user = q.user /\ u.flight = q.flight
      /\ u.view = q.view /\ u.count = CountAfter(q.count, r, a)
  BY <1>2, CountedByIs
<1> HIDE DEF u
<1>4. Keeps(t, u) /\ Calm(t, u)
  BY <1>2, <1>3, KeepsTwice, CalmTwice
<1> QED BY <1>2, <1>3, <1>4 DEF u, q, v

(* A load leaves a page that shows what the server has.                    *)
LEMMA LoadPages ==
  ASSUME Settled(tab, server), ServerOK(server), NEW i \in Requests, tab.flight[i].what = "load",
         NEW a, EndOK(tab.flight[i], a), NEW u, u.flight = RemoveAt(tab.flight, i),
         u.view = IF tab.flight[i].heard THEN LoadedView(tab.view, tab.flight[i], a)
                  ELSE tab.view,
         tab.flight[i].heard => ~Throws(tab.flight[i], a, tab.view.data),
         u.count = CountAfter(tab.count, tab.flight[i], a)
  PROVE  PagesOK(u, server, FALSE)
<1> DEFINE r == tab.flight[i]
           v == tab.view
           w == u.view
           f == tab.flight
           g == u.flight
<1>1. Core(tab) /\ PagesOK(tab, server, FALSE) /\ i \in DOMAIN f
  BY DEF Settled, Requests
<1>2. r \in Reqs /\ AnsOK(r) /\ f \in Seq(Reqs) /\ HeardOK(r, v.page, v.of, tab.auth.mode)
  BY <1>1 DEF Core, FlightOK
<1>3. Lacks(f, g, i)
  BY <1>1, <1>2, LacksIs
<1>4. Gives(r.what) /\ r.what \in PageKinds
  BY LoadIs
<1>5. ViewOK(v)
  BY <1>1 DEF Core
<1>6. r.heard =>
        /\ r.arg.page = v.page /\ v.page \in Seen /\ w.page = v.page /\ w.of = v.of
        /\ (a.status = "ok" => a.data \in PageData /\ w.data = Taken(r, a, v.data))
        /\ (a.status = "garbled" => w.data = Bare)
        /\ (a.status \notin {"ok", "garbled"} => w.crossed)
        /\ (v.crossed => w.crossed)
  <2>1. ASSUME r.heard PROVE r.arg.page = v.page /\ v.page \in Seen
    BY <1>2, <2>1 DEF HeardOK
  <2> QED BY <1>2, <1>5, <2>1, LoadedViewIs
<1>7. a.status = "ok" => Good(r) /\ a = r.answer /\ a.data.of = r.arg.of
  BY <1>2, <1>4, EndFacts
<1> SUFFICES ASSUME Straight(w)
             PROVE  /\ TurnsOK(w, g, server)
                    /\ w.data \notin {None, Bare} =>
                         CountOK(w, u.count) /\ ShownOK(w, g, server)
  BY DEF PagesOK
<1>8. w = (IF r.heard THEN LoadedView(v, r, a) ELSE v)
  OBVIOUS
<1>9. a.status = "ok" /\ r.arg.page \in {"dashboard", "purchases"}
        => u.count = Cardinality(ActiveIn(a.data))
  BY DEF CountAfter
<1> HIDE DEF w, g
<1>10. Straight(v)
  BY <1>6, <1>8 DEF Straight
<1>11. TurnsOK(v, f, server) /\ r.heard
  BY <1>1, <1>4, <1>10 DEF PagesOK, TurnsOK
<1>12. /\ \A j \in DOMAIN f \ {i} : ~Gives(f[j].what) /\ ~Changes(f[j].what)
       /\ Good(r) => Fresh(r.answer.data, v.page, server)
       /\ v.page = "estimate" => r.arg.of = v.of
  BY <1>1, <1>4, <1>11 DEF TurnsOK
<1>13. TurnsOK(w, g, server)
  BY <1>3, <1>6, <1>11, TurnsRemove
<1>14. a.status \in {"ok", "garbled"}
  BY <1>6, <1>11 DEF Straight
<1>15. ASSUME a.status = "ok" PROVE CountOK(w, u.count) /\ Matches(w, g, server)
  <2> DEFINE d == Taken(r, a, v.data)
  <2>1. /\ a.data \in PageData /\ w.data = d /\ w.page = v.page /\ w.of = v.of
             /\ r.arg.page = v.page
        /\ a.data.of = r.arg.of /\ Fresh(a.data, v.page, server)
    BY <1>6, <1>7, <1>11, <1>12, <1>15
  <2>2. /\ d.of = a.data.of /\ d.row = a.data.row
        /\ d.edits = IF Appends(r, v.data) /\ v.data.edits < a.data.edits
                     THEN v.data.edits ELSE a.data.edits
        /\ Appends(r, v.data) => v.data \notin {None, Bare}
    BY <1>2, <1>5, <1>11, <1>15, <2>1, LoadedDataIs DEF ViewOK
  <2> HIDE DEF d
  <2>3. Appends(r, v.data) => v.data.edits = server.edits
    <3> SUFFICES ASSUME Appends(r, v.data) PROVE v.data.edits = server.edits
      OBVIOUS
    <3>0. Hiding \subseteq Handlers
      BY DEF Hiding, Handlers, HandlerOf
    <3>1. ASSUME NEW w0 \in Hiding PROVE Changes(w0)
      <4>1. HandlerOK(w0, HandlerOf[w0]) BY <3>0, HandlerTable
      <4> QED BY <3>0, <4>1 DEF HandlerOK, Changes
    <3>2. ~Excuses(r)
      <4>1. r.what \notin Hiding /\ ~Changes(r.what)
        BY <3>0, LoadIs DEF Changes
      <4> QED BY <4>1 DEF Excuses, Appends
    <3>3. \A j \in DOMAIN f \ {i} : ~Excuses(f[j])
      BY <1>12, <3>1, LoadIs DEF Excuses
    <3>4. ~Excused(f)
      BY <3>2, <3>3 DEF Excused
    <3>5. Matches(v, f, server)
      BY <1>1, <1>10, <2>2, <3>4 DEF PagesOK, ShownOK
    <3> QED BY <3>5 DEF Matches
  <2>4. a.data.edits = server.edits /\ a.data.row = RowsFor(v.page, server)
    BY <2>1 DEF Fresh
  <2>5. d.edits = server.edits /\ d.row = RowsFor(v.page, server)
    BY <2>2, <2>3, <2>4
  <2>6. v.page = "estimate" => d.of = v.of
    BY <1>12, <2>1, <2>2
  <2>7. \A j \in DOMAIN g : ~Changes(g[j].what)
    BY <1>3, <1>12 DEF Lacks
  <2>8. Matches(w, g, server)
    BY <2>1, <2>5, <2>6, <2>7, FreshMatches
  <2>9. v.page \in {"purchases", "dashboard"} => u.count = Cardinality(ActiveIn(a.data))
    BY <1>9, <1>15, <2>1
  <2>10. ActiveIn(d) = ActiveIn(a.data)
    BY <2>2 DEF ActiveIn
  <2> QED BY <2>1, <2>8, <2>9, <2>10 DEF CountOK
<1> QED BY <1>6, <1>11, <1>13, <1>14, <1>15 DEF ShownOK

(* What a page reads is the view above, or it is taken down.               *)
LEMMA ReadIs ==
  ASSUME NEW t, Core(t), NEW r, NEW a
  PROVE  Read(t, r, a) = IF Throws(r, a, t.view.data) THEN Crashed(t)
                         ELSE [t EXCEPT !.view = LoadedView(t.view, r, a)]
<1>1. Throws(r, a, t.view.data) => a.status \in {"ok", "garbled"}
  BY DEF Throws
<1>2. CASE a.status \notin {"ok", "garbled"}
  BY <1>1, <1>2 DEF Read, LoadedView
<1>3. CASE a.status \in {"ok", "garbled"} /\ Throws(r, a, t.view.data)
  BY <1>3 DEF Read
<1>4. CASE a.status \in {"ok", "garbled"} /\ ~Throws(r, a, t.view.data)
  <2> DEFINE new == Taken(r, a, t.view.data)
             wait == t.view.wait \/ (r.arg.page = "admin" /\ UptoOf(t.view.data) # UptoOf(new))
  <2>1. Shape(t) /\ ViewShape(t.view)
    BY DEF Core, ViewOK
  <2>2. Read(t, r, a) = [t EXCEPT !.view.data = new, !.view.wait = wait]
    BY <1>4, <2>1 DEF Read, ViewShape, Shape, Record, ViewFields, TabFields
  <2>3. LoadedView(t.view, r, a) = [t.view EXCEPT !.data = new, !.wait = wait]
    BY <1>4 DEF LoadedView
  <2> HIDE DEF new, wait
  <2>4. [t EXCEPT !.view.data = new, !.view.wait = wait]
          = [t EXCEPT !.view = [t.view EXCEPT !.data = new, !.wait = wait]]
    OBVIOUS
  <2> QED BY <1>4, <2>2, <2>3, <2>4
<1> QED BY <1>2, <1>3, <1>4

(* The end of a load.                                                      *)
LEMMA LoadEndsOK ==
  ASSUME Settled(tab, server), ServerOK(server), NEW i \in Requests, tab.flight[i].what = "load",
         NEW a, EndOK(tab.flight[i], a), LoadEnds(i, a)
  PROVE  Settled(tab', server) /\ (AgreesOn(tab) => AgreesOn(tab'))
<1> DEFINE r == tab.flight[i]
           t == Told(i, a)
           q == IF r.heard THEN Read(t, r, a) ELSE t
           u == CountedBy(q, r, a)
           w == Resumed(u, r, r.arg.then, a.status # "garbled")
<1>1. Becomes(w)
  BY DEF LoadEnds, Told
<1>2. Core(tab) /\ i \in DOMAIN tab.flight /\ r \in Reqs /\ AnsOK(r)
      /\ HeardOK(r, tab.view.page, tab.view.of, tab.auth.mode)
  BY DEF Settled, Core, FlightOK, Requests
<1>3. r.what = "load" /\ r.what \notin {"refresh", "logout"} \cup Signs \cup {"password"}
  BY DEF Signs
<1>4. /\ Gone(i, a, t)
      /\ AgreesOn(tab) /\ a.token = None => AgreesOn(t)
  BY <1>3, ToldIs
<1>5. a.token = None
  BY <1>2, <1>3, EndFacts
<1>6. Core(t) /\ HeardOK(r, t.view.page, t.view.of, t.auth.mode)
  BY <1>2, <1>4 DEF Gone
<1> HIDE DEF t
<1>7. /\ Core(u) /\ Keeps(t, u) /\ Calm(t, u) /\ u.user = t.user
      /\ a.status # "unauth" => PagesOK(u, server, FALSE)
  <2>1. CASE r.heard /\ Throws(r, a, t.view.data)
    <3>1. q = Crashed(t)
      BY <1>6, <2>1, ReadIs
    <3>2. Core(q) /\ Calm(t, q) /\ Keeps(t, q) /\ q.user = t.user /\ q.view.crossed
      BY <1>6, <3>1, CrashedOK DEF Keeps
    <3> HIDE DEF q
    <3>3. Core(u) /\ Keeps(q, u) /\ Calm(q, u) /\ u.user = q.user /\ u.view = q.view
      BY <3>2, CountedByIs
    <3> HIDE DEF u
    <3>4. Keeps(t, u) /\ Calm(t, u)
      BY <3>2, <3>3, KeepsTwice, CalmTwice
    <3> QED BY <3>2, <3>3, <3>4 DEF PagesOK, Straight
  <2>2. CASE ~(r.heard /\ Throws(r, a, t.view.data))
    <3>1. q = LoadSeen(t, r, a)
      BY <1>6, <2>2, ReadIs DEF LoadSeen
    <3> HIDE DEF q
    <3>2. /\ Core(u) /\ Keeps(t, u) /\ Calm(t, u) /\ u.user = t.user /\ u.flight = t.flight
          /\ u.view = (IF r.heard THEN LoadedView(t.view, r, a) ELSE t.view)
          /\ u.count = CountAfter(t.count, r, a)
      BY <1>2, <1>3, <1>6, <2>2, <3>1, LoadSteps
    <3> HIDE DEF u
    <3>3. ASSUME a.status # "unauth" PROVE PagesOK(u, server, FALSE)
      <4>1. u.flight = RemoveAt(tab.flight, i) /\ t.view = tab.view /\ t.count = tab.count
        BY <1>4, <3>2, <3>3 DEF Gone
      <4>2. u.view = IF tab.flight[i].heard THEN LoadedView(tab.view, tab.flight[i], a)
                     ELSE tab.view
        BY <3>2, <4>1
      <4>3. /\ u.count = CountAfter(tab.count, tab.flight[i], a)
            /\ tab.flight[i].heard => ~Throws(tab.flight[i], a, tab.view.data)
        BY <2>2, <3>2, <4>1
      <4> QED BY <4>1, <4>2, <4>3, LoadPages
    <3> QED BY <3>2, <3>3
  <2> QED BY <2>1, <2>2
<1> HIDE DEF u
<1>9. Core(w) /\ Keeps(u, w) /\ Calm(u, w) /\ PagesToo(u, w) /\ w.user = u.user
  BY <1>7, ResumedOK
<1> HIDE DEF w
<1>10. Core(w) /\ Keeps(t, w) /\ Calm(t, w) /\ w.user = t.user
       /\ (a.status # "unauth" => PagesOK(w, server, FALSE))
  BY <1>7, <1>9, KeepsTwice, CalmTwice DEF PagesToo
<1>11. Settled(tab', server) /\ (AgreesOn(w) => AgreesOn(tab'))
  BY <1>1, <1>4, <1>10, ToldFinish
<1>12. AgreesOn(t) => AgreesOn(w)
  BY <1>10, CalmAgrees
<1> QED BY <1>4, <1>5, <1>11, <1>12

(* The end of a search.                                                    *)
LEMMA SearchEndsOK ==
  ASSUME Settled(tab, server), NEW i \in Requests, tab.flight[i].what = "search",
         NEW a, EndOK(tab.flight[i], a), SearchEnds(i, a)
  PROVE  Settled(tab', server) /\ (AgreesOn(tab) => AgreesOn(tab'))
<1> DEFINE r == tab.flight[i]
           t == Told(i, a)
           v == [t.view EXCEPT !.data = a.data, !.loading = FALSE]
           w == IF ~r.heard THEN t
                ELSE IF a.status = "garbled" THEN Crashed(t)
                ELSE [t EXCEPT !.view = v]
<1>1. Becomes(w)
  BY DEF SearchEnds, Told
<1>2. Core(tab) /\ i \in DOMAIN tab.flight /\ r \in Reqs /\ AnsOK(r) /\ tab.flight \in Seq(Reqs)
      /\ HeardOK(r, tab.view.page, tab.view.of, tab.auth.mode) /\ PagesOK(tab, server, FALSE)
  <2>1. Core(tab) /\ PagesOK(tab, server, FALSE) BY DEF Settled
  <2>2. FlightOK(tab.flight, tab.view.page, tab.view.of, tab.auth.mode) /\ i \in DOMAIN tab.flight
    BY <2>1 DEF Core, Requests
  <2>3. r \in Reqs /\ AnsOK(r) /\ tab.flight \in Seq(Reqs)
        /\ HeardOK(r, tab.view.page, tab.view.of, tab.auth.mode)
    BY <2>2 DEF FlightOK
  <2> QED BY <2>1, <2>2, <2>3
<1>3. /\ r.what = "search" /\ r.what \notin {"refresh", "logout"} \cup Signs \cup {"password"}
      /\ r.what \in PageKinds /\ r.what \notin Handlers
  BY DEF Signs, PageKinds, Handlers, HandlerOf
<1>4. /\ Gone(i, a, t)
      /\ AgreesOn(tab) /\ a.token = None => AgreesOn(t)
  BY <1>3, ToldIs
<1>5. a.token = None /\ a.data \in Data0 /\ (a.data # None => a.data.of = r.arg.of)
  BY <1>2, <1>3, EndFacts
<1>6. Core(t) /\ t.view = tab.view /\ t.auth = tab.auth /\ t.flight = RemoveAt(tab.flight, i)
      /\ (a.status # "unauth" => t.count = tab.count)
  BY <1>4 DEF Gone
<1>7. r.heard => t.view.page = "search" /\ r.arg.of = t.view.of
  BY <1>2, <1>3, <1>6 DEF HeardOK
<1> HIDE DEF t
<1>8. /\ Core(w) /\ Keeps(t, w) /\ Calm(t, w) /\ w.user = t.user
      /\ a.status # "unauth" => PagesOK(w, server, FALSE)
  <2>0. CASE r.heard /\ a.status = "garbled"
    <3>1. w = Crashed(t) BY <2>0
    <3> HIDE DEF w
    <3>2. Core(w) /\ Keeps(t, w) /\ Calm(t, w) /\ w.user = t.user /\ PagesOK(w, server, FALSE)
      BY <1>6, <3>1, CrashedOK DEF Keeps
    <3> QED BY <3>2
  <2>1. CASE r.heard /\ a.status # "garbled"
    <3>0. v.data # Bare /\ v.data \in DataV
      BY <1>5, <1>6, ApiAssumption, NoneAssumption DEF Data0, DataV, Core, ViewOK, ViewShape,
         Record, ViewFields
    <3>1. ViewOK(t.view) BY <1>6 DEF Core
    <3>2. v.page = t.view.page /\ v.of = t.view.of /\ v.data = a.data /\ v.loading = FALSE
          /\ ViewShape(v) /\ v.wait = t.view.wait /\ v.crossed = t.view.crossed
          /\ v.modal = t.view.modal
      BY <3>1 DEF ViewOK, ViewShape, Record, ViewFields
    <3>3. ViewOK(v)
      BY <1>5, <1>7, <2>1, <3>0, <3>1, <3>2 DEF ViewOK
    <3>4. FlightOK(t.flight, v.page, v.of, t.auth.mode)
      BY <1>6, <3>2 DEF Core
    <3>5. w = [t EXCEPT !.view = v] BY <2>1
    <3> HIDE DEF v, w
    <3>6. Core(w) /\ Keeps(t, w) /\ Calm(t, w) /\ w.user = t.user /\ w.view = v
      BY <1>6, <3>2, <3>3, <3>4, <3>5, ViewStep
    <3>7. "search" \notin Seen BY DEF Seen, Loading
    <3>8. PagesOK(w, server, FALSE)
      BY <1>7, <2>1, <3>2, <3>6, <3>7 DEF PagesOK, Straight
    <3> QED BY <3>6, <3>8
  <2>2. CASE ~r.heard
    <3>1. w = t BY <2>2
    <3>2. Keeps(t, t) /\ Calm(t, t)
      BY CalmSame DEF Keeps, SameTokens
    <3>3. ~Straight(tab.view)
      BY <1>2, <1>3, <2>2 DEF PagesOK, TurnsOK
    <3>4. PagesOK(t, server, FALSE)
      BY <1>6, <3>3 DEF PagesOK
    <3> HIDE DEF w
    <3> QED BY <1>6, <3>1, <3>2, <3>4
  <2> QED BY <2>0, <2>1, <2>2
<1> HIDE DEF w
<1>9. Settled(tab', server) /\ (AgreesOn(w) => AgreesOn(tab'))
  BY <1>1, <1>4, <1>8, ToldFinish
<1>10. AgreesOn(t) => AgreesOn(w)
  BY <1>8, CalmAgrees
<1> QED BY <1>4, <1>5, <1>9, <1>10

(* A change of the support window alone.                                   *)
LEMMA ChatStep ==
  ASSUME NEW t, Core(t), NEW c, ChatShape(c)
  PROVE  LET u == [t EXCEPT !.chat = c] IN
         /\ Core(u) /\ SameTokens(t, u) /\ Keeps(t, u) /\ Calm(t, u) /\ PagesToo(t, u)
         /\ u.user = t.user /\ u.count = t.count /\ u.view = t.view /\ u.flight = t.flight
         /\ u.auth = t.auth /\ u.dialog = t.dialog /\ u.chat = c
<1> DEFINE u == [t EXCEPT !.chat = c]
<1>1. /\ Shape(u) /\ SameTokens(t, u) /\ u.user = t.user /\ u.booting = t.booting
           /\ u.count = t.count
      /\ u.address = t.address /\ u.auth = t.auth /\ u.chat = c /\ u.view = t.view
      /\ u.dialog = t.dialog /\ u.flight = t.flight
  BY DEF Core, Shape, Record, TabFields, SameTokens
<1> HIDE DEF u
<1>2. Core(u)
  BY <1>1, CoreView DEF Core
<1>3. Calm(t, u)
  BY <1>1, CalmSame
<1>4. PagesToo(t, u)
  BY <1>1 DEF PagesToo, PagesOK
<1> QED BY <1>1, <1>2, <1>3, <1>4 DEF Keeps, u

(* The end of a request of the support window.                             *)
LEMMA ChatEndsOK ==
  ASSUME Settled(tab, server), NEW i \in Requests, tab.flight[i].what \in {"status", "chat"},
         NEW a, EndOK(tab.flight[i], a), ChatEnds(i, a)
  PROVE  Settled(tab', server) /\ (AgreesOn(tab) => AgreesOn(tab'))
<1> DEFINE r == tab.flight[i]
           t == Told(i, a)
           w == IF ~r.heard THEN t
                ELSE IF r.what = "status"
                   THEN [t EXCEPT !.chat.enabled = a.status = "ok" /\ a.data]
                ELSE ChatAnswered(t, a)
<1>1. Becomes(w)
  BY DEF ChatEnds, Told
<1>2. Core(tab) /\ i \in DOMAIN tab.flight /\ r \in Reqs /\ AnsOK(r) /\ tab.flight \in Seq(Reqs)
      /\ PagesOK(tab, server, FALSE)
  <2>1. Core(tab) /\ PagesOK(tab, server, FALSE) BY DEF Settled
  <2>2. FlightOK(tab.flight, tab.view.page, tab.view.of, tab.auth.mode) /\ i \in DOMAIN tab.flight
    BY <2>1 DEF Core, Requests
  <2>3. r \in Reqs /\ AnsOK(r) /\ tab.flight \in Seq(Reqs)
        /\ HeardOK(r, tab.view.page, tab.view.of, tab.auth.mode)
    BY <2>2 DEF FlightOK
  <2> QED BY <2>1, <2>2, <2>3
<1>3. /\ r.what \notin {"refresh", "logout"} \cup Signs \cup {"password"}
      /\ r.what \notin PageKinds
  BY DEF Signs, PageKinds, Handlers, HandlerOf
<1>4. /\ Gone(i, a, t)
      /\ AgreesOn(tab) /\ a.token = None => AgreesOn(t)
  BY <1>3, ToldIs
<1>5. a.token = None
  BY <1>2, <1>3, EndFacts
<1>6. Core(t) /\ t.view = tab.view /\ t.flight = RemoveAt(tab.flight, i)
      /\ (a.status # "unauth" => t.count = tab.count)
  BY <1>4 DEF Gone
<1>7. a.status # "unauth" => PagesOK(t, server, FALSE)
  <2>1. ~Excuses(r) /\ \A q : ~Hides(r, q)
    BY <1>3, OfPages
  <2>2. SameView(tab.view, t.view)
    BY <1>6 DEF SameView
  <2> QED BY <1>2, <1>6, <2>1, <2>2, PagesRemove
<1> HIDE DEF t
<1>8. \E c : ChatShape(c) /\ w = [t EXCEPT !.chat = c]
  <2>1. ChatShape(t.chat) /\ Shape(t)
    BY <1>6 DEF Core
  <2>2. CASE ~r.heard
    <3>1. t = [t EXCEPT !.chat = t.chat]
      BY <2>1 DEF Shape, Record, TabFields
    <3> QED BY <2>1, <2>2, <3>1
  <2>3. CASE r.heard /\ r.what = "status"
    <3>1. ChatShape([t.chat EXCEPT !.enabled = a.status = "ok" /\ a.data])
      BY <2>1 DEF ChatShape, Record, ChatFields
    <3>2. w = [t EXCEPT !.chat = [t.chat EXCEPT !.enabled = a.status = "ok" /\ a.data]]
      BY <2>3
    <3> QED BY <3>1, <3>2
  <2>4. CASE r.heard /\ r.what # "status" /\ a.status = "ok"
    <3>1. ChatShape([t.chat EXCEPT !.busy = FALSE, !.typing = TRUE])
      BY <2>1 DEF ChatShape, Record, ChatFields
    <3>2. w = [t EXCEPT !.chat = [t.chat EXCEPT !.busy = FALSE, !.typing = TRUE]]
      BY <2>1, <2>4 DEF ChatAnswered, Shape, Record, TabFields
    <3> QED BY <3>1, <3>2
  <2>5. CASE r.heard /\ r.what # "status" /\ a.status # "ok"
    <3>1. ChatShape([t.chat EXCEPT !.busy = FALSE, !.error = TRUE])
      BY <2>1 DEF ChatShape, Record, ChatFields
    <3>2. w = [t EXCEPT !.chat = [t.chat EXCEPT !.busy = FALSE, !.error = TRUE]]
      BY <2>1, <2>5 DEF ChatAnswered, Shape, Record, TabFields
    <3> QED BY <3>1, <3>2
  <2> QED BY <2>2, <2>3, <2>4, <2>5
<1> HIDE DEF w
<1>9. /\ Core(w) /\ Keeps(t, w) /\ Calm(t, w) /\ PagesToo(t, w) /\ w.user = t.user
  <2> PICK c : ChatShape(c) /\ w = [t EXCEPT !.chat = c]
    BY <1>8
  <2> QED BY <1>6, ChatStep
<1>10. a.status # "unauth" => PagesOK(w, server, FALSE)
  BY <1>7, <1>9 DEF PagesToo
<1>11. Settled(tab', server) /\ (AgreesOn(w) => AgreesOn(tab'))
  BY <1>1, <1>4, <1>9, <1>10, ToldFinish
<1>12. AgreesOn(t) => AgreesOn(w)
  BY <1>9, CalmAgrees
<1> QED BY <1>4, <1>5, <1>11, <1>12

----------------------------------------------------------------------------
(* The user's clicks.                                                      *)

(* The page as the click leaves it.                                        *)
BegunView(v, what, row) ==
  LET h == HandlerOf[what]
      w == [v EXCEPT !.busy = Raised(@, what, row), !.found = IF h.finds THEN None ELSE @]
  IN  IF h.shows = None \/ ~Shown(v) THEN w ELSE [w EXCEPT !.data.row[row] = h.shows]

(* The page has the handler, and shows the product as the handler wants    *)
(* it.                                                                     *)
Begins(v, what, row) ==
  /\ what \in Handlers /\ v.page \in HandlerOf[what].on /\ row \in Items0
  /\ what \in Hiding => /\ row \in Items /\ v.data \notin {None, Bare}
                        /\ v.data.row[row] \in HandlerOf[what].from

(* The data shown with one product as the handler shows it at once.        *)
ShownAs(d, e, what, row) ==
  /\ e.row = [d.row EXCEPT ![row] = HandlerOf[what].shows]
  /\ e # None /\ e.edits = d.edits /\ e.of = d.of

(* The view after the click: flags, and at most one product shown          *)
(* otherwise.                                                              *)
LEMMA BegunViewIs ==
  ASSUME NEW v, ViewOK(v), NEW what, NEW row, Begins(v, what, row)
  PROVE  LET w == BegunView(v, what, row) IN
         /\ ViewOK(w) /\ w.page = v.page /\ w.of = v.of /\ w.crossed = v.crossed
         /\ what \notin Hiding => w.data = v.data
         /\ what \in Hiding => ShownAs(v.data, w.data, what, row)
<1> DEFINE h == HandlerOf[what]
           x == [v EXCEPT !.busy = Raised(@, what, row), !.found = IF h.finds THEN None ELSE @]
           w == BegunView(v, what, row)
<1>1. HandlerOK(what, h)
  BY HandlerTable DEF Begins
<1>2. /\ ViewShape(x) /\ x.page = v.page /\ x.of = v.of /\ x.data = v.data /\ x.wait = v.wait
      /\ x.loading = v.loading /\ x.crossed = v.crossed /\ x.modal = v.modal
  BY DEF ViewOK, ViewShape, Record, ViewFields
<1>3. ViewOK(x)
  BY <1>2 DEF ViewOK
<1>4. w = IF h.shows = None \/ ~Shown(v) THEN x ELSE [x EXCEPT !.data.row[row] = h.shows]
  BY DEF BegunView
<1>5. h.shows # None <=> what \in Hiding
  BY <1>1 DEF HandlerOK
<1> HIDE DEF x, w, h
<1>6. CASE what \notin Hiding
  BY <1>2, <1>3, <1>4, <1>5, <1>6 DEF w
<1>7. CASE what \in Hiding
  <2> DEFINE d == [v.data EXCEPT !.row[row] = h.shows]
  <2>1. row \in Items /\ v.data \in PageData /\ Shown(v) /\ h.shows \in RowStates
    BY <1>1, <1>7 DEF Begins, ViewOK, DataV, Data0, HandlerOK, Shown
  <2>2. /\ d \in PageData /\ d.row = [v.data.row EXCEPT ![row] = h.shows]
        /\ d.edits = v.data.edits /\ d.of = v.data.of
    BY <2>1 DEF PageData
  <2>3. w = [x EXCEPT !.data.row[row] = h.shows]
    BY <1>4, <1>5, <1>7, <2>1
  <2>4. w = [x EXCEPT !.data = d]
    BY <1>2, <2>3
  <2> HIDE DEF d
  <2>5. /\ ViewShape(w) /\ w.page = v.page /\ w.of = v.of /\ w.data = d /\ w.wait = v.wait
        /\ w.loading = v.loading /\ w.crossed = v.crossed /\ w.modal = v.modal
    BY <1>2, <2>4 DEF ViewShape, Record, ViewFields
  <2>6. d # None /\ d \in DataV /\ d # Bare
    BY <2>2, NoneAssumption DEF DataV, Data0
  <2>7. ViewOK(w)
    BY <2>1, <2>2, <2>5, <2>6 DEF ViewOK, Shown
  <2>8. ShownAs(v.data, w.data, what, row)
    BY <2>2, <2>5, <2>6 DEF ShownAs, h
  <2> QED BY <1>7, <2>5, <2>7, <2>8, <1>2 DEF w
<1> QED BY <1>6, <1>7

(* The counter after the click.                                            *)
LEMMA CountedIs ==
  ASSUME NEW t, Core(t), NEW what \in Handlers
  PROVE  LET u == Counted(t, what) IN
         /\ Core(u) /\ Keeps(t, u) /\ Calm(t, u) /\ u.user = t.user
         /\ u.view = t.view /\ u.flight = t.flight /\ u.auth = t.auth
         /\ what \notin Hiding => u.count = t.count
         /\ what = "purchasesArchive" => u.count = IF t.count = 0 THEN 0 ELSE t.count - 1
<1> DEFINE h == HandlerOf[what]
           c == CASE h.shows # None /\ h.does = "archived" ->
                      IF t.count = 0 THEN 0 ELSE t.count - 1
                  [] h.shows # None /\ h.does = "active"   -> t.count + 1
                  [] OTHER -> t.count
           u == Counted(t, what)
<1>1. HandlerOK(what, h)
  BY HandlerTable
<1>2. t.count \in Nat /\ Shape(t)
  BY DEF Core
<1>3. c \in Nat
  BY <1>2
<1>4. u = [t EXCEPT !.count = c]
  <2>1. t = [t EXCEPT !.count = t.count]
    BY <1>2 DEF Shape, Record, TabFields
  <2> QED BY <2>1 DEF Counted
<1>5. what \notin Hiding => c = t.count
  BY <1>1 DEF HandlerOK
<1>6. what = "purchasesArchive" => c = IF t.count = 0 THEN 0 ELSE t.count - 1
  BY <1>1, NoneAssumption DEF HandlerOK, Hiding, RowStates
<1> HIDE DEF c, u
<1>7. /\ Core(u) /\ Keeps(t, u) /\ Calm(t, u)
      /\ u.user = t.user /\ u.count = c /\ u.view = t.view /\ u.flight = t.flight
      /\ u.auth = t.auth
  BY <1>3, <1>4, CountStep
<1> QED BY <1>5, <1>6, <1>7 DEF u

(* The tab after the click, field by field.                                *)
LEMMA BegunIs ==
  ASSUME NEW t, Core(t), NEW what, NEW row, Begins(t.view, what, row)
  PROVE  LET u == Begun(t, what, row)
             v == BegunView(t.view, what, row)
         IN
         /\ Core(u) /\ Keeps(t, u) /\ Calm(t, u) /\ u.user = t.user
         /\ SameView(v, u.view) /\ (u.view.crossed <=> t.view.crossed \/ Crosses(t, what))
         /\ what \notin Hiding => u.count = t.count
         /\ what = "purchasesArchive" => u.count = IF t.count = 0 THEN 0 ELSE t.count - 1
         /\ \E r \in Reqs : /\ r.what = what /\ r.heard /\ r.answer = None /\ r.arg.row = row
                            /\ r.arg.of = t.view.of /\ u.flight = Append(t.flight, r)
<1> DEFINE v == BegunView(t.view, what, row)
           p == [t EXCEPT !.view = v]
           q == Counted(p, what)
           arg == [NoArg EXCEPT !.page = t.view.page, !.row = row, !.of = t.view.of]
           u == Begun(t, what, row)
<1>0. what \in Handlers /\ t.view.page \in HandlerOf[what].on /\ row \in Items0
  BY DEF Begins
<1>1. u = Ask(q, what, arg, TRUE)
  BY DEF Begun, BegunView
<1>2. ViewOK(t.view)
  BY DEF Core
<1>3. ViewOK(v) /\ v.page = t.view.page /\ v.of = t.view.of /\ v.crossed = t.view.crossed
  <2> HIDE DEF p, q, arg, u
  <2>1. Begins(t.view, what, row) OBVIOUS
  <2> QED BY <1>2, <2>1, BegunViewIs
<1>4. arg \in Args /\ arg.page = t.view.page /\ arg.row = row /\ arg.of = t.view.of
  BY <1>0, <1>2, NoArgIs DEF Args, ViewOK
<1>5. FlightOK(t.flight, v.page, v.of, t.auth.mode)
  BY <1>3 DEF Core
<1> HIDE DEF v, arg
<1>6. /\ Core(p) /\ Keeps(t, p) /\ Calm(t, p)
      /\ p.user = t.user /\ p.count = t.count /\ p.view = v /\ p.flight = t.flight
  BY <1>3, <1>5, ViewStep
<1> HIDE DEF p
<1>7. /\ Core(q) /\ Keeps(p, q) /\ Calm(p, q) /\ q.user = p.user
      /\ q.view = p.view /\ q.flight = p.flight /\ q.auth = p.auth
      /\ what \notin Hiding => q.count = p.count
      /\ what = "purchasesArchive" => q.count = IF p.count = 0 THEN 0 ELSE p.count - 1
  BY <1>0, <1>6, CountedIs
<1> HIDE DEF q, u
<1>8. what \in PageKinds /\ what \notin {"load", "search"} \cup Forms
  BY <1>0 DEF PageKinds, Handlers, HandlerOf, Forms
<1>9. \A r : Sent(r, what, arg, Carried(q), TRUE) =>
         HeardOK(r, q.view.page, q.view.of, q.auth.mode)
  BY <1>0, <1>3, <1>4, <1>6, <1>7, <1>8 DEF Sent, HeardOK
<1>10. /\ Core(u) /\ Keeps(q, u) /\ Calm(q, u)
       /\ u.user = q.user /\ u.count = q.count /\ SameView(q.view, u.view)
       /\ (u.view.crossed <=> q.view.crossed \/ Crosses(q, what))
       /\ \E r \in Reqs : Sent(r, what, arg, Carried(q), TRUE) /\ u.flight = Append(q.flight, r)
  BY <1>1, <1>4, <1>7, <1>8, <1>9, AskIs
<1>11. Crosses(q, what) <=> Crosses(t, what)
  BY <1>6, <1>7 DEF Crosses
<1>12. Keeps(t, u) /\ Calm(t, u)
  BY <1>6, <1>7, <1>10, KeepsTwice, CalmTwice
<1>13. \E r \in Reqs : /\ r.what = what /\ r.heard /\ r.answer = None /\ r.arg.row = row
                       /\ r.arg.of = t.view.of /\ u.flight = Append(t.flight, r)
  BY <1>4, <1>6, <1>7, <1>10 DEF Sent
<1> QED BY <1>3, <1>6, <1>7, <1>10, <1>11, <1>12, <1>13 DEF u, v

(* A product archived on the page is one active product less.              *)
LEMMA FewerActive ==
  ASSUME NEW d \in PageData, NEW e, NEW row \in Items, ShownAs(d, e, "purchasesArchive", row),
         d.row[row] = "active"
  PROVE  /\ \A p \in Items : e.row[p] = "active" <=> d.row[p] = "active" /\ p # row
         /\ Cardinality(ActiveIn(e)) = Cardinality(ActiveIn(d)) - 1
              /\ Cardinality(ActiveIn(d)) # 0
<1>1. HandlerOf["purchasesArchive"].shows = "archived"
  <2>1. "purchasesArchive" \in Handlers BY DEF Handlers, HandlerOf
  <2>2. HandlerOK("purchasesArchive", HandlerOf["purchasesArchive"]) BY <2>1, HandlerTable
  <2> QED BY <2>2 DEF HandlerOK
<1>2. d.row \in [Items -> RowStates]
  BY DEF PageData
<1>3. e.row = [d.row EXCEPT ![row] = "archived"]
  BY <1>1 DEF ShownAs
<1>4. \A p \in Items : e.row[p] = "active" <=> d.row[p] = "active" /\ p # row
  BY <1>2, <1>3
<1>5. ActiveIn(e) = ActiveIn(d) \ {row} /\ row \in ActiveIn(d)
  BY <1>4 DEF ActiveIn
<1>6. IsFiniteSet(ActiveIn(d)) /\ Cardinality(ActiveIn(d)) \in Nat
          /\ Cardinality(ActiveIn(e)) \in Nat
  BY ActiveCount
<1>7. Cardinality(ActiveIn(d) \ {row}) = Cardinality(ActiveIn(d)) - 1
  BY <1>5, <1>6, FS_RemoveElement
<1>8. Cardinality(ActiveIn(e)) = Cardinality(ActiveIn(d)) - 1
  BY <1>5, <1>7
<1>9. Cardinality(ActiveIn(d)) # 0
  BY <1>6, <1>8
<1> QED BY <1>4, <1>8, <1>9

(* A handler begun leaves the page right: what it shows ahead of the       *)
(* server is excused, or hidden by its request, until the answer comes.    *)
LEMMA BegunPages ==
  ASSUME NEW t, Core(t), NEW s, PagesOK(t, s, FALSE), NEW what, NEW row, Begins(t.view, what, row)
  PROVE  PagesOK(Begun(t, what, row), s, FALSE)
<1> DEFINE u == Begun(t, what, row)
           v == t.view
           w == BegunView(v, what, row)
           f == t.flight
<1>1. /\ SameView(w, u.view) /\ (u.view.crossed <=> v.crossed \/ Crosses(t, what))
      /\ what \notin Hiding => u.count = t.count
      /\ what = "purchasesArchive" => u.count = IF t.count = 0 THEN 0 ELSE t.count - 1
      /\ \E r \in Reqs : /\ r.what = what /\ r.heard /\ r.answer = None /\ r.arg.row = row
                         /\ r.arg.of = v.of /\ u.flight = Append(f, r)
  BY BegunIs
<1>2. ViewOK(v) /\ f \in Seq(Reqs)
  BY DEF Core, FlightOK
<1>3. Begins(v, what, row)
  OBVIOUS
<1>4. /\ w.page = v.page /\ w.of = v.of
      /\ what \notin Hiding => w.data = v.data
      /\ what \in Hiding => ShownAs(v.data, w.data, what, row)
  BY <1>2, <1>3, BegunViewIs
<1> HIDE DEF u, w
<1>5. u.view.page = v.page /\ u.view.of = v.of /\ u.view.data = w.data
  BY <1>1, <1>4 DEF SameView
<1> SUFFICES ASSUME Straight(u.view)
             PROVE  /\ TurnsOK(u.view, u.flight, s)
                    /\ u.view.data \notin {None, Bare} => CountOK(u.view, u.count)
                         /\ ShownOK(u.view, u.flight, s)
  BY DEF PagesOK, u
<1>6. Straight(v) /\ ~Crosses(t, what)
  BY <1>1, <1>5 DEF Straight
<1>7. /\ TurnsOK(v, f, s)
      /\ v.data \notin {None, Bare} => CountOK(v, t.count) /\ ShownOK(v, f, s)
  BY <1>6 DEF PagesOK
<1> PICK r \in Reqs : /\ r.what = what /\ r.heard /\ r.answer = None /\ r.arg.row = row
                      /\ r.arg.of = v.of /\ u.flight = Append(f, r)
  BY <1>1
<1>8. TurnsOK(u.view, u.flight, s)
  BY <1>2, <1>5, <1>6, <1>7, AskTurns
<1>9. /\ Excused(u.flight) <=> Excused(f) \/ Excuses(r)
      /\ \A q : Hidden(u.flight, q) <=> Hidden(f, q) \/ Hides(r, q)
  BY <1>2, AppendTells
<1>10. ~Good(r)
  BY DEF Good
<1>11. ASSUME what \notin Hiding, u.view.data \notin {None, Bare}
       PROVE  CountOK(u.view, u.count) /\ ShownOK(u.view, u.flight, s)
  <2>1. u.view.data = v.data /\ u.count = t.count
    BY <1>1, <1>4, <1>5, <1>11
  <2>2. CountOK(u.view, u.count)
    BY <1>5, <1>7, <1>11, <2>1 DEF CountOK
  <2>3. \A q : Hidden(u.flight, q) <=> Hidden(f, q)
    BY <1>9, <1>11 DEF Hides, Hiding
  <2>4. Matches(v, f, s) => Matches(u.view, u.flight, s)
    BY <1>5, <2>1, <2>3 DEF Matches
  <2> QED BY <1>7, <1>9, <1>11, <2>1, <2>2, <2>4 DEF ShownOK
<1>12. ASSUME what \in Hiding, what # "purchasesArchive"
       PROVE  CountOK(u.view, u.count) /\ ShownOK(u.view, u.flight, s)
  <2>1. HandlerOK(what, HandlerOf[what]) /\ v.page \in HandlerOf[what].on
    BY HandlerTable DEF Begins
  <2>2. v.page = "supplier"
    BY <1>12, <2>1 DEF HandlerOK
  <2>3. Excuses(r) BY <1>12 DEF Excuses
  <2> QED BY <1>5, <1>9, <2>2, <2>3 DEF CountOK, ShownOK
<1>13. ASSUME what = "purchasesArchive"
       PROVE  CountOK(u.view, u.count) /\ ShownOK(u.view, u.flight, s)
  <2>1. what \in Hiding BY <1>13 DEF Hiding
  <2>2. HandlerOK(what, HandlerOf[what]) /\ v.page \in HandlerOf[what].on
    BY HandlerTable DEF Begins
  <2>3. /\ v.page = "purchases" /\ row \in Items /\ v.data \notin {None, Bare}
        /\ v.data.row[row] = "active"
    BY <1>13, <2>1, <2>2 DEF HandlerOK, Begins
  <2>4. v.data \in PageData /\ ShownAs(v.data, w.data, "purchasesArchive", row)
    BY <1>2, <1>4, <1>13, <2>1, <2>3 DEF ViewOK, DataV, Data0
  <2>5. /\ \A p \in Items : w.data.row[p] = "active" <=> v.data.row[p] = "active" /\ p # row
        /\ Cardinality(ActiveIn(w.data)) = Cardinality(ActiveIn(v.data)) - 1
        /\ Cardinality(ActiveIn(v.data)) # 0
    BY <2>3, <2>4, FewerActive
  <2>6. CountOK(u.view, u.count)
    BY <1>1, <1>5, <1>7, <1>13, <2>3, <2>5 DEF CountOK
  <2>7. \A q : Hides(r, q) <=> q = row
    BY <1>10, <1>13 DEF Hides
  <2>8. w.data.edits = v.data.edits
    BY <2>4 DEF ShownAs
  <2>9. Matches(v, f, s) => Matches(u.view, u.flight, s)
    BY <1>5, <1>9, <2>3, <2>5, <2>7, <2>8 DEF Matches
  <2> QED BY <1>7, <1>9, <2>3, <2>6, <2>9 DEF ShownOK
<1> QED BY <1>8, <1>11, <1>12, <1>13

(* A handler begun keeps the tab settled.                                  *)
LEMMA BegunOK ==
  ASSUME Settled(tab, server), NEW t, Core(t), Keeps(tab, t), PagesOK(t, server, FALSE),
      Calm(tab, t),
         t.user = tab.user, NEW what, NEW row, Begins(t.view, what, row),
         tab' = Begun(t, what, row)
  PROVE  Settled(tab', server) /\ (AgreesOn(tab) => AgreesOn(tab'))
<1> DEFINE u == Begun(t, what, row)
<1>1. Core(u) /\ Keeps(t, u) /\ Calm(t, u) /\ u.user = t.user
  BY BegunIs
<1>2. PagesOK(u, server, FALSE)
  BY BegunPages
<1>3. tab' = u OBVIOUS
<1> HIDE DEF u
<1>4. Keeps(tab, u) /\ Calm(tab, u)
  BY <1>1, KeepsTwice, CalmTwice
<1> QED BY <1>1, <1>2, <1>3, <1>4, Direct

(* A change of the open question alone.                                    *)
LEMMA DialogStep ==
  ASSUME NEW t, Core(t), NEW d, DialogOK(d, t.view.page)
  PROVE  LET u == [t EXCEPT !.dialog = d] IN
         /\ Core(u) /\ SameTokens(t, u) /\ Keeps(t, u) /\ Calm(t, u) /\ PagesToo(t, u)
         /\ u.user = t.user /\ u.count = t.count /\ u.view = t.view /\ u.flight = t.flight
         /\ u.auth = t.auth
<1> DEFINE u == [t EXCEPT !.dialog = d]
<1>1. /\ Shape(u) /\ SameTokens(t, u) /\ u.user = t.user /\ u.booting = t.booting
           /\ u.count = t.count
      /\ u.address = t.address /\ u.auth = t.auth /\ u.chat = t.chat /\ u.view = t.view
      /\ u.dialog = d /\ u.flight = t.flight
  BY DEF Core, Shape, Record, TabFields, SameTokens
<1> HIDE DEF u
<1>2. Core(u)
  BY <1>1, CoreView DEF Core
<1>3. Calm(t, u)
  BY <1>1, CalmSame
<1>4. PagesToo(t, u)
  BY <1>1 DEF PagesToo, PagesOK
<1> QED BY <1>1, <1>2, <1>3, <1>4 DEF Keeps, u

(* What a page offers may be begun.                                        *)
LEMMA OffersBegins ==
  ASSUME Core(tab), NEW what \in Handlers, NEW row \in Items0, Offers(what, row)
  PROVE  Begins(tab.view, what, row)
<1> DEFINE h == HandlerOf[what]
           v == tab.view
<1>1. HandlerOK(what, h) /\ ViewOK(v)
  BY HandlerTable DEF Core
<1>2. v.page \in h.on
  BY DEF Offers
<1>3. ASSUME what \in Hiding
      PROVE  row \in Items /\ v.data \notin {None, Bare} /\ v.data.row[row] \in h.from
  <2>1. h.window = "" /\ h.from # {} /\ h.on \subseteq {"supplier", "purchases"}
    BY <1>1, <1>3 DEF HandlerOK, Hiding
  <2>2. InPage(what, row, v)
    BY <2>1 DEF Offers
  <2>3. v.page \notin {"license", "import"}
    BY <1>2, <2>1
  <2> QED BY <2>1, <2>2, <2>3 DEF InPage, Shown
<1> QED BY <1>2, <1>3 DEF Begins

(* A button of a page: a question first, or the request.                   *)
LEMMA ClickOK ==
  ASSUME Settled(tab, server), NEW what \in Handlers, NEW row \in Items \cup {None},
      Click(what, row)
  PROVE  Settled(tab', server) /\ (AgreesOn(tab) => AgreesOn(tab'))
<1>1. Core(tab) /\ PagesOK(tab, server, FALSE) /\ row \in Items0 /\ Offers(what, row)
  BY DEF Settled, Items0, Click
<1>2. Begins(tab.view, what, row)
  BY <1>1, OffersBegins
<1>3. CASE HandlerOf[what].asks
  <2> DEFINE d == [what |-> what, page |-> tab.view.page, row |-> row, of |-> tab.view.of,
                   heard |-> TRUE]
             u == [tab EXCEPT !.dialog = d]
  <2>1. tab' = u
    BY <1>3 DEF Click
  <2>2. tab.view.page \in Pages0 /\ tab.view.of \in Terms
    BY <1>1 DEF Core, ViewOK
  <2>3. DialogOK(d, tab.view.page)
    BY <1>1, <1>2, <1>3, <2>2 DEF DialogOK, Record, DialogFields, Begins
  <2> HIDE DEF d
  <2>4. Core(u) /\ Keeps(tab, u) /\ Calm(tab, u) /\ PagesToo(tab, u) /\ u.user = tab.user
    BY <1>1, <2>3, DialogStep
  <2> HIDE DEF u
  <2>5. PagesOK(u, server, FALSE)
    BY <1>1, <2>4 DEF PagesToo
  <2> QED BY <2>1, <2>4, <2>5, Direct
<1>4. CASE ~HandlerOf[what].asks
  <2>1. tab' = Begun(tab, what, row)
    BY <1>4 DEF Click
  <2>2. Keeps(tab, tab) /\ Calm(tab, tab)
    BY CalmSame DEF Keeps, SameTokens
  <2> QED BY <1>1, <1>2, <2>1, <2>2, BegunOK
<1> QED BY <1>3, <1>4

(* The answer to a question, on the page that asked it or on another.      *)
LEMMA ConfirmOK ==
  ASSUME Settled(tab, server), NEW yes \in BOOLEAN, Confirm(yes)
  PROVE  Settled(tab', server) /\ (AgreesOn(tab) => AgreesOn(tab'))
<1> DEFINE d == tab.dialog
           t == [tab EXCEPT !.dialog = None]
           v == [t EXCEPT !.view.crossed = TRUE]
           arg == [NoArg EXCEPT !.page = d.page, !.row = d.row, !.of = d.of]
           u == Send(v, d.what, arg, FALSE)
<1>1. Core(tab) /\ PagesOK(tab, server, FALSE) /\ d # None
  BY DEF Settled, Confirm
<1>2. tab' = IF ~yes THEN t ELSE IF d.heard THEN Begun(t, d.what, d.row) ELSE u
  BY DEF Confirm
<1>3. /\ d.what \in Handlers /\ HandlerOf[d.what].asks
      /\ d.page \in Pages0 /\ d.row \in Items0 /\ d.of \in Terms
      /\ d.heard => tab.view.page \in HandlerOf[d.what].on
  BY <1>1 DEF Core, DialogOK
<1>4. DialogOK(None, tab.view.page)
  BY DEF DialogOK
<1>5. /\ Core(t) /\ Keeps(tab, t) /\ Calm(tab, t) /\ PagesToo(tab, t) /\ t.user = tab.user
      /\ t.view = tab.view
  BY <1>1, <1>4, DialogStep
<1> HIDE DEF t
<1>6. PagesOK(t, server, FALSE)
  BY <1>1, <1>5 DEF PagesToo
<1>7. CASE ~yes
  <2>1. tab' = t BY <1>2, <1>7
  <2> QED BY <1>5, <1>6, <2>1, Direct
<1>8. CASE yes /\ d.heard
  <2>1. d.what \notin Hiding
    <3>1. HandlerOK(d.what, HandlerOf[d.what]) BY <1>3, HandlerTable
    <3> QED BY <1>3, <3>1 DEF HandlerOK
  <2>2. Begins(t.view, d.what, d.row)
    BY <1>3, <1>5, <1>8, <2>1 DEF Begins
  <2>3. tab' = Begun(t, d.what, d.row)
    BY <1>2, <1>8
  <2> QED BY <1>5, <1>6, <2>2, <2>3, BegunOK
<1>9. CASE yes /\ ~d.heard
  <2>1. tab' = u BY <1>2, <1>9
  <2>2. arg \in Args
    BY <1>3, NoArgIs DEF Args
  <2> HIDE DEF arg
  <2>3. Core(v) /\ Keeps(t, v) /\ Calm(t, v) /\ v.user = t.user /\ v.view.crossed
    <3>1. TRUE \in BOOLEAN OBVIOUS
    <3> QED BY <1>5, <3>1, CrossStep
  <2> HIDE DEF v
  <2>4. d.what \in PageKinds /\ FALSE \in BOOLEAN
    BY <1>3 DEF PageKinds
  <2>5. \A r : Sent(r, d.what, arg, Carried(v), FALSE) =>
          HeardOK(r, v.view.page, v.view.of, v.auth.mode)
    BY DEF Sent, HeardOK
  <2>6. Core(u) /\ OnlyFlight(v, u) /\ Keeps(v, u) /\ Calm(v, u)
    BY <2>2, <2>3, <2>4, <2>5, SendPage
  <2> HIDE DEF u
  <2>7. u.user = tab.user /\ u.view.crossed
    BY <1>5, <2>3, <2>6 DEF OnlyFlight
  <2>8. PagesOK(u, server, FALSE)
    BY <2>7 DEF PagesOK, Straight
  <2>9. Keeps(tab, u) /\ Calm(tab, u)
    <3>1. Keeps(t, u) /\ Calm(t, u)
      BY <2>3, <2>6, KeepsTwice, CalmTwice
    <3> QED BY <1>5, <3>1, KeepsTwice, CalmTwice
  <2> QED BY <2>1, <2>6, <2>7, <2>8, <2>9, Direct
<1> QED BY <1>7, <1>8, <1>9

(* A price found is taken.                                                 *)
LEMMA PickOK ==
  ASSUME Settled(tab, server), Pick
  PROVE  Settled(tab', server) /\ (AgreesOn(tab) => AgreesOn(tab'))
<1> DEFINE m == tab.view.modal
           t == [tab EXCEPT !.view.modal = None]
           what == "saveItemField"
<1>1. Core(tab) /\ PagesOK(tab, server, FALSE) /\ m # None /\ m.kind = "price"
      /\ tab' = Begun(t, what, m.row)
  BY DEF Settled, Pick
<1>2. m.row \in Items0 /\ tab.view.page = "estimate"
  BY <1>1 DEF Core, ViewOK
<1>3. /\ Core(t) /\ Keeps(tab, t) /\ Calm(tab, t) /\ PagesToo(tab, t) /\ t.user = tab.user
      /\ SameView(tab.view, t.view)
  BY <1>1, ModalStep
<1> HIDE DEF t
<1>4. PagesOK(t, server, FALSE)
  BY <1>1, <1>3 DEF PagesToo
<1>5. what \in Handlers /\ HandlerOf[what].on = {"estimate"} /\ what \notin Hiding
  BY Fields DEF Handlers, HandlerOf, Giving, Hiding
<1>6. Begins(t.view, what, m.row)
  BY <1>2, <1>3, <1>5 DEF Begins, SameView
<1> HIDE DEF what
<1> QED BY <1>1, <1>3, <1>4, <1>6, BegunOK

----------------------------------------------------------------------------
(* Fields, timers, windows and the menu.                                   *)

(* A page asks for its data.                                               *)
LEMMA AskLoad ==
  ASSUME NEW t, Core(t), NEW arg \in Args, arg.page = t.view.page, t.view.page \in Seen,
         t.view.page = "estimate" => arg.of = t.view.of, NEW s,
         Straight(t.view) /\ ~Crosses(t, "load") =>
           /\ TurnsOK(t.view, t.flight, s)
           /\ t.view.data \notin {None, Bare} =>
                CountOK(t.view, t.count) /\ (arg.upto = 1 \/ ShownOK(t.view, t.flight, s))
  PROVE  LET u == Ask(t, "load", arg, TRUE) IN
         Core(u) /\ Keeps(t, u) /\ Calm(t, u) /\ u.user = t.user /\ PagesOK(u, s, FALSE)
<1> DEFINE u == Ask(t, "load", arg, TRUE)
           v == t.view
           w == u.view
           f == t.flight
<1>1. "load" \in PageKinds /\ "load" \notin Handlers \cup Forms /\ Gives("load")
          /\ TRUE \in BOOLEAN
  BY LoadIs
<1>2. \A r : Sent(r, "load", arg, Carried(t), TRUE) =>
         HeardOK(r, t.view.page, t.view.of, t.auth.mode)
  BY <1>1 DEF Sent, HeardOK
<1>3. /\ Core(u) /\ Keeps(t, u) /\ Calm(t, u)
      /\ u.user = t.user /\ u.count = t.count /\ SameView(v, w)
      /\ (w.crossed <=> v.crossed \/ Crosses(t, "load"))
      /\ \E r \in Reqs : Sent(r, "load", arg, Carried(t), TRUE) /\ u.flight = Append(f, r)
  BY <1>1, <1>2, AskIs
<1> HIDE DEF u
<1>4. f \in Seq(Reqs)
  BY DEF Core, FlightOK
<1>5. ASSUME Straight(w)
      PROVE  /\ TurnsOK(w, u.flight, s)
             /\ w.data \notin {None, Bare} => CountOK(w, u.count) /\ ShownOK(w, u.flight, s)
  <2>1. w.page = v.page /\ w.of = v.of /\ w.data = v.data /\ Straight(v) /\ ~Crosses(t, "load")
    BY <1>3, <1>5 DEF SameView, Straight
  <2> PICK r \in Reqs : Sent(r, "load", arg, Carried(t), TRUE) /\ u.flight = Append(f, r)
    BY <1>3
  <2>2. r.what = "load" /\ r.heard /\ r.answer = None /\ r.arg = arg
    BY DEF Sent
  <2>3. TurnsOK(v, f, s)
    BY <2>1
  <2>4. TurnsOK(w, Append(f, r), s)
    BY <1>4, <2>1, <2>2, <2>3, AskTurns
  <2>5. /\ Excused(u.flight) <=> Excused(f) \/ Excuses(r)
        /\ \A q : Hidden(u.flight, q) <=> Hidden(f, q) \/ Hides(r, q)
    BY <1>4, AppendTells
  <2>6. (\A q : ~Hides(r, q)) /\ (arg.upto = 1 => Excuses(r))
    BY <2>2, LoadIs
  <2>7. Matches(v, f, s) => Matches(w, u.flight, s)
    BY <2>1, <2>5, <2>6 DEF Matches
  <2>8. ASSUME w.data \notin {None, Bare} PROVE CountOK(w, u.count) /\ ShownOK(w, u.flight, s)
    <3>1. CountOK(v, t.count) /\ (arg.upto = 1 \/ ShownOK(v, f, s))
      BY <2>1, <2>8
    <3>2. CountOK(w, u.count)
      BY <1>3, <2>1, <3>1 DEF CountOK
    <3> QED BY <2>5, <2>6, <2>7, <3>1, <3>2 DEF ShownOK
  <2> QED BY <2>4, <2>8
<1>6. PagesOK(u, s, FALSE)
  BY <1>5 DEF PagesOK
<1> QED BY <1>3, <1>6 DEF u

(* What a page asks for changes.                                           *)
LEMMA TermStep ==
  ASSUME NEW t, Core(t), NEW w, ViewOK(w), w.page = t.view.page,
         t.view.page = "search" => \A i \in DOMAIN t.flight : t.flight[i].heard
             => t.flight[i].what # "search"
  PROVE  LET u == [t EXCEPT !.view = w] IN
         /\ Core(u) /\ Keeps(t, u) /\ Calm(t, u)
         /\ u.user = t.user /\ u.count = t.count /\ u.view = w /\ u.flight = t.flight
<1>1. FlightOK(t.flight, t.view.page, t.view.of, t.auth.mode)
  BY DEF Core
<1>2. FlightOK(t.flight, w.page, w.of, t.auth.mode)
  <2> SUFFICES ASSUME NEW i \in DOMAIN t.flight
               PROVE  AnsOK(t.flight[i]) /\ HeardOK(t.flight[i], w.page, w.of, t.auth.mode)
    BY <1>1 DEF FlightOK
  <2>1. AnsOK(t.flight[i]) /\ HeardOK(t.flight[i], t.view.page, t.view.of, t.auth.mode)
    BY <1>1 DEF FlightOK
  <2> QED BY <2>1 DEF HeardOK
<1> QED BY <1>2, ViewStep

(* A term typed on the search page: earlier searches are not heard.        *)
LEMMA SearchTypedOK ==
  ASSUME Settled(tab, server), tab.view.page = "search", NEW q \in Terms,
      tab' = searchTyped(tab, q)
  PROVE  Settled(tab', server) /\ (AgreesOn(tab) => AgreesOn(tab'))
<1> DEFINE t == Deafen(tab, {"search"})
           w == IF q \in Long THEN [t.view EXCEPT !.of = q, !.loading = TRUE, !.wait = TRUE]
                ELSE [t.view EXCEPT !.of = q, !.data = None, !.wait = FALSE]
           u == [t EXCEPT !.view = w]
<1>1. Core(tab)
  BY DEF Settled
<1>2. OnlyFlight(tab, t) /\ Dims(tab.flight, t.flight, {"search"})
  BY <1>1, DeafenIs DEF Core, FlightOK
<1>3. Core(t)
  BY <1>1, DeafenOK
<1>4. tab' = u
  BY DEF searchTyped
<1> HIDE DEF t
<1>5. ViewOK(t.view) /\ t.view.page = "search"
  BY <1>2, <1>3 DEF Core, OnlyFlight
<1>6. ViewOK(w) /\ w.page = "search"
  <2>1. CASE q \in Long
    BY <1>5, <2>1 DEF ViewOK, ViewShape, Record, ViewFields
  <2>2. CASE q \notin Long
    BY <1>5, <2>2, ApiAssumption DEF ViewOK, ViewShape, Record, ViewFields, DataV, Data0
  <2> QED BY <2>1, <2>2
<1>7. \A i \in DOMAIN t.flight : t.flight[i].heard => t.flight[i].what # "search"
  BY <1>2 DEF Dims
<1> HIDE DEF w
<1>8. /\ Core(u) /\ Keeps(t, u) /\ Calm(t, u) /\ u.user = t.user /\ u.view = w
  BY <1>3, <1>5, <1>6, <1>7, TermStep
<1> HIDE DEF u
<1>9. PagesOK(u, server, FALSE)
  <2>1. "search" \notin Seen BY DEF Seen, Loading
  <2> QED BY <1>6, <1>8, <2>1 DEF PagesOK, Straight
<1>10. Keeps(tab, t) /\ Calm(tab, t) /\ t.user = tab.user
  <2>1. SameTokens(tab, t) /\ t.user = tab.user /\ Keeps(tab, t)
    BY <1>2 DEF OnlyFlight, SameTokens, Keeps
  <2>2. "refresh" \notin {"search"} OBVIOUS
  <2> QED BY <1>2, <2>1, <2>2, CalmDims
<1>11. Keeps(tab, u) /\ Calm(tab, u)
  BY <1>8, <1>10, KeepsTwice, CalmTwice
<1> QED BY <1>4, <1>8, <1>9, <1>10, <1>11, Direct

(* A term typed on the administrator's page.                               *)
LEMMA AdminTypedOK ==
  ASSUME Settled(tab, server), tab.view.page = "admin", NEW q \in Terms, tab' = adminTyped(tab, q)
  PROVE  Settled(tab', server) /\ (AgreesOn(tab) => AgreesOn(tab'))
<1> DEFINE v == tab.view
           w == [v EXCEPT !.of = q, !.wait = TRUE]
           u == [tab EXCEPT !.view = w]
<1>1. Core(tab) /\ PagesOK(tab, server, FALSE)
  BY DEF Settled
<1>2. tab' = u
  BY DEF adminTyped
<1>3. ViewOK(v)
  BY <1>1 DEF Core
<1>4. ViewOK(w) /\ w.page = v.page /\ w.data = v.data /\ w.crossed = v.crossed
  BY <1>3 DEF ViewOK, ViewShape, Record, ViewFields
<1> HIDE DEF w
<1>5. /\ Core(u) /\ Keeps(tab, u) /\ Calm(tab, u) /\ u.user = tab.user /\ u.view = w
      /\ u.count = tab.count /\ u.flight = tab.flight
  BY <1>1, <1>4, TermStep
<1> HIDE DEF u
<1>6. PagesOK(u, server, FALSE)
  BY <1>1, <1>4, <1>5 DEF PagesOK, Straight, TurnsOK, ShownOK, Matches, CountOK
<1> QED BY <1>2, <1>5, <1>6, Direct

(* Another list chosen on the estimate.                                    *)
LEMMA EstimateChosenOK ==
  ASSUME Settled(tab, server), tab.view.page = "estimate", NEW q \in Terms,
         tab' = estimateChosen(tab, q)
  PROVE  Settled(tab', server) /\ (AgreesOn(tab) => AgreesOn(tab'))
<1> DEFINE v == tab.view
           w == [v EXCEPT !.of = q]
           t == [tab EXCEPT !.view = w]
           arg == [NoArg EXCEPT !.page = "estimate", !.of = q]
           u == Ask(t, "load", arg, TRUE)
<1>1. Core(tab) /\ PagesOK(tab, server, FALSE)
  BY DEF Settled
<1>2. tab' = u
  BY DEF estimateChosen
<1>3. ViewOK(v)
  BY <1>1 DEF Core
<1>4. ViewOK(w) /\ w.page = "estimate" /\ w.data = v.data /\ w.crossed = v.crossed /\ w.of = q
  BY <1>3 DEF ViewOK, ViewShape, Record, ViewFields
<1>5. arg \in Args /\ arg.page = "estimate" /\ arg.of = q /\ arg.upto = 1
  BY NoArgIs DEF Args, Pages0, PageNames, Loading
<1> HIDE DEF w, arg
<1>6. /\ Core(t) /\ Keeps(tab, t) /\ Calm(tab, t) /\ t.user = tab.user /\ t.view = w
      /\ t.count = tab.count /\ t.flight = tab.flight
  BY <1>1, <1>4, TermStep
<1> HIDE DEF t
<1>7. ASSUME Straight(t.view), ~Crosses(t, "load")
      PROVE  TurnsOK(t.view, t.flight, server) /\ CountOK(t.view, t.count)
  <2>1. Straight(v) BY <1>4, <1>6, <1>7 DEF Straight
  <2>2. TurnsOK(v, tab.flight, server) BY <1>1, <2>1 DEF PagesOK
  <2>3. \A i \in DOMAIN t.flight : ~Gives(t.flight[i].what)
    BY <1>7, LoadIs DEF Crosses
  <2> QED BY <1>4, <1>6, <2>2, <2>3 DEF TurnsOK, CountOK
<1>8. t.view.page \in Seen /\ arg.page = t.view.page /\ arg.of = t.view.of
  BY <1>4, <1>5, <1>6 DEF Seen, Loading
<1>9. Core(u) /\ Keeps(t, u) /\ Calm(t, u) /\ u.user = t.user /\ PagesOK(u, server, FALSE)
  BY <1>5, <1>6, <1>7, <1>8, AskLoad
<1> HIDE DEF u
<1>10. Keeps(tab, u) /\ Calm(tab, u)
  BY <1>6, <1>9, KeepsTwice, CalmTwice
<1> QED BY <1>2, <1>6, <1>9, <1>10, Direct

(* A term typed or chosen.                                                 *)
LEMMA TypedOK ==
  ASSUME Settled(tab, server), NEW q \in Terms, Typed(q)
  PROVE  Settled(tab', server) /\ (AgreesOn(tab) => AgreesOn(tab'))
<1>1. CASE tab.view.page = "search" /\ tab' = searchTyped(tab, q)
  BY <1>1, SearchTypedOK
<1>2. CASE tab.view.page = "admin" /\ tab' = adminTyped(tab, q)
  BY <1>2, AdminTypedOK
<1>3. CASE tab.view.page = "estimate" /\ tab' = estimateChosen(tab, q)
  BY <1>3, EstimateChosenOK
<1> QED BY <1>1, <1>2, <1>3 DEF Typed

(* The timer after the last key: the request goes out with the term shown. *)
LEMMA DebouncedOK ==
  ASSUME Settled(tab, server), Debounced
  PROVE  Settled(tab', server) /\ (AgreesOn(tab) => AgreesOn(tab'))
<1> DEFINE v == tab.view
           w == [v EXCEPT !.wait = FALSE]
           t == [tab EXCEPT !.view = w]
           arg == [NoArg EXCEPT !.of = w.of]
           arg2 == [NoArg EXCEPT !.page = "admin", !.of = w.of]
           u == IF w.page = "search" THEN Send(t, "search", arg, TRUE)
                                      ELSE Ask(t, "load", arg2, TRUE)
<1>1. Core(tab) /\ PagesOK(tab, server, FALSE) /\ v.wait
  BY DEF Settled, Debounced
<1>2. ViewOK(v) /\ v.page \in {"search", "admin"} /\ v.of \in Terms
  BY <1>1 DEF Core, ViewOK
<1>3. ViewOK(w) /\ w.page = v.page /\ w.of = v.of /\ w.data = v.data /\ w.crossed = v.crossed
  BY <1>2 DEF ViewOK, ViewShape, Record, ViewFields
<1>4. tab' = u
  <2>1. Shape(tab) BY <1>1 DEF Core
  <2>2. tab' = IF t.view.page = "search"
               THEN Send(t, "search", [NoArg EXCEPT !.of = t.view.of], TRUE)
               ELSE Ask(t, "load", [NoArg EXCEPT !.page = "admin", !.of = t.view.of], TRUE)
    BY DEF Debounced
  <2>3. t.view = w BY <2>1 DEF Shape, Record, TabFields
  <2> HIDE DEF t, w
  <2> QED BY <2>2, <2>3
<1>5. arg \in Args /\ arg.of = v.of
  BY <1>2, <1>3, NoArgIs DEF Args
<1>6. arg2 \in Args /\ arg2.of = v.of /\ arg2.page = "admin" /\ arg2.upto = 1
  BY <1>2, <1>3, NoArgIs DEF Args, Pages0, PageNames
<1> HIDE DEF arg, arg2, w
<1>7. FlightOK(tab.flight, w.page, w.of, tab.auth.mode)
  BY <1>1, <1>3 DEF Core
<1>8. SameView(v, w)
  BY <1>3 DEF SameView
<1>9. /\ Core(t) /\ Keeps(tab, t) /\ Calm(tab, t) /\ t.user = tab.user /\ t.view = w
           /\ PagesToo(tab, t)
  BY <1>1, <1>3, <1>7, <1>8, ViewStep
<1> HIDE DEF t
<1>10. PagesOK(t, server, FALSE)
  BY <1>1, <1>9 DEF PagesToo
<1>11. Core(u) /\ Keeps(t, u) /\ Calm(t, u) /\ u.user = t.user /\ PagesOK(u, server, FALSE)
  <2>1. CASE w.page = "search"
    <3> DEFINE z == Send(t, "search", arg, TRUE)
    <3>1. "search" \in PageKinds /\ "search" \notin Handlers \cup Forms /\ TRUE \in BOOLEAN
      BY DEF PageKinds, Handlers, HandlerOf, Forms
    <3>2. \A r : Sent(r, "search", arg, Carried(t), TRUE) =>
             HeardOK(r, t.view.page, t.view.of, t.auth.mode)
      BY <1>3, <1>5, <1>9, <2>1, <3>1 DEF Sent, HeardOK
    <3>3. Core(z) /\ OnlyFlight(t, z) /\ Keeps(t, z) /\ Calm(t, z)
      BY <1>5, <1>9, <3>1, <3>2, SendPage
    <3>4. u = z BY <2>1
    <3> HIDE DEF z, u
    <3>5. "search" \notin Seen BY DEF Seen, Loading
    <3>6. z.user = t.user /\ PagesOK(z, server, FALSE)
      BY <1>9, <2>1, <3>3, <3>5 DEF OnlyFlight, PagesOK, Straight
    <3> QED BY <3>3, <3>4, <3>6
  <2>2. CASE w.page # "search"
    <3>1. t.view.page = "admin" /\ t.view.page \in Seen /\ arg2.page = t.view.page
              /\ arg2.of = t.view.of
      BY <1>2, <1>3, <1>6, <1>9, <2>2 DEF Seen
    <3>2. Straight(t.view) =>
            /\ TurnsOK(t.view, t.flight, server)
            /\ t.view.data \notin {None, Bare} => CountOK(t.view, t.count)
      BY <1>10 DEF PagesOK
    <3> DEFINE z == Ask(t, "load", arg2, TRUE)
    <3>3. u = z BY <2>2
    <3>4. Core(z) /\ Keeps(t, z) /\ Calm(t, z) /\ z.user = t.user /\ PagesOK(z, server, FALSE)
      BY <1>6, <1>9, <3>1, <3>2, AskLoad
    <3> HIDE DEF z, u
    <3> QED BY <3>3, <3>4
  <2> QED BY <2>1, <2>2
<1> HIDE DEF u
<1>12. Keeps(tab, u) /\ Calm(tab, u)
  BY <1>9, <1>11, KeepsTwice, CalmTwice
<1> QED BY <1>4, <1>9, <1>11, <1>12, Direct

(* More users are asked for.                                               *)
LEMMA loadMoreOK ==
  ASSUME Settled(tab, server), loadMore
  PROVE  Settled(tab', server) /\ (AgreesOn(tab) => AgreesOn(tab'))
<1> DEFINE busy == tab.view.busy \cup {"more"}
           t == [tab EXCEPT !.view.busy = busy]
           arg == [NoArg EXCEPT !.page = "admin", !.of = tab.view.of, !.then = "more",
                                !.upto = tab.view.data.upto + 1]
           u == Ask(t, "load", arg, TRUE)
<1>1. Core(tab) /\ PagesOK(tab, server, FALSE) /\ tab.view.page = "admin" /\ Shown(tab.view)
  BY DEF Settled, loadMore
<1>2. tab' = u
  BY DEF loadMore
<1>3. tab.view.data \in PageData /\ tab.view.of \in Terms
  BY <1>1 DEF Core, ViewOK, DataV, Data0, Shown
<1>4. arg \in Args /\ arg.of = tab.view.of /\ arg.page = "admin"
  <2>1. tab.view.data.upto + 1 \in Nat
    BY <1>3 DEF PageData
  <2> QED BY <1>3, <2>1, NoArgIs DEF Args, Pages0, PageNames
<1> HIDE DEF arg, busy
<1>5. /\ Core(t) /\ Keeps(tab, t) /\ Calm(tab, t) /\ PagesToo(tab, t) /\ t.user = tab.user
      /\ t.view.page = tab.view.page /\ t.view.of = tab.view.of
  BY <1>1, FlagStep
<1> HIDE DEF t
<1>6. PagesOK(t, server, FALSE)
  BY <1>1, <1>5 DEF PagesToo
<1>7. Straight(t.view) =>
        /\ TurnsOK(t.view, t.flight, server)
        /\ t.view.data \notin {None, Bare} =>
             CountOK(t.view, t.count) /\ ShownOK(t.view, t.flight, server)
  BY <1>6 DEF PagesOK
<1>8. t.view.page = "admin" /\ t.view.page \in Seen /\ arg.page = t.view.page
          /\ arg.of = t.view.of
  BY <1>1, <1>4, <1>5 DEF Seen
<1>9. Core(u) /\ Keeps(t, u) /\ Calm(t, u) /\ u.user = t.user /\ PagesOK(u, server, FALSE)
  BY <1>4, <1>5, <1>7, <1>8, AskLoad
<1> HIDE DEF u
<1>10. Keeps(tab, u) /\ Calm(tab, u)
  BY <1>5, <1>9, KeepsTwice, CalmTwice
<1> QED BY <1>2, <1>5, <1>9, <1>10, Direct

(* A window opens or closes.                                               *)
LEMMA WindowsOK ==
  ASSUME Settled(tab, server), OpenWindow \/ CloseWindow
  PROVE  Settled(tab', server) /\ (AgreesOn(tab) => AgreesOn(tab'))
<1>1. Core(tab) /\ PagesOK(tab, server, FALSE) /\ ViewOK(tab.view)
  BY DEF Settled, Core
<1>2. \E w : ViewOK(w) /\ SameView(tab.view, w) /\ tab' = [tab EXCEPT !.view = w]
  <2>1. CASE OpenWindow
    <3> PICK m \in Windows(tab.view) : tab' = [tab EXCEPT !.view.modal = m, !.view.found = None]
      BY <2>1 DEF OpenWindow
    <3> DEFINE w == [tab.view EXCEPT !.modal = m, !.found = None]
    <3>1. m.row \in Items0 /\ (m.kind = "price" => tab.view.page = "estimate")
      BY DEF Windows, Items0, ActiveIn
    <3>2. ViewShape(tab.view) BY <1>1 DEF ViewOK
    <3>3. /\ ViewShape(w) /\ w.page = tab.view.page /\ w.of = tab.view.of
               /\ w.data = tab.view.data
          /\ w.wait = tab.view.wait /\ w.loading = tab.view.loading
               /\ w.crossed = tab.view.crossed
          /\ w.modal = m
      BY <3>2 DEF ViewShape, Record, ViewFields
    <3>4. tab' = [tab EXCEPT !.view = w]
      OBVIOUS
    <3> HIDE DEF w
    <3>5. ViewOK(w) /\ SameView(tab.view, w)
      BY <1>1, <3>1, <3>3 DEF ViewOK, SameView
    <3> QED BY <3>4, <3>5
  <2>2. CASE CloseWindow
    <3> DEFINE w == [tab.view EXCEPT !.modal = None]
    <3>1. tab' = [tab EXCEPT !.view = w]
      BY <2>2 DEF CloseWindow
    <3>2. ViewShape(tab.view) BY <1>1 DEF ViewOK
    <3>3. /\ ViewShape(w) /\ w.page = tab.view.page /\ w.of = tab.view.of
               /\ w.data = tab.view.data
          /\ w.wait = tab.view.wait /\ w.loading = tab.view.loading
               /\ w.crossed = tab.view.crossed
          /\ w.modal = None
      BY <3>2 DEF ViewShape, Record, ViewFields
    <3> HIDE DEF w
    <3>4. ViewOK(w) /\ SameView(tab.view, w)
      BY <1>1, <3>3 DEF ViewOK, SameView
    <3> QED BY <3>1, <3>4
  <2> QED BY <2>1, <2>2
<1> PICK w : ViewOK(w) /\ SameView(tab.view, w) /\ tab' = [tab EXCEPT !.view = w]
  BY <1>2
<1> DEFINE u == [tab EXCEPT !.view = w]
<1>3. w.page = tab.view.page /\ FlightOK(tab.flight, w.page, w.of, tab.auth.mode)
  BY <1>1 DEF Core, SameView
<1>4. Core(u) /\ Keeps(tab, u) /\ Calm(tab, u) /\ u.user = tab.user /\ PagesToo(tab, u)
  BY <1>1, <1>3, ViewStep
<1>5. tab' = u OBVIOUS
<1> HIDE DEF u
<1>6. PagesOK(u, server, FALSE)
  BY <1>1, <1>4 DEF PagesToo
<1> QED BY <1>4, <1>5, <1>6, Direct

(* The menu.                                                               *)
LEMMA NavigateOK ==
  ASSUME Settled(tab, server), NEW p \in Menu, Navigate(p)
  PROVE  Settled(tab', server) /\ (AgreesOn(tab) => AgreesOn(tab'))
<1> DEFINE u == OpenPage(tab, p)
<1>1. Core(tab) /\ Mounted(tab, "app") /\ Screen(tab) = "app" /\ tab' = u
  BY DEF Settled, Navigate
<1>2. p \in PageNames
  BY PagesAssumption
<1>3. /\ Core(u) /\ Calm(tab, u) /\ \A s : PagesOK(u, s, FALSE)
      /\ u.user = tab.user /\ u.booting = tab.booting /\ u.auth = tab.auth /\ u.view.page = p
  BY <1>1, <1>2, OpenPageOK
<1> HIDE DEF u
<1>4. Screen(u) = "app"
  BY <1>1, <1>3 DEF Screen
<1>5. Mounted(u, "app")
  BY <1>1, <1>2, <1>3, Strings DEF Mounted
<1>6. Settled(u, server)
  BY <1>3, <1>4, <1>5 DEF Settled
<1>7. AgreesOn(tab) => AgreesOn(u)
  BY <1>3, CalmAgrees
<1> QED BY <1>1, <1>6, <1>7

(* The buttons of the boundary's card: the page opens again, or the start  *)
(* is loaded.                                                              *)
LEMMA RetryOK ==
  ASSUME Settled(tab, server), Retry
  PROVE  Settled(tab', server) /\ (AgreesOn(tab) => AgreesOn(tab'))
<1>1. Core(tab) /\ Mounted(tab, "app") /\ Screen(tab) = "app"
  BY DEF Settled, Retry
<1>2. CASE tab' = OpenPage(tab, tab.view.page)
  <2> DEFINE p == tab.view.page
             u == OpenPage(tab, p)
  <2>1. p \in PageNames
    BY <1>1 DEF Core, ViewOK, Pages0, Mounted
  <2> HIDE DEF p
  <2>2. /\ Core(u) /\ Calm(tab, u) /\ \A s : PagesOK(u, s, FALSE)
        /\ u.user = tab.user /\ u.booting = tab.booting /\ u.auth = tab.auth /\ u.view.page = p
    BY <1>1, <2>1, OpenPageOK
  <2>3. tab' = u
    BY <1>2 DEF p
  <2> HIDE DEF u
  <2>4. Screen(u) = "app"
    BY <1>1, <2>2 DEF Screen
  <2>5. Mounted(u, "app")
    BY <1>1, <2>1, <2>2, Strings DEF Mounted
  <2>6. Settled(u, server)
    BY <2>2, <2>4, <2>5 DEF Settled
  <2>7. AgreesOn(tab) => AgreesOn(u)
    BY <2>2, CalmAgrees
  <2> QED BY <2>3, <2>6, <2>7
<1>3. CASE tab' = Reloaded([tab EXCEPT !.address = "dashboard"])
  <2> DEFINE u == [tab EXCEPT !.address = "dashboard"]
  <2>1. /\ Shape(u) /\ SameTokens(tab, u) /\ u.user = tab.user /\ u.booting = tab.booting
        /\ u.count = tab.count /\ u.auth = tab.auth /\ u.chat = tab.chat /\ u.view = tab.view
        /\ u.flight = tab.flight /\ u.dialog = tab.dialog /\ u.address = "dashboard"
    BY <1>1 DEF Core, Shape, Record, TabFields, SameTokens
  <2>2. tab' = Reloaded(u)
    BY <1>3
  <2> HIDE DEF u
  <2>3. "dashboard" \in PageNames
    BY DEF PageNames, Loading
  <2>4. Core(u)
    BY <1>1, <2>1, <2>3, CoreView DEF Core
  <2>5. AgreesOn(tab) => (u.stored # None /\ u.cookie # None => u.stored.user = u.cookie.user)
    BY <1>1, <2>1, StoreAgrees DEF SameTokens
  <2> QED BY <2>2, <2>4, <2>5, ReloadedOK
<1> QED BY <1>2, <1>3 DEF Retry

----------------------------------------------------------------------------
(* The support window.                                                     *)

(* The window of the support changes, and what is kept of it.              *)
ChatMoves(t, u) ==
  /\ Core(u) /\ Keeps(t, u) /\ Calm(t, u) /\ PagesToo(t, u) /\ u.user = t.user

(* Two moves of the support window are one.                                *)
LEMMA ChatMovesTwice ==
  ASSUME NEW t, NEW u, NEW w, ChatMoves(t, u), ChatMoves(u, w)
  PROVE  ChatMoves(t, w)
<1>1. Keeps(t, w) /\ Calm(t, w) /\ PagesToo(t, w)
  BY KeepsTwice, CalmTwice, PagesTwice DEF ChatMoves
<1> QED BY <1>1 DEF ChatMoves

(* What is said is kept for the user and changes nothing else.             *)
LEMMA SaidIs ==
  ASSUME NEW t, Core(t), NEW log
  PROVE  LET u == Said(t, log) IN ChatMoves(t, u)
<1> DEFINE c == [t.chat EXCEPT !.log = log]
           k == IF t.user = None THEN t.kept ELSE [t.kept EXCEPT ![t.user] = log]
           u == Said(t, log)
<1>1. Shape(t) /\ ChatShape(t.chat)
  BY DEF Core
<1>2. ChatShape(c)
  BY <1>1 DEF ChatShape, Record, ChatFields
<1>3. u = [t EXCEPT !.chat = c, !.kept = k]
  BY <1>1 DEF Said, Shape, Record, TabFields
<1> HIDE DEF c, k, u
<1>4. /\ Shape(u) /\ SameTokens(t, u) /\ u.user = t.user /\ u.booting = t.booting
           /\ u.count = t.count
      /\ u.address = t.address /\ u.auth = t.auth /\ u.chat = c /\ u.view = t.view
      /\ u.dialog = t.dialog /\ u.flight = t.flight
  BY <1>1, <1>3 DEF Shape, Record, TabFields, SameTokens
<1>5. Core(u)
  BY <1>2, <1>4, CoreView DEF Core
<1>6. Calm(t, u)
  BY <1>4, CalmSame
<1>7. PagesToo(t, u)
  BY <1>4 DEF PagesToo, PagesOK
<1> QED BY <1>4, <1>5, <1>6, <1>7 DEF Keeps, ChatMoves, u

(* A move of the support window keeps the tab settled.                     *)
LEMMA ChatMovesOK ==
  ASSUME Settled(tab, server), NEW u, ChatMoves(tab, u), tab' = u
  PROVE  Settled(tab', server) /\ (AgreesOn(tab) => AgreesOn(tab'))
<1>1. PagesOK(u, server, FALSE)
  BY DEF ChatMoves, PagesToo, Settled
<1> QED BY <1>1, Direct DEF ChatMoves

(* A change of the support window is a move.                               *)
LEMMA ChatSet ==
  ASSUME NEW t, Core(t), NEW c, ChatShape(c)
  PROVE  ChatMoves(t, [t EXCEPT !.chat = c])
BY ChatStep DEF ChatMoves

(* A request of the support window is a move.                              *)
LEMMA ChatSent ==
  ASSUME NEW t, Core(t), NEW what \in {"status", "chat"}
  PROVE  ChatMoves(t, Send(t, what, NoArg, TRUE))
<1> DEFINE u == Send(t, what, NoArg, TRUE)
<1>1. what \in Kinds \ PageKinds /\ what # "refresh" /\ what \notin Forms /\ TRUE \in BOOLEAN
  BY DEF Kinds, PageKinds, Handlers, HandlerOf, Forms
<1>2. Core(u) /\ OnlyFlight(t, u) /\ Keeps(t, u) /\ Calm(t, u) /\ PagesToo(t, u)
  BY <1>1, SendQuiet
<1> HIDE DEF u
<1> QED BY <1>2 DEF ChatMoves, OnlyFlight, u

(* The support window opens or closes.                                     *)
LEMMA OpenChatOK ==
  ASSUME Settled(tab, server), OpenChat \/ CloseChat
  PROVE  Settled(tab', server) /\ (AgreesOn(tab) => AgreesOn(tab'))
<1>1. Core(tab) /\ ChatShape(tab.chat)
  BY DEF Settled, Core
<1>2. CASE OpenChat
  <2> DEFINE c == [tab.chat EXCEPT !.open = TRUE]
             t == [tab EXCEPT !.chat = c]
             u == Send(t, "status", NoArg, TRUE)
  <2>1. tab' = u \/ tab' = t
    BY <1>2 DEF OpenChat
  <2>2. ChatShape(c)
    BY <1>1 DEF ChatShape, Record, ChatFields
  <2> HIDE DEF c
  <2>3. ChatMoves(tab, t)
    BY <1>1, <2>2, ChatSet
  <2> HIDE DEF t
  <2>4. Core(t) BY <2>3 DEF ChatMoves
  <2>5. ChatMoves(t, u)
    BY <2>4, ChatSent
  <2> HIDE DEF u
  <2>6. ChatMoves(tab, u)
    BY <2>3, <2>5, ChatMovesTwice
  <2> QED BY <2>1, <2>3, <2>6, ChatMovesOK
<1>3. CASE CloseChat
  <2> DEFINE c == [tab.chat EXCEPT !.open = FALSE]
             t == [tab EXCEPT !.chat = c]
  <2>1. tab' = t
    BY <1>3 DEF CloseChat
  <2>2. ChatShape(c)
    BY <1>1 DEF ChatShape, Record, ChatFields
  <2> HIDE DEF c
  <2>3. ChatMoves(tab, t)
    BY <1>1, <2>2, ChatSet
  <2> HIDE DEF t
  <2> QED BY <2>1, <2>3, ChatMovesOK
<1> QED BY <1>2, <1>3

(* A question, a piece of its answer, and the conversation cleared.        *)
LEMMA askOK ==
  ASSUME Settled(tab, server), ask \/ typeOut \/ clearChat
  PROVE  Settled(tab', server) /\ (AgreesOn(tab) => AgreesOn(tab'))
<1>1. Core(tab)
  BY DEF Settled
<1>2. CASE ask
  <2> DEFINE s == Said(tab, Append(tab.chat.log, "me"))
             c == [s.chat EXCEPT !.busy = TRUE, !.error = FALSE]
             t == [s EXCEPT !.chat = c]
             u == Send(t, "chat", NoArg, TRUE)
  <2>1. ChatMoves(tab, s)
    BY <1>1, SaidIs
  <2>2. Core(s) /\ ChatShape(s.chat)
    BY <2>1 DEF ChatMoves, Core
  <2>3. tab' = Send([s EXCEPT !.chat.busy = TRUE, !.chat.error = FALSE], "chat", NoArg, TRUE)
    BY <1>2 DEF ask
  <2> HIDE DEF s
  <2>4. [s EXCEPT !.chat.busy = TRUE, !.chat.error = FALSE] = t
    BY <2>2 DEF Core, Shape, Record, TabFields
  <2>5. ChatShape(c)
    BY <2>2 DEF ChatShape, Record, ChatFields
  <2> HIDE DEF c
  <2>6. ChatMoves(s, t)
    BY <2>2, <2>5, ChatSet
  <2> HIDE DEF t
  <2>7. Core(t) BY <2>6 DEF ChatMoves
  <2>8. ChatMoves(t, u)
    BY <2>7, ChatSent
  <2>9. tab' = u BY <2>3, <2>4
  <2> HIDE DEF u
  <2>10. ChatMoves(tab, t)
    BY <2>1, <2>6, ChatMovesTwice
  <2>11. ChatMoves(tab, u)
    BY <2>8, <2>10, ChatMovesTwice
  <2> QED BY <2>9, <2>11, ChatMovesOK
<1>3. CASE typeOut
  <2> DEFINE s == Said(tab, Append(tab.chat.log, "bot"))
             c == [s.chat EXCEPT !.typing = FALSE]
             t == [s EXCEPT !.chat = c]
  <2>1. ChatMoves(tab, s)
    BY <1>1, SaidIs
  <2>2. Core(s) /\ ChatShape(s.chat)
    BY <2>1 DEF ChatMoves, Core
  <2>3. tab' = t
    BY <1>3 DEF typeOut
  <2> HIDE DEF s
  <2>5. ChatShape(c)
    BY <2>2 DEF ChatShape, Record, ChatFields
  <2> HIDE DEF c
  <2>6. ChatMoves(s, t)
    BY <2>2, <2>5, ChatSet
  <2> HIDE DEF t
  <2>7. ChatMoves(tab, t)
    BY <2>1, <2>6, ChatMovesTwice
  <2> QED BY <2>3, <2>7, ChatMovesOK
<1>4. CASE clearChat
  <2> DEFINE s == Said(tab, <<>>)
             c == [s.chat EXCEPT !.error = FALSE, !.typing = FALSE]
             t == [s EXCEPT !.chat = c]
  <2>1. ChatMoves(tab, s)
    BY <1>1, SaidIs
  <2>2. Core(s) /\ ChatShape(s.chat)
    BY <2>1 DEF ChatMoves, Core
  <2>3. tab' = [s EXCEPT !.chat.error = FALSE, !.chat.typing = FALSE]
    BY <1>4 DEF clearChat
  <2> HIDE DEF s
  <2>4. [s EXCEPT !.chat.error = FALSE, !.chat.typing = FALSE] = t
    BY <2>2 DEF Core, Shape, Record, TabFields
  <2>5. ChatShape(c)
    BY <2>2 DEF ChatShape, Record, ChatFields
  <2> HIDE DEF c
  <2>6. ChatMoves(s, t)
    BY <2>2, <2>5, ChatSet
  <2> HIDE DEF t
  <2>7. ChatMoves(tab, t)
    BY <2>1, <2>6, ChatMovesTwice
  <2> QED BY <2>3, <2>4, <2>7, ChatMovesOK
<1> QED BY <1>2, <1>3, <1>4

----------------------------------------------------------------------------
(* Every step, the beginning, and the theorems.                            *)

(* However a request ends, its handler gets what it may rely on.           *)
LEMMA EndOfRequest ==
  ASSUME Core(tab), NEW i \in Requests, NEW a \in Endings(i)
  PROVE  EndOK(tab.flight[i], a)
<1> DEFINE r == tab.flight[i]
<1>1. r \in Reqs /\ AnsOK(r)
  BY DEF Core, FlightOK, Requests
<1>2. \/ r.at # "sent" /\ a = r.answer
      \/ a = Lost /\ r.at # "hung"
      \/ r.at # "sent" /\ r.answer.status = "ok" /\ a = Garbled(r.answer)
  BY DEF Endings
<1> HIDE DEF r
<1>3. EndOK(r, a)
  BY <1>1, <1>2, EndingsAre
<1> QED BY <1>3 DEF r

(* The end of any request.                                                 *)
LEMMA EndKeepsInv ==
  ASSUME Inv, NEW i \in Requests, End(i)
  PROVE  Inv' /\ (AgreesOn(tab) => AgreesOn(tab') \/ LatePassword)
<1> DEFINE what == tab.flight[i].what
<1> PICK a \in Endings(i) :
      /\ UNCHANGED server
      /\ \/ what = "refresh"                     /\ RefreshEnds(i, a)
         \/ what = "check"                       /\ CheckEnds(i, a)
         \/ what = "logout"                      /\ LogoutEnds(i, a)
         \/ what \in {"login", "signup", "verify", "resend", "change"} /\ FormEnds(i, a)
         \/ what \in {"status", "chat"}          /\ ChatEnds(i, a)
         \/ PageEnds(i, a)
  BY DEF End
<1>1. ServerOK(server) /\ Settled(tab, server) /\ Core(tab)
  BY DEF Inv, Settled
<1>2. EndOK(tab.flight[i], a)
  BY <1>1, EndOfRequest
<1>3. Settled(tab', server) /\ (AgreesOn(tab) => AgreesOn(tab') \/ LatePassword)
  <2>1. CASE what = "refresh" /\ RefreshEnds(i, a)
    BY <1>1, <1>2, <2>1, RefreshEndsOK
  <2>2. CASE what = "check" /\ CheckEnds(i, a)
    BY <1>1, <1>2, <2>2, CheckEndsOK
  <2>3. CASE what = "logout" /\ LogoutEnds(i, a)
    BY <1>1, <1>2, <2>3, LogoutEndsOK
  <2>4. CASE what \in {"login", "signup", "verify", "resend", "change"} /\ FormEnds(i, a)
    <3>1. tab.flight[i].what \in Forms BY <2>4 DEF Forms
    <3> QED BY <1>1, <1>2, <2>4, <3>1, FormEndsOK
  <2>5. CASE what \in {"status", "chat"} /\ ChatEnds(i, a)
    BY <1>1, <1>2, <2>5, ChatEndsOK
  <2>6. CASE what \in Handlers /\ HandlerEnds(i, a)
    BY <1>1, <1>2, <2>6, HandlerEndsOK
  <2>7. CASE what = "load" /\ LoadEnds(i, a)
    BY <1>1, <1>2, <2>7, LoadEndsOK
  <2>8. CASE what = "search" /\ SearchEnds(i, a)
    BY <1>1, <1>2, <2>8, SearchEndsOK
  <2> QED BY <2>1, <2>2, <2>3, <2>4, <2>5, <2>6, <2>7, <2>8 DEF PageEnds
<1>4. Inv'
  BY <1>1, <1>3 DEF Inv
<1> QED BY <1>3, <1>4

(* What the server's steps leave is the invariant.                         *)
LEMMA StandsIs ==
  ASSUME Stands
  PROVE  Inv' /\ (AgreesOn(tab) => AgreesOn(tab'))
BY DEF Stands, Inv

(* The steps of the tab leave the server alone.                            *)
LEMMA HeldStill ==
  ASSUME Inv, UNCHANGED server, Settled(tab', server), AgreesOn(tab) => AgreesOn(tab')
  PROVE  Inv' /\ (AgreesOn(tab) => AgreesOn(tab'))
BY DEF Inv

(* The steps of the network and of the server.                             *)
LEMMA NetKeepsInv ==
  ASSUME Inv, Net \/ LateBody \/ (\E i \in Requests : Hang(i))
          \/ (\E u \in Users : SessionEnds(u))
  PROVE  Inv' /\ (AgreesOn(tab) => AgreesOn(tab') \/ LatePassword)
<1>1. ASSUME NEW i \in Requests,
          ServeAuth(i) \/ ServePage(i) \/ ServeChat(i) \/ Hang(i) PROVE Stands
  BY <1>1, ServeAuthOK, ServePageOK, ServeChatOK, HangOK
<1>2. ASSUME NEW u \in Users, SessionEnds(u) PROVE Stands
  BY <1>2, SessionEndsOK
<1>3. ASSUME NEW i \in Requests, End(i)
      PROVE  Inv' /\ (AgreesOn(tab) => AgreesOn(tab') \/ LatePassword)
  BY <1>3, EndKeepsInv
<1> QED BY <1>1, <1>2, <1>3, StandsIs DEF Net, LateBody, Serve

(* The steps of the user and of the timers.                                *)
LEMMA ClicksKeepInv ==
  ASSUME Inv, \/ Timers \/ CountedDown \/ SessionClick \/ PageClick
              \/ \E yes \in BOOLEAN : Confirm(yes)
              \/ OpenChat \/ CloseChat \/ ask \/ clearChat
  PROVE  Inv' /\ (AgreesOn(tab) => AgreesOn(tab'))
<1>1. Settled(tab, server)
  BY DEF Inv
<1>2. CASE Timers
  <2>1. CASE Debounced
    BY <1>1, <2>1, DebouncedOK, HeldStill DEF Debounced
  <2>2. CASE typeOut
    BY <1>1, <2>2, askOK, HeldStill DEF typeOut
  <2> QED BY <1>2, <2>1, <2>2 DEF Timers
<1>3. CASE CountedDown
  BY <1>1, <1>3, SwitchesOK, HeldStill DEF CountedDown
<1>4. CASE SessionClick
  <2>1. ASSUME NEW what \in {"login", "signup", "verify", "resend", "change"}, Press(what)
        PROVE  Inv' /\ (AgreesOn(tab) => AgreesOn(tab'))
    <3>1. what \in Forms BY DEF Forms
    <3>2. UNCHANGED server BY <2>1 DEF Press
    <3> QED BY <1>1, <2>1, <3>1, <3>2, PressOK, HeldStill
  <2>2. CASE SwitchMode
    BY <1>1, <2>2, SwitchesOK, HeldStill DEF SwitchMode
  <2>3. CASE ToggleChange
    BY <1>1, <2>3, SwitchesOK, HeldStill DEF ToggleChange
  <2>4. CASE logout
    BY <1>1, <2>4, logoutOK, HeldStill DEF logout
  <2>5. CASE Reload
    BY <1>1, <2>5, ReloadOK, HeldStill DEF Reload
  <2> QED BY <1>4, <2>1, <2>2, <2>3, <2>4, <2>5 DEF SessionClick
<1>5. CASE PageClick
  <2>1. ASSUME NEW what \in Handlers, NEW row \in Items \cup {None}, Click(what, row)
        PROVE  Inv' /\ (AgreesOn(tab) => AgreesOn(tab'))
    <3>1. UNCHANGED server BY <2>1 DEF Click
    <3> QED BY <1>1, <2>1, <3>1, ClickOK, HeldStill
  <2>2. ASSUME NEW q \in Terms, Typed(q)
        PROVE  Inv' /\ (AgreesOn(tab) => AgreesOn(tab'))
    <3>1. UNCHANGED server BY <2>2 DEF Typed
    <3> QED BY <1>1, <2>2, <3>1, TypedOK, HeldStill
  <2>3. ASSUME NEW p \in Menu, Navigate(p)
        PROVE  Inv' /\ (AgreesOn(tab) => AgreesOn(tab'))
    <3>1. UNCHANGED server BY <2>3 DEF Navigate
    <3> QED BY <1>1, <2>3, <3>1, NavigateOK, HeldStill
  <2>4. CASE loadMore
    BY <1>1, <2>4, loadMoreOK, HeldStill DEF loadMore
  <2>5. CASE OpenWindow
    BY <1>1, <2>5, WindowsOK, HeldStill DEF OpenWindow
  <2>6. CASE CloseWindow
    BY <1>1, <2>6, WindowsOK, HeldStill DEF CloseWindow
  <2>7. CASE Pick
    BY <1>1, <2>7, PickOK, HeldStill DEF Pick
  <2>8. CASE Retry
    BY <1>1, <2>8, RetryOK, HeldStill DEF Retry
  <2> QED BY <1>5, <2>1, <2>2, <2>3, <2>4, <2>5, <2>6, <2>7, <2>8 DEF PageClick
<1>6. ASSUME NEW yes \in BOOLEAN, Confirm(yes)
      PROVE  Inv' /\ (AgreesOn(tab) => AgreesOn(tab'))
  <2>1. UNCHANGED server BY <1>6 DEF Confirm
  <2> QED BY <1>1, <1>6, <2>1, ConfirmOK, HeldStill
<1>7. CASE OpenChat
  BY <1>1, <1>7, OpenChatOK, HeldStill DEF OpenChat
<1>8. CASE CloseChat
  BY <1>1, <1>8, OpenChatOK, HeldStill DEF CloseChat
<1>9. CASE ask
  BY <1>1, <1>9, askOK, HeldStill DEF ask
<1>10. CASE clearChat
  BY <1>1, <1>10, askOK, HeldStill DEF clearChat
<1> QED BY <1>2, <1>3, <1>4, <1>5, <1>6, <1>7, <1>8, <1>9, <1>10

(* Every step keeps the invariant, and the user shown speaks for himself   *)
(* unless a change of password answered late.                              *)
LEMMA NextKeepsInv ==
  ASSUME Inv, [Next]_vars
  PROVE  Inv' /\ (AgreesOn(tab) => AgreesOn(tab') \/ LatePassword)
<1>1. CASE UNCHANGED vars
  <2>1. server' = server /\ tab' = tab
    BY <1>1 DEF vars
  <2> QED BY <2>1 DEF Inv
<1>2. CASE Net \/ LateBody \/ (\E i \in Requests : Hang(i))
          \/ (\E u \in Users : SessionEnds(u))
  BY <1>2, NetKeepsInv
<1>3. CASE \/ Timers \/ CountedDown \/ SessionClick \/ PageClick
           \/ \E yes \in BOOLEAN : Confirm(yes)
           \/ OpenChat \/ CloseChat \/ ask \/ clearChat
  BY <1>3, ClicksKeepInv
<1> QED BY <1>1, <1>2, <1>3 DEF Next

(* The tab as the browser loads it.                                        *)
LEMMA BareIs ==
  ASSUME NEW stored \in Tokens0, NEW cookie \in Tokens0, NEW address \in PageNames,
         CanStore \/ stored = None
  PROVE  LET t == Loaded(stored, cookie, address) IN
         /\ Core(t) /\ t.booting /\ t.auth = NoAuth /\ t.view = NoView /\ t.chat = NoChat
         /\ t.memory = None /\ t.stored = stored /\ t.cookie = cookie /\ t.dialog = None
         /\ t.count = 0 /\ t.address = address
<1> DEFINE kept == [u \in Users |-> <<>>]
           b == [memory |-> None, stored |-> stored, cookie |-> cookie, user |-> None,
                 booting |-> TRUE, count |-> 0, flight |-> <<>>, auth |-> NoAuth,
                 view |-> NoView, chat |-> NoChat, dialog |-> None,
                 kept |-> kept, address |-> address]
           t == Loaded(stored, cookie, address)
<1>1. t = refresh(b, None)
  BY DEF Loaded
<1> HIDE DEF kept
<1>2. /\ Shape(b) /\ b.memory = None /\ b.stored = stored /\ b.cookie = cookie /\ b.user = None
      /\ b.booting = TRUE /\ b.count = 0 /\ b.flight = <<>> /\ b.auth = NoAuth /\ b.view = NoView
      /\ b.chat = NoChat /\ b.dialog = None /\ b.address = address
  BY DEF Shape, Record, TabFields
<1> HIDE DEF b
<1>3. TokensOK(b)
  BY <1>2, ApiAssumption DEF TokensOK, Tokens0
<1>4. FlightOK(b.flight, b.view.page, b.view.of, b.auth.mode)
  BY <1>2 DEF FlightOK
<1>5. DialogOK(b.dialog, b.view.page)
  BY <1>2 DEF DialogOK
<1>6. AuthShape(b.auth) /\ ChatShape(b.chat) /\ ViewOK(b.view) /\ b.user \in Users0
  BY <1>2, Closed, NoViewIs DEF Users0
<1>7. Core(b)
  <2>1. b.booting \in BOOLEAN BY <1>2
  <2>2. b.count \in Nat /\ b.address \in PageNames BY <1>2
  <2>3. Shape(b) BY <1>2
  <2> QED BY <1>3, <1>4, <1>5, <1>6, <2>1, <2>2, <2>3 DEF Core
<1>8. Core(refresh(b, None)) /\ OnlyFlight(b, refresh(b, None))
  BY <1>7, RefreshOK
<1> HIDE DEF t
<1> QED BY <1>1, <1>2, <1>8 DEF OnlyFlight, t

(* It is settled.                                                          *)
LEMMA LoadedSettled ==
  ASSUME NEW stored \in Tokens0, NEW cookie \in Tokens0, NEW address \in PageNames,
         CanStore \/ stored = None, NEW s
  PROVE  Settled(Loaded(stored, cookie, address), s)
<1> DEFINE t == Loaded(stored, cookie, address)
<1>1. Core(t) /\ t.booting /\ t.auth = NoAuth /\ t.view = NoView
  BY BareIs
<1> HIDE DEF t
<1>2. Screen(t) = "boot"
  BY <1>1 DEF Screen
<1>3. Mounted(t, "boot") /\ t.view.page = None
  BY <1>1, Closed, NoViewIs DEF Mounted
<1> QED BY <1>1, <1>2, <1>3, NoPage DEF Settled, t

(* So is the tab that begins with a window open.                           *)
LEMMA PricesSettled ==
  ASSUME NEW token \in Tokens, CanStore, NEW p \in Items, NEW s,
         s.edits = 0
  PROVE  Settled(PricesOpen(token, p), s)
<1> DEFINE l == Loaded(token, token, "estimate")
           d == [of |-> "", upto |-> 1, row |-> [q \in Items |-> "active"], edits |-> 0]
           m == [kind |-> "price", row |-> p]
           v == [FreshView("estimate") EXCEPT !.data = d, !.modal = m]
           t == [l EXCEPT !.user = token.user, !.booting = FALSE, !.flight = <<>>, !.view = v]
<1>1. PricesOpen(token, p) = t
  BY DEF PricesOpen
<1>2. "estimate" \in PageNames /\ token \in Tokens0 /\ token.user \in Users
  BY DEF PageNames, Loading, Tokens0, Tokens
<1>3. /\ Core(l) /\ l.booting /\ l.auth = NoAuth /\ l.view = NoView /\ l.chat = NoChat
      /\ l.memory = None /\ l.stored = token /\ l.cookie = token /\ l.dialog = None
      /\ l.count = 0 /\ l.address = "estimate"
  BY <1>2, BareIs
<1>4. d \in PageData /\ d.of = "" /\ d.edits = 0
  BY PagesAssumption DEF PageData, RowStates
<1>5. d # None
  BY <1>4, NoneAssumption
<1>6. m.row = p /\ m.kind = "price"
  OBVIOUS
<1> HIDE DEF l, d, m
<1>7. /\ ViewShape(v) /\ v.page = "estimate" /\ v.of = "" /\ v.data = d /\ v.wait = FALSE
      /\ v.loading = FALSE /\ v.crossed = FALSE /\ v.modal = m
  BY DEF FreshView, NoView, ViewShape, Record, ViewFields
<1> HIDE DEF v
<1>8. ViewOK(v)
  BY <1>2, <1>4, <1>6, <1>7, PagesAssumption, NoneAssumption
  DEF ViewOK, Pages0, DataV, Data0, Items0
<1>9. /\ Shape(t) /\ t.memory = None /\ t.stored = token /\ t.cookie = token
           /\ t.user = token.user
      /\ t.booting = FALSE /\ t.count = 0 /\ t.flight = <<>> /\ t.auth = NoAuth /\ t.view = v
      /\ t.chat = NoChat /\ t.dialog = None /\ t.address = "estimate"
  BY <1>3 DEF Core, Shape, Record, TabFields
<1> HIDE DEF t
<1>10. TokensOK(t)
  BY <1>2, <1>9 DEF TokensOK, Tokens0
<1>11. FlightOK(t.flight, t.view.page, t.view.of, t.auth.mode)
  BY <1>9 DEF FlightOK
<1>12. DialogOK(t.dialog, t.view.page)
  BY <1>9 DEF DialogOK
<1>13. AuthShape(t.auth) /\ ChatShape(t.chat) /\ ViewOK(t.view) /\ t.user \in Users0
  BY <1>2, <1>8, <1>9, Closed DEF Users0
<1>14. Core(t)
  <2>1. t.booting \in BOOLEAN BY <1>9
  <2>2. t.count \in Nat /\ t.address \in PageNames BY <1>2, <1>9
  <2>3. Shape(t) BY <1>9
  <2> QED BY <1>10, <1>11, <1>12, <1>13, <2>1, <2>2, <2>3 DEF Core
<1>15. Screen(t) = "app"
  BY <1>2, <1>9, ApiAssumption DEF Screen
<1>16. Mounted(t, "app")
  BY <1>2, <1>7, <1>9, Closed, Strings DEF Mounted
<1>17. TurnsOK(t.view, t.flight, s)
  BY <1>9 DEF TurnsOK
<1>18. CountOK(t.view, t.count) /\ Matches(t.view, t.flight, s)
  BY <1>4, <1>7, <1>9 DEF CountOK, Matches
<1>19. PagesOK(t, s, FALSE)
  BY <1>17, <1>18 DEF PagesOK, ShownOK
<1> QED BY <1>1, <1>14, <1>15, <1>16, <1>19 DEF Settled

(* The invariant holds where the behaviours begin.                         *)
LEMMA InitInv == Init => Inv
<1> SUFFICES ASSUME Init PROVE Inv
  OBVIOUS
<1>1. ServerOK(server) /\ server.edits = 0
  BY DEF Init, ServerOK
<1> PICK s \in Starts : tab = s.tab
  BY DEF Init
<1>2. /\ {tab.stored, tab.cookie} \subseteq {None} \cup Tokens /\ (CanStore \/ tab.stored = None)
      /\ \/ tab.address \in PageNames /\ tab = Loaded(tab.stored, tab.cookie, tab.address)
         \/ tab.stored # None /\ \E p \in Items : tab = PricesOpen(tab.stored, p)
  BY StartsAssumption
<1>3. tab.stored \in Tokens0 /\ tab.cookie \in Tokens0
  BY <1>2 DEF Tokens0
<1>4. CASE tab.address \in PageNames /\ tab = Loaded(tab.stored, tab.cookie, tab.address)
  <2>1. Settled(Loaded(tab.stored, tab.cookie, tab.address), server)
    BY <1>2, <1>3, <1>4, LoadedSettled
  <2>2. Settled(tab, server)
    BY <1>4, <2>1
  <2> QED BY <1>1, <2>2 DEF Inv
<1>5. CASE tab.stored # None /\ \E p \in Items : tab = PricesOpen(tab.stored, p)
  <2> PICK p \in Items : tab = PricesOpen(tab.stored, p)
    BY <1>5
  <2>1. tab.stored \in Tokens /\ CanStore
    BY <1>2, <1>3, <1>5 DEF Tokens0
  <2>2. Settled(PricesOpen(tab.stored, p), server)
    BY <1>1, <2>1, PricesSettled
  <2>3. Settled(tab, server)
    BY <2>2
  <2> QED BY <1>1, <2>3 DEF Inv
<1> QED BY <1>2, <1>4, <1>5

(* The invariant of the tab: what is mounted is what the user says, what   *)
(* is heard is of the page that is there, and each page shows what the     *)
(* server has or has a request under way that will make up for it.         *)
THEOREM Invariance == Spec => []Inv
<1>1. Inv /\ [Next]_vars => Inv'
  BY NextKeepsInv
<1> QED BY InitInv, <1>1, PTL DEF Spec

(* The invariant gives the types.                                          *)
LEMMA InvTypes == Inv => TypeOK
<1> SUFFICES ASSUME Inv PROVE TypeOK
  OBVIOUS
<1>1. Core(tab) /\ Mounted(tab, Screen(tab)) /\ ServerOK(server)
  BY DEF Inv, Settled
<1>2. {tab.memory, tab.stored, tab.cookie} \subseteq {None} \cup Tokens
  BY <1>1 DEF Core, TokensOK, Tokens0
<1>3. tab.user \in Users \cup {None} /\ tab.booting \in BOOLEAN /\ tab.count \in Nat
  BY <1>1 DEF Core, Users0
<1>4. (tab.auth.mode = "closed" <=> Screen(tab) # "login")
          /\ (tab.view.page = None <=> Screen(tab) # "app")
  BY <1>1 DEF Mounted
<1>5. ASSUME NEW i \in Requests
      PROVE  LET r == tab.flight[i] IN
             /\ r.at \in {"sent", "served", "hung"} /\ r.heard \in BOOLEAN
             /\ (r.at = "sent" <=> r.answer = None)
             /\ r.answer # None => r.answer.status \in Statuses
  <2> DEFINE r == tab.flight[i]
  <2>1. FlightOK(tab.flight, tab.view.page, tab.view.of, tab.auth.mode) /\ i \in DOMAIN tab.flight
    BY <1>1 DEF Core, Requests
  <2>2. r \in Reqs /\ AnsOK(r)
    BY <2>1 DEF FlightOK
  <2> HIDE DEF r
  <2>3. r.at \in {"sent", "served", "hung"} /\ r.heard \in BOOLEAN /\ r.answer
            \in Answers \cup {None}
    BY <2>2 DEF Reqs
  <2>4. r.at = "sent" <=> r.answer = None
    BY <2>2 DEF AnsOK
  <2>5. r.answer # None => r.answer.status \in Statuses
    BY <2>3 DEF Answers
  <2> QED BY <2>3, <2>4, <2>5 DEF r
<1>6. server.row \in [Items -> {"active", "archived", "gone"}] /\ server.edits \in Nat
  BY <1>1 DEF ServerOK
<1>7. /\ tab.view.data \in {None, Bare} \cup PageData
      /\ tab.view.data = Bare => tab.view.page \in Lenient
  BY <1>1 DEF Core, ViewOK, DataV, Data0
<1> QED BY <1>2, <1>3, <1>4, <1>5, <1>6, <1>7 DEF TypeOK

(* For any users, products, terms and pages, the tab has its types: the    *)
(* sign-in page is there exactly when nobody is signed in, a page exactly  *)
(* when somebody is, a request is unanswered exactly until it is served,   *)
(* and an answer that came without its fields is shown only by the pages   *)
(* that draw it as none, never by those that throw (App.jsx, api.js:124).  *)
THEOREM TypesHold == Spec => []TypeOK
BY Invariance, InvTypes, PTL

(* The invariant keeps what is found to the term.                          *)
LEMMA InvSearch == Inv => SearchShowsTerm
BY DEF Inv, Settled, Core, ViewOK, SearchShowsTerm

(* Once a search is done, what is shown was found for the term in the      *)
(* field, however many terms were typed and in whatever order their        *)
(* answers come (SearchPage.jsx:31-50).                                    *)
THEOREM SearchHolds == Spec => []SearchShowsTerm
BY Invariance, InvSearch, PTL

(* With nothing of the page under way, nothing excuses it any more.        *)
LEMMA InvPages == Inv => PagesAgree
<1> SUFFICES ASSUME Inv, AtRest(tab) PROVE Agrees(tab)
  BY DEF PagesAgree
<1> DEFINE v == tab.view
           f == tab.flight
<1>1. /\ v.data \notin {None, Bare} /\ ~v.crossed /\ PagesOK(tab, server, FALSE)
      /\ \A i \in DOMAIN f : ~Gives(f[i].what) /\ ~Changes(f[i].what)
  BY DEF AtRest, Inv, Settled, Shown
<1>2. ASSUME NEW i \in DOMAIN f PROVE ~Excuses(f[i]) /\ \A q : ~Hides(f[i], q)
  <2>1. Hiding \subseteq Handlers
    BY DEF Hiding, Handlers, HandlerOf
  <2>2. ASSUME NEW w \in Hiding PROVE Changes(w)
    <3>1. HandlerOK(w, HandlerOf[w]) BY <2>1, HandlerTable
    <3> QED BY <2>1, <3>1 DEF HandlerOK, Changes
  <2>3. f[i].what \notin Hiding /\ f[i].what # "load" /\ ~Changes(f[i].what)
    BY <1>1, <2>2, LoadIs
  <2> QED BY <2>3 DEF Excuses, Hides, Hiding
<1>3. ASSUME v.page \in Seen PROVE CountOK(v, tab.count) /\ Matches(v, f, server)
  <2>1. Straight(v) BY <1>1, <1>3 DEF Straight
  <2>2. ~Excused(f) BY <1>2 DEF Excused
  <2> QED BY <1>1, <2>1, <2>2 DEF PagesOK, ShownOK
<1>4. \A q : ~Hidden(f, q)
  BY <1>2 DEF Hidden
<1>5. CASE v.page = "purchases"
  <2>1. CountOK(v, tab.count) /\ Matches(v, f, server)
    BY <1>3, <1>5 DEF Seen, Loading
  <2>2. \A q \in Items : v.data.row[q] = "active" <=> server.row[q] = "active"
    BY <1>4, <1>5, <2>1 DEF Matches
  <2>3. ActiveIn(v.data) = ActiveIn(server)
    BY <2>2 DEF ActiveIn
  <2>4. v.data.edits = server.edits /\ tab.count = Cardinality(ActiveIn(v.data))
    BY <1>5, <2>1 DEF Matches, CountOK
  <2> QED BY <1>5, <2>3, <2>4 DEF Agrees
<1>6. CASE v.page = "supplier"
  <2>1. Matches(v, f, server)
    BY <1>3, <1>6 DEF Seen, Loading
  <2> QED BY <1>6, <2>1 DEF Agrees, Matches
<1>7. CASE v.page = "estimate"
  <2>1. Matches(v, f, server)
    BY <1>3, <1>7 DEF Seen, Loading
  <2> QED BY <1>7, <2>1 DEF Agrees, Matches
<1>10. CASE v.page = "dashboard"
  <2>1. CountOK(v, tab.count) /\ Matches(v, f, server)
    BY <1>3, <1>10 DEF Seen, Loading
  <2>2. \A q \in Items : v.data.row[q] = "active" <=> server.row[q] = "active"
    BY <1>10, <2>1 DEF Matches
  <2>3. ActiveIn(v.data) = ActiveIn(server)
    BY <2>2 DEF ActiveIn
  <2>4. v.data.edits = server.edits /\ tab.count = Cardinality(ActiveIn(v.data))
    BY <1>10, <2>1 DEF Matches, CountOK
  <2> QED BY <1>10, <2>3, <2>4 DEF Agrees
<1>8. CASE v.page \in {"suppliers", "account", "admin"}
  <2>1. Matches(v, f, server)
    BY <1>3, <1>8 DEF Seen, Loading
  <2> QED BY <1>8, <2>1 DEF Agrees, Matches
<1>9. CASE v.page \notin {"purchases", "supplier", "estimate", "dashboard", "suppliers",
          "account", "admin"}
  BY <1>9 DEF Agrees
<1> QED BY <1>5, <1>6, <1>7, <1>8, <1>9, <1>10

(* A page that has its answers shows what the server has, whatever failed  *)
(* on the way, as long as no two answers crossed (Purchases.jsx:83-99,     *)
(* SupplierDetail.jsx:74-119); on the list of purchases and on the start   *)
(* the counter counts it too.  Nothing is said of a page that shows an     *)
(* answer without fields, or the boundary's card, until it has asked       *)
(* again, nor of the counter on the other pages.                           *)
THEOREM PagesHold == Spec => []PagesAgree
BY Invariance, InvPages, PTL

(* The user on the page is the one the requests speak for, whatever        *)
(* answers of earlier sessions come late; only the late answer to a change *)
(* of password breaks that (AppContext.jsx:46-69, :117-128, api.js:142).   *)
THEOREM SenderShown == Spec => ShownIsSender
<1>1. Inv /\ [Next]_vars => [Agree /\ ~Agree' => LatePassword]_vars
  <2>1. Agree <=> AgreesOn(tab)
    BY DEF Agree, AgreesOn
  <2>2. Agree' <=> AgreesOn(tab')
    BY DEF Agree, AgreesOn
  <2> QED BY <2>1, <2>2, NextKeepsInv
<1> QED BY Invariance, <1>1, PTL DEF Spec, ShownIsSender
=============================================================================
