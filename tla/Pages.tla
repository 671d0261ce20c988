------------------------------- MODULE Pages -------------------------------
(* The pages of a signed-in user: what each asks for when it opens, what   *)
(* its buttons send, and what it does with the answers.                    *)
(*                                                                         *)
(* Of the server's data a page tells apart the products (row: active,      *)
(* archived, gone), how many other changes were made (edits), and what was *)
(* asked for.  A handler is a record: most differ only in what they set    *)
(* before the request and what they call after it.                         *)
EXTENDS Session

CONSTANTS
  Items,   \* products
  Menu,    \* the pages the menu is used for
  Terms,   \* what is typed or chosen in the field of a page
  Long     \* the terms of two characters and more

ASSUME PagesAssumption ==
  /\ IsFiniteSet(Items) /\ None \notin Items
  /\ Menu \subseteq PageNames
  /\ Long \subseteq Terms /\ "" \in Terms \ Long

Handler == [
  on     |-> {},     \* the pages that have it
  window |-> "",     \* the window it is in
  key    |-> "",     \* its flag; "row": one for each product
  once   |-> FALSE,  \* not offered while the flag is up
  alone  |-> FALSE,  \* the flag is one variable for all of its kind
  asks   |-> FALSE,  \* a confirmation first
  from   |-> {},     \* for the products shown so
  shows  |-> None,   \* and showing them so at once
  does   |-> "edit", \* on the server
  gives  |-> FALSE,  \* the answer is the page's new data
  finds  |-> FALSE,  \* the answer is shown in the window
  ok     |-> <<>>,   \* called after a good answer
  err    |-> <<>>]   \* called after an error

----------------------------------------------------------------------------
(* The list of purchases and a supplier's page.                            *)
(* Faulty variant: an error leaves the list as it was changed.             *)
purchasesArchiveUnmended ==
  [Handler EXCEPT !.on = {"purchases"}, !.key = "row", !.once = TRUE, !.from = {"active"},
     !.shows = "archived", !.does = "archived", !.ok = <<"refresh">>, !.err = <<"refresh">>]

purchasesArchive ==
  [Handler EXCEPT !.on = {"purchases"}, !.key = "row", !.once = TRUE, !.from = {"active"},
     !.shows = "archived", !.does = "archived", !.ok = <<"refresh">>,
     !.err = <<"load", "refresh">>]

purchasesRemove ==
  [Handler EXCEPT !.on = {"purchases"}, !.asks = TRUE, !.from = {"active"}, !.does = "gone",
     !.ok = <<"load", "refresh">>]

supplierArchive ==
  [purchasesArchive EXCEPT !.on = {"supplier"}, !.shows = "hidden", !.ok = <<"load", "refresh">>]

supplierUnarchive ==
  [supplierArchive EXCEPT !.from = {"archived"}, !.does = "active"]

supplierRemove == [purchasesRemove EXCEPT !.on = {"supplier"}]

deleteArchiveGroup ==
  [Handler EXCEPT !.on = {"supplier"}, !.asks = TRUE, !.does = "group", !.ok = <<"load", "refresh">>]

suppliersRemove ==
  [Handler EXCEPT !.on = {"suppliers"}, !.asks = TRUE, !.ok = <<"load", "refresh">>]

(* The forms: a product's, a supplier's, and the short one of the start.   *)
saveProduct ==
  [Handler EXCEPT !.on = {"purchases", "supplier"}, !.window = "product",
     !.key = "save", !.once = TRUE, !.ok = <<"load", "refresh", "close">>]

checkDuplicate ==
  [Handler EXCEPT !.on = {"purchases", "supplier"}, !.window = "product",
     !.does = "none", !.finds = TRUE]

saveSupplier == [saveProduct EXCEPT !.on = {"suppliers"}, !.window = "supplier"]

submitQuick ==
  [Handler EXCEPT !.on = {"dashboard"}, !.key = "quick", !.once = TRUE, !.ok = <<"load", "refresh">>]

----------------------------------------------------------------------------
(* The estimate: every good answer is the whole page.                      *)
OnEstimate == [Handler EXCEPT !.on = {"estimate"}, !.gives = TRUE]

saveBudget == [OnEstimate EXCEPT !.key = "budget", !.once = TRUE]

saveItemField ==
  [OnEstimate EXCEPT !.key = "item", !.alone = TRUE, !.from = {"active"}, !.err = <<"load">>]

(* Its request does not say which list is shown.                           *)
clearPrice == saveItemField

moveToNext      == [OnEstimate EXCEPT !.from = {"active"}]
restoreFromNext == [OnEstimate EXCEPT !.from = {"active"}]
trimToBudget    == [OnEstimate EXCEPT !.key = "trim", !.once = TRUE, !.asks = TRUE]

priceSearch ==
  [Handler EXCEPT !.on = {"estimate"}, !.window = "price", !.key = "price", !.once = TRUE,
     !.does = "none", !.finds = TRUE]

----------------------------------------------------------------------------
(* The account, the licence and the import.  Of the account's buttons only *)
(* the flag of the one last pressed is up, and any that ends clears it.    *)
action ==
  [Handler EXCEPT !.on = {"account"}, !.alone = TRUE, !.ok = <<"loadThen">>]

profile  == [action EXCEPT !.key = "profile", !.once = TRUE]
password == [action EXCEPT !.key = "password", !.once = TRUE, !.does = "session"]
newToken == [action EXCEPT !.key = "token", !.once = TRUE, !.asks = TRUE]
share    == [action EXCEPT !.key = "share", !.once = TRUE]
unshare  == [action EXCEPT !.key = "unshare"]
leave    == [action EXCEPT !.key = "leave"]

activate ==
  [Handler EXCEPT !.on = {"license"}, !.key = "licence", !.once = TRUE, !.ok = <<"refreshThen">>]

sendFile ==
  [Handler EXCEPT !.on = {"import"}, !.key = "file", !.ok = <<"refresh">>]

(* The administrator's page.                                               *)
removeUser == [Handler EXCEPT !.on = {"admin"}, !.asks = TRUE, !.ok = <<"loadAll">>]

saveUser ==
  [Handler EXCEPT !.on = {"admin"}, !.window = "user", !.key = "user", !.once = TRUE,
     !.ok = <<"loadAll", "close">>]

grant    == [saveUser EXCEPT !.window = "licence", !.key = "licence"]
revoke   == grant
generate == [Handler EXCEPT !.on = {"admin"}, !.window = "keys", !.key = "keys", !.once = TRUE,
               !.does = "none", !.finds = TRUE]

HandlerOf == [
  purchasesArchive |-> purchasesArchive, purchasesRemove |-> purchasesRemove,
  supplierArchive |-> supplierArchive, supplierUnarchive |-> supplierUnarchive,
  supplierRemove |-> supplierRemove, deleteArchiveGroup |-> deleteArchiveGroup,
  suppliersRemove |-> suppliersRemove, saveProduct |-> saveProduct,
  checkDuplicate |-> checkDuplicate, saveSupplier |-> saveSupplier, submitQuick |-> submitQuick,
  saveBudget |-> saveBudget, saveItemField |-> saveItemField, clearPrice |-> clearPrice,
  moveToNext |-> moveToNext, restoreFromNext |-> restoreFromNext, trimToBudget |-> trimToBudget,
  priceSearch |-> priceSearch, profile |-> profile, password |-> password, newToken |-> newToken,
  share |-> share, unshare |-> unshare, leave |-> leave, activate |-> activate,
  sendFile |-> sendFile, removeUser |-> removeUser, saveUser |-> saveUser, grant |-> grant,
  revoke |-> revoke, generate |-> generate]

Handlers == DOMAIN HandlerOf

Changes(what) == what \in Handlers /\ HandlerOf[what].does # "none"
Gives(what)   == what = "load" \/ (what \in Handlers /\ HandlerOf[what].gives)

(* A request whose answer is shown and one that changes what is shown are  *)
(* under way together, or two whose answers are shown.                     *)
Crosses(t, what) ==
  \E i \in DOMAIN t.flight :
    LET other == t.flight[i].what IN
    \/ Gives(what) /\ (Gives(other) \/ Changes(other))
    \/ Changes(what) /\ Gives(other)

Ask(t, what, arg, heard) ==
  Send([t EXCEPT !.view.crossed = @ \/ Crosses(t, what)], what, arg, heard)

----------------------------------------------------------------------------
(* Buttons.                                                                *)
Key(what, row) == IF HandlerOf[what].key = "row" THEN row ELSE HandlerOf[what].key

Raised(busy, what, row) ==
  LET h == HandlerOf[what] IN
  IF h.key = "" THEN busy ELSE (IF h.alone THEN {} ELSE busy) \cup {Key(what, row)}

Lowered(busy, what, row) ==
  LET h == HandlerOf[what] IN
  IF h.alone THEN {} ELSE busy \ {Key(what, row)}

(* The page is there, and it has its data.                                 *)
Ready(v) == v.page # None /\ ~v.error
Shown(v) == v.data \notin {None, Bare}

(* The purchases' window has no supplier to choose before the data comes.  *)
InWindow(what, row, v) ==
  /\ v.modal # None /\ v.modal.kind = HandlerOf[what].window /\ row = v.modal.row
  /\ what = "saveProduct" /\ v.page = "purchases" => Shown(v)

InPage(what, row, v) ==
  /\ v.modal = None
  /\ v.page \in {"license", "import"} \/ Shown(v)
  /\ IF HandlerOf[what].from = {} THEN row = None
     ELSE row \in Items /\ v.data.row[row] \in HandlerOf[what].from

Offers(what, row) ==
  LET h == HandlerOf[what]
      v == tab.view
  IN  /\ Ready(v) /\ tab.dialog = None
      /\ v.page \in h.on
      /\ h.once => Key(what, row) \notin v.busy
      /\ IF h.window # "" THEN InWindow(what, row, v) ELSE InPage(what, row, v)

(* Faulty variant: the counter goes below nothing.                         *)
CountedBelow(t, what) ==
  LET h == HandlerOf[what] IN
  CASE h.shows # None /\ h.does = "archived" -> [t EXCEPT !.count = @ - 1]
    [] h.shows # None /\ h.does = "active"   -> [t EXCEPT !.count = @ + 1]
    [] OTHER -> t

(* The counter of the menu.                                                *)
Counted(t, what) ==
  LET h == HandlerOf[what] IN
  CASE h.shows # None /\ h.does = "archived" -> [t EXCEPT !.count = IF @ = 0 THEN 0 ELSE @ - 1]
    [] h.shows # None /\ h.does = "active"   -> [t EXCEPT !.count = @ + 1]
    [] OTHER -> t

(* A handler up to its request.                                            *)
Begun(t, what, row) ==
  LET h      == HandlerOf[what]
      raised == [t EXCEPT !.view.busy = Raised(@, what, row),
                          !.view.found = IF h.finds THEN None ELSE @]
      shown  == IF h.shows = None \/ ~Shown(t.view) THEN raised
                ELSE [raised EXCEPT !.view.data.row[row] = h.shows]
  IN  Ask(Counted(shown, what), what,
          [NoArg EXCEPT !.page = t.view.page, !.row = row, !.of = t.view.of], TRUE)

Click(what, row) ==
  /\ Offers(what, row)
  /\ Spend("clicks")
  /\ tab' = IF HandlerOf[what].asks
            THEN [tab EXCEPT !.dialog = [what |-> what, page |-> tab.view.page, row |-> row,
                                      of |-> tab.view.of, heard |-> TRUE]]
            ELSE Begun(tab, what, row)
  /\ UNCHANGED server

(* The question outlives the page that asked it.                           *)
Confirm(yes) ==
  /\ tab.dialog # None
  /\ LET d == tab.dialog
         t == [tab EXCEPT !.dialog = None]
     IN  tab' = IF ~yes THEN t
                ELSE IF d.heard THEN Begun(t, d.what, d.row)
                ELSE Send([t EXCEPT !.view.crossed = TRUE], d.what,
                          [NoArg EXCEPT !.page = d.page, !.row = d.row, !.of = d.of], FALSE)
  /\ UNCHANGED <<server, left>>

----------------------------------------------------------------------------
(* Answers.                                                                *)
SendLoad(t, r, of, then) ==
  Ask(t, "load", [NoArg EXCEPT !.page = r.arg.page, !.of = of, !.then = then], r.heard)

FollowUp(t, r, f) ==
  CASE f = "load"        -> SendLoad(t, r, r.arg.of, None)
    [] f = "loadAll"     -> SendLoad(t, r, "", None)
    [] f = "loadThen"    -> SendLoad(t, r, r.arg.of, r.what)
    [] f = "refresh"     -> refresh(t, None)
    [] f = "refreshThen" -> refresh(t, r.what)
    [] f = "close"       -> IF r.heard THEN [t EXCEPT !.view.modal = None] ELSE t

(* A handler makes three calls at most.                                    *)
Called(t, r, calls, k) == IF k \in DOMAIN calls THEN FollowUp(t, r, calls[k]) ELSE t

Awaits(calls) == \E k \in DOMAIN calls : calls[k] \in {"loadThen", "refreshThen"}

(* The server did it and the page, told of an error, does not ask again.   *)
Unnoticed(r, a) ==
  /\ a.status = "lost" /\ r.at = "served" /\ r.answer.status = "ok"
  /\ Changes(r.what) /\ \A k \in DOMAIN HandlerOf[r.what].err : HandlerOf[r.what].err[k] # "load"

(* The estimate and its window of prices found are drawn from whatever the *)
(* answer was, and throw if that has no fields.                            *)
Breaks(r, a) ==
  a.status = "garbled" /\ (HandlerOf[r.what].gives \/ r.what = "priceSearch")

(* The rest of a handler after its request.                                *)
HandlerEnds(i, a) ==
  LET r     == tab.flight[i]
      h     == HandlerOf[r.what]
      good  == a.status \in {"ok", "garbled"}
      calls == IF good THEN h.ok ELSE h.err
      got   == Received(tab, i, a)
      t     == IF a.status = "unauth" THEN onUnauth(got) ELSE got
      v     == [t.view EXCEPT
                 !.busy    = IF Awaits(calls) THEN @ ELSE Lowered(@, r.what, r.arg.row),
                 !.data    = IF good /\ h.gives THEN a.data ELSE @,
                 !.found   = IF good /\ h.finds THEN r.arg.row ELSE @,
                 !.crossed = @ \/ Unnoticed(r, a) \/ (r.what = "clearPrice" /\ r.arg.of # "")]
      seen  == IF ~r.heard THEN t
               ELSE IF Breaks(r, a) THEN Crashed(t) ELSE [t EXCEPT !.view = v]
  IN  Becomes(Called(Called(Called(seen, r, calls, 1), r, calls, 2), r, calls, 3))

(* What waited for a page's data or for the user goes on.                  *)
Resumed(t, r, then, good) ==
  LET rested == IF r.heard /\ then # None
                THEN [t EXCEPT !.view.busy = IF then = "more" THEN @ \ {"more"}
                                             ELSE Lowered(@, then, None)] ELSE t
  IN  IF then \in Handlers /\ HandlerOf[then].on = {"account"} /\ good
      THEN refresh(rested, None) ELSE rested

ActiveIn(data) == {p \in Items : data.row[p] = "active"}

(* The pages that show an answer without fields, as none at all; the other *)
(* ones throw while they are drawn.                                        *)
Lenient == {"dashboard", "suppliers", "admin"}

(* More users are put after those there.                                   *)
Appends(r, old) == r.arg.upto > 1 /\ old # None

Throws(r, a, old) ==
  IF a.status = "garbled" THEN r.arg.page \notin Lenient \/ Appends(r, old)
  ELSE a.status = "ok" /\ Appends(r, old) /\ old = Bare

(* An answer becomes the page's data, if it has fields or none.            *)
Taken(r, a, old) ==
  CASE a.status = "garbled" -> Bare
    [] a.status = "ok" /\ Appends(r, old) ->
         [a.data EXCEPT !.edits = IF old.edits < @ THEN old.edits ELSE @]
    [] OTHER -> a.data

UptoOf(data) == IF data \in {None, Bare} THEN 0 ELSE data.upto

(* A failure leaves what is shown.  A change of the page's number starts   *)
(* the administrator's timer again.                                        *)
Read(t, r, a) ==
  LET old == t.view.data
      new == Taken(r, a, old)
  IN  IF a.status \notin {"ok", "garbled"} THEN [t EXCEPT !.view.crossed = TRUE]
      ELSE IF Throws(r, a, old) THEN Crashed(t)
      ELSE [t EXCEPT !.view.data = new,
                     !.view.wait = @ \/ (r.arg.page = "admin" /\ UptoOf(old) # UptoOf(new))]

(* The counter is set even when the page has gone.                         *)
CountedBy(t, r, a) ==
  CASE a.status = "ok" /\ r.arg.page \in {"dashboard", "purchases"} ->
         [t EXCEPT !.count = Cardinality(ActiveIn(a.data))]
    [] a.status = "garbled" /\ r.arg.page = "dashboard" -> [t EXCEPT !.count = 0]
    [] OTHER -> t

LoadEnds(i, a) ==
  LET r    == tab.flight[i]
      got  == Received(tab, i, a)
      t    == IF a.status = "unauth" THEN onUnauth(got) ELSE got
      seen == IF r.heard THEN Read(t, r, a) ELSE t
  IN  Becomes(Resumed(CountedBy(seen, r, a), r, r.arg.then, a.status # "garbled"))

RefreshEnds(i, a) ==
  LET r == tab.flight[i] IN Becomes(Resumed(Refreshed(i, a), r, r.arg.then, TRUE))

SearchEnds(i, a) ==
  LET r   == tab.flight[i]
      got == Received(tab, i, a)
      t   == IF a.status = "unauth" THEN onUnauth(got) ELSE got
  IN  Becomes(IF ~r.heard THEN t
              ELSE IF a.status = "garbled" THEN Crashed(t)
              ELSE [t EXCEPT !.view.data = a.data, !.view.loading = FALSE])

----------------------------------------------------------------------------
(* Fields, timers, windows and the menu.                                   *)
(* Faulty variant: what was asked for the earlier term is still heard.     *)
searchTypedUncancelled(t, q) ==
  LET bare == [t EXCEPT !.view.of = q] IN
  IF q \in Long THEN [bare EXCEPT !.view.loading = TRUE, !.view.wait = TRUE]
  ELSE [bare EXCEPT !.view.data = None, !.view.wait = FALSE]

searchTyped(t, q) ==
  LET bare == [Deafen(t, {"search"}) EXCEPT !.view.of = q] IN
  IF q \in Long THEN [bare EXCEPT !.view.loading = TRUE, !.view.wait = TRUE]
  ELSE [bare EXCEPT !.view.data = None, !.view.wait = FALSE]

adminTyped(t, q) == [t EXCEPT !.view.of = q, !.view.wait = TRUE]

estimateChosen(t, of) ==
  Ask([t EXCEPT !.view.of = of], "load", [NoArg EXCEPT !.page = "estimate", !.of = of], TRUE)

Typed(q) ==
  /\ Ready(tab.view) /\ q # tab.view.of
  /\ tab.view.page = "estimate" => Shown(tab.view)
  /\ tab.view.modal = None /\ tab.dialog = None
  /\ Spend("clicks")
  /\ \/ tab.view.page = "search"   /\ tab' = searchTyped(tab, q)
     \/ tab.view.page = "admin"    /\ tab' = adminTyped(tab, q)
     \/ tab.view.page = "estimate" /\ tab' = estimateChosen(tab, q)
  /\ UNCHANGED server

Debounced ==
  /\ tab.view.wait
  /\ LET t == [tab EXCEPT !.view.wait = FALSE] IN
     tab' = IF t.view.page = "search" THEN Send(t, "search", [NoArg EXCEPT !.of = t.view.of], TRUE)
            ELSE Ask(t, "load", [NoArg EXCEPT !.page = "admin", !.of = t.view.of], TRUE)
  /\ UNCHANGED <<server, left>>

loadMore ==
  /\ tab.view.page = "admin" /\ Shown(tab.view) /\ "more" \notin tab.view.busy
  /\ tab.view.modal = None /\ tab.dialog = None
  /\ Spend("clicks")
  /\ tab' = Ask([tab EXCEPT !.view.busy = @ \cup {"more"}], "load",
                [NoArg EXCEPT !.page = "admin", !.of = tab.view.of, !.then = "more",
                              !.upto = tab.view.data.upto + 1], TRUE)
  /\ UNCHANGED server

(* The windows for something new are there before the page has its data.   *)
Windows(v) ==
  LET listed == IF Shown(v) THEN ActiveIn(v.data) ELSE {} IN
  CASE v.page = "suppliers" -> {[kind |-> "supplier", row |-> None]}
    [] v.page \in {"purchases", "supplier"} ->
         {[kind |-> "product", row |-> p] : p \in {None} \cup listed}
    [] v.page = "estimate" -> {[kind |-> "price", row |-> p] : p \in listed}
    [] v.page = "admin" -> {[kind |-> k, row |-> None] :
                              k \in {"keys"} \cup (IF Shown(v) THEN {"user", "licence"} ELSE {})}
    [] OTHER -> {}

OpenWindow ==
  /\ Ready(tab.view) /\ tab.view.modal = None /\ tab.dialog = None
  /\ \E w \in Windows(tab.view) : tab' = [tab EXCEPT !.view.modal = w, !.view.found = None]
  /\ Spend("clicks") /\ UNCHANGED server

CloseWindow ==
  /\ tab.view.modal # None
  /\ tab' = [tab EXCEPT !.view.modal = None]
  /\ Spend("clicks") /\ UNCHANGED server

(* A price found is taken for the product of the window.                   *)
Pick ==
  /\ tab.view.modal # None /\ tab.view.modal.kind = "price" /\ tab.view.found # None
  /\ Spend("clicks")
  /\ tab' = Begun([tab EXCEPT !.view.modal = None], "saveItemField", tab.view.modal.row)
  /\ UNCHANGED server

(* The card of the error boundary: again, or to the start by a page load.  *)
Retry ==
  /\ Screen(tab) = "app" /\ tab.view.error /\ tab.dialog = None
  /\ Spend("clicks")
  /\ tab' = OpenPage(tab, tab.view.page) \/ tab' = Reloaded([tab EXCEPT !.address = "dashboard"])
  /\ UNCHANGED server

Navigate(p) ==
  /\ Screen(tab) = "app" /\ p # tab.view.page /\ tab.dialog = None
  /\ Spend("moves")
  /\ tab' = OpenPage(tab, p)
  /\ UNCHANGED server

----------------------------------------------------------------------------
(* The server's side of the pages.                                         *)
(* Each page's answer holds some of the products: those in these states.   *)
Only(s, states) == [p \in Items |-> IF s.row[p] \in states THEN s.row[p] ELSE "gone"]

DashboardRows(s) == Only(s, {"active"})                \* the recent ones
PurchasesRows(s) == Only(s, {"active"})
SupplierRows(s)  == Only(s, {"active", "archived"})    \* the archived ones by date
SuppliersRows(s) == Only(s, {})                        \* counted only
EstimateRows(s)  == Only(s, {"active"})
SearchRows(s)    == Only(s, {"active", "archived"})
AccountRows(s)   == Only(s, {})
UsersRows(s)     == Only(s, {})

RowsFor(page, s) ==
  CASE page = "dashboard" -> DashboardRows(s)
    [] page = "purchases" -> PurchasesRows(s)
    [] page = "supplier"  -> SupplierRows(s)
    [] page = "suppliers" -> SuppliersRows(s)
    [] page = "estimate"  -> EstimateRows(s)
    [] page = "account"   -> AccountRows(s)
    [] page = "admin"     -> UsersRows(s)
    [] OTHER              -> SearchRows(s)

Data(s, r) ==
  IF Gives(r.what) \/ r.what = "search"
  THEN [of |-> r.arg.of, upto |-> r.arg.upto, row |-> RowsFor(r.arg.page, s), edits |-> s.edits]
  ELSE None

(* What the server may make of a handler's request.                        *)
Done(what, p) ==
  LET does == HandlerOf[what].does IN
  CASE does \in {"archived", "active", "gone"} ->
         IF server.row[p] = "gone" THEN {} ELSE {[server EXCEPT !.row[p] = does]}
    [] does = "group" ->
         {[server EXCEPT !.row = [q \in Items |-> IF @[q] = "archived" THEN "gone" ELSE @[q]]]}
    [] does = "edit" -> {[server EXCEPT !.edits = @ + 1]}
    [] does = "none" -> {server}
    [] OTHER -> {}

ServePage(i) ==
  LET r == tab.flight[i] IN
  /\ r.at = "sent" /\ r.what \in Handlers \cup {"load", "search"}
  /\ IF ~Valid(r.token) THEN Answered(i, Answer("unauth")) /\ UNCHANGED server
     ELSE \/ /\ r.what \in {"load", "search"}
             /\ Answered(i, [Answer("ok") EXCEPT !.data = Data(server, r)])
             /\ UNCHANGED server
          \/ r.what \in Handlers /\ Answered(i, Answer("refused")) /\ UNCHANGED server
          \/ /\ r.what \in Handlers
             /\ \E s \in Done(r.what, r.arg.row) :
                  server' = s /\ Answered(i, [Answer("ok") EXCEPT !.data = Data(s, r)])
          \/ /\ r.what = "password"
             /\ LET u == r.token.user IN
                /\ server' = [server EXCEPT !.epoch[u] = @ + 1]
                /\ Answered(i, [Answer("ok") EXCEPT
                                  !.token = [user |-> u, epoch |-> server.epoch[u] + 1]])
  /\ UNCHANGED left

PageEnds(i, a) ==
  LET what == tab.flight[i].what IN
  \/ what \in Handlers  /\ HandlerEnds(i, a)
  \/ what = "load"      /\ LoadEnds(i, a)
  \/ what = "search"    /\ SearchEnds(i, a)

PageClick ==
  \/ \E what \in Handlers, row \in Items \cup {None} : Click(what, row)
  \/ \E q \in Terms : Typed(q)
  \/ \E p \in Menu : Navigate(p)
  \/ loadMore \/ OpenWindow \/ CloseWindow \/ Pick \/ Retry

----------------------------------------------------------------------------
(* A page at rest: it has its data, nothing of it is under way, no timer   *)
(* runs and nothing crossed.  A page whose last answer came cut short has  *)
(* no data until it has asked again.                                       *)
AtRest(t) ==
  /\ Shown(t.view) /\ ~t.view.wait /\ ~t.view.crossed
  /\ \A i \in DOMAIN t.flight : ~Gives(t.flight[i].what) /\ ~Changes(t.flight[i].what)

Agrees(t) ==
  LET v == t.view IN
  CASE v.page = "purchases" -> /\ ActiveIn(v.data) = ActiveIn(server)
                               /\ v.data.edits = server.edits
                               /\ t.count = Cardinality(ActiveIn(server))
    [] v.page = "supplier"  -> v.data.row = server.row /\ v.data.edits = server.edits
    [] v.page = "estimate"  -> v.data.edits = server.edits /\ v.data.of = v.of
    [] v.page = "dashboard" -> /\ ActiveIn(v.data) = ActiveIn(server)
                               /\ v.data.edits = server.edits
                               /\ t.count = Cardinality(ActiveIn(server))
    [] v.page \in {"suppliers", "account", "admin"} -> v.data.edits = server.edits
    [] OTHER -> TRUE
=============================================================================
