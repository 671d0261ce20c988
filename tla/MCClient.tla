------------------------------ MODULE MCClient ------------------------------
(* Tabs opened on one page each.  On the pages two clicks let two requests *)
(* overlap, with one fault among them; the support window, the sign-in     *)
(* page and the end of a session elsewhere are met on pages with little    *)
(* else on them.                                                           *)
EXTENDS Client

CONSTANTS ann, bob

Two == {ann, bob}
TokenOf(u) == [user |-> u, epoch |-> 0]
TabOf(u, p) == Loaded(TokenOf(u), TokenOf(u), p)

Nothing == [clicks |-> 0, chats |-> 0, moves |-> 0, signs |-> 0, faults |-> 0, ends |-> 0]

OnPages == {[tab  |-> TabOf(ann, p),
             left |-> [Nothing EXCEPT !.clicks = 2, !.faults = 1]] :
              p \in (Loading \ {"account"}) \cup {"search", "admin", "license", "import"}}

OnPrices  == [tab |-> PricesOpen(TokenOf(ann), "tea"), left |-> [Nothing EXCEPT !.clicks = 2, !.faults = 1]]

OnAccount  == [tab |-> TabOf(ann, "account"), left |-> [Nothing EXCEPT !.clicks = 2, !.ends = 1]]
OnSignIn   == [tab |-> Loaded(None, None, "license"), left |-> [Nothing EXCEPT !.signs = 4, !.faults = 1]]
OnSupport  == [tab |-> TabOf(ann, "import"), left |-> [Nothing EXCEPT !.chats = 3, !.faults = 1, !.ends = 1]]
OnSwitch   == [tab |-> TabOf(ann, "license"),
               left |-> [Nothing EXCEPT !.moves = 1, !.signs = 2, !.faults = 1, !.ends = 1]]

(* For late_refresh: a page with a refresh of its own.                     *)
OnRefused == {[tab |-> TabOf(ann, "suppliers"), left |-> [Nothing EXCEPT !.clicks = 1, !.ends = 1]]}

MCStarts == OnPages \cup {OnPrices, OnAccount, OnSignIn, OnSupport, OnSwitch}
=============================================================================
