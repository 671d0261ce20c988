-------------------------------- MODULE Api --------------------------------
(* The requests of one browser tab (client/src/api.js): which token a      *)
(* request carries, how it may end, and what its end does to the tokens    *)
(* before the handler that awaits it goes on.                              *)
(*                                                                         *)
(* The tab is one record.  What the code does between two awaits is a      *)
(* function from tab to tab, named as in the code; an action of the model  *)
(* is one such stretch.  A token is its account and its generation: tokens *)
(* of the same two are accepted alike (server/lib/auth.js:222).            *)
EXTENDS Naturals, Sequences, SequencesExt, FiniteSets

CONSTANTS
  Users,     \* accounts that may sign in on this tab
  None,
  Bare,      \* what api.js makes of a good answer it cannot read: an object
             \* without the fields of the page's data
  CanStore   \* the browser lets the page keep a token beyond a reload

ASSUME ApiAssumption == CanStore \in BOOLEAN /\ None \notin Users /\ Bare # None

VARIABLES
  server,    \* epoch: the generation of each account's sessions; row and
             \* edits: what the pages show (module Pages)
  tab,       \* the state of the tab
  left       \* bounds: how often the user and the network may still act

Tokens == [user: Users, epoch: Nat]

(* attachUser: a token is worth something while its epoch is the row's.    *)
Valid(token) == token # None /\ token.epoch = server.epoch[token.user]

saveSessionToken(t, token) ==
  [t EXCEPT !.memory = token, !.stored = IF CanStore THEN token ELSE @]

(* localStorage, sessionStorage and the page's cookie are written together *)
(* and read in turn; they are one store here.                              *)
Held(t) == IF t.memory # None THEN t.memory ELSE t.stored

(* The server looks at the header first and at its own cookie only when    *)
(* there is none.                                                          *)
Carried(t) == IF Held(t) # None THEN Held(t) ELSE t.cookie

(* "heard": whoever sent the request still cares: its component is mounted *)
(* and, for a refresh or a search, no later one has taken its turn.        *)
Request(t, what, arg, heard) ==
  [what |-> what, arg |-> arg, token |-> Carried(t), at |-> "sent",
   answer |-> None, heard |-> heard]

Send(t, what, arg, heard) == [t EXCEPT !.flight = Append(@, Request(t, what, arg, heard))]

Unheard(r, kinds) == [r EXCEPT !.heard = @ /\ r.what \notin kinds]
Deafen(t, kinds) == [t EXCEPT !.flight = [i \in DOMAIN @ |-> Unheard(@[i], kinds)]]

(* An answer: its status, the user and the token it names, its data.       *)
Answer(status) == [status |-> status, user |-> None, token |-> None, data |-> None]
SessionFor(u) == [Answer("ok") EXCEPT !.user = u, !.token = [user |-> u, epoch |-> server.epoch[u]]]

(* No answer: no connection, or the timer of thirty seconds.               *)
Lost == Answer("lost")

(* The headers came and the body did not: it reads as an answer without    *)
(* fields, and with a good status nothing is thrown (api.js:124-143).      *)
Garbled(answer) == [answer EXCEPT !.status = "garbled", !.user = None, !.data = None]

(* The token in the body.                                                  *)
Named(a) == IF a.status = "ok" THEN a.token ELSE None

Answered(i, answer) ==
  tab' = [tab EXCEPT !.flight[i].at = "served", !.flight[i].answer = answer]

(* How request i can end now.  The timer runs until the headers are there; *)
(* a body that is slow after them has nobody waiting with a clock.         *)
Endings(i) ==
  LET r == tab.flight[i] IN
  (IF r.at = "sent" THEN {} ELSE {r.answer})
    \cup (IF r.at # "hung" /\ left.faults > 0 THEN {Lost} ELSE {})
    \cup (IF r.at # "sent" /\ left.faults > 0 /\ r.answer.status = "ok"
          THEN {Garbled(r.answer)} ELSE {})

(* What api.js and the browser do with the answer before the handler that  *)
(* awaited it goes on: cookies come with the headers, a token with the     *)
(* body, and a 401 throws the token held now away.                         *)
Received(t, i, a) ==
  LET rest    == [t EXCEPT !.flight = RemoveAt(@, i)]
      cookies == IF t.flight[i].what = "logout" /\ a.status # "lost"
                 THEN [rest EXCEPT !.cookie = None]
                 ELSE IF a.token # None THEN [rest EXCEPT !.cookie = a.token] ELSE rest
  IN  IF a.status = "unauth" THEN saveSessionToken(cookies, None)
      ELSE IF Named(a) # None THEN saveSessionToken(cookies, Named(a))
      ELSE cookies

Spend(what) == left[what] > 0 /\ left' = [left EXCEPT ![what] = @ - 1]
Spends(a) == IF a.status \in {"lost", "garbled"} THEN Spend("faults") ELSE UNCHANGED left

(* The headers have come, the body has not.                                *)
Hang(i) ==
  /\ tab.flight[i].at = "served"
  /\ Spend("faults")
  /\ tab' = [tab EXCEPT !.flight[i].at = "hung"]
  /\ UNCHANGED server

(* Elsewhere the account's password changes: its sessions end.             *)
SessionEnds(u) ==
  /\ Spend("ends")
  /\ server' = [server EXCEPT !.epoch[u] = @ + 1]
  /\ UNCHANGED tab
=============================================================================
