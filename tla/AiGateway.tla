----------------------------- MODULE AiGateway -----------------------------
(***************************************************************************)
(* Requests that wait for the AI gateway (server/lib/aiSupport.js and      *)
(* aiPriceSearch.js): the support chat, which falls back from one model to *)
(* the next, and the price search, which keeps to its model, calls a       *)
(* second time in two cases, fetches pictures, and keeps answers for a     *)
(* minute.  The gateway is external: any answer at any time, or none.      *)
(***************************************************************************)
EXTENDS Maps

CONSTANTS
  Waits,      \* requests in flight
  Queries,    \* what is searched for, with the job
  MODELS,     \* how many models are configured for the chat
  CACHE_MAX

ASSUME AiAssumption == MODELS \in Nat \ {0} /\ CACHE_MAX \in Nat \ {0}

VARIABLES
  wait,   \* what each request waits for
  cache   \* answers kept: a Map of queries, TRUE for a minute and then FALSE

aiVars == <<wait, cache>>

(* at: what the request awaits.  try: the number of the call.              *)
Idle == [kind |-> "none", query |-> {}, at |-> "none", try |-> 0]

(* What callOnce can throw: nothing heard until the timer, no connection,  *)
(* 400, another 4xx, 429, 5xx; a text that is empty since the tokens ran   *)
(* out, or empty otherwise.                                                *)
Errors == {"timeout", "network", "400", "4xx", "429", "5xx", "length", "empty"}
Retryable(e) == e \notin {"400", "4xx"}
Waiting == [kind: {"chat", "search"}, query: {{}} \cup {{q} : q \in Queries},
            at: {"headers", "body", "images"}, try: 1..(MODELS + 1)]

AiInit == wait = [a \in Waits |-> Idle] /\ cache = EmptyMap

----------------------------------------------------------------------------
(* The cache of searches                                                   *)

Stale(c, keys) == {q \in keys : ~c[q].value}

(* Beyond the maximum, stale entries go until four fifths are left; if     *)
(* that is not enough the first ones go, stale or not.                     *)
DropOld(c) ==
  MapDelete(c, {q \in Stale(c, DOMAIN c) :
                  5 * (MapSize(c) - Cardinality(Stale(c, c[q].older))) > 4 * CACHE_MAX})
DropFirst(c) == MapDelete(c, MapFirst(c, MapSize(c) - CACHE_MAX))

(* Faulty variant: only stale entries are ever dropped.                    *)
CacheSetLenient(c, q) ==
  LET set == MapSet(c, q, TRUE) IN IF MapSize(set) <= CACHE_MAX THEN set ELSE DropOld(set)

CacheSet(c, q) ==
  LET set == MapSet(c, q, TRUE)
  IN IF MapSize(set) <= CACHE_MAX THEN set ELSE DropFirst(DropOld(set))

Cached(q) == q \in DOMAIN cache /\ cache[q].value

(* A minute passes for an entry.                                           *)
AgeEntry(q) ==
  /\ Cached(q)
  /\ cache' = MapSet(cache, q, FALSE)
  /\ UNCHANGED wait

SweepCache ==
  /\ cache' = MapDelete(cache, Stale(cache, DOMAIN cache))
  /\ UNCHANGED wait

----------------------------------------------------------------------------
(* Requests.  Answering ends the request: the state keeps nothing of it.   *)

Call(kind, query, try) == [kind |-> kind, query |-> query, at |-> "headers", try |-> try]

(* supportChat, once the handler has found the message good.               *)
StartChat(a) ==
  /\ wait[a] = Idle
  /\ wait' = [wait EXCEPT ![a] = Call("chat", {}, 1)]
  /\ UNCHANGED cache

(* smartPriceSearch: an answer kept for less than a minute is given again. *)
StartSearch(a, q) ==
  /\ wait[a] = Idle
  /\ wait' = IF Cached(q) THEN wait ELSE [wait EXCEPT ![a] = Call("search", {q}, 1)]
  /\ UNCHANGED cache

(* The answer begins: the timer of callOnce is cleared before the body.    *)
Headers(a) ==
  /\ wait[a].at = "headers"
  /\ wait' = [wait EXCEPT ![a].at = "body"]
  /\ UNCHANGED cache

(* A call fails: the chat goes on to the next model if the error may pass; *)
(* a search is tried again once, without the plug-in after 400, with more  *)
(* tokens after an empty text.  Otherwise the error is the answer.         *)
CallFails(a, e) ==
  LET w == wait[a]
      again == \/ w.kind = "chat" /\ Retryable(e) /\ w.try < MODELS
               \/ w.kind = "search" /\ w.try = 1 /\ e \in {"400", "length"}
  IN /\ \/ w.at = "headers" /\ e \in {"timeout", "network"}
        \/ w.at = "body" /\ e \in Errors \ {"timeout", "network"}
     /\ wait' = [wait EXCEPT ![a] = IF again THEN Call(w.kind, w.query, w.try + 1) ELSE Idle]
     /\ UNCHANGED cache

(* Faulty variant: nothing aborts the call.                                *)
TimerNever(a) == FALSE /\ UNCHANGED aiVars

(* AbortController: the time of a call is over before the answer began.    *)
Timer(a) == CallFails(a, "timeout")

(* A text: the answer of the chat; in a search it may be unreadable or     *)
(* without prices, which ends it, or have prices, some without a picture.  *)
Text(a, prices, bare) ==
  LET w == wait[a] IN
  /\ w.at = "body"
  /\ IF w.kind = "search" /\ prices /\ bare
     THEN wait' = [wait EXCEPT ![a].at = "images"]
     ELSE wait' = [wait EXCEPT ![a] = Idle]
  /\ IF w.kind = "search" /\ prices /\ ~bare
     THEN \E q \in w.query : cache' = CacheSet(cache, q)
     ELSE UNCHANGED cache

(* Every picture has come, or its own time is over.                        *)
Images(a) ==
  /\ wait[a].at = "images"
  /\ wait' = [wait EXCEPT ![a] = Idle]
  /\ \E q \in wait[a].query : cache' = CacheSet(cache, q)

----------------------------------------------------------------------------
BodyEnds(a) ==
  \/ \E prices, bare \in BOOLEAN : Text(a, prices, bare)
  \/ wait[a].at = "body" /\ \E e \in Errors : CallFails(a, e)

GatewayStep(a) ==
  \/ Headers(a) \/ Timer(a) \/ CallFails(a, "network") \/ BodyEnds(a) \/ Images(a)

AiStep ==
  \/ \E a \in Waits : GatewayStep(a)
  \/ \E q \in Queries : AgeEntry(q)
  \/ SweepCache

(* callOnce has a timer until the answer begins; the client of HTTP that   *)
(* comes with node has one for a body that stalls; each picture has one.   *)
AiFairness ==
  \A a \in Waits :
    WF_aiVars(Timer(a)) /\ WF_aiVars(BodyEnds(a)) /\ WF_aiVars(Images(a))

----------------------------------------------------------------------------
(* Properties                                                              *)

AiTypeOK ==
  /\ wait \in [Waits -> Waiting \cup {Idle}]
  /\ IsMap(cache) /\ DOMAIN cache \subseteq Queries
  /\ \A q \in DOMAIN cache : cache[q].value \in BOOLEAN

(* However searches end in between, the cache holds no more than its       *)
(* maximum (cacheSet).                                                     *)
CacheHeld == MapSize(cache) <= CACHE_MAX

(* A request gets an answer or an error, whatever the gateway does, after  *)
(* at most one call per model, or two for a search (aiChatComplete).       *)
AllAnswered ==
  \A a \in Waits : wait[a].kind # "none" ~> wait[a].kind = "none"
=============================================================================
