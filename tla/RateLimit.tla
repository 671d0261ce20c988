----------------------------- MODULE RateLimit -----------------------------
(***************************************************************************)
(* The attempts one worker counts in its memory (server/lib/auth.js, from  *)
(* `buckets' to its sweep), and the handlers that ask it: sign-up, resend  *)
(* and the two AI routes check and count in one step; sign-in looks, waits *)
(* for scrypt, and counts afterwards (server/routes/auth.js).              *)
(*                                                                         *)
(* Time is relative: a slot holds what is left of its window, -1 when the  *)
(* window is over, so that no clock runs away.                             *)
(***************************************************************************)
EXTENDS Maps, Sequences

CONSTANTS
  Keys,         \* what is counted: a purpose with an address, user or e-mail
  Routes,       \* requests that check, see RouteType
  Logins,       \* sign-ins: the key of the address and that of the name
  Guards,       \* sign-ins in flight
  WINDOW,       \* length of a window, in ticks of the clock
  MAX_BUCKETS

(* checks: the keys a request checks in order, each with its limit.  then: *)
(* what follows when all let it through.                                   *)
RouteType ==
  [checks: Seq(Keys \X (Nat \ {0})), then: {"mail", "verify", "chat", "search"}]

LIMIT_IP == 3     \* stands for 10 failures from an address
LIMIT_NAME == 2   \* stands for 6 failures on a name

Limits == UNION {{r.checks[i] : i \in DOMAIN r.checks} : r \in Routes}

(* A key begins with its purpose, so that a route has two keys at most,    *)
(* which differ, and a key has one limit, whoever checks it.               *)
ASSUME RateAssumption ==
  /\ WINDOW \in Nat /\ MAX_BUCKETS \in Nat /\ IsFiniteSet(Guards)
  /\ Routes \subseteq RouteType /\ Logins \subseteq [ip: Keys, name: Keys]
  /\ \A r \in Routes : Len(r.checks) <= 2 /\ (Len(r.checks) = 2 => r.checks[1] # r.checks[2])
  /\ \A c, d \in Limits : c[1] = d[1] => c = d
  /\ \A l, k \in Logins : l.ip # k.name /\ \A c \in Limits : c[1] \notin {l.ip, k.name}

VARIABLES
  bucket,   \* buckets: a Map of keys to [count, left]
  guess,    \* sign-ins waiting for scrypt: the keys they will count on
  recent,   \* key -> n -> attempts let through in this tick and n before it
  evicted   \* keys the cap on buckets has thrown out

rateVars == <<bucket, guess, recent, evicted>>

----------------------------------------------------------------------------
(* The functions of auth.js, on a value of `buckets'.                      *)

(* A slot whose window is not over.                                        *)
Counting(b, key) == key \in DOMAIN b /\ b[key].value.left >= 0

(* recordAttempt: a slot whose window is over begins a new one in place.   *)
Record(b, key) ==
  LET slot == b[key].value IN
  MapSet(b, key, IF Counting(b, key) THEN [count |-> slot.count + 1, left |-> slot.left]
                                     ELSE [count |-> 1, left |-> WINDOW])

(* isThrottled: the count of a window not over, and deletes one that is.   *)
Count(b, key) == IF Counting(b, key) THEN b[key].value.count ELSE 0
Looked(b, key) == IF Counting(b, key) THEN b ELSE MapDelete(b, {key})

(* Faulty variant: the limit itself is still let through.                  *)
RateCheckLate(so, check) ==
  LET key == check[1] IN
  IF ~so.ok THEN so
  ELSE IF Count(so.b, key) > check[2] THEN [so EXCEPT !.ok = FALSE, !.b = Looked(so.b, key)]
  ELSE [ok |-> TRUE, b |-> Record(Looked(so.b, key), key), passed |-> so.passed \cup {key}]

(* rateCheck, unless one before it, joined by ||, has refused: counts only *)
(* what it lets through.                                                   *)
RateCheck(so, check) ==
  LET key == check[1] IN
  IF ~so.ok THEN so
  ELSE IF Count(so.b, key) >= check[2] THEN [so EXCEPT !.ok = FALSE, !.b = Looked(so.b, key)]
  ELSE [ok |-> TRUE, b |-> Record(Looked(so.b, key), key), passed |-> so.passed \cup {key}]

(* The checks of a request: what earlier ones counted stays counted.       *)
CheckAll(b, checks) ==
  LET none == [ok |-> TRUE, b |-> b, passed |-> {}]
      one == RateCheck(none, checks[1])
  IN CASE Len(checks) = 0 -> none
       [] Len(checks) = 1 -> one
       [] OTHER -> RateCheck(one, checks[2])

Note(keys) ==
  [k \in Keys |-> [n \in 0..WINDOW |->
     IF k \in keys \ evicted THEN recent[k][n] + 1 ELSE recent[k][n]]]
Forget(keys) == [k \in Keys |-> IF k \in keys THEN [n \in 0..WINDOW |-> 0] ELSE recent[k]]

----------------------------------------------------------------------------
(* Requests                                                                *)

(* A handler that begins with rateCheck; passed: whether it goes on.       *)
Check(r, passed) ==
  LET result == CheckAll(bucket, r.checks) IN
  /\ passed = result.ok
  /\ bucket' = result.b
  /\ recent' = Note(result.passed)
  /\ UNCHANGED <<guess, evicted>>

(* verify-email with the right code: counted, then cleared.                *)
CheckAndClear(r) ==
  LET keys == {r.checks[i][1] : i \in DOMAIN r.checks} IN
  /\ CheckAll(bucket, r.checks).ok
  /\ bucket' = MapDelete(bucket, keys)
  /\ recent' = Forget(keys)
  /\ evicted' = evicted \ keys
  /\ UNCHANGED guess

(* POST /login: looks at both keys, then awaits the hash.                  *)
LoginLook(s, l) ==
  /\ guess[s] = {}
  /\ bucket' = Looked(Looked(bucket, l.ip), l.name)
  /\ IF Count(bucket, l.ip) < LIMIT_IP /\ Count(bucket, l.name) < LIMIT_NAME
     THEN /\ guess' = [guess EXCEPT ![s] = {l.ip, l.name}]
          /\ recent' = Note({l.ip, l.name})
     ELSE UNCHANGED <<guess, recent>>
  /\ UNCHANGED evicted

(* Faulty variant: only the address is counted.                            *)
LoginFailsHalf(s, l) ==
  /\ guess[s] = {l.ip, l.name}
  /\ bucket' = Record(bucket, l.ip)
  /\ guess' = [guess EXCEPT ![s] = {}]
  /\ UNCHANGED <<recent, evicted>>

(* A wrong password, or no such user.                                      *)
LoginFails(s, l) ==
  /\ guess[s] = {l.ip, l.name}
  /\ bucket' = Record(Record(bucket, l.ip), l.name)
  /\ guess' = [guess EXCEPT ![s] = {}]
  /\ UNCHANGED <<recent, evicted>>

(* The right one: both keys are cleared.                                   *)
LoginWorks(s, l) ==
  /\ guess[s] = {l.ip, l.name}
  /\ bucket' = MapDelete(bucket, {l.ip, l.name})
  /\ guess' = [guess EXCEPT ![s] = {}]
  /\ recent' = Forget({l.ip, l.name})
  /\ evicted' = evicted \ {l.ip, l.name}

----------------------------------------------------------------------------
(* Time, and the sweep once a minute                                       *)

Shorter(slot) == [count |-> slot.count, left |-> IF slot.left < 0 THEN -1 ELSE slot.left - 1]

Tick ==
  /\ bucket' = [k \in DOMAIN bucket |->
                  [value |-> Shorter(bucket[k].value), older |-> bucket[k].older]]
  /\ recent' = [k \in Keys |-> [n \in 0..WINDOW |-> IF n = 0 THEN 0 ELSE recent[k][n - 1]]]
  /\ UNCHANGED <<guess, evicted>>

(* Windows that are over go; above the cap the first go too, over or not.  *)
Sweep ==
  LET live == MapDelete(bucket, {k \in DOMAIN bucket : ~Counting(bucket, k)})
      out == MapFirst(live, MapSize(live) - MAX_BUCKETS)
  IN /\ bucket' = MapDelete(live, out)
     /\ evicted' = evicted \cup out
     /\ recent' = Forget(out)
     /\ UNCHANGED guess

RateInit ==
  /\ bucket = EmptyMap /\ evicted = {}
  /\ guess = [s \in Guards |-> {}]
  /\ recent = [k \in Keys |-> [n \in 0..WINDOW |-> 0]]

----------------------------------------------------------------------------
(* Properties                                                              *)

RateTypeOK ==
  /\ IsMap(bucket)
  /\ DOMAIN bucket \subseteq Keys
  /\ \A k \in DOMAIN bucket : bucket[k].value \in [count: Nat \ {0}, left: -1..WINDOW]
  /\ guess \in [Guards -> SUBSET Keys] /\ evicted \subseteq Keys
  /\ recent \in [Keys -> [0..WINDOW -> Nat]]

(* Whatever moment is chosen as the beginning, a stretch as long as the    *)
(* window lets through twice the limit at most, once per window it         *)
(* touches, unless the cap on buckets threw the key out (rateCheck).       *)
RateHeld ==
  \A r \in Routes : \A i \in DOMAIN r.checks :
    r.checks[i][1] \notin evicted => recent[r.checks[i][1]][WINDOW] <= 2 * r.checks[i][2]

(* Passwords guessed for one name: sign-in counts only after its await, so *)
(* each of those in flight may go beyond the limit, and no more            *)
(* (isThrottled before the await, recordAttempt after it).                 *)
GuessesBounded ==
  \A l \in Logins : l.name \notin evicted =>
    recent[l.name][WINDOW] <= 2 * (LIMIT_NAME + Cardinality(Guards) - 1)
=============================================================================
