------------------------------ MODULE Licensing ------------------------------
(***************************************************************************)
(* Licence keys (server/lib/licensing.js): what an administrator generates *)
(* (server/routes/admin.js, grant and generate-license) and what a user    *)
(* who enters a key gets for it (server/routes/account.js, license).       *)
(*                                                                         *)
(* A signature is the secret and the text signed: that twelve digits of an *)
(* HMAC may agree by chance is left out.  A duration is read as a text of  *)
(* one of four forms; a number of days is below the point where JavaScript *)
(* rounds it.  Prices, labels and tiers' letter case are left out.         *)
(***************************************************************************)
EXTENDS Naturals

CONSTANTS
  Idents,          \* user names and activation ids, as typed
  Lower,           \* normalizeIdent
  Secrets, CodeOf, \* getUserCode: secret -> ident -> activation id
  LICENSE_SECRET, LEGACY_SECRETS

(* Letter case matters to nothing but the candidates of verifyKey.  An     *)
(* activation id begins with LST, which lower case changes.                *)
WellFormed ==
  /\ Lower \in [Idents -> Idents] /\ \A i \in Idents : Lower[Lower[i]] = Lower[i]
  /\ CodeOf \in [Secrets -> [Idents -> Idents]]
  /\ \A s \in Secrets, i \in Idents : Lower[CodeOf[s][i]] # CodeOf[s][i]
  /\ LICENSE_SECRET \in Secrets /\ LEGACY_SECRETS \subseteq Secrets

Trusted == {LICENSE_SECRET} \cup LEGACY_SECRETS

----------------------------------------------------------------------------
(* Durations.  Days are {} for ever.                                       *)
(* D30, 30D, 30; "life" for LIFE and the like, nothing, and anything else. *)
Durations == [form: {"Dn", "nD", "n", "life"}, n: Nat]

LIFE == [form |-> "life", n |-> 0]

normalizeDuration(d) ==
  IF d.form = "Dn" \/ (d.form \in {"nD", "n"} /\ d.n > 0)
  THEN [code |-> [form |-> "nD", n |-> d.n], days |-> {d.n}]
  ELSE [code |-> LIFE, days |-> {}]

----------------------------------------------------------------------------
(* Keys.  The code of the period stands in the key and in the text signed; *)
(* the oldest keys have none.  A key for everybody names nobody.           *)
Key(secret, of, tier, period) ==
  [period |-> period, sig |-> [secret |-> secret, of |-> of, tier |-> tier, period |-> period]]

getUserCode(secret, ident) == CodeOf[secret][Lower[ident]]

(* By a program that runs with that secret.                                *)
generateKey(secret, ident, tier, duration) ==
  Key(secret, <<Lower[ident], getUserCode(secret, Lower[ident])>>, tier,
      {normalizeDuration(duration).code})

generateMasterKey(secret, tier, duration) ==
  Key(secret, <<>>, tier, {normalizeDuration(duration).code})

(* The administrator's form reads the duration, announces its days, and    *)
(* hands its code on, to be read again.                                    *)
announced(duration) == normalizeDuration(duration).days

issued(secret, ident, tier, duration) ==
  generateKey(secret, ident, tier, normalizeDuration(duration).code)

issuedMaster(secret, tier, duration) ==
  generateMasterKey(secret, tier, normalizeDuration(duration).code)

Tiers == {"PRO", "UNLIMITED", "ENTERPRISE"}
MasterTiers == {"UNLIMITED", "PRO"}

(* The keys verifyKey compares with: for each secret trusted, whom the key *)
(* may name and, for all of them, the activation id of the secret of now.  *)
Expected(user, period) ==
  {Key(s, <<c, getUserCode(LICENSE_SECRET, c)>>, t, period) :
     s \in Trusted, c \in {Lower[user], getUserCode(LICENSE_SECRET, Lower[user])}, t \in Tiers}
  \cup {Key(s, <<>>, t, period) : s \in Trusted, t \in MasterTiers}

(* The code in the key is read as a duration; the code of that is compared. *)
Read(key) ==
  IF key.period = {} THEN [period |-> {}, days |-> {}]
  ELSE LET d == normalizeDuration(CHOOSE p \in key.period : TRUE)
       IN  [period |-> {d.code}, days |-> d.days]

Valid(user, key) == key \in Expected(user, Read(key).period)
Days(key) == Read(key).days
=============================================================================
