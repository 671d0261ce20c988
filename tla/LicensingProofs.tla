-------------------------- MODULE LicensingProofs --------------------------
(* What each kind of key is worth to whom it was made for.                 *)
EXTENDS Licensing, TLAPS

(* The one duration read differently when read again: D0 is written 0D,    *)
(* which is for ever.                                                      *)
Readable(d) == d.form = "Dn" => d.n > 0

(* The code of a duration is read as that duration.                        *)
LEMMA ReadAgain ==
  ASSUME NEW d \in Durations, Readable(d)
  PROVE  normalizeDuration(normalizeDuration(d).code) = normalizeDuration(d)
BY DEF normalizeDuration, Durations, Readable, LIFE

(* What stands in an issued key is read as what was announced.             *)
LEMMA ReadBack ==
  ASSUME NEW d \in Durations, Readable(d), NEW secret, NEW of, NEW tier,
         NEW key, key = Key(secret, of, tier, {normalizeDuration(normalizeDuration(d).code).code})
  PROVE  Read(key) = [period |-> {normalizeDuration(d).code}, days |-> announced(d)]
<1> DEFINE code == normalizeDuration(d).code
<1>1. key.period = {code}
  BY ReadAgain DEF Key
<1>2. (CHOOSE p \in key.period : TRUE) = code
  BY <1>1
<1>3. Read(key) = [period |-> {normalizeDuration(code).code}, days |-> normalizeDuration(code).days]
  <2> HIDE DEF code
  <2> QED  BY <1>1, <1>2 DEF Read
<1> QED
  BY <1>3, ReadAgain DEF announced

(* A key issued to a user, under his name in any letter case, gives him    *)
(* the days announced (licensing.js:139-146, 184-190, admin.js:307-321).   *)
THEOREM NamedKeysWork ==
  ASSUME WellFormed, NEW user \in Idents, NEW as \in Idents, Lower[as] = Lower[user],
         NEW tier \in Tiers, NEW d \in Durations, Readable(d),
         NEW key, key = issued(LICENSE_SECRET, as, tier, d)
  PROVE  Valid(user, key) /\ Days(key) = announced(d)
<1> DEFINE period == {normalizeDuration(d).code}
<1>1. key = Key(LICENSE_SECRET, <<Lower[user], getUserCode(LICENSE_SECRET, Lower[user])>>, tier,
                {normalizeDuration(normalizeDuration(d).code).code})
  BY DEF issued, generateKey
<1>2. Read(key) = [period |-> period, days |-> announced(d)]
  <2> HIDE DEF period
  <2> QED  BY <1>1, ReadBack DEF period
<1>3. key = Key(LICENSE_SECRET, <<Lower[user], getUserCode(LICENSE_SECRET, Lower[user])>>, tier, period)
  BY <1>1, ReadAgain
<1> HIDE DEF period
<1>4. key \in Expected(user, period)
  BY <1>3 DEF Expected, Trusted
<1>5. Read(key).period = period /\ Read(key).days = announced(d)
  BY <1>2
<1> QED
  BY <1>4, <1>5 DEF Valid, Days

(* A key for everybody works for everybody, and goes on doing so after the *)
(* secret has been changed, in the two tiers verifyKey tries               *)
(* (licensing.js:149-154, 193-196).                                        *)
THEOREM MasterKeysWork ==
  ASSUME NEW user, NEW secret \in Trusted,
         NEW tier \in MasterTiers, NEW d \in Durations, Readable(d),
         NEW key, key = issuedMaster(secret, tier, d)
  PROVE  Valid(user, key) /\ Days(key) = announced(d)
<1> DEFINE period == {normalizeDuration(d).code}
<1>1. key = Key(secret, <<>>, tier, {normalizeDuration(normalizeDuration(d).code).code})
  BY DEF issuedMaster, generateMasterKey
<1>2. Read(key) = [period |-> period, days |-> announced(d)]
  <2> HIDE DEF period
  <2> QED  BY <1>1, ReadBack DEF period
<1>3. key = Key(secret, <<>>, tier, period)
  BY <1>1, ReadAgain
<1> HIDE DEF period
<1>4. key \in Expected(user, period)
  BY <1>3 DEF Expected
<1>5. Read(key).period = period /\ Read(key).days = announced(d)
  BY <1>2
<1> QED
  BY <1>4, <1>5 DEF Valid, Days

(* What a key that is accepted names.                                      *)
LEMMA Names ==
  ASSUME NEW user, NEW secret, NEW of, NEW tier, NEW period,
         Valid(user, Key(secret, of, tier, period))
  PROVE  \/ of = <<>> /\ tier \in MasterTiers
         \/ \E c \in {Lower[user], getUserCode(LICENSE_SECRET, Lower[user])} :
              of = <<c, getUserCode(LICENSE_SECRET, c)>>
<1> DEFINE key == Key(secret, of, tier, period)
           read == Read(key).period
<1>1. key \in Expected(user, read)
  BY DEF Valid
<1>2. key.sig.of = of /\ key.sig.tier = tier
  BY DEF Key
<1> HIDE DEF key, read
<1>3. CASE \E s \in Trusted, t \in MasterTiers : key = Key(s, <<>>, t, read)
  BY <1>2, <1>3 DEF Key
<1>4. CASE \E s \in Trusted, c \in {Lower[user], getUserCode(LICENSE_SECRET, Lower[user])}, t \in Tiers :
             key = Key(s, <<c, getUserCode(LICENSE_SECRET, c)>>, t, read)
  BY <1>2, <1>4 DEF Key
<1> QED
  BY <1>1, <1>3, <1>4 DEF Expected

(* A key made for a user's activation id, which the page shows him as      *)
(* needed when he buys (client/src/pages/License.jsx:203) and the form of  *)
(* the administrator asks for (server/routes/admin.js:319), is refused,    *)
(* unless he has the id for a name: it was signed in lower case and is     *)
(* compared in upper case (licensing.js:140, 163, 186).                    *)
THEOREM IdKeysRefused ==
  ASSUME WellFormed, NEW user \in Idents, NEW tier, NEW d,
         Lower[CodeOf[LICENSE_SECRET][Lower[user]]] # Lower[user]
  PROVE  ~Valid(user, issued(LICENSE_SECRET, getUserCode(LICENSE_SECRET, user), tier, d))
<1> DEFINE id == CodeOf[LICENSE_SECRET][Lower[user]]
           of == <<Lower[id], getUserCode(LICENSE_SECRET, Lower[id])>>
           period == {normalizeDuration(normalizeDuration(d).code).code}
<1> SUFFICES ASSUME Valid(user, Key(LICENSE_SECRET, of, tier, period)) PROVE FALSE
  BY DEF issued, generateKey, getUserCode
<1>1. getUserCode(LICENSE_SECRET, Lower[user]) = id
  BY DEF WellFormed, getUserCode
<1>2. of # <<>>
  OBVIOUS
<1>3. PICK c \in {Lower[user], id} : of = <<c, getUserCode(LICENSE_SECRET, c)>>
  <2> HIDE DEF of, period, id
  <2> QED  BY Names, <1>1, <1>2
<1>4. Lower[id] = c
  BY <1>3
<1>5. Lower[id] # id
  BY DEF WellFormed
<1> QED
  BY <1>4, <1>5

(* A key made for a user under an earlier secret is refused, although that *)
(* secret is trusted: the activation id signed is that of the earlier      *)
(* secret, the one compared that of now (licensing.js:8, 111, 173).  Only  *)
(* if the two secrets begin alike are the ids the same.                    *)
THEOREM EarlierKeysRefused ==
  ASSUME WellFormed, NEW user \in Idents, NEW secret \in LEGACY_SECRETS, NEW tier, NEW d,
         CodeOf[secret][Lower[user]] # CodeOf[LICENSE_SECRET][Lower[user]],
         CodeOf[LICENSE_SECRET][Lower[user]] # Lower[user]
  PROVE  ~Valid(user, issued(secret, user, tier, d))
<1> DEFINE of == <<Lower[user], getUserCode(secret, Lower[user])>>
           period == {normalizeDuration(normalizeDuration(d).code).code}
<1> SUFFICES ASSUME Valid(user, Key(secret, of, tier, period)) PROVE FALSE
  BY DEF issued, generateKey
<1>1. PICK c \in {Lower[user], getUserCode(LICENSE_SECRET, Lower[user])} :
        of = <<c, getUserCode(LICENSE_SECRET, c)>>
  <2> HIDE DEF period
  <2> QED  BY Names
<1>2. c = Lower[user] /\ getUserCode(secret, Lower[user]) = getUserCode(LICENSE_SECRET, Lower[user])
  BY <1>1 DEF getUserCode, WellFormed
<1> QED
  BY <1>2 DEF getUserCode, WellFormed

(* A key for everybody in the third tier, which the form offers as well,   *)
(* is refused to everybody (client/src/pages/Admin.jsx:429).               *)
THEOREM EnterpriseRefused ==
  ASSUME NEW user, NEW secret, NEW d
  PROVE  ~Valid(user, issuedMaster(secret, "ENTERPRISE", d))
<1> DEFINE period == {normalizeDuration(normalizeDuration(d).code).code}
<1> SUFFICES ASSUME Valid(user, Key(secret, <<>>, "ENTERPRISE", period)) PROVE FALSE
  BY DEF issuedMaster, generateMasterKey
<1> HIDE DEF period
<1>1. \/ "ENTERPRISE" \in MasterTiers
      \/ \E c : <<>> = <<c, getUserCode(LICENSE_SECRET, c)>>
  BY Names
<1> QED
  BY <1>1 DEF MasterTiers
=============================================================================
