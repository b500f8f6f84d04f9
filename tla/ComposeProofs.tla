---------------------------- MODULE ComposeProofs ----------------------------
(***************************************************************************)
(* Proofs about SendPrefs and Compose, for every contact, every key and    *)
(* every message.                                                          *)
(***************************************************************************)
EXTENDS Compose, FiniteSetTheorems, WellFoundedInduction, TLAPS

-----------------------------------------------------------------------------
(* SendPrefs: what the preferences of a recipient always satisfy. *)

Less == {ss \in Nat \X Nat : ss[1] < ss[2]}

(* The order of the naturals, as a relation. *)
LEMMA NotLess ==
    ASSUME NEW x \in Nat, NEW y \in Nat, <<y, x>> \notin Less
    PROVE  x <= y
<1>1. <<y, x>> \in Nat \X Nat
  OBVIOUS
<1>2. ~(<<y, x>>[1] < <<y, x>>[2])
  BY <1>1 DEF Less
<1>3. ~(y < x)
  BY <1>2
<1> QED
  BY <1>3

(* The first of a set of places is one of them. *)
LEMMA FirstIsMember ==
    ASSUME NEW S, S \subseteq Nat, S # {}
    PROVE  First(S) \in S
<1>1. IsWellFoundedOn(Less, Nat)
  BY NatLessThanWellFounded DEF OpToRel, Less
<1>2. PICK x \in S : \A y \in S : ~ (<<y, x>> \in Less)
  BY <1>1, WFMin
<1>3. \A y \in S : x <= y
  BY <1>2, NotLess
<1> QED
  BY <1>3 DEF First

(* The first of a set of places comes before all others. *)
LEMMA FirstIsLeast ==
    ASSUME NEW S, S \subseteq Nat, S # {}
    PROVE  \A j \in S : First(S) <= j
<1>1. IsWellFoundedOn(Less, Nat)
  BY NatLessThanWellFounded DEF OpToRel, Less
<1>2. PICK x \in S : \A y \in S : ~ (<<y, x>> \in Less)
  BY <1>1, WFMin
<1>3. \A y \in S : x <= y
  BY <1>2, NotLess
<1> QED
  BY <1>3 DEF First

(* pickSendingKey returns the first pinned key of the API, the first one if
   none is pinned, and a key that parses. *)
LEMMA SendingKey ==
    ASSUME NEW v, NEW ks \in Seq(Keys), ks # <<>>, v.Keys \in Seq(Keys),
           pickSendingKey(v, ks) # {}
    PROVE  /\ pickSendingKey(v, ks) \in SUBSET Keys
           /\ BadKey \notin pickSendingKey(v, ks)
           /\ \E i \in 1..Len(ks) :
                /\ pickSendingKey(v, ks) = {ks[i]}
                /\ \A j \in 1..(i - 1) : ~Pinned(v, ks, j)
                /\ Pinned(v, ks, i) \/ (i = 1 /\ \A j \in 1..Len(ks) : ~Pinned(v, ks, j))
<1> DEFINE matched == matchFingerprints(v.Keys, ks)
           n == IF matched # {} THEN First(matched) ELSE 1
<1>1. pickSendingKey(v, ks) = {ks[n]} /\ Parses(ks)
  BY DEF pickSendingKey
<1>2. matched \subseteq 1..Len(ks) /\ Len(ks) \in Nat /\ Len(ks) > 0
  BY DEF matchFingerprints
<1>3. \A i \in 1..Len(ks) : i \in matched <=> Pinned(v, ks, i)
  BY DEF matchFingerprints, Pinned
<1> HIDE DEF matched
<1>4. CASE matched # {}
  <2>0. matched \subseteq Nat /\ n = First(matched)
    BY <1>2, <1>4
  <2>1. n \in matched /\ \A j \in matched : n <= j
    <3>1. First(matched) \in matched
      BY <1>4, <2>0, FirstIsMember
    <3>2. \A j \in matched : First(matched) <= j
      BY <1>4, <2>0, FirstIsLeast
    <3> QED
      BY <2>0, <3>1, <3>2
  <2>2. n \in 1..Len(ks) /\ Pinned(v, ks, n)
    BY <1>2, <1>3, <2>1
  <2>3. \A j \in 1..(n - 1) : j \in 1..Len(ks) /\ j \notin matched
    BY <1>2, <2>1, <2>2
  <2>4. \A j \in 1..(n - 1) : ~Pinned(v, ks, j)
    BY <1>3, <2>3
  <2> HIDE DEF n
  <2>5. ks[n] \in Keys /\ ks[n] # BadKey
    BY <1>1, <2>2 DEF Parses
  <2> QED
    BY <1>1, <2>2, <2>4, <2>5
<1>5. CASE matched = {}
  <2>1. n = 1 /\ 1 \in 1..Len(ks) /\ \A j \in 1..Len(ks) : ~Pinned(v, ks, j)
    BY <1>2, <1>3, <1>5
  <2>2. \A j \in 1..(1 - 1) : ~Pinned(v, ks, j)
    OBVIOUS
  <2>3. ks[1] \in Keys /\ ks[1] # BadKey
    BY <1>1, <2>1 DEF Parses
  <2> QED
    BY <1>1, <2>1, <2>2, <2>3
<1> QED
  BY <1>4, <1>5

Builder == [internal : BOOLEAN, encrypt : SUBSET BOOLEAN, sign : SUBSET BOOLEAN,
            scheme : SUBSET (Schemes \cup {"internal"}),
            mimeType : SUBSET (TextTypes \cup {"multipart/mixed"}),
            publicKey : SUBSET Keys, ok : BOOLEAN]

(* An optional value is a set of at most one element. *)
LEMMA MaybeSet ==
    ASSUME NEW S, NEW e \in Maybe(S)
    PROVE  e \in SUBSET S /\ \A x \in e : e = {x}
BY DEF Maybe

(* The fields of a contact. *)
LEMMA ContactFields ==
    ASSUME NEW s \in ContactSettings
    PROVE  /\ s.MIMEType \in SUBSET (TextTypes \cup {"multipart/mixed"})
           /\ \A x \in s.MIMEType : s.MIMEType = {x}
           /\ s.Scheme \in SUBSET Schemes /\ s.Keys \in Seq(Keys)
           /\ FALSE \in s.EncryptUntrusted => s.EncryptUntrusted = {FALSE}
<1>1. /\ s.MIMEType \in Maybe(TextTypes \cup {"multipart/mixed"})
      /\ s.Scheme \in Maybe(Schemes) /\ s.EncryptUntrusted \in Maybe(BOOLEAN)
      /\ s.Keys \in Seq(Keys)
  BY DEF ContactSettings
<1>2. /\ s.MIMEType \in SUBSET (TextTypes \cup {"multipart/mixed"})
      /\ \A x \in s.MIMEType : s.MIMEType = {x}
  BY <1>1, MaybeSet
<1>3. s.Scheme \in SUBSET Schemes
  BY <1>1, MaybeSet
<1>4. \A x \in s.EncryptUntrusted : s.EncryptUntrusted = {x}
  BY <1>1, MaybeSet
<1> QED
  BY <1>1, <1>2, <1>3, <1>4

(* The fields of an account. *)
LEMMA AccountFields ==
    ASSUME NEW ms \in MailSettings
    PROVE  ms.PGPScheme \in SUBSET Schemes /\ ms.DraftMIMEType \in TextTypes
<1>1. ms.PGPScheme \in Maybe(Schemes) /\ ms.DraftMIMEType \in TextTypes
  BY DEF MailSettings
<1> QED
  BY <1>1, MaybeSet

(* What pickSendingKey returns are keys. *)
LEMMA SendingKeyType ==
    ASSUME NEW v, NEW ks \in Seq(Keys), ks # <<>>, v.Keys \in Seq(Keys)
    PROVE  pickSendingKey(v, ks) \in SUBSET Keys
<1>1. CASE pickSendingKey(v, ks) # {}
  BY <1>1, SendingKey
<1>2. CASE pickSendingKey(v, ks) = {}
  BY <1>2
<1> QED
  BY <1>1, <1>2

(* What the first step of the builder decides about encryption and signature. *)
LEMMA PGPSettings ==
    ASSUME NEW s \in ContactSettings, NEW ks \in Seq(Keys), NEW int \in BOOLEAN
    PROVE  LET b == setPGPSettings(NewBuilder, newContactSettings(s), ks, int)
           IN  /\ b.ok => b.internal = int /\ b.encrypt # {}
               /\ b.ok /\ int => /\ ks # <<>> /\ b.encrypt = {TRUE} /\ b.sign = {TRUE}
                                 /\ b.mimeType = s.MIMEType
               /\ ~int /\ ks # <<>> => (TRUE \in b.encrypt <=> FALSE \notin s.EncryptUntrusted)
               /\ ~int /\ ks = <<>> => (TRUE \in b.encrypt <=> TRUE \in s.Encrypt)
               /\ TRUE \in b.encrypt => b.sign = {TRUE}
               /\ ~int => b.scheme = s.Scheme /\ ~b.internal
               /\ ~int => b.mimeType \in {{}, {"text/plain"}, s.MIMEType}
               /\ ~int /\ ~(TRUE \in b.sign) /\ b.mimeType = {"multipart/mixed"} => s.MIMEType = {"multipart/mixed"}
               /\ ks # <<>> /\ b.ok => b.publicKey = pickSendingKey(newContactSettings(s), ks) /\ b.publicKey # {}
               /\ ks = <<>> /\ b.ok => b.publicKey = IF s.Keys = <<>> THEN {} ELSE {s.Keys[1]}
               /\ ks = <<>> /\ b.ok => BadKey \notin b.publicKey
<1> DEFINE v == newContactSettings(s)
           b == setPGPSettings(NewBuilder, v, ks, int)
<1>1. CASE int
  BY <1>1 DEF setPGPSettings, setInternalPGPSettings, NewBuilder, WithSendingKey, newContactSettings
<1>2. CASE ~int /\ ks # <<>>
  BY <1>2 DEF setPGPSettings, setExternalPGPSettingsWithWKDKeys, NewBuilder, WithSendingKey,
              newContactSettings, EncryptsWKD
<1>3. CASE ~int /\ ks = <<>>
  BY <1>3 DEF setPGPSettings, setExternalPGPSettingsWithoutWKDKeys, NewBuilder, newContactSettings
<1> QED
  BY <1>1, <1>2, <1>3

PrefsOf(c, ms, type) == buildSendPrefs(c.contact, ms, c.apiKeys, type, c.isInternal)

(* The first step of the builder gives a typed builder. *)
LEMMA PGPSettingsType ==
    ASSUME NEW s \in ContactSettings, NEW ks \in Seq(Keys), NEW int \in BOOLEAN
    PROVE  setPGPSettings(NewBuilder, newContactSettings(s), ks, int) \in Builder
<1> DEFINE v == newContactSettings(s)
<1>1. v.Keys \in Seq(Keys) /\ v.Scheme \in SUBSET Schemes
  <2>1. v.Keys = s.Keys /\ v.Scheme = s.Scheme
    BY DEF newContactSettings
  <2> QED
    BY <2>1, ContactFields
<1>2. v.MIMEType \in SUBSET (TextTypes \cup {"multipart/mixed"})
  <2>1. v.MIMEType = s.MIMEType
    BY DEF newContactSettings
  <2> QED
    BY <2>1, ContactFields
<1>3. /\ v.Sign \in BOOLEAN /\ v.SignIsSet \in BOOLEAN /\ v.Encrypt \in BOOLEAN
      /\ v.EncryptUntrusted \in BOOLEAN
  BY DEF newContactSettings
<1>4. ks # <<>> => pickSendingKey(v, ks) \in SUBSET Keys
  BY <1>1, SendingKeyType
<1>5. NewBuilder \in Builder
  BY DEF NewBuilder, Builder
<1> HIDE DEF v
<1>6. ASSUME NEW b \in Builder, ks # <<>>
      PROVE  WithSendingKey(b, v, ks) \in Builder
  BY <1>4, <1>6 DEF WithSendingKey, Builder
<1>7. CASE int
  <2> DEFINE c == [NewBuilder EXCEPT !.internal = TRUE, !.encrypt = {TRUE}, !.sign = {TRUE},
                                     !.scheme = {"internal"}, !.mimeType = v.MIMEType]
  <2>1. c \in Builder
    BY <1>2, <1>5 DEF Builder
  <2>2. [NewBuilder EXCEPT !.ok = FALSE] \in Builder
    BY <1>5 DEF Builder
  <2>3. CASE ks = <<>>
    BY <1>7, <2>2, <2>3 DEF setPGPSettings, setInternalPGPSettings, v
  <2>4. CASE ks # <<>>
    BY <1>6, <1>7, <2>1, <2>4 DEF setPGPSettings, setInternalPGPSettings, v
  <2> QED
    BY <2>3, <2>4
<1>8. CASE ~int /\ ks # <<>>
  <2> DEFINE sign == IF EncryptsWKD(v) THEN {TRUE} ELSE IF v.SignIsSet THEN {v.Sign} ELSE {}
             type == IF v.Scheme = {"pgp-inline"} THEN {"text/plain"} ELSE {}
             c == [NewBuilder EXCEPT !.encrypt = {EncryptsWKD(v)}, !.sign = sign,
                                     !.scheme = v.Scheme, !.mimeType = type]
  <2>1. sign \in SUBSET BOOLEAN /\ {EncryptsWKD(v)} \in SUBSET BOOLEAN
    BY <1>3 DEF EncryptsWKD
  <2>2. type \in SUBSET (TextTypes \cup {"multipart/mixed"}) /\ v.Scheme \in SUBSET (Schemes \cup {"internal"})
    BY <1>1 DEF TextTypes
  <2>3. setPGPSettings(NewBuilder, v, ks, int) = WithSendingKey(c, v, ks)
    BY <1>8 DEF setPGPSettings, setExternalPGPSettingsWithWKDKeys
  <2> HIDE DEF sign, type
  <2>4. c \in Builder
    BY <1>5, <2>1, <2>2 DEF Builder
  <2> QED
    BY <1>6, <1>8, <2>3, <2>4 DEF v
<1>9. CASE ~int /\ ks = <<>>
  <2> DEFINE sign == IF v.Encrypt THEN {TRUE} ELSE IF v.SignIsSet THEN {v.Sign} ELSE {}
             type == IF ~v.Sign THEN v.MIMEType ELSE IF v.Scheme = {"pgp-inline"} THEN {"text/plain"} ELSE {}
             c == [NewBuilder EXCEPT !.encrypt = {v.Encrypt}, !.sign = sign,
                                     !.scheme = v.Scheme, !.mimeType = type]
  <2>1. sign \in SUBSET BOOLEAN /\ {v.Encrypt} \in SUBSET BOOLEAN
    BY <1>3
  <2>2. type \in SUBSET (TextTypes \cup {"multipart/mixed"}) /\ v.Scheme \in SUBSET (Schemes \cup {"internal"})
    BY <1>1, <1>2 DEF TextTypes
  <2>3. setPGPSettings(NewBuilder, v, ks, int)
          = IF v.Keys = <<>> THEN c ELSE [c EXCEPT !.publicKey = {v.Keys[1]}, !.ok = v.Keys[1] # BadKey]
    BY <1>9 DEF setPGPSettings, setExternalPGPSettingsWithoutWKDKeys
  <2> HIDE DEF sign, type
  <2>4. c \in Builder
    BY <1>5, <2>1, <2>2 DEF Builder
  <2> HIDE DEF c
  <2>5. v.Keys # <<>> => {v.Keys[1]} \in SUBSET Keys
    BY <1>1
  <2>6. v.Keys # <<>> => [c EXCEPT !.publicKey = {v.Keys[1]}, !.ok = v.Keys[1] # BadKey] \in Builder
    BY <2>4, <2>5 DEF Builder
  <2> QED
    BY <2>3, <2>4, <2>6 DEF v
<1> QED
  BY <1>7, <1>8, <1>9

(* The account's defaults, ... *)
LEMMA EncryptionPreferences ==
    ASSUME NEW b \in Builder, NEW ms \in MailSettings
    PROVE  LET c == setEncryptionPreferences(b, ms)
           IN  /\ c \in Builder
               /\ c.internal = b.internal /\ c.ok = b.ok /\ c.publicKey = b.publicKey
               /\ c.encrypt = Default(b.encrypt, {FALSE})
               /\ c.sign = SignDefault(b, ms)
               /\ c.scheme = Default(b.scheme, ms.PGPScheme)
               /\ c.mimeType = IF TRUE \in c.sign /\ c.scheme = {"pgp-inline"} THEN {"text/plain"}
                               ELSE Default(b.mimeType, {ms.DraftMIMEType})
<1>1. ms.PGPScheme \in SUBSET Schemes /\ ms.DraftMIMEType \in TextTypes
  BY AccountFields
<1> DEFINE e == Default(b.encrypt, {FALSE})
           sg == SignDefault(b, ms)
           sc == Default(b.scheme, ms.PGPScheme)
           d == [b EXCEPT !.encrypt = e, !.sign = sg, !.scheme = sc]
           mt == IF shouldSign(d) /\ d.scheme = {"pgp-inline"} THEN {"text/plain"}
                 ELSE Default(d.mimeType, {ms.DraftMIMEType})
<1>2. /\ b.encrypt \in SUBSET BOOLEAN /\ b.sign \in SUBSET BOOLEAN
      /\ b.scheme \in SUBSET (Schemes \cup {"internal"})
      /\ b.mimeType \in SUBSET (TextTypes \cup {"multipart/mixed"})
  BY DEF Builder
<1>3. e \in SUBSET BOOLEAN /\ sg \in SUBSET BOOLEAN /\ sc \in SUBSET (Schemes \cup {"internal"})
  BY <1>1, <1>2 DEF Default, SignDefault
<1>4. setEncryptionPreferences(b, ms) = [d EXCEPT !.mimeType = mt]
  BY DEF setEncryptionPreferences
<1> HIDE DEF e, sg, sc
<1>5. d \in Builder
  BY <1>3 DEF Builder
<1>6. /\ d.internal = b.internal /\ d.ok = b.ok /\ d.publicKey = b.publicKey /\ d.mimeType = b.mimeType
      /\ d.encrypt = e /\ d.sign = sg /\ d.scheme = sc
  BY DEF Builder
<1> HIDE DEF d
<1>7. mt \in SUBSET (TextTypes \cup {"multipart/mixed"})
  BY <1>1, <1>2, <1>6 DEF Default, TextTypes
<1>8. mt = IF TRUE \in sg /\ sc = {"pgp-inline"} THEN {"text/plain"}
           ELSE Default(b.mimeType, {ms.DraftMIMEType})
  BY <1>6 DEF shouldSign
<1> HIDE DEF mt
<1> DEFINE c == [d EXCEPT !.mimeType = mt]
<1>9. c \in Builder
  BY <1>5, <1>7 DEF Builder
<1>10. /\ c.internal = d.internal /\ c.ok = d.ok /\ c.publicKey = d.publicKey
       /\ c.encrypt = d.encrypt /\ c.sign = d.sign /\ c.scheme = d.scheme /\ c.mimeType = mt
  BY <1>5 DEF Builder
<1> HIDE DEF c
<1> QED
  BY <1>4, <1>6, <1>8, <1>9, <1>10 DEF e, sg, sc, c

(* ... and the composer's type. *)
LEMMA MIMEPreferences ==
    ASSUME NEW b \in Builder, NEW composer
    PROVE  LET c == setMIMEPreferences(b, composer)
           IN  /\ c.internal = b.internal /\ c.ok = b.ok /\ c.publicKey = b.publicKey
               /\ c.encrypt = b.encrypt /\ c.sign = b.sign /\ c.scheme = b.scheme
               /\ c.mimeType = IF ~b.internal /\ TRUE \in b.sign
                               THEN IF b.scheme = {"pgp-inline"} THEN {"text/plain"} ELSE {"multipart/mixed"}
                               ELSE IF composer = "text/plain" THEN {"text/plain"} ELSE b.mimeType
BY DEF setMIMEPreferences, Builder, shouldSign, SignedType

(* The preferences in terms of the builder after setPGPSettings. *)
LEMMA FinalBuilder ==
    ASSUME NEW s \in ContactSettings, NEW ms \in MailSettings, NEW ks \in Seq(Keys),
           NEW composer \in TextTypes, NEW int \in BOOLEAN
    PROVE  LET b == setPGPSettings(NewBuilder, newContactSettings(s), ks, int)
               p == buildSendPrefs(s, ms, ks, composer, int)
           IN  /\ p.ok = b.ok /\ p.PubKey = b.publicKey
               /\ p.Encrypt <=> TRUE \in Default(b.encrypt, {FALSE})
<1> DEFINE b1 == setPGPSettings(NewBuilder, newContactSettings(s), ks, int)
           b2 == setEncryptionPreferences(b1, ms)
           b3 == setMIMEPreferences(b2, composer)
           p == buildSendPrefs(s, ms, ks, composer, int)
<1>1. b1 \in Builder
  BY PGPSettingsType
<1>2. p = build(b3)
  BY DEF buildSendPrefs
<1> HIDE DEF b1
<1>3. /\ b2 \in Builder /\ b2.ok = b1.ok /\ b2.publicKey = b1.publicKey
      /\ b2.encrypt = Default(b1.encrypt, {FALSE})
  BY <1>1, EncryptionPreferences
<1> HIDE DEF b2
<1>4. b3.ok = b2.ok /\ b3.publicKey = b2.publicKey /\ b3.encrypt = b2.encrypt
  BY <1>3, MIMEPreferences
<1> HIDE DEF b3, p
<1>5. p.ok = b3.ok /\ p.PubKey = b3.publicKey /\ (p.Encrypt <=> TRUE \in b3.encrypt)
  BY <1>2 DEF build, shouldEncrypt
<1>6. p.ok = b1.ok /\ p.PubKey = b1.publicKey /\ (p.Encrypt <=> TRUE \in Default(b1.encrypt, {FALSE}))
  BY <1>3, <1>4, <1>5
<1> QED
  BY <1>6 DEF p, b1

(* A recipient gets in the clear only what nobody asked to encrypt: an     *)
(* internal one never, one with keys of the API only if the contact says   *)
(* so, one without only if the contact does not ask for it                 *)
(* (smtp_prefs.go, setPGPSettings and setEncryptionPreferences).           *)
THEOREM ClearIsAllowed ==
    ASSUME NEW s \in ContactSettings, NEW ms \in MailSettings, NEW ks \in Seq(Keys),
           NEW composer \in TextTypes, NEW int \in BOOLEAN
    PROVE  ClearOnlyIfAllowed(buildSendPrefs(s, ms, ks, composer, int), s, ks, int)
<1> DEFINE b == setPGPSettings(NewBuilder, newContactSettings(s), ks, int)
           p == buildSendPrefs(s, ms, ks, composer, int)
<1>1. p.ok = b.ok /\ (p.Encrypt <=> TRUE \in Default(b.encrypt, {FALSE}))
  BY FinalBuilder
<1>2. /\ b.ok => b.encrypt # {}
      /\ b.ok /\ int => b.encrypt = {TRUE}
      /\ ~int /\ ks # <<>> => (TRUE \in b.encrypt <=> FALSE \notin s.EncryptUntrusted)
      /\ ~int /\ ks = <<>> => (TRUE \in b.encrypt <=> TRUE \in s.Encrypt)
  BY PGPSettings, ZenonT(40)
<1>3. FALSE \in s.EncryptUntrusted => s.EncryptUntrusted = {FALSE}
  BY ContactFields
<1> HIDE DEF b, p
<1> QED
  BY <1>1, <1>2, <1>3 DEF p, ClearOnlyIfAllowed, Default

(* The key of a message is the first one served by the API that the        *)
(* contact has pinned, the first one served if none is pinned, and the     *)
(* first one of the contact if none is served; it parses                   *)
(* (smtp_prefs.go, pickSendingKey, setPGPSettings).                        *)
THEOREM PinnedIsPreferred ==
    ASSUME NEW s \in ContactSettings, NEW ms \in MailSettings, NEW ks \in Seq(Keys),
           NEW composer \in TextTypes, NEW int \in BOOLEAN
    PROVE  PinnedPreferred(buildSendPrefs(s, ms, ks, composer, int), s, ks)
<1> DEFINE v == newContactSettings(s)
           b == setPGPSettings(NewBuilder, v, ks, int)
           p == buildSendPrefs(s, ms, ks, composer, int)
<1> SUFFICES ASSUME p.ok PROVE PinnedPreferred(p, s, ks)
  BY DEF PinnedPreferred
<1>1. p.PubKey = b.publicKey /\ b.ok
  BY FinalBuilder, ZenonT(40)
<1>2. v.Keys = s.Keys /\ s.Keys \in Seq(Keys)
  BY DEF newContactSettings, ContactSettings
<1>3. CASE ks = <<>>
  <2>1. b.ok => b.publicKey = IF s.Keys = <<>> THEN {} ELSE {s.Keys[1]}
    BY <1>3, PGPSettings, ZenonT(40)
  <2>2. b.ok => BadKey \notin b.publicKey
    BY <1>3, PGPSettings, ZenonT(40)
  <2> HIDE DEF b, p
  <2> QED
    BY <1>1, <1>3, <2>1, <2>2 DEF PinnedPreferred
<1>4. CASE ks # <<>>
  <2>1. b.ok => b.publicKey = pickSendingKey(v, ks) /\ b.publicKey # {}
    BY <1>4, PGPSettings, ZenonT(40)
  <2> HIDE DEF b, p, v
  <2>2. \A i : Pinned(v, ks, i) = Pinned(s, ks, i)
    BY <1>2 DEF Pinned
  <2>3. /\ BadKey \notin pickSendingKey(v, ks)
        /\ \E i \in 1..Len(ks) :
                /\ pickSendingKey(v, ks) = {ks[i]}
                /\ \A j \in 1..(i - 1) : ~Pinned(v, ks, j)
                /\ Pinned(v, ks, i) \/ (i = 1 /\ \A j \in 1..Len(ks) : ~Pinned(v, ks, j))
    BY <1>1, <1>2, <1>4, <2>1, SendingKey
  <2> QED
    BY <1>1, <1>4, <2>1, <2>2, <2>3 DEF PinnedPreferred
<1> QED
  BY <1>3, <1>4

(* The preferences fit the packages that createSendReq makes of them: what *)
(* is encrypted is signed and has a key unless the contact asks for        *)
(* encryption and nobody has one, and the MIME type is the one that the    *)
(* scheme needs (smtp_prefs.go, setEncryptionPreferences,                  *)
(* setMIMEPreferences).                                                    *)
THEOREM PrefsConsistent ==
    ASSUME NEW s \in ContactSettings, NEW ms \in MailSettings, NEW ks \in Seq(Keys),
           NEW composer \in TextTypes, NEW int \in BOOLEAN,
           buildSendPrefs(s, ms, ks, composer, int).ok
    PROVE  Consistent(buildSendPrefs(s, ms, ks, composer, int), s)
<1> DEFINE v == newContactSettings(s)
           b1 == setPGPSettings(NewBuilder, v, ks, int)
           b2 == setEncryptionPreferences(b1, ms)
           b3 == setMIMEPreferences(b2, composer)
           p == buildSendPrefs(s, ms, ks, composer, int)
<1>0. b1 \in Builder /\ b1.ok
  BY PGPSettingsType, FinalBuilder, ZenonT(40)
<1>1. /\ b1.internal = int /\ b1.encrypt # {}
      /\ int => b1.encrypt = {TRUE} /\ b1.sign = {TRUE} /\ b1.mimeType = s.MIMEType
      /\ TRUE \in b1.encrypt => b1.sign = {TRUE}
      /\ ~int => b1.mimeType \in {{}, {"text/plain"}, s.MIMEType}
  <2>1. b1.ok => b1.internal = int /\ b1.encrypt # {}
    BY PGPSettings
  <2>2. b1.ok /\ int => b1.encrypt = {TRUE} /\ b1.sign = {TRUE} /\ b1.mimeType = s.MIMEType
    BY PGPSettings
  <2>3. TRUE \in b1.encrypt => b1.sign = {TRUE}
    BY PGPSettings, ZenonT(40)
  <2>4. ~int => b1.mimeType \in {{}, {"text/plain"}, s.MIMEType}
    BY PGPSettings
  <2> HIDE DEF b1
  <2> QED
    BY <1>0, <2>1, <2>2, <2>3, <2>4
<1> HIDE DEF b1
<1>2. /\ b2 \in Builder
      /\ b2.internal = b1.internal /\ b2.encrypt = b1.encrypt /\ b2.sign = SignDefault(b1, ms)
      /\ b2.mimeType = IF TRUE \in b2.sign /\ b2.scheme = {"pgp-inline"} THEN {"text/plain"}
                       ELSE Default(b1.mimeType, {ms.DraftMIMEType})
  BY <1>0, <1>1, EncryptionPreferences DEF Default
<1> HIDE DEF b2
<1>3. /\ b3.internal = b2.internal /\ b3.encrypt = b2.encrypt /\ b3.sign = b2.sign
      /\ b3.scheme = b2.scheme
      /\ b3.mimeType = IF ~b2.internal /\ TRUE \in b2.sign
                       THEN IF b2.scheme = {"pgp-inline"} THEN {"text/plain"} ELSE {"multipart/mixed"}
                       ELSE IF composer = "text/plain" THEN {"text/plain"} ELSE b2.mimeType
  BY <1>2, MIMEPreferences
<1> HIDE DEF b3
<1>4. /\ p.Encrypt = (TRUE \in b3.encrypt) /\ p.Signed = (TRUE \in b3.sign)
      /\ p.MIMEType = b3.mimeType /\ p.EncryptionScheme = EncryptionScheme(b3)
  BY DEF build, buildSendPrefs, shouldEncrypt, shouldSign, b3, b2, b1
<1>5. /\ ms.DraftMIMEType \in TextTypes /\ \A x \in s.MIMEType : s.MIMEType = {x}
      /\ s.MIMEType \in SUBSET (TextTypes \cup {"multipart/mixed"})
  BY AccountFields, ContactFields
<1> HIDE DEF v, b1, b2, b3, p
<1>6. p.Encrypt => p.Signed
  BY <1>1, <1>2, <1>3, <1>4 DEF SignDefault, shouldEncrypt
<1>9. p.EncryptionScheme = "Internal" <=> int
  BY <1>1, <1>2, <1>3, <1>4 DEF EncryptionScheme
<1>10. p.Encrypt => (p.PubKey # {} \/ (s.Keys = <<>> /\ s.Encrypt = {TRUE} /\ ~int))
  <2>1. p.Encrypt <=> TRUE \in b1.encrypt
    BY <1>1, <1>2, <1>3, <1>4
  <2>2. p.PubKey = b1.publicKey
    BY FinalBuilder DEF p, b1, v
  <2>3. ks # <<>> /\ b1.ok => b1.publicKey # {}
    BY PGPSettings, ZenonT(40) DEF b1, v
  <2>4. ks = <<>> /\ b1.ok => b1.publicKey = IF s.Keys = <<>> THEN {} ELSE {s.Keys[1]}
    BY PGPSettings, ZenonT(40) DEF b1, v
  <2>5. ~int /\ ks = <<>> => (TRUE \in b1.encrypt <=> TRUE \in s.Encrypt)
    BY PGPSettings, ZenonT(40) DEF b1, v
  <2>6. b1.ok /\ int => ks # <<>>
    BY PGPSettings, ZenonT(40) DEF b1, v
  <2>7. TRUE \in s.Encrypt => s.Encrypt = {TRUE}
    <3>1. s.Encrypt \in Maybe(BOOLEAN)
      BY DEF ContactSettings
    <3>2. \A x \in s.Encrypt : s.Encrypt = {x}
      BY <3>1, MaybeSet
    <3> QED
      BY <3>2
  <2> QED
    BY <1>0, <2>1, <2>2, <2>3, <2>4, <2>5, <2>6, <2>7
<1>7. ASSUME int PROVE Consistent(p, s)
  <2>1. p.EncryptionScheme = "Internal" /\ p.Encrypt
    BY <1>1, <1>2, <1>3, <1>4, <1>7 DEF EncryptionScheme
  <2>2. b2.mimeType \in {{"text/html"}, {"text/plain"}} \/ b2.mimeType = s.MIMEType
    BY <1>1, <1>2, <1>5, <1>7 DEF Default, TextTypes
  <2>3. p.MIMEType \in {{"text/html"}, {"text/plain"}} \/ p.MIMEType = s.MIMEType
    BY <1>1, <1>2, <1>3, <1>4, <1>7, <2>2
  <2> QED
    BY <1>6, <1>7, <1>9, <1>10, <2>1, <2>3 DEF Consistent
<1>8. ASSUME ~int PROVE Consistent(p, s)
  <2>0. ~b3.internal
    BY <1>1, <1>2, <1>3, <1>8
  <2>1. CASE TRUE \in b3.sign /\ b3.scheme = {"pgp-inline"}
    <3>1. p.EncryptionScheme \in {"PGPInline", "Clear"} /\ p.MIMEType = {"text/plain"}
      BY <1>1, <1>2, <1>3, <1>4, <1>8, <2>0, <2>1 DEF EncryptionScheme, shouldSign
    <3> QED
      BY <1>6, <1>8, <1>9, <1>10, <3>1 DEF Consistent
  <2>2. CASE TRUE \in b3.sign /\ b3.scheme # {"pgp-inline"}
    <3>1. p.EncryptionScheme \in {"PGPMIME", "ClearMIME"} /\ p.MIMEType = {"multipart/mixed"}
      BY <1>1, <1>2, <1>3, <1>4, <1>8, <2>0, <2>2 DEF EncryptionScheme, shouldSign
    <3> QED
      BY <1>6, <1>8, <1>9, <1>10, <3>1 DEF Consistent
  <2>3. CASE TRUE \notin b3.sign
    <3>1. p.EncryptionScheme = "Clear" /\ ~p.Signed
      BY <1>4, <2>0, <2>3 DEF EncryptionScheme, shouldSign
    <3>2. b2.mimeType \in {{"text/html"}, {"text/plain"}, {"multipart/mixed"}}
            /\ (b2.mimeType = {"multipart/mixed"} => s.MIMEType = {"multipart/mixed"})
      <4>1. b2.mimeType = IF b1.mimeType = {} THEN {ms.DraftMIMEType} ELSE b1.mimeType
        BY <1>2, <1>3, <2>3 DEF Default
      <4>2. {ms.DraftMIMEType} \in {{"text/html"}, {"text/plain"}} /\ {ms.DraftMIMEType} # {"multipart/mixed"}
        BY <1>5 DEF TextTypes
      <4>3. s.MIMEType \in {{}, {"text/html"}, {"text/plain"}, {"multipart/mixed"}}
        BY <1>5 DEF TextTypes
      <4>4. {"text/plain"} # {"multipart/mixed"}
        OBVIOUS
      <4> QED
        BY <1>1, <1>8, <4>1, <4>2, <4>3, <4>4
    <3>3. p.MIMEType \in {{"text/html"}, {"text/plain"}} \/ s.MIMEType = {"multipart/mixed"}
      BY <1>3, <1>4, <2>3, <3>2
    <3> QED
      BY <1>6, <1>8, <1>9, <1>10, <3>1, <3>3 DEF Consistent
  <2> QED
    BY <2>1, <2>2, <2>3
<1> QED
  BY <1>7, <1>8 DEF p

(* Every recipient has a scheme of the five, and a MIME type. *)
SchemesOfPackages == {"Internal", "Clear", "PGPInline", "PGPMIME", "ClearMIME"}
TypesOfPackages == {{"text/html"}, {"text/plain"}, {"multipart/mixed"}}

(* Scheme and content type are ones that the packages know. *)
LEMMA PrefsShape ==
    ASSUME NEW s \in ContactSettings, NEW ms \in MailSettings, NEW ks \in Seq(Keys),
           NEW composer \in TextTypes, NEW int \in BOOLEAN,
           buildSendPrefs(s, ms, ks, composer, int).ok
    PROVE  /\ buildSendPrefs(s, ms, ks, composer, int).EncryptionScheme \in SchemesOfPackages
           /\ buildSendPrefs(s, ms, ks, composer, int).MIMEType \in TypesOfPackages
<1> DEFINE b1 == setPGPSettings(NewBuilder, newContactSettings(s), ks, int)
           b2 == setEncryptionPreferences(b1, ms)
           b3 == setMIMEPreferences(b2, composer)
           p == buildSendPrefs(s, ms, ks, composer, int)
<1>0. b1 \in Builder /\ b1.ok
  BY PGPSettingsType, FinalBuilder, ZenonT(40)
<1>1. b1.mimeType \in {{}, {"text/plain"}, s.MIMEType}
  <2>1. b1.ok /\ int => b1.mimeType = s.MIMEType
    BY PGPSettings, ZenonT(40)
  <2>2. ~int => b1.mimeType \in {{}, {"text/plain"}, s.MIMEType}
    BY PGPSettings
  <2> HIDE DEF b1
  <2> QED
    BY <1>0, <2>1, <2>2
<1>2. p.MIMEType = b3.mimeType /\ p.EncryptionScheme = EncryptionScheme(b3)
  BY DEF build, buildSendPrefs
<1> HIDE DEF b1
<1>3. /\ b2 \in Builder
      /\ b2.mimeType = IF TRUE \in b2.sign /\ b2.scheme = {"pgp-inline"} THEN {"text/plain"}
                       ELSE Default(b1.mimeType, {ms.DraftMIMEType})
  BY <1>0, EncryptionPreferences
<1> HIDE DEF b2
<1>4. b3.mimeType \in {{"text/plain"}, {"multipart/mixed"}, b2.mimeType}
  BY <1>3, MIMEPreferences
<1>5. s.MIMEType \in {{}} \cup TypesOfPackages /\ {ms.DraftMIMEType} \in TypesOfPackages
  <2>1. /\ ms.DraftMIMEType \in TextTypes /\ \A x \in s.MIMEType : s.MIMEType = {x}
        /\ s.MIMEType \in SUBSET (TextTypes \cup {"multipart/mixed"})
    BY AccountFields, ContactFields
  <2> QED
    BY <2>1 DEF TextTypes, TypesOfPackages
<1>6. b2.mimeType \in TypesOfPackages
  BY <1>1, <1>3, <1>5 DEF Default, TypesOfPackages
<1>7. EncryptionScheme(b3) \in SchemesOfPackages
  BY DEF EncryptionScheme, SchemesOfPackages
<1> HIDE DEF p, b3
<1>8. p.EncryptionScheme \in SchemesOfPackages /\ p.MIMEType \in TypesOfPackages
  BY <1>2, <1>4, <1>6, <1>7 DEF TypesOfPackages
<1> QED
  BY <1>8 DEF p

-----------------------------------------------------------------------------
(* Compose: the inductive invariant. *)

(* The draft has the recipients that createDraft gave it, and is there from
   then on until it is sent. *)
DraftInv ==
  /\ mail \in Mails /\ settings \in Accounts
  /\ pc \in {"parent", "draft", "attachments", "send", "delete", "done", "failed"}
  /\ pc \in {"attachments", "send"} => draft = {Recipients} /\ mail.mimeType \in TextTypes

(* The preferences of a recipient are what buildSendPrefs makes of what the
   lookup found. *)
PrefsInv ==
  /\ DOMAIN found = DOMAIN prefs /\ DOMAIN prefs \subseteq Recipients
  /\ \A a \in DOMAIN prefs :
       /\ mail.mimeType \in TextTypes
       /\ found[a] \in Lookups /\ prefs[a].ok
       /\ prefs[a] = PrefsOf(found[a], settings, mail.mimeType)
  /\ pc = "send" => DOMAIN prefs = Recipients /\ ~Refused

(* A message that was sent went to every recipient; an error after that is
   a failure of the call alone. *)
SentInv ==
  /\ pc \in {"parent", "draft", "attachments", "send"} => sent = {}
  /\ sent \subseteq DOMAIN prefs
  /\ pc \in {"delete", "done"} => sent = Recipients
  /\ pc = "failed" /\ sent # {} => err = {"ErrSendMessageOperation"}

IInv == DraftInv /\ PrefsInv /\ SentInv /\ ParentIsMessage

(* The fields of a mail. *)
LEMMA MailFields ==
    ASSUME NEW m \in Mails
    PROVE  /\ m.to \in SUBSET Addrs /\ m.toList \in SUBSET Addrs
           /\ m.ccList \in SUBSET Addrs /\ m.bccList \in SUBSET Addrs
           /\ m.mimeType \in TextTypes \cup {"other"} /\ m.to # {}
BY ComposeAssumption DEF Mail

(* Everyone in the envelope is a recipient of the draft. *)
LEMMA RecipientsAre ==
    ASSUME mail \in Mails
    PROVE  /\ Recipients \in SUBSET Addrs /\ mail.to \subseteq Recipients /\ Recipients # {}
           /\ Recipients \subseteq mail.to \cup mail.ccList \cup mail.bccList
BY MailFields DEF Recipients, BCCList

(* What PrefsInv says of a recipient is what the theorems on buildSendPrefs
   need. *)
LEMMA KnownPrefs ==
    ASSUME DraftInv, PrefsInv, NEW a \in DOMAIN prefs
    PROVE  /\ ClearOnlyIfAllowed(prefs[a], found[a].contact, found[a].apiKeys, found[a].isInternal)
           /\ PinnedPreferred(prefs[a], found[a].contact, found[a].apiKeys)
           /\ Consistent(prefs[a], found[a].contact)
           /\ prefs[a].EncryptionScheme \in SchemesOfPackages
           /\ prefs[a].MIMEType \in TypesOfPackages
<1> DEFINE c == found[a]
<1>1. /\ c.contact \in ContactSettings /\ c.apiKeys \in Seq(Keys) /\ c.isInternal \in BOOLEAN
      /\ settings \in MailSettings /\ mail.mimeType \in TextTypes
  BY ComposeAssumption DEF DraftInv, PrefsInv, Lookups
<1>2. /\ prefs[a] = buildSendPrefs(c.contact, settings, c.apiKeys, mail.mimeType, c.isInternal)
      /\ prefs[a].ok
  BY DEF PrefsInv, PrefsOf
<1> HIDE DEF c
<1>3. /\ ClearOnlyIfAllowed(prefs[a], c.contact, c.apiKeys, c.isInternal)
      /\ PinnedPreferred(prefs[a], c.contact, c.apiKeys)
      /\ Consistent(prefs[a], c.contact)
  BY <1>1, <1>2, ClearIsAllowed, PinnedIsPreferred, PrefsConsistent
<1>4. prefs[a].EncryptionScheme \in SchemesOfPackages /\ prefs[a].MIMEType \in TypesOfPackages
  BY <1>1, <1>2, PrefsShape
<1> QED
  BY <1>3, <1>4 DEF c

(* Once createSendReq has accepted the preferences, everyone is in one
   package and in no other. *)
LEMMA InOnePackage ==
    ASSUME DraftInv, PrefsInv, ~Refused, NEW a \in DOMAIN prefs
    PROVE  \E q \in Packages : {p \in Packages : a \in p.to} = {q}
<1> DEFINE mixed == [type |-> "multipart/mixed", to |-> scheme({"PGPMIME", "ClearMIME"})]
           text(t) == [type |-> t, to |-> content(scheme(TextSchemes), t)]
<1>1. Packages = {mixed, text("text/html"), text("text/plain")}
  BY DEF Packages, TextTypes
<1>2. /\ a \in mixed.to <=> prefs[a].EncryptionScheme \in {"PGPMIME", "ClearMIME"}
      /\ \A t : a \in text(t).to <=> prefs[a].EncryptionScheme \in TextSchemes /\ prefs[a].MIMEType = {t}
  BY DEF scheme, content
<1>3. prefs[a].EncryptionScheme \in SchemesOfPackages /\ prefs[a].MIMEType \in TypesOfPackages
  BY KnownPrefs
<1>4. prefs[a].EncryptionScheme \in TextSchemes => prefs[a].MIMEType # {"multipart/mixed"}
  BY DEF Refused, content, scheme
<1> HIDE DEF mixed, text
<1>5. CASE prefs[a].EncryptionScheme \in {"PGPMIME", "ClearMIME"}
  <2>1. prefs[a].EncryptionScheme \notin TextSchemes
    BY <1>5 DEF TextSchemes
  <2> QED
    BY <1>1, <1>2, <1>5, <2>1
<1>6. CASE prefs[a].EncryptionScheme \notin {"PGPMIME", "ClearMIME"}
  <2>1. prefs[a].EncryptionScheme \in TextSchemes
    BY <1>3, <1>6 DEF TextSchemes, SchemesOfPackages
  <2>2. \/ prefs[a].MIMEType = {"text/html"} /\ prefs[a].MIMEType # {"text/plain"}
        \/ prefs[a].MIMEType = {"text/plain"} /\ prefs[a].MIMEType # {"text/html"}
    <3>1. prefs[a].MIMEType = {"text/html"} \/ prefs[a].MIMEType = {"text/plain"}
      BY <1>3, <1>4, <2>1 DEF TypesOfPackages
    <3>2. {"text/html"} # {"text/plain"}
      OBVIOUS
    <3> QED
      BY <3>1, <3>2
  <2> QED
    BY <1>1, <1>2, <1>6, <2>1, <2>2
<1> QED
  BY <1>5, <1>6

(* The packages together serve all recipients with preferences. *)
LEMMA InPackages ==
    ASSUME DraftInv, PrefsInv, ~Refused
    PROVE  UNION {p.to : p \in Packages} = DOMAIN prefs
<1>1. \A a \in DOMAIN prefs : \E q \in Packages : a \in q.to
  BY InOnePackage
<1>2. \A q \in Packages : q.to \subseteq DOMAIN prefs
  BY DEF Packages, scheme, content
<1> QED
  BY <1>1, <1>2

(* The initial state satisfies the invariant. *)
LEMMA InitIInv == Init => IInv
<1> SUFFICES ASSUME Init PROVE IInv
  OBVIOUS
<1>1. DOMAIN prefs = {} /\ DOMAIN found = {}
  BY DEF Init
<1> QED
  BY <1>1 DEF Init, IInv, DraftInv, PrefsInv, SentInv, ParentIsMessage

(* A step that leaves the message, the account and the preferences alone. *)
LEMMA KeepsPrefs ==
    ASSUME PrefsInv, UNCHANGED <<mail, settings, prefs, found>>,
           pc' = "send" => DOMAIN prefs = Recipients /\ ~Refused
    PROVE  PrefsInv' /\ Recipients' = Recipients
<1>1. Recipients' = Recipients
  BY DEF Recipients, BCCList
<1>2. Refused' = Refused
  BY DEF Refused, content, scheme
<1> QED
  BY <1>1, <1>2 DEF PrefsInv, PrefsOf

(* Every step keeps the invariant. *)
LEMMA StepIInv == IInv /\ [Next]_vars => IInv'
<1> SUFFICES ASSUME IInv, [Next]_vars PROVE IInv'
  OBVIOUS
<1>0. DraftInv /\ PrefsInv /\ SentInv /\ ParentIsMessage
  BY DEF IInv
<1>1. CASE getParentID
  <2>1. PrefsInv' /\ Recipients' = Recipients
    BY <1>0, <1>1, KeepsPrefs DEF getParentID
  <2>2. DraftInv' /\ SentInv'
    BY <1>0, <1>1, <2>1 DEF getParentID, DraftInv, SentInv
  <2>3. "draft" \notin ExternalParent
    BY DEF ExternalParent
  <2>4. ParentIsMessage'
    BY <1>0, <1>1, <2>3 DEF getParentID, ParentIsMessage
  <2> QED
    BY <2>1, <2>2, <2>4 DEF IInv
<1>2. CASE createDraft
  <2>1. PrefsInv' /\ Recipients' = Recipients
    BY <1>0, <1>2, KeepsPrefs DEF createDraft, Fails
  <2>2. mail.mimeType \in TextTypes \cup {"other"}
    BY <1>0, MailFields DEF DraftInv
  <2>3. DraftInv'
    BY <1>0, <1>2, <2>1, <2>2 DEF createDraft, Fails, DraftInv
  <2>4. SentInv' /\ ParentIsMessage'
    BY <1>0, <1>2 DEF createDraft, Fails, SentInv, ParentIsMessage
  <2> QED
    BY <2>1, <2>3, <2>4 DEF IInv
<1>3. CASE createSendReq
  <2>0. draft = {Recipients} /\ Draft = Recipients
    BY <1>0, <1>3 DEF createSendReq, DraftInv, Draft
  <2>1. PrefsInv' /\ Recipients' = Recipients
    BY <1>0, <1>3, <2>0, KeepsPrefs DEF createSendReq, Fails
  <2>2. DraftInv'
    BY <1>0, <1>3, <2>1 DEF createSendReq, Fails, DraftInv
  <2>3. SentInv' /\ ParentIsMessage'
    BY <1>0, <1>3 DEF createSendReq, Fails, SentInv, ParentIsMessage
  <2> QED
    BY <2>1, <2>2, <2>3 DEF IInv
<1>4. CASE SendDraft
  <2>0. UNION {p.to : p \in Packages} = DOMAIN prefs /\ DOMAIN prefs = Recipients
    BY <1>0, <1>4, InPackages DEF SendDraft, PrefsInv
  <2>1. PrefsInv' /\ Recipients' = Recipients
    BY <1>0, <1>4, KeepsPrefs DEF SendDraft, Fails
  <2>2. DraftInv'
    BY <1>0, <1>4, <2>1 DEF SendDraft, Fails, DraftInv
  <2>3. SentInv' /\ ParentIsMessage'
    BY <1>0, <1>4, <2>0, <2>1 DEF SendDraft, Fails, SentInv, ParentIsMessage
  <2> QED
    BY <2>1, <2>2, <2>3 DEF IInv
<1>5. CASE DeleteMessage
  <2>1. PrefsInv' /\ Recipients' = Recipients
    BY <1>0, <1>5, KeepsPrefs DEF DeleteMessage, MayDelete
  <2>2. DraftInv' /\ SentInv' /\ ParentIsMessage'
    BY <1>0, <1>5, <2>1 DEF DeleteMessage, MayDelete, DraftInv, SentInv, ParentIsMessage
  <2> QED
    BY <2>1, <2>2 DEF IInv
<1>6. ASSUME NEW f \in Attachments, UploadAttachment(f) PROVE IInv'
  <2>1. PrefsInv' /\ Recipients' = Recipients
    BY <1>0, <1>6, KeepsPrefs DEF UploadAttachment, Fails
  <2>2. DraftInv' /\ SentInv' /\ ParentIsMessage'
    BY <1>0, <1>6, <2>1 DEF UploadAttachment, Fails, DraftInv, SentInv, ParentIsMessage
  <2> QED
    BY <2>1, <2>2 DEF IInv
<1>7. ASSUME NEW a \in Addrs, getRecipients(a) PROVE IInv'
  <2>0. Recipients' = Recipients /\ draft = {Recipients} /\ Draft = Recipients /\ mail.mimeType \in TextTypes
    BY <1>0, <1>7 DEF getRecipients, DraftInv, Draft, Recipients, BCCList
  <2>1. DraftInv' /\ SentInv' /\ ParentIsMessage'
    BY <1>0, <1>7, <2>0 DEF getRecipients, GetRecipientsFails, Fails, DraftInv, SentInv, ParentIsMessage
  <2>2. CASE UNCHANGED <<prefs, found>>
    <3>1. PrefsInv'
      BY <1>0, <1>7, <2>2, KeepsPrefs DEF getRecipients, GetRecipientsFails, Fails
    <3> QED
      BY <2>1, <3>1 DEF IInv
  <2>3. CASE ~ UNCHANGED <<prefs, found>>
    <3>1. PICK c \in Contacts(Draft) :
             LET p == PrefsOf(c, settings, mail.mimeType)
             IN  /\ p.ok
                 /\ prefs' = [x \in DOMAIN prefs \cup {a} |-> IF x = a THEN p ELSE prefs[x]]
                 /\ found' = [x \in DOMAIN found \cup {a} |-> IF x = a THEN c ELSE found[x]]
                 /\ UNCHANGED <<pc, err>>
      BY <1>7, <2>3 DEF getRecipients, PrefsOf
    <3>2. c \in Lookups
      BY <1>0, <2>0, RecipientsAre, ComposeAssumption DEF DraftInv
    <3> DEFINE p == PrefsOf(c, settings, mail.mimeType)
    <3>3. /\ p.ok /\ UNCHANGED <<pc, err, mail, settings>> /\ pc = "attachments" /\ a \in Recipients
          /\ prefs' = [x \in DOMAIN prefs \cup {a} |-> IF x = a THEN p ELSE prefs[x]]
          /\ found' = [x \in DOMAIN found \cup {a} |-> IF x = a THEN c ELSE found[x]]
      BY <1>7, <2>0, <3>1 DEF getRecipients
    <3>4. \A x \in DOMAIN prefs' :
             /\ found'[x] \in Lookups /\ prefs'[x].ok
             /\ prefs'[x] = PrefsOf(found'[x], settings, mail.mimeType)
      <4> SUFFICES ASSUME NEW x \in DOMAIN prefs \cup {a}
                   PROVE  /\ found'[x] \in Lookups /\ prefs'[x].ok
                          /\ prefs'[x] = PrefsOf(found'[x], settings, mail.mimeType)
        BY <3>3
      <4>1. CASE x = a
        <5>1. prefs'[x] = p /\ found'[x] = c
          BY <1>0, <3>3, <4>1 DEF PrefsInv
        <5> HIDE DEF p
        <5> QED
          BY <3>2, <3>3, <5>1 DEF p
      <4>2. CASE x # a
        <5>1. prefs'[x] = prefs[x] /\ found'[x] = found[x] /\ x \in DOMAIN prefs
          BY <1>0, <3>3, <4>2 DEF PrefsInv
        <5> QED
          BY <1>0, <5>1 DEF PrefsInv
      <4> QED
        BY <4>1, <4>2
    <3> HIDE DEF p
    <3>5. DOMAIN found' = DOMAIN prefs' /\ DOMAIN prefs' \subseteq Recipients
      BY <1>0, <3>3 DEF PrefsInv
    <3>6. \A x \in DOMAIN prefs' : prefs'[x] = PrefsOf(found'[x], settings', mail'.mimeType)
      BY <3>3, <3>4
    <3>7. PrefsInv'
      BY <2>0, <3>3, <3>4, <3>5, <3>6 DEF PrefsInv
    <3> QED
      BY <2>1, <3>7 DEF IInv
  <2> QED
    BY <2>2, <2>3
<1>8. CASE UNCHANGED vars
  <2>1. PrefsInv' /\ Recipients' = Recipients
    BY <1>0, <1>8, KeepsPrefs DEF vars, PrefsInv
  <2>2. DraftInv' /\ SentInv' /\ ParentIsMessage'
    BY <1>0, <1>8, <2>1 DEF vars, DraftInv, SentInv, ParentIsMessage
  <2> QED
    BY <2>1, <2>2 DEF IInv
<1> QED
  BY <1>1, <1>2, <1>3, <1>4, <1>5, <1>6, <1>7, <1>8 DEF Next

(* The invariant holds in every reachable state. *)
LEMMA Invariance == Spec => []IInv
BY InitIInv, StepIInv, PTL DEF Spec

-----------------------------------------------------------------------------
(* The inductive invariant implies the three parts of the property. *)
LEMMA IInvServes == IInv => EnvelopeServed /\ OnePackage /\ ToldTheTruth
<1> SUFFICES ASSUME IInv PROVE EnvelopeServed /\ OnePackage /\ ToldTheTruth
  OBVIOUS
<1>0. DraftInv /\ PrefsInv /\ SentInv
  BY DEF IInv
<1>1. EnvelopeServed
  BY <1>0, RecipientsAre DEF EnvelopeServed, DraftInv, SentInv, PrefsInv
<1>2. OnePackage
  <2> SUFFICES ASSUME pc = "send", NEW a \in Draft
               PROVE  /\ Cardinality({p \in Packages : a \in p.to}) = 1
                      /\ Consistent(prefs[a], found[a].contact)
    BY DEF OnePackage
  <2>1. a \in DOMAIN prefs /\ ~Refused
    BY <1>0 DEF DraftInv, PrefsInv, Draft
  <2>2. PICK q : {p \in Packages : a \in p.to} = {q}
    BY <1>0, <2>1, InOnePackage
  <2> QED
    BY <1>0, <2>1, <2>2, KnownPrefs, FS_Singleton
<1>3. ToldTheTruth
  <2> SUFFICES ASSUME pc = "failed", sent # {} PROVE mapError # "no email was sent"
    BY DEF ToldTheTruth
  <2>1. ~MatchAll(NothingSent)
    BY <1>0 DEF SentInv, MatchAll, NothingSent
  <2> QED
    BY <2>1 DEF mapError
<1> QED
  BY <1>1, <1>2, <1>3

(* A mail goes to everyone in its envelope and beyond them only to the     *)
(* listed copies, each in exactly one package, whatever fails on the way;  *)
(* the draft it replaces is deleted only once it is sent; no reply hangs   *)
(* on a draft; "no email was sent" is true (smtp.go, sendWithKey).         *)
THEOREM MailReachesItsEnvelope == Spec => RecipientsServed
<1>1. IInv => EnvelopeServed /\ OnePackage /\ ParentIsMessage /\ ToldTheTruth
  BY IInvServes DEF IInv
<1>2. IInv /\ [Next]_vars => [DraftStep]_vars
  <2> SUFFICES ASSUME IInv, Next, oldDraft' # oldDraft PROVE sent # {}
    BY DEF DraftStep
  <2>1. DeleteMessage
    BY DEF Next, getParentID, createDraft, createSendReq, SendDraft, UploadAttachment, getRecipients
  <2>2. pc = "delete"
    BY <2>1 DEF DeleteMessage, MayDelete
  <2> QED
    BY <2>2, RecipientsAre DEF IInv, DraftInv, SentInv
<1> QED
  BY Invariance, <1>1, <1>2, PTL DEF Spec, RecipientsServed

(* Whoever was sent the message got it encrypted unless nobody asked for   *)
(* that, and with a pinned key wherever the API serves one, with the       *)
(* contact and keys that the lookup of that recipient found                *)
(* (smtp_prefs.go, smtp_packages.go).                                      *)
THEOREM SentAsAsked == Spec => []EncryptedAsAsked
<1>1. IInv => EncryptedAsAsked
  <2> SUFFICES ASSUME IInv, NEW a \in sent
               PROVE  /\ ClearOnlyIfAllowed(prefs[a], found[a].contact, found[a].apiKeys, found[a].isInternal)
                      /\ PinnedPreferred(prefs[a], found[a].contact, found[a].apiKeys)
    BY DEF EncryptedAsAsked, NoneInTheClear, PinnedKeys
  <2> QED
    BY KnownPrefs DEF IInv, SentInv
<1> QED
  BY Invariance, <1>1, PTL
=============================================================================
