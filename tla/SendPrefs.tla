----------------------------- MODULE SendPrefs -----------------------------
(* How a message goes to one recipient: encrypted or not, signed or not, in
   which scheme and MIME type and with which key
   (internal/services/smtp/smtp_prefs.go). A value that may be missing is a set
   of at most one element, as the pointers of the code are nil or not. *)
EXTENDS Naturals, Sequences, SequencesExt

CONSTANTS
  Keys,         \* public keys, by fingerprint
  BadKey        \* a key that cannot be parsed

Schemes == {"pgp-inline", "pgp-mime"}
TextTypes == {"text/html", "text/plain"}
Maybe(S) == {{}} \cup {{x} : x \in S}

(* proton.ContactSettings, what the vCard of the recipient says. *)
ContactSettings ==
  [MIMEType : Maybe(TextTypes \cup {"multipart/mixed"}), Sign : Maybe(BOOLEAN), Encrypt : Maybe(BOOLEAN),
   EncryptUntrusted : Maybe(BOOLEAN), Scheme : Maybe(Schemes), Keys : Seq(Keys)]

(* proton.MailSettings, as far as they are used: the account's defaults. *)
MailSettings == [Sign : BOOLEAN, PGPScheme : Maybe(Schemes), DraftMIMEType : TextTypes]

newContactSettings(s) ==
  [MIMEType |-> s.MIMEType, Sign |-> TRUE \in s.Sign, SignIsSet |-> s.Sign # {}, Encrypt |-> TRUE \in s.Encrypt,
   EncryptUntrusted |-> FALSE \notin s.EncryptUntrusted, Scheme |-> s.Scheme, Keys |-> s.Keys]

----------------------------------------------------------------------------
(* sendPrefsBuilder and its with...Default methods. *)
NewBuilder == [internal |-> FALSE, encrypt |-> {}, sign |-> {}, scheme |-> {}, mimeType |-> {}, publicKey |-> {}, ok |-> TRUE]
Default(field, v) == IF field = {} THEN v ELSE field

shouldEncrypt(b) == TRUE \in b.encrypt
shouldSign(b) == TRUE \in b.sign

(* pickSendingKey: the first key of the API that the contact has pinned, else
   the first key of the API, for which nobody asks. A key that cannot be parsed
   fails it, wherever it is. *)
matchFingerprints(a, b) == {i \in 1..Len(b) : \E j \in 1..Len(a) : a[j] = b[i]}
First(S) == CHOOSE i \in S : \A j \in S : i <= j
Parses(ks) == \A i \in 1..Len(ks) : ks[i] # BadKey

pickSendingKey(v, apiKeys) ==
  IF ~Parses(v.Keys) \/ ~Parses(apiKeys) THEN {}
  ELSE LET matched == matchFingerprints(v.Keys, apiKeys)
       IN  {apiKeys[IF matched # {} THEN First(matched) ELSE 1]}

WithSendingKey(b, v, apiKeys) ==
  [b EXCEPT !.publicKey = pickSendingKey(v, apiKeys), !.ok = pickSendingKey(v, apiKeys) # {}]

setInternalPGPSettings(b, v, apiKeys) ==
  IF apiKeys = <<>> THEN [b EXCEPT !.ok = FALSE]
  ELSE WithSendingKey([b EXCEPT !.internal = TRUE, !.encrypt = {TRUE}, !.sign = {TRUE},
                                !.scheme = {"internal"}, !.mimeType = v.MIMEType], v, apiKeys)

(* The encryption of a contact whose keys come from WKD follows
   EncryptUntrusted alone, whether its keys are pinned or not. *)
MutEncryptsWKD(v) == v.Encrypt
EncryptsWKD(v) == v.EncryptUntrusted

setExternalPGPSettingsWithWKDKeys(b, v, apiKeys) ==
  WithSendingKey([b EXCEPT !.encrypt = {EncryptsWKD(v)},
                           !.sign = IF EncryptsWKD(v) THEN {TRUE} ELSE IF v.SignIsSet THEN {v.Sign} ELSE {},
                           !.scheme = v.Scheme,
                           !.mimeType = IF v.Scheme = {"pgp-inline"} THEN {"text/plain"} ELSE {}], v, apiKeys)

setExternalPGPSettingsWithoutWKDKeys(b, v) ==
  LET set == [b EXCEPT !.encrypt = {v.Encrypt},
                       !.sign = IF v.Encrypt THEN {TRUE} ELSE IF v.SignIsSet THEN {v.Sign} ELSE {},
                       !.scheme = v.Scheme,
                       !.mimeType = IF ~v.Sign THEN v.MIMEType
                                    ELSE IF v.Scheme = {"pgp-inline"} THEN {"text/plain"} ELSE {}]
  IN  IF v.Keys = <<>> THEN set
      ELSE [set EXCEPT !.publicKey = {v.Keys[1]}, !.ok = v.Keys[1] # BadKey]

setPGPSettings(b, v, apiKeys, isInternal) ==
  IF isInternal THEN setInternalPGPSettings(b, v, apiKeys)
  ELSE IF apiKeys # <<>> THEN setExternalPGPSettingsWithWKDKeys(b, v, apiKeys)
  ELSE setExternalPGPSettingsWithoutWKDKeys(b, v)

(* setEncryptionPreferences: the account's defaults for what is not set. *)
SignDefault(b, ms) == IF shouldEncrypt(b) THEN {TRUE} ELSE Default(b.sign, IF ms.Sign THEN {TRUE} ELSE {})

setEncryptionPreferences(b, ms) ==
  LET c == [b EXCEPT !.encrypt = Default(b.encrypt, {FALSE}), !.sign = SignDefault(b, ms),
                     !.scheme = Default(b.scheme, ms.PGPScheme)]
  IN  [c EXCEPT !.mimeType = IF shouldSign(c) /\ c.scheme = {"pgp-inline"} THEN {"text/plain"}
                             ELSE Default(c.mimeType, {ms.DraftMIMEType})]

(* setMIMEPreferences: what is signed goes as the scheme wants it, the rest as
   the composer does. *)
SignedType(b) == IF b.scheme = {"pgp-inline"} THEN {"text/plain"} ELSE {"multipart/mixed"}

setMIMEPreferences(b, composer) ==
  IF ~b.internal /\ shouldSign(b) THEN [b EXCEPT !.mimeType = SignedType(b)]
  ELSE IF composer = "text/plain" THEN [b EXCEPT !.mimeType = {"text/plain"}]
  ELSE b

(* build: the EncryptionScheme that follows from the flags. *)
EncryptionScheme(b) ==
  CASE b.internal                                                     -> "Internal"
    [] ~b.internal /\ shouldSign(b) /\ shouldEncrypt(b)               -> IF b.scheme = {"pgp-inline"} THEN "PGPInline" ELSE "PGPMIME"
    [] ~b.internal /\ shouldSign(b) /\ ~shouldEncrypt(b)              -> IF b.scheme = {"pgp-inline"} THEN "Clear" ELSE "ClearMIME"
    [] OTHER                                                          -> "Clear"

build(b) ==
  [Encrypt |-> shouldEncrypt(b), MIMEType |-> b.mimeType, PubKey |-> b.publicKey, Signed |-> shouldSign(b),
   EncryptionScheme |-> EncryptionScheme(b), ok |-> b.ok]

(* buildSendPrefs; ok is FALSE where the code returns an error. *)
buildSendPrefs(contact, ms, apiKeys, composer, isInternal) ==
  build(setMIMEPreferences(
          setEncryptionPreferences(setPGPSettings(NewBuilder, newContactSettings(contact), apiKeys, isInternal), ms), composer))

----------------------------------------------------------------------------
(* What a recipient's preferences have to satisfy so that createSendReq can
   put the recipient into a package (see Compose): encrypted is signed and, if
   the contact has a key, has a key to encrypt for, PGP inline is plain text, a
   MIME scheme is multipart/mixed, and clear or internal mail is not, unless the
   contact of an internal recipient asks for it. *)
Consistent(p, contact) ==
  /\ p.Encrypt => p.Signed /\ (p.PubKey # {} \/ (contact.Keys = <<>> /\ contact.Encrypt = {TRUE} /\ p.EncryptionScheme # "Internal"))
  /\ p.EncryptionScheme = "PGPInline" => p.MIMEType = {"text/plain"}
  /\ p.EncryptionScheme \in {"PGPMIME", "ClearMIME"} => p.MIMEType = {"multipart/mixed"}
  /\ p.EncryptionScheme = "Clear" =>
       (p.MIMEType \in {{"text/html"}, {"text/plain"}} \/ (~p.Signed /\ contact.MIMEType = {"multipart/mixed"}))
  /\ p.EncryptionScheme = "Internal" => (p.Encrypt /\ (p.MIMEType \in {{"text/html"}, {"text/plain"}} \/ p.MIMEType = contact.MIMEType))

(* In the clear goes only what nobody asked to encrypt: never an internal
   recipient, one with keys from WKD only if the contact says not to trust
   those, one without only if the contact does not ask for encryption. *)
ClearOnlyIfAllowed(p, contact, apiKeys, isInternal) ==
  p.ok /\ ~p.Encrypt => (~isInternal /\ IF apiKeys = <<>> THEN TRUE \notin contact.Encrypt ELSE contact.EncryptUntrusted = {FALSE})

(* Whether the contact has pinned key i of the API. *)
Pinned(contact, apiKeys, i) == \E j \in 1..Len(contact.Keys) : contact.Keys[j] = apiKeys[i]

(* The key of a message is the first of those the API serves that the contact
   has pinned, the first one served if none is pinned and, if the API serves
   none at all, the first one of the contact, if there is one; never one that
   cannot be parsed. *)
PinnedPreferred(p, contact, apiKeys) ==
  p.ok =>
    /\ BadKey \notin p.PubKey
    /\ apiKeys = <<>> => p.PubKey = IF contact.Keys = <<>> THEN {} ELSE {contact.Keys[1]}
    /\ apiKeys # <<>> => \E i \in 1..Len(apiKeys) :
         /\ p.PubKey = {apiKeys[i]}
         /\ \A j \in 1..(i - 1) : ~Pinned(contact, apiKeys, j)
         /\ Pinned(contact, apiKeys, i) \/ (i = 1 /\ \A j \in 1..Len(apiKeys) : ~Pinned(contact, apiKeys, j))
=============================================================================
