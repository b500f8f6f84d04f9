------------------------------ MODULE Compose ------------------------------
(* sendWithKey: what becomes of a message once the send recorder has let it
   through (internal/services/smtp/smtp.go, smtp_packages.go, errormapper.go
   and pkg/errmapper). A draft is created on the server, the attachments are
   uploaded, the preferences of every recipient are looked up, the packages are
   built and the draft is sent; any of these calls can fail, and the drafts that
   the message replaces are deleted last.

   Addresses and attachments are opaque. A message that is referred to is on
   the server as a draft, as sent or as received. *)
EXTENDS SendPrefs, FiniteSets

CONSTANTS
  Addrs,              \* addresses of recipients
  Attachments,
  Contacts(_),        \* what a lookup may find for the recipients of a draft: [contact, apiKeys, isInternal]
  Mails,              \* messages to send, see Mail below
  Accounts            \* mail settings of the account

(* A message: the envelope, the lists of its header, its type, what its From is
   to the user, its attachments, the kinds of the messages it refers to by an
   internal ID, and those the last external reference finds, in order. *)
Kinds == {"draft", "sent", "received"}
Mail == [to : SUBSET Addrs, toList : SUBSET Addrs, ccList : SUBSET Addrs, bccList : SUBSET Addrs,
         mimeType : TextTypes \cup {"other"}, sender : {"owned", "foreign", "missing"},
         attachments : SUBSET Attachments, internal : SUBSET Kinds, external : Seq(Kinds)]

(* What a lookup can find, and who a mail client can send for: a message has
   an envelope with at least one address. *)
Lookups == [contact : ContactSettings, apiKeys : Seq(Keys), isInternal : BOOLEAN]

ASSUME ComposeAssumption ==
  /\ \A to \in SUBSET Addrs : Contacts(to) \subseteq Lookups
  /\ Mails \subseteq Mail /\ \A m \in Mails : m.to # {}
  /\ Accounts \subseteq MailSettings

VARIABLES
  mail, settings, pc,
  parentID,           \* kind of the parent, if there is one
  draftsToDelete,     \* the draft the message replaces is to be deleted
  oldDraft,           \* it is on the server
  draft,              \* the recipients of the draft that was created, if it was
  uploaded, prefs,    \* attachments on the draft, preferences so far
  found,              \* what the lookups found
  sent,               \* the recipients of the message, once the server has accepted it
  err                 \* the chain of errors the caller gets

vars == <<mail, settings, pc, parentID, draftsToDelete, oldDraft, draft, uploaded, prefs, found, sent, err>>

Init ==
  /\ mail \in Mails /\ settings \in Accounts /\ pc = "parent"
  /\ parentID = {} /\ draftsToDelete = FALSE /\ oldDraft = ("draft" \in mail.internal)
  /\ draft = {} /\ uploaded = {} /\ prefs = <<>> /\ found = <<>> /\ sent = {} /\ err = {}

Fails(chain) == pc' = "failed" /\ err' = {"ErrSendMessageOperation"} \cup chain

(* getParentID. With references of both sorts the internal ones win; of several
   messages with the external ID the first sent one is taken. A lookup that
   fails loses the parent and the drafts, and nothing else. *)
ExternalParent ==
  CASE Len(mail.external) = 0 -> {}
    [] Len(mail.external) = 1 -> {mail.external[1]} \ {"draft"}
    [] OTHER                  -> Range(mail.external) \cap {"sent"}

getParentID ==
  /\ pc = "parent" /\ pc' = "draft"
  /\ \/ LET internal == mail.internal \ {"draft"}
        IN  /\ parentID' \in IF internal # {} THEN {{k} : k \in internal} ELSE {ExternalParent}
            /\ draftsToDelete' = ("draft" \in mail.internal)
     \/ UNCHANGED <<parentID, draftsToDelete>>
  /\ UNCHANGED <<mail, settings, oldDraft, draft, uploaded, prefs, found, sent, err>>

(* createDraft: ToList is cut down to the envelope, CCList and BCCList are not,
   and whoever is in the envelope only becomes a BCC. *)
MutBCCList == mail.bccList
BCCList == mail.bccList \cup (mail.to \ (mail.toList \cup mail.ccList))
Recipients == (mail.toList \cap mail.to) \cup mail.ccList \cup BCCList

createDraft ==
  /\ pc = "draft"
  /\ \/ mail.mimeType = "other" /\ Fails({"ErrUnsupportedOutgoingMIME"}) /\ UNCHANGED draft
     \/ mail.mimeType # "other" /\ mail.sender = "foreign" /\ Fails({"ErrSenderAddressNotOwned"}) /\ UNCHANGED draft
     \/ /\ mail.mimeType # "other" /\ mail.sender # "foreign"
        /\ \/ draft' = {Recipients} /\ pc' = "attachments" /\ UNCHANGED err
           \/ /\ \E e \in {"ErrValidationFailed", "ErrMessageTooLarge", "ErrInvalidListOfRecipients", "other"} : Fails({e})
              /\ UNCHANGED draft
  /\ UNCHANGED <<mail, settings, parentID, draftsToDelete, oldDraft, uploaded, prefs, found, sent>>

(* createAttachments uploads them side by side; the first failure ends it. *)
UploadAttachment(a) ==
  /\ pc = "attachments" /\ a \in mail.attachments \ uploaded
  /\ \/ uploaded' = uploaded \cup {a} /\ UNCHANGED <<pc, err>>
     \/ Fails({}) /\ UNCHANGED uploaded
  /\ UNCHANGED <<mail, settings, parentID, draftsToDelete, oldDraft, draft, prefs, found, sent>>

(* getRecipients: the keys and the contact of each recipient, side by side. *)
GetRecipientsFails(chain) == Fails({"ErrGetRecipientsOperation", "ErrGetSendPreferencesOperation"} \cup chain)
Draft == UNION draft

getRecipients(a) ==
  /\ pc = "attachments" /\ uploaded = mail.attachments
  /\ a \in Draft \ DOMAIN prefs
  /\ \/ \E c \in Contacts(Draft) :
          LET p == buildSendPrefs(c.contact, settings, c.apiKeys, mail.mimeType, c.isInternal)
          IN  IF p.ok
                THEN /\ prefs' = [x \in DOMAIN prefs \cup {a} |-> IF x = a THEN p ELSE prefs[x]]
                     /\ found' = [x \in DOMAIN found \cup {a} |-> IF x = a THEN c ELSE found[x]]
                     /\ UNCHANGED <<pc, err>>
                ELSE GetRecipientsFails({}) /\ UNCHANGED <<prefs, found>>
     \/ /\ \E e \in {{}, {"ErrRecipientAddressDoesNotExist"}} : GetRecipientsFails({"ErrLookupRecipientPublicKey"} \cup e)
        /\ UNCHANGED <<prefs, found>>
  /\ UNCHANGED <<mail, settings, parentID, draftsToDelete, oldDraft, draft, uploaded, sent>>

(* createSendReq: a MIME package and a text package for each text type. *)
scheme(S) == {a \in DOMAIN prefs : prefs[a].EncryptionScheme \in S}
content(as, t) == {a \in as : prefs[a].MIMEType = {t}}
TextSchemes == {"Internal", "Clear", "PGPInline"}
Packages ==
  {[type |-> "multipart/mixed", to |-> scheme({"PGPMIME", "ClearMIME"})]}
    \cup {[type |-> t, to |-> content(scheme(TextSchemes), t)] : t \in TextTypes}

(* The packages of the API library refuse a recipient who is to be encrypted
   for and has no key, as the code here does multipart/mixed text. *)
Refused ==
  \/ content(scheme(TextSchemes), "multipart/mixed") # {}
  \/ \E a \in DOMAIN prefs : prefs[a].Encrypt /\ prefs[a].PubKey = {}

createSendReq ==
  /\ pc = "attachments" /\ uploaded = mail.attachments /\ DOMAIN prefs = Draft
  /\ IF Refused THEN Fails({}) ELSE pc' = "send" /\ UNCHANGED err
  /\ UNCHANGED <<mail, settings, parentID, draftsToDelete, oldDraft, draft, uploaded, prefs, found, sent>>

(* SendDraft; the answer can be lost after the message went out. *)
SendDraft ==
  /\ pc = "send"
  /\ \/ /\ sent' = UNION {p.to : p \in Packages} /\ draft' = {}
        /\ \/ pc' = "delete" /\ UNCHANGED err
           \/ Fails({})
     \/ Fails({}) /\ UNCHANGED <<sent, draft>>
  /\ UNCHANGED <<mail, settings, parentID, draftsToDelete, oldDraft, uploaded, prefs, found>>

(* The drafts it replaces, last; a failure is logged. *)
MayDelete == pc = "delete"

DeleteMessage ==
  /\ MayDelete /\ pc' = IF pc = "delete" THEN "done" ELSE pc
  /\ \/ draftsToDelete /\ oldDraft' = FALSE
     \/ UNCHANGED oldDraft
  /\ UNCHANGED <<mail, settings, parentID, draftsToDelete, draft, uploaded, prefs, found, sent, err>>

Next ==
  \/ getParentID \/ createDraft \/ createSendReq \/ SendDraft \/ DeleteMessage
  \/ \E a \in Attachments : UploadAttachment(a)
  \/ \E a \in Addrs : getRecipients(a)
Spec == Init /\ [][Next]_vars

(* mapError at the border to the mail client: the first rule that matches. *)
NothingSent == {"ErrSendMessageOperation", "ErrGetRecipientsOperation", "ErrGetSendPreferencesOperation",
                "ErrLookupRecipientPublicKey", "ErrRecipientAddressDoesNotExist"}
MatchAll(targets) == targets \subseteq err
mapError ==
  CASE MatchAll(NothingSent)                                                                  -> "no email was sent"
    [] ~MatchAll(NothingSent) /\ MatchAll({"ErrSendMessageOperation", "ErrValidationFailed"}) -> "malformed message"
    [] OTHER                                                                                  -> "other"

----------------------------------------------------------------------------
(* A message that is sent goes to everyone in the envelope, and beyond them
   only to the CC and BCC addresses of its header. *)
EnvelopeServed ==
  /\ pc \in {"delete", "done"} => mail.to \subseteq sent
  /\ sent \subseteq mail.to \cup mail.ccList \cup mail.bccList

(* Everyone is in exactly one package, of a type that fits the scheme. *)
OnePackage ==
  pc = "send" =>
    \A a \in Draft : /\ Cardinality({p \in Packages : a \in p.to}) = 1
                     /\ Consistent(prefs[a], found[a].contact)

(* Nobody gets in the clear what has to be encrypted. *)
NoneInTheClear ==
  \A a \in sent : ClearOnlyIfAllowed(prefs[a], found[a].contact, found[a].apiKeys, found[a].isInternal)

(* Encryption is for a pinned key wherever the API serves one. *)
PinnedKeys == \A a \in sent : PinnedPreferred(prefs[a], found[a].contact, found[a].apiKeys)

(* The draft that the message replaces is deleted only when the message has
   been sent; a message that was not sent leaves at most its own new draft. *)
DraftStep == oldDraft' # oldDraft => sent # {}

(* The parent of a reply is never a draft. *)
ParentIsMessage == "draft" \notin parentID

(* A mail client is told that no email was sent only when none was. *)
ToldTheTruth == (pc = "failed" /\ mapError = "no email was sent") => sent = {}

(* A mail goes to its envelope and its listed copies and to nobody else, each
   in exactly one package that fits the preferences, a reply has no draft
   for its parent, and the old draft goes only once the mail is sent, of
   which the client is told the truth. *)
RecipientsServed ==
  /\ [](EnvelopeServed /\ OnePackage /\ ParentIsMessage /\ ToldTheTruth)
  /\ [][DraftStep]_vars

(* Nobody is sent in the clear what has to be encrypted, and a pinned key is
   used wherever the API serves one. *)
EncryptedAsAsked == NoneInTheClear /\ PinnedKeys
=============================================================================
