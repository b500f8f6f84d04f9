------------------------------- MODULE MCMail -------------------------------
(* What becomes of a mail: the draft and the packages of one that is sent
   (Compose), the message that is built of one that is received (Build) and the
   parsed form of one that a mail client wrote (Mime). Each works on one mail
   at a time, so one run takes them one at a time. *)
EXTENDS Compose

CONSTANTS None, k1, k2, ann, bob, carol, file

VARIABLES
  part,     \* the part of the program this behaviour is about
  job, pcBuild, body, parts, header, update,
  tree, original, smtp, pcMime, atts, rich, plain, mimeType, written

(* Compose with every contact for a message to one recipient, and a few
   contacts for the others. *)
KeyLists == {<<>>, <<k1>>, <<k2, k1>>, <<BadKey>>}
AllContacts ==
  [contact : [MIMEType : Maybe(TextTypes \cup {"multipart/mixed"}), Sign : Maybe(BOOLEAN), Encrypt : Maybe(BOOLEAN),
              EncryptUntrusted : Maybe(BOOLEAN), Scheme : Maybe(Schemes), Keys : KeyLists],
   apiKeys : KeyLists, isInternal : BOOLEAN]
NoContact == [MIMEType |-> {}, Sign |-> {}, Encrypt |-> {}, EncryptUntrusted |-> {}, Scheme |-> {}, Keys |-> <<>>]
FewContacts ==
  {[contact |-> NoContact, apiKeys |-> <<>>, isInternal |-> FALSE],
   [contact |-> NoContact, apiKeys |-> <<k1>>, isInternal |-> TRUE],
   [contact |-> [NoContact EXCEPT !.Scheme = {"pgp-inline"}], apiKeys |-> <<k1>>, isInternal |-> FALSE],
   [contact |-> [NoContact EXCEPT !.Encrypt = {TRUE}], apiKeys |-> <<>>, isInternal |-> FALSE]}
ContactsOf(to) == IF to = {carol} THEN AllContacts ELSE FewContacts

Letter == [to |-> {carol}, toList |-> {carol}, ccList |-> {}, bccList |-> {}, mimeType |-> "text/html", sender |-> "owned",
           attachments |-> {}, internal |-> {}, external |-> <<>>]
ToTwo(m) == m.to \cup m.ccList \cup m.bccList = {ann, bob}
Letters ==
  {Letter, [Letter EXCEPT !.mimeType = "text/plain"], [Letter EXCEPT !.mimeType = "other"]}
    \cup {m \in [to : {{ann}, {ann, bob}}, toList : {{}, {ann}, {ann, bob}}, ccList : SUBSET {bob}, bccList : SUBSET {ann},
                 mimeType : {"text/html"}, sender : {"owned", "foreign", "missing"}, attachments : SUBSET {file},
                 internal : {{}, {"draft"}, {"draft", "sent"}},
                 external : {<<>>, <<"draft">>, <<"received">>, <<"draft", "sent">>, <<"received", "draft">>}] :
            ToTwo(m) /\ (m.internal = {} \/ m.external = <<>>)}
AllAccounts == [Sign : BOOLEAN, PGPScheme : Maybe(Schemes), DraftMIMEType : {"text/html"}]

(* Build over the texts that are a subsequence of two long ones with line ends
   that change at most once, over every layout of up to three attachments, and
   over every header. *)
Long == <<"", "mbox", "from", "to", "date", "mbox", "space", "", "mbox", "">>
Quoted == <<"field", "quote", "field", "plain", "cont", "", "plain">>
Pick(master, S) == SelectSeq([i \in 1..Len(master) |-> IF i \in S THEN master[i] ELSE "-"], LAMBDA t : t # "-")
Ends(n) == {[i \in 1..n |-> IF i = n /\ eof THEN "eof" ELSE IF i <= k THEN e[1] ELSE e[2]] :
              k \in 0..n, e \in {<<"lf", "crlf">>, <<"crlf", "lf">>}, eof \in BOOLEAN}
Bodies(master) ==
  UNION {LET ts == Pick(master, S) IN {[i \in 1..Len(ts) |-> [text |-> ts[i], eol |-> e[i]]] : e \in Ends(Len(ts))} :
          S \in SUBSET (1..Len(master))}
Headers == [id : {"", "own", "external", "internal"}, date : {"", "valid", "old", "bad", "api"},
            original : {"", "own", "old", "zero"}, to : {"", "own", "api"}, refs : SUBSET {"own", "internal"}]
Job == [body |-> <<[text |-> "plain", eol |-> "lf"]>>, type |-> "text", bodyErr |-> "none", atts |-> <<>>, signed |-> FALSE,
        external |-> FALSE, lists |-> TRUE, hdr |-> [id |-> "", date |-> "", original |-> "", to |-> "", refs |-> {}],
        own |-> {}, parses |-> TRUE, v2 |-> TRUE]
AllAtts == UNION {[1..n -> [inline : BOOLEAN, err : BOOLEAN]] : n \in 0..3}
AllJobs ==
  {[Job EXCEPT !.body = t, !.type = "multipart/mixed"] : t \in Bodies(Long)}
    \cup {[Job EXCEPT !.body = t, !.type = "multipart/mixed", !.signed = s, !.v2 = v, !.own = o] :
            t \in Bodies(Quoted), s \in BOOLEAN, v \in BOOLEAN, o \in {{}, {"field"}}}
    \cup {[Job EXCEPT !.type = t, !.bodyErr = e, !.atts = as, !.parses = p] :
            t \in {"text", "multipart/mixed"}, e \in {"none", "locked", "garbage"}, as \in AllAtts, p \in BOOLEAN}
    \cup {[Job EXCEPT !.hdr = h, !.external = x, !.lists = l] : h \in Headers, x \in BOOLEAN, l \in BOOLEAN}

(* Mime over every message of up to three parts, each a leaf or one of a few
   multiparts that mail clients send, and of four parts of three kinds. *)
Single(type, disp, cid) == [type |-> type, disp |-> disp, cid |-> cid]
Singles ==
  {Single(t, d, FALSE) : t \in {"text/plain", "text/html", "text/other"}, d \in {"", "attachment"}}
    \cup {Single("text/calendar", "", FALSE), Single("application", "", FALSE), Single("image", "inline", FALSE),
          Single("image", "inline", TRUE), Single("image", "attachment", FALSE)}
Composed ==
  {Single("multipart/alternative", "text", FALSE), Single("multipart/alternative", "calendar", FALSE),
   Single("multipart/alternative", "related", FALSE), Single("multipart/related", "image", FALSE), Single("multipart/mixed", "text", FALSE)}
Few == {Single("text/plain", "", FALSE), Single("text/html", "", FALSE), Single("image", "inline", FALSE)}
Part(type, disp, cid, id, children) ==
  [type |-> type, disp |-> disp, cid |-> cid, id |-> id, shows |-> {}, children |-> children, bytes |-> "ascii",
   label |-> "none", meta |-> "none", misread |-> FALSE, filename |-> "none", name |-> "none", cte |-> "raw", odd |-> "no"]
(* Texts in every character set with every name for it, files with every header,
   transfer encodings, and parts of which something cannot be read, for messages
   of one part. *)
Texts ==
  {[Part(t, d, FALSE, 0, <<>>) EXCEPT !.bytes = b, !.label = l, !.meta = m] :
     t \in {"text/plain", "text/html", "text/calendar"}, d \in {"", "attachment"}, b \in {"ascii", "utf-8", "latin1", "latin2"},
     l \in {"none", "utf-8", "latin1", "latin2", "unknown"}, m \in {"none", "utf-8", "latin2", "hidden"}}
Files ==
  {[Part(t, d, c, 0, <<>>) EXCEPT !.filename = f, !.name = n, !.bytes = b] :
     t \in {"application", "image", "message/rfc822", "unreadable"}, d \in {"", "inline", "attachment", "unreadable"},
     c \in BOOLEAN, f \in {"none", "empty", "given"}, n \in {"none", "empty", "given"}, b \in {"ascii", "x80", "utf-8"}}
Variants ==
  {q \in Texts : q.type = "text/html" \/ q.meta = "none"}
    \cup {q \in Files : q.bytes = "ascii" \/ (q.filename = "none" /\ q.name = "none")}
Sent == Variants \cup
  {[q EXCEPT !.cte = e] : q \in {v \in Variants : v.label = "none" /\ v.meta = "none" /\ v.name = "none"},
                          e \in {"encoded", "word", "badword", "unknown"}}
Odd ==
  {[Part(t, d, FALSE, 0, <<>>) EXCEPT !.odd = o] :
     t \in {"text/plain", "application"}, d \in {"", "attachment"}, o \in {"subject", "content", "other", "malformed"}}
Strange == {[Part(t, "", FALSE, 0, <<>>) EXCEPT !.cte = e] : t \in {"text/plain", "application"}, e \in {"word", "badword", "unknown"}}
KindsOf(n) == CASE n = 1 -> Singles \cup Composed \cup Variants \cup Odd \cup Strange [] n \in {2, 3} -> Singles \cup Composed [] OTHER -> Few
AllRoots ==
  {Part(t, "", FALSE, 0, <<>>) : t \in {"text/other", "multipart/mixed", "multipart/related", "multipart/alternative"}} \cup Sent \cup Odd
    \cup {[Part("multipart/mixed", "", FALSE, 0, <<>>) EXCEPT !.odd = o] : o \in {"subject", "content", "malformed"}}

Multi(type, id, ts) == Part(type, "", FALSE, id, [j \in 1..Len(ts) |-> Part(ts[j], "", FALSE, id + j, <<>>)])
ChildOf(k, i) ==
  LET id == 100 * i
  IN  CASE k \in Variants \cup Odd \cup Strange -> [k EXCEPT !.id = id]
        [] k \in Singles           -> Part(k.type, k.disp, k.cid, id, <<>>)
        [] k \in Composed /\ k.disp = "text"     -> Multi(k.type, id, <<"text/plain", "text/html">>)
        [] k \in Composed /\ k.disp = "calendar" -> Multi(k.type, id, <<"text/html", "text/calendar">>)
        [] k \in Composed /\ k.disp = "image"    -> Multi(k.type, id, <<"text/html", "image">>)
        [] k \in Composed /\ k.disp = "related"  ->
             Part(k.type, "", FALSE, id, <<Part("text/plain", "", FALSE, id + 1, <<>>), Multi("multipart/related", id + 10, <<"text/html", "image">>)>>)

Build == INSTANCE Build WITH
  pc <- pcBuild, Jobs <- AllJobs
Mime == INSTANCE Mime WITH
  pc <- pcMime,
  Roots <- AllRoots, Kinds <- KindsOf, Child <- ChildOf, MaxParts <- 4

buildVars == <<job, pcBuild, body, parts, header, update>>
mimeVars == <<tree, original, smtp, pcMime, atts, rich, plain, mimeType, written>>
mcVars == <<part, vars, buildVars, mimeVars>>

(* The variables of the other parts have no value; those of Compose wait. *)
NoCompose ==
  /\ mail = Letter /\ settings = [Sign |-> TRUE, PGPScheme |-> {}, DraftMIMEType |-> "text/html"] /\ pc = "parent"
  /\ parentID = {} /\ draftsToDelete = FALSE /\ oldDraft = FALSE
  /\ draft = {} /\ uploaded = {} /\ prefs = <<>> /\ found = <<>> /\ sent = {} /\ err = {}
NoBuild == job = None /\ pcBuild = None /\ body = None /\ parts = None /\ header = None /\ update = None
NoMime == tree = None /\ original = None /\ smtp = None /\ pcMime = None /\ atts = None /\ rich = None /\
          plain = None /\ mimeType = None /\ written = None

MCInit ==
  \/ part = "compose" /\ Init /\ NoBuild /\ NoMime
  \/ part = "build" /\ Build!Init /\ NoCompose /\ NoMime
  \/ part = "mime" /\ Mime!Init /\ NoCompose /\ NoBuild

MCNext ==
  \/ part = "compose" /\ Next /\ UNCHANGED <<part, buildVars, mimeVars>>
  \/ part = "build" /\ Build!Next /\ UNCHANGED <<part, vars, mimeVars>>
  \/ part = "mime" /\ Mime!Next /\ UNCHANGED <<part, vars, buildVars>>

MCSpec == MCInit /\ [][MCNext]_mcVars

-----------------------------------------------------------------------------
(* A message that is received is served with every attachment once, its text
   as it was, nothing lost between header and body and its header stable,
   or as a placeholder when it is damaged (Build). *)
BuiltFaithfully ==
  part = "build" =>
    /\ Build!PlaceholderOnlyIf /\ Build!EachOnce /\ Build!TextKept
    /\ Build!SplitAgrees /\ Build!NothingLost /\ Build!HeaderStable

=============================================================================
