-------------------------------- MODULE Mime --------------------------------
(* How a message that a mail client hands over, to send or to import, is taken
   apart: its tree of MIME parts is patched and then read as attachments, a rich
   body and a plain body (pkg/message/parser.go and pkg/message/parser).

   A part has a number for its content, and a text part the numbers of the
   images that it shows. Of its bytes the model knows the character set they
   are in, the ones that the header and a meta tag name, and whether the text
   was misread on the way. *)
EXTENDS Naturals, Sequences, SequencesExt, FiniteSets, TLC

CONSTANTS
  Roots,            \* outermost parts, without their parts
  Kinds(_),         \* kinds of parts of a multipart of so many
  Child(_, _),      \* a part of a kind at a place, its content numbered by the place
  MaxParts          \* the most parts it has

Text == {"text/plain", "text/html", "text/calendar", "text/other"}
Body == {"text/plain", "text/html"}
Multipart == {"multipart/mixed", "multipart/related", "multipart/alternative"}

VARIABLES tree, original, smtp, pc, atts, rich, plain, mimeType,
          written   \* the MIME body, for recipients who get the message as it is
vars == <<tree, original, smtp, pc, atts, rich, plain, mimeType, written>>

(* The character set of the bytes ("x80": none above 128), the one named in the
   header and the one in a meta tag ("hidden": its tag has a content attribute
   that cannot be read); the file names; the transfer encoding ("raw" is none,
   7bit, 8bit and binary); and what of it cannot be read: its Subject, a field
   about its content, another field, or the part itself ("malformed"). *)
Plain == [bytes |-> "ascii", label |-> "none", meta |-> "none", misread |-> FALSE,
          filename |-> "none", name |-> "none", cte |-> "raw", odd |-> "no"]
Part(type, disp, cid, id, children) ==
  [type |-> type, disp |-> disp, cid |-> cid, id |-> id, shows |-> {}, children |-> children] @@ Plain
IsAttachment(p) == p.disp = "attachment"

(* A leaf or a multipart with its parts, as they were sent. *)
Init ==
  /\ \E r \in Roots, n \in 0..MaxParts :
       /\ r.type \notin Multipart => n = 0
       /\ \E ks \in [1..n -> Kinds(n)] : tree = [r EXCEPT !.children = [i \in 1..n |-> Child(ks[i], i)]]
  /\ smtp \in BOOLEAN
  /\ original = tree /\ pc = "new"
  /\ atts = <<>> /\ rich = <<>> /\ plain = <<>> /\ mimeType = "" /\ written = <<>>

RECURSIVE Walk(_)
Walk(p) == <<p>> \o FlattenSeq([i \in 1..Len(p.children) |-> Walk(p.children[i])])
Some(p, Is(_)) == LET ps == Walk(p) IN \E i \in 1..Len(ps) : Is(ps[i])

(* parser.New reads the parts and decodes their bodies. What go-message cannot
   read is an error, and so is the transfer encoding of an inner part that it
   does not know, be it for an encoded word ("word", and "badword" in an unknown
   character set); the body of an outermost part with such a one stays as it
   came. *)
Undecoded(p) == p.type \notin Multipart /\ p.cte \in {"word", "badword", "unknown"}
parseEntity(p) == IF Undecoded(p) THEN [p EXCEPT !.misread = TRUE, !.bytes = IF p.cte = "unknown" THEN @ ELSE "ascii"] ELSE p

New ==
  /\ pc = "new"
  /\ IF \/ Some(tree, LAMBDA p : p.odd = "malformed")
        \/ \E i \in 1..Len(tree.children) : Some(tree.children[i], Undecoded)
     THEN pc' = "unreadable" /\ UNCHANGED tree
     ELSE pc' = (IF smtp THEN "text" ELSE "convert") /\ tree' = parseEntity(tree)
  /\ UNCHANGED <<original, smtp, atts, rich, plain, mimeType, written>>

----------------------------------------------------------------------------
(* AddChild makes a multipart/mixed of what is none; the content and the fields
   about it move into its first part. *)
AddChild(p, c) ==
  IF p.type = "multipart/mixed" THEN [p EXCEPT !.children = Append(@, c)]
  ELSE [Part("multipart/mixed", "", p.cid, 0, <<[p EXCEPT !.cid = FALSE, !.odd = IF @ = "content" THEN @ ELSE "no"], c>>)
          EXCEPT !.odd = IF p.odd = "content" THEN "no" ELSE p.odd]

InsertChild(p, i, c) ==
  IF p.type \in {"multipart/mixed", "multipart/related"} THEN [p EXCEPT !.children = InsertAt(@, i, c)] ELSE AddChild(p, c)

(* AttachEmptyTextPartIfNoneExists and AttachPublicKey, for what is sent. Any
   text is a text part, whatever its type, and that of a multipart other than
   mixed is not looked for. *)
EmptyText == Part("text/plain", "", FALSE, 980, <<>>)
PublicKey == Part("application", "attachment", FALSE, 990, <<>>)
HasText(p) ==
  IF p.type = "multipart/mixed" THEN \E i \in 1..Len(p.children) : p.children[i].disp = "" /\ p.children[i].type \in Text
  ELSE p.type \in Text

AttachEmptyTextPartIfNoneExists ==
  /\ pc = "text" /\ pc' = "key"
  /\ tree' = IF HasText(tree) THEN tree ELSE AddChild(tree, EmptyText)
  /\ UNCHANGED <<original, smtp, atts, rich, plain, mimeType, written>>

AttachPublicKey ==
  /\ pc = "key" /\ pc' = "convert"
  /\ tree' \in {tree, AddChild(tree, PublicKey)}
  /\ UNCHANGED <<original, smtp, atts, rich, plain, mimeType, written>>

----------------------------------------------------------------------------
(* Character sets. SelectDecoder knows the names of many; of a text without a
   known name UTF-8 is left as it is, and for the rest DetermineEncoding looks
   for a meta tag and else takes windows-1252, here "latin1". *)
SelectDecoder == {"utf-8", "latin1", "latin2"}
MetaCharset(p) == IF p.meta = "hidden" THEN "latin2" ELSE p.meta
selectSuitableDecoder(p) ==
  CASE p.label \in SelectDecoder                                               -> p.label
    [] p.label \notin SelectDecoder /\ p.bytes \in {"ascii", "utf-8"}          -> "utf-8"
    [] p.label \notin SelectDecoder /\ p.bytes \notin {"ascii", "utf-8"}       ->
         IF p.type = "text/html" /\ p.meta # "none" THEN MetaCharset(p) ELSE "latin1"

ConvertToUTF8(p) ==
  [p EXCEPT !.bytes = IF @ = "ascii" THEN @ ELSE "utf-8", !.label = "utf-8",
            !.misread = @ \/ (p.bytes # "ascii" /\ p.bytes # selectSuitableDecoder(p))]

ConvertMetaCharset(p) == IF p.meta \in {"none", "hidden"} THEN p ELSE [p EXCEPT !.meta = "utf-8"]

(* HTML is converted even where it is attached, other text only where it is not. *)
convertForeignEncodings(p) ==
  CASE p.type = "text/html"                                            -> ConvertMetaCharset(ConvertToUTF8(p))
    [] p.type \in Text \ {"text/html"} /\ ~IsAttachment(p)            -> ConvertToUTF8(p)
    [] OTHER                                                           -> p

(* Of a transfer encoding that comes as an encoded word the header gets the
   name; the body stays undecoded. One in an unknown character set is an error. *)
convertEncodedTransferEncoding(p) == IF p.cte = "word" THEN [p EXCEPT !.cte = "encoded"] ELSE p

RECURSIVE Converted(_)
Converted(p) ==
  [convertForeignEncodings(convertEncodedTransferEncoding(p)) EXCEPT
     !.children = [i \in 1..Len(p.children) |-> Converted(p.children[i])]]

convert ==
  /\ pc = "convert"
  /\ IF Some(tree, LAMBDA p : p.cte = "badword") THEN pc' = "unreadable" /\ UNCHANGED tree
     ELSE pc' = "patch" /\ tree' = Converted(tree)
  /\ UNCHANGED <<original, smtp, atts, rich, plain, mimeType, written>>

----------------------------------------------------------------------------
(* patchInlineImages: an inline image without an ID is shown by the plain text
   before it, or by a new part where there is none; every plain text, attached
   or not, then becomes HTML. The place of a new part is counted before any is
   inserted. *)
NeedsPatch(c) == c.type = "image" /\ c.disp = "inline" /\ ~c.cid
Images(cs) == {i \in 1..Len(cs) : NeedsPatch(cs[i])}
AfterText(cs) == {i \in Images(cs) : i > 1 /\ cs[i - 1].type = "text/plain"}
Patched(cs) ==
  [i \in 1..Len(cs) |->
     CASE i + 1 \in AfterText(cs)                                    -> [cs[i] EXCEPT !.type = "text/html", !.shows = {cs[i + 1].id}]
       [] i + 1 \notin AfterText(cs) /\ cs[i].type = "text/plain"    -> [cs[i] EXCEPT !.type = "text/html"]
       [] i \in Images(cs)                                           -> [cs[i] EXCEPT !.cid = TRUE]
       [] OTHER                                                      -> cs[i]]
Shower(c) == [Part("text/html", "", FALSE, 1000 + c.id, <<>>) EXCEPT !.shows = {c.id}, !.label = "utf-8"]

(* Each new part goes in at the old index of its image. *)
RECURSIVE InsertShowers(_, _)
InsertShowers(p, is) ==
  IF is = {} THEN p
  ELSE LET i == CHOOSE x \in is : \A y \in is : x <= y
       IN  InsertShowers(InsertChild(p, i, Shower(tree.children[i])), is \ {i})

(* A type, or the disposition of an image, that cannot be read is an error; an
   index past the end panics, and the message is refused. *)
Garbled(c) == c.type = "unreadable" \/ (c.type = "image" /\ c.disp = "unreadable")
Alone == Images(tree.children) \ AfterText(tree.children)
Panics ==
  /\ tree.type \notin {"multipart/mixed", "multipart/related"}
  /\ \E i, j \in Alone : i < j /\ j > Cardinality({k \in Alone : k < j}) + 2

patchInlineImages ==
  /\ pc = "patch"
  /\ IF Len(tree.children) >= 2 /\ \E i \in 1..Len(tree.children) : Garbled(tree.children[i])
     THEN pc' = "unreadable" /\ UNCHANGED tree
     ELSE IF Len(tree.children) < 2 \/ Images(tree.children) = {} THEN pc' = "header" /\ UNCHANGED tree
     ELSE IF Panics THEN pc' = "refused" /\ UNCHANGED tree
     ELSE /\ pc' = "header"
          /\ tree' = InsertShowers([tree EXCEPT !.children = Patched(@)], Alone)
  /\ UNCHANGED <<original, smtp, atts, rich, plain, mimeType, written>>

(* parseMessageHeader: what is sent needs address lists that can be read; a
   draft that is imported does not. Both need a Subject that can be decoded. *)
parseMessageHeader ==
  /\ pc = "header"
  /\ \/ tree.odd # "subject" /\ pc' = "collect"
     \/ tree.odd = "subject" /\ pc' = "unreadable"
     \/ smtp /\ pc' = "invalid"
  /\ UNCHANGED <<tree, original, smtp, atts, rich, plain, mimeType, written>>

----------------------------------------------------------------------------
Collected(p) ==
  IsAttachment(p) \/ p.type = "text/calendar" \/ (p.type \notin Text /\ p.children = <<>>)

(* parseAttachment: the name, and the content ID by which the API tells that a
   part is shown inline. *)
NameOf(p) ==
  CASE p.filename = "given"                                 -> "filename"
    [] p.filename # "given" /\ p.name = "given"             -> "name"
    [] p.filename # "given" /\ p.name = "empty"             -> ""
    [] p.filename # "given" /\ p.name = "none"              ->
         IF p.type = "message/rfc822" THEN "message.eml" ELSE "attachment"

parseAttachment(p) ==
  [id |-> p.id, MIMEType |-> p.type, Name |-> NameOf(p), Disposition |-> p.disp, bytes |-> p.bytes, label |-> p.label, misread |-> p.misread,
   ContentID |-> p.cid /\ p.disp \in {"", "inline"}]

(* A field of its header that cannot be decoded (toMailHeader), or a type or a
   disposition that cannot be read, is an error. *)
ParseFails(p) == Collected(p) /\ (p.odd # "no" \/ p.type = "unreadable" \/ p.disp = "unreadable")

(* collectBodyParts: of alternatives the last that is all of the wanted type,
   else the last. *)
bestChoice(lists, wanted) ==
  LET fits == {i \in 1..Len(lists) : lists[i] # <<>> /\ \A k \in 1..Len(lists[i]) : lists[i][k].type = wanted}
  IN  CASE fits # {}                   -> lists[CHOOSE i \in fits : \A j \in fits : j <= i]
        [] fits = {} /\ lists # <<>>   -> lists[Len(lists)]
        [] OTHER                       -> <<>>

BodyPart(p) == p.type \in Body /\ ~IsAttachment(p)

RECURSIVE collectBodyParts(_, _)
collectBodyParts(p, wanted) ==
  LET lists == [i \in 1..Len(p.children) |-> collectBodyParts(p.children[i], wanted)]
  IN  CASE p.type \in Body                 -> IF BodyPart(p) THEN <<p>> ELSE <<>>
        [] p.type = "multipart/alternative" -> bestChoice(lists, wanted)
        [] OTHER                            -> FlattenSeq(lists)

determineBodyMIMEType(ps) ==
  IF \E i \in 1..Len(ps) : ps[i].type = "text/html" /\ ~IsAttachment(ps[i]) THEN "text/html" ELSE "text/plain"

(* getPlainBody: HTML as plain text, without its images. *)
getPlainBody(p) == [p EXCEPT !.type = "text/plain", !.shows = {}]

(* Writer: a part that is not clean is written in base64, which its header then
   says; the byte 128 passes for clean. A transfer encoding that nobody knows
   cannot be written. *)
is7BitClean(p) == p.bytes \in {"ascii", "x80"}
Write(p) == IF is7BitClean(p) THEN p ELSE [p EXCEPT !.cte = "encoded"]
Unwritable(p) == is7BitClean(p) /\ p.cte = "unknown"

parse ==
  /\ pc = "collect"
  /\ IF Some(tree, ParseFails) \/ Some(tree, Unwritable)
     THEN pc' = "unreadable" /\ UNCHANGED <<atts, rich, plain, mimeType, written>>
     ELSE /\ pc' = "done"
          /\ atts' = LET ps == SelectSeq(Walk(tree), Collected) IN [i \in 1..Len(ps) |-> parseAttachment(ps[i])]
          /\ rich' = collectBodyParts(tree, "text/html")
          /\ plain' = LET ps == collectBodyParts(tree, "text/plain") IN [i \in 1..Len(ps) |-> getPlainBody(ps[i])]
          /\ mimeType' = determineBodyMIMEType(Walk(tree))
          /\ written' = LET ps == Walk(tree) IN [i \in 1..Len(ps) |-> Write(ps[i])]
  /\ UNCHANGED <<tree, original, smtp>>

Next == New \/ AttachEmptyTextPartIfNoneExists \/ AttachPublicKey \/ convert \/ patchInlineImages \/ parseMessageHeader \/ parse
Spec == Init /\ [][Next]_vars

----------------------------------------------------------------------------
Leaves(p) == SelectSeq(Walk(p), LAMBDA q : q.children = <<>>)
Times(ps, id) == Cardinality({i \in 1..Len(ps) : ps[i].id = id})
HasAlternative(p) == Some(p, LAMBDA q : q.type = "multipart/alternative")

(* Nothing of the message is in two places, and without alternatives nothing is
   lost: every part is an attachment or in both bodies. The exception is text
   of another type that is not attached, which is in neither. *)
NothingLost ==
  pc = "done" =>
    LET ls == Leaves(original) IN
    \A i \in 1..Len(ls) :
      LET p == ls[i]
          n == Times(atts, p.id) + Times(rich, p.id)
          m == Times(atts, p.id) + Times(plain, p.id)
      IN  /\ n <= 1 /\ m <= 1
          /\ (~HasAlternative(original) /\ p.type \notin Multipart /\ ~(p.type = "text/other" /\ ~IsAttachment(p))) => (n = 1 /\ m = 1)

(* The body in which the draft is stored is missing only if there is no text,
   or the last of some alternatives has none. *)
BodyServed ==
  LET ps == Walk(tree)
      Stored == IF mimeType = "text/html" THEN rich ELSE plain
  IN  (pc = "done" /\ Stored = <<>>) =>
        \/ \A i \in 1..Len(ps) : ~BodyPart(ps[i])
        \/ \E i \in 1..Len(ps) : /\ ps[i].type = "multipart/alternative"
                                 /\ collectBodyParts(Last(ps[i].children), mimeType) = <<>>

(* What is sent has a body, if only an empty one, unless its only text is one
   that no body takes. *)
SentHasBody ==
  (pc = "done" /\ smtp /\ plain = <<>>) =>
    Some(tree, LAMBDA p : (p.type \in Text /\ ~BodyPart(p)) \/ p.type = "multipart/alternative")

(* Every inline image at the top that had no ID is shown by exactly one HTML
   part, and is uploaded with the ID by which it is shown; nothing else is
   shown. A message that is sent and not mixed gets an
   outer part first, which hides its images from the patch. *)
ImagesShown ==
  (pc = "done" /\ Len(original.children) > 1 /\ (smtp => original.type = "multipart/mixed")) =>
    LET ps == Walk(tree) IN
    \A i \in 1..Len(original.children) :
      LET c == original.children[i]
          showers == {k \in 1..Len(ps) : ps[k].type = "text/html" /\ c.id \in ps[k].shows}
      IN  /\ Cardinality(showers) = IF NeedsPatch(c) THEN 1 ELSE 0
          /\ showers # {} => \E k \in 1..Len(atts) : atts[k].id = c.id /\ atts[k].ContentID

(* The bodies of a message, mixed or related, have its order, as long as no more
   than one part had to be inserted. *)
Origin(p) == IF p.id >= 1000 THEN p.id - 1000 ELSE p.id
InOrder ==
  (pc = "done" /\ original.type # "multipart/alternative" /\ Cardinality({k \in 1..Len(rich) : rich[k].id >= 1000}) <= 1) =>
    \A i, j \in 1..Len(rich) : i < j => Origin(rich[i]) <= Origin(rich[j])

(* A message is refused only if its outermost part is neither mixed nor
   related, which nothing that is sent is. *)
RefusedOnlyIf == pc = "refused" => (~smtp /\ original.type \notin {"multipart/mixed", "multipart/related"})

(* A text is read in the character set it is in, if its header names that one,
   or names none that is known and the text is UTF-8, or HTML with a meta tag
   that names it, or Western European; a body in a transfer encoding that
   go-message does not know never is. *)
Readable(p) ==
  \/ p.bytes = "ascii"
  \/ p.label \in SelectDecoder /\ p.label = p.bytes
  \/ /\ p.label \notin SelectDecoder
     /\ \/ p.bytes = "utf-8"
        \/ p.type = "text/html" /\ MetaCharset(p) = p.bytes
        \/ p.bytes = "latin1" /\ (p.type # "text/html" \/ p.meta = "none")
TextsRead ==
  pc = "done" =>
    LET ls == Leaves(original) IN
    \A i \in 1..Len(ls), k \in 1..Len(rich) :
      rich[k].id = ls[i].id =>
        /\ Undecoded(ls[i]) => rich[k].misread
        /\ Readable(ls[i]) /\ ~Undecoded(ls[i]) => ~rich[k].misread
        /\ rich[k].bytes \in {"ascii", "utf-8"} /\ rich[k].label = "utf-8"
        /\ rich[k].meta \in {"none", "utf-8"} \/ ls[i].meta = "hidden"

(* What is attached keeps its bytes, if its transfer encoding is known, and the
   name of their character set, but for HTML, and its type, but for a plain text that patchInlineImages takes for the
   body; it has a name, unless the sender wrote an empty one. *)
AttachmentsKept ==
  pc = "done" =>
    LET ls == Leaves(original) IN
    \A i \in 1..Len(ls), k \in 1..Len(atts) :
      LET p == ls[i]
      IN  atts[k].id = p.id =>
            /\ (p.type \notin Text \/ (p.type # "text/html" /\ IsAttachment(p))) =>
                 /\ atts[k].label = p.label /\ (Undecoded(p) <=> atts[k].misread)
                 /\ ~Undecoded(p) => atts[k].bytes = p.bytes
            /\ atts[k].MIMEType = p.type \/ (p.type = "text/plain" /\ Images(original.children) # {})
            /\ atts[k].Name # "" \/ p.name = "empty"

(* What is written as the MIME body needs no eight-bit transport, but for a part
   whose only such byte is 128. *)
SevenBit ==
  \A i \in 1..Len(written) :
    (written[i].children = <<>> /\ written[i].bytes \notin {"ascii", "x80"}) => written[i].cte = "encoded"

(* A message is found unreadable only if its sender wrote a part, a type, a
   disposition, a transfer encoding, the Subject or a field of an attachment
   that is. *)
UnreadableOnlyIf ==
  pc = "unreadable" =>
    \/ original.odd = "subject"
    \/ Some(original, LAMBDA p : \/ p.odd = "malformed" \/ (p.odd # "no" /\ Collected(p))
                                 \/ p.type = "unreadable" \/ p.disp = "unreadable" \/ Undecoded(p))
=============================================================================
