------------------------------- MODULE Build -------------------------------
(* How a message of the API becomes the literal that IMAP serves: decrypt,
   strip mbox lines, sanitise the header, lay out the MIME parts, and wrap the
   result into an update, or a placeholder if that fails (pkg/message/build.go,
   build_custom.go, decrypt.go, header.go and imapservice/sync_build.go).

   A body is a sequence of lines; a line is what matters of its text and how it
   ends. A header value is where it comes from. *)
EXTENDS Naturals, Sequences, SequencesExt, FiniteSets

CONSTANTS Jobs,            \* messages to build, see Job below
          None

Texts == {"", "space", "from", "to", "date", "field", "quote", "cont", "mbox", "plain"}
Line == [text : Texts, eol : {"lf", "crlf", "eof"}]

(* type is that of the message; bodyErr says whether the body decrypts, does
   not, or is not even an armored message; parses whether Gluon reads the
   result. hdr is the header the message came with, own the keys of its other
   fields. *)
Header == [id : {"", "own", "external", "internal"}, date : {"", "valid", "old", "bad", "api"},
           original : {"", "own", "old", "zero"}, to : {"", "own", "api"}, refs : SUBSET {"own", "internal"}]
Job == [body : Seq(Line), type : {"text", "multipart/mixed"}, bodyErr : {"none", "locked", "garbage"},
        atts : Seq([inline : BOOLEAN, err : BOOLEAN]), signed : BOOLEAN, external : BOOLEAN, lists : BOOLEAN,
        hdr : Header, own : SUBSET {"from", "field"}, parses : BOOLEAN, v2 : BOOLEAN]

VARIABLES job, pc, body, parts, header, update
vars == <<job, pc, body, parts, header, update>>

Init ==
  /\ job \in Jobs /\ pc = "decrypt"
  /\ body = <<>> /\ parts = <<>> /\ header = None /\ update = None

(* DecryptMessage never fails: it keeps the error of each piece. *)
DecryptMessage ==
  /\ pc = "decrypt" /\ pc' = "sanitize"
  /\ body' = IF job.bodyErr = "none" THEN job.body ELSE <<>>
  /\ UNCHANGED <<job, parts, header, update>>

----------------------------------------------------------------------------
(* extractHeaderPartEnd: the line before the first "\n\n", or without one before
   the first "\r\n\r\n"; 0 if there is none or From, To or Date are missing
   before it. *)
Least(S) == IF S = {} THEN 0 ELSE CHOOSE i \in S : \A j \in S : i <= j
LFLF(b) == {i \in 1..(Len(b) - 1) : b[i + 1] = [text |-> "", eol |-> "lf"]}
CRLFCRLF(b) == {i \in 1..(Len(b) - 1) : b[i].eol = "crlf" /\ b[i + 1] = [text |-> "", eol |-> "crlf"]}

extractHeaderPartEnd(b) ==
  LET end == IF LFLF(b) # {} THEN Least(LFLF(b)) ELSE Least(CRLFCRLF(b))
  IN  IF {"from", "to", "date"} \subseteq {b[i].text : i \in 1..end} THEN end ELSE 0

(* indexMBOXHeaderLine: a line is looked at when it is the first, or when the
   byte before it is a line end that is not the first byte of the body. *)
Looked(b) == {i \in 1..extractHeaderPartEnd(b) : i = 2 => b[1] # [text |-> "", eol |-> "lf"]}
indexMBOXHeaderLine(b) == Least({i \in Looked(b) : b[i].text = "mbox"})

(* sanitizeMBOXHeaderLine: one line per turn of its loop. *)
sanitizeMBOXHeaderLine ==
  /\ pc = "sanitize"
  /\ IF indexMBOXHeaderLine(body) # 0
       THEN body' = RemoveAt(body, indexMBOXHeaderLine(body)) /\ UNCHANGED pc
       ELSE pc' = "header" /\ UNCHANGED body
  /\ UNCHANGED <<job, parts, header, update>>

----------------------------------------------------------------------------
(* getMessageHeader: what the API knows replaces what the header says, the
   Message-Id is kept, a date that is no date or before 1970 is replaced and
   saved once, and the references name the message. *)
setMessageIDIfNeeded(h) == IF h.id # "" THEN h.id ELSE IF job.external THEN "external" ELSE "internal"
setHeaderIfNeeded(v, is, set) == IF set THEN is ELSE v
BadDate(d) == d \in {"", "old", "bad"}
Original(h) == IF h.original # "" THEN h.original ELSE IF h.date = "old" THEN "old" ELSE "zero"
getMessageHeader(h) ==
  [id |-> setMessageIDIfNeeded(h),
   date |-> setHeaderIfNeeded(h.date, "api", BadDate(h.date)),
   original |-> IF BadDate(h.date) THEN Original(h) ELSE h.original,
   to |-> setHeaderIfNeeded(h.to, "api", job.lists),
   refs |-> h.refs \cup {"internal"}]

GetHeader ==
  /\ pc = "header" /\ pc' = "build"
  /\ header' = getMessageHeader(job.hdr)
  /\ UNCHANGED <<job, body, parts, update>>

----------------------------------------------------------------------------
(* splitHeaderBody ends the header at the first terminated line of white space;
   without one the unterminated rest belongs to nothing. splitHeaderBodyV2 looks
   for "\r\n\r\n" anywhere, then for "\n\n", then for a line of white space, and
   takes all for the header without one. Both as the number of header lines. *)
Blank(l) == l.text \in {"", "space"} /\ l.eol # "eof"
BlankLine(b) == Least({i \in 1..Len(b) : Blank(b[i])})
splitHeaderBody(b) ==
  IF BlankLine(b) # 0 THEN BlankLine(b) ELSE Cardinality({i \in 1..Len(b) : b[i].eol # "eof"})
splitHeaderBodyV2(b) ==
  CASE CRLFCRLF(b) # {}                                          -> Least(CRLFCRLF(b)) + 1
    [] CRLFCRLF(b) = {} /\ LFLF(b) # {}                          -> Least(LFLF(b)) + 1
    [] CRLFCRLF(b) = {} /\ LFLF(b) = {} /\ BlankLine(b) # 0      -> BlankLine(b)
    [] OTHER                                                     -> Len(b)

(* HeaderLines: a line that is indented or inside quotes belongs to the entry
   before it, be that a blank line; a blank line always starts one. As sets of
   lines. isHeaderValid wants a colon in every entry that is not blank. *)
Colon(l) == l.text \notin {"", "space", "plain", "cont"}
Empty(l) == l.text \in {"", "space"}
isLineContinuation(b, i) ==
  b[i].text = "cont" \/ Cardinality({j \in 1..(i - 1) : b[j].text = "quote"}) % 2 = 1
Starts(b, n) == {i \in 1..n : i = 1 \/ Empty(b[i]) \/ ~isLineContinuation(b, i)}
HeaderLines(b, n) == {{i \in s..n : ((s + 1)..i) \cap Starts(b, n) = {}} : s \in Starts(b, n)}

BlankEntry(b, e) == \A i \in e : Empty(b[i])
isHeaderValid(b, n) ==
  n > 0 /\ \A e \in HeaderLines(b, n) : BlankEntry(b, e) \/ \E i \in e : Colon(b[i])

(* readHeaderBody: the fields of the header, without its blank lines, and the
   lines of the body; without a valid header all is body. *)
readHeaderBody(b, v2) ==
  LET n    == IF v2 THEN splitHeaderBodyV2(b) ELSE splitHeaderBody(b)
      rest == IF ~v2 /\ BlankLine(b) = 0 THEN {} ELSE (n + 1)..Len(b)
  IN  IF isHeaderValid(b, n) THEN [fields |-> {e \in HeaderLines(b, n) : ~BlankEntry(b, e)}, body |-> rest]
      ELSE [fields |-> {}, body |-> 1..Len(b)]

(* The key of a field, all that stands before its first colon. *)
Key(b, e) ==
  LET first == Least(e)
      colon == Least({i \in e : Colon(b[i])})
  IN  [i \in 1..(colon - first + 1) |-> b[first + i - 1].text]
Before(e, f) == Least(e) < Least(f)

----------------------------------------------------------------------------
Part(in, what, of) == [in |-> in, what |-> what, of |-> of]
Indices(inline) == SelectSeq([i \in 1..Len(job.atts) |-> i], LAMBDA i : job.atts[i].inline = inline)

(* writeTextPart and writeAttachmentPart, which write what does not decrypt as
   armored PGP; a body that is no PGP message fails the build. *)
writeTextPart(in) == Part(in, IF job.bodyErr = "none" THEN "text" ELSE "locked", 0)
MutWriteAttachmentPart(in, i) == Part(in, IF job.atts[i].err THEN "locked" ELSE "attachment", 1)
writeAttachmentPart(in, i) == Part(in, IF job.atts[i].err THEN "locked" ELSE "attachment", i)
Attach(in, is) == [k \in 1..Len(is) |-> writeAttachmentPart(in, is[k])]

(* buildMultipartRFC822 puts the text and the inline attachments into a
   multipart/related of their own. *)
writeRelatedParts == <<writeTextPart("related")>> \o Attach("related", Indices(TRUE))
buildMultipartRFC822 ==
  (IF Indices(TRUE) # <<>> THEN writeRelatedParts ELSE <<writeTextPart("mixed")>>) \o Attach("mixed", Indices(FALSE))

(* buildPGPRFC822: a PGP/MIME message keeps its own parts, signed or not; one
   that does not decrypt is served encrypted. writeMultipartEncryptedRFC822
   merges the fields of an unsigned one into the header of the message: a key
   that is already there, from either, keeps its value. *)
OuterKeys == {<<"date">>} \cup (IF header.to # "" THEN {<<"to">>} ELSE {})
               \cup (IF job.lists THEN {<<"from">>} ELSE {}) \cup {<<k>> : k \in job.own}
Inner(in, fields, rest) == Part(in, "inner", [header |-> UNION fields, body |-> rest])
writeMultipartEncryptedRFC822 ==
  LET read == readHeaderBody(body, job.v2)
  IN  <<Inner("message", {f \in read.fields :
                            /\ Key(body, f) \notin OuterKeys
                            /\ \A e \in read.fields : Key(body, e) = Key(body, f) => ~Before(e, f)}, read.body)>>
writeMultipartSignedRFC822 ==
  LET read == readHeaderBody(body, job.v2)
  IN  <<Inner("signed", read.fields, read.body), Part("signed", "signature", 0)>>
buildPGPRFC822 ==
  CASE job.bodyErr # "none"                -> <<Part("encrypted", "version", 0), Part("encrypted", "locked", 0)>>
    [] job.bodyErr = "none" /\ job.signed  -> writeMultipartSignedRFC822
    [] job.bodyErr = "none" /\ ~job.signed -> writeMultipartEncryptedRFC822

Layout ==
  CASE job.atts # <<>>                                    -> "multipart"
    [] job.atts = <<>> /\ job.type = "multipart/mixed"    -> "pgp"
    [] OTHER                                              -> IF job.bodyErr = "none" THEN "simple" ELSE "multipart"

(* writeCustomTextPart cannot read what is no PGP message. *)
Refuses == Layout = "multipart" /\ job.bodyErr = "garbage"

BuildRFC822 ==
  /\ pc = "build"
  /\ IF Refuses
       THEN pc' = "failed" /\ UNCHANGED parts
       ELSE /\ pc' = "built"
            /\ parts' = CASE Layout = "multipart" -> buildMultipartRFC822
                          [] Layout = "pgp"       -> buildPGPRFC822
                          [] Layout = "simple"    -> <<writeTextPart("message")>>
  /\ UNCHANGED <<job, body, header, update>>

(* buildRFC822 of the IMAP service: the literal, or a placeholder. *)
buildRFC822 ==
  \/ pc = "built" /\ job.parses /\ update' = "message"
  \/ ~(pc = "built" /\ job.parses) /\ update' = "placeholder"

Finish ==
  /\ pc \in {"built", "failed"} /\ pc' = "done" /\ buildRFC822
  /\ UNCHANGED <<job, body, parts, header>>

Next == DecryptMessage \/ sanitizeMBOXHeaderLine \/ GetHeader \/ BuildRFC822 \/ Finish
Spec == Init /\ [][Next]_vars

----------------------------------------------------------------------------
(* Every message ends in the mailbox, at worst as a placeholder, and that only
   when its encrypted body is damaged or Gluon cannot read the result. *)
PlaceholderOnlyIf ==
  pc = "done" => (update = "placeholder" <=> (~job.parses \/ (job.bodyErr = "garbage" /\ Layout = "multipart")))

(* Every attachment is served exactly once, decrypted or locked, inside
   multipart/related exactly when it is inline, and so is the text. *)
EachOnce ==
  (parts # <<>> /\ Layout = "multipart") =>
    /\ \A a \in 1..Len(job.atts) :
         Cardinality({k \in 1..Len(parts) : /\ parts[k].of = a
                                             /\ parts[k].in = (IF job.atts[a].inline THEN "related" ELSE "mixed")
                                             /\ parts[k].what = (IF job.atts[a].err THEN "locked" ELSE "attachment")}) = 1
    /\ Len(parts) = Len(job.atts) + 1

(* Only mbox lines go, those of a complete header all go (except one right
   after an empty first line), and the text below the header keeps its own as
   long as the lines all end alike. *)
Rest(b, n) == SubSeq(b, n + 1, Len(b))
Uniform(b) == \E e \in {"lf", "crlf"} : \A i \in 1..Len(b) : b[i].eol \in {e, "eof"}
TextKept ==
  (job.bodyErr = "none" /\ pc \notin {"decrypt", "sanitize"}) =>
    LET end == extractHeaderPartEnd(job.body)
        NotMbox(l) == l.text # "mbox"
    IN  /\ end = 0 => body = job.body
        /\ SelectSeq(body, NotMbox) = SelectSeq(job.body, NotMbox)
        /\ \A i \in Looked(body) : body[i].text # "mbox"
        /\ (end # 0 /\ Uniform(job.body)) => \E n \in 0..Len(body) : Rest(body, n) = Rest(job.body, end)

(* The two ways to split a header from its body agree on every text with one
   kind of line end whose first blank line is empty and not the first line. *)
SplitAgrees ==
  LET n == BlankLine(body)
  IN  (n > 1 /\ body[n].text = "" /\ Uniform(body)) => splitHeaderBody(body) = splitHeaderBodyV2(body)

(* Nothing of a PGP/MIME message is served twice, and its body is complete. Of
   its header a signed one loses nothing but blank lines; an unsigned one loses
   a field exactly if its key is in the header of the message or in a field that
   is kept. The old splitter loses the last line of a message without end of
   header. *)
NothingLost ==
  \A k \in 1..Len(parts) :
    parts[k].what = "inner" =>
      LET p    == parts[k].of
          n    == IF job.v2 THEN splitHeaderBodyV2(body) ELSE splitHeaderBody(body)
          Kept == {e \in HeaderLines(body, n) : e \subseteq p.header}
          Lost == {i \in 1..Len(body) : ~Empty(body[i])} \ (p.header \cup p.body)
      IN  /\ p.header \cap p.body = {} /\ p.body = (Len(body) - Cardinality(p.body) + 1)..Len(body)
          /\ parts[k].in = "message" => \A e \in Kept : /\ Key(body, e) \notin OuterKeys
                                                        /\ \A f \in Kept \ {e} : Key(body, f) # Key(body, e)
          /\ (job.v2 \/ BlankLine(body) # 0 \/ p.body # {}) =>
               \A i \in Lost : /\ parts[k].in = "message"
                              /\ \E e \in HeaderLines(body, n) \ Kept :
                                   /\ i \in e
                                   /\ Key(body, e) \in OuterKeys \cup {Key(body, f) : f \in Kept}

(* A message that goes out and comes back through the bridge keeps the header
   it was given: its ID, its date and the date it had first. *)
HeaderStable ==
  header # None =>
    /\ getMessageHeader(header) = header
    /\ job.hdr.id # "" => header.id = job.hdr.id
    /\ job.hdr.original # "" => header.original = job.hdr.original
    /\ ~BadDate(header.date)
=============================================================================
