------------------------- MODULE SendRecorderProofs -------------------------
(***************************************************************************)
(* Proofs about SendRecorder, for any sets of callers and any times.       *)
(***************************************************************************)
EXTENDS SendRecorder, TLAPS

Ids == 1..Len(heap)

InFlight(s) == pc[s] \in {"sending", "signal", "remove"}

(* The message of entry i may still reach, or has reached, the server      *)
(* without its sender being told of a failure.                             *)
Standing(i) ==
    \/ i \in delivered \ lost
    \/ \E s \in Senders : pc[s] \in {"sending", "signal"} /\ srID[s] = i

(* Who owns which entry: nobody else does, nobody was told yet, and the    *)
(* server's view agrees with the owner's.                                  *)
OwnerInv ==
    /\ \A s \in Senders :
          InFlight(s) => /\ srID[s] \in Ids
                         /\ heap[srID[s]].waitChClosed = FALSE
    /\ \A s, t \in Senders : InFlight(s) /\ InFlight(t) /\ s # t
                                => srID[s] # srID[t]
    /\ \A s \in Senders :
          /\ pc[s] = "sending" => srID[s] \notin delivered
          /\ pc[s] = "signal"  => srID[s] \in delivered \ lost
          /\ pc[s] = "remove"  => srID[s] \notin delivered \ lost

(* The fields of an entry agree with each other and with the clock. *)
EntryInv ==
    /\ \A i \in Ids : heap[i].exp \in Expiry..(now + Expiry)
    /\ \A i \in Ids : heap[i].sent = TRUE =>
                         i \in delivered /\ heap[i].waitChClosed = TRUE
    /\ \A i \in entries : heap[i].waitChClosed = TRUE => heap[i].sent = TRUE

(* A caller waits for, or was given, an entry of its own message. *)
WaitInv ==
    \A c \in Callers :
       /\ pc[c] \in {"waiting", "found"} =>
             srID[c] \in Ids /\ SameMessage(heap[srID[c]].msg, msg[c])
       /\ pc[c] = "found" => srID[c] \in delivered

(* One entry of a message in the map; a standing one leaves the map only   *)
(* by expiring, and a later one of the same message comes after that.      *)
DedupInv ==
    /\ \A i, j \in entries : SameMessage(heap[i].msg, heap[j].msg) => i = j
    /\ \A i \in Ids : Standing(i) => i \in entries \/ heap[i].exp < now
    /\ \A i, j \in Ids :
          i < j /\ Standing(i) /\ SameMessage(heap[i].msg, heap[j].msg)
             => heap[i].exp + Expiry < heap[j].exp

IInv == TypeOK /\ OwnerInv /\ EntryInv /\ WaitInv /\ DedupInv
-----------------------------------------------------------------------------

(* matchToList is symmetric, so it does not matter which of two entries    *)
(* was inserted first.                                                     *)
LEMMA SameMessageSymmetric ==
    ASSUME NEW m, NEW n, SameMessage(m, n)
    PROVE  SameMessage(n, m)
BY DEF SameMessage, matchToList

(* A new recorder has no entries and no callers. *)
LEMMA InitIInv == Init => IInv
<1> SUFFICES ASSUME Init PROVE IInv
  OBVIOUS
<1> USE SendRecorderAssumption
<1>1. heap \in Seq(sendEntry) /\ Len(heap) = 0
  BY DEF Init
<1>2. TypeOK
  BY <1>1 DEF Init, TypeOK
<1>3. Ids = {}
  BY <1>1 DEF Ids
<1> QED
  BY <1>2, <1>3 DEF Init, IInv, OwnerInv, EntryInv, WaitInv, DedupInv, InFlight,
     Callers

(* Insert adds an entry that matches no live one.  A standing entry of the *)
(* same message is therefore expired by now, which is when the new entry   *)
(* is inserted.                                                            *)
LEMMA InsertIInv ==
    ASSUME IInv, NEW s \in Senders, pc[s] \in {"idle", "retry"}, Insert(s),
           deadline' \in [Callers -> Nat],
           UNCHANGED <<now, msg, delivered, lost>>
    PROVE  IInv'
<1> USE SendRecorderAssumption
<1> DEFINE n == Len(heap) + 1
           new == [msg |-> msg[s], exp |-> now + Expiry,
                   sent |-> FALSE, waitChClosed |-> FALSE]
<1>0. /\ heap \in Seq(sendEntry) /\ Len(heap) \in Nat
      /\ now \in Nat /\ Expiry \in Nat /\ s \in Callers
      /\ new \in sendEntry
  BY DEF IInv, TypeOK, sendEntry, Callers
<1>a. \A i \in Ids : heap[i] \in sendEntry /\ heap[i].exp \in Nat
  <2>1. \A i \in Ids : heap[i] \in sendEntry
    BY <1>0 DEF Ids
  <2> QED
    BY <2>1 DEF sendEntry
<1>1. /\ heap' = Append(heap, new)
      /\ heap' \in Seq(sendEntry) /\ Len(heap') = n
      /\ \A i \in Ids : heap'[i] = heap[i]
      /\ heap'[n] = new
  BY <1>0 DEF Insert, Ids
<1>b. /\ heap'[n].msg = msg[s] /\ heap'[n].exp = now + Expiry
      /\ heap'[n].sent = FALSE /\ heap'[n].waitChClosed = FALSE
  BY <1>1
<1> HIDE DEF new
<1>2. Ids' = Ids \cup {n} /\ n \notin Ids
  BY <1>0, <1>1 DEF Ids
<1>3. /\ entries \subseteq Ids /\ delivered \subseteq Ids
      /\ entries' \subseteq entries \cup {n}
      /\ \A i \in entries : i \in entries' \/ heap[i].exp < now
  <2>1. entries \subseteq Ids /\ delivered \subseteq Ids
    BY DEF IInv, TypeOK, Ids
  <2>2. entries' = Unexpired \cup {n}
    BY DEF Insert
  <2> QED
    BY <2>1, <2>2, <1>0, <1>a DEF Unexpired
<1>4. /\ srID' = [srID EXCEPT ![s] = n]
      /\ pc' = [pc EXCEPT ![s] = "sending"]
      /\ srID \in [Callers -> 0..Len(heap)] /\ DOMAIN pc = Callers
  BY DEF Insert, IInv, TypeOK
<1>5. TypeOK'
  <2>1. TypeOK
    BY DEF IInv
  <2>2. pc' \in [Callers -> {"idle", "sending", "waiting", "retry", "signal",
                  "remove", "done", "failed", "found", "import"}]
    BY <1>4, <2>1 DEF TypeOK
  <2>3. srID' \in [Callers -> 0..Len(heap')]
    BY <1>0, <1>1, <1>4
  <2> QED
    BY <1>1, <1>2, <1>3, <2>1, <2>2, <2>3 DEF TypeOK, Ids
<1>6. OwnerInv'
  <2>1. \A t \in Senders : InFlight(t)' => t = s \/ InFlight(t)
    BY <1>4 DEF InFlight, Callers
  <2>2. \A t \in Senders : t # s => srID'[t] = srID[t] /\ pc'[t] = pc[t]
    BY <1>4 DEF Callers
  <2>3. srID'[s] = n /\ pc'[s] = "sending"
    BY <1>0, <1>4
  <2>4. OwnerInv
    BY DEF IInv
  <2>5. \A t \in Senders : InFlight(t)' => /\ srID'[t] \in Ids'
                                          /\ heap'[srID'[t]].waitChClosed = FALSE
    <3> TAKE t \in Senders
    <3>1. CASE t = s
      BY <3>1, <1>b, <1>2, <2>3
    <3>2. CASE t # s
      <4> SUFFICES ASSUME InFlight(t)'
                   PROVE  /\ srID[t] \in Ids'
                          /\ heap'[srID[t]].waitChClosed = FALSE
        BY <3>2, <2>2
      <4> QED
        BY <3>2, <1>1, <1>2, <2>1, <2>4 DEF OwnerInv
    <3> QED
      BY <3>1, <3>2
  <2>6. \A t, u \in Senders : InFlight(t)' /\ InFlight(u)' /\ t # u
                                 => srID'[t] # srID'[u]
    BY <1>2, <2>1, <2>2, <2>3, <2>4 DEF OwnerInv
  <2> QED
    BY <1>2, <1>3, <2>2, <2>3, <2>4, <2>5, <2>6 DEF OwnerInv
<1>7. EntryInv'
  <2>1. EntryInv
    BY DEF IInv
  <2>2. \A i \in Ids' : heap'[i].exp \in Expiry..(now' + Expiry)
    <3> TAKE i \in Ids'
    <3>1. CASE i = n
      BY <3>1, <1>0, <1>b
    <3>2. CASE i # n
      BY <3>2, <1>0, <1>a, <1>1, <1>2, <2>1 DEF EntryInv
    <3> QED
      BY <3>1, <3>2
  <2>3. \A i \in Ids' : heap'[i].sent = TRUE =>
                           i \in delivered' /\ heap'[i].waitChClosed = TRUE
    BY <1>1, <1>b, <1>2, <2>1 DEF EntryInv
  <2>4. \A i \in entries' : heap'[i].waitChClosed = TRUE => heap'[i].sent = TRUE
    BY <1>1, <1>b, <1>2, <1>3, <2>1 DEF EntryInv
  <2> QED
    BY <2>2, <2>3, <2>4 DEF EntryInv
<1>8. WaitInv'
  <2>1. \A c \in Callers : pc'[c] \in {"waiting", "found"} =>
                               pc'[c] = pc[c] /\ srID'[c] = srID[c]
    BY <1>4
  <2>2. WaitInv /\ msg' = msg
    BY DEF IInv
  <2> QED
    BY <1>1, <1>2, <2>1, <2>2, ZenonT(30) DEF WaitInv
<1>9. DedupInv'
  <2>1. \A i \in Ids' : Standing(i)' => i = n \/ Standing(i)
    BY <1>2, <1>4 DEF Standing, Callers
  <2>2. \A i \in entries : SameMessage(heap[i].msg, msg[s]) => heap[i].exp < now
    BY <1>0, <1>3 DEF Insert, Matching, Unexpired, Ids, sendEntry
  <2>3. \A i \in entries' \ {n} :
           i \in entries /\ heap'[i] = heap[i] /\ ~SameMessage(heap[i].msg, msg[s])
    BY <1>1, <1>3, <1>0 DEF Ids, Insert, Matching, Unexpired
  <2>4. \A i, j \in entries' : SameMessage(heap'[i].msg, heap'[j].msg) => i = j
    <3> SUFFICES ASSUME NEW i \in entries', NEW j \in entries',
                        SameMessage(heap'[i].msg, heap'[j].msg), i # j
                 PROVE  FALSE
      OBVIOUS
    <3>1. SameMessage(heap'[j].msg, heap'[i].msg)
      BY SameMessageSymmetric
    <3>2. heap'[n].msg = msg[s]
      BY <1>b
    <3>3. CASE i = n
      BY <3>1, <3>2, <3>3, <2>3
    <3>4. CASE j = n
      BY <3>2, <3>4, <2>3
    <3>5. CASE i # n /\ j # n
      BY <3>5, <2>3 DEF IInv, DedupInv
    <3> QED
      BY <3>3, <3>4, <3>5
  <2>5. \A i \in Ids' : Standing(i)' => i \in entries' \/ heap'[i].exp < now'
    BY <1>1, <1>2, <1>3, <2>1 DEF IInv, DedupInv, Ids, Insert
  <2>6. ASSUME NEW i \in Ids', NEW j \in Ids', i < j, Standing(i)',
               SameMessage(heap'[i].msg, heap'[j].msg)
        PROVE  heap'[i].exp + Expiry < heap'[j].exp
    <3>1. i \in Ids /\ i # n /\ Standing(i) /\ heap'[i] = heap[i]
      BY <2>1, <2>6, <1>0, <1>1, <1>2 DEF Ids
    <3>2. CASE j = n
      <4>1. SameMessage(heap[i].msg, msg[s]) /\ heap'[j].exp = now + Expiry
        BY <3>1, <3>2, <2>6, <1>b
      <4>2. heap[i].exp < now /\ heap[i].exp \in Nat
        BY <3>1, <4>1, <2>2, <1>a DEF IInv, DedupInv
      <4> QED
        BY <4>1, <4>2, <3>1, <1>0
    <3>3. CASE j # n
      BY <3>1, <3>3, <2>6, <1>1, <1>2 DEF IInv, DedupInv, Ids
    <3> QED
      BY <3>2, <3>3
  <2> QED
    BY <2>4, <2>5, <2>6 DEF DedupInv
<1> QED
  BY <1>5, <1>6, <1>7, <1>8, <1>9 DEF IInv

(* A caller that is not sending moves on: it joins an entry, finds none,   *)
(* or leaves wait.  Of the recorder only expired entries may go.           *)
LEMMA BystanderIInv ==
    ASSUME IInv, NEW c \in Callers, NEW v, NEW i,
           ~InFlight(c),
           v \in {"waiting", "retry", "failed", "found", "import"},
           i \in 0..Len(heap),
           v \in {"waiting", "found"} =>
              i \in Ids /\ SameMessage(heap[i].msg, msg[c]),
           v = "found" => i \in delivered,
           pc' = [pc EXCEPT ![c] = v],
           srID' = [srID EXCEPT ![c] = i],
           entries' = entries \/ entries' = Unexpired,
           deadline' \in [Callers -> Nat],
           UNCHANGED <<heap, now, msg, delivered, lost>>
    PROVE  IInv'
<1>1. IInv /\ TypeOK /\ Ids' = Ids
  BY DEF IInv, Ids
<1>2. \A d \in Callers : d # c => pc'[d] = pc[d] /\ srID'[d] = srID[d]
  BY <1>1 DEF TypeOK
<1>3. pc'[c] = v /\ srID'[c] = i
  BY <1>1 DEF TypeOK
<1>4. \A s \in Senders : InFlight(s)' => s # c /\ InFlight(s)
  BY <1>2, <1>3 DEF InFlight, Callers
<1>5. entries' \subseteq entries
  BY DEF Unexpired
<1>6. \A j \in entries : j \in entries' \/ heap[j].exp < now
  <2>1. \A j \in Ids : heap[j] \in sendEntry
    BY <1>1 DEF TypeOK, Ids
  <2>2. \A j \in entries : heap[j].exp \in Nat /\ now \in Nat
    BY <1>1, <2>1 DEF TypeOK, Ids, sendEntry
  <2> QED
    BY <2>2 DEF Unexpired
<1>7. TypeOK'
  <2>1. pc' \in [Callers -> {"idle", "sending", "waiting", "retry", "signal",
                  "remove", "done", "failed", "found", "import"}]
    BY <1>1 DEF TypeOK
  <2>2. srID' \in [Callers -> 0..Len(heap')]
    BY <1>1 DEF TypeOK
  <2> QED
    BY <1>1, <1>5, <2>1, <2>2 DEF TypeOK
<1>8. OwnerInv'
  <2>1. OwnerInv
    BY DEF IInv
  <2>2. \A s \in Senders : InFlight(s)' => srID'[s] = srID[s] /\ pc'[s] = pc[s]
    BY <1>2, <1>4 DEF Callers
  <2>3. \A s \in Senders : pc'[s] \in {"sending", "signal", "remove"} =>
                               InFlight(s)'
    BY DEF InFlight
  <2> QED
    BY <1>1, <1>4, <2>1, <2>2, <2>3 DEF OwnerInv
<1>9. EntryInv'
  BY <1>1, <1>5 DEF IInv, EntryInv
<1>10. WaitInv'
  BY <1>1, <1>2, <1>3 DEF IInv, WaitInv
<1>11. DedupInv'
  <2>1. \A j \in Ids : Standing(j)' => Standing(j)
    BY <1>2, <1>4 DEF Standing, InFlight, Callers
  <2>2. DedupInv
    BY DEF IInv
  <2> QED
    BY <1>1, <1>5, <1>6, <2>1, <2>2 DEF DedupInv
<1> QED
  BY <1>7, <1>8, <1>9, <1>10, <1>11 DEF IInv

(* The outcome of a send: the owner's view and the server's move together. *)
LEMMA OutcomeIInv ==
    ASSUME IInv, NEW s \in Senders,
           SendDraft(s) \/ SendReplyLost(s) \/ SendFails(s)
    PROVE  IInv'
<1>1. /\ IInv /\ TypeOK /\ OwnerInv /\ pc[s] = "sending" /\ s \in Callers
      /\ UNCHANGED <<heap, entries, now, msg, srID, deadline>> /\ Ids' = Ids
  BY DEF IInv, SendDraft, SendReplyLost, SendFails, Ids, Callers
<1>2. srID[s] \in Ids /\ srID[s] \notin delivered /\ srID[s] \notin lost
  BY <1>1 DEF OwnerInv, InFlight, TypeOK
<1>3. \A d \in Callers : d # s => pc'[d] = pc[d]
  BY <1>1 DEF TypeOK, SendDraft, SendReplyLost, SendFails
<1>4. \/ /\ pc'[s] = "signal" /\ lost' = lost
         /\ delivered' = delivered \cup {srID[s]}
      \/ /\ pc'[s] = "remove" /\ lost' = lost \cup {srID[s]}
         /\ delivered' = delivered \cup {srID[s]}
      \/ /\ pc'[s] = "remove" /\ lost' = lost /\ delivered' = delivered
  BY <1>1 DEF TypeOK, SendDraft, SendReplyLost, SendFails
<1>5. TypeOK'
  <2>1. pc' \in [Callers -> {"idle", "sending", "waiting", "retry", "signal",
                  "remove", "done", "failed", "found", "import"}]
    BY <1>1 DEF TypeOK, SendDraft, SendReplyLost, SendFails
  <2> QED
    BY <1>1, <1>2, <1>4, <2>1 DEF TypeOK, Ids
<1>6. OwnerInv'
  <2>1. \A t \in Senders : InFlight(t)' => InFlight(t)
    BY <1>1, <1>3 DEF InFlight, Callers
  <2>2. \A t \in Senders : t # s /\ InFlight(t) => srID[t] # srID[s]
    BY <1>1 DEF OwnerInv, InFlight
  <2>3. \A t \in Senders :
           /\ pc'[t] = "sending" => srID'[t] \notin delivered'
           /\ pc'[t] = "signal" => srID'[t] \in delivered' \ lost'
           /\ pc'[t] = "remove" => srID'[t] \notin delivered' \ lost'
    <3> TAKE t \in Senders
    <3>1. CASE t = s
      BY <3>1, <1>1, <1>2, <1>4
    <3>2. CASE t # s
      <4>1. pc'[t] = pc[t] /\ srID'[t] = srID[t]
        BY <3>2, <1>1, <1>3 DEF Callers
      <4>2. InFlight(t) => srID[t] # srID[s]
        BY <3>2, <2>2
      <4> QED
        BY <4>1, <4>2, <1>1, <1>4 DEF OwnerInv, InFlight
    <3> QED
      BY <3>1, <3>2
  <2>4. \A t \in Senders :
           InFlight(t)' => srID'[t] \in Ids' /\ heap'[srID'[t]].waitChClosed = FALSE
    BY <1>1, <2>1 DEF OwnerInv
  <2>5. \A t, u \in Senders : InFlight(t)' /\ InFlight(u)' /\ t # u
                                 => srID'[t] # srID'[u]
    BY <1>1, <2>1 DEF OwnerInv
  <2> QED
    BY <2>3, <2>4, <2>5 DEF OwnerInv
<1>7. EntryInv'
  BY <1>1, <1>4 DEF IInv, EntryInv
<1>8. WaitInv'
  BY <1>1, <1>3, <1>4 DEF IInv, WaitInv
<1>9. DedupInv'
  <2>1. \A j \in Ids : Standing(j)' => Standing(j)
    <3> SUFFICES ASSUME NEW j \in Ids, Standing(j)' PROVE Standing(j)
      OBVIOUS
    <3>1. CASE j = srID[s]
      BY <3>1, <1>1 DEF Standing
    <3>2. CASE j # srID[s]
      BY <3>2, <1>1, <1>3, <1>4 DEF Standing, Callers
    <3> QED
      BY <3>1, <3>2
  <2> QED
    BY <1>1, <2>1 DEF IInv, DedupInv
<1> QED
  BY <1>5, <1>6, <1>7, <1>8, <1>9 DEF IInv

(* The owner reports: only its own entry changes, and neither the message  *)
(* nor the expiry in it.                                                   *)
LEMMA ReportHeap ==
    ASSUME IInv, NEW s \in Senders, SignalMessageSent(s) \/ RemoveOnFail(s)
    PROVE  /\ heap' \in Seq(sendEntry) /\ Len(heap') = Len(heap)
           /\ \A j \in Ids : heap'[j].msg = heap[j].msg /\ heap'[j].exp = heap[j].exp
           /\ \A j \in Ids : j # srID[s] => heap'[j] = heap[j]
<1> DEFINE o == srID[s]
<1>1. TypeOK /\ InFlight(s) /\ o \in Ids
  BY DEF IInv, SignalMessageSent, RemoveOnFail, OwnerInv, InFlight
<1>2. \A j \in Ids : heap[j] \in sendEntry
  BY <1>1 DEF TypeOK, Ids
<1>3. CASE heap' = heap
  BY <1>3, <1>1 DEF TypeOK
<1>4. CASE SignalMessageSent(s) /\ o \in entries
  <2>1. heap' = [heap EXCEPT ![o] = [heap[o] EXCEPT !.sent = TRUE,
                                                    !.waitChClosed = TRUE]]
    BY <1>4, <1>1, <1>2 DEF SignalMessageSent, TypeOK, Ids, sendEntry
  <2>2. [heap[o] EXCEPT !.sent = TRUE, !.waitChClosed = TRUE] \in sendEntry
    BY <1>1, <1>2 DEF sendEntry
  <2>3. heap' \in Seq(sendEntry) /\ Len(heap') = Len(heap)
    BY <2>1, <2>2, <1>1 DEF TypeOK, Ids
  <2>4. \A j \in Ids : heap'[j] = IF j = o
            THEN [heap[o] EXCEPT !.sent = TRUE, !.waitChClosed = TRUE]
            ELSE heap[j]
    BY <2>1, <1>1 DEF TypeOK, Ids
  <2>5. heap'[o].msg = heap[o].msg /\ heap'[o].exp = heap[o].exp
    BY <2>4, <1>1, <1>2 DEF sendEntry
  <2>6. \A j \in Ids : j # o => heap'[j] = heap[j]
    BY <2>4
  <2> QED
    BY <2>3, <2>5, <2>6
<1>5. CASE RemoveOnFail(s) /\ o \in entries /\ ~heap[o].sent
  <2>1. heap' = [heap EXCEPT ![o] = [heap[o] EXCEPT !.waitChClosed = TRUE]]
    BY <1>5 DEF RemoveOnFail
  <2>2. [heap[o] EXCEPT !.waitChClosed = TRUE] \in sendEntry
    BY <1>1, <1>2 DEF sendEntry
  <2>3. heap' \in Seq(sendEntry) /\ Len(heap') = Len(heap)
    BY <2>1, <2>2, <1>1 DEF TypeOK, Ids
  <2>4. \A j \in Ids : heap'[j] = IF j = o
            THEN [heap[o] EXCEPT !.waitChClosed = TRUE]
            ELSE heap[j]
    BY <2>1, <1>1 DEF TypeOK, Ids
  <2> QED
    BY <2>3, <2>4, <1>2 DEF sendEntry
<1> QED
  BY <1>3, <1>4, <1>5 DEF SignalMessageSent, RemoveOnFail

(* The owner reports: its entry, if the map still has it, is marked or     *)
(* removed, and its channel closed.                                        *)
LEMMA ReportIInv ==
    ASSUME IInv, NEW s \in Senders, SignalMessageSent(s) \/ RemoveOnFail(s)
    PROVE  IInv'
<1> DEFINE o == srID[s]
<1>1. /\ TypeOK /\ OwnerInv /\ EntryInv /\ WaitInv /\ DedupInv
      /\ InFlight(s) /\ o \in Ids /\ s \in Callers
      /\ UNCHANGED <<now, msg, srID, deadline, delivered, lost>>
  BY DEF IInv, SignalMessageSent, RemoveOnFail, OwnerInv, InFlight, Callers
<1>2. \A j \in Ids : heap[j] \in sendEntry
  BY <1>1 DEF TypeOK, Ids
<1>3. /\ pc'[s] \in {"done", "failed"}
      /\ \A d \in Callers : d # s => pc'[d] = pc[d]
      /\ pc' \in [Callers -> {"idle", "sending", "waiting", "retry", "signal",
                  "remove", "done", "failed", "found", "import"}]
  BY <1>1 DEF TypeOK, SignalMessageSent, RemoveOnFail
<1>4. /\ heap' \in Seq(sendEntry) /\ Len(heap') = Len(heap)
      /\ \A j \in Ids : heap'[j].msg = heap[j].msg /\ heap'[j].exp = heap[j].exp
      /\ \A j \in Ids : j # o => heap'[j] = heap[j]
  BY ReportHeap
<1>5. Ids' = Ids
  BY <1>4 DEF Ids
<1>6. /\ entries' \subseteq entries
      /\ \A j \in entries : j # o => j \in entries'
      /\ o \in entries' => heap'[o].waitChClosed = heap'[o].sent
      /\ heap'[o].sent = TRUE => heap'[o].waitChClosed = TRUE /\ o \in delivered
      /\ pc[s] = "signal" => entries' = entries
  <2>1. heap[o].waitChClosed = FALSE /\ heap[o].sent = FALSE
    BY <1>1, <1>2 DEF OwnerInv, EntryInv, sendEntry
  <2>2. CASE SignalMessageSent(s)
    <3>1. o \in delivered /\ entries' = entries
      BY <2>2, <1>1 DEF SignalMessageSent, OwnerInv
    <3>2. CASE o \in entries
      <4>1. heap' = [heap EXCEPT ![o].sent = TRUE, ![o].waitChClosed = TRUE]
        BY <2>2, <3>2 DEF SignalMessageSent
      <4>2. heap'[o].sent = TRUE /\ heap'[o].waitChClosed = TRUE
        BY <4>1, <1>1, <1>2 DEF TypeOK, Ids, sendEntry
      <4> QED
        BY <3>1, <4>2
    <3>3. CASE o \notin entries
      BY <2>2, <3>1, <3>3, <2>1 DEF SignalMessageSent
    <3> QED
      BY <3>2, <3>3
  <2>3. CASE RemoveOnFail(s)
    <3>1. pc[s] # "signal"
      BY <2>3 DEF RemoveOnFail
    <3>2. CASE o \in entries
      <4>1. /\ heap' = [heap EXCEPT ![o].waitChClosed = TRUE]
            /\ entries' = entries \ {o}
        BY <2>3, <3>2, <2>1 DEF RemoveOnFail
      <4>2. heap'[o].sent = FALSE
        BY <4>1, <2>1, <1>1, <1>2 DEF TypeOK, Ids, sendEntry
      <4> QED
        BY <4>1, <4>2, <3>1
    <3>3. CASE o \notin entries
      BY <2>3, <3>1, <3>3, <2>1 DEF RemoveOnFail
    <3> QED
      BY <3>2, <3>3
  <2> QED
    BY <2>2, <2>3
<1>7. TypeOK'
  BY <1>1, <1>3, <1>4, <1>6 DEF TypeOK
<1>8. OwnerInv'
  <2>1. \A t \in Senders : InFlight(t)' =>
           InFlight(t) /\ srID'[t] = srID[t] /\ pc'[t] = pc[t] /\ srID[t] # o
    BY <1>1, <1>3 DEF InFlight, OwnerInv, Callers
  <2>2. \A t \in Senders :
           InFlight(t)' => srID'[t] \in Ids' /\ heap'[srID'[t]].waitChClosed = FALSE
    BY <1>1, <1>4, <1>5, <2>1 DEF OwnerInv
  <2>3. \A t, u \in Senders : InFlight(t)' /\ InFlight(u)' /\ t # u
                                 => srID'[t] # srID'[u]
    BY <1>1, <2>1 DEF OwnerInv
  <2>4. \A t \in Senders : pc'[t] \in {"sending", "signal", "remove"} => InFlight(t)'
    BY DEF InFlight
  <2> QED
    BY <1>1, <2>1, <2>2, <2>3, <2>4 DEF OwnerInv
<1>9. EntryInv'
  <2>1. \A j \in Ids' : heap'[j].exp \in Expiry..(now' + Expiry)
    BY <1>1, <1>4, <1>5 DEF EntryInv
  <2>2. \A j \in Ids' : heap'[j].sent = TRUE =>
                           j \in delivered' /\ heap'[j].waitChClosed = TRUE
    BY <1>1, <1>4, <1>5, <1>6 DEF EntryInv
  <2>3. \A j \in entries' : heap'[j].waitChClosed = TRUE => heap'[j].sent = TRUE
    <3>1. entries \subseteq Ids
      BY <1>1 DEF TypeOK, Ids
    <3> QED
      BY <3>1, <1>1, <1>4, <1>6 DEF EntryInv
  <2> QED
    BY <2>1, <2>2, <2>3 DEF EntryInv
<1>10. WaitInv'
  <2>1. \A c \in Callers : pc'[c] \in {"waiting", "found"} => pc'[c] = pc[c]
    BY <1>3
  <2> QED
    BY <1>1, <1>4, <1>5, <2>1 DEF WaitInv
<1>11. DedupInv'
  <2>1. \A j \in Ids : Standing(j)' => Standing(j)
    BY <1>1, <1>3 DEF Standing, Callers
  <2>2. \A j \in Ids : Standing(j)' /\ j \in entries => j \in entries'
    <3> SUFFICES ASSUME Standing(o)', o \in entries, pc[s] = "remove"
                 PROVE  FALSE
      BY <1>1, <1>6 DEF InFlight, SignalMessageSent, RemoveOnFail
    <3>1. \A t \in Senders : pc'[t] \in {"sending", "signal"} => srID[t] # o
      BY <1>1, <1>3 DEF OwnerInv, InFlight, Callers
    <3>2. o \notin delivered \ lost
      BY <1>1 DEF OwnerInv
    <3> QED
      BY <3>1, <3>2, <1>1 DEF Standing
  <2>3. \A j, k \in entries' : SameMessage(heap'[j].msg, heap'[k].msg) => j = k
    BY <1>1, <1>4, <1>6 DEF TypeOK, Ids, DedupInv
  <2>4. \A j \in Ids' : Standing(j)' => j \in entries' \/ heap'[j].exp < now'
    BY <1>1, <1>4, <1>5, <2>1, <2>2 DEF DedupInv
  <2>5. \A j, k \in Ids' :
           j < k /\ Standing(j)' /\ SameMessage(heap'[j].msg, heap'[k].msg)
              => heap'[j].exp + Expiry < heap'[k].exp
    BY <1>1, <1>4, <1>5, <2>1 DEF DedupInv
  <2> QED
    BY <2>3, <2>4, <2>5 DEF DedupInv
<1> QED
  BY <1>7, <1>8, <1>9, <1>10, <1>11 DEF IInv

(* Time passes: entries can only expire. *)
LEMMA TickIInv == IInv /\ Tick => IInv'
<1> SUFFICES ASSUME IInv, Tick PROVE IInv'
  OBVIOUS
<1> USE SendRecorderAssumption
<1>1. /\ TypeOK /\ OwnerInv /\ EntryInv /\ WaitInv /\ DedupInv
      /\ now \in Nat /\ now' = now + 1
      /\ UNCHANGED <<heap, entries, pc, msg, srID, deadline, delivered, lost>>
  BY DEF IInv, Tick, TypeOK
<1>2. Ids' = Ids /\ \A j \in Ids : heap[j] \in sendEntry
  BY <1>1 DEF TypeOK, Ids
<1>3. TypeOK'
  BY <1>1 DEF TypeOK
<1>4. OwnerInv'
  BY <1>1, <1>2 DEF OwnerInv, InFlight
<1>5. EntryInv'
  <2>1. \A j \in Ids : heap[j].exp \in Expiry..(now' + Expiry)
    BY <1>1 DEF EntryInv
  <2> QED
    BY <1>1, <1>2, <2>1 DEF EntryInv
<1>6. WaitInv'
  BY <1>1, <1>2 DEF WaitInv
<1>7. DedupInv'
  <2>1. \A j \in Ids : Standing(j)' = Standing(j)
    BY <1>1 DEF Standing
  <2>2. \A j \in Ids : heap[j].exp < now => heap[j].exp < now'
    BY <1>1, <1>2 DEF sendEntry
  <2> QED
    BY <1>1, <1>2, <2>1, <2>2 DEF DedupInv
<1> QED
  BY <1>3, <1>4, <1>5, <1>6, <1>7 DEF IInv

(* The invariant is inductive: one case per step of a caller. *)
LEMMA NextIInv == IInv /\ [Next]_vars => IInv'
<1> SUFFICES ASSUME IInv, [Next]_vars PROVE IInv'
  OBVIOUS
<1> USE SendRecorderAssumption
<1>0. /\ TypeOK /\ EntryInv /\ WaitInv /\ now + Patience \in Nat
      /\ entries \subseteq Ids /\ Senders \subseteq Callers
      /\ Appenders \subseteq Callers
  BY DEF IInv, TypeOK, Ids, Callers
<1>1. ASSUME NEW s \in Senders, SenderStep(s) PROVE IInv'
  <2>1. ASSUME TryInsertWait(s) \/ RetryInsert(s) PROVE IInv'
    <3>1. /\ pc[s] \in {"idle", "retry"} /\ ~InFlight(s)
          /\ deadline' \in [Callers -> Nat]
          /\ UNCHANGED <<now, msg, delivered, lost>>
      BY <1>0, <2>1 DEF TryInsertWait, RetryInsert, InFlight, TypeOK
    <3>2. CASE Insert(s)
      BY <3>1, <3>2, InsertIInv
    <3>3. CASE Join(s)
      <4>1. PICK i \in Matching(msg[s]) : srID' = [srID EXCEPT ![s] = i]
        BY <3>3 DEF Join
      <4>2. i \in Ids /\ SameMessage(heap[i].msg, msg[s]) /\ i \in 0..Len(heap)
        BY <1>0 DEF Matching, Unexpired, Ids, TypeOK
      <4> QED
        BY <1>0, <3>1, <3>3, <4>1, <4>2, BystanderIInv DEF Join
    <3> QED
      BY <2>1, <3>2, <3>3 DEF TryInsertWait, RetryInsert, TryInsert
  <2> QED
    BY <1>1, <2>1, OutcomeIInv, ReportIInv DEF SenderStep
<1>2. ASSUME NEW a \in Appenders, AppenderStep(a) PROVE IInv'
  <2>1. /\ pc[a] \in {"idle", "retry"} /\ ~InFlight(a)
        /\ deadline' \in [Callers -> Nat]
        /\ UNCHANGED <<now, msg, delivered, lost>>
        /\ getEntryWaitInfo(a)
    BY <1>0, <1>2 DEF AppenderStep, HasEntryWait, RetryHasEntry, InFlight, TypeOK
  <2>2. CASE NotFound(a)
    <3>1. srID' = [srID EXCEPT ![a] = srID[a]] /\ srID[a] \in 0..Len(heap)
      BY <1>0, <2>2 DEF NotFound, TypeOK
    <3> QED
      BY <1>0, <2>1, <2>2, <3>1, BystanderIInv DEF NotFound
  <2>3. CASE Join(a)
    <3>1. PICK i \in Matching(msg[a]) : srID' = [srID EXCEPT ![a] = i]
      BY <2>3 DEF Join
    <3>2. i \in Ids /\ SameMessage(heap[i].msg, msg[a]) /\ i \in 0..Len(heap)
      BY <1>0 DEF Matching, Unexpired, Ids, TypeOK
    <3> QED
      BY <1>0, <2>1, <2>3, <3>1, <3>2, BystanderIInv DEF Join
  <2> QED
    BY <2>1, <2>2, <2>3 DEF getEntryWaitInfo
<1>3. ASSUME NEW c \in Callers, WaitStep(c) PROVE IInv'
  <2>1. /\ pc[c] = "waiting" /\ ~InFlight(c) /\ entries' = entries
        /\ srID' = [srID EXCEPT ![c] = srID[c]]
        /\ deadline' \in [Callers -> Nat]
        /\ UNCHANGED <<heap, now, msg, delivered, lost>>
    BY <1>0, <1>3 DEF WaitStep, WaitWoken, WaitTimesOut, WaitCancelled, InFlight,
       TypeOK
  <2>2. /\ srID[c] \in Ids /\ srID[c] \in 0..Len(heap)
        /\ SameMessage(heap[srID[c]].msg, msg[c])
    BY <1>0, <2>1 DEF WaitInv, TypeOK
  <2>3. PICK v : /\ pc' = [pc EXCEPT ![c] = v]
                 /\ v \in {"waiting", "retry", "failed", "found", "import"}
                 /\ v = "found" => /\ srID[c] \in entries
                                   /\ heap[srID[c]].waitChClosed
    BY <1>3 DEF WaitStep, WaitWoken, WaitTimesOut, WaitCancelled
  <2>4. v = "found" => srID[c] \in delivered
    BY <1>0, <2>2, <2>3 DEF EntryInv
  <2> QED
    BY <2>1, <2>2, <2>3, <2>4, BystanderIInv
<1>4. CASE UNCHANGED vars
  BY <1>4 DEF vars, IInv, TypeOK, OwnerInv, EntryInv, WaitInv, DedupInv, Ids,
     InFlight, Standing
<1> QED
  BY <1>1, <1>2, <1>3, <1>4, TickIInv DEF Next, Terminated

(***************************************************************************)
(* The main results.                                                       *)
(***************************************************************************)

(* The variables keep their types: no caller dereferences an entry that    *)
(* was never allocated.                                                    *)
THEOREM TypeCorrect == Spec => []TypeOK
<1>1. IInv => TypeOK
  BY DEF IInv
<1> QED
  BY <1>1, InitIInv, NextIInv, PTL DEF Spec

(* TryInsert keeps the map free of two live entries that match. *)
THEOREM EntriesUnique == Spec => []OneLiveEntryPerMessage
<1>1. IInv => OneLiveEntryPerMessage
  BY DEF IInv, DedupInv, OneLiveEntryPerMessage, Unexpired
<1> QED
  BY <1>1, InitIInv, NextIInv, PTL DEF Spec

(* However many callers race, the server accepts an acknowledged message   *)
(* again only from a sender that came after the entry's expiry.            *)
THEOREM AtMostOnce == Spec => []NoDuplicateSend
<1>1. IInv => NoDuplicateSend
  BY DEF IInv, TypeOK, DedupInv, Standing, Ids, NoDuplicateSend
<1> QED
  BY <1>1, InitIInv, NextIInv, PTL DEF Spec

(* The message ID wait hands out belongs to a message that was sent. *)
THEOREM FoundIsSent == Spec => []FoundWasDelivered
<1>1. IInv => FoundWasDelivered
  BY DEF IInv, WaitInv, FoundWasDelivered
<1> QED
  BY <1>1, InitIInv, NextIInv, PTL DEF Spec

(* No waiter is woken while the send it waits for is in progress. *)
THEOREM WokenByOutcome == Spec => []NotWokenEarly
<1>1. IInv => NotWokenEarly
  BY DEF IInv, OwnerInv, InFlight, NotWokenEarly
<1> QED
  BY <1>1, InitIInv, NextIInv, PTL DEF Spec

(***************************************************************************)
(* The recorder implements Outbox.  The refinement needs to know, beyond   *)
(* IInv, that the entry a sender owns holds the sender's own message.      *)
(***************************************************************************)
OwnMessage == \A s \in Senders : InFlight(s) => heap[srID[s]].msg = msg[s]

Mail == {Letter(i) : i \in delivered}

What == [c \in Callers |-> Key(msg[c])]

Answer == [c \in Callers |-> Told(pc[c])]

(* Steps leave the message and the expiry of an entry alone. *)
Constant(i) == heap'[i].msg = heap[i].msg /\ heap'[i].exp = heap[i].exp

(* No step changes what an entry is about, or the message of a caller. *)
LEMMA EntriesConstant ==
    ASSUME IInv, [Next]_vars
    PROVE  /\ \A i \in Ids : Constant(i)
           /\ msg' = msg
<1> USE SendRecorderAssumption
<1>1. TypeOK /\ OwnerInv
  BY DEF IInv
<1>2. \A s \in Senders : Insert(s) => \A i \in Ids : Constant(i)
  BY <1>1 DEF Insert, TypeOK, Ids, Constant
<1>3. \A s \in Senders : SignalMessageSent(s) \/ RemoveOnFail(s) =>
                            \A i \in Ids : Constant(i)
  BY ReportHeap DEF Constant
<1>4. heap' = heap => \A i \in Ids : Constant(i)
  BY DEF Constant
<1> QED
  BY <1>2, <1>3, <1>4 DEF Next, SenderStep, AppenderStep, WaitStep,
     TryInsertWait, RetryInsert, TryInsert, Join, SendDraft, SendReplyLost,
     SendFails, HasEntryWait, RetryHasEntry, getEntryWaitInfo, NotFound,
     SignalMessageSent, RemoveOnFail, WaitWoken, WaitTimesOut, WaitCancelled,
     Tick, Terminated, vars

(* An entry is inserted with the message of its sender, who keeps both. *)
LEMMA NextOwnMessage == IInv /\ OwnMessage /\ [Next]_vars => OwnMessage'
<1> SUFFICES ASSUME IInv, OwnMessage, [Next]_vars, NEW t \in Senders, InFlight(t)'
             PROVE  heap'[srID'[t]].msg = msg'[t]
  BY DEF OwnMessage
<1>1. TypeOK /\ OwnerInv /\ t \in Callers
  BY DEF IInv, Callers
<1>2. msg' = msg /\ \A i \in Ids : heap'[i].msg = heap[i].msg
  BY EntriesConstant DEF Constant
<1>3. CASE InFlight(t) /\ srID'[t] = srID[t]
  BY <1>1, <1>2, <1>3 DEF OwnMessage, OwnerInv
<1>4. CASE Insert(t)
  <2>1. srID'[t] = Len(heap) + 1 /\ heap'[Len(heap) + 1].msg = msg[t]
    BY <1>1, <1>4 DEF Insert, TypeOK
  <2> QED
    BY <2>1, <1>2
<1>5. (InFlight(t) /\ srID'[t] = srID[t]) \/ Insert(t)
  <2> DEFINE Free(c) == pc[c] \in {"idle", "retry", "waiting"}
             Only(c) == \A d \in Callers : d # c => pc'[d] = pc[d] /\ srID'[d] = srID[d]
  <2>1. \A c \in Callers : Free(c) /\ Insert(c) => Only(c)
    BY <1>1 DEF Insert, TypeOK
  <2>2. \A c \in Callers : Join(c) => Only(c) /\ pc'[c] = "waiting"
    BY <1>1 DEF Join, TypeOK
  <2>3. \A c \in Callers : NotFound(c) => Only(c) /\ pc'[c] = "import"
    BY <1>1 DEF NotFound, TypeOK
  <2>4. \A c \in Callers : WaitStep(c) => /\ Only(c)
                                          /\ pc'[c] \in {"found", "retry", "failed", "import"}
    BY <1>1 DEF WaitStep, WaitWoken, WaitTimesOut, WaitCancelled, TypeOK
  <2>5. \A s \in Senders : (\/ SendDraft(s) \/ SendReplyLost(s) \/ SendFails(s)
                            \/ SignalMessageSent(s) \/ RemoveOnFail(s))
           => InFlight(s) /\ srID' = srID /\ \A d \in Callers : d # s => pc'[d] = pc[d]
    BY <1>1 DEF SendDraft, SendReplyLost, SendFails, SignalMessageSent,
       RemoveOnFail, InFlight, TypeOK
  <2>6. UNCHANGED <<pc, srID>> => InFlight(t) /\ srID'[t] = srID[t]
    BY DEF InFlight
  <2>7. \A s \in Senders : TryInsertWait(s) \/ RetryInsert(s)
           => Free(s) /\ (Insert(s) \/ Join(s))
    BY DEF TryInsertWait, RetryInsert, TryInsert
  <2>8. \A a \in Appenders : AppenderStep(a) => NotFound(a) \/ Join(a)
    BY DEF AppenderStep, HasEntryWait, RetryHasEntry, getEntryWaitInfo
  <2>9. \A c \in Callers : Only(c) /\ c # t => InFlight(t) /\ srID'[t] = srID[t]
    BY <1>1 DEF InFlight
  <2>10. ASSUME NEW s \in Senders, SenderStep(s)
         PROVE  (InFlight(t) /\ srID'[t] = srID[t]) \/ Insert(t)
    BY <1>1, <2>1, <2>2, <2>5, <2>7, <2>9, <2>10 DEF SenderStep, InFlight, Callers
  <2>11. ASSUME NEW a \in Appenders, AppenderStep(a)
         PROVE  InFlight(t) /\ srID'[t] = srID[t]
    BY <1>1, <2>2, <2>3, <2>8, <2>9, <2>11 DEF InFlight, Callers
  <2>12. ASSUME NEW c \in Callers, WaitStep(c)
         PROVE  InFlight(t) /\ srID'[t] = srID[t]
    BY <1>1, <2>4, <2>9, <2>12 DEF InFlight
  <2> QED
    BY <2>6, <2>10, <2>11, <2>12 DEF Next, Tick, Terminated, vars
<1> QED
  BY <1>3, <1>4, <1>5

(* Two messages are the same exactly if Outbox cannot tell them apart. *)
LEMMA SameKey ==
    ASSUME NEW m, NEW n
    PROVE  SameMessage(m, n) <=> Key(m) = Key(n)
BY DEF SameMessage, matchToList, Key

(* What went out changes only with the set of accepted entries. *)
LEMMA MailConstant ==
    ASSUME IInv, [Next]_vars, UNCHANGED <<delivered, lost>>
    PROVE  Mail' = Mail /\ What' = What
<1>1. delivered \subseteq Ids
  BY DEF IInv, TypeOK, Ids
<1>2. msg' = msg /\ \A i \in delivered : Constant(i)
  BY <1>1, EntriesConstant
<1>3. \A i \in delivered : Letter(i)' = Letter(i)
  BY <1>2 DEF Letter, Constant
<1>4. Mail' = Mail
  BY <1>3 DEF Mail
<1> QED
  BY <1>2, <1>4 DEF What

(* A caller that had not returned does, or does not: it is told something  *)
(* or nothing.                                                             *)
LEMMA AnswerStep ==
    ASSUME IInv, [Next]_vars, UNCHANGED <<delivered, lost>>,
           NEW c \in Callers, NEW v, pc' = [pc EXCEPT ![c] = v],
           Told(pc[c]) = "none",
           Told(v) \in {"none", "sent", "exists", "failed", "unknown"},
           Told(v) \in {"sent", "exists"} => \E d \in Mail : d.what = What[c]
    PROVE  [Promise!Next]_(Promise!vars)
<1>1. Mail' = Mail /\ What' = What
  BY MailConstant
<1>2. Answer' = [Answer EXCEPT ![c] = Told(v)] /\ Answer[c] = "none"
  BY DEF Answer, IInv, TypeOK
<1>3. CASE Told(v) = "none"
  <2>1. Answer' = Answer
    BY <1>2, <1>3 DEF Answer
  <2> QED
    BY <1>1, <2>1 DEF Promise!vars, Mail, What, Answer
<1>4. CASE Told(v) # "none"
  <2>1. Promise!Say(c)
    BY <1>1, <1>2, <1>4 DEF Promise!Say, Promise!Justified, Mail, What, Answer
  <2> QED
    BY <2>1 DEF Promise!Next
<1> QED
  BY <1>3, <1>4

(* The server accepts a message: DedupInv keeps it apart from every other  *)
(* sending of that message, before it or after it.                         *)
LEMMA DeliverStep ==
    ASSUME IInv, NEW s \in Senders, SendDraft(s) \/ SendReplyLost(s)
    PROVE  Promise!Deliver
<1> DEFINE o == srID[s]
           new == [id |-> o, what |-> Key(heap[o].msg), at |-> heap[o].exp, acked |-> o \notin lost']
<1>1. /\ TypeOK /\ OwnerInv /\ EntryInv /\ DedupInv /\ pc[s] = "sending" /\ s \in Callers
      /\ UNCHANGED <<heap, entries, now, msg, srID, deadline>>
      /\ delivered' = delivered \cup {o}
  BY DEF IInv, SendDraft, SendReplyLost, Callers
<1>2. o \in Ids /\ o \notin delivered /\ delivered \subseteq Ids /\ lost \subseteq delivered
  BY <1>1 DEF OwnerInv, InFlight, TypeOK, Ids
<1>3. lost' \in {lost, lost \cup {o}}
  BY DEF SendDraft, SendReplyLost
<1>4. \A i \in delivered : Letter(i)' = Letter(i)
  BY <1>1, <1>2, <1>3 DEF Letter
<1>5. Letter(o)' = new
  BY <1>1 DEF Letter
<1>6. Mail' = Mail \cup {new} /\ new \notin Mail
  <2>1. Mail' = Mail \cup {new}
    BY <1>1, <1>4, <1>5 DEF Mail
  <2>2. \A d \in Mail : d.id \in delivered
    BY DEF Mail, Letter
  <2> QED
    BY <1>2, <2>1, <2>2
<1>7. ASSUME NEW i \in delivered
      PROVE  Promise!Apart(Letter(i), new) /\ Promise!Apart(new, Letter(i))
  <2>1. Standing(o)
    BY <1>1 DEF Standing
  <2>2. i \notin lost => Standing(i)
    BY DEF Standing
  <2>3. i \in Ids
    BY <1>2
  <2>4. Key(heap[i].msg) = Key(heap[o].msg) =>
           /\ SameMessage(heap[i].msg, heap[o].msg)
           /\ SameMessage(heap[o].msg, heap[i].msg)
    BY SameKey
  <2> QED
    BY <1>1, <1>2, <2>1, <2>2, <2>3, <2>4 DEF Promise!Apart, DedupInv, Letter
<1>8. \A e \in Mail : Promise!Apart(e, new) /\ Promise!Apart(new, e)
  BY <1>7 DEF Mail
<1>9. What' = What
  BY <1>1 DEF What
<1>10. Answer' = Answer
  <2>1. pc' = [pc EXCEPT ![s] = pc'[s]] /\ Told(pc'[s]) = "none" /\ Told(pc[s]) = "none"
    BY <1>1 DEF SendDraft, SendReplyLost, Told, TypeOK
  <2> QED
    BY <1>1, <2>1 DEF Answer, TypeOK
<1> QED
  BY <1>6, <1>8, <1>9, <1>10 DEF Promise!Deliver, Mail, What, Answer

(* Every step of the recorder is a step of Outbox, or none. *)
LEMMA NextPromise ==
    ASSUME IInv, OwnMessage, [Next]_vars
    PROVE  [Promise!Next]_(Promise!vars)
<1>1. TypeOK /\ OwnerInv /\ EntryInv /\ WaitInv
  BY DEF IInv
<1>2. \A i \in delivered : \A c \in Callers :
         SameMessage(heap[i].msg, msg[c]) => \E d \in Mail : d.what = What[c]
  <2> SUFFICES ASSUME NEW i \in delivered, NEW c \in Callers,
                      SameMessage(heap[i].msg, msg[c])
               PROVE  \E d \in Mail : d.what = What[c]
    OBVIOUS
  <2>1. Letter(i) \in Mail /\ Letter(i).what = Key(heap[i].msg)
    BY DEF Mail, Letter
  <2> QED
    BY <2>1, SameKey DEF What
<1>3. ASSUME NEW s \in Senders, SenderStep(s)
      PROVE  [Promise!Next]_(Promise!vars)
  <2>1. s \in Callers
    BY DEF Callers
  <2>2. CASE SendDraft(s) \/ SendReplyLost(s)
    BY <2>2, DeliverStep DEF Promise!Next
  <2>3. CASE TryInsertWait(s) \/ RetryInsert(s) \/ SendFails(s)
    <3>1. PICK v \in {"sending", "waiting", "remove"} : pc' = [pc EXCEPT ![s] = v]
      BY <2>3 DEF TryInsertWait, RetryInsert, TryInsert, Insert, Join, SendFails
    <3>2. Told(v) = "none" /\ Told(pc[s]) = "none" /\ UNCHANGED <<delivered, lost>>
      BY <2>3 DEF Told, TryInsertWait, RetryInsert, SendFails
    <3> QED
      BY <2>1, <3>1, <3>2, AnswerStep
  <2>4. CASE SignalMessageSent(s)
    <3>1. /\ pc' = [pc EXCEPT ![s] = "done"] /\ UNCHANGED <<delivered, lost>>
          /\ Told("done") = "sent" /\ Told(pc[s]) = "none"
          /\ pc[s] = "signal" /\ InFlight(s)
      BY <2>4 DEF SignalMessageSent, Told, InFlight
    <3>2. srID[s] \in delivered /\ heap[srID[s]].msg = msg[s]
      BY <1>1, <3>1 DEF OwnerInv, OwnMessage
    <3>3. SameMessage(heap[srID[s]].msg, msg[s])
      BY <3>2, SameKey
    <3> QED
      BY <1>2, <2>1, <3>1, <3>2, <3>3, AnswerStep
  <2>5. CASE RemoveOnFail(s)
    <3>1. /\ pc' = [pc EXCEPT ![s] = "failed"] /\ UNCHANGED <<delivered, lost>>
          /\ Told("failed") = "failed" /\ Told(pc[s]) = "none"
      BY <2>5 DEF RemoveOnFail, Told
    <3> QED
      BY <2>1, <3>1, AnswerStep
  <2> QED
    BY <1>3, <2>2, <2>3, <2>4, <2>5 DEF SenderStep
<1>4. ASSUME NEW a \in Appenders, AppenderStep(a)
      PROVE  [Promise!Next]_(Promise!vars)
  <2>1. a \in Callers
    BY DEF Callers
  <2>2. PICK v \in {"waiting", "import"} : pc' = [pc EXCEPT ![a] = v]
    BY <1>4 DEF AppenderStep, HasEntryWait, RetryHasEntry, getEntryWaitInfo,
       NotFound, Join
  <2>3. Told(v) \in {"none", "unknown"} /\ Told(pc[a]) = "none" /\ UNCHANGED <<delivered, lost>>
    BY <1>4 DEF Told, AppenderStep, HasEntryWait, RetryHasEntry
  <2> QED
    BY <2>1, <2>2, <2>3, AnswerStep
<1>5. ASSUME NEW c \in Callers, WaitStep(c)
      PROVE  [Promise!Next]_(Promise!vars)
  <2>1. PICK v \in {"retry", "failed", "found", "import"} :
           /\ pc' = [pc EXCEPT ![c] = v]
           /\ v = "found" => srID[c] \in entries /\ heap[srID[c]].waitChClosed
    BY <1>5 DEF WaitStep, WaitWoken, WaitTimesOut, WaitCancelled
  <2>2. pc[c] = "waiting" /\ UNCHANGED <<delivered, lost>>
    BY <1>5 DEF WaitStep, WaitWoken, WaitTimesOut, WaitCancelled
  <2>3. Told(v) \in {"none", "failed", "exists", "unknown"} /\ Told(pc[c]) = "none"
    BY <2>1, <2>2 DEF Told
  <2>4. Told(v) = "exists" => v = "found"
    BY <2>1 DEF Told
  <2>5. v = "found" => srID[c] \in delivered /\ SameMessage(heap[srID[c]].msg, msg[c])
    BY <1>1, <2>1, <2>2 DEF WaitInv, EntryInv, TypeOK, Ids
  <2> QED
    BY <1>2, <2>1, <2>2, <2>3, <2>4, <2>5, AnswerStep
<1>6. CASE Tick \/ Terminated \/ UNCHANGED vars
  <2>1. UNCHANGED <<heap, pc, msg, delivered, lost>>
    BY <1>6 DEF Tick, Terminated, vars
  <2>2. Mail' = Mail /\ What' = What
    BY <2>1, MailConstant
  <2>3. Answer' = Answer
    BY <2>1 DEF Answer
  <2> QED
    BY <2>2, <2>3 DEF Promise!vars, Mail, What, Answer
<1> QED
  BY <1>3, <1>4, <1>5, <1>6 DEF Next

(* The recorder and its callers implement Outbox: whatever the number of   *)
(* mail clients, messages and retries, and whenever entries expire.        *)
THEOREM RecorderKeepsPromise == Spec => KeepsPromise
<1>1. Init => Promise!Init
  <2> SUFFICES ASSUME Init PROVE Promise!Init
    OBVIOUS
  <2>1. Mail = {} /\ Answer = [c \in Callers |-> "none"]
    BY DEF Init, Mail, Answer, Told
  <2> QED
    BY <2>1 DEF Promise!Init, Mail, Answer
<1>2. Init => OwnMessage
  BY DEF Init, OwnMessage, InFlight, Callers
<1>3. IInv /\ OwnMessage /\ [Next]_vars => [Promise!Next]_(Promise!vars)
  BY NextPromise
<1> QED
  BY <1>1, <1>2, <1>3, InitIInv, NextIInv, NextOwnMessage, PTL
  DEF Spec, KeepsPromise, Promise!Spec
=============================================================================
