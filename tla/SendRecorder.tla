---------------------------- MODULE SendRecorder ----------------------------
(***************************************************************************)
(* The send recorder of one user (internal/services/sendrecorder) and the  *)
(* calls that race through it:                                             *)
(*                                                                         *)
(*   - senders call TryInsertWait, send the message, and then call         *)
(*     SignalMessageSent or RemoveOnFail;                                  *)
(*   - appenders (IMAP APPEND, Connector.CreateMessage) call HasEntryWait  *)
(*     and either return the copy that was sent or import a new one.       *)
(*                                                                         *)
(* Each critical section of the recorder's mutex is one atomic step; the   *)
(* callers interleave between those sections.  Time is the counter now;    *)
(* an entry expires Expiry after it was inserted and a caller gives up     *)
(* Patience after it started to wait.                                      *)
(***************************************************************************)
EXTENDS Naturals, Sequences, FiniteSets, Functions

CONSTANTS
    Senders,    \* calls of TryInsertWait, each made at most once
    Appenders,  \* calls of HasEntryWait, each made at most once
    Hashes,     \* message hashes
    ToLists,    \* recipient lists: sequences of addresses
    Expiry,     \* SendEntryExpiry
    Patience,   \* the deadline the callers pass, relative to their start
    MaxTime     \* bound: the clock stops here, after the last deadline

Callers == Senders \cup Appenders

ASSUME SendRecorderAssumption ==
    /\ Senders \cap Appenders = {}
    /\ \A t \in ToLists : t \in Seq(Range(t))
    /\ Expiry \in Nat
    /\ Patience \in Nat
    /\ MaxTime \in Nat

(***************************************************************************)
(* A waiter keeps the wait channel of an entry after the recorder dropped  *)
(* the entry.  heap therefore holds every sendEntry ever allocated, at its *)
(* srID, and entries the srIDs that the recorder's map still refers to, of *)
(* every hash.  cancelIDCounter is Len(heap).                              *)
(***************************************************************************)
VARIABLES
    heap,       \* the sendEntry objects; heap[i].srID would be i
    entries,    \* the srIDs in the recorder's map
    now,        \* the clock
    pc,         \* where each caller is
    msg,        \* the message of each caller: its hash and recipients
    srID,       \* the entry a caller owns or waits for (0: none)
    deadline,   \* when a caller stops waiting
    delivered,  \* the srIDs whose message the server accepted
    lost        \* those of them whose reply was lost: reported as failed

vars == <<heap, entries, now, pc, msg, srID, deadline, delivered, lost>>

Messages == [hash : Hashes, toList : ToLists]

sendEntry == [msg : Messages, exp : Nat, sent : BOOLEAN, waitChClosed : BOOLEAN]

(* The same length and the same addresses, in any order. *)
matchToList(a, b) == Len(a) = Len(b) /\ Range(a) = Range(b)

SameMessage(m, n) == m.hash = n.hash /\ matchToList(m.toList, n.toList)

(* The entries that removeExpiredUnsafe keeps. *)
Unexpired == {i \in entries : heap[i].exp >= now}

Matching(m) == {i \in Unexpired : SameMessage(heap[i].msg, m)}

-----------------------------------------------------------------------------

Init ==
    /\ heap = <<>>
    /\ entries = {}
    /\ now = 0
    /\ pc = [c \in Callers |-> "idle"]
    /\ msg \in [Callers -> Messages]
    /\ srID = [c \in Callers |-> 0]
    /\ deadline = [c \in Callers |-> 0]
    /\ delivered = {}
    /\ lost = {}

(* Mutant: only the recipients in the same order count as the same. *)
InsertSameOrder(s) ==
    /\ \A i \in Unexpired : heap[i].msg # msg[s]
    /\ heap' = Append(heap, [msg |-> msg[s], exp |-> now + Expiry,
                             sent |-> FALSE, waitChClosed |-> FALSE])
    /\ entries' = Unexpired \cup {Len(heap) + 1}
    /\ srID' = [srID EXCEPT ![s] = Len(heap) + 1]
    /\ pc' = [pc EXCEPT ![s] = "sending"]

(* Mutant: entries whose message was sent do not count. *)
InsertAfterSent(s) ==
    /\ \A i \in Matching(msg[s]) : heap[i].sent
    /\ heap' = Append(heap, [msg |-> msg[s], exp |-> now + Expiry,
                             sent |-> FALSE, waitChClosed |-> FALSE])
    /\ entries' = Unexpired \cup {Len(heap) + 1}
    /\ srID' = [srID EXCEPT ![s] = Len(heap) + 1]
    /\ pc' = [pc EXCEPT ![s] = "sending"]

(* TryInsert finds no live entry: it adds one and the caller may send. *)
Insert(s) ==
    /\ Matching(msg[s]) = {}
    /\ heap' = Append(heap, [msg |-> msg[s], exp |-> now + Expiry,
                             sent |-> FALSE, waitChClosed |-> FALSE])
    /\ entries' = Unexpired \cup {Len(heap) + 1}
    /\ srID' = [srID EXCEPT ![s] = Len(heap) + 1]
    /\ pc' = [pc EXCEPT ![s] = "sending"]

(* TryInsert or getEntryWaitInfo finds an entry: the caller waits for it. *)
Join(c) ==
    /\ \E i \in Matching(msg[c]) : srID' = [srID EXCEPT ![c] = i]
    /\ entries' = Unexpired
    /\ pc' = [pc EXCEPT ![c] = "waiting"]
    /\ UNCHANGED heap

(* getEntryWaitInfo finds nothing: the message was not sent from here. *)
NotFound(a) ==
    /\ Matching(msg[a]) = {}
    /\ entries' = Unexpired
    /\ pc' = [pc EXCEPT ![a] = "import"]
    /\ UNCHANGED <<heap, srID>>

TryInsert(s) == Insert(s) \/ Join(s)

getEntryWaitInfo(a) == NotFound(a) \/ Join(a)

(* The call.  Its deadline holds for all its retries. *)
TryInsertWait(s) ==
    /\ pc[s] = "idle"
    /\ now + Patience <= MaxTime
    /\ deadline' = [deadline EXCEPT ![s] = now + Patience]
    /\ TryInsert(s)
    /\ UNCHANGED <<now, msg, delivered, lost>>

(* The send it waited for failed: TryInsertWait calls itself. *)
RetryInsert(s) ==
    /\ pc[s] = "retry"
    /\ TryInsert(s)
    /\ UNCHANGED <<now, msg, deadline, delivered, lost>>

HasEntryWait(a) ==
    /\ pc[a] = "idle"
    /\ now + Patience <= MaxTime
    /\ deadline' = [deadline EXCEPT ![a] = now + Patience]
    /\ getEntryWaitInfo(a)
    /\ UNCHANGED <<now, msg, delivered, lost>>

(* The send it waited for failed: HasEntryWait calls itself. *)
RetryHasEntry(a) ==
    /\ pc[a] = "retry"
    /\ getEntryWaitInfo(a)
    /\ UNCHANGED <<now, msg, deadline, delivered, lost>>

-----------------------------------------------------------------------------

(* wait is woken by the closed channel.  If the entry is still in the map  *)
(* the message was sent and the caller gets its ID, else the send failed.  *)
WaitWoken(c) ==
    /\ pc[c] = "waiting"
    /\ heap[srID[c]].waitChClosed
    /\ pc' = [pc EXCEPT ![c] = IF srID[c] \in entries THEN "found"
                                                      ELSE "retry"]
    /\ UNCHANGED <<heap, entries, now, msg, srID, deadline, delivered, lost>>

(* Mutant: a caller ignores its deadline while the entry is in the map. *)
WaitTimesOutUnlessEntry(c) ==
    /\ pc[c] = "waiting"
    /\ now >= deadline[c]
    /\ srID[c] \notin entries
    /\ pc' = [pc EXCEPT ![c] = IF c \in Senders THEN "failed" ELSE "import"]
    /\ UNCHANGED <<heap, entries, now, msg, srID, deadline, delivered, lost>>

(* Mutant: a caller whose entry was dropped ignores its deadline. *)
WaitTimesOutIfEntry(c) ==
    /\ pc[c] = "waiting"
    /\ now >= deadline[c]
    /\ srID[c] \in entries
    /\ pc' = [pc EXCEPT ![c] = IF c \in Senders THEN "failed" ELSE "import"]
    /\ UNCHANGED <<heap, entries, now, msg, srID, deadline, delivered, lost>>

(* wait reaches its deadline.  To a sender this is an error; HasEntryWait  *)
(* turns it into "no entry", and the append is imported.                   *)
WaitTimesOut(c) ==
    /\ pc[c] = "waiting"
    /\ now >= deadline[c]
    /\ pc' = [pc EXCEPT ![c] = IF c \in Senders THEN "failed" ELSE "import"]
    /\ UNCHANGED <<heap, entries, now, msg, srID, deadline, delivered, lost>>

(* The caller's context is cancelled while it waits. *)
WaitCancelled(c) ==
    /\ pc[c] = "waiting"
    /\ pc' = [pc EXCEPT ![c] = "failed"]
    /\ UNCHANGED <<heap, entries, now, msg, srID, deadline, delivered, lost>>

(* Mutant: the waiters are woken when the message is on its way. *)
SendDraftSignals(s) ==
    /\ pc[s] = "sending"
    /\ delivered' = delivered \cup {srID[s]}
    /\ heap' = [heap EXCEPT ![srID[s]].waitChClosed = TRUE]
    /\ pc' = [pc EXCEPT ![s] = "signal"]
    /\ UNCHANGED <<entries, now, msg, srID, deadline, lost>>

(* The server accepts the message; the recorder does not know it yet. *)
SendDraft(s) ==
    /\ pc[s] = "sending"
    /\ delivered' = delivered \cup {srID[s]}
    /\ pc' = [pc EXCEPT ![s] = "signal"]
    /\ UNCHANGED <<heap, entries, now, msg, srID, deadline, lost>>

(* The server accepts the message and the answer does not arrive, so that  *)
(* sendWithKey returns an error.                                           *)
SendReplyLost(s) ==
    /\ pc[s] = "sending"
    /\ delivered' = delivered \cup {srID[s]}
    /\ lost' = lost \cup {srID[s]}
    /\ pc' = [pc EXCEPT ![s] = "remove"]
    /\ UNCHANGED <<heap, entries, now, msg, srID, deadline>>

(* A step between the insertion and SendDraft, or SendDraft itself, fails. *)
SendFails(s) ==
    /\ pc[s] = "sending"
    /\ pc' = [pc EXCEPT ![s] = "remove"]
    /\ UNCHANGED <<heap, entries, now, msg, srID, deadline, delivered, lost>>

(* An entry that is no longer in the map is left alone, channel included. *)
SignalMessageSent(s) ==
    /\ pc[s] = "signal"
    /\ heap' = IF srID[s] \in entries
                  THEN [heap EXCEPT ![srID[s]].sent = TRUE,
                                    ![srID[s]].waitChClosed = TRUE]
                  ELSE heap
    /\ pc' = [pc EXCEPT ![s] = "done"]
    /\ UNCHANGED <<entries, now, msg, srID, deadline, delivered, lost>>

(* Mutant: the waiters are woken before the entry is removed. *)
RemoveOnFailKeepsEntry(s) ==
    /\ pc[s] = "remove"
    /\ IF srID[s] \in entries /\ ~heap[srID[s]].sent
          THEN heap' = [heap EXCEPT ![srID[s]].waitChClosed = TRUE]
          ELSE UNCHANGED heap
    /\ pc' = [pc EXCEPT ![s] = "failed"]
    /\ UNCHANGED <<entries, now, msg, srID, deadline, delivered, lost>>

RemoveOnFail(s) ==
    /\ pc[s] = "remove"
    /\ IF srID[s] \in entries /\ ~heap[srID[s]].sent
          THEN /\ heap' = [heap EXCEPT ![srID[s]].waitChClosed = TRUE]
               /\ entries' = entries \ {srID[s]}
          ELSE UNCHANGED <<heap, entries>>
    /\ pc' = [pc EXCEPT ![s] = "failed"]
    /\ UNCHANGED <<now, msg, srID, deadline, delivered, lost>>

Tick ==
    /\ now < MaxTime
    /\ now' = now + 1
    /\ UNCHANGED <<heap, entries, pc, msg, srID, deadline, delivered, lost>>

(* Every call that was made has returned and the clock is at its bound. *)
Terminated ==
    /\ now = MaxTime
    /\ \A c \in Callers : pc[c] \in {"idle", "done", "failed", "found", "import"}
    /\ UNCHANGED vars

-----------------------------------------------------------------------------

SenderStep(s) ==
    \/ TryInsertWait(s)
    \/ RetryInsert(s)
    \/ SendDraft(s)
    \/ SendReplyLost(s)
    \/ SendFails(s)
    \/ SignalMessageSent(s)
    \/ RemoveOnFail(s)

AppenderStep(a) == HasEntryWait(a) \/ RetryHasEntry(a)

WaitStep(c) == WaitWoken(c) \/ WaitTimesOut(c) \/ WaitCancelled(c)

Next ==
    \/ \E s \in Senders : SenderStep(s)
    \/ \E a \in Appenders : AppenderStep(a)
    \/ \E c \in Callers : WaitStep(c)
    \/ Tick
    \/ Terminated

Spec == Init /\ [][Next]_vars

(***************************************************************************)
(* A caller runs until it blocks or returns, a woken waiter runs, and the  *)
(* clock advances.  Which way a send ends, and whether a call starts at    *)
(* all, is left to the environment; that a send ends is the API client's   *)
(* own timeout.                                                            *)
(***************************************************************************)
Fairness ==
    /\ WF_vars(Tick)
    /\ \A s \in Senders :
          WF_vars(\/ RetryInsert(s) \/ SendDraft(s) \/ SendReplyLost(s)
                  \/ SendFails(s) \/ SignalMessageSent(s) \/ RemoveOnFail(s))
    /\ \A a \in Appenders : WF_vars(RetryHasEntry(a))
    /\ \A c \in Callers : WF_vars(WaitWoken(c) \/ WaitTimesOut(c))

FairSpec == Spec /\ Fairness

-----------------------------------------------------------------------------

(* The types of the variables; an srID is an index of the heap. *)
TypeOK ==
    /\ heap \in Seq(sendEntry)
    /\ entries \subseteq 1..Len(heap)
    /\ now \in Nat
    /\ pc \in [Callers -> {"idle", "sending", "waiting", "retry", "signal",
                           "remove", "done", "failed", "found", "import"}]
    /\ msg \in [Callers -> Messages]
    /\ srID \in [Callers -> 0..Len(heap)]
    /\ deadline \in [Callers -> Nat]
    /\ delivered \subseteq 1..Len(heap)
    /\ lost \subseteq delivered

(* matchToList is what TryInsert and getEntryWaitInfo look entries up by:  *)
(* among the entries that have not expired no two may match, or the caller *)
(* would wait for either one of them.                                      *)
OneLiveEntryPerMessage ==
    \A i, j \in Unexpired :
       SameMessage(heap[i].msg, heap[j].msg) => i = j

(* The promise of the recorder: the server accepts a message a second time *)
(* only if its sender was let through after the first entry had expired,   *)
(* or if the answer to the first was lost.  The insertion of entry j       *)
(* happened at heap[j].exp - Expiry.                                       *)
NoDuplicateSend ==
    \A i \in delivered \ lost, j \in delivered :
       i < j /\ SameMessage(heap[i].msg, heap[j].msg)
          => heap[i].exp + Expiry < heap[j].exp

(* What wait returns as the ID of the sent message is one: a caller that   *)
(* was told its message exists was told so about a matching message that   *)
(* the server has accepted (never about a send that failed or is pending). *)
FoundWasDelivered ==
    \A c \in Callers :
       pc[c] = "found" => /\ srID[c] \in delivered
                          /\ SameMessage(heap[srID[c]].msg, msg[c])

(* closeWaitChannel: as long as the owner of an entry is neither done nor  *)
(* failed nobody waiting for that entry is woken.                          *)
NotWokenEarly ==
    \A s \in Senders, c \in Callers :
       (/\ pc[s] \in {"sending", "signal", "remove"}
        /\ pc[c] = "waiting"
        /\ srID[c] = srID[s])
       => ~heap[srID[c]].waitChClosed

(***************************************************************************)
(* The recorder implements the promise of Outbox: a message is what        *)
(* matchToList and the hash make of it, an entry is let through Expiry     *)
(* before it expires, and a caller is told something when it returns.      *)
(***************************************************************************)
Key(m) == [hash |-> m.hash, length |-> Len(m.toList), to |-> Range(m.toList)]

Letter(i) == [id |-> i, what |-> Key(heap[i].msg), at |-> heap[i].exp, acked |-> i \notin lost]

Told(p) == CASE p = "done" -> "sent" [] p = "found" -> "exists"
             [] p = "failed" -> "failed" [] p = "import" -> "unknown" [] OTHER -> "none"

Promise == INSTANCE Outbox WITH
    what   <- [c \in Callers |-> Key(msg[c])],
    mail   <- {Letter(i) : i \in delivered},
    answer <- [c \in Callers |-> Told(pc[c])]

(* Every behaviour of the recorder and its callers is one that Outbox      *)
(* allows: TryInsertWait, SignalMessageSent, RemoveOnFail and HasEntryWait *)
(* never let a confirmed message out a second time too early, and answer   *)
(* a caller once, and truthfully.                                          *)
KeepsPromise == Promise!Spec
=============================================================================
