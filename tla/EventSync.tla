------------------------------ MODULE EventSync ------------------------------
(***************************************************************************)
(* The event loop of one user (internal/services/userevents) and the sync  *)
(* state of that user's IMAP service (internal/services/imapservice).      *)
(*                                                                         *)
(* While the IMAP service syncs it handles events with a reduced handler   *)
(* that drops label events.  It remembers, on disk, the event at which the *)
(* sync started (StartSyncEventID); when the sync is complete a goroutine  *)
(* rewinds the event loop to it, and the events come again.                *)
(*                                                                         *)
(* The processes: the event loop, the loop of the IMAP service, the sync   *)
(* handler's goroutine, the rewind goroutines (one per completed sync),    *)
(* the API server, the network, the user, and crashes.                     *)
(***************************************************************************)
EXTENDS Naturals, Sequences, FiniteSets

CONSTANTS
    MaxEvents,   \* bound: events the server logs
    MaxFaults,   \* bound: faults and interventions, of all kinds together
    Faults,      \* the kinds that happen: the connection is lost, the bridge
                 \* crashes, the user resyncs or changes the address mode, an
                 \* event or a rewind fails with a client error ("bad"), an
                 \* event fails for a reason that is retried ("fail")
    Rewinders,   \* rewind goroutines that can exist at a time
    Kinds        \* the kinds of events the server logs: label, message, refresh

ASSUME EventsAssumption ==
    Kinds \subseteq {"label", "message", "refresh"} /\ MaxEvents \in Nat /\ MaxFaults \in Nat

(***************************************************************************)
(* Event i is log[i]; its ID is i, and 0 is the empty event ID.  Event 1   *)
(* is the one that was the latest when the user logged in.                 *)
(***************************************************************************)
VARIABLES
    log,          \* the server's events
    netUp,        \* whether the API can be reached
    esConn,       \* connection events queued for the event loop
    imapConn,     \* connection events queued for the IMAP service
    storedID,     \* vault: the event ID the event loop restarts from
    lastEventID,  \* the event loop's own copy
    paused,       \* the event loop's pause flag
    resumeDue,    \* a call of Resume is on its way (User.New, or feedback)
    badEvent,     \* a UserBadEvent was published and not answered yet
    next,         \* the next event of the batch being published
    batchEnd,     \* the last event of the batch (0: no batch)
    sub,          \* the IMAP service's subscription: none, pending, active
    imap,         \* the IMAP service: starting or looping
    lastHandled,  \* lastHandledEventID
    isSyncing,    \* isSyncing
    startSync,    \* disk: StartSyncEventID
    sync,         \* the sync handler: idle, running, finished
    rewind,       \* the rewind goroutines: where they are, and to what ID
    labels,       \* the label events the IMAP service knows the outcome of
    notified,     \* the events every subscriber has handled without error
    faults        \* how many faults there were

idVars    == <<storedID, lastEventID, notified>>
batchVars == <<next, batchEnd>>
pauseVars == <<paused, resumeDue, badEvent>>
syncVars  == <<isSyncing, startSync, sync>>
imapVars  == <<imap, lastHandled, labels>>
connVars  == <<netUp, esConn, imapConn>>
vars      == <<log, connVars, idVars, batchVars, pauseVars, sub, imapVars,
               syncVars, rewind, faults>>

LabelEvents == {i \in 1..Len(log) : log[i] = "label"}

NoRewind == [pc |-> "none", id |-> 0]

Fault(kind) ==
    /\ kind \in Faults
    /\ faults < MaxFaults
    /\ faults' = faults + 1

-----------------------------------------------------------------------------
(* Start of the bridge, first or after a crash: the event service loads    *)
(* its event ID and is paused, the IMAP service loads the sync state and   *)
(* gets the labels, and its loop is launched.                              *)

Init ==
    /\ log = <<"message">>
    /\ netUp = TRUE
    /\ esConn = <<>> /\ imapConn = <<>>
    /\ storedID = 1 /\ lastEventID = 1 /\ notified = {1}
    /\ next = 0 /\ batchEnd = 0
    /\ paused = TRUE /\ resumeDue = TRUE /\ badEvent = FALSE
    /\ sub = "none" /\ imap = "starting"
    /\ lastHandled = 1
    /\ labels = {}
    /\ isSyncing = FALSE
    /\ startSync = 0
    /\ sync = "idle"
    /\ rewind = [r \in Rewinders |-> NoRewind]
    /\ faults = 0

(* Only the vault and the sync file survive.  The user is loaded again     *)
(* once the API can be reached.                                            *)
Crash ==
    /\ Fault("crash")
    /\ netUp' = TRUE
    /\ esConn' = <<>> /\ imapConn' = <<>>
    /\ lastEventID' = storedID
    /\ next' = 0 /\ batchEnd' = 0
    /\ paused' = TRUE /\ resumeDue' = TRUE /\ badEvent' = FALSE
    /\ sub' = "none" /\ imap' = "starting"
    /\ lastHandled' = storedID
    /\ labels' = LabelEvents
    /\ isSyncing' = FALSE
    /\ sync' = "idle"
    /\ rewind' = [r \in Rewinders |-> NoRewind]
    /\ UNCHANGED <<log, storedID, notified, startSync>>

(* The last step of User.New and of BadEventFeedbackResync. *)
Resume ==
    /\ resumeDue
    /\ resumeDue' = FALSE
    /\ paused' = FALSE
    /\ UNCHANGED <<log, connVars, idVars, batchVars, badEvent, sub, imapVars,
                   syncVars, rewind, faults>>

-----------------------------------------------------------------------------
(* The environment. *)

ServerEvent(k) ==
    /\ Len(log) < MaxEvents
    /\ log' = Append(log, k)
    /\ UNCHANGED <<connVars, idVars, batchVars, pauseVars, sub, imapVars,
                   syncVars, rewind, faults>>

(* The connection is lost or restored; both services are told. *)
ConnStatus ==
    /\ IF netUp THEN Fault("loss") ELSE UNCHANGED faults
    /\ netUp' = ~netUp
    /\ esConn' = Append(esConn, ~netUp)
    /\ imapConn' = Append(imapConn, ~netUp)
    /\ UNCHANGED <<log, idVars, batchVars, pauseVars, sub, imapVars, syncVars,
                   rewind>>

-----------------------------------------------------------------------------
(* The event loop. *)

AtSelect == batchEnd = 0

(* Apply the pending subscriptions and get the events after lastEventID.   *)
(* The call can fail, and then the loop goes back to its select.           *)
Poll ==
    /\ sub' = IF sub = "pending" THEN "active" ELSE sub
    /\ \/ /\ netUp
          /\ next' = lastEventID + 1
          /\ batchEnd' \in (lastEventID + 1)..Len(log)
       \/ UNCHANGED batchVars

PollTick ==
    /\ AtSelect
    /\ ~paused
    /\ Poll
    /\ UNCHANGED <<log, connVars, idVars, pauseVars, imapVars, syncVars, rewind,
                   faults>>

(* A connection event pauses or resumes the loop, and then the loop polls. *)
PollOnConnStatus ==
    /\ AtSelect
    /\ esConn # <<>>
    /\ paused' = ~Head(esConn)
    /\ esConn' = Tail(esConn)
    /\ Poll
    /\ UNCHANGED <<log, netUp, imapConn, idVars, resumeDue, badEvent, imapVars,
                   syncVars, rewind, faults>>

(* An event is published while the IMAP service is no subscriber. *)
PublishToOthers ==
    /\ next \in 1..batchEnd
    /\ sub # "active"
    /\ next' = next + 1
    /\ UNCHANGED <<log, connVars, idVars, batchEnd, pauseVars, sub, imapVars,
                   syncVars, rewind, faults>>

(* A subscriber fails for a reason that is retried later: nothing is       *)
(* stored and the whole batch comes again.                                 *)
PublishFails ==
    /\ ~AtSelect
    /\ Fault("fail")
    /\ next' = 0 /\ batchEnd' = 0
    /\ UNCHANGED <<log, connVars, idVars, pauseVars, sub, imapVars,
                   syncVars, rewind>>

(* A subscriber fails with a client error, or the event ID cannot be       *)
(* stored: the loop is paused and the user is asked.                       *)
BadEvent ==
    /\ ~AtSelect
    /\ Fault("bad")
    /\ next' = 0 /\ batchEnd' = 0
    /\ paused' = TRUE
    /\ badEvent' = TRUE
    /\ UNCHANGED <<log, connVars, idVars, resumeDue, sub, imapVars,
                   syncVars, rewind>>

(* Mutant: the ID of the batch is stored before its events are handled. *)
StoreEventIDFirst ==
    /\ ~AtSelect
    /\ storedID' = batchEnd
    /\ lastEventID' = batchEnd
    /\ notified' = notified \cup (lastEventID + 1)..(next - 1)
    /\ next' = 0 /\ batchEnd' = 0
    /\ UNCHANGED <<log, connVars, pauseVars, sub, imapVars, syncVars,
                   rewind, faults>>

(* All events of the batch were handled. *)
StoreEventID ==
    /\ ~AtSelect /\ next > batchEnd
    /\ storedID' = batchEnd
    /\ lastEventID' = batchEnd
    /\ notified' = notified \cup (lastEventID + 1)..batchEnd
    /\ next' = 0 /\ batchEnd' = 0
    /\ UNCHANGED <<log, connVars, pauseVars, sub, imapVars, syncVars,
                   rewind, faults>>

-----------------------------------------------------------------------------
(* The IMAP service. *)

(* startSyncing and beforeStartSyncing, where StartSyncEventID is cur. *)
StartSyncing(id, cur) ==
    /\ startSync' = IF cur = 0 THEN id ELSE cur
    /\ isSyncing' = TRUE
    /\ sync' = "running"

(* run starts to sync, then subscribes and enters the loop. *)
ImapStartSyncing ==
    /\ imap = "starting"
    /\ StartSyncing(lastHandled, startSync)
    /\ imap' = "subscribe"
    /\ UNCHANGED <<log, connVars, idVars, batchVars, pauseVars, sub,
                   lastHandled, labels, rewind, faults>>

Subscribe ==
    /\ imap = "subscribe"
    /\ sub' = "pending"
    /\ imap' = "loop"
    /\ UNCHANGED <<log, connVars, idVars, batchVars, pauseVars, lastHandled,
                   labels, syncVars, rewind, faults>>

(* Cancel the sync, forget all of its state, start another one. *)
HandleRefreshEvent(id) ==
    /\ lastHandled' = id
    /\ StartSyncing(id, 0)

(* The service receives the next event of the batch from the event loop.   *)
(* During a sync the handler is syncEventHandler, without a LabelHandler.  *)
ConsumeEvent ==
    /\ imap = "loop"
    /\ next \in 1..batchEnd
    /\ sub = "active"
    /\ IF log[next] = "refresh"
          THEN HandleRefreshEvent(next)
          ELSE lastHandled' = next /\ UNCHANGED syncVars
    /\ labels' = IF log[next] = "label" /\ ~isSyncing THEN labels \cup {next}
                                                       ELSE labels
    /\ next' = next + 1
    /\ UNCHANGED <<log, connVars, idVars, batchEnd, pauseVars, sub, imap,
                   rewind, faults>>

(* A refresh event fails half-way, after the sync was cancelled and before *)
(* or after its state was cleared; the event is retried.                   *)
RefreshFails ==
    /\ imap = "loop"
    /\ next \in 1..batchEnd
    /\ sub = "active"
    /\ log[next] = "refresh"
    /\ Fault("fail")
    /\ sync' = "idle"
    /\ isSyncing' = FALSE
    /\ startSync' \in {startSync, 0}
    /\ next' = 0 /\ batchEnd' = 0
    /\ UNCHANGED <<log, connVars, idVars, pauseVars, sub, imapVars, rewind>>

(* resyncReq, or setAddressModeReq with another mode. *)
Resync ==
    /\ imap = "loop"
    /\ Fault("resync")
    /\ HandleRefreshEvent(lastHandled)
    /\ UNCHANGED <<log, connVars, idVars, batchVars, pauseVars, sub, imap,
                   labels, rewind>>

(* Mutant: the event loop is not resumed after the resync. *)
BadEventFeedbackNoResume ==
    /\ imap = "loop"
    /\ badEvent
    /\ HandleRefreshEvent(lastHandled)
    /\ badEvent' = FALSE
    /\ UNCHANGED <<log, connVars, idVars, batchVars, paused, resumeDue, sub,
                   imap, labels, rewind, faults>>

(* The user answers a bad event with a resync; Resume comes after it. *)
BadEventFeedbackResync ==
    /\ imap = "loop"
    /\ badEvent
    /\ HandleRefreshEvent(lastHandled)
    /\ badEvent' = FALSE
    /\ resumeDue' = TRUE
    /\ UNCHANGED <<log, connVars, idVars, batchVars, paused, sub, imap, labels,
                   rewind, faults>>

(* ConnStatusUp restarts the sync, ConnStatusDown cancels it. *)
ImapOnConnStatus ==
    /\ imap = "loop"
    /\ imapConn # <<>>
    /\ imapConn' = Tail(imapConn)
    /\ IF Head(imapConn)
          THEN StartSyncing(lastHandled, startSync)
          ELSE isSyncing' = FALSE /\ sync' = "idle" /\ UNCHANGED startSync
    /\ UNCHANGED <<log, netUp, esConn, idVars, batchVars, pauseVars, sub,
                   imapVars, rewind, faults>>

(* The sync handler has come to its end and offers the result. *)
SyncFinishes ==
    /\ sync = "running"
    /\ netUp
    /\ sync' = "finished"
    /\ UNCHANGED <<log, connVars, idVars, batchVars, pauseVars, sub, imapVars,
                   isSyncing, startSync, rewind, faults>>

(* The service takes the result and launches a goroutine. *)
OnSyncFinished(r) ==
    /\ imap = "loop"
    /\ sync = "finished"
    /\ rewind[r].pc = "none"
    /\ sync' = "idle"
    /\ rewind' = [rewind EXCEPT ![r].pc = "load"]
    /\ UNCHANGED <<log, connVars, idVars, batchVars, pauseVars, sub, imapVars,
                   isSyncing, startSync, faults>>

-----------------------------------------------------------------------------
(* A rewind goroutine. *)

LoadRewindTo(r) ==
    /\ rewind[r].pc = "load"
    /\ startSync # 0
    /\ rewind' = [rewind EXCEPT ![r] = [pc |-> "rewind", id |-> startSync]]
    /\ UNCHANGED <<log, connVars, idVars, batchVars, pauseVars, sub, imapVars,
                   syncVars, faults>>

(* "No eventID to rewind event loop back to." *)
NothingToRewind(r) ==
    /\ rewind[r].pc = "load"
    /\ startSync = 0
    /\ isSyncing' = FALSE
    /\ rewind' = [rewind EXCEPT ![r] = NoRewind]
    /\ UNCHANGED <<log, connVars, idVars, batchVars, pauseVars, sub, imapVars,
                   startSync, sync, faults>>

(* RewindEventID: the event loop takes the request at its select. *)
RewindEventID(r) ==
    /\ rewind[r].pc = "rewind"
    /\ AtSelect
    /\ storedID' = rewind[r].id
    /\ lastEventID' = rewind[r].id
    /\ rewind' = [rewind EXCEPT ![r].pc = "clear"]
    /\ UNCHANGED <<log, connVars, notified, batchVars, pauseVars, sub, imapVars, syncVars,
                   faults>>

(* The event ID cannot be stored: the user is told, the rest goes on. *)
RewindFails(r) ==
    /\ rewind[r].pc = "rewind"
    /\ AtSelect
    /\ Fault("bad")
    /\ badEvent' = TRUE
    /\ rewind' = [rewind EXCEPT ![r].pc = "clear"]
    /\ UNCHANGED <<log, connVars, idVars, batchVars, paused, resumeDue, sub,
                   imapVars, syncVars>>

ClearStartSyncEventID(r) ==
    /\ rewind[r].pc = "clear"
    /\ startSync' = 0
    /\ rewind' = [rewind EXCEPT ![r].pc = "done"]
    /\ UNCHANGED <<log, connVars, idVars, batchVars, pauseVars, sub, imapVars,
                   isSyncing, sync, faults>>

ClearIsSyncing(r) ==
    /\ rewind[r].pc = "done"
    /\ isSyncing' = FALSE
    /\ rewind' = [rewind EXCEPT ![r] = NoRewind]
    /\ UNCHANGED <<log, connVars, idVars, batchVars, pauseVars, sub, imapVars,
                   startSync, sync, faults>>

-----------------------------------------------------------------------------

EventLoopStep ==
    \/ PollTick
    \/ PollOnConnStatus
    \/ PublishToOthers
    \/ PublishFails
    \/ BadEvent
    \/ StoreEventID

ImapStep ==
    \/ ImapStartSyncing
    \/ Subscribe
    \/ ConsumeEvent
    \/ RefreshFails
    \/ Resync
    \/ BadEventFeedbackResync
    \/ ImapOnConnStatus

RewindStep(r) ==
    \/ OnSyncFinished(r)
    \/ LoadRewindTo(r)
    \/ NothingToRewind(r)
    \/ RewindEventID(r)
    \/ RewindFails(r)
    \/ ClearStartSyncEventID(r)
    \/ ClearIsSyncing(r)

Next ==
    \/ Crash
    \/ Resume
    \/ \E k \in Kinds : ServerEvent(k)
    \/ ConnStatus
    \/ EventLoopStep
    \/ ImapStep
    \/ SyncFinishes
    \/ \E r \in Rewinders : RewindStep(r)

Spec == Init /\ [][Next]_vars

(***************************************************************************)
(* Every goroutine that can run runs: the loops, the sync handler once the *)
(* API answers, the rewind goroutines, and the caller of Resume.  A rewind *)
(* request competes with the timer in the event loop's select, which       *)
(* chooses at random: strong fairness.                                     *)
(***************************************************************************)
Fairness ==
    /\ WF_vars(Resume)
    /\ WF_vars(PollTick)
    /\ WF_vars(PollOnConnStatus)
    /\ WF_vars(PublishToOthers)
    /\ WF_vars(ConsumeEvent)
    /\ WF_vars(StoreEventID)
    /\ WF_vars(ImapStartSyncing \/ Subscribe)
    /\ WF_vars(ImapOnConnStatus)
    /\ WF_vars(SyncFinishes)
    /\ \A r \in Rewinders :
          /\ WF_vars(OnSyncFinished(r))
          /\ WF_vars(LoadRewindTo(r) \/ NothingToRewind(r))
          /\ SF_vars(RewindEventID(r))
          /\ WF_vars(ClearStartSyncEventID(r) \/ ClearIsSyncing(r))

FairSpec == Spec /\ Fairness

-----------------------------------------------------------------------------

(* The types of the variables; every event ID in use is one of the log's. *)
TypeOK ==
    /\ log \in Seq({"label", "message", "refresh"})
    /\ netUp \in BOOLEAN
    /\ esConn \in Seq(BOOLEAN) /\ imapConn \in Seq(BOOLEAN)
    /\ storedID \in 1..Len(log) /\ lastEventID \in 1..Len(log)
    /\ notified \subseteq 1..Len(log)
    /\ next \in 0..(batchEnd + 1) /\ batchEnd \in 0..Len(log)
    /\ paused \in BOOLEAN /\ resumeDue \in BOOLEAN /\ badEvent \in BOOLEAN
    /\ sub \in {"none", "pending", "active"}
    /\ imap \in {"starting", "subscribe", "loop"}
    /\ lastHandled \in 1..Len(log)
    /\ labels \subseteq 1..Len(log)
    /\ isSyncing \in BOOLEAN
    /\ startSync \in 0..Len(log)
    /\ sync \in {"idle", "running", "finished"}
    /\ rewind \in [Rewinders -> [pc : {"none", "load", "rewind", "clear", "done"},
                                 id : 0..Len(log)]]
    /\ faults \in 0..MaxFaults

(* userevents, Service: "ensures that all the respective subscribers get   *)
(* notified before proceeding to the next event".  The ID that survives a  *)
(* crash is never ahead of an event that some subscriber has not handled.  *)
AllNotified == 1..storedID \subseteq notified

(* The point of the rewind.  When no sync, result or rewind is pending,    *)
(* every label event that the event loop has passed was applied.           *)
NoLabelEventLost ==
    (/\ imap = "loop" /\ sync = "idle" /\ ~isSyncing
     /\ \A r \in Rewinders : rewind[r].pc = "none")
    => \A i \in LabelEvents : i <= lastEventID => i \in labels

(* A label event is dropped only when StartSyncEventID lies before it, so  *)
(* that the rewind brings it back, except while a rewind is being          *)
(* completed: between RewindEventID and the end of the goroutine.          *)
DropStep ==
    (/\ sub = "active" /\ next \in 1..batchEnd /\ next' = next + 1
     /\ log[next] = "label" /\ next \notin labels')
    => \/ startSync \in 1..(next - 1)
       \/ \E r \in Rewinders : rewind[r].pc \in {"clear", "done"}

(* The service reports "No eventID to rewind event loop back to." as an    *)
(* exception: when a sync completes, StartSyncEventID is set.              *)
SomethingToRewindTo ==
    \A r \in Rewinders : rewind[r].pc = "load" => startSync # 0

(* While a sync runs the events go to the sync handler. *)
SyncingWhileSync == sync # "idle" => isSyncing

(* The event ID that survives a crash is never ahead of an event that a    *)
(* subscriber has not handled, a sync begins with something to rewind to   *)
(* and its events go to the sync handler, and a label event is dropped     *)
(* only where the rewind brings it back.                                   *)
EventsKept ==
    /\ [](TypeOK /\ AllNotified /\ SomethingToRewindTo /\ SyncingWhileSync)
    /\ [][DropStep]_vars

(* Whatever connection changes, crashes, refreshes, resyncs and failures   *)
(* came before: if the API stays reachable and no bad event waits for the  *)
(* user's answer, the sync ends, its rewind ends, and the event loop       *)
(* catches up with the server.                                             *)
Undisturbed == netUp /\ ~badEvent
CaughtUp == ~isSyncing /\ startSync = 0 /\ lastEventID = Len(log)
CatchesUp == <>[]Undisturbed => <>[]CaughtUp
=============================================================================
