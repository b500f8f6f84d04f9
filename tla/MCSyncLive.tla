----------------------------- MODULE MCSyncLive -----------------------------
(* What has to happen in the end: the event loop catches up with the server
   (EventSync) and the jobs of two users in one pipeline end (SyncPipeline). One
   run takes them one at a time, each under the fairness of its own module; the
   pipeline of the behaviours about the event loop stays in its initial state. *)
EXTENDS SyncPipeline

CONSTANTS None, r1, r2

VARIABLES
  part,     \* the part of the program this behaviour is about
  log, netUp, esConn, imapConn, storedID, lastEventID, paused, resumeDue, badEvent, next, batchEnd, sub,
  imapEvents, lastHandled, isSyncing, startSync, sync, rewind, labels, notified, faults

Events == INSTANCE EventSync WITH
  imap <- imapEvents, Rewinders <- {r1, r2}, MaxEvents <- 2, MaxFaults <- 2,
  Faults <- {"loss", "crash", "resync", "bad", "fail"}, Kinds <- {"refresh"}

eventsVars == <<log, netUp, esConn, imapConn, storedID, lastEventID, paused, resumeDue, badEvent, next,
                batchEnd, sub, imapEvents, lastHandled, isSyncing, startSync, sync, rewind, labels, notified,
                faults>>
liveVars == <<part, eventsVars, vars>>

(* The variables of the event loop have no value. *)
NoEvents == log = None /\ netUp = None /\ esConn = None /\ imapConn = None /\ storedID = None /\
            lastEventID = None /\ paused = None /\ resumeDue = None /\ badEvent = None /\ next = None /\
            batchEnd = None /\ sub = None /\ imapEvents = None /\ lastHandled = None /\ isSyncing = None /\
            startSync = None /\ sync = None /\ rewind = None /\ labels = None /\ notified = None /\
            faults = None

LiveInit ==
  \/ part = "events" /\ Events!Init /\ Init
  \/ part = "pipeline" /\ NoEvents /\ Init

LiveNext ==
  \/ part = "events" /\ Events!Next /\ UNCHANGED <<part, vars>>
  \/ part = "pipeline" /\ Next /\ UNCHANGED <<part, eventsVars>>

(* The fairness that each part assumes, in the behaviours that are about it. *)
LiveFairness ==
  /\ WF_eventsVars(part = "events" /\ Events!Resume)
  /\ WF_eventsVars(part = "events" /\ Events!PollTick)
  /\ WF_eventsVars(part = "events" /\ Events!PollOnConnStatus)
  /\ WF_eventsVars(part = "events" /\ Events!PublishToOthers)
  /\ WF_eventsVars(part = "events" /\ Events!ConsumeEvent)
  /\ WF_eventsVars(part = "events" /\ Events!StoreEventID)
  /\ WF_eventsVars(part = "events" /\ (Events!ImapStartSyncing \/ Events!Subscribe))
  /\ WF_eventsVars(part = "events" /\ Events!ImapOnConnStatus)
  /\ WF_eventsVars(part = "events" /\ Events!SyncFinishes)
  /\ \A r \in {r1, r2} : WF_eventsVars(part = "events" /\ Events!OnSyncFinished(r))
  /\ \A r \in {r1, r2} : WF_eventsVars(part = "events" /\ (Events!LoadRewindTo(r) \/ Events!NothingToRewind(r)))
  /\ \A r \in {r1, r2} : SF_eventsVars(part = "events" /\ Events!RewindEventID(r))
  /\ \A r \in {r1, r2} : WF_eventsVars(part = "events" /\ (Events!ClearStartSyncEventID(r) \/ Events!ClearIsSyncing(r)))
  /\ \A u \in Users : WF_vars(part = "pipeline" /\ HandlerStep(u))
  /\ \A u \in Users : WF_vars(part = "pipeline" /\ MetadataStep(u))
  /\ \A u \in Users : WF_vars(part = "pipeline" /\ ImapStep(u))
  /\ \A u \in Users : WF_vars(part = "pipeline" /\ GluonApplies(u))
  /\ WF_vars(part = "pipeline" /\ DownloadStep)
  /\ WF_vars(part = "pipeline" /\ BuildStep)
  /\ WF_vars(part = "pipeline" /\ ApplyStep)

LiveSpec == LiveInit /\ [][LiveNext]_liveVars /\ LiveFairness

-----------------------------------------------------------------------------
(* Whatever connection changes, crashes, refreshes, resyncs and failures came
   before: if the API stays reachable and no bad event waits for the user,
   the sync and its rewind end and the event loop catches up (EventSync). *)
CatchesUp ==
  <>[](part = "events" /\ Events!Undisturbed) => <>[](part = "events" /\ Events!CaughtUp)
=============================================================================
