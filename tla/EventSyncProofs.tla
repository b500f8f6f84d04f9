--------------------------- MODULE EventSyncProofs ---------------------------
(***************************************************************************)
(* Proofs about EventSync: whatever happens, every event ID in use is one  *)
(* of the server's, and as long as syncs do not overlap no event is lost   *)
(* to a crash or a failed batch.                                           *)
(***************************************************************************)
EXTENDS EventSync, TLAPS

EventKinds == {"label", "message", "refresh"}
RewindStates == {"none", "load", "rewind", "clear", "done"}

(* A goroutine that asks for a rewind asks for an event that exists. *)
RewindInv == \A r \in Rewinders : rewind[r].pc = "rewind" => rewind[r].id # 0

TypeInv == TypeOK /\ RewindInv

(* Taking an event from a batch. *)
LEMMA TailType ==
    ASSUME NEW S, NEW s \in Seq(S), s # <<>>
    PROVE  Tail(s) \in Seq(S) /\ Head(s) \in S
OBVIOUS

(* The initial state is typed. *)
LEMMA InitType == Init => TypeInv
<1> SUFFICES ASSUME Init PROVE TypeInv
  OBVIOUS
<1>1. log \in Seq(EventKinds) /\ Len(log) = 1
  BY DEF Init, EventKinds
<1>2. rewind \in [Rewinders -> [pc : RewindStates, id : 0..Len(log)]]
  BY <1>1 DEF Init, NoRewind, RewindStates
<1>3. RewindInv
  BY DEF Init, NoRewind, RewindInv
<1>4. <<>> \in Seq(BOOLEAN)
  OBVIOUS
<1>5. /\ log \in Seq(EventKinds) /\ esConn \in Seq(BOOLEAN) /\ imapConn \in Seq(BOOLEAN)
      /\ netUp \in BOOLEAN /\ paused \in BOOLEAN /\ resumeDue \in BOOLEAN /\ badEvent \in BOOLEAN
      /\ isSyncing \in BOOLEAN
  BY <1>1, <1>4 DEF Init
<1>6. /\ storedID \in 1..Len(log) /\ lastEventID \in 1..Len(log) /\ notified \subseteq 1..Len(log)
      /\ next \in 0..(batchEnd + 1) /\ batchEnd \in 0..Len(log)
      /\ lastHandled \in 1..Len(log) /\ labels \subseteq 1..Len(log) /\ startSync \in 0..Len(log)
      /\ faults \in 0..MaxFaults
  BY <1>1, EventsAssumption DEF Init
<1>7. /\ sub \in {"none", "pending", "active"} /\ imap \in {"starting", "subscribe", "loop"}
      /\ sync \in {"idle", "running", "finished"}
  BY DEF Init
<1>8. TypeOK
  BY <1>2, <1>5, <1>6, <1>7 DEF TypeOK, EventKinds, RewindStates
<1> QED
  BY <1>3, <1>8 DEF TypeInv

(* An event of the server extends the log. *)
LEMMA LogGrows ==
    ASSUME TypeOK, NEW k \in Kinds, ServerEvent(k)
    PROVE  TypeOK'
<1>1. k \in EventKinds /\ log \in Seq(EventKinds)
  BY EventsAssumption DEF TypeOK, EventKinds
<1>2. log' \in Seq(EventKinds) /\ Len(log') = Len(log) + 1 /\ Len(log) \in Nat
  BY <1>1 DEF ServerEvent
<1>3. rewind' \in [Rewinders -> [pc : RewindStates, id : 0..Len(log')]]
  BY <1>2 DEF TypeOK, ServerEvent, RewindStates
<1>4. /\ storedID' \in 1..Len(log') /\ lastEventID' \in 1..Len(log')
      /\ notified' \subseteq 1..Len(log') /\ batchEnd' \in 0..Len(log')
      /\ lastHandled' \in 1..Len(log') /\ labels' \subseteq 1..Len(log')
      /\ startSync' \in 0..Len(log')
  BY <1>2 DEF TypeOK, ServerEvent, idVars, batchVars, imapVars, syncVars
<1> QED
  BY <1>2, <1>3, <1>4 DEF TypeOK, ServerEvent, EventKinds, RewindStates,
     connVars, batchVars, pauseVars, imapVars, syncVars

(* A step of the rewind goroutine r that leaves the log and its IDs alone. *)
LEMMA RewindTyped ==
    ASSUME TypeInv, NEW r \in Rewinders, NEW to \in RewindStates, NEW id \in 0..Len(log),
           to = "rewind" => id # 0,
           rewind' = [rewind EXCEPT ![r] = [pc |-> to, id |-> id]], UNCHANGED log
    PROVE  /\ rewind' \in [Rewinders -> [pc : RewindStates, id : 0..Len(log')]]
           /\ RewindInv'
           /\ rewind'[r].pc = to /\ rewind'[r].id = id
           /\ \A q \in Rewinders \ {r} : rewind'[q] = rewind[q]
<1>1. rewind \in [Rewinders -> [pc : RewindStates, id : 0..Len(log)]] /\ RewindInv
  BY DEF TypeInv, TypeOK, RewindStates
<1>2. [pc |-> to, id |-> id] \in [pc : RewindStates, id : 0..Len(log)]
  OBVIOUS
<1>3. rewind' \in [Rewinders -> [pc : RewindStates, id : 0..Len(log)]]
  BY <1>1, <1>2
<1>4. RewindInv'
  BY <1>1 DEF RewindInv
<1>5. rewind'[r].pc = to /\ rewind'[r].id = id /\ \A q \in Rewinders \ {r} : rewind'[q] = rewind[q]
  BY <1>1
<1> QED
  BY <1>3, <1>4, <1>5

(* The step as the actions write it, which change the place alone. *)
LEMMA RewindMoves ==
    ASSUME TypeInv, NEW r \in Rewinders, NEW to \in RewindStates \ {"rewind"},
           rewind' = [rewind EXCEPT ![r].pc = to], UNCHANGED log
    PROVE  /\ rewind' \in [Rewinders -> [pc : RewindStates, id : 0..Len(log')]]
           /\ RewindInv'
           /\ rewind'[r].pc = to
           /\ \A q \in Rewinders \ {r} : rewind'[q] = rewind[q]
<1>1. rewind \in [Rewinders -> [pc : RewindStates, id : 0..Len(log)]] /\ RewindInv
  BY DEF TypeInv, TypeOK, RewindStates
<1> DEFINE s == [rewind[r] EXCEPT !.pc = to]
<1>2. s \in [pc : RewindStates, id : 0..Len(log)] /\ s.pc = to
  BY <1>1
<1>3. rewind' = [rewind EXCEPT ![r] = s]
  OBVIOUS
<1> HIDE DEF s
<1>4. /\ rewind' \in [Rewinders -> [pc : RewindStates, id : 0..Len(log)]]
      /\ rewind'[r] = s /\ \A q \in Rewinders \ {r} : rewind'[q] = rewind[q]
  BY <1>1, <1>2, <1>3
<1>5. RewindInv'
  BY <1>1, <1>2, <1>4 DEF RewindInv
<1> QED
  BY <1>2, <1>4, <1>5

(* Every step keeps the types. *)
LEMMA StepType == TypeInv /\ [Next]_vars => TypeInv'
<1> SUFFICES ASSUME TypeInv, [Next]_vars PROVE TypeInv'
  OBVIOUS
<1> USE EventsAssumption
<1>0. TypeOK /\ RewindInv /\ Len(log) \in Nat
  BY DEF TypeInv, TypeOK
<1>1. CASE Crash
  <2>1. rewind' \in [Rewinders -> [pc : RewindStates, id : 0..Len(log')]] /\ RewindInv'
    BY <1>0, <1>1 DEF Crash, NoRewind, RewindStates, RewindInv
  <2>2. LabelEvents \subseteq 1..Len(log) /\ <<>> \in Seq(BOOLEAN)
    BY DEF LabelEvents
  <2>3. /\ log' \in Seq(EventKinds) /\ esConn' \in Seq(BOOLEAN) /\ imapConn' \in Seq(BOOLEAN)
        /\ netUp' \in BOOLEAN /\ paused' \in BOOLEAN /\ resumeDue' \in BOOLEAN /\ badEvent' \in BOOLEAN
        /\ isSyncing' \in BOOLEAN
    BY <1>0, <1>1, <2>2 DEF Crash, TypeOK, EventKinds
  <2>4. /\ storedID' \in 1..Len(log') /\ lastEventID' \in 1..Len(log') /\ notified' \subseteq 1..Len(log')
        /\ next' \in 0..(batchEnd' + 1) /\ batchEnd' \in 0..Len(log')
        /\ lastHandled' \in 1..Len(log') /\ labels' \subseteq 1..Len(log') /\ startSync' \in 0..Len(log')
        /\ faults' \in 0..MaxFaults
    BY <1>0, <1>1, <2>2 DEF Crash, Fault, TypeOK
  <2>5. /\ sub' \in {"none", "pending", "active"} /\ imap' \in {"starting", "subscribe", "loop"}
        /\ sync' \in {"idle", "running", "finished"}
    BY <1>1 DEF Crash
  <2>6. TypeOK'
    BY <2>1, <2>3, <2>4, <2>5 DEF TypeOK, EventKinds, RewindStates
  <2> QED
    BY <2>1, <2>6 DEF TypeInv
<1>2. CASE Resume
  BY <1>0, <1>2 DEF Resume, TypeInv, TypeOK, RewindInv, connVars, idVars, batchVars, imapVars, syncVars
<1>3. ASSUME NEW k \in Kinds, ServerEvent(k) PROVE TypeInv'
  <2>1. RewindInv'
    BY <1>0, <1>3 DEF ServerEvent, RewindInv
  <2> QED
    BY <1>0, <1>3, <2>1, LogGrows DEF TypeInv
<1>4. CASE ConnStatus
  <2>1. esConn' \in Seq(BOOLEAN) /\ imapConn' \in Seq(BOOLEAN)
    BY <1>0, <1>4 DEF ConnStatus, TypeOK
  <2> QED
    <3>1. netUp' \in BOOLEAN /\ faults' \in 0..MaxFaults
      BY <1>0, <1>4 DEF ConnStatus, Fault, TypeOK
    <3>2. UNCHANGED <<log, idVars, batchVars, pauseVars, sub, imapVars, syncVars, rewind>>
      BY <1>4 DEF ConnStatus
    <3> QED
      BY <1>0, <2>1, <3>1, <3>2 DEF TypeInv, TypeOK, RewindInv, idVars, batchVars, pauseVars, imapVars, syncVars
<1>5. CASE PollTick
  <2>1. sub' \in {"none", "pending", "active"} /\ batchEnd' \in 0..Len(log) /\ next' \in 0..(batchEnd' + 1)
    BY <1>0, <1>5 DEF PollTick, Poll, TypeOK, batchVars
  <2>2. UNCHANGED <<log, connVars, idVars, pauseVars, imapVars, syncVars, rewind, faults>>
    BY <1>5 DEF PollTick
  <2> QED
    BY <1>0, <2>1, <2>2 DEF TypeInv, TypeOK, RewindInv, idVars, pauseVars, imapVars, syncVars, connVars
<1>6. CASE PollOnConnStatus
  <2>1. esConn' \in Seq(BOOLEAN) /\ paused' \in BOOLEAN
    <3>1. esConn \in Seq(BOOLEAN) /\ esConn # <<>> /\ esConn' = Tail(esConn)
      BY <1>0, <1>6 DEF PollOnConnStatus, TypeOK
    <3>2. paused' \in BOOLEAN
      BY <1>6 DEF PollOnConnStatus
    <3> QED
      BY <3>1, <3>2, TailType
  <2>2. sub' \in {"none", "pending", "active"} /\ batchEnd' \in 0..Len(log) /\ next' \in 0..(batchEnd' + 1)
    <3>1. Poll
      BY <1>6 DEF PollOnConnStatus
    <3> QED
      BY <1>0, <3>1 DEF Poll, TypeOK, batchVars
  <2>3. UNCHANGED <<log, netUp, imapConn, idVars, resumeDue, badEvent, imapVars, syncVars, rewind, faults>>
    BY <1>6 DEF PollOnConnStatus
  <2> QED
    BY <1>0, <2>1, <2>2, <2>3 DEF TypeInv, TypeOK, RewindInv, idVars, imapVars, syncVars
<1>7. CASE PublishToOthers
  BY <1>0, <1>7 DEF PublishToOthers, TypeInv, TypeOK, RewindInv, idVars, pauseVars, imapVars, syncVars, connVars
<1>8. CASE PublishFails
  BY <1>0, <1>8 DEF PublishFails, Fault, TypeInv, TypeOK, RewindInv, idVars, pauseVars, imapVars, syncVars, connVars
<1>18. CASE BadEvent
  BY <1>0, <1>18 DEF BadEvent, Fault, TypeInv, TypeOK, RewindInv, idVars, pauseVars, imapVars, syncVars, connVars
<1>9. CASE StoreEventID
  BY <1>0, <1>9 DEF StoreEventID, AtSelect, TypeInv, TypeOK, RewindInv, pauseVars, imapVars, syncVars, connVars
<1>10. CASE ImapStartSyncing
  <2>1. startSync' \in 0..Len(log) /\ isSyncing' \in BOOLEAN
    BY <1>0, <1>10 DEF ImapStartSyncing, StartSyncing, TypeOK
  <2> QED
    BY <1>0, <1>10, <2>1 DEF ImapStartSyncing, StartSyncing, TypeInv, TypeOK, RewindInv, idVars, batchVars, pauseVars, connVars
<1>19. CASE Subscribe
  BY <1>0, <1>19 DEF Subscribe, TypeInv, TypeOK, RewindInv, idVars, batchVars, pauseVars, syncVars, connVars
<1>11. CASE ConsumeEvent
  <2>1. /\ startSync' \in 0..Len(log) /\ lastHandled' \in 1..Len(log) /\ next' \in 0..(batchEnd + 1)
        /\ labels' \subseteq 1..Len(log)
    BY <1>0, <1>11 DEF ConsumeEvent, HandleRefreshEvent, StartSyncing, TypeOK, syncVars
  <2>2. isSyncing' \in BOOLEAN /\ sync' \in {"idle", "running", "finished"}
    BY <1>0, <1>11 DEF ConsumeEvent, HandleRefreshEvent, StartSyncing, TypeOK, syncVars
  <2>3. UNCHANGED <<log, connVars, idVars, batchEnd, pauseVars, sub, imap, rewind, faults>>
    BY <1>11 DEF ConsumeEvent
  <2> QED
    BY <1>0, <2>1, <2>2, <2>3 DEF TypeInv, TypeOK, RewindInv, idVars, pauseVars, connVars
<1>12. CASE RefreshFails
  <2>1. startSync' \in 0..Len(log) /\ next' = 0 /\ batchEnd' = 0 /\ faults' \in 0..MaxFaults
    BY <1>0, <1>12 DEF RefreshFails, Fault, TypeOK
  <2>2. isSyncing' \in BOOLEAN /\ sync' = "idle"
    BY <1>12 DEF RefreshFails
  <2>3. UNCHANGED <<log, connVars, idVars, pauseVars, sub, imapVars, rewind>>
    BY <1>12 DEF RefreshFails
  <2> QED
    BY <1>0, <2>1, <2>2, <2>3 DEF TypeInv, TypeOK, RewindInv, idVars, pauseVars, imapVars, connVars
<1>13. CASE Resync \/ BadEventFeedbackResync
  <2>1. startSync' \in 0..Len(log) /\ lastHandled' = lastHandled /\ faults' \in 0..MaxFaults
    BY <1>0, <1>13 DEF Resync, BadEventFeedbackResync, HandleRefreshEvent, StartSyncing, Fault, TypeOK
  <2>2. isSyncing' \in BOOLEAN /\ sync' = "running" /\ badEvent' \in BOOLEAN /\ resumeDue' \in BOOLEAN
    BY <1>0, <1>13 DEF Resync, BadEventFeedbackResync, HandleRefreshEvent, StartSyncing, TypeOK, pauseVars
  <2>3. UNCHANGED <<log, connVars, idVars, batchVars, paused, sub, imap, labels, rewind>>
    BY <1>13 DEF Resync, BadEventFeedbackResync, pauseVars
  <2> QED
    BY <1>0, <2>1, <2>2, <2>3 DEF TypeInv, TypeOK, RewindInv, idVars, batchVars, connVars
<1>14. CASE ImapOnConnStatus
  <2>1. imapConn' \in Seq(BOOLEAN)
    <3>1. imapConn \in Seq(BOOLEAN) /\ imapConn # <<>> /\ imapConn' = Tail(imapConn)
      BY <1>0, <1>14 DEF ImapOnConnStatus, TypeOK
    <3> QED
      BY <3>1, TailType
  <2>2. startSync' \in 0..Len(log)
    <3>1. startSync' \in {startSync, lastHandled}
      BY <1>14 DEF ImapOnConnStatus, StartSyncing
    <3> QED
      BY <1>0, <3>1 DEF TypeOK
  <2>3. isSyncing' \in BOOLEAN /\ sync' \in {"idle", "running", "finished"}
    BY <1>14 DEF ImapOnConnStatus, StartSyncing
  <2>4. UNCHANGED <<log, netUp, esConn, idVars, batchVars, pauseVars, sub, imapVars, rewind, faults>>
    BY <1>14 DEF ImapOnConnStatus
  <2> QED
    BY <1>0, <2>1, <2>2, <2>3, <2>4 DEF TypeInv, TypeOK, RewindInv, idVars, batchVars, pauseVars, imapVars
<1>15. CASE SyncFinishes
  BY <1>0, <1>15 DEF SyncFinishes, TypeInv, TypeOK, RewindInv, idVars, batchVars, pauseVars, imapVars, connVars
<1>16. ASSUME NEW r \in Rewinders, RewindStep(r) PROVE TypeInv'
  <2>1. rewind' \in [Rewinders -> [pc : RewindStates, id : 0..Len(log')]] /\ RewindInv' /\ log' = log
    <3>1. CASE OnSyncFinished(r)
      BY <1>0, <3>1, RewindMoves DEF OnSyncFinished, RewindStates
    <3>2. CASE LoadRewindTo(r)
      BY <1>0, <3>2, RewindTyped DEF LoadRewindTo, RewindStates, TypeOK
    <3>3. CASE NothingToRewind(r)
      <4>1. 0 \in 0..Len(log) /\ rewind' = [rewind EXCEPT ![r] = [pc |-> "none", id |-> 0]] /\ log' = log
        BY <1>0, <3>3 DEF NothingToRewind, NoRewind
      <4> QED
        BY <1>0, <4>1, RewindTyped DEF RewindStates
    <3>4. CASE RewindEventID(r)
      BY <1>0, <3>4, RewindMoves DEF RewindEventID, RewindStates
    <3>5. CASE RewindFails(r)
      BY <1>0, <3>5, RewindMoves DEF RewindFails, RewindStates
    <3>6. CASE ClearStartSyncEventID(r)
      BY <1>0, <3>6, RewindMoves DEF ClearStartSyncEventID, RewindStates
    <3>7. CASE ClearIsSyncing(r)
      <4>1. 0 \in 0..Len(log) /\ rewind' = [rewind EXCEPT ![r] = [pc |-> "none", id |-> 0]] /\ log' = log
        BY <1>0, <3>7 DEF ClearIsSyncing, NoRewind
      <4> QED
        BY <1>0, <4>1, RewindTyped DEF RewindStates
    <3> QED
      BY <1>16, <3>1, <3>2, <3>3, <3>4, <3>5, <3>6, <3>7 DEF RewindStep
  <2>2. /\ storedID' \in 1..Len(log') /\ lastEventID' \in 1..Len(log')
        /\ startSync' \in 0..Len(log') /\ faults' \in 0..MaxFaults
    <3>1. rewind[r].pc = "rewind" => rewind[r].id \in 1..Len(log)
      BY <1>0 DEF TypeOK, RewindInv
    <3>2. CASE RewindEventID(r)
      BY <1>0, <2>1, <3>1, <3>2 DEF RewindEventID, TypeOK, syncVars
    <3>3. CASE RewindFails(r)
      BY <1>0, <2>1, <3>3, SMTT(20) DEF RewindFails, Fault, TypeOK, idVars, syncVars
    <3>4. CASE OnSyncFinished(r) \/ LoadRewindTo(r) \/ NothingToRewind(r) \/ ClearIsSyncing(r)
      BY <1>0, <2>1, <3>4 DEF OnSyncFinished, LoadRewindTo, NothingToRewind, ClearIsSyncing, TypeOK, idVars, syncVars
    <3>5. CASE ClearStartSyncEventID(r)
      BY <1>0, <2>1, <3>5 DEF ClearStartSyncEventID, TypeOK, idVars
    <3> QED
      BY <1>16, <3>2, <3>3, <3>4, <3>5 DEF RewindStep
  <2>5. isSyncing' \in BOOLEAN /\ sync' \in {"idle", "running", "finished"} /\ badEvent' \in BOOLEAN
    BY <1>0, <1>16 DEF RewindStep, OnSyncFinished, LoadRewindTo, NothingToRewind, RewindEventID, RewindFails,
       ClearStartSyncEventID, ClearIsSyncing, TypeOK, syncVars, pauseVars
  <2>3. UNCHANGED <<connVars, notified, batchVars, paused, resumeDue, sub, imapVars>>
    BY <1>16 DEF RewindStep, OnSyncFinished, LoadRewindTo, NothingToRewind, RewindEventID, RewindFails,
       ClearStartSyncEventID, ClearIsSyncing, idVars, pauseVars
  <2>4. TypeOK'
    BY <1>0, <2>1, <2>2, <2>3, <2>5 DEF TypeOK, connVars, batchVars, imapVars, RewindStates
  <2> QED
    BY <2>1, <2>4 DEF TypeInv
<1>17. CASE UNCHANGED vars
  BY <1>0, <1>17 DEF vars, TypeInv, TypeOK, RewindInv, idVars, batchVars, pauseVars, imapVars, syncVars, connVars
<1> QED
  BY <1>1, <1>2, <1>3, <1>4, <1>5, <1>6, <1>7, <1>8, <1>9, <1>10, <1>11, <1>12, <1>13, <1>14, <1>15, <1>16, <1>17, <1>18, <1>19
     DEF Next, EventLoopStep, ImapStep

(* Whatever refreshes, failures, connection changes, resyncs, bad events   *)
(* and crashes come in whatever order, every event ID that is stored, kept *)
(* or rewound to is the ID of an event of the server: the loop is never    *)
(* sent back to the empty ID (userevents/service.go, imapservice).         *)
THEOREM EventTypeCorrect == Spec => []TypeOK
<1>1. TypeInv => TypeOK
  BY DEF TypeInv
<1> QED
  BY InitType, StepType, <1>1, PTL DEF Spec

-----------------------------------------------------------------------------
(* Without refreshes, resyncs, bad events and connection losses there is   *)
(* one sync at a time, the one that the start of the bridge begins;        *)
(* batches may fail and the bridge may crash anywhere.                     *)
Quiet == "refresh" \notin Kinds /\ Faults \subseteq {"crash", "fail"}

EnvInv ==
    /\ netUp /\ ~badEvent
    /\ esConn = <<>> /\ imapConn = <<>>
    /\ \A i \in 1..Len(log) : log[i] # "refresh"

(* StartSyncEventID is never ahead of what the event loop has stored, what *)
(* it has stored every subscriber has handled, and a batch is ahead of it. *)
IDInv ==
    /\ storedID = lastEventID /\ 1..storedID \subseteq notified
    /\ startSync <= lastEventID
    /\ imap = "starting" => lastHandled <= lastEventID
    /\ ~AtSelect => next > lastEventID
    /\ \A r \in Rewinders : rewind[r].pc = "rewind" => rewind[r].id = startSync

(* The sync, its result and its rewind follow each other; from the start   *)
(* of the sync to the end of the rewind the service counts as syncing, and *)
(* until the rewind is done StartSyncEventID is set.                       *)
PhaseInv ==
    /\ imap = "starting" => sync = "idle"
    /\ imap = "starting" \/ sync # "idle" => \A r \in Rewinders : rewind[r].pc = "none"
    /\ \A r, q \in Rewinders : rewind[r].pc # "none" /\ rewind[q].pc # "none" => r = q
    /\ sync # "idle" => isSyncing /\ startSync # 0
    /\ \A r \in Rewinders : rewind[r].pc \in {"load", "rewind"} => startSync # 0
    /\ isSyncing => sync # "idle" \/ \E r \in Rewinders : rewind[r].pc # "none"

QuietInv == TypeInv /\ EnvInv /\ IDInv /\ PhaseInv

(* The initial state satisfies the invariant. *)
LEMMA InitQuiet == Init => QuietInv
<1> SUFFICES ASSUME Init PROVE QuietInv
  OBVIOUS
<1>1. TypeInv
  BY InitType
<1>2. EnvInv
  BY DEF Init, EnvInv
<1>3. \A r \in Rewinders : rewind[r].pc = "none"
  BY DEF Init, NoRewind
<1>4. IDInv
  BY <1>3 DEF Init, IDInv, AtSelect
<1>5. PhaseInv
  BY <1>3 DEF Init, PhaseInv
<1> QED
  BY <1>1, <1>2, <1>4, <1>5 DEF QuietInv

QuietRewindStep(r) ==
    OnSyncFinished(r) \/ LoadRewindTo(r) \/ RewindEventID(r) \/ ClearStartSyncEventID(r) \/ ClearIsSyncing(r)

(* The steps that are left. *)
LEMMA QuietNext ==
    ASSUME Quiet, QuietInv, Next
    PROVE  \/ Crash \/ Resume \/ \E k \in Kinds : ServerEvent(k)
           \/ PollTick \/ PublishToOthers \/ PublishFails \/ StoreEventID
           \/ ImapStartSyncing \/ Subscribe \/ ConsumeEvent \/ SyncFinishes
           \/ \E r \in Rewinders : QuietRewindStep(r)
<1>1. "loss" \notin Faults /\ "bad" \notin Faults /\ "resync" \notin Faults
  BY DEF Quiet
<1>2. ~ConnStatus
  BY <1>1 DEF ConnStatus, Fault, QuietInv, EnvInv
<1>3. ~PollOnConnStatus /\ ~ImapOnConnStatus
  BY DEF PollOnConnStatus, ImapOnConnStatus, QuietInv, EnvInv
<1>4. ~BadEvent /\ ~Resync /\ \A r \in Rewinders : ~RewindFails(r)
  BY <1>1 DEF BadEvent, Resync, RewindFails, Fault
<1>5. ~BadEventFeedbackResync
  BY DEF BadEventFeedbackResync, QuietInv, EnvInv
<1>6. ~RefreshFails
  BY DEF RefreshFails, QuietInv, EnvInv, TypeInv, TypeOK
<1>7. \A r \in Rewinders : ~NothingToRewind(r)
  BY DEF NothingToRewind, QuietInv, PhaseInv
<1> QED
  BY <1>2, <1>3, <1>4, <1>5, <1>6, <1>7 DEF Next, EventLoopStep, ImapStep, RewindStep, QuietRewindStep

(* What a rewind goroutine's step does to the goroutines. *)
LEMMA OneMoves ==
    ASSUME TypeInv, NEW r \in Rewinders, QuietRewindStep(r)
    PROVE  /\ \A q \in Rewinders \ {r} : rewind'[q] = rewind[q]
           /\ OnSyncFinished(r) => rewind'[r].pc = "load"
           /\ LoadRewindTo(r) => rewind'[r].pc = "rewind" /\ rewind'[r].id = startSync
           /\ RewindEventID(r) => rewind'[r].pc = "clear"
           /\ ClearStartSyncEventID(r) => rewind'[r].pc = "done"
           /\ ClearIsSyncing(r) => rewind'[r].pc = "none"
<1>1. OnSyncFinished(r) => /\ rewind'[r].pc = "load"
                           /\ \A q \in Rewinders \ {r} : rewind'[q] = rewind[q]
  BY RewindMoves DEF OnSyncFinished, RewindStates
<1>2. RewindEventID(r) => /\ rewind'[r].pc = "clear"
                          /\ \A q \in Rewinders \ {r} : rewind'[q] = rewind[q]
  BY RewindMoves DEF RewindEventID, RewindStates
<1>3. ClearStartSyncEventID(r) => /\ rewind'[r].pc = "done"
                                  /\ \A q \in Rewinders \ {r} : rewind'[q] = rewind[q]
  BY RewindMoves DEF ClearStartSyncEventID, RewindStates
<1>4. LoadRewindTo(r) => /\ rewind'[r].pc = "rewind" /\ rewind'[r].id = startSync
                         /\ \A q \in Rewinders \ {r} : rewind'[q] = rewind[q]
  BY RewindTyped DEF LoadRewindTo, RewindStates, TypeInv, TypeOK
<1>5. ClearIsSyncing(r) => /\ rewind'[r].pc = "none"
                           /\ \A q \in Rewinders \ {r} : rewind'[q] = rewind[q]
  <2>1. Len(log) \in Nat /\ 0 \in 0..Len(log)
    BY DEF TypeInv, TypeOK
  <2> QED
    BY <2>1, RewindTyped DEF ClearIsSyncing, NoRewind, RewindStates
<1> QED
  BY <1>1, <1>2, <1>3, <1>4, <1>5 DEF QuietRewindStep

(* Every step without refresh and connection loss keeps the invariant. *)
LEMMA QuietStep == ASSUME Quiet PROVE QuietInv /\ [Next]_vars => QuietInv'
<1> SUFFICES ASSUME QuietInv, [Next]_vars PROVE QuietInv'
  OBVIOUS
<1>0. TypeInv /\ TypeOK /\ EnvInv /\ IDInv /\ PhaseInv /\ TypeInv' /\ TypeOK'
  BY StepType DEF QuietInv, TypeInv
<1>1. CASE Crash
  <2>1. EnvInv'
    BY <1>0, <1>1 DEF Crash, EnvInv, connVars, idVars, batchVars, pauseVars, imapVars, syncVars
  <2>5. \A r \in Rewinders : rewind'[r].pc = "none"
    BY <1>1 DEF Crash, NoRewind
  <2>2. IDInv'
    BY <1>0, <1>1, <2>5 DEF Crash, IDInv, AtSelect, TypeOK
  <2>3. PhaseInv'
    BY <1>1, <2>5 DEF Crash, PhaseInv
  <2> QED
    BY <1>0, <2>1, <2>2, <2>3 DEF QuietInv
<1>2. CASE Resume
  <2>1. EnvInv'
    BY <1>0, <1>2 DEF Resume, EnvInv, connVars, idVars, batchVars, pauseVars, imapVars, syncVars
  <2>2. IDInv'
    BY <1>0, <1>2 DEF Resume, IDInv, AtSelect, TypeOK, connVars, idVars, batchVars, pauseVars, imapVars, syncVars
  <2>3. PhaseInv'
    BY <1>0, <1>2 DEF Resume, PhaseInv, connVars, idVars, batchVars, pauseVars, imapVars, syncVars
  <2> QED
    BY <1>0, <2>1, <2>2, <2>3 DEF QuietInv
<1>3. ASSUME NEW k \in Kinds, ServerEvent(k) PROVE QuietInv'
  <2>1. EnvInv'
    <3>1. k # "refresh" /\ log \in Seq(EventKinds) /\ k \in EventKinds
      BY <1>0, EventsAssumption DEF Quiet, TypeOK, EventKinds
    <3>2. \A i \in 1..Len(log') : log'[i] # "refresh"
      BY <1>0, <1>3, <3>1 DEF ServerEvent, EnvInv
    <3> QED
      BY <1>0, <1>3, <3>2 DEF ServerEvent, EnvInv, connVars, pauseVars
  <2>2. IDInv'
    BY <1>0, <1>3 DEF ServerEvent, IDInv, AtSelect, connVars, idVars, batchVars, pauseVars, imapVars, syncVars
  <2>3. PhaseInv'
    BY <1>0, <1>3 DEF ServerEvent, PhaseInv, connVars, idVars, batchVars, pauseVars, imapVars, syncVars
  <2> QED
    BY <1>0, <2>1, <2>2, <2>3 DEF QuietInv
<1>4. CASE PollTick
  <2>1. EnvInv'
    BY <1>0, <1>4 DEF PollTick, EnvInv, connVars, idVars, batchVars, pauseVars, imapVars, syncVars
  <2>2. IDInv'
    BY <1>0, <1>4 DEF PollTick, Poll, IDInv, AtSelect, TypeOK, connVars, idVars, batchVars, pauseVars, imapVars, syncVars
  <2>3. PhaseInv'
    BY <1>0, <1>4 DEF PollTick, PhaseInv, connVars, idVars, batchVars, pauseVars, imapVars, syncVars
  <2> QED
    BY <1>0, <2>1, <2>2, <2>3 DEF QuietInv
<1>5. CASE PublishToOthers
  <2>1. EnvInv'
    BY <1>0, <1>5 DEF PublishToOthers, EnvInv, connVars, idVars, batchVars, pauseVars, imapVars, syncVars
  <2>2. IDInv'
    BY <1>0, <1>5 DEF PublishToOthers, IDInv, AtSelect, TypeOK, connVars, idVars, batchVars, pauseVars, imapVars, syncVars
  <2>3. PhaseInv'
    BY <1>0, <1>5 DEF PublishToOthers, PhaseInv, connVars, idVars, batchVars, pauseVars, imapVars, syncVars
  <2> QED
    BY <1>0, <2>1, <2>2, <2>3 DEF QuietInv
<1>6. CASE PublishFails
  <2>1. EnvInv'
    BY <1>0, <1>6 DEF PublishFails, EnvInv, connVars, idVars, batchVars, pauseVars, imapVars, syncVars
  <2>2. IDInv'
    BY <1>0, <1>6 DEF PublishFails, IDInv, AtSelect, TypeOK, connVars, idVars, batchVars, pauseVars, imapVars, syncVars
  <2>3. PhaseInv'
    BY <1>0, <1>6 DEF PublishFails, PhaseInv, connVars, idVars, batchVars, pauseVars, imapVars, syncVars
  <2> QED
    BY <1>0, <2>1, <2>2, <2>3 DEF QuietInv
<1>7. CASE StoreEventID
  <2>1. EnvInv'
    BY <1>0, <1>7 DEF StoreEventID, EnvInv, connVars, idVars, batchVars, pauseVars, imapVars, syncVars
  <2>2. IDInv'
    BY <1>0, <1>7 DEF StoreEventID, IDInv, AtSelect, TypeOK, connVars, idVars, batchVars, pauseVars, imapVars, syncVars
  <2>3. PhaseInv'
    BY <1>0, <1>7 DEF StoreEventID, PhaseInv, connVars, idVars, batchVars, pauseVars, imapVars, syncVars
  <2> QED
    BY <1>0, <2>1, <2>2, <2>3 DEF QuietInv
<1>8. CASE ImapStartSyncing
  <2>1. EnvInv'
    BY <1>0, <1>8 DEF ImapStartSyncing, EnvInv, connVars, idVars, batchVars, pauseVars, imapVars, syncVars
  <2>2. IDInv'
    BY <1>0, <1>8 DEF ImapStartSyncing, StartSyncing, IDInv, PhaseInv, AtSelect, TypeOK, connVars, idVars, batchVars, pauseVars, imapVars, syncVars
  <2>3. PhaseInv'
    BY <1>0, <1>8 DEF ImapStartSyncing, StartSyncing, PhaseInv, TypeOK, connVars, idVars, batchVars, pauseVars, imapVars, syncVars
  <2> QED
    BY <1>0, <2>1, <2>2, <2>3 DEF QuietInv
<1>9. CASE Subscribe
  <2>1. EnvInv'
    BY <1>0, <1>9 DEF Subscribe, EnvInv, connVars, idVars, batchVars, pauseVars, imapVars, syncVars
  <2>2. IDInv'
    BY <1>0, <1>9 DEF Subscribe, IDInv, AtSelect, TypeOK, connVars, idVars, batchVars, pauseVars, imapVars, syncVars
  <2>3. PhaseInv'
    BY <1>0, <1>9 DEF Subscribe, PhaseInv, connVars, idVars, batchVars, pauseVars, imapVars, syncVars
  <2> QED
    BY <1>0, <2>1, <2>2, <2>3 DEF QuietInv
<1>10. CASE ConsumeEvent
  <2>1. EnvInv'
    BY <1>0, <1>10 DEF ConsumeEvent, EnvInv, connVars, idVars, batchVars, pauseVars, imapVars, syncVars
  <2>4. log[next] # "refresh"
    BY <1>0, <1>10 DEF ConsumeEvent, EnvInv, TypeOK
  <2>5. /\ UNCHANGED <<syncVars, idVars, batchEnd, imap, rewind>>
        /\ next' = next + 1 /\ imap = "loop" /\ next \in 1..batchEnd
    BY <1>10, <2>4 DEF ConsumeEvent
  <2>2. IDInv'
    BY <1>0, <2>5 DEF IDInv, AtSelect, TypeOK, idVars, syncVars
  <2>3. PhaseInv'
    BY <1>0, <2>5 DEF PhaseInv, syncVars
  <2> QED
    BY <1>0, <2>1, <2>2, <2>3 DEF QuietInv
<1>11. CASE SyncFinishes
  <2>1. EnvInv'
    BY <1>0, <1>11 DEF SyncFinishes, EnvInv, connVars, idVars, batchVars, pauseVars, imapVars, syncVars
  <2>2. IDInv'
    BY <1>0, <1>11 DEF SyncFinishes, IDInv, AtSelect, TypeOK, connVars, idVars, batchVars, pauseVars, imapVars, syncVars
  <2>3. PhaseInv'
    BY <1>0, <1>11 DEF SyncFinishes, PhaseInv, connVars, idVars, batchVars, pauseVars, imapVars, syncVars
  <2> QED
    BY <1>0, <2>1, <2>2, <2>3 DEF QuietInv
<1>12. ASSUME NEW r \in Rewinders, OnSyncFinished(r) PROVE QuietInv'
  <2>1. EnvInv'
    BY <1>0, <1>12 DEF OnSyncFinished, EnvInv, connVars, idVars, batchVars, pauseVars, imapVars, syncVars
  <2>4. /\ \A q \in Rewinders \ {r} : rewind'[q] = rewind[q]
        /\ rewind'[r].pc = "load"
    BY <1>0, <1>12, OneMoves DEF QuietRewindStep
  <2>5. rewind[r].pc = "none"
    BY <1>12 DEF OnSyncFinished
  <2>6. \A q \in Rewinders \ {r} : rewind[q].pc = "none"
    BY <1>0, <1>12, <2>5 DEF OnSyncFinished, PhaseInv
  <2>2. IDInv'
    BY <1>0, <1>12, <2>4, <2>6 DEF OnSyncFinished, IDInv, AtSelect, TypeOK, connVars, idVars, batchVars, pauseVars, imapVars, syncVars
  <2>3. PhaseInv'
    BY <1>0, <1>12, <2>4, <2>5, <2>6 DEF OnSyncFinished, PhaseInv, TypeOK, connVars, idVars, batchVars, pauseVars, imapVars, syncVars
  <2> QED
    BY <1>0, <2>1, <2>2, <2>3 DEF QuietInv
<1>13. ASSUME NEW r \in Rewinders, LoadRewindTo(r) PROVE QuietInv'
  <2>1. EnvInv'
    BY <1>0, <1>13 DEF LoadRewindTo, EnvInv, connVars, idVars, batchVars, pauseVars, imapVars, syncVars
  <2>4. /\ \A q \in Rewinders \ {r} : rewind'[q] = rewind[q]
        /\ rewind'[r].pc = "rewind" /\ rewind'[r].id = startSync
    BY <1>0, <1>13, OneMoves DEF QuietRewindStep
  <2>5. rewind[r].pc # "none"
    BY <1>13 DEF LoadRewindTo
  <2>6. \A q \in Rewinders \ {r} : rewind[q].pc = "none"
    BY <1>0, <1>13, <2>5 DEF LoadRewindTo, PhaseInv
  <2>2. IDInv'
    BY <1>0, <1>13, <2>4, <2>6 DEF LoadRewindTo, IDInv, AtSelect, TypeOK, connVars, idVars, batchVars, pauseVars, imapVars, syncVars
  <2>3. PhaseInv'
    BY <1>0, <1>13, <2>4, <2>5, <2>6 DEF LoadRewindTo, PhaseInv, TypeOK, connVars, idVars, batchVars, pauseVars, imapVars, syncVars
  <2> QED
    BY <1>0, <2>1, <2>2, <2>3 DEF QuietInv
<1>14. ASSUME NEW r \in Rewinders, RewindEventID(r) PROVE QuietInv'
  <2>1. EnvInv'
    BY <1>0, <1>14 DEF RewindEventID, EnvInv, connVars, idVars, batchVars, pauseVars, imapVars, syncVars
  <2>4. /\ \A q \in Rewinders \ {r} : rewind'[q] = rewind[q]
        /\ rewind'[r].pc = "clear"
    BY <1>0, <1>14, OneMoves DEF QuietRewindStep
  <2>5. rewind[r].pc # "none"
    BY <1>14 DEF RewindEventID
  <2>6. \A q \in Rewinders \ {r} : rewind[q].pc = "none"
    BY <1>0, <1>14, <2>5 DEF RewindEventID, PhaseInv
  <2>2. IDInv'
    BY <1>0, <1>14, <2>4, <2>5, <2>6 DEF RewindEventID, IDInv, PhaseInv, AtSelect, TypeOK, connVars, idVars, batchVars, pauseVars, imapVars, syncVars
  <2>3. PhaseInv'
    BY <1>0, <1>14, <2>4, <2>5, <2>6 DEF RewindEventID, PhaseInv, TypeOK, connVars, idVars, batchVars, pauseVars, imapVars, syncVars
  <2> QED
    BY <1>0, <2>1, <2>2, <2>3 DEF QuietInv
<1>15. ASSUME NEW r \in Rewinders, ClearStartSyncEventID(r) PROVE QuietInv'
  <2>1. EnvInv'
    BY <1>0, <1>15 DEF ClearStartSyncEventID, EnvInv, connVars, idVars, batchVars, pauseVars, imapVars, syncVars
  <2>4. /\ \A q \in Rewinders \ {r} : rewind'[q] = rewind[q]
        /\ rewind'[r].pc = "done"
    BY <1>0, <1>15, OneMoves DEF QuietRewindStep
  <2>5. rewind[r].pc # "none"
    BY <1>15 DEF ClearStartSyncEventID
  <2>6. \A q \in Rewinders \ {r} : rewind[q].pc = "none"
    BY <1>0, <1>15, <2>5 DEF ClearStartSyncEventID, PhaseInv
  <2>2. IDInv'
    BY <1>0, <1>15, <2>4, <2>6 DEF ClearStartSyncEventID, IDInv, AtSelect, TypeOK, connVars, idVars, batchVars, pauseVars, imapVars, syncVars
  <2>3. PhaseInv'
    BY <1>0, <1>15, <2>4, <2>5, <2>6 DEF ClearStartSyncEventID, PhaseInv, TypeOK, connVars, idVars, batchVars, pauseVars, imapVars, syncVars
  <2> QED
    BY <1>0, <2>1, <2>2, <2>3 DEF QuietInv
<1>16. ASSUME NEW r \in Rewinders, ClearIsSyncing(r) PROVE QuietInv'
  <2>1. EnvInv'
    BY <1>0, <1>16 DEF ClearIsSyncing, EnvInv, connVars, idVars, batchVars, pauseVars, imapVars, syncVars
  <2>4. /\ \A q \in Rewinders \ {r} : rewind'[q] = rewind[q]
        /\ rewind'[r].pc = "none"
    BY <1>0, <1>16, OneMoves DEF QuietRewindStep
  <2>5. rewind[r].pc # "none"
    BY <1>16 DEF ClearIsSyncing
  <2>6. \A q \in Rewinders \ {r} : rewind[q].pc = "none"
    BY <1>0, <1>16, <2>5 DEF ClearIsSyncing, PhaseInv
  <2>2. IDInv'
    BY <1>0, <1>16, <2>4, <2>6 DEF ClearIsSyncing, IDInv, AtSelect, TypeOK, connVars, idVars, batchVars, pauseVars, imapVars, syncVars
  <2>3. PhaseInv'
    BY <1>0, <1>16, <2>4, <2>5, <2>6 DEF ClearIsSyncing, PhaseInv, TypeOK, connVars, idVars, batchVars, pauseVars, imapVars, syncVars
  <2> QED
    BY <1>0, <2>1, <2>2, <2>3 DEF QuietInv
<1>17. CASE UNCHANGED vars
  <2>1. EnvInv' /\ IDInv' /\ PhaseInv'
    BY <1>0, <1>17 DEF vars, EnvInv, IDInv, PhaseInv, AtSelect, connVars, idVars, batchVars, pauseVars, imapVars, syncVars
  <2> QED
    BY <1>0, <2>1 DEF QuietInv
<1> QED
  BY QuietNext, <1>1, <1>2, <1>3, <1>4, <1>5, <1>6, <1>7, <1>8, <1>9, <1>10, <1>11, <1>12, <1>13, <1>14, <1>15, <1>16, <1>17 DEF QuietRewindStep

(* A label event that goes to the sync handler is behind StartSyncEventID. *)
LEMMA QuietDrop ==
    ASSUME Quiet, QuietInv, [Next]_vars
    PROVE  [DropStep]_vars
<1> SUFFICES ASSUME Next, sub = "active", next \in 1..batchEnd, next' = next + 1,
                    log[next] = "label", next \notin labels'
             PROVE  \/ startSync \in 1..(next - 1)
                    \/ \E r \in Rewinders : rewind[r].pc \in {"clear", "done"}
  BY DEF DropStep
<1>0. TypeOK /\ IDInv /\ PhaseInv
  BY DEF QuietInv, TypeInv
<1>1. next \in Nat /\ batchEnd \in Nat /\ batchEnd # 0 /\ next # 0 /\ next' # next /\ next' # 0
  BY <1>0 DEF TypeOK
<1>2. ConsumeEvent
  <2>1. ~Crash /\ ~PollTick /\ ~PublishFails /\ ~StoreEventID
    BY <1>1 DEF Crash, PollTick, PublishFails, StoreEventID, AtSelect
  <2>2. ~Resume /\ ~ImapStartSyncing /\ ~Subscribe /\ ~SyncFinishes /\ ~PublishToOthers
    BY <1>1 DEF Resume, ImapStartSyncing, Subscribe, SyncFinishes, PublishToOthers, batchVars
  <2>3. \A k \in Kinds : ~ServerEvent(k)
    BY <1>1 DEF ServerEvent, batchVars
  <2>4. \A r \in Rewinders : ~QuietRewindStep(r)
    BY <1>1 DEF QuietRewindStep, OnSyncFinished, LoadRewindTo, RewindEventID, ClearStartSyncEventID, ClearIsSyncing, batchVars
  <2> QED
    BY QuietNext, <2>1, <2>2, <2>3, <2>4
<1>3. isSyncing
  BY <1>2 DEF ConsumeEvent
<1>4. next > lastEventID /\ startSync <= lastEventID
  BY <1>0, <1>1 DEF IDInv, AtSelect
<1>5. startSync # 0 \/ \E r \in Rewinders : rewind[r].pc \in {"clear", "done"}
  <2>1. CASE sync # "idle"
    BY <1>0, <2>1 DEF PhaseInv
  <2>2. CASE sync = "idle"
    <3>1. PICK r \in Rewinders : rewind[r].pc # "none"
      BY <1>0, <1>3, <2>2 DEF PhaseInv
    <3>2. rewind[r].pc \in RewindStates
      BY <1>0 DEF TypeOK, RewindStates
    <3> QED
      BY <1>0, <3>1, <3>2 DEF PhaseInv, RewindStates
  <2> QED
    BY <2>1, <2>2
<1> QED
  BY <1>0, <1>1, <1>4, <1>5 DEF TypeOK

(* As long as syncs do not overlap, and whatever batches fail and wherever *)
(* the bridge crashes: the stored event ID is never ahead of a subscriber, *)
(* the rewind has something to go back to, events go to the sync handler   *)
(* while a sync runs, and a label event that this handler drops comes      *)
(* again (userevents/service.go; imapservice/service.go, startSyncing and  *)
(* run).                                                                   *)
THEOREM NoEventIsLost ==
    ASSUME Quiet
    PROVE  Spec => EventsKept
<1>1. QuietInv => TypeOK /\ AllNotified /\ SomethingToRewindTo /\ SyncingWhileSync
  BY DEF QuietInv, TypeInv, IDInv, PhaseInv, AllNotified, SomethingToRewindTo, SyncingWhileSync
<1>2. QuietInv /\ [Next]_vars => QuietInv'
  BY QuietStep
<1>3. QuietInv /\ [Next]_vars => [DropStep]_vars
  BY QuietDrop
<1> QED
  BY InitQuiet, <1>1, <1>2, <1>3, PTL DEF Spec, EventsKept
=============================================================================
