----------------------------- MODULE Connectors -----------------------------
(***************************************************************************)
(* The mailboxes of one user: its IMAP service keeps a connector for each  *)
(* address it serves, the server manager loads them as users of the IMAP   *)
(* server, and the vault remembers which database belongs to which         *)
(* address.  An operation of the service is a series of requests to the    *)
(* manager; the manager serves others (a new cache directory, restarts,    *)
(* the state of the network) between two of them, and a crash can come     *)
(* anywhere.  Address 1, address 2... are in the order of the account when *)
(* "order" says so.                                                        *)
(***************************************************************************)
EXTENDS Naturals, Sequences, FiniteSets, FiniteSetsExt

CONSTANTS Addrs, None,
          MaxIDs, MaxCalls, MaxFaults

VARIABLES api,       \* addresses at the API: None or [on, order]
          ident,     \* the service's copy
          events,    \* address events on their way: [addr |-> None or record]
          vmode, mode,   \* address mode in the vault and in the service
          gluonIDs,  \* vault: database of an address
          db,        \* database -> "none", "empty", "full"
          server,    \* the IMAP server exists
          loaded,    \* database -> address of the connector that uses it
          conns,     \* connectors: key -> the address the connector was made for
          status,    \* sync status: [labels, messages, done]
          sync,      \* [at, done] of the sync that runs
          todo,      \* steps left of the service's operation
          watch,     \* IMAPServerCreated events the service has not seen
          net, up,   \* status events the manager has not seen; the network
          imapListener, smtpListener,   \* "open", "closed", or "failed" to open
          bad,       \* a bad event: "no", "event", "removed"
          raced,     \* what happened that voids promises
          calls, faults

vars == <<api, ident, events, vmode, mode, gluonIDs, db, server, loaded, conns,
          status, sync, todo, watch, net, up, imapListener, smtpListener, bad,
          raced, calls, faults>>

account   == <<api, ident, events>>
mailboxes == <<gluonIDs, db, loaded, status>>
listeners == <<server, net, up, imapListener, smtpListener>>

IDs == 1 .. MaxIDs
NoStatus == [labels |-> FALSE, messages |-> FALSE, done |-> {}]

Call  == calls < MaxCalls /\ calls' = calls + 1 /\ UNCHANGED faults
Fault == faults < MaxFaults /\ faults' = faults + 1 /\ UNCHANGED calls
NoFault == UNCHANGED <<calls, faults>>

Known(i) == {a \in Addrs : i[a] # None}
GetPrimaryAddr(i) == CHOOSE a \in Known(i) : \A b \in Known(i) : i[a].order <= i[b].order
Keys == {k \in Addrs : conns[k] # None}

(***************************************************************************)
(* The identity: what an address event means to the service.               *)
(***************************************************************************)

AddressAdded(i, a, r) == r # None /\ r.on /\ (i[a] = None \/ ~i[a].on)

AddressGone(i, a, r) == i[a] # None /\ i[a].on /\ (r = None \/ ~r.on)

OnAddressEvents(i, e) == [a \in Addrs |-> IF a \in DOMAIN e THEN e[a] ELSE i[a]]

(***************************************************************************)
(* The manager's requests on a record of the mailboxes' state.             *)
(***************************************************************************)
State == [gluonIDs |-> gluonIDs, db |-> db, loaded |-> loaded, status |-> status, ok |-> TRUE]

Apply(s) == /\ gluonIDs' = s.gluonIDs /\ db' = s.db
            /\ loaded' = s.loaded /\ status' = s.status

Fail(s) == [s EXCEPT !.ok = FALSE]
Used(s) == {s.gluonIDs[a] : a \in Addrs} \ {None}
FreshID(s) == CHOOSE g \in IDs : s.db[g] = "none" /\ g \notin Used(s)
IDsLeft(s) == \E g \in IDs : s.db[g] = "none" /\ g \notin Used(s)

(* A mutant that uses the only database in split mode as well.             *)
MutGetGluonID(s, a) ==
    IF s.gluonIDs[a] # None THEN s.gluonIDs[a]
    ELSE IF Cardinality(Used(s)) = 1 THEN CHOOSE g \in Used(s) : TRUE ELSE None

(* In combined mode the only database serves whatever address is primary.  *)
GetGluonID(s, a) ==
    IF s.gluonIDs[a] # None THEN s.gluonIDs[a]
    ELSE IF vmode = "combined" /\ Cardinality(Used(s)) = 1
         THEN CHOOSE g \in Used(s) : TRUE ELSE None

SetGluonID(s, a, g) == [s EXCEPT !.gluonIDs[a] = g]

RemoveGluonID(s, a, data) == IF data THEN [s EXCEPT !.gluonIDs[a] = None] ELSE s

(* RemoveUser: a user that is not loaded is an error.                      *)
RemoveUser(s, a, data) ==
    LET g == GetGluonID(s, a)
        t == SetGluonID(s, a, g)
    IN  IF ~s.ok \/ g = None THEN s
        ELSE IF s.loaded[g] = None THEN Fail(t)
        ELSE RemoveGluonID([t EXCEPT !.loaded[g] = None, !.db[g] = IF data THEN "none" ELSE @],
                           a, data)

handleRemoveIMAPUser(s, addrs, data) ==
    FoldSet(LAMBDA a, t : RemoveUser(t, a, data), s, addrs)

AddUser(s, a, c) ==
    LET g == FreshID(s)
    IN  [SetGluonID(s, a, g) EXCEPT !.db[g] = "empty", !.loaded[g] = c]

ClearSyncStatus(s) == [s EXCEPT !.status = NoStatus]

(* A database that is gone clears the sync status; one without labels is   *)
(* made again.                                                             *)
handleAddIMAPUser(s, a, c) ==
    LET g == GetGluonID(s, a)
        t == SetGluonID(s, a, g)
    IN  IF g = None THEN AddUser(ClearSyncStatus(s), a, c)
        ELSE IF t.db[g] = "none"
             THEN [ClearSyncStatus(t) EXCEPT !.db[g] = "empty", !.loaded[g] = c]
        ELSE IF ~t.status.labels
             THEN AddUser([t EXCEPT !.loaded[g] = None, !.db[g] = "none", !.gluonIDs[a] = None], a, c)
        ELSE [t EXCEPT !.loaded[g] = c]

(***************************************************************************)
(* Steps of an operation of the service.                                   *)
(***************************************************************************)
Remove(data) == [op |-> "remove", data |-> data]
Do(op) == [op |-> op]
AddAll == [op |-> "adds", left |-> Addrs, added |-> {}]

RefreshSteps == <<Remove(TRUE), Do("rebuild"), Do("clear"), AddAll, Do("sync")>>
ModeSteps    == <<Remove(TRUE), Do("clear"), Do("rebuild"), AddAll, Do("sync")>>
StartSteps   == <<Do("rebuild"), AddAll, Do("sync")>>

Step == Head(todo)
Idle == todo = <<>>
NextStep == todo' = Tail(todo)

(* The operation ends with an error, half done.                            *)
Aborts == todo' = <<>> /\ raced' = raced \cup {"abort"}

(* serveIMAP and serveSMTP: the port may be taken (a fault that comes      *)
(* before any other).                                                      *)
Serve == {"open"} \cup IF faults = 0 /\ MaxFaults > 0 THEN {"failed"} ELSE {}
Opens(l) == IF l = "open" THEN {l} ELSE Serve

(* After a request that added or removed someone, a listener that is not   *)
(* open is opened; there is none without a server.                         *)
handleLoadedUserCountChange ==
    /\ imapListener' \in IF server THEN Opens(imapListener) ELSE {imapListener}
    /\ smtpListener' \in Opens(smtpListener)

removeConnectorsFromServer ==
    LET made == {conns[k] : k \in Keys}
        s == handleRemoveIMAPUser(State, made, Step.data)
    IN  /\ ~Idle /\ Step.op = "remove"
        /\ \/ /\ server
              /\ Apply(s) /\ NoFault
              /\ IF s.ok THEN NextStep /\ UNCHANGED raced /\ handleLoadedUserCountChange
                 ELSE Aborts /\ UNCHANGED <<imapListener, smtpListener>>
           \/ /\ server /\ Fault /\ Aborts
              /\ UNCHANGED <<mailboxes, imapListener, smtpListener>>
           \/ /\ ~server /\ Aborts /\ NoFault
              /\ UNCHANGED <<mailboxes, imapListener, smtpListener>>
        /\ UNCHANGED <<account, vmode, mode, server, conns, sync, watch, net, up, bad>>

(* One primary address, or all of them, enabled or not.                    *)
buildConnectors ==
    IF mode = "combined"
    THEN [k \in Addrs |-> IF k = GetPrimaryAddr(ident) THEN k ELSE None]
    ELSE [k \in Addrs |-> IF ident[k] # None THEN k ELSE None]

rebuildConnectors ==
    /\ ~Idle /\ Step.op = "rebuild"
    /\ conns' = buildConnectors
    /\ NextStep
    /\ UNCHANGED <<account, vmode, mode, mailboxes, sync, watch, listeners, bad, raced,
                   calls, faults>>

clearSyncStatus ==
    /\ ~Idle /\ Step.op = "clear"
    /\ \/ Apply(ClearSyncStatus(State)) /\ NextStep /\ NoFault /\ UNCHANGED raced
       \/ Fault /\ Aborts /\ UNCHANGED mailboxes
    /\ UNCHANGED <<account, vmode, mode, conns, sync, watch, listeners, bad>>

(* addConnectorsToServer: after a failure the connectors tried before are  *)
(* removed, the loop goes on and nothing is reported.                      *)
addConnectorsToServer ==
    LET left == Step.left \cap Keys
        Goes(a) == todo' = <<[Step EXCEPT !.left = left \ {a}, !.added = @ \cup {conns[a]}]>>
                              \o Tail(todo)
        Undo == handleRemoveIMAPUser(State, Step.added, FALSE)
    IN  /\ ~Idle /\ Step.op = "adds"
        /\ \/ /\ left = {} /\ NextStep /\ NoFault
              /\ UNCHANGED <<mailboxes, imapListener, smtpListener>>
           \/ \E a \in left :
                /\ server /\ IDsLeft(State)
                /\ Goes(a) /\ NoFault
                /\ Apply(handleAddIMAPUser(State, conns[a], conns[a]))
                /\ handleLoadedUserCountChange
           \/ \E a \in left :
                /\ server /\ Fault
                /\ Goes(a)
                /\ Apply(Undo)
                /\ IF Undo.ok THEN handleLoadedUserCountChange
                   ELSE UNCHANGED <<imapListener, smtpListener>>
           \/ \E a \in left :
                /\ ~server /\ Goes(a) /\ NoFault
                /\ UNCHANGED <<mailboxes, imapListener, smtpListener>>
        /\ UNCHANGED <<account, vmode, mode, server, conns, sync, watch, net, up, bad, raced>>

(* The handler starts from what the status says when it starts: what was   *)
(* complete then is skipped.                                               *)
SyncStarts ==
    sync' = [at |-> IF status.messages THEN IF status.labels THEN "off" ELSE "only labels"
                    ELSE IF status.labels THEN "messages" ELSE "labels",
             done |-> status.done]

startSyncing ==
    /\ ~Idle /\ Step.op = "sync"
    /\ SyncStarts
    /\ NextStep
    /\ UNCHANGED <<account, vmode, mode, mailboxes, conns, watch, listeners, bad,
                   raced, calls, faults>>

(***************************************************************************)
(* Operations of the service.                                              *)
(***************************************************************************)
Serves == Idle /\ bad = "no"
(* The vault has a new mode before the service.                            *)
InModeChange == raced' = IF mode # vmode THEN raced \cup {"mode"} ELSE raced
cancelSync == sync' = [at |-> "off", done |-> {}]

(* setAddressMode; the vault has the mode before the service.              *)
SetAddressMode ==
    /\ Serves /\ Call /\ vmode = mode
    /\ vmode' = IF mode = "combined" THEN "split" ELSE "combined"
    /\ UNCHANGED <<account, mode, mailboxes, conns, sync, todo, watch, listeners, bad, raced>>

setAddressMode ==
    /\ Serves /\ vmode # mode
    /\ mode' = vmode
    /\ cancelSync
    /\ todo' = ModeSteps
    /\ UNCHANGED <<account, vmode, mailboxes, conns, watch, listeners, bad, raced, calls, faults>>

(* A refresh: by a repair, or by a refresh event.                          *)
HandleRefreshEvent ==
    /\ Serves /\ Call
    /\ ident' = api
    /\ cancelSync
    /\ todo' = RefreshSteps
    /\ InModeChange
    /\ UNCHANGED <<api, events, vmode, mode, mailboxes, conns, watch, listeners, bad>>

(* Combined: only a new primary address matters; the connector keeps the   *)
(* address it was made for.                                                *)
HandleAddressEventsCombined ==
    LET e == Head(events)
        i == OnAddressEvents(ident, e)
        old == GetPrimaryAddr(ident)
        new == GetPrimaryAddr(i)
    IN  /\ Serves /\ events # <<>> /\ mode = "combined" /\ Known(i) # {}
        /\ ident' = i
        /\ IF old = new
           THEN events' = Tail(events) /\ UNCHANGED <<conns, bad>>
           ELSE IF conns[old] = None
                THEN bad' = "event" /\ UNCHANGED <<conns, events>>
                ELSE /\ conns' = [conns EXCEPT ![new] = conns[old], ![old] = None]
                     /\ events' = Tail(events) /\ UNCHANGED bad
        /\ UNCHANGED <<api, vmode, mode, mailboxes, sync, todo, watch, listeners, raced,
                       calls, faults>>

(* Split: the mailbox of the address comes or goes with the event.  The    *)
(* new mailbox gets the labels at once; a sync that runs is not told.  An  *)
(* event of the account changes one address (AddressChanges), and that is  *)
(* one request to the manager: nobody comes between.                       *)
HandleAddressEventsSplit ==
    LET e == Head(events)
        i == OnAddressEvents(ident, e)
        came == {a \in DOMAIN e : AddressAdded(ident, a, e[a])}
        went == {a \in DOMAIN e : AddressGone(ident, a, e[a]) /\ conns[a] # None}
        removed == handleRemoveIMAPUser(State, went, TRUE)
        added == FoldSet(LAMBDA a, s : handleAddIMAPUser(s, a, a), removed, came)
        fails == /\ bad' = "event"
                 /\ UNCHANGED <<mailboxes, conns, events, raced, imapListener, smtpListener>>
    IN  /\ Serves /\ events # <<>> /\ mode = "split"
        /\ ident' = i
        /\ \/ /\ server /\ removed.ok /\ (came = {} \/ IDsLeft(removed))
              /\ Apply(added)
              /\ conns' = [k \in Addrs |-> IF k \in came THEN k
                                           ELSE IF k \in went THEN None ELSE conns[k]]
              /\ events' = Tail(events)
              /\ raced' = raced \cup (IF came # {} /\ sync.at # "off" THEN {"sync"} ELSE {})
                                \cup (IF came # {} /\ mode # vmode THEN {"mode"} ELSE {})
              /\ IF came \cup went # {} THEN handleLoadedUserCountChange
                 ELSE UNCHANGED <<imapListener, smtpListener>>
              /\ NoFault /\ UNCHANGED bad
           \/ server /\ Fault /\ came \cup went # {} /\ fails
           \/ server /\ ~removed.ok /\ NoFault /\ fails
           \/ /\ ~server /\ NoFault
              /\ IF came \cup went # {} THEN fails
                 ELSE /\ events' = Tail(events)
                      /\ UNCHANGED <<mailboxes, conns, bad, raced, imapListener, smtpListener>>
        /\ UNCHANGED <<api, vmode, mode, sync, todo, watch, server, net, up>>

(* A bad event: the connectors leave the server.  The user's answer brings *)
(* them back and refreshes.                                                *)
OnBadEvent ==
    /\ Idle /\ bad = "event"
    /\ bad' = "removed"
    /\ todo' = <<Remove(FALSE)>>
    /\ InModeChange
    /\ UNCHANGED <<account, vmode, mode, mailboxes, conns, sync, watch, listeners,
                   calls, faults>>

BadEventFeedbackResync ==
    /\ Idle /\ bad = "removed"
    /\ bad' = "no"
    /\ ident' = api
    /\ cancelSync
    /\ todo' = <<AddAll>> \o RefreshSteps
    /\ InModeChange
    /\ UNCHANGED <<api, events, vmode, mode, mailboxes, conns, watch, listeners, calls, faults>>

OnIMAPServerCreated ==
    /\ Idle /\ watch > 0
    /\ watch' = watch - 1
    /\ todo' = <<AddAll>>
    /\ InModeChange
    /\ UNCHANGED <<account, vmode, mode, mailboxes, conns, sync, listeners, bad,
                   calls, faults>>

(***************************************************************************)
(* The sync: labels, then the messages of each address.                    *)
(***************************************************************************)
Running(at) == Idle /\ sync.at = at

SyncLabels ==
    /\ Running("labels") \/ Running("only labels")
    /\ status' = [status EXCEPT !.labels = TRUE]
    /\ sync' = [sync EXCEPT !.at = IF @ = "labels" THEN "messages" ELSE "off"]
    /\ UNCHANGED <<account, vmode, mode, gluonIDs, db, loaded, conns, todo, watch, listeners,
                   bad, raced, calls, faults>>

(* The messages come by address in split mode, and all to one otherwise.   *)
Batches == IF mode = "split" THEN Known(api) \cup Keys ELSE Keys

(* The database a batch goes to, None if its mailbox is not served.        *)
Target(k) ==
    LET g == IF conns[k] = None THEN None ELSE GetGluonID(State, conns[k])
    IN  IF g # None /\ loaded[g] = conns[k] THEN g ELSE None

(* ApplySyncUpdates: messages of an address without connector are reported *)
(* as an update nobody applies, and the sync waits for ever; so it does if *)
(* the mailbox left the server.                                            *)
ApplySyncUpdates ==
    LET left == Batches \ sync.done
    IN  /\ Running("messages")
        /\ \/ \E k \in left :
                IF Target(k) = None
                THEN sync' = [sync EXCEPT !.at = "stuck"] /\ UNCHANGED <<db, status>>
                ELSE /\ sync' = [sync EXCEPT !.done = @ \cup {k}]
                     /\ status' = [status EXCEPT !.done = sync.done \cup {k}]
                     /\ db' = [db EXCEPT ![Target(k)] = "full"]
           \/ /\ left = {} /\ sync' = [sync EXCEPT !.at = "off"]
              /\ status' = [status EXCEPT !.messages = TRUE]
              /\ UNCHANGED db
        /\ UNCHANGED <<account, vmode, mode, gluonIDs, loaded, conns, todo, watch, listeners,
                       bad, raced, calls, faults>>

(***************************************************************************)
(* The server manager.                                                     *)
(***************************************************************************)
(* handleSetGluonDir: the server is closed with its users and made again;  *)
(* if the move fails there is no server any more.                          *)
SetGluonDir ==
    /\ Call
    /\ loaded' = [g \in IDs |-> None]
    /\ server' = TRUE /\ imapListener' \in Serve
    /\ watch' = watch + 1
    /\ UNCHANGED <<account, vmode, mode, gluonIDs, db, conns, status, sync, todo, net, up,
                   smtpListener, bad, raced>>

SetGluonDirFails ==
    /\ server /\ Fault
    /\ loaded' = [g \in IDs |-> None]
    /\ server' = FALSE /\ imapListener' = "closed"
    /\ UNCHANGED <<account, vmode, mode, gluonIDs, db, conns, status, sync, todo, watch,
                   net, up, smtpListener, bad, raced>>

RestartServers ==
    /\ Call
    /\ imapListener' \in IF server THEN Serve ELSE {"closed"}
    /\ smtpListener' \in Serve
    /\ UNCHANGED <<account, vmode, mode, mailboxes, conns, sync, todo, watch, server, net,
                   up, bad, raced>>

StatusChanges ==
    /\ Call
    /\ up' = ~up
    /\ net' = Append(net, up')
    /\ UNCHANGED <<account, vmode, mode, mailboxes, conns, sync, todo, watch, server,
                   imapListener, smtpListener, bad, raced>>

ConnStatus ==
    /\ net # <<>> /\ net' = Tail(net)
    /\ IF Head(net) THEN handleLoadedUserCountChange
       ELSE imapListener' = "closed" /\ smtpListener' = "closed"
    /\ UNCHANGED <<account, vmode, mode, mailboxes, conns, sync, todo, watch, server, up,
                   bad, raced, calls, faults>>

(* The service's share of the same event: the sync ends or starts again.   *)
ConnStatusSync ==
    /\ Idle /\ Call
    /\ IF up THEN SyncStarts ELSE cancelSync
    /\ UNCHANGED <<account, vmode, mode, mailboxes, conns, todo, watch, listeners, bad, raced>>

(***************************************************************************)
(* The account and the process.                                            *)
(***************************************************************************)
(* An address is created, changed or deleted, or the order changes.        *)
AddressChanges ==
    \E i \in [Addrs -> {None} \cup [on : BOOLEAN, order : 1 .. Cardinality(Addrs)]] :
        /\ Call /\ Len(events) = 0 /\ Known(i) # {} /\ i # api
        /\ \A a, b \in Known(i) : i[a].order = i[b].order => a = b
        /\ Cardinality({a \in Addrs : i[a] # api[a]}) = 1
              \/ \A a \in Addrs : i[a] # None /\ api[a] # None /\ i[a].on = api[a].on
        /\ api' = i
        /\ events' = <<[a \in {b \in Addrs : i[b] # api[b]} |-> i[a]]>>
        /\ UNCHANGED <<ident, vmode, mode, mailboxes, conns, sync, todo, watch, listeners,
                       bad, raced>>

(* The process ends at any step and starts again.  A mode the service had  *)
(* not applied yet meets the databases of the other one, and an address    *)
(* deleted meanwhile leaves its database, for the address that comes back. *)
Restart ==
    /\ Call
    /\ ident' = api /\ events' = <<>>
    /\ mode' = vmode
    /\ raced' = raced \cup (IF mode # vmode \/ ~Idle THEN {"mode"} ELSE {})
                     \cup (IF \E a \in Addrs : api[a] = None /\ gluonIDs[a] # None
                           THEN {"stale"} ELSE {})
    /\ loaded' = [g \in IDs |-> None]
    /\ conns' = [a \in Addrs |-> None]
    /\ sync' = [at |-> "off", done |-> {}]
    /\ todo' = StartSteps
    /\ watch' = 0 /\ net' = <<>> /\ bad' = "no"
    /\ server' = TRUE /\ imapListener' \in Serve /\ smtpListener' \in Serve
    /\ UNCHANGED <<api, vmode, gluonIDs, db, status, up>>

Init ==
    /\ api \in {[a \in Addrs |-> IF a \in on THEN [on |-> TRUE, order |-> a] ELSE None] :
                   on \in {Addrs, {1}}}
    /\ ident = api /\ events = <<>>
    /\ vmode \in {"combined", "split"} /\ mode = vmode
    /\ gluonIDs = [a \in Addrs |-> None]
    /\ db = [g \in IDs |-> "none"]
    /\ server = TRUE /\ loaded = [g \in IDs |-> None]
    /\ conns = [a \in Addrs |-> None]
    /\ status = NoStatus
    /\ sync = [at |-> "off", done |-> {}]
    /\ todo = StartSteps
    /\ watch = 0 /\ net = <<>> /\ up = TRUE
    /\ imapListener = "open" /\ smtpListener = "open"
    /\ bad = "no" /\ raced = {} /\ calls = 0 /\ faults = 0

Next ==
    \/ removeConnectorsFromServer \/ rebuildConnectors \/ clearSyncStatus
    \/ addConnectorsToServer \/ startSyncing
    \/ SetAddressMode \/ setAddressMode \/ HandleRefreshEvent
    \/ HandleAddressEventsCombined \/ HandleAddressEventsSplit
    \/ OnBadEvent \/ BadEventFeedbackResync \/ OnIMAPServerCreated
    \/ SyncLabels \/ ApplySyncUpdates
    \/ SetGluonDir \/ SetGluonDirFails \/ RestartServers \/ StatusChanges
    \/ ConnStatus \/ ConnStatusSync \/ AddressChanges \/ Restart

Spec == Init /\ [][Next]_vars

(***************************************************************************)
(* Properties.                                                             *)
(***************************************************************************)
AtRest == Idle /\ watch = 0 /\ events = <<>> /\ bad = "no" /\ server /\ mode = vmode

IsLoaded(k) == LET g == gluonIDs[conns[k]] IN g # None /\ g \in IDs /\ loaded[g] = conns[k]

(* When the service has nothing left to do, every enabled address that is  *)
(* to have a mailbox has a connector, and each connector is loaded in the  *)
(* server.  (buildConnectors, HandleAddressEvents, addConnectorsToServer,  *)
(* IMAPServerCreated; as long as no request failed.)                       *)
Served ==
    AtRest /\ faults = 0 /\ raced = {} =>
        /\ \A k \in Keys : IsLoaded(k)
        /\ IF mode = "combined" THEN GetPrimaryAddr(ident) \in Keys
           ELSE \A a \in Known(ident) : ident[a].on => a \in Keys

(* In split mode no two connectors work on one database.  (GetGluonID,     *)
(* SetGluonID; not after an operation that met a mode which the vault had  *)
(* and the service had not, or that ended half done.)                      *)
OneOwner ==
    mode = "split" /\ raced \cap {"mode", "abort"} = {} /\ faults = 0 =>
        \A k, l \in Keys : k # l /\ gluonIDs[conns[k]] # None =>
            gluonIDs[conns[k]] # gluonIDs[conns[l]]

(* A database on disk is known to the vault: none is left behind that no   *)
(* later step would delete.  (RemoveGluonID, SetGluonID.)                  *)
NoLeak == \A g \in IDs : db[g] # "none" => g \in Used(State)

(* If the sync status says that all is synced, the mailboxes in use are    *)
(* filled: a restart will not fetch what is missing.  (ClearSyncStatus in  *)
(* handleAddIMAPUserImpl, setAddressMode and HandleRefreshEvent; not when  *)
(* an address arrived while a sync ran, or came back to a database that    *)
(* was left from before a restart.)                                        *)
CompleteIsPopulated ==
    status.labels /\ status.messages /\ Idle /\ raced = {} /\ faults = 0 =>
        \A k \in Keys : IsLoaded(k) => db[gluonIDs[conns[k]]] = "full"

(* The same without exception: the manager says that it will "ensure       *)
(* previous IMAP sync state is cleared" when it makes a database, because  *)
(* "we need to resync all messages".                                       *)
Resynced ==
    status.labels /\ status.messages /\ Idle /\ "mode" \notin raced /\ faults = 0 =>
        \A k \in Keys : IsLoaded(k) => db[gluonIDs[conns[k]]] = "full"

(* When the manager has seen that the network is up, both listeners are    *)
(* open as long as there is a server, unless their port was taken when     *)
(* they were last opened.  (ConnStatusUp, handleLoadedUserCountChange,     *)
(* restarts, a new cache directory.)                                       *)
ListenersOpen ==
    net = <<>> /\ up /\ server => imapListener # "closed" /\ smtpListener # "closed"
=============================================================================
