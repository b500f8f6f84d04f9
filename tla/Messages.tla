------------------------------ MODULE Messages ------------------------------
(***************************************************************************)
(* The mirror of a user's messages.  The API server holds them (`remote`); *)
(* the IMAP service applies the API's message events to Gluon, which keeps  *)
(* a copy for every connector: one for the user in combined mode, one for  *)
(* each address in split mode.  IMAP commands go through the connector to  *)
(* the API, in a transaction of Gluon, and other clients of the account    *)
(* change the messages as well.  Events come in batches and a batch that   *)
(* fails is handled again from its start.                                  *)
(***************************************************************************)
EXTENDS Naturals, Sequences, FiniteSets

CONSTANTS Msgs,          \* message identifiers
          Addrs, Primary,
          External,      \* addresses of another provider, without sending
          UserLabels, UserFolders,
          Setups,        \* initial configurations, see Init
          MaxChanges, MaxFaults, MaxBatch,
          None, Unborn, Gone

System == {"Inbox", "Trash", "AllMail", "AllDrafts"}
Boxes == System \cup UserLabels \cup UserFolders

(* Boxes of which a message has at most one.                               *)
Places == {"Inbox", "Trash"} \cup UserFolders

(* What the API tells of a message, and what Gluon keeps of it.            *)
Metas == [labels : SUBSET Boxes, seen : BOOLEAN, rewritable : BOOLEAN, addr : Addrs,
          body : {0, 1}]
Copies == [boxes : SUBSET Boxes, seen : BOOLEAN, body : {0, 1}]

(* Updates of the connectors, and IMAP commands.                           *)
Updates == [op : {"created", "updated", "mailboxes"}, id : Msgs, copy : Copies]
           \cup [op : {"deleted"}, id : Msgs]
Commands == [op : {"seen", "add", "move", "expunge", "append"}, c : Addrs, m : Msgs,
             step : {"commit", "unlabel", "read", "delete"},
             from : Boxes \cup {None}, to : Boxes \cup {None}]

(* Labels, folders and the system's boxes differ; the message of a setup   *)
(* has a place and no label of the user.                                   *)
ASSUME MessagesAssumption ==
    /\ Primary \in Addrs /\ MaxBatch \in Nat
    /\ UserLabels \cap (System \cup UserFolders) = {} /\ System \cap UserFolders = {}
    /\ Unborn # Gone /\ Unborn \notin Metas /\ Gone \notin Metas
    /\ None \notin Copies /\ None \notin Updates /\ None \notin Commands
    /\ \A s \in Setups :
          /\ s.mode \in {"combined", "split"}
          /\ s.id \in Msgs => /\ s.meta \in Metas
                              /\ s.meta.labels \subseteq System \cup UserFolders
                              /\ s.meta.labels \cap Places # {}

VARIABLES mode,      \* addressMode: "combined" or "split"
          noUnlabel, \* the feature flag FolderUnlabelCallDisabled
          broken,
          lost,      \* addresses that were deleted, which the identity has forgotten
          badEvent,  \* a bad event is reported, and no more events are polled
          remote,    \* Unborn, Gone or [labels, seen, rewritable, addr, body]
          born,      \* user labels and folders that exist
          known,     \* those in the service's map of labels
          events,    \* events not yet handled
          batch, at, \* the handler's batch and its position in it
          pc,        \* "idle", "next", "wait", "update"
          syncing,   \* the handler of a sync is subscribed
          conns,     \* addresses with a connector
          chan,      \* the update a connector has published, or None
          nosuch,    \* Gluon did not have the message of an update
          gluon,     \* per connector: None or [boxes, seen, body]
          failed,    \* messages recorded as failed to build
          client,    \* the IMAP command in progress
          reading,   \* the command holds the lock of the labels
          expunged,  \* the messages deleted for good by a command
          uprooted,  \* messages that may be left without a place
          misplaced, \* messages imported for another address
          hidden,    \* messages removed from a box in Gluon alone
          changes, faults

server == <<remote, born, events>>
handler == <<known, batch, at, pc, syncing, conns, nosuch, failed>>
command == <<client, reading, expunged, uprooted, misplaced, hidden>>
account == <<mode, noUnlabel, broken, lost, badEvent>>
vars == <<account, server, handler, command, chan, gluon, changes, faults>>

Lives(m) == remote[m] \notin {Unborn, Gone}

AtRest ==
    /\ events = <<>> /\ pc = "idle" /\ client = None
    /\ \A c \in Addrs : chan[c] = None

(* A command is in progress in connector c.                                *)
Busy(c) == client # None /\ client.c = c

(***************************************************************************)
(* Labels and flags.                                                       *)
(***************************************************************************)
Type(b) == IF b \in System THEN "system"
           ELSE IF b \in UserLabels THEN "label" ELSE "folder"

WantLabel(b) == b # "AllDrafts"

wantLabels(labels) == {b \in labels \cap (System \cup known) : WantLabel(b)}

isAllMailOrScheduled(b) == b = "AllMail"

isMailboxOfTypeLabel(b) == b \in known /\ Type(b) = "label"

BuildFlagSetFromMessageMetadata(meta) == meta.seen

(***************************************************************************)
(* The API server, and the other clients of the account.                   *)
(***************************************************************************)
Told(act, m, meta) == Append(events, [act |-> act, id |-> m, meta |-> meta])

Labelled(meta, b) ==
    [meta EXCEPT !.labels = (IF b \in Places THEN @ \ Places ELSE @) \cup {b}]

Unlabelled(meta, b) == [meta EXCEPT !.labels = @ \ {b}]

Set(m, meta, act) ==
    /\ remote' = [remote EXCEPT ![m] = meta]
    /\ events' = Told(act, m, meta)
    /\ UNCHANGED born

(* A change of message m has overtaken the command in progress on it.      *)
Overtaken(m) == IF client # None /\ client.m = m THEN {m} ELSE {}

OtherClient ==
    /\ changes < MaxChanges /\ changes' = changes + 1
    /\ \E m \in Msgs :
          \/ /\ remote[m] = Unborn
             /\ \E a \in Addrs \ lost, r \in BOOLEAN :
                   Set(m, [labels |-> {"Inbox", "AllMail"} \cup
                                        (IF r THEN {"AllDrafts"} ELSE {}),
                           seen |-> FALSE, rewritable |-> r, addr |-> a, body |-> 0],
                       "create")
             /\ UNCHANGED uprooted
          \/ /\ Lives(m)
             /\ \E b \in (Places \cup UserLabels) \cap (System \cup born) :
                   /\ b \notin remote[m].labels
                   /\ Set(m, Labelled(remote[m], b), "flags")
             /\ uprooted' = uprooted \cup Overtaken(m)
          \/ /\ Lives(m) /\ remote[m].rewritable
             /\ Set(m, [remote[m] EXCEPT !.body = 1 - @], "update")
             /\ UNCHANGED uprooted
          \/ /\ Lives(m)
             /\ remote' = [remote EXCEPT ![m] = Gone]
             /\ events' = Told("delete", m, None)
             /\ UNCHANGED <<born, uprooted>>
          \/ \E b \in (UserLabels \cup UserFolders) \ born :
             /\ born' = born \cup {b}
             /\ events' = Told("label", b, None)
             /\ UNCHANGED <<remote, uprooted>>
    /\ UNCHANGED <<account, handler, client, reading, expunged, misplaced, hidden, chan,
                   gluon, faults>>

(***************************************************************************)
(* The handlers of message events.  Within a batch the events of labels    *)
(* are handled first, and not at all by the handler of a sync.             *)
(***************************************************************************)
LabelsIn(n) == {events[i].id : i \in {j \in 1..n : events[j].act = "label"}}

Poll ==
    /\ pc = "idle" /\ events # <<>> /\ ~badEvent
    /\ batch' \in {n \in 1..MaxBatch : n <= Len(events)}
    /\ LabelsIn(batch') # {} => ~reading
    /\ known' = IF syncing THEN known ELSE known \cup LabelsIn(batch')
    /\ at' = 1
    /\ pc' = "next"
    /\ UNCHANGED <<account, server, syncing, conns, nosuch, failed, command, chan, gluon,
                   changes, faults>>

Event == events[at]

(* A mutant that falls back to the primary address in split mode as well.  *)
MutRoute(a) == IF a \in conns THEN {a} ELSE {Primary}

(* The connectors safePublishMessageUpdate sends an update of address a to. *)
safePublishMessageUpdate(a) ==
    IF a \in conns THEN {a} ELSE IF mode = "combined" THEN {Primary} ELSE {}

(* The copy Gluon should have of message m.                                *)
Copy(m) == [boxes |-> wantLabels(remote[m].labels),
            seen |-> BuildFlagSetFromMessageMetadata(remote[m]),
            body |-> remote[m].body]

Publish(to, upd) ==
    chan' = [c \in Addrs |-> IF c \in to THEN upd ELSE chan[c]]

Upd(op, m, meta) ==
    [op |-> op, id |-> m,
     copy |-> [boxes |-> wantLabels(meta.labels),
               seen |-> BuildFlagSetFromMessageMetadata(meta), body |-> meta.body]]

Advance == pc' = "next" /\ at' = at + 1

(* The message is fetched as it is now, built with the keys of its address *)
(* and published; one that is gone is skipped, one that cannot be built is *)
(* remembered.                                                             *)
FailedAfter(m, good) == IF good THEN failed \ {m} ELSE failed \cup {m}

BuildAndPublish(op, m) ==
    LET full == remote[m]
        good == <<m, full.body>> \notin broken
    IN  \/ ~Lives(m) /\ Advance /\ UNCHANGED <<failed, chan>>
        \/ /\ Lives(m) /\ Event.meta.addr \notin lost
           /\ failed' = FailedAfter(m, good)
           /\ LET to == safePublishMessageUpdate(full.addr)
              IN  IF good /\ to # {}
                  THEN /\ Publish(to, Upd(op, m, full))
                       /\ pc' = "wait" /\ UNCHANGED at
                  ELSE Advance /\ UNCHANGED chan

onMessageCreated(m) == BuildAndPublish("created", m)

onMessageUpdateDraftOrSent(m) == BuildAndPublish("updated", m)

onMessageUpdate(m, meta) ==
    LET to == safePublishMessageUpdate(meta.addr)
    IN  /\ IF to # {}
           THEN /\ Publish(to, Upd("mailboxes", m, meta))
                /\ pc' = "update" /\ UNCHANGED at
           ELSE Advance /\ UNCHANGED chan
        /\ UNCHANGED failed

onMessageDeleted(m) ==
    /\ Publish(conns, [op |-> "deleted", id |-> m])
    /\ pc' = "wait" /\ UNCHANGED <<at, failed>>

(* An update of a draft or of a sent message replaces it.  The handler of  *)
(* a sync replaces it after a change of labels as well.                    *)
IsRewrite(e) ==
    /\ e.act \in {"update", "flags"}
    /\ e.meta.rewritable
    /\ syncing \/ e.act = "update"

HandleEvent ==
    /\ pc = "next" /\ at <= batch
    /\ \/ Event.act = "label" /\ Advance /\ UNCHANGED <<failed, chan>>
       \/ Event.act = "create" /\ onMessageCreated(Event.id)
       \/ IsRewrite(Event) /\ onMessageUpdateDraftOrSent(Event.id)
       \/ /\ Event.act \in {"update", "flags"} /\ ~IsRewrite(Event)
          /\ onMessageUpdate(Event.id, Event.meta)
       \/ Event.act = "delete" /\ onMessageDeleted(Event.id)
    /\ UNCHANGED <<account, server, known, batch, syncing, conns, nosuch, command, gluon,
                   changes, faults>>

HandleMessageEvents == ~syncing /\ HandleEvent

HandleMessageEventsInSync == syncing /\ HandleEvent

waitOnIMAPUpdates ==
    /\ pc \in {"wait", "update"}
    /\ \A c \in Addrs : chan[c] = None
    /\ IF pc = "update" /\ nosuch
       THEN onMessageCreated(Event.id)
       ELSE Advance /\ UNCHANGED <<failed, chan>>
    /\ nosuch' = FALSE
    /\ UNCHANGED <<account, server, known, batch, syncing, conns, command, gluon, changes,
                   faults>>

(* A mutant that does not move past the batch.                             *)
MutReplays ==
    /\ pc = "next" /\ at > batch
    /\ pc' = "idle" /\ batch' = 0 /\ at' = 0
    /\ UNCHANGED <<account, server, known, syncing, conns, nosuch, failed, command, chan,
                   gluon, changes, faults>>

BatchHandled ==
    /\ pc = "next" /\ at > batch
    /\ events' = SubSeq(events, batch + 1, Len(events))
    /\ pc' = "idle" /\ batch' = 0 /\ at' = 0
    /\ UNCHANGED <<account, remote, born, known, syncing, conns, nosuch, failed, command,
                   chan, gluon, changes, faults>>

(* The handler fetches the message of the event at hand.                   *)
Fetches ==
    \/ pc = "next" /\ at <= batch /\ Event.act = "create"
    \/ pc = "next" /\ at <= batch /\ IsRewrite(Event)
    \/ pc = "update" /\ nosuch

BatchFails ==
    /\ pc' = "idle" /\ batch' = 0 /\ at' = 0 /\ nosuch' = FALSE
    /\ UNCHANGED <<server, known, syncing, conns, failed, command, chan, gluon, changes>>

(* The message cannot be fetched: the batch is handled again from its      *)
(* first event at a later poll.                                            *)
FetchFails ==
    /\ Fetches /\ BatchFails
    /\ faults < MaxFaults /\ faults' = faults + 1
    /\ UNCHANGED account

(* WithAddrKR does not find the address of a message that was fetched: the *)
(* batch is a bad event, which a retry does not help, and polling stops    *)
(* until the user decides for a resync or a logout (see EventSync).        *)
WithAddrKRFails ==
    /\ Fetches /\ Lives(Event.id) /\ Event.meta.addr \in lost
    /\ BatchFails
    /\ badEvent' = TRUE
    /\ UNCHANGED <<mode, noUnlabel, broken, lost, faults>>

SyncDone ==
    /\ syncing /\ pc = "idle"
    /\ syncing' = FALSE
    /\ UNCHANGED <<account, server, known, batch, at, pc, conns, nosuch, failed, command,
                   chan, gluon, changes, faults>>

(* The connector of an address and its mailboxes go.                       *)
removeAddressSplitMode(a) ==
    /\ ~Busy(a)
    /\ conns' = conns \ {a}
    /\ gluon' = [gluon EXCEPT ![a] = [m \in Msgs |-> None]]

(* An address that is disabled loses its connector in split mode.  One     *)
(* that is deleted is forgotten by the identity in both modes.             *)
OnAddressDisabled(a) ==
    /\ mode = "split" /\ pc = "idle" /\ a \in conns \ {Primary}
    /\ removeAddressSplitMode(a)
    /\ UNCHANGED <<account, server, known, batch, at, pc, syncing, nosuch, failed, command,
                   chan, changes, faults>>

OnAddressDeleted(a) ==
    /\ pc = "idle" /\ a \in Addrs \ (lost \cup {Primary})
    /\ lost' = lost \cup {a}
    /\ IF mode = "split" THEN removeAddressSplitMode(a) ELSE UNCHANGED <<conns, gluon>>
    /\ UNCHANGED <<mode, noUnlabel, broken, badEvent, server, known, batch, at, pc, syncing,
                   nosuch, failed, command, chan, changes, faults>>

(***************************************************************************)
(* Gluon applies a connector's update, not while a command is in progress. *)
(***************************************************************************)
GluonApplies(c) ==
    LET u == chan[c]
        has == gluon[c][u.id]
    IN  /\ chan[c] # None
        /\ ~Busy(c)
        /\ chan' = [chan EXCEPT ![c] = None]
        /\ nosuch' = (nosuch \/ (u.op = "mailboxes" /\ has = None))
        /\ gluon' = [gluon EXCEPT ![c][u.id] =
              CASE u.op = "deleted" -> None
                [] u.op = "updated" \/ (u.op = "created" /\ has = None) -> u.copy
                [] u.op = "created" /\ has # None ->
                      [has EXCEPT !.boxes = @ \cup u.copy.boxes]
                [] u.op = "mailboxes" ->
                      IF has = None THEN None
                      ELSE [u.copy EXCEPT !.body = has.body]]
        /\ UNCHANGED <<account, server, known, batch, at, pc, syncing, conns, failed,
                       command, changes, faults>>

(***************************************************************************)
(* IMAP commands.  Each call of the API is a step; the last is followed by  *)
(* the commit of Gluon's transaction.                                      *)
(***************************************************************************)
Begin(op, c, m, step, from, to) ==
    /\ client = None /\ c \in conns
    /\ changes < MaxChanges /\ changes' = changes + 1
    /\ client' = [op |-> op, c |-> c, m |-> m, step |-> step, from |-> from, to |-> to]
    /\ UNCHANGED <<account, handler, chan, gluon, faults>>

Has(c, m, b) == gluon[c][m] # None /\ b \in gluon[c][m].boxes

MarkMessagesSeen(c, m) ==
    /\ Lives(m) /\ gluon[c][m] # None
    /\ Begin("seen", c, m, "commit", None, None)
    /\ Set(m, [remote[m] EXCEPT !.seen = ~gluon[c][m].seen], "flags")
    /\ UNCHANGED <<reading, expunged, uprooted, misplaced, hidden>>

AddMessagesToMailbox(c, m, to) ==
    /\ Lives(m) /\ gluon[c][m] # None
    /\ ~isAllMailOrScheduled(to)
    /\ Begin("add", c, m, "commit", None, to)
    /\ Set(m, Labelled(remote[m], to), "flags")
    /\ UNCHANGED <<reading, expunged, uprooted, misplaced, hidden>>

shouldExpungeOldLocation(from, to) ==
    isMailboxOfTypeLabel(from) \/ Type(to) \in {"folder", "system"}

UnlabelsFrom(from, to) ==
    IF noUnlabel THEN isMailboxOfTypeLabel(from) ELSE shouldExpungeOldLocation(from, to)

MoveMessages(c, m, from, to) ==
    /\ Lives(m) /\ Has(c, m, from) /\ from # to
    /\ ~isAllMailOrScheduled(from) /\ ~isAllMailOrScheduled(to)
    /\ Begin("move", c, m, IF UnlabelsFrom(from, to) THEN "unlabel" ELSE "commit",
             IF shouldExpungeOldLocation(from, to) THEN from ELSE None, to)
    /\ Set(m, Labelled(remote[m], to), "flags")
    /\ UNCHANGED <<reading, expunged, uprooted, misplaced, hidden>>

(* Removing a message from a box unlabels it, unless the flag forbids that *)
(* for folders; one removed from the trash may be deleted for good.        *)
RemoveMessagesFromMailbox(c, m, from) ==
    LET unlabels == ~noUnlabel \/ isMailboxOfTypeLabel(from)
    IN  /\ Lives(m) /\ Has(c, m, from)
        /\ ~isAllMailOrScheduled(from)
        /\ Begin("expunge", c, m, IF from = "Trash" THEN "read" ELSE "commit", from, None)
        /\ IF unlabels
           THEN /\ Set(m, Unlabelled(remote[m], from), "flags")
                /\ uprooted' = uprooted \cup {m}
                /\ UNCHANGED hidden
           ELSE /\ hidden' = hidden \cup {m}
                /\ UNCHANGED <<server, uprooted>>
        /\ UNCHANGED <<reading, expunged, misplaced>>

(* A label the service does not know is looked up among the folders and    *)
(* the system's labels.                                                    *)
Located(b) == b \in System \cup known \/ (b \in UserFolders /\ b \in born)

(* Only where no call has unlabelled the message is its box left out.      *)
Unlabelling == IF noUnlabel THEN {client.from} ELSE {}

remainingLabels(m) ==
    {b \in remote[m].labels \ (Unlabelling \cup {"AllMail"}) : Located(b) /\ WantLabel(b)}

(* What the comment on the deletion asks for: the labels that are no views. *)
OtherLabels(m) == remote[m].labels \ {client.from, "AllMail", "AllDrafts"}

MetadataRead ==
    /\ client # None /\ client.step = "read" /\ Lives(client.m)
    /\ IF remainingLabels(client.m) = {}
       THEN /\ client' = [client EXCEPT !.step = "delete"]
            /\ expunged' = expunged \cup
                  {[id |-> client.m, other |-> OtherLabels(client.m),
                    unknown |-> UserLabels \ known]}
       ELSE client' = [client EXCEPT !.step = "commit"] /\ UNCHANGED expunged
    /\ reading' = TRUE
    /\ UNCHANGED <<account, server, handler, chan, gluon, uprooted, misplaced, hidden,
                   changes, faults>>

PermaDelete ==
    /\ client # None /\ client.step = "delete" /\ Lives(client.m)
    /\ remote' = [remote EXCEPT ![client.m] = Gone]
    /\ events' = Told("delete", client.m, None)
    /\ client' = [client EXCEPT !.step = "commit"]
    /\ UNCHANGED <<account, born, handler, chan, gluon, reading, expunged, uprooted,
                   misplaced, hidden, changes, faults>>

(* The second call of a move.                                              *)
unlabelMessages ==
    /\ client # None /\ client.step = "unlabel" /\ Lives(client.m)
    /\ Set(client.m, Unlabelled(remote[client.m], client.from), "flags")
    /\ client' = [client EXCEPT !.step = "commit"]
    /\ UNCHANGED <<account, handler, chan, gluon, reading, expunged, uprooted,
                   misplaced, hidden, changes, faults>>

(* In split mode the message belongs to the connector's address, or to the *)
(* primary one if that address cannot hold it.                             *)
getImportAddress(c) == IF c \in External THEN Primary ELSE c

CreateMessage(c, m, to) ==
    /\ remote[m] = Unborn /\ ~isAllMailOrScheduled(to)
    /\ Begin("append", c, m, "commit", None, to)
    /\ Set(m, [labels |-> {"AllMail", to}, seen |-> FALSE, rewritable |-> FALSE,
               addr |-> getImportAddress(c), body |-> 0], "create")
    /\ misplaced' = misplaced \cup (IF getImportAddress(c) = c THEN {} ELSE {m})
    /\ UNCHANGED <<reading, expunged, hidden>>
    /\ uprooted' = IF to \in Places THEN uprooted ELSE uprooted \cup {m}

ClientStarts ==
    \E c \in conns, m \in Msgs :
        \/ MarkMessagesSeen(c, m)
        \/ \E to \in Places \cup UserLabels :
              /\ to \in System \cup known
              /\ \/ AddMessagesToMailbox(c, m, to)
                 \/ CreateMessage(c, m, to)
                 \/ \E from \in Boxes : MoveMessages(c, m, from, to)
        \/ \E from \in Boxes : RemoveMessagesFromMailbox(c, m, from)

ClientCommits ==
    LET m == client.m
        has == gluon[client.c][m]
    IN  /\ client # None /\ client.step = "commit"
        /\ gluon' = [gluon EXCEPT ![client.c][m] =
              CASE client.op = "seen" -> [has EXCEPT !.seen = ~@]
                [] client.op = "append" ->
                      [boxes |-> {"AllMail", client.to}, seen |-> FALSE, body |-> 0]
                [] OTHER -> [has EXCEPT !.boxes =
                                (@ \ {client.from}) \cup ({client.to} \ {None})]]
        /\ client.op = "append" => Lives(m) /\ <<m, 0>> \notin broken
        /\ client' = None /\ reading' = FALSE
        /\ UNCHANGED <<account, server, handler, chan, expunged, uprooted, misplaced,
                       hidden, changes, faults>>

(* The command fails: Gluon rolls back, the calls made stay made.          *)
ClientFails ==
    /\ client # None
    /\ \/ faults < MaxFaults /\ faults' = faults + 1
       \/ /\ ~Lives(client.m) /\ (client.step # "commit" \/ client.op = "append")
          /\ UNCHANGED faults
       \/ client.op = "append" /\ <<client.m, 0>> \in broken /\ UNCHANGED faults
    /\ client' = None /\ reading' = FALSE
    /\ UNCHANGED <<account, server, handler, chan, gluon, expunged, uprooted, misplaced,
                   hidden, changes>>

(***************************************************************************)
(* The specification.                                                      *)
(***************************************************************************)
(* A setup fixes the address mode, the feature flag, the contents that      *)
(* cannot be built, whether a sync is running, and the message that is     *)
(* there from the start, mirrored, as [id, meta].                          *)
Init ==
    \E s \in Setups :
    /\ mode = s.mode /\ noUnlabel = s.noUnlabel /\ broken = s.broken
    /\ lost = {} /\ badEvent = FALSE
    /\ syncing = s.syncing
    /\ remote = [m \in Msgs |-> IF m = s.id THEN s.meta ELSE Unborn]
    /\ born = UserFolders /\ known = UserFolders
    /\ events = <<>> /\ batch = 0 /\ at = 0 /\ pc = "idle"
    /\ conns = IF mode = "combined" THEN {Primary} ELSE Addrs
    /\ chan = [c \in Addrs |-> None] /\ nosuch = FALSE
    /\ gluon = [c \in Addrs |-> [m \in Msgs |->
                  IF m = s.id /\ c \in safePublishMessageUpdate(s.meta.addr)
                  THEN Copy(m) ELSE None]]
    /\ failed = {}
    /\ client = None /\ reading = FALSE
    /\ expunged = {} /\ uprooted = {} /\ misplaced = {} /\ hidden = {}
    /\ changes = 0 /\ faults = 0

HandlerStep ==
    \/ Poll \/ HandleMessageEvents \/ HandleMessageEventsInSync
    \/ waitOnIMAPUpdates \/ BatchHandled \/ WithAddrKRFails

ClientStep == MetadataRead \/ PermaDelete \/ unlabelMessages \/ ClientCommits

Next ==
    \/ OtherClient
    \/ HandlerStep \/ FetchFails \/ SyncDone
    \/ \E a \in Addrs : OnAddressDisabled(a) \/ OnAddressDeleted(a) \/ GluonApplies(a)
    \/ ClientStarts \/ ClientStep \/ ClientFails

Spec == Init /\ [][Next]_vars

FairSpec ==
    /\ Spec
    /\ WF_vars(HandlerStep)
    /\ \A a \in Addrs : WF_vars(GluonApplies(a))
    /\ WF_vars(ClientStep \/ (ClientFails /\ faults' = faults))

(***************************************************************************)
(* Properties.                                                             *)
(***************************************************************************)
(* When all events are handled, every connector has exactly the messages   *)
(* of its address (the primary one has all of them in combined mode), in   *)
(* their boxes, with their flags and their latest content, whatever the    *)
(* order of events, commands, replayed batches and removed addresses.  The *)
(* exceptions: a message that could not be built is recorded as failed and *)
(* may be missing or out of date; one appended for an address that cannot  *)
(* hold it stays in the mailbox it was appended to; one expunged from a    *)
(* folder while the flag FolderUnlabelCallDisabled is set is in the folder *)
(* for the API and not for Gluon.                                          *)
MirrorAtRest ==
    AtRest => \A c \in conns, m \in Msgs :
        LET mine == Lives(m) /\ c = IF mode = "combined" THEN Primary
                                    ELSE remote[m].addr
        IN  /\ mine /\ m \notin failed \cup hidden => gluon[c][m] = Copy(m)
            /\ ~Lives(m) => gluon[c][m] = None
            /\ ~mine /\ gluon[c][m] # None => m \in misplaced

(* A message recorded as failed is one whose present content cannot be     *)
(* built: AddFailedMessageID and RemFailedMessageID keep up with drafts    *)
(* that are rewritten.                                                     *)
FailedIsCurrent ==
    AtRest => \A m \in failed : Lives(m) => <<m, remote[m].body>> \in broken

(* A command deletes a message for good only if it had no other label,     *)
(* except labels created since the service last heard of labels: those are *)
(* looked up, but not as labels of type Label.                             *)
ExpungeOnlyLast == \A e \in expunged : e.other \subseteq e.unknown

(* The same without the exception: "If a message is not preset in any      *)
(* other label other than AllMail, AllDrafts and AllSent, it can be        *)
(* permanently deleted" (connector.go).                                    *)
ExpungeSparesLabelled == \A e \in expunged : e.other = {}

(* A message always has a place (a folder, the inbox or the trash), which  *)
(* only an expunge or an append to a label may take from it, or another    *)
(* client that moves the message between the two calls of a move.          *)
MoveKeepsPlace ==
    \A m \in Msgs : Lives(m) /\ remote[m].labels \cap Places = {} => m \in uprooted

(* The service reports a bad event only if an event in its queue is about  *)
(* a message of an address that was deleted.                               *)
BadOnlyForLost ==
    badEvent => \E i \in 1..Len(events) :
        events[i].act \in {"create", "update", "flags"} /\ events[i].meta.addr \in lost

(* Once the changes stop, all events are handled, unless the service has   *)
(* reported a bad event: the handler, the command and Gluon never wait for *)
(* each other for ever, and a batch that is handled again makes progress.  *)
MessagesSettle == <>[](AtRest \/ badEvent)

(* Gluon follows the messages, what could not be built is known, no        *)
(* command deletes or displaces a message that it was not to, and only a   *)
(* message of a deleted address stops the service                          *)
(* (service_message_events.go, connector.go).                              *)
MessagesMirrored ==
    MirrorAtRest /\ FailedIsCurrent /\ ExpungeOnlyLast /\ MoveKeepsPlace /\ BadOnlyForLost
=============================================================================
