------------------------------- MODULE Labels -------------------------------
(***************************************************************************)
(* The mirror of a user's folders and labels: the API server holds them,   *)
(* the IMAP service keeps them in a map shared with the connector (`cache`) *)
(* and Gluon, the IMAP server, keeps a mailbox for each (`gluon`).         *)
(* Three processes change them: the IMAP service, which applies the API's  *)
(* label events and the label pass of a sync; the IMAP client's CREATE,    *)
(* RENAME and DELETE, which call the API and then change the map; and other *)
(* clients of the account, which only the events tell of.  Gluon applies   *)
(* the service's updates in their order and refuses a name that is taken.  *)
(***************************************************************************)
EXTENDS Naturals, Sequences, FiniteSets, SequencesExt

CONSTANTS Labels,       \* label identifiers, each used at most once
          Letters,      \* what names are made of
          MaxName,      \* bound on the length of a name
          FlatSets,     \* which labels may be of type Label (no parent), the
                        \* others being folders
          MaxChanges,   \* bound on the changes made to the account
          MaxFaults,    \* bound on failed calls
          None, Unborn, Gone, Root

(* Names of a folder or label: sequences of letters.                       *)
Names == UNION {[1 .. n -> Letters] : n \in 1 .. MaxName}

VARIABLES flat,     \* the labels of type Label, chosen once
          remote,   \* the API server's labels: Unborn, Gone or [name, parent]
          events,   \* label events not yet handled, oldest first
          cache,    \* sharedLabels: None or [id, path, parent]
          gluon,    \* path of the mailbox of a label, or None
          chan,     \* the connector's update channel
          owner,    \* who holds the write lock of the shared labels
          handler,  \* [pc, stack]: the service's handler of the first event
          sync,     \* "off", "due", "wait": the label pass of a sync
          refused,  \* the publishers of which Gluon refused an update
          client,   \* the IMAP command in progress
          bad,      \* "no" or why the service reported a bad event
          raced,    \* a change was made before an earlier one was mirrored
          torn,     \* the map was left with a value no event will correct
          changes, faults

vars == <<flat, remote, events, cache, gluon, chan, owner, handler, sync, refused,
          client, bad, raced, torn, changes, faults>>

Idle == [pc |-> "idle", stack |-> <<>>]

AtRest ==
    /\ events = <<>> /\ chan = <<>> /\ client = None
    /\ handler = Idle /\ sync = "off" /\ bad = "no"

Lives(l) == remote[l] \notin {Unborn, Gone}

(***************************************************************************)
(* Paths.  A label's path is its parent's path followed by its name;       *)
(* GetMailboxName puts the prefix of its type before it.                   *)
(***************************************************************************)
PathOf(l) == IF remote[l].parent = Root
             THEN <<remote[l].name>>
             ELSE <<remote[remote[l].parent].name, remote[l].name>>

GetMailboxName(l, path) ==
    <<IF l \in flat THEN <<"Labels">> ELSE <<"Folders">> >> \o path

nameWithTempPrefix(path) ==
    [path EXCEPT ![Len(path)] = <<"tmp_">> \o path[Len(path)]]

compareLabelNames(a, b) == FlattenSeq(a) = FlattenSeq(b)

(***************************************************************************)
(* The API server.  GetLabel answers with the label as it is now.          *)
(***************************************************************************)
(* A delete event will still take the label out of the map.                *)
ToldOf(l) == \E i \in 1..Len(events) :
                 /\ events[i].act = "delete" /\ events[i].label.id = l
                 /\ i > 1 \/ handler.pc # "wait"

GetLabel(l) == [id |-> l, path |-> PathOf(l), parent |-> remote[l].parent]

Changed(l, act) == Append(events, [act |-> act, label |-> GetLabel(l)'])

NameFree(l, name, parent) ==
    \A m \in Labels \ {l} :
        ~(Lives(m) /\ remote[m].name = name /\ remote[m].parent = parent
          /\ (m \in flat <=> l \in flat))

MayCreate(l, name, parent) ==
    /\ remote[l] = Unborn
    /\ parent \in Labels => l \notin flat /\ Lives(parent)
                            /\ remote[parent].parent = Root
    /\ NameFree(l, name, parent)

MayUpdate(l, name, parent) ==
    /\ Lives(l)
    /\ remote[l] # [name |-> name, parent |-> parent]
    /\ parent \in Labels =>
          /\ l \notin flat /\ parent # l
          /\ Lives(parent) /\ remote[parent].parent = Root
          /\ \A m \in Labels : Lives(m) => remote[m].parent # l
    /\ NameFree(l, name, parent)

MayDelete(l) == Lives(l) /\ \A m \in Labels : Lives(m) => remote[m].parent # l

Places == Labels \cup {Root}

RemoteCreate(l, name, parent) ==
    /\ MayCreate(l, name, parent)
    /\ changes < MaxChanges /\ changes' = changes + 1
    /\ remote' = [remote EXCEPT ![l] = [name |-> name, parent |-> parent]]
    /\ events' = Changed(l, "create")

RemoteUpdate(l, name, parent) ==
    /\ MayUpdate(l, name, parent)
    /\ changes < MaxChanges /\ changes' = changes + 1
    /\ remote' = [remote EXCEPT ![l] = [name |-> name, parent |-> parent]]
    /\ events' = Changed(l, "update")

RemoteDelete(l) ==
    /\ MayDelete(l)
    /\ changes < MaxChanges /\ changes' = changes + 1
    /\ remote' = [remote EXCEPT ![l] = Gone]
    /\ events' = Append(events, [act |-> "delete", label |-> GetLabel(l)])

OtherClient ==
    /\ \E l \in Labels :
          \/ \E n \in Names, p \in Places :
                RemoteCreate(l, n, p) \/ RemoteUpdate(l, n, p)
          \/ RemoteDelete(l)
    /\ raced' = (raced \/ ~AtRest)
    /\ UNCHANGED <<flat, cache, gluon, chan, owner, handler, sync, refused, client, bad,
                   torn, faults>>

(***************************************************************************)
(* Updates for Gluon and the conflict resolver.  A label's name may be the *)
(* one of another mailbox in Gluon: then that mailbox's label has been     *)
(* deleted, or renamed, which is resolved first, and a cycle is cut by a   *)
(* temporary name.                                                         *)
(***************************************************************************)
Upd(op, l, name) == [op |-> op, id |-> l, name |-> name]

mailboxFetch(name) == {l \in Labels : gluon[l] = name}

ResolveConflict(l0, path0) ==
    LET Upsert(l, path) ==
            <<Upd("upsert", l, GetMailboxName(l, path))>>
        R[arg \in Labels \X SUBSET Labels] ==
            LET l == arg[1]
                path == IF arg[2] = {} THEN path0 ELSE PathOf(l)
                name == GetMailboxName(l, path)
                there == mailboxFetch(name)
                m == CHOOSE x \in there : TRUE
                rest == R[<<m, arg[2] \cup {l}>>]
            IN  IF l \in arg[2]
                THEN [ok |-> TRUE,
                      ups |-> <<Upd("upsert", l, nameWithTempPrefix(name))>>]
                ELSE IF there = {}
                THEN [ok |-> TRUE, ups |-> Upsert(l, path)]
                ELSE IF m = l
                THEN [ok |-> TRUE, ups |-> <<>>]
                ELSE IF ~Lives(m)
                THEN [ok |-> TRUE,
                      ups |-> <<Upd("delete", m, None)>> \o Upsert(l, path)]
                ELSE IF compareLabelNames(GetMailboxName(m, PathOf(m)), gluon[m])
                THEN [ok |-> FALSE, ups |-> <<>>]
                ELSE [rest EXCEPT !.ups = @ \o Upsert(l, path)]
    IN  R[<<l0, {}>>]

publishUpdate(by, ups) ==
    chan' = chan \o [i \in 1..Len(ups) |-> [by |-> by, upd |-> ups[i]]]

(* A publisher that gives up no longer waits for what it has published.    *)
Abandoned(by) ==
    [i \in 1..Len(chan) |->
        IF chan[i].by = by THEN [chan[i] EXCEPT !.by = None] ELSE chan[i]]

(***************************************************************************)
(* The handlers of label events.                                           *)
(***************************************************************************)
Event == Head(events)

MayHandle(act) ==
    /\ handler.pc = "idle" /\ sync = "off" /\ bad = "no"
    /\ events # <<>> /\ Event.act = act

onBadEvent(why) ==
    /\ bad' = why
    /\ handler' = Idle
    /\ UNCHANGED <<events, chan>>

onLabelCreated ==
    LET l == Event.label.id
        res == ResolveConflict(l, Event.label.path)
    IN  /\ MayHandle("create")
        /\ owner = None
        /\ cache' = [cache EXCEPT ![l] = Event.label]
        /\ IF res.ok
           THEN /\ publishUpdate("handler", res.ups \o
                    <<Upd("create", l, GetMailboxName(l, Event.label.path))>>)
                /\ handler' = [pc |-> "wait", stack |-> <<>>]
                /\ UNCHANGED <<events, bad>>
           ELSE onBadEvent("conflict")
        /\ UNCHANGED <<flat, remote, gluon, owner, sync, refused, client, raced, torn,
                       changes, faults>>

onLabelUpdatedStart ==
    /\ MayHandle("update")
    /\ owner = None
    /\ owner' = "handler"
    /\ handler' = [pc |-> "update", stack |-> <<Event.label.id>>]
    /\ UNCHANGED <<flat, remote, events, cache, gluon, chan, sync, refused, client, bad,
                   raced, torn, changes, faults>>

(* One round of onLabelUpdated's loop: the label on top of the stack is    *)
(* overwritten by the event's, fetched and, if it is still there, mirrored *)
(* and followed by its children.                                           *)
Overwritten(l) ==
    IF cache[l] = None THEN cache ELSE [cache EXCEPT ![l] = Event.label]

Stored(l) == [Overwritten(l) EXCEPT ![l] = GetLabel(l)]

(* A mutant that leaves the children alone.                                *)
MutNoChildren(map, l) == {}

Children(map, l) == {m \in Labels : map[m] # None /\ map[m].parent = l}

onLabelUpdated ==
    LET l == Head(handler.stack)
        res == ResolveConflict(l, PathOf(l))
    IN  /\ handler.pc = "update" /\ handler.stack # <<>>
        /\ \/ /\ ~Lives(l)
              /\ cache' = Overwritten(l)
              /\ handler' = [handler EXCEPT !.stack = Tail(@)]
              /\ UNCHANGED <<events, chan, owner, bad>>
           \/ /\ ~Lives(l)   \* an answer other than status 422
              /\ cache' = Overwritten(l)
              /\ owner' = None
              /\ onBadEvent("no such label")
           \/ /\ Lives(l) /\ res.ok
              /\ cache' = Stored(l)
              /\ publishUpdate("handler", res.ups \o
                    <<Upd("update", l, GetMailboxName(l, PathOf(l)))>>)
              /\ handler' = [handler EXCEPT
                    !.stack = Tail(@) \o SetToSeq(Children(Stored(l), l))]
              /\ UNCHANGED <<events, owner, bad>>
           \/ /\ Lives(l) /\ ~res.ok
              /\ cache' = Stored(l)
              /\ owner' = None
              /\ onBadEvent("conflict")
        /\ UNCHANGED <<flat, remote, gluon, sync, refused, client, raced, torn,
                       changes, faults>>

(* A mutant that keeps the lock.                                           *)
MutKeepsLock ==
    /\ handler.pc = "update" /\ handler.stack = <<>>
    /\ handler' = [handler EXCEPT !.pc = "wait"]
    /\ UNCHANGED <<flat, remote, events, cache, gluon, chan, owner, sync, refused,
                   client, bad, raced, torn, changes, faults>>

onLabelUpdatedEnd ==
    /\ handler.pc = "update" /\ handler.stack = <<>>
    /\ owner' = None
    /\ handler' = [handler EXCEPT !.pc = "wait"]
    /\ UNCHANGED <<flat, remote, events, cache, gluon, chan, sync, refused, client, bad,
                   raced, torn, changes, faults>>

(* A call of the API fails in a handler: the locks are released and the   *)
(* event is handled again at the next poll.                                *)
HandlerFails ==
    /\ handler.pc = "update" /\ handler.stack # <<>>
    /\ faults < MaxFaults /\ faults' = faults + 1
    /\ cache' = Overwritten(Head(handler.stack))
    /\ torn' = (torn \/ Head(handler.stack) # Event.label.id)
    /\ owner' = None
    /\ handler' = Idle
    /\ chan' = Abandoned("handler")
    /\ refused' = refused \ {"handler"}
    /\ UNCHANGED <<flat, remote, events, gluon, sync, client, bad, raced, changes>>

onLabelDeletedPublish ==
    /\ MayHandle("delete")
    /\ owner = None
    /\ publishUpdate("handler", <<Upd("delete", Event.label.id, None)>>)
    /\ handler' = [pc |-> "delete", stack |-> <<>>]
    /\ UNCHANGED <<flat, remote, events, cache, gluon, owner, sync, refused, client, bad,
                   raced, torn, changes, faults>>

(* The lock is taken and released before the map is changed.               *)
onLabelDeleted ==
    /\ handler.pc = "delete"
    /\ cache' = [cache EXCEPT ![Event.label.id] = None]
    /\ handler' = [handler EXCEPT !.pc = "wait"]
    /\ UNCHANGED <<flat, remote, events, gluon, chan, owner, sync, refused, client, bad,
                   raced, torn, changes, faults>>

Pending(by) == \E i \in 1..Len(chan) : chan[i].by = by

waitOnIMAPUpdates ==
    /\ handler.pc = "wait"
    /\ handler' = Idle
    /\ \/ "handler" \in refused /\ bad' = "refused"
          /\ UNCHANGED events
       \/ "handler" \notin refused /\ ~Pending("handler")
          /\ events' = Tail(events)
          /\ UNCHANGED bad
    /\ refused' = refused \ {"handler"}
    /\ UNCHANGED <<flat, remote, cache, gluon, chan, owner, sync, client, raced, torn, changes, faults>>

(***************************************************************************)
(* Gluon applies the updates, one at a time and not while an IMAP command's *)
(* transaction is open.                                                    *)
(***************************************************************************)
Taken(l, name) == \E m \in Labels \ {l} : gluon[m] = name

GluonApplies ==
    LET u == Head(chan).upd
        set == \/ u.op = "create" /\ gluon[u.id] = None
               \/ u.op = "update" /\ gluon[u.id] # None
               \/ u.op = "upsert"
    IN  /\ chan # <<>> /\ client = None
        /\ chan' = Tail(chan)
        /\ \/ /\ u.op = "delete"
              /\ gluon' = [gluon EXCEPT ![u.id] = None]
              /\ UNCHANGED refused
           \/ /\ set /\ ~Taken(u.id, u.name)
              /\ gluon' = [gluon EXCEPT ![u.id] = u.name]
              /\ UNCHANGED refused
           \/ /\ set /\ Taken(u.id, u.name)
              /\ refused' = refused \cup ({Head(chan).by} \ {None})
              /\ UNCHANGED gluon
           \/ /\ u.op # "delete" /\ ~set
              /\ UNCHANGED <<gluon, refused>>
        /\ UNCHANGED <<flat, remote, events, cache, owner, handler, sync, client, bad,
                       raced, torn, changes, faults>>

(***************************************************************************)
(* The label pass of a sync, after a bad event has been answered with a    *)
(* resync: the mailboxes are removed and made again from the map.          *)
(***************************************************************************)
Resync ==
    /\ bad # "no"
    /\ bad' = "no"
    /\ sync' = "due"
    /\ gluon' = [l \in Labels |-> None]
    /\ chan' = <<>>
    /\ refused' = {}
    /\ UNCHANGED <<flat, remote, events, cache, owner, handler, client, raced, torn, changes,
                   faults>>

Cached == {l \in Labels : cache[l] # None}

syncLabels ==
    /\ sync = "due" /\ owner = None
    /\ \E order \in SetToAllKPermutations(Cached) :
          LET res == [i \in 1..Len(order) |->
                        ResolveConflict(order[i], cache[order[i]].path)]
              of == [i \in 1..Len(order) |-> res[i].ups \o
                       <<Upd("create", order[i],
                             GetMailboxName(order[i], cache[order[i]].path))>>]
              good == \A i \in 1..Len(order) : res[i].ok
          IN  /\ Len(order) = Cardinality(Cached)
              /\ \/ /\ good
                    /\ publishUpdate("sync", FlattenSeq(of))
                    /\ sync' = "wait"
                 \/ /\ ~good
                    /\ UNCHANGED <<chan, sync>>
    /\ UNCHANGED <<flat, remote, events, cache, gluon, owner, handler, refused, client, bad,
                   raced, torn, changes, faults>>

SyncWait ==
    /\ sync = "wait"
    /\ \/ "sync" \in refused /\ sync' = "due"
       \/ "sync" \notin refused /\ ~Pending("sync") /\ sync' = "off"
    /\ chan' = Abandoned("sync")
    /\ refused' = refused \ {"sync"}
    /\ UNCHANGED <<flat, remote, events, cache, gluon, owner, handler, client, bad,
                   raced, torn, changes, faults>>

(***************************************************************************)
(* The IMAP client.  Gluon runs a command in a write transaction of its    *)
(* database and calls the connector in it.                                 *)
(***************************************************************************)
(* createFolder and updateFolder hold the lock from before the call of the *)
(* API to after the map is changed; createLabel and updateLabel only then. *)
LockFor(l) ==
    /\ l \notin flat => owner = None
    /\ owner' = IF l \in flat THEN owner ELSE "client"

Path(name, parent) == IF parent = Root THEN <<name>>
                      ELSE Append(cache[parent].path, name)

ClientPlace(l, parent) ==
    parent \in Labels => l \notin flat /\ cache[parent] # None

CreateMailbox(l, name, parent) ==
    /\ client = None /\ bad = "no"
    /\ raced' = (raced \/ ~AtRest)
    /\ ClientPlace(l, parent)
    /\ mailboxFetch(GetMailboxName(l, Path(name, parent))) = {}
    /\ LockFor(l)
    /\ RemoteCreate(l, name, parent)
    /\ client' = [op |-> "set", id |-> l, label |-> GetLabel(l)',
                  name |-> GetMailboxName(l, Path(name, parent))]
    /\ UNCHANGED <<flat, cache, gluon, chan, handler, sync, refused, bad, torn, faults>>

UpdateMailboxName(l, name, parent) ==
    /\ client = None /\ bad = "no"
    /\ raced' = (raced \/ ~AtRest)
    /\ gluon[l] # None
    /\ ClientPlace(l, parent)
    /\ mailboxFetch(GetMailboxName(l, Path(name, parent))) = {}
    /\ LockFor(l)
    /\ RemoteUpdate(l, name, parent)
    /\ client' = [op |-> "set", id |-> l, label |-> GetLabel(l)',
                  name |-> GetMailboxName(l, Path(name, parent))]
    /\ UNCHANGED <<flat, cache, gluon, chan, handler, sync, refused, bad, torn, faults>>

DeleteMailbox(l) ==
    /\ client = None /\ bad = "no"
    /\ raced' = (raced \/ ~AtRest)
    /\ gluon[l] # None
    /\ RemoteDelete(l)
    /\ client' = [op |-> "delete", id |-> l]
    /\ UNCHANGED <<flat, cache, gluon, chan, owner, handler, sync, refused, bad, torn, faults>>

ClientCommits ==
    /\ client # None
    /\ owner \in {None, "client"}
    /\ owner' = None
    /\ client' = None
    /\ torn' = (torn \/ (client.op = "set" /\ remote[client.id] = Gone
                             /\ ~ToldOf(client.id)))
    /\ \/ /\ client.op = "set"
          /\ cache' = [cache EXCEPT ![client.id] = client.label]
          /\ gluon' = [gluon EXCEPT ![client.id] = client.name]
       \/ /\ client.op = "delete"
          /\ cache' = [cache EXCEPT ![client.id] = None]
          /\ gluon' = [gluon EXCEPT ![client.id] = None]
    /\ UNCHANGED <<flat, remote, events, chan, handler, sync, refused, bad, raced, changes,
                   faults>>

(* The answer of the API is lost: the command fails, the API has done it.  *)
ClientFails ==
    /\ client # None
    /\ faults < MaxFaults /\ faults' = faults + 1
    /\ owner' = IF owner = "client" THEN None ELSE owner
    /\ client' = None
    /\ UNCHANGED <<flat, remote, events, cache, gluon, chan, handler, sync, refused, bad,
                   raced, torn, changes>>

ClientStarts ==
    \E l \in Labels :
        \/ \E n \in Names, p \in Places :
              CreateMailbox(l, n, p) \/ UpdateMailboxName(l, n, p)
        \/ DeleteMailbox(l)

(***************************************************************************)
(* The specification.                                                      *)
(***************************************************************************)
(* The service has started: the map has been loaded and a sync has made    *)
(* the mailboxes.                                                          *)
Init ==
    /\ flat \in FlatSets
    /\ remote \in [Labels -> {Unborn} \cup [name : Names, parent : Places]]
    /\ \A l \in Labels : Lives(l) =>
          /\ NameFree(l, remote[l].name, remote[l].parent)
          /\ remote[l].parent # Root =>
                l \notin flat /\ Lives(remote[l].parent) /\ remote[remote[l].parent].parent = Root
    /\ cache = [l \in Labels |-> IF Lives(l) THEN GetLabel(l) ELSE None]
    /\ gluon = [l \in Labels |-> IF Lives(l) THEN GetMailboxName(l, PathOf(l)) ELSE None]
    /\ events = <<>>
    /\ chan = <<>>
    /\ owner = None
    /\ handler = Idle
    /\ sync = "off"
    /\ refused = {}
    /\ client = None
    /\ bad = "no"
    /\ raced = FALSE /\ torn = FALSE /\ changes = 0 /\ faults = 0

HandlerStep ==
    \/ onLabelCreated \/ onLabelUpdatedStart \/ onLabelUpdated \/ onLabelUpdatedEnd
    \/ onLabelDeletedPublish \/ onLabelDeleted \/ waitOnIMAPUpdates
    \/ syncLabels \/ SyncWait

Next ==
    \/ OtherClient
    \/ HandlerStep \/ HandlerFails
    \/ GluonApplies
    \/ Resync
    \/ ClientStarts \/ ClientCommits \/ ClientFails

Spec == Init /\ [][Next]_vars

FairSpec == Spec /\ WF_vars(HandlerStep) /\ WF_vars(GluonApplies)
                 /\ WF_vars(ClientCommits)

(***************************************************************************)
(* Properties.                                                             *)
(***************************************************************************)
(* Once every event is handled and every update applied, Gluon has exactly *)
(* the mailboxes of the account's folders and labels under their present   *)
(* paths, whatever the order of events, commands, retries and resyncs: the *)
(* promise of HandleLabelEvents and of the conflict resolver.  Except after *)
(* the two cases in which the map of labels is left wrong (torn).          *)
MirrorAtRest ==
    AtRest /\ ~torn => \A l \in Labels :
        gluon[l] = IF Lives(l) THEN GetMailboxName(l, PathOf(l)) ELSE None

(* The same without the exception: an update event handled again after a   *)
(* failed call mirrors the label and its children ("return error to retry  *)
(* later", userevents/service.go).                                         *)
MirrorAfterRetry ==
    AtRest /\ flat = {} => \A l \in Labels :
        gluon[l] = IF Lives(l) THEN GetMailboxName(l, PathOf(l)) ELSE None

(* Then the shared map of labels, from which message events, syncs and     *)
(* commands take paths and parents, agrees with the account as well.       *)
CacheAtRest ==
    AtRest /\ ~torn =>
        \A l \in Labels : cache[l] = IF Lives(l) THEN GetLabel(l) ELSE None

(* When every change is mirrored before the next is made, the resolver     *)
(* reports no unexpected conflict and Gluon refuses no update: both need   *)
(* changes that overtake the events.                                       *)
NoConflictOneByOne == bad # "no" \/ refused # {} => raced \/ torn

(* The map has a label under its own id.  onLabelUpdated writes the event's *)
(* label under the ids of its children before it fetches them; what is left *)
(* of it belongs to a child that is deleted, of which an event will tell.  *)
CacheKeyed ==
    \A l \in Labels :
        cache[l] # None /\ cache[l].id # l => torn \/ ToldOf(l)

TwoOfAPath ==
    \E l, m \in Cached :
        l # m /\ (l \in flat <=> m \in flat) /\ cache[l].path = cache[m].path

(* The service has reported a bad event and waits for the user's answer.   *)
Reported == bad # "no"

(* A sync that cannot succeed.                                             *)
Clashing == sync # "off" /\ TwoOfAPath

(* When the changes stop the mirror comes to rest, unless the service keeps *)
(* reporting bad events (each resync replays the event that was refused) or *)
(* a sync keeps failing on two labels that the map has under one path.  So *)
(* handler, command and Gluon never wait on each other for ever.           *)
LabelsSettle ==
    \/ <>[]AtRest
    \/ []<>Reported
    \/ <>[]Clashing

(* The mirror is right at rest, the shared map of labels too, changes that *)
(* come one by one make no conflict, and the cache is keyed by what it     *)
(* holds (service_label_events.go, conflicts.go, connector.go).            *)
LabelsMirrored == MirrorAtRest /\ CacheAtRest /\ NoConflictOneByOne /\ CacheKeyed
=============================================================================
