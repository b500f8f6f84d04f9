--------------------------- MODULE Notifications ---------------------------
(* The notifications of the event loop: each is shown at most once in a day,
   also when the event loop delivers an event again after a failure or a crash
   (internal/services/notifications). A notification is identified by the hash
   of its text; time counts days, and an entry expires a day after the time of
   the notification, not of its display. *)
EXTENDS Naturals, FiniteSets

CONSTANTS Users, Texts, MaxTime, MaxEvents, MaxCrashes   \* bounds: days, events, crashes

VARIABLES
  now, displayed,      \* displayedMessages: expiry by text, 0 for none; one store for all users
  cache,               \* the file
  handling,            \* by user: the event being handled, and its place
  displays, until,        \* displays[t]: times it was displayed for the entry that holds until until[t]
  enabled,             \* EventLoopNotificationDisabled is off
  unwritten,           \* some write of the file failed or was cut off
  lost,                \* texts whose process died between the entry and the event
  events, crashes

notifyVars == <<now, displayed, cache, handling, displays, until, enabled, unwritten, lost, events, crashes>>

timeOffset == 1
NoEvent == [pc |-> "idle", text |-> CHOOSE t \in Texts : TRUE, time |-> 0]
NoEntries == [t \in Texts |-> 0]

NotifyInit ==
  /\ now = 1 /\ displayed = NoEntries /\ cache = NoEntries
  /\ handling = [u \in Users |-> NoEvent] /\ displays = NoEntries /\ until = NoEntries
  /\ enabled = TRUE /\ unwritten = FALSE /\ lost = {} /\ events = 0 /\ crashes = 0

Tick ==
  /\ now < MaxTime /\ now' = now + 1
  /\ UNCHANGED <<displayed, cache, handling, displays, until, enabled, unwritten, lost, events, crashes>>

FlagChanges ==
  /\ enabled /\ enabled' = FALSE
  /\ UNCHANGED <<now, displayed, cache, handling, displays, until, unwritten, lost, events, crashes>>

(* HandleNotificationEvents: an event of type bridge_modal whose body is text;
   others, and bodies that begin with a bitfield, are skipped. The event loop
   delivers an event again after a failure, so any text may come at any time. *)
HandleNotificationEvents(u, t, at) ==
  /\ handling[u].pc = "idle" /\ enabled /\ at <= now
  /\ events < MaxEvents /\ events' = events + 1
  /\ handling' = [handling EXCEPT ![u] = [pc |-> "store", text |-> t, time |-> at]]
  /\ UNCHANGED <<now, displayed, cache, displays, until, enabled, unwritten, lost, crashes>>

(* shouldSendAndStore, under the lock of the store: the entry and the file are
   written before the event is published, and the entry expires a day after
   the time of the event. *)
ShouldSend(t) == now > displayed[t]
Expiry(at) == at + timeOffset

(* writeCache: os.Create empties the file before the map is encoded. *)
writeCache ==
  \/ cache' = displayed' /\ UNCHANGED unwritten
  \/ cache' \in {cache, NoEntries} /\ unwritten' = TRUE

shouldSendAndStore(u) ==
  /\ handling[u].pc = "store"
  /\ LET t == handling[u].text
     IN  IF ShouldSend(t)
           THEN /\ displayed' = [displayed EXCEPT ![t] = Expiry(handling[u].time)]
                /\ writeCache
                /\ displays' = [displays EXCEPT ![t] = IF until[t] >= now THEN @ ELSE 0]
                /\ until' = [until EXCEPT ![t] = Expiry(handling[u].time)]
                /\ handling' = [handling EXCEPT ![u].pc = "publish"]
           ELSE handling' = [handling EXCEPT ![u] = NoEvent] /\ UNCHANGED <<displayed, cache, displays, until, unwritten>>
  /\ UNCHANGED <<now, enabled, lost, events, crashes>>

(* PublishEvent; displays counts the events that belong to the entry there is. *)
Published(t, at) == IF until[t] = Expiry(at) THEN 1 ELSE 0

Publish(u) ==
  /\ handling[u].pc = "publish" /\ handling' = [handling EXCEPT ![u] = NoEvent]
  /\ displays' = [displays EXCEPT ![handling[u].text] = @ + Published(handling[u].text, handling[u].time)]
  /\ UNCHANGED <<now, displayed, cache, until, enabled, unwritten, lost, events, crashes>>

(* The process dies; NewStore and readCache of the next run drop the entries
   that have expired. *)
MutReadCache == NoEntries
readCache == [t \in Texts |-> IF now > cache[t] THEN 0 ELSE cache[t]]

Crash ==
  /\ crashes < MaxCrashes /\ crashes' = crashes + 1
  /\ displayed' = readCache
  /\ lost' = lost \cup {handling[u].text : u \in {v \in Users : handling[v].pc = "publish"}}
  /\ handling' = [u \in Users |-> NoEvent]
  /\ UNCHANGED <<now, cache, displays, until, enabled, unwritten, events>>

NotifyNext ==
  \/ Tick \/ FlagChanges \/ Crash
  \/ \E u \in Users : shouldSendAndStore(u) \/ Publish(u)
  \/ \E u \in Users, t \in Texts, at \in 1..MaxTime : HandleNotificationEvents(u, t, at)
NotifySpec == NotifyInit /\ [][NotifyNext]_notifyVars

----------------------------------------------------------------------------
(* A text is displayed at most once until a day after its event, over replays
   of the event, over restarts and over all the users of the store, unless the
   file could not be written. *)
ShownOnce == ~unwritten => \A t \in Texts : until[t] >= now => displays[t] <= 1

(* While a text is marked as displayed it has been displayed, or is about to
   be, unless the process died between the two: then it is not shown again for
   a day. *)
MarkedIsShown ==
  \A t \in Texts \ lost :
    (displayed[t] >= now /\ ~unwritten) => displays[t] > 0 \/ \E u \in Users : handling[u].pc = "publish" /\ handling[u].text = t

(* A notification is shown once while it is remembered, over replays and
   restarts, and one that is marked as displayed was shown, is about to be or was
   lost in a crash (shouldSendAndStore, readCache). *)
NotifiedOnce == ShownOnce /\ MarkedIsShown
=============================================================================
