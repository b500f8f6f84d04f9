--------------------------- MODULE ServiceProofs ----------------------------
(***************************************************************************)
(* Proofs about seven parts that each keep a promise on their own: the     *)
(* notifications, the heartbeat of the observability service, the bundle   *)
(* that the updater replaces in place, the settings, the processes that    *)
(* share a lock (I), the start with vault and key chain (U) and the login  *)
(* dialog (L).  Each theorem is about the specification of one of them and *)
(* mentions no other; where two have a variable of the same name it stands *)
(* for the one the theorem is about.                                       *)
(***************************************************************************)
EXTENDS Notifications, Distinction, BundleSync, Settings, TLAPS

CONSTANTS
  Procs, Older, Spent,                               \* I
  Helpers, Accounts, OldAccounts, MaxKeys, MaxMeddling, Torn,   \* U
  MaxAttempts,                                       \* L, with MaxCalls
  None                                               \* I, U and L

VARIABLES
  lock, pid, config, raiseCh, panics, restart, killed, asked,                                            \* I
  usable, locked, item, default, pref, vault, insecure, helper, key, flags, corrupt, keys, meddling, exits, excuse,  \* U
  sessions, auth, pass, zeroed, h, told, overlap, fast, mixed,                                           \* L
  pc,               \* I and U
  count             \* U and L; L shares n with the settings, and U failed and unsaved

I == INSTANCE Instances
U == INSTANCE Startup
L == INSTANCE Login

-----------------------------------------------------------------------------
(* Notifications. *)
(* Who is about to publish a text, and for which expiry. *)
Publishes(u, t) == handling[u].pc = "publish" /\ handling[u].text = t
Announces(u, t) == Publishes(u, t) /\ Expiry(handling[u].time) = until[t]

(* The type of the state. *)
NoteType ==
  /\ now \in Nat /\ unwritten \in BOOLEAN
  /\ displayed \in [Texts -> Nat] /\ cache \in [Texts -> Nat]
  /\ displays \in [Texts -> Nat] /\ until \in [Texts -> Nat]
  /\ handling \in [Users -> [pc : {"idle", "store", "publish"}, text : Texts \cup {NoEvent.text}, time : Nat]]
  /\ \A u \in Users : handling[u].pc # "idle" => handling[u].text \in Texts

(* As long as the file could be written: memory and file have the entry that
   was made last, or have dropped it after its time; whoever still has to
   publish does so for this entry or for one whose time is over; and this
   entry was published, or will be by one user. *)
EntryOf(t) ==
  /\ displayed[t] = until[t] \/ (displayed[t] = 0 /\ until[t] < now)
  /\ cache[t] = until[t] \/ (cache[t] = 0 /\ until[t] < now)
  /\ \A u \in Users : Publishes(u, t) => Announces(u, t) \/ Expiry(handling[u].time) < now
  /\ until[t] >= now =>
       /\ displays[t] <= 1
       /\ displays[t] = 1 => \A u \in Users : ~Announces(u, t)
       /\ \A u, v \in Users : Announces(u, t) /\ Announces(v, t) => u = v
       /\ t \notin lost => displays[t] = 1 \/ \E u \in Users : Announces(u, t)
NoteInv == NoteType /\ (~unwritten => \A t \in Texts : EntryOf(t))

(* At first no entry is there and nobody publishes. *)
LEMMA NoteInit == NotifyInit => NoteInv
<1> SUFFICES ASSUME NotifyInit
             PROVE  NoteInv
  OBVIOUS
<1>0. NoEvent = [pc |-> "idle", text |-> NoEvent.text, time |-> 0]
  BY DEF NoEvent
<1>1. handling \in [Users -> [pc : {"idle", "store", "publish"}, text : Texts \cup {NoEvent.text}, time : Nat]]
      /\ \A u \in Users : handling[u].pc = "idle"
  BY <1>0 DEF NotifyInit
<1>2. NoteType
  BY <1>1 DEF NotifyInit, NoEntries, NoteType
<1>3. \A t \in Texts : EntryOf(t)
  BY <1>1 DEF NotifyInit, NoEntries, EntryOf, Publishes, Announces
<1> QED  BY <1>2, <1>3 DEF NoteInv

(* Nothing that the entries depend on changes, but for time, which passes. *)
LEMMA NoteTick ==
  ASSUME NoteInv, Tick
  PROVE  NoteInv'
<1> USE DEF Tick
<1>1. NoteType'
  BY DEF NoteInv, NoteType
<1>2. ASSUME ~unwritten, NEW t \in Texts, EntryOf(t)
      PROVE  EntryOf(t)'
  <2>1. \A u \in Users : (Publishes(u, t)' <=> Publishes(u, t)) /\ (Announces(u, t)' <=> Announces(u, t))
    BY DEF Publishes, Announces, Expiry
  <2>2. now \in Nat /\ now' = now + 1 /\ until[t] \in Nat /\ \A u \in Users : handling[u].time \in Nat
    BY DEF NoteInv, NoteType
  <2> QED  BY <1>2, <2>1, <2>2 DEF EntryOf, Expiry, timeOffset
<1> QED  BY <1>1, <1>2 DEF NoteInv

(* An event arrives: nobody publishes more or less. *)
LEMMA NoteArrives ==
  ASSUME NoteInv, NEW u \in Users, NEW t \in Texts, NEW when \in Nat, HandleNotificationEvents(u, t, when)
  PROVE  NoteInv'
<1> USE DEF HandleNotificationEvents
<1>1. NoteType'
  BY DEF NoteInv, NoteType
<1>2. \A v \in Users, s \in Texts : (Publishes(v, s)' <=> Publishes(v, s))
                                    /\ (Publishes(v, s) => handling'[v] = handling[v])
  BY DEF NoteInv, NoteType, Publishes
<1>3. ASSUME ~unwritten, NEW s \in Texts, EntryOf(s)
      PROVE  EntryOf(s)'
  <2>1. \A v \in Users : Announces(v, s)' <=> Announces(v, s)
    BY <1>2 DEF Announces, Expiry
  <2> QED  BY <1>2, <1>3, <2>1 DEF EntryOf, Expiry
<1> QED  BY <1>1, <1>3 DEF NoteInv

(* An entry that has run out is replaced, and its user will publish; an entry
   that has not is left. *)
LEMMA NoteStores ==
  ASSUME NoteInv, NEW u \in Users, shouldSendAndStore(u)
  PROVE  NoteInv'
<1> DEFINE t == handling[u].text
           e == Expiry(handling[u].time)
<1>1. t \in Texts /\ handling[u].time \in Nat /\ e \in Nat /\ now \in Nat /\ handling[u].pc = "store"
      /\ handling[u] \in [pc : {"idle", "store", "publish"}, text : Texts \cup {NoEvent.text}, time : Nat]
  BY DEF NoteInv, NoteType, shouldSendAndStore, Expiry, timeOffset
<1>2. CASE ShouldSend(t)
  <2>1. /\ displayed' = [displayed EXCEPT ![t] = e] /\ writeCache
        /\ displays' = [displays EXCEPT ![t] = IF until[t] >= now THEN @ ELSE 0]
        /\ until' = [until EXCEPT ![t] = e]
        /\ handling' = [handling EXCEPT ![u].pc = "publish"]
        /\ now' = now /\ lost' = lost /\ now > displayed[t]
    BY <1>2 DEF shouldSendAndStore, ShouldSend
  <2> HIDE DEF t, e
  <2>2. NoteType'
    <3>1. NoEntries \in [Texts -> Nat]
      BY DEF NoEntries
    <3>2. displayed' \in [Texts -> Nat] /\ until' \in [Texts -> Nat] /\ displays' \in [Texts -> Nat]
      BY <1>1, <2>1 DEF NoteInv, NoteType
    <3>3. cache' \in [Texts -> Nat] /\ unwritten' \in BOOLEAN
      BY <2>1, <3>1, <3>2 DEF NoteInv, NoteType, writeCache
    <3>4. handling' \in [Users -> [pc : {"idle", "store", "publish"}, text : Texts \cup {NoEvent.text}, time : Nat]]
          /\ \A v \in Users : handling'[v].pc # "idle" => handling'[v].text \in Texts
      BY <1>1, <2>1 DEF NoteInv, NoteType, t
    <3> QED  BY <2>1, <3>2, <3>3, <3>4 DEF NoteInv, NoteType
  <2>3. ASSUME ~unwritten', NEW s \in Texts
        PROVE  EntryOf(s)'
    <3>1. ~unwritten /\ cache' = displayed'
      BY <2>1, <2>3 DEF writeCache
    <3>2. EntryOf(s)
      BY <3>1 DEF NoteInv
    <3>3. displayed[s] \in Nat /\ until[s] \in Nat /\ displays[s] \in Nat
      BY DEF NoteInv, NoteType
    <3>4. CASE s # t
      <4>1. displayed'[s] = displayed[s] /\ until'[s] = until[s] /\ displays'[s] = displays[s]
        BY <2>1, <3>4 DEF NoteInv, NoteType
      <4>2. \A v \in Users : (Publishes(v, s)' <=> Publishes(v, s)) /\ handling'[v].time = handling[v].time
        BY <1>1, <2>1, <3>4 DEF NoteInv, NoteType, Publishes, t
      <4>3. \A v \in Users : Announces(v, s)' <=> Announces(v, s)
        BY <4>1, <4>2 DEF Announces, Expiry
      <4> QED  BY <2>1, <3>1, <3>2, <4>1, <4>2, <4>3 DEF EntryOf, Expiry
    <3>5. CASE s = t
      <4>1. until[s] < now
        BY <1>1, <2>1, <3>2, <3>3, <3>5 DEF EntryOf
      <4>2. displayed'[s] = e /\ until'[s] = e /\ displays'[s] = 0
        BY <1>1, <2>1, <3>5, <4>1, <3>3 DEF NoteInv, NoteType
      <4>3. \A v \in Users : v # u => handling'[v] = handling[v]
        BY <2>1 DEF NoteInv, NoteType
      <4>4. Announces(u, s)'
        BY <1>1, <2>1, <3>5, <4>2 DEF Announces, Publishes, Expiry, NoteInv, NoteType, t, e
      <4>5. \A v \in Users : v # u /\ Publishes(v, s)' => Expiry(handling'[v].time) < now /\ Publishes(v, s)
        <5>1. \A v \in Users : v # u /\ Publishes(v, s)' => Publishes(v, s)
          BY <4>3 DEF Publishes
        <5>2. \A v \in Users : Publishes(v, s) => Expiry(handling[v].time) < now
          BY <3>2, <4>1 DEF EntryOf, Announces
        <5> QED  BY <4>3, <5>1, <5>2 DEF Expiry
      <4>6. until'[s] >= now => \A v \in Users : v # u => ~Announces(v, s)'
        BY <1>1, <4>2, <4>5 DEF Announces, Expiry, NoteInv, NoteType, timeOffset
      <4> QED  BY <2>1, <3>1, <4>2, <4>4, <4>5, <4>6, <1>1 DEF EntryOf, Expiry
    <3> QED  BY <3>4, <3>5
  <2> QED  BY <2>2, <2>3 DEF NoteInv
<1>3. CASE ~ShouldSend(t)
  <2>1. /\ handling' = [handling EXCEPT ![u] = NoEvent] /\ NoEvent.pc = "idle"
        /\ UNCHANGED <<displayed, cache, displays, until, unwritten, now, lost>>
    BY <1>3 DEF shouldSendAndStore, NoEvent
  <2>2. NoEvent \in [pc : {"idle", "store", "publish"}, text : Texts \cup {NoEvent.text}, time : Nat]
    BY DEF NoEvent
  <2>3. NoteType'
    BY <2>1, <2>2 DEF NoteInv, NoteType
  <2>4. \A v \in Users, s \in Texts : (Publishes(v, s)' <=> Publishes(v, s))
                                      /\ (Publishes(v, s) => handling'[v] = handling[v])
    BY <1>1, <2>1 DEF NoteInv, NoteType, Publishes
  <2>5. ASSUME ~unwritten, NEW s \in Texts, EntryOf(s)
        PROVE  EntryOf(s)'
    <3>1. \A v \in Users : Announces(v, s)' <=> Announces(v, s)
      BY <2>1, <2>4 DEF Announces, Expiry
    <3> QED  BY <2>1, <2>4, <2>5, <3>1 DEF EntryOf, Expiry
  <2> QED  BY <2>1, <2>3, <2>5 DEF NoteInv
<1> QED  BY <1>2, <1>3

(* A user publishes, and so for the entry there is or for none. *)
LEMMA NotePublishes ==
  ASSUME NoteInv, NEW u \in Users, Publish(u)
  PROVE  NoteInv'
<1> DEFINE t == handling[u].text
<1>1. /\ handling[u].pc = "publish" /\ t \in Texts /\ handling' = [handling EXCEPT ![u] = NoEvent] /\ NoEvent.pc = "idle"
      /\ displays' = [displays EXCEPT ![t] = @ + Published(t, handling[u].time)]
      /\ UNCHANGED <<displayed, cache, until, unwritten, now, lost>>
  BY DEF Publish, NoEvent, NoteInv, NoteType
<1>2. NoEvent \in [pc : {"idle", "store", "publish"}, text : Texts \cup {NoEvent.text}, time : Nat]
  BY DEF NoEvent
<1>3. Publishes(u, t) /\ Published(t, handling[u].time) = IF Announces(u, t) THEN 1 ELSE 0
  BY <1>1 DEF Publishes, Announces, Published
<1> HIDE DEF t
<1>4. NoteType'
  <2>1. displays' \in [Texts -> Nat]
    BY <1>1, <1>3 DEF NoteInv, NoteType
  <2> QED  BY <1>1, <1>2, <2>1 DEF NoteInv, NoteType
<1>5. /\ \A v \in Users : v # u => handling'[v] = handling[v]
      /\ handling'[u].pc = "idle"
  BY <1>1 DEF NoteInv, NoteType
<1>6. ASSUME ~unwritten, NEW s \in Texts, EntryOf(s)
      PROVE  EntryOf(s)'
  <2>1. \A v \in Users : /\ Publishes(v, s)' <=> Publishes(v, s) /\ v # u
                         /\ Announces(v, s)' <=> Announces(v, s) /\ v # u
    BY <1>1, <1>5 DEF Publishes, Announces, Expiry
  <2>2. displays[s] \in Nat /\ now \in Nat /\ until[s] \in Nat
    BY DEF NoteInv, NoteType
  <2>3. s # t => ~Announces(u, s) /\ displays'[s] = displays[s]
    BY <1>1 DEF Announces, Publishes, t, NoteInv, NoteType
  <2>4. s = t => displays'[s] = displays[s] + IF Announces(u, s) THEN 1 ELSE 0
    BY <1>1, <1>3 DEF NoteInv, NoteType
  <2>5. \A v \in Users : Publishes(v, s)' => Announces(v, s)' \/ Expiry(handling'[v].time) < now
    BY <1>5, <1>6, <2>1 DEF EntryOf, Expiry
  <2>6. ASSUME until[s] >= now
        PROVE  /\ displays'[s] <= 1
               /\ displays'[s] = 1 => \A v \in Users : ~Announces(v, s)'
               /\ \A v, w \in Users : Announces(v, s)' /\ Announces(w, s)' => v = w
               /\ s \notin lost => displays'[s] = 1 \/ \E v \in Users : Announces(v, s)'
    <3>1. CASE Announces(u, s)
      <4>1. displays[s] = 0 /\ displays'[s] = 1
        BY <1>6, <2>2, <2>3, <2>4, <2>6, <3>1 DEF EntryOf
      <4> QED  BY <1>6, <2>1, <2>6, <3>1, <4>1 DEF EntryOf
    <3>2. CASE ~Announces(u, s)
      <4>1. displays'[s] = displays[s]
        BY <2>2, <2>3, <2>4, <3>2
      <4> QED  BY <1>6, <2>1, <2>6, <3>2, <4>1 DEF EntryOf
    <3> QED  BY <3>1, <3>2
  <2> QED  BY <1>1, <1>6, <2>5, <2>6 DEF EntryOf
<1> QED  BY <1>1, <1>4, <1>6 DEF NoteInv

(* After a crash the file is read, and nobody publishes. *)
LEMMA NoteCrashes ==
  ASSUME NoteInv, Crash
  PROVE  NoteInv'
<1>1. /\ displayed' = readCache /\ handling' = [u \in Users |-> NoEvent] /\ NoEvent.pc = "idle"
      /\ lost' = lost \cup {handling[u].text : u \in {v \in Users : handling[v].pc = "publish"}}
      /\ UNCHANGED <<now, cache, displays, until, unwritten>>
  BY DEF Crash, NoEvent
<1>2. NoEvent \in [pc : {"idle", "store", "publish"}, text : Texts \cup {NoEvent.text}, time : Nat]
  BY DEF NoEvent
<1>3. NoteType'
  <2>1. displayed' \in [Texts -> Nat]
    BY <1>1 DEF readCache, NoteInv, NoteType
  <2> QED  BY <1>1, <1>2, <2>1 DEF NoteInv, NoteType
<1>4. ASSUME ~unwritten, NEW t \in Texts, EntryOf(t)
      PROVE  EntryOf(t)'
  <2>1. \A u \in Users : ~Publishes(u, t)' /\ ~Announces(u, t)'
    BY <1>1 DEF Publishes, Announces
  <2>2. displayed'[t] = IF now > cache[t] THEN 0 ELSE cache[t]
    BY <1>1 DEF readCache
  <2>3. t \notin lost' => t \notin lost /\ \A u \in Users : ~Publishes(u, t)
    BY <1>1 DEF Publishes
  <2>4. cache[t] \in Nat /\ until[t] \in Nat /\ now \in Nat
    BY DEF NoteInv, NoteType
  <2>5. displayed'[t] = until[t] \/ (displayed'[t] = 0 /\ until[t] < now)
    BY <1>4, <2>2, <2>4 DEF EntryOf
  <2>6. t \notin lost' /\ until[t] >= now => displays[t] = 1
    BY <1>4, <2>3 DEF EntryOf, Announces
  <2> QED  BY <1>1, <1>4, <2>1, <2>5, <2>6 DEF EntryOf
<1> QED  BY <1>1, <1>3, <1>4 DEF NoteInv

(* A step of no variable. *)
LEMMA NoteStutters ==
  ASSUME NoteInv, UNCHANGED <<now, displayed, cache, handling, displays, until, unwritten, lost>>
  PROVE  NoteInv'
<1>1. NoteType'
  BY DEF NoteInv, NoteType
<1>2. \A t \in Texts : EntryOf(t) => EntryOf(t)'
  BY DEF EntryOf, Publishes, Announces, Expiry
<1> QED  BY <1>1, <1>2 DEF NoteInv

(* Over restarts, replays and any number of users a notification is shown
   once while it is remembered, and what is marked as displayed was shown, is
   about to be, or was lost in a crash (shouldSendAndStore, readCache). *)
THEOREM NotifiedOnlyOnce == NotifySpec => []NotifiedOnce
<1>1. NotifyInit => NoteInv
  BY NoteInit
<1>2. NoteInv /\ [NotifyNext]_notifyVars => NoteInv'
  <2> SUFFICES ASSUME NoteInv, [NotifyNext]_notifyVars
               PROVE  NoteInv'
    OBVIOUS
  <2>1. CASE Tick
    BY <2>1, NoteTick
  <2>2. CASE FlagChanges
    BY <2>2, NoteStutters DEF FlagChanges
  <2>3. CASE Crash
    BY <2>3, NoteCrashes
  <2>4. ASSUME NEW u \in Users, shouldSendAndStore(u) \/ Publish(u)
        PROVE  NoteInv'
    BY <2>4, NoteStores, NotePublishes
  <2>5. ASSUME NEW u \in Users, NEW t \in Texts, NEW when \in 1..MaxTime, HandleNotificationEvents(u, t, when)
        PROVE  NoteInv'
    <3>1. when \in Nat
      OBVIOUS
    <3> QED  BY <2>5, <3>1, NoteArrives
  <2>6. CASE UNCHANGED notifyVars
    BY <2>6, NoteStutters DEF notifyVars
  <2> QED  BY <2>1, <2>2, <2>3, <2>4, <2>5, <2>6 DEF NotifyNext
<1>3. NoteInv => NotifiedOnce
  <2> SUFFICES ASSUME NoteInv
               PROVE  ShownOnce /\ MarkedIsShown
    BY DEF NotifiedOnce
  <2>1. ASSUME ~unwritten, NEW t \in Texts
        PROVE  EntryOf(t) /\ displays[t] \in Nat /\ until[t] \in Nat /\ now \in Nat /\ displayed[t] \in Nat
    BY <2>1 DEF NoteInv, NoteType
  <2>2. ShownOnce
    BY <2>1 DEF ShownOnce, EntryOf
  <2>3. ASSUME NEW t \in Texts \ lost, displayed[t] >= now, ~unwritten
        PROVE  displays[t] > 0 \/ \E u \in Users : handling[u].pc = "publish" /\ handling[u].text = t
    <3>1. until[t] >= now
      BY <2>1, <2>3 DEF EntryOf, NoteInv, NoteType
    <3>2. displays[t] = 1 \/ \E u \in Users : Announces(u, t)
      BY <2>1, <2>3, <3>1 DEF EntryOf
    <3> QED  BY <3>2 DEF Announces, Publishes
  <2>4. MarkedIsShown
    BY <2>3 DEF MarkedIsShown
  <2> QED  BY <2>2, <2>4
<1> QED  BY <1>1, <1>2, <1>3, PTL DEF NotifySpec

-----------------------------------------------------------------------------
(* The heartbeat. *)
(* What the map and the store say of one kind: a call that found it old has
   stored nothing yet, so a goroutine tells once; an entry that is old has no
   metric behind it; and as long as no two calls found it old, one goroutine has
   the metric or is about to add it. *)
KindInv(k) ==
  /\ k \notin twice
  /\ \A c \in Reporters : oldFor[c] = k => <<k, c>> \notin store /\ (c \in stamped => k \in recent)
  /\ k \notin recent => k \notin owed /\ \A c \in Reporters : <<k, c>> \notin store
  /\ k \in recent => (k \in owed \/ \E c \in Reporters : <<k, c>> \in store \/ oldFor[c] = k)
  /\ k \notin raced =>
       /\ \A c, d \in Reporters : (oldFor[c] = k \/ <<k, c>> \in store) /\ (oldFor[d] = k \/ <<k, d>> \in store) => c = d
       /\ k \in owed => \A c \in Reporters : <<k, c>> \notin store /\ oldFor[c] # k

BeatTypes ==
  /\ recent \subseteq Kinds /\ seen \subseteq Errors /\ store \subseteq Kinds \X Reporters
  /\ oldFor \in [Reporters -> Kinds \cup {"none"}] /\ stamped \subseteq Reporters
  /\ \A c \in stamped : oldFor[c] # "none"
  /\ plan \in Nat /\ plans \subseteq Nat

BeatInv == BeatTypes /\ (\A k \in Kinds : KindInv(k)) /\ BeatIsSeen /\ BestPlan

(* No kind is the mark of a caller without a call. *)
LEMMA KindNotNone == "none" \notin Kinds
  BY DEF Kinds, Errors

(* At first nothing was seen, sent or dropped, and again after a fatal error. *)
LEMMA BeatInit == HeartbeatInit => BeatInv
<1> SUFFICES ASSUME HeartbeatInit PROVE BeatInv
  OBVIOUS
<1>1. BeatTypes /\ BeatIsSeen /\ BestPlan
  BY DEF HeartbeatInit, BeatTypes, BeatIsSeen, BestPlan
<1>2. ASSUME NEW k \in Kinds PROVE KindInv(k)
  BY KindNotNone DEF HeartbeatInit, KindInv
<1> QED  BY <1>1, <1>2 DEF BeatInv

(* A call that finds its kind old finds no metric of it in the store, and either
   nobody else has found it old or the kind is noted as raced. *)
LEMMA BeatChecks ==
  ASSUME BeatInv, NEW c \in Reporters, NEW k \in Kinds, Checks(c, k)
  PROVE  /\ oldFor' \in [Reporters -> Kinds \cup {"none"}] /\ \A d \in stamped' : oldFor'[d] # "none"
         /\ \A j \in Kinds : KindInv(j)'
<1>1. oldFor' \in [Reporters -> Kinds \cup {"none"}] /\ \A d \in stamped' : oldFor'[d] # "none"
  BY KindNotNone DEF BeatInv, BeatTypes, Checks
<1>2. ASSUME NEW j \in Kinds PROVE KindInv(j)'
  <2>0. KindInv(j) /\ c \notin stamped /\ oldFor \in [Reporters -> Kinds \cup {"none"}]
    BY DEF BeatInv, BeatTypes, Checks
  <2>1. CASE k \in recent \/ j # k
    <3>1. \A d \in Reporters : oldFor'[d] = j <=> oldFor[d] = j
      BY <2>0, <2>1, KindNotNone DEF Checks, MayTell
    <3>2. j \in raced' <=> j \in raced
      BY <2>1 DEF Checks, MayTell
    <3> QED  BY <2>0, <3>1, <3>2 DEF Checks, KindInv
  <2>2. CASE k \notin recent /\ j = k
    <3>1. oldFor' = [oldFor EXCEPT ![c] = k]
      BY <2>2 DEF Checks, MayTell
    <3>2. \A d \in Reporters : oldFor[d] = k => k \in raced'
      BY <2>2 DEF Checks, MayTell
    <3>3. raced \subseteq raced'
      BY DEF Checks
    <3>4. UNCHANGED <<store, twice, owed, recent, stamped>>
      BY DEF Checks
    <3> QED  BY <2>0, <2>2, <3>1, <3>2, <3>3, <3>4 DEF KindInv
  <2> QED  BY <2>1, <2>2
<1> QED  BY <1>1, <1>2

(* The write to the map makes the kind recent for every caller. *)
LEMMA BeatMarks ==
  ASSUME BeatInv, NEW c \in Reporters, checkAndUpdateLastSentMap(c)
  PROVE  BeatInv'
<1>1. oldFor[c] \in Kinds
  BY DEF BeatInv, BeatTypes, checkAndUpdateLastSentMap
<1>2. BeatTypes'
  BY <1>1 DEF BeatInv, BeatTypes, checkAndUpdateLastSentMap
<1>3. ASSUME NEW j \in Kinds PROVE KindInv(j)'
  BY <1>1 DEF BeatInv, checkAndUpdateLastSentMap, KindInv
<1> QED  BY <1>2, <1>3 DEF BeatInv, checkAndUpdateLastSentMap, BeatIsSeen, BestPlan

(* The metric is stored or dropped: the goroutine had none of the kind before. *)
LEMMA BeatAdds ==
  ASSUME BeatInv, NEW c \in Reporters, addMetricsIfClients(c)
  PROVE  BeatInv'
<1>1. oldFor[c] \in Kinds /\ c \in stamped
  BY DEF BeatInv, BeatTypes, addMetricsIfClients
<1>2. BeatTypes'
  BY <1>1 DEF BeatInv, BeatTypes, addMetricsIfClients
<1>3. ASSUME NEW j \in Kinds PROVE KindInv(j)'
  <2>0. KindInv(j) /\ store \subseteq Kinds \X Reporters /\ oldFor \in [Reporters -> Kinds \cup {"none"}]
    BY DEF BeatInv, BeatTypes
  <2>1. /\ \A d \in Reporters : oldFor'[d] = IF d = c THEN "none" ELSE oldFor[d]
        /\ recent' = recent /\ raced' = raced /\ stamped' = stamped \ {c}
    BY <2>0 DEF addMetricsIfClients
  <2>2. CASE j # oldFor[c]
    <3>1. \A d \in Reporters : (oldFor'[d] = j <=> oldFor[d] = j) /\ (<<j, d>> \in store' <=> <<j, d>> \in store)
      BY <2>0, <2>1, <2>2, KindNotNone DEF addMetricsIfClients
    <3>2. (j \in owed' <=> j \in owed) /\ (j \in twice' <=> j \in twice)
      BY <2>2 DEF addMetricsIfClients
    <3> QED  BY <2>0, <2>1, <3>1, <3>2 DEF KindInv
  <2>3. CASE j = oldFor[c] /\ clients
    <3>1. store' = store \cup {<<j, c>>} /\ owed' = owed
      BY <2>3 DEF addMetricsIfClients
    <3>2. <<j, c>> \notin store /\ j \in recent /\ twice' = twice
      BY <1>1, <2>0, <2>3 DEF addMetricsIfClients, KindInv
    <3> QED  BY <2>0, <2>1, <2>3, <3>1, <3>2, KindNotNone DEF KindInv
  <2>4. CASE j = oldFor[c] /\ ~clients
    <3>1. store' = store /\ twice' = twice /\ owed' = owed \cup {j} /\ <<j, c>> \notin store /\ j \in recent
      BY <1>1, <2>0, <2>4 DEF addMetricsIfClients, KindInv
    <3> QED  BY <2>0, <2>1, <2>4, <3>1, KindNotNone DEF KindInv
  <2> QED  BY <2>2, <2>3, <2>4
<1> QED  BY <1>2, <1>3 DEF BeatInv, addMetricsIfClients, BeatIsSeen, BestPlan

(* A new interval forgets the kind. *)
LEMMA BeatPasses ==
  ASSUME BeatInv, NEW k \in Kinds, Passes(k)
  PROVE  BeatInv'
<1>1. BeatTypes'
  BY DEF BeatInv, BeatTypes, Passes
<1>2. ASSUME NEW j \in Kinds PROVE KindInv(j)'
  <2>1. CASE j # k
    BY <2>1 DEF BeatInv, BeatTypes, Passes, KindInv
  <2>2. CASE j = k
    BY <2>2 DEF BeatInv, BeatTypes, Passes, KindInv
  <2> QED  BY <2>1, <2>2
<1> QED  BY <1>1, <1>2 DEF BeatInv, Passes, BeatIsSeen, BestPlan

(* Every kind of errors has its flag, but for those of SMTP. *)
LEMMA BeatFlag == \A k \in Errors : Flag(k) = {j \in {k} : j # "smtp"}
  BY DEF Errors, Flag

(* Every step keeps the invariant. *)
LEMMA BeatStep == BeatInv /\ [HeartbeatNext]_heartbeatVars => BeatInv'
<1> SUFFICES ASSUME BeatInv, [HeartbeatNext]_heartbeatVars PROVE BeatInv'
  OBVIOUS
<1>1. ASSUME NEW c \in Reporters, NEW k \in Errors, AddDistinctMetrics(c, k) PROVE BeatInv'
  <2>1. Checks(c, k) /\ k \in Kinds
    BY <1>1 DEF AddDistinctMetrics, Kinds
  <2>2. beatData' = {j \in seen' : j # "smtp"}
    BY <1>1, BeatFlag DEF AddDistinctMetrics, BeatInv, BeatIsSeen
  <2>3. BeatTypes'
    BY <1>1, <2>1, BeatChecks DEF AddDistinctMetrics, Checks, BeatInv, BeatTypes
  <2> QED
    BY <2>1, <2>2, <2>3, BeatChecks DEF Checks, BeatInv, BeatIsSeen, BestPlan
<1>2. ASSUME NEW k \in Kinds, Passes(k) PROVE BeatInv'
  BY <1>2, BeatPasses
<1>3. ASSUME NEW c \in Reporters, AddTimeLimitedMetric(c) PROVE BeatInv'
  <2>1. Checks(c, "connections") /\ "connections" \in Kinds
    BY <1>3 DEF AddTimeLimitedMetric, Kinds
  <2>2. BeatTypes'
    BY <1>3, <2>1, BeatChecks DEF AddTimeLimitedMetric, Checks, BeatInv, BeatTypes
  <2> QED
    BY <1>3, <2>1, <2>2, BeatChecks DEF AddTimeLimitedMetric, Checks, BeatInv, BeatIsSeen, BestPlan
<1>4. ASSUME sendHeartbeat PROVE BeatInv'
  BY <1>4 DEF sendHeartbeat, lastSent, resetHeartbeatData, BeatInv, BeatTypes, KindInv, BeatIsSeen, BestPlan
<1>5. ASSUME DeregisterUserClient PROVE BeatInv'
  BY <1>5 DEF DeregisterUserClient, lastSent, BeatInv, BeatTypes, KindInv, BeatIsSeen, BestPlan
<1>6. ASSUME NEW r \in 0..2, setUserPlan(r) PROVE BeatInv'
  <2>1. plan' \in Nat /\ plans' \subseteq Nat /\ \A q \in plans' : plan' >= q
    BY <1>6 DEF setUserPlan, Higher, BeatInv, BeatTypes, BestPlan
  <2> QED
    BY <1>6, <2>1 DEF setUserPlan, lastSent, BeatInv, BeatTypes, KindInv, BeatIsSeen, BestPlan
<1>7. ASSUME UNCHANGED heartbeatVars PROVE BeatInv'
  BY <1>7 DEF heartbeatVars, BeatInv, BeatTypes, KindInv, BeatIsSeen, BestPlan
<1>8. ASSUME NEW c \in Reporters, checkAndUpdateLastSentMap(c) \/ addMetricsIfClients(c) PROVE BeatInv'
  BY <1>8, BeatMarks, BeatAdds
<1>9. ASSUME ConcurrentMapAccess PROVE BeatInv'
  <2>1. BeatTypes' /\ BeatIsSeen' /\ BestPlan'
    BY <1>9 DEF ConcurrentMapAccess, BeatTypes, BeatIsSeen, BestPlan
  <2>2. ASSUME NEW k \in Kinds PROVE KindInv(k)'
    BY <1>9, KindNotNone DEF ConcurrentMapAccess, KindInv
  <2> QED  BY <2>1, <2>2 DEF BeatInv
<1> QED
  BY <1>1, <1>2, <1>3, <1>4, <1>5, <1>6, <1>7, <1>8, <1>9 DEF HeartbeatNext

(* For any number of goroutines: one user metric of a kind goes out in an
   interval, one for each goroutine at most where two of them race on the map;
   a marked kind has its metric or nobody was logged in; a heartbeat tells the
   kinds of errors since the last one, and the plan is the best that was seen
   (AddDistinctMetrics, checkAndUpdateLastSentMap, sendHeartbeat, setUserPlan). *)
THEOREM HeartbeatIsRight == HeartbeatSpec => []HeartbeatTells
<1>1. BeatInv => HeartbeatTells
  BY DEF BeatInv, BeatTypes, KindInv, HeartbeatTells, OncePerInterval
<1> QED
  BY <1>1, BeatInit, BeatStep, PTL DEF HeartbeatSpec

-----------------------------------------------------------------------------
(* The bundle. *)
(* Any tree will do; how far the walk of a step is; and a tree that has all of
   the good bundle. *)
AnyTree == [Paths -> Things]
Place(p) == IF p = "d" THEN 1 ELSE IF p = "x" THEN 2 ELSE 3
Walked(p) == Place(p) < at
Covered(t, p) == good[p] # NoFile => t[p] = good[p]

(* The type of the state. *)
BundleType ==
  /\ local \in AnyTree /\ update \in AnyTree /\ backup \in AnyTree /\ good \in AnyTree
  /\ at \in 1 .. 4 /\ broken \in BOOLEAN
  /\ step \in {"idle", "backup", "remove", "copy", "restore", "synced", "restored"}

(* Behind the walk of removeMissing, and from then on, there is nothing that
   the update lacks; behind that of copyUpdate there is the update. *)
BundleUpdates == \A p \in Paths :
  /\ step = "remove" /\ Walked(p) => (update[p] = NoFile => local[p] = NoFile)
  /\ step = "copy" => (update[p] = NoFile => local[p] = NoFile)
  /\ (step = "copy" /\ Walked(p)) \/ step = "synced" =>
       local[p] = update[p] \/ (p \in unreadable /\ local[p] = NoFile)

(* Behind the walk of createBackup the backup is the bundle; from then on it
   has the good bundle, until the bundle has it again. *)
BundleKept == \A p \in Paths :
  /\ step = "backup" => backup[p] = IF Walked(p) THEN local[p] ELSE NoFile
  /\ ~broken /\ step \in {"idle", "backup", "synced", "restored"} => Covered(local, p)
  /\ ~broken /\ step \in {"remove", "copy", "restore"} => Covered(backup, p)
  /\ ~broken /\ step = "restore" /\ Walked(p) => Covered(local, p)

BundleInv == BundleType /\ BundleUpdates /\ BundleKept

(* The walk visits each path once, a folder before what is in it. *)
LEMMA BundleWalk ==
  /\ Paths = {"d", "x", "f"} /\ Len(Walk) = 3
  /\ \A i \in 1 .. 3 : Walk[i] \in Paths /\ Place(Walk[i]) = i
  /\ \A p, q \in Paths : Place(p) = Place(q) => p = q
<1>1. Walk = <<"d", "x", "f">>
  BY DEF Walk
<1>2. Len(Walk) = 3 /\ DOMAIN Walk = 1 .. 3 /\ Walk[1] = "d" /\ Walk[2] = "x" /\ Walk[3] = "f"
  BY <1>1
<1>3. Paths = {"d", "x", "f"}
  <2>1. Paths = {Walk[i] : i \in DOMAIN Walk}
    BY DEF Paths, Range
  <2>2. \A i : i \in 1 .. 3 <=> i = 1 \/ i = 2 \/ i = 3
    OBVIOUS
  <2> QED
    BY <1>2, <2>1, <2>2
<1> QED
  BY <1>2, <1>3 DEF Place

(* What copyRecursively leaves at one path, whatever stood there: the source,
   or nothing where the source cannot be read and nothing was; elsewhere it
   removes at most what was in a folder that gave way. *)
LEMMA BundleCopied ==
  ASSUME NEW src \in AnyTree, NEW dst \in AnyTree, NEW p \in Paths, NEW bad
  PROVE  /\ Copied(src, dst, p, bad) \in AnyTree /\ Cleared(src, dst, p) \in AnyTree
         /\ src[p] = NoFile => Copied(src, dst, p, bad) = dst
         /\ src[p] # NoFile /\ p \notin bad => Copied(src, dst, p, bad)[p] = src[p]
         /\ src[p] # NoFile /\ ~CannotOpen(src, dst, p, bad) =>
              Copied(src, dst, p, bad)[p] = src[p] \/ (p \in bad /\ Copied(src, dst, p, bad)[p] = NoFile)
         /\ \A q \in Paths : q # p =>
              \/ Copied(src, dst, p, bad)[q] = dst[q]
              \/ p = "d" /\ q = "x" /\ Copied(src, dst, p, bad)[q] = NoFile
<1> DEFINE cleared == Cleared(src, dst, p)
<1>0. NoFile \in Things /\ NoFile \notin Files \cup {"link", "dir"} /\ Files = {"old", "new"}
      /\ Things = {"old", "new", "link", "dir", NoFile}
  BY DEF Things, NoFile, Files
<1>1. cleared \in AnyTree
      /\ (cleared[p] = dst[p] \/ cleared[p] = NoFile)
      /\ \A q \in Paths : q # p => cleared[q] = dst[q] \/ (p = "d" /\ q = "x" /\ cleared[q] = NoFile)
  BY <1>0 DEF Cleared, RemoveAll, AnyTree
<1>2. InTheWay(src[p], dst[p]) => cleared[p] = NoFile
  BY <1>0 DEF Cleared, RemoveAll, AnyTree
<1>3. src[p] \in Files => cleared[p] \in Files \cup {NoFile}
  BY <1>0, <1>1, <1>2 DEF InTheWay, AnyTree
<1> HIDE DEF cleared
<1>4. Copied(src, dst, p, bad) =
        IF src[p] = NoFile THEN dst ELSE IF Same(src, cleared, p, bad) THEN cleared ELSE [cleared EXCEPT ![p] = src[p]]
  BY DEF Copied, cleared
<1>5. Same(src, cleared, p, bad) => src[p] \in Files /\
        (cleared[p] = src[p] \/ (p \in bad /\ cleared[p] = NoFile))
  BY <1>0, <1>3 DEF Same, checksum
<1>6. CannotOpen(src, dst, p, bad) <=> src[p] \in Files /\ p \in bad /\ ~Same(src, cleared, p, bad)
  BY DEF CannotOpen, cleared
<1>7. src[p] \in Things /\ dst \in AnyTree
  BY DEF AnyTree
<1>8. CASE src[p] = NoFile
  BY <1>1, <1>4, <1>6, <1>8, <1>0 DEF cleared
<1>9. CASE src[p] # NoFile /\ Same(src, cleared, p, bad)
  BY <1>1, <1>4, <1>5, <1>9 DEF cleared
<1>10. CASE src[p] # NoFile /\ ~Same(src, cleared, p, bad)
  <2>1. Copied(src, dst, p, bad) = [cleared EXCEPT ![p] = src[p]]
    BY <1>4, <1>10
  <2>2. Copied(src, dst, p, bad) \in AnyTree /\ Copied(src, dst, p, bad)[p] = src[p]
        /\ \A q \in Paths : q # p => Copied(src, dst, p, bad)[q] = cleared[q]
    BY <2>1, <1>1, <1>7 DEF AnyTree
  <2> QED
    BY <2>2, <1>1, <1>10 DEF cleared
<1> QED
  BY <1>8, <1>9, <1>10

(* What is left once the way is clear is a tree. *)
LEMMA BundleCleared ==
  ASSUME NEW src \in AnyTree, NEW dst \in AnyTree, NEW p \in Paths
  PROVE  Cleared(src, dst, p) \in AnyTree
  BY DEF Cleared, RemoveAll, AnyTree, Things

(* So is what a removal or a copy that failed leaves. *)
LEMMA BundleHalfway ==
  ASSUME NEW src \in AnyTree, NEW dst \in AnyTree, NEW p \in Paths
  PROVE  PartlyRemoved(dst, p) \subseteq AnyTree /\ Halfway(src, dst, p) \subseteq AnyTree
<1>1. [dst EXCEPT !["x"] = NoFile] \in AnyTree
  BY BundleWalk DEF AnyTree, Things
<1>2. PartlyRemoved(dst, p) \subseteq AnyTree
  BY <1>1 DEF PartlyRemoved
<1> QED
  BY <1>2, BundleCleared DEF Halfway

(* At first the bundle is the good one. *)
LEMMA BundleStarts == BundleInit => BundleInv
<1> SUFFICES ASSUME BundleInit PROVE BundleInv
  OBVIOUS
<1>1. local \in AnyTree /\ update \in AnyTree
  BY DEF BundleInit, Trees, AnyTree
<1>2. backup \in AnyTree
  BY DEF BundleInit, Nothing, AnyTree, Things
<1>3. at = 1 /\ broken = FALSE /\ step = "idle" /\ good = local
  BY DEF BundleInit
<1>4. broken \in BOOLEAN
  BY <1>3
<1>5. BundleType
  BY <1>1, <1>2, <1>3, <1>4 DEF BundleType
<1>6. BundleUpdates /\ BundleKept
  BY <1>3 DEF BundleUpdates, BundleKept, Covered
<1> QED
  BY <1>5, <1>6 DEF BundleInv

(* An attempt begins with an empty backup. *)
LEMMA BundleBegin == ASSUME BundleInv, Begin PROVE BundleInv'
<1>1. backup' \in AnyTree /\ \A p \in Paths : backup'[p] = NoFile /\ ~Walked(p)'
  BY BundleWalk DEF Begin, Goes, Nothing, AnyTree, Things, Walked, Place
<1> QED
  BY <1>1 DEF Begin, Goes, BundleInv, BundleType, BundleUpdates, BundleKept, Covered

(* A step of the walk: one more path is behind it, and none of those behind
   it lies in the one at hand. *)
LEMMA BundleWalks ==
  ASSUME at \in 1 .. 4, Walks
  PROVE  /\ Walk[at] \in Paths /\ at' \in 1 .. 4 /\ step' = step /\ ~Walked(Walk[at])
         /\ \A p \in Paths : Walked(p)' <=> Walked(p) \/ p = Walk[at]
         /\ \A p \in Paths : Walked(p) => Walk[at] # "d" /\ p # Walk[at]
         /\ Walk[at] = "d" => ~Walked("x")
  BY BundleWalk DEF Walks, Walked, Place

(* At the end of a walk every path is behind it; the next one starts anew. *)
LEMMA BundleEnds ==
  ASSUME at \in 1 .. 4, NEW s, Finishes(s)
  PROVE  /\ at' \in 1 .. 4 /\ step' = s
         /\ \A p \in Paths : Walked(p) /\ ~Walked(p)'
  BY BundleWalk DEF Finishes, Goes, Walked, Place

(* A walk that is left starts anew. *)
LEMMA BundleGoes ==
  ASSUME at \in 1 .. 4, NEW s, Goes(s)
  PROVE  at' \in 1 .. 4 /\ step' = s /\ \A p \in Paths : ~Walked(p)'
  BY BundleWalk DEF Goes, Walked, Place

(* createBackup: the backup has what the bundle has, as far as the walk is. *)
LEMMA BundleBackup == ASSUME BundleInv, createBackup PROVE BundleInv'
<1> USE DEF BundleInv, BundleType
<1>0. step = "backup" /\ UNCHANGED <<local, update, unreadable, good, broken, tries>>
  BY DEF createBackup
<1>1. CASE Walks /\ backup' = Copied(local, backup, Walk[at], {})
  <2> DEFINE p == Walk[at]
  <2>1. p \in Paths /\ at' \in 1 .. 4 /\ step' = step /\ ~Walked(p)
        /\ (\A q \in Paths : Walked(q)' <=> Walked(q) \/ q = p)
        /\ (\A q \in Paths : Walked(q) => p # "d" /\ q # p) /\ (p = "d" => ~Walked("x"))
    BY <1>1, BundleWalks
  <2> HIDE DEF p
  <2>2. backup' \in AnyTree
        /\ (local[p] = NoFile => backup' = backup)
        /\ (local[p] # NoFile => backup'[p] = local[p])
        /\ \A q \in Paths : q # p => backup'[q] = backup[q] \/ (p = "d" /\ q = "x" /\ backup'[q] = NoFile)
    <3>1. local \in AnyTree /\ backup \in AnyTree
      BY DEF BundleInv, BundleType
    <3> QED
      BY <1>1, <2>1, <3>1, BundleCopied DEF p
  <2>3. backup[p] = NoFile
    BY <1>0, <2>1 DEF BundleKept
  <2>4. \A q \in Paths : backup'[q] = IF Walked(q)' THEN local[q] ELSE NoFile
    <3> SUFFICES ASSUME NEW q \in Paths PROVE backup'[q] = IF Walked(q)' THEN local[q] ELSE NoFile
      OBVIOUS
    <3>1. backup[q] = IF Walked(q) THEN local[q] ELSE NoFile
      BY <1>0 DEF BundleKept
    <3>2. CASE q = p
      BY <2>1, <2>2, <2>3, <3>2
    <3>3. CASE q # p
      BY <2>1, <2>2, <3>1, <3>3
    <3> QED
      BY <3>2, <3>3
  <2> QED
    BY <1>0, <2>1, <2>2, <2>4 DEF BundleUpdates, BundleKept, Covered
<1>2. CASE Finishes("remove") /\ backup' = backup
  <2>1. at' \in 1 .. 4 /\ step' = "remove" /\ \A p \in Paths : Walked(p) /\ ~Walked(p)'
    BY <1>2, BundleEnds
  <2>2. \A p \in Paths : backup[p] = local[p]
    BY <1>0, <2>1 DEF BundleKept
  <2> QED
    BY <1>0, <1>2, <2>1, <2>2 DEF BundleUpdates, BundleKept, Covered
<1>3. CASE Goes("idle") /\ backup' = backup
  BY <1>0, <1>3, BundleGoes DEF BundleUpdates, BundleKept, Covered
<1> QED
  BY <1>1, <1>2, <1>3 DEF createBackup

(* removeMissing: the backup stands, and what the update lacks goes. *)
LEMMA BundleRemove == ASSUME BundleInv, removeMissing PROVE BundleInv'
<1> USE DEF BundleInv, BundleType
<1>0. step = "remove" /\ UNCHANGED <<update, backup, unreadable, good, broken, tries>>
  BY DEF removeMissing
<1>1. CASE Walks /\ local' = IF Missing(Walk[at]) THEN RemoveAll(local, Walk[at]) ELSE local
  <2> DEFINE p == Walk[at]
  <2>1. p \in Paths /\ at' \in 1 .. 4 /\ step' = step
        /\ (\A q \in Paths : Walked(q)' <=> Walked(q) \/ q = p)
        /\ (\A q \in Paths : Walked(q) => p # "d")
    BY <1>1, BundleWalks
  <2> HIDE DEF p
  <2>2. local' \in AnyTree
        /\ (update[p] = NoFile => local'[p] = NoFile)
        /\ \A q \in Paths : local'[q] = local[q] \/ local'[q] = NoFile
    BY <1>1, <2>1 DEF p, Missing, RemoveAll, AnyTree, Things
  <2> QED
    BY <1>0, <2>1, <2>2 DEF BundleUpdates, BundleKept, Covered
<1>2. CASE Finishes("copy") /\ local' = local
  <2>1. at' \in 1 .. 4 /\ step' = "copy" /\ \A p \in Paths : Walked(p) /\ ~Walked(p)'
    BY <1>2, BundleEnds
  <2> QED
    BY <1>0, <1>2, <2>1 DEF BundleUpdates, BundleKept, Covered
<1>3. CASE at <= Len(Walk) /\ Goes("restore") /\ local' \in PartlyRemoved(local, Walk[at])
  <2>1. Walk[at] \in Paths
    BY <1>3, BundleWalk
  <2>2. local' \in AnyTree
    BY <1>3, <2>1, BundleHalfway
  <2>3. step' = "restore" /\ at' \in 1 .. 4 /\ \A p \in Paths : ~Walked(p)'
    BY <1>3, BundleGoes
  <2> QED
    BY <1>0, <2>2, <2>3 DEF BundleUpdates, BundleKept, Covered
<1> QED
  BY <1>1, <1>2, <1>3 DEF removeMissing

(* copyUpdate: the backup stands until the bundle is the update. *)
LEMMA BundleCopy == ASSUME BundleInv, copyUpdate PROVE BundleInv'
<1> USE DEF BundleInv, BundleType
<1>0. step = "copy" /\ UNCHANGED <<update, backup, unreadable, tries>>
      /\ good' = (IF step' = "synced" THEN local ELSE good) /\ broken' = (broken /\ step' # "synced")
  BY DEF copyUpdate
<1>1. CASE /\ Walks /\ ~CannotOpen(update, local, Walk[at], unreadable)
           /\ local' = Copied(update, local, Walk[at], unreadable)
  <2> DEFINE p == Walk[at]
  <2>1. p \in Paths /\ at' \in 1 .. 4 /\ step' = step
        /\ (\A q \in Paths : Walked(q)' <=> Walked(q) \/ q = p)
        /\ (\A q \in Paths : Walked(q) => p # "d" /\ q # p)
    BY <1>1, BundleWalks
  <2> HIDE DEF p
  <2>2. local' \in AnyTree
        /\ (update[p] = NoFile => local' = local)
        /\ (update[p] # NoFile => local'[p] = update[p] \/ (p \in unreadable /\ local'[p] = NoFile))
        /\ \A q \in Paths : q # p => local'[q] = local[q] \/ (p = "d" /\ q = "x" /\ local'[q] = NoFile)
    <3>1. local \in AnyTree /\ update \in AnyTree
      BY DEF BundleInv, BundleType
    <3> QED
      BY <1>1, <2>1, <3>1, BundleCopied DEF p
  <2>3. good' = good /\ broken' = broken
    BY <1>0, <2>1
  <2>4. \A q \in Paths :
          /\ update[q] = NoFile => local'[q] = NoFile
          /\ Walked(q)' => local'[q] = update[q] \/ (q \in unreadable /\ local'[q] = NoFile)
    <3> SUFFICES ASSUME NEW q \in Paths
                 PROVE  /\ update[q] = NoFile => local'[q] = NoFile
                        /\ Walked(q)' => local'[q] = update[q] \/ (q \in unreadable /\ local'[q] = NoFile)
      OBVIOUS
    <3>1. /\ update[q] = NoFile => local[q] = NoFile
          /\ Walked(q) => local[q] = update[q] \/ (q \in unreadable /\ local[q] = NoFile)
      BY <1>0 DEF BundleUpdates
    <3>2. CASE q = p
      BY <2>2, <3>1, <3>2
    <3>3. CASE q # p
      BY <2>1, <2>2, <3>1, <3>3
    <3> QED
      BY <3>2, <3>3
  <2>5. BundleUpdates'
    BY <1>0, <2>1, <2>4 DEF BundleUpdates
  <2>6. BundleKept'
    BY <1>0, <2>1, <2>3 DEF BundleKept, Covered
  <2> QED
    BY <1>0, <2>1, <2>2, <2>3, <2>5, <2>6
<1>2. CASE /\ at <= Len(Walk) /\ Goes("restore")
           /\ local' \in {Cleared(update, local, Walk[at])} \cup Halfway(update, local, Walk[at])
  <2>1. Walk[at] \in Paths
    BY <1>2, BundleWalk
  <2>2. local' \in AnyTree
    <3>1. local \in AnyTree /\ update \in AnyTree
      BY DEF BundleInv, BundleType
    <3> QED
      BY <1>2, <2>1, <3>1, BundleCleared, BundleHalfway
  <2>3. good' = good /\ broken' = broken /\ step' = "restore" /\ at' \in 1 .. 4 /\ \A p \in Paths : ~Walked(p)'
    BY <1>0, <1>2, BundleGoes
  <2> QED
    BY <1>0, <2>2, <2>3 DEF BundleUpdates, BundleKept, Covered
<1>3. CASE Finishes("synced") /\ local' = local
  <2>1. at' \in 1 .. 4 /\ step' = "synced" /\ \A p \in Paths : Walked(p) /\ ~Walked(p)'
    BY <1>3, BundleEnds
  <2>2. good' = local /\ broken' = FALSE
    BY <1>0, <2>1
  <2> QED
    BY <1>0, <1>3, <2>1, <2>2 DEF BundleUpdates, BundleKept, Covered
<1> QED
  BY <1>1, <1>2, <1>3 DEF copyUpdate

(* restoreFromBackup: the good bundle comes back, as far as the walk is. *)
LEMMA BundleRestore == ASSUME BundleInv, restoreFromBackup PROVE BundleInv'
<1> USE DEF BundleInv, BundleType
<1>0. step = "restore" /\ UNCHANGED <<update, backup, unreadable, good, tries>>
  BY DEF restoreFromBackup
<1>1. CASE Walks /\ local' = Recovered(Walk[at]) /\ broken' = broken
  <2> DEFINE p == Walk[at]
  <2>1. p \in Paths /\ at' \in 1 .. 4 /\ step' = step
        /\ (\A q \in Paths : Walked(q)' <=> Walked(q) \/ q = p)
        /\ (\A q \in Paths : Walked(q) => p # "d" /\ q # p)
    BY <1>1, BundleWalks
  <2> HIDE DEF p
  <2>2. local' \in AnyTree
        /\ (backup[p] # NoFile => local'[p] = backup[p])
        /\ \A q \in Paths : q # p => local'[q] = local[q] \/ (p = "d" /\ q = "x")
    <3>1. backup \in AnyTree /\ local \in AnyTree
      BY DEF BundleInv, BundleType
    <3> QED
      BY <1>1, <2>1, <3>1, BundleCopied DEF p, Recovered
  <2>3. ASSUME ~broken, NEW q \in Paths, Walked(q)' PROVE Covered(local, q)'
    <3>1. Covered(backup, q) /\ (Walked(q) => Covered(local, q))
      BY <1>0, <2>3 DEF BundleKept
    <3>2. CASE q = p
      BY <1>0, <2>2, <3>1, <3>2 DEF Covered
    <3>3. CASE q # p
      BY <1>0, <2>1, <2>2, <2>3, <3>1, <3>3 DEF Covered
    <3> QED
      BY <3>2, <3>3
  <2>4. BundleKept'
    BY <1>0, <1>1, <2>1, <2>3 DEF BundleKept, Covered
  <2> QED
    BY <1>0, <1>1, <2>1, <2>2, <2>4 DEF BundleUpdates
<1>2. CASE Finishes("restored") /\ UNCHANGED <<local, broken>>
  <2>1. at' \in 1 .. 4 /\ step' = "restored" /\ \A p \in Paths : Walked(p) /\ ~Walked(p)'
    BY <1>2, BundleEnds
  <2> QED
    BY <1>0, <1>2, <2>1 DEF BundleUpdates, BundleKept, Covered
<1>3. CASE at <= Len(Walk) /\ Goes("idle") /\ broken' = TRUE /\ local' \in Halfway(backup, local, Walk[at])
  <2>1. Walk[at] \in Paths
    BY <1>3, BundleWalk
  <2>2. local' \in AnyTree
    BY <1>3, <2>1, BundleHalfway
  <2> QED
    BY <1>0, <1>3, <2>2, BundleGoes DEF BundleUpdates, BundleKept, Covered
<1> QED
  BY <1>1, <1>2, <1>3 DEF restoreFromBackup

(* Every step keeps the invariant. *)
LEMMA BundleStep == BundleInv /\ [BundleNext]_bundleVars => BundleInv'
<1> SUFFICES ASSUME BundleInv, [BundleNext]_bundleVars PROVE BundleInv'
  OBVIOUS
<1>1. ASSUME Again PROVE BundleInv'
  <2>1. at \in 1 .. 4 /\ Goes("idle") /\ step \in {"synced", "restored"}
        /\ UNCHANGED <<local, update, backup, unreadable, good, broken>>
    BY <1>1 DEF Again, BundleInv, BundleType
  <2> QED
    BY <2>1, BundleGoes DEF BundleInv, BundleType, BundleUpdates, BundleKept, Covered
<1>2. ASSUME Die PROVE BundleInv'
  <2>1. at \in 1 .. 4 /\ Goes("idle") /\ broken' = TRUE
        /\ UNCHANGED <<update, backup, unreadable, good>>
    BY <1>2 DEF Die, BundleInv, BundleType
  <2>2. local \in AnyTree /\ update \in AnyTree /\ backup \in AnyTree
    BY DEF BundleInv, BundleType
  <2>3. at <= Len(Walk) \/ at > Len(Walk)
    BY <2>1, BundleWalk
  <2>4. CASE at <= Len(Walk)
    <3>1. Walk[at] \in Paths /\ ~(at > Len(Walk))
      BY <2>1, <2>4, BundleWalk
    <3>2. local' \in {local} \cup PartlyRemoved(local, Walk[at]) \cup Halfway(update, local, Walk[at])
                      \cup Halfway(backup, local, Walk[at])
      BY <1>2, <2>4, <3>1 DEF Die
    <3>3. local' \in AnyTree
      BY <2>2, <3>1, <3>2, BundleHalfway
    <3> QED
      BY <2>1, <3>3, BundleGoes DEF BundleInv, BundleType, BundleUpdates, BundleKept, Covered
  <2>5. CASE at > Len(Walk)
    <3>0. ~(at <= Len(Walk))
      BY <2>1, <2>5, BundleWalk
    <3>1. local' = local
      BY <1>2, <2>5, <3>0 DEF Die
    <3> QED
      BY <2>1, <3>1, BundleGoes DEF BundleInv, BundleType, BundleUpdates, BundleKept, Covered
  <2> QED
    BY <2>3, <2>4, <2>5
<1>3. ASSUME UNCHANGED bundleVars PROVE BundleInv'
  BY <1>3 DEF bundleVars, BundleInv, BundleType, BundleUpdates, BundleKept, Covered, Walked
<1> QED
  BY <1>1, <1>2, <1>3, BundleBegin, BundleBackup, BundleRemove, BundleCopy, BundleRestore DEF BundleNext

(* However often it is tried, and wherever it fails: a sync without error
   leaves the update, and one that failed the bundle from before, unless the
   process died or the recovery failed (syncFolders). *)
THEOREM BundleStaysWhole == BundleSpec => []BundleIsWhole
<1>1. BundleInv => BundleIsWhole
  BY DEF BundleInv, BundleUpdates, BundleKept, Covered, BundleIsWhole, SyncedIsUpdate, RestoredIsGood
<1> QED
  BY <1>1, BundleStarts, BundleStep, PTL DEF BundleSpec

-----------------------------------------------------------------------------
(* The settings. *)
(* The lists of settings that calls have left, and their records. *)
Todos == {<<>>, <<"imap", "smtp">>} \cup {<<s>> : s \in Settings}
Working == {"check", "save", "effect", "answer"}
CallOf == [at : Working \cup {"idle", "tell"}, todo : Todos, v : BOOLEAN, ok : BOOLEAN,
           rpc : {"none", "one", "servers"}]

(* A call of a setter: at work it has a setting at hand. *)
WellFormed(r) ==
  /\ r \in CallOf
  /\ r.at = "idle" => r.todo = <<>> /\ r.rpc = "none"
  /\ r.at = "tell" => r.todo = <<>> /\ r.rpc = "servers"
  /\ r.at \in Working => r.todo # <<>>
  /\ Touched(r.todo) \cap Servers # {} => r.rpc = "servers"

(* What the lists of settings of a call touch. *)
LEMMA SetTodo ==
  /\ Touched(<<>>) = {} /\ \A s : Touched(<<s>>) = {s}
  /\ Touched(<<"imap", "smtp">>) = {"imap", "smtp"}
<1>1. \A i : i \in 1 .. 2 <=> i = 1 \/ i = 2
  OBVIOUS
<1>2. \A i : i \in 1 .. 1 <=> i = 1
  OBVIOUS
<1>3. Len(<<"imap", "smtp">>) = 2 /\ <<"imap", "smtp">>[1] = "imap" /\ <<"imap", "smtp">>[2] = "smtp"
  OBVIOUS
<1>4. Touched(<<"imap", "smtp">>) = {"imap", "smtp"}
  BY <1>1, <1>3 DEF Touched
<1>5. ASSUME NEW s PROVE Touched(<<s>>) = {s}
  BY <1>2 DEF Touched
<1>6. Touched(<<>>) = {}
  BY DEF Touched
<1> QED
  BY <1>4, <1>5, <1>6

(* A call has a setting at hand, and the rest of its list does without it. *)
LEMMA SetTodos ==
  ASSUME NEW t \in Todos
  PROVE  /\ t # <<>> => Head(t) \in Settings /\ Head(t) \in Touched(t)
         /\ Touched(t) \subseteq Settings
         /\ Len(t) > 1 <=> t = <<"imap", "smtp">>
         /\ Len(t) > 1 => Tail(t) \in Todos /\ Tail(t) # <<>> /\ Touched(t) = {Head(t)} \cup Touched(Tail(t)) 
                          /\ Head(t) \notin Touched(Tail(t))
         /\ t # <<>> /\ ~(Len(t) > 1) => Touched(t) = {Head(t)}
<1>0. "imap" \in Settings /\ "smtp" \in Settings
  BY DEF Settings, Compared, Servers
<1>1. CASE t = <<>>
  BY <1>1, SetTodo
<1>2. CASE t = <<"imap", "smtp">>
  <2>1. Head(t) = "imap" /\ Tail(t) = <<"smtp">> /\ Len(t) = 2
    BY <1>2
  <2>2. Tail(t) \in Todos
    BY <2>1, <1>0 DEF Todos
  <2> QED
    BY <1>0, <1>2, <2>1, <2>2, SetTodo
<1>3. ASSUME NEW s \in Settings, t = <<s>> PROVE /\ t # <<>> /\ Head(t) = s /\ Len(t) = 1 /\ t # <<"imap", "smtp">>
                                                /\ Touched(t) = {s}
  BY <1>3, SetTodo
<1> QED
  BY <1>1, <1>2, <1>3 DEF Todos

(* The call of c touches s; it is at work on s; and it is between the vault
   and the effect of s, whichever comes first. *)
Holds(c, s) == s \in Touched(call[c].todo)
On(c, s) == call[c].todo # <<>> /\ Now(c) = s
Pending(c, s) == On(c, s) /\ call[c].at = IF s \in Early THEN "save" ELSE "effect"

(* The inductive invariant. Types, and that nothing happens while the program
   is down. *)
CallType == call \in [Callers -> CallOf] /\ \A c \in Callers : WellFormed(call[c])

SetType ==
  /\ mem \in [Settings \cup {"sent"} -> BOOLEAN] /\ disk \in [Settings \cup {"sent"} -> BOOLEAN]
  /\ eff \in [Settings -> BOOLEAN] /\ hb \in [Settings -> BOOLEAN]
  /\ answered \in [Settings -> SUBSET BOOLEAN]
  /\ CallType
  /\ used \subseteq Requests /\ sends \in Nat
  /\ up \in BOOLEAN /\ quiet \in BOOLEAN /\ beat \in {"off", "idle", "sending", "sent"}
SetDown ==
  ~up => /\ beat = "off" /\ quiet = FALSE /\ \A c \in Callers : call[c].at = "idle"
         /\ "autostart" \notin messy => eff["autostart"] = disk["autostart"]
(* What is not in the file is unsaved; for the autostart entry and the day of
   the heartbeat also failed. *)
SetSaved ==
  /\ \A s \in Settings \cup {"sent"} : s \notin unsaved => mem[s] = disk[s]
  /\ \A s \in {"autostart", "sent"} : s \notin failed => mem[s] = disk[s]
(* Two calls touch a setting only if it is messy. *)
SetOwned ==
  \A s \in Settings : s \notin messy => \A c, d \in Callers : Holds(c, s) /\ Holds(d, s) => c = d
(* A server is behind the vault only while a call is about to restart it, or
   if that failed. *)
SetFollows ==
  up => \A s \in Compared :
          eff[s] = mem[s] \/ s \in failed \/ \E c \in Callers : call[c].at = "effect" /\ On(c, s)
(* A call between the vault and its answer finds its value in memory. *)
SetValues ==
  \A s \in Settings, c \in Callers :
    s \notin messy /\ On(c, s) /\ ((call[c].at = "answer" /\ call[c].ok = TRUE) \/ (call[c].at = "effect" /\ s \notin Early))
      => mem[s] = call[c].v
(* The value that was answered last is in memory. *)
SetAnswered ==
  up => \A s \in Settings :
          s \notin messy /\ (\A c \in Callers : ~Holds(c, s)) => answered[s] = {} \/ mem[s] \in answered[s]
(* Memory, effect and report differ only while a call is between them. *)
SetAgrees ==
  \A s \in Settings \ {"telemetry"} : s \notin messy =>
    /\ \A c \in Callers : Pending(c, s) =>
         IF s \in Early THEN eff[s] = call[c].v /\ hb[s] = call[c].v
         ELSE s \in Compared \/ s \notin failed => hb[s] = mem[s]
    /\ up /\ s \notin failed /\ (\A c \in Callers : ~Pending(c, s)) => eff[s] = mem[s] /\ hb[s] = mem[s]
(* A heartbeat on its way is the first of the day, and telemetry is on. *)
SetBeat ==
  /\ quiet => mem["telemetry"] = TRUE /\ beat # "sending"
  /\ beat = "sending" => mem["sent"] = FALSE
  /\ "sent" \notin messy =>
       sends = 0 \/ (sends = 1 /\ IF up THEN beat = "sent" \/ mem["sent"] = TRUE ELSE disk["sent"] = TRUE)
(* The GUI has what is in memory, unless a call for the servers will tell it. *)
SetShown ==
  up /\ "shown" \notin messy =>
    /\ \A c, d \in Callers : call[c].rpc = "servers" /\ call[d].rpc = "servers" => c = d
    /\ (\A c \in Callers : call[c].rpc # "servers") => \A s \in Servers : shown[s] = mem[s]
SetInv ==
  /\ SetType /\ SetDown /\ SetSaved /\ SetOwned /\ SetFollows /\ SetValues /\ SetAnswered /\ SetAgrees
  /\ SetBeat /\ SetShown

(* A call at work has one setting at hand, which it touches. *)
LEMMA SetNow ==
  ASSUME CallType, NEW c \in Callers, call[c].at \in Working
  PROVE  /\ On(c, Now(c)) /\ Now(c) \in Settings /\ Holds(c, Now(c))
         /\ \A s : On(c, s) => s = Now(c)
         /\ call[c].v \in BOOLEAN /\ call[c].todo \in Todos /\ call[c].todo # <<>>
  <1>1. WellFormed(call[c])
    BY DEF CallType
  <1>2. call[c].todo \in Todos /\ call[c].todo # <<>> /\ call[c].v \in BOOLEAN
    BY <1>1 DEF WellFormed, CallOf
  <1> QED
    BY <1>2, SetTodos DEF On, Holds, Now

(* A step of a call to the next of its states leaves the other calls, and
   what every call touches, as they are. *)
LEMMA SetEnds ==
  ASSUME CallType, NEW c \in Callers, call[c].at \in Working,
         NEW to \in Working, NEW ok \in BOOLEAN, Ends(c, to, ok)
  PROVE  /\ CallType'
         /\ \A d \in Callers : d # c => call'[d] = call[d]
         /\ call'[c].at = to /\ call'[c].ok = ok /\ call'[c].v = call[c].v
         /\ \A d \in Callers : call'[d].todo = call[d].todo /\ call'[d].rpc = call[d].rpc
         /\ \A d \in Callers : \A s : (Holds(d, s)' <=> Holds(d, s)) /\ (On(d, s)' <=> On(d, s))
<1>1. call[c] \in CallOf /\ WellFormed(call[c]) /\ call \in [Callers -> CallOf]
  BY DEF CallType
<1>2. call' = [call EXCEPT ![c] = [call[c] EXCEPT !.at = to, !.ok = ok]]
  BY <1>1 DEF Ends, CallOf
<1> DEFINE r == [call[c] EXCEPT !.at = to, !.ok = ok]
<1>3. r \in CallOf /\ r.at = to /\ r.ok = ok /\ r.v = call[c].v /\ r.todo = call[c].todo /\ r.rpc = call[c].rpc
  BY <1>1 DEF CallOf
<1>4. to # "idle" /\ to # "tell" /\ call[c].todo # <<>>
  BY <1>1 DEF WellFormed, Working
<1> HIDE DEF r
<1>5. WellFormed(r)
  BY <1>1, <1>3, <1>4 DEF WellFormed
<1>6. call' \in [Callers -> CallOf] /\ call'[c] = r /\ \A d \in Callers : d # c => call'[d] = call[d]
  BY <1>1, <1>2, <1>3 DEF r
<1>7. CallType'
  BY <1>5, <1>6 DEF CallType
<1>8. \A d \in Callers : call'[d].todo = call[d].todo /\ call'[d].rpc = call[d].rpc
  BY <1>3, <1>6
<1>9. \A d \in Callers : \A s : (Holds(d, s)' <=> Holds(d, s)) /\ (On(d, s)' <=> On(d, s))
  BY <1>8 DEF Holds, On, Now
<1> QED
  BY <1>3, <1>6, <1>7, <1>8, <1>9

(* Of a setting that is not messy only one call can be at work on. *)
LEMMA SetSole ==
  ASSUME CallType, SetOwned, NEW s \in Settings, s \notin messy,
         NEW c \in Callers, NEW d \in Callers, On(c, s), On(d, s)
  PROVE  c = d
<1>1. \A e \in Callers : On(e, s) => Holds(e, s)
  <2> SUFFICES ASSUME NEW e \in Callers, On(e, s) PROVE Holds(e, s)
    OBVIOUS
  <2>1. call[e].todo \in Todos /\ call[e].todo # <<>>
    BY DEF CallType, CallOf, On
  <2> QED
    BY <2>1, SetTodos DEF On, Holds, Now
<1> QED
  BY <1>1 DEF SetOwned

(* Check changes nothing but where the call goes: with the value in memory to
   its answer, or to the effect of the autostart entry. *)
LEMMA SetCheck == ASSUME SetInv, NEW c \in Callers, Check(c) PROVE SetInv'
<1> DEFINE s0 == Now(c)
<1>0. call[c].at = "check" /\ call[c].at \in Working /\ up
      /\ UNCHANGED <<mem, disk, eff, hb, shown, unsaved, failed, messy, beat, quiet, sends, answered, used, up>>
  BY DEF Check, Working
<1>t. SetType /\ CallType /\ SetOwned
  BY DEF SetInv, SetType
<1>n. On(c, s0) /\ s0 \in Settings /\ \A s : On(c, s) => s = s0
  BY <1>0, <1>t, SetNow
<1> HIDE DEF s0
<1>1. PICK to \in Working :
        /\ Ends(c, to, TRUE)
        /\ to = "answer" => mem[s0] = call[c].v
        /\ to = "effect" => s0 \in Early \/ (s0 = "autostart" /\ mem[s0] = call[c].v)
        /\ to = "save" => s0 \notin Early
        /\ to # "check"
  <2>1. CASE s0 \in Compared /\ mem[s0] = call[c].v
    BY <2>1 DEF Check, s0, Working
  <2>2. CASE ~(s0 \in Compared /\ mem[s0] = call[c].v) /\ s0 = "autostart" /\ mem["autostart"] = call[c].v
    BY <2>2 DEF Check, s0, Working
  <2>3. CASE ~(s0 \in Compared /\ mem[s0] = call[c].v) /\ ~(s0 = "autostart" /\ mem["autostart"] = call[c].v)
    BY <2>3 DEF Check, s0, Working
  <2> QED
    BY <2>1, <2>2, <2>3
<1>2. /\ CallType'
      /\ \A d \in Callers : d # c => call'[d] = call[d]
      /\ call'[c].at = to /\ call'[c].ok = TRUE /\ call'[c].v = call[c].v
      /\ \A d \in Callers : call'[d].todo = call[d].todo /\ call'[d].rpc = call[d].rpc
      /\ \A d \in Callers : \A s : (Holds(d, s)' <=> Holds(d, s)) /\ (On(d, s)' <=> On(d, s))
  BY <1>0, <1>1, <1>t, SetEnds
<1>3. SetType'
  BY <1>0, <1>2, <1>t DEF SetType
<1>4. SetDown' /\ SetSaved' /\ SetBeat'
  BY <1>0 DEF SetInv, SetDown, SetSaved, SetBeat
<1>5. SetOwned' /\ SetAnswered' /\ SetShown'
  BY <1>0, <1>2 DEF SetInv, SetOwned, SetAnswered, SetShown
<1>6. SetFollows'
  BY <1>0, <1>2 DEF SetInv, SetFollows
<1>7. SetValues'
  BY <1>0, <1>1, <1>2, <1>n DEF SetInv, SetValues
<1>8. SetAgrees'
  <2>1. \A s : ~Pending(c, s)
    BY <1>0 DEF Pending
  <2>2. \A d \in Callers : \A s : d # c => (Pending(d, s)' <=> Pending(d, s))
    BY <1>2 DEF Pending
  <2>3. \A s : Pending(c, s)' => s = s0 /\ s0 = "autostart" /\ s0 \notin Early
    BY <1>1, <1>2, <1>n DEF Pending, Early
  <2>4. s0 \notin messy => \A d \in Callers : ~Pending(d, s0)
    BY <1>t, <1>n, <2>1, SetSole DEF Pending
  <2>5. \A s \in Settings, d \in Callers : s \notin messy /\ Pending(d, s) => (Pending(d, s)' /\ d # c)
    BY <2>1, <2>2
  <2>6. "autostart" \notin Compared
    BY DEF Compared, Servers
  <2> QED
    BY <1>0, <1>2, <2>1, <2>2, <2>3, <2>4, <2>5, <2>6 DEF SetInv, SetAgrees
<1> QED
  BY <1>3, <1>4, <1>5, <1>6, <1>7, <1>8 DEF SetInv

(* Only the call for both servers touches a server. *)
LEMMA SetServers ==
  ASSUME CallType, NEW c \in Callers, NEW s \in Servers, Holds(c, s)
  PROVE  call[c].rpc = "servers"
<1>1. WellFormed(call[c]) /\ s \in Touched(call[c].todo) \cap Servers
  BY DEF CallType, Holds
<1> QED
  BY <1>1 DEF WellFormed

(* Save: the memory has the value, the file if it could be written, and the
   heartbeat reports it then. *)
LEMMA SetSave == ASSUME SetInv, NEW c \in Callers, Save(c) PROVE SetInv'
<1> DEFINE s0 == Now(c)
           v == call[c].v
<1>0. call[c].at = "save" /\ call[c].at \in Working /\ up
      /\ UNCHANGED <<eff, shown, messy, beat, sends, answered, used, up>>
      /\ quiet' = (quiet /\ ~(s0 = "telemetry" /\ ~v))
  BY DEF Save, Working
<1>t. SetType /\ CallType /\ SetOwned
  BY DEF SetInv, SetType
<1>n. On(c, s0) /\ s0 \in Settings /\ v \in BOOLEAN /\ Holds(c, s0) /\ \A s : On(c, s) => s = s0
  BY <1>0, <1>t, SetNow
<1>1. PICK saved \in BOOLEAN :
        /\ modUnsafe(s0, v, saved)
        /\ hb' = IF saved /\ s0 \notin Early \cup {"telemetry"} THEN Reported(s0, v) ELSE hb
        /\ Ends(c, IF saved /\ s0 \notin Early THEN "effect" ELSE "answer", saved)
  BY DEF Save
<1> HIDE DEF s0, v
<1> DEFINE to == IF saved /\ s0 \notin Early THEN "effect" ELSE "answer"
<1>2. /\ CallType'
      /\ \A d \in Callers : d # c => call'[d] = call[d]
      /\ call'[c].at = to /\ call'[c].ok = saved /\ call'[c].v = v
      /\ \A d \in Callers : call'[d].todo = call[d].todo /\ call'[d].rpc = call[d].rpc
      /\ \A d \in Callers : \A s : (Holds(d, s)' <=> Holds(d, s)) /\ (On(d, s)' <=> On(d, s))
  <2>1. to \in Working
    BY DEF Working
  <2> HIDE DEF to
  <2>2. Ends(c, to, saved)
    BY <1>1 DEF to
  <2> QED
    BY <1>0, <1>t, <2>1, <2>2, SetEnds DEF v
<1> HIDE DEF to
<1>m. /\ mem' \in [Settings \cup {"sent"} -> BOOLEAN] /\ disk' \in [Settings \cup {"sent"} -> BOOLEAN]
      /\ mem'[s0] = v /\ \A s \in Settings \cup {"sent"} : s # s0 => mem'[s] = mem[s]
      /\ disk' = IF saved THEN mem' ELSE disk
      /\ unsaved' = IF saved THEN {} ELSE unsaved \cup {s0}
      /\ failed' = IF saved THEN failed \ {s0} ELSE failed \cup {s0}
  BY <1>1, <1>t, <1>n DEF modUnsafe, SetType
<1>h. /\ hb' \in [Settings -> BOOLEAN] /\ \A s \in Settings : s # s0 => hb'[s] = hb[s]
      /\ saved /\ s0 \notin Early \cup {"telemetry"} => hb'[s0] = v
      /\ s0 \in Early => hb' = hb
  BY <1>1, <1>t, <1>n DEF Reported, SetType
<1>o. /\ to = "effect" \/ to = "answer"
      /\ to = "effect" <=> saved = TRUE /\ s0 \notin Early
      /\ "sent" # s0
  BY <1>n DEF to, Settings, Compared, Servers, Early
<1>s. \A d \in Callers : s0 \notin messy /\ On(d, s0) => d = c
  BY <1>t, <1>n, SetSole
<1>3. SetType'
  <2>1. quiet' \in BOOLEAN
    BY <1>0
  <2> QED
    BY <1>0, <1>2, <1>t, <1>m, <1>h, <2>1 DEF SetType
<1>4. SetDown'
  BY <1>0 DEF SetDown
<1>5. SetSaved'
  <2>1. "autostart" \in Settings
    BY DEF Settings
  <2> QED
    BY <1>m, <1>n, <2>1 DEF SetInv, SetSaved
<1>6. SetOwned'
  BY <1>0, <1>2 DEF SetInv, SetOwned
<1>7. SetFollows'
  <2> SUFFICES ASSUME NEW s \in Compared
               PROVE  eff'[s] = mem'[s] \/ s \in failed' \/ \E d \in Callers : call'[d].at = "effect" /\ On(d, s)'
    BY DEF SetFollows
  <2>1. s \in Settings /\ s \notin Early
    BY DEF Settings, Compared, Servers, Early
  <2>2. eff[s] = mem[s] \/ s \in failed \/ \E d \in Callers : call[d].at = "effect" /\ On(d, s)
    BY <1>0 DEF SetInv, SetFollows
  <2>3. CASE s = s0
    BY <1>2, <1>m, <1>o, <1>n, <2>1, <2>3
  <2>4. CASE s # s0
    BY <1>0, <1>2, <1>m, <2>1, <2>2, <2>4
  <2> QED
    BY <2>3, <2>4
<1>8. SetValues'
  BY <1>0, <1>2, <1>m, <1>n, <1>o, <1>s DEF SetInv, SetValues, v
<1>9. SetAnswered'
  BY <1>0, <1>2, <1>m, <1>n DEF SetInv, SetAnswered
<1>10. SetAgrees'
  <2> SUFFICES ASSUME NEW s \in Settings \ {"telemetry"}, s \notin messy
               PROVE  /\ \A d \in Callers : Pending(d, s)' =>
                           IF s \in Early THEN eff'[s] = call'[d].v /\ hb'[s] = call'[d].v
                           ELSE s \in Compared \/ s \notin failed' => hb'[s] = mem'[s]
                      /\ s \notin failed' /\ (\A d \in Callers : ~Pending(d, s)') => eff'[s] = mem'[s] /\ hb'[s] = mem'[s]
    BY <1>0 DEF SetAgrees
  <2>1. /\ \A d \in Callers : Pending(d, s) =>
             IF s \in Early THEN eff[s] = call[d].v /\ hb[s] = call[d].v
             ELSE s \in Compared \/ s \notin failed => hb[s] = mem[s]
        /\ s \notin failed /\ (\A d \in Callers : ~Pending(d, s)) => eff[s] = mem[s] /\ hb[s] = mem[s]
    BY <1>0 DEF SetInv, SetAgrees
  <2>2. \A d \in Callers : d # c => (Pending(d, s)' <=> Pending(d, s))
    BY <1>2 DEF Pending
  <2>3. CASE s = s0
    <3>1. \A d \in Callers : Pending(d, s)' => d = c
      BY <1>s, <1>2, <2>3 DEF Pending
    <3>2. CASE s0 \in Early
      <4>1. Pending(c, s) /\ ~Pending(c, s)'
        BY <1>0, <1>2, <1>n, <1>o, <2>3, <3>2 DEF Pending
      <4> QED
        BY <1>0, <1>m, <1>h, <2>1, <2>3, <3>1, <3>2, <4>1 DEF v
    <3>3. CASE s0 \notin Early
      <4>1. saved = TRUE => Pending(c, s)' /\ hb'[s] = mem'[s]
        BY <1>2, <1>n, <1>o, <1>m, <1>h, <2>3, <3>3 DEF Pending
      <4>2. saved = FALSE => ~Pending(c, s)' /\ s \in failed'
        BY <1>2, <1>o, <1>m, <2>3, <3>3 DEF Pending
      <4> QED
        BY <2>3, <3>1, <3>3, <4>1, <4>2
    <3> QED
      BY <3>2, <3>3
  <2>4. CASE s # s0
    <3>1. ~Pending(c, s) /\ ~Pending(c, s)'
      BY <1>n, <1>2, <2>4 DEF Pending
    <3>2. hb'[s] = hb[s] /\ eff'[s] = eff[s] /\ mem'[s] = mem[s] /\ (s \in failed' <=> s \in failed)
      BY <1>0, <1>m, <1>h, <2>4
    <3> QED
      BY <1>2, <2>1, <2>2, <3>1, <3>2
  <2> QED
    BY <2>3, <2>4
<1>11. SetBeat'
  <2>1. quiet' => quiet /\ (s0 = "telemetry" => v = TRUE)
    BY <1>0, <1>n
  <2>2. "telemetry" \in Settings
    BY DEF Settings
  <2> QED
    BY <1>0, <1>m, <1>o, <2>1, <2>2 DEF SetInv, SetBeat
<1>12. SetShown'
  <2>1. s0 \in Servers => call[c].rpc = "servers"
    BY <1>t, <1>n, SetServers
  <2>2. Servers \subseteq Settings
    BY DEF Servers, Compared, Settings
  <2> QED
    BY <1>0, <1>2, <1>m, <2>1, <2>2 DEF SetInv, SetShown
<1> QED
  BY <1>3, <1>4, <1>5, <1>6, <1>7, <1>8, <1>9, <1>10, <1>11, <1>12 DEF SetInv

(* Restart: the server does what the memory says, or the setting failed. *)
LEMMA SetRestart == ASSUME SetInv, NEW c \in Callers, Restart(c) PROVE SetInv'
<1> DEFINE s0 == Now(c)
           v == call[c].v
<1>0. call[c].at = "effect" /\ call[c].at \in Working /\ s0 \in Compared
      /\ UNCHANGED <<mem, disk, hb, shown, unsaved, messy, beat, quiet, sends, answered, used, up>>
  BY DEF Restart, Working
<1>t. SetType /\ CallType /\ SetOwned
  BY DEF SetInv, SetType
<1>u. up
  BY <1>0 DEF SetInv, SetDown
<1>n. On(c, s0) /\ s0 \in Settings /\ v \in BOOLEAN /\ Holds(c, s0) /\ \A s : On(c, s) => s = s0
  BY <1>0, <1>t, SetNow
<1>k. s0 \in Compared => s0 \notin Early /\ s0 \notin {"autostart", "sent", "telemetry"}
  BY DEF Compared, Servers, Early
<1>s. \A d \in Callers : s0 \notin messy /\ On(d, s0) => d = c
  BY <1>t, <1>n, SetSole
<1>y. messy' = messy
  BY <1>0
<1>1. PICK won \in BOOLEAN :
        /\ eff' = (IF won THEN [eff EXCEPT ![s0] = mem[s0]] ELSE eff)
        /\ failed' = (IF won THEN failed \ {s0} ELSE failed \cup {s0})
        /\ Ends(c, "answer", won)
  BY DEF Restart, Served
<1> HIDE DEF s0, v
<1>2. /\ CallType'
      /\ \A d \in Callers : d # c => call'[d] = call[d]
      /\ call'[c].at = "answer" /\ call'[c].ok = won /\ call'[c].v = v
      /\ \A d \in Callers : call'[d].todo = call[d].todo /\ call'[d].rpc = call[d].rpc
      /\ \A d \in Callers : \A s : (Holds(d, s)' <=> Holds(d, s)) /\ (On(d, s)' <=> On(d, s))
  <2>1. "answer" \in Working
    BY DEF Working
  <2> QED
    BY <1>0, <1>1, <1>t, <2>1, SetEnds DEF v
<1>e. /\ eff' \in [Settings -> BOOLEAN] /\ (won = TRUE => eff'[s0] = mem[s0])
      /\ (won = FALSE => eff' = eff /\ s0 \in failed')
      /\ \A s \in Settings : s # s0 => eff'[s] = eff[s]
      /\ \A s : s # s0 => (s \in failed' <=> s \in failed)
  BY <1>1, <1>n, <1>t DEF SetType
<1>3. SetType'
  BY <1>0, <1>2, <1>t, <1>e DEF SetType
<1>4. SetDown' /\ SetBeat'
  BY <1>0, <1>u DEF SetInv, SetDown, SetBeat
<1>5. SetSaved'
  BY <1>0, <1>e, <1>k DEF SetInv, SetSaved
<1>6. SetOwned' /\ SetAnswered' /\ SetShown'
  BY <1>0, <1>2 DEF SetInv, SetOwned, SetAnswered, SetShown
<1>7. SetFollows'
  <2>1. Compared \subseteq Settings
    BY DEF Settings
  <2> QED
    BY <1>0, <1>u, <1>2, <1>e, <1>n, <2>1 DEF SetInv, SetFollows
<1>8. SetValues'
  BY <1>0, <1>2, <1>n, <1>k, <1>s DEF SetInv, SetValues, v
<1>9. SetAgrees'
  <2> SUFFICES ASSUME NEW s \in Settings \ {"telemetry"}, s \notin messy'
               PROVE  /\ \A d \in Callers : Pending(d, s)' =>
                           IF s \in Early THEN eff'[s] = call'[d].v /\ hb'[s] = call'[d].v
                           ELSE s \in Compared \/ s \notin failed' => hb'[s] = mem'[s]
                      /\ s \notin failed' /\ (\A d \in Callers : ~Pending(d, s)') => eff'[s] = mem'[s] /\ hb'[s] = mem'[s]
    BY <1>0 DEF SetAgrees
  <2>1. /\ \A d \in Callers : Pending(d, s) =>
             IF s \in Early THEN eff[s] = call[d].v /\ hb[s] = call[d].v
             ELSE s \in Compared \/ s \notin failed => hb[s] = mem[s]
        /\ s \notin failed /\ (\A d \in Callers : ~Pending(d, s)) => eff[s] = mem[s] /\ hb[s] = mem[s]
    BY <1>0, <1>u, <1>y DEF SetInv, SetAgrees
  <2>2. \A d \in Callers : d # c => (Pending(d, s)' <=> Pending(d, s))
    BY <1>2 DEF Pending
  <2>4. CASE s # s0
    <3>1. ~Pending(c, s) /\ ~Pending(c, s)'
      BY <1>n, <1>2, <2>4 DEF Pending
    <3>2. hb'[s] = hb[s] /\ eff'[s] = eff[s] /\ mem'[s] = mem[s] /\ (s \in failed' <=> s \in failed)
      BY <1>0, <1>e, <2>4
    <3> QED
      BY <1>2, <2>1, <2>2, <3>1, <3>2
  <2>5. CASE s = s0
    <3>1. \A d \in Callers : ~Pending(d, s)'
      BY <1>s, <1>2, <1>k, <1>0, <2>5 DEF Pending
    <3>2. Pending(c, s)
      BY <1>0, <1>k, <1>n, <2>5 DEF Pending
    <3> QED
      BY <1>0, <1>e, <1>k, <2>1, <2>5, <3>1, <3>2
  <2> QED
    BY <2>4, <2>5
<1> QED
  BY <1>3, <1>4, <1>5, <1>6, <1>7, <1>8, <1>9 DEF SetInv

(* SetEarly: the effect and the report come before the vault. *)
LEMMA SetSetEarly == ASSUME SetInv, NEW c \in Callers, SetEarly(c) PROVE SetInv'
<1> DEFINE s0 == Now(c)
           v == call[c].v
<1>0. call[c].at = "effect" /\ call[c].at \in Working /\ s0 \in Early
      /\ UNCHANGED <<mem, disk, shown, unsaved, failed, messy, beat, quiet, sends, answered, used, up>>
  BY DEF SetEarly, Working
<1>t. SetType /\ CallType /\ SetOwned
  BY DEF SetInv, SetType
<1>u. up
  BY <1>0 DEF SetInv, SetDown
<1>n. On(c, s0) /\ s0 \in Settings /\ v \in BOOLEAN /\ Holds(c, s0) /\ \A s : On(c, s) => s = s0
  BY <1>0, <1>t, SetNow
<1>k. s0 \in Compared => s0 \notin Early /\ s0 \notin {"autostart", "sent", "telemetry"}
  BY DEF Compared, Servers, Early
<1>s. \A d \in Callers : s0 \notin messy /\ On(d, s0) => d = c
  BY <1>t, <1>n, SetSole
<1>y. messy' = messy
  BY <1>0
<1>1. eff' = [eff EXCEPT ![s0] = v] /\ hb' = [hb EXCEPT ![s0] = v] /\ Ends(c, "save", TRUE)
  BY DEF SetEarly, Reported
<1> HIDE DEF s0, v
<1>2. /\ CallType'
      /\ \A d \in Callers : d # c => call'[d] = call[d]
      /\ call'[c].at = "save" /\ call'[c].ok = TRUE /\ call'[c].v = v
      /\ \A d \in Callers : call'[d].todo = call[d].todo /\ call'[d].rpc = call[d].rpc
      /\ \A d \in Callers : \A s : (Holds(d, s)' <=> Holds(d, s)) /\ (On(d, s)' <=> On(d, s))
  <2>1. "save" \in Working
    BY DEF Working
  <2> QED
    BY <1>0, <1>1, <1>t, <2>1, SetEnds DEF v
<1>e. /\ eff' \in [Settings -> BOOLEAN] /\ hb' \in [Settings -> BOOLEAN] /\ eff'[s0] = v /\ hb'[s0] = v
      /\ \A s \in Settings : s # s0 => eff'[s] = eff[s] /\ hb'[s] = hb[s]
  BY <1>1, <1>n, <1>t DEF SetType
<1>3. SetType'
  BY <1>0, <1>2, <1>t, <1>e DEF SetType
<1>4. SetDown' /\ SetSaved' /\ SetBeat'
  BY <1>0, <1>u DEF SetInv, SetDown, SetBeat, SetSaved
<1>6. SetOwned' /\ SetAnswered' /\ SetShown'
  BY <1>0, <1>2 DEF SetInv, SetOwned, SetAnswered, SetShown
<1>7. SetFollows'
  <2>1. Compared \subseteq Settings
    BY DEF Settings
  <2> QED
    BY <1>0, <1>u, <1>2, <1>e, <1>n, <1>k, <2>1 DEF SetInv, SetFollows
<1>8. SetValues'
  BY <1>0, <1>2, <1>n, <1>s DEF SetInv, SetValues, v
<1>9. SetAgrees'
  <2> SUFFICES ASSUME NEW s \in Settings \ {"telemetry"}, s \notin messy'
               PROVE  /\ \A d \in Callers : Pending(d, s)' =>
                           IF s \in Early THEN eff'[s] = call'[d].v /\ hb'[s] = call'[d].v
                           ELSE s \in Compared \/ s \notin failed' => hb'[s] = mem'[s]
                      /\ s \notin failed' /\ (\A d \in Callers : ~Pending(d, s)') => eff'[s] = mem'[s] /\ hb'[s] = mem'[s]
    BY <1>0 DEF SetAgrees
  <2>1. /\ \A d \in Callers : Pending(d, s) =>
             IF s \in Early THEN eff[s] = call[d].v /\ hb[s] = call[d].v
             ELSE s \in Compared \/ s \notin failed => hb[s] = mem[s]
        /\ s \notin failed /\ (\A d \in Callers : ~Pending(d, s)) => eff[s] = mem[s] /\ hb[s] = mem[s]
    BY <1>0, <1>u, <1>y DEF SetInv, SetAgrees
  <2>2. \A d \in Callers : d # c => (Pending(d, s)' <=> Pending(d, s))
    BY <1>2 DEF Pending
  <2>4. CASE s # s0
    <3>1. ~Pending(c, s) /\ ~Pending(c, s)'
      BY <1>n, <1>2, <2>4 DEF Pending
    <3>2. hb'[s] = hb[s] /\ eff'[s] = eff[s] /\ mem'[s] = mem[s] /\ (s \in failed' <=> s \in failed)
      BY <1>0, <1>e, <2>4
    <3> QED
      BY <1>2, <2>1, <2>2, <3>1, <3>2
  <2>5. CASE s = s0
    <3>1. \A d \in Callers : Pending(d, s)' => d = c
      BY <1>s, <1>2, <1>y, <2>5 DEF Pending
    <3>2. Pending(c, s)'
      BY <1>0, <1>n, <1>2, <2>5 DEF Pending
    <3> QED
      BY <1>0, <1>e, <1>2, <2>5, <3>1, <3>2
  <2> QED
    BY <2>4, <2>5
<1> QED
  BY <1>3, <1>4, <1>6, <1>7, <1>8, <1>9 DEF SetInv

(* SetAutostart: the entry has the caller's value, which is in memory if
   nobody else was at it, or the setting is messy. *)
LEMMA SetSetAutostart == ASSUME SetInv, NEW c \in Callers, SetAutostart(c) PROVE SetInv'
<1> DEFINE s0 == Now(c)
           v == call[c].v
<1>0. call[c].at = "effect" /\ call[c].at \in Working /\ s0 = "autostart"
      /\ UNCHANGED <<mem, disk, hb, shown, unsaved, failed, beat, quiet, sends, answered, used, up>>
  BY DEF SetAutostart, Working
<1>t. SetType /\ CallType /\ SetOwned
  BY DEF SetInv, SetType
<1>u. up
  BY <1>0 DEF SetInv, SetDown
<1>n. On(c, s0) /\ s0 \in Settings /\ v \in BOOLEAN /\ Holds(c, s0) /\ \A s : On(c, s) => s = s0
  BY <1>0, <1>t, SetNow
<1>k. s0 \in Compared => s0 \notin Early /\ s0 \notin {"autostart", "sent", "telemetry"}
  BY DEF Compared, Servers, Early
<1>s. \A d \in Callers : s0 \notin messy /\ On(d, s0) => d = c
  BY <1>t, <1>n, SetSole
<1>1. PICK won \in BOOLEAN :
        /\ eff' = (IF won THEN [eff EXCEPT !["autostart"] = v] ELSE eff)
        /\ messy' = (IF won THEN messy ELSE messy \cup {"autostart"})
        /\ Ends(c, "answer", won)
  BY DEF SetAutostart
<1> HIDE DEF s0, v
<1>y. messy \subseteq messy' /\ \A s : s # "autostart" => (s \in messy' <=> s \in messy)
  BY <1>1
<1>2. /\ CallType'
      /\ \A d \in Callers : d # c => call'[d] = call[d]
      /\ call'[c].at = "answer" /\ call'[c].ok = won /\ call'[c].v = v
      /\ \A d \in Callers : call'[d].todo = call[d].todo /\ call'[d].rpc = call[d].rpc
      /\ \A d \in Callers : \A s : (Holds(d, s)' <=> Holds(d, s)) /\ (On(d, s)' <=> On(d, s))
  <2>1. "answer" \in Working
    BY DEF Working
  <2> QED
    BY <1>0, <1>1, <1>t, <2>1, SetEnds DEF v
<1>e. /\ eff' \in [Settings -> BOOLEAN] /\ (won = TRUE => eff'[s0] = v) /\ (won = FALSE => s0 \in messy')
      /\ \A s \in Settings : s # s0 => eff'[s] = eff[s]
  BY <1>0, <1>1, <1>n, <1>t DEF SetType
<1>a. s0 \notin Early /\ s0 \notin Compared
  BY <1>0 DEF Early, Compared, Servers
<1>3. SetType'
  BY <1>0, <1>2, <1>t, <1>e DEF SetType
<1>4. SetDown' /\ SetSaved' /\ SetBeat'
  BY <1>0, <1>u, <1>y DEF SetInv, SetDown, SetBeat, SetSaved
<1>6. SetOwned' /\ SetAnswered' /\ SetShown'
  BY <1>0, <1>2, <1>y DEF SetInv, SetOwned, SetAnswered, SetShown
<1>7. SetFollows'
  <2>1. Compared \subseteq Settings
    BY DEF Settings
  <2> QED
    BY <1>0, <1>u, <1>2, <1>e, <1>n, <1>a, <2>1 DEF SetInv, SetFollows
<1>8. SetValues'
  BY <1>0, <1>2, <1>n, <1>a, <1>s, <1>y DEF SetInv, SetValues, v
<1>9. SetAgrees'
  <2> SUFFICES ASSUME NEW s \in Settings \ {"telemetry"}, s \notin messy'
               PROVE  /\ \A d \in Callers : Pending(d, s)' =>
                           IF s \in Early THEN eff'[s] = call'[d].v /\ hb'[s] = call'[d].v
                           ELSE s \in Compared \/ s \notin failed' => hb'[s] = mem'[s]
                      /\ s \notin failed' /\ (\A d \in Callers : ~Pending(d, s)') => eff'[s] = mem'[s] /\ hb'[s] = mem'[s]
    BY <1>0 DEF SetAgrees
  <2>1. /\ \A d \in Callers : Pending(d, s) =>
             IF s \in Early THEN eff[s] = call[d].v /\ hb[s] = call[d].v
             ELSE s \in Compared \/ s \notin failed => hb[s] = mem[s]
        /\ s \notin failed /\ (\A d \in Callers : ~Pending(d, s)) => eff[s] = mem[s] /\ hb[s] = mem[s]
    BY <1>0, <1>u, <1>y DEF SetInv, SetAgrees
  <2>2. \A d \in Callers : d # c => (Pending(d, s)' <=> Pending(d, s))
    BY <1>2 DEF Pending
  <2>4. CASE s # s0
    <3>1. ~Pending(c, s) /\ ~Pending(c, s)'
      BY <1>n, <1>2, <2>4 DEF Pending
    <3>2. hb'[s] = hb[s] /\ eff'[s] = eff[s] /\ mem'[s] = mem[s] /\ (s \in failed' <=> s \in failed)
      BY <1>0, <1>e, <2>4
    <3> QED
      BY <1>2, <2>1, <2>2, <3>1, <3>2
  <2>5. CASE s = s0
    <3>0. s \notin messy /\ won = TRUE
      BY <1>e, <1>y, <2>5
    <3>1. \A d \in Callers : ~Pending(d, s)'
      BY <1>s, <1>2, <1>a, <2>5, <3>0 DEF Pending
    <3>2. Pending(c, s)
      BY <1>0, <1>a, <1>n, <2>5 DEF Pending
    <3>3. mem[s] = v
      BY <1>0, <1>n, <1>a, <2>5, <3>0 DEF SetInv, SetValues, v
    <3> QED
      BY <1>0, <1>e, <1>a, <2>1, <2>5, <3>0, <3>1, <3>2, <3>3
  <2> QED
    BY <2>4, <2>5
<1> QED
  BY <1>3, <1>4, <1>6, <1>7, <1>8, <1>9 DEF SetInv

(* SetTelemetryDisabled: a task that was stopped sends nothing. *)
LEMMA SetTelemetry == ASSUME SetInv, NEW c \in Callers, SetTelemetryDisabled(c) PROVE SetInv'
<1> DEFINE s0 == Now(c)
           v == call[c].v
<1>0. call[c].at = "effect" /\ call[c].at \in Working /\ s0 = "telemetry"
      /\ UNCHANGED <<mem, disk, hb, shown, unsaved, failed, messy, sends, answered, used, up>>
  BY DEF SetTelemetryDisabled, Working
<1>t. SetType /\ CallType /\ SetOwned
  BY DEF SetInv, SetType
<1>u. up
  BY <1>0 DEF SetInv, SetDown
<1>n. On(c, s0) /\ s0 \in Settings /\ v \in BOOLEAN /\ Holds(c, s0) /\ \A s : On(c, s) => s = s0
  BY <1>0, <1>t, SetNow
<1>k. s0 \in Compared => s0 \notin Early /\ s0 \notin {"autostart", "sent", "telemetry"}
  BY DEF Compared, Servers, Early
<1>s. \A d \in Callers : s0 \notin messy /\ On(d, s0) => d = c
  BY <1>t, <1>n, SetSole
<1>y. messy' = messy
  BY <1>0
<1>1. /\ eff' = [eff EXCEPT !["telemetry"] = v]
      /\ quiet' = (v /\ mem["telemetry"])
      /\ v => beat' = "off" /\ beat \in {"idle", "off"}
      /\ ~v => beat' = IF beat = "off" THEN "idle" ELSE beat
      /\ Ends(c, "answer", TRUE)
  BY DEF SetTelemetryDisabled, StopTask
<1> HIDE DEF s0, v
<1>2. /\ CallType'
      /\ \A d \in Callers : d # c => call'[d] = call[d]
      /\ call'[c].at = "answer" /\ call'[c].ok = TRUE /\ call'[c].v = v
      /\ \A d \in Callers : call'[d].todo = call[d].todo /\ call'[d].rpc = call[d].rpc
      /\ \A d \in Callers : \A s : (Holds(d, s)' <=> Holds(d, s)) /\ (On(d, s)' <=> On(d, s))
  <2>1. "answer" \in Working
    BY DEF Working
  <2> QED
    BY <1>0, <1>1, <1>t, <2>1, SetEnds DEF v
<1>e. /\ eff' \in [Settings -> BOOLEAN]
      /\ \A s \in Settings : s # s0 => eff'[s] = eff[s]
  BY <1>0, <1>1, <1>n, <1>t DEF SetType
<1>a. s0 \notin Early /\ s0 \notin Compared
  BY <1>0 DEF Early, Compared, Servers
<1>b. /\ quiet' \in BOOLEAN /\ beat' \in {"off", "idle", "sending", "sent"}
      /\ quiet' => mem["telemetry"] = TRUE /\ beat' = "off"
      /\ beat' = "sending" => beat = "sending"
      /\ beat = "sent" => beat' = "sent"
  <2>1. "telemetry" \in Settings
    BY DEF Settings
  <2>2. mem["telemetry"] \in BOOLEAN
    BY <1>t, <2>1 DEF SetType
  <2>3. beat \in {"off", "idle", "sending", "sent"}
    BY <1>t DEF SetType
  <2>4. CASE v = TRUE
    BY <1>1, <2>2, <2>4
  <2>5. CASE v = FALSE
    BY <1>1, <2>2, <2>3, <2>5
  <2> QED
    BY <1>n, <2>4, <2>5
<1>3. SetType'
  BY <1>0, <1>2, <1>t, <1>e, <1>b DEF SetType
<1>4. SetDown' /\ SetSaved' /\ SetBeat'
  BY <1>0, <1>u, <1>b DEF SetInv, SetDown, SetBeat, SetSaved
<1>6. SetOwned' /\ SetAnswered' /\ SetShown'
  BY <1>0, <1>2 DEF SetInv, SetOwned, SetAnswered, SetShown
<1>7. SetFollows'
  <2>1. Compared \subseteq Settings
    BY DEF Settings
  <2> QED
    BY <1>0, <1>u, <1>2, <1>e, <1>n, <1>a, <2>1 DEF SetInv, SetFollows
<1>8. SetValues'
  BY <1>0, <1>2, <1>n, <1>a, <1>s DEF SetInv, SetValues, v
<1>9. SetAgrees'
  <2> SUFFICES ASSUME NEW s \in Settings \ {"telemetry"}, s \notin messy'
               PROVE  /\ \A d \in Callers : Pending(d, s)' =>
                           IF s \in Early THEN eff'[s] = call'[d].v /\ hb'[s] = call'[d].v
                           ELSE s \in Compared \/ s \notin failed' => hb'[s] = mem'[s]
                      /\ s \notin failed' /\ (\A d \in Callers : ~Pending(d, s)') => eff'[s] = mem'[s] /\ hb'[s] = mem'[s]
    BY <1>0 DEF SetAgrees
  <2>1. /\ \A d \in Callers : Pending(d, s) =>
             IF s \in Early THEN eff[s] = call[d].v /\ hb[s] = call[d].v
             ELSE s \in Compared \/ s \notin failed => hb[s] = mem[s]
        /\ s \notin failed /\ (\A d \in Callers : ~Pending(d, s)) => eff[s] = mem[s] /\ hb[s] = mem[s]
    BY <1>0, <1>u, <1>y DEF SetInv, SetAgrees
  <2>2. \A d \in Callers : d # c => (Pending(d, s)' <=> Pending(d, s))
    BY <1>2 DEF Pending
  <2>4. CASE s # s0
    <3>1. ~Pending(c, s) /\ ~Pending(c, s)'
      BY <1>n, <1>2, <2>4 DEF Pending
    <3>2. hb'[s] = hb[s] /\ eff'[s] = eff[s] /\ mem'[s] = mem[s] /\ (s \in failed' <=> s \in failed)
      BY <1>0, <1>e, <2>4
    <3> QED
      BY <1>2, <2>1, <2>2, <3>1, <3>2
  <2> QED
    BY <1>0, <2>4
<1> QED
  BY <1>3, <1>4, <1>6, <1>7, <1>8, <1>9 DEF SetInv

(* An idle caller holds nothing. *)
LEMMA SetIdle == WellFormed(Idle) /\ Idle.at = "idle" /\ Idle.todo = <<>> /\ Idle.rpc = "none"
<1>1. Idle.at = "idle" /\ Idle.todo = <<>> /\ Idle.rpc = "none"
  BY DEF Idle
<1>2. Idle \in CallOf
  BY DEF Idle, CallOf, Todos
<1> QED
  BY <1>1, <1>2, SetTodo DEF WellFormed, Working

(* The requests of the GUI are lists that a call can have. *)
LEMMA SetRequests ==
  ASSUME NEW t \in Requests
  PROVE  t \in Todos /\ t # <<>> /\ (Touched(t) \cap Servers # {} => Len(t) > 1)
<1>1. CASE t = <<"imap", "smtp">>
  BY <1>1 DEF Todos
<1>2. ASSUME NEW s \in Settings \ Servers, t = <<s>>
      PROVE  t \in Todos /\ t # <<>> /\ Touched(t) \cap Servers = {}
  BY <1>2, SetTodo DEF Todos
<1> QED
  BY <1>1, <1>2 DEF Requests

(* Neither does a caller that only has to tell the GUI. *)
LEMMA SetAtIdle ==
  ASSUME CallType, NEW c \in Callers, call[c].at \in {"idle", "tell"}
  PROVE  \A s : ~Holds(c, s) /\ ~On(c, s)
<1>1. call[c].todo = <<>>
  BY DEF CallType, WellFormed
<1> QED
  BY <1>1, SetTodo DEF Holds, On

(* Call: a setting that another call touches becomes messy. *)
LEMMA SetCall == ASSUME SetInv, NEW c \in Callers, Call(c) PROVE SetInv'
<1>0. up /\ call[c].at = "idle"
      /\ UNCHANGED <<mem, disk, eff, hb, shown, unsaved, failed, beat, quiet, sends, answered, used, up>>
  BY DEF Call, Busy
<1>t. SetType /\ CallType
  BY DEF SetInv, SetType
<1>1. PICK todo \in used, v \in BOOLEAN :
        /\ call' = [call EXCEPT ![c] = [at |-> "check", todo |-> todo, v |-> v, ok |-> TRUE,
                                        rpc |-> IF Len(todo) > 1 THEN "servers" ELSE "one"]]
        /\ messy' = messy \cup
             {s \in Touched(todo) : \E d \in Callers \ {c} : s \in Touched(call[d].todo)}
             \cup (IF Len(todo) > 1 /\ \E d \in Callers : call[d].rpc = "servers" THEN {"shown"} ELSE {})
  BY DEF Call
<1>q. todo \in Todos /\ todo # <<>> /\ (Touched(todo) \cap Servers # {} => Len(todo) > 1)
  BY <1>t, SetRequests DEF SetType
<1> DEFINE r == [at |-> "check", todo |-> todo, v |-> v, ok |-> TRUE,
                 rpc |-> IF Len(todo) > 1 THEN "servers" ELSE "one"]
<1>r. r \in CallOf /\ r.at = "check" /\ r.todo = todo /\ r.rpc = IF Len(todo) > 1 THEN "servers" ELSE "one"
  BY <1>q DEF CallOf, Working
<1> HIDE DEF r
<1>w. WellFormed(r)
  BY <1>r, <1>q DEF WellFormed, Working
<1>2. call' \in [Callers -> CallOf] /\ call'[c] = r /\ \A d \in Callers : d # c => call'[d] = call[d]
  BY <1>1, <1>r, <1>t DEF CallType, r
<1>3. CallType'
  BY <1>2, <1>w, <1>t DEF CallType
<1>4. /\ \A s : ~Holds(c, s) /\ ~On(c, s) /\ ~Pending(c, s) /\ ~Pending(c, s)'
      /\ \A d \in Callers : \A s : d # c => (Holds(d, s)' <=> Holds(d, s)) /\ (On(d, s)' <=> On(d, s))
                                        /\ (Pending(d, s)' <=> Pending(d, s))
      /\ \A s : Holds(c, s)' <=> s \in Touched(todo)
  <2>1. \A s : ~Holds(c, s) /\ ~On(c, s)
    BY <1>0, <1>t, SetAtIdle
  <2> QED
    BY <1>0, <1>2, <1>r, <2>1 DEF Holds, On, Pending, Now
<1>5. /\ messy \subseteq messy'
      /\ \A s, d : s \in Touched(todo) /\ s \notin messy' /\ d \in Callers /\ d # c => ~Holds(d, s)
      /\ "shown" \notin messy' /\ Len(todo) > 1 => \A d \in Callers : call[d].rpc # "servers"
  BY <1>1 DEF Holds
<1>6. SetType'
  BY <1>0, <1>t, <1>3 DEF SetType
<1>7. SetDown' /\ SetSaved' /\ SetBeat'
  BY <1>0, <1>5 DEF SetInv, SetDown, SetSaved, SetBeat
<1>8. SetOwned'
  BY <1>4, <1>5 DEF SetInv, SetOwned
<1>9. SetFollows'
  BY <1>0, <1>2, <1>4 DEF SetInv, SetFollows
<1>10. SetValues'
  BY <1>0, <1>2, <1>4, <1>5, <1>r DEF SetInv, SetValues
<1>11. SetAnswered'
  BY <1>0, <1>4, <1>5 DEF SetInv, SetAnswered
<1>12. SetAgrees'
  BY <1>0, <1>2, <1>4, <1>5 DEF SetInv, SetAgrees
<1>13. SetShown'
  <2>1. call[c].rpc = "none"
    BY <1>0, <1>t DEF CallType, WellFormed
  <2>2. call'[c].rpc = IF Len(todo) > 1 THEN "servers" ELSE "one"
    BY <1>2, <1>r
  <2> QED
    BY <1>0, <1>2, <1>5, <2>1, <2>2 DEF SetInv, SetShown
<1> QED
  BY <1>6, <1>7, <1>8, <1>9, <1>10, <1>11, <1>12, <1>13 DEF SetInv

(* Answer: with success only if the memory has the value. *)
LEMMA SetAnswer == ASSUME SetInv, NEW c \in Callers, Answer(c) PROVE SetInv'
<1> DEFINE s0 == Now(c)
           v == call[c].v
           t == call[c].todo
<1>0. call[c].at = "answer" /\ call[c].at \in Working
      /\ answered' = [answered EXCEPT ![s0] = IF call[c].ok THEN {v} ELSE {}]
      /\ call' = (IF Len(t) > 1 THEN [call EXCEPT ![c].todo = Tail(@), ![c].at = "check"] ELSE AfterLast(c))
      /\ UNCHANGED <<mem, disk, eff, hb, shown, unsaved, failed, messy, beat, quiet, sends, used, up>>
  BY DEF Answer, Working
<1>t. SetType /\ CallType /\ SetOwned /\ call \in [Callers -> CallOf] /\ WellFormed(call[c]) /\ call[c] \in CallOf
  BY DEF SetInv, SetType, CallType
<1>u. up
  BY <1>0 DEF SetInv, SetDown
<1>n. /\ On(c, s0) /\ s0 \in Settings /\ v \in BOOLEAN /\ Holds(c, s0) /\ \A s : On(c, s) => s = s0
      /\ t \in Todos /\ t # <<>> /\ s0 = Head(t) /\ call[c].ok \in BOOLEAN
  BY <1>0, <1>t, SetNow DEF CallOf, Now
<1> HIDE DEF s0, v
<1>1. PICK r : /\ WellFormed(r) /\ call' = [call EXCEPT ![c] = r]
               /\ r.at \in {"check", "tell", "idle"}
               /\ \A s : s \in Touched(r.todo) <=> Holds(c, s) /\ s # s0
               /\ r.rpc = "servers" <=> call[c].rpc = "servers"
  <2>1. CASE Len(t) > 1
    <3> DEFINE r == [call[c] EXCEPT !.todo = Tail(t), !.at = "check"]
    <3>1. call' = [call EXCEPT ![c] = r]
      BY <1>0, <1>t, <2>1 DEF CallOf
    <3>2. Tail(t) \in Todos /\ Tail(t) # <<>> /\ Touched(t) = {s0} \cup Touched(Tail(t)) /\ s0 \notin Touched(Tail(t))
      BY <1>n, <2>1, SetTodos
    <3>3. r \in CallOf /\ r.at = "check" /\ r.todo = Tail(t) /\ r.rpc = call[c].rpc
      BY <1>t, <3>2 DEF CallOf, Working
    <3> HIDE DEF r
    <3>4. WellFormed(r)
      BY <1>t, <3>2, <3>3 DEF WellFormed, Working
    <3> QED
      BY <3>1, <3>2, <3>3, <3>4 DEF Holds
  <2>2. CASE ~(Len(t) > 1) /\ call[c].rpc = "servers"
    <3> DEFINE r == [call[c] EXCEPT !.at = "tell", !.todo = <<>>]
    <3>1. call' = [call EXCEPT ![c] = r]
      BY <1>0, <1>t, <2>2 DEF CallOf, AfterLast
    <3>2. r \in CallOf /\ r.at = "tell" /\ r.todo = <<>> /\ r.rpc = "servers"
      BY <1>t, <2>2 DEF CallOf, Todos
    <3> HIDE DEF r
    <3>3. WellFormed(r)
      BY <3>2, SetTodo DEF WellFormed, Working
    <3>4. Touched(t) = {s0} /\ Touched(<<>>) = {}
      BY <1>n, <2>2, SetTodos, SetTodo
    <3> QED
      BY <2>2, <3>1, <3>2, <3>3, <3>4 DEF Holds
  <2>3. CASE ~(Len(t) > 1) /\ call[c].rpc # "servers"
    <3>1. call' = [call EXCEPT ![c] = Idle]
      BY <1>0, <2>3 DEF AfterLast
    <3>2. Touched(t) = {s0} /\ Touched(<<>>) = {}
      BY <1>n, <2>3, SetTodos, SetTodo
    <3> QED
      BY <2>3, <3>1, <3>2, SetIdle DEF Holds
  <2> QED
    BY <2>1, <2>2, <2>3
<1>2. call' \in [Callers -> CallOf] /\ call'[c] = r /\ \A d \in Callers : d # c => call'[d] = call[d]
  BY <1>1, <1>t DEF WellFormed
<1>3. CallType'
  BY <1>1, <1>2, <1>t DEF CallType
<1>4. /\ \A s : ~Pending(c, s)' /\ ~Pending(c, s)
      /\ \A d \in Callers : \A s : d # c => (Holds(d, s)' <=> Holds(d, s)) /\ (On(d, s)' <=> On(d, s))
                                        /\ (Pending(d, s)' <=> Pending(d, s))
      /\ \A s : Holds(c, s)' <=> Holds(c, s) /\ s # s0
  BY <1>0, <1>1, <1>2 DEF Holds, On, Pending, Now
<1>a. /\ answered' \in [Settings -> SUBSET BOOLEAN]
      /\ \A s \in Settings : s # s0 => answered'[s] = answered[s]
      /\ answered'[s0] = IF call[c].ok THEN {v} ELSE {}
  <2>1. (IF call[c].ok THEN {v} ELSE {}) \in SUBSET BOOLEAN
    BY <1>n
  <2>2. answered \in [Settings -> SUBSET BOOLEAN]
    BY <1>t DEF SetType
  <2> QED
    BY <1>0, <1>n, <2>1, <2>2
<1>6. SetType'
  BY <1>0, <1>t, <1>3, <1>a DEF SetType
<1>7. SetDown' /\ SetSaved' /\ SetBeat'
  BY <1>0, <1>u DEF SetInv, SetDown, SetSaved, SetBeat
<1>8. SetOwned'
  BY <1>0, <1>4 DEF SetInv, SetOwned
<1>9. SetFollows'
  BY <1>0, <1>u, <1>2, <1>4 DEF SetInv, SetFollows
<1>10. SetValues'
  BY <1>0, <1>1, <1>2, <1>4 DEF SetInv, SetValues
<1>11. SetAnswered'
  <2> SUFFICES ASSUME NEW s \in Settings, s \notin messy, \A d \in Callers : ~Holds(d, s)'
               PROVE  answered'[s] = {} \/ mem[s] \in answered'[s]
    BY <1>0 DEF SetAnswered
  <2>1. CASE s = s0
    <3>1. call[c].ok = TRUE => mem[s] = v
      BY <1>0, <1>n, <2>1 DEF SetInv, SetValues, v
    <3> QED
      BY <1>a, <1>n, <2>1, <3>1
  <2>2. CASE s # s0
    <3>1. \A d \in Callers : ~Holds(d, s)
      BY <1>4, <2>2
    <3> QED
      BY <1>0, <1>u, <1>a, <2>2, <3>1 DEF SetInv, SetAnswered
  <2> QED
    BY <2>1, <2>2
<1>12. SetAgrees'
  BY <1>0, <1>u, <1>2, <1>4 DEF SetInv, SetAgrees
<1>13. SetShown'
  BY <1>0, <1>u, <1>1, <1>2 DEF SetInv, SetShown
<1> QED
  BY <1>6, <1>7, <1>8, <1>9, <1>10, <1>11, <1>12, <1>13 DEF SetInv

(* getMailServerSettings: the GUI sees the memory. *)
LEMMA SetTell == ASSUME SetInv, NEW c \in Callers, getMailServerSettings(c) PROVE SetInv'
<1>0. call[c].at = "tell" /\ shown' = [s \in Servers |-> mem[s]] /\ call' = [call EXCEPT ![c] = Idle]
      /\ UNCHANGED <<mem, disk, eff, hb, unsaved, failed, beat, quiet, sends, answered, used, up>>
      /\ messy \subseteq messy'
  BY DEF getMailServerSettings
<1>m. \A s \in Settings \cup {"sent", "autostart"} : s \in messy' <=> s \in messy
  BY DEF getMailServerSettings, Settings, Compared, Servers, Early
<1>t. SetType /\ CallType /\ call \in [Callers -> CallOf]
  BY DEF SetInv, SetType, CallType
<1>u. up
  BY <1>0 DEF SetInv, SetDown
<1>2. call' \in [Callers -> CallOf] /\ call'[c] = Idle /\ \A d \in Callers : d # c => call'[d] = call[d]
  BY <1>0, <1>t, SetIdle DEF WellFormed
<1>3. CallType'
  BY <1>2, <1>t, SetIdle DEF CallType
<1>4. /\ \A s : ~Holds(c, s) /\ ~Holds(c, s)' /\ ~On(c, s) /\ ~On(c, s)' /\ ~Pending(c, s) /\ ~Pending(c, s)'
      /\ \A d \in Callers : \A s : (Holds(d, s)' <=> Holds(d, s)) /\ (On(d, s)' <=> On(d, s))
                                        /\ (Pending(d, s)' <=> Pending(d, s))
  <2>1. \A s : ~Holds(c, s) /\ ~On(c, s)
    BY <1>0, <1>t, SetAtIdle
  <2>2. \A s : ~Holds(c, s)' /\ ~On(c, s)'
    BY <1>2, SetIdle, SetTodo DEF Holds, On
  <2> QED
    BY <1>2, <2>1, <2>2 DEF Holds, On, Pending, Now
<1>6. SetType'
  BY <1>0, <1>t, <1>3 DEF SetType
<1>7. SetDown' /\ SetSaved' /\ SetBeat'
  BY <1>0, <1>u, <1>m DEF SetInv, SetDown, SetSaved, SetBeat
<1>8. SetOwned' /\ SetAnswered'
  BY <1>0, <1>4 DEF SetInv, SetOwned, SetAnswered
<1>9. SetFollows'
  BY <1>0, <1>u, <1>2, <1>4 DEF SetInv, SetFollows
<1>10. SetValues'
  BY <1>0, <1>2, <1>4 DEF SetInv, SetValues
<1>12. SetAgrees'
  BY <1>0, <1>u, <1>2, <1>4 DEF SetInv, SetAgrees
<1>13. SetShown'
  <2>1. call'[c].rpc # "servers"
    BY <1>2, SetIdle
  <2> QED
    BY <1>0, <1>u, <1>2, <2>1 DEF SetInv, SetShown
<1> QED
  BY <1>6, <1>7, <1>8, <1>9, <1>10, <1>12, <1>13 DEF SetInv

(* TrySending: a heartbeat goes only with telemetry on and none sent today. *)
LEMMA SetTrySending == ASSUME SetInv, TrySending PROVE SetInv'
<1>0. up /\ UNCHANGED <<eff, hb, call, shown, quiet, answered, used, up, messy>>
  BY DEF TrySending
<1>t. SetType
  BY DEF SetInv
<1>k. "sent" \notin Settings /\ "telemetry" \in Settings /\ Servers \subseteq Settings
      /\ Compared \subseteq Settings /\ "autostart" \in Settings
  BY DEF Settings, Compared, Servers, Early
<1>1. /\ mem' \in [Settings \cup {"sent"} -> BOOLEAN] /\ disk' \in [Settings \cup {"sent"} -> BOOLEAN]
      /\ \A s \in Settings : mem'[s] = mem[s]
      /\ SetSaved'
      /\ \A s : s # "sent" => (s \in failed' <=> s \in failed)
      /\ sends' \in Nat /\ beat' \in {"off", "idle", "sending", "sent"}
      /\ SetBeat'
  <2>1. CASE /\ beat = "idle" /\ IsTelemetryAvailable /\ Due /\ beat' = "sending"
             /\ UNCHANGED <<mem, disk, unsaved, failed, sends>>
    <3>1. mem["telemetry"] = FALSE /\ mem["sent"] = FALSE
      BY <1>t, <1>k, <2>1 DEF IsTelemetryAvailable, Due, SetType
    <3>2. SetSaved'
      BY <2>1 DEF SetInv, SetSaved
    <3> QED
      BY <1>0, <1>t, <2>1, <3>1, <3>2 DEF SetInv, SetBeat, SetType
  <2>2. CASE beat = "sending" /\ beat' = "idle" /\ UNCHANGED <<mem, disk, unsaved, failed, sends>>
    <3>2. SetSaved'
      BY <2>2 DEF SetInv, SetSaved
    <3> QED
      BY <1>0, <1>t, <2>2, <3>2 DEF SetInv, SetBeat, SetType
  <2>3. CASE beat = "sending" /\ beat' = "sent" /\ sends' = sends + 1 /\ UNCHANGED <<mem, disk, unsaved, failed>>
    <3>2. SetSaved'
      BY <2>3 DEF SetInv, SetSaved
    <3>3. "sent" \notin messy => sends' = 1
      BY <1>0, <2>3 DEF SetInv, SetBeat
    <3> QED
      BY <1>0, <1>t, <2>3, <3>2, <3>3 DEF SetInv, SetBeat, SetType
  <2>4. ASSUME NEW saved \in BOOLEAN, beat = "sent", beat' = "idle", modUnsafe("sent", TRUE, saved), sends' = sends
        PROVE  /\ mem' \in [Settings \cup {"sent"} -> BOOLEAN] /\ disk' \in [Settings \cup {"sent"} -> BOOLEAN]
               /\ \A s \in Settings : mem'[s] = mem[s]
               /\ SetSaved'
               /\ \A s : s # "sent" => (s \in failed' <=> s \in failed)
               /\ sends' \in Nat /\ beat' \in {"off", "idle", "sending", "sent"}
               /\ SetBeat'
    <3>1. /\ mem' \in [Settings \cup {"sent"} -> BOOLEAN] /\ disk' \in [Settings \cup {"sent"} -> BOOLEAN]
          /\ mem'["sent"] = TRUE /\ \A s \in Settings : mem'[s] = mem[s]
          /\ disk' = IF saved THEN mem' ELSE disk
          /\ unsaved' = IF saved THEN {} ELSE unsaved \cup {"sent"}
          /\ failed' = IF saved THEN failed \ {"sent"} ELSE failed \cup {"sent"}
      BY <2>4, <1>t, <1>k DEF modUnsafe, SetType
    <3>2. SetSaved'
      BY <1>k, <3>1 DEF SetInv, SetSaved
    <3>3. SetBeat'
      BY <1>0, <1>k, <2>4, <3>1 DEF SetInv, SetBeat
    <3> QED
      BY <1>t, <2>4, <3>1, <3>2, <3>3 DEF SetType
  <2> QED
    BY <2>1, <2>2, <2>3, <2>4 DEF TrySending
<1>2. SetType'
  BY <1>0, <1>1, <1>t DEF SetType, CallType
<1>3. SetDown' /\ SetOwned'
  BY <1>0 DEF SetInv, SetDown, SetOwned, Holds
<1>4. \A c \in Callers : \A s : (Holds(c, s)' <=> Holds(c, s)) /\ (On(c, s)' <=> On(c, s)) /\ (Pending(c, s)' <=> Pending(c, s))
  BY <1>0 DEF Holds, On, Pending, Now
<1>5. SetFollows'
  BY <1>0, <1>1, <1>4, <1>k DEF SetInv, SetFollows
<1>6. SetValues' /\ SetAnswered'
  BY <1>0, <1>1, <1>4 DEF SetInv, SetValues, SetAnswered
<1>7. SetAgrees'
  BY <1>0, <1>1, <1>4, <1>k DEF SetInv, SetAgrees
<1>8. SetShown'
  BY <1>0, <1>1, <1>k DEF SetInv, SetShown
<1> QED
  BY <1>1, <1>2, <1>3, <1>5, <1>6, <1>7, <1>8 DEF SetInv

(* Stop: what was underway, had failed or was not saved is messy. *)
LEMMA SetStop == ASSUME SetInv, Stop PROVE SetInv'
<1>0. up /\ up' = FALSE /\ beat' = "off" /\ quiet' = FALSE /\ call' = [c \in Callers |-> Idle]
      /\ UNCHANGED <<mem, disk, eff, hb, shown, unsaved, failed, sends, answered, used>>
  BY DEF Stop
<1>m. /\ messy \subseteq messy' /\ failed \subseteq messy' /\ (beat = "sent" => "sent" \in messy')
      /\ \A c \in Callers : \A s : Holds(c, s) => s \in messy'
  <2>1. \A c \in Callers : \A s : Holds(c, s) => s \in Underway
    BY SetTodos DEF SetInv, SetType, CallType, CallOf, Holds, Underway
  <2> QED
    BY <2>1 DEF Stop
<1>t. SetType /\ CallType
  BY DEF SetInv, SetType
<1>2. CallType' /\ \A c \in Callers : call'[c].at = "idle" /\ \A s : ~Holds(c, s)' /\ ~On(c, s)' /\ ~Pending(c, s)'
  BY <1>0, SetIdle, SetTodo DEF CallType, WellFormed, Holds, On, Pending
<1>3. SetType'
  BY <1>0, <1>2, <1>t DEF SetType
<1>4. SetDown'
  <2> SUFFICES ASSUME "autostart" \notin messy' PROVE eff["autostart"] = disk["autostart"]
    BY <1>0, <1>2 DEF SetDown
  <2>1. "autostart" \in Settings \ {"telemetry"} /\ "autostart" \notin Early
    BY DEF Settings, Early
  <2>2. "autostart" \notin messy /\ "autostart" \notin failed
    BY <1>m
  <2>3. \A c \in Callers : ~Pending(c, "autostart")
    <3> SUFFICES ASSUME NEW c \in Callers, Pending(c, "autostart") PROVE FALSE
      OBVIOUS
    <3>1. call[c].at \in Working /\ Now(c) = "autostart"
      BY DEF Pending, On, Working
    <3> QED
      BY <1>t, <1>m, <3>1, SetNow
  <2>4. eff["autostart"] = mem["autostart"]
    BY <1>0, <2>1, <2>2, <2>3 DEF SetInv, SetAgrees
  <2>5. mem["autostart"] = disk["autostart"]
    BY <2>2 DEF SetInv, SetSaved
  <2> QED
    BY <2>4, <2>5
<1>5. SetSaved'
  BY <1>0 DEF SetInv, SetSaved
<1>6. SetOwned' /\ SetFollows' /\ SetValues' /\ SetAnswered' /\ SetAgrees' /\ SetShown'
  BY <1>0, <1>2 DEF SetOwned, SetFollows, SetValues, SetAnswered, SetAgrees, SetShown
<1>7. SetBeat'
  BY <1>0, <1>m DEF SetInv, SetBeat, SetSaved
<1> QED
  BY <1>3, <1>4, <1>5, <1>6, <1>7 DEF SetInv

(* Start: memory, servers, report and GUI are those of the file. *)
LEMMA SetStart == ASSUME SetInv, Start PROVE SetInv'
<1>0. ~up /\ up' = TRUE /\ mem' = disk /\ unsaved' = {} /\ failed' = {}
      /\ hb' = [s \in Settings |-> disk[s]] /\ shown' = [s \in Servers |-> disk[s]]
      /\ beat' = AtStart /\ answered' = [s \in Settings |-> {}]
      /\ UNCHANGED <<disk, call, quiet, sends, used>>
  BY DEF Start
<1>t. SetType /\ CallType
  BY DEF SetInv, SetType
<1>k. "autostart" \in Settings /\ Servers \subseteq Settings /\ Compared \subseteq Settings
      /\ "autostart" \notin Compared
  BY DEF Settings, Compared, Servers, Early
<1>d. disk["autostart"] \in BOOLEAN /\ eff["autostart"] \in BOOLEAN
  BY <1>t, <1>k DEF SetType
<1>1. PICK a \in initAutostart(eff["autostart"]) :
        /\ eff' = [s \in Settings |-> IF s = "autostart" THEN a ELSE disk[s]]
        /\ messy' = (messy \cap {"sent"}) \cup (IF a # disk["autostart"] THEN {"autostart"} ELSE {})
  BY DEF Start
<1>2. a \in BOOLEAN /\ ("autostart" \notin messy' => a = disk["autostart"])
  BY <1>1, <1>d DEF initAutostart
<1>3. eff' \in [Settings -> BOOLEAN] /\ hb' \in [Settings -> BOOLEAN] /\ answered' \in [Settings -> SUBSET BOOLEAN]
  BY <1>0, <1>1, <1>2, <1>t DEF SetType
<1>4. \A c \in Callers : call[c].at = "idle" /\ \A s : ~Holds(c, s)' /\ ~On(c, s)' /\ ~Pending(c, s)'
  <2>1. \A c \in Callers : call[c].at = "idle"
    BY <1>0 DEF SetInv, SetDown
  <2>2. \A c \in Callers : \A s : ~Holds(c, s) /\ ~On(c, s)
    BY <1>t, <2>1, SetAtIdle
  <2> QED
    BY <1>0, <2>1, <2>2 DEF Holds, On, Pending, Now
<1>5. beat' \in {"off", "idle"}
  BY <1>0 DEF AtStart
<1>6. SetType'
  BY <1>0, <1>1, <1>3, <1>5, <1>t, <1>k DEF SetType, CallType
<1>7. SetDown' /\ SetSaved'
  BY <1>0 DEF SetDown, SetSaved
<1>8. SetOwned' /\ SetValues' /\ SetAnswered'
  BY <1>0, <1>4 DEF SetOwned, SetValues, SetAnswered
<1>9. SetFollows'
  BY <1>0, <1>1, <1>k DEF SetFollows
<1>10. SetAgrees'
  <2>1. \A s \in Settings : s \notin messy' => eff'[s] = mem'[s] /\ hb'[s] = mem'[s]
    BY <1>0, <1>1, <1>2
  <2> QED
    BY <1>4, <2>1 DEF SetAgrees
<1>11. SetBeat'
  BY <1>0, <1>1, <1>5 DEF SetInv, SetDown, SetBeat
<1>12. SetShown'
  <2>1. \A c \in Callers : call[c].rpc = "none"
    BY <1>4, <1>t DEF CallType, WellFormed
  <2> QED
    BY <1>0, <2>1 DEF SetShown
<1> QED
  BY <1>6, <1>7, <1>8, <1>9, <1>10, <1>11, <1>12 DEF SetInv

(* At first all agree. *)
LEMMA SetInit == SettingsInit => SetInv
<1> SUFFICES ASSUME SettingsInit PROVE SetInv
  OBVIOUS
<1>0. /\ used \subseteq Requests
      /\ disk = [s \in Settings \cup {"sent"} |-> s \in {"update", "autostart", "allmail"}]
      /\ mem = disk /\ eff = [s \in Settings |-> disk[s]] /\ hb = eff
      /\ shown = [s \in Servers |-> disk[s]] /\ call = [c \in Callers |-> Idle]
      /\ quiet = FALSE /\ sends = 0 /\ up = TRUE
      /\ answered = [s \in Settings |-> {}] /\ beat = AtStart
  BY DEF SettingsInit
<1>k. Servers \subseteq Settings /\ Compared \subseteq Settings
  BY DEF Settings, Compared
<1>1. disk \in [Settings \cup {"sent"} -> BOOLEAN]
  BY <1>0
<1>2. CallType /\ \A c \in Callers : call[c].at = "idle" /\ call[c].rpc = "none" /\ \A s : ~Holds(c, s) /\ ~On(c, s) /\ ~Pending(c, s)
  BY <1>0, SetIdle, SetTodo DEF CallType, WellFormed, Holds, On, Pending
<1>3. \A s \in Settings : eff[s] = mem[s] /\ hb[s] = mem[s]
  BY <1>0
<1>b. beat \in {"off", "idle"}
  BY <1>0 DEF AtStart
<1>4. SetType
  <2>1. eff \in [Settings -> BOOLEAN] /\ answered \in [Settings -> SUBSET BOOLEAN]
    BY <1>0, <1>1
  <2>2. quiet \in BOOLEAN /\ up \in BOOLEAN
    BY <1>0
  <2>3. sends \in Nat /\ used \subseteq Requests /\ mem = disk /\ hb = eff
    BY <1>0
  <2> QED
    BY <1>1, <1>2, <1>b, <2>1, <2>2, <2>3 DEF SetType
<1>5. SetDown /\ SetSaved /\ SetFollows
  BY <1>0, <1>3, <1>k DEF SetDown, SetSaved, SetFollows
<1>6. SetOwned /\ SetValues /\ SetAgrees
  BY <1>2, <1>3 DEF SetOwned, SetValues, SetAgrees
<1>7. SetAnswered
  BY <1>0 DEF SetAnswered
<1>8. SetBeat
  BY <1>0, <1>b DEF SetBeat
<1>9. SetShown
  BY <1>0, <1>2 DEF SetShown
<1> QED
  BY <1>4, <1>5, <1>6, <1>7, <1>8, <1>9 DEF SetInv

(* A step of no variable. *)
LEMMA SetStutters == ASSUME SetInv, UNCHANGED settingsVars PROVE SetInv'
<1> USE DEF settingsVars
<1>1. SetType' /\ SetDown' /\ SetSaved' /\ SetBeat' /\ SetShown'
  BY DEF SetInv, SetType, CallType, SetDown, SetSaved, SetBeat, SetShown
<1>2. SetOwned' /\ SetFollows' /\ SetValues' /\ SetAnswered' /\ SetAgrees'
  BY DEF SetInv, SetOwned, SetFollows, SetValues, SetAnswered, SetAgrees, Holds, On, Pending, Now
<1> QED
  BY <1>1, <1>2 DEF SetInv

(* Every step keeps the invariant. *)
LEMMA SetStep == SetInv /\ [SettingsNext]_settingsVars => SetInv'
<1> SUFFICES ASSUME SetInv, [SettingsNext]_settingsVars PROVE SetInv'
  OBVIOUS
<1>1. ASSUME NEW c \in Callers,
             Call(c) \/ Check(c) \/ Save(c) \/ Restart(c) \/ SetEarly(c) \/ SetAutostart(c)
             \/ SetTelemetryDisabled(c) \/ Answer(c) \/ getMailServerSettings(c)
      PROVE  SetInv'
  BY <1>1, SetCall, SetCheck, SetSave, SetRestart, SetSetEarly, SetSetAutostart, SetTelemetry, SetAnswer, SetTell
<1> QED
  BY <1>1, SetTrySending, SetStop, SetStart, SetStutters DEF SettingsNext

(* For any number of concurrent callers, calls and restarts: what was answered
   is in the file, at rest the servers, the system, the heartbeat and the GUI
   agree with the vault in memory, telemetry that is off is silent, and a day
   has one heartbeat, with the exceptions that the parts of the property name. *)
THEOREM SettingsAreEffective == SettingsSpec => []SettingsTakeEffect
<1> USE DEF SetInv
<1>n. ASSUME SetInv, NEW s \in Settings, AtRest(s)
      PROVE  up /\ \A c \in Callers : ~Holds(c, s) /\ ~Pending(c, s) /\ ~(On(c, s) /\ call[c].at \in Working)
  <2>1. up /\ \A c \in Callers : ~Holds(c, s)
    BY <1>n DEF AtRest, Holds
  <2>2. CallType
    BY <1>n DEF SetType
  <2>3. \A c \in Callers : ~(On(c, s) /\ call[c].at \in Working)
    BY <2>1, <2>2, SetNow
  <2> QED
    BY <2>1, <2>3 DEF Pending, Working
<1>k. Compared \subseteq Settings /\ Servers \subseteq Settings
  BY DEF Settings, Compared
<1>1. SetInv => ServersFollow
  BY <1>n, <1>k DEF ServersFollow, SetFollows, Working
<1>2. SetInv => AnsweredIsSaved
  BY <1>n DEF AnsweredIsSaved, SetAnswered, SetSaved
<1>3. SetInv => Agree
  BY <1>n DEF Agree, SetAgrees
<1>4. SetInv => QuietWhenDisabled /\ OneBeat
  BY DEF QuietWhenDisabled, OneBeat, SetBeat
<1>5. SetInv => ShownIsVault
  BY DEF ShownIsVault, SetShown
<1> HIDE DEF SetInv
<1>6. SetInv => SettingsTakeEffect
  BY <1>1, <1>2, <1>3, <1>4, <1>5 DEF SettingsTakeEffect
<1> QED
  BY <1>6, SetInit, SetStep, PTL DEF SettingsSpec

-----------------------------------------------------------------------------
(* Instances. *)
(* Where a process may be. *)
Places == {"none", "lock", "ask", "kill", "retake", "raise", "starting", "up", "quitting", "ended", "killed", "crashed"}
Seeking == {"none", "lock", "ask", "kill"}

(* Who is past the lock, and who will do nothing more. *)
Past(p) == pc[p] \in {"starting", "up", "quitting"}
Gone(p) == pc[p] \in {"ended", "killed", "crashed"}
Seeks(p) == pc[p] \in {"none", "lock", "ask", "kill", "retake", "raise"}

(* The type of the state. *)
InstType ==
  /\ pc \in [Procs -> Places]
  /\ lock \in Procs \cup {None} /\ pid \in Procs \cup {None} /\ config \in Procs \cup {None}
  /\ panics \in [Procs -> Nat] /\ asked \in [Procs -> Procs \cup {None}]
  /\ restart \in [Procs -> {"none", "started", "failed"}]
  /\ killed \subseteq Procs \X Procs

(* Who is past the lock has it, and whoever has it, or is not gone, is the one
   whose id the file holds. *)
LockHeld ==
  /\ \A p \in Procs : Past(p) <=> lock = p
  /\ lock # None => pid = lock
  /\ pid # None => Past(pid) \/ Gone(pid)
  /\ config # None => pid # None

(* The one that answered was older, and is past the lock or gone. *)
AskedOlder ==
  \A p \in Procs :
    pc[p] = "kill" => /\ asked[p] \in Procs /\ I!LessThan(asked[p], p) /\ pid # None
                      /\ Past(asked[p]) \/ Gone(asked[p])

(* Who killed has asked before and asks no more. *)
KilledOlder ==
  \A e \in killed :
    /\ pc[e[1]] \notin Seeking
    /\ I!LessThan(e[2], e[1]) \/ (e[2] # asked[e[1]] /\ asked[e[1]] \in Procs /\ Gone(asked[e[1]]))

(* Only who served has panicked, and only who ended after one panic was restarted. *)
PanicsCounted ==
  \A p \in Procs :
    /\ Seeks(p) \/ pc[p] = "starting" => panics[p] = 0
    /\ pc[p] = "ended" /\ panics[p] > 0 => p \in Spent \/ restart[p] \in {"started", "failed"}
    /\ restart[p] # "none" => pc[p] = "ended" /\ panics[p] = 1
    /\ pc[p] \in {"up", "quitting"} => panics[p] <= 1
    /\ pc[p] = "crashed" => panics[p] = 2
InstInv == InstType /\ LockHeld /\ AskedOlder /\ KilledOlder /\ PanicsCounted

(* What a step does to the process p that takes it, when nobody else moves: p
   goes on to a place. *)
LEMMA InstGoes ==
  ASSUME InstInv, NEW p \in Procs, NEW to, I!Goes(p, to),
         to \in Places
  PROVE  /\ pc' \in [Procs -> Places]
         /\ pc'[p] = to /\ \A q \in Procs : q # p => pc'[q] = pc[q]
BY DEF I!Goes, InstInv, InstType

(* A step of one process that neither takes nor gives the lock, asks, kills or
   panics, and does not come back. *)
LEMMA InstMoves ==
  ASSUME None \notin Procs, InstInv, NEW p \in Procs, NEW to, I!Goes(p, to),
         to \in {"lock", "ask", "raise", "up", "quitting", "ended"},
         UNCHANGED <<lock, pid, panics, restart, killed, asked>>,
         config' = config \/ (config' = p /\ to = "up"),
         to \in {"lock", "ask", "raise", "ended"} => Seeks(p),
         to \in {"lock", "ask"} => pc[p] \in {"none", "lock", "ask", "kill"} /\ pc[p] # "kill",
         to \in {"up", "quitting"} => Past(p),
         to \in {"up"} => pc[p] = "starting"
  PROVE  InstInv'
<1>1. /\ pc' \in [Procs -> Places]
      /\ pc'[p] = to /\ \A q \in Procs : q # p => pc'[q] = pc[q]
  BY InstGoes DEF Places
<1>2. InstType'
  BY <1>1 DEF InstInv, InstType
<1>3. /\ \A q \in Procs : (Past(q)' <=> Past(q)) /\ (Gone(q) => Gone(q)')
      /\ \A q \in Procs : pc'[q] = "kill" => pc[q] = "kill"
  BY <1>1 DEF Past, Gone, Seeks
<1>4. LockHeld'
  <2>1. Past(p) => pid = p
    BY DEF InstInv, LockHeld
  <2> QED  BY <1>1, <1>3, <2>1 DEF InstInv, InstType, LockHeld, Past
<1>5. AskedOlder'
  BY <1>3 DEF InstInv, InstType, AskedOlder, I!LessThan, I!Version
<1>6. KilledOlder'
  <2>1. \A e \in killed : e[1] \in Procs
    BY DEF InstInv, InstType
  <2>2. \A q \in Procs : pc[q] \notin Seeking => pc'[q] \notin Seeking
    BY <1>1 DEF Seeking
  <2> QED  BY <1>3, <2>1, <2>2 DEF InstInv, InstType, KilledOlder, I!LessThan, I!Version
<1>7. PanicsCounted'
  BY <1>1 DEF InstInv, InstType, PanicsCounted, Seeks, Past
<1> QED  BY <1>2, <1>4, <1>5, <1>6, <1>7 DEF InstInv

(* The lock is taken by one who seeks it. *)
LEMMA InstTakes ==
  ASSUME None \notin Procs, InstInv, NEW p \in Procs, I!CreateLockFile(p, "starting"), pc[p] \in {"lock", "retake"},
         UNCHANGED <<config, panics, restart, killed, asked>>
  PROVE  InstInv'
<1> USE DEF I!CreateLockFile
<1>1. /\ pc' \in [Procs -> Places]
      /\ pc'[p] = "starting" /\ \A q \in Procs : q # p => pc'[q] = pc[q]
  BY InstGoes DEF Places
<1>2. InstType'
  BY <1>1 DEF InstInv, InstType
<1>3. /\ \A q \in Procs : q # p => (Past(q)' <=> Past(q)) /\ (Gone(q)' <=> Gone(q))
      /\ \A q \in Procs : (Past(q) => Past(q)') /\ (Gone(q) => Gone(q)')
      /\ \A q \in Procs : pc'[q] = "kill" => pc[q] = "kill"
      /\ Past(p)'
  BY <1>1 DEF Past, Gone
<1>4. LockHeld'
  BY <1>3 DEF InstInv, InstType, LockHeld
<1>5. AskedOlder'
  BY <1>3 DEF InstInv, InstType, AskedOlder, I!LessThan, I!Version
<1>6. KilledOlder'
  <2>1. \A e \in killed : e[1] \in Procs
    BY DEF InstInv, InstType
  <2>2. \A q \in Procs : pc[q] \notin Seeking => pc'[q] \notin Seeking
    BY <1>1 DEF Seeking
  <2> QED  BY <1>3, <2>1, <2>2 DEF InstInv, InstType, KilledOlder, I!LessThan, I!Version
<1>7. PanicsCounted'
  BY <1>1 DEF InstInv, InstType, PanicsCounted, Seeks
<1> QED  BY <1>2, <1>4, <1>5, <1>6, <1>7 DEF InstInv

(* Who asks and is answered by an older one goes on to kill. *)
LEMMA InstAsks ==
  ASSUME None \notin Procs, InstInv, NEW p \in Procs, I!TryVersion(p), I!Listening /\ I!LessThan(config, p)
  PROVE  InstInv'
<1>1. /\ pc' \in [Procs -> Places]
      /\ pc'[p] = "kill" /\ \A q \in Procs : q # p => pc'[q] = pc[q]
      /\ pc[p] = "ask"
  BY InstGoes DEF I!TryVersion, Places
<1>2. /\ asked' = [asked EXCEPT ![p] = config] /\ UNCHANGED <<lock, pid, config, panics, restart, killed>>
      /\ config \in Procs /\ Past(config)
  BY DEF I!TryVersion, I!Listening, I!Serves, Past, InstInv, InstType
<1>3. InstType'
  BY <1>1, <1>2 DEF InstInv, InstType
<1>4. \A q \in Procs : (Past(q)' <=> Past(q)) /\ (Gone(q)' <=> Gone(q))
  BY <1>1 DEF Past, Gone
<1>5. LockHeld'
  BY <1>2, <1>4 DEF InstInv, InstType, LockHeld
<1>6. AskedOlder'
  <2>1. asked'[p] = config /\ \A q \in Procs : q # p => asked'[q] = asked[q]
    BY <1>2 DEF InstInv, InstType
  <2>2. pid # None
    BY <1>2 DEF InstInv, LockHeld
  <2> QED  BY <1>1, <1>2, <1>4, <2>1, <2>2 DEF InstInv, InstType, AskedOlder, I!LessThan, I!Version
<1>7. KilledOlder'
  <2>1. \A e \in killed : e[1] \in Procs /\ e[1] # p
    BY <1>1 DEF InstInv, InstType, KilledOlder, Seeking
  <2>2. \A e \in killed : asked'[e[1]] = asked[e[1]] /\ pc'[e[1]] = pc[e[1]]
    BY <1>1, <1>2, <2>1 DEF InstInv, InstType
  <2> QED  BY <1>2, <1>4, <2>2 DEF InstInv, InstType, KilledOlder, I!LessThan, I!Version
<1>8. PanicsCounted'
  BY <1>1, <1>2 DEF InstInv, InstType, PanicsCounted, Seeks
<1> QED  BY <1>3, <1>5, <1>6, <1>7, <1>8 DEF InstInv

(* Who kills the one in the file kills the one that answered, or that one is
   gone. *)
LEMMA InstKills ==
  ASSUME None \notin Procs, InstInv, NEW p \in Procs, I!killPID(p), ~I!Dead(pid)
  PROVE  InstInv'
<1>1. pc[p] = "kill" /\ pid \in Procs /\ Past(pid) /\ pid # p /\ lock = pid
  BY DEF I!killPID, I!Dead, Past, Gone, InstInv, InstType, LockHeld, AskedOlder
<1>2. /\ pc' = [pc EXCEPT ![pid] = "killed", ![p] = "retake"] /\ lock' = None
      /\ killed' = killed \cup {<<p, pid>>} /\ UNCHANGED <<pid, config, panics, restart, asked>>
  BY <1>1 DEF I!killPID, I!Releases
<1>3. /\ pc'[p] = "retake" /\ pc'[pid] = "killed" /\ \A q \in Procs : q # p /\ q # pid => pc'[q] = pc[q]
      /\ pc' \in [Procs -> Places]
  BY <1>1, <1>2 DEF InstInv, InstType, Places
<1>4. InstType'
  BY <1>1, <1>2, <1>3 DEF InstInv, InstType
<1>5. /\ \A q \in Procs : ~Past(q)' /\ (Gone(q) => Gone(q)') /\ (Past(q) => q = pid)
      /\ Gone(pid)'
  BY <1>1, <1>2, <1>3 DEF Past, Gone, InstInv, LockHeld
<1>6. LockHeld'
  BY <1>1, <1>2, <1>5 DEF LockHeld
<1>7. AskedOlder'
  <2>1. \A q \in Procs : pc'[q] = "kill" => pc[q] = "kill"
    BY <1>3
  <2> QED  BY <1>1, <1>2, <1>5, <2>1 DEF InstInv, InstType, AskedOlder, I!LessThan, I!Version
<1>8. KilledOlder'
  <2>1. \A e \in killed : e[1] \in Procs
    BY DEF InstInv, InstType
  <2>2. \A q \in Procs : pc[q] \notin Seeking => pc'[q] \notin Seeking
    BY <1>1, <1>3 DEF Seeking
  <2>3. \A e \in killed : /\ pc'[e[1]] \notin Seeking
                          /\ I!LessThan(e[2], e[1])
                             \/ (e[2] # asked[e[1]] /\ asked[e[1]] \in Procs /\ Gone(asked[e[1]])')
    BY <1>2, <1>5, <2>1, <2>2 DEF InstInv, KilledOlder, Gone
  <2>4. asked[p] \in Procs /\ I!LessThan(asked[p], p) /\ (Past(asked[p]) \/ Gone(asked[p]))
    BY <1>1 DEF InstInv, AskedOlder
  <2>5. I!LessThan(pid, p) \/ (pid # asked[p] /\ Gone(asked[p])')
    BY <1>2, <1>5, <2>4 DEF Gone
  <2>6. \A e \in killed' : e \in killed \/ (e[1] = p /\ e[2] = pid)
    BY <1>2
  <2>7. ASSUME NEW e \in killed'
        PROVE  /\ pc'[e[1]] \notin Seeking
               /\ I!LessThan(e[2], e[1])
                  \/ (e[2] # asked'[e[1]] /\ asked'[e[1]] \in Procs /\ Gone(asked[e[1]])')
    <3>1. CASE e \in killed
      BY <1>2, <2>3, <3>1
    <3>2. CASE e[1] = p /\ e[2] = pid
      BY <1>2, <1>3, <2>4, <2>5, <3>2 DEF Seeking
    <3> QED  BY <2>6, <3>1, <3>2
  <2> QED  BY <2>7 DEF KilledOlder, I!LessThan, I!Version
<1>9. PanicsCounted'
  <2>1. restart[pid] = "none" /\ restart[p] = "none" /\ panics[p] = 0
    BY <1>1 DEF InstInv, PanicsCounted, Past, Seeks
  <2>2. ASSUME NEW q \in Procs
        PROVE  /\ Seeks(q)' \/ pc'[q] = "starting" => panics'[q] = 0
               /\ pc'[q] = "ended" /\ panics'[q] > 0 => q \in Spent \/ restart'[q] \in {"started", "failed"}
               /\ restart'[q] # "none" => pc'[q] = "ended" /\ panics'[q] = 1
               /\ pc'[q] \in {"up", "quitting"} => panics'[q] <= 1
               /\ pc'[q] = "crashed" => panics'[q] = 2
    <3>1. CASE q = p \/ q = pid
      BY <1>1, <1>2, <1>3, <2>1, <3>1 DEF Seeks
    <3>2. CASE q # p /\ q # pid
      BY <1>2, <1>3, <3>2 DEF InstInv, PanicsCounted, Seeks
    <3> QED  BY <3>1, <3>2
  <2> QED  BY <2>2 DEF PanicsCounted
<1> QED  BY <1>4, <1>6, <1>7, <1>8, <1>9 DEF InstInv

(* The end of a process that has the lock: it is released. *)
LEMMA InstEnds ==
  ASSUME None \notin Procs, InstInv, NEW p \in Procs, NEW to \in {"ended", "crashed"}, I!Goes(p, to), I!Releases(p),
         Past(p), UNCHANGED <<pid, config, killed, asked>>, panics' \in [Procs -> Nat],
         restart' \in [Procs -> {"none", "started", "failed"}],
         \A q \in Procs : q # p => panics'[q] = panics[q] /\ restart'[q] = restart[q],
         to = "ended" => (panics'[p] > 0 => p \in Spent \/ restart'[p] \in {"started", "failed"}),
         restart'[p] # "none" => to = "ended" /\ panics'[p] = 1,
         to = "crashed" => panics'[p] = 2
  PROVE  InstInv'
<1>1. /\ pc' \in [Procs -> Places]
      /\ pc'[p] = to /\ \A q \in Procs : q # p => pc'[q] = pc[q]
  BY InstGoes DEF Places
<1>2. lock = p /\ lock' = None /\ pid = p
  BY DEF InstInv, LockHeld, I!Releases
<1>3. InstType'
  BY <1>1, <1>2 DEF InstInv, InstType
<1>4. \A q \in Procs : ~Past(q)' /\ (Gone(q) => Gone(q)') /\ (Past(q) => q = p /\ Gone(q)')
  BY <1>1, <1>2 DEF Past, Gone, InstInv, LockHeld
<1>5. LockHeld'
  BY <1>2, <1>4 DEF InstInv, LockHeld
<1>6. AskedOlder'
  <2>1. \A q \in Procs : pc'[q] = "kill" => pc[q] = "kill"
    BY <1>1
  <2> QED  BY <1>2, <1>4, <2>1 DEF InstInv, InstType, AskedOlder, I!LessThan, I!Version
<1>7. KilledOlder'
  <2>1. \A e \in killed : e[1] \in Procs
    BY DEF InstInv, InstType
  <2>2. \A q \in Procs : pc[q] \notin Seeking => pc'[q] \notin Seeking
    BY <1>1 DEF Seeking
  <2> QED  BY <1>4, <2>1, <2>2 DEF InstInv, InstType, KilledOlder, I!LessThan, I!Version
<1>8. PanicsCounted'
  <2>1. ASSUME NEW q \in Procs
        PROVE  /\ Seeks(q)' \/ pc'[q] = "starting" => panics'[q] = 0
               /\ pc'[q] = "ended" /\ panics'[q] > 0 => q \in Spent \/ restart'[q] \in {"started", "failed"}
               /\ restart'[q] # "none" => pc'[q] = "ended" /\ panics'[q] = 1
               /\ pc'[q] \in {"up", "quitting"} => panics'[q] <= 1
               /\ pc'[q] = "crashed" => panics'[q] = 2
    <3>1. CASE q = p
      BY <1>1, <3>1 DEF Seeks
    <3>2. CASE q # p
      BY <1>1, <3>2 DEF InstInv, PanicsCounted, Seeks
    <3> QED  BY <3>1, <3>2
  <2> QED  BY <2>1 DEF PanicsCounted
<1> QED  BY <1>3, <1>5, <1>6, <1>7, <1>8 DEF InstInv

(* The first panic of a process: it is about to quit. *)
LEMMA InstPanics ==
  ASSUME None \notin Procs, InstInv, NEW p \in Procs, I!HandlePanic(p)
  PROVE  InstInv'
<1>1. Past(p) /\ pc[p] \in {"up", "quitting"} /\ panics[p] \in Nat /\ panics[p] < 2
      /\ panics' = [panics EXCEPT ![p] = @ + 1]
      /\ UNCHANGED <<pid, config, restart, killed, asked>>
  BY DEF I!HandlePanic, I!Serves, Past, InstInv, InstType
<1>2. /\ panics' \in [Procs -> Nat] /\ panics'[p] = panics[p] + 1
      /\ \A q \in Procs : q # p => panics'[q] = panics[q]
  BY <1>1 DEF InstInv, InstType
<1>3. CASE I!SecondPanic(p)
  <2>1. I!Goes(p, "crashed") /\ I!Releases(p) /\ panics'[p] = 2
    BY <1>1, <1>2, <1>3 DEF I!HandlePanic, I!SecondPanic
  <2>2. restart' \in [Procs -> {"none", "started", "failed"}] /\ restart'[p] = "none"
        /\ \A q \in Procs : q # p => restart'[q] = restart[q]
    BY <1>1 DEF InstInv, InstType, PanicsCounted
  <2> QED  BY <1>1, <1>2, <2>1, <2>2, InstEnds
<1>4. CASE ~I!SecondPanic(p)
  <2>1. I!Goes(p, "quitting") /\ lock' = lock
    BY <1>4 DEF I!HandlePanic
  <2>2. /\ pc' \in [Procs -> Places]
        /\ pc'[p] = "quitting" /\ \A q \in Procs : q # p => pc'[q] = pc[q]
    BY <2>1, InstGoes DEF Places
  <2>3. InstType'
    BY <1>1, <1>2, <2>1, <2>2 DEF InstInv, InstType
  <2>4. \A q \in Procs : /\ (Past(q)' <=> Past(q)) /\ (Gone(q)' <=> Gone(q))
                         /\ pc'[q] = "kill" => pc[q] = "kill"
    BY <1>1, <2>2 DEF Past, Gone
  <2>5. LockHeld'
    BY <1>1, <2>1, <2>4 DEF InstInv, InstType, LockHeld
  <2>6. AskedOlder'
    BY <1>1, <2>1, <2>4 DEF InstInv, InstType, AskedOlder, I!LessThan, I!Version
  <2>7. KilledOlder'
    <3>1. \A e \in killed : e[1] \in Procs
      BY DEF InstInv, InstType
    <3>2. \A q \in Procs : pc[q] \notin Seeking => pc'[q] \notin Seeking
      BY <2>2 DEF Seeking
    <3> QED  BY <1>1, <2>4, <3>1, <3>2 DEF InstInv, InstType, KilledOlder, I!LessThan, I!Version
  <2>8. PanicsCounted'
    <3>1. panics[p] = 0 /\ restart[p] = "none"
      BY <1>1, <1>4 DEF I!SecondPanic, InstInv, PanicsCounted
    <3> QED  BY <1>1, <1>2, <2>2, <3>1 DEF InstInv, InstType, PanicsCounted, Seeks
  <2> QED  BY <2>3, <2>5, <2>6, <2>7, <2>8 DEF InstInv
<1> QED  BY <1>3, <1>4

(* Each step of a process is one of these. *)
LEMMA InstNext ==
  ASSUME None \notin Procs, InstInv, [I!Next]_(I!vars)
  PROVE  InstInv'
<1>1. ASSUME NEW p \in Procs, I!Run(p)
      PROVE  InstInv'
  BY <1>1, InstMoves DEF I!Run, Seeks
<1>2. ASSUME NEW p \in Procs, I!checkSingleInstance(p)
      PROVE  InstInv'
  <2>1. CASE I!CreateLockFile(p, "starting")
    BY <1>2, <2>1, InstTakes DEF I!checkSingleInstance
  <2>2. CASE lock # None /\ I!Goes(p, "ask") /\ UNCHANGED <<lock, pid>>
    BY <1>2, <2>2, InstMoves DEF I!checkSingleInstance, Seeks
  <2> QED  BY <1>2, <2>1, <2>2 DEF I!checkSingleInstance
<1>3. ASSUME NEW p \in Procs, I!TryVersion(p)
      PROVE  InstInv'
  <2>1. CASE I!Listening /\ I!LessThan(config, p)
    BY <1>3, <2>1, InstAsks
  <2>2. CASE ~(I!Listening /\ I!LessThan(config, p))
    BY <1>3, <2>2, InstMoves DEF I!TryVersion, Seeks
  <2> QED  BY <2>1, <2>2
<1>4. ASSUME NEW p \in Procs, I!killPID(p)
      PROVE  InstInv'
  <2>1. CASE I!Dead(pid)
    BY <1>4, <2>1, InstMoves DEF I!killPID, Seeks
  <2>2. CASE ~I!Dead(pid)
    BY <1>4, <2>2, InstKills
  <2> QED  BY <2>1, <2>2
<1>5. ASSUME NEW p \in Procs, I!Retake(p)
      PROVE  InstInv'
  <2>1. CASE I!CreateLockFile(p, "starting")
    BY <1>5, <2>1, InstTakes DEF I!Retake
  <2>2. CASE lock # None /\ I!Goes(p, "raise") /\ UNCHANGED <<lock, pid>>
    BY <1>5, <2>2, InstMoves DEF I!Retake, Seeks
  <2> QED  BY <1>5, <2>1, <2>2 DEF I!Retake
<1>6. ASSUME NEW p \in Procs, I!NewService(p)
      PROVE  InstInv'
  BY <1>6, InstMoves DEF I!NewService, Past
<1>7. ASSUME NEW p \in Procs, I!TryRaise(p)
      PROVE  InstInv'
  BY <1>7, InstMoves DEF I!TryRaise, Seeks
<1>8. ASSUME UNCHANGED <<pc, lock, pid, config, panics, restart, killed, asked>>
      PROVE  InstInv'
  BY <1>8 DEF InstInv, InstType, LockHeld, AskedOlder, KilledOlder, PanicsCounted, Past, Gone, Seeks,
     I!LessThan, I!Version
<1>9. ASSUME NEW p \in Procs, I!Raised(p)
      PROVE  InstInv'
  BY <1>8, <1>9 DEF I!Raised
<1>10. ASSUME NEW p \in Procs, I!HandlePanic(p)
       PROVE  InstInv'
  BY <1>10, InstPanics
<1>11. ASSUME NEW p \in Procs, I!Quit(p)
       PROVE  InstInv'
  BY <1>11, InstMoves DEF I!Quit, Past
<1>12. ASSUME NEW p \in Procs, I!End(p)
       PROVE  InstInv'
  <2>1. panics' \in [Procs -> Nat] /\ panics'[p] = panics[p] /\ restart[p] = "none" /\ panics[p] <= 1
    BY <1>12 DEF I!End, InstInv, InstType, PanicsCounted
  <2>2. \/ restart' = restart /\ ~I!Restarts(p)
        \/ I!Restarts(p) /\ \E how \in {"started", "failed"} : restart' = [restart EXCEPT ![p] = how]
    BY <1>12 DEF I!End, I!Restart
  <2>3. /\ \A q \in Procs : q # p => panics'[q] = panics[q] /\ restart'[q] = restart[q]
        /\ restart' \in [Procs -> {"none", "started", "failed"}]
        /\ panics'[p] > 0 => p \in Spent \/ restart'[p] \in {"started", "failed"}
        /\ restart'[p] # "none" => panics'[p] = 1
    BY <1>12, <2>1, <2>2 DEF I!End, I!Restarts, InstInv, InstType
  <2> QED  BY <1>12, <2>1, <2>3, InstEnds DEF I!End, Past
<1>13. CASE UNCHANGED I!vars
  BY <1>8, <1>13 DEF I!vars
<1> QED
  BY <1>1, <1>2, <1>3, <1>4, <1>5, <1>6, <1>7, <1>9, <1>10, <1>11, <1>12, <1>13 DEF I!Next, I!Step

(* Of any number of processes that start, kill one another, crash and quit in
   any order, one is past the lock; one that is killed was older, or took the lock
   of the older one that had answered; and a panic that was handled brings a
   successor (withSingleInstance, checkSingleInstance, withCrashHandler). *)
THEOREM OneIsPastTheLock ==
  ASSUME None \notin Procs
  PROVE  I!Spec => [](I!OneInstance /\ I!KillsOlder /\ I!CrashRestarts)
<1>1. I!Init => InstInv
  BY DEF I!Init, InstInv, InstType, LockHeld, AskedOlder, KilledOlder, PanicsCounted, Past, Gone, Seeks, Places, Seeking
<1>2. InstInv /\ [I!Next]_(I!vars) => InstInv'
  BY InstNext
<1>3. InstInv => I!OneInstance /\ I!KillsOlder /\ I!CrashRestarts
  <2> SUFFICES ASSUME InstInv
               PROVE  I!OneInstance /\ I!KillsOlder /\ I!CrashRestarts
    OBVIOUS
  <2>1. I!OneInstance
    BY DEF I!OneInstance, InstInv, LockHeld, Past
  <2>2. I!KillsOlder
    BY DEF I!KillsOlder, InstInv, InstType, KilledOlder, I!LessThan, I!Dead, Gone
  <2>3. I!CrashRestarts
    BY DEF I!CrashRestarts, InstInv, PanicsCounted
  <2> QED  BY <2>1, <2>2, <2>3
<1> QED  BY <1>1, <1>2, <1>3, PTL DEF I!Spec

-----------------------------------------------------------------------------
(* Startup. *)
Vaults == [key : Nat, accounts : SUBSET (Accounts \cup OldAccounts), migrated : BOOLEAN]
Opened == pc \in {"remember", "reset", "orphans", "migrate", "running"}

(* The type of the state. *)
StartType ==
  /\ pc \in {"off", "load", "open", "remember", "reset", "orphans", "migrate", "running"}
  /\ usable \subseteq Helpers /\ default = U!Default(usable)
  /\ item \in [Helpers -> Nat] /\ key \in Nat /\ keys \in Nat
  /\ pref \in Helpers \cup {None, Torn} /\ count \in Nat \cup {Torn} /\ exits \in Nat
  /\ vault \in Vaults \cup {U!Absent, U!TornVault} /\ insecure \in Vaults \cup {U!Absent, U!TornVault}

(* A start that has a key has it from a key chain, and the vault that it
   opened has this key. *)
StartHolds ==
  /\ pc \in {"off", "load"} => key = 0
  /\ key # 0 => helper \in Helpers /\ item[helper] = key
  /\ Opened => U!Mine \in Vaults /\ U!Mine.key = key
  /\ insecure.key = 0
  /\ vault.accounts # {} => vault.key # 0

(* A start was given up only when the count on the disk went up. *)
StartCounted ==
  /\ count # Torn => exits <= count /\ count <= 2
  /\ exits <= 2
  /\ Opened => exits = 0

(* Unless something came between: the vault with accounts has the key that is
   in the preferred key chain, the program that runs took its key from there,
   and so does the next one, until its tries are over. *)
StartKept ==
  /\ ~excuse /\ ~unsaved /\ vault.accounts # {} => pref \in Helpers /\ item[pref] = vault.key
  /\ Opened /\ pc # "remember" /\ key # 0 /\ ~excuse /\ ~unsaved => pref = helper
  /\ pc = "open" /\ key # 0 =>
       count \in Nat /\ (count < 2 /\ flags.retry /\ pref \in Helpers => helper = pref)
StartInv == StartType /\ StartHolds /\ StartCounted /\ StartKept /\ U!MigratedOrFailed

(* No vault, half of one and a new one have no accounts and are not migrated. *)
LEMMA NoAccounts ==
  /\ U!Absent.accounts = {} /\ U!Absent.key = 0 /\ U!Absent.migrated = FALSE
  /\ U!TornVault.accounts = {} /\ U!TornVault.key = 0 /\ U!TornVault.migrated = FALSE
  /\ \A k \in Nat : /\ U!NewVault(k) \in Vaults /\ U!NewVault(k).key = k
                    /\ U!NewVault(k).accounts = {} /\ U!NewVault(k).migrated = FALSE
BY DEF U!Absent, U!TornVault, U!NewVault, Vaults

(* The key chain that a start finds is one of the machine. *)
LEMMA KeychainFound ==
  ASSUME StartType, usable # {}
  PROVE  U!NewKeychain \in usable /\ (pref \in usable => U!NewKeychain = pref)
BY DEF StartType, U!NewKeychain, U!Default

(* At first the program is off, without a vault. *)
LEMMA StartInit ==
  ASSUME U!Init
  PROVE  StartInv
<1>1. StartType
  BY DEF U!Init, StartType
<1>2. StartHolds /\ StartCounted /\ StartKept /\ U!MigratedOrFailed
  BY NoAccounts DEF U!Init, StartHolds, StartCounted, StartKept, U!MigratedOrFailed, Opened
<1> QED  BY <1>1, <1>2 DEF StartInv

(* The process ends, and leaves the vault as it is or half of one. *)
LEMMA StartEnds ==
  ASSUME StartInv, U!Ends,
         UNCHANGED <<item, usable, default, keys, vault, insecure, failed>>,
         pref' \in Helpers \cup {None, Torn}, count' \in Nat \cup {Torn}, exits' \in Nat,
         count' # Torn => exits' <= count' /\ count' <= 2,
         exits' <= 2,
         excuse => excuse', pref' # pref => excuse', unsaved' = unsaved
  PROVE  StartInv'
<1>1. pc' = "off" /\ key' = 0
  BY DEF U!Ends
<1>2. StartType'
  BY <1>1 DEF StartInv, StartType, U!Default
<1>3. StartHolds' /\ StartCounted'
  BY <1>1 DEF StartInv, StartHolds, StartCounted, Opened
<1>4. StartKept'
  BY <1>1 DEF StartInv, StartKept, Opened
<1>5. U!MigratedOrFailed'
  BY DEF StartInv, U!MigratedOrFailed
<1> QED  BY <1>2, <1>3, <1>4, <1>5 DEF StartInv

(* A start begins. *)
LEMMA StartStarts ==
  ASSUME StartInv, U!Start
  PROVE  StartInv'
<1> USE DEF U!Start, U!disk, U!chain
<1>1. StartType'
  BY DEF StartInv, StartType, U!Default
<1>2. StartHolds' /\ StartCounted' /\ StartKept' /\ U!MigratedOrFailed'
  BY DEF StartInv, StartHolds, StartCounted, StartKept, U!MigratedOrFailed, Opened
<1> QED  BY <1>1, <1>2 DEF StartInv

(* The key chain cannot be used: the start goes on without a key, or is given
   up and counted. *)
LEMMA StartFails ==
  ASSUME Torn \notin Nat, StartInv, U!LoadFails
  PROVE  StartInv'
<1> USE DEF U!LoadFails, U!chain, U!bounds
<1>1. CASE U!Insecure
  <2> USE DEF U!Insecure, U!local
  <2>1. StartType'
    BY <1>1 DEF StartInv, StartType, U!Default
  <2>2. StartHolds' /\ StartCounted' /\ U!MigratedOrFailed'
    BY <1>1 DEF StartInv, StartHolds, StartCounted, U!MigratedOrFailed, Opened
  <2>3. StartKept'
    BY <1>1 DEF StartInv, StartKept, StartHolds, Opened
  <2> QED  BY <2>1, <2>2, <2>3 DEF StartInv
<1>2. CASE U!Readable /\ U!IncrementKeychainFailedAttemptCount /\ \E g : U!MayRetry(g)
  <2>1. count \in Nat /\ count < 2 /\ exits \in Nat /\ exits <= count
    BY <1>2 DEF U!Readable, U!MayRetry, U!MaxFailedKeychainAttemptsLinux, StartInv, StartType, StartCounted
  <2>2. count' \in Nat /\ count' <= 2 /\ exits' \in Nat /\ exits' <= count' /\ U!Ends
    BY <1>2, <2>1 DEF U!IncrementKeychainFailedAttemptCount
  <2>3. pref' \in Helpers \cup {None, Torn}
    BY DEF StartInv, StartType
  <2> QED  BY <2>2, <2>3, StartEnds
<1>3. U!Insecure \/ (U!Readable /\ U!IncrementKeychainFailedAttemptCount /\ \E g : U!MayRetry(g))
  BY DEF U!RefusesOther
<1> QED  BY <1>1, <1>2, <1>3

(* The key is read from the key chain, or made, or the start goes on without. *)
LEMMA StartLoads ==
  ASSUME Torn \notin Nat, None \notin Helpers, StartInv, U!Loads
  PROVE  StartInv'
<1> DEFINE kc == U!NewKeychain
<1>1. /\ pc = "load" /\ U!Readable /\ usable # {} /\ ~U!RefusesOther
      /\ UNCHANGED <<pref, count, vault, insecure, usable, default, exits, excuse, unsaved, failed>>
  BY DEF U!Loads, U!disk
<1>2. kc \in usable /\ kc \in Helpers /\ (pref \in usable => kc = pref)
  BY <1>1, KeychainFound DEF StartInv, StartType
<1>3. count \in Nat /\ count' \in Nat /\ key = 0
  BY <1>1 DEF StartInv, StartType, StartHolds, U!Readable
<1>4. pref \in Helpers /\ flags.retry /\ count < 2 => pref = kc
  BY <1>1, <1>2 DEF U!RefusesOther, U!MayRetry, U!ShouldRetryPreferredKeychain, U!MaxFailedKeychainAttemptsLinux
<1> HIDE DEF kc
<1>5. U!MigratedOrFailed'
  BY <1>1 DEF StartInv, U!MigratedOrFailed
<1>6. CASE U!Get(kc) # 0 /\ pc' = "open" /\ helper' = kc /\ key' = U!Get(kc) /\ UNCHANGED <<item, keys, flags, corrupt>>
  <2>1. StartType'
    BY <1>1, <1>2, <1>6 DEF StartInv, StartType, U!Get, U!Default
  <2>2. StartHolds' /\ StartCounted'
    BY <1>1, <1>2, <1>6 DEF StartInv, StartType, StartHolds, StartCounted, Opened, U!Get
  <2>3. StartKept'
    BY <1>1, <1>2, <1>3, <1>4, <1>6 DEF StartInv, StartKept, Opened
  <2> QED  BY <1>5, <2>1, <2>2, <2>3 DEF StartInv
<1>7. CASE U!Get(kc) = 0 /\ keys' = keys + 1 /\ U!NewVaultKey(kc) /\ pc' = "open" /\ helper' = kc /\ key' = keys + 1
           /\ UNCHANGED <<flags, corrupt>>
  <2>1. keys \in Nat /\ item' = [item EXCEPT ![kc] = keys + 1] /\ item \in [Helpers -> Nat]
    BY <1>7 DEF StartInv, StartType, U!NewVaultKey
  <2>2. item' \in [Helpers -> Nat] /\ item'[kc] = keys + 1 /\ \A g \in Helpers : g # kc => item'[g] = item[g]
    BY <1>2, <2>1
  <2>3. StartType'
    BY <1>1, <1>7, <2>1, <2>2 DEF StartInv, StartType, U!Default
  <2>4. StartHolds' /\ StartCounted'
    BY <1>1, <1>2, <1>7, <2>2 DEF StartInv, StartHolds, StartCounted, Opened
  <2>5. ~excuse /\ ~unsaved /\ vault.accounts # {} => pref # kc
    BY <1>7 DEF StartInv, StartHolds, StartKept, U!Get
  <2>6. StartKept'
    BY <1>1, <1>3, <1>4, <1>7, <2>2, <2>5 DEF StartInv, StartKept, Opened
  <2> QED  BY <1>5, <2>3, <2>4, <2>6 DEF StartInv
<1>8. CASE U!Insecure /\ UNCHANGED <<item, keys>>
  <2> USE DEF U!Insecure, U!local
  <2>1. StartType'
    BY <1>1, <1>8 DEF StartInv, StartType, U!Default
  <2>2. StartHolds' /\ StartCounted'
    BY <1>1, <1>8 DEF StartInv, StartHolds, StartCounted, Opened
  <2>3. StartKept'
    BY <1>1, <1>3, <1>8 DEF StartInv, StartKept, Opened
  <2> QED  BY <1>5, <2>1, <2>2, <2>3 DEF StartInv
<1> QED  BY <1>6, <1>7, <1>8 DEF U!Loads, kc

(* A vault that has accounts and the key of the start is opened. *)
LEMMA OpensMine ==
  ASSUME StartInv
  PROVE  /\ insecure.accounts # {} => U!Opens(insecure, 0)
         /\ vault.accounts # {} /\ vault.key = key => U!Opens(vault, key)
BY NoAccounts DEF StartInv, StartHolds, U!Opens, U!Exists

(* The vault is opened, or a new one is made for the key: not over accounts
   unless something came between them and their key. *)
LEMMA StartOpens ==
  ASSUME StartInv, U!NewOpens
  PROVE  StartInv'
<1>1. /\ pc = "open" /\ pc' = "remember" /\ exits' = 0
      /\ UNCHANGED <<pref, count, usable, default, item, helper, key, flags, keys, excuse, unsaved, failed>>
      /\ U!Secure' = U!Secure
  BY DEF U!NewOpens, U!chain, U!bounds, U!Secure
<1>2. CASE U!Opens(U!Mine, key) /\ UNCHANGED <<vault, insecure>>
  <2>1. U!Mine \in Vaults /\ U!Mine.key = key
    BY <1>2 DEF U!Opens, U!Exists, U!Mine, StartInv, StartType
  <2>2. StartType'
    BY <1>1, <1>2 DEF StartInv, StartType, U!Default
  <2>3. StartHolds' /\ StartCounted' /\ StartKept' /\ U!MigratedOrFailed'
    BY <1>1, <1>2, <2>1
       DEF StartInv, StartType, StartHolds, StartCounted, StartKept, U!MigratedOrFailed, Opened, U!Mine, U!Secure
  <2> QED  BY <2>2, <2>3 DEF StartInv
<1>3. CASE U!initVault
  <2>1. key \in Nat /\ U!Store(U!NewVault(key))
    BY <1>3 DEF U!initVault, StartInv, StartType
  <2>2. U!Secure => vault' = U!NewVault(key) /\ insecure' = insecure
    BY <2>1 DEF U!Store
  <2>3. ~U!Secure => insecure' = U!NewVault(0) /\ vault' = vault /\ key = 0
    BY <2>1 DEF U!Store, U!Secure
  <2>4. StartType'
    BY <1>1, <2>1, <2>2, <2>3, NoAccounts DEF StartInv, StartType, U!Default
  <2>5. StartHolds'
    BY <1>1, <2>1, <2>2, <2>3, NoAccounts DEF StartInv, StartHolds, Opened, U!Mine, U!Secure
  <2>6. StartCounted' /\ StartKept' /\ U!MigratedOrFailed'
    BY <1>1, <2>1, <2>2, <2>3, NoAccounts
       DEF StartInv, StartType, StartCounted, StartKept, U!MigratedOrFailed, Opened
  <2> QED  BY <2>4, <2>5, <2>6 DEF StartInv
<1> QED  BY <1>2, <1>3 DEF U!NewOpens

(* The key chain that served is remembered. *)
LEMMA StartRemembers ==
  ASSUME StartInv, U!Remember
  PROVE  StartInv'
<1>1. /\ pc = "remember" /\ pc' = "reset" /\ (pref' = pref \/ pref' = U!SetHelper)
      /\ unsaved' = (IF U!Secure THEN pref' # helper ELSE unsaved)
      /\ excuse' = (IF U!Secure THEN FALSE ELSE excuse)
      /\ UNCHANGED <<count, vault, insecure, usable, default, item, helper, key, flags, keys, exits, failed>>
  BY DEF U!Remember, U!chain, U!local, U!bounds
<1>2. ~U!Secure => pref' = pref
  BY <1>1 DEF U!SetHelper
<1>3. pref' \in Helpers \cup {None, Torn}
  BY <1>1 DEF U!SetHelper, StartInv, StartType, StartHolds, U!Secure
<1>4. StartType'
  BY <1>1, <1>3 DEF StartInv, StartType, U!Default
<1>5. StartHolds' /\ StartCounted' /\ U!MigratedOrFailed'
  BY <1>1 DEF StartInv, StartHolds, StartCounted, U!MigratedOrFailed, Opened, U!Mine, U!Secure
<1>6. StartKept'
  <2>1. CASE U!Secure
    <3>1. key # 0 /\ helper \in Helpers /\ item[helper] = key /\ vault.key = key
      BY <1>1, <2>1 DEF StartInv, StartHolds, Opened, U!Mine, U!Secure
    <3> QED  BY <1>1, <2>1, <3>1 DEF StartKept, Opened
  <2>2. CASE ~U!Secure
    BY <1>1, <1>2, <2>2 DEF StartInv, StartKept, Opened, U!Secure
  <2> QED  BY <2>1, <2>2
<1> QED  BY <1>4, <1>5, <1>6 DEF StartInv

(* The count of given-up starts is reset. *)
LEMMA StartResets ==
  ASSUME StartInv, U!ResetFailedKeychainAttemptCount
  PROVE  StartInv'
<1>1. /\ pc = "reset" /\ pc' = "orphans" /\ count' \in {0, count}
      /\ UNCHANGED <<pref, vault, insecure, usable, default, item, helper, key, flags, keys, exits, excuse, unsaved, failed>>
  BY DEF U!ResetFailedKeychainAttemptCount, U!chain, U!local, U!bounds
<1>2. StartType'
  BY <1>1 DEF StartInv, StartType, U!Default
<1>3. StartHolds' /\ StartCounted' /\ StartKept' /\ U!MigratedOrFailed'
  BY <1>1 DEF StartInv, StartHolds, StartCounted, StartKept, U!MigratedOrFailed, Opened, U!Mine, U!Secure
<1> QED  BY <1>2, <1>3 DEF StartInv

(* A start with a key removes the vault that has none. *)
LEMMA StartRemoves ==
  ASSUME StartInv, U!RemoveOrphans
  PROVE  StartInv'
<1>1. /\ pc = "orphans" /\ pc' = "migrate"
      /\ insecure' = insecure \/ (insecure' = U!Absent /\ U!Secure)
      /\ UNCHANGED <<pref, count, vault, usable, default, item, helper, key, flags, keys, exits, excuse, unsaved, failed>>
  BY DEF U!RemoveOrphans, U!Removes, U!chain, U!local, U!bounds
<1>2. StartType'
  BY <1>1 DEF StartInv, StartType, U!Default
<1>3. StartHolds'
  BY <1>1, NoAccounts DEF StartInv, StartHolds, Opened, U!Mine, U!Secure
<1>4. StartCounted' /\ StartKept' /\ U!MigratedOrFailed'
  BY <1>1 DEF StartInv, StartCounted, StartKept, U!MigratedOrFailed, Opened
<1> QED  BY <1>2, <1>3, <1>4 DEF StartInv

(* The vault of a start that has opened it gets more accounts: it keeps its
   key. *)
LEMMA StartAdds ==
  ASSUME StartInv, NEW more \in SUBSET (Accounts \cup OldAccounts), NEW done \in BOOLEAN,
         U!Store([U!Mine EXCEPT !.accounts = @ \cup more, !.migrated = done]),
         Opened, pc # "remember", failed \subseteq failed',
         done => U!Mine.migrated \/ OldAccounts \subseteq more \cup failed',
         U!Mine.migrated => done,
         \/ pc' \in {"migrate", "running"} /\ UNCHANGED <<helper, key, flags>> /\ Opened'
         \/ U!Ends,
         UNCHANGED <<pref, count, usable, default, item, keys, exits, unsaved>>, excuse => excuse'
  PROVE  StartInv'
<1> DEFINE v == [U!Mine EXCEPT !.accounts = @ \cup more, !.migrated = done]
<1>1. U!Mine \in Vaults /\ U!Mine.key = key
  BY DEF StartInv, StartHolds
<1>2. /\ v \in Vaults /\ v.key = key /\ v.accounts = U!Mine.accounts \cup more /\ v.migrated = done
  BY <1>1 DEF Vaults
<1>3. /\ U!Secure => vault' = v /\ insecure' = insecure /\ U!Mine = vault
      /\ ~U!Secure => insecure' = v /\ vault' = vault /\ U!Mine = insecure /\ key = 0
  BY DEF U!Store, U!Mine, U!Secure
<1> HIDE DEF v
<1>4. /\ pc' \in {"off", "migrate", "running"} /\ (Opened' => key' = key /\ helper' = helper)
      /\ (pc' = "off" => key' = 0) /\ (key' # 0 => key' = key /\ helper' = helper) /\ key' \in Nat
  BY DEF U!Ends, Opened, StartInv, StartType
<1>5. StartType'
  BY <1>2, <1>3, <1>4 DEF StartInv, StartType, U!Default
<1>6. StartHolds'
  <2>1. Opened' => U!Mine' \in Vaults /\ U!Mine'.key = key'
    <3>1. Opened' /\ U!Secure => U!Mine' = v
      BY <1>3, <1>4 DEF U!Mine, U!Secure
    <3>2. Opened' /\ ~U!Secure => U!Mine' = v
      BY <1>3, <1>4 DEF U!Mine, U!Secure
    <3> QED  BY <1>2, <1>4, <3>1, <3>2
  <2> QED  BY <1>2, <1>3, <1>4, <2>1 DEF StartInv, StartHolds, U!Secure
<1>7. StartCounted'
  BY <1>4 DEF StartInv, StartCounted, Opened
<1>8. StartKept'
  <2>1. U!Secure /\ ~excuse /\ ~unsaved => pref = helper /\ helper \in Helpers /\ item[helper] = key
    BY DEF StartInv, StartKept, StartHolds, U!Secure
  <2>2. ~excuse' /\ ~unsaved' /\ vault'.accounts # {} => pref' \in Helpers /\ item'[pref'] = vault'.key
    BY <1>2, <1>3, <2>1 DEF StartInv, StartKept
  <2>3. Opened' /\ pc' # "remember" /\ key' # 0 /\ ~excuse' /\ ~unsaved' => pref' = helper'
    BY <1>4, <2>1 DEF U!Secure
  <2> QED  BY <1>4, <2>2, <2>3 DEF StartKept
<1>9. U!MigratedOrFailed'
  BY <1>2, <1>3 DEF StartInv, U!MigratedOrFailed
<1> QED  BY <1>5, <1>6, <1>7, <1>8, <1>9 DEF StartInv

(* The accounts of version 2 are moved or reported. *)
LEMMA StartMigrates ==
  ASSUME StartInv, U!Migrate
  PROVE  StartInv'
<1>1. /\ pc = "migrate" /\ pc' = "running" /\ Opened /\ Opened'
      /\ UNCHANGED <<pref, count, usable, default, item, helper, key, flags, keys, exits, excuse, unsaved>>
  BY DEF U!Migrate, U!chain, U!local, U!bounds, Opened
<1>2. CASE U!Mine.migrated
  <2>1. UNCHANGED <<vault, insecure, failed>>
    BY <1>2 DEF U!Migrate
  <2>2. StartType'
    BY <1>1, <2>1 DEF StartInv, StartType, U!Default
  <2>3. StartHolds' /\ StartCounted' /\ StartKept' /\ U!MigratedOrFailed'
    BY <1>1, <2>1 DEF StartInv, StartHolds, StartCounted, StartKept, U!MigratedOrFailed, Opened, U!Mine, U!Secure
  <2> QED  BY <2>2, <2>3 DEF StartInv
<1>3. CASE ~U!Mine.migrated
  <2>1. PICK bad \in SUBSET OldAccounts :
          /\ U!Store([U!Mine EXCEPT !.accounts = @ \cup (OldAccounts \ bad), !.migrated = TRUE])
          /\ failed' = failed \cup bad
    BY <1>3 DEF U!Migrate, U!Moved, U!Unmovable
  <2>2. OldAccounts \ bad \in SUBSET (Accounts \cup OldAccounts) /\ OldAccounts \subseteq (OldAccounts \ bad) \cup failed'
    BY <2>1
  <2> QED  BY <1>1, <2>1, <2>2, StartAdds
<1> QED  BY <1>2, <1>3

(* An account is added. *)
LEMMA StartAddsAccount ==
  ASSUME StartInv, NEW a \in Accounts, U!AddAccount(a)
  PROVE  StartInv'
<1>1. /\ pc = "running" /\ pc' = "running" /\ Opened /\ Opened' /\ failed' = failed
      /\ U!Store([U!Mine EXCEPT !.accounts = @ \cup {a}])
      /\ UNCHANGED <<pref, count, usable, default, item, helper, key, flags, keys, exits, excuse, unsaved>>
  BY DEF U!AddAccount, U!chain, U!local, U!bounds, Opened
<1>2. U!Mine \in Vaults
  BY <1>1 DEF StartInv, StartHolds
<1>3. [U!Mine EXCEPT !.accounts = @ \cup {a}] = [U!Mine EXCEPT !.accounts = @ \cup {a}, !.migrated = U!Mine.migrated]
      /\ U!Mine.migrated \in BOOLEAN
  BY <1>2 DEF Vaults
<1> QED  BY <1>1, <1>3, StartAdds

(* A crash tears the file that was being written, or leaves a migration half
   done. *)
LEMMA StartCrashes ==
  ASSUME StartInv, U!Crash
  PROVE  StartInv'
<1>1. /\ U!Ends /\ UNCHANGED <<usable, default, item, keys, exits, failed>>
      /\ excuse' = (excuse \/ pc \in {"open", "remember"}) /\ pc # "off"
  BY DEF U!Crash, U!chain
<1>2. CASE UNCHANGED <<vault, insecure, unsaved>> /\ pref' \in {pref, Torn} /\ count' \in {count, Torn}
           /\ (pref' # pref => pc = "remember")
  BY <1>1, <1>2, StartEnds DEF StartInv, StartType, StartCounted
<1>3. CASE pc = "open" /\ U!Store(U!TornVault) /\ UNCHANGED <<pref, count, unsaved>>
  <2>1. excuse' /\ pc' = "off" /\ key' = 0
    BY <1>1, <1>3 DEF U!Ends
  <2>2. vault' \in {vault, U!TornVault} /\ insecure' \in {insecure, U!TornVault}
    BY <1>3 DEF U!Store
  <2>3. StartType'
    BY <1>1, <1>3, <2>1, <2>2 DEF StartInv, StartType, U!Default
  <2>4. StartHolds' /\ StartCounted' /\ StartKept' /\ U!MigratedOrFailed'
    BY <1>1, <1>3, <2>1, <2>2, NoAccounts
       DEF StartInv, StartHolds, StartCounted, StartKept, U!MigratedOrFailed, Opened
  <2> QED  BY <2>3, <2>4 DEF StartInv
<1>4. CASE /\ pc = "migrate" /\ ~U!Mine.migrated
           /\ \E bad \in U!Unmovable : U!Store([U!Mine EXCEPT !.accounts = @ \cup U!Moved(bad)])
           /\ UNCHANGED <<pref, count, unsaved>>
  <2>1. PICK bad \in SUBSET OldAccounts : U!Store([U!Mine EXCEPT !.accounts = @ \cup (OldAccounts \ bad)])
    BY <1>4 DEF U!Unmovable, U!Moved
  <2>2. U!Mine \in Vaults /\ Opened
    BY <1>4 DEF StartInv, StartHolds, Opened
  <2>3. [U!Mine EXCEPT !.accounts = @ \cup (OldAccounts \ bad)]
          = [U!Mine EXCEPT !.accounts = @ \cup (OldAccounts \ bad), !.migrated = FALSE]
    BY <1>4, <2>2 DEF Vaults
  <2>4. OldAccounts \ bad \in SUBSET (Accounts \cup OldAccounts)
    OBVIOUS
  <2> QED  BY <1>1, <1>4, <2>1, <2>2, <2>3, <2>4, StartAdds
<1> QED  BY <1>2, <1>3, <1>4 DEF U!Crash, U!disk

(* Each step of the program, of the user and of the machine is one of these. *)
LEMMA StartNext ==
  ASSUME Torn \notin Nat, None \notin Helpers, StartInv, [U!Next]_(U!vars)
  PROVE  StartInv'
<1>1. CASE U!Quit
  BY <1>1, StartEnds DEF U!Quit, U!disk, U!chain, U!bounds, StartInv, StartType, StartCounted
<1>2. ASSUME NEW g \in Helpers, U!SetKeychainApp(g)
      PROVE  StartInv'
  BY <1>2, StartEnds DEF U!SetKeychainApp, U!chain, StartInv, StartType, StartCounted
<1>3. CASE U!Meddle
  <2>1. pc = "off" /\ UNCHANGED <<pref, count, vault, insecure, pc, helper, key, flags, keys, exits, unsaved, failed>>
    BY <1>3 DEF U!Meddle, U!disk, U!local
  <2>2. \/ item' = item /\ excuse' = excuse /\ usable' \subseteq Helpers /\ default' = U!Default(usable')
        \/ item' \in [Helpers -> Nat] /\ excuse' = TRUE /\ UNCHANGED <<usable, default>>
    BY <1>3 DEF U!Meddle, StartInv, StartType
  <2>3. StartType'
    BY <2>1, <2>2 DEF StartInv, StartType, U!Default
  <2>4. StartHolds' /\ StartCounted' /\ U!MigratedOrFailed'
    BY <2>1 DEF StartInv, StartHolds, StartCounted, U!MigratedOrFailed, Opened
  <2>5. StartKept'
    BY <2>1, <2>2 DEF StartInv, StartKept, Opened
  <2> QED  BY <2>3, <2>4, <2>5 DEF StartInv
<1>4. CASE UNCHANGED U!vars
  <2> USE <1>4 DEF U!vars, U!disk, U!chain, U!local, U!bounds
  <2>1. StartType'
    BY DEF StartInv, StartType, U!Default
  <2>2. StartHolds' /\ StartCounted' /\ StartKept' /\ U!MigratedOrFailed'
    BY DEF StartInv, StartHolds, StartCounted, StartKept, U!MigratedOrFailed, Opened, U!Mine, U!Secure
  <2> QED  BY <2>1, <2>2 DEF StartInv
<1> QED
  BY <1>1, <1>2, <1>3, <1>4, StartStarts, StartFails, StartLoads, StartOpens, StartRemembers, StartResets,
     StartRemoves, StartMigrates, StartAddsAccount, StartCrashes DEF U!Next, U!Step

(* What a step does to a vault with accounts. *)
LEMMA StartSpares ==
  ASSUME StartInv, [U!Next]_(U!vars)
  PROVE  U!WipeStep /\ U!InsecureStep
<1>1. U!WipeStep
  <2> SUFFICES ASSUME pc = "open", U!Secure, vault' # vault, vault.accounts # {}, ~excuse, ~unsaved,
                      ~(count >= 2), flags.retry
               PROVE  FALSE
    BY DEF U!WipeStep, U!MaxFailedKeychainAttemptsLinux
  <2>1. count \in Nat /\ pref \in Helpers /\ item[pref] = vault.key /\ item[helper] = key
    BY DEF StartInv, StartKept, StartHolds, U!Secure
  <2>2. helper = pref
    BY <2>1 DEF StartInv, StartKept, U!Secure
  <2>3. U!Opens(U!Mine, key)
    BY <2>1, <2>2, OpensMine DEF U!Mine
  <2> QED
    BY <2>3 DEF U!Next, U!Step, U!vars, U!disk, U!chain, U!local, U!bounds, U!Start, U!LoadFails, U!Loads, U!NewOpens,
       U!Remember, U!ResetFailedKeychainAttemptCount, U!RemoveOrphans, U!Migrate, U!Quit, U!Crash, U!Meddle,
       U!AddAccount, U!SetKeychainApp
<1>2. U!InsecureStep
  <2> SUFFICES ASSUME insecure.accounts # {}, insecure'.accounts = {}
               PROVE  U!Secure /\ pc = "orphans"
    BY DEF U!InsecureStep
  <2>1. U!Opens(insecure, 0)
    BY OpensMine
  <2>2. CASE U!RemoveOrphans
    BY <2>2 DEF U!RemoveOrphans, U!Removes
  <2>3. ASSUME NEW v, U!Store(v), v.accounts = {}
        PROVE  v = insecure' /\ ~U!Secure /\ vault' = vault
    BY <2>3 DEF U!Store
  <2>4. CASE U!NewOpens
    BY <2>1, <2>4 DEF U!NewOpens, U!initVault, U!Store, U!Mine, U!Secure
  <2>5. ASSUME NEW s, Opened, U!Store([U!Mine EXCEPT !.accounts = @ \cup s])
        PROVE  FALSE
    <3>1. ~U!Secure
      BY <2>5 DEF U!Store
    <3>2. insecure \in Vaults /\ insecure' = [insecure EXCEPT !.accounts = @ \cup s]
      BY <2>5, <3>1 DEF U!Store, U!Mine, StartInv, StartHolds
    <3> QED  BY <3>2 DEF Vaults
  <2>6. ASSUME NEW s, Opened, U!Store([U!Mine EXCEPT !.accounts = @ \cup s, !.migrated = TRUE])
        PROVE  FALSE
    <3>1. ~U!Secure
      BY <2>6 DEF U!Store
    <3>2. insecure \in Vaults /\ insecure' = [insecure EXCEPT !.accounts = @ \cup s, !.migrated = TRUE]
      BY <2>6, <3>1 DEF U!Store, U!Mine, StartInv, StartHolds
    <3> QED  BY <3>2 DEF Vaults
  <2>7. CASE U!Migrate
    <3>1. CASE U!Mine.migrated
      BY <2>7, <3>1 DEF U!Migrate
    <3>2. CASE ~U!Mine.migrated
      <4>1. PICK bad : U!Store([U!Mine EXCEPT !.accounts = @ \cup U!Moved(bad), !.migrated = TRUE])
        BY <2>7, <3>2 DEF U!Migrate
      <4>2. Opened
        BY <2>7 DEF U!Migrate, Opened
      <4> QED  BY <2>6, <4>1, <4>2
    <3> QED  BY <3>1, <3>2
  <2>8. ASSUME NEW a \in Accounts, U!AddAccount(a)
        PROVE  FALSE
    BY <2>5, <2>8 DEF U!AddAccount, Opened
  <2>9. CASE U!Crash
    <3>1. CASE pc = "open" /\ ~U!Opens(U!Mine, key) /\ U!Store(U!TornVault)
      BY <2>1, <3>1 DEF U!Store, U!Mine, U!Secure
    <3>2. ASSUME pc = "migrate", NEW bad, U!Store([U!Mine EXCEPT !.accounts = @ \cup U!Moved(bad)])
          PROVE  FALSE
      BY <2>5, <3>2 DEF Opened
    <3>3. CASE insecure' = insecure
      BY <3>3
    <3> QED  BY <2>9, <3>1, <3>2, <3>3 DEF U!Crash, U!disk
  <2>10. CASE insecure' = insecure
    BY <2>10
  <2> QED
    BY <2>2, <2>4, <2>7, <2>8, <2>9, <2>10
       DEF U!Next, U!Step, U!vars, U!disk, U!Start, U!LoadFails, U!Loads, U!Remember,
           U!ResetFailedKeychainAttemptCount, U!Quit, U!Meddle, U!SetKeychainApp
<1> QED  BY <1>1, <1>2

(* Over crashes, given-up starts, key chains that come and go and migrations that
   stop half-way: a program with accounts holds the key of its vault and has it
   from a key chain, a start is given up at most twice in a row, and a vault
   that is marked as migrated has every account of version 2 that was not
   reported; a step wipes accounts only when something outside came between
   vault and key or the tries are over, and the vault without a key is emptied only
   by a start that has one (newVaultKey, vault.New, migrateOldAccounts). *)
THEOREM VaultStaysWithItsKey ==
  ASSUME Torn \notin Nat, None \notin Helpers
  PROVE  U!Spec => /\ [](U!KeyIsKept /\ U!ExitsBounded /\ U!MigratedOrFailed)
                   /\ [][U!WipeStep /\ U!InsecureStep]_(U!vars)
<1>1. U!Init => StartInv
  BY StartInit
<1>2. StartInv /\ [U!Next]_(U!vars) => StartInv'
  BY StartNext
<1>3. StartInv => U!KeyIsKept /\ U!ExitsBounded /\ U!MigratedOrFailed
  BY DEF StartInv, StartHolds, StartCounted, U!KeyIsKept, U!ExitsBounded, U!MaxFailedKeychainAttemptsLinux,
     U!Secure, U!Mine, Opened
<1>4. StartInv /\ [U!Next]_(U!vars) => [U!WipeStep /\ U!InsecureStep]_(U!vars)
  BY StartSpares
<1> QED  BY <1>1, <1>2, <1>3, <1>4, PTL DEF U!Spec

-----------------------------------------------------------------------------
(* Login. *)
Ops == {"none", "login", "2fa", "fido", "2pw", "abort"}
Ats == {"done", "panic", "start", "clean", "auth", "finish", "call", "adding", "stuck"}
Handlers == [op : Ops, at : Ats, sess : L!Calls \cup {None}, buf : L!Calls \cup {None}]
SessionOf == [state : {"none", "live", "user", "ended"}, two : BOOLEAN, wrong : Nat]

(* The answers after which the GUI goes on with the dialog, and those after
   which nothing is left of it. *)
Asking == {"totp", "either", "2fa error", "fido", "pin", "pin error", "2pw", "2pw error"}
Closing == L!Over \ {"fido off", "hv lost", "undecodable"}

(* The dialog about session s: the service holds the session and a password
   given for it, and has counted its wrong tries. *)
Dialog(s) ==
  /\ s \in L!Calls /\ auth = s /\ pass.of = s /\ pass.id \in L!Calls
  /\ sessions[s].state = "live" /\ sessions[s].wrong = count /\ count < MaxAttempts

(* The type of the state. *)
LoginType ==
  /\ sessions \in [L!Calls -> SessionOf] /\ h \in [L!Calls -> Handlers]
  /\ count \in Nat /\ n \in 0 .. MaxCalls

(* The last call alone may be under way. *)
LastCall == \A c \in L!Calls : L!InFlight(c) => c = n

(* What a handler under way finds. *)
HandlerOf(c) ==
  /\ h[c].at = "start" /\ h[c].op \in {"2fa", "fido", "2pw"} => Dialog(told.of)
  /\ h[c].at \in {"start", "auth", "finish", "call", "adding", "stuck"} =>
       told.what = IF h[c].op = "abort" THEN "idle" ELSE "wait"
  /\ h[c].op = "abort" => h[c].at = "start"
  /\ h[c].at = "auth" => count = 0
  /\ h[c].at \in {"finish", "call", "adding"} => Dialog(auth)
  /\ h[c].at = "adding" => h[c].sess = auth

(* What the GUI was told is so. *)
ToldInv ==
  /\ told.what \in Asking => Dialog(told.of) /\ L!AtRest
  /\ told.what = "tries over" => told.of \in L!Calls /\ sessions[told.of].wrong = MaxAttempts
  /\ told.what \in Closing =>
       \/ auth = None /\ pass = None
       \/ \E c \in L!Calls : h[c].at = "clean" \/ (h[c].op = "abort" /\ h[c].at = "start")

(* A session has its tries and no more. *)
TriesInv ==
  \A s \in L!Calls : /\ sessions[s].wrong <= MaxAttempts
                     /\ sessions[s].wrong = MaxAttempts => sessions[s].state = "ended"

(* As long as the calls of two dialogs do not overlap. *)
LoginInv ==
  /\ mixed => overlap
  /\ ~overlap => /\ LoginType /\ LastCall /\ ToldInv /\ TriesInv
                 /\ \A c \in L!Calls : L!InFlight(c) => HandlerOf(c)

(* The bounds of the calls and of the tries. *)
Bounds == MaxCalls \in Nat /\ MaxAttempts \in Nat \ {0}

(* At first nobody has called. *)
LEMMA LoginInit ==
  ASSUME Bounds, L!Init
  PROVE  LoginInv
<1>1. L!NoCall \in Handlers /\ L!NoCall.at = "done" /\ L!NoSession \in SessionOf /\ L!NoSession.wrong = 0
  BY DEF L!NoCall, L!NoSession, Handlers, SessionOf, Ops, Ats
<1>2. LoginType
  BY <1>1 DEF Bounds, L!Init, LoginType
<1>3. \A c \in L!Calls : ~L!InFlight(c)
  BY <1>1 DEF L!Init, L!InFlight
<1>4. ToldInv
  BY DEF L!Init, ToldInv, Asking
<1>5. TriesInv
  BY <1>1 DEF L!Init, TriesInv, Bounds
<1> QED  BY <1>2, <1>3, <1>4, <1>5 DEF L!Init, LoginInv, LastCall

(* What the GUI is told. *)
LEMMA LoginTold ==
  ASSUME NEW w, NEW o, L!Tell(w, o)
  PROVE  told'.what = w /\ told'.of = o
BY DEF L!Tell

(* A handler goes on: the others are where they were. *)
LEMMA LoginGoes ==
  ASSUME LoginType, NEW c \in L!Calls, NEW to \in Ats, L!Goes(c, to)
  PROVE  /\ h' \in [L!Calls -> Handlers] /\ h'[c].at = to
         /\ to # "done" => h'[c].op = h[c].op /\ h'[c].sess = h[c].sess
         /\ \A d \in L!Calls : d # c => h'[d] = h[d]
<1>1. h[c] \in Handlers /\ h \in [L!Calls -> Handlers]
  BY DEF LoginType
<1>2. L!NoCall \in Handlers /\ L!NoCall.at = "done"
  BY DEF L!NoCall, Handlers, Ops, Ats
<1>3. [h[c] EXCEPT !.at = to] \in Handlers /\ [h[c] EXCEPT !.at = to].at = to
      /\ [h[c] EXCEPT !.at = to].op = h[c].op /\ [h[c] EXCEPT !.at = to].sess = h[c].sess
  BY <1>1 DEF Handlers
<1>4. CASE to = "done"
  <2>1. h' = [h EXCEPT ![c] = L!NoCall]
    BY <1>4 DEF L!Goes
  <2> QED  BY <1>1, <1>2, <1>4, <2>1
<1>5. CASE to # "done"
  <2>1. h' = [h EXCEPT ![c] = [h[c] EXCEPT !.at = to]]
    BY <1>5 DEF L!Goes
  <2> QED  BY <1>1, <1>3, <1>5, <2>1
<1> QED  BY <1>4, <1>5

(* Whoever moves is the last call, and nobody else is under way. *)
LEMMA LoginMover ==
  ASSUME LoginInv, ~overlap, NEW c \in L!Calls, L!InFlight(c), NEW to \in Ats, L!Goes(c, to)
  PROVE  /\ LoginType /\ ToldInv /\ TriesInv /\ HandlerOf(c) /\ c = n /\ told.what \notin Asking
         /\ h' \in [L!Calls -> Handlers] /\ h'[c].at = to
         /\ to # "done" => h'[c].op = h[c].op /\ h'[c].sess = h[c].sess
         /\ \A d \in L!Calls : L!InFlight(d)' => d = c /\ to \notin {"done", "panic"}
         /\ to = "done" => L!AtRest'
<1>1. LoginType /\ ToldInv /\ TriesInv /\ LastCall /\ HandlerOf(c) /\ c = n
  BY DEF LoginInv, LastCall
<1>2. /\ h' \in [L!Calls -> Handlers] /\ h'[c].at = to
      /\ to # "done" => h'[c].op = h[c].op /\ h'[c].sess = h[c].sess
      /\ \A d \in L!Calls : d # c => h'[d] = h[d]
  BY <1>1, LoginGoes
<1>3. \A d \in L!Calls : L!InFlight(d)' => d = c /\ to \notin {"done", "panic"}
  BY <1>1, <1>2 DEF LastCall, L!InFlight
<1>4. told.what \notin Asking
  BY <1>1 DEF ToldInv, L!AtRest
<1> QED  BY <1>1, <1>2, <1>3, <1>4 DEF L!AtRest

(* A handler ends and asks for more. *)
LEMMA LoginAsks ==
  ASSUME LoginInv, ~overlap, NEW c \in L!Calls, L!InFlight(c), L!Goes(c, "done"),
         sessions' \in [L!Calls -> SessionOf], TriesInv', count' \in Nat, UNCHANGED <<n, overlap, mixed>>,
         told'.what \in Asking, Dialog(told.of)'
  PROVE  LoginInv'
<1>1. /\ LoginType /\ L!AtRest' /\ h' \in [L!Calls -> Handlers]
      /\ \A d \in L!Calls : ~L!InFlight(d)'
  BY LoginMover DEF Ats
<1>2. LoginType' /\ LastCall'
  BY <1>1 DEF LoginType, LastCall
<1>3. ToldInv'
  BY <1>1 DEF ToldInv, Asking, Closing, L!Over
<1> QED  BY <1>1, <1>2, <1>3 DEF LoginInv

(* A handler ends and leaves the fields as they are. *)
LEMMA LoginLeaves ==
  ASSUME LoginInv, ~overlap, NEW c \in L!Calls, L!InFlight(c), L!Goes(c, "done"),
         sessions' \in [L!Calls -> SessionOf], TriesInv', count' \in Nat, UNCHANGED <<n, overlap, mixed>>,
         told'.what \in {"undecodable", "fido off", "hv lost", "hv"}
  PROVE  LoginInv'
<1>1. /\ LoginType /\ h' \in [L!Calls -> Handlers]
      /\ \A d \in L!Calls : ~L!InFlight(d)'
  BY LoginMover DEF Ats
<1>2. LoginType' /\ LastCall'
  BY <1>1 DEF LoginType, LastCall
<1>3. ToldInv'
  BY DEF ToldInv, Asking, Closing, L!Over
<1> QED  BY <1>1, <1>2, <1>3 DEF LoginInv

(* A handler tells its result and is about to clean. *)
LEMMA LoginCleans ==
  ASSUME LoginInv, ~overlap, NEW c \in L!Calls, L!InFlight(c), L!Goes(c, "clean"), h[c].op # "abort",
         sessions' \in [L!Calls -> SessionOf], TriesInv', count' \in Nat, UNCHANGED <<n, overlap, mixed>>,
         told'.what \notin Asking,
         told'.what = "tries over" => told'.of \in L!Calls /\ sessions'[told'.of].wrong = MaxAttempts
  PROVE  LoginInv'
<1>1. /\ LoginType /\ c = n /\ h' \in [L!Calls -> Handlers] /\ h'[c].at = "clean" /\ h'[c].op = h[c].op
      /\ \A d \in L!Calls : L!InFlight(d)' => d = c
  BY LoginMover DEF Ats
<1>2. LoginType' /\ LastCall'
  BY <1>1 DEF LoginType, LastCall
<1>3. ToldInv'
  BY <1>1 DEF ToldInv
<1>4. HandlerOf(c)'
  BY <1>1 DEF HandlerOf
<1> QED  BY <1>1, <1>2, <1>3, <1>4 DEF LoginInv

(* A handler goes on, and the GUI waits. *)
LEMMA LoginWaits ==
  ASSUME LoginInv, ~overlap, NEW c \in L!Calls, L!InFlight(c), NEW to \in {"auth", "finish", "call", "stuck"},
         L!Goes(c, to), h[c].op # "abort", told.what = "wait",
         sessions' \in [L!Calls -> SessionOf], TriesInv', count' \in Nat, UNCHANGED <<n, told, overlap, mixed>>,
         to = "auth" => count' = 0, to \in {"finish", "call"} => Dialog(auth)'
  PROVE  LoginInv'
<1>1. /\ LoginType /\ c = n /\ h' \in [L!Calls -> Handlers] /\ h'[c].at = to /\ h'[c].op = h[c].op
      /\ \A d \in L!Calls : L!InFlight(d)' => d = c
  BY LoginMover DEF Ats
<1>2. LoginType' /\ LastCall'
  BY <1>1 DEF LoginType, LastCall
<1>3. ToldInv'
  BY DEF ToldInv, Asking, Closing, L!Over
<1>4. HandlerOf(c)'
  BY <1>1 DEF HandlerOf
<1> QED  BY <1>1, <1>2, <1>3, <1>4 DEF LoginInv

(* The tries of the sessions, and the dialog, do not change. *)
LEMMA LoginKeeps ==
  ASSUME LoginInv, ~overlap, sessions' = sessions
  PROVE  /\ sessions' \in [L!Calls -> SessionOf] /\ TriesInv'
         /\ count' = count => count' \in Nat
         /\ UNCHANGED <<count, auth, pass>> => \A s : Dialog(s) => Dialog(s)'
BY DEF LoginInv, LoginType, TriesInv, Dialog

(* A handler cleans: nothing is left of the dialog. *)
LEMMA LoginCleanStep ==
  ASSUME LoginInv, ~overlap, NEW c \in L!Calls, L!loginClean(c)
  PROVE  LoginInv'
<1>1. L!InFlight(c) /\ L!Goes(c, "done") /\ auth' = None /\ pass' = None
      /\ UNCHANGED <<sessions, count, told, n, overlap, mixed>>
  BY DEF L!loginClean, L!Cleaned, L!InFlight
<1>2. /\ LoginType /\ ToldInv /\ h' \in [L!Calls -> Handlers] /\ told.what \notin Asking
      /\ \A d \in L!Calls : ~L!InFlight(d)'
  BY <1>1, LoginMover DEF Ats
<1>3. LoginType' /\ LastCall'
  BY <1>1, <1>2 DEF LoginType, LastCall
<1>4. ToldInv'
  BY <1>1, <1>2 DEF ToldInv
<1>5. TriesInv'
  BY <1>1, LoginKeeps
<1> QED  BY <1>1, <1>2, <1>3, <1>4, <1>5 DEF LoginInv

(* A login begins, or the API refuses it. *)
LEMMA LoginStarts ==
  ASSUME LoginInv, ~overlap, NEW c \in L!Calls, L!LoginDecode(c) \/ L!LoginAuthFails(c)
  PROVE  LoginInv'
<1>1. /\ L!InFlight(c) /\ UNCHANGED <<sessions, n, overlap, mixed>>
      /\ HandlerOf(c) /\ h[c].op # "abort"
  BY DEF L!LoginDecode, L!LoginAuthFails, L!Starts, L!InFlight, LoginInv, HandlerOf
<1>2. sessions' \in [L!Calls -> SessionOf] /\ TriesInv' /\ (count' = count => count' \in Nat)
  BY <1>1, LoginKeeps
<1>3. CASE L!LoginDecode(c)
  <2>1. count' = 0 /\ told.what = "wait"
    BY <1>1, <1>3 DEF L!LoginDecode, L!NewCount, L!Starts, HandlerOf
  <2>2. CASE L!Goes(c, "auth") /\ UNCHANGED told
    BY <1>1, <1>2, <2>1, <2>2, LoginWaits
  <2>3. CASE L!Goes(c, "done") /\ L!Tell("undecodable", c)
    BY <1>1, <1>2, <2>1, <2>3, LoginLeaves, LoginTold
  <2> QED  BY <1>3, <2>2, <2>3 DEF L!LoginDecode
<1>4. CASE L!LoginAuthFails(c)
  <2>1. count' = count /\ L!Goes(c, "clean") /\ told'.what \in {"password error", "hv", "hv error"}
    BY <1>4, LoginTold DEF L!LoginAuthFails, L!VerifyAndExtractHvRequest
  <2> QED  BY <1>1, <1>2, <2>1, LoginCleans DEF Asking
<1> QED  BY <1>3, <1>4

(* The API opens a session: the service holds it with its password. *)
LEMMA LoginAuthStep ==
  ASSUME Bounds, LoginInv, ~overlap, NEW c \in L!Calls, L!LoginAuth(c)
  PROVE  LoginInv'
<1>1. PICK factor \in {"none", "totp", "fido", "either"}, two \in BOOLEAN, u2f \in BOOLEAN :
        /\ h[c].at = "auth"
        /\ sessions' = [sessions EXCEPT ![c] = [state |-> "live", two |-> two, wrong |-> 0]]
        /\ L!Hold(c)
        /\ CASE factor = "totp" -> L!Tell("totp", c) /\ L!Goes(c, "done")
             [] factor = "fido" -> L!Tell(IF u2f THEN "fido" ELSE "fido off", c) /\ L!Goes(c, "done")
             [] factor = "either" -> L!Tell(IF u2f THEN "either" ELSE "totp", c) /\ L!Goes(c, "done")
             [] factor = "none" /\ two -> L!Tell("2pw", c) /\ L!Goes(c, "done")
             [] OTHER -> L!Goes(c, "finish") /\ UNCHANGED told
        /\ UNCHANGED <<zeroed, count, n, overlap, fast, mixed>>
  BY DEF L!LoginAuth
<1>2. L!InFlight(c) /\ HandlerOf(c) /\ h[c].op # "abort" /\ count = 0 /\ count' = 0 /\ told.what = "wait"
  BY <1>1 DEF L!InFlight, LoginInv, HandlerOf
<1>3. /\ sessions' \in [L!Calls -> SessionOf] /\ sessions'[c].state = "live" /\ sessions'[c].wrong = 0
      /\ \A s \in L!Calls : s # c => sessions'[s] = sessions[s]
  BY <1>1 DEF LoginInv, LoginType, SessionOf
<1>4. TriesInv'
  BY <1>3 DEF LoginInv, TriesInv, Bounds
<1>5. Dialog(c)' /\ auth' = c
  <2>1. auth' = c /\ pass' = [id |-> c, of |-> c]
    BY <1>1 DEF L!Hold
  <2>2. pass'.of = c /\ pass'.id = c
    BY <2>1
  <2> QED  BY <1>2, <1>3, <2>1, <2>2 DEF Dialog, Bounds
<1>6. UNCHANGED <<n, overlap, mixed>>
  BY <1>1
<1>7. CASE L!Goes(c, "done") /\ told'.what \in Asking /\ told'.of = c
  BY <1>2, <1>3, <1>4, <1>5, <1>6, <1>7, LoginAsks
<1>8. CASE L!Goes(c, "done") /\ told'.what = "fido off"
  BY <1>2, <1>3, <1>4, <1>6, <1>8, LoginLeaves
<1>9. CASE L!Goes(c, "finish") /\ UNCHANGED told
  BY <1>2, <1>3, <1>4, <1>5, <1>6, <1>9, LoginWaits
<1>10. \/ L!Goes(c, "done") /\ told'.what \in Asking /\ told'.of = c
       \/ L!Goes(c, "done") /\ told'.what = "fido off"
       \/ L!Goes(c, "finish") /\ UNCHANGED told
  BY <1>1, LoginTold DEF Asking
<1> QED  BY <1>7, <1>8, <1>9, <1>10

(* The second factor and the mailbox password: the dialog goes on, ends or
   waits for LoginUser. *)
LEMMA LoginFactors ==
  ASSUME LoginInv, ~overlap, NEW c \in L!Calls,
         \/ L!Missing(c, "2fa", "abort") \/ L!Missing(c, "fido", "fido error")
         \/ L!Login2FA(c) \/ L!LoginFido(c)
  PROVE  LoginInv'
<1>1. /\ h[c].at = "start" /\ h[c].op \in {"2fa", "fido"} /\ L!InFlight(c)
      /\ UNCHANGED <<sessions, auth, pass, count, n, overlap, mixed>>
  BY DEF L!Missing, L!Login2FA, L!LoginFido, L!Starts, L!InFlight
<1>2. HandlerOf(c) /\ Dialog(told.of) /\ told.what = "wait"
  BY <1>1 DEF LoginInv, HandlerOf
<1>3. Dialog(auth)
  BY <1>2 DEF Dialog
<1>4. sessions' \in [L!Calls -> SessionOf] /\ TriesInv' /\ count' \in Nat /\ Dialog(auth)' /\ auth' = auth
  BY <1>1, <1>3, LoginKeeps
<1>5. CASE L!Goes(c, "clean") /\ told'.what \in {"abort", "fido error", "password error"}
  BY <1>1, <1>4, <1>5, LoginCleans DEF Asking
<1>6. CASE L!Goes(c, "done") /\ told'.what \in Asking /\ told'.of = auth
  BY <1>1, <1>4, <1>6, LoginAsks
<1>7. CASE L!Goes(c, "finish") /\ UNCHANGED told
  BY <1>1, <1>2, <1>4, <1>7, LoginWaits
<1>8. CASE L!Goes(c, "stuck") /\ UNCHANGED told
  BY <1>1, <1>2, <1>4, <1>8, LoginWaits
<1>9. L!SecondFactorDone(c) => (L!Goes(c, "done") /\ told'.what \in Asking /\ told'.of = auth)
                               \/ (L!Goes(c, "finish") /\ UNCHANGED told)
  BY LoginTold DEF L!SecondFactorDone, Asking
<1>10. CASE L!Missing(c, "2fa", "abort") \/ L!Missing(c, "fido", "fido error")
  BY <1>5, <1>10, LoginTold DEF L!Missing
<1>11. CASE L!Login2FA(c)
  BY <1>5, <1>6, <1>7, <1>9, <1>11, LoginTold DEF L!Login2FA, Asking
<1>12. CASE L!LoginFido(c)
  BY <1>5, <1>6, <1>7, <1>8, <1>9, <1>12, LoginTold
     DEF L!LoginFido, L!performAssertion, L!AuthWithHardwareKeyGUI, Asking
<1> QED  BY <1>10, <1>11, <1>12

(* The second password is taken, and the fields are checked. *)
LEMMA LoginFinishes ==
  ASSUME LoginInv, ~overlap, NEW c \in L!Calls, L!Login2Passwords(c) \/ L!finishLogin(c)
  PROVE  LoginInv'
<1>1. /\ L!InFlight(c) /\ h[c].op # "abort" /\ UNCHANGED <<sessions, auth, count, n, overlap, mixed>>
      /\ HandlerOf(c) /\ told.what = "wait"
  BY DEF L!Login2Passwords, L!finishLogin, L!Starts, L!InFlight, LoginInv, HandlerOf
<1>2. sessions' \in [L!Calls -> SessionOf] /\ TriesInv' /\ count' \in Nat
  BY <1>1, LoginKeeps
<1>3. CASE L!Goes(c, "clean") /\ told'.what \in {"password error", "abort"}
  BY <1>1, <1>2, <1>3, LoginCleans DEF Asking
<1>4. CASE L!Login2Passwords(c) /\ pass' = [id |-> c, of |-> told.of] /\ L!Goes(c, "finish") /\ UNCHANGED told
  <2>1. Dialog(told.of)
    BY <1>1, <1>4 DEF L!Login2Passwords, L!Starts, HandlerOf
  <2>2. Dialog(auth)'
    BY <1>1, <1>4, <2>1 DEF Dialog
  <2> QED  BY <1>1, <1>2, <1>4, <2>2, LoginWaits
<1>5. CASE L!finishLogin(c) /\ L!Goes(c, "call") /\ UNCHANGED told
  <2>1. Dialog(auth) /\ pass' = pass
    BY <1>1, <1>5 DEF L!finishLogin, HandlerOf
  <2>2. Dialog(auth)'
    BY <1>1, <2>1 DEF Dialog
  <2> QED  BY <1>1, <1>2, <1>5, <2>2, LoginWaits
<1> QED  BY <1>3, <1>4, <1>5, LoginTold DEF L!Login2Passwords, L!finishLogin

(* LoginUser is called with the session and the password of the dialog. *)
LEMMA LoginCalls ==
  ASSUME LoginInv, ~overlap, NEW c \in L!Calls, L!LoginUser(c)
  PROVE  LoginInv'
<1>1. /\ h[c].at = "call" /\ L!InFlight(c) /\ UNCHANGED <<sessions, auth, pass, count, told, n, overlap>>
  BY DEF L!LoginUser, L!InFlight
<1>2. HandlerOf(c) /\ Dialog(auth) /\ told.what = "wait" /\ LoginType /\ LastCall /\ h[c].op # "abort"
  BY <1>1 DEF LoginInv, HandlerOf
<1>3. mixed' => overlap'
  BY <1>1, <1>2 DEF L!LoginUser, Dialog, LoginInv
<1>4. PICK to \in {"panic", "adding"}, buf \in L!Calls \cup {None} :
        h' = [h EXCEPT ![c] = [h[c] EXCEPT !.at = to, !.sess = auth, !.buf = buf]]
  <2>1. h' = [h EXCEPT ![c].at = IF auth = None THEN "panic" ELSE "adding",
                       ![c].sess = auth, ![c].buf = IF pass = None THEN None ELSE pass.id]
    BY DEF L!LoginUser
  <2>2. (IF auth = None THEN "panic" ELSE "adding") \in {"panic", "adding"}
        /\ (IF pass = None THEN None ELSE pass.id) \in L!Calls \cup {None}
    BY <1>2 DEF Dialog
  <2>3. h \in [L!Calls -> Handlers] /\ h[c] \in Handlers
    BY <1>2 DEF LoginType
  <2> QED  BY <2>1, <2>2, <2>3
<1>5. /\ h' \in [L!Calls -> Handlers] /\ h'[c].at = to /\ h'[c].op = h[c].op /\ h'[c].sess = auth
      /\ \A d \in L!Calls : d # c => h'[d] = h[d]
  BY <1>2, <1>4 DEF LoginType, Handlers, Dialog, Ats
<1>6. LoginType' /\ LastCall'
  BY <1>1, <1>2, <1>5 DEF LoginType, LastCall, L!InFlight
<1>7. ToldInv'
  BY <1>1, <1>2 DEF ToldInv, Asking, Closing, L!Over
<1>8. TriesInv'
  BY <1>1, LoginKeeps
<1>9. HandlerOf(c)'
  BY <1>1, <1>2, <1>5, LoginKeeps DEF HandlerOf
<1>10. \A d \in L!Calls : L!InFlight(d)' => d = c
  BY <1>1, <1>2, <1>5 DEF LastCall, L!InFlight
<1> QED  BY <1>3, <1>6, <1>7, <1>8, <1>9, <1>10 DEF LoginInv

(* The outcome of LoginUser. *)
LEMMA LoginOutcome ==
  ASSUME Bounds, LoginInv, ~overlap, NEW c \in L!Calls,
         L!LoginUserDone(c) \/ L!LoginUserFails(c) \/ L!FailedToUnlock(c)
  PROVE  LoginInv'
<1>1. /\ h[c].at = "adding" /\ L!InFlight(c) /\ UNCHANGED <<auth, pass, n, overlap, mixed>>
  BY DEF L!LoginUserDone, L!LoginUserFails, L!FailedToUnlock, L!InFlight
<1>0. HandlerOf(c) /\ Dialog(auth) /\ h[c].op # "abort" /\ LoginType /\ TriesInv /\ h[c].sess = auth
  BY <1>1 DEF LoginInv, HandlerOf
<1>2. PICK s \in L!Calls : s = auth /\ s = h[c].sess /\ Dialog(s)
  BY <1>0 DEF Dialog
<1>3. /\ s \in L!Calls /\ sessions \in [L!Calls -> SessionOf] /\ sessions[s] \in SessionOf
      /\ sessions[s].wrong = count /\ count \in Nat /\ count < MaxAttempts
  BY <1>0, <1>2 DEF Dialog, LoginType
<1>4. ASSUME NEW state \in {"user", "ended"}, sessions' = [sessions EXCEPT ![s].state = state]
      PROVE  sessions' \in [L!Calls -> SessionOf] /\ TriesInv'
  <2>1. /\ sessions' \in [L!Calls -> SessionOf] /\ sessions'[s].wrong = count
        /\ \A t \in L!Calls : t # s => sessions'[t] = sessions[t]
    BY <1>3, <1>4 DEF SessionOf
  <2> QED  BY <1>0, <1>2, <1>3, <2>1 DEF TriesInv, Bounds
<1>5. CASE L!LoginUserDone(c)
  <2>1. sessions' = [sessions EXCEPT ![s].state = "user"] /\ L!Goes(c, "clean") /\ told'.what = "finished" /\ count' = count
    BY <1>2, <1>5, LoginTold DEF L!LoginUserDone
  <2> QED  BY <1>0, <1>1, <1>2, <1>3, <1>4, <2>1, LoginCleans DEF Asking
<1>6. CASE L!LoginUserFails(c)
  <2>1. sessions' = [sessions EXCEPT ![s].state = "ended"]
    BY <1>2, <1>6 DEF L!LoginUserFails, L!EndSession
  <2>4. count' \in Nat
    <3>1. count' = count \/ count' = count + 1
      BY <1>6 DEF L!LoginUserFails
    <3> QED  BY <1>3, <3>1
  <2>2. CASE told'.what \in {"hv", "hv lost"} /\ L!Goes(c, "done")
    BY <1>1, <1>4, <2>1, <2>2, <2>4, LoginLeaves
  <2>3. CASE told'.what \in {"hv error", "abort"} /\ L!Goes(c, "clean")
    BY <1>0, <1>1, <1>2, <1>4, <2>1, <2>3, <2>4, LoginCleans DEF Asking
  <2> QED  BY <1>6, <2>2, <2>3, LoginTold DEF L!LoginUserFails
<1>7. CASE L!FailedToUnlock(c)
  <2>1. count' = count + 1 /\ count' \in Nat
    <3>1. count' = count + 1
      BY <1>7 DEF L!FailedToUnlock
    <3> QED  BY <1>3, <3>1
  <2>2. CASE count + 1 < MaxAttempts
    <3> DEFINE one == [sessions[s] EXCEPT !.wrong = count + 1]
    <3>0. one \in SessionOf /\ one.wrong = count + 1 /\ one.state = sessions[s].state
      BY <1>3 DEF SessionOf
    <3>1. sessions' = [sessions EXCEPT ![s] = one] /\ told'.what = "2pw error" /\ told'.of = s /\ L!Goes(c, "done")
      BY <1>2, <1>3, <1>7, <2>2, LoginTold DEF L!FailedToUnlock, L!MayRetry
    <3> HIDE DEF one
    <3>2. /\ sessions' \in [L!Calls -> SessionOf] /\ sessions'[s].wrong = count + 1
          /\ sessions'[s].state = sessions[s].state /\ \A t \in L!Calls : t # s => sessions'[t] = sessions[t]
      BY <1>3, <3>0, <3>1
    <3>3. TriesInv'
      BY <1>0, <1>2, <1>3, <2>2, <3>2 DEF TriesInv, Bounds
    <3>4. Dialog(told.of)'
      BY <1>0, <1>1, <1>2, <2>1, <2>2, <3>1, <3>2 DEF Dialog
    <3>5. told'.what \in Asking
      BY <3>1 DEF Asking
    <3> QED  BY <1>1, <2>1, <3>1, <3>2, <3>3, <3>4, <3>5, LoginAsks
  <2>3. CASE ~(count + 1 < MaxAttempts)
    <3> DEFINE one == [sessions[s] EXCEPT !.wrong = count + 1, !.state = "ended"]
    <3>0. one \in SessionOf /\ one.wrong = count + 1 /\ one.state = "ended"
      <4>1. sessions[s] \in SessionOf /\ count + 1 \in Nat /\ "ended" \in {"none", "live", "user", "ended"}
        BY <1>3
      <4> QED  BY <4>1 DEF SessionOf
    <3>1. sessions' = [sessions EXCEPT ![s] = one]
          /\ told'.what = "tries over" /\ told'.of = s /\ L!Goes(c, "clean")
      BY <1>2, <1>3, <1>7, <2>3, LoginTold DEF L!FailedToUnlock, L!MayRetry
    <3> HIDE DEF one
    <3>2. /\ sessions' \in [L!Calls -> SessionOf] /\ sessions'[s].wrong = count + 1
          /\ sessions'[s].state = "ended" /\ \A t \in L!Calls : t # s => sessions'[t] = sessions[t]
      BY <1>3, <3>0, <3>1
    <3>3. count + 1 = MaxAttempts
      BY <1>3, <2>3 DEF Bounds
    <3>4. TriesInv'
      BY <1>0, <1>2, <1>3, <3>2, <3>3 DEF TriesInv, Bounds
    <3>5. told'.what \notin Asking /\ told'.of \in L!Calls /\ sessions'[told'.of].wrong = MaxAttempts
      BY <3>1, <3>2, <3>3 DEF Asking
    <3> QED  BY <1>0, <1>1, <2>1, <3>1, <3>2, <3>4, <3>5, LoginCleans
  <2> QED  BY <2>2, <2>3
<1> QED  BY <1>5, <1>6, <1>7

(* A call of the GUI: alone, it finds what it was asked for. *)
LEMMA LoginCallFrom ==
  ASSUME Bounds, LoginInv, NEW op \in {"login", "2fa", "fido", "2pw", "abort"}, L!CallFrom(op)
  PROVE  LoginInv'
<1>1. /\ n < MaxCalls /\ n' = n + 1 /\ told.what \in L!AskedFor(op)
      /\ overlap' = (overlap \/ \E c \in L!Calls : L!InFlight(c))
      /\ h' = [h EXCEPT ![n + 1] = [op |-> op, at |-> "start", sess |-> None, buf |-> None]]
      /\ told' = [what |-> IF op = "abort" THEN "idle" ELSE "wait", of |-> told.of]
      /\ UNCHANGED <<sessions, auth, pass, count, mixed>>
  BY DEF L!CallFrom, L!Tell
<1>2. mixed' => overlap'
  BY <1>1 DEF LoginInv
<1>3. ASSUME ~overlap'
      PROVE  LoginType' /\ LastCall' /\ ToldInv' /\ TriesInv' /\ \A c \in L!Calls : L!InFlight(c)' => HandlerOf(c)'
  <2>1. ~overlap /\ \A c \in L!Calls : ~L!InFlight(c)
    BY <1>1, <1>3
  <2>2. LoginType /\ ToldInv /\ TriesInv
    BY <2>1 DEF LoginInv
  <2>3. n + 1 \in L!Calls /\ n' \in 0 .. MaxCalls
    BY <1>1, <2>2 DEF LoginType, L!Calls, Bounds
  <2>4. [op |-> op, at |-> "start", sess |-> None, buf |-> None] \in Handlers
    BY DEF Handlers, Ops, Ats
  <2>5. /\ h' \in [L!Calls -> Handlers] /\ h'[n + 1].at = "start" /\ h'[n + 1].op = op
        /\ \A d \in L!Calls : d # n + 1 => h'[d] = h[d]
    BY <1>1, <2>2, <2>3, <2>4 DEF LoginType
  <2>6. LoginType'
    BY <1>1, <2>2, <2>3, <2>5 DEF LoginType
  <2>7. \A d \in L!Calls : L!InFlight(d)' => d = n + 1
    BY <2>1, <2>5 DEF L!InFlight
  <2>8. TriesInv'
    BY <1>1, <2>2 DEF TriesInv
  <2>9. ToldInv'
    BY <1>1, <2>3, <2>5 DEF ToldInv, Asking, Closing, L!Over
  <2>10. op \in {"2fa", "fido", "2pw"} => Dialog(told.of)'
    <3>1. op \in {"2fa", "fido", "2pw"} => told.what \in Asking
      BY <1>1 DEF L!AskedFor, Asking
    <3> QED  BY <1>1, <2>2, <3>1 DEF ToldInv, Dialog
  <2>11. PICK c \in L!Calls : c = n + 1
    BY <2>3
  <2>12. HandlerOf(c)'
    BY <1>1, <2>5, <2>10, <2>11 DEF HandlerOf
  <2> QED  BY <1>1, <2>6, <2>7, <2>8, <2>9, <2>11, <2>12 DEF LastCall
<1> QED  BY <1>2, <1>3 DEF LoginInv

(* For any number of calls and of allowed tries, as long as a call does not come
   while another is under way: no session gets more wrong mailbox passwords than
   are allowed and one that got them all is ended; when the dialog is over the
   service holds neither password nor session; and LoginUser never gets the password
   of another session (Login, Login2FA, LoginFido, Login2Passwords,
   finishLogin, loginClean). *)
THEOREM LoginStaysSafe ==
  ASSUME MaxCalls \in Nat, MaxAttempts \in Nat \ {0}
  PROVE  L!Spec => [](L!TriesBounded /\ L!SecretsGone /\ L!OwnPassword)
<1>0. Bounds
  BY DEF Bounds
<1>1. L!Init => LoginInv
  BY <1>0, LoginInit
<1>2. LoginInv /\ [L!Next]_(L!vars) => LoginInv'
  <2> SUFFICES ASSUME LoginInv, [L!Next]_(L!vars)
               PROVE  LoginInv'
    OBVIOUS
  <2>1. CASE L!LoginAbort
    BY <2>1 DEF L!LoginAbort, LoginInv
  <2>2. ASSUME NEW c \in L!Calls, L!Handler(c)
        PROVE  LoginInv'
    <3>1. CASE overlap
      <4>1. overlap'
        BY <2>2, <3>1 DEF L!Handler, L!loginClean, L!LoginDecode, L!LoginAuthFails, L!LoginAuth, L!Missing,
           L!Login2FA, L!LoginFido, L!Login2Passwords, L!finishLogin, L!LoginUser, L!LoginUserDone,
           L!LoginUserFails, L!FailedToUnlock
      <4> QED  BY <4>1 DEF LoginInv
    <3>2. CASE ~overlap
      BY <1>0, <2>2, <3>2, LoginCleanStep, LoginStarts, LoginAuthStep, LoginFactors, LoginFinishes, LoginCalls,
         LoginOutcome DEF L!Handler
    <3> QED  BY <3>1, <3>2
  <2>3. ASSUME NEW op \in {"login", "2fa", "fido", "2pw", "abort"}, L!CallFrom(op)
        PROVE  LoginInv'
    BY <1>0, <2>3, LoginCallFrom
  <2>4. CASE UNCHANGED L!vars
    BY <2>4 DEF L!vars, LoginInv, LoginType, LastCall, ToldInv, TriesInv, HandlerOf, Dialog, L!InFlight, L!AtRest
  <2> QED  BY <2>1, <2>2, <2>3, <2>4 DEF L!Next
<1>3. LoginInv => L!TriesBounded /\ L!SecretsGone /\ L!OwnPassword
  <2> SUFFICES ASSUME LoginInv
               PROVE  L!TriesBounded /\ L!SecretsGone /\ L!OwnPassword
    OBVIOUS
  <2>1. L!TriesBounded
    BY DEF L!TriesBounded, LoginInv, TriesInv, ToldInv
  <2>2. L!SecretsGone
    <3>1. ASSUME ~overlap, L!AtRest, told.what \in Closing
          PROVE  auth = None /\ pass = None
      <4>1. \A c \in L!Calls : ~(h[c].at = "clean" \/ (h[c].op = "abort" /\ h[c].at = "start"))
        BY <3>1 DEF L!AtRest, L!InFlight
      <4> QED  BY <3>1, <4>1 DEF LoginInv, ToldInv
    <3> QED  BY <3>1 DEF L!SecretsGone, Closing
  <2>3. L!OwnPassword
    BY DEF L!OwnPassword, LoginInv
  <2> QED  BY <2>1, <2>2, <2>3
<1> QED  BY <1>1, <1>2, <1>3, PTL DEF L!Spec
=============================================================================
