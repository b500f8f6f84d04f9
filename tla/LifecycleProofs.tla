--------------------------- MODULE LifecycleProofs ---------------------------
(***************************************************************************)
(* Proofs about Lifecycle: the map of users, the vault and the services    *)
(* agree, for any number of accounts, objects, sessions and calls.         *)
(***************************************************************************)
EXTENDS Lifecycle, TLAPS

UserEvents == {"check", "deauth", "bad"}
UserObjects == [user : Users, open : BOOLEAN, token : {None} \cup Tokens, saved : BOOLEAN,
                queue : Seq(UserEvents), handling : {None} \cup UserEvents]
Additions == [at : {"idle", "listed", "refreshed", "auth", "stored", "built"},
              token : {None} \cup Tokens, obj : {None} \cup Nat, new : BOOLEAN]

TypeInv ==
    /\ entry \in [Users -> {None} \cup Entries]
    /\ session \in [1 .. MaxSessions -> {None, Ended} \cup Nat]
    /\ object \in Seq(UserObjects)
    /\ users \in [Users -> {None} \cup Nat]
    /\ job \in [Jobs -> Additions]
    /\ reader = [r \in Readers |-> reader[r]]
    /\ gone \in [Users -> {None, "logout", "delete"}]

(* What the map holds is an object of that user. *)
MapInv ==
    \A u \in Users : users[u] # None => users[u] \in DOMAIN object /\ object[users[u]].user = u

(* An addition has an object once it has built it; that of a load holds    *)
(* its entry.                                                              *)
JobInv ==
    \A j \in Jobs :
        /\ job[j].obj # None => job[j].at = "built"
        /\ job[j].at = "built" => job[j].obj \in DOMAIN object /\ object[job[j].obj].user = j[2]
        /\ j[1] = "load" /\ job[j].at # "idle" => j[2] \in listed
        /\ j[1] = "login" => job[j].at \notin {"listed", "refreshed"}

(* A user that is added once at a time is not connected while it is added. *)
AloneInv ==
    /\ \A j \in Jobs :
          job[j].at \notin {"idle", "listed"} /\ j[2] \notin overlap => users[j[2]] = None
    /\ \A j, k \in Jobs :
          j # k /\ j[2] = k[2] /\ j[2] \notin overlap => job[j].at = "idle" \/ job[k].at = "idle"

(* The services that run are those of the map and of the additions.        *)
OpenInv ==
    /\ \A o \in DOMAIN object : ~object[o].saved => Open(o)
    /\ \A o \in DOMAIN object :
          Open(o) /\ object[o].user \notin overlap =>
              users[object[o].user] = o \/ \E j \in Jobs : job[j].obj = o
    /\ \A j \in Jobs : job[j].at = "built" /\ j[2] \notin overlap => Open(job[j].obj)
    /\ \A u \in Users : users[u] # None /\ u \notin overlap /\ phase = "run" => Open(users[u])

(* The entry is there for whoever needs it, with the token they have.      *)
EntryInv ==
    /\ \A j \in Jobs :
          job[j].at \in {"listed", "refreshed", "stored"} /\ j[2] \notin overlap =>
              /\ entry[j[2]] # None
              /\ job[j].at = "stored" => entry[j[2]].auth = job[j].token
    /\ \A o \in DOMAIN object :
          Open(o) /\ object[o].user \notin overlap =>
              /\ entry[object[o].user] # None
              /\ object[o].saved => entry[object[o].user].auth = object[o].token

(* What a call has looked up under the lock is still in the map.           *)
ReaderInv ==
    \A r \in {"feedback", "call"} :
        reader[r] # None =>
            /\ reader[r] \in DOMAIN object
            /\ users[object[reader[r]].user] = reader[r] \/ object[reader[r]].user \in overlap

(* Nothing brings an account back but a login.                             *)
GoneInv ==
    \A u \in Users \ overlap :
        gone[u] # None /\ <<"logout", u>> \notin failed =>
            /\ users[u] = None
            /\ entry[u] = None \/ (gone[u] = "logout" /\ entry[u].auth = None)
            /\ job[<<"load", u>>].at \in {"idle", "listed"}
            /\ job[<<"login", u>>].at \in {"idle", "auth"}

IInv == /\ TypeInv /\ MapInv /\ JobInv /\ AloneInv /\ OpenInv /\ EntryInv
        /\ ReaderInv /\ GoneInv /\ LockedCallsLive

(* The inductive invariant implies what the run checks. *)
LEMMA Agreement == IInv => UsersAgree
<1> SUFFICES ASSUME IInv PROVE UsersAgree
  OBVIOUS
<1>1. NoOrphan
  BY DEF IInv, OpenInv, NoOrphan
<1>2. LockedCallsLive
  BY DEF IInv
<1>3. TokenKept
  BY DEF IInv, MapInv, EntryInv, TokenKept, Connected, Open
<1>4. GoneStays
  BY DEF IInv, GoneInv, GoneStays, Connected
<1> QED
  BY <1>1, <1>2, <1>3, <1>4 DEF UsersAgree

(* A program that starts has no user, no addition and no open services. *)
LEMMA InitIInv == Init => IInv
<1> SUFFICES ASSUME Init PROVE IInv
  OBVIOUS
<1>1. \A j \in Jobs : job[j].at = "idle" /\ job[j].obj = None
  BY DEF Init, Idle
<1>2. Idle \in Additions
  BY DEF Idle, Additions
<1>3. TypeInv
  BY <1>2 DEF Init, TypeInv
<1>4. DOMAIN object = {} 
  BY DEF Init
<1>5. MapInv /\ ReaderInv
  BY DEF Init, MapInv, ReaderInv, Readers
<1>6. JobInv /\ AloneInv
  BY <1>1, LifecycleAssumption DEF JobInv, AloneInv
<1>7. OpenInv /\ EntryInv
  BY <1>1, <1>4 DEF OpenInv, EntryInv, Init
<1>8. GoneInv /\ LockedCallsLive
  BY LifecycleAssumption DEF Init, GoneInv, LockedCallsLive
<1> QED
  BY <1>3, <1>5, <1>6, <1>7, <1>8 DEF IInv

-----------------------------------------------------------------------------
(* Lemmas about the objects. *)
LEMMA SameLength ==
    ASSUME NEW S, NEW s \in Seq(S), NEW f \in [DOMAIN s -> S]
    PROVE  f \in Seq(S)
OBVIOUS

(* What the type invariant says of one object. *)
LEMMA ObjectFields ==
    ASSUME TypeInv, NEW o \in DOMAIN object
    PROVE  /\ object[o] \in UserObjects
           /\ o \in Nat /\ o # None
           /\ object[o].user \in Users /\ object[o].open \in BOOLEAN
<1>1. object[o] \in UserObjects
  BY DEF TypeInv
<1>2. o \in Nat
  BY DEF TypeInv
<1> QED
  BY <1>1, <1>2, LifecycleAssumption DEF UserObjects

(* Replacing one object keeps the sequence and all other objects. *)
LEMMA SetObject ==
    ASSUME TypeInv, NEW o \in DOMAIN object, NEW q \in UserObjects,
           object' = [object EXCEPT ![o] = q]
    PROVE  /\ object' \in Seq(UserObjects) /\ DOMAIN object' = DOMAIN object
           /\ \A p \in DOMAIN object : object'[p] = IF p = o THEN q ELSE object[p]
<1>1. object' \in [DOMAIN object -> UserObjects]
  BY ObjectFields
<1> QED
  BY <1>1, SameLength DEF TypeInv

(* What the invariant sees of an object. *)
SameObject(o) ==
    /\ object'[o].user = object[o].user /\ object'[o].open = object[o].open
    /\ object'[o].token = object[o].token /\ object'[o].saved = object[o].saved

SameObjects == DOMAIN object' = DOMAIN object /\ \A o \in DOMAIN object : SameObject(o)

SameEntry(u) == (entry'[u] = None <=> entry[u] = None) /\ (entry[u] # None => entry'[u].auth = entry[u].auth)

(* Steps that change neither the map nor the additions, and of objects and *)
(* entries only what the invariant does not see.                           *)
LEMMA Bystander ==
    ASSUME IInv, TypeInv', SameObjects, \A u \in Users : SameEntry(u),
           UNCHANGED <<users, job, gone>>, overlap \subseteq overlap',
           listed' = listed \/ LoadIdle,
           phase' = phase \/ phase' # "run",
           \A u \in Users : <<"logout", u>> \in failed => <<"logout", u>> \in failed',
           ReaderInv', LockedCallsLive'
    PROVE  IInv'
<1> USE DEF IInv
<1>a. \A o \in DOMAIN object : o \in DOMAIN object' /\ SameObject(o) /\ object[o].user \in Users
  BY ObjectFields DEF SameObjects
<1>b. \A o \in DOMAIN object' : o \in DOMAIN object /\ SameObject(o) /\ object[o].user \in Users
  BY ObjectFields DEF SameObjects
<1>c. \A j \in Jobs : j[2] \in Users /\ (j[1] = "load" => j = <<"load", j[2]>>)
  BY DEF Jobs
<1>1. MapInv'
  BY <1>a DEF MapInv, SameObject
<1>2. JobInv'
  <2> SUFFICES ASSUME NEW j \in Jobs
               PROVE  /\ job[j].obj # None => job[j].at = "built"
                      /\ job[j].at = "built" => job[j].obj \in DOMAIN object' /\ object'[job[j].obj].user = j[2]
                      /\ j[1] = "load" /\ job[j].at # "idle" => j[2] \in listed'
                      /\ j[1] = "login" => job[j].at \notin {"listed", "refreshed"}
    BY DEF JobInv
  <2>1. j[1] = "load" /\ job[j].at # "idle" => j[2] \in listed'
    BY <1>c DEF JobInv, LoadIdle
  <2> QED
    BY <2>1, <1>a DEF JobInv, SameObject
<1>3. AloneInv'
  BY DEF AloneInv
<1>4. OpenInv'
  <2>1. \A o \in DOMAIN object' : ~object'[o].saved => Open(o)'
    BY <1>b DEF OpenInv, SameObject, Open
  <2>2. \A o \in DOMAIN object' :
          Open(o)' /\ object'[o].user \notin overlap' =>
              users'[object'[o].user] = o \/ \E j \in Jobs : job'[j].obj = o
    BY <1>b DEF OpenInv, SameObject, Open
  <2>3. \A j \in Jobs : job'[j].at = "built" /\ j[2] \notin overlap' => object'[job'[j].obj].open
    BY <1>a DEF OpenInv, JobInv, SameObject, Open
  <2>4. \A u \in Users : users'[u] # None /\ u \notin overlap' /\ phase' = "run" => object'[users'[u]].open
    BY <1>a DEF OpenInv, MapInv, SameObject, Open
  <2> QED
    BY <2>1, <2>2, <2>3, <2>4 DEF OpenInv, Open
<1>5. EntryInv'
  <2>1. \A j \in Jobs :
          job'[j].at \in {"listed", "refreshed", "stored"} /\ j[2] \notin overlap' =>
              /\ entry'[j[2]] # None
              /\ job'[j].at = "stored" => entry'[j[2]].auth = job'[j].token
    BY <1>c DEF EntryInv, SameEntry
  <2>2. \A o \in DOMAIN object' :
          Open(o)' /\ object'[o].user \notin overlap' =>
              /\ entry'[object'[o].user] # None
              /\ object'[o].saved => entry'[object'[o].user].auth = object'[o].token
    BY <1>b DEF EntryInv, SameEntry, SameObject, Open
  <2> QED
    BY <2>1, <2>2 DEF EntryInv
<1>6. GoneInv'
  BY DEF GoneInv, SameEntry
<1> QED
  BY <1>1, <1>2, <1>3, <1>4, <1>5, <1>6

(* No new panic: a locked call still finds live services. *)
LEMMA PanicKept ==
    ASSUME LockedCallsLive, panic' = panic, overlap \subseteq overlap',
           phase' = phase \/ phase' # "run"
    PROVE  LockedCallsLive'
BY DEF LockedCallsLive

(* A call that ends, or goes on, with map and objects as they were. *)
LEMMA ReaderKept ==
    ASSUME IInv, SameObjects, users' = users, overlap \subseteq overlap',
           \A r \in {"feedback", "call"} : reader'[r] \in {None, reader[r]}
    PROVE  ReaderInv'
<1> SUFFICES ASSUME NEW r \in {"feedback", "call"}, reader'[r] # None
             PROVE  /\ reader'[r] \in DOMAIN object'
                    /\ \/ users'[object'[reader'[r]].user] = reader'[r]
                       \/ object'[reader'[r]].user \in overlap'
  BY DEF ReaderInv
<1>1. reader'[r] = reader[r] /\ reader[r] \in DOMAIN object
  BY DEF IInv, ReaderInv
<1> QED
  BY <1>1 DEF IInv, ReaderInv, SameObjects, SameObject

(* Steps that leave even the objects and the entries alone.                *)
LEMMA SameTypes ==
    ASSUME TypeInv, UNCHANGED <<entry, session, object, users, job, gone>>,
           reader' = reader \/ \E r \in Readers : \E x : reader' = [reader EXCEPT ![r] = x]
    PROVE  TypeInv' /\ SameObjects /\ \A u \in Users : SameEntry(u)
<1>1. reader' = [r \in Readers |-> reader'[r]]
  BY DEF TypeInv
<1> QED
  BY <1>1 DEF TypeInv, SameObjects, SameObject, SameEntry

(* Steps of the bridge that touch neither users nor vault. *)
LEMMA BridgeSteps ==
    ASSUME IInv, LoadEnds \/ AddStatusObserver \/ CloseServers \/ CancelAndWait
    PROVE  IInv'
<1>1. UNCHANGED <<entry, session, object, users, job, gone, reader, panic, overlap, failed>>
  BY DEF LoadEnds, AddStatusObserver, CloseServers, CancelAndWait
<1>2. (listed' = listed \/ LoadIdle) /\ (phase' = phase \/ phase' # "run")
  BY DEF LoadEnds, AddStatusObserver, CloseServers, CancelAndWait
<1>3. TypeInv' /\ SameObjects /\ \A u \in Users : SameEntry(u)
  BY <1>1, SameTypes DEF IInv
<1>4. ReaderInv' /\ LockedCallsLive'
  BY <1>1, <1>2, <1>3, ReaderKept, PanicKept DEF IInv
<1> QED
  BY <1>1, <1>2, <1>3, <1>4, Bystander

(* A call looks its user up under the lock. *)
LEMMA LookupStep ==
    ASSUME IInv, NEW r \in {"feedback", "call", "repair"}, NEW u \in Users, Lookup(r, u)
    PROVE  IInv'
<1>1. UNCHANGED <<entry, session, object, users, job, listed, gone, phase, panic, overlap, failed>>
  BY DEF Lookup
<1>2. reader' = [reader EXCEPT ![r] = users[u]]
  BY DEF Lookup
<1>3. TypeInv' /\ SameObjects /\ \A v \in Users : SameEntry(v)
  BY <1>1, <1>2, SameTypes DEF IInv, Readers
<1>4. ReaderInv'
  BY <1>1, <1>2 DEF IInv, ReaderInv, MapInv, TypeInv, Readers
<1>5. LockedCallsLive'
  BY <1>1, PanicKept DEF IInv
<1> QED
  BY <1>1, <1>3, <1>4, <1>5, Bystander

(* The call uses the services of the object it has looked up. *)
LEMMA CallStep ==
    ASSUME IInv, NEW r \in Readers, CallServices(r)
    PROVE  IInv'
<1>1. UNCHANGED <<entry, session, object, users, job, listed, gone, phase, overlap, failed>>
  BY DEF CallServices
<1>2. r \in {"call", "repair"} /\ reader' = [reader EXCEPT ![r] = None]
  BY DEF CallServices, Leave
<1>3. TypeInv' /\ SameObjects /\ \A v \in Users : SameEntry(v)
  BY <1>1, <1>2, SameTypes DEF IInv
<1>4. ReaderInv'
  BY <1>1, <1>2, <1>3, ReaderKept DEF IInv, TypeInv, Readers
<1>5. LockedCallsLive'
  <2>1. CASE panic' = panic
    BY <1>1, <2>1, PanicKept DEF IInv
  <2>2. CASE panic' = "repair"
    BY <2>2 DEF LockedCallsLive
  <2>3. CASE panic' = "call" /\ r = "call" /\ ~Open(reader["call"])
    <3>1. reader["call"] \in DOMAIN object
      BY <2>3 DEF CallServices, IInv, ReaderInv
    <3>2. phase # "run" \/ overlap # {}
      <4> SUFFICES ASSUME phase = "run", overlap = {} PROVE FALSE
        OBVIOUS
      <4>1. users[object[reader["call"]].user] = reader["call"] /\ object[reader["call"]].user \in Users
        BY <2>3, <3>1, ObjectFields DEF CallServices, IInv, ReaderInv
      <4> QED
        BY <2>3, <4>1 DEF IInv, OpenInv, CallServices
    <3> QED
      BY <3>2, <1>1, <2>3 DEF LockedCallsLive
  <2> QED
    BY <1>2, <2>1, <2>2, <2>3 DEF CallServices, Panics
<1> QED
  BY <1>1, <1>3, <1>4, <1>5, Bystander

-----------------------------------------------------------------------------
(* Events of an object touch its queue and what is being handled.          *)
LEMMA QueueStep ==
    ASSUME TypeInv, NEW o \in DOMAIN object, NEW q \in Seq(UserEvents), NEW h \in {None} \cup UserEvents,
           object' = [object EXCEPT ![o] = [@ EXCEPT !.handling = h, !.queue = q]]
    PROVE  object' \in Seq(UserObjects) /\ SameObjects
<1> DEFINE n == [object[o] EXCEPT !.handling = h, !.queue = q]
<1>1. object[o] \in UserObjects
  BY ObjectFields
<1>2. n \in UserObjects
  BY <1>1 DEF UserObjects
<1>3. /\ n.user = object[o].user /\ n.open = object[o].open
      /\ n.token = object[o].token /\ n.saved = object[o].saved
  BY <1>1 DEF UserObjects
<1>4. object' = [object EXCEPT ![o] = n]
  OBVIOUS
<1> HIDE DEF n
<1> QED
  BY <1>2, <1>3, <1>4, SetObject DEF SameObjects, SameObject

(* Taking an event from a queue. *)
LEMMA TailType ==
    ASSUME NEW S, NEW s \in Seq(S), s # <<>>
    PROVE  Tail(s) \in Seq(S) /\ Head(s) \in S
OBVIOUS

(* Adding an event to a queue. *)
LEMMA AppendType ==
    ASSUME NEW S, NEW s \in Seq(S), NEW e \in S
    PROVE  Append(s, e) \in Seq(S)
OBVIOUS

(* An event enters the queue of an object. *)
LEMMA PushStep ==
    ASSUME TypeInv, NEW o \in DOMAIN object, NEW e \in UserEvents, object' = Push(o, e)
    PROVE  object' \in Seq(UserObjects) /\ SameObjects
<1>1. CASE ~object[o].open
  BY <1>1 DEF Push, TypeInv, SameObjects, SameObject
<1>2. CASE object[o].open
  <2> DEFINE n == [object[o] EXCEPT !.queue = Append(@, e)]
  <2>1. object[o] \in UserObjects
    BY ObjectFields
  <2>2. object[o].queue \in Seq(UserEvents)
    BY <2>1 DEF UserObjects
  <2>3. Append(object[o].queue, e) \in Seq(UserEvents)
    BY <2>2, AppendType
  <2>4. n \in UserObjects
    BY <2>1, <2>3 DEF UserObjects
  <2>5. /\ n.user = object[o].user /\ n.open = object[o].open
        /\ n.token = object[o].token /\ n.saved = object[o].saved
    BY <2>1 DEF UserObjects
  <2>6. object' = [object EXCEPT ![o] = n]
    BY <1>2 DEF Push
  <2> HIDE DEF n
  <2> QED
    BY <2>4, <2>5, <2>6, SetObject DEF SameObjects, SameObject
<1> QED
  BY <1>1, <1>2

(* The handler of an object is done with its event. *)
LEMMA HandledStep ==
    ASSUME TypeInv, NEW o \in DOMAIN object, object' = [object EXCEPT ![o].handling = None]
    PROVE  object' \in Seq(UserObjects) /\ SameObjects
<1> DEFINE n == [object[o] EXCEPT !.handling = None]
<1>1. object[o] \in UserObjects
  BY ObjectFields
<1>2. n \in UserObjects
  BY <1>1 DEF UserObjects
<1>3. /\ n.user = object[o].user /\ n.open = object[o].open
      /\ n.token = object[o].token /\ n.saved = object[o].saved
  BY <1>1 DEF UserObjects
<1>4. object' = [object EXCEPT ![o] = n]
  OBVIOUS
<1> HIDE DEF n
<1> QED
  BY <1>2, <1>3, <1>4, SetObject DEF SameObjects, SameObject

(* A deauth puts one event in the queue of an object. *)
LEMMA DeauthQueues ==
    ASSUME TypeInv, NEW s \in DOMAIN session, Deauth(s)
    PROVE  object' \in Seq(UserObjects) /\ SameObjects
<1> DEFINE n(o) == [object[o] EXCEPT !.queue = Append(@, "deauth")]
<1>1. ASSUME NEW o \in DOMAIN object
      PROVE  /\ n(o) \in UserObjects
             /\ n(o).user = object[o].user /\ n(o).open = object[o].open
             /\ n(o).token = object[o].token /\ n(o).saved = object[o].saved
  <2>1. object[o] \in UserObjects
    BY ObjectFields
  <2>2. object[o].queue \in Seq(UserEvents) /\ "deauth" \in UserEvents
    BY <2>1 DEF UserObjects, UserEvents
  <2>3. Append(object[o].queue, "deauth") \in Seq(UserEvents)
    BY <2>2, AppendType
  <2> QED
    BY <2>1, <2>3 DEF UserObjects
<1>2. object' = [o \in DOMAIN object |->
                   IF object[o].token[1] = s /\ Running /\ Open(o) THEN n(o) ELSE object[o]]
  BY DEF Deauth
<1> HIDE DEF n
<1>3. object' \in [DOMAIN object -> UserObjects]
  BY <1>1, <1>2, ObjectFields
<1>4. object' \in Seq(UserObjects)
  BY <1>3, SameLength DEF TypeInv
<1>5. SameObjects
  BY <1>1, <1>2 DEF SameObjects, SameObject
<1> QED
  BY <1>4, <1>5

(* Taking and handling events that change nothing else. *)
LEMMA EventSteps ==
    ASSUME IInv, NEW o \in DOMAIN object, UserBadEvent(o) \/ TakeEvent(o) \/ handleUserBadEvent(o)
    PROVE  IInv'
<1>1. UNCHANGED <<entry, session, users, job, listed, gone, reader, phase, overlap, failed>>
  BY DEF UserBadEvent, TakeEvent, handleUserBadEvent, others
<1>2. object' \in Seq(UserObjects) /\ SameObjects
  <2>1. CASE UserBadEvent(o)
    BY <2>1, PushStep DEF UserBadEvent, IInv, UserEvents
  <2>2. CASE TakeEvent(o)
    <3>1. object[o].queue \in Seq(UserEvents) /\ object[o].queue # <<>>
      BY <2>2, ObjectFields DEF IInv, UserObjects, TakeEvent
    <3>2. Tail(object[o].queue) \in Seq(UserEvents) /\ Head(object[o].queue) \in UserEvents
      BY <3>1, TailType
    <3>3. object' = [object EXCEPT ![o] = [@ EXCEPT !.handling = Head(object[o].queue),
                                                    !.queue = Tail(object[o].queue)]]
      BY <2>2 DEF TakeEvent
    <3> QED
      BY <3>2, <3>3, QueueStep DEF IInv
  <2>3. CASE handleUserBadEvent(o)
    BY <2>3, HandledStep DEF handleUserBadEvent, IInv
  <2> QED
    BY <2>1, <2>2, <2>3
<1>3. TypeInv' /\ \A u \in Users : SameEntry(u)
  BY <1>1, <1>2 DEF IInv, TypeInv, SameEntry
<1>4. ReaderInv'
  BY <1>1, <1>2, ReaderKept
<1>5. LockedCallsLive'
  <2>1. CASE panic' = panic
    BY <1>1, <2>1, PanicKept DEF IInv
  <2>2. CASE panic' = "handler"
    BY <2>2 DEF LockedCallsLive
  <2> QED
    BY <2>1, <2>2 DEF UserBadEvent, TakeEvent, handleUserBadEvent, Panics
<1> QED
  BY <1>1, <1>2, <1>3, <1>4, <1>5, Bystander

(* The API client reports that its session is over. *)
LEMMA DeauthStep ==
    ASSUME IInv, NEW s \in DOMAIN session, Deauth(s)
    PROVE  IInv'
<1>1. UNCHANGED <<entry, users, job, listed, gone, reader, phase, panic, overlap, failed>>
  BY DEF Deauth
<1>2. object' \in Seq(UserObjects) /\ SameObjects
  BY DeauthQueues DEF IInv
<1>3. session' \in [1 .. MaxSessions -> {None, Ended} \cup Nat]
  BY DEF Deauth, IInv, TypeInv
<1>4. TypeInv' /\ \A u \in Users : SameEntry(u)
  BY <1>1, <1>2, <1>3 DEF IInv, TypeInv, SameEntry
<1>5. ReaderInv' /\ LockedCallsLive'
  BY <1>1, <1>2, ReaderKept, PanicKept DEF IInv
<1> QED
  BY <1>1, <1>2, <1>4, <1>5, Bystander

(* Setting the resync flag leaves the token of the entry alone. *)
LEMMA ResyncFlag ==
    ASSUME TypeInv, NEW u \in Users, entry[u] # None, NEW b \in BOOLEAN,
           entry' = [entry EXCEPT ![u].resync = b]
    PROVE  entry' \in [Users -> {None} \cup Entries] /\ \A v \in Users : SameEntry(v)
<1> DEFINE e == [entry[u] EXCEPT !.resync = b]
<1>1. entry[u] \in Entries
  BY DEF TypeInv
<1>2. e \in Entries /\ e.auth = entry[u].auth
  BY <1>1 DEF Entries
<1>3. entry' = [entry EXCEPT ![u] = e]
  OBVIOUS
<1> HIDE DEF e
<1>4. entry' \in [Users -> {None} \cup Entries]
  BY <1>2, <1>3 DEF TypeInv
<1>5. e # None
  BY <1>2, LifecycleAssumption
<1> QED
  BY <1>2, <1>3, <1>4, <1>5 DEF SameEntry, TypeInv

(* Repair asks a user that is not connected to resync at its next login. *)
LEMMA RepairStep ==
    ASSUME IInv, NEW u \in Users, Repair(u)
    PROVE  IInv'
<1>1. UNCHANGED <<session, object, users, job, listed, gone, reader, phase, panic, overlap, failed>>
  BY DEF Repair
<1>2. entry' \in [Users -> {None} \cup Entries] /\ \A v \in Users : SameEntry(v)
  BY ResyncFlag DEF Repair, IInv
<1>3. TypeInv' /\ SameObjects
  BY <1>1, <1>2 DEF IInv, TypeInv, SameObjects, SameObject
<1>4. ReaderInv' /\ LockedCallsLive'
  BY <1>1, <1>3, ReaderKept, PanicKept DEF IInv
<1> QED
  BY <1>1, <1>2, <1>3, <1>4, Bystander

(* A user that was asked to resync clears its flag and does it. *)
LEMMA VerifyStep ==
    ASSUME IInv, NEW o \in DOMAIN object, VerifyResyncAndExecute(o)
    PROVE  IInv'
<1>1. UNCHANGED <<session, users, job, listed, gone, reader, phase, overlap, failed>>
  BY DEF VerifyResyncAndExecute, others
<1>2. object' \in Seq(UserObjects) /\ SameObjects
  BY HandledStep DEF VerifyResyncAndExecute, IInv
<1>3. entry' \in [Users -> {None} \cup Entries] /\ \A v \in Users : SameEntry(v)
  <2>1. CASE entry' = entry
    BY <2>1 DEF IInv, TypeInv, SameEntry
  <2>2. CASE entry[object[o].user] # None /\ entry' = [entry EXCEPT ![object[o].user].resync = FALSE]
    BY <2>2, ResyncFlag, ObjectFields DEF IInv
  <2> QED
    BY <2>1, <2>2 DEF VerifyResyncAndExecute
<1>4. TypeInv'
  BY <1>1, <1>2, <1>3 DEF IInv, TypeInv
<1>5. ReaderInv'
  BY <1>1, <1>2, ReaderKept
<1>6. LockedCallsLive'
  <2>1. CASE panic' = panic
    BY <1>1, <2>1, PanicKept DEF IInv
  <2>2. CASE panic' = "handler"
    BY <2>2 DEF LockedCallsLive
  <2> QED
    BY <2>1, <2>2 DEF VerifyResyncAndExecute, Panics
<1> QED
  BY <1>1, <1>2, <1>3, <1>4, <1>5, <1>6, Bystander

-----------------------------------------------------------------------------
(* One addition goes on, and may change the entry of its user. *)
LEMMA AdditionStep ==
    ASSUME IInv, TypeInv', NEW j \in Jobs, job[j].at # "built", j[1] = "load" => job[j].at # "idle",
           \/ job[j].at # "idle" \/ j[2] \in overlap'
           \/ \A k \in Jobs : k[2] = j[2] => job[k].at = "idle",
           UNCHANGED <<object, users, listed, reader>>, overlap \subseteq overlap',
           phase' = phase,
           \A u \in Users : <<"logout", u>> \in failed => <<"logout", u>> \in failed',
           \A k \in Jobs \ {j} : job'[k] = job[k],
           \A u \in Users \ {j[2]} : entry'[u] = entry[u] /\ gone'[u] = gone[u],
           job'[j].at # "built", job'[j].obj = None,
           j[1] = "login" => job'[j].at \notin {"listed", "refreshed"},
           j[2] \notin overlap' =>
               /\ job'[j].at \notin {"idle", "listed"} => users[j[2]] = None
               /\ job'[j].at \in {"listed", "refreshed", "stored"} => entry'[j[2]] # None
               /\ job'[j].at = "stored" => entry'[j[2]].auth = job'[j].token
               /\ entry'[j[2]] # entry[j[2]] => users[j[2]] = None
               /\ (gone'[j[2]] # None /\ <<"logout", j[2]>> \notin failed') =>
                     /\ users[j[2]] = None
                     /\ entry'[j[2]] = None \/ (gone'[j[2]] = "logout" /\ entry'[j[2]].auth = None)
                     /\ job'[<<"load", j[2]>>].at \in {"idle", "listed"}
                     /\ job'[<<"login", j[2]>>].at \in {"idle", "auth"},
           LockedCallsLive'
    PROVE  IInv'
<1> USE DEF IInv
<1>a. \A k \in Jobs : k[2] \in Users
  BY DEF Jobs
<1>b. \A k \in Jobs : k # j /\ k[2] = j[2] /\ j[2] \notin overlap' => job[k].at = "idle"
  BY DEF AloneInv
<1>c. \A k \in Jobs : job'[k].obj # None \/ job[k].obj # None => k # j /\ job'[k] = job[k]
  BY DEF JobInv
<1>d. \A k \in Jobs : job'[k].at = "built" => k # j /\ job'[k] = job[k]
  OBVIOUS
<1>1. MapInv' /\ ReaderInv'
  BY DEF MapInv, ReaderInv
<1>2. JobInv'
  <2> SUFFICES ASSUME NEW k \in Jobs
               PROVE  /\ job'[k].obj # None => job'[k].at = "built"
                      /\ job'[k].at = "built" => job'[k].obj \in DOMAIN object' /\ object'[job'[k].obj].user = k[2]
                      /\ k[1] = "load" /\ job'[k].at # "idle" => k[2] \in listed'
                      /\ k[1] = "login" => job'[k].at \notin {"listed", "refreshed"}
    BY DEF JobInv
  <2>1. CASE k = j
    BY <2>1 DEF JobInv
  <2>2. CASE k # j
    BY <2>2 DEF JobInv
  <2> QED
    BY <2>1, <2>2
<1>3. AloneInv'
  <2>1. ASSUME NEW k \in Jobs, job'[k].at \notin {"idle", "listed"}, k[2] \notin overlap'
        PROVE  users'[k[2]] = None
    BY <2>1 DEF AloneInv
  <2>2. ASSUME NEW k \in Jobs, NEW l \in Jobs, k # l, k[2] = l[2], k[2] \notin overlap'
        PROVE  job'[k].at = "idle" \/ job'[l].at = "idle"
    BY <2>2, <1>b DEF AloneInv
  <2> QED
    BY <2>1, <2>2 DEF AloneInv
<1>4. OpenInv'
  <2>1. \A o \in DOMAIN object' : ~object'[o].saved => Open(o)'
    BY DEF OpenInv, Open
  <2>2. ASSUME NEW o \in DOMAIN object', Open(o)', object'[o].user \notin overlap'
        PROVE  users'[object'[o].user] = o \/ \E k \in Jobs : job'[k].obj = o
    <3>1. o # None
      BY ObjectFields
    <3>2. users[object[o].user] = o \/ \E k \in Jobs : job[k].obj = o
      BY <2>2 DEF OpenInv, Open
    <3>3. CASE users[object[o].user] = o
      BY <3>3
    <3>4. ASSUME NEW k \in Jobs, job[k].obj = o PROVE job'[k].obj = o
      BY <3>4, <3>1, <1>c
    <3> QED
      BY <3>2, <3>3, <3>4
  <2>3. \A k \in Jobs : job'[k].at = "built" /\ k[2] \notin overlap' => object'[job'[k].obj].open
    BY <1>d DEF OpenInv, Open
  <2>4. \A u \in Users : users'[u] # None /\ u \notin overlap' /\ phase' = "run" => object'[users'[u]].open
    BY DEF OpenInv, Open
  <2> QED
    BY <2>1, <2>2, <2>3, <2>4 DEF OpenInv, Open
<1>5. EntryInv'
  <2>1. ASSUME NEW k \in Jobs, job'[k].at \in {"listed", "refreshed", "stored"}, k[2] \notin overlap'
        PROVE  /\ entry'[k[2]] # None
               /\ job'[k].at = "stored" => entry'[k[2]].auth = job'[k].token
    <3>1. CASE k = j
      BY <2>1, <3>1
    <3>2. CASE k # j /\ k[2] = j[2]
      BY <2>1, <3>2, <1>b
    <3>3. CASE k # j /\ k[2] # j[2]
      BY <2>1, <3>3, <1>a DEF EntryInv
    <3> QED
      BY <3>1, <3>2, <3>3
  <2>2. ASSUME NEW o \in DOMAIN object', Open(o)', object'[o].user \notin overlap'
        PROVE  /\ entry'[object'[o].user] # None
               /\ object'[o].saved => entry'[object'[o].user].auth = object'[o].token
    <3>1. o # None /\ object[o].user \in Users
      BY ObjectFields
    <3>2. CASE object[o].user # j[2]
      BY <2>2, <3>1, <3>2 DEF EntryInv, Open
    <3>3. CASE object[o].user = j[2]
      <4>1. users[j[2]] = o \/ \E k \in Jobs : job[k].obj = o
        BY <2>2, <3>3 DEF OpenInv, Open
      <4>2. ASSUME NEW k \in Jobs, job[k].obj = o PROVE FALSE
        <5>1. job[k].at = "built" /\ object[o].user = k[2]
          BY <4>2, <3>1 DEF JobInv
        <5> QED
          BY <5>1, <3>3, <2>2, <1>b
      <4>3. users[j[2]] # None
        BY <4>1, <4>2, <3>1
      <4>4. entry'[j[2]] = entry[j[2]]
        BY <4>3, <2>2, <3>3
      <4> QED
        BY <4>4, <2>2, <3>3 DEF EntryInv, Open
    <3> QED
      BY <3>2, <3>3
  <2> QED
    BY <2>1, <2>2 DEF EntryInv
<1>6. GoneInv'
  <2> SUFFICES ASSUME NEW u \in Users \ overlap', gone'[u] # None, <<"logout", u>> \notin failed'
               PROVE  /\ users'[u] = None
                      /\ entry'[u] = None \/ (gone'[u] = "logout" /\ entry'[u].auth = None)
                      /\ job'[<<"load", u>>].at \in {"idle", "listed"}
                      /\ job'[<<"login", u>>].at \in {"idle", "auth"}
    BY DEF GoneInv
  <2>1. CASE u = j[2]
    BY <2>1
  <2>2. CASE u # j[2]
    <3>1. <<"load", u>> \in Jobs \ {j} /\ <<"login", u>> \in Jobs \ {j}
      BY <2>2 DEF Jobs
    <3> QED
      BY <2>2, <3>1 DEF GoneInv
  <2> QED
    BY <2>1, <2>2
<1> QED
  BY <1>1, <1>2, <1>3, <1>4, <1>5, <1>6

(* One addition changes, all others stay. *)
LEMMA SetJob ==
    ASSUME TypeInv, NEW j \in Jobs, NEW a \in Additions, job' = [job EXCEPT ![j] = a]
    PROVE  /\ job' \in [Jobs -> Additions] /\ job'[j] = a
           /\ \A k \in Jobs \ {j} : job'[k] = job[k]
BY DEF TypeInv

(* An addition ends. *)
LEMMA DoneJob ==
    ASSUME TypeInv, NEW j \in Jobs, Done(j)
    PROVE  /\ job' \in [Jobs -> Additions] /\ job'[j].at = "idle" /\ job'[j].obj = None
           /\ \A k \in Jobs \ {j} : job'[k] = job[k]
<1>1. Idle \in Additions /\ Idle.at = "idle" /\ Idle.obj = None
  BY DEF Idle, Additions
<1> QED
  BY <1>1, SetJob DEF Done

(* An entry gets a token, all other entries stay. *)
LEMMA SetEntry ==
    ASSUME TypeInv, NEW u \in Users, entry[u] # None, NEW t \in {None} \cup Tokens,
           NEW f, f = [entry EXCEPT ![u].auth = t]
    PROVE  /\ f \in [Users -> {None} \cup Entries] /\ f[u] # None /\ f[u].auth = t
           /\ \A v \in Users \ {u} : f[v] = entry[v]
<1> DEFINE e == [entry[u] EXCEPT !.auth = t]
<1>1. entry[u] \in Entries
  BY DEF TypeInv
<1>2. e \in Entries /\ e.auth = t
  BY <1>1 DEF Entries
<1>3. f = [entry EXCEPT ![u] = e]
  OBVIOUS
<1> HIDE DEF e
<1> QED
  BY <1>2, <1>3, LifecycleAssumption DEF TypeInv

(* An entry loses its token, all other entries stay. *)
LEMMA ClearedEntry ==
    ASSUME TypeInv, NEW u \in Users, entry[u] # None
    PROVE  /\ Cleared(u) \in [Users -> {None} \cup Entries] /\ Cleared(u)[u] # None
           /\ Cleared(u)[u].auth = None /\ \A v \in Users \ {u} : Cleared(u)[v] = entry[v]
<1> DEFINE e == [entry[u] EXCEPT !.auth = None]
<1>1. entry[u] \in Entries
  BY DEF TypeInv
<1>2. e \in Entries /\ e.auth = None
  BY <1>1 DEF Entries
<1>3. Cleared(u) = [entry EXCEPT ![u] = e]
  BY DEF Cleared
<1> HIDE DEF e
<1> QED
  BY <1>2, <1>3, LifecycleAssumption DEF TypeInv

(* Ending a session keeps the type of the sessions. *)
LEMMA EndSessionType ==
    ASSUME TypeInv, NEW t \in {None} \cup Tokens
    PROVE  EndSession(t) \in [1 .. MaxSessions -> {None, Ended} \cup Nat]
BY DEF TypeInv, EndSession, Valid, Tokens

(* A login is given up before its user is added. *)
LEMMA AbortStep ==
    ASSUME IInv, NEW u \in Users, LoginAborted(u)
    PROVE  IInv'
<1> DEFINE j == <<"login", u>>
<1>1. j \in Jobs /\ j[2] = u /\ j[1] = "login" /\ job[j].at = "auth" /\ Done(j)
  BY DEF LoginAborted, Jobs
<1>2. UNCHANGED <<entry, object, users, listed, reader, phase, gone, panic, overlap, failed>>
  BY DEF LoginAborted, others
<1>3. /\ job' \in [Jobs -> Additions] /\ job'[j].at = "idle" /\ job'[j].obj = None
      /\ \A k \in Jobs \ {j} : job'[k] = job[k]
  BY <1>1, DoneJob DEF IInv
<1>4. session' \in [1 .. MaxSessions -> {None, Ended} \cup Nat]
  <2>1. job[j].token \in {None} \cup Tokens
    BY <1>1 DEF IInv, TypeInv, Additions
  <2> QED
    BY <2>1, EndSessionType DEF LoginAborted, IInv
<1>5. TypeInv'
  BY <1>2, <1>3, <1>4 DEF IInv, TypeInv
<1>6. LockedCallsLive'
  BY <1>2, PanicKept DEF IInv
<1>7. <<"load", u>> \in Jobs \ {j}
  BY DEF Jobs
<1> HIDE DEF j
<1>8. j = <<"login", u>>
  BY DEF j
<1>9. u \notin overlap /\ gone[u] # None /\ <<"logout", u>> \notin failed =>
        /\ users[u] = None
        /\ entry[u] = None \/ (gone[u] = "logout" /\ entry[u].auth = None)
        /\ job'[<<"load", u>>].at \in {"idle", "listed"}
        /\ job'[<<"login", u>>].at \in {"idle", "auth"}
  BY <1>3, <1>7, <1>8 DEF IInv, GoneInv
<1> QED
  BY <1>1, <1>2, <1>3, <1>5, <1>6, <1>9, AdditionStep

(* A load fails after its refresh; the entry keeps its token. *)
LEMMA LoadFailsStep ==
    ASSUME IInv, NEW u \in Users, LoadFails(u)
    PROVE  IInv'
<1> DEFINE j == <<"load", u>>
<1>1. j \in Jobs /\ j[2] = u /\ j[1] = "load" /\ job[j].at = "auth" /\ Done(j)
  BY DEF LoadFails, Jobs
<1>2. UNCHANGED <<entry, session, object, users, listed, reader, phase, gone, panic, overlap>>
  BY DEF LoadFails, others
<1>3. /\ job' \in [Jobs -> Additions] /\ job'[j].at = "idle" /\ job'[j].obj = None
      /\ \A k \in Jobs \ {j} : job'[k] = job[k]
  BY <1>1, DoneJob DEF IInv
<1>4. failed \subseteq failed'
  BY DEF LoadFails
<1>5. TypeInv'
  BY <1>2, <1>3 DEF IInv, TypeInv
<1>6. LockedCallsLive'
  BY <1>2, PanicKept DEF IInv
<1>7. <<"login", u>> \in Jobs \ {j}
  BY DEF Jobs
<1> HIDE DEF j
<1>8. j = <<"load", u>>
  BY DEF j
<1>9. u \notin overlap /\ gone[u] # None /\ <<"logout", u>> \notin failed' =>
        /\ users[u] = None
        /\ entry[u] = None \/ (gone[u] = "logout" /\ entry[u].auth = None)
        /\ job'[<<"load", u>>].at \in {"idle", "listed"}
        /\ job'[<<"login", u>>].at \in {"idle", "auth"}
  BY <1>3, <1>4, <1>7, <1>8 DEF IInv, GoneInv
<1> QED
  BY <1>1, <1>2, <1>3, <1>4, <1>5, <1>6, <1>9, AdditionStep

(* A load refreshes the token of its entry, or fails to. *)
LEMMA RefreshStep ==
    ASSUME IInv, NEW u \in Users, NewClientWithRefresh(u)
    PROVE  IInv'
<1> DEFINE j == <<"load", u>>
           t == entry[u].auth
<1>1. /\ j \in Jobs /\ j[2] = u /\ j[1] = "load" /\ job[j].at = "listed"
      /\ <<"login", u>> \in Jobs \ {j}
  BY DEF NewClientWithRefresh, Jobs
<1>2. UNCHANGED <<object, users, listed, reader, phase, gone, overlap>>
  BY DEF NewClientWithRefresh, others
<1>3. ASSUME entry[u] = None, Panics("wiped entry"), UNCHANGED <<entry, session, job, failed>>
      PROVE  IInv'
  <2>1. TypeInv' /\ SameObjects /\ \A v \in Users : SameEntry(v)
    BY <1>2, <1>3, SameTypes DEF IInv
  <2>2. overlap # {}
    BY <1>1, <1>3 DEF IInv, EntryInv
  <2>3. LockedCallsLive'
    BY <2>2, <1>2, <1>3 DEF LockedCallsLive, Panics
  <2>4. ReaderInv'
    BY <1>2, <2>1, ReaderKept
  <2> QED
    BY <1>2, <1>3, <2>1, <2>3, <2>4, Bystander
<1>4. ASSUME Done(j), UNCHANGED <<session, panic>>, failed \subseteq failed',
             entry' = entry \/ (entry' = Cleared(u) /\ entry[u] # None /\ users[u] = None)
      PROVE  IInv'
  <2>1. /\ job' \in [Jobs -> Additions] /\ job'[j].at = "idle" /\ job'[j].obj = None
        /\ \A k \in Jobs \ {j} : job'[k] = job[k]
    BY <1>1, <1>4, DoneJob DEF IInv
  <2>2. /\ entry' \in [Users -> {None} \cup Entries]
        /\ \A v \in Users \ {u} : entry'[v] = entry[v]
        /\ entry'[u] = entry[u] \/ (users[u] = None /\ entry'[u].auth = None /\ entry[u] # None)
    BY <1>4, ClearedEntry DEF IInv, TypeInv
  <2>3. TypeInv'
    BY <1>2, <1>4, <2>1, <2>2 DEF IInv, TypeInv
  <2>4. LockedCallsLive'
    BY <1>2, <1>4, PanicKept DEF IInv
  <2>5. u \notin overlap /\ gone[u] # None /\ <<"logout", u>> \notin failed' =>
        /\ users[u] = None
        /\ entry'[u] = None \/ (gone[u] = "logout" /\ entry'[u].auth = None)
        /\ job'[<<"load", u>>].at \in {"idle", "listed"}
        /\ job'[<<"login", u>>].at \in {"idle", "auth"}
    BY <1>1, <1>4, <2>1, <2>2 DEF IInv, GoneInv
  <2> HIDE DEF j
  <2> QED
    BY <1>1, <1>2, <1>4, <2>1, <2>2, <2>3, <2>4, <2>5, AdditionStep
<1>5. ASSUME entry[u] # None, ~Skipped(u), Valid(t), UNCHANGED <<entry, panic, failed>>,
             session' = [session EXCEPT ![t[1]] = @ + 1],
             job' = [job EXCEPT ![j] = [@ EXCEPT !.at = "refreshed", !.token = <<t[1], session[t[1]] + 1>>]]
      PROVE  IInv'
  <2> DEFINE a == [job[j] EXCEPT !.at = "refreshed", !.token = <<t[1], session[t[1]] + 1>>]
  <2>1. t # None /\ t \in Tokens /\ users[u] = None /\ session[t[1]] = t[2]
    BY <1>5 DEF IInv, TypeInv, Entries, Skipped, Connected, Valid
  <2>2. t[1] \in 1 .. MaxSessions /\ session[t[1]] + 1 \in Nat
    BY <2>1 DEF Tokens
  <2>3. <<t[1], session[t[1]] + 1>> \in Tokens
    BY <2>2 DEF Tokens
  <2>4. job[j] \in Additions /\ job[j].obj = None
    BY <1>1 DEF IInv, TypeInv, JobInv
  <2>5. a \in Additions /\ a.at = "refreshed" /\ a.obj = None
    BY <2>3, <2>4 DEF Additions
  <2>6. job' = [job EXCEPT ![j] = a]
    BY <1>5
  <2> HIDE DEF a
  <2>7. /\ job' \in [Jobs -> Additions] /\ job'[j].at = "refreshed" /\ job'[j].obj = None
        /\ \A k \in Jobs \ {j} : job'[k] = job[k]
    BY <1>1, <2>5, <2>6, SetJob DEF IInv
  <2>8. session' \in [1 .. MaxSessions -> {None, Ended} \cup Nat]
    BY <1>5, <2>2 DEF IInv, TypeInv
  <2>9. TypeInv'
    BY <1>2, <1>5, <2>7, <2>8 DEF IInv, TypeInv
  <2>10. LockedCallsLive'
    BY <1>2, <1>5, PanicKept DEF IInv
  <2>11. u \notin overlap => gone[u] = None \/ <<"logout", u>> \in failed
    BY <1>5, <2>1 DEF IInv, GoneInv
  <2> HIDE DEF j
  <2> QED
    BY <1>1, <1>2, <1>5, <2>1, <2>7, <2>9, <2>10, <2>11, AdditionStep
<1> QED
  <2>1. CASE entry[u] = None /\ Panics("wiped entry") /\ UNCHANGED <<entry, session, job, failed, faults>>
    BY <1>3, <2>1
  <2>2. CASE Skipped(u) /\ Done(j) /\ UNCHANGED <<entry, session, failed, faults, panic>>
    BY <1>4, <2>2
  <2>3. CASE Done(j) /\ failed' = failed \cup {<<"load", u>>} /\ UNCHANGED <<entry, session, faults, panic>>
    BY <1>4, <2>3
  <2>4. CASE /\ entry[u] # None /\ ~Skipped(u) /\ entry' = Cleared(u) /\ Done(j)
             /\ UNCHANGED <<session, failed, faults, panic>>
    <3>1. users[u] = None
      BY <2>4 DEF Skipped, Connected
    <3> QED
      BY <1>4, <2>4, <3>1
  <2>5. CASE /\ entry[u] # None /\ ~Skipped(u) /\ up /\ Valid(t)
             /\ session' = [session EXCEPT ![t[1]] = @ + 1]
             /\ job' = [job EXCEPT ![j] = [@ EXCEPT !.at = "refreshed", !.token = <<t[1], session[t[1]] + 1>>]]
             /\ UNCHANGED <<entry, failed, faults, panic>>
    BY <1>5, <2>5
  <2> QED
    BY <2>1, <2>2, <2>3, <2>4, <2>5 DEF NewClientWithRefresh

(* A load stores the refreshed token. *)
LEMMA SetAuthStep ==
    ASSUME IInv, NEW u \in Users, SetAuth(u)
    PROVE  IInv'
<1> DEFINE j == <<"load", u>>
<1>1. /\ j \in Jobs /\ j[2] = u /\ j[1] = "load" /\ job[j].at = "refreshed"
      /\ <<"login", u>> \in Jobs \ {j}
  BY DEF SetAuth, Jobs
<1>2. UNCHANGED <<session, object, users, listed, reader, phase, gone, overlap, failed>>
  BY DEF SetAuth, others
<1>3. CASE entry[u] = None
  <2>1. Panics("wiped entry") /\ UNCHANGED <<entry, job>>
    BY <1>3 DEF SetAuth
  <2>2. TypeInv' /\ SameObjects /\ \A v \in Users : SameEntry(v)
    BY <1>2, <2>1, SameTypes DEF IInv
  <2>3. overlap # {}
    BY <1>1, <1>3 DEF IInv, EntryInv
  <2>4. LockedCallsLive'
    BY <2>3, <1>2, <2>1 DEF LockedCallsLive, Panics
  <2>5. ReaderInv'
    BY <1>2, <2>2, ReaderKept
  <2> QED
    BY <1>2, <2>1, <2>2, <2>4, <2>5, Bystander
<1>4. CASE entry[u] # None
  <2> DEFINE a == [job[j] EXCEPT !.at = "auth"]
  <2>1. job[j] \in Additions /\ job[j].obj = None
    BY <1>1 DEF IInv, TypeInv, JobInv
  <2>2. a \in Additions /\ a.at = "auth" /\ a.obj = None /\ job[j].token \in {None} \cup Tokens
    BY <2>1 DEF Additions
  <2>3. job' = [job EXCEPT ![j] = a] /\ panic' = panic
    BY <1>4 DEF SetAuth, At
  <2> HIDE DEF a
  <2>4. /\ job' \in [Jobs -> Additions] /\ job'[j].at = "auth" /\ job'[j].obj = None
        /\ \A k \in Jobs \ {j} : job'[k] = job[k]
    BY <1>1, <2>2, <2>3, SetJob DEF IInv
  <2>5. /\ entry' \in [Users -> {None} \cup Entries] /\ entry'[u] # None
        /\ \A v \in Users \ {u} : entry'[v] = entry[v]
    BY <1>4, <2>2, SetEntry DEF SetAuth, IInv
  <2>6. TypeInv'
    BY <1>2, <2>4, <2>5 DEF IInv, TypeInv
  <2>7. LockedCallsLive'
    BY <1>2, <2>3, PanicKept DEF IInv
  <2>8. u \notin overlap => users[u] = None /\ (gone[u] = None \/ <<"logout", u>> \in failed)
    BY <1>1 DEF IInv, GoneInv, AloneInv
  <2> HIDE DEF j
  <2> QED
    BY <1>1, <1>2, <2>4, <2>5, <2>6, <2>7, <2>8, AdditionStep
<1> QED
  BY <1>3, <1>4

(* An addition finds or creates the entry of its user. *)
LEMMA GetOrAddStep ==
    ASSUME IInv, NEW j \in Jobs, GetOrAddUser(j)
    PROVE  IInv'
<1> DEFINE u == j[2]
           a == [job[j] EXCEPT !.at = "stored", !.new = (entry[u] = None)]
           b == entry[u] # None /\ entry[u].resync
           e == [auth |-> job[j].token, resync |-> b]
<1>1. /\ u \in Users /\ job[j].at = "auth" /\ j[1] \in {"login", "load"}
      /\ j[1] = "load" => j = <<"load", u>>
  BY DEF GetOrAddUser, Jobs
<1>2. UNCHANGED <<session, object, users, listed, reader, phase, panic, overlap, failed>>
  BY DEF GetOrAddUser
<1>3. job[j] \in Additions /\ job[j].obj = None /\ job[j].token \in {None} \cup Tokens
  BY <1>1 DEF IInv, TypeInv, JobInv, Additions
<1>4. (entry[u] = None) \in BOOLEAN /\ b \in BOOLEAN
  <2>1. CASE entry[u] = None
    BY <2>1
  <2>2. CASE entry[u] # None
    BY <1>1, <2>2 DEF IInv, TypeInv, Entries
  <2> QED
    BY <2>1, <2>2
<1>5. a \in Additions /\ a.at = "stored" /\ a.obj = None /\ a.token = job[j].token
  BY <1>3, <1>4 DEF Additions
<1>6. job' = [job EXCEPT ![j] = a]
  BY DEF GetOrAddUser
<1>7. entry' = [entry EXCEPT ![u] = e]
  BY DEF GetOrAddUser
<1> HIDE DEF a, b
<1>8. e \in Entries /\ e.auth = job[j].token
  BY <1>3, <1>4 DEF Entries
<1> HIDE DEF e
<1>9. /\ job' \in [Jobs -> Additions] /\ job'[j].at = "stored" /\ job'[j].obj = None
      /\ job'[j].token = job[j].token /\ \A k \in Jobs \ {j} : job'[k] = job[k]
  BY <1>5, <1>6, SetJob DEF IInv
<1>10. /\ entry' \in [Users -> {None} \cup Entries] /\ entry'[u] # None
       /\ entry'[u].auth = job[j].token /\ \A v \in Users \ {u} : entry'[v] = entry[v]
  BY <1>1, <1>7, <1>8, LifecycleAssumption DEF IInv, TypeInv
<1>11. /\ gone' \in [Users -> {None, "logout", "delete"}]
       /\ \A v \in Users \ {u} : gone'[v] = gone[v]
       /\ j[1] = "login" => gone'[u] = None
       /\ j[1] = "load" => gone'[u] = gone[u]
  BY <1>1 DEF GetOrAddUser, IInv, TypeInv
<1>12. u \notin overlap => users[u] = None /\ (gone'[u] = None \/ <<"logout", u>> \in failed)
  BY <1>1, <1>11 DEF IInv, GoneInv, AloneInv
<1>13. TypeInv'
  BY <1>2, <1>9, <1>10, <1>11 DEF IInv, TypeInv
<1>14. LockedCallsLive'
  BY <1>2, PanicKept DEF IInv
<1> QED
  BY <1>1, <1>2, <1>9, <1>10, <1>11, <1>12, <1>13, <1>14, AdditionStep

(* The services do not start; a new entry is removed again. *)
LEMMA NewUserFailsStep ==
    ASSUME IInv, NEW j \in Jobs, NewUserFails(j)
    PROVE  IInv'
<1> DEFINE u == j[2]
<1>1. u \in Users /\ job[j].at = "stored" /\ entry[u] # None /\ Done(j)
  BY DEF NewUserFails, Jobs
<1>2. UNCHANGED <<object, users, listed, reader, phase, gone, panic, overlap>> /\ failed \subseteq failed'
  BY DEF NewUserFails, others
<1>3. /\ job' \in [Jobs -> Additions] /\ job'[j].at = "idle" /\ job'[j].obj = None
      /\ \A k \in Jobs \ {j} : job'[k] = job[k]
  BY <1>1, DoneJob DEF IInv
<1>4. entry' \in [Users -> {None} \cup Entries] /\ \A v \in Users \ {u} : entry'[v] = entry[v]
  <2>1. entry' = entry \/ entry' = Cleared(u) \/ entry' = [entry EXCEPT ![u] = None]
    BY DEF NewUserFails
  <2> QED
    BY <1>1, <2>1, ClearedEntry DEF IInv, TypeInv
<1>5. session' \in [1 .. MaxSessions -> {None, Ended} \cup Nat]
  <2>1. job[j].token \in {None} \cup Tokens
    BY DEF IInv, TypeInv, Additions
  <2> QED
    BY <2>1, EndSessionType DEF NewUserFails, IInv, TypeInv
<1>6. TypeInv'
  BY <1>2, <1>3, <1>4, <1>5 DEF IInv, TypeInv
<1>7. LockedCallsLive'
  BY <1>2, PanicKept DEF IInv
<1>8. u \notin overlap => users[u] = None /\ (gone[u] = None \/ <<"logout", u>> \in failed)
  <2>1. j = <<"load", u>> \/ j = <<"login", u>>
    BY DEF Jobs
  <2> QED
    BY <1>1, <2>1 DEF IInv, GoneInv, AloneInv
<1> QED
  BY <1>1, <1>2, <1>3, <1>4, <1>6, <1>7, <1>8, AdditionStep

(* A login opens a session. *)
LEMMA LoginStep ==
    ASSUME IInv, NEW u \in Users, LoginAuth(u)
    PROVE  IInv'
<1> DEFINE j == <<"login", u>>
<1>1. /\ j \in Jobs /\ j[2] = u /\ j[1] = "login" /\ job[j].at = "idle"
      /\ <<"load", u>> \in Jobs \ {j}
  BY DEF LoginAuth, Jobs
<1>2. UNCHANGED <<entry, object, users, listed, reader, phase, gone, panic, failed>>
  BY DEF LoginAuth
<1>3. overlap \subseteq overlap' /\ (u \in overlap' \/ \A k \in Jobs : k[2] = u => job[k].at = "idle")
  BY DEF LoginAuth, Adding
<1>4. LockedCallsLive'
  BY <1>2, <1>3, PanicKept DEF IInv
<1>5. PICK s \in DOMAIN session :
         IF Connected(u) THEN UNCHANGED <<session, job>>
         ELSE /\ session' = [session EXCEPT ![s] = 0]
              /\ job' = [job EXCEPT ![j] = [Idle EXCEPT !.at = "auth", !.token = <<s, 0>>]]
  BY DEF LoginAuth
<1>6. CASE Connected(u)
  <2>1. UNCHANGED <<session, job>>
    BY <1>5, <1>6
  <2>2. TypeInv' /\ SameObjects /\ \A v \in Users : SameEntry(v)
    BY <1>2, <2>1, SameTypes DEF IInv
  <2>3. ReaderInv'
    BY <1>2, <1>3, <2>2, ReaderKept
  <2> QED
    BY <1>2, <1>3, <1>4, <2>1, <2>2, <2>3, Bystander
<1>7. CASE ~Connected(u)
  <2> DEFINE a == [Idle EXCEPT !.at = "auth", !.token = <<s, 0>>]
  <2>1. s \in 1 .. MaxSessions /\ <<s, 0>> \in Tokens
    BY DEF IInv, TypeInv, Tokens
  <2>2. a \in Additions /\ a.at = "auth" /\ a.obj = None
    BY <2>1 DEF Idle, Additions
  <2>3. job' = [job EXCEPT ![j] = a] /\ session' = [session EXCEPT ![s] = 0] /\ users[u] = None
    BY <1>5, <1>7 DEF Connected
  <2> HIDE DEF a
  <2>4. /\ job' \in [Jobs -> Additions] /\ job'[j].at = "auth" /\ job'[j].obj = None
        /\ \A k \in Jobs \ {j} : job'[k] = job[k]
    BY <1>1, <2>2, <2>3, SetJob DEF IInv
  <2>5. session' \in [1 .. MaxSessions -> {None, Ended} \cup Nat]
    BY <2>3 DEF IInv, TypeInv
  <2>6. TypeInv'
    BY <1>2, <2>4, <2>5 DEF IInv, TypeInv
  <2>7. u \notin overlap' /\ gone[u] # None /\ <<"logout", u>> \notin failed' =>
        /\ users[u] = None
        /\ entry'[u] = None \/ (gone[u] = "logout" /\ entry'[u].auth = None)
        /\ job'[<<"load", u>>].at \in {"idle", "listed"}
        /\ job'[<<"login", u>>].at \in {"idle", "auth"}
    BY <1>1, <1>2, <1>3, <2>4 DEF IInv, GoneInv
  <2> HIDE DEF j
  <2> QED
    BY <1>1, <1>2, <1>3, <1>4, <2>3, <2>4, <2>6, <2>7, AdditionStep
<1> QED
  BY <1>6, <1>7

(* The loader lists the users it is going to load. *)
LEMMA LoadStep ==
    ASSUME IInv, loadUsers
    PROVE  IInv'
<1> USE DEF IInv
<1> DEFINE a == [Idle EXCEPT !.at = "listed"]
<1>1. UNCHANGED <<entry, session, object, users, reader, phase, panic, gone>>
  BY DEF loadUsers
<1>2. a \in Additions /\ a.at = "listed" /\ a.obj = None
  BY DEF Idle, Additions
<1>3. job' = [j \in Jobs |-> IF j[1] = "load" /\ j[2] \in listed' THEN a ELSE job[j]]
  BY DEF loadUsers
<1> HIDE DEF a
<1>4. job' \in [Jobs -> Additions]
  BY <1>2, <1>3 DEF TypeInv
<1>5. /\ listed' = {u \in Users : entry[u] # None}
      /\ overlap' = overlap \cup {u \in listed' : Adding(u) # {}}
      /\ \A u \in Users : <<"logout", u>> \in failed => <<"logout", u>> \in failed'
  BY DEF loadUsers
<1>6. \A j \in Jobs : /\ j[2] \in Users /\ (j[1] = "load" => job[j].at = "idle")
                      /\ j[1] = "load" \/ j[1] = "login"
  BY DEF loadUsers, LoadIdle, Jobs
<1>7. \A j \in Jobs : \/ job'[j] = job[j] /\ ~(j[1] = "load" /\ j[2] \in listed')
                      \/ /\ j[1] = "load" /\ j[2] \in listed' /\ job'[j].at = "listed"
                         /\ job'[j].obj = None /\ job[j].at = "idle" /\ job[j].obj = None
  BY <1>2, <1>3, <1>6 DEF JobInv
<1>8. TypeInv'
  BY <1>1, <1>4 DEF TypeInv
<1>9. MapInv' /\ ReaderInv'
  BY <1>1, <1>5 DEF MapInv, ReaderInv
<1>10. JobInv'
  BY <1>1, <1>6, <1>7 DEF JobInv
<1>11. AloneInv'
  <2>1. ASSUME NEW k \in Jobs, job'[k].at \notin {"idle", "listed"}, k[2] \notin overlap'
        PROVE  users'[k[2]] = None
    BY <2>1, <1>1, <1>5, <1>7 DEF AloneInv
  <2>2. ASSUME NEW k \in Jobs, NEW l \in Jobs, k # l, k[2] = l[2], k[2] \notin overlap'
        PROVE  job'[k].at = "idle" \/ job'[l].at = "idle"
    <3>1. k[2] \in listed' => \A i \in Jobs : i[2] = k[2] => job[i].at = "idle"
      BY <2>2, <1>5 DEF Adding
    <3>2. k[1] # l[1]
      BY <2>2 DEF Jobs
    <3> QED
      BY <2>2, <3>1, <3>2, <1>5, <1>6, <1>7 DEF AloneInv
  <2> QED
    BY <2>1, <2>2 DEF AloneInv
<1>12. OpenInv'
  <2>1. \A o \in DOMAIN object' : ~object'[o].saved => Open(o)'
    BY <1>1 DEF OpenInv, Open
  <2>2. ASSUME NEW o \in DOMAIN object', Open(o)', object'[o].user \notin overlap'
        PROVE  users'[object'[o].user] = o \/ \E k \in Jobs : job'[k].obj = o
    <3>1. o \in DOMAIN object /\ o # None
      BY <1>1, ObjectFields
    <3>2. users[object[o].user] = o \/ \E k \in Jobs : job[k].obj = o
      BY <1>1, <1>5, <2>2 DEF OpenInv, Open
    <3>3. ASSUME NEW k \in Jobs, job[k].obj = o PROVE job'[k].obj = o
      BY <3>1, <3>3, <1>7
    <3> QED
      BY <1>1, <3>2, <3>3
  <2>3. \A k \in Jobs : job'[k].at = "built" /\ k[2] \notin overlap' => object'[job'[k].obj].open
    BY <1>1, <1>5, <1>7 DEF OpenInv, Open
  <2>4. \A u \in Users : users'[u] # None /\ u \notin overlap' /\ phase' = "run" => object'[users'[u]].open
    BY <1>1, <1>5 DEF OpenInv, Open
  <2> QED
    BY <2>1, <2>2, <2>3, <2>4 DEF OpenInv, Open
<1>13. EntryInv'
  <2>1. ASSUME NEW k \in Jobs, job'[k].at \in {"listed", "refreshed", "stored"}, k[2] \notin overlap'
        PROVE  /\ entry'[k[2]] # None
               /\ job'[k].at = "stored" => entry'[k[2]].auth = job'[k].token
    BY <2>1, <1>1, <1>5, <1>7 DEF EntryInv
  <2>2. \A o \in DOMAIN object' :
          Open(o)' /\ object'[o].user \notin overlap' =>
              /\ entry'[object'[o].user] # None
              /\ object'[o].saved => entry'[object'[o].user].auth = object'[o].token
    BY <1>1, <1>5 DEF EntryInv, Open
  <2> QED
    BY <2>1, <2>2 DEF EntryInv
<1>14. GoneInv'
  <2> SUFFICES ASSUME NEW u \in Users \ overlap', gone'[u] # None, <<"logout", u>> \notin failed'
               PROVE  /\ users'[u] = None
                      /\ entry'[u] = None \/ (gone'[u] = "logout" /\ entry'[u].auth = None)
                      /\ job'[<<"load", u>>].at \in {"idle", "listed"}
                      /\ job'[<<"login", u>>].at \in {"idle", "auth"}
    BY DEF GoneInv
  <2>1. <<"load", u>> \in Jobs /\ <<"login", u>> \in Jobs
    BY DEF Jobs
  <2> QED
    BY <2>1, <1>1, <1>5, <1>7 DEF GoneInv
<1>15. LockedCallsLive'
  BY <1>1, <1>5, PanicKept
<1> QED
  BY <1>8, <1>9, <1>10, <1>11, <1>12, <1>13, <1>14, <1>15

(* A new object leaves the others in place. *)
LEMMA AppendObject ==
    ASSUME TypeInv, NEW q \in UserObjects, object' = Append(object, q)
    PROVE  /\ object' \in Seq(UserObjects) /\ DOMAIN object' = DOMAIN object \cup {NextObject}
           /\ NextObject \notin DOMAIN object /\ NextObject \in Nat /\ object'[NextObject] = q
           /\ \A o \in DOMAIN object : object'[o] = object[o]
<1>1. object \in Seq(UserObjects)
  BY DEF TypeInv
<1> QED
  BY <1>1 DEF NextObject

(* An addition starts the services of a new object. *)
LEMMA NewUserStep ==
    ASSUME IInv, NEW j \in Jobs, NewUser(j)
    PROVE  IInv'
<1> USE DEF IInv
<1> DEFINE u == j[2]
<1>1. u \in Users /\ job[j].at = "stored" /\ job[j] \in Additions /\ job[j].obj = None
  BY DEF NewUser, Jobs, JobInv, TypeInv
<1>2. UNCHANGED <<entry, session, users, listed, reader, phase, gone, overlap, failed>>
  BY DEF NewUser, others
<1>3. CASE phase = "servers"
  <2>1. Panics("closed servers") /\ UNCHANGED <<object, job>>
    BY <1>3 DEF NewUser
  <2>2. TypeInv' /\ SameObjects /\ \A v \in Users : SameEntry(v)
    BY <1>2, <2>1, SameTypes
  <2>3. LockedCallsLive'
    BY <2>1 DEF LockedCallsLive, Panics
  <2>4. ReaderInv'
    BY <1>2, <2>2, ReaderKept
  <2> QED
    BY <1>2, <2>1, <2>2, <2>3, <2>4, Bystander
<1>4. CASE phase # "servers"
  <2> DEFINE n == NextObject
             q == [user |-> u, open |-> TRUE, token |-> job[j].token, saved |-> TRUE,
                   queue |-> <<>>, handling |-> None]
             a == [job[j] EXCEPT !.at = "built", !.obj = n]
  <2>1. <<>> \in Seq(UserEvents) /\ job[j].token \in {None} \cup Tokens
    BY <1>1 DEF Additions
  <2>2. q \in UserObjects
    BY <1>1, <2>1 DEF UserObjects
  <2>3. object' = Append(object, q) /\ job' = [job EXCEPT ![j] = a] /\ panic' = panic
    BY <1>4 DEF NewUser
  <2>4. /\ q.user = u /\ q.open /\ q.saved /\ q.token = job[j].token
    OBVIOUS
  <2> HIDE DEF q
  <2>5. /\ object' \in Seq(UserObjects) /\ DOMAIN object' = DOMAIN object \cup {n}
        /\ n \notin DOMAIN object /\ n \in Nat /\ object'[n] = q
        /\ \A o \in DOMAIN object : object'[o] = object[o]
    BY <2>2, <2>3, AppendObject
  <2>6. a \in Additions /\ a.at = "built" /\ a.obj = n
    BY <1>1, <2>5 DEF Additions
  <2> HIDE DEF a, n
  <2>7. /\ job' \in [Jobs -> Additions] /\ job'[j].at = "built" /\ job'[j].obj = n
        /\ \A k \in Jobs \ {j} : job'[k] = job[k]
    BY <2>3, <2>6, SetJob
  <2>8. TypeInv'
    BY <1>2, <2>5, <2>7 DEF TypeInv
  <2>9. u \notin overlap => /\ users[u] = None /\ entry[u] # None /\ entry[u].auth = job[j].token
                            /\ gone[u] = None \/ <<"logout", u>> \in failed
    <3>1. j = <<"load", u>> \/ j = <<"login", u>>
      BY DEF Jobs
    <3> QED
      BY <1>1, <3>1 DEF AloneInv, EntryInv, GoneInv
  <2>10. \A k \in Jobs : k # j /\ k[2] = u /\ u \notin overlap => job[k].at = "idle"
    BY <1>1 DEF AloneInv
  <2>11. MapInv' /\ ReaderInv'
    BY <1>2, <2>5 DEF MapInv, ReaderInv
  <2>12. JobInv'
    BY <1>1, <1>2, <2>4, <2>5, <2>7 DEF JobInv
  <2>13. AloneInv'
    BY <1>1, <1>2, <2>7, <2>9 DEF AloneInv
  <2>14. OpenInv'
    <3>1. \A o \in DOMAIN object' : ~object'[o].saved => Open(o)'
      BY <2>4, <2>5 DEF OpenInv, Open
    <3>2. ASSUME NEW o \in DOMAIN object', Open(o)', object'[o].user \notin overlap'
          PROVE  users'[object'[o].user] = o \/ \E k \in Jobs : job'[k].obj = o
      <4>1. CASE o = n
        BY <4>1, <2>7
      <4>2. CASE o \in DOMAIN object
        <5>1. o # None
          BY <4>2, ObjectFields
        <5>2. users[object[o].user] = o \/ \E k \in Jobs : job[k].obj = o
          BY <1>2, <2>5, <3>2, <4>2 DEF OpenInv, Open
        <5>3. ASSUME NEW k \in Jobs, job[k].obj = o PROVE job'[k].obj = o
          BY <1>1, <5>1, <5>3, <2>7
        <5> QED
          BY <1>2, <2>5, <4>2, <5>2, <5>3
      <4> QED
        BY <4>1, <4>2, <2>5
    <3>3. \A k \in Jobs : job'[k].at = "built" /\ k[2] \notin overlap' => object'[job'[k].obj].open
      BY <1>2, <2>4, <2>5, <2>7 DEF OpenInv, Open, JobInv
    <3>4. \A v \in Users : users'[v] # None /\ v \notin overlap' /\ phase' = "run" => object'[users'[v]].open
      BY <1>2, <2>5 DEF OpenInv, Open, MapInv
    <3> QED
      BY <3>1, <3>2, <3>3, <3>4 DEF OpenInv, Open
  <2>15. EntryInv'
    <3>1. \A k \in Jobs :
            job'[k].at \in {"listed", "refreshed", "stored"} /\ k[2] \notin overlap' =>
                /\ entry'[k[2]] # None
                /\ job'[k].at = "stored" => entry'[k[2]].auth = job'[k].token
      BY <1>2, <2>7 DEF EntryInv
    <3>2. \A o \in DOMAIN object' :
            Open(o)' /\ object'[o].user \notin overlap' =>
                /\ entry'[object'[o].user] # None
                /\ object'[o].saved => entry'[object'[o].user].auth = object'[o].token
      BY <1>2, <2>4, <2>5, <2>9 DEF EntryInv, Open
    <3> QED
      BY <3>1, <3>2 DEF EntryInv
  <2>16. GoneInv'
    <3> SUFFICES ASSUME NEW v \in Users \ overlap, gone[v] # None, <<"logout", v>> \notin failed
                 PROVE  /\ users[v] = None
                        /\ entry[v] = None \/ (gone[v] = "logout" /\ entry[v].auth = None)
                        /\ job'[<<"load", v>>].at \in {"idle", "listed"}
                        /\ job'[<<"login", v>>].at \in {"idle", "auth"}
      BY <1>2 DEF GoneInv
    <3>1. v # u
      BY <2>9
    <3>2. <<"load", v>> \in Jobs \ {j} /\ <<"login", v>> \in Jobs \ {j}
      BY <3>1 DEF Jobs
    <3> QED
      BY <3>2, <2>7 DEF GoneInv
  <2>17. LockedCallsLive'
    BY <1>2, <2>3, PanicKept
  <2> QED
    BY <2>8, <2>11, <2>12, <2>13, <2>14, <2>15, <2>16, <2>17
<1> QED
  BY <1>3, <1>4

(* An addition ends with its object in the map. *)
LEMMA EnterMapStep ==
    ASSUME IInv, NEW j \in Jobs, addUserWithVault(j)
    PROVE  IInv'
<1> USE DEF IInv
<1> DEFINE u == j[2]
           o == job[j].obj
<1>1. /\ u \in Users /\ job[j].at = "built" /\ o \in DOMAIN object /\ object[o].user = u
      /\ o # None /\ o \in Nat /\ Done(j)
  BY ObjectFields DEF addUserWithVault, Jobs, JobInv
<1>2. UNCHANGED <<entry, session, listed, reader, phase, gone, panic, overlap, failed>>
  BY DEF addUserWithVault, others
<1>3. object' \in Seq(UserObjects) /\ SameObjects
  BY <1>1, PushStep DEF addUserWithVault, UserEvents
<1>4. /\ job' \in [Jobs -> Additions] /\ job'[j].at = "idle" /\ job'[j].obj = None
      /\ \A k \in Jobs \ {j} : job'[k] = job[k]
  BY <1>1, DoneJob
<1>5. /\ users' \in [Users -> {None} \cup Nat] /\ users'[u] = o
      /\ \A v \in Users \ {u} : users'[v] = users[v]
  BY <1>1 DEF addUserWithVault, TypeInv
<1> HIDE DEF o
<1>6. TypeInv'
  BY <1>2, <1>3, <1>4, <1>5 DEF TypeInv
<1>7. reader["feedback"] = None /\ reader["call"] = None
  BY DEF addUserWithVault, NoLock
<1>8. ReaderInv'
  BY <1>2, <1>7 DEF ReaderInv
<1>9. \A k \in Jobs : k # j /\ k[2] = u /\ u \notin overlap => job[k].at = "idle"
  BY <1>1 DEF AloneInv
<1>10. u \notin overlap => /\ users[u] = None /\ object[o].open
                           /\ gone[u] = None \/ <<"logout", u>> \in failed
  <2>1. j = <<"load", u>> \/ j = <<"login", u>>
    BY DEF Jobs
  <2> QED
    BY <1>1, <2>1 DEF AloneInv, OpenInv, GoneInv, Open, o
<1>11. DOMAIN object' = DOMAIN object /\ \A p \in DOMAIN object : SameObject(p) /\ object[p].user \in Users /\ p # None
  BY <1>3, ObjectFields DEF SameObjects
<1>12. MapInv'
  BY <1>1, <1>5, <1>11 DEF MapInv, SameObject
<1>13. JobInv'
  BY <1>2, <1>4, <1>11 DEF JobInv, SameObject
<1>14. AloneInv'
  <2>a. \A k \in Jobs : k[2] \in Users
    BY DEF Jobs
  <2>1. ASSUME NEW k \in Jobs, job'[k].at \notin {"idle", "listed"}, k[2] \notin overlap'
        PROVE  users'[k[2]] = None
    BY <2>a, <2>1, <1>2, <1>4, <1>5, <1>9 DEF AloneInv
  <2>2. ASSUME NEW k \in Jobs, NEW l \in Jobs, k # l, k[2] = l[2], k[2] \notin overlap'
        PROVE  job'[k].at = "idle" \/ job'[l].at = "idle"
    BY <2>2, <1>2, <1>4 DEF AloneInv
  <2> QED
    BY <2>1, <2>2 DEF AloneInv
<1>15. OpenInv'
  <2>1. \A p \in DOMAIN object' : ~object'[p].saved => Open(p)'
    BY <1>11 DEF OpenInv, Open, SameObject
  <2>2. ASSUME NEW p \in DOMAIN object', Open(p)', object'[p].user \notin overlap'
        PROVE  users'[object'[p].user] = p \/ \E k \in Jobs : job'[k].obj = p
    <3>1. p \in DOMAIN object /\ p # None /\ object'[p].user = object[p].user /\ Open(p) /\ object[p].user \in Users
      BY <2>2, <1>11 DEF SameObject, Open
    <3>2. users[object[p].user] = p \/ \E k \in Jobs : job[k].obj = p
      BY <1>2, <2>2, <3>1 DEF OpenInv
    <3>3. CASE users[object[p].user] = p
      <4>1. object[p].user # u
        BY <3>1, <3>3, <1>2, <1>10, <2>2
      <4> QED
        BY <3>1, <3>3, <4>1, <1>5
    <3>4. ASSUME NEW k \in Jobs, job[k].obj = p
          PROVE  users'[object'[p].user] = p \/ \E l \in Jobs : job'[l].obj = p
      <4>1. CASE k = j
        BY <3>1, <3>4, <4>1, <1>1, <1>5 DEF o
      <4>2. CASE k # j
        BY <3>4, <4>2, <1>4
      <4> QED
        BY <4>1, <4>2
    <3> QED
      BY <3>2, <3>3, <3>4
  <2>3. \A k \in Jobs : job'[k].at = "built" /\ k[2] \notin overlap' => object'[job'[k].obj].open
    BY <1>2, <1>4, <1>11 DEF OpenInv, Open, JobInv, SameObject
  <2>4. \A v \in Users : users'[v] # None /\ v \notin overlap' /\ phase' = "run" => object'[users'[v]].open
    BY <1>1, <1>2, <1>5, <1>10, <1>11 DEF OpenInv, Open, MapInv, SameObject
  <2> QED
    BY <2>1, <2>2, <2>3, <2>4 DEF OpenInv, Open
<1>16. EntryInv'
  <2>1. \A k \in Jobs :
          job'[k].at \in {"listed", "refreshed", "stored"} /\ k[2] \notin overlap' =>
              /\ entry'[k[2]] # None
              /\ job'[k].at = "stored" => entry'[k[2]].auth = job'[k].token
    BY <1>2, <1>4 DEF EntryInv
  <2>2. \A p \in DOMAIN object' :
          Open(p)' /\ object'[p].user \notin overlap' =>
              /\ entry'[object'[p].user] # None
              /\ object'[p].saved => entry'[object'[p].user].auth = object'[p].token
    BY <1>2, <1>11 DEF EntryInv, Open, SameObject
  <2> QED
    BY <2>1, <2>2 DEF EntryInv
<1>17. GoneInv'
  <2> SUFFICES ASSUME NEW v \in Users \ overlap, gone[v] # None, <<"logout", v>> \notin failed
               PROVE  /\ users'[v] = None
                      /\ entry[v] = None \/ (gone[v] = "logout" /\ entry[v].auth = None)
                      /\ job'[<<"load", v>>].at \in {"idle", "listed"}
                      /\ job'[<<"login", v>>].at \in {"idle", "auth"}
    BY <1>2 DEF GoneInv
  <2>1. v # u
    BY <1>10
  <2>2. <<"load", v>> \in Jobs \ {j} /\ <<"login", v>> \in Jobs \ {j}
    BY <2>1 DEF Jobs
  <2> QED
    BY <2>1, <2>2, <1>4, <1>5 DEF GoneInv
<1>18. LockedCallsLive'
  BY <1>2, PanicKept
<1> QED
  BY <1>6, <1>8, <1>12, <1>13, <1>14, <1>15, <1>16, <1>17, <1>18

-----------------------------------------------------------------------------
(* An object is closed and its user leaves the map. *)
LEMMA RemovalStep ==
    ASSUME IInv, TypeInv', NEW o \in DOMAIN object, NEW u, u = object[o].user,
           DOMAIN object' = DOMAIN object, \A p \in DOMAIN object \ {o} : object'[p] = object[p],
           object'[o].user = u, ~object'[o].open, object'[o].saved,
           users' = Removed(u), users[u] = o \/ u \in overlap',
           UNCHANGED <<job, listed, phase>>, overlap \subseteq overlap',
           \A v \in Users : <<"logout", v>> \in failed => <<"logout", v>> \in failed',
           \A v \in Users \ {u} : entry'[v] = entry[v] /\ gone'[v] = gone[v],
           u \notin overlap' =>
               /\ entry'[u] = None => \A k \in Jobs : k[2] = u => job[k].at = "idle"
               /\ (gone'[u] # None /\ <<"logout", u>> \notin failed') =>
                     entry'[u] = None \/ (gone'[u] = "logout" /\ entry'[u].auth = None),
           \A r \in {"feedback", "call"} :
               reader'[r] # None => /\ reader'[r] = reader[r]
                                    /\ object[reader[r]].user # u \/ u \in overlap',
           LockedCallsLive'
    PROVE  IInv'
<1> USE DEF IInv
<1>1. o # None /\ u \in Users
  BY ObjectFields
<1>2. users'[u] = None /\ \A v \in Users \ {u} : users'[v] = users[v]
  BY <1>1 DEF Removed, TypeInv
<1>3. \A k \in Jobs : k[2] \in Users
  BY DEF Jobs
<1>4. \A k \in Jobs : k[2] = u /\ u \notin overlap' => job[k].at \in {"idle", "listed"}
  BY <1>1 DEF AloneInv
<1>5. \A p \in DOMAIN object : object'[p].user = object[p].user /\ object[p].user \in Users /\ p # None
  BY ObjectFields
<1>6. \A p \in DOMAIN object : object'[p].open => p # o /\ object'[p] = object[p]
  OBVIOUS
<1>7. ASSUME NEW p \in DOMAIN object, p # o, Open(p), object[p].user = u, u \notin overlap'
      PROVE  FALSE
  <2>1. users[u] = p \/ \E k \in Jobs : job[k].obj = p
    BY <1>7 DEF OpenInv
  <2>2. PICK k \in Jobs : job[k].obj = p
    BY <1>7, <2>1
  <2>3. job[k].at = "built" /\ k[2] = u
    BY <1>5, <1>7, <2>2 DEF JobInv
  <2> QED
    BY <1>4, <1>7, <2>3
<1>8. MapInv'
  BY <1>2, <1>5 DEF MapInv
<1>9. JobInv'
  BY <1>5 DEF JobInv
<1>10. AloneInv'
  BY <1>2, <1>3 DEF AloneInv
<1>11. OpenInv'
  <2>1. \A p \in DOMAIN object' : ~object'[p].saved => Open(p)'
    BY DEF OpenInv, Open
  <2>2. ASSUME NEW p \in DOMAIN object', Open(p)', object'[p].user \notin overlap'
        PROVE  users'[object'[p].user] = p \/ \E k \in Jobs : job'[k].obj = p
    <3>1. p \in DOMAIN object /\ p # o /\ object'[p] = object[p] /\ Open(p) /\ object[p].user \in Users
      BY <2>2, <1>5, <1>6 DEF Open
    <3>2. object[p].user # u
      BY <2>2, <3>1, <1>7
    <3> QED
      BY <2>2, <3>1, <3>2, <1>2 DEF OpenInv
  <2>3. ASSUME NEW k \in Jobs, job'[k].at = "built", k[2] \notin overlap'
        PROVE  object'[job'[k].obj].open
    <3>1. k[2] # u /\ job[k].obj \in DOMAIN object /\ object[job[k].obj].user = k[2]
      BY <2>3, <1>4 DEF JobInv
    <3> QED
      BY <2>3, <3>1 DEF OpenInv, Open
  <2>4. ASSUME NEW v \in Users, users'[v] # None, v \notin overlap', phase' = "run"
        PROVE  object'[users'[v]].open
    <3>1. v # u /\ users'[v] = users[v] /\ users[v] \in DOMAIN object /\ object[users[v]].user = v
      BY <2>4, <1>2 DEF MapInv
    <3> QED
      BY <2>4, <3>1 DEF OpenInv, Open
  <2> QED
    BY <2>1, <2>2, <2>3, <2>4 DEF OpenInv, Open
<1>12. EntryInv'
  <2>1. ASSUME NEW k \in Jobs, job'[k].at \in {"listed", "refreshed", "stored"}, k[2] \notin overlap'
        PROVE  /\ entry'[k[2]] # None
               /\ job'[k].at = "stored" => entry'[k[2]].auth = job'[k].token
    <3>1. CASE k[2] = u
      BY <2>1, <3>1, <1>4
    <3>2. CASE k[2] # u
      BY <2>1, <3>2, <1>3 DEF EntryInv
    <3> QED
      BY <3>1, <3>2
  <2>2. ASSUME NEW p \in DOMAIN object', Open(p)', object'[p].user \notin overlap'
        PROVE  /\ entry'[object'[p].user] # None
               /\ object'[p].saved => entry'[object'[p].user].auth = object'[p].token
    <3>1. p \in DOMAIN object /\ p # o /\ object'[p] = object[p] /\ Open(p) /\ object[p].user \in Users
      BY <2>2, <1>5, <1>6 DEF Open
    <3>2. object[p].user # u
      BY <2>2, <3>1, <1>7
    <3> QED
      BY <2>2, <3>1, <3>2 DEF EntryInv
  <2> QED
    BY <2>1, <2>2 DEF EntryInv
<1>13. ReaderInv'
  <2> SUFFICES ASSUME NEW r \in {"feedback", "call"}, reader'[r] # None
               PROVE  /\ reader'[r] \in DOMAIN object'
                      /\ \/ users'[object'[reader'[r]].user] = reader'[r]
                         \/ object'[reader'[r]].user \in overlap'
    BY DEF ReaderInv
  <2>1. /\ reader'[r] = reader[r] /\ reader[r] \in DOMAIN object
        /\ users[object[reader[r]].user] = reader[r] \/ object[reader[r]].user \in overlap
        /\ object[reader[r]].user # u \/ u \in overlap'
    BY DEF ReaderInv
  <2> QED
    BY <2>1, <1>2, <1>5
<1>14. GoneInv'
  <2> SUFFICES ASSUME NEW v \in Users \ overlap', gone'[v] # None, <<"logout", v>> \notin failed'
               PROVE  /\ users'[v] = None
                      /\ entry'[v] = None \/ (gone'[v] = "logout" /\ entry'[v].auth = None)
                      /\ job[<<"load", v>>].at \in {"idle", "listed"}
                      /\ job[<<"login", v>>].at \in {"idle", "auth"}
    BY DEF GoneInv
  <2>1. CASE v = u
    <3>1. <<"load", u>> \in Jobs /\ <<"login", u>> \in Jobs
      BY <1>1 DEF Jobs
    <3>2. job[<<"load", u>>].at \in {"idle", "listed"} /\ job[<<"login", u>>].at \in {"idle", "listed"}
      BY <2>1, <3>1, <1>4
    <3>3. job[<<"login", u>>].at # "listed"
      BY <3>1 DEF JobInv
    <3> QED
      BY <2>1, <3>2, <3>3, <1>2
  <2>2. CASE v # u
    BY <2>2, <1>2 DEF GoneInv
  <2> QED
    BY <2>1, <2>2
<1> QED
  BY <1>8, <1>9, <1>10, <1>11, <1>12, <1>13, <1>14

(* Closing an object keeps its user and its token. *)
LEMMA ShutFields ==
    ASSUME NEW q \in UserObjects
    PROVE  /\ Shut(q) \in UserObjects /\ Shut(q).user = q.user /\ ~Shut(q).open
           /\ Shut(q).saved = q.saved /\ Shut(q).token = q.token
<1>1. <<>> \in Seq(UserEvents) /\ FALSE \in BOOLEAN
  OBVIOUS
<1> QED
  BY <1>1 DEF Shut, UserObjects

(* Closing one object leaves all others as they were. *)
LEMMA ShutObject ==
    ASSUME TypeInv, NEW o \in DOMAIN object, object' = [object EXCEPT ![o] = Shut(@)]
    PROVE  /\ object' \in Seq(UserObjects) /\ DOMAIN object' = DOMAIN object
           /\ \A p \in DOMAIN object \ {o} : object'[p] = object[p]
           /\ object'[o].user = object[o].user /\ ~object'[o].open /\ object'[o].saved = object[o].saved
<1> DEFINE n == Shut(object[o])
<1>1. object[o] \in UserObjects
  BY ObjectFields
<1>2. n \in UserObjects /\ n.user = object[o].user /\ ~n.open /\ n.saved = object[o].saved
  BY <1>1, ShutFields
<1>3. object' = [object EXCEPT ![o] = n]
  OBVIOUS
<1> HIDE DEF n
<1> QED
  BY <1>2, <1>3, SetObject

(* A call that finds its services closed, or its entry wiped.              *)
LEMMA PanicStep ==
    ASSUME IInv, UNCHANGED <<entry, session, object, users, job, listed, phase, gone, failed>>,
           overlap \subseteq overlap',
           reader' = reader \/ \E r \in Readers : \E x : reader' = [reader EXCEPT ![r] = x],
           \A r \in {"feedback", "call"} : reader'[r] \in {None, reader[r]},
           LockedCallsLive'
    PROVE  IInv'
<1>1. TypeInv' /\ SameObjects /\ \A v \in Users : SameEntry(v)
  BY SameTypes DEF IInv
<1>2. ReaderInv'
  BY <1>1, ReaderKept
<1> QED
  BY <1>1, <1>2, Bystander

(* Logging out an object that the map holds, with what fails on the way. *)
LEMMA LogoutEffect ==
    ASSUME IInv, NEW o \in DOMAIN object, NEW u, u = object[o].user, NEW by \in {"logout", "delete", "feedback"},
           panic = None, users[u] = o \/ u \in overlap',
           logoutUser(o, TRUE, by), Published(u, "logout"),
           UNCHANGED <<job, listed, phase>>, overlap \subseteq overlap',
           reader' = reader \/ \E r \in Readers : \E x : reader' = [reader EXCEPT ![r] = x],
           \A r \in {"feedback", "call"} :
               reader'[r] \in {None, reader[r]}
               /\ (reader'[r] # None => object[reader[r]].user # u \/ u \in overlap')
    PROVE  IInv'
<1> USE DEF IInv
<1>1. u \in Users
  BY ObjectFields
<1>2. reader' = [r \in Readers |-> reader'[r]]
  BY DEF TypeInv
<1>3. ASSUME ~Open(o), Panics(by), UNCHANGED <<entry, session, object, users, failed>>
      PROVE  IInv'
  <2>1. phase # "run" \/ overlap' # {}
    BY <1>1, <1>3, LifecycleAssumption, ObjectFields DEF OpenInv
  <2>2. LockedCallsLive'
    BY <2>1, <1>3 DEF LockedCallsLive, Panics
  <2>3. gone' = gone
    BY <1>3, LifecycleAssumption DEF Panics, Published
  <2> QED
    BY <1>3, <2>2, <2>3, PanicStep
<1>4. ASSUME Open(o), entry[u] = None, Panics("wiped entry"), UNCHANGED <<entry, session, object, users, failed>>
      PROVE  IInv'
  <2>1. overlap # {}
    BY <1>4 DEF EntryInv
  <2>2. LockedCallsLive'
    BY <2>1, <1>4 DEF LockedCallsLive, Panics
  <2>3. gone' = gone
    BY <1>4, LifecycleAssumption DEF Panics, Published
  <2> QED
    BY <1>4, <2>2, <2>3, PanicStep
<1>5. ASSUME Open(o), object[o].saved, panic' = panic, failed \subseteq failed',
             object' = [object EXCEPT ![o] = Shut(@)], users' = Removed(u),
             \/ entry[u] # None /\ entry' = Cleared(u) /\ session' = EndSession(object[o].token)
             \/ UNCHANGED <<entry, session>> /\ <<"logout", u>> \in failed'
      PROVE  IInv'
  <2>1. /\ object' \in Seq(UserObjects) /\ DOMAIN object' = DOMAIN object
        /\ \A p \in DOMAIN object \ {o} : object'[p] = object[p]
        /\ object'[o].user = u /\ ~object'[o].open /\ object'[o].saved
    BY <1>5, ShutObject
  <2>2. gone' = [gone EXCEPT ![u] = "logout"]
    BY <1>5 DEF Published
  <2>3. /\ gone' \in [Users -> {None, "logout", "delete"}] /\ gone'[u] = "logout"
        /\ \A v \in Users \ {u} : gone'[v] = gone[v]
    BY <2>2, <1>1 DEF TypeInv
  <2>4. /\ entry' \in [Users -> {None} \cup Entries] /\ \A v \in Users \ {u} : entry'[v] = entry[v]
        /\ entry'[u].auth = None \/ <<"logout", u>> \in failed'
        /\ u \notin overlap => entry'[u] # None
    <3>1. u \notin overlap => entry[u] # None
      BY <1>5 DEF EntryInv
    <3> QED
      BY <1>1, <1>5, <3>1, ClearedEntry DEF TypeInv
  <2>5. session' \in [1 .. MaxSessions -> {None, Ended} \cup Nat]
    <3>1. object[o].token \in {None} \cup Tokens
      BY ObjectFields DEF UserObjects
    <3> QED
      BY <1>5, <3>1, EndSessionType DEF TypeInv
  <2>6. users' \in [Users -> {None} \cup Nat]
    BY <1>5, <1>1 DEF Removed, TypeInv
  <2>7. TypeInv'
    BY <1>2, <2>1, <2>3, <2>4, <2>5, <2>6 DEF TypeInv
  <2>8. LockedCallsLive'
    BY <1>5, PanicKept
  <2> QED
    BY <1>5, <2>1, <2>3, <2>4, <2>7, <2>8, RemovalStep
<1> QED
  <2>1. CASE ~Open(o) /\ Panics(by) /\ UNCHANGED <<entry, session, object, users, failed, faults>>
    BY <1>3, <2>1
  <2>2. CASE /\ Open(o) /\ object[o].saved /\ entry[u] = None /\ Panics("wiped entry")
             /\ UNCHANGED <<entry, session, object, users, failed, faults>>
    BY <1>4, <2>2
  <2>3. CASE /\ Open(o) /\ object[o].saved /\ entry[u] # None
             /\ session' = EndSession(object[o].token) /\ entry' = Cleared(u)
             /\ object' = [object EXCEPT ![o] = Shut(@)] /\ users' = Removed(u)
             /\ UNCHANGED <<panic, failed, faults>>
    BY <1>5, <2>3
  <2>4. CASE /\ Open(o) /\ object[o].saved
             /\ object' = [object EXCEPT ![o] = Shut(@)] /\ users' = Removed(u)
             /\ failed' = failed \cup {<<"logout", u>>} /\ UNCHANGED <<entry, session, panic>>
    BY <1>5, <2>4
  <2> QED
    BY <2>1, <2>2, <2>3, <2>4 DEF logoutUser

(* The user asks for a logout, or for a deletion that ends after it. *)
LEMMA LogoutStep ==
    ASSUME IInv, NEW u \in Users, LogoutUser(u) \/ DeleteUserFails(u)
    PROVE  IInv'
<1>1. /\ users[u] \in DOMAIN object /\ object[users[u]].user = u
      /\ panic = None /\ reader["feedback"] = None /\ reader["call"] = None
      /\ logoutUser(users[u], TRUE, "logout") \/ logoutUser(users[u], TRUE, "delete")
      /\ Published(u, "logout")
      /\ UNCHANGED <<job, listed, phase, overlap, reader>>
  BY DEF LogoutUser, DeleteUserFails, Locks, Running, NoLock, Connected, IInv, MapInv
<1> QED
  BY <1>1, LogoutEffect

(* The answer to a bad event is a logout, or a resync. *)
LEMMA FeedbackStep ==
    ASSUME IInv, SendBadEventUserFeedback
    PROVE  IInv'
<1> DEFINE o == reader["feedback"]
           u == object[o].user
<1>1. /\ users[u] = o \/ u \in overlap
      /\ panic = None /\ logoutUser(o, TRUE, "feedback") /\ Published(u, "logout")
      /\ UNCHANGED <<job, listed, phase>>
  BY DEF SendBadEventUserFeedback, Running, IInv, ReaderInv
<1>2. reader' = [reader EXCEPT !["feedback"] = None] /\ "feedback" \in Readers
  BY DEF SendBadEventUserFeedback, Leave, Readers
<1>3. reader'["feedback"] = None /\ reader'["call"] = reader["call"]
  BY <1>2 DEF IInv, TypeInv, Readers
<1>4. overlap \subseteq overlap' /\ (reader["call"] = o => u \in overlap')
  BY DEF SendBadEventUserFeedback
<1>5. o \in DOMAIN object
  BY DEF SendBadEventUserFeedback, IInv, ReaderInv
<1>6. reader["call"] # None => object[reader["call"]].user # u \/ u \in overlap'
  <2> SUFFICES ASSUME reader["call"] # None, object[reader["call"]].user = u PROVE u \in overlap'
    OBVIOUS
  <2>1. users[u] = reader["call"] \/ u \in overlap
    BY DEF IInv, ReaderInv
  <2> QED
    BY <2>1, <1>1, <1>4
<1> HIDE DEF o
<1>7. users[u] = o \/ u \in overlap'
  BY <1>1, <1>4
<1> QED
  BY <1>1, <1>2, <1>3, <1>4, <1>5, <1>6, <1>7, LogoutEffect

(* A user is deleted, connected or not. *)
LEMMA DeleteStep ==
    ASSUME IInv, NEW u \in Users, DeleteUser(u)
    PROVE  IInv'
<1> USE DEF IInv
<1> DEFINE held == \/ u \in listed
                   \/ \E j \in Jobs : j[2] = u /\ job[j].at \in {"stored", "built"}
                   \/ \E o \in DOMAIN object : object[o].user = u /\ Open(o) /\ users[u] # o
           forget(e) == IF held THEN e ELSE [e EXCEPT ![u] = None]
<1>1. /\ panic = None /\ reader["feedback"] = None /\ reader["call"] = None
      /\ UNCHANGED <<job, listed, phase, reader>> /\ entry[u] # None /\ Published(u, "delete")
      /\ overlap' = IF held \/ Adding(u) # {} THEN overlap \cup {u} ELSE overlap
  BY DEF DeleteUser, Locks, Running, NoLock
<1>2. overlap \subseteq overlap' /\ reader' = [r \in Readers |-> reader'[r]]
  BY <1>1 DEF TypeInv
<1>3. u \notin overlap' => ~held /\ \A k \in Jobs : k[2] = u => job[k].at = "idle"
  BY <1>1 DEF Adding
<1>4. ASSUME NEW e \in [Users -> {None} \cup Entries], \A v \in Users \ {u} : e[v] = entry[v]
      PROVE  /\ forget(e) \in [Users -> {None} \cup Entries]
             /\ \A v \in Users \ {u} : forget(e)[v] = entry[v]
             /\ u \notin overlap' => forget(e)[u] = None
  BY <1>3, <1>4
<1> HIDE DEF held
<1>5. panic' = None => /\ gone' \in [Users -> {None, "logout", "delete"}]
                       /\ gone'[u] = "delete" /\ \A v \in Users \ {u} : gone'[v] = gone[v]
  BY <1>1 DEF Published, TypeInv
<1>6. ASSUME ~Connected(u), entry' = forget(entry), UNCHANGED <<session, object, users, panic, failed>>
      PROVE  IInv'
  <2>1. /\ entry' \in [Users -> {None} \cup Entries]
        /\ \A v \in Users \ {u} : entry'[v] = entry[v]
        /\ u \notin overlap' => entry'[u] = None
    BY <1>4, <1>6 DEF TypeInv
  <2>2. /\ gone' \in [Users -> {None, "logout", "delete"}]
        /\ \A v \in Users \ {u} : gone'[v] = gone[v]
    BY <1>1, <1>5, <1>6
  <2>3. TypeInv'
    BY <1>1, <1>2, <1>6, <2>1, <2>2 DEF TypeInv
  <2>4. MapInv' /\ JobInv' /\ AloneInv' /\ ReaderInv'
    BY <1>1, <1>2, <1>6 DEF MapInv, JobInv, AloneInv, ReaderInv
  <2>5. OpenInv'
    BY <1>1, <1>2, <1>6 DEF OpenInv, Open
  <2>6. EntryInv'
    <3>1. ASSUME NEW k \in Jobs, job'[k].at \in {"listed", "refreshed", "stored"}, k[2] \notin overlap'
          PROVE  /\ entry'[k[2]] # None
                 /\ job'[k].at = "stored" => entry'[k[2]].auth = job'[k].token
      <4>1. k[2] \in Users \ {u}
        BY <3>1, <1>1, <1>3 DEF Jobs
      <4> QED
        BY <3>1, <4>1, <1>1, <1>2, <2>1 DEF EntryInv
    <3>2. ASSUME NEW o \in DOMAIN object', Open(o)', object'[o].user \notin overlap'
          PROVE  /\ entry'[object'[o].user] # None
                 /\ object'[o].saved => entry'[object'[o].user].auth = object'[o].token
      <4>1. o \in DOMAIN object /\ Open(o) /\ object[o].user \in Users /\ o # None
        BY <3>2, <1>6, ObjectFields DEF Open
      <4>2. object[o].user # u
        BY <3>2, <4>1, <1>3, <1>6 DEF held, Connected
      <4> QED
        BY <3>2, <4>1, <4>2, <1>2, <1>6, <2>1 DEF EntryInv
    <3> QED
      BY <3>1, <3>2 DEF EntryInv
  <2>7. GoneInv'
    <3> SUFFICES ASSUME NEW v \in Users \ overlap', gone'[v] # None, <<"logout", v>> \notin failed'
                 PROVE  /\ users'[v] = None
                        /\ entry'[v] = None \/ (gone'[v] = "logout" /\ entry'[v].auth = None)
                        /\ job'[<<"load", v>>].at \in {"idle", "listed"}
                        /\ job'[<<"login", v>>].at \in {"idle", "auth"}
      BY DEF GoneInv
    <3>1. CASE v = u
      <4>1. <<"load", u>> \in Jobs /\ <<"login", u>> \in Jobs
        BY DEF Jobs
      <4> QED
        BY <3>1, <4>1, <1>1, <1>3, <1>6, <2>1 DEF Connected
    <3>2. CASE v # u
      BY <3>2, <1>1, <1>2, <1>6, <2>1, <2>2 DEF GoneInv
    <3> QED
      BY <3>1, <3>2
  <2>8. LockedCallsLive'
    BY <1>1, <1>2, <1>6, PanicKept
  <2> QED
    BY <2>3, <2>4, <2>5, <2>6, <2>7, <2>8
<1>7. ASSUME Connected(u), ~Open(users[u]), Panics("delete"), UNCHANGED <<entry, session, object, users, failed>>
      PROVE  IInv'
  <2>1. gone' = gone
    BY <1>1, <1>7, LifecycleAssumption DEF Panics, Published
  <2>2. phase # "run" \/ overlap' # {}
    BY <1>2, <1>7 DEF OpenInv, Connected
  <2>3. LockedCallsLive'
    BY <1>1, <1>7, <2>2 DEF LockedCallsLive, Panics
  <2> QED
    BY <1>1, <1>2, <1>7, <2>1, <2>3, PanicStep
<1>8. ASSUME Connected(u), Open(users[u]), object[users[u]].saved,
             object' = [object EXCEPT ![users[u]] = Shut(@)], users' = Removed(u),
             failed \subseteq failed', panic' = panic,
             \/ session' = EndSession(object[users[u]].token) /\ entry' = forget(Cleared(u))
             \/ session' = session /\ entry' = forget(entry)
      PROVE  IInv'
  <2> DEFINE o == users[u]
  <2>1. o \in DOMAIN object /\ object[o].user = u
    BY <1>8 DEF Connected, MapInv
  <2>2. /\ object' \in Seq(UserObjects) /\ DOMAIN object' = DOMAIN object
        /\ \A p \in DOMAIN object \ {o} : object'[p] = object[p]
        /\ object'[o].user = u /\ ~object'[o].open /\ object'[o].saved
    BY <1>8, <2>1, ShutObject
  <2>3. /\ entry' \in [Users -> {None} \cup Entries]
        /\ \A v \in Users \ {u} : entry'[v] = entry[v]
        /\ u \notin overlap' => entry'[u] = None
    <3>1. /\ Cleared(u) \in [Users -> {None} \cup Entries]
          /\ \A v \in Users \ {u} : Cleared(u)[v] = entry[v]
      BY <1>1, ClearedEntry
    <3>2. entry \in [Users -> {None} \cup Entries]
      BY DEF TypeInv
    <3>3. CASE entry' = forget(entry)
      BY <3>2, <3>3, <1>4
    <3>4. CASE entry' = forget(Cleared(u))
      BY <3>1, <3>4, <1>4
    <3> QED
      BY <1>8, <3>3, <3>4
  <2>4. session' \in [1 .. MaxSessions -> {None, Ended} \cup Nat]
    <3>1. object[o].token \in {None} \cup Tokens
      BY <2>1, ObjectFields DEF UserObjects
    <3> QED
      BY <1>8, <3>1, EndSessionType DEF TypeInv
  <2>5. users' \in [Users -> {None} \cup Nat]
    BY <1>8 DEF Removed, TypeInv
  <2>6. TypeInv'
    BY <1>1, <1>2, <1>5, <1>8, <2>2, <2>3, <2>4, <2>5 DEF TypeInv
  <2>7. LockedCallsLive'
    BY <1>1, <1>2, <1>8, PanicKept
  <2>8. users[u] = o
    OBVIOUS
  <2>9. gone'[u] = "delete" /\ \A v \in Users \ {u} : gone'[v] = gone[v]
    BY <1>1, <1>5, <1>8
  <2>10. \A r \in {"feedback", "call"} :
           reader'[r] # None => reader'[r] = reader[r] /\ (object[reader[r]].user # u \/ u \in overlap')
    BY <1>1
  <2>11. \A v \in Users : <<"logout", v>> \in failed => <<"logout", v>> \in failed'
    BY <1>8
  <2>12. \A v \in Users \ {u} : entry'[v] = entry[v] /\ gone'[v] = gone[v]
    BY <2>3, <2>9
  <2>13. u \notin overlap' =>
           /\ entry'[u] = None => \A k \in Jobs : k[2] = u => job[k].at = "idle"
           /\ (gone'[u] # None /\ <<"logout", u>> \notin failed') =>
                 entry'[u] = None \/ (gone'[u] = "logout" /\ entry'[u].auth = None)
    BY <1>3, <2>3
  <2>14. users' = Removed(u) /\ UNCHANGED <<job, listed, phase>>
    BY <1>1, <1>8
  <2> HIDE DEF o
  <2> QED
    BY <1>2, <2>1, <2>2, <2>6, <2>7, <2>8, <2>10, <2>11, <2>12, <2>13, <2>14, RemovalStep
<1> QED
  <2>1. CASE ~Connected(u)
    <3>1. entry' = forget(entry) /\ UNCHANGED <<session, object, users, panic, failed>>
      BY <2>1 DEF DeleteUser, held
    <3> QED
      BY <1>6, <2>1, <3>1
  <2>2. CASE Connected(u)
    <3>1. \/ ~Open(users[u]) /\ Panics("delete") /\ UNCHANGED <<entry, session, object, users, failed>>
          \/ /\ Open(users[u]) /\ object[users[u]].saved
             /\ object' = [object EXCEPT ![users[u]] = Shut(@)] /\ users' = Removed(u)
             /\ \/ session' = EndSession(object[users[u]].token) /\ entry' = forget(Cleared(u)) /\ failed' = failed
                \/ session' = session /\ entry' = forget(entry) /\ failed' = failed \cup {<<"logout", u>>}
             /\ panic' = panic
      BY <2>2 DEF DeleteUser, held
    <3> QED
      BY <1>7, <1>8, <2>2, <3>1
  <2> QED
    BY <2>1, <2>2

(* The handler of a deauth logs out the user, whichever object it has now. *)
LEMMA HandleDeauthStep ==
    ASSUME IInv, NEW o \in DOMAIN object, handleUserDeauth(o)
    PROVE  IInv'
<1> USE DEF IInv
<1> DEFINE u == object[o].user
<1>1. /\ panic = None /\ reader["feedback"] = None /\ reader["call"] = None
      /\ UNCHANGED <<session, job, listed, phase, reader, gone>>
      /\ overlap' = overlap \cup {j[2] : j \in {k \in Jobs : job[k].obj = o}}
  BY DEF handleUserDeauth, DeauthLock, Running, NoLock, others
<1>2. overlap \subseteq overlap' /\ u \in Users /\ object[o] \in UserObjects
  BY <1>1, ObjectFields
<1>3. ASSUME ~Open(o), Panics("handler"), UNCHANGED <<entry, object, users, failed>>
      PROVE  IInv'
  <2>1. LockedCallsLive'
    BY <1>3 DEF LockedCallsLive, Panics
  <2> QED
    BY <1>1, <1>2, <1>3, <2>1, PanicStep
<1>4. ASSUME Open(o), entry[u] = None, Panics("wiped entry"), UNCHANGED <<entry, object, users, failed>>
      PROVE  IInv'
  <2>1. overlap # {}
    BY <1>4 DEF EntryInv
  <2>2. LockedCallsLive'
    BY <1>2, <1>4, <2>1 DEF LockedCallsLive, Panics
  <2> QED
    BY <1>1, <1>2, <1>4, <2>2, PanicStep
<1>5. ASSUME Open(o), object[o].saved, entry[u] # None, panic' = panic, failed \subseteq failed',
             object' = [object EXCEPT ![o] = [Shut(@) EXCEPT !.handling = None]], users' = Removed(u),
             entry' = Cleared(u) \/ (entry' = entry /\ <<"logout", u>> \in failed')
      PROVE  IInv'
  <2> DEFINE n == [Shut(object[o]) EXCEPT !.handling = None]
  <2>1. /\ Shut(object[o]) \in UserObjects /\ Shut(object[o]).user = u /\ ~Shut(object[o]).open
        /\ Shut(object[o]).saved
    BY <1>2, <1>5, ShutFields
  <2>2. n \in UserObjects /\ n.user = u /\ ~n.open /\ n.saved
    BY <2>1 DEF UserObjects
  <2>3. object' = [object EXCEPT ![o] = n]
    BY <1>5
  <2> HIDE DEF n
  <2>4. /\ object' \in Seq(UserObjects) /\ DOMAIN object' = DOMAIN object
        /\ \A p \in DOMAIN object \ {o} : object'[p] = object[p]
        /\ object'[o].user = u /\ ~object'[o].open /\ object'[o].saved
    BY <2>2, <2>3, SetObject
  <2>5. /\ entry' \in [Users -> {None} \cup Entries] /\ entry'[u] # None
        /\ \A v \in Users \ {u} : entry'[v] = entry[v]
    BY <1>2, <1>5, ClearedEntry DEF TypeInv
  <2>6. users' \in [Users -> {None} \cup Nat]
    BY <1>2, <1>5 DEF Removed, TypeInv
  <2>7. TypeInv'
    BY <1>1, <2>4, <2>5, <2>6 DEF TypeInv
  <2>8. LockedCallsLive'
    BY <1>1, <1>2, <1>5, PanicKept
  <2>9. users[u] = o \/ u \in overlap'
    <3> SUFFICES ASSUME u \notin overlap' PROVE users[u] = o
      OBVIOUS
    <3>1. users[u] = o \/ \E k \in Jobs : job[k].obj = o
      BY <1>2, <1>5 DEF OpenInv
    <3>2. ASSUME NEW k \in Jobs, job[k].obj = o PROVE FALSE
      <4>1. k[2] = u
        BY <3>2, ObjectFields DEF JobInv
      <4> QED
        BY <3>2, <4>1, <1>1
    <3> QED
      BY <3>1, <3>2
  <2>10. u \notin overlap' => gone[u] = None \/ <<"logout", u>> \in failed
    <3>1. o # None
      BY ObjectFields
    <3> QED
      BY <1>2, <2>9, <3>1 DEF GoneInv
  <2>11. \A v \in Users \ {u} : entry'[v] = entry[v] /\ gone'[v] = gone[v]
    BY <1>1, <2>5
  <2>12. u \notin overlap' =>
           /\ entry'[u] = None => \A k \in Jobs : k[2] = u => job[k].at = "idle"
           /\ (gone'[u] # None /\ <<"logout", u>> \notin failed') =>
                 entry'[u] = None \/ (gone'[u] = "logout" /\ entry'[u].auth = None)
    BY <1>1, <1>5, <2>5, <2>10
  <2>13. \A r \in {"feedback", "call"} :
           reader'[r] # None => reader'[r] = reader[r] /\ (object[reader[r]].user # u \/ u \in overlap')
    BY <1>1
  <2>14. \A v \in Users : <<"logout", v>> \in failed => <<"logout", v>> \in failed'
    BY <1>5
  <2>15. users' = Removed(u) /\ UNCHANGED <<job, listed, phase>>
    BY <1>1, <1>5
  <2> QED
    BY <1>2, <2>4, <2>7, <2>8, <2>9, <2>11, <2>12, <2>13, <2>14, <2>15, RemovalStep
<1> QED
  <2>1. \/ ~Open(o) /\ Panics("handler") /\ UNCHANGED <<entry, object, users, failed>>
        \/ /\ Open(o) /\ entry[u] = None /\ Panics("wiped entry")
           /\ UNCHANGED <<entry, object, users, failed>>
        \/ /\ Open(o) /\ object[o].saved /\ entry[u] # None /\ panic' = panic
           /\ object' = [object EXCEPT ![o] = [Shut(@) EXCEPT !.handling = None]]
           /\ users' = Removed(u)
           /\ \/ entry' = Cleared(u) /\ failed' = failed
              \/ entry' = entry /\ failed' = failed \cup {<<"logout", u>>}
    BY DEF handleUserDeauth
  <2> QED
    BY <1>3, <1>4, <1>5, <2>1

-----------------------------------------------------------------------------
(* The token of an object and that of its entry change. *)
LEMMA TokenStep ==
    ASSUME IInv, TypeInv', NEW o \in DOMAIN object, NEW u, u = object[o].user, Open(o),
           DOMAIN object' = DOMAIN object, \A p \in DOMAIN object \ {o} : object'[p] = object[p],
           object'[o].user = u, object'[o].open,
           UNCHANGED <<users, job, listed, reader, phase, gone, overlap, failed>>,
           \A v \in Users \ {u} : entry'[v] = entry[v],
           u \notin overlap =>
               entry'[u] # None /\ (object'[o].saved => entry'[u].auth = object'[o].token),
           LockedCallsLive'
    PROVE  IInv'
<1> USE DEF IInv
<1>1. o # None /\ u \in Users
  BY ObjectFields
<1>2. \A p \in DOMAIN object : /\ object'[p].user = object[p].user /\ object'[p].open = object[p].open
                               /\ object[p].user \in Users /\ p # None
  BY ObjectFields DEF Open
<1>3. u \notin overlap => users[u] = o \/ \E k \in Jobs : k[2] = u /\ job[k].obj = o /\ job[k].at = "built"
  BY <1>1 DEF OpenInv, JobInv
<1>4. \A k \in Jobs : k[2] = u /\ u \notin overlap => job[k].at \in {"idle", "listed", "built"}
  BY <1>1, <1>3 DEF AloneInv
<1>5. ASSUME NEW p \in DOMAIN object, p # o, Open(p), object[p].user = u, u \notin overlap
      PROVE  FALSE
  <2>1. users[u] = p \/ \E k \in Jobs : k[2] = u /\ job[k].obj = p /\ job[k].at = "built"
    BY <1>5, <1>2 DEF OpenInv, JobInv
  <2> QED
    BY <1>2, <1>3, <1>5, <2>1 DEF AloneInv
<1>6. u \notin overlap => gone[u] = None \/ <<"logout", u>> \in failed
  <2> SUFFICES ASSUME u \notin overlap, gone[u] # None, <<"logout", u>> \notin failed PROVE FALSE
    OBVIOUS
  <2>1. users[u] = None /\ job[<<"load", u>>].at \in {"idle", "listed"} /\ job[<<"login", u>>].at \in {"idle", "auth"}
    BY <1>1 DEF GoneInv
  <2>2. PICK k \in Jobs : k[2] = u /\ job[k].at = "built"
    BY <1>1, <1>3, <2>1
  <2>3. k = <<"load", u>> \/ k = <<"login", u>>
    BY <2>2 DEF Jobs
  <2> QED
    BY <2>1, <2>2, <2>3
<1>7. MapInv' /\ ReaderInv'
  BY <1>2 DEF MapInv, ReaderInv
<1>8. JobInv' /\ AloneInv'
  BY <1>2 DEF JobInv, AloneInv
<1>9. OpenInv'
  <2>1. \A p \in DOMAIN object' : ~object'[p].saved => Open(p)'
    BY DEF OpenInv, Open
  <2>2. \A p \in DOMAIN object' :
          Open(p)' /\ object'[p].user \notin overlap' =>
              users'[object'[p].user] = p \/ \E j \in Jobs : job'[j].obj = p
    BY <1>2 DEF OpenInv, Open
  <2>3. \A j \in Jobs : job'[j].at = "built" /\ j[2] \notin overlap' => object'[job'[j].obj].open
    BY <1>2 DEF OpenInv, JobInv, Open
  <2>4. \A v \in Users : users'[v] # None /\ v \notin overlap' /\ phase' = "run" => object'[users'[v]].open
    BY <1>2 DEF OpenInv, MapInv, Open
  <2> QED
    BY <2>1, <2>2, <2>3, <2>4 DEF OpenInv, Open
<1>10. EntryInv'
  <2>1. ASSUME NEW k \in Jobs, job'[k].at \in {"listed", "refreshed", "stored"}, k[2] \notin overlap'
        PROVE  /\ entry'[k[2]] # None
               /\ job'[k].at = "stored" => entry'[k[2]].auth = job'[k].token
    <3>1. k[2] \in Users
      BY DEF Jobs
    <3> QED
      BY <2>1, <3>1, <1>4 DEF EntryInv
  <2>2. ASSUME NEW p \in DOMAIN object', Open(p)', object'[p].user \notin overlap'
        PROVE  /\ entry'[object'[p].user] # None
               /\ object'[p].saved => entry'[object'[p].user].auth = object'[p].token
    <3>1. p \in DOMAIN object /\ Open(p) /\ object'[p].user = object[p].user /\ object[p].user \in Users
      BY <2>2, <1>2 DEF Open
    <3>2. CASE p = o
      BY <2>2, <3>2
    <3>3. CASE p # o
      <4>1. object[p].user # u
        BY <2>2, <3>1, <3>3, <1>5
      <4> QED
        BY <2>2, <3>1, <3>3, <4>1 DEF EntryInv
    <3> QED
      BY <3>2, <3>3
  <2> QED
    BY <2>1, <2>2 DEF EntryInv
<1>11. GoneInv'
  BY <1>6 DEF GoneInv
<1> QED
  BY <1>7, <1>8, <1>9, <1>10, <1>11

(* The API client of an object refreshes its token. *)
LEMMA ClientRefreshStep ==
    ASSUME IInv, NEW o \in DOMAIN object, ClientRefresh(o)
    PROVE  IInv'
<1> DEFINE u == object[o].user
           t == object[o].token
           new == <<t[1], session[t[1]] + 1>>
           n == [object[o] EXCEPT !.token = new, !.saved = FALSE]
<1>1. /\ Open(o) /\ Valid(t)
      /\ UNCHANGED <<entry, users, job, listed, reader, phase, panic, gone, overlap, failed>>
  BY DEF ClientRefresh
<1>2. object[o] \in UserObjects /\ u \in Users
  BY ObjectFields DEF IInv
<1>3. t \in Tokens /\ session[t[1]] = t[2]
  BY <1>1, <1>2 DEF Valid, UserObjects
<1>4. t[1] \in 1 .. MaxSessions /\ session[t[1]] + 1 \in Nat
  BY <1>3 DEF Tokens
<1>5. new \in Tokens
  BY <1>4 DEF Tokens
<1>6. /\ object' = [object EXCEPT ![o] = n]
      /\ session' = [session EXCEPT ![t[1]] = @ + 1]
  BY DEF ClientRefresh
<1>7. session' \in [1 .. MaxSessions -> {None, Ended} \cup Nat]
  BY <1>4, <1>6 DEF IInv, TypeInv
<1> HIDE DEF new
<1>8. n \in UserObjects /\ n.user = u /\ n.open = object[o].open /\ ~n.saved
  BY <1>2, <1>5 DEF UserObjects
<1> HIDE DEF n
<1>9. /\ object' \in Seq(UserObjects) /\ DOMAIN object' = DOMAIN object
      /\ \A p \in DOMAIN object \ {o} : object'[p] = object[p]
      /\ object'[o].user = u /\ object'[o].open /\ ~object'[o].saved
  BY <1>1, <1>6, <1>8, SetObject DEF IInv, Open
<1>10. TypeInv'
  BY <1>1, <1>7, <1>9 DEF IInv, TypeInv
<1>11. LockedCallsLive'
  BY <1>1, PanicKept DEF IInv
<1>12. u \notin overlap => entry'[u] # None
  BY <1>1 DEF IInv, EntryInv
<1> QED
  BY <1>1, <1>9, <1>10, <1>11, <1>12, TokenStep

(* The refreshed token reaches the vault. *)
LEMMA AuthHandlerStep ==
    ASSUME IInv, NEW o \in DOMAIN object, AuthHandler(o)
    PROVE  IInv'
<1> DEFINE u == object[o].user
           n == [object[o] EXCEPT !.saved = TRUE]
<1>1. UNCHANGED <<session, users, job, listed, reader, phase, gone, overlap, failed>> /\ Open(o)
  BY DEF AuthHandler, others, IInv, OpenInv
<1>2. object[o] \in UserObjects /\ u \in Users /\ object[o].token \in {None} \cup Tokens
  BY ObjectFields DEF IInv, UserObjects
<1>3. object' = [object EXCEPT ![o] = n]
  BY DEF AuthHandler
<1>4. n \in UserObjects /\ n.user = u /\ n.open = object[o].open /\ n.token = object[o].token
  BY <1>2 DEF UserObjects
<1> HIDE DEF n
<1>5. /\ object' \in Seq(UserObjects) /\ DOMAIN object' = DOMAIN object
      /\ \A p \in DOMAIN object \ {o} : object'[p] = object[p]
      /\ object'[o].user = u /\ object'[o].open /\ object'[o].token = object[o].token
  BY <1>1, <1>3, <1>4, SetObject DEF IInv, Open
<1>6. CASE entry[u] = None
  <2>1. panic' = "wiped entry" /\ entry' = entry
    BY <1>6 DEF AuthHandler, Panics
  <2>2. u \in overlap
    BY <1>1, <1>6 DEF IInv, EntryInv
  <2>3. LockedCallsLive'
    BY <1>1, <2>1, <2>2 DEF LockedCallsLive
  <2>4. TypeInv'
    BY <1>1, <1>5, <2>1 DEF IInv, TypeInv
  <2> QED
    BY <1>1, <1>5, <2>1, <2>2, <2>3, <2>4, TokenStep
<1>7. CASE entry[u] # None
  <2>1. panic' = panic /\ entry' = [entry EXCEPT ![u].auth = object[o].token]
    BY <1>7 DEF AuthHandler, NewAuth
  <2>2. /\ entry' \in [Users -> {None} \cup Entries] /\ entry'[u] # None
        /\ entry'[u].auth = object[o].token /\ \A v \in Users \ {u} : entry'[v] = entry[v]
    <3> DEFINE e == [entry[u] EXCEPT !.auth = object[o].token]
    <3>1. entry[u] \in Entries
      BY <1>2, <1>7 DEF IInv, TypeInv
    <3>2. e \in Entries /\ e.auth = object[o].token
      BY <1>2, <3>1 DEF Entries
    <3>3. entry' = [entry EXCEPT ![u] = e]
      BY <2>1
    <3> HIDE DEF e, u
    <3> QED
      BY <1>2, <3>2, <3>3, LifecycleAssumption DEF IInv, TypeInv
  <2>3. TypeInv'
    BY <1>1, <1>5, <2>2 DEF IInv, TypeInv
  <2>4. LockedCallsLive'
    BY <1>1, <2>1, PanicKept DEF IInv
  <2> QED
    BY <1>1, <1>5, <2>2, <2>3, <2>4, TokenStep
<1> QED
  BY <1>6, <1>7

-----------------------------------------------------------------------------
(* All users of the map are closed. *)
LEMMA ShutMapped ==
    ASSUME TypeInv,
           object' = [o \in DOMAIN object |->
                         IF users[object[o].user] = o THEN Shut(object[o]) ELSE object[o]]
    PROVE  /\ object' \in Seq(UserObjects) /\ DOMAIN object' = DOMAIN object
           /\ \A o \in DOMAIN object :
                 /\ object'[o].user = object[o].user /\ object'[o].saved = object[o].saved
                 /\ users[object[o].user] # o => object'[o] = object[o]
                 /\ object'[o].open => users[object[o].user] # o
<1>1. \A o \in DOMAIN object :
         /\ object[o] \in UserObjects /\ Shut(object[o]) \in UserObjects
         /\ Shut(object[o]).user = object[o].user /\ ~Shut(object[o]).open
         /\ Shut(object[o]).saved = object[o].saved
  BY ObjectFields, ShutFields
<1>2. object' \in [DOMAIN object -> UserObjects]
  BY <1>1
<1>3. object' \in Seq(UserObjects) /\ DOMAIN object' = DOMAIN object
  BY <1>2, SameLength DEF TypeInv
<1> QED
  BY <1>1, <1>3

(* The bridge closes its users. *)
LEMMA CloseUsersStep ==
    ASSUME IInv, CloseUsers
    PROVE  IInv'
<1> USE DEF IInv
<1>1. /\ UNCHANGED <<entry, session, users, job, listed, reader, panic, overlap, gone, failed>>
      /\ reader["feedback"] = None /\ reader["call"] = None /\ phase' # "run"
      /\ \A u \in Users : Connected(u) => object[users[u]].saved
  BY DEF CloseUsers, Locks, NoLock
<1>2. /\ object' \in Seq(UserObjects) /\ DOMAIN object' = DOMAIN object
      /\ \A o \in DOMAIN object :
            /\ object'[o].user = object[o].user /\ object'[o].saved = object[o].saved
            /\ users[object[o].user] # o => object'[o] = object[o]
            /\ object'[o].open => users[object[o].user] # o
  BY ShutMapped DEF CloseUsers
<1>3. \A o \in DOMAIN object : object[o].user \in Users /\ o # None
  BY ObjectFields
<1>4. TypeInv'
  BY <1>1, <1>2 DEF TypeInv
<1>5. MapInv' /\ ReaderInv' /\ JobInv' /\ AloneInv'
  BY <1>1, <1>2 DEF MapInv, ReaderInv, JobInv, AloneInv
<1>6. OpenInv'
  <2>1. \A o \in DOMAIN object' : ~object'[o].saved => object'[o].open
    BY <1>1, <1>2, <1>3 DEF OpenInv, Open, Connected
  <2>2. \A o \in DOMAIN object' :
          object'[o].open /\ object'[o].user \notin overlap' =>
              users'[object'[o].user] = o \/ \E j \in Jobs : job'[j].obj = o
    BY <1>1, <1>2 DEF OpenInv, Open
  <2>3. ASSUME NEW j \in Jobs, job'[j].at = "built", j[2] \notin overlap'
        PROVE  object'[job'[j].obj].open
    <3>1. job[j].obj \in DOMAIN object /\ object[job[j].obj].user = j[2] /\ users[j[2]] = None /\ Open(job[j].obj)
      BY <2>3, <1>1 DEF JobInv, AloneInv, OpenInv
    <3> QED
      BY <3>1, <1>1, <1>2, <1>3 DEF Open
  <2> QED
    BY <2>1, <2>2, <2>3, <1>1 DEF OpenInv, Open
<1>7. EntryInv'
  <2>1. \A j \in Jobs :
          job'[j].at \in {"listed", "refreshed", "stored"} /\ j[2] \notin overlap' =>
              /\ entry'[j[2]] # None
              /\ job'[j].at = "stored" => entry'[j[2]].auth = job'[j].token
    BY <1>1 DEF EntryInv
  <2>2. \A o \in DOMAIN object' :
          object'[o].open /\ object'[o].user \notin overlap' =>
              /\ entry'[object'[o].user] # None
              /\ object'[o].saved => entry'[object'[o].user].auth = object'[o].token
    BY <1>1, <1>2 DEF EntryInv, Open
  <2> QED
    BY <2>1, <2>2 DEF EntryInv, Open
<1>8. GoneInv'
  BY <1>1 DEF GoneInv
<1>9. LockedCallsLive'
  BY <1>1, PanicKept
<1> QED
  BY <1>4, <1>5, <1>6, <1>7, <1>8, <1>9

(* A factory reset logs out and closes all connected users. *)
LEMMA FactoryResetStep ==
    ASSUME IInv, FactoryReset
    PROVE  IInv'
<1> USE DEF IInv
<1>1. /\ UNCHANGED <<job, listed, phase, panic, overlap, gone, failed>>
      /\ reader["feedback"] = None /\ reader["call"] = None
      /\ reader' = [reader EXCEPT !["reset"] = "vault"]
      /\ \A u \in Users : Connected(u) => object[users[u]].saved
      /\ users' = [u \in Users |-> None]
  BY DEF FactoryReset, Locks, NoLock
<1>2. /\ object' \in Seq(UserObjects) /\ DOMAIN object' = DOMAIN object
      /\ \A o \in DOMAIN object :
            /\ object'[o].user = object[o].user /\ object'[o].saved = object[o].saved
            /\ users[object[o].user] # o => object'[o] = object[o]
            /\ object'[o].open => users[object[o].user] # o
  BY ShutMapped DEF FactoryReset
<1>3. \A o \in DOMAIN object : object[o].user \in Users /\ o # None
  BY ObjectFields
<1>4. /\ entry' \in [Users -> {None} \cup Entries]
      /\ \A u \in Users : (users[u] = None => entry'[u] = entry[u]) /\ (entry[u] # None => entry'[u] # None)
  <2>1. \A u \in Users : entry[u] # None => Cleared(u)[u] # None /\ Cleared(u)[u] \in {None} \cup Entries
    BY ClearedEntry
  <2>2. entry' = [u \in Users |-> IF Connected(u) /\ entry[u] # None THEN Cleared(u)[u] ELSE entry[u]]
    BY DEF FactoryReset
  <2>3. \A u \in Users : entry[u] \in {None} \cup Entries
    BY DEF TypeInv
  <2> QED
    BY <2>1, <2>2, <2>3 DEF Connected
<1>5. session' \in [1 .. MaxSessions -> {None, Ended} \cup Nat]
  BY DEF FactoryReset, TypeInv
<1>6. reader' = [r \in Readers |-> reader'[r]] /\ reader'["feedback"] = None /\ reader'["call"] = None
  BY <1>1 DEF TypeInv, Readers
<1>7. TypeInv'
  BY <1>1, <1>2, <1>4, <1>5, <1>6 DEF TypeInv
<1>8. MapInv' /\ ReaderInv'
  BY <1>1, <1>6 DEF MapInv, ReaderInv
<1>9. JobInv'
  BY <1>1, <1>2 DEF JobInv
<1>10. AloneInv'
  <2>1. \A j \in Jobs : j[2] \in Users
    BY DEF Jobs
  <2> QED
    BY <1>1, <2>1 DEF AloneInv
<1>11. ASSUME NEW o \in DOMAIN object', object'[o].open, object'[o].user \notin overlap'
       PROVE  /\ users[object[o].user] = None /\ object'[o] = object[o] /\ Open(o)
              /\ \E j \in Jobs : job[j].obj = o
  <2>1. o \in DOMAIN object /\ o # None /\ users[object[o].user] # o /\ object'[o] = object[o] /\ Open(o)
    BY <1>11, <1>2, <1>3 DEF Open
  <2>2. PICK j \in Jobs : job[j].obj = o
    BY <1>11, <1>1, <2>1 DEF OpenInv
  <2>3. job[j].at = "built" /\ j[2] = object[o].user
    BY <2>1, <2>2 DEF JobInv
  <2> QED
    BY <1>11, <1>1, <2>1, <2>2, <2>3 DEF AloneInv
<1>12. OpenInv'
  <2>1. \A o \in DOMAIN object' : ~object'[o].saved => object'[o].open
    BY <1>1, <1>2, <1>3 DEF OpenInv, Open, Connected
  <2>2. \A o \in DOMAIN object' :
          object'[o].open /\ object'[o].user \notin overlap' =>
              users'[object'[o].user] = o \/ \E j \in Jobs : job'[j].obj = o
    BY <1>1, <1>11
  <2>3. ASSUME NEW j \in Jobs, job'[j].at = "built", j[2] \notin overlap'
        PROVE  object'[job'[j].obj].open
    <3>1. job[j].obj \in DOMAIN object /\ object[job[j].obj].user = j[2] /\ users[j[2]] = None /\ Open(job[j].obj)
      BY <2>3, <1>1 DEF JobInv, AloneInv, OpenInv
    <3> QED
      BY <3>1, <1>1, <1>2, <1>3 DEF Open
  <2> QED
    BY <2>1, <2>2, <2>3, <1>1 DEF OpenInv, Open
<1>13. EntryInv'
  <2>1. ASSUME NEW j \in Jobs, job'[j].at \in {"listed", "refreshed", "stored"}, j[2] \notin overlap'
        PROVE  /\ entry'[j[2]] # None
               /\ job'[j].at = "stored" => entry'[j[2]].auth = job'[j].token
    <3>1. j[2] \in Users
      BY DEF Jobs
    <3> QED
      BY <2>1, <3>1, <1>1, <1>4 DEF EntryInv, AloneInv
  <2>2. ASSUME NEW o \in DOMAIN object', object'[o].open, object'[o].user \notin overlap'
        PROVE  /\ entry'[object'[o].user] # None
               /\ object'[o].saved => entry'[object'[o].user].auth = object'[o].token
    <3>1. users[object[o].user] = None /\ object'[o] = object[o] /\ Open(o) /\ o \in DOMAIN object
      BY <2>2, <1>2, <1>11
    <3>2. entry'[object[o].user] = entry[object[o].user]
      BY <3>1, <1>3, <1>4
    <3> QED
      BY <2>2, <3>1, <3>2, <1>1 DEF EntryInv
  <2> QED
    BY <2>1, <2>2 DEF EntryInv, Open
<1>14. GoneInv'
  BY <1>1, <1>4 DEF GoneInv
<1>15. LockedCallsLive'
  BY <1>1, PanicKept
<1> QED
  BY <1>7, <1>8, <1>9, <1>10, <1>12, <1>13, <1>14, <1>15

(* The vault is emptied. *)
LEMMA VaultResetStep ==
    ASSUME IInv, VaultReset
    PROVE  IInv'
<1> USE DEF IInv
<1>1. /\ UNCHANGED <<session, object, users, job, listed, phase, panic, failed>>
      /\ entry' = [u \in Users |-> None] /\ gone' = [u \in Users |-> "delete"]
      /\ reader' = [reader EXCEPT !["reset"] = None]
      /\ overlap' = overlap \cup {u \in Users : InUse(u) \/ Adding(u) # {} \/ Connected(u)}
  BY DEF VaultReset, Leave
<1>2. reader' = [r \in Readers |-> reader'[r]] /\ reader'["feedback"] = reader["feedback"] /\ reader'["call"] = reader["call"]
  BY <1>1 DEF TypeInv, Readers
<1>3. TypeInv'
  BY <1>1, <1>2 DEF TypeInv
<1>4. MapInv' /\ JobInv' /\ AloneInv' /\ ReaderInv'
  BY <1>1, <1>2 DEF MapInv, JobInv, AloneInv, ReaderInv
<1>5. OpenInv'
  BY <1>1 DEF OpenInv, Open
<1>6. \A u \in Users \ overlap' : users[u] = None /\ \A j \in Jobs : j[2] = u => job[j].at = "idle"
  BY <1>1 DEF Adding, Connected
<1>7. \A j \in Jobs : j[2] \in Users
  BY DEF Jobs
<1>8. EntryInv'
  <2>1. \A o \in DOMAIN object' : Open(o)' => object'[o].user \in overlap'
    BY <1>1, ObjectFields DEF InUse, Open
  <2> QED
    BY <1>1, <1>6, <1>7, <2>1 DEF EntryInv
<1>9. GoneInv'
  <2>1. \A u \in Users : <<"load", u>> \in Jobs /\ <<"login", u>> \in Jobs
    BY DEF Jobs
  <2> QED
    BY <1>1, <1>6, <2>1 DEF GoneInv
<1>10. LockedCallsLive'
  BY <1>1, PanicKept
<1> QED
  BY <1>3, <1>4, <1>5, <1>8, <1>9, <1>10

(* A new process starts from what the disk holds. *)
LEMMA RestartStep ==
    ASSUME IInv, Restart
    PROVE  IInv'
<1> USE DEF IInv
<1>1. /\ object' = <<>> /\ users' = [u \in Users |-> None] /\ job' = [j \in Jobs |-> Idle]
      /\ reader' = [r \in Readers |-> None] /\ panic' = None /\ overlap \subseteq overlap'
      /\ UNCHANGED <<entry, session, gone, failed>>
  BY DEF Restart
<1>2. Idle \in Additions /\ Idle.at = "idle" /\ Idle.obj = None
  BY DEF Idle, Additions
<1>3. \A j \in Jobs : job'[j].at = "idle" /\ job'[j].obj = None
  BY <1>1, <1>2
<1>4. TypeInv'
  BY <1>1, <1>2 DEF TypeInv
<1>5. MapInv' /\ ReaderInv'
  BY <1>1 DEF MapInv, ReaderInv, Readers
<1>6. JobInv' /\ AloneInv'
  BY <1>3 DEF JobInv, AloneInv
<1>7. DOMAIN object' = {}
  BY <1>1
<1>8. OpenInv' /\ EntryInv'
  BY <1>1, <1>3, <1>7 DEF OpenInv, EntryInv
<1>9. GoneInv'
  <2>1. \A u \in Users : <<"load", u>> \in Jobs /\ <<"login", u>> \in Jobs
    BY DEF Jobs
  <2> QED
    BY <1>1, <1>3, <2>1 DEF GoneInv
<1>10. LockedCallsLive'
  BY <1>1, LifecycleAssumption DEF LockedCallsLive
<1> QED
  BY <1>4, <1>5, <1>6, <1>8, <1>9, <1>10

-----------------------------------------------------------------------------
(* Every step of the specification keeps the invariant. *)
LEMMA StepIInv == IInv /\ [Next]_vars => IInv'
<1> SUFFICES ASSUME IInv, [Next]_vars PROVE IInv'
  OBVIOUS
<1>1. ASSUME UNCHANGED vars PROVE IInv'
  <2>1. /\ UNCHANGED <<entry, session, object, users, job, listed, phase, gone, failed, reader, overlap, panic>>
    BY <1>1 DEF vars
  <2>2. LockedCallsLive'
    BY <2>1, PanicKept DEF IInv
  <2> QED
    BY <2>1, <2>2, PanicStep
<1>2. ASSUME Work PROVE IInv'
  <2>1. ASSUME NEW j \in Jobs, (j[1] = "load" /\ GetOrAddUser(j)) \/ NewUser(j) \/ addUserWithVault(j) PROVE IInv'
    BY <2>1, GetOrAddStep, NewUserStep, EnterMapStep
  <2>2. ASSUME NEW u \in Users, NewClientWithRefresh(u) \/ SetAuth(u) PROVE IInv'
    BY <2>2, RefreshStep, SetAuthStep
  <2>3. ASSUME NEW o \in DOMAIN object,
               \/ AuthHandler(o) \/ TakeEvent(o) \/ handleUserDeauth(o)
               \/ handleUserBadEvent(o) \/ VerifyResyncAndExecute(o)
        PROVE  IInv'
    BY <2>3, AuthHandlerStep, EventSteps, HandleDeauthStep, VerifyStep
  <2> QED
    BY <1>2, <2>1, <2>2, <2>3, LoadStep, BridgeSteps, FeedbackStep, CallStep, VaultResetStep DEF Work
<1>3. ASSUME Requests PROVE IInv'
  <2>1. ASSUME NEW u \in Users,
               \/ LoginAuth(u) \/ LoginAborted(u) \/ LoadFails(u)
               \/ LogoutUser(u) \/ DeleteUser(u) \/ DeleteUserFails(u) \/ Repair(u)
        PROVE  IInv'
    BY <2>1, LoginStep, AbortStep, LoadFailsStep, LogoutStep, DeleteStep, RepairStep
  <2>2. ASSUME NEW u \in Users, GetOrAddUser(<<"login", u>>) PROVE IInv'
    <3>1. <<"login", u>> \in Jobs
      BY DEF Jobs
    <3> QED
      BY <2>2, <3>1, GetOrAddStep
  <2>3. ASSUME NEW u \in Users, NEW r \in {"feedback", "call", "repair"}, Lookup(r, u) PROVE IInv'
    BY <2>3, LookupStep
  <2>4. ASSUME NEW o \in DOMAIN object, UserBadEvent(o) \/ ClientRefresh(o) PROVE IInv'
    BY <2>4, EventSteps, ClientRefreshStep
  <2> QED
    BY <1>3, <2>1, <2>2, <2>3, <2>4, NewUserFailsStep, DeauthStep, BridgeSteps, FactoryResetStep,
       CloseUsersStep, RestartStep DEF Requests
<1> QED
  BY <1>1, <1>2, <1>3 DEF Next

(* The map of users, the vault, the sessions and the running services      *)
(* agree in every reachable state, whatever logins, logouts, loads,        *)
(* handlers of events, resets, shutdowns and crashes overlap, for any      *)
(* number of accounts (bridge/user.go, bridge/user_events.go).             *)
THEOREM UsersStayInStep == Spec => []UsersAgree
<1>1. Spec => []IInv
  BY InitIInv, StepIInv, PTL DEF Spec
<1> QED
  BY <1>1, Agreement, PTL

=============================================================================
