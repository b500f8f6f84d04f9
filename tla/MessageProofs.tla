--------------------------- MODULE MessageProofs ----------------------------
(***************************************************************************)
(* Proof that Gluon mirrors the account whenever events and commands are   *)
(* at rest (Messages).                                                     *)
(*                                                                         *)
(* The property speaks of states at rest; the invariant says where the     *)
(* difference between the API and Gluon's copy is held in every other      *)
(* state: in an event about the message that is ahead of the handler, or   *)
(* will be again; in the update on its way to the connector; or in the     *)
(* note that Gluon did not have the message (MirrorOf).  A command at work *)
(* on a message has told an event of it that is ahead, or an update waits  *)
(* for it.                                                                 *)
(***************************************************************************)
EXTENDS Messages, TLAPS

Acts == {"create", "flags", "update", "delete", "label"}
Notices == [act : Acts, id : Msgs \cup UserLabels \cup UserFolders, meta : Metas \cup {None}]

(* Event i is about message m, and it is the last one that is.             *)
About(i, m) == i \in 1 .. Len(events) /\ events[i].act # "label" /\ events[i].id = m
Final(i, m) == About(i, m) /\ \A j \in 1 .. Len(events) : About(j, m) => j <= i

(* Event i has still to be handled, or will be again.                      *)
Ahead(i) == pc = "idle" \/ i > at \/ (pc = "next" /\ i = at)
Pending(m) == \E i \in 1 .. Len(events) : About(i, m) /\ Ahead(i)
Rewritten(m) == \E i \in 1 .. Len(events) : About(i, m) /\ Ahead(i) /\ events[i].act = "update"

(* The last that was told of m is that it was created.                     *)
JustCreated(m) == \E i \in 1 .. Len(events) : Final(i, m) /\ events[i].act = "create"

(* The connector that m belongs to; a command is at work on m there; an    *)
(* update of m is on its way to it.                                        *)
Home(m) == IF mode = "combined" THEN Primary ELSE remote[m].addr
Mine(c, m) == Lives(m) /\ c = Home(m)
Works(c, m) == client # None /\ client.c = c /\ client.m = m
Sent(c, m) == chan[c] # None /\ chan[c].id = m
InFlight == pc \in {"wait", "update"}

MsgType ==
  /\ mode \in {"combined", "split"} /\ pc \in {"idle", "next", "wait", "update"}
  /\ remote \in [Msgs -> Metas \cup {Unborn, Gone}]
  /\ born \subseteq UserLabels \cup UserFolders /\ known \subseteq born
  /\ events \in Seq(Notices) /\ batch \in Nat /\ at \in Nat
  /\ batch <= Len(events) /\ at <= batch + 1
  /\ pc # "idle" => at >= 1
  /\ InFlight => at <= batch
  /\ conns \subseteq Addrs /\ Primary \in conns /\ (mode = "combined" => conns = {Primary})
  /\ gluon \in [Addrs -> [Msgs -> Copies \cup {None}]]
  /\ nosuch \in BOOLEAN /\ failed \subseteq Msgs
  /\ client \in Commands \cup {None}
  /\ chan \in [Addrs -> Updates \cup {None}]

(* What an event tells of its message is still true of it where it does    *)
(* not change, and the last event tells all of it.                         *)
EventOf(i) ==
  /\ events[i].act = "label" => events[i].id \in born
  /\ events[i].act # "label" =>
       /\ events[i].id \in Msgs /\ remote[events[i].id] # Unborn
       /\ events[i].act = "delete" => remote[events[i].id] = Gone
       /\ events[i].act # "delete" => events[i].meta \in Metas
       /\ events[i].act = "update" => events[i].meta.rewritable
       /\ Lives(events[i].id) => events[i].meta.addr = remote[events[i].id].addr
       /\ Final(i, events[i].id) /\ remote[events[i].id] = Gone => events[i].act = "delete"
       /\ Final(i, events[i].id) /\ Lives(events[i].id) => events[i].meta = remote[events[i].id]
       /\ events[i].act = "create" => \A j \in 1 .. Len(events) : About(j, events[i].id) => i <= j

(* A message has a place; one that is recorded as failed cannot be built   *)
(* or will be tried again; one that was created has nothing that the       *)
(* service does not know.                                                  *)
MessageOf(m) ==
  /\ m \in failed => remote[m] # Unborn
  /\ Lives(m) =>
       /\ remote[m].labels \subseteq System \cup born
       /\ remote[m].labels \cap Places = {} => m \in uprooted
       /\ m \in failed => <<m, remote[m].body>> \in broken \/ Rewritten(m)
       /\ JustCreated(m) => /\ remote[m].labels \subseteq System \cup known
                            /\ remote[m].seen = FALSE /\ remote[m].body = 0

(* A label that the service will hear of was told before the last event of *)
(* every message that has it.                                              *)
LabelOf(j, m) ==
  Lives(m) /\ events[j].act = "label" /\ events[j].id \in remote[m].labels \ known =>
    \E i \in 1 .. Len(events) : About(i, m) /\ i > j

(* An update on its way to connector c is that of the event at hand; if    *)
(* this is the last one about its message, the update tells all of it.     *)
ChanOf(c) ==
  /\ c \in conns /\ chan[c].id = Event.id
  /\ Event.act = "delete" => chan[c].op = "deleted"
  /\ Event.act # "delete" =>
       /\ chan[c].op \in IF pc = "update" THEN {"mailboxes"} ELSE {"created", "updated"}
       /\ chan[c].copy \in Copies
       /\ \A d \in Addrs : chan[d] # None => d = c
       /\ Event.act = "create" => chan[c].op = "created"
       /\ chan[c].op = "created" /\ Event.act # "create" => gluon[c][Event.id] = None
       /\ Lives(Event.id) =>
            /\ c = Home(Event.id)
            /\ chan[c].op # "mailboxes" => chan[c].copy.body = remote[Event.id].body \/ Rewritten(Event.id)
            /\ ~Pending(Event.id) => chan[c].copy = Copy(Event.id)

FlightInv ==
  /\ ~InFlight => nosuch = FALSE /\ \A c \in Addrs : chan[c] = None
  /\ InFlight => Event.act # "label"
  /\ pc = "update" => Event.act = "flags"
  /\ nosuch => /\ pc = "update" /\ \A c \in Addrs : chan[c] = None
               /\ \A c \in conns : Mine(c, Event.id) => gluon[c][Event.id] = None
  /\ \A c \in Addrs : chan[c] # None => ChanOf(c)

(* The command in progress works on a message that is there, and an append *)
(* comes before Gluon has heard of its message.                            *)
AppendInv ==
  /\ client.step = "commit" /\ client.to \in System \cup known /\ client.to \in Places \cup UserLabels
  /\ Lives(client.m) =>
       /\ client.c = Home(client.m) \/ client.m \in misplaced
       /\ remote[client.m].body = 0 /\ remote[client.m].rewritable = FALSE
       /\ JustCreated(client.m) => remote[client.m].labels = {"AllMail", client.to}
       /\ client.c = Home(client.m) =>
            /\ nosuch => Event.id # client.m
            /\ Sent(client.c, client.m) /\ chan[client.c].op = "created" => Event.act = "create"

ClientInv ==
  client # None =>
    /\ client.c \in conns /\ remote[client.m] # Unborn
    /\ client.op = "append" => AppendInv
    /\ client.op # "append" => /\ gluon[client.c][client.m] # None
                               /\ Lives(client.m) /\ JustCreated(client.m) => client.m \in hidden
    /\ client.step = "unlabel" =>
         /\ client.from \in Boxes
         /\ Lives(client.m) /\ client.m \notin uprooted =>
              (remote[client.m].labels \ {client.from}) \cap Places # {}

(* Gluon's copy of m in connector c: where it may be, its content, what it *)
(* is as long as nothing but a creation was told, and what it is when all  *)
(* was told.                                                               *)
CopyOf(c, m) ==
  /\ remote[m] = Unborn => gluon[c][m] = None
  /\ Lives(m) /\ gluon[c][m] # None => c = Home(m) \/ m \in misplaced
  /\ remote[m] = Gone /\ ~Pending(m) => Sent(c, m) \/ gluon[c][m] = None
BodyOf(c, m) ==
  Mine(c, m) /\ gluon[c][m] # None =>
    \/ gluon[c][m].body = remote[m].body \/ m \in failed \/ Rewritten(m)
    \/ Sent(c, m) /\ chan[c].op = "updated"
FirstOf(c, m) ==
  Mine(c, m) /\ JustCreated(m) /\ m \notin hidden => gluon[c][m] = None \/ gluon[c][m] = Copy(m)
MirrorOf(c, m) ==
  Mine(c, m) /\ m \notin failed \cup hidden /\ ~Pending(m) =>
    \/ Sent(c, m)
    \/ nosuch /\ Event.id = m
    \/ gluon[c][m] = Copy(m) /\ ~Works(c, m)
GluonOf(c, m) == CopyOf(c, m) /\ BodyOf(c, m) /\ FirstOf(c, m) /\ MirrorOf(c, m)

EventInv == \A i \in 1 .. Len(events) : EventOf(i)
MessageInv == \A m \in Msgs : MessageOf(m) /\ \A j \in 1 .. Len(events) : LabelOf(j, m)
GluonInv == \A c \in conns, m \in Msgs : GluonOf(c, m)

IInv ==
  /\ MsgType /\ EventInv /\ MessageInv /\ FlightInv /\ ClientInv /\ GluonInv /\ ExpungeOnlyLast

-----------------------------------------------------------------------------
(* The constants, and the values that the state is made of.                *)
LEMMA MetaIsNot ==
  ASSUME NEW x \in Metas
  PROVE  x # Unborn /\ x # Gone
BY MessagesAssumption

(* A message lives if the API has metadata of it; otherwise it is yet to   *)
(* come, or deleted.                                                       *)
LEMMA LivesMeta ==
  ASSUME MsgType, NEW m \in Msgs
  PROVE  /\ Lives(m) <=> remote[m] \in Metas
         /\ remote[m] = Unborn \/ remote[m] = Gone \/ Lives(m)
         /\ ~Lives(m) => remote[m] = Unborn \/ remote[m] = Gone
BY MessagesAssumption DEF MsgType, Lives

(* The wanted labels of a message are boxes.                               *)
LEMMA WantedBoxes ==
  ASSUME NEW x \in SUBSET Boxes
  PROVE  wantLabels(x) \in SUBSET Boxes
BY DEF wantLabels

(* The copy that Gluon should have of a living message (wantLabels, its    *)
(* flag, its content).                                                     *)
LEMMA CopyIsCopy ==
  ASSUME MsgType, NEW m \in Msgs, Lives(m)
  PROVE  /\ Copy(m) \in Copies /\ Copy(m) # None
         /\ Copy(m).body = remote[m].body /\ Copy(m).seen = remote[m].seen
         /\ Copy(m).boxes = wantLabels(remote[m].labels)
<1>1. remote[m] \in Metas
  BY LivesMeta
<1>2. remote[m].labels \in SUBSET Boxes /\ remote[m].seen \in BOOLEAN /\ remote[m].body \in {0, 1}
  BY <1>1 DEF Metas
<1>3. wantLabels(remote[m].labels) \in SUBSET Boxes
  BY <1>2, WantedBoxes
<1>4. Copy(m) \in Copies
  BY <1>2, <1>3 DEF Copy, Copies, BuildFlagSetFromMessageMetadata
<1> QED  BY <1>4, MessagesAssumption DEF Copy, BuildFlagSetFromMessageMetadata

(* The update that is published of a metadata.                             *)
LEMMA UpdIsUpdate ==
  ASSUME NEW op \in {"created", "updated", "mailboxes"}, NEW m \in Msgs, NEW meta \in Metas
  PROVE  /\ Upd(op, m, meta) \in Updates /\ Upd(op, m, meta) # None
         /\ Upd(op, m, meta).op = op /\ Upd(op, m, meta).id = m
         /\ Upd(op, m, meta).copy \in Copies /\ Upd(op, m, meta).copy.body = meta.body
<1>1. meta.labels \in SUBSET Boxes /\ meta.seen \in BOOLEAN /\ meta.body \in {0, 1}
  BY DEF Metas
<1>2. wantLabels(meta.labels) \in SUBSET Boxes
  BY <1>1, WantedBoxes
<1> DEFINE copy == [boxes |-> wantLabels(meta.labels), seen |-> meta.seen, body |-> meta.body]
<1>3. copy \in Copies /\ copy.body = meta.body
  BY <1>1, <1>2 DEF Copies
<1>4. Upd(op, m, meta) = [op |-> op, id |-> m, copy |-> copy]
  BY DEF Upd, BuildFlagSetFromMessageMetadata
<1> HIDE DEF copy
<1>5. Upd(op, m, meta) \in Updates
  BY <1>3, <1>4 DEF Updates
<1> QED  BY <1>3, <1>4, <1>5, MessagesAssumption

(* What is published of a message as it is now is the copy Gluon should have. *)
LEMMA UpdIsCopy ==
  ASSUME NEW op, NEW m
  PROVE  Upd(op, m, remote[m]).copy = Copy(m)
BY DEF Upd, Copy

(* An update goes to the connector that the message belongs to, if there is one. *)
LEMMA RouteIsHome ==
  ASSUME MsgType, NEW m \in Msgs, Lives(m)
  PROVE  /\ safePublishMessageUpdate(remote[m].addr) # {} => safePublishMessageUpdate(remote[m].addr) = {Home(m)}
         /\ safePublishMessageUpdate(remote[m].addr) \subseteq conns
         /\ safePublishMessageUpdate(remote[m].addr) = {} => \A c \in conns : ~Mine(c, m)
BY DEF MsgType, safePublishMessageUpdate, Home, Mine

(* safePublishMessageUpdate sends an update to one connector at most.      *)
LEMMA RouteIsOne ==
  ASSUME MsgType, NEW a
  PROVE  /\ safePublishMessageUpdate(a) \subseteq conns
         /\ \A c, d \in safePublishMessageUpdate(a) : c = d
BY DEF MsgType, safePublishMessageUpdate

(* What a publication does to the channels.                                *)
LEMMA PublishTo ==
  ASSUME MsgType, NEW to \in SUBSET Addrs, NEW u \in Updates, Publish(to, u),
         \A c \in Addrs : chan[c] = None
  PROVE  /\ chan' \in [Addrs -> Updates \cup {None}]
         /\ \A c \in Addrs : c \in to => chan'[c] = u
         /\ \A c \in Addrs : c \notin to => chan'[c] = None
BY DEF MsgType, Publish

-----------------------------------------------------------------------------
(* The queue of events.                                                    *)
LEMMA EventHere ==
  ASSUME MsgType, EventInv, NEW i \in 1 .. Len(events)
  PROVE  EventOf(i) /\ events[i] \in Notices /\ i \in Nat
BY DEF MsgType, EventInv

(* A step that leaves queue and handler alone.                             *)
LEMMA SameQueue ==
  ASSUME UNCHANGED <<events, pc, at>>
  PROVE  /\ \A i, m : (About(i, m)' <=> About(i, m)) /\ (Final(i, m)' <=> Final(i, m))
         /\ \A m : (Pending(m)' <=> Pending(m)) /\ (Rewritten(m)' <=> Rewritten(m))
         /\ \A m : JustCreated(m)' <=> JustCreated(m)
         /\ Event' = Event /\ (InFlight' <=> InFlight)
BY DEF About, Final, Pending, Rewritten, JustCreated, Ahead, Event, InFlight

(* An event that is told is ahead of the handler, and the last one of its message. *)
LEMMA ToldQueue ==
  ASSUME MsgType, NEW x, NEW act \in Acts, NEW meta \in Metas \cup {None},
         x \in Msgs \cup UserLabels \cup UserFolders,
         events' = Told(act, x, meta), UNCHANGED <<pc, at>>, NEW k \in Nat, k = Len(events) + 1
  PROVE  /\ events' \in Seq(Notices) /\ Len(events') = k /\ Len(events) \in Nat
         /\ events'[k].act = act /\ events'[k].id = x /\ events'[k].meta = meta
         /\ \A i \in 1 .. Len(events) : events'[i] = events[i]
         /\ \A i, m : About(i, m)' <=> About(i, m) \/ (i = k /\ act # "label" /\ m = x)
         /\ Ahead(k)'
         /\ \A i : Ahead(i)' <=> Ahead(i)
         /\ InFlight => Event' = Event
<1> DEFINE e == [act |-> act, id |-> x, meta |-> meta]
<1>1. e \in Notices /\ e.act = act /\ e.id = x /\ e.meta = meta
  BY DEF Notices
<1> HIDE DEF e
<1>2. events' = Append(events, e) /\ events \in Seq(Notices) /\ Len(events) \in Nat
  BY DEF Told, e, MsgType
<1>3. /\ events' \in Seq(Notices) /\ Len(events') = k
      /\ events'[k] = e
      /\ \A i \in 1 .. Len(events) : events'[i] = events[i]
  BY <1>1, <1>2
<1>4. ASSUME NEW i, NEW m
      PROVE  About(i, m)' <=> About(i, m) \/ (i = k /\ act # "label" /\ m = x)
  <2>1. i \in 1 .. Len(events') <=> i \in 1 .. Len(events) \/ i = k
    BY <1>2, <1>3
  <2>2. i \in 1 .. Len(events) => i # k
    BY <1>2
  <2> QED  BY <1>1, <1>3, <2>1, <2>2 DEF About
<1>5. at <= k /\ (pc \in {"wait", "update"} => at <= Len(events) /\ at >= 1)
  BY <1>2 DEF MsgType, InFlight
<1>6. Ahead(k)'
  BY <1>2, <1>5 DEF MsgType, Ahead
<1>7. \A i : Ahead(i)' <=> Ahead(i)
  BY DEF Ahead
<1>8. InFlight => Event' = Event
  BY <1>2, <1>3, <1>5 DEF InFlight, Event, MsgType
<1> QED  BY <1>1, <1>2, <1>3, <1>4, <1>6, <1>7, <1>8

(* An event about message m0 is told. *)
LEMMA ToldOf ==
  ASSUME MsgType, NEW m0 \in Msgs, NEW act \in Acts \ {"label"}, NEW meta \in Metas \cup {None},
         events' = Told(act, m0, meta), UNCHANGED <<pc, at>>, NEW k \in Nat, k = Len(events) + 1
  PROVE  /\ Pending(m0)' /\ Final(k, m0)'
         /\ \A i : Final(i, m0)' => i = k
         /\ JustCreated(m0)' => act = "create"
         /\ Rewritten(m0) \/ act = "update" => Rewritten(m0)'
         /\ \A m : m # m0 => /\ Pending(m)' <=> Pending(m)
                             /\ Rewritten(m)' <=> Rewritten(m)
                             /\ JustCreated(m)' <=> JustCreated(m)
                             /\ \A i : Final(i, m)' <=> Final(i, m)
<1>1. /\ Len(events') = k /\ Len(events) \in Nat /\ k \in 1 .. Len(events')
      /\ events'[k].act = act /\ \A i \in 1 .. Len(events) : events'[i] = events[i] /\ i < k
           /\ i \in 1 .. Len(events')
      /\ \A i \in 1 .. Len(events') : i \in 1 .. Len(events) \/ i = k
      /\ Ahead(k)' /\ \A i : Ahead(i)' <=> Ahead(i)
  BY ToldQueue
<1>2. \A i, m : About(i, m)' <=> About(i, m) \/ (i = k /\ m = m0)
  BY ToldQueue
<1>3. \A i, m : About(i, m) => i \in 1 .. Len(events)
  BY DEF About
<1>4. Pending(m0)' /\ (act = "update" => Rewritten(m0)')
  BY <1>1, <1>2 DEF Pending, Rewritten
<1>5. Rewritten(m0) => Rewritten(m0)'
  BY <1>1, <1>2 DEF Rewritten
<1>6. Final(k, m0)' /\ \A i : Final(i, m0)' => i = k
  <2>1. \A j \in 1 .. Len(events') : About(j, m0)' => j <= k
    BY <1>1, <1>2, <1>3
  <2>2. Final(k, m0)'
    BY <1>1, <1>2, <2>1 DEF Final
  <2>3. ASSUME NEW i, Final(i, m0)' PROVE i = k
    <3>1. About(i, m0)' /\ k <= i
      BY <1>1, <1>2, <2>3 DEF Final
    <3> QED  BY <1>1, <1>2, <1>3, <3>1
  <2> QED  BY <2>2, <2>3
<1>7. JustCreated(m0)' => act = "create"
  BY <1>1, <1>6 DEF JustCreated
<1>8. ASSUME NEW m, m # m0
      PROVE  /\ Pending(m)' <=> Pending(m)
             /\ Rewritten(m)' <=> Rewritten(m)
             /\ JustCreated(m)' <=> JustCreated(m)
             /\ \A i : Final(i, m)' <=> Final(i, m)
  <2>1. \A i : About(i, m)' <=> About(i, m)
    BY <1>2, <1>8
  <2>2. \A i : Final(i, m)' <=> Final(i, m)
    BY <1>1, <1>3, <2>1 DEF Final
  <2>3. \A i : Final(i, m) => i \in 1 .. Len(events)
    BY <1>3 DEF Final
  <2>4. JustCreated(m)' <=> JustCreated(m)
    BY <1>1, <2>2, <2>3 DEF JustCreated
  <2>5. Pending(m)' <=> Pending(m)
    BY <1>1, <1>3, <2>1 DEF Pending
  <2>6. Rewritten(m)' <=> Rewritten(m)
    BY <1>1, <1>3, <2>1 DEF Rewritten
  <2> QED  BY <2>2, <2>4, <2>5, <2>6
<1> QED  BY <1>4, <1>5, <1>6, <1>7, <1>8

-----------------------------------------------------------------------------
(* A change of message m0 on the server, told by an event.  The copies in  *)
(* Gluon and the updates on their way are not touched, and what they lack  *)
(* is ahead.                                                               *)
Becomes(m0, new, act, meta) ==
  \/ act = "create" /\ remote[m0] = Unborn /\ new \in Metas /\ meta = new
     /\ new.labels \subseteq System \cup known /\ new.seen = FALSE /\ new.body = 0
  \/ act = "flags" /\ Lives(m0) /\ new \in Metas /\ meta = new /\ new.addr = remote[m0].addr
     /\ new.body = remote[m0].body /\ new.labels \subseteq System \cup born
  \/ act = "update" /\ Lives(m0) /\ new \in Metas /\ meta = new /\ new.addr = remote[m0].addr
     /\ new.rewritable /\ new.labels = remote[m0].labels
  \/ act = "delete" /\ Lives(m0) /\ new = Gone /\ meta = None

Tells(m0, new, act, meta) ==
  /\ remote' = [remote EXCEPT ![m0] = new] /\ events' = Told(act, m0, meta)
  /\ UNCHANGED <<mode, broken, born, known, batch, at, pc, conns, nosuch, failed, chan, gluon>>
  /\ uprooted \subseteq uprooted' /\ misplaced \subseteq misplaced' /\ hidden \subseteq hidden'

(* What such a change makes of the messages.                               *)
LEMMA TellsWell ==
  ASSUME IInv, NEW m0 \in Msgs, NEW new, NEW act, NEW meta,
         Becomes(m0, new, act, meta), Tells(m0, new, act, meta)
  PROVE  /\ act \in Acts \ {"label"} /\ meta \in Metas \cup {None}
         /\ new \in Metas \cup {Gone} /\ remote' \in [Msgs -> Metas \cup {Unborn, Gone}]
         /\ remote'[m0] = new /\ \A m \in Msgs : m # m0 => remote'[m] = remote[m]
         /\ (Lives(m0)' <=> act # "delete") /\ \A m \in Msgs : m # m0 => (Lives(m)' <=> Lives(m))
         /\ remote[m0] # Gone /\ remote'[m0] # Unborn /\ (Lives(m0) <=> act # "create")
         /\ (act = "delete" <=> new = Gone)
         /\ act \in {"flags", "update"} => new.addr = remote[m0].addr /\ Home(m0)' = Home(m0)
         /\ \A m \in Msgs : m # m0 => Home(m)' = Home(m) /\ Copy(m)' = Copy(m)
              /\ \A c : Mine(c, m)' <=> Mine(c, m)
<1>1. /\ act \in Acts \ {"label"} /\ meta \in Metas \cup {None} /\ new \in Metas \cup {Gone}
      /\ (act = "delete" <=> new = Gone) /\ (act # "delete" <=> new \in Metas)
      /\ (act \in {"flags", "update"} => new.addr = remote[m0].addr)
  BY MetaIsNot, MessagesAssumption DEF Becomes, Acts
<1>2. remote \in [Msgs -> Metas \cup {Unborn, Gone}] /\ MsgType
  BY DEF IInv, MsgType
<1>3. /\ remote' \in [Msgs -> Metas \cup {Unborn, Gone}]
      /\ remote'[m0] = new /\ \A m \in Msgs : m # m0 => remote'[m] = remote[m]
  BY <1>1, <1>2 DEF Tells
<1>4. /\ (Lives(m0)' <=> act # "delete") /\ \A m \in Msgs : m # m0 => (Lives(m)' <=> Lives(m))
      /\ remote[m0] # Gone /\ remote'[m0] # Unborn
  BY <1>1, <1>3, MetaIsNot, MessagesAssumption DEF Becomes, Lives
<1>5. Lives(m0) <=> act # "create"
  BY DEF Becomes, Lives
<1>6. act \in {"flags", "update"} => Home(m0)' = Home(m0)
  BY <1>1, <1>3 DEF Home, Tells
<1>7. \A m \in Msgs : m # m0 => Home(m)' = Home(m) /\ Copy(m)' = Copy(m)
  BY <1>3 DEF Home, Copy, Tells, wantLabels, BuildFlagSetFromMessageMetadata
<1>8. \A m \in Msgs : m # m0 => \A c : Mine(c, m)' <=> Mine(c, m)
  BY <1>4, <1>7 DEF Mine
<1> QED  BY <1>1, <1>3, <1>4, <1>5, <1>6, <1>7, <1>8

(* The events still tell what is true, the new one all of it.              *)
LEMMA TellsEvents ==
  ASSUME IInv, NEW m0 \in Msgs, NEW new, NEW act, NEW meta,
         Becomes(m0, new, act, meta), Tells(m0, new, act, meta)
  PROVE  EventInv'
<1>1. PICK k \in Nat : k = Len(events) + 1
  BY DEF IInv, MsgType
<1>2. act \in Acts \ {"label"} /\ meta \in Metas \cup {None} /\ MsgType /\ EventInv
  BY TellsWell DEF IInv
<1>3. /\ Len(events') = k /\ Len(events) \in Nat
      /\ events'[k].act = act /\ events'[k].id = m0 /\ events'[k].meta = meta
      /\ \A i \in 1 .. Len(events) : events'[i] = events[i]
      /\ \A i, m : About(i, m)' <=> About(i, m) \/ (i = k /\ m = m0)
  BY <1>1, <1>2, ToldQueue DEF Tells
<1>4. /\ Final(k, m0)' /\ \A i : Final(i, m0)' => i = k
      /\ \A m : m # m0 => \A i : Final(i, m)' <=> Final(i, m)
  BY <1>1, <1>2, ToldOf DEF Tells
<1>5. \A i, m : About(i, m) => i \in 1 .. Len(events) /\ events[i].id = m /\ events[i].act # "label"
  BY DEF About
<1>6. /\ remote'[m0] = new /\ \A m \in Msgs : m # m0 => remote'[m] = remote[m]
      /\ (Lives(m0)' <=> act # "delete") /\ \A m \in Msgs : m # m0 => (Lives(m)' <=> Lives(m))
      /\ remote[m0] # Gone /\ remote'[m0] # Unborn /\ (Lives(m0) <=> act # "create")
      /\ (act = "delete" <=> new = Gone)
      /\ act \in {"flags", "update"} => new.addr = remote[m0].addr
  BY TellsWell
<1>7. ASSUME NEW i \in 1 .. Len(events)
      PROVE  EventOf(i)'
  <2>1. EventOf(i) /\ i # k /\ i \in Nat /\ i <= k /\ events'[i] = events[i]
    BY <1>1, <1>2, <1>3, EventHere
  <2>2. CASE events[i].act = "label"
    BY <2>1, <2>2 DEF EventOf, Tells
  <2>3. CASE events[i].act # "label" /\ events[i].id = m0
    <3>1. events[i].act # "delete" /\ Lives(m0) /\ act # "create" /\ ~Final(i, m0)'
      BY <1>4, <1>6, <2>1, <2>3 DEF EventOf, Becomes
    <3>2. act # "delete" => events[i].meta.addr = remote'[m0].addr
      BY <1>2, <1>6, <2>1, <2>3, <3>1 DEF EventOf, Acts
    <3>3. events[i].act = "create" => \A j \in 1 .. Len(events') : About(j, m0)' => i <= j
      BY <1>3, <1>5, <2>1, <2>3 DEF EventOf
    <3> QED  BY <1>6, <2>1, <2>3, <3>1, <3>2, <3>3 DEF EventOf
  <2>4. CASE events[i].act # "label" /\ events[i].id # m0
    <3>1. PICK m \in Msgs : m = events[i].id
      BY <2>1, <2>4 DEF EventOf
    <3>2. m # m0 /\ remote'[m] = remote[m] /\ (Lives(m)' <=> Lives(m)) /\ (Final(i, m)' <=> Final(i, m))
      BY <1>4, <1>6, <2>4, <3>1
    <3>3. events[i].act = "create" => \A j \in 1 .. Len(events') : About(j, m)' => i <= j
      BY <1>3, <1>5, <2>1, <2>4, <3>1, <3>2 DEF EventOf
    <3> QED  BY <2>1, <2>4, <3>1, <3>2, <3>3 DEF EventOf
  <2> QED  BY <2>2, <2>3, <2>4
<1>8. EventOf(k)'
  <2>1. act = "create" => \A j \in 1 .. Len(events') : About(j, m0)' => k <= j
    <3> SUFFICES ASSUME act = "create", NEW j \in 1 .. Len(events'), About(j, m0)' PROVE k <= j
      OBVIOUS
    <3>1. ~About(j, m0)
      <4> SUFFICES ASSUME About(j, m0) PROVE FALSE
        OBVIOUS
      <4>1. j \in 1 .. Len(events) /\ events[j].id = m0 /\ events[j].act # "label"
        BY <1>5
      <4>2. EventOf(j)
        BY <1>2, <4>1, EventHere
      <4> QED  BY <4>1, <4>2 DEF EventOf, Becomes, Lives
    <3> QED  BY <1>3, <3>1
  <2>2. act # "delete" => meta \in Metas /\ meta = new
    BY DEF Becomes
  <2>3. act = "update" => meta.rewritable
    BY DEF Becomes
  <2> QED  BY <1>2, <1>3, <1>6, <2>1, <2>2, <2>3 DEF EventOf, Acts
<1> QED
  <2>1. \A i \in 1 .. Len(events') : i \in 1 .. Len(events) \/ i = k
    BY <1>1, <1>3
  <2> QED  BY <1>7, <1>8, <2>1 DEF EventInv

(* The messages still have a place, and labels the service can know.       *)
LEMMA TellsMessages ==
  ASSUME IInv, NEW m0 \in Msgs, NEW new, NEW act, NEW meta,
         Becomes(m0, new, act, meta), Tells(m0, new, act, meta),
         act # "delete" /\ new.labels \cap Places = {} => m0 \in uprooted'
  PROVE  MessageInv'
<1>1. PICK k \in Nat : k = Len(events) + 1
  BY DEF IInv, MsgType
<1>2. act \in Acts \ {"label"} /\ meta \in Metas \cup {None} /\ MsgType /\ MessageInv
  BY TellsWell DEF IInv
<1>3. /\ Len(events') = k /\ Len(events) \in Nat /\ k \in 1 .. Len(events')
      /\ events'[k].act = act
      /\ \A i \in 1 .. Len(events) : events'[i] = events[i]
      /\ \A i, m : About(i, m)' <=> About(i, m) \/ (i = k /\ m = m0)
  BY <1>1, <1>2, ToldQueue DEF Tells
<1>4. /\ JustCreated(m0)' => act = "create"
      /\ Rewritten(m0) \/ act = "update" => Rewritten(m0)'
      /\ \A m : m # m0 => (Rewritten(m)' <=> Rewritten(m)) /\ (JustCreated(m)' <=> JustCreated(m))
  BY <1>1, <1>2, ToldOf DEF Tells
<1>5. \A i, m : About(i, m) => i \in 1 .. Len(events)
  BY DEF About
<1>6. /\ remote'[m0] = new /\ \A m \in Msgs : m # m0 => remote'[m] = remote[m]
      /\ (Lives(m0)' <=> act # "delete") /\ \A m \in Msgs : m # m0 => (Lives(m)' <=> Lives(m))
      /\ remote'[m0] # Unborn
  BY TellsWell
<1>7. UNCHANGED <<known, born, broken, failed>> /\ uprooted \subseteq uprooted' /\ known \subseteq born
  BY <1>2 DEF Tells, MsgType
<1>8. ASSUME NEW m \in Msgs PROVE MessageOf(m)'
  <2>1. MessageOf(m)
    BY <1>2 DEF MessageInv
  <2>2. CASE m # m0
    BY <1>4, <1>6, <1>7, <2>1, <2>2 DEF MessageOf
  <2>3. CASE m = m0
    <3>1. act # "delete" => new.labels \subseteq System \cup born
      BY <1>7, <2>1, <2>3 DEF Becomes, MessageOf
    <3>2. m \in failed /\ act # "delete" => <<m, new.body>> \in broken \/ Rewritten(m)'
      BY <1>4, <2>1, <2>3 DEF Becomes, MessageOf
    <3>3. JustCreated(m)' => new.labels \subseteq System \cup known /\ new.seen = FALSE /\ new.body = 0
      BY <1>4, <2>3 DEF Becomes
    <3> QED  BY <1>6, <1>7, <2>3, <3>1, <3>2, <3>3 DEF MessageOf
  <2> QED  BY <2>2, <2>3
<1>9. ASSUME NEW m \in Msgs, NEW j \in 1 .. Len(events') PROVE LabelOf(j, m)'
  <2>1. CASE j = k
    BY <1>2, <1>3, <2>1 DEF LabelOf
  <2>2. CASE j # k
    <3>1. j \in 1 .. Len(events) /\ j < k /\ events'[j] = events[j]
      BY <1>1, <1>3, <2>2
    <3>2. CASE m = m0
      BY <1>3, <3>1, <3>2 DEF LabelOf
    <3>3. CASE m # m0
      <4>1. LabelOf(j, m)
        BY <1>2, <3>1 DEF MessageInv
      <4> SUFFICES ASSUME Lives(m)', events'[j].act = "label", events'[j].id \in remote'[m].labels \ known
                   PROVE  \E i \in 1 .. k : About(i, m)' /\ i > j
        BY <1>3, <1>7 DEF LabelOf
      <4>2. PICK i \in 1 .. Len(events) : About(i, m) /\ i > j
        BY <1>6, <3>1, <3>3, <4>1 DEF LabelOf
      <4> QED  BY <1>1, <1>3, <4>2
    <3> QED  BY <3>2, <3>3
  <2> QED  BY <2>1, <2>2
<1> QED  BY <1>8, <1>9 DEF MessageInv

(* The update on its way is not disturbed.                                 *)
LEMMA TellsFlight ==
  ASSUME IInv, NEW m0 \in Msgs, NEW new, NEW act, NEW meta,
         Becomes(m0, new, act, meta), Tells(m0, new, act, meta)
  PROVE  FlightInv'
<1>1. PICK k \in Nat : k = Len(events) + 1
  BY DEF IInv, MsgType
<1>2. act \in Acts \ {"label"} /\ meta \in Metas \cup {None} /\ MsgType /\ EventInv /\ FlightInv
  BY TellsWell DEF IInv
<1>3. InFlight => Event' = Event
  BY <1>1, <1>2, ToldQueue DEF Tells
<1>4. /\ Pending(m0)'
      /\ Rewritten(m0) \/ act = "update" => Rewritten(m0)'
      /\ \A m : m # m0 => (Pending(m)' <=> Pending(m)) /\ (Rewritten(m)' <=> Rewritten(m))
  BY <1>1, <1>2, ToldOf DEF Tells
<1>5. /\ remote'[m0] = new /\ \A m \in Msgs : m # m0 => remote'[m] = remote[m]
      /\ (Lives(m0)' <=> act # "delete") /\ \A m \in Msgs : m # m0 => (Lives(m)' <=> Lives(m))
      /\ (Lives(m0) <=> act # "create")
      /\ act \in {"flags", "update"} => Home(m0)' = Home(m0)
      /\ \A m \in Msgs : m # m0 => Home(m)' = Home(m) /\ Copy(m)' = Copy(m)
           /\ \A c : Mine(c, m)' <=> Mine(c, m)
  BY TellsWell
<1>6. UNCHANGED <<pc, chan, gluon, nosuch, conns>> /\ (InFlight' <=> InFlight)
  BY DEF Tells, InFlight
<1>7. CASE ~InFlight
  BY <1>2, <1>6, <1>7 DEF FlightInv, InFlight
<1>8. CASE InFlight
  <2>1. PICK m \in Msgs : m = Event.id /\ remote[m] # Unborn
    <3>1. at \in 1 .. Len(events) /\ Event.act # "label" /\ Event = events[at]
      BY <1>2, <1>8 DEF MsgType, InFlight, FlightInv, Event
    <3> QED  BY <1>2, <3>1, EventHere DEF EventOf
  <2>2. Event' = Event
    BY <1>3, <1>8
  <2>3. m = m0 => act # "create"
    BY <2>1 DEF Becomes, Lives
  <2>4. m = m0 /\ act # "delete" => Lives(m) /\ Home(m)' = Home(m)
    BY <1>2, <1>5, <2>3 DEF Acts
  <2>5. \A c : Mine(c, m)' => Mine(c, m)
    BY <1>5, <2>3, <2>4 DEF Mine
  <2>6. ASSUME NEW c \in Addrs, chan[c] # None PROVE ChanOf(c)'
    <3>1. ChanOf(c)
      BY <1>2, <2>6 DEF FlightInv
    <3>2. Lives(m)' => Lives(m) /\ Home(m)' = Home(m)
      BY <1>5, <2>3, <2>4
    <3>3. Lives(m)' /\ (chan[c].copy.body = remote[m].body \/ Rewritten(m)) =>
            chan[c].copy.body = remote'[m].body \/ Rewritten(m)'
      BY <1>4, <1>5, <2>3 DEF Becomes
    <3>4. Lives(m)' /\ ~Pending(m)' => ~Pending(m) /\ Copy(m)' = Copy(m)
      BY <1>4, <1>5
    <3> QED  BY <1>6, <2>1, <2>2, <3>1, <3>2, <3>3, <3>4 DEF ChanOf
  <2> QED  BY <1>2, <1>6, <1>8, <2>1, <2>2, <2>5, <2>6 DEF FlightInv
<1> QED  BY <1>7, <1>8

(* The copies of Gluon are not disturbed: what they lack is ahead.         *)
LEMMA TellsGluon ==
  ASSUME IInv, NEW m0 \in Msgs, NEW new, NEW act, NEW meta,
         Becomes(m0, new, act, meta), Tells(m0, new, act, meta),
         \A c, m : m # m0 => (Works(c, m)' <=> Works(c, m))
  PROVE  GluonInv'
<1>1. PICK k \in Nat : k = Len(events) + 1
  BY DEF IInv, MsgType
<1>2. act \in Acts \ {"label"} /\ meta \in Metas \cup {None} /\ MsgType /\ EventInv /\ FlightInv
  BY TellsWell DEF IInv
<1>3. InFlight => Event' = Event
  BY <1>1, <1>2, ToldQueue DEF Tells
<1>4. /\ Pending(m0)'
      /\ Rewritten(m0) \/ act = "update" => Rewritten(m0)' /\ (JustCreated(m0)' => act = "create")
      /\ JustCreated(m0)' => act = "create"
      /\ \A m : m # m0 => /\ Pending(m)' <=> Pending(m)
                          /\ Rewritten(m)' <=> Rewritten(m)
                          /\ JustCreated(m)' <=> JustCreated(m)
  BY <1>1, <1>2, ToldOf DEF Tells
<1>5. /\ remote'[m0] = new /\ \A m \in Msgs : m # m0 => remote'[m] = remote[m]
      /\ (Lives(m0)' <=> act # "delete") /\ \A m \in Msgs : m # m0 => (Lives(m)' <=> Lives(m))
      /\ (Lives(m0) <=> act # "create") /\ remote'[m0] # Unborn
      /\ act \in {"flags", "update"} => Home(m0)' = Home(m0)
      /\ \A m \in Msgs : m # m0 => Home(m)' = Home(m) /\ Copy(m)' = Copy(m)
           /\ \A c : Mine(c, m)' <=> Mine(c, m)
  BY TellsWell
<1>6. /\ UNCHANGED <<pc, chan, gluon, nosuch, conns, failed>>
      /\ misplaced \subseteq misplaced' /\ hidden \subseteq hidden'
      /\ \A c, m : Sent(c, m)' <=> Sent(c, m)
      /\ nosuch => InFlight
  BY <1>2 DEF Tells, Sent, FlightInv
<1>7. ASSUME NEW c \in conns, NEW m \in Msgs PROVE GluonOf(c, m)'
  <2>1. GluonOf(c, m)
    BY DEF IInv, GluonInv
  <2>2. CASE m # m0
    <3>1. CopyOf(c, m)' /\ BodyOf(c, m)' /\ FirstOf(c, m)'
      BY <1>4, <1>5, <1>6, <2>1, <2>2 DEF GluonOf, CopyOf, BodyOf, FirstOf
    <3>2. MirrorOf(c, m)'
      BY <1>3, <1>4, <1>5, <1>6, <2>1, <2>2 DEF GluonOf, MirrorOf
    <3> QED  BY <3>1, <3>2 DEF GluonOf
  <2>3. CASE m = m0
    <3>1. act = "create" => gluon[c][m] = None
      BY <2>1, <2>3 DEF Becomes, GluonOf, CopyOf, Lives
    <3>2. act # "create" => Lives(m)
      BY <1>5, <2>3
    <3>3. act # "create" /\ Lives(m)' => Lives(m) /\ Home(m)' = Home(m) /\ (Mine(c, m)' <=> Mine(c, m))
      BY <1>2, <1>5, <2>3 DEF Acts, Mine
    <3>4. CopyOf(c, m)'
      BY <1>4, <1>5, <1>6, <2>1, <2>3, <3>1, <3>3 DEF GluonOf, CopyOf
    <3>5. act = "flags" => new.body = remote[m].body
      BY <2>3 DEF Becomes
    <3>6. BodyOf(c, m)'
      BY <1>2, <1>4, <1>5, <1>6, <2>1, <2>3, <3>1, <3>3, <3>5 DEF GluonOf, BodyOf, Mine, Acts
    <3>7. FirstOf(c, m)'
      BY <1>4, <1>6, <2>3, <3>1 DEF FirstOf
    <3>8. MirrorOf(c, m)'
      BY <1>4, <2>3 DEF MirrorOf
    <3> QED  BY <3>4, <3>6, <3>7, <3>8 DEF GluonOf
  <2> QED  BY <2>2, <2>3
<1> QED  BY <1>6, <1>7 DEF GluonInv

(* Such a step keeps the invariant, if the command that takes it does.     *)
LEMMA TellsInv ==
  ASSUME IInv, NEW m0 \in Msgs, NEW new, NEW act, NEW meta,
         Becomes(m0, new, act, meta), Tells(m0, new, act, meta),
         act # "delete" /\ new.labels \cap Places = {} => m0 \in uprooted',
         \A c, m : m # m0 => (Works(c, m)' <=> Works(c, m)),
         client' \in Commands \cup {None}, ClientInv', UNCHANGED expunged
  PROVE  IInv'
<1>1. PICK k \in Nat : k = Len(events) + 1
  BY DEF IInv, MsgType
<1>2. act \in Acts \ {"label"} /\ meta \in Metas \cup {None} /\ MsgType
       /\ remote' \in [Msgs -> Metas \cup {Unborn, Gone}]
  BY TellsWell DEF IInv
<1>3. events' \in Seq(Notices) /\ Len(events') = k /\ Len(events) \in Nat
  BY <1>1, <1>2, ToldQueue DEF Tells
<1>4. MsgType'
  BY <1>1, <1>2, <1>3 DEF MsgType, Tells, InFlight
<1>5. ExpungeOnlyLast'
  BY DEF IInv, ExpungeOnlyLast
<1> QED  BY <1>4, <1>5, TellsEvents, TellsMessages, TellsFlight, TellsGluon DEF IInv

-----------------------------------------------------------------------------
(* The server, other clients and the commands.                             *)
LEMMA TellsClient ==
  ASSUME IInv, NEW m0 \in Msgs, NEW new, NEW act, NEW meta,
         Becomes(m0, new, act, meta), Tells(m0, new, act, meta), UNCHANGED client,
         client # None /\ client.m = m0 /\ act # "delete" /\ Lives(m0) =>
            /\ new.rewritable = remote[m0].rewritable
            /\ m0 \in uprooted' \/ new.labels = remote[m0].labels
  PROVE  ClientInv'
<1> SUFFICES ASSUME client # None PROVE ClientInv'
  BY DEF ClientInv
<1>1. PICK k \in Nat : k = Len(events) + 1
  BY DEF IInv, MsgType
<1>2. /\ act \in Acts \ {"label"} /\ meta \in Metas \cup {None} /\ MsgType /\ FlightInv /\ ClientInv
      /\ client.m \in Msgs
  BY TellsWell DEF IInv, MsgType, Commands
<1>3. InFlight => Event' = Event
  BY <1>1, <1>2, ToldQueue DEF Tells
<1>4. /\ JustCreated(m0)' => act = "create"
      /\ \A m : m # m0 => (JustCreated(m)' <=> JustCreated(m))
  BY <1>1, <1>2, ToldOf DEF Tells
<1>5. /\ remote'[m0] = new /\ \A m \in Msgs : m # m0 => remote'[m] = remote[m]
      /\ (Lives(m0)' <=> act # "delete") /\ \A m \in Msgs : m # m0 => (Lives(m)' <=> Lives(m))
      /\ (Lives(m0) <=> act # "create") /\ remote'[m0] # Unborn
      /\ act \in {"flags", "update"} => Home(m0)' = Home(m0)
      /\ \A m \in Msgs : m # m0 => Home(m)' = Home(m)
  BY TellsWell
<1>6. /\ UNCHANGED <<chan, gluon, nosuch, conns, known>>
      /\ misplaced \subseteq misplaced' /\ hidden \subseteq hidden' /\ uprooted \subseteq uprooted'
      /\ \A c, m : Sent(c, m)' <=> Sent(c, m)
  BY DEF Tells, Sent
<1>7. (nosuch => InFlight) /\ \A c, m : c \in Addrs /\ Sent(c, m) => InFlight
  BY <1>2 DEF FlightInv, Sent
<1>8. client.c \in Addrs
  BY <1>2 DEF MsgType, Commands
<1>9. CASE client.m # m0
  <2>1. client.op = "append" => AppendInv'
    <3> SUFFICES ASSUME AppendInv PROVE AppendInv'
      BY <1>2 DEF ClientInv
    <3> QED  BY <1>2, <1>3, <1>4, <1>5, <1>6, <1>7, <1>8, <1>9 DEF AppendInv
  <2> QED  BY <1>2, <1>4, <1>5, <1>6, <1>9, <2>1 DEF ClientInv
<1>10. CASE client.m = m0
  <2>1. remote[m0] # Unborn /\ act # "create"
    BY <1>2, <1>5, <1>10 DEF ClientInv, Becomes
  <2>2. ~JustCreated(m0)'
    BY <1>4, <2>1
  <2>3. Lives(m0)' => /\ Lives(m0) /\ Home(m0)' = Home(m0)
                      /\ new.rewritable = remote[m0].rewritable
                      /\ m0 \in uprooted' \/ new.labels = remote[m0].labels
    BY <1>2, <1>5, <1>10, <2>1 DEF Acts
  <2>4. Lives(m0)' /\ remote[m0].rewritable = FALSE => new.body = remote[m0].body
    BY <1>5, <2>1, <2>3 DEF Becomes
  <2>5. client.op = "append" => AppendInv'
    <3> SUFFICES ASSUME AppendInv PROVE AppendInv'
      BY <1>2 DEF ClientInv
    <3> QED  BY <1>3, <1>5, <1>6, <1>7, <1>8, <1>10, <2>2, <2>3, <2>4 DEF AppendInv
  <2> QED  BY <1>2, <1>5, <1>6, <1>10, <2>2, <2>3, <2>5 DEF ClientInv
<1> QED  BY <1>9, <1>10

(* The labels of a message are changed by the API's calls.                 *)
LEMMA LabelledMeta ==
  ASSUME NEW x \in Metas, NEW b \in Boxes
  PROVE  /\ Labelled(x, b) \in Metas /\ Unlabelled(x, b) \in Metas
         /\ Labelled(x, b).addr = x.addr /\ Labelled(x, b).body = x.body
         /\ Labelled(x, b).rewritable = x.rewritable
         /\ Unlabelled(x, b).addr = x.addr /\ Unlabelled(x, b).body = x.body
         /\ Labelled(x, b).labels = (IF b \in Places THEN x.labels \ Places ELSE x.labels) \cup {b}
         /\ Unlabelled(x, b).labels = x.labels \ {b}
<1>1. x.labels \in SUBSET Boxes
  BY DEF Metas
<1>2. (IF b \in Places THEN x.labels \ Places ELSE x.labels) \cup {b} \in SUBSET Boxes
  BY <1>1
<1>3. Labelled(x, b) \in Metas /\ Labelled(x, b).addr = x.addr /\ Labelled(x, b).body = x.body
      /\ Labelled(x, b).rewritable = x.rewritable
      /\ Labelled(x, b).labels = (IF b \in Places THEN x.labels \ Places ELSE x.labels) \cup {b}
  BY <1>2 DEF Labelled, Metas
<1>4. Unlabelled(x, b) \in Metas /\ Unlabelled(x, b).addr = x.addr /\ Unlabelled(x, b).body = x.body
      /\ Unlabelled(x, b).labels = x.labels \ {b}
  BY <1>1 DEF Unlabelled, Metas
<1> QED  BY <1>3, <1>4

(* Places and system boxes are boxes; a user's label is no place.          *)
LEMMA SystemBoxes ==
  /\ "Inbox" \in Places \cap System /\ Places \subseteq Boxes /\ System \subseteq Boxes
  /\ UserLabels \cap Places = {} /\ "AllDrafts" \notin Places \cup UserLabels
  /\ "AllMail" \notin Places \cup UserLabels
BY MessagesAssumption DEF System, Places, Boxes

(* Another client makes a label, which no message has.                     *)
LEMMA LabelMade ==
  ASSUME IInv, NEW b \in (UserLabels \cup UserFolders) \ born, born' = born \cup {b},
         events' = Told("label", b, None),
         UNCHANGED <<mode, broken, remote, known, batch, at, pc, conns, nosuch, failed, chan, gluon,
                     client, expunged, uprooted, misplaced, hidden>>
  PROVE  IInv'
<1>1. PICK k \in Nat : k = Len(events) + 1
  BY DEF IInv, MsgType
<1>2. MsgType /\ EventInv /\ MessageInv /\ FlightInv /\ ClientInv /\ GluonInv /\ "label" \in Acts
  BY DEF IInv, Acts
<1>3. /\ events' \in Seq(Notices) /\ Len(events') = k /\ Len(events) \in Nat
      /\ events'[k].act = "label" /\ events'[k].id = b
      /\ \A i \in 1 .. Len(events) : events'[i] = events[i]
      /\ \A i, m : About(i, m)' <=> About(i, m)
      /\ \A i : Ahead(i)' <=> Ahead(i)
      /\ InFlight => Event' = Event
  <2>1. /\ b \in Msgs \cup UserLabels \cup UserFolders /\ None \in Metas \cup {None}
        /\ UNCHANGED <<pc, at>>
    OBVIOUS
  <2>2. /\ events' \in Seq(Notices) /\ Len(events') = k /\ Len(events) \in Nat
        /\ events'[k].act = "label" /\ events'[k].id = b
        /\ \A i \in 1 .. Len(events) : events'[i] = events[i]
        /\ \A i, m : About(i, m)' <=> About(i, m) \/ (i = k /\ "label" # "label" /\ m = b)
        /\ \A i : Ahead(i)' <=> Ahead(i)
        /\ InFlight => Event' = Event
    BY ONLY <1>1, <1>2, <2>1, events' = Told("label", b, None), ToldQueue
  <2> QED  BY <2>2
<1>4. \A i, m : About(i, m) => i \in 1 .. Len(events) /\ i \in 1 .. Len(events')
  BY <1>1, <1>3 DEF About
<1>5. \A i, m : Final(i, m)' <=> Final(i, m)
  BY <1>3, <1>4 DEF Final
<1>6. \A m : (Pending(m)' <=> Pending(m)) /\ (Rewritten(m)' <=> Rewritten(m))
  BY <1>3, <1>4 DEF Pending, Rewritten
<1>7. \A i, m : Final(i, m) => i \in 1 .. Len(events) /\ i \in 1 .. Len(events')
  BY <1>4 DEF Final
<1>8. \A m : JustCreated(m)' <=> JustCreated(m)
  BY <1>3, <1>5, <1>7 DEF JustCreated
<1>9. /\ \A m : (Lives(m)' <=> Lives(m)) /\ Home(m)' = Home(m) /\ Copy(m)' = Copy(m)
      /\ \A c, m : (Sent(c, m)' <=> Sent(c, m)) /\ (Works(c, m)' <=> Works(c, m))
           /\ (Mine(c, m)' <=> Mine(c, m))
      /\ InFlight' <=> InFlight
  BY DEF Lives, Home, Mine, Copy, Sent, Works, wantLabels, BuildFlagSetFromMessageMetadata, InFlight
<1>10. MsgType'
  BY <1>1, <1>2, <1>3 DEF MsgType, InFlight
<1>11. EventInv'
  <2> SUFFICES ASSUME NEW i \in 1 .. Len(events') PROVE EventOf(i)'
    BY DEF EventInv
  <2>1. CASE i = k
    BY <1>3, <2>1 DEF EventOf
  <2>2. CASE i # k
    <3>1. i \in 1 .. Len(events) /\ EventOf(i) /\ events'[i] = events[i]
      BY <1>1, <1>2, <1>3, <2>2, EventHere
    <3>2. events[i].act = "create" /\ (\A j \in 1 .. Len(events) : About(j, events[i].id) => i <= j) =>
            \A j \in 1 .. Len(events') : About(j, events[i].id)' => i <= j
      BY <1>3, <1>4, <3>1
    <3> QED  BY <1>5, <1>9, <3>1, <3>2 DEF EventOf
  <2> QED  BY <2>1, <2>2
<1>12. MessageInv'
  <2>1. ASSUME NEW m \in Msgs PROVE MessageOf(m)'
    <3>1. MessageOf(m)
      BY <1>2 DEF MessageInv
    <3> QED  BY <1>6, <1>8, <1>9, <3>1 DEF MessageOf
  <2>2. ASSUME NEW m \in Msgs, NEW j \in 1 .. Len(events') PROVE LabelOf(j, m)'
    <3>1. CASE j = k
      <4>1. Lives(m) => remote[m].labels \subseteq System \cup born
        BY <1>2 DEF MessageInv, MessageOf
      <4>2. Lives(m) => b \notin remote[m].labels
        BY <4>1, MessagesAssumption
      <4> QED  BY <1>3, <1>9, <3>1, <4>2 DEF LabelOf
    <3>2. CASE j # k
      <4>1. j \in 1 .. Len(events) /\ LabelOf(j, m) /\ events'[j] = events[j]
        BY <1>1, <1>2, <1>3, <3>2 DEF MessageInv
      <4> SUFFICES ASSUME Lives(m)', events'[j].act = "label", events'[j].id \in remote'[m].labels \ known
                   PROVE  \E i \in 1 .. k : About(i, m)' /\ i > j
        BY <1>3 DEF LabelOf
      <4>2. PICK i \in 1 .. Len(events) : About(i, m) /\ i > j
        BY <1>9, <4>1 DEF LabelOf
      <4> QED  BY <1>1, <1>3, <4>2
    <3> QED  BY <3>1, <3>2
  <2> QED  BY <2>1, <2>2 DEF MessageInv
<1>13. FlightInv'
  <2>1. CASE ~InFlight
    BY <1>2, <1>9, <2>1 DEF FlightInv, InFlight
  <2>2. CASE InFlight
    <3>1. ASSUME NEW c \in Addrs, chan[c] # None PROVE ChanOf(c)'
      <4>1. ChanOf(c)
        BY <1>2, <3>1 DEF FlightInv
      <4> QED  BY <1>3, <1>6, <1>9, <2>2, <4>1 DEF ChanOf
    <3> QED  BY <1>2, <1>3, <1>9, <2>2, <3>1 DEF FlightInv
  <2> QED  BY <2>1, <2>2
<1>14. (nosuch => InFlight) /\ \A c, m : c \in Addrs /\ Sent(c, m) => InFlight
  BY <1>2 DEF FlightInv, Sent
<1>15. ClientInv'
  <2> SUFFICES ASSUME client # None PROVE ClientInv'
    BY DEF ClientInv
  <2>1. client.c \in Addrs
    BY <1>2 DEF MsgType, Commands
  <2>2. client.op = "append" => AppendInv'
    <3> SUFFICES ASSUME AppendInv PROVE AppendInv'
      BY <1>2 DEF ClientInv
    <3> QED  BY <1>3, <1>8, <1>9, <1>14, <2>1 DEF AppendInv
  <2> QED  BY <1>2, <1>8, <1>9, <2>2 DEF ClientInv
<1>16. GluonInv'
  <2> SUFFICES ASSUME NEW c \in conns, NEW m \in Msgs PROVE GluonOf(c, m)'
    BY DEF GluonInv
  <2>1. GluonOf(c, m)
    BY <1>2 DEF GluonInv
  <2>2. CopyOf(c, m)' /\ BodyOf(c, m)' /\ FirstOf(c, m)'
    BY <1>6, <1>8, <1>9, <2>1 DEF GluonOf, CopyOf, BodyOf, FirstOf
  <2>3. MirrorOf(c, m)'
    BY <1>3, <1>6, <1>9, <1>14, <2>1 DEF GluonOf, MirrorOf
  <2> QED  BY <2>2, <2>3 DEF GluonOf
<1>17. ExpungeOnlyLast'
  BY DEF IInv, ExpungeOnlyLast
<1> QED  BY <1>10, <1>11, <1>12, <1>13, <1>15, <1>16, <1>17 DEF IInv

(* Every change by another client of the account keeps the invariant.      *)
LEMMA OtherClientInv ==
  ASSUME IInv, OtherClient
  PROVE  IInv'
<1> USE DEF account, handler
<1>1. PICK m \in Msgs :
          \/ /\ remote[m] = Unborn
             /\ \E a \in Addrs, r \in BOOLEAN :
                   Set(m, [labels |-> {"Inbox", "AllMail"} \cup
                                        (IF r THEN {"AllDrafts"} ELSE {}),
                           seen |-> FALSE, rewritable |-> r, addr |-> a, body |-> 0],
                       "create")
             /\ UNCHANGED uprooted
          \/ /\ Lives(m)
             /\ \E b \in (Places \cup UserLabels) \cap (System \cup born) :
                   /\ b \notin remote[m].labels
                   /\ Set(m, Labelled(remote[m], b), "flags")
             /\ uprooted' = uprooted \cup Overtaken(m)
          \/ /\ Lives(m) /\ remote[m].rewritable
             /\ Set(m, [remote[m] EXCEPT !.body = 1 - @], "update")
             /\ UNCHANGED uprooted
          \/ /\ Lives(m)
             /\ remote' = [remote EXCEPT ![m] = Gone]
             /\ events' = Told("delete", m, None)
             /\ UNCHANGED <<born, uprooted>>
          \/ \E b \in (UserLabels \cup UserFolders) \ born :
             /\ born' = born \cup {b}
             /\ events' = Told("label", b, None)
             /\ UNCHANGED <<remote, uprooted>>
  BY DEF OtherClient
<1>2. /\ UNCHANGED <<mode, broken, known, batch, at, pc, conns, nosuch, failed, chan, gluon,
                     client, expunged, misplaced, hidden>>
      /\ \A c, x : Works(c, x)' <=> Works(c, x)
  BY DEF OtherClient, Works
<1>3. MsgType /\ (Lives(m) => remote[m] \in Metas) /\ client \in Commands \cup {None} /\ MessageOf(m)
  BY LivesMeta DEF IInv, MsgType, MessageInv
<1>4. ASSUME remote[m] = Unborn, UNCHANGED uprooted, NEW a \in Addrs, NEW r \in BOOLEAN,
             Set(m, [labels |-> {"Inbox", "AllMail"} \cup (IF r THEN {"AllDrafts"} ELSE {}),
                     seen |-> FALSE, rewritable |-> r, addr |-> a, body |-> 0], "create")
      PROVE  IInv'
  <2>1. PICK labels : labels = {"Inbox", "AllMail"} \cup (IF r THEN {"AllDrafts"} ELSE {})
    OBVIOUS
  <2>2. labels \subseteq System /\ labels \subseteq Boxes /\ labels \cap Places # {}
    BY <2>1 DEF System, Boxes, Places
  <2>3. PICK new : new = [labels |-> labels, seen |-> FALSE, rewritable |-> r, addr |-> a, body |-> 0]
    OBVIOUS
  <2>4. new \in Metas /\ new.labels = labels /\ new.seen = FALSE /\ new.body = 0
    BY <2>2, <2>3 DEF Metas
  <2>5. Becomes(m, new, "create", new)
    BY <1>4, <2>2, <2>4 DEF Becomes
  <2>6. Tells(m, new, "create", new)
    BY <1>2, <1>4, <2>1, <2>3 DEF Tells, Set
  <2>7. ClientInv'
    BY <1>2, <1>4, <2>5, <2>6, TellsClient DEF Lives
  <2> QED  BY <1>2, <1>3, <2>2, <2>4, <2>5, <2>6, <2>7, TellsInv
<1>5. ASSUME Lives(m), uprooted' = uprooted \cup Overtaken(m),
             NEW b \in (Places \cup UserLabels) \cap (System \cup born), Set(m, Labelled(remote[m], b), "flags")
      PROVE  IInv'
  <2>1. b \in Boxes
    BY DEF Places, System, Boxes
  <2>2. PICK new : new = Labelled(remote[m], b)
    OBVIOUS
  <2>3. /\ new \in Metas /\ new.addr = remote[m].addr /\ new.body = remote[m].body
        /\ new.rewritable = remote[m].rewritable
        /\ new.labels = (IF b \in Places THEN remote[m].labels \ Places ELSE remote[m].labels) \cup {b}
    BY <1>3, <1>5, <2>1, <2>2, LabelledMeta
  <2>4. new.labels \subseteq System \cup born /\ (new.labels \cap Places = {} => m \in uprooted')
    BY <1>3, <1>5, <2>3 DEF MessageOf
  <2>5. Becomes(m, new, "flags", new)
    BY <1>5, <2>3, <2>4 DEF Becomes
  <2>6. Tells(m, new, "flags", new)
    BY <1>2, <1>5, <2>2 DEF Tells, Set
  <2>7. client # None /\ client.m = m => m \in uprooted'
    BY <1>5 DEF Overtaken
  <2>8. ClientInv'
    BY <1>2, <2>3, <2>5, <2>6, <2>7, TellsClient
  <2> QED  BY <1>2, <1>3, <2>4, <2>5, <2>6, <2>8, TellsInv
<1>6. ASSUME Lives(m), remote[m].rewritable, Set(m, [remote[m] EXCEPT !.body = 1 - @], "update"),
       UNCHANGED uprooted
      PROVE  IInv'
  <2>1. PICK new : new = [remote[m] EXCEPT !.body = 1 - @]
    OBVIOUS
  <2>2. /\ new \in Metas /\ new.addr = remote[m].addr /\ new.labels = remote[m].labels
        /\ new.rewritable = remote[m].rewritable
    <3>1. remote[m] \in Metas /\ remote[m].body \in {0, 1}
      BY <1>3, <1>6 DEF Metas
    <3>2. 1 - remote[m].body \in {0, 1}
      BY <3>1
    <3> QED  BY <2>1, <3>1, <3>2 DEF Metas
  <2>3. Becomes(m, new, "update", new)
    BY <1>6, <2>2 DEF Becomes
  <2>4. Tells(m, new, "update", new)
    BY <1>2, <1>6, <2>1 DEF Tells, Set
  <2>5. ClientInv'
    BY <1>2, <2>2, <2>3, <2>4, TellsClient
  <2>6. new.labels \cap Places = {} => m \in uprooted'
    BY <1>3, <1>6, <2>2 DEF MessageOf
  <2> QED  BY <1>2, <1>3, <2>3, <2>4, <2>5, <2>6, TellsInv
<1>7. ASSUME Lives(m), remote' = [remote EXCEPT ![m] = Gone], events' = Told("delete", m, None),
       UNCHANGED <<born, uprooted>>
      PROVE  IInv'
  <2>1. Becomes(m, Gone, "delete", None)
    BY <1>7 DEF Becomes
  <2>2. Tells(m, Gone, "delete", None)
    BY <1>2, <1>7 DEF Tells
  <2>3. ClientInv'
    BY <1>2, <2>1, <2>2, TellsClient
  <2> QED  BY <1>2, <1>3, <2>1, <2>2, <2>3, TellsInv
<1>8. ASSUME NEW b \in (UserLabels \cup UserFolders) \ born, born' = born \cup {b},
       events' = Told("label", b, None),
             UNCHANGED <<remote, uprooted>>
      PROVE  IInv'
  BY <1>2, <1>8, LabelMade
<1> QED
  <2>1. CASE remote[m] = Unborn /\ UNCHANGED uprooted /\ \E a \in Addrs, r \in BOOLEAN :
                   Set(m, [labels |-> {"Inbox", "AllMail"} \cup
                                        (IF r THEN {"AllDrafts"} ELSE {}),
                           seen |-> FALSE, rewritable |-> r, addr |-> a, body |-> 0],
                       "create")
    BY <1>4, <2>1
  <2>2. CASE /\ Lives(m)
             /\ \E b \in (Places \cup UserLabels) \cap (System \cup born) :
                   /\ b \notin remote[m].labels
                   /\ Set(m, Labelled(remote[m], b), "flags")
             /\ uprooted' = uprooted \cup Overtaken(m)
    BY <1>5, <2>2
  <2> QED  BY <1>1, <1>6, <1>7, <1>8, <2>1, <2>2

(* A command that begins, or goes on, on a message that Gluon has.         *)
LEMMA CommandTells ==
  ASSUME IInv, NEW m0 \in Msgs, NEW new, NEW act \in {"flags", "delete"}, NEW meta,
         Becomes(m0, new, act, meta), Tells(m0, new, act, meta),
         act # "delete" /\ new.labels \cap Places = {} => m0 \in uprooted',
         client = None \/ client.m = m0,
         client' \in Commands, client'.m = m0, client'.c \in conns, client'.op # "append",
         gluon[client'.c][m0] # None,
         client'.step = "unlabel" =>
            /\ client'.from \in Boxes
            /\ act # "delete" /\ m0 \notin uprooted' => (new.labels \ {client'.from}) \cap Places # {},
         UNCHANGED expunged
  PROVE  IInv'
<1>1. PICK k \in Nat : k = Len(events) + 1
  BY DEF IInv, MsgType
<1>2. act \in Acts \ {"label"} /\ meta \in Metas \cup {None} /\ MsgType
  BY TellsWell DEF IInv, MsgType
<1>3. ~JustCreated(m0)'
  BY <1>1, <1>2, ToldOf DEF Tells
<1>4. /\ remote'[m0] = new /\ (Lives(m0)' <=> act # "delete") /\ remote'[m0] # Unborn
  BY TellsWell
<1>5. UNCHANGED <<gluon, conns>>
  BY DEF Tells
<1>6. ClientInv'
  BY <1>3, <1>4, <1>5 DEF ClientInv
<1>7. \A c, m : m # m0 => (Works(c, m)' <=> Works(c, m))
  BY MessagesAssumption DEF Works
<1> QED  BY <1>6, <1>7, TellsInv

(* MarkMessagesSeen keeps the invariant.                                   *)
LEMMA MarkMessagesSeenInv ==
  ASSUME IInv, NEW c \in conns, NEW m \in Msgs, MarkMessagesSeen(c, m)
  PROVE  IInv'
<1>1. MsgType /\ Lives(m) /\ gluon[c][m] # None /\ c \in Addrs /\ remote[m] \in Metas /\ MessageOf(m)
  BY LivesMeta DEF IInv, MsgType, MessageInv, MarkMessagesSeen
<1>2. gluon[c][m].seen \in BOOLEAN
  BY <1>1 DEF MsgType, Copies
<1>3. PICK new : new = [remote[m] EXCEPT !.seen = ~gluon[c][m].seen]
  OBVIOUS
<1>4. /\ new \in Metas /\ new.addr = remote[m].addr /\ new.body = remote[m].body
       /\ new.labels = remote[m].labels
  BY <1>1, <1>2, <1>3 DEF Metas
<1>5. Becomes(m, new, "flags", new)
  BY <1>1, <1>4 DEF Becomes, MessageOf
<1>6. Tells(m, new, "flags", new) /\ UNCHANGED <<expunged, uprooted>>
  BY <1>3 DEF MarkMessagesSeen, Begin, Set, Tells, account, handler
<1>7. /\ client = None /\ client' = [op |-> "seen", c |-> c, m |-> m, step |-> "commit", from |-> None, to |-> None]
  BY DEF MarkMessagesSeen, Begin
<1>8. client' \in Commands /\ client'.m = m /\ client'.c = c /\ client'.op = "seen" /\ client'.step = "commit"
  BY <1>1, <1>7 DEF Commands
<1>9. new.labels \cap Places = {} => m \in uprooted'
  BY <1>1, <1>4, <1>6 DEF MessageOf
<1> QED  BY <1>1, <1>5, <1>6, <1>7, <1>8, <1>9, CommandTells

(* AddMessagesToMailbox keeps the invariant.                               *)
LEMMA AddMessagesInv ==
  ASSUME IInv, NEW c \in conns, NEW m \in Msgs, NEW to \in Places \cup UserLabels, to \in System \cup known,
         AddMessagesToMailbox(c, m, to)
  PROVE  IInv'
<1>1. /\ MsgType /\ Lives(m) /\ gluon[c][m] # None /\ c \in Addrs /\ remote[m] \in Metas /\ MessageOf(m)
      /\ to \in Boxes /\ to \in System \cup born
  BY LivesMeta DEF IInv, MsgType, MessageInv, AddMessagesToMailbox, Boxes
<1>2. PICK new : new = Labelled(remote[m], to)
  OBVIOUS
<1>3. /\ new \in Metas /\ new.addr = remote[m].addr /\ new.body = remote[m].body
      /\ new.labels = (IF to \in Places THEN remote[m].labels \ Places ELSE remote[m].labels) \cup {to}
  BY <1>1, <1>2, LabelledMeta
<1>4. new.labels \subseteq System \cup born /\ (new.labels \cap Places = {} => m \in uprooted)
  BY <1>1, <1>3 DEF MessageOf
<1>5. Becomes(m, new, "flags", new)
  BY <1>1, <1>3, <1>4 DEF Becomes
<1>6. Tells(m, new, "flags", new) /\ UNCHANGED <<expunged, uprooted>>
  BY <1>2 DEF AddMessagesToMailbox, Begin, Set, Tells, account, handler
<1>7. /\ client = None /\ client' = [op |-> "add", c |-> c, m |-> m, step |-> "commit", from |-> None, to |-> to]
  BY DEF AddMessagesToMailbox, Begin
<1>8. client' \in Commands /\ client'.m = m /\ client'.c = c /\ client'.op = "add" /\ client'.step = "commit"
  BY <1>1, <1>7 DEF Commands
<1> QED  BY <1>1, <1>4, <1>5, <1>6, <1>7, <1>8, CommandTells

(* A move unlabels the message only where that leaves it in its new place. *)
LEMMA MoveMessagesInv ==
  ASSUME IInv, NEW c \in conns, NEW m \in Msgs, NEW to \in Places \cup UserLabels, to \in System \cup known,
         NEW from \in Boxes, MoveMessages(c, m, from, to)
  PROVE  IInv'
<1>1. /\ MsgType /\ Lives(m) /\ gluon[c][m] # None /\ c \in Addrs /\ remote[m] \in Metas /\ MessageOf(m)
      /\ to \in Boxes /\ to \in System \cup born /\ from # to
  BY LivesMeta DEF IInv, MsgType, MessageInv, MoveMessages, Boxes, Has
<1>2. PICK new : new = Labelled(remote[m], to)
  OBVIOUS
<1>3. /\ new \in Metas /\ new.addr = remote[m].addr /\ new.body = remote[m].body
      /\ new.labels = (IF to \in Places THEN remote[m].labels \ Places ELSE remote[m].labels) \cup {to}
  BY <1>1, <1>2, LabelledMeta
<1>4. new.labels \subseteq System \cup born /\ (new.labels \cap Places = {} => m \in uprooted)
  BY <1>1, <1>3 DEF MessageOf
<1>5. Becomes(m, new, "flags", new)
  BY <1>1, <1>3, <1>4 DEF Becomes
<1>6. Tells(m, new, "flags", new) /\ UNCHANGED <<expunged, uprooted>>
  BY <1>2 DEF MoveMessages, Begin, Set, Tells, account, handler
<1>7. PICK step, src :
        /\ step = (IF UnlabelsFrom(from, to) THEN "unlabel" ELSE "commit")
        /\ src = (IF shouldExpungeOldLocation(from, to) THEN from ELSE None)
  OBVIOUS
<1>8. client = None /\ client' = [op |-> "move", c |-> c, m |-> m, step |-> step, from |-> src, to |-> to]
  BY <1>7 DEF MoveMessages, Begin
<1>9. step \in {"unlabel", "commit"} /\ src \in Boxes \cup {None}
  BY <1>7
<1>10. client' \in Commands /\ client'.m = m /\ client'.c = c /\ client'.op = "move"
       /\ client'.step = step /\ client'.from = src
  BY <1>1, <1>8, <1>9 DEF Commands
<1>11. ASSUME step = "unlabel", m \notin uprooted
       PROVE  src \in Boxes /\ (new.labels \ {src}) \cap Places # {}
  <2>1. UnlabelsFrom(from, to) /\ shouldExpungeOldLocation(from, to) /\ src = from
    BY <1>7, <1>11 DEF UnlabelsFrom, shouldExpungeOldLocation
  <2>2. CASE to \in Places
    BY <1>1, <1>3, <2>1, <2>2
  <2>3. CASE to \notin Places
    <3>1. to \in UserLabels /\ to \notin System /\ Type(to) = "label"
      BY <2>3, MessagesAssumption DEF Type
    <3>2. from \in known /\ Type(from) = "label"
      BY <2>1, <3>1 DEF shouldExpungeOldLocation, isMailboxOfTypeLabel
    <3>3. from \notin Places
      BY <3>2, SystemBoxes DEF Type
    <3>4. remote[m].labels \cap Places # {}
      BY <1>1, <1>11 DEF MessageOf
    <3> QED  BY <1>3, <2>1, <2>3, <3>3, <3>4
  <2> QED  BY <2>2, <2>3
<1>12. step = "unlabel" => src \in Boxes
  BY <1>7 DEF UnlabelsFrom, shouldExpungeOldLocation
<1> QED  BY <1>1, <1>4, <1>5, <1>6, <1>8, <1>10, <1>11, <1>12, CommandTells

(* The second call of a move keeps the invariant: the message keeps a      *)
(* place.                                                                  *)
LEMMA unlabelInv ==
  ASSUME IInv, unlabelMessages
  PROVE  IInv'
<1>1. client # None /\ client \in Commands /\ client.step = "unlabel" /\ ClientInv /\ MsgType
  BY DEF IInv, MsgType, unlabelMessages
<1>2. PICK m, c, from : m = client.m /\ c = client.c /\ from = client.from
  OBVIOUS
<1>3. /\ m \in Msgs /\ c \in conns /\ from \in Boxes /\ Lives(m) /\ client.op # "append" /\ gluon[c][m] # None
      /\ m \notin uprooted => (remote[m].labels \ {from}) \cap Places # {}
  BY <1>1, <1>2 DEF unlabelMessages, Commands, ClientInv, AppendInv
<1>4. remote[m] \in Metas /\ MessageOf(m)
  BY <1>1, <1>3, LivesMeta DEF IInv, MessageInv
<1>5. PICK new : new = Unlabelled(remote[m], from)
  OBVIOUS
<1>6. /\ new \in Metas /\ new.addr = remote[m].addr /\ new.body = remote[m].body
      /\ new.labels = remote[m].labels \ {from}
  BY <1>3, <1>4, <1>5, LabelledMeta
<1>7. Becomes(m, new, "flags", new)
  BY <1>3, <1>4, <1>6 DEF Becomes, MessageOf
<1>8. Tells(m, new, "flags", new) /\ UNCHANGED <<expunged, uprooted>>
  BY <1>2, <1>5 DEF unlabelMessages, Set, Tells, account, handler
<1>9. client' \in Commands /\ client'.m = m /\ client'.c = c /\ client'.op # "append"
       /\ client'.step = "commit"
  BY <1>1, <1>2, <1>3 DEF unlabelMessages, Commands
<1>10. new.labels \cap Places = {} => m \in uprooted'
  BY <1>3, <1>6, <1>8
<1> QED  BY <1>2, <1>3, <1>7, <1>8, <1>9, <1>10, CommandTells

(* The deletion for good keeps the invariant: its event is ahead.          *)
LEMMA PermaDeleteInv ==
  ASSUME IInv, PermaDelete
  PROVE  IInv'
<1>1. client # None /\ client \in Commands /\ client.step = "delete" /\ ClientInv /\ MsgType
  BY DEF IInv, MsgType, PermaDelete
<1>2. PICK m, c : m = client.m /\ c = client.c
  OBVIOUS
<1>3. m \in Msgs /\ c \in conns /\ Lives(m) /\ client.op # "append" /\ gluon[c][m] # None
  BY <1>1, <1>2 DEF PermaDelete, Commands, ClientInv, AppendInv
<1>4. Becomes(m, Gone, "delete", None)
  BY <1>3 DEF Becomes
<1>5. Tells(m, Gone, "delete", None) /\ UNCHANGED expunged
  BY <1>2 DEF PermaDelete, Tells, account, handler
<1>6. client' \in Commands /\ client'.m = m /\ client'.c = c /\ client'.op # "append"
       /\ client'.step = "commit"
  BY <1>1, <1>2, <1>3 DEF PermaDelete, Commands
<1> QED  BY <1>2, <1>3, <1>4, <1>5, <1>6, CommandTells

(* What a step leaves alone that changes neither messages nor known labels. *)
LEMMA SameMail ==
  ASSUME UNCHANGED <<mode, remote, known>>
  PROVE  /\ \A m : (Lives(m)' <=> Lives(m)) /\ Home(m)' = Home(m) /\ Copy(m)' = Copy(m)
         /\ \A c, m : Mine(c, m)' <=> Mine(c, m)
BY DEF Lives, Home, Mine, Copy, wantLabels, BuildFlagSetFromMessageMetadata

(* A command that goes on without a call that changes anything.            *)
LEMMA CommandSteps ==
  ASSUME IInv, UNCHANGED <<mode, broken, remote, born, known, events, batch, at, pc, conns, nosuch, failed,
                           chan, gluon, uprooted, misplaced>>,
         hidden \subseteq hidden', client' \in Commands \cup {None}, ClientInv', ExpungeOnlyLast',
         \A c, m : Works(c, m)' => Works(c, m) \/ m \in hidden'
  PROVE  IInv'
<1>1. /\ \A i, m : (About(i, m)' <=> About(i, m)) /\ (Final(i, m)' <=> Final(i, m))
      /\ \A m : (Pending(m)' <=> Pending(m)) /\ (Rewritten(m)' <=> Rewritten(m))
      /\ \A m : JustCreated(m)' <=> JustCreated(m)
      /\ Event' = Event /\ (InFlight' <=> InFlight)
  BY SameQueue
<1>2. /\ \A m : (Lives(m)' <=> Lives(m)) /\ Home(m)' = Home(m) /\ Copy(m)' = Copy(m)
      /\ \A c, m : (Mine(c, m)' <=> Mine(c, m)) /\ (Sent(c, m)' <=> Sent(c, m))
  BY SameMail DEF Sent
<1>3. MsgType'
  BY DEF IInv, MsgType, InFlight
<1>4. EventInv'
  BY <1>1, <1>2 DEF IInv, EventInv, EventOf
<1>5. MessageInv'
  BY <1>1, <1>2 DEF IInv, MessageInv, MessageOf, LabelOf
<1>6. FlightInv'
  <2>1. ASSUME NEW c \in Addrs, chan[c] # None PROVE ChanOf(c)'
    <3>1. ChanOf(c)
      BY <2>1 DEF IInv, FlightInv
    <3> QED  BY <1>1, <1>2, <3>1 DEF ChanOf
  <2> QED  BY <1>1, <1>2, <2>1 DEF IInv, FlightInv
<1>7. GluonInv'
  <2> SUFFICES ASSUME NEW c \in conns, NEW m \in Msgs PROVE GluonOf(c, m)'
    BY DEF GluonInv
  <2>1. GluonOf(c, m)
    BY DEF IInv, GluonInv
  <2>2. CopyOf(c, m)' /\ BodyOf(c, m)' /\ FirstOf(c, m)'
    BY <1>1, <1>2, <2>1 DEF GluonOf, CopyOf, BodyOf, FirstOf
  <2>3. MirrorOf(c, m)'
    BY <1>1, <1>2, <2>1 DEF GluonOf, MirrorOf
  <2> QED  BY <2>2, <2>3 DEF GluonOf
<1> QED  BY <1>3, <1>4, <1>5, <1>6, <1>7 DEF IInv

(* RemoveMessagesFromMailbox keeps the invariant, with and without the     *)
(* flag.                                                                   *)
LEMMA RemoveMessagesInv ==
  ASSUME IInv, NEW c \in conns, NEW m \in Msgs, NEW from \in Boxes, RemoveMessagesFromMailbox(c, m, from)
  PROVE  IInv'
<1>1. /\ MsgType /\ Lives(m) /\ gluon[c][m] # None /\ c \in Addrs /\ remote[m] \in Metas /\ MessageOf(m)
  BY LivesMeta DEF IInv, MsgType, MessageInv, RemoveMessagesFromMailbox, Has
<1>2. PICK step : step = (IF from = "Trash" THEN "read" ELSE "commit")
  OBVIOUS
<1>3. client = None /\ client' = [op |-> "expunge", c |-> c, m |-> m, step |-> step, from |-> from, to |-> None]
  BY <1>2 DEF RemoveMessagesFromMailbox, Begin
<1>4. client' \in Commands /\ client'.m = m /\ client'.c = c /\ client'.op = "expunge"
       /\ client'.step \in {"read", "commit"}
  BY <1>1, <1>2, <1>3 DEF Commands
<1>5. CASE ~noUnlabel \/ isMailboxOfTypeLabel(from)
  <2>1. PICK new : new = Unlabelled(remote[m], from)
    OBVIOUS
  <2>2. /\ new \in Metas /\ new.addr = remote[m].addr /\ new.body = remote[m].body
        /\ new.labels = remote[m].labels \ {from}
    BY <1>1, <2>1, LabelledMeta
  <2>3. Becomes(m, new, "flags", new)
    BY <1>1, <2>2 DEF Becomes, MessageOf
  <2>4. Tells(m, new, "flags", new) /\ UNCHANGED expunged /\ m \in uprooted'
    BY <1>5, <2>1 DEF RemoveMessagesFromMailbox, Begin, Set, Tells, account, handler
  <2> QED  BY <1>1, <1>3, <1>4, <2>3, <2>4, CommandTells
<1>6. CASE ~(~noUnlabel \/ isMailboxOfTypeLabel(from))
  <2>1. /\ UNCHANGED <<mode, broken, remote, born, known, events, batch, at, pc, conns, nosuch, failed,
                       chan, gluon, uprooted, misplaced, expunged>>
        /\ hidden' = hidden \cup {m}
    BY <1>6 DEF RemoveMessagesFromMailbox, Begin, account, handler, server
  <2>2. remote[m] # Unborn
    BY <1>1 DEF Lives
  <2>3. ClientInv'
    BY <1>1, <1>4, <2>1, <2>2 DEF ClientInv
  <2>4. ExpungeOnlyLast'
    BY <2>1 DEF IInv, ExpungeOnlyLast
  <2>5. \A d, x : Works(d, x)' => Works(d, x) \/ x \in hidden'
    BY <1>4, <2>1 DEF Works
  <2> QED  BY <1>4, <2>1, <2>3, <2>4, <2>5, CommandSteps
<1> QED  BY <1>5, <1>6

(* CreateMessage keeps the invariant: Gluon has not heard of the message.  *)
LEMMA CreateMessageInv ==
  ASSUME IInv, NEW c \in conns, NEW m \in Msgs, NEW to \in Places \cup UserLabels, to \in System \cup known,
         CreateMessage(c, m, to)
  PROVE  IInv'
<1>1. /\ MsgType /\ remote[m] = Unborn /\ c \in Addrs /\ EventInv /\ FlightInv
      /\ to \in Boxes /\ getImportAddress(c) \in Addrs
  BY MessagesAssumption DEF IInv, MsgType, CreateMessage, Boxes, getImportAddress
<1>2. PICK new : new = [labels |-> {"AllMail", to}, seen |-> FALSE, rewritable |-> FALSE,
                        addr |-> getImportAddress(c), body |-> 0]
  OBVIOUS
<1>3. {"AllMail", to} \in SUBSET Boxes /\ {"AllMail", to} \subseteq System \cup known
  BY <1>1 DEF System, Boxes
<1>4. /\ new \in Metas /\ new.labels = {"AllMail", to} /\ new.seen = FALSE /\ new.rewritable = FALSE
      /\ new.addr = getImportAddress(c) /\ new.body = 0
  BY <1>1, <1>2, <1>3 DEF Metas
<1>5. Becomes(m, new, "create", new)
  BY <1>1, <1>3, <1>4 DEF Becomes
<1>6. /\ misplaced' = misplaced \cup (IF getImportAddress(c) = c THEN {} ELSE {m})
      /\ uprooted' = IF to \in Places THEN uprooted ELSE uprooted \cup {m}
      /\ UNCHANGED <<hidden, expunged>>
  BY DEF CreateMessage
<1>7. Tells(m, new, "create", new)
  BY <1>2, <1>6 DEF CreateMessage, Begin, Set, Tells, account, handler
<1>8. client = None /\ client' = [op |-> "append", c |-> c, m |-> m, step |-> "commit", from |-> None, to |-> to]
  BY DEF CreateMessage, Begin
<1>9. client' \in Commands /\ client'.m = m /\ client'.c = c /\ client'.op = "append"
       /\ client'.step = "commit" /\ client'.to = to
  BY <1>1, <1>8 DEF Commands
<1>10. new.labels \cap Places = {} => m \in uprooted'
  BY <1>4, <1>6
<1>11. \A d, x : x # m => (Works(d, x)' <=> Works(d, x))
  BY <1>8, <1>9 DEF Works
<1>12. remote'[m] = new /\ Lives(m)' /\ remote'[m] # Unborn
  BY <1>5, <1>7, TellsWell
<1>13. UNCHANGED <<conns, mode, known, nosuch, chan, pc, at>> /\ events' = Told("create", m, new)
  BY <1>7 DEF Tells
<1>14. c = Home(m)' \/ m \in misplaced'
  <2>1. mode = "combined" => c = Primary
    BY <1>1 DEF MsgType
  <2>2. Home(m)' = IF mode = "combined" THEN Primary ELSE new.addr
    BY <1>12, <1>13 DEF Home
  <2> QED  BY <1>4, <1>6, <2>1, <2>2
<1>15. InFlight => Event' = Event /\ Event.id # m
  <2>1. PICK k \in Nat : k = Len(events) + 1
    BY <1>1 DEF MsgType
  <2>2. "create" \in Acts \ {"label"}
    BY DEF Acts
  <2>3. InFlight => Event' = Event
    BY <1>1, <1>4, <1>13, <2>1, <2>2, ToldQueue
  <2>4. InFlight => at \in 1 .. Len(events) /\ Event = events[at] /\ Event.act # "label"
    BY <1>1 DEF MsgType, InFlight, FlightInv, Event
  <2>5. InFlight => Event.id # m
    BY <1>1, <2>4, EventHere DEF EventOf
  <2> QED  BY <2>3, <2>5
<1>16. (nosuch => InFlight) /\ (Sent(c, m) => InFlight /\ Event.id = m)
  BY <1>1 DEF FlightInv, Sent, ChanOf
<1>17. ~Sent(c, m)' /\ (nosuch' => Event'.id # m)
  BY <1>13, <1>15, <1>16 DEF Sent
<1>18. AppendInv'
  BY <1>4, <1>9, <1>12, <1>13, <1>14, <1>17 DEF AppendInv
<1>19. ClientInv'
  BY <1>9, <1>12, <1>13, <1>18 DEF ClientInv
<1> QED  BY <1>5, <1>6, <1>7, <1>9, <1>10, <1>11, <1>19, TellsInv

(* Every command that begins keeps the invariant.                          *)
LEMMA ClientStartsInv ==
  ASSUME IInv, ClientStarts
  PROVE  IInv'
<1>1. PICK c \in conns, m \in Msgs :
        \/ MarkMessagesSeen(c, m)
        \/ \E to \in Places \cup UserLabels :
              /\ to \in System \cup known
              /\ \/ AddMessagesToMailbox(c, m, to)
                 \/ CreateMessage(c, m, to)
                 \/ \E from \in Boxes : MoveMessages(c, m, from, to)
        \/ \E from \in Boxes : RemoveMessagesFromMailbox(c, m, from)
  BY DEF ClientStarts
<1> QED
  BY <1>1, MarkMessagesSeenInv, AddMessagesInv, CreateMessageInv, MoveMessagesInv, RemoveMessagesInv

(* A message is deleted for good if what is left are labels nobody knows.   *)
LEMMA MetadataReadInv ==
  ASSUME IInv, MetadataRead
  PROVE  IInv'
<1>1. client # None /\ client \in Commands /\ client.step = "read" /\ ClientInv /\ MsgType
  BY DEF IInv, MsgType, MetadataRead
<1>2. PICK m : m = client.m
  OBVIOUS
<1>3. m \in Msgs /\ Lives(m) /\ client.op # "append" /\ MessageOf(m) /\ remote[m] \in Metas
  BY <1>1, <1>2, LivesMeta DEF MetadataRead, Commands, ClientInv, AppendInv, IInv, MessageInv
<1>4. /\ UNCHANGED <<mode, broken, remote, born, known, events, batch, at, pc, conns, nosuch, failed,
                     chan, gluon, uprooted, misplaced, hidden>>
  BY DEF MetadataRead, account, handler, server
<1>5. PICK step \in {"delete", "commit"} : client' = [client EXCEPT !.step = step]
  BY DEF MetadataRead
<1>6. /\ client' \in Commands /\ client'.m = client.m /\ client'.c = client.c /\ client'.op = client.op
      /\ client'.step # "unlabel"
  BY <1>1, <1>5 DEF Commands
<1>7. JustCreated(m)' <=> JustCreated(m)
  BY <1>4, SameQueue
<1>8. ClientInv'
  BY <1>1, <1>2, <1>3, <1>4, <1>6, <1>7 DEF ClientInv, Lives
<1>9. ExpungeOnlyLast'
  <2>1. CASE remainingLabels(m) # {}
    BY <1>2, <2>1 DEF MetadataRead, IInv, ExpungeOnlyLast
  <2>2. CASE remainingLabels(m) = {}
    <3>1. PICK e : e = [id |-> m, other |-> OtherLabels(m), unknown |-> UserLabels \ known]
      OBVIOUS
    <3>2. expunged' = expunged \cup {e}
      BY <1>2, <2>2, <3>1 DEF MetadataRead
    <3>3. ASSUME NEW b \in OtherLabels(m) PROVE b \in UserLabels \ known
      <4>1. /\ b \in remote[m].labels \ {client.from, "AllMail"} /\ WantLabel(b)
            /\ b \in System \cup born
        BY <1>3, <3>3 DEF OtherLabels, WantLabel, MessageOf
      <4>2. ~Located(b)
        BY <2>2, <4>1 DEF remainingLabels, Unlabelling
      <4> QED  BY <1>1, <4>1, <4>2 DEF Located, MsgType
    <3>4. e.other \subseteq e.unknown
      BY <3>1, <3>3
    <3> QED  BY <3>2, <3>4 DEF IInv, ExpungeOnlyLast
  <2> QED  BY <2>1, <2>2
<1>10. \A c, x : Works(c, x)' => Works(c, x)
  BY <1>1, <1>6 DEF Works
<1> QED  BY <1>4, <1>6, <1>8, <1>9, <1>10, CommandSteps

(* A command that fails changes nothing in Gluon.                          *)
LEMMA ClientFailsInv ==
  ASSUME IInv, ClientFails
  PROVE  IInv'
<1>1. /\ client' = None
      /\ UNCHANGED <<mode, broken, remote, born, known, events, batch, at, pc, conns, nosuch, failed,
                     chan, gluon, uprooted, misplaced, hidden, expunged>>
  BY DEF ClientFails, account, handler, server
<1>2. ClientInv' /\ ExpungeOnlyLast' /\ \A c, x : ~Works(c, x)'
  BY <1>1 DEF ClientInv, IInv, ExpungeOnlyLast, Works
<1> QED  BY <1>1, <1>2, CommandSteps

(* The transaction of a command is committed: either its events are ahead, *)
(* or an update on its way replaces what it wrote.                         *)
LEMMA ClientCommitsInv ==
  ASSUME IInv, ClientCommits
  PROVE  IInv'
<1>1. client # None /\ client \in Commands /\ ClientInv /\ MsgType /\ FlightInv
  BY DEF IInv, MsgType, ClientCommits
<1>2. PICK c0, m0, to, from, op : c0 = client.c /\ m0 = client.m /\ to = client.to
       /\ from = client.from /\ op = client.op
  OBVIOUS
<1>3. PICK has : has = gluon[c0][m0]
  OBVIOUS
<1>4. PICK new : new = CASE client.op = "seen" -> [has EXCEPT !.seen = ~@]
                [] client.op = "append" -> [boxes |-> {"AllMail", client.to}, seen |-> FALSE, body |-> 0]
                [] OTHER -> [has EXCEPT !.boxes = (@ \ {client.from}) \cup ({client.to} \ {None})]
  OBVIOUS
<1>5. /\ m0 \in Msgs /\ c0 \in conns /\ c0 \in Addrs /\ op \in {"seen", "add", "move", "expunge", "append"}
      /\ to \in Boxes \cup {None} /\ remote[m0] # Unborn /\ has \in Copies \cup {None}
  BY <1>1, <1>2, <1>3 DEF MsgType, Commands, ClientInv
<1>6. /\ gluon' = [gluon EXCEPT ![c0][m0] = new] /\ client' = None
      /\ op = "append" => Lives(m0)
      /\ UNCHANGED <<mode, broken, remote, born, known, events, batch, at, pc, conns, nosuch, failed,
                     chan, uprooted, misplaced, hidden, expunged>>
  <2>1. gluon' = [gluon EXCEPT ![c0][m0] = new]
    <3>1. gluon' = [gluon EXCEPT ![client.c][client.m] = new]
      <4>1. has = gluon[client.c][client.m]
        BY <1>2, <1>3
      <4> QED  BY <1>4, <4>1, Zenon DEF ClientCommits
    <3> QED  BY <1>2, <3>1
  <2> QED  BY <1>2, <2>1 DEF ClientCommits, account, handler, server
<1>7. op # "append" => has \in Copies /\ has # None
  BY <1>1, <1>2, <1>3, <1>5 DEF ClientInv
<1>8. op = "append" => to \in Boxes
  BY <1>1, <1>2, SystemBoxes DEF ClientInv, AppendInv, Boxes
<1>9. new \in Copies /\ (op # "append" => new.body = has.body)
  <2>1. CASE op = "append"
    <3>1. {"AllMail", to} \in SUBSET Boxes
      BY <1>8, <2>1 DEF Boxes, System
    <3> QED  BY <1>2, <1>4, <2>1, <3>1 DEF Copies
  <2>2. CASE op = "seen"
    <3>1. new = [has EXCEPT !.seen = ~@]
      BY <1>2, <1>4, <2>2
    <3> QED  BY <1>7, <2>2, <3>1 DEF Copies
  <2>3. CASE op \notin {"append", "seen"}
    <3>1. new = [has EXCEPT !.boxes = (@ \ {from}) \cup ({to} \ {None})]
      BY <1>2, <1>4, <2>3
    <3>2. has.boxes \in SUBSET Boxes
      BY <1>7, <2>3 DEF Copies
    <3>3. (has.boxes \ {from}) \cup ({to} \ {None}) \in SUBSET Boxes
      BY <1>5, <3>2
    <3> QED  BY <1>7, <2>3, <3>1, <3>3 DEF Copies
  <2> QED  BY <2>1, <2>2, <2>3
<1>10. /\ gluon' \in [Addrs -> [Msgs -> Copies \cup {None}]]
       /\ gluon'[c0][m0] = new
       /\ \A c \in Addrs, m \in Msgs : ~(c = c0 /\ m = m0) => gluon'[c][m] = gluon[c][m]
  BY <1>1, <1>5, <1>6, <1>9 DEF MsgType
<1>11. /\ \A i, m : (About(i, m)' <=> About(i, m)) /\ (Final(i, m)' <=> Final(i, m))
       /\ \A m : (Pending(m)' <=> Pending(m)) /\ (Rewritten(m)' <=> Rewritten(m))
       /\ \A m : JustCreated(m)' <=> JustCreated(m)
       /\ Event' = Event /\ (InFlight' <=> InFlight)
  BY <1>6, SameQueue
<1>12. /\ \A m : (Lives(m)' <=> Lives(m)) /\ Home(m)' = Home(m) /\ Copy(m)' = Copy(m)
       /\ \A c, m : (Mine(c, m)' <=> Mine(c, m)) /\ (Sent(c, m)' <=> Sent(c, m))
       /\ \A c, m : ~Works(c, m)'
  BY <1>6, SameMail DEF Sent, Works
<1>13. MsgType'
  BY <1>1, <1>6, <1>10 DEF MsgType, InFlight
<1>14. EventInv'
  BY <1>6, <1>11, <1>12 DEF IInv, EventInv, EventOf
<1>15. MessageInv'
  BY <1>6, <1>11, <1>12 DEF IInv, MessageInv, MessageOf, LabelOf
<1>16. op = "append" => AppendInv
  BY <1>1, <1>2 DEF ClientInv
<1>17. FlightInv'
  <2>1. ASSUME NEW c \in Addrs, chan[c] # None PROVE ChanOf(c)'
    <3>1. ChanOf(c)
      BY <1>1, <2>1 DEF FlightInv
    <3>2. ASSUME chan[c].op = "created", Event.act # "create",
           Event.act # "delete" PROVE gluon'[c][Event.id] = None
      <4>1. gluon[c][Event.id] = None /\ InFlight
        BY <1>1, <2>1, <3>1, <3>2 DEF ChanOf, FlightInv
      <4>2. Event.id \in Msgs
        BY <1>1, <2>1, <3>1 DEF ChanOf, MsgType, Updates
      <4>3. CASE c = c0 /\ Event.id = m0
        <5>1. op = "append"
          BY <1>3, <1>7, <4>1, <4>3
        <5>2. Lives(m0) /\ c0 = Home(m0) /\ Sent(c0, m0)
          BY <1>6, <2>1, <3>1, <3>2, <4>3, <5>1 DEF ChanOf, Sent
        <5> QED  BY <1>2, <1>16, <3>2, <4>3, <5>1, <5>2 DEF AppendInv
      <4> QED  BY <1>10, <4>1, <4>2, <4>3
    <3> QED  BY <1>6, <1>11, <1>12, <3>1, <3>2 DEF ChanOf
  <2>2. ASSUME nosuch, NEW c \in conns, Mine(c, Event.id) PROVE gluon'[c][Event.id] = None
    <3>1. gluon[c][Event.id] = None /\ pc = "update" /\ c \in Addrs
      BY <1>1, <2>2 DEF FlightInv, MsgType
    <3>2. at \in 1 .. Len(events) /\ Event = events[at] /\ Event.act # "label"
      BY <1>1, <3>1 DEF FlightInv, MsgType, InFlight, Event
    <3>3. Event.id \in Msgs
      BY <1>1, <3>2, EventHere DEF IInv, EventOf
    <3>4. CASE c = c0 /\ Event.id = m0
      <4>1. op = "append"
        BY <1>3, <1>7, <3>1, <3>4
      <4> QED  BY <1>2, <1>6, <1>16, <2>2, <3>4, <4>1 DEF AppendInv, Mine
    <3> QED  BY <1>10, <3>1, <3>3, <3>4
  <2> QED  BY <1>1, <1>6, <1>11, <1>12, <2>1, <2>2 DEF FlightInv
<1>18. ClientInv'
  BY <1>6 DEF ClientInv
<1>19. GluonInv'
  <2> SUFFICES ASSUME NEW c \in conns, NEW m \in Msgs PROVE GluonOf(c, m)'
    BY <1>6 DEF GluonInv
  <2>1. GluonOf(c, m) /\ c \in Addrs
    BY <1>1 DEF IInv, GluonInv, MsgType
  <2>2. CASE ~(c = c0 /\ m = m0)
    <3>1. gluon'[c][m] = gluon[c][m]
      BY <1>10, <2>1, <2>2
    <3>2. CopyOf(c, m)' /\ BodyOf(c, m)' /\ FirstOf(c, m)'
      BY <1>6, <1>11, <1>12, <2>1, <3>1 DEF GluonOf, CopyOf, BodyOf, FirstOf
    <3>3. MirrorOf(c, m)'
      BY <1>6, <1>11, <1>12, <2>1, <3>1 DEF GluonOf, MirrorOf
    <3> QED  BY <3>2, <3>3 DEF GluonOf
  <2>3. CASE c = c0 /\ m = m0
    <3>1. Works(c, m) /\ gluon'[c][m] = new
      BY <1>1, <1>2, <1>10, <2>3 DEF Works
    <3>2. op = "append" => Lives(m) /\ (c = Home(m) \/ m \in misplaced) /\ remote[m].body = 0
      BY <1>2, <1>6, <1>16, <2>3 DEF AppendInv
    <3>3. op # "append" => gluon[c][m] # None
      BY <1>3, <1>7, <2>3
    <3>4. CopyOf(c, m)'
      BY <1>5, <1>6, <1>11, <1>12, <2>1, <2>3, <3>2, <3>3 DEF GluonOf, CopyOf, Lives
    <3>5. op = "append" => new.body = 0
      BY <1>2, <1>4
    <3>6. BodyOf(c, m)'
      BY <1>3, <1>6, <1>9, <1>11, <1>12, <2>1, <2>3, <3>1, <3>2, <3>3, <3>5 DEF GluonOf, BodyOf
    <3>7. FirstOf(c, m)'
      <4> SUFFICES ASSUME Mine(c, m), JustCreated(m), m \notin hidden PROVE new = Copy(m)
        BY <1>6, <1>11, <1>12, <3>1 DEF FirstOf
      <4>1. op = "append"
        BY <1>1, <1>2, <2>3 DEF ClientInv, Mine
      <4>2. /\ remote[m].labels = {"AllMail", to} /\ to \in System \cup known /\ to \in Places \cup UserLabels
            /\ remote[m].body = 0
        BY <1>2, <1>16, <2>3, <4>1 DEF AppendInv, Mine
      <4>3. remote[m].seen = FALSE
        BY DEF IInv, MessageInv, MessageOf, Mine
      <4>4. wantLabels(remote[m].labels) = {"AllMail", to}
        BY <4>2, SystemBoxes DEF wantLabels, WantLabel, System
      <4> QED  BY <1>2, <1>4, <4>1, <4>2, <4>3, <4>4 DEF Copy, BuildFlagSetFromMessageMetadata
    <3>8. MirrorOf(c, m)'
      BY <1>6, <1>11, <1>12, <2>1, <3>1 DEF GluonOf, MirrorOf
    <3> QED  BY <3>4, <3>6, <3>7, <3>8 DEF GluonOf
  <2> QED  BY <2>2, <2>3
<1>20. ExpungeOnlyLast'
  BY <1>6 DEF IInv, ExpungeOnlyLast
<1> QED  BY <1>13, <1>14, <1>15, <1>17, <1>18, <1>19, <1>20 DEF IInv

-----------------------------------------------------------------------------
(* The handler: the event at hand, and what is ahead once it is handled.   *)
LEMMA AtHand ==
  ASSUME IInv, (pc = "next" /\ at <= batch) \/ InFlight
  PROVE  /\ at \in 1 .. Len(events) /\ at \in Nat /\ Event = events[at] /\ Event \in Notices /\ EventOf(at)
         /\ Event.act \in Acts
         /\ Event.act # "label" => Event.id \in Msgs /\ About(at, Event.id) /\ remote[Event.id] # Unborn
<1>1. MsgType /\ EventInv
  BY DEF IInv
<1>2. at \in 1 .. Len(events) /\ at \in Nat
  BY <1>1 DEF MsgType, InFlight
<1>3. Event = events[at] /\ Event \in Notices /\ EventOf(at)
  BY <1>1, <1>2, EventHere DEF Event
<1>4. Event.act \in Acts
  BY <1>3 DEF Notices
<1> QED  BY <1>2, <1>3, <1>4 DEF EventOf, About

(* Of the events ahead, a step of the handler passes the one at hand.      *)
LEMMA HandlerPasses ==
  ASSUME IInv, pc = "next", at <= batch, UNCHANGED events,
         Advance \/ (pc' \in {"wait", "update"} /\ UNCHANGED at)
  PROVE  /\ \A i, m : (About(i, m)' <=> About(i, m)) /\ (Final(i, m)' <=> Final(i, m))
         /\ \A m : JustCreated(m)' <=> JustCreated(m)
         /\ \A m : Event.act = "label" \/ m # Event.id =>
                    (Pending(m)' <=> Pending(m)) /\ (Rewritten(m)' <=> Rewritten(m))
         /\ \A m : Event.act # "update" => (Rewritten(m)' <=> Rewritten(m))
         /\ \A m : m = Event.id /\ Event.act # "label" =>
                    Pending(m) /\ (~Pending(m)' => Final(at, m))
<1>1. MsgType /\ at \in 1 .. Len(events) /\ at \in Nat /\ Event = events[at]
  BY AtHand DEF IInv
<1>2. /\ \A i, m : (About(i, m)' <=> About(i, m)) /\ (Final(i, m)' <=> Final(i, m))
      /\ \A m : JustCreated(m)' <=> JustCreated(m)
  BY DEF About, Final, JustCreated
<1>3. \A i \in 1 .. Len(events) : (Ahead(i) <=> i >= at) /\ (Ahead(i)' <=> i > at)
  BY <1>1 DEF Ahead, Advance
<1>4. ASSUME NEW m, Event.act = "label" \/ m # Event.id
      PROVE  (Pending(m)' <=> Pending(m)) /\ (Rewritten(m)' <=> Rewritten(m))
  <2>1. ~About(at, m)
    BY <1>1, <1>4 DEF About
  <2>2. \A i \in 1 .. Len(events) : About(i, m) => (Ahead(i)' <=> Ahead(i))
    BY <1>1, <1>3, <2>1
  <2> QED  BY <1>2, <2>2 DEF Pending, Rewritten
<1>5. ASSUME NEW m, Event.act # "update" PROVE Rewritten(m)' <=> Rewritten(m)
  <2>1. \A i \in 1 .. Len(events) : events[i].act = "update" => (Ahead(i)' <=> Ahead(i))
    BY <1>1, <1>3, <1>5
  <2> QED  BY <1>2, <2>1 DEF Rewritten
<1>6. ASSUME NEW m, m = Event.id, Event.act # "label" PROVE Pending(m) /\ (~Pending(m)' => Final(at, m))
  <2>1. About(at, m) /\ Pending(m)
    BY <1>1, <1>3, <1>6 DEF About, Pending
  <2>2. ASSUME ~Pending(m)' PROVE Final(at, m)
    <3>1. \A j \in 1 .. Len(events) : About(j, m) => ~(j > at)
      BY <1>2, <1>3, <2>2 DEF Pending
    <3> QED  BY <1>1, <2>1, <3>1 DEF Final
  <2> QED  BY <2>1, <2>2
<1> QED  BY <1>2, <1>4, <1>5, <1>6

(* What a step of the handler does not touch, and a message it is not about. *)
HandlerFrame ==
  UNCHANGED <<mode, broken, remote, born, known, events, batch, conns, gluon, client, expunged,
              uprooted, misplaced, hidden>>

Untouched(m) ==
  /\ (Pending(m)' <=> Pending(m)) /\ (Rewritten(m)' <=> Rewritten(m)) /\ (m \in failed' <=> m \in failed)
  /\ \A c \in Addrs : ~Sent(c, m)'
  /\ ~(nosuch /\ Event.id = m)

(* A step of the handler keeps the invariant, if it does for the message   *)
(* at hand.                                                                *)
LEMMA HandlerSteps ==
  ASSUME IInv, HandlerFrame, \A c \in Addrs : chan[c] = None, nosuch' = FALSE,
         \A i, m : (About(i, m)' <=> About(i, m)) /\ (Final(i, m)' <=> Final(i, m)),
         \A m : JustCreated(m)' <=> JustCreated(m),
         MsgType', FlightInv',
         \A m \in Msgs : Untouched(m) \/ (MessageOf(m)' /\ \A c \in conns : GluonOf(c, m)'),
         \A c \in Addrs, m \in Msgs :
            client # None /\ client.op = "append" /\ client.c = c /\ client.m = m /\ Mine(c, m)
                 /\ Sent(c, m)' /\ chan'[c].op = "created" => Event'.act = "create"
  PROVE  IInv'
<1>1. UNCHANGED <<mode, remote, known, events, conns, gluon, client, broken, born, uprooted,
       misplaced, hidden, expunged>>
  BY DEF HandlerFrame
<1>2. /\ \A m : (Lives(m)' <=> Lives(m)) /\ Home(m)' = Home(m) /\ Copy(m)' = Copy(m)
      /\ \A c, m : (Mine(c, m)' <=> Mine(c, m)) /\ (Works(c, m)' <=> Works(c, m))
  BY <1>1, SameMail DEF Works
<1>3. EventInv'
  BY <1>1, <1>2 DEF IInv, EventInv, EventOf
<1>4. ASSUME NEW m \in Msgs, Untouched(m), NEW c \in conns PROVE GluonOf(c, m)'
  <2>1. GluonOf(c, m) /\ c \in Addrs
    BY DEF IInv, MsgType, GluonInv
  <2>2. ~Sent(c, m)
    BY <2>1 DEF Sent
  <2>3. CopyOf(c, m)' /\ BodyOf(c, m)' /\ FirstOf(c, m)'
    BY <1>1, <1>2, <1>4, <2>1, <2>2 DEF GluonOf, CopyOf, BodyOf, FirstOf, Untouched
  <2>4. MirrorOf(c, m)'
    BY <1>1, <1>2, <1>4, <2>1, <2>2 DEF GluonOf, MirrorOf, Untouched
  <2> QED  BY <2>3, <2>4 DEF GluonOf
<1>5. GluonInv'
  BY <1>1, <1>4 DEF GluonInv
<1>6. ASSUME NEW m \in Msgs, Untouched(m) PROVE MessageOf(m)'
  <2>1. MessageOf(m)
    BY DEF IInv, MessageInv
  <2> QED  BY <1>1, <1>2, <1>6, <2>1 DEF MessageOf, Untouched
<1>7. ASSUME NEW m \in Msgs, NEW j \in 1 .. Len(events) PROVE LabelOf(j, m)'
  <2>1. LabelOf(j, m)
    BY DEF IInv, MessageInv
  <2> QED  BY <1>1, <1>2, <2>1 DEF LabelOf
<1>8. MessageInv'
  BY <1>1, <1>6, <1>7 DEF MessageInv
<1>9. ClientInv'
  <2> SUFFICES ASSUME client # None PROVE ClientInv'
    BY <1>1 DEF ClientInv
  <2>1. ClientInv /\ client.c \in Addrs /\ client.m \in Msgs
    BY DEF IInv, MsgType, Commands
  <2>2. client.op = "append" => AppendInv'
    <3> SUFFICES ASSUME AppendInv, client.op = "append" PROVE AppendInv'
      BY <2>1 DEF ClientInv
    <3>1. PICK c, m : c = client.c /\ m = client.m
      OBVIOUS
    <3>2. Lives(m) /\ c = Home(m) /\ Sent(c, m)' /\ chan'[c].op = "created" => Event'.act = "create"
      BY <2>1, <3>1 DEF Mine
    <3> QED  BY <1>1, <1>2, <2>1, <3>1, <3>2 DEF AppendInv, Sent
  <2> QED  BY <1>1, <1>2, <2>1, <2>2 DEF ClientInv
<1>10. ExpungeOnlyLast'
  BY <1>1 DEF IInv, ExpungeOnlyLast
<1> QED  BY <1>3, <1>5, <1>8, <1>9, <1>10 DEF IInv

(* What becomes of a message that is fetched and built.                    *)
Outcome(op, m) ==
  \/ ~Lives(m) /\ Advance /\ UNCHANGED <<failed, chan>>
  \/ /\ Lives(m) /\ <<m, remote[m].body>> \in broken
     /\ failed' = failed \cup {m} /\ Advance /\ UNCHANGED chan
  \/ /\ Lives(m) /\ <<m, remote[m].body>> \notin broken /\ \A c \in conns : ~Mine(c, m)
     /\ failed' = failed \ {m} /\ Advance /\ UNCHANGED chan
  \/ /\ Lives(m) /\ <<m, remote[m].body>> \notin broken /\ Home(m) \in conns
     /\ failed' = failed \ {m} /\ pc' = "wait" /\ UNCHANGED at
     /\ chan' \in [Addrs -> Updates \cup {None}]
     /\ chan'[Home(m)] = Upd(op, m, remote[m])
     /\ \A c \in Addrs : c # Home(m) => chan'[c] = None

(* BuildAndPublish has one of these outcomes.                              *)
LEMMA Built ==
  ASSUME IInv, NEW m \in Msgs, NEW op \in {"created", "updated"}, BuildAndPublish(op, m),
         \A c \in Addrs : chan[c] = None
  PROVE  Outcome(op, m)
<1>1. MsgType
  BY DEF IInv
<1>2. CASE ~Lives(m)
  BY <1>2 DEF BuildAndPublish, Outcome
<1>3. CASE Lives(m) /\ <<m, remote[m].body>> \in broken
  BY <1>3 DEF BuildAndPublish, FailedAfter, Outcome
<1>4. CASE Lives(m) /\ <<m, remote[m].body>> \notin broken
  <2>1. PICK to : to = safePublishMessageUpdate(remote[m].addr)
    OBVIOUS
  <2>2. /\ to # {} => to = {Home(m)}
        /\ to \subseteq conns /\ to \subseteq Addrs
        /\ to = {} => \A c \in conns : ~Mine(c, m)
    BY <1>1, <1>4, <2>1, RouteIsHome DEF MsgType
  <2>3. failed' = failed \ {m}
    BY <1>4 DEF BuildAndPublish, FailedAfter
  <2>4. CASE to = {}
    BY <1>4, <2>1, <2>2, <2>3, <2>4 DEF BuildAndPublish, Outcome
  <2>5. CASE to # {}
    <3>1. Publish(to, Upd(op, m, remote[m])) /\ pc' = "wait" /\ UNCHANGED at
      BY <1>4, <2>1, <2>5 DEF BuildAndPublish
    <3>2. Upd(op, m, remote[m]) \in Updates
      BY <1>1, <1>4, LivesMeta, UpdIsUpdate
    <3>3. /\ chan' \in [Addrs -> Updates \cup {None}]
          /\ \A c \in Addrs : c \in to => chan'[c] = Upd(op, m, remote[m])
          /\ \A c \in Addrs : c \notin to => chan'[c] = None
      BY <1>1, <2>2, <3>1, <3>2, PublishTo
    <3> QED  BY <1>4, <2>2, <2>3, <2>5, <3>1, <3>3 DEF Outcome
  <2> QED  BY <2>4, <2>5
<1> QED  BY <1>2, <1>3, <1>4

(* The types after a step of the handler.                                  *)
LEMMA HandlerTypes ==
  ASSUME IInv, HandlerFrame, (pc = "next" /\ at <= batch) \/ InFlight,
         Advance \/ (pc' \in {"wait", "update"} /\ UNCHANGED at),
         failed' \subseteq Msgs, chan' \in [Addrs -> Updates \cup {None}], nosuch' \in BOOLEAN
  PROVE  MsgType'
<1>1. at \in Nat /\ batch \in Nat /\ at <= batch
  BY DEF IInv, MsgType, InFlight
<1>2. at' \in Nat /\ at' <= batch + 1 /\ at' >= 1 /\ (InFlight' => at' <= batch)
       /\ pc' \in {"next", "wait", "update"}
  BY <1>1, AtHand DEF Advance, InFlight
<1> QED  BY <1>2 DEF IInv, MsgType, HandlerFrame, InFlight

(* The flight after a step that publishes nothing.                         *)
LEMMA NothingFlies ==
  ASSUME \A c \in Addrs : chan'[c] = None, pc' = "next", nosuch' = FALSE
  PROVE  FlightInv' /\ \A c \in Addrs : \A m : ~Sent(c, m)'
BY DEF FlightInv, InFlight, Sent

(* An event of a message is handled by fetching the message.               *)
LEMMA HandleBuilt ==
  ASSUME IInv, HandlerFrame, pc = "next", at <= batch, UNCHANGED nosuch, NEW m0 \in Msgs, m0 = Event.id,
         Event.act \in {"create", "update", "flags"}, NEW op \in {"created", "updated"},
         op = "created" <=> Event.act = "create", BuildAndPublish(op, m0)
  PROVE  IInv'
<1>1. MsgType /\ nosuch = FALSE /\ \A c \in Addrs : chan[c] = None
  BY DEF IInv, FlightInv, InFlight
<1>2. Outcome(op, m0)
  BY <1>1, Built
<1>3. Advance \/ (pc' \in {"wait", "update"} /\ UNCHANGED at)
  BY <1>2 DEF Outcome
<1>4. UNCHANGED <<mode, remote, known, events, conns, gluon, client, broken, hidden, misplaced, born, uprooted>>
      /\ nosuch' = FALSE
  BY <1>1 DEF HandlerFrame
<1>5. /\ \A i, m : (About(i, m)' <=> About(i, m)) /\ (Final(i, m)' <=> Final(i, m))
      /\ \A m : JustCreated(m)' <=> JustCreated(m)
      /\ \A m : m # m0 => (Pending(m)' <=> Pending(m)) /\ (Rewritten(m)' <=> Rewritten(m))
      /\ Event.act # "update" => (Rewritten(m0)' <=> Rewritten(m0))
      /\ ~Pending(m0)' => Final(at, m0)
  <2>1. UNCHANGED events
    BY <1>4
  <2>2. /\ \A i, m : (About(i, m)' <=> About(i, m)) /\ (Final(i, m)' <=> Final(i, m))
        /\ \A m : JustCreated(m)' <=> JustCreated(m)
        /\ \A m : Event.act = "label" \/ m # Event.id =>
                    (Pending(m)' <=> Pending(m)) /\ (Rewritten(m)' <=> Rewritten(m))
        /\ \A m : Event.act # "update" => (Rewritten(m)' <=> Rewritten(m))
        /\ \A m : m = Event.id /\ Event.act # "label" =>
                    Pending(m) /\ (~Pending(m)' => Final(at, m))
    BY ONLY IInv, pc = "next", at <= batch, <1>3, <2>1, HandlerPasses
  <2>3. \A m : m # m0 => (Pending(m)' <=> Pending(m)) /\ (Rewritten(m)' <=> Rewritten(m))
    BY <2>2
  <2>4. Event.act # "update" => (Rewritten(m0)' <=> Rewritten(m0))
    BY <2>2
  <2>5. ~Pending(m0)' => Final(at, m0)
    BY <2>2
  <2> QED  BY <2>2, <2>3, <2>4, <2>5
<1>6. /\ \A m : (Lives(m)' <=> Lives(m)) /\ Home(m)' = Home(m) /\ Copy(m)' = Copy(m)
      /\ \A c, m : Mine(c, m)' <=> Mine(c, m)
  BY <1>4, SameMail
<1>7. EventOf(at) /\ Event = events[at] /\ remote[m0] # Unborn
  BY AtHand
<1>8. failed' \subseteq Msgs /\ chan' \in [Addrs -> Updates \cup {None}]
       /\ \A m : m # m0 => (m \in failed' <=> m \in failed)
  BY <1>1, <1>2 DEF Outcome, MsgType
<1>9. MsgType'
  BY <1>3, <1>4, <1>8, HandlerTypes
<1>10. \A c \in Addrs : chan'[c] # None => /\ Lives(m0) /\ c = Home(m0) /\ pc' = "wait" /\ UNCHANGED at
                                          /\ c \in conns /\ chan'[c] = Upd(op, m0, remote[m0])
                                          /\ \A d \in Addrs : chan'[d] # None => d = c
  BY <1>1, <1>2 DEF Outcome
<1>11. Lives(m0) => /\ Upd(op, m0, remote[m0]).op = op /\ Upd(op, m0, remote[m0]).id = m0
                    /\ Upd(op, m0, remote[m0]) # None
                    /\ Upd(op, m0, remote[m0]).copy \in Copies
                         /\ Upd(op, m0, remote[m0]).copy.body = remote[m0].body
                    /\ Upd(op, m0, remote[m0]).copy = Copy(m0)
  <2>1. Upd(op, m0, remote[m0]).copy = Copy(m0)
    BY UpdIsCopy
  <2>2. op \in {"created", "updated", "mailboxes"} /\ (Lives(m0) => remote[m0] \in Metas)
    BY <1>1, LivesMeta
  <2> QED  BY <2>1, <2>2, UpdIsUpdate
<1>12. FlightInv'
  <2>1. CASE pc' = "next"
    BY <1>4, <1>10, <2>1, NothingFlies
  <2>2. CASE pc' = "wait" /\ UNCHANGED at
    <3>1. Event' = Event
      BY <1>4, <2>2 DEF Event
    <3>2. ASSUME NEW c \in Addrs, chan'[c] # None PROVE ChanOf(c)'
      <4>1. PICK u : u = chan'[c]
        OBVIOUS
      <4>2. /\ Lives(m0) /\ c = Home(m0) /\ c \in conns /\ u.op = op /\ u.id = m0 /\ u.copy \in Copies
            /\ u.copy.body = remote[m0].body /\ u.copy = Copy(m0) /\ \A d \in Addrs : chan'[d] # None => d = c
        BY <1>10, <1>11, <3>2, <4>1
      <4> QED  BY <1>4, <1>6, <2>2, <3>1, <4>1, <4>2 DEF ChanOf
    <3> QED  BY <1>4, <2>2, <3>1, <3>2 DEF FlightInv, InFlight
  <2> QED  BY <1>2, <2>1, <2>2 DEF Outcome, Advance
<1>13. ASSUME NEW m \in Msgs, m # m0 PROVE Untouched(m)
  BY <1>1, <1>5, <1>8, <1>10, <1>11, <1>13 DEF Untouched, Sent
<1>14. Event.act = "update" \/ Event.act = "flags" => op = "updated"
  OBVIOUS
<1>15. MessageOf(m0)'
  <2>1. MessageOf(m0)
    BY DEF IInv, MessageInv
  <2>2. Lives(m0) /\ m0 \in failed' => <<m0, remote[m0].body>> \in broken
    BY <1>2 DEF Outcome
  <2> QED  BY <1>4, <1>5, <1>6, <1>7, <2>1, <2>2 DEF MessageOf
<1>16. ASSUME NEW c \in conns PROVE GluonOf(c, m0)'
  <2>1. GluonOf(c, m0) /\ c \in Addrs /\ ~Sent(c, m0)
    BY <1>1 DEF IInv, MsgType, GluonInv, Sent
  <2>2. CopyOf(c, m0)'
    <3>1. remote[m0] = Gone => Pending(m0)'
      BY <1>5, <1>7 DEF EventOf
    <3> QED  BY <1>4, <1>6, <2>1, <3>1 DEF GluonOf, CopyOf
  <2>3. Mine(c, m0) => m0 \in failed' \/ (Sent(c, m0)' /\ chan'[c].op = op)
    BY <1>2, <1>11, <2>1 DEF Outcome, Mine, Sent
  <2>4. BodyOf(c, m0)'
    <3> SUFFICES ASSUME Mine(c, m0), gluon[c][m0] # None, gluon[c][m0].body # remote[m0].body,
           m0 \notin failed', ~Rewritten(m0)'
                 PROVE  Sent(c, m0)' /\ chan'[c].op = "updated"
      BY <1>4, <1>6 DEF BodyOf
    <3>1. CASE Event.act \in {"update", "flags"}
      BY <1>14, <2>3, <3>1
    <3>2. CASE Event.act = "create"
      <4>1. ~Rewritten(m0)
        BY <1>5, <3>2
      <4>2. m0 \in failed
        BY <2>1, <4>1 DEF GluonOf, BodyOf
      <4>3. <<m0, remote[m0].body>> \in broken
        BY <4>1, <4>2 DEF IInv, MessageInv, MessageOf, Mine
      <4> QED  BY <1>2, <4>3 DEF Outcome, Mine
    <3> QED  BY <3>1, <3>2
  <2>5. FirstOf(c, m0)'
    BY <1>4, <1>5, <1>6, <2>1 DEF GluonOf, FirstOf
  <2>6. MirrorOf(c, m0)'
    BY <1>4, <1>6, <2>3 DEF MirrorOf
  <2> QED  BY <2>2, <2>4, <2>5, <2>6 DEF GluonOf
<1>17. \A c \in Addrs, m \in Msgs : Sent(c, m)' /\ chan'[c].op = "created" => Event'.act = "create"
  <2>1. \A c \in Addrs, m \in Msgs : Sent(c, m)' /\ chan'[c].op = "created" => op = "created" /\ UNCHANGED at
    BY <1>10, <1>11 DEF Sent
  <2> QED  BY <1>4, <2>1 DEF Event
<1>18. \A m \in Msgs : Untouched(m) \/ (MessageOf(m)' /\ \A c \in conns : GluonOf(c, m)')
  BY <1>13, <1>15, <1>16
<1>19. \A c \in Addrs, m \in Msgs :
            client # None /\ client.op = "append" /\ client.c = c /\ client.m = m /\ Mine(c, m)
                 /\ Sent(c, m)' /\ chan'[c].op = "created" => Event'.act = "create"
  BY <1>17
<1>20. /\ \A c \in Addrs : chan[c] = None
       /\ nosuch' = FALSE
       /\ \A i, m : (About(i, m)' <=> About(i, m)) /\ (Final(i, m)' <=> Final(i, m))
       /\ \A m : JustCreated(m)' <=> JustCreated(m)
  BY <1>1, <1>4, <1>5
<1> QED
  BY ONLY IInv, HandlerFrame, <1>9, <1>12, <1>18, <1>19, <1>20, HandlerSteps

(* An event of flags and boxes is applied as it tells.                     *)
LEMMA HandleUpdated ==
  ASSUME IInv, HandlerFrame, pc = "next", at <= batch, UNCHANGED nosuch, NEW m0 \in Msgs, m0 = Event.id,
         Event.act = "flags", onMessageUpdate(m0, Event.meta)
  PROVE  IInv'
<1>1. MsgType /\ nosuch = FALSE /\ \A c \in Addrs : chan[c] = None
  BY DEF IInv, FlightInv, InFlight
<1>2. EventOf(at) /\ Event = events[at] /\ remote[m0] # Unborn /\ at \in 1 .. Len(events)
  BY AtHand
<1>3. PICK meta : meta = Event.meta
  OBVIOUS
<1>4. /\ meta \in Metas /\ (Lives(m0) => meta.addr = remote[m0].addr)
      /\ Final(at, m0) /\ Lives(m0) => meta = remote[m0]
      /\ Final(at, m0) => remote[m0] # Gone
  BY <1>2, <1>3 DEF EventOf
<1>5. PICK to : to = safePublishMessageUpdate(meta.addr)
  OBVIOUS
<1>6. /\ to \subseteq conns /\ to \subseteq Addrs /\ \A c, d \in to : c = d
      /\ Lives(m0) /\ to # {} => to = {Home(m0)}
      /\ Lives(m0) /\ to = {} => \A c \in conns : ~Mine(c, m0)
  <2>1. to \subseteq conns /\ \A c, d \in to : c = d
    BY <1>1, <1>5, RouteIsOne
  <2>2. Lives(m0) => to = safePublishMessageUpdate(remote[m0].addr)
    BY <1>4, <1>5
  <2> QED  BY <1>1, <2>1, <2>2, RouteIsHome DEF MsgType
<1>7. PICK u : u = Upd("mailboxes", m0, meta)
  OBVIOUS
<1>8. /\ u \in Updates /\ u # None /\ u.op = "mailboxes" /\ u.id = m0 /\ u.copy \in Copies
      /\ meta = remote[m0] => u.copy = Copy(m0)
  <2>1. meta = remote[m0] => u.copy = Copy(m0)
    BY <1>7, UpdIsCopy
  <2> QED  BY <1>4, <1>7, <2>1, UpdIsUpdate
<1>9. /\ to # {} => Publish(to, u) /\ pc' = "update" /\ UNCHANGED at
      /\ to = {} => Advance /\ UNCHANGED chan
      /\ UNCHANGED failed
  BY <1>3, <1>5, <1>7 DEF onMessageUpdate
<1>10. /\ chan' \in [Addrs -> Updates \cup {None}]
       /\ \A c \in Addrs : c \in to => chan'[c] = u
       /\ \A c \in Addrs : c \notin to => chan'[c] = None
  <2>1. CASE to = {}
    BY <1>1, <1>9, <2>1 DEF MsgType
  <2>2. CASE to # {}
    BY <1>1, <1>6, <1>8, <1>9, <2>2, PublishTo
  <2> QED  BY <2>1, <2>2
<1>11. Advance \/ (pc' \in {"wait", "update"} /\ UNCHANGED at)
  BY <1>9
<1>12. UNCHANGED <<mode, remote, known, events, conns, gluon, client, broken, hidden, misplaced, born, uprooted>>
      /\ nosuch' = FALSE
  BY <1>1 DEF HandlerFrame
<1>13. /\ \A i, m : (About(i, m)' <=> About(i, m)) /\ (Final(i, m)' <=> Final(i, m))
       /\ \A m : JustCreated(m)' <=> JustCreated(m)
       /\ \A m : Event.act = "label" \/ m # Event.id =>
                    (Pending(m)' <=> Pending(m)) /\ (Rewritten(m)' <=> Rewritten(m))
       /\ \A m : Event.act # "update" => (Rewritten(m)' <=> Rewritten(m))
       /\ \A m : m = Event.id /\ Event.act # "label" =>
                    Pending(m) /\ (~Pending(m)' => Final(at, m))
  <2>1. UNCHANGED events
    BY <1>12
  <2> QED  BY ONLY IInv, pc = "next", at <= batch, <1>11, <2>1, HandlerPasses
<1>14. /\ \A m : (Lives(m)' <=> Lives(m)) /\ Home(m)' = Home(m) /\ Copy(m)' = Copy(m)
       /\ \A c, m : Mine(c, m)' <=> Mine(c, m)
  BY <1>12, SameMail
<1>15. MsgType'
  <2>1. failed' \subseteq Msgs /\ nosuch' \in BOOLEAN
    BY <1>1, <1>9, <1>12 DEF MsgType
  <2> QED  BY <1>10, <1>11, <2>1, HandlerTypes
<1>16. ~Pending(m0)' => Final(at, m0)
  BY <1>13
<1>17. FlightInv'
  <2>1. CASE to = {}
    BY <1>9, <1>10, <1>12, <2>1, NothingFlies DEF Advance
  <2>2. CASE to # {}
    <3>1. Event' = Event /\ pc' = "update"
      BY <1>9, <1>12, <2>2 DEF Event
    <3>2. ASSUME NEW c \in Addrs, chan'[c] # None PROVE ChanOf(c)'
      <4>1. c \in to /\ chan'[c] = u /\ c \in conns /\ \A d \in Addrs : chan'[d] # None => d = c
        BY <1>6, <1>10, <3>2
      <4>2. Lives(m0) => c = Home(m0) /\ (~Pending(m0)' => u.copy = Copy(m0))
        BY <1>4, <1>6, <1>8, <1>16, <4>1
      <4> QED  BY <1>8, <1>12, <1>14, <3>1, <4>1, <4>2 DEF ChanOf
    <3> QED  BY <1>12, <3>1, <3>2 DEF FlightInv, InFlight
  <2> QED  BY <2>1, <2>2
<1>18. ASSUME NEW m \in Msgs, m # m0 PROVE Untouched(m)
  BY <1>1, <1>8, <1>9, <1>10, <1>13, <1>18 DEF Untouched, Sent
<1>19. MessageOf(m0)'
  <2>1. MessageOf(m0)
    BY DEF IInv, MessageInv
  <2> QED  BY <1>9, <1>12, <1>13, <1>14, <2>1 DEF MessageOf
<1>20. ASSUME NEW c \in conns PROVE GluonOf(c, m0)'
  <2>1. GluonOf(c, m0) /\ c \in Addrs /\ ~Sent(c, m0)
    BY <1>1 DEF IInv, MsgType, GluonInv, Sent
  <2>2. CopyOf(c, m0)'
    BY <1>4, <1>12, <1>14, <1>16, <2>1 DEF GluonOf, CopyOf
  <2>3. BodyOf(c, m0)'
    BY <1>9, <1>12, <1>13, <1>14, <2>1 DEF GluonOf, BodyOf
  <2>4. FirstOf(c, m0)'
    BY <1>12, <1>13, <1>14, <2>1 DEF GluonOf, FirstOf
  <2>5. Mine(c, m0) => Sent(c, m0)'
    BY <1>6, <1>8, <1>10, <2>1 DEF Mine, Sent
  <2>6. MirrorOf(c, m0)'
    BY <1>14, <2>5 DEF MirrorOf
  <2> QED  BY <2>2, <2>3, <2>4, <2>6 DEF GluonOf
<1>21. \A c \in Addrs, m \in Msgs : Sent(c, m)' => chan'[c].op # "created"
  BY <1>8, <1>10 DEF Sent
<1>22. \A m \in Msgs : Untouched(m) \/ (MessageOf(m)' /\ \A c \in conns : GluonOf(c, m)')
  BY <1>18, <1>19, <1>20
<1> QED
  BY ONLY IInv, HandlerFrame, <1>1, <1>12, <1>13, <1>15, <1>17, <1>21, <1>22, HandlerSteps

(* An event of a deletion goes to every connector (onMessageDeleted).      *)
LEMMA HandleDeleted ==
  ASSUME IInv, HandlerFrame, pc = "next", at <= batch, UNCHANGED nosuch, NEW m0 \in Msgs, m0 = Event.id,
         Event.act = "delete", onMessageDeleted(m0)
  PROVE  IInv'
<1>1. MsgType /\ nosuch = FALSE /\ (\A c \in Addrs : chan[c] = None) /\ conns \in SUBSET Addrs
  BY DEF IInv, FlightInv, InFlight, MsgType
<1>2. remote[m0] = Gone /\ Event = events[at] /\ ~Lives(m0)
  BY AtHand DEF EventOf, Lives
<1>3. PICK u : u = [op |-> "deleted", id |-> m0]
  OBVIOUS
<1>4. u \in Updates /\ u # None /\ u.op = "deleted" /\ u.id = m0
  BY <1>3, MessagesAssumption DEF Updates
<1>5. Publish(conns, u) /\ pc' = "wait" /\ UNCHANGED <<at, failed>>
  BY <1>3 DEF onMessageDeleted
<1>6. /\ chan' \in [Addrs -> Updates \cup {None}]
      /\ \A c \in Addrs : c \in conns => chan'[c] = u
      /\ \A c \in Addrs : c \notin conns => chan'[c] = None
  BY <1>1, <1>4, <1>5, PublishTo
<1>7. UNCHANGED <<mode, remote, known, events, conns, gluon, client, broken, hidden, misplaced, born, uprooted>>
      /\ nosuch' = FALSE
  BY <1>1 DEF HandlerFrame
<1>8. /\ \A i, m : (About(i, m)' <=> About(i, m)) /\ (Final(i, m)' <=> Final(i, m))
      /\ \A m : JustCreated(m)' <=> JustCreated(m)
      /\ \A m : Event.act = "label" \/ m # Event.id =>
                    (Pending(m)' <=> Pending(m)) /\ (Rewritten(m)' <=> Rewritten(m))
      /\ \A m : Event.act # "update" => (Rewritten(m)' <=> Rewritten(m))
  <2>1. UNCHANGED events /\ (Advance \/ (pc' \in {"wait", "update"} /\ UNCHANGED at))
    BY <1>5, <1>7
  <2> QED  BY ONLY IInv, pc = "next", at <= batch, <2>1, HandlerPasses
<1>9. /\ \A m : (Lives(m)' <=> Lives(m)) /\ Home(m)' = Home(m) /\ Copy(m)' = Copy(m)
      /\ \A c, m : Mine(c, m)' <=> Mine(c, m)
  BY <1>7, SameMail
<1>10. MsgType'
  <2>1. /\ failed' \subseteq Msgs /\ nosuch' \in BOOLEAN
        /\ Advance \/ (pc' \in {"wait", "update"} /\ UNCHANGED at)
    BY <1>1, <1>5, <1>7 DEF MsgType
  <2> QED  BY <1>6, <2>1, HandlerTypes
<1>11. FlightInv'
  <2>1. Event' = Event
    BY <1>5, <1>7 DEF Event
  <2>2. ASSUME NEW c \in Addrs, chan'[c] # None PROVE ChanOf(c)'
    BY <1>4, <1>6, <1>7, <2>1, <2>2 DEF ChanOf
  <2> QED  BY <1>5, <1>7, <2>1, <2>2 DEF FlightInv, InFlight
<1>12. ASSUME NEW m \in Msgs, m # m0 PROVE Untouched(m)
  BY <1>1, <1>4, <1>5, <1>6, <1>8, <1>12 DEF Untouched, Sent
<1>13. MessageOf(m0)'
  <2>1. MessageOf(m0)
    BY DEF IInv, MessageInv
  <2> QED  BY <1>2, <1>5, <1>7, <1>9, <2>1 DEF MessageOf
<1>14. ASSUME NEW c \in conns PROVE GluonOf(c, m0)'
  <2>1. GluonOf(c, m0) /\ c \in Addrs /\ ~Mine(c, m0)'
    BY <1>1, <1>2, <1>9 DEF IInv, GluonInv, Mine
  <2>2. Sent(c, m0)'
    BY <1>4, <1>6, <2>1 DEF Sent
  <2>3. CopyOf(c, m0)'
    BY <1>2, <1>7, <1>9, <2>1, <2>2 DEF GluonOf, CopyOf
  <2> QED  BY <2>1, <2>3 DEF GluonOf, BodyOf, FirstOf, MirrorOf
<1>15. \A c \in Addrs, m \in Msgs : Sent(c, m)' => chan'[c].op # "created"
  BY <1>4, <1>6 DEF Sent
<1>16. \A m \in Msgs : Untouched(m) \/ (MessageOf(m)' /\ \A c \in conns : GluonOf(c, m)')
  BY <1>12, <1>13, <1>14
<1> QED
  BY ONLY IInv, HandlerFrame, <1>1, <1>7, <1>8, <1>10, <1>11, <1>15, <1>16, HandlerSteps

(* An event of a label is passed over here.                                *)
LEMMA HandleLabel ==
  ASSUME IInv, HandlerFrame, pc = "next", at <= batch, UNCHANGED <<nosuch, failed, chan>>,
       Event.act = "label", Advance
  PROVE  IInv'
<1>1. MsgType /\ nosuch = FALSE /\ (\A c \in Addrs : chan[c] = None) /\ conns \in SUBSET Addrs
  BY DEF IInv, FlightInv, InFlight, MsgType
<1>2. UNCHANGED events /\ (Advance \/ (pc' \in {"wait", "update"} /\ UNCHANGED at))
  BY DEF HandlerFrame
<1>3. /\ \A i, m : (About(i, m)' <=> About(i, m)) /\ (Final(i, m)' <=> Final(i, m))
      /\ \A m : JustCreated(m)' <=> JustCreated(m)
      /\ \A m : Event.act = "label" \/ m # Event.id =>
                    (Pending(m)' <=> Pending(m)) /\ (Rewritten(m)' <=> Rewritten(m))
  BY ONLY IInv, pc = "next", at <= batch, <1>2, HandlerPasses
<1>4. failed' \subseteq Msgs /\ nosuch' = FALSE /\ nosuch' \in BOOLEAN
       /\ chan' \in [Addrs -> Updates \cup {None}] /\ pc' = "next"
      /\ \A c \in Addrs : chan'[c] = None
  BY <1>1 DEF MsgType, Advance
<1>5. MsgType'
  BY <1>2, <1>4, HandlerTypes
<1>6. FlightInv' /\ \A c \in Addrs : \A m : ~Sent(c, m)'
  BY <1>4, NothingFlies
<1>7. \A m \in Msgs : Untouched(m)
  BY <1>1, <1>3, <1>6 DEF Untouched
<1> QED
  BY ONLY IInv, HandlerFrame, <1>1, <1>3, <1>4, <1>5, <1>6, <1>7, HandlerSteps

(* Every event that is handled keeps the invariant.                        *)
LEMMA HandleEventInv ==
  ASSUME IInv, HandleEvent
  PROVE  IInv'
<1>1. pc = "next" /\ at <= batch /\ HandlerFrame /\ UNCHANGED nosuch
  BY DEF HandleEvent, HandlerFrame, account, server, command
<1>2. EventOf(at) /\ Event = events[at] /\ (Event.act # "label" => Event.id \in Msgs)
  BY <1>1, AtHand
<1>3. PICK m : m = Event.id
  OBVIOUS
<1>4. CASE Event.act = "label" /\ Advance /\ UNCHANGED <<failed, chan>>
  BY <1>1, <1>4, HandleLabel
<1>5. CASE Event.act = "create" /\ onMessageCreated(Event.id)
  <2>1. m \in Msgs /\ BuildAndPublish("created", m)
    BY <1>2, <1>3, <1>5 DEF onMessageCreated
  <2> QED  BY <1>1, <1>3, <1>5, <2>1, HandleBuilt
<1>6. CASE IsRewrite(Event) /\ onMessageUpdateDraftOrSent(Event.id)
  <2>1. m \in Msgs /\ BuildAndPublish("updated", m) /\ Event.act \in {"update", "flags"}
    BY <1>2, <1>3, <1>6 DEF onMessageUpdateDraftOrSent, IsRewrite
  <2> QED  BY <1>1, <1>3, <2>1, HandleBuilt
<1>7. CASE Event.act \in {"update", "flags"} /\ ~IsRewrite(Event) /\ onMessageUpdate(Event.id, Event.meta)
  <2>1. Event.act = "flags"
    BY <1>2, <1>7 DEF EventOf, IsRewrite
  <2>2. m \in Msgs /\ onMessageUpdate(m, Event.meta)
    BY <1>2, <1>3, <1>7
  <2> QED  BY <1>1, <1>3, <2>1, <2>2, HandleUpdated
<1>8. CASE Event.act = "delete" /\ onMessageDeleted(Event.id)
  <2>1. m \in Msgs /\ onMessageDeleted(m)
    BY <1>2, <1>3, <1>8
  <2> QED  BY <1>1, <1>3, <1>8, <2>1, HandleDeleted
<1> QED  BY <1>4, <1>5, <1>6, <1>7, <1>8 DEF HandleEvent

(* The updates of an event have been applied.  If Gluon did not have the   *)
(* message, it is built and created.                                       *)
LEMMA waitInv ==
  ASSUME IInv, waitOnIMAPUpdates
  PROVE  IInv'
<1>1. MsgType /\ FlightInv /\ InFlight /\ (\A c \in Addrs : chan[c] = None) /\ conns \in SUBSET Addrs
  BY DEF IInv, InFlight, MsgType, waitOnIMAPUpdates
<1>2. HandlerFrame /\ nosuch' = FALSE
  BY DEF waitOnIMAPUpdates, HandlerFrame, account, server, command
<1>3. /\ EventOf(at) /\ Event = events[at] /\ at \in 1 .. Len(events) /\ at \in Nat /\ Event.act # "label"
      /\ Event.id \in Msgs /\ remote[Event.id] # Unborn
  BY <1>1, AtHand DEF FlightInv
<1>4. PICK m0 \in Msgs : m0 = Event.id
  BY <1>3
<1>5. UNCHANGED <<mode, remote, known, events, conns, gluon, client, broken, hidden, misplaced,
       born, uprooted>>
  BY <1>2 DEF HandlerFrame
<1>6. /\ \A m : (Lives(m)' <=> Lives(m)) /\ Home(m)' = Home(m) /\ Copy(m)' = Copy(m)
      /\ \A c, m : Mine(c, m)' <=> Mine(c, m)
  BY <1>5, SameMail
<1>7. \/ ~nosuch /\ Advance /\ UNCHANGED <<failed, chan>>
      \/ nosuch /\ pc = "update" /\ Outcome("created", m0)
  <2>1. CASE nosuch
    <3>1. pc = "update" /\ BuildAndPublish("created", m0)
      BY <1>1, <1>4, <2>1 DEF waitOnIMAPUpdates, FlightInv, onMessageCreated
    <3> QED  BY <1>1, <2>1, <3>1, Built
  <2>2. CASE ~nosuch
    BY <2>2 DEF waitOnIMAPUpdates
  <2> QED  BY <2>1, <2>2
<1>8. Advance \/ (pc' \in {"wait", "update"} /\ UNCHANGED at)
  BY <1>7 DEF Outcome
<1>9. /\ \A i, m : (About(i, m)' <=> About(i, m)) /\ (Final(i, m)' <=> Final(i, m))
      /\ \A m : JustCreated(m)' <=> JustCreated(m)
  BY <1>5 DEF About, Final, JustCreated
<1>10. \A m : (Pending(m)' <=> Pending(m)) /\ (Rewritten(m)' <=> Rewritten(m))
  <2>1. \A i \in 1 .. Len(events) : Ahead(i)' <=> Ahead(i)
    BY <1>1, <1>3, <1>8 DEF Ahead, Advance, InFlight
  <2> QED  BY <1>5, <1>9, <2>1 DEF Pending, Rewritten
<1>11. /\ failed' \subseteq Msgs /\ chan' \in [Addrs -> Updates \cup {None}] /\ nosuch' \in BOOLEAN
       /\ \A m : m # m0 \/ ~nosuch => (m \in failed' <=> m \in failed)
  BY <1>1, <1>2, <1>7 DEF Outcome, MsgType
<1>12. MsgType'
  BY <1>1, <1>2, <1>8, <1>11, HandlerTypes
<1>13. PICK u : u = Upd("created", m0, remote[m0])
  OBVIOUS
<1>14. Lives(m0) => /\ u.op = "created" /\ u.id = m0 /\ u # None /\ u.copy \in Copies
                    /\ u.copy.body = remote[m0].body /\ u.copy = Copy(m0)
  <2>1. u.copy = Copy(m0)
    BY <1>13, UpdIsCopy
  <2>2. Lives(m0) => remote[m0] \in Metas
    BY <1>1, LivesMeta
  <2> QED  BY <1>13, <2>1, <2>2, UpdIsUpdate
<1>15. \A c \in Addrs : chan'[c] # None => /\ nosuch /\ Lives(m0) /\ c = Home(m0) /\ pc' = "wait"
       /\ UNCHANGED at
                                          /\ c \in conns /\ chan'[c] = u
                                          /\ \A d \in Addrs : chan'[d] # None => d = c
  BY <1>1, <1>7, <1>13 DEF Outcome
<1>16. nosuch => Event.act = "flags" /\ \A c \in conns : Mine(c, m0) => gluon[c][m0] = None
  BY <1>1, <1>4 DEF FlightInv
<1>17. FlightInv'
  <2>1. CASE pc' = "next"
    BY <1>2, <1>15, <2>1, NothingFlies
  <2>2. CASE pc' = "wait" /\ UNCHANGED at
    <3>1. Event' = Event
      BY <1>5, <2>2 DEF Event
    <3>2. ASSUME NEW c \in Addrs, chan'[c] # None PROVE ChanOf(c)'
      <4>1. /\ Lives(m0) /\ c = Home(m0) /\ c \in conns /\ chan'[c] = u /\ gluon[c][m0] = None
             /\ Event.act = "flags"
            /\ \A d \in Addrs : chan'[d] # None => d = c
        BY <1>15, <1>16, <3>2 DEF Mine
      <4> QED  BY <1>4, <1>5, <1>6, <1>14, <2>2, <3>1, <4>1 DEF ChanOf
    <3> QED  BY <1>2, <1>3, <2>2, <3>1, <3>2 DEF FlightInv, InFlight
  <2> QED  BY <1>7, <2>1, <2>2 DEF Outcome, Advance
<1>18. ASSUME NEW m \in Msgs, m # m0 \/ ~nosuch PROVE Untouched(m)
  BY <1>4, <1>10, <1>11, <1>14, <1>15, <1>18 DEF Untouched, Sent
<1>19. ASSUME nosuch PROVE MessageOf(m0)'
  <2>1. MessageOf(m0)
    BY DEF IInv, MessageInv
  <2>2. Lives(m0) /\ m0 \in failed' => <<m0, remote[m0].body>> \in broken
    BY <1>7, <1>19 DEF Outcome
  <2> QED  BY <1>3, <1>4, <1>5, <1>6, <1>9, <2>1, <2>2 DEF MessageOf
<1>20. ASSUME nosuch, NEW c \in conns PROVE GluonOf(c, m0)'
  <2>1. GluonOf(c, m0) /\ c \in Addrs /\ ~Sent(c, m0) /\ (Mine(c, m0) => gluon[c][m0] = None)
    BY <1>1, <1>16, <1>20 DEF IInv, GluonInv, Sent
  <2>2. CopyOf(c, m0)'
    BY <1>5, <1>6, <1>10, <2>1 DEF GluonOf, CopyOf
  <2>3. BodyOf(c, m0)' /\ FirstOf(c, m0)'
    BY <1>5, <1>6, <2>1 DEF BodyOf, FirstOf
  <2>4. Mine(c, m0) => m0 \in failed' \/ Sent(c, m0)'
    BY <1>7, <1>13, <1>14, <1>20, <2>1 DEF Outcome, Mine, Sent
  <2>5. MirrorOf(c, m0)'
    BY <1>6, <2>4 DEF MirrorOf
  <2> QED  BY <2>2, <2>3, <2>5 DEF GluonOf
<1>21. \A m \in Msgs : Untouched(m) \/ (MessageOf(m)' /\ \A c \in conns : GluonOf(c, m)')
  BY <1>18, <1>19, <1>20
<1>22. ASSUME NEW c \in Addrs, NEW m \in Msgs, client # None, client.op = "append", client.c = c,
       client.m = m,
              Mine(c, m), Sent(c, m)'
       PROVE  FALSE
  <2>1. nosuch /\ m = m0
    BY <1>14, <1>15, <1>22 DEF Sent
  <2>2. AppendInv
    BY <1>22 DEF IInv, ClientInv
  <2> QED  BY <1>4, <1>22, <2>1, <2>2 DEF AppendInv, Mine
<1>23. \A c \in Addrs, m \in Msgs :
            client # None /\ client.op = "append" /\ client.c = c /\ client.m = m
            /\ Mine(c, m) /\ Sent(c, m)' /\ chan'[c].op = "created" => Event'.act = "create"
  BY <1>22
<1> QED
  BY ONLY IInv, <1>1, <1>2, <1>9, <1>12, <1>17, <1>21, <1>23, HandlerSteps

(* The batch cannot be finished, and all of it will be handled again.      *)
LEMMA BatchFailsInv ==
  ASSUME IInv, Fetches, BatchFails, UNCHANGED <<mode, broken>>
  PROVE  IInv'
<1>1. /\ MsgType /\ FlightInv /\ pc' = "idle" /\ batch' = 0 /\ at' = 0 /\ nosuch' = FALSE
      /\ UNCHANGED <<mode, broken, remote, born, known, events, conns, failed, chan, gluon, client, expunged,
                     uprooted, misplaced, hidden>>
  BY DEF IInv, BatchFails, server, command
<1>2. \A c \in Addrs : chan[c] = None
  BY <1>1 DEF Fetches, FlightInv, InFlight
<1>3. (pc = "next" /\ at <= batch) \/ InFlight
  BY DEF Fetches, InFlight
<1>4. nosuch => Event.id \in Msgs /\ About(at, Event.id) /\ at \in 1 .. Len(events)
  <2>1. nosuch => Event.act # "label"
    BY <1>1 DEF FlightInv
  <2> QED  BY <1>3, <2>1, AtHand
<1>5. /\ \A i, m : (About(i, m)' <=> About(i, m)) /\ (Final(i, m)' <=> Final(i, m))
      /\ \A m : JustCreated(m)' <=> JustCreated(m)
      /\ \A i : Ahead(i)'
  BY <1>1 DEF About, Final, JustCreated, Ahead
<1>6. /\ \A m : (Pending(m) => Pending(m)') /\ (Rewritten(m) => Rewritten(m)')
      /\ \A m : nosuch /\ Event.id = m => Pending(m)'
  BY <1>1, <1>4, <1>5 DEF Pending, Rewritten
<1>7. /\ \A m : (Lives(m)' <=> Lives(m)) /\ Home(m)' = Home(m) /\ Copy(m)' = Copy(m)
      /\ \A c, m : (Mine(c, m)' <=> Mine(c, m)) /\ (Works(c, m)' <=> Works(c, m))
           /\ (Sent(c, m)' <=> Sent(c, m))
  BY <1>1, SameMail DEF Works, Sent
<1>8. MsgType'
  <2>1. batch' \in Nat /\ at' \in Nat /\ batch' <= Len(events') /\ at' <= batch' + 1 /\ ~InFlight'
    BY <1>1 DEF MsgType, InFlight
  <2> QED  BY <1>1, <2>1 DEF MsgType
<1>9. EventInv'
  BY <1>1, <1>5, <1>7 DEF IInv, EventInv, EventOf
<1>10. MessageInv'
  <2>1. ASSUME NEW m \in Msgs PROVE MessageOf(m)'
    <3>1. MessageOf(m)
      BY DEF IInv, MessageInv
    <3> QED  BY <1>1, <1>5, <1>6, <1>7, <3>1 DEF MessageOf
  <2>2. ASSUME NEW m \in Msgs, NEW j \in 1 .. Len(events) PROVE LabelOf(j, m)'
    <3>1. LabelOf(j, m)
      BY DEF IInv, MessageInv
    <3> QED  BY <1>1, <1>5, <1>7, <3>1 DEF LabelOf
  <2> QED  BY <1>1, <2>1, <2>2 DEF MessageInv
<1>11. FlightInv'
  BY <1>1, <1>2 DEF FlightInv, InFlight
<1>12. ClientInv'
  <2> SUFFICES ASSUME client # None PROVE ClientInv'
    BY <1>1 DEF ClientInv
  <2>1. ClientInv /\ client.c \in Addrs
    BY DEF IInv, MsgType, Commands
  <2>2. client.op = "append" => AppendInv'
    <3> SUFFICES ASSUME AppendInv PROVE AppendInv'
      BY <2>1 DEF ClientInv
    <3> QED  BY <1>1, <1>2, <1>5, <1>7, <2>1 DEF AppendInv, Sent
  <2> QED  BY <1>1, <1>5, <1>7, <2>1, <2>2 DEF ClientInv
<1>13. GluonInv'
  <2> SUFFICES ASSUME NEW c \in conns, NEW m \in Msgs PROVE GluonOf(c, m)'
    BY <1>1 DEF GluonInv
  <2>1. GluonOf(c, m) /\ ~Sent(c, m)
    BY <1>1, <1>2 DEF IInv, MsgType, GluonInv, Sent
  <2>2. CopyOf(c, m)' /\ BodyOf(c, m)' /\ FirstOf(c, m)'
    BY <1>1, <1>5, <1>6, <1>7, <2>1 DEF GluonOf, CopyOf, BodyOf, FirstOf
  <2>3. MirrorOf(c, m)'
    BY <1>1, <1>6, <1>7, <2>1 DEF GluonOf, MirrorOf
  <2> QED  BY <2>2, <2>3 DEF GluonOf
<1>14. ExpungeOnlyLast'
  BY <1>1 DEF IInv, ExpungeOnlyLast
<1> QED  BY <1>8, <1>9, <1>10, <1>11, <1>12, <1>13, <1>14 DEF IInv

(* The events of a batch are forgotten once all of them were handled.      *)
LEMMA BatchHandledInv ==
  ASSUME IInv, BatchHandled
  PROVE  IInv'
<1>1. /\ MsgType /\ FlightInv /\ pc = "next" /\ at > batch /\ pc' = "idle" /\ batch' = 0 /\ at' = 0
      /\ events' = SubSeq(events, batch + 1, Len(events))
      /\ UNCHANGED <<mode, broken, remote, born, known, conns, failed, chan, gluon, client, expunged, nosuch,
                     uprooted, misplaced, hidden>>
  BY DEF IInv, BatchHandled, account, command
<1>2. PICK b \in Nat, n \in Nat : b = batch /\ n = Len(events) - b /\ b <= Len(events) /\ Len(events) \in Nat
  <2>1. batch \in Nat /\ Len(events) \in Nat /\ batch <= Len(events)
    BY <1>1 DEF MsgType
  <2>2. Len(events) - batch \in Nat
    BY <2>1
  <2> QED  BY <2>1, <2>2
<1>3. /\ events' \in Seq(Notices) /\ Len(events') = n /\ at = b + 1
      /\ \A i \in 1 .. n : i + b \in 1 .. Len(events) /\ events'[i] = events[i + b]
  <2>1. events \in Seq(Notices) /\ at = b + 1
    BY <1>1, <1>2 DEF MsgType
  <2>2. \A i \in 1 .. n : i + b \in 1 .. Len(events)
    BY <1>2
  <2>3. Len(SubSeq(events, b + 1, Len(events))) = n
    BY <1>2, <2>1
  <2>4. \A i \in 1 .. n : SubSeq(events, b + 1, Len(events))[i] = events[i + b]
    BY <1>2, <2>1
  <2>5. SubSeq(events, b + 1, Len(events)) \in Seq(Notices)
    <3>1. \A i \in b + 1 .. Len(events) : events[i] \in Notices
      BY <1>2, <2>1
    <3> QED  BY <1>2, <2>1, <3>1
  <2> QED  BY <1>1, <1>2, <2>1, <2>2, <2>3, <2>4, <2>5
<1>4. \A j \in 1 .. Len(events) : j > b => j - b \in 1 .. n /\ (j - b) + b = j
  BY <1>2
<1>5. \A i, m : About(i, m)' <=> i \in 1 .. n /\ About(i + b, m)
  BY <1>3 DEF About
<1>6. /\ \A i : Ahead(i)'
      /\ \A i \in 1 .. Len(events) : Ahead(i) <=> i > b
      /\ \A i \in 1 .. n : Ahead(i + b)
  BY <1>1, <1>2, <1>3 DEF Ahead
<1>7. \A m : (Pending(m)' <=> Pending(m)) /\ (Rewritten(m)' <=> Rewritten(m))
  <2> SUFFICES ASSUME NEW m PROVE (Pending(m)' <=> Pending(m)) /\ (Rewritten(m)' <=> Rewritten(m))
    OBVIOUS
  <2>1. Pending(m)' => Pending(m)
    BY <1>3, <1>5, <1>6 DEF Pending
  <2>2. Rewritten(m)' => Rewritten(m)
    BY <1>3, <1>5, <1>6 DEF Rewritten
  <2>3. ASSUME Pending(m) PROVE Pending(m)'
    <3>1. PICK j \in 1 .. Len(events) : About(j, m) /\ Ahead(j)
      BY <2>3 DEF Pending
    <3>2. PICK i \in 1 .. n : i + b = j
      BY <1>4, <1>6, <3>1
    <3> QED  BY <1>3, <1>5, <1>6, <3>1, <3>2 DEF Pending
  <2>4. ASSUME Rewritten(m) PROVE Rewritten(m)'
    <3>1. PICK j \in 1 .. Len(events) : About(j, m) /\ Ahead(j) /\ events[j].act = "update"
      BY <2>4 DEF Rewritten
    <3>2. PICK i \in 1 .. n : i + b = j
      BY <1>4, <1>6, <3>1
    <3> QED  BY <1>3, <1>5, <1>6, <3>1, <3>2 DEF Rewritten
  <2> QED  BY <2>1, <2>2, <2>3, <2>4
<1>8. \A i, m : Final(i, m)' => i \in 1 .. n /\ Final(i + b, m)
  <2> SUFFICES ASSUME NEW i, NEW m, Final(i, m)' PROVE i \in 1 .. n /\ Final(i + b, m)
    OBVIOUS
  <2>1. i \in 1 .. n /\ About(i + b, m)
    BY <1>5 DEF Final
  <2>2. ASSUME NEW j \in 1 .. Len(events), About(j, m) PROVE j <= i + b
    <3>1. CASE j <= b
      BY <1>2, <2>1, <3>1
    <3>2. CASE j > b
      <4>1. PICK k \in 1 .. n : k + b = j
        BY <1>4, <3>2
      <4>2. k <= i
        BY <1>3, <1>5, <2>2, <4>1 DEF Final
      <4> QED  BY <1>2, <2>1, <4>1, <4>2
    <3> QED  BY <1>2, <3>1, <3>2
  <2> QED  BY <2>1, <2>2 DEF Final
<1>9. \A m : JustCreated(m)' => JustCreated(m)
  BY <1>3, <1>8 DEF JustCreated
<1>10. /\ \A m : (Lives(m)' <=> Lives(m)) /\ Home(m)' = Home(m) /\ Copy(m)' = Copy(m)
       /\ \A c, m : (Mine(c, m)' <=> Mine(c, m)) /\ (Works(c, m)' <=> Works(c, m))
            /\ (Sent(c, m)' <=> Sent(c, m))
  BY <1>1, SameMail DEF Works, Sent
<1>11. nosuch = FALSE /\ \A c \in Addrs : chan[c] = None
  BY <1>1 DEF FlightInv, InFlight
<1>12. MsgType'
  <2>1. batch' \in Nat /\ at' \in Nat /\ batch' <= Len(events') /\ at' <= batch' + 1 /\ ~InFlight'
    BY <1>1, <1>3 DEF InFlight
  <2> QED  BY <1>1, <1>3, <2>1 DEF MsgType
<1>13. EventInv'
  <2> SUFFICES ASSUME NEW i \in 1 .. n PROVE EventOf(i)'
    BY <1>3 DEF EventInv
  <2>1. EventOf(i + b) /\ events'[i] = events[i + b]
    BY <1>3 DEF IInv, EventInv
  <2>2. PICK m : m = events[i + b].id
    OBVIOUS
  <2>3. Final(i, m)' => Final(i + b, m)
    BY <1>8
  <2>4. (\A j \in 1 .. Len(events) : About(j, m) => i + b <= j) => \A j \in 1 .. n : About(j, m)' => i <= j
    <3> SUFFICES ASSUME \A j \in 1 .. Len(events) : About(j, m) => i + b <= j, NEW j \in 1 .. n, About(j, m)'
                 PROVE  i <= j
      OBVIOUS
    <3>1. i + b <= j + b
      BY <1>3, <1>5
    <3> QED  BY <1>2, <3>1
  <2> QED  BY <1>1, <1>3, <1>10, <2>1, <2>2, <2>3, <2>4 DEF EventOf
<1>14. MessageInv'
  <2>1. ASSUME NEW m \in Msgs PROVE MessageOf(m)'
    <3>1. MessageOf(m)
      BY DEF IInv, MessageInv
    <3> QED  BY <1>1, <1>7, <1>9, <1>10, <3>1 DEF MessageOf
  <2>2. ASSUME NEW m \in Msgs, NEW j \in 1 .. n PROVE LabelOf(j, m)'
    <3>1. LabelOf(j + b, m) /\ events'[j] = events[j + b]
      BY <1>3 DEF IInv, MessageInv
    <3> SUFFICES ASSUME Lives(m)', events'[j].act = "label", events'[j].id \in remote[m].labels \ known
                 PROVE  \E i \in 1 .. n : About(i, m)' /\ i > j
      BY <1>1, <1>3 DEF LabelOf
    <3>2. PICK k \in 1 .. Len(events) : About(k, m) /\ k > j + b
      BY <1>10, <3>1 DEF LabelOf
    <3>3. PICK i \in 1 .. n : i + b = k
      BY <1>2, <1>4, <3>2
    <3>4. About(i, m)' /\ i > j
      BY <1>2, <1>5, <3>2, <3>3
    <3> QED  BY <3>4
  <2> QED  BY <1>3, <2>1, <2>2 DEF MessageInv
<1>15. FlightInv'
  BY <1>1, <1>11 DEF FlightInv, InFlight
<1>16. ClientInv'
  <2> SUFFICES ASSUME client # None PROVE ClientInv'
    BY <1>1 DEF ClientInv
  <2>1. ClientInv /\ client.c \in Addrs
    BY DEF IInv, MsgType, Commands
  <2>2. client.op = "append" => AppendInv'
    <3> SUFFICES ASSUME AppendInv PROVE AppendInv'
      BY <2>1 DEF ClientInv
    <3> QED  BY <1>1, <1>9, <1>10, <1>11, <2>1 DEF AppendInv, Sent
  <2> QED  BY <1>1, <1>9, <1>10, <2>1, <2>2 DEF ClientInv
<1>17. GluonInv'
  <2> SUFFICES ASSUME NEW c \in conns, NEW m \in Msgs PROVE GluonOf(c, m)'
    BY <1>1 DEF GluonInv
  <2>1. GluonOf(c, m)
    BY DEF IInv, GluonInv
  <2>2. CopyOf(c, m)' /\ BodyOf(c, m)' /\ FirstOf(c, m)'
    BY <1>1, <1>7, <1>9, <1>10, <2>1 DEF GluonOf, CopyOf, BodyOf, FirstOf
  <2>3. MirrorOf(c, m)'
    BY <1>1, <1>7, <1>10, <1>11, <2>1 DEF GluonOf, MirrorOf
  <2> QED  BY <2>2, <2>3 DEF GluonOf
<1>18. ExpungeOnlyLast'
  BY <1>1 DEF IInv, ExpungeOnlyLast
<1> QED  BY <1>12, <1>13, <1>14, <1>15, <1>16, <1>17, <1>18 DEF IInv

(* The labels of a batch become known.  A message that has one of them has  *)
(* an event ahead, unless it was only created.                             *)
LEMMA PollInv ==
  ASSUME IInv, Poll
  PROVE  IInv'
<1>1. /\ MsgType /\ EventInv /\ FlightInv /\ pc = "idle" /\ pc' = "next" /\ at' = 1
      /\ UNCHANGED <<mode, broken, remote, born, events, conns, failed, chan, gluon, client, expunged, nosuch,
                     uprooted, misplaced, hidden>>
  BY DEF IInv, Poll, account, server, command
<1>2. PICK b : b = batch'
  OBVIOUS
<1>2a. b \in Nat /\ b <= Len(events) /\ Len(events) \in Nat
  BY <1>1, <1>2, MessagesAssumption DEF MsgType, Poll
<1>3. known \subseteq known' /\ known' \subseteq known \cup LabelsIn(b)
  BY <1>2 DEF Poll
<1>4. ASSUME NEW x \in LabelsIn(b)
      PROVE  x \in born /\ \E j \in 1 .. Len(events) : events[j].act = "label" /\ events[j].id = x
  <2>1. PICK j \in 1 .. b : events[j].act = "label" /\ events[j].id = x
    BY <1>4 DEF LabelsIn
  <2>2. j \in 1 .. Len(events)
    BY <1>2a
  <2> QED  BY <1>1, <2>1, <2>2, EventHere DEF EventOf
<1>5. known' \subseteq born
  BY <1>1, <1>3, <1>4 DEF MsgType
<1>6. /\ \A i, m : (About(i, m)' <=> About(i, m)) /\ (Final(i, m)' <=> Final(i, m))
      /\ \A m : JustCreated(m)' <=> JustCreated(m)
  BY <1>1 DEF About, Final, JustCreated
<1>7. \A i \in 1 .. Len(events) : Ahead(i) /\ Ahead(i)'
  BY <1>1 DEF Ahead
<1>8. \A m : (Pending(m)' <=> Pending(m)) /\ (Rewritten(m)' <=> Rewritten(m))
  BY <1>1, <1>6, <1>7 DEF Pending, Rewritten
<1>9. /\ \A m : (Lives(m)' <=> Lives(m)) /\ Home(m)' = Home(m)
      /\ \A c, m : (Mine(c, m)' <=> Mine(c, m)) /\ (Works(c, m)' <=> Works(c, m))
           /\ (Sent(c, m)' <=> Sent(c, m))
  BY <1>1 DEF Works, Sent, Lives, Home, Mine
<1>10. nosuch = FALSE /\ \A c \in Addrs : chan[c] = None
  BY <1>1 DEF FlightInv, InFlight
<1>11. ASSUME NEW m \in Msgs, Lives(m), ~Pending(m) \/ JustCreated(m) PROVE Copy(m)' = Copy(m)
  <2>1. ASSUME NEW x \in remote[m].labels PROVE x \in System \cup known' <=> x \in System \cup known
    <3>1. CASE JustCreated(m)
      <4>1. remote[m].labels \subseteq System \cup known
        BY <1>11, <3>1 DEF IInv, MessageInv, MessageOf
      <4> QED  BY <1>3, <4>1
    <3>2. CASE ~Pending(m)
      <4> SUFFICES ASSUME x \in LabelsIn(b), x \notin known PROVE FALSE
        BY <1>3
      <4>1. PICK j \in 1 .. Len(events) : events[j].act = "label" /\ events[j].id = x
        BY <1>4
      <4>2. LabelOf(j, m)
        BY DEF IInv, MessageInv
      <4>3. \E i \in 1 .. Len(events) : About(i, m)
        BY <1>11, <4>1, <4>2 DEF LabelOf
      <4> QED  BY <1>7, <3>2, <4>3 DEF Pending
    <3> QED  BY <1>11, <3>1, <3>2
  <2>2. remote[m].labels \cap (System \cup known') = remote[m].labels \cap (System \cup known)
    BY <2>1
  <2> QED  BY <1>1, <2>2 DEF Copy, wantLabels, BuildFlagSetFromMessageMetadata, WantLabel
<1>12. MsgType'
  <2>1. batch' \in Nat /\ at' \in Nat /\ batch' <= Len(events') /\ at' <= batch' + 1 /\ ~InFlight' /\ at' >= 1
    <3>1. batch' = b /\ events' = events /\ at' = 1 /\ ~InFlight'
      BY <1>1, <1>2 DEF InFlight
    <3>2. b \in Nat /\ b <= Len(events) /\ 1 \in Nat /\ 1 <= b + 1
      BY <1>2a
    <3> QED  BY ONLY <3>1, <3>2
  <2> QED  BY <1>1, <1>5, <2>1 DEF MsgType
<1>13. EventInv'
  BY <1>1, <1>6, <1>9 DEF EventInv, EventOf
<1>14. MessageInv'
  <2>1. ASSUME NEW m \in Msgs PROVE MessageOf(m)'
    <3>1. MessageOf(m)
      BY DEF IInv, MessageInv
    <3> QED  BY <1>1, <1>3, <1>6, <1>8, <1>9, <3>1 DEF MessageOf
  <2>2. ASSUME NEW m \in Msgs, NEW j \in 1 .. Len(events) PROVE LabelOf(j, m)'
    <3>1. LabelOf(j, m)
      BY DEF IInv, MessageInv
    <3> QED  BY <1>1, <1>3, <1>6, <1>9, <3>1 DEF LabelOf
  <2> QED  BY <1>1, <2>1, <2>2 DEF MessageInv
<1>15. FlightInv'
  BY <1>1, <1>10 DEF FlightInv, InFlight
<1>16. ClientInv'
  <2> SUFFICES ASSUME client # None PROVE ClientInv'
    BY <1>1 DEF ClientInv
  <2>1. ClientInv /\ client.c \in Addrs
    BY <1>1 DEF IInv, MsgType, Commands
  <2>2. client.op = "append" => AppendInv'
    <3> SUFFICES ASSUME AppendInv PROVE AppendInv'
      BY <2>1 DEF ClientInv
    <3> QED  BY <1>1, <1>3, <1>6, <1>9, <1>10, <2>1 DEF AppendInv, Sent
  <2> QED  BY <1>1, <1>6, <1>9, <2>1, <2>2 DEF ClientInv
<1>17. GluonInv'
  <2> SUFFICES ASSUME NEW c \in conns, NEW m \in Msgs PROVE GluonOf(c, m)'
    BY <1>1 DEF GluonInv
  <2>1. GluonOf(c, m) /\ ~Sent(c, m)
    BY <1>1, <1>10 DEF IInv, MsgType, GluonInv, Sent
  <2>2. CopyOf(c, m)' /\ BodyOf(c, m)'
    BY <1>1, <1>6, <1>8, <1>9, <2>1 DEF GluonOf, CopyOf, BodyOf
  <2>3. Mine(c, m) /\ (~Pending(m) \/ JustCreated(m)) => Copy(m)' = Copy(m)
    BY <1>11 DEF Mine
  <2>4. FirstOf(c, m)'
    BY <1>1, <1>6, <1>9, <2>1, <2>3 DEF GluonOf, FirstOf
  <2>5. MirrorOf(c, m)'
    BY <1>1, <1>8, <1>9, <1>10, <2>1, <2>3 DEF GluonOf, MirrorOf
  <2> QED  BY <2>2, <2>4, <2>5 DEF GluonOf
<1>18. ExpungeOnlyLast'
  BY <1>1 DEF IInv, ExpungeOnlyLast
<1> QED  BY <1>12, <1>13, <1>14, <1>15, <1>16, <1>17, <1>18 DEF IInv

(* Steps that change nothing of the messages: the end of a sync, and the   *)
(* address that the identity forgets.                                      *)
LEMMA SameInv ==
  ASSUME IInv, UNCHANGED <<mode, broken, remote, born, known, events, batch, at, pc, conns, nosuch, failed,
                           chan, gluon, client, expunged, uprooted, misplaced, hidden>>
  PROVE  IInv'
<1>1. UNCHANGED <<mode, broken, remote, born, known, events, batch, at, pc, conns, nosuch, failed,
                  chan, gluon, client, expunged, uprooted, misplaced, hidden>>
  OBVIOUS
<1>2. ExpungeOnlyLast' /\ client' \in Commands \cup {None} /\ \A c, m : Works(c, m)' => Works(c, m)
  BY <1>1 DEF IInv, MsgType, ExpungeOnlyLast, Works
<1>3. /\ \A m : JustCreated(m)' <=> JustCreated(m)
      /\ Event' = Event
  BY <1>1, SameQueue
<1>4. \A m : (Lives(m)' <=> Lives(m)) /\ Home(m)' = Home(m)
  BY <1>1, SameMail
<1>5. ClientInv'
  BY <1>1, <1>3, <1>4 DEF IInv, ClientInv, AppendInv, Sent
<1> QED  BY <1>1, <1>2, <1>5, CommandSteps

(* A connector goes, and no command was at work in it.                     *)
LEMMA RemoveAddressInv ==
  ASSUME IInv, NEW a \in Addrs, mode = "split", pc = "idle", a # Primary, removeAddressSplitMode(a),
         UNCHANGED <<mode, broken, server, known, batch, at, pc, nosuch, failed, command, chan>>
  PROVE  IInv'
<1>1. /\ MsgType /\ FlightInv /\ mode = "split" /\ pc = "idle" /\ a # Primary /\ ~Busy(a)
      /\ conns' = conns \ {a} /\ gluon' = [gluon EXCEPT ![a] = [m \in Msgs |-> None]]
      /\ UNCHANGED <<mode, broken, remote, born, known, events, batch, at, pc, nosuch, failed,
                     chan, client, expunged, uprooted, misplaced, hidden>>
  BY DEF IInv, removeAddressSplitMode, server, command
<1>2. /\ \A i, m : (About(i, m)' <=> About(i, m)) /\ (Final(i, m)' <=> Final(i, m))
      /\ \A m : (Pending(m)' <=> Pending(m)) /\ (Rewritten(m)' <=> Rewritten(m))
      /\ \A m : JustCreated(m)' <=> JustCreated(m)
      /\ Event' = Event /\ (InFlight' <=> InFlight)
  BY <1>1, SameQueue
<1>3. /\ \A m : (Lives(m)' <=> Lives(m)) /\ Home(m)' = Home(m) /\ Copy(m)' = Copy(m)
      /\ \A c, m : (Mine(c, m)' <=> Mine(c, m)) /\ (Sent(c, m)' <=> Sent(c, m))
           /\ (Works(c, m)' <=> Works(c, m))
  BY <1>1, SameMail DEF Sent, Works
<1>4. gluon' \in [Addrs -> [Msgs -> Copies \cup {None}]] /\ \A c \in Addrs : c # a => gluon'[c] = gluon[c]
  BY <1>1 DEF MsgType
<1>5. MsgType'
  BY <1>1, <1>2, <1>4 DEF MsgType
<1>6. EventInv'
  BY <1>1, <1>2, <1>3 DEF IInv, EventInv, EventOf
<1>7. MessageInv'
  BY <1>1, <1>2, <1>3 DEF IInv, MessageInv, MessageOf, LabelOf
<1>8. FlightInv'
  BY <1>1 DEF FlightInv, InFlight
<1>9. client # None => client.c # a
  BY <1>1 DEF Busy
<1>10. ClientInv'
  <2> SUFFICES ASSUME client # None PROVE ClientInv'
    BY <1>1 DEF ClientInv
  <2>1. ClientInv /\ client.c \in Addrs
    BY DEF IInv, MsgType, Commands
  <2>2. client.op = "append" => AppendInv'
    <3> SUFFICES ASSUME AppendInv PROVE AppendInv'
      BY <2>1 DEF ClientInv
    <3> QED  BY <1>1, <1>2, <1>3 DEF AppendInv
  <2> QED  BY <1>1, <1>2, <1>3, <1>4, <1>9, <2>1, <2>2 DEF ClientInv
<1>11. GluonInv'
  <2> SUFFICES ASSUME NEW c \in conns \ {a}, NEW m \in Msgs PROVE GluonOf(c, m)'
    BY <1>1 DEF GluonInv
  <2>1. GluonOf(c, m) /\ gluon'[c] = gluon[c]
    BY <1>1, <1>4 DEF IInv, MsgType, GluonInv
  <2>2. CopyOf(c, m)' /\ BodyOf(c, m)' /\ FirstOf(c, m)'
    BY <1>1, <1>2, <1>3, <2>1 DEF GluonOf, CopyOf, BodyOf, FirstOf
  <2>3. MirrorOf(c, m)'
    BY <1>1, <1>2, <1>3, <2>1 DEF GluonOf, MirrorOf
  <2> QED  BY <2>2, <2>3 DEF GluonOf
<1>12. ExpungeOnlyLast'
  BY <1>1 DEF IInv, ExpungeOnlyLast
<1> QED  BY <1>5, <1>6, <1>7, <1>8, <1>10, <1>11, <1>12 DEF IInv

LEMMA AddressInv ==
  ASSUME IInv, NEW a \in Addrs, OnAddressDisabled(a) \/ OnAddressDeleted(a)
  PROVE  IInv'
<1>1. CASE OnAddressDisabled(a)
  BY <1>1, RemoveAddressInv DEF OnAddressDisabled, account
<1>2. CASE OnAddressDeleted(a) /\ mode = "split"
  BY <1>2, RemoveAddressInv DEF OnAddressDeleted
<1>3. CASE OnAddressDeleted(a) /\ mode # "split"
  BY <1>3, SameInv DEF OnAddressDeleted, server, command
<1> QED  BY <1>1, <1>2, <1>3

-----------------------------------------------------------------------------
(* Gluon applies an update.  That of the last event about a message makes  *)
(* the copy what it should be.                                             *)
LEMMA GluonAppliesInv ==
  ASSUME IInv, NEW c0 \in Addrs, GluonApplies(c0)
  PROVE  IInv'
<1>1. /\ MsgType /\ FlightInv /\ chan[c0] # None /\ ~Busy(c0) /\ ChanOf(c0) /\ InFlight /\ nosuch = FALSE
  BY DEF IInv, GluonApplies, FlightInv
<1>2. /\ EventOf(at) /\ Event = events[at] /\ at \in 1 .. Len(events) /\ at \in Nat /\ Event.act # "label"
      /\ Event.act \in Acts
      /\ Event.id \in Msgs /\ remote[Event.id] # Unborn /\ About(at, Event.id)
  BY <1>1, AtHand DEF FlightInv
<1>3a. PICK m0 \in Msgs : m0 = Event.id
  BY <1>2
<1>3. PICK u, has : m0 = Event.id /\ u = chan[c0] /\ has = gluon[c0][m0]
  BY <1>3a
<1>4. u.id = m0 /\ u \in Updates /\ c0 \in conns /\ has \in Copies \cup {None}
  BY <1>1, <1>3 DEF ChanOf, MsgType
<1>5. PICK new : new = CASE u.op = "deleted" -> None
                [] u.op = "updated" \/ (u.op = "created" /\ has = None) -> u.copy
                [] u.op = "created" /\ has # None -> [has EXCEPT !.boxes = @ \cup u.copy.boxes]
                [] u.op = "mailboxes" -> IF has = None THEN None ELSE [u.copy EXCEPT !.body = has.body]
  OBVIOUS
<1>6. /\ chan' = [chan EXCEPT ![c0] = None]
      /\ nosuch' = (u.op = "mailboxes" /\ has = None)
      /\ gluon' = [gluon EXCEPT ![c0][m0] = new]
      /\ UNCHANGED <<mode, broken, remote, born, known, events, batch, at, pc, conns, failed,
                     client, expunged, uprooted, misplaced, hidden>>
  <2>1. gluon' = [gluon EXCEPT ![c0][m0] = new]
    <3>1. u = chan[c0] /\ m0 = chan[c0].id /\ has = gluon[c0][chan[c0].id]
      BY <1>3, <1>4
    <3> QED  BY <1>5, <3>1 DEF GluonApplies
  <2>2. nosuch' = (u.op = "mailboxes" /\ has = None)
    BY <1>1, <1>3, <1>4 DEF GluonApplies
  <2> QED  BY <2>1, <2>2 DEF GluonApplies, account, server, command
<1>7. /\ Event.act = "delete" => u.op = "deleted" /\ remote[m0] = Gone
      /\ Event.act # "delete" =>
           /\ u.op \in IF pc = "update" THEN {"mailboxes"} ELSE {"created", "updated"}
           /\ u.copy \in Copies
           /\ \A d \in Addrs : chan[d] # None => d = c0
           /\ Event.act = "create" => u.op = "created"
           /\ u.op = "created" /\ Event.act # "create" => has = None
           /\ Lives(m0) =>
                /\ c0 = Home(m0)
                /\ u.op # "mailboxes" => u.copy.body = remote[m0].body \/ Rewritten(m0)
                /\ ~Pending(m0) => u.copy = Copy(m0)
  BY <1>1, <1>2, <1>3 DEF ChanOf, EventOf
<1>8. /\ u.op = "deleted" => new = None
      /\ u.op = "updated" \/ (u.op = "created" /\ has = None) => new = u.copy
      /\ u.op = "created" /\ has # None => new = [has EXCEPT !.boxes = @ \cup u.copy.boxes]
      /\ u.op = "mailboxes" => new = IF has = None THEN None ELSE [u.copy EXCEPT !.body = has.body]
  BY <1>5
<1>9. /\ new \in Copies \cup {None}
      /\ u.op = "created" /\ has # None => new.body = has.body
      /\ u.op = "mailboxes" /\ has # None => new.body = has.body
  <2>1. CASE Event.act = "delete"
    BY <1>7, <1>8, <2>1
  <2>2. CASE Event.act # "delete"
    <3>1. u.copy \in Copies /\ u.op \in {"created", "updated", "mailboxes"}
      BY <1>7, <2>2
    <3>2. has # None => has \in Copies
      BY <1>4
    <3>3. CASE u.op = "created" /\ has # None
      <4>1. has.boxes \cup u.copy.boxes \in SUBSET Boxes
        BY <3>1, <3>2, <3>3 DEF Copies
      <4> QED  BY <1>8, <3>2, <3>3, <4>1 DEF Copies
    <3>4. CASE u.op = "mailboxes" /\ has # None
      BY <1>8, <3>1, <3>2, <3>4 DEF Copies
    <3> QED  BY <1>8, <3>1, <3>3, <3>4
  <2> QED  BY <2>1, <2>2
<1>10. /\ gluon' \in [Addrs -> [Msgs -> Copies \cup {None}]] /\ gluon'[c0][m0] = new
       /\ \A c \in Addrs, m \in Msgs : ~(c = c0 /\ m = m0) => gluon'[c][m] = gluon[c][m]
       /\ chan' \in [Addrs -> Updates \cup {None}] /\ chan'[c0] = None
       /\ \A c \in Addrs : c # c0 => chan'[c] = chan[c]
  BY <1>1, <1>6, <1>9 DEF MsgType
<1>11. /\ \A i, m : (About(i, m)' <=> About(i, m)) /\ (Final(i, m)' <=> Final(i, m))
       /\ \A m : (Pending(m)' <=> Pending(m)) /\ (Rewritten(m)' <=> Rewritten(m))
       /\ \A m : JustCreated(m)' <=> JustCreated(m)
       /\ Event' = Event /\ (InFlight' <=> InFlight)
  BY <1>6, SameQueue
<1>12. /\ \A m : (Lives(m)' <=> Lives(m)) /\ Home(m)' = Home(m) /\ Copy(m)' = Copy(m)
       /\ \A c, m : (Mine(c, m)' <=> Mine(c, m)) /\ (Works(c, m)' <=> Works(c, m))
  BY <1>6, SameMail DEF Works
<1>13. \A c \in Addrs, m \in Msgs : ~(c = c0 /\ m = m0) => (Sent(c, m)' <=> Sent(c, m))
  BY <1>3, <1>4, <1>10 DEF Sent
<1>14. MsgType'
  BY <1>1, <1>6, <1>10, <1>11 DEF MsgType
<1>15. EventInv'
  BY <1>6, <1>11, <1>12 DEF IInv, EventInv, EventOf
<1>16. MessageInv'
  BY <1>6, <1>11, <1>12 DEF IInv, MessageInv, MessageOf, LabelOf
(* The event at hand is the last one about its message, if none is ahead.  *)
<1>17. ~Pending(m0) => Final(at, m0)
  <2>1. \A i \in 1 .. Len(events) : Ahead(i) <=> i > at
    BY <1>1, <1>2 DEF Ahead, InFlight
  <2>2. ~Pending(m0) => \A j \in 1 .. Len(events) : About(j, m0) => j <= at
    BY <1>2, <2>1 DEF Pending
  <2> QED  BY <1>2, <1>3, <2>2 DEF Final
<1>18. JustCreated(m0) => Event.act = "create" /\ ~Pending(m0)
  <2> SUFFICES ASSUME JustCreated(m0) PROVE Event.act = "create" /\ ~Pending(m0)
    OBVIOUS
  <2>1. PICK i \in 1 .. Len(events) : Final(i, m0) /\ events[i].act = "create"
    BY DEF JustCreated
  <2>2. EventOf(i) /\ events[i].id = m0
    BY <1>1, <2>1, EventHere DEF IInv, Final, About
  <2>3. i <= at /\ at <= i
    BY <1>2, <1>3, <2>1, <2>2 DEF EventOf, Final
  <2>4. i = at
    BY <1>2, <2>1, <2>3
  <2>5. \A j \in 1 .. Len(events) : About(j, m0) => ~Ahead(j)
    BY <1>1, <1>2, <2>1, <2>4 DEF Final, Ahead, InFlight
  <2> QED  BY <1>2, <2>1, <2>4, <2>5 DEF Pending
<1>19. FlightInv'
  <2>1. ASSUME nosuch' PROVE /\ pc = "update" /\ (\A c \in Addrs : chan'[c] = None)
                             /\ \A c \in conns : Mine(c, m0) => gluon'[c][m0] = None
    <3>1. u.op = "mailboxes" /\ has = None /\ Event.act # "delete"
      BY <1>6, <1>7, <2>1
    <3>2. new = None /\ pc = "update" /\ \A d \in Addrs : chan[d] # None => d = c0
      BY <1>7, <1>8, <3>1
    <3> QED  BY <1>7, <1>10, <3>1, <3>2 DEF Mine
  <2>2. ASSUME NEW c \in Addrs, chan'[c] # None PROVE ChanOf(c)'
    <3>1. c # c0 /\ chan'[c] = chan[c] /\ chan[c] # None
      BY <1>10, <2>2
    <3>2. Event.act = "delete" /\ ChanOf(c)
      BY <1>1, <1>7, <3>1 DEF FlightInv
    <3> QED  BY <1>6, <1>11, <3>1, <3>2 DEF ChanOf
  <2> QED  BY <1>1, <1>3, <1>6, <1>11, <1>12, <2>1, <2>2 DEF FlightInv
<1>20. client # None => client.c # c0
  BY <1>1 DEF Busy
<1>21. ClientInv'
  <2> SUFFICES ASSUME client # None PROVE ClientInv'
    BY <1>6 DEF ClientInv
  <2>1. ClientInv /\ client.c \in Addrs /\ client.m \in Msgs
    BY DEF IInv, MsgType, Commands
  <2>2. gluon'[client.c][client.m] = gluon[client.c][client.m] /\ chan'[client.c] = chan[client.c]
    BY <1>10, <1>20, <2>1
  <2>3. Lives(client.m) /\ client.c = Home(client.m) /\ nosuch' => Event.id # client.m
    BY <1>3, <1>6, <1>7, <1>20
  <2>4. client.op = "append" => AppendInv'
    <3> SUFFICES ASSUME AppendInv PROVE AppendInv'
      BY <2>1 DEF ClientInv
    <3> QED  BY <1>6, <1>11, <1>12, <2>2, <2>3 DEF AppendInv, Sent
  <2> QED  BY <1>6, <1>11, <1>12, <2>1, <2>2, <2>4 DEF ClientInv
<1>22. ASSUME NEW c \in conns, NEW m \in Msgs, ~(c = c0 /\ m = m0) PROVE GluonOf(c, m)'
  <2>1. GluonOf(c, m) /\ c \in Addrs
    BY <1>1 DEF IInv, GluonInv, MsgType
  <2>2. gluon'[c][m] = gluon[c][m] /\ (Sent(c, m)' <=> Sent(c, m)) /\ (Sent(c, m) => chan'[c] = chan[c])
    BY <1>3, <1>4, <1>10, <1>13, <1>22, <2>1 DEF Sent
  <2>3. CopyOf(c, m)' /\ BodyOf(c, m)' /\ FirstOf(c, m)'
    BY <1>6, <1>11, <1>12, <2>1, <2>2 DEF GluonOf, CopyOf, BodyOf, FirstOf
  <2>4. MirrorOf(c, m)'
    BY <1>1, <1>6, <1>11, <1>12, <2>1, <2>2 DEF GluonOf, MirrorOf
  <2> QED  BY <2>3, <2>4 DEF GluonOf
<1>23. GluonOf(c0, m0)'
  <2>1. GluonOf(c0, m0) /\ Sent(c0, m0)
    BY <1>1, <1>3, <1>4 DEF IInv, GluonInv, Sent
  <2>2. CASE Event.act = "delete"
    <3>1. new = None /\ ~Lives(m0) /\ gluon'[c0][m0] = None
      BY <1>7, <1>8, <1>10, <2>2 DEF Lives
    <3> QED  BY <1>12, <3>1 DEF GluonOf, CopyOf, BodyOf, FirstOf, MirrorOf, Mine
  <2>3. CASE Event.act # "delete"
    <3>1. /\ u.op \in {"created", "updated", "mailboxes"} /\ u.copy \in Copies
          /\ Lives(m0) => c0 = Home(m0)
      BY <1>7, <2>3
    <3>2. remote[m0] = Gone => Pending(m0)
      BY <1>2, <1>3, <1>17, <2>3 DEF EventOf
    <3>3. CopyOf(c0, m0)'
      BY <1>2, <1>3, <1>6, <1>11, <1>12, <3>1, <3>2 DEF CopyOf
    <3>4. BodyOf(c0, m0)'
      <4> SUFFICES ASSUME Mine(c0, m0), new # None PROVE new.body = remote[m0].body \/ m0 \in failed \/ Rewritten(m0)
        BY <1>6, <1>10, <1>11, <1>12 DEF BodyOf
      <4>1. CASE u.op = "updated" \/ (u.op = "created" /\ has = None)
        BY <1>7, <1>8, <2>3, <4>1 DEF Mine
      <4>2. CASE u.op \in {"created", "mailboxes"} /\ has # None
        BY <1>3, <1>9, <2>1, <4>2 DEF GluonOf, BodyOf
      <4> QED  BY <1>8, <3>1, <4>1, <4>2
    <3>5. ASSUME Mine(c0, m0), JustCreated(m0), m0 \notin hidden PROVE new = Copy(m0)
      <4>1. u.op = "created" /\ u.copy = Copy(m0) /\ Copy(m0) \in Copies
        BY <1>1, <1>7, <1>18, <2>3, <3>5, CopyIsCopy DEF Mine
      <4>2. has = None \/ has = Copy(m0)
        BY <1>3, <2>1, <3>5 DEF GluonOf, FirstOf
      <4>3. [Copy(m0) EXCEPT !.boxes = @ \cup Copy(m0).boxes] = Copy(m0)
        BY <4>1 DEF Copies
      <4> QED  BY <1>8, <4>1, <4>2, <4>3
    <3>6. FirstOf(c0, m0)'
      BY <1>6, <1>10, <1>11, <1>12, <3>5 DEF FirstOf
    <3>7. ASSUME Mine(c0, m0), m0 \notin failed \cup hidden, ~Pending(m0)
          PROVE  (u.op = "mailboxes" /\ has = None) \/ new = Copy(m0)
      <4>1. u.copy = Copy(m0) /\ Copy(m0) \in Copies /\ Copy(m0).body = remote[m0].body
        BY <1>1, <1>7, <2>3, <3>7, CopyIsCopy DEF Mine
      <4>2. CASE u.op = "updated" \/ (u.op = "created" /\ has = None)
        BY <1>8, <4>1, <4>2
      <4>3. CASE u.op = "created" /\ has # None
        <5>1. Event.act = "create" /\ Final(at, m0)
          BY <1>7, <1>17, <2>3, <3>7, <4>3
        <5>2. JustCreated(m0)
          BY <1>2, <5>1 DEF JustCreated
        <5> QED  BY <3>5, <3>7, <5>2
      <4>4. CASE u.op = "mailboxes" /\ has # None
        <5>1. ~Rewritten(m0)
          BY <3>7 DEF Pending, Rewritten
        <5>2. has.body = remote[m0].body
          BY <1>3, <2>1, <3>7, <4>4, <5>1 DEF GluonOf, BodyOf
        <5>3. [Copy(m0) EXCEPT !.body = Copy(m0).body] = Copy(m0)
          BY <4>1 DEF Copies
        <5> QED  BY <1>8, <4>1, <4>4, <5>2, <5>3
      <4> QED  BY <3>1, <4>2, <4>3, <4>4
    <3>8. ~Works(c0, m0)
      BY <1>1 DEF Works, Busy
    <3>9. MirrorOf(c0, m0)'
      BY <1>3, <1>6, <1>10, <1>11, <1>12, <3>7, <3>8 DEF MirrorOf
    <3> QED  BY <3>3, <3>4, <3>6, <3>9 DEF GluonOf
  <2> QED  BY <2>2, <2>3
<1>24. GluonInv'
  BY <1>6, <1>22, <1>23 DEF GluonInv
<1>25. ExpungeOnlyLast'
  BY <1>6 DEF IInv, ExpungeOnlyLast
<1> QED  BY <1>14, <1>15, <1>16, <1>19, <1>21, <1>24, <1>25 DEF IInv

-----------------------------------------------------------------------------
(* The invariant holds at the start, when the message of the setup is      *)
(* mirrored.                                                               *)
LEMMA InitInv == Init => IInv
<1> SUFFICES ASSUME Init PROVE IInv
  OBVIOUS
<1>1. PICK s \in Setups :
        /\ mode = s.mode
        /\ remote = [m \in Msgs |-> IF m = s.id THEN s.meta ELSE Unborn]
        /\ gluon = [c \in Addrs |-> [m \in Msgs |->
                      IF m = s.id /\ c \in safePublishMessageUpdate(s.meta.addr)
                      THEN Copy(m) ELSE None]]
  BY DEF Init
<1>2. /\ born = UserFolders /\ known = UserFolders
      /\ events = <<>> /\ batch = 0 /\ at = 0 /\ pc = "idle"
      /\ conns = IF mode = "combined" THEN {Primary} ELSE Addrs
      /\ chan = [c \in Addrs |-> None] /\ nosuch = FALSE /\ failed = {}
      /\ client = None /\ expunged = {}
  BY DEF Init
<1>3. /\ mode \in {"combined", "split"}
      /\ s.id \in Msgs => /\ s.meta \in Metas /\ s.meta.labels \subseteq System \cup UserFolders
                          /\ s.meta.labels \cap Places # {}
  BY <1>1, MessagesAssumption
<1>4. /\ remote \in [Msgs -> Metas \cup {Unborn, Gone}]
      /\ \A m \in Msgs : m # s.id => remote[m] = Unborn /\ ~Lives(m)
      /\ \A m \in Msgs : m = s.id => remote[m] = s.meta /\ remote[m] # Unborn /\ remote[m] # Gone
  BY <1>1, <1>3, MetaIsNot DEF Lives
<1>5. /\ conns \subseteq Addrs /\ Primary \in conns /\ (mode = "combined" => conns = {Primary})
      /\ chan \in [Addrs -> Updates \cup {None}] /\ \A c \in Addrs : chan[c] = None
  BY <1>2, MessagesAssumption
<1>6. ASSUME NEW m \in Msgs, m = s.id PROVE Copy(m) \in Copies
  <2>1. remote[m] \in Metas /\ remote[m].labels \in SUBSET Boxes
    BY <1>3, <1>4, <1>6 DEF Metas
  <2>2. wantLabels(remote[m].labels) \in SUBSET Boxes
    BY <2>1, WantedBoxes
  <2>3. remote[m].seen \in BOOLEAN /\ remote[m].body \in {0, 1}
    BY <2>1 DEF Metas
  <2> QED  BY <2>2, <2>3 DEF Copy, Copies, BuildFlagSetFromMessageMetadata
<1>7. /\ gluon \in [Addrs -> [Msgs -> Copies \cup {None}]]
      /\ \A c \in Addrs, m \in Msgs :
            gluon[c][m] = IF m = s.id /\ c \in safePublishMessageUpdate(s.meta.addr) THEN Copy(m) ELSE None
  BY <1>1, <1>6
<1>8. events \in Seq(Notices) /\ Len(events) = 0 /\ \A i : i \notin 1 .. Len(events)
  BY <1>2
<1>9. MsgType
  <2>1. born \subseteq UserLabels \cup UserFolders /\ known \subseteq born
         /\ client \in Commands \cup {None} /\ failed \subseteq Msgs
    BY <1>2
  <2>2. batch \in Nat /\ at \in Nat /\ batch <= Len(events) /\ at <= batch + 1 /\ ~InFlight
    BY <1>2, <1>8 DEF InFlight
  <2> QED  BY <1>2, <1>3, <1>4, <1>5, <1>7, <1>8, <2>1, <2>2 DEF MsgType
<1>10. /\ \A i, m : ~About(i, m)
       /\ \A m : ~Pending(m) /\ ~Rewritten(m) /\ ~JustCreated(m)
  BY <1>8 DEF About, Pending, Rewritten, JustCreated
<1>11. EventInv
  BY <1>8 DEF EventInv
<1>12. MessageInv
  <2>1. ASSUME NEW m \in Msgs PROVE MessageOf(m)
    <3>1. CASE m = s.id
      BY <1>2, <1>3, <1>4, <1>10, <3>1 DEF MessageOf
    <3>2. CASE m # s.id
      BY <1>2, <1>4, <3>2 DEF MessageOf
    <3> QED  BY <3>1, <3>2
  <2> QED  BY <1>8, <2>1 DEF MessageInv
<1>13. FlightInv
  BY <1>2, <1>5 DEF FlightInv, InFlight
<1>14. ClientInv
  BY <1>2 DEF ClientInv
<1>15. GluonInv
  <2> SUFFICES ASSUME NEW c \in conns, NEW m \in Msgs PROVE GluonOf(c, m)
    BY DEF GluonInv
  <2>1. c \in Addrs /\ ~Works(c, m)
    BY <1>2, <1>5 DEF Works
  <2>2. CASE m # s.id
    BY <1>4, <1>7, <2>1, <2>2 DEF GluonOf, CopyOf, BodyOf, FirstOf, MirrorOf, Mine
  <2>3. CASE m = s.id
    <3>1. Lives(m) /\ remote[m] = s.meta
      BY <1>4, <2>3 DEF Lives
    <3>2. PICK to : to = safePublishMessageUpdate(remote[m].addr)
      OBVIOUS
    <3>3. /\ to # {} => to = {Home(m)}
          /\ to = {} => ~Mine(c, m)
      BY <1>9, <3>1, <3>2, RouteIsHome
    <3>4. gluon[c][m] = (IF c \in to THEN Copy(m) ELSE None) /\ Copy(m).body = remote[m].body
      BY <1>7, <1>9, <2>1, <2>3, <3>1, <3>2, CopyIsCopy
    <3>5. gluon[c][m] # None => c = Home(m)
      BY <3>3, <3>4
    <3>6. Mine(c, m) => gluon[c][m] = Copy(m)
      BY <3>3, <3>4 DEF Mine
    <3> QED
      BY <1>4, <2>1, <2>3, <3>4, <3>5, <3>6 DEF GluonOf, CopyOf, BodyOf, FirstOf, MirrorOf
  <2> QED  BY <2>2, <2>3
<1>16. ExpungeOnlyLast
  BY <1>2 DEF ExpungeOnlyLast
<1> QED  BY <1>9, <1>11, <1>12, <1>13, <1>14, <1>15, <1>16 DEF IInv

(* Every step keeps the invariant.                                         *)
LEMMA NextInv == IInv /\ [Next]_vars => IInv'
<1> SUFFICES ASSUME IInv, [Next]_vars PROVE IInv'
  OBVIOUS
<1>1. CASE OtherClient
  BY <1>1, OtherClientInv
<1>2. CASE HandlerStep
  <2>1. CASE WithAddrKRFails
    BY <2>1, BatchFailsInv DEF WithAddrKRFails
  <2> QED  BY <1>2, <2>1, PollInv, HandleEventInv, waitInv, BatchHandledInv
              DEF HandlerStep, HandleMessageEvents, HandleMessageEventsInSync
<1>3. CASE FetchFails
  BY <1>3, BatchFailsInv DEF FetchFails, account
<1>4. CASE SyncDone
  BY <1>4, SameInv DEF SyncDone, account, server, command
<1>5. CASE \E a \in Addrs : OnAddressDisabled(a) \/ OnAddressDeleted(a) \/ GluonApplies(a)
  BY <1>5, AddressInv, GluonAppliesInv
<1>6. CASE ClientStarts
  BY <1>6, ClientStartsInv
<1>7. CASE ClientStep
  BY <1>7, MetadataReadInv, PermaDeleteInv, unlabelInv, ClientCommitsInv DEF ClientStep
<1>8. CASE ClientFails
  BY <1>8, ClientFailsInv
<1>9. CASE UNCHANGED vars
  BY <1>9, SameInv DEF vars, account, server, handler, command
<1> QED  BY <1>1, <1>2, <1>3, <1>4, <1>5, <1>6, <1>7, <1>8, <1>9 DEF Next

(* Once a bad event is reported nothing is polled, so that the event it is *)
(* about stays in the queue.                                               *)
BadInv == badEvent => pc = "idle" /\ BadOnlyForLost

(* A command that begins tells at most one event.                          *)
LEMMA CommandBegins ==
  ASSUME ClientStarts
  PROVE  /\ UNCHANGED <<account, handler>>
         /\ events' = events \/ \E e : events' = Append(events, e)
<1>1. PICK c \in conns, m \in Msgs :
        \/ MarkMessagesSeen(c, m)
        \/ \E to : AddMessagesToMailbox(c, m, to) \/ CreateMessage(c, m, to)
        \/ \E from, to : MoveMessages(c, m, from, to)
        \/ \E from : RemoveMessagesFromMailbox(c, m, from)
  BY DEF ClientStarts
<1>2. UNCHANGED <<account, handler>>
  BY <1>1 DEF MarkMessagesSeen, AddMessagesToMailbox, CreateMessage, MoveMessages,
              RemoveMessagesFromMailbox, Begin
<1>3. events' = events \/ \E e : events' = Append(events, e)
  BY <1>1 DEF MarkMessagesSeen, AddMessagesToMailbox, CreateMessage, MoveMessages,
              RemoveMessagesFromMailbox, Set, Told, server
<1> QED  BY <1>2, <1>3

(* A step tells one more event, or leaves the queue of an idle service.    *)
LEMMA IdleQueue ==
  ASSUME pc = "idle", badEvent, [Next]_vars
  PROVE  /\ pc' = "idle" /\ badEvent' /\ lost \subseteq lost'
         /\ events' = events \/ \E e : events' = Append(events, e)
<1>1. CASE OtherClient
  BY <1>1 DEF OtherClient, Set, Told, account, handler
<1>2. CASE HandlerStep \/ FetchFails
  BY <1>2 DEF HandlerStep, Poll, HandleMessageEvents, HandleMessageEventsInSync, HandleEvent,
              waitOnIMAPUpdates, BatchHandled, WithAddrKRFails, FetchFails, Fetches
<1>3. CASE SyncDone \/ ClientFails
  BY <1>3 DEF SyncDone, ClientFails, account, server, handler
<1>4. CASE \E a \in Addrs : OnAddressDisabled(a) \/ OnAddressDeleted(a) \/ GluonApplies(a)
  BY <1>4 DEF OnAddressDisabled, OnAddressDeleted, GluonApplies, account, server
<1>5. CASE ClientStarts
  BY <1>5, CommandBegins DEF account, handler
<1>6. CASE ClientStep
  BY <1>6 DEF ClientStep, MetadataRead, PermaDelete, unlabelMessages, ClientCommits, Set, Told,
              account, server, handler
<1>7. CASE UNCHANGED vars
  BY <1>7 DEF vars, account, server, handler
<1> QED  BY <1>1, <1>2, <1>3, <1>4, <1>5, <1>6, <1>7 DEF Next

(* The only step that reports a bad event.                                 *)
LEMMA WhoReports ==
  ASSUME [Next]_vars, ~badEvent, badEvent'
  PROVE  WithAddrKRFails
<1>1. ~UNCHANGED account
  BY DEF account
<1>2. ~OtherClient /\ ~FetchFails /\ ~SyncDone /\ ~ClientFails /\ ~UNCHANGED vars /\ ~ClientStep
  BY <1>1 DEF OtherClient, FetchFails, SyncDone, ClientFails, vars, ClientStep, MetadataRead,
              PermaDelete, unlabelMessages, ClientCommits
<1>3. ~ClientStarts
  BY <1>1, CommandBegins
<1>4. ~ \E a \in Addrs : OnAddressDisabled(a) \/ OnAddressDeleted(a) \/ GluonApplies(a)
  BY <1>1 DEF OnAddressDisabled, OnAddressDeleted, GluonApplies
<1>5. ~Poll /\ ~HandleMessageEvents /\ ~HandleMessageEventsInSync /\ ~waitOnIMAPUpdates /\ ~BatchHandled
  BY <1>1 DEF Poll, HandleMessageEvents, HandleMessageEventsInSync, HandleEvent, waitOnIMAPUpdates,
              BatchHandled
<1> QED  BY <1>2, <1>3, <1>4, <1>5 DEF Next, HandlerStep

LEMMA BadStep == IInv /\ BadInv /\ [Next]_vars => BadInv'
<1> SUFFICES ASSUME IInv, BadInv, [Next]_vars, badEvent' PROVE pc' = "idle" /\ BadOnlyForLost'
  BY DEF BadInv
<1>1. events \in Seq(Notices)
  BY DEF IInv, MsgType
<1>2. CASE badEvent
  <2>1. /\ pc' = "idle" /\ lost \subseteq lost'
        /\ events' = events \/ \E e : events' = Append(events, e)
    BY <1>2, IdleQueue DEF BadInv
  <2>2. PICK i \in 1 .. Len(events) :
          events[i].act \in {"create", "update", "flags"} /\ events[i].meta.addr \in lost
    BY <1>2 DEF BadInv, BadOnlyForLost
  <2>3. i \in 1 .. Len(events') /\ events'[i] = events[i]
    <3>1. CASE events' = events
      BY <3>1
    <3>2. CASE \E e : events' = Append(events, e)
      BY <1>1, <3>2
    <3> QED  BY <2>1, <3>1, <3>2
  <2> QED  BY <2>1, <2>2, <2>3 DEF BadOnlyForLost
<1>3. CASE ~badEvent
  <2>1. WithAddrKRFails
    BY <1>3, WhoReports
  <2>2. pc' = "idle" /\ UNCHANGED events /\ UNCHANGED lost /\ Event.meta.addr \in lost
    BY <2>1 DEF WithAddrKRFails, BatchFails, server
  <2>3. (pc = "next" /\ at <= batch) \/ InFlight
    BY <2>1 DEF WithAddrKRFails, Fetches, InFlight
  <2>4. at \in 1 .. Len(events) /\ Event = events[at]
    BY <2>3, AtHand
  <2>5. Event.act \in {"create", "update", "flags"}
    BY <2>1 DEF WithAddrKRFails, Fetches, IsRewrite, IInv, FlightInv
  <2> QED  BY <2>2, <2>4, <2>5 DEF BadOnlyForLost
<1> QED  BY <1>2, <1>3

(* Nothing is on its way: the invariant says what it should.               *)
LEMMA RestIsMirrored == IInv /\ BadInv => MessagesMirrored
<1> SUFFICES ASSUME IInv, BadInv PROVE MessagesMirrored
  OBVIOUS
<1>1. MsgType
  BY DEF IInv
<1>2. AtRest => \A m \in Msgs : ~Pending(m) /\ ~Rewritten(m)
  BY DEF AtRest, Pending, Rewritten
<1>3. MirrorAtRest
  <2> SUFFICES ASSUME AtRest, NEW c \in conns, NEW m \in Msgs
               PROVE  /\ Mine(c, m) /\ m \notin failed \cup hidden => gluon[c][m] = Copy(m)
                      /\ ~Lives(m) => gluon[c][m] = None
                      /\ ~Mine(c, m) /\ gluon[c][m] # None => m \in misplaced
    BY DEF MirrorAtRest, Mine, Home
  <2>1. GluonOf(c, m) /\ ~Pending(m) /\ ~Sent(c, m) /\ nosuch = FALSE
    BY <1>1, <1>2 DEF IInv, GluonInv, MsgType, AtRest, Sent, FlightInv, InFlight
  <2>2. ~Lives(m) => remote[m] = Unborn \/ remote[m] = Gone
    BY DEF Lives
  <2> QED  BY <2>1, <2>2 DEF GluonOf, CopyOf, MirrorOf, Mine
<1>4. FailedIsCurrent
  <2>1. AtRest => \A m \in failed : m \in Msgs /\ MessageOf(m)
    BY <1>1 DEF IInv, MessageInv, MsgType
  <2> QED  BY <1>2, <2>1 DEF FailedIsCurrent, MessageOf
<1>5. MoveKeepsPlace
  BY DEF IInv, MessageInv, MessageOf, MoveKeepsPlace
<1>6. ExpungeOnlyLast
  BY DEF IInv
<1>7. BadOnlyForLost
  BY DEF BadInv, BadOnlyForLost
<1> QED  BY <1>3, <1>4, <1>5, <1>6, <1>7 DEF MessagesMirrored

(* For any messages, addresses, labels, batches and setups: whenever the   *)
(* events are handled and no command is in progress, every connector of    *)
(* Gluon has the messages of its address as the API has them, what could   *)
(* not be built is recorded, no command has deleted a message that had     *)
(* another label it could know of, a move has left every message in a      *)
(* place, and a bad event is about a message of a deleted address          *)
(* (service_message_events.go, connector.go).                              *)
THEOREM GluonMirrorsMessages == Spec => []MessagesMirrored
<1>1. Init => IInv /\ BadInv
  BY InitInv DEF BadInv, Init
<1>2. IInv /\ BadInv /\ [Next]_vars => IInv' /\ BadInv'
  BY NextInv, BadStep
<1>3. IInv /\ BadInv => MessagesMirrored
  BY RestIsMirrored
<1> QED  BY <1>1, <1>2, <1>3, PTL DEF Spec
=============================================================================
