------------------------------ MODULE Identity ------------------------------
(* Who the user is: the account and its addresses, kept in a copy of its own by
   the identity, the SMTP and the IMAP service of the user (internal/services/
   useridentity). All copies follow the same events; an event that one service
   cannot handle comes again to all of them. A refresh, asked for by an event or
   by the user after a bad event, reads the account instead, in two requests. *)
EXTENDS Naturals, Sequences, FiniteSets

CONSTANTS
  Order, Identity,    \* the services with a copy, in the order of a resync; the one that reports changes
  Addrs, None,
  MaxEvents, MaxFaults, MaxResyncs

Copies == {Order[i] : i \in DOMAIN Order}
Absent == [on |-> FALSE, v |-> 0]

VARIABLES
  api,                \* the account at the API: the user's data and the addresses, each with a version
  log, pos,           \* its events, and how many of them the loop has stored
  copy,               \* State: the copy of each service
  done, failed,       \* services that have handled the event in hand; whether one failed
  reading,            \* of each service: the user's data it has read in a refresh, or None
  told,               \* the addresses that the frontends were told of
  quiet,              \* a refresh has changed the identity's copy without telling
  paused, turn,       \* after a bad event: the loop waits for the user; services still to resync
  faults, resyncs

loop == <<pos, done, failed, paused, turn>>
vars == <<api, log, loop, copy, reading, told, quiet, faults, resyncs>>

(* NewState: every service starts with a clone of what was read at login. *)
Init ==
  /\ \E a \in Addrs : api = [user |-> 1, addrs |-> [b \in Addrs |-> IF b = a THEN [on |-> TRUE, v |-> 1] ELSE Absent]]
  /\ log = <<>> /\ pos = 0 /\ copy = [s \in Copies |-> api]
  /\ done = {} /\ failed = FALSE /\ reading = [s \in Copies |-> None]
  /\ told = {a \in Addrs : api.addrs[a].on} /\ quiet = FALSE
  /\ paused = FALSE /\ turn = <<>> /\ faults = 0 /\ resyncs = 0

----------------------------------------------------------------------------
(* The account changes, and the API adds an event that says how, or only that
   the account has to be read again. *)
Exists(a) == api.addrs[a].v > 0
Event(kind, a) == [kind |-> kind, id |-> a, user |-> api'.user, addr |-> api'.addrs[a]]
AccountChanges ==
  /\ Len(log) < MaxEvents
  /\ \E a \in Addrs :
       \/ /\ ~Exists(a) /\ \E on \in BOOLEAN : api' = [api EXCEPT !.addrs[a] = [on |-> on, v |-> 1]]
          /\ log' = Append(log, Event("create", a))
       \/ /\ Exists(a) /\ \E on \in BOOLEAN : api' = [api EXCEPT !.addrs[a] = [on |-> on, v |-> @.v + 1]]
          /\ log' = Append(log, Event("update", a))
       \/ Exists(a) /\ api' = [api EXCEPT !.addrs[a] = Absent] /\ log' = Append(log, Event("delete", a))
       \/ api' = [api EXCEPT !.user = @ + 1] /\ log' = Append(log, Event("user", a))
       \/ /\ \E new \in {Absent, [on |-> TRUE, v |-> api.addrs[a].v + 1]} : api' = [api EXCEPT !.addrs[a] = new]
          /\ log' = Append(log, Event("refresh", a))
  /\ UNCHANGED <<loop, copy, reading, told, quiet, faults, resyncs>>

(* OnAddressCreated, OnAddressUpdated, OnAddressDeleted and OnUserEvent. *)
OnAddressCreated(c, e) == IF c.addrs[e.id].v > 0 THEN c ELSE [c EXCEPT !.addrs[e.id] = e.addr]
OnAddressUpdated(c, e) == IF c.addrs[e.id].v = 0 THEN OnAddressCreated(c, e) ELSE [c EXCEPT !.addrs[e.id] = e.addr]
OnAddressDeleted(c, e) == [c EXCEPT !.addrs[e.id] = Absent]
OnUserEvent(c, e) == [c EXCEPT !.user = e.user]
Applied(c, e) ==
  CASE e.kind = "create" -> OnAddressCreated(c, e)
    [] e.kind = "update" -> OnAddressUpdated(c, e)
    [] e.kind = "delete" -> OnAddressDeleted(c, e)
    [] e.kind = "user" -> OnUserEvent(c, e)
    [] OTHER -> c

(* AddressUpdate: what the identity service reports; nothing for an address that
   is and was disabled, and nothing for one it already has when it is created. *)
On(c, a) == c.addrs[a].v > 0 /\ c.addrs[a].on
Reported(old, new, a) == IF On(new, a) # On(old, a) THEN (IF On(new, a) THEN told \cup {a} ELSE told \ {a}) ELSE told
Told(s, new, e) == IF s = Identity THEN Reported(copy[s], new, e.id) ELSE told

----------------------------------------------------------------------------
Current == log[pos + 1]
Handles(s) == pos < Len(log) /\ s \notin done /\ ~paused
Done(s) == done' = done \cup {s} /\ UNCHANGED <<pos, failed, paused, turn>>

(* HandleAddressEvents and HandleUserEvent; also of an event that another
   service has failed on, which this one was given all the same. *)
HandleEvent(s) ==
  /\ Handles(s) /\ Current.kind # "refresh"
  /\ LET new == Applied(copy[s], Current)
     IN  copy' = [copy EXCEPT ![s] = new] /\ told' = Told(s, new, Current)
  /\ Done(s) /\ UNCHANGED <<api, log, reading, quiet, faults, resyncs>>

(* OnRefreshEvent asks for the user, then for the addresses, and changes the
   copy when it has both. After an event the frontends hear UserRefreshed, which
   names no address. *)
GetUser(s) == reading[s] = None /\ reading' = [reading EXCEPT ![s] = api.user]
MutRefreshed(s) == [copy[s] EXCEPT !.user = reading[s]]
Refreshed(s) == [user |-> reading[s], addrs |-> api.addrs]
GetAddresses(s) ==
  /\ reading[s] # None /\ reading' = [reading EXCEPT ![s] = None]
  /\ copy' = [copy EXCEPT ![s] = Refreshed(s)]
  /\ quiet' = (quiet \/ (s = Identity /\ \E a \in Addrs : On(Refreshed(s), a) # On(copy[s], a)))

HandleRefreshEvent(s) ==
  /\ Handles(s) /\ Current.kind = "refresh"
  /\ \/ GetUser(s) /\ UNCHANGED <<copy, quiet, loop>>
     \/ GetAddresses(s) /\ Done(s)
  /\ UNCHANGED <<api, log, told, faults, resyncs>>

(* A request fails, or whatever else the service does with the event: the event
   comes again, to those that have handled it too. *)
HandlerFails(s) ==
  /\ Handles(s) /\ ~failed /\ faults < MaxFaults /\ faults' = faults + 1
  /\ reading' = [reading EXCEPT ![s] = None] /\ failed' = TRUE
  /\ UNCHANGED <<api, log, pos, done, paused, turn, copy, told, quiet, resyncs>>

Retry == failed /\ ~paused /\ failed' = FALSE /\ done' = {} /\ UNCHANGED <<api, log, pos, paused, turn, copy, reading, told, quiet, faults, resyncs>>
Store == pos < Len(log) /\ ~failed /\ done = Copies /\ pos' = pos + 1 /\ done' = {} /\ UNCHANGED <<api, log, failed, paused, turn, copy, reading, told, quiet, faults, resyncs>>

(* A bad event pauses the loop. BadEventFeedbackResync then has the services
   refresh one after the other, and resumes the loop, which has not stored the
   event; when one of them cannot, the loop stays paused until the user asks again. *)
BadEvent == failed /\ ~paused /\ paused' = TRUE /\ UNCHANGED <<api, log, pos, done, failed, turn, copy, reading, told, quiet, faults, resyncs>>
BadEventFeedbackResync ==
  /\ paused /\ turn = <<>> /\ resyncs < MaxResyncs /\ resyncs' = resyncs + 1
  /\ turn' = Order /\ UNCHANGED <<api, log, pos, done, failed, paused, copy, reading, told, quiet, faults>>
Resync(s) ==
  /\ turn # <<>> /\ s = Head(turn)
  /\ \/ GetUser(s) /\ UNCHANGED <<copy, quiet, loop>>
     \/ /\ GetAddresses(s) /\ turn' = Tail(turn) /\ UNCHANGED pos
        /\ IF Tail(turn) = <<>> THEN paused' = FALSE /\ failed' = FALSE /\ done' = {} ELSE UNCHANGED <<paused, failed, done>>
  /\ UNCHANGED <<api, log, told, faults, resyncs>>
ResyncFails(s) ==
  /\ turn # <<>> /\ s = Head(turn) /\ faults < MaxFaults /\ faults' = faults + 1
  /\ reading' = [reading EXCEPT ![s] = None] /\ turn' = <<>>
  /\ UNCHANGED <<api, log, pos, done, failed, paused, copy, told, quiet, resyncs>>

Step(s) == HandleEvent(s) \/ HandleRefreshEvent(s) \/ Resync(s)
Next ==
  \/ AccountChanges \/ Retry \/ Store \/ BadEvent \/ BadEventFeedbackResync
  \/ \E s \in Copies : Step(s) \/ HandlerFails(s) \/ ResyncFails(s)

(* Handlers run, the loop retries, and stores what was handled; whether a paused
   loop goes on is up to the user. *)
Fair == (\A s \in Copies : WF_vars(Step(s))) /\ WF_vars(Retry) /\ WF_vars(Store)
Spec == Init /\ [][Next]_vars /\ Fair

----------------------------------------------------------------------------
AtRest == pos = Len(log) /\ \A s \in Copies : reading[s] = None

(* Once all events are handled every copy is the account, whatever failed, came
   twice, or was read ahead of its event: no service lets an address sign in, or
   sends from one, that another does not know. *)
CopiesConverge == AtRest => \A s \in Copies : copy[s] = api

(* By then the frontends were told of every address that can be used and of no
   other, unless a refresh changed the addresses: that is reported without
   naming any, and the events which follow find nothing to change. *)
ToldAtRest == (AtRest /\ ~quiet) => told = {a \in Addrs : On(api, a)}

(* Every change of the account reaches all copies, unless the user leaves the
   loop paused after a bad event. *)
Settled == Len(log) = MaxEvents => (AtRest \/ paused)
=============================================================================
