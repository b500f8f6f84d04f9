----------------------------- MODULE Lifecycle ------------------------------
(***************************************************************************)
(* The accounts of the bridge from login to logout.  The vault keeps an    *)
(* entry with the session's token for each account; the map of the bridge  *)
(* holds a user object for each connected one.  Users are added by the     *)
(* login of a frontend and by the loader, removed by frontends, by the     *)
(* handlers of each object's events, by a reset and by the end of the      *)
(* process, and called by readers of the map.  The write lock of the map   *)
(* covers an operation as a whole, so that one is one action; a reader     *)
(* holds the read lock from one action to the next; repairs and the check  *)
(* after a load take no lock.                                              *)
(***************************************************************************)
EXTENDS Naturals, Sequences, FiniteSets

CONSTANTS Users, None, Ended,
          MaxObjects, MaxSessions, MaxFaults, MaxCalls

(* A token is a session and how often it was refreshed: a refresh makes    *)
(* the token before it useless.                                            *)
Tokens == (1 .. MaxSessions) \X Nat
Entries == [auth : {None} \cup Tokens, resync : BOOLEAN]

(* None is no entry, no object and no name of a call.                      *)
ASSUME LifecycleAssumption ==
    /\ MaxSessions \in Nat
    /\ None \notin Nat /\ None \notin Entries
    /\ None \notin {"logout", "delete", "feedback", "call", "wiped entry"}

VARIABLES entry,     \* vault: None or [auth, resync] of a user
          session,   \* API: None, the refreshes of a live session, or Ended
          object,    \* user objects: [user, open, token, saved, queue, handling]
          users,     \* the map: object of a user or None
          job,       \* the additions in progress, see Jobs
          listed,    \* users whose vault entries the loader holds
          goLoad,    \* a load has been triggered
          up,        \* API status
          reader,    \* calls that looked an object up, see Readers
          phase,     \* "run", "users", "servers" or "exit"
          panic,     \* None or the call that found its service closed
          overlap,   \* users added twice, or gone or reset while added
          gone,      \* how a user was asked to go, not logged in since
          failed,    \* users whose logout or load failed half-way
          calls, faults

vars == <<entry, session, object, users, job, listed, goLoad, up, reader, phase,
          panic, overlap, gone, failed, calls, faults>>

(* What one addition does is independent of the other parts.               *)
others == <<listed, goLoad, up, reader, phase, gone, calls>>

Objects == 1 .. MaxObjects
Jobs == {"login", "load"} \X Users
Readers == {"feedback", "call", "repair", "reset"}
Idle == [at |-> "idle", token |-> None, obj |-> None, new |-> FALSE]

Token(s) == <<s, session[s]>>
Valid(t) == t # None /\ session[t[1]] = t[2]

NextObject == Len(object) + 1
Open(o) == object[o].open
Connected(u) == users[u] # None
Adding(u) == {j \in Jobs : j[2] = u /\ job[j].at # "idle"}

(* vault.ref: the loader, the additions and the open objects hold entries. *)
InUse(u) == \/ u \in listed
            \/ \E j \in Jobs : j[2] = u /\ job[j].at \in {"stored", "built"}
            \/ \E o \in DOMAIN object : object[o].user = u /\ Open(o)

Fault == faults < MaxFaults /\ faults' = faults + 1
Call  == calls < MaxCalls /\ calls' = calls + 1
NoLock == reader["feedback"] = None /\ reader["call"] = None
Running == phase # "exit" /\ panic = None

Push(o, e) == IF object[o].open THEN [object EXCEPT ![o].queue = Append(@, e)] ELSE object

(* A mutant that leaves the services running.                              *)
MutShut(q) == q

Shut(q) == [q EXCEPT !.open = FALSE, !.queue = <<>>]

Panics(what) == panic' = what

Done(j) == job' = [job EXCEPT ![j] = Idle]
At(j, at) == job' = [job EXCEPT ![j].at = at]

Cleared(u) == [entry EXCEPT ![u].auth = None]

(***************************************************************************)
(* Login by a frontend.                                                    *)
(***************************************************************************)
LoginAuth(u) ==
    /\ Running /\ phase = "run" /\ up
    /\ job[<<"login", u>>].at = "idle"
    /\ \E s \in DOMAIN session :
          /\ session[s] = None
          /\ \A r \in DOMAIN session : session[r] = None => r >= s
          /\ IF Connected(u)                           \* AuthDelete
             THEN UNCHANGED <<session, job>>
             ELSE /\ session' = [session EXCEPT ![s] = 0]
                  /\ job' = [job EXCEPT ![<<"login", u>>] =
                                 [Idle EXCEPT !.at = "auth", !.token = <<s, 0>>]]
    /\ Call
    /\ overlap' = IF Adding(u) # {} THEN overlap \cup {u} ELSE overlap
    /\ UNCHANGED <<entry, object, users, listed, goLoad, up, reader, phase, panic,
                   gone, failed, faults>>

EndSession(t) == IF Valid(t) THEN [session EXCEPT ![t[1]] = Ended] ELSE session

(* The user aborts, or the API user cannot be read (not: a wrong mailbox   *)
(* password, after which the frontend asks again).                         *)
LoginAborted(u) ==
    LET j == <<"login", u>>
    IN  /\ Running /\ job[j].at = "auth"
        /\ session' = EndSession(job[j].token)
        /\ Done(j)
        /\ UNCHANGED <<entry, object, users, others, panic, overlap, failed, faults>>

(***************************************************************************)
(* Loading the users of the vault.                                         *)
(***************************************************************************)
LoadIdle == \A u \in Users : job[<<"load", u>>].at = "idle"

loadUsers ==
    /\ Running /\ phase # "exit"
    /\ goLoad /\ LoadIdle /\ listed = {}
    /\ goLoad' = FALSE
    /\ failed' = {f \in failed : f[1] # "load"}
    /\ listed' = {u \in Users : entry[u] # None}
    /\ job' = [j \in Jobs |-> IF j[1] = "load" /\ j[2] \in listed'
                              THEN [Idle EXCEPT !.at = "listed"] ELSE job[j]]
    /\ overlap' = overlap \cup {u \in listed' : Adding(u) # {}}
    /\ UNCHANGED <<entry, session, object, users, up, reader, phase, panic,
                   gone, calls, faults>>

(* The entries are released once all users have been tried.                *)
LoadEnds ==
    /\ Running /\ listed # {} /\ LoadIdle
    /\ listed' = {}
    /\ UNCHANGED <<entry, session, object, users, job, goLoad, up, reader, phase,
                   panic, overlap, gone, failed, calls, faults>>

(* A mutant that takes a user for loaded that is not.                      *)
MutSkipped(u) == entry[u] # None

Skipped(u) == entry[u] # None /\ (entry[u].auth = None \/ Connected(u))

(* Signed out, or loaded already; otherwise the session is refreshed.      *)
NewClientWithRefresh(u) ==
    LET j == <<"load", u>>
        t == entry[u].auth
    IN  /\ Running /\ job[j].at = "listed"
        /\ \/ /\ entry[u] = None
              /\ Panics("wiped entry") /\ UNCHANGED <<entry, session, job, failed, faults>>
           \/ /\ Skipped(u)
              /\ Done(j) /\ UNCHANGED <<entry, session, failed, faults, panic>>
           \/ /\ entry[u] # None /\ ~Skipped(u) /\ ~up
              /\ Done(j) /\ failed' = failed \cup {<<"load", u>>}
              /\ UNCHANGED <<entry, session, faults, panic>>
           \/ /\ entry[u] # None /\ ~Skipped(u) /\ up /\ ~Valid(t)
              /\ entry' = Cleared(u)               \* AuthRefreshTokenInvalid
              /\ Done(j) /\ UNCHANGED <<session, failed, faults, panic>>
           \/ /\ entry[u] # None /\ ~Skipped(u) /\ up /\ Valid(t)
              /\ session' = [session EXCEPT ![t[1]] = @ + 1]
              /\ job' = [job EXCEPT ![j] = [@ EXCEPT !.at = "refreshed",
                                                     !.token = <<t[1], session[t[1]] + 1>>]]
              /\ UNCHANGED <<entry, failed, faults, panic>>
        /\ UNCHANGED <<object, users, others, overlap>>

SetAuth(u) ==
    LET j == <<"load", u>>
    IN  /\ Running /\ job[j].at = "refreshed"
        /\ IF entry[u] = None
           THEN Panics("wiped entry") /\ UNCHANGED <<entry, job>>
           ELSE /\ entry' = [entry EXCEPT ![u].auth = job[j].token]
                /\ At(j, "auth") /\ UNCHANGED panic
        /\ UNCHANGED <<session, object, users, others, overlap, failed, faults>>

(* GetUser fails.                                                          *)
LoadFails(u) ==
    LET j == <<"load", u>>
    IN  /\ Running /\ job[j].at = "auth"
        /\ Fault
        /\ Done(j)
        /\ failed' = failed \cup {j}
        /\ UNCHANGED <<entry, session, object, users, others, panic, overlap>>

(***************************************************************************)
(* Adding a user.                                                          *)
(***************************************************************************)
GetOrAddUser(j) ==
    LET u == j[2]
    IN  /\ Running /\ job[j].at = "auth"
        /\ entry' = [entry EXCEPT ![u] = [auth |-> job[j].token,
                                          resync |-> @ # None /\ @.resync]]
        /\ job' = [job EXCEPT ![j] = [@ EXCEPT !.at = "stored", !.new = (entry[u] = None)]]
        /\ gone' = IF j[1] = "login" THEN [gone EXCEPT ![u] = None] ELSE gone
        /\ UNCHANGED <<session, object, users, listed, goLoad, up, reader, phase,
                       panic, overlap, failed, calls, faults>>

(* user.New: an account of the servers and the services of the user.       *)
NewUser(j) ==
    /\ Running /\ job[j].at = "stored"
    /\ IF phase = "servers"
       THEN Panics("closed servers") /\ UNCHANGED <<object, job>>
       ELSE /\ NextObject \in Objects
            /\ object' = Append(object, [user |-> j[2], open |-> TRUE,
                                         token |-> job[j].token, saved |-> TRUE,
                                         queue |-> <<>>, handling |-> None])
            /\ job' = [job EXCEPT ![j] = [@ EXCEPT !.at = "built", !.obj = NextObject]]
            /\ UNCHANGED panic
    /\ UNCHANGED <<entry, session, users, others, overlap, failed, faults>>

(* user.New fails: a login, or a load the API rejected, takes the secrets  *)
(* back, and a new entry goes unless it is in use.  The login deletes its  *)
(* session.                                                                *)
NewUserFails(j) ==
    LET u == j[2]
        elsewhere == \/ u \in listed
                     \/ \E k \in Jobs \ {j} : k[2] = u /\ job[k].at \in {"stored", "built"}
                     \/ \E o \in DOMAIN object : object[o].user = u /\ Open(o)
    IN  /\ Running /\ job[j].at = "stored" /\ entry[u] # None
        /\ Fault
        /\ \E clear \in {TRUE, j[1] = "login"} :
              entry' = IF job[j].new /\ ~elsewhere THEN [entry EXCEPT ![u] = None]
                       ELSE IF clear THEN Cleared(u) ELSE entry
        /\ session' = IF j[1] = "login" THEN EndSession(job[j].token) ELSE session
        /\ failed' = failed \cup {j}
        /\ Done(j)
        /\ UNCHANGED <<object, users, others, panic, overlap>>

(* The object enters the map, whatever is there, and is told to look       *)
(* whether a resync is due.                                                *)
addUserWithVault(j) ==
    LET o == job[j].obj
    IN  /\ Running /\ NoLock /\ job[j].at = "built"
        /\ users' = [users EXCEPT ![j[2]] = o]
        /\ object' = Push(o, "check")
        /\ Done(j)
        /\ UNCHANGED <<entry, session, others, panic, overlap, failed, faults>>

(***************************************************************************)
(* Logging out.  An object that is closed cannot be logged out again: its  *)
(* services have closed their request channels, and a send on a closed     *)
(* channel panics.                                                         *)
(***************************************************************************)
Removed(u) == [users EXCEPT ![u] = None]

(* logoutUser: the object leaves the map by the name of its user, even if  *)
(* the map holds another one by now.  A server that does not answer ends   *)
(* Logout before the session and the secrets are dropped; the object is    *)
(* closed all the same.                                                    *)
logoutUser(o, withAPI, by) ==
    LET u == object[o].user
    IN  \/ /\ ~Open(o)
           /\ Panics(by) /\ UNCHANGED <<entry, session, object, users, failed, faults>>
        \/ /\ Open(o) /\ object[o].saved /\ entry[u] = None
           /\ Panics("wiped entry") /\ UNCHANGED <<entry, session, object, users, failed, faults>>
        \/ /\ Open(o) /\ object[o].saved /\ entry[u] # None
           /\ session' = IF withAPI THEN EndSession(object[o].token) ELSE session
           /\ entry' = Cleared(u)
           /\ object' = [object EXCEPT ![o] = Shut(@)]
           /\ users' = Removed(u)
           /\ UNCHANGED <<panic, failed, faults>>
        \/ /\ Open(o) /\ object[o].saved /\ Fault
           /\ object' = [object EXCEPT ![o] = Shut(@)]
           /\ users' = Removed(u)
           /\ failed' = failed \cup {<<"logout", u>>}
           /\ UNCHANGED <<entry, session, panic>>

Locks == Running /\ NoLock

(* The user is gone: UserLoggedOut or UserDeleted is published, or the     *)
(* error of a deletion that ended half-way is answered.                    *)
Published(u, how) == gone' = IF panic' = None THEN [gone EXCEPT ![u] = how] ELSE gone

LogoutUser(u) ==
    /\ Locks /\ Call /\ Connected(u)
    /\ logoutUser(users[u], TRUE, "logout")
    /\ Published(u, "logout")
    /\ UNCHANGED <<job, listed, goLoad, up, reader, phase, overlap>>

(* The entry of a deleted user stays if someone holds it: the error is     *)
(* only logged.                                                            *)
DeleteUser(u) ==
    LET held == \/ u \in listed
                \/ \E j \in Jobs : j[2] = u /\ job[j].at \in {"stored", "built"}
                \/ \E o \in DOMAIN object : object[o].user = u /\ Open(o) /\ users[u] # o
        forget(e) == IF held THEN e ELSE [e EXCEPT ![u] = None]
    IN  /\ Locks /\ Call /\ entry[u] # None
        /\ overlap' = IF held \/ Adding(u) # {} THEN overlap \cup {u} ELSE overlap
        /\ IF ~Connected(u)
           THEN /\ entry' = forget(entry)
                /\ UNCHANGED <<session, object, users, panic, failed, faults>>
           ELSE \/ /\ ~Open(users[u])
                   /\ Panics("delete")
                   /\ UNCHANGED <<entry, session, object, users, failed, faults>>
                \/ /\ Open(users[u]) /\ object[users[u]].saved
                   /\ object' = [object EXCEPT ![users[u]] = Shut(@)]
                   /\ users' = Removed(u)
                   /\ \/ /\ session' = EndSession(object[users[u]].token)
                         /\ entry' = forget(Cleared(u))
                         /\ UNCHANGED <<failed, faults>>
                      \/ /\ Fault /\ entry' = forget(entry)
                         /\ failed' = failed \cup {<<"logout", u>>}
                         /\ UNCHANGED session
                   /\ UNCHANGED panic
        /\ Published(u, "delete")
        /\ UNCHANGED <<job, listed, goLoad, up, reader, phase>>

(* The sync state of the user cannot be deleted: DeleteUser ends with an   *)
(* error, and the user is logged out and still in the vault.               *)
DeleteUserFails(u) ==
    /\ Locks /\ Call /\ entry[u] # None /\ Connected(u)
    /\ logoutUser(users[u], TRUE, "delete")
    /\ Published(u, "logout")
    /\ UNCHANGED <<job, listed, goLoad, up, reader, phase, overlap>>

(***************************************************************************)
(* Readers of the map.                                                     *)
(***************************************************************************)
Lookup(r, u) ==
    /\ Running /\ Call /\ reader[r] = None
    /\ reader' = [reader EXCEPT ![r] = users[u]]
    /\ UNCHANGED <<entry, session, object, users, job, listed, goLoad, up, phase,
                   panic, overlap, gone, failed, faults>>

Leave(r) == reader' = [reader EXCEPT ![r] = None]

(* The user does not want a resync after a bad event: a logout under the   *)
(* read lock.                                                              *)
SendBadEventUserFeedback ==
    LET o == reader["feedback"]
    IN  /\ Running /\ o # None
        /\ logoutUser(o, TRUE, "feedback")
        /\ Published(object[o].user, "logout")
        /\ Leave("feedback")
        /\ overlap' = IF reader["call"] = o THEN overlap \cup {object[o].user} ELSE overlap
        /\ UNCHANGED <<job, listed, goLoad, up, phase, calls>>

(* SetAddressMode, SetShowAllMail, a resync after a bad event, telemetry;  *)
(* and without the lock a repair.                                          *)
CallServices(r) ==
    LET o == reader[r]
    IN  /\ Running /\ r \in {"call", "repair"} /\ o # None
        /\ IF Open(o) THEN UNCHANGED panic ELSE Panics(r)
        /\ Leave(r)
        /\ UNCHANGED <<entry, session, object, users, job, listed, goLoad, up, phase,
                       overlap, gone, failed, calls, faults>>

(* A repair of a user that is not connected is left for its next load.     *)
Repair(u) ==
    /\ Running /\ Call /\ ~Connected(u) /\ entry[u] # None
    /\ entry' = [entry EXCEPT ![u].resync = TRUE]
    /\ UNCHANGED <<session, object, users, job, listed, goLoad, up, reader, phase,
                   panic, overlap, gone, failed, faults>>

(***************************************************************************)
(* Events of a user object.                                                *)
(***************************************************************************)
(* The API ends the session; the client of an object finds out.            *)
Deauth(s) ==
    /\ Call /\ session[s] \notin {None, Ended}
    /\ session' = [session EXCEPT ![s] = Ended]
    /\ object' = [o \in DOMAIN object |->
                     IF object[o].token[1] = s /\ Running /\ Open(o)
                     THEN [object[o] EXCEPT !.queue = Append(@, "deauth")] ELSE object[o]]
    /\ UNCHANGED <<entry, users, job, listed, goLoad, up, reader, phase, panic,
                   overlap, gone, failed, faults>>

UserBadEvent(o) ==
    /\ Running /\ Call /\ Open(o)
    /\ object' = Push(o, "bad")
    /\ UNCHANGED <<entry, session, users, job, listed, goLoad, up, reader, phase,
                   panic, overlap, gone, failed, faults>>

(* The client refreshes its session, then the auth handler stores it.      *)
ClientRefresh(o) ==
    /\ Running /\ Call /\ Open(o) /\ Valid(object[o].token) /\ object[o].saved
    /\ LET s == object[o].token[1]
       IN  /\ session' = [session EXCEPT ![s] = @ + 1]
           /\ object' = [object EXCEPT ![o] = [@ EXCEPT !.token = <<s, session[s] + 1>>,
                                                       !.saved = FALSE]]
    /\ UNCHANGED <<entry, users, job, listed, goLoad, up, reader, phase, panic,
                   overlap, gone, failed, faults>>

NewAuth(t) == t

AuthHandler(o) ==
    /\ Running /\ ~object[o].saved
    /\ object' = [object EXCEPT ![o].saved = TRUE]
    /\ IF entry[object[o].user] = None
       THEN Panics("wiped entry") /\ UNCHANGED entry
       ELSE /\ entry' = [entry EXCEPT ![object[o].user].auth = NewAuth(object[o].token)]
            /\ UNCHANGED panic
    /\ UNCHANGED <<session, users, others, job, overlap, failed, faults>>

TakeEvent(o) ==
    /\ Running /\ object[o].handling = None /\ object[o].queue # <<>>
    /\ object' = [object EXCEPT ![o] = [@ EXCEPT !.handling = Head(object[o].queue),
                                                !.queue = Tail(object[o].queue)]]
    /\ UNCHANGED <<entry, session, users, job, others, panic, overlap, failed, faults>>

DeauthLock == NoLock

(* The handler starts before the object enters the map: a deauthorisation  *)
(* in between leaves a closed object there.                                *)
handleUserDeauth(o) ==
    /\ Running /\ DeauthLock /\ object[o].handling = "deauth"
    /\ \/ /\ ~Open(o)
          /\ Panics("handler") /\ UNCHANGED <<entry, object, users, failed, faults>>
       \/ /\ Open(o) /\ object[o].saved /\ entry[object[o].user] = None
          /\ Panics("wiped entry") /\ UNCHANGED <<entry, object, users, failed, faults>>
       \/ /\ Open(o) /\ object[o].saved /\ entry[object[o].user] # None
          /\ object' = [object EXCEPT ![o] = [Shut(@) EXCEPT !.handling = None]]
          /\ users' = Removed(object[o].user)
          /\ \/ entry' = Cleared(object[o].user) /\ UNCHANGED <<failed, faults>>
             \/ /\ Fault /\ failed' = failed \cup {<<"logout", object[o].user>>}
                /\ UNCHANGED entry
          /\ UNCHANGED panic
    /\ overlap' = overlap \cup {j[2] : j \in {k \in Jobs : job[k].obj = o}}
    /\ UNCHANGED <<session, job, others>>

handleUserBadEvent(o) ==
    /\ Running /\ object[o].handling = "bad"
    /\ IF Open(o) THEN UNCHANGED panic ELSE Panics("handler")
    /\ object' = [object EXCEPT ![o].handling = None]
    /\ UNCHANGED <<entry, session, users, job, others, overlap, failed, faults>>

(* The flag is cleared before the resync is asked for.                     *)
VerifyResyncAndExecute(o) ==
    LET u == object[o].user
    IN  /\ Running /\ object[o].handling = "check"
        /\ IF entry[u] = None \/ ~entry[u].resync
           THEN UNCHANGED <<entry, panic>>
           ELSE /\ entry' = [entry EXCEPT ![u].resync = FALSE]
                /\ IF Open(o) THEN UNCHANGED panic ELSE Panics("handler")
        /\ object' = [object EXCEPT ![o].handling = None]
        /\ UNCHANGED <<session, users, job, others, overlap, failed, faults>>

(***************************************************************************)
(* The bridge as a whole.                                                  *)
(***************************************************************************)
AddStatusObserver ==
    /\ Running /\ Call
    /\ up' = ~up
    /\ goLoad' = (goLoad \/ up')                 \* onStatusUp
    /\ UNCHANGED <<entry, session, object, users, job, listed, reader, phase, panic,
                   overlap, gone, failed, faults>>

(* FactoryReset: all users are logged out under the lock, the vault is     *)
(* reset without it.  (A closed object would panic, as in logoutUser.)     *)
FactoryReset ==
    /\ Locks /\ Call /\ phase = "run" /\ reader["reset"] = None
    /\ \A u \in Users : Connected(u) => Open(users[u]) /\ object[users[u]].saved
    /\ session' = [s \in DOMAIN session |->
                      IF \E u \in Users : Connected(u) /\ object[users[u]].token = Token(s)
                      THEN Ended ELSE session[s]]
    /\ entry' = [u \in Users |-> IF Connected(u) /\ entry[u] # None
                                  THEN Cleared(u)[u] ELSE entry[u]]
    /\ object' = [o \in DOMAIN object |->
                     IF users[object[o].user] = o THEN Shut(object[o]) ELSE object[o]]
    /\ users' = [u \in Users |-> None]
    /\ reader' = [reader EXCEPT !["reset"] = "vault"]
    /\ UNCHANGED <<job, listed, goLoad, up, phase, panic, overlap, gone, failed, faults>>

VaultReset ==
    /\ Running /\ reader["reset"] # None
    /\ Leave("reset")
    /\ entry' = [u \in Users |-> None]
    /\ gone' = [u \in Users |-> "delete"]
    /\ overlap' = overlap \cup {u \in Users : InUse(u) \/ Adding(u) # {} \/ Connected(u)}
    /\ UNCHANGED <<session, object, users, job, listed, goLoad, up, phase, panic,
                   failed, calls, faults>>

(* Bridge.Close: the users of the map, then the servers, then the tasks.   *)
(* The closed users stay in the map.                                       *)
CloseUsers ==
    /\ Locks /\ Call /\ phase = "run"
    /\ \A u \in Users : Connected(u) => object[users[u]].saved
    /\ object' = [o \in DOMAIN object |->
                     IF users[object[o].user] = o THEN Shut(object[o]) ELSE object[o]]
    /\ phase' = "users"
    /\ UNCHANGED <<entry, session, users, job, listed, goLoad, up, reader, panic,
                   overlap, gone, failed, faults>>

CloseServers ==
    /\ Running /\ phase = "users"
    /\ phase' = "servers"
    /\ UNCHANGED <<entry, session, object, users, job, listed, goLoad, up, reader,
                   panic, overlap, gone, failed, calls, faults>>

(* tasks.CancelAndWait: loads and handlers end, triggers are forgotten.    *)
CancelAndWait ==
    /\ Running /\ phase = "servers" /\ listed = {}
    /\ \A o \in DOMAIN object : object[o].handling = None
    /\ phase' = "exit"
    /\ UNCHANGED <<entry, session, object, users, job, listed, goLoad, up, reader,
                   panic, overlap, gone, failed, calls, faults>>

(* A crash, or the end of the process, and the next start.  Tokens that    *)
(* were not stored are lost.                                               *)
Restart ==
    /\ Call
    /\ object' = <<>> /\ users' = [u \in Users |-> None]
    /\ job' = [j \in Jobs |-> Idle] /\ listed' = {} /\ goLoad' = TRUE
    /\ reader' = [r \in Readers |-> None] /\ phase' = "run" /\ panic' = None
    /\ overlap' = overlap \cup
          {u \in Users : \/ \E j \in Jobs : j[2] = u /\ job[j].at = "refreshed"
                        \/ \E o \in DOMAIN object : object[o].user = u /\ ~object[o].saved}
    /\ UNCHANGED <<entry, session, up, gone, failed, faults>>

Init ==
    /\ entry = [u \in Users |-> None]
    /\ session = [s \in 1 .. MaxSessions |-> None]
    /\ object = <<>> /\ users = [u \in Users |-> None]
    /\ job = [j \in Jobs |-> Idle] /\ listed = {} /\ goLoad = TRUE
    /\ up = TRUE /\ reader = [r \in Readers |-> None]
    /\ phase = "run" /\ panic = None /\ overlap = {}
    /\ gone = [u \in Users |-> None] /\ failed = {}
    /\ calls = 0 /\ faults = 0

(* The steps that only wait for the processor or the network.              *)
Work ==
    \/ loadUsers \/ LoadEnds
    \/ \E u \in Users : NewClientWithRefresh(u) \/ SetAuth(u)
    \/ \E j \in Jobs : (j[1] = "load" /\ GetOrAddUser(j)) \/ NewUser(j) \/ addUserWithVault(j)
    \/ SendBadEventUserFeedback \/ \E r \in Readers : CallServices(r)
    \/ \E o \in DOMAIN object :
          \/ AuthHandler(o) \/ TakeEvent(o) \/ handleUserDeauth(o)
          \/ handleUserBadEvent(o) \/ VerifyResyncAndExecute(o)
    \/ VaultReset \/ CloseServers \/ CancelAndWait

Requests ==
    \/ \E u \in Users : \/ LoginAuth(u) \/ LoginAborted(u) \/ LoadFails(u)
                        \/ LogoutUser(u) \/ DeleteUser(u) \/ DeleteUserFails(u) \/ Repair(u)
                        \/ GetOrAddUser(<<"login", u>>)
                        \/ \E r \in {"feedback", "call", "repair"} : Lookup(r, u)
    \/ \E j \in Jobs : NewUserFails(j)
    \/ \E s \in DOMAIN session : Deauth(s)
    \/ \E o \in DOMAIN object : UserBadEvent(o) \/ ClientRefresh(o)
    \/ AddStatusObserver \/ FactoryReset \/ CloseUsers \/ Restart

Next == Work \/ Requests

Spec == Init /\ [][Next]_vars /\ WF_vars(Work)

(***************************************************************************)
(* Properties.                                                             *)
(***************************************************************************)
(* While the bridge runs, the services of an account that still work       *)
(* belong to an object the map knows, or to an addition that will enter    *)
(* it: nobody else could ever stop them.  (bridge.users, logoutUser,       *)
(* addUserWithVault; the exception is a user added twice at once.)         *)
NoOrphan ==
    \A o \in DOMAIN object :
        Open(o) /\ phase = "run" /\ object[o].user \notin overlap =>
            users[object[o].user] = o \/ \E j \in Jobs : job[j].obj = o

(* A call that looks a user up and keeps the lock never finds its services *)
(* closed: only an event handler, a repair, a call beside a logout under   *)
(* the read lock, and calls during the shutdown can send on a closed       *)
(* request channel, which panics.  (cpc.Send, usersLock.)                  *)
LockedCallsLive ==
    /\ panic \in {"logout", "delete", "feedback", "call"} => phase # "run" \/ overlap # {}
    /\ panic = "wiped entry" => overlap # {}

(* A connected account has its session in the vault, so that the next      *)
(* start finds it, and the token there is the one the API accepts.         *)
(* (GetOrAddUser, SetAuth, AddAuthHandler; not during a refresh, after the *)
(* API ended the session, or for a user added twice.)                      *)
TokenKept ==
    \A u \in Users :
        Connected(u) /\ u \notin overlap /\ Open(users[u]) /\ object[users[u]].saved =>
            entry[u] # None /\ entry[u].auth = object[users[u]].token

(* An account the user logged out or deleted does not come back by itself: *)
(* it is in no map, and no load finds its session.  (logoutUser,           *)
(* DeleteUser, FactoryReset; not when Logout failed before it cleared the  *)
(* secrets, or when the account was being added.)                          *)
GoneStays ==
    \A u \in Users :
        gone[u] # None /\ u \notin overlap /\ <<"logout", u>> \notin failed /\ panic = None =>
            /\ ~Connected(u)
            /\ entry[u] = None \/ (gone[u] = "logout" /\ entry[u].auth = None)

Locked(u) == entry[u] # None /\ entry[u].auth # None /\ Valid(entry[u].auth) /\ ~Connected(u)

(* An account of the vault with a live session is connected again after    *)
(* the load that follows a start or a connection that came back, unless    *)
(* its load fails.  (goLoad, onStatusUp, loadUsers.)                       *)
Reloaded ==
    \A u \in Users :
        (goLoad /\ Locked(u)) ~>
            (~Locked(u) \/ <<"load", u>> \in failed \/ panic # None \/ phase # "run"
                \/ Len(object) = MaxObjects)

(* The map of users, the vault, the sessions and the running services      *)
(* agree, whatever logins, logouts, loads and events overlap               *)
(* (bridge/user.go, bridge/user_events.go, vault/user.go).                 *)
UsersAgree == NoOrphan /\ LockedCallsLive /\ TokenKept /\ GoneStays
=============================================================================
