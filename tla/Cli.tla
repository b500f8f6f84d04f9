--------------------------------- MODULE Cli ---------------------------------
(***************************************************************************)
(* The command line frontend: a shell that runs one command at a time, and *)
(* the goroutine that tells the events of the bridge, which remembers the  *)
(* user of a bad event for the next command.  Accounts change under a      *)
(* command: the API can end a session, an event loop can stop.             *)
(***************************************************************************)
EXTENDS Naturals, Sequences, FiniteSets

CONSTANTS Users, None, MaxCmds, MaxEvents

VARIABLES acc,        \* "absent", "out" or "in"
          bad,        \* users whose event loop waits for an answer to a bad event
          evs,        \* events for watchEvents: [kind, u]
          watching,   \* watchEvents runs
          badUser,    \* badUserID
          cmd,        \* the command: [op, at, u, todo, hv]
          check,      \* the update check: "idle", "asked", "busy"
          failedCheck,\* a check failed while checkUpdates waited for it
          live,       \* sessions at the API that no account owns
          givenUp,    \* sessions that a login has left behind, see LeavesSession
          deleted,    \* users that were deleted
          raced,      \* bad events that came while another was being handled
          said,       \* the last thing that was told about deleteAccounts
          asked,      \* the accounts deleteAccounts was called for
          n, m

vars == <<acc, bad, evs, watching, badUser, cmd, check, failedCheck, live, givenUp, deleted,
          raced, said, asked, n, m>>

Prompt == [op |-> "none", at |-> "prompt", u |-> None, todo |-> {}, hv |-> FALSE]
Goes(at) == cmd' = [cmd EXCEPT !.at = at]
Done == cmd' = Prompt

(***************************************************************************)
(* Events of the bridge.                                                   *)
(***************************************************************************)
Publish(k, u) == evs' = Append(evs, [kind |-> k, u |-> u])

UserBadEvent(u) ==
    /\ m < MaxEvents /\ m' = m + 1
    /\ acc[u] = "in" /\ u \notin bad
    /\ bad' = bad \cup {u}
    /\ raced' = (raced \/ bad # {} \/ badUser # None \/ cmd.op = "feedback"
                       \/ \E i \in 1 .. Len(evs) : evs[i].kind = "bad")
    /\ Publish("bad", u)
    /\ UNCHANGED <<acc, watching, badUser, cmd, check, failedCheck, live, givenUp, deleted,
                   said, asked, n>>

UserDeauth(u) ==
    /\ m < MaxEvents /\ m' = m + 1
    /\ acc[u] = "in"
    /\ acc' = [acc EXCEPT ![u] = "out"]
    /\ bad' = bad \ {u}
    /\ Publish("deauth", u)
    /\ UNCHANGED <<watching, badUser, cmd, check, failedCheck, live, givenUp, deleted, raced,
                   said, asked, n>>

(* The events of a sync, an address or a notification.                     *)
UserEvent(u) ==
    /\ m < MaxEvents /\ m' = m + 1
    /\ acc[u] = "in"
    /\ Publish("other", u)
    /\ UNCHANGED <<acc, bad, watching, badUser, cmd, check, failedCheck, live, givenUp,
                   deleted, raced, said, asked, n>>

GetUserInfo(u) == acc[u] # "absent"

(* watchEvents returns for good at the first event of a user that is gone. *)
watchEvents ==
    /\ watching /\ evs # <<>>
    /\ evs' = Tail(evs)
    /\ watching' = GetUserInfo(Head(evs).u)
    /\ badUser' = IF watching' /\ Head(evs).kind = "bad" THEN Head(evs).u ELSE badUser
    /\ UNCHANGED <<acc, bad, cmd, check, failedCheck, live, givenUp, deleted, raced, said, asked, n, m>>

(***************************************************************************)
(* Commands.                                                               *)
(***************************************************************************)
Command(op, at, u, todo) ==
    /\ cmd.at = "prompt" /\ n < MaxCmds /\ n' = n + 1
    /\ cmd' = [op |-> op, at |-> at, u |-> u, todo |-> todo, hv |-> FALSE]

(* Wrong credentials, an account that is signed in, or the verification of *)
(* a human, which is asked for once before the login and once after it.    *)
loginAccount(u) ==
    /\ Command("login", "auth", u, {})
    /\ UNCHANGED <<acc, bad, evs, watching, badUser, check, failedCheck, live, givenUp,
                   deleted, raced, said, asked, m>>

(* A session stays at the API without an account: the command ends at the  *)
(* second factor or the mailbox password, LoginUser cannot unlock the keys *)
(* with the mailbox password, or the session cannot be deleted.            *)
LeavesSession == givenUp' = givenUp + 1

LoginAuth ==
    /\ cmd.at = "auth"
    /\ \/ Done /\ UNCHANGED <<live, givenUp>>
       \/ acc[cmd.u] # "in" /\ live' = live + 1 /\ Goes("factor") /\ UNCHANGED givenUp
       \/ acc[cmd.u] = "in" /\ live' = live + 1 /\ Done /\ LeavesSession   \* AuthDelete fails
    /\ UNCHANGED <<acc, bad, evs, watching, badUser, check, failedCheck, deleted, raced, said,
                   asked, n, m>>

SecondFactor ==
    /\ cmd.at = "factor"
    /\ \/ Goes("user") /\ UNCHANGED givenUp
       \/ Done /\ LeavesSession
    /\ UNCHANGED <<acc, bad, evs, watching, badUser, check, failedCheck, live, deleted, raced,
                   said, asked, n, m>>

(* LoginUser deletes the session of a login that fails, if it can.         *)
EndsSession ==
    \/ live' = live - 1 /\ UNCHANGED givenUp
    \/ LeavesSession /\ UNCHANGED live

(* On ErrFailedToUnlock the session is kept for another try, which the     *)
(* shell does not make.                                                    *)
LoginUser ==
    /\ cmd.at = "user"
    /\ \/ /\ acc' = [acc EXCEPT ![cmd.u] = "in"] /\ live' = live - 1
          /\ Done /\ UNCHANGED givenUp
       \/ EndsSession /\ Done /\ UNCHANGED acc
       \/ LeavesSession /\ Done /\ UNCHANGED <<acc, live>>     \* ErrFailedToUnlock
       \/ /\ ~cmd.hv /\ EndsSession                  \* loginAccountHv starts again
          /\ cmd' = [cmd EXCEPT !.at = "auth", !.hv = TRUE] /\ UNCHANGED acc
    /\ UNCHANGED <<bad, evs, watching, badUser, check, failedCheck, deleted, raced, said, asked,
                   n, m>>

logoutAccount(u) ==
    /\ cmd.at = "prompt" /\ n < MaxCmds /\ n' = n + 1
    /\ acc[u] = "in"
    /\ acc' = [acc EXCEPT ![u] = "out"]
    /\ bad' = bad \ {u}
    /\ UNCHANGED <<evs, watching, badUser, cmd, check, failedCheck, live, givenUp, deleted,
                   raced, said, asked, m>>

(* delete and clear accounts: the IDs are read once; the first error ends  *)
(* the command.                                                            *)
deleteAccounts(us) ==
    /\ Command("delete", "delete", None, us)
    /\ us # {} /\ \A u \in us : acc[u] # "absent"
    /\ said' = "nothing" /\ asked' = us
    /\ UNCHANGED <<acc, bad, evs, watching, badUser, check, failedCheck, live, givenUp,
                   deleted, raced, m>>

AfterError(u) == Done /\ said' = "error"

DeleteUser(u) ==
    /\ cmd.at = "delete" /\ u \in cmd.todo
    /\ \/ /\ acc' = [acc EXCEPT ![u] = "absent"] /\ bad' = bad \ {u}
          /\ deleted' = deleted \cup {u}
          /\ cmd' = [cmd EXCEPT !.todo = @ \ {u}] /\ UNCHANGED said
       \/ AfterError(u) /\ UNCHANGED <<acc, bad, deleted>>
    /\ UNCHANGED <<evs, watching, badUser, check, failedCheck, live, givenUp, raced, asked, n, m>>

Cleared ==
    /\ cmd.at = "delete" /\ cmd.todo = {}
    /\ said' = "cleared" /\ Done
    /\ UNCHANGED <<acc, bad, evs, watching, badUser, check, failedCheck, live, givenUp,
                   deleted, raced, asked, n, m>>

(* bad-event synchronize and logout.                                       *)
badEventFeedback ==
    /\ badUser # None
    /\ Command("feedback", "feedback", badUser, {})
    /\ UNCHANGED <<acc, bad, evs, watching, badUser, check, failedCheck, live, givenUp,
                   deleted, raced, said, asked, m>>

(* A mutant that forgets the user even when the answer was not taken.      *)
MutRefused == Goes("forget")

Refused == Done

(* A user that is not connected does not take the answer; a resync can     *)
(* fail as well.                                                           *)
SendBadEventUserFeedback ==
    /\ cmd.at = "feedback"
    /\ \/ /\ acc[cmd.u] = "in" /\ bad' = bad \ {cmd.u} /\ Goes("forget")
          /\ \/ UNCHANGED acc                              \* synchronize
             \/ acc' = [acc EXCEPT ![cmd.u] = "out"]       \* logout
       \/ Refused /\ UNCHANGED <<acc, bad>>
    /\ UNCHANGED <<evs, watching, badUser, check, failedCheck, live, givenUp, deleted, raced,
                   said, asked, n, m>>

Forget ==
    /\ cmd.at = "forget"
    /\ badUser' = None /\ Done
    /\ UNCHANGED <<acc, bad, evs, watching, check, failedCheck, live, givenUp, deleted, raced,
                   said, asked, n, m>>

(* updates check: waits for UpdateAvailable or UpdateNotAvailable.         *)
checkUpdates ==
    /\ Command("check", "wait", None, {})
    /\ check' = IF check = "idle" THEN "asked" ELSE check
    /\ UNCHANGED <<acc, bad, evs, watching, badUser, failedCheck, live, givenUp, deleted,
                   raced, said, asked, m>>

CheckStarts ==
    /\ check = "asked" /\ check' = "busy"
    /\ UNCHANGED <<acc, bad, evs, watching, badUser, cmd, failedCheck, live, givenUp, deleted,
                   raced, said, asked, n, m>>

Heard(found) == TRUE

CheckEnds ==
    /\ check = "busy" /\ check' = "idle"
    /\ \/ \E found \in BOOLEAN :
            IF cmd.at = "wait" /\ Heard(found) THEN Done /\ UNCHANGED failedCheck
            ELSE UNCHANGED <<cmd, failedCheck>>
       \/ failedCheck' = (failedCheck \/ cmd.at = "wait") /\ UNCHANGED cmd
    /\ UNCHANGED <<acc, bad, evs, watching, badUser, live, givenUp, deleted, raced, said, asked, n, m>>

Init ==
    /\ acc \in [Users -> {"absent", "in"}]
    /\ bad = {} /\ evs = <<>> /\ watching = TRUE /\ badUser = None /\ cmd = Prompt
    /\ check = "idle" /\ failedCheck = FALSE /\ live = 0 /\ givenUp = 0 /\ deleted = {}
    /\ raced = FALSE /\ said = "nothing" /\ asked = {} /\ n = 0 /\ m = 0

(* What the program does without the user.                                 *)
Step ==
    \/ LoginAuth \/ SecondFactor \/ LoginUser \/ Cleared \/ SendBadEventUserFeedback
    \/ Forget \/ CheckStarts \/ CheckEnds
    \/ \E u \in Users : DeleteUser(u)

Next ==
    \/ Step \/ watchEvents
    \/ \E u \in Users :
        \/ UserBadEvent(u) \/ UserDeauth(u) \/ UserEvent(u)
        \/ loginAccount(u) \/ logoutAccount(u)
    \/ \E us \in SUBSET Users : deleteAccounts(us)
    \/ badEventFeedback \/ checkUpdates

Spec == Init /\ [][Next]_vars /\ WF_vars(Step) /\ WF_vars(watchEvents)

(***************************************************************************)
(* Properties.                                                             *)
(***************************************************************************)
(* A user whose event loop waits for an answer can be answered: the shell  *)
(* knows it or has its event.  (badUserID holds one user only: a second    *)
(* bad event, or one that comes before badEventFeedback forgets the first, *)
(* is lost, and so are all of them once watchEvents has returned.)         *)
BadUserKnown ==
    \A u \in bad :
        watching /\ ~raced =>
            badUser = u \/ \E i \in 1 .. Len(evs) : evs[i] = [kind |-> "bad", u |-> u]

(* The shell goes on telling events until an account is deleted: an event  *)
(* that was on its way then ends watchEvents.                              *)
WatchesUntilDelete == watching \/ deleted # {}

(* The only sessions at the API that no account owns are those a login has *)
(* left behind: it ended at the second factor or the mailbox password, the *)
(* keys could not be unlocked, or the API did not delete the session.  All *)
(* other logins end with an account or without a session.                  *)
SessionsOwned == cmd.at = "prompt" => live = givenUp

(* "Keychain cleared" is said only if every account is gone that was there *)
(* when the command began.  (deleteAccounts returns at the first error.)   *)
ClearedStep == said' = "cleared" /\ said # "cleared" => \A u \in asked : acc[u] = "absent"

(* The shell always comes back, unless an update check fails while it is   *)
(* waited for: nobody tells checkUpdates, which hangs till the next check. *)
Prompted == cmd.at = "prompt" \/ failedCheck
=============================================================================
