----------------------------- MODULE SmtpAccounts ----------------------------
(***************************************************************************)
(* The SMTP sessions, the table of accounts they share, and the goroutines *)
(* that change it: the SMTP service loop of each user                      *)
(* (internal/services/smtp) and the loop of the server manager             *)
(* (internal/services/imapsmtpserver).                                     *)
(*                                                                         *)
(* A session holds the table's read lock while it calls a service loop,    *)
(* with a context that is never cancelled.  A loop that handles a logout   *)
(* calls the server manager, which takes the write lock.  Requests are     *)
(* channel procedure calls (pkg/cpc): the caller offers its request until  *)
(* the loop takes it and then waits for the reply.                         *)
(***************************************************************************)
EXTENDS Integers, FiniteSets

CONSTANTS
    Users,
    Sessions,
    NoUser,
    MaxFailedCommands,      \* maxFailedCommands
    ErrTimeout,             \* errTimeout
    SuccessiveErrInterval,  \* successiveErrInterval
    MaxTime,                \* bound: the clock stops here
    Logouts,                \* users that may log out
    Closes                  \* users that are closed when the bridge is

(* The limits of accounts.go are positive numbers, and a server has finitely *)
(* many connections.                                                         *)
ASSUME AccountsAssumption ==
    /\ IsFiniteSet(Sessions)
    /\ NoUser \notin Users
    /\ MaxFailedCommands \in Nat \ {0}
    /\ ErrTimeout \in Nat
    /\ SuccessiveErrInterval \in Nat
    /\ MaxTime \in Nat

VARIABLES
    now,        \* the clock
    accounts,   \* the users in the table
    errors,     \* of each account: errCounter and lastRequest
    session,    \* the SMTP sessions
    loop,       \* the SMTP service loop of each user
    user,       \* how far each user's login or logout is
    ctxDone,    \* the service loop's context is cancelled
    manager     \* the loop of the server manager, and the user it serves

vars == <<now, accounts, errors, session, loop, user, ctxDone, manager>>

NoErrors == [count |-> 0, last |-> 0]

(***************************************************************************)
(* A session: login is the account its credentials belong to, to the user  *)
(* whose loop it calls, asked the accounts that have rejected it, at the   *)
(* requestTime, told whether its last mail was reported as sent, and sent  *)
(* whether it was.                                                         *)
(***************************************************************************)
SessionAt(pc, u) == [pc |-> pc, login |-> u, to |-> NoUser, asked |-> {},
                     at |-> 0, told |-> FALSE, sent |-> FALSE]
NewSession(u) == SessionAt("new", u)

(* The sessions inside CheckAuth or SendMail hold the read lock. *)
Readers == {s \in Sessions : session[s].pc \in {"auth", "send", "wait", "result"}}

(* A writer that waits keeps new readers out. *)
CanRLock == manager.pc # "lock"

(* The session is between two calls. *)
Set(s, pc) == session' = [session EXCEPT ![s] = SessionAt(pc, @.login)]

-----------------------------------------------------------------------------

(* The bridge has loaded some of its users; the others may log in. *)
Init ==
    /\ now = 0
    /\ accounts \in SUBSET Users
    /\ errors = [u \in Users |-> NoErrors]
    /\ session \in {[s \in Sessions |-> NewSession(f[s])] : f \in [Sessions -> Users]}
    /\ loop = [u \in Users |-> [pc |-> IF u \in accounts THEN "select" ELSE "off",
                                client |-> {}]]
    /\ user = [u \in Users |-> IF u \in accounts THEN "on" ELSE "off"]
    /\ ctxDone = [u \in Users |-> FALSE]
    /\ manager = [pc |-> "select", user |-> NoUser]

Tick ==
    /\ now < MaxTime
    /\ now' = now + 1
    /\ UNCHANGED <<accounts, errors, session, loop, user, ctxDone, manager>>

-----------------------------------------------------------------------------
(* Authentication. *)

(* CheckAuth takes the read lock and turns to some account.  Without any   *)
(* account it returns an error, and nothing changes.                       *)
CheckAuth(s) ==
    /\ session[s].pc = "new"
    /\ CanRLock
    /\ \E u \in accounts : session' = [session EXCEPT ![s].pc = "auth",
                                                      ![s].to = u,
                                                      ![s].asked = {}]
    /\ UNCHANGED <<now, accounts, errors, loop, user, ctxDone, manager>>

(* The loop takes checkAuthReq and replies.  The session is authenticated, *)
(* or turns to the next account, or has been rejected by all of them.  A   *)
(* reply that is dropped counts as a rejection.                            *)
CheckAuthReply(s) ==
    LET u == session[s].to
        rest == accounts \ (session[s].asked \cup {u})
    IN  /\ session[s].pc = "auth"
        /\ loop[u].pc = "select"
        /\ \/ /\ session[s].login = u
              /\ Set(s, "ready")
           \/ /\ session[s].login # u \/ ctxDone[u]
              /\ rest # {}
              /\ \E v \in rest :
                    session' = [session EXCEPT ![s].to = v,
                                               ![s].asked = @ \cup {u}]
           \/ /\ session[s].login # u \/ ctxDone[u]
              /\ rest = {}
              /\ Set(s, "new")
        /\ UNCHANGED <<now, accounts, errors, loop, user, ctxDone, manager>>

-----------------------------------------------------------------------------
(* Sending. *)

(* After too many errors an account is locked for a while. *)
canMakeRequest(u) == \/ errors[u].count < MaxFailedCommands
                     \/ now - errors[u].last >= ErrTimeout

(* SendMail takes the read lock, finds the account and may make a request. *)
(* Otherwise it returns an error, and nothing changes.                     *)
SendMail(s) ==
    LET u == session[s].login IN
    /\ session[s].pc = "ready"
    /\ CanRLock
    /\ u \in accounts
    /\ canMakeRequest(u)
    /\ errors' = [errors EXCEPT ![u].count =
                    IF @ >= MaxFailedCommands THEN 0 ELSE @]
    /\ session' = [session EXCEPT ![s].pc = "send", ![s].to = u, ![s].at = now]
    /\ UNCHANGED <<now, accounts, loop, user, ctxDone, manager>>

(* The client ends its session. *)
Disconnect(s) ==
    /\ session[s].pc = "ready"
    /\ Set(s, "new")
    /\ UNCHANGED <<now, accounts, errors, loop, user, ctxDone, manager>>

(* The loop takes sendMailReq. *)
ReceiveSendMail(s) ==
    LET u == session[s].to IN
    /\ session[s].pc = "send"
    /\ loop[u].pc = "select"
    /\ loop' = [loop EXCEPT ![u] = [pc |-> "serve", client |-> {s}]]
    /\ session' = [session EXCEPT ![s].pc = "wait"]
    /\ UNCHANGED <<now, accounts, errors, user, ctxDone, manager>>

(* smtpSendMail returns and the loop replies.  If its context is cancelled *)
(* the reply may be dropped; the channel is closed all the same, and the   *)
(* session reads a reply without an error.                                 *)
ReplySendMail(u) ==
    /\ loop[u].pc = "serve"
    /\ \E s \in loop[u].client, sent \in BOOLEAN, dropped \in BOOLEAN :
          /\ dropped => ctxDone[u]
          /\ session' = [session EXCEPT ![s].pc = "result", ![s].sent = sent,
                                        ![s].told = sent \/ dropped]
    /\ loop' = [loop EXCEPT ![u] = [pc |-> "select", client |-> {}]]
    /\ UNCHANGED <<now, accounts, errors, user, ctxDone, manager>>

(* Mutant: an error leaves the session inside the read lock. *)
handleSMTPErrKeepsLock(s) ==
    LET u == session[s].to
        at == session[s].at
    IN  /\ session[s].pc = "result"
        /\ session[s].told
        /\ errors' = [errors EXCEPT ![u] = [last |-> at, count |-> 0]]
        /\ Set(s, "ready")
        /\ UNCHANGED <<now, accounts, loop, user, ctxDone, manager>>

(* handleSMTPErr, and the read lock is released. *)
handleSMTPErr(s) ==
    LET u == session[s].to
        at == session[s].at
    IN  /\ session[s].pc = "result"
        /\ errors' = [errors EXCEPT ![u] =
              [last  |-> at,
               count |-> IF \/ session[s].told
                            \/ at - errors[u].last > SuccessiveErrInterval
                            THEN 0 ELSE errors[u].count + 1]]
        /\ Set(s, "ready")
        /\ UNCHANGED <<now, accounts, loop, user, ctxDone, manager>>

(* A request is offered to a channel that is closed: the session panics    *)
(* and its connection ends.                                                *)
SendOnClosed(s) ==
    /\ session[s].pc \in {"auth", "send"}
    /\ loop[session[s].to].pc = "closed"
    /\ Set(s, "new")
    /\ UNCHANGED <<now, accounts, errors, loop, user, ctxDone, manager>>

-----------------------------------------------------------------------------
(* Login, logout and shutdown. *)

(* Start asks the server manager to add the account. *)
AddSMTPAccount(u) ==
    /\ user[u] = "off"
    /\ manager.pc = "select"
    /\ user' = [user EXCEPT ![u] = "adding"]
    /\ manager' = [pc |-> "lock", user |-> u]
    /\ UNCHANGED <<now, accounts, errors, session, loop, ctxDone>>

(* AddAccount has the write lock; the service loop is started. *)
AddAccount(u) ==
    /\ manager = [pc |-> "lock", user |-> u]
    /\ user[u] = "adding"
    /\ Readers = {}
    /\ accounts' = accounts \cup {u}
    /\ errors' = [errors EXCEPT ![u] = NoErrors]
    /\ loop' = [loop EXCEPT ![u].pc = "select"]
    /\ user' = [user EXCEPT ![u] = "on"]
    /\ manager' = [pc |-> "select", user |-> NoUser]
    /\ UNCHANGED <<now, session, ctxDone>>

Logout(u) ==
    /\ u \in Logouts
    /\ user[u] = "on"
    /\ user' = [user EXCEPT ![u] = "logout"]
    /\ UNCHANGED <<now, accounts, errors, session, loop, ctxDone, manager>>

(* The service loop takes onLogoutReq, ... *)
OnLogout(u) ==
    /\ user[u] = "logout"
    /\ loop[u].pc = "select"
    /\ loop' = [loop EXCEPT ![u].pc = "logout"]
    /\ UNCHANGED <<now, accounts, errors, session, user, ctxDone, manager>>

(* ... calls the server manager, ... *)
RemoveSMTPAccount(u) ==
    /\ loop[u].pc = "logout"
    /\ manager.pc = "select"
    /\ manager' = [pc |-> "lock", user |-> u]
    /\ UNCHANGED <<now, accounts, errors, session, loop, user, ctxDone>>

(* Mutant: the account is removed without the write lock. *)
RemoveAccountUnlocked(u) ==
    /\ manager = [pc |-> "lock", user |-> u]
    /\ loop[u].pc = "logout"
    /\ accounts' = accounts \ {u}
    /\ manager' = [pc |-> "select", user |-> NoUser]
    /\ loop' = [loop EXCEPT ![u].pc = "select"]
    /\ user' = [user EXCEPT ![u] = "cancelled"]
    /\ ctxDone' = [ctxDone EXCEPT ![u] = TRUE]
    /\ UNCHANGED <<now, errors, session>>

(* ... which takes the write lock and removes the account.  Then the       *)
(* service loop is cancelled.                                              *)
RemoveAccount(u) ==
    /\ manager = [pc |-> "lock", user |-> u]
    /\ loop[u].pc = "logout"
    /\ Readers = {}
    /\ accounts' = accounts \ {u}
    /\ manager' = [pc |-> "select", user |-> NoUser]
    /\ loop' = [loop EXCEPT ![u].pc = "select"]
    /\ user' = [user EXCEPT ![u] = "cancelled"]
    /\ ctxDone' = [ctxDone EXCEPT ![u] = TRUE]
    /\ UNCHANGED <<now, errors, session>>

(* The bridge closes its users, and after them the servers: the account    *)
(* stays in the table.                                                     *)
Close(u) ==
    /\ u \in Closes
    /\ user[u] = "on"
    /\ user' = [user EXCEPT ![u] = "cancelled"]
    /\ ctxDone' = [ctxDone EXCEPT ![u] = TRUE]
    /\ UNCHANGED <<now, accounts, errors, session, loop, manager>>

(* The loop finds its context cancelled and closes its channel. *)
ExitLoop(u) ==
    /\ loop[u].pc = "select"
    /\ ctxDone[u]
    /\ loop' = [loop EXCEPT ![u].pc = "closed"]
    /\ UNCHANGED <<now, accounts, errors, session, user, ctxDone, manager>>

-----------------------------------------------------------------------------

SessionStep(s) ==
    \/ CheckAuthReply(s)
    \/ ReceiveSendMail(s)
    \/ handleSMTPErr(s)
    \/ SendOnClosed(s)

LogoutStep(u) == OnLogout(u) \/ RemoveSMTPAccount(u) \/ ExitLoop(u)

LoopStep(u) == ReplySendMail(u) \/ LogoutStep(u)

ManagerStep(u) == AddAccount(u) \/ RemoveAccount(u)

Next ==
    \/ Tick
    \/ \E s \in Sessions : CheckAuth(s) \/ SendMail(s) \/ Disconnect(s)
                           \/ SessionStep(s)
    \/ \E u \in Users : \/ AddSMTPAccount(u) \/ Logout(u) \/ Close(u)
                        \/ LoopStep(u) \/ ManagerStep(u)

Spec == Init /\ [][Next]_vars

(***************************************************************************)
(* The loops and the sessions run.  A request competes with others at the  *)
(* select of a loop, and callers blocked on a channel are served in the    *)
(* order in which they arrived: strong fairness.  (A user takes each of    *)
(* the steps of LogoutStep at most once.)  Clients start what they like.   *)
(***************************************************************************)
Fairness ==
    /\ \A s \in Sessions : SF_vars(SessionStep(s))
    /\ \A u \in Users : /\ SF_vars(LogoutStep(u))
                        /\ WF_vars(ReplySendMail(u))
                        /\ WF_vars(ManagerStep(u))

FairSpec == Spec /\ Fairness

-----------------------------------------------------------------------------

(* The types of the variables; a client of a loop is a session. *)
TypeOK ==
    /\ now \in 0..MaxTime
    /\ accounts \subseteq Users
    /\ errors \in [Users -> [count : Nat, last : 0..MaxTime]]
    /\ session \in [Sessions -> [pc : {"new", "auth", "ready", "send", "wait", "result"},
                                 login : Users, to : Users \cup {NoUser},
                                 asked : SUBSET Users, at : 0..MaxTime,
                                 told : BOOLEAN, sent : BOOLEAN]]
    /\ loop \in [Users -> [pc : {"off", "select", "serve", "logout", "closed"},
                           client : SUBSET Sessions]]
    /\ user \in [Users -> {"off", "adding", "on", "logout", "cancelled"}]
    /\ ctxDone \in [Users -> BOOLEAN]
    /\ manager \in [pc : {"select", "lock"}, user : Users \cup {NoUser}]

(* The read lock keeps an account in the table for as long as a session   *)
(* is calling its service.  So a user who logs out has no callers left     *)
(* when the service loop ends (cpc: "Close closes the CPC channel and no   *)
(* further requests should be made"); only the account of a user that is   *)
(* closed with the bridge stays in the table, and can be called after.     *)
CallsGoToAccounts == \A s \in Readers : session[s].to \in accounts

(* A client that is told its mail was sent was told the truth, unless the  *)
(* service was being cancelled: then the reply may be dropped, and a       *)
(* dropped reply reads as a success.                                       *)
MisinformedOnlyAtClose ==
    \A s \in Sessions :
       session[s].told => session[s].sent \/ ctxDone[session[s].to]

(* The limit holds for all sessions of an account together: however many   *)
(* of them fail at once, the counter passes it by at most one request per  *)
(* session that was let in before.                                         *)
ErrorsBounded ==
    \A u \in Users :
       errors[u].count + Cardinality({s \in Sessions :
             session[s].pc \in {"send", "wait", "result"} /\ session[s].to = u})
       < MaxFailedCommands + Cardinality(Sessions)

(* cpc: "Send sends a request which expects a reply."  A session that      *)
(* called a service gets out of the call and releases the read lock, and   *)
(* the server manager gets the write lock and returns to its requests.     *)
RequestReturns ==
    /\ \A s \in Sessions : (s \in Readers) ~> (s \notin Readers)
    /\ (manager.pc = "lock") ~> (manager.pc = "select")

(* As RequestReturns, with the one exception that is known: a call may be  *)
(* held up by a service loop that is handling a logout.  Requests of other *)
(* sessions, logins and the closing of users never hold it up.             *)
OnlyLogoutBlocks ==
    LET loggingOut == \E u \in Users : loop[u].pc = "logout"
    IN  /\ \A s \in Sessions : (s \in Readers) ~> (s \notin Readers \/ loggingOut)
        /\ (manager.pc = "lock") ~> (manager.pc = "select" \/ loggingOut)

(* What the sessions of the accounts rely on: services that can be called, *)
(* true answers, and a limit on errors (smtp/accounts.go).                 *)
SessionsServed ==
    TypeOK /\ CallsGoToAccounts /\ MisinformedOnlyAtClose /\ ErrorsBounded
=============================================================================
