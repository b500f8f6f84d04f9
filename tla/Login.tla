-------------------------------- MODULE Login --------------------------------
(***************************************************************************)
(* The login dialog of the gRPC service.  Every call runs in a goroutine   *)
(* of its own and they share the session, the password and the counters    *)
(* without a lock.  A handler tells the GUI its result before its deferred *)
(* cleaning runs, so the next call can start in between.  The GUI follows  *)
(* the dialog: it makes the call the last event asked for, or aborts.      *)
(* The session that call n of Login got is called n.                       *)
(***************************************************************************)
EXTENDS Naturals, FiniteSets

CONSTANTS MaxCalls, MaxAttempts, None

Calls == 1 .. MaxCalls

VARIABLES sessions,  \* state of a session at the API and what its account needs
          auth,      \* s.auth and s.authClient: None or a session
          pass,      \* s.password: None or [id, of]
          zeroed,    \* password buffers that were overwritten
          count,     \* twoPasswordAttemptCount
          h,         \* the handlers
          told,      \* the last event the GUI got: [what, of]
          n,         \* calls so far
          overlap,   \* a call came while a handler was running
          fast,      \* the key was touched before the GUI could ask for it
          mixed      \* LoginUser got the password of another login

vars == <<sessions, auth, pass, zeroed, count, h, told, n, overlap, fast, mixed>>

NoSession == [state |-> "none", two |-> FALSE, wrong |-> 0]
NoCall    == [op |-> "none", at |-> "done", sess |-> None, buf |-> None]
InFlight(c) == h[c].at \notin {"done", "panic"}

Tell(what, of) == told' = [what |-> what, of |-> of]
Goes(c, at) == h' = [h EXCEPT ![c] = IF at = "done" THEN NoCall ELSE [@ EXCEPT !.at = at]]

(***************************************************************************)
(* Calls of the GUI.                                                       *)
(***************************************************************************)
Over == {"idle", "undecodable", "password error", "finished", "abort", "tries over",
         "fido error", "fido off", "hv error", "hv lost"}
AskedFor(op) ==
    CASE op = "login" -> Over \cup {"hv"}
      [] op = "2fa"   -> {"totp", "either", "2fa error"}
      [] op = "fido"  -> {"fido", "either", "pin", "pin error"}
      [] op = "2pw"   -> {"2pw", "2pw error"}
      [] op = "abort" -> {"idle", "hv", "totp", "either", "2fa error", "fido", "pin",
                          "pin error", "2pw", "2pw error"}

CallFrom(op) ==
    /\ n < MaxCalls /\ told.what \in AskedFor(op)
    /\ n' = n + 1
    /\ overlap' = (overlap \/ \E c \in Calls : InFlight(c))
    /\ h' = [h EXCEPT ![n + 1] = [op |-> op, at |-> "start", sess |-> None, buf |-> None]]
    /\ Tell(IF op = "abort" THEN "idle" ELSE "wait", told.of)
    /\ UNCHANGED <<sessions, auth, pass, zeroed, count, fast, mixed>>

(* The user gives up a dialog that is waiting for a handler.               *)
LoginAbort ==
    /\ n < MaxCalls /\ told.what = "wait"
    /\ n' = n + 1 /\ overlap' = TRUE
    /\ h' = [h EXCEPT ![n + 1] = [op |-> "abort", at |-> "start", sess |-> None, buf |-> None]]
    /\ Tell("idle", told.of)
    /\ UNCHANGED <<sessions, auth, pass, zeroed, count, fast, mixed>>

Cleaned ==
    /\ auth' = None
    /\ zeroed' = IF pass = None THEN zeroed ELSE zeroed \cup {pass.id}
    /\ pass' = None

loginClean(c) ==
    /\ h[c].at = "clean" \/ (h[c].op = "abort" /\ h[c].at = "start")
    /\ Cleaned
    /\ Goes(c, "done")
    /\ UNCHANGED <<sessions, count, told, n, overlap, fast, mixed>>

(***************************************************************************)
(* Login.                                                                  *)
(***************************************************************************)
Starts(c, op) == h[c].op = op /\ h[c].at = "start"

NewCount == count' = 0

LoginDecode(c) ==
    /\ Starts(c, "login")
    /\ NewCount
    /\ \/ Goes(c, "auth") /\ UNCHANGED told
       \/ Goes(c, "done") /\ Tell("undecodable", c)
    /\ UNCHANGED <<sessions, auth, pass, zeroed, n, overlap, fast, mixed>>

(* A request for human verification, whose details may be unreadable.      *)
VerifyAndExtractHvRequest == {"hv", "hv error"}

LoginAuthFails(c) ==
    /\ h[c].at = "auth"
    /\ \E e \in {"password error"} \cup VerifyAndExtractHvRequest : Tell(e, c)
    /\ Goes(c, "clean")
    /\ UNCHANGED <<sessions, auth, pass, zeroed, count, n, overlap, fast, mixed>>

Hold(c) == auth' = c /\ pass' = [id |-> c, of |-> c]

(* What is asked next, by the second factor of the account and by whether  *)
(* the feature flag lets security keys in.                                 *)
LoginAuth(c) ==
    \E factor \in {"none", "totp", "fido", "either"}, two \in BOOLEAN, u2f \in BOOLEAN :
        /\ h[c].at = "auth"
        /\ sessions' = [sessions EXCEPT ![c] = [state |-> "live", two |-> two, wrong |-> 0]]
        /\ Hold(c)
        /\ CASE factor = "totp" -> Tell("totp", c) /\ Goes(c, "done")
             [] factor = "fido" -> Tell(IF u2f THEN "fido" ELSE "fido off", c) /\ Goes(c, "done")
             [] factor = "either" -> Tell(IF u2f THEN "either" ELSE "totp", c) /\ Goes(c, "done")
             [] factor = "none" /\ two -> Tell("2pw", c) /\ Goes(c, "done")
             [] OTHER -> Goes(c, "finish") /\ UNCHANGED told
        /\ UNCHANGED <<zeroed, count, n, overlap, fast, mixed>>

(***************************************************************************)
(* The second factor: a code or a security key.                            *)
(***************************************************************************)
Missing(c, op, what) ==
    /\ Starts(c, op) /\ auth = None
    /\ Tell(what, told.of) /\ Goes(c, "clean")
    /\ UNCHANGED <<sessions, auth, pass, zeroed, count, n, overlap, fast, mixed>>

SecondFactorDone(c) ==
    IF sessions[auth].two THEN Tell("2pw", auth) /\ Goes(c, "done")
    ELSE Goes(c, "finish") /\ UNCHANGED told

Login2FA(c) ==
    /\ Starts(c, "2fa") /\ auth # None
    /\ \/ Tell("password error", auth) /\ Goes(c, "clean")   \* cannot be decoded
       \/ Tell("2fa error", auth) /\ Goes(c, "done")
       \/ Tell("abort", auth) /\ Goes(c, "clean")
       \/ SecondFactorDone(c)
    /\ UNCHANGED <<sessions, auth, pass, zeroed, count, n, overlap, fast, mixed>>

(* The key is touched, after the GUI was told to ask for it or before.     *)
Touched(asked) == fast' = (fast \/ ~asked)

(* No answer if the assertion is cancelled.  A key that is touched within  *)
(* touchNotificationDelay finds no reader of touchConfirmCh.               *)
AuthWithHardwareKeyGUI(c) ==
    \/ Tell("fido", auth) /\ Goes(c, "done") /\ UNCHANGED fast
    \/ Touched(TRUE) /\ SecondFactorDone(c)
    \/ Touched(FALSE) /\ Goes(c, "stuck") /\ UNCHANGED told

(* The device, the challenge and the assertion, each of which may fail.    *)
performAssertion(c) ==
    \/ Tell("pin error", auth) /\ Goes(c, "done")
    \/ Tell("fido error", auth) /\ Goes(c, "clean")

LoginFido(c) ==
    /\ Starts(c, "fido") /\ auth # None
    /\ \/ Tell("pin", auth) /\ Goes(c, "done") /\ UNCHANGED fast
       \/ performAssertion(c) /\ UNCHANGED fast
       \/ AuthWithHardwareKeyGUI(c)
    /\ UNCHANGED <<sessions, auth, pass, zeroed, count, n, overlap, mixed>>

Login2Passwords(c) ==
    /\ Starts(c, "2pw")
    /\ \/ Tell("password error", told.of) /\ Goes(c, "clean") /\ UNCHANGED pass
       \/ pass' = [id |-> c, of |-> told.of] /\ Goes(c, "finish") /\ UNCHANGED told
    /\ UNCHANGED <<sessions, auth, zeroed, count, n, overlap, fast, mixed>>

(***************************************************************************)
(* finishLogin: the fields are checked, and read again for LoginUser.      *)
(***************************************************************************)
finishLogin(c) ==
    /\ h[c].at = "finish"
    /\ IF pass = None \/ auth = None THEN Tell("abort", told.of) /\ Goes(c, "clean")
       ELSE Goes(c, "call") /\ UNCHANGED told
    /\ UNCHANGED <<sessions, auth, pass, zeroed, count, n, overlap, fast, mixed>>

LoginUser(c) ==
    /\ h[c].at = "call"
    /\ h' = [h EXCEPT ![c].at = IF auth = None THEN "panic" ELSE "adding",
                      ![c].sess = auth, ![c].buf = IF pass = None THEN None ELSE pass.id]
    /\ mixed' = (mixed \/ (auth # None /\ pass # None /\ pass.of # auth))
    /\ UNCHANGED <<sessions, auth, pass, zeroed, count, told, n, overlap, fast>>

EndSession(s) == sessions' = [sessions EXCEPT ![s].state = "ended"]

LoginUserDone(c) ==
    /\ h[c].at = "adding" /\ h[c].buf # None /\ h[c].buf \notin zeroed
    /\ sessions[h[c].sess].state = "live"
    /\ sessions' = [sessions EXCEPT ![h[c].sess].state = "user"]
    /\ Tell("finished", h[c].sess) /\ Goes(c, "clean")
    /\ UNCHANGED <<auth, pass, zeroed, count, n, overlap, fast, mixed>>

(* LoginUser ends the session.  After a request for human verification the *)
(* fields stay as they are.                                                *)
LoginUserFails(c) ==
    /\ h[c].at = "adding"
    /\ EndSession(h[c].sess)
    /\ \/ Tell("hv", h[c].sess) /\ Goes(c, "done") /\ UNCHANGED count
       \/ Tell("hv lost", h[c].sess) /\ Goes(c, "done") /\ UNCHANGED count
       \/ Tell("hv error", h[c].sess) /\ Goes(c, "clean") /\ UNCHANGED count
       \/ Tell("abort", h[c].sess) /\ Goes(c, "clean") /\ count' = count + 1
    /\ UNCHANGED <<auth, pass, zeroed, n, overlap, fast, mixed>>

(* A mutant that allows one try more.                                      *)
MutMayRetry(k) == k <= MaxAttempts

MayRetry(k) == k < MaxAttempts

(* The password does not unlock the keys: three tries for a session, which *)
(* is ended then.                                                          *)
FailedToUnlock(c) ==
    /\ h[c].at = "adding" /\ sessions[h[c].sess].state = "live"
    /\ count' = count + 1
    /\ IF MayRetry(count + 1)
       THEN /\ sessions' = [sessions EXCEPT ![h[c].sess].wrong = @ + 1]
            /\ Tell("2pw error", h[c].sess) /\ Goes(c, "done")
       ELSE /\ sessions' = [sessions EXCEPT ![h[c].sess].wrong = @ + 1,
                                            ![h[c].sess].state = "ended"]
            /\ Tell("tries over", h[c].sess) /\ Goes(c, "clean")
    /\ UNCHANGED <<auth, pass, zeroed, n, overlap, fast, mixed>>

Init ==
    /\ sessions = [c \in Calls |-> NoSession]
    /\ auth = None /\ pass = None /\ zeroed = {}
    /\ count = 0
    /\ h = [c \in Calls |-> NoCall]
    /\ told = [what |-> "idle", of |-> 1] /\ n = 0
    /\ overlap = FALSE /\ fast = FALSE /\ mixed = FALSE

Handler(c) ==
    \/ loginClean(c) \/ LoginDecode(c) \/ LoginAuthFails(c) \/ LoginAuth(c)
    \/ Missing(c, "2fa", "abort") \/ Missing(c, "fido", "fido error")
    \/ Login2FA(c) \/ LoginFido(c) \/ Login2Passwords(c)
    \/ finishLogin(c) \/ LoginUser(c) \/ LoginUserDone(c) \/ LoginUserFails(c)
    \/ FailedToUnlock(c)

Next ==
    \/ \E op \in {"login", "2fa", "fido", "2pw", "abort"} : CallFrom(op)
    \/ LoginAbort
    \/ \E c \in Calls : Handler(c)

Spec == Init /\ [][Next]_vars /\ \A c \in Calls : WF_vars(Handler(c))

(***************************************************************************)
(* Properties.                                                             *)
(***************************************************************************)
AtRest == \A c \in Calls : ~InFlight(c)

(* A session never sees more than three wrong mailbox passwords, and every *)
(* session has its three.  (twoPasswordAttemptCount is reset by Login and  *)
(* the third failure deletes the session.)                                 *)
TriesBounded ==
    ~overlap =>
        /\ \A s \in Calls : sessions[s].wrong <= MaxAttempts
        /\ \A s \in Calls : sessions[s].wrong = MaxAttempts => sessions[s].state = "ended"
        /\ told.what = "tries over" => sessions[told.of].wrong = MaxAttempts

(* When the dialog is over, the service keeps no password and no session.  *)
(* (loginClean; not if a security key is needed but not allowed, nor if a  *)
(* request for human verification cannot be read: they return without it,  *)
(* and a login whose password cannot be decoded leaves what they left.)    *)
SecretsGone ==
    ~overlap /\ AtRest /\ told.what \in Over \ {"fido off", "hv lost", "undecodable"} =>
        auth = None /\ pass = None

(* LoginUser gets a session and the password that was given for it, as     *)
(* long as the calls of two dialogs do not overlap.                        *)
OwnPassword == mixed => overlap

(* Every call is answered, unless the security key is touched before the   *)
(* GUI is told to ask for it: nobody takes the confirmation then.          *)
Quiet == AtRest \/ fast
=============================================================================
