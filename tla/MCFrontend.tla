----------------------------- MODULE MCFrontend -----------------------------
(* The two frontends: the gRPC service of the graphical interface, with its
   event stream, its login and its settings, and the command line. They do not
   share state that is modelled here, so one run takes them one at a time.
   The property of the settings is that of their module. *)
EXTENDS Settings

CONSTANTS None, u1, u2

VARIABLES
  part,     \* the part of the program this behaviour is about
  ch, closed, queue, qlock, snd, flush, str, quit, doneCh, doneClosed, done, pidDone, status, shownStream, sent, got, sendsStream,
  hurt, server,
  sessions, auth, pass, zeroed, count, h, told, nLogin, overlap, fast, mixed,
  acc, bad, evs, watching, badUser, cmd, check, failedCheck, live, givenUp, deleted, raced, said, asked, nCli, m

Stream == INSTANCE EventStream WITH
  shown <- shownStream, sends <- sendsStream, Streams <- {1}, MaxSends <- 2, NoChan <- None
(* Two calls of RunEventStream, one after the other or at once, without
   events. *)
Pair == INSTANCE EventStream WITH
  shown <- shownStream, sends <- sendsStream, Streams <- {1, 2}, MaxSends <- 0, NoChan <- None
Login == INSTANCE Login WITH
  n <- nLogin, MaxCalls <- 3, MaxAttempts <- 2
Cli == INSTANCE Cli WITH
  n <- nCli, Users <- {u1, u2}, MaxCmds <- 2, MaxEvents <- 3

streamVars == <<ch, closed, queue, qlock, snd, flush, str, quit, doneCh, doneClosed, done, pidDone, status, shownStream, sent, got,
                sendsStream, hurt, server>>
loginVars == <<sessions, auth, pass, zeroed, count, h, told, nLogin, overlap, fast, mixed>>
cliVars == <<acc, bad, evs, watching, badUser, cmd, check, failedCheck, live, givenUp, deleted, raced, said,
             asked, nCli, m>>
vars == <<part, streamVars, loginVars, settingsVars, cliVars>>

(* The variables of the other parts have no value; the settings wait in an
   initial state. *)
NoStream == ch = None /\ closed = None /\ queue = None /\ qlock = None /\ snd = None /\ flush = None /\
            str = None /\ quit = None /\ doneCh = None /\ doneClosed = None /\ done = None /\ pidDone = None /\ status = None /\ shownStream = None /\
            sent = None /\ got = None /\ sendsStream = None /\ hurt = None /\ server = None
NoLogin == sessions = None /\ auth = None /\ pass = None /\ zeroed = None /\ count = None /\ h = None /\
           told = None /\ nLogin = None /\ overlap = None /\ fast = None /\ mixed = None
NoSettings == SettingsInit /\ used = {<<"update">>, <<"autostart">>}
NoCli == acc = None /\ bad = None /\ evs = None /\ watching = None /\ badUser = None /\ cmd = None /\
         check = None /\ failedCheck = None /\ live = None /\ givenUp = None /\ deleted = None /\ raced = None
         /\ said = None /\ asked = None /\ nCli = None /\ m = None

(* The proxy is set as the visibility of All Mail is, and paired with that
   only; the telemetry, which writes the vault on its own, is paired with
   each of the setters of one setting. *)
Alike ==
  /\ <<"proxy">> \in used => <<"allmail">> \in used
  /\ used # {<<"telemetry">>, <<"imap", "smtp">>}

Init ==
  \/ part = "stream" /\ Stream!Init /\ NoLogin /\ NoSettings /\ NoCli
  \/ part = "streams" /\ Pair!Init /\ NoLogin /\ NoSettings /\ NoCli
  \/ part = "login" /\ Login!Init /\ NoStream /\ NoSettings /\ NoCli
  \/ part = "settings" /\ SettingsInit /\ Alike /\ NoStream /\ NoLogin /\ NoCli
  \/ part = "cli" /\ Cli!Init /\ NoStream /\ NoLogin /\ NoSettings

(* The callers of the setters are alike: the first call is the first one's,
   and the second call the second one's. *)
InTurn == \A c \in Callers : ~Busy(c) /\ Busy(c)' => c = n + 1

Next ==
  \/ part = "stream" /\ Stream!Next /\ UNCHANGED <<part, loginVars, settingsVars, cliVars>>
  \/ part = "streams" /\ Pair!Next /\ UNCHANGED <<part, loginVars, settingsVars, cliVars>>
  \/ part = "login" /\ Login!Next /\ UNCHANGED <<part, streamVars, settingsVars, cliVars>>
  \/ part = "settings" /\ SettingsNext /\ InTurn /\ UNCHANGED <<part, streamVars, loginVars, cliVars>>
  \/ part = "cli" /\ Cli!Next /\ UNCHANGED <<part, streamVars, loginVars, settingsVars>>

(* What stream s does, in the part with one stream and in that with two. *)
Of(s, one, two) == (part = "stream" /\ s = 1 /\ one) \/ (part = "streams" /\ two)

(* The fairness that each part assumes, in the behaviours that are about it. *)
Fairness ==
  /\ \A p \in Stream!Senders : WF_streamVars(part = "stream" /\ Stream!Sender(p))
  /\ \A s \in {1, 2} : WF_streamVars(Of(s, Stream!Flusher(1), Pair!Flusher(s)))
  /\ \A s \in {1, 2} : WF_streamVars(Of(s, Stream!Loop(1), Pair!Loop(s)))
  /\ \A s \in {1, 2} : SF_streamVars(Of(s, Stream!StreamStopped(1), Pair!StreamStopped(s)))
  /\ \A q \in Stream!Quits : WF_streamVars(Of(1, Stream!Quitter(q), Pair!Quitter(q)))
  /\ WF_streamVars(Of(1, Stream!GracefulStop, Pair!GracefulStop))
  /\ \A c \in Login!Calls : WF_loginVars(part = "login" /\ Login!Handler(c))
  /\ WF_cliVars(part = "cli" /\ Cli!Step)
  /\ WF_cliVars(part = "cli" /\ Cli!watchEvents)

Spec == Init /\ [][Next]_vars /\ Fairness

-----------------------------------------------------------------------------
(* The graphical interface shows the internet status that was sent last, no
   event is lost between queue and stream, and quitting ends, but for the
   named races (EventStream). *)
StreamDelivers ==
  /\ [](part = "stream" => Stream!StatusShown /\ Stream!NoneLost)
  /\ (part \in {"stream", "streams"} /\ Stream!QuitCalled) ~> (part \in {"stream", "streams"} /\ Stream!QuitOver)

(* A session has its tries and no more, the secrets of a login are gone when
   it is over and are never those of another call, and every call is
   answered (Login). *)
LoginIsSafe ==
  /\ [](part = "login" => Login!TriesBounded /\ Login!SecretsGone /\ Login!OwnPassword)
  /\ []<>(part = "login" => Login!Quiet)

(* The command line knows the user it has to ask, forgets no session it
   opened, says cleared only after clearing, and returns to its prompt
   (Cli). *)
ShellKeepsUp ==
  /\ [](part = "cli" => Cli!BadUserKnown /\ Cli!WatchesUntilDelete /\ Cli!SessionsOwned)
  /\ [][part = "cli" => Cli!ClearedStep]_vars
  /\ []<>(part = "cli" => Cli!Prompted)
=============================================================================
