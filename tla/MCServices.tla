----------------------------- MODULE MCServices -----------------------------
(* The services around the mail itself: metrics and their heartbeat
   (Observability, Distinction), feature flags (Unleash), notifications
   (Notifications), the connection to the API (Dialer), the event loop with its
   subscribers (Subscribers) and the copies of the user's addresses that the
   services keep (Identity). They share no state that is modelled here, so one
   run takes them one at a time. The properties of the notifications and of the
   heartbeat are those of their modules. *)
EXTENDS Notifications, Distinction, Sequences

CONSTANTS None, u1, u2, t1, t2, d1, d2, p1, a1, a2, r1, r2

VARIABLES
  part,     \* the part of the program this behaviour is about
  metricStore, made, clientsMetrics, telemetry, arrived, dispatch, senders, wokenMetrics, scheduled, timersMetrics,
  elapsed, taken, more, pcMetrics, service, sent, refused, blind, cacheMetrics, revived, lateMetrics, panicked,
  changesMetrics,
  server, ffStore, cacheFlags, poller, data, receiver, res, doneFlags, closedFlags, polls, runs, panics, late,
  torn, startFlags, startCache, answered,
  proxyAddress, allowProxy, tooSoon, timersDialer, writer, readers, pcDialer, address, conn, probe, issues,
  listening, stray, report, sentReports, posted, again, network, doh, overtaken, changesDialer,
  svc, active, pending, drains, closedSubs, loop, pub, failedSubs, last, event, handled, rivals, pausedSubs,
  waiter, woken, conns, stopping,
  api, log, pos, copy, doneIdent, failedIdent, reading, told, quiet, pausedIdent, turn, faults, resyncs

Metrics == INSTANCE Observability WITH
  clients <- clientsMetrics, woken <- wokenMetrics, timers <- timersMetrics, pc <- pcMetrics,
  cache <- cacheMetrics, late <- lateMetrics, changes <- changesMetrics, Users <- {u1}, MaxMetrics <- 3, maxStorageSize <- 1, maxBatchSize <- 1,
  MaxChanges <- 2
Flags == INSTANCE Unleash WITH
  cache <- cacheFlags, done <- doneFlags, closed <- closedFlags, MaxPolls <- 2, MaxRuns <- 3
Dialer == INSTANCE Dialer WITH
  timers <- timersDialer, pc <- pcDialer, changes <- changesDialer, Dials <- {d1, d2}, Proxies <- {p1},
  Direct <- "api", MaxChanges <- 2
Subs == INSTANCE Subscribers WITH
  closed <- closedSubs, failed <- failedSubs, paused <- pausedSubs, Order <- <<"identity", "smtp">>,
  Workers <- 2, MaxEvents <- 1, MaxConns <- 1
Ident == INSTANCE Identity WITH
  done <- doneIdent, failed <- failedIdent, paused <- pausedIdent, Order <- <<"identity", "smtp">>,
  Identity <- "identity", Addrs <- {a1, a2}, MaxEvents <- 2, MaxFaults <- 1, MaxResyncs <- 1

metricsVars == <<metricStore, made, clientsMetrics, telemetry, arrived, dispatch, senders, wokenMetrics, scheduled,
                 timersMetrics, elapsed, taken, more, pcMetrics, service, sent, refused, blind, cacheMetrics, revived,
                 lateMetrics, panicked, changesMetrics>>
flagsVars == <<server, ffStore, cacheFlags, poller, data, receiver, res, doneFlags, closedFlags, polls, runs,
               panics, late, torn, startFlags, startCache, answered>>
dialerVars == <<proxyAddress, allowProxy, tooSoon, timersDialer, writer, readers, pcDialer, address, conn,
                probe, issues, listening, stray, report, sentReports, posted, again, network, doh, overtaken, changesDialer>>
subsVars == <<svc, active, pending, drains, closedSubs, loop, pub, failedSubs, last, event, handled, rivals,
              pausedSubs, waiter, woken, conns, stopping>>
identVars == <<api, log, pos, copy, doneIdent, failedIdent, reading, told, quiet, pausedIdent, turn, faults,
               resyncs>>
vars == <<part, metricsVars, heartbeatVars, flagsVars, notifyVars, dialerVars, subsVars, identVars>>

(* The variables of the other parts have no value; the notifications and the
   heartbeat wait in their initial state. *)
NoMetrics == metricStore = None /\ made = None /\ clientsMetrics = None /\ telemetry = None /\ arrived = None /\
             dispatch = None /\ senders = None /\ wokenMetrics = None /\ more = None /\ revived = None /\
             lateMetrics = None /\ panicked = None /\ scheduled = None /\ timersMetrics = None /\ elapsed = None /\ taken = None /\
             pcMetrics = None /\ service = None /\ sent = None /\ refused = None /\ blind = None /\
             cacheMetrics = None /\ changesMetrics = None
NoFlags == server = None /\ ffStore = None /\ cacheFlags = None /\ poller = None /\ data = None /\
           receiver = None /\ res = None /\ doneFlags = None /\ closedFlags = None /\ polls = None /\
           runs = None /\ panics = None /\ late = None /\ torn = None /\ startFlags = None /\ startCache = None
           /\ answered = None
NoDialer == proxyAddress = None /\ allowProxy = None /\ tooSoon = None /\ timersDialer = None /\ writer = None
            /\ readers = None /\ pcDialer = None /\ address = None /\ conn = None /\ probe = None /\
            issues = None /\ listening = None /\ stray = None /\ report = None /\ sentReports = None /\ posted = None /\
            again = None /\ network = None /\ doh = None /\ overtaken = None /\
            changesDialer = None
NoSubs == svc = None /\ active = None /\ pending = None /\ drains = None /\ closedSubs = None /\ loop = None /\
          pub = None /\ failedSubs = None /\ last = None /\ event = None /\ handled = None /\ rivals = None /\
          pausedSubs = None /\ waiter = None /\ woken = None /\ conns = None /\ stopping = None
NoIdent == api = None /\ log = None /\ pos = None /\ copy = None /\ doneIdent = None /\ failedIdent = None /\
           reading = None /\ told = None /\ quiet = None /\ pausedIdent = None /\ turn = None /\ faults = None
           /\ resyncs = None

Init ==
  \/ part = "metrics" /\ Metrics!Init /\ HeartbeatInit /\ NoFlags /\ NotifyInit /\ NoDialer /\ NoSubs /\ NoIdent
  \/ part = "heartbeat" /\ HeartbeatInit /\ NoMetrics /\ NoFlags /\ NotifyInit /\ NoDialer /\ NoSubs /\ NoIdent
  \/ part = "flags" /\ Flags!Init /\ NoMetrics /\ HeartbeatInit /\ NotifyInit /\ NoDialer /\ NoSubs /\ NoIdent
  \/ part = "notify" /\ NotifyInit /\ NoMetrics /\ HeartbeatInit /\ NoFlags /\ NoDialer /\ NoSubs /\ NoIdent
  \/ part = "dialer" /\ Dialer!Init /\ NoMetrics /\ HeartbeatInit /\ NoFlags /\ NotifyInit /\ NoSubs /\ NoIdent
  \/ part = "subs" /\ Subs!Init /\ NoMetrics /\ HeartbeatInit /\ NoFlags /\ NotifyInit /\ NoDialer /\ NoIdent
  \/ part = "identity" /\ Ident!Init /\ NoMetrics /\ HeartbeatInit /\ NoFlags /\ NotifyInit /\ NoDialer /\ NoSubs

Next ==
  \/ part = "metrics" /\ Metrics!Next /\ UNCHANGED <<part, heartbeatVars, flagsVars, notifyVars, dialerVars, subsVars, identVars>>
  \/ part = "heartbeat" /\ HeartbeatNext /\ UNCHANGED <<part, metricsVars, flagsVars, notifyVars, dialerVars, subsVars, identVars>>
  \/ part = "flags" /\ Flags!Next /\ UNCHANGED <<part, metricsVars, heartbeatVars, notifyVars, dialerVars, subsVars, identVars>>
  \/ part = "notify" /\ NotifyNext /\ UNCHANGED <<part, metricsVars, heartbeatVars, flagsVars, dialerVars, subsVars, identVars>>
  \/ part = "dialer" /\ Dialer!Next /\ UNCHANGED <<part, metricsVars, heartbeatVars, flagsVars, notifyVars, subsVars, identVars>>
  \/ part = "subs" /\ Subs!Next /\ UNCHANGED <<part, metricsVars, heartbeatVars, flagsVars, notifyVars, dialerVars, identVars>>
  \/ part = "identity" /\ Ident!Next /\ UNCHANGED <<part, metricsVars, heartbeatVars, flagsVars, notifyVars, dialerVars, subsVars>>

(* The fairness that each part assumes, in the behaviours that are about it. *)
Fairness ==
  /\ WF_metricsVars(part = "metrics" /\ Metrics!Service)
  /\ WF_metricsVars(part = "metrics" /\ Metrics!Wakes)
  /\ WF_metricsVars(part = "metrics" /\ Metrics!Signal)
  /\ WF_flagsVars(part = "flags" /\ Flags!Send)
  /\ WF_flagsVars(part = "flags" /\ Flags!StoreFlags)
  /\ WF_flagsVars(part = "flags" /\ Flags!writeCacheFile)
  /\ WF_dialerVars(part = "dialer" /\ Dialer!Listen)
  /\ \A s \in Subs!Subs : WF_subsVars(part = "subs" /\ Subs!SubStep(s))
  /\ \A s \in Subs!Subs : WF_subsVars(part = "subs" /\ Subs!handle(s))
  /\ \A s \in Subs!Subs : WF_subsVars(part = "subs" /\ Subs!Send(s))
  /\ \A s \in Subs!Subs : WF_subsVars(part = "subs" /\ Subs!Receive(s))
  /\ \A s \in Subs!Subs : WF_subsVars(part = "subs" /\ Subs!Leave(s))
  /\ WF_subsVars(part = "subs" /\ Subs!Published)
  /\ WF_subsVars(part = "subs" /\ Subs!EndLoop)
  /\ WF_subsVars(part = "subs" /\ stopping < Subs!Open /\ Subs!CancelAndWait)
  /\ \A s \in Ident!Copies : WF_identVars(part = "identity" /\ Ident!Step(s))
  /\ WF_identVars(part = "identity" /\ Ident!Retry)
  /\ WF_identVars(part = "identity" /\ Ident!Store)
  /\ SF_<<dialerVars, subsVars>>(
       \/ part = "dialer" /\ Dialer!DialStep(d1) /\ UNCHANGED subsVars
       \/ part = "subs" /\ (\E s \in Subs!Subs : Subs!Unsubscribe(s)) /\ UNCHANGED dialerVars)
  /\ SF_<<dialerVars, subsVars>>(
       \/ part = "dialer" /\ Dialer!DialStep(d2) /\ UNCHANGED subsVars
       \/ part = "subs" /\ waiter = "waiting" /\ Subs!Tick /\ UNCHANGED dialerVars)

Spec == Init /\ [][Next]_vars /\ Fairness

-----------------------------------------------------------------------------
(* The metrics store keeps its bound, its dispatcher is not asleep while
   there is something to send, a metric is sent only for a user who agreed and
   only once, but for those in the cache file of a process that was killed, no
   signal is sent on a closed channel but by who was overtaken by Stop, and
   the store drains as long as someone agrees (Observability). *)
MetricsDelivered ==
  /\ [](part = "metrics" => Metrics!StoreBounded /\ Metrics!Awake /\ Metrics!SentOnce /\
                            Metrics!PanicsOnlyLate)
  /\ [][part = "metrics" => Metrics!ConsentStep]_vars
  /\ <>[](part = "metrics" /\ Metrics!Sending) => []<>(part = "metrics" /\ Metrics!Drained)

(* The feature flags survive a restart, a startup remembers them without the
   API, and an answer of the server is stored, but for the named races of
   Close (Unleash). *)
FlagsRemembered ==
  /\ [](part = "flags" => Flags!StartupRemembers /\ Flags!RacesOnlyClosing)
  /\ [][part = "flags" => Flags!KeptStep]_vars
  /\ []<>(part = "flags" => Flags!Arrived)

(* A connection is made only to a server with the right certificate, a
   forbidden or expired proxy is left, the API is preferred, an impostor is
   reported once a day and every dial ends while TLS issues are heard, but
   for the named races (Dialer). The dials are alike: the end of one is that
   of each. *)
DialsSafely ==
  /\ [](part = "dialer" => Dialer!ForbiddenIsDirect /\ Dialer!ProxyExpires /\ Dialer!ReportedOnce)
  /\ [][part = "dialer" => Dialer!PinnedStep /\ Dialer!PreferStep]_vars
  /\ []<>(part = "dialer" => Dialer!DialOver(d1))

(* An event is stored only when every subscriber of the loop handled it, a
   paused loop publishes nothing, a subscription is closed once, and a
   service waits for ever only when two subscribers fail on one event; but
   for that, the event loop and every service end once the user is closed
   (Subscribers). *)
SubscribersSafe ==
  /\ [](part = "subs" => Subs!StuckOnlyIf /\ Subs!ClosedOnce /\ Subs!StoredWasHandled /\ Subs!QuietAfterPause)
  /\ []<>(part = "subs" => Subs!CloseOver)

(* When all events are handled, every service has the addresses that the
   server has and the frontend was told of them, but for refreshes and
   lost events, and handling ends or is paused (Identity). *)
IdentityAgrees ==
  /\ [](part = "identity" => Ident!CopiesConverge /\ Ident!ToldAtRest)
  /\ []<>(part = "identity" => Ident!Settled)
=============================================================================
