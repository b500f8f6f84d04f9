--------------------------- MODULE Observability ---------------------------
(* The service that collects metrics and sends them in batches through the
   client of a user who allows telemetry (internal/services/observability),
   with the telemetry answer of each user (internal/services/telemetry).

   A metric is [id, cache]: cache is ShouldCache, whether it may be kept on the
   disk for the next run. Time is the throttle only: elapsed says whether
   throttleDuration has passed since the last dispatch. A call stores its metric
   and sends its signal in two steps, between which the service may stop. *)
EXTENDS Naturals, Sequences, FiniteSets

CONSTANTS
  Users,
  MaxMetrics,       \* bound: metrics that are created
  maxStorageSize, maxBatchSize,
  MaxChanges        \* bound: kills, and changes of the users' clients and telemetry

VARIABLES
  metricStore, made,
  clients,          \* userClientStore
  telemetry,        \* telemetry[u]: what the telemetry service would answer
  arrived, dispatch,          \* signalDataArrived, signalDispatch: one place each
  senders, woken,             \* calls about to send on signalDataArrived, and timers on signalDispatch
  scheduled, timers,          \* isDispatchScheduled, goroutines of scheduleDispatch
  elapsed,
  taken, more,      \* the batch dispatchData has taken out of the store, whether it left any
  pc, service,      \* the goroutine of start(); new, running, stopping, stopped, ended
  sent, refused,    \* numbers of the metrics that reached the API, and of those in a batch nobody sent
  blind,            \* the last dispatch found no user with telemetry
  cache, revived,   \* the cache file, and what was in it when the process was killed
  late, panicked,   \* a signal was due, or a user came, when the channels were closed; it was sent
  changes

vars == <<metricStore, made, clients, telemetry, arrived, dispatch, senders, woken, scheduled, timers,
          elapsed, taken, more, pc, service, sent, refused, blind, cache, revived, late, panicked, changes>>
signals == <<arrived, dispatch, senders, woken, timers>>
batch == <<taken, more, pc, sent, refused, blind>>
disk == <<cache, revived>>
closing == <<late, panicked>>

Init ==
  /\ cache \in {<<>>, <<[id |-> 1, cache |-> TRUE]>>} /\ metricStore = cache /\ made = Len(cache)
  /\ clients = {} /\ telemetry \in [Users -> BOOLEAN]
  /\ arrived = FALSE /\ dispatch = FALSE /\ senders = 0 /\ woken = 0 /\ scheduled = FALSE /\ timers = 0
  /\ elapsed = TRUE /\ taken = <<>> /\ more = FALSE
  /\ pc = "select" /\ service = "new"
  /\ sent = {} /\ refused = {} /\ blind = FALSE /\ revived = {} /\ late = FALSE /\ panicked = FALSE
  /\ changes = 0

(* Initialize and Run: the channels exist from here on. *)
Run ==
  /\ service = "new" /\ service' = "running"
  /\ UNCHANGED <<metricStore, made, clients, telemetry, signals, scheduled, elapsed, batch, disk, closing, changes>>

(* addMetrics drops from the front what is over the limit, and one more; then
   it appends all the metrics of the call. *)
MutDropped(s) == s
Dropped(s) ==
  IF Len(s) >= maxStorageSize THEN SubSeq(s, Len(s) - maxStorageSize + 2, Len(s)) ELSE s

(* The context is cancelled from Stop on; before Initialize the channel is nil,
   on which nothing is sent. *)
Cancelled == service \in {"stopping", "stopped"}
addMetrics(ms) ==
  /\ metricStore' = Dropped(metricStore) \o ms
  /\ made' = made + Len(ms)
  /\ senders' = IF service = "new" \/ Cancelled THEN senders ELSE senders + 1
  /\ UNCHANGED <<clients, telemetry, arrived, dispatch, woken, timers, scheduled, elapsed, batch, service,
                 disk, closing, changes>>

(* AddMetrics with one or two metrics; addMetricsIfClients, of the distinct
   and the heartbeat metrics, only while someone is logged in. *)
AddMetrics(n, c) ==
  /\ made + n <= MaxMetrics
  /\ service # "ended"
  /\ addMetrics([i \in 1..n |-> [id |-> made + i, cache |-> c]])

addMetricsIfClients ==
  /\ clients # {} /\ AddMetrics(1, FALSE)

(* sendSignal does not block. A channel that Stop has closed panics. *)
Open == service \in {"running", "stopping"}
sendArrived ==
  /\ senders > 0 /\ senders' = senders - 1
  /\ IF Open THEN arrived' = TRUE /\ UNCHANGED panicked ELSE panicked' = TRUE /\ UNCHANGED arrived
  /\ UNCHANGED <<metricStore, made, clients, telemetry, dispatch, woken, timers, scheduled, elapsed, batch,
                 service, disk, late, changes>>

sendDispatch ==
  /\ woken > 0 /\ woken' = woken - 1
  /\ IF Open THEN dispatch' = TRUE /\ UNCHANGED panicked ELSE panicked' = TRUE /\ UNCHANGED dispatch
  /\ UNCHANGED <<metricStore, made, clients, telemetry, arrived, senders, timers, scheduled, elapsed, batch,
                 service, disk, late, changes>>

(* The goroutine of start(): one of the signals that are there. *)
Arrives ==
  CASE scheduled -> UNCHANGED <<dispatch, scheduled, timers>>
    [] ~scheduled /\ ~elapsed -> scheduled' = TRUE /\ timers' = timers + 1 /\ UNCHANGED dispatch
    [] ~scheduled /\ elapsed -> dispatch' = TRUE /\ UNCHANGED <<scheduled, timers>>

start ==
  /\ Open /\ pc = "select" /\ arrived /\ arrived' = FALSE
  /\ Arrives
  /\ UNCHANGED <<metricStore, made, clients, telemetry, senders, woken, elapsed, batch, service, disk, closing, changes>>

(* The batch is cut off the store. *)
Rest(n) == SubSeq(metricStore, n + 1, Len(metricStore))
Ids(ms) == {ms[i].id : i \in DOMAIN ms}

(* dispatchData: take a batch out of the store. *)
dispatchData ==
  /\ Open /\ pc = "select" /\ dispatch /\ dispatch' = FALSE
  /\ scheduled' = FALSE
  /\ IF metricStore = <<>> \/ clients = {}
       THEN UNCHANGED <<metricStore, taken, more, pc>>
       ELSE LET n == IF Len(metricStore) < maxBatchSize THEN Len(metricStore) ELSE maxBatchSize
            IN  /\ taken' = SubSeq(metricStore, 1, n)
                /\ metricStore' = Rest(n)
                /\ more' = (Rest(n) # <<>>)
                /\ pc' = "send"
  /\ UNCHANGED <<made, clients, telemetry, arrived, senders, woken, timers, elapsed, service, sent, refused, blind,
                 disk, closing, changes>>

(* dispatchViaClient: the first client, in the order of the map, whose user
   allows telemetry; the call can fail, the batch is gone either way. Nobody can
   be asked once the context is cancelled. *)
Enabled == {u \in clients : telemetry[u]}

(* What was left is scheduled for another dispatch only if someone could send. *)
scheduleDispatch == scheduled' = TRUE /\ timers' = timers + 1

dispatchViaClient ==
  /\ pc = "send" /\ pc' = "select" /\ taken' = <<>> /\ more' = FALSE
  /\ \/ /\ Enabled # {}
        /\ \/ sent' = sent \cup Ids(taken) /\ UNCHANGED refused
           \/ UNCHANGED sent /\ refused' = refused \cup Ids(taken)
        /\ elapsed' = FALSE /\ blind' = FALSE
        /\ IF more THEN scheduleDispatch ELSE UNCHANGED <<scheduled, timers>>
     \/ /\ Enabled = {} \/ Cancelled
        /\ refused' = refused \cup Ids(taken) /\ blind' = TRUE
        /\ UNCHANGED <<sent, elapsed, scheduled, timers>>
  /\ UNCHANGED <<metricStore, made, clients, telemetry, arrived, dispatch, senders, woken, service, disk,
                 closing, changes>>

(* The goroutine of scheduleDispatch wakes after waitTime, or ends with the
   context. *)
Wakes ==
  /\ timers > 0 /\ timers' = timers - 1
  /\ woken' = woken + 1 /\ elapsed' = TRUE
  /\ UNCHANGED <<metricStore, made, clients, telemetry, arrived, dispatch, senders, scheduled, batch, service,
                 disk, closing, changes>>

TimerEnds ==
  /\ timers > 0 /\ Cancelled /\ timers' = timers - 1
  /\ UNCHANGED <<metricStore, made, clients, telemetry, arrived, dispatch, senders, woken, scheduled, elapsed,
                 batch, service, disk, closing, changes>>

Elapses ==
  /\ Open /\ ~elapsed /\ elapsed' = TRUE
  /\ UNCHANGED <<metricStore, made, clients, telemetry, signals, scheduled, batch, service, disk, closing, changes>>

Changes == changes < MaxChanges /\ changes' = changes + 1

(* Users are loaded and log in while the bridge closes, too: the signal of
   RegisterUserClient does not look at the context. *)
RegisterUserClient(u) ==
  /\ service \in {"running", "stopping", "stopped"} /\ u \notin clients /\ Changes
  /\ clients' = clients \cup {u}
  /\ senders' = senders + 1
  /\ late' = (late \/ service = "stopped")
  /\ UNCHANGED <<metricStore, made, telemetry, arrived, dispatch, woken, timers, scheduled, elapsed, batch,
                 service, disk, panicked>>

(* The lock of the clients is held while a batch is sent. *)
DeregisterUserClient(u) ==
  /\ u \in clients /\ pc = "select" /\ Changes
  /\ clients' = clients \ {u}
  /\ UNCHANGED <<metricStore, made, telemetry, signals, scheduled, elapsed, batch, service, disk, closing>>

(* HandleUserSettingsEvent of the telemetry service. *)
HandleUserSettingsEvent(u) ==
  /\ service = "running" /\ Changes /\ telemetry' = [telemetry EXCEPT ![u] = ~@]
  /\ UNCHANGED <<metricStore, made, clients, signals, scheduled, elapsed, batch, service, disk, closing>>

(* Stop cancels the context, waits for the goroutine and closes the channels;
   the users are closed after it and can still add metrics. *)
Stop ==
  /\ service = "running" /\ service' = "stopping"
  /\ UNCHANGED <<metricStore, made, clients, telemetry, signals, scheduled, elapsed, batch, disk, closing, changes>>

CloseChannels ==
  /\ service = "stopping" /\ pc = "select" /\ service' = "stopped"
  /\ late' = (senders > 0 \/ woken > 0 \/ timers > 0)
  /\ UNCHANGED <<metricStore, made, clients, telemetry, signals, scheduled, elapsed, batch, disk, panicked, changes>>

(* All but the cache file ends with the process. *)
Ends ==
  /\ service' = "ended" /\ metricStore' = <<>> /\ clients' = {}
  /\ arrived' = FALSE /\ dispatch' = FALSE /\ senders' = 0 /\ woken' = 0 /\ timers' = 0
  /\ scheduled' = FALSE /\ elapsed' = TRUE /\ blind' = FALSE /\ taken' = <<>> /\ more' = FALSE /\ pc' = "select"
  /\ late' = FALSE /\ panicked' = FALSE
  /\ UNCHANGED <<made, telemetry, sent, refused>>

(* writeCacheFile, deferred by WithObservability, keeps what may be kept, also
   when the bridge could not be made; a process that is killed leaves the file as
   it was. readCacheFile of the next run marks what it reads so again. *)
writeCacheFile ==
  /\ service \in {"new", "stopped"} /\ Ends
  /\ cache' = SelectSeq(metricStore, LAMBDA x : x.cache)
  /\ UNCHANGED <<revived, changes>>

Killed ==
  /\ service # "ended" /\ Changes /\ Ends
  /\ revived' = revived \cup Ids(cache)
  /\ UNCHANGED cache

readCacheFile ==
  /\ service = "ended" /\ service' = "new"
  /\ metricStore' = cache
  /\ UNCHANGED <<made, clients, telemetry, signals, scheduled, elapsed, batch, disk, closing, changes>>

Next ==
  \/ Run \/ sendArrived \/ sendDispatch \/ start \/ dispatchData \/ dispatchViaClient
  \/ Wakes \/ TimerEnds \/ Elapses
  \/ \E n \in 1..2, c \in BOOLEAN : AddMetrics(n, c)
  \/ addMetricsIfClients
  \/ \E u \in Users : RegisterUserClient(u) \/ DeregisterUserClient(u) \/ HandleUserSettingsEvent(u)
  \/ Stop \/ CloseChannels \/ writeCacheFile \/ Killed \/ readCacheFile

Service == start \/ dispatchData \/ dispatchViaClient
Signal == sendArrived \/ sendDispatch
Fair == WF_vars(Service) /\ WF_vars(Wakes) /\ WF_vars(Signal)
Spec == Init /\ [][Next]_vars /\ Fair

----------------------------------------------------------------------------
(* The store never holds more than the limit and the metrics of one call
   beyond the one that was dropped to make room. *)
StoreBounded == Len(metricStore) <= maxStorageSize + 1

(* No wake-up is lost: while metrics wait and someone is logged in, a signal
   is pending or about to be sent, a dispatch is scheduled with a goroutine
   behind it, or one is under way; except after a dispatch that found telemetry
   off, when the rest waits for new metrics or for a new user. *)
Awake ==
  /\ (service = "running" /\ metricStore # <<>> /\ clients # {} /\ ~blind)
       => (arrived \/ dispatch \/ senders > 0 \/ woken > 0 \/ timers > 0 \/ pc = "send")
  /\ (service = "running" /\ scheduled) => (timers > 0 \/ woken > 0 \/ dispatch)

(* Metrics leave the machine only through a user who allows telemetry. *)
ConsentStep == sent' # sent => \E u \in clients : telemetry[u]

(* No metric waits that was sent or given up before, in this run or an earlier
   one; except those that were in the cache file when the process was killed:
   nothing clears the file before writeCacheFile, so the next run sends them
   again. *)
SentOnce ==
  Ids(metricStore) \cap (sent \cup refused) \subseteq revived

(* A signal is sent on a closed channel, which panics, only by a call or a timer
   that Stop has overtaken, or by a user that is registered after it. *)
PanicsOnlyLate == panicked => late

(* Metrics that wait while someone stays logged in and allows telemetry are
   taken out of the store in the end. *)
Sending == service = "running" /\ Enabled # {} /\ ~blind
Drained == metricStore = <<>>
=============================================================================
