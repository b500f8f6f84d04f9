---------------------------- MODULE Distinction ----------------------------
(* The distinction utility of the observability service: a user metric of a
   kind once in an interval, and a heartbeat that tells which kinds of errors
   happened since the last one (internal/services/observability,
   distinction_utility.go, heartbeat.go, distinction_error_types.go).

   The map of the last metrics has no lock: a call looks its kind up, marks it
   and adds the metric in three steps, between those of other goroutines. A call
   is shorter than updateInterval, which is minutes. *)
EXTENDS Naturals, FiniteSets

CONSTANTS
  Reporters,       \* goroutines that report errors
  MaxSteps       \* bound: calls, ticks and changes

VARIABLES
  clients,      \* someone is logged in
  recent,       \* kinds whose lastSentMap entry is younger than updateInterval
  oldFor,       \* oldFor[c]: the kind that checkAndUpdateLastSentMap of c found to be old
  stamped,      \* callers of these that have stored the time
  raced,        \* kinds that two calls found to be old in one interval
  beatData,         \* heartbeatData
  plan,         \* userPlanUnsafe, as a rank
  store,        \* user metrics in the metric store: pairs of a kind and who added it, in this interval
  twice,        \* kinds of which one goroutine added two
  seen,         \* kinds of errors since the last heartbeat
  owed,         \* kinds with a metric that was dropped, though marked as sent
  plans,        \* the plans of the users logged in so far
  steps

heartbeatVars == <<clients, recent, oldFor, stamped, raced, beatData, plan, store, twice, seen, owed, plans, steps>>
lastSent == <<recent, oldFor, stamped, raced, store, twice, owed>>

(* DistinctionMetricTypeEnum; those up to EventLoopError are errors. *)
Errors == {"sync", "gluon", "smtp", "eventloop"}
Kinds == Errors \cup {"connections"}

(* createLastSentMap starts the errors an interval ago. *)
HeartbeatInit ==
  /\ clients = FALSE /\ recent = {} /\ beatData = {} /\ plan = 0
  /\ oldFor = [c \in Reporters |-> "none"] /\ stamped = {} /\ raced = {}
  /\ store = {} /\ twice = {} /\ seen = {} /\ owed = {} /\ plans = {0} /\ steps = 0

Bound == steps < MaxSteps /\ steps' = steps + 1

(* updateHeartbeatData: the other kinds of errors have no flag. *)
Flag(k) == IF k \in {"sync", "gluon", "eventloop"} THEN {k} ELSE {}

(* checkAndUpdateLastSentMap reads the time of a kind; nothing keeps another
   call from reading it before this one has stored its own. *)
MutMayTell(k) == TRUE
MayTell(k) == k \notin recent

Checks(c, k) ==
  /\ oldFor[c] = "none" /\ Bound
  /\ oldFor' = IF MayTell(k) THEN [oldFor EXCEPT ![c] = k] ELSE oldFor
  /\ raced' = IF MayTell(k) /\ (\E d \in Reporters : oldFor[d] = k) THEN raced \cup {k} ELSE raced
  /\ UNCHANGED <<clients, recent, stamped, plan, store, twice, owed, plans>>

(* AddDistinctMetrics: the metric itself and, once in an interval, the user
   metric, both only while there are clients. *)
AddDistinctMetrics(c, k) ==
  /\ k \in Errors /\ Checks(c, k)
  /\ beatData' = beatData \cup Flag(k)
  /\ seen' = seen \cup {k}

AddTimeLimitedMetric(c) ==
  /\ Checks(c, "connections")
  /\ UNCHANGED <<beatData, seen>>

(* The kind is marked before anyone knows whether the metric will be kept. *)
checkAndUpdateLastSentMap(c) ==
  /\ oldFor[c] # "none" /\ c \notin stamped
  /\ stamped' = stamped \cup {c} /\ recent' = recent \cup {oldFor[c]}
  /\ UNCHANGED <<clients, oldFor, raced, beatData, plan, store, twice, seen, owed, plans, steps>>

addMetricsIfClients(c) ==
  /\ c \in stamped
  /\ stamped' = stamped \ {c} /\ oldFor' = [oldFor EXCEPT ![c] = "none"]
  /\ IF clients
       THEN /\ store' = store \cup {<<oldFor[c], c>>} /\ UNCHANGED owed
            /\ twice' = IF <<oldFor[c], c>> \in store THEN twice \cup {oldFor[c]} ELSE twice
       ELSE owed' = owed \cup {oldFor[c]} /\ UNCHANGED <<store, twice>>
  /\ UNCHANGED <<clients, recent, raced, beatData, plan, seen, plans, steps>>

(* The runtime ends the process when it sees a write to the map overlap another
   access; the next one starts with nothing. *)
ConcurrentMapAccess ==
  /\ \E c, d \in Reporters :
        /\ c # d /\ oldFor[c] # "none" /\ c \notin stamped
        /\ d \notin stamped
  /\ Bound
  /\ clients' = FALSE /\ recent' = {} /\ beatData' = {} /\ plan' = 0
  /\ oldFor' = [c \in Reporters |-> "none"] /\ stamped' = {} /\ raced' = {}
  /\ store' = {} /\ twice' = {} /\ seen' = {} /\ owed' = {} /\ plans' = {0}

(* updateInterval has passed for a kind. *)
Passes(k) ==
  /\ k \in recent /\ (\A c \in Reporters : oldFor[c] # k) /\ Bound
  /\ recent' = recent \ {k} /\ raced' = raced \ {k} /\ owed' = owed \ {k}
  /\ store' = {m \in store : m[1] # k} /\ twice' = twice \ {k}
  /\ UNCHANGED <<clients, oldFor, stamped, beatData, plan, seen, plans>>

(* sendHeartbeat, with the lock of the data held: the flags are reset whether
   or not anyone could be told. *)
resetHeartbeatData == {}

sendHeartbeat ==
  /\ Bound
  /\ beatData' = resetHeartbeatData
  /\ seen' = {}
  /\ UNCHANGED <<clients, lastSent, plan, plans>>

(* RegisterUserClient and setUserPlan: only a plan of higher rank replaces the
   one that is there. *)
Higher(new) == IF new > plan THEN new ELSE plan

setUserPlan(new) ==
  /\ Bound /\ clients' = TRUE
  /\ plan' = Higher(new) /\ plans' = plans \cup {new}
  /\ UNCHANGED <<lastSent, beatData, seen>>

DeregisterUserClient ==
  /\ clients /\ Bound /\ clients' = FALSE
  /\ UNCHANGED <<lastSent, beatData, plan, seen, plans>>

HeartbeatNext ==
  \/ \E c \in Reporters :
       \/ \E k \in Errors : AddDistinctMetrics(c, k)
       \/ AddTimeLimitedMetric(c) \/ checkAndUpdateLastSentMap(c) \/ addMetricsIfClients(c)
  \/ \E k \in Kinds : Passes(k)
  \/ ConcurrentMapAccess \/ sendHeartbeat \/ DeregisterUserClient
  \/ \E r \in 0..2 : setUserPlan(r)
HeartbeatSpec == HeartbeatInit /\ [][HeartbeatNext]_heartbeatVars

----------------------------------------------------------------------------
(* In an interval a goroutine adds at most one user metric of a kind, and only
   one goroutine does, unless two calls read the map before either wrote to it;
   and a kind that is marked, with no call under way, has its metric, or lost it
   because nobody was logged in, in which case there is none before the interval
   is over. *)
OncePerInterval ==
  \A k \in Kinds :
    /\ k \notin twice
    /\ k \notin raced =>
         /\ \A c, d \in Reporters : <<k, c>> \in store /\ <<k, d>> \in store => c = d
         /\ k \in owed => \A c \in Reporters : <<k, c>> \notin store
    /\ (k \in recent /\ \A c \in Reporters : oldFor[c] # k)
         => (k \in owed \/ \E c \in Reporters : <<k, c>> \in store)

(* The next heartbeat tells exactly the kinds of errors that came since the
   last one, of those it has a flag for: an error of SMTP is told by no
   heartbeat, and what came while nobody was logged in is forgotten. *)
BeatIsSeen == beatData = {k \in seen : k # "smtp"}

(* The plan in the metrics is the best plan anyone had who was logged in since
   the start, also after that user is gone. *)
BestPlan == \A r \in plans : plan >= r

(* An error is told once in an interval, but for racing calls, the next heartbeat reports what was
   seen since the last one, and the plan is the best one that a user had
   (AddDistinctMetrics, sendHeartbeat, setUserPlan). *)
HeartbeatTells == OncePerInterval /\ BeatIsSeen /\ BestPlan
=============================================================================
