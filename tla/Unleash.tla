------------------------------ MODULE Unleash ------------------------------
(* The feature flags: a poller that asks the API, a receiver that replaces the
   store and writes the cache file, and Close, which cancels the context and
   closes the channel between the two (internal/unleash/service.go). A set of
   flags is a version of the server's answer; Null is the map a closed channel
   delivers, which encodes as null. *)
EXTENDS Naturals

CONSTANTS MaxPolls, MaxRuns      \* bounds: polls in a run, runs of the program

VARIABLES
  server,              \* the flags the API would answer with
  ffStore, cache,      \* memory, the file
  poller, data,        \* its place, the answer it holds
  receiver, res,
  done, closed,        \* the context, the channel
  polls, runs,
  panics,              \* a send on the closed channel
  late, torn,          \* the receiver read the closed channel; the file was left without its contents
  startFlags, startCache, answered \* flags of the startup and their file; some startup had an answer

service == <<ffStore, cache, poller, data, receiver, res, done, closed, polls, panics, late, torn>>
startup == <<startFlags, startCache, answered>>
vars == <<server, runs, service, startup>>

(* A version of the flags, from Nothing, the empty map, to the last; Null is the
   nil map, which the file holds as null. *)
Nothing == 0
Last == 2
Null == Last + 1

Init ==
  /\ server = 1 /\ ffStore = Nothing /\ cache = Nothing
  /\ poller = "get" /\ data = Nothing /\ receiver = "select" /\ res = Nothing
  /\ done = FALSE /\ closed = FALSE /\ panics = FALSE
  /\ polls = 0 /\ runs = 1 /\ late = FALSE /\ torn = FALSE
  /\ startFlags = Nothing /\ startCache = Nothing /\ answered = FALSE

(* The flags change on the server. *)
Rollout ==
  /\ server < Last /\ server' = server + 1
  /\ UNCHANGED <<runs, service, startup>>

(* getFeaturesFn: the answer, or an error, which is only logged. *)
getFeatures ==
  /\ poller = "get" /\ polls < MaxPolls /\ polls' = polls + 1
  /\ \/ ~done /\ data' = server /\ poller' = "send"
     \/ poller' = "wait" /\ UNCHANGED data
  /\ UNCHANGED <<server, runs, ffStore, cache, receiver, res, done, closed, panics, late, torn, startup>>

(* The ticker, or the end of the context. *)
runFlagPoll ==
  /\ poller = "wait"
  /\ \/ done /\ poller' = "ended"
     \/ polls < MaxPolls /\ poller' = "get"
  /\ UNCHANGED <<server, runs, ffStore, cache, data, receiver, res, done, closed, polls, panics, late, torn, startup>>

(* s.channel <- data, unbuffered: the receiver takes it in the same step, or
   it has ended and the poller waits until the channel is closed under it. *)
Send ==
  /\ poller = "send"
  /\ \/ /\ ~closed /\ receiver = "select"
        /\ receiver' = "store" /\ res' = data /\ poller' = "wait"
        /\ UNCHANGED panics
     \/ /\ closed /\ poller' = "ended" /\ panics' = TRUE
        /\ UNCHANGED <<receiver, res>>
  /\ UNCHANGED <<server, runs, ffStore, cache, data, done, closed, polls, late, torn, startup>>

(* runReceiver: once the context is done and the channel closed, select takes
   either of the two; the closed channel delivers nil. *)
runReceiver ==
  /\ receiver = "select"
  /\ \/ done /\ receiver' = "ended" /\ UNCHANGED <<res, late>>
     \/ closed /\ receiver' = "store" /\ res' = Null /\ late' = TRUE
  /\ UNCHANGED <<server, runs, ffStore, cache, poller, data, done, closed, polls, panics, torn, startup>>

StoreFlags ==
  /\ receiver = "store" /\ receiver' = "write"
  /\ ffStore' = res
  /\ UNCHANGED <<server, runs, cache, poller, data, res, done, closed, polls, panics, late, torn, startup>>

(* writeCacheFile: os.Create empties the file, then the store is encoded. The
   file may be beyond reach, and the process may die in between. *)
AfterWrite == "select"

writeCacheFile ==
  /\ receiver = "write" /\ receiver' = AfterWrite
  /\ \/ cache' = ffStore /\ UNCHANGED torn
     \/ cache' \in {cache, Nothing} /\ torn' = TRUE
  /\ UNCHANGED <<server, runs, ffStore, poller, data, res, done, closed, polls, panics, late, startup>>

(* Close: cancel, then close. *)
MayClose == done

Cancel ==
  /\ ~done /\ done' = TRUE
  /\ UNCHANGED <<server, runs, ffStore, cache, poller, data, receiver, res, closed, polls, panics, late, torn, startup>>

Close ==
  /\ MayClose /\ ~closed /\ closed' = TRUE
  /\ UNCHANGED <<server, runs, ffStore, cache, poller, data, receiver, res, done, polls, panics, late, torn, startup>>

(* newService of the next run: a file that cannot be decoded, or null, leaves
   no flags. *)
MutReadCacheFile == Nothing
readCacheFile == IF cache = Null THEN Nothing ELSE cache

newService ==
  /\ ffStore' = readCacheFile /\ UNCHANGED cache
  /\ poller' = "get" /\ data' = Nothing /\ receiver' = "select" /\ res' = Nothing
  /\ done' = FALSE /\ closed' = FALSE /\ polls' = 0 /\ panics' = FALSE /\ late' = FALSE

(* GetStartupFeatureFlagsAndStore: the answer of the API, or else what the
   startup's own cache file holds; either is saved, if it can be. *)
readStartupCacheFile == startCache

GetStartupFeatureFlagsAndStore ==
  /\ \/ startFlags' = server /\ answered' = TRUE
     \/ startFlags' = readStartupCacheFile /\ UNCHANGED answered
  /\ \/ startCache' = startFlags' /\ UNCHANGED torn
     \/ startCache' \in {startCache, Nothing} /\ torn' = TRUE

Again ==
  /\ done /\ closed /\ runs < MaxRuns /\ runs' = runs + 1
  /\ newService /\ GetStartupFeatureFlagsAndStore
  /\ UNCHANGED server

Step == getFeatures \/ runFlagPoll \/ Send \/ runReceiver \/ StoreFlags \/ writeCacheFile
Next == Rollout \/ Step \/ Cancel \/ Close \/ Again
Fair == WF_vars(Send) /\ WF_vars(StoreFlags) /\ WF_vars(writeCacheFile)
Spec == Init /\ [][Next]_vars /\ Fair

----------------------------------------------------------------------------
(* A run begins with the flags the run before it ended with, unless that run
   could not write its file, was cut off before it did, or read the closed
   channel: then its flags, and the file, are empty. *)
KeptStep == (runs' # runs /\ ~torn /\ ~late /\ receiver \notin {"store", "write"}) => ffStore' = ffStore

(* Once a startup had an answer, later startups have flags, with or without
   the API, unless a file could not be written. *)
StartupRemembers == answered /\ ~torn => startFlags # Nothing

(* The two races of Close, the receiver that takes nil and the poller that
   sends on the closed channel, exist only once the context is done. *)
RacesOnlyClosing == (panics \/ late) => done

(* No answer the poller got waits for ever to be stored, unless the service
   closes. *)
Arrived == (poller # "send" /\ receiver # "store") \/ done
=============================================================================
