----------------------------- MODULE SyncPipeline ----------------------------
(***************************************************************************)
(* The message sync (internal/services/syncservice): one handler per user, *)
(* and one pipeline for all users, metadata -> download -> build -> apply, *)
(* whose stages are single goroutines joined by unbuffered channels.       *)
(*                                                                         *)
(* A sync job has a waiter that counts its tasks: the job itself and one   *)
(* per batch in the pipeline.  The handler waits until the count is zero.  *)
(* The apply stage hands its updates to the loop of the user's IMAP        *)
(* service, which publishes them to Gluon and replies; the same loop is    *)
(* the one that cancels a sync and waits for its handler.                  *)
(*                                                                         *)
(* Messages are numbered from the newest, which is the order of the sync.  *)
(***************************************************************************)
EXTENDS Integers, Sequences, FiniteSets

CONSTANTS
    Users,
    NumMessages,  \* messages of each user
    MaxBatch,     \* bound: messages per batch (64 and a memory limit)
    MaxErrors,    \* bound: calls that fail
    MaxCancels,   \* bound: syncs that are cancelled
    MaxCrashes    \* bound: crashes of the bridge

ASSUME PipelineAssumption ==
    /\ NumMessages \in Nat /\ MaxBatch \in Nat
    /\ MaxErrors \in Nat /\ MaxCancels \in Nat /\ MaxCrashes \in Nat

VARIABLES
    handler,    \* where each user's sync handler is
    ctxDone,    \* the handler's context is cancelled
    jobDone,    \* the job's own context is cancelled
    waiter,     \* the job's waiter: task count and whether an error came
    meta,       \* the job's goroutine in the metadata stage
    download,   \* the download stage: where it is, and its batches
    build,      \* the build stage
    apply,      \* the apply stage
    imap,       \* the user's IMAP service loop, and the batch in its hands
    status,     \* disk: the sync state
    gone,       \* messages that were deleted on the server meanwhile
    published,  \* messages handed to Gluon as updates
    applied,    \* messages that Gluon has stored
    budget      \* what is left of the bounds

handlerVars == <<handler, ctxDone, jobDone, waiter>>
stageVars   == <<download, build, apply>>
dataVars    == <<status, gone, published, applied>>
vars        == <<handlerVars, meta, stageVars, imap, dataVars, budget>>

Messages == 1..NumMessages

(* A childJob with its messages. *)
Request == [user : Users, last : Messages, count : Messages,
            msgs : SUBSET Messages]

Idle == [pc |-> "idle", reqs |-> <<>>]

NoMeta == [pc |-> "none", next |-> 0, reqs |-> <<>>]

DefaultStatus == [hasLabels |-> FALSE, hasCount |-> FALSE,
                  hasMessages |-> FALSE, last |-> 0, num |-> 0, failed |-> {}]

IsComplete(u) == status[u].hasLabels /\ status[u].hasMessages

Spend(what) ==
    /\ budget[what] > 0
    /\ budget' = [budget EXCEPT ![what] = @ - 1]

-----------------------------------------------------------------------------
(* The waiter. *)

Finished(u) == waiter[u].total <= 0

(* n calls of onTaskFinished.  The last one makes doneCh readable, which   *)
(* wakes a handler that is blocked in waitAndClose.                        *)
onTaskFinished(u, n, err) ==
    LET total == waiter[u].total - n IN
    /\ waiter' = [waiter EXCEPT ![u] = [total |-> total, err |-> @.err \/ err]]
    /\ handler' = IF total <= 0 /\ handler[u] = "blocked"
                     THEN [handler EXCEPT ![u] = "joined"] ELSE handler

onTaskCreated(u, n) == waiter' = [waiter EXCEPT ![u].total = @ + n]

-----------------------------------------------------------------------------

Init ==
    /\ handler = [u \in Users |-> "idle"]
    /\ ctxDone = [u \in Users |-> FALSE]
    /\ jobDone = [u \in Users |-> FALSE]
    /\ waiter = [u \in Users |-> [total |-> 0, err |-> FALSE]]
    /\ meta = [u \in Users |-> NoMeta]
    /\ download = Idle /\ build = Idle /\ apply = Idle
    /\ imap = [u \in Users |-> [pc |-> "select", msgs |-> {}]]
    /\ status = [u \in Users |-> DefaultStatus]
    /\ gone = [u \in Users |-> {}]
    /\ published = [u \in Users |-> {}]
    /\ applied = [u \in Users |-> {}]
    /\ budget = [errors |-> MaxErrors, cancels |-> MaxCancels,
                 crashes |-> MaxCrashes]

(* The sync state and what Gluon has stored survive, published updates do  *)
(* not.                                                                    *)
Crash ==
    /\ Spend("crashes")
    /\ handler' = [u \in Users |-> "idle"]
    /\ ctxDone' = [u \in Users |-> FALSE]
    /\ jobDone' = [u \in Users |-> FALSE]
    /\ waiter' = [u \in Users |-> [total |-> 0, err |-> FALSE]]
    /\ meta' = [u \in Users |-> NoMeta]
    /\ download' = Idle /\ build' = Idle /\ apply' = Idle
    /\ imap' = [u \in Users |-> [pc |-> "select", msgs |-> {}]]
    /\ published' = applied
    /\ UNCHANGED <<status, gone, applied>>

-----------------------------------------------------------------------------
(* The handler of user u. *)

GoTo(u, pc) == handler' = [handler EXCEPT ![u] = pc]

Execute(u) ==
    /\ handler[u] = "idle"
    /\ imap[u].pc = "select"
    /\ GoTo(u, "check")
    /\ ctxDone' = [ctxDone EXCEPT ![u] = FALSE]
    /\ UNCHANGED <<jobDone, waiter, meta, stageVars, imap, dataVars, budget>>

(* The top of the loop: the sync is aborted, or run is called. *)
CheckAborted(u) ==
    /\ handler[u] = "check"
    /\ GoTo(u, IF ctxDone[u] THEN "idle" ELSE "labels")
    /\ UNCHANGED <<ctxDone, jobDone, waiter, meta, stageVars, imap, dataVars,
                   budget>>

(* run: the labels go to the IMAP loop, if there are any to sync. *)
SyncLabels(u) ==
    /\ handler[u] = "labels"
    /\ \/ status[u].hasLabels /\ ~IsComplete(u)
       \/ imap[u].pc = "select"
    /\ GoTo(u, IF IsComplete(u) THEN "finished" ELSE "count")
    /\ status' = [status EXCEPT ![u].hasLabels = TRUE]
    /\ UNCHANGED <<ctxDone, jobDone, waiter, meta, stageVars, imap, gone,
                   published, applied, budget>>

(* run: the number of messages, and a job unless they are synced already. *)
CountAndNewJob(u) ==
    /\ handler[u] = "count"
    /\ status' = [status EXCEPT ![u].hasCount = TRUE]
    /\ IF status[u].hasMessages
          THEN GoTo(u, "finished") /\ UNCHANGED <<waiter, jobDone>>
          ELSE /\ GoTo(u, "sync")
               /\ waiter' = [waiter EXCEPT ![u] = [total |-> 1, err |-> FALSE]]
               /\ jobDone' = [jobDone EXCEPT ![u] = ctxDone[u]]
    /\ UNCHANGED <<ctxDone, meta, stageVars, imap, gone, published, applied,
                   budget>>

(* The labels or the count fail: the run is repeated after a while. *)
RunFails(u) ==
    /\ \/ handler[u] = "labels" /\ (IsComplete(u) \/ ~status[u].hasLabels)
       \/ handler[u] = "count" /\ ~status[u].hasCount
    /\ IF ctxDone[u] THEN UNCHANGED budget ELSE Spend("errors")
    /\ GoTo(u, "sleep")
    /\ UNCHANGED <<ctxDone, jobDone, waiter, meta, stageVars, imap, dataVars>>

(* regulator.Sync: the metadata stage takes the job, creates its iterator  *)
(* from the sync state, and starts its goroutine.                          *)
Sync(u) ==
    /\ handler[u] = "sync"
    /\ GoTo(u, "wait")
    /\ meta' = [meta EXCEPT ![u] = [pc |-> "check", next |-> status[u].last + 1,
                                    reqs |-> <<>>]]
    /\ UNCHANGED <<ctxDone, jobDone, waiter, stageVars, imap, dataVars, budget>>

SyncCancelled(u) ==
    /\ handler[u] = "sync"
    /\ ctxDone[u]
    /\ GoTo(u, "sleep")
    /\ waiter' = [waiter EXCEPT ![u] = [total |-> 0, err |-> TRUE]]
    /\ UNCHANGED <<ctxDone, jobDone, meta, stageVars, imap, dataVars, budget>>

(* waitAndClose arrives at its select: a ready case is taken, either one   *)
(* if both are, and otherwise it blocks.                                   *)
WaitAndClose(u) ==
    /\ handler[u] = "wait"
    /\ \/ ctxDone[u] /\ GoTo(u, "drain")
       \/ Finished(u) /\ GoTo(u, "joined")
       \/ ~ctxDone[u] /\ ~Finished(u) /\ GoTo(u, "blocked")
    /\ UNCHANGED <<ctxDone, jobDone, waiter, meta, stageVars, imap, dataVars,
                   budget>>

(* ctx.Done was taken: wait for the waiter, return the context's error. *)
Drain(u) ==
    /\ handler[u] = "drain"
    /\ Finished(u)
    /\ GoTo(u, "sleep")
    /\ UNCHANGED <<ctxDone, jobDone, waiter, meta, stageVars, imap, dataVars,
                   budget>>

(* doneCh was taken: return the waiter's error, or set HasMessages. *)
Joined(u) ==
    /\ handler[u] = "joined"
    /\ IF waiter[u].err
          THEN GoTo(u, "sleep") /\ UNCHANGED status
          ELSE /\ GoTo(u, "finished")
               /\ status' = [status EXCEPT ![u].hasMessages = TRUE]
    /\ UNCHANGED <<ctxDone, jobDone, waiter, meta, stageVars, imap, gone,
                   published, applied, budget>>

WakeUp(u) ==
    /\ handler[u] = "sleep"
    /\ GoTo(u, "check")
    /\ UNCHANGED <<ctxDone, jobDone, waiter, meta, stageVars, imap, dataVars,
                   budget>>

(* The IMAP loop takes the result, unless the handler is being cancelled. *)
SyncFinished(u) ==
    /\ handler[u] = "finished"
    /\ ctxDone[u] \/ imap[u].pc = "select"
    /\ GoTo(u, "idle")
    /\ UNCHANGED <<ctxDone, jobDone, waiter, meta, stageVars, imap, dataVars,
                   budget>>

-----------------------------------------------------------------------------
(* The job's goroutine in the metadata stage. *)

(* The top of the loop: a cancelled job ends here. *)
MetadataCheck(u) ==
    /\ meta[u].pc = "check"
    /\ IF jobDone[u]
          THEN /\ onTaskFinished(u, 1, FALSE)
               /\ meta' = [meta EXCEPT ![u] = NoMeta]
          ELSE /\ meta' = [meta EXCEPT ![u].pc = "next"]
               /\ UNCHANGED <<handler, waiter>>
    /\ UNCHANGED <<ctxDone, jobDone, stageVars, imap, dataVars, budget>>

(* The iterator's Next returns a child job with the next messages.  The    *)
(* last batch may or may not come with hasMore = false.                    *)
MetadataNext(u) ==
    /\ meta[u].pc = "next"
    /\ \E hi \in (meta[u].next..NumMessages) \ gone[u] :
          LET ids == (meta[u].next..hi) \ gone[u] IN
          /\ Cardinality(ids) <= MaxBatch
          /\ meta' = [meta EXCEPT ![u] =
                        [pc |-> "produce", next |-> hi + 1,
                         reqs |-> <<[user |-> u, last |-> hi, msgs |-> ids,
                                     count |-> Cardinality(ids)]>>]]
    /\ onTaskCreated(u, 1)
    /\ UNCHANGED <<handler, ctxDone, jobDone, stageVars, imap, dataVars, budget>>

(* There are no more messages: the job has no work left. *)
MetadataEnd(u) ==
    /\ meta[u].pc = "next"
    /\ meta[u].next..NumMessages \subseteq gone[u]
    /\ onTaskFinished(u, 1, FALSE)
    /\ meta' = [meta EXCEPT ![u] = NoMeta]
    /\ UNCHANGED <<ctxDone, jobDone, stageVars, imap, dataVars, budget>>

(* Next fails: onError cancels the job, and then reports to the waiter. *)
MetadataFails(u) ==
    /\ meta[u].pc = "next"
    /\ IF jobDone[u] THEN UNCHANGED budget ELSE Spend("errors")
    /\ jobDone' = [jobDone EXCEPT ![u] = TRUE]
    /\ meta' = [meta EXCEPT ![u].pc = "fail"]
    /\ UNCHANGED <<handler, ctxDone, waiter, stageVars, imap, dataVars>>

MetadataOnError(u) ==
    /\ meta[u].pc = "fail"
    /\ onTaskFinished(u, 1, TRUE)
    /\ meta' = [meta EXCEPT ![u] = NoMeta]
    /\ UNCHANGED <<ctxDone, jobDone, stageVars, imap, dataVars, budget>>

-----------------------------------------------------------------------------
(* The stages.  A stage that takes a batch of a cancelled job reports to   *)
(* the waiter and drops the batch (checkCancelled).                        *)

Owner(stage) == Head(stage.reqs).user

(* The download stage takes the batch of u's metadata goroutine. *)
ConsumeDownload(u) ==
    /\ meta[u].pc = "produce"
    /\ download = Idle
    /\ \E pc \in {"check", "end"} :
          /\ pc = "end" => meta[u].next..NumMessages \subseteq gone[u]
          /\ meta' = [meta EXCEPT ![u] = [pc |-> pc, next |-> @.next, reqs |-> <<>>]]
    /\ IF jobDone[u]
          THEN onTaskFinished(u, 1, TRUE) /\ UNCHANGED download
          ELSE /\ download' = [pc |-> "work", reqs |-> meta[u].reqs]
               /\ UNCHANGED <<handler, waiter>>
    /\ UNCHANGED <<ctxDone, jobDone, build, apply, imap, dataVars, budget>>

(* hasMore was false: the job has no work left. *)
MetadataNoMore(u) ==
    /\ meta[u].pc = "end"
    /\ onTaskFinished(u, 1, FALSE)
    /\ meta' = [meta EXCEPT ![u] = NoMeta]
    /\ UNCHANGED <<ctxDone, jobDone, stageVars, imap, dataVars, budget>>

(* The messages are downloaded; the ones the server no longer has are      *)
(* filtered out.                                                           *)
Download ==
    /\ download.pc = "work"
    /\ \E del \in SUBSET Head(download.reqs).msgs :
          /\ gone' = [gone EXCEPT ![Owner(download)] = @ \cup del]
          /\ download' = [pc |-> "produce",
                          reqs |-> <<[Head(download.reqs) EXCEPT !.msgs = @ \ del]>>]
    /\ UNCHANGED <<handlerVars, meta, build, apply, imap, status, published,
                   applied, budget>>

DownloadFails ==
    /\ download.pc = "work"
    /\ IF jobDone[Owner(download)] THEN UNCHANGED budget ELSE Spend("errors")
    /\ jobDone' = [jobDone EXCEPT ![Owner(download)] = TRUE]
    /\ download' = [download EXCEPT !.pc = "fail"]
    /\ UNCHANGED <<handler, ctxDone, waiter, meta, build, apply, imap, dataVars>>

DownloadOnError ==
    /\ download.pc = "fail"
    /\ onTaskFinished(Owner(download), 1, TRUE)
    /\ download' = Idle
    /\ UNCHANGED <<ctxDone, jobDone, meta, build, apply, imap, dataVars, budget>>

(* A batch without messages is passed on as it is. *)
ConsumeBuild ==
    /\ download.pc = "produce"
    /\ build = Idle
    /\ download' = Idle
    /\ IF jobDone[Owner(download)]
          THEN onTaskFinished(Owner(download), 1, TRUE) /\ UNCHANGED build
          ELSE /\ build' = [pc |-> IF Head(download.reqs).msgs = {}
                                      THEN "produce" ELSE "divide",
                            reqs |-> download.reqs]
               /\ UNCHANGED <<handler, waiter>>
    /\ UNCHANGED <<ctxDone, jobDone, meta, apply, imap, dataVars, budget>>

(* chunkDivide: the batch is cut after each message of ends.  Only the     *)
(* chunks before the last are new child jobs.                              *)
Chunk(req, ends, i) == {m \in req.msgs : m <= ends[i] /\ (i > 1 => m > ends[i - 1])}

chunkDivide(req, ends) ==
    [i \in DOMAIN ends |->
        IF i = Len(ends)
           THEN [req EXCEPT !.msgs = Chunk(req, ends, i)]
           ELSE [user |-> req.user, last |-> ends[i], msgs |-> Chunk(req, ends, i),
                 count |-> Cardinality(Chunk(req, ends, i))]]

(* The ways to cut: n messages in their order, the last one among them. *)
Cuts(msgs, n) ==
    {ends \in [1..n -> msgs] : /\ \A i, j \in 1..n : i < j => ends[i] < ends[j]
                               /\ \A m \in msgs : m <= ends[n]}

ChunkDivide ==
    /\ build.pc = "divide"
    /\ \E n \in 1..MaxBatch : \E ends \in Cuts(Head(build.reqs).msgs, n) :
          /\ build' = [pc |-> "chunk", reqs |-> chunkDivide(Head(build.reqs), ends)]
          /\ onTaskCreated(Owner(build), n - 1)
    /\ UNCHANGED <<handler, ctxDone, jobDone, meta, download, apply, imap,
                   dataVars, budget>>

(* WithKeys cannot unlock the keys. *)
BuildFails ==
    /\ build.pc = "divide"
    /\ Spend("errors")
    /\ jobDone' = [jobDone EXCEPT ![Owner(build)] = TRUE]
    /\ build' = [build EXCEPT !.pc = "fail"]
    /\ UNCHANGED <<handler, ctxDone, waiter, meta, download, apply, imap, dataVars>>

BuildOnError ==
    /\ build.pc = "fail"
    /\ onTaskFinished(Owner(build), 1, TRUE)
    /\ build' = Idle
    /\ UNCHANGED <<ctxDone, jobDone, meta, download, apply, imap, dataVars, budget>>

(* The job was cancelled: the chunks that are left are all reported. *)
ChunkCancelled ==
    /\ build.pc = "chunk"
    /\ jobDone[Owner(build)]
    /\ onTaskFinished(Owner(build), Len(build.reqs), TRUE)
    /\ build' = Idle
    /\ UNCHANGED <<ctxDone, jobDone, meta, download, apply, imap, dataVars, budget>>

(* Build the next chunk; messages that cannot be built are recorded. *)
BuildChunk ==
    /\ build.pc = "chunk"
    /\ ~jobDone[Owner(build)]
    /\ \E bad \in SUBSET Head(build.reqs).msgs :
          LET ok == Head(build.reqs).msgs \ bad IN
          /\ IF bad = {} THEN UNCHANGED budget ELSE Spend("errors")
          /\ status' = [status EXCEPT ![Owner(build)].failed = (@ \cup bad) \ ok]
          /\ build' = [pc |-> "produce",
                       reqs |-> <<[Head(build.reqs) EXCEPT !.msgs = ok]>>
                                \o Tail(build.reqs)]
    /\ UNCHANGED <<handlerVars, meta, download, apply, imap, gone, published,
                   applied>>

(* Mutant: the apply stage drops a cancelled batch without a report. *)
ConsumeApplySilent ==
    /\ build.pc = "produce"
    /\ apply = Idle
    /\ build' = IF Len(build.reqs) = 1
                   THEN Idle ELSE [pc |-> "chunk", reqs |-> Tail(build.reqs)]
    /\ apply' = IF jobDone[Owner(build)] THEN Idle
                ELSE [pc |-> "request", reqs |-> <<Head(build.reqs)>>]
    /\ UNCHANGED <<handlerVars, meta, download, imap, dataVars, budget>>

(* Mutant: the apply stage does not look whether the job is cancelled. *)
ConsumeApplyUnchecked ==
    /\ build.pc = "produce"
    /\ apply = Idle
    /\ build' = IF Len(build.reqs) = 1
                   THEN Idle ELSE [pc |-> "chunk", reqs |-> Tail(build.reqs)]
    /\ apply' = [pc |-> IF Head(build.reqs).msgs = {} THEN "finish" ELSE "request",
                 reqs |-> <<Head(build.reqs)>>]
    /\ UNCHANGED <<handlerVars, meta, download, imap, dataVars, budget>>

ConsumeApply ==
    /\ build.pc = "produce"
    /\ apply = Idle
    /\ build' = IF Len(build.reqs) = 1
                   THEN Idle ELSE [pc |-> "chunk", reqs |-> Tail(build.reqs)]
    /\ IF jobDone[Owner(build)]
          THEN onTaskFinished(Owner(build), 1, TRUE) /\ UNCHANGED apply
          ELSE /\ apply' = [pc |-> IF Head(build.reqs).msgs = {}
                                      THEN "finish" ELSE "request",
                            reqs |-> <<Head(build.reqs)>>]
               /\ UNCHANGED <<handler, waiter>>
    /\ UNCHANGED <<ctxDone, jobDone, meta, download, imap, dataVars, budget>>

-----------------------------------------------------------------------------
(* ApplySyncUpdates, and the IMAP loop it talks to. *)

ApplyMsgs == Head(apply.reqs).msgs

(* sendRequest: the IMAP loop takes the request. *)
SendRequest ==
    /\ apply.pc = "request"
    /\ imap[Owner(apply)].pc = "select"
    /\ apply' = [apply EXCEPT !.pc = "reply"]
    /\ imap' = [imap EXCEPT ![Owner(apply)] = [pc |-> "publish",
                                               msgs |-> ApplyMsgs]]
    /\ UNCHANGED <<handlerVars, meta, download, build, dataVars, budget>>

(* sendRequest returns since the job's context is cancelled. *)
SendRequestCancelled ==
    /\ apply.pc \in {"request", "reply"}
    /\ jobDone[Owner(apply)]
    /\ apply' = [apply EXCEPT !.pc = "fail"]
    /\ UNCHANGED <<handlerVars, meta, download, build, imap, dataVars, budget>>

(* The IMAP loop publishes the updates to Gluon. *)
PublishUpdates(u) ==
    /\ imap[u].pc = "publish"
    /\ published' = [published EXCEPT ![u] = @ \cup imap[u].msgs]
    /\ imap' = [imap EXCEPT ![u].pc = "reply"]
    /\ UNCHANGED <<handlerVars, meta, stageVars, status, gone, applied, budget>>

(* reply: the IMAP loop waits until the apply stage takes the reply. *)
Reply(u) ==
    /\ imap[u].pc = "reply"
    /\ apply.pc = "reply" /\ Owner(apply) = u
    /\ apply' = [apply EXCEPT !.pc = "updates"]
    /\ imap' = [imap EXCEPT ![u] = [pc |-> "select", msgs |-> {}]]
    /\ UNCHANGED <<handlerVars, meta, download, build, dataVars, budget>>

(* Gluon stores a message. *)
GluonApplies(u) ==
    /\ \E m \in published[u] \ applied[u] :
          applied' = [applied EXCEPT ![u] = @ \cup {m}]
    /\ UNCHANGED <<handlerVars, meta, stageVars, imap, status, gone, published,
                   budget>>

(* Mutant: the stage does not wait for Gluon. *)
UpdatesDoneAtOnce ==
    /\ apply.pc = "updates"
    /\ apply' = [apply EXCEPT !.pc = "finish"]
    /\ UNCHANGED <<handlerVars, meta, download, build, imap, dataVars, budget>>

(* waitOnIMAPUpdates: the updates are done, or the context is; the latter  *)
(* is no error.                                                            *)
UpdatesDone ==
    /\ apply.pc = "updates"
    /\ ApplyMsgs \subseteq applied[Owner(apply)] \/ jobDone[Owner(apply)]
    /\ apply' = [apply EXCEPT !.pc = "finish"]
    /\ UNCHANGED <<handlerVars, meta, download, build, imap, dataVars, budget>>

(* Gluon rejects the update, or the sync state cannot be stored. *)
ApplyFails ==
    /\ apply.pc \in {"updates", "finish"}
    /\ Spend("errors")
    /\ jobDone' = [jobDone EXCEPT ![Owner(apply)] = TRUE]
    /\ apply' = [apply EXCEPT !.pc = "fail"]
    /\ UNCHANGED <<handler, ctxDone, waiter, meta, download, build, imap, dataVars>>

ApplyOnError ==
    /\ apply.pc = "fail"
    /\ jobDone' = [jobDone EXCEPT ![Owner(apply)] = TRUE]
    /\ onTaskFinished(Owner(apply), 1, TRUE)
    /\ apply' = Idle
    /\ UNCHANGED <<ctxDone, meta, download, build, imap, dataVars, budget>>

(* onJobFinished: SetLastMessageID, and the task is done. *)
OnJobFinished ==
    /\ apply.pc = "finish"
    /\ LET s == status[Owner(apply)] IN
       status' = [status EXCEPT ![Owner(apply)] =
                     [s EXCEPT !.last = Head(apply.reqs).last,
                               !.num = s.num + Head(apply.reqs).count]]
    /\ onTaskFinished(Owner(apply), 1, FALSE)
    /\ apply' = Idle
    /\ UNCHANGED <<ctxDone, jobDone, meta, download, build, imap, gone, published,
                   applied, budget>>

-----------------------------------------------------------------------------
(* The IMAP loop cancels the sync and waits for the handler to end. *)

CancelSync(u) ==
    /\ imap[u].pc = "select"
    /\ handler[u] # "idle"
    /\ Spend("cancels")
    /\ ctxDone' = [ctxDone EXCEPT ![u] = TRUE]
    /\ jobDone' = [jobDone EXCEPT ![u] = TRUE]
    /\ handler' = IF handler[u] = "blocked"
                     THEN [handler EXCEPT ![u] = "drain"] ELSE handler
    /\ imap' = [imap EXCEPT ![u].pc = "cancel"]
    /\ UNCHANGED <<waiter, meta, stageVars, dataVars>>

CancelWaited(u) ==
    /\ imap[u].pc = "cancel"
    /\ handler[u] = "idle"
    /\ imap' = [imap EXCEPT ![u].pc = "select"]
    /\ UNCHANGED <<handlerVars, meta, stageVars, dataVars, budget>>

(* As above, for a refresh: the messages and the sync state are deleted. *)
ClearSyncStatus(u) ==
    /\ imap[u].pc = "cancel"
    /\ handler[u] = "idle"
    /\ imap' = [imap EXCEPT ![u].pc = "select"]
    /\ status' = [status EXCEPT ![u] = DefaultStatus]
    /\ published' = [published EXCEPT ![u] = {}]
    /\ applied' = [applied EXCEPT ![u] = {}]
    /\ UNCHANGED <<handlerVars, meta, stageVars, gone, budget>>

-----------------------------------------------------------------------------

HandlerStep(u) ==
    \/ CheckAborted(u)
    \/ SyncLabels(u)
    \/ CountAndNewJob(u)
    \/ RunFails(u)
    \/ Sync(u)
    \/ SyncCancelled(u)
    \/ WaitAndClose(u)
    \/ Drain(u)
    \/ Joined(u)
    \/ WakeUp(u)
    \/ SyncFinished(u)

MetadataStep(u) ==
    \/ MetadataCheck(u)
    \/ MetadataNext(u)
    \/ MetadataEnd(u)
    \/ MetadataFails(u)
    \/ MetadataOnError(u)
    \/ ConsumeDownload(u)
    \/ MetadataNoMore(u)

DownloadStep == Download \/ DownloadFails \/ DownloadOnError \/ ConsumeBuild

BuildStep ==
    \/ ChunkDivide
    \/ BuildFails
    \/ BuildOnError
    \/ ChunkCancelled
    \/ BuildChunk
    \/ ConsumeApply

ApplyStep ==
    \/ SendRequest
    \/ SendRequestCancelled
    \/ UpdatesDone
    \/ ApplyFails
    \/ ApplyOnError
    \/ OnJobFinished

ImapStep(u) ==
    \/ PublishUpdates(u)
    \/ Reply(u)
    \/ CancelWaited(u)
    \/ ClearSyncStatus(u)

Next ==
    \/ Crash
    \/ \E u \in Users : \/ Execute(u)
                        \/ CancelSync(u)
                        \/ HandlerStep(u)
                        \/ MetadataStep(u)
                        \/ ImapStep(u)
                        \/ GluonApplies(u)
    \/ DownloadStep
    \/ BuildStep
    \/ ApplyStep

Spec == Init /\ [][Next]_vars

(* Every goroutine that can take a step takes one.  Whether a sync is      *)
(* started or cancelled is up to the IMAP service.                         *)
Fairness ==
    /\ \A u \in Users : /\ WF_vars(HandlerStep(u))
                        /\ WF_vars(MetadataStep(u))
                        /\ WF_vars(ImapStep(u))
                        /\ WF_vars(GluonApplies(u))
    /\ WF_vars(DownloadStep)
    /\ WF_vars(BuildStep)
    /\ WF_vars(ApplyStep)

FairSpec == Spec /\ Fairness

-----------------------------------------------------------------------------

(* A stage works for one user at a time. *)
Stage(pcs) == {s \in [pc : pcs, reqs : Seq(Request)] :
                  \A i \in DOMAIN s.reqs : s.reqs[i].user = Owner(s)}

(* The types of the variables; the sync state names an existing message. *)
TypeOK ==
    /\ handler \in [Users -> {"idle", "check", "labels", "count", "sync", "wait",
                              "blocked", "drain", "joined", "sleep", "finished"}]
    /\ ctxDone \in [Users -> BOOLEAN]
    /\ jobDone \in [Users -> BOOLEAN]
    /\ waiter \in [Users -> [total : Int, err : BOOLEAN]]
    /\ meta \in [Users -> [pc : {"none", "check", "next", "produce", "end", "fail"},
                           next : Nat, reqs : Seq(Request)]]
    /\ download \in Stage({"idle", "work", "produce", "fail"})
    /\ build \in Stage({"idle", "divide", "chunk", "produce", "fail"})
    /\ apply \in Stage({"idle", "request", "reply", "updates", "finish", "fail"})
    /\ imap \in [Users -> [pc : {"select", "publish", "reply", "cancel"},
                           msgs : SUBSET Messages]]
    /\ status \in [Users -> [hasLabels : BOOLEAN, hasCount : BOOLEAN,
                             hasMessages : BOOLEAN, last : 0..NumMessages,
                             num : Nat, failed : SUBSET Messages]]
    /\ gone \in [Users -> SUBSET Messages]
    /\ published \in [Users -> SUBSET Messages]
    /\ applied \in [Users -> SUBSET Messages]
    /\ budget \in [{"errors", "cancels", "crashes"} -> Nat]

(* The tasks of u's job: the metadata goroutine (or the job on its way to  *)
(* it) and the child jobs in the pipeline.                                 *)
Held(stage, u) == IF stage.reqs # <<>> /\ Owner(stage) = u THEN Len(stage.reqs) ELSE 0
Tasks(u) ==
    (IF handler[u] = "sync" \/ meta[u].pc # "none" THEN 1 ELSE 0)
    + Len(meta[u].reqs) + Held(download, u) + Held(build, u) + Held(apply, u)

(* jobWaiter, "Child count less than 0, shouldn't happen...": the count is *)
(* exactly the number of tasks that have still to report.  So the waiter   *)
(* neither ends before the last report, which would block its sender for   *)
(* ever, nor waits for one that never comes, whatever way batches are      *)
(* split, dropped and cancelled.                                           *)
TasksCounted == \A u \in Users : waiter[u].total = Tasks(u)

(* What a restarted sync skips was dealt with: handed to Gluon, recorded   *)
(* as failed, or deleted on the server.                                    *)
SkippedWasPublished ==
    \A u \in Users :
       1..status[u].last \subseteq published[u] \cup status[u].failed \cup gone[u]

(* ApplyStage "applies the sync updates and waits for their completion     *)
(* before proceeding with the next batch": what a restarted sync skips is  *)
(* in Gluon.                                                               *)
SkippedWasApplied ==
    \A u \in Users :
       1..status[u].last \subseteq applied[u] \cup status[u].failed \cup gone[u]

(* "end is expected to be called once the job has no further work left":   *)
(* HasMessages is set only when no message is left to sync.                *)
CompleteIsComplete ==
    \A u \in Users :
       status[u].hasMessages
       => Messages \subseteq published[u] \cup status[u].failed \cup gone[u]

(* The same for every step that sets HasMessages, whatever failed before,  *)
(* but for a handler whose context is cancelled: a job that is cancelled   *)
(* at the top of the metadata loop ends without an error.                  *)
CompleteStep ==
    \A u \in Users :
       ~status[u].hasMessages /\ status'[u].hasMessages
       => \/ Messages \subseteq published[u] \cup status[u].failed \cup gone[u]
          \/ ctxDone[u]

(* NumSyncedMessages, the numerator of the progress, never falls short of  *)
(* the messages that the sync state has behind it, over any number of      *)
(* failed and resumed runs.  (It may exceed them: chunkDivide counts the   *)
(* messages of a divided batch again in the last chunk.)                   *)
CountCoversSynced ==
    \A u \in Users :
       status[u].num >= Cardinality((1..status[u].last) \ gone[u])

(* No crash, or no error and no cancellation, has happened so far. *)
NoCrash == budget["crashes"] = MaxCrashes
NoFault == budget["errors"] = MaxErrors /\ budget["cancels"] = MaxCancels

(* What a sync keeps account of, whatever batches are divided, dropped,    *)
(* cancelled and failing: the waiter counts the tasks; until the bridge    *)
(* crashes, what a restarted sync skips was handed to Gluon; and over any  *)
(* number of crashes, as long as nothing fails and nothing is cancelled,   *)
(* what it skips is in Gluon, and HasMessages means that none is left.     *)
SyncAccounted ==
    /\ TasksCounted
    /\ NoCrash => SkippedWasPublished
    /\ NoFault => SkippedWasApplied /\ CompleteIsComplete

(* A Job ends "by either: Completing the pipeline successfully, Context    *)
(* Cancellation, Errors": a handler that waits for its job gets out.       *)
JobOver(u) == handler[u] \notin {"wait", "blocked", "drain"}
JobTerminates == \A u \in Users : []<>JobOver(u)
=============================================================================
