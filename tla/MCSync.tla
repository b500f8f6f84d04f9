------------------------------- MODULE MCSync -------------------------------
(* What a user's mailboxes are made of: the event loop and the rewind after a
   sync (EventSync), the pipeline of a sync with failing and cancelled jobs and
   with crashes (SyncPipeline, twice), and the databases and connectors of the
   addresses (Connectors). One run takes them one at a time; what happens in
   the end is for MCSyncLive. *)
EXTENDS EventSync

CONSTANTS None, r1, r2, u1

VARIABLES
  part,     \* the part of the program this behaviour is about
  handler, ctxDone, jobDone, waiter, meta, download, build, apply, imapPipeline, statusPipeline, gone,
  published, applied, budget,
  api, ident, events, vmode, mode, gluonIDs, db, server, loaded, conns, statusConnectors, syncConnectors, todo,
  watch, net, up, imapListener, smtpListener, bad, raced, calls, faultsConnectors

Pipeline == INSTANCE SyncPipeline WITH
  imap <- imapPipeline, status <- statusPipeline, Users <- {u1}, NumMessages <- 3, MaxBatch <- 2,
  MaxErrors <- 1, MaxCancels <- 1, MaxCrashes <- 0
Crashing == INSTANCE SyncPipeline WITH
  imap <- imapPipeline, status <- statusPipeline, Users <- {u1}, NumMessages <- 3, MaxBatch <- 2,
  MaxErrors <- 0, MaxCancels <- 0, MaxCrashes <- 2
Connectors == INSTANCE Connectors WITH
  status <- statusConnectors, sync <- syncConnectors, faults <- faultsConnectors, Addrs <- {1, 2}, MaxIDs <- 4,
  MaxCalls <- 3, MaxFaults <- 1

pipelineVars == <<handler, ctxDone, jobDone, waiter, meta, download, build, apply, imapPipeline, statusPipeline,
                  gone, published, applied, budget>>
connectorsVars == <<api, ident, events, vmode, mode, gluonIDs, db, server, loaded, conns, statusConnectors,
                    syncConnectors, todo, watch, net, up, imapListener, smtpListener, bad, raced, calls,
                    faultsConnectors>>
mcVars == <<part, vars, pipelineVars, connectorsVars>>

(* The variables of the other parts have no value; EventSync waits. *)
NoPipeline == handler = None /\ ctxDone = None /\ jobDone = None /\ waiter = None /\ meta = None /\
              download = None /\ build = None /\ apply = None /\ imapPipeline = None /\ statusPipeline = None /\
              gone = None /\ published = None /\ applied = None /\ budget = None
NoConnectors == api = None /\ ident = None /\ events = None /\ vmode = None /\ mode = None /\ gluonIDs = None /\
                db = None /\ server = None /\ loaded = None /\ conns = None /\ statusConnectors = None /\
                syncConnectors = None /\ todo = None /\ watch = None /\ net = None /\ up = None /\
                imapListener = None /\ smtpListener = None /\ bad = None /\ raced = None /\ calls = None /\
                faultsConnectors = None

MCInit ==
  \/ part = "events" /\ Init /\ NoPipeline /\ NoConnectors
  \/ part = "pipeline" /\ Pipeline!Init /\ Init /\ NoConnectors
  \/ part = "crash" /\ Crashing!Init /\ Init /\ NoConnectors
  \/ part = "connectors" /\ Connectors!Init /\ Init /\ NoPipeline

MCNext ==
  \/ part = "events" /\ Next /\ UNCHANGED <<part, pipelineVars, connectorsVars>>
  \/ part = "pipeline" /\ Pipeline!Next /\ UNCHANGED <<part, vars, connectorsVars>>
  \/ part = "crash" /\ Crashing!Next /\ UNCHANGED <<part, vars, connectorsVars>>
  \/ part = "connectors" /\ Connectors!Next /\ UNCHANGED <<part, vars, pipelineVars>>

MCSpec == MCInit /\ [][MCNext]_mcVars

-----------------------------------------------------------------------------
(* However a job fails, is cancelled or crashes, a sync keeps account of its
   tasks and messages: what a restarted sync skips was handed to Gluon, and is
   stored there if nothing but crashes happened; the progress covers what is
   behind it; and a sync counts as complete only if nothing is left or it was
   cancelled (SyncPipeline with errors and cancellations, and with crashes). *)
SyncSkipsDone ==
  /\ [](part = "pipeline" => Pipeline!TypeOK /\ Pipeline!SyncAccounted)
  /\ [](part = "crash" => Crashing!SyncAccounted /\ Crashing!CountCoversSynced)
  /\ [][part = "pipeline" => Pipeline!CompleteStep]_mcVars

(* At rest every address that is to have a mailbox has a loaded connector on
   a database of its own, no database is left behind, a complete sync
   status means full mailboxes, and the listeners are open (Connectors). *)
MailboxesServed ==
  part = "connectors" =>
    /\ Connectors!Served /\ Connectors!OneOwner /\ Connectors!NoLeak
    /\ Connectors!CompleteIsPopulated /\ Connectors!ListenersOpen
=============================================================================
