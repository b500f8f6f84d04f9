------------------------------ MODULE MCStart -------------------------------
(* How the program comes to run: the key chain and the vault (Startup), the
   versions on disk and the launcher (Install), the processes that start at the
   same time (Instances), the bundle that the updater replaces (BundleSync) and
   the log files that every start opens and prunes (Logs). They meet in a start
   of the program but share no state that is modelled here, so one run takes
   them one at a time. The property of the bundle is that of its module. *)
EXTENDS FiniteSets, BundleSync

CONSTANTS None, Torn, h1, h2, a1, a2

VARIABLES
  part,     \* the part of the program this behaviour is about
  usable, locked, item, default, pref, count, vault, insecure, pcStartup, helper, key, flags, corrupt, keys,
  meddling, exits, excuse, unsaved, failed,
  dir, app, starter, top, announced, crashes, swept, overlapped, starts, faultsInstall,
  pcInstances, lock, pid, config, raiseCh, panics, restart, killed, asked,
  files, next, live, out, locks, own, failing, fatal, faultsLogs

Startup == INSTANCE Startup WITH
  pc <- pcStartup, Helpers <- {h1, h2}, Accounts <- {a1}, OldAccounts <- {a1, a2}, MaxKeys <- 2,
  MaxMeddling <- 1
Install == INSTANCE Install WITH
  faults <- faultsInstall, Versions <- {1, 2}, Files <- {"exe", "lib"}, MaxCrash <- 2, MaxStarts <- 2,
  MaxFaults <- 2
Instances == INSTANCE Instances WITH
  pc <- pcInstances, Procs <- {1, 2, 3}, Older <- {1}, Spent <- {2}
Logs == INSTANCE Logs WITH
  faults <- faultsLogs, MaxFile <- 1, Pruning <- 2, Base <- 3, Limit <- 3, MaxSessions <- 3, MaxFiles <- 4,
  MaxFaults <- 1, MaxReported <- 2, MaxZip <- 4

startupVars == <<usable, locked, item, default, pref, count, vault, insecure, pcStartup, helper, key, flags,
                 corrupt, keys, meddling, exits, excuse, unsaved, failed>>
installVars == <<dir, app, starter, top, announced, crashes, swept, overlapped, starts, faultsInstall>>
instancesVars == <<pcInstances, lock, pid, config, raiseCh, panics, restart, killed, asked>>
logsVars == <<files, next, live, out, locks, own, failing, fatal, faultsLogs>>
vars == <<part, startupVars, installVars, instancesVars, bundleVars, logsVars>>

(* The variables of the other parts have no value. *)
NoStartup == usable = None /\ locked = None /\ item = None /\ default = None /\ pref = None /\ count = None /\
             vault = None /\ insecure = None /\ pcStartup = None /\ helper = None /\ key = None /\ flags = None
             /\ corrupt = None /\ keys = None /\ meddling = None /\ exits = None /\ excuse = None /\
             unsaved = None /\ failed = None
NoInstall == dir = None /\ app = None /\ starter = None /\ top = None /\ announced = None /\ crashes = None /\
             swept = None /\ overlapped = None /\ starts = None /\ faultsInstall = None
NoInstances == pcInstances = None /\ lock = None /\ pid = None /\ config = None /\ raiseCh = None /\
               panics = None /\ restart = None /\ killed = None /\ asked = None
NoBundle == local = None /\ update = None /\ backup = None /\ unreadable = None /\ step = None /\ at = None /\
            good = None /\ broken = None /\ faults = None /\ tries = None
NoLogs == files = None /\ next = None /\ live = None /\ out = None /\ locks = None /\ own = None /\
          failing = None /\ fatal = None /\
          faultsLogs = None

Init ==
  \/ part = "startup" /\ Startup!Init /\ NoInstall /\ NoInstances /\ NoBundle /\ NoLogs
  \/ part = "install" /\ Install!Init /\ NoStartup /\ NoInstances /\ NoBundle /\ NoLogs
  \/ part = "instances" /\ Instances!Init /\ NoStartup /\ NoInstall /\ NoBundle /\ NoLogs
  \/ part = "bundle" /\ BundleInit /\ NoStartup /\ NoInstall /\ NoInstances /\ NoLogs
  \/ part = "logs" /\ Logs!Init /\ NoStartup /\ NoInstall /\ NoInstances /\ NoBundle

Next ==
  \/ part = "startup" /\ Startup!Next /\ UNCHANGED <<part, installVars, instancesVars, bundleVars, logsVars>>
  \/ part = "install" /\ Install!Next /\ UNCHANGED <<part, startupVars, instancesVars, bundleVars, logsVars>>
  \/ part = "instances" /\ Instances!Next /\ UNCHANGED <<part, startupVars, installVars, bundleVars, logsVars>>
  \/ part = "bundle" /\ BundleNext /\ UNCHANGED <<part, startupVars, installVars, instancesVars, logsVars>>
  \/ part = "logs" /\ Logs!Next /\ UNCHANGED <<part, startupVars, installVars, instancesVars, bundleVars>>

(* The fairness that each part assumes, in the behaviours that are about it. *)
Fairness ==
  /\ WF_startupVars(part = "startup" /\ Startup!Step)
  /\ WF_startupVars(part = "startup" /\ Startup!Start)
  /\ WF_installVars(part = "install" /\ Install!StarterStep)
  /\ WF_installVars(part = "install" /\ Install!Restart)
  /\ \A p \in {1, 2, 3} : WF_instancesVars(part = "instances" /\ Instances!Step(p))

Spec == Init /\ [][Next]_vars /\ Fairness

-----------------------------------------------------------------------------
(* The vault and its key stay together: a start wipes accounts only when
   something outside came between them, a given-up start is not repeated
   for ever, an account of version 2 is migrated or reported, the insecure
   vault is removed only by a secure start, and once the key chain is well
   again the program runs with it (Startup). *)
VaultIsKept ==
  /\ [](part = "startup" => Startup!KeyIsKept /\ Startup!ExitsBounded /\ Startup!MigratedOrFailed)
  /\ [][part = "startup" => Startup!WipeStep /\ Startup!InsecureStep]_vars
  /\ (/\ <>[](part = "startup" /\ Startup!Healthy)
      /\ []<>(part = "startup" /\ Startup!Off)) => []<>(part = "startup" /\ Startup!RunsSecure)

(* The bridge that runs is complete and never older than one that ran before,
   and what was announced as installed is complete, but for the named
   races of clean-up, launcher and installation; a bridge that keeps
   crashing is not restarted for ever, and every start ends in a running
   bridge, a raised one or an error (Install). *)
RunsNewestComplete ==
  /\ [](part = "install" => Install!AnnouncedIsComplete /\ Install!NoDowngrade /\ Install!CrashesBounded)
  /\ [][part = "install" => Install!RunStep]_vars
  /\ []<>(part = "install" => Install!Started)

(* Of processes that start, crash and kill one another only one is past the
   lock, it is the newest but for the named race, a crash brings a
   successor where it should, and no starter waits for ever (Instances). *)
OneBridge ==
  /\ [](part = "instances" => Instances!OneInstance /\ Instances!KillsOlder /\ Instances!CrashRestarts)
  /\ []<>(part = "instances" => \A p \in {1, 2, 3} : Instances!Serves(p) \/ Instances!Dead(p))

(* Pruning frees what it must, takes the eldest first and nothing of its own
   session, a log is emptied only by the report of a fatal error, and a
   bug report has every session it should (Logs). *)
LogsAreKept ==
  /\ [](part = "logs" => Logs!ReportComplete /\ Logs!ArchiveFits)
  /\ [][part = "logs" => Logs!PruneStep /\ Logs!OwnStep /\ Logs!EldestStep /\ Logs!EmptyStep]_vars
=============================================================================
