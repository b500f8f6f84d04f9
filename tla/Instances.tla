----------------------------- MODULE Instances -----------------------------
(* Several processes of the program started at about the same time: the lock
   file, the focus service that answers with the version and raises the
   window, the kill of an older instance, and what a panic does to a process
   (internal/app/singleinstance.go, migration.go; internal/focus;
   internal/crash; internal/service/config.go). *)
EXTENDS Naturals, FiniteSets

CONSTANTS
  Procs,        \* the processes
  Older,        \* those of them that run an older version
  Spent,        \* those that have no executable to restart, or have crashed too often in a row
  None

VARIABLES
  pc,        \* pc[p]: where process p is
  lock,      \* the process that has the lock file locked
  pid,       \* the process whose id the lock file holds
  config,    \* the process whose port grpcFocusServerConfig.json holds
  raiseCh,   \* raiseCh[p]: the raises its focus service has buffered
  panics,    \* panics[p]: panics the crash handler has handled
  restart,   \* restart[p]: what became of its restart
  killed,    \* pairs: who killed whom
  asked      \* asked[p]: who answered the question for the version

vars == <<pc, lock, pid, config, raiseCh, panics, restart, killed, asked>>

Version(p) == IF p \in Older THEN 1 ELSE 2
Dead(p) == pc[p] \in {"none", "ended", "killed", "crashed"}
Serves(p) == pc[p] \in {"up", "quitting"}

(* withClientConn: someone answers on the port in the file. *)
Listening == config # None /\ Serves(config)

Init ==
  /\ pc = [p \in Procs |-> "none"]
  /\ lock = None /\ pid = None /\ config = None
  /\ raiseCh = [p \in Procs |-> 0] /\ panics = [p \in Procs |-> 0]
  /\ restart = [p \in Procs |-> "none"] /\ killed = {}
  /\ asked = [p \in Procs |-> None]

Goes(p, to) == pc' = [pc EXCEPT ![p] = to]
(* The operating system releases the lock of a process that ends. *)
Releases(p) == lock' = IF lock = p THEN None ELSE lock

Run(p) ==
  /\ pc[p] = "none" /\ Goes(p, "lock")
  /\ UNCHANGED <<lock, pid, config, raiseCh, panics, restart, killed, asked>>

(* CreateLockFile: take the lock and write the process id. *)
MutCreateLockFile(p, to) == lock' = p /\ pid' = p /\ Goes(p, to)
CreateLockFile(p, to) ==
  /\ lock = None /\ lock' = p /\ pid' = p /\ Goes(p, to)

checkSingleInstance(p) ==
  /\ pc[p] = "lock"
  /\ \/ CreateLockFile(p, "starting")
     \/ lock # None /\ Goes(p, "ask") /\ UNCHANGED <<lock, pid>>
  /\ UNCHANGED <<config, raiseCh, panics, restart, killed, asked>>

(* TryVersion asks whoever listens on the port in the file; the focus service
   comes up well after the lock was taken. *)
LessThan(q, p) == Version(q) < Version(p)

TryVersion(p) ==
  /\ pc[p] = "ask"
  /\ IF Listening /\ LessThan(config, p)
       THEN asked' = [asked EXCEPT ![p] = config] /\ Goes(p, "kill")
       ELSE UNCHANGED asked /\ Goes(p, "raise")
  /\ UNCHANGED <<lock, pid, config, raiseCh, panics, restart, killed>>

(* getPID and killPID: the process whose id is in the lock file now. A process
   that is gone cannot be killed, which is an error. *)
killPID(p) ==
  /\ pc[p] = "kill"
  /\ IF Dead(pid)
       THEN Goes(p, "raise") /\ UNCHANGED <<lock, killed>>
       ELSE /\ pc' = [pc EXCEPT ![pid] = "killed", ![p] = "retake"]
            /\ Releases(pid)
            /\ killed' = killed \cup {<<p, pid>>}
  /\ UNCHANGED <<pid, config, raiseCh, panics, restart, asked>>

(* The second CreateLockFile, a second later: someone else may have been
   faster. *)
Retake(p) ==
  /\ pc[p] = "retake"
  /\ \/ CreateLockFile(p, "starting")
     \/ lock # None /\ Goes(p, "raise") /\ UNCHANGED <<lock, pid>>
  /\ UNCHANGED <<config, raiseCh, panics, restart, killed, asked>>

(* NewService: the port is written to the file once the service listens. *)
NewService(p) ==
  /\ pc[p] = "starting" /\ Goes(p, "up")
  /\ \/ config' = p
     \/ UNCHANGED config                \* net.Listen or the write failed
  /\ UNCHANGED <<lock, pid, raiseCh, panics, restart, killed, asked>>

(* TryRaise: the call returns once the channel, of one place, took the raise;
   otherwise the process ends with an error. *)
Buffer == 1

TryRaise(p) ==
  /\ pc[p] = "raise"
  /\ \/ /\ Listening /\ raiseCh[config] < Buffer
        /\ raiseCh' = [raiseCh EXCEPT ![config] = @ + 1]
     \/ ~Listening /\ UNCHANGED raiseCh
  /\ Goes(p, "ended")
  /\ UNCHANGED <<lock, pid, config, panics, restart, killed, asked>>

(* RangeContext over the raise channel publishes events.Raise. *)
Raised(p) ==
  /\ pc[p] = "up" /\ raiseCh[p] > 0
  /\ raiseCh' = [raiseCh EXCEPT ![p] = @ - 1]
  /\ UNCHANGED <<pc, lock, pid, config, panics, restart, killed, asked>>

(* HandlePanic runs the recovery actions: report, notify, restarter.Set and
   close(quitCh). The second panic of a process closes quitCh a second time;
   that panic is nobody's, and the process is gone without its deferred
   restart. *)
SecondPanic(p) == panics[p] > 0

HandlePanic(p) ==
  /\ Serves(p) /\ panics[p] < 2
  /\ panics' = [panics EXCEPT ![p] = @ + 1]
  /\ IF SecondPanic(p)
       THEN Goes(p, "crashed") /\ Releases(p)
       ELSE Goes(p, "quitting") /\ UNCHANGED lock
  /\ UNCHANGED <<pid, config, raiseCh, restart, killed, asked>>

Quit(p) ==
  /\ pc[p] = "up" /\ Goes(p, "quitting")
  /\ UNCHANGED <<lock, pid, config, raiseCh, panics, restart, killed, asked>>

(* Restart, if the recovery action has called restarter.Set(true, true): it
   gives up without an executable or at MaxCrashRestarts crashes, and the command
   may fail to start, which is only logged. *)
Restarts(p) == panics[p] > 0 /\ p \notin Spent
Restart(p) ==
  \/ ~Restarts(p) /\ UNCHANGED restart
  \/ Restarts(p) /\ \E how \in {"started", "failed"} : restart' = [restart EXCEPT ![p] = how]

(* The deferred calls of run, innermost first: the bridge and the lock are
   closed, then Restart. *)
End(p) ==
  /\ pc[p] = "quitting" /\ Goes(p, "ended") /\ Releases(p)
  /\ Restart(p)
  /\ UNCHANGED <<pid, config, raiseCh, panics, killed, asked>>

Step(p) == checkSingleInstance(p) \/ TryVersion(p) \/ killPID(p) \/ Retake(p)
             \/ NewService(p) \/ TryRaise(p) \/ Raised(p) \/ End(p)
Next == \E p \in Procs : Run(p) \/ Step(p) \/ HandlePanic(p) \/ Quit(p)
Spec == Init /\ [][Next]_vars /\ \A p \in Procs : WF_vars(Step(p))

----------------------------------------------------------------------------
(* Only one process is past the lock, whoever kills whom
   (withSingleInstance). *)
OneInstance ==
  \A p, q \in Procs :
    pc[p] \in {"starting", "up", "quitting"} /\ pc[q] \in {"starting", "up", "quitting"} => p = q

(* A process kills an older version; or, when the process that answered is
   gone by then, the one that took the lock after it, whatever its version:
   the id is read after the answer (checkSingleInstance, getPID). *)
KillsOlder ==
  \A e \in killed : Version(e[2]) < Version(e[1]) \/ (e[2] # asked[e[1]] /\ Dead(asked[e[1]]))

(* A process whose panic was handled has started its successor when it ends,
   unless a second panic came before its end, someone killed it, it had no
   executable or too many crashes behind it, or the command did not start; and
   only then has it (withCrashHandler, withRestarter). *)
CrashRestarts ==
  \A p \in Procs :
    /\ pc[p] = "ended" /\ panics[p] > 0 => p \in Spent \/ restart[p] \in {"started", "failed"}
    /\ restart[p] # "none" => pc[p] = "ended" /\ panics[p] = 1
    /\ pc[p] = "crashed" => panics[p] = 2

(* No starter waits for ever: it runs, raised the other or gave up. *)
Starts(p) == pc[p] = "lock"
=============================================================================
