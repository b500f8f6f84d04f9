------------------------------- MODULE Install ------------------------------
(***************************************************************************)
(* Updates and starts.  The updates directory holds one directory for each *)
(* installed version; version 0 is the base version next to the launcher.  *)
(* A running bridge installs updates into it and, once after it has        *)
(* started, removes all versions but the newest.  The launcher verifies    *)
(* versions from the newest on, removes those that fail and starts the     *)
(* first one that is newer than itself, whose launcher does the same.  A   *)
(* bridge that finds another one running raises it, or kills it if it is   *)
(* older.  Launcher and bridge are different processes: the user may start *)
(* a launcher at any time.                                                 *)
(***************************************************************************)
EXTENDS Naturals, Sequences, FiniteSets, FiniteSetsExt

CONSTANTS Versions,    \* versions of updates: naturals from 1
          Files,       \* files of a version, "exe" among them
          MaxCrash,    \* MaxCrashRestarts
          MaxStarts, MaxFaults,
          None

VARIABLES dir,        \* files in the directory of a version; {} if absent
          app,        \* None or the running bridge, see Bridge
          starter,    \* None or a launcher, see Launcher
          top,        \* newest version that has run
          announced,  \* versions reported as installed
          crashes,    \* crashes in a row since the bridge was started by the user, or quit
          swept,      \* versions removed while they were written
          overlapped, \* a clean-up overlapped an installation or a start
          starts, faults

vars == <<dir, app, starter, top, announced, crashes, swept, overlapped, starts, faults>>

(* A bridge: its version, bridge.newVersion, the versions still to be      *)
(* removed (None before they are listed), the installation in progress,    *)
(* how it is quitting ("no", "quit", "restart" or "crash") and its         *)
(* BRIDGE_CRASH_COUNT.                                                     *)
Bridge(v, n) ==
    [ver |-> v, newVer |-> v, clean |-> None, job |-> None, quit |-> "no", count |-> n]

ListVersions == {v \in Versions : dir[v] # {}}

(* A launcher: its own version, the versions to look at, the one that it   *)
(* removes, the one chosen, whether it waits for the bridge to finish,     *)
(* BRIDGE_CRASH_COUNT, and whether the user started it.                    *)
Launcher(v, wait, n, user) ==
    [self |-> v, todo |-> ListVersions, bad |-> None, chosen |-> None, wait |-> wait,
     count |-> n, user |-> user]

VerifyUpdateFolder(v) == dir[v] = Files

BeingWritten(v) ==
    IF app # None /\ app.job # None /\ app.job.ver = v THEN {v} ELSE {}

(* os.RemoveAll takes the files of v one by one; what left stands for is   *)
(* still there.                                                            *)
Remove(v, left) ==
    /\ dir' = [dir EXCEPT ![v] = left]
    /\ announced' = announced \ {v}
    /\ swept' = swept \cup BeingWritten(v)

(***************************************************************************)
(* Starting.                                                               *)
(***************************************************************************)
UserStarts ==
    /\ starter = None /\ starts < MaxStarts
    /\ starts' = starts + 1
    /\ starter' = Launcher(0, FALSE, 0, TRUE)
    /\ UNCHANGED <<dir, app, top, announced, swept, overlapped, faults, crashes>>

(* A mutant that takes a version without verifying it.                     *)
MutVerified(v) == TRUE

Verified(v) == VerifyUpdateFolder(v)

Newer(v) == v > starter.self

(* The launcher looks at the newest version it has not looked at, and      *)
(* removes it if it fails the verification.                                *)
getPathToUpdatedExecutable ==
    LET v == Max(starter.todo)
    IN  /\ starter # None /\ starter.chosen = None /\ starter.todo # {} /\ starter.bad = None
        /\ \/ /\ ~Verified(v)
              /\ starter' = [starter EXCEPT !.bad = v]
           \/ /\ Verified(v) /\ ~Newer(v)
              /\ starter' = [starter EXCEPT !.todo = @ \ {v}]
           \/ /\ Verified(v) /\ Newer(v)
              /\ starter' = [starter EXCEPT !.chosen = v]
    /\ UNCHANGED <<dir, announced, swept, app, top, overlapped, starts, faults, crashes>>

RemoveBad ==
    /\ starter # None /\ starter.bad # None
    /\ LET v == starter.bad
       IN  \/ /\ Remove(v, {})
              /\ starter' = [starter EXCEPT !.todo = @ \ {v}, !.bad = None]
           \/ \E f \in dir[v] : Remove(v, dir[v] \ {f}) /\ UNCHANGED starter
    /\ UNCHANGED <<app, top, overlapped, starts, faults, crashes>>

waitForProcessToFinish == starter.wait => app = None

(* The chosen version's launcher is run, once the bridge it waits for has  *)
(* finished and without the flag to wait; it lists the versions again.     *)
ExecLauncher ==
    /\ starter # None /\ starter.chosen # None
    /\ waitForProcessToFinish
    /\ starter' = IF "exe" \in dir[starter.chosen]
                  THEN Launcher(starter.chosen, FALSE, starter.count, starter.user)
                  ELSE None
    /\ UNCHANGED <<dir, app, top, announced, swept, overlapped, starts, faults, crashes>>

RunBridge(v) ==
    /\ app' = Bridge(v, starter.count)
    /\ top' = Max({top, v})
    /\ starter' = None
    /\ crashes' = IF starter.user THEN 0 ELSE crashes

(* Also when the version of the running bridge cannot be read, or it       *)
(* cannot be raised.                                                       *)
TryRaise ==
    /\ app # None
    /\ starter' = None
    /\ UNCHANGED <<app, top, crashes>>

(* No newer version: the bridge beside the launcher is run.  It holds the  *)
(* lock, raises the bridge that holds it or, being newer, kills that one.  *)
checkSingleInstance ==
    LET v == starter.self
        found == v # 0 => "exe" \in dir[v]
    IN  /\ starter # None /\ starter.chosen = None /\ starter.todo = {}
        /\ waitForProcessToFinish
        /\ \/ /\ ~found                              \* no executable
              /\ starter' = None /\ UNCHANGED <<app, top, crashes>>
           \/ /\ found /\ app = None
              /\ RunBridge(v)
           \/ /\ found /\ app # None /\ v > app.ver
              /\ app' = None /\ UNCHANGED <<starter, top, crashes>>   \* killPID
           \/ found /\ TryRaise
        /\ UNCHANGED <<dir, announced, swept, overlapped, starts, faults>>

(***************************************************************************)
(* The running bridge.                                                     *)
(***************************************************************************)

Old(vs) == {v \in vs : \E w \in vs : w > v}

(* RemoveOldVersions lists the versions, then removes all but the newest.  *)
RemoveOldVersions ==
    /\ app # None /\ app.clean = None
    /\ app' = [app EXCEPT !.clean = Old(ListVersions)]
    /\ overlapped' = \/ overlapped
                     \/ ListVersions # {} /\ ~VerifyUpdateFolder(Max(ListVersions))
                     \/ starter # None /\ starter.bad # None
    /\ UNCHANGED <<dir, starter, top, announced, swept, starts, faults, crashes>>

RemoveVersion ==
    /\ app # None /\ app.clean \notin {None, {}}
    /\ \E v \in app.clean :
          \/ Remove(v, {}) /\ app' = [app EXCEPT !.clean = @ \ {v}]
          \/ \E f \in dir[v] : Remove(v, dir[v] \ {f}) /\ UNCHANGED app
    /\ overlapped' = (overlapped \/ starter # None)
    /\ UNCHANGED <<starter, top, starts, faults, crashes>>

(* handleUpdate: of the releases, in descending order, the first that is   *)
(* newer and that neither channel, rollout, system version, minimum        *)
(* version nor a missing package rules out.                                *)
Eligible(release, cur) == release[2] /\ release[1] > cur

handleUpdate(releases, cur) ==
    LET ok == {i \in DOMAIN releases : Eligible(releases[i], cur)}
    IN  IF ok = {} THEN None ELSE releases[Min(ok)][1]

ToWrite(v) == Files

VersionFiles ==
    {<<<<v, b>>>> : v \in Versions, b \in BOOLEAN} \cup
    {<<<<v, b>>, <<w, c>>>> : v \in Versions, w \in Versions, b \in BOOLEAN, c \in BOOLEAN}

(* Whatever is in the directory.                                           *)
IsAlreadyInstalled(v) == v \in ListVersions

installUpdate ==
    /\ app # None /\ app.job = None /\ app.quit = "no"
    /\ \E releases \in VersionFiles :
          LET v == handleUpdate(releases, app.ver)
          IN  /\ v # None
              /\ v > app.newVer
              /\ ~IsAlreadyInstalled(v)
              /\ app' = [app EXCEPT !.job = [ver |-> v, left |-> ToWrite(v)]]
    /\ UNCHANGED <<dir, starter, top, announced, swept, overlapped, starts, faults, crashes>>

(* UntarToDir writes one file after the other, in the archive's order.     *)
InstallNewVersion ==
    /\ app # None /\ app.job # None /\ app.job.left # {}
    /\ \E f \in app.job.left :
          /\ dir' = [dir EXCEPT ![app.job.ver] = @ \cup {f}]
          /\ app' = [app EXCEPT !.job.left = @ \ {f}]
    /\ UNCHANGED <<starter, top, announced, swept, overlapped, starts, faults, crashes>>

UpdateInstalled ==
    /\ app # None /\ app.job # None /\ app.job.left = {}
    /\ announced' = announced \cup {app.job.ver}
    /\ app' = [app EXCEPT !.newVer = app.job.ver, !.job = None]
    /\ UNCHANGED <<dir, starter, top, swept, overlapped, starts, faults, crashes>>

(* The download, the verification or the unpacking fails.                  *)
UpdateFailed ==
    /\ app # None /\ app.job # None
    /\ faults < MaxFaults /\ faults' = faults + 1
    /\ app' = [app EXCEPT !.job = None]
    /\ UNCHANGED <<dir, starter, top, announced, swept, overlapped, starts, crashes>>

(* The user quits or restarts, or a panic is caught.                       *)
Quits(how) ==
    /\ app # None /\ app.quit = "no"
    /\ how = "crash" => faults < MaxFaults
    /\ faults' = faults + (IF how = "crash" THEN 1 ELSE 0)
    /\ app' = [app EXCEPT !.quit = how]
    /\ UNCHANGED <<dir, starter, top, announced, swept, overlapped, starts, crashes>>

CountAfter(how) == IF how = "crash" THEN app.count + 1 ELSE 0

(* The process ends; the restarter starts the launcher with --wait unless  *)
(* the bridge crashed too often.                                           *)
Restart ==
    /\ app # None /\ app.quit # "no"
    /\ app' = None
    /\ LET n == CountAfter(app.quit)
       IN  IF app.quit = "quit" \/ n >= MaxCrash
           THEN UNCHANGED starter
           ELSE starter = None /\ starter' = Launcher(0, TRUE, n, FALSE)
    /\ crashes' = IF app.quit = "crash" THEN crashes + 1 ELSE 0
    /\ UNCHANGED <<dir, top, announced, swept, overlapped, starts, faults>>

(* The process is killed, whatever it was doing.                           *)
Killed ==
    /\ app # None
    /\ faults < MaxFaults /\ faults' = faults + 1
    /\ app' = None
    /\ UNCHANGED <<dir, starter, top, announced, swept, overlapped, starts, crashes>>

Init ==
    /\ dir \in [Versions -> {{}, Files}]
    /\ app = None /\ starter = None
    /\ top = 0 /\ crashes = 0
    /\ announced = {} /\ swept = {} /\ overlapped = FALSE
    /\ starts = 0 /\ faults = 0

StarterStep == getPathToUpdatedExecutable \/ RemoveBad \/ ExecLauncher \/ checkSingleInstance

Next ==
    \/ UserStarts \/ StarterStep
    \/ RemoveOldVersions \/ RemoveVersion
    \/ installUpdate \/ InstallNewVersion \/ UpdateInstalled \/ UpdateFailed
    \/ \E how \in {"quit", "restart", "crash"} : Quits(how)
    \/ Restart \/ Killed

Spec == Init /\ [][Next]_vars /\ WF_vars(StarterStep) /\ WF_vars(Restart)

(***************************************************************************)
(* Properties.                                                             *)
(***************************************************************************)
(* A version reported as installed is complete for as long as it has not   *)
(* been removed as a whole, unless the unfinished directory was removed    *)
(* meanwhile: by a launcher that took it for a corrupt one, or by the      *)
(* clean-up because an abandoned newer version was there.                  *)
AnnouncedIsComplete ==
    \A v \in announced : dir[v] \in {{}, Files} \/ v \in swept

(* The bridge that runs is never older than one that ran before: a start   *)
(* takes the newest complete version, and the clean-up leaves one that is  *)
(* at least as new.  Except when the clean-up met an update that was being *)
(* installed, or had been abandoned (it then keeps the incomplete version  *)
(* and removes the complete ones, and the next start falls back to the     *)
(* base version), removed versions a launcher had already listed, or took  *)
(* the newest from the list while a launcher, which had found it still     *)
(* incomplete, was about to remove it.                                     *)
NoDowngrade == app # None /\ ~overlapped => app.ver = top

(* A version is run only if all its files are there, unless its directory  *)
(* was removed while it was being written, or the clean-up overlapped as   *)
(* NoDowngrade describes: a launcher verifies before it runs, and nothing  *)
(* holds what it verified.                                                 *)
RunStep ==
    app' # None /\ app = None /\ ~overlapped /\ app'.ver \notin swept \cup {0}
         => dir[app'.ver] = Files

(* A bridge that keeps crashing is restarted less than MaxCrash times in a *)
(* row, through however many launchers.                                    *)
CrashesBounded == crashes <= MaxCrash

(* Every start ends: in a running bridge, the one that is raised, or an    *)
(* error.                                                                  *)
Started == starter = None
=============================================================================
