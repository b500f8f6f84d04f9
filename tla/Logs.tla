-------------------------------- MODULE Logs --------------------------------
(* The log files of the program (internal/logging). Every start of the launcher
   is a session; launcher, GUI and bridge write files of their own in it. The
   bridge starts a new file when one is full, and deletes old ones first; a bug
   report collects them. Logging starts before the check for another running
   instance, so two bridges may share the directory for a while. *)
EXTENDS Naturals, FiniteSets, Sequences, SequencesExt, FiniteSetsExt

CONSTANTS
  MaxFile, Pruning,     \* DefaultMaxLogFileSize, DefaultPruningSize
  Base, Limit,          \* an index is written in this base with leading zeros up to below Limit
  MaxSessions, MaxFiles, MaxFaults,   \* bounds of the sessions, of the files bridges create, and of failures
  MaxReported, MaxZip   \* DefaultMaxSessionCountForBugReport, DefaultMaxBugReportZipSize

VARIABLES
  files,              \* the directory: size of each file, named by session, program and index
  next,               \* the next session
  live,               \* the sessions whose bridge runs
  out,                \* of each bridge: the file that its rotator writes, its size, the next index, whether it is open
  locks,              \* whether the system refuses to remove a file that is open
  own,                \* the bridges that were started without the launcher
  failing, fatal,     \* the bridges that end with an error, and the sessions in which main has reported one
  faults

vars == <<files, next, live, out, locks, own, failing, fatal, faults>>

File(s, app, i) == [s |-> s, app |-> app, i |-> i]
Crash(s) == File(s, "bridge", 0)        \* the stack trace of a crash
Closed == [i |-> 0, size |-> 0, nextIndex |-> 0, open |-> FALSE]

Init ==
  /\ files = <<>> /\ next = 1 /\ live = {} /\ out = [s \in 1..MaxSessions |-> Closed]
  /\ locks \in BOOLEAN /\ own = {} /\ failing = {} /\ fatal = {} /\ faults = 0

----------------------------------------------------------------------------
(* sessionInfo: the files of a session that bear the short name of a program; a
   stack trace, named after "bridge", is not among them, but its session is one.
   Those of a program are sorted by name, in which an index of more digits than
   planned comes before its prefix. *)
Logged == {f \in DOMAIN files : f.app \in {"lau", "gui", "bri"}}
SizeOf(F) == MapThenSumSet(LAMBDA f : files[f], F)
SessionFiles(s) == {f \in Logged : f.s = s}
Sessions == {f.s : f \in DOMAIN files}

NameKey(i) == IF i < Limit THEN i * (Base + 1) + Base ELSE (i \div Base) * (Base + 1) + (i % Base)
Sorted(s, app) == SetToSortSeq({f \in SessionFiles(s) : f.app = app}, LAMBDA f, g : NameKey(f.i) < NameKey(g.i))

(* pruneAsCurrentSession: the bridge's files between the first and the last, as
   many as it takes. *)
Middle(logs) == SubSeq(logs, 2, Len(logs) - 1)

pruneAsCurrentSession(s) ==
  LET logs == Middle(Sorted(s, "bri"))
      enough == {k \in 0..Len(logs) :
                   SizeOf(SessionFiles(s)) - SizeOf(Range(SubSeq(logs, 1, k))) <= Pruning}
      last == IF enough = {} THEN Len(logs) ELSE Min(enough)
  IN  IF Len(Sorted(s, "bri")) < 3 THEN {} ELSE Range(SubSeq(logs, 1, last))

(* pruneLogs: whole sessions, the eldest first, until the rest is small enough;
   all others, and part of the current one, if that alone is too large. *)
Elder(s, t) == s <= t
MutTotal(s) == SizeOf(Logged \ SessionFiles(s))
Total(s) == SizeOf(Logged)
pruneLogs(s) ==
  LET others == Sessions \ {s}
      UpTo(t) == UNION {SessionFiles(o) : o \in {x \in others : Elder(x, t)}}
      enough == {t \in others : Total(s) - SizeOf(UpTo(t)) <= Pruning}
  IN  CASE Total(s) <= Pruning -> {}
        [] Total(s) > Pruning /\ SizeOf(SessionFiles(s)) > Pruning
             -> UNION {SessionFiles(o) : o \in others} \cup pruneAsCurrentSession(s)
        [] OTHER -> IF enough = {} THEN UNION {SessionFiles(o) : o \in others}
                    ELSE UpTo(CHOOSE t \in enough : \A u \in enough : Elder(t, u))

Held(f) == locks /\ f.app = "bri" /\ f.s \in live /\ out[f.s].open /\ out[f.s].i = f.i
Removed(s) == {f \in pruneLogs(s) : ~(Held(f) /\ f.s # s)}

----------------------------------------------------------------------------
(* rotate: the file is closed, old files are removed, the next one is created
   empty; if that fails the rotator is left with a closed file. *)
NextIndex(o) == o.nextIndex + 1

Rotated(s, o, n, open) ==
  /\ MapThenSumSet(LAMBDA t : out[t].nextIndex, DOMAIN out) < MaxFiles
  /\ LET f == File(s, "bri", o.nextIndex)
         kept == DOMAIN files \ Removed(s)
     IN  files' = [g \in kept \cup {f} |-> IF g = f THEN n ELSE files[g]]
  /\ out' = [out EXCEPT ![s] = [i |-> o.nextIndex, size |-> n, nextIndex |-> NextIndex(o), open |-> open]]

Fault == faults < MaxFaults /\ faults' = faults + 1
RotateFails(s, o) ==
  /\ files' = [g \in DOMAIN files \ Removed(s) |-> files[g]]
  /\ out' = [out EXCEPT ![s] = [o EXCEPT !.open = FALSE]]

(* The launcher starts the GUI. The launcher's log is never pruned; the GUI's is
   written by the GUI. *)
StartLauncher ==
  /\ next <= MaxSessions /\ next' = next + 1
  /\ LET new == {File(next, "lau", 0), File(next, "gui", 0)}
     IN  files' = [g \in DOMAIN files \cup new |-> IF g \in new THEN 1 ELSE files[g]]
  /\ UNCHANGED <<live, out, locks, own, failing, fatal, faults>>

(* withLogging, with the launcher's session or, without one, its own; a bridge
   whose first file cannot be created does not start. *)
StartBridge(s) ==
  /\ \/ s = next - 1 /\ s > 0 /\ s \notin live \cup failing \cup fatal /\ out[s] = Closed /\ UNCHANGED <<next, own>>
     \/ s = next /\ next <= MaxSessions /\ next' = next + 1 /\ own' = own \cup {s}
  /\ \/ Rotated(s, Closed, 0, TRUE) /\ live' = live \cup {s} /\ UNCHANGED <<failing, faults>>
     \/ RotateFails(s, Closed) /\ Fault /\ failing' = failing \cup {s} /\ UNCHANGED live
  /\ UNCHANGED <<locks, fatal>>

(* Write. A line that still fits into a closed file is lost. *)
Write(s, n) ==
  /\ s \in live
  /\ LET o == out[s]
         f == File(s, "bri", o.i) IN
       \/ o.size + n > MaxFile /\ Rotated(s, o, n, TRUE) /\ UNCHANGED faults
       \/ o.size + n > MaxFile /\ RotateFails(s, o) /\ Fault
       \/ /\ o.size + n <= MaxFile /\ o.open
          /\ out' = [out EXCEPT ![s].size = @ + n]
          /\ files' = (IF f \in DOMAIN files THEN [files EXCEPT ![f] = @ + n] ELSE files)
          /\ UNCHANGED faults
  /\ UNCHANGED <<next, live, locks, own, failing, fatal>>

(* The bridge ends: as it should, in a crash that leaves a stack trace (a second
   one of the session is appended to it), or with an error. *)
Ends(s) ==
  /\ s \in live /\ live' = live \ {s} /\ out' = [out EXCEPT ![s].open = FALSE]
Quit(s) == Ends(s) /\ own' = own \ {s} /\ UNCHANGED <<files, next, locks, failing, fatal, faults>>
Crashes(s) ==
  /\ Ends(s) /\ own' = own \ {s}
  /\ files' = [g \in DOMAIN files \cup {Crash(s)} |-> IF g \in DOMAIN files THEN files[g] ELSE 1]
  /\ UNCHANGED <<next, locks, failing, fatal, faults>>
RunFails(s) == Ends(s) /\ Fault /\ failing' = failing \cup {s} /\ UNCHANGED <<files, next, locks, own, fatal>>

(* main then reports the error through a rotator of its own: in the launcher's
   session, whose first file is created anew, or in another new one. *)
FatalError(s) ==
  LET t == IF s \in own THEN next ELSE s IN
  /\ s \in failing /\ failing' = failing \ {s} /\ own' = own \ {s} /\ t <= MaxSessions
  /\ next' = (IF s \in own THEN next + 1 ELSE next) /\ fatal' = fatal \cup {t}
  /\ Rotated(t, Closed, 1, FALSE) \/ RotateFails(t, Closed)
  /\ UNCHANGED <<live, locks, faults>>

Next ==
  \/ StartLauncher
  \/ \E s \in 1..MaxSessions :
       StartBridge(s) \/ Quit(s) \/ Crashes(s) \/ RunFails(s) \/ FatalError(s) \/ \E n \in 1..2 : Write(s, n)
Spec == Init /\ [][Next]_vars

----------------------------------------------------------------------------
(* getOrderedLogFileListForBugReport: the youngest sessions first; of each the
   last two files of the bridge, the first, those of the other programs, and
   then the rest. *)
Rest(logs) == SubSeq(logs, 2, Len(logs) - 2)
SessionList(s) ==
  LET logs == Sorted(s, "bri")
      n == Len(logs)
  IN  (IF n > 0 THEN <<logs[n]>> ELSE <<>>) \o (IF n > 1 THEN <<logs[n - 1]>> ELSE <<>>) \o (IF n > 2 THEN <<logs[1]>> ELSE <<>>)
        \o Sorted(s, "gui") \o Sorted(s, "lau") \o (IF n > 3 THEN Rest(logs) ELSE <<>>)
Reported == {s \in Sessions : Cardinality({t \in Sessions : t > s}) < MaxReported}
LogFileList == FoldLeft(LAMBDA list, s : list \o SessionList(s), <<>>, SetToSortSeq(Reported, >))

(* zipFilesWithMaxSize: as many files of the list as fit, in its order; none if
   not even the first fits, or if one cannot be read when its turn comes. *)
ArchiveSize(list) == Len(list) + SizeOf(Range(list))
zipFilesWithMaxSize(list, readable) ==
  LET stops == {k \in 1..Len(list) : list[k] \notin readable \/ ArchiveSize(SubSeq(list, 1, k)) > MaxZip}
  IN  IF stops = {} THEN list
      ELSE IF list[Min(stops)] \notin readable THEN <<>> ELSE SubSeq(list, 1, Min(stops) - 1)

(* ReportBug with the logs included: CollectLogs packs the listed files, but for
   those that are pruned before it comes to them; without an archive the report
   is given up. *)
CollectLogs(list, pruned) == zipFilesWithMaxSize(list, DOMAIN files \ pruned)
ReportBug(archive) == IF archive = <<>> THEN "failed" ELSE "sent"

(* When the bridge has opened a new file, what was there before is within the
   limit, or nothing is left of it but what is never removed: the first and the
   last file of this session's bridge and the files of its launcher and GUI.
   Only a file that could not be removed counts as removed all the same, and
   stack traces neither count nor go. *)
Protected(s) ==
  LET logs == Sorted(s, "bri")
  IN  {f \in SessionFiles(s) : f.app # "bri"} \cup (IF logs = <<>> THEN {} ELSE {logs[1], logs[Len(logs)]})
PruneStep ==
  \A s \in 1..MaxSessions : (out'[s].nextIndex > out[s].nextIndex) =>
     LET left == Logged \cap DOMAIN files'
     IN  SizeOf(left) <= Pruning \/ left \subseteq Protected(s) \/ \E f \in DOMAIN files : Held(f)

(* A bridge never removes the file it has just written, nor its first one,
   as long as its indices have the planned number of digits. *)
OwnStep ==
  \A s \in live : (out'[s].nextIndex > out[s].nextIndex /\ out[s].nextIndex <= Limit) =>
     {File(s, "bri", 0), File(s, "bri", out[s].i)} \cap DOMAIN files \subseteq DOMAIN files'

(* No session is removed while an older one is kept, the current session and
   one with a file that cannot be removed excepted; a stack trace stays. *)
EldestStep ==
  \A f \in DOMAIN files \ DOMAIN files', g \in Logged \cap DOMAIN files' :
     g.s < f.s => (Held(g) \/ out'[g.s] # out[g.s] \/ g.s \in fatal' \ fatal \/ (faults' > faults /\ ~out[g.s].open))

(* A file that the program wrote is never emptied again, except the first one
   of a session whose bridge ends with an error. *)
EmptyStep ==
  \A f \in DOMAIN files \cap DOMAIN files' : files'[f] < files[f] => (f.i = 0 /\ f.s \in fatal' \ fatal)

(* A bug report offers every file of the youngest sessions but their stack
   traces, each of them once. (A session that has nothing but a stack trace left
   takes the place of one with files.) *)
ReportComplete ==
  LET list == LogFileList
  IN  Range(list) = {f \in Logged : f.s \in Reported} /\ Len(list) = Cardinality(Range(list))

(* The archive of a bug report holds the first files of the list and is within
   its limit; it misses one that would fit only behind one that does not. No
   report is given up, whichever file is pruned while it is made, unless that
   one was to be in it, there are no files, or the first is too large. *)
ArchiveFits ==
  LET list == LogFileList
      whole == CollectLogs(list, {})
      n == Len(whole)
  IN  /\ ArchiveSize(whole) <= MaxZip
      /\ n < Len(list) => ArchiveSize(SubSeq(list, 1, n + 1)) > MaxZip
      /\ \A f \in DOMAIN files :
           LET archive == CollectLogs(list, {f})
           IN  \/ archive = whole
               \/ ReportBug(archive) = "failed" /\ \E k \in 1..(n + 1) : list[k] = f
=============================================================================
