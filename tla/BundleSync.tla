----------------------------- MODULE BundleSync -----------------------------
(* An update on macOS replaces the application bundle in place
   (internal/updater/sync.go): the bundle is copied to a backup, what the update
   does not have is removed, and the update is copied over it, path by path;
   when a step fails the backup is copied back. The process may die in between,
   and the update is tried again later. *)
EXTENDS Naturals, Sequences, SequencesExt

CONSTANTS MaxFaults, MaxTries        \* bounds of the failures and of the attempts

(* A bundle: a file or folder at f, and a folder, file or link at d that may
   hold one thing, x. Walk visits a folder before what is in it. *)
Walk == <<"d", "x", "f">>
Paths == Range(Walk)
NoFile == "nothing"
Files == {"old", "new"}
Things == Files \cup {"link", "dir", NoFile}
Trees == {t \in [Paths -> Things] : (t["x"] # NoFile => t["d"] = "dir") /\ t["x"] # "dir" /\ t["f"] # "dir"}

VARIABLES
  local, update, backup,     \* the three folders
  unreadable,                \* files of the update that cannot be opened
  step, at,                  \* what syncFolders does, and how far its walk is
  good,                      \* the bundle at first, and after the last attempt that went well
  broken,                    \* the process died in an attempt, or a recovery failed
  faults, tries

bundleVars == <<local, update, backup, unreadable, step, at, good, broken, faults, tries>>
Nothing == [p \in Paths |-> NoFile]

BundleInit ==
  /\ local \in Trees /\ update \in Trees /\ local["f"] # NoFile /\ update["f"] # NoFile
  /\ unreadable \in {{}, {"x"}} /\ backup = Nothing
  /\ step = "idle" /\ at = 1 /\ good = local /\ broken = FALSE /\ faults = 0 /\ tries = 0

----------------------------------------------------------------------------
(* os.RemoveAll; when it fails, what is in a folder may be gone. *)
RemoveAll(t, p) == [q \in Paths |-> IF q = p \/ (p = "d" /\ q = "x") THEN NoFile ELSE t[q]]
PartlyRemoved(t, p) == {t} \cup (IF p = "d" THEN {[t EXCEPT !["x"] = NoFile]} ELSE {})

(* copyRecursively at one path: what stands in the way goes first: a link, a
   folder where none is copied, a file where none is. *)
InTheWay(src, dst) == dst = "link" \/ (dst = "dir" /\ src # "dir") \/ (dst \in Files /\ src \notin Files)
Cleared(src, dst, p) == IF InTheWay(src[p], dst[p]) THEN RemoveAll(dst, p) ELSE dst

(* checksum of a file that cannot be opened, or is missing, is empty: two such
   files count as the same. *)
checksum(t, p, bad) == IF t[p] \in Files /\ p \notin bad THEN t[p] ELSE NoFile
Same(src, dst, p, bad) == src[p] \in Files /\ checksum(src, p, bad) = checksum(dst, p, {})

Copied(src, dst, p, bad) ==
  LET cleared == Cleared(src, dst, p)
  IN  IF src[p] = NoFile THEN dst ELSE IF Same(src, cleared, p, bad) THEN cleared ELSE [cleared EXCEPT ![p] = src[p]]
Halfway(src, dst, p) ==
  IF src[p] # NoFile /\ InTheWay(src[p], dst[p]) THEN PartlyRemoved(dst, p) \cup {Cleared(src, dst, p)} ELSE {dst}
CannotOpen(src, dst, p, bad) == src[p] \in Files /\ p \in bad /\ ~Same(src, Cleared(src, dst, p), p, bad)

Fault == faults < MaxFaults /\ faults' = faults + 1
Goes(s) == step' = s /\ at' = 1
Walks == at <= Len(Walk) /\ at' = at + 1 /\ UNCHANGED step
Finishes(s) == at > Len(Walk) /\ Goes(s)

(* InstallUpdate unpacks into a new temporary folder, where syncFolders keeps
   the backup of this attempt. *)
Begin ==
  /\ step = "idle" /\ tries < MaxTries /\ tries' = tries + 1
  /\ Goes("backup") /\ backup' = Nothing
  /\ UNCHANGED <<local, update, unreadable, good, broken, faults>>

createBackup ==
  /\ step = "backup"
  /\ \/ Walks /\ backup' = Copied(local, backup, Walk[at], {}) /\ UNCHANGED faults
     \/ Finishes("remove") /\ UNCHANGED <<backup, faults>>
     \/ at <= Len(Walk) /\ Fault /\ Goes("idle") /\ UNCHANGED backup
  /\ UNCHANGED <<local, update, unreadable, good, broken, tries>>

MutMissing(p) == p # "x" /\ local[p] # NoFile /\ update[p] = NoFile
Missing(p) == local[p] # NoFile /\ update[p] = NoFile

removeMissing ==
  /\ step = "remove"
  /\ \/ Walks /\ local' = (IF Missing(Walk[at]) THEN RemoveAll(local, Walk[at]) ELSE local) /\ UNCHANGED faults
     \/ Finishes("copy") /\ UNCHANGED <<local, faults>>
     \/ at <= Len(Walk) /\ Missing(Walk[at]) /\ Fault /\ Goes("restore")
        /\ local' \in PartlyRemoved(local, Walk[at])
  /\ UNCHANGED <<update, backup, unreadable, good, broken, tries>>

(* A copy may fail before or after it has cleared the way, or while it does. *)
copyUpdate ==
  /\ step = "copy"
  /\ \/ /\ Walks /\ ~CannotOpen(update, local, Walk[at], unreadable)
        /\ local' = Copied(update, local, Walk[at], unreadable) /\ UNCHANGED faults
     \/ at <= Len(Walk) /\ CannotOpen(update, local, Walk[at], unreadable)
        /\ local' = Cleared(update, local, Walk[at]) /\ Goes("restore") /\ UNCHANGED faults
     \/ /\ at <= Len(Walk) /\ update[Walk[at]] # NoFile /\ Fault /\ Goes("restore")
        /\ local' \in Halfway(update, local, Walk[at])
     \/ Finishes("synced") /\ UNCHANGED <<local, faults>>
  /\ good' = (IF step' = "synced" THEN local ELSE good)
  /\ broken' = (broken /\ step' # "synced")
  /\ UNCHANGED <<update, backup, unreadable, tries>>

Recovered(p) == Copied(backup, local, p, {})

restoreFromBackup ==
  /\ step = "restore"
  /\ \/ Walks /\ local' = Recovered(Walk[at]) /\ UNCHANGED <<faults, broken>>
     \/ Finishes("restored") /\ UNCHANGED <<local, faults, broken>>
     \/ at <= Len(Walk) /\ Fault /\ Goes("idle") /\ broken' = TRUE /\ local' \in Halfway(backup, local, Walk[at])
  /\ UNCHANGED <<update, backup, unreadable, good, tries>>

(* The update is tried again; or the process dies. *)
Again == step \in {"synced", "restored"} /\ Goes("idle") /\ UNCHANGED <<local, update, backup, unreadable, good, broken, faults, tries>>
Die ==
  /\ step \notin {"idle", "synced", "restored"} /\ Fault /\ Goes("idle") /\ broken' = TRUE
  /\ local' \in CASE at > Len(Walk) \/ step = "backup" -> {local}
                   [] at <= Len(Walk) /\ step = "remove" ->
                        IF Missing(Walk[at]) THEN PartlyRemoved(local, Walk[at]) ELSE {local}
                   [] at <= Len(Walk) /\ step = "copy" -> Halfway(update, local, Walk[at])
                   [] OTHER -> Halfway(backup, local, Walk[at])
  /\ UNCHANGED <<update, backup, unreadable, good, tries>>

BundleNext == Begin \/ createBackup \/ removeMissing \/ copyUpdate \/ restoreFromBackup \/ Again \/ Die
BundleSpec == BundleInit /\ [][BundleNext]_bundleVars

----------------------------------------------------------------------------
(* After a synchronisation that reported no error the bundle is the update,
   whatever stood in its place, but for files of the update that could not be
   read where there was nothing: those are left out without an error. *)
SyncedIsUpdate ==
  step = "synced" => \A p \in Paths : local[p] = update[p] \/ (p \in unreadable /\ local[p] = NoFile)

(* After a failed one everything the last whole bundle had is there again as it
   was, beside files of the update; not so if the process died in an attempt
   before, or could not recover: no attempt looks for the backup of another,
   it starts from a copy of the half-updated bundle. *)
RestoredIsGood ==
  (step = "restored" /\ ~broken) => \A p \in Paths : good[p] # NoFile => local[p] = good[p]

(* Both outcomes of an attempt leave a whole bundle: the update, or the bundle
   before it, but for files that cannot be read and deaths in between
   (syncFolders). *)
BundleIsWhole == SyncedIsUpdate /\ RestoredIsGood
=============================================================================
