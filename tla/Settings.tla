------------------------------ MODULE Settings ------------------------------
(***************************************************************************)
(* The settings: the vault in memory and on disk, and what follows them -  *)
(* the IMAP and SMTP servers, the proxy, the mailboxes, the autostart      *)
(* entry of the system, the update check and the heartbeat.  Calls of the  *)
(* GUI run concurrently and no lock spans a setter.  Writing the vault may *)
(* fail, and then the memory has the new value all the same.               *)
(***************************************************************************)
EXTENDS Naturals, Sequences, FiniteSets

CONSTANTS Callers, MaxCalls, MaxStarts

Servers  == {"imap", "smtp"}
Compared == Servers \cup {"update"}     \* setters that return at once if nothing changes
Early    == {"proxy", "allmail"}        \* setters whose effect comes before the vault
Settings == Compared \cup Early \cup {"autostart", "telemetry"}

VARIABLES mem, disk,   \* the vault; "sent" is LastHeartbeatSent: today's heartbeat is out
          eff,         \* what the rest of the program and the system do
          hb,          \* what the heartbeat will report
          call,        \* [at, todo, v, ok] of each caller
          shown,       \* the server settings the GUI was told last
          unsaved,     \* settings whose value is not in the file
          failed,      \* settings whose last write or restart failed
          messy,       \* settings with two calls at once, an early end or a failed effect
          beat,        \* the heartbeat task: "off", "idle", "sending", "sent"
          quiet,       \* telemetry was disabled, and answered
          sends,       \* heartbeats sent today
          answered,    \* setting -> the last value that was answered with success
          used,        \* the requests of this behaviour: any two
          up, n, starts

settingsVars == <<mem, disk, eff, hb, call, shown, unsaved, failed, messy, beat, quiet, sends, answered,
          used, up, n, starts>>

Idle == [at |-> "idle", todo |-> <<>>, v |-> FALSE, ok |-> TRUE, rpc |-> "none"]
Busy(c) == call[c].at # "idle"
Now(c)  == Head(call[c].todo)

(* The setters of the GUI: those of both servers come one after the other. *)
Requests == {<<s>> : s \in Settings \ Servers} \cup {<<"imap", "smtp">>}

Touched(todo) == {todo[i] : i \in 1 .. Len(todo)}
Underway == {s \in Settings : \E c \in Callers : s \in Touched(call[c].todo)}

Call(c) ==
    /\ up /\ ~Busy(c) /\ n < MaxCalls
    /\ n' = n + 1
    /\ \E todo \in used, v \in BOOLEAN :
        /\ call' = [call EXCEPT ![c] = [at |-> "check", todo |-> todo, v |-> v, ok |-> TRUE,
                                        rpc |-> IF Len(todo) > 1 THEN "servers" ELSE "one"]]
        /\ messy' = messy \cup
             {s \in Touched(todo) : \E d \in Callers \ {c} : s \in Touched(call[d].todo)}
             \cup (IF Len(todo) > 1 /\ \E d \in Callers : call[d].rpc = "servers"
                   THEN {"shown"} ELSE {})
    /\ UNCHANGED <<mem, disk, eff, hb, shown, unsaved, failed, beat, quiet, sends, answered, used, up, starts>>

(***************************************************************************)
(* The vault: the memory, then a temporary file, then a rename.            *)
(***************************************************************************)
(* A mutant that never writes the file.                                    *)
MutModUnsafe(s, v, saved) ==
    /\ mem' = [mem EXCEPT ![s] = v]
    /\ disk' = disk
    /\ unsaved' = IF saved THEN unsaved \ {s} ELSE unsaved \cup {s}
    /\ failed' = IF saved THEN failed \ {s} ELSE failed \cup {s}

modUnsafe(s, v, saved) ==
    /\ mem' = [mem EXCEPT ![s] = v]
    /\ disk' = IF saved THEN mem' ELSE disk
    /\ unsaved' = IF saved THEN {} ELSE unsaved \cup {s}
    /\ failed' = IF saved THEN failed \ {s} ELSE failed \cup {s}

Ends(c, at, ok) == call' = [call EXCEPT ![c].at = at, ![c].ok = ok]

(* A compared setter returns when the memory has the value; the others are *)
(* on their way to the vault or to their effect.                           *)
Check(c) ==
    /\ call[c].at = "check" /\ up
    /\ IF Now(c) \in Compared /\ mem[Now(c)] = call[c].v THEN Ends(c, "answer", TRUE)
       ELSE IF Now(c) = "autostart" /\ mem["autostart"] = call[c].v THEN Ends(c, "effect", TRUE)
       ELSE Ends(c, IF Now(c) \in Early THEN "effect" ELSE "save", TRUE)
    /\ UNCHANGED <<mem, disk, eff, hb, shown, unsaved, failed, messy, beat, quiet, sends, answered, used,
                   up, n, starts>>

(* What the heartbeat will report of a setting.                            *)
Reported(s, v) == [hb EXCEPT ![s] = v]

Save(c) ==
    /\ call[c].at = "save" /\ up
    /\ \E saved \in BOOLEAN :
        /\ modUnsafe(Now(c), call[c].v, saved)
        /\ hb' = IF saved /\ Now(c) \notin Early \cup {"telemetry"}
                 THEN Reported(Now(c), call[c].v) ELSE hb
        /\ Ends(c, IF saved /\ Now(c) \notin Early THEN "effect" ELSE "answer", saved)
    /\ quiet' = (quiet /\ ~(Now(c) = "telemetry" /\ ~call[c].v))
    /\ UNCHANGED <<eff, shown, messy, beat, sends, answered, used, up, n, starts>>

(***************************************************************************)
(* Effects.                                                                *)
(***************************************************************************)

(* A restarted server reads the vault.                                     *)
Served(c) == mem[Now(c)]

(* It may not open, if its port is taken: the error is answered, and a     *)
(* retry with the same value does nothing.                                 *)
Restart(c) ==
    /\ call[c].at = "effect" /\ Now(c) \in Compared
    /\ \/ eff' = [eff EXCEPT ![Now(c)] = Served(c)] /\ failed' = failed \ {Now(c)}
          /\ Ends(c, "answer", TRUE)
       \/ /\ Now(c) \in Servers /\ UNCHANGED eff
          /\ failed' = failed \cup {Now(c)} /\ Ends(c, "answer", FALSE)
    /\ UNCHANGED <<mem, disk, hb, shown, unsaved, messy, beat, quiet, sends, answered, used,
                   up, n, starts>>

SetEarly(c) ==
    /\ call[c].at = "effect" /\ Now(c) \in Early
    /\ eff' = [eff EXCEPT ![Now(c)] = call[c].v]
    /\ hb' = Reported(Now(c), call[c].v)
    /\ Ends(c, "save", TRUE)
    /\ UNCHANGED <<mem, disk, shown, unsaved, failed, messy, beat, quiet, sends, answered, used, up, n, starts>>

(* The entry of the system may refuse to be changed.                       *)
SetAutostart(c) ==
    /\ call[c].at = "effect" /\ Now(c) = "autostart"
    /\ \/ eff' = [eff EXCEPT !["autostart"] = call[c].v] /\ Ends(c, "answer", TRUE)
          /\ UNCHANGED messy
       \/ /\ eff["autostart"] # call[c].v /\ UNCHANGED eff
          /\ Ends(c, "answer", FALSE) /\ messy' = messy \cup {"autostart"}
    /\ UNCHANGED <<mem, disk, hb, shown, unsaved, failed, beat, quiet, sends, answered, used, up, n, starts>>

(* heartbeat.stop waits for a heartbeat that is on its way.                *)
StopTask == beat \in {"idle", "off"} /\ beat' = "off"

SetTelemetryDisabled(c) ==
    /\ call[c].at = "effect" /\ Now(c) = "telemetry"
    /\ IF call[c].v THEN StopTask
       ELSE beat' = IF beat = "off" THEN "idle" ELSE beat
    /\ eff' = [eff EXCEPT !["telemetry"] = call[c].v]
    /\ quiet' = (call[c].v /\ mem["telemetry"])
    /\ Ends(c, "answer", TRUE)
    /\ UNCHANGED <<mem, disk, hb, shown, unsaved, failed, messy, sends, answered, used, up, n, starts>>

(* SetMailServerSettings goes on after an error, and ends by reading the   *)
(* vault for the GUI.                                                      *)
AfterLast(c) == IF call[c].rpc = "servers"
                THEN [call EXCEPT ![c].at = "tell", ![c].todo = <<>>]
                ELSE [call EXCEPT ![c] = Idle]

Answer(c) ==
    /\ call[c].at = "answer"
    /\ answered' = [answered EXCEPT ![Now(c)] = IF call[c].ok THEN {call[c].v} ELSE {}]
    /\ call' = IF Len(call[c].todo) > 1
               THEN [call EXCEPT ![c].todo = Tail(@), ![c].at = "check"] ELSE AfterLast(c)
    /\ UNCHANGED <<mem, disk, eff, hb, shown, unsaved, failed, messy, beat, quiet, sends, used,
                   up, n, starts>>

getMailServerSettings(c) ==
    /\ call[c].at = "tell"
    /\ shown' = [s \in Servers |-> mem[s]]
    /\ call' = [call EXCEPT ![c] = Idle]
    /\ messy' = IF \E d \in Callers \ {c} : Touched(call[d].todo) \cap Servers # {}
                THEN messy \cup {"shown"} ELSE messy
    /\ UNCHANGED <<mem, disk, eff, hb, unsaved, failed, beat, quiet, sends, answered, used, up, n, starts>>

(***************************************************************************)
(* The heartbeat task: one heartbeat a day.                                *)
(***************************************************************************)
IsTelemetryAvailable == ~mem["telemetry"]

Due == ~mem["sent"]

TrySending ==
    /\ up
    /\ \/ beat = "idle" /\ IsTelemetryAvailable /\ Due /\ beat' = "sending"
          /\ UNCHANGED <<mem, disk, unsaved, failed, sends, messy>>
       \/ beat = "sending" /\ beat' = "idle"              \* no user could send it
          /\ UNCHANGED <<mem, disk, unsaved, failed, sends, messy>>
       \/ beat = "sending" /\ beat' = "sent" /\ sends' = sends + 1
          /\ UNCHANGED <<mem, disk, unsaved, failed, messy>>
       \/ /\ beat = "sent" /\ beat' = "idle"
          /\ \E saved \in BOOLEAN : modUnsafe("sent", TRUE, saved)
          /\ UNCHANGED <<sends, messy>>
    /\ UNCHANGED <<eff, hb, call, shown, quiet, answered, used, up, n, starts>>

(* The task is started with the first account; it is left out of behaviours*)
(* without a call for telemetry.                                           *)
AtStart == IF <<"telemetry">> \in used THEN "idle" ELSE "off"

(***************************************************************************)
(* The program ends, and starts from the file; initAutostart repairs only  *)
(* an entry that is missing, and only logs that the system refused it.     *)
(***************************************************************************)
Stop ==
    /\ up /\ starts < MaxStarts
    /\ up' = FALSE /\ beat' = "off" /\ quiet' = FALSE
    /\ messy' = messy \cup failed \cup Underway
                      \cup (IF \E c \in Callers : call[c].rpc = "servers" THEN {"shown"} ELSE {})
                      \cup (IF beat = "sent" THEN {"sent"} ELSE {})
    /\ call' = [c \in Callers |-> Idle]
    /\ UNCHANGED <<mem, disk, eff, hb, shown, unsaved, failed, sends, answered, used, n, starts>>

initAutostart(was) == IF disk["autostart"] THEN {TRUE, was} ELSE {was}

Start ==
    /\ ~up /\ up' = TRUE /\ starts' = starts + 1
    /\ mem' = disk /\ unsaved' = {} /\ failed' = {}
    /\ \E a \in initAutostart(eff["autostart"]) :
        /\ eff' = [s \in Settings |-> IF s = "autostart" THEN a ELSE disk[s]]
        /\ messy' = (messy \cap {"sent"}) \cup (IF a # disk["autostart"] THEN {"autostart"} ELSE {})
    /\ hb' = [s \in Settings |-> disk[s]]
    /\ shown' = [s \in Servers |-> disk[s]]
    /\ beat' = AtStart
    /\ answered' = [s \in Settings |-> {}]
    /\ UNCHANGED <<disk, call, quiet, sends, used, n>>

SettingsInit ==
    /\ used \in {r \in SUBSET Requests : Cardinality(r) = 2}
    /\ disk = [s \in Settings \cup {"sent"} |-> s \in {"update", "autostart", "allmail"}]
    /\ mem = disk
    /\ eff = [s \in Settings |-> disk[s]] /\ hb = eff
    /\ shown = [s \in Servers |-> disk[s]]
    /\ call = [c \in Callers |-> Idle]
    /\ unsaved = {} /\ failed = {} /\ messy = {} /\ beat = AtStart /\ quiet = FALSE /\ sends = 0
    /\ answered = [s \in Settings |-> {}]
    /\ up = TRUE /\ n = 0 /\ starts = 0

SettingsNext ==
    \/ \E c \in Callers :
        \/ Call(c) \/ Check(c) \/ Save(c) \/ Restart(c) \/ SetEarly(c) \/ SetAutostart(c)
        \/ SetTelemetryDisabled(c) \/ Answer(c) \/ getMailServerSettings(c)
    \/ TrySending \/ Stop \/ Start

SettingsSpec == SettingsInit /\ [][SettingsNext]_settingsVars

(***************************************************************************)
(* Properties.                                                             *)
(***************************************************************************)
AtRest(s) == up /\ \A c \in Callers : s \notin Touched(call[c].todo)

(* At rest the servers and the update check do what the vault in memory    *)
(* says, even if two callers changed the setting at the same time: each    *)
(* restart reads the vault after the write.  (SetIMAPPort ... restartIMAP; *)
(* not after a failed write, which is answered without a restart, nor if   *)
(* the port was taken.)                                                    *)
ServersFollow ==
    \A s \in Compared : AtRest(s) /\ s \notin failed => eff[s] = mem[s]

(* A value that was answered with success survives a restart: it is in the *)
(* file.  (modUnsafe writes before it returns.  After a failed write the   *)
(* memory already has the value, and the retry of a compared setter is     *)
(* answered without a write.)                                              *)
AnsweredIsSaved ==
    \A s \in Settings :
        AtRest(s) /\ answered[s] # {} /\ s \notin messy \cup unsaved => disk[s] \in answered[s]

(* At rest the system, the heartbeat and the memory agree on a setting that*)
(* only one caller changed at a time.  (The autostart entry, the proxy and *)
(* the mailboxes get the caller's value and not the vault's, so with two   *)
(* callers they end apart; a write that failed, or an entry the system     *)
(* refused, also at the start, leaves them apart too.)                     *)
Agree ==
    \A s \in Settings \ {"telemetry"} :
        AtRest(s) /\ s \notin messy \cup failed => eff[s] = mem[s] /\ hb[s] = mem[s]

(* Once disabling telemetry was answered, no heartbeat is on its way until *)
(* it is enabled again.  (SetTelemetryDisabled: the vault first, then stop *)
(* waits for the task; the task looks at the vault before it sends.)       *)
QuietWhenDisabled == quiet => beat # "sending"

(* One heartbeat a day, unless the program ended between sending it and    *)
(* saving that it was sent.  (TrySending, LastHeartbeatSent.)              *)
OneBeat == sends > 1 => "sent" \in messy

(* The server settings the GUI was told last are those of the vault, if    *)
(* calls for them do not overlap.  (SetMailServerSettings reads the vault  *)
(* at its end, after errors too.)                                          *)
ShownIsVault ==
    (\A c \in Callers : call[c].rpc = "none") /\ up /\ "shown" \notin messy =>
        \A s \in Servers : (s \notin messy => shown[s] = mem[s])

(* What two callers set at the same time is saved, in effect and shown     *)
(* alike, over failures and restarts, but for the exceptions of each part  *)
(* (the setters of bridge/settings.go and of the gRPC service).            *)
SettingsTakeEffect ==
    ServersFollow /\ AnsweredIsSaved /\ Agree /\ QuietWhenDisabled /\ OneBeat /\ ShownIsVault
=============================================================================
