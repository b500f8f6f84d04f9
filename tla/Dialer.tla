------------------------------- MODULE Dialer -------------------------------
(* The way to the API: a dialer that checks the pinned keys of every server it
   connects to, inside one that switches to a proxy when the API cannot be
   reached (internal/dialer). Every request may dial at any time; the settings
   allow or forbid proxies, and a timer ends the use of one. *)
EXTENDS Naturals, FiniteSets

CONSTANTS
  Dials,              \* calls of DialTLSContext
  Proxies,            \* proxies that the DNS providers name
  Direct,             \* the API itself
  None,
  MaxChanges          \* how often the network and the settings change

Servers == Proxies \cup {Direct}

VARIABLES
  proxyAddress, allowProxy, tooSoon,   \* ProxyTLSDialer, and whether the last lookup is less than 5 s old
  timers,                              \* goroutines that wait to end the use of a proxy
  writer, readers,                     \* who holds the locker
  pc, address, conn,                   \* of each dial: what it dials, and the server it got
  probe,                               \* the proxies that the dial which looks for a server may still try
  issues, listening,                   \* tlsIssueCh, of one place, and whether the bridge reads it
  stray,                               \* the goroutine of a ping that timed out still waits to send on it
  report,                              \* what each dial does about an impostor it met
  sentReports,                         \* TLSReporter: the servers it remembers to have reported in the last 24 hours
  posted, again,                       \* those it did report, and whether one was reported twice or two dials met in it
  network, doh,                        \* each server is up, down or an impostor; whether the DNS providers answer
  overtaken,                           \* the dial that switched last did so after proxies were forbidden
  changes

reporter == <<sentReports, posted, again>>
vars == <<proxyAddress, allowProxy, tooSoon, timers, writer, readers, pc, address, conn, probe, issues, listening,
          stray, report, sentReports, posted, again, network, doh, overtaken, changes>>
env == <<network, doh, listening, changes>>
state == <<proxyAddress, allowProxy, tooSoon, timers, overtaken>>

(* newTLSReport: what a report says is fixed by the server that it is about;
   the time is filled in when it is sent. *)
newTLSReport(s, step) == [at |-> s, step |-> step]
Unmet == newTLSReport(None, "none")

Init ==
  /\ proxyAddress = Direct /\ allowProxy \in BOOLEAN /\ tooSoon = FALSE /\ timers = 0
  /\ writer = None /\ readers = {}
  /\ pc = [d \in Dials |-> "idle"] /\ address = [d \in Dials |-> Direct] /\ conn = [d \in Dials |-> None]
  /\ probe = {} /\ issues = 0 /\ listening = TRUE /\ stray = FALSE
  /\ report = [d \in Dials |-> Unmet] /\ sentReports = {} /\ posted = {} /\ again = "no"
  /\ network \in {n \in [Servers -> {"up", "down"}] : \A p \in Proxies : n[p] = "up"} /\ doh = TRUE /\ overtaken = FALSE /\ changes = 0

(* DialTLSContext: the address is read under the lock, and dialled without. *)
Start(d) ==
  /\ writer = None /\ (pc[d] = "idle" \/ (pc[d] = "done" /\ changes < MaxChanges))
  /\ address' = [address EXCEPT ![d] = proxyAddress] /\ pc' = [pc EXCEPT ![d] = "first"]
  /\ conn' = [conn EXCEPT ![d] = None]
  /\ UNCHANGED <<state, writer, readers, probe, issues, stray, report, reporter, env>>

(* PinningTLSDialer.DialTLSContext and CheckCertificate: an impostor's
   connection is never used; the dial tells the reporter, and then the channel,
   which it waits for. *)
CheckCertificate(s) == network[s] = "up"
Passed(d, s) == report[d] = Unmet /\ CheckCertificate(s)
Failed(d, s) == (report[d] = Unmet /\ network[s] = "down") \/ (report[d].step = "told" /\ report[d].at = s)
Reports(d) ==
  /\ report' = [report EXCEPT ![d] = Unmet]
  /\ IF report[d] = Unmet THEN UNCHANGED issues ELSE issues < 1 /\ issues' = issues + 1

(* A ping of canReach gives up on a full channel after canReachTimeout, but its
   goroutine stays until it has sent; several of these count as one. *)
Pings(d) ==
  \/ Reports(d) /\ UNCHANGED stray
  \/ /\ report[d] # Unmet /\ issues = 1
     /\ report' = [report EXCEPT ![d] = Unmet] /\ stray' = TRUE /\ UNCHANGED issues
StraySends ==
  /\ stray /\ issues < 1 /\ issues' = issues + 1 /\ stray' = FALSE
  /\ UNCHANGED <<state, writer, readers, pc, address, conn, probe, report, reporter, env>>

(* The server that a dial is connected to. *)
Dialled(d, s) ==
  \/ pc[d] \in {"first", "dialling"} /\ s = address[d]
  \/ pc[d] = "find" /\ s = Direct
  \/ pc[d] = "probe" /\ s \in probe

(* ReportCertIssue of the TLSReporter, which all dials share without a lock:
   hasRecentlySentReport looks for the report and writes the list back without
   the old entries, recordReport adds the new one before it is sent. A dial that
   writes the list back may have read it before another's was added. *)
Meets(d, s) == Dialled(d, s) /\ report[d] = Unmet /\ network[s] = "impostor"
InReporter(d) == report[d].step = "new" \/ \E s \in Servers : Meets(d, s)
Raced == again' = (IF again = "no" THEN "raced" ELSE again) /\ posted' = {}
hasRecentlySentReport(d, s) ==
  /\ Meets(d, s)
  /\ report' = [report EXCEPT ![d] = newTLSReport(s, IF s \in sentReports THEN "told" ELSE "new")]
  /\ IF \E e \in Dials : report[e].step = "new" THEN Raced ELSE UNCHANGED <<posted, again>>
  /\ UNCHANGED <<state, writer, readers, pc, address, conn, probe, issues, stray, sentReports, env>>

(* Sent or not: sendReport's error is only logged. *)
sendReport(s) ==
  IF again # "no" THEN UNCHANGED <<posted, again>>
  ELSE posted' = posted \cup {s} /\ again' = IF s \in posted THEN "yes" ELSE again
recordReport(d) ==
  /\ report[d].step = "new" /\ report' = [report EXCEPT ![d].step = "told"]
  /\ \/ sentReports' = sentReports \cup {report[d].at} /\ sendReport(report[d].at)
     \/ (\E e \in Dials \ {d} : InReporter(e)) /\ Raced /\ UNCHANGED sentReports
  /\ UNCHANGED <<state, writer, readers, pc, address, conn, probe, issues, stray, env>>

(* 24 hours later all reports are old, and no dial is under way from before. *)
Ages ==
  /\ (posted # {} \/ again # "no") /\ \A d \in Dials : pc[d] \in {"idle", "done"}
  /\ posted' = {} /\ sentReports' = {} /\ again' = "no"
  /\ UNCHANGED <<state, writer, readers, pc, address, conn, probe, issues, stray, report, env>>

MayTryProxy == allowProxy

(* The context of the request is cancelled before the dial has met anyone: no
   proxy is tried. *)
Cancelled(d) == report[d] = Unmet

First(d) ==
  /\ pc[d] = "first" /\ Reports(d) /\ address' = [address EXCEPT ![d] = Direct]
  /\ \/ /\ Passed(d, address[d])
        /\ conn' = [conn EXCEPT ![d] = address[d]] /\ pc' = [pc EXCEPT ![d] = "done"]
     \/ /\ Failed(d, address[d])
        /\ pc' = [pc EXCEPT ![d] = IF MayTryProxy THEN "switch" ELSE "done"] /\ UNCHANGED conn
     \/ Cancelled(d) /\ pc' = [pc EXCEPT ![d] = "done"] /\ UNCHANGED conn
  /\ UNCHANGED <<state, writer, readers, probe, stray, reporter, env>>

(* switchToReachableServer holds the lock while findReachableServer looks: not
   within 5 s of the last time. The API and the DNS providers are asked side by
   side, then the proxies one by one. *)
Lock(d) ==
  /\ pc[d] = "switch" /\ writer = None /\ readers = {}
  /\ \/ tooSoon /\ pc' = [pc EXCEPT ![d] = "done"] /\ UNCHANGED <<writer, tooSoon, probe>>
     \/ /\ ~tooSoon /\ tooSoon' = TRUE /\ writer' = d /\ pc' = [pc EXCEPT ![d] = "find"]
        /\ UNCHANGED probe
  /\ UNCHANGED <<proxyAddress, allowProxy, timers, overtaken, readers, address, conn, issues, stray, report, reporter, env>>

Unlock(d, where) == writer' = None /\ pc' = [pc EXCEPT ![d] = where] /\ probe' = {}

(* A switch to a proxy from the API starts the timer. *)
StartsTimer == proxyAddress = Direct
SwitchTo(s) ==
  /\ proxyAddress' = s
  /\ timers' = IF s # Direct /\ StartsTimer THEN timers + 1 ELSE timers
  /\ overtaken' = (s # Direct /\ ~allowProxy)
  /\ UNCHANGED <<allowProxy, tooSoon>>

(* defaultDoHLookup asks one DNS provider: records, an error or, after 20 s, a
   timeout that leaves its goroutine behind. refreshProxyCache tries the three
   in turn. *)
defaultDoHLookup == doh

(* If the API answers the dial fails all the same, to be tried again; if the
   DNS providers failed with it, that error wins and the address stays. *)
KeepsError == ~defaultDoHLookup

findReachableServer(d) ==
  /\ pc[d] = "find" /\ Pings(d)
  /\ \/ /\ Passed(d, Direct) /\ Unlock(d, "done")
        /\ IF KeepsError THEN UNCHANGED state ELSE SwitchTo(Direct)
     \/ /\ Failed(d, Direct) /\ ~KeepsError
        /\ probe' = Proxies /\ pc' = [pc EXCEPT ![d] = "probe"] /\ UNCHANGED <<state, writer>>
     \/ Failed(d, Direct) /\ KeepsError /\ Unlock(d, "done") /\ UNCHANGED state
  /\ UNCHANGED <<readers, address, conn, reporter, env>>

canReach(d, s) ==
  /\ pc[d] = "probe" /\ s \in probe /\ Pings(d)
  /\ \/ Passed(d, s) /\ SwitchTo(s) /\ Unlock(d, "second")
     \/ Failed(d, s) /\ probe' = probe \ {s} /\ UNCHANGED <<state, writer, pc>>
  /\ UNCHANGED <<readers, address, conn, reporter, env>>

FindsNone(d) ==
  /\ pc[d] = "probe" /\ probe = {} /\ Unlock(d, "done")
  /\ UNCHANGED <<state, readers, address, conn, issues, stray, report, reporter, env>>

(* The second dial holds the read lock until it has ended. *)
RLock(d) ==
  /\ pc[d] = "second" /\ writer = None
  /\ readers' = readers \cup {d} /\ address' = [address EXCEPT ![d] = proxyAddress] /\ pc' = [pc EXCEPT ![d] = "dialling"]
  /\ UNCHANGED <<state, writer, conn, probe, issues, stray, report, reporter, env>>

Second(d) ==
  /\ pc[d] = "dialling" /\ Reports(d) /\ address' = [address EXCEPT ![d] = Direct]
  /\ \/ Passed(d, address[d]) /\ conn' = [conn EXCEPT ![d] = address[d]]
     \/ (Failed(d, address[d]) \/ Cancelled(d)) /\ UNCHANGED conn
  /\ pc' = [pc EXCEPT ![d] = "done"] /\ readers' = readers \ {d}
  /\ UNCHANGED <<state, writer, probe, stray, reporter, env>>

(* The timer, 24 hours later. *)
Expire ==
  /\ timers > 0 /\ writer = None /\ readers = {}
  /\ timers' = timers - 1 /\ proxyAddress' = Direct /\ overtaken' = FALSE
  /\ UNCHANGED <<allowProxy, tooSoon, writer, readers, pc, address, conn, probe, issues, stray, report, reporter, env>>

Passes == tooSoon /\ tooSoon' = FALSE /\ UNCHANGED <<proxyAddress, allowProxy, timers, overtaken, writer, readers, pc, address, conn, probe, issues, stray, report, reporter, env>>

(* AllowProxy and DisallowProxy. *)
Changes == changes < MaxChanges /\ changes' = changes + 1
AllowProxy ==
  /\ Changes /\ writer = None /\ readers = {} /\ allowProxy' = TRUE /\ overtaken' = FALSE
  /\ UNCHANGED <<proxyAddress, tooSoon, timers, writer, readers, pc, address, conn, probe, issues, stray, listening, report, reporter, network, doh>>
MutForbidden == proxyAddress
Forbidden == Direct
DisallowProxy ==
  /\ Changes /\ writer = None /\ readers = {} /\ allowProxy' = FALSE /\ proxyAddress' = Forbidden
  /\ overtaken' = FALSE
  /\ UNCHANGED <<tooSoon, timers, writer, readers, pc, address, conn, probe, issues, stray, listening, report, reporter, network, doh>>

(* The bridge reads the issues until it is closed. *)
Takes == issues - 1
Listen ==
  /\ listening /\ issues > 0 /\ issues' = Takes
  /\ UNCHANGED <<state, writer, readers, pc, address, conn, probe, stray, report, reporter, env>>
Close == Changes /\ listening /\ listening' = FALSE /\ UNCHANGED <<state, writer, readers, pc, address, conn, probe, issues, stray, report, reporter, network, doh>>

NetworkChanges ==
  /\ Changes
  /\ \/ \E s \in Servers, n \in {"up", "down", "impostor"} : network[s] # n /\ network' = [network EXCEPT ![s] = n] /\ UNCHANGED doh
     \/ doh' = ~doh /\ UNCHANGED network
  /\ UNCHANGED <<state, writer, readers, pc, address, conn, probe, report, reporter, issues, stray, listening>>

DialStep(d) ==
  \/ recordReport(d) \/ \E s \in Servers : hasRecentlySentReport(d, s)
  \/ First(d) \/ Lock(d) \/ findReachableServer(d) \/ FindsNone(d) \/ RLock(d) \/ Second(d)
  \/ \E s \in Proxies : canReach(d, s)
Next ==
  \/ \E d \in Dials : Start(d) \/ DialStep(d)
  \/ StraySends \/ Ages \/ Expire \/ Passes \/ AllowProxy \/ DisallowProxy \/ Listen \/ Close \/ NetworkChanges

(* A dial goes on, and its turn for the lock and the channel comes: Go's starve
   nobody. The bridge reads while it listens. *)
Fair == (\A d \in Dials : SF_vars(DialStep(d))) /\ WF_vars(Listen)
Spec == Init /\ [][Next]_vars /\ Fair

----------------------------------------------------------------------------
(* No connection is handed out to a server that did not show a pinned key when
   it was dialled. *)
PinnedStep == \A d \in Dials : (conn'[d] # conn[d] /\ conn'[d] # None) => network[conn'[d]] = "up"

(* A proxy is in use while proxies are forbidden only if a dial that had looked
   at the setting before switched to it afterwards. *)
ForbiddenIsDirect == (~allowProxy /\ proxyAddress # Direct) => overtaken

(* The use of a proxy always has an end: some timer is running. *)
ProxyExpires == proxyAddress # Direct => timers > 0

(* When a search finds the API it is used again, unless the DNS providers
   failed at the same time: then the proxy stays, dead or not. *)
PreferStep ==
  \A d \in Dials : (pc[d] = "find" /\ pc'[d] # "find" /\ Passed(d, Direct) /\ doh) => proxyAddress' = Direct

(* One impostor is reported again within a day only after two dials were in the
   reporter at once: they may both find it new, or one may write back the list
   that it read before the other's report was added. *)
ReportedOnce == again # "yes"

(* Every dial ends while the bridge listens for TLS issues; a closed bridge
   leaves the second impostor's dial waiting, and with it, if that one has the
   read lock, everyone who needs the lock. *)
DialOver(d) == pc[d] \in {"idle", "done"} \/ ~listening
=============================================================================
