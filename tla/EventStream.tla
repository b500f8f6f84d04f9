----------------------------- MODULE EventStream -----------------------------
(***************************************************************************)
(* The stream of events from the gRPC service to the GUI.  Goroutines send *)
(* events with SendEvent: into the channel of the stream, or into a queue  *)
(* when there is none.  A new stream flushes the queue from a goroutine of *)
(* its own.  The stream ends when it is stopped, when the client leaves or *)
(* when a message cannot be sent; the last two can meet a Quit.            *)
(***************************************************************************)
EXTENDS Naturals, Sequences, FiniteSets, SequencesExt

CONSTANTS Streams,    \* calls of RunEventStream, 1 .. n
          MaxSends,   \* events that are sent
          NoChan

Senders == {"watch", "handler"}   \* watchEvents, and one RPC's goroutine
Quits   == {"rpc", "client"}      \* quit() by an RPC or the monitor, and by the stream

VARIABLES ch,        \* eventStreamCh: NoChan or the stream that made it
          closed,    \* channels that are closed
          queue,     \* eventQueue
          qlock,     \* eventQueueMutex
          snd,       \* [at, ev, on] of each sender
          flush,     \* [at, left, on] of each stream's flush goroutine
          str,       \* where RunEventStream of each stream is
          quit,      \* where each quit goroutine is
          doneCh,    \* eventStreamDoneCh: NoChan or the stream that made it
          doneClosed,\* those of them that are closed
          done,      \* the one on which stopEventStream waits to be heard
          pidDone,   \* the parent monitor has returned
          status,    \* the last internet status event that was sent
          shown,     \* ... and the last the GUI got
          sent, got, \* other events sent and delivered
          sends,     \* SendEvent calls
          hurt,      \* a stream was closed under someone; events overtook each other
          server     \* "up", "draining", "stopped"; "crashed": the process is gone

dones == <<doneCh, doneClosed, done>>
vars == <<ch, closed, queue, qlock, snd, flush, str, quit, dones, pidDone, status,
          shown, sent, got, sends, hurt, server>>

Status(v) == [kind |-> "status", v |-> v]
Other     == [kind |-> "other", v |-> FALSE]
IsStatus(e) == e.kind = "status"
IdleSender == [at |-> "idle", ev |-> Other, on |-> NoChan]
NoFlush    == [at |-> "none", left |-> <<>>, on |-> NoChan]

(* stopEventStream holds the read lock while it waits to be heard, and a   *)
(* writer that waits for the lock keeps new readers out.                   *)
ReadLocked  == \E q \in Quits : quit[q] = "stopping"
WriterWaits == ReadLocked /\ \E s \in Streams : str[s] = "closing"

(***************************************************************************)
(* SendEvent.                                                              *)
(***************************************************************************)
isStreamingEvents == ch # NoChan

(* A status event is sent by watchEvents only, the others by both.         *)
EventsOf(p) == {Other} \cup (IF p = "watch" THEN {Status(~status)} ELSE {})

SendEvent(p) ==
    /\ snd[p].at = "idle" /\ ~WriterWaits
    /\ \E e \in EventsOf(p) :
        /\ sends < MaxSends /\ sends' = sends + 1
        /\ IF IsStatus(e) THEN status' = e.v /\ UNCHANGED sent
           ELSE sent' = sent + 1 /\ UNCHANGED status
        /\ snd' = [snd EXCEPT ![p] = [at |-> IF isStreamingEvents THEN "send" ELSE "queue",
                                      ev |-> e, on |-> NoChan]]
    /\ UNCHANGED <<ch, closed, queue, qlock, flush, str, quit, dones, pidDone, shown, got,
                   hurt, server>>

(* A new internet status replaces the one in the queue.                    *)
Queued(q, e) ==
    IF IsStatus(e) THEN Append(SelectSeq(q, LAMBDA x : ~IsStatus(x)), e) ELSE Append(q, e)

queueEvent(p) ==
    /\ snd[p].at = "queue" /\ qlock = {}
    /\ queue' = Queued(queue, snd[p].ev)
    /\ hurt' = IF isStreamingEvents THEN hurt \cup {"late"} ELSE hurt
    /\ snd' = [snd EXCEPT ![p] = IdleSender]
    /\ UNCHANGED <<ch, closed, qlock, flush, str, quit, dones, pidDone, status, shown, sent,
                   got, server, sends>>

(* The field is read when the send starts; without a channel it blocks for *)
(* ever.                                                                   *)
SendStarts(p) ==
    /\ snd[p].at = "send"
    /\ snd' = [snd EXCEPT ![p].at = "sending", ![p].on = ch]
    /\ UNCHANGED <<ch, closed, queue, qlock, flush, str, quit, dones, pidDone, status, shown,
                   sent, got, hurt, server, sends>>

(* A send to a closed channel panics: the goroutine is gone.               *)
SendPanics(p) ==
    /\ snd[p].at = "sending" /\ snd[p].on \in closed
    /\ snd' = [snd EXCEPT ![p].at = "panicked"]
    /\ hurt' = hurt \cup {"closed"}
    /\ UNCHANGED <<ch, closed, queue, qlock, flush, str, quit, dones, pidDone, status, shown,
                   sent, got, server, sends>>

(***************************************************************************)
(* RunEventStream.                                                         *)
(***************************************************************************)
RunEventStream(s) ==
    /\ str[s] = "new" /\ server = "up" /\ ~WriterWaits
    /\ \A t \in Streams : t < s => str[t] # "new"
    /\ str' = [str EXCEPT ![s] = IF isStreamingEvents THEN "refused" ELSE "checked"]
    /\ UNCHANGED <<ch, closed, queue, qlock, snd, flush, quit, dones, pidDone, status, shown,
                   sent, got, hurt, server, sends>>

(* Two calls can both find no stream: the second replaces the channel.     *)
createEventStreamChannel(s) ==
    /\ str[s] = "checked" /\ ~ReadLocked
    /\ hurt' = hurt \cup (IF ch # NoChan THEN {"closed"} ELSE {})
                   \cup (IF \E q \in Quits : quit[q] # "no" THEN {"quitting"} ELSE {})
    /\ ch' = s
    /\ str' = [str EXCEPT ![s] = "created"]
    /\ UNCHANGED <<closed, queue, qlock, snd, flush, quit, dones, pidDone, status, shown, sent,
                   got, server, sends>>

(* No lock protects eventStreamDoneCh.                                     *)
MakesDoneCh(s) ==
    /\ str[s] = "created"
    /\ doneCh' = s
    /\ str' = [str EXCEPT ![s] = "running"]
    /\ flush' = [flush EXCEPT ![s].at = "start"]
    /\ UNCHANGED <<ch, closed, queue, qlock, snd, quit, doneClosed, done, pidDone, status, shown,
                   sent, got, hurt, server, sends>>

FlushStarts(s) ==
    /\ flush[s].at = "start" /\ qlock = {}
    /\ qlock' = {s}
    /\ flush' = [flush EXCEPT ![s] = [at |-> "next", left |-> queue, on |-> NoChan]]
    /\ UNCHANGED <<ch, closed, queue, snd, str, quit, dones, pidDone, status, shown, sent,
                   got, hurt, server, sends>>

FlushSends(s) ==
    /\ flush[s].at = "next" /\ flush[s].left # <<>>
    /\ flush' = [flush EXCEPT ![s].at = "sending", ![s].on = ch]
    /\ UNCHANGED <<ch, closed, queue, qlock, snd, str, quit, dones, pidDone, status, shown,
                   sent, got, hurt, server, sends>>

(* A panic leaves the queue as it is and gives the lock back.              *)
FlushPanics(s) ==
    /\ flush[s].at = "sending" /\ flush[s].on \in closed
    /\ flush' = [flush EXCEPT ![s] = NoFlush]
    /\ qlock' = {}
    /\ hurt' = hurt \cup {"closed"}
    /\ UNCHANGED <<ch, closed, queue, snd, str, quit, dones, pidDone, status, shown, sent,
                   got, server, sends>>

(* A mutant that empties the queue before its events are sent.             *)
MutFlushed(s) == flush' = [flush EXCEPT ![s] = NoFlush] /\ queue' = <<>>

Flushed(s) == flush[s].left = <<>> /\ flush' = [flush EXCEPT ![s] = NoFlush] /\ queue' = <<>>

FlushEnds(s) ==
    /\ flush[s].at = "next"
    /\ Flushed(s)
    /\ qlock' = {}
    /\ UNCHANGED <<ch, closed, snd, str, quit, dones, pidDone, status, shown, sent, got,
                   hurt, server, sends>>

(* The loop takes an event from the channel and sends it to the client.    *)
Shown(e) == /\ shown' = IF IsStatus(e) THEN e.v ELSE shown
            /\ got' = IF IsStatus(e) THEN got ELSE got + 1

(* An event of a sender passes events of the queue that are not sent yet.  *)
SendsEvent(s) ==
    /\ str[s] = "running" /\ s \notin closed
    /\ \/ \E p \in Senders :
            /\ snd[p].at = "sending" /\ snd[p].on = s
            /\ Shown(snd[p].ev)
            /\ snd' = [snd EXCEPT ![p] = IdleSender]
            /\ hurt' = IF \E i \in 1 .. Len(queue) : IsStatus(queue[i]) /\ IsStatus(snd[p].ev)
                       THEN hurt \cup {"overtaken"} ELSE hurt
            /\ UNCHANGED flush
       \/ \E t \in Streams :
            /\ flush[t].at = "sending" /\ flush[t].on = s
            /\ Shown(Head(flush[t].left))
            /\ flush' = [flush EXCEPT ![t] = [at |-> "next", left |-> Tail(@.left), on |-> NoChan]]
            /\ UNCHANGED <<snd, hurt>>
    /\ UNCHANGED <<ch, closed, queue, qlock, str, quit, dones, pidDone, status, sent, server, sends>>

(* server.Send fails, or the client leaves: then the stream also quits.    *)
SendFails(s) ==
    /\ str[s] = "running"
    /\ \/ \E p \in Senders : /\ snd[p].at = "sending" /\ snd[p].on = s
                             /\ snd' = [snd EXCEPT ![p] = IdleSender] /\ UNCHANGED flush
       \/ \E t \in Streams : /\ flush[t].at = "sending" /\ flush[t].on = s
                             /\ flush' = [flush EXCEPT ![t].at = "next", ![t].left = Tail(@)]
                             /\ UNCHANGED snd
    /\ str' = [str EXCEPT ![s] = "leaving"]
    /\ hurt' = hurt \cup {"closed"}
    /\ UNCHANGED <<ch, closed, queue, qlock, quit, dones, pidDone, status, shown, sent, got,
                   server, sends>>

ClientLeaves(s) ==
    /\ str[s] = "running"
    /\ str' = [str EXCEPT ![s] = "leaving"]
    /\ quit' = IF quit["client"] = "no" THEN [quit EXCEPT !["client"] = "called"] ELSE quit
    /\ hurt' = hurt \cup {"left"}
    /\ UNCHANGED <<ch, closed, queue, qlock, snd, flush, dones, pidDone, status, shown, sent,
                   got, server, sends>>

(* The loop hears whoever sends on the channel, and its end.               *)
Hears(s) == str[s] = "running" /\ (done = s \/ s \in doneClosed)
Heard(s) == [q \in Quits |-> IF quit[q] = "stopping" /\ done = s THEN "draining" ELSE quit[q]]

StreamStopped(s) ==
    /\ Hears(s)
    /\ done' = IF done = s THEN NoChan ELSE done
    /\ quit' = Heard(s)
    /\ str' = [str EXCEPT ![s] = "leaving"]
    /\ UNCHANGED <<ch, closed, queue, qlock, snd, flush, doneCh, doneClosed, pidDone, status, shown,
                   sent, got, hurt, server, sends>>

(* The deferred end: close the channel (the one in the field), then remove *)
(* it under the lock.  To close a channel that is closed or nil, because   *)
(* two streams ran, is a panic that nobody recovers.                       *)
CloseChannel(s) ==
    /\ str[s] = "leaving"
    /\ closed' = closed \cup ({ch} \ {NoChan})
    /\ hurt' = IF \E p \in Senders : snd[p].at # "idle" THEN hurt \cup {"closed"} ELSE hurt
    /\ str' = [str EXCEPT ![s] = "closing"]
    /\ server' = IF ch \in closed \cup {NoChan} THEN "crashed" ELSE server
    /\ UNCHANGED <<ch, queue, qlock, snd, flush, quit, dones, pidDone, status, shown, sent,
                   got, sends>>

deleteEventStreamChannel(s) ==
    /\ str[s] = "closing" /\ ~ReadLocked
    /\ ch' = NoChan
    /\ hurt' = IF \E p \in Senders : snd[p].at # "idle" THEN hurt \cup {"closed"} ELSE hurt
    /\ str' = [str EXCEPT ![s] = "deleted"]
    /\ UNCHANGED <<closed, queue, qlock, snd, flush, quit, dones, pidDone, status, shown,
                   sent, got, server, sends>>

(* The done channel in the field is closed, whoever made it: a stream that *)
(* has started since is told to end, and its own end closes nil.           *)
ClosesDoneCh(s) ==
    /\ str[s] = "deleted"
    /\ doneClosed' = doneClosed \cup ({doneCh} \ {NoChan})
    /\ done' = IF done = doneCh THEN NoChan ELSE done
    /\ quit' = [q \in Quits |-> IF quit[q] = "stopping" /\ done = doneCh /\ done # NoChan
                                THEN "panicked" ELSE quit[q]]
    /\ hurt' = hurt \cup (IF doneCh # s THEN {"closed"} ELSE {})
    /\ doneCh' = NoChan
    /\ server' = IF doneCh = NoChan THEN "crashed" ELSE server
    /\ str' = [str EXCEPT ![s] = "ended"]
    /\ UNCHANGED <<ch, closed, queue, qlock, snd, flush, pidDone, status, shown, sent, got, sends>>

(***************************************************************************)
(* Quit, by an RPC or by the monitor of the parent process.                *)
(***************************************************************************)
Quit ==
    /\ quit["rpc"] = "no"
    /\ quit' = [quit EXCEPT !["rpc"] = "called"]
    /\ UNCHANGED <<ch, closed, queue, qlock, snd, flush, str, dones, pidDone, status, shown,
                   sent, got, hurt, server, sends>>

(* The monitor takes one message and returns; a second quit waits for ever.*)
monitorParentPID(q) ==
    /\ quit[q] = "called" /\ ~pidDone
    /\ pidDone' = TRUE
    /\ quit' = [quit EXCEPT ![q] = "checking"]
    /\ UNCHANGED <<ch, closed, queue, qlock, snd, flush, str, dones, status, shown, sent, got,
                   hurt, server, sends>>

(* A stream that has its channel and not yet its done channel cannot hear: *)
(* the send on nil blocks for ever, with the read lock.                    *)
stopEventStream(q) ==
    /\ quit[q] = "checking" /\ ~WriterWaits
    /\ quit' = [quit EXCEPT ![q] = IF isStreamingEvents THEN "stopping" ELSE "draining"]
    /\ done' = IF isStreamingEvents THEN doneCh ELSE NoChan
    /\ hurt' = IF isStreamingEvents /\ doneCh = NoChan THEN hurt \cup {"quitting"} ELSE hurt
    /\ UNCHANGED <<ch, closed, queue, qlock, snd, flush, str, doneCh, doneClosed, pidDone, status,
                   shown, sent, got, server, sends>>

(* GracefulStop lets no call in and waits for the ones that run.           *)
GracefulStop ==
    /\ \E q \in Quits : quit[q] = "draining"
    /\ \/ server = "up" /\ server' = "draining"
       \/ /\ server = "draining" /\ server' = "stopped"
          /\ \A s \in Streams : str[s] \in {"new", "refused", "ended"}
    /\ UNCHANGED <<ch, closed, queue, qlock, snd, flush, str, quit, dones, pidDone, status,
                   shown, sent, got, hurt, sends>>

Init ==
    /\ ch = NoChan /\ closed = {} /\ queue = <<>> /\ qlock = {} /\ sends = 0
    /\ snd = [p \in Senders |-> IdleSender]
    /\ flush = [s \in Streams |-> NoFlush]
    /\ str = [s \in Streams |-> "new"]
    /\ quit = [q \in Quits |-> "no"] /\ pidDone = FALSE
    /\ status = TRUE /\ shown = TRUE /\ sent = 0 /\ got = 0
    /\ doneCh = NoChan /\ doneClosed = {} /\ done = NoChan
    /\ hurt = {} /\ server = "up"

Sender(p)  == queueEvent(p) \/ SendStarts(p) \/ SendPanics(p)
Flusher(s) == FlushStarts(s) \/ FlushSends(s) \/ FlushPanics(s) \/ FlushEnds(s)
Loop(s)    == \/ createEventStreamChannel(s) \/ MakesDoneCh(s) \/ SendsEvent(s)
              \/ CloseChannel(s) \/ deleteEventStreamChannel(s) \/ ClosesDoneCh(s)
Quitter(q) == monitorParentPID(q) \/ stopEventStream(q)

Next == server # "crashed" /\
    \/ \E p \in Senders : Sender(p) \/ SendEvent(p)
    \/ \E s \in Streams : \/ Flusher(s) \/ Loop(s) \/ StreamStopped(s)
                         \/ RunEventStream(s) \/ SendFails(s) \/ ClientLeaves(s)
    \/ \E q \in Quits : Quitter(q)
    \/ GracefulStop \/ Quit

(* The scheduler runs every goroutine that can run; a select with two      *)
(* ready cases takes each of them again and again.                         *)
Fairness ==
    /\ \A p \in Senders : WF_vars(Sender(p))
    /\ \A s \in Streams : WF_vars(Flusher(s)) /\ WF_vars(Loop(s)) /\ SF_vars(StreamStopped(s))
    /\ \A q \in Quits : WF_vars(Quitter(q))
    /\ WF_vars(GracefulStop)

Spec == Init /\ [][Next]_vars /\ Fairness

(***************************************************************************)
(* Properties.                                                             *)
(***************************************************************************)
AtRest == /\ \A p \in Senders : snd[p].at = "idle"
          /\ \A s \in Streams : flush[s].at = "none"
          /\ \E s \in Streams : str[s] = "running"

(* With a stream and nothing in flight the GUI shows the internet status   *)
(* that was sent last.  (queueEvent replaces a status in the queue and the *)
(* flush keeps the order; but a status sent while the flush has not sent   *)
(* the old one, or queued by a sender that saw no stream, is overtaken.)   *)
StatusShown == AtRest /\ hurt = {} => shown = status

(* No event is lost between the queue and the stream: with a stream and    *)
(* nothing in flight the GUI got all of them.  (SendEvent, the flush under *)
(* eventQueueMutex; not when a stream was closed under a sender, and not   *)
(* when a sender had looked before the stream was there.)                  *)
NoneLost == AtRest /\ hurt \subseteq {"overtaken"} => got = sent

(* A quit ends the server, unless the client leaves or a message cannot be *)
(* sent while stopEventStream waits to be heard: it then holds the read    *)
(* lock that the end of the stream needs.  A stream that starts while the  *)
(* quit is under way keeps the server as long as its client stays.         *)
QuitCalled == quit["rpc"] = "called"
QuitOver == server = "stopped" \/ hurt \cap {"left", "closed", "quitting"} # {}
=============================================================================
