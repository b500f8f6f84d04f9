------------------------------ MODULE SmtpSend ------------------------------
(***************************************************************************)
(* The SMTP service of one user (internal/services/smtp) driving the send  *)
(* recorder.  The service has a single loop: it takes one request or one   *)
(* event at a time and finishes it before the next, so at most one sender  *)
(* is inside smtpSendMail.  IMAP appends run beside the loop.              *)
(*                                                                         *)
(* smtpSendMail rejects a message whose From address is unknown or may not *)
(* send.  That check reads identityState, which address events change, and *)
(* comes after the recorder entry was inserted.                            *)
(***************************************************************************)
EXTENDS SendRecorder

CONSTANT NoSender

VARIABLES
    serving,    \* the send request the loop is working on, or NoSender
    canSend     \* identityState: the From address exists, is enabled, sends

smtpVars == <<vars, serving, canSend>>

Returned(c) == pc[c] \in {"done", "failed", "found", "import"}

SmtpInit ==
    /\ Init
    /\ serving = NoSender
    /\ canSend \in BOOLEAN

(* The loop receives sendMailReq; up to the deadline of TryInsertWait. *)
Receive(s) ==
    /\ serving = NoSender
    /\ TryInsertWait(s)
    /\ serving' = s
    /\ UNCHANGED canSend

(* The envelope's return path is unknown, the body cannot be read or its   *)
(* hash cannot be computed: smtpSendMail returns before it uses the        *)
(* recorder.                                                               *)
RejectReturnPath(s) ==
    /\ serving = NoSender
    /\ pc[s] = "idle"
    /\ pc' = [pc EXCEPT ![s] = "failed"]
    /\ UNCHANGED <<heap, entries, now, msg, srID, deadline, delivered, lost,
                   serving, canSend>>

(* The sender of the message is unknown, or its address is disabled or may *)
(* not send: smtpSendMail returns and leaves its entry in the recorder.    *)
RejectSender(s) ==
    /\ serving = s
    /\ pc[s] = "sending"
    /\ ~canSend
    /\ pc' = [pc EXCEPT ![s] = "failed"]
    /\ serving' = NoSender
    /\ UNCHANGED <<heap, entries, now, msg, srID, deadline, delivered, lost,
                   canSend>>

(* The other steps of smtpSendMail; when it returns the loop is free. *)
Serve(s) ==
    /\ serving = s
    /\ \/ RetryInsert(s)
       \/ canSend /\ SendDraft(s)
       \/ canSend /\ SendReplyLost(s)
       \/ SendFails(s)
       \/ SignalMessageSent(s)
       \/ RemoveOnFail(s)
       \/ WaitWoken(s)
       \/ WaitTimesOut(s)
    /\ serving' = IF Returned(s)' THEN NoSender ELSE s
    /\ UNCHANGED canSend

(* The service is cancelled while smtpSendMail waits. *)
ServeCancelled(s) ==
    /\ serving = s
    /\ WaitCancelled(s)
    /\ serving' = NoSender
    /\ UNCHANGED canSend

(* The loop handles an address or refresh event. *)
HandleAddressEvents ==
    /\ serving = NoSender
    /\ canSend' \in BOOLEAN \ {canSend}
    /\ UNCHANGED <<vars, serving>>

AppendStep(a) ==
    /\ AppenderStep(a) \/ WaitStep(a)
    /\ UNCHANGED <<serving, canSend>>

SmtpTick == Tick /\ UNCHANGED <<serving, canSend>>

SmtpTerminated == Terminated /\ UNCHANGED <<serving, canSend>>

SmtpNext ==
    \/ \E s \in Senders : \/ Receive(s) \/ RejectReturnPath(s)
                          \/ RejectSender(s) \/ Serve(s) \/ ServeCancelled(s)
    \/ \E a \in Appenders : AppendStep(a)
    \/ HandleAddressEvents
    \/ SmtpTick
    \/ SmtpTerminated

(* The loop runs, and the clock; requests come as they please. *)
SmtpSpec ==
    /\ SmtpInit /\ [][SmtpNext]_smtpVars
    /\ WF_smtpVars(SmtpTick)
    /\ \A s \in Senders : WF_smtpVars(RejectSender(s) \/ Serve(s))

-----------------------------------------------------------------------------

(* smtpSendMail always returns, so the loop that also delivers the user's  *)
(* events to this service is free again.                                   *)
LoopIsFreed == \A s \in Senders : (serving = s) ~> (serving = NoSender)

(* recorder.go, in TryInsertWait: "A message with this hash is already     *)
(* being sent; wait for it."  While a caller waits for an open channel of  *)
(* an entry in the map, some sender is still on its way to report on it.   *)
WaitsForASend ==
    \A c \in Callers :
       (/\ pc[c] = "waiting"
        /\ srID[c] \in entries
        /\ ~heap[srID[c]].waitChClosed)
       => \E s \in Senders : /\ pc[s] \in {"sending", "signal", "remove"}
                             /\ srID[s] = srID[c]
=============================================================================
