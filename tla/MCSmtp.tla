------------------------------- MODULE MCSmtp -------------------------------
(* Sending over SMTP, with two submissions of messages with the same recipients,
   in either order, or with others, and one IMAP append. One run takes two parts
   one at a time: callers of the send recorder that nothing keeps apart
   (SendRecorder), and the same behind the service's loop (SmtpSend). *)
EXTENDS SmtpSend

CONSTANTS s1, s2, a1, h1, x, y

RecipientLists == {<<x, y>>, <<y, x>>, <<x>>}

VARIABLE part   \* the part of the program this behaviour is about

allVars == <<part, smtpVars>>

(* Which recipients the first sender's message has makes no difference: the others
   have the same, in the same or the other order, or others. *)
FirstList == msg[s1].toList = <<x, y>>

MCInit ==
  \/ part = "recorder" /\ Init /\ FirstList /\ serving = NoSender /\ canSend = FALSE
  \/ part = "loop" /\ SmtpInit /\ FirstList

MCNext ==
  \/ part = "recorder" /\ Next /\ UNCHANGED <<part, serving, canSend>>
  \/ part = "loop" /\ SmtpNext /\ UNCHANGED part

(* The fairness that each part assumes, in the behaviours that are about it. *)
MCFairness ==
  /\ WF_vars(part = "recorder" /\ Tick)
  /\ \A s \in Senders :
        WF_vars(part = "recorder" /\ (\/ RetryInsert(s) \/ SendDraft(s) \/ SendReplyLost(s)
                                      \/ SendFails(s) \/ SignalMessageSent(s) \/ RemoveOnFail(s)))
  /\ \A a \in Appenders : WF_vars(part = "recorder" /\ RetryHasEntry(a))
  /\ \A c \in Callers : WF_vars(part = "recorder" /\ (WaitWoken(c) \/ WaitTimesOut(c)))
  /\ WF_smtpVars(part = "loop" /\ SmtpTick)
  /\ \A s \in Senders : WF_smtpVars(part = "loop" /\ (RejectSender(s) \/ Serve(s)))

MCSpec == MCInit /\ [][MCNext]_allVars /\ MCFairness

-----------------------------------------------------------------------------
(* Outside the service's loop, a caller of the recorder that waits leaves wait: it
   is woken, gives up at its deadline or is cancelled (SendRecorder). *)
CallersReturn == \A c \in Callers : []<>(part = "recorder" => pc[c] # "waiting")
=============================================================================
