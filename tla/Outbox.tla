------------------------------- MODULE Outbox -------------------------------
(* What a user may count on when several mail clients, or one that retries, hand
   in and file the same message at the same time, however the callers are told
   apart, made to wait, or woken up:

     - a message goes out again only when its first sending was not confirmed,
       or so long after it that it must be meant as a second one;
     - a caller is told that its message was sent, or exists, only when it does;
     - what a caller was told is never taken back.

   SendRecorder is shown to implement this. *)
EXTENDS Naturals

CONSTANTS Callers, Expiry

VARIABLES
  what,     \* what each caller hands in: the message and its recipients
  mail,     \* what went out: what, when it was let through (at), its number, and whether this was confirmed
  answer    \* what each caller was told

vars == <<what, mail, answer>>

Init == mail = {} /\ answer = [c \in Callers |-> "none"]

(* Of two sendings of the same message the first was not confirmed, or the
   second was let through more than Expiry after it. *)
Apart(d, e) == (d.what = e.what /\ d.id < e.id /\ d.acked) => d.at + Expiry < e.at

Deliver ==
  /\ \E d \in mail' \ mail : mail' = mail \cup {d} /\ \A e \in mail : Apart(d, e) /\ Apart(e, d)
  /\ UNCHANGED <<what, answer>>

Justified(c, a) == a \in {"sent", "exists"} => \E d \in mail : d.what = what[c]

Say(c) ==
  /\ answer[c] = "none"
  /\ \E a \in {"sent", "exists", "failed", "unknown"} : Justified(c, a) /\ answer' = [answer EXCEPT ![c] = a]
  /\ UNCHANGED <<what, mail>>

Next == Deliver \/ \E c \in Callers : Say(c)

Spec == Init /\ [][Next]_vars
=============================================================================
