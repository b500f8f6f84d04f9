---------------------------- MODULE Subscribers ----------------------------
(* How the event loop of a user hands an event to the services that subscribed
   to it, and how both are ended (internal/services/userevents: subscriber.go
   and the subscriptions of service.go; internal/services/orderedtasks). Every
   event goes to all subscribers side by side; each of them is a goroutine that
   takes it from a channel without buffer, handles it and answers on another. *)
EXTENDS Naturals, Sequences, FiniteSets, SequencesExt

CONSTANTS
  Order,              \* the services, in the order they are started after the event loop
  Workers,            \* how many are told at once: half the number of CPUs
  MaxEvents, MaxConns \* bounds of the events, and of the changes of the connection

Subs == Range(Order)

VARIABLES
  svc,                \* what each service does
  active, pending,    \* subscriberList, and pendingSubscriptions
  drains, closed,     \* goroutines that cancel() left at a channel, and the channels that were closed
  loop,               \* select, publish or ended
  pub, failed,        \* the call of handle for each subscriber; whether one of them failed
  last, event,        \* the stored event ID, and the event that is published
  handled,            \* the last event that each service handled, or found handled when it subscribed
  rivals,             \* services whose publisher left them while they handled, as another one had failed
  paused, waiter, woken, conns,
  stopping            \* how many tasks the group has left to end; Len(Order) + 2 while the user is open

vars == <<svc, active, pending, drains, closed, loop, pub, failed, last, event, handled, rivals, paused, waiter, woken, conns, stopping>>
event_ == <<last, event, handled, rivals>>
pause == <<paused, waiter, woken, conns>>
list == <<active, pending, drains, closed>>

Open == Len(Order) + 2
Init ==
  /\ svc = [s \in Subs |-> "new"] /\ active = <<>> /\ pending = <<>>
  /\ drains = [s \in Subs |-> FALSE] /\ closed = [s \in Subs |-> 0]
  /\ loop = "select" /\ pub = [s \in Subs |-> "none"] /\ failed = FALSE
  /\ last = 0 /\ event = 0 /\ handled = [s \in Subs |-> 0] /\ rivals = {}
  /\ paused = TRUE /\ waiter = "none" /\ woken = FALSE /\ conns = 0 /\ stopping = Open

----------------------------------------------------------------------------
(* The services. Each subscribes when its goroutine first runs, which may be
   after the loop was resumed, and unsubscribes when it ends. *)
Op(op, s) == [op |-> op, sub |-> s]

Subscribe(s) ==
  /\ svc[s] = "new" /\ svc' = [svc EXCEPT ![s] = "idle"]
  /\ pending' = Append(pending, Op("add", s)) /\ handled' = [handled EXCEPT ![s] = event]
  /\ UNCHANGED <<active, drains, closed, loop, pub, failed, last, event, rivals, pause, stopping>>

(* Unsubscribe: cancel() leaves a goroutine that takes what is still sent. *)
Cancelled(s) == stopping # Open /\ \E i \in DOMAIN Order : Order[i] = s /\ i >= stopping
Unsubscribe(s) ==
  /\ svc[s] = "idle" /\ Cancelled(s) /\ svc' = [svc EXCEPT ![s] = "ended"]
  /\ drains' = [drains EXCEPT ![s] = TRUE] /\ pending' = Append(pending, Op("remove", s))
  /\ UNCHANGED <<active, closed, loop, pub, failed, event_, pause, stopping>>

(* Consume: the handler succeeds and the answer is closed, or it fails and its
   error waits for somebody to take it. *)
Consume(s) ==
  /\ svc[s] = "handling"
  /\ \/ /\ svc' = [svc EXCEPT ![s] = "idle"] /\ handled' = [handled EXCEPT ![s] = event]
        /\ pub' = [pub EXCEPT ![s] = IF pub[s] = "waiting" THEN "replied" ELSE @]
     \/ svc' = [svc EXCEPT ![s] = "answering"] /\ UNCHANGED <<handled, pub>>
  /\ UNCHANGED <<list, loop, failed, last, event, rivals, pause, stopping>>

Answer(s) ==
  /\ svc[s] = "answering" /\ pub[s] = "waiting"
  /\ svc' = [svc EXCEPT ![s] = "idle"] /\ pub' = [pub EXCEPT ![s] = "failed"] /\ failed' = TRUE
  /\ UNCHANGED <<list, loop, event_, pause, stopping>>

----------------------------------------------------------------------------
(* The loop: pending subscriptions are applied and the next event is fetched.
   A change of the connection leads here too, whether the loop is paused or not. *)
Removed(seq, s) == SelectSeq(seq, LAMBDA t : t # s)
Added(seq, s) == IF Contains(seq, s) THEN seq ELSE Append(seq, s)
Apply(acc, p) ==
  IF p.op = "add" THEN [acc EXCEPT !.subs = Added(@, p.sub)]
  ELSE IF Contains(acc.subs, p.sub)
       THEN [subs |-> Removed(acc.subs, p.sub), closed |-> [acc.closed EXCEPT ![p.sub] = @ + 1]]
       ELSE acc
Applied == FoldLeft(Apply, [subs |-> active, closed |-> closed], pending)

Poll ==
  /\ active' = Applied.subs /\ closed' = Applied.closed /\ pending' = <<>>
  /\ \/ UNCHANGED <<loop, pub, failed, event>>             \* the API fails or has nothing new
     \/ /\ last < MaxEvents /\ stopping > 0 /\ event' = last + 1 /\ loop' = "publish" /\ failed' = FALSE
        /\ pub' = [s \in Subs |-> IF Contains(active', s) THEN "queued" ELSE "none"]
  /\ UNCHANGED <<svc, drains, last, handled, rivals, stopping>>

ConnChanges ==
  /\ loop = "select" /\ conns < MaxConns /\ conns' = conns + 1 /\ woken' = TRUE
  /\ paused' \in BOOLEAN /\ UNCHANGED waiter /\ Poll

Tells == IF waiter = "waiting" THEN "told" ELSE waiter
Polls == ~paused
Tick ==
  /\ loop = "select"
  /\ \/ /\ paused /\ waiter = "waiting" /\ waiter' = Tells /\ woken' = FALSE
        /\ UNCHANGED <<svc, list, loop, pub, failed, event_, paused, conns, stopping>>
     \/ Polls /\ Poll /\ UNCHANGED pause

(* PublishParallel: workers take the subscribers in order until one fails;
   with one subscriber there is no worker and nobody else's failure. *)
InFlight == {s \in Subs : pub[s] \in {"sending", "waiting", "replied"}}
handle(s) ==
  /\ loop = "publish" /\ pub[s] = "queued" /\ ~failed /\ Cardinality(InFlight) < Workers
  /\ \A i, j \in DOMAIN active : (active[j] = s /\ i < j) => pub[active[i]] # "queued"
  /\ pub' = [pub EXCEPT ![s] = "sending"]
  /\ UNCHANGED <<svc, list, loop, failed, event_, pause, stopping>>

Gone == failed \/ stopping = 0          \* the context of the workers is cancelled

(* A call of handle sends, to the service or to the goroutine of cancel, and
   waits for the answer; it leaves when its context is cancelled. *)
Send(s) ==
  /\ pub[s] = "sending"
  /\ \/ svc[s] = "idle" /\ svc' = [svc EXCEPT ![s] = "handling"] /\ pub' = [pub EXCEPT ![s] = "waiting"]
     \/ drains[s] /\ closed[s] = 0 /\ pub' = [pub EXCEPT ![s] = "ok"] /\ UNCHANGED svc
  /\ UNCHANGED <<list, loop, failed, event_, pause, stopping>>

Receive(s) ==
  /\ pub[s] = "replied" /\ pub' = [pub EXCEPT ![s] = "ok"]
  /\ UNCHANGED <<svc, list, loop, failed, event_, pause, stopping>>

Leave(s) ==
  /\ pub[s] \in {"sending", "waiting", "replied"} /\ Gone
  /\ pub' = [pub EXCEPT ![s] = "failed"] /\ failed' = TRUE
  /\ rivals' = IF failed THEN rivals \cup ({s} \cap {t \in Subs : svc[t] \in {"handling", "answering"}}) ELSE rivals
  /\ UNCHANGED <<svc, list, loop, last, event, handled, pause, stopping>>

(* The end of the publishing: the event ID is stored, or the batch comes again;
   an error of the client's own, or of the store, pauses the loop. *)
Stores(p) == \A s \in Subs : p[s] \in {"none", "ok"}

Published ==
  /\ loop = "publish" /\ InFlight = {} /\ (failed \/ \A s \in Subs : pub[s] # "queued")
  /\ loop' = "select" /\ pub' = [s \in Subs |-> "none"]
  /\ \/ Stores(pub) /\ last' = event /\ event' = event /\ waiter' = (IF paused THEN Tells ELSE waiter)
        /\ woken' = (woken /\ ~(paused /\ waiter = "waiting")) /\ UNCHANGED paused
     \/ last' = last /\ event' = last /\ paused' \in {paused, TRUE} /\ UNCHANGED <<waiter, woken>>
  /\ UNCHANGED <<svc, list, failed, handled, rivals, conns, stopping>>

(* Resume, and PauseWithWaiter: the wait before the cache is moved. *)
Resume ==
  /\ paused /\ paused' = FALSE /\ waiter' = "none" /\ woken' = FALSE
  /\ UNCHANGED <<svc, list, loop, pub, failed, event_, conns, stopping>>
PauseWithWaiter ==
  /\ waiter = "none" /\ stopping = Open /\ paused' = TRUE /\ waiter' = "waiting" /\ woken' = FALSE
  /\ UNCHANGED <<svc, list, loop, pub, failed, event_, conns, stopping>>

----------------------------------------------------------------------------
(* CancelAndWait ends the services in the reverse of their order, each after the
   last has ended, and the event loop at the end; Service.Close then cleans up. *)
MutEnded(i) == TRUE
Ended(i) == IF i > Len(Order) THEN TRUE ELSE svc[Order[i]] = "ended"

CancelAndWait ==
  /\ stopping > 0 /\ Ended(stopping) /\ stopping' = stopping - 1
  /\ UNCHANGED <<svc, list, loop, pub, failed, event_, pause>>

EndLoop ==
  /\ loop = "select" /\ stopping = 0 /\ loop' = "ended"
  /\ UNCHANGED <<svc, list, pub, failed, event_, pause, stopping>>

Close ==
  /\ loop = "ended" /\ pending # <<>> /\ pending' = <<>>
  /\ LET subs == {pending[i].sub : i \in DOMAIN pending}
     IN  /\ closed' = [s \in Subs |-> IF s \in subs THEN closed[s] + 1 ELSE closed[s]]
         /\ drains' = [s \in Subs |-> drains[s] \/ s \in subs]
  /\ UNCHANGED <<svc, active, loop, pub, failed, event_, pause, stopping>>

SubStep(s) == Subscribe(s) \/ Unsubscribe(s) \/ Consume(s) \/ Answer(s)
PubStep(s) == handle(s) \/ Send(s) \/ Receive(s) \/ Leave(s)
Next ==
  \/ \E s \in Subs : SubStep(s) \/ PubStep(s)
  \/ Tick \/ ConnChanges \/ Published \/ Resume \/ PauseWithWaiter \/ CancelAndWait \/ EndLoop \/ Close

(* Every goroutine that can go on does; handlers end, and a select that finds
   its context cancelled time and again takes it in the end. *)
Fair ==
  /\ \A s \in Subs : WF_vars(SubStep(s)) /\ SF_vars(Unsubscribe(s)) /\ WF_vars(handle(s)) /\ WF_vars(Send(s)) /\ WF_vars(Receive(s)) /\ WF_vars(Leave(s))
  /\ WF_vars(Published) /\ WF_vars(EndLoop) /\ WF_vars(stopping < Open /\ CancelAndWait) /\ SF_vars(waiter = "waiting" /\ Tick)
Spec == Init /\ [][Next]_vars /\ Fair

----------------------------------------------------------------------------
Stuck(s) == svc[s] = "answering" /\ pub[s] # "waiting"

(* A service whose handler failed is left alone with its error, for ever, only
   if another subscriber had failed on the same event before: the first error
   cancels the calls of the others, and nobody takes theirs. *)
StuckOnlyIf == \A s \in Subs : Stuck(s) => s \in rivals

(* The channel of a subscriber is closed once, and none that is closed is still
   in the list of those that events are sent to. *)
ClosedOnce == \A s \in Subs : closed[s] <= 1 /\ ((closed[s] = 1 /\ loop # "ended") => ~Contains(active, s))

(* An event ID is stored only when every service that had subscribed before its
   event was fetched has handled it or has ended. *)
StoredWasHandled == \A s \in Subs : svc[s] \in {"idle", "handling", "answering"} => (handled[s] >= last \/ Contains(pending, Op("add", s)))

(* Whoever waits for the loop to pause, to move the cache, is told while no
   event is under way, and none is published after that unless the connection
   changes, which makes even a paused loop poll. *)
QuietAfterPause == (waiter = "told" /\ paused /\ ~woken) => loop # "publish"

(* Closing the user ends its services and its loop, unless a service is stuck
   because another failed with it: then the user cannot be closed at all. *)
AllEnded == loop = "ended" /\ \A s \in Subs : svc[s] = "ended"
CloseOver == stopping < Open => (AllEnded \/ \E s \in rivals : Stuck(s))
=============================================================================
