----------------------------- MODULE MCMessages -----------------------------
(* One message and two addresses, of which the second is external.  The    *)
(* message is a draft in the inbox or the trash of the second address, or  *)
(* does not exist yet.  The flag concerns commands, and the sync and the   *)
(* address mode the handler of events, so they are not combined; contents  *)
(* that cannot be built are tried in the split mode, or in the combined    *)
(* mode during a sync, and the trash in the combined mode.                 *)
EXTENDS Messages

CONSTANTS m1, a1, a2, L

Draft(place) == [labels |-> {place, "AllMail", "AllDrafts"}, seen |-> FALSE,
                 rewritable |-> TRUE, addr |-> a2, body |-> 0]

AllSetups ==
    {s \in [mode : {"combined", "split"}, noUnlabel : BOOLEAN, syncing : BOOLEAN,
            broken : {{}, {<<m1, 0>>}, {<<m1, 1>>}}, id : {m1, None},
            meta : {Draft("Inbox"), Draft("Trash")}] :
        /\ s.noUnlabel => ~s.syncing /\ s.mode = "combined" /\ s.broken = {}
        /\ s.broken # {} => (s.mode = "combined") = s.syncing
        /\ s.syncing => (s.mode = "split") = (s.broken = {})
        /\ s.id = None => s.meta = Draft("Inbox") /\ s.broken # {<<m1, 1>>}
        /\ s.id = m1 => s.broken # {<<m1, 0>>}
        /\ s.meta = Draft("Trash") => s.broken = {} /\ ~s.syncing
                                       /\ s.mode = "combined"
        /\ s.id = None /\ s.mode = "combined" => s.broken = {} /\ ~s.syncing}
=============================================================================
