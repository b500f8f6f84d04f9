------------------------- MODULE SmtpAccountsProofs -------------------------
(***************************************************************************)
(* Proofs about SmtpAccounts, for any number of users and sessions, and    *)
(* any limits.                                                             *)
(***************************************************************************)
EXTENDS SmtpAccounts, FiniteSetTheorems, TLAPS

(* The session a service loop is serving waits for that loop. *)
ServedInv ==
    \A u \in Users : \A s \in loop[u].client :
       session[s].pc = "wait" /\ session[s].to = u

(* A report exists only between the loop's reply and handleSMTPErr. *)
ToldInv == \A s \in Sessions : session[s].told => session[s].pc = "result"

(* SessionsServed is not inductive: a reply could go to a session that     *)
(* asked for nothing, and an old report could be taken for a new one.      *)
IInv == SessionsServed /\ ServedInv /\ ToldInv

(* The sessions that ErrorsBounded counts for an account. *)
Calls(u) == {s \in Sessions :
               session[s].pc \in {"send", "wait", "result"} /\ session[s].to = u}

SessionType == [pc : {"new", "auth", "ready", "send", "wait", "result"},
                login : Users, to : Users \cup {NoUser}, asked : SUBSET Users,
                at : 0..MaxTime, told : BOOLEAN, sent : BOOLEAN]

(* Every session has a place and an account. *)
LEMMA SessionsTyped == TypeOK => session \in [Sessions -> SessionType]
BY DEF TypeOK, SessionType

-----------------------------------------------------------------------------

(* The sessions of an account are no more than there are.                  *)
LEMMA CallsBounded ==
    ASSUME NEW u
    PROVE  /\ IsFiniteSet(Calls(u))
           /\ Cardinality(Calls(u)) \in Nat
           /\ Cardinality(Sessions) \in Nat
           /\ Cardinality(Calls(u)) <= Cardinality(Sessions)
<1>1. Calls(u) \subseteq Sessions /\ IsFiniteSet(Sessions)
  BY AccountsAssumption DEF Calls
<1> QED
  BY <1>1, FS_Subset, FS_CardinalityType

(* The same for the next state. *)
LEMMA CallsBoundedNext ==
    ASSUME NEW u
    PROVE  /\ IsFiniteSet(Calls(u)')
           /\ Cardinality(Calls(u)') \in Nat
           /\ Cardinality(Calls(u)') <= Cardinality(Sessions)
<1>1. Calls(u)' \subseteq Sessions /\ IsFiniteSet(Sessions)
  BY AccountsAssumption DEF Calls
<1> QED
  BY <1>1, FS_Subset, FS_CardinalityType

(* Sessions that end their calls leave room: the bound needs a look only   *)
(* where a count or a set of calls grows.                                  *)
LEMMA FewerCalls ==
    ASSUME TypeOK, ErrorsBounded, errors' \in [Users -> [count : Nat, last : 0..MaxTime]],
           \A u \in Users : \/ errors'[u].count = 0
                            \/ errors'[u].count <= errors[u].count /\ Calls(u)' \subseteq Calls(u)
    PROVE  ErrorsBounded'
<1>1. SUFFICES ASSUME NEW u \in Users
               PROVE  errors'[u].count + Cardinality(Calls(u)')
                         < MaxFailedCommands + Cardinality(Sessions)
  BY DEF ErrorsBounded, Calls
<1>2. errors[u].count \in Nat /\ errors'[u].count \in Nat
  BY DEF TypeOK
<1>3. errors[u].count + Cardinality(Calls(u)) < MaxFailedCommands + Cardinality(Sessions)
  BY DEF ErrorsBounded, Calls
<1>4. CASE errors'[u].count = 0
  BY <1>4, CallsBounded, CallsBoundedNext, AccountsAssumption
<1>5. CASE errors'[u].count <= errors[u].count /\ Calls(u)' \subseteq Calls(u)
  <2>1. Cardinality(Calls(u)') <= Cardinality(Calls(u))
    BY <1>5, CallsBounded, FS_Subset
  <2> QED
    BY <1>2, <1>3, <1>5, <2>1, CallsBounded, CallsBoundedNext, AccountsAssumption
<1> QED
  BY <1>4, <1>5

-----------------------------------------------------------------------------

(* The initial state satisfies the invariant. *)
LEMMA InitIInv == Init => IInv
<1> SUFFICES ASSUME Init PROVE IInv
  OBVIOUS
<1> USE DEF Init
<1>1. PICK f \in [Sessions -> Users] : session = [s \in Sessions |-> NewSession(f[s])]
  OBVIOUS
<1>2. TypeOK
  BY <1>1, AccountsAssumption DEF TypeOK, NewSession, SessionAt, NoErrors
<1>3. CallsGoToAccounts /\ MisinformedOnlyAtClose /\ ServedInv /\ ToldInv
  BY <1>1 DEF CallsGoToAccounts, Readers, MisinformedOnlyAtClose, ServedInv, ToldInv, NewSession, SessionAt
<1>4. ErrorsBounded
  <2> SUFFICES ASSUME NEW u \in Users
               PROVE  errors[u].count + Cardinality(Calls(u)) < MaxFailedCommands + Cardinality(Sessions)
    BY DEF ErrorsBounded, Calls
  <2> QED
    BY CallsBounded, AccountsAssumption DEF NoErrors
<1> QED
  BY <1>2, <1>3, <1>4 DEF IInv, SessionsServed

-----------------------------------------------------------------------------
(* A session between two calls. *)
LEMMA SetFacts ==
    ASSUME TypeOK, NEW s \in Sessions, NEW p \in {"new", "ready"}, Set(s, p)
    PROVE  /\ session' \in [Sessions -> SessionType]
           /\ session'[s].pc = p /\ session'[s].told = FALSE
           /\ \A t \in Sessions : t # s => session'[t] = session[t]
<1>1. SessionAt(p, session[s].login) \in SessionType
  BY AccountsAssumption DEF SessionAt, SessionType, TypeOK
<1>2. session' = [session EXCEPT ![s] = SessionAt(p, session[s].login)]
  BY DEF Set, TypeOK
<1> QED
  BY <1>1, <1>2 DEF TypeOK, SessionType, SessionAt

(* The invariant survives a step that ends or keeps a session's calls and  *)
(* leaves the table, the loops and the counters alone.                     *)
LEMMA SetStep ==
    ASSUME IInv, NEW s \in Sessions, NEW p \in {"new", "ready"}, Set(s, p),
           session[s].pc # "wait",
           errors' \in [Users -> [count : Nat, last : 0..MaxTime]],
           UNCHANGED <<now, accounts, loop, user, ctxDone, manager>>
    PROVE  /\ TypeOK' /\ CallsGoToAccounts' /\ MisinformedOnlyAtClose'
           /\ ServedInv' /\ ToldInv'
           /\ \A u \in Users : Calls(u)' \subseteq Calls(u) \ {s}
<1> USE DEF IInv, SessionsServed
<1>1. /\ session' \in [Sessions -> SessionType]
      /\ session'[s].pc = p /\ session'[s].told = FALSE
      /\ \A t \in Sessions : t # s => session'[t] = session[t]
  BY SetFacts
<1>2. TypeOK'
  BY <1>1 DEF TypeOK, SessionType
<1>3. CallsGoToAccounts'
  BY <1>1 DEF CallsGoToAccounts, Readers
<1>4. MisinformedOnlyAtClose' /\ ToldInv'
  BY <1>1 DEF MisinformedOnlyAtClose, ToldInv
<1>5. ServedInv'
  <2> SUFFICES ASSUME NEW u \in Users, NEW t \in loop[u].client
               PROVE  session'[t].pc = "wait" /\ session'[t].to = u
    BY DEF ServedInv
  <2>1. t \in Sessions /\ t # s
    BY DEF TypeOK, ServedInv
  <2> QED
    BY <1>1, <2>1 DEF ServedInv
<1>6. \A u \in Users : Calls(u)' \subseteq Calls(u) \ {s}
  BY <1>1 DEF Calls
<1> QED
  BY <1>2, <1>3, <1>4, <1>5, <1>6

(* CheckAuth, SendMail, Disconnect and the steps of a session in a call.   *)
LEMMA SessionNext ==
    ASSUME IInv, NEW s \in Sessions,
           CheckAuth(s) \/ SendMail(s) \/ Disconnect(s) \/ SessionStep(s)
    PROVE  IInv'
<1> USE DEF IInv, SessionsServed
<1>0. errors \in [Users -> [count : Nat, last : 0..MaxTime]]
  BY DEF TypeOK
<1>1. ASSUME NEW p \in {"new", "ready"}, Set(s, p), session[s].pc # "wait",
             UNCHANGED <<now, accounts, errors, loop, user, ctxDone, manager>>
      PROVE  IInv'
  <2>1. /\ TypeOK' /\ CallsGoToAccounts' /\ MisinformedOnlyAtClose'
        /\ ServedInv' /\ ToldInv'
        /\ \A u \in Users : Calls(u)' \subseteq Calls(u) \ {s}
    BY <1>0, <1>1, SetStep
  <2>2. ErrorsBounded'
    BY <1>0, <1>1, <2>1, FewerCalls DEF TypeOK
  <2> QED
    BY <2>1, <2>2
<1>2. ASSUME NEW v \in accounts, NEW ask \in SUBSET Users,
             session[s].pc \in {"new", "auth"},
             session' = [session EXCEPT ![s].pc = "auth", ![s].to = v, ![s].asked = ask],
             UNCHANGED <<now, accounts, errors, loop, user, ctxDone, manager>>
      PROVE  IInv'
  <2>1. /\ session' \in [Sessions -> SessionType]
        /\ session'[s].pc = "auth" /\ session'[s].to = v
        /\ session'[s].told = session[s].told /\ session'[s].sent = session[s].sent
        /\ \A t \in Sessions : t # s => session'[t] = session[t]
    <3> DEFINE r == [session[s] EXCEPT !.pc = "auth", !.to = v, !.asked = ask]
    <3>1. session \in [Sessions -> SessionType] /\ v \in Users
      BY SessionsTyped DEF TypeOK
    <3>2. r \in SessionType /\ r.pc = "auth" /\ r.to = v /\ r.told = session[s].told /\ r.sent = session[s].sent
      BY <3>1 DEF SessionType
    <3>3. session' = [session EXCEPT ![s] = r]
      BY <1>2, <3>1
    <3> HIDE DEF r
    <3> QED
      BY <3>1, <3>2, <3>3
  <2>2. TypeOK'
    BY <1>2, <2>1 DEF TypeOK, SessionType
  <2>3. CallsGoToAccounts'
    BY <1>2, <2>1 DEF CallsGoToAccounts, Readers
  <2>4. MisinformedOnlyAtClose' /\ ToldInv'
    BY <1>2, <2>1 DEF MisinformedOnlyAtClose, ToldInv
  <2>5. ServedInv'
    <3> SUFFICES ASSUME NEW u \in Users, NEW t \in loop[u].client
                 PROVE  session'[t].pc = "wait" /\ session'[t].to = u
      BY <1>2 DEF ServedInv
    <3>1. t \in Sessions /\ t # s
      BY <1>2 DEF TypeOK, ServedInv
    <3> QED
      BY <2>1, <3>1 DEF ServedInv
  <2>6. ErrorsBounded'
    <3>1. \A u \in Users : Calls(u)' \subseteq Calls(u)
      BY <2>1 DEF Calls
    <3> QED
      BY <1>0, <1>2, <3>1, FewerCalls
  <2> QED
    BY <2>2, <2>3, <2>4, <2>5, <2>6
<1>3. CASE CheckAuth(s)
  <2>1. PICK v \in accounts : session' = [session EXCEPT ![s].pc = "auth", ![s].to = v, ![s].asked = {}]
    BY <1>3 DEF CheckAuth
  <2>2. session[s].pc = "new" /\ UNCHANGED <<now, accounts, errors, loop, user, ctxDone, manager>>
    BY <1>3 DEF CheckAuth
  <2>3. {} \in SUBSET Users
    OBVIOUS
  <2> QED
    BY <1>2, <2>1, <2>2, <2>3
<1>4. CASE CheckAuthReply(s)
  <2> DEFINE rest == accounts \ (session[s].asked \cup {session[s].to})
  <2>1. CASE Set(s, "ready") \/ Set(s, "new")
    BY <1>1, <1>4, <2>1 DEF CheckAuthReply
  <2>2. CASE \E v \in rest : session' = [session EXCEPT ![s].to = v, ![s].asked = @ \cup {session[s].to}]
    <3>1. PICK v \in rest : session' = [session EXCEPT ![s].to = v, ![s].asked = @ \cup {session[s].to}]
      BY <2>2
    <3>2. session[s].pc = "auth" /\ session[s].to \in Users
      BY <1>4 DEF CheckAuthReply, CallsGoToAccounts, Readers, TypeOK
    <3> DEFINE ask == session[s].asked \cup {session[s].to}
    <3>3. ask \in SUBSET Users
      BY <3>2 DEF TypeOK
    <3>4. session' = [session EXCEPT ![s].pc = "auth", ![s].to = v, ![s].asked = ask]
      <4>1. session \in [Sessions -> SessionType]
        BY SessionsTyped
      <4>2. session[s] = [session[s] EXCEPT !.pc = "auth"]
        BY <3>2, <4>1 DEF SessionType
      <4>3. [session[s] EXCEPT !.to = v, !.asked = ask] = [session[s] EXCEPT !.pc = "auth", !.to = v, !.asked = ask]
        BY <4>2, <4>1 DEF SessionType
      <4>4. session' = [session EXCEPT ![s] = [session[s] EXCEPT !.to = v, !.asked = ask]]
        BY <3>1, <4>1
      <4>5. [session EXCEPT ![s].pc = "auth", ![s].to = v, ![s].asked = ask]
              = [session EXCEPT ![s] = [session[s] EXCEPT !.pc = "auth", !.to = v, !.asked = ask]]
        BY <4>1
      <4> QED
        BY <4>3, <4>4, <4>5
    <3> HIDE DEF ask
    <3> QED
      BY <1>2, <1>4, <3>2, <3>3, <3>4 DEF CheckAuthReply
  <2> QED
    BY <1>4, <2>1, <2>2 DEF CheckAuthReply
<1>5. CASE Disconnect(s)
  BY <1>1, <1>5 DEF Disconnect
<1>6. CASE SendOnClosed(s)
  BY <1>1, <1>6 DEF SendOnClosed
<1>7. CASE SendMail(s)
  <2> DEFINE u == session[s].login
  <2>0. session[s].pc = "ready" /\ u \in accounts /\ u \in Users /\ canMakeRequest(u)
    BY <1>7 DEF SendMail, TypeOK
  <2>1. /\ session' \in [Sessions -> SessionType]
        /\ session'[s].pc = "send" /\ session'[s].to = u
        /\ session'[s].told = session[s].told /\ session'[s].sent = session[s].sent
        /\ \A t \in Sessions : t # s => session'[t] = session[t]
    <3> DEFINE r == [session[s] EXCEPT !.pc = "send", !.to = u, !.at = now]
    <3>1. session \in [Sessions -> SessionType] /\ now \in 0..MaxTime
      BY SessionsTyped DEF TypeOK
    <3>2. r \in SessionType /\ r.pc = "send" /\ r.to = u /\ r.told = session[s].told /\ r.sent = session[s].sent
      BY <2>0, <3>1 DEF SessionType
    <3>3. session' = [session EXCEPT ![s] = r]
      BY <1>7, <3>1 DEF SendMail
    <3> HIDE DEF r
    <3> QED
      BY <3>1, <3>2, <3>3
  <2>2. /\ errors' \in [Users -> [count : Nat, last : 0..MaxTime]]
        /\ errors'[u].count = IF errors[u].count >= MaxFailedCommands THEN 0 ELSE errors[u].count
        /\ \A v \in Users : v # u => errors'[v] = errors[v]
    <3> DEFINE n == IF errors[u].count >= MaxFailedCommands THEN 0 ELSE errors[u].count
               e == [errors[u] EXCEPT !.count = n]
    <3>1. errors \in [Users -> [count : Nat, last : 0..MaxTime]]
      BY DEF TypeOK
    <3>2. e \in [count : Nat, last : 0..MaxTime] /\ e.count = n
      BY <2>0, <3>1
    <3>3. errors' = [errors EXCEPT ![u] = e]
      BY <1>7 DEF SendMail
    <3> HIDE DEF e
    <3> QED
      BY <2>0, <3>1, <3>2, <3>3
  <2>3. TypeOK'
    BY <1>7, <2>1, <2>2 DEF SendMail, TypeOK, SessionType
  <2>4. CallsGoToAccounts'
    BY <1>7, <2>0, <2>1 DEF SendMail, CallsGoToAccounts, Readers
  <2>5. MisinformedOnlyAtClose' /\ ToldInv'
    BY <1>7, <2>0, <2>1 DEF SendMail, MisinformedOnlyAtClose, ToldInv
  <2>6. ServedInv'
    <3> SUFFICES ASSUME NEW v \in Users, NEW t \in loop[v].client
                 PROVE  session'[t].pc = "wait" /\ session'[t].to = v
      BY <1>7 DEF ServedInv, SendMail
    <3>1. t \in Sessions /\ t # s
      BY <2>0 DEF TypeOK, ServedInv
    <3> QED
      BY <2>1, <3>1 DEF ServedInv
  <2>7. ErrorsBounded'
    <3> SUFFICES ASSUME NEW v \in Users
                 PROVE  errors'[v].count + Cardinality(Calls(v)')
                           < MaxFailedCommands + Cardinality(Sessions)
      BY DEF ErrorsBounded, Calls
    <3>1. CASE v = u
      <4>1. errors'[v].count < MaxFailedCommands /\ errors'[v].count \in Nat
        BY <2>2, <3>1, AccountsAssumption DEF TypeOK
      <4>2. Cardinality(Calls(v)') \in Nat /\ Cardinality(Sessions) \in Nat
            /\ Cardinality(Calls(v)') <= Cardinality(Sessions)
        BY CallsBounded, CallsBoundedNext
      <4> QED
        BY <4>1, <4>2, AccountsAssumption
    <3>2. CASE v # u
      <4>1. Calls(v)' = Calls(v) /\ errors'[v] = errors[v]
        BY <2>0, <2>1, <2>2, <3>2 DEF Calls
      <4> QED
        BY <4>1 DEF ErrorsBounded, Calls
    <3> QED
      BY <3>1, <3>2
  <2> QED
    BY <2>3, <2>4, <2>5, <2>6, <2>7
<1>8. CASE ReceiveSendMail(s)
  <2> DEFINE u == session[s].to
  <2>0. session[s].pc = "send" /\ u \in accounts /\ u \in Users
    BY <1>8 DEF ReceiveSendMail, CallsGoToAccounts, Readers, TypeOK
  <2>1. /\ session' \in [Sessions -> SessionType]
        /\ session'[s].pc = "wait" /\ session'[s].to = u
        /\ session'[s].told = session[s].told /\ session'[s].sent = session[s].sent
        /\ \A t \in Sessions : t # s => session'[t] = session[t]
    <3> DEFINE r == [session[s] EXCEPT !.pc = "wait"]
    <3>1. session \in [Sessions -> SessionType]
      BY SessionsTyped
    <3>2. r \in SessionType /\ r.pc = "wait" /\ r.to = u /\ r.told = session[s].told /\ r.sent = session[s].sent
      BY <3>1 DEF SessionType
    <3>3. session' = [session EXCEPT ![s] = r]
      BY <1>8, <3>1 DEF ReceiveSendMail
    <3> HIDE DEF r
    <3> QED
      BY <3>1, <3>2, <3>3
  <2>2. loop' = [loop EXCEPT ![u] = [pc |-> "serve", client |-> {s}]]
    BY <1>8 DEF ReceiveSendMail
  <2>3. TypeOK'
    <3>1. loop' \in [Users -> [pc : {"off", "select", "serve", "logout", "closed"},
                               client : SUBSET Sessions]]
      BY <2>0, <2>2 DEF TypeOK
    <3> QED
      BY <1>8, <2>1, <3>1 DEF ReceiveSendMail, TypeOK, SessionType
  <2>4. CallsGoToAccounts'
    BY <1>8, <2>0, <2>1 DEF ReceiveSendMail, CallsGoToAccounts, Readers
  <2>5. MisinformedOnlyAtClose' /\ ToldInv'
    BY <1>8, <2>0, <2>1 DEF ReceiveSendMail, MisinformedOnlyAtClose, ToldInv
  <2>6. ServedInv'
    <3> SUFFICES ASSUME NEW v \in Users, NEW t \in loop'[v].client
                 PROVE  session'[t].pc = "wait" /\ session'[t].to = v
      BY DEF ServedInv
    <3>1. CASE v = u
      BY <2>0, <2>1, <2>2, <3>1 DEF TypeOK
    <3>2. CASE v # u
      <4>1. t \in loop[v].client
        BY <2>0, <2>2, <3>2 DEF TypeOK
      <4>2. t \in Sessions /\ t # s
        BY <2>0, <4>1 DEF TypeOK, ServedInv
      <4> QED
        BY <2>1, <4>1, <4>2 DEF ServedInv
    <3> QED
      BY <3>1, <3>2
  <2>7. ErrorsBounded'
    <3>1. \A v \in Users : Calls(v)' \subseteq Calls(v)
      BY <2>0, <2>1 DEF Calls
    <3>2. errors' = errors
      BY <1>8 DEF ReceiveSendMail
    <3> QED
      BY <1>0, <3>1, <3>2, FewerCalls
  <2> QED
    BY <2>3, <2>4, <2>5, <2>6, <2>7
<1>9. CASE handleSMTPErr(s)
  <2> DEFINE u == session[s].to
             at == session[s].at
  <2>0. session[s].pc = "result" /\ u \in Users /\ at \in 0..MaxTime
    BY <1>9 DEF handleSMTPErr, CallsGoToAccounts, Readers, TypeOK
  <2>1. /\ errors' \in [Users -> [count : Nat, last : 0..MaxTime]]
        /\ errors'[u].count \in {0, errors[u].count + 1}
        /\ \A v \in Users : v # u => errors'[v] = errors[v]
    BY <1>9, <2>0 DEF handleSMTPErr, TypeOK
  <2>2. /\ TypeOK' /\ CallsGoToAccounts' /\ MisinformedOnlyAtClose'
        /\ ServedInv' /\ ToldInv'
        /\ \A v \in Users : Calls(v)' \subseteq Calls(v) \ {s}
    BY <1>9, <2>0, <2>1, SetStep DEF handleSMTPErr
  <2>3. ErrorsBounded'
    <3> SUFFICES ASSUME NEW v \in Users
                 PROVE  errors'[v].count + Cardinality(Calls(v)')
                           < MaxFailedCommands + Cardinality(Sessions)
      BY DEF ErrorsBounded, Calls
    <3>0. /\ errors[v].count \in Nat /\ errors'[v].count \in Nat
          /\ errors[v].count + Cardinality(Calls(v)) < MaxFailedCommands + Cardinality(Sessions)
      BY <2>1 DEF TypeOK, ErrorsBounded, Calls
    <3>1. CASE v = u
      <4>1. s \in Calls(v)
        BY <2>0, <3>1 DEF Calls
      <4>2. Cardinality(Calls(v) \ {s}) = Cardinality(Calls(v)) - 1 /\ IsFiniteSet(Calls(v) \ {s})
        BY <4>1, CallsBounded, FS_RemoveElement
      <4>3. Cardinality(Calls(v)') <= Cardinality(Calls(v)) - 1
        BY <2>2, <4>2, FS_Subset
      <4>4. errors'[v].count <= errors[v].count + 1
        BY <2>1, <3>0, <3>1
      <4> HIDE DEF u
      <4> QED
        BY <3>0, <4>3, <4>4, CallsBounded, CallsBoundedNext, AccountsAssumption
    <3>2. CASE v # u
      <4>1. Cardinality(Calls(v)') <= Cardinality(Calls(v))
        BY <2>2, CallsBounded, FS_Subset
      <4>2. errors'[v].count = errors[v].count
        BY <2>1, <3>2
      <4> HIDE DEF u
      <4> QED
        BY <3>0, <4>1, <4>2, CallsBounded, CallsBoundedNext, AccountsAssumption
    <3> QED
      BY <3>1, <3>2
  <2> QED
    BY <2>2, <2>3
<1> QED
  BY <1>3, <1>4, <1>5, <1>6, <1>7, <1>8, <1>9 DEF SessionStep

(* A loop replies to the session it serves, and to no other. *)
LEMMA ReplyNext ==
    ASSUME IInv, NEW u \in Users, ReplySendMail(u)
    PROVE  IInv'
<1> USE DEF IInv, SessionsServed
<1>1. PICK s \in loop[u].client, sent \in BOOLEAN, dropped \in BOOLEAN :
         /\ dropped => ctxDone[u]
         /\ session' = [session EXCEPT ![s].pc = "result", ![s].sent = sent,
                                       ![s].told = sent \/ dropped]
  BY DEF ReplySendMail
<1>2. s \in Sessions /\ session[s].pc = "wait" /\ session[s].to = u
  BY DEF TypeOK, ServedInv
<1>3. /\ session' \in [Sessions -> SessionType]
      /\ session'[s].pc = "result" /\ session'[s].to = u
      /\ session'[s].told = (sent \/ dropped) /\ session'[s].sent = sent
      /\ \A t \in Sessions : t # s => session'[t] = session[t]
  <2> DEFINE r == [session[s] EXCEPT !.pc = "result", !.sent = sent, !.told = sent \/ dropped]
  <2>1. session \in [Sessions -> SessionType] /\ (sent \/ dropped) \in BOOLEAN
    BY SessionsTyped
  <2>2. /\ r \in SessionType /\ r.pc = "result" /\ r.to = u
        /\ r.told = (sent \/ dropped) /\ r.sent = sent
    BY <1>2, <2>1 DEF SessionType
  <2>3. session' = [session EXCEPT ![s] = r]
    BY <1>1, <1>2, <2>1
  <2> HIDE DEF r
  <2> QED
    BY <1>2, <2>1, <2>2, <2>3
<1>4. /\ loop' = [loop EXCEPT ![u] = [pc |-> "select", client |-> {}]]
      /\ UNCHANGED <<now, accounts, errors, user, ctxDone, manager>>
  BY DEF ReplySendMail
<1>5. TypeOK'
  <2>1. loop' \in [Users -> [pc : {"off", "select", "serve", "logout", "closed"},
                             client : SUBSET Sessions]]
    BY <1>4 DEF TypeOK
  <2> QED
    BY <1>3, <1>4, <2>1 DEF TypeOK, SessionType
<1>6. CallsGoToAccounts'
  BY <1>2, <1>3, <1>4 DEF CallsGoToAccounts, Readers
<1>7. MisinformedOnlyAtClose' /\ ToldInv'
  BY <1>1, <1>2, <1>3, <1>4 DEF MisinformedOnlyAtClose, ToldInv
<1>8. ServedInv'
  <2> SUFFICES ASSUME NEW v \in Users, NEW t \in loop'[v].client
               PROVE  session'[t].pc = "wait" /\ session'[t].to = v
    BY DEF ServedInv
  <2>1. v # u /\ t \in loop[v].client
    BY <1>4 DEF TypeOK
  <2>2. t \in Sessions /\ t # s
    BY <1>2, <2>1 DEF TypeOK, ServedInv
  <2> QED
    BY <1>3, <2>1, <2>2 DEF ServedInv
<1>9. ErrorsBounded'
  <2>1. \A v \in Users : Calls(v)' \subseteq Calls(v)
    BY <1>2, <1>3 DEF Calls
  <2>2. errors' = errors /\ errors \in [Users -> [count : Nat, last : 0..MaxTime]]
    BY <1>4 DEF TypeOK
  <2> QED
    BY <2>1, <2>2, FewerCalls
<1> QED
  BY <1>5, <1>6, <1>7, <1>8, <1>9

(* What is left of the invariant when a step touches no session: an account *)
(* leaves the table only if nobody calls, a cancelled service stays so, and *)
(* the error counters do not grow.                                          *)
LEMMA TableStep ==
    ASSUME IInv, TypeOK', session' = session,
           \A u \in Users : loop'[u].client = loop[u].client,
           accounts \subseteq accounts' \/ Readers = {},
           \A u \in Users : ctxDone[u] => ctxDone'[u],
           \A u \in Users : errors'[u].count \in {0, errors[u].count}
    PROVE  IInv'
<1> USE DEF IInv, SessionsServed
<1>1. CallsGoToAccounts'
  BY DEF CallsGoToAccounts, Readers
<1>2. MisinformedOnlyAtClose' /\ ToldInv'
  <2>1. \A s \in Sessions : session[s].told => session[s].to \in Users
    BY DEF ToldInv, CallsGoToAccounts, Readers, TypeOK
  <2> QED
    BY <2>1 DEF MisinformedOnlyAtClose, ToldInv
<1>3. ServedInv'
  BY DEF ServedInv
<1>4. ErrorsBounded'
  <2>1. errors' \in [Users -> [count : Nat, last : 0..MaxTime]]
    BY DEF TypeOK
  <2>2. \A u \in Users : errors[u].count \in Nat
    BY DEF TypeOK
  <2>3. \A u \in Users : Calls(u)' = Calls(u)
    BY DEF Calls
  <2> QED
    BY <2>1, <2>2, <2>3, FewerCalls
<1> QED
  BY <1>1, <1>2, <1>3, <1>4

(* Logins, logouts and the closing of users. *)
LEMMA TableNext ==
    ASSUME IInv, NEW u \in Users,
           \/ AddSMTPAccount(u) \/ AddAccount(u) \/ Logout(u) \/ OnLogout(u)
           \/ RemoveSMTPAccount(u) \/ RemoveAccount(u) \/ Close(u) \/ ExitLoop(u)
    PROVE  IInv'
<1>0. TypeOK
  BY DEF IInv, SessionsServed
<1>1. CASE AddSMTPAccount(u)
  <2>1. TypeOK'
    BY <1>0, <1>1 DEF AddSMTPAccount, TypeOK
  <2> QED
    BY <1>1, <2>1, TableStep DEF AddSMTPAccount
<1>2. CASE AddAccount(u)
  <2>1. /\ errors' \in [Users -> [count : Nat, last : 0..MaxTime]]
        /\ \A v \in Users : errors'[v].count \in {0, errors[v].count}
    BY <1>0, <1>2, AccountsAssumption DEF AddAccount, TypeOK, NoErrors
  <2>2. /\ loop' \in [Users -> [pc : {"off", "select", "serve", "logout", "closed"},
                                client : SUBSET Sessions]]
        /\ \A v \in Users : loop'[v].client = loop[v].client
    BY <1>0, <1>2, SMTT(20) DEF AddAccount, TypeOK
  <2>3. TypeOK'
    BY <1>0, <1>2, <2>1, <2>2 DEF AddAccount, TypeOK
  <2> QED
    BY <1>2, <2>1, <2>2, <2>3, TableStep DEF AddAccount
<1>3. CASE Logout(u)
  <2>1. TypeOK'
    BY <1>0, <1>3 DEF Logout, TypeOK
  <2> QED
    BY <1>3, <2>1, TableStep DEF Logout
<1>4. CASE OnLogout(u)
  <2>1. TypeOK' /\ \A v \in Users : loop'[v].client = loop[v].client
    BY <1>0, <1>4 DEF OnLogout, TypeOK
  <2> QED
    BY <1>4, <2>1, TableStep DEF OnLogout
<1>5. CASE RemoveSMTPAccount(u)
  <2>1. TypeOK'
    BY <1>0, <1>5 DEF RemoveSMTPAccount, TypeOK
  <2> QED
    BY <1>5, <2>1, TableStep DEF RemoveSMTPAccount
<1>6. CASE RemoveAccount(u)
  <2>1. TypeOK' /\ \A v \in Users : loop'[v].client = loop[v].client
    BY <1>0, <1>6 DEF RemoveAccount, TypeOK
  <2>2. \A v \in Users : ctxDone[v] => ctxDone'[v]
    BY <1>0, <1>6 DEF RemoveAccount, TypeOK
  <2> QED
    BY <1>6, <2>1, <2>2, TableStep DEF RemoveAccount
<1>7. CASE Close(u)
  <2>1. TypeOK' /\ \A v \in Users : ctxDone[v] => ctxDone'[v]
    BY <1>0, <1>7 DEF Close, TypeOK
  <2> QED
    BY <1>7, <2>1, TableStep DEF Close
<1>8. CASE ExitLoop(u)
  <2>1. TypeOK' /\ \A v \in Users : loop'[v].client = loop[v].client
    BY <1>0, <1>8 DEF ExitLoop, TypeOK
  <2> QED
    BY <1>8, <2>1, TableStep DEF ExitLoop
<1> QED
  BY <1>1, <1>2, <1>3, <1>4, <1>5, <1>6, <1>7, <1>8

(* Every step of sessions, loops and manager preserves the invariant. *)
LEMMA StepIInv == IInv /\ [Next]_vars => IInv'
<1> SUFFICES ASSUME IInv, [Next]_vars PROVE IInv'
  OBVIOUS
<1>1. CASE \E s \in Sessions : CheckAuth(s) \/ SendMail(s) \/ Disconnect(s) \/ SessionStep(s)
  BY <1>1, SessionNext
<1>2. CASE \E u \in Users : \/ AddSMTPAccount(u) \/ Logout(u) \/ Close(u)
                            \/ LoopStep(u) \/ ManagerStep(u)
  BY <1>2, ReplyNext, TableNext DEF LoopStep, LogoutStep, ManagerStep
<1>3. CASE Tick
  <2>1. TypeOK'
    BY <1>3, AccountsAssumption DEF IInv, SessionsServed, Tick, TypeOK
  <2> QED
    BY <1>3, <2>1, TableStep DEF Tick
<1>4. CASE UNCHANGED vars
  <2>1. TypeOK'
    BY <1>4 DEF IInv, SessionsServed, vars, TypeOK
  <2> QED
    BY <1>4, <2>1, TableStep DEF vars
<1> QED
  BY <1>1, <1>2, <1>3, <1>4 DEF Next

(* However many sessions use however many accounts while users log in, log  *)
(* out and are closed: a call goes to an account of the table, a mail       *)
(* reported as sent was sent unless the service was being cancelled, and    *)
(* the error counter of an account passes its limit by at most one request  *)
(* per session (smtp/accounts.go, smtp/service.go).                         *)
THEOREM SessionsAreServed == Spec => []SessionsServed
<1>1. Spec => []IInv
  BY InitIInv, StepIInv, PTL DEF Spec
<1>2. IInv => SessionsServed
  BY DEF IInv
<1> QED
  BY <1>1, <1>2, PTL
=============================================================================
