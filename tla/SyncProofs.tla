----------------------------- MODULE SyncProofs -----------------------------
(***************************************************************************)
(* Proofs about SyncPipeline.  First that the waiter of a job counts its   *)
(* tasks: the inductive invariant says what each stage holds in each of    *)
(* its states, and that a handler which does not wait has nothing in the   *)
(* pipeline.  Then that what a sync skips was dealt with: the invariant    *)
(* says that the batches of a job, from the sync state through the stages  *)
(* to the metadata goroutine, follow on each other without a gap, as long  *)
(* as the job is not cancelled.                                            *)
(***************************************************************************)
EXTENDS SyncPipeline, FiniteSetTheorems, SequenceTheorems, TLAPS

(* Where the pipeline holds something: a stage has batches unless it is    *)
(* idle, and only the build stage has more than one.                       *)
MetaOf(m, u) ==
    /\ Len(m.reqs) = IF m.pc = "produce" THEN 1 ELSE 0
    /\ m.pc = "produce" => Head(m.reqs).user = u
    /\ m.pc # "none" => m.next >= 1
StageShape(d, b, a) ==
    /\ Len(d.reqs) = IF d.pc = "idle" THEN 0 ELSE 1
    /\ Len(a.reqs) = IF a.pc = "idle" THEN 0 ELSE 1
    /\ b.pc = "idle" <=> b.reqs = <<>>
    /\ b.pc \in {"divide", "fail"} => Len(b.reqs) = 1
ShapeInv == (\A u \in Users : MetaOf(meta[u], u)) /\ StageShape(download, build, apply)

(* What u's job has in the pipeline: its metadata goroutine and batches.   *)
Running(u) == IF meta[u].pc # "none" THEN 1 ELSE 0
Batches(u) == Len(meta[u].reqs)
Load(u) ==
    Running(u) + Batches(u)
    + Held(download, u) + Held(build, u) + Held(apply, u)

(* The waiter counts that, and the job on its way to the pipeline; a       *)
(* handler that does not wait for its job has nothing in the pipeline.     *)
Waiting == {"wait", "blocked", "drain"}
Counted(u) ==
    /\ waiter[u].total = Load(u) + (IF handler[u] = "sync" THEN 1 ELSE 0)
    /\ handler[u] \notin Waiting => Load(u) = 0

HandlerPcs == {"idle", "check", "labels", "count", "sync", "wait",
               "blocked", "drain", "joined", "sleep", "finished"}
MetaType == [pc : {"none", "check", "next", "produce", "end", "fail"}, next : Nat, reqs : Seq(Request)]
StatusType == [hasLabels : BOOLEAN, hasCount : BOOLEAN, hasMessages : BOOLEAN,
               last : 0..NumMessages, num : Nat, failed : SUBSET Messages]
DownloadPcs == {"idle", "work", "produce", "fail"}
BuildPcs    == {"idle", "divide", "chunk", "produce", "fail"}
ApplyPcs    == {"idle", "request", "reply", "updates", "finish", "fail"}

(* A step that is about another user leaves v's part of the state alone.   *)
SameHeld(old, new, v) == new = old \/ (Held(old, v) = 0 /\ Held(new, v) = 0)
SameFor(v) ==
    /\ handler'[v] = handler[v] /\ ctxDone'[v] = ctxDone[v] /\ jobDone'[v] = jobDone[v]
    /\ waiter'[v] = waiter[v] /\ meta'[v] = meta[v] /\ imap'[v] = imap[v] /\ status'[v] = status[v]
    /\ gone'[v] = gone[v] /\ published'[v] = published[v] /\ applied'[v] = applied[v]
    /\ SameHeld(download, download', v) /\ SameHeld(build, build', v) /\ SameHeld(apply, apply', v)
StepFor(u) == TypeOK' /\ ShapeInv' /\ Counted(u)' /\ \A v \in Users \ {u} : SameFor(v)

CountInv == TypeOK /\ ShapeInv /\ \A u \in Users : Counted(u)

-----------------------------------------------------------------------------
(* Batches and stages. *)

(* The number of messages of a batch that has any. *)
LEMMA CountOf ==
    ASSUME NEW S \in SUBSET Messages, S # {}
    PROVE  Cardinality(S) \in Messages
<1>1. IsFiniteSet(Messages) /\ Cardinality(Messages) = NumMessages
  BY FS_Interval, PipelineAssumption DEF Messages
<1>2. IsFiniteSet(S) /\ Cardinality(S) <= NumMessages
  BY <1>1, FS_Subset
<1>3. Cardinality(S) \in Nat /\ Cardinality(S) # 0
  BY <1>2, FS_CardinalityType, FS_EmptySet
<1> QED  BY <1>2, <1>3, PipelineAssumption DEF Messages

(* A sequence of one batch. *)
LEMMA OneRequest ==
    ASSUME NEW r \in Request
    PROVE  /\ <<r>> \in Seq(Request) /\ Len(<<r>>) = 1 /\ Head(<<r>>) = r
           /\ <<r>> # <<>> /\ <<r>>[1] = r /\ DOMAIN <<r>> = {1}
  OBVIOUS

(* The fields of a batch, and a batch with other messages. *)
LEMMA RequestFields ==
    ASSUME NEW r \in Request
    PROVE  /\ r.user \in Users /\ r.last \in Messages /\ r.count \in Messages
           /\ r.msgs \in SUBSET Messages
           /\ \A S \in SUBSET Messages : /\ [r EXCEPT !.msgs = S] \in Request
                                         /\ [r EXCEPT !.msgs = S].user = r.user
  BY DEF Request

(* What is in a stage: batches, all of its owner. *)
LEMMA StageFields ==
    ASSUME NEW P, NEW s \in Stage(P)
    PROVE  /\ s.pc \in P /\ s.reqs \in Seq(Request) /\ Len(s.reqs) \in Nat
           /\ s.reqs # <<>> => /\ Head(s.reqs) \in Request /\ Owner(s) \in Users
                               /\ Len(s.reqs) >= 1
           /\ \A i \in DOMAIN s.reqs : s.reqs[i] \in Request /\ s.reqs[i].user = Owner(s)
           /\ s = [pc |-> s.pc, reqs |-> s.reqs]
<1>1. s \in [pc : P, reqs : Seq(Request)] /\ \A i \in DOMAIN s.reqs : s.reqs[i].user = Owner(s)
  BY DEF Stage
<1>2. s.reqs # <<>> => Head(s.reqs) \in Request /\ Len(s.reqs) >= 1
  BY <1>1
<1>3. s.reqs # <<>> => Owner(s) \in Users
  BY <1>2, RequestFields DEF Owner
<1> QED  BY <1>1, <1>2, <1>3

(* An idle stage holds nothing for anyone. *)
LEMMA IdleStage ==
    ASSUME NEW P, "idle" \in P
    PROVE  /\ Idle \in Stage(P) /\ Idle.pc = "idle" /\ Idle.reqs = <<>> /\ Len(Idle.reqs) = 0
           /\ \A u : Held(Idle, u) = 0
  BY DEF Idle, Stage, Held

(* A stage that takes one batch holds it for the batch's user. *)
LEMMA OneStage ==
    ASSUME NEW P, NEW p \in P, NEW r \in Request, NEW s, s = [pc |-> p, reqs |-> <<r>>]
    PROVE  /\ s \in Stage(P) /\ s.pc = p /\ s.reqs = <<r>> /\ Len(s.reqs) = 1
           /\ Head(s.reqs) = r /\ s.reqs[1] = r /\ Owner(s) = r.user /\ s.reqs # <<>>
           /\ \A u : Held(s, u) = IF r.user = u THEN 1 ELSE 0
<1>1. s \in [pc : P, reqs : Seq(Request)] /\ s.pc = p /\ s.reqs = <<r>> /\ DOMAIN s.reqs = {1}
      /\ s.reqs[1] = r /\ Head(s.reqs) = r /\ Len(s.reqs) = 1 /\ s.reqs # <<>>
  BY OneRequest
<1>2. Owner(s) = r.user
  BY <1>1 DEF Owner
<1>3. s \in Stage(P)
  BY <1>1, <1>2 DEF Stage
<1>4. \A u : Held(s, u) = IF r.user = u THEN 1 ELSE 0
  BY <1>1, <1>2 DEF Held
<1> QED  BY <1>1, <1>2, <1>3, <1>4

(* A stage that moves on keeps its batches. *)
LEMMA PcStage ==
    ASSUME NEW P, NEW s \in Stage(P), NEW q \in P, NEW t, t = [s EXCEPT !.pc = q]
    PROVE  /\ t \in Stage(P) /\ t.pc = q /\ t.reqs = s.reqs /\ Owner(t) = Owner(s)
           /\ \A u : Held(t, u) = Held(s, u)
<1>1. s \in [pc : P, reqs : Seq(Request)] /\ \A i \in DOMAIN s.reqs : s.reqs[i].user = Owner(s)
  BY DEF Stage
<1>2. t \in [pc : P, reqs : Seq(Request)] /\ t.pc = q /\ t.reqs = s.reqs
  BY <1>1
<1>3. Owner(t) = Owner(s)
  BY <1>2 DEF Owner
<1>4. t \in Stage(P)
  BY <1>1, <1>2, <1>3 DEF Stage
<1>5. \A u : Held(t, u) = Held(s, u)
  BY <1>2, <1>3 DEF Held
<1> QED  BY <1>2, <1>3, <1>4, <1>5

(* The build stage after it has handed over the first of several chunks. *)
LEMMA TailStage ==
    ASSUME NEW P, NEW s \in Stage(P), NEW q \in P, s.reqs # <<>>, Len(s.reqs) # 1,
           NEW t, t = [pc |-> q, reqs |-> Tail(s.reqs)]
    PROVE  /\ t \in Stage(P) /\ t.pc = q /\ t.reqs = Tail(s.reqs) /\ t.reqs # <<>>
           /\ Owner(t) = Owner(s) /\ Len(t.reqs) = Len(s.reqs) - 1
           /\ \A i \in DOMAIN t.reqs : i + 1 \in DOMAIN s.reqs /\ t.reqs[i] = s.reqs[i + 1]
<1>1. s \in [pc : P, reqs : Seq(Request)] /\ \A i \in DOMAIN s.reqs : s.reqs[i].user = Owner(s)
  BY DEF Stage
<1>2. t \in [pc : P, reqs : Seq(Request)] /\ t.pc = q /\ t.reqs = Tail(s.reqs)
  BY <1>1
<1>3. /\ Len(t.reqs) = Len(s.reqs) - 1 /\ Len(t.reqs) >= 1 /\ t.reqs # <<>>
      /\ \A i \in DOMAIN t.reqs : i + 1 \in DOMAIN s.reqs /\ t.reqs[i] = s.reqs[i + 1]
      /\ 1 \in DOMAIN t.reqs /\ Head(t.reqs) = t.reqs[1]
  <2> DEFINE q1 == s.reqs
  <2>1. q1 \in Seq(Request) /\ q1 # <<>> /\ Len(q1) # 1
    BY <1>1
  <2> HIDE DEF q1
  <2>a. /\ Tail(q1) \in Seq(Request) /\ Len(Tail(q1)) = Len(q1) - 1
        /\ \A i \in 1..Len(Tail(q1)) : Tail(q1)[i] = q1[i + 1]
    BY <2>1, HeadTailProperties
  <2>b. Len(q1) \in Nat /\ Len(q1) # 0
    BY <2>1, EmptySeq, LenProperties
  <2>c. Tail(q1) # <<>>
    <3>1. Len(Tail(q1)) # 0
      BY <2>a, <2>b, <2>1
    <3>2. Len(<< >>) = 0
      BY EmptySeq
    <3> QED  BY <3>1, <3>2, Zenon
  <2>2. /\ Len(Tail(q1)) = Len(q1) - 1 /\ Len(q1) >= 2 /\ Tail(q1) # <<>> /\ Tail(q1) \in Seq(Request)
        /\ \A i \in 1..Len(Tail(q1)) : i + 1 \in 1..Len(q1) /\ Tail(q1)[i] = q1[i + 1]
    BY <2>1, <2>a, <2>b, <2>c
  <2>3. DOMAIN q1 = 1..Len(q1) /\ DOMAIN Tail(q1) = 1..Len(Tail(q1)) /\ Head(Tail(q1)) = Tail(q1)[1]
    BY <2>1, <2>2
  <2>4. t.reqs = Tail(q1)
    BY <1>2 DEF q1
  <2> QED  BY <2>1, <2>2, <2>3, <2>4 DEF q1
<1>4. Owner(t) = Owner(s)
  BY <1>1, <1>3 DEF Owner
<1>5. t \in Stage(P)
  BY <1>1, <1>2, <1>3, <1>4 DEF Stage
<1> QED  BY <1>2, <1>3, <1>4, <1>5

(* The build stage after it has built the first chunk. *)
LEMMA FirstStage ==
    ASSUME NEW P, NEW s \in Stage(P), NEW q \in P, s.reqs # <<>>, NEW r \in Request, r.user = Owner(s),
           NEW t, t = [pc |-> q, reqs |-> <<r>> \o Tail(s.reqs)]
    PROVE  /\ t \in Stage(P) /\ t.pc = q /\ t.reqs # <<>>
           /\ Owner(t) = Owner(s) /\ Len(t.reqs) = Len(s.reqs) /\ Head(t.reqs) = r
           /\ DOMAIN t.reqs = DOMAIN s.reqs /\ t.reqs[1] = r
           /\ \A i \in DOMAIN s.reqs : i # 1 => t.reqs[i] = s.reqs[i]
<1>1. s \in [pc : P, reqs : Seq(Request)] /\ \A i \in DOMAIN s.reqs : s.reqs[i].user = Owner(s)
  BY DEF Stage
<1>2. Tail(s.reqs) \in Seq(Request) /\ Len(Tail(s.reqs)) = Len(s.reqs) - 1 /\ Len(s.reqs) >= 1
  BY <1>1
<1>3. t \in [pc : P, reqs : Seq(Request)] /\ t.pc = q /\ t.reqs = <<r>> \o Tail(s.reqs)
  BY <1>2
<1>4. /\ Len(t.reqs) = Len(s.reqs) /\ t.reqs # <<>> /\ DOMAIN t.reqs = DOMAIN s.reqs
      /\ t.reqs[1] = r /\ Head(t.reqs) = r
      /\ \A i \in DOMAIN s.reqs : i # 1 => t.reqs[i] = s.reqs[i]
  BY <1>1, <1>2, <1>3
<1>5. Owner(t) = Owner(s)
  BY <1>4 DEF Owner
<1>6. t \in Stage(P)
  BY <1>1, <1>3, <1>4, <1>5 DEF Stage
<1> QED  BY <1>3, <1>4, <1>5, <1>6

(* The number of batches a stage holds for a user. *)
LEMMA HeldIsNat ==
    ASSUME NEW P, NEW s \in Stage(P), NEW u
    PROVE  Held(s, u) \in Nat /\ (s.reqs # <<>> /\ Owner(s) = u => Held(s, u) = Len(s.reqs) /\ Held(s, u) >= 1)
  BY StageFields DEF Held

(* Five counts are zero if their sum is. *)
LEMMA SumOfFive ==
    ASSUME NEW a \in Nat, NEW b \in Nat, NEW c \in Nat, NEW d \in Nat, NEW e \in Nat
    PROVE  /\ a + b + c + d + e \in Nat
           /\ a + b + c + d + e = 0 => a = 0 /\ b = 0 /\ c = 0 /\ d = 0 /\ e = 0
  OBVIOUS

(* A user with no load has nothing anywhere in the pipeline. *)
LEMMA LoadIsNat ==
    ASSUME TypeOK, NEW u \in Users
    PROVE  /\ Load(u) \in Nat /\ Running(u) \in Nat /\ Batches(u) \in Nat
           /\ Held(download, u) \in Nat /\ Held(build, u) \in Nat /\ Held(apply, u) \in Nat
           /\ Load(u) = 0 => /\ Running(u) = 0 /\ Batches(u) = 0 /\ Held(download, u) = 0
                             /\ Held(build, u) = 0 /\ Held(apply, u) = 0
<1>1. Batches(u) \in Nat
  BY DEF TypeOK, Batches
<1>2. Held(download, u) \in Nat /\ Held(build, u) \in Nat /\ Held(apply, u) \in Nat
  BY HeldIsNat DEF TypeOK
<1>3. Running(u) \in Nat
  BY DEF Running
<1>4. Load(u) \in Nat
  BY <1>1, <1>2, <1>3, SumOfFive DEF Load
<1>5. Load(u) = 0 => /\ Running(u) = 0 /\ Batches(u) = 0 /\ Held(download, u) = 0
                     /\ Held(build, u) = 0 /\ Held(apply, u) = 0
  <2> DEFINE a == Running(u)  b == Batches(u)  c == Held(download, u)  d == Held(build, u)  e == Held(apply, u)
  <2>1. a \in Nat /\ b \in Nat /\ c \in Nat /\ d \in Nat /\ e \in Nat /\ Load(u) = a + b + c + d + e
    BY <1>1, <1>2, <1>3 DEF Load
  <2> HIDE DEF a, b, c, d, e
  <2>2. Load(u) = 0 => a = 0 /\ b = 0 /\ c = 0 /\ d = 0 /\ e = 0
    BY <2>1
  <2> QED  BY <2>2 DEF a, b, c, d, e
<1> QED  BY <1>1, <1>2, <1>3, <1>4, <1>5

(* The counts of the invariant are the ones of TasksCounted. *)
LEMMA CountedIsCounted ==
    ASSUME CountInv
    PROVE  TasksCounted
<1> SUFFICES ASSUME NEW u \in Users
             PROVE  waiter[u].total = Tasks(u)
  BY DEF TasksCounted
<1>1. Counted(u) /\ TypeOK
  BY DEF CountInv
<1>2. handler[u] = "sync" => meta[u].pc = "none"
  <2>1. handler[u] = "sync" => Load(u) = 0
    BY <1>1 DEF Counted, Waiting
  <2>2. Load(u) = 0 => Running(u) = 0
    BY <1>1, LoadIsNat
  <2> QED  BY <2>1, <2>2 DEF Running
<1>3. (IF handler[u] = "sync" \/ meta[u].pc # "none" THEN 1 ELSE 0)
      = Running(u) + (IF handler[u] = "sync" THEN 1 ELSE 0)
  BY <1>2 DEF Running
<1>4. Tasks(u) = (IF handler[u] = "sync" \/ meta[u].pc # "none" THEN 1 ELSE 0)
                 + Batches(u) + Held(download, u) + Held(build, u) + Held(apply, u)
  BY DEF Tasks, Batches
<1> DEFINE sync == IF handler[u] = "sync" THEN 1 ELSE 0
<1>5. sync \in Nat /\ waiter[u].total = Load(u) + sync
  BY <1>1 DEF Counted
<1>6. Tasks(u) = Running(u) + sync + Batches(u) + Held(download, u) + Held(build, u) + Held(apply, u)
  BY <1>3, <1>4
<1> HIDE DEF sync
<1> QED  BY <1>1, <1>5, <1>6, LoadIsNat DEF Load

(* What a report does to the waiter and its handler. *)
LEMMA Reported ==
    ASSUME TypeOK, NEW u \in Users, NEW n \in Nat, NEW err \in BOOLEAN, onTaskFinished(u, n, err)
    PROVE  /\ waiter' \in [Users -> [total : Int, err : BOOLEAN]]
           /\ handler' \in [Users -> HandlerPcs]
           /\ waiter'[u].total = waiter[u].total - n
           /\ waiter'[u].err = (waiter[u].err \/ err)
           /\ \/ handler'[u] = handler[u]
              \/ handler[u] = "blocked" /\ handler'[u] = "joined" /\ waiter'[u].total <= 0
           /\ \A v \in Users : v # u => waiter'[v] = waiter[v] /\ handler'[v] = handler[v]
<1>1. waiter \in [Users -> [total : Int, err : BOOLEAN]] /\ waiter[u].total \in Int
  BY DEF TypeOK
<1>2. waiter' = [waiter EXCEPT ![u] = [total |-> waiter[u].total - n, err |-> waiter[u].err \/ err]]
  BY DEF onTaskFinished
<1>3. handler' = IF waiter[u].total - n <= 0 /\ handler[u] = "blocked"
                    THEN [handler EXCEPT ![u] = "joined"] ELSE handler
  BY DEF onTaskFinished
<1>4. waiter' \in [Users -> [total : Int, err : BOOLEAN]]
  BY <1>1, <1>2
<1>5. waiter'[u].total = waiter[u].total - n /\ waiter'[u].err = (waiter[u].err \/ err)
  BY <1>1, <1>2
<1>6. handler' \in [Users -> HandlerPcs]
  BY <1>3 DEF TypeOK, HandlerPcs
<1>7. \/ handler'[u] = handler[u]
      \/ handler[u] = "blocked" /\ handler'[u] = "joined" /\ waiter'[u].total <= 0
  BY <1>3, <1>5 DEF TypeOK
<1>8. \A v \in Users : v # u => waiter'[v] = waiter[v] /\ handler'[v] = handler[v]
  BY <1>1, <1>2, <1>3 DEF TypeOK
<1> QED  BY <1>4, <1>5, <1>6, <1>7, <1>8

(* What onTaskCreated does to the waiter. *)
LEMMA Created ==
    ASSUME TypeOK, NEW u \in Users, NEW n \in Nat, onTaskCreated(u, n)
    PROVE  /\ waiter' \in [Users -> [total : Int, err : BOOLEAN]]
           /\ waiter'[u].total = waiter[u].total + n /\ waiter'[u].err = waiter[u].err
           /\ \A v \in Users \ {u} : waiter'[v] = waiter[v]
<1>1. waiter \in [Users -> [total : Int, err : BOOLEAN]]
  BY DEF TypeOK
<1> DEFINE w == [waiter[u] EXCEPT !.total = waiter[u].total + n]
<1>2. w \in [total : Int, err : BOOLEAN] /\ w.total = waiter[u].total + n /\ w.err = waiter[u].err
  BY <1>1
<1>3. waiter' = [waiter EXCEPT ![u] = w]
  BY <1>1 DEF onTaskCreated
<1> HIDE DEF w
<1> QED  BY <1>1, <1>2, <1>3

(* Nothing changes for a user that a step is not about. *)
LEMMA SameCounted ==
    ASSUME NEW v \in Users, Counted(v), SameFor(v)
    PROVE  Counted(v)'
<1>1. Held(download', v) = Held(download, v) /\ Held(build', v) = Held(build, v) /\ Held(apply', v) = Held(apply, v)
  BY DEF SameFor, SameHeld
<1>2. Running(v)' = Running(v) /\ Batches(v)' = Batches(v)
  BY DEF SameFor, Running, Batches
<1>3. Load(v)' = Load(v)
  BY <1>1, <1>2 DEF Load
<1> QED  BY <1>3 DEF Counted, SameFor

(* It is enough to look at the user that a step is about. *)
LEMMA StepCounted ==
    ASSUME CountInv, NEW u \in Users, StepFor(u)
    PROVE  CountInv'
  BY SameCounted DEF CountInv, StepFor

(* A task that reports is one the waiter counts. *)
LEMMA ReportCounted ==
    ASSUME TypeOK, TypeOK', NEW u \in Users, NEW n \in Nat, NEW err \in BOOLEAN, onTaskFinished(u, n, err),
           Counted(u), Load(u) > 0, Load(u)' = Load(u) - n
    PROVE  Counted(u)'
<1>1. handler[u] \in Waiting
  BY LoadIsNat DEF Counted
<1>2. Load(u)' \in Nat
  <2>1. Batches(u)' \in Nat
    BY DEF TypeOK, Batches
  <2>2. Held(download', u) \in Nat /\ Held(build', u) \in Nat /\ Held(apply', u) \in Nat
    BY HeldIsNat DEF TypeOK
  <2>3. Running(u)' \in Nat
    BY DEF Running
  <2> QED  BY <2>1, <2>2, <2>3 DEF Load
<1>3. waiter'[u].total = Load(u)'
  BY <1>1, Reported, LoadIsNat DEF Counted, Waiting
<1>4. handler'[u] # "sync" /\ (handler'[u] \notin Waiting => waiter'[u].total <= 0)
  BY <1>1, Reported DEF Waiting
<1> QED  BY <1>2, <1>3, <1>4 DEF Counted

-----------------------------------------------------------------------------
(* The handler. *)

(* The bounds stay numbers. *)
LEMMA SpendType ==
    ASSUME TypeOK, NEW w \in {"errors", "cancels", "crashes"}, Spend(w)
    PROVE  budget' \in [{"errors", "cancels", "crashes"} -> Nat]
  BY DEF TypeOK, Spend

(* Changing one user's value. *)
LEMMA FunSet ==
    ASSUME NEW T, NEW f \in [Users -> T], NEW u \in Users, NEW x \in T, NEW g, g = [f EXCEPT ![u] = x]
    PROVE  g \in [Users -> T] /\ g[u] = x /\ \A v \in Users \ {u} : g[v] = f[v]
  OBVIOUS

(* The sync state of u changes. *)
SetStatus(u, s) == status' = [status EXCEPT ![u] = s]
(* The types of the sync state after that. *)
LEMMA StatusSet ==
    ASSUME TypeOK, NEW u \in Users, NEW s \in StatusType, SetStatus(u, s)
    PROVE  status' \in [Users -> StatusType] /\ status'[u] = s /\ \A v \in Users \ {u} : status'[v] = status[v]
  BY DEF TypeOK, StatusType, SetStatus

(* The metadata goroutine of u moves. *)
LEMMA MetaSet ==
    ASSUME TypeOK, ShapeInv, NEW u \in Users, NEW m \in MetaType, MetaOf(m, u), meta' = [meta EXCEPT ![u] = m]
    PROVE  /\ meta' \in [Users -> MetaType] /\ meta'[u] = m
           /\ \A v \in Users \ {u} : meta'[v] = meta[v]
           /\ \A v \in Users : MetaOf(meta'[v], v)
<1>1. meta \in [Users -> MetaType]
  BY DEF TypeOK, MetaType
<1>2. meta' \in [Users -> MetaType] /\ meta'[u] = m /\ \A v \in Users \ {u} : meta'[v] = meta[v]
  BY <1>1, FunSet
<1> QED  BY <1>2 DEF ShapeInv

(* The handler moves on, its job has no task, or keeps them. *)
LEMMA HandlerMoves ==
    ASSUME CountInv, NEW u \in Users, NEW p \in HandlerPcs, GoTo(u, p), p # "sync", handler[u] # "sync",
           handler[u] \notin Waiting \/ p \in Waiting \/ Finished(u),
           ctxDone' \in [Users -> BOOLEAN], \A v \in Users \ {u} : ctxDone'[v] = ctxDone[v],
           status' \in [Users -> StatusType], \A v \in Users \ {u} : status'[v] = status[v],
           budget' \in [{"errors", "cancels", "crashes"} -> Nat],
           UNCHANGED <<jobDone, waiter, meta, stageVars, imap, gone, published, applied>>
    PROVE  StepFor(u)
<1> USE DEF stageVars
<1>1. handler' \in [Users -> HandlerPcs] /\ handler'[u] = p /\ \A v \in Users \ {u} : handler'[v] = handler[v]
  BY DEF CountInv, TypeOK, GoTo, HandlerPcs
<1>2. TypeOK'
  BY <1>1 DEF CountInv, TypeOK, HandlerPcs, StatusType
<1>3. ShapeInv'
  BY DEF CountInv, ShapeInv
<1>4. Load(u)' = Load(u)
  BY DEF Load, Running, Batches
<1>5. Finished(u) => Load(u) = 0
  BY LoadIsNat DEF CountInv, Counted, Finished
<1>6. Counted(u)'
  BY <1>1, <1>4, <1>5 DEF CountInv, Counted
<1>7. \A v \in Users \ {u} : SameFor(v)
  BY <1>1 DEF SameFor, SameHeld
<1> QED  BY <1>2, <1>3, <1>6, <1>7 DEF StepFor

(* The steps of the handler that leave the job alone. *)
LEMMA HandlerSteps ==
    ASSUME CountInv, NEW u \in Users,
           \/ Execute(u) \/ CheckAborted(u) \/ SyncLabels(u) \/ RunFails(u) \/ WaitAndClose(u)
           \/ Drain(u) \/ Joined(u) \/ WakeUp(u) \/ SyncFinished(u)
    PROVE  StepFor(u)
<1> USE DEF dataVars
<1>0. TypeOK /\ ctxDone \in [Users -> BOOLEAN] /\ status \in [Users -> StatusType]
      /\ budget \in [{"errors", "cancels", "crashes"} -> Nat]
  BY DEF CountInv, TypeOK, StatusType
<1>1. CASE Execute(u)
  BY <1>0, <1>1, HandlerMoves DEF Execute, HandlerPcs, Waiting
<1>2. CASE CheckAborted(u)
  BY <1>0, <1>2, HandlerMoves DEF CheckAborted, HandlerPcs, Waiting
<1>3. CASE SyncLabels(u)
  <2>1. [status[u] EXCEPT !.hasLabels = TRUE] \in StatusType
    BY <1>0 DEF StatusType
  <2>2. SetStatus(u, [status[u] EXCEPT !.hasLabels = TRUE])
    BY <1>3 DEF SyncLabels, SetStatus
  <2> QED  BY <1>0, <1>3, <2>1, <2>2, StatusSet, HandlerMoves DEF SyncLabels, HandlerPcs, Waiting
<1>4. CASE RunFails(u)
  <2>1. budget' \in [{"errors", "cancels", "crashes"} -> Nat]
    BY <1>0, <1>4, SpendType DEF RunFails
  <2> QED  BY <1>0, <1>4, <2>1, HandlerMoves DEF RunFails, HandlerPcs, Waiting
<1>5. CASE WaitAndClose(u)
  BY <1>0, <1>5, HandlerMoves DEF WaitAndClose, HandlerPcs, Waiting
<1>6. CASE Drain(u)
  BY <1>0, <1>6, HandlerMoves DEF Drain, HandlerPcs, Waiting
<1>7. CASE Joined(u)
  <2>1. [status[u] EXCEPT !.hasMessages = TRUE] \in StatusType
    BY <1>0 DEF StatusType
  <2>2. CASE waiter[u].err
    BY <1>0, <1>7, <2>2, HandlerMoves DEF Joined, HandlerPcs, Waiting
  <2>3. CASE ~waiter[u].err
    <3>1. SetStatus(u, [status[u] EXCEPT !.hasMessages = TRUE])
      BY <1>7, <2>3 DEF Joined, SetStatus
    <3> QED  BY <1>0, <1>7, <2>1, <2>3, <3>1, StatusSet, HandlerMoves DEF Joined, HandlerPcs, Waiting
  <2> QED  BY <2>2, <2>3
<1>8. CASE WakeUp(u)
  BY <1>0, <1>8, HandlerMoves DEF WakeUp, HandlerPcs, Waiting
<1>9. CASE SyncFinished(u)
  BY <1>0, <1>9, HandlerMoves DEF SyncFinished, HandlerPcs, Waiting
<1> QED  BY <1>1, <1>2, <1>3, <1>4, <1>5, <1>6, <1>7, <1>8, <1>9

(* A job starts, and is handed to the pipeline or dropped. *)
LEMMA JobSteps ==
    ASSUME CountInv, NEW u \in Users, CountAndNewJob(u) \/ Sync(u) \/ SyncCancelled(u)
    PROVE  StepFor(u)
<1> USE DEF dataVars, stageVars
<1>0. TypeOK /\ status \in [Users -> StatusType] /\ waiter \in [Users -> [total : Int, err : BOOLEAN]]
      /\ Counted(u) /\ ShapeInv
  BY DEF CountInv, TypeOK, StatusType
<1>1. CASE CountAndNewJob(u)
  <2>1. [status[u] EXCEPT !.hasCount = TRUE] \in StatusType
    BY <1>0 DEF StatusType
  <2>2. SetStatus(u, [status[u] EXCEPT !.hasCount = TRUE])
    BY <1>1 DEF CountAndNewJob, SetStatus
  <2>3. status' \in [Users -> StatusType] /\ \A v \in Users \ {u} : status'[v] = status[v]
    BY <1>0, <2>1, <2>2, StatusSet
  <2>4. CASE status[u].hasMessages
    BY <1>0, <1>1, <2>3, <2>4, HandlerMoves DEF CountAndNewJob, HandlerPcs, Waiting, CountInv, TypeOK
  <2>5. CASE ~status[u].hasMessages
    <3>1. /\ handler' \in [Users -> HandlerPcs] /\ handler'[u] = "sync"
          /\ \A v \in Users \ {u} : handler'[v] = handler[v]
      BY <1>0, <1>1, <2>5 DEF CountAndNewJob, TypeOK, GoTo, HandlerPcs
    <3>2. /\ waiter' \in [Users -> [total : Int, err : BOOLEAN]] /\ waiter'[u].total = 1
          /\ \A v \in Users \ {u} : waiter'[v] = waiter[v]
      <4> DEFINE w == [total |-> 1, err |-> FALSE]
      <4>1. w \in [total : Int, err : BOOLEAN] /\ w.total = 1 /\ waiter' = [waiter EXCEPT ![u] = w]
        BY <1>1, <2>5 DEF CountAndNewJob
      <4> HIDE DEF w
      <4> QED  BY <1>0, <4>1, FunSet
    <3>3. jobDone' \in [Users -> BOOLEAN] /\ \A v \in Users \ {u} : jobDone'[v] = jobDone[v]
      BY <1>0, <1>1, <2>5 DEF CountAndNewJob, TypeOK
    <3>4. UNCHANGED <<ctxDone, meta, stageVars, imap, gone, published, applied, budget>>
      BY <1>1 DEF CountAndNewJob
    <3>5. TypeOK' /\ ShapeInv'
      BY <1>0, <2>3, <3>1, <3>2, <3>3, <3>4 DEF TypeOK, HandlerPcs, StatusType, ShapeInv
    <3>6. Load(u)' = 0
      <4>1. Load(u)' = Load(u)
        BY <3>4 DEF Load, Running, Batches
      <4>2. Load(u) = 0
        BY <1>0, <1>1 DEF CountAndNewJob, Counted, Waiting
      <4> QED  BY <4>1, <4>2
    <3>7. Counted(u)'
      BY <3>1, <3>2, <3>6 DEF Counted
    <3>8. \A v \in Users \ {u} : SameFor(v)
      BY <2>3, <3>1, <3>2, <3>3, <3>4 DEF SameFor, SameHeld
    <3> QED  BY <3>5, <3>7, <3>8 DEF StepFor
  <2> QED  BY <2>4, <2>5
<1>2. CASE Sync(u)
  <2> DEFINE m == [pc |-> "check", next |-> status[u].last + 1, reqs |-> <<>>]
  <2>0. status[u].last + 1 \in Nat /\ status[u].last + 1 >= 1
    BY <1>0, PipelineAssumption DEF StatusType
  <2>1. m \in MetaType /\ m.pc = "check" /\ m.reqs = <<>> /\ Len(m.reqs) = 0 /\ m.next >= 1
    BY <2>0 DEF MetaType
  <2>2. meta' = [meta EXCEPT ![u] = m]
    BY <1>2 DEF Sync
  <2> HIDE DEF m
  <2>2a. MetaOf(m, u)
    BY <2>1 DEF MetaOf
  <2>3. /\ meta' \in [Users -> MetaType] /\ meta'[u] = m /\ \A v \in Users \ {u} : meta'[v] = meta[v]
        /\ \A v \in Users : MetaOf(meta'[v], v)
    BY <1>0, <2>1, <2>2, <2>2a, MetaSet
  <2>4. /\ handler' \in [Users -> HandlerPcs] /\ handler'[u] = "wait"
        /\ \A v \in Users \ {u} : handler'[v] = handler[v]
    BY <1>0, <1>2 DEF Sync, TypeOK, GoTo, HandlerPcs
  <2>5. UNCHANGED <<ctxDone, jobDone, waiter, stageVars, imap, dataVars, budget>>
    BY <1>2 DEF Sync
  <2>6. TypeOK'
    BY <1>0, <2>3, <2>4, <2>5 DEF TypeOK, HandlerPcs, MetaType
  <2>7. ShapeInv'
    BY <1>0, <2>3, <2>5 DEF ShapeInv
  <2>8. Load(u) = 0 /\ waiter[u].total = 1
    BY <1>0, <1>2 DEF Sync, Counted, Waiting
  <2>9. Load(u)' = 1
    <3>1. Running(u)' = 1 /\ Batches(u)' = 0
      BY <2>1, <2>3 DEF Running, Batches
    <3>2. Held(download', u) = 0 /\ Held(build', u) = 0 /\ Held(apply', u) = 0
      BY <1>0, <2>5, <2>8, LoadIsNat
    <3> QED  BY <3>1, <3>2 DEF Load
  <2>10. Counted(u)'
    BY <2>4, <2>5, <2>8, <2>9 DEF Counted, Waiting
  <2>11. \A v \in Users \ {u} : SameFor(v)
    BY <2>3, <2>4, <2>5 DEF SameFor, SameHeld
  <2> QED  BY <2>6, <2>7, <2>10, <2>11 DEF StepFor
<1>3. CASE SyncCancelled(u)
  <2>1. /\ handler' \in [Users -> HandlerPcs] /\ handler'[u] = "sleep"
        /\ \A v \in Users \ {u} : handler'[v] = handler[v]
    BY <1>0, <1>3 DEF SyncCancelled, TypeOK, GoTo, HandlerPcs
  <2>2. /\ waiter' \in [Users -> [total : Int, err : BOOLEAN]] /\ waiter'[u].total = 0
        /\ \A v \in Users \ {u} : waiter'[v] = waiter[v]
    BY <1>0, <1>3 DEF SyncCancelled
  <2>3. UNCHANGED <<ctxDone, jobDone, meta, stageVars, imap, dataVars, budget>>
    BY <1>3 DEF SyncCancelled
  <2>4. TypeOK' /\ ShapeInv'
    BY <1>0, <2>1, <2>2, <2>3 DEF TypeOK, HandlerPcs, ShapeInv
  <2>5. Load(u)' = 0
    <3>1. Load(u)' = Load(u)
      BY <2>3 DEF Load, Running, Batches
    <3>2. Load(u) = 0
      BY <1>0, <1>3 DEF SyncCancelled, Counted, Waiting
    <3> QED  BY <3>1, <3>2
  <2>6. Counted(u)'
    BY <2>1, <2>2, <2>5 DEF Counted
  <2>7. \A v \in Users \ {u} : SameFor(v)
    BY <2>1, <2>2, <2>3 DEF SameFor, SameHeld
  <2> QED  BY <2>4, <2>6, <2>7 DEF StepFor
<1> QED  BY <1>1, <1>2, <1>3

-----------------------------------------------------------------------------
(* The metadata stage. *)

(* The batch of a metadata goroutine that waits for the download stage. *)
LEMMA MetaFields ==
    ASSUME TypeOK, ShapeInv, NEW u \in Users
    PROVE  /\ meta[u] \in MetaType /\ MetaOf(meta[u], u)
           /\ meta[u].pc # "produce" => Batches(u) = 0
           /\ meta[u].pc = "produce" => /\ Batches(u) = 1 /\ Head(meta[u].reqs) \in Request
                                        /\ meta[u].reqs = <<Head(meta[u].reqs)>>
                                        /\ Head(meta[u].reqs).user = u
           /\ meta[u].pc # "none" => Running(u) = 1 /\ Load(u) > 0
<1>1. meta[u] \in MetaType /\ MetaOf(meta[u], u)
  BY DEF TypeOK, MetaType, ShapeInv
<1>2. meta[u].pc # "produce" => Batches(u) = 0
  BY <1>1 DEF MetaOf, Batches
<1>3. meta[u].pc = "produce" => /\ Batches(u) = 1 /\ Head(meta[u].reqs) \in Request
                                /\ meta[u].reqs = <<Head(meta[u].reqs)>>
                                /\ Head(meta[u].reqs).user = u
  <2>1. meta[u].reqs \in Seq(Request)
    BY <1>1 DEF MetaType
  <2>2. meta[u].pc = "produce" => Len(meta[u].reqs) = 1 /\ Head(meta[u].reqs).user = u
    BY <1>1 DEF MetaOf
  <2> QED  BY <2>1, <2>2 DEF Batches
<1>4. meta[u].pc # "none" => Running(u) = 1
  BY DEF Running
<1>5. meta[u].pc # "none" => Load(u) > 0
  BY <1>4, LoadIsNat
<1> QED  BY <1>1, <1>2, <1>3, <1>4, <1>5

(* A goroutine that has ended. *)
LEMMA NoMetaType == NoMeta \in MetaType /\ NoMeta.pc = "none" /\ \A u : MetaOf(NoMeta, u)
  BY DEF NoMeta, MetaType, MetaOf

(* The goroutine ends, and reports. *)
LEMMA MetadataEnds ==
    ASSUME CountInv, NEW u \in Users, NEW err \in BOOLEAN, onTaskFinished(u, 1, err),
           meta[u].pc \in {"check", "next", "end", "fail"}, meta' = [meta EXCEPT ![u] = NoMeta],
           UNCHANGED <<ctxDone, jobDone, stageVars, imap, dataVars, budget>>
    PROVE  StepFor(u)
<1> USE DEF dataVars, stageVars
<1>0. TypeOK /\ Counted(u) /\ ShapeInv
  BY DEF CountInv
<1>1. /\ meta' \in [Users -> MetaType] /\ meta'[u] = NoMeta /\ \A v \in Users \ {u} : meta'[v] = meta[v]
      /\ \A v \in Users : MetaOf(meta'[v], v)
  BY <1>0, MetaSet, NoMetaType
<1>2. /\ waiter' \in [Users -> [total : Int, err : BOOLEAN]] /\ handler' \in [Users -> HandlerPcs]
      /\ \A v \in Users : v # u => waiter'[v] = waiter[v] /\ handler'[v] = handler[v]
  BY <1>0, Reported
<1>3. TypeOK'
  BY <1>0, <1>1, <1>2 DEF TypeOK, MetaType, HandlerPcs
<1>4. ShapeInv'
  BY <1>0, <1>1 DEF ShapeInv
<1>5. Load(u) > 0 /\ Load(u)' = Load(u) - 1
  <2>1. Running(u)' = 0 /\ Batches(u)' = 0
    BY <1>1 DEF Running, Batches, NoMeta
  <2>2. Running(u) = 1 /\ Batches(u) = 0 /\ Load(u) > 0
    BY <1>0, MetaFields
  <2> DEFINE a == Held(download, u)  b == Held(build, u)  c == Held(apply, u)
  <2>3. a \in Nat /\ b \in Nat /\ c \in Nat
    BY <1>0, LoadIsNat
  <2>4. Load(u)' = Running(u)' + Batches(u)' + a + b + c /\ Load(u) = Running(u) + Batches(u) + a + b + c
    BY DEF Load
  <2> HIDE DEF a, b, c
  <2> QED  BY <2>1, <2>2, <2>3, <2>4
<1>6. Counted(u)'
  BY <1>0, <1>3, <1>5, ReportCounted
<1>7. \A v \in Users \ {u} : SameFor(v)
  BY <1>1, <1>2 DEF SameFor, SameHeld
<1> QED  BY <1>3, <1>4, <1>6, <1>7 DEF StepFor

(* The goroutine moves on without a batch. *)
LEMMA MetadataMoves ==
    ASSUME CountInv, NEW u \in Users, NEW p \in {"check", "next", "end", "fail"},
           meta[u].pc \in {"check", "next", "end", "fail"}, meta' = [meta EXCEPT ![u].pc = p],
           jobDone' \in [Users -> BOOLEAN], \A v \in Users \ {u} : jobDone'[v] = jobDone[v],
           budget' \in [{"errors", "cancels", "crashes"} -> Nat],
           UNCHANGED <<handler, ctxDone, waiter, stageVars, imap, dataVars>>
    PROVE  StepFor(u)
<1> USE DEF dataVars, stageVars
<1>0. TypeOK /\ Counted(u) /\ ShapeInv /\ meta[u] \in MetaType /\ MetaOf(meta[u], u)
  BY MetaFields DEF CountInv
<1> DEFINE m == [meta[u] EXCEPT !.pc = p]
<1>1. m \in MetaType /\ m.pc = p /\ m.reqs = meta[u].reqs /\ m.next = meta[u].next /\ meta' = [meta EXCEPT ![u] = m]
  BY <1>0 DEF MetaType
<1> HIDE DEF m
<1>2. MetaOf(m, u)
  BY <1>0, <1>1 DEF MetaOf
<1>3. /\ meta' \in [Users -> MetaType] /\ meta'[u] = m /\ \A v \in Users \ {u} : meta'[v] = meta[v]
      /\ \A v \in Users : MetaOf(meta'[v], v)
  BY <1>0, <1>1, <1>2, MetaSet
<1>4. TypeOK'
  BY <1>0, <1>3 DEF TypeOK, MetaType
<1>5. ShapeInv'
  BY <1>0, <1>3 DEF ShapeInv
<1>6. Load(u)' = Load(u)
  <2>1. Running(u)' = Running(u) /\ Batches(u)' = Batches(u)
    BY <1>1, <1>3 DEF Running, Batches
  <2> QED  BY <2>1 DEF Load
<1>7. Counted(u)'
  BY <1>0, <1>6 DEF Counted
<1>8. \A v \in Users \ {u} : SameFor(v)
  BY <1>3 DEF SameFor, SameHeld
<1> QED  BY <1>4, <1>5, <1>7, <1>8 DEF StepFor

(* The batch that Next returns. *)
LEMMA NextBatch ==
    ASSUME TypeOK, NEW u \in Users, NEW hi \in (meta[u].next..NumMessages) \ gone[u], meta[u] \in MetaType,
           meta[u].next >= 1
    PROVE  LET ids == (meta[u].next..hi) \ gone[u]
               r == [user |-> u, last |-> hi, msgs |-> ids, count |-> Cardinality(ids)]
           IN  r \in Request
<1> DEFINE ids == (meta[u].next..hi) \ gone[u]
<1>1. meta[u].next \in Nat
  BY DEF MetaType
<1>2. hi \in Messages /\ ids \in SUBSET Messages /\ hi \in ids
  BY <1>1, PipelineAssumption DEF Messages
<1> HIDE DEF ids
<1>3. Cardinality(ids) \in Messages
  BY <1>2, CountOf
<1>4. [user |-> u, last |-> hi, msgs |-> ids, count |-> Cardinality(ids)] \in Request
  BY <1>2, <1>3 DEF Request
<1> QED  BY <1>4 DEF ids

(* MetadataNext creates a task and the batch that goes with it. *)
LEMMA NextStep ==
    ASSUME CountInv, NEW u \in Users, MetadataNext(u)
    PROVE  StepFor(u)
<1> USE DEF dataVars, stageVars
<1>0. TypeOK /\ Counted(u) /\ ShapeInv /\ meta[u] \in MetaType /\ meta[u].next >= 1
  BY MetaFields DEF CountInv, MetaOf, MetadataNext
<1>1. PICK hi \in (meta[u].next..NumMessages) \ gone[u] :
         LET ids == (meta[u].next..hi) \ gone[u]
         IN  meta' = [meta EXCEPT ![u] =
                        [pc |-> "produce", next |-> hi + 1,
                         reqs |-> <<[user |-> u, last |-> hi, msgs |-> ids, count |-> Cardinality(ids)]>>]]
  BY DEF MetadataNext
<1> DEFINE ids == (meta[u].next..hi) \ gone[u]
           r == [user |-> u, last |-> hi, msgs |-> ids, count |-> Cardinality(ids)]
           m == [pc |-> "produce", next |-> hi + 1, reqs |-> <<r>>]
<1>2. r \in Request /\ r.user = u
  BY <1>0, NextBatch
<1>3. hi + 1 \in Nat /\ hi + 1 >= 1
  BY <1>0, PipelineAssumption DEF MetaType
<1>4. meta' = [meta EXCEPT ![u] = m]
  BY <1>1
<1> HIDE DEF r
<1>5. m \in MetaType /\ m.pc = "produce" /\ Len(m.reqs) = 1 /\ Head(m.reqs) = r /\ m.next >= 1
  BY <1>2, <1>3, OneRequest DEF MetaType
<1> HIDE DEF m
<1>6. MetaOf(m, u)
  BY <1>2, <1>5 DEF MetaOf
<1>7. /\ meta' \in [Users -> MetaType] /\ meta'[u] = m /\ \A v \in Users \ {u} : meta'[v] = meta[v]
      /\ \A v \in Users : MetaOf(meta'[v], v)
  BY <1>0, <1>4, <1>5, <1>6, MetaSet
<1>8. /\ waiter' \in [Users -> [total : Int, err : BOOLEAN]] /\ waiter'[u].total = waiter[u].total + 1
      /\ \A v \in Users \ {u} : waiter'[v] = waiter[v]
  BY <1>0, Created DEF MetadataNext
<1>9. UNCHANGED <<handler, ctxDone, jobDone, stageVars, imap, dataVars, budget>>
  BY DEF MetadataNext
<1>10. TypeOK'
  BY <1>0, <1>7, <1>8, <1>9 DEF TypeOK, MetaType
<1>11. ShapeInv'
  BY <1>0, <1>7, <1>9 DEF ShapeInv
<1>12. Load(u) > 0 /\ Load(u)' = Load(u) + 1
  <2>1. Running(u)' = 1 /\ Batches(u)' = 1
    BY <1>5, <1>7 DEF Running, Batches
  <2>2. Running(u) = 1 /\ Batches(u) = 0 /\ Load(u) > 0
    BY <1>0, MetaFields DEF MetadataNext
  <2> DEFINE a == Held(download, u)  b == Held(build, u)  c == Held(apply, u)
  <2>3. a \in Nat /\ b \in Nat /\ c \in Nat
    BY <1>0, LoadIsNat
  <2>4. Load(u)' = Running(u)' + Batches(u)' + a + b + c /\ Load(u) = Running(u) + Batches(u) + a + b + c
    BY <1>9 DEF Load
  <2> HIDE DEF a, b, c
  <2> QED  BY <2>1, <2>2, <2>3, <2>4
<1>13. Counted(u)'
  <2>1. handler[u] \in Waiting /\ handler[u] # "sync" /\ handler' = handler
    BY <1>0, <1>9, <1>12 DEF Counted, Waiting
  <2>2. waiter[u].total = Load(u) /\ Load(u) \in Nat
    BY <1>0, <2>1, LoadIsNat DEF Counted
  <2> QED  BY <1>8, <1>12, <2>1, <2>2 DEF Counted
<1>14. \A v \in Users \ {u} : SameFor(v)
  BY <1>7, <1>8, <1>9 DEF SameFor, SameHeld
<1> QED  BY <1>10, <1>11, <1>13, <1>14 DEF StepFor

(* The batch goes to the download stage, which drops it or keeps it. *)
LEMMA ConsumeDownloadStep ==
    ASSUME CountInv, NEW u \in Users, ConsumeDownload(u)
    PROVE  StepFor(u)
<1> USE DEF dataVars
<1>0. /\ TypeOK /\ Counted(u) /\ ShapeInv /\ meta[u] \in MetaType /\ meta[u].pc = "produce" /\ download = Idle
      /\ meta[u].next >= 1
  BY MetaFields DEF CountInv, ConsumeDownload, MetaOf
<1>1. PICK p \in {"check", "end"} : meta' = [meta EXCEPT ![u] = [pc |-> p, next |-> meta[u].next, reqs |-> <<>>]]
  BY DEF ConsumeDownload
<1> DEFINE m == [pc |-> p, next |-> meta[u].next, reqs |-> <<>>]
<1>2. /\ m \in MetaType /\ m.pc = p /\ m.reqs = <<>> /\ Len(m.reqs) = 0 /\ m.next = meta[u].next
      /\ meta' = [meta EXCEPT ![u] = m]
  BY <1>0, <1>1 DEF MetaType
<1> HIDE DEF m
<1>3. MetaOf(m, u)
  BY <1>0, <1>2 DEF MetaOf
<1>4. /\ meta' \in [Users -> MetaType] /\ meta'[u] = m /\ \A v \in Users \ {u} : meta'[v] = meta[v]
      /\ \A v \in Users : MetaOf(meta'[v], v)
  BY <1>0, <1>2, <1>3, MetaSet
<1>5. Running(u)' = 1 /\ Batches(u)' = 0 /\ Running(u) = 1 /\ Batches(u) = 1 /\ Load(u) > 0
  <2>1. Running(u)' = 1 /\ Batches(u)' = 0
    BY <1>2, <1>4 DEF Running, Batches
  <2> QED  BY <1>0, <2>1, MetaFields
<1>6. UNCHANGED <<ctxDone, jobDone, build, apply, imap, dataVars, budget>>
  BY DEF ConsumeDownload
<1> DEFINE a == Held(download, u)  a1 == Held(download', u)  b == Held(build, u)  c == Held(apply, u)
<1>7. a = 0 /\ b \in Nat /\ c \in Nat
  BY <1>0, LoadIsNat, IdleStage
<1>8. Load(u)' = Running(u)' + Batches(u)' + a1 + b + c /\ Load(u) = Running(u) + Batches(u) + a + b + c
  BY <1>6 DEF Load
<1>9. CASE jobDone[u]
  <2>1. onTaskFinished(u, 1, TRUE) /\ download' = download
    BY <1>9 DEF ConsumeDownload
  <2>2. /\ waiter' \in [Users -> [total : Int, err : BOOLEAN]] /\ handler' \in [Users -> HandlerPcs]
        /\ \A v \in Users : v # u => waiter'[v] = waiter[v] /\ handler'[v] = handler[v]
    BY <1>0, <2>1, Reported
  <2>3. TypeOK'
    BY <1>0, <1>4, <1>6, <2>1, <2>2 DEF TypeOK, MetaType, HandlerPcs
  <2>4. ShapeInv'
    BY <1>0, <1>4, <1>6, <2>1 DEF ShapeInv
  <2>5. Load(u)' = Load(u) - 1
    <3>1. a1 = 0
      BY <1>7, <2>1
    <3> HIDE DEF a, a1, b, c
    <3> QED  BY <1>5, <1>7, <1>8, <3>1
  <2>6. Counted(u)'
    BY <1>0, <1>5, <2>1, <2>3, <2>5, ReportCounted
  <2>7. \A v \in Users \ {u} : SameFor(v)
    BY <1>4, <1>6, <2>1, <2>2 DEF SameFor, SameHeld
  <2> QED  BY <2>3, <2>4, <2>6, <2>7 DEF StepFor
<1>10. CASE ~jobDone[u]
  <2> DEFINE r == Head(meta[u].reqs)
  <2>1. r \in Request /\ r.user = u /\ meta[u].reqs = <<r>>
    BY <1>0, MetaFields
  <2>2. download' = [pc |-> "work", reqs |-> <<r>>] /\ UNCHANGED <<handler, waiter>>
    BY <1>10, <2>1 DEF ConsumeDownload
  <2> HIDE DEF r
  <2>3. /\ download' \in Stage(DownloadPcs) /\ download'.pc = "work" /\ Len(download'.reqs) = 1
        /\ \A v : Held(download', v) = IF u = v THEN 1 ELSE 0
    BY <2>1, <2>2, OneStage DEF DownloadPcs
  <2>4. TypeOK'
    BY <1>0, <1>4, <1>6, <2>2, <2>3 DEF TypeOK, MetaType, DownloadPcs
  <2>5. ShapeInv'
    BY <1>0, <1>4, <1>6, <2>3 DEF ShapeInv, StageShape
  <2>6. Load(u)' = Load(u)
    <3>1. a1 = 1
      BY <2>3
    <3> HIDE DEF a, a1, b, c
    <3> QED  BY <1>5, <1>7, <1>8, <3>1
  <2>7. Counted(u)'
    BY <1>0, <2>2, <2>6 DEF Counted
  <2>8. \A v \in Users \ {u} : SameFor(v)
    <3>1. \A v : Held(download, v) = 0
      BY <1>0, IdleStage
    <3> QED  BY <1>4, <1>6, <2>2, <2>3, <3>1 DEF SameFor, SameHeld
  <2> QED  BY <2>4, <2>5, <2>7, <2>8 DEF StepFor
<1> QED  BY <1>9, <1>10

(* The steps of the metadata stage. *)
LEMMA MetadataSteps ==
    ASSUME CountInv, NEW u \in Users, MetadataStep(u)
    PROVE  StepFor(u)
<1> USE DEF dataVars
<1>0. TypeOK /\ jobDone \in [Users -> BOOLEAN] /\ budget \in [{"errors", "cancels", "crashes"} -> Nat]
  BY DEF CountInv, TypeOK
<1>1. CASE MetadataCheck(u)
  <2>1. CASE jobDone[u]
    BY <1>1, <2>1, MetadataEnds DEF MetadataCheck
  <2>2. CASE ~jobDone[u]
    BY <1>0, <1>1, <2>2, MetadataMoves DEF MetadataCheck
  <2> QED  BY <2>1, <2>2
<1>2. CASE MetadataEnd(u)
  BY <1>2, MetadataEnds DEF MetadataEnd
<1>3. CASE MetadataFails(u)
  <2>1. budget' \in [{"errors", "cancels", "crashes"} -> Nat]
    BY <1>0, <1>3, SpendType DEF MetadataFails
  <2>2. jobDone' \in [Users -> BOOLEAN] /\ \A v \in Users \ {u} : jobDone'[v] = jobDone[v]
    BY <1>0, <1>3 DEF MetadataFails
  <2> QED  BY <1>3, <2>1, <2>2, MetadataMoves DEF MetadataFails
<1>4. CASE MetadataOnError(u)
  BY <1>4, MetadataEnds DEF MetadataOnError
<1>5. CASE MetadataNoMore(u)
  BY <1>5, MetadataEnds DEF MetadataNoMore
<1> QED  BY <1>1, <1>2, <1>3, <1>4, <1>5, NextStep, ConsumeDownloadStep DEF MetadataStep

-----------------------------------------------------------------------------
(* The stages after it. *)

(* What a step of a stage may change besides, for its user. *)
DataFor(u) ==
    /\ UNCHANGED <<meta, ctxDone, applied>>
    /\ jobDone' \in [Users -> BOOLEAN] /\ \A v \in Users \ {u} : jobDone'[v] = jobDone[v]
    /\ imap' \in [Users -> [pc : {"select", "publish", "reply", "cancel"}, msgs : SUBSET Messages]]
    /\ \A v \in Users \ {u} : imap'[v] = imap[v]
    /\ status' \in [Users -> StatusType] /\ \A v \in Users \ {u} : status'[v] = status[v]
    /\ gone' \in [Users -> SUBSET Messages] /\ \A v \in Users \ {u} : gone'[v] = gone[v]
    /\ published' \in [Users -> SUBSET Messages] /\ \A v \in Users \ {u} : published'[v] = published[v]
    /\ budget' \in [{"errors", "cancels", "crashes"} -> Nat]

StagesFor(u) ==
    /\ download' \in Stage(DownloadPcs) /\ build' \in Stage(BuildPcs) /\ apply' \in Stage(ApplyPcs)
    /\ StageShape(download', build', apply')
    /\ \A v \in Users \ {u} : /\ SameHeld(download, download', v)
                              /\ SameHeld(build, build', v)
                              /\ SameHeld(apply, apply', v)

HeldOf(u) == Held(download, u) + Held(build, u) + Held(apply, u)

(* A step of the stages changes the load by what they hold. *)
LEMMA LoadHeld ==
    ASSUME CountInv, NEW u \in Users, DataFor(u), StagesFor(u)
    PROVE  /\ HeldOf(u) \in Nat /\ HeldOf(u)' \in Nat /\ Load(u) \in Nat
           /\ HeldOf(u) > 0 => Load(u) > 0
           /\ Load(u)' = Load(u) - HeldOf(u) + HeldOf(u)'
<1>1. TypeOK
  BY DEF CountInv
<1> DEFINE a == Held(download, u)  b == Held(build, u)  c == Held(apply, u)
           a1 == Held(download', u)  b1 == Held(build', u)  c1 == Held(apply', u)
           r == Running(u)  s == Batches(u)
<1>2. a \in Nat /\ b \in Nat /\ c \in Nat /\ r \in Nat /\ s \in Nat
  BY <1>1, LoadIsNat
<1>3. a1 \in Nat /\ b1 \in Nat /\ c1 \in Nat
  BY HeldIsNat DEF StagesFor
<1>4. Running(u)' = r /\ Batches(u)' = s
  BY DEF DataFor, Running, Batches
<1>5. /\ Load(u) = r + s + a + b + c /\ Load(u)' = r + s + a1 + b1 + c1
      /\ HeldOf(u) = a + b + c /\ HeldOf(u)' = a1 + b1 + c1
  BY <1>4 DEF Load, HeldOf
<1> HIDE DEF a, b, c, a1, b1, c1, r, s
<1> QED  BY <1>2, <1>3, <1>5

(* The types after a step of the stages. *)
LEMMA StagesTyped ==
    ASSUME CountInv, NEW u \in Users, DataFor(u), StagesFor(u),
           waiter' \in [Users -> [total : Int, err : BOOLEAN]], handler' \in [Users -> HandlerPcs],
           \A v \in Users \ {u} : waiter'[v] = waiter[v] /\ handler'[v] = handler[v]
    PROVE  TypeOK' /\ ShapeInv' /\ \A v \in Users \ {u} : SameFor(v)
<1>1. TypeOK'
  BY DEF CountInv, TypeOK, DataFor, StagesFor, HandlerPcs, StatusType, DownloadPcs, BuildPcs, ApplyPcs
<1>2. ShapeInv'
  BY DEF CountInv, ShapeInv, DataFor, StagesFor
<1>3. \A v \in Users \ {u} : SameFor(v)
  BY DEF DataFor, StagesFor, SameFor
<1> QED  BY <1>1, <1>2, <1>3

(* A stage reports n batches, and drops them. *)
LEMMA StageReports ==
    ASSUME CountInv, NEW u \in Users, DataFor(u), StagesFor(u),
           NEW n \in Nat, NEW err \in BOOLEAN, onTaskFinished(u, n, err),
           HeldOf(u) > 0, HeldOf(u)' = HeldOf(u) - n
    PROVE  StepFor(u)
<1>1. TypeOK /\ Counted(u)
  BY DEF CountInv
<1>2. TypeOK' /\ ShapeInv' /\ \A v \in Users \ {u} : SameFor(v)
  BY <1>1, Reported, StagesTyped
<1>3. Load(u) > 0 /\ Load(u)' = Load(u) - n
  BY LoadHeld
<1>4. Counted(u)'
  BY <1>1, <1>2, <1>3, ReportCounted
<1> QED  BY <1>2, <1>4 DEF StepFor

(* A stage moves on with its batches, or passes them on. *)
LEMMA StageMoves ==
    ASSUME CountInv, NEW u \in Users, DataFor(u), StagesFor(u), UNCHANGED <<handler, waiter>>,
           HeldOf(u)' = HeldOf(u)
    PROVE  StepFor(u)
<1>1. TypeOK /\ Counted(u)
  BY DEF CountInv
<1>2. TypeOK' /\ ShapeInv' /\ \A v \in Users \ {u} : SameFor(v)
  BY <1>1, StagesTyped DEF TypeOK, HandlerPcs
<1>3. Load(u)' = Load(u)
  BY LoadHeld
<1>4. Counted(u)'
  BY <1>1, <1>3 DEF Counted
<1> QED  BY <1>2, <1>4 DEF StepFor

(* A stage with one batch. *)
LEMMA OneBatch ==
    ASSUME NEW P, NEW s \in Stage(P), Len(s.reqs) = 1
    PROVE  /\ Head(s.reqs) \in Request /\ s.reqs = <<Head(s.reqs)>> /\ s.reqs # <<>>
           /\ Owner(s) = Head(s.reqs).user /\ Owner(s) \in Users
           /\ \A v : Held(s, v) = IF v = Owner(s) THEN 1 ELSE 0
<1>1. s.reqs \in Seq(Request)
  BY StageFields
<1>2. Head(s.reqs) \in Request /\ s.reqs = <<Head(s.reqs)>> /\ s.reqs # <<>>
  BY <1>1
<1>3. Owner(s) = Head(s.reqs).user /\ Owner(s) \in Users
  BY <1>2, RequestFields DEF Owner
<1>4. \A v : Held(s, v) = IF v = Owner(s) THEN 1 ELSE 0
  BY <1>2 DEF Held
<1> QED  BY <1>2, <1>3, <1>4

(* What the invariant says about the stages. *)
LEMMA StageTypes ==
    ASSUME CountInv
    PROVE  /\ download \in Stage(DownloadPcs) /\ build \in Stage(BuildPcs) /\ apply \in Stage(ApplyPcs)
           /\ download.pc # "idle" => Len(download.reqs) = 1
           /\ apply.pc # "idle" => Len(apply.reqs) = 1
           /\ build.pc \in {"divide", "fail"} => Len(build.reqs) = 1
           /\ build.pc # "idle" => build.reqs # <<>>
           /\ StageShape(download, build, apply)
           /\ \A v : Held(download, v) \in Nat /\ Held(build, v) \in Nat /\ Held(apply, v) \in Nat
<1>1. download \in Stage(DownloadPcs) /\ build \in Stage(BuildPcs) /\ apply \in Stage(ApplyPcs)
  BY DEF CountInv, TypeOK, DownloadPcs, BuildPcs, ApplyPcs
<1>2. \A v : Held(download, v) \in Nat /\ Held(build, v) \in Nat /\ Held(apply, v) \in Nat
  BY <1>1, HeldIsNat
<1> QED  BY <1>1, <1>2 DEF CountInv, ShapeInv, StageShape

(* Nothing but what a step says changes. *)
LEMMA DataSame ==
    ASSUME CountInv, NEW u \in Users, UNCHANGED <<meta, ctxDone, applied>>,
           jobDone' = jobDone \/ jobDone' = [jobDone EXCEPT ![u] = TRUE],
           budget' = budget \/ Spend("errors"),
           imap' \in [Users -> [pc : {"select", "publish", "reply", "cancel"}, msgs : SUBSET Messages]],
           \A v \in Users \ {u} : imap'[v] = imap[v],
           status' \in [Users -> StatusType], \A v \in Users \ {u} : status'[v] = status[v],
           gone' \in [Users -> SUBSET Messages], \A v \in Users \ {u} : gone'[v] = gone[v],
           published' \in [Users -> SUBSET Messages], \A v \in Users \ {u} : published'[v] = published[v]
    PROVE  DataFor(u)
<1>1. jobDone' \in [Users -> BOOLEAN] /\ \A v \in Users \ {u} : jobDone'[v] = jobDone[v]
  BY DEF CountInv, TypeOK
<1>2. budget' \in [{"errors", "cancels", "crashes"} -> Nat]
  BY SpendType DEF CountInv, TypeOK
<1> QED  BY <1>1, <1>2 DEF DataFor

(* What the invariant says about the data. *)
LEMMA DataTypes ==
    ASSUME CountInv
    PROVE  /\ imap \in [Users -> [pc : {"select", "publish", "reply", "cancel"}, msgs : SUBSET Messages]]
           /\ status \in [Users -> StatusType] /\ gone \in [Users -> SUBSET Messages]
           /\ published \in [Users -> SUBSET Messages]
  BY DEF CountInv, TypeOK, StatusType

(* The download stage by itself. *)
LEMMA DownloadSteps ==
    ASSUME CountInv, NEW u, u = Owner(download), Download \/ DownloadFails \/ DownloadOnError
    PROVE  u \in Users /\ StepFor(u)
<1> USE DEF dataVars, handlerVars
<1> DEFINE r == Head(download.reqs)
<1>0. /\ u \in Users /\ r \in Request /\ r.user = u /\ download.reqs = <<r>> /\ download.pc # "idle"
      /\ \A v : Held(download, v) = IF v = u THEN 1 ELSE 0
  BY StageTypes, OneBatch DEF Download, DownloadFails, DownloadOnError
<1>1. CASE Download
  <2>1. PICK del \in SUBSET r.msgs : /\ gone' = [gone EXCEPT ![u] = gone[u] \cup del]
                                     /\ download' = [pc |-> "produce", reqs |-> <<[r EXCEPT !.msgs = r.msgs \ del]>>]
    BY <1>1 DEF Download
  <2> DEFINE q == [r EXCEPT !.msgs = r.msgs \ del]
  <2>2. q \in Request /\ q.user = u /\ gone[u] \cup del \in SUBSET Messages
    BY <1>0, RequestFields, DataTypes
  <2>2a. download' = [pc |-> "produce", reqs |-> <<q>>]
    BY <2>1
  <2> HIDE DEF q, r
  <2>3. /\ download' \in Stage(DownloadPcs) /\ download'.pc = "produce" /\ Len(download'.reqs) = 1
        /\ \A v : Held(download', v) = IF u = v THEN 1 ELSE 0
    BY <2>2, <2>2a, OneStage DEF DownloadPcs
  <2>4. UNCHANGED <<handler, ctxDone, jobDone, waiter, meta, build, apply, imap, status, published, applied, budget>>
    BY <1>1 DEF Download
  <2>5. gone' \in [Users -> SUBSET Messages] /\ \A v \in Users \ {u} : gone'[v] = gone[v]
    BY <1>0, <2>1, <2>2, DataTypes, FunSet
  <2>6. DataFor(u)
    BY <1>0, <2>4, <2>5, DataTypes, DataSame
  <2>7. StagesFor(u)
    BY <1>0, <2>3, <2>4, StageTypes DEF StagesFor, StageShape, SameHeld
  <2>8. HeldOf(u)' = HeldOf(u)
    BY <1>0, <2>3, <2>4 DEF HeldOf
  <2>9. StepFor(u)
    BY <1>0, <2>4, <2>6, <2>7, <2>8, StageMoves
  <2> QED  BY <1>0, <2>9
<1>2. CASE DownloadFails
  <2>1. /\ download' = [download EXCEPT !.pc = "fail"] /\ jobDone' = [jobDone EXCEPT ![u] = TRUE]
        /\ UNCHANGED <<handler, ctxDone, waiter, meta, build, apply, imap, dataVars>>
        /\ budget' = budget \/ Spend("errors")
    BY <1>2 DEF DownloadFails
  <2> HIDE DEF r
  <2>2. /\ download' \in Stage(DownloadPcs) /\ download'.pc = "fail" /\ download'.reqs = download.reqs
        /\ \A v : Held(download', v) = Held(download, v)
    BY <2>1, PcStage, StageTypes DEF DownloadPcs
  <2>3. DataFor(u)
    BY <1>0, <2>1, DataTypes, DataSame
  <2>4. StagesFor(u)
    BY <1>0, <2>1, <2>2, StageTypes DEF StagesFor, StageShape, SameHeld
  <2>5. HeldOf(u)' = HeldOf(u)
    BY <2>1, <2>2 DEF HeldOf
  <2>6. StepFor(u)
    BY <1>0, <2>1, <2>3, <2>4, <2>5, StageMoves
  <2> QED  BY <1>0, <2>6
<1>3. CASE DownloadOnError
  <2>1. /\ download' = Idle /\ onTaskFinished(u, 1, TRUE)
        /\ UNCHANGED <<ctxDone, jobDone, meta, build, apply, imap, dataVars, budget>>
    BY <1>3 DEF DownloadOnError
  <2> HIDE DEF r
  <2>2. /\ download' \in Stage(DownloadPcs) /\ download'.pc = "idle" /\ Len(download'.reqs) = 0
        /\ \A v : Held(download', v) = 0
    BY <2>1, IdleStage DEF DownloadPcs
  <2>3. DataFor(u)
    BY <1>0, <2>1, DataTypes, DataSame
  <2>4. StagesFor(u)
    BY <1>0, <2>1, <2>2, StageTypes DEF StagesFor, StageShape, SameHeld
  <2>5. HeldOf(u) > 0 /\ HeldOf(u)' = HeldOf(u) - 1
    BY <1>0, <2>1, <2>2, StageTypes DEF HeldOf
  <2>6. StepFor(u)
    BY <1>0, <2>1, <2>3, <2>4, <2>5, StageReports
  <2> QED  BY <1>0, <2>6
<1> QED  BY <1>1, <1>2, <1>3

(* The build stage takes a batch, or drops it. *)
LEMMA ConsumeBuildStep ==
    ASSUME CountInv, NEW u, u = Owner(download), ConsumeBuild
    PROVE  u \in Users /\ StepFor(u)
<1> USE DEF dataVars
<1> DEFINE r == Head(download.reqs)
<1>0. /\ u \in Users /\ r \in Request /\ r.user = u /\ download.reqs = <<r>>
      /\ \A v : Held(download, v) = IF v = u THEN 1 ELSE 0
  BY StageTypes, OneBatch DEF ConsumeBuild
<1>1. /\ build = Idle /\ download' = Idle
      /\ UNCHANGED <<ctxDone, jobDone, meta, apply, imap, dataVars, budget>>
  BY DEF ConsumeBuild
<1>2. /\ download' \in Stage(DownloadPcs) /\ download'.pc = "idle" /\ Len(download'.reqs) = 0
      /\ \A v : Held(download', v) = 0 /\ Held(build, v) = 0
  BY <1>1, IdleStage DEF DownloadPcs
<1>3. DataFor(u)
  BY <1>0, <1>1, DataTypes, DataSame
<1>4. CASE jobDone[u]
  <2>1. build' = build /\ onTaskFinished(u, 1, TRUE)
    BY <1>4 DEF ConsumeBuild
  <2>2. StagesFor(u)
    BY <1>0, <1>1, <1>2, <2>1, StageTypes DEF StagesFor, StageShape, SameHeld
  <2>3. HeldOf(u) > 0 /\ HeldOf(u)' = HeldOf(u) - 1
    BY <1>0, <1>1, <1>2, <2>1, StageTypes DEF HeldOf
  <2> QED  BY <1>0, <1>3, <2>1, <2>2, <2>3, StageReports
<1>5. CASE ~jobDone[u]
  <2>1. PICK p \in {"produce", "divide"} : build' = [pc |-> p, reqs |-> download.reqs]
    BY <1>5 DEF ConsumeBuild
  <2>2. UNCHANGED <<handler, waiter>>
    BY <1>5 DEF ConsumeBuild
  <2>3. build' = [pc |-> p, reqs |-> <<r>>]
    BY <1>0, <2>1
  <2> HIDE DEF r
  <2>4. /\ build' \in Stage(BuildPcs) /\ build'.pc = p /\ Len(build'.reqs) = 1 /\ build'.reqs # <<>>
        /\ \A v : Held(build', v) = IF u = v THEN 1 ELSE 0
    BY <1>0, <2>3, OneStage DEF BuildPcs
  <2>5. StagesFor(u)
    BY <1>0, <1>1, <1>2, <2>4, StageTypes DEF StagesFor, StageShape, SameHeld
  <2>6. HeldOf(u)' = HeldOf(u)
    BY <1>0, <1>1, <1>2, <2>4, StageTypes DEF HeldOf
  <2> QED  BY <1>0, <1>3, <2>2, <2>5, <2>6, StageMoves
<1> QED  BY <1>4, <1>5

(* A stage moves on with the batches it has. *)
LEMMA BuildMoves ==
    ASSUME CountInv, NEW u \in Users, u = Owner(build), DataFor(u), UNCHANGED <<handler, waiter, download, apply>>,
           build.pc # "idle", build' \in Stage(BuildPcs), build'.pc \in {"produce", "fail"},
           build'.pc = "fail" => build.pc = "divide", build'.reqs # <<>>,
           Len(build'.reqs) = Len(build.reqs), Owner(build') = u
    PROVE  StepFor(u)
<1>1. Held(build, u) = Len(build.reqs) /\ Held(build', u) = Len(build'.reqs)
  BY StageTypes DEF Held
<1>2. \A v \in Users \ {u} : Held(build, v) = 0 /\ Held(build', v) = 0
  BY DEF Held
<1>3. StageShape(download', build', apply')
  BY StageTypes DEF StageShape
<1>4. StagesFor(u)
  BY <1>2, <1>3, StageTypes DEF StagesFor, SameHeld
<1>5. HeldOf(u)' = HeldOf(u)
  BY <1>1 DEF HeldOf
<1> QED  BY <1>4, <1>5, StageMoves

(* A step of the apply stage that keeps its batch. *)
LEMMA ApplyMoves ==
    ASSUME CountInv, NEW u \in Users, u = Owner(apply), DataFor(u), UNCHANGED <<handler, waiter, download, build>>,
           apply.pc # "idle", NEW p \in ApplyPcs \ {"idle"}, apply' = [apply EXCEPT !.pc = p]
    PROVE  StepFor(u)
<1>1. /\ apply' \in Stage(ApplyPcs) /\ apply'.pc = p /\ apply'.reqs = apply.reqs
      /\ \A v : Held(apply', v) = Held(apply, v)
  BY PcStage, StageTypes
<1>2. \A v \in Users \ {u} : Held(apply, v) = 0
  BY DEF Held
<1>3. StageShape(download', build', apply')
  BY <1>1, StageTypes DEF StageShape
<1>4. StagesFor(u)
  BY <1>1, <1>2, <1>3, StageTypes DEF StagesFor, SameHeld
<1>5. HeldOf(u)' = HeldOf(u)
  BY <1>1 DEF HeldOf
<1> QED  BY <1>4, <1>5, StageMoves

(* The chunks of a batch. *)
LEMMA ChunksTyped ==
    ASSUME NEW req \in Request, NEW n \in Nat, n >= 1, NEW ends \in Cuts(req.msgs, n)
    PROVE  LET c == chunkDivide(req, ends)
           IN  /\ c \in Seq(Request) /\ Len(c) = n /\ c # <<>> /\ DOMAIN c = 1..n
               /\ \A i \in 1..n : /\ c[i] \in Request /\ c[i].user = req.user
                                  /\ c[i].msgs = Chunk(req, ends, i)
                                  /\ c[i].last = IF i = n THEN req.last ELSE ends[i]
<1> DEFINE c == chunkDivide(req, ends)
<1>1. ends \in [1..n -> req.msgs] /\ req.msgs \in SUBSET Messages /\ req.user \in Users
  BY RequestFields DEF Cuts
<1>2. Len(ends) = n /\ DOMAIN ends = 1..n
  BY <1>1
<1>3. \A i \in 1..n : Chunk(req, ends, i) \in SUBSET Messages /\ ends[i] \in Messages /\ ends[i] \in req.msgs
  BY <1>1 DEF Chunk
<1>4. \A i \in 1..n : ends[i] \in Chunk(req, ends, i)
  <2> SUFFICES ASSUME NEW i \in 1..n
               PROVE  ends[i] \in Chunk(req, ends, i)
    OBVIOUS
  <2>1. ends[i] \in req.msgs /\ ends[i] <= ends[i]
    BY <1>3, PipelineAssumption DEF Messages
  <2>2. i > 1 => ends[i] > ends[i - 1]
    <3>1. i > 1 => i - 1 \in 1..n /\ i - 1 < i
      OBVIOUS
    <3>2. \A j, k \in 1..n : j < k => ends[j] < ends[k]
      BY DEF Cuts
    <3>3. i > 1 => ends[i - 1] \in Messages /\ ends[i] \in Messages
      BY <1>3, <3>1
    <3> QED  BY <3>1, <3>2, <3>3, PipelineAssumption DEF Messages
  <2> QED  BY <2>1, <2>2 DEF Chunk
<1>5. \A i \in 1..n : Cardinality(Chunk(req, ends, i)) \in Messages
  BY <1>3, <1>4, CountOf
<1>6. c = [i \in 1..n |-> IF i = n THEN [req EXCEPT !.msgs = Chunk(req, ends, i)]
                          ELSE [user |-> req.user, last |-> ends[i], msgs |-> Chunk(req, ends, i),
                                count |-> Cardinality(Chunk(req, ends, i))]]
  BY <1>2 DEF chunkDivide
<1> HIDE DEF c
<1>7. \A i \in 1..n : /\ c[i] \in Request /\ c[i].user = req.user
                      /\ c[i].msgs = Chunk(req, ends, i)
                      /\ c[i].last = IF i = n THEN req.last ELSE ends[i]
  <2> SUFFICES ASSUME NEW i \in 1..n
               PROVE  /\ c[i] \in Request /\ c[i].user = req.user
                      /\ c[i].msgs = Chunk(req, ends, i)
                      /\ c[i].last = IF i = n THEN req.last ELSE ends[i]
    OBVIOUS
  <2> DEFINE S == Chunk(req, ends, i)
  <2>1. S \in SUBSET Messages /\ Cardinality(S) \in Messages /\ ends[i] \in Messages
    BY <1>3, <1>5
  <2>2. CASE i = n
    <3>1. c[i] = [req EXCEPT !.msgs = S]
      BY <1>6, <2>2
    <3> HIDE DEF S
    <3>2. c[i] \in Request /\ c[i].user = req.user /\ c[i].msgs = S /\ c[i].last = req.last
      BY <2>1, <3>1 DEF Request
    <3> QED  BY <2>2, <3>2 DEF S
  <2>3. CASE i # n
    <3>1. c[i] = [user |-> req.user, last |-> ends[i], msgs |-> S, count |-> Cardinality(S)]
      BY <1>6, <2>3
    <3> HIDE DEF S
    <3>2. c[i] \in Request /\ c[i].user = req.user /\ c[i].msgs = S /\ c[i].last = ends[i]
      BY <1>1, <2>1, <3>1 DEF Request
    <3> QED  BY <2>3, <3>2 DEF S
  <2> QED  BY <2>2, <2>3
<1>8. c \in Seq(Request) /\ Len(c) = n /\ c # <<>> /\ DOMAIN c = 1..n
  <2>1. c \in [1..n -> Request]
    BY <1>6, <1>7
  <2>2. c \in Seq(Request)
    BY <2>1
  <2>3. DOMAIN c = 1..n
    BY <2>1
  <2>4. Len(c) = n
    BY <2>1, <2>2
  <2>5. Len(<< >>) = 0
    BY EmptySeq
  <2> QED  BY <2>2, <2>3, <2>4, <2>5
<1> QED  BY <1>7, <1>8 DEF c

(* What the build stage has in its hands. *)
LEMMA BuildFields ==
    ASSUME CountInv, NEW u, u = Owner(build), build.pc # "idle"
    PROVE  /\ u \in Users /\ Head(build.reqs) \in Request /\ Head(build.reqs).user = u
           /\ build.reqs # <<>> /\ build.reqs \in Seq(Request) /\ Len(build.reqs) \in Nat /\ Len(build.reqs) >= 1
           /\ \A v : Held(build, v) = IF v = u THEN Len(build.reqs) ELSE 0
           /\ HeldOf(u) > 0
<1>1. build \in Stage(BuildPcs) /\ build.reqs # <<>>
  BY StageTypes
<1>2. /\ u \in Users /\ Head(build.reqs) \in Request /\ build.reqs \in Seq(Request)
      /\ Len(build.reqs) \in Nat /\ Len(build.reqs) >= 1
  BY <1>1, StageFields
<1>3. Head(build.reqs).user = u
  BY DEF Owner
<1>4. \A v : Held(build, v) = IF v = u THEN Len(build.reqs) ELSE 0
  BY <1>1 DEF Held
<1>5. Held(build, u) >= 1
  BY <1>2, <1>4
<1> DEFINE a == Held(download, u)  b == Held(build, u)  c == Held(apply, u)
<1>6. a \in Nat /\ b \in Nat /\ c \in Nat /\ b >= 1 /\ HeldOf(u) = a + b + c
  BY <1>5, StageTypes DEF HeldOf
<1> HIDE DEF a, b, c
<1>7. HeldOf(u) > 0
  BY <1>6
<1> QED  BY <1>1, <1>2, <1>3, <1>4, <1>7

(* A division creates a task for every new chunk. *)
LEMMA ChunkDivideStep ==
    ASSUME CountInv, NEW u, u = Owner(build), ChunkDivide
    PROVE  u \in Users /\ StepFor(u)
<1> USE DEF dataVars
<1> DEFINE r == Head(build.reqs)
<1>0. /\ u \in Users /\ r \in Request /\ r.user = u /\ Len(build.reqs) = 1 /\ HeldOf(u) > 0
      /\ \A v : Held(build, v) = IF v = u THEN 1 ELSE 0
  BY BuildFields, StageTypes DEF ChunkDivide
<1>1a. PICK n \in 1..MaxBatch : \E ends \in Cuts(r.msgs, n) :
         build' = [pc |-> "chunk", reqs |-> chunkDivide(r, ends)] /\ onTaskCreated(u, n - 1)
  BY DEF ChunkDivide
<1>1b. n \in Nat /\ n >= 1 /\ n - 1 \in Nat
  BY PipelineAssumption
<1>1. PICK ends \in Cuts(r.msgs, n) :
         build' = [pc |-> "chunk", reqs |-> chunkDivide(r, ends)] /\ onTaskCreated(u, n - 1)
  BY <1>1a
<1> DEFINE c == chunkDivide(r, ends)
<1>2. /\ c \in Seq(Request) /\ Len(c) = n /\ c # <<>> /\ DOMAIN c = 1..n
      /\ \A i \in 1..n : c[i] \in Request /\ c[i].user = u
  BY <1>0, <1>1b, ChunksTyped
<1>3. UNCHANGED <<handler, ctxDone, jobDone, meta, download, apply, imap, dataVars, budget>>
  BY DEF ChunkDivide
<1>4. build' = [pc |-> "chunk", reqs |-> c]
  BY <1>1
<1> HIDE DEF c, r
<1>5. build'.pc = "chunk" /\ build'.reqs = c /\ Owner(build') = u
  BY <1>1b, <1>2, <1>4 DEF Owner
<1>6. build' \in Stage(BuildPcs)
  BY <1>2, <1>4, <1>5 DEF Stage, BuildPcs
<1>7. \A v : Held(build', v) = IF v = u THEN n ELSE 0
  BY <1>2, <1>5 DEF Held
<1>8. DataFor(u)
  BY <1>0, <1>3, DataTypes, DataSame
<1>9. StagesFor(u)
  <2>1. StageShape(download', build', apply')
    BY <1>2, <1>3, <1>5, StageTypes DEF StageShape
  <2> QED  BY <1>0, <1>3, <1>6, <1>7, <2>1, StageTypes DEF StagesFor, SameHeld
<1>10. TypeOK /\ Counted(u)
  BY <1>0 DEF CountInv
<1>11. /\ waiter' \in [Users -> [total : Int, err : BOOLEAN]] /\ waiter'[u].total = waiter[u].total + (n - 1)
       /\ \A v \in Users \ {u} : waiter'[v] = waiter[v]
  BY <1>0, <1>1, <1>1b, <1>10, Created
<1>12. TypeOK' /\ ShapeInv' /\ \A v \in Users \ {u} : SameFor(v)
  BY <1>0, <1>3, <1>8, <1>9, <1>10, <1>11, StagesTyped DEF TypeOK, HandlerPcs
<1>13. HeldOf(u)' = HeldOf(u) + (n - 1)
  <2> DEFINE x == Held(download, u)  y == Held(apply, u)
  <2>1. x \in Nat /\ y \in Nat
    BY StageTypes
  <2>2. HeldOf(u) = x + 1 + y /\ HeldOf(u)' = x + n + y
    BY <1>0, <1>3, <1>7 DEF HeldOf
  <2> HIDE DEF x, y
  <2> QED  BY <1>1b, <2>1, <2>2
<1>14. Load(u) > 0 /\ Load(u) \in Nat /\ Load(u)' = Load(u) + (n - 1)
  BY <1>0, <1>1b, <1>8, <1>9, <1>13, LoadHeld
<1>15. Counted(u)'
  <2>1. handler[u] \in Waiting /\ handler[u] # "sync" /\ handler' = handler
    BY <1>3, <1>10, <1>14 DEF Counted, Waiting
  <2>2. waiter[u].total = Load(u)
    BY <1>10, <1>14, <2>1 DEF Counted
  <2> QED  BY <1>1b, <1>11, <1>14, <2>1, <2>2 DEF Counted
<1> QED  BY <1>0, <1>12, <1>15 DEF StepFor

(* Chunks are built; all that is left is dropped when the job is cancelled. *)
LEMMA BuildSteps ==
    ASSUME CountInv, NEW u, u = Owner(build), BuildFails \/ BuildOnError \/ ChunkCancelled \/ BuildChunk
    PROVE  u \in Users /\ StepFor(u)
<1> USE DEF dataVars, handlerVars
<1> DEFINE r == Head(build.reqs)
<1>0. /\ u \in Users /\ r \in Request /\ r.user = u /\ HeldOf(u) > 0 /\ build.reqs # <<>>
      /\ Len(build.reqs) \in Nat /\ \A v : Held(build, v) = IF v = u THEN Len(build.reqs) ELSE 0
  BY BuildFields DEF BuildFails, BuildOnError, ChunkCancelled, BuildChunk
<1>1. CASE BuildFails
  <2>1. /\ build' = [build EXCEPT !.pc = "fail"] /\ build.pc = "divide"
        /\ jobDone' = [jobDone EXCEPT ![u] = TRUE] /\ Spend("errors")
        /\ UNCHANGED <<handler, ctxDone, waiter, meta, download, apply, imap, dataVars>>
    BY <1>1 DEF BuildFails
  <2>2. build' \in Stage(BuildPcs) /\ build'.pc = "fail" /\ build'.reqs = build.reqs /\ Owner(build') = u
    BY <2>1, PcStage, StageTypes DEF BuildPcs
  <2>3. DataFor(u)
    BY <1>0, <2>1, DataTypes, DataSame
  <2> QED  BY <1>0, <2>1, <2>2, <2>3, BuildMoves
<1>2. CASE BuildChunk
  <2>1. PICK bad \in SUBSET r.msgs :
           /\ budget' = budget \/ Spend("errors")
           /\ status' = [status EXCEPT ![u].failed = (status[u].failed \cup bad) \ (r.msgs \ bad)]
           /\ build' = [pc |-> "produce", reqs |-> <<[r EXCEPT !.msgs = r.msgs \ bad]>> \o Tail(build.reqs)]
    BY <1>2 DEF BuildChunk
  <2> DEFINE q == [r EXCEPT !.msgs = r.msgs \ bad]
             s == [status[u] EXCEPT !.failed = (status[u].failed \cup bad) \ (r.msgs \ bad)]
  <2>2. q \in Request /\ q.user = u /\ r.msgs \in SUBSET Messages
    BY <1>0, RequestFields
  <2>3. s \in StatusType /\ SetStatus(u, s)
    BY <1>0, <2>1, <2>2, DataTypes DEF StatusType, SetStatus
  <2>4. build' = [pc |-> "produce", reqs |-> <<q>> \o Tail(build.reqs)] /\ build.pc = "chunk"
    BY <1>2, <2>1 DEF BuildChunk
  <2> HIDE DEF q, s
  <2>5. /\ build' \in Stage(BuildPcs) /\ build'.pc = "produce" /\ build'.reqs # <<>> /\ Owner(build') = u
        /\ Len(build'.reqs) = Len(build.reqs)
    <3>1. build \in Stage(BuildPcs) /\ "produce" \in BuildPcs
      BY StageTypes DEF BuildPcs
    <3>2. build.reqs # <<>>
      BY <1>0
    <3> QED  BY <2>2, <2>4, <3>1, <3>2, FirstStage
  <2>6. status' \in [Users -> StatusType] /\ \A v \in Users \ {u} : status'[v] = status[v]
    BY <1>0, <2>3, StatusSet DEF CountInv
  <2>7. UNCHANGED <<handler, ctxDone, jobDone, waiter, meta, download, apply, imap, gone, published, applied>>
    BY <1>2 DEF BuildChunk
  <2>8. DataFor(u)
    BY <1>0, <2>1, <2>6, <2>7, DataTypes, DataSame
  <2> QED  BY <1>0, <2>4, <2>5, <2>7, <2>8, BuildMoves
<1>3. CASE BuildOnError \/ ChunkCancelled
  <2>1. /\ build' = Idle /\ onTaskFinished(u, Len(build.reqs), TRUE)
        /\ UNCHANGED <<ctxDone, jobDone, meta, download, apply, imap, dataVars, budget>>
    BY <1>3, StageTypes DEF BuildOnError, ChunkCancelled
  <2>2. /\ build' \in Stage(BuildPcs) /\ build'.pc = "idle" /\ build'.reqs = <<>>
        /\ \A v : Held(build', v) = 0
    BY <2>1, IdleStage DEF BuildPcs
  <2>3. DataFor(u)
    BY <1>0, <2>1, DataTypes, DataSame
  <2>4. StagesFor(u)
    <3>1. StageShape(download', build', apply')
      BY <2>1, <2>2, StageTypes DEF StageShape
    <3> QED  BY <1>0, <2>1, <2>2, <3>1, StageTypes DEF StagesFor, SameHeld
  <2>5. HeldOf(u)' = HeldOf(u) - Len(build.reqs)
    <3> DEFINE x == Held(download, u)  y == Held(apply, u)  z == Len(build.reqs)
    <3>1. x \in Nat /\ y \in Nat /\ z \in Nat
      BY <1>0, StageTypes
    <3>2. HeldOf(u) = x + z + y /\ HeldOf(u)' = x + 0 + y
      BY <1>0, <2>1, <2>2 DEF HeldOf
    <3> HIDE DEF x, y, z
    <3>3. HeldOf(u)' = HeldOf(u) - z
      BY <3>1, <3>2
    <3> QED  BY <3>3 DEF z
  <2> QED  BY <1>0, <2>1, <2>3, <2>4, <2>5, StageReports
<1> QED  BY <1>1, <1>2, <1>3

(* The first batch of the build stage goes to the apply stage, or is       *)
(* dropped.                                                                *)
LEMMA ConsumeApplyStep ==
    ASSUME CountInv, NEW u, u = Owner(build), ConsumeApply
    PROVE  u \in Users /\ StepFor(u)
<1> USE DEF dataVars
<1> DEFINE r == Head(build.reqs)
           k == Len(build.reqs)
<1>0. /\ u \in Users /\ r \in Request /\ r.user = u /\ HeldOf(u) > 0 /\ build.reqs # <<>>
      /\ k \in Nat /\ k >= 1 /\ \A v : Held(build, v) = IF v = u THEN k ELSE 0
  BY BuildFields DEF ConsumeApply
<1>1. /\ apply = Idle /\ UNCHANGED <<ctxDone, jobDone, meta, download, imap, dataVars, budget>>
      /\ build' = IF k = 1 THEN Idle ELSE [pc |-> "chunk", reqs |-> Tail(build.reqs)]
  BY DEF ConsumeApply
<1>2. \A v : Held(apply, v) = 0
  BY <1>1, IdleStage DEF ApplyPcs
<1>3. DataFor(u)
  BY <1>0, <1>1, DataTypes, DataSame
<1>4. /\ build' \in Stage(BuildPcs) /\ (build'.pc = "idle" <=> build'.reqs = <<>>)
      /\ build'.pc \in {"idle", "chunk"} /\ \A v : Held(build', v) = IF v = u THEN k - 1 ELSE 0
  <2>1. CASE k = 1
    BY <1>1, <2>1, IdleStage DEF BuildPcs
  <2>2. CASE k # 1
    <3>1. build \in Stage(BuildPcs) /\ "chunk" \in BuildPcs
      BY StageTypes DEF BuildPcs
    <3>2. /\ build' \in Stage(BuildPcs) /\ build'.pc = "chunk" /\ build'.reqs # <<>>
          /\ Owner(build') = u /\ Len(build'.reqs) = k - 1
      <4>1. build.reqs # <<>> /\ Len(build.reqs) # 1 /\ build' = [pc |-> "chunk", reqs |-> Tail(build.reqs)]
        BY <1>0, <1>1, <2>2
      <4> DEFINE b == build  c == build'
      <4>2. b \in Stage(BuildPcs) /\ "chunk" \in BuildPcs /\ b.reqs # <<>> /\ Len(b.reqs) # 1
            /\ c = [pc |-> "chunk", reqs |-> Tail(b.reqs)]
        BY <3>1, <4>1
      <4> HIDE DEF b, c
      <4>3. c \in Stage(BuildPcs) /\ c.pc = "chunk" /\ c.reqs # <<>> /\ Owner(c) = Owner(b) /\ Len(c.reqs) = Len(b.reqs) - 1
        BY <4>2, TailStage
      <4> QED  BY <4>3 DEF b, c
    <3> QED  BY <3>2 DEF Held
  <2> QED  BY <2>1, <2>2
<1>5. \A p, q : StageShape(download, build, p) /\ Len(q.reqs) = (IF q.pc = "idle" THEN 0 ELSE 1)
                => StageShape(download, build', q)
  BY <1>4 DEF StageShape
<1> DEFINE x == Held(download, u)  y == Held(apply', u)
<1>6. x \in Nat /\ HeldOf(u) = x + k /\ HeldOf(u)' = x + (k - 1) + y
  <2>1. x \in Nat /\ HeldOf(u) = x + k + 0 /\ HeldOf(u)' = x + (k - 1) + y
    BY <1>0, <1>1, <1>2, <1>4, StageTypes DEF HeldOf
  <2> HIDE DEF x, k, y
  <2> QED  BY <1>0, <2>1
<1>7. CASE jobDone[u]
  <2>1. apply' = apply /\ onTaskFinished(u, 1, TRUE)
    BY <1>7 DEF ConsumeApply
  <2>2. StageShape(download', build', apply')
    BY <1>1, <1>5, <2>1, StageTypes DEF StageShape
  <2>3. StagesFor(u)
    BY <1>0, <1>1, <1>4, <2>1, <2>2, StageTypes DEF StagesFor, SameHeld
  <2>4. HeldOf(u)' = HeldOf(u) - 1
    <3>1. y = 0
      BY <1>2, <2>1
    <3> HIDE DEF x, y, k
    <3> QED  BY <1>0, <1>6, <3>1
  <2> QED  BY <1>0, <1>3, <2>1, <2>3, <2>4, StageReports
<1>8. CASE ~jobDone[u]
  <2>1. PICK p \in {"finish", "request"} : apply' = [pc |-> p, reqs |-> <<r>>]
    BY <1>8 DEF ConsumeApply
  <2>2. UNCHANGED <<handler, waiter>>
    BY <1>8 DEF ConsumeApply
  <2> HIDE DEF r, k
  <2>3. /\ apply' \in Stage(ApplyPcs) /\ apply'.pc = p /\ Len(apply'.reqs) = 1
        /\ \A v : Held(apply', v) = IF u = v THEN 1 ELSE 0
    <3>1. p \in ApplyPcs
      BY DEF ApplyPcs
    <3> QED  BY <1>0, <2>1, <3>1, OneStage
  <2>4. StageShape(download', build', apply')
    BY <1>1, <1>5, <2>3, StageTypes
  <2>5. StagesFor(u)
    BY <1>0, <1>1, <1>2, <1>4, <2>3, <2>4, StageTypes DEF StagesFor, SameHeld
  <2>6. HeldOf(u)' = HeldOf(u)
    <3>1. y = 1
      BY <2>3
    <3> HIDE DEF x, y
    <3> QED  BY <1>0, <1>6, <3>1
  <2> QED  BY <1>0, <1>3, <2>2, <2>5, <2>6, StageMoves
<1> QED  BY <1>7, <1>8

-----------------------------------------------------------------------------
(* The apply stage and the IMAP loop. *)

(* What the apply stage has in its hands. *)
LEMMA ApplyFields ==
    ASSUME CountInv, NEW u, u = Owner(apply), apply.pc # "idle"
    PROVE  /\ u \in Users /\ Head(apply.reqs) \in Request /\ Head(apply.reqs).user = u
           /\ \A v : Held(apply, v) = IF v = u THEN 1 ELSE 0
           /\ HeldOf(u) > 0 /\ HeldOf(u) = Held(download, u) + Held(build, u) + 1
<1>1. /\ u \in Users /\ Head(apply.reqs) \in Request /\ Head(apply.reqs).user = u
      /\ \A v : Held(apply, v) = IF v = u THEN 1 ELSE 0
  BY StageTypes, OneBatch
<1> DEFINE a == Held(download, u)  b == Held(build, u)
<1>2. a \in Nat /\ b \in Nat /\ HeldOf(u) = a + b + 1
  BY <1>1, StageTypes DEF HeldOf
<1> HIDE DEF a, b
<1>3. HeldOf(u) > 0
  BY <1>2
<1> QED  BY <1>1, <1>2, <1>3 DEF a, b

(* The IMAP loop takes another batch, or none. *)
LEMMA ImapSet ==
    ASSUME CountInv, NEW u \in Users, NEW p \in {"select", "publish", "reply", "cancel"}, NEW S \in SUBSET Messages,
           imap' = [imap EXCEPT ![u] = [pc |-> p, msgs |-> S]]
    PROVE  /\ imap' \in [Users -> [pc : {"select", "publish", "reply", "cancel"}, msgs : SUBSET Messages]]
           /\ imap'[u] = [pc |-> p, msgs |-> S] /\ \A v \in Users \ {u} : imap'[v] = imap[v]
<1> DEFINE x == [pc |-> p, msgs |-> S]
<1>1. x \in [pc : {"select", "publish", "reply", "cancel"}, msgs : SUBSET Messages]
  OBVIOUS
<1> HIDE DEF x
<1>2. imap' = [imap EXCEPT ![u] = x]
  BY DEF x
<1>3. /\ imap' \in [Users -> [pc : {"select", "publish", "reply", "cancel"}, msgs : SUBSET Messages]]
      /\ imap'[u] = x /\ \A v \in Users \ {u} : imap'[v] = imap[v]
  BY <1>1, <1>2, DataTypes, FunSet
<1> QED  BY <1>3 DEF x

(* The IMAP loop moves on with the batch it has. *)
LEMMA ImapPcSet ==
    ASSUME CountInv, NEW u \in Users, NEW p \in {"select", "publish", "reply", "cancel"},
           imap' = [imap EXCEPT ![u].pc = p]
    PROVE  /\ imap' \in [Users -> [pc : {"select", "publish", "reply", "cancel"}, msgs : SUBSET Messages]]
           /\ imap'[u].pc = p /\ imap'[u].msgs = imap[u].msgs /\ \A v \in Users \ {u} : imap'[v] = imap[v]
<1>1. imap[u] \in [pc : {"select", "publish", "reply", "cancel"}, msgs : SUBSET Messages]
  BY DataTypes
<1>2. [imap[u] EXCEPT !.pc = p] = [pc |-> p, msgs |-> imap[u].msgs] /\ imap[u].msgs \in SUBSET Messages
  BY <1>1
<1>3. imap' = [imap EXCEPT ![u] = [pc |-> p, msgs |-> imap[u].msgs]]
  BY <1>2, DataTypes
<1>4. /\ imap' \in [Users -> [pc : {"select", "publish", "reply", "cancel"}, msgs : SUBSET Messages]]
      /\ imap'[u] = [pc |-> p, msgs |-> imap[u].msgs] /\ \A v \in Users \ {u} : imap'[v] = imap[v]
  BY <1>2, <1>3, ImapSet
<1> QED  BY <1>4

(* The steps of the apply stage. *)
LEMMA ApplySteps ==
    ASSUME CountInv, NEW u, u = Owner(apply),
           ApplyStep \/ \E v \in Users : Reply(v)
    PROVE  u \in Users /\ StepFor(u)
<1> USE DEF dataVars, handlerVars
<1> DEFINE r == Head(apply.reqs)
<1>0. /\ u \in Users /\ r \in Request /\ r.user = u /\ HeldOf(u) > 0 /\ apply.pc # "idle"
      /\ r.msgs \in SUBSET Messages /\ HeldOf(u) = Held(download, u) + Held(build, u) + 1
      /\ \A v : Held(apply, v) = IF v = u THEN 1 ELSE 0
  <2>1. apply.pc # "idle"
    BY DEF ApplyStep, SendRequest, SendRequestCancelled, UpdatesDone, ApplyFails, ApplyOnError, OnJobFinished, Reply
  <2> QED  BY <2>1, ApplyFields, RequestFields
<1>1. CASE SendRequest
  <2>1. /\ apply' = [apply EXCEPT !.pc = "reply"] /\ imap' = [imap EXCEPT ![u] = [pc |-> "publish", msgs |-> r.msgs]]
        /\ UNCHANGED <<handlerVars, meta, download, build, dataVars, budget>>
    BY <1>1 DEF SendRequest, ApplyMsgs
  <2>2. /\ imap' \in [Users -> [pc : {"select", "publish", "reply", "cancel"}, msgs : SUBSET Messages]]
        /\ \A v \in Users \ {u} : imap'[v] = imap[v]
    BY <1>0, <2>1, ImapSet
  <2>3. DataFor(u)
    BY <1>0, <2>1, <2>2, DataTypes, DataSame
  <2> QED  BY <1>0, <2>1, <2>3, ApplyMoves DEF ApplyPcs
<1>2. CASE SendRequestCancelled \/ UpdatesDone
  <2>1. PICK p \in {"fail", "finish"} : apply' = [apply EXCEPT !.pc = p]
    BY <1>2 DEF SendRequestCancelled, UpdatesDone
  <2>2. UNCHANGED <<handlerVars, meta, download, build, imap, dataVars, budget>>
    BY <1>2 DEF SendRequestCancelled, UpdatesDone
  <2>3. DataFor(u)
    BY <1>0, <2>2, DataTypes, DataSame
  <2> QED  BY <1>0, <2>1, <2>2, <2>3, ApplyMoves DEF ApplyPcs
<1>3. CASE ApplyFails
  <2>1. /\ apply' = [apply EXCEPT !.pc = "fail"] /\ jobDone' = [jobDone EXCEPT ![u] = TRUE] /\ Spend("errors")
        /\ UNCHANGED <<handler, ctxDone, waiter, meta, download, build, imap, dataVars>>
    BY <1>3 DEF ApplyFails
  <2>2. DataFor(u)
    BY <1>0, <2>1, DataTypes, DataSame
  <2> QED  BY <1>0, <2>1, <2>2, ApplyMoves DEF ApplyPcs
<1>4. CASE \E v \in Users : Reply(v)
  <2>1. /\ apply' = [apply EXCEPT !.pc = "updates"] /\ imap' = [imap EXCEPT ![u] = [pc |-> "select", msgs |-> {}]]
        /\ UNCHANGED <<handlerVars, meta, download, build, dataVars, budget>>
    BY <1>4 DEF Reply
  <2>2. /\ imap' \in [Users -> [pc : {"select", "publish", "reply", "cancel"}, msgs : SUBSET Messages]]
        /\ \A v \in Users \ {u} : imap'[v] = imap[v]
    <3>1. {} \in SUBSET Messages /\ "select" \in {"select", "publish", "reply", "cancel"}
      OBVIOUS
    <3> QED  BY <1>0, <2>1, <3>1, ImapSet
  <2>3. DataFor(u)
    BY <1>0, <2>1, <2>2, DataTypes, DataSame
  <2> QED  BY <1>0, <2>1, <2>3, ApplyMoves DEF ApplyPcs
<1>5. CASE ApplyOnError \/ OnJobFinished
  <2>1. /\ apply' = Idle /\ UNCHANGED <<ctxDone, meta, download, build, imap, gone, published, applied, budget>>
        /\ jobDone' = jobDone \/ jobDone' = [jobDone EXCEPT ![u] = TRUE]
    BY <1>5 DEF ApplyOnError, OnJobFinished
  <2>2. PICK err \in BOOLEAN : onTaskFinished(u, 1, err)
    BY <1>5 DEF ApplyOnError, OnJobFinished
  <2>3. status' \in [Users -> StatusType] /\ \A v \in Users \ {u} : status'[v] = status[v]
    <3>1. CASE ApplyOnError
      BY <3>1, DataTypes DEF ApplyOnError
    <3>2. CASE OnJobFinished
      <4> DEFINE s == [status[u] EXCEPT !.last = r.last, !.num = status[u].num + r.count]
      <4>1. s \in StatusType
        <5>1. r.last \in 0..NumMessages /\ r.count \in Nat
          BY <1>0, RequestFields, PipelineAssumption DEF Messages
        <5>2. status[u] \in StatusType /\ status[u].num + r.count \in Nat
          BY <1>0, <5>1, DataTypes DEF StatusType
        <5> HIDE DEF r
        <5> QED  BY <5>1, <5>2 DEF StatusType
      <4>2. SetStatus(u, s)
        BY <3>2 DEF OnJobFinished, SetStatus
      <4> QED  BY <1>0, <4>1, <4>2, StatusSet DEF CountInv
    <3> QED  BY <1>5, <3>1, <3>2
  <2>4. DataFor(u)
    BY <1>0, <2>1, <2>3, DataTypes, DataSame
  <2>5. /\ apply' \in Stage(ApplyPcs) /\ apply'.pc = "idle" /\ Len(apply'.reqs) = 0 /\ \A v : Held(apply', v) = 0
    BY <2>1, IdleStage DEF ApplyPcs
  <2>6. StageShape(download', build', apply')
    BY <2>1, <2>5, StageTypes DEF StageShape
  <2>7. StagesFor(u)
    BY <1>0, <2>1, <2>5, <2>6, StageTypes DEF StagesFor, SameHeld
  <2>8. HeldOf(u)' = HeldOf(u) - 1
    <3> DEFINE a == Held(download, u)  b == Held(build, u)
    <3>1. a \in Nat /\ b \in Nat /\ HeldOf(u) = a + b + 1 /\ HeldOf(u)' = a + b + 0
      BY <1>0, <2>1, <2>5, StageTypes DEF HeldOf
    <3> HIDE DEF a, b
    <3> QED  BY <3>1
  <2> QED  BY <1>0, <2>2, <2>4, <2>7, <2>8, StageReports
<1> QED  BY <1>1, <1>2, <1>3, <1>4, <1>5 DEF ApplyStep

(* The steps of the IMAP loop, and of Gluon. *)
LEMMA ImapSteps ==
    ASSUME CountInv, NEW u \in Users,
           CancelSync(u) \/ GluonApplies(u) \/ PublishUpdates(u) \/ CancelWaited(u) \/ ClearSyncStatus(u)
    PROVE  StepFor(u)
<1> USE DEF dataVars, handlerVars, stageVars
<1>0. TypeOK /\ Counted(u) /\ ShapeInv
  BY DEF CountInv
<1>1. /\ UNCHANGED <<waiter, meta, download, build, apply, gone>>
      /\ \A v \in Users \ {u} : SameHeld(download, download', v) /\ SameHeld(build, build', v) /\ SameHeld(apply, apply', v)
  BY DEF CancelSync, GluonApplies, PublishUpdates, CancelWaited, ClearSyncStatus, SameHeld
<1>2. ShapeInv' /\ Load(u)' = Load(u)
  BY <1>0, <1>1 DEF ShapeInv, Load, Running, Batches
<1>3. CASE CancelSync(u)
  <2>1. /\ imap' \in [Users -> [pc : {"select", "publish", "reply", "cancel"}, msgs : SUBSET Messages]]
        /\ \A v \in Users \ {u} : imap'[v] = imap[v]
    BY <1>3, ImapPcSet DEF CancelSync
  <2>2. /\ ctxDone' \in [Users -> BOOLEAN] /\ jobDone' \in [Users -> BOOLEAN]
        /\ \A v \in Users \ {u} : ctxDone'[v] = ctxDone[v] /\ jobDone'[v] = jobDone[v]
    BY <1>0, <1>3 DEF CancelSync, TypeOK
  <2>3. /\ handler' \in [Users -> HandlerPcs] /\ \A v \in Users \ {u} : handler'[v] = handler[v]
        /\ handler'[u] = IF handler[u] = "blocked" THEN "drain" ELSE handler[u]
    BY <1>0, <1>3 DEF CancelSync, TypeOK, HandlerPcs
  <2>4. budget' \in [{"errors", "cancels", "crashes"} -> Nat]
    BY <1>0, <1>3, SpendType DEF CancelSync
  <2>5. UNCHANGED <<status, published, applied>>
    BY <1>3 DEF CancelSync
  <2>6. TypeOK'
    BY <1>0, <1>1, <2>1, <2>2, <2>3, <2>4, <2>5 DEF TypeOK, HandlerPcs
  <2>7. Counted(u)'
    BY <1>0, <1>1, <1>2, <2>3 DEF Counted, Waiting
  <2>8. \A v \in Users \ {u} : SameFor(v)
    BY <1>1, <2>1, <2>2, <2>3, <2>5 DEF SameFor
  <2> QED  BY <1>2, <2>6, <2>7, <2>8 DEF StepFor
<1>4. CASE GluonApplies(u) \/ PublishUpdates(u) \/ CancelWaited(u) \/ ClearSyncStatus(u)
  <2>1. UNCHANGED <<handler, ctxDone, jobDone, budget>>
    BY <1>4 DEF GluonApplies, PublishUpdates, CancelWaited, ClearSyncStatus
  <2>2. /\ imap' \in [Users -> [pc : {"select", "publish", "reply", "cancel"}, msgs : SUBSET Messages]]
        /\ \A v \in Users \ {u} : imap'[v] = imap[v]
    BY <1>4, ImapPcSet, DataTypes DEF GluonApplies, PublishUpdates, CancelWaited, ClearSyncStatus
  <2>3. /\ published' \in [Users -> SUBSET Messages] /\ \A v \in Users \ {u} : published'[v] = published[v]
    <3>1. imap[u].msgs \in SUBSET Messages
      BY DataTypes
    <3> QED  BY <1>4, <3>1, DataTypes DEF GluonApplies, PublishUpdates, CancelWaited, ClearSyncStatus
  <2>4. /\ applied' \in [Users -> SUBSET Messages] /\ \A v \in Users \ {u} : applied'[v] = applied[v]
    <3>1. applied \in [Users -> SUBSET Messages]
      BY <1>0 DEF TypeOK
    <3>2. CASE GluonApplies(u)
      <4>1. PICK m \in published[u] \ applied[u] : applied' = [applied EXCEPT ![u] = @ \cup {m}]
        BY <3>2 DEF GluonApplies
      <4>2. applied[u] \cup {m} \in SUBSET Messages
        BY <3>1, DataTypes
      <4> QED  BY <3>1, <4>1, <4>2
    <3> QED  BY <1>4, <3>1, <3>2 DEF PublishUpdates, CancelWaited, ClearSyncStatus
  <2>5. status' \in [Users -> StatusType] /\ \A v \in Users \ {u} : status'[v] = status[v]
    <3>1. DefaultStatus \in StatusType
      BY PipelineAssumption DEF DefaultStatus, StatusType
    <3>2. status' = status \/ SetStatus(u, DefaultStatus)
      BY <1>4 DEF GluonApplies, PublishUpdates, CancelWaited, ClearSyncStatus, SetStatus
    <3> QED  BY <1>0, <3>1, <3>2, StatusSet, DataTypes
  <2>6. TypeOK'
    BY <1>0, <1>1, <2>1, <2>2, <2>3, <2>4, <2>5 DEF TypeOK, StatusType
  <2>7. Counted(u)'
    BY <1>0, <1>1, <1>2, <2>1 DEF Counted
  <2>8. \A v \in Users \ {u} : SameFor(v)
    BY <1>1, <2>1, <2>2, <2>3, <2>4, <2>5 DEF SameFor
  <2> QED  BY <1>2, <2>6, <2>7, <2>8 DEF StepFor
<1> QED  BY <1>3, <1>4

(* An empty pipeline. *)
LEMMA IdleEverywhere ==
    ASSUME handler = [u \in Users |-> "idle"], waiter = [u \in Users |-> [total |-> 0, err |-> FALSE]],
           meta = [u \in Users |-> NoMeta], download = Idle, build = Idle, apply = Idle
    PROVE  /\ ShapeInv /\ \A u \in Users : Counted(u)
           /\ waiter \in [Users -> [total : Int, err : BOOLEAN]] /\ meta \in [Users -> MetaType]
           /\ download \in Stage(DownloadPcs) /\ build \in Stage(BuildPcs) /\ apply \in Stage(ApplyPcs)
<1>1. /\ download \in Stage(DownloadPcs) /\ build \in Stage(BuildPcs) /\ apply \in Stage(ApplyPcs)
      /\ StageShape(Idle, Idle, Idle) /\ \A u : Held(Idle, u) = 0
  BY IdleStage DEF DownloadPcs, BuildPcs, ApplyPcs, StageShape
<1>2. ShapeInv
  BY <1>1, NoMetaType DEF ShapeInv
<1>3. \A u \in Users : Running(u) = 0 /\ Batches(u) = 0 /\ waiter[u].total = 0 /\ handler[u] = "idle"
  BY NoMetaType DEF Running, Batches, NoMeta
<1>4. \A u \in Users : Counted(u)
  BY <1>1, <1>3 DEF Counted, Load
<1> QED  BY <1>1, <1>2, <1>4, NoMetaType

(* The initial state. *)
LEMMA InitCounted == Init => CountInv
<1> SUFFICES ASSUME Init
             PROVE  CountInv
  OBVIOUS
<1>1. /\ ShapeInv /\ \A u \in Users : Counted(u)
      /\ waiter \in [Users -> [total : Int, err : BOOLEAN]] /\ meta \in [Users -> MetaType]
      /\ download \in Stage(DownloadPcs) /\ build \in Stage(BuildPcs) /\ apply \in Stage(ApplyPcs)
  BY IdleEverywhere DEF Init
<1>2. DefaultStatus \in StatusType
  BY PipelineAssumption DEF DefaultStatus, StatusType
<1>3. budget \in [{"errors", "cancels", "crashes"} -> Nat]
  BY PipelineAssumption DEF Init
<1>4. TypeOK
  BY <1>1, <1>2, <1>3 DEF Init, TypeOK, StatusType, MetaType, DownloadPcs, BuildPcs, ApplyPcs
<1> QED  BY <1>1, <1>4 DEF CountInv

(* A crash empties the pipeline. *)
LEMMA CrashCounted ==
    ASSUME CountInv, Crash
    PROVE  CountInv'
<1>0. TypeOK
  BY DEF CountInv
<1>1. /\ handler' = [u \in Users |-> "idle"] /\ waiter' = [u \in Users |-> [total |-> 0, err |-> FALSE]]
      /\ meta' = [u \in Users |-> NoMeta] /\ download' = Idle /\ build' = Idle /\ apply' = Idle
  BY DEF Crash
<1>2. /\ download' \in Stage(DownloadPcs) /\ build' \in Stage(BuildPcs) /\ apply' \in Stage(ApplyPcs)
      /\ StageShape(download', build', apply') /\ \A u : Held(Idle, u) = 0
  BY <1>1, IdleStage DEF DownloadPcs, BuildPcs, ApplyPcs, StageShape
<1>3. meta' \in [Users -> MetaType] /\ waiter' \in [Users -> [total : Int, err : BOOLEAN]]
  BY <1>1, NoMetaType
<1>4. ShapeInv'
  BY <1>1, <1>2, NoMetaType DEF ShapeInv
<1>5. \A u \in Users : Running(u)' = 0 /\ Batches(u)' = 0 /\ waiter'[u].total = 0 /\ handler'[u] = "idle"
  BY <1>1, NoMetaType DEF Running, Batches, NoMeta
<1>6. \A u \in Users : Counted(u)'
  BY <1>1, <1>2, <1>5 DEF Counted, Load
<1>7. budget' \in [{"errors", "cancels", "crashes"} -> Nat]
  BY <1>0, SpendType DEF Crash
<1>8. TypeOK'
  BY <1>0, <1>2, <1>3, <1>7 DEF Crash, TypeOK, MetaType, DownloadPcs, BuildPcs, ApplyPcs
<1> QED  BY <1>4, <1>6, <1>8 DEF CountInv

(* Every step keeps the count. *)
LEMMA CountInvariant == CountInv /\ [Next]_vars => CountInv'
<1> SUFFICES ASSUME CountInv, [Next]_vars
             PROVE  CountInv'
  OBVIOUS
<1>1. CASE Crash
  BY <1>1, CrashCounted
<1>2. ASSUME NEW u \in Users, Execute(u) \/ CancelSync(u) \/ HandlerStep(u) \/ MetadataStep(u) \/ GluonApplies(u)
             \/ PublishUpdates(u) \/ CancelWaited(u) \/ ClearSyncStatus(u)
      PROVE  CountInv'
  <2>1. StepFor(u)
    BY <1>2, HandlerSteps, JobSteps, MetadataSteps, ImapSteps DEF HandlerStep
  <2> QED  BY <2>1, StepCounted
<1>3. CASE \E u \in Users : Reply(u)
  BY <1>3, ApplySteps, StepCounted
<1>4. CASE DownloadStep
  BY <1>4, DownloadSteps, ConsumeBuildStep, StepCounted DEF DownloadStep
<1>5. CASE BuildStep
  BY <1>5, ChunkDivideStep, BuildSteps, ConsumeApplyStep, StepCounted DEF BuildStep
<1>6. CASE ApplyStep
  BY <1>6, ApplySteps, StepCounted
<1>7. CASE UNCHANGED vars
  <2>1. TypeOK'
    BY <1>7 DEF CountInv, TypeOK, vars, handlerVars, stageVars, dataVars
  <2>2. ShapeInv'
    BY <1>7 DEF CountInv, ShapeInv, vars, handlerVars, stageVars, dataVars
  <2>3. ASSUME NEW u \in Users
        PROVE  Counted(u)'
    BY <1>7 DEF CountInv, Counted, Load, Running, Batches, vars, handlerVars, stageVars, dataVars
  <2> QED  BY <2>1, <2>2, <2>3 DEF CountInv
<1> QED  BY <1>1, <1>2, <1>3, <1>4, <1>5, <1>6, <1>7 DEF Next, ImapStep

(* So the invariant holds in every reachable state. *)
LEMMA AlwaysCounted == Spec => []CountInv
  BY InitCounted, CountInvariant, PTL DEF Spec

(* jobWaiter, "Child count less than 0, shouldn't happen...": for any      *)
(* users, messages and batches, and whatever fails, is cancelled or        *)
(* crashes, the count of a job's waiter is the number of its tasks that    *)
(* have still to report.                                                   *)
THEOREM TasksAreCounted == Spec => [](TypeOK /\ TasksCounted)
<1>1. CountInv => TypeOK /\ TasksCounted
  BY CountedIsCounted DEF CountInv
<1> QED  BY <1>1, AlwaysCounted, PTL

-----------------------------------------------------------------------------
(* What the batches of a job have to do with each other. *)

(* A batch has the messages after prev, up to its last one, but for the    *)
(* ones that are excused: they failed, or are gone from the server.        *)
Covers(r, prev, excused) ==
    /\ prev < r.last /\ r.msgs \subseteq prev + 1 .. r.last
    /\ prev + 1 .. r.last \subseteq r.msgs \cup excused
Excused(u) == status[u].failed \cup gone[u]

(* The last message of a stage, or of the stage after it.                  *)
After(stage, u, prev) == IF Held(stage, u) # 0 THEN stage.reqs[Len(stage.reqs)].last ELSE prev
Applied(u)    == After(apply, u, status[u].last)
Built(u)      == After(build, u, Applied(u))
Downloaded(u) == After(download, u, Built(u))

(* What the sync state has behind it was dealt with. *)
SkipOf(u) == 1..status[u].last \subseteq published[u] \cup Excused(u)

(* A job that cancelled itself has an error, or is about to report one.    *)
JobStates == {"sync", "wait", "blocked", "drain", "joined"}
Failing(u) ==
    \/ meta[u].pc = "fail"
    \/ download.pc = "fail" /\ Held(download, u) # 0
    \/ build.pc = "fail" /\ Held(build, u) # 0
    \/ apply.pc = "fail" /\ Held(apply, u) # 0
ErrorOf(u) ==
    /\ handler[u] \in JobStates /\ jobDone[u] /\ ~ctxDone[u] => waiter[u].err \/ Failing(u)
    /\ Failing(u) => jobDone[u]

(* The apply stage goes on where the sync state ends, and what it has got  *)
(* a reply for was published.                                              *)
ApplyOf(u) ==
    Held(apply, u) # 0 /\ apply.pc # "fail" =>
        /\ Covers(Head(apply.reqs), status[u].last, Excused(u))
        /\ apply.pc \in {"updates", "finish"} => Head(apply.reqs).msgs \subseteq published[u]
        /\ apply.pc = "reply" => /\ imap[u].pc \in {"publish", "reply"}
                                 /\ imap[u].msgs = Head(apply.reqs).msgs
                                 /\ imap[u].pc = "reply" => imap[u].msgs \subseteq published[u]

(* As long as the job is not cancelled, each batch goes on where the one   *)
(* before it ends, and the goroutine ends with the last message.           *)
BuildChain(u) ==
    Held(build, u) # 0 => \A i \in DOMAIN build.reqs :
        /\ Covers(build.reqs[i], IF i = 1 THEN Applied(u) ELSE build.reqs[i - 1].last, Excused(u))
        /\ \A j \in DOMAIN build.reqs : i < j => build.reqs[i].last < build.reqs[j].last
DownloadChain(u) == Held(download, u) # 0 => Covers(Head(download.reqs), Built(u), Excused(u))
MetaChain(u) ==
    /\ meta[u].pc = "produce" => /\ Covers(Head(meta[u].reqs), Downloaded(u), Excused(u))
                                 /\ meta[u].next = Head(meta[u].reqs).last + 1
    /\ meta[u].pc \in {"check", "next", "end"} => meta[u].next = Downloaded(u) + 1
    /\ meta[u].pc = "end" => meta[u].next .. NumMessages \subseteq gone[u]
Started == {"wait", "blocked", "drain", "joined"}
EndChain(u) ==
    meta[u].pc = "none" /\ handler[u] \in Started => Downloaded(u) + 1 .. NumMessages \subseteq gone[u]
ChainOf(u) == BuildChain(u) /\ DownloadChain(u) /\ MetaChain(u) /\ EndChain(u)

SyncedOf(u) == SkipOf(u) /\ ErrorOf(u) /\ ApplyOf(u) /\ (~jobDone[u] => ChainOf(u))
SyncedInv == CountInv /\ \A u \in Users : SyncedOf(u)

-----------------------------------------------------------------------------

(* A stage that holds nothing for v before and after a step is the same    *)
(* stage to v.                                                             *)
LEMMA SameHeldFacts ==
    ASSUME NEW old, NEW new, NEW v, SameHeld(old, new, v)
    PROVE  /\ Held(new, v) = Held(old, v) /\ (Held(old, v) # 0 => new = old)
           /\ \A prev : After(new, v, prev) = After(old, v, prev)
  BY DEF SameHeld, After

(* A step about another user leaves the facts about v alone. *)
LEMMA SameSynced ==
    ASSUME NEW v \in Users, SyncedOf(v), SameFor(v)
    PROVE  SyncedOf(v)'
<1>1. /\ handler'[v] = handler[v] /\ ctxDone'[v] = ctxDone[v] /\ jobDone'[v] = jobDone[v]
      /\ waiter'[v] = waiter[v] /\ meta'[v] = meta[v] /\ imap'[v] = imap[v] /\ status'[v] = status[v]
      /\ gone'[v] = gone[v] /\ published'[v] = published[v]
  BY DEF SameFor
<1>2. /\ Held(download', v) = Held(download, v) /\ (Held(download, v) # 0 => download' = download)
      /\ Held(build', v) = Held(build, v) /\ (Held(build, v) # 0 => build' = build)
      /\ Held(apply', v) = Held(apply, v) /\ (Held(apply, v) # 0 => apply' = apply)
  BY SameHeldFacts DEF SameFor
<1>3. Excused(v)' = Excused(v)
  BY <1>1 DEF Excused
<1>4. Applied(v)' = Applied(v)
  BY <1>1, <1>2 DEF Applied, After
<1>5. Built(v)' = Built(v)
  BY <1>2, <1>4 DEF Built, After
<1>6. Downloaded(v)' = Downloaded(v)
  BY <1>2, <1>5 DEF Downloaded, After
<1>7. SkipOf(v)'
  BY <1>1, <1>3 DEF SkipOf, SyncedOf
<1>8. ErrorOf(v)'
  <2>1. Failing(v)' = Failing(v)
    BY <1>1, <1>2 DEF Failing
  <2> QED  BY <1>1, <2>1 DEF ErrorOf, SyncedOf
<1>9. ApplyOf(v)'
  BY <1>1, <1>2, <1>3 DEF ApplyOf, SyncedOf
<1>10. ~jobDone'[v] => ChainOf(v)'
  <2> SUFFICES ASSUME ~jobDone'[v]
               PROVE  ChainOf(v)'
    OBVIOUS
  <2>1. ChainOf(v)
    BY <1>1 DEF SyncedOf
  <2>2. BuildChain(v)'
    BY <1>2, <1>3, <1>4, <2>1 DEF ChainOf, BuildChain
  <2>3. DownloadChain(v)'
    BY <1>2, <1>3, <1>5, <2>1 DEF ChainOf, DownloadChain
  <2>4. MetaChain(v)'
    BY <1>1, <1>3, <1>6, <2>1 DEF ChainOf, MetaChain
  <2>5. EndChain(v)'
    BY <1>1, <1>6, <2>1 DEF ChainOf, EndChain
  <2> QED  BY <2>2, <2>3, <2>4, <2>5 DEF ChainOf
<1> QED  BY <1>7, <1>8, <1>9, <1>10 DEF SyncedOf

(* It is enough to look at the user that a step is about. *)
LEMMA StepSynced ==
    ASSUME SyncedInv, NEW u \in Users, StepFor(u), SyncedOf(u)'
    PROVE  SyncedInv'
<1>1. CountInv'
  BY StepCounted DEF SyncedInv
<1>2. \A v \in Users : SyncedOf(v)'
  BY SameSynced DEF SyncedInv, StepFor
<1> QED  BY <1>1, <1>2 DEF SyncedInv

-----------------------------------------------------------------------------
(* The handler. *)

(* Nothing but the handler and the flags of the sync state change. *)
LEMMA HandlerSynced ==
    ASSUME NEW u \in Users, SyncedOf(u),
           UNCHANGED <<meta, stageVars, imap, gone, published>>,
           status'[u].last = status[u].last, status'[u].failed = status[u].failed,
           handler'[u] \in Started => handler[u] \in Started,
           jobDone'[u] = jobDone[u], ErrorOf(u)'
    PROVE  SyncedOf(u)'
<1> USE DEF stageVars
<1>1. Excused(u)' = Excused(u) /\ Applied(u)' = Applied(u)
  BY DEF Excused, Applied, After
<1>2. Built(u)' = Built(u)
  BY <1>1 DEF Built, After
<1>3. Downloaded(u)' = Downloaded(u)
  BY <1>2 DEF Downloaded, After
<1>4. SkipOf(u)' /\ ApplyOf(u)'
  BY <1>1 DEF SyncedOf, SkipOf, ApplyOf
<1>5. ASSUME ChainOf(u)
      PROVE  ChainOf(u)'
  <2>1. BuildChain(u)'
    BY <1>1, <1>5 DEF ChainOf, BuildChain
  <2>2. DownloadChain(u)'
    BY <1>1, <1>2, <1>5 DEF ChainOf, DownloadChain
  <2>3. MetaChain(u)'
    BY <1>1, <1>3, <1>5 DEF ChainOf, MetaChain
  <2>4. EndChain(u)'
    BY <1>3, <1>5 DEF ChainOf, EndChain
  <2> QED  BY <2>1, <2>2, <2>3, <2>4 DEF ChainOf
<1> QED  BY <1>4, <1>5 DEF SyncedOf

(* The steps of the handler that leave the job alone. *)
LEMMA HandlerStepsSynced ==
    ASSUME SyncedInv, NEW u \in Users,
           \/ Execute(u) \/ CheckAborted(u) \/ SyncLabels(u) \/ RunFails(u) \/ WaitAndClose(u)
           \/ Drain(u) \/ Joined(u) \/ WakeUp(u) \/ SyncFinished(u)
    PROVE  SyncedOf(u)'
<1> USE DEF dataVars, stageVars
<1>0. SyncedOf(u) /\ ErrorOf(u) /\ TypeOK
  BY DEF SyncedInv, SyncedOf, CountInv
<1>1. UNCHANGED <<jobDone, waiter, meta, stageVars, imap, gone, published>>
  BY DEF Execute, CheckAborted, SyncLabels, RunFails, WaitAndClose, Drain, Joined, WakeUp, SyncFinished
<1>2. status'[u].last = status[u].last /\ status'[u].failed = status[u].failed
  <2>1. status[u] \in StatusType /\ status \in [Users -> StatusType]
    BY DataTypes DEF SyncedInv
  <2>2. CASE SyncLabels(u)
    BY <2>1, <2>2 DEF SyncLabels, StatusType
  <2>3. CASE Joined(u)
    BY <2>1, <2>3 DEF Joined, StatusType
  <2> QED  BY <2>2, <2>3 DEF Execute, CheckAborted, RunFails, WaitAndClose, Drain, WakeUp, SyncFinished
<1>3. PICK p : GoTo(u, p) /\ (p \in Started => handler[u] \in Started) /\ (p \in JobStates => handler[u] \in JobStates)
               /\ (ctxDone' = ctxDone \/ p \notin JobStates)
  BY DEF Execute, CheckAborted, SyncLabels, RunFails, WaitAndClose, Drain, Joined, WakeUp, SyncFinished,
         Started, JobStates
<1>4. handler'[u] = p
  BY <1>0, <1>3 DEF GoTo, TypeOK
<1>5. ErrorOf(u)'
  <2>1. Failing(u)' = Failing(u)
    BY <1>1 DEF Failing
  <2> QED  BY <1>0, <1>1, <1>3, <1>4, <2>1 DEF ErrorOf
<1> QED  BY <1>0, <1>1, <1>2, <1>3, <1>4, <1>5, HandlerSynced

(* A user with nothing in the pipeline. *)
LEMMA NothingLoaded ==
    ASSUME CountInv, NEW u \in Users, Load(u) = 0
    PROVE  /\ meta[u].pc = "none" /\ Held(download, u) = 0 /\ Held(build, u) = 0 /\ Held(apply, u) = 0
           /\ ~Failing(u) /\ ApplyOf(u) /\ Downloaded(u) = status[u].last
           /\ handler[u] \notin Started => ChainOf(u)
<1>1. Running(u) = 0 /\ Held(download, u) = 0 /\ Held(build, u) = 0 /\ Held(apply, u) = 0
  BY LoadIsNat DEF CountInv
<1>2. meta[u].pc = "none"
  BY <1>1 DEF Running
<1>3. ~Failing(u) /\ ApplyOf(u)
  BY <1>1, <1>2 DEF Failing, ApplyOf
<1>4. Downloaded(u) = status[u].last
  BY <1>1 DEF Downloaded, Built, Applied, After
<1>5. handler[u] \notin Started => ChainOf(u)
  BY <1>1, <1>2 DEF ChainOf, BuildChain, DownloadChain, MetaChain, EndChain
<1> QED  BY <1>1, <1>2, <1>3, <1>4, <1>5

(* A job is made, sent to the pipeline at the message the sync state       *)
(* names, or given up.                                                     *)
LEMMA JobStepsSynced ==
    ASSUME SyncedInv, NEW u \in Users, CountAndNewJob(u) \/ Sync(u) \/ SyncCancelled(u)
    PROVE  SyncedOf(u)'
<1> USE DEF dataVars, stageVars
<1>0. CountInv /\ SyncedOf(u) /\ ErrorOf(u) /\ TypeOK /\ Load(u) = 0 /\ handler \in [Users -> HandlerPcs]
  <2>1. CountInv /\ SyncedOf(u) /\ ErrorOf(u) /\ TypeOK /\ Counted(u)
    BY DEF SyncedInv, SyncedOf, CountInv
  <2> QED  BY <2>1 DEF Counted, Waiting, CountAndNewJob, Sync, SyncCancelled, TypeOK, HandlerPcs
<1>1. /\ meta[u].pc = "none" /\ Held(download, u) = 0 /\ Held(build, u) = 0 /\ Held(apply, u) = 0
      /\ ~Failing(u) /\ ApplyOf(u) /\ Downloaded(u) = status[u].last
  BY <1>0, NothingLoaded
<1>2. /\ UNCHANGED <<stageVars, imap, gone, published>>
      /\ status'[u].last = status[u].last /\ status'[u].failed = status[u].failed
  <2>1. status[u] \in StatusType /\ status \in [Users -> StatusType]
    BY <1>0, DataTypes
  <2>2. CASE CountAndNewJob(u)
    BY <2>1, <2>2 DEF CountAndNewJob, StatusType
  <2> QED  BY <2>2 DEF Sync, SyncCancelled
<1>3. SkipOf(u)' /\ ApplyOf(u)' /\ Downloaded(u)' = status[u].last
  BY <1>0, <1>1, <1>2 DEF SyncedOf, SkipOf, Excused, ApplyOf, Downloaded, Built, Applied, After
<1>4. CASE CountAndNewJob(u) \/ SyncCancelled(u)
  <2>1. /\ meta' = meta /\ handler'[u] \notin Started
        /\ handler'[u] \in JobStates => jobDone'[u] = ctxDone'[u]
    BY <1>0, <1>4 DEF CountAndNewJob, SyncCancelled, GoTo, Started, JobStates, TypeOK
  <2>2. ~Failing(u)'
    BY <1>1, <1>2, <2>1 DEF Failing
  <2>3. ErrorOf(u)'
    BY <2>1, <2>2 DEF ErrorOf
  <2>4. ChainOf(u)'
    BY <1>1, <1>2, <2>1 DEF ChainOf, BuildChain, DownloadChain, MetaChain, EndChain
  <2> QED  BY <1>3, <2>3, <2>4 DEF SyncedOf
<1>5. CASE Sync(u)
  <2>1. /\ handler'[u] = "wait" /\ handler[u] = "sync" /\ UNCHANGED <<ctxDone, jobDone, waiter>>
        /\ meta'[u] = [pc |-> "check", next |-> status[u].last + 1, reqs |-> <<>>]
    BY <1>0, <1>5 DEF Sync, GoTo, TypeOK
  <2>2. meta'[u].pc = "check" /\ meta'[u].next = status[u].last + 1
    BY <2>1
  <2>3. Failing(u)' = Failing(u)
    BY <1>1, <1>2, <2>2 DEF Failing
  <2>4. ErrorOf(u)'
    BY <1>0, <2>1, <2>3 DEF ErrorOf, JobStates
  <2>5. ChainOf(u)'
    BY <1>1, <1>2, <1>3, <2>2 DEF ChainOf, BuildChain, DownloadChain, MetaChain, EndChain
  <2> QED  BY <1>3, <2>4, <2>5 DEF SyncedOf
<1> QED  BY <1>4, <1>5

-----------------------------------------------------------------------------
(* The metadata stage. *)

(* Facts about the stages, when these and the data stay as they are. *)
LEMMA QuietStages ==
    ASSUME NEW u, UNCHANGED <<stageVars, imap, status, gone, published>>
    PROVE  /\ Excused(u)' = Excused(u) /\ Built(u)' = Built(u) /\ Downloaded(u)' = Downloaded(u)
           /\ SkipOf(u)' = SkipOf(u) /\ ApplyOf(u)' = ApplyOf(u)
           /\ BuildChain(u)' = BuildChain(u) /\ DownloadChain(u)' = DownloadChain(u)
<1> USE DEF stageVars
<1>1. Excused(u)' = Excused(u) /\ Applied(u)' = Applied(u)
  BY DEF Excused, Applied, After
<1>2. Built(u)' = Built(u)
  BY <1>1 DEF Built, After
<1>3. Downloaded(u)' = Downloaded(u)
  BY <1>2 DEF Downloaded, After
<1>4. SkipOf(u)' = SkipOf(u)
  BY <1>1 DEF SkipOf
<1>5. ApplyOf(u)' = ApplyOf(u)
  BY <1>1 DEF ApplyOf
<1>6. BuildChain(u)' = BuildChain(u)
  BY <1>1 DEF BuildChain
<1>7. DownloadChain(u)' = DownloadChain(u)
  BY <1>1, <1>2 DEF DownloadChain
<1> QED  BY <1>1, <1>2, <1>3, <1>4, <1>5, <1>6, <1>7

(* What the reports of u's tasks do to the handler and to the error. *)
LEMMA ReportSynced ==
    ASSUME TypeOK, NEW u \in Users, NEW n \in Nat, NEW err \in BOOLEAN, onTaskFinished(u, n, err)
    PROVE  /\ handler'[u] \in JobStates => handler[u] \in JobStates
           /\ handler'[u] \in Started => handler[u] \in Started
           /\ waiter'[u].err = (waiter[u].err \/ err)
  BY Reported DEF JobStates, Started

(* The metadata goroutine looks at the job, fails, or ends: with the last  *)
(* message, or with a cancelled job.                                       *)
LEMMA MetadataStepsSynced ==
    ASSUME SyncedInv, NEW u \in Users,
           MetadataCheck(u) \/ MetadataEnd(u) \/ MetadataFails(u) \/ MetadataOnError(u) \/ MetadataNoMore(u)
    PROVE  SyncedOf(u)'
<1> USE DEF dataVars
<1>0. /\ CountInv /\ SkipOf(u) /\ ErrorOf(u) /\ ApplyOf(u) /\ (~jobDone[u] => ChainOf(u)) /\ TypeOK
      /\ jobDone \in [Users -> BOOLEAN] /\ meta \in [Users -> MetaType] /\ waiter[u].err \in BOOLEAN
  BY DEF SyncedInv, SyncedOf, CountInv, TypeOK, MetaType
<1>1. UNCHANGED <<ctxDone, stageVars, imap, status, gone, published>>
  BY DEF MetadataCheck, MetadataEnd, MetadataFails, MetadataOnError, MetadataNoMore
<1>2. /\ Excused(u)' = Excused(u) /\ Downloaded(u)' = Downloaded(u)
      /\ SkipOf(u)' /\ ApplyOf(u)'
      /\ BuildChain(u)' = BuildChain(u) /\ DownloadChain(u)' = DownloadChain(u)
  BY <1>0, <1>1, QuietStages
<1>3. ASSUME meta'[u].pc # "fail", meta[u].pc # "fail"
      PROVE  Failing(u)' = Failing(u)
  BY <1>1, <1>3 DEF Failing, stageVars
<1>4. CASE MetadataCheck(u) /\ ~jobDone[u]
  <2>1. /\ meta'[u] = [meta[u] EXCEPT !.pc = "next"] /\ meta[u].pc = "check" /\ UNCHANGED <<handler, waiter, jobDone>>
    BY <1>0, <1>4 DEF MetadataCheck, MetaType
  <2>2. meta'[u].pc = "next" /\ meta'[u].next = meta[u].next
    BY <1>0, <2>1 DEF MetaType
  <2>3. ErrorOf(u)'
    BY <1>0, <1>1, <1>3, <2>1, <2>2 DEF ErrorOf
  <2>4. ChainOf(u)'
    BY <1>0, <1>2, <1>4, <2>1, <2>2 DEF ChainOf, MetaChain, EndChain
  <2> QED  BY <1>2, <2>3, <2>4 DEF SyncedOf
<1>5. CASE MetadataFails(u)
  <2>1. meta'[u].pc = "fail" /\ jobDone'[u]
    BY <1>0, <1>5 DEF MetadataFails, MetaType
  <2>2. ErrorOf(u)'
    BY <2>1 DEF ErrorOf, Failing
  <2> QED  BY <1>2, <2>1, <2>2 DEF SyncedOf
<1>6. ASSUME NEW err \in BOOLEAN, onTaskFinished(u, 1, err), meta' = [meta EXCEPT ![u] = NoMeta], jobDone' = jobDone,
             meta[u].pc = "fail" => err,
             jobDone[u] \/ Downloaded(u) + 1 .. NumMessages \subseteq gone[u]
      PROVE  SyncedOf(u)'
  <2>1. meta'[u].pc = "none"
    BY <1>0, <1>6, NoMetaType
  <2>2. /\ handler'[u] \in JobStates => handler[u] \in JobStates
        /\ handler'[u] \in Started => handler[u] \in Started
        /\ waiter'[u].err = (waiter[u].err \/ err)
    BY <1>0, <1>6, ReportSynced
  <2>3. ErrorOf(u)'
    <3>1. Failing(u)' => Failing(u)
      BY <1>1, <2>1 DEF Failing, stageVars
    <3>2. Failing(u) => Failing(u)' \/ err
      BY <1>1, <1>6 DEF Failing, stageVars
    <3> QED  BY <1>0, <1>1, <1>6, <2>2, <3>1, <3>2 DEF ErrorOf
  <2>4. ~jobDone'[u] => ChainOf(u)'
    BY <1>0, <1>1, <1>2, <1>6, <2>1 DEF ChainOf, MetaChain, EndChain
  <2> QED  BY <1>2, <2>3, <2>4 DEF SyncedOf
<1>7. CASE MetadataCheck(u) /\ jobDone[u]
  BY <1>6, <1>7 DEF MetadataCheck
<1>8. CASE MetadataEnd(u)
  <2>1. jobDone[u] \/ Downloaded(u) + 1 .. NumMessages \subseteq gone[u]
    BY <1>0, <1>8 DEF MetadataEnd, ChainOf, MetaChain
  <2> QED  BY <1>6, <1>8, <2>1 DEF MetadataEnd
<1>9. CASE MetadataOnError(u)
  <2>1. jobDone[u]
    BY <1>0, <1>9 DEF MetadataOnError, ErrorOf, Failing
  <2> QED  BY <1>6, <1>9, <2>1 DEF MetadataOnError
<1>10. CASE MetadataNoMore(u)
  <2>1. jobDone[u] \/ Downloaded(u) + 1 .. NumMessages \subseteq gone[u]
    BY <1>0, <1>10 DEF MetadataNoMore, ChainOf, MetaChain
  <2> QED  BY <1>6, <1>10, <2>1 DEF MetadataNoMore
<1> QED  BY <1>4, <1>5, <1>7, <1>8, <1>9, <1>10

(* The last message of a stage is a number. *)
LEMMA AfterIsNat ==
    ASSUME NEW P, NEW s \in Stage(P), NEW u, NEW prev \in Nat
    PROVE  After(s, u, prev) \in Nat
<1>1. CASE Held(s, u) # 0
  <2>1. s.reqs # <<>>
    BY <1>1 DEF Held
  <2>2. s.reqs \in Seq(Request) /\ Len(s.reqs) >= 1 /\ Len(s.reqs) \in Nat
    BY <2>1, StageFields
  <2>3. Len(s.reqs) \in DOMAIN s.reqs
    BY <2>2
  <2>4. s.reqs[Len(s.reqs)].last \in Messages
    BY <2>3, StageFields, RequestFields
  <2> QED  BY <1>1, <2>4, PipelineAssumption DEF After, Messages
<1>2. CASE Held(s, u) = 0
  BY <1>2 DEF After
<1> QED  BY <1>1, <1>2

(* So are the ends of the chain. *)
LEMMA LastIsNat ==
    ASSUME CountInv, NEW u \in Users
    PROVE  /\ status[u].last \in Nat /\ Applied(u) \in Nat /\ Built(u) \in Nat /\ Downloaded(u) \in Nat
           /\ Excused(u) \in SUBSET Messages
<1>1. status[u].last \in Nat /\ Excused(u) \in SUBSET Messages
  BY DataTypes, PipelineAssumption DEF StatusType, Excused
<1>2. Applied(u) \in Nat
  BY <1>1, StageTypes, AfterIsNat DEF Applied
<1>3. Built(u) \in Nat
  BY <1>2, StageTypes, AfterIsNat DEF Built
<1>4. Downloaded(u) \in Nat
  BY <1>3, StageTypes, AfterIsNat DEF Downloaded
<1> QED  BY <1>1, <1>2, <1>3, <1>4

(* MetadataNext takes the messages that follow the ones in the pipeline. *)
LEMMA NextSynced ==
    ASSUME SyncedInv, NEW u \in Users, MetadataNext(u)
    PROVE  SyncedOf(u)'
<1> USE DEF dataVars
<1>0. /\ CountInv /\ SkipOf(u) /\ ErrorOf(u) /\ ApplyOf(u) /\ (~jobDone[u] => ChainOf(u)) /\ TypeOK
      /\ meta \in [Users -> MetaType] /\ meta[u].pc = "next"
  BY DEF SyncedInv, SyncedOf, CountInv, TypeOK, MetaType, MetadataNext
<1>1. UNCHANGED <<handler, ctxDone, jobDone, stageVars, imap, status, gone, published>>
  BY DEF MetadataNext
<1>2. /\ Excused(u)' = Excused(u) /\ Downloaded(u)' = Downloaded(u)
      /\ SkipOf(u)' /\ ApplyOf(u)'
      /\ BuildChain(u)' = BuildChain(u) /\ DownloadChain(u)' = DownloadChain(u)
  BY <1>0, <1>1, QuietStages
<1>3. PICK hi \in (meta[u].next..NumMessages) \ gone[u] :
         LET ids == (meta[u].next..hi) \ gone[u]
         IN  meta' = [meta EXCEPT ![u] =
                        [pc |-> "produce", next |-> hi + 1,
                         reqs |-> <<[user |-> u, last |-> hi, msgs |-> ids, count |-> Cardinality(ids)]>>]]
  BY DEF MetadataNext
<1> DEFINE ids == (meta[u].next..hi) \ gone[u]
           r == [user |-> u, last |-> hi, msgs |-> ids, count |-> Cardinality(ids)]
<1>4. meta'[u].pc = "produce" /\ meta'[u].next = hi + 1 /\ Head(meta'[u].reqs) = r
  BY <1>0, <1>3
<1>5. r.last = hi /\ r.msgs = (meta[u].next..hi) \ gone[u]
  OBVIOUS
<1> HIDE DEF r, ids
<1>6. ErrorOf(u)'
  <2>1. waiter'[u].err = waiter[u].err
    BY <1>0, Created DEF MetadataNext
  <2>2. Failing(u)' = Failing(u)
    BY <1>0, <1>1, <1>4 DEF Failing, stageVars
  <2> QED  BY <1>0, <1>1, <2>1, <2>2 DEF ErrorOf
<1>7. ASSUME ~jobDone'[u]
      PROVE  ChainOf(u)'
  <2>1. ChainOf(u) /\ meta[u].next = Downloaded(u) + 1 /\ Downloaded(u) \in Nat
    BY <1>0, <1>1, <1>7, LastIsNat DEF ChainOf, MetaChain
  <2>2. Covers(r, Downloaded(u), Excused(u))
    BY <1>5, <2>1, PipelineAssumption DEF Covers, Excused
  <2>3. MetaChain(u)'
    BY <1>2, <1>4, <1>5, <2>2 DEF MetaChain
  <2>4. EndChain(u)'
    BY <1>4 DEF EndChain
  <2> QED  BY <1>2, <2>1, <2>3, <2>4 DEF ChainOf
<1> QED  BY <1>2, <1>6, <1>7 DEF SyncedOf

(* The download stage takes the batch, or drops that of a cancelled job. *)
LEMMA ConsumeDownloadSynced ==
    ASSUME SyncedInv, NEW u \in Users, ConsumeDownload(u)
    PROVE  SyncedOf(u)'
<1> USE DEF dataVars
<1>0. /\ CountInv /\ SkipOf(u) /\ ErrorOf(u) /\ ApplyOf(u) /\ (~jobDone[u] => ChainOf(u)) /\ TypeOK /\ ShapeInv
      /\ meta \in [Users -> MetaType] /\ meta[u].pc = "produce" /\ download = Idle
  BY DEF SyncedInv, SyncedOf, CountInv, TypeOK, MetaType, ConsumeDownload
<1>1. UNCHANGED <<ctxDone, jobDone, build, apply, imap, status, gone, published>>
  BY DEF ConsumeDownload
<1>2. PICK p \in {"check", "end"} : /\ meta' = [meta EXCEPT ![u] = [pc |-> p, next |-> meta[u].next, reqs |-> <<>>]]
                                    /\ p = "end" => meta[u].next .. NumMessages \subseteq gone[u]
  BY DEF ConsumeDownload
<1>3. meta'[u].pc = p /\ meta'[u].next = meta[u].next
  BY <1>0, <1>2
<1>4. /\ Excused(u)' = Excused(u) /\ Applied(u)' = Applied(u) /\ Built(u)' = Built(u)
      /\ SkipOf(u)' /\ ApplyOf(u)' /\ BuildChain(u)' = BuildChain(u)
  <2>1. Excused(u)' = Excused(u) /\ Applied(u)' = Applied(u)
    BY <1>1 DEF Excused, Applied, After
  <2>2. Built(u)' = Built(u)
    BY <1>1, <2>1 DEF Built, After
  <2>3. SkipOf(u)' /\ ApplyOf(u)'
    BY <1>0, <1>1, <2>1 DEF SkipOf, ApplyOf
  <2> QED  BY <1>1, <2>1, <2>2, <2>3 DEF BuildChain
<1>5. CASE jobDone[u]
  <2>1. onTaskFinished(u, 1, TRUE) /\ download' = download
    BY <1>5 DEF ConsumeDownload
  <2>2. /\ handler'[u] \in JobStates => handler[u] \in JobStates
        /\ waiter'[u].err = (waiter[u].err \/ TRUE)
    BY <1>0, <2>1, ReportSynced
  <2>3. ErrorOf(u)'
    BY <1>1, <1>5, <2>2 DEF ErrorOf
  <2> QED  BY <1>1, <1>4, <1>5, <2>3 DEF SyncedOf
<1>6. CASE ~jobDone[u]
  <2> DEFINE r == Head(meta[u].reqs)
  <2>1. r \in Request /\ r.user = u /\ meta[u].reqs = <<r>>
    BY <1>0, MetaFields
  <2>2. download' = [pc |-> "work", reqs |-> <<r>>] /\ UNCHANGED <<handler, waiter>>
    BY <1>6, <2>1 DEF ConsumeDownload
  <2>3. /\ ChainOf(u) /\ Covers(r, Downloaded(u), Excused(u)) /\ meta[u].next = r.last + 1
    BY <1>0, <1>6 DEF ChainOf, MetaChain
  <2> HIDE DEF r
  <2>4. /\ download'.pc = "work" /\ Len(download'.reqs) = 1 /\ Head(download'.reqs) = r
        /\ download'.reqs[1] = r /\ Held(download', u) = 1
    <3>1. "work" \in DownloadPcs
      BY DEF DownloadPcs
    <3> QED  BY <2>1, <2>2, <3>1, OneStage
  <2>5. Held(download, u) = 0 /\ Downloaded(u) = Built(u) /\ Downloaded(u)' = r.last
    <3>1. Held(download, u) = 0
      BY <1>0, IdleStage
    <3> QED  BY <2>4, <3>1 DEF Downloaded, After
  <2>6. ErrorOf(u)'
    <3>1. Failing(u)' = Failing(u)
      BY <1>0, <1>1, <1>3, <2>4, <2>5 DEF Failing
    <3> QED  BY <1>0, <1>1, <2>2, <3>1 DEF ErrorOf
  <2>7. DownloadChain(u)'
    BY <1>4, <2>3, <2>4, <2>5 DEF DownloadChain
  <2>8. MetaChain(u)' /\ EndChain(u)'
    BY <1>1, <1>2, <1>3, <2>3, <2>5 DEF MetaChain, EndChain
  <2>9. BuildChain(u)'
    BY <1>4, <2>3 DEF ChainOf
  <2> QED  BY <1>4, <2>6, <2>7, <2>8, <2>9 DEF SyncedOf, ChainOf
<1> QED  BY <1>5, <1>6

-----------------------------------------------------------------------------
(* The download stage. *)

(* A batch covers as much when more is excused. *)
LEMMA CoversMore ==
    ASSUME NEW r, NEW prev, NEW E, NEW F, E \subseteq F, Covers(r, prev, E)
    PROVE  Covers(r, prev, F)
  BY DEF Covers

(* Messages that the server no longer has are excused. *)
LEMMA DownloadSynced ==
    ASSUME SyncedInv, NEW u \in Users, u = Owner(download), Download
    PROVE  SyncedOf(u)'
<1> USE DEF dataVars, handlerVars
<1> DEFINE r == Head(download.reqs)
<1>0. /\ CountInv /\ SkipOf(u) /\ ErrorOf(u) /\ ApplyOf(u) /\ (~jobDone[u] => ChainOf(u))
      /\ gone \in [Users -> SUBSET Messages] /\ download.pc = "work"
  BY DEF SyncedInv, SyncedOf, CountInv, TypeOK, Download
<1>1. UNCHANGED <<handler, ctxDone, jobDone, waiter, meta, build, apply, imap, status, published>>
  BY DEF Download
<1>2. PICK del \in SUBSET r.msgs : /\ gone' = [gone EXCEPT ![u] = gone[u] \cup del]
                                   /\ download' = [pc |-> "produce", reqs |-> <<[r EXCEPT !.msgs = r.msgs \ del]>>]
  BY DEF Download
<1> DEFINE q == [r EXCEPT !.msgs = r.msgs \ del]
<1>3. /\ r \in Request /\ r.user = u /\ download.reqs = <<r>> /\ Held(download, u) = 1 /\ Len(download.reqs) = 1
  BY <1>0, StageTypes, OneBatch
<1>4. q \in Request /\ q.user = u /\ q.last = r.last /\ q.msgs = r.msgs \ del /\ download' = [pc |-> "produce", reqs |-> <<q>>]
  BY <1>2, <1>3 DEF Request
<1>5. download.reqs[1] = r
  BY <1>3
<1> HIDE DEF q, r
<1>6. /\ download'.pc = "produce" /\ Len(download'.reqs) = 1 /\ Head(download'.reqs) = q /\ download'.reqs[1] = q
      /\ Held(download', u) = 1
  <2>1. "produce" \in DownloadPcs
    BY DEF DownloadPcs
  <2> QED  BY <1>4, <2>1, OneStage
<1>7. gone'[u] = gone[u] \cup del /\ Excused(u)' = Excused(u) \cup del
  BY <1>0, <1>1, <1>2 DEF Excused
<1>8. Applied(u)' = Applied(u)
  BY <1>1 DEF Applied, After
<1>9. Built(u)' = Built(u)
  BY <1>1, <1>8 DEF Built, After
<1>10. Downloaded(u)' = r.last /\ Downloaded(u) = r.last
  BY <1>3, <1>4, <1>5, <1>6 DEF Downloaded, After
<1>11. SkipOf(u)'
  BY <1>0, <1>1, <1>7 DEF SkipOf
<1>12. ApplyOf(u)'
  <2>1. ASSUME Covers(Head(apply.reqs), status[u].last, Excused(u))
        PROVE  Covers(Head(apply.reqs), status[u].last, Excused(u)')
    BY <1>7, <2>1, CoversMore
  <2> QED  BY <1>0, <1>1, <2>1 DEF ApplyOf
<1>13. ErrorOf(u)'
  <2>1. Failing(u)' = Failing(u)
    BY <1>0, <1>1, <1>6 DEF Failing
  <2> QED  BY <1>0, <1>1, <2>1 DEF ErrorOf
<1>14. ASSUME ChainOf(u)
       PROVE  ChainOf(u)'
  <2>1. BuildChain(u)'
    <3>1. \A b, prev : Covers(b, prev, Excused(u)) => Covers(b, prev, Excused(u)')
      BY <1>7, CoversMore
    <3> QED  BY <1>1, <1>8, <1>14, <3>1 DEF ChainOf, BuildChain
  <2>2. DownloadChain(u)'
    <3>1. Covers(r, Built(u), Excused(u))
      BY <1>3, <1>14 DEF ChainOf, DownloadChain, r
    <3>2. Covers(q, Built(u), Excused(u) \cup del)
      BY <1>4, <3>1 DEF Covers
    <3> QED  BY <1>6, <1>7, <1>9, <3>2 DEF DownloadChain
  <2>3. MetaChain(u)'
    <3>1. \A b, prev : Covers(b, prev, Excused(u)) => Covers(b, prev, Excused(u)')
      BY <1>7, CoversMore
    <3> QED  BY <1>1, <1>7, <1>10, <1>14, <3>1 DEF ChainOf, MetaChain
  <2>4. EndChain(u)'
    BY <1>1, <1>7, <1>10, <1>14 DEF ChainOf, EndChain
  <2> QED  BY <2>1, <2>2, <2>3, <2>4 DEF ChainOf
<1> QED  BY <1>0, <1>1, <1>11, <1>12, <1>13, <1>14 DEF SyncedOf

(* Steps after which the job is cancelled. *)
LEMMA CancelledSynced ==
    ASSUME NEW u \in Users, SyncedOf(u), jobDone'[u], UNCHANGED <<status, gone, published, imap>>,
           apply' = apply \/ Held(apply', u) = 0 \/ apply'.pc = "fail",
           handler'[u] \in JobStates /\ ~ctxDone'[u] => waiter'[u].err \/ Failing(u)'
    PROVE  SyncedOf(u)'
<1>1. Excused(u)' = Excused(u)
  BY DEF Excused
<1>2. SkipOf(u)' /\ ApplyOf(u)'
  BY <1>1 DEF SyncedOf, SkipOf, ApplyOf
<1>3. ErrorOf(u)'
  BY DEF ErrorOf
<1> QED  BY <1>2, <1>3 DEF SyncedOf

(* A failed download cancels the job before it reports. *)
LEMMA DownloadFailsSynced ==
    ASSUME SyncedInv, NEW u \in Users, u = Owner(download), DownloadFails \/ DownloadOnError
    PROVE  SyncedOf(u)'
<1> USE DEF dataVars
<1>0. /\ CountInv /\ SyncedOf(u) /\ ErrorOf(u) /\ TypeOK
      /\ jobDone \in [Users -> BOOLEAN] /\ download.pc # "idle"
  BY DEF SyncedInv, SyncedOf, CountInv, TypeOK, DownloadFails, DownloadOnError
<1>1. Held(download, u) = 1 /\ download \in Stage(DownloadPcs)
  BY <1>0, StageTypes, OneBatch
<1>2. UNCHANGED <<status, gone, published, imap, apply>>
  BY DEF DownloadFails, DownloadOnError
<1>3. CASE DownloadFails
  <2>1. download'.pc = "fail" /\ Held(download', u) = 1
    <3>1. "fail" \in DownloadPcs /\ download' = [download EXCEPT !.pc = "fail"]
      BY <1>3 DEF DownloadPcs, DownloadFails
    <3> QED  BY <1>1, <3>1, PcStage
  <2>2. jobDone'[u] /\ Failing(u)'
    BY <1>0, <1>3, <2>1 DEF DownloadFails, Failing
  <2> QED  BY <1>0, <1>2, <2>2, CancelledSynced
<1>4. CASE DownloadOnError
  <2>1. jobDone[u] /\ jobDone' = jobDone
    BY <1>0, <1>1, <1>4 DEF DownloadOnError, ErrorOf, Failing
  <2>2. waiter'[u].err
    BY <1>0, <1>4, ReportSynced DEF DownloadOnError
  <2> QED  BY <1>0, <1>2, <2>1, <2>2, CancelledSynced
<1> QED  BY <1>3, <1>4

(* The build stage takes the batch, or drops that of a cancelled job. *)
LEMMA ConsumeBuildSynced ==
    ASSUME SyncedInv, NEW u \in Users, u = Owner(download), ConsumeBuild
    PROVE  SyncedOf(u)'
<1> USE DEF dataVars
<1> DEFINE r == Head(download.reqs)
<1>0. /\ CountInv /\ SyncedOf(u) /\ ErrorOf(u) /\ TypeOK /\ (~jobDone[u] => ChainOf(u)) /\ SkipOf(u) /\ ApplyOf(u)
      /\ download.pc = "produce" /\ build = Idle /\ download' = Idle
  BY DEF SyncedInv, SyncedOf, CountInv, ConsumeBuild
<1>1. UNCHANGED <<ctxDone, jobDone, meta, apply, imap, status, gone, published>>
  BY DEF ConsumeBuild
<1>2. CASE jobDone[u]
  <2>1. onTaskFinished(u, 1, TRUE)
    BY <1>2 DEF ConsumeBuild
  <2>2. waiter'[u].err
    BY <1>0, <2>1, ReportSynced
  <2> QED  BY <1>0, <1>1, <1>2, <2>2, CancelledSynced
<1>3. CASE ~jobDone[u]
  <2>0. /\ r \in Request /\ r.user = u /\ download.reqs = <<r>> /\ Held(download, u) = 1 /\ Len(download.reqs) = 1
        /\ download.reqs[1] = r
    BY <1>0, StageTypes, OneBatch
  <2>1. PICK p \in {"produce", "divide"} : build' = [pc |-> p, reqs |-> download.reqs]
    BY <1>3 DEF ConsumeBuild
  <2>2. UNCHANGED <<handler, waiter>> /\ build' = [pc |-> p, reqs |-> <<r>>] /\ ChainOf(u)
    BY <1>0, <1>3, <2>0, <2>1 DEF ConsumeBuild
  <2>3. Covers(r, Built(u), Excused(u))
    BY <2>0, <2>2 DEF ChainOf, DownloadChain
  <2> HIDE DEF r
  <2>4. /\ build'.pc = p /\ Len(build'.reqs) = 1 /\ build'.reqs = <<r>> /\ build'.reqs[1] = r
        /\ Held(build', u) = 1 /\ DOMAIN build'.reqs = {1}
    <3>1. p \in BuildPcs
      BY DEF BuildPcs
    <3>2. /\ build'.pc = p /\ Len(build'.reqs) = 1 /\ build'.reqs = <<r>> /\ build'.reqs[1] = r
          /\ Held(build', u) = 1
      BY <2>0, <2>2, <3>1, OneStage
    <3> QED  BY <2>0, <3>2, OneRequest
  <2>5. Held(build, u) = 0 /\ Held(download', u) = 0 /\ download'.pc = "idle" /\ build.pc = "idle"
    BY <1>0, IdleStage DEF DownloadPcs, BuildPcs
  <2>6. /\ Excused(u)' = Excused(u) /\ Applied(u)' = Applied(u) /\ Built(u) = Applied(u)
        /\ SkipOf(u)' /\ ApplyOf(u)'
    <3>1. Excused(u)' = Excused(u) /\ Applied(u)' = Applied(u) /\ Built(u) = Applied(u)
      BY <1>1, <2>5 DEF Excused, Applied, Built, After
    <3> QED  BY <1>0, <1>1, <3>1 DEF SkipOf, ApplyOf
  <2>7. Downloaded(u) = r.last /\ Downloaded(u)' = r.last
    BY <2>0, <2>4, <2>5 DEF Downloaded, Built, After
  <2>8. ErrorOf(u)'
    <3>1. Failing(u)' = Failing(u)
      BY <1>0, <1>1, <2>4, <2>5 DEF Failing
    <3> QED  BY <1>0, <1>1, <2>2, <3>1 DEF ErrorOf
  <2>9. BuildChain(u)'
    BY <2>3, <2>4, <2>6 DEF BuildChain
  <2>10. DownloadChain(u)'
    BY <2>5 DEF DownloadChain
  <2>11. MetaChain(u)' /\ EndChain(u)'
    BY <1>1, <2>2, <2>6, <2>7 DEF ChainOf, MetaChain, EndChain
  <2> QED  BY <2>6, <2>8, <2>9, <2>10, <2>11 DEF SyncedOf, ChainOf
<1> QED  BY <1>2, <1>3

-----------------------------------------------------------------------------
(* The build stage. *)

(* The build stage fails, or drops the chunks of a cancelled job. *)
LEMMA BuildFailsSynced ==
    ASSUME SyncedInv, NEW u \in Users, u = Owner(build), BuildFails \/ BuildOnError \/ ChunkCancelled
    PROVE  SyncedOf(u)'
<1> USE DEF dataVars
<1>0. /\ CountInv /\ SyncedOf(u) /\ ErrorOf(u) /\ TypeOK
      /\ jobDone \in [Users -> BOOLEAN] /\ build.pc # "idle"
  BY DEF SyncedInv, SyncedOf, CountInv, TypeOK, BuildFails, BuildOnError, ChunkCancelled
<1>1. /\ Held(build, u) # 0 /\ Len(build.reqs) \in Nat /\ build \in Stage(BuildPcs)
  BY <1>0, StageTypes, BuildFields
<1>2. UNCHANGED <<status, gone, published, imap, apply>>
  BY DEF BuildFails, BuildOnError, ChunkCancelled
<1>3. CASE BuildFails
  <2>1. build'.pc = "fail" /\ Held(build', u) # 0
    <3>1. "fail" \in BuildPcs /\ build' = [build EXCEPT !.pc = "fail"]
      BY <1>3 DEF BuildPcs, BuildFails
    <3> QED  BY <1>1, <3>1, PcStage
  <2>2. jobDone'[u] /\ Failing(u)'
    BY <1>0, <1>3, <2>1 DEF BuildFails, Failing
  <2> QED  BY <1>0, <1>2, <2>2, CancelledSynced
<1>4. CASE BuildOnError \/ ChunkCancelled
  <2>1. jobDone[u] /\ jobDone' = jobDone
    BY <1>0, <1>1, <1>4 DEF BuildOnError, ChunkCancelled, ErrorOf, Failing
  <2>2. PICK n \in Nat : onTaskFinished(u, n, TRUE)
    BY <1>1, <1>4 DEF BuildOnError, ChunkCancelled
  <2>3. waiter'[u].err
    BY <1>0, <2>2, ReportSynced
  <2> QED  BY <1>0, <1>2, <2>1, <2>3, CancelledSynced
<1> QED  BY <1>3, <1>4

(* The chunks of a batch cover what the batch does, one after the other. *)
LEMMA ChunksCover ==
    ASSUME NEW req \in Request, NEW n \in Nat, n >= 1, NEW ends \in Cuts(req.msgs, n),
           NEW prev \in Nat, NEW E, Covers(req, prev, E),
           NEW c, c = chunkDivide(req, ends)
    PROVE  \A i \in 1..n : /\ Covers(c[i], IF i = 1 THEN prev ELSE c[i - 1].last, E)
                           /\ \A j \in 1..n : i < j => c[i].last < c[j].last
<1>1. /\ ends \in [1..n -> req.msgs] /\ req.msgs \in SUBSET Messages /\ req.last \in Nat
      /\ \A i, j \in 1..n : i < j => ends[i] < ends[j]
      /\ \A m \in req.msgs : m <= ends[n]
  BY RequestFields, PipelineAssumption DEF Cuts, Messages
<1>2. \A i \in 1..n : c[i].msgs = Chunk(req, ends, i) /\ c[i].last = IF i = n THEN req.last ELSE ends[i]
  BY ChunksTyped
<1>3. \A i \in 1..n : ends[i] \in req.msgs /\ ends[i] \in Nat /\ prev < ends[i] /\ ends[i] <= req.last
  BY <1>1, PipelineAssumption DEF Covers, Messages
<1>4. \A i, j \in 1..n : i < j => c[i].last < c[j].last
  BY <1>1, <1>2, <1>3
<1>5. ASSUME NEW i \in 1..n
      PROVE  Covers(c[i], IF i = 1 THEN prev ELSE c[i - 1].last, E)
  <2> DEFINE p == IF i = 1 THEN prev ELSE ends[i - 1]
  <2>1. p = IF i = 1 THEN prev ELSE c[i - 1].last
    BY <1>2
  <2>2. p \in Nat /\ prev <= p /\ p < ends[i] /\ ends[i] \in Nat /\ ends[i] <= c[i].last /\ c[i].last <= req.last
        /\ c[i].last \in Nat
    <3>1. CASE i = 1
      BY <1>1, <1>2, <1>3, <3>1
    <3>2. CASE i # 1
      <4>1. i - 1 \in 1..n /\ i - 1 < i
        BY <3>2
      <4> QED  BY <1>1, <1>2, <1>3, <3>2, <4>1
    <3> QED  BY <3>1, <3>2
  <2>3. c[i].msgs = {m \in req.msgs : m <= ends[i] /\ p < m}
    <3>1. \A m \in req.msgs : m \in Nat /\ prev < m
      BY <1>1, PipelineAssumption DEF Covers, Messages
    <3>2. CASE i = 1
      BY <1>2, <3>1, <3>2 DEF Chunk
    <3>3. CASE i # 1
      <4>1. i - 1 \in 1..n /\ i > 1 /\ ends[i - 1] \in Nat /\ p = ends[i - 1]
        BY <1>3, <3>3
      <4>2. \A m \in req.msgs : (i > 1 => m > ends[i - 1]) <=> p < m
        BY <3>1, <4>1
      <4>3. c[i].msgs = {m \in req.msgs : m <= ends[i] /\ (i > 1 => m > ends[i - 1])}
        BY <1>2 DEF Chunk
      <4> HIDE DEF p
      <4> QED  BY <4>2, <4>3
    <3> QED  BY <3>2, <3>3
  <2> HIDE DEF p
  <2>4. c[i].msgs \subseteq p + 1 .. c[i].last
    <3>1. \A m \in req.msgs : m \in Nat
      BY <1>1, PipelineAssumption DEF Messages
    <3> QED  BY <2>2, <2>3, <3>1
  <2>5. p + 1 .. c[i].last \subseteq c[i].msgs \cup E
    <3> SUFFICES ASSUME NEW x \in p + 1 .. c[i].last, x \notin E
                 PROVE  x \in c[i].msgs
      OBVIOUS
    <3>1. x \in prev + 1 .. req.last /\ p < x /\ x <= c[i].last
      BY <1>1, <2>2
    <3>2. x \in req.msgs
      BY <3>1 DEF Covers
    <3>3. x <= ends[i]
      BY <1>1, <1>2, <3>1, <3>2
    <3> QED  BY <2>3, <3>1, <3>2, <3>3
  <2>6. Covers(c[i], p, E)
    BY <2>2, <2>4, <2>5 DEF Covers
  <2> QED  BY <2>1, <2>6
<1> QED  BY <1>4, <1>5

(* The chunks of a batch take its place in the chain. *)
LEMMA ChunkDivideSynced ==
    ASSUME SyncedInv, NEW u \in Users, u = Owner(build), ChunkDivide
    PROVE  SyncedOf(u)'
<1> USE DEF dataVars
<1> DEFINE r == Head(build.reqs)
<1>0. /\ CountInv /\ SkipOf(u) /\ ErrorOf(u) /\ ApplyOf(u) /\ (~jobDone[u] => ChainOf(u)) /\ TypeOK
      /\ build.pc = "divide"
  BY DEF SyncedInv, SyncedOf, CountInv, ChunkDivide
<1>1. UNCHANGED <<handler, ctxDone, jobDone, meta, download, apply, imap, status, gone, published>>
  BY DEF ChunkDivide
<1>2. PICK n \in 1..MaxBatch : \E ends \in Cuts(r.msgs, n) :
         build' = [pc |-> "chunk", reqs |-> chunkDivide(r, ends)] /\ onTaskCreated(u, n - 1)
  BY DEF ChunkDivide
<1>3. n \in Nat /\ n >= 1 /\ n - 1 \in Nat
  BY PipelineAssumption
<1>4. PICK ends \in Cuts(r.msgs, n) :
         build' = [pc |-> "chunk", reqs |-> chunkDivide(r, ends)] /\ onTaskCreated(u, n - 1)
  BY <1>2
<1>5. /\ r \in Request /\ r.user = u /\ Len(build.reqs) = 1 /\ Held(build, u) = 1 /\ DOMAIN build.reqs = {1}
      /\ build.reqs[1] = r
  BY <1>0, StageTypes, OneBatch, OneRequest
<1> DEFINE c == chunkDivide(r, ends)
<1>6. /\ c \in Seq(Request) /\ Len(c) = n /\ c # <<>> /\ DOMAIN c = 1..n /\ c[1].user = u
      /\ c[n].last = r.last
  BY <1>3, <1>5, ChunksTyped
<1>7. build'.pc = "chunk" /\ build'.reqs = c
  BY <1>4
<1>8. ASSUME Covers(r, Applied(u), Excused(u))
      PROVE  \A i \in 1..n : /\ Covers(c[i], IF i = 1 THEN Applied(u) ELSE c[i - 1].last, Excused(u))
                             /\ \A j \in 1..n : i < j => c[i].last < c[j].last
  BY <1>0, <1>3, <1>5, <1>8, LastIsNat, ChunksCover
<1> HIDE DEF c, r
<1>9. Held(build', u) = n
  BY <1>3, <1>6, <1>7 DEF Held, Owner
<1>10. Excused(u)' = Excused(u) /\ Applied(u)' = Applied(u)
  BY <1>1 DEF Excused, Applied, After
<1>11. Built(u) = r.last /\ Built(u)' = r.last
  BY <1>3, <1>5, <1>6, <1>7, <1>9 DEF Built, After
<1>12. Downloaded(u)' = Downloaded(u)
  BY <1>1, <1>11 DEF Downloaded, After
<1>13. SkipOf(u)' /\ ApplyOf(u)'
  BY <1>0, <1>1, <1>10 DEF SkipOf, ApplyOf
<1>14. ErrorOf(u)'
  <2>1. waiter'[u].err = waiter[u].err
    BY <1>0, <1>3, <1>4, Created
  <2>2. Failing(u)' = Failing(u)
    BY <1>0, <1>1, <1>7 DEF Failing
  <2> QED  BY <1>0, <1>1, <2>1, <2>2 DEF ErrorOf
<1>15. ASSUME ChainOf(u)
       PROVE  ChainOf(u)'
  <2>1. Covers(r, Applied(u), Excused(u))
    BY <1>5, <1>15 DEF ChainOf, BuildChain
  <2>2. BuildChain(u)'
    BY <1>6, <1>7, <1>8, <1>10, <2>1 DEF BuildChain
  <2>3. DownloadChain(u)'
    BY <1>1, <1>10, <1>11, <1>15 DEF ChainOf, DownloadChain
  <2>4. MetaChain(u)' /\ EndChain(u)'
    BY <1>1, <1>10, <1>12, <1>15 DEF ChainOf, MetaChain, EndChain
  <2> QED  BY <2>2, <2>3, <2>4 DEF ChainOf
<1> QED  BY <1>0, <1>1, <1>13, <1>14, <1>15 DEF SyncedOf

(* Messages that are built are no longer excused; batches without them do  *)
(* not notice.                                                             *)
LEMMA CoversStill ==
    ASSUME NEW b, NEW prev, NEW E, NEW F, NEW ok, E \ ok \subseteq F, Covers(b, prev, E),
           \A x \in ok : x \notin prev + 1 .. b.last
    PROVE  Covers(b, prev, F)
  BY DEF Covers

(* A chunk is built. Messages that failed in an earlier run and are built  *)
(* now are no longer excused; they are in no other batch, and the sync     *)
(* state has not passed them.                                              *)
LEMMA BuildChunkSynced ==
    ASSUME SyncedInv, NEW u \in Users, u = Owner(build), BuildChunk
    PROVE  SyncedOf(u)'
<1> USE DEF dataVars, handlerVars
<1> DEFINE r == Head(build.reqs)
<1>0. /\ CountInv /\ SkipOf(u) /\ ErrorOf(u) /\ ApplyOf(u) /\ ~jobDone[u] /\ ChainOf(u) /\ TypeOK
      /\ build.pc = "chunk" /\ ~Failing(u)
  BY DEF SyncedInv, SyncedOf, CountInv, BuildChunk, ErrorOf
<1>1. UNCHANGED <<handler, ctxDone, jobDone, waiter, meta, download, apply, imap, gone, published>>
  BY DEF BuildChunk
<1>2. PICK bad \in SUBSET r.msgs :
         /\ status' = [status EXCEPT ![u].failed = (status[u].failed \cup bad) \ (r.msgs \ bad)]
         /\ build' = [pc |-> "produce", reqs |-> <<[r EXCEPT !.msgs = r.msgs \ bad]>> \o Tail(build.reqs)]
  BY DEF BuildChunk
<1> DEFINE ok == r.msgs \ bad
           q == [r EXCEPT !.msgs = ok]
           k == Len(build.reqs)
<1>3. /\ r \in Request /\ r.user = u /\ Held(build, u) = k /\ build.reqs \in Seq(Request) /\ k \in Nat /\ k >= 1
      /\ build.reqs # <<>>
  BY <1>0, BuildFields
<1>3a. DOMAIN build.reqs = 1..k /\ build.reqs[1] = r
  BY <1>3
<1>3b. \A i \in 1..k : /\ Covers(build.reqs[i], IF i = 1 THEN Applied(u) ELSE build.reqs[i - 1].last, Excused(u))
                      /\ \A j \in 1..k : i < j => build.reqs[i].last < build.reqs[j].last
  <2>1. BuildChain(u) /\ Held(build, u) # 0
    BY <1>0, <1>3 DEF ChainOf
  <2> HIDE DEF k
  <2> QED  BY <1>3a, <2>1 DEF BuildChain
<1>4. q \in Request /\ q.user = u /\ q.last = r.last /\ q.msgs = ok /\ r.last \in Nat /\ r.msgs \in SUBSET Messages
  <2>1. r.last \in Messages /\ r.msgs \in SUBSET Messages /\ ok \in SUBSET Messages
    BY <1>3, RequestFields
  <2>2. r.last \in Nat
    BY <2>1, PipelineAssumption DEF Messages
  <2> HIDE DEF ok, r
  <2>3. q \in Request /\ q.user = r.user /\ q.last = r.last /\ q.msgs = ok
    BY <1>3, <2>1 DEF Request
  <2> QED  BY <1>3, <2>1, <2>2, <2>3
<1>5. /\ build'.pc = "produce" /\ Len(build'.reqs) = k /\ Owner(build') = u /\ build'.reqs # <<>>
      /\ DOMAIN build'.reqs = 1..k /\ build'.reqs[1] = q
      /\ \A i \in 1..k : i # 1 => build'.reqs[i] = build.reqs[i]
  <2> DEFINE b == build  c == build'
  <2>1. /\ b \in Stage(BuildPcs) /\ "produce" \in BuildPcs /\ b.reqs # <<>> /\ q.user = Owner(b)
        /\ c = [pc |-> "produce", reqs |-> <<q>> \o Tail(b.reqs)]
    BY <1>0, <1>2, <1>3, <1>4, StageTypes DEF BuildPcs
  <2> HIDE DEF b, c, q
  <2>2. /\ c.pc = "produce" /\ Len(c.reqs) = Len(b.reqs) /\ Owner(c) = Owner(b) /\ c.reqs # <<>>
        /\ DOMAIN c.reqs = DOMAIN b.reqs /\ c.reqs[1] = q
        /\ \A i \in DOMAIN b.reqs : i # 1 => c.reqs[i] = b.reqs[i]
    BY <1>4, <2>1, FirstStage
  <2> QED  BY <1>3a, <2>2 DEF b, c
<1>6. status'[u].last = status[u].last /\ status'[u].failed = (status[u].failed \cup bad) \ ok
  BY <1>0, <1>2, DataTypes DEF StatusType
<1> HIDE DEF ok, q, r, k
<1>7. Excused(u) \ ok \subseteq Excused(u)' /\ bad \subseteq Excused(u)' /\ bad \cup ok = r.msgs /\ ok \subseteq r.msgs
  BY <1>1, <1>6 DEF Excused, ok
<1>8. Held(build', u) = k
  BY <1>5 DEF Held
<1>9. /\ status[u].last \in Nat /\ Applied(u) \in Nat /\ Built(u) \in Nat /\ Downloaded(u) \in Nat
  BY <1>0, LastIsNat
<1>10. Covers(r, Applied(u), Excused(u))
  BY <1>3, <1>3a, <1>3b
<1>11. \A x \in ok : x \in Nat /\ Applied(u) < x /\ x <= r.last
  BY <1>4, <1>7, <1>9, <1>10, PipelineAssumption DEF Covers, Messages
<1>12. status[u].last <= Applied(u)
  <2>1. CASE Held(apply, u) # 0
    <3>1. apply.pc # "fail" /\ Covers(Head(apply.reqs), status[u].last, Excused(u))
      BY <1>0, <2>1 DEF Failing, ApplyOf
    <3>2. Len(apply.reqs) = 1 /\ apply.reqs = <<Head(apply.reqs)>> /\ Head(apply.reqs) \in Request
      <4>1. apply.pc # "idle"
        BY <1>0, <2>1, StageTypes DEF Held, StageShape
      <4> QED  BY <1>0, <4>1, StageTypes, OneBatch
    <3>3. Applied(u) = Head(apply.reqs).last
      BY <2>1, <3>2 DEF Applied, After
    <3> QED  BY <1>9, <3>1, <3>3 DEF Covers
  <2>2. CASE Held(apply, u) = 0
    BY <1>9, <2>2 DEF Applied, After
  <2> QED  BY <2>1, <2>2
<1>13. Applied(u)' = Applied(u)
  BY <1>1, <1>6 DEF Applied, After
<1>14. /\ \A i \in 1..k : build'.reqs[i].last = build.reqs[i].last /\ build.reqs[i].last \in Nat
       /\ \A i \in 1..k : r.last <= build.reqs[i].last
  <2>1. \A i \in 1..k : build'.reqs[i].last = build.reqs[i].last
    BY <1>3, <1>3a, <1>4, <1>5
  <2>2. \A i \in 1..k : build.reqs[i].last \in Nat
    <3>1. \A i \in 1..k : build.reqs[i] \in Request
      BY <1>3, <1>3a
    <3> QED  BY <3>1, RequestFields, PipelineAssumption DEF Messages
  <2>3. \A i \in 1..k : r.last <= build.reqs[i].last
    <3>1. \A i \in 1..k : 1 < i => build.reqs[1].last < build.reqs[i].last
      BY <1>3, <1>3b
    <3> QED  BY <1>3, <1>3a, <1>4, <2>2, <3>1
  <2> QED  BY <2>1, <2>2, <2>3
<1>15. Built(u) = build.reqs[k].last /\ Built(u)' = Built(u) /\ r.last <= Built(u)
  <2>1. k \in 1..k /\ k # 0
    BY <1>3
  <2>2. Built(u) = build.reqs[k].last /\ Built(u)' = build'.reqs[k].last
    BY <1>3, <1>5, <1>8, <2>1 DEF Built, After, k
  <2> QED  BY <1>14, <2>1, <2>2
<1>16. Downloaded(u)' = Downloaded(u)
  BY <1>1, <1>15 DEF Downloaded, After
<1>17. SkipOf(u)'
  <2>1. \A x \in 1..status[u].last : x \notin ok
    BY <1>9, <1>11, <1>12
  <2> QED  BY <1>0, <1>1, <1>6, <1>7, <2>1 DEF SkipOf
<1>18. ApplyOf(u)'
  <2>1. ASSUME Held(apply, u) # 0, apply.pc # "fail"
        PROVE  Covers(Head(apply.reqs), status[u].last, Excused(u)')
    <3>1. Covers(Head(apply.reqs), status[u].last, Excused(u))
      BY <1>0, <2>1 DEF ApplyOf
    <3>2. Applied(u) = Head(apply.reqs).last
      <4>1. apply.pc # "idle"
        BY <1>0, <2>1, StageTypes DEF Held, StageShape
      <4>2. Len(apply.reqs) = 1 /\ apply.reqs = <<Head(apply.reqs)>>
        BY <1>0, <4>1, StageTypes, OneBatch
      <4> QED  BY <2>1, <4>2 DEF Applied, After
    <3>3. \A x \in ok : x \notin status[u].last + 1 .. Head(apply.reqs).last
      BY <1>9, <1>11, <3>2
    <3> QED  BY <1>7, <3>1, <3>3, CoversStill
  <2> QED  BY <1>0, <1>1, <1>6, <2>1 DEF ApplyOf
<1>19. ErrorOf(u)'
  <2>1. ~Failing(u)'
    BY <1>0, <1>1, <1>5 DEF Failing
  <2> QED  BY <1>0, <1>1, <2>1 DEF ErrorOf
<1>20. BuildChain(u)'
  <2>1. Covers(q, Applied(u), Excused(u)')
    BY <1>4, <1>7, <1>10 DEF Covers
  <2>2. ASSUME NEW i \in 1..k, i # 1
        PROVE  Covers(build.reqs[i], build.reqs[i - 1].last, Excused(u)')
    <3>1. i - 1 \in 1..k
      BY <1>3, <2>2
    <3>2. Covers(build.reqs[i], build.reqs[i - 1].last, Excused(u))
      BY <1>3b, <2>2
    <3>3. \A x \in ok : x \notin build.reqs[i - 1].last + 1 .. build.reqs[i].last
      BY <1>4, <1>11, <1>14, <3>1
    <3> QED  BY <1>7, <3>2, <3>3, CoversStill
  <2>3. ASSUME NEW i \in 1..k
        PROVE  Covers(build'.reqs[i], IF i = 1 THEN Applied(u)' ELSE build'.reqs[i - 1].last, Excused(u)')
    <3>1. CASE i = 1
      BY <1>5, <1>13, <2>1, <3>1
    <3>2. CASE i # 1
      <4>1. i - 1 \in 1..k
        BY <1>3, <3>2
      <4> QED  BY <1>5, <1>14, <2>2, <3>2, <4>1
    <3> QED  BY <3>1, <3>2
  <2>4. \A i, j \in 1..k : i < j => build'.reqs[i].last < build'.reqs[j].last
    BY <1>3b, <1>14
  <2> QED  BY <1>5, <2>3, <2>4 DEF BuildChain
<1>21. DownloadChain(u)'
  <2>1. ASSUME Held(download, u) # 0
        PROVE  Covers(Head(download.reqs), Built(u), Excused(u)')
    <3>1. Covers(Head(download.reqs), Built(u), Excused(u))
      BY <1>0, <2>1 DEF ChainOf, DownloadChain
    <3>2. \A x \in ok : x \notin Built(u) + 1 .. Head(download.reqs).last
      BY <1>4, <1>9, <1>11, <1>15
    <3> QED  BY <1>7, <3>1, <3>2, CoversStill
  <2> QED  BY <1>1, <1>15, <2>1 DEF DownloadChain
<1>22. MetaChain(u)'
  <2>1. r.last <= Downloaded(u)
    <3>1. CASE Held(download, u) # 0
      <4>1. download.pc # "idle"
        BY <1>0, <3>1, StageTypes DEF Held, StageShape
      <4>2. Len(download.reqs) = 1 /\ download.reqs = <<Head(download.reqs)>> /\ Head(download.reqs) \in Request
        BY <1>0, <4>1, StageTypes, OneBatch
      <4>3. Downloaded(u) = Head(download.reqs).last
        BY <3>1, <4>2 DEF Downloaded, After
      <4>4. Built(u) < Head(download.reqs).last
        BY <1>0, <3>1 DEF ChainOf, DownloadChain, Covers
      <4> QED  BY <1>4, <1>9, <1>15, <4>3, <4>4
    <3>2. CASE Held(download, u) = 0
      BY <1>15, <3>2 DEF Downloaded, After
    <3> QED  BY <3>1, <3>2
  <2>2. ASSUME meta[u].pc = "produce"
        PROVE  Covers(Head(meta[u].reqs), Downloaded(u), Excused(u)')
    <3>1. Covers(Head(meta[u].reqs), Downloaded(u), Excused(u))
      BY <1>0, <2>2 DEF ChainOf, MetaChain
    <3>2. \A x \in ok : x \notin Downloaded(u) + 1 .. Head(meta[u].reqs).last
      BY <1>4, <1>9, <1>11, <2>1
    <3> DEFINE b == Head(meta[u].reqs)
    <3> HIDE DEF b
    <3>3. Covers(b, Downloaded(u), Excused(u)) /\ \A x \in ok : x \notin Downloaded(u) + 1 .. b.last
      BY <3>1, <3>2 DEF b
    <3>4. Covers(b, Downloaded(u), Excused(u)')
      BY <1>7, <3>3, CoversStill
    <3> QED  BY <3>4 DEF b
  <2> QED  BY <1>0, <1>1, <1>16, <2>2 DEF ChainOf, MetaChain
<1>23. EndChain(u)'
  BY <1>0, <1>1, <1>16 DEF ChainOf, EndChain
<1> QED  BY <1>17, <1>18, <1>19, <1>20, <1>21, <1>22, <1>23 DEF SyncedOf, ChainOf

(* The apply stage takes the first chunk, or drops that of a cancelled     *)
(* job.                                                                    *)
LEMMA ConsumeApplySynced ==
    ASSUME SyncedInv, NEW u \in Users, u = Owner(build), ConsumeApply
    PROVE  SyncedOf(u)'
<1> USE DEF dataVars
<1> DEFINE r == Head(build.reqs)
           k == Len(build.reqs)
<1>0. /\ CountInv /\ SyncedOf(u) /\ ErrorOf(u) /\ TypeOK /\ (~jobDone[u] => ChainOf(u)) /\ SkipOf(u) /\ ApplyOf(u)
      /\ build.pc = "produce" /\ apply = Idle
  BY DEF SyncedInv, SyncedOf, CountInv, ConsumeApply
<1>1. /\ UNCHANGED <<ctxDone, jobDone, meta, download, imap, status, gone, published>>
      /\ build' = IF k = 1 THEN Idle ELSE [pc |-> "chunk", reqs |-> Tail(build.reqs)]
  BY DEF ConsumeApply
<1>2. CASE jobDone[u]
  <2>1. onTaskFinished(u, 1, TRUE) /\ apply' = apply
    BY <1>2 DEF ConsumeApply
  <2>2. waiter'[u].err
    BY <1>0, <2>1, ReportSynced
  <2> QED  BY <1>0, <1>1, <1>2, <2>1, <2>2, CancelledSynced
<1>3. CASE ~jobDone[u]
  <2>0. /\ r \in Request /\ r.user = u /\ Held(build, u) = k /\ build.reqs \in Seq(Request) /\ k \in Nat /\ k >= 1
        /\ build.reqs # <<>> /\ build \in Stage(BuildPcs)
    BY <1>0, BuildFields, StageTypes
  <2>0a. DOMAIN build.reqs = 1..k /\ build.reqs[1] = r
    BY <2>0
  <2>1. PICK p \in {"finish", "request"} : apply' = [pc |-> p, reqs |-> <<r>>] /\ (p = "finish" => r.msgs = {})
    BY <1>3 DEF ConsumeApply
  <2>2. UNCHANGED <<handler, waiter>> /\ ChainOf(u)
    BY <1>0, <1>3 DEF ConsumeApply
  <2>3. \A i \in 1..k : /\ Covers(build.reqs[i], IF i = 1 THEN Applied(u) ELSE build.reqs[i - 1].last, Excused(u))
                        /\ \A j \in 1..k : i < j => build.reqs[i].last < build.reqs[j].last
    <3>1. BuildChain(u) /\ Held(build, u) # 0
      BY <2>0, <2>2 DEF ChainOf
    <3> HIDE DEF k
    <3> QED  BY <2>0a, <3>1 DEF BuildChain
  <2>4. k # 1 => /\ Len(build'.reqs) = k - 1 /\ DOMAIN build'.reqs = 1..(k - 1)
                 /\ \A i \in 1..(k - 1) : i + 1 \in 1..k /\ build'.reqs[i] = build.reqs[i + 1]
    <3> SUFFICES ASSUME k # 1
                 PROVE  /\ Len(build'.reqs) = k - 1 /\ DOMAIN build'.reqs = 1..(k - 1)
                        /\ \A i \in 1..(k - 1) : i + 1 \in 1..k /\ build'.reqs[i] = build.reqs[i + 1]
      OBVIOUS
    <3>1. Len(build.reqs) # 1 /\ build' = [pc |-> "chunk", reqs |-> Tail(build.reqs)] /\ "chunk" \in BuildPcs
      BY <1>1 DEF BuildPcs
    <3>2. /\ build' \in Stage(BuildPcs) /\ Len(build'.reqs) = k - 1
          /\ \A i \in DOMAIN build'.reqs : i + 1 \in DOMAIN build.reqs /\ build'.reqs[i] = build.reqs[i + 1]
      BY <2>0, <3>1, TailStage
    <3>3. DOMAIN build'.reqs = 1..(k - 1)
      <4>1. build'.reqs \in Seq(Request)
        BY <3>2, StageFields
      <4> QED  BY <3>2, <4>1, LenProperties
    <3> QED  BY <2>0a, <3>2, <3>3
  <2>5. build'.pc \in {"idle", "chunk"} /\ Held(build', u) = k - 1
    <3>1. CASE k = 1
      <4>1. build' = Idle /\ k - 1 = 0 /\ "idle" \in BuildPcs
        BY <1>1, <3>1 DEF BuildPcs
      <4>2. build'.pc = "idle" /\ Held(build', u) = 0
        BY <4>1, IdleStage
      <4> QED  BY <4>1, <4>2
    <3>2. CASE k # 1
      <4>1. Len(build.reqs) # 1 /\ build' = [pc |-> "chunk", reqs |-> Tail(build.reqs)] /\ "chunk" \in BuildPcs
        BY <1>1, <3>2 DEF BuildPcs
      <4> DEFINE b == build  c == build'
      <4>a. /\ b \in Stage(BuildPcs) /\ "chunk" \in BuildPcs /\ b.reqs # <<>> /\ Len(b.reqs) # 1
            /\ c = [pc |-> "chunk", reqs |-> Tail(b.reqs)]
        BY <2>0, <4>1
      <4> HIDE DEF b, c
      <4>b. c.pc = "chunk"
        BY <4>a
      <4>c. c.reqs # <<>>
        <5>0. Len(c.reqs) = k - 1
          BY <2>4, <3>2 DEF c
        <5> HIDE DEF k
        <5>1. Len(c.reqs) # 0
          BY <2>0, <3>2, <5>0
        <5>2. Len(<< >>) = 0
          BY EmptySeq
        <5> QED  BY <5>1, <5>2, Zenon
      <4>d. Owner(c) = Owner(b)
        BY <4>a, TailStage
      <4>2. build'.pc = "chunk" /\ Owner(build') = u /\ Len(build'.reqs) = k - 1 /\ build'.reqs # <<>>
        BY <2>4, <3>2, <4>b, <4>c, <4>d DEF b, c
      <4> QED  BY <4>2 DEF Held
    <3> QED  BY <3>1, <3>2
  <2> HIDE DEF r, k
  <2>6. /\ apply'.pc = p /\ Len(apply'.reqs) = 1 /\ Head(apply'.reqs) = r /\ apply'.reqs[1] = r
        /\ Held(apply', u) = 1
    <3>1. p \in ApplyPcs
      BY DEF ApplyPcs
    <3> QED  BY <2>0, <2>1, <3>1, OneStage
  <2>7. Held(apply, u) = 0 /\ apply.pc = "idle"
    BY <1>0, IdleStage DEF ApplyPcs
  <2>8. Excused(u)' = Excused(u) /\ Applied(u) = status[u].last /\ Applied(u)' = r.last
    BY <1>1, <2>6, <2>7 DEF Excused, Applied, After
  <2>9. Built(u)' = Built(u)
    <3>1. Built(u) = build.reqs[k].last
      BY <2>0 DEF Built, After, k
    <3>2. CASE k = 1
      <4>1. Built(u)' = Applied(u)'
        BY <2>5, <3>2 DEF Built, After
      <4> QED  BY <2>0a, <2>8, <3>1, <3>2, <4>1
    <3>3. CASE k # 1
      <4>1. k - 1 \in 1..(k - 1) /\ k - 1 # 0 /\ (k - 1) + 1 = k
        BY <2>0, <3>3
      <4>2. Built(u)' = build'.reqs[k - 1].last
        BY <2>5, <2>4, <3>3, <4>1 DEF Built, After
      <4>3. build'.reqs[k - 1] = build.reqs[k]
        BY <2>4, <3>3, <4>1
      <4> QED  BY <3>1, <4>2, <4>3
    <3> QED  BY <3>2, <3>3
  <2>10. Downloaded(u)' = Downloaded(u)
    BY <1>1, <2>9 DEF Downloaded, After
  <2>11. SkipOf(u)'
    BY <1>0, <1>1, <2>8 DEF SkipOf
  <2>12. ApplyOf(u)'
    <3>1. Covers(r, status[u].last, Excused(u))
      BY <2>0, <2>0a, <2>3, <2>8
    <3> QED  BY <1>1, <2>1, <2>6, <2>8, <3>1 DEF ApplyOf
  <2>13. ErrorOf(u)'
    <3>1. Failing(u)' = Failing(u)
      BY <1>0, <1>1, <2>1, <2>5, <2>6, <2>7 DEF Failing
    <3> QED  BY <1>0, <1>1, <2>2, <3>1 DEF ErrorOf
  <2>14. BuildChain(u)'
    <3>1. CASE k = 1
      BY <2>5, <3>1 DEF BuildChain
    <3>2. CASE k # 1
      <4>1. ASSUME NEW i \in 1..(k - 1)
            PROVE  /\ Covers(build'.reqs[i], IF i = 1 THEN Applied(u)' ELSE build'.reqs[i - 1].last, Excused(u)')
                   /\ \A j \in 1..(k - 1) : i < j => build'.reqs[i].last < build'.reqs[j].last
        <5>1. i + 1 \in 1..k /\ i + 1 # 1 /\ (i + 1) - 1 = i
          BY <2>0
        <5>2. Covers(build.reqs[i + 1], build.reqs[i].last, Excused(u)) /\ build'.reqs[i] = build.reqs[i + 1]
          BY <2>3, <2>4, <3>2, <5>1
        <5>3. build.reqs[i].last = IF i = 1 THEN Applied(u)' ELSE build'.reqs[i - 1].last
          <6>1. i # 1 => i - 1 \in 1..(k - 1) /\ (i - 1) + 1 = i
            BY <2>0
          <6> QED  BY <2>0a, <2>4, <2>8, <3>2, <6>1
        <5>4. \A j \in 1..(k - 1) : i < j => build'.reqs[i].last < build'.reqs[j].last
          <6> SUFFICES ASSUME NEW j \in 1..(k - 1), i < j
                       PROVE  build'.reqs[i].last < build'.reqs[j].last
            OBVIOUS
          <6>1. j + 1 \in 1..k /\ i + 1 < j + 1
            BY <2>0
          <6>2. build.reqs[i + 1].last < build.reqs[j + 1].last
            BY <2>3, <5>1, <6>1
          <6> QED  BY <2>4, <3>2, <6>2
        <5> QED  BY <2>8, <5>2, <5>3, <5>4
      <4> QED  BY <2>4, <3>2, <4>1 DEF BuildChain
    <3> QED  BY <3>1, <3>2
  <2>15. DownloadChain(u)'
    BY <1>1, <2>2, <2>8, <2>9 DEF ChainOf, DownloadChain
  <2>16. MetaChain(u)' /\ EndChain(u)'
    BY <1>1, <2>2, <2>8, <2>10 DEF ChainOf, MetaChain, EndChain
  <2> QED  BY <2>11, <2>12, <2>13, <2>14, <2>15, <2>16 DEF SyncedOf, ChainOf
<1> QED  BY <1>2, <1>3

-----------------------------------------------------------------------------
(* The apply stage and the IMAP loop. *)

(* Steps of the apply stage with the batch it has. *)
LEMMA ApplyPcSynced ==
    ASSUME SyncedInv, NEW u \in Users, u = Owner(apply), apply.pc # "idle", NEW p \in ApplyPcs,
           apply' = [apply EXCEPT !.pc = p], p # "idle",
           UNCHANGED <<handler, ctxDone, jobDone, waiter, meta, download, build, status, gone, published>>,
           apply.pc # "fail",
           p = "fail" => jobDone[u],
           p \in {"updates", "finish"} => Head(apply.reqs).msgs \subseteq published[u],
           p = "reply" => imap'[u].pc = "publish" /\ imap'[u].msgs = Head(apply.reqs).msgs
    PROVE  SyncedOf(u)'
<1>0. /\ CountInv /\ SkipOf(u) /\ ErrorOf(u) /\ ApplyOf(u) /\ (~jobDone[u] => ChainOf(u)) /\ apply \in Stage(ApplyPcs)
      /\ Held(apply, u) # 0
  <2>1. CountInv /\ SkipOf(u) /\ ErrorOf(u) /\ ApplyOf(u) /\ (~jobDone[u] => ChainOf(u))
    BY DEF SyncedInv, SyncedOf
  <2> QED  BY <2>1, StageTypes, ApplyFields
<1>1. apply'.pc = p /\ apply'.reqs = apply.reqs /\ Held(apply', u) = Held(apply, u)
  BY <1>0, PcStage
<1>2. Excused(u)' = Excused(u) /\ Applied(u)' = Applied(u)
  BY <1>1 DEF Excused, Applied, After
<1>3. Built(u)' = Built(u)
  BY <1>2 DEF Built, After
<1>4. Downloaded(u)' = Downloaded(u)
  BY <1>3 DEF Downloaded, After
<1>5. SkipOf(u)'
  BY <1>0, <1>2 DEF SkipOf
<1>6. ApplyOf(u)'
  BY <1>0, <1>1, <1>2 DEF ApplyOf
<1>7. ErrorOf(u)'
  <2>1. Failing(u) => Failing(u)'
    BY DEF Failing
  <2>2. Failing(u)' => Failing(u) \/ p = "fail"
    BY <1>1 DEF Failing
  <2> QED  BY <1>0, <2>1, <2>2 DEF ErrorOf
<1>8. ASSUME ChainOf(u)
      PROVE  ChainOf(u)'
  <2>1. BuildChain(u)' /\ DownloadChain(u)'
    BY <1>2, <1>3, <1>8 DEF ChainOf, BuildChain, DownloadChain
  <2>2. MetaChain(u)' /\ EndChain(u)'
    BY <1>2, <1>4, <1>8 DEF ChainOf, MetaChain, EndChain
  <2> QED  BY <2>1, <2>2 DEF ChainOf
<1> QED  BY <1>0, <1>5, <1>6, <1>7, <1>8 DEF SyncedOf

(* The request, its reply, and the wait for Gluon. *)
LEMMA ApplyStepsSynced ==
    ASSUME SyncedInv, NEW u \in Users, u = Owner(apply),
           SendRequest \/ SendRequestCancelled \/ UpdatesDone \/ Reply(u)
    PROVE  SyncedOf(u)'
<1> USE DEF dataVars, handlerVars
<1>0. /\ CountInv /\ ApplyOf(u) /\ apply.pc \notin {"idle", "fail"}
      /\ imap \in [Users -> [pc : {"select", "publish", "reply", "cancel"}, msgs : SUBSET Messages]]
  <2>1. CountInv /\ ApplyOf(u) /\ apply.pc \notin {"idle", "fail"}
    BY DEF SyncedInv, SyncedOf, SendRequest, SendRequestCancelled, UpdatesDone, Reply
  <2> QED  BY <2>1, DataTypes
<1>1. Held(apply, u) # 0
  BY <1>0, ApplyFields
<1>2. UNCHANGED <<handler, ctxDone, jobDone, waiter, meta, download, build, status, gone, published>>
  BY DEF SendRequest, SendRequestCancelled, UpdatesDone, Reply
<1>3. CASE SendRequest
  <2>1. apply' = [apply EXCEPT !.pc = "reply"] /\ imap'[u].pc = "publish" /\ imap'[u].msgs = Head(apply.reqs).msgs
    BY <1>0, <1>3 DEF SendRequest, ApplyMsgs
  <2>2. "reply" \in ApplyPcs
    BY DEF ApplyPcs
  <2> QED  BY <1>0, <1>2, <2>1, <2>2, ApplyPcSynced
<1>4. CASE SendRequestCancelled
  <2>1. apply' = [apply EXCEPT !.pc = "fail"] /\ jobDone[u] /\ "fail" \in ApplyPcs
    BY <1>4 DEF SendRequestCancelled, ApplyPcs
  <2> QED  BY <1>0, <1>2, <2>1, ApplyPcSynced
<1>5. CASE UpdatesDone
  <2>1. apply' = [apply EXCEPT !.pc = "finish"] /\ apply.pc = "updates" /\ "finish" \in ApplyPcs
    BY <1>5 DEF UpdatesDone, ApplyPcs
  <2>2. Head(apply.reqs).msgs \subseteq published[u]
    BY <1>0, <1>1, <2>1 DEF ApplyOf
  <2> QED  BY <1>0, <1>2, <2>1, <2>2, ApplyPcSynced
<1>6. CASE Reply(u)
  <2>1. apply' = [apply EXCEPT !.pc = "updates"] /\ apply.pc = "reply" /\ imap[u].pc = "reply" /\ "updates" \in ApplyPcs
    BY <1>6 DEF Reply, ApplyPcs
  <2>2. Head(apply.reqs).msgs \subseteq published[u]
    BY <1>0, <1>1, <2>1 DEF ApplyOf
  <2> QED  BY <1>0, <1>2, <2>1, <2>2, ApplyPcSynced
<1> QED  BY <1>3, <1>4, <1>5, <1>6

(* The apply stage fails. *)
LEMMA ApplyFailsSynced ==
    ASSUME SyncedInv, NEW u \in Users, u = Owner(apply), ApplyFails \/ ApplyOnError
    PROVE  SyncedOf(u)'
<1> USE DEF dataVars
<1>0. /\ CountInv /\ SyncedOf(u) /\ TypeOK /\ apply \in Stage(ApplyPcs)
      /\ jobDone \in [Users -> BOOLEAN] /\ apply.pc # "idle"
  <2>1. CountInv /\ SyncedOf(u) /\ TypeOK /\ jobDone \in [Users -> BOOLEAN] /\ apply.pc # "idle"
    BY DEF SyncedInv, SyncedOf, CountInv, TypeOK, ApplyFails, ApplyOnError
  <2> QED  BY <2>1, StageTypes
<1>1. UNCHANGED <<status, gone, published, imap>> /\ jobDone'[u]
  BY <1>0 DEF ApplyFails, ApplyOnError
<1>2. CASE ApplyFails
  <2>1. apply'.pc = "fail" /\ Held(apply', u) # 0
    <3>1. "fail" \in ApplyPcs /\ apply' = [apply EXCEPT !.pc = "fail"]
      BY <1>2 DEF ApplyPcs, ApplyFails
    <3>2. Held(apply, u) # 0
      BY <1>0, ApplyFields
    <3> QED  BY <1>0, <3>1, <3>2, PcStage
  <2>2. Failing(u)'
    BY <2>1 DEF Failing
  <2> QED  BY <1>0, <1>1, <2>1, <2>2, CancelledSynced
<1>3. CASE ApplyOnError
  <2>1. waiter'[u].err
    BY <1>0, <1>3, ReportSynced DEF ApplyOnError
  <2>2. Held(apply', u) = 0
    BY <1>3, IdleStage DEF ApplyOnError, ApplyPcs
  <2> QED  BY <1>0, <1>1, <2>1, <2>2, CancelledSynced
<1> QED  BY <1>2, <1>3

(* SetLastMessageID moves the sync state to the end of the batch. *)
LEMMA OnJobFinishedSynced ==
    ASSUME SyncedInv, NEW u \in Users, u = Owner(apply), OnJobFinished
    PROVE  SyncedOf(u)'
<1> DEFINE r == Head(apply.reqs)
<1>0. /\ CountInv /\ SkipOf(u) /\ ErrorOf(u) /\ ApplyOf(u) /\ (~jobDone[u] => ChainOf(u)) /\ TypeOK
      /\ apply.pc = "finish" /\ status \in [Users -> StatusType] /\ status[u] \in StatusType
  <2>1. /\ CountInv /\ SkipOf(u) /\ ErrorOf(u) /\ ApplyOf(u) /\ (~jobDone[u] => ChainOf(u)) /\ TypeOK
        /\ apply.pc = "finish"
    BY DEF SyncedInv, SyncedOf, CountInv, OnJobFinished
  <2> QED  BY <2>1, DataTypes
<1>1. UNCHANGED <<ctxDone, jobDone, meta, download, build, imap, gone, published>> /\ apply' = Idle
  BY DEF OnJobFinished
<1>2. r \in Request /\ Held(apply, u) = 1 /\ Len(apply.reqs) = 1 /\ apply.reqs[1] = r
  BY <1>0, StageTypes, OneBatch, OneRequest
<1>3. status'[u].last = r.last /\ status'[u].failed = status[u].failed
  BY <1>0 DEF OnJobFinished, StatusType
<1>4. Held(apply', u) = 0 /\ apply'.pc = "idle"
  BY <1>1, IdleStage DEF ApplyPcs
<1>5. Covers(r, status[u].last, Excused(u)) /\ r.msgs \subseteq published[u]
  BY <1>0, <1>2 DEF ApplyOf
<1>6. /\ handler'[u] \in JobStates => handler[u] \in JobStates
      /\ handler'[u] \in Started => handler[u] \in Started
      /\ waiter'[u].err = (waiter[u].err \/ FALSE)
  <2>1. onTaskFinished(u, 1, FALSE)
    BY DEF OnJobFinished
  <2> QED  BY <1>0, <2>1, ReportSynced
<1> HIDE DEF r
<1>7. Excused(u)' = Excused(u) /\ Applied(u) = r.last /\ Applied(u)' = r.last
  BY <1>1, <1>2, <1>3, <1>4 DEF Excused, Applied, After
<1>8. Built(u)' = Built(u)
  BY <1>1, <1>7 DEF Built, After
<1>9. Downloaded(u)' = Downloaded(u)
  BY <1>1, <1>8 DEF Downloaded, After
<1>10. SkipOf(u)'
  <2>1. status[u].last \in Nat /\ r.last \in Nat
    BY <1>0, <1>2, LastIsNat, RequestFields, PipelineAssumption DEF Messages
  <2>2. 1..r.last \subseteq (1..status[u].last) \cup (status[u].last + 1 .. r.last)
    BY <2>1
  <2>3. 1..r.last \subseteq published[u] \cup Excused(u)
    BY <1>0, <1>5, <2>2 DEF SkipOf, Covers
  <2> QED  BY <1>1, <1>3, <1>7, <2>3 DEF SkipOf
<1>11. ApplyOf(u)'
  BY <1>4 DEF ApplyOf
<1>12. ErrorOf(u)'
  <2>1. Failing(u)' = Failing(u)
    BY <1>0, <1>1, <1>4 DEF Failing
  <2> QED  BY <1>0, <1>1, <1>6, <2>1 DEF ErrorOf
<1>13. ASSUME ChainOf(u)
       PROVE  ChainOf(u)'
  <2>1. BuildChain(u)' /\ DownloadChain(u)'
    BY <1>1, <1>7, <1>8, <1>13 DEF ChainOf, BuildChain, DownloadChain
  <2>2. MetaChain(u)' /\ EndChain(u)'
    BY <1>1, <1>6, <1>7, <1>9, <1>13 DEF ChainOf, MetaChain, EndChain
  <2> QED  BY <2>1, <2>2 DEF ChainOf
<1> QED  BY <1>0, <1>1, <1>10, <1>11, <1>12, <1>13 DEF SyncedOf

(* The IMAP loop publishes, or cancels a sync; Gluon stores a message. *)
LEMMA ImapStepsSynced ==
    ASSUME SyncedInv, NEW u \in Users,
           CancelSync(u) \/ GluonApplies(u) \/ PublishUpdates(u) \/ CancelWaited(u) \/ ClearSyncStatus(u)
    PROVE  SyncedOf(u)'
<1> USE DEF dataVars, handlerVars, stageVars
<1>0. /\ CountInv /\ SyncedOf(u) /\ SkipOf(u) /\ ErrorOf(u) /\ ApplyOf(u) /\ (~jobDone[u] => ChainOf(u)) /\ TypeOK /\ Counted(u)
      /\ imap \in [Users -> [pc : {"select", "publish", "reply", "cancel"}, msgs : SUBSET Messages]]
      /\ published \in [Users -> SUBSET Messages]
  <2>1. CountInv /\ SyncedOf(u) /\ SkipOf(u) /\ ErrorOf(u) /\ ApplyOf(u) /\ (~jobDone[u] => ChainOf(u)) /\ TypeOK /\ Counted(u)
    BY DEF SyncedInv, SyncedOf, CountInv
  <2> QED  BY <2>1, DataTypes
<1>1. UNCHANGED <<waiter, meta, download, build, apply, gone>>
  BY DEF CancelSync, GluonApplies, PublishUpdates, CancelWaited, ClearSyncStatus
<1>2. Failing(u)' = Failing(u)
  BY <1>1 DEF Failing
<1>3. CASE CancelSync(u)
  <2>1. jobDone'[u] /\ ctxDone'[u] /\ UNCHANGED <<status, published>> /\ imap[u].pc = "select"
    BY <1>0, <1>3 DEF CancelSync, TypeOK
  <2>2. Excused(u)' = Excused(u)
    BY <1>1, <2>1 DEF Excused
  <2>3. SkipOf(u)' /\ ApplyOf(u)'
    BY <1>0, <1>1, <2>1, <2>2 DEF SkipOf, ApplyOf
  <2>4. ErrorOf(u)'
    BY <2>1 DEF ErrorOf
  <2> QED  BY <2>1, <2>3, <2>4 DEF SyncedOf
<1>4. CASE GluonApplies(u)
  <2>1. UNCHANGED <<handler, ctxDone, jobDone, imap, status, published>>
    BY <1>4 DEF GluonApplies
  <2>2. ErrorOf(u)'
    BY <1>0, <1>1, <1>2, <2>1 DEF ErrorOf
  <2> QED  BY <1>0, <1>1, <2>1, <2>2, HandlerSynced
<1>5. CASE PublishUpdates(u)
  <2>1. /\ UNCHANGED <<handler, ctxDone, jobDone, status>> /\ published'[u] = published[u] \cup imap[u].msgs
        /\ imap[u].pc = "publish" /\ imap'[u].pc = "reply" /\ imap'[u].msgs = imap[u].msgs
    BY <1>0, <1>5 DEF PublishUpdates
  <2>2. Excused(u)' = Excused(u) /\ Applied(u)' = Applied(u)
    BY <1>1, <2>1 DEF Excused, Applied, After
  <2>3. Built(u)' = Built(u)
    BY <1>1, <2>2 DEF Built, After
  <2>4. Downloaded(u)' = Downloaded(u)
    BY <1>1, <2>3 DEF Downloaded, After
  <2>5. SkipOf(u)'
    BY <1>0, <2>1, <2>2 DEF SkipOf
  <2>6. ApplyOf(u)'
    BY <1>0, <1>1, <2>1, <2>2 DEF ApplyOf
  <2>7. ErrorOf(u)'
    BY <1>0, <1>1, <1>2, <2>1 DEF ErrorOf
  <2>8. ASSUME ChainOf(u)
        PROVE  ChainOf(u)'
    <3>1. BuildChain(u)' /\ DownloadChain(u)'
      BY <1>1, <2>2, <2>3, <2>8 DEF ChainOf, BuildChain, DownloadChain
    <3>2. MetaChain(u)' /\ EndChain(u)'
      BY <1>1, <2>1, <2>2, <2>4, <2>8 DEF ChainOf, MetaChain, EndChain
    <3> QED  BY <3>1, <3>2 DEF ChainOf
  <2> QED  BY <1>0, <2>1, <2>5, <2>6, <2>7, <2>8 DEF SyncedOf
<1>6. CASE CancelWaited(u) \/ ClearSyncStatus(u)
  <2>1. Load(u) = 0 /\ handler[u] = "idle" /\ UNCHANGED <<handler, ctxDone, jobDone>>
    BY <1>0, <1>6 DEF CancelWaited, ClearSyncStatus, Counted, Waiting
  <2>2. /\ meta[u].pc = "none" /\ Held(download, u) = 0 /\ Held(build, u) = 0 /\ Held(apply, u) = 0 /\ ~Failing(u)
    BY <1>0, <2>1, NothingLoaded
  <2>3. SkipOf(u)'
    <3>1. CASE CancelWaited(u)
      BY <1>0, <1>1, <3>1 DEF CancelWaited, SkipOf, Excused
    <3>2. CASE ClearSyncStatus(u)
      <4>1. status'[u] = DefaultStatus
        BY <1>0, <3>2, DataTypes DEF ClearSyncStatus
      <4>2. status'[u].last = 0
        BY <4>1 DEF DefaultStatus
      <4> QED  BY <4>2 DEF SkipOf
    <3> QED  BY <1>6, <3>1, <3>2
  <2>4. ApplyOf(u)' /\ ErrorOf(u)'
    BY <1>1, <1>2, <2>1, <2>2 DEF ApplyOf, ErrorOf, JobStates
  <2>5. ChainOf(u)'
    BY <1>1, <2>1, <2>2 DEF ChainOf, BuildChain, DownloadChain, MetaChain, EndChain, Started
  <2> QED  BY <2>3, <2>4, <2>5 DEF SyncedOf
<1> QED  BY <1>3, <1>4, <1>5, <1>6

-----------------------------------------------------------------------------

(* The initial state. *)
LEMMA InitSynced == Init => SyncedInv
<1> SUFFICES ASSUME Init
             PROVE  SyncedInv
  OBVIOUS
<1>1. CountInv
  BY InitCounted
<1>2. ASSUME NEW u \in Users
      PROVE  SyncedOf(u)
  <2>1. handler[u] = "idle" /\ Counted(u) /\ status[u].last = 0
    BY <1>1 DEF Init, CountInv, DefaultStatus
  <2>2. Load(u) = 0
    BY <2>1 DEF Counted, Waiting
  <2>3. ~Failing(u) /\ ApplyOf(u) /\ ChainOf(u)
    BY <1>1, <2>1, <2>2, NothingLoaded DEF Started
  <2>4. SkipOf(u)
    BY <2>1 DEF SkipOf
  <2>5. ErrorOf(u)
    BY <2>1, <2>3 DEF ErrorOf, JobStates
  <2> QED  BY <2>3, <2>4, <2>5 DEF SyncedOf
<1> QED  BY <1>1, <1>2 DEF SyncedInv

(* Every step but a crash. *)
LEMMA SyncedStep ==
    ASSUME SyncedInv, Next, ~Crash
    PROVE  SyncedInv'
<1>0. CountInv
  BY DEF SyncedInv
<1>1. ASSUME NEW u \in Users, Execute(u) \/ CancelSync(u) \/ HandlerStep(u) \/ MetadataStep(u) \/ GluonApplies(u)
             \/ PublishUpdates(u) \/ CancelWaited(u) \/ ClearSyncStatus(u)
      PROVE  SyncedInv'
  <2>1. StepFor(u)
    BY <1>0, <1>1, HandlerSteps, JobSteps, MetadataSteps, ImapSteps DEF HandlerStep
  <2>2. CASE Execute(u) \/ HandlerStep(u)
    BY <2>1, <2>2, HandlerStepsSynced, JobStepsSynced, StepSynced DEF HandlerStep
  <2>3. CASE MetadataStep(u)
    BY <2>1, <2>3, MetadataStepsSynced, NextSynced, ConsumeDownloadSynced, StepSynced DEF MetadataStep
  <2>4. CASE CancelSync(u) \/ GluonApplies(u) \/ PublishUpdates(u) \/ CancelWaited(u) \/ ClearSyncStatus(u)
    BY <2>1, <2>4, ImapStepsSynced, StepSynced
  <2> QED  BY <1>1, <2>2, <2>3, <2>4
<1>2. CASE \E u \in Users : Reply(u)
  <2>1. PICK u \in Users : Reply(u)
    BY <1>2
  <2>2. u = Owner(apply)
    BY <2>1 DEF Reply
  <2>3. StepFor(u)
    BY <1>0, <2>1, <2>2, ApplySteps
  <2> QED  BY <2>1, <2>2, <2>3, ApplyStepsSynced, StepSynced
<1>3. CASE DownloadStep
  <2>1. PICK u \in Users : u = Owner(download) /\ StepFor(u)
    BY <1>0, <1>3, DownloadSteps, ConsumeBuildStep DEF DownloadStep
  <2> QED  BY <1>3, <2>1, DownloadSynced, DownloadFailsSynced, ConsumeBuildSynced, StepSynced DEF DownloadStep
<1>4. CASE BuildStep
  <2>1. PICK u \in Users : u = Owner(build) /\ StepFor(u)
    BY <1>0, <1>4, ChunkDivideStep, BuildSteps, ConsumeApplyStep DEF BuildStep
  <2>2. SyncedOf(u)'
    BY <1>4, <2>1, ChunkDivideSynced, BuildFailsSynced, BuildChunkSynced, ConsumeApplySynced DEF BuildStep
  <2> QED  BY <2>1, <2>2, StepSynced
<1>5. CASE ApplyStep
  <2>1. PICK u \in Users : u = Owner(apply) /\ StepFor(u)
    BY <1>0, <1>5, ApplySteps
  <2>2. SyncedOf(u)'
    BY <1>5, <2>1, ApplyStepsSynced, ApplyFailsSynced, OnJobFinishedSynced DEF ApplyStep
  <2> QED  BY <2>1, <2>2, StepSynced
<1> QED  BY <1>1, <1>2, <1>3, <1>4, <1>5 DEF Next, ImapStep

(* And no step at all. *)
LEMMA SyncedStutters ==
    ASSUME SyncedInv, UNCHANGED vars
    PROVE  SyncedInv'
<1> USE DEF vars, handlerVars, stageVars, dataVars
<1>1. CountInv'
  BY CountInvariant DEF SyncedInv
<1>2. \A u \in Users : SameFor(u)
  BY DEF SameFor, SameHeld
<1> QED  BY <1>1, <1>2, SameSynced DEF SyncedInv

-----------------------------------------------------------------------------
(* Until the first crash. *)

UntilCrash == CountInv /\ budget["crashes"] <= MaxCrashes /\ (NoCrash => SyncedInv)

(* Nothing but a crash spends a crash. *)
LEMMA CrashesOnly ==
    ASSUME TypeOK, [Next]_vars, ~Crash
    PROVE  budget'["crashes"] = budget["crashes"]
<1>1. budget' = budget \/ Spend("errors") \/ Spend("cancels")
  BY DEF Next, Execute, CancelSync, HandlerStep, CheckAborted, SyncLabels, CountAndNewJob, RunFails, Sync, SyncCancelled,
         WaitAndClose, Drain, Joined, WakeUp, SyncFinished, MetadataStep, MetadataCheck, MetadataNext, MetadataEnd,
         MetadataFails, MetadataOnError, ConsumeDownload, MetadataNoMore, ImapStep, PublishUpdates, Reply, CancelWaited,
         ClearSyncStatus, GluonApplies, DownloadStep, Download, DownloadFails, DownloadOnError, ConsumeBuild, BuildStep,
         ChunkDivide, BuildFails, BuildOnError, ChunkCancelled, BuildChunk, ConsumeApply, ApplyStep, SendRequest,
         SendRequestCancelled, UpdatesDone, ApplyFails, ApplyOnError, OnJobFinished, vars
<1> QED  BY <1>1 DEF Spend, TypeOK

(* A crash does. *)
LEMMA CrashSpends ==
    ASSUME TypeOK, budget["crashes"] <= MaxCrashes, Crash
    PROVE  budget'["crashes"] < MaxCrashes
  BY PipelineAssumption DEF Crash, Spend, TypeOK

(* So the invariant holds until the first crash. *)
LEMMA AlwaysUntilCrash == Spec => []UntilCrash
<1>1. Init => UntilCrash
  BY InitSynced, PipelineAssumption DEF Init, UntilCrash, SyncedInv
<1>2. UntilCrash /\ [Next]_vars => UntilCrash'
  <2> SUFFICES ASSUME UntilCrash, [Next]_vars
               PROVE  UntilCrash'
    OBVIOUS
  <2>1. CountInv' /\ TypeOK /\ budget["crashes"] \in Nat
    BY CountInvariant DEF UntilCrash, CountInv, TypeOK
  <2>2. CASE Crash
    <3>1. budget'["crashes"] < MaxCrashes /\ budget'["crashes"] \in Nat
      BY <2>1, <2>2, CrashSpends DEF UntilCrash, CountInv, TypeOK
    <3> QED  BY <2>1, <3>1, PipelineAssumption DEF UntilCrash, NoCrash
  <2>3. CASE ~Crash
    <3>1. budget'["crashes"] = budget["crashes"]
      BY <2>1, <2>3, CrashesOnly
    <3>2. NoCrash => SyncedInv'
      BY <2>3, SyncedStep, SyncedStutters DEF UntilCrash
    <3> QED  BY <2>1, <3>1, <3>2 DEF UntilCrash, NoCrash
  <2> QED  BY <2>2, <2>3
<1> QED  BY <1>1, <1>2, PTL DEF Spec

(* A job that has ended without an error went through to the last message, *)
(* or was cancelled by its handler's context.                              *)
LEMMA EndsWhole ==
    ASSUME SyncedInv, NEW u \in Users, handler[u] = "joined", ~waiter[u].err, ~ctxDone[u]
    PROVE  ~jobDone[u] /\ Messages \subseteq (1..status[u].last) \cup gone[u]
<1>0. CountInv /\ Counted(u) /\ ErrorOf(u) /\ (~jobDone[u] => ChainOf(u))
  BY DEF SyncedInv, CountInv, SyncedOf
<1>1. Load(u) = 0
  BY <1>0 DEF Counted, Waiting
<1>2. meta[u].pc = "none" /\ ~Failing(u) /\ Downloaded(u) = status[u].last
  BY <1>0, <1>1, NothingLoaded
<1>3. ~jobDone[u]
  BY <1>0, <1>2 DEF ErrorOf, JobStates
<1>4. status[u].last + 1 .. NumMessages \subseteq gone[u]
  BY <1>0, <1>2, <1>3 DEF ChainOf, EndChain, Started
<1>5. status[u].last \in Nat
  BY <1>0, LastIsNat
<1> QED  BY <1>3, <1>4, <1>5, PipelineAssumption DEF Messages

(* Only Joined sets HasMessages. *)
LEMMA OnlyJoinedCompletes ==
    ASSUME CountInv, [Next]_vars, NEW u \in Users, ~status[u].hasMessages, status'[u].hasMessages
    PROVE  Joined(u) /\ ~waiter[u].err
<1> USE DEF dataVars
<1>0. status \in [Users -> StatusType]
  BY DataTypes
<1>1. CASE status' = status
  BY <1>1
<1>2. ASSUME NEW v \in Users, SyncLabels(v) \/ CountAndNewJob(v) \/ ClearSyncStatus(v)
      PROVE  FALSE
  BY <1>0, <1>2 DEF SyncLabels, CountAndNewJob, ClearSyncStatus, DefaultStatus, StatusType
<1>3. ASSUME NEW v \in Users, Joined(v)
      PROVE  Joined(u) /\ ~waiter[u].err
  BY <1>0, <1>3 DEF Joined, StatusType
<1>4. ASSUME BuildChunk
      PROVE  FALSE
  <2>1. Owner(build) \in Users
    BY <1>4, BuildFields DEF BuildChunk
  <2>2. PICK S : status' = [status EXCEPT ![Owner(build)].failed = S]
    BY <1>4 DEF BuildChunk
  <2> QED  BY <1>0, <2>1, <2>2 DEF StatusType
<1>5. ASSUME OnJobFinished
      PROVE  FALSE
  <2> DEFINE v == Owner(apply)  x == Head(apply.reqs).last  y == status[v].num + Head(apply.reqs).count
  <2>1. status' = [status EXCEPT ![v] = [status[v] EXCEPT !.last = x, !.num = y]]
    BY <1>5 DEF OnJobFinished
  <2> HIDE DEF v, x, y
  <2> QED  BY <1>0, <2>1 DEF StatusType
<1> QED
  BY <1>1, <1>2, <1>3, <1>4, <1>5
     DEF Next, Crash, Execute, CancelSync, HandlerStep, CheckAborted, RunFails, Sync, SyncCancelled, WaitAndClose, Drain,
         WakeUp, SyncFinished, MetadataStep, MetadataCheck, MetadataNext, MetadataEnd, MetadataFails, MetadataOnError,
         ConsumeDownload, MetadataNoMore, ImapStep, PublishUpdates, Reply, CancelWaited, GluonApplies, DownloadStep,
         Download, DownloadFails, DownloadOnError, ConsumeBuild, BuildStep, ChunkDivide, BuildFails, BuildOnError,
         ChunkCancelled, ConsumeApply, ApplyStep, SendRequest, SendRequestCancelled, UpdatesDone, ApplyFails,
         ApplyOnError, vars, handlerVars

(* "end is expected to be called once the job has no further work left":   *)
(* a step that sets HasMessages finds no message left to sync, unless its  *)
(* handler's context is cancelled, whatever failed before.                 *)
THEOREM CompletesWhole == Spec => [][NoCrash => CompleteStep]_vars
<1>1. UntilCrash /\ [Next]_vars => [NoCrash => CompleteStep]_vars
  <2> SUFFICES ASSUME UntilCrash, [Next]_vars, NoCrash, NEW u \in Users,
                      ~status[u].hasMessages, status'[u].hasMessages, ~ctxDone[u]
               PROVE  Messages \subseteq published[u] \cup status[u].failed \cup gone[u]
    BY DEF CompleteStep
  <2>1. SyncedInv /\ CountInv /\ SkipOf(u)
    BY DEF UntilCrash, SyncedInv, SyncedOf
  <2>2. handler[u] = "joined" /\ ~waiter[u].err
    BY <2>1, OnlyJoinedCompletes DEF Joined
  <2>3. Messages \subseteq (1..status[u].last) \cup gone[u]
    BY <2>1, <2>2, EndsWhole
  <2> QED  BY <2>1, <2>3 DEF SkipOf, Excused
<1> QED  BY <1>1, AlwaysUntilCrash, PTL DEF Spec

-----------------------------------------------------------------------------
(* Until the first error or cancellation. *)

(* No job is cancelled, so the sync state and HasMessages are about what   *)
(* is in Gluon, which a crash leaves alone.                                *)
StoredOf(u) ==
    /\ ~jobDone[u] /\ ~ctxDone[u] /\ status[u].failed = {} /\ imap[u].pc # "cancel"
    /\ applied[u] \subseteq published[u]
    /\ 1..status[u].last \subseteq applied[u] \cup gone[u]
    /\ status[u].hasMessages => Messages \subseteq applied[u] \cup gone[u]
    /\ apply.pc = "finish" /\ Held(apply, u) # 0 => Head(apply.reqs).msgs \subseteq applied[u]
StoredInv == SyncedInv /\ \A u \in Users : StoredOf(u)
NothingSpent == ~Spend("errors") /\ ~Spend("cancels")

(* A step about another user leaves the facts about v alone. *)
LEMMA SameStored ==
    ASSUME NEW v \in Users, StoredOf(v), SameFor(v)
    PROVE  StoredOf(v)'
  BY SameHeldFacts DEF SameFor, StoredOf

(* A step that keeps what is in Gluon, and moves neither the sync state    *)
(* nor HasMessages.                                                        *)
LEMMA StillStored ==
    ASSUME NEW u \in Users, StoredOf(u), ~jobDone'[u], ~ctxDone'[u], imap'[u].pc # "cancel",
           status'[u].failed = {}, status'[u].last = status[u].last, status'[u].hasMessages = status[u].hasMessages,
           gone[u] \subseteq gone'[u], applied[u] \subseteq applied'[u], applied'[u] \subseteq published'[u],
           apply' = apply \/ Held(apply', u) = 0 \/ apply'.pc # "finish"
    PROVE  StoredOf(u)'
  BY DEF StoredOf

(* The handler sets HasMessages only after the last message. *)
LEMMA HandlerStored ==
    ASSUME StoredInv, NothingSpent, NEW u \in Users, Execute(u) \/ HandlerStep(u)
    PROVE  StoredOf(u)'
<1> USE DEF dataVars, stageVars
<1>0. SyncedInv /\ CountInv /\ TypeOK /\ StoredOf(u) /\ status \in [Users -> StatusType] /\ status[u] \in StatusType
  <2>1. SyncedInv /\ CountInv /\ TypeOK /\ StoredOf(u)
    BY DEF StoredInv, SyncedInv, CountInv
  <2> QED  BY <2>1, DataTypes
<1>1. /\ UNCHANGED <<stageVars, imap, gone, published, applied>> /\ status'[u].failed = status[u].failed
      /\ status'[u].last = status[u].last
      /\ ~Joined(u) => status'[u].hasMessages = status[u].hasMessages
  <2>1. UNCHANGED <<stageVars, imap, gone, published, applied>>
    BY DEF Execute, HandlerStep, CheckAborted, SyncLabels, CountAndNewJob, RunFails, Sync, SyncCancelled,
           WaitAndClose, Drain, Joined, WakeUp, SyncFinished
  <2>2. CASE SyncLabels(u) \/ CountAndNewJob(u) \/ Joined(u)
    BY <1>0, <2>1, <2>2 DEF SyncLabels, CountAndNewJob, Joined, StatusType
  <2>3. CASE status' = status
    BY <2>1, <2>3
  <2> QED  BY <2>2, <2>3 DEF Execute, HandlerStep, CheckAborted, RunFails, Sync, SyncCancelled,
                             WaitAndClose, Drain, WakeUp, SyncFinished
<1>2. ~jobDone'[u] /\ ~ctxDone'[u]
  <2>1. ~jobDone[u] /\ ~ctxDone[u] /\ jobDone \in [Users -> BOOLEAN] /\ ctxDone \in [Users -> BOOLEAN]
    BY <1>0 DEF StoredOf, TypeOK
  <2>2. ctxDone' = ctxDone \/ ctxDone' = [ctxDone EXCEPT ![u] = FALSE]
    BY DEF Execute, HandlerStep, CheckAborted, SyncLabels, CountAndNewJob, RunFails, Sync, SyncCancelled,
           WaitAndClose, Drain, Joined, WakeUp, SyncFinished
  <2>3. jobDone' = jobDone \/ jobDone' = [jobDone EXCEPT ![u] = ctxDone[u]]
    BY DEF Execute, HandlerStep, CheckAborted, SyncLabels, CountAndNewJob, RunFails, Sync, SyncCancelled,
           WaitAndClose, Drain, Joined, WakeUp, SyncFinished
  <2> QED  BY <2>1, <2>2, <2>3
<1>3. CASE ~Joined(u)
  BY <1>0, <1>1, <1>2, <1>3, StillStored DEF StoredOf
<1>4. CASE Joined(u)
  <2>1. CASE status'[u].hasMessages = status[u].hasMessages
    BY <1>0, <1>1, <1>2, <2>1, StillStored DEF StoredOf
  <2>2. CASE status'[u].hasMessages # status[u].hasMessages
    <3>1. handler[u] = "joined" /\ ~waiter[u].err /\ ~ctxDone[u]
      BY <1>0, <1>4, <2>2 DEF Joined, StoredOf
    <3>2. Messages \subseteq (1..status[u].last) \cup gone[u]
      BY <1>0, <3>1, EndsWhole
    <3>3. Messages \subseteq applied[u] \cup gone[u]
      BY <1>0, <3>2 DEF StoredOf
    <3> QED  BY <1>0, <1>1, <1>2, <3>3 DEF StoredOf
  <2> QED  BY <2>1, <2>2
<1> QED  BY <1>3, <1>4

(* The metadata goroutine. *)
LEMMA MetadataStored ==
    ASSUME StoredInv, NothingSpent, NEW u \in Users, MetadataStep(u)
    PROVE  StoredOf(u)'
<1> USE DEF dataVars, stageVars
<1>0. StoredOf(u)
  BY DEF StoredInv
<1>1. UNCHANGED <<ctxDone, apply, imap, status, gone, published, applied>>
  BY DEF MetadataStep, MetadataCheck, MetadataNext, MetadataEnd, MetadataFails, MetadataOnError, ConsumeDownload,
         MetadataNoMore
<1>2. ~jobDone'[u]
  BY <1>0 DEF MetadataStep, MetadataCheck, MetadataNext, MetadataEnd, MetadataFails, MetadataOnError, ConsumeDownload,
              MetadataNoMore, StoredOf, NothingSpent
<1> QED  BY <1>0, <1>1, <1>2, StillStored DEF StoredOf

(* The download stage. *)
LEMMA DownloadStored ==
    ASSUME StoredInv, NothingSpent, NEW u \in Users, u = Owner(download), DownloadStep
    PROVE  StoredOf(u)'
<1> USE DEF dataVars, handlerVars
<1>0. StoredOf(u) /\ gone \in [Users -> SUBSET Messages]
  BY DataTypes DEF StoredInv, SyncedInv
<1>1. ~DownloadFails
  BY <1>0 DEF DownloadFails, NothingSpent, StoredOf
<1>2. UNCHANGED <<ctxDone, jobDone, apply, imap, status, published, applied>>
  BY <1>1 DEF DownloadStep, Download, DownloadOnError, ConsumeBuild
<1>3. gone[u] \subseteq gone'[u]
  BY <1>0, <1>1 DEF DownloadStep, Download, DownloadOnError, ConsumeBuild
<1> QED  BY <1>0, <1>2, <1>3, StillStored DEF StoredOf

(* The build stage records no failed message. *)
LEMMA BuildStored ==
    ASSUME StoredInv, NothingSpent, NEW u \in Users, u = Owner(build), BuildStep
    PROVE  StoredOf(u)'
<1> USE DEF dataVars, handlerVars
<1>0. CountInv /\ StoredOf(u) /\ status \in [Users -> StatusType] /\ status[u] \in StatusType
  BY DataTypes DEF StoredInv, SyncedInv
<1>1. ~BuildFails
  BY DEF BuildFails, NothingSpent
<1>2. UNCHANGED <<ctxDone, jobDone, imap, gone, published, applied>>
  BY <1>1 DEF BuildStep, ChunkDivide, BuildOnError, ChunkCancelled, BuildChunk, ConsumeApply
<1>3. CASE BuildChunk
  <2>1. status' = [status EXCEPT ![u].failed = (status[u].failed \cup {}) \ Head(build.reqs).msgs] /\ apply' = apply
    BY <1>3 DEF BuildChunk, NothingSpent
  <2>2. status'[u].last = status[u].last /\ status'[u].hasMessages = status[u].hasMessages /\ status'[u].failed = {}
    BY <1>0, <2>1 DEF StatusType, StoredOf
  <2> QED  BY <1>0, <1>2, <2>1, <2>2, StillStored DEF StoredOf
<1>4. CASE ConsumeApply
  <2> DEFINE r == Head(build.reqs)
  <2>1. status' = status /\ r \in Request
    BY <1>0, <1>4, BuildFields DEF ConsumeApply
  <2>2. PICK p \in {"finish", "request"} : apply' = [pc |-> p, reqs |-> <<r>>] /\ (p = "finish" => r.msgs = {})
    BY <1>0, <1>4 DEF ConsumeApply, StoredOf
  <2> HIDE DEF r
  <2>3. apply'.pc = p /\ Head(apply'.reqs) = r
    BY <2>1, <2>2
  <2> QED  BY <1>0, <1>2, <2>1, <2>2, <2>3 DEF StoredOf
<1>5. CASE ChunkDivide \/ BuildOnError \/ ChunkCancelled
  <2>1. UNCHANGED <<status, apply>>
    BY <1>5 DEF ChunkDivide, BuildOnError, ChunkCancelled
  <2> QED  BY <1>0, <1>2, <2>1, StillStored DEF StoredOf
<1> QED  BY <1>1, <1>3, <1>4, <1>5 DEF BuildStep

(* The sync state moves to the end of a batch that is in Gluon. *)
LEMMA ApplyStored ==
    ASSUME StoredInv, NothingSpent, NEW u \in Users, u = Owner(apply), ApplyStep \/ Reply(u)
    PROVE  StoredOf(u)'
<1> USE DEF dataVars, handlerVars
<1>0. /\ CountInv /\ SyncedOf(u) /\ StoredOf(u) /\ status \in [Users -> StatusType] /\ status[u] \in StatusType
      /\ apply \in Stage(ApplyPcs) /\ apply.pc # "idle" /\ TypeOK
      /\ imap \in [Users -> [pc : {"select", "publish", "reply", "cancel"}, msgs : SUBSET Messages]]
  <2>1. CountInv /\ SyncedOf(u) /\ StoredOf(u) /\ TypeOK
    BY DEF StoredInv, SyncedInv, CountInv
  <2>2. apply.pc # "idle"
    BY DEF ApplyStep, SendRequest, SendRequestCancelled, UpdatesDone, ApplyFails, ApplyOnError, OnJobFinished, Reply
  <2> QED  BY <2>1, <2>2, DataTypes, StageTypes
<1>1. Held(apply, u) # 0
  BY <1>0, ApplyFields
<1>2. ~ApplyFails /\ ~ApplyOnError /\ ~SendRequestCancelled
  BY <1>0, <1>1 DEF ApplyFails, ApplyOnError, SendRequestCancelled, NothingSpent, StoredOf, SyncedOf, ErrorOf, Failing
<1>3. UNCHANGED <<ctxDone, jobDone, gone, published, applied>>
  BY <1>2 DEF ApplyStep, SendRequest, UpdatesDone, OnJobFinished, Reply
<1>4. imap'[u].pc # "cancel"
  <2>1. CASE SendRequest
    BY <1>0, <2>1 DEF SendRequest
  <2>2. CASE Reply(u)
    BY <1>0, <2>2 DEF Reply
  <2>3. CASE UpdatesDone \/ OnJobFinished
    BY <1>0, <2>3 DEF UpdatesDone, OnJobFinished, StoredOf
  <2> QED  BY <1>2, <2>1, <2>2, <2>3 DEF ApplyStep
<1>5. CASE SendRequest \/ Reply(u)
  <2>1. PICK p \in {"reply", "updates"} : apply' = [apply EXCEPT !.pc = p]
    BY <1>5 DEF SendRequest, Reply
  <2>2. p \in ApplyPcs
    BY DEF ApplyPcs
  <2>3. apply'.pc # "finish" /\ status' = status
    BY <1>0, <1>5, <2>1, <2>2, PcStage DEF SendRequest, Reply
  <2> QED  BY <1>0, <1>3, <1>4, <2>3, StillStored DEF StoredOf
<1>6. CASE UpdatesDone
  <2>1. apply' = [apply EXCEPT !.pc = "finish"] /\ status' = status /\ Head(apply.reqs).msgs \subseteq applied[u]
    BY <1>0, <1>6 DEF UpdatesDone, StoredOf, ApplyMsgs
  <2>2. apply'.reqs = apply.reqs
    BY <1>0, <2>1, PcStage DEF ApplyPcs
  <2> QED  BY <1>0, <1>3, <1>4, <2>1, <2>2 DEF StoredOf
<1>7. CASE OnJobFinished
  <2> DEFINE r == Head(apply.reqs)
  <2>1. apply.pc = "finish" /\ r \in Request /\ r.msgs \subseteq applied[u] /\ Covers(r, status[u].last, Excused(u))
    BY <1>0, <1>1, <1>7, ApplyFields DEF OnJobFinished, StoredOf, SyncedOf, ApplyOf
  <2>2. /\ status'[u].last = r.last /\ status'[u].failed = status[u].failed
        /\ status'[u].hasMessages = status[u].hasMessages
    BY <1>0, <1>7 DEF OnJobFinished, StatusType
  <2>3. Held(apply', u) = 0
    BY <1>7, IdleStage DEF OnJobFinished, ApplyPcs
  <2> HIDE DEF r
  <2>4. 1..r.last \subseteq applied[u] \cup gone[u]
    <3>1. status[u].last \in Nat /\ r.last \in Nat
      BY <1>0, <2>1, LastIsNat, RequestFields, PipelineAssumption DEF Messages
    <3>2. 1..r.last \subseteq (1..status[u].last) \cup (status[u].last + 1 .. r.last)
      BY <3>1
    <3> QED  BY <1>0, <2>1, <3>2 DEF StoredOf, Covers, Excused
  <2> QED  BY <1>0, <1>3, <1>4, <2>2, <2>3, <2>4 DEF StoredOf
<1> QED  BY <1>2, <1>5, <1>6, <1>7 DEF ApplyStep

(* The IMAP loop cancels nothing; Gluon stores what was published. *)
LEMMA ImapStored ==
    ASSUME StoredInv, NothingSpent, NEW u \in Users,
           CancelSync(u) \/ GluonApplies(u) \/ PublishUpdates(u) \/ CancelWaited(u) \/ ClearSyncStatus(u)
    PROVE  StoredOf(u)'
<1> USE DEF dataVars, handlerVars, stageVars
<1>0. /\ StoredOf(u) /\ applied \in [Users -> SUBSET Messages] /\ published \in [Users -> SUBSET Messages]
      /\ imap \in [Users -> [pc : {"select", "publish", "reply", "cancel"}, msgs : SUBSET Messages]]
  BY DEF StoredInv, SyncedInv, CountInv, TypeOK
<1>1. ~CancelSync(u) /\ ~CancelWaited(u) /\ ~ClearSyncStatus(u)
  BY <1>0 DEF CancelSync, CancelWaited, ClearSyncStatus, NothingSpent, StoredOf
<1>2. CASE GluonApplies(u)
  <2>1. UNCHANGED <<ctxDone, jobDone, apply, imap, status, gone, published>>
    BY <1>2 DEF GluonApplies
  <2>2. applied[u] \subseteq applied'[u] /\ applied'[u] \subseteq published[u]
    BY <1>0, <1>2 DEF GluonApplies, StoredOf
  <2> QED  BY <1>0, <2>1, <2>2, StillStored DEF StoredOf
<1>3. CASE PublishUpdates(u)
  <2>1. UNCHANGED <<ctxDone, jobDone, apply, status, gone, applied>> /\ imap'[u].pc = "reply"
        /\ published[u] \subseteq published'[u]
    BY <1>0, <1>3 DEF PublishUpdates
  <2> QED  BY <1>0, <2>1, StillStored DEF StoredOf
<1> QED  BY <1>1, <1>2, <1>3

(* A crash loses the updates that Gluon has not stored, and the sync       *)
(* state is not about them.                                                *)
LEMMA CrashStored ==
    ASSUME StoredInv, Crash
    PROVE  StoredInv'
<1>0. CountInv /\ CountInv'
  BY CrashCounted DEF StoredInv, SyncedInv
<1>1. ASSUME NEW u \in Users
      PROVE  SyncedOf(u)' /\ StoredOf(u)'
  <2>0. StoredOf(u)
    BY DEF StoredInv
  <2>1. /\ handler'[u] = "idle" /\ ~jobDone'[u] /\ ~ctxDone'[u] /\ imap'[u].pc # "cancel" /\ apply' = Idle
        /\ published'[u] = applied[u] /\ UNCHANGED <<status, gone, applied>>
    BY DEF Crash
  <2>2. Load(u)' = 0
    BY <1>0, <2>1 DEF CountInv, Counted, Waiting
  <2>3. Held(apply', u) = 0
    BY <2>1, IdleStage DEF ApplyPcs
  <2>4. StoredOf(u)'
    BY <2>0, <2>1, <2>3 DEF StoredOf
  <2>5. ApplyOf(u)'
    BY <2>3 DEF ApplyOf
  <2>6. meta'[u].pc = "none" /\ download' = Idle /\ build' = Idle
    BY NoMetaType DEF Crash
  <2>7. Held(download', u) = 0 /\ Held(build', u) = 0
    BY <2>6, IdleStage DEF DownloadPcs, BuildPcs
  <2>8. ErrorOf(u)'
    BY <2>1, <2>3, <2>6, <2>7 DEF ErrorOf, Failing, JobStates
  <2>9. ChainOf(u)'
    BY <2>1, <2>6, <2>7 DEF ChainOf, BuildChain, DownloadChain, MetaChain, EndChain, Started
  <2>10. SkipOf(u)'
    BY <2>0, <2>1 DEF StoredOf, SkipOf, Excused
  <2> QED  BY <2>4, <2>5, <2>8, <2>9, <2>10 DEF SyncedOf
<1> QED  BY <1>0, <1>1 DEF StoredInv, SyncedInv

(* Every step but a crash. *)
LEMMA StoredStep ==
    ASSUME StoredInv, NothingSpent, Next, ~Crash
    PROVE  StoredInv'
<1>0. SyncedInv /\ CountInv /\ SyncedInv'
  BY SyncedStep DEF StoredInv, SyncedInv
<1>1. ASSUME NEW u \in Users, StepFor(u), StoredOf(u)'
      PROVE  StoredInv'
  BY <1>0, <1>1, SameStored DEF StoredInv, StepFor
<1>2. ASSUME NEW u \in Users, Execute(u) \/ CancelSync(u) \/ HandlerStep(u) \/ MetadataStep(u) \/ GluonApplies(u)
             \/ PublishUpdates(u) \/ CancelWaited(u) \/ ClearSyncStatus(u)
      PROVE  StoredInv'
  <2>1. StepFor(u)
    BY <1>0, <1>2, HandlerSteps, JobSteps, MetadataSteps, ImapSteps DEF HandlerStep
  <2> QED  BY <1>1, <1>2, <2>1, HandlerStored, MetadataStored, ImapStored
<1>3. CASE \E u \in Users : Reply(u)
  <2>1. PICK u \in Users : Reply(u)
    BY <1>3
  <2>2. u = Owner(apply)
    BY <2>1 DEF Reply
  <2>3. StepFor(u)
    BY <1>0, <2>1, <2>2, ApplySteps
  <2> QED  BY <1>1, <2>1, <2>2, <2>3, ApplyStored
<1>4. CASE DownloadStep
  <2>1. PICK u \in Users : u = Owner(download) /\ StepFor(u)
    BY <1>0, <1>4, DownloadSteps, ConsumeBuildStep DEF DownloadStep
  <2> QED  BY <1>1, <1>4, <2>1, DownloadStored
<1>5. CASE BuildStep
  <2>1. PICK u \in Users : u = Owner(build) /\ StepFor(u)
    BY <1>0, <1>5, ChunkDivideStep, BuildSteps, ConsumeApplyStep DEF BuildStep
  <2> QED  BY <1>1, <1>5, <2>1, BuildStored
<1>6. CASE ApplyStep
  <2>1. PICK u \in Users : u = Owner(apply) /\ StepFor(u)
    BY <1>0, <1>6, ApplySteps
  <2> QED  BY <1>1, <1>6, <2>1, ApplyStored
<1> QED  BY <1>2, <1>3, <1>4, <1>5, <1>6 DEF Next, ImapStep

(* And no step at all. *)
LEMMA StoredStutters ==
    ASSUME StoredInv, UNCHANGED vars
    PROVE  StoredInv'
<1> USE DEF vars, handlerVars, stageVars, dataVars
<1>1. SyncedInv'
  BY SyncedStutters DEF StoredInv
<1>2. \A u \in Users : SameFor(u)
  BY DEF SameFor, SameHeld
<1> QED  BY <1>1, <1>2, SameStored DEF StoredInv

UntilFault ==
    /\ CountInv /\ budget["errors"] <= MaxErrors /\ budget["cancels"] <= MaxCancels
    /\ NoFault => StoredInv

(* Errors and cancellations are spent, never given back. *)
LEMMA BudgetFalls ==
    ASSUME TypeOK, [Next]_vars
    PROVE  /\ budget'["errors"] <= budget["errors"] /\ budget'["cancels"] <= budget["cancels"]
           /\ budget'["errors"] = budget["errors"] /\ budget'["cancels"] = budget["cancels"] => NothingSpent
<1>1. budget' = budget \/ Spend("errors") \/ Spend("cancels") \/ Spend("crashes")
  <2>1. CASE Crash
    BY <2>1 DEF Crash
  <2>2. CASE ~Crash
    BY <2>2 DEF
         Next, Execute, CancelSync, HandlerStep, CheckAborted, SyncLabels, CountAndNewJob, RunFails, Sync, SyncCancelled,
         WaitAndClose, Drain, Joined, WakeUp, SyncFinished, MetadataStep, MetadataCheck, MetadataNext, MetadataEnd,
         MetadataFails, MetadataOnError, ConsumeDownload, MetadataNoMore, ImapStep, PublishUpdates, Reply, CancelWaited,
         ClearSyncStatus, GluonApplies, DownloadStep, Download, DownloadFails, DownloadOnError, ConsumeBuild, BuildStep,
         ChunkDivide, BuildFails, BuildOnError, ChunkCancelled, BuildChunk, ConsumeApply, ApplyStep, SendRequest,
         SendRequestCancelled, UpdatesDone, ApplyFails, ApplyOnError, OnJobFinished, vars
  <2> QED  BY <2>1, <2>2
<1>2. budget \in [{"errors", "cancels", "crashes"} -> Nat]
  BY DEF TypeOK
<1> QED  BY <1>1, <1>2 DEF Spend, NothingSpent

(* So the invariant holds until the first error or cancellation. *)
LEMMA AlwaysUntilFault == Spec => []UntilFault
<1>1. Init => UntilFault
  <2> SUFFICES ASSUME Init
               PROVE  UntilFault
    OBVIOUS
  <2>1. SyncedInv /\ CountInv
    BY InitSynced DEF SyncedInv
  <2>2. ASSUME NEW u \in Users
        PROVE  StoredOf(u)
    <3>1. /\ ~jobDone[u] /\ ~ctxDone[u] /\ status[u] = DefaultStatus /\ imap[u].pc = "select"
          /\ applied[u] = {} /\ apply.pc = "idle"
      BY DEF Init, Idle
    <3>2. status[u].failed = {} /\ status[u].last = 0 /\ ~status[u].hasMessages
      BY <3>1 DEF DefaultStatus
    <3> QED  BY <3>1, <3>2 DEF StoredOf
  <2> QED  BY <2>1, <2>2, PipelineAssumption DEF Init, UntilFault, StoredInv
<1>2. UntilFault /\ [Next]_vars => UntilFault'
  <2> SUFFICES ASSUME UntilFault, [Next]_vars
               PROVE  UntilFault'
    OBVIOUS
  <2>1. CountInv' /\ TypeOK /\ TypeOK'
    BY CountInvariant DEF UntilFault, CountInv
  <2>2. /\ budget'["errors"] <= budget["errors"] /\ budget'["cancels"] <= budget["cancels"]
        /\ budget'["errors"] = budget["errors"] /\ budget'["cancels"] = budget["cancels"] => NothingSpent
        /\ budget["errors"] \in Nat /\ budget["cancels"] \in Nat /\ budget'["errors"] \in Nat /\ budget'["cancels"] \in Nat
    BY <2>1, BudgetFalls DEF TypeOK
  <2>3. NoFault' => NoFault /\ NothingSpent
    BY <2>2, PipelineAssumption DEF UntilFault, NoFault
  <2>4. NoFault' => StoredInv'
    BY <2>3, CrashStored, StoredStep, StoredStutters DEF UntilFault
  <2> QED  BY <2>1, <2>2, <2>4, PipelineAssumption DEF UntilFault
<1> QED  BY <1>1, <1>2, PTL DEF Spec

(* The account a sync keeps, for any users, messages and batches: the      *)
(* tasks are counted; until a crash what a restarted sync skips was        *)
(* handed to Gluon; and over any number of crashes, as long as nothing     *)
(* fails or is cancelled, it is in Gluon and HasMessages means that no     *)
(* message is left.                                                        *)
THEOREM SyncIsAccounted == Spec => []SyncAccounted
<1>1. UntilCrash => (NoCrash => SkippedWasPublished)
  BY DEF UntilCrash, SyncedInv, SyncedOf, SkipOf, Excused, SkippedWasPublished
<1>2. UntilFault => (NoFault => SkippedWasApplied /\ CompleteIsComplete)
  BY DEF UntilFault, StoredInv, StoredOf, SkippedWasApplied, CompleteIsComplete
<1>3. CountInv => TasksCounted
  BY CountedIsCounted
<1>4. UntilCrash /\ UntilFault => SyncAccounted
  BY <1>1, <1>2, <1>3 DEF UntilCrash, SyncAccounted
<1> QED  BY <1>4, AlwaysUntilCrash, AlwaysUntilFault, PTL
=============================================================================
