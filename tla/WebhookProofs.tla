---------------------------- MODULE WebhookProofs ----------------------------
(* Proofs about Webhook: types, final audits, and what a success audit and   *)
(* an acknowledgement mean, for any number of workers, events and users and  *)
(* any number of disturbances.                                               *)
EXTENDS Webhook, TLAPS

USE WebhookAssumption

-----------------------------------------------------------------------------
(* Types. *)

\* A request that has not begun is a request.
LEMMA IdleIsRequest == Idle \in Request /\ Unseen \in [Users -> Nat]
BY DEF Idle, Unseen, Request, Stages, Results

\* Rolling back keeps a request a request, whatever is done next.
LEMMA RolledBackIsRequest ==
    ASSUME NEW r \in Request
    PROVE  /\ RolledBack(r) \in Request
           /\ RolledBack(r).ev = r.ev
           /\ RolledBack(r).parts = {} /\ RolledBack(r).based = {}
           /\ RolledBack(r).seen = Unseen
           /\ RolledBack(r).stage = r.stage
BY IdleIsRequest DEF RolledBack, Request, Results

\* The error audit and every response keep the state well typed.
LEMMA RollbackType ==
    ASSUME TypeOK, NEW w \in Workers, ~At(w, "idle"), trouble' \in 0..MaxTrouble,
           RecordsError(w) \/ \E ok \in BOOLEAN : Answers(w, ok)
    PROVE  TypeOK'
<1> DEFINE r == req[w]
<1>1. r \in Request /\ r.ev \in Events
    BY DEF TypeOK, At
<1>2. PICK q \in Request : /\ req' = [req EXCEPT ![w] = q]
                           /\ q.ev \in Events
  <2>1. CASE RecordsError(w)
    <3>1. [RolledBack(r) EXCEPT !.disp = "error", !.stage = "log"] \in Request
        BY <1>1, RolledBackIsRequest, ZenonT(60) DEF Request, Stages, Results
    <3>2. [RolledBack(r) EXCEPT !.disp = "error", !.stage = "log"].ev = r.ev
        BY <1>1, RolledBackIsRequest DEF Request
    <3> QED BY <1>1, <2>1, <3>1, <3>2 DEF RecordsError
  <2>2. ASSUME NEW ok \in BOOLEAN, Answers(w, ok)
        PROVE  \E q \in Request : req' = [req EXCEPT ![w] = q] /\ q.ev \in Events
    <3>1. [RolledBack(r) EXCEPT !.reply = ok, !.stage = "release"] \in Request
        BY <1>1, RolledBackIsRequest, ZenonT(60) DEF Request, Stages
    <3>2. [RolledBack(r) EXCEPT !.reply = ok, !.stage = "release"].ev = r.ev
        BY <1>1, RolledBackIsRequest DEF Request
    <3> QED BY <1>1, <2>2, <3>1, <3>2 DEF Answers
  <2> QED BY <2>1, <2>2
<1>3. req' \in [Workers -> Request]
    BY <1>2 DEF TypeOK
<1>4. \A v \in Workers : At(v, "idle")' \/ req'[v].ev \in Events
    BY <1>2 DEF TypeOK, At
<1>5. auditRow' \in [Events -> Workers \cup {Nobody}]
    BY DEF TypeOK, RecordsError, Answers, Unlocked
<1>6. UNCHANGED <<bus, acked, lock, ver, alive, audit, served>>
    BY DEF RecordsError, Answers
<1> QED BY <1>3, <1>4, <1>5, <1>6 DEF TypeOK, bus

\* The initial state is well typed.
LEMMA TypeInit == Init => TypeOK
BY IdleIsRequest DEF Init, TypeOK, At, Idle, Results

\* A step of a request that changes no row and no audit keeps the types.
LEMMA RequestStepType ==
    ASSUME TypeOK, NEW w \in Workers, NEW q \in Request,
           q.stage = "idle" \/ q.ev \in Events,
           req' = [req EXCEPT ![w] = q],
           lock' \in [Events -> Workers \cup {Nobody}], acked' \in SUBSET Events,
           trouble' \in 0..MaxTrouble, auditRow' \in [Events -> Workers \cup {Nobody}],
           UNCHANGED <<bus, ver, alive, audit, served>>
    PROVE  TypeOK'
<1>1. req' \in [Workers -> Request]
    BY DEF TypeOK
<1>2. \A v \in Workers : At(v, "idle")' \/ req'[v].ev \in Events
    BY DEF TypeOK, At
<1> QED BY <1>1, <1>2 DEF TypeOK, bus

\* The steps of check_idempotency keep the types.
LEMMA CheckType ==
    ASSUME TypeOK, NEW w \in Workers, Acquire(w) \/ Busy(w) \/ Skip(w) \/ Settle(w)
    PROVE  TypeOK'
<1> DEFINE r == req[w]
<1>1. r \in Request /\ ((At(w, "lock") \/ At(w, "check")) => r.ev \in Events)
    BY DEF TypeOK, At
<1>2. CASE Acquire(w)
  <2> DEFINE q == [r EXCEPT !.stage = "check"]
  <2>1. q \in Request /\ q.ev \in Events
      BY <1>1, <1>2 DEF Acquire, Request, Stages
  <2>2. req' = [req EXCEPT ![w] = q]
      BY <1>2 DEF Acquire
  <2>3. lock' \in [Events -> Workers \cup {Nobody}]
      BY <1>2 DEF TypeOK, Acquire
  <2> HIDE DEF q
  <2> QED BY <1>2, <2>1, <2>2, <2>3, RequestStepType DEF Acquire, TypeOK, db
<1>3. CASE Busy(w)
  <2>1. Idle.stage = "idle"
      BY DEF Idle
  <2> QED BY <1>3, <2>1, IdleIsRequest, RequestStepType DEF Busy, TypeOK, db
<1>4. CASE Skip(w)
  <2> DEFINE q == [r EXCEPT !.disp = "skipped", !.stage = "log"]
  <2>1. q \in Request /\ q.ev \in Events
      BY <1>1, <1>4 DEF Skip, Request, Stages, Results
  <2>2. req' = [req EXCEPT ![w] = q]
      BY <1>4 DEF Skip
  <2> HIDE DEF q
  <2> QED BY <1>4, <2>1, <2>2, RequestStepType DEF Skip, TypeOK, db
<1>5. CASE Settle(w)
  <2> DEFINE q == [r EXCEPT !.parts = Participants[req[w].ev] \cap alive, !.stage = "ask"]
  <2>1. r.ev \in Events
      BY <1>1, <1>5 DEF Settle
  <2>2. Participants[req[w].ev] \cap alive \in SUBSET Users
      BY <2>1
  <2>3. q \in Request /\ q.ev \in Events
      BY <1>1, <2>1, <2>2 DEF Request, Stages
  <2>4. req' = [req EXCEPT ![w] = q]
      BY <1>5 DEF Settle
  <2> HIDE DEF q
  <2> QED BY <1>5, <2>3, <2>4, RequestStepType DEF Settle, TypeOK, db
<1> QED BY <1>2, <1>3, <1>4, <1>5

\* The steps of process_webhook and of the audit keep the types.
LEMMA ProcessType ==
    ASSUME TypeOK, NEW w \in Workers,
           \/ ReadBaseline(w) \/ Answer(w) \/ Apply(w) \/ NoRow(w)
           \/ LockRow(w) \/ InsertRow(w)
    PROVE  TypeOK'
<1> DEFINE r == req[w]
<1>1. r \in Request /\ (~At(w, "idle") => r.ev \in Events) /\ r.seen \in [Users -> Nat]
    BY DEF TypeOK, At, Request
<1>2. CASE ReadBaseline(w)
  <2>1. PICK u \in alive :
           req' = [req EXCEPT ![w] = [r EXCEPT !.based = @ \cup {u}, !.stage = "answer"]]
      BY <1>2 DEF ReadBaseline
  <2> DEFINE q == [r EXCEPT !.based = @ \cup {u}, !.stage = "answer"]
  <2>2. q \in Request /\ q.ev \in Events
      BY <1>1, <1>2, ZenonT(60) DEF ReadBaseline, At, Request, Stages, TypeOK
  <2> HIDE DEF q
  <2>3. req' = [req EXCEPT ![w] = q]
      BY <2>1 DEF q
  <2> QED BY <1>2, <2>2, <2>3, RequestStepType DEF ReadBaseline, TypeOK, db
<1>3. CASE Answer(w)
  <2>1. PICK u \in Users, s \in {"apply", "ask"} :
           req' = [req EXCEPT ![w] = [r EXCEPT !.seen = [@ EXCEPT ![u] = head[u]], !.stage = s]]
      BY <1>3, ZenonT(60) DEF Answer
  <2> DEFINE q == [r EXCEPT !.seen = [@ EXCEPT ![u] = head[u]], !.stage = s]
  <2>2. [r.seen EXCEPT ![u] = head[u]] \in [Users -> Nat]
      BY <1>1 DEF TypeOK
  <2>3. q \in Request /\ q.ev \in Events
      BY <1>1, <1>3, <2>2 DEF Answer, At, Request, Stages
  <2> HIDE DEF q
  <2>4. req' = [req EXCEPT ![w] = q]
      BY <2>1 DEF q
  <2> QED BY <1>3, <2>3, <2>4, RequestStepType DEF Answer, TypeOK, db
<1>4. CASE Apply(w)
  <2> DEFINE q == [r EXCEPT !.disp = "success", !.stage = "log"]
  <2>1. q \in Request /\ q.ev \in Events
      BY <1>1, <1>4 DEF Apply, At, Request, Stages, Results
  <2>2. req' = [req EXCEPT ![w] = q]
      BY <1>4 DEF Apply
  <2> HIDE DEF q
  <2> QED BY <1>4, <2>1, <2>2, RequestStepType DEF Apply, TypeOK, db
<1>5. CASE NoRow(w)
  <2> DEFINE q == [r EXCEPT !.stage = "insert"]
  <2>1. q \in Request /\ q.ev \in Events
      BY <1>1, <1>5 DEF NoRow, At, Request, Stages
  <2>2. req' = [req EXCEPT ![w] = q]
      BY <1>5 DEF NoRow
  <2> HIDE DEF q
  <2> QED BY <1>5, <2>1, <2>2, RequestStepType DEF NoRow, TypeOK, db
<1>6. ASSUME NEW res \in Results \cup {"keep"}, TakesRow(w, res), ~At(w, "idle")
      PROVE  TypeOK'
  <2> DEFINE q == [r EXCEPT !.write = res, !.stage = "commit"]
  <2>1. q \in Request /\ q.ev \in Events
      BY <1>1, <1>6 DEF Request, Stages
  <2>2. req' = [req EXCEPT ![w] = q]
      BY <1>6 DEF TakesRow
  <2>3. auditRow' \in [Events -> Workers \cup {Nobody}]
      BY <1>6 DEF TakesRow, TypeOK
  <2> HIDE DEF q
  <2> QED BY <1>6, <2>1, <2>2, <2>3, RequestStepType DEF TakesRow, TypeOK
<1>7. r.disp \in Results
    BY <1>1 DEF Request
<1>8. CASE LockRow(w)
    BY <1>6, <1>7, <1>8 DEF LockRow, At
<1>9. CASE InsertRow(w)
    BY <1>6, <1>7, <1>9 DEF InsertRow, At
<1> QED BY <1>2, <1>3, <1>4, <1>5, <1>8, <1>9

\* The commit writes rows, audit and the others' baselines with their types.
LEMMA CommitType == ASSUME TypeOK, NEW w \in Workers, Commit(w) PROVE TypeOK'
<1> DEFINE r == req[w]
<1>1. r \in Request /\ r.ev \in Events /\ r.seen \in [Users -> Nat]
      /\ r.parts \in SUBSET Users /\ r.write \in Results \cup {"keep"}
    BY DEF TypeOK, Commit, At, Request
<1>2. LoggedResult(w) \in Results
    BY <1>1 DEF TypeOK, LoggedResult
<1>3. ver' \in [Users -> Nat]
    BY <1>1 DEF Commit, TypeOK
<1>4. /\ audit' \in [Events -> Results]
      /\ served' \in [Events -> SUBSET Users]
      /\ auditRow' \in [Events -> Workers \cup {Nobody}]
    BY <1>1, <1>2 DEF Commit, TypeOK
<1> DEFINE s == IF r.disp = "error" THEN "release" ELSE "notify"
           b == Terminal(LoggedResult(w))
<1>5. /\ s \in Stages /\ b \in BOOLEAN
      /\ req' = [v \in Workers |->
                   IF v # w THEN [req[v] EXCEPT !.based = @ \ r.parts]
                   ELSE [RolledBack(r) EXCEPT !.stage = s, !.reply = b]]
    BY DEF Commit, Terminal, Stages
<1> HIDE DEF s, b
<1>6. ASSUME NEW v \in Workers
      PROVE  req'[v] \in Request /\ (At(v, "idle")' \/ req'[v].ev \in Events)
  <2>1. CASE v # w
    <3>1. req'[v] = [req[v] EXCEPT !.based = @ \ r.parts] /\ req[v] \in Request
        BY <1>5, <2>1 DEF TypeOK
    <3> QED BY <3>1, ZenonT(60) DEF TypeOK, Request, At
  <2>2. CASE v = w
    <3>1. req'[v] = [RolledBack(r) EXCEPT !.stage = s, !.reply = b]
        BY <1>5, <2>2
    <3>2. RolledBack(r) \in Request /\ RolledBack(r).ev = r.ev
        BY <1>1, RolledBackIsRequest
    <3> QED BY <1>1, <1>5, <3>1, <3>2, ZenonT(60) DEF Request
  <2> QED BY <2>1, <2>2
<1>7. req' \in [Workers -> Request]
    BY <1>5, <1>6
<1> QED BY <1>3, <1>4, <1>6, <1>7 DEF Commit, TypeOK, bus

\* Every step keeps the state well typed.
LEMMA TypeStep == TypeOK /\ [Next]_vars => TypeOK'
<1> SUFFICES ASSUME TypeOK, [Next]_vars PROVE TypeOK'
    OBVIOUS
<1>1. CASE UNCHANGED vars
    BY <1>1 DEF TypeOK, vars, bus, db, At
<1>2. ASSUME NEW e \in Events, Emit(e) PROVE TypeOK'
  <2>1. head' \in [Users -> Nat]
      BY <1>2 DEF Emit, TypeOK
  <2>2. due' \in [Events -> [Users -> Nat]]
      BY <1>2, <2>1 DEF Emit, TypeOK
  <2> QED BY <1>2, <2>1, <2>2 DEF Emit, TypeOK, db, At
<1>3. ASSUME NEW e \in Events, Expire(e) PROVE TypeOK'
    BY <1>3 DEF Expire, TypeOK, bus, db, At
<1>4. ASSUME NEW e \in Events, NEW w \in Workers, Deliver(w, e) PROVE TypeOK'
  <2> DEFINE q == [req[w] EXCEPT !.ev = e, !.stage = "lock"]
  <2>1. q \in Request /\ q.ev \in Events
    <3>1. req[w] \in Request
        BY DEF TypeOK
    <3>2. q \in Request
        BY <3>1 DEF Request, Stages
    <3> QED BY <3>1, <3>2 DEF Request
  <2>2. req' = [req EXCEPT ![w] = q]
      BY <1>4 DEF Deliver
  <2> HIDE DEF q
  <2> QED BY <1>4, <2>1, <2>2, RequestStepType DEF Deliver, TypeOK, db
<1>5. ASSUME NEW w \in Workers, Duplicate(w) \/ Conflict(w) \/ AuditConflict(w) \/ Notify(w)
      PROVE  TypeOK'
  <2>1. ~At(w, "idle") /\ trouble' \in 0..MaxTrouble
      BY <1>5 DEF Duplicate, Conflict, AuditConflict, Notify, At, TypeOK
  <2>2. RecordsError(w) \/ \E ok \in BOOLEAN : Answers(w, ok)
    <3> DEFINE t == Terminal(audit[req[w].ev])
    <3>1. t \in BOOLEAN
        BY DEF Terminal
    <3>2. CASE AuditConflict(w)
      <4>1. Answers(w, t)
          BY <3>2 DEF AuditConflict
      <4> HIDE DEF t
      <4> QED BY <3>1, <4>1
    <3>3. CASE Duplicate(w) \/ Notify(w)
        BY <3>3 DEF Duplicate, Notify
    <3>4. CASE Conflict(w)
        BY <3>4 DEF Conflict
    <3> QED BY <1>5, <3>2, <3>3, <3>4
  <2> QED BY <2>1, <2>2, RollbackType
<1>6. ASSUME NEW w \in Workers, Fails(w) \/ Aborts(w) PROVE TypeOK'
  <2>1. ~At(w, "idle") /\ trouble' \in 0..MaxTrouble
    <3>1. ~At(w, "idle")
        BY <1>6 DEF Fails, Aborts, At
    <3>2. Troubled
        BY <1>6 DEF Fails, Aborts
    <3> QED BY <3>1, <3>2 DEF Troubled, TypeOK
  <2>2. RecordsError(w) \/ \E ok \in BOOLEAN : Answers(w, ok)
      BY <1>6 DEF Fails, Aborts
  <2> QED BY <2>1, <2>2, RollbackType
<1>7. ASSUME NEW w \in Workers, Respond(w) \/ AcquireLost(w) \/ Crash(w) \/ ReplyLost(w)
      PROVE  TypeOK'
  <2>1. Idle.stage = "idle"
      BY DEF Idle
  <2>2. req' = [req EXCEPT ![w] = Idle]
      BY <1>7 DEF Respond, AcquireLost, Crash, ReplyLost
  <2>3. trouble' \in 0..MaxTrouble
      BY <1>7 DEF Respond, AcquireLost, Crash, ReplyLost, Troubled, TypeOK
  <2>4. lock' \in [Events -> Workers \cup {Nobody}]
      BY <1>7 DEF Respond, AcquireLost, Crash, ReplyLost, Released, TypeOK
  <2>5. acked' \in SUBSET Events
      BY <1>7 DEF Respond, AcquireLost, Crash, ReplyLost, TypeOK, At
  <2>6. auditRow' \in [Events -> Workers \cup {Nobody}]
      BY <1>7 DEF Respond, AcquireLost, Crash, ReplyLost, Unlocked, TypeOK, db
  <2>7. UNCHANGED <<bus, ver, alive, audit, served>>
      BY <1>7 DEF Respond, AcquireLost, Crash, ReplyLost, db
  <2> QED BY <2>1, <2>2, <2>3, <2>4, <2>5, <2>6, <2>7, IdleIsRequest, RequestStepType
<1>8. ASSUME NEW u \in Users, OtherCommit(u) PROVE TypeOK'
  <2>1. ver' \in [Users -> Nat] /\ trouble' \in 0..MaxTrouble
      BY <1>8 DEF OtherCommit, Troubled, TypeOK
  <2>2. ASSUME NEW w \in Workers
        PROVE  req'[w] \in Request /\ req'[w].stage = req[w].stage /\ req'[w].ev = req[w].ev
    <3>1. req'[w] = [req[w] EXCEPT !.based = @ \ {u}] /\ req[w] \in Request
        BY <1>8 DEF OtherCommit, TypeOK
    <3> QED BY <3>1 DEF Request
  <2>3. req' \in [Workers -> Request]
      BY <1>8, <2>2 DEF OtherCommit
  <2> QED BY <1>8, <2>1, <2>2, <2>3 DEF OtherCommit, TypeOK, bus, At
<1>9. ASSUME NEW u \in Users, SetDeleted(u) PROVE TypeOK'
    BY <1>9 DEF SetDeleted, Troubled, TypeOK, bus, At
<1>10. ASSUME NEW w \in Workers, Handles(w) PROVE TypeOK'
    BY <1>5, <1>7, <1>10, CheckType, ProcessType, CommitType DEF Handles
<1> QED BY <1>1, <1>2, <1>3, <1>4, <1>6, <1>7, <1>8, <1>9, <1>10 DEF Next

\* Every reachable state is well typed.
THEOREM TypeCorrect == Spec => []TypeOK
<1> QED BY TypeInit, TypeStep, PTL DEF Spec

-----------------------------------------------------------------------------
(* Safety. *)

Resting == {"idle", "lock", "check", "notify", "release"}
Writing == {"log", "insert", "commit"}

\* What the stage of a request says of its transaction.
Shape(r) ==
    /\ r.stage \in Resting => r.parts = {} /\ r.based = {} /\ r.seen = Unseen
    /\ \A u \in r.parts : u \in Participants[r.ev]
    /\ r.stage \in {"ask", "answer", "apply"} => r.parts # {}
    /\ r.stage \in Writing \cup {"apply"} => \A u \in r.parts : r.seen[u] # 0
    /\ r.stage \in Writing => /\ r.parts \subseteq r.based
                              /\ r.disp # "none"
                              /\ r.disp = "success" => r.parts # {}

\* A proposal is at least as recent as the event, and as the row while its
\* baseline holds.
Versions(r) ==
    /\ r.stage # "idle" => r.ev \in emitted
    /\ \A u \in Users : r.seen[u] # 0 => /\ r.seen[u] <= head[u]
                                         /\ due[r.ev][u] <= r.seen[u]
                                         /\ u \in r.based => ver[u] <= r.seen[u]

\* A request about to commit owns the audit row and decided on what is in it;
\* after the commit, and whenever it will answer 200, the audit is terminal.
Audited(w) ==
    LET r == req[w] IN
    /\ r.stage = "commit" =>
          /\ auditRow[r.ev] = w
          /\ r.write = "keep" => Terminal(audit[r.ev])
          /\ r.write # "keep" => r.write = r.disp /\ ~Terminal(audit[r.ev])
    /\ r.stage = "notify" => Terminal(audit[r.ev])
    /\ r.stage = "release" /\ r.reply => Terminal(audit[r.ev])

\* Events are audited after they are emitted and tell of states that exist.
BusInv ==
    /\ \A u \in Users : ver[u] <= head[u]
    /\ \A e \in Events : e \in emitted \/ audit[e] = "none"
    /\ \A e \in emitted : \A u \in Users :
          due[e][u] <= head[u] /\ (u \in Participants[e] => due[e][u] >= 1)

\* Row locks are exclusive.
HoldsApart == \A v, w \in Workers : v # w => Holds(v) \cap Holds(w) = {}

RequestsInv == \A w \in Workers : Shape(req[w]) /\ Versions(req[w]) /\ Audited(w)

IInv == /\ TypeOK /\ BusInv /\ HoldsApart /\ RequestsInv
        /\ AckMeansAudited /\ SuccessMeansReconciled

\* A request that has not begun satisfies its part of the invariant.
LEMMA IdleInv == Shape(Idle) /\ Versions(Idle) /\ Idle.stage = "idle" /\ Idle.parts = {}
BY DEF Idle, Shape, Versions, Resting, Writing, Unseen

\* The initial state satisfies the inductive invariant.
LEMMA SafetyInit == Init => IInv
<1> SUFFICES ASSUME Init PROVE IInv
    OBVIOUS
<1>1. TypeOK
    BY TypeInit
<1>2. BusInv
    BY DEF Init, BusInv, Unseen
<1>3. HoldsApart
    BY IdleInv DEF Init, HoldsApart, Holds
<1>4. RequestsInv
    BY IdleInv DEF Init, RequestsInv, Audited
<1>5. AckMeansAudited /\ SuccessMeansReconciled
    BY DEF Init, AckMeansAudited, SuccessMeansReconciled
<1> QED BY <1>1, <1>2, <1>3, <1>4, <1>5 DEF IInv

\* The other requests keep their part of the invariant when a step changes
\* neither them nor rows, audits and events.
LEMMA OthersKept ==
    ASSUME IInv, NEW w \in Workers, NEW v \in Workers, v # w, req'[v] = req[v],
           UNCHANGED <<bus, ver, audit>>,
           \A e \in Events : auditRow[e] = v => auditRow'[e] = v
    PROVE  Shape(req[v])' /\ Versions(req[v])' /\ Audited(v)'
<1>1. Shape(req[v]) /\ Versions(req[v]) /\ Audited(v)
    BY DEF IInv, RequestsInv
<1>2. Shape(req[v])'
    BY <1>1 DEF Shape
<1>3. Versions(req[v])'
    BY <1>1 DEF Versions, bus
<1>4. Audited(v)'
  <2>1. req[v].stage = "commit" => req[v].ev \in Events
      BY DEF IInv, TypeOK, At
  <2> QED BY <1>1, <2>1 DEF Audited, Terminal
<1> QED BY <1>2, <1>3, <1>4

\* A step of one request that leaves rows, audits and events alone keeps the
\* invariant if the request keeps its own part of it.
LEMMA RequestStep ==
    ASSUME IInv, TypeOK', NEW w \in Workers, NEW q \in Request,
           req' = [req EXCEPT ![w] = q],
           UNCHANGED <<bus, ver, audit, served>>,
           \A v \in Workers \ {w} : \A e \in Events : auditRow[e] = v => auditRow'[e] = v,
           \A v \in Workers \ {w} : q.stage \in Writing => Holds(v) \cap q.parts = {},
           AckMeansAudited', Shape(q), Versions(q), Audited(w)'
    PROVE  IInv'
<1>1. req'[w] = q /\ \A v \in Workers \ {w} : req'[v] = req[v]
    BY DEF IInv, TypeOK
<1>2. RequestsInv'
  <2>1. Shape(req[w])' /\ Versions(req[w])'
      BY <1>1 DEF Shape, Versions, bus
  <2>2. \A v \in Workers \ {w} : Shape(req[v])' /\ Versions(req[v])' /\ Audited(v)'
      BY <1>1, OthersKept
  <2> QED BY <2>1, <2>2 DEF RequestsInv
<1>3. HoldsApart'
  <2>1. \A v \in Workers \ {w} : Holds(v)' = Holds(v)
      BY <1>1 DEF Holds
  <2>2. \A v \in Workers \ {w} : Holds(v) \cap Holds(w)' = {}
      BY <1>1 DEF Holds, Writing
  <2> QED BY <2>1, <2>2 DEF IInv, HoldsApart
<1>4. BusInv' /\ SuccessMeansReconciled'
    BY DEF IInv, BusInv, SuccessMeansReconciled, bus
<1> QED BY <1>2, <1>3, <1>4 DEF IInv

\* The error audit and every response keep the invariant, if a 200 is
\* answered for a terminal audit only.
LEMMA RollbackInv ==
    ASSUME IInv, TypeOK', NEW w \in Workers, ~At(w, "idle"), NEW ok \in BOOLEAN,
           ok => Terminal(audit[req[w].ev]),
           RecordsError(w) \/ Answers(w, ok)
    PROVE  IInv'
<1> DEFINE r == req[w]
           p == [RolledBack(r) EXCEPT !.disp = "error", !.stage = "log"]
           a == [RolledBack(r) EXCEPT !.reply = ok, !.stage = "release"]
<1>1. r \in Request /\ r.ev \in emitted
    BY DEF IInv, TypeOK, RequestsInv, Versions, At
<1>2. RolledBack(r) \in Request /\ RolledBack(r).ev = r.ev /\ RolledBack(r).parts = {}
      /\ RolledBack(r).based = {} /\ RolledBack(r).seen = Unseen
    BY <1>1, RolledBackIsRequest
<1>3. \A v \in Workers \ {w} : \A e \in Events : auditRow[e] = v => auditRow'[e] = v
    BY DEF RecordsError, Answers, Unlocked
<1>4. UNCHANGED <<bus, acked, ver, audit, served>> /\ AckMeansAudited'
    BY DEF RecordsError, Answers, IInv, AckMeansAudited
<1>5. CASE RecordsError(w)
  <2>1. p \in Request
      BY <1>2 DEF Request, Stages, Results
  <2>2. p.ev = r.ev /\ p.parts = {} /\ p.based = {} /\ p.seen = Unseen
        /\ p.disp = "error" /\ p.stage = "log"
      BY <1>2 DEF Request
  <2>3. req' = [req EXCEPT ![w] = p]
      BY <1>5 DEF RecordsError
  <2> HIDE DEF p
  <2>4. Shape(p) /\ Versions(p)
      BY <1>1, <2>2 DEF Shape, Versions, Resting, Writing, Unseen
  <2>5. Audited(w)'
      BY <2>2, <2>3 DEF Audited, IInv, TypeOK
  <2> QED BY <1>3, <1>4, <2>1, <2>2, <2>3, <2>4, <2>5, RequestStep
<1>6. CASE Answers(w, ok)
  <2>1. a \in Request
      BY <1>2 DEF Request, Stages
  <2>2. a.ev = r.ev /\ a.parts = {} /\ a.based = {} /\ a.seen = Unseen
        /\ a.reply = ok /\ a.stage = "release"
      BY <1>2 DEF Request
  <2>3. req' = [req EXCEPT ![w] = a]
      BY <1>6 DEF Answers
  <2> HIDE DEF a
  <2>4. Shape(a) /\ Versions(a)
      BY <1>1, <2>2 DEF Shape, Versions, Resting, Writing, Unseen
  <2>5. Audited(w)'
      BY <1>4, <2>2, <2>3 DEF Audited, IInv, TypeOK, Terminal
  <2> QED BY <1>3, <1>4, <2>1, <2>2, <2>3, <2>4, <2>5, RequestStep
<1> QED BY <1>5, <1>6

\* Delivery, the lock and the choice of participants keep the invariant.
LEMMA CheckInv ==
    ASSUME IInv, TypeOK', NEW w \in Workers,
           \/ \E e \in Events : Deliver(w, e)
           \/ Acquire(w) \/ Busy(w) \/ Skip(w) \/ Settle(w)
    PROVE  IInv'
<1> DEFINE r == req[w]
<1>1. /\ r \in Request /\ Shape(r) /\ Versions(r)
      /\ ~At(w, "idle") => r.ev \in Events
    BY DEF IInv, TypeOK, RequestsInv
<1>2. UNCHANGED <<bus, ver, audit, served, auditRow, acked>> /\ AckMeansAudited'
    BY DEF Deliver, Acquire, Busy, Skip, Settle, db, IInv, AckMeansAudited
<1>3. req' \in [Workers -> Request] /\ req'[w] \in Request
    BY DEF TypeOK
<1>4. req' = [req EXCEPT ![w] = req'[w]]
  <2>1. \E q \in Request : req' = [req EXCEPT ![w] = q]
    <3>1. CASE \E e \in Events : Deliver(w, e)
      <4>1. PICK e \in Events : req' = [req EXCEPT ![w] = [r EXCEPT !.ev = e, !.stage = "lock"]]
          BY <3>1, ZenonT(60) DEF Deliver
      <4> QED BY <1>1, <1>3, <4>1 DEF IInv, TypeOK
    <3>2. CASE Acquire(w) \/ Skip(w) \/ Settle(w)
        BY <1>1, <1>3, <3>2 DEF Acquire, Skip, Settle, IInv, TypeOK
    <3>3. CASE Busy(w)
        BY <3>3, IdleIsRequest DEF Busy
    <3> QED BY <3>1, <3>2, <3>3
  <2> QED BY <2>1 DEF IInv, TypeOK
<1>5. /\ Shape(req'[w]) /\ Versions(req'[w]) /\ Audited(w)'
      /\ \A v \in Workers \ {w} : req'[w].stage \in Writing => Holds(v) \cap req'[w].parts = {}
  <2>1. CASE \E e \in Events : Deliver(w, e)
    <3>1. PICK e \in emitted : /\ r.stage = "idle"
                               /\ req'[w] = [r EXCEPT !.ev = e, !.stage = "lock"]
        BY <2>1 DEF Deliver, At, IInv, TypeOK
    <3>2. /\ req'[w].ev = e /\ req'[w].stage = "lock"
          /\ req'[w].parts = {} /\ req'[w].based = {} /\ req'[w].seen = Unseen
        BY <1>1, <3>1 DEF Request, Shape, Resting
    <3> QED BY <3>2 DEF Shape, Versions, Audited, Resting, Writing, Unseen
  <2>2. CASE Acquire(w)
    <3>1. r.stage = "lock" /\ req'[w] = [r EXCEPT !.stage = "check"]
        BY <2>2 DEF Acquire, At, IInv, TypeOK
    <3>2. /\ req'[w].ev = r.ev /\ req'[w].stage = "check"
          /\ req'[w].parts = {} /\ req'[w].based = {} /\ req'[w].seen = Unseen
        BY <1>1, <3>1 DEF Request, Shape, Resting
    <3> QED BY <1>1, <3>1, <3>2 DEF Shape, Versions, Audited, Resting, Writing, Unseen
  <2>3. CASE Busy(w)
    <3>1. req'[w] = Idle
        BY <2>3 DEF Busy, IInv, TypeOK
    <3> QED BY <3>1, IdleInv DEF Audited, Writing
  <2>4. CASE Skip(w)
    <3>1. r.stage = "check" /\ req'[w] = [r EXCEPT !.disp = "skipped", !.stage = "log"]
        BY <2>4 DEF Skip, At, IInv, TypeOK
    <3>2. /\ req'[w].ev = r.ev /\ req'[w].stage = "log" /\ req'[w].disp = "skipped"
          /\ req'[w].parts = {} /\ req'[w].based = {} /\ req'[w].seen = Unseen
        BY <1>1, <3>1 DEF Request, Shape, Resting
    <3> QED BY <1>1, <3>1, <3>2 DEF Shape, Versions, Audited, Resting, Writing, Unseen
  <2>5. CASE Settle(w)
    <3> DEFINE S == Participants[r.ev] \cap alive
    <3>1. /\ r.stage = "check" /\ S # {}
          /\ req'[w] = [r EXCEPT !.parts = S, !.stage = "ask"]
        BY <2>5 DEF Settle, At, IInv, TypeOK
    <3>2. /\ req'[w].ev = r.ev /\ req'[w].stage = "ask" /\ req'[w].parts = S
          /\ req'[w].based = {} /\ req'[w].seen = Unseen
        BY <1>1, <3>1 DEF Request, Shape, Resting
    <3> QED BY <1>1, <3>1, <3>2 DEF Shape, Versions, Audited, Resting, Writing, Unseen
  <2> QED BY <2>1, <2>2, <2>3, <2>4, <2>5
<1> DEFINE q == req'[w]
<1> HIDE DEF q
<1>6. q \in Request /\ req' = [req EXCEPT ![w] = q]
    BY <1>3, <1>4 DEF q
<1>7. /\ Shape(q) /\ Versions(q) /\ Audited(w)'
      /\ \A v \in Workers \ {w} : q.stage \in Writing => Holds(v) \cap q.parts = {}
    BY <1>5 DEF q
<1> QED BY <1>2, <1>6, <1>7, RequestStep

\* Reading, comparing and locking keep the invariant: a proposal read at a
\* baseline is at least as recent as the row until the row is committed.
LEMMA ProcessInv ==
    ASSUME IInv, TypeOK', NEW w \in Workers,
           ReadBaseline(w) \/ Answer(w) \/ Apply(w) \/ NoRow(w)
    PROVE  IInv'
<1> DEFINE r == req[w]
<1>1. /\ r \in Request /\ Shape(r) /\ Versions(r) /\ Audited(w)
      /\ ~At(w, "idle") => r.ev \in Events
    BY DEF IInv, TypeOK, RequestsInv
<1>0. \A x \in Users : r.seen[x] # 0 => /\ r.seen[x] <= head[x] /\ due[r.ev][x] <= r.seen[x]
                                        /\ x \in r.based => ver[x] <= r.seen[x]
    BY <1>1 DEF Versions
<1>2. UNCHANGED <<bus, ver, audit, served, auditRow, acked>> /\ AckMeansAudited'
    BY DEF ReadBaseline, Answer, Apply, NoRow, db, IInv, AckMeansAudited
<1>3. ASSUME NEW q \in Request, req' = [req EXCEPT ![w] = q], Shape(q), Versions(q),
             q.stage \notin {"commit", "notify", "release"},
             \A v \in Workers \ {w} : q.stage \in Writing => Holds(v) \cap q.parts = {}
      PROVE  IInv'
  <2>1. Audited(w)'
      BY <1>3 DEF Audited, IInv, TypeOK
  <2> QED BY <1>2, <1>3, <2>1, RequestStep
<1>4. CASE ReadBaseline(w)
  <2>1. PICK u \in alive :
           /\ NextUnread(w, u)
           /\ req' = [req EXCEPT ![w] = [r EXCEPT !.based = @ \cup {u}, !.stage = "answer"]]
      BY <1>4 DEF ReadBaseline
  <2> DEFINE q == [r EXCEPT !.based = @ \cup {u}, !.stage = "answer"]
  <2>2. r.stage = "ask" /\ r.seen[u] = 0 /\ u \in Users
      BY <1>4, <2>1 DEF ReadBaseline, At, NextUnread, Unread, IInv, TypeOK
  <2>3. /\ q \in Request
        /\ q.stage = "answer" /\ q.ev = r.ev /\ q.parts = r.parts /\ q.seen = r.seen
        /\ q.based = r.based \cup {u}
      BY <1>1, <2>2 DEF Request, Stages
  <2> HIDE DEF q
  <2>4. Shape(q)
      BY <1>1, <2>2, <2>3 DEF Shape, Resting, Writing
  <2>5. Versions(q)
      BY <1>1, <2>2, <2>3 DEF Versions
  <2>6. req' = [req EXCEPT ![w] = q]
      BY <2>1 DEF q
  <2> QED BY <1>3, <2>3, <2>4, <2>5, <2>6 DEF Writing
<1>5. CASE Answer(w)
  <2> DEFINE s(u) == IF Unread(w) = {u} THEN "apply" ELSE "ask"
  <2>1. PICK u \in Users :
           /\ NextUnread(w, u)
           /\ req' = [req EXCEPT ![w] = [r EXCEPT !.seen = [@ EXCEPT ![u] = head[u]],
                                                !.stage = s(u)]]
      BY <1>5, ZenonT(60) DEF Answer
  <2> DEFINE q == [r EXCEPT !.seen = [@ EXCEPT ![u] = head[u]], !.stage = s(u)]
             f == [r.seen EXCEPT ![u] = head[u]]
  <2>2. r.stage = "answer" /\ r.seen[u] = 0 /\ u \in r.parts
      BY <1>5, <2>1 DEF Answer, At, NextUnread, Unread
  <2>3. r.seen \in [Users -> Nat] /\ r.ev \in emitted /\ head \in [Users -> Nat]
      BY <1>1, <2>2 DEF Request, Versions, IInv, TypeOK
  <2>4. f \in [Users -> Nat] /\ f[u] = head[u] /\ \A v \in Users \ {u} : f[v] = r.seen[v]
      BY <2>3
  <2>5. s(u) \in {"apply", "ask"} /\ s(u) \in Stages
      BY Zenon DEF Stages
  <2>6. /\ q \in Request
        /\ q.stage = s(u) /\ q.ev = r.ev /\ q.parts = r.parts /\ q.seen = f
        /\ q.based = r.based
      BY <1>1, <2>4, <2>5 DEF Request
  <2>7. u \in Participants[r.ev]
      BY <1>1, <2>2 DEF Shape
  <2>8. head[u] >= 1 /\ due[r.ev][u] <= head[u] /\ ver[u] <= head[u]
      BY <2>3, <2>7 DEF IInv, BusInv, TypeOK
  <2>9. ASSUME s(u) = "apply", NEW v \in r.parts PROVE f[v] # 0
    <3>1. CASE v = u
        BY <2>3, <2>4, <2>8, <3>1
    <3>2. CASE v # u
      <4>1. Unread(w) = {u}
          BY <2>9
      <4>2. v \notin Unread(w) /\ v \in Users
          BY <1>1, <3>2, <4>1 DEF Request
      <4> QED BY <2>4, <3>2, <4>2 DEF Unread
    <3> QED BY <3>1, <3>2
  <2>10. req' = [req EXCEPT ![w] = q]
      BY <2>1
  <2> HIDE DEF q, f, s
  <2>11. Shape(q)
      BY <1>1, <2>2, <2>5, <2>6, <2>9 DEF Shape, Resting, Writing
  <2>12. Versions(q)
    <3>1. q.ev \in emitted
        BY <2>3, <2>6
    <3>2. ASSUME NEW v \in Users, q.seen[v] # 0
          PROVE  /\ q.seen[v] <= head[v] /\ due[q.ev][v] <= q.seen[v]
                 /\ v \in q.based => ver[v] <= q.seen[v]
      <4>1. CASE v = u
          BY <2>3, <2>4, <2>6, <2>8, <4>1
      <4>2. CASE v # u
        <5>1. q.seen[v] = r.seen[v] /\ q.ev = r.ev /\ q.based = r.based
            BY <2>4, <2>6, <4>2
        <5> QED BY <1>0, <3>2, <5>1
      <4> QED BY <4>1, <4>2
    <3> QED BY <3>1, <3>2 DEF Versions
  <2> QED BY <1>3, <2>5, <2>6, <2>10, <2>11, <2>12 DEF Writing
<1>6. CASE Apply(w)
  <2> DEFINE q == [r EXCEPT !.disp = "success", !.stage = "log"]
  <2>1. r.stage = "apply" /\ r.parts \subseteq r.based
      BY <1>6 DEF Apply, At, Current
  <2>2. /\ q \in Request
        /\ q.stage = "log" /\ q.ev = r.ev /\ q.parts = r.parts /\ q.seen = r.seen
        /\ q.based = r.based /\ q.disp = "success"
      BY <1>1 DEF Request, Stages, Results
  <2>3. req' = [req EXCEPT ![w] = q]
      BY <1>6 DEF Apply
  <2> HIDE DEF q
  <2>4. Shape(q) /\ Versions(q)
      BY <1>1, <2>1, <2>2 DEF Shape, Versions, Resting, Writing
  <2>5. \A v \in Workers \ {w} : Holds(v) \cap q.parts = {}
      BY <1>6, <2>2 DEF Apply, RowsFree
  <2> QED BY <1>3, <2>2, <2>3, <2>4, <2>5
<1>7. CASE NoRow(w)
  <2> DEFINE q == [r EXCEPT !.stage = "insert"]
  <2>1. r.stage = "log"
      BY <1>7 DEF NoRow, At
  <2>2. /\ q \in Request
        /\ q.stage = "insert" /\ q.ev = r.ev /\ q.parts = r.parts /\ q.seen = r.seen
        /\ q.based = r.based /\ q.disp = r.disp
      BY <1>1 DEF Request, Stages
  <2>3. req' = [req EXCEPT ![w] = q]
      BY <1>7 DEF NoRow
  <2> HIDE DEF q
  <2>4. Shape(q) /\ Versions(q)
      BY <1>1, <2>1, <2>2 DEF Shape, Versions, Resting, Writing
  <2>5. \A v \in Workers \ {w} : Holds(v) \cap q.parts = {}
      BY <2>1, <2>2 DEF IInv, HoldsApart, Holds
  <2> QED BY <1>3, <2>2, <2>3, <2>4, <2>5
<1> QED BY <1>4, <1>5, <1>6, <1>7

\* Taking the audit row keeps the invariant: the decision to write is made
\* under the row's lock, so no other transaction can finish the event first.
LEMMA TakeInv ==
    ASSUME IInv, TypeOK', NEW w \in Workers, LockRow(w) \/ InsertRow(w)
    PROVE  IInv'
<1> DEFINE r == req[w]
<1>1. /\ r \in Request /\ Shape(r) /\ Versions(r)
      /\ r.stage \in {"log", "insert"} /\ r.ev \in Events
      /\ r.disp \in Results
    BY DEF IInv, TypeOK, RequestsInv, LockRow, InsertRow, At, Request
<1>2. PICK res \in Results \cup {"keep"} :
         /\ TakesRow(w, res)
         /\ res = "keep" => Terminal(audit[r.ev])
         /\ res # "keep" => res = r.disp /\ ~Terminal(audit[r.ev])
  <2>1. CASE LockRow(w)
      BY <1>1, <2>1 DEF LockRow, Results
  <2>2. CASE InsertRow(w)
      BY <1>1, <2>2 DEF InsertRow, Results, Terminal
  <2> QED BY <2>1, <2>2
<1> DEFINE q == [r EXCEPT !.write = res, !.stage = "commit"]
<1>3. /\ q \in Request
      /\ q.stage = "commit" /\ q.ev = r.ev /\ q.parts = r.parts /\ q.seen = r.seen
      /\ q.based = r.based /\ q.disp = r.disp /\ q.write = res
    BY <1>1 DEF Request, Stages
<1>4. req' = [req EXCEPT ![w] = q]
    BY <1>2 DEF TakesRow
<1> HIDE DEF q
<1>5. Shape(q) /\ Versions(q)
    BY <1>1, <1>3 DEF Shape, Versions, Resting, Writing
<1>6. /\ UNCHANGED <<bus, ver, audit, served, acked>>
      /\ auditRow[r.ev] = Nobody /\ auditRow' = [auditRow EXCEPT ![r.ev] = w]
    BY <1>2 DEF TakesRow
<1>7. \A v \in Workers \ {w} : \A e \in Events : auditRow[e] = v => auditRow'[e] = v
    BY <1>6 DEF IInv, TypeOK
<1>8. \A v \in Workers \ {w} : Holds(v) \cap q.parts = {}
    BY <1>1, <1>3 DEF IInv, HoldsApart, Holds
<1>9. Audited(w)'
  <2>1. req'[w] = q /\ auditRow'[r.ev] = w /\ audit' = audit
      BY <1>1, <1>4, <1>6 DEF IInv, TypeOK
  <2> QED BY <1>2, <1>3, <2>1 DEF Audited, Terminal
<1>10. AckMeansAudited'
    BY <1>6 DEF IInv, AckMeansAudited
<1> QED BY <1>3, <1>4, <1>5, <1>6, <1>7, <1>8, <1>9, <1>10, RequestStep

\* The end of a request keeps the invariant.
LEMMA EndInv ==
    ASSUME IInv, TypeOK', NEW w \in Workers,
           Respond(w) \/ AcquireLost(w) \/ Crash(w) \/ ReplyLost(w)
    PROVE  IInv'
<1>1. /\ req' = [req EXCEPT ![w] = Idle]
      /\ UNCHANGED <<bus, ver, audit, served>>
    BY DEF Respond, AcquireLost, Crash, ReplyLost, db
<1>2. \A v \in Workers \ {w} : \A e \in Events : auditRow[e] = v => auditRow'[e] = v
    BY DEF Respond, AcquireLost, Crash, ReplyLost, db, Unlocked
<1>3. AckMeansAudited'
    BY <1>1 DEF Respond, AcquireLost, Crash, ReplyLost, IInv, AckMeansAudited, RequestsInv,
                Audited, At, Terminal, Final
<1>4. Audited(w)'
    BY <1>1, IdleInv DEF Audited, IInv, TypeOK
<1> QED BY <1>1, <1>2, <1>3, <1>4, IdleInv, IdleIsRequest, RequestStep DEF Writing

\* Lock expiry and account deletion touch nothing the invariant speaks of.
LEMMA QuietInv ==
    ASSUME IInv, TypeOK', UNCHANGED <<bus, acked, ver, audit, served, auditRow, req>>
    PROVE  IInv'
<1>1. BusInv' /\ AckMeansAudited' /\ SuccessMeansReconciled'
    BY DEF IInv, BusInv, AckMeansAudited, SuccessMeansReconciled, bus
<1>2. HoldsApart'
    BY DEF IInv, HoldsApart, Holds
<1>3. RequestsInv'
    BY DEF IInv, RequestsInv, Shape, Versions, Audited, Terminal, bus
<1> QED BY <1>1, <1>2, <1>3 DEF IInv

\* What is at most an older number of states is at most the newer one.
LEMMA Grows == ASSUME NEW a \in Nat, NEW b \in Nat, NEW c \in Nat, a <= b, b <= c
               PROVE  a <= c
OBVIOUS

\* A new event and the state it tells of concern no proposal already read.
LEMMA EmitInv == ASSUME IInv, TypeOK', NEW e \in Events, Emit(e) PROVE IInv'
<1>1. \A u \in Users : /\ head[u] \in Nat /\ head'[u] \in Nat /\ head[u] <= head'[u]
                       /\ u \in Participants[e] => head'[u] >= 1
    BY DEF IInv, TypeOK, Emit
<1>2. /\ emitted' = emitted \cup {e} /\ e \notin emitted
      /\ due'[e] = head' /\ \A f \in emitted : due'[f] = due[f]
    BY DEF IInv, TypeOK, Emit
<1>3. UNCHANGED <<acked, ver, audit, served, auditRow, req>>
    BY DEF Emit, db
<1>4. BusInv'
  <2>1. ASSUME NEW u \in Users PROVE ver[u] <= head'[u]
    <3>1. ver[u] \in Nat /\ head[u] \in Nat /\ head'[u] \in Nat
        BY <1>1 DEF IInv, TypeOK
    <3>2. ver[u] <= head[u] /\ head[u] <= head'[u]
        BY <1>1 DEF IInv, BusInv
    <3> QED BY <3>1, <3>2, Grows
  <2>2. \A f \in Events : f \in emitted' \/ audit[f] = "none"
      BY <1>2 DEF IInv, BusInv
  <2>3. ASSUME NEW f \in emitted', NEW u \in Users
        PROVE  due'[f][u] <= head'[u] /\ (u \in Participants[f] => due'[f][u] >= 1)
    <3>1. CASE f = e
      <4>1. due'[f][u] = head'[u] /\ head'[u] \in Nat
            /\ (u \in Participants[f] => head'[u] >= 1)
          BY <1>1, <1>2, <3>1
      <4> QED BY <4>1
    <3>2. CASE f # e
      <4>1. f \in emitted /\ due'[f] = due[f] /\ due[f][u] \in Nat
          BY <1>2, <3>2 DEF IInv, TypeOK
      <4>2. due[f][u] <= head[u] /\ (u \in Participants[f] => due[f][u] >= 1)
          BY <4>1 DEF IInv, BusInv
      <4>3. head[u] \in Nat /\ head'[u] \in Nat /\ head[u] <= head'[u]
          BY <1>1
      <4>4. due[f][u] <= head'[u]
          BY <4>1, <4>2, <4>3, Grows
      <4> QED BY <4>1, <4>2, <4>4
    <3> QED BY <3>1, <3>2
  <2> QED BY <1>3, <2>1, <2>2, <2>3 DEF BusInv
<1>5. HoldsApart' /\ AckMeansAudited'
    BY <1>3 DEF IInv, HoldsApart, Holds, AckMeansAudited
<1>6. RequestsInv'
  <2> SUFFICES ASSUME NEW w \in Workers
               PROVE  Shape(req[w])' /\ Versions(req[w])' /\ Audited(w)'
      BY DEF RequestsInv
  <2>1. Shape(req[w]) /\ Versions(req[w]) /\ Audited(w) /\ req[w] \in Request
      BY DEF IInv, RequestsInv, TypeOK
  <2>2. Shape(req[w])' /\ Audited(w)'
      BY <1>3, <2>1 DEF Shape, Audited, Terminal
  <2>3. ASSUME NEW u \in Users, req[w].seen[u] # 0
        PROVE  /\ req[w].seen[u] <= head'[u]
               /\ due'[req[w].ev][u] <= req[w].seen[u]
               /\ u \in req[w].based => ver[u] <= req[w].seen[u]
    <3>1. req[w].stage # "idle"
        BY <2>1, <2>3 DEF Shape, Resting, Unseen
    <3>2. req[w].ev \in emitted
        BY <2>1, <3>1 DEF Versions
    <3>3. req[w].seen[u] \in Nat /\ head[u] \in Nat /\ head'[u] \in Nat
          /\ head[u] <= head'[u] /\ due'[req[w].ev] = due[req[w].ev]
        BY <1>1, <1>2, <2>1, <3>2 DEF Request
    <3>4. /\ req[w].seen[u] <= head[u]
          /\ due[req[w].ev][u] <= req[w].seen[u]
          /\ u \in req[w].based => ver[u] <= req[w].seen[u]
        BY <2>1, <2>3 DEF Versions
    <3>5. req[w].seen[u] <= head'[u]
        BY <3>3, <3>4, Grows
    <3> QED BY <3>3, <3>4, <3>5
  <2>4. Versions(req[w])'
    <3>1. req[w].stage # "idle" => req[w].ev \in emitted'
        BY <1>2, <2>1 DEF Versions
    <3> QED BY <1>3, <2>3, <3>1 DEF Versions
  <2> QED BY <2>2, <2>4
<1>7. SuccessMeansReconciled'
  <2>1. \A f \in Events : audit[f] = "success" => f \in emitted
      BY DEF IInv, BusInv
  <2> QED BY <1>2, <1>3, <2>1 DEF IInv, SuccessMeansReconciled
<1> QED BY <1>4, <1>5, <1>6, <1>7 DEF IInv

\* The commit keeps the invariant: it writes what is at least as recent as the
\* event and as the rows, it never changes a terminal audit, and it moves the
\* baselines of the others who read the rows.
LEMMA CommitInv == ASSUME IInv, TypeOK', NEW w \in Workers, Commit(w) PROVE IInv'
<1> DEFINE r == req[w]
           e == r.ev
<1>1. /\ r \in Request /\ r.seen \in [Users -> Nat] /\ r.parts \in SUBSET Users
      /\ r.stage = "commit" /\ e \in Events /\ e \in emitted
      /\ Shape(r) /\ Versions(r) /\ Audited(w)
  <2>1. r.stage = "commit"
      BY DEF Commit, At
  <2>2. r \in Request /\ e \in Events /\ Shape(r) /\ Versions(r) /\ Audited(w)
      BY <2>1 DEF IInv, TypeOK, At, RequestsInv
  <2> QED BY <2>1, <2>2 DEF Request, Versions
<1>2. /\ auditRow[e] = w
      /\ r.write = "keep" => Terminal(audit[e])
      /\ r.write # "keep" => r.write = r.disp /\ ~Terminal(audit[e])
    BY <1>1 DEF Audited
<1>3. ASSUME NEW u \in r.parts
      PROVE  /\ u \in r.based /\ u \in Users
             /\ ver[u] <= r.seen[u] /\ r.seen[u] <= head[u] /\ due[e][u] <= r.seen[u]
  <2>1. u \in r.based /\ u \in Users /\ r.seen[u] # 0
      BY <1>1 DEF Shape, Writing
  <2> QED BY <1>1, <2>1 DEF Versions
<1>4. /\ UNCHANGED <<bus, acked>>
      /\ audit' = [audit EXCEPT ![e] = LoggedResult(w)]
      /\ ver' = [u \in Users |-> IF u \in r.parts THEN r.seen[u] ELSE ver[u]]
      /\ served' = [served EXCEPT ![e] = IF r.write = "success" THEN r.parts ELSE @]
      /\ auditRow' = [auditRow EXCEPT ![e] = Nobody]
    BY DEF Commit
<1>5. ASSUME NEW u \in Users
      PROVE  ver[u] \in Nat /\ ver'[u] \in Nat /\ ver[u] <= ver'[u] /\ ver'[u] <= head[u]
  <2>1. ver[u] \in Nat /\ ver[u] <= head[u]
      BY DEF IInv, TypeOK, BusInv
  <2> QED BY <1>1, <1>3, <1>4, <2>1
<1>6. ASSUME NEW f \in Events, Terminal(audit[f])
      PROVE  audit'[f] = audit[f]
    BY <1>2, <1>4, <1>6 DEF LoggedResult, IInv, TypeOK
<1>7. BusInv'
  <2>1. \A f \in Events : f \in emitted \/ audit'[f] = "none"
      BY <1>1, <1>4 DEF IInv, TypeOK, BusInv
  <2> QED BY <1>4, <1>5, <2>1 DEF IInv, BusInv, bus
<1>8. AckMeansAudited'
    BY <1>4, <1>6 DEF IInv, TypeOK, AckMeansAudited, Terminal, Final
<1>9. SuccessMeansReconciled'
  <2> SUFFICES ASSUME NEW f \in Events, audit'[f] = "success"
               PROVE  served'[f] # {} /\ \A u \in served'[f] : ver'[u] >= due[f][u]
      BY <1>4 DEF SuccessMeansReconciled, bus
  <2>1. CASE f = e /\ r.write = "success"
    <3>1. served'[f] = r.parts /\ r.parts # {}
        BY <1>1, <1>2, <1>4, <2>1 DEF IInv, TypeOK, Shape, Writing
    <3>2. ASSUME NEW u \in r.parts PROVE ver'[u] >= due[f][u]
      <4>1. ver'[u] = r.seen[u] /\ due[f][u] <= r.seen[u]
          BY <1>3, <1>4, <2>1
      <4>2. r.seen[u] \in Nat /\ due[f][u] \in Nat
          BY <1>1, <1>3 DEF IInv, TypeOK
      <4> QED BY <4>1, <4>2
    <3> QED BY <3>1, <3>2
  <2>2. CASE ~(f = e /\ r.write = "success")
    <3>1. audit[f] = "success" /\ served'[f] = served[f]
        BY <1>2, <1>4, <2>2 DEF LoggedResult, IInv, TypeOK
    <3>2. ASSUME NEW u \in served[f] PROVE ver'[u] >= due[f][u]
      <4>1. ver[u] >= due[f][u] /\ u \in Users /\ due[f][u] \in Nat
          BY <3>1 DEF IInv, TypeOK, SuccessMeansReconciled
      <4>2. ver[u] \in Nat /\ ver'[u] \in Nat /\ ver[u] <= ver'[u]
          BY <1>5, <4>1
      <4> QED BY <4>1, <4>2
    <3> QED BY <3>1, <3>2 DEF IInv, SuccessMeansReconciled
  <2> QED BY <2>1, <2>2
<1>10. ASSUME NEW v \in Workers, v # w
       PROVE  /\ req[v] \in Request
              /\ req'[v].stage = req[v].stage /\ req'[v].ev = req[v].ev
              /\ req'[v].parts = req[v].parts /\ req'[v].seen = req[v].seen
              /\ req'[v].based = req[v].based \ r.parts /\ req'[v].disp = req[v].disp
              /\ req'[v].write = req[v].write /\ req'[v].reply = req[v].reply
  <2>1. req'[v] = [req[v] EXCEPT !.based = @ \ r.parts] /\ req[v] \in Request
      BY <1>10 DEF Commit, IInv, TypeOK
  <2> QED BY <2>1 DEF Request
<1>11. /\ req'[w].stage \in {"release", "notify"} /\ req'[w].ev = e
       /\ req'[w].parts = {} /\ req'[w].based = {} /\ req'[w].seen = Unseen
       /\ req'[w].stage = "notify" => r.disp # "error"
       /\ req'[w].reply = Terminal(LoggedResult(w))
  <2> DEFINE s == IF r.disp = "error" THEN "release" ELSE "notify"
             b == Terminal(LoggedResult(w))
  <2>1. s \in {"release", "notify"} /\ (s = "notify" => r.disp # "error")
      OBVIOUS
  <2>2. req'[w] = [RolledBack(r) EXCEPT !.stage = s, !.reply = b]
      BY DEF Commit
  <2>3. /\ RolledBack(r) \in Request /\ RolledBack(r).ev = e
        /\ RolledBack(r).parts = {} /\ RolledBack(r).based = {} /\ RolledBack(r).seen = Unseen
      BY <1>1, RolledBackIsRequest
  <2> HIDE DEF s, b
  <2>4. /\ req'[w].stage = s /\ req'[w].ev = e /\ req'[w].reply = b
        /\ req'[w].parts = {} /\ req'[w].based = {} /\ req'[w].seen = Unseen
      BY <2>2, <2>3 DEF Request
  <2> QED BY <2>1, <2>4 DEF b
<1>12. HoldsApart'
  <2>1. Holds(w)' = {}
      BY <1>11 DEF Holds
  <2>2. \A v \in Workers : v # w => Holds(v)' = Holds(v)
      BY <1>10 DEF Holds
  <2> QED BY <2>1, <2>2 DEF IInv, HoldsApart
<1>13. ASSUME NEW v \in Workers, v # w
       PROVE  Shape(req[v])' /\ Versions(req[v])' /\ Audited(v)'
  <2>1. /\ Shape(req[v]) /\ Versions(req[v]) /\ Audited(v)
        /\ req[v].stage # "idle" => req[v].ev \in Events
      BY DEF IInv, TypeOK, RequestsInv, At
  <2>2. req[v].stage \in Writing => req[v].parts \cap r.parts = {}
      BY <1>1, <1>13 DEF IInv, HoldsApart, Holds, Writing
  <2>3. Shape(req[v])'
      BY <1>10, <1>13, <2>1, <2>2 DEF Shape
  <2>4. Versions(req[v])'
    <3>1. ASSUME NEW u \in Users, u \in req[v].based \ r.parts PROVE ver'[u] = ver[u]
        BY <1>4, <3>1
    <3>2. UNCHANGED <<head, emitted, due>>
        BY <1>4 DEF bus
    <3> QED BY <1>10, <1>13, <2>1, <3>1, <3>2 DEF Versions
  <2>5. Audited(v)'
    <3>1. CASE req[v].stage = "commit"
      <4>1. req[v].ev # e /\ req[v].ev \in Events
          BY <1>2, <1>13, <2>1, <3>1 DEF Audited
      <4>2. auditRow'[req[v].ev] = auditRow[req[v].ev] /\ audit'[req[v].ev] = audit[req[v].ev]
          BY <1>4, <4>1 DEF IInv, TypeOK
      <4> QED BY <1>10, <1>13, <2>1, <3>1, <4>2 DEF Audited, Terminal
    <3>2. CASE req[v].stage # "commit"
      <4>1. (req[v].stage = "notify" \/ (req[v].stage = "release" /\ req[v].reply)) =>
               req[v].ev \in Events /\ Terminal(audit[req[v].ev])
          BY <2>1 DEF Audited
      <4>2. (req[v].stage = "notify" \/ (req[v].stage = "release" /\ req[v].reply)) =>
               audit'[req[v].ev] = audit[req[v].ev]
          BY <1>6, <4>1
      <4>3. /\ req'[v].stage = req[v].stage /\ req'[v].ev = req[v].ev
            /\ req'[v].reply = req[v].reply
          BY <1>10, <1>13
      <4>4. req'[v].stage = "notify" => Terminal(audit[req[v].ev])'
        <5>1. CASE req[v].stage = "notify"
            BY <4>1, <4>2, <4>3, <5>1 DEF Terminal
        <5> QED BY <4>3, <5>1
      <4>5. req'[v].stage = "release" /\ req'[v].reply => Terminal(audit[req[v].ev])'
        <5>1. CASE req[v].stage = "release" /\ req[v].reply
            BY <4>1, <4>2, <4>3, <5>1 DEF Terminal
        <5> QED BY <4>3, <5>1
      <4> QED BY <3>2, <4>3, <4>4, <4>5 DEF Audited
    <3> QED BY <3>1, <3>2
  <2> QED BY <2>3, <2>4, <2>5
<1>14. Shape(req[w])' /\ Versions(req[w])' /\ Audited(w)'
  <2>1. Shape(req[w])'
      BY <1>11 DEF Shape, Resting, Writing
  <2>2. Versions(req[w])'
      BY <1>1, <1>4, <1>11 DEF Versions, Unseen, bus
  <2>3. audit'[e] = LoggedResult(w)
      BY <1>1, <1>4 DEF IInv, TypeOK
  <2>4. r.disp # "error" => Terminal(LoggedResult(w))
      BY <1>1, <1>2 DEF LoggedResult, Shape, Writing, Request, Results, Terminal
  <2>5. Audited(w)'
      BY <1>11, <2>3, <2>4 DEF Audited, Terminal
  <2> QED BY <2>1, <2>2, <2>5
<1>15. RequestsInv'
    BY <1>13, <1>14 DEF RequestsInv
<1> QED BY <1>7, <1>8, <1>9, <1>12, <1>15 DEF IInv

\* Another verification of a user moves the baselines of those who read it.
LEMMA OtherCommitInv ==
    ASSUME IInv, TypeOK', NEW u \in Users, OtherCommit(u) PROVE IInv'
<1>1. /\ UNCHANGED <<bus, acked, audit, served, auditRow>>
      /\ ver' = [ver EXCEPT ![u] = head[u]]
      /\ \A w \in Workers : u \notin Holds(w)
    BY DEF OtherCommit
<1>2. ASSUME NEW x \in Users
      PROVE  ver[x] \in Nat /\ ver'[x] \in Nat /\ ver[x] <= ver'[x] /\ ver'[x] <= head[x]
  <2>1. ver[x] \in Nat /\ head[x] \in Nat /\ ver[x] <= head[x]
      BY DEF IInv, TypeOK, BusInv
  <2> QED BY <1>1, <2>1 DEF IInv, TypeOK
<1>3. ASSUME NEW w \in Workers
      PROVE  /\ req'[w].stage = req[w].stage /\ req'[w].ev = req[w].ev
             /\ req'[w].parts = req[w].parts /\ req'[w].seen = req[w].seen
             /\ req'[w].based = req[w].based \ {u} /\ req'[w].disp = req[w].disp
             /\ req'[w].write = req[w].write /\ req'[w].reply = req[w].reply
  <2>1. req'[w] = [req[w] EXCEPT !.based = @ \ {u}] /\ req[w] \in Request
      BY DEF OtherCommit, IInv, TypeOK
  <2> QED BY <2>1 DEF Request
<1>4. BusInv' /\ AckMeansAudited' /\ HoldsApart'
    BY <1>1, <1>2, <1>3 DEF IInv, BusInv, AckMeansAudited, HoldsApart, Holds, bus
<1>5. SuccessMeansReconciled'
  <2>1. ASSUME NEW f \in Events, audit[f] = "success", NEW x \in served[f]
        PROVE  ver'[x] >= due[f][x]
    <3>1. ver[x] >= due[f][x] /\ x \in Users /\ due[f][x] \in Nat
        BY <2>1 DEF IInv, TypeOK, SuccessMeansReconciled
    <3>2. ver[x] \in Nat /\ ver'[x] \in Nat /\ ver[x] <= ver'[x]
        BY <1>2, <3>1
    <3> QED BY <3>1, <3>2
  <2> QED BY <1>1, <2>1 DEF IInv, SuccessMeansReconciled, bus
<1>6. RequestsInv'
  <2> SUFFICES ASSUME NEW w \in Workers
               PROVE  Shape(req[w])' /\ Versions(req[w])' /\ Audited(w)'
      BY DEF RequestsInv
  <2>1. Shape(req[w]) /\ Versions(req[w]) /\ Audited(w)
      BY DEF IInv, RequestsInv
  <2>2. req[w].stage \in Writing => u \notin req[w].parts
      BY <1>1 DEF Holds, Writing
  <2>3. Shape(req[w])'
      BY <1>3, <2>1, <2>2 DEF Shape
  <2>4. Versions(req[w])'
    <3>1. ASSUME NEW x \in Users, x \in req[w].based \ {u} PROVE ver'[x] = ver[x]
        BY <1>1, <3>1 DEF IInv, TypeOK
    <3>2. UNCHANGED <<head, emitted, due>>
        BY <1>1 DEF bus
    <3> QED BY <1>3, <2>1, <3>1, <3>2 DEF Versions
  <2>5. Audited(w)'
      BY <1>1, <1>3, <2>1 DEF Audited, Terminal
  <2> QED BY <2>3, <2>4, <2>5
<1> QED BY <1>4, <1>5, <1>6 DEF IInv

\* Every step keeps the inductive invariant.
LEMMA SafetyStep == IInv /\ [Next]_vars => IInv'
<1> SUFFICES ASSUME IInv, [Next]_vars PROVE IInv'
    OBVIOUS
<1>0. TypeOK'
    BY TypeStep DEF IInv
<1>1. CASE UNCHANGED vars
    BY <1>0, <1>1, QuietInv DEF vars, db
<1>2. ASSUME NEW e \in Events, Emit(e) PROVE IInv'
    BY <1>0, <1>2, EmitInv
<1>3. ASSUME NEW e \in Events, Expire(e) PROVE IInv'
    BY <1>0, <1>3, QuietInv DEF Expire, db
<1>4. ASSUME NEW w \in Workers,
             \/ \E e \in Events : Deliver(w, e)
             \/ Acquire(w) \/ Busy(w) \/ Skip(w) \/ Settle(w)
      PROVE  IInv'
    BY <1>0, <1>4, CheckInv
<1>5. ASSUME NEW w \in Workers,
             ReadBaseline(w) \/ Answer(w) \/ Apply(w) \/ NoRow(w) \/ LockRow(w) \/ InsertRow(w)
      PROVE  IInv'
    BY <1>0, <1>5, ProcessInv, TakeInv
<1>6. ASSUME NEW w \in Workers,
             Duplicate(w) \/ AuditConflict(w) \/ Notify(w) \/ Aborts(w)
      PROVE  IInv'
  <2> DEFINE t == Terminal(audit[req[w].ev])
  <2>1. ~At(w, "idle")
      BY <1>6 DEF Duplicate, AuditConflict, Notify, Aborts, At
  <2>2. t \in BOOLEAN
      BY DEF Terminal
  <2>3. CASE Duplicate(w) \/ Notify(w)
    <3>1. t /\ Answers(w, TRUE)
        BY <2>3 DEF Duplicate, Notify, IInv, RequestsInv, Audited, At
    <3> HIDE DEF t
    <3> QED BY <1>0, <2>1, <3>1, RollbackInv DEF t
  <2>4. CASE AuditConflict(w)
    <3>1. Answers(w, t) /\ (t => Terminal(audit[req[w].ev]))
        BY <2>4 DEF AuditConflict
    <3> HIDE DEF t
    <3> QED BY <1>0, <2>1, <2>2, <3>1, RollbackInv
  <2>5. CASE Aborts(w)
      BY <1>0, <2>1, <2>5, RollbackInv DEF Aborts
  <2> QED BY <1>6, <2>3, <2>4, <2>5
<1>7. ASSUME NEW w \in Workers, Conflict(w) \/ Fails(w) PROVE IInv'
  <2>1. ~At(w, "idle") /\ RecordsError(w)
      BY <1>7 DEF Conflict, Fails, At
  <2>2. FALSE \in BOOLEAN /\ (FALSE => Terminal(audit[req[w].ev]))
      OBVIOUS
  <2> QED BY <1>0, <2>1, <2>2, RollbackInv
<1>8. ASSUME NEW w \in Workers, Respond(w) \/ AcquireLost(w) \/ Crash(w) \/ ReplyLost(w)
      PROVE  IInv'
    BY <1>0, <1>8, EndInv
<1>9. ASSUME NEW w \in Workers, Commit(w) PROVE IInv'
    BY <1>0, <1>9, CommitInv
<1>10. ASSUME NEW u \in Users, OtherCommit(u) PROVE IInv'
    BY <1>0, <1>10, OtherCommitInv
<1>11. ASSUME NEW u \in Users, SetDeleted(u) PROVE IInv'
    BY <1>0, <1>11, QuietInv DEF SetDeleted
<1>12. ASSUME NEW w \in Workers, Handles(w) PROVE IInv'
    BY <1>4, <1>5, <1>6, <1>7, <1>8, <1>9, <1>12 DEF Handles
<1> QED BY <1>1, <1>2, <1>3, <1>4, <1>6, <1>7, <1>8, <1>10, <1>11, <1>12 DEF Next

\* Every reachable state satisfies the inductive invariant.
THEOREM Invariance == Spec => []IInv
<1> QED BY SafetyInit, SafetyStep, PTL DEF Spec

\* A success audit always means that the accounts it covers show a provider
\* state at least as recent as the event (process_webhook and the commit).
THEOREM SuccessReconciled == Spec => []SuccessMeansReconciled
<1>1. IInv => SuccessMeansReconciled
    BY DEF IInv
<1> QED BY <1>1, Invariance, PTL

\* An acknowledged event always has a success or skipped audit: no failed
\* delivery is ever answered 200 (handle_webhook).
THEOREM AcksAudited == Spec => []AckMeansAudited
<1>1. IInv => AckMeansAudited
    BY DEF IInv
<1> QED BY <1>1, Invariance, PTL

\* A success or skipped audit is never changed (log_webhook_transaction).
THEOREM AuditsFinal == Spec => TerminalAuditFinal
<1>1. IInv /\ [Next]_vars =>
         [\A e \in Events : audit[e] \in Final => audit'[e] = audit[e]]_vars
  <2> SUFFICES ASSUME IInv, Next, NEW e \in Events, audit[e] \in Final
               PROVE  audit'[e] = audit[e]
      OBVIOUS
  <2>1. ASSUME NEW w \in Workers, Commit(w) PROVE audit'[e] = audit[e]
    <3>1. req[w].stage = "commit" /\ Audited(w)
        BY <2>1 DEF Commit, At, IInv, RequestsInv
    <3>2. req[w].ev = e => req[w].write = "keep"
        BY <3>1 DEF Audited, Terminal, Final
    <3> QED BY <2>1, <3>2 DEF Commit, LoggedResult, IInv, TypeOK
  <2>2. ASSUME ~\E w \in Workers : Commit(w) PROVE audit' = audit
    <3>1. ASSUME NEW w \in Workers, Handles(w) PROVE audit' = audit
      <4>1. CASE Acquire(w) \/ Busy(w) \/ Duplicate(w) \/ Skip(w) \/ Settle(w) \/ ReadBaseline(w)
          BY <4>1 DEF Acquire, Busy, Duplicate, Skip, Settle, ReadBaseline, Answers, db
      <4>2. CASE Answer(w) \/ Apply(w) \/ Conflict(w) \/ NoRow(w)
          BY <4>2 DEF Answer, Apply, Conflict, NoRow, RecordsError, db
      <4>3. CASE LockRow(w) \/ InsertRow(w) \/ AuditConflict(w) \/ Notify(w) \/ Respond(w)
          BY <4>3 DEF LockRow, InsertRow, TakesRow, AuditConflict, Notify, Respond, Answers,
             RecordsError, db
      <4> QED BY <2>2, <3>1, <4>1, <4>2, <4>3 DEF Handles
    <3>2. ASSUME NEW w \in Workers,
                 Fails(w) \/ Aborts(w) \/ AcquireLost(w) \/ Crash(w) \/ ReplyLost(w)
          PROVE  audit' = audit
        BY <3>2 DEF Fails, Aborts, AcquireLost, Crash, ReplyLost, RecordsError, Answers, db
    <3> QED BY <3>1, <3>2 DEF Next, Emit, Expire, Deliver, OtherCommit, SetDeleted, db
  <2> QED BY <2>1, <2>2
<1> QED BY <1>1, Invariance, PTL DEF Spec, TerminalAuditFinal

\* A lock changes hands by its owner's release or by its expiry only: the
\* compare-and-delete of release_idempotency_lock spares the lock of a later
\* owner, though the worker that outlived its own comes to delete it.
THEOREM LocksOwned == Spec => LockOwned
<1> DEFINE Kept(e, w) == lock[e] = w /\ lock'[e] # w =>
                            Expire(e) \/ (req[w].ev = e /\ At(w, "release"))
<1>1. TypeOK /\ [Next]_vars => [\A e \in Events, w \in Workers : Kept(e, w)]_vars
  <2> SUFFICES ASSUME TypeOK, Next, NEW e \in Events, NEW w \in Workers,
                      lock[e] = w, lock'[e] # w
               PROVE  Expire(e) \/ (req[w].ev = e /\ At(w, "release"))
      OBVIOUS
  <2>1. lock \in [Events -> Workers \cup {Nobody}] /\ w # Nobody
      BY WebhookAssumption DEF TypeOK
  <2>2. ASSUME NEW v \in Workers, Acquire(v) \/ AcquireLost(v) PROVE FALSE
    <3>1. lock[req[v].ev] = Nobody /\ lock' = [lock EXCEPT ![req[v].ev] = v]
        BY <2>2 DEF Acquire, AcquireLost
    <3> QED BY <2>1, <3>1
  <2>3. ASSUME NEW v \in Workers, Respond(v) \/ ReplyLost(v)
        PROVE  req[w].ev = e /\ At(w, "release")
    <3>1. lock' = Released(v) /\ At(v, "release")
        BY <2>3 DEF Respond, ReplyLost
    <3>2. e = req[v].ev /\ lock[e] = v
        BY <2>1, <3>1 DEF Released
    <3> QED BY <3>1, <3>2
  <2>4. ASSUME NEW f \in Events, Expire(f) PROVE Expire(e)
    <3>1. lock' = [lock EXCEPT ![f] = Nobody]
        BY <2>4 DEF Expire
    <3>2. f = e
        BY <2>1, <3>1
    <3> QED BY <2>4, <3>2
  <2>5. lock' # lock
      BY SMTT(30)
  <2>6. ASSUME NEW v \in Workers,
               Handles(v), ~(Acquire(v) \/ Respond(v))
        PROVE  lock' = lock
    <3>1. CASE Busy(v) \/ Duplicate(v) \/ Skip(v) \/ Settle(v) \/ ReadBaseline(v) \/ Answer(v)
        BY <3>1 DEF Busy, Duplicate, Skip, Settle, ReadBaseline, Answer, Answers
    <3>2. CASE Apply(v) \/ Conflict(v) \/ NoRow(v) \/ LockRow(v) \/ InsertRow(v)
        BY <3>2 DEF Apply, Conflict, NoRow, LockRow, InsertRow, TakesRow, RecordsError
    <3>3. CASE AuditConflict(v) \/ Commit(v) \/ Notify(v)
        BY <3>3 DEF AuditConflict, Commit, Notify, RecordsError, Answers
    <3> QED BY <2>6, <3>1, <3>2, <3>3 DEF Handles
  <2>7. ASSUME NEW v \in Workers, Fails(v) \/ Aborts(v) \/ Crash(v) PROVE lock' = lock
      BY <2>7 DEF Fails, Aborts, Crash, RecordsError, Answers
  <2>8. ASSUME \/ \E f \in Events : Emit(f) \/ \E v \in Workers : Deliver(v, f)
               \/ \E u \in Users : OtherCommit(u) \/ SetDeleted(u)
        PROVE  lock' = lock
      BY <2>8 DEF Emit, Deliver, OtherCommit, SetDeleted
  <2> QED BY <2>2, <2>3, <2>4, <2>5, <2>6, <2>7, <2>8 DEF Next
<1> QED BY <1>1, TypeCorrect, PTL DEF Spec, LockOwned
=============================================================================
