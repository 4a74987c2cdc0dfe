------------------------------- MODULE Webhook -------------------------------
(***************************************************************************)
(* The RevenueCat webhook endpoint (app/api/purchase.py handle_webhook,    *)
(* with check_idempotency, process_webhook, log_webhook_transaction and    *)
(* release_idempotency_lock of app/services/purchase.py): at-least-once    *)
(* deliveries of one event, handled by several workers, are deduplicated   *)
(* by a Redis lock with an expiry and by the audit row of the event, whose *)
(* unique key and row lock are what is left when the lock has expired.     *)
(*                                                                         *)
(* What a reconciliation does to a user row is the subject of Reconcile;   *)
(* here a row is the index of the provider state it shows, and a baseline  *)
(* is current until another transaction commits the row (StampsDistinct    *)
(* and LocksHold of Reconcile).                                            *)
(***************************************************************************)
EXTENDS Integers, FiniteSets

CONSTANTS
    Workers,       \* concurrent webhook requests
    Nobody,
    Events,        \* RevenueCat events, by event id
    Mutating,      \* those of class "reconcile"; the others are "skipped"
    Users,         \* local accounts
    Participants,  \* Participants[e]: app_user_id, aliases and both sides of a transfer
    MaxTrouble     \* bound: failures, crashes, lost replies and foreign commits

ASSUME WebhookAssumption ==
    /\ Nobody \notin Workers \cup Events
    /\ Mutating \subseteq Events
    /\ Participants \in [Events -> SUBSET Users]
    /\ MaxTrouble \in Nat

VARIABLES
    head,      \* head[u]: number of states RevenueCat has held for u
    emitted,   \* events RevenueCat delivers
    due,       \* due[e][u]: head[u] when e was emitted
    acked,     \* events whose 200 response RevenueCat has seen
    lock,      \* lock[e]: owner of webhook_lock:e in Redis, or Nobody
    ver,       \* ver[u]: the provider state the committed row of u shows
    alive,     \* users with deleted_at IS NULL
    audit,     \* audit[e]: committed processing_result, "none" without a row
    served,    \* served[e]: users whose rows the success audit of e covers
    auditRow,  \* auditRow[e]: transaction that inserted or locked the audit row
    req,       \* req[w]: the request w handles and its open transaction
    trouble

bus  == <<head, emitted, due>>
db   == <<ver, alive, audit, served, auditRow>>
vars == <<bus, acked, lock, db, req, trouble>>

Results == {"none", "error", "success", "skipped"}
Stages  == {"idle", "lock", "check", "ask", "answer", "apply", "log", "insert", "commit",
            "notify", "release"}
Request ==
    [stage : Stages,
     ev    : Events \cup {Nobody},
     parts : SUBSET Users,             \* participants it reconciles
     based : SUBSET Users,             \* those whose baseline no commit has moved
     seen  : [Users -> Nat],           \* provider state in each proposal, 0 if none
     disp  : Results,                  \* the processing_result it means to log
     write : Results \cup {"keep"},    \* what it writes in the audit row
     reply : BOOLEAN]                  \* TRUE: 200

Unseen == [u \in Users |-> 0]
Idle   == [stage |-> "idle", ev |-> Nobody, parts |-> {}, based |-> {}, seen |-> Unseen,
           disp |-> "none", write |-> "keep", reply |-> FALSE]

At(w, s) == req[w].stage = s

\* Wrong: any audit row stops a retry.
AnyAudit(r) == r # "none"

\* processing_result in {"success", "skipped"}.
Terminal(r) == r \in {"success", "skipped"}

\* The processing_result in the audit row when w's transaction commits.
LoggedResult(w) == IF req[w].write = "keep" THEN audit[req[w].ev] ELSE req[w].write

\* Rows written and not yet committed stay locked.
Holds(w) == IF req[w].stage \in {"log", "insert", "commit"} THEN req[w].parts ELSE {}
RowsFree(w) == \A v \in Workers \ {w} : Holds(v) \cap req[w].parts = {}

\* u is the next participant to be read, in the order of _webhook_user_ids.
Unread(w) == {u \in req[w].parts : req[w].seen[u] = 0}
NextUnread(w, u) == u \in Unread(w) /\ \A v \in Unread(w) : u <= v

\* Every baseline still holds under the row locks.
Current(w) == req[w].parts \subseteq req[w].based \cap alive

\* Wrong: DEL without comparing the ownership token.
ReleasedAnyhow(w) == [lock EXCEPT ![req[w].ev] = Nobody]

\* release_idempotency_lock: compare-and-delete.
Released(w) == [lock EXCEPT ![req[w].ev] = IF @ = w THEN Nobody ELSE @]

-----------------------------------------------------------------------------
Init ==
    /\ head = Unseen /\ ver = Unseen
    /\ emitted = {} /\ acked = {} /\ alive = Users
    /\ due = [e \in Events |-> Unseen]
    /\ lock = [e \in Events |-> Nobody]
    /\ audit = [e \in Events |-> "none"]
    /\ served = [e \in Events |-> {}]
    /\ auditRow = [e \in Events |-> Nobody]
    /\ req = [w \in Workers |-> Idle]
    /\ trouble = 0

\* Every exception rolls the session back: rows, audit row and proposals.
RolledBack(r) == [r EXCEPT !.parts = {}, !.based = {}, !.seen = Unseen, !.write = "keep"]
Unlocked(w)   == [e \in Events |-> IF auditRow[e] = w THEN Nobody ELSE auditRow[e]]

\* record_error: roll back, then log the audit as a retryable error.
RecordsError(w) ==
    /\ req' = [req EXCEPT ![w] = [RolledBack(@) EXCEPT !.disp = "error", !.stage = "log"]]
    /\ auditRow' = Unlocked(w)
    /\ UNCHANGED <<bus, acked, lock, ver, alive, audit, served>>

\* Roll back and respond.
Answers(w, ok) ==
    /\ req' = [req EXCEPT ![w] = [RolledBack(@) EXCEPT !.reply = ok, !.stage = "release"]]
    /\ auditRow' = Unlocked(w)
    /\ UNCHANGED <<bus, acked, lock, ver, alive, audit, served>>

-----------------------------------------------------------------------------
(* RevenueCat. *)

\* A change at the provider and the event that tells of it.
Emit(e) ==
    /\ e \notin emitted
    /\ emitted' = emitted \cup {e}
    /\ head' = [u \in Users |-> IF u \in Participants[e] THEN head[u] + 1 ELSE head[u]]
    /\ due' = [due EXCEPT ![e] = head']
    /\ UNCHANGED <<acked, lock, db, req, trouble>>

\* Deliveries are repeated and may overlap.
Deliver(w, e) ==
    /\ At(w, "idle")
    /\ e \in emitted
    /\ req' = [req EXCEPT ![w].ev = e, ![w].stage = "lock"]
    /\ UNCHANGED <<bus, acked, lock, db, trouble>>

-----------------------------------------------------------------------------
(* check_idempotency. *)

\* SET NX EX.
Acquire(w) ==
    /\ At(w, "lock")
    /\ lock[req[w].ev] = Nobody
    /\ lock' = [lock EXCEPT ![req[w].ev] = w]
    /\ req' = [req EXCEPT ![w].stage = "check"]
    /\ UNCHANGED <<bus, acked, db, trouble>>

\* Another worker holds the lock: 503 without an audit.
Busy(w) ==
    /\ At(w, "lock")
    /\ lock[req[w].ev] # Nobody
    /\ req' = [req EXCEPT ![w] = Idle]
    /\ UNCHANGED <<bus, acked, lock, db, trouble>>

Duplicate(w) ==
    /\ At(w, "check")
    /\ Terminal(audit[req[w].ev])
    /\ Answers(w, TRUE)
    /\ UNCHANGED trouble

-----------------------------------------------------------------------------
(* process_webhook. *)

\* Nothing to reconcile, or nobody to reconcile it for.
Skip(w) ==
    /\ At(w, "check")
    /\ ~Terminal(audit[req[w].ev])
    /\ req[w].ev \notin Mutating \/ Participants[req[w].ev] \cap alive = {}
    /\ req' = [req EXCEPT ![w].disp = "skipped", ![w].stage = "log"]
    /\ UNCHANGED <<bus, acked, lock, db, trouble>>

Settle(w) ==
    /\ At(w, "check")
    /\ ~Terminal(audit[req[w].ev])
    /\ req[w].ev \in Mutating /\ Participants[req[w].ev] \cap alive # {}
    /\ req' = [req EXCEPT ![w].parts = Participants[req[w].ev] \cap alive, ![w].stage = "ask"]
    /\ UNCHANGED <<bus, acked, lock, db, trouble>>

\* read_reconciliation up to the request.
ReadBaseline(w) ==
    /\ At(w, "ask")
    /\ \E u \in alive :
          /\ NextUnread(w, u)
          /\ req' = [req EXCEPT ![w].based = @ \cup {u}, ![w].stage = "answer"]
    /\ UNCHANGED <<bus, acked, lock, db, trouble>>

\* The provider's answer; the last one completes the proposals.
Answer(w) ==
    /\ At(w, "answer")
    /\ \E u \in Users :
          /\ NextUnread(w, u)
          /\ req' = [req EXCEPT ![w].seen[u] = head[u],
                                ![w].stage = IF Unread(w) = {u} THEN "apply" ELSE "ask"]
    /\ UNCHANGED <<bus, acked, lock, db, trouble>>

\* Wrong: the baselines are not compared again under the row locks.
ApplyAnyway(w) ==
    /\ At(w, "apply")
    /\ RowsFree(w)
    /\ req[w].parts \subseteq alive
    /\ req' = [req EXCEPT ![w].disp = "success", ![w].stage = "log"]
    /\ UNCHANGED <<bus, acked, lock, db, trouble>>

\* apply_reconciliation for every participant: rows locked and written.
Apply(w) ==
    /\ At(w, "apply")
    /\ RowsFree(w)
    /\ Current(w)
    /\ req' = [req EXCEPT ![w].disp = "success", ![w].stage = "log"]
    /\ UNCHANGED <<bus, acked, lock, db, trouble>>

\* A participant disappeared, or its row moved since the baseline.
Conflict(w) ==
    /\ \/ At(w, "ask") /\ \E u \in Users \ alive : NextUnread(w, u)
       \/ At(w, "apply") /\ RowsFree(w) /\ ~Current(w)
    /\ RecordsError(w)
    /\ UNCHANGED trouble

-----------------------------------------------------------------------------
(* log_webhook_transaction and the commit. *)

\* SELECT ... FOR UPDATE does not see an insert that is not committed.
NoRow(w) ==
    /\ At(w, "log")
    /\ audit[req[w].ev] = "none"
    /\ req' = [req EXCEPT ![w].stage = "insert"]
    /\ UNCHANGED <<bus, acked, lock, db, trouble>>

\* w holds the audit row until its transaction ends, and will write r in it.
TakesRow(w, r) ==
    /\ auditRow[req[w].ev] = Nobody
    /\ auditRow' = [auditRow EXCEPT ![req[w].ev] = w]
    /\ req' = [req EXCEPT ![w].write = r, ![w].stage = "commit"]
    /\ UNCHANGED <<bus, acked, lock, ver, alive, audit, served, trouble>>

\* Wrong: the audit row always takes the latest result.
OverwriteRow(w) ==
    /\ At(w, "log")
    /\ audit[req[w].ev] # "none"
    /\ TakesRow(w, req[w].disp)

\* The row exists: a terminal result is never overwritten.
LockRow(w) ==
    /\ At(w, "log")
    /\ audit[req[w].ev] # "none"
    /\ TakesRow(w, IF Terminal(audit[req[w].ev]) THEN "keep" ELSE req[w].disp)

\* INSERT in a savepoint; it waits for another insert of the same key.
InsertRow(w) ==
    /\ At(w, "insert")
    /\ audit[req[w].ev] = "none"
    /\ TakesRow(w, req[w].disp)

\* WebhookAuditConflict: 200 if the winner is terminal, else 503.
AuditConflict(w) ==
    /\ At(w, "insert")
    /\ auditRow[req[w].ev] = Nobody
    /\ audit[req[w].ev] # "none"
    /\ Answers(w, Terminal(audit[req[w].ev]))
    /\ UNCHANGED trouble

\* User rows and audit become visible together.
Commit(w) ==
    LET e == req[w].ev  r == req[w] IN
    /\ At(w, "commit")
    /\ audit' = [audit EXCEPT ![e] = LoggedResult(w)]
    /\ ver' = [u \in Users |-> IF u \in r.parts THEN r.seen[u] ELSE ver[u]]
    /\ served' = [served EXCEPT ![e] = IF r.write = "success" THEN r.parts ELSE @]
    /\ auditRow' = [auditRow EXCEPT ![e] = Nobody]
    /\ req' = [v \in Workers |->
                  IF v # w THEN [req[v] EXCEPT !.based = @ \ r.parts]
                  ELSE [RolledBack(r) EXCEPT !.stage = IF r.disp = "error" THEN "release"
                                                       ELSE "notify",
                                             !.reply = Terminal(LoggedResult(w))]]
    /\ UNCHANGED <<bus, acked, lock, alive, trouble>>

\* invalidate_premium_cache for every participant.
Notify(w) ==
    /\ At(w, "notify")
    /\ Answers(w, TRUE)
    /\ UNCHANGED trouble

\* The finally clause, then the response.
Respond(w) ==
    /\ At(w, "release")
    /\ lock' = Released(w)
    /\ acked' = IF req[w].reply THEN acked \cup {req[w].ev} ELSE acked
    /\ req' = [req EXCEPT ![w] = Idle]
    /\ UNCHANGED <<bus, db, trouble>>

-----------------------------------------------------------------------------
(* What goes wrong. *)

Troubled == trouble < MaxTrouble /\ trouble' = trouble + 1

\* Wrong: SET NX without EX.
NeverExpires(e) == FALSE /\ UNCHANGED vars

\* The lock's 30 seconds are over, whether or not its owner is done.
Expire(e) ==
    /\ lock[e] # Nobody
    /\ lock' = [lock EXCEPT ![e] = Nobody]
    /\ UNCHANGED <<bus, acked, db, req, trouble>>

\* A provider, Redis or database error after the lock; in "notify", a commit
\* that took effect and whose confirmation was lost.
Fails(w) ==
    /\ Troubled
    /\ \/ req[w].stage \in {"ask", "answer", "apply", "notify"}
       \/ req[w].stage \in {"log", "insert", "commit"} /\ req[w].disp # "error"
    /\ RecordsError(w)

\* A failure that leaves no audit: in check_idempotency, in record_error, cancelled.
Aborts(w) ==
    /\ Troubled
    /\ req[w].stage \notin {"idle", "lock", "release"}
    /\ Answers(w, FALSE)

\* SET NX took effect but its reply was lost: nobody will release the lock.
AcquireLost(w) ==
    /\ Troubled
    /\ At(w, "lock")
    /\ lock[req[w].ev] = Nobody
    /\ lock' = [lock EXCEPT ![req[w].ev] = w]
    /\ req' = [req EXCEPT ![w] = Idle]
    /\ UNCHANGED <<bus, acked, db>>

\* The process dies and its transaction with it; Redis keeps the lock.
Crash(w) ==
    /\ Troubled
    /\ ~At(w, "idle")
    /\ req' = [req EXCEPT ![w] = Idle]
    /\ auditRow' = Unlocked(w)
    /\ UNCHANGED <<bus, acked, lock, ver, alive, audit, served>>

\* The response does not reach RevenueCat.
ReplyLost(w) ==
    /\ Troubled
    /\ At(w, "release")
    /\ lock' = Released(w)
    /\ req' = [req EXCEPT ![w] = Idle]
    /\ UNCHANGED <<bus, acked, db>>

\* A restore or the scheduled job verifies the user.
OtherCommit(u) ==
    /\ Troubled
    /\ u \in alive
    /\ \A w \in Workers : u \notin Holds(w)
    /\ ver' = [ver EXCEPT ![u] = head[u]]
    /\ req' = [w \in Workers |-> [req[w] EXCEPT !.based = @ \ {u}]]
    /\ UNCHANGED <<bus, acked, lock, alive, audit, served, auditRow>>

\* Account deletion, ban and unban.
SetDeleted(u) ==
    /\ Troubled
    /\ \A w \in Workers : u \notin Holds(w)
    /\ alive' = IF u \in alive THEN alive \ {u} ELSE alive \cup {u}
    /\ UNCHANGED <<bus, acked, lock, ver, audit, served, auditRow, req>>

-----------------------------------------------------------------------------
Handles(w) ==
    \/ Acquire(w) \/ Busy(w) \/ Duplicate(w) \/ Skip(w) \/ Settle(w) \/ ReadBaseline(w)
    \/ Answer(w) \/ Apply(w) \/ Conflict(w) \/ NoRow(w) \/ LockRow(w) \/ InsertRow(w)
    \/ AuditConflict(w) \/ Commit(w) \/ Notify(w) \/ Respond(w)

Next ==
    \/ \E e \in Events : Emit(e) \/ Expire(e) \/ \E w \in Workers : Deliver(w, e)
    \/ \E w \in Workers :
          \/ Handles(w)
          \/ Fails(w) \/ Aborts(w) \/ AcquireLost(w) \/ Crash(w) \/ ReplyLost(w)
    \/ \E u \in Users : OtherCommit(u) \/ SetDeleted(u)

Spec == Init /\ [][Next]_vars

\* RevenueCat retries an event until it is acknowledged, a request that runs
\* is scheduled, and Redis expires keys.
Redelivers(e) == e \notin acked /\ \E w \in Workers : Deliver(w, e)
FairSpec ==
    /\ Spec
    /\ \A w \in Workers : WF_vars(Handles(w))
    /\ \A e \in Events : WF_vars(Expire(e)) /\ SF_vars(Redelivers(e))

-----------------------------------------------------------------------------
(* Properties. *)

\* Requests, audit rows, locks and versions keep their types.
TypeOK ==
    /\ head \in [Users -> Nat] /\ ver \in [Users -> Nat]
    /\ emitted \in SUBSET Events /\ acked \in SUBSET Events /\ alive \in SUBSET Users
    /\ due \in [Events -> [Users -> Nat]]
    /\ lock \in [Events -> Workers \cup {Nobody}]
    /\ audit \in [Events -> Results]
    /\ served \in [Events -> SUBSET Users]
    /\ auditRow \in [Events -> Workers \cup {Nobody}]
    /\ req \in [Workers -> Request]
    /\ \A w \in Workers : At(w, "idle") \/ req[w].ev \in Events
    /\ trouble \in 0..MaxTrouble

Final == {"success", "skipped"}

\* "terminal" audits are final: no late failure, retry or second worker turns a
\* success or skipped audit back into an error (log_webhook_transaction).
TerminalAuditFinal ==
    [][\A e \in Events : audit[e] \in Final => audit'[e] = audit[e]]_vars

\* A success audit means the work is done: every account the event was
\* processed for shows a provider state at least as recent as the event.
SuccessMeansReconciled ==
    \A e \in Events : audit[e] = "success" =>
       served[e] # {} /\ \A u \in served[e] : ver[u] >= due[e][u]

\* An event RevenueCat will not send again has a success or skipped audit:
\* no failed event is ever acknowledged.
AckMeansAudited == \A e \in acked : audit[e] \in Final

\* A worker's lock ends by its own release or by expiry: a worker that
\* outlived its lock does not delete the lock of the next one.
LockOwned ==
    [][\A e \in Events, w \in Workers :
          lock[e] = w /\ lock'[e] # w =>
             Expire(e) \/ (req[w].ev = e /\ At(w, "release"))]_vars

\* RevenueCat gets its 200: in spite of crashes that leave the lock behind,
\* of workers that overtake each other and of conflicts, as long as
\* these end, every event is acknowledged.
EventuallyAcked == \A e \in Events : e \in emitted ~> e \in acked
=============================================================================
