------------------------------ MODULE Feeding ------------------------------
(***************************************************************************)
(* Feeding schedules and feeding logs: app/services/feeding.py, the        *)
(* feeding_log and schedule handlers of app/services/sync/changes.py, the  *)
(* dead letters and the synced_ids of a batch.                             *)
(*                                                                         *)
(* A schedule has one feeding that can be logged once: it stands for the   *)
(* pair (schedule_id, scheduled_for).  Two schedules of the fish may not   *)
(* have one time.  Members log a feeding online (POST /feeding-logs) or    *)
(* offline, and then the log waits in the outbox for the next sync.        *)
(***************************************************************************)
EXTENDS Integers, FiniteSets

CONSTANTS
    Devices,     \* devices of one family; each runs one request at a time
    Schedules,   \* ids, given out by devices and by the server
    Standing,    \* schedules that exist at the start
    Times,       \* times of day
    TimeOf,      \* TimeOf[s]: the time s is created with
    Erasable,    \* schedules that may be deleted
    Online,      \* devices that use the REST endpoints
    Forms,       \* Forms[d]: the offline logs d makes: "good", "bad", "badid"
    OwnPlans,    \* devices that create schedules offline
    MaxMishaps   \* bound: crashes and lost answers

VARIABLES
    schedules,   \* committed: "none", "live", "gone"
    time,        \* committed feeding_schedules.time
    logs,        \* logs[s]: the committed feeding_logs row of its feeding, or {}
    deadLetters, \* committed sync_dead_letters
    outbox,      \* outbox[d]: changes the device has not been told are synced
    call,        \* call[d]: the request of d and its transaction
    erased,      \* history: schedules that have been deleted
    mishaps

feedingVars == <<schedules, time, logs, deadLetters, outbox, call, erased, mishaps>>

\* A row or a change.  form: "good", "bad" (the handler raises before the
\* database sees it), "badid" (entity_id is not a UUID), "online".
Rows == [kind : {"log", "schedule"}, s : Schedules, by : Devices, form : {"good", "bad", "badid", "online"}]

Quiet == [stage |-> "idle", sent |-> {}, todo |-> {}, buf |-> {}, rows |-> {}, dead |-> {},
          conflicts |-> {}]

Row(kind, s, d, form) == [kind |-> kind, s |-> s, by |-> d, form |-> form]

Live(s)   == schedules[s] = "live"
Logged(s) == logs[s] # {}
Claimed(s) == schedules[s] # "none"
              \/ \E d \in Devices : \E r \in outbox[d] \cup call[d].buf \cup call[d].rows :
                    r.kind = "schedule" /\ r.s = s
Goes(d, stage) == call' = [call EXCEPT ![d].stage = stage]
Ends(d)        == call' = [call EXCEPT ![d] = Quiet]

Init ==
    /\ schedules = [s \in Schedules |-> IF s \in Standing THEN "live" ELSE "none"]
    /\ time = TimeOf
    /\ logs = [s \in Schedules |-> {}] /\ deadLetters = {}
    /\ outbox = [d \in Devices |-> {}]
    /\ call = [d \in Devices |-> Quiet]
    /\ erased = {} /\ mishaps = 0

-----------------------------------------------------------------------------
(* PostgreSQL: unique keys and foreign keys.                               *)

\* The two unique keys of models/feeding.py.
SameKey(r, q) ==
    /\ r.kind = q.kind
    /\ IF r.kind = "log" THEN r.s = q.s ELSE r.s = q.s \/ time[r.s] = time[q.s]

\* An insert waits for another transaction that has inserted the same key.
WaitsFor(d, e) ==
    /\ e # d
    /\ \E r \in call[d].buf, q \in call[e].rows : SameKey(r, q)

\* Wrong: a log replaces the one with its key.
AcceptedOver(d, r) ==
    IF r.kind = "log" THEN Live(r.s) \/ \E q \in call[d].rows : q.kind = "schedule" /\ q.s = r.s
    ELSE ~Live(r.s) /\ \A s \in Schedules : Live(s) => time[s] # time[r.s]

\* The key is free, and the schedule of a log exists for this transaction.
Accepted(d, r) ==
    IF r.kind = "log"
    THEN /\ ~Logged(r.s)
         /\ Live(r.s) \/ \E q \in call[d].rows : q.kind = "schedule" /\ q.s = r.s
    ELSE /\ ~Live(r.s)
         /\ \A s \in Schedules : Live(s) => time[s] # time[r.s]

\* What a commit adds to the tables.
Committed(rows, dead) ==
    /\ schedules' = [s \in Schedules |->
          IF \E r \in rows : r.kind = "schedule" /\ r.s = s THEN "live" ELSE schedules[s]]
    /\ logs' = [s \in Schedules |->
          LET new == {r \in rows : r.kind = "log" /\ r.s = s} IN IF new = {} THEN logs[s] ELSE new]
    /\ deadLetters' = deadLetters \cup dead

-----------------------------------------------------------------------------
(* Devices offline.  A schedule may be deleted while the device still      *)
(* shows it.                                                               *)

Shows(d, s) == schedules[s] # "none" \/ Row("schedule", s, d, "good") \in outbox[d]

RecordLog(d, s, form) ==
    /\ Shows(d, s)
    /\ ~\E c \in outbox[d] : c.kind = "log" /\ c.s = s
    /\ outbox' = [outbox EXCEPT ![d] = @ \cup {Row("log", s, d, form)}]
    /\ UNCHANGED <<schedules, time, logs, deadLetters, call, erased, mishaps>>

PlanSchedule(d, s) ==
    /\ d \in OwnPlans /\ ~Claimed(s)
    /\ outbox' = [outbox EXCEPT ![d] = @ \cup {Row("schedule", s, d, "good")}]
    /\ UNCHANGED <<schedules, time, logs, deadLetters, call, erased, mishaps>>

-----------------------------------------------------------------------------
(* POST /sync.                                                             *)

\* Items whose entity_id does not parse are set aside, the others go on.
Parsed(changes) == {c \in changes : c.form # "badid"}

BeginSync(d) ==
    /\ call[d].stage = "idle" /\ outbox[d] # {}
    /\ call' = [call EXCEPT ![d] =
          [Quiet EXCEPT !.stage = "handle", !.sent = Parsed(outbox[d]), !.todo = Parsed(outbox[d])]]
    /\ UNCHANGED <<schedules, time, logs, deadLetters, outbox, erased, mishaps>>

\* The groups in their fixed order: feeding logs before schedules.
NextUp(todo) ==
    {c \in todo : c.kind = "log" \/ \A b \in todo : b.kind = "schedule"}

\* Wrong: only the log itself, sent again, is looked for.
DuplicateById(c) == c.kind = "log" /\ logs[c.s] = {c}

\* A log whose id or whose feeding is there already: the first one wins.  A
\* bad one does not get that far.
Duplicate(c) == c.kind = "log" /\ c.form # "bad" /\ Logged(c.s)

\* Wrong: the handler's error is only logged.
DeadLetterLogged(c) == {}
\* record_dead_letter: the failure of a handler becomes a row.
DeadLetter(c) == {c}

\* One change through _safe_apply.
Handle(d, c) ==
    LET rest == [call[d] EXCEPT !.todo = @ \ {c}]
    IN  /\ call[d].stage = "handle" /\ call[d].buf = {}
        /\ c \in NextUp(call[d].todo)
        /\ call' = [call EXCEPT ![d] =
              IF Duplicate(c) THEN [rest EXCEPT !.conflicts = @ \cup {c}]
              ELSE IF c.kind = "schedule" /\ Live(c.s) THEN rest
              ELSE IF c.form = "bad" THEN [rest EXCEPT !.dead = @ \cup DeadLetter(c)]
              ELSE [rest EXCEPT !.buf = {c}]]
        /\ UNCHANGED <<schedules, time, logs, deadLetters, outbox, erased, mishaps>>

\* What a flush leaves.  After a failed one every statement of a sync raises,
\* the dead letter's too, and the batch ends in SyncError 500 and a rollback;
\* create_feeding_log inserts in a savepoint and goes on to look the log up.
Flushed(d) ==
    LET c == call[d]  ok == \A r \in c.buf : Accepted(d, r)
    IN  IF c.stage = "handle"
        THEN IF ok THEN [c EXCEPT !.rows = @ \cup c.buf, !.buf = {}]
             ELSE [Quiet EXCEPT !.stage = "aborted"]
        ELSE IF ok THEN [c EXCEPT !.rows = c.buf, !.buf = {}, !.stage = "commit"]
             ELSE IF \E r \in c.buf : r.kind = "log" THEN [c EXCEPT !.stage = "look"]
             ELSE Quiet

\* By the next SELECT, or at the end.
Flush(d) ==
    /\ call[d].stage = "handle" /\ call[d].buf # {}
    /\ \A e \in Devices : ~WaitsFor(d, e)
    /\ call' = [call EXCEPT ![d] = Flushed(d)]
    /\ UNCHANGED <<schedules, time, logs, deadLetters, outbox, erased, mishaps>>

CommitSync(d) ==
    /\ call[d].stage = "handle" /\ call[d].todo = {} /\ call[d].buf = {}
    /\ Committed(call[d].rows, call[d].dead)
    /\ call' = [call EXCEPT ![d].stage = "answer", ![d].rows = {}]
    /\ UNCHANGED <<time, outbox, erased, mishaps>>

\* The answer names the conflicts and, as synced, every other change; the
\* device drops both, and repairs the ids that did not parse.
ReceiveAnswer(d) ==
    /\ call[d].stage = "answer"
    /\ outbox' = [outbox EXCEPT ![d] = {[c EXCEPT !.form = IF @ = "badid" THEN "good" ELSE @] :
                                          c \in outbox[d] \ call[d].sent}]
    /\ Ends(d)
    /\ UNCHANGED <<schedules, time, logs, deadLetters, erased, mishaps>>

\* The device sees the 500 and keeps its changes.
ReceiveError(d) ==
    /\ call[d].stage = "aborted"
    /\ Ends(d)
    /\ UNCHANGED <<schedules, time, logs, deadLetters, outbox, erased, mishaps>>

-----------------------------------------------------------------------------
(* REST.                                                                   *)

\* create_feeding_log inserts in a savepoint; an IntegrityError leads to a
\* SELECT of the log that is in the way.
BeginLog(d, s) ==
    /\ d \in Online /\ call[d].stage = "idle" /\ schedules[s] # "none"
    /\ call' = [call EXCEPT ![d] =
          [Quiet EXCEPT !.stage = "insert", !.buf = {Row("log", s, d, "online")}]]
    /\ UNCHANGED <<schedules, time, logs, deadLetters, outbox, erased, mishaps>>

\* generate_schedule reads the times that are taken before it inserts.
BeginGenerate(d) ==
    /\ d \in Online /\ call[d].stage = "idle"
    /\ \E new \in SUBSET {s \in Schedules : ~Claimed(s)} :
          /\ new # {}
          /\ \A s, t \in new : time[s] = time[t] => s = t
          /\ {time[s] : s \in new} = Times \ {time[s] : s \in {t \in Schedules : Live(t)}}
          /\ call' = [call EXCEPT ![d] =
                [Quiet EXCEPT !.stage = "insert", !.buf = {Row("schedule", s, d, "online") : s \in new}]]
    /\ UNCHANGED <<schedules, time, logs, deadLetters, outbox, erased, mishaps>>

CreateSchedule(d, s) ==
    /\ d \in Online /\ call[d].stage = "idle" /\ ~Claimed(s)
    /\ call' = [call EXCEPT ![d] =
          [Quiet EXCEPT !.stage = "insert", !.buf = {Row("schedule", s, d, "online")}]]
    /\ UNCHANGED <<schedules, time, logs, deadLetters, outbox, erased, mishaps>>

Insert(d) ==
    /\ call[d].stage = "insert" /\ \A e \in Devices : ~WaitsFor(d, e)
    /\ call' = [call EXCEPT ![d] = Flushed(d)]
    /\ UNCHANGED <<schedules, time, logs, deadLetters, outbox, erased, mishaps>>

\* 409 with the log that was first, or a 500 when there is none.
LookUp(d) ==
    /\ call[d].stage = "look"
    /\ Ends(d)
    /\ UNCHANGED <<schedules, time, logs, deadLetters, outbox, erased, mishaps>>

CommitREST(d) ==
    /\ call[d].stage = "commit"
    /\ Committed(call[d].rows, {})
    /\ Ends(d)
    /\ UNCHANGED <<time, outbox, erased, mishaps>>

\* delete_schedule and the sync deletion: the row goes, and its logs with it.
\* It waits for a transaction that has inserted a log of the schedule.
DeleteSchedule(s) ==
    /\ s \in Erasable /\ Live(s)
    /\ \A d \in Devices : \A r \in call[d].rows : r.kind = "log" => r.s # s
    /\ schedules' = [schedules EXCEPT ![s] = "gone"]
    /\ logs' = [logs EXCEPT ![s] = {}]
    /\ erased' = erased \cup {s}
    /\ UNCHANGED <<time, deadLetters, outbox, call, mishaps>>

\* update_schedule; a time that is taken is a 500.
Retime(s, t) ==
    /\ Live(s) /\ t # time[s]
    /\ \A u \in Schedules : Claimed(u) => time[u] # t
    /\ time' = [time EXCEPT ![s] = t]
    /\ UNCHANGED <<schedules, logs, deadLetters, outbox, call, erased, mishaps>>

-----------------------------------------------------------------------------
(* Failures.                                                               *)

\* A crash, a timeout, or an answer that is lost.
Breaks(d) ==
    /\ call[d].stage # "idle" /\ mishaps < MaxMishaps
    /\ mishaps' = mishaps + 1
    /\ Ends(d)
    /\ UNCHANGED <<schedules, time, logs, deadLetters, outbox, erased>>

\* PostgreSQL ends one of two transactions that wait for each other, and the
\* insert of the other one returns.
DeadlockVictim(d) ==
    /\ \E e \in Devices :
          /\ WaitsFor(d, e) /\ WaitsFor(e, d) /\ \A f \in Devices \ {d} : ~WaitsFor(e, f)
          /\ call' = [call EXCEPT ![d] = Quiet, ![e] = Flushed(e)]
    /\ UNCHANGED <<schedules, time, logs, deadLetters, outbox, erased, mishaps>>

Serve(d) ==
    \/ \E c \in outbox[d] : Handle(d, c)
    \/ Flush(d) \/ CommitSync(d) \/ ReceiveAnswer(d) \/ ReceiveError(d)
    \/ Insert(d) \/ LookUp(d) \/ CommitREST(d) \/ DeadlockVictim(d)

Next ==
    \/ \E d \in Devices :
          \/ \E s \in Schedules :
                \/ \E form \in Forms[d] : RecordLog(d, s, form)
                \/ PlanSchedule(d, s) \/ BeginLog(d, s) \/ CreateSchedule(d, s)
          \/ BeginSync(d) \/ BeginGenerate(d) \/ Serve(d) \/ Breaks(d)
    \/ \E s \in Schedules : DeleteSchedule(s) \/ \E t \in Times : Retime(s, t)

Spec == Init /\ [][Next]_feedingVars

\* A device sends what it has again and again, and requests end: an insert that
\* waits is woken when the other transaction ends, before the same is sent again.
Fairness == \A d \in Devices : SF_feedingVars(BeginSync(d) \/ Serve(d))

-----------------------------------------------------------------------------
\* Types, and the keys of the two tables.
FeedingTypeOK ==
    /\ schedules \in [Schedules -> {"none", "live", "gone"}] /\ time \in [Schedules -> Times]
    /\ logs \in [Schedules -> SUBSET Rows] /\ deadLetters \subseteq Rows
    /\ outbox \in [Devices -> SUBSET Rows]
    /\ \A s \in Schedules : Logged(s) => Live(s)
    /\ mishaps \in 0..MaxMishaps

\* An answer is true: what it calls synced is stored or kept as a dead letter,
\* and what it calls a conflict is a feeding that another log records - unless
\* the schedule has been deleted (sync/process.py synced_ids).
AnswersTrue ==
    \A d \in Devices : call[d].stage = "answer" =>
        \A c \in call[d].sent :
            \/ c.s \in erased
            \/ IF c \in call[d].conflicts THEN Logged(c.s)
               ELSE c \in deadLetters \/ IF c.kind = "log" THEN logs[c.s] = {c} ELSE Live(c.s)

\* Feeding is safe: rows and keys hold, and devices are told the truth.
FeedingInv == FeedingTypeOK /\ AnswersTrue

\* What the tables refuse whenever it is sent: a log whose schedule is not
\* there, be it deleted or still to come in the same batch, and a schedule for
\* a time that is taken.
Refusable(d) ==
    \E c \in outbox[d] :
        IF c.kind = "log" THEN c.form = "good" /\ ~Live(c.s)
        ELSE ~Live(c.s) /\ \E s \in Schedules : Live(s) /\ time[s] = time[c.s]

\* Every log that waits at a device is settled in the end: stored, answered as
\* a conflict or kept as a dead letter.  The exception is a device that sends
\* something the tables refuse: it ends every batch of that device.
LogsSettle == \A d \in Devices, s \in Schedules :
    (\E c \in outbox[d] : c.kind = "log" /\ c.s = s)
        ~> (Refusable(d) \/ ~\E c \in outbox[d] : c.kind = "log" /\ c.s = s)
=============================================================================
