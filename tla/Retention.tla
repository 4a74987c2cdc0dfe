------------------------------ MODULE Retention ------------------------------
(***************************************************************************)
(* The analytics events and who thins them out: the daily job of           *)
(* app/jobs/analytics_cleanup.py, the same passes started by an admin      *)
(* (app/api/admin/analytics.py), and the erasure of a user.                *)
(*                                                                         *)
(* A pass works in batches: it selects one without locks and writes it in  *)
(* a transaction.  Dry runs, which write nothing, are left out, and so is  *)
(* what becomes of an event's properties.  Events are there from the       *)
(* beginning: nothing calls track_event any more.                          *)
(***************************************************************************)
EXTENDS Integers, Sequences, FiniteSets, FiniteSetsExt

CONSTANTS
    Events, Users,
    UserOf,          \* UserOf[e]: whose event e is
    Born,            \* Born[e]: created_at
    AnonymizeAfter, Retain, BatchSize,
    Admins,          \* passes that admins start
    Worker,          \* the pass of the daily job
    MaxNow,          \* bound: the clock
    MaxMishaps       \* bound: crashes and failed transactions

VARIABLES
    event,    \* event[e]: the row of e
    pass,     \* pass[p]: jobs still to be done, the cutoff of the first one, its batch
    now,
    erased,   \* users who were erased
    mishaps

retentionVars == <<event, pass, now, erased, mishaps>>
Passes == Admins \cup {Worker}

Over == [jobs |-> <<>>, begun |-> FALSE, cutoff |-> 0, batch |-> {}]

Init ==
    /\ event = [e \in Events |-> [there |-> TRUE, user |-> {UserOf[e]}, marked |-> FALSE]]
    /\ pass = [p \in Passes |-> Over] /\ now = 0 /\ erased = {} /\ mishaps = 0

Busy(p) == pass[p].jobs # <<>>

Start(p, jobs) ==
    /\ ~Busy(p) /\ pass' = [pass EXCEPT ![p].jobs = jobs]
    /\ UNCHANGED <<event, now, erased, mishaps>>

\* analytics_cleanup_job, anonymize_old_events_job, delete_old_events_job.
Both == <<"anonymize", "delete">>
Triggers == {Both, <<"anonymize">>, <<"delete">>}

\* Wrong: both jobs take the shorter limit.
LimitShort(job) == AnonymizeAfter
LimitOf(job) == IF job = "anonymize" THEN AnonymizeAfter ELSE Retain

\* The cutoff stays what it is when a job begins.
Begin(p) ==
    /\ Busy(p) /\ ~pass[p].begun
    /\ pass' = [pass EXCEPT ![p].begun = TRUE, ![p].cutoff = now - LimitOf(Head(pass[p].jobs))]
    /\ UNCHANGED <<event, now, erased, mishaps>>

\* Wrong: the mark is forgotten, and a batch may come again.
DueAgain(job, cutoff) == {e \in Events : event[e].there /\ Born[e] < cutoff}
Due(job, cutoff) ==
    {e \in Events : event[e].there /\ Born[e] < cutoff /\ (job = "anonymize" => ~event[e].marked)}

\* Any rows, as many as a batch holds.
Batches(due) == kSubset(IF Cardinality(due) < BatchSize THEN Cardinality(due) ELSE BatchSize, due)

\* A batch, or, when nothing is due any more, the next job.
Select(p) ==
    /\ Busy(p) /\ pass[p].begun /\ pass[p].batch = {}
    /\ LET due == Due(Head(pass[p].jobs), pass[p].cutoff)
       IN IF due = {} THEN pass' = [pass EXCEPT ![p] = [Over EXCEPT !.jobs = Tail(pass[p].jobs)]]
          ELSE \E batch \in Batches(due) : pass' = [pass EXCEPT ![p].batch = batch]
    /\ UNCHANGED <<event, now, erased, mishaps>>

Bare(row) == [row EXCEPT !.user = {}, !.marked = TRUE]

\* An UPDATE that does not find its row fails the pass, and what comes after
\* it; a DELETE takes what is still there.
Write(p) ==
    /\ pass[p].batch # {}
    /\ LET batch == pass[p].batch
       IN CASE Head(pass[p].jobs) = "delete" ->
                 /\ event' = [e \in Events |-> IF e \in batch THEN [event[e] EXCEPT !.there = FALSE] ELSE event[e]]
                 /\ pass' = [pass EXCEPT ![p].batch = {}]
            [] Head(pass[p].jobs) = "anonymize" /\ (\A e \in batch : event[e].there) ->
                 /\ event' = [e \in Events |-> IF e \in batch THEN Bare(event[e]) ELSE event[e]]
                 /\ pass' = [pass EXCEPT ![p].batch = {}]
            [] OTHER -> pass' = [pass EXCEPT ![p] = Over] /\ UNCHANGED event
    /\ UNCHANGED <<now, erased, mishaps>>

\* A crash, a lost connection, or a deadlock of two passes: the batch is rolled back.
Break(p) ==
    /\ Busy(p) /\ mishaps < MaxMishaps /\ mishaps' = mishaps + 1
    /\ pass' = [pass EXCEPT ![p] = Over]
    /\ UNCHANGED <<event, now, erased>>

\* delete_user_data: the events that name the user.
Erase(u) ==
    /\ u \notin erased /\ erased' = erased \cup {u}
    /\ event' = [e \in Events |-> IF u \in event[e].user THEN [event[e] EXCEPT !.there = FALSE] ELSE event[e]]
    /\ UNCHANGED <<pass, now, mishaps>>

Tick == now < MaxNow /\ now' = now + 1 /\ UNCHANGED <<event, pass, erased, mishaps>>

Next ==
    \/ Start(Worker, Both) \/ Tick
    \/ \E p \in Admins, jobs \in Triggers : Start(p, jobs)
    \/ \E p \in Passes : Begin(p) \/ Select(p) \/ Write(p) \/ Break(p)
    \/ \E u \in Users : Erase(u)

Spec == Init /\ [][Next]_retentionVars

\* The clock, the scheduler, and whatever the daily job does.
Runs == Start(Worker, Both) \/ Begin(Worker) \/ Select(Worker) \/ Write(Worker)
Fairness == WF_retentionVars(Tick) /\ WF_retentionVars(Runs)

-----------------------------------------------------------------------------
(* Properties.                                                             *)

\* Types; a batch holds no more than BatchSize events.
RetentionTypeOK ==
    /\ \A e \in Events : event[e].user \subseteq {UserOf[e]}
    /\ \A p \in Passes : /\ pass[p].jobs \in Triggers \cup {<<>>}
                         /\ pass[p].batch \subseteq Events /\ Cardinality(pass[p].batch) <= BatchSize
    /\ now \in 0..MaxNow /\ erased \subseteq Users /\ mishaps \in 0..MaxMishaps

\* Whatever order passes and erasures take, an event loses its user only when
\* it is old enough, and is deleted only then or with its user.
NothingBefore ==
    \A e \in Events :
       /\ event'[e].marked /\ ~event[e].marked => now - Born[e] > AnonymizeAfter
       /\ event[e].there /\ ~event'[e].there =>
             now - Born[e] > Retain \/ (erased' # erased /\ UserOf[e] \in erased')
\* Whatever order passes and erasures take, no event goes before its time.
NothingTooEarly == [][NothingBefore]_retentionVars

\* Every event is gone in the end, though a pass that fails to anonymize
\* deletes nothing that day.
OldEventsGo == \A e \in Events : <>(~event[e].there)
=============================================================================
