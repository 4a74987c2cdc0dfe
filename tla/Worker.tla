------------------------------- MODULE Worker -------------------------------
(***************************************************************************)
(* Start-up of the scheduled jobs (app/workers/feeding_worker.py): a       *)
(* worker registers the schedules of its build in PostgreSQL when the      *)
(* version recorded in Redis is not its own, and then records it.          *)
(*                                                                         *)
(* Workers of two builds are up at once during a deployment, and either    *)
(* may be started again.                                                   *)
(***************************************************************************)
EXTENDS Integers, FiniteSets

CONSTANTS
    Workers,      \* processes
    Builds,       \* values of SCHEDULE_VERSION, positive
    Jobs,         \* job ids; each is registered by every build
    MaxMishaps    \* bound: crashes and failures of Redis

VARIABLES
    schedules,    \* schedules[j]: the build whose trigger of j is stored, 0 for none
    recorded,     \* Redis schedule_version, 0 for none
    worker,       \* worker[w]: stage, build, todo (the jobs it has yet to register)
    torn,         \* history: schedules of two builds may be mixed
    mishaps

workerVars == <<schedules, recorded, worker, torn, mishaps>>

Off == [stage |-> "off", build |-> 0, todo |-> {}]

Init ==
    /\ schedules = [j \in Jobs |-> 0] /\ recorded = 0
    /\ worker = [w \in Workers |-> Off] /\ torn = FALSE /\ mishaps = 0

Mishap == mishaps < MaxMishaps /\ mishaps' = mishaps + 1

\* A worker between its look at the record and its own record.
Registering(w) == worker[w].stage \in {"register", "record"}
Alone(w) == \A v \in Workers \ {w} : ~Registering(v)

\* start_scheduler; the process may be of either build.
Start(w, b) ==
    /\ worker[w].stage = "off"
    /\ worker' = [worker EXCEPT ![w] = [stage |-> "check", build |-> b, todo |-> Jobs]]
    /\ UNCHANGED <<schedules, recorded, torn, mishaps>>

\* _needs_schedule_update.
Needs(b) == recorded # b

\* A Redis that does not answer makes it register too.
Check(w) ==
    /\ worker[w].stage = "check"
    /\ \E stage \in {"register", "up"} :
          /\ \/ stage = (IF Needs(worker[w].build) THEN "register" ELSE "up") /\ UNCHANGED mishaps
             \/ stage = "register" /\ Mishap
          /\ worker' = [worker EXCEPT ![w].stage = stage]
          /\ torn' = (torn \/ (stage = "register" /\ ~Alone(w)))
    /\ UNCHANGED <<schedules, recorded>>

\* Wrong: the schedule that is there stays (ConflictPolicy.do_nothing).
Untouched(w, j) == IF schedules[j] = 0 THEN worker[w].build ELSE schedules[j]
\* ConflictPolicy.replace.
Replaced(w, j) == worker[w].build

StageAfter(rest) == IF rest = {} THEN "record" ELSE "register"

\* One add_schedule, in a transaction of its own.
Register(w, j) ==
    /\ worker[w].stage = "register" /\ j \in worker[w].todo
    /\ schedules' = [schedules EXCEPT ![j] = Replaced(w, j)]
    /\ LET rest == worker[w].todo \ {j}
       IN  worker' = [worker EXCEPT ![w].todo = rest, ![w].stage = StageAfter(rest)]
    /\ UNCHANGED <<recorded, torn, mishaps>>

\* _store_schedule_version; a failure is logged and the worker goes on.
Record(w) ==
    /\ worker[w].stage = "record"
    /\ \/ /\ recorded' = worker[w].build /\ UNCHANGED mishaps
          /\ torn' = (torn /\ ~(Alone(w) /\ \A j \in Jobs : schedules[j] = worker[w].build))
       \/ Mishap /\ torn' = TRUE /\ UNCHANGED recorded
    /\ worker' = [worker EXCEPT ![w].stage = "up"]
    /\ UNCHANGED schedules

\* A deployment stops the container, or the process dies; half-way through
\* its registration it leaves schedules of two builds.
Stop(w) ==
    /\ worker[w].stage = "up" /\ worker' = [worker EXCEPT ![w] = Off]
    /\ UNCHANGED <<schedules, recorded, torn, mishaps>>

Crash(w) ==
    /\ worker[w].stage \notin {"off", "up"} /\ Mishap
    /\ worker' = [worker EXCEPT ![w] = Off]
    /\ torn' = (torn \/ Registering(w))
    /\ UNCHANGED <<schedules, recorded>>

Next ==
    \E w \in Workers :
        \/ \E b \in Builds : Start(w, b)
        \/ \E j \in Jobs : Register(w, j)
        \/ Check(w) \/ Record(w) \/ Stop(w) \/ Crash(w)

Spec == Init /\ [][Next]_workerVars

-----------------------------------------------------------------------------
\* Builds are recorded as they are, and only after the last job.
WorkerTypeOK ==
    /\ \A j \in Jobs : schedules[j] \in {0} \cup Builds
    /\ recorded \in {0} \cup Builds
    /\ \A w \in Workers : worker[w].todo # {} => worker[w].stage # "record"

\* The recorded version is that of every stored schedule once nobody is
\* registering, unless two builds registered at once, or one stopped half-way
\* or could not record itself, and no build has registered all of its own
\* since (_needs_schedule_update, _store_schedule_version).
RecordTrue ==
    ~torn /\ (\A w \in Workers : ~Registering(w)) =>
        \A j \in Jobs : schedules[j] = recorded
=============================================================================
