--------------------------- MODULE AccountsProofs ---------------------------
(***************************************************************************)
(* Proofs about the parts of Accounts, for any constants:                  *)
(*   Worker: what the start of the workers records;                        *)
(*   Backup: what is left of the dumps;                                    *)
(*   Push: what a push pass sends, logs and removes;                       *)
(*   Sessions: sessions end when they should, and not before;              *)
(*   Expiry: nobody is told in vain that premium has ended.                *)
(***************************************************************************)
EXTENDS Accounts, FiniteSetTheorems, TLAPS

-----------------------------------------------------------------------------
(* Worker, for any number of crashes.                                      *)

StartStages == {"off", "check", "register", "record", "up"}
Process == [stage : StartStages, build : {0} \cup Builds, todo : SUBSET Jobs]

TypeInv ==
    /\ schedules \in [Jobs -> {0} \cup Builds]
    /\ recorded \in {0} \cup Builds
    /\ worker \in [Workers -> Process]
    /\ torn \in BOOLEAN

\* A worker has all jobs to do before it registers, and none once it records.
TodoInv ==
    \A w \in Workers :
       /\ worker[w].stage \in {"check", "register", "record"} => worker[w].build \in Builds
       /\ worker[w].stage = "check" => worker[w].todo = Jobs
       /\ worker[w].stage = "record" => worker[w].todo = {}

\* Unless something was torn, one worker at most registers, ...
OneRegisters == \A v, w \in Workers : Registering(v) /\ Registering(w) => v = w
\* ... the jobs it has done are of its build, ...
DoneAreIts ==
    \A w \in Workers : Registering(w) =>
       \A j \in Jobs \ worker[w].todo : schedules[j] = worker[w].build
\* ... and while nobody registers the record is true.
RecordHolds ==
    (\A w \in Workers : ~Registering(w)) => \A j \in Jobs : schedules[j] = recorded

WorkerInv == TypeInv /\ TodoInv /\ (~torn => OneRegisters /\ DoneAreIts /\ RecordHolds)

-----------------------------------------------------------------------------
\* Nothing is stored, nothing recorded, nobody runs.
LEMMA WorkerInit == Init => WorkerInv
<1> SUFFICES ASSUME Init PROVE WorkerInv
    OBVIOUS
<1>1. TypeInv /\ TodoInv
    BY DEF Init, TypeInv, TodoInv, Off, Process, StartStages
<1>2. RecordHolds /\ \A w \in Workers : ~Registering(w)
    BY DEF Init, RecordHolds, Registering, Off
<1> QED BY <1>1, <1>2 DEF WorkerInv, OneRegisters, DoneAreIts

\* A step of a worker that neither registers before nor after it keeps what
\* the record says.
LEMMA AsideInv ==
    ASSUME WorkerInv, NEW w \in Workers, NEW q \in Process,
           worker' = [worker EXCEPT ![w] = q],
           ~Registering(w), q.stage \in {"off", "check", "up"},
           q.stage = "check" => q.todo = Jobs /\ q.build \in Builds,
           UNCHANGED <<schedules, recorded>>, torn' \in BOOLEAN, torn => torn'
    PROVE  WorkerInv'
<1>1. TypeInv' /\ TodoInv'
    BY DEF WorkerInv, TypeInv, TodoInv
<1>2. \A v \in Workers : Registering(v)' <=> Registering(v)
    BY DEF WorkerInv, TypeInv, Registering
<1>3. \A v \in Workers : Registering(v) => worker'[v] = worker[v]
    BY DEF WorkerInv, TypeInv
<1>4. ASSUME ~torn' PROVE (OneRegisters /\ DoneAreIts /\ RecordHolds)'
  <2>1. OneRegisters /\ DoneAreIts /\ RecordHolds
      BY <1>4 DEF WorkerInv, TypeInv
  <2>2. OneRegisters'
      BY <2>1, <1>2 DEF OneRegisters
  <2>3. DoneAreIts'
      BY <2>1, <1>2, <1>3 DEF DoneAreIts
  <2>4. RecordHolds'
      BY <2>1, <1>2 DEF RecordHolds
  <2> QED BY <2>2, <2>3, <2>4
<1> QED BY <1>1, <1>4 DEF WorkerInv

\* start_scheduler.
LEMMA StartInv ==
    ASSUME WorkerInv, NEW w \in Workers, NEW b \in Builds, Start(w, b)
    PROVE  WorkerInv'
<1> DEFINE q == [stage |-> "check", build |-> b, todo |-> Jobs]
<1>1. q \in Process /\ q.stage = "check" /\ q.todo = Jobs /\ q.build \in Builds
    BY DEF Process, StartStages
<1>2. worker' = [worker EXCEPT ![w] = q] /\ UNCHANGED <<schedules, recorded, torn>> /\ ~Registering(w)
    BY DEF Start, Registering
<1>3. torn \in BOOLEAN
    BY DEF WorkerInv, TypeInv
<1> HIDE DEF q
<1> QED BY <1>1, <1>2, <1>3, AsideInv

\* A worker that stops, or dies: one that registers tears the schedules.
LEMMA EndInv ==
    ASSUME WorkerInv, NEW w \in Workers, Stop(w) \/ Crash(w)
    PROVE  WorkerInv'
<1>1. Off \in Process /\ Off.stage = "off"
    BY DEF Off, Process, StartStages
<1>2. worker' = [worker EXCEPT ![w] = Off] /\ UNCHANGED <<schedules, recorded>>
    BY DEF Stop, Crash
<1>3. torn \in BOOLEAN /\ torn' \in BOOLEAN /\ (torn => torn')
    BY DEF Stop, Crash, WorkerInv, TypeInv, Registering
<1>4. CASE ~Registering(w)
    BY <1>1, <1>2, <1>3, <1>4, AsideInv
<1>5. CASE Registering(w)
  <2>1. torn'
      BY <1>5 DEF Stop, Crash, Registering
  <2>2. TypeInv' /\ TodoInv'
      BY <1>1, <1>2, <1>3 DEF WorkerInv, TypeInv, TodoInv
  <2> QED BY <2>1, <2>2 DEF WorkerInv
<1> QED BY <1>4, <1>5

\* _needs_schedule_update: a worker that begins beside another one tears.
LEMMA CheckInv ==
    ASSUME WorkerInv, NEW w \in Workers, Check(w)
    PROVE  WorkerInv'
<1>1. PICK stage \in {"register", "up"} :
         /\ worker' = [worker EXCEPT ![w].stage = stage]
         /\ torn' = (torn \/ (stage = "register" /\ ~Alone(w)))
    BY DEF Check
<1>2. worker[w].stage = "check" /\ UNCHANGED <<schedules, recorded>>
    BY DEF Check
<1> DEFINE q == [worker[w] EXCEPT !.stage = stage]
<1>3. worker[w] \in Process /\ worker[w].todo = Jobs /\ worker[w].build \in Builds
    BY <1>2 DEF WorkerInv, TypeInv, TodoInv
<1>4. q \in Process /\ q.stage = stage /\ q.todo = Jobs /\ q.build \in Builds
    BY <1>3 DEF Process, StartStages
<1>5. worker' = [worker EXCEPT ![w] = q]
    BY <1>1
<1>6. torn \in BOOLEAN /\ torn' \in BOOLEAN /\ (torn => torn')
    BY <1>1 DEF WorkerInv, TypeInv, Alone, Registering
<1> HIDE DEF q
<1>7. CASE stage = "up"
    BY <1>2, <1>4, <1>5, <1>6, <1>7, AsideInv DEF Registering
<1>8. CASE stage = "register"
  <2>1. TypeInv' /\ TodoInv'
      BY <1>2, <1>4, <1>5, <1>6, <1>8 DEF WorkerInv, TypeInv, TodoInv
  <2>2. ASSUME ~torn' PROVE (OneRegisters /\ DoneAreIts /\ RecordHolds)'
    <3>1. \A v \in Workers \ {w} : ~Registering(v)
        BY <1>1, <1>8, <2>2 DEF Alone
    <3>2. worker'[w] = q /\ \A v \in Workers \ {w} : worker'[v] = worker[v]
        BY <1>5 DEF WorkerInv, TypeInv
    <3>3. \A v \in Workers : Registering(v)' <=> v = w
        BY <1>4, <1>8, <3>1, <3>2 DEF Registering
    <3> QED BY <1>4, <3>2, <3>3 DEF OneRegisters, DoneAreIts, RecordHolds
  <2> QED BY <2>1, <2>2 DEF WorkerInv
<1> QED BY <1>1, <1>7, <1>8

\* One add_schedule of the worker that registers.
LEMMA RegisterInv ==
    ASSUME WorkerInv, NEW w \in Workers, NEW j \in Jobs, Register(w, j)
    PROVE  WorkerInv'
<1> DEFINE rest == worker[w].todo \ {j}
           q == [worker[w] EXCEPT !.todo = rest, !.stage = StageAfter(rest)]
<1>1. worker[w] \in Process /\ worker[w].build \in Builds /\ worker[w].stage = "register"
    BY DEF WorkerInv, TypeInv, TodoInv, Register
<1>2. /\ q \in Process /\ q.stage \in {"register", "record"} /\ q.build = worker[w].build
      /\ q.todo = rest /\ (q.stage = "record" => rest = {})
    BY <1>1 DEF Process, StartStages, StageAfter
<1>3. /\ worker' = [worker EXCEPT ![w] = q]
      /\ schedules' = [schedules EXCEPT ![j] = worker[w].build]
      /\ UNCHANGED <<recorded, torn>>
    BY DEF Register, Replaced
<1> HIDE DEF q
<1>4. worker'[w] = q /\ \A v \in Workers \ {w} : worker'[v] = worker[v]
    BY <1>3 DEF WorkerInv, TypeInv
<1>5. TypeInv' /\ TodoInv'
    BY <1>1, <1>2, <1>3, <1>4 DEF WorkerInv, TypeInv, TodoInv
<1>6. ASSUME ~torn' PROVE (OneRegisters /\ DoneAreIts /\ RecordHolds)'
  <2>1. OneRegisters /\ DoneAreIts
      BY <1>3, <1>6 DEF WorkerInv
  <2>2. Registering(w) /\ \A v \in Workers : Registering(v)' <=> Registering(v)
      BY <1>1, <1>2, <1>4 DEF Registering
  <2>3. \A v \in Workers : Registering(v) => v = w
      BY <2>1, <2>2 DEF OneRegisters
  <2>4. \A k \in Jobs \ rest : schedules'[k] = q.build
    <3> SUFFICES ASSUME NEW k \in Jobs \ rest PROVE schedules'[k] = q.build
        OBVIOUS
    <3>1. CASE k = j
        BY <1>2, <1>3, <3>1 DEF WorkerInv, TypeInv
    <3>2. CASE k # j
        BY <1>2, <1>3, <2>1, <2>2, <3>2 DEF DoneAreIts, WorkerInv, TypeInv
    <3> QED BY <3>1, <3>2
  <2>5. DoneAreIts'
      BY <1>2, <1>4, <2>2, <2>3, <2>4 DEF DoneAreIts
  <2>6. OneRegisters' /\ RecordHolds'
      BY <2>2, <2>3 DEF OneRegisters, RecordHolds
  <2> QED BY <2>5, <2>6
<1> QED BY <1>5, <1>6 DEF WorkerInv

\* _store_schedule_version: a worker that records alone what is all its own
\* makes the record true, whatever was before.
LEMMA RecordInv ==
    ASSUME WorkerInv, NEW w \in Workers, Record(w)
    PROVE  WorkerInv'
<1> DEFINE q == [worker[w] EXCEPT !.stage = "up"]
<1>1. worker[w] \in Process /\ worker[w].stage = "record" /\ worker[w].build \in Builds /\ worker[w].todo = {}
    BY DEF WorkerInv, TypeInv, TodoInv, Record
<1>2. q \in Process /\ q.stage = "up"
    BY <1>1 DEF Process, StartStages
<1>3. worker' = [worker EXCEPT ![w] = q] /\ schedules' = schedules
    BY DEF Record
<1> HIDE DEF q
<1>4. worker'[w] = q /\ \A v \in Workers \ {w} : worker'[v] = worker[v]
    BY <1>3 DEF WorkerInv, TypeInv
<1>5. recorded' \in {0} \cup Builds /\ torn' \in BOOLEAN
    BY <1>1 DEF WorkerInv, TypeInv, Record, Alone, Registering
<1>6. TypeInv' /\ TodoInv'
    BY <1>2, <1>3, <1>4, <1>5 DEF WorkerInv, TypeInv, TodoInv
<1>7. ASSUME ~torn' PROVE (OneRegisters /\ DoneAreIts /\ RecordHolds)'
  <2>1. /\ recorded' = worker[w].build
        /\ torn => Alone(w) /\ \A j \in Jobs : schedules[j] = worker[w].build
      BY <1>7 DEF Record
  <2>2. Registering(w)
      BY <1>1 DEF Registering
  <2>3. (\A v \in Workers \ {w} : ~Registering(v)) /\ \A j \in Jobs : schedules[j] = worker[w].build
    <3>1. CASE torn
        BY <2>1, <3>1 DEF Alone
    <3>2. CASE ~torn
        BY <1>1, <2>2, <3>2 DEF WorkerInv, OneRegisters, DoneAreIts
    <3> QED BY <3>1, <3>2 DEF WorkerInv, TypeInv
  <2>4. \A v \in Workers : ~Registering(v)'
      BY <1>2, <1>4, <2>3 DEF Registering
  <2> QED BY <1>3, <2>1, <2>3, <2>4 DEF OneRegisters, DoneAreIts, RecordHolds
<1> QED BY <1>6, <1>7 DEF WorkerInv

LEMMA WorkerStep == WorkerInv /\ [Next]_workerVars => WorkerInv'
<1> SUFFICES ASSUME WorkerInv, [Next]_workerVars PROVE WorkerInv'
    OBVIOUS
<1>1. ASSUME NEW w \in Workers, NEW b \in Builds, Start(w, b) PROVE WorkerInv'
    BY <1>1, StartInv
<1>2. ASSUME NEW w \in Workers, NEW j \in Jobs, Register(w, j) PROVE WorkerInv'
    BY <1>2, RegisterInv
<1>3. ASSUME NEW w \in Workers, Check(w) PROVE WorkerInv'
    BY <1>3, CheckInv
<1>4. ASSUME NEW w \in Workers, Record(w) PROVE WorkerInv'
    BY <1>4, RecordInv
<1>5. ASSUME NEW w \in Workers, Stop(w) \/ Crash(w) PROVE WorkerInv'
    BY <1>5, EndInv
<1>6. CASE UNCHANGED workerVars
    BY <1>6 DEF workerVars, WorkerInv, TypeInv, TodoInv, OneRegisters, DoneAreIts, RecordHolds, Registering
<1> QED BY <1>1, <1>2, <1>3, <1>4, <1>5, <1>6 DEF Next

\* Every reachable state satisfies the inductive invariant.
THEOREM Invariance == Spec => []WorkerInv
<1> QED BY WorkerInit, WorkerStep, PTL DEF Spec

\* The record tells the build of every stored schedule once nobody registers,
\* unless two registered at once, or one stopped half-way or could not record,
\* and none has registered all of its own since (_needs_schedule_update and
\* _store_schedule_version).
THEOREM RecordCorrect == Spec => []RecordTrue
<1>1. WorkerInv => RecordTrue
    BY DEF WorkerInv, RecordHolds, RecordTrue
<1> QED BY <1>1, Invariance, PTL

\* Only builds are stored and recorded, and only after the last job
\* (_register_schedules).
THEOREM WorkerTypes == Spec => []WorkerTypeOK
<1>1. WorkerInv => WorkerTypeOK
    BY DEF WorkerInv, TypeInv, TodoInv, WorkerTypeOK
<1> QED BY <1>1, Invariance, PTL

-----------------------------------------------------------------------------
(* Backup: a whole dump stays.                                             *)

BackupStages == {"new", "dump", "dumping", "upload", "record", "clean", "objects", "files", "commit",
                 "fail", "unlink", "done"}
BackupRows == [status : {"none", "running", "ok", "failed"}, name : Runs \cup {0}, at : Int,
               key : BOOLEAN, by : {"none", "scheduler", "manual"}]
BackupRuns == [stage : BackupStages, old : SUBSET Runs]
Copies == {"none", "part", "whole"}
Cleaning(r) == run[r].stage \in {"clean", "objects", "files", "commit"}

BackupTypes ==
    /\ rows \in [Runs -> BackupRows] /\ run \in [Runs -> BackupRuns]
    /\ files \in [Runs -> Copies] /\ objects \in [Runs -> Copies]
    /\ config \in [enabled : BOOLEAN, retention : Retentions] /\ now \in Int /\ twins \in BOOLEAN
    /\ \A r \in Runs : rows[r].key => Remote /\ rows[r].status \in {"ok", "failed"}

\* A call that works has its row, which is at most a tick old, and which is OK
\* while it cleans up.
CallsListed ==
    \A r \in Runs :
       /\ Backup!Listed(r) => rows[r].at <= now
       /\ run[r].stage = "new" => ~Backup!Listed(r)
       /\ Backup!Working(r) => Backup!Listed(r) /\ rows[r].at >= now - 1
       /\ Cleaning(r) => Backup!Ok(r)

\* What a call is about to delete belongs to older calls, which have ended.
OldOnes ==
    \A r, q \in Runs : q \in run[r].old =>
       /\ run[q].stage = "done" /\ Cleaning(r)
       /\ Backup!Listed(q) => rows[q].at < rows[r].at

OwnNames == \A r \in Runs : rows[r].name = IF Backup!Listed(r) THEN r ELSE 0

\* From the dump to its upload the file is whole, and from then on the object.
OwnCopies ==
    \A r \in Runs :
       /\ run[r].stage = "upload" => files[r] = "whole"
       /\ run[r].stage = "record" \/ Cleaning(r) => objects[r] = "whole"

DumpsInv ==
    /\ BackupTypes /\ CallsListed /\ OldOnes
    /\ ~twins => OwnNames
    /\ Remote /\ ~twins => OwnCopies
    /\ Backup!SomethingToRestore

LEMMA BackupGoes ==
    ASSUME BackupTypes, NEW r \in Runs, NEW s \in BackupStages, Backup!Goes(r, s)
    PROVE  /\ run' \in [Runs -> BackupRuns] /\ run'[r].stage = s
           /\ run'[r].old = IF s \in {"fail", "done"} THEN {} ELSE run[r].old
           /\ \A q \in Runs \ {r} : run'[q] = run[q]
<1> DEFINE c == [stage |-> s, old |-> IF s \in {"fail", "done"} THEN {} ELSE run[r].old]
<1>1. run \in [Runs -> BackupRuns] /\ run' = [run EXCEPT ![r] = c]
    BY DEF BackupTypes, Backup!Goes
<1>2. c \in BackupRuns
    BY <1>1 DEF BackupRuns
<1> QED BY <1>1, <1>2

LEMMA BackupStart == Backup!Init => DumpsInv
<1> SUFFICES ASSUME Backup!Init PROVE DumpsInv
    OBVIOUS
<1>1. /\ rows = [r \in Runs |-> Backup!NoRow] /\ run = [r \in Runs |-> Backup!Quiet]
      /\ files = [r \in Runs |-> "none"] /\ objects = [r \in Runs |-> "none"]
      /\ config \in [enabled : BOOLEAN, retention : Retentions] /\ now = 0 /\ twins = FALSE
    BY DEF Backup!Init
<1>2. BackupTypes
  <2>1. Backup!NoRow \in BackupRows /\ Backup!Quiet \in BackupRuns
      BY DEF BackupRows, BackupRuns, BackupStages, Backup!NoRow, Backup!Quiet
  <2>2. \A r \in Runs : rows[r].key = FALSE
      BY <1>1 DEF Backup!NoRow
  <2>3. rows \in [Runs -> BackupRows] /\ run \in [Runs -> BackupRuns]
      BY <1>1, <2>1
  <2>4. files \in [Runs -> Copies] /\ objects \in [Runs -> Copies]
      BY <1>1 DEF Copies
  <2>5. now = 0 /\ twins = FALSE
      BY <1>1, Zenon
  <2>6. now \in Int
      BY <2>5
  <2> QED BY <1>1, <2>2, <2>3, <2>4, <2>5, <2>6, Zenon DEF BackupTypes
<1>3. \A r \in Runs : ~Backup!Listed(r) /\ run[r].stage = "new" /\ run[r].old = {}
    BY <1>1 DEF Backup!Listed, Backup!NoRow, Backup!Quiet
<1>4. \A r \in Runs : ~Backup!Working(r) /\ ~Cleaning(r) /\ ~Backup!Ok(r) /\ rows[r].name = 0
    BY <1>1, <1>3 DEF Backup!Working, Cleaning, Backup!Ok, Backup!NoRow
<1> QED BY <1>2, <1>3, <1>4 DEF DumpsInv, CallsListed, OldOnes, OwnNames, OwnCopies, Backup!SomethingToRestore

\* A call goes on without touching rows and objects.
LEMMA BackupMove ==
    ASSUME DumpsInv, NEW r \in Runs, NEW s \in BackupStages \ {"new", "record"},
           Backup!Goes(r, s), Backup!Working(r),
           UNCHANGED <<rows, objects, config, now, twins>>, files' \in [Runs -> Copies],
           s \in {"clean", "objects", "files", "commit"} => Cleaning(r),
           Cleaning(r) => s \in {"clean", "objects", "files", "commit", "fail", "done"},
           s = "upload" /\ ~twins => files'[r] = "whole",
           ~twins => \A q \in Runs \ {r} : run[q].stage = "upload" => files'[q] = files[q]
    PROVE  DumpsInv'
<1>1. /\ run' \in [Runs -> BackupRuns] /\ run'[r].stage = s
      /\ run'[r].old \subseteq run[r].old /\ (s \in {"fail", "done"} => run'[r].old = {})
      /\ \A q \in Runs \ {r} : run'[q] = run[q]
    BY BackupGoes DEF DumpsInv
<1>2. BackupTypes'
    BY <1>1 DEF DumpsInv, BackupTypes
<1>3. \A q \in Runs : (Backup!Listed(q)' <=> Backup!Listed(q)) /\ (Backup!Ok(q)' <=> Backup!Ok(q))
    BY DEF Backup!Listed, Backup!Ok
<1>4. \A q \in Runs \ {r} : (Backup!Working(q)' <=> Backup!Working(q)) /\ (Cleaning(q)' <=> Cleaning(q))
    BY <1>1 DEF Backup!Working, Cleaning
<1>5. Cleaning(r)' => Cleaning(r)
    BY <1>1 DEF Cleaning
<1>6. CallsListed'
    BY <1>1, <1>3, <1>4, <1>5 DEF DumpsInv, CallsListed
<1>7. OldOnes'
  <2>1. run[r].stage # "done"
      BY DEF Backup!Working
  <2>2. \A p, q \in Runs : q \in run[p].old => q # r
      BY <2>1 DEF DumpsInv, OldOnes
  <2>3. ASSUME NEW q \in run'[r].old PROVE Cleaning(r)'
    <3>1. Cleaning(r)
        BY <1>1, <2>3 DEF DumpsInv, OldOnes, BackupTypes, BackupRuns
    <3> QED BY <1>1, <2>3, <3>1 DEF Cleaning
  <2>4. \A p \in Runs : run'[p].old \subseteq run[p].old /\ run[p].old \subseteq Runs
      BY <1>1 DEF DumpsInv, BackupTypes, BackupRuns
  <2> QED BY <1>1, <1>3, <1>4, <2>2, <2>3, <2>4 DEF DumpsInv, OldOnes
<1>8. ~twins' => OwnNames'
    BY <1>3 DEF DumpsInv, OwnNames
<1>9. Remote /\ ~twins' => OwnCopies'
    BY <1>1, <1>4, <1>5 DEF DumpsInv, OwnCopies
<1>10. Backup!SomethingToRestore'
    BY <1>3 DEF DumpsInv, Backup!SomethingToRestore, Backup!Name
<1> QED BY <1>2, <1>6, <1>7, <1>8, <1>9, <1>10 DEF DumpsInv

LEMMA BackupBegins ==
    ASSUME DumpsInv, NEW r \in Runs, NEW by \in {"scheduler", "manual"}, Backup!Begin(r, by)
    PROVE  DumpsInv'
<1>1. PICK name \in Runs \cup {0} :
         /\ rows' = [rows EXCEPT ![r] = Backup!RunningRow(name, by)]
         /\ twins' = (twins \/ name # r)
  <2>1. \A q \in Runs : rows[q].name \in Runs \cup {0}
      BY DEF DumpsInv, BackupTypes, BackupRows
  <2> QED BY <2>1, Zenon DEF Backup!Begin
<1>2. run[r].stage = "new" /\ Backup!Goes(r, "dump") /\ UNCHANGED <<files, objects, config, now, mishaps>>
    BY DEF Backup!Begin
<1>3. /\ run' \in [Runs -> BackupRuns] /\ run'[r].stage = "dump" /\ run'[r].old = run[r].old
      /\ \A q \in Runs \ {r} : run'[q] = run[q]
    BY <1>2, BackupGoes DEF DumpsInv, BackupStages
<1>4. /\ Backup!RunningRow(name, by) \in BackupRows
      /\ Backup!RunningRow(name, by) = [status |-> "running", name |-> name, at |-> now, key |-> FALSE, by |-> by]
    BY DEF Backup!RunningRow, BackupRows, DumpsInv, BackupTypes
<1>5. /\ rows' \in [Runs -> BackupRows] /\ \A q \in Runs \ {r} : rows'[q] = rows[q]
      /\ rows'[r].status = "running" /\ rows'[r].name = name /\ rows'[r].at = now /\ ~rows'[r].key
    BY <1>1, <1>4 DEF DumpsInv, BackupTypes
<1>6. BackupTypes'
    BY <1>1, <1>2, <1>3, <1>5 DEF DumpsInv, BackupTypes
<1>7. \A q \in Runs \ {r} :
         /\ (Backup!Listed(q)' <=> Backup!Listed(q)) /\ (Backup!Ok(q)' <=> Backup!Ok(q))
         /\ (Backup!Working(q)' <=> Backup!Working(q)) /\ (Cleaning(q)' <=> Cleaning(q))
    BY <1>3, <1>5 DEF Backup!Listed, Backup!Ok, Backup!Working, Cleaning
<1>8. /\ Backup!Listed(r)' /\ ~Backup!Ok(r)' /\ ~Cleaning(r)'
      /\ ~Backup!Listed(r) /\ ~Cleaning(r)
    BY <1>2, <1>3, <1>5 DEF Backup!Listed, Backup!Ok, Cleaning, DumpsInv, CallsListed
<1>9. CallsListed'
    BY <1>2, <1>3, <1>5, <1>6, <1>7, <1>8 DEF DumpsInv, CallsListed, BackupTypes
<1>10. OldOnes'
  <2>1. \A p, q \in Runs : q \in run'[p].old => p # r /\ q # r
      BY <1>2, <1>3, <1>8 DEF DumpsInv, OldOnes
  <2> QED BY <1>3, <1>5, <1>7, <2>1 DEF DumpsInv, OldOnes
<1>11. ~twins' => OwnNames'
    BY <1>1, <1>5, <1>7, <1>8 DEF DumpsInv, OwnNames, BackupTypes
<1>12. Remote /\ ~twins' => OwnCopies'
    BY <1>1, <1>2, <1>3, <1>7, <1>8 DEF DumpsInv, OwnCopies, BackupTypes
<1>13. Backup!SomethingToRestore'
    BY <1>1, <1>2, <1>5, <1>7, <1>8 DEF DumpsInv, Backup!SomethingToRestore, Backup!Name, BackupTypes
<1> QED BY <1>6, <1>9, <1>10, <1>11, <1>12, <1>13 DEF DumpsInv

\* The dump is put into the bucket under the name of its row.
LEMMA BackupUploads ==
    ASSUME DumpsInv, NEW r \in Runs, run[r].stage = "upload", Backup!Goes(r, "record"),
           objects' = IF Remote THEN [objects EXCEPT ![rows[r].name] = files[rows[r].name]] ELSE objects,
           files[rows[r].name] # "none", UNCHANGED <<rows, files, config, now, twins>>
    PROVE  DumpsInv'
<1>1. /\ run' \in [Runs -> BackupRuns] /\ run'[r].stage = "record" /\ run'[r].old = run[r].old
      /\ \A q \in Runs \ {r} : run'[q] = run[q]
    BY BackupGoes DEF DumpsInv, BackupStages
<1>2. objects' \in [Runs -> Copies]
  <2>1. CASE rows[r].name \in Runs
      BY <2>1 DEF DumpsInv, BackupTypes
  <2>2. CASE rows[r].name \notin Runs
      BY <2>2 DEF DumpsInv, BackupTypes
  <2> QED BY <2>1, <2>2
<1>3. BackupTypes'
    BY <1>1, <1>2 DEF DumpsInv, BackupTypes
<1>4. \A q \in Runs : (Backup!Listed(q)' <=> Backup!Listed(q)) /\ (Backup!Ok(q)' <=> Backup!Ok(q))
    BY DEF Backup!Listed, Backup!Ok
<1>5. \A q \in Runs : (Backup!Working(q)' <=> Backup!Working(q)) /\ (Cleaning(q)' <=> Cleaning(q))
    BY <1>1 DEF Backup!Working, Cleaning
<1>6. Backup!Working(r) /\ Backup!Listed(r) /\ ~Cleaning(r)
    BY DEF Backup!Working, Cleaning, DumpsInv, CallsListed
<1>7. CallsListed'
    BY <1>1, <1>4, <1>5 DEF DumpsInv, CallsListed
<1>8. OldOnes'
    BY <1>1, <1>4, <1>5, <1>6 DEF DumpsInv, OldOnes
<1>9. ~twins' => OwnNames'
    BY <1>4 DEF DumpsInv, OwnNames
<1>10. Remote /\ ~twins =>
         /\ objects'[r] = "whole" /\ \A q \in Runs \ {r} : objects'[q] = objects[q]
         /\ \A q \in Runs : Backup!Listed(q) => rows[q].name = q
    BY <1>6 DEF DumpsInv, OwnNames, OwnCopies, BackupTypes
<1>11. Remote /\ ~twins' => OwnCopies'
    BY <1>1, <1>5, <1>6, <1>10 DEF DumpsInv, OwnCopies
<1>12. Backup!SomethingToRestore'
    BY <1>4, <1>10 DEF DumpsInv, Backup!SomethingToRestore, Backup!Name
<1> QED BY <1>3, <1>7, <1>8, <1>9, <1>11, <1>12 DEF DumpsInv

\* A row that is listed gets another status: OK when its object is there.
LEMMA BackupSettles ==
    ASSUME DumpsInv, NEW r \in Runs, Backup!Listed(r), NEW status \in {"ok", "failed"}, NEW key \in BOOLEAN,
           NEW s \in {"clean", "unlink"}, Backup!Goes(r, s), run[r].stage \in {"record", "fail"},
           status = "ok" <=> s = "clean", s = "clean" => run[r].stage = "record", key => Remote,
           rows' \in [Runs -> BackupRows], \A q \in Runs \ {r} : rows'[q] = rows[q],
           rows'[r].status = status, rows'[r].name = rows[r].name, rows'[r].at = rows[r].at, rows'[r].key = key,
           UNCHANGED <<files, objects, config, now, twins>>
    PROVE  DumpsInv'
<1>1. /\ run' \in [Runs -> BackupRuns] /\ run'[r].stage = s /\ run'[r].old = run[r].old
      /\ \A q \in Runs \ {r} : run'[q] = run[q]
    BY BackupGoes DEF DumpsInv, BackupStages
<1>2. /\ rows' \in [Runs -> BackupRows] /\ \A q \in Runs \ {r} : rows'[q] = rows[q]
      /\ rows'[r].status = status /\ rows'[r].name = rows[r].name /\ rows'[r].at = rows[r].at /\ rows'[r].key = key
    OBVIOUS
<1>3. BackupTypes'
    BY <1>1, <1>2 DEF DumpsInv, BackupTypes
<1>4. \A q \in Runs : (Backup!Listed(q)' <=> Backup!Listed(q)) /\ rows'[q].name = rows[q].name /\ rows'[q].at = rows[q].at
    BY <1>2 DEF Backup!Listed
<1>5. \A q \in Runs \ {r} :
         /\ (Backup!Working(q)' <=> Backup!Working(q)) /\ (Cleaning(q)' <=> Cleaning(q))
         /\ (Backup!Ok(q)' <=> Backup!Ok(q))
    BY <1>1, <1>2 DEF Backup!Working, Cleaning, Backup!Ok
<1>6. /\ Backup!Working(r) /\ ~Cleaning(r)
      /\ Cleaning(r)' => Backup!Ok(r)'
      /\ Backup!Ok(r)' \/ Cleaning(r)' => run[r].stage = "record"
    BY <1>1, <1>2 DEF Backup!Working, Cleaning, Backup!Ok
<1>7. CallsListed'
    BY <1>1, <1>4, <1>5, <1>6 DEF DumpsInv, CallsListed
<1>8. OldOnes'
  <2>1. \A p, q \in Runs : q \in run'[p].old => p # r /\ q # r
      BY <1>1, <1>6 DEF DumpsInv, OldOnes, Backup!Working
  <2> QED BY <1>1, <1>4, <1>5, <2>1 DEF DumpsInv, OldOnes
<1>9. ~twins' => OwnNames'
    BY <1>4 DEF DumpsInv, OwnNames
<1>10. Remote /\ ~twins' => OwnCopies'
    BY <1>1, <1>5, <1>6 DEF DumpsInv, OwnCopies
<1>11. Backup!SomethingToRestore'
  <2>1. SUFFICES ASSUME Remote, ~twins, NEW p \in Runs, Backup!Ok(p)'
                 PROVE  \E q \in Runs :
                           Backup!Listed(q) /\ rows[q].at >= rows[p].at /\ objects[rows[q].name] = "whole"
      BY <1>4 DEF Backup!SomethingToRestore, Backup!Name
  <2>2. CASE p = r
    <3>1. objects[r] = "whole" /\ rows[r].name = r
        BY <1>6, <2>1, <2>2 DEF DumpsInv, OwnCopies, OwnNames
    <3>2. rows[r].at >= rows[r].at
        BY DEF DumpsInv, BackupTypes, BackupRows
    <3> QED BY <2>2, <3>1, <3>2
  <2>3. CASE p # r
      BY <1>5, <2>1, <2>3 DEF DumpsInv, Backup!SomethingToRestore, Backup!Name
  <2> QED BY <2>2, <2>3
<1> QED BY <1>3, <1>7, <1>8, <1>9, <1>10, <1>11 DEF DumpsInv

\* The older rows, which no call works on, are chosen.
LEMMA BackupSelects ==
    ASSUME DumpsInv, AccountsAssumption, NEW r \in Runs, run[r].stage = "clean",
           run' = [run EXCEPT ![r].stage = "objects",
                              ![r].old = {q \in Runs : Backup!Listed(q) /\ Backup!Expired(q)}],
           UNCHANGED <<rows, files, objects, config, now, twins>>
    PROVE  DumpsInv'
<1> DEFINE old == {q \in Runs : Backup!Listed(q) /\ Backup!Expired(q)}
<1>1. /\ run' \in [Runs -> BackupRuns] /\ run'[r].stage = "objects" /\ run'[r].old = old
      /\ \A q \in Runs \ {r} : run'[q] = run[q]
  <2>1. old \in SUBSET Runs /\ "objects" \in BackupStages
      BY DEF BackupStages
  <2> HIDE DEF old
  <2>2. run \in [Runs -> BackupRuns] /\ run' = [run EXCEPT ![r].stage = "objects", ![r].old = old]
      BY DEF DumpsInv, BackupTypes, old
  <2>3. run'[r].stage = "objects" /\ run'[r].old = old /\ \A q \in Runs \ {r} : run'[q] = run[q]
      BY <2>2 DEF BackupRuns
  <2>4. run'[r] \in BackupRuns
    <3>1. run'[r] = [[run[r] EXCEPT !.stage = "objects"] EXCEPT !.old = old] /\ run[r] \in BackupRuns
        BY <2>2
    <3> QED BY <2>1, <3>1 DEF BackupRuns
  <2> QED BY <2>2, <2>3, <2>4 DEF old
<1>2. BackupTypes'
    BY <1>1 DEF DumpsInv, BackupTypes
<1>3. \A q \in Runs : (Backup!Listed(q)' <=> Backup!Listed(q)) /\ (Backup!Ok(q)' <=> Backup!Ok(q))
    BY DEF Backup!Listed, Backup!Ok
<1>4. \A q \in Runs : (Backup!Working(q)' <=> Backup!Working(q)) /\ (Cleaning(q)' <=> Cleaning(q))
    BY <1>1 DEF Backup!Working, Cleaning
<1>5. Backup!Working(r) /\ Cleaning(r)
    BY DEF Backup!Working, Cleaning
<1>6. CallsListed'
    BY <1>1, <1>3, <1>4, <1>5 DEF DumpsInv, CallsListed
<1>7. ASSUME NEW q \in old PROVE run[q].stage = "done" /\ rows[q].at < rows[r].at /\ q # r
  <2>1. /\ config.retention \in Nat /\ config.retention >= 1 /\ now \in Int
        /\ rows[q].at \in Int /\ rows[r].at \in Int /\ q \in Runs
      BY <1>7 DEF AccountsAssumption, DumpsInv, BackupTypes, BackupRows
  <2>2. Backup!Listed(q) /\ rows[q].at + config.retention < now /\ rows[r].at >= now - 1
      BY <1>5, <1>7 DEF Backup!Expired, DumpsInv, CallsListed
  <2>3. rows[q].at < now - 1
      BY <2>1, <2>2
  <2>4. ~Backup!Working(q) /\ run[q].stage # "new"
      BY <2>1, <2>2, <2>3 DEF DumpsInv, CallsListed
  <2> QED BY <1>5, <2>1, <2>2, <2>3, <2>4 DEF Backup!Working
<1>8. OldOnes'
  <2>1. ASSUME NEW p \in Runs, NEW q \in Runs, q \in run'[p].old
        PROVE  /\ run[q].stage = "done" /\ Cleaning(p) /\ q # r
               /\ Backup!Listed(q) => rows[q].at < rows[p].at
    <3>1. CASE p = r
        BY <1>1, <1>5, <1>7, <2>1, <3>1
    <3>2. CASE p # r
        BY <1>1, <2>1, <3>2 DEF DumpsInv, OldOnes
    <3> QED BY <3>1, <3>2
  <2> HIDE DEF old
  <2> QED BY <1>1, <1>3, <1>4, <2>1 DEF OldOnes
<1> HIDE DEF old
<1>9. ~twins' => OwnNames'
    BY <1>3 DEF DumpsInv, OwnNames
<1>10. Remote /\ ~twins' => OwnCopies'
    BY <1>1, <1>4, <1>5 DEF DumpsInv, OwnCopies
<1>11. Backup!SomethingToRestore'
    BY <1>3 DEF DumpsInv, Backup!SomethingToRestore, Backup!Name
<1> QED BY <1>2, <1>6, <1>8, <1>9, <1>10, <1>11 DEF DumpsInv

\* The objects of the older rows go, each or not; the newest dump stays.
LEMMA BackupWipes ==
    ASSUME DumpsInv, NEW r \in Runs, Backup!CleanObjects(r)
    PROVE  DumpsInv'
<1> DEFINE keys == {rows[q].name : q \in {p \in run[r].old : rows[p].key}}
<1>0. run[r].stage = "objects" /\ Backup!Goes(r, "files") /\ UNCHANGED <<rows, files, config, now, twins>>
    BY DEF Backup!CleanObjects
<1>1. /\ run' \in [Runs -> BackupRuns] /\ run'[r].stage = "files" /\ run'[r].old = run[r].old
      /\ \A q \in Runs \ {r} : run'[q] = run[q]
    BY <1>0, BackupGoes DEF DumpsInv, BackupStages
<1>2. objects' \in [Runs -> Copies] /\ \A n \in Runs : n \notin keys => objects'[n] = objects[n]
  <2>1. PICK kept : objects' = Backup!Wiped(objects, {Backup!Name(q) : q \in {p \in run[r].old : rows[p].key}}, kept)
      BY Zenon DEF Backup!CleanObjects
  <2>2. objects' = [n \in Runs |-> IF n \in keys \ kept THEN "none" ELSE objects[n]]
      BY <2>1 DEF Backup!Wiped, Backup!Name
  <2> HIDE DEF keys
  <2> QED BY <2>2 DEF DumpsInv, BackupTypes, Copies
<1>3. BackupTypes'
    BY <1>0, <1>1, <1>2 DEF DumpsInv, BackupTypes
<1>4. \A q \in Runs : (Backup!Listed(q)' <=> Backup!Listed(q)) /\ (Backup!Ok(q)' <=> Backup!Ok(q))
    BY <1>0 DEF Backup!Listed, Backup!Ok
<1>5. \A q \in Runs : (Backup!Working(q)' <=> Backup!Working(q)) /\ (Cleaning(q)' <=> Cleaning(q))
    BY <1>0, <1>1 DEF Backup!Working, Cleaning
<1>6. Backup!Working(r) /\ Cleaning(r) /\ Backup!Listed(r)
    BY <1>0 DEF Backup!Working, Cleaning, DumpsInv, CallsListed
<1>7. CallsListed'
    BY <1>0, <1>1, <1>4, <1>5 DEF DumpsInv, CallsListed
<1>8. OldOnes'
    BY <1>0, <1>1, <1>4, <1>5, <1>6 DEF DumpsInv, OldOnes, Backup!Working
<1>9. ~twins' => OwnNames'
    BY <1>0, <1>4 DEF DumpsInv, OwnNames
<1>10. ~twins => \A n \in keys : n \in run[r].old /\ Backup!Listed(n) /\ rows[n].name = n
  <2>1. ASSUME ~twins, NEW q \in run[r].old, rows[q].key PROVE Backup!Listed(q) /\ rows[q].name = q
      BY <2>1 DEF DumpsInv, OwnNames, BackupTypes, BackupRuns, Backup!Listed
  <2> QED BY <2>1
<1> HIDE DEF keys
<1>11. ~twins => \A n \in keys : run[n].stage = "done" /\ rows[n].at < rows[r].at /\ n \in Runs
    BY <1>10 DEF DumpsInv, OldOnes, BackupTypes, BackupRuns
<1>12. Remote /\ ~twins' => OwnCopies'
    BY <1>0, <1>1, <1>2, <1>5, <1>6, <1>11 DEF DumpsInv, OwnCopies, Cleaning
<1>13. Backup!SomethingToRestore'
  <2>1. SUFFICES ASSUME Remote, ~twins, NEW p \in Runs, Backup!Ok(p)
                 PROVE  \E q \in Runs :
                           Backup!Listed(q) /\ rows[q].at >= rows[p].at /\ objects'[rows[q].name] = "whole"
      BY <1>0, <1>4 DEF Backup!SomethingToRestore, Backup!Name
  <2>2. PICK q \in Runs : Backup!Listed(q) /\ rows[q].at >= rows[p].at /\ objects[rows[q].name] = "whole"
      BY <2>1 DEF DumpsInv, Backup!SomethingToRestore, Backup!Name
  <2>3. \A n \in Runs : Backup!Listed(n) => rows[n].name = n
      BY <2>1 DEF DumpsInv, OwnNames
  <2>4. rows[p].at \in Int /\ rows[q].at \in Int /\ rows[r].at \in Int
      BY DEF DumpsInv, BackupTypes, BackupRows
  <2>5. CASE q \in keys
    <3>1. r \notin keys /\ objects[r] = "whole"
        BY <1>6, <1>11, <2>1, <2>4 DEF DumpsInv, OwnCopies
    <3>2. rows[r].at >= rows[p].at
        BY <1>11, <2>1, <2>2, <2>4, <2>5
    <3> QED BY <1>2, <1>6, <2>3, <3>1, <3>2
  <2>6. CASE q \notin keys
      BY <1>2, <2>2, <2>3, <2>6
  <2> QED BY <2>5, <2>6
<1> QED BY <1>3, <1>7, <1>8, <1>9, <1>12, <1>13 DEF DumpsInv

\* The older rows go last.
LEMMA BackupCommits ==
    ASSUME DumpsInv, NEW r \in Runs, run[r].stage = "commit", Backup!Goes(r, "done"),
           rows' = [q \in Runs |-> IF q \in run[r].old THEN Backup!NoRow ELSE rows[q]],
           UNCHANGED <<files, objects, config, now, twins>>
    PROVE  DumpsInv'
<1>1. /\ run' \in [Runs -> BackupRuns] /\ run'[r].stage = "done" /\ run'[r].old = {}
      /\ \A q \in Runs \ {r} : run'[q] = run[q]
    BY BackupGoes DEF DumpsInv, BackupStages
<1>2. /\ Backup!NoRow \in BackupRows
      /\ Backup!NoRow = [status |-> "none", name |-> 0, at |-> 0, key |-> FALSE, by |-> "none"]
    BY DEF Backup!NoRow, BackupRows
<1>3. /\ rows' \in [Runs -> BackupRows]
      /\ \A q \in Runs : q \notin run[r].old => rows'[q] = rows[q]
      /\ \A q \in Runs : q \in run[r].old =>
            rows'[q].status = "none" /\ rows'[q].name = 0 /\ rows'[q].key = FALSE
    BY <1>2 DEF DumpsInv, BackupTypes
<1>4. Backup!Working(r) /\ Cleaning(r) /\ Backup!Listed(r) /\ run[r].old \subseteq Runs
    BY DEF Backup!Working, Cleaning, DumpsInv, CallsListed, BackupTypes, BackupRuns
<1>5. BackupTypes'
    BY <1>1, <1>3 DEF DumpsInv, BackupTypes
<1>6. \A q \in Runs :
         /\ Backup!Listed(q)' <=> Backup!Listed(q) /\ q \notin run[r].old
         /\ Backup!Ok(q)' <=> Backup!Ok(q) /\ q \notin run[r].old
    BY <1>3 DEF Backup!Listed, Backup!Ok
<1>7. \A q \in Runs \ {r} : (Backup!Working(q)' <=> Backup!Working(q)) /\ (Cleaning(q)' <=> Cleaning(q))
    BY <1>1 DEF Backup!Working, Cleaning
<1>8. ~Backup!Working(r)' /\ ~Cleaning(r)'
    BY <1>1 DEF Backup!Working, Cleaning
<1>9. \A q \in run[r].old : run[q].stage = "done" /\ (Backup!Listed(q) => rows[q].at < rows[r].at)
    BY <1>4 DEF DumpsInv, OldOnes
<1>10. \A q \in run[r].old : ~Backup!Working(q) /\ ~Cleaning(q)
    BY <1>9 DEF Backup!Working, Cleaning
<1>11. CallsListed'
    BY <1>1, <1>3, <1>6, <1>7, <1>8, <1>10 DEF DumpsInv, CallsListed
<1>12. OldOnes'
  <2>1. ASSUME NEW p \in Runs, NEW q \in Runs, q \in run'[p].old
        PROVE  /\ p # r /\ q # r /\ run[q].stage = "done" /\ Cleaning(p) /\ rows'[p] = rows[p]
               /\ Backup!Listed(q) => rows[q].at < rows[p].at
    <3>1. p # r /\ run'[p] = run[p]
        BY <1>1, <2>1
    <3>2. run[q].stage = "done" /\ Cleaning(p) /\ (Backup!Listed(q) => rows[q].at < rows[p].at)
        BY <2>1, <3>1 DEF DumpsInv, OldOnes
    <3> QED BY <1>3, <1>4, <1>10, <3>1, <3>2 DEF Backup!Working
  <2> QED BY <1>1, <1>3, <1>6, <1>7, <2>1 DEF OldOnes
<1>13. ~twins' => OwnNames'
    BY <1>3, <1>6 DEF DumpsInv, OwnNames
<1>14. Remote /\ ~twins' => OwnCopies'
    BY <1>1, <1>7, <1>8 DEF DumpsInv, OwnCopies
<1>15. Backup!SomethingToRestore'
  <2>1. SUFFICES ASSUME Remote, ~twins, NEW p \in Runs, Backup!Ok(p), p \notin run[r].old
                 PROVE  \E q \in Runs : /\ Backup!Listed(q)' /\ rows'[q].at >= rows'[p].at
                                        /\ objects[rows'[q].name] = "whole"
      BY <1>6 DEF Backup!SomethingToRestore, Backup!Name
  <2>2. PICK q \in Runs : Backup!Listed(q) /\ rows[q].at >= rows[p].at /\ objects[rows[q].name] = "whole"
      BY <2>1 DEF DumpsInv, Backup!SomethingToRestore, Backup!Name
  <2>3. rows[p].at \in Int /\ rows[q].at \in Int /\ rows[r].at \in Int /\ rows'[p] = rows[p]
      BY <1>3, <2>1 DEF DumpsInv, BackupTypes, BackupRows
  <2>4. CASE q \in run[r].old
    <3>1. /\ r \notin run[r].old /\ objects[r] = "whole" /\ rows[r].name = r
          /\ rows'[r] = rows[r] /\ Backup!Listed(r)'
        BY <1>3, <1>4, <1>6, <1>10, <2>1 DEF DumpsInv, OwnCopies, OwnNames
    <3>2. rows[r].at >= rows[p].at
        BY <1>9, <2>2, <2>3, <2>4
    <3> QED BY <2>3, <3>1, <3>2
  <2>5. CASE q \notin run[r].old
      BY <1>3, <1>6, <2>2, <2>3, <2>5
  <2> QED BY <2>4, <2>5
<1> QED BY <1>5, <1>11, <1>12, <1>13, <1>14, <1>15 DEF DumpsInv

\* update_settings.
LEMMA BackupConfigures == ASSUME DumpsInv, Backup!Configure PROVE DumpsInv'
<1>1. /\ config' \in [enabled : BOOLEAN, retention : Retentions]
      /\ UNCHANGED <<rows, files, objects, run, now, twins>>
    BY DEF Backup!Configure
<1> QED BY <1>1 DEF DumpsInv, BackupTypes, CallsListed, OldOnes, OwnNames, OwnCopies, Cleaning, Backup!SomethingToRestore,
                    Backup!Name, Backup!Listed, Backup!Ok, Backup!Working

\* A call takes less than a tick.
LEMMA BackupTicks == ASSUME DumpsInv, Backup!Tick PROVE DumpsInv'
<1>1. /\ now' = now + 1 /\ \A r \in Runs : Backup!Working(r) => now = rows[r].at
      /\ UNCHANGED <<rows, files, objects, run, config, twins>>
    BY DEF Backup!Tick
<1>2. \A r \in Runs : rows[r].at \in Int /\ now \in Int
    BY DEF DumpsInv, BackupTypes, BackupRows
<1>3. BackupTypes'
    BY <1>1, <1>2 DEF DumpsInv, BackupTypes
<1>4. \A r \in Runs : /\ Backup!Listed(r)' = Backup!Listed(r) /\ Backup!Ok(r)' = Backup!Ok(r)
                     /\ Backup!Working(r)' = Backup!Working(r) /\ Cleaning(r)' = Cleaning(r)
    BY <1>1 DEF Backup!Listed, Backup!Ok, Backup!Working, Cleaning
<1>5. CallsListed'
    BY <1>1, <1>2, <1>4 DEF DumpsInv, CallsListed
<1>6. OldOnes' /\ (~twins' => OwnNames') /\ (Remote /\ ~twins' => OwnCopies')
    BY <1>1, <1>4 DEF DumpsInv, OldOnes, OwnNames, OwnCopies
<1>7. Backup!SomethingToRestore'
    BY <1>1, <1>4 DEF DumpsInv, Backup!SomethingToRestore, Backup!Name
<1> QED BY <1>3, <1>5, <1>6, <1>7 DEF DumpsInv

LEMMA BackupDumps ==
    ASSUME DumpsInv, NEW r \in Runs, Backup!DumpBegins(r) \/ Backup!DumpEnds(r)
    PROVE  DumpsInv'
<1>1. /\ Backup!Working(r) /\ ~Cleaning(r) /\ Backup!Listed(r)
      /\ UNCHANGED <<rows, objects, config, now, twins>>
    BY DEF Backup!DumpBegins, Backup!DumpEnds, Backup!Working, Cleaning, DumpsInv, CallsListed
<1>2. rows[r].name \in Runs \cup {0} /\ (~twins => rows[r].name = r)
    BY <1>1 DEF DumpsInv, BackupTypes, BackupRows, OwnNames
<1>3. CASE Backup!DumpBegins(r)
  <2>1. files' = [files EXCEPT ![rows[r].name] = "part"] /\ Backup!Goes(r, "dumping")
      BY <1>3 DEF Backup!DumpBegins, Backup!Name
  <2>2. files' \in [Runs -> Copies] /\ (~twins => \A q \in Runs \ {r} : files'[q] = files[q])
      BY <1>2, <2>1 DEF DumpsInv, BackupTypes, Copies
  <2> QED BY <1>1, <2>1, <2>2, BackupMove DEF BackupStages
<1>4. CASE Backup!DumpEnds(r) /\ Backup!Goes(r, "upload") /\ files' = [files EXCEPT ![rows[r].name] = "whole"]
  <2>1. files' \in [Runs -> Copies] /\ (~twins => files'[r] = "whole" /\ \A q \in Runs \ {r} : files'[q] = files[q])
      BY <1>2, <1>4 DEF DumpsInv, BackupTypes, Copies
  <2> QED BY <1>1, <1>4, <2>1, BackupMove DEF BackupStages
<1>5. CASE Backup!DumpEnds(r) /\ Backup!Goes(r, "fail") /\ UNCHANGED files
    BY <1>1, <1>5, BackupMove DEF BackupStages, DumpsInv, BackupTypes
<1> QED BY <1>3, <1>4, <1>5 DEF Backup!DumpEnds, Backup!Name

\* Files of older rows are nobody's that is about to be uploaded.
LEMMA BackupCleans ==
    ASSUME DumpsInv, AccountsAssumption, NEW r \in Runs, Backup!CleanFiles(r)
    PROVE  DumpsInv'
<1> DEFINE names == {rows[q].name : q \in run[r].old} \cap Runs
<1>1. /\ run[r].stage = "files" /\ Backup!Goes(r, "commit")
      /\ UNCHANGED <<rows, objects, config, now, twins>>
    BY DEF Backup!CleanFiles
<1>2. PICK kept : files' = [n \in Runs |-> IF n \in names \ kept THEN "none" ELSE files[n]]
    BY Zenon DEF Backup!CleanFiles, Backup!Name, Backup!Wiped
<1>3. /\ Backup!Working(r) /\ Cleaning(r) /\ run[r].old \subseteq Runs
      /\ \A n \in run[r].old : run[n].stage = "done"
    BY <1>1 DEF Backup!Working, Cleaning, DumpsInv, OldOnes, BackupTypes, BackupRuns
<1>4. ASSUME ~twins, NEW n \in names PROVE run[n].stage = "done"
  <2>1. PICK q \in run[r].old : n = rows[q].name /\ n # 0 /\ q \in Runs
      BY <1>3, <1>4 DEF AccountsAssumption
  <2> QED BY <1>3, <1>4, <2>1 DEF DumpsInv, OwnNames
<1> HIDE DEF names
<1>5. files' \in [Runs -> Copies] /\ \A n \in Runs : n \notin names => files'[n] = files[n]
    BY <1>2 DEF DumpsInv, BackupTypes, Copies
<1>6. ~twins => \A q \in Runs \ {r} : run[q].stage = "upload" => files'[q] = files[q]
    BY <1>4, <1>5
<1> QED BY <1>1, <1>3, <1>5, <1>6, BackupMove DEF BackupStages

LEMMA BackupUnlinks ==
    ASSUME DumpsInv, NEW r \in Runs, Backup!Unlink(r)
    PROVE  DumpsInv'
<1>1. /\ run[r].stage = "unlink" /\ Backup!Goes(r, "done")
      /\ UNCHANGED <<rows, objects, config, now, twins>>
      /\ files' = [files EXCEPT ![rows[r].name] = "none"] \/ UNCHANGED files
    BY DEF Backup!Unlink, Backup!Name
<1>2. Backup!Working(r) /\ ~Cleaning(r) /\ Backup!Listed(r)
    BY <1>1 DEF Backup!Working, Cleaning, DumpsInv, CallsListed
<1>3. ~twins => rows[r].name = r
    BY <1>2 DEF DumpsInv, OwnNames
<1>4. files' \in [Runs -> Copies] /\ (~twins => \A q \in Runs \ {r} : files'[q] = files[q])
    BY <1>1, <1>3 DEF DumpsInv, BackupTypes, Copies
<1> QED BY <1>1, <1>2, <1>4, BackupMove DEF BackupStages

\* A call fails, or its process stops.
LEMMA BackupStops ==
    ASSUME DumpsInv, NEW r \in Runs, NEW s \in {"fail", "done"}, Backup!Goes(r, s), Backup!Working(r),
           UNCHANGED <<rows, files, objects, config, now, twins>>
    PROVE  DumpsInv'
<1>1. files' \in [Runs -> Copies]
    BY DEF DumpsInv, BackupTypes
<1> QED BY <1>1, BackupMove DEF BackupStages

LEMMA BackupCall ==
    ASSUME DumpsInv, AccountsAssumption, NEW r \in Runs,
           \/ \E by \in {"scheduler", "manual"} : Backup!Begin(r, by)
           \/ Backup!DumpBegins(r) \/ Backup!DumpEnds(r) \/ Backup!Upload(r) \/ Backup!Record(r) \/ Backup!Fail(r)
           \/ Backup!Unlink(r) \/ Backup!CleanSelects(r) \/ Backup!CleanObjects(r) \/ Backup!CleanFiles(r)
           \/ Backup!CleanCommits(r) \/ Backup!Crash(r)
    PROVE  DumpsInv'
<1>1. CASE \E by \in {"scheduler", "manual"} : Backup!Begin(r, by)
    BY <1>1, BackupBegins
<1>2. CASE Backup!DumpBegins(r) \/ Backup!DumpEnds(r)
    BY <1>2, BackupDumps
<1>3. CASE Backup!Upload(r)
  <2>1. CASE Backup!Goes(r, "record")
    <3>1. /\ run[r].stage = "upload" /\ UNCHANGED <<rows, files, config, now, twins>>
        BY <1>3 DEF Backup!Upload
    <3>2. ~Backup!Goes(r, "fail")
      <4>1. run'[r].stage = "record"
          BY <2>1, BackupGoes DEF DumpsInv, BackupStages
      <4>2. SUFFICES ASSUME Backup!Goes(r, "fail") PROVE run'[r].stage = "fail"
          BY <4>1
      <4> QED BY <4>2, BackupGoes DEF DumpsInv, BackupStages
    <3>3. /\ files[rows[r].name] # "none"
          /\ objects' = IF Remote THEN [objects EXCEPT ![rows[r].name] = files[rows[r].name]] ELSE objects
        BY <1>3, <3>2 DEF Backup!Upload, Backup!Name
    <3> QED BY <2>1, <3>1, <3>3, BackupUploads
  <2>2. CASE ~Backup!Goes(r, "record")
    <3>1. /\ Backup!Goes(r, "fail") /\ Backup!Working(r)
          /\ UNCHANGED <<rows, files, objects, config, now, twins>>
        BY <1>3, <2>2 DEF Backup!Upload, Backup!Working
    <3> QED BY <3>1, BackupStops
  <2> QED BY <2>1, <2>2
<1>4. CASE Backup!Record(r)
  <2>1. run[r].stage = "record" /\ Backup!Working(r) /\ Backup!Listed(r) /\ UNCHANGED <<files, objects, config, now, twins>>
      BY <1>4 DEF Backup!Record, Backup!Working, DumpsInv, CallsListed
  <2>2. CASE Backup!Goes(r, "clean") /\ rows' = [rows EXCEPT ![r].status = "ok", ![r].key = Remote]
    <3>1. rows[r] \in BackupRows
        BY DEF DumpsInv, BackupTypes
    <3>2. /\ rows'[r] = [[rows[r] EXCEPT !.status = "ok"] EXCEPT !.key = Remote]
          /\ \A q \in Runs \ {r} : rows'[q] = rows[q]
        BY <2>2 DEF DumpsInv, BackupTypes
    <3>3. /\ rows'[r] \in BackupRows /\ rows'[r].status = "ok" /\ rows'[r].key = Remote
          /\ rows'[r].name = rows[r].name /\ rows'[r].at = rows[r].at
        BY <3>1, <3>2 DEF BackupRows, AccountsAssumption
    <3>4. rows' \in [Runs -> BackupRows]
        BY <2>2, <3>2, <3>3 DEF DumpsInv, BackupTypes
    <3> QED BY <2>1, <2>2, <3>2, <3>3, <3>4, BackupSettles DEF AccountsAssumption
  <2>3. CASE Backup!Goes(r, "fail") /\ UNCHANGED rows
      BY <2>1, <2>3, BackupStops
  <2> QED BY <1>4, <2>1, <2>2, <2>3 DEF Backup!Record
<1>5. CASE Backup!Fail(r)
  <2>1. /\ run[r].stage = "fail" /\ Backup!Listed(r) /\ Backup!Goes(r, "unlink")
        /\ rows' = [rows EXCEPT ![r].status = "failed"] /\ UNCHANGED <<files, objects, config, now, twins>>
      BY <1>5 DEF Backup!Fail, Backup!Working, DumpsInv, CallsListed
  <2>2. rows[r] \in BackupRows /\ rows[r].key \in BOOLEAN /\ (rows[r].key => Remote)
      BY DEF DumpsInv, BackupTypes, BackupRows
  <2>3. rows'[r] = [rows[r] EXCEPT !.status = "failed"] /\ \A q \in Runs \ {r} : rows'[q] = rows[q]
      BY <2>1 DEF DumpsInv, BackupTypes
  <2>4. /\ rows'[r] \in BackupRows /\ rows'[r].status = "failed" /\ rows'[r].key = rows[r].key
        /\ rows'[r].name = rows[r].name /\ rows'[r].at = rows[r].at
      BY <2>2, <2>3 DEF BackupRows
  <2>5. rows' \in [Runs -> BackupRows]
      BY <2>1, <2>3, <2>4 DEF DumpsInv, BackupTypes
  <2> QED BY <2>1, <2>2, <2>3, <2>4, <2>5, BackupSettles
<1>6. CASE Backup!Unlink(r)
    BY <1>6, BackupUnlinks
<1>7. CASE Backup!CleanSelects(r)
  <2>1. run[r].stage = "clean" /\ Backup!Working(r) /\ UNCHANGED <<rows, files, objects, config, now, twins>>
      BY <1>7 DEF Backup!CleanSelects, Backup!Working
  <2>2. CASE Backup!Goes(r, "fail")
      BY <2>1, <2>2, BackupStops
  <2>3. CASE ~Backup!Goes(r, "fail")
      BY <1>7, <2>1, <2>3, BackupSelects DEF Backup!CleanSelects
  <2> QED BY <2>2, <2>3
<1>8. CASE Backup!CleanObjects(r)
    BY <1>8, BackupWipes
<1>9. CASE Backup!CleanFiles(r)
    BY <1>9, BackupCleans
<1>10. CASE Backup!CleanCommits(r)
  <2>1. run[r].stage = "commit" /\ Backup!Working(r) /\ UNCHANGED <<files, objects, config, now, twins>>
      BY <1>10 DEF Backup!CleanCommits, Backup!Working
  <2>2. CASE Backup!Goes(r, "fail") /\ UNCHANGED rows
      BY <2>1, <2>2, BackupStops
  <2>3. CASE Backup!Goes(r, "done") /\ rows' = [q \in Runs |-> IF q \in run[r].old THEN Backup!NoRow ELSE rows[q]]
      BY <2>1, <2>3, BackupCommits
  <2> QED BY <1>10, <2>2, <2>3 DEF Backup!CleanCommits
<1>11. CASE Backup!Crash(r)
    BY <1>11, BackupStops DEF Backup!Crash
<1> QED BY <1>1, <1>2, <1>3, <1>4, <1>5, <1>6, <1>7, <1>8, <1>9, <1>10, <1>11

\* One step of any call, of the admin who configures, or of the clock.
LEMMA DumpsStep ==
    ASSUME DumpsInv, AccountsAssumption, [Backup!Next]_backupVars
    PROVE  DumpsInv'
<1>1. CASE UNCHANGED backupVars
    BY <1>1 DEF backupVars, DumpsInv, BackupTypes, CallsListed, OldOnes, OwnNames, OwnCopies, Cleaning,
                Backup!SomethingToRestore, Backup!Name, Backup!Listed, Backup!Ok, Backup!Working
<1>2. CASE Backup!Next
  <2>1. CASE Backup!Configure
      BY <2>1, BackupConfigures
  <2>2. CASE Backup!Tick
      BY <2>2, BackupTicks
  <2>3. CASE ~Backup!Configure /\ ~Backup!Tick
      BY <1>2, <2>3, BackupCall DEF Backup!Next
  <2> QED BY <2>1, <2>2, <2>3
<1> QED BY <1>1, <1>2

\* Whatever fails, a whole dump as new as the newest one on record is in the
\* bucket (run_backup, cleanup_expired_backups).
THEOREM DumpStays == AccountsSpec => []BackupInv
<1> DEFINE Held == component = "backup" => DumpsInv
<1> USE AccountsAssumption
<1>1. AccountsInit => Held
    BY BackupStart DEF AccountsInit
<1>2. Held /\ [AccountsNext]_accountsVars => Held'
  <2> SUFFICES ASSUME Held, [AccountsNext]_accountsVars, component' = "backup" PROVE DumpsInv'
      OBVIOUS
  <2>1. component = "backup" /\ [Backup!Next]_backupVars
      BY DEF AccountsNext, accountsVars, jobs
  <2> QED BY <2>1, DumpsStep
<1>3. Held => BackupInv
  <2>1. ASSUME DumpsInv PROVE Backup!BackupTypeOK
      BY <2>1 DEF DumpsInv, BackupTypes, BackupRuns, Copies, Backup!BackupTypeOK
  <2> QED BY <2>1 DEF BackupInv, Backup!BackupInv, DumpsInv
<1> QED BY <1>1, <1>2, <1>3, PTL DEF AccountsSpec

-----------------------------------------------------------------------------
(* Push: a pass is accounted for.                                          *)

PushEntries == [token : PushTokens, pass : Int, result : {"ok", "unknown", "argument", "failed"}]
PassStages == {"idle", "next", "apple", "logApple", "google", "logGoogle", "done"}
PassStates == [stage : PassStages, left : SUBSET Users, user : SUBSET Users, batch : SUBSET PushTokens,
               results : SUBSET PushEntries, logs : SUBSET PushEntries, removed : SUBSET PushTokens,
               failed : BOOLEAN]
Preferences == [stored : BOOLEAN, type : BOOLEAN, optOut : BOOLEAN]

PushTypes ==
    /\ tokens \subseteq PushTokens /\ valid \subseteq PushTokens /\ steady \subseteq PushTokens
    /\ accounts \subseteq Users /\ prefs \in [Users -> Preferences]
    /\ logs \subseteq PushEntries /\ sent \subseteq [token : PushTokens, pass : Int]
    /\ pass \in PassStates /\ passes \in 0..MaxPasses

Entries == pass.results \cup pass.logs
PushTo(t) == [token |-> t, pass |-> passes]
Failures == {"failed", "argument"}
Busy == pass.stage \notin {"idle", "done"}
InBatch == pass.stage \in {"apple", "logApple", "google", "logGoogle"}

\* What the pass still has to come to.
Ahead == {t \in PushTokens : \/ OwnerOf[t] \in pass.left
                             \/ pass.stage = "apple" /\ t \in pass.batch
                             \/ pass.stage \in {"logApple", "google"} /\ t \in pass.batch \ Apple}

\* Tokens and logs belong to accounts that exist.
OwnersExist ==
    /\ \A t \in tokens : OwnerOf[t] \in accounts
    /\ \A l \in logs \cup pass.logs : OwnerOf[l.token] \in accounts

\* What is removed, or about to be, is not valid or had an invalid argument; a
\* steady token is valid, and there until the pass removes it.
TokensSound ==
    /\ \A t \in pass.removed \cap valid : t \notin Apple /\ \E e \in pass.logs : e.token = t /\ e.result = "argument"
    /\ \A e \in pass.results :
          /\ e.result = "unknown" => e.token \notin valid
          /\ e.result = "argument" => e.token \notin Apple
    /\ \A t \in steady : t \in valid /\ prefs[OwnerOf[t]].type = TRUE /\ (Busy => t \in tokens)

\* The batch is of one user, whom the pass has come to.
OneUser ==
    /\ ~Busy => pass.left = {} /\ Entries = {} /\ pass.removed = {} /\ ~pass.failed
    /\ InBatch => /\ \A t \in pass.batch : OwnerOf[t] \in pass.user
                  /\ \A u, v \in pass.user : u = v
                  /\ pass.user \cap pass.left = {}
                  /\ \A e \in pass.results : e.token \in pass.batch
    /\ ~pass.failed /\ pass.stage \in {"next", "apple", "google"} => pass.results = {}
    /\ pass.failed => pass.stage = "next"

\* Nothing is known yet of the tokens ahead, and all that is known is of this pass.
AheadIsNew ==
    /\ \A t \in Ahead : PushTo(t) \notin sent /\ \A e \in Entries : e.token # t
    /\ \A e \in Entries : e.pass = passes
    /\ \A s \in sent : s.pass <= passes
    /\ \A l \in logs : l.pass <= passes /\ (Busy => l.pass < passes)

EntriesTrue ==
    \A e \in logs \cup Entries :
        LET delivered == [token |-> e.token, pass |-> e.pass] \in sent
        IN  (e.result = "ok" => delivered) /\ (e.result \in {"unknown", "argument"} => ~delivered)

\* As long as no account goes, a steady token is ahead or it has its push or
\* the log of a failure, and a push has its log.
NobodyLeftOut ==
    pass.stage # "idle" /\ ~disturbed =>
        /\ ~pass.failed
        /\ pass.left \subseteq accounts
        /\ InBatch => pass.user \subseteq accounts
        /\ \A t \in steady : \/ t \in Ahead \/ PushTo(t) \in sent
                             \/ \E e \in logs \cup Entries : e.token = t /\ e.pass = passes /\ e.result \in Failures
        /\ \A s \in sent : s.pass = passes => \E e \in logs \cup Entries : e.token = s.token /\ e.pass = passes

PassInv ==
    /\ PushTypes /\ OwnersExist /\ TokensSound /\ OneUser /\ AheadIsNew /\ EntriesTrue /\ NobodyLeftOut

LEMMA PassStart == ASSUME AccountsAssumption, Push!Init PROVE PassInv
<1>1. /\ tokens \in SUBSET PushTokens /\ valid = PushTokens /\ prefs = [u \in Users |-> Push!NoPrefs]
      /\ accounts = Users /\ logs = {} /\ pass = Push!Idle /\ passes = 0 /\ sent = {} /\ steady = {}
    BY DEF Push!Init
<1>2. /\ pass.stage = "idle" /\ pass.left = {} /\ pass.results = {} /\ pass.logs = {} /\ pass.removed = {}
      /\ pass.failed = FALSE
    BY <1>1 DEF Push!Idle
<1>3. Push!Idle \in PassStates /\ Push!NoPrefs \in Preferences
    BY DEF Push!Idle, PassStates, PassStages, Push!NoPrefs, Preferences
<1>4. PushTypes
    BY <1>1, <1>3 DEF PushTypes, AccountsAssumption
<1>5. OwnersExist
    BY <1>1, <1>2 DEF OwnersExist, AccountsAssumption
<1>6. TokensSound /\ EntriesTrue
    BY <1>1, <1>2 DEF TokensSound, EntriesTrue, Entries
<1>7. OneUser /\ AheadIsNew /\ NobodyLeftOut
    BY <1>1, <1>2 DEF OneUser, AheadIsNew, NobodyLeftOut, Ahead, Entries, Busy, InBatch
<1> QED BY <1>4, <1>5, <1>6, <1>7 DEF PassInv

\* What happens outside the pass: tokens and accounts go, and nothing steady comes.
LEMMA PassOutside ==
    ASSUME PassInv, UNCHANGED <<pass, passes, sent>>, PushTypes', OwnersExist', TokensSound',
           logs' \subseteq logs, steady' \subseteq steady,
           ~disturbed' => ~disturbed /\ UNCHANGED <<accounts, logs>>
    PROVE  PassInv'
<1>1. (Ahead' = Ahead) /\ (Entries' = Entries) /\ (Busy' <=> Busy) /\ (InBatch' <=> InBatch)
    BY DEF Ahead, Entries, Busy, InBatch
<1>2. OneUser'
    BY <1>1 DEF PassInv, OneUser
<1>3. AheadIsNew'
    BY <1>1 DEF PassInv, AheadIsNew, PushTo
<1>4. EntriesTrue'
    BY <1>1 DEF PassInv, EntriesTrue
<1>5. NobodyLeftOut'
    BY <1>1 DEF PassInv, NobodyLeftOut, PushTo
<1> QED BY <1>2, <1>3, <1>4, <1>5 DEF PassInv

LEMMA PassAlone ==
    ASSUME PassInv, AccountsAssumption, NEW t \in PushTokens,
           Push!Register(t) \/ Push!Unregister(t) \/ Push!Invalidate(t)
    PROVE  PassInv'
<1>1. UNCHANGED <<prefs, accounts, logs, pass, passes, sent, disturbed>>
    BY DEF Push!Register, Push!Unregister, Push!Invalidate
<1>2. /\ tokens' \subseteq PushTokens /\ valid' \subseteq valid /\ steady' \subseteq steady
      /\ \A q \in tokens' : OwnerOf[q] \in accounts
      /\ \A q \in steady' : q \in valid' /\ (Busy => q \in tokens')
    BY DEF Push!Register, Push!Unregister, Push!Invalidate, PassInv, PushTypes, OwnersExist, TokensSound
<1>3. PushTypes'
    BY <1>1, <1>2 DEF PassInv, PushTypes
<1>4. OwnersExist'
    BY <1>1, <1>2 DEF PassInv, OwnersExist
<1>5. TokensSound'
    BY <1>1, <1>2 DEF PassInv, TokensSound, Busy
<1> QED BY <1>1, <1>2, <1>3, <1>4, <1>5, PassOutside

LEMMA PassPrefs ==
    ASSUME PassInv, AccountsAssumption, NEW u \in Users,
           Push!SetType(u, TRUE) \/ Push!SetType(u, FALSE) \/ Push!OptOut(u)
    PROVE  PassInv'
<1>1. UNCHANGED <<tokens, valid, accounts, logs, pass, passes, sent, disturbed>>
    BY DEF Push!SetType, Push!OptOut
<1>2. /\ prefs' \in [Users -> Preferences] /\ steady' \subseteq steady
      /\ \A t \in steady' : prefs'[OwnerOf[t]].type = prefs[OwnerOf[t]].type
  <2>1. ASSUME NEW on \in BOOLEAN, Push!SetType(u, on)
        PROVE  /\ prefs' \in [Users -> Preferences] /\ steady' = {t \in steady : OwnerOf[t] # u}
               /\ \A v \in Users \ {u} : prefs'[v] = prefs[v]
    <3>1. prefs' = [prefs EXCEPT ![u] = [prefs[u] EXCEPT !.stored = TRUE, !.type = on]]
        BY <2>1 DEF Push!SetType
    <3>2. [prefs[u] EXCEPT !.stored = TRUE, !.type = on] \in Preferences
        BY DEF PassInv, PushTypes, Preferences
    <3> QED BY <2>1, <3>1, <3>2 DEF Push!SetType, PassInv, PushTypes
  <2>2. ASSUME Push!OptOut(u)
        PROVE  /\ prefs' \in [Users -> Preferences] /\ steady' = steady
               /\ \A v \in Users : prefs'[v].type = prefs[v].type
    <3>1. prefs' = [prefs EXCEPT ![u] = IF prefs[u].stored THEN [prefs[u] EXCEPT !.optOut = TRUE]
                                        ELSE [prefs[u] EXCEPT !.stored = TRUE]]
        BY <2>2 DEF Push!OptOut
    <3>2. /\ [prefs[u] EXCEPT !.optOut = TRUE] \in Preferences /\ [prefs[u] EXCEPT !.stored = TRUE] \in Preferences
          /\ [prefs[u] EXCEPT !.optOut = TRUE].type = prefs[u].type
          /\ [prefs[u] EXCEPT !.stored = TRUE].type = prefs[u].type
        BY DEF PassInv, PushTypes, Preferences
    <3> QED BY <2>2, <3>1, <3>2 DEF Push!OptOut, PassInv, PushTypes
  <2> QED BY <2>1, <2>2 DEF PassInv, PushTypes, AccountsAssumption
<1>3. PushTypes'
    BY <1>1, <1>2 DEF PassInv, PushTypes
<1>4. OwnersExist'
    BY <1>1 DEF PassInv, OwnersExist
<1>5. TokensSound'
    BY <1>1, <1>2 DEF PassInv, TokensSound, Busy
<1> QED BY <1>1, <1>2, <1>3, <1>4, <1>5, PassOutside

LEMMA PassErase == ASSUME PassInv, NEW u \in Users, Push!Erase(u) PROVE PassInv'
<1>1. /\ UNCHANGED <<valid, pass, passes, sent>> /\ disturbed' = TRUE
      /\ accounts' = accounts \ {u} /\ tokens' = {t \in tokens : OwnerOf[t] # u}
      /\ logs' = {l \in logs : OwnerOf[l.token] # u} /\ steady' = {t \in steady : OwnerOf[t] # u}
      /\ prefs' = [prefs EXCEPT ![u] = Push!NoPrefs] /\ \A l \in pass.logs : OwnerOf[l.token] # u
    BY DEF Push!Erase
<1>2. prefs' \in [Users -> Preferences] /\ \A v \in Users \ {u} : prefs'[v] = prefs[v]
  <2>1. Push!NoPrefs \in Preferences
      BY DEF Push!NoPrefs, Preferences
  <2> QED BY <1>1, <2>1 DEF PassInv, PushTypes
<1>3. prefs'[u].type = TRUE
    BY <1>1 DEF PassInv, PushTypes, Push!NoPrefs
<1>4. PushTypes'
    BY <1>1, <1>2 DEF PassInv, PushTypes
<1>5. OwnersExist'
    BY <1>1 DEF PassInv, OwnersExist
<1>6. TokensSound'
  <2>1. \A t \in steady' : OwnerOf[t] # u => prefs'[OwnerOf[t]] = prefs[OwnerOf[t]]
      BY <1>1 DEF PassInv, PushTypes
  <2> QED BY <1>1, <2>1 DEF PassInv, TokensSound, Busy
<1> QED BY <1>1, <1>4, <1>5, <1>6, PassOutside

\* The pass is over: nothing of it is left.
LEMMA PassOver ==
    ASSUME PassInv, NEW s \in {"idle", "done"}, UNCHANGED <<prefs, accounts, valid, passes, sent, steady>>,
           pass' = [Push!Idle EXCEPT !.stage = s], tokens' \subseteq tokens,
           logs \subseteq logs', logs' \subseteq logs \cup pass.logs, s = "done" => NobodyLeftOut'
    PROVE  PassInv'
<1>1. /\ pass'.stage = s /\ pass'.left = {} /\ pass'.results = {} /\ pass'.logs = {} /\ pass'.removed = {}
      /\ pass'.failed = FALSE /\ pass' \in PassStates
    BY DEF Push!Idle, PassStates, PassStages
<1>2. PushTypes'
    BY <1>1 DEF PassInv, PushTypes, PassStates
<1>3. OwnersExist'
    BY <1>1 DEF PassInv, OwnersExist
<1>4. TokensSound'
    BY <1>1 DEF PassInv, TokensSound, Busy
<1>5. (Entries' = {}) /\ ~Busy' /\ ~InBatch' /\ (Ahead' = {})
    BY <1>1 DEF Entries, Busy, InBatch, Ahead
<1>6. OneUser'
    BY <1>1, <1>5 DEF OneUser
<1>7. AheadIsNew'
    BY <1>5 DEF PassInv, AheadIsNew, PushTypes, Entries
<1>8. EntriesTrue'
    BY <1>5 DEF PassInv, EntriesTrue, Entries
<1>9. NobodyLeftOut'
    BY <1>1 DEF NobodyLeftOut
<1> QED BY <1>2, <1>3, <1>4, <1>6, <1>7, <1>8, <1>9 DEF PassInv

\* Everybody is ahead of the pass that starts.
LEMMA PassStarts == ASSUME PassInv, AccountsAssumption, Push!Start PROVE PassInv'
<1>1. /\ UNCHANGED <<tokens, valid, prefs, accounts, logs, sent>> /\ ~disturbed'
      /\ passes' = passes + 1 /\ passes < MaxPasses /\ pass.stage = "idle"
      /\ steady' = {t \in tokens \cap valid : prefs[OwnerOf[t]].type}
      /\ pass' = [Push!Idle EXCEPT !.stage = "next", !.left = accounts]
    BY DEF Push!Start
<1>2. /\ pass'.stage = "next" /\ pass'.left = accounts /\ pass'.results = {} /\ pass'.logs = {}
      /\ pass'.removed = {} /\ pass'.failed = FALSE
    BY <1>1 DEF Push!Idle
<1>3. pass' \in PassStates
    BY <1>1 DEF Push!Idle, PassStates, PassStages, PassInv, PushTypes
<1>4. passes' \in 0..MaxPasses /\ passes \in Int /\ (passes' = passes + 1)
    BY <1>1 DEF PassInv, PushTypes, AccountsAssumption
<1>5. PushTypes'
    BY <1>1, <1>3, <1>4 DEF PassInv, PushTypes
<1>6. OwnersExist'
    BY <1>1, <1>2 DEF PassInv, OwnersExist
<1>7. TokensSound'
  <2>1. \A u \in Users : prefs[u].type \in BOOLEAN
      BY DEF PassInv, PushTypes, Preferences
  <2> QED BY <1>1, <1>2, <2>1 DEF PassInv, TokensSound, PushTypes, AccountsAssumption
<1>8. (Entries' = {}) /\ Busy' /\ ~InBatch' /\ ~Busy
    BY <1>1, <1>2 DEF Entries, Busy, InBatch
<1>9. OneUser'
    BY <1>2, <1>8 DEF OneUser
<1>10. AheadIsNew'
  <2>1. \A s \in sent : s.pass \in Int /\ s.pass <= passes
      BY DEF PassInv, AheadIsNew, PushTypes
  <2>2. \A l \in logs : l.pass \in Int /\ l.pass <= passes
      BY DEF PassInv, AheadIsNew, PushTypes, PushEntries
  <2>3. \A t \in PushTokens : PushTo(t)' \notin sent
      BY <1>4, <2>1 DEF PushTo
  <2>4. Ahead' \subseteq PushTokens
      BY DEF Ahead
  <2> QED BY <1>1, <1>4, <1>8, <2>1, <2>2, <2>3, <2>4 DEF AheadIsNew
<1>11. EntriesTrue'
    BY <1>1, <1>8 DEF PassInv, EntriesTrue
<1>12. NobodyLeftOut'
  <2>1. \A t \in tokens : t \in Ahead'
      BY <1>2 DEF Ahead, PassInv, OwnersExist, PushTypes
  <2>2. \A s \in sent : s.pass # passes'
      BY <1>4 DEF PassInv, AheadIsNew, PushTypes
  <2> QED BY <1>1, <1>2, <1>8, <2>1, <2>2 DEF NobodyLeftOut
<1> QED BY <1>5, <1>6, <1>7, <1>9, <1>10, <1>11, <1>12 DEF PassInv

\* A user is passed over who has no token, or wants none, or after a failure.
LEMMA PassSkips ==
    ASSUME PassInv, NEW u \in Users, pass.stage = "next", pass' = [pass EXCEPT !.left = @ \ {u}],
           pass.failed \/ prefs[u].type # TRUE \/ Push!Seen(u) = {},
           UNCHANGED <<tokens, valid, prefs, accounts, logs, passes, sent, steady, disturbed>>
    PROVE  PassInv'
<1>1. /\ pass' \in PassStates /\ pass'.left = pass.left \ {u} /\ pass'.stage = "next" /\ pass'.results = pass.results
      /\ pass'.logs = pass.logs /\ pass'.removed = pass.removed /\ pass'.failed = pass.failed
    BY DEF PassInv, PushTypes, PassStates
<1>2. (Entries' = Entries) /\ Busy /\ Busy' /\ ~InBatch' /\ Ahead' \subseteq Ahead
    BY <1>1 DEF Entries, Busy, InBatch, Ahead
<1>3. \A t \in Ahead \ Ahead' : OwnerOf[t] = u
    BY <1>1 DEF Ahead
<1>4. PushTypes'
    BY <1>1 DEF PassInv, PushTypes
<1>5. OwnersExist' /\ TokensSound' /\ EntriesTrue'
    BY <1>1, <1>2 DEF PassInv, OwnersExist, TokensSound, EntriesTrue
<1>6. OneUser'
    BY <1>1, <1>2 DEF PassInv, OneUser
<1>7. AheadIsNew'
    BY <1>1, <1>2 DEF PassInv, AheadIsNew, PushTo
<1>8. NobodyLeftOut'
  <2>1. ASSUME NEW t \in steady, OwnerOf[t] = u, t \in Ahead PROVE prefs[u].type = TRUE /\ Push!Seen(u) # {}
      BY <1>2, <2>1 DEF PassInv, TokensSound, AheadIsNew, Entries, Push!Seen
  <2>2. ~disturbed => \A t \in steady : t \in Ahead => t \in Ahead'
      BY <1>3, <2>1 DEF PassInv, NobodyLeftOut
  <2> QED BY <1>1, <1>2, <2>2 DEF PassInv, NobodyLeftOut, PushTo
<1> QED BY <1>4, <1>5, <1>6, <1>7, <1>8 DEF PassInv

LEMMA PassTakes ==
    ASSUME PassInv, NEW u \in pass.left, pass.stage = "next", ~pass.failed,
           pass' = [pass EXCEPT !.left = @ \ {u}, !.user = {u}, !.batch = Push!Seen(u), !.stage = "apple"],
           UNCHANGED <<tokens, valid, prefs, accounts, logs, passes, sent, steady, disturbed>>
    PROVE  PassInv'
<1>1. /\ pass'.left = pass.left \ {u} /\ pass'.stage = "apple" /\ pass'.results = pass.results
      /\ pass'.logs = pass.logs /\ pass'.removed = pass.removed /\ pass'.failed = pass.failed
      /\ pass'.user = {u} /\ pass'.batch = {t \in tokens \ pass.removed : OwnerOf[t] = u}
    BY DEF PassInv, PushTypes, PassStates, Push!Seen
<1>2. pass' \in PassStates
  <2>1. Push!Seen(u) \subseteq PushTokens /\ u \in Users
      BY DEF Push!Seen, PassInv, PushTypes, PassStates
  <2> QED BY <2>1 DEF PassInv, PushTypes, PassStates, PassStages
<1>3. (Entries' = Entries) /\ Busy /\ Busy' /\ InBatch'
    BY <1>1 DEF Entries, Busy, InBatch
<1>4. Ahead' \subseteq Ahead
    BY <1>1 DEF Ahead, PassInv, PushTypes
<1>5. PushTypes'
    BY <1>2 DEF PassInv, PushTypes
<1>6. OwnersExist' /\ TokensSound' /\ EntriesTrue'
    BY <1>1, <1>3 DEF PassInv, OwnersExist, TokensSound, EntriesTrue
<1>7. OneUser'
    BY <1>1, <1>3 DEF PassInv, OneUser
<1>8. AheadIsNew'
    BY <1>1, <1>3, <1>4 DEF PassInv, AheadIsNew, PushTo
<1>9. NobodyLeftOut'
  <2>1. ASSUME NEW t \in steady, t \in Ahead PROVE t \in Ahead'
    <3>1. t \in tokens /\ t \notin pass.removed /\ t \in PushTokens
        BY <1>3, <2>1 DEF PassInv, TokensSound, PushTypes, AheadIsNew, Entries
    <3>2. OwnerOf[t] \in pass.left
        BY <2>1 DEF Ahead
    <3> QED BY <1>1, <3>1, <3>2 DEF Ahead
  <2> QED BY <1>1, <1>3, <2>1 DEF PassInv, NobodyLeftOut, PushTo
<1> QED BY <1>5, <1>6, <1>7, <1>8, <1>9 DEF PassInv

\* Part of the batch is sent, and the answers are true; only Android's have an
\* invalid argument.
PassSent(part, to, results, s) ==
    /\ \/ pass.stage = "apple" /\ part = pass.batch \cap Apple /\ s = "logApple"
       \/ pass.stage = "google" /\ part = pass.batch \ Apple /\ s = "logGoogle"
    /\ pass' = [pass EXCEPT !.stage = s, !.results = results]
    /\ to \subseteq part \cap valid /\ sent' = sent \cup {PushTo(t) : t \in to}
    /\ results \subseteq PushEntries /\ \A e \in results : e.token \in part /\ e.pass = passes
    /\ \A t \in part : \E e \in results : e.token = t
    /\ \A e \in results :
          /\ e.result = "ok" => e.token \in to
          /\ e.result = "unknown" => e.token \notin valid
          /\ e.result = "argument" => e.token \notin Apple /\ e.token \notin to
          /\ e.token \in valid => e.token \in to \/ e.result \in Failures
    /\ UNCHANGED <<tokens, valid, prefs, accounts, logs, passes, steady, disturbed>>

LEMMA PassSends ==
    ASSUME PassInv, NEW part, NEW to, NEW results, NEW s, PassSent(part, to, results, s)
    PROVE  PassInv'
<1> USE DEF PassSent
<1>0. ~pass.failed /\ pass.results = {} /\ Busy /\ InBatch /\ pass.batch \subseteq PushTokens
    BY DEF PassInv, OneUser, Busy, InBatch, PushTypes, PassStates
<1>1. /\ pass'.left = pass.left /\ pass'.stage = s /\ pass'.results = results
      /\ pass'.logs = pass.logs /\ pass'.removed = pass.removed /\ pass'.failed = pass.failed
      /\ pass'.user = pass.user /\ pass'.batch = pass.batch
    BY DEF PassInv, PushTypes, PassStates
<1>2. pass' \in PassStates
    BY DEF PassInv, PushTypes, PassStates, PassStages
<1>3. (Entries' = Entries \cup results) /\ Busy' /\ InBatch' /\ Entries = pass.logs
    BY <1>0, <1>1 DEF Entries, Busy, InBatch
<1>4. part \subseteq Ahead /\ (Ahead' = Ahead \ part)
  <2>1. \A t \in part : OwnerOf[t] \notin pass.left /\ t \in pass.batch
      BY <1>0 DEF PassInv, OneUser, InBatch
  <2>2. CASE pass.stage = "apple"
      BY <1>0, <1>1, <2>1, <2>2 DEF Ahead
  <2>3. CASE pass.stage = "google"
      BY <1>0, <1>1, <2>1, <2>3 DEF Ahead
  <2> QED BY <2>2, <2>3
<1>5. part \subseteq PushTokens /\ passes \in Int
    BY <1>0 DEF PassInv, PushTypes
<1>6. \A e \in sent' : e \in sent \/ \E t \in to : e = PushTo(t)
    OBVIOUS
<1>7. PushTypes'
  <2>1. sent' \subseteq [token : PushTokens, pass : Int]
      BY <1>5, <1>6 DEF PassInv, PushTypes, PushTo
  <2> QED BY <1>2, <2>1 DEF PassInv, PushTypes
<1>8. OwnersExist' /\ TokensSound'
    BY <1>0, <1>1 DEF PassInv, OwnersExist, TokensSound
<1>9. OneUser'
    BY <1>0, <1>1, <1>3 DEF PassInv, OneUser
<1>10. AheadIsNew'
  <2>1. \A t \in Ahead' : PushTo(t)' \notin sent' /\ \A e \in Entries' : e.token # t
    <3>1. SUFFICES ASSUME NEW t \in Ahead' PROVE PushTo(t) \notin sent' /\ \A e \in Entries' : e.token # t
        BY DEF PushTo
    <3>2. t \in Ahead /\ t \notin part
        BY <1>4, <3>1
    <3>3. PushTo(t) \notin sent /\ \A e \in Entries : e.token # t
        BY <3>2 DEF PassInv, AheadIsNew
    <3>4. \A q \in to : PushTo(q) # PushTo(t)
        BY <3>2 DEF PushTo
    <3> QED BY <1>3, <3>2, <3>3, <3>4
  <2>2. \A e \in sent' : e.pass <= passes
      BY <1>5, <1>6 DEF PassInv, AheadIsNew, PushTo
  <2> QED BY <1>3, <2>1, <2>2, <1>0 DEF PassInv, AheadIsNew
<1>11. EntriesTrue'
  <2> SUFFICES ASSUME NEW e \in logs \cup Entries'
               PROVE  LET delivered == [token |-> e.token, pass |-> e.pass] \in sent'
                      IN  (e.result = "ok" => delivered) /\ (e.result \in {"unknown", "argument"} => ~delivered)
      BY DEF EntriesTrue
  <2> DEFINE d == [token |-> e.token, pass |-> e.pass]
  <2>1. CASE e \in results
    <3>1. d = PushTo(e.token) /\ e.token \in Ahead
        BY <1>4, <2>1 DEF PushTo
    <3>2. d \notin sent
        BY <3>1 DEF PassInv, AheadIsNew
    <3>3. e.result = "ok" => d \in sent'
        BY <2>1, <3>1
    <3>4. e.result \in {"unknown", "argument"} => d \notin sent'
      <4>1. SUFFICES ASSUME e.result \in {"unknown", "argument"}, NEW t \in to, d = PushTo(t) PROVE FALSE
          BY <1>6, <3>2
      <4>2. t = e.token
          BY <4>1 DEF PushTo
      <4> QED BY <2>1, <4>1, <4>2
    <3> QED BY <3>3, <3>4
  <2>2. CASE e \notin results
    <3>1. e \in logs \cup Entries
        BY <1>3, <2>2
    <3>2. d \in sent' <=> d \in sent
      <4>1. SUFFICES ASSUME NEW t \in to, d = PushTo(t) PROVE FALSE
          BY <1>6
      <4>2. e.token = t /\ e.pass = passes
          BY <4>1 DEF PushTo
      <4>3. e \in Entries
          BY <1>0, <1>5, <3>1, <4>2 DEF PassInv, AheadIsNew
      <4>4. t \in Ahead
          BY <1>4
      <4> QED BY <4>2, <4>3, <4>4 DEF PassInv, AheadIsNew
    <3> QED BY <3>1, <3>2 DEF PassInv, EntriesTrue
  <2> QED BY <2>1, <2>2
<1>12. NobodyLeftOut'
  <2>1. SUFFICES ASSUME ~disturbed
                 PROVE  /\ ~pass'.failed
                        /\ pass'.left \subseteq accounts
                        /\ pass'.user \subseteq accounts
                        /\ \A t \in steady :
                              \/ t \in Ahead' \/ PushTo(t) \in sent'
                              \/ \E e \in logs \cup Entries' : e.token = t /\ e.pass = passes /\ e.result \in Failures
                        /\ \A q \in sent' : q.pass = passes =>
                              \E e \in logs \cup Entries' : e.token = q.token /\ e.pass = passes
      BY DEF NobodyLeftOut, PushTo
  <2>2. pass.stage # "idle"
      BY <1>0 DEF Busy
  <2>3. ~pass'.failed /\ pass'.left \subseteq accounts /\ pass'.user \subseteq accounts
      BY <1>0, <1>1, <2>1, <2>2 DEF PassInv, NobodyLeftOut
  <2>4. ASSUME NEW t \in steady
        PROVE  \/ t \in Ahead' \/ PushTo(t) \in sent'
               \/ \E e \in logs \cup Entries' : e.token = t /\ e.pass = passes /\ e.result \in Failures
    <3>1. CASE t \in part
      <4>1. t \in valid
          BY <2>4 DEF PassInv, TokensSound
      <4> QED BY <1>3, <3>1, <4>1
    <3>2. CASE t \notin part
        BY <1>3, <1>4, <2>1, <2>2, <3>2 DEF PassInv, NobodyLeftOut
    <3> QED BY <3>1, <3>2
  <2>5. ASSUME NEW q \in sent', q.pass = passes
        PROVE  \E e \in logs \cup Entries' : e.token = q.token /\ e.pass = passes
    <3>1. CASE q \in sent
        BY <1>3, <2>1, <2>2, <2>5, <3>1 DEF PassInv, NobodyLeftOut
    <3>2. CASE \E t \in to : q = PushTo(t)
        BY <1>3, <3>2 DEF PushTo
    <3> QED BY <1>6, <2>5, <3>1, <3>2
  <2> QED BY <2>3, <2>4, <2>5
<1> QED BY <1>7, <1>8, <1>9, <1>10, <1>11, <1>12 DEF PassInv

\* What a call to a provider answers, and what arrives.
LEMMA PassAnswered ==
    ASSUME PassInv, NEW part, NEW s, NEW answer, NEW late,
           \/ pass.stage = "apple" /\ part = pass.batch \cap Apple /\ s = "logApple"
           \/ pass.stage = "google" /\ part = pass.batch \ Apple /\ s = "logGoogle",
           answer \in [part -> {"ok", "unknown", "argument", "failed"}], Push!Truthful(answer),
           pass.stage = "apple" => \A t \in part : answer[t] # "argument",
           late \subseteq {t \in part \cap valid : answer[t] = "failed"},
           Push!Answered(answer, late),
           UNCHANGED <<tokens, valid, prefs, accounts, logs, passes, steady, disturbed>>
    PROVE  PassInv'
<1> DEFINE results == {Push!Entry(t, answer[t]) : t \in part}
           to == {t \in part : answer[t] = "ok" \/ t \in late}
<1>1. part \subseteq PushTokens /\ passes \in Int /\ DOMAIN answer = part
    BY DEF PassInv, PushTypes, PassStates
<1>2. sent' = sent \cup {PushTo(t) : t \in to}
    BY <1>1 DEF Push!Answered, PushTo
<1>3. \A e \in results : \E t \in part : e = [token |-> t, pass |-> passes, result |-> answer[t]]
    BY DEF Push!Entry
<1>4. \A t \in part : \E e \in results : e.token = t
  <2>1. \A t \in part : Push!Entry(t, answer[t]).token = t
      BY DEF Push!Entry
  <2> QED BY <2>1
<1>5. results \subseteq PushEntries
    BY <1>1, <1>3 DEF PushEntries
<1>6. pass' = [pass EXCEPT !.stage = s, !.results = results]
    BY <1>1 DEF Push!Answered
<1> HIDE DEF results
<1>7. \A t \in part : /\ answer[t] = "ok" => t \in valid
                      /\ answer[t] = "unknown" => t \notin valid
    BY <1>1 DEF Push!Truthful
<1>8. \A t \in part : answer[t] = "argument" => t \notin Apple
    OBVIOUS
<1>9. \A e \in results :
         /\ e.token \in part /\ e.pass = passes
         /\ e.result = "ok" => e.token \in to
         /\ e.result = "unknown" => e.token \notin valid
         /\ e.result = "argument" => e.token \notin Apple /\ e.token \notin to
         /\ e.token \in valid => e.token \in to \/ e.result \in Failures
    BY <1>3, <1>7, <1>8 DEF Failures
<1>10. to \subseteq part \cap valid
    BY <1>7
<1> HIDE DEF to
<1>11. PassSent(part, to, results, s)
    BY <1>2, <1>4, <1>5, <1>6, <1>9, <1>10 DEF PassSent
<1> QED BY <1>11, PassSends

LEMMA PassSendsBoth == ASSUME PassInv, Push!SendApple \/ Push!SendGoogle PROVE PassInv'
<1>1. SUFFICES ASSUME NEW part, NEW s, NEW errors \in {{"failed"}, {"failed", "argument"}},
                      \/ pass.stage = "apple" /\ part = pass.batch \cap Apple /\ s = "logApple" /\ errors = {"failed"}
                      \/ pass.stage = "google" /\ part = pass.batch \ Apple /\ s = "logGoogle",
                      Push!Send(part, errors)
               PROVE  PassInv'
    BY DEF Push!SendApple, Push!SendGoogle
<1>2. UNCHANGED <<tokens, valid, prefs, accounts, logs, passes, steady, disturbed>>
    BY <1>1 DEF Push!Send
<1>3. CASE Push!Answered([t \in part |-> IF t \in valid THEN "ok" ELSE "unknown"], {})
  <2> DEFINE answer == [t \in part |-> IF t \in valid THEN "ok" ELSE "unknown"]
  <2>1. /\ answer \in [part -> {"ok", "unknown", "argument", "failed"}] /\ Push!Truthful(answer)
        /\ \A t \in part : answer[t] # "argument"
      BY DEF Push!Truthful
  <2>2. Push!Answered(answer, {}) /\ {} \subseteq {t \in part \cap valid : answer[t] = "failed"}
      BY <1>3
  <2> HIDE DEF answer
  <2> QED BY <1>1, <1>2, <2>1, <2>2, PassAnswered
<1>4. CASE \E answer \in [part -> {"ok", "unknown"} \cup errors] :
              /\ Push!Truthful(answer)
              /\ \E late \in SUBSET {t \in part \cap valid : answer[t] = "failed"} : Push!Answered(answer, late)
  <2>1. PICK answer \in [part -> {"ok", "unknown"} \cup errors] :
              /\ Push!Truthful(answer)
              /\ \E late \in SUBSET {t \in part \cap valid : answer[t] = "failed"} : Push!Answered(answer, late)
      BY <1>4
  <2>2. /\ answer \in [part -> {"ok", "unknown", "argument", "failed"}]
        /\ pass.stage = "apple" => \A t \in part : answer[t] # "argument"
      BY <1>1
  <2> QED BY <1>1, <1>2, <2>1, <2>2, PassAnswered
<1> QED BY <1>1, <1>3, <1>4 DEF Push!Send

\* The results are logged, and what had a permanent error is removed.
LEMMA PassLogs ==
    ASSUME PassInv, Push!LogResults, ~Push!Orphan
    PROVE  PassInv'
<1> DEFINE s == IF pass.stage = "logApple" THEN "google" ELSE "next"
<1>1. /\ pass.stage \in {"logApple", "logGoogle"}
      /\ pass' = [pass EXCEPT !.stage = s, !.logs = @ \cup pass.results,
                              !.removed = @ \cup Push!ToRemove(pass.results), !.results = {}]
      /\ UNCHANGED <<tokens, valid, prefs, accounts, logs, passes, sent, steady, disturbed>>
    BY DEF Push!LogResults, Push!Logged
<1>2. /\ Push!ToRemove(pass.results) \subseteq PushTokens
      /\ \A t \in Push!ToRemove(pass.results) \cap valid :
            t \notin Apple /\ \E e \in pass.results : e.token = t /\ e.result = "argument"
  <2>1. ASSUME NEW t \in Push!ToRemove(pass.results)
        PROVE  \E e \in pass.results : e.token = t /\ (e.result = "unknown" \/ e.result = "argument")
      BY <2>1 DEF Push!ToRemove
  <2>2. \A e \in pass.results : e.token \in PushTokens
      BY DEF PassInv, PushTypes, PassStates, PushEntries
  <2> QED BY <2>1, <2>2 DEF PassInv, TokensSound
<1>3. /\ pass'.left = pass.left /\ pass'.stage = s /\ pass'.results = {} /\ pass'.logs = pass.logs \cup pass.results
      /\ pass'.removed = pass.removed \cup Push!ToRemove(pass.results) /\ pass'.failed = pass.failed
      /\ pass'.user = pass.user /\ pass'.batch = pass.batch
    BY <1>1 DEF PassInv, PushTypes, PassStates
<1>4. pass' \in PassStates
  <2>1. s \in PassStages
      BY DEF PassStages
  <2> HIDE DEF s
  <2> QED BY <1>1, <1>2, <2>1 DEF PassInv, PushTypes, PassStates
<1>5. (Entries' = Entries) /\ Busy /\ Busy' /\ InBatch /\ ~pass.failed
    BY <1>1, <1>3 DEF Entries, Busy, InBatch, PassInv, OneUser
<1>6. Ahead' = Ahead
    BY <1>1, <1>3 DEF Ahead
<1>7. PushTypes'
    BY <1>1, <1>4 DEF PassInv, PushTypes
<1>8. OwnersExist'
  <2>1. \A e \in pass.results : OwnerOf[e.token] \in accounts
      BY <1>5 DEF Push!Orphan, PassInv, OneUser
  <2> QED BY <1>1, <1>3, <2>1 DEF PassInv, OwnersExist
<1>9. TokensSound'
    BY <1>1, <1>2, <1>3, <1>5 DEF PassInv, TokensSound
<1>10. OneUser'
    BY <1>1, <1>3, <1>5 DEF PassInv, OneUser, InBatch
<1>11. AheadIsNew'
    BY <1>1, <1>5, <1>6 DEF PassInv, AheadIsNew, PushTo
<1>12. EntriesTrue'
    BY <1>1, <1>5 DEF PassInv, EntriesTrue
<1>13. NobodyLeftOut'
  <2>1. InBatch' => InBatch
      BY <1>5
  <2> HIDE DEF s
  <2> QED BY <1>1, <1>3, <1>5, <1>6, <2>1 DEF PassInv, NobodyLeftOut, PushTo, Busy
<1> QED BY <1>7, <1>8, <1>9, <1>10, <1>11, <1>12, <1>13 DEF PassInv

\* An account has gone: the transaction fails from here on.
LEMMA PassFails ==
    ASSUME PassInv, Push!LogResults, Push!Orphan
    PROVE  PassInv'
<1>1. /\ pass.stage \in {"logApple", "logGoogle"}
      /\ pass' = [pass EXCEPT !.stage = "next", !.failed = TRUE]
      /\ UNCHANGED <<tokens, valid, prefs, accounts, logs, passes, sent, steady, disturbed>>
    BY DEF Push!LogResults
<1>2. /\ pass'.left = pass.left /\ pass'.stage = "next" /\ pass'.results = pass.results /\ pass'.logs = pass.logs
      /\ pass'.removed = pass.removed /\ pass'.failed = TRUE /\ pass' \in PassStates
    BY <1>1 DEF PassInv, PushTypes, PassStates, PassStages
<1>3. (Entries' = Entries) /\ Busy /\ Busy' /\ ~InBatch' /\ InBatch
    BY <1>1, <1>2 DEF Entries, Busy, InBatch
<1>4. Ahead' \subseteq Ahead
    BY <1>2 DEF Ahead
<1>5. disturbed
  <2>1. PICK e \in pass.results : OwnerOf[e.token] \in pass.user
      BY <1>3 DEF Push!Orphan, PassInv, OneUser
  <2>2. pass.user \cap accounts = {} /\ pass.stage # "idle"
      BY <1>1 DEF Push!Orphan
  <2> QED BY <1>3, <2>1, <2>2 DEF PassInv, NobodyLeftOut
<1>6. PushTypes'
    BY <1>1, <1>2 DEF PassInv, PushTypes
<1>7. OwnersExist' /\ TokensSound' /\ EntriesTrue'
    BY <1>1, <1>2, <1>3 DEF PassInv, OwnersExist, TokensSound, EntriesTrue
<1>8. OneUser'
    BY <1>2, <1>3 DEF OneUser
<1>9. AheadIsNew'
    BY <1>1, <1>3, <1>4 DEF PassInv, AheadIsNew, PushTo
<1>10. NobodyLeftOut'
    BY <1>1, <1>5 DEF NobodyLeftOut
<1> QED BY <1>6, <1>7, <1>8, <1>9, <1>10 DEF PassInv

LEMMA PassEnds == ASSUME PassInv, Push!Commit \/ Push!Finish \/ Push!Crash PROVE PassInv'
<1>1. CASE Push!Commit
  <2>1. /\ UNCHANGED <<valid, prefs, accounts, passes, sent, steady, disturbed>>
        /\ pass' = [Push!Idle EXCEPT !.stage = "done"] /\ pass.stage = "next" /\ pass.left = {}
      BY <1>1 DEF Push!Commit
  <2>2. IF pass.failed THEN tokens' = tokens /\ logs' = logs
        ELSE logs' = logs \cup pass.logs /\ tokens' = tokens \ pass.removed
      BY <1>1 DEF Push!Commit
  <2>3. tokens' \subseteq tokens
      BY <2>2
  <2>4. pass'.stage = "done" /\ pass'.left = {} /\ pass'.failed = FALSE
      BY <2>1 DEF Push!Idle
  <2>5. (Ahead = {}) /\ ~InBatch'
      BY <2>1, <2>4 DEF Ahead, InBatch
  <2>6. ~disturbed => logs' = logs \cup Entries
      BY <2>1, <2>2 DEF PassInv, NobodyLeftOut, OneUser, Entries
  <2>7. NobodyLeftOut'
    <3>1. CASE disturbed
        BY <2>1, <3>1 DEF NobodyLeftOut
    <3>2. CASE ~disturbed
        BY <2>1, <2>4, <2>5, <2>6, <3>2 DEF PassInv, NobodyLeftOut, PushTo
    <3> QED BY <3>1, <3>2
  <2>8. logs \subseteq logs' /\ logs' \subseteq logs \cup pass.logs
      BY <2>2
  <2> QED BY <2>1, <2>3, <2>7, <2>8, PassOver
<1>2. CASE Push!Finish
  <2>1. /\ UNCHANGED <<tokens, valid, prefs, accounts, logs, passes, sent, steady>>
        /\ pass' = [Push!Idle EXCEPT !.stage = "idle"]
      BY <1>2 DEF Push!Finish, Push!Idle
  <2> QED BY <2>1, PassOver
<1>3. CASE Push!Crash
  <2>1. /\ UNCHANGED <<tokens, valid, prefs, accounts, logs, passes, sent, steady>>
        /\ pass' = [Push!Idle EXCEPT !.stage = "idle"]
      BY <1>3 DEF Push!Crash, Push!Idle
  <2> QED BY <2>1, PassOver
<1> QED BY <1>1, <1>2, <1>3

LEMMA PassChooses == ASSUME PassInv, NEW u \in Users, Push!Choose(u) PROVE PassInv'
<1>1. /\ pass.stage = "next" /\ u \in pass.left
      /\ UNCHANGED <<tokens, valid, prefs, accounts, logs, passes, sent, steady, disturbed>>
    BY DEF Push!Choose
<1>2. prefs[u].type \in BOOLEAN
    BY DEF PassInv, PushTypes, Preferences
<1>3. CASE pass.failed \/ prefs[u].type # TRUE \/ Push!Seen(u) = {}
    BY <1>1, <1>2, <1>3, PassSkips DEF Push!Choose, Push!Skipped, Push!Allowed
<1>4. CASE ~pass.failed /\ prefs[u].type = TRUE /\ Push!Seen(u) # {}
    BY <1>1, <1>4, PassTakes DEF Push!Choose, Push!Allowed
<1> QED BY <1>3, <1>4

LEMMA PassStep == ASSUME PassInv, AccountsAssumption, [Push!Next]_pushVars PROVE PassInv'
<1>1. CASE UNCHANGED pushVars
    BY <1>1 DEF pushVars, PassInv, PushTypes, OwnersExist, TokensSound, OneUser, AheadIsNew, EntriesTrue,
                NobodyLeftOut, Ahead, Entries, Busy, InBatch, PushTo
<1>2. CASE \E t \in PushTokens : Push!Register(t) \/ Push!Unregister(t) \/ Push!Invalidate(t)
    BY <1>2, PassAlone
<1>3. CASE \E u \in Users : \/ Push!SetType(u, TRUE) \/ Push!SetType(u, FALSE) \/ Push!OptOut(u)
                            \/ Push!Erase(u) \/ Push!Choose(u)
    BY <1>3, PassPrefs, PassErase, PassChooses
<1>4. CASE Push!Start \/ Push!SendApple \/ Push!SendGoogle
    BY <1>4, PassStarts, PassSendsBoth
<1>5. CASE Push!LogResults
    BY <1>5, PassLogs, PassFails
<1>6. CASE Push!Commit \/ Push!Finish \/ Push!Crash
    BY <1>6, PassEnds
<1> QED BY <1>1, <1>2, <1>3, <1>4, <1>5, <1>6 DEF Push!Next

LEMMA PassSafe == ASSUME PassInv PROVE Push!PushInv
<1>1. Push!PushTypeOK
    BY DEF PassInv, PushTypes, OwnersExist, PassStates, PushEntries, Push!PushTypeOK
<1>2. Push!LogsTrue
    BY DEF PassInv, EntriesTrue, Push!LogsTrue
<1>3. Push!ValidTokensStay
  <2> SUFFICES ASSUME NEW t \in pass.removed \cap valid
               PROVE  t \notin Apple /\ [token |-> t, pass |-> passes, result |-> "argument"] \in pass.logs
      BY DEF Push!ValidTokensStay, Push!Entry
  <2>1. PICK e \in pass.logs : e.token = t /\ e.result = "argument"
      BY DEF PassInv, TokensSound
  <2>2. e \in PushEntries /\ e.pass = passes
      BY DEF PassInv, PushTypes, PassStates, AheadIsNew, Entries
  <2>3. e = [token |-> e.token, pass |-> e.pass, result |-> e.result]
      BY <2>2 DEF PushEntries
  <2> QED BY <2>1, <2>2, <2>3 DEF PassInv, TokensSound
<1>4. ASSUME pass.stage = "done", ~disturbed
      PROVE  (Ahead = {}) /\ (Entries = {})
    BY <1>4 DEF PassInv, OneUser, Busy, Ahead
<1>5. Push!PassReachesAll
  <2> SUFFICES ASSUME pass.stage = "done", ~disturbed, NEW t \in steady, PushTo(t) \notin sent
               PROVE  \E result \in Failures : [token |-> t, pass |-> passes, result |-> result] \in logs
      BY DEF Push!PassReachesAll, Push!Entry, PushTo, Failures
  <2>1. PICK e \in logs : e.token = t /\ e.pass = passes /\ e.result \in Failures
      BY <1>4 DEF PassInv, NobodyLeftOut
  <2>2. e \in PushEntries
      BY DEF PassInv, PushTypes
  <2>3. e = [token |-> e.token, pass |-> e.pass, result |-> e.result]
      BY <2>2 DEF PushEntries
  <2> QED BY <2>1, <2>3
<1>6. Push!DeliveredIsLogged
    BY <1>4 DEF PassInv, NobodyLeftOut, Push!DeliveredIsLogged
<1> QED BY <1>1, <1>2, <1>3, <1>5, <1>6 DEF Push!PushInv

\* A pass is accounted for: what it sends, logs and removes agree, and it leaves
\* nobody out (send_push, weekly_summary_job, remove_invalid_tokens).
THEOREM PassAccounted == AccountsSpec => []PushInv
<1> DEFINE Held == component = "push" => PassInv
<1> USE AccountsAssumption
<1>1. AccountsInit => Held
    BY PassStart DEF AccountsInit
<1>2. Held /\ [AccountsNext]_accountsVars => Held'
  <2> SUFFICES ASSUME Held, [AccountsNext]_accountsVars, component' = "push" PROVE PassInv'
      OBVIOUS
  <2>1. component = "push" /\ [Push!Next]_pushVars
      BY DEF AccountsNext, accountsVars, people
  <2> QED BY <2>1, PassStep
<1>3. Held => PushInv
    BY PassSafe DEF PushInv
<1> QED BY <1>1, <1>2, <1>3, PTL DEF AccountsSpec

-----------------------------------------------------------------------------
(* Sessions, for any number of devices, tokens and password changes.       *)

\* What AccountsAssumption says of the constants of Sessions.
SessionConstants == MaxVersion \in Nat

Jtis   == Tokens \cup Resets
Stages == {"idle", "issue", "get", "select", "delete", "begun", "take", "commit"}
CallOps == {"none", "register", "login", "link", "refresh", "gone", "change", "leave", "reset"}
Calls  == [stage : Stages, op : CallOps, seen : 0..MaxVersion, jti : SUBSET Jtis, wrote : BOOLEAN]
Sign   == [access : SUBSET (0..MaxVersion), refresh : SUBSET Jtis]

Signs(c)   == c.op \in {"register", "login", "link", "refresh"}

\* The stages a request of each kind goes through, and what it knows there.
CallOK(c) ==
    /\ c.stage = "idle" => ~c.wrote
    /\ c.stage = "get" => c.op = "refresh"
    /\ c.stage = "select" => c.op = "refresh"
    /\ c.stage = "delete" => c.op \in {"refresh", "gone"}
    /\ c.stage = "issue" => Signs(c)
    /\ c.stage \in {"take", "begun"} => Sessions!Changes(c)
    /\ c.stage = "commit" => Signs(c) \/ (Sessions!Changes(c) /\ c.wrote)
    /\ c.stage \in {"begun", "commit"} /\ Sessions!Changes(c) => c.seen < MaxVersion
    /\ c.op = "register" => c.wrote

\* The refresh token that a committing request hands to its device, and all
\* that the device holds or is about to.
Coming(c) == IF c.stage = "commit" /\ Signs(c) THEN c.jti ELSE {}
Holds(d)  == device[d].refresh \cup Coming(call[d])

\* Between the deletion of the old token and the answer with the new one.
Between(c) == c.op = "refresh" /\ c.stage \in {"issue", "commit"}

TypesOK ==
    /\ user \in [state : {"none", "live", "deleted"}, tv : 0..MaxVersion, linked : BOOLEAN]
    /\ used \subseteq Jtis /\ refresh \subseteq used \cap Tokens /\ reset \subseteq used \cap Resets
    /\ device \in [Devices -> Sign] /\ call \in [Devices -> Calls]
    /\ crossed \in BOOLEAN /\ fresh \in [Devices -> BOOLEAN] /\ cut \subseteq Devices

CallsOK ==
    /\ \A d \in Devices : CallOK(call[d])
    /\ \A d \in Devices : call[d].stage \in {"get", "select", "delete"} => call[d].jti = device[d].refresh
    /\ \A d, e \in Devices : call[d].wrote /\ call[e].wrote => d = e

\* Only who has registered has a session, or asks for one.
NoneYet ==
    user.state = "none" =>
        /\ reset = {}
        /\ \A d \in Devices : device[d] = Sessions!Signed /\ (call[d].stage # "idle" => call[d].op = "register")

\* Nobody else holds a device's tokens.
TokensOK ==
    /\ \A d \in Devices : Holds(d) \subseteq used /\ Coming(call[d]) \subseteq refresh
    /\ \A d, e \in Devices : d # e => Holds(d) \cap Holds(e) = {}
    /\ \A d \in Devices : d \notin cut /\ ~Between(call[d]) => device[d].refresh \subseteq refresh

\* Versions that were read or given out are not in the future, those from
\* before a change of the password are in the past, and who is about to write
\* a version has read the last one.
VersionsOK ==
    ~crossed => \A d \in Devices :
        /\ call[d].seen <= user.tv
        /\ call[d].stage = "commit" /\ Sessions!Changes(call[d]) => call[d].seen = user.tv
        /\ \A n \in device[d].access : n <= user.tv /\ (~fresh[d] => n < user.tv)

\* Access tokens carry one version.
AccessOK == \A d \in Devices : device[d].access = {} \/ \E n \in 0..MaxVersion : device[d].access = {n}

IInv == TypesOK /\ CallsOK /\ NoneYet /\ TokensOK /\ VersionsOK /\ AccessOK

\* A device without a request, and one without a session.
LEMMA QuietOK ==
    ASSUME SessionConstants
    PROVE  /\ Sessions!Quiet \in Calls /\ CallOK(Sessions!Quiet) /\ Coming(Sessions!Quiet) = {} /\ ~Between(Sessions!Quiet) /\ ~Sessions!Quiet.wrote
           /\ Sessions!Quiet.seen = 0 /\ Sessions!Quiet.stage = "idle" /\ ~Sessions!Changes(Sessions!Quiet)
           /\ Sessions!Signed \in Sign /\ Sessions!Signed.access = {} /\ Sessions!Signed.refresh = {}
    BY DEF SessionConstants, Sessions!Quiet, Calls, Stages, CallOps, CallOK, Sessions!Changes, Signs, Coming, Between, Sessions!None, Sessions!Signed,
           Sign

\* The invariant holds at the start.
LEMMA SessionInit == ASSUME SessionConstants, Sessions!Init PROVE IInv
<1>1. /\ device = [d \in Devices |-> Sessions!Signed] /\ call = [d \in Devices |-> Sessions!Quiet]
      /\ user = [state |-> "none", tv |-> 0, linked |-> FALSE]
      /\ refresh = {} /\ reset = {} /\ used = {} /\ cut = {} /\ crossed = FALSE
      /\ fresh = [d \in Devices |-> TRUE]
    BY DEF Sessions!Init
<1>2. user \in [state : {"none", "live", "deleted"}, tv : 0..MaxVersion, linked : BOOLEAN]
    BY <1>1 DEF SessionConstants
<1>3. \A d \in Devices : device[d] = Sessions!Signed /\ call[d] = Sessions!Quiet
    BY <1>1
<1>7. TypesOK
    BY <1>1, <1>2, QuietOK DEF TypesOK
<1>4. CallsOK /\ NoneYet /\ AccessOK
    BY <1>1, <1>3, QuietOK DEF CallsOK, NoneYet, AccessOK
<1>5. TokensOK
    BY <1>3, QuietOK DEF TokensOK, Holds
<1>6. VersionsOK
    BY <1>1, <1>3, QuietOK DEF VersionsOK
<1> QED BY <1>4, <1>5, <1>6, <1>7 DEF IInv

\* The library's operator under the name of the instance.
LEMMA SameCardinality == \A S : Sessions!Cardinality(S) = Cardinality(S)
BY DEF Sessions!Cardinality, Cardinality

\* The invariant contains what it is for.
LEMMA SessionHolds == ASSUME SessionConstants, IInv PROVE Sessions!SessionInv
<1>1. Sessions!SessionTypeOK
  <2>1. ASSUME NEW d \in Devices PROVE Cardinality(device[d].access) <= 1
    <3>1. CASE device[d].access = {}
        BY <3>1, FS_EmptySet
    <3>2. ASSUME NEW n \in 0..MaxVersion, device[d].access = {n} PROVE Cardinality(device[d].access) <= 1
      <4>1. Cardinality({n}) = 1
          BY FS_Singleton, Zenon
      <4> QED BY <3>2, <4>1
    <3> QED BY <3>1, <3>2 DEF IInv, AccessOK
  <2>2. \A d \in Devices : device[d].refresh \subseteq used
      BY DEF IInv, TokensOK, Holds
  <2>3. user.state \in {"none", "live", "deleted"} /\ user.tv \in 0..MaxVersion
      BY DEF IInv, TypesOK
  <2>4. /\ refresh \subseteq used \cap Tokens /\ reset \subseteq used \cap Resets
        /\ user.state = "none" => \A d \in Devices : device[d] = Sessions!Signed
        /\ \A d, e \in Devices : call[d].wrote /\ call[e].wrote => d = e
      BY DEF IInv, TypesOK, NoneYet, CallsOK
  <2> QED BY <2>1, <2>2, <2>3, <2>4, SameCardinality DEF Sessions!SessionTypeOK
<1>2. Sessions!SessionLives
    BY DEF Sessions!SessionLives, IInv, TokensOK, Between
<1>3. Sessions!OldAccessRefused
  <2> SUFFICES ASSUME NEW d \in Devices, ~crossed, ~fresh[d], device[d].access = {user.tv} PROVE FALSE
      BY DEF Sessions!OldAccessRefused
  <2>1. user.tv \in device[d].access /\ user.tv \in Nat
      BY DEF IInv, TypesOK
  <2>2. user.tv < user.tv
      BY <2>1 DEF IInv, VersionsOK
  <2> QED BY <2>1, <2>2
<1> QED BY <1>1, <1>2, <1>3 DEF Sessions!SessionInv


-----------------------------------------------------------------------------
(* Requests that change nothing but themselves, and reset tokens.          *)

\* What a request may become while the rows, tokens and devices stay.
LEMMA CallChanges ==
    ASSUME SessionConstants, IInv, NEW d \in Devices, NEW c \in Calls,
           call' = [call EXCEPT ![d] = c], UNCHANGED <<user, refresh, used, device, fresh>>,
           reset' \subseteq reset, cut \subseteq cut', cut' \subseteq Devices, crossed' \in BOOLEAN,
           crossed => crossed', CallOK(c),
           c.stage \in {"get", "select", "delete"} => c.jti = device[d].refresh,
           c.wrote => call[d].wrote \/ ~Sessions!Locked,
           user.state = "none" /\ c.stage # "idle" => c.op = "register",
           Coming(c) \subseteq Coming(call[d]),
           Between(call[d]) /\ ~Between(c) => d \in cut',
           ~crossed' => c.seen <= user.tv /\ (c.stage = "commit" /\ Sessions!Changes(c) => c.seen = user.tv)
    PROVE  IInv'
<1>1. \A e \in Devices : call'[e] = IF e = d THEN c ELSE call[e]
    BY DEF IInv, TypesOK
<1>2. TypesOK'
    BY DEF IInv, TypesOK
<1>3. CallsOK'
  <2>1. \A e \in Devices : CallOK(call'[e])
      BY <1>1 DEF IInv, CallsOK
  <2>2. \A e \in Devices : call'[e].stage \in {"get", "select", "delete"} => call'[e].jti = device'[e].refresh
      BY <1>1 DEF IInv, CallsOK
  <2>3. \A e, f \in Devices : call'[e].wrote /\ call'[f].wrote => e = f
      BY <1>1 DEF IInv, CallsOK, Sessions!Locked
  <2> QED BY <2>1, <2>2, <2>3 DEF CallsOK, CallOK, Sessions!Changes, Signs
<1>4. NoneYet'
    BY <1>1 DEF IInv, NoneYet
<1>5. TokensOK'
  <2> DEFINE Coming2(e) == IF e = d THEN Coming(c) ELSE Coming(call[e])
  <2>1. \A e \in Devices : Coming(call[e])' = Coming2(e)
      BY <1>1 DEF Coming, Signs
  <2>2. \A e \in Devices : Coming2(e) \subseteq Coming(call[e])
      OBVIOUS
  <2>3. \A e \in Devices : Holds(e)' \subseteq Holds(e) /\ Coming(call[e])' \subseteq Coming(call[e])
      BY <2>1, <2>2 DEF Holds
  <2>4. \A e \in Devices : e \notin cut' /\ ~Between(call[e])' => e \notin cut /\ ~Between(call[e])
      BY <1>1 DEF Between
  <2> QED BY <2>3, <2>4 DEF IInv, TokensOK
<1>6. VersionsOK'
    BY <1>1 DEF IInv, VersionsOK, Sessions!Changes
<1>7. AccessOK'
    BY DEF IInv, AccessOK
<1> QED BY <1>2, <1>3, <1>4, <1>5, <1>6, <1>7 DEF IInv

\* A request that begins has no new tokens and has locked the row if it writes.
LEMMA CallBegins ==
    ASSUME SessionConstants, IInv, NEW d \in Devices, NEW c \in Calls,
           call' = [call EXCEPT ![d] = c], UNCHANGED <<user, refresh, reset, used, device, cut, crossed, fresh>>,
           call[d].stage = "idle", CallOK(c), c.stage \in {"issue", "get", "begun", "take"},
           c.stage = "get" => c.jti = device[d].refresh, c.wrote => ~Sessions!Locked,
           user.state = "none" => c.op = "register", c.seen <= user.tv
    PROVE  IInv'
<1>1. Coming(c) = {} /\ ~Between(call[d])
    BY DEF Coming, Between
<1>2. cut \subseteq Devices /\ crossed \in BOOLEAN
    BY DEF IInv, TypesOK
<1> QED BY <1>1, <1>2, CallChanges

\* Signing in, and the beginning of everything else.
LEMMA Beginnings ==
    ASSUME SessionConstants, IInv, NEW d \in Devices,
           \/ Sessions!Register(d) \/ Sessions!Login(d) \/ Sessions!OAuth(d) \/ Sessions!BeginRefresh(d)
           \/ user.tv < MaxVersion /\ \E op \in {"change", "leave"} : Sessions!BeginChange(d, op)
           \/ user.tv < MaxVersion /\ \E r \in Resets : Sessions!BeginConfirm(d, r)
    PROVE  IInv'
<1>1. /\ user.tv \in 0..MaxVersion /\ user.tv \in Nat /\ 0 \in 0..MaxVersion /\ 0 <= user.tv
      /\ device[d].refresh \subseteq Jtis /\ user.tv <= user.tv
    BY DEF IInv, TypesOK, Sign, SessionConstants
<1>2. CASE Sessions!Register(d)
  <2> DEFINE c == [Sessions!Quiet EXCEPT !.stage = "issue", !.op = "register", !.wrote = TRUE]
  <2>1. call' = [call EXCEPT ![d] = c]
      BY <1>2 DEF Sessions!Register
  <2>2. /\ c \in Calls /\ CallOK(c)
        /\ c.stage = "issue" /\ c.op = "register" /\ c.seen = 0 /\ c.jti = {} /\ c.wrote = TRUE
      BY <1>1 DEF Calls, Stages, CallOps, CallOK, Signs, Sessions!Changes, Sessions!Quiet, Sessions!None
  <2>3. call[d].stage = "idle" /\ ~Sessions!Locked /\ UNCHANGED <<user, refresh, reset, used, device, cut, crossed, fresh>>
      BY <1>2 DEF Sessions!Register
  <2> HIDE DEF c
  <2> QED BY <1>1, <2>1, <2>2, <2>3, CallBegins
<1>3. CASE Sessions!Login(d)
  <2> DEFINE c == [Sessions!Quiet EXCEPT !.stage = "issue", !.op = "login", !.seen = user.tv]
  <2>1. call' = [call EXCEPT ![d] = c]
      BY <1>3 DEF Sessions!Login
  <2>2. /\ c \in Calls /\ CallOK(c)
        /\ c.stage = "issue" /\ c.op = "login" /\ c.seen = user.tv /\ c.jti = {} /\ c.wrote = FALSE
      BY <1>1 DEF Calls, Stages, CallOps, CallOK, Signs, Sessions!Changes, Sessions!Quiet, Sessions!None
  <2>3. /\ call[d].stage = "idle" /\ user.state # "none"
        /\ UNCHANGED <<user, refresh, reset, used, device, cut, crossed, fresh>>
      BY <1>3 DEF Sessions!Login, Sessions!Live
  <2> HIDE DEF c
  <2> QED BY <1>1, <2>1, <2>2, <2>3, CallBegins
<1>4. CASE Sessions!OAuth(d)
  <2> DEFINE c == [Sessions!Quiet EXCEPT !.stage = "issue", !.op = IF Sessions!Live THEN "link" ELSE "register", !.seen = user.tv,
                                  !.wrote = ~Sessions!Live \/ ~user.linked]
  <2>1. call' = [call EXCEPT ![d] = c]
      BY <1>4 DEF Sessions!OAuth
  <2>2. /\ c \in Calls /\ CallOK(c)
        /\ c.stage = "issue" /\ c.op = (IF Sessions!Live THEN "link" ELSE "register") /\ c.seen = user.tv
        /\ c.jti = {} /\ c.wrote = (~Sessions!Live \/ ~user.linked)
      BY <1>1 DEF Calls, Stages, CallOps, CallOK, Signs, Sessions!Changes, Sessions!Quiet, Sessions!None
  <2>3. /\ call[d].stage = "idle" /\ ~Sessions!Locked /\ (user.state = "none" => c.op = "register")
        /\ UNCHANGED <<user, refresh, reset, used, device, cut, crossed, fresh>>
      BY <1>4 DEF Sessions!OAuth, Sessions!Live
  <2> HIDE DEF c
  <2> QED BY <1>1, <2>1, <2>2, <2>3, CallBegins
<1>5. CASE Sessions!BeginRefresh(d)
  <2> DEFINE c == [Sessions!Quiet EXCEPT !.stage = "get", !.op = "refresh", !.jti = device[d].refresh]
  <2>1. call' = [call EXCEPT ![d] = c]
      BY <1>5 DEF Sessions!BeginRefresh
  <2>2. /\ c \in Calls /\ CallOK(c)
        /\ c.stage = "get" /\ c.op = "refresh" /\ c.seen = 0 /\ c.jti = device[d].refresh /\ c.wrote = FALSE
      BY <1>1 DEF Calls, Stages, CallOps, CallOK, Signs, Sessions!Changes, Sessions!Quiet, Sessions!None, Jtis
  <2>3. /\ call[d].stage = "idle" /\ device[d].refresh # {}
        /\ UNCHANGED <<user, refresh, reset, used, device, cut, crossed, fresh>>
      BY <1>5 DEF Sessions!BeginRefresh, Sessions!None
  <2>4. user.state # "none"
      BY <2>3 DEF IInv, NoneYet, Sessions!Signed, Sessions!None
  <2> HIDE DEF c
  <2> QED BY <1>1, <2>1, <2>2, <2>3, <2>4, CallBegins
<1>6. ASSUME NEW op \in {"change", "leave"}, Sessions!BeginChange(d, op), user.tv < MaxVersion PROVE IInv'
  <2> DEFINE c == [Sessions!Quiet EXCEPT !.stage = "begun", !.op = op, !.seen = user.tv]
  <2>1. call' = [call EXCEPT ![d] = c]
      BY <1>6 DEF Sessions!BeginChange, Sessions!Call
  <2>2. /\ c \in Calls /\ CallOK(c)
        /\ c.stage = "begun" /\ c.op = op /\ c.seen = user.tv /\ c.jti = {} /\ c.wrote = FALSE
      BY <1>1, <1>6 DEF Calls, Stages, CallOps, CallOK, Signs, Sessions!Changes, Sessions!Quiet, Sessions!None
  <2>3. /\ call[d].stage = "idle" /\ user.state # "none"
        /\ UNCHANGED <<user, refresh, reset, used, device, cut, crossed, fresh>>
      BY <1>6 DEF Sessions!BeginChange, Sessions!Authenticated, Sessions!Live
  <2> HIDE DEF c
  <2> QED BY <1>1, <2>1, <2>2, <2>3, CallBegins
<1>7. ASSUME NEW r \in Resets, Sessions!BeginConfirm(d, r), user.tv < MaxVersion PROVE IInv'
  <2> DEFINE c == [Sessions!Quiet EXCEPT !.stage = "take", !.op = "reset", !.jti = {r}]
  <2>1. call' = [call EXCEPT ![d] = c]
      BY <1>7, Zenon DEF Sessions!BeginConfirm
  <2>2. /\ c \in Calls /\ CallOK(c)
        /\ c.stage = "take" /\ c.op = "reset" /\ c.seen = 0 /\ c.jti = {r} /\ c.wrote = FALSE
      BY <1>1, <1>7 DEF Calls, Stages, CallOps, CallOK, Signs, Sessions!Changes, Sessions!Quiet, Sessions!None, Jtis
  <2>3. /\ call[d].stage = "idle" /\ r \in reset
        /\ UNCHANGED <<user, refresh, reset, used, device, cut, crossed, fresh>>
      BY <1>7, Zenon DEF Sessions!BeginConfirm
  <2>4. user.state # "none"
      BY <2>3 DEF IInv, NoneYet
  <2> HIDE DEF c
  <2> QED BY <1>1, <2>1, <2>2, <2>3, <2>4, CallBegins
<1> QED BY <1>2, <1>3, <1>4, <1>5, <1>6, <1>7

\* A request that ends without an effect on rows and tokens.
LEMMA CallEnds ==
    ASSUME SessionConstants, IInv, NEW d \in Devices,
           call' = [call EXCEPT ![d] = Sessions!Quiet], UNCHANGED <<user, refresh, used, device, crossed, fresh>>,
           reset' \subseteq reset, cut \subseteq cut', cut' \subseteq Devices, Between(call[d]) => d \in cut'
    PROVE  IInv'
<1>1. /\ Sessions!Quiet \in Calls /\ CallOK(Sessions!Quiet) /\ Coming(Sessions!Quiet) = {} /\ ~Between(Sessions!Quiet) /\ ~Sessions!Quiet.wrote
      /\ Sessions!Quiet.seen = 0 /\ Sessions!Quiet.stage = "idle"
    BY QuietOK
<1>2. crossed' \in BOOLEAN /\ 0 <= user.tv
    BY DEF IInv, TypesOK, SessionConstants
<1> DEFINE c == Sessions!Quiet
<1>3. /\ c \in Calls /\ c.stage \notin {"get", "select", "delete", "commit"} /\ (c.stage # "idle" => c.op = "register")
      /\ Coming(c) \subseteq Coming(call[d]) /\ (c.wrote => call[d].wrote \/ ~Sessions!Locked) /\ c.seen <= user.tv
      /\ CallOK(c) /\ ~Between(c) /\ call' = [call EXCEPT ![d] = c]
    BY <1>1, <1>2
<1> HIDE DEF c
<1> QED BY <1>2, <1>3, CallChanges

\* The steps in between that leave Redis's refresh tokens alone.
LEMMA Middles ==
    ASSUME SessionConstants, IInv, NEW d \in Devices,
           \/ Sessions!Get(d) /\ call[d].jti \subseteq refresh
           \/ Sessions!Select(d) \/ Sessions!Flush(d) \/ Sessions!Break(d)
           \/ user.tv < MaxVersion /\ Sessions!Take(d)
    PROVE  IInv'
<1>1. /\ call[d] \in Calls /\ CallOK(call[d]) /\ user.tv \in 0..MaxVersion /\ user.tv \in Nat /\ user.tv <= user.tv
      /\ cut \subseteq Devices /\ crossed \in BOOLEAN /\ call \in [Devices -> Calls]
      /\ call[d].stage \in {"get", "select", "delete"} => call[d].jti = device[d].refresh
      /\ user.state = "none" => call[d].stage = "idle" \/ call[d].op = "register"
      /\ ~crossed => call[d].seen <= user.tv
    BY DEF IInv, TypesOK, CallsOK, NoneYet, VersionsOK, SessionConstants
<1>2. CASE Sessions!Get(d) /\ call[d].jti \subseteq refresh
  <2> DEFINE c == [call[d] EXCEPT !.stage = "select"]
  <2>1. /\ call[d].stage = "get" /\ UNCHANGED <<user, refresh, reset, used, device, cut, crossed, fresh>>
        /\ call' = [call EXCEPT ![d] = c]
      BY <1>2 DEF Sessions!Get, Sessions!Goes
  <2>2. /\ c \in Calls /\ c.stage = "select" /\ c.op = call[d].op /\ c.seen = call[d].seen
        /\ c.jti = call[d].jti /\ c.wrote = call[d].wrote
      BY <1>1 DEF Calls, Stages
  <2> HIDE DEF c
  <2>3. CallOK(c) /\ Coming(c) = {} /\ ~Between(call[d])
      BY <1>1, <2>1, <2>2 DEF CallOK, Coming, Between, Signs, Sessions!Changes
  <2> QED BY <1>1, <2>1, <2>2, <2>3, CallChanges
<1>3. CASE Sessions!Select(d)
  <2> DEFINE c == [call[d] EXCEPT !.stage = "delete", !.seen = user.tv, !.op = IF Sessions!Live THEN "refresh" ELSE "gone"]
  <2>1. /\ call[d].stage = "select" /\ UNCHANGED <<user, refresh, reset, used, device, cut, crossed, fresh>>
        /\ call' = [call EXCEPT ![d] = c]
      BY <1>3 DEF Sessions!Select
  <2>2. /\ c \in Calls /\ c.stage = "delete" /\ c.op \in {"refresh", "gone"} /\ c.seen = user.tv
        /\ c.jti = call[d].jti /\ c.wrote = call[d].wrote
      BY <1>1 DEF Calls, Stages, CallOps
  <2> HIDE DEF c
  <2>3. CallOK(c) /\ Coming(c) = {} /\ ~Between(call[d]) /\ call[d].op = "refresh"
      BY <1>1, <2>1, <2>2 DEF CallOK, Coming, Between, Signs, Sessions!Changes
  <2> QED BY <1>1, <2>1, <2>2, <2>3, CallChanges
<1>4. CASE Sessions!Flush(d)
  <2> DEFINE c == [call[d] EXCEPT !.stage = "commit", !.wrote = TRUE]
  <2>1. /\ call[d].stage = "begun" /\ ~Sessions!Locked /\ UNCHANGED <<user, refresh, reset, used, device, cut, fresh>>
        /\ call' = [call EXCEPT ![d] = c] /\ crossed' = (crossed \/ call[d].seen # user.tv)
      BY <1>4 DEF Sessions!Flush
  <2>2. /\ c \in Calls /\ c.stage = "commit" /\ c.op = call[d].op /\ c.seen = call[d].seen
        /\ c.jti = call[d].jti /\ c.wrote
      BY <1>1 DEF Calls, Stages
  <2> HIDE DEF c
  <2>3. CallOK(c) /\ Coming(c) = {} /\ ~Between(call[d])
      BY <1>1, <2>1, <2>2 DEF CallOK, Coming, Between, Signs, Sessions!Changes
  <2> QED BY <1>1, <2>1, <2>2, <2>3, CallChanges
<1>5. CASE Sessions!Break(d)
  <2>1. /\ call' = [call EXCEPT ![d] = Sessions!Quiet] /\ UNCHANGED <<user, refresh, reset, used, device, crossed, fresh>>
        /\ cut' = IF call[d].op = "refresh" THEN cut \cup {d} ELSE cut
      BY <1>5 DEF Sessions!Break, Sessions!Ends
  <2>2. cut \subseteq cut' /\ cut' \subseteq Devices /\ (Between(call[d]) => d \in cut')
      BY <1>1, <2>1 DEF Between
  <2> QED BY <1>1, <2>1, <2>2, CallEnds
<1>6. CASE user.tv < MaxVersion /\ Sessions!Take(d)
  <2>1. /\ call[d].stage = "take" /\ reset' \subseteq reset
        /\ UNCHANGED <<user, refresh, used, device, cut, crossed, fresh>>
      BY <1>6 DEF Sessions!Take
  <2>2. CASE ~Sessions!Live
    <3>1. call' = [call EXCEPT ![d] = Sessions!Quiet] /\ ~Between(call[d])
        BY <1>6, <2>1, <2>2 DEF Sessions!Take, Sessions!Ends, Between
    <3> QED BY <1>1, <2>1, <3>1, CallEnds
  <2>3. CASE Sessions!Live
    <3> DEFINE c == [call[d] EXCEPT !.stage = "begun", !.seen = user.tv]
    <3>1. call' = [call EXCEPT ![d] = c]
        BY <1>6, <2>3 DEF Sessions!Take
    <3>2. /\ c \in Calls /\ c.stage = "begun" /\ c.op = call[d].op /\ c.seen = user.tv
          /\ c.jti = call[d].jti /\ c.wrote = call[d].wrote
        BY <1>1 DEF Calls, Stages
    <3> HIDE DEF c
    <3>3. CallOK(c) /\ Coming(c) = {} /\ ~Between(call[d])
        BY <1>1, <1>6, <2>1, <3>2 DEF CallOK, Coming, Between, Signs, Sessions!Changes
    <3> QED BY <1>1, <2>1, <3>1, <3>2, <3>3, CallChanges
  <2> QED BY <2>2, <2>3
<1> QED BY <1>2, <1>3, <1>4, <1>5, <1>6

-----------------------------------------------------------------------------
(* Steps that take refresh tokens away, or add one.                        *)

\* A device that signs out takes no other device's token with it.
LEMMA SignsOut ==
    ASSUME SessionConstants, IInv, NEW d \in Devices, NEW c \in Calls,
           call' = [call EXCEPT ![d] = c], device' = [device EXCEPT ![d] = Sessions!Signed],
           UNCHANGED <<user, reset, used, crossed, fresh>>,
           refresh' \subseteq refresh, refresh \ refresh' \subseteq device[d].refresh,
           cut \ cut' \subseteq {d}, cut' \subseteq cut,
           c.stage = "idle", CallOK(c), ~crossed => c.seen <= user.tv
    PROVE  IInv'
<1>1. /\ \A e \in Devices : call'[e] = IF e = d THEN c ELSE call[e]
      /\ \A e \in Devices : device'[e] = IF e = d THEN Sessions!Signed ELSE device[e]
    BY DEF IInv, TypesOK
<1>2. Sessions!Signed \in Sign /\ Sessions!Signed.access = {} /\ Sessions!Signed.refresh = {}
    BY QuietOK
<1>3. TypesOK'
  <2>1. device' \in [Devices -> Sign] /\ call' \in [Devices -> Calls]
      BY <1>2 DEF IInv, TypesOK
  <2> QED BY <2>1 DEF IInv, TypesOK
<1>4. CallsOK'
  <2>1. \A e \in Devices : CallOK(call'[e])
      BY <1>1 DEF IInv, CallsOK
  <2>2. \A e \in Devices : call'[e].stage \in {"get", "select", "delete"} => call'[e].jti = device'[e].refresh
      BY <1>1 DEF IInv, CallsOK
  <2>3. \A e, f \in Devices : call'[e].wrote /\ call'[f].wrote => e = f
      BY <1>1 DEF IInv, CallsOK, CallOK
  <2> QED BY <2>1, <2>2, <2>3 DEF CallsOK, CallOK, Sessions!Changes, Signs
<1>5. NoneYet'
    BY <1>1 DEF IInv, NoneYet
<1>6. TokensOK'
  <2>1. Coming(c) = {}
      BY DEF Coming
  <2>2. /\ Holds(d)' = {} /\ Coming(call[d])' = {}
        /\ \A e \in Devices : e # d => Holds(e)' = Holds(e) /\ Coming(call[e])' = Coming(call[e])
      BY <1>1, <1>2, <2>1 DEF Holds, Coming, Signs
  <2>3. ASSUME NEW e \in Devices, e # d PROVE Holds(e) \cap (refresh \ refresh') = {}
      BY <2>3 DEF IInv, TokensOK, Holds
  <2>4. ASSUME NEW e \in Devices PROVE Holds(e)' \subseteq used' /\ Coming(call[e])' \subseteq refresh'
    <3>1. CASE e = d
        BY <2>2, <3>1
    <3>2. CASE e # d
      <4>1. Holds(e) \subseteq used /\ Coming(call[e]) \subseteq refresh /\ Coming(call[e]) \subseteq Holds(e)
          BY DEF IInv, TokensOK, Holds
      <4> QED BY <2>2, <2>3, <3>2, <4>1
    <3> QED BY <3>1, <3>2
  <2>5. \A e, f \in Devices : e # f => Holds(e)' \cap Holds(f)' = {}
      BY <2>2 DEF IInv, TokensOK
  <2>6. ASSUME NEW e \in Devices, e \notin cut', ~Between(call[e])' PROVE device'[e].refresh \subseteq refresh'
    <3>1. CASE e = d
        BY <1>1, <1>2, <3>1
    <3>2. CASE e # d
      <4>1. device[e].refresh \subseteq refresh
          BY <1>1, <2>6, <3>2 DEF IInv, TokensOK, Between
      <4> QED BY <1>1, <2>3, <3>2, <4>1 DEF Holds
    <3> QED BY <3>1, <3>2
  <2> QED BY <2>4, <2>5, <2>6 DEF TokensOK
<1>7. VersionsOK'
    BY <1>1, <1>2 DEF IInv, VersionsOK, Sessions!Changes
<1>8. AccessOK'
    BY <1>1, <1>2 DEF IInv, AccessOK
<1> QED BY <1>3, <1>4, <1>5, <1>6, <1>7, <1>8 DEF IInv

\* A device that signs out, on request or because it was refused.
LEMMA Departures ==
    ASSUME SessionConstants, IInv, NEW d \in Devices,
           \/ Sessions!Get(d) /\ ~(call[d].jti \subseteq refresh)
           \/ Sessions!Delete(d) /\ call[d].op = "gone"
           \/ Sessions!Logout(d)
    PROVE  IInv'
<1>1. /\ Sessions!Quiet \in Calls /\ CallOK(Sessions!Quiet) /\ Sessions!Quiet.stage = "idle" /\ Sessions!Quiet.seen <= user.tv
      /\ call \in [Devices -> Calls] /\ CallOK(call[d]) /\ (~crossed => call[d].seen <= user.tv)
      /\ call[d].stage \in {"get", "select", "delete"} => call[d].jti = device[d].refresh
    BY QuietOK DEF IInv, TypesOK, CallsOK, VersionsOK, SessionConstants
<1>2. CASE Sessions!Get(d) /\ ~(call[d].jti \subseteq refresh)
  <2>1. /\ call' = [call EXCEPT ![d] = Sessions!Quiet] /\ device' = [device EXCEPT ![d] = Sessions!Signed] /\ cut' = cut \ {d}
        /\ UNCHANGED <<user, refresh, reset, used, crossed, fresh>>
      BY <1>2 DEF Sessions!Get, Sessions!Ends
  <2> QED BY <1>1, <2>1, SignsOut
<1>3. CASE Sessions!Delete(d) /\ call[d].op = "gone"
  <2>1. /\ call' = [call EXCEPT ![d] = Sessions!Quiet] /\ device' = [device EXCEPT ![d] = Sessions!Signed]
        /\ refresh' = refresh \ device[d].refresh /\ UNCHANGED <<user, reset, used, cut, crossed, fresh>>
      BY <1>1, <1>3 DEF Sessions!Delete, Sessions!Ends
  <2> QED BY <1>1, <2>1, SignsOut
<1>4. CASE Sessions!Logout(d)
  <2> DEFINE c == call[d]
  <2>1. /\ device' = [device EXCEPT ![d] = Sessions!Signed] /\ refresh' = refresh \ device[d].refresh /\ cut' = cut \ {d}
        /\ c.stage = "idle" /\ UNCHANGED <<user, reset, used, call, crossed, fresh>>
      BY <1>4 DEF Sessions!Logout
  <2>2. call' = [call EXCEPT ![d] = c] /\ c \in Calls /\ CallOK(c) /\ (~crossed => c.seen <= user.tv)
      BY <1>1, <2>1
  <2> HIDE DEF c
  <2> QED BY <2>1, <2>2, SignsOut
<1> QED BY <1>2, <1>3, <1>4

\* A refresh deletes the old token; the device is between two tokens from here.
LEMMA DeletesOld ==
    ASSUME SessionConstants, IInv, NEW d \in Devices, Sessions!Delete(d), call[d].op # "gone"
    PROVE  IInv'
<1> DEFINE c == [call[d] EXCEPT !.stage = "issue"]
<1>1. /\ call[d].stage = "delete" /\ call' = [call EXCEPT ![d] = c] /\ call[d].op = "refresh"
      /\ call[d].jti = device[d].refresh /\ refresh' = refresh \ call[d].jti
      /\ UNCHANGED <<user, reset, used, device, cut, crossed, fresh>>
    BY DEF Sessions!Delete, Sessions!Goes, IInv, CallsOK, CallOK
<1>2. /\ c \in Calls /\ c.stage = "issue" /\ c.op = call[d].op /\ c.seen = call[d].seen
      /\ c.jti = call[d].jti /\ c.wrote = call[d].wrote
    BY DEF IInv, TypesOK, Calls, Stages
<1> HIDE DEF c
<1>3. \A e \in Devices : call'[e] = IF e = d THEN c ELSE call[e]
    BY <1>1 DEF IInv, TypesOK
<1>4. CallOK(c) /\ Coming(c) = {} /\ Coming(call[d]) = {} /\ Between(c)
    BY <1>1, <1>2 DEF IInv, CallsOK, CallOK, Coming, Between, Signs, Sessions!Changes
<1>5. TypesOK'
  <2>1. refresh' \subseteq refresh /\ call' \in [Devices -> Calls]
      BY <1>1, <1>2 DEF IInv, TypesOK
  <2> QED BY <1>1, <2>1 DEF IInv, TypesOK
<1>6. CallsOK'
  <2>1. \A e \in Devices : CallOK(call'[e])
      BY <1>3, <1>4 DEF IInv, CallsOK
  <2>2. \A e \in Devices : call'[e].stage \in {"get", "select", "delete"} => call'[e].jti = device'[e].refresh
      BY <1>1, <1>2, <1>3 DEF IInv, CallsOK
  <2>3. \A e, f \in Devices : call'[e].wrote /\ call'[f].wrote => e = f
      BY <1>2, <1>3 DEF IInv, CallsOK
  <2> QED BY <2>1, <2>2, <2>3 DEF CallsOK, CallOK, Sessions!Changes, Signs
<1>7. NoneYet'
    BY <1>1, <1>2, <1>3 DEF IInv, NoneYet
<1>8. TokensOK'
  <2>1. \A e \in Devices : Holds(e)' = Holds(e) /\ Coming(call[e])' = Coming(call[e])
      BY <1>1, <1>3, <1>4 DEF Holds, Coming, Signs
  <2>2. ASSUME NEW e \in Devices, e # d PROVE Holds(e) \cap (refresh \ refresh') = {}
      BY <1>1, <2>2 DEF IInv, TokensOK, Holds
  <2>3. ASSUME NEW e \in Devices PROVE Holds(e)' \subseteq used' /\ Coming(call[e])' \subseteq refresh'
    <3>1. Holds(e) \subseteq used /\ Coming(call[e]) \subseteq refresh /\ Coming(call[e]) \subseteq Holds(e)
        BY DEF IInv, TokensOK, Holds
    <3>2. Coming(call[e]) \subseteq refresh'
        BY <1>4, <2>2, <3>1
    <3> QED BY <1>1, <2>1, <3>1, <3>2
  <2>4. \A e, f \in Devices : e # f => Holds(e)' \cap Holds(f)' = {}
      BY <2>1 DEF IInv, TokensOK
  <2>5. ASSUME NEW e \in Devices, e \notin cut', ~Between(call[e])' PROVE device'[e].refresh \subseteq refresh'
    <3>1. e # d /\ call'[e] = call[e]
        BY <1>3, <1>4, <2>5 DEF Between
    <3>2. device[e].refresh \subseteq refresh
        BY <1>1, <2>5, <3>1 DEF IInv, TokensOK, Between
    <3> QED BY <1>1, <2>2, <3>1, <3>2 DEF Holds
  <2> QED BY <2>3, <2>4, <2>5 DEF TokensOK
<1>9. VersionsOK'
    BY <1>1, <1>2, <1>3 DEF IInv, VersionsOK, Sessions!Changes
<1>10. AccessOK'
    BY <1>1 DEF IInv, AccessOK
<1> QED BY <1>5, <1>6, <1>7, <1>8, <1>9, <1>10 DEF IInv

\* Only tokens that nobody holds expire.
LEMMA ExpireInv ==
    ASSUME SessionConstants, IInv, NEW jti \in Tokens, Sessions!Expire(jti)
    PROVE  IInv'
<1>1. /\ refresh' = refresh \ {jti} /\ \A e \in Devices : jti \notin device[e].refresh \cup call[e].jti
      /\ UNCHANGED <<user, reset, used, device, call, cut, crossed, fresh>>
    BY DEF Sessions!Expire
<1>2. TypesOK'
    BY <1>1 DEF IInv, TypesOK
<1>3. CallsOK' /\ NoneYet' /\ AccessOK'
    BY <1>1 DEF IInv, CallsOK, CallOK, Sessions!Changes, Signs, NoneYet, AccessOK
<1>4. TokensOK'
  <2>1. \A e \in Devices : Holds(e)' = Holds(e) /\ Coming(call[e])' = Coming(call[e]) /\ jti \notin Holds(e)
      BY <1>1 DEF Holds, Coming, Signs
  <2>2. ASSUME NEW e \in Devices PROVE Holds(e)' \subseteq used' /\ Coming(call[e])' \subseteq refresh'
    <3>1. Holds(e) \subseteq used /\ Coming(call[e]) \subseteq refresh /\ Coming(call[e]) \subseteq Holds(e)
        BY DEF IInv, TokensOK, Holds
    <3> QED BY <1>1, <2>1, <3>1
  <2>3. \A e, f \in Devices : e # f => Holds(e)' \cap Holds(f)' = {}
      BY <2>1 DEF IInv, TokensOK
  <2>4. \A e \in Devices : e \notin cut' /\ ~Between(call[e])' => device'[e].refresh \subseteq refresh'
      BY <1>1 DEF IInv, TokensOK, Between
  <2> QED BY <2>2, <2>3, <2>4 DEF TokensOK
<1>5. VersionsOK'
    BY <1>1 DEF IInv, VersionsOK, Sessions!Changes
<1> QED BY <1>2, <1>3, <1>4, <1>5 DEF IInv

\* A reset token is new and no session.
LEMMA RequestResetInv ==
    ASSUME SessionConstants, IInv, NEW r \in Resets, Sessions!RequestReset(r)
    PROVE  IInv'
<1>1. /\ Sessions!Live /\ reset' = reset \cup {r} /\ used' = used \cup {r}
      /\ UNCHANGED <<user, refresh, device, call, cut, crossed, fresh>>
    BY DEF Sessions!RequestReset
<1>2. TypesOK'
  <2>1. used' \subseteq Jtis /\ refresh' \subseteq used' \cap Tokens /\ reset' \subseteq used' \cap Resets
      BY <1>1 DEF IInv, TypesOK, Jtis
  <2> QED BY <1>1, <2>1 DEF IInv, TypesOK
<1>3. CallsOK' /\ NoneYet' /\ AccessOK'
    BY <1>1 DEF IInv, CallsOK, CallOK, Sessions!Changes, Signs, NoneYet, AccessOK, Sessions!Live
<1>4. TokensOK'
  <2>1. \A e \in Devices : Holds(e)' = Holds(e) /\ Coming(call[e])' = Coming(call[e])
      BY <1>1 DEF Holds, Coming, Signs
  <2>2. \A e \in Devices : Holds(e)' \subseteq used' /\ Coming(call[e])' \subseteq refresh'
      BY <1>1, <2>1 DEF IInv, TokensOK
  <2>3. \A e, f \in Devices : e # f => Holds(e)' \cap Holds(f)' = {}
      BY <2>1 DEF IInv, TokensOK
  <2>4. \A e \in Devices : e \notin cut' /\ ~Between(call[e])' => device'[e].refresh \subseteq refresh'
      BY <1>1 DEF IInv, TokensOK, Between
  <2> QED BY <2>2, <2>3, <2>4 DEF TokensOK
<1>5. VersionsOK'
    BY <1>1 DEF IInv, VersionsOK, Sessions!Changes
<1> QED BY <1>2, <1>3, <1>4, <1>5 DEF IInv

\* A new token is nobody else's.
LEMMA IssueInv ==
    ASSUME SessionConstants, IInv, NEW d \in Devices, NEW jti \in Tokens, Sessions!Issue(d, jti)
    PROVE  IInv'
<1> DEFINE c == [call[d] EXCEPT !.stage = "commit", !.jti = {jti}]
<1>1. /\ call[d].stage = "issue" /\ jti \notin used /\ refresh' = refresh \cup {jti} /\ used' = used \cup {jti}
      /\ call' = [call EXCEPT ![d] = c] /\ UNCHANGED <<user, reset, device, cut, crossed, fresh>>
    BY DEF Sessions!Issue, Sessions!Stored
<1>2. /\ c \in Calls /\ c.stage = "commit" /\ c.op = call[d].op /\ c.seen = call[d].seen
      /\ c.jti = {jti} /\ c.wrote = call[d].wrote
    BY ZenonT(60) DEF IInv, TypesOK, Calls, Stages, Jtis
<1> HIDE DEF c
<1>3. \A e \in Devices : call'[e] = IF e = d THEN c ELSE call[e]
    BY <1>1 DEF IInv, TypesOK
<1>4. /\ CallOK(c) /\ Coming(c) = {jti} /\ Coming(call[d]) = {} /\ ~Sessions!Changes(c)
      /\ Between(c) <=> Between(call[d])
    BY <1>1, <1>2 DEF IInv, CallsOK, CallOK, Coming, Between, Signs, Sessions!Changes
<1>5. TypesOK'
  <2>1. call' \in [Devices -> Calls]
      BY <1>1, <1>2 DEF IInv, TypesOK
  <2>2. used' \subseteq Jtis /\ refresh' \subseteq used' \cap Tokens /\ reset' \subseteq used' \cap Resets
      BY <1>1 DEF IInv, TypesOK, Jtis
  <2> QED BY <1>1, <2>1, <2>2 DEF IInv, TypesOK
<1>6. CallsOK'
  <2>1. \A e \in Devices : CallOK(call'[e])
      BY <1>3, <1>4 DEF IInv, CallsOK
  <2>2. \A e \in Devices : call'[e].stage \in {"get", "select", "delete"} => call'[e].jti = device'[e].refresh
      BY <1>1, <1>2, <1>3 DEF IInv, CallsOK
  <2>3. \A e, f \in Devices : call'[e].wrote /\ call'[f].wrote => e = f
      BY <1>2, <1>3 DEF IInv, CallsOK
  <2> QED BY <2>1, <2>2, <2>3 DEF CallsOK, CallOK, Sessions!Changes, Signs
<1>7. NoneYet'
    BY <1>1, <1>2, <1>3 DEF IInv, NoneYet
<1>8. TokensOK'
  <2>1. /\ Holds(d)' = Holds(d) \cup {jti} /\ Coming(call[d])' = {jti}
        /\ \A e \in Devices : e # d => Holds(e)' = Holds(e) /\ Coming(call[e])' = Coming(call[e])
      BY <1>1, <1>3, <1>4 DEF Holds, Coming, Signs
  <2>2. \A e \in Devices : jti \notin Holds(e)
      BY <1>1 DEF IInv, TokensOK
  <2>3. \A e \in Devices : Holds(e)' \subseteq used' /\ Coming(call[e])' \subseteq refresh'
      BY <1>1, <2>1 DEF IInv, TokensOK
  <2>4. \A e, f \in Devices : e # f => Holds(e)' \cap Holds(f)' = {}
      BY <2>1, <2>2 DEF IInv, TokensOK
  <2>5. \A e \in Devices : Between(call[e])' <=> Between(call[e])
      BY <1>3, <1>4 DEF Between
  <2>6. \A e \in Devices : e \notin cut' /\ ~Between(call[e])' => device'[e].refresh \subseteq refresh'
      BY <1>1, <2>5 DEF IInv, TokensOK
  <2> QED BY <2>3, <2>4, <2>6 DEF TokensOK
<1>9. VersionsOK'
    BY <1>1, <1>2, <1>3, <1>4 DEF IInv, VersionsOK, Sessions!Changes
<1>10. AccessOK'
    BY <1>1 DEF IInv, AccessOK
<1> QED BY <1>5, <1>6, <1>7, <1>8, <1>9, <1>10 DEF IInv

-----------------------------------------------------------------------------
(* The commit, and the whole.                                              *)

\* What a commit leaves of the row.
LEMMA RowOK ==
    ASSUME SessionConstants, IInv, NEW d \in Devices, call[d].stage = "commit"
    PROVE  /\ Sessions!Row(call[d]) \in [state : {"none", "live", "deleted"}, tv : 0..MaxVersion, linked : BOOLEAN]
           /\ Sessions!Row(call[d]).state # "none"
           /\ Sessions!Changes(call[d]) => Sessions!Row(call[d]).tv = call[d].seen + 1
           /\ ~Sessions!Changes(call[d]) => Sessions!Row(call[d]).tv = user.tv
<1> DEFINE c == call[d]
<1>1. /\ user \in [state : {"none", "live", "deleted"}, tv : 0..MaxVersion, linked : BOOLEAN]
      /\ c \in Calls /\ CallOK(c) /\ (user.state = "none" => c.op = "register")
    BY DEF IInv, TypesOK, CallsOK, NoneYet
<1> HIDE DEF c
<1>2. c.stage = "commit"
    BY DEF c
<1>3. CASE Sessions!Changes(c)
  <2>1. c.seen \in 0..MaxVersion /\ c.seen < MaxVersion /\ c.op # "register"
      BY <1>1, <1>2, <1>3 DEF CallOK, Calls, Sessions!Changes
  <2>2. c.seen + 1 \in 0..MaxVersion
      BY <2>1 DEF SessionConstants
  <2>3. Sessions!Row(c) = [user EXCEPT !.tv = c.seen + 1, !.state = IF c.op = "leave" THEN "deleted" ELSE @]
      BY <1>3 DEF Sessions!Row, Sessions!Changes, Sessions!NextVersion
  <2>4. Sessions!Row(c) \in [state : {"none", "live", "deleted"}, tv : 0..MaxVersion, linked : BOOLEAN]
      BY <1>1, <2>2, <2>3
  <2>5. Sessions!Row(c).tv = c.seen + 1 /\ Sessions!Row(c).state # "none"
      BY <1>1, <2>1, <2>3
  <2> QED BY <1>3, <2>4, <2>5 DEF c
<1>4. CASE ~Sessions!Changes(c)
  <2>1. CASE c.op = "register"
    <3>1. Sessions!Row(c) = [user EXCEPT !.state = "live"]
        BY <1>1, <1>4, <2>1 DEF Sessions!Row, CallOK, Sessions!Changes
    <3>2. Sessions!Row(c) \in [state : {"none", "live", "deleted"}, tv : 0..MaxVersion, linked : BOOLEAN]
        BY <1>1, <3>1
    <3>3. Sessions!Row(c).tv = user.tv /\ Sessions!Row(c).state = "live"
        BY <1>1, <3>1
    <3> QED BY <1>4, <3>2, <3>3 DEF c
  <2>2. CASE c.op = "link"
    <3>1. Sessions!Row(c) = [user EXCEPT !.linked = TRUE] /\ user.state # "none"
        BY <1>1, <1>4, <2>2 DEF Sessions!Row, Sessions!Changes
    <3>2. Sessions!Row(c) \in [state : {"none", "live", "deleted"}, tv : 0..MaxVersion, linked : BOOLEAN]
        BY <1>1, <3>1
    <3>3. Sessions!Row(c).tv = user.tv /\ Sessions!Row(c).state = user.state
        BY <1>1, <3>1
    <3> QED BY <1>4, <3>1, <3>2, <3>3 DEF c
  <2>3. CASE c.op \notin {"register", "link"}
    <3>1. Sessions!Row(c) = user /\ user.state # "none"
        BY <1>1, <1>4, <2>3 DEF Sessions!Row, Sessions!Changes
    <3> QED BY <1>1, <1>4, <3>1 DEF c
  <2> QED BY <2>1, <2>2, <2>3
<1> QED BY <1>3, <1>4

\* The commit writes the row, and the answer hands out the tokens.
LEMMA CommitInv ==
    ASSUME SessionConstants, IInv, NEW d \in Devices, NEW heard \in BOOLEAN, Sessions!Commit(d, heard)
    PROVE  IInv'
<1> DEFINE c == call[d]
           answered == ~Sessions!Changes(c) /\ heard
           holds == [access |-> {c.seen}, refresh |-> c.jti]
<1>1. /\ c.stage = "commit" /\ user' = Sessions!Row(c) /\ call' = [call EXCEPT ![d] = Sessions!Quiet]
      /\ fresh' = [e \in Devices |-> IF Sessions!Changes(c) THEN FALSE
                                     ELSE IF e = d /\ heard THEN c.seen = user.tv ELSE fresh[e]]
      /\ IF answered THEN device' = [device EXCEPT ![d] = holds] ELSE device' = device
      /\ cut' = IF Sessions!Changes(c) THEN cut ELSE IF heard THEN cut \ {d} ELSE cut \cup {d}
      /\ UNCHANGED <<refresh, reset, used, crossed>>
    BY DEF Sessions!Commit, Sessions!Ends
<1>2. /\ c \in Calls /\ CallOK(c) /\ user.tv \in 0..MaxVersion /\ user.tv \in Nat /\ c.seen \in 0..MaxVersion
      /\ c.jti \subseteq Jtis
    BY DEF IInv, TypesOK, CallsOK, SessionConstants, Calls
<1>3. /\ user' \in [state : {"none", "live", "deleted"}, tv : 0..MaxVersion, linked : BOOLEAN]
      /\ user'.state # "none" /\ (Sessions!Changes(c) => user'.tv = c.seen + 1) /\ (~Sessions!Changes(c) => user'.tv = user.tv)
    BY <1>1, RowOK
<1>4. (Sessions!Changes(c) => c.wrote /\ ~Signs(c)) /\ (~Sessions!Changes(c) => Signs(c))
    BY <1>1, <1>2 DEF CallOK, Signs, Sessions!Changes
<1>5. /\ Sessions!Quiet \in Calls /\ CallOK(Sessions!Quiet) /\ Coming(Sessions!Quiet) = {} /\ ~Between(Sessions!Quiet) /\ ~Sessions!Quiet.wrote
      /\ Sessions!Quiet.seen = 0 /\ Sessions!Quiet.stage = "idle" /\ ~Sessions!Changes(Sessions!Quiet)
    BY QuietOK
<1>6. holds \in Sign /\ holds.access = {c.seen} /\ holds.refresh = c.jti
    BY <1>2 DEF Sign
<1>7. Coming(c) = IF Sessions!Changes(c) THEN {} ELSE c.jti
    BY <1>1, <1>4 DEF Coming
<1>8. /\ \A e \in Devices : call'[e] = IF e = d THEN Sessions!Quiet ELSE call[e]
      /\ \A e \in Devices : device'[e] = IF e = d /\ answered THEN holds ELSE device[e]
      /\ \A e \in Devices : fresh'[e] = IF Sessions!Changes(c) THEN FALSE
                                        ELSE IF e = d /\ heard THEN c.seen = user.tv ELSE fresh[e]
    BY <1>1 DEF IInv, TypesOK
<1> HIDE DEF c, answered, holds
<1>9. TypesOK'
  <2>1. device' \in [Devices -> Sign] /\ call' \in [Devices -> Calls]
      BY <1>1, <1>5, <1>6 DEF IInv, TypesOK
  <2>2. fresh' \in [Devices -> BOOLEAN]
      BY <1>1 DEF IInv, TypesOK
  <2>3. cut' \subseteq Devices
      BY <1>1 DEF IInv, TypesOK
  <2> QED BY <1>1, <1>3, <2>1, <2>2, <2>3 DEF IInv, TypesOK
<1>10. CallsOK'
  <2>1. \A e \in Devices : CallOK(call'[e])
      BY <1>5, <1>8 DEF IInv, CallsOK
  <2>2. \A e \in Devices : call'[e].stage \in {"get", "select", "delete"} => call'[e].jti = device'[e].refresh
      BY <1>5, <1>8 DEF IInv, CallsOK
  <2>3. \A e, f \in Devices : call'[e].wrote /\ call'[f].wrote => e = f
      BY <1>5, <1>8 DEF IInv, CallsOK
  <2> QED BY <2>1, <2>2, <2>3 DEF CallsOK, CallOK, Sessions!Changes, Signs
<1>11. NoneYet'
    BY <1>3 DEF NoneYet
<1>12. TokensOK'
  <2>1. /\ Coming(call[d])' = {} /\ Holds(d)' \subseteq Holds(d)
        /\ \A e \in Devices : e # d => Holds(e)' = Holds(e) /\ Coming(call[e])' = Coming(call[e])
    <3>1. /\ Coming(call[d])' = {}
          /\ \A e \in Devices : e # d => Coming(call[e])' = Coming(call[e]) /\ device'[e] = device[e]
        BY <1>5, <1>8 DEF Coming, Signs
    <3>2. device'[d].refresh \subseteq Holds(d)
        BY <1>6, <1>7, <1>8 DEF Holds, c, answered
    <3> QED BY <3>1, <3>2 DEF Holds
  <2>2. \A e \in Devices : Holds(e)' \subseteq used' /\ Coming(call[e])' \subseteq refresh'
      BY <1>1, <2>1 DEF IInv, TokensOK
  <2>3. \A e, f \in Devices : e # f => Holds(e)' \cap Holds(f)' = {}
      BY <2>1 DEF IInv, TokensOK
  <2>4. ASSUME NEW e \in Devices, e \notin cut', ~Between(call[e])' PROVE device'[e].refresh \subseteq refresh'
    <3>1. CASE e # d
        BY <1>1, <1>8, <2>4, <3>1 DEF IInv, TokensOK, Between
    <3>2. CASE e = d /\ answered
      <4>1. c.jti \subseteq refresh
          BY <1>7, <3>2 DEF IInv, TokensOK, c, answered
      <4> QED BY <1>1, <1>6, <1>8, <3>2, <4>1
    <3>3. CASE e = d /\ Sessions!Changes(c)
      <4>1. d \notin cut /\ ~Between(call[d])
          BY <1>1, <1>4, <2>4, <3>3 DEF Between, Sessions!Changes, c
      <4> QED BY <1>1, <1>8, <3>3, <4>1 DEF IInv, TokensOK, answered
    <3>4. CASE e = d /\ ~Sessions!Changes(c) /\ ~heard
        BY <1>1, <2>4, <3>4
    <3> QED BY <3>1, <3>2, <3>3, <3>4 DEF answered
  <2> QED BY <2>2, <2>3, <2>4 DEF TokensOK
<1>13. VersionsOK'
  <2> SUFFICES ASSUME ~crossed, NEW e \in Devices
               PROVE  /\ call'[e].seen <= user'.tv
                      /\ call'[e].stage = "commit" /\ Sessions!Changes(call'[e]) => call'[e].seen = user'.tv
                      /\ \A n \in device'[e].access : n <= user'.tv /\ (~fresh'[e] => n < user'.tv)
      BY <1>1 DEF VersionsOK, Sessions!Changes
  <2>1. /\ c.seen <= user.tv /\ (Sessions!Changes(c) => c.seen = user.tv)
        /\ call[e].seen \in Nat /\ call[e].seen <= user.tv
        /\ call[e].stage = "commit" /\ Sessions!Changes(call[e]) => call[e].seen = user.tv
        /\ \A n \in device[e].access : n \in Nat /\ n <= user.tv /\ (~fresh[e] => n < user.tv)
    <3>1. call[e].seen \in Nat /\ device[e].access \subseteq Nat
        BY DEF IInv, TypesOK, Calls, Sign, SessionConstants
    <3> QED BY <1>1, <3>1 DEF IInv, VersionsOK, c
  <2>2. user'.tv \in Nat /\ user.tv <= user'.tv /\ (Sessions!Changes(c) => user.tv < user'.tv)
      BY <1>2, <1>3, <2>1
  <2>3. call'[e].seen <= user'.tv
      BY <1>2, <1>5, <1>8, <2>1, <2>2
  <2>4. call'[e].stage = "commit" /\ Sessions!Changes(call'[e]) => call'[e].seen = user'.tv
    <3>1. CASE e = d
        BY <1>5, <1>8, <3>1
    <3>2. CASE e # d /\ Sessions!Changes(c)
      <4>1. ~call[e].wrote /\ CallOK(call[e])
          BY <1>4, <3>2 DEF IInv, CallsOK, c
      <4>2. ~(call[e].stage = "commit" /\ Sessions!Changes(call[e]))
          BY <4>1 DEF CallOK, Sessions!Changes, Signs
      <4> QED BY <1>8, <3>2, <4>2
    <3>3. CASE e # d /\ ~Sessions!Changes(c)
        BY <1>3, <1>8, <2>1, <3>3
    <3> QED BY <3>1, <3>2, <3>3
  <2>5. ASSUME NEW n \in device'[e].access PROVE n <= user'.tv /\ (~fresh'[e] => n < user'.tv)
    <3>1. CASE e = d /\ answered
      <4>1. n = c.seen /\ (~fresh'[e] => c.seen # user.tv) /\ user'.tv = user.tv
          BY <1>3, <1>6, <1>8, <2>5, <3>1 DEF answered
      <4>2. c.seen \in Nat /\ user.tv \in Nat /\ c.seen <= user.tv
          BY <1>2, <2>1 DEF SessionConstants
      <4>3. c.seen # user.tv => c.seen < user.tv
          BY <4>2
      <4> QED BY <4>1, <4>2, <4>3
    <3>2. CASE ~(e = d /\ answered)
      <4>1. n \in device[e].access /\ (~Sessions!Changes(c) => fresh'[e] = fresh[e])
          BY <1>8, <3>2 DEF answered
      <4> QED BY <1>2, <1>3, <2>1, <2>2, <4>1
    <3> QED BY <3>1, <3>2
  <2> QED BY <2>3, <2>4, <2>5
<1>14. AccessOK'
    BY <1>2, <1>6, <1>8 DEF IInv, AccessOK
<1> QED BY <1>9, <1>10, <1>11, <1>12, <1>13, <1>14 DEF IInv

\* Every step keeps the invariant.
LEMMA SessionStep == ASSUME SessionConstants, IInv, [Sessions!Next]_(Sessions!sessionVars) PROVE IInv'
<1>1. CASE UNCHANGED Sessions!sessionVars
  <2>1. UNCHANGED <<user, refresh, reset, used, device, call, cut, crossed, fresh>>
      BY <1>1 DEF Sessions!sessionVars
  <2>2. TypesOK' /\ CallsOK' /\ NoneYet'
      BY <2>1 DEF IInv, TypesOK, CallsOK, CallOK, Sessions!Changes, Signs, NoneYet
  <2>3. TokensOK' /\ VersionsOK' /\ AccessOK'
      BY <2>1 DEF IInv, TokensOK, Holds, Coming, Between, Signs, VersionsOK, Sessions!Changes, AccessOK
  <2> QED BY <2>2, <2>3 DEF IInv
<1>2. ASSUME NEW d \in Devices, Sessions!Get(d) \/ Sessions!Delete(d) PROVE IInv'
    BY <1>2, Middles, Departures, DeletesOld
<1>3. ASSUME NEW d \in Devices,
             \/ Sessions!Register(d) \/ Sessions!Login(d) \/ Sessions!OAuth(d) \/ Sessions!BeginRefresh(d)
             \/ user.tv < MaxVersion /\ \E op \in {"change", "leave"} : Sessions!BeginChange(d, op)
             \/ user.tv < MaxVersion /\ \E r \in Resets : Sessions!BeginConfirm(d, r)
      PROVE  IInv'
    BY <1>3, Beginnings
<1>4. ASSUME NEW d \in Devices, Sessions!Select(d) \/ Sessions!Flush(d) \/ Sessions!Break(d) \/ (user.tv < MaxVersion /\ Sessions!Take(d)) PROVE IInv'
    BY <1>4, Middles
<1>5. ASSUME NEW d \in Devices, Sessions!Logout(d) PROVE IInv'
    BY <1>5, Departures
<1>6. ASSUME NEW d \in Devices, NEW heard \in BOOLEAN, Sessions!Commit(d, heard) PROVE IInv'
    BY <1>6, CommitInv
<1> QED BY <1>1, <1>2, <1>3, <1>4, <1>5, <1>6, IssueInv, ExpireInv, RequestResetInv DEF Sessions!Next

\* For any number of devices, tokens and password changes, sessions end when
\* they should and not before: a device keeps a live refresh token until it
\* signs out, unless a refresh of its own was interrupted (refresh_tokens), and
\* access tokens from before a change of the password are refused, unless two
\* changes wrote one version (change_password, confirm_password_reset).
THEOREM SessionsEndRightly == AccountsSpec => []SessionInv
<1> DEFINE Held == component = "sessions" => IInv
<1>0. SessionConstants
    BY AccountsAssumption DEF AccountsAssumption, SessionConstants
<1>1. AccountsInit => Held
    BY <1>0, SessionInit DEF AccountsInit
<1>2. Held /\ [AccountsNext]_accountsVars => Held'
  <2> SUFFICES ASSUME IInv, component = "sessions", [AccountsNext]_accountsVars
               PROVE  component' = "sessions" => IInv'
      BY DEF AccountsNext, accountsVars
  <2>1. CASE UNCHANGED accountsVars
      BY <2>1, <1>0, SessionStep DEF accountsVars, people, sessionVars, Sessions!sessionVars
  <2>2. CASE AccountsNext
      BY <2>2, <1>0, SessionStep DEF AccountsNext
  <2> QED BY <2>1, <2>2
<1>3. Held => SessionInv
    BY <1>0, SessionHolds DEF SessionInv
<1> QED BY <1>1, <1>2, <1>3, PTL DEF AccountsSpec

-----------------------------------------------------------------------------
(* Expiry.                                                                 *)

ExpiryConstants == IsFiniteSet(Users)

Listing == UNION {[S -> Nat] : S \in SUBSET Users}
Reviews == [stage : {"idle", "ask", "apply", "tell"}, ids : Listing, plan : Expiry!Plans, moved : BOOLEAN, snap : Expiry!Plans]

ExpiryTyped ==
    /\ truth \in [Users -> Expiry!Plans] /\ plan \in [Users -> Expiry!Plans] /\ age \in [Users -> 0..Expiry!Day]
    /\ order \in Expiry!Orders /\ review \in Reviews /\ (review.stage = "idle" <=> DOMAIN review.ids = {})
    /\ told \in [Users -> Nat] /\ ended \in [Users -> Nat]

\* What a pass has read of its first account is still so, unless an event has
\* verified the row; and before it tells, an end has been counted and not told.
ReadStands ==
    /\ review.stage = "apply" /\ ~review.moved => \A u \in Users : u = Expiry!Head1 => review.plan = plan[u]
    /\ review.stage = "tell" => \A u \in Users : u = Expiry!Head1 => told[u] < ended[u]

\* The invariant.
ReviewInv == ExpiryTyped /\ ReadStands /\ Expiry!NoticesTrue

LEMMA SameExpiryCardinality == \A S : Expiry!Cardinality(S) = Cardinality(S)
BY DEF Expiry!Cardinality, Cardinality

LEMMA ExpiryHolds == ASSUME ReviewInv PROVE Expiry!ExpiryInv
<1>1. DOMAIN review.ids \subseteq Users /\ review.stage \in {"idle", "ask", "apply", "tell"}
    BY DEF ReviewInv, ExpiryTyped, Reviews, Listing
<1> QED BY <1>1 DEF ReviewInv, ExpiryTyped, Expiry!ExpiryInv, Expiry!ExpiryTypeOK

LEMMA IdlePass ==
    Expiry!NoPass \in Reviews /\ Expiry!NoPass.stage = "idle" /\ DOMAIN Expiry!NoPass.ids = {}
<1>1. <<>> \in [{} -> Nat] /\ DOMAIN <<>> = {}
    OBVIOUS
<1>2. <<>> \in Listing
    BY <1>1 DEF Listing
<1> QED BY <1>1, <1>2 DEF Expiry!NoPass, Reviews, Expiry!Plans

LEMMA ExpiryInit == ASSUME Expiry!Init PROVE ReviewInv
<1>1. ExpiryTyped
    BY IdlePass DEF Expiry!Init, ExpiryTyped, Expiry!Plans, Expiry!Day
<1>2. ReadStands
    BY IdlePass DEF Expiry!Init, ReadStands
<1>3. Expiry!NoticesTrue
    BY DEF Expiry!Init, Expiry!NoticesTrue
<1> QED BY <1>1, <1>2, <1>3 DEF ReviewInv

\* Whoever is verified goes behind all others, who keep their order.
LEMMA BehindIsOrder ==
    ASSUME ExpiryConstants, order \in Expiry!Orders, NEW u \in Users
    PROVE  Expiry!Behind(u) \in Expiry!Orders
<1> DEFINE N == Expiry!Cardinality(Users)
           g == Expiry!Behind(u)
<1>1. N \in Nat
    BY SameExpiryCardinality, FS_CardinalityType DEF ExpiryConstants
<1>2. order \in [Users -> 1..N] /\ \A v, w \in Users : order[v] = order[w] => v = w
    BY DEF Expiry!Orders
<1> HIDE DEF N
<1>3. \A v \in Users : g[v] = IF v = u THEN N ELSE IF order[v] > order[u] THEN order[v] - 1 ELSE order[v]
    BY DEF Expiry!Behind, N
<1>4. ASSUME NEW v \in Users PROVE g[v] \in 1..N /\ (v # u => g[v] < N)
  <2>1. order[v] \in 1..N /\ order[u] \in 1..N /\ (v # u => order[v] # order[u])
      BY <1>2
  <2> QED BY <1>1, <1>3, <2>1
<1>5. ASSUME NEW v \in Users, NEW w \in Users, g[v] = g[w] PROVE v = w
  <2>1. order[v] \in 1..N /\ order[w] \in 1..N /\ order[u] \in 1..N
      BY <1>2
  <2>2. g[v] \in 1..N /\ g[w] \in 1..N /\ (v # u => g[v] < N) /\ (w # u => g[w] < N)
      BY <1>4
  <2>3. CASE v = u \/ w = u
      BY <1>1, <1>3, <1>5, <2>2, <2>3
  <2>4. CASE v # u /\ w # u
    <3>1. order[v] # order[u] /\ order[w] # order[u]
        BY <1>2, <2>4
    <3>2. order[v] = order[w]
        BY <1>3, <1>5, <2>1, <2>4, <3>1
    <3> QED BY <1>2, <3>2
  <2> QED BY <2>3, <2>4
<1>6. g = [v \in Users |-> g[v]]
    BY DEF Expiry!Behind
<1> HIDE DEF g
<1>7. g \in [Users -> 1..N]
    BY <1>4, <1>6
<1> QED BY <1>5, <1>7 DEF Expiry!Orders, g, N

\* The next account of a pass.
LEMMA NextPass ==
    ASSUME ExpiryTyped
    PROVE  /\ Expiry!Next1 \in Reviews /\ (Expiry!Next1.stage = "idle" <=> DOMAIN Expiry!Next1.ids = {})
           /\ Expiry!Next1.stage \in {"idle", "ask"}
<1> DEFINE rest == DOMAIN review.ids \ {Expiry!Head1}
           left1 == [u \in rest |-> review.ids[u]]
<1>1. PICK S \in SUBSET Users : review.ids \in [S -> Nat]
    BY DEF ExpiryTyped, Reviews, Listing
<1>2. left1 \in [rest -> Nat] /\ rest \in SUBSET Users /\ DOMAIN left1 = rest
    BY <1>1
<1>3. left1 \in Listing
    BY <1>2 DEF Listing
<1> HIDE DEF left1, rest
<1>4. CASE rest = {}
  <2>1. Expiry!Next1 = Expiry!NoPass
      BY <1>4 DEF Expiry!Next1, rest
  <2> QED BY <2>1, IdlePass
<1>5. CASE rest # {}
  <2>1. Expiry!Next1 = [Expiry!NoPass EXCEPT !.stage = "ask", !.ids = left1]
      BY <1>5 DEF Expiry!Next1, rest, left1
  <2>2. Expiry!Next1 = [stage |-> "ask", ids |-> left1, plan |-> "free", moved |-> FALSE, snap |-> "free"]
      BY <2>1 DEF Expiry!NoPass
  <2> QED BY <1>2, <1>3, <1>5, <2>2 DEF Reviews, Expiry!Plans
<1> QED BY <1>4, <1>5

\* Steps that change no row and tell nobody.
LEMMA PassMoves ==
    ASSUME ReviewInv, UNCHANGED <<truth, plan, age, order, told, ended>>, review' \in Reviews,
           review'.stage = "idle" <=> DOMAIN review'.ids = {}, review'.stage \in {"idle", "ask"}
    PROVE  ReviewInv'
BY DEF ReviewInv, ExpiryTyped, ReadStands, Expiry!NoticesTrue

LEMMA PassesOn ==
    ASSUME ReviewInv, NEW u \in Users,
           Expiry!Refused(u) \/ Expiry!Fatal(u) \/ Expiry!Crash \/ Expiry!StartPass
    PROVE  ReviewInv'
<1>1. UNCHANGED <<truth, plan, age, order, told, ended>>
    BY DEF Expiry!Refused, Expiry!Fatal, Expiry!Crash, Expiry!StartPass
<1>2. CASE Expiry!Refused(u)
    BY <1>1, <1>2, NextPass, PassMoves DEF Expiry!Refused, ReviewInv
<1>3. CASE Expiry!Fatal(u) \/ Expiry!Crash
    BY <1>1, <1>3, IdlePass, PassMoves DEF Expiry!Fatal, Expiry!Crash
<1>4. CASE Expiry!StartPass
  <2> DEFINE S == {v \in Users : Expiry!Due(v)}
             listed == [v \in S |-> order[v]]
  <2>1. order \in [Users -> 1..Expiry!Cardinality(Users)]
      BY DEF ReviewInv, ExpiryTyped, Expiry!Orders
  <2>2. listed \in [S -> Nat] /\ S \in SUBSET Users /\ DOMAIN listed = S
      BY <2>1
  <2>3. listed \in Listing
      BY <2>2 DEF Listing
  <2>4. S # {}
      BY <1>4 DEF Expiry!StartPass
  <2>5. review' = [Expiry!NoPass EXCEPT !.stage = "ask", !.ids = listed]
      BY <1>4 DEF Expiry!StartPass
  <2> HIDE DEF listed, S
  <2>6. review' = [stage |-> "ask", ids |-> listed, plan |-> "free", moved |-> FALSE, snap |-> "free"]
      BY <2>5 DEF Expiry!NoPass
  <2>7. review' \in Reviews
      BY <2>3, <2>6 DEF Reviews, Expiry!Plans
  <2> QED BY <1>1, <2>2, <2>4, <2>6, <2>7, PassMoves
<1> QED BY <1>2, <1>3, <1>4

\* The provider and the clock: rows change only while no answer is awaited.
LEMMA WorldMoves ==
    ASSUME ReviewInv, (\E u \in Users : Expiry!Change(u) \/ Expiry!Ban(u) \/ Expiry!Unban(u)) \/ Expiry!Wait
    PROVE  ReviewInv'
<1>1. UNCHANGED <<order, review, told, ended>>
    BY DEF Expiry!Change, Expiry!Ban, Expiry!Unban, Expiry!Wait
<1>2. truth' \in [Users -> Expiry!Plans] /\ plan' \in [Users -> Expiry!Plans] /\ age' \in [Users -> 0..Expiry!Day]
  <2>1. CASE \E u \in Users : Expiry!Change(u)
      BY <2>1 DEF Expiry!Change, ReviewInv, ExpiryTyped, Expiry!Plans
  <2>2. CASE Expiry!Wait
      BY <2>2 DEF Expiry!Wait, ReviewInv, ExpiryTyped, Expiry!Plans, Expiry!Day
  <2>3. CASE \E u \in Users : Expiry!Ban(u) \/ Expiry!Unban(u)
      BY <2>3 DEF Expiry!Ban, Expiry!Unban, ReviewInv, ExpiryTyped
  <2> QED BY <2>1, <2>2, <2>3
<1>3. review.stage = "apply" => UNCHANGED plan
    BY DEF Expiry!Change, Expiry!Ban, Expiry!Unban, Expiry!Wait
<1>4. Expiry!Head1' = Expiry!Head1
    BY <1>1 DEF Expiry!Head1
<1> QED BY <1>1, <1>2, <1>3, <1>4 DEF ReviewInv, ExpiryTyped, ReadStands, Expiry!NoticesTrue

LEMMA ReadMoves == ASSUME ReviewInv, NEW u \in Users, Expiry!Read(u) PROVE ReviewInv'
<1>1. /\ review' = [review EXCEPT !.stage = "apply", !.plan = plan[u], !.snap = truth[u]]
      /\ u = Expiry!Head1 /\ UNCHANGED <<truth, plan, age, order, told, ended>> /\ review.stage = "ask"
    BY DEF Expiry!Read
<1>2. review \in Reviews /\ plan[u] \in Expiry!Plans /\ truth[u] \in Expiry!Plans
    BY DEF ReviewInv, ExpiryTyped
<1>3. review' \in Reviews /\ review'.stage = "apply" /\ review'.ids = review.ids /\ review'.plan = plan[u]
    BY <1>1, <1>2 DEF Reviews
<1>4. Expiry!Head1' = Expiry!Head1
    BY <1>3 DEF Expiry!Head1
<1>5. ExpiryTyped'
    BY <1>1, <1>3 DEF ReviewInv, ExpiryTyped
<1>6. ReadStands'
    BY <1>1, <1>3, <1>4 DEF ReadStands
<1> QED BY <1>1, <1>5, <1>6 DEF ReviewInv, Expiry!NoticesTrue

\* What a reconciliation writes keeps the types, and ends are only added.
LEMMA VerifiedRow ==
    ASSUME ExpiryConstants, ReviewInv, NEW u \in Users, NEW p \in Expiry!Plans, Expiry!Verified(u, p)
    PROVE  /\ plan' \in [Users -> Expiry!Plans] /\ age' \in [Users -> 0..Expiry!Day] /\ order' \in Expiry!Orders
           /\ ended' \in [Users -> Nat] /\ \A v \in Users : ended[v] <= ended'[v]
           /\ \A v \in Users \ {u} : plan'[v] = plan[v]
           /\ plan[u] # "free" /\ p = "free" => ended'[u] = ended[u] + 1
<1>1. ended \in [Users -> Nat] /\ plan \in [Users -> Expiry!Plans] /\ age \in [Users -> 0..Expiry!Day]
    BY DEF ReviewInv, ExpiryTyped
<1>2. order' \in Expiry!Orders
    BY BehindIsOrder DEF Expiry!Verified, ReviewInv, ExpiryTyped
<1>3. ended' = (IF plan[u] # "free" /\ p = "free" THEN [ended EXCEPT ![u] = ended[u] + 1] ELSE ended)
    BY DEF Expiry!Verified
<1>4. plan' = [plan EXCEPT ![u] = p] /\ age' = [age EXCEPT ![u] = 0]
    BY DEF Expiry!Verified
<1>5. ended' \in [Users -> Nat] /\ \A v \in Users : ended[v] <= ended'[v]
    BY <1>1, <1>3
<1>6. plan[u] # "free" /\ p = "free" => ended'[u] = ended[u] + 1
    BY <1>1, <1>3
<1>7. plan' \in [Users -> Expiry!Plans] /\ \A v \in Users \ {u} : plan'[v] = plan[v]
    BY <1>1, <1>4
<1>8. age' \in [Users -> 0..Expiry!Day]
    BY <1>1, <1>4 DEF Expiry!Day
<1> QED BY <1>2, <1>5, <1>6, <1>7, <1>8

LEMMA EventMoves == ASSUME ExpiryConstants, ReviewInv, NEW u \in Users, Expiry!Event(u) PROVE ReviewInv'
<1>1. truth[u] \in Expiry!Plans /\ review \in Reviews /\ UNCHANGED <<truth, told>>
    BY DEF ReviewInv, ExpiryTyped, Expiry!Event
<1>2. /\ plan' \in [Users -> Expiry!Plans] /\ age' \in [Users -> 0..Expiry!Day] /\ order' \in Expiry!Orders
      /\ ended' \in [Users -> Nat] /\ \A v \in Users : ended[v] <= ended'[v]
      /\ \A v \in Users \ {u} : plan'[v] = plan[v]
    BY <1>1, VerifiedRow DEF Expiry!Event
<1>3. /\ review' \in Reviews /\ review'.stage = review.stage /\ review'.ids = review.ids /\ review'.plan = review.plan
      /\ review.stage = "apply" /\ u = Expiry!Head1 => review'.moved
      /\ review.moved => review'.moved
  <2>1. CASE review.stage = "apply" /\ u = Expiry!Head1
    <3>1. review' = [review EXCEPT !.moved = TRUE]
        BY <2>1 DEF Expiry!Event
    <3> QED BY <1>1, <3>1 DEF Reviews
  <2>2. CASE ~(review.stage = "apply" /\ u = Expiry!Head1)
    <3>1. review' = review
        BY <2>2 DEF Expiry!Event
    <3> QED BY <1>1, <2>2, <3>1
  <2> QED BY <2>1, <2>2
<1>4. Expiry!Head1' = Expiry!Head1
    BY <1>3 DEF Expiry!Head1
<1>5. ExpiryTyped'
    BY <1>1, <1>2, <1>3 DEF ReviewInv, ExpiryTyped
<1>6. ReadStands'
  <2>1. ASSUME NEW v \in Users, v = Expiry!Head1, review'.stage = "apply", ~review'.moved PROVE review'.plan = plan'[v]
      BY <1>2, <1>3, <2>1 DEF ReviewInv, ReadStands
  <2>2. ASSUME NEW v \in Users, v = Expiry!Head1, review'.stage = "tell" PROVE told'[v] < ended'[v]
    <3>1. told[v] < ended[v] /\ told[v] \in Nat /\ ended[v] \in Nat /\ ended'[v] \in Nat /\ ended[v] <= ended'[v]
        BY <1>2, <1>3, <2>2 DEF ReviewInv, ReadStands, ExpiryTyped
    <3> QED BY <1>1, <3>1
  <2> QED BY <1>4, <2>1, <2>2 DEF ReadStands
<1>7. Expiry!NoticesTrue'
  <2>1. ASSUME NEW v \in Users PROVE told'[v] <= ended'[v]
    <3>1. told[v] <= ended[v] /\ told[v] \in Nat /\ ended[v] \in Nat /\ ended'[v] \in Nat /\ ended[v] <= ended'[v]
        BY <1>2 DEF ReviewInv, Expiry!NoticesTrue, ExpiryTyped
    <3> QED BY <1>1, <3>1
  <2> QED BY <2>1 DEF Expiry!NoticesTrue
<1> QED BY <1>5, <1>6, <1>7 DEF ReviewInv

LEMMA ApplyMoves == ASSUME ExpiryConstants, ReviewInv, NEW u \in Users, Expiry!Apply(u) PROVE ReviewInv'
<1>1. /\ review.stage = "apply" /\ u = Expiry!Head1 /\ UNCHANGED <<truth, told>>
      /\ review \in Reviews /\ review.snap \in Expiry!Plans
    BY DEF Expiry!Apply, ReviewInv, ExpiryTyped, Reviews
<1>2. CASE review.moved \/ u \in banned
  <2>1. review' = Expiry!Next1 /\ UNCHANGED <<plan, age, order, ended>>
      BY <1>2 DEF Expiry!Apply
  <2> QED BY <1>1, <2>1, NextPass, PassMoves DEF ReviewInv
<1>3. CASE ~(review.moved \/ u \in banned)
  <2>1. Expiry!Verified(u, review.snap) /\ review.plan = plan[u]
      BY <1>1, <1>3 DEF Expiry!Apply, ReviewInv, ReadStands
  <2>2. /\ plan' \in [Users -> Expiry!Plans] /\ age' \in [Users -> 0..Expiry!Day] /\ order' \in Expiry!Orders
        /\ ended' \in [Users -> Nat] /\ \A v \in Users : ended[v] <= ended'[v]
        /\ plan[u] # "free" /\ review.snap = "free" => ended'[u] = ended[u] + 1
      BY <1>1, <2>1, VerifiedRow
  <2>3. Expiry!NoticesTrue'
    <3>1. ASSUME NEW v \in Users PROVE told'[v] <= ended'[v]
      <4>1. told[v] <= ended[v] /\ told[v] \in Nat /\ ended[v] \in Nat /\ ended'[v] \in Nat /\ ended[v] <= ended'[v]
          BY <2>2 DEF ReviewInv, Expiry!NoticesTrue, ExpiryTyped
      <4> QED BY <1>1, <4>1
    <3> QED BY <3>1 DEF Expiry!NoticesTrue
  <2>4. CASE Expiry!Tells
    <3>1. review' = [review EXCEPT !.stage = "tell"]
        BY <1>3, <2>4 DEF Expiry!Apply
    <3>2. review' \in Reviews /\ review'.stage = "tell" /\ review'.ids = review.ids
        BY <1>1, <3>1 DEF Reviews
    <3>3. Expiry!Head1' = Expiry!Head1
        BY <3>2 DEF Expiry!Head1
    <3>4. ExpiryTyped'
        BY <1>1, <2>2, <3>2 DEF ReviewInv, ExpiryTyped
    <3>5. told'[u] < ended'[u]
      <4>1. ended'[u] = ended[u] + 1
          BY <2>1, <2>2, <2>4 DEF Expiry!Tells
      <4>2. told[u] <= ended[u] /\ told[u] \in Nat /\ ended[u] \in Nat
          BY DEF ReviewInv, Expiry!NoticesTrue, ExpiryTyped
      <4> QED BY <1>1, <4>1, <4>2
    <3>6. ReadStands'
        BY <1>1, <3>2, <3>3, <3>5 DEF ReadStands
    <3> QED BY <2>3, <3>4, <3>6 DEF ReviewInv
  <2>5. CASE ~Expiry!Tells
    <3>1. review' = Expiry!Next1
        BY <1>3, <2>5 DEF Expiry!Apply
    <3>2. review' \in Reviews /\ (review'.stage = "idle" <=> DOMAIN review'.ids = {}) /\ review'.stage \in {"idle", "ask"}
        BY <3>1, NextPass DEF ReviewInv
    <3>3. ExpiryTyped'
        BY <1>1, <2>2, <3>2 DEF ReviewInv, ExpiryTyped
    <3>4. ReadStands'
        BY <3>2 DEF ReadStands
    <3> QED BY <2>3, <3>3, <3>4 DEF ReviewInv
  <2> QED BY <2>4, <2>5
<1> QED BY <1>2, <1>3

LEMMA TellMoves == ASSUME ReviewInv, NEW u \in Users, Expiry!Tell(u) PROVE ReviewInv'
<1>1. /\ told \in [Users -> Nat] /\ ended \in [Users -> Nat] /\ told[u] < ended[u]
      /\ UNCHANGED <<truth, plan, age, order, ended>> /\ review' = Expiry!Next1
      /\ told' \in {told, [told EXCEPT ![u] = told[u] + 1]}
    BY DEF Expiry!Tell, ReviewInv, ExpiryTyped, ReadStands
<1>2. review' \in Reviews /\ (review'.stage = "idle" <=> DOMAIN review'.ids = {}) /\ review'.stage \in {"idle", "ask"}
    BY <1>1, NextPass DEF ReviewInv
<1>3. told' \in [Users -> Nat]
    BY <1>1
<1>4. ASSUME NEW v \in Users PROVE told'[v] <= ended'[v]
  <2>1. told[v] <= ended[v] /\ told[v] \in Nat /\ ended[v] \in Nat
      BY <1>1 DEF ReviewInv, Expiry!NoticesTrue
  <2> QED BY <1>1, <2>1
<1>5. ExpiryTyped'
    BY <1>1, <1>2, <1>3 DEF ReviewInv, ExpiryTyped
<1>6. ReadStands'
    BY <1>2 DEF ReadStands
<1> QED BY <1>4, <1>5, <1>6 DEF ReviewInv, Expiry!NoticesTrue

LEMMA ExpiryStep == ASSUME ExpiryConstants, ReviewInv, [Expiry!Next]_(Expiry!expiryVars) PROVE ReviewInv'
<1>1. CASE UNCHANGED Expiry!expiryVars
  <2>1. UNCHANGED <<truth, plan, age, order, review, told, ended>>
      BY <1>1 DEF Expiry!expiryVars
  <2>2. Expiry!Head1' = Expiry!Head1
      BY <2>1 DEF Expiry!Head1
  <2> QED BY <2>1, <2>2 DEF ReviewInv, ExpiryTyped, ReadStands, Expiry!NoticesTrue
<1>2. CASE Expiry!Next
  <2>1. ASSUME NEW u \in Users, Expiry!Change(u) \/ Expiry!Ban(u) \/ Expiry!Unban(u) PROVE ReviewInv'
      BY <2>1, WorldMoves
  <2>2. ASSUME NEW u \in Users, Expiry!Event(u) PROVE ReviewInv'
      BY <2>2, EventMoves
  <2>3. ASSUME NEW u \in Users, Expiry!Read(u) PROVE ReviewInv'
      BY <2>3, ReadMoves
  <2>4. ASSUME NEW u \in Users, Expiry!Refused(u) \/ Expiry!Fatal(u) PROVE ReviewInv'
      BY <2>4, PassesOn
  <2>5. ASSUME NEW u \in Users, Expiry!Apply(u) PROVE ReviewInv'
      BY <2>5, ApplyMoves
  <2>6. ASSUME NEW u \in Users, Expiry!Tell(u) PROVE ReviewInv'
      BY <2>6, TellMoves
  <2>7. CASE Expiry!Wait
      BY <2>7, WorldMoves
  <2>8. CASE Expiry!StartPass \/ Expiry!Crash
    <3>1. CASE Users = {}
      <4>1. DOMAIN review.ids = {}
          BY <3>1 DEF ReviewInv, ExpiryTyped, Reviews, Listing
      <4>2. review.stage = "idle"
          BY <4>1 DEF ReviewInv, ExpiryTyped
      <4> QED BY <2>8, <3>1, <4>2 DEF Expiry!StartPass, Expiry!Crash
    <3>2. CASE Users # {}
        BY <2>8, <3>2, PassesOn
    <3> QED BY <3>1, <3>2
  <2> QED BY <1>2, <2>1, <2>2, <2>3, <2>4, <2>5, <2>6, <2>7, <2>8 DEF Expiry!Next
<1> QED BY <1>1, <1>2

\* check_expired_subscriptions_job: nobody is told more often that premium has
\* ended than it has, whatever events, crashes and passes follow one another;
\* for any accounts, changes at the provider and mishaps.
THEOREM NobodyToldInVain == AccountsSpec => []ExpiryInv
<1> DEFINE Held == component = "expiry" => ReviewInv
<1>0. ExpiryConstants
    BY AccountsAssumption DEF AccountsAssumption, ExpiryConstants
<1>1. AccountsInit => Held
    BY ExpiryInit DEF AccountsInit
<1>2. Held /\ [AccountsNext]_accountsVars => Held'
  <2> SUFFICES ASSUME Held, [AccountsNext]_accountsVars, component' = "expiry" PROVE ReviewInv'
      OBVIOUS
  <2>1. component = "expiry" /\ [Expiry!Next]_(Expiry!expiryVars)
      BY DEF AccountsNext, accountsVars, expiryVars, Expiry!expiryVars
  <2> QED BY <2>1, <1>0, ExpiryStep
<1>3. Held => ExpiryInv
    BY ExpiryHolds DEF ExpiryInv
<1> QED BY <1>1, <1>2, <1>3, PTL DEF AccountsSpec
=============================================================================
