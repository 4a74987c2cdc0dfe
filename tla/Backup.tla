------------------------------- MODULE Backup -------------------------------
(***************************************************************************)
(* Database dumps: run_backup and cleanup_expired_backups of               *)
(* app/services/backup_service.py, started by app/jobs/backup_job.py when  *)
(* the interval has elapsed and by app/admin/views/backup.py at any time.  *)
(*                                                                         *)
(* The worker and the admin process share the directory, the bucket and    *)
(* the table.  Dumps are named by the second in which they were started.   *)
(***************************************************************************)
EXTENDS Integers, FiniteSets

CONSTANTS
    Runs,          \* calls of run_backup, each with a row of its own; numbers, in the order they begin
    Remote,        \* S3_ENDPOINT_URL is set
    Interval,      \* interval_hours, in ticks
    Retentions,    \* values of retention_days, in ticks
    MaxAtOnce,     \* bound: calls at work at the same time
    MaxClock,      \* bound: ticks
    MaxMishaps     \* bound: crashes, and failures of the dump, R2, the disk or the database

VARIABLES
    rows,       \* rows[r]: the database_backups row of r
    files,      \* files[n]: the file of that name, "none", "part" or "whole"
    objects,    \* objects[n]: the R2 object of that key
    config,     \* backup_settings: enabled, retention
    run,        \* run[r]: what the call r is doing
    now,
    twins,      \* history: two calls shared a name
    mishaps

backupVars == <<rows, files, objects, config, run, now, twins, mishaps>>

NoRow == [status |-> "none", name |-> 0, at |-> 0, key |-> FALSE, by |-> "none"]
Quiet == [stage |-> "new", old |-> {}]

Init ==
    /\ rows = [r \in Runs |-> NoRow] /\ run = [r \in Runs |-> Quiet]
    /\ files = [r \in Runs |-> "none"] /\ objects = [r \in Runs |-> "none"]
    /\ config \in [enabled : BOOLEAN, retention : Retentions]
    /\ now = 0 /\ twins = FALSE /\ mishaps = 0

Goes(r, stage) ==
    run' = [run EXCEPT ![r] = [stage |-> stage, old |-> IF stage \in {"fail", "done"} THEN {} ELSE @.old]]
Mishap         == mishaps < MaxMishaps /\ mishaps' = mishaps + 1
Fine           == UNCHANGED mishaps
\* Either it works, or it fails and run_backup goes to its except clause.
Tries(r, stage) == \/ Goes(r, stage) /\ Fine
                   \/ Goes(r, "fail") /\ Mishap

Listed(r) == rows[r].status # "none"
Ok(r)     == rows[r].status = "ok"
Working(r) == run[r].stage \notin {"new", "done"}

-----------------------------------------------------------------------------
\* Due when no dump that was started within the interval is OK.
Due == \A r \in Runs : Ok(r) => now >= rows[r].at + Interval

\* The job waits for its last call, the admin does not.
MayStart(by) ==
    by = "scheduler" => config.enabled /\ Due /\ \A r \in Runs : ~(Working(r) /\ rows[r].by = by)

RunningRow(name, by) == [status |-> "running", name |-> name, at |-> now, key |-> FALSE, by |-> by]

\* The running row is committed first.  Two calls in one second share a name.
Begin(r, by) ==
    /\ run[r].stage = "new" /\ (\A q \in Runs : q < r => run[q].stage # "new") /\ MayStart(by)
    /\ \E name \in {r} \cup {rows[q].name : q \in {p \in Runs : Listed(p) /\ rows[p].at = now}} :
          /\ rows' = [rows EXCEPT ![r] = RunningRow(name, by)]
          /\ twins' = (twins \/ name # r)
    /\ Goes(r, "dump")
    /\ UNCHANGED <<files, objects, config, now, mishaps>>

Name(r) == rows[r].name

\* pg_dump -f truncates the file.
DumpBegins(r) ==
    /\ run[r].stage = "dump"
    /\ files' = [files EXCEPT ![Name(r)] = "part"]
    /\ Goes(r, "dumping")
    /\ UNCHANGED <<rows, objects, config, now, twins, mishaps>>

DumpEnds(r) ==
    /\ run[r].stage = "dumping"
    /\ \/ Goes(r, "upload") /\ Fine /\ files' = [files EXCEPT ![Name(r)] = "whole"]
       \/ Goes(r, "fail") /\ Mishap /\ UNCHANGED files
    /\ UNCHANGED <<rows, objects, config, now, twins>>

\* stat, which fails when the file has gone, and put_object.
Upload(r) ==
    /\ run[r].stage = "upload"
    /\ IF files[Name(r)] = "none" THEN Goes(r, "fail") /\ Fine /\ UNCHANGED objects
       ELSE \/ Goes(r, "record") /\ Fine
               /\ objects' = IF Remote THEN [objects EXCEPT ![Name(r)] = files[Name(r)]] ELSE objects
            \/ Goes(r, "fail") /\ Mishap /\ UNCHANGED objects
    /\ UNCHANGED <<rows, files, config, now, twins>>

\* The row becomes OK; a size past the column's 32 bits is one way to fail.
Record(r) ==
    /\ run[r].stage = "record"
    /\ \/ /\ Listed(r) /\ Goes(r, "clean") /\ Fine
          /\ rows' = [rows EXCEPT ![r].status = "ok", ![r].key = Remote]
       \/ Listed(r) /\ Mishap /\ Goes(r, "fail") /\ UNCHANGED rows
       \/ ~Listed(r) /\ Fine /\ Goes(r, "fail") /\ UNCHANGED rows
    /\ UNCHANGED <<files, objects, config, now, twins>>

\* The except clause; the row may have been cleaned away.
Fail(r) ==
    /\ run[r].stage = "fail"
    /\ rows' = IF Listed(r) THEN [rows EXCEPT ![r].status = "failed"] ELSE rows
    /\ Goes(r, IF Listed(r) THEN "unlink" ELSE "done")
    /\ UNCHANGED <<files, objects, config, now, twins, mishaps>>

Unlink(r) ==
    /\ run[r].stage = "unlink"
    /\ \/ files' = [files EXCEPT ![Name(r)] = "none"] /\ Fine
       \/ Mishap /\ UNCHANGED files
    /\ Goes(r, "done")
    /\ UNCHANGED <<rows, objects, config, now, twins>>

-----------------------------------------------------------------------------
(* cleanup_expired_backups, inside the try of run_backup.                  *)

\* Wrong: whatever is not as new as this one.
ExpiredYesterday(r) == rows[r].at + config.retention <= now + 1
Expired(r) == rows[r].at + config.retention < now

CleanSelects(r) ==
    /\ run[r].stage = "clean"
    /\ \/ Fine /\ run' = [run EXCEPT ![r].stage = "objects", ![r].old = {q \in Runs : Listed(q) /\ Expired(q)}]
       \/ Mishap /\ Goes(r, "fail")
    /\ UNCHANGED <<rows, files, objects, config, now, twins>>

\* Wiped(store, names): without those of the names that could be deleted.
Wiped(store, names, kept) == [n \in Runs |-> IF n \in names \ kept THEN "none" ELSE store[n]]

\* Each deletion may fail, which is only logged.
CleanObjects(r) ==
    LET keys == {Name(q) : q \in {p \in run[r].old : rows[p].key}}
    IN  /\ run[r].stage = "objects"
        /\ \/ objects' = Wiped(objects, keys, {}) /\ Fine
           \/ Mishap /\ \E kept \in SUBSET keys \ {{}} : objects' = Wiped(objects, keys, kept)
        /\ Goes(r, "files")
        /\ UNCHANGED <<rows, files, config, now, twins>>

CleanFiles(r) ==
    LET names == {Name(q) : q \in run[r].old} \cap Runs
    IN  /\ run[r].stage = "files"
        /\ \/ files' = Wiped(files, names, {}) /\ Fine
           \/ Mishap /\ \E kept \in SUBSET names \ {{}} : files' = Wiped(files, names, kept)
        /\ Goes(r, "commit")
        /\ UNCHANGED <<rows, objects, config, now, twins>>

\* The rows go last: when their commit fails, they stay without their dumps,
\* and the dump that was just made counts as failed.
CleanCommits(r) ==
    /\ run[r].stage = "commit"
    /\ \/ /\ Fine /\ Goes(r, "done")
          /\ rows' = [q \in Runs |-> IF q \in run[r].old THEN NoRow ELSE rows[q]]
       \/ Mishap /\ Goes(r, "fail") /\ UNCHANGED rows
    /\ UNCHANGED <<files, objects, config, now, twins>>

-----------------------------------------------------------------------------
\* The process stops: the row says "running" from now on.
Crash(r) ==
    /\ Working(r) /\ Mishap
    /\ Goes(r, "done")
    /\ UNCHANGED <<rows, files, objects, config, now, twins>>

\* update_settings.
Configure ==
    /\ \E c \in [enabled : BOOLEAN, retention : Retentions] : c # config /\ config' = c
    /\ UNCHANGED <<rows, files, objects, run, now, twins, mishaps>>

\* A call takes less than the shortest retention.
Tick ==
    /\ now < MaxClock /\ now' = now + 1
    /\ \A r \in Runs : Working(r) => now = rows[r].at
    /\ UNCHANGED <<rows, files, objects, config, run, twins, mishaps>>

Next ==
    \/ \E r \in Runs :
          \/ Cardinality({q \in Runs : Working(q)}) < MaxAtOnce /\ \E by \in {"scheduler", "manual"} : Begin(r, by)
          \/ DumpBegins(r) \/ DumpEnds(r) \/ Upload(r) \/ Record(r) \/ Fail(r) \/ Unlink(r)
          \/ CleanSelects(r) \/ CleanObjects(r) \/ CleanFiles(r) \/ CleanCommits(r) \/ Crash(r)
    \/ Configure \/ Tick

Spec == Init /\ [][Next]_backupVars

-----------------------------------------------------------------------------
\* Only a finished row names an object, and only where there is a bucket; a
\* file or an object is absent, cut short or whole (run_backup).
BackupTypeOK ==
    /\ \A r \in Runs : rows[r].key => Remote /\ rows[r].status \in {"ok", "failed"}
    /\ \A n \in Runs : files[n] \in {"none", "part", "whole"} /\ objects[n] \in {"none", "part", "whole"}
    /\ \A r \in Runs : run[r].old \subseteq Runs

\* Whatever fails while old dumps are being removed, the bucket holds a whole
\* dump at least as new as the newest one that is recorded as OK - unless two
\* calls shared a name (run_backup, cleanup_expired_backups).
SomethingToRestore ==
    Remote /\ ~twins =>
        \A r \in Runs : Ok(r) =>
            \E q \in Runs : Listed(q) /\ rows[q].at >= rows[r].at /\ objects[Name(q)] = "whole"

\* Backups are safe: files, objects and rows are sound, and there is one to restore.
BackupInv == BackupTypeOK /\ SomethingToRestore
=============================================================================
