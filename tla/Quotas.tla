------------------------------- MODULE Quotas -------------------------------
(***************************************************************************)
(* The limits of one user: requests per minute                             *)
(* (app/middleware/rate_limit.py), image uploads per minute                *)
(* (app/dependencies.py), AI scans per hour and free scans in all          *)
(* (app/services/rate_limiter.py, app/services/ai.py), and pushes per day  *)
(* (app/services/notification_throttle.py, notification.py).               *)
(*                                                                         *)
(* The request and upload counters are incremented and read at once.  The  *)
(* hourly and the daily counter are read before the work and incremented   *)
(* after it, in whichever window it ends; the free scans are read with the *)
(* user row at authentication and written back when the scan is recorded.  *)
(***************************************************************************)
EXTENDS Integers, FiniteSets

CONSTANTS
    Requests,       \* requests and push deliveries that may run at once
    PassLimits,     \* PassLimits["ip"], ["user"]: requests per minute
    UploadLimit,    \* uploads per minute
    Limit,          \* Limit["scan"] per hour, Limit["push"] per day
    Full,           \* free scans after a reset
    MinuteLen, HourLen, DayLen,   \* in ticks
    MaxTime,        \* bound: ticks; in the last one only pushes arrive
    MaxTrouble,     \* bound: failures and resets
    MaxRefused      \* bound: requests of one minute beyond the limit

Gates == {"scan", "push"}
Sides == {"ip", "user"}

ASSUME QuotasAssumption ==
    /\ IsFiniteSet(Requests) /\ Requests # {}
    /\ PassLimits \in [Sides -> Nat \ {0}] /\ UploadLimit \in Nat \ {0}
    /\ Limit \in [Gates -> Nat \ {0}] /\ Full \in Nat
    /\ {MinuteLen, HourLen, DayLen} \subseteq Nat \ {0}
    /\ HourLen % MinuteLen = 0 /\ DayLen % HourLen = 0
    /\ {MaxTime, MaxTrouble, MaxRefused} \subseteq Nat

VARIABLES
    now,        \* ticks
    passes,     \* passes[s]: the middleware's counter of this minute
    upload,     \* the upload counter and when it expires
    hits,       \* hits[g]: the counter of this hour or day
    remaining,  \* users.free_ai_scans_remaining
    holder,     \* requests that hold the user's row
    req,        \* what each request is doing
    trouble,
    recent,     \* history: what was let through in the last minute: age and number
    done,       \* history: provider calls of this hour, pushes of this day
    uncounted,  \* history: those that failed before they were counted
    recorded,   \* history: free scans recorded since the last reset
    apart       \* history: no scan overlapped another one, or a reset

vars == <<now, passes, upload, hits, remaining, holder, req, trouble,
          recent, done, uncounted, recorded, apart>>
history  == <<recent, done, uncounted, recorded, apart>>
counters == <<passes, upload, hits>>

Stages == {"idle", "ip", "user", "auth", "gate", "work", "record", "count", "commit"}
Idle   == [stage |-> "idle", kind |-> "push", loaded |-> 0, fresh |-> FALSE]
Ages   == 0..MinuteLen - 1

\* A tick later: what is a minute old does not count any more.
Older(S) == {<<e[1] + 1, e[2]>> : e \in {d \in S : d[1] + 1 \in Ages}}

Move(r, stage) == req' = [req EXCEPT ![r].stage = stage]
Ends(r)        == req' = [req EXCEPT ![r] = Idle]

\* Scans between authentication and their end.
Scanning(r) == req[r].kind = "scan" /\ req[r].stage \in {"gate", "work", "record", "count", "commit"}

WindowLen(g) == IF g = "scan" THEN HourLen ELSE DayLen

-----------------------------------------------------------------------------
Init ==
    /\ now = 0
    /\ passes = [s \in Sides |-> 0] /\ upload = [n |-> 0, exp |-> 0]
    /\ hits = [g \in Gates |-> 0]
    /\ remaining = Full /\ holder = {}
    /\ req = [r \in Requests |-> Idle]
    /\ trouble = 0
    /\ recent = [k \in {"passed", "uploads"} |-> {}]
    /\ done = [g \in Gates |-> 0] /\ uncounted = [g \in Gates |-> 0]
    /\ recorded = 0 /\ apart = TRUE

\* The keys of a new window are new; an expired upload counter is gone.
Tick ==
    LET begins(len) == (now + 1) % len = 0 IN
    /\ now < MaxTime
    /\ now' = now + 1
    /\ passes' = IF begins(MinuteLen) THEN [s \in Sides |-> 0] ELSE passes
    /\ upload' = IF upload.exp <= now + 1 THEN [n |-> 0, exp |-> 0] ELSE upload
    /\ hits' = [g \in Gates |-> IF begins(WindowLen(g)) THEN 0 ELSE hits[g]]
    /\ done' = [g \in Gates |-> IF begins(WindowLen(g)) THEN 0 ELSE done[g]]
    /\ uncounted' = [g \in Gates |-> IF begins(WindowLen(g)) THEN 0 ELSE uncounted[g]]
    /\ recent' = [k \in DOMAIN recent |-> Older(recent[k])]
    /\ UNCHANGED <<remaining, holder, req, trouble, recorded, apart>>

-----------------------------------------------------------------------------
(* The middleware and authentication. *)

Arrive(r) ==
    /\ req[r].stage = "idle"
    /\ \E k \in {"scan", "upload", "push"} :
          /\ k # "push" => passes["ip"] < PassLimits["ip"] + MaxRefused /\ now < MaxTime
          /\ req' = [req EXCEPT ![r] = [Idle EXCEPT !.kind = k,
                                        !.stage = IF k = "push" THEN "gate" ELSE "ip"]]
    /\ UNCHANGED <<now, counters, remaining, holder, trouble, history>>

\* Wrong: one request too many.
ExceedsLate(n, limit) == n > limit + 1

\* A request that makes the counter exceed its limit is turned away; it counts.
Exceeds(n, limit) == n > limit

\* check_rate_limit: per address first, then per user.
Pass(r) ==
    LET s == req[r].stage  n == passes[s] + 1 IN
    /\ s \in Sides
    /\ passes' = [passes EXCEPT ![s] = n]
    /\ IF Exceeds(n, PassLimits[s]) THEN Ends(r)
       ELSE Move(r, IF s = "ip" THEN "user" ELSE "auth")
    /\ recent' = IF s = "user" /\ ~Exceeds(n, PassLimits[s])
                 THEN [recent EXCEPT !["passed"] = @ \cup {<<0, n>>}] ELSE recent
    /\ UNCHANGED <<now, upload, hits, remaining, holder, trouble, done, uncounted, recorded, apart>>

\* get_current_user loads the row that the rest of the request works with.
Authenticate(r) ==
    /\ req[r].stage = "auth"
    /\ req' = [req EXCEPT ![r].stage = "gate",
                              ![r].loaded = IF req[r].kind = "scan" THEN remaining ELSE 0]
    /\ apart' = (apart /\ (req[r].kind = "scan" => \A q \in Requests : ~Scanning(q)))
    /\ UNCHANGED <<now, counters, remaining, holder, trouble, recent, done, uncounted, recorded>>

-----------------------------------------------------------------------------
(* Uploads: INCR and EXPIRE in one transaction; every attempt renews. *)

\* Wrong: by the minute of the clock, as the middleware counts.
ExpiresWithMinute == now + MinuteLen - (now % MinuteLen)

Expires == now + MinuteLen

Upload(r) ==
    /\ req[r].stage = "gate" /\ req[r].kind = "upload"
    /\ upload' = [n |-> upload.n + 1, exp |-> Expires]
    /\ recent' = IF upload.n + 1 > UploadLimit THEN recent
                 ELSE [recent EXCEPT !["uploads"] = @ \cup {<<0, upload.n + 1>>}]
    /\ Ends(r)
    /\ UNCHANGED <<now, passes, hits, remaining, holder, trouble, done, uncounted, recorded, apart>>

-----------------------------------------------------------------------------
(* Scans and pushes: checked before the work, counted after it. *)

\* _get_window_reset_time: replace(hour=hour + 1) raises when there is no such
\* hour; every scan of the day's last hour is answered with a 500.
NoNextHour == now % DayLen >= DayLen - HourLen

\* Wrong: the limit itself is let through.
OpenLate(g) == hits[g] <= Limit[g]

Open(g) == hits[g] < Limit[g]

\* check_scan_limit; can_send_notification.
Check(r) ==
    LET g == req[r].kind IN
    /\ req[r].stage = "gate" /\ g \in Gates
    /\ IF Open(g) /\ ~(g = "scan" /\ NoNextHour) THEN Move(r, "work") ELSE Ends(r)
    /\ UNCHANGED <<now, counters, remaining, holder, trouble, history>>

Left(r) == req[r].loaded > 0

\* scan_image up to the answer of the AI provider; the image may be one that
\* this user scanned before.  The push services take the message, or refuse it.
Work(r) ==
    LET g == req[r].kind IN
    /\ req[r].stage = "work"
    /\ \/ /\ g = "scan" /\ Left(r)
          /\ req' = [req EXCEPT ![r].stage = "record", ![r].fresh = TRUE]
          /\ done' = [done EXCEPT ![g] = @ + 1]
       \/ /\ g = "scan" /\ Left(r)
          /\ Move(r, "count") /\ UNCHANGED done
       \/ /\ g = "scan" /\ ~Left(r)
          /\ Ends(r) /\ UNCHANGED done
       \/ /\ g = "push"
          /\ Move(r, "count")
          /\ done' = [done EXCEPT ![g] = @ + 1]
       \/ /\ g = "push"
          /\ Ends(r) /\ UNCHANGED done
    /\ UNCHANGED <<now, counters, remaining, holder, trouble, recent, uncounted, recorded, apart>>

\* The flush of the scan and of the user: the row is locked until the end.
Record(r) ==
    /\ req[r].stage = "record" /\ holder = {}
    /\ holder' = {r}
    /\ Move(r, "count")
    /\ UNCHANGED <<now, counters, remaining, trouble, history>>

\* increment_scan_count, increment_counter: the key of the current window.
Count(r) ==
    LET g == req[r].kind IN
    /\ req[r].stage = "count"
    /\ hits' = [hits EXCEPT ![g] = @ + 1]
    /\ IF g = "scan" THEN Move(r, "commit") ELSE Ends(r)
    /\ UNCHANGED <<now, passes, upload, remaining, holder, trouble, history>>

\* Wrong: a scan that was answered from the database costs one as well.
SpentAlways(r) == req[r].loaded - 1

\* What the request writes into free_ai_scans_remaining.
Spent(r) == IF req[r].fresh THEN req[r].loaded - 1 ELSE remaining

Commit(r) ==
    /\ req[r].stage = "commit"
    /\ remaining' = Spent(r)
    /\ recorded' = IF req[r].fresh THEN recorded + 1 ELSE recorded
    /\ holder' = holder \ {r}
    /\ Ends(r)
    /\ UNCHANGED <<now, counters, trouble, recent, done, uncounted, apart>>

-----------------------------------------------------------------------------
(* Failures and resets. *)

\* An error, a timeout of the request or a crash rolls back; Redis keeps.
Fail(r) ==
    LET g == req[r].kind
        loses == req[r].stage \in {"record", "count"} /\ (g = "push" \/ req[r].fresh)
    IN
    /\ req[r].stage # "idle" /\ trouble < MaxTrouble
    /\ trouble' = trouble + 1
    /\ uncounted' = IF loses THEN [uncounted EXCEPT ![g] = @ + 1] ELSE uncounted
    /\ holder' = holder \ {r}
    /\ Ends(r)
    /\ UNCHANGED <<now, counters, remaining, recent, done, recorded, apart>>

\* reset_ai_scans, _apply_free_tier_limits.
Reset ==
    /\ trouble < MaxTrouble /\ holder = {}
    /\ trouble' = trouble + 1
    /\ remaining' = Full /\ recorded' = 0
    /\ apart' = (apart /\ \A q \in Requests : ~Scanning(q))
    /\ UNCHANGED <<now, counters, holder, req, recent, done, uncounted>>

Next ==
    \/ Tick \/ Reset
    \/ \E r \in Requests :
          \/ Arrive(r) \/ Pass(r) \/ Authenticate(r) \/ Upload(r)
          \/ Check(r) \/ Work(r) \/ Record(r) \/ Count(r) \/ Commit(r)
          \/ Fail(r)

Spec == Init /\ [][Next]_vars

-----------------------------------------------------------------------------
(* Properties. *)

Request == [stage : Stages, kind : {"scan", "upload", "push"}, loaded : Nat,
            fresh : BOOLEAN]

\* Counters are counters; whoever writes the user row holds it alone; the free
\* scans never go below zero, however many scans write them back.
TypeOK ==
    /\ now \in 0..MaxTime
    /\ passes \in [Sides -> Nat] /\ hits \in [Gates -> Nat]
    /\ upload \in [n : Nat, exp : Nat]
    /\ remaining \in 0..Full
    /\ req \in [Requests -> Request]
    /\ trouble \in 0..MaxTrouble
    /\ holder \in SUBSET Requests /\ Cardinality(holder) <= 1
    /\ recent \in [{"passed", "uploads"} -> SUBSET (Ages \X Nat)]
    /\ done \in [Gates -> Nat] /\ uncounted \in [Gates -> Nat]
    /\ recorded \in Nat /\ apart \in BOOLEAN

\* The limits that are checked before the work and counted after it are
\* exceeded by the requests that run at once at most, also across the end of an
\* hour or a day, and by the work that failed before it was counted.
Overshoot ==
    \A g \in Gates : done[g] <= Limit[g] - 1 + Cardinality(Requests) + uncounted[g]

\* check_image_upload_rate_limit: in any minute, not only in those that begin
\* with a counter, at most UploadLimit uploads are let through.
UploadsPerMinute == Cardinality(recent["uploads"]) <= UploadLimit

\* RateLimiter counts by the minute of the clock: in any 60 seconds at most
\* twice the limit of a user passes.
TwiceTheMinute == Cardinality(recent["passed"]) <= 2 * PassLimits["user"]

\* Scans of a user that do not overlap are charged one by one: cached answers
\* are free, and a failed or rolled back scan costs nothing.
ChargedOnce == apart => remaining + recorded = Full

\* The quotas of a user hold, but for what Overshoot allows.
LimitsHeld == TypeOK /\ Overshoot /\ UploadsPerMinute /\ TwiceTheMinute /\ ChargedOnce
=============================================================================
