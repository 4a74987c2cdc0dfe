------------------------------- MODULE Profile -------------------------------
(***************************************************************************)
(* What one user has earned: the streak, progress and achievement handlers *)
(* of app/services/sync/changes.py, and the endpoints that read the same   *)
(* rows through a cache (app/api/gamification.py, app/api/users.py).       *)
(*                                                                         *)
(* Each of the three kinds has one row.  Handlers read it without a lock,  *)
(* decide, and write it at the next flush.                                 *)
(***************************************************************************)
EXTENDS Integers, FiniteSets

CONSTANTS
    Devices,     \* of the user; each runs one request at a time
    Edits,       \* Edits[d]: the edits d makes offline, each once, [kind, val, op]
    Readers,     \* devices that use GET and POST share
    MaxClock,    \* bound: ticks
    MaxMishaps   \* bound: crashes, lost answers and failures of Redis

VARIABLES
    row,         \* row[k]: committed streaks, user_progress, achievements
    cache,       \* Redis user_stats:* (and achievements:*)
    edits,       \* edits[d]: what d has not been told is synced
    call,        \* call[d]: the request of d and its transaction
    clock,
    made,        \* made[d]: the edits d has made
    mishaps,
    told,        \* history: the most points d has been told are stored
    raced,       \* history: points were written over a value not read
    excused      \* history: the cache was filled around a commit

profileVars == <<row, cache, edits, call, clock, made, mishaps, told, raced, excused>>

Kinds == {"streak", "badge", "progress"}

\* val: days of a streak, points, 1 for a badge that was shared.
Absent == [there |-> FALSE, val |-> 0, at |-> 0]
Row(val, at) == [there |-> TRUE, val |-> val, at |-> at]
NoCache == [full |-> FALSE]

\* What GET /users/me/stats answers; a missing streak is the default one.
Stats == [full |-> TRUE, streak |-> row["streak"].val, badge |-> <<row["badge"].there, row["badge"].val>>]

\* buf waits for its flush, new is flushed.
Quiet == [stage |-> "idle", get |-> FALSE, start |-> 0, sent |-> {}, todo |-> {}, lost |-> {}, buf |-> {},
          new |-> {}, snap |-> NoCache, late |-> FALSE, refilled |-> FALSE]

Ends(d) == call' = [call EXCEPT ![d] = Quiet]

Init ==
    /\ row = [k \in Kinds |-> Absent] /\ cache = NoCache
    /\ edits = [d \in Devices |-> {}] /\ call = [d \in Devices |-> Quiet]
    /\ clock = 1 /\ made = [d \in Devices |-> {}] /\ mishaps = 0 /\ told = [d \in Devices |-> 0]
    /\ raced = FALSE /\ excused = FALSE

\* A device keeps one edit of a row.
Edit(d, e) ==
    /\ e \notin made[d] /\ \A f \in edits[d] : f.kind # e.kind
    /\ made' = [made EXCEPT ![d] = @ \cup {e}]
    /\ edits' = [edits EXCEPT ![d] = @ \cup {[kind |-> e.kind, val |-> e.val, op |-> e.op, at |-> clock]}]
    /\ UNCHANGED <<row, cache, call, clock, mishaps, told, raced, excused>>

-----------------------------------------------------------------------------
(* POST /sync.                                                             *)

BeginSync(d) ==
    /\ call[d].stage = "idle" /\ edits[d] # {}
    /\ call' = [call EXCEPT ![d] =
          [Quiet EXCEPT !.stage = "handle", !.start = clock, !.sent = edits[d], !.todo = edits[d]]]
    /\ UNCHANGED <<row, cache, edits, clock, made, mishaps, told, raced, excused>>

\* The groups in their fixed order.
NextUp(todo) ==
    {e \in todo : \/ e.kind = "streak"
                  \/ e.kind = "badge" /\ \A f \in todo : f.kind # "streak"
                  \/ e.kind = "progress" /\ \A f \in todo : f.kind = "progress"}

\* resolve_conflict: the newer time wins, the server on a tie.
ClientWins(r, e) == e.at > r.at

\* The first change of a streak or of points makes the row, whenever it was
\* made; a badge is made once and can be marked as shared.
Outcome(r, e) ==
    CASE e.kind = "badge" -> IF r.there = (e.op = "update") THEN "write" ELSE "nothing"
      [] e.kind # "badge" /\ r.there /\ ~ClientWins(r, e) -> "conflict"
      [] OTHER -> "write"

\* Wrong: the points of the client, whatever they are.
RaisedAsSent(r, e) == e.val
\* Points only go up.
Raised(r, e) == IF e.kind = "progress" /\ r.there /\ e.val < r.val THEN r.val ELSE e.val

\* One change: its SELECT and its decision.
Handle(d, e) ==
    LET r == row[e.kind]
        rest == [call[d] EXCEPT !.todo = @ \ {e}]
    IN  /\ call[d].stage = "handle" /\ call[d].buf = {}
        /\ e \in NextUp(call[d].todo)
        /\ call' = [call EXCEPT ![d] =
              CASE Outcome(r, e) = "conflict" -> [rest EXCEPT !.lost = @ \cup {e}]
                [] Outcome(r, e) = "write" /\ (~r.there \/ Raised(r, e) # r.val) ->
                      [rest EXCEPT !.buf = {[kind |-> e.kind, seen |-> r, val |-> Raised(r, e)]}]
                [] OTHER -> rest]
        /\ UNCHANGED <<row, cache, edits, clock, made, mishaps, told, raced, excused>>

\* The flush waits for another transaction that has written the row.  An
\* insert that comes second raises, and the whole batch ends in a 500; an
\* update writes what was decided over whatever the row has become.
Flush(d) ==
    /\ call[d].stage \in {"handle", "share", "make"}
    /\ \E b \in call[d].buf :
          /\ \A e \in Devices \ {d} : \A c \in call[e].new : c.kind # b.kind
          /\ IF ~b.seen.there /\ row[b.kind].there THEN Ends(d)
             ELSE call' = [call EXCEPT ![d].buf = {}, ![d].new = @ \cup {b},
                              ![d].stage = IF @ = "make" THEN "fill" ELSE "handle"]
          /\ raced' = (raced \/ (b.kind = "progress" /\ row[b.kind] # b.seen /\ b.seen.there))
    /\ UNCHANGED <<row, cache, edits, clock, made, mishaps, told, excused>>

\* Wrong: the statistics stay in the cache, only the list of badges is dropped.
AfterDropNone == cache
\* Both keys are deleted.
AfterDrop == NoCache

\* The keys are deleted before the commit - or Redis fails, which is logged.
Invalidate(d) ==
    /\ call[d].stage = "handle" /\ call[d].todo = {} /\ call[d].buf = {}
    /\ \E deleted \in BOOLEAN :
          /\ cache' = IF deleted THEN AfterDrop ELSE cache
          /\ excused' = (excused /\ ~deleted)
          /\ mishaps' = IF deleted THEN mishaps ELSE mishaps + 1
          /\ call' = [call EXCEPT ![d].stage = "commit", ![d].refilled = ~deleted]
    /\ mishaps' <= MaxMishaps
    /\ UNCHANGED <<row, edits, clock, made, told, raced>>

\* The commit; requests that have loaded their statistics are late from now on.
Commit(d) ==
    LET c == call[d]
    IN  /\ c.stage = "commit"
        /\ row' = [k \in Kinds |-> IF \E b \in c.new : b.kind = k
                                   THEN Row((CHOOSE b \in c.new : b.kind = k).val, c.start) ELSE row[k]]
        /\ excused' = (excused \/ (c.refilled /\ cache.full))
        /\ call' = [e \in Devices |->
              IF e = d THEN IF c.sent = {} THEN Quiet ELSE [c EXCEPT !.stage = "answer", !.new = {}]
              ELSE IF call[e].snap.full /\ ~c.get THEN [call[e] EXCEPT !.late = TRUE] ELSE call[e]]
        /\ UNCHANGED <<cache, edits, clock, made, mishaps, told, raced>>

Points(changes) == {e.val : e \in {f \in changes : f.kind = "progress"}}

\* The device drops its edits; of a conflict it takes the server's row.
Answer(d) ==
    LET c == call[d]
    IN  /\ c.stage = "answer"
        /\ edits' = [edits EXCEPT ![d] = @ \ c.sent]
        /\ told' = [told EXCEPT ![d] = CHOOSE n \in {@} \cup Points(c.sent \ c.lost) :
                                         \A p \in {@} \cup Points(c.sent \ c.lost) : n >= p]
        /\ Ends(d)
        /\ UNCHANGED <<row, cache, clock, made, mishaps, raced, excused>>

\* A crash, a timeout, or an answer that is lost.
Break(d) ==
    /\ call[d].stage # "idle" /\ Ends(d)
    /\ mishaps < MaxMishaps /\ mishaps' = mishaps + 1
    /\ UNCHANGED <<row, cache, edits, clock, made, told, raced, excused>>

-----------------------------------------------------------------------------
(* REST.                                                                   *)

\* GET /users/me/stats and /users/me/achievements on a miss: the streak, made
\* if it is missing, and the badges.
Load(d) ==
    /\ d \in Readers /\ call[d].stage = "idle" /\ ~cache.full
    /\ call' = [call EXCEPT ![d] =
          LET get == [Quiet EXCEPT !.get = TRUE, !.start = clock, !.snap = Stats]
          IN  IF row["streak"].there THEN [get EXCEPT !.stage = "fill"]
              ELSE [get EXCEPT !.stage = "make", !.buf = {[kind |-> "streak", seen |-> Absent, val |-> 0]}]]
    /\ UNCHANGED <<row, cache, edits, clock, made, mishaps, told, raced, excused>>

\* The answer is cached, then the request commits.
Fill(d) ==
    /\ call[d].stage = "fill"
    /\ cache' = call[d].snap
    /\ excused' = call[d].late
    /\ call' = [e \in Devices |->
          IF e = d THEN [call[d] EXCEPT !.stage = "commit", !.snap = NoCache]
          ELSE IF call[e].stage = "commit" THEN [call[e] EXCEPT !.refilled = TRUE] ELSE call[e]]
    /\ UNCHANGED <<row, edits, clock, made, mishaps, told, raced>>

\* The TTL.
Expire ==
    /\ cache.full
    /\ cache' = NoCache /\ excused' = FALSE
    /\ UNCHANGED <<row, edits, call, clock, made, mishaps, told, raced>>

\* POST /achievements/{id}/share, which goes on to Invalidate and Commit.
Share(d) ==
    /\ d \in Readers /\ call[d].stage = "idle" /\ row["badge"].there
    /\ call' = [call EXCEPT ![d] = [Quiet EXCEPT !.stage = "share", !.start = clock,
                                        !.buf = {[kind |-> "badge", seen |-> row["badge"], val |-> 1]}]]
    /\ UNCHANGED <<row, cache, edits, clock, made, mishaps, told, raced, excused>>

\* check_achievements, in a request of a family member: no key is deleted.
UnlockElsewhere ==
    /\ ~row["badge"].there /\ \A d \in Devices : \A b \in call[d].new : b.kind # "badge"
    /\ row' = [row EXCEPT !["badge"] = Row(0, clock)]
    /\ excused' = cache.full
    /\ call' = [d \in Devices |-> IF call[d].snap.full THEN [call[d] EXCEPT !.late = TRUE] ELSE call[d]]
    /\ UNCHANGED <<cache, edits, clock, made, mishaps, told, raced>>

Tick ==
    /\ clock < MaxClock /\ clock' = clock + 1
    /\ UNCHANGED <<row, cache, edits, call, made, mishaps, told, raced, excused>>

Next ==
    \/ \E d \in Devices :
          \/ \E e \in Edits[d] : Edit(d, e)
          \/ \E e \in edits[d] : Handle(d, e)
          \/ BeginSync(d) \/ Flush(d) \/ Invalidate(d) \/ Commit(d) \/ Answer(d) \/ Break(d)
          \/ Load(d) \/ Fill(d) \/ Share(d)
    \/ Expire \/ UnlockElsewhere \/ Tick

Spec == Init /\ [][Next]_profileVars

-----------------------------------------------------------------------------
\* Values belong to rows, and no row is stamped in the future; types.
ProfileTypeOK ==
    /\ \A k \in Kinds : row[k].val > 0 => row[k].there
    /\ \A k \in Kinds : row[k].at \in 0..clock
    /\ \A d \in Devices : \A e \in edits[d] : e.kind \in Kinds /\ e.at \in 1..clock
    /\ clock \in 1..MaxClock

\* Cached statistics are those of the rows, unless they were filled while a
\* request that changes the rows was between its invalidation and its commit,
\* or read before that commit, or the change came without an invalidation
\* (sync_data, share_user_achievement).
StatsFollowRows == cache.full /\ ~excused => cache = Stats

\* Points a device has been told are stored are not lost, unless two requests
\* wrote them at once (_apply_progress_change).
PointsKept == raced \/ \A d \in Devices : row["progress"].val >= told[d]

\* What a user has earned is kept, and shown as it is.
ProfileInv == ProfileTypeOK /\ StatsFollowRows /\ PointsKept
=============================================================================
