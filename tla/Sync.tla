-------------------------------- MODULE Sync --------------------------------
(***************************************************************************)
(* Synchronisation of aquariums, fish and feeding schedules                *)
(* (app/services/sync: process.py, validation.py, changes.py, utils.py)    *)
(* next to the REST endpoints that change the same rows                    *)
(* (app/services/aquarium.py, app/services/fish.py).                       *)
(*                                                                         *)
(* Devices of one family edit offline, stamp every edit with their own     *)
(* clock and send what they have pending as one batch, again if the answer *)
(* is lost.  A batch is one transaction: it is validated as a whole,       *)
(* grouped by entity type and applied change by change; a change wins if   *)
(* its stamp is later than updated_at, the start of the transaction that   *)
(* wrote the row last.                                                     *)
(***************************************************************************)
EXTENDS Integers, Sequences, FiniteSets

CONSTANTS
    Devices,      \* each sends one request at a time
    Aquariums, Fish, Schedules,
    FishOf,       \* FishOf[s]: the fish that schedule s feeds
    Nowhere,
    Skew,         \* MAX_CLOCK_SKEW, in ticks
    Drift,        \* how far a device's clock may be ahead
    RESTOps,      \* online requests that happen as well
    MaxTime,      \* bound: ticks
    MaxPending    \* bound: edits a device collects before it synchronises

ASSUME SyncAssumption ==
    /\ FishOf \in [Schedules -> Fish]
    /\ Aquariums \cap Fish = {} /\ Aquariums \cap Schedules = {} /\ Fish \cap Schedules = {}
    /\ Nowhere \notin Aquariums
    /\ Skew \in Nat /\ Drift \in Nat /\ MaxTime \in Nat \ {0} /\ MaxPending \in Nat
    /\ RESTOps \subseteq {"update", "delete"}

Entities == Aquariums \cup Fish \cup Schedules

VARIABLES
    now,        \* the server's clock
    row,        \* committed rows
    pending,    \* pending[d]: the edits of d that no answer has settled
    txn,        \* txn[d]: the request of d and its transaction
    resent      \* history: resent[d]: the batch of d whose answer was lost

vars == <<now, row, pending, txn, resent>>

States == {"none", "live", "deleted"}
Homes  == Aquariums \cup {Nowhere}
Row    == [st : States, at : Nat, val : Nat, home : Homes, on : BOOLEAN]
Ops    == {"create", "update", "delete"}
Change == [e : Entities, op : Ops, ts : Nat, home : Homes, rest : BOOLEAN]
Place  == [n : Nat, c : Change]     \* a change and its place in the batch
Txn    == [stage : {"idle", "apply", "write"}, rest : BOOLEAN, start : Nat, todo : SUBSET Place,
           wrote : SUBSET Entities, over : [Entities -> Row], lost : SUBSET Change]

NoRow    == [st |-> "none", at |-> 0, val |-> 0, home |-> Nowhere, on |-> FALSE]
NoRows   == [e \in Entities |-> NoRow]
IdleTxn  == [stage |-> "idle", rest |-> FALSE, start |-> 0, todo |-> {},
             wrote |-> {}, over |-> NoRows, lost |-> {}]

\* What d's transaction sees: its own writes over the committed rows.
View(d) == [e \in Entities |-> IF e \in txn[d].wrote THEN txn[d].over[e] ELSE row[e]]

\* Rows written and not yet committed stay locked.
Free(d, S) == \A c \in Devices \ {d} : txn[c].wrote \cap S = {}

Live(rows) == {a \in Aquariums : rows[a].st = "live"}

-----------------------------------------------------------------------------
(* Deciding a change. *)

\* Wrong: the client wins ties.
WinnerOnTie(rows, c) ==
    IF c.ts > now + Skew THEN "clock_skew"
    ELSE IF c.ts >= rows[c.e].at THEN "client" ELSE "server"

\* resolve_conflict.
Winner(rows, c) ==
    IF c.ts > now + Skew THEN "clock_skew"
    ELSE IF c.ts > rows[c.e].at THEN "client" ELSE "server"

\* Rows a change cannot touch: it is skipped and no conflict is reported.
Skipped(rows, c) ==
    \/ c.op # "create" /\ rows[c.e].st = "none"
    \/ c.op # "create" /\ c.e \notin Schedules /\ rows[c.e].st = "deleted"

Wins(rows, c) ==
    \/ c.rest
    \/ c.op = "create" /\ rows[c.e].st = "none"
    \/ ~Skipped(rows, c) /\ Winner(rows, c) = "client"

\* _group_changes_by_entity_type: aquariums, then fish, then schedules, and
\* those of one type as they were sent.
Rank(e) == IF e \in Aquariums THEN 1 ELSE IF e \in Fish THEN 2 ELSE 3
Before(x, y) == Rank(x.c.e) < Rank(y.c.e) \/ (Rank(x.c.e) = Rank(y.c.e) /\ x.n < y.n)
Upcoming(todo) == {x \in todo : \A y \in todo : ~Before(y, x)}

-----------------------------------------------------------------------------
(* Applying a change: the rows after it, written at time start. *)

Stamped(r, start) == [r EXCEPT !.at = start]

\* Schedules of fish f, and fish and schedules of aquarium a.
SchedulesOf(rows, f) == {s \in Schedules : FishOf[s] = f /\ rows[s].st # "none"}
HousedIn(rows, S, a) == {e \in S : rows[e].home = a /\ rows[e].st # "none"}

Created(rows, c, start) ==
    [rows EXCEPT ![c.e] = [st |-> "live", at |-> start, val |-> c.ts, home |-> c.home,
                           on |-> c.e \in Schedules]]

\* A fish moves to an aquarium that is there; its schedules move with it.
Moves(rows, c) ==
    c.e \in Fish /\ c.op = "update" /\ ~c.rest /\ c.home # rows[c.e].home /\ c.home \in Live(rows)

\* Wrong: the schedules stay behind.
MovedAlone(rows, c, start) ==
    [rows EXCEPT ![c.e].home = IF Moves(rows, c) THEN c.home ELSE @]

Moved(rows, c, start) ==
    IF ~Moves(rows, c) THEN rows
    ELSE [e \in Entities |->
            CASE e = c.e -> [rows[e] EXCEPT !.home = c.home]
              [] e \in SchedulesOf(rows, c.e) -> Stamped([rows[e] EXCEPT !.home = c.home], start)
              [] OTHER -> rows[e]]

\* Wrong: the client's copy replaces the row.
UpdatedWhole(rows, c, start) ==
    [Moved(rows, c, start) EXCEPT ![c.e] = [@ EXCEPT !.st = "live", !.val = c.ts, !.at = start,
                                                     !.on = c.e \in Schedules]]

\* Wrong: updated_at keeps the time of the creation.
UpdatedUnstamped(rows, c, start) ==
    [Moved(rows, c, start) EXCEPT ![c.e].val = c.ts, ![c.e].on = c.e \in Schedules]

\* Every other column of an update is one value; a schedule is switched on.
Updated(rows, c, start) ==
    [Moved(rows, c, start) EXCEPT ![c.e].val = c.ts, ![c.e].at = start,
                                  ![c.e].on = c.e \in Schedules]

\* Rows that a deletion of e takes along; REST leaves the schedules alone.
Doomed(rows, c) ==
    IF c.e \in Aquariums THEN {f \in HousedIn(rows, Fish, c.e) : rows[f].st = "live"} ELSE {}
SwitchedOff(rows, c) ==
    IF c.rest THEN {}
    ELSE IF c.e \in Aquariums THEN HousedIn(rows, Schedules, c.e)
    ELSE IF c.e \in Fish THEN SchedulesOf(rows, c.e) ELSE {}

\* Wrong: an aquarium takes its schedules along and leaves its fish.
DeletedAlone(rows, c, start) ==
    [e \in Entities |->
        CASE e = c.e -> IF e \in Schedules THEN NoRow
                        ELSE Stamped([rows[e] EXCEPT !.st = "deleted"], start)
          [] e \in SwitchedOff(rows, c) -> Stamped([rows[e] EXCEPT !.on = FALSE], start)
          [] OTHER -> rows[e]]

\* Aquariums and fish are marked, schedules are removed.
Deleted(rows, c, start) ==
    [e \in Entities |->
        CASE e = c.e -> IF e \in Schedules THEN NoRow ELSE Stamped([rows[e] EXCEPT !.st = "deleted"], start)
          [] e \in Doomed(rows, c) ->
                Stamped([rows[e] EXCEPT !.st = "deleted"], IF c.rest THEN start ELSE now)
          [] e \in SwitchedOff(rows, c) -> Stamped([rows[e] EXCEPT !.on = FALSE], start)
          [] OTHER -> rows[e]]

Applied(rows, c, start) ==
    CASE c.op = "create" /\ rows[c.e].st = "none" -> Created(rows, c, start)
      [] c.op = "delete" -> Deleted(rows, c, start)
      [] OTHER -> Updated(rows, c, start)

\* Rows an applied change writes, and so locks.
Written(rows, c, start) == {e \in Entities : Applied(rows, c, start)[e] # rows[e]} \cup {c.e}

-----------------------------------------------------------------------------
Init ==
    /\ now = 1
    /\ row \in [Entities -> [st : {"none", "live"}, at : {0}, val : {0}, home : Homes,
                             on : BOOLEAN]]
    /\ \A e \in Entities :
          /\ row[e].st = "none" => row[e] = NoRow
          /\ row[e].on => e \in Schedules
          /\ e \in Aquariums => row[e].home = Nowhere
          /\ e \in Fish /\ row[e].st = "live" => row[e].home \in Live(row)
          /\ e \in Schedules /\ row[e].st = "live" =>
                row[FishOf[e]].st = "live" /\ row[e].home = row[FishOf[e]].home
    /\ pending = [d \in Devices |-> <<>>]
    /\ txn = [d \in Devices |-> IdleTxn]
    /\ resent = [d \in Devices |-> <<>>]

Tick ==
    /\ now < MaxTime
    /\ now' = now + 1
    /\ UNCHANGED <<row, pending, txn, resent>>

-----------------------------------------------------------------------------
(* Devices. *)

Edits(d, e)  == {i \in 1..Len(pending[d]) : pending[d][i].e = e}
Makes(d, e)  == \E i \in Edits(d, e) : pending[d][i].op = "create"
Drops(d, e)  == \E i \in Edits(d, e) : pending[d][i].op = "delete"
Shown(e)     == row[e].st = "live" /\ (e \in Schedules => row[e].on)
Knows(d, e)  == (Shown(e) \/ Makes(d, e)) /\ ~Drops(d, e)

\* Where d believes fish f to be.
HomeOf(d, f) ==
    LET placed == {i \in Edits(d, f) : pending[d][i].op # "delete"}
    IN  IF placed = {} THEN row[f].home
        ELSE pending[d][CHOOSE i \in placed : \A j \in placed : j <= i].home

\* An edit of something the device shows, or a new entity under shown parents.
Editable(d, c) ==
    /\ IF c.op = "create"
       THEN /\ row[c.e].st = "none" /\ \A b \in Devices : ~Makes(b, c.e)
            /\ c.e \in Schedules => Knows(d, FishOf[c.e])
       ELSE Knows(d, c.e)
    /\ IF c.e \in Aquariums \/ c.op = "delete" THEN c.home = Nowhere
       ELSE c.home \in Aquariums /\ Knows(d, c.home)
    /\ c.e \in Schedules /\ c.op # "delete" => c.home = HomeOf(d, FishOf[c.e])

Edit(d) ==
    /\ txn[d].stage = "idle" /\ Len(pending[d]) < MaxPending
    /\ \E e \in Entities, op \in Ops, h \in Homes, ahead \in 0..Drift :
          LET c == [e |-> e, op |-> op, ts |-> now + ahead, home |-> h, rest |-> FALSE] IN
          /\ Editable(d, c)
          /\ pending' = [pending EXCEPT ![d] = Append(@, c)]
    /\ UNCHANGED <<now, row, txn, resent>>

-----------------------------------------------------------------------------
(* Requests. *)

\* _validate_entity_ownership: deleted aquariums are nobody's.  Otherwise the
\* whole batch is refused (SyncAccessDeniedError) and stays pending.
Allowed(d) ==
    LET mine == Live(row) \cup {a \in Aquariums : Makes(d, a)} IN
    \A i \in 1..Len(pending[d]) :
       LET c == pending[d][i] IN
       IF c.op = "create" THEN c.e \in Aquariums \/ c.home \in mine
       ELSE IF c.e \in Aquariums THEN c.e \in mine
       ELSE row[c.e].st = "none" \/ row[c.e].home \in mine

Starts(d, batch, rest) ==
    txn' = [txn EXCEPT ![d] = [IdleTxn EXCEPT !.stage = "apply", !.start = now, !.rest = rest,
                                              !.todo = {[n |-> i, c |-> batch[i]] : i \in 1..Len(batch)}]]

BeginSync(d) ==
    /\ txn[d].stage = "idle" /\ pending[d] # <<>>
    /\ Allowed(d)
    /\ Starts(d, pending[d], FALSE)
    /\ UNCHANGED <<now, row, pending, resent>>

\* update_aquarium, delete_aquarium, update_fish, remove_fish.
BeginREST(d) ==
    /\ txn[d].stage = "idle"
    /\ \E e \in Aquariums \cup Fish, op \in RESTOps :
          /\ row[e].st = "live"
          /\ e \in Fish => row[e].home \in Live(row)
          /\ Starts(d, <<[e |-> e, op |-> op, ts |-> now, rest |-> TRUE,
                          home |-> IF op = "update" THEN row[e].home ELSE Nowhere]>>, TRUE)
    /\ UNCHANGED <<now, row, pending, resent>>

\* The handler reads the row of the next change and decides.
Decide(d) ==
    LET t == txn[d]  rows == View(d) IN
    /\ t.stage = "apply"
    /\ \E x \in Upcoming(t.todo) :
          \/ /\ Wins(rows, x.c)
             /\ txn' = [txn EXCEPT ![d] = [t EXCEPT !.stage = "write"]]
          \/ /\ ~Wins(rows, x.c) /\ Skipped(rows, x.c)
             /\ txn' = [txn EXCEPT ![d] = [t EXCEPT !.todo = @ \ {x}]]
          \/ /\ ~Wins(rows, x.c) /\ ~Skipped(rows, x.c)
             /\ txn' = [txn EXCEPT ![d] = [t EXCEPT !.todo = @ \ {x}, !.lost = @ \cup {x.c}]]
    /\ UNCHANGED <<now, row, pending, resent>>

\* The flush: changed columns only, over whatever the row has become.
Write(d) ==
    LET t == txn[d]  rows == View(d) IN
    /\ t.stage = "write"
    /\ \E x \in Upcoming(t.todo) :
          LET S == Written(rows, x.c, t.start)  after == Applied(rows, x.c, t.start) IN
          /\ x.c.op = "create" \/ rows[x.c.e].st # "none"
          /\ Free(d, S)
          /\ txn' = [txn EXCEPT ![d] =
                [t EXCEPT !.stage = "apply", !.todo = @ \ {x}, !.wrote = @ \cup S,
                          !.over = [e \in Entities |-> IF e \in t.wrote \cup S THEN after[e] ELSE NoRow]]]
    /\ UNCHANGED <<now, row, pending, resent>>

\* Commit and answer; the device keeps its edits if the answer is lost.
Commit(d) ==
    /\ txn[d].stage = "apply" /\ txn[d].todo = {}
    /\ row' = View(d)
    /\ txn' = [txn EXCEPT ![d] = IdleTxn]
    /\ \/ /\ pending' = [pending EXCEPT ![d] = IF txn[d].rest THEN @ ELSE <<>>]
          /\ resent' = [resent EXCEPT ![d] = IF txn[d].rest THEN @ ELSE <<>>]
       \/ /\ ~txn[d].rest
          /\ resent' = [resent EXCEPT ![d] = pending[d]]
          /\ UNCHANGED pending
    /\ UNCHANGED now

\* A crash, timeout or database error rolls the transaction back.
Fail(d) ==
    /\ txn[d].stage # "idle"
    /\ txn' = [txn EXCEPT ![d] = IdleTxn]
    /\ UNCHANGED <<now, row, pending, resent>>

Acts(d) ==
    \/ Edit(d) \/ BeginSync(d) \/ BeginREST(d)
    \/ Decide(d) \/ Write(d) \/ Commit(d) \/ Fail(d)

Next == Tick \/ \E d \in Devices : Acts(d)

Spec == Init /\ [][Next]_vars

-----------------------------------------------------------------------------
(* Properties. *)

\* Rows, batches and transactions keep their types: no schedule is ever marked
\* as deleted, no row is stamped in the future, and no row is written by two
\* open transactions.
TypeOK ==
    /\ now \in 1..MaxTime
    /\ row \in [Entities -> Row]
    /\ \A e \in Entities : row[e].at <= now
    /\ \A s \in Schedules : row[s].st # "deleted"
    /\ pending \in [Devices -> Seq(Change)] /\ resent \in [Devices -> Seq(Change)]
    /\ txn \in [Devices -> Txn]
    /\ \A c, d \in Devices : c # d => txn[c].wrote \cap txn[d].wrote = {}

\* A deleted aquarium or fish never comes back, although every update reads
\* the row before it locks it and another request may delete it in between.
TombstonesFinal ==
    \A e \in Aquariums \cup Fish : row[e].st = "deleted" => row'[e].st = "deleted"
TombstonesStay == [][TombstonesFinal]_vars

\* changes.py, apply_changes: "Uses last-write-wins strategy: newer timestamp
\* wins, server wins on tie."  What a row shows is replaced by an edit that is
\* older by the tolerated clock skew at most.
NewerEditShows ==
    \A e \in Entities : row[e].st # "none" /\ row'[e].st # "none" => row'[e].val + Skew >= row[e].val

\* The same sentence within one batch: no change of it loses to an older one.
NewerInBatchWins == \A d \in Devices : \A c \in txn[d].lost : c.e \notin txn[d].wrote

\* changes.py, _apply_aquarium_change: "so no orphan fish or schedules survive
\* under a deleted aquarium", and no schedule of a deleted fish stays on.
NoOrphans ==
    /\ \A f \in Fish : row[f].st = "live" => row[row[f].home].st = "live"
    /\ \A s \in Schedules : row[s].on => row[FishOf[s]].st = "live"

\* A schedule belongs to the aquarium its fish is in: a move takes it along.
SchedulesFollowFish ==
    \A s \in Schedules : row[s].st = "live" => row[s].home = row[FishOf[s]].home

\* A batch that is sent again because its answer was lost changes nothing.
ResendHarmless ==
    \A d \in Devices : Commit(d) /\ ~txn[d].rest /\ resent[d] = pending[d] => row' = row
=============================================================================
