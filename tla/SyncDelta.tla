----------------------------- MODULE SyncDelta -----------------------------
(***************************************************************************)
(* The reading half of the sync: app/services/sync/state.py and the 304 of *)
(* app/api/sync.py.  A device asks for everything, or for what changed     *)
(* since its last sync, and fetches it page by page; other transactions    *)
(* write the rows meanwhile and stamp them with the time they began.       *)
(***************************************************************************)
EXTENDS Integers, FiniteSets

CONSTANTS
    Clients,      \* devices that read
    Items,        \* rows the user may see
    KindOf,       \* KindOf[r]: "aquarium", "fish", "feeding_log", "schedule", "user"
    IdOf,         \* IdOf[r]: number, orders the rows of a kind
    Writers,      \* transactions that write the rows
    PageSize,
    SendsETag,    \* clients that send If-None-Match
    Never,        \* last_sync_at of a first sync
    MaxClock,     \* bound: ticks
    MaxWrites     \* MaxWrites[r], bound: versions of a row

VARIABLES
    row,     \* row[r]: committed [state, ver, stamp]
    txn,     \* txn[w]: an open transaction, its start and its write
    dev,     \* dev[c]: last_sync_at, the copy, and the sync under way
    clock,
    sound,   \* history: no transaction has slipped past client c
    purged   \* history: schedules that were deleted for good

deltaVars == <<row, txn, dev, clock, sound, purged>>

Paged == <<"aquarium", "fish", "feeding_log", "schedule">>
Kinds == {"aquarium", "fish", "feeding_log", "schedule", "user"}
Ticks == 0..MaxClock

NoTxn == [stage |-> "none", start |-> 0, r |-> CHOOSE r \in Items : TRUE, op |-> "update", at |-> 0]

\* What a client should show of a row: its version, 0 when there is none.
Visible(r) == IF row[r].state = "live" THEN row[r].ver ELSE 0

Init ==
    /\ row = [r \in Items |-> [state |-> "none", ver |-> 0, stamp |-> 0]]
    /\ txn = [w \in Writers |-> NoTxn]
    /\ dev = [c \in Clients |-> [since |-> Never, begun |-> 0, cursor |-> 0, paging |-> FALSE,
                                  answer |-> "none", copy |-> [r \in Items |-> 0]]]
    /\ clock = 0
    /\ sound = [c \in Clients |-> TRUE]
    /\ purged = {}

-----------------------------------------------------------------------------
(* The state a request reads.                                              *)

\* Wrong: a row stamped at the very time of the last sync is left out.
StrictlySince(r, since) == since = Never \/ row[r].stamp > since
\* updated_at, created_at and deleted_at against last_sync_at.
Since(r, since) == since = Never \/ row[r].stamp >= since

\* The active rows of one kind in the delta, and the deleted ones.
Active(kind, since)  == {r \in Items : KindOf[r] = kind /\ row[r].state = "live" /\ Since(r, since)}
Deleted(since) ==
    IF since = Never THEN {}
    ELSE {r \in Items : KindOf[r] \in {"aquarium", "fish", "schedule"} /\ row[r].state = "deleted" /\ Since(r, since)}

\* ORDER BY id, for feeding logs created_at and then id.
Before(q, r) ==
    IF KindOf[r] = "feeding_log" /\ row[q].stamp # row[r].stamp
    THEN row[q].stamp < row[r].stamp
    ELSE IdOf[q] < IdOf[r]

Rank(r, set) == Cardinality({q \in set : Before(q, r)})

Count(k, since) == Cardinality(Active(Paged[k], since))
\* base_aq, base_fish, base_log, base_sched.
Base(k, since) ==
    LET n(j) == IF j < k THEN Count(j, since) ELSE 0
    IN  n(1) + n(2) + n(3)
Total(since) == Base(4, since) + Count(4, since)

Larger(a, b)  == IF a > b THEN a ELSE b
Smaller(a, b) == IF a < b THEN a ELSE b

\* Wrong: the end of the window is not moved to the kind's own numbering.
WindowUnshifted(k, since, start) ==
    LET base == Base(k, since)
        lo == Larger(start, base) - base
        hi == Smaller(start + PageSize, base + Count(k, since))
    IN  {r \in Active(Paged[k], since) : lo <= Rank(r, Active(Paged[k], since)) /\ Rank(r, Active(Paged[k], since)) < hi}
\* OFFSET and LIMIT of kind k for the page that begins at start.
Window(k, since, start) ==
    LET base == Base(k, since)
        lo == Larger(start, base) - base
        hi == Smaller(start + PageSize, base + Count(k, since)) - base
    IN  {r \in Active(Paged[k], since) : lo <= Rank(r, Active(Paged[k], since)) /\ Rank(r, Active(Paged[k], since)) < hi}

Page(since, start) == UNION {Window(k, since, start) : k \in 1..4}

\* The reference: the slice of the four lists put one after another.
KindRank(r) == CHOOSE k \in 1..4 : Paged[k] = KindOf[r]
Slice(since, start) ==
    LET all == UNION {Active(Paged[k], since) : k \in 1..4}
        pos(r) == Cardinality({q \in all : KindRank(q) < KindRank(r)
                                           \/ (KindRank(q) = KindRank(r) /\ Before(q, r))})
    IN  {r \in all : start <= pos(r) /\ pos(r) < start + PageSize}

-----------------------------------------------------------------------------
(* The client.                                                             *)

\* Every page carries the deletions and the user's own rows in full.  A first
\* sync, and one that starts over, begins with an empty copy.
Received(c, since, start) ==
    LET got == Page(since, start) \cup Active("user", since)
        lost == IF since = Never /\ start = 0 THEN Items ELSE Deleted(since)
    IN  [r \in Items |-> IF r \in got THEN Visible(r)
                         ELSE IF r \in lost THEN 0 ELSE dev[c].copy[r]]

\* The test of api/sync.py, which looks at neither the schedules nor the user's
\* own rows, and does not compare the ETag.
Unchanged(since, start) ==
    /\ since # Never
    /\ \A k \in 1..3 : Window(k, since, start) = {}
    /\ \A r \in Deleted(since) : KindOf[r] = "schedule"

NotModified(c) ==
    LET d == dev[c]
    IN  /\ c \in SendsETag /\ ~d.paging /\ Unchanged(d.since, 0)
        /\ dev' = [dev EXCEPT ![c].answer = "304"]
        /\ UNCHANGED <<row, txn, clock, sound, purged>>

NextCursor(start) == start + PageSize

\* A page; the last one ends the sync, whose begin becomes last_sync_at.
Fetch(c) ==
    LET d == dev[c]
        start == IF d.paging THEN d.cursor ELSE 0
        begun == IF d.paging THEN d.begun ELSE clock
        more == start + PageSize < Total(d.since)
        copy == Received(c, d.since, start)
    IN  /\ c \notin SendsETag \/ d.paging \/ ~Unchanged(d.since, 0)
        /\ dev' = [dev EXCEPT ![c] =
              IF more THEN [@ EXCEPT !.paging = TRUE, !.answer = "200", !.begun = begun, !.cursor = NextCursor(start), !.copy = copy]
              ELSE [since |-> begun, begun |-> 0, cursor |-> 0, paging |-> FALSE, answer |-> "200", copy |-> copy]]
        /\ UNCHANGED <<row, txn, clock, sound, purged>>

\* An answer that is lost ends the sync; the next one starts over.
GiveUp(c) ==
    /\ dev[c].paging
    /\ dev' = [dev EXCEPT ![c].paging = FALSE, ![c].cursor = 0, ![c].begun = 0]
    /\ UNCHANGED <<row, txn, clock, sound, purged>>

-----------------------------------------------------------------------------
(* Writers.                                                                *)

Begin(w) ==
    /\ txn[w].stage = "none"
    /\ txn' = [txn EXCEPT ![w] = [NoTxn EXCEPT !.stage = "begun", !.start = clock]]
    /\ UNCHANGED <<row, dev, clock, sound, purged>>

\* Logs are only created; schedules are switched off or deleted for good.
Possible(r, op) ==
    \/ op = "create" /\ row[r].state = "none" /\ r \notin purged
    \/ op = "update" /\ row[r].state = "live" /\ KindOf[r] # "feeding_log"
    \/ op = "delete" /\ row[r].state = "live" /\ KindOf[r] \in {"aquarium", "fish", "schedule"}
    \/ op = "purge"  /\ row[r].state # "none" /\ KindOf[r] = "schedule"

Write(w, r, op) ==
    /\ txn[w].stage = "begun" /\ Possible(r, op) /\ row[r].ver < MaxWrites[r]
    /\ \A v \in Writers : txn[v].stage = "written" => txn[v].r # r
    /\ txn' = [txn EXCEPT ![w].stage = "written", ![w].r = r, ![w].op = op, ![w].at = clock]
    /\ UNCHANGED <<row, dev, clock, sound, purged>>

\* updated_at and created_at are now(), the start; deleted_at is the time of
\* the statement, and a schedule that is switched off has no deleted_at.
Stamp(t) == IF t.op = "delete" /\ KindOf[t.r] # "schedule" THEN t.at ELSE t.start

After(t) ==
    CASE t.op = "delete" -> [state |-> "deleted", ver |-> row[t.r].ver + 1, stamp |-> Stamp(t)]
      [] t.op = "purge"  -> [state |-> "none", ver |-> row[t.r].ver + 1, stamp |-> 0]
      [] OTHER -> [state |-> "live", ver |-> row[t.r].ver + 1, stamp |-> Stamp(t)]

\* The two ways to slip past a client: a stamp older than the sync that has
\* begun or ended, and a row that leaves the list between two pages.
Slips(c, t) ==
    LET d == dev[c]
        last == IF d.paging THEN d.begun ELSE d.since
    IN  \/ last # Never /\ Stamp(t) < last
        \/ d.paging /\ t.op \in {"delete", "purge"}

Commit(w) ==
    LET t == txn[w]
    IN  /\ t.stage = "written"
        /\ row' = [row EXCEPT ![t.r] = After(t)]
        /\ purged' = IF t.op = "purge" THEN purged \cup {t.r} ELSE purged
        /\ sound' = [c \in Clients |-> sound[c] /\ ~Slips(c, t)]
        /\ txn' = [txn EXCEPT ![w] = NoTxn]
        /\ UNCHANGED <<dev, clock>>

Tick == clock < MaxClock /\ clock' = clock + 1 /\ UNCHANGED <<row, txn, dev, sound, purged>>

Next ==
    \/ \E c \in Clients : NotModified(c) \/ Fetch(c) \/ GiveUp(c)
    \/ \E w \in Writers : Begin(w) \/ Commit(w)
                          \/ \E r \in Items, op \in {"create", "update", "delete", "purge"} : Write(w, r, op)
    \/ Tick

Spec == Init /\ [][Next]_deltaVars

-----------------------------------------------------------------------------
\* A page is asked for with the cursor of the page before it; types.
DeltaTypeOK ==
    /\ \A r \in Items : row[r] \in [state : {"none", "live", "deleted"}, ver : 0..MaxWrites[r], stamp : Ticks]
    /\ \A c \in Clients :
          /\ dev[c].since \in Ticks \cup {Never} /\ dev[c].begun \in Ticks
          /\ dev[c].paging => dev[c].cursor > 0 /\ dev[c].begun <= clock
          /\ dev[c].answer \in {"none", "200", "304"}
          /\ \A r \in Items : dev[c].copy[r] \in 0..MaxWrites[r]
    /\ clock \in Ticks /\ purged \subseteq Items

\* What the copy of a client lacks, its next delta brings: unless a
\* transaction slipped past the client, or the schedule was deleted for good,
\* which no delta reports (get_paginated_server_state).
NothingMissed ==
    \A c \in Clients : sound[c] =>
        \A r \in Items \ purged :
            \/ dev[c].copy[r] = Visible(r)
            \/ dev[c].since = Never
            \/ row[r].stamp >= dev[c].since

\* The windows computed from the counts are the pages of the concatenated
\* lists (get_paginated_server_state against _apply_pagination).
PagesAreSlices ==
    \A c \in Clients :
        LET start == IF dev[c].paging THEN dev[c].cursor ELSE 0
        IN  Page(dev[c].since, start) = Slice(dev[c].since, start)

\* Delta sync is safe: nothing is missed, and the pages make up the delta.
DeltaInv == DeltaTypeOK /\ NothingMissed /\ PagesAreSlices
=============================================================================
