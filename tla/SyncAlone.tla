----------------------------- MODULE SyncAlone -----------------------------
(***************************************************************************)
(* Sync by all devices of a family at once, or by one device alone: its    *)
(* clock is right, it has its edit answered or sent again before it makes  *)
(* the next one, and online it updates and does not delete.                *)
(***************************************************************************)
EXTENDS Sync

CONSTANT Nobody

ASSUME AloneAssumption == Nobody \notin Devices

VARIABLE alone      \* the device that is alone, or Nobody

aloneVars == <<alone, vars>>

OneEdit(d) ==
    /\ Len(pending[d]) <= 1 /\ \A i \in 1..Len(pending[d]) : pending[d][i].ts <= now
    /\ \A x \in txn[d].todo : x.c.rest => x.c.op = "update"

AloneInit == Init /\ alone \in Devices \cup {Nobody}

AloneNext ==
    /\ UNCHANGED alone
    /\ \/ alone = Nobody /\ Next
       \/ alone # Nobody /\ (Tick \/ Acts(alone)) /\ OneEdit(alone)'

AloneSpec == AloneInit /\ [][AloneNext]_aloneVars

\* Rows, batches and transactions keep their types and no row is written twice
\* at once; alone, no live fish is in a deleted aquarium, no schedule of a
\* deleted fish is on, and a schedule is in the aquarium of its fish (Sync).
RowsConsistent == TypeOK /\ (alone # Nobody => NoOrphans /\ SchedulesFollowFish)

\* Alone, what a row shows is not replaced by an older edit, and a batch that is
\* sent again because its answer was lost changes nothing (Sync).
EditsKept == [][alone # Nobody => NewerEditShows /\ ResendHarmless]_vars
=============================================================================
