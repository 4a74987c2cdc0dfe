------------------------------ MODULE Catalogue ------------------------------
(***************************************************************************)
(* The species catalogue and its cache in Redis: app/services/species.py   *)
(* and app/utils/cache.py.  Readers fill an entry when they miss it; an    *)
(* administrator's request deletes entries before its transaction commits; *)
(* the back office (app/admin/views/species.py) deletes none.              *)
(*                                                                         *)
(* One page of the list, one search (of one query, not two) and the list   *)
(* of popular species stand for all of theirs; links to images, made after *)
(* the cache, are left out.                                                *)
(***************************************************************************)
EXTENDS Integers, FiniteSets

CONSTANTS
    Species,
    Standing,    \* species in the table at first
    Popular,     \* POPULAR_SPECIES_IDS
    Matching,    \* versions of a species that the search finds
    InUse,       \* species that some fish names
    Readers, Writers,
    MaxVersion,  \* bound: versions of a species
    MaxMishaps   \* bound: Redis errors, crashes and rollbacks

VARIABLES
    rows,      \* rows[s]: the committed version of s, 0 when absent
    last,      \* last[s]: the last version that was written
    cached,    \* cached[k]: the entry of the key k: none, or the set of one view
    reader,    \* reader[r]: a request that missed
    writer,    \* writer[w]: a request that changes a species
    excused,   \* history: keys whose entry may be older than the rows
    mishaps

catalogueVars == <<rows, last, cached, reader, writer, excused, mishaps>>

\* species_detail_key, species_list_key, species_popular_key, species_search_key.
Keys == Species \cup {"list", "popular", "search"}
None == {}
Resting == [stage |-> "idle", key |-> "list", total |-> 0, view |-> None, old |-> FALSE]
Free == [stage |-> "idle", op |-> "none", sp |-> None, val |-> 0, todo |-> {}, kept |-> {}]

Init ==
    /\ rows = [s \in Species |-> IF s \in Standing THEN 1 ELSE 0] /\ last = rows
    /\ cached = [k \in Keys |-> None] /\ excused = {} /\ mishaps = 0
    /\ reader = [r \in Readers |-> Resting] /\ writer = [w \in Writers |-> Free]

Present == {s \in Species : rows[s] # 0}
Shown(set) == [s \in set |-> rows[s]]
Total == Cardinality(Present)
\* What a response made now holds, with the total counted before.
View(k, total) ==
    CASE k = "list" -> [total |-> total, items |-> Shown(Present)]
      [] k = "popular" -> [total |-> 0, items |-> Shown(Present \cap Popular)]
      [] k = "search" -> [total |-> 0, items |-> Shown({s \in Present : rows[s] \in Matching})]
      [] OTHER -> [total |-> 0, items |-> Shown(Present \cap {k})]

-----------------------------------------------------------------------------
(* Readers.                                                                *)

\* A miss, or an error of Redis, which counts as one; list_species counts
\* all rows before it reads a page.
Miss(r, k) ==
    /\ reader[r].stage = "idle"
    /\ \/ cached[k] = None /\ UNCHANGED mishaps
       \/ cached[k] # None /\ mishaps < MaxMishaps /\ mishaps' = mishaps + 1
    /\ reader' = [reader EXCEPT ![r] = [Resting EXCEPT !.stage = "load", !.key = k, !.total = Total]]
    /\ UNCHANGED <<rows, last, cached, writer, excused>>

\* The rows; a detail of a species that is not there ends in 404.
Load(r, k) ==
    /\ reader[r].stage = "load" /\ reader[r].key = k
    /\ IF k \in Species \ Present THEN reader' = [reader EXCEPT ![r] = Resting]
       ELSE reader' = [reader EXCEPT ![r].stage = "fill", ![r].view = {View(k, reader[r].total)}]
    /\ UNCHANGED <<rows, last, cached, writer, excused, mishaps>>

\* An entry that is set while a writer is past its own deletes may be old.
Fill(r, k) ==
    /\ reader[r].stage = "fill" /\ reader[r].key = k
    /\ cached' = [cached EXCEPT ![k] = reader[r].view]
    /\ excused' = IF reader[r].old THEN excused \cup {k} ELSE excused \ {k}
    /\ writer' = [w \in Writers |-> IF writer[w].stage \in {"clear", "commit"}
                                    THEN [writer[w] EXCEPT !.kept = @ \cup {k}] ELSE writer[w]]
    /\ reader' = [reader EXCEPT ![r] = Resting]
    /\ UNCHANGED <<rows, last, mishaps>>

FillFails(r) ==
    /\ reader[r].stage = "fill" /\ mishaps < MaxMishaps /\ mishaps' = mishaps + 1
    /\ reader' = [reader EXCEPT ![r] = Resting]
    /\ UNCHANGED <<rows, last, cached, writer, excused>>

\* Wrong: search results have no time to live.
TimedAllButSearch == Keys \ {"search"}
\* Every entry is set with a time to live.
Timed == Keys
Expire(k) ==
    /\ k \in Timed /\ cached[k] # None
    /\ cached' = [cached EXCEPT ![k] = None] /\ excused' = excused \ {k}
    /\ UNCHANGED <<rows, last, reader, writer, mishaps>>

-----------------------------------------------------------------------------
(* Writers.                                                                *)

\* The species is looked up: there for an update or a delete, else not (409).
Begin(w, op, s) ==
    /\ writer[w].stage = "idle" /\ (op = "create" <=> s \notin Present)
    /\ op # "delete" => last[s] < MaxVersion
    /\ writer' = [writer EXCEPT ![w] = [Free EXCEPT !.stage = "flush", !.op = op, !.sp = {s}]]
    /\ UNCHANGED <<rows, last, cached, reader, excused, mishaps>>

Locked(s) == \E w \in Writers : writer[w].stage \in {"clear", "commit"} /\ writer[w].sp = {s}

\* Wrong: an update leaves the list alone.
ClearedNotList(op, s) == IF op = "update" THEN {s, "popular"} ELSE Keys
\* invalidate_species_cache: an update deletes no search results.
Cleared(op, s) == IF op = "update" THEN {s, "list", "popular"} ELSE Keys

\* fish.species_id refers to the species.
Deletable(s) == s \notin InUse

\* The statement waits for the row; if the row came or went meanwhile, or a
\* fish needs it, it fails and so does the request.
Flush(w, s) ==
    /\ writer[w].stage = "flush" /\ writer[w].sp = {s} /\ ~Locked(s)
    /\ LET op == writer[w].op
       IN IF (op = "create" <=> s \notin Present) /\ (op = "delete" => Deletable(s))
             /\ (op # "delete" => last[s] < MaxVersion)
          THEN /\ last' = IF op = "delete" THEN last ELSE [last EXCEPT ![s] = @ + 1]
               /\ writer' = [writer EXCEPT ![w].stage = "clear", ![w].todo = Cleared(op, s),
                                           ![w].val = IF op = "delete" THEN 0 ELSE last[s] + 1,
                                           ![w].kept = IF op = "update" THEN {"search"} ELSE {}]
          ELSE writer' = [writer EXCEPT ![w] = Free] /\ UNCHANGED last
    /\ UNCHANGED <<rows, cached, reader, excused, mishaps>>

\* One key after the other: the detail, the lists, the popular ones; or, with
\* SCAN, all of them in any order.
Clear(w, k) ==
    /\ writer[w].stage = "clear" /\ k \in writer[w].todo
    /\ writer[w].op = "update" => (writer[w].sp \cap writer[w].todo \subseteq {k}) /\ (k = "popular" => "list" \notin writer[w].todo)
    /\ cached' = [cached EXCEPT ![k] = None] /\ excused' = excused \ {k}
    /\ writer' = [writer EXCEPT ![w].todo = @ \ {k}, ![w].kept = @ \ {k},
                                ![w].stage = IF writer[w].todo = {k} THEN "commit" ELSE "clear"]
    /\ UNCHANGED <<rows, last, reader, mishaps>>

\* A Redis error ends the deletes and is logged.
ClearFails(w) ==
    /\ writer[w].stage = "clear" /\ mishaps < MaxMishaps /\ mishaps' = mishaps + 1
    /\ writer' = [writer EXCEPT ![w].stage = "commit", ![w].kept = @ \cup writer[w].todo]
    /\ UNCHANGED <<rows, last, cached, reader, excused>>

\* The readers that have read, or counted, and not yet filled hold old rows now.
HasRead(r) == reader[r].stage = "fill" \/ (reader[r].stage = "load" /\ reader[r].key = "list")
Overtaken == [r \in Readers |-> [reader[r] EXCEPT !.old = @ \/ HasRead(r)]]

Commit(w, s) ==
    /\ writer[w].stage = "commit" /\ writer[w].sp = {s}
    /\ rows' = [rows EXCEPT ![s] = writer[w].val]
    /\ excused' = excused \cup writer[w].kept
    /\ reader' = Overtaken /\ writer' = [writer EXCEPT ![w] = Free]
    /\ UNCHANGED <<last, cached, mishaps>>

\* A crash, or a commit that fails.
RollBack(w) ==
    /\ writer[w].stage # "idle" /\ mishaps < MaxMishaps /\ mishaps' = mishaps + 1
    /\ writer' = [writer EXCEPT ![w] = Free]
    /\ UNCHANGED <<rows, last, cached, reader, excused>>

\* SpeciesAdmin makes, changes or deletes the row; whatever is cached stays.
ChangeInBackOffice(s) ==
    /\ ~Locked(s)
    /\ \/ last[s] < MaxVersion /\ last' = [last EXCEPT ![s] = @ + 1] /\ rows' = [rows EXCEPT ![s] = last[s] + 1]
       \/ s \in Present /\ Deletable(s) /\ rows' = [rows EXCEPT ![s] = 0] /\ UNCHANGED last
    /\ excused' = Keys /\ reader' = Overtaken
    /\ UNCHANGED <<cached, writer, mishaps>>

Next ==
    \/ \E r \in Readers, k \in Keys : Miss(r, k) \/ Load(r, k) \/ Fill(r, k)
    \/ \E r \in Readers : FillFails(r)
    \/ \E k \in Keys : Expire(k)
    \/ \E w \in Writers, s \in Species : Flush(w, s) \/ Commit(w, s) \/ \E op \in {"create", "update", "delete"} : Begin(w, op, s)
    \/ \E w \in Writers, k \in Keys : Clear(w, k)
    \/ \E w \in Writers : ClearFails(w) \/ RollBack(w)
    \/ \E s \in Species : ChangeInBackOffice(s)

\* Redis deletes what has lived its time.
Fairness == \A k \in Keys : WF_catalogueVars(Expire(k))

-----------------------------------------------------------------------------
(* Properties.                                                             *)

\* Types; a species that fish name stays in the table.
CatalogueTypeOK ==
    /\ \A s \in Species : rows[s] \in 0..last[s] /\ last[s] \in 0..MaxVersion
    /\ \A k \in Keys : Cardinality(cached[k]) <= 1
    /\ \A s \in InUse \cap Standing : s \in Present
    /\ mishaps \in 0..MaxMishaps

\* An entry differs from the rows only if a reader read before a commit and
\* filled after the deletes that came with it, Redis failed during them, the
\* back office wrote, or it is a search and a species was updated.
StaleExplained == \A k \in Keys : cached[k] \notin {None, {View(k, Total)}} => k \in excused

\* The catalogue is safe: what fish name stays, and what is stale has a reason.
CatalogueInv == CatalogueTypeOK /\ StaleExplained

\* When the catalogue is no longer changed, every entry is right in the end.
EventuallyFresh == <>[](\A k \in Keys : cached[k] \in {None, {View(k, Total)}})
=============================================================================
