----------------------------- MODULE SyncProofs -----------------------------
(***************************************************************************)
(* Proofs about Sync, for any number of devices, aquariums, fish and       *)
(* schedules, batches of any length and clocks that are ahead by any       *)
(* amount: rows keep their types, no row is written by two transactions,   *)
(* and what was deleted stays deleted; and about SyncAlone: one device     *)
(* alone keeps rows together and loses no edit.                            *)
(***************************************************************************)
EXTENDS SyncAlone, SequenceTheorems, TLAPS

\* Aquariums and fish, which are marked when they are deleted.
Marked == Aquariums \cup Fish

\* Rows of the right types, none stamped after the present, and no schedule
\* marked as deleted.
RowsOK(rows) ==
    /\ rows \in [Entities -> Row]
    /\ \A e \in Entities : rows[e].at <= now
    /\ \A s \in Schedules : rows[s].st # "deleted"

\* What d has written over the rows: it would commit no resurrection.
WritesOK(d) ==
    /\ txn[d].start <= now
    /\ RowsOK(txn[d].over)
    /\ \A e \in txn[d].wrote \cap Marked : row[e].st = "deleted" => txn[d].over[e].st = "deleted"

Constants ==
    /\ Nowhere \in Homes /\ Aquariums \subseteq Homes
    /\ Marked \subseteq Entities /\ Schedules \subseteq Entities
    /\ Marked \cap Schedules = {}
    /\ NoRow \in Row /\ NoRow.at = 0 /\ NoRow.st = "none"

LEMMA ConstantsOK == Constants
    BY SyncAssumption DEF Constants, Homes, Entities, Marked, NoRow, Row, States

\* The types, and that no request is about to bring back what was deleted.
SyncInv == TypeOK /\ \A d \in Devices : WritesOK(d)

-----------------------------------------------------------------------------
(* The operators.                                                          *)

LEMMA StampedOK ==
    ASSUME NEW r \in Row, NEW t \in Nat
    PROVE  Stamped(r, t) = [r EXCEPT !.at = t] /\ Stamped(r, t) \in Row /\ Stamped(r, t).at = t
           /\ Stamped(r, t).st = r.st
    BY DEF Stamped, Row

\* What a transaction sees are rows.
LEMMA ViewOK ==
    ASSUME TypeOK, NEW d \in Devices, WritesOK(d)
    PROVE  /\ RowsOK(View(d))
           /\ \A e \in Marked : row[e].st = "deleted" => View(d)[e].st = "deleted"
    BY ConstantsOK DEF TypeOK, WritesOK, View, RowsOK, Constants, Entities, Marked

\* A change leaves rows of the right types, and what it deletes or finds
\* deleted is deleted.
KeepsRows(rows, after) ==
    /\ RowsOK(after)
    /\ \A e \in Marked : rows[e].st = "deleted" => after[e].st = "deleted"

LEMMA CreatedOK ==
    ASSUME NEW rows, RowsOK(rows), now \in Nat, NEW c \in Change, NEW start \in Nat, start <= now,
           rows[c.e].st = "none"
    PROVE  KeepsRows(rows, Created(rows, c, start))
<1> DEFINE r == [st |-> "live", at |-> start, val |-> c.ts, home |-> c.home, on |-> c.e \in Schedules]
<1>1. c.e \in Entities /\ r \in Row
    BY DEF Change, Row, States
<1>2. Created(rows, c, start) = [rows EXCEPT ![c.e] = r]
    BY DEF Created
<1>3. r.at = start /\ r.st = "live"
    OBVIOUS
<1> HIDE DEF r
<1> QED
    BY <1>1, <1>2, <1>3, ConstantsOK DEF KeepsRows, RowsOK, Constants

LEMMA MovedOK ==
    ASSUME NEW rows, RowsOK(rows), now \in Nat, NEW c \in Change, NEW start \in Nat, start <= now
    PROVE  RowsOK(Moved(rows, c, start)) /\ \A e \in Entities : Moved(rows, c, start)[e].st = rows[e].st
<1> DEFINE m == Moved(rows, c, start)
<1>1. c.e \in Entities /\ c.home \in Homes
    BY DEF Change
<1>2. ASSUME NEW e \in Entities
      PROVE  m[e] \in Row /\ m[e].at <= now /\ m[e].st = rows[e].st
  <2>1. rows[e] \in Row /\ rows[e].at <= now
      BY DEF RowsOK
  <2> DEFINE r == [rows[e] EXCEPT !.home = c.home]
  <2>2. r \in Row /\ r.at = rows[e].at /\ r.st = rows[e].st
      BY <1>1, <2>1 DEF Row
  <2>3. Stamped(r, start) \in Row /\ Stamped(r, start).at = start /\ Stamped(r, start).st = rows[e].st
      BY <2>2, StampedOK
  <2>4. m[e] \in {rows[e], r, Stamped(r, start)}
    <3>1. CASE ~Moves(rows, c)
        BY <3>1 DEF Moved
    <3>2. CASE Moves(rows, c)
        BY <3>2 DEF Moved
    <3> QED BY <3>1, <3>2
  <2> QED BY <2>1, <2>2, <2>3, <2>4
<1>3. m = [e \in Entities |-> m[e]]
  <2>1. CASE ~Moves(rows, c)
      BY <2>1 DEF Moved, RowsOK
  <2>2. CASE Moves(rows, c)
      BY <2>2 DEF Moved
  <2> QED BY <2>1, <2>2
<1>4. \A s \in Schedules : m[s].st # "deleted"
    BY <1>2, ConstantsOK DEF RowsOK, Constants
<1>5. RowsOK(m)
  <2> HIDE DEF m
  <2> QED BY <1>2, <1>3, <1>4 DEF RowsOK
<1> QED
    BY <1>2, <1>5

LEMMA UpdatedOK ==
    ASSUME NEW rows, RowsOK(rows), now \in Nat, NEW c \in Change, NEW start \in Nat, start <= now
    PROVE  KeepsRows(rows, Updated(rows, c, start))
<1> DEFINE m == Moved(rows, c, start)
           u == [m[c.e] EXCEPT !.val = c.ts, !.at = start, !.on = c.e \in Schedules]
<1>1. RowsOK(m) /\ \A e \in Entities : m[e].st = rows[e].st
    BY MovedOK
<1>2. c.e \in Entities /\ c.ts \in Nat
    BY DEF Change
<1>3. Updated(rows, c, start) = [m EXCEPT ![c.e] = u]
    BY <1>1, <1>2 DEF Updated, RowsOK, Row
<1>4. u \in Row /\ u.at = start /\ u.st = rows[c.e].st
  <2>1. m[c.e] \in Row /\ m[c.e].st = rows[c.e].st
      BY <1>1, <1>2 DEF RowsOK
  <2> DEFINE o == c.e \in Schedules
  <2>2. o \in BOOLEAN
      OBVIOUS
  <2>3. u = [m[c.e] EXCEPT !.val = c.ts, !.at = start, !.on = o]
      OBVIOUS
  <2>4. \A r \in Row, b \in BOOLEAN :
           LET w == [r EXCEPT !.val = c.ts, !.at = start, !.on = b]
           IN  w \in Row /\ w.at = start /\ w.st = r.st
      BY <1>2 DEF Row
  <2> HIDE DEF m, o, u
  <2> QED BY <2>1, <2>2, <2>3, <2>4, Zenon
<1> HIDE DEF m, u
<1> QED
    BY <1>1, <1>2, <1>3, <1>4, ConstantsOK DEF KeepsRows, RowsOK, Constants

LEMMA DeletedOK ==
    ASSUME NEW rows, RowsOK(rows), now \in Nat, NEW c \in Change, NEW start \in Nat, start <= now
    PROVE  KeepsRows(rows, Deleted(rows, c, start))
<1> DEFINE g == Deleted(rows, c, start)
<1>1. c.e \in Entities
    BY DEF Change
<1>2. ASSUME NEW e \in Entities
      PROVE  /\ g[e] \in Row /\ g[e].at <= now
             /\ e \in Schedules => g[e].st # "deleted"
             /\ e \in Marked /\ rows[e].st = "deleted" => g[e].st = "deleted"
  <2>1. rows[e] \in Row /\ rows[e].at <= now /\ (e \in Schedules => rows[e].st # "deleted")
      BY DEF RowsOK
  <2> DEFINE gone == [rows[e] EXCEPT !.st = "deleted"]
             off == [rows[e] EXCEPT !.on = FALSE]
  <2>2. gone \in Row /\ gone.st = "deleted" /\ off \in Row /\ off.st = rows[e].st
      BY <2>1 DEF Row, States
  <2> DEFINE cut == Stamped(gone, start)  cutNow == Stamped(gone, IF c.rest THEN start ELSE now)
             switched == Stamped(off, start)
  <2>3. /\ cut \in Row /\ cut.at <= now /\ cut.st = "deleted"
        /\ cutNow \in Row /\ cutNow.at <= now /\ cutNow.st = "deleted"
        /\ switched \in Row /\ switched.at <= now /\ switched.st = rows[e].st
    <3> HIDE DEF gone, off
    <3>1. (IF c.rest THEN start ELSE now) \in Nat /\ (IF c.rest THEN start ELSE now) <= now
        OBVIOUS
    <3> QED BY <2>2, <3>1, StampedOK
  <2>4. g[e] = CASE e = c.e -> IF e \in Schedules THEN NoRow ELSE cut
                 [] e \in Doomed(rows, c) -> cutNow
                 [] e \in SwitchedOff(rows, c) -> switched
                 [] OTHER -> rows[e]
      BY DEF Deleted
  <2>5. /\ e \in Doomed(rows, c) => e # c.e /\ e \notin Schedules /\ e \notin SwitchedOff(rows, c)
        /\ e \in SwitchedOff(rows, c) => e # c.e
      BY SyncAssumption DEF Doomed, SwitchedOff, SchedulesOf, HousedIn
  <2>6. e \in Schedules => e \notin Marked
      BY ConstantsOK DEF Constants
  <2> HIDE DEF g, cut, cutNow, switched
  <2>7. \/ g[e] = NoRow /\ e \in Schedules
        \/ g[e] = cut /\ e \notin Schedules
        \/ g[e] = cutNow /\ e \notin Schedules
        \/ g[e] = switched
        \/ g[e] = rows[e]
    <3>1. CASE e = c.e
        BY <2>4, <2>5, <3>1
    <3>2. CASE e # c.e /\ e \in Doomed(rows, c)
        BY <2>4, <2>5, <3>2
    <3>3. CASE e # c.e /\ e \notin Doomed(rows, c) /\ e \in SwitchedOff(rows, c)
        BY <2>4, <2>5, <3>3
    <3>4. CASE e # c.e /\ e \notin Doomed(rows, c) /\ e \notin SwitchedOff(rows, c)
        BY <2>4, <3>4
    <3> QED BY <3>1, <3>2, <3>3, <3>4
  <2> QED BY <2>1, <2>3, <2>6, <2>7, ConstantsOK DEF Constants
<1>3. g = [e \in Entities |-> g[e]]
    BY DEF Deleted
<1>4. Schedules \subseteq Entities /\ Marked \subseteq Entities
    BY ConstantsOK DEF Constants
<1>5. KeepsRows(rows, g)
  <2> HIDE DEF g
  <2> QED BY <1>2, <1>3, <1>4 DEF KeepsRows, RowsOK
<1> QED
    BY <1>5

LEMMA AppliedOK ==
    ASSUME NEW rows, RowsOK(rows), now \in Nat, NEW c \in Change, NEW start \in Nat, start <= now
    PROVE  KeepsRows(rows, Applied(rows, c, start))
    BY CreatedOK, UpdatedOK, DeletedOK DEF Applied

-----------------------------------------------------------------------------
(* The invariant.                                                          *)

LEMMA NoRowsOK == ASSUME now \in Nat PROVE RowsOK(NoRows)
    BY ConstantsOK DEF RowsOK, NoRows, Constants

LEMMA IdleOK == IdleTxn \in Txn /\ IdleTxn.wrote = {} /\ IdleTxn.over = NoRows /\ IdleTxn.start = 0
    BY ConstantsOK DEF IdleTxn, Txn, NoRows, Constants

LEMMA SyncInit == Init => SyncInv
<1> SUFFICES ASSUME Init PROVE SyncInv
    OBVIOUS
<1>1. now = 1 /\ now \in 1..MaxTime
    BY SyncAssumption DEF Init
<1>2. row \in [Entities -> Row] /\ \A e \in Entities : row[e].at = 0 /\ row[e].st # "deleted"
    BY DEF Init, Row, States
<1>3. pending \in [Devices -> Seq(Change)] /\ resent \in [Devices -> Seq(Change)]
  <2>1. <<>> \in Seq(Change)
      OBVIOUS
  <2> QED BY <2>1 DEF Init
<1>4. txn \in [Devices -> Txn] /\ \A d \in Devices : txn[d] = IdleTxn
    BY IdleOK DEF Init
<1>5. \A d \in Devices : WritesOK(d)
    BY <1>1, <1>4, IdleOK, NoRowsOK DEF WritesOK
<1> QED BY <1>1, <1>2, <1>3, <1>4, <1>5, IdleOK, ConstantsOK DEF SyncInv, TypeOK, Constants

\* A step that leaves the rows and the clock, and of the requests changes that
\* of d, which has written nothing new.
LEMMA OneRequest ==
    ASSUME SyncInv, NEW d \in Devices, NEW t \in Txn, UNCHANGED <<now, row>>,
           txn' = [txn EXCEPT ![d] = t],
           pending' \in [Devices -> Seq(Change)], resent' \in [Devices -> Seq(Change)],
           t.start <= now, RowsOK(t.over),
           \A e \in t.wrote \cap Marked : row[e].st = "deleted" => t.over[e].st = "deleted",
           Free(d, t.wrote)
    PROVE  SyncInv'
<1>1. txn \in [Devices -> Txn]
    BY DEF SyncInv, TypeOK
<1>2. /\ txn' \in [Devices -> Txn] /\ txn'[d] = t
      /\ \A c \in Devices \ {d} : txn'[c] = txn[c]
    BY <1>1
<1>3. \A c, e \in Devices : c # e => txn'[c].wrote \cap txn'[e].wrote = {}
    BY <1>2, SMTT(20) DEF SyncInv, TypeOK, Free
<1>4. TypeOK'
    BY <1>2, <1>3 DEF SyncInv, TypeOK
<1>5. ASSUME NEW c \in Devices PROVE WritesOK(c)'
  <2>1. CASE c = d
      BY <1>2, <2>1 DEF WritesOK, RowsOK
  <2>2. CASE c # d
      BY <1>2, <2>2 DEF SyncInv, WritesOK, RowsOK
  <2> QED BY <2>1, <2>2
<1> QED BY <1>4, <1>5 DEF SyncInv

LEMMA TickOK == SyncInv /\ Tick => SyncInv'
<1> SUFFICES ASSUME SyncInv, Tick PROVE SyncInv'
    OBVIOUS
<1>1. now \in Nat /\ now' = now + 1 /\ now' \in 1..MaxTime
    BY SyncAssumption DEF SyncInv, TypeOK, Tick
<1>2. UNCHANGED <<row, pending, txn, resent>>
    BY DEF Tick
<1>3. \A e \in Entities : row[e].at \in Nat
    BY DEF SyncInv, TypeOK, Row
<1>4. TypeOK'
    BY <1>1, <1>2, <1>3 DEF SyncInv, TypeOK
<1>5. ASSUME NEW d \in Devices PROVE WritesOK(d)'
  <2>1. txn[d].start \in Nat /\ \A e \in Entities : txn[d].over[e].at \in Nat
      BY DEF SyncInv, TypeOK, Txn, Row
  <2> QED BY <1>1, <1>2, <2>1 DEF SyncInv, WritesOK, RowsOK
<1> QED BY <1>4, <1>5 DEF SyncInv

LEMMA EditOK == ASSUME SyncInv, NEW d \in Devices, Edit(d) PROVE SyncInv'
<1>1. PICK c : c \in Change /\ pending' = [pending EXCEPT ![d] = Append(@, c)]
  <2>1. \A n \in Nat, a \in 0..Drift : n + a \in Nat
      BY SyncAssumption
  <2>2. now \in Nat
      BY DEF SyncInv, TypeOK
  <2> QED BY <2>1, <2>2 DEF Edit, Change
<1>2. pending' \in [Devices -> Seq(Change)]
    BY <1>1 DEF SyncInv, TypeOK
<1> QED BY <1>2 DEF Edit, SyncInv, TypeOK, WritesOK, RowsOK

LEMMA StartsOK ==
    ASSUME SyncInv, NEW d \in Devices, NEW batch \in Seq(Change), NEW rest \in BOOLEAN,
           Starts(d, batch, rest), UNCHANGED <<now, row, pending, resent>>
    PROVE  SyncInv'
<1> DEFINE todo == {[n |-> i, c |-> batch[i]] : i \in 1..Len(batch)}
           t == [IdleTxn EXCEPT !.stage = "apply", !.start = now, !.rest = rest, !.todo = todo]
<1>1. now \in Nat
    BY DEF SyncInv, TypeOK
<1>2. todo \subseteq Place
    BY DEF Place
<1>3. t \in Txn /\ t.start = now /\ t.over = NoRows /\ t.wrote = {}
  <2> HIDE DEF todo
  <2> QED BY <1>1, <1>2, IdleOK DEF Txn
<1>4. txn' = [txn EXCEPT ![d] = t]
    BY DEF Starts
<1>5. pending' \in [Devices -> Seq(Change)] /\ resent' \in [Devices -> Seq(Change)]
    BY DEF SyncInv, TypeOK
<1>6. Free(d, t.wrote)
    BY <1>3 DEF Free
<1>7. RowsOK(t.over) /\ t.start <= now
    BY <1>1, <1>3, NoRowsOK
<1> HIDE DEF t
<1> QED BY <1>3, <1>4, <1>5, <1>6, <1>7, OneRequest

LEMMA BeginOK == ASSUME SyncInv, NEW d \in Devices, BeginSync(d) \/ BeginREST(d) PROVE SyncInv'
<1>1. CASE BeginSync(d)
  <2>1. pending[d] \in Seq(Change)
      BY DEF SyncInv, TypeOK
  <2> QED BY <1>1, <2>1, StartsOK DEF BeginSync
<1>2. CASE BeginREST(d)
  <2>1. PICK e \in Aquariums \cup Fish, op \in RESTOps :
           Starts(d, <<[e |-> e, op |-> op, ts |-> now, rest |-> TRUE,
                        home |-> IF op = "update" THEN row[e].home ELSE Nowhere]>>, TRUE)
      BY <1>2 DEF BeginREST
  <2> DEFINE c == [e |-> e, op |-> op, ts |-> now, rest |-> TRUE,
                   home |-> IF op = "update" THEN row[e].home ELSE Nowhere]
  <2>2. e \in Entities /\ op \in Ops /\ now \in Nat /\ row[e].home \in Homes /\ Nowhere \in Homes
      BY SyncAssumption DEF SyncInv, TypeOK, Entities, Ops, Homes, Row
  <2>3. c \in Change
      BY <2>2 DEF Change
  <2>4. <<c>> \in Seq(Change)
    <3> HIDE DEF c
    <3> QED BY <2>3
  <2>5. UNCHANGED <<now, row, pending, resent>>
      BY <1>2 DEF BeginREST
  <2> QED BY <2>1, <2>4, <2>5, StartsOK
<1> QED BY <1>1, <1>2

LEMMA DecideOK == ASSUME SyncInv, NEW d \in Devices, Decide(d) PROVE SyncInv'
<1> DEFINE told == txn[d]
<1>1. told \in Txn /\ WritesOK(d) /\ Free(d, told.wrote)
    BY DEF SyncInv, TypeOK, Free
<1>2. PICK x \in Upcoming(txn[d].todo) :
         \/ txn' = [txn EXCEPT ![d] = [txn[d] EXCEPT !.stage = "write"]]
         \/ txn' = [txn EXCEPT ![d] = [txn[d] EXCEPT !.todo = @ \ {x}]]
         \/ txn' = [txn EXCEPT ![d] = [txn[d] EXCEPT !.todo = @ \ {x}, !.lost = @ \cup {x.c}]]
    BY Zenon DEF Decide
<1>3. x.c \in Change
    BY <1>1, <1>2 DEF Upcoming, Txn, Place
<1> DEFINE Kept(t) == t \in Txn /\ t.start = told.start /\ t.over = told.over /\ t.wrote = told.wrote
<1>4. PICK t : txn' = [txn EXCEPT ![d] = t] /\ Kept(t)
  <2>1. Kept([told EXCEPT !.stage = "write"])
      BY <1>1 DEF Txn
  <2>2. Kept([told EXCEPT !.todo = told.todo \ {x}])
      BY <1>1 DEF Txn
  <2>3. Kept([told EXCEPT !.todo = told.todo \ {x}, !.lost = told.lost \cup {x.c}])
      BY <1>1, <1>3 DEF Txn
  <2>4. CASE txn' = [txn EXCEPT ![d] = [txn[d] EXCEPT !.stage = "write"]]
    <3> HIDE DEF Kept
    <3> QED BY <2>1, <2>4
  <2>5. CASE txn' = [txn EXCEPT ![d] = [txn[d] EXCEPT !.todo = @ \ {x}]]
    <3> HIDE DEF Kept
    <3> QED BY <2>2, <2>5
  <2>6. CASE txn' = [txn EXCEPT ![d] = [txn[d] EXCEPT !.todo = @ \ {x}, !.lost = @ \cup {x.c}]]
    <3> HIDE DEF Kept
    <3> QED BY <2>3, <2>6
  <2> QED BY <1>2, <2>4, <2>5, <2>6
<1>5. pending' \in [Devices -> Seq(Change)] /\ resent' \in [Devices -> Seq(Change)] /\ UNCHANGED <<now, row>>
    BY DEF Decide, SyncInv, TypeOK
<1>6. /\ t.start <= now /\ RowsOK(t.over) /\ Free(d, t.wrote)
      /\ \A e \in t.wrote \cap Marked : row[e].st = "deleted" => t.over[e].st = "deleted"
    BY <1>1, <1>4 DEF WritesOK
<1> QED BY <1>4, <1>5, <1>6, OneRequest

LEMMA WriteOK == ASSUME SyncInv, NEW d \in Devices, Write(d) PROVE SyncInv'
<1> DEFINE t == txn[d]
<1>1. t \in Txn /\ WritesOK(d) /\ now \in Nat
    BY DEF SyncInv, TypeOK
<1>2. PICK x \in Upcoming(t.todo) :
         /\ Free(d, Written(View(d), x.c, t.start))
         /\ txn' = [txn EXCEPT ![d] =
               [t EXCEPT !.stage = "apply", !.todo = @ \ {x}, !.wrote = @ \cup Written(View(d), x.c, t.start),
                         !.over = [e \in Entities |->
                                      IF e \in t.wrote \cup Written(View(d), x.c, t.start)
                                      THEN Applied(View(d), x.c, t.start)[e] ELSE NoRow]]]
    BY Zenon DEF Write
<1> DEFINE S == Written(View(d), x.c, t.start)  after == Applied(View(d), x.c, t.start)
           over == [e \in Entities |-> IF e \in t.wrote \cup S THEN after[e] ELSE NoRow]
           u == [t EXCEPT !.stage = "apply", !.todo = @ \ {x}, !.wrote = @ \cup S, !.over = over]
<1>3. x.c \in Change /\ t.start \in Nat /\ t.start <= now
    BY <1>1, <1>2 DEF Upcoming, Txn, Place, WritesOK
<1>4. KeepsRows(View(d), after) /\ \A e \in Marked : row[e].st = "deleted" => View(d)[e].st = "deleted"
    BY <1>1, <1>3, ViewOK, AppliedOK DEF SyncInv
<1>5. S \subseteq Entities
    BY <1>3 DEF Written, Change
<1>6. RowsOK(over) /\ \A e \in (t.wrote \cup S) \cap Marked : row[e].st = "deleted" => over[e].st = "deleted"
  <2> HIDE DEF S, after, t
  <2> QED BY <1>1, <1>4, ConstantsOK DEF KeepsRows, RowsOK, Constants
<1>7. u \in Txn /\ u.start = t.start /\ u.over = over /\ u.wrote = t.wrote \cup S
  <2>1. over \in [Entities -> Row]
      BY <1>6 DEF RowsOK
  <2> HIDE DEF S, over, t
  <2> QED BY <1>1, <1>5, <2>1 DEF Txn
<1>8. Free(d, u.wrote)
    BY <1>2, <1>7 DEF Free, SyncInv, TypeOK
<1>9. txn' = [txn EXCEPT ![d] = u]
    BY <1>2
<1>10. pending' \in [Devices -> Seq(Change)] /\ resent' \in [Devices -> Seq(Change)] /\ UNCHANGED <<now, row>>
    BY DEF Write, SyncInv, TypeOK
<1> HIDE DEF u, S, over, after
<1> QED BY <1>3, <1>6, <1>7, <1>8, <1>9, <1>10, OneRequest

\* The rows of others stay what they wrote them over.
LEMMA CommitOK ==
    ASSUME SyncInv, NEW d \in Devices, Commit(d)
    PROVE  SyncInv' /\ TombstonesFinal
<1>1. now \in Nat /\ now' = now /\ row' = View(d) /\ txn' = [txn EXCEPT ![d] = IdleTxn]
    BY DEF Commit, SyncInv, TypeOK
<1>2. RowsOK(View(d)) /\ \A e \in Marked : row[e].st = "deleted" => View(d)[e].st = "deleted"
    BY ViewOK DEF SyncInv
<1>3. pending' \in [Devices -> Seq(Change)] /\ resent' \in [Devices -> Seq(Change)]
  <2>1. <<>> \in Seq(Change) /\ pending[d] \in Seq(Change) /\ resent[d] \in Seq(Change)
      BY DEF SyncInv, TypeOK
  <2>2. \/ /\ pending' = [pending EXCEPT ![d] = IF txn[d].rest THEN @ ELSE <<>>]
           /\ resent' = [resent EXCEPT ![d] = IF txn[d].rest THEN @ ELSE <<>>]
        \/ pending' = pending /\ resent' = [resent EXCEPT ![d] = pending[d]]
      BY Zenon DEF Commit
  <2>3. (IF txn[d].rest THEN pending[d] ELSE <<>>) \in Seq(Change)
        /\ (IF txn[d].rest THEN resent[d] ELSE <<>>) \in Seq(Change)
      BY <2>1
  <2>4. pending \in [Devices -> Seq(Change)] /\ resent \in [Devices -> Seq(Change)]
      BY DEF SyncInv, TypeOK
  <2>5. CASE /\ pending' = [pending EXCEPT ![d] = IF txn[d].rest THEN @ ELSE <<>>]
             /\ resent' = [resent EXCEPT ![d] = IF txn[d].rest THEN @ ELSE <<>>]
      BY <2>3, <2>4, <2>5
  <2>6. CASE pending' = pending /\ resent' = [resent EXCEPT ![d] = pending[d]]
      BY <2>1, <2>4, <2>6
  <2> QED BY <2>2, <2>5, <2>6
<1>4. txn' \in [Devices -> Txn] /\ txn'[d] = IdleTxn /\ \A c \in Devices \ {d} : txn'[c] = txn[c]
    BY <1>1, IdleOK DEF SyncInv, TypeOK
<1>5. \A c, e \in Devices : c # e => txn'[c].wrote \cap txn'[e].wrote = {}
    BY <1>4, IdleOK DEF SyncInv, TypeOK
<1>6. TypeOK'
    BY <1>1, <1>2, <1>3, <1>4, <1>5 DEF TypeOK, RowsOK, SyncInv
<1>7. ASSUME NEW c \in Devices PROVE WritesOK(c)'
  <2>1. CASE c = d
      BY <1>1, <1>4, <2>1, IdleOK, NoRowsOK DEF WritesOK, RowsOK
  <2>2. CASE c # d
    <3>1. \A e \in txn[c].wrote \cap Marked : row'[e] = row[e]
      <4>1. txn[c].wrote \cap txn[d].wrote = {} /\ txn[c].wrote \subseteq Entities
          BY <2>2 DEF SyncInv, TypeOK, Txn
      <4> QED BY <1>1, <4>1 DEF View
    <3>2. txn'[c] = txn[c] /\ WritesOK(c)
        BY <1>4, <2>2 DEF SyncInv
    <3> QED BY <1>1, <3>1, <3>2 DEF WritesOK, RowsOK
  <2> QED BY <2>1, <2>2
<1>8. TombstonesFinal
    BY <1>1, <1>2 DEF TombstonesFinal, Marked
<1> QED BY <1>6, <1>7, <1>8 DEF SyncInv

LEMMA FailOK == ASSUME SyncInv, NEW d \in Devices, Fail(d) PROVE SyncInv'
<1>1. txn' = [txn EXCEPT ![d] = IdleTxn] /\ UNCHANGED <<now, row, pending, resent>>
    BY DEF Fail
<1>2. /\ IdleTxn \in Txn /\ IdleTxn.start <= now /\ RowsOK(IdleTxn.over) /\ Free(d, IdleTxn.wrote)
      /\ IdleTxn.wrote = {}
    BY IdleOK, NoRowsOK DEF Free, SyncInv, TypeOK
<1>3. pending' \in [Devices -> Seq(Change)] /\ resent' \in [Devices -> Seq(Change)]
    BY <1>1 DEF SyncInv, TypeOK
<1> HIDE DEF IdleTxn
<1> QED BY <1>1, <1>2, <1>3, OneRequest

LEMMA SyncStep == SyncInv /\ [Next]_vars => SyncInv' /\ TombstonesFinal
<1> SUFFICES ASSUME SyncInv, [Next]_vars PROVE SyncInv' /\ TombstonesFinal
    OBVIOUS
<1>1. UNCHANGED row => TombstonesFinal
    BY DEF TombstonesFinal
<1>2. CASE Tick
    BY <1>1, <1>2, TickOK DEF Tick
<1>3. ASSUME NEW d \in Devices, Edit(d) PROVE SyncInv' /\ TombstonesFinal
    BY <1>1, <1>3, EditOK DEF Edit
<1>4. ASSUME NEW d \in Devices, BeginSync(d) \/ BeginREST(d) PROVE SyncInv' /\ TombstonesFinal
    BY <1>1, <1>4, BeginOK DEF BeginSync, BeginREST
<1>5. ASSUME NEW d \in Devices, Decide(d) PROVE SyncInv' /\ TombstonesFinal
  <2>1. UNCHANGED row
      BY <1>5, Zenon DEF Decide
  <2> QED BY <1>1, <1>5, <2>1, DecideOK
<1>6. ASSUME NEW d \in Devices, Write(d) PROVE SyncInv' /\ TombstonesFinal
  <2>1. UNCHANGED row
      BY <1>6, Zenon DEF Write
  <2> QED BY <1>1, <1>6, <2>1, WriteOK
<1>7. ASSUME NEW d \in Devices, Commit(d) PROVE SyncInv' /\ TombstonesFinal
    BY <1>7, CommitOK
<1>8. ASSUME NEW d \in Devices, Fail(d) PROVE SyncInv' /\ TombstonesFinal
    BY <1>1, <1>8, FailOK DEF Fail
<1>9. CASE UNCHANGED vars
  <2>1. SyncInv'
      BY <1>9 DEF vars, SyncInv, TypeOK, WritesOK, RowsOK
  <2> QED BY <1>1, <1>9, <2>1 DEF vars
<1> QED BY <1>2, <1>3, <1>4, <1>5, <1>6, <1>7, <1>8, <1>9 DEF Next, Acts

\* Rows, batches and transactions keep their types, no row is stamped in the
\* future, and no row is written by two open transactions.
THEOREM TypeCorrect == Spec => []TypeOK
<1>1. SyncInv => TypeOK
    BY DEF SyncInv
<1> QED BY <1>1, SyncInit, SyncStep, PTL DEF Spec

\* A deleted aquarium or fish never comes back, though every handler reads the
\* row without locking it and others may delete it before the flush
\* (changes.py, aquarium.py, fish.py).
THEOREM Tombstones == Spec => TombstonesStay
<1>1. SyncInv /\ [Next]_vars => [TombstonesFinal]_vars
    BY SyncStep
<1>2. Spec => []SyncInv
    BY SyncInit, SyncStep, PTL DEF Spec
<1> QED BY <1>1, <1>2, PTL DEF Spec, TombstonesStay

-----------------------------------------------------------------------------
(* One device alone: what holds of the rows and of its request.            *)

\* Rows as one device alone leaves them: children under living parents, and no
\* value that is newer than the time its row was written.
Sound(rows) ==
    /\ \A f \in Fish : rows[f].st = "live" => rows[f].home \in Live(rows)
    /\ \A s \in Schedules :
          /\ rows[s].on => rows[s].st = "live" /\ rows[FishOf[s]].st = "live"
          /\ rows[s].st = "live" => rows[FishOf[s]].st # "none" /\ rows[s].home = rows[FishOf[s]].home
    /\ \A e \in Entities : rows[e].val <= rows[e].at

\* Wins, for a change that is not newer than the server's clock.
Won(rows, c) ==
    \/ c.rest
    \/ c.op = "create" /\ rows[c.e].st = "none"
    \/ ~Skipped(rows, c) /\ c.ts > rows[c.e].at

\* An edit that would win finds the parents it was made under.
Fits(rows, c) ==
    Won(rows, c) =>
        /\ c.e \in Fish /\ c.op = "create" => c.home \in Live(rows)
        /\ c.e \in Schedules /\ c.op # "delete" =>
              rows[FishOf[c.e]].st = "live" /\ (c.op = "create" => c.home = rows[FishOf[c.e]].home)

\* No value is replaced by an older one.
Newer(rows, after) ==
    \A e \in Entities : rows[e].st # "none" /\ after[e].st # "none" => after[e].val >= rows[e].val

\* Nothing is deleted, made or moved, and rows are written later.
Stays(rows, after) ==
    \A e \in Entities : after[e].st = rows[e].st /\ after[e].home = rows[e].home /\ after[e].at >= rows[e].at

\* All changes of the request are applied or lost.
Settled(d) ==
    /\ Sound(View(d)) /\ Newer(row, View(d))
    /\ IF txn[d].rest THEN Stays(row, View(d))
       ELSE ~Won(View(d), pending[d][1]) /\ (resent[d] # <<>> => txn[d].wrote = {})

\* A change that the request of d is about to apply.
Told(d, c) ==
    IF txn[d].rest THEN c.rest /\ c.op = "update" /\ c.e \notin Schedules /\ c.ts = txn[d].start
    ELSE c = pending[d][1]

Running(d) ==
    /\ \A e \in Entities : row[e].at <= txn[d].start
    /\ ~txn[d].rest => pending[d] # <<>> /\ pending[d][1].ts <= txn[d].start
    /\ \A x \in txn[d].todo : Told(d, x.c)
    /\ txn[d].todo # {} => txn[d].wrote = {} /\ \A x, y \in txn[d].todo : x = y
    /\ txn[d].stage = "write" => txn[d].todo # {} /\ \A x \in txn[d].todo : Won(row, x.c)
    /\ txn[d].todo = {} => Settled(d)

AloneInv(d) ==
    /\ \A c \in Devices \ {d} : txn[c] = IdleTxn
    /\ Len(pending[d]) <= 1
    /\ pending[d] # <<>> => ~pending[d][1].rest /\ pending[d][1].ts <= now /\ Fits(row, pending[d][1])
    /\ resent[d] # <<>> => resent[d] = pending[d] /\ ~Won(row, pending[d][1])
    /\ Sound(row)
    /\ txn[d].stage # "idle" => Running(d)

-----------------------------------------------------------------------------
(* One device alone: a change that is applied.                             *)

LEMMA AloneConstants ==
    /\ Aquariums \subseteq Entities /\ Fish \subseteq Entities /\ Schedules \subseteq Entities
    /\ Aquariums \cap Fish = {} /\ Aquariums \cap Schedules = {} /\ Fish \cap Schedules = {}
    /\ \A s \in Schedules : FishOf[s] \in Fish
    /\ Entities = Aquariums \cup Fish \cup Schedules
    /\ Nowhere \notin Aquariums /\ Skew \in Nat
    /\ NoRow.st = "none" /\ NoRow.on = FALSE /\ NoRow.val = 0 /\ NoRow.at = 0
    BY SyncAssumption DEF Entities, NoRow

LEMMA RowFields ==
    ASSUME NEW r \in Row
    PROVE  r.st \in States /\ r.at \in Nat /\ r.val \in Nat /\ r.home \in Homes /\ r.on \in BOOLEAN
    BY DEF Row

LEMMA WinsMeans ==
    ASSUME NEW rows, NEW c \in Change, now \in Nat, c.ts <= now, rows[c.e].at \in Nat
    PROVE  Wins(rows, c) <=> Won(rows, c)
<1>1. ~(c.ts > now + Skew)
    BY SyncAssumption DEF Change
<1>2. Winner(rows, c) = IF c.ts > rows[c.e].at THEN "client" ELSE "server"
    BY <1>1 DEF Winner
<1>3. Winner(rows, c) = "client" <=> c.ts > rows[c.e].at
    BY <1>2
<1> QED BY <1>3 DEF Wins, Won

\* What is asked of the rows and the change when it is applied.
Ready(rows, c, start) ==
    /\ RowsOK(rows) /\ Sound(rows) /\ now \in Nat /\ start \in Nat /\ start <= now
    /\ c \in Change /\ c.ts <= start /\ \A e \in Entities : rows[e].at <= start
    /\ Won(rows, c) /\ (c.op = "create" \/ rows[c.e].st # "none")
    /\ IF c.rest THEN c.op = "update" /\ c.e \notin Schedules /\ c.ts = start ELSE Fits(rows, c)

\* What becomes of the rows when it is.
Done(rows, after, c) ==
    /\ Sound(after) /\ Newer(rows, after)
    /\ IF c.rest THEN Stays(rows, after) ELSE ~Won(after, c)

LEMMA CreatedDone ==
    ASSUME NEW rows, NEW c, NEW start, Ready(rows, c, start), c.op = "create", rows[c.e].st = "none"
    PROVE  Done(rows, Created(rows, c, start), c)
<1> DEFINE on == c.e \in Schedules
           r == [st |-> "live", at |-> start, val |-> c.ts, home |-> c.home, on |-> on]
           after == Created(rows, c, start)
<1>1. /\ c \in Change /\ c.e \in Entities /\ c.ts \in Nat /\ c.ts <= start /\ start \in Nat /\ start <= now /\ now \in Nat
      /\ ~c.rest /\ Fits(rows, c) /\ Won(rows, c) /\ rows \in [Entities -> Row] /\ Sound(rows)
    BY DEF Ready, Change, RowsOK
<1>2. after = [rows EXCEPT ![c.e] = r]
    BY DEF Created
<1>3. on \in BOOLEAN
    OBVIOUS
<1>4. r.st = "live" /\ r.at = start /\ r.val = c.ts /\ r.home = c.home /\ r.on = on
  <2> HIDE DEF on
  <2> QED OBVIOUS
<1> HIDE DEF r, after
<1>5. after[c.e] = r /\ \A e \in Entities : e # c.e => after[e] = rows[e]
    BY <1>1, <1>2
<1>6. \A e \in Entities : rows[e].st = "live" => after[e].st = "live"
    BY <1>4, <1>5
<1>7. \A a \in Live(rows) : a \in Live(after)
    BY <1>6, AloneConstants DEF Live
<1>8. Sound(after)
  <2>1. ASSUME NEW f \in Fish, after[f].st = "live" PROVE after[f].home \in Live(after)
    <3>1. CASE f = c.e
        BY <1>1, <1>4, <1>5, <1>7, <3>1 DEF Fits
    <3>2. CASE f # c.e
        BY <1>1, <1>5, <1>7, <2>1, <3>2, AloneConstants DEF Sound
    <3> QED BY <3>1, <3>2
  <2>2. ASSUME NEW s \in Schedules
        PROVE  /\ after[s].on => after[s].st = "live" /\ after[FishOf[s]].st = "live"
               /\ after[s].st = "live" => after[FishOf[s]].st # "none" /\ after[s].home = after[FishOf[s]].home
    <3>1. FishOf[s] \in Fish /\ FishOf[s] \in Entities /\ s \in Entities /\ FishOf[s] # s
        BY AloneConstants
    <3>2. CASE s = c.e
      <4>1. rows[FishOf[s]].st = "live" /\ c.home = rows[FishOf[s]].home
          BY <1>1, <3>2 DEF Fits
      <4>2. after[FishOf[s]] = rows[FishOf[s]] /\ after[s] = r
          BY <1>5, <3>1, <3>2
      <4> QED BY <1>4, <4>1, <4>2
    <3>3. CASE s # c.e /\ FishOf[s] # c.e
        BY <1>1, <1>5, <3>1, <3>3 DEF Sound
    <3>4. CASE s # c.e /\ FishOf[s] = c.e
      <4>1. after[s] = rows[s]
          BY <1>5, <3>1, <3>4
      <4>2. ~rows[s].on /\ rows[s].st # "live"
          BY <1>1, <3>4 DEF Sound
      <4> QED BY <4>1, <4>2
    <3> QED BY <3>2, <3>3, <3>4
  <2>3. ASSUME NEW e \in Entities PROVE after[e].val <= after[e].at
      BY <1>1, <1>4, <1>5 DEF Sound
  <2> QED BY <2>1, <2>2, <2>3 DEF Sound
<1>9. Newer(rows, after)
  <2>1. \A e \in Entities : e # c.e => rows[e].val \in Nat /\ after[e] = rows[e]
      BY <1>1, <1>5, RowFields
  <2> QED BY <2>1 DEF Newer
<1>10. ~Won(after, c)
  <2>1. after[c.e].at = start /\ after[c.e].st = "live"
      BY <1>4, <1>5
  <2> QED BY <1>1, <2>1 DEF Won
<1> QED BY <1>1, <1>8, <1>9, <1>10 DEF Done, after

\* The columns of the rows after an update.
LEMMA UpdatedColumns ==
    ASSUME NEW rows, RowsOK(rows), NEW c \in Change, NEW start \in Nat, NEW e \in Entities
    PROVE  LET after == Updated(rows, c, start)
               along == Moves(rows, c) /\ (e = c.e \/ e \in SchedulesOf(rows, c.e))
           IN  /\ after[e].st = rows[e].st
               /\ after[e].home = IF along THEN c.home ELSE rows[e].home
               /\ after[e].val = IF e = c.e THEN c.ts ELSE rows[e].val
               /\ after[e].at = IF e = c.e \/ along THEN start ELSE rows[e].at
               /\ after[e].on <=> IF e = c.e THEN e \in Schedules ELSE rows[e].on
<1> DEFINE m == Moved(rows, c, start)  after == Updated(rows, c, start)  on == c.e \in Schedules
           along == Moves(rows, c) /\ (e = c.e \/ e \in SchedulesOf(rows, c.e))
<1>1. rows[e] \in Row /\ c.e \in Entities /\ c.home \in Homes /\ c.ts \in Nat
    BY DEF RowsOK, Change
<1>2. c.e \in Fish => c.e \notin SchedulesOf(rows, c.e)
    BY AloneConstants DEF SchedulesOf
<1>3. m[e] = IF ~along THEN rows[e]
             ELSE IF e = c.e THEN [rows[e] EXCEPT !.home = c.home] ELSE [rows[e] EXCEPT !.home = c.home, !.at = start]
  <2>1. CASE ~Moves(rows, c)
      BY <2>1 DEF Moved
  <2>2. CASE Moves(rows, c)
    <3>1. m[e] = CASE e = c.e -> [rows[e] EXCEPT !.home = c.home]
                   [] e \in SchedulesOf(rows, c.e) -> Stamped([rows[e] EXCEPT !.home = c.home], start)
                   [] OTHER -> rows[e]
        BY <2>2 DEF Moved
    <3>2. c.e \notin SchedulesOf(rows, c.e)
        BY <1>2, <2>2 DEF Moves
    <3>3. Stamped([rows[e] EXCEPT !.home = c.home], start) = [rows[e] EXCEPT !.home = c.home, !.at = start]
        BY DEF Stamped
    <3> QED BY <2>2, <3>1, <3>2, <3>3
  <2> QED BY <2>1, <2>2
<1>4. /\ m[e].st = rows[e].st /\ m[e].val = rows[e].val /\ m[e].on = rows[e].on
      /\ m[e].home = IF along THEN c.home ELSE rows[e].home
      /\ m[e].at = IF along /\ e # c.e THEN start ELSE rows[e].at
      /\ m[e] \in Row
  <2> HIDE DEF along, m
  <2> QED BY <1>1, <1>3 DEF Row
<1>5. DOMAIN m = Entities
    BY DEF Moved, RowsOK
<1>6. after = [m EXCEPT ![c.e] = [m[c.e] EXCEPT !.val = c.ts, !.at = start, !.on = on]]
    BY DEF Updated
<1>7. after[e] = IF e = c.e THEN [m[e] EXCEPT !.val = c.ts, !.at = start, !.on = on] ELSE m[e]
  <2> HIDE DEF m, on, after
  <2> QED BY <1>1, <1>5, <1>6
<1>8. on \in BOOLEAN
    OBVIOUS
<1>9. CASE e = c.e
  <2>1. /\ after[e].st = m[e].st /\ after[e].home = m[e].home /\ after[e].val = c.ts /\ after[e].at = start
        /\ after[e].on = on
    <3> HIDE DEF m, on, after
    <3> QED BY <1>4, <1>7, <1>8, <1>9 DEF Row
  <2> HIDE DEF m, after
  <2> QED BY <1>4, <1>9, <2>1 DEF after
<1>10. CASE e # c.e
  <2> HIDE DEF m, after
  <2>1. after[e] = m[e]
      BY <1>7, <1>10
  <2> QED BY <1>4, <1>10, <2>1 DEF after
<1> QED BY <1>9, <1>10

LEMMA UpdatedDone ==
    ASSUME NEW rows, NEW c, NEW start, Ready(rows, c, start),
           c.op # "delete", ~(c.op = "create" /\ rows[c.e].st = "none")
    PROVE  Done(rows, Updated(rows, c, start), c)
<1> DEFINE after == Updated(rows, c, start)
           along(e) == Moves(rows, c) /\ (e = c.e \/ e \in SchedulesOf(rows, c.e))
<1>1. /\ c \in Change /\ c.e \in Entities /\ c.ts \in Nat /\ c.ts <= start /\ start \in Nat /\ start <= now /\ now \in Nat
      /\ rows[c.e].st # "none" /\ RowsOK(rows) /\ Sound(rows) /\ Won(rows, c)
      /\ \A e \in Entities : rows[e].at <= start
    BY DEF Ready, Change
<1>2. \A e \in Entities :
         /\ after[e].st = rows[e].st
         /\ after[e].home = IF along(e) THEN c.home ELSE rows[e].home
         /\ after[e].val = IF e = c.e THEN c.ts ELSE rows[e].val
         /\ after[e].at = IF e = c.e \/ along(e) THEN start ELSE rows[e].at
         /\ after[e].on <=> IF e = c.e THEN e \in Schedules ELSE rows[e].on
    BY <1>1, UpdatedColumns
<1> HIDE DEF after
<1>3. Live(after) = Live(rows)
    BY <1>2, AloneConstants DEF Live
<1>4. \A e \in Entities : rows[e].at \in Nat /\ rows[e].val \in Nat /\ rows[e].st \in States /\ rows[e].val <= rows[e].at
    BY <1>1, RowFields DEF RowsOK, Sound
<1>5. Sound(after)
  <2>1. ASSUME NEW f \in Fish, after[f].st = "live" PROVE after[f].home \in Live(after)
    <3>1. f \in Entities /\ rows[f].st = "live" /\ rows[f].home \in Live(rows)
        BY <1>1, <1>2, <2>1, AloneConstants DEF Sound
    <3>2. after[f].home \in {rows[f].home, c.home} /\ (along(f) => c.home \in Live(rows))
        BY <1>2, <3>1 DEF Moves
    <3> QED BY <1>2, <1>3, <3>1, <3>2
  <2>2. ASSUME NEW s \in Schedules
        PROVE  /\ after[s].on => after[s].st = "live" /\ after[FishOf[s]].st = "live"
               /\ after[s].st = "live" => after[FishOf[s]].st # "none" /\ after[s].home = after[FishOf[s]].home
    <3> DEFINE f == FishOf[s]
    <3>1. f \in Fish /\ f \in Entities /\ s \in Entities /\ f # s /\ f \notin Schedules
        BY AloneConstants
    <3>2. after[f].st = rows[f].st /\ after[s].st = rows[s].st
        BY <1>2, <3>1
    <3>3. ASSUME after[s].on PROVE rows[s].st = "live" /\ rows[f].st = "live"
      <4>1. CASE s = c.e
        <5>1. ~c.rest /\ Fits(rows, c)
            BY <4>1 DEF Ready
        <5>2. rows[f].st = "live"
            BY <1>1, <4>1, <5>1 DEF Fits
        <5>3. rows[s].st # "deleted" /\ rows[s].st \in {"none", "live", "deleted"}
            BY <1>1, <1>4, <3>1 DEF RowsOK, States
        <5> QED BY <1>1, <4>1, <5>2, <5>3
      <4>2. CASE s # c.e
          BY <1>1, <1>2, <3>1, <3>3, <4>2 DEF Sound
      <4> QED BY <4>1, <4>2
    <3>4. ASSUME after[s].st = "live" PROVE after[f].st # "none" /\ after[s].home = after[f].home
      <4>1. rows[s].st = "live" /\ rows[f].st # "none" /\ rows[s].home = rows[f].home
          BY <1>1, <3>2, <3>4 DEF Sound
      <4>2. along(s) <=> along(f)
        <5>1. Moves(rows, c) => c.e \in Fish /\ s # c.e
            BY AloneConstants DEF Moves
        <5>2. f \notin SchedulesOf(rows, c.e) /\ (s \in SchedulesOf(rows, c.e) <=> f = c.e)
            BY <3>1, <4>1 DEF SchedulesOf
        <5> QED BY <5>1, <5>2
      <4>3. after[s].home = (IF along(s) THEN c.home ELSE rows[s].home) /\ after[f].home = (IF along(f) THEN c.home ELSE rows[f].home)
          BY <1>2, <3>1
      <4> HIDE DEF along
      <4> QED BY <3>2, <4>1, <4>2, <4>3
    <3> QED BY <3>2, <3>3, <3>4
  <2>3. ASSUME NEW e \in Entities PROVE after[e].val <= after[e].at
    <3>1. /\ after[e].val = IF e = c.e THEN c.ts ELSE rows[e].val
          /\ after[e].at = IF e = c.e \/ along(e) THEN start ELSE rows[e].at
        BY <1>2
    <3>2. rows[e].val <= rows[e].at /\ rows[e].at <= start /\ rows[e].at \in Nat /\ rows[e].val \in Nat
        BY <1>1, <1>4
    <3> HIDE DEF along
    <3> QED BY <1>1, <3>1, <3>2
  <2> QED BY <2>1, <2>2, <2>3 DEF Sound
<1>6. c.ts >= rows[c.e].val
  <2>1. CASE c.rest
      BY <1>1, <1>4, <2>1 DEF Ready
  <2>2. CASE ~c.rest
    <3>1. c.ts > rows[c.e].at
        BY <1>1, <1>4, <2>2 DEF Won
    <3> QED BY <1>1, <1>4, <3>1
  <2> QED BY <2>1, <2>2
<1>7. Newer(rows, after)
    BY <1>2, <1>4, <1>6 DEF Newer
<1>8. ASSUME c.rest PROVE Stays(rows, after)
  <2>1. ~Moves(rows, c)
      BY <1>8 DEF Moves
  <2> QED BY <1>1, <1>2, <1>4, <2>1 DEF Stays
<1>9. ASSUME ~c.rest PROVE ~Won(after, c)
  <2>1. after[c.e].at = start /\ after[c.e].st # "none"
      BY <1>1, <1>2
  <2> QED BY <1>1, <1>9, <2>1 DEF Won
<1> QED BY <1>5, <1>7, <1>8, <1>9 DEF Done, after

\* The columns of the rows after a deletion by sync.
LEMMA DeletedColumns ==
    ASSUME NEW rows, RowsOK(rows), NEW c \in Change, ~c.rest, NEW start \in Nat, start <= now, now \in Nat,
           NEW e \in Entities, \A o \in Entities : rows[o].at <= start
    PROVE  LET after == Deleted(rows, c, start)
               gone == e \notin Schedules /\ (e = c.e \/ e \in Doomed(rows, c))
           IN  IF e = c.e /\ e \in Schedules THEN after[e] = NoRow
               ELSE /\ after[e].st = IF gone THEN "deleted" ELSE rows[e].st
                    /\ after[e].home = rows[e].home /\ after[e].val = rows[e].val
                    /\ after[e].at >= rows[e].at
                    /\ after[e].on => rows[e].on /\ e \notin SwitchedOff(rows, c)
<1> DEFINE after == Deleted(rows, c, start)
           gone == e \notin Schedules /\ (e = c.e \/ e \in Doomed(rows, c))
           marked == [rows[e] EXCEPT !.st = "deleted"]  off == [rows[e] EXCEPT !.on = FALSE]
<1>1. rows[e] \in Row /\ c.e \in Entities /\ rows[e].at \in Nat /\ rows[e].at <= start
    BY RowFields DEF RowsOK, Change
<1>2. after[e] = CASE e = c.e -> IF e \in Schedules THEN NoRow ELSE Stamped(marked, start)
                   [] e \in Doomed(rows, c) -> Stamped(marked, now)
                   [] e \in SwitchedOff(rows, c) -> Stamped(off, start)
                   [] OTHER -> rows[e]
    BY DEF Deleted
<1>3. /\ e \in Doomed(rows, c) => e # c.e /\ e \notin Schedules /\ e \notin SwitchedOff(rows, c)
      /\ e \in SwitchedOff(rows, c) => e # c.e /\ e \in Schedules
    BY AloneConstants DEF Doomed, SwitchedOff, SchedulesOf, HousedIn
<1>4. \A t \in Nat : /\ Stamped(marked, t).st = "deleted" /\ Stamped(marked, t).home = rows[e].home
                     /\ Stamped(marked, t).val = rows[e].val /\ Stamped(marked, t).at = t
                     /\ Stamped(marked, t).on = rows[e].on
                     /\ Stamped(off, t).st = rows[e].st /\ Stamped(off, t).home = rows[e].home
                     /\ Stamped(off, t).val = rows[e].val /\ Stamped(off, t).at = t
                     /\ ~Stamped(off, t).on
    BY <1>1 DEF Stamped, Row
<1> HIDE DEF after, marked, off
<1>5. CASE e = c.e /\ e \in Schedules
  <2> DEFINE none == NoRow  cut == Stamped(marked, start)  cutNow == Stamped(marked, now)
             switched == Stamped(off, start)
  <2>1. after[e] = CASE e = c.e -> IF e \in Schedules THEN none ELSE cut
                     [] e \in Doomed(rows, c) -> cutNow
                     [] e \in SwitchedOff(rows, c) -> switched
                     [] OTHER -> rows[e]
      BY <1>2
  <2> HIDE DEF none, cut, cutNow, switched
  <2>2. after[e] = none
      BY <1>3, <1>5, <2>1
  <2> QED BY <1>5, <2>2 DEF after, none
<1>6. CASE e = c.e /\ e \notin Schedules
  <2>1. after[e] = Stamped(marked, start) /\ gone /\ e \notin SwitchedOff(rows, c)
      BY <1>2, <1>3, <1>6
  <2>2. /\ after[e].st = "deleted" /\ after[e].home = rows[e].home /\ after[e].val = rows[e].val
        /\ after[e].at = start /\ after[e].on = rows[e].on
      BY <1>4, <2>1
  <2> QED BY <1>1, <1>6, <2>1, <2>2 DEF after
<1>7. CASE e # c.e /\ e \in Doomed(rows, c)
  <2>1. after[e] = Stamped(marked, now) /\ gone /\ e \notin SwitchedOff(rows, c)
      BY <1>2, <1>3, <1>7
  <2>2. /\ after[e].st = "deleted" /\ after[e].home = rows[e].home /\ after[e].val = rows[e].val
        /\ after[e].at = now /\ after[e].on = rows[e].on
      BY <1>4, <2>1
  <2> QED BY <1>1, <1>7, <2>1, <2>2 DEF after
<1>8. CASE e # c.e /\ e \notin Doomed(rows, c) /\ e \in SwitchedOff(rows, c)
  <2>1. after[e] = Stamped(off, start) /\ ~gone
      BY <1>2, <1>3, <1>8
  <2>2. /\ after[e].st = rows[e].st /\ after[e].home = rows[e].home /\ after[e].val = rows[e].val
        /\ after[e].at = start /\ ~after[e].on
      BY <1>4, <2>1
  <2> QED BY <1>1, <1>8, <2>1, <2>2 DEF after
<1>9. CASE e # c.e /\ e \notin Doomed(rows, c) /\ e \notin SwitchedOff(rows, c)
  <2>1. after[e] = rows[e] /\ ~gone
      BY <1>2, <1>9
  <2> QED BY <1>1, <1>9, <2>1 DEF after
<1> QED BY <1>5, <1>6, <1>7, <1>8, <1>9

\* A deletion takes along the fish of an aquarium, and switches off the
\* schedules of what is gone.
LEMMA DeletedDone ==
    ASSUME NEW rows, NEW c, NEW start, Ready(rows, c, start), c.op = "delete"
    PROVE  Done(rows, Deleted(rows, c, start), c)
<1> DEFINE after == Deleted(rows, c, start)
           gone(e) == e \notin Schedules /\ (e = c.e \/ e \in Doomed(rows, c))
<1>1. /\ c \in Change /\ c.e \in Entities /\ c.ts \in Nat /\ c.ts <= start /\ start \in Nat /\ start <= now /\ now \in Nat
      /\ rows[c.e].st # "none" /\ RowsOK(rows) /\ Sound(rows) /\ ~c.rest
      /\ \A e \in Entities : rows[e].at <= start
    BY DEF Ready, Change
<1>2. \A e \in Entities :
         IF e = c.e /\ e \in Schedules THEN after[e] = NoRow
         ELSE /\ after[e].st = IF gone(e) THEN "deleted" ELSE rows[e].st
              /\ after[e].home = rows[e].home /\ after[e].val = rows[e].val
              /\ after[e].at >= rows[e].at
              /\ after[e].on => rows[e].on /\ e \notin SwitchedOff(rows, c)
    BY <1>1, DeletedColumns
<1> HIDE DEF after
<1>3. \A e \in Entities : rows[e].at \in Nat /\ rows[e].val \in Nat /\ rows[e].val <= rows[e].at
    BY <1>1, RowFields DEF RowsOK, Sound
<1>4. Sound(after)
  <2>1. ASSUME NEW f \in Fish, after[f].st = "live" PROVE after[f].home \in Live(after)
    <3>1. f \in Entities /\ f \notin Schedules /\ f \notin Aquariums
        BY AloneConstants
    <3>2. ~gone(f) /\ rows[f].st = "live" /\ after[f].home = rows[f].home
        BY <1>2, <2>1, <3>1
    <3> DEFINE a == rows[f].home
    <3>3. a \in Aquariums /\ rows[a].st = "live" /\ a \in Entities /\ a \notin Schedules
        BY <1>1, <3>2, AloneConstants DEF Sound, Live
    <3>4. a # c.e
        BY <3>1, <3>2, <3>3 DEF Doomed, HousedIn
    <3>5. a \notin Doomed(rows, c)
        BY <3>3, AloneConstants DEF Doomed, HousedIn
    <3>6. after[a].st = "live"
        BY <1>2, <3>3, <3>4, <3>5
    <3> QED BY <3>2, <3>3, <3>6 DEF Live
  <2>2. ASSUME NEW s \in Schedules
        PROVE  /\ after[s].on => after[s].st = "live" /\ after[FishOf[s]].st = "live"
               /\ after[s].st = "live" => after[FishOf[s]].st # "none" /\ after[s].home = after[FishOf[s]].home
    <3> DEFINE f == FishOf[s]
    <3>1. f \in Fish /\ f \in Entities /\ s \in Entities /\ f # s /\ f \notin Schedules /\ f \notin Aquariums
        BY AloneConstants
    <3>2. after[f].st = (IF gone(f) THEN "deleted" ELSE rows[f].st) /\ after[f].home = rows[f].home
        BY <1>2, <3>1
    <3>3. CASE s = c.e
        BY <1>2, <3>1, <3>3, AloneConstants
    <3>4. CASE s # c.e
      <4>1. /\ after[s].st = rows[s].st /\ after[s].home = rows[s].home
            /\ after[s].on => rows[s].on /\ s \notin SwitchedOff(rows, c)
          BY <1>2, <3>1, <3>4
      <4>2. ASSUME after[s].on PROVE rows[s].st = "live" /\ after[f].st = "live"
        <5>1. rows[s].on /\ s \notin SwitchedOff(rows, c) /\ rows[s].st = "live" /\ rows[f].st = "live"
              /\ rows[s].home = rows[f].home
            BY <1>1, <4>1, <4>2 DEF Sound
        <5>2. f # c.e
            BY <1>1, <3>1, <5>1 DEF SwitchedOff, SchedulesOf
        <5>3. f \notin Doomed(rows, c)
            BY <1>1, <3>1, <5>1 DEF SwitchedOff, Doomed, HousedIn
        <5> QED BY <3>2, <5>1, <5>2, <5>3
      <4>3. ASSUME after[s].st = "live" PROVE after[f].st # "none" /\ after[s].home = after[f].home
          BY <1>1, <3>2, <4>1, <4>3 DEF Sound
      <4> QED BY <4>1, <4>2, <4>3
    <3> QED BY <3>3, <3>4
  <2>3. ASSUME NEW e \in Entities PROVE after[e].val <= after[e].at
    <3>1. CASE e = c.e /\ e \in Schedules
        BY <1>2, <3>1, AloneConstants
    <3>2. CASE ~(e = c.e /\ e \in Schedules)
      <4>1. after[e].val = rows[e].val /\ after[e].at >= rows[e].at
          BY <1>2, <3>2
      <4>2. after[e].at \in Nat
        <5>1. after \in [Entities -> Row]
            BY <1>1, DeletedOK DEF KeepsRows, RowsOK, after
        <5> QED BY <5>1, RowFields
      <4> QED BY <1>3, <4>1, <4>2
    <3> QED BY <3>1, <3>2
  <2> QED BY <2>1, <2>2, <2>3 DEF Sound
<1>5. Newer(rows, after)
    BY <1>2, <1>3, AloneConstants DEF Newer
<1>6. ~Won(after, c)
  <2>1. IF c.e \in Schedules THEN after[c.e].st = "none" ELSE after[c.e].st = "deleted"
      BY <1>1, <1>2, AloneConstants
  <2>2. Skipped(after, c)
      BY <2>1 DEF Skipped
  <2> QED BY <1>1, <2>2 DEF Won
<1> QED BY <1>1, <1>4, <1>5, <1>6 DEF Done, after

LEMMA AppliedDone ==
    ASSUME NEW rows, NEW c, NEW start, Ready(rows, c, start)
    PROVE  Done(rows, Applied(rows, c, start), c)
<1>1. CASE c.op = "create" /\ rows[c.e].st = "none"
    BY <1>1, CreatedDone DEF Applied
<1>2. CASE c.op = "delete"
    BY <1>2, DeletedDone DEF Applied
<1>3. CASE c.op # "delete" /\ ~(c.op = "create" /\ rows[c.e].st = "none")
    BY <1>3, UpdatedDone DEF Applied
<1> QED BY <1>1, <1>2, <1>3

-----------------------------------------------------------------------------
(* One device alone: the steps.                                            *)

LEMMA NothingWritten ==
    ASSUME TypeOK, NEW d \in Devices, txn[d].wrote = {}
    PROVE  View(d) = row
    BY DEF TypeOK, View

LEMMA NewerIsSame == ASSUME TypeOK PROVE Newer(row, row) /\ Stays(row, row)
<1>1. \A e \in Entities : row[e].val \in Nat /\ row[e].at \in Nat
    BY RowFields DEF TypeOK
<1> QED BY <1>1 DEF Newer, Stays

LEMMA AloneStarts == ASSUME Init, NEW d \in Devices PROVE AloneInv(d)
<1>1. Sound(row)
  <2>1. ASSUME NEW f \in Fish, row[f].st = "live" PROVE row[f].home \in Live(row)
      BY <2>1, AloneConstants DEF Init
  <2>2. ASSUME NEW s \in Schedules
        PROVE  /\ row[s].on => row[s].st = "live" /\ row[FishOf[s]].st = "live"
               /\ row[s].st = "live" => row[FishOf[s]].st # "none" /\ row[s].home = row[FishOf[s]].home
    <3>1. s \in Entities /\ FishOf[s] \in Entities
        BY AloneConstants
    <3>2. row[s].st = "none" => ~row[s].on
        BY <3>1, AloneConstants DEF Init
    <3>3. row[s].st \in {"none", "live"}
        BY <3>1 DEF Init
    <3>4. row[s].st = "live" => row[FishOf[s]].st = "live" /\ row[s].home = row[FishOf[s]].home
        BY <3>1 DEF Init
    <3> QED BY <3>2, <3>3, <3>4
  <2>3. ASSUME NEW e \in Entities PROVE row[e].val <= row[e].at
      BY DEF Init
  <2> QED BY <2>1, <2>2, <2>3 DEF Sound
<1>2. pending[d] = <<>> /\ resent[d] = <<>> /\ \A c \in Devices : txn[c] = IdleTxn
    BY DEF Init
<1>3. IdleTxn.stage = "idle"
    BY DEF IdleTxn
<1> QED BY <1>1, <1>2, <1>3 DEF AloneInv

\* Nothing but the clock has changed.
LEMMA AloneTick == ASSUME SyncInv, NEW d \in Devices, AloneInv(d), Tick PROVE AloneInv(d)'
<1>1. now \in Nat /\ now' = now + 1 /\ row' = row /\ pending' = pending /\ txn' = txn /\ resent' = resent
    BY DEF SyncInv, TypeOK, Tick
<1>2. pending[d] # <<>> => pending[d][1].ts \in Nat
  <2>1. pending[d] \in Seq(Change)
      BY DEF SyncInv, TypeOK
  <2>2. pending[d] # <<>> => pending[d][1] \in Change
      BY <2>1
  <2> QED BY <2>2 DEF Change
<1>3. pending[d] # <<>> => pending[d][1].ts <= now'
    BY <1>1, <1>2 DEF AloneInv
<1>4. View(d)' = View(d)
    BY <1>1 DEF View
<1>5. Running(d) => Running(d)'
    BY <1>1, <1>4 DEF Running, Settled, Told
<1> QED BY <1>1, <1>3, <1>5 DEF AloneInv

\* The first edit since the last answer, made under parents that are shown.
LEMMA AloneEdits ==
    ASSUME SyncInv, NEW d \in Devices, AloneInv(d), Edit(d), OneEdit(d)'
    PROVE  AloneInv(d)'
<1>1. PICK e \in Entities, op \in Ops, h \in Homes, ahead \in 0..Drift :
         LET c == [e |-> e, op |-> op, ts |-> now + ahead, home |-> h, rest |-> FALSE]
         IN  Editable(d, c) /\ pending' = [pending EXCEPT ![d] = Append(@, c)]
    BY DEF Edit
<1> DEFINE c == [e |-> e, op |-> op, ts |-> now + ahead, home |-> h, rest |-> FALSE]
<1>2. c.e = e /\ c.op = op /\ c.home = h /\ c.rest = FALSE
    OBVIOUS
<1>3. Editable(d, c) /\ pending' = [pending EXCEPT ![d] = Append(@, c)]
    BY <1>1
<1> HIDE DEF c
<1>4. pending \in [Devices -> Seq(Change)] /\ now' = now /\ row' = row /\ txn' = txn /\ resent' = resent
      /\ txn[d].stage = "idle"
    BY DEF SyncInv, TypeOK, Edit
<1>5. pending'[d] = Append(pending[d], c)
    BY <1>3, <1>4
<1>6. pending[d] = <<>>
  <2>1. pending[d] \in Seq(Change) /\ Len(pending'[d]) <= 1
      BY <1>4 DEF OneEdit
  <2>2. Len(pending'[d]) = Len(pending[d]) + 1
      BY <1>5, <2>1
  <2>3. Len(pending[d]) = 0
      BY <2>1, <2>2
  <2> QED BY <2>1, <2>3
<1>7. pending'[d] = <<c>> /\ Len(pending'[d]) = 1 /\ pending'[d][1] = c
    BY <1>5, <1>6
<1>8. c.ts <= now'
    BY <1>7 DEF OneEdit
<1>9. \A i : ~Makes(d, i) /\ ~Drops(d, i) /\ Edits(d, i) = {}
    BY <1>6 DEF Makes, Drops, Edits
<1>10. Fits(row, c)
  <2>1. \A i : Knows(d, i) => Shown(i)
      BY <1>9 DEF Knows
  <2>2. ASSUME c.e \in Fish, c.op = "create" PROVE c.home \in Live(row)
    <3>1. c.home \in Aquariums /\ Knows(d, c.home)
        BY <1>3, <2>2, AloneConstants DEF Editable
    <3> QED BY <2>1, <3>1 DEF Shown, Live
  <2>3. ASSUME c.e \in Schedules, c.op # "delete"
        PROVE  row[FishOf[c.e]].st = "live" /\ (c.op = "create" => c.home = row[FishOf[c.e]].home)
    <3>1. HomeOf(d, FishOf[c.e]) = row[FishOf[c.e]].home
        BY <1>9 DEF HomeOf
    <3>2. c.home = row[FishOf[c.e]].home
        BY <1>3, <2>3, <3>1 DEF Editable
    <3>3. CASE c.op = "create"
        BY <1>3, <2>1, <2>3, <3>2, <3>3 DEF Editable, Shown
    <3>4. CASE c.op # "create"
      <4>1. row[c.e].on
          BY <1>3, <2>1, <2>3, <3>4 DEF Editable, Shown
      <4> QED BY <2>3, <3>4, <4>1 DEF AloneInv, Sound
    <3> QED BY <3>3, <3>4
  <2> QED BY <2>2, <2>3 DEF Fits
<1>11. resent[d] = <<>>
    BY <1>6 DEF AloneInv
<1> QED BY <1>2, <1>4, <1>7, <1>8, <1>10, <1>11 DEF AloneInv

\* What a request starts with.
LEMMA AloneBegins ==
    ASSUME SyncInv, NEW d \in Devices, AloneInv(d), NEW c, NEW rest \in BOOLEAN, Starts(d, <<c>>, rest),
           UNCHANGED <<now, row, pending, resent>>,
           IF rest THEN c.rest /\ c.op = "update" /\ c.e \notin Schedules /\ c.ts = now
           ELSE pending[d] # <<>> /\ c = pending[d][1]
    PROVE  AloneInv(d)'
<1> DEFINE todo == {[n |-> i, c |-> <<c>>[i]] : i \in 1..Len(<<c>>)}
           t == [IdleTxn EXCEPT !.stage = "apply", !.start = now, !.rest = rest, !.todo = todo]
<1>1. txn' = [txn EXCEPT ![d] = t]
    BY DEF Starts
<1>2. todo = {[n |-> 1, c |-> c]}
    OBVIOUS
<1>3. \A x \in todo : x.c = c
    BY <1>2
<1>4. \A x, y \in todo : x = y
    BY <1>2
<1>5. todo # {}
    BY <1>2
<1>6. t.stage = "apply" /\ t.start = now /\ t.rest = rest /\ t.todo = todo /\ t.wrote = {}
  <2> HIDE DEF todo
  <2> QED BY DEF IdleTxn
<1> HIDE DEF t, todo
<1>7. txn'[d] = t /\ \A b \in Devices \ {d} : txn'[b] = txn[b]
    BY <1>1 DEF SyncInv, TypeOK
<1>8. now' = now /\ row' = row /\ pending' = pending /\ resent' = resent
    OBVIOUS
<1>9. Running(d)'
  <2>1. \A e \in Entities : row[e].at <= now
      BY DEF SyncInv, TypeOK
  <2>2. ~rest => pending[d] # <<>> /\ pending[d][1].ts <= now
      BY DEF AloneInv
  <2>3. \A x \in todo : Told(d, x.c)'
      BY <1>3, <1>6, <1>7, <1>8 DEF Told
  <2> QED BY <1>4, <1>5, <1>6, <1>7, <1>8, <2>1, <2>2, <2>3 DEF Running
<1> QED BY <1>7, <1>8, <1>9 DEF AloneInv

LEMMA AloneSyncs == ASSUME SyncInv, NEW d \in Devices, AloneInv(d), BeginSync(d) PROVE AloneInv(d)'
<1>1. pending[d] \in Seq(Change) /\ pending[d] # <<>> /\ Len(pending[d]) <= 1
    BY DEF SyncInv, TypeOK, BeginSync, AloneInv
<1>2. pending[d] = <<pending[d][1]>>
    BY <1>1
<1>3. Starts(d, pending[d], FALSE) /\ UNCHANGED <<now, row, pending, resent>>
    BY DEF BeginSync
<1>4. PICK c : c = pending[d][1]
    OBVIOUS
<1>5. Starts(d, <<c>>, FALSE)
    BY <1>2, <1>3, <1>4
<1> QED BY <1>1, <1>3, <1>4, <1>5, AloneBegins

LEMMA AloneUpdates ==
    ASSUME SyncInv, NEW d \in Devices, AloneInv(d), BeginREST(d), OneEdit(d)'
    PROVE  AloneInv(d)'
<1>1. PICK e \in Aquariums \cup Fish, op \in RESTOps :
         Starts(d, <<[e |-> e, op |-> op, ts |-> now, rest |-> TRUE,
                      home |-> IF op = "update" THEN row[e].home ELSE Nowhere]>>, TRUE)
    BY DEF BeginREST
<1> DEFINE c == [e |-> e, op |-> op, ts |-> now, rest |-> TRUE,
                 home |-> IF op = "update" THEN row[e].home ELSE Nowhere]
<1>2. c.e = e /\ c.op = op /\ c.rest = TRUE /\ c.ts = now
    OBVIOUS
<1>3. Starts(d, <<c>>, TRUE) /\ UNCHANGED <<now, row, pending, resent>>
    BY <1>1 DEF BeginREST
<1> HIDE DEF c
<1>4. [n |-> 1, c |-> c] \in txn'[d].todo
  <2> DEFINE todo == {[n |-> i, c |-> <<c>>[i]] : i \in 1..Len(<<c>>)}
             t == [IdleTxn EXCEPT !.stage = "apply", !.start = now, !.rest = TRUE, !.todo = todo]
  <2>1. txn' = [txn EXCEPT ![d] = t]
      BY <1>3 DEF Starts
  <2>2. [n |-> 1, c |-> c] \in todo
      OBVIOUS
  <2>3. t.todo = todo
    <3> HIDE DEF todo
    <3> QED BY DEF IdleTxn
  <2> HIDE DEF t, todo
  <2> QED BY <2>1, <2>2, <2>3 DEF SyncInv, TypeOK
<1>5. c.op = "update"
    BY <1>2, <1>4 DEF OneEdit
<1>6. c.e \notin Schedules
    BY <1>2, AloneConstants
<1> QED BY <1>2, <1>3, <1>5, <1>6, AloneBegins

\* The change of a request that is not through.
LEMMA TheChange ==
    ASSUME SyncInv, NEW d \in Devices, AloneInv(d), txn[d].stage # "idle", NEW x \in txn[d].todo
    PROVE  /\ View(d) = row /\ txn[d].wrote = {} /\ txn[d].todo \ {x} = {}
           /\ x.c \in Change /\ Told(d, x.c) /\ x.c.ts <= txn[d].start /\ x.c.rest = txn[d].rest
           /\ ~txn[d].rest => x.c = pending[d][1] /\ Fits(row, x.c)
           /\ Wins(row, x.c) <=> Won(row, x.c)
           /\ txn[d].start \in Nat /\ txn[d].start <= now /\ now \in Nat
<1>1. Running(d) /\ txn[d] \in Txn /\ now \in Nat /\ txn[d].start <= now
    BY DEF AloneInv, SyncInv, TypeOK, WritesOK
<1>2. txn[d].wrote = {} /\ txn[d].todo \ {x} = {} /\ Told(d, x.c)
    BY <1>1 DEF Running
<1>3. View(d) = row
    BY <1>2, NothingWritten DEF SyncInv
<1>4. x.c \in Change /\ txn[d].start \in Nat /\ txn[d].rest \in BOOLEAN
    BY <1>1 DEF Txn, Place
<1>5. x.c.rest \in BOOLEAN /\ x.c.ts \in Nat /\ x.c.e \in Entities
    BY <1>4 DEF Change
<1>6. CASE txn[d].rest
  <2>1. x.c.rest /\ x.c.ts = txn[d].start
      BY <1>2, <1>6 DEF Told
  <2>2. Wins(row, x.c) /\ Won(row, x.c)
      BY <2>1 DEF Wins, Won
  <2> QED BY <1>1, <1>2, <1>3, <1>4, <1>5, <1>6, <2>1, <2>2
<1>7. CASE ~txn[d].rest
  <2>1. x.c = pending[d][1] /\ pending[d] # <<>> /\ pending[d][1].ts <= txn[d].start
      BY <1>1, <1>2, <1>7 DEF Told, Running
  <2>2. ~x.c.rest /\ x.c.ts <= now /\ Fits(row, x.c)
      BY <2>1 DEF AloneInv
  <2>3. row[x.c.e].at \in Nat
      BY <1>5, RowFields DEF SyncInv, TypeOK
  <2>4. Wins(row, x.c) <=> Won(row, x.c)
      BY <1>1, <1>4, <2>2, <2>3, WinsMeans
  <2> QED BY <1>1, <1>2, <1>3, <1>4, <1>5, <1>7, <2>1, <2>2, <2>4
<1> QED BY <1>6, <1>7

LEMMA AloneDecides == ASSUME SyncInv, NEW d \in Devices, AloneInv(d), Decide(d) PROVE AloneInv(d)'
<1>1. PICK x \in Upcoming(txn[d].todo) :
         \/ /\ Wins(View(d), x.c)
            /\ txn' = [txn EXCEPT ![d] = [txn[d] EXCEPT !.stage = "write"]]
         \/ /\ ~Wins(View(d), x.c)
            /\ \/ txn' = [txn EXCEPT ![d] = [txn[d] EXCEPT !.todo = @ \ {x}]]
               \/ txn' = [txn EXCEPT ![d] = [txn[d] EXCEPT !.todo = @ \ {x}, !.lost = @ \cup {x.c}]]
    BY Zenon DEF Decide
<1>2. x \in txn[d].todo /\ txn[d].stage = "apply" /\ txn[d] \in Txn /\ txn \in [Devices -> Txn] /\ Running(d)
    BY <1>1 DEF Upcoming, Decide, SyncInv, TypeOK, AloneInv
<1>3. now' = now /\ row' = row /\ pending' = pending /\ resent' = resent
    BY DEF Decide
<1>4. /\ View(d) = row /\ txn[d].wrote = {} /\ txn[d].todo \ {x} = {} /\ x.c.rest = txn[d].rest
      /\ ~txn[d].rest => x.c = pending[d][1]
      /\ Wins(row, x.c) <=> Won(row, x.c)
    BY <1>2, TheChange
<1>5. CASE Wins(View(d), x.c) /\ txn' = [txn EXCEPT ![d] = [txn[d] EXCEPT !.stage = "write"]]
  <2> DEFINE t == [txn[d] EXCEPT !.stage = "write"]
  <2>1. /\ t.stage = "write" /\ t.rest = txn[d].rest /\ t.start = txn[d].start /\ t.todo = txn[d].todo
        /\ t.wrote = txn[d].wrote
      BY <1>2 DEF Txn
  <2> HIDE DEF t
  <2>2. txn'[d] = t /\ \A b \in Devices \ {d} : txn'[b] = txn[b]
      BY <1>2, <1>5 DEF t
  <2>3. \A y \in txn[d].todo : y = x
      BY <1>2 DEF Running
  <2>4. Won(row, x.c)
      BY <1>4, <1>5
  <2>5. \A y \in txn[d].todo : Told(d, y.c)'
      BY <1>2, <1>3, <2>1, <2>2 DEF Told, Running
  <2>6. Running(d)'
      BY <1>2, <1>3, <2>1, <2>2, <2>3, <2>4, <2>5 DEF Running
  <2> QED BY <1>3, <2>2, <2>6 DEF AloneInv
<1>6. ASSUME ~Wins(View(d), x.c), NEW t,
             txn' = [txn EXCEPT ![d] = t],
             t.stage = "apply", t.rest = txn[d].rest, t.start = txn[d].start, t.todo = {}, t.wrote = {}
      PROVE  AloneInv(d)'
  <2>1. txn'[d] = t /\ \A b \in Devices \ {d} : txn'[b] = txn[b]
      BY <1>2, <1>6
  <2>2. ~txn[d].rest /\ ~Won(row, pending[d][1])
      BY <1>4, <1>6 DEF Wins
  <2>3. View(d)' = row
      BY <1>3, <1>4, <1>6, <2>1 DEF View
  <2>4. Sound(row) /\ Newer(row, row)
      BY NewerIsSame DEF AloneInv, SyncInv
  <2>5. Settled(d)'
      BY <1>3, <1>6, <2>1, <2>2, <2>3, <2>4 DEF Settled
  <2>6. Running(d)'
      BY <1>2, <1>3, <1>6, <2>1, <2>2, <2>5 DEF Running
  <2> QED BY <1>3, <2>1, <2>6 DEF AloneInv
<1>7. CASE ~Wins(View(d), x.c) /\ txn' = [txn EXCEPT ![d] = [txn[d] EXCEPT !.todo = @ \ {x}]]
  <2> DEFINE t == [txn[d] EXCEPT !.todo = @ \ {x}]
  <2>1. t.stage = "apply" /\ t.rest = txn[d].rest /\ t.start = txn[d].start /\ t.todo = {} /\ t.wrote = {}
      BY <1>2, <1>4 DEF Txn
  <2> QED BY <1>6, <1>7, <2>1
<1>8. CASE ~Wins(View(d), x.c) /\ txn' = [txn EXCEPT ![d] = [txn[d] EXCEPT !.todo = @ \ {x}, !.lost = @ \cup {x.c}]]
  <2> DEFINE t == [txn[d] EXCEPT !.todo = @ \ {x}, !.lost = @ \cup {x.c}]
  <2>1. t.stage = "apply" /\ t.rest = txn[d].rest /\ t.start = txn[d].start /\ t.todo = {} /\ t.wrote = {}
      BY <1>2, <1>4 DEF Txn
  <2> QED BY <1>6, <1>8, <2>1
<1> QED BY <1>1, <1>5, <1>7, <1>8

LEMMA AloneWrites == ASSUME SyncInv, NEW d \in Devices, AloneInv(d), Write(d) PROVE AloneInv(d)'
<1> DEFINE t == txn[d]
<1>1. PICK x \in Upcoming(t.todo) :
         /\ x.c.op = "create" \/ View(d)[x.c.e].st # "none"
         /\ txn' = [txn EXCEPT ![d] =
               [t EXCEPT !.stage = "apply", !.todo = @ \ {x}, !.wrote = @ \cup Written(View(d), x.c, t.start),
                         !.over = [e \in Entities |->
                                      IF e \in t.wrote \cup Written(View(d), x.c, t.start)
                                      THEN Applied(View(d), x.c, t.start)[e] ELSE NoRow]]]
    BY Zenon DEF Write
<1>2. x \in t.todo /\ t.stage = "write" /\ t \in Txn /\ txn \in [Devices -> Txn] /\ Running(d)
    BY <1>1 DEF Upcoming, Write, SyncInv, TypeOK, AloneInv
<1>3. now' = now /\ row' = row /\ pending' = pending /\ resent' = resent
    BY DEF Write
<1>4. /\ View(d) = row /\ t.wrote = {} /\ t.todo \ {x} = {} /\ x.c.rest = t.rest
      /\ x.c \in Change /\ Told(d, x.c) /\ x.c.ts <= t.start
      /\ ~t.rest => x.c = pending[d][1] /\ Fits(row, x.c)
      /\ t.start \in Nat /\ t.start <= now /\ now \in Nat
    BY <1>2, TheChange
<1>5. Won(row, x.c) /\ \A e \in Entities : row[e].at <= t.start
    BY <1>2 DEF Running
<1> DEFINE after == Applied(row, x.c, t.start)  S == Written(row, x.c, t.start)
           over == [e \in Entities |-> IF e \in S THEN after[e] ELSE NoRow]
           u == [t EXCEPT !.stage = "apply", !.todo = @ \ {x}, !.wrote = @ \cup S, !.over = over]
<1>6. RowsOK(row)
    BY DEF SyncInv, TypeOK, RowsOK
<1>7. Ready(row, x.c, t.start)
  <2>1. t.rest => x.c.op = "update" /\ x.c.e \notin Schedules /\ x.c.ts = t.start
      BY <1>4 DEF Told
  <2>2. x.c.op = "create" \/ row[x.c.e].st # "none"
      BY <1>1, <1>4
  <2> QED BY <1>4, <1>5, <1>6, <2>1, <2>2 DEF Ready, AloneInv
<1>8. Done(row, after, x.c)
    BY <1>7, AppliedDone
<1>9. after \in [Entities -> Row]
    BY <1>4, <1>6, AppliedOK DEF KeepsRows, RowsOK
<1>10. \A e \in Entities : e \notin S => after[e] = row[e]
    BY DEF Written
<1>11. txn' = [txn EXCEPT ![d] = u]
    BY <1>1, <1>4
<1> HIDE DEF after, S
<1>12. u.stage = "apply" /\ u.todo = {} /\ u.wrote = S /\ u.over = over /\ u.rest = t.rest /\ u.start = t.start
  <2> HIDE DEF over
  <2> QED BY <1>2, <1>4 DEF Txn
<1> HIDE DEF u
<1>13. txn'[d] = u /\ \A b \in Devices \ {d} : txn'[b] = txn[b]
    BY <1>2, <1>11
<1>14. View(d)' = after
  <2>1. View(d)' = [e \in Entities |-> IF e \in S THEN over[e] ELSE row[e]]
    <3> HIDE DEF over
    <3> QED BY <1>3, <1>12, <1>13 DEF View
  <2>2. \A e \in Entities : (IF e \in S THEN over[e] ELSE row[e]) = after[e]
      BY <1>10
  <2> HIDE DEF over
  <2> QED BY <1>9, <2>1, <2>2
<1> HIDE DEF over
<1>15. ~t.rest => resent[d] = <<>>
    BY <1>4, <1>5 DEF AloneInv
<1>16. Settled(d)'
  <2>1. Sound(after) /\ Newer(row, after) /\ (t.rest => Stays(row, after)) /\ (~t.rest => ~Won(after, pending[d][1]))
      BY <1>4, <1>8 DEF Done
  <2> QED BY <1>3, <1>12, <1>13, <1>14, <1>15, <2>1 DEF Settled
<1>17. Running(d)'
    BY <1>2, <1>3, <1>5, <1>12, <1>13, <1>16 DEF Running
<1> QED BY <1>3, <1>13, <1>17 DEF AloneInv

\* An online update leaves what waits to be sent where it was.
LEMMA StaysFits ==
    ASSUME NEW rows, NEW after, Stays(rows, after), NEW c \in Change, ~c.rest,
           rows \in [Entities -> Row], after \in [Entities -> Row]
    PROVE  /\ Fits(rows, c) => Fits(after, c)
           /\ ~Won(rows, c) => ~Won(after, c)
<1>1. c.e \in Entities /\ c.ts \in Nat /\ rows[c.e].at \in Nat /\ after[c.e].at \in Nat
    BY RowFields DEF Change
<1>2. after[c.e].st = rows[c.e].st /\ after[c.e].at >= rows[c.e].at
    BY <1>1 DEF Stays
<1>3. Won(after, c) => Won(rows, c)
    BY <1>1, <1>2 DEF Won, Skipped
<1>4. Live(after) = Live(rows)
    BY AloneConstants DEF Stays, Live
<1>5. \A s \in Schedules : after[FishOf[s]].st = rows[FishOf[s]].st /\ after[FishOf[s]].home = rows[FishOf[s]].home
    BY AloneConstants DEF Stays
<1> QED BY <1>3, <1>4, <1>5 DEF Fits

LEMMA AloneCommits ==
    ASSUME SyncInv, NEW d \in Devices, AloneInv(d), Commit(d)
    PROVE  AloneInv(d)' /\ NewerEditShows /\ ResendHarmless
<1>1. /\ row' = View(d) /\ now' = now /\ txn' = [txn EXCEPT ![d] = IdleTxn]
      /\ txn[d].stage = "apply" /\ txn[d].todo = {}
    BY DEF Commit
<1>2. Running(d) /\ Settled(d)
    BY <1>1 DEF AloneInv, Running
<1>3. txn'[d] = IdleTxn /\ \A b \in Devices \ {d} : txn'[b] = IdleTxn
    BY <1>1 DEF SyncInv, TypeOK, AloneInv
<1>4. IdleTxn.stage = "idle"
    BY DEF IdleTxn
<1>5. Sound(row') /\ Newer(row, row')
    BY <1>1, <1>2 DEF Settled
<1>6. pending \in [Devices -> Seq(Change)] /\ resent \in [Devices -> Seq(Change)] /\ txn[d].rest \in BOOLEAN
      /\ row \in [Entities -> Row] /\ row' \in [Entities -> Row]
  <2>1. row' \in [Entities -> Row]
      BY <1>1, ViewOK DEF SyncInv, RowsOK
  <2> QED BY <2>1 DEF SyncInv, TypeOK, Txn
<1>7. \/ /\ pending' = [pending EXCEPT ![d] = IF txn[d].rest THEN @ ELSE <<>>]
         /\ resent' = [resent EXCEPT ![d] = IF txn[d].rest THEN @ ELSE <<>>]
      \/ ~txn[d].rest /\ pending' = pending /\ resent' = [resent EXCEPT ![d] = pending[d]]
    BY Zenon DEF Commit
<1>8. AloneInv(d)'
  <2>1. CASE txn[d].rest
    <3>1. pending'[d] = pending[d] /\ resent'[d] = resent[d]
        BY <1>6, <1>7, <2>1
    <3>2. Stays(row, row')
        BY <1>1, <1>2, <2>1 DEF Settled
    <3>3. ASSUME pending[d] # <<>>
          PROVE  Fits(row', pending[d][1]) /\ (~Won(row, pending[d][1]) => ~Won(row', pending[d][1]))
      <4>1. pending[d][1] \in Change /\ ~pending[d][1].rest /\ Fits(row, pending[d][1])
          BY <1>6, <3>3 DEF AloneInv
      <4> QED BY <1>6, <3>2, <4>1, StaysFits
    <3> QED BY <1>1, <1>3, <1>4, <1>5, <3>1, <3>3 DEF AloneInv
  <2>2. CASE ~txn[d].rest
    <3>1. pending[d] # <<>> /\ ~Won(row', pending[d][1])
        BY <1>1, <1>2, <2>2 DEF Running, Settled
    <3>2. CASE pending'[d] = <<>> /\ resent'[d] = <<>>
      <4>1. Len(pending'[d]) <= 1
          BY <3>2
      <4> QED BY <1>1, <1>3, <1>4, <1>5, <3>2, <4>1 DEF AloneInv
    <3>3. CASE pending'[d] = pending[d] /\ resent'[d] = pending[d]
      <4>1. Fits(row', pending[d][1])
          BY <3>1 DEF Fits
      <4> QED BY <1>1, <1>3, <1>4, <1>5, <3>1, <3>3, <4>1 DEF AloneInv
    <3>4. \/ pending'[d] = <<>> /\ resent'[d] = <<>>
          \/ pending'[d] = pending[d] /\ resent'[d] = pending[d]
        BY <1>6, <1>7, <2>2
    <3> QED BY <3>2, <3>3, <3>4
  <2> QED BY <2>1, <2>2
<1>9. NewerEditShows
  <2>1. \A e \in Entities : row[e].val \in Nat /\ row'[e].val \in Nat
      BY <1>6, RowFields
  <2> QED BY <1>5, <2>1, AloneConstants DEF Newer, NewerEditShows
<1>10. ResendHarmless
  <2> SUFFICES ASSUME NEW b \in Devices, Commit(b), ~txn[b].rest, resent[b] = pending[b] PROVE row' = row
      BY DEF ResendHarmless
  <2>1. b = d
      BY <1>4 DEF AloneInv, Commit
  <2>2. txn[d].wrote = {}
      BY <1>1, <1>2, <2>1 DEF Running, Settled
  <2> QED BY <1>1, <2>2, NothingWritten DEF SyncInv
<1> QED BY <1>8, <1>9, <1>10

LEMMA AloneFails == ASSUME SyncInv, NEW d \in Devices, AloneInv(d), Fail(d) PROVE AloneInv(d)'
<1>1. txn' = [txn EXCEPT ![d] = IdleTxn] /\ now' = now /\ row' = row /\ pending' = pending /\ resent' = resent
    BY DEF Fail
<1>2. txn'[d] = IdleTxn /\ \A b \in Devices \ {d} : txn'[b] = txn[b]
    BY <1>1 DEF SyncInv, TypeOK
<1>3. IdleTxn.stage = "idle"
    BY DEF IdleTxn
<1> QED BY <1>1, <1>2, <1>3 DEF AloneInv

\* Rows that stay keep every value.
LEMMA RowsStay == ASSUME SyncInv, row' = row PROVE NewerEditShows /\ ResendHarmless
<1>1. \A e \in Entities : row[e].val \in Nat
    BY RowFields DEF SyncInv, TypeOK
<1> QED BY <1>1, AloneConstants DEF NewerEditShows, ResendHarmless

LEMMA AloneStep ==
    ASSUME SyncInv, NEW d \in Devices, AloneInv(d), Tick \/ (Acts(d) /\ OneEdit(d)')
    PROVE  AloneInv(d)' /\ NewerEditShows /\ ResendHarmless
<1>1. CASE Tick
    BY <1>1, AloneTick, RowsStay DEF Tick
<1>2. CASE Edit(d) /\ OneEdit(d)'
    BY <1>2, AloneEdits, RowsStay DEF Edit
<1>3. CASE BeginSync(d)
    BY <1>3, AloneSyncs, RowsStay DEF BeginSync
<1>4. CASE BeginREST(d) /\ OneEdit(d)'
    BY <1>4, AloneUpdates, RowsStay DEF BeginREST
<1>5. CASE Decide(d)
  <2>1. row' = row
      BY <1>5, Zenon DEF Decide
  <2> QED BY <1>5, <2>1, AloneDecides, RowsStay
<1>6. CASE Write(d)
  <2>1. row' = row
      BY <1>6, Zenon DEF Write
  <2> QED BY <1>6, <2>1, AloneWrites, RowsStay
<1>7. CASE Commit(d)
    BY <1>7, AloneCommits
<1>8. CASE Fail(d)
    BY <1>8, AloneFails, RowsStay DEF Fail
<1> QED BY <1>1, <1>2, <1>3, <1>4, <1>5, <1>6, <1>7, <1>8 DEF Acts

\* The types, and for a device alone what its requests leave behind.
AllInv == SyncInv /\ (alone # Nobody => alone \in Devices /\ AloneInv(alone))

LEMMA AllStarts == AloneInit => AllInv
    BY SyncInit, AloneStarts DEF AloneInit, AllInv

LEMMA AllStep ==
    AllInv /\ [AloneNext]_aloneVars
        => AllInv' /\ [alone # Nobody => NewerEditShows /\ ResendHarmless]_vars
<1> SUFFICES ASSUME AllInv, [AloneNext]_aloneVars
             PROVE  AllInv' /\ [alone # Nobody => NewerEditShows /\ ResendHarmless]_vars
    OBVIOUS
<1>1. alone' = alone /\ [Next]_vars
  <2>1. CASE AloneNext
    <3>1. alone # Nobody => alone \in Devices
        BY DEF AllInv
    <3>2. CASE alone # Nobody /\ Acts(alone)
      <4>1. \E d \in Devices : Acts(d)
          BY <3>1, <3>2
      <4> QED BY <2>1, <4>1 DEF AloneNext, Next
    <3> QED BY <2>1, <3>2 DEF AloneNext, Next
  <2>2. CASE UNCHANGED aloneVars
      BY <2>2 DEF aloneVars
  <2> QED BY <2>1, <2>2
<1>2. SyncInv'
    BY <1>1, SyncStep DEF AllInv
<1>3. CASE alone = Nobody
    BY <1>1, <1>2, <1>3 DEF AllInv
<1>4. CASE alone # Nobody /\ UNCHANGED vars
  <2>1. PICK d \in Devices : d = alone /\ AloneInv(d)
      BY <1>4 DEF AllInv
  <2>2. now' = now /\ row' = row /\ pending' = pending /\ txn' = txn /\ resent' = resent
      BY <1>4 DEF vars
  <2>3. View(d)' = View(d)
      BY <2>2 DEF View
  <2>4. Running(d) => Running(d)'
      BY <2>2, <2>3 DEF Running, Settled, Told
  <2>5. AloneInv(d)'
      BY <2>1, <2>2, <2>4 DEF AloneInv
  <2> QED BY <1>1, <1>2, <1>4, <2>1, <2>5 DEF AllInv
<1>5. CASE alone # Nobody /\ ~UNCHANGED vars
  <2>1. PICK d \in Devices : d = alone /\ AloneInv(d)
      BY <1>5 DEF AllInv
  <2>2. Tick \/ (Acts(d) /\ OneEdit(d)')
      BY <1>1, <1>5, <2>1 DEF AloneNext, aloneVars
  <2>3. AloneInv(d)' /\ NewerEditShows /\ ResendHarmless
      BY <2>1, <2>2, AloneStep DEF AllInv
  <2> QED BY <1>1, <1>2, <2>1, <2>3 DEF AllInv
<1> QED BY <1>3, <1>4, <1>5

\* Rows keep their types; and one device alone leaves no live fish in a deleted
\* aquarium and no schedule of a deleted fish switched on, moves schedules with
\* their fish (changes.py), whatever it sends and however often.
THEOREM CascadesComplete == AloneSpec => []RowsConsistent
<1>1. AllInv => RowsConsistent
  <2> SUFFICES ASSUME AllInv, alone # Nobody PROVE NoOrphans /\ SchedulesFollowFish
      BY DEF AllInv, SyncInv, RowsConsistent
  <2>1. Sound(row)
      BY DEF AllInv, AloneInv
  <2> QED BY <2>1 DEF Sound, NoOrphans, SchedulesFollowFish, Live
<1> QED BY <1>1, AllStarts, AllStep, PTL DEF AloneSpec

\* Alone, what a row shows is not replaced by an older edit, and a batch that is
\* sent again because its answer was lost changes nothing (utils.py,
\* resolve_conflict).
THEOREM EditsSurvive == AloneSpec => EditsKept
<1> QED BY AllStarts, AllStep, PTL DEF AloneSpec, EditsKept
=============================================================================
