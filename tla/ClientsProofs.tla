--------------------------- MODULE ClientsProofs ---------------------------
(***************************************************************************)
(* Proofs about what the clients of Services hold, for any of them:        *)
(*   SyncDelta: what a client may miss, and what its pages make up;        *)
(*   Profile: the statistics in the cache, and the points of a user.       *)
(***************************************************************************)
EXTENDS Services, FiniteSetTheorems, TLAPS

-----------------------------------------------------------------------------
(* SyncDelta.                                                              *)

\* What ServicesAssumption says of the constants of SyncDelta.
DeltaConstants ==
    /\ IsFiniteSet(Items) /\ IdOf \in [Items -> Int] /\ KindOf \in [Items -> Delta!Kinds]
    /\ PageSize \in Nat \ {0} /\ Never \notin Nat /\ MaxClock \in Nat /\ MaxWrites \in [Items -> Nat]

LEMMA SameDeltaCardinality == \A S : Delta!Cardinality(S) = Cardinality(S)
BY DEF Delta!Cardinality, Cardinality

-----------------------------------------------------------------------------
\* The pages.

\* The rows of a delta that come on pages, and those that come before r.
Listed(since) == {r \in Items : KindOf[r] # "user" /\ row[r].state = "live" /\ Delta!Since(r, since)}
Earlier(q, r) == \/ Delta!KindRank(q) < Delta!KindRank(r)
                 \/ Delta!KindRank(q) = Delta!KindRank(r) /\ Delta!Before(q, r)
Pred(r, since)     == {q \in Listed(since) : Earlier(q, r)}
Position(r, since) == Cardinality(Pred(r, since))

LEMMA KindRanks ==
    ASSUME DeltaConstants, NEW r \in Items, KindOf[r] # "user"
    PROVE  /\ Delta!KindRank(r) \in 1..4 /\ Delta!Paged[Delta!KindRank(r)] = KindOf[r]
           /\ \A k \in 1..4 : Delta!Paged[k] = KindOf[r] => k = Delta!KindRank(r)
<1>1. \E k \in 1..4 : Delta!Paged[k] = KindOf[r]
    BY DEF DeltaConstants, Delta!Kinds, Delta!Paged
<1>2. Delta!KindRank(r) \in 1..4 /\ Delta!Paged[Delta!KindRank(r)] = KindOf[r]
    BY <1>1 DEF Delta!KindRank
<1>3. \A j, k \in 1..4 : Delta!Paged[j] = Delta!Paged[k] => j = k
    BY DEF Delta!Paged
<1> QED BY <1>2, <1>3

\* The rows of a kind are those of its rank.
LEMMA ActiveIsRank ==
    ASSUME DeltaConstants, NEW since, NEW k \in 1..4
    PROVE  Delta!Active(Delta!Paged[k], since) = {q \in Listed(since) : Delta!KindRank(q) = k}
<1>1. Delta!Paged[k] # "user"
    BY DEF Delta!Paged
<1> QED BY <1>1, KindRanks DEF Delta!Active, Listed

LEMMA ListedFinite ==
    ASSUME DeltaConstants, NEW since, NEW S \in SUBSET Listed(since)
    PROVE  IsFiniteSet(S) /\ Cardinality(S) \in Nat /\ Cardinality(S) <= Cardinality(Listed(since))
<1>1. IsFiniteSet(Listed(since))
    BY FS_Subset DEF DeltaConstants, Listed
<1> QED BY <1>1, FS_Subset, FS_CardinalityType

LEMMA DisjointSum ==
    ASSUME NEW S, NEW T, IsFiniteSet(S), IsFiniteSet(T), S \cap T = {}
    PROVE  Cardinality(S \cup T) = Cardinality(S) + Cardinality(T)
<1>1. Cardinality(S \cup T) = Cardinality(S) + Cardinality(T) - Cardinality(S \cap T)
    BY FS_Union
<1>2. Cardinality(S \cap T) = 0
    BY FS_EmptySet
<1>3. Cardinality(S) \in Nat /\ Cardinality(T) \in Nat
    BY FS_CardinalityType
<1> QED BY <1>1, <1>2, <1>3

Lower(k, since) == {q \in Listed(since) : Delta!KindRank(q) < k}

\* The bases of the windows count the rows of the kinds before.
LEMMA BaseCounts ==
    ASSUME DeltaConstants, NEW since
    PROVE  /\ \A k \in 1..4 : Delta!Base(k, since) = Cardinality(Lower(k, since))
           /\ Delta!Total(since) = Cardinality(Listed(since))
           /\ \A k \in 1..4 : Delta!Count(k, since) \in Nat
<1> DEFINE Of(k) == {q \in Listed(since) : Delta!KindRank(q) = k}
<1>1. \A k \in 1..4 : Delta!Count(k, since) = Cardinality(Of(k)) /\ Cardinality(Of(k)) \in Nat
  <2> TAKE k \in 1..4
  <2>1. Delta!Count(k, since) = Cardinality(Of(k))
      BY ActiveIsRank, SameDeltaCardinality DEF Delta!Count
  <2> QED BY <2>1, ListedFinite
<1>2. \A q \in Listed(since) : Delta!KindRank(q) \in 1..4
    BY KindRanks DEF Listed
<1>3. Cardinality(Lower(1, since)) = 0
  <2>1. Lower(1, since) = {}
      BY <1>2 DEF Lower
  <2> QED BY <2>1, FS_EmptySet
<1>4. \A k \in 1..4 : Cardinality(Lower(k + 1, since)) = Cardinality(Lower(k, since)) + Cardinality(Of(k))
  <2> TAKE k \in 1..4
  <2>1. Lower(k + 1, since) = Lower(k, since) \cup Of(k) /\ Lower(k, since) \cap Of(k) = {}
      BY <1>2 DEF Lower
  <2>2. IsFiniteSet(Lower(k, since)) /\ IsFiniteSet(Of(k))
    <3>1. Lower(k, since) \in SUBSET Listed(since) /\ Of(k) \in SUBSET Listed(since)
        BY DEF Lower
    <3> QED BY <3>1, ListedFinite
  <2> HIDE DEF Of
  <2> QED BY <2>1, <2>2, DisjointSum
<1>5. Lower(5, since) = Listed(since)
    BY <1>2 DEF Lower
<1> HIDE DEF Of
<1>6. /\ Cardinality(Lower(2, since)) = Cardinality(Of(1))
      /\ Cardinality(Lower(3, since)) = Cardinality(Of(1)) + Cardinality(Of(2))
      /\ Cardinality(Lower(4, since)) = Cardinality(Of(1)) + Cardinality(Of(2)) + Cardinality(Of(3))
      /\ Cardinality(Listed(since)) = Cardinality(Of(1)) + Cardinality(Of(2)) + Cardinality(Of(3)) + Cardinality(Of(4))
  <2>1. Cardinality(Lower(2, since)) = Cardinality(Of(1))
      BY <1>1, <1>3, <1>4
  <2>2. Cardinality(Lower(3, since)) = Cardinality(Of(1)) + Cardinality(Of(2))
      BY <1>1, <1>4, <2>1
  <2>3. Cardinality(Lower(4, since)) = Cardinality(Of(1)) + Cardinality(Of(2)) + Cardinality(Of(3))
      BY <1>1, <1>4, <2>2
  <2> QED BY <1>1, <1>4, <1>5, <2>1, <2>2, <2>3
<1>7. /\ Delta!Base(1, since) = 0
      /\ Delta!Base(2, since) = Cardinality(Of(1))
      /\ Delta!Base(3, since) = Cardinality(Of(1)) + Cardinality(Of(2))
      /\ Delta!Base(4, since) = Cardinality(Of(1)) + Cardinality(Of(2)) + Cardinality(Of(3))
    BY <1>1 DEF Delta!Base
<1>8. \A k \in 1..4 : k = 1 \/ k = 2 \/ k = 3 \/ k = 4
    OBVIOUS
<1>9. Delta!Total(since) = Cardinality(Listed(since))
    BY <1>1, <1>6, <1>7 DEF Delta!Total
<1> QED BY <1>1, <1>3, <1>6, <1>7, <1>8, <1>9

\* A row's place is after the kinds before its own, in the order of its kind.
LEMMA PlaceOfRow ==
    ASSUME DeltaConstants, NEW since, NEW r \in Listed(since), NEW k \in 1..4, k = Delta!KindRank(r)
    PROVE  LET rank == Delta!Rank(r, Delta!Active(Delta!Paged[k], since))
           IN  /\ rank \in Nat /\ rank < Delta!Count(k, since)
               /\ Delta!Base(k, since) \in Nat /\ Position(r, since) = Delta!Base(k, since) + rank
<1> DEFINE Of   == {q \in Listed(since) : Delta!KindRank(q) = k}
           Peer == {q \in Of : Delta!Before(q, r)}
<1>1. Delta!Rank(r, Delta!Active(Delta!Paged[k], since)) = Cardinality(Peer)
    BY ActiveIsRank, SameDeltaCardinality DEF Delta!Rank
<1>2. Delta!Count(k, since) = Cardinality(Of)
    BY ActiveIsRank, SameDeltaCardinality DEF Delta!Count
<1>3. Of \in SUBSET Listed(since) /\ Peer \in SUBSET Listed(since) /\ Lower(k, since) \in SUBSET Listed(since)
    BY DEF Lower
<1>4. r \in Of /\ r \notin Peer
  <2>1. IdOf[r] \in Int
      BY DEF DeltaConstants, Listed
  <2> QED BY <2>1 DEF Delta!Before
<1>5. Cardinality(Peer) < Cardinality(Of)
  <2>1. IsFiniteSet(Of) /\ Cardinality(Of) \in Nat
      BY <1>3, ListedFinite
  <2>2. Peer \subseteq Of /\ Peer # Of
      BY <1>4
  <2>3. Cardinality(Peer) \in Nat
      BY <1>3, ListedFinite
  <2> HIDE DEF Peer, Of
  <2> QED BY <2>1, <2>2, <2>3, FS_Subset
<1>6. Pred(r, since) = Lower(k, since) \cup Peer /\ Lower(k, since) \cap Peer = {}
  <2>1. \A q \in Listed(since) : Delta!KindRank(q) \in 1..4
      BY KindRanks DEF Listed
  <2> QED BY <2>1 DEF Pred, Earlier, Lower
<1>7. IsFiniteSet(Lower(k, since)) /\ IsFiniteSet(Peer) /\ Cardinality(Peer) \in Nat /\ Cardinality(Lower(k, since)) \in Nat
    BY <1>3, ListedFinite
<1> HIDE DEF Peer, Of
<1>8. Position(r, since) = Cardinality(Lower(k, since)) + Cardinality(Peer)
    BY <1>6, <1>7, DisjointSum DEF Position
<1> QED BY <1>1, <1>2, <1>5, <1>7, <1>8, BaseCounts

\* What a page brings.
LEMMA PageBrings ==
    ASSUME DeltaConstants, NEW since, NEW start \in Nat
    PROVE  Delta!Page(since, start)
             = {r \in Listed(since) : start <= Position(r, since) /\ Position(r, since) < start + PageSize}
<1> DEFINE InPage(r) == start <= Position(r, since) /\ Position(r, since) < start + PageSize
<1>1. ASSUME NEW k \in 1..4, NEW r \in Listed(since), Delta!KindRank(r) = k
      PROVE  r \in Delta!Window(k, since, start) <=> InPage(r)
  <2> DEFINE rank == Delta!Rank(r, Delta!Active(Delta!Paged[k], since))
             base == Delta!Base(k, since)
             count == Delta!Count(k, since)
  <2>1. r \in Delta!Active(Delta!Paged[k], since)
      BY <1>1, ActiveIsRank
  <2>2. rank \in Nat /\ rank < count /\ base \in Nat /\ Position(r, since) = base + rank /\ count \in Nat
      BY <1>1, PlaceOfRow, BaseCounts
  <2>3. r \in Delta!Window(k, since, start) <=>
            /\ Delta!Larger(start, base) - base <= rank
            /\ rank < Delta!Smaller(start + PageSize, base + count) - base
      BY <2>1 DEF Delta!Window
  <2> HIDE DEF rank, base, count
  <2>4. Delta!Larger(start, base) - base <= rank <=> start <= base + rank
      BY <2>2 DEF Delta!Larger
  <2>5. rank < Delta!Smaller(start + PageSize, base + count) - base <=> base + rank < start + PageSize
      BY <2>2 DEF Delta!Smaller, DeltaConstants
  <2> QED BY <2>2, <2>3, <2>4, <2>5
<1>2. ASSUME NEW k \in 1..4, NEW r \in Delta!Window(k, since, start) PROVE r \in Listed(since) /\ Delta!KindRank(r) = k
    BY ActiveIsRank DEF Delta!Window
<1>3. \A r \in Listed(since) : Delta!KindRank(r) \in 1..4
    BY KindRanks DEF Listed
<1>4. \A r : r \in Delta!Page(since, start) <=> \E k \in 1..4 : r \in Delta!Window(k, since, start)
    BY DEF Delta!Page
<1> QED BY <1>1, <1>2, <1>3, <1>4

LEMMA SliceIsPage ==
    ASSUME DeltaConstants, NEW since, NEW start \in Nat PROVE Delta!Page(since, start) = Delta!Slice(since, start)
<1> DEFINE all == UNION {Delta!Active(Delta!Paged[k], since) : k \in 1..4}
<1>1. all = Listed(since)
  <2>1. \A r : r \in all <=> \E k \in 1..4 : r \in Delta!Active(Delta!Paged[k], since)
      OBVIOUS
  <2>2. \A r \in Listed(since) : Delta!KindRank(r) \in 1..4
      BY KindRanks DEF Listed
  <2> QED BY <2>1, <2>2, ActiveIsRank
<1>2. Delta!Slice(since, start)
        = {r \in all : LET p == Delta!Cardinality({q \in all : Earlier(q, r)}) IN start <= p /\ p < start + PageSize}
    BY DEF Delta!Slice, Earlier
<1> HIDE DEF all
<1>3. \A r \in all : Delta!Cardinality({q \in all : Earlier(q, r)}) = Position(r, since)
    BY <1>1, SameDeltaCardinality DEF Position, Pred
<1> QED BY <1>1, <1>2, <1>3, PageBrings

LEMMA PositionBelow ==
    ASSUME DeltaConstants, NEW since, NEW r \in Listed(since)
    PROVE  Position(r, since) \in Nat /\ Position(r, since) < Delta!Total(since)
<1>1. Pred(r, since) \in SUBSET Listed(since) /\ r \notin Pred(r, since)
  <2>1. IdOf[r] \in Int /\ Delta!KindRank(r) \in 1..4
      BY KindRanks DEF DeltaConstants, Listed
  <2> QED BY <2>1 DEF Pred, Earlier, Delta!Before
<1>2. IsFiniteSet(Listed(since)) /\ Cardinality(Listed(since)) \in Nat /\ Position(r, since) \in Nat
    BY <1>1, ListedFinite DEF Position
<1>3. Pred(r, since) # Listed(since)
    BY <1>1
<1>4. Position(r, since) <= Cardinality(Listed(since)) /\ Position(r, since) # Cardinality(Listed(since))
    BY <1>1, <1>2, <1>3, FS_Subset DEF Position
<1> QED BY <1>2, <1>4, BaseCounts

-----------------------------------------------------------------------------
\* Nothing is missed.

States  == {"none", "live", "deleted"}
Ops     == {"create", "update", "delete", "purge"}
TxnSet  == [stage : {"none", "begun", "written"}, start : Delta!Ticks, r : Items \cup {Delta!NoTxn.r}, op : Ops, at : Delta!Ticks]
Syncs   == [since : Delta!Ticks \cup {Never}, begun : Delta!Ticks, cursor : Nat, paging : BOOLEAN,
            answer : {"none", "200", "304"}, copy : [Items -> Nat]]

DeltaTypes ==
    /\ row \in [Items -> [state : States, ver : Nat, stamp : Delta!Ticks]]
    /\ txn \in [Writers -> TxnSet] /\ dev \in [Clients -> Syncs]
    /\ clock \in Delta!Ticks /\ sound \in [Clients -> BOOLEAN] /\ purged \subseteq Items
    /\ \A r \in Items : row[r].ver <= MaxWrites[r] /\ \A c \in Clients : dev[c].copy[r] <= MaxWrites[r]

\* A sync looks back from its begin.
TimesInOrder ==
    \A c \in Clients :
       /\ dev[c].since # Never => dev[c].since <= clock
       /\ dev[c].paging = TRUE => /\ dev[c].cursor > 0 /\ dev[c].begun <= clock
                                  /\ dev[c].since # Never => dev[c].since <= dev[c].begun

\* A row that is written stays as it was when it was written, up to the commit.
WritesHold ==
    /\ \A w \in Writers : txn[w].stage = "written" =>
          txn[w].r \in Items /\ Delta!Possible(txn[w].r, txn[w].op) /\ row[txn[w].r].ver < MaxWrites[txn[w].r]
    /\ \A v, w \in Writers : txn[v].stage = "written" /\ txn[w].stage = "written" /\ v # w => txn[v].r # txn[w].r

\* No copy shows a row that never was.
RowsBegin ==
    \A r \in Items :
       /\ row[r].state = "deleted" => KindOf[r] \in {"aquarium", "fish", "schedule"}
       /\ row[r].state = "none" /\ r \notin purged => \A c \in Clients : dev[c].copy[r] = 0

\* Between two pages, what the copy lacks is on the pages to come, or has
\* changed since the sync began.
Comes(c, r) == r \in Listed(dev[c].since) /\ Position(r, dev[c].since) >= dev[c].cursor
RestComes ==
    \A c \in Clients : sound[c] = TRUE /\ dev[c].paging = TRUE =>
       \A r \in Items \ purged :
          dev[c].copy[r] = Delta!Visible(r) \/ row[r].stamp >= dev[c].begun \/ Comes(c, r)

Missed(c, r) == ~(dev[c].copy[r] = Delta!Visible(r) \/ dev[c].since = Never \/ row[r].stamp >= dev[c].since)
NoneMissed == \A c \in Clients : sound[c] = TRUE => \A r \in Items \ purged : ~Missed(c, r)

DInv == DeltaTypes /\ TimesInOrder /\ WritesHold /\ RowsBegin /\ RestComes /\ NoneMissed

LEMMA DeltaHolds == ASSUME DeltaConstants, DInv PROVE Delta!DeltaInv
<1>1. Delta!DeltaTypeOK
    BY DEF DInv, DeltaTypes, TimesInOrder, Delta!DeltaTypeOK, States, Syncs, DeltaConstants
<1>2. Delta!NothingMissed
    BY DEF DInv, NoneMissed, Missed, Delta!NothingMissed
<1>3. Delta!PagesAreSlices
  <2> SUFFICES ASSUME NEW c \in Clients
               PROVE  LET start == IF dev[c].paging THEN dev[c].cursor ELSE 0
                      IN  Delta!Page(dev[c].since, start) = Delta!Slice(dev[c].since, start)
      BY DEF Delta!PagesAreSlices
  <2> DEFINE start == IF dev[c].paging THEN dev[c].cursor ELSE 0
  <2>1. start \in Nat
      BY DEF DInv, DeltaTypes, Syncs
  <2> HIDE DEF start
  <2>2. Delta!Page(dev[c].since, start) = Delta!Slice(dev[c].since, start)
      BY <2>1, SliceIsPage
  <2> QED BY <2>2 DEF start
<1> QED BY <1>1, <1>2, <1>3 DEF Delta!DeltaInv

LEMMA DeltaInit == ASSUME DeltaConstants, Delta!Init PROVE DInv
<1>1. 0 \in Delta!Ticks
    BY DEF Delta!Ticks, DeltaConstants
<1>2. DeltaTypes
  <2>1. row \in [Items -> [state : States, ver : Nat, stamp : Delta!Ticks]] /\ \A r \in Items : row[r].ver = 0
      BY <1>1 DEF Delta!Init, States
  <2>2. txn \in [Writers -> TxnSet]
      BY <1>1 DEF Delta!Init, TxnSet, Ops, Delta!NoTxn
  <2>3. dev \in [Clients -> Syncs] /\ \A c \in Clients, r \in Items : dev[c].copy[r] = 0
    <3> DEFINE none == [r \in Items |-> 0]
               fresh == [since |-> Never, begun |-> 0, cursor |-> 0, paging |-> FALSE, answer |-> "none", copy |-> none]
    <3>1. none \in [Items -> Nat] /\ \A r \in Items : none[r] = 0
        OBVIOUS
    <3>2. dev = [c \in Clients |-> fresh]
        BY DEF Delta!Init
    <3> HIDE DEF none
    <3>3. fresh \in Syncs /\ fresh.copy = none
        BY <1>1, <3>1 DEF Syncs
    <3> HIDE DEF fresh
    <3>4. dev \in [Clients -> Syncs] /\ \A c \in Clients : dev[c].copy = none
        BY <3>2, <3>3
    <3> QED BY <3>1, <3>4
  <2>4. clock \in Delta!Ticks /\ sound \in [Clients -> BOOLEAN] /\ purged \subseteq Items
      BY <1>1 DEF Delta!Init
  <2>5. \A r \in Items : row[r].ver <= MaxWrites[r] /\ \A c \in Clients : dev[c].copy[r] <= MaxWrites[r]
      BY <2>1, <2>3 DEF DeltaConstants
  <2> QED BY <2>1, <2>2, <2>3, <2>4, <2>5 DEF DeltaTypes
<1>3. \A c \in Clients : dev[c].since = Never /\ dev[c].paging = FALSE /\ \A r \in Items : dev[c].copy[r] = 0
    BY DEF Delta!Init
<1>4. \A r \in Items : row[r].state = "none"
    BY DEF Delta!Init
<1>5. \A w \in Writers : txn[w].stage = "none"
    BY DEF Delta!Init, Delta!NoTxn
<1> QED BY <1>2, <1>3, <1>4, <1>5 DEF DInv, TimesInOrder, WritesHold, RowsBegin, RestComes, NoneMissed, Missed

\* Steps that leave the rows alone leave the deltas alone.
LEMMA RowsKept ==
    ASSUME row' = row
    PROVE  /\ \A since : Listed(since)' = Listed(since)
           /\ \A since, r : Position(r, since)' = Position(r, since)
           /\ \A r : Delta!Visible(r)' = Delta!Visible(r)
BY DEF Listed, Position, Pred, Earlier, Delta!Since, Delta!Before, Delta!Visible

\* What a page does to a copy.
LEMMA CopyOfPage ==
    ASSUME DeltaConstants, DInv, NEW c \in Clients, NEW since, since = dev[c].since,
           NEW start, start = IF dev[c].paging THEN dev[c].cursor ELSE 0,
           NEW begun, begun = IF dev[c].paging THEN dev[c].begun ELSE clock,
           NEW copy, copy = Delta!Received(c, since, start)
    PROVE  /\ copy \in [Items -> Nat] /\ start \in Nat /\ begun \in Delta!Ticks
           /\ \A r \in Items : copy[r] \in {Delta!Visible(r), 0, dev[c].copy[r]}
           /\ sound[c] => \A r \in Items \ purged :
                 /\ copy[r] = Delta!Visible(r) \/ since = Never \/ row[r].stamp >= since
                 /\ \/ copy[r] = Delta!Visible(r) \/ row[r].stamp >= begun
                    \/ r \in Listed(since) /\ Position(r, since) >= start + PageSize
<1> DEFINE page == Delta!Page(since, start)
           own == Delta!Active("user", since)
           lost == IF since = Never /\ start = 0 THEN Items ELSE Delta!Deleted(since)
<1>0. dev[c] \in Syncs /\ clock \in Delta!Ticks
    BY DEF DInv, DeltaTypes
<1>1. start \in Nat /\ begun \in Delta!Ticks
    BY <1>0 DEF Syncs
<1>2. copy = [r \in Items |-> IF r \in page \cup own THEN Delta!Visible(r) ELSE IF r \in lost THEN 0 ELSE dev[c].copy[r]]
    BY DEF Delta!Received
<1>3. \A r \in Items : Delta!Visible(r) \in Nat
    BY DEF DInv, DeltaTypes, Delta!Visible
<1>4. copy \in [Items -> Nat] /\ \A r \in Items : copy[r] \in {Delta!Visible(r), 0, dev[c].copy[r]}
  <2> HIDE DEF page, own, lost
  <2> QED BY <1>0, <1>2, <1>3 DEF Syncs
<1>5. page = {r \in Listed(since) : start <= Position(r, since) /\ Position(r, since) < start + PageSize}
    BY <1>1, PageBrings
<1>6. \A r \in own : r \in Items
    BY DEF Delta!Active
<1>7. \A r \in Delta!Deleted(since) : Delta!Visible(r) = 0
    BY DEF Delta!Deleted, Delta!Visible
<1>8. ASSUME sound[c], NEW r \in Items \ purged
      PROVE  /\ copy[r] = Delta!Visible(r) \/ since = Never \/ row[r].stamp >= since
             /\ \/ copy[r] = Delta!Visible(r) \/ row[r].stamp >= begun
                \/ r \in Listed(since) /\ Position(r, since) >= start + PageSize
  <2>1. CASE r \in page \cup own
      BY <1>2, <2>1
  <2>2. \A n \in Nat : r \in Listed(since) /\ r \notin page /\ n = start /\ Position(r, since) >= n => Position(r, since) >= n + PageSize
      BY <1>1, <1>5, PositionBelow DEF DeltaConstants
  <2>3. row[r].state = "live" /\ Delta!Since(r, since) /\ r \notin own => r \in Listed(since)
      BY DEF Delta!Active, Listed
  <2>4. r \in Listed(since) => Position(r, since) >= 0
      BY PositionBelow
  <2>5. row[r].state \in States
      BY DEF DInv, DeltaTypes
  <2>6. sound[c] = TRUE
      BY <1>8 DEF DInv, DeltaTypes
  <2>7. CASE r \notin page \cup own /\ since = Never /\ start = 0
    <3>1. copy[r] = 0
        BY <1>2, <2>7
    <3>2. row[r].state # "live" => Delta!Visible(r) = 0
        BY DEF Delta!Visible
    <3> HIDE DEF page, own
    <3> QED BY <2>2, <2>3, <2>4, <2>7, <3>1, <3>2 DEF Delta!Since
  <2>8. CASE r \notin page \cup own /\ ~(since = Never /\ start = 0)
    <3>1. CASE r \in Delta!Deleted(since)
        BY <1>2, <1>7, <2>8, <3>1
    <3>2. CASE r \notin Delta!Deleted(since)
      <4>1. copy[r] = dev[c].copy[r]
          BY <1>2, <2>8, <3>2
      <4>2. ~Missed(c, r)
          BY <2>6 DEF DInv, NoneMissed
      <4>3. CASE dev[c].paging = TRUE
        <5>1. begun = dev[c].begun /\ start = dev[c].cursor
            BY <4>3
        <5>2. dev[c].copy[r] = Delta!Visible(r) \/ row[r].stamp >= dev[c].begun \/ Comes(c, r)
            BY <2>6, <4>3 DEF DInv, RestComes
        <5>3. r \in Listed(since) /\ Position(r, since) >= start => Position(r, since) >= start + PageSize
            BY <1>1, <2>2, <2>8
        <5> HIDE DEF page, own, lost
        <5> QED BY <4>1, <4>2, <5>1, <5>2, <5>3 DEF Comes, Missed
      <4>4. CASE dev[c].paging = FALSE
        <5>1. start = 0 /\ since # Never
            BY <2>8, <4>4
        <5>2. CASE row[r].state = "live" /\ row[r].stamp >= since
          <6>1. r \in Listed(since) /\ Position(r, since) >= start + PageSize
            <7> HIDE DEF page, own, lost
            <7> QED BY <5>1, <5>2, <2>2, <2>3, <2>4, <2>8 DEF Delta!Since
          <6> QED BY <6>1, <5>2
        <5>3. CASE row[r].state = "deleted" /\ row[r].stamp >= since
          <6>1. r \in Delta!Deleted(since)
              BY <5>1, <5>3 DEF DInv, RowsBegin, Delta!Deleted, Delta!Since
          <6> QED BY <6>1, <3>2
        <5>4. CASE row[r].state = "none"
            BY <5>4, <4>1 DEF DInv, RowsBegin, Delta!Visible
        <5>5. CASE copy[r] = Delta!Visible(r)
            BY <5>5
        <5> QED BY <4>1, <4>2, <5>1, <5>2, <5>3, <5>4, <5>5, <2>5 DEF Missed, States
      <4> QED BY <1>0, <4>3, <4>4 DEF Syncs
    <3> QED BY <3>1, <3>2
  <2> QED BY <2>1, <2>7, <2>8
<1> QED BY <1>1, <1>4, <1>8

\* A page, and the begin of the next sync after the last one.
LEMMA FetchStep == ASSUME DeltaConstants, DInv, NEW c \in Clients, Delta!Fetch(c) PROVE DInv'
<1>1. PICK since : since = dev[c].since
    OBVIOUS
<1>2. PICK start : start = IF dev[c].paging THEN dev[c].cursor ELSE 0
    OBVIOUS
<1>3. PICK begun : begun = IF dev[c].paging THEN dev[c].begun ELSE clock
    OBVIOUS
<1>4. PICK copy : copy = Delta!Received(c, since, start)
    OBVIOUS
<1>5. PICK more : more = (start + PageSize < Delta!Total(since))
    OBVIOUS
<1>6. /\ copy \in [Items -> Nat] /\ start \in Nat /\ begun \in Delta!Ticks
      /\ \A r \in Items : copy[r] \in {Delta!Visible(r), 0, dev[c].copy[r]}
      /\ sound[c] => \A r \in Items \ purged :
            /\ copy[r] = Delta!Visible(r) \/ since = Never \/ row[r].stamp >= since
            /\ \/ copy[r] = Delta!Visible(r) \/ row[r].stamp >= begun
               \/ r \in Listed(since) /\ Position(r, since) >= start + PageSize
    BY <1>1, <1>2, <1>3, <1>4, CopyOfPage
<1>7. dev[c] \in Syncs /\ since \in Delta!Ticks \cup {Never}
    BY <1>1 DEF DInv, DeltaTypes, Syncs
<1>8. row' = row /\ txn' = txn /\ clock' = clock /\ sound' = sound /\ purged' = purged
    BY DEF Delta!Fetch
<1>9. dev' = [dev EXCEPT ![c] =
         IF more THEN [dev[c] EXCEPT !.paging = TRUE, !.answer = "200", !.begun = begun, !.cursor = start + PageSize, !.copy = copy]
         ELSE [since |-> begun, begun |-> 0, cursor |-> 0, paging |-> FALSE, answer |-> "200", copy |-> copy]]
    BY <1>1, <1>2, <1>3, <1>4, <1>5 DEF Delta!Fetch, Delta!NextCursor, DInv, DeltaTypes
<1>10. \A d \in Clients \ {c} : dev'[d] = dev[d]
    BY <1>9 DEF DInv, DeltaTypes
<1>11. /\ dev'[c].copy = copy /\ dev'[c] \in Syncs
       /\ more => dev'[c].paging = TRUE /\ dev'[c].since = since /\ dev'[c].begun = begun /\ dev'[c].cursor = start + PageSize
       /\ ~more => dev'[c].paging = FALSE /\ dev'[c].since = begun
  <2>1. start + PageSize \in Nat /\ 0 \in Delta!Ticks
      BY <1>6 DEF DeltaConstants, Delta!Ticks
  <2>2. CASE more
    <3> DEFINE new == [dev[c] EXCEPT !.paging = TRUE, !.answer = "200", !.begun = begun, !.cursor = start + PageSize, !.copy = copy]
    <3>1. dev'[c] = new
        BY <1>9, <2>2 DEF DInv, DeltaTypes
    <3>2. /\ new \in Syncs /\ new.copy = copy /\ new.paging = TRUE /\ new.since = since
          /\ new.begun = begun /\ new.cursor = start + PageSize
        BY <1>1, <1>6, <1>7, <2>1 DEF Syncs
    <3> HIDE DEF new
    <3> QED BY <3>1, <3>2, <2>2
  <2>3. CASE ~more
    <3> DEFINE new == [since |-> begun, begun |-> 0, cursor |-> 0, paging |-> FALSE, answer |-> "200", copy |-> copy]
    <3>1. dev'[c] = new
        BY <1>9, <2>3 DEF DInv, DeltaTypes
    <3>2. new \in Syncs /\ new.copy = copy /\ new.paging = FALSE /\ new.since = begun
        BY <1>6, <2>1 DEF Syncs
    <3> HIDE DEF new
    <3> QED BY <3>1, <3>2, <2>3
  <2> QED BY <2>2, <2>3
<1>12. DeltaTypes'
  <2>1. dev' \in [Clients -> Syncs]
      BY <1>9, <1>10, <1>11 DEF DInv, DeltaTypes
  <2>2. \A r \in Items : copy[r] <= MaxWrites[r]
      BY <1>6 DEF DInv, DeltaTypes, Delta!Visible, DeltaConstants
  <2>3. \A r \in Items, d \in Clients : dev'[d].copy[r] <= MaxWrites[r]
      BY <1>10, <1>11, <2>2 DEF DInv, DeltaTypes
  <2> QED BY <1>8, <2>1, <2>3 DEF DInv, DeltaTypes
<1>13. TimesInOrder'
  <2>1. begun <= clock /\ (since # Never => since <= begun)
      BY <1>1, <1>3, <1>7 DEF DInv, TimesInOrder, DeltaTypes, Syncs, Delta!Ticks
  <2>2. start + PageSize > 0
      BY <1>6 DEF DeltaConstants
  <2>3. /\ dev'[c].since # Never => dev'[c].since <= clock
        /\ dev'[c].paging = TRUE => /\ dev'[c].cursor > 0 /\ dev'[c].begun <= clock
                                    /\ dev'[c].since # Never => dev'[c].since <= dev'[c].begun
      BY <1>1, <1>11, <2>1, <2>2 DEF DInv, TimesInOrder
  <2> QED BY <1>8, <1>10, <2>3 DEF DInv, TimesInOrder
<1>14. WritesHold'
    BY <1>8 DEF DInv, WritesHold, Delta!Possible
<1>15. RowsBegin'
  <2>1. \A r \in Items : row[r].state = "none" /\ r \notin purged => copy[r] = 0
      BY <1>6 DEF DInv, RowsBegin, Delta!Visible
  <2> QED BY <1>8, <1>10, <1>11, <2>1 DEF DInv, RowsBegin
<1>16. NoneMissed'
  <2>1. ASSUME sound[c] = TRUE, NEW r \in Items \ purged
        PROVE  copy[r] = Delta!Visible(r) \/ dev'[c].since = Never \/ row[r].stamp >= dev'[c].since
    <3>1. CASE more
        BY <1>6, <1>11, <2>1, <3>1
    <3>2. CASE ~more
      <4>1. copy[r] = Delta!Visible(r) \/ row[r].stamp >= begun \/ (r \in Listed(since) /\ Position(r, since) >= start + PageSize)
          BY <1>6, <2>1
      <4>2. r \in Listed(since) => Position(r, since) \in Nat /\ Position(r, since) < Delta!Total(since)
          BY PositionBelow
      <4>3. Delta!Total(since) \in Nat
        <5>1. Listed(since) \in SUBSET Listed(since)
            OBVIOUS
        <5> QED BY <5>1, BaseCounts, ListedFinite
      <4>4. ~(r \in Listed(since) /\ Position(r, since) >= start + PageSize)
        <5>1. ~(start + PageSize < Delta!Total(since))
            BY <1>5, <3>2
        <5>2. start \in Nat /\ PageSize \in Nat
            BY <1>6 DEF DeltaConstants
        <5> QED BY <5>1, <5>2, <4>2, <4>3
      <4> QED BY <1>11, <3>2, <4>1, <4>4
    <3> QED BY <3>1, <3>2
  <2>2. \A r : Delta!Visible(r)' = Delta!Visible(r)
      BY <1>8, RowsKept
  <2>3. ASSUME NEW d \in Clients \ {c}, sound[d] = TRUE, NEW r \in Items \ purged PROVE ~Missed(d, r)'
      BY <1>8, <1>10, <2>2, <2>3 DEF DInv, NoneMissed, Missed
  <2>4. ASSUME sound[c] = TRUE, NEW r \in Items \ purged PROVE ~Missed(c, r)'
      BY <1>8, <1>11, <2>1, <2>2, <2>4 DEF Missed
  <2> QED BY <1>8, <2>3, <2>4 DEF NoneMissed
<1>17. RestComes'
  <2>1. /\ \A s : Listed(s)' = Listed(s)
        /\ \A s, r : Position(r, s)' = Position(r, s)
        /\ \A r : Delta!Visible(r)' = Delta!Visible(r)
      BY <1>8, RowsKept
  <2>2. ASSUME NEW d \in Clients \ {c}, sound[d] = TRUE, dev[d].paging = TRUE, NEW r \in Items \ purged
        PROVE  (dev[d].copy[r] = Delta!Visible(r) \/ row[r].stamp >= dev[d].begun \/ Comes(d, r))'
    <3>1. dev[d].copy[r] = Delta!Visible(r) \/ row[r].stamp >= dev[d].begun \/ Comes(d, r)
        BY <2>2 DEF DInv, RestComes
    <3>2. Comes(d, r)' <=> Comes(d, r)
        BY <1>10, <2>1 DEF Comes
    <3> QED BY <1>8, <1>10, <2>1, <3>1, <3>2
  <2>3. ASSUME sound[c] = TRUE, dev'[c].paging = TRUE, NEW r \in Items \ purged
        PROVE  (dev[c].copy[r] = Delta!Visible(r) \/ row[r].stamp >= dev[c].begun \/ Comes(c, r))'
    <3>1. more
        BY <1>11, <2>3
    <3>2. copy[r] = Delta!Visible(r) \/ row[r].stamp >= begun \/ (r \in Listed(since) /\ Position(r, since) >= start + PageSize)
        BY <1>6, <2>3
    <3>3. dev'[c].copy = copy /\ dev'[c].since = since /\ dev'[c].begun = begun /\ dev'[c].cursor = start + PageSize
        BY <1>11, <3>1
    <3>4. r \in Listed(since) /\ Position(r, since) >= start + PageSize => Comes(c, r)'
        BY <2>1, <3>3 DEF Comes
    <3> QED BY <1>8, <2>1, <3>2, <3>3, <3>4
  <2> QED BY <1>8, <1>10, <2>2, <2>3 DEF RestComes
<1> QED BY <1>12, <1>13, <1>14, <1>15, <1>16, <1>17 DEF DInv

\* A 304, and an answer that is lost, keep the copy and last_sync_at.
LEMMA QuietSteps == ASSUME DeltaConstants, DInv, NEW c \in Clients, Delta!NotModified(c) \/ Delta!GiveUp(c) PROVE DInv'
<1>1. row' = row /\ txn' = txn /\ clock' = clock /\ sound' = sound /\ purged' = purged
    BY DEF Delta!NotModified, Delta!GiveUp
<1>2. dev \in [Clients -> Syncs] /\ 0 \in Delta!Ticks
    BY DEF DInv, DeltaTypes, Delta!Ticks, DeltaConstants
<1>3. \A d \in Clients : /\ dev'[d].copy = dev[d].copy /\ dev'[d].since = dev[d].since
                         /\ dev'[d].paging = FALSE \/ dev'[d] = dev[d]
  <2>1. CASE Delta!GiveUp(c)
      BY <1>2, <2>1 DEF Delta!GiveUp, Syncs
  <2>2. CASE Delta!NotModified(c)
    <3>1. dev[c].paging = FALSE
        BY <1>2, <2>2 DEF Delta!NotModified, Syncs
    <3> QED BY <1>2, <2>2, <3>1 DEF Delta!NotModified, Syncs
  <2> QED BY <2>1, <2>2
<1>4. dev' \in [Clients -> Syncs]
  <2>1. dev[c] \in Syncs
      BY <1>2
  <2>2. [dev[c] EXCEPT !.answer = "304"] \in Syncs /\ [dev[c] EXCEPT !.paging = FALSE, !.cursor = 0, !.begun = 0] \in Syncs
      BY <1>2, <2>1 DEF Syncs
  <2>3. \/ dev' = [dev EXCEPT ![c] = [dev[c] EXCEPT !.answer = "304"]]
        \/ dev' = [dev EXCEPT ![c] = [dev[c] EXCEPT !.paging = FALSE, !.cursor = 0, !.begun = 0]]
      BY <1>2 DEF Delta!NotModified, Delta!GiveUp
  <2> QED BY <1>2, <2>2, <2>3
<1>5. DeltaTypes'
    BY <1>1, <1>3, <1>4 DEF DInv, DeltaTypes
<1>6. TimesInOrder' /\ WritesHold' /\ RowsBegin'
    BY <1>1, <1>3 DEF DInv, TimesInOrder, WritesHold, RowsBegin, Delta!Possible
<1>7. /\ \A s : Listed(s)' = Listed(s)
      /\ \A s, r : Position(r, s)' = Position(r, s)
      /\ \A r : Delta!Visible(r)' = Delta!Visible(r)
    BY <1>1, RowsKept
<1>8. NoneMissed'
    BY <1>1, <1>3, <1>7 DEF DInv, NoneMissed, Missed
<1>9. RestComes'
  <2>1. ASSUME NEW d \in Clients, sound[d] = TRUE, dev'[d].paging = TRUE, NEW r \in Items \ purged
        PROVE  (dev[d].copy[r] = Delta!Visible(r) \/ row[r].stamp >= dev[d].begun \/ Comes(d, r))'
    <3>1. dev'[d] = dev[d]
        BY <1>3, <2>1
    <3>2. dev[d].copy[r] = Delta!Visible(r) \/ row[r].stamp >= dev[d].begun \/ Comes(d, r)
        BY <2>1, <3>1 DEF DInv, RestComes
    <3>3. Comes(d, r)' <=> Comes(d, r)
        BY <3>1, <1>7 DEF Comes
    <3> QED BY <1>1, <1>7, <3>1, <3>2, <3>3
  <2> QED BY <1>1, <2>1 DEF RestComes
<1> QED BY <1>5, <1>6, <1>8, <1>9 DEF DInv

-----------------------------------------------------------------------------
\* The writers.

LEMMA TxnsAndTime ==
    ASSUME DeltaConstants, DInv,
           Delta!Tick \/ \E w \in Writers : Delta!Begin(w) \/ \E r \in Items, op \in Ops : Delta!Write(w, r, op)
    PROVE  DInv'
<1>1. row' = row /\ dev' = dev /\ sound' = sound /\ purged' = purged
    BY DEF Delta!Tick, Delta!Begin, Delta!Write
<1>2. clock' \in Delta!Ticks /\ clock <= clock'
  <2>1. clock \in 0..MaxClock /\ MaxClock \in Nat
      BY DEF DInv, DeltaTypes, Delta!Ticks, DeltaConstants
  <2>2. clock' = clock \/ (clock < MaxClock /\ clock' = clock + 1)
      BY DEF Delta!Tick, Delta!Begin, Delta!Write
  <2> QED BY <2>1, <2>2 DEF Delta!Ticks
<1>3. /\ \A s : Listed(s)' = Listed(s)
      /\ \A s, r : Position(r, s)' = Position(r, s)
      /\ \A r : Delta!Visible(r)' = Delta!Visible(r)
    BY <1>1, RowsKept
<1>4. txn' \in [Writers -> TxnSet] /\ WritesHold'
  <2>1. txn \in [Writers -> TxnSet] /\ WritesHold /\ clock \in Delta!Ticks /\ 0 \in Delta!Ticks
      BY DEF DInv, DeltaTypes, Delta!Ticks, DeltaConstants
  <2>2. ASSUME NEW w \in Writers, Delta!Begin(w) PROVE txn' \in [Writers -> TxnSet] /\ WritesHold'
    <3> DEFINE new == [Delta!NoTxn EXCEPT !.stage = "begun", !.start = clock]
    <3>1. new \in TxnSet /\ new.stage = "begun"
        BY <2>1 DEF TxnSet, Delta!NoTxn, Ops
    <3>2. txn' = [txn EXCEPT ![w] = new]
        BY <2>2 DEF Delta!Begin
    <3> HIDE DEF new
    <3>3. txn' \in [Writers -> TxnSet] /\ txn'[w].stage = "begun" /\ \A v \in Writers \ {w} : txn'[v] = txn[v]
        BY <2>1, <3>1, <3>2
    <3> QED BY <1>1, <2>1, <3>3 DEF WritesHold, Delta!Possible
  <2>3. ASSUME NEW w \in Writers, NEW r \in Items, NEW op \in Ops, Delta!Write(w, r, op) PROVE txn' \in [Writers -> TxnSet] /\ WritesHold'
    <3> DEFINE new == [txn[w] EXCEPT !.stage = "written", !.r = r, !.op = op, !.at = clock]
    <3>1. txn[w] \in TxnSet
        BY <2>1
    <3>2. new \in TxnSet /\ new.stage = "written" /\ new.r = r /\ new.op = op
        BY <2>1, <3>1 DEF TxnSet
    <3>3. txn' = [txn EXCEPT ![w] = new]
        BY <2>1, <2>3 DEF Delta!Write
    <3> HIDE DEF new
    <3>4. /\ txn' \in [Writers -> TxnSet] /\ txn'[w].stage = "written" /\ txn'[w].r = r /\ txn'[w].op = op
          /\ \A v \in Writers \ {w} : txn'[v] = txn[v]
        BY <2>1, <3>2, <3>3
    <3>5. /\ Delta!Possible(r, op) /\ row[r].ver < MaxWrites[r]
          /\ \A v \in Writers : txn[v].stage = "written" => txn[v].r # r
        BY <2>3 DEF Delta!Write
    <3>6. Delta!Possible(r, op)' /\ \A q, o : Delta!Possible(q, o) => Delta!Possible(q, o)'
        BY <1>1, <3>5 DEF Delta!Possible
    <3> QED BY <1>1, <2>1, <3>4, <3>5, <3>6 DEF WritesHold
  <2>4. CASE Delta!Tick
      BY <1>1, <2>1, <2>4 DEF Delta!Tick, WritesHold, Delta!Possible
  <2> QED BY <2>2, <2>3, <2>4
<1>5. DeltaTypes'
    BY <1>1, <1>2, <1>4 DEF DInv, DeltaTypes
<1>6. TimesInOrder'
    BY <1>1, <1>2 DEF DInv, TimesInOrder, DeltaTypes, Syncs, Delta!Ticks, DeltaConstants
<1>7. RowsBegin' /\ NoneMissed'
    BY <1>1, <1>3 DEF DInv, RowsBegin, NoneMissed, Missed
<1>8. RestComes'
    BY <1>1, <1>3 DEF DInv, RestComes, Comes
<1> QED BY <1>4, <1>5, <1>6, <1>7, <1>8 DEF DInv

\* A transaction that does not slip past a client moves no row of its delta
\* before the page it has come to.
LEMMA DeltaCommit == ASSUME DeltaConstants, DInv, NEW w \in Writers, Delta!Commit(w) PROVE DInv'
<1>1. PICK t : t = txn[w]
    OBVIOUS
<1>2. /\ t \in TxnSet /\ t.stage = "written" /\ t.r \in Items /\ Delta!Possible(t.r, t.op) /\ row[t.r].ver < MaxWrites[t.r]
      /\ \A v \in Writers \ {w} : txn[v].stage = "written" => txn[v].r # t.r
    BY <1>1 DEF Delta!Commit, DInv, DeltaTypes, WritesHold
<1>3. /\ dev' = dev /\ clock' = clock /\ txn' = [txn EXCEPT ![w] = Delta!NoTxn]
      /\ row' = [row EXCEPT ![t.r] = Delta!After(t)]
      /\ purged' = (IF t.op = "purge" THEN purged \cup {t.r} ELSE purged)
      /\ sound' = [c \in Clients |-> sound[c] /\ ~Delta!Slips(c, t)]
    BY <1>1 DEF Delta!Commit
<1>4. /\ row'[t.r] = Delta!After(t) /\ \A r \in Items \ {t.r} : row'[r] = row[r]
      /\ purged \subseteq purged' /\ purged' \subseteq Items
      /\ \A c \in Clients : sound'[c] = TRUE => sound[c] = TRUE /\ ~Delta!Slips(c, t)
  <2>1. row'[t.r] = Delta!After(t) /\ \A r \in Items \ {t.r} : row'[r] = row[r]
      BY <1>2, <1>3 DEF DInv, DeltaTypes
  <2>2. \A c \in Clients : sound'[c] = TRUE => sound[c] = TRUE /\ ~Delta!Slips(c, t)
      BY <1>3, Zenon DEF DInv, DeltaTypes
  <2> QED BY <1>2, <1>3, <2>1, <2>2 DEF DInv, DeltaTypes
<1>5. Delta!Stamp(t) \in Delta!Ticks /\ 0 \in Delta!Ticks
    BY <1>2 DEF Delta!Stamp, TxnSet, Delta!Ticks, DeltaConstants
<1>6. /\ Delta!After(t) \in [state : States, ver : Nat, stamp : Delta!Ticks] /\ Delta!After(t).ver = row[t.r].ver + 1
      /\ t.op = "delete" => Delta!After(t).state = "deleted" /\ Delta!After(t).stamp = Delta!Stamp(t)
      /\ t.op = "purge" => Delta!After(t).state = "none"
      /\ t.op \in {"create", "update"} => Delta!After(t).state = "live" /\ Delta!After(t).stamp = Delta!Stamp(t)
    BY <1>2, <1>5 DEF Delta!After, TxnSet, Ops, States, DInv, DeltaTypes
<1>7. t.op \in Ops
    BY <1>2 DEF TxnSet
<1>8. DeltaTypes'
  <2>1. row' \in [Items -> [state : States, ver : Nat, stamp : Delta!Ticks]]
      BY <1>2, <1>3, <1>6 DEF DInv, DeltaTypes
  <2>2. Delta!NoTxn \in TxnSet
      BY <1>5 DEF TxnSet, Delta!NoTxn, Ops
  <2>3. txn' \in [Writers -> TxnSet]
      BY <1>3, <2>2 DEF DInv, DeltaTypes
  <2>4. \A r \in Items : row'[r].ver <= MaxWrites[r]
      BY <1>2, <1>4, <1>6 DEF DInv, DeltaTypes, DeltaConstants
  <2>5. sound' \in [Clients -> BOOLEAN]
      BY <1>3, Zenon DEF DInv, DeltaTypes
  <2> QED BY <1>3, <1>4, <2>1, <2>3, <2>4, <2>5 DEF DInv, DeltaTypes
<1>9. TimesInOrder'
    BY <1>3 DEF DInv, TimesInOrder
<1>10. WritesHold'
  <2>1. \A v \in Writers : txn'[v].stage = "written" => v # w /\ txn'[v] = txn[v]
      BY <1>3 DEF Delta!NoTxn, DInv, DeltaTypes
  <2>2. ASSUME NEW v \in Writers, txn'[v].stage = "written"
        PROVE  txn'[v].r \in Items /\ Delta!Possible(txn[v].r, txn[v].op)' /\ row'[txn'[v].r].ver < MaxWrites[txn'[v].r]
    <3>1. /\ txn'[v] = txn[v] /\ txn[v].r \in Items /\ txn[v].r # t.r
          /\ Delta!Possible(txn[v].r, txn[v].op) /\ row[txn[v].r].ver < MaxWrites[txn[v].r]
        BY <1>2, <2>1, <2>2 DEF DInv, WritesHold
    <3>2. row'[txn[v].r] = row[txn[v].r] /\ (txn[v].r \in purged' => txn[v].r \in purged)
        BY <1>3, <1>4, <3>1
    <3>3. Delta!Possible(txn[v].r, txn[v].op)'
        BY <3>1, <3>2 DEF Delta!Possible
    <3> QED BY <3>1, <3>2, <3>3
  <2> QED BY <2>1, <2>2 DEF DInv, WritesHold
<1>11. RowsBegin'
  <2>1. t.op = "delete" => KindOf[t.r] \in {"aquarium", "fish", "schedule"}
      BY <1>2 DEF Delta!Possible
  <2>2. t.op = "purge" => t.r \in purged'
      BY <1>3
  <2> QED BY <1>3, <1>4, <1>6, <1>7, <2>1, <2>2 DEF DInv, RowsBegin, Ops
<1>12. \A r \in Items \ {t.r} : Delta!Visible(r)' = Delta!Visible(r)
    BY <1>4 DEF Delta!Visible
<1>13. NoneMissed'
  <2> SUFFICES ASSUME NEW c \in Clients, sound'[c] = TRUE, NEW r \in Items \ purged' PROVE ~Missed(c, r)'
      BY DEF NoneMissed
  <2>1. ~Missed(c, r) /\ ~Delta!Slips(c, t)
      BY <1>4 DEF DInv, NoneMissed
  <2>2. CASE r # t.r
      BY <1>3, <1>4, <1>12, <2>1, <2>2 DEF Missed
  <2>3. CASE r = t.r
    <3>1. t.op # "purge" /\ row'[r].stamp = Delta!Stamp(t)
        BY <1>3, <1>4, <1>6, <1>7, <2>3 DEF Ops
    <3>2. dev[c] \in Syncs
        BY DEF DInv, DeltaTypes
    <3>3. dev[c].since = Never \/ Delta!Stamp(t) >= dev[c].since
      <4>1. CASE dev[c].paging = TRUE
        <5>1. dev[c].begun \in Delta!Ticks /\ dev[c].begun # Never
            BY <3>2 DEF Syncs, Delta!Ticks, DeltaConstants
        <5>2. Delta!Stamp(t) >= dev[c].begun
            BY <1>5, <2>1, <4>1, <5>1 DEF Delta!Slips, Delta!Ticks, DeltaConstants
        <5> QED BY <1>5, <3>2, <4>1, <5>1, <5>2 DEF DInv, TimesInOrder, Syncs, Delta!Ticks, DeltaConstants
      <4>2. CASE dev[c].paging = FALSE
          BY <1>5, <2>1, <3>2, <4>2 DEF Delta!Slips, Syncs, Delta!Ticks, DeltaConstants
      <4> QED BY <3>2, <4>1, <4>2 DEF Syncs
    <3> QED BY <1>3, <3>1, <3>3 DEF Missed
  <2> QED BY <2>2, <2>3
<1>14. RestComes'
  <2> SUFFICES ASSUME NEW c \in Clients, sound'[c] = TRUE, dev[c].paging = TRUE, NEW r \in Items \ purged'
               PROVE  (dev[c].copy[r] = Delta!Visible(r) \/ row[r].stamp >= dev[c].begun \/ Comes(c, r))'
      BY <1>3 DEF RestComes
  <2>1. sound[c] = TRUE /\ ~Delta!Slips(c, t) /\ dev[c] \in Syncs
      BY <1>4 DEF DInv, DeltaTypes
  <2>2. dev[c].begun \in Delta!Ticks /\ dev[c].begun # Never
      BY <2>1 DEF Syncs, Delta!Ticks, DeltaConstants
  <2>3. t.op \in {"create", "update"} /\ Delta!Stamp(t) >= dev[c].begun
      BY <1>5, <1>7, <2>1, <2>2 DEF Delta!Slips, Delta!Ticks, DeltaConstants, Ops
  <2>4. CASE r = t.r
      BY <1>3, <1>4, <1>6, <2>3, <2>4
  <2>5. CASE r # t.r
    <3>1. row'[r] = row[r] /\ r \in Items \ purged
        BY <1>4, <2>5
    <3>2. CASE dev[c].copy[r] = Delta!Visible(r) \/ row[r].stamp >= dev[c].begun
        BY <1>3, <1>12, <2>5, <3>1, <3>2
    <3>3. CASE Comes(c, r)
      <4>1. PICK since : since = dev[c].since
          OBVIOUS
      <4>2. r \in Listed(since) /\ Position(r, since) >= dev[c].cursor
          BY <3>3, <4>1 DEF Comes
      <4>3. r \in Listed(since)'
          BY <3>1, <4>2 DEF Listed, Delta!Since
      <4>4. ASSUME NEW q \in Pred(r, since) PROVE q \in Pred(r, since)'
        <5>1. q \in Items /\ KindOf[q] # "user" /\ row[q].state = "live" /\ Delta!Since(q, since) /\ Earlier(q, r)
            BY DEF Pred, Listed
        <5>2. CASE q # t.r
          <6>1. row'[q] = row[q]
              BY <1>4, <5>1, <5>2
          <6> QED BY <3>1, <5>1, <6>1 DEF Pred, Listed, Delta!Since, Earlier, Delta!Before
        <5>3. CASE q = t.r
          <6>1. KindOf[q] # "feeding_log" /\ row'[q].state = "live" /\ row'[q].stamp = Delta!Stamp(t)
              BY <1>2, <1>4, <1>6, <2>3, <5>1, <5>3 DEF Delta!Possible
          <6>2. since = Never \/ Delta!Stamp(t) >= since
              BY <1>5, <2>1, <2>2, <2>3, <4>1 DEF DInv, TimesInOrder, Syncs, Delta!Ticks, DeltaConstants
          <6>3. Earlier(q, r)'
            <7>1. CASE Delta!KindRank(q) < Delta!KindRank(r)
                BY <7>1 DEF Earlier
            <7>2. CASE Delta!KindRank(q) = Delta!KindRank(r) /\ Delta!Before(q, r)
              <8>1. KindOf[r] = KindOf[q]
                  BY <4>2, <5>1, <7>2, KindRanks DEF Listed
              <8> QED BY <6>1, <7>2, <8>1 DEF Earlier, Delta!Before
            <7> QED BY <5>1, <7>1, <7>2 DEF Earlier
          <6> QED BY <5>1, <6>1, <6>2, <6>3 DEF Pred, Listed, Delta!Since
        <5> QED BY <5>2, <5>3
      <4>5. Position(r, since)' >= Position(r, since)
        <5>1. Pred(r, since)' \in SUBSET Items /\ Pred(r, since) \in SUBSET Pred(r, since)'
            BY <4>4 DEF Pred, Listed
        <5>2. IsFiniteSet(Pred(r, since)')
            BY <5>1, FS_Subset DEF DeltaConstants
        <5>3. IsFiniteSet(Pred(r, since)) /\ Cardinality(Pred(r, since)) <= Cardinality(Pred(r, since)')
            BY <5>1, <5>2, FS_Subset
        <5>4. Cardinality(Pred(r, since)) \in Nat /\ Cardinality(Pred(r, since)') \in Nat
            BY <5>2, <5>3, FS_CardinalityType
        <5> QED BY <5>3, <5>4 DEF Position
      <4>6. Position(r, since) \in Nat /\ Position(r, since)' \in Nat /\ dev[c].cursor \in Nat
        <5>1. Pred(r, since) \in SUBSET Items /\ Pred(r, since)' \in SUBSET Items
            BY DEF Pred, Listed
        <5>2. IsFiniteSet(Pred(r, since)) /\ IsFiniteSet(Pred(r, since)')
            BY <5>1, FS_Subset DEF DeltaConstants
        <5> QED BY <5>2, <2>1, FS_CardinalityType DEF Position, Syncs
      <4> QED BY <1>3, <4>1, <4>2, <4>3, <4>5, <4>6 DEF Comes
    <3> QED BY <3>1, <3>2, <3>3, <2>1 DEF DInv, RestComes
  <2> QED BY <2>4, <2>5
<1> QED BY <1>8, <1>9, <1>10, <1>11, <1>13, <1>14 DEF DInv

LEMMA DeltaStep == ASSUME DeltaConstants, DInv, [Delta!Next]_deltaVars PROVE DInv'
<1>1. CASE UNCHANGED deltaVars
  <2>1. /\ \A s : Listed(s)' = Listed(s)
        /\ \A s, r : Position(r, s)' = Position(r, s)
        /\ \A r : Delta!Visible(r)' = Delta!Visible(r)
      BY <1>1, RowsKept DEF deltaVars
  <2>2. DeltaTypes' /\ TimesInOrder' /\ WritesHold' /\ RowsBegin'
      BY <1>1 DEF deltaVars, DInv, DeltaTypes, TimesInOrder, WritesHold, RowsBegin, Delta!Possible
  <2>3. NoneMissed' /\ RestComes'
      BY <1>1, <2>1 DEF deltaVars, DInv, NoneMissed, Missed, RestComes, Comes
  <2> QED BY <2>2, <2>3 DEF DInv
<1>2. CASE Delta!Next
    BY <1>2, FetchStep, QuietSteps, TxnsAndTime, DeltaCommit DEF Delta!Next, Ops
<1> QED BY <1>1, <1>2

\* For any rows, pages and number of clients and writers: the pages of a delta
\* are the slices of its lists (get_paginated_server_state, _apply_pagination),
\* and a client misses a row only if a transaction slipped past it or the
\* schedule was deleted for good.
THEOREM DeltaSafe == ServicesSpec => []DeltaInv
<1> DEFINE Held == component = "delta" => DInv
<1>0. DeltaConstants
    BY ServicesAssumption DEF ServicesAssumption, DeltaConstants, Delta!Kinds
<1>1. ServicesInit => Held
    BY <1>0, DeltaInit DEF ServicesInit
<1>2. Held /\ [ServicesNext]_servicesVars => Held'
  <2> SUFFICES ASSUME Held, [ServicesNext]_servicesVars, component' = "delta" PROVE DInv'
      OBVIOUS
  <2>1. component = "delta" /\ [Delta!Next]_deltaVars
      BY DEF ServicesNext, servicesVars, clients
  <2> QED BY <2>1, <1>0, DeltaStep
<1>3. Held => DeltaInv
    BY <1>0, DeltaHolds DEF DeltaInv
<1> QED BY <1>1, <1>2, <1>3, PTL DEF ServicesSpec

-----------------------------------------------------------------------------
(* Profile.                                                                *)

\* What ServicesAssumption says of the constants of Profile.
ProfileConstants ==
    /\ MaxDay \in Nat \ {0}
    /\ \A d \in Phones : Edits[d] \cup Scores[d] \subseteq [kind : Profile!Kinds, val : Nat, op : {"create", "update"}]

Earned  == [there : BOOLEAN, val : Nat, at : Nat]
Changes == [kind : Profile!Kinds, val : Nat, op : {"create", "update"}, at : Nat]
Drafts  == [kind : Profile!Kinds, seen : Earned, val : Nat]
Caches  == {Profile!NoCache} \cup [full : {TRUE}, streak : Nat, badge : BOOLEAN \X Nat]
Sends   == [stage : {"idle", "handle", "share", "make", "fill", "commit", "answer"}, get : BOOLEAN, start : Nat,
            sent : SUBSET Changes, todo : SUBSET Changes, lost : SUBSET Changes,
            buf : SUBSET Drafts, new : SUBSET Drafts, snap : Caches, late : BOOLEAN, refilled : BOOLEAN]

ProfileTypes ==
    /\ earned \in [Profile!Kinds -> Earned] /\ cache \in Caches
    /\ edits \in [Phones -> SUBSET Changes] /\ sends \in [Phones -> Sends]
    /\ day \in 1..MaxDay /\ told \in [Phones -> Nat] /\ raced \in BOOLEAN /\ excused \in BOOLEAN
    /\ \A k \in Profile!Kinds : (earned[k].val > 0 => earned[k].there = TRUE) /\ earned[k].at <= day
    /\ \A d \in Phones : sends[d].start <= day /\ \A e \in edits[d] : e.at \in 1..day

\* A device keeps one edit of a row.
OneEdit == \A d \in Phones : \A a, b \in edits[d] : a.kind = b.kind => a = b

\* The shape of a request: it handles what it was sent, each edit once, and
\* writes each row once; a request that reads makes at most an empty streak.
Drafted(k) == k.buf \cup k.new
Shaped(d, k) ==
    /\ k.sent \subseteq edits[d] /\ k.todo \subseteq k.sent
    /\ k.stage = "idle" => k.snap = Profile!NoCache /\ k.new = {}
    /\ k.stage \in {"fill", "commit", "answer"} => k.todo = {} /\ k.buf = {}
    /\ \A a, b \in k.buf : a = b
    /\ k.stage = "answer" => k.new = {}
    /\ \A a, b \in Drafted(k) : a.kind = b.kind => a = b
    /\ \A b \in Drafted(k), e \in k.todo : b.kind # e.kind
    /\ \A b \in Drafted(k) : b.kind = "progress" => b.val >= b.seen.val /\ (b.seen.there = FALSE => b.seen.val = 0)
    /\ k.get = TRUE => k.sent = {} /\ \A b \in Drafted(k) : b.kind = "streak" /\ b.val = 0 /\ b.seen.there = FALSE
    /\ k.stage \in {"make", "fill"} => k.get = TRUE /\ k.snap # Profile!NoCache
    /\ k.stage \in {"handle", "share", "answer"} => k.get = FALSE
    /\ k.get = FALSE => k.snap = Profile!NoCache

\* What a request has flushed it writes over what it has read, and the points
\* of an edit are not below those that are stored or about to be.
Above(k) ==
    /\ \A b \in k.new : /\ b.seen.there = FALSE => earned[b.kind].there = FALSE
                        /\ b.kind = "progress" /\ raced = FALSE => earned["progress"].val <= b.val
    /\ raced = FALSE => \A e \in k.sent \ k.lost : e.kind = "progress" =>
          \/ e \in k.todo \/ earned["progress"].val >= e.val
          \/ \E b \in Drafted(k) : b.kind = "progress" /\ b.val >= e.val

\* A request that reads and is not late has read what is there.
Read(k) == k.snap # Profile!NoCache /\ k.late = FALSE => k.snap = Profile!Stats
\* A request that writes commits after the cache was dropped, unless it was
\* filled again.
Dropped(k) == k.stage = "commit" /\ k.get = FALSE /\ k.refilled = FALSE => cache = Profile!NoCache

\* The row that is flushed is locked.
Locked(k, l) == \A a \in k.new, b \in l.new : a.kind # b.kind

PointsTold == raced = FALSE => \A d \in Phones : earned["progress"].val >= told[d]
CacheTrue  == cache # Profile!NoCache /\ excused = FALSE => cache = Profile!Stats

EarnedInv ==
    /\ ProfileTypes /\ OneEdit /\ PointsTold /\ CacheTrue
    /\ \A d \in Phones : Shaped(d, sends[d]) /\ Above(sends[d]) /\ Read(sends[d]) /\ Dropped(sends[d])
    /\ \A d, e \in Phones : d # e => Locked(sends[d], sends[e])

LEMMA CacheFull == \A c \in Caches : c.full \in BOOLEAN /\ (c.full = TRUE <=> c # Profile!NoCache)
<1>1. Profile!NoCache.full = FALSE
    BY DEF Profile!NoCache
<1>2. \A c \in [full : {TRUE}, streak : Nat, badge : BOOLEAN \X Nat] : c.full = TRUE
    OBVIOUS
<1> QED BY <1>1, <1>2 DEF Caches

LEMMA EarnedHolds == ASSUME EarnedInv PROVE Profile!ProfileInv
<1>1. Profile!ProfileTypeOK
    BY DEF EarnedInv, ProfileTypes, Profile!ProfileTypeOK, Earned, Changes
<1>2. Profile!StatsFollowRows
    BY CacheFull DEF EarnedInv, ProfileTypes, CacheTrue, Profile!StatsFollowRows
<1>3. Profile!PointsKept
    BY DEF EarnedInv, ProfileTypes, PointsTold, Profile!PointsKept
<1> QED BY <1>1, <1>2, <1>3 DEF Profile!ProfileInv

LEMMA QuietSend ==
    /\ Profile!Quiet \in Sends /\ Profile!Quiet.start = 0 /\ Profile!Quiet.new = {} /\ Profile!Quiet.sent = {}
    /\ \A d \in Phones : Shaped(d, Profile!Quiet)
    /\ Above(Profile!Quiet) /\ Read(Profile!Quiet) /\ Dropped(Profile!Quiet)
BY DEF Profile!Quiet, Sends, Shaped, Above, Read, Dropped, Drafted, Caches

LEMMA EarnedInit == ASSUME ProfileConstants, Profile!Init PROVE EarnedInv
<1>1. earned \in [Profile!Kinds -> Earned] /\ \A k \in Profile!Kinds : earned[k].val = 0 /\ earned[k].at = 0
    BY DEF Profile!Init, Profile!Absent, Earned
<1>2. sends \in [Phones -> Sends] /\ \A d \in Phones : sends[d] = Profile!Quiet
    BY QuietSend DEF Profile!Init
<1>3. ProfileTypes
  <2>0. cache \in Caches /\ raced \in BOOLEAN /\ excused \in BOOLEAN
      BY Zenon DEF Profile!Init, Caches
  <2>1. day = 1 /\ day \in 1..MaxDay
      BY DEF Profile!Init, ProfileConstants
  <2>2. edits \in [Phones -> SUBSET Changes] /\ told \in [Phones -> Nat] /\ \A d \in Phones : edits[d] = {}
      BY DEF Profile!Init
  <2> QED BY <1>1, <1>2, <2>0, <2>1, <2>2, QuietSend DEF ProfileTypes
<1>4. PointsTold
    BY <1>1 DEF Profile!Init, PointsTold, Profile!Kinds
<1>5. OneEdit /\ CacheTrue
    BY DEF Profile!Init, OneEdit, CacheTrue
<1>6. \A d, e \in Phones : Locked(sends[d], sends[e])
    BY <1>2, QuietSend DEF Locked
<1>7. \A d \in Phones : Shaped(d, sends[d]) /\ Above(sends[d]) /\ Read(sends[d]) /\ Dropped(sends[d])
    BY <1>2, QuietSend
<1> QED BY <1>3, <1>4, <1>5, <1>6, <1>7 DEF EarnedInv

-----------------------------------------------------------------------------
\* Steps of one request that write no row.

LEMMA SendsKept ==
    /\ UNCHANGED edits => \A d, k : Shaped(d, k)' <=> Shaped(d, k)
    /\ UNCHANGED <<earned, raced>> => \A k : Above(k)' <=> Above(k)
    /\ UNCHANGED earned => (\A k : Read(k)' <=> Read(k)) /\ Profile!Stats' = Profile!Stats
    /\ UNCHANGED cache => \A k : Dropped(k)' <=> Dropped(k)
<1>1. UNCHANGED edits => \A d, k : Shaped(d, k)' <=> Shaped(d, k)
    BY DEF Shaped, Drafted
<1>2. UNCHANGED <<earned, raced>> => \A k : Above(k)' <=> Above(k)
    BY DEF Above, Drafted
<1>3. UNCHANGED earned => (\A k : Read(k)' <=> Read(k)) /\ Profile!Stats' = Profile!Stats
    BY DEF Read, Profile!Stats
<1>4. UNCHANGED cache => \A k : Dropped(k)' <=> Dropped(k)
    BY DEF Dropped
<1> QED BY <1>1, <1>2, <1>3, <1>4

LEMMA SendsStay ==
    /\ \A d, k : edits[d] \subseteq edits'[d] /\ Shaped(d, k) => Shaped(d, k)'
    /\ UNCHANGED earned /\ (raced' = FALSE => raced = FALSE) => \A k : Above(k) => Above(k)'
    /\ cache' \in {cache, Profile!NoCache} => \A k : Dropped(k) => Dropped(k)'
<1>1. ASSUME NEW d, NEW k, edits[d] \subseteq edits'[d], Shaped(d, k) PROVE Shaped(d, k)'
    BY <1>1 DEF Shaped, Drafted
<1>2. ASSUME UNCHANGED earned, raced' = FALSE => raced = FALSE, NEW k, Above(k) PROVE Above(k)'
    BY <1>2 DEF Above, Drafted
<1>3. ASSUME cache' \in {cache, Profile!NoCache}, NEW k, Dropped(k) PROVE Dropped(k)'
    BY <1>3 DEF Dropped
<1> QED BY <1>1, <1>2, <1>3

\* One request goes on; the race is noticed, or the cache is dropped.
LEMMA OneChange ==
    ASSUME EarnedInv, NEW d \in Phones, NEW n \in Sends, sends' = [sends EXCEPT ![d] = n],
           UNCHANGED <<earned, edits, day, told>>, raced' \in BOOLEAN, raced' = FALSE => raced = FALSE,
           cache' \in {cache, Profile!NoCache}, excused' \in BOOLEAN, CacheTrue',
           n.start <= day, Shaped(d, n), Above(n)', Read(n), Dropped(n)',
           \A e \in Phones \ {d} : Locked(n, sends[e])
    PROVE  EarnedInv'
<1>1. sends' \in [Phones -> Sends] /\ sends'[d] = n /\ \A e \in Phones \ {d} : sends'[e] = sends[e]
    BY DEF EarnedInv, ProfileTypes
<1>2. ProfileTypes'
  <2>1. cache' \in Caches
      BY DEF EarnedInv, ProfileTypes, Caches
  <2> QED BY <1>1, <2>1 DEF EarnedInv, ProfileTypes
<1>3. OneEdit' /\ PointsTold'
    BY DEF EarnedInv, OneEdit, PointsTold
<1>4. ASSUME NEW e \in Phones PROVE (Shaped(e, sends[e]) /\ Above(sends[e]) /\ Read(sends[e]) /\ Dropped(sends[e]))'
  <2>1. PICK k : k = sends'[e]
      OBVIOUS
  <2>2. Shaped(e, k) /\ Read(k)
      BY <1>1, <2>1 DEF EarnedInv
  <2>3. Above(k)' /\ Dropped(k)'
      BY <1>1, <2>1, SendsStay DEF EarnedInv
  <2>4. Shaped(e, k)' /\ Read(k)'
      BY <2>2, SendsKept
  <2> QED BY <2>1, <2>3, <2>4
<1>6. \A e \in Phones \ {d} : Locked(sends[e], n)
    BY DEF Locked
<1>7. \A e, f \in Phones : e # f => Locked(sends'[e], sends'[f])
    BY <1>1, <1>6 DEF EarnedInv
<1>8. \A e, f \in Phones : e # f => Locked(sends[e], sends[f])'
    BY <1>7 DEF Locked
<1> QED BY <1>2, <1>3, <1>4, <1>8 DEF EarnedInv

LEMMA OneSend ==
    ASSUME EarnedInv, NEW d \in Phones, NEW n \in Sends, sends' = [sends EXCEPT ![d] = n],
           UNCHANGED <<earned, edits, cache, day, told, raced, excused>>,
           n.start <= day, Shaped(d, n), Above(n), Read(n), Dropped(n),
           \A e \in Phones \ {d} : Locked(n, sends[e])
    PROVE  EarnedInv'
<1>1. Above(n)' /\ Dropped(n)'
    BY SendsKept
<1>2. CacheTrue'
    BY SendsKept DEF EarnedInv, CacheTrue
<1>3. raced' \in BOOLEAN /\ excused' \in BOOLEAN /\ (raced' = FALSE => raced = FALSE)
    BY DEF EarnedInv, ProfileTypes
<1> QED BY <1>1, <1>2, <1>3, OneChange

LEMMA BreakSend ==
    ASSUME EarnedInv, NEW d \in Phones, Profile!Ends(d), UNCHANGED <<earned, edits, cache, day, told, raced, excused>>
    PROVE  EarnedInv'
<1>1. Profile!Quiet.start <= day /\ \A e \in Phones : Locked(Profile!Quiet, sends[e])
    BY QuietSend DEF Locked, EarnedInv, ProfileTypes
<1> QED BY <1>1, QuietSend, OneSend DEF Profile!Ends

LEMMA BeginSend == ASSUME EarnedInv, NEW d \in Phones, Profile!BeginSync(d) PROVE EarnedInv'
<1>0. PICK n : n = [Profile!Quiet EXCEPT !.stage = "handle", !.start = day, !.sent = edits[d], !.todo = edits[d]]
    OBVIOUS
<1>1. sends' = [sends EXCEPT ![d] = n] /\ UNCHANGED <<earned, edits, cache, day, told, raced, excused>>
    BY <1>0 DEF Profile!BeginSync
<1>2. edits[d] \subseteq Changes /\ day \in Nat
    BY DEF EarnedInv, ProfileTypes
<1>3. /\ n \in Sends /\ n.stage = "handle" /\ n.start = day /\ n.sent = edits[d] /\ n.todo = edits[d] /\ n.lost = {}
      /\ n.buf = {} /\ n.new = {} /\ n.snap = Profile!NoCache /\ n.get = FALSE
    BY <1>0, <1>2 DEF Profile!Quiet, Sends, Caches
<1>4. Shaped(d, n) /\ Above(n) /\ Read(n) /\ Dropped(n) /\ \A e \in Phones : Locked(n, sends[e])
    BY <1>3 DEF Shaped, Above, Read, Dropped, Drafted, Locked
<1>5. n \in Sends /\ n.start <= day
    BY <1>2, <1>3
<1> QED BY <1>1, <1>4, <1>5, OneSend

\* Points are raised, so an edit ends up below what is stored or drafted.
LEMMA HandleSend == ASSUME EarnedInv, NEW d \in Phones, NEW e \in edits[d], Profile!Handle(d, e) PROVE EarnedInv'
<1>1. UNCHANGED <<earned, edits, cache, day, told, raced, excused>>
    BY DEF Profile!Handle
<1>2. PICK k : k = sends[d]
    OBVIOUS
<1>3. PICK r : r = earned[e.kind]
    OBVIOUS
<1>4. /\ k \in Sends /\ k.start <= day /\ Shaped(d, k) /\ Above(k) /\ k.stage = "handle" /\ k.buf = {}
      /\ e \in k.todo /\ e \in Changes /\ \A f \in Phones \ {d} : Locked(k, sends[f])
    BY <1>2 DEF EarnedInv, ProfileTypes, Profile!Handle, Profile!NextUp
<1>5. r \in Earned /\ (r.val > 0 => r.there = TRUE)
    BY <1>3, <1>4 DEF EarnedInv, ProfileTypes, Changes
<1> DEFINE rest  == [sends[d] EXCEPT !.todo = @ \ {e}]
           draft == [kind |-> e.kind, seen |-> r, val |-> Profile!Raised(r, e)]
<1>6. PICK n : n = CASE Profile!Outcome(r, e) = "conflict" -> [rest EXCEPT !.lost = @ \cup {e}]
                     [] Profile!Outcome(r, e) = "write" /\ (~r.there \/ Profile!Raised(r, e) # r.val) -> [rest EXCEPT !.buf = {draft}]
                     [] OTHER -> rest
    OBVIOUS
<1>7. sends' = [sends EXCEPT ![d] = n]
  <2>1. sends' = [sends EXCEPT ![d] =
                     CASE Profile!Outcome(r, e) = "conflict" -> [rest EXCEPT !.lost = @ \cup {e}]
                       [] Profile!Outcome(r, e) = "write" /\ (~r.there \/ Profile!Raised(r, e) # r.val) -> [rest EXCEPT !.buf = {draft}]
                       [] OTHER -> rest]
      BY <1>3 DEF Profile!Handle
  <2> QED BY <1>6, <2>1
<1>8. rest = [k EXCEPT !.todo = k.todo \ {e}]
    BY <1>2
<1>9. Profile!Raised(r, e) \in Nat /\ draft \in Drafts /\ draft.kind = e.kind /\ draft.seen = r /\ draft.val = Profile!Raised(r, e)
    BY <1>4, <1>5 DEF Profile!Raised, Drafts, Changes, Earned
<1> HIDE DEF draft
<1>10. /\ n \in Sends /\ n.stage = "handle" /\ n.start = k.start /\ n.sent = k.sent /\ n.todo = k.todo \ {e} /\ n.new = k.new
       /\ n.buf \subseteq {draft} /\ k.lost \subseteq n.lost /\ n.get = k.get /\ n.snap = k.snap
       /\ \/ e \in n.lost
          \/ n.buf = {draft}
          \/ n.buf = {} /\ (Profile!Outcome(r, e) = "nothing" \/ (r.there = TRUE /\ Profile!Raised(r, e) = r.val))
  <2>1. rest \in Sends /\ rest.stage = "handle" /\ rest.start = k.start /\ rest.sent = k.sent /\ rest.todo = k.todo \ {e}
        /\ rest.new = k.new /\ rest.buf = {} /\ rest.lost = k.lost /\ rest.get = k.get /\ rest.snap = k.snap
      BY <1>4, <1>8 DEF Sends
  <2>2. PICK q : q = rest
      OBVIOUS
  <2> HIDE DEF rest
  <2>3. CASE Profile!Outcome(r, e) = "conflict"
    <3>1. n = [q EXCEPT !.lost = @ \cup {e}]
        BY <1>6, <2>2, <2>3
    <3> QED BY <1>4, <2>1, <2>2, <3>1 DEF Sends
  <2>4. CASE Profile!Outcome(r, e) = "write" /\ (~r.there \/ Profile!Raised(r, e) # r.val)
    <3>1. n = [q EXCEPT !.buf = {draft}]
        BY <1>6, <2>2, <2>4
    <3> QED BY <1>9, <2>1, <2>2, <3>1 DEF Sends
  <2>5. CASE Profile!Outcome(r, e) # "conflict" /\ ~(Profile!Outcome(r, e) = "write" /\ (~r.there \/ Profile!Raised(r, e) # r.val))
    <3>1. n = q
        BY <1>6, <2>2, <2>5
    <3>2. Profile!Outcome(r, e) \in {"write", "nothing", "conflict"}
        BY DEF Profile!Outcome
    <3>3. Profile!Outcome(r, e) = "nothing" \/ (r.there = TRUE /\ Profile!Raised(r, e) = r.val)
        BY <1>5, <2>5, <3>2 DEF Earned
    <3> QED BY <2>1, <2>2, <3>1, <3>3
  <2> QED BY <2>3, <2>4, <2>5
<1> HIDE DEF rest
<1>11. e.kind = "progress" => /\ Profile!Outcome(r, e) # "nothing" /\ Profile!Raised(r, e) >= r.val
                              /\ (Profile!Raised(r, e) >= e.val \/ r.val >= e.val) /\ Profile!Raised(r, e) >= e.val
    BY <1>4, <1>5 DEF Profile!Outcome, Profile!Raised, Earned, Changes
<1>12. Shaped(d, n)
  <2>1. \A f \in n.todo : f.kind # e.kind
      BY <1>4, <1>10 DEF Shaped, EarnedInv, OneEdit
  <2>2. \A b \in k.new : b.kind # e.kind
      BY <1>4 DEF Shaped, Drafted
  <2>3. Drafted(n) \subseteq k.new \cup {draft}
      BY <1>10 DEF Drafted
  <2>4. \A b \in Drafted(n) : b.kind = "progress" => b.val >= b.seen.val /\ (b.seen.there = FALSE => b.seen.val = 0)
      BY <1>4, <1>5, <1>9, <1>11, <2>3 DEF Shaped, Drafted, Earned
  <2>5. \A a, b \in Drafted(n) : a.kind = b.kind => a = b
      BY <1>4, <1>9, <2>2, <2>3 DEF Shaped, Drafted
  <2>6. \A b \in Drafted(n), f \in n.todo : b.kind # f.kind
      BY <1>4, <1>9, <1>10, <2>1, <2>3 DEF Shaped, Drafted
  <2> QED BY <1>4, <1>10, <2>4, <2>5, <2>6 DEF Shaped
<1>13. Above(n)
  <2>1. \A b \in n.new : /\ b.seen.there = FALSE => earned[b.kind].there = FALSE
                         /\ b.kind = "progress" /\ raced = FALSE => earned["progress"].val <= b.val
      BY <1>4, <1>10 DEF Above
  <2>2. ASSUME raced = FALSE, NEW f \in n.sent \ n.lost, f.kind = "progress"
        PROVE  f \in n.todo \/ earned["progress"].val >= f.val \/ \E b \in Drafted(n) : b.kind = "progress" /\ b.val >= f.val
    <3>1. CASE f = e
      <4>1. CASE n.buf = {draft}
          BY <1>9, <1>11, <2>2, <3>1, <4>1 DEF Drafted
      <4>2. CASE n.buf = {} /\ (Profile!Outcome(r, e) = "nothing" \/ (r.there = TRUE /\ Profile!Raised(r, e) = r.val))
          BY <1>3, <1>11, <2>2, <3>1, <4>2
      <4> QED BY <1>10, <2>2, <3>1, <4>1, <4>2
    <3>2. CASE f # e
      <4>1. f \in k.todo \/ earned["progress"].val >= f.val \/ \E b \in Drafted(k) : b.kind = "progress" /\ b.val >= f.val
          BY <1>4, <1>10, <2>2 DEF Above
      <4>2. Drafted(k) \subseteq Drafted(n)
          BY <1>4, <1>10 DEF Drafted
      <4> QED BY <1>10, <3>2, <4>1, <4>2
    <3> QED BY <3>1, <3>2
  <2> QED BY <2>1, <2>2 DEF Above
<1>14. Read(n) /\ Dropped(n) /\ \A f \in Phones \ {d} : Locked(n, sends[f])
    BY <1>4, <1>10 DEF Shaped, Read, Dropped, Locked
<1> QED BY <1>1, <1>4, <1>7, <1>10, <1>12, <1>13, <1>14, OneSend

LEMMA ShareSend == ASSUME EarnedInv, NEW d \in Phones, Profile!Share(d) PROVE EarnedInv'
<1>1. PICK b : b = [kind |-> "badge", seen |-> earned["badge"], val |-> 1]
    OBVIOUS
<1>2. PICK n : n = [Profile!Quiet EXCEPT !.stage = "share", !.start = day, !.buf = {b}]
    OBVIOUS
<1>3. sends' = [sends EXCEPT ![d] = n] /\ UNCHANGED <<earned, edits, cache, day, told, raced, excused>>
    BY <1>1, <1>2 DEF Profile!Share
<1>4. b \in Drafts /\ b.kind = "badge" /\ day \in Nat
    BY <1>1 DEF EarnedInv, ProfileTypes, Drafts, Profile!Kinds
<1>5. /\ n \in Sends /\ n.stage = "share" /\ n.start = day /\ n.sent = {} /\ n.todo = {} /\ n.lost = {}
      /\ n.buf = {b} /\ n.new = {} /\ n.snap = Profile!NoCache /\ n.get = FALSE
    BY <1>2, <1>4 DEF Profile!Quiet, Sends, Caches
<1>6. Shaped(d, n) /\ Above(n) /\ Read(n) /\ Dropped(n) /\ \A e \in Phones : Locked(n, sends[e])
    BY <1>4, <1>5 DEF Shaped, Above, Read, Dropped, Drafted, Locked
<1>7. n \in Sends /\ n.start <= day
    BY <1>4, <1>5
<1> QED BY <1>3, <1>6, <1>7, OneSend

LEMMA StatsFull == ASSUME EarnedInv PROVE Profile!Stats \in Caches /\ Profile!Stats # Profile!NoCache
<1>1. Profile!Stats \in [full : {TRUE}, streak : Nat, badge : BOOLEAN \X Nat]
    BY DEF EarnedInv, ProfileTypes, Profile!Stats, Earned, Profile!Kinds
<1> QED BY <1>1, CacheFull DEF Caches

\* A request that reads has read what is there.
LEMMA LoadSend == ASSUME EarnedInv, NEW d \in Phones, Profile!Load(d) PROVE EarnedInv'
<1>1. PICK b : b = [kind |-> "streak", seen |-> Profile!Absent, val |-> 0]
    OBVIOUS
<1>2. PICK g : g = [Profile!Quiet EXCEPT !.get = TRUE, !.start = day, !.snap = Profile!Stats]
    OBVIOUS
<1>3. PICK n : n = IF earned["streak"].there THEN [g EXCEPT !.stage = "fill"] ELSE [g EXCEPT !.stage = "make", !.buf = {b}]
    OBVIOUS
<1>4. sends' = [sends EXCEPT ![d] = n] /\ UNCHANGED <<earned, edits, cache, day, told, raced, excused>>
    BY <1>1, <1>2, <1>3 DEF Profile!Load
<1>5. b \in Drafts /\ b.kind = "streak" /\ b.val = 0 /\ b.seen.there = FALSE /\ day \in Nat
    BY <1>1 DEF EarnedInv, ProfileTypes, Drafts, Profile!Kinds, Profile!Absent, Earned
<1>6. /\ g \in Sends /\ g.stage = "idle" /\ g.start = day /\ g.sent = {} /\ g.todo = {} /\ g.lost = {}
      /\ g.buf = {} /\ g.new = {} /\ g.snap = Profile!Stats /\ g.get = TRUE
    BY <1>2, <1>5, StatsFull DEF Profile!Quiet, Sends
<1>7. /\ n \in Sends /\ n.start = day /\ n.sent = {} /\ n.todo = {} /\ n.lost = {}
      /\ n.new = {} /\ n.snap = Profile!Stats /\ n.get = TRUE /\ n.stage \in {"make", "fill"}
      /\ n.buf \subseteq {b} /\ (n.stage = "fill" => n.buf = {})
  <2>1. CASE earned["streak"].there
      BY <1>3, <1>6, <2>1 DEF Sends
  <2>2. CASE ~earned["streak"].there
      BY <1>3, <1>5, <1>6, <2>2 DEF Sends
  <2> QED BY <2>1, <2>2
<1>8. Shaped(d, n) /\ Above(n) /\ Read(n) /\ Dropped(n) /\ \A e \in Phones : Locked(n, sends[e])
    BY <1>5, <1>7, StatsFull DEF Shaped, Above, Read, Dropped, Drafted, Locked
<1>9. n \in Sends /\ n.start <= day
    BY <1>5, <1>7
<1> QED BY <1>4, <1>8, <1>9, OneSend

\* What is flushed is written over what was read, or raced tells.
LEMMA FlushSend == ASSUME EarnedInv, NEW d \in Phones, Profile!Flush(d) PROVE EarnedInv'
<1>1. PICK b \in sends[d].buf :
          /\ \A e \in Phones \ {d} : \A c \in sends[e].new : c.kind # b.kind
          /\ IF ~b.seen.there /\ earned[b.kind].there THEN Profile!Ends(d)
             ELSE sends' = [sends EXCEPT ![d].buf = {}, ![d].new = @ \cup {b},
                              ![d].stage = IF @ = "make" THEN "fill" ELSE "handle"]
          /\ raced' = (raced \/ (b.kind = "progress" /\ earned[b.kind] # b.seen /\ b.seen.there))
    BY DEF Profile!Flush
<1>2. UNCHANGED <<earned, edits, cache, day, told, excused>> /\ sends[d].stage \in {"handle", "share", "make"}
    BY DEF Profile!Flush
<1>3. PICK k : k = sends[d]
    OBVIOUS
<1>4. /\ k \in Sends /\ k.start <= day /\ Shaped(d, k) /\ Above(k) /\ Read(k) /\ b \in k.buf /\ k.buf = {b}
      /\ \A e \in Phones \ {d} : Locked(k, sends[e])
    BY <1>1, <1>3 DEF EarnedInv, ProfileTypes, Shaped
<1>5. /\ b \in Drafts /\ b.kind \in Profile!Kinds /\ b.seen \in Earned /\ b.val \in Nat /\ earned[b.kind] \in Earned
      /\ (earned[b.kind].val > 0 => earned[b.kind].there = TRUE)
    BY <1>4 DEF Sends, Drafts, EarnedInv, ProfileTypes
<1>6. raced \in BOOLEAN /\ raced' \in BOOLEAN /\ (raced' = FALSE => raced = FALSE)
  <2>1. raced \in BOOLEAN
      BY DEF EarnedInv, ProfileTypes
  <2> QED BY <1>1, <2>1, Zenon
<1>7. CASE b.seen.there = FALSE /\ earned[b.kind].there = TRUE
  <2>1. raced' = raced
      BY <1>1, <1>6, <1>7
  <2>2. Profile!Ends(d)
      BY <1>1, <1>7
  <2> QED BY <1>2, <2>1, <2>2, BreakSend
<1>8. CASE ~(b.seen.there = FALSE /\ earned[b.kind].there = TRUE)
  <2>1. b.seen.there \in BOOLEAN /\ earned[b.kind].there \in BOOLEAN
      BY <1>5 DEF Earned
  <2>2. sends' = [sends EXCEPT ![d].buf = {}, ![d].new = @ \cup {b}, ![d].stage = IF @ = "make" THEN "fill" ELSE "handle"]
      BY <1>1, <1>8, <2>1
  <2>3. PICK n : n = [k EXCEPT !.buf = {}, !.new = k.new \cup {b}, !.stage = IF k.stage = "make" THEN "fill" ELSE "handle"]
      OBVIOUS
  <2>4. sends' = [sends EXCEPT ![d] = n]
      BY <1>3, <1>4, <2>2, <2>3 DEF EarnedInv, ProfileTypes, Sends
  <2>5. /\ n \in Sends /\ n.buf = {} /\ n.new = k.new \cup {b} /\ n.stage \in {"fill", "handle"}
        /\ (n.stage = "fill" <=> k.stage = "make") /\ n.start = k.start /\ n.sent = k.sent /\ n.todo = k.todo
        /\ n.lost = k.lost /\ n.snap = k.snap /\ n.get = k.get /\ n.late = k.late
      BY <1>4, <1>5, <2>3 DEF Sends
  <2>6. Drafted(n) = Drafted(k)
      BY <1>4, <2>5 DEF Drafted
  <2>7. Shaped(d, n)
    <3>1. k.get = TRUE => k.sent = {}
        BY <1>4 DEF Shaped
    <3>2. n.stage = "fill" => n.todo = {} /\ n.get = TRUE /\ n.snap # Profile!NoCache
        BY <1>4, <2>5 DEF Shaped
    <3>3. n.stage = "handle" => n.get = FALSE
        BY <1>2, <1>3, <1>4, <2>5 DEF Shaped
    <3> QED BY <1>4, <2>5, <2>6, <3>1, <3>2, <3>3 DEF Shaped
  <2>8. Above(n)'
    <3>1. ASSUME NEW a \in n.new
          PROVE  /\ a.seen.there = FALSE => earned[a.kind].there = FALSE
                 /\ a.kind = "progress" /\ raced' = FALSE => earned["progress"].val <= a.val
      <4>1. CASE a \in k.new
          BY <1>4, <1>6, <4>1 DEF Above
      <4>2. CASE a = b
        <5>1. b.seen.there = FALSE => earned[b.kind].there = FALSE
            BY <1>8, <2>1
        <5>2. ASSUME b.kind = "progress", raced' = FALSE PROVE earned["progress"].val <= b.val
          <6>1. b.val >= b.seen.val
              BY <1>4, <5>2 DEF Shaped, Drafted
          <6>2. b.seen.there = TRUE => earned[b.kind] = b.seen
              BY <1>1, <5>2
          <6>3. CASE b.seen.there = TRUE
              BY <1>5, <5>2, <6>1, <6>2, <6>3 DEF Earned
          <6>4. CASE b.seen.there = FALSE
              BY <1>5, <5>1, <5>2, <6>4 DEF Earned
          <6> QED BY <2>1, <6>3, <6>4
        <5> QED BY <4>2, <5>1, <5>2
      <4> QED BY <2>5, <4>1, <4>2
    <3>2. ASSUME raced' = FALSE, NEW e \in n.sent \ n.lost, e.kind = "progress"
          PROVE  e \in n.todo \/ earned["progress"].val >= e.val \/ \E a \in Drafted(n) : a.kind = "progress" /\ a.val >= e.val
        BY <1>4, <1>6, <2>5, <2>6, <3>2 DEF Above
    <3>3. raced' = FALSE => \A e \in n.sent \ n.lost : e.kind = "progress" =>
              \/ e \in n.todo \/ earned["progress"].val >= e.val
              \/ \E a \in Drafted(n) : a.kind = "progress" /\ a.val >= e.val
        BY <3>2
    <3> QED BY <1>2, <3>1, <3>3 DEF Above, Drafted
  <2>9. Read(n) /\ Dropped(n)'
      BY <1>4, <2>5 DEF Read, Dropped
  <2>10. \A e \in Phones \ {d} : Locked(n, sends[e])
      BY <1>1, <1>4, <2>5 DEF Locked
  <2>11. CacheTrue' /\ excused' \in BOOLEAN
      BY <1>2, SendsKept DEF EarnedInv, CacheTrue, ProfileTypes
  <2>12. n \in Sends /\ n.start <= day
      BY <1>4, <2>5
  <2> QED BY <1>2, <1>6, <2>4, <2>7, <2>8, <2>9, <2>10, <2>11, <2>12, OneChange
<1>9. b.seen.there \in BOOLEAN /\ earned[b.kind].there \in BOOLEAN
    BY <1>5 DEF Earned
<1> QED BY <1>7, <1>8, <1>9

LEMMA InvalidateSend == ASSUME EarnedInv, NEW d \in Phones, Profile!Invalidate(d) PROVE EarnedInv'
<1>1. PICK deleted \in BOOLEAN :
          /\ cache' = IF deleted THEN Profile!AfterDrop ELSE cache
          /\ excused' = (excused /\ ~deleted)
          /\ sends' = [sends EXCEPT ![d].stage = "commit", ![d].refilled = ~deleted]
    BY Zenon DEF Profile!Invalidate
<1>2. /\ UNCHANGED <<earned, edits, day, told, raced>>
      /\ sends[d].stage = "handle" /\ sends[d].todo = {} /\ sends[d].buf = {}
    BY DEF Profile!Invalidate
<1>3. PICK k : k = sends[d]
    OBVIOUS
<1>4. /\ k \in Sends /\ k.start <= day /\ Shaped(d, k) /\ Above(k) /\ Read(k)
      /\ \A e \in Phones \ {d} : Locked(k, sends[e])
    BY <1>3 DEF EarnedInv, ProfileTypes
<1>5. PICK n : n = [k EXCEPT !.stage = "commit", !.refilled = ~deleted]
    OBVIOUS
<1>6. sends' = [sends EXCEPT ![d] = n]
    BY <1>1, <1>3, <1>4, <1>5 DEF EarnedInv, ProfileTypes, Sends
<1>7. /\ n \in Sends /\ n.buf = k.buf /\ n.new = k.new /\ n.stage = "commit" /\ n.start = k.start
      /\ n.sent = k.sent /\ n.todo = k.todo /\ n.lost = k.lost /\ n.snap = k.snap /\ n.get = k.get /\ n.late = k.late
      /\ n.refilled = ~deleted
    BY <1>4, <1>5 DEF Sends
<1>8. Shaped(d, n)
    BY <1>2, <1>3, <1>4, <1>7 DEF Shaped, Drafted
<1>9. Above(n)' /\ Read(n)
    BY <1>2, <1>4, <1>7 DEF Above, Read, Drafted
<1>10. cache' \in {cache, Profile!NoCache} /\ (deleted = TRUE => cache' = Profile!NoCache)
    BY <1>1 DEF Profile!AfterDrop
<1>11. Dropped(n)'
    BY <1>7, <1>10 DEF Dropped
<1>12. excused \in BOOLEAN /\ excused' \in BOOLEAN /\ (deleted = FALSE => excused' = excused /\ cache' = cache)
    BY <1>1, Zenon DEF EarnedInv, ProfileTypes
<1>13. CacheTrue'
    BY <1>2, <1>10, <1>12, SendsKept DEF EarnedInv, CacheTrue
<1>14. raced' \in BOOLEAN /\ (raced' = FALSE => raced = FALSE)
    BY <1>2 DEF EarnedInv, ProfileTypes
<1>15. n \in Sends /\ n.start <= day /\ \A e \in Phones \ {d} : Locked(n, sends[e])
    BY <1>4, <1>7 DEF Locked
<1> QED BY <1>2, <1>6, <1>8, <1>9, <1>10, <1>11, <1>12, <1>13, <1>14, <1>15, OneChange

-----------------------------------------------------------------------------
\* Steps that tell a device, fill or empty the cache, or write rows.

\* Requests are as they should be if each of them is.
LEMMA EachSend ==
    ASSUME ProfileTypes', OneEdit', PointsTold', CacheTrue',
           \A e \in Phones : \E k : k = sends'[e] /\ Shaped(e, k)' /\ Above(k)' /\ Read(k)' /\ Dropped(k)',
           \A d, e \in Phones : d # e => Locked(sends'[d], sends'[e])
    PROVE  EarnedInv'
<1>1. \A d, e \in Phones : d # e => Locked(sends[d], sends[e])'
    BY DEF Locked
<1>2. ASSUME NEW e \in Phones PROVE (Shaped(e, sends[e]) /\ Above(sends[e]) /\ Read(sends[e]) /\ Dropped(sends[e]))'
  <2>1. PICK k : k = sends'[e] /\ Shaped(e, k)' /\ Above(k)' /\ Read(k)' /\ Dropped(k)'
      OBVIOUS
  <2> QED BY <2>1
<1> QED BY <1>1, <1>2 DEF EarnedInv

\* A request that another step leaves alone, but to mark it late or refilled.
SameBut(k, n) == \E l, r \in BOOLEAN : n = [k EXCEPT !.late = l, !.refilled = r]

LEMMA SameSend ==
    ASSUME NEW k \in Sends, NEW n, SameBut(k, n)
    PROVE  /\ n \in Sends /\ n.start = k.start /\ n.stage = k.stage /\ n.get = k.get /\ n.snap = k.snap /\ n.new = k.new
           /\ n.sent = k.sent /\ n.todo = k.todo /\ n.lost = k.lost /\ n.buf = k.buf
           /\ \A d : Shaped(d, k) => Shaped(d, n)
           /\ Above(k)' => Above(n)'
           /\ \A m : (Locked(k, m) => Locked(n, m)) /\ (Locked(m, k) => Locked(m, n))
<1>1. PICK l \in BOOLEAN, r \in BOOLEAN : n = [k EXCEPT !.late = l, !.refilled = r]
    BY Zenon DEF SameBut
<1>2. /\ n \in Sends /\ n.start = k.start /\ n.stage = k.stage /\ n.get = k.get /\ n.snap = k.snap /\ n.new = k.new
      /\ n.sent = k.sent /\ n.todo = k.todo /\ n.lost = k.lost /\ n.buf = k.buf
    BY <1>1 DEF Sends
<1>3. \A d : Shaped(d, k) => Shaped(d, n)
    BY <1>2 DEF Shaped, Drafted
<1>4. Above(k)' => Above(n)'
    BY <1>2 DEF Above, Drafted
<1>5. \A m : (Locked(k, m) => Locked(n, m)) /\ (Locked(m, k) => Locked(m, n))
    BY <1>2 DEF Locked
<1> QED BY <1>2, <1>3, <1>4, <1>5

LEMMA EditSend ==
    ASSUME EarnedInv, NEW d \in Phones, NEW e \in [kind : Profile!Kinds, val : Nat, op : {"create", "update"}], Profile!Edit(d, e)
    PROVE  EarnedInv'
<1>1. PICK c : c = [kind |-> e.kind, val |-> e.val, op |-> e.op, at |-> day]
    OBVIOUS
<1>2. /\ edits' = [edits EXCEPT ![d] = edits[d] \cup {c}] /\ UNCHANGED <<earned, cache, sends, day, told, raced, excused>>
      /\ \A f \in edits[d] : f.kind # c.kind
    BY <1>1 DEF Profile!Edit
<1>3. c \in Changes /\ c.at = day /\ day \in 1..MaxDay
    BY <1>1 DEF Changes, EarnedInv, ProfileTypes
<1>4. /\ edits' \in [Phones -> SUBSET Changes] /\ edits'[d] = edits[d] \cup {c} /\ \A f \in Phones \ {d} : edits'[f] = edits[f]
    BY <1>2, <1>3 DEF EarnedInv, ProfileTypes
<1>5. ProfileTypes'
  <2>1. ASSUME NEW f \in Phones, NEW a \in edits'[f] PROVE a.at \in 1..day
      BY <1>3, <1>4, <2>1 DEF EarnedInv, ProfileTypes
  <2> QED BY <1>2, <1>4, <2>1 DEF EarnedInv, ProfileTypes
<1>6. OneEdit'
    BY <1>2, <1>4 DEF EarnedInv, OneEdit
<1>7. PointsTold' /\ CacheTrue'
    BY <1>2, SendsKept DEF EarnedInv, PointsTold, CacheTrue
<1>8. ASSUME NEW f \in Phones PROVE \E k : k = sends'[f] /\ Shaped(f, k)' /\ Above(k)' /\ Read(k)' /\ Dropped(k)'
  <2>1. PICK k : k = sends[f]
      OBVIOUS
  <2>2. k = sends'[f] /\ Shaped(f, k) /\ Above(k) /\ Read(k) /\ Dropped(k)
      BY <1>2, <2>1 DEF EarnedInv
  <2>3. Above(k)' /\ Read(k)' /\ Dropped(k)'
      BY <1>2, <2>2, SendsKept
  <2>4. edits[f] \subseteq edits'[f]
      BY <1>4
  <2>5. Shaped(f, k)'
      BY <2>2, <2>4, SendsStay
  <2> QED BY <2>2, <2>3, <2>5
<1>9. \A a, b \in Phones : a # b => Locked(sends'[a], sends'[b])
    BY <1>2 DEF EarnedInv
<1> QED BY <1>5, <1>6, <1>7, <1>8, <1>9, EachSend

\* Points that are stored are told; a device sends one edit of its points.
LEMMA AnswerSend == ASSUME EarnedInv, NEW d \in Phones, Profile!Answer(d) PROVE EarnedInv'
<1>1. PICK k : k = sends[d]
    OBVIOUS
<1>2. PICK S : S = {told[d]} \cup Profile!Points(k.sent \ k.lost)
    OBVIOUS
<1>3. /\ k.stage = "answer" /\ edits' = [edits EXCEPT ![d] = @ \ k.sent]
      /\ told' = [told EXCEPT ![d] = CHOOSE n \in S : \A p \in S : n >= p]
      /\ Profile!Ends(d) /\ UNCHANGED <<earned, cache, day, raced, excused>>
    BY <1>1, <1>2 DEF Profile!Answer
<1>4. /\ k \in Sends /\ Shaped(d, k) /\ Above(k) /\ told[d] \in Nat /\ k.sent \subseteq edits[d] /\ edits[d] \subseteq Changes
      /\ k.todo = {} /\ k.buf = {} /\ k.new = {}
    BY <1>1, <1>3 DEF EarnedInv, ProfileTypes, Shaped
<1>5. \A p \in Profile!Points(k.sent \ k.lost) : \E e \in k.sent \ k.lost : e.kind = "progress" /\ p = e.val
    BY Zenon DEF Profile!Points
<1>6. \A p, q \in Profile!Points(k.sent \ k.lost) : p = q /\ p \in Nat
  <2>1. \A a, b \in k.sent : a.kind = b.kind => a = b
      BY <1>4 DEF EarnedInv, OneEdit
  <2>2. \A a \in k.sent : a.val \in Nat
      BY <1>4 DEF Changes
  <2> QED BY <1>5, <2>1, <2>2
<1>7. \E n \in S : \A p \in S : n >= p
  <2>1. CASE Profile!Points(k.sent \ k.lost) = {}
    <3>1. S = {told[d]} /\ told[d] >= told[d]
        BY <1>2, <1>4, <2>1
    <3> QED BY <3>1
  <2>2. CASE Profile!Points(k.sent \ k.lost) # {}
    <3>1. PICK p \in Profile!Points(k.sent \ k.lost) : TRUE
        BY <2>2
    <3>2. S = {told[d], p} /\ p \in Nat
        BY <1>2, <1>6, <3>1
    <3>3. CASE p >= told[d]
      <4>1. p \in S /\ \A q \in S : p >= q
          BY <1>4, <3>2, <3>3
      <4> QED BY <4>1
    <3>4. CASE ~(p >= told[d])
      <4>1. told[d] \in S /\ \A q \in S : told[d] >= q
          BY <1>4, <3>2, <3>4
      <4> QED BY <4>1
    <3> QED BY <3>3, <3>4
  <2> QED BY <2>1, <2>2
<1>8. told' \in [Phones -> Nat] /\ told'[d] \in S /\ \A e \in Phones \ {d} : told'[e] = told[e]
  <2>1. PICK m : m = CHOOSE n \in S : \A p \in S : n >= p
      OBVIOUS
  <2>2. m \in S
      BY <1>7, <2>1
  <2>3. m \in Nat
      BY <1>2, <1>4, <1>6, <2>2
  <2>4. told' = [told EXCEPT ![d] = m]
      BY <1>3, <2>1
  <2> QED BY <2>2, <2>3, <2>4 DEF EarnedInv, ProfileTypes
<1>9. /\ edits' \in [Phones -> SUBSET Changes] /\ \A e \in Phones : edits'[e] \subseteq edits[e]
      /\ \A e \in Phones \ {d} : edits'[e] = edits[e]
    BY <1>3 DEF EarnedInv, ProfileTypes
<1>10. sends' \in [Phones -> Sends] /\ sends'[d] = Profile!Quiet /\ \A e \in Phones \ {d} : sends'[e] = sends[e]
    BY <1>3, QuietSend DEF Profile!Ends, EarnedInv, ProfileTypes
<1>11. ProfileTypes'
  <2>1. \A e \in Phones : sends'[e].start <= day /\ \A a \in edits'[e] : a.at \in 1..day
      BY <1>9, <1>10, QuietSend DEF EarnedInv, ProfileTypes
  <2> QED BY <1>3, <1>8, <1>9, <1>10, <2>1 DEF EarnedInv, ProfileTypes
<1>12. OneEdit'
    BY <1>9 DEF EarnedInv, OneEdit
<1>13. CacheTrue'
    BY <1>3, SendsKept DEF EarnedInv, CacheTrue
<1>14. PointsTold'
  <2>1. ASSUME raced = FALSE, NEW p \in S PROVE earned["progress"].val >= p
    <3>1. CASE p = told[d]
        BY <2>1, <3>1 DEF EarnedInv, PointsTold
    <3>2. CASE p \in Profile!Points(k.sent \ k.lost)
        BY <1>4, <1>5, <2>1, <3>2 DEF Above, Drafted
    <3> QED BY <1>2, <2>1, <3>1, <3>2
  <2> QED BY <1>3, <1>8, <2>1 DEF EarnedInv, PointsTold
<1>15. ASSUME NEW e \in Phones PROVE \E n : n = sends'[e] /\ Shaped(e, n)' /\ Above(n)' /\ Read(n)' /\ Dropped(n)'
  <2>1. PICK n : n = sends'[e]
      OBVIOUS
  <2>2. Above(n) /\ Read(n) /\ Dropped(n)
      BY <1>10, <2>1, QuietSend DEF EarnedInv
  <2>3. Above(n)' /\ Read(n)' /\ Dropped(n)'
      BY <1>3, <2>2, SendsKept
  <2>4. CASE e = d
    <3>1. n = Profile!Quiet
        BY <1>10, <2>1, <2>4
    <3>2. n.sent = {} /\ Shaped(e, n)
        BY <3>1, QuietSend
    <3>3. Shaped(e, n)'
        BY <3>2 DEF Shaped, Drafted
    <3> QED BY <2>1, <2>3, <3>3
  <2>5. CASE e # d
    <3>1. Shaped(e, n) /\ edits[e] \subseteq edits'[e]
        BY <1>9, <1>10, <2>1, <2>5 DEF EarnedInv
    <3>2. Shaped(e, n)'
        BY <3>1, SendsStay
    <3> QED BY <2>1, <2>3, <3>2
  <2> QED BY <2>4, <2>5
<1>16. \A a, b \in Phones : a # b => Locked(sends'[a], sends'[b])
  <2>1. \A a : Locked(Profile!Quiet, a) /\ Locked(a, Profile!Quiet)
      BY QuietSend DEF Locked
  <2> QED BY <1>10, <2>1 DEF EarnedInv
<1> QED BY <1>11, <1>12, <1>13, <1>14, <1>15, <1>16, EachSend

LEMMA TickSend == ASSUME EarnedInv, Profile!Tick PROVE EarnedInv'
<1>1. /\ day' = day + 1 /\ day < MaxDay /\ UNCHANGED <<earned, cache, edits, sends, told, raced, excused>>
      /\ day \in 1..MaxDay /\ MaxDay \in Nat
    BY ServicesAssumption DEF Profile!Tick, EarnedInv, ProfileTypes
<1>2. ProfileTypes'
  <2>1. day' \in 1..MaxDay /\ day \in Nat
      BY <1>1
  <2>2. \A k \in Profile!Kinds : (earned[k].val > 0 => earned[k].there = TRUE) /\ earned[k].at <= day'
    <3>1. \A k \in Profile!Kinds : earned[k].at \in Nat
        BY DEF EarnedInv, ProfileTypes, Earned
    <3> QED BY <1>1, <2>1, <3>1 DEF EarnedInv, ProfileTypes
  <2>3. \A d \in Phones : sends[d].start <= day' /\ \A e \in edits[d] : e.at \in 1..day'
    <3>1. \A d \in Phones : sends[d].start \in Nat
        BY DEF EarnedInv, ProfileTypes, Sends
    <3> QED BY <1>1, <2>1, <3>1 DEF EarnedInv, ProfileTypes
  <2> QED BY <1>1, <2>1, <2>2, <2>3 DEF EarnedInv, ProfileTypes
<1>3. OneEdit' /\ PointsTold' /\ CacheTrue'
    BY <1>1, SendsKept DEF EarnedInv, OneEdit, PointsTold, CacheTrue
<1>4. ASSUME NEW e \in Phones PROVE \E k : k = sends'[e] /\ Shaped(e, k)' /\ Above(k)' /\ Read(k)' /\ Dropped(k)'
  <2>1. PICK k : k = sends[e]
      OBVIOUS
  <2>2. k = sends'[e] /\ Shaped(e, k) /\ Above(k) /\ Read(k) /\ Dropped(k)
      BY <1>1, <2>1 DEF EarnedInv
  <2> QED BY <1>1, <2>2, SendsKept
<1>5. \A a, b \in Phones : a # b => Locked(sends'[a], sends'[b])
    BY <1>1 DEF EarnedInv
<1> QED BY <1>2, <1>3, <1>4, <1>5, EachSend

LEMMA ExpireCache == ASSUME EarnedInv, Profile!Expire PROVE EarnedInv'
<1>1. cache' = Profile!NoCache /\ excused' = FALSE /\ UNCHANGED <<earned, edits, sends, day, told, raced>>
    BY DEF Profile!Expire
<1>2. ProfileTypes' /\ OneEdit' /\ PointsTold' /\ CacheTrue'
    BY <1>1 DEF EarnedInv, ProfileTypes, OneEdit, PointsTold, CacheTrue, Caches
<1>4. ASSUME NEW e \in Phones PROVE \E k : k = sends'[e] /\ Shaped(e, k)' /\ Above(k)' /\ Read(k)' /\ Dropped(k)'
  <2>1. PICK k : k = sends[e]
      OBVIOUS
  <2>2. k = sends'[e] /\ Shaped(e, k) /\ Above(k) /\ Read(k) /\ Dropped(k)
      BY <1>1, <2>1 DEF EarnedInv
  <2>3. Dropped(k)'
      BY <1>1, <2>2, SendsStay
  <2> QED BY <1>1, <2>2, <2>3, SendsKept
<1>5. \A a, b \in Phones : a # b => Locked(sends'[a], sends'[b])
    BY <1>1 DEF EarnedInv
<1> QED BY <1>2, <1>4, <1>5, EachSend

\* What a request read is cached when it reads on time, and then nobody else
\* commits over an empty cache.
LEMMA FillCache == ASSUME EarnedInv, NEW d \in Phones, Profile!Fill(d) PROVE EarnedInv'
<1>1. PICK k : k = sends[d]
    OBVIOUS
<1>2. PICK n : n = [k EXCEPT !.stage = "commit", !.snap = Profile!NoCache]
    OBVIOUS
<1>3. /\ k.stage = "fill" /\ cache' = k.snap /\ excused' = k.late /\ UNCHANGED <<earned, edits, day, told, raced>>
      /\ sends' = [e \in Phones |->
             IF e = d THEN n ELSE IF sends[e].stage = "commit" THEN [sends[e] EXCEPT !.refilled = TRUE] ELSE sends[e]]
    BY <1>1, <1>2 DEF Profile!Fill
<1>4. /\ k \in Sends /\ k.start <= day /\ Shaped(d, k) /\ Above(k) /\ Read(k)
      /\ \A e \in Phones \ {d} : Locked(k, sends[e]) /\ Locked(sends[e], k)
    BY <1>1 DEF EarnedInv, ProfileTypes
<1>5. /\ n \in Sends /\ n.stage = "commit" /\ n.snap = Profile!NoCache /\ n.start = k.start /\ n.get = k.get /\ n.new = k.new
      /\ n.buf = k.buf /\ n.sent = k.sent /\ n.todo = k.todo /\ n.lost = k.lost
    BY <1>2, <1>4 DEF Sends, Caches
<1>6. Shaped(d, n) /\ n.get = TRUE /\ (\A e \in Phones \ {d} : Locked(n, sends[e]) /\ Locked(sends[e], n))
  <2>1. Drafted(n) = Drafted(k)
      BY <1>5 DEF Drafted
  <2> QED BY <1>3, <1>4, <1>5, <2>1 DEF Shaped, Locked
<1>7. Above(n) /\ Read(n) /\ Dropped(n)'
    BY <1>4, <1>5, <1>6 DEF Above, Drafted, Read, Dropped
<1>8. ASSUME NEW e \in Phones \ {d}
      PROVE  /\ SameBut(sends[e], sends'[e]) /\ sends'[e].late = sends[e].late
             /\ sends'[e].stage = "commit" => sends'[e].refilled = TRUE
  <2>1. sends[e] \in Sends
      BY DEF EarnedInv, ProfileTypes
  <2>2. sends'[e] = IF sends[e].stage = "commit" THEN [sends[e] EXCEPT !.refilled = TRUE] ELSE sends[e]
      BY <1>3
  <2>3. PICK q : q = sends[e]
      OBVIOUS
  <2>4. CASE q.stage = "commit"
    <3>1. sends'[e] = [q EXCEPT !.late = q.late, !.refilled = TRUE] /\ q.late \in BOOLEAN
        BY <2>1, <2>2, <2>3, <2>4 DEF Sends
    <3>2. sends'[e].late = q.late /\ sends'[e].refilled = TRUE
        BY <2>1, <2>3, <3>1 DEF Sends
    <3> QED BY <2>3, <3>1, <3>2 DEF SameBut
  <2>5. CASE q.stage # "commit"
    <3>1. sends'[e] = q /\ q = [q EXCEPT !.late = q.late, !.refilled = q.refilled] /\ q.late \in BOOLEAN /\ q.refilled \in BOOLEAN
        BY <2>1, <2>2, <2>3, <2>5 DEF Sends
    <3> QED BY <2>3, <2>5, <3>1 DEF SameBut
  <2> QED BY <2>4, <2>5
<1>9. sends' \in [Phones -> Sends] /\ sends'[d] = n /\ \A e \in Phones : sends'[e].start <= day
  <2>1. \A e \in Phones : sends'[e] \in Sends /\ sends'[e].start <= day
    <3>1. sends'[d] = n /\ n \in Sends /\ n.start <= day
        BY <1>3, <1>4, <1>5
    <3>2. ASSUME NEW e \in Phones \ {d} PROVE sends'[e] \in Sends /\ sends'[e].start <= day
      <4>1. sends[e] \in Sends /\ sends[e].start <= day
          BY DEF EarnedInv, ProfileTypes
      <4>2. sends'[e] \in Sends /\ sends'[e].start = sends[e].start
          BY <1>8, <4>1, SameSend
      <4> QED BY <4>1, <4>2
    <3> QED BY <3>1, <3>2
  <2>2. sends' = [e \in Phones |-> sends'[e]] /\ sends'[d] = n
      BY <1>3
  <2> QED BY <2>1, <2>2
<1>10. ProfileTypes'
  <2>1. cache' \in Caches /\ excused' \in BOOLEAN
      BY <1>3, <1>4 DEF Sends
  <2> QED BY <1>3, <1>9, <2>1 DEF EarnedInv, ProfileTypes
<1>11. OneEdit' /\ PointsTold'
    BY <1>3 DEF EarnedInv, OneEdit, PointsTold
<1>12. CacheTrue'
    BY <1>3, <1>4, SendsKept DEF CacheTrue, Read
<1>13. ASSUME NEW e \in Phones PROVE \E m : m = sends'[e] /\ Shaped(e, m)' /\ Above(m)' /\ Read(m)' /\ Dropped(m)'
  <2>1. PICK m : m = sends'[e]
      OBVIOUS
  <2>2. CASE e = d
      BY <1>3, <1>6, <1>7, <1>9, <2>1, <2>2, SendsKept
  <2>3. CASE e # d
    <3>1. PICK q : q = sends[e]
        OBVIOUS
    <3>2. /\ q \in Sends /\ SameBut(q, m) /\ m.late = q.late /\ (m.stage = "commit" => m.refilled = TRUE)
          /\ Shaped(e, q) /\ Above(q) /\ Read(q)
        BY <1>8, <2>1, <2>3, <3>1 DEF EarnedInv, ProfileTypes
    <3>3. Shaped(e, m) /\ m.snap = q.snap /\ Above(m)'
        BY <1>3, <3>2, SameSend, SendsKept
    <3>4. Read(m) /\ Dropped(m)'
        BY <3>2, <3>3 DEF Read, Dropped
    <3> QED BY <1>3, <2>1, <3>3, <3>4, SendsKept
  <2> QED BY <2>2, <2>3
<1>14. \A a, b \in Phones : a # b => Locked(sends'[a], sends'[b])
  <2>1. \A e \in Phones \ {d} : \A m : (Locked(sends[e], m) => Locked(sends'[e], m)) /\ (Locked(m, sends[e]) => Locked(m, sends'[e]))
      BY <1>8, SameSend DEF EarnedInv, ProfileTypes
  <2> QED BY <1>6, <1>9, <2>1 DEF EarnedInv
<1> QED BY <1>10, <1>11, <1>12, <1>13, <1>14, EachSend

\* A request that holds statistics is late when the rows change.
LEMMA LateSend ==
    ASSUME EarnedInv, NEW e \in Phones, NEW b \in BOOLEAN,
           sends'[e] = IF sends[e].snap.full /\ b THEN [sends[e] EXCEPT !.late = TRUE] ELSE sends[e]
    PROVE  /\ SameBut(sends[e], sends'[e]) /\ sends'[e].refilled = sends[e].refilled
           /\ sends'[e].late = FALSE => sends[e].late = FALSE
           /\ sends'[e].late = FALSE /\ b = TRUE => sends[e].snap = Profile!NoCache
<1>1. PICK q : q = sends[e]
    OBVIOUS
<1>2. q \in Sends /\ q.late \in BOOLEAN /\ q.refilled \in BOOLEAN /\ q.snap \in Caches
    BY <1>1 DEF EarnedInv, ProfileTypes, Sends
<1>3. q.snap.full \in BOOLEAN /\ (q.snap.full = TRUE <=> q.snap # Profile!NoCache)
    BY <1>2, CacheFull
<1>4. CASE q.snap.full = TRUE /\ b = TRUE
  <2>1. sends'[e] = [q EXCEPT !.late = TRUE, !.refilled = q.refilled]
      BY <1>1, <1>2, <1>4 DEF Sends
  <2>2. sends'[e].late = TRUE /\ sends'[e].refilled = q.refilled
      BY <1>2, <2>1 DEF Sends
  <2> QED BY <1>1, <1>2, <2>1, <2>2 DEF SameBut
<1>5. CASE q.snap.full = FALSE \/ b = FALSE
  <2>1. sends'[e] = q
      BY <1>1, <1>5
  <2>2. q = [q EXCEPT !.late = q.late, !.refilled = q.refilled]
      BY <1>2 DEF Sends
  <2> QED BY <1>1, <1>2, <1>3, <1>5, <2>1, <2>2 DEF SameBut
<1> QED BY <1>3, <1>4, <1>5

\* A family member writes the badge: no request of the user has written it.
LEMMA UnlockRow == ASSUME EarnedInv, Profile!UnlockElsewhere PROVE EarnedInv'
<1>1. /\ \A d \in Phones : \A b \in sends[d].new : b.kind # "badge"
      /\ earned' = [earned EXCEPT !["badge"] = Profile!Row(0, day)] /\ excused' = cache.full
      /\ sends' = [d \in Phones |-> IF sends[d].snap.full THEN [sends[d] EXCEPT !.late = TRUE] ELSE sends[d]]
      /\ UNCHANGED <<cache, edits, day, told, raced>>
    BY DEF Profile!UnlockElsewhere
<1>2. /\ earned' \in [Profile!Kinds -> Earned] /\ \A k \in Profile!Kinds \ {"badge"} : earned'[k] = earned[k]
      /\ earned'["badge"].val = 0 /\ earned'["badge"].at = day /\ day \in 1..MaxDay
    BY <1>1 DEF EarnedInv, ProfileTypes, Earned, Profile!Row, Profile!Kinds
<1>3. ASSUME NEW e \in Phones
      PROVE  /\ SameBut(sends[e], sends'[e]) /\ sends'[e].refilled = sends[e].refilled
             /\ sends'[e].late = FALSE => sends[e].snap = Profile!NoCache
  <2>1. sends'[e] = IF sends[e].snap.full /\ TRUE THEN [sends[e] EXCEPT !.late = TRUE] ELSE sends[e]
      BY <1>1
  <2> QED BY <2>1, LateSend
<1>4. sends' \in [Phones -> Sends] /\ \A e \in Phones : sends'[e].start <= day
  <2>1. ASSUME NEW e \in Phones PROVE sends'[e] \in Sends /\ sends'[e].start <= day
    <3>1. sends[e] \in Sends /\ sends[e].start <= day
        BY DEF EarnedInv, ProfileTypes
    <3>2. sends'[e] \in Sends /\ sends'[e].start = sends[e].start
        BY <1>3, <3>1, SameSend
    <3> QED BY <3>1, <3>2
  <2>2. sends' = [e \in Phones |-> sends'[e]]
      BY <1>1
  <2> QED BY <2>1, <2>2
<1>5. cache.full \in BOOLEAN /\ (cache.full = TRUE <=> cache # Profile!NoCache)
    BY CacheFull DEF EarnedInv, ProfileTypes
<1>6. ProfileTypes'
  <2>1. \A k \in Profile!Kinds : (earned'[k].val > 0 => earned'[k].there = TRUE) /\ earned'[k].at <= day
      BY <1>2 DEF EarnedInv, ProfileTypes
  <2> QED BY <1>1, <1>2, <1>4, <1>5, <2>1 DEF EarnedInv, ProfileTypes
<1>7. OneEdit' /\ CacheTrue'
    BY <1>1, <1>5 DEF EarnedInv, OneEdit, CacheTrue
<1>8. earned'["progress"] = earned["progress"]
    BY <1>2 DEF Profile!Kinds
<1>9. PointsTold'
    BY <1>1, <1>8 DEF EarnedInv, PointsTold
<1>10. ASSUME NEW e \in Phones PROVE \E m : m = sends'[e] /\ Shaped(e, m)' /\ Above(m)' /\ Read(m)' /\ Dropped(m)'
  <2>1. PICK m : m = sends'[e]
      OBVIOUS
  <2>2. PICK q : q = sends[e]
      OBVIOUS
  <2>3. /\ q \in Sends /\ SameBut(q, m) /\ m.refilled = q.refilled /\ (m.late = FALSE => q.snap = Profile!NoCache)
        /\ Shaped(e, q) /\ Above(q) /\ Dropped(q) /\ \A b \in q.new : b.kind # "badge"
      BY <1>1, <1>3, <2>1, <2>2 DEF EarnedInv, ProfileTypes
  <2>4. \A b \in q.new : b.kind \in Profile!Kinds /\ earned'[b.kind] = earned[b.kind]
      BY <1>2, <2>3 DEF Sends, Drafts
  <2>5. Above(q)'
      BY <1>1, <1>8, <2>3, <2>4 DEF Above, Drafted
  <2>6. Shaped(e, m) /\ Above(m)' /\ m.snap = q.snap /\ m.stage = q.stage /\ m.get = q.get
      BY <2>3, <2>5, SameSend
  <2>7. Read(m)' /\ Dropped(m)
      BY <2>3, <2>6 DEF Read, Dropped
  <2> QED BY <1>1, <2>1, <2>6, <2>7, SendsKept
<1>11. \A a, b \in Phones : a # b => Locked(sends'[a], sends'[b])
  <2>1. \A e \in Phones : \A m : (Locked(sends[e], m) => Locked(sends'[e], m)) /\ (Locked(m, sends[e]) => Locked(m, sends'[e]))
      BY <1>3, SameSend DEF EarnedInv, ProfileTypes
  <2> QED BY <2>1 DEF EarnedInv
<1> QED BY <1>6, <1>7, <1>9, <1>10, <1>11, EachSend

LEMMA RowIs ==
    /\ \A v, a : Profile!Row(v, a).there = TRUE /\ Profile!Row(v, a).val = v /\ Profile!Row(v, a).at = a
    /\ \A v, a \in Nat : Profile!Row(v, a) \in Earned
BY DEF Profile!Row, Earned

Committed(k) ==
    [j \in Profile!Kinds |-> IF \E b \in k.new : b.kind = j
        THEN Profile!Row((CHOOSE b \in k.new : b.kind = j).val, k.start) ELSE earned[j]]

\* The rows after a commit: those that were flushed, the others as they were.
LEMMA CommitRows ==
    ASSUME EarnedInv, NEW d \in Phones, NEW k, k = sends[d],
           earned' = Committed(k)
    PROVE  /\ \A b \in k.new : earned'[b.kind] = Profile!Row(b.val, k.start)
           /\ \A j \in Profile!Kinds : (\A b \in k.new : b.kind # j) => earned'[j] = earned[j]
           /\ earned' \in [Profile!Kinds -> Earned]
           /\ \A j \in Profile!Kinds : (earned'[j].val > 0 => earned'[j].there = TRUE) /\ earned'[j].at <= day
           /\ raced = FALSE => earned'["progress"].val >= earned["progress"].val
           /\ k.get = TRUE => Profile!Stats' = Profile!Stats
<1>1. k \in Sends /\ Shaped(d, k) /\ Above(k) /\ k.start <= day /\ k.start \in Nat /\ k.new \subseteq Drafts
    BY DEF EarnedInv, ProfileTypes, Sends
<1>2. ASSUME NEW b \in k.new PROVE earned'[b.kind] = Profile!Row(b.val, k.start)
  <2>1. PICK c : c = CHOOSE a \in k.new : a.kind = b.kind
      OBVIOUS
  <2>2. c \in k.new /\ c.kind = b.kind
      BY <2>1
  <2>3. c = b
      BY <1>1, <2>2 DEF Shaped, Drafted
  <2>4. b.kind \in Profile!Kinds
      BY <1>1 DEF Drafts
  <2>5. earned'[b.kind] = Profile!Row(c.val, k.start)
      BY <2>1, <2>4 DEF Committed
  <2> QED BY <2>3, <2>5
<1>3. ASSUME NEW j \in Profile!Kinds, \A b \in k.new : b.kind # j PROVE earned'[j] = earned[j]
    BY <1>3 DEF Committed
<1>4. ASSUME NEW j \in Profile!Kinds
      PROVE  earned'[j] \in Earned /\ (earned'[j].val > 0 => earned'[j].there = TRUE) /\ earned'[j].at <= day
  <2>1. CASE \E b \in k.new : b.kind = j
    <3>1. PICK b \in k.new : b.kind = j
        BY <2>1
    <3>2. earned'[j] = Profile!Row(b.val, k.start) /\ b.val \in Nat
        BY <1>1, <1>2, <3>1 DEF Drafts
    <3> QED BY <1>1, <3>2, RowIs
  <2>2. CASE \A b \in k.new : b.kind # j
      BY <1>3, <2>2 DEF EarnedInv, ProfileTypes
  <2> QED BY <2>1, <2>2
<1>5. ASSUME raced = FALSE PROVE earned'["progress"].val >= earned["progress"].val
  <2>0. earned["progress"].val \in Nat
      BY DEF EarnedInv, ProfileTypes, Earned, Profile!Kinds
  <2>1. CASE \E b \in k.new : b.kind = "progress"
    <3>1. PICK b \in k.new : b.kind = "progress"
        BY <2>1
    <3>2. earned'["progress"].val = b.val /\ earned["progress"].val <= b.val /\ b.val \in Nat
      <4>1. b \in Drafts /\ earned'["progress"] = Profile!Row(b.val, k.start)
          BY <1>1, <1>2, <3>1
      <4>2. earned["progress"].val <= b.val
          BY <1>1, <1>5, <3>1 DEF Above
      <4> QED BY <4>1, <4>2, RowIs DEF Drafts
    <3> QED BY <2>0, <3>2
  <2>2. CASE \A b \in k.new : b.kind # "progress"
      BY <1>3, <2>0, <2>2 DEF Profile!Kinds
  <2> QED BY <2>1, <2>2
<1>6. ASSUME k.get = TRUE PROVE Profile!Stats' = Profile!Stats
  <2>1. \A b \in k.new : b.kind = "streak" /\ b.val = 0 /\ b.seen.there = FALSE
      BY <1>1, <1>6 DEF Shaped, Drafted
  <2>2. earned'["badge"] = earned["badge"]
      BY <1>3, <2>1 DEF Profile!Kinds
  <2>3. earned'["streak"].val = earned["streak"].val
    <3>1. CASE k.new = {}
        BY <1>3, <3>1 DEF Profile!Kinds
    <3>2. CASE k.new # {}
      <4>1. PICK b \in k.new : TRUE
          BY <3>2
      <4>2. earned["streak"].there = FALSE /\ earned'["streak"].val = 0
        <5>1. b.kind = "streak" /\ b.val = 0 /\ earned["streak"].there = FALSE
            BY <1>1, <2>1, <4>1 DEF Above
        <5>2. earned'["streak"] = Profile!Row(0, k.start)
            BY <1>2, <4>1, <5>1
        <5> QED BY <5>1, <5>2, RowIs
      <4>3. earned["streak"].val = 0
          BY <4>2 DEF EarnedInv, ProfileTypes, Earned, Profile!Kinds
      <4> QED BY <4>2, <4>3
    <3> QED BY <3>1, <3>2
  <2> QED BY <2>2, <2>3 DEF Profile!Stats
<1>7. earned' = [j \in Profile!Kinds |-> earned'[j]]
    BY DEF Committed
<1> QED BY <1>2, <1>3, <1>4, <1>5, <1>6, <1>7

\* The commit of a request that writes makes the others that hold statistics
\* late, and leaves none in the cache that it dropped.
LEMMA CommitSend == ASSUME EarnedInv, NEW d \in Phones, Profile!Commit(d) PROVE EarnedInv'
<1>1. PICK k : k = sends[d]
    OBVIOUS
<1>2. PICK n : n = IF k.sent = {} THEN Profile!Quiet ELSE [k EXCEPT !.stage = "answer", !.new = {}]
    OBVIOUS
<1>3. /\ k.stage = "commit" /\ UNCHANGED <<cache, edits, day, told, raced>>
      /\ earned' = Committed(k)
      /\ excused' = (excused \/ (k.refilled /\ cache.full))
      /\ sends' = [e \in Phones |-> IF e = d THEN n ELSE
             IF sends[e].snap.full /\ ~k.get THEN [sends[e] EXCEPT !.late = TRUE] ELSE sends[e]]
    BY <1>1, <1>2 DEF Profile!Commit, Committed
<1>4. /\ k \in Sends /\ k.start <= day /\ Shaped(d, k) /\ Above(k) /\ Read(k) /\ Dropped(k) /\ k.buf = {} /\ k.todo = {}
      /\ \A e \in Phones \ {d} : Locked(k, sends[e]) /\ Locked(sends[e], k)
    BY <1>1, <1>3 DEF EarnedInv, ProfileTypes, Shaped
<1>5. /\ \A b \in k.new : earned'[b.kind] = Profile!Row(b.val, k.start)
      /\ \A j \in Profile!Kinds : (\A b \in k.new : b.kind # j) => earned'[j] = earned[j]
      /\ earned' \in [Profile!Kinds -> Earned]
      /\ \A j \in Profile!Kinds : (earned'[j].val > 0 => earned'[j].there = TRUE) /\ earned'[j].at <= day
      /\ raced = FALSE => earned'["progress"].val >= earned["progress"].val
      /\ k.get = TRUE => Profile!Stats' = Profile!Stats
    BY <1>1, <1>3, CommitRows
<1>6. k.get \in BOOLEAN /\ k.refilled \in BOOLEAN /\ excused \in BOOLEAN /\ excused' \in BOOLEAN /\ raced \in BOOLEAN
  <2>1. k.get \in BOOLEAN /\ k.refilled \in BOOLEAN
      BY <1>4 DEF Sends
  <2>2. excused \in BOOLEAN /\ raced \in BOOLEAN
      BY DEF EarnedInv, ProfileTypes
  <2> QED BY <1>3, <2>1, <2>2, Zenon
<1>7. /\ n \in Sends /\ n.start <= day /\ n.new = {} /\ n.buf = {} /\ n.todo = {} /\ n.stage # "commit"
      /\ Shaped(d, n) /\ Read(n)'
  <2>1. CASE k.sent = {}
    <3>1. n = Profile!Quiet /\ day \in Nat
        BY <1>2, <2>1 DEF EarnedInv, ProfileTypes
    <3>2. n \in Sends /\ n.start <= day /\ n.new = {} /\ Shaped(d, n)
        BY <3>1, QuietSend
    <3>3. n.snap = Profile!NoCache /\ n.buf = {} /\ n.todo = {} /\ n.stage = "idle"
        BY <3>1 DEF Profile!Quiet
    <3> QED BY <3>2, <3>3 DEF Read
  <2>2. CASE k.sent # {}
    <3>1. n = [k EXCEPT !.stage = "answer", !.new = {}]
        BY <1>2, <2>2
    <3>2. /\ n \in Sends /\ n.stage = "answer" /\ n.new = {} /\ n.buf = {} /\ n.todo = {} /\ n.start = k.start
          /\ n.sent = k.sent /\ n.snap = k.snap /\ n.get = k.get
        BY <1>4, <3>1 DEF Sends
    <3>3. n.get = FALSE
        BY <1>4, <1>6, <2>2, <3>2 DEF Shaped
    <3>4. Shaped(d, n)
        BY <1>4, <3>2, <3>3 DEF Shaped, Drafted
    <3>5. n.snap = Profile!NoCache
        BY <3>3, <3>4 DEF Shaped
    <3> QED BY <1>4, <3>2, <3>4, <3>5 DEF Read
  <2> QED BY <2>1, <2>2
<1>8. Above(n)'
  <2>1. CASE k.sent = {}
    <3>1. n.sent = {}
        BY <1>2, <2>1, QuietSend
    <3> QED BY <1>7, <3>1 DEF Above
  <2>2. CASE k.sent # {}
    <3>1. n.sent = k.sent /\ n.lost = k.lost
        BY <1>2, <1>4, <2>2 DEF Sends
    <3>2. ASSUME raced = FALSE, NEW e \in k.sent \ k.lost, e.kind = "progress" PROVE earned'["progress"].val >= e.val
      <4>0. e.val \in Nat /\ earned["progress"].val \in Nat /\ earned'["progress"].val \in Nat
          BY <1>4, <1>5 DEF Sends, Changes, EarnedInv, ProfileTypes, Earned, Profile!Kinds
      <4>1. earned["progress"].val >= e.val \/ \E b \in k.new : b.kind = "progress" /\ b.val >= e.val
          BY <1>4, <3>2 DEF Above, Drafted
      <4>2. CASE earned["progress"].val >= e.val
          BY <1>5, <3>2, <4>0, <4>2
      <4>3. CASE \E b \in k.new : b.kind = "progress" /\ b.val >= e.val
        <5>1. PICK b \in k.new : b.kind = "progress" /\ b.val >= e.val
            BY <4>3
        <5>2. earned'["progress"].val = b.val
            BY <1>5, <5>1, RowIs
        <5> QED BY <5>1, <5>2
      <4> QED BY <4>1, <4>2, <4>3
    <3> QED BY <1>3, <1>7, <3>1, <3>2 DEF Above
  <2> QED BY <2>1, <2>2
<1>9. ASSUME NEW e \in Phones \ {d}
      PROVE  /\ SameBut(sends[e], sends'[e]) /\ sends'[e].refilled = sends[e].refilled
             /\ sends'[e].late = FALSE => sends[e].late = FALSE
             /\ sends'[e].late = FALSE /\ k.get = FALSE => sends[e].snap = Profile!NoCache
  <2>1. PICK b : b = ~k.get
      OBVIOUS
  <2>2. b \in BOOLEAN /\ (k.get = FALSE => b = TRUE)
      BY <1>6, <2>1, Zenon
  <2>3. sends'[e] = IF sends[e].snap.full /\ b THEN [sends[e] EXCEPT !.late = TRUE] ELSE sends[e]
      BY <1>3, <2>1
  <2> QED BY <2>2, <2>3, LateSend
<1>10. sends' \in [Phones -> Sends] /\ sends'[d] = n /\ \A e \in Phones : sends'[e].start <= day
  <2>1. \A e \in Phones : sends'[e] \in Sends /\ sends'[e].start <= day
    <3>1. sends'[d] = n /\ n \in Sends /\ n.start <= day
        BY <1>3, <1>7
    <3>2. ASSUME NEW e \in Phones \ {d} PROVE sends'[e] \in Sends /\ sends'[e].start <= day
      <4>1. sends[e] \in Sends /\ sends[e].start <= day
          BY DEF EarnedInv, ProfileTypes
      <4>2. sends'[e] \in Sends /\ sends'[e].start = sends[e].start
          BY <1>9, <4>1, SameSend
      <4> QED BY <4>1, <4>2
    <3> QED BY <3>1, <3>2
  <2>2. sends' = [e \in Phones |-> sends'[e]] /\ sends'[d] = n
      BY <1>3
  <2> QED BY <2>1, <2>2
<1>11. ProfileTypes'
    BY <1>3, <1>5, <1>6, <1>10 DEF EarnedInv, ProfileTypes
<1>12. OneEdit'
    BY <1>3 DEF EarnedInv, OneEdit
<1>13. PointsTold'
  <2>1. ASSUME raced = FALSE, NEW e \in Phones PROVE earned'["progress"].val >= told[e]
    <3>1. earned["progress"].val >= told[e] /\ told[e] \in Nat
        BY <2>1 DEF EarnedInv, PointsTold, ProfileTypes
    <3>2. earned["progress"].val \in Nat /\ earned'["progress"].val \in Nat
        BY <1>5 DEF EarnedInv, ProfileTypes, Earned, Profile!Kinds
    <3> QED BY <1>5, <2>1, <3>1, <3>2
  <2> QED BY <1>3, <2>1 DEF PointsTold
<1>14. CacheTrue'
  <2>1. ASSUME cache # Profile!NoCache, excused' = FALSE PROVE cache = Profile!Stats'
    <3>1. cache.full = TRUE
        BY <2>1, CacheFull DEF EarnedInv, ProfileTypes
    <3>2. excused = FALSE /\ k.refilled = FALSE
        BY <1>3, <1>6, <2>1, <3>1, Zenon
    <3>3. k.get = TRUE
        BY <1>3, <1>4, <1>6, <2>1, <3>2 DEF Dropped
    <3> QED BY <1>5, <2>1, <3>2, <3>3 DEF EarnedInv, CacheTrue
  <2> QED BY <1>3, <2>1 DEF CacheTrue
<1>15. ASSUME NEW e \in Phones PROVE \E m : m = sends'[e] /\ Shaped(e, m)' /\ Above(m)' /\ Read(m)' /\ Dropped(m)'
  <2>1. PICK m : m = sends'[e]
      OBVIOUS
  <2>2. CASE e = d
    <3>1. m = n
        BY <1>10, <2>1, <2>2
    <3>2. Shaped(d, n)' /\ Dropped(n)'
        BY <1>3, <1>7, SendsKept DEF Dropped
    <3> QED BY <1>7, <1>8, <2>1, <2>2, <3>1, <3>2
  <2>3. CASE e # d
    <3>1. PICK q : q = sends[e]
        OBVIOUS
    <3>2. /\ q \in Sends /\ SameBut(q, m) /\ m.refilled = q.refilled /\ (m.late = FALSE => q.late = FALSE)
          /\ (m.late = FALSE /\ k.get = FALSE => q.snap = Profile!NoCache)
          /\ Shaped(e, q) /\ Above(q) /\ Read(q) /\ Dropped(q) /\ Locked(k, q)
        BY <1>4, <1>9, <2>1, <2>3, <3>1 DEF EarnedInv, ProfileTypes
    <3>3. \A b \in q.new : b.kind \in Profile!Kinds /\ earned'[b.kind] = earned[b.kind] /\ b.val \in Nat
      <4>1. q.new \subseteq Drafts
          BY <3>2 DEF Sends
      <4> QED BY <1>5, <3>2, <4>1 DEF Locked, Drafts
    <3>4. Above(q)'
      <4>1. \A b \in q.new : /\ b.seen.there = FALSE => earned'[b.kind].there = FALSE
                             /\ b.kind = "progress" /\ raced = FALSE => earned'["progress"].val <= b.val
          BY <3>2, <3>3 DEF Above
      <4>2. ASSUME raced = FALSE, NEW f \in q.sent \ q.lost, f.kind = "progress"
            PROVE  \/ f \in q.todo \/ earned'["progress"].val >= f.val
                   \/ \E b \in Drafted(q) : b.kind = "progress" /\ b.val >= f.val
        <5>1. \/ f \in q.todo \/ earned["progress"].val >= f.val
              \/ \E b \in Drafted(q) : b.kind = "progress" /\ b.val >= f.val
            BY <3>2, <4>2 DEF Above
        <5>2. f.val \in Nat /\ earned["progress"].val \in Nat /\ earned'["progress"].val \in Nat
            BY <1>5, <3>2 DEF Sends, Changes, EarnedInv, ProfileTypes, Earned, Profile!Kinds
        <5> QED BY <1>5, <4>2, <5>1, <5>2
      <4>3. raced = FALSE => \A f \in q.sent \ q.lost : f.kind = "progress" =>
                \/ f \in q.todo \/ earned'["progress"].val >= f.val
                \/ \E b \in Drafted(q) : b.kind = "progress" /\ b.val >= f.val
          BY <4>2
      <4> QED BY <1>3, <4>1, <4>3 DEF Above, Drafted
    <3>5. Shaped(e, m) /\ Above(m)' /\ m.snap = q.snap /\ m.stage = q.stage /\ m.get = q.get
        BY <3>2, <3>4, SameSend
    <3>6. Dropped(m) /\ Read(m)'
        BY <1>5, <1>6, <3>2, <3>5 DEF Read, Dropped
    <3> QED BY <1>3, <2>1, <3>5, <3>6, SendsKept
  <2> QED BY <2>2, <2>3
<1>16. \A a, b \in Phones : a # b => Locked(sends'[a], sends'[b])
  <2>1. \A m : Locked(n, m) /\ Locked(m, n)
      BY <1>7 DEF Locked
  <2>2. \A e \in Phones \ {d} : \A m : (Locked(sends[e], m) => Locked(sends'[e], m)) /\ (Locked(m, sends[e]) => Locked(m, sends'[e]))
      BY <1>9, SameSend DEF EarnedInv, ProfileTypes
  <2> QED BY <1>10, <2>1, <2>2 DEF EarnedInv
<1> QED BY <1>11, <1>12, <1>13, <1>14, <1>15, <1>16, EachSend

-----------------------------------------------------------------------------
LEMMA ProfileStep == ASSUME ProfileConstants, EarnedInv, [Profile!Next]_profileVars PROVE EarnedInv'
<1>1. ASSUME NEW d \in Phones, NEW e \in Edits[d], Profile!Edit(d, e) PROVE EarnedInv'
    BY <1>1, EditSend DEF ProfileConstants
<1>2. ASSUME NEW d \in Phones, Profile!Break(d) PROVE EarnedInv'
    BY <1>2, BreakSend DEF Profile!Break
<1>3. CASE UNCHANGED profileVars
  <2>1. ProfileTypes' /\ OneEdit' /\ PointsTold' /\ CacheTrue'
      BY <1>3, SendsKept DEF profileVars, EarnedInv, ProfileTypes, OneEdit, PointsTold, CacheTrue
  <2>2. ASSUME NEW e \in Phones PROVE \E k : k = sends'[e] /\ Shaped(e, k)' /\ Above(k)' /\ Read(k)' /\ Dropped(k)'
    <3>1. PICK k : k = sends[e]
        OBVIOUS
    <3>2. k = sends'[e] /\ Shaped(e, k) /\ Above(k) /\ Read(k) /\ Dropped(k)
        BY <1>3, <3>1 DEF EarnedInv, profileVars
    <3> QED BY <1>3, <3>2, SendsKept DEF profileVars
  <2>3. \A a, b \in Phones : a # b => Locked(sends'[a], sends'[b])
      BY <1>3 DEF EarnedInv, profileVars
  <2> QED BY <2>1, <2>2, <2>3, EachSend
<1> QED BY <1>1, <1>2, <1>3, HandleSend, BeginSend, FlushSend, InvalidateSend, CommitSend, AnswerSend, LoadSend, FillCache,
           ShareSend, ExpireCache, UnlockRow, TickSend DEF Profile!Next

\* Edits of other kinds, and nobody who reads: the same steps.
LEMMA PointsStep == ASSUME ProfileConstants, EarnedInv, [Points!Next]_profileVars PROVE EarnedInv'
<1>1. ASSUME NEW d \in Phones, NEW e \in Scores[d], Points!Edit(d, e) PROVE EarnedInv'
  <2>1. Profile!Edit(d, e)
      BY <1>1 DEF Points!Edit, Profile!Edit
  <2> QED BY <2>1, EditSend DEF ProfileConstants
<1>2. ASSUME NEW d \in Phones, NEW e \in edits[d], Points!Handle(d, e) PROVE EarnedInv'
  <2>1. Profile!Handle(d, e)
      BY <1>2 DEF Points!Handle, Profile!Handle, Points!NextUp, Profile!NextUp, Points!Outcome, Profile!Outcome,
         Points!ClientWins, Profile!ClientWins, Points!Raised, Profile!Raised
  <2> QED BY <2>1, HandleSend
<1>3. ASSUME NEW d \in Phones, Points!BeginSync(d) PROVE Profile!BeginSync(d)
    BY <1>3 DEF Points!BeginSync, Profile!BeginSync, Points!Quiet, Profile!Quiet, Points!NoCache, Profile!NoCache
<1>4. ASSUME NEW d \in Phones, Points!Flush(d) PROVE Profile!Flush(d)
    BY <1>4 DEF Points!Flush, Profile!Flush, Points!Ends, Profile!Ends, Points!Quiet, Profile!Quiet, Points!NoCache, Profile!NoCache
<1>5. ASSUME NEW d \in Phones, Points!Invalidate(d) PROVE Profile!Invalidate(d)
    BY <1>5 DEF Points!Invalidate, Profile!Invalidate, Points!AfterDrop, Profile!AfterDrop, Points!NoCache, Profile!NoCache
<1>6. ASSUME NEW d \in Phones, Points!Commit(d) PROVE Profile!Commit(d)
    BY <1>6 DEF Points!Commit, Profile!Commit, Points!Quiet, Profile!Quiet, Points!NoCache, Profile!NoCache,
       Points!Row, Profile!Row, Points!Kinds, Profile!Kinds
<1>7. ASSUME NEW d \in Phones, Points!Answer(d) PROVE Profile!Answer(d)
    BY <1>7 DEF Points!Answer, Profile!Answer, Points!Ends, Profile!Ends, Points!Quiet, Profile!Quiet,
       Points!NoCache, Profile!NoCache, Points!Points, Profile!Points
<1>8. ASSUME NEW d \in Phones, Points!Break(d) PROVE EarnedInv'
  <2>1. Profile!Break(d)
      BY <1>8 DEF Points!Break, Profile!Break, Points!Ends, Profile!Ends, Points!Quiet, Profile!Quiet, Points!NoCache, Profile!NoCache
  <2> QED BY <2>1, BreakSend DEF Profile!Break
<1>9. ASSUME NEW d \in Phones, Points!Load(d) \/ Points!Share(d) PROVE FALSE
    BY <1>9 DEF Points!Load, Points!Share
<1>10. ASSUME NEW d \in Phones, Points!Fill(d) PROVE Profile!Fill(d)
    BY <1>10 DEF Points!Fill, Profile!Fill, Points!NoCache, Profile!NoCache
<1>11. ASSUME Points!Expire \/ Points!UnlockElsewhere \/ Points!Tick PROVE Profile!Expire \/ Profile!UnlockElsewhere \/ Profile!Tick
    BY <1>11 DEF Points!Expire, Profile!Expire, Points!UnlockElsewhere, Profile!UnlockElsewhere, Points!Tick, Profile!Tick,
       Points!NoCache, Profile!NoCache, Points!Row, Profile!Row
<1>12. CASE UNCHANGED profileVars
    BY <1>12, ProfileStep
<1> QED BY <1>1, <1>2, <1>3, <1>4, <1>5, <1>6, <1>7, <1>8, <1>9, <1>10, <1>11, <1>12, BeginSend, FlushSend, InvalidateSend,
           CommitSend, AnswerSend, FillCache, ExpireCache, UnlockRow, TickSend DEF Points!Next

\* Statistics that are cached are those of the rows, and points that a device
\* was told are stored are not lost (sync/changes.py, api/gamification.py).
THEOREM EarnedIsKept == ServicesSpec => []ProfileInv
<1> DEFINE Held == component \in {"profile", "points"} => EarnedInv
<1>0. ProfileConstants
    BY ServicesAssumption DEF ProfileConstants, Profile!Kinds
<1>1. ServicesInit => Held
    BY <1>0, EarnedInit DEF ServicesInit
<1>2. Held /\ [ServicesNext]_servicesVars => Held'
  <2> SUFFICES ASSUME Held, [ServicesNext]_servicesVars, component' \in {"profile", "points"} PROVE EarnedInv'
      OBVIOUS
  <2>1. \/ component = "profile" /\ [Profile!Next]_profileVars
        \/ component = "points" /\ [Points!Next]_profileVars
        \/ component \in {"profile", "points"} /\ UNCHANGED profileVars
      BY DEF ServicesNext, servicesVars, households, clients
  <2>2. EarnedInv
      BY <2>1
  <2> QED BY <1>0, <2>1, <2>2, ProfileStep, PointsStep
<1>3. Held => ProfileInv
    BY EarnedHolds DEF ProfileInv
<1> QED BY <1>1, <1>2, <1>3, PTL DEF ServicesSpec
=============================================================================
