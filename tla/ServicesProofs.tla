--------------------------- MODULE ServicesProofs ---------------------------
(***************************************************************************)
(* Proofs about four components of Services, for any number of people,     *)
(* devices, events and requests:                                           *)
(*   Retention: no analytics event goes, or loses its user, early;         *)
(*   Family: the size, the invites and the badge of a family;              *)
(*   Feeding: schedules, logs and what devices are told of them;           *)
(*   Access: who sees and deletes what, and where fish go.                 *)
(***************************************************************************)
EXTENDS Services, FiniteSetTheorems, TLAPS

-----------------------------------------------------------------------------
(* Retention.                                                              *)

\* Times are numbers.
RetentionConstants ==
    Born \in [Events -> Int] /\ AnonymizeAfter \in Int /\ Retain \in Int /\ MaxNow \in Int

Rows == [there : BOOLEAN, user : SUBSET {UserOf[e] : e \in Events}, marked : BOOLEAN]
JobLists == {<<>>, <<"anonymize", "delete">>, <<"anonymize">>, <<"delete">>}
PassRecords == [jobs : JobLists, begun : BOOLEAN, cutoff : Int, batch : SUBSET Events]

TypeInv ==
    /\ event \in [Events -> Rows] /\ pass \in [Passes -> PassRecords] /\ now \in Int
    /\ \A e \in Events : event[e].user \subseteq {UserOf[e]}

\* A pass that has begun looks no further than its limit, and what is in its
\* batch is older than that.
PassInv ==
    \A p \in Passes :
       /\ pass[p].begun => pass[p].jobs # <<>> /\ pass[p].cutoff <= now - LimitOf(Head(pass[p].jobs))
       /\ pass[p].batch # {} => pass[p].begun
       /\ \A e \in pass[p].batch : Born[e] < pass[p].cutoff

RetentionInv == TypeInv /\ PassInv

-----------------------------------------------------------------------------
\* What the jobs of a pass are.
LEMMA JobsOfLists ==
    /\ \A jobs \in Triggers : jobs \in JobLists /\ jobs # <<>>
    /\ \A jobs \in JobLists : jobs # <<>> => Head(jobs) \in {"anonymize", "delete"} /\ Tail(jobs) \in JobLists
BY DEF Triggers, Both, JobLists

LEMMA LimitsAreNumbers ==
    ASSUME RetentionConstants PROVE \A job : LimitOf(job) \in Int
BY DEF RetentionConstants, LimitOf

LEMMA OverIsPass == Over \in PassRecords /\ ~Over.begun /\ Over.batch = {}
BY DEF Over, PassRecords, JobLists

LEMMA RetentionInit == ASSUME RetentionConstants PROVE Init => RetentionInv
<1> SUFFICES ASSUME Init PROVE RetentionInv
    OBVIOUS
<1>1. TypeInv
    BY OverIsPass DEF Init, TypeInv, Rows, RetentionConstants
<1>2. PassInv
    BY OverIsPass DEF Init, PassInv
<1> QED BY <1>1, <1>2 DEF RetentionInv

\* A step of a pass alone keeps the invariant when its record does.
LEMMA PassOnly ==
    ASSUME RetentionInv, NEW p \in Passes, NEW q \in PassRecords,
           pass' = [pass EXCEPT ![p] = q], UNCHANGED <<event, now>>,
           q.begun => q.jobs # <<>> /\ q.cutoff <= now - LimitOf(Head(q.jobs)),
           q.batch # {} => q.begun,
           \A e \in q.batch : Born[e] < q.cutoff
    PROVE  RetentionInv'
<1>1. TypeInv'
    BY DEF RetentionInv, TypeInv
<1>2. PassInv'
    BY DEF RetentionInv, TypeInv, PassInv
<1> QED BY <1>1, <1>2 DEF RetentionInv

\* A step that ends a pass, or one of its batches, and does to events what
\* keeps them rows.
LEMMA Ending ==
    ASSUME RetentionInv, NEW p \in Passes,
           pass' = [pass EXCEPT ![p] = Over] \/ pass' = [pass EXCEPT ![p].batch = {}],
           now' = now, event' \in [Events -> Rows],
           \A e \in Events : event'[e].user \subseteq {UserOf[e]}
    PROVE  RetentionInv'
<1>1. PICK q \in PassRecords :
         /\ pass' = [pass EXCEPT ![p] = q] /\ q.batch = {}
         /\ q.begun => /\ pass[p].begun /\ q.jobs = pass[p].jobs /\ q.cutoff = pass[p].cutoff
  <2>1. CASE pass' = [pass EXCEPT ![p] = Over]
      BY <2>1, OverIsPass
  <2>2. CASE pass' = [pass EXCEPT ![p].batch = {}]
    <3> DEFINE q == [pass[p] EXCEPT !.batch = {}]
    <3>1. q \in PassRecords /\ pass' = [pass EXCEPT ![p] = q] /\ q.batch = {}
        BY <2>2 DEF RetentionInv, TypeInv, PassRecords
    <3>2. q.begun = pass[p].begun /\ q.jobs = pass[p].jobs /\ q.cutoff = pass[p].cutoff
        BY DEF RetentionInv, TypeInv, PassRecords
    <3> QED BY <3>1, <3>2
  <2> QED BY <2>1, <2>2
<1>2. TypeInv'
    BY <1>1 DEF RetentionInv, TypeInv
<1>3. PassInv'
    BY <1>1 DEF RetentionInv, TypeInv, PassInv
<1> QED BY <1>2, <1>3 DEF RetentionInv

LEMMA StartInv ==
    ASSUME RetentionInv, NEW p \in Passes, NEW jobs \in Triggers, Start(p, jobs)
    PROVE  RetentionInv'
<1> DEFINE q == [pass[p] EXCEPT !.jobs = jobs]
<1>1. pass[p] \in PassRecords /\ pass[p].jobs = <<>>
    BY DEF RetentionInv, TypeInv, Start, Busy
<1>2. ~pass[p].begun /\ pass[p].batch = {}
    BY <1>1 DEF RetentionInv, PassInv
<1>3. q \in PassRecords /\ ~q.begun /\ q.batch = {}
    BY <1>1, <1>2, JobsOfLists DEF PassRecords
<1>4. pass' = [pass EXCEPT ![p] = q] /\ UNCHANGED <<event, now>>
    BY DEF Start
<1> HIDE DEF q
<1> QED BY <1>3, <1>4, PassOnly

LEMMA BeginInv ==
    ASSUME RetentionConstants, RetentionInv, NEW p \in Passes, Begin(p)
    PROVE  RetentionInv'
<1> DEFINE cutoff == now - LimitOf(Head(pass[p].jobs))
           q == [pass[p] EXCEPT !.begun = TRUE, !.cutoff = cutoff]
<1>1. pass[p] \in PassRecords /\ pass[p].jobs # <<>> /\ pass[p].batch = {} /\ now \in Int
    BY DEF RetentionInv, TypeInv, PassInv, Begin, Busy
<1>2. cutoff \in Int /\ cutoff <= now - LimitOf(Head(pass[p].jobs))
  <2>1. LimitOf(Head(pass[p].jobs)) \in Int
      BY LimitsAreNumbers
  <2> QED BY <1>1, <2>1
<1>3. pass' = [pass EXCEPT ![p] = q] /\ UNCHANGED <<event, now>>
    BY DEF Begin
<1> HIDE DEF cutoff
<1>4. q \in PassRecords /\ q.jobs = pass[p].jobs /\ q.cutoff = cutoff /\ q.batch = {}
    BY <1>1, <1>2 DEF PassRecords
<1> HIDE DEF q
<1> QED BY <1>1, <1>2, <1>3, <1>4, PassOnly

LEMMA SelectInv ==
    ASSUME RetentionInv, NEW p \in Passes, Select(p)
    PROVE  RetentionInv'
<1> DEFINE due == Due(Head(pass[p].jobs), pass[p].cutoff)
<1>1. /\ pass[p] \in PassRecords /\ pass[p].begun /\ pass[p].jobs # <<>>
      /\ pass[p].cutoff <= now - LimitOf(Head(pass[p].jobs))
    BY DEF RetentionInv, TypeInv, PassInv, Select, Busy
<1>2. UNCHANGED <<event, now>>
    BY DEF Select
<1>3. CASE due = {}
  <2> DEFINE q == [Over EXCEPT !.jobs = Tail(pass[p].jobs)]
  <2>1. q \in PassRecords /\ ~q.begun /\ q.batch = {}
      BY <1>1, JobsOfLists, OverIsPass DEF PassRecords
  <2>2. pass' = [pass EXCEPT ![p] = q]
      BY <1>3 DEF Select
  <2> HIDE DEF q
  <2> QED BY <1>2, <2>1, <2>2, PassOnly
<1>4. CASE due # {}
  <2>1. PICK batch \in Batches(due) : pass' = [pass EXCEPT ![p].batch = batch]
      BY <1>4 DEF Select
  <2>2. batch \subseteq due
      BY <2>1 DEF Batches, kSubset
  <2>3. batch \subseteq Events /\ \A e \in batch : Born[e] < pass[p].cutoff
      BY <2>2 DEF Due
  <2> DEFINE q == [pass[p] EXCEPT !.batch = batch]
  <2>4. /\ q \in PassRecords /\ q.begun /\ q.jobs = pass[p].jobs
        /\ q.cutoff = pass[p].cutoff /\ q.batch = batch
      BY <1>1, <2>3 DEF PassRecords
  <2>5. pass' = [pass EXCEPT ![p] = q]
      BY <2>1
  <2> HIDE DEF q, due
  <2> QED BY <1>1, <1>2, <2>3, <2>4, <2>5, PassOnly
<1> QED BY <1>3, <1>4

\* An anonymized row is a row, and names nobody.
LEMMA BareIsBare ==
    ASSUME NEW kept \in Rows
    PROVE  Bare(kept) \in Rows /\ Bare(kept).user = {} /\ Bare(kept).there = kept.there
BY DEF Bare, Rows

LEMMA WriteInv ==
    ASSUME RetentionInv, NEW p \in Passes, Write(p)
    PROVE  RetentionInv'
<1> DEFINE batch == pass[p].batch
<1>1. event \in [Events -> Rows] /\ now' = now
    BY DEF RetentionInv, TypeInv, Write
<1>2. pass' = [pass EXCEPT ![p] = Over] \/ pass' = [pass EXCEPT ![p].batch = {}]
    BY DEF Write
<1>3. \/ event' = event
      \/ event' = [e \in Events |-> IF e \in batch THEN Bare(event[e]) ELSE event[e]]
      \/ event' = [e \in Events |-> IF e \in batch THEN [event[e] EXCEPT !.there = FALSE] ELSE event[e]]
    BY DEF Write
<1>4. \A e \in Events : [event[e] EXCEPT !.there = FALSE] \in Rows
    BY <1>1 DEF Rows
<1>5. event' \in [Events -> Rows]
    BY <1>1, <1>3, <1>4, BareIsBare
<1>6. \A e \in Events : event'[e].user \subseteq {UserOf[e]}
  <2> SUFFICES ASSUME NEW e \in Events PROVE event'[e].user \subseteq event[e].user
      BY DEF RetentionInv, TypeInv
  <2>1. \/ event'[e] = event[e] \/ event'[e] = Bare(event[e])
        \/ event'[e] = [event[e] EXCEPT !.there = FALSE]
      BY <1>1, <1>3
  <2>2. event[e] \in Rows
      BY <1>1
  <2>3. [event[e] EXCEPT !.there = FALSE].user = event[e].user
      BY <2>2 DEF Rows
  <2> QED BY <2>1, <2>2, <2>3, BareIsBare
<1> QED BY <1>1, <1>2, <1>5, <1>6, Ending

LEMMA EraseInv ==
    ASSUME RetentionInv, NEW u \in Users, Erase(u)
    PROVE  RetentionInv'
<1>1. event' = [e \in Events |-> IF u \in event[e].user THEN [event[e] EXCEPT !.there = FALSE] ELSE event[e]]
    BY DEF Erase
<1>2. event \in [Events -> Rows] /\ UNCHANGED <<pass, now>>
    BY DEF RetentionInv, TypeInv, Erase
<1>3. \A e \in Events : [event[e] EXCEPT !.there = FALSE] \in Rows
    BY <1>2 DEF Rows
<1>4. event' \in [Events -> Rows] /\ PassInv'
    BY <1>1, <1>2, <1>3 DEF RetentionInv, TypeInv, PassInv
<1>5. \A e \in Events : event'[e].marked = event[e].marked /\ event'[e].user = event[e].user
    BY <1>1, <1>2 DEF Rows
<1>6. TypeInv'
    BY <1>2, <1>4, <1>5 DEF RetentionInv, TypeInv
<1> QED BY <1>4, <1>6 DEF RetentionInv

LEMMA TickInv ==
    ASSUME RetentionConstants, RetentionInv, Tick
    PROVE  RetentionInv'
<1>1. now \in Int /\ now' = now + 1 /\ UNCHANGED <<event, pass>> /\ pass \in [Passes -> PassRecords]
    BY DEF RetentionInv, TypeInv, Tick
<1>2. TypeInv'
    BY <1>1 DEF RetentionInv, TypeInv
<1>3. PassInv'
  <2> SUFFICES ASSUME NEW p \in Passes, pass[p].begun
               PROVE  pass[p].cutoff <= now' - LimitOf(Head(pass[p].jobs))
      BY <1>1 DEF RetentionInv, PassInv
  <2>1. pass[p].cutoff <= now - LimitOf(Head(pass[p].jobs))
      BY DEF RetentionInv, PassInv
  <2>2. pass[p].cutoff \in Int /\ LimitOf(Head(pass[p].jobs)) \in Int
      BY <1>1, LimitsAreNumbers DEF PassRecords
  <2> QED BY <1>1, <2>1, <2>2
<1> QED BY <1>2, <1>3 DEF RetentionInv

LEMMA RetentionStep ==
    ASSUME RetentionConstants
    PROVE  RetentionInv /\ [Next]_retentionVars => RetentionInv'
<1> SUFFICES ASSUME RetentionInv, [Next]_retentionVars PROVE RetentionInv'
    OBVIOUS
<1>1. ASSUME NEW p \in Passes, NEW jobs \in Triggers, Start(p, jobs) PROVE RetentionInv'
    BY <1>1, StartInv
<1>2. Worker \in Passes /\ Admins \subseteq Passes /\ Both \in Triggers
    BY DEF Passes, Triggers
<1>3. ASSUME NEW p \in Passes, Begin(p) PROVE RetentionInv'
    BY <1>3, BeginInv
<1>4. ASSUME NEW p \in Passes, Select(p) PROVE RetentionInv'
    BY <1>4, SelectInv
<1>5. ASSUME NEW p \in Passes, Write(p) PROVE RetentionInv'
    BY <1>5, WriteInv
<1>6. ASSUME NEW p \in Passes, Break(p) PROVE RetentionInv'
  <2>1. pass' = [pass EXCEPT ![p] = Over] /\ UNCHANGED <<event, now>>
      BY <1>6 DEF Break
  <2> QED BY <2>1, OverIsPass, PassOnly
<1>7. ASSUME NEW u \in Users, Erase(u) PROVE RetentionInv'
    BY <1>7, EraseInv
<1>8. ASSUME Tick PROVE RetentionInv'
    BY <1>8, TickInv
<1>9. CASE UNCHANGED retentionVars
    BY <1>9 DEF retentionVars, RetentionInv, TypeInv, PassInv
<1> QED BY <1>1, <1>2, <1>3, <1>4, <1>5, <1>6, <1>7, <1>8, <1>9 DEF Next

\* No step does to an event what its time does not allow.
LEMMA StepInTime ==
    ASSUME RetentionConstants, RetentionInv, [Next]_retentionVars
    PROVE  [NothingBefore]_retentionVars
<1> SUFFICES ASSUME Next, NEW e \in Events
             PROVE  /\ event'[e].marked /\ ~event[e].marked => now - Born[e] > AnonymizeAfter
                    /\ event[e].there /\ ~event'[e].there =>
                          now - Born[e] > Retain \/ (erased' # erased /\ UserOf[e] \in erased')
    BY DEF NothingBefore
<1>1. event[e] \in Rows /\ event \in [Events -> Rows] /\ now \in Int /\ Born[e] \in Int
    BY DEF RetentionInv, TypeInv, RetentionConstants
<1>2. CASE event' = event
    BY <1>2
<1>3. ASSUME NEW p \in Passes, Write(p)
      PROVE  /\ event'[e].marked /\ ~event[e].marked => now - Born[e] > AnonymizeAfter
             /\ event[e].there /\ ~event'[e].there => now - Born[e] > Retain
  <2>1. CASE e \notin pass[p].batch
      BY <1>1, <1>3, <2>1 DEF Write
  <2>2. CASE e \in pass[p].batch
    <3>1. /\ pass[p] \in PassRecords /\ Born[e] < pass[p].cutoff
          /\ pass[p].cutoff <= now - LimitOf(Head(pass[p].jobs))
        BY <2>2 DEF RetentionInv, TypeInv, PassInv
    <3>2. pass[p].cutoff \in Int /\ LimitOf(Head(pass[p].jobs)) \in Int
        BY <3>1, LimitsAreNumbers DEF PassRecords
    <3>3. now - Born[e] > LimitOf(Head(pass[p].jobs))
        BY <1>1, <3>1, <3>2
    <3>4. CASE Head(pass[p].jobs) = "delete"
      <4>1. event'[e] = [event[e] EXCEPT !.there = FALSE]
          BY <1>1, <1>3, <2>2, <3>4 DEF Write
      <4>2. event'[e].marked = event[e].marked
          BY <1>1, <4>1 DEF Rows
      <4>3. LimitOf(Head(pass[p].jobs)) = Retain
          BY <3>4 DEF LimitOf
      <4> QED BY <3>3, <4>2, <4>3
    <3>5. CASE Head(pass[p].jobs) = "anonymize"
      <4>1. event'[e] = event[e] \/ event'[e] = Bare(event[e])
          BY <1>1, <1>3, <2>2, <3>5 DEF Write
      <4>2. event'[e].there = event[e].there
          BY <1>1, <4>1, BareIsBare
      <4>3. LimitOf(Head(pass[p].jobs)) = AnonymizeAfter
          BY <3>5 DEF LimitOf
      <4> QED BY <3>3, <4>2, <4>3
    <3>6. CASE Head(pass[p].jobs) \notin {"anonymize", "delete"}
        BY <1>1, <1>3, <3>6 DEF Write
    <3> QED BY <3>4, <3>5, <3>6
  <2> QED BY <2>1, <2>2
<1>4. ASSUME NEW u \in Users, Erase(u)
      PROVE  /\ event'[e].marked = event[e].marked
             /\ event[e].there /\ ~event'[e].there => erased' # erased /\ UserOf[e] \in erased'
  <2>1. event'[e] = IF u \in event[e].user THEN [event[e] EXCEPT !.there = FALSE] ELSE event[e]
      BY <1>4 DEF Erase
  <2>2. event'[e].marked = event[e].marked
      BY <1>1, <2>1 DEF Rows
  <2>3. erased' = erased \cup {u} /\ u \notin erased
      BY <1>4 DEF Erase
  <2>4. event[e].user \subseteq {UserOf[e]}
      BY DEF RetentionInv, TypeInv
  <2> QED BY <2>1, <2>2, <2>3, <2>4
<1>5. event' = event \/ (\E p \in Passes : Write(p)) \/ (\E u \in Users : Erase(u))
  <2>1. ASSUME NEW p, NEW jobs, Start(p, jobs) PROVE event' = event
      BY <2>1 DEF Start
  <2>2. ASSUME NEW p, Begin(p) \/ Select(p) \/ Break(p) PROVE event' = event
      BY <2>2 DEF Begin, Select, Break
  <2>3. ASSUME Tick PROVE event' = event
      BY <2>3 DEF Tick
  <2> QED BY <2>1, <2>2, <2>3 DEF Next
<1> QED BY <1>2, <1>3, <1>4, <1>5

\* No event loses its user or is deleted before its time, whatever order
\* passes and erasures take (anonymize_old_events_job, delete_old_events_job).
THEOREM NothingGoesEarly == ASSUME RetentionConstants PROVE Spec => NothingTooEarly
<1>1. Init => RetentionInv
    BY RetentionInit
<1>2. RetentionInv /\ [Next]_retentionVars => RetentionInv'
    BY RetentionStep
<1>3. RetentionInv /\ [Next]_retentionVars => [NothingBefore]_retentionVars
    BY StepInTime
<1> QED BY <1>1, <1>2, <1>3, PTL DEF Spec, NothingTooEarly

-----------------------------------------------------------------------------
(* Family.                                                                 *)

\* What ServicesAssumption says of the constants of Family.
FamilyConstants ==
    /\ IsFiniteSet(Requests)
    /\ FreeLimit \in Nat /\ PremiumLimit \in Nat /\ FreeLimit >= 2 /\ FreeLimit <= PremiumLimit

Waiting == {"looked", "counted"}
Flushed == {"flushed", "unlock", "commit"}
RequestRecords ==
    {Family!NoRequest}
    \cup [stage : Waiting \cup Flushed, who : People, inv : Invites, badge : BOOLEAN, free : BOOLEAN]

\* The requests that have been counted: each may bring one more member.
Counted == {q \in Requests : req[q].stage \in {"counted"} \cup Flushed}
\* Those of them that the free plan's limit has let pass.
FreelyCounted == {q \in Counted : req[q].free = TRUE}

FamilyTypes ==
    /\ aquarium \in {"live", "deleted", "erased"} /\ premium \in BOOLEAN
    /\ members \subseteq accounts /\ accounts \subseteq People /\ authors \subseteq accounts
    /\ invite \in [Invites -> {"none", "open", "expired", "cancelled"} \cup accounts]
    /\ badges \subseteq {"alien", "family_first"} /\ stuck \subseteq accounts /\ freely \subseteq members
    /\ req \in [Requests -> RequestRecords]
    /\ aquarium = "erased" => authors = {}

\* Each request that has been counted may add a member to those the limit
\* allows, and takes its own place only when it commits.
FitsIn(there, coming, limit) ==
    /\ IsFiniteSet(there)
    /\ Cardinality(there) + Cardinality(coming) <= limit + Cardinality(Requests) - 2
Fits == FitsIn(members, Counted, PremiumLimit) /\ FitsIn(freely, FreelyCounted, FreeLimit)

\* Requests that have flushed hold the rows of their invites and the keys of
\* their members.
HoldingApart ==
    \A p, q \in Family!Holding : p # q => req[p].inv # req[q].inv /\ req[p].who # req[q].who

\* Whoever commits a first member brings the badge with it, or it is there.
BadgeComes ==
    \A q \in Requests :
       /\ req[q].stage = "unlock" => req[q].badge = TRUE
       /\ req[q].stage = "commit" => req[q].badge = TRUE \/ badges # {} \/ aquarium # "live"

FInv == FamilyTypes /\ Fits /\ HoldingApart /\ Family!JoinsBacked /\ BadgeComes /\ Family!FamilyFirst

LEMMA SameFamilyCardinality == \A S : Family!Cardinality(S) = Cardinality(S)
BY DEF Family!Cardinality, Cardinality

\* A counted set is finite, and not larger than the requests.
LEMMA CountedFinite ==
    ASSUME FamilyConstants, NEW S \in SUBSET Requests
    PROVE  IsFiniteSet(S) /\ Cardinality(S) \in Nat /\ Cardinality(S) <= Cardinality(Requests) /\ Cardinality(Requests) \in Nat
BY FS_Subset, FS_CardinalityType DEF FamilyConstants

\* Fewer fit; so does everyone who may come while there is room for one more.
LEMMA FitsFewer ==
    ASSUME FamilyConstants, NEW S, NEW T \in SUBSET S, NEW C \in SUBSET Requests, NEW D \in SUBSET C,
           NEW limit \in Nat, FitsIn(S, C, limit)
    PROVE  FitsIn(T, D, limit)
<1>1. /\ IsFiniteSet(T) /\ Cardinality(T) <= Cardinality(S) /\ Cardinality(S) \in Nat /\ Cardinality(T) \in Nat
    BY FS_Subset, FS_CardinalityType DEF FitsIn
<1>2. IsFiniteSet(C) /\ Cardinality(C) \in Nat /\ Cardinality(Requests) \in Nat
    BY CountedFinite
<1>3. Cardinality(D) <= Cardinality(C) /\ Cardinality(D) \in Nat
    BY <1>2, FS_Subset, FS_CardinalityType
<1> QED BY <1>1, <1>2, <1>3 DEF FitsIn

LEMMA FitsFresh ==
    ASSUME FamilyConstants, NEW S, NEW C \in SUBSET Requests, NEW limit \in Nat,
           IsFiniteSet(S), Cardinality(S) + 1 < limit
    PROVE  FitsIn(S, C, limit)
<1>1. Cardinality(S) \in Nat
    BY FS_CardinalityType
<1>2. Cardinality(C) \in Nat /\ Cardinality(C) <= Cardinality(Requests) /\ Cardinality(Requests) \in Nat
    BY CountedFinite
<1> QED BY <1>1, <1>2 DEF FitsIn

\* The place a request was counted for is taken.
LEMMA FitsTaken ==
    ASSUME FamilyConstants, NEW S, NEW u, NEW C \in SUBSET Requests, NEW q \in C, NEW limit \in Nat, FitsIn(S, C, limit)
    PROVE  FitsIn(S \cup {u}, C \ {q}, limit)
<1>1. IsFiniteSet(C) /\ Cardinality(C) \in Nat /\ Cardinality(Requests) \in Nat
    BY CountedFinite
<1>2. Cardinality(C \ {q}) = Cardinality(C) - 1
    BY <1>1, FS_RemoveElement
<1>3. IsFiniteSet(S) /\ Cardinality(S) \in Nat
    BY FS_CardinalityType DEF FitsIn
<1>4. /\ IsFiniteSet(S \cup {u})
      /\ Cardinality(S \cup {u}) = IF u \in S THEN Cardinality(S) ELSE Cardinality(S) + 1
    BY <1>3, FS_AddElement
<1> QED BY <1>1, <1>2, <1>3, <1>4 DEF FitsIn

\* What fits exceeds the limit by at most those who are coming.
LEMMA FitsNearly ==
    ASSUME FamilyConstants, NEW S, NEW C \in SUBSET Requests, NEW limit \in Nat, FitsIn(S, C, limit)
    PROVE  Cardinality(S) + 1 < limit + Cardinality(Requests)
<1>1. Cardinality(S) \in Nat
    BY FS_CardinalityType DEF FitsIn
<1>2. Cardinality(C) \in Nat /\ Cardinality(Requests) \in Nat
    BY CountedFinite
<1> QED BY <1>1, <1>2 DEF FitsIn

LEMMA FamilyHolds == ASSUME FamilyConstants, FInv PROVE Family!FamilyInv
<1>1. Counted \in SUBSET Requests /\ FreelyCounted \in SUBSET Requests
    BY DEF Counted, FreelyCounted
<1>2. /\ Cardinality(members) + 1 < PremiumLimit + Cardinality(Requests)
      /\ Cardinality(freely) + 1 < FreeLimit + Cardinality(Requests)
    BY <1>1, FitsNearly DEF FInv, Fits, FamilyConstants
<1>3. Family!LimitNearlyHeld
    BY <1>2, SameFamilyCardinality DEF Family!LimitNearlyHeld
<1>4. Family!FamilyTypeOK
    BY DEF FInv, FamilyTypes, Family!FamilyTypeOK
<1> QED BY <1>3, <1>4 DEF Family!FamilyInv, FInv

LEMMA FamilyInit == ASSUME FamilyConstants, Family!Init PROVE FInv
<1>1. (Counted = {}) /\ (FreelyCounted = {})
    BY DEF Family!Init, Counted, FreelyCounted, Family!NoRequest, Flushed
<1>2. Cardinality(Requests) \in Nat
    BY FS_CardinalityType DEF FamilyConstants
<1>3. Fits
    BY <1>1, <1>2, FS_EmptySet DEF Fits, FitsIn, Family!Init, FamilyConstants
<1>4. FamilyTypes
    BY DEF FamilyTypes, Family!Init, RequestRecords
<1> QED BY <1>3, <1>4 DEF FInv, Family!Init, HoldingApart, Family!Holding, Family!JoinsBacked, BadgeComes, Family!FamilyFirst, Family!NoRequest

-----------------------------------------------------------------------------
\* Steps that leave the requests alone.

\* Members may only go.
LEMMA FitsKept ==
    ASSUME FInv, FamilyConstants, req' = req, members' \subseteq members, freely' \subseteq freely
    PROVE  Fits'
<1>1. Counted' = Counted /\ FreelyCounted' = FreelyCounted
    BY DEF Counted, FreelyCounted
<1>2. Counted \in SUBSET Requests /\ FreelyCounted \in SUBSET Requests
    BY DEF Counted, FreelyCounted
<1>3. FitsIn(members', Counted, PremiumLimit) /\ FitsIn(freely', FreelyCounted, FreeLimit)
    BY <1>2, FitsFewer DEF FInv, Fits, FamilyConstants
<1> QED BY <1>1, <1>3 DEF Fits, FitsIn

\* What the holders rest on is that the rows they refer to stay.
LEMMA OwnerSteps ==
    ASSUME FInv, FamilyConstants,
           \/ \E i \in Invites : Family!CreateInvite(i) \/ Family!CancelInvite(i) \/ Family!Expire(i)
           \/ \E u \in People : Family!RemoveMember(u) \/ Family!Write(u)
           \/ Family!DeleteAquarium \/ Family!Subscribe \/ Family!StoreAlien
    PROVE  FInv'
<1>1. /\ req' = req /\ members' \subseteq members /\ freely' \subseteq freely
      /\ accounts' = accounts /\ badges \subseteq badges'
    BY DEF Family!CreateInvite, Family!CancelInvite, Family!Expire, Family!RemoveMember, Family!Write,
           Family!DeleteAquarium, Family!Subscribe, Family!StoreAlien
<1>2. aquarium' # "erased" \/ aquarium' = aquarium
    BY DEF Family!CreateInvite, Family!CancelInvite, Family!Expire, Family!RemoveMember, Family!Write,
           Family!DeleteAquarium, Family!Subscribe, Family!StoreAlien
<1>3. aquarium' = "live" => aquarium = "live"
    BY DEF Family!CreateInvite, Family!CancelInvite, Family!Expire, Family!RemoveMember, Family!Write,
           Family!DeleteAquarium, Family!Subscribe, Family!StoreAlien
<1>4. FamilyTypes'
  <2>1. FamilyTypes
      BY DEF FInv
  <2>2. ASSUME NEW i \in Invites, Family!CreateInvite(i) \/ Family!CancelInvite(i) \/ Family!Expire(i) PROVE FamilyTypes'
      BY <2>1, <2>2 DEF FamilyTypes, Family!CreateInvite, Family!CancelInvite, Family!Expire
  <2>3. ASSUME NEW u \in People, Family!RemoveMember(u) \/ Family!Write(u) PROVE FamilyTypes'
      BY <2>1, <2>3 DEF FamilyTypes, Family!RemoveMember, Family!Write
  <2>4. CASE Family!DeleteAquarium \/ Family!Subscribe \/ Family!StoreAlien
      BY <2>1, <2>4 DEF FamilyTypes, Family!DeleteAquarium, Family!Subscribe, Family!StoreAlien
  <2> QED BY <2>2, <2>3, <2>4
<1>5. Fits'
    BY <1>1, FitsKept
<1>6. Family!Holding' = Family!Holding
    BY <1>1 DEF Family!Holding
<1>7. HoldingApart'
    BY <1>1, <1>6 DEF FInv, HoldingApart
<1>8. Family!JoinsBacked'
  <2>1. ASSUME NEW q \in Family!Holding PROVE invite'[req[q].inv] # "cancelled"
    <3>1. invite[req[q].inv] # "cancelled" /\ req[q].inv \in Invites
        BY DEF FInv, Family!JoinsBacked, FamilyTypes, RequestRecords, Family!Holding, Family!NoRequest
    <3>2. ASSUME NEW i \in Invites, Family!CancelInvite(i) PROVE req[q].inv # i
        BY <3>2 DEF Family!CancelInvite
    <3> QED BY <3>1, <3>2 DEF FInv, FamilyTypes, Family!CreateInvite, Family!CancelInvite, Family!Expire, Family!RemoveMember, Family!Write,
           Family!DeleteAquarium, Family!Subscribe, Family!StoreAlien
  <2> QED BY <2>1, <1>1, <1>2, <1>6 DEF FInv, Family!JoinsBacked
<1>9. BadgeComes' /\ Family!FamilyFirst'
    BY <1>1, <1>3 DEF FInv, BadgeComes, Family!FamilyFirst
<1> QED BY <1>4, <1>5, <1>7, <1>8, <1>9 DEF FInv

LEMMA EraseOwnerStep == ASSUME FInv, FamilyConstants, Family!EraseOwner PROVE FInv'
<1>1. FamilyTypes'
    BY DEF FInv, FamilyTypes, Family!EraseOwner
<1>2. Fits'
    BY FitsKept DEF Family!EraseOwner
<1>3. Family!Holding' = {}
    BY DEF Family!EraseOwner, Family!Holding
<1> QED BY <1>1, <1>2, <1>3 DEF FInv, HoldingApart, Family!JoinsBacked, BadgeComes, Family!FamilyFirst, Family!EraseOwner

LEMMA EraseMemberStep == ASSUME FInv, FamilyConstants, NEW u \in People, Family!EraseMember(u) PROVE FInv'
<1>1. req' = req /\ members' \subseteq members /\ freely' \subseteq freely /\ badges' = badges /\ aquarium' = aquarium
    BY DEF Family!EraseMember
<1>2. FamilyTypes'
  <2>1. FamilyTypes /\ u \in accounts
      BY DEF FInv, Family!EraseMember
  <2>2. CASE Family!Spared(u) # {}
      BY <2>1, <2>2 DEF FamilyTypes, Family!EraseMember
  <2>3. CASE Family!Spared(u) = {}
    <3>1. u \notin authors
        BY <2>1, <2>3 DEF FamilyTypes, Family!Spared
    <3> QED BY <2>1, <2>3, <3>1 DEF FamilyTypes, Family!EraseMember
  <2> QED BY <2>2, <2>3
<1>3. Fits'
    BY <1>1, FitsKept
<1>4. Family!Holding' = Family!Holding
    BY <1>1 DEF Family!Holding
<1>5. Family!JoinsBacked'
  <2>1. ASSUME NEW q \in Family!Holding
        PROVE  invite'[req[q].inv] = invite[req[q].inv] /\ req[q].who \in accounts'
    <3>1. req[q].inv \in Invites /\ req[q].who \in accounts
        BY DEF FInv, FamilyTypes, RequestRecords, Family!Holding, Family!NoRequest, Family!JoinsBacked
    <3> QED BY <3>1 DEF Family!EraseMember
  <2> QED BY <2>1, <1>1, <1>4 DEF FInv, Family!JoinsBacked
<1> QED BY <1>1, <1>2, <1>3, <1>4, <1>5 DEF FInv, HoldingApart, BadgeComes, Family!FamilyFirst

-----------------------------------------------------------------------------
\* Steps of the requests.

\* A step of q that leaves everything else alone.
Alone == UNCHANGED <<aquarium, premium, members, invite, badges, accounts, authors, stuck, freely>>

\* Whatever becomes of q, it does not come to more than it was counted for.
LEMMA FitsStep ==
    ASSUME FInv, FamilyConstants, NEW q \in Requests, members' = members, freely' = freely,
           \A p \in Requests \ {q} : req'[p] = req[p],
           req'[q].stage \in {"counted"} \cup Flushed => q \in Counted /\ req'[q].free = req[q].free
    PROVE  Fits'
<1>1. Counted' \in SUBSET Counted /\ FreelyCounted' \in SUBSET FreelyCounted
    BY DEF Counted, FreelyCounted
<1>2. Counted \in SUBSET Requests /\ FreelyCounted \in SUBSET Requests
    BY DEF Counted, FreelyCounted
<1>3. FitsIn(members, Counted', PremiumLimit) /\ FitsIn(freely, FreelyCounted', FreeLimit)
    BY <1>1, <1>2, FitsFewer DEF FInv, Fits, FamilyConstants
<1> QED BY <1>3 DEF Fits, FitsIn

\* A request that ends takes nothing with it.
LEMMA EndsStep == ASSUME FInv, FamilyConstants, NEW q \in Requests, Family!Ends(q), Alone PROVE FInv'
<1>1. req'[q] = Family!NoRequest /\ \A p \in Requests \ {q} : req'[p] = req[p]
    BY DEF Family!Ends, FInv, FamilyTypes
<1>2. FamilyTypes'
  <2>1. req' \in [Requests -> RequestRecords]
      BY DEF Family!Ends, FInv, FamilyTypes, RequestRecords
  <2> QED BY <2>1 DEF FInv, FamilyTypes, Alone
<1>3. Fits'
    BY <1>1, FitsStep DEF Family!NoRequest, Alone, Flushed
<1>4. Family!Holding' \subseteq Family!Holding /\ q \notin Family!Holding'
    BY <1>1 DEF Family!Holding, Family!NoRequest
<1>5. HoldingApart'
    BY <1>1, <1>4 DEF FInv, HoldingApart, Family!Holding
<1>6. Family!JoinsBacked'
    BY <1>1, <1>4 DEF FInv, Family!JoinsBacked, Alone, Family!Holding
<1>7. BadgeComes'
    BY <1>1 DEF FInv, BadgeComes, Alone, Family!NoRequest
<1> QED BY <1>2, <1>3, <1>5, <1>6, <1>7 DEF FInv, Family!FamilyFirst, Alone

\* A request that goes on to a stage without becoming a holder.
LEMMA LookStep ==
    ASSUME FInv, FamilyConstants, NEW q \in Requests, NEW u \in People, NEW i \in Invites, Family!Look(q, u, i) PROVE FInv'
<1>1. /\ req'[q] = [stage |-> "looked", who |-> u, inv |-> i, badge |-> FALSE, free |-> FALSE]
      /\ \A p \in Requests \ {q} : req'[p] = req[p]
    BY DEF Family!Look, FInv, FamilyTypes
<1>a. Alone
    BY DEF Family!Look, Alone
<1>2. FamilyTypes'
  <2>1. [stage |-> "looked", who |-> u, inv |-> i, badge |-> FALSE, free |-> FALSE] \in RequestRecords
      BY DEF RequestRecords, Waiting
  <2>2. req' \in [Requests -> RequestRecords]
      BY <2>1 DEF Family!Look, FInv, FamilyTypes
  <2> QED BY <2>2, <1>a DEF FInv, FamilyTypes, Alone
<1>3. Fits'
    BY <1>1, <1>a, FitsStep DEF Alone, Flushed
<1>4. Family!Holding' \subseteq Family!Holding /\ q \notin Family!Holding'
    BY <1>1 DEF Family!Holding
<1>5. HoldingApart'
    BY <1>1, <1>4 DEF FInv, HoldingApart, Family!Holding
<1>6. Family!JoinsBacked'
    BY <1>1, <1>4, <1>a DEF FInv, Family!JoinsBacked, Alone, Family!Holding
<1>7. BadgeComes'
    BY <1>1, <1>a DEF FInv, BadgeComes, Alone
<1> QED BY <1>2, <1>3, <1>5, <1>6, <1>7, <1>a DEF FInv, Family!FamilyFirst, Alone

\* What Goes does to a request that is not idle.
LEMMA GoesTo ==
    ASSUME FamilyTypes, NEW q \in Requests, NEW stage \in Waiting \cup Flushed, req[q].stage # "idle", Family!Goes(q, stage)
    PROVE  /\ req'[q].stage = stage /\ req'[q].who = req[q].who /\ req'[q].inv = req[q].inv /\ req'[q].badge = req[q].badge
           /\ req'[q].free = req[q].free
           /\ \A p \in Requests \ {q} : req'[p] = req[p]
           /\ req' \in [Requests -> RequestRecords]
<1>1. req[q] \in [stage : Waiting \cup Flushed, who : People, inv : Invites, badge : BOOLEAN, free : BOOLEAN]
    BY DEF FamilyTypes, RequestRecords, Family!NoRequest
<1>2. [req[q] EXCEPT !.stage = stage] \in [stage : Waiting \cup Flushed, who : People, inv : Invites, badge : BOOLEAN, free : BOOLEAN]
    BY <1>1
<1>3. req' = [req EXCEPT ![q] = [req[q] EXCEPT !.stage = stage]]
    BY DEF Family!Goes, FamilyTypes
<1> QED BY <1>1, <1>2, <1>3 DEF FamilyTypes, RequestRecords

\* A request is counted while there is room for one more under the limit.
LEMMA CountStep == ASSUME FInv, FamilyConstants, NEW q \in Requests, Family!Count(q) PROVE FInv'
<1>a. Alone
    BY DEF Family!Count, Alone
<1>1. CASE Family!Ends(q)
    BY <1>1, <1>a, EndsStep
<1>2. CASE /\ Family!HasRoom /\ aquarium = "live"
           /\ req' = [req EXCEPT ![q].stage = "counted", ![q].free = ~premium]
  <2> DEFINE r == [req[q] EXCEPT !.stage = "counted", !.free = ~premium]
  <2>0. r \in RequestRecords /\ r.stage = "counted" /\ r.free = ~premium /\ req[q].stage = "looked"
    <3>1. /\ req[q] \in [stage : Waiting \cup Flushed, who : People, inv : Invites, badge : BOOLEAN, free : BOOLEAN]
          /\ premium \in BOOLEAN /\ req[q].stage = "looked"
        BY DEF Family!Count, FInv, FamilyTypes, RequestRecords, Family!NoRequest
    <3> QED BY <3>1 DEF RequestRecords, Waiting
  <2>1. /\ req'[q].stage = "counted" /\ req'[q].free = ~premium
        /\ \A p \in Requests \ {q} : req'[p] = req[p]
        /\ req' \in [Requests -> RequestRecords]
    <3>1. req' = [req EXCEPT ![q] = r]
        BY <1>2 DEF FInv, FamilyTypes
    <3> HIDE DEF r
    <3> QED BY <3>1, <2>0 DEF FInv, FamilyTypes
  <2>2. FamilyTypes'
      BY <2>1, <1>a DEF FInv, FamilyTypes, Alone
  <2>3. Fits'
    <3>1. /\ IsFiniteSet(members) /\ freely \in SUBSET members /\ Cardinality(members) \in Nat
          /\ IsFiniteSet(freely) /\ Cardinality(freely) \in Nat /\ Cardinality(freely) <= Cardinality(members)
        BY FS_Subset, FS_CardinalityType DEF FInv, Fits, FitsIn, FamilyTypes
    <3>2. Cardinality(members) + 1 < PremiumLimit /\ (~premium => Cardinality(members) + 1 < FreeLimit)
      <4>1. Cardinality(members) + 1 < Family!Limit
          BY <1>2, SameFamilyCardinality DEF Family!HasRoom
      <4> QED BY <1>2, <3>1, <4>1 DEF Family!Limit, FamilyConstants
    <3>3. Counted' \in SUBSET Requests /\ FreelyCounted' \in SUBSET Requests /\ FreelyCounted \in SUBSET Requests
        BY DEF Counted, FreelyCounted
    <3>4. FitsIn(members, Counted', PremiumLimit)
        BY <3>1, <3>2, <3>3, FitsFresh DEF FamilyConstants
    <3>5. FitsIn(freely, FreelyCounted', FreeLimit)
      <4>1. CASE ~premium
          BY <4>1, <3>1, <3>2, <3>3, FitsFresh DEF FamilyConstants
      <4>2. CASE premium
        <5>1. FreelyCounted' \in SUBSET FreelyCounted
            BY <4>2, <2>1 DEF FreelyCounted, Counted
        <5> QED BY <5>1, <3>3, FitsFewer DEF FInv, Fits, FamilyConstants
      <4> QED BY <4>1, <4>2
    <3> QED BY <3>4, <3>5, <1>a DEF Fits, FitsIn, Alone
  <2>4. Family!Holding' = Family!Holding /\ q \notin Family!Holding
    <3>1. req[q].stage = "looked"
        BY DEF Family!Count
    <3> QED BY <2>1, <3>1 DEF Family!Holding
  <2>5. HoldingApart'
      BY <2>1, <2>4 DEF FInv, HoldingApart, Family!Holding
  <2>6. Family!JoinsBacked'
      BY <2>1, <2>4, <1>a DEF FInv, Family!JoinsBacked, Alone, Family!Holding
  <2>7. BadgeComes'
      BY <2>1, <1>a DEF FInv, BadgeComes, Alone
  <2> QED BY <2>2, <2>3, <2>5, <2>6, <2>7, <1>a DEF FInv, Family!FamilyFirst, Alone
<1> QED BY <1>1, <1>2 DEF Family!Count

\* The flush takes the row of the invite and the key of the member.
LEMMA FlushStep == ASSUME FInv, FamilyConstants, NEW q \in Requests, Family!FlushMember(q) PROVE FInv'
<1>a. Alone
    BY DEF Family!FlushMember, Alone
<1>1. CASE Family!Ends(q)
    BY <1>1, <1>a, EndsStep
<1>2. CASE /\ req[q].who \in accounts /\ aquarium # "erased" /\ Family!StillThere(req[q].inv)
           /\ Family!Goes(q, "flushed")
  <2>1. /\ req'[q].stage = "flushed" /\ req'[q].who = req[q].who /\ req'[q].inv = req[q].inv
        /\ req'[q].free = req[q].free
        /\ \A p \in Requests \ {q} : req'[p] = req[p]
        /\ req' \in [Requests -> RequestRecords]
      BY <1>2, GoesTo DEF Family!FlushMember, FInv, Waiting, Flushed
  <2>2. FamilyTypes'
      BY <2>1, <1>a DEF FInv, FamilyTypes, Alone
  <2>3. Fits'
      BY <2>1, <1>a, FitsStep DEF Alone, Counted, Flushed, Family!FlushMember
  <2>4. Family!Holding' = Family!Holding \cup {q} /\ q \notin Family!Holding
    <3>1. req[q].stage = "counted"
        BY DEF Family!FlushMember
    <3> QED BY <2>1, <3>1 DEF Family!Holding
  <2>5. HoldingApart'
    <3>1. \A p \in Family!Holding : req[p].inv # req[q].inv /\ req[p].who # req[q].who
        BY DEF Family!FlushMember
    <3>2. \A p \in Family!Holding : req'[p] = req[p]
        BY <2>1, <2>4 DEF Family!Holding
    <3> QED BY <3>1, <3>2, <2>1, <2>4 DEF FInv, HoldingApart
  <2>6. Family!JoinsBacked'
    <3>1. \A p \in Family!Holding : req'[p] = req[p]
        BY <2>1, <2>4 DEF Family!Holding
    <3> QED BY <3>1, <2>1, <2>4, <1>a, <1>2 DEF FInv, Family!JoinsBacked, Alone, Family!StillThere
  <2>7. BadgeComes'
      BY <2>1, <1>a DEF FInv, BadgeComes, Alone
  <2> QED BY <2>2, <2>3, <2>5, <2>6, <2>7, <1>a DEF FInv, Family!FamilyFirst, Alone
<1> QED BY <1>1, <1>2 DEF Family!FlushMember

\* A holder that goes on holds what it held.
LEMMA HolderStep ==
    ASSUME FInv, FamilyConstants, NEW q \in Family!Holding, Alone, BadgeComes',
           req' \in [Requests -> RequestRecords], req'[q].stage \in Flushed,
           req'[q].who = req[q].who, req'[q].inv = req[q].inv, req'[q].free = req[q].free,
           \A p \in Requests \ {q} : req'[p] = req[p]
    PROVE  FInv'
<1>0. q \in Requests /\ req[q].stage \in Flushed
    BY DEF Family!Holding, Flushed
<1>1. FamilyTypes'
    BY DEF FInv, FamilyTypes, Alone
<1>2. Fits'
    BY <1>0, FitsStep DEF Alone, Counted
<1>3. Family!Holding' = Family!Holding
    BY <1>0 DEF Family!Holding, Flushed
<1>4. \A p \in Family!Holding : req'[p].who = req[p].who /\ req'[p].inv = req[p].inv
    BY DEF Family!Holding
<1>5. HoldingApart' /\ Family!JoinsBacked'
    BY <1>3, <1>4 DEF FInv, HoldingApart, Family!JoinsBacked, Alone
<1> QED BY <1>1, <1>2, <1>5 DEF FInv, Family!FamilyFirst, Alone

LEMMA ReadBadgesStep == ASSUME FInv, FamilyConstants, NEW q \in Requests, Family!ReadBadges(q) PROVE FInv'
<1>0. Alone /\ q \in Family!Holding
    BY DEF Family!ReadBadges, Alone, Family!Holding
<1>1. req[q] \in [stage : Waiting \cup Flushed, who : People, inv : Invites, badge : BOOLEAN, free : BOOLEAN]
    BY DEF FInv, FamilyTypes, RequestRecords, Family!NoRequest, Family!ReadBadges
<1>2. CASE badges = {} /\ Family!Earns(q)
  <2> DEFINE r == [req[q] EXCEPT !.stage = "unlock", !.badge = TRUE]
  <2>1. /\ r \in RequestRecords /\ r.stage = "unlock" /\ r.badge = TRUE /\ r.who = req[q].who /\ r.inv = req[q].inv
        /\ r.free = req[q].free
      BY <1>1 DEF RequestRecords, Flushed
  <2>2. req' = [req EXCEPT ![q] = r]
      BY <1>2 DEF Family!ReadBadges, FInv, FamilyTypes
  <2> HIDE DEF r
  <2>3. /\ req' \in [Requests -> RequestRecords] /\ req'[q] = r
        /\ \A p \in Requests \ {q} : req'[p] = req[p]
      BY <2>1, <2>2 DEF FInv, FamilyTypes
  <2>4. BadgeComes'
      BY <2>1, <2>3, <1>0 DEF FInv, BadgeComes, Alone
  <2> QED BY <2>1, <2>3, <2>4, <1>0, HolderStep DEF Flushed
<1>3. CASE ~(badges = {} /\ Family!Earns(q))
  <2> DEFINE r == [req[q] EXCEPT !.stage = "commit"]
  <2>1. /\ r \in RequestRecords /\ r.stage = "commit" /\ r.who = req[q].who /\ r.inv = req[q].inv
        /\ r.free = req[q].free
      BY <1>1 DEF RequestRecords, Flushed
  <2>2. req' = [req EXCEPT ![q] = r]
      BY <1>3 DEF Family!ReadBadges, FInv, FamilyTypes
  <2> HIDE DEF r
  <2>3. /\ req' \in [Requests -> RequestRecords] /\ req'[q] = r
        /\ \A p \in Requests \ {q} : req'[p] = req[p]
      BY <2>1, <2>2 DEF FInv, FamilyTypes
  <2>4. badges # {} \/ aquarium # "live"
      BY <1>3 DEF Family!Earns
  <2>5. BadgeComes'
      BY <2>1, <2>3, <2>4, <1>0 DEF FInv, BadgeComes, Alone
  <2> QED BY <2>1, <2>3, <2>5, <1>0, HolderStep DEF Flushed
<1> QED BY <1>2, <1>3

LEMMA UnlockStep == ASSUME FInv, FamilyConstants, NEW q \in Requests, Family!Unlock(q) PROVE FInv'
<1>0. Alone /\ q \in Family!Holding
    BY DEF Family!Unlock, Alone, Family!Holding
<1>1. CASE Family!Ends(q)
    BY <1>0, <1>1, EndsStep
<1>2. CASE Family!Goes(q, "commit")
  <2>1. /\ req'[q].stage = "commit" /\ req'[q].who = req[q].who /\ req'[q].inv = req[q].inv /\ req'[q].badge = req[q].badge
        /\ req'[q].free = req[q].free
        /\ \A p \in Requests \ {q} : req'[p] = req[p]
        /\ req' \in [Requests -> RequestRecords]
      BY <1>2, GoesTo DEF Family!Unlock, FInv, Waiting, Flushed
  <2>2. BadgeComes'
      BY <2>1, <1>0 DEF FInv, BadgeComes, Alone, Family!Unlock
  <2> QED BY <2>1, <2>2, <1>0, HolderStep DEF Flushed
<1> QED BY <1>1, <1>2 DEF Family!Unlock

\* The place a request was counted for is taken.
LEMMA CommitStep == ASSUME FInv, FamilyConstants, NEW q \in Requests, Family!CommitAccept(q) PROVE FInv'
<1>0. /\ req[q].stage = "commit" /\ q \in Family!Holding /\ q \in Counted
      /\ req[q].who \in accounts /\ req[q].inv \in Invites
    BY DEF Family!CommitAccept, Family!Holding, FInv, Family!JoinsBacked, FamilyTypes, RequestRecords, Counted, Flushed, Family!NoRequest
<1>1. req'[q] = Family!NoRequest /\ (\A p \in Requests \ {q} : req'[p] = req[p]) /\ req' \in [Requests -> RequestRecords]
    BY DEF Family!CommitAccept, Family!Ends, FInv, FamilyTypes, RequestRecords
<1>2. FamilyTypes'
  <2>1. badges' \subseteq {"alien", "family_first"}
      BY DEF Family!CommitAccept, FInv, FamilyTypes
  <2>2. invite' \in [Invites -> {"none", "open", "expired", "cancelled"} \cup accounts]
      BY <1>0 DEF Family!CommitAccept, FInv, FamilyTypes
  <2> QED BY <1>0, <1>1, <2>1, <2>2 DEF Family!CommitAccept, FInv, FamilyTypes
<1>3. Fits'
  <2>1. Counted' = Counted \ {q} /\ FreelyCounted' = FreelyCounted \ {q}
      BY <1>1 DEF Counted, FreelyCounted, Family!NoRequest, Flushed
  <2>2. Counted \in SUBSET Requests /\ FreelyCounted \in SUBSET Requests
      BY DEF Counted, FreelyCounted
  <2>3. FitsIn(members', Counted', PremiumLimit)
      BY <1>0, <2>1, <2>2, FitsTaken DEF Family!CommitAccept, FInv, Fits, FamilyConstants
  <2>4. FitsIn(freely', FreelyCounted', FreeLimit)
    <3>1. CASE req[q].free = TRUE
      <4>1. q \in FreelyCounted /\ freely' = freely \cup {req[q].who}
          BY <3>1, <1>0 DEF FreelyCounted, Family!CommitAccept
      <4> QED BY <4>1, <2>1, <2>2, FitsTaken DEF FInv, Fits, FamilyConstants
    <3>2. CASE req[q].free # TRUE
      <4>1. req[q].free \in BOOLEAN
          BY <1>0 DEF FInv, FamilyTypes, RequestRecords, Family!NoRequest
      <4>2. freely' = freely /\ FreelyCounted' = FreelyCounted
          BY <3>2, <4>1, <2>1 DEF FreelyCounted, Family!CommitAccept
      <4> QED BY <4>2 DEF FInv, Fits
    <3> QED BY <3>1, <3>2
  <2> QED BY <2>3, <2>4 DEF Fits, FitsIn
<1>4. Family!Holding' = Family!Holding \ {q}
    BY <1>1 DEF Family!Holding, Family!NoRequest
<1>5. \A p \in Family!Holding' : req'[p] = req[p]
    BY <1>1, <1>4 DEF Family!Holding
<1>6. HoldingApart'
    BY <1>4, <1>5 DEF FInv, HoldingApart
<1>7. Family!JoinsBacked'
  <2>1. ASSUME NEW p \in Family!Holding \ {q} PROVE invite'[req[p].inv] # "cancelled"
    <3>1. req[p].inv # req[q].inv /\ invite[req[p].inv] # "cancelled"
        BY <1>0 DEF FInv, HoldingApart, Family!JoinsBacked
    <3> QED BY <3>1, <1>0 DEF Family!CommitAccept, FInv, FamilyTypes
  <2> QED BY <2>1, <1>4, <1>5 DEF FInv, Family!JoinsBacked, Family!CommitAccept
<1>8. badges \subseteq badges' /\ (req[q].badge = TRUE => badges' # {}) /\ aquarium' = aquarium
    BY DEF Family!CommitAccept
<1>9. BadgeComes'
    BY <1>1, <1>8 DEF FInv, BadgeComes, Family!NoRequest
<1>10. Family!FamilyFirst'
    BY <1>0, <1>8 DEF FInv, BadgeComes, Family!FamilyFirst
<1> QED BY <1>2, <1>3, <1>6, <1>7, <1>9, <1>10 DEF FInv

LEMMA FamilyStep == ASSUME FamilyConstants, FInv, [Family!Next]_familyVars PROVE FInv'
<1>1. CASE UNCHANGED familyVars
    BY <1>1 DEF familyVars, FInv, FamilyTypes, Fits, FitsIn, Counted, FreelyCounted, HoldingApart, Family!Holding, Family!JoinsBacked, BadgeComes, Family!FamilyFirst
<1>2. ASSUME NEW q \in Requests, Family!Break(q) PROVE FInv'
    BY <1>2, EndsStep DEF Family!Break, Alone
<1>3. CASE Family!Next
  <2>1. ASSUME NEW q \in Requests,
               \/ \E u \in People, i \in Invites : Family!Look(q, u, i)
               \/ Family!Count(q) \/ Family!FlushMember(q) \/ Family!ReadBadges(q) \/ Family!Unlock(q)
               \/ Family!CommitAccept(q) \/ Family!Break(q)
        PROVE  FInv'
      BY <2>1, <1>2, LookStep, CountStep, FlushStep, ReadBadgesStep, UnlockStep, CommitStep
  <2>2. ASSUME NEW u \in People, Family!EraseMember(u) PROVE FInv'
      BY <2>2, EraseMemberStep
  <2> QED BY <1>3, <2>1, <2>2, EraseOwnerStep, OwnerSteps DEF Family!Next
<1> QED BY <1>1, <1>3

\* For any number of people, invites and requests at once, a family is in
\* order: the premium plan's limit, and for those it let in the free plan's, is
\* exceeded only by requests that run at once, a membership rests on its
\* invite, account and aquarium (accept_invite, cancel_invite,
\* delete_user_data), and the first member brings the badge.
THEOREM FamilyInOrder == ServicesSpec => []FamilyInv
<1> DEFINE Held == component = "family" => FInv
<1>0. FamilyConstants
    BY ServicesAssumption DEF ServicesAssumption, FamilyConstants
<1>1. ServicesInit => Held
    BY <1>0, FamilyInit DEF ServicesInit
<1>2. Held /\ [ServicesNext]_servicesVars => Held'
  <2> SUFFICES ASSUME Held, [ServicesNext]_servicesVars, component' = "family" PROVE FInv'
      OBVIOUS
  <2>1. component = "family" /\ [Family!Next]_familyVars
      BY DEF ServicesNext, servicesVars, households
  <2> QED BY <2>1, <1>0, FamilyStep
<1>3. Held => FamilyInv
    BY <1>0, FamilyHolds DEF FamilyInv
<1> QED BY <1>1, <1>2, <1>3, PTL DEF ServicesSpec

-----------------------------------------------------------------------------
(* Feeding.                                                                *)

\* What ServicesAssumption says of the constants of Feeding.
FeedingConstants ==
    /\ TimeOf \in [Schedules -> Times] /\ Forms \in [Devices -> SUBSET {"good", "bad", "badid"}]
    /\ MaxMishaps \in Nat

FeedCalls ==
    [stage : {"idle", "handle", "answer", "aborted", "insert", "look", "commit"},
     sent : SUBSET Feeding!Rows, todo : SUBSET Feeding!Rows, buf : SUBSET Feeding!Rows, rows : SUBSET Feeding!Rows,
     dead : SUBSET Feeding!Rows, conflicts : SUBSET Feeding!Rows]

FeedTypes ==
    /\ schedules \in [Schedules -> {"none", "live", "gone"}] /\ time \in [Schedules -> Times]
    /\ logs \in [Schedules -> SUBSET Feeding!Rows] /\ deadLetters \subseteq Feeding!Rows
    /\ outbox \in [Devices -> SUBSET Feeding!Rows]
    /\ call \in [Devices -> FeedCalls] /\ cleared \subseteq Schedules /\ slips \in 0..MaxMishaps

\* A device keeps one log of a feeding; a log rests on its schedule.
OneLog == \A d \in Devices : \A a, b \in outbox[d] : a.kind = "log" /\ b.kind = "log" /\ a.s = b.s => a = b
LogsRest == \A s \in Schedules : Feeding!Logged(s) => Feeding!Live(s)

\* What has become of a change of a batch when it is answered, and before.
Answered(c, conflicts) ==
    \/ c.s \in cleared
    \/ IF c \in conflicts THEN Feeding!Logged(c.s)
       ELSE c \in deadLetters \/ IF c.kind = "log" THEN logs[c.s] = {c} ELSE Feeding!Live(c.s)
UnderWay(c, k) ==
    \/ c \in k.todo \cup k.buf \cup k.rows \cup k.dead \cup k.conflicts
    \/ c.kind = "schedule" /\ (Feeding!Live(c.s) \/ c.s \in cleared)

\* A request of device d is as it should be: everything it was sent is
\* accounted for, and the logs it has flushed have their schedules and keys.
Fine(d, k) ==
    /\ k.rows # {} => k.stage \in {"handle", "commit"}
    /\ k.buf # {} => k.stage \in {"handle", "insert", "look"}
    /\ k.stage \in {"handle", "answer"} => k.sent \subseteq outbox[d]
    /\ k.stage = "handle" => /\ k.todo \cup k.buf \cup k.rows \subseteq k.sent
                             /\ \A c \in k.sent : UnderWay(c, k)
                             /\ \A c \in k.conflicts : c.s \in cleared \/ Feeding!Logged(c.s)
    /\ k.stage = "answer" => \A c \in k.sent : Answered(c, k.conflicts)
    /\ \A r \in k.rows : r.kind = "log" =>
          /\ logs[r.s] = {}
          /\ Feeding!Live(r.s) \/ \E q \in k.rows : q.kind = "schedule" /\ q.s = r.s

\* No two transactions hold the key of one log.
Apart(k, l) == \A r \in k.rows, q \in l.rows : r.kind = "log" /\ q.kind = "log" => r.s # q.s

FeedInv ==
    /\ FeedTypes /\ OneLog /\ LogsRest
    /\ \A d \in Devices : Fine(d, call[d])
    /\ \A d, e \in Devices : d # e => Apart(call[d], call[e])

LEMMA FeedHolds == ASSUME FeedInv PROVE Feeding!FeedingInv
<1>1. Feeding!FeedingTypeOK
    BY DEF FeedInv, FeedTypes, LogsRest, Feeding!FeedingTypeOK
<1>2. Feeding!AnswersTrue
    BY DEF FeedInv, Fine, Answered, Feeding!AnswersTrue
<1> QED BY <1>1, <1>2 DEF Feeding!FeedingInv

LEMMA QuietIsFine ==
    /\ Feeding!Quiet \in FeedCalls /\ \A d : Fine(d, Feeding!Quiet)
    /\ \A k : Apart(k, Feeding!Quiet) /\ Apart(Feeding!Quiet, k)
BY DEF Feeding!Quiet, FeedCalls, Fine, Apart

LEMMA FeedInit == ASSUME FeedingConstants, Feeding!Init PROVE FeedInv
<1>1. FeedTypes
    BY QuietIsFine DEF Feeding!Init, FeedTypes, FeedingConstants
<1>2. OneLog /\ LogsRest
    BY DEF Feeding!Init, OneLog, LogsRest, Feeding!Logged
<1>3. \A d \in Devices : call[d] = Feeding!Quiet
    BY DEF Feeding!Init
<1> QED BY <1>1, <1>2, <1>3, QuietIsFine DEF FeedInv

-----------------------------------------------------------------------------
\* Steps that change requests only.

LEMMA FineKept ==
    ASSUME UNCHANGED <<schedules, logs, deadLetters, outbox, cleared>>
    PROVE  \A d, k : Fine(d, k)' <=> Fine(d, k)
BY DEF Fine, Answered, UnderWay, Feeding!Live, Feeding!Logged

LEMMA CallsOnly ==
    ASSUME FeedInv, UNCHANGED <<schedules, logs, deadLetters, outbox, cleared>>,
           time' \in [Schedules -> Times], slips' \in 0..MaxMishaps, call' \in [Devices -> FeedCalls],
           \A d \in Devices : Fine(d, call'[d]),
           \A d, e \in Devices : d # e => Apart(call'[d], call'[e])
    PROVE  FeedInv'
<1>1. FeedTypes' /\ OneLog' /\ LogsRest'
    BY DEF FeedInv, FeedTypes, OneLog, LogsRest, Feeding!Live, Feeding!Logged
<1>2. \A d \in Devices : Fine(d, call[d])'
  <2>1. \A d, k : Fine(d, k)' <=> Fine(d, k)
      BY FineKept
  <2> QED BY <2>1
<1>3. \A d, e \in Devices : d # e => Apart(call[d], call[e])'
    BY DEF Apart
<1> QED BY <1>1, <1>2, <1>3 DEF FeedInv

\* One request changes, and takes no key that another one has.
LEMMA OneCall ==
    ASSUME FeedInv, UNCHANGED <<schedules, time, logs, deadLetters, outbox, cleared>>, slips' \in 0..MaxMishaps,
           NEW d \in Devices, NEW k \in FeedCalls, call' = [call EXCEPT ![d] = k], Fine(d, k),
           \A e \in Devices \ {d} : Apart(k, call[e])
    PROVE  FeedInv'
<1>1. call' \in [Devices -> FeedCalls] /\ call'[d] = k /\ \A e \in Devices \ {d} : call'[e] = call[e]
    BY DEF FeedInv, FeedTypes
<1>2. \A e \in Devices : Fine(e, call'[e])
    BY <1>1 DEF FeedInv
<1>3. \A e \in Devices \ {d} : Apart(call[e], k)
    BY DEF Apart
<1>4. \A e, f \in Devices : e # f => Apart(call'[e], call'[f])
    BY <1>1, <1>3 DEF FeedInv
<1>5. time' \in [Schedules -> Times]
    BY DEF FeedInv, FeedTypes
<1> QED BY <1>1, <1>2, <1>4, <1>5, CallsOnly

LEMMA EndsFeed ==
    ASSUME FeedInv, NEW d \in Devices, Feeding!Ends(d), UNCHANGED <<schedules, time, logs, deadLetters, outbox, cleared>>,
           slips' \in 0..MaxMishaps
    PROVE  FeedInv'
BY QuietIsFine, OneCall DEF Feeding!Ends

\* A request begins with what the device sends, and no rows of its own.
LEMMA FeedBegins ==
    ASSUME FeedInv, NEW d \in Devices,
           \/ Feeding!BeginSync(d) \/ Feeding!BeginGenerate(d)
           \/ \E s \in Schedules : Feeding!BeginLog(d, s) \/ Feeding!CreateSchedule(d, s)
    PROVE  FeedInv'
<1>1. UNCHANGED <<schedules, time, logs, deadLetters, outbox, cleared>> /\ slips' \in 0..MaxMishaps
    BY DEF Feeding!BeginSync, Feeding!BeginGenerate, Feeding!BeginLog, Feeding!CreateSchedule, FeedInv, FeedTypes
<1>2. CASE Feeding!BeginSync(d)
  <2> DEFINE sent == Feeding!Parsed(outbox[d])
             k == [Feeding!Quiet EXCEPT !.stage = "handle", !.sent = sent, !.todo = sent]
  <2>1. sent \subseteq outbox[d] /\ outbox[d] \subseteq Feeding!Rows
      BY DEF Feeding!Parsed, FeedInv, FeedTypes
  <2>2. call' = [call EXCEPT ![d] = k]
      BY <1>2 DEF Feeding!BeginSync
  <2> HIDE DEF sent
  <2>3. k \in FeedCalls /\ k.stage = "handle" /\ k.sent = sent /\ k.todo = sent /\ k.buf = {} /\ k.rows = {} /\ k.conflicts = {}
      BY <2>1 DEF FeedCalls, Feeding!Quiet
  <2> HIDE DEF k
  <2>4. Fine(d, k)
      BY <2>1, <2>3 DEF Fine, UnderWay
  <2>5. \A e : Apart(k, call[e])
      BY <2>3 DEF Apart
  <2> QED BY <1>1, <2>2, <2>3, <2>4, <2>5, OneCall
<1>3. ASSUME NEW new \in SUBSET Feeding!Rows, call' = [call EXCEPT ![d] = [Feeding!Quiet EXCEPT !.stage = "insert", !.buf = new]]
      PROVE  FeedInv'
  <2> DEFINE k == [Feeding!Quiet EXCEPT !.stage = "insert", !.buf = new]
  <2>1. k \in FeedCalls /\ k.stage = "insert" /\ k.rows = {}
      BY DEF FeedCalls, Feeding!Quiet
  <2>2. call' = [call EXCEPT ![d] = k]
      BY <1>3
  <2> HIDE DEF k
  <2>3. Fine(d, k)
      BY <2>1 DEF Fine
  <2>4. \A e : Apart(k, call[e])
      BY <2>1 DEF Apart
  <2> QED BY <1>1, <2>1, <2>2, <2>3, <2>4, OneCall
<1>4. \A kind \in {"log", "schedule"}, s \in Schedules : Feeding!Row(kind, s, d, "online") \in Feeding!Rows
    BY DEF Feeding!Row, Feeding!Rows
<1>5. ASSUME NEW s \in Schedules, Feeding!BeginLog(d, s) \/ Feeding!CreateSchedule(d, s) PROVE FeedInv'
  <2>1. PICK kind \in {"log", "schedule"} :
           call' = [call EXCEPT ![d] = [Feeding!Quiet EXCEPT !.stage = "insert", !.buf = {Feeding!Row(kind, s, d, "online")}]]
      BY <1>5 DEF Feeding!BeginLog, Feeding!CreateSchedule
  <2>2. {Feeding!Row(kind, s, d, "online")} \in SUBSET Feeding!Rows
      BY <1>4
  <2> QED BY <1>3, <2>1, <2>2
<1>6. CASE Feeding!BeginGenerate(d)
  <2>1. PICK new \in SUBSET Schedules :
           call' = [call EXCEPT ![d] = [Feeding!Quiet EXCEPT !.stage = "insert", !.buf = {Feeding!Row("schedule", s, d, "online") : s \in new}]]
      BY <1>6 DEF Feeding!BeginGenerate
  <2>2. {Feeding!Row("schedule", s, d, "online") : s \in new} \subseteq Feeding!Rows
      BY <1>4
  <2> QED BY <1>3, <2>1, <2>2
<1> QED BY <1>2, <1>5, <1>6

\* One change: a conflict with a feeding that is logged, a schedule that is
\* there, a dead letter, or a row to insert.
LEMMA HandleFeed == ASSUME FeedInv, NEW d \in Devices, NEW c \in outbox[d], Feeding!Handle(d, c) PROVE FeedInv'
<1>1. UNCHANGED <<schedules, time, logs, deadLetters, outbox, cleared>> /\ slips' \in 0..MaxMishaps
    BY DEF Feeding!Handle, FeedInv, FeedTypes
<1>2. PICK k : k = call[d]
    OBVIOUS
<1>3. /\ k \in FeedCalls /\ Fine(d, k) /\ k.stage = "handle" /\ k.buf = {} /\ c \in k.todo
      /\ c \in Feeding!Rows /\ \A e \in Devices \ {d} : Apart(k, call[e])
    BY <1>2 DEF FeedInv, FeedTypes, Feeding!Handle, Feeding!NextUp
<1> DEFINE rest == [call[d] EXCEPT !.todo = @ \ {c}]
<1>4. PICK n : n = IF Feeding!Duplicate(c) THEN [rest EXCEPT !.conflicts = @ \cup {c}]
                   ELSE IF c.kind = "schedule" /\ Feeding!Live(c.s) THEN rest
                   ELSE IF c.form = "bad" THEN [rest EXCEPT !.dead = @ \cup {c}]
                   ELSE [rest EXCEPT !.buf = {c}]
    OBVIOUS
<1>5. call' = [call EXCEPT ![d] = n]
  <2>1. call' = [call EXCEPT ![d] = IF Feeding!Duplicate(c) THEN [rest EXCEPT !.conflicts = @ \cup {c}]
                   ELSE IF c.kind = "schedule" /\ Feeding!Live(c.s) THEN rest
                   ELSE IF c.form = "bad" THEN [rest EXCEPT !.dead = @ \cup {c}]
                   ELSE [rest EXCEPT !.buf = {c}]]
      BY Zenon DEF Feeding!Handle, Feeding!DeadLetter
  <2> QED BY <1>4, <2>1
<1>d. rest = [k EXCEPT !.todo = k.todo \ {c}]
    BY <1>2
<1>6. /\ n \in FeedCalls /\ n.stage = "handle" /\ n.sent = k.sent /\ n.todo = k.todo \ {c} /\ n.rows = k.rows
      /\ n.buf \subseteq {c} /\ k.dead \subseteq n.dead /\ k.conflicts \subseteq n.conflicts
  <2>1. PICK q : q = rest
      OBVIOUS
  <2>2. /\ q \in FeedCalls /\ q.stage = "handle" /\ q.sent = k.sent /\ q.todo = k.todo \ {c} /\ q.rows = k.rows
        /\ q.buf = {} /\ q.dead = k.dead /\ q.conflicts = k.conflicts
      BY <1>3, <1>d, <2>1 DEF FeedCalls
  <2>3. n = q \/ n = [q EXCEPT !.conflicts = @ \cup {c}] \/ n = [q EXCEPT !.dead = @ \cup {c}] \/ n = [q EXCEPT !.buf = {c}]
      BY <1>4, <2>1
  <2>4. c \in Feeding!Rows
      BY <1>3
  <2> HIDE DEF rest
  <2>5. CASE n = q
      BY <2>2, <2>5
  <2>6. CASE n = [q EXCEPT !.conflicts = @ \cup {c}]
      BY <2>2, <2>4, <2>6 DEF FeedCalls
  <2>7. CASE n = [q EXCEPT !.dead = @ \cup {c}]
      BY <2>2, <2>4, <2>7 DEF FeedCalls
  <2>8. CASE n = [q EXCEPT !.buf = {c}]
      BY <2>2, <2>4, <2>8 DEF FeedCalls
  <2> QED BY <2>3, <2>5, <2>6, <2>7, <2>8
<1>7. n.conflicts = k.conflicts \/ (n.conflicts = k.conflicts \cup {c} /\ Feeding!Duplicate(c))
    BY <1>3, <1>4, <1>d DEF FeedCalls
<1>8. c \in n.buf \cup n.dead \cup n.conflicts \/ (c.kind = "schedule" /\ Feeding!Live(c.s))
    BY <1>3, <1>4, <1>d DEF FeedCalls
<1>9. Fine(d, n)
  <2>1. \A b \in n.sent : UnderWay(b, n)
      BY <1>3, <1>6, <1>8 DEF Fine, UnderWay
  <2>2. \A b \in n.conflicts : b.s \in cleared \/ Feeding!Logged(b.s)
      BY <1>3, <1>7 DEF Fine, Feeding!Duplicate
  <2> QED BY <1>3, <1>6, <2>1, <2>2 DEF Fine
<1>10. \A e \in Devices \ {d} : Apart(n, call[e])
    BY <1>3, <1>6 DEF Apart
<1> QED BY <1>1, <1>5, <1>6, <1>9, <1>10, OneCall

\* What a flush leaves is fine, and holds no more keys than it waited for.
LEMMA FlushedIsFine ==
    ASSUME FeedInv, NEW d \in Devices, call[d].stage \in {"handle", "insert"}
    PROVE  /\ Feeding!Flushed(d) \in FeedCalls /\ Fine(d, Feeding!Flushed(d))
           /\ Feeding!Flushed(d).rows \subseteq call[d].rows \cup call[d].buf
<1>1. PICK k : k = call[d]
    OBVIOUS
<1>2. k \in FeedCalls /\ Fine(d, k) /\ k.stage \in {"handle", "insert"}
    BY <1>1 DEF FeedInv, FeedTypes
<1>3. CASE k.stage = "handle" /\ \A r \in k.buf : Feeding!Accepted(d, r)
  <2> DEFINE n == [k EXCEPT !.rows = k.rows \cup k.buf, !.buf = {}]
  <2>1. Feeding!Flushed(d) = n
      BY <1>1, <1>2, <1>3 DEF Feeding!Flushed, FeedCalls
  <2>2. /\ n \in FeedCalls /\ n.stage = "handle" /\ n.sent = k.sent /\ n.todo = k.todo /\ n.rows = k.rows \cup k.buf
        /\ n.buf = {} /\ n.dead = k.dead /\ n.conflicts = k.conflicts
      BY <1>2, <1>3 DEF FeedCalls
  <2> HIDE DEF n
  <2>3. \A c \in n.sent : UnderWay(c, n)
      BY <1>2, <1>3, <2>2 DEF Fine, UnderWay
  <2>4. \A r \in n.rows : r.kind = "log" => logs[r.s] = {} /\ (Feeding!Live(r.s) \/ \E q \in n.rows : q.kind = "schedule" /\ q.s = r.s)
      BY <1>1, <1>2, <1>3, <2>2 DEF Fine, Feeding!Accepted, Feeding!Logged
  <2>5. Fine(d, n)
      BY <1>2, <1>3, <2>2, <2>3, <2>4 DEF Fine
  <2> QED BY <1>1, <2>1, <2>2, <2>5
<1>4. CASE k.stage = "insert" /\ \A r \in k.buf : Feeding!Accepted(d, r)
  <2> DEFINE n == [k EXCEPT !.rows = k.buf, !.buf = {}, !.stage = "commit"]
  <2>1. Feeding!Flushed(d) = n
      BY <1>1, <1>2, <1>4 DEF Feeding!Flushed, FeedCalls
  <2>2. n \in FeedCalls /\ n.stage = "commit" /\ n.rows = k.buf /\ n.buf = {}
      BY <1>2, <1>4 DEF FeedCalls
  <2> HIDE DEF n
  <2>3. k.rows = {}
      BY <1>2, <1>4 DEF Fine
  <2>4. \A r \in n.rows : r.kind = "log" => logs[r.s] = {} /\ Feeding!Live(r.s)
      BY <1>1, <1>4, <2>2, <2>3 DEF Feeding!Accepted, Feeding!Logged
  <2>5. Fine(d, n)
      BY <2>2, <2>4 DEF Fine
  <2> QED BY <1>1, <2>1, <2>2, <2>5
<1>5. CASE ~\A r \in k.buf : Feeding!Accepted(d, r)
  <2>1. \/ Feeding!Flushed(d) = [Feeding!Quiet EXCEPT !.stage = "aborted"]
        \/ Feeding!Flushed(d) = [k EXCEPT !.stage = "look"] /\ k.stage = "insert"
        \/ Feeding!Flushed(d) = Feeding!Quiet
      BY <1>1, <1>2, <1>5 DEF Feeding!Flushed
  <2>2. CASE Feeding!Flushed(d) = [Feeding!Quiet EXCEPT !.stage = "aborted"]
    <3> DEFINE n == [Feeding!Quiet EXCEPT !.stage = "aborted"]
    <3>1. n \in FeedCalls /\ n.stage = "aborted" /\ n.rows = {} /\ n.buf = {}
        BY DEF Feeding!Quiet, FeedCalls
    <3> HIDE DEF n
    <3>2. Fine(d, n)
        BY <3>1 DEF Fine
    <3> QED BY <2>2, <3>1, <3>2 DEF n
  <2>3. CASE Feeding!Flushed(d) = [k EXCEPT !.stage = "look"] /\ k.stage = "insert"
    <3> DEFINE n == [k EXCEPT !.stage = "look"]
    <3>1. n \in FeedCalls /\ n.stage = "look" /\ n.rows = k.rows
        BY <1>2 DEF FeedCalls
    <3> HIDE DEF n
    <3>2. k.rows = {}
        BY <1>2, <2>3 DEF Fine
    <3>3. Fine(d, n)
        BY <3>1, <3>2 DEF Fine
    <3> QED BY <2>3, <3>1, <3>2, <3>3 DEF n
  <2>4. CASE Feeding!Flushed(d) = Feeding!Quiet
    <3>1. Feeding!Quiet.rows = {}
        BY DEF Feeding!Quiet
    <3> QED BY <2>4, <3>1, QuietIsFine
  <2> QED BY <2>1, <2>2, <2>3, <2>4
<1> QED BY <1>2, <1>3, <1>4, <1>5

\* A flush that waits for nobody meets no key of another transaction.
LEMMA NoWaitApart ==
    ASSUME FeedInv, NEW d \in Devices, NEW e \in Devices, d # e, ~Feeding!WaitsFor(d, e),
           NEW k, k.rows \subseteq call[d].rows \cup call[d].buf
    PROVE  Apart(k, call[e])
<1>1. Apart(call[d], call[e])
    BY DEF FeedInv
<1> QED BY <1>1 DEF Apart, Feeding!WaitsFor, Feeding!SameKey

LEMMA FlushFeed == ASSUME FeedInv, NEW d \in Devices, Feeding!Flush(d) \/ Feeding!Insert(d) PROVE FeedInv'
<1>1. UNCHANGED <<schedules, time, logs, deadLetters, outbox, cleared>> /\ slips' \in 0..MaxMishaps
    BY DEF Feeding!Flush, Feeding!Insert, FeedInv, FeedTypes
<1>2. call[d].stage \in {"handle", "insert"} /\ (\A e \in Devices : ~Feeding!WaitsFor(d, e))
      /\ call' = [call EXCEPT ![d] = Feeding!Flushed(d)]
    BY DEF Feeding!Flush, Feeding!Insert
<1>3. /\ Feeding!Flushed(d) \in FeedCalls /\ Fine(d, Feeding!Flushed(d))
      /\ Feeding!Flushed(d).rows \subseteq call[d].rows \cup call[d].buf
    BY <1>2, FlushedIsFine
<1>4. \A e \in Devices \ {d} : Apart(Feeding!Flushed(d), call[e])
    BY <1>2, <1>3, NoWaitApart
<1> QED BY <1>1, <1>2, <1>3, <1>4, OneCall

\* Two requests that wait for each other both have rows already.
LEMMA DeadlockFeed == ASSUME FeedInv, NEW d \in Devices, Feeding!DeadlockVictim(d) PROVE FeedInv'
<1>1. UNCHANGED <<schedules, time, logs, deadLetters, outbox, cleared>> /\ slips' \in 0..MaxMishaps /\ time' \in [Schedules -> Times]
    BY DEF Feeding!DeadlockVictim, FeedInv, FeedTypes
<1>2. PICK e \in Devices : /\ Feeding!WaitsFor(d, e) /\ Feeding!WaitsFor(e, d) /\ \A f \in Devices \ {d} : ~Feeding!WaitsFor(e, f)
                           /\ call' = [call EXCEPT ![d] = Feeding!Quiet, ![e] = Feeding!Flushed(e)]
    BY DEF Feeding!DeadlockVictim
<1>3. d # e /\ call[e].rows # {} /\ call[e].buf # {}
    BY <1>2 DEF Feeding!WaitsFor
<1>4. call[e].stage = "handle"
    BY <1>3 DEF FeedInv, Fine
<1>5. /\ Feeding!Flushed(e) \in FeedCalls /\ Fine(e, Feeding!Flushed(e))
      /\ Feeding!Flushed(e).rows \subseteq call[e].rows \cup call[e].buf
    BY <1>4, FlushedIsFine
<1>6. /\ call' \in [Devices -> FeedCalls] /\ call'[d] = Feeding!Quiet /\ call'[e] = Feeding!Flushed(e)
      /\ \A f \in Devices \ {d, e} : call'[f] = call[f]
    BY <1>2, <1>3, <1>5, QuietIsFine DEF FeedInv, FeedTypes
<1>7. \A f \in Devices : Fine(f, call'[f])
    BY <1>5, <1>6, QuietIsFine DEF FeedInv
<1>8. \A f \in Devices \ {d, e} : Apart(call'[e], call'[f]) /\ Apart(call'[f], call'[e])
  <2>1. \A f \in Devices \ {d, e} : Apart(Feeding!Flushed(e), call[f])
      BY <1>2, <1>5, NoWaitApart
  <2> QED BY <1>6, <2>1 DEF Apart
<1>9. \A f, g \in Devices : f # g => Apart(call'[f], call'[g])
    BY <1>6, <1>8, QuietIsFine DEF FeedInv
<1> QED BY <1>1, <1>6, <1>7, <1>9, CallsOnly

-----------------------------------------------------------------------------
\* Steps that commit.

\* What a commit adds spares the logs that are there, and the keys that other
\* transactions hold.
LEMMA CommitAdds ==
    ASSUME FeedInv, NEW d \in Devices, NEW dead, Feeding!Committed(call[d].rows, dead), dead \subseteq Feeding!Rows
    PROVE  /\ schedules' \in [Schedules -> {"none", "live", "gone"}] /\ logs' \in [Schedules -> SUBSET Feeding!Rows]
           /\ deadLetters' \subseteq Feeding!Rows /\ deadLetters \cup dead \subseteq deadLetters'
           /\ \A s \in Schedules : Feeding!Live(s) => Feeding!Live(s)'
           /\ \A s \in Schedules : logs[s] # {} => logs'[s] = logs[s]
           /\ \A r \in call[d].rows : r.kind = "schedule" => Feeding!Live(r.s)'
           /\ \A r \in call[d].rows : r.kind = "log" => logs'[r.s] = {q \in call[d].rows : q.kind = "log" /\ q.s = r.s}
           /\ \A s \in Schedules : logs[s] = {} /\ (\A r \in call[d].rows : r.kind = "log" => r.s # s) => logs'[s] = {}
           /\ LogsRest'
<1>1. PICK k : k = call[d]
    OBVIOUS
<1>2. k \in FeedCalls /\ Fine(d, k) /\ \A r \in k.rows : r \in Feeding!Rows /\ r.s \in Schedules
    BY <1>1 DEF FeedInv, FeedTypes, FeedCalls, Feeding!Rows
<1>3. /\ schedules' = [s \in Schedules |-> IF \E r \in k.rows : r.kind = "schedule" /\ r.s = s THEN "live" ELSE schedules[s]]
      /\ deadLetters' = deadLetters \cup dead
      /\ logs' = [s \in Schedules |-> IF {r \in k.rows : r.kind = "log" /\ r.s = s} = {} THEN logs[s]
                                      ELSE {r \in k.rows : r.kind = "log" /\ r.s = s}]
    BY <1>1 DEF Feeding!Committed
<1>4. schedules' \in [Schedules -> {"none", "live", "gone"}] /\ \A s \in Schedules : Feeding!Live(s) => Feeding!Live(s)'
    BY <1>3 DEF FeedInv, FeedTypes, Feeding!Live
<1>5. \A r \in k.rows : r.kind = "schedule" => Feeding!Live(r.s)'
    BY <1>2, <1>3 DEF Feeding!Live
<1>6. logs' \in [Schedules -> SUBSET Feeding!Rows]
    BY <1>2, <1>3 DEF FeedInv, FeedTypes
<1>7. \A r \in k.rows : r.kind = "log" => logs'[r.s] = {q \in k.rows : q.kind = "log" /\ q.s = r.s} /\ logs[r.s] = {}
    BY <1>2, <1>3 DEF Fine
<1>8. \A s \in Schedules : (\A r \in k.rows : r.kind = "log" => r.s # s) => logs'[s] = logs[s]
    BY <1>3
<1>9. \A s \in Schedules : logs[s] # {} => logs'[s] = logs[s]
    BY <1>7, <1>8
<1>10. LogsRest'
  <2> SUFFICES ASSUME NEW s \in Schedules, logs'[s] # {} PROVE Feeding!Live(s)'
      BY DEF LogsRest, Feeding!Logged
  <2>1. CASE \E r \in k.rows : r.kind = "log" /\ r.s = s
    <3>1. Feeding!Live(s) \/ \E q \in k.rows : q.kind = "schedule" /\ q.s = s
        BY <1>2, <2>1 DEF Fine
    <3> QED BY <1>4, <1>5, <3>1
  <2>2. CASE ~\E r \in k.rows : r.kind = "log" /\ r.s = s
      BY <1>4, <1>8, <2>2 DEF FeedInv, LogsRest, Feeding!Logged
  <2> QED BY <2>1, <2>2
<1> QED BY <1>1, <1>3, <1>4, <1>5, <1>6, <1>7, <1>8, <1>9, <1>10 DEF FeedInv, FeedTypes

\* Whatever was promised to other devices still holds.
LEMMA OthersFine ==
    ASSUME FeedInv, NEW d \in Devices, NEW dead, Feeding!Committed(call[d].rows, dead), dead \subseteq Feeding!Rows,
           UNCHANGED <<outbox, cleared>>, NEW e \in Devices \ {d}, NEW k, k = call[e]
    PROVE  Fine(e, k)'
<1>1. /\ deadLetters \subseteq deadLetters'
      /\ \A s \in Schedules : Feeding!Live(s) => Feeding!Live(s)'
      /\ \A s \in Schedules : logs[s] # {} => logs'[s] = logs[s]
      /\ \A s \in Schedules : logs[s] = {} /\ (\A r \in call[d].rows : r.kind = "log" => r.s # s) => logs'[s] = {}
    BY CommitAdds
<1>2. /\ k \in FeedCalls /\ Fine(e, k) /\ Apart(call[d], k)
    BY DEF FeedInv, FeedTypes
<1>3. \A r \in k.rows \cup k.conflicts \cup k.sent : r \in Feeding!Rows /\ r.s \in Schedules
    BY <1>2 DEF FeedCalls, Feeding!Rows
<1>4. \A r \in k.rows : r.kind = "log" =>
         logs'[r.s] = {} /\ (Feeding!Live(r.s)' \/ \E q \in k.rows : q.kind = "schedule" /\ q.s = r.s)
    BY <1>1, <1>2, <1>3 DEF Fine, Apart
<1>5. \A c \in k.sent : UnderWay(c, k) => UnderWay(c, k)'
    BY <1>1, <1>3 DEF UnderWay
<1>6. \A c \in k.conflicts : c.s \in cleared \/ Feeding!Logged(c.s) => c.s \in cleared' \/ Feeding!Logged(c.s)'
    BY <1>1, <1>3 DEF Feeding!Logged
<1>7. \A c \in k.sent : Answered(c, k.conflicts) => Answered(c, k.conflicts)'
    BY <1>1, <1>3 DEF Answered, Feeding!Logged
<1> QED BY <1>2, <1>4, <1>5, <1>6, <1>7 DEF Fine

LEMMA CommitKeeps ==
    ASSUME FeedInv, NEW d \in Devices, NEW dead, Feeding!Committed(call[d].rows, dead), dead \subseteq Feeding!Rows,
           UNCHANGED <<time, outbox, cleared, slips>>,
           NEW n \in FeedCalls, call' = [call EXCEPT ![d] = n], n.rows = {}, Fine(d, n)'
    PROVE  FeedInv'
<1>1. call' \in [Devices -> FeedCalls] /\ call'[d] = n /\ \A e \in Devices \ {d} : call'[e] = call[e]
    BY DEF FeedInv, FeedTypes
<1>2. FeedTypes' /\ OneLog' /\ LogsRest'
    BY <1>1, CommitAdds DEF FeedInv, FeedTypes, OneLog
<1>3. ASSUME NEW e \in Devices \ {d} PROVE Fine(e, call[e])'
  <2>1. PICK k : k = call[e]
      OBVIOUS
  <2>2. Fine(e, k)'
      BY <2>1, OthersFine
  <2> QED BY <1>1, <2>1, <2>2
<1>4. Fine(d, call[d])'
    BY <1>1
<1>5. \A e, f \in Devices : e # f => Apart(call'[e], call'[f])
    BY <1>1 DEF FeedInv, Apart
<1>6. \A e, f \in Devices : e # f => Apart(call[e], call[f])'
    BY <1>5 DEF Apart
<1> QED BY <1>2, <1>3, <1>4, <1>6 DEF FeedInv

LEMMA CommitRESTFeed == ASSUME FeedInv, NEW d \in Devices, Feeding!CommitREST(d) PROVE FeedInv'
<1>1. Feeding!Committed(call[d].rows, {}) /\ UNCHANGED <<time, outbox, cleared, slips>> /\ call' = [call EXCEPT ![d] = Feeding!Quiet]
    BY DEF Feeding!CommitREST, Feeding!Ends
<1>2. Feeding!Quiet.rows = {} /\ Feeding!Quiet \in FeedCalls /\ Fine(d, Feeding!Quiet)'
    BY DEF Feeding!Quiet, FeedCalls, Fine
<1> QED BY <1>1, <1>2, CommitKeeps

\* What the batch was sent is stored, kept as a dead letter, or a conflict.
LEMMA CommitSyncFeed == ASSUME FeedInv, NEW d \in Devices, Feeding!CommitSync(d) PROVE FeedInv'
<1>1. PICK k : k = call[d]
    OBVIOUS
<1>2. /\ k \in FeedCalls /\ Fine(d, k) /\ k.stage = "handle" /\ k.todo = {} /\ k.buf = {}
      /\ \A c \in k.sent : c.s \in Schedules
    BY <1>1 DEF FeedInv, FeedTypes, Feeding!CommitSync, FeedCalls, Feeding!Rows
<1>3. Feeding!Committed(call[d].rows, k.dead) /\ UNCHANGED <<time, outbox, cleared, slips>> /\ k.dead \subseteq Feeding!Rows
    BY <1>1, <1>2 DEF Feeding!CommitSync, FeedCalls
<1> DEFINE n == [k EXCEPT !.stage = "answer", !.rows = {}]
<1>4. call' = [call EXCEPT ![d] = n]
    BY <1>1 DEF Feeding!CommitSync, FeedInv, FeedTypes
<1>5. n \in FeedCalls /\ n.stage = "answer" /\ n.rows = {} /\ n.buf = {} /\ n.sent = k.sent /\ n.conflicts = k.conflicts
    BY <1>2 DEF FeedCalls
<1> HIDE DEF n
<1>6. /\ k.dead \subseteq deadLetters'
      /\ \A s \in Schedules : Feeding!Live(s) => Feeding!Live(s)'
      /\ \A s \in Schedules : logs[s] # {} => logs'[s] = logs[s]
      /\ \A r \in k.rows : r.kind = "schedule" => Feeding!Live(r.s)'
      /\ \A r \in k.rows : r.kind = "log" => logs'[r.s] = {q \in k.rows : q.kind = "log" /\ q.s = r.s}
  <2>1. /\ deadLetters \cup k.dead \subseteq deadLetters'
        /\ \A r \in call[d].rows : r.kind = "schedule" => Feeding!Live(r.s)'
        /\ \A r \in call[d].rows : r.kind = "log" => logs'[r.s] = {q \in call[d].rows : q.kind = "log" /\ q.s = r.s}
        /\ \A s \in Schedules : Feeding!Live(s) => Feeding!Live(s)'
        /\ \A s \in Schedules : logs[s] # {} => logs'[s] = logs[s]
      BY <1>3, CommitAdds, ZenonT(60)
  <2> QED BY <1>1, <2>1
<1>7. ASSUME NEW c \in k.sent PROVE Answered(c, k.conflicts)'
  <2>1. c \in Feeding!Rows /\ c.kind \in {"log", "schedule"} /\ c.s \in Schedules
      BY <1>2 DEF FeedCalls, Feeding!Rows
  <2>2. CASE c \in k.conflicts
      BY <1>2, <1>3, <1>6, <2>1, <2>2 DEF Fine, Answered, Feeding!Logged
  <2>3. CASE c \in k.rows /\ c.kind = "log" /\ c \notin k.conflicts
    <3>1. \A q \in k.rows : q.kind = "log" /\ q.s = c.s => q = c
        BY <1>2, <2>3 DEF Fine, FeedInv, OneLog
    <3>2. logs'[c.s] = {c}
        BY <1>6, <2>3, <3>1
    <3> QED BY <2>3, <3>2 DEF Answered
  <2>4. CASE c \in k.rows /\ c.kind = "schedule" /\ c \notin k.conflicts
      BY <1>6, <2>4 DEF Answered
  <2>5. CASE c \in k.dead /\ c \notin k.conflicts
      BY <1>6, <2>5 DEF Answered
  <2>6. CASE c.kind = "schedule" /\ (Feeding!Live(c.s) \/ c.s \in cleared) /\ c \notin k.conflicts
      BY <1>3, <1>6, <2>1, <2>6 DEF Answered
  <2>7. UnderWay(c, k)
      BY <1>2 DEF Fine
  <2> QED BY <1>2, <2>1, <2>2, <2>3, <2>4, <2>5, <2>6, <2>7 DEF UnderWay
<1>8. Fine(d, n)'
    BY <1>2, <1>3, <1>5, <1>7 DEF Fine
<1> QED BY <1>3, <1>4, <1>5, <1>8, CommitKeeps

\* A schedule goes, and its log with it, while no transaction holds the log.
LEMMA DeleteFeed == ASSUME FeedInv, NEW s \in Schedules, Feeding!DeleteSchedule(s) PROVE FeedInv'
<1>1. /\ schedules' = [schedules EXCEPT ![s] = "gone"] /\ logs' = [logs EXCEPT ![s] = {}] /\ cleared' = cleared \cup {s}
      /\ UNCHANGED <<time, deadLetters, outbox, call, slips>>
      /\ \A d \in Devices : \A r \in call[d].rows : r.kind = "log" => r.s # s
    BY DEF Feeding!DeleteSchedule
<1>2. FeedTypes' /\ OneLog'
    BY <1>1 DEF FeedInv, FeedTypes, OneLog
<1>3. \A t \in Schedules \ {s} : logs'[t] = logs[t] /\ (Feeding!Live(t)' <=> Feeding!Live(t))
    BY <1>1 DEF FeedInv, FeedTypes, Feeding!Live
<1>4. logs'[s] = {} /\ s \in cleared' /\ cleared \subseteq cleared'
    BY <1>1 DEF FeedInv, FeedTypes
<1>5. LogsRest'
    BY <1>3, <1>4 DEF FeedInv, LogsRest, Feeding!Logged
<1>6. ASSUME NEW d \in Devices, NEW k, k = call[d] PROVE Fine(d, k)'
  <2>1. k \in FeedCalls /\ Fine(d, k)
      BY <1>6 DEF FeedInv, FeedTypes
  <2>2. \A r \in k.rows \cup k.conflicts \cup k.sent : r \in Feeding!Rows /\ r.s \in Schedules
      BY <2>1 DEF FeedCalls, Feeding!Rows
  <2>3. \A r \in k.rows : r.kind = "log" =>
           logs'[r.s] = {} /\ (Feeding!Live(r.s)' \/ \E q \in k.rows : q.kind = "schedule" /\ q.s = r.s)
      BY <1>1, <1>3, <1>6, <2>1, <2>2 DEF Fine
  <2>4. \A c \in k.sent : UnderWay(c, k) => UnderWay(c, k)'
      BY <1>3, <1>4, <2>2 DEF UnderWay
  <2>5. \A c \in k.conflicts : c.s \in cleared \/ Feeding!Logged(c.s) => c.s \in cleared' \/ Feeding!Logged(c.s)'
      BY <1>3, <1>4, <2>2 DEF Feeding!Logged
  <2>6. \A c \in k.sent : Answered(c, k.conflicts) => Answered(c, k.conflicts)'
      BY <1>1, <1>3, <1>4, <2>2 DEF Answered, Feeding!Logged
  <2> QED BY <1>1, <2>1, <2>3, <2>4, <2>5, <2>6 DEF Fine
<1>7. ASSUME NEW d \in Devices PROVE Fine(d, call[d])'
  <2>1. PICK k : k = call[d]
      OBVIOUS
  <2>2. Fine(d, k)'
      BY <1>6, <2>1
  <2> QED BY <1>1, <2>1, <2>2
<1>8. \A d, e \in Devices : d # e => Apart(call[d], call[e])'
    BY <1>1 DEF FeedInv, Apart
<1> QED BY <1>2, <1>5, <1>7, <1>8 DEF FeedInv

-----------------------------------------------------------------------------
\* Steps of the outbox.

LEMMA OutboxGrows ==
    ASSUME FeedInv, NEW d \in Devices, NEW r \in Feeding!Rows, outbox' = [outbox EXCEPT ![d] = @ \cup {r}],
           r.kind = "log" => ~\E c \in outbox[d] : c.kind = "log" /\ c.s = r.s,
           UNCHANGED <<schedules, time, logs, deadLetters, call, cleared, slips>>
    PROVE  FeedInv'
<1>1. /\ outbox' \in [Devices -> SUBSET Feeding!Rows] /\ outbox'[d] = outbox[d] \cup {r}
      /\ \A e \in Devices \ {d} : outbox'[e] = outbox[e]
    BY DEF FeedInv, FeedTypes
<1>2. FeedTypes' /\ LogsRest'
    BY <1>1 DEF FeedInv, FeedTypes, LogsRest, Feeding!Live, Feeding!Logged
<1>3. OneLog'
    BY <1>1 DEF FeedInv, OneLog
<1>4. ASSUME NEW e \in Devices PROVE Fine(e, call[e])'
  <2>1. outbox[e] \subseteq outbox'[e] /\ Fine(e, call[e])
      BY <1>1 DEF FeedInv
  <2> QED BY <2>1 DEF Fine, Answered, UnderWay, Feeding!Live, Feeding!Logged
<1>5. \A e, f \in Devices : e # f => Apart(call[e], call[f])'
    BY DEF FeedInv, Apart
<1> QED BY <1>2, <1>3, <1>4, <1>5 DEF FeedInv

LEMMA OfflineFeed ==
    ASSUME FeedingConstants, FeedInv, NEW d \in Devices, NEW s \in Schedules,
           Feeding!PlanSchedule(d, s) \/ \E form \in Forms[d] : Feeding!RecordLog(d, s, form)
    PROVE  FeedInv'
<1>1. CASE Feeding!PlanSchedule(d, s)
  <2>1. Feeding!Row("schedule", s, d, "good") \in Feeding!Rows /\ Feeding!Row("schedule", s, d, "good").kind = "schedule"
      BY DEF Feeding!Row, Feeding!Rows
  <2> QED BY <1>1, <2>1, OutboxGrows DEF Feeding!PlanSchedule
<1>2. ASSUME NEW form \in Forms[d], Feeding!RecordLog(d, s, form) PROVE FeedInv'
  <2>1. form \in {"good", "bad", "badid"}
      BY DEF FeedingConstants
  <2>2. Feeding!Row("log", s, d, form) \in Feeding!Rows /\ Feeding!Row("log", s, d, form).s = s
      BY <2>1 DEF Feeding!Row, Feeding!Rows
  <2> QED BY <1>2, <2>2, OutboxGrows DEF Feeding!RecordLog
<1> QED BY <1>1, <1>2

\* The device drops what was answered, and repairs the ids of the rest.
LEMMA ReceiveFeed == ASSUME FeedInv, NEW d \in Devices, Feeding!ReceiveAnswer(d) PROVE FeedInv'
<1> DEFINE Repaired(c) == [c EXCEPT !.form = IF @ = "badid" THEN "good" ELSE @]
<1>1. /\ outbox' = [outbox EXCEPT ![d] = {Repaired(c) : c \in outbox[d] \ call[d].sent}]
      /\ call' = [call EXCEPT ![d] = Feeding!Quiet]
      /\ UNCHANGED <<schedules, time, logs, deadLetters, cleared, slips>>
    BY DEF Feeding!ReceiveAnswer, Feeding!Ends
<1>2. \A c \in Feeding!Rows : Repaired(c) \in Feeding!Rows /\ Repaired(c).kind = c.kind /\ Repaired(c).s = c.s
    BY DEF Feeding!Rows
<1> HIDE DEF Repaired
<1>3. /\ outbox' \in [Devices -> SUBSET Feeding!Rows]
      /\ outbox'[d] = {Repaired(c) : c \in outbox[d] \ call[d].sent}
      /\ \A e \in Devices \ {d} : outbox'[e] = outbox[e]
    BY <1>1, <1>2 DEF FeedInv, FeedTypes
<1>4. call' \in [Devices -> FeedCalls] /\ call'[d] = Feeding!Quiet /\ \A e \in Devices \ {d} : call'[e] = call[e]
    BY <1>1, QuietIsFine DEF FeedInv, FeedTypes
<1>5. FeedTypes' /\ LogsRest'
    BY <1>1, <1>3, <1>4 DEF FeedInv, FeedTypes, LogsRest, Feeding!Live, Feeding!Logged
<1>6. OneLog'
  <2>1. ASSUME NEW a \in outbox'[d], NEW b \in outbox'[d], a.kind = "log", b.kind = "log", a.s = b.s PROVE a = b
    <3>1. PICK p \in outbox[d] : a = Repaired(p)
        BY <1>3, <2>1
    <3>2. PICK q \in outbox[d] : b = Repaired(q)
        BY <1>3, <2>1
    <3>3. p \in Feeding!Rows /\ q \in Feeding!Rows
        BY DEF FeedInv, FeedTypes
    <3>4. p = q
        BY <1>2, <2>1, <3>1, <3>2, <3>3 DEF FeedInv, OneLog
    <3> QED BY <3>1, <3>2, <3>4
  <2> QED BY <1>3, <2>1 DEF FeedInv, OneLog
<1>7. ASSUME NEW e \in Devices PROVE Fine(e, call[e])'
  <2>1. CASE e = d
      BY <1>4, <2>1 DEF Fine, Feeding!Quiet
  <2>2. CASE e # d
    <3>1. outbox'[e] = outbox[e] /\ call'[e] = call[e] /\ Fine(e, call[e])
        BY <1>3, <1>4, <2>2 DEF FeedInv
    <3> QED BY <1>1, <3>1 DEF Fine, Answered, UnderWay, Feeding!Live, Feeding!Logged
  <2> QED BY <2>1, <2>2
<1>8. \A e, f \in Devices : e # f => Apart(call[e], call[f])'
    BY <1>4 DEF FeedInv, Apart, Feeding!Quiet
<1> QED BY <1>5, <1>6, <1>7, <1>8 DEF FeedInv

LEMMA FeedStep == ASSUME FeedingConstants, FeedInv, [Feeding!Next]_feedingVars PROVE FeedInv'
<1>1. CASE UNCHANGED feedingVars
    BY <1>1, CallsOnly DEF feedingVars, FeedInv, FeedTypes
<1>2. ASSUME NEW s \in Schedules, NEW t \in Times, Feeding!Retime(s, t) PROVE FeedInv'
    BY <1>2, CallsOnly DEF Feeding!Retime, FeedInv, FeedTypes
<1>3. ASSUME NEW d \in Devices, Feeding!ReceiveError(d) \/ Feeding!LookUp(d) \/ Feeding!Breaks(d) PROVE FeedInv'
  <2>1. slips' \in 0..MaxMishaps
      BY <1>3 DEF Feeding!ReceiveError, Feeding!LookUp, Feeding!Breaks, FeedInv, FeedTypes, FeedingConstants
  <2> QED BY <1>3, <2>1, EndsFeed DEF Feeding!ReceiveError, Feeding!LookUp, Feeding!Breaks
<1>4. ASSUME NEW d \in Devices, Feeding!Serve(d) PROVE FeedInv'
    BY <1>3, <1>4, HandleFeed, FlushFeed, CommitSyncFeed, ReceiveFeed, CommitRESTFeed, DeadlockFeed DEF Feeding!Serve
<1>5. CASE Feeding!Next
    BY <1>2, <1>3, <1>4, <1>5, OfflineFeed, FeedBegins, DeleteFeed DEF Feeding!Next
<1> QED BY <1>1, <1>5

\* For any number of devices and schedules, and any crashes: a log rests on a
\* schedule that exists, and what a device is told is true - stored, kept as a
\* dead letter, or in conflict with a feeding that is logged (synced_ids of
\* sync/process.py, create_feeding_log).
THEOREM FeedingTrue == ServicesSpec => []FeedingInv
<1> DEFINE Held == component = "feeding" => FeedInv
<1>0. FeedingConstants
    BY ServicesAssumption DEF ServicesAssumption, FeedingConstants
<1>1. ServicesInit => Held
    BY <1>0, FeedInit DEF ServicesInit
<1>2. Held /\ [ServicesNext]_servicesVars => Held'
  <2> SUFFICES ASSUME Held, [ServicesNext]_servicesVars, component' = "feeding" PROVE FeedInv'
      OBVIOUS
  <2>1. component = "feeding" /\ [Feeding!Next]_feedingVars
      BY DEF ServicesNext, servicesVars, households
  <2> QED BY <2>1, <1>0, FeedStep
<1>3. Held => FeedingInv
    BY FeedHolds DEF FeedingInv
<1> QED BY <1>1, <1>2, <1>3, PTL DEF ServicesSpec

-----------------------------------------------------------------------------
(* Access.                                                                 *)

AccessConstants ==
    /\ Keepers \cap Aquariums = {} /\ Keepers \cap Fish = {} /\ Aquariums \cap Fish = {} /\ Aquariums # {}
    /\ FirstOnes \subseteq Aquariums /\ OwnerOf \in [Aquariums -> Keepers] /\ Guests \subseteq Keepers
    /\ WhoOf \in [Tasks -> Keepers] /\ Lists \subseteq Seq(Keepers \cup Aquariums \cup Fish) /\ MaxPhoto \in Nat

IsTask(t) == t = [stage |-> t.stage, op |-> t.op, who |-> t.who, aq |-> t.aq, fish |-> t.fish,
                  items |-> t.items, found |-> t.found, rows |-> t.rows]

\* Tables have their types, and a fish is in an aquarium that was made.
TablesTyped ==
    /\ tank \in [Aquariums -> {"none", "live", "deleted"}]
    /\ crew \in [Aquariums -> SUBSET Keepers] /\ \A a \in Aquariums : OwnerOf[a] \notin crew[a]
    /\ fish \in [Fish -> [state : {"none", "live", "deleted"}, home : Aquariums]]
    /\ \A f \in Fish : fish[f].state # "none" => tank[fish[f].home] # "none"
    /\ photo \in [Access!Entities -> 0..MaxPhoto] /\ left \subseteq Guests /\ late \subseteq Fish
    /\ asks = [q \in Tasks |-> asks[q]]

LinkStages == {"avatars", "aquariums", "fish", "answered"}
SyncOps == {"sweep", "drop"}
DeleteOps == {"delete", "remove"} \cup SyncOps

\* A request is somebody's, for an aquarium that was made and fish that were.
TaskTyped(q) ==
    /\ IsTask(asks[q]) /\ asks[q].who = WhoOf[q]
    /\ asks[q].stage = "new" => asks[q] = Access!Ready(WhoOf[q])
    /\ asks[q].op = "links" <=> asks[q].stage \in LinkStages
    /\ asks[q].op = "links" => asks[q].items \in Lists
    /\ asks[q].stage = "find" => asks[q].op \in SyncOps
    /\ asks[q].op \in SyncOps => asks[q].stage \in {"find", "cascade", "commit"}
    /\ asks[q].op = "sweep" => asks[q].fish = {}
    /\ asks[q].aq \subseteq Aquariums /\ \A a \in asks[q].aq : tank[a] # "none"
    /\ asks[q].stage = "commit" => \E a \in Aquariums : asks[q].aq = {a}
    /\ asks[q].fish \subseteq Fish
    /\ asks[q].op \in {"edit", "remove", "drop"} => \A f \in asks[q].fish : fish[f].state # "none"
    /\ asks[q].rows \subseteq Fish /\ \A f \in asks[q].rows : fish[f].state # "none"

\* It writes what its user may write, and knows where the fish live; a deletion
\* takes every fish that is in the aquarium, but for those that get there while
\* it commits.
TaskOwns(q) ==
    /\ asks[q].op \in SyncOps => asks[q].aq \subseteq joined[q]
    /\ asks[q].stage \in {"cascade", "commit"} =>
          \A a \in asks[q].aq : OwnerOf[a] = WhoOf[q] \/ asks[q].op \in SyncOps
    /\ asks[q].stage = "cascade" => asks[q].op \in Access!Deletions
    /\ asks[q].rows # {} => asks[q].op \in Access!Deletions /\ asks[q].stage = "commit"
    /\ \A f \in asks[q].rows, a \in asks[q].aq : <<f, a>> \in housed[q]
    /\ asks[q].op = "remove" \/ (asks[q].op = "drop" /\ asks[q].stage = "commit") =>
          \A f \in asks[q].fish, a \in asks[q].aq : <<f, a>> \in housed[q]
    /\ asks[q].stage = "commit" /\ asks[q].op \in Access!Deletions =>
          \A f \in Fish : fish[f].state = "live" /\ fish[f].home \in asks[q].aq => f \in asks[q].rows \cup late

Asked(q) == {asks[q].items[i] : i \in DOMAIN asks[q].items}

\* What a batch has found was visible, and what its queries did not find was not.
TaskLinks(q) ==
    asks[q].op = "links" =>
       /\ \A x \in DOMAIN asks[q].found : <<x, asks[q].found[x]>> \in seen[q]
       /\ \A x \in Asked(q) \ DOMAIN asks[q].found :
             /\ x \in Keepers /\ asks[q].stage # "avatars" => x \in barred[q]
             /\ x \in Aquariums /\ asks[q].stage \in {"fish", "answered"} => x \in barred[q]
             /\ x \in Fish /\ asks[q].stage = "answered" => x \in barred[q]

TaskSound(q) == TaskTyped(q) /\ TaskOwns(q) /\ TaskLinks(q)

AccInv == TablesTyped /\ Access!FishFollowAquarium /\ \A q \in Tasks : TaskSound(q)

-----------------------------------------------------------------------------
(* What it says. *)

\* Whoever is admitted is the owner or a member, and the aquarium is there.
LEMMA AdmittedIs ==
    ASSUME AccessConstants, NEW u, NEW a \in Aquariums
    PROVE  Access!RoleOf(u, a) \in Access!Admitted <=> tank[a] = "live" /\ (OwnerOf[a] = u \/ u \in crew[a])
BY DEF Access!RoleOf, Access!Admitted

\* Both ways to decide agree, kind by kind.
LEMMA MaySeeIs ==
    ASSUME AccessConstants, TablesTyped, NEW u
    PROVE  /\ \A x \in Keepers : Access!MaySee(u, x) <=> x = u /\ x \notin left
           /\ \A x \in Aquariums : Access!MaySee(u, x) <=> x \in Access!JoinedAquariums(u)
           /\ \A x \in Fish : Access!MaySee(u, x) <=> fish[x].state = "live" /\ fish[x].home \in Access!JoinedAquariums(u)
<1>1. \A f \in Fish : fish[f].home \in Aquariums
    BY DEF TablesTyped
<1>2. ASSUME NEW a \in Aquariums
      PROVE  Access!RoleOf(u, a) \in Access!Admitted <=> a \in Access!JoinedAquariums(u)
    BY <1>2, AdmittedIs DEF Access!JoinedAquariums
<1> QED BY <1>1, <1>2 DEF Access!MaySee, AccessConstants

LEMMA Agreement == ASSUME AccessConstants, TablesTyped PROVE Access!BatchAgreesWithSingle
<1> SUFFICES ASSUME NEW u \in Keepers
             PROVE  DOMAIN Access!AvatarKeys(u, Access!Entities) \cup DOMAIN Access!AquariumKeys(u, Access!Entities)
                       \cup DOMAIN Access!FishKeys(u, Access!Entities) = {x \in Access!Entities : Access!MaySee(u, x)}
    BY DEF Access!BatchAgreesWithSingle
<1>1. DOMAIN Access!AvatarKeys(u, Access!Entities) = {u} \ left
    BY DEF Access!AvatarKeys, Access!Entities
<1>2. DOMAIN Access!AquariumKeys(u, Access!Entities) = Access!JoinedAquariums(u)
    BY DEF Access!AquariumKeys, Access!Entities, Access!JoinedAquariums
<1>3. DOMAIN Access!FishKeys(u, Access!Entities) =
         {f \in Fish : fish[f].state = "live" /\ fish[f].home \in Access!JoinedAquariums(u)}
    BY DEF Access!FishKeys, Access!Entities
<1>4. Access!JoinedAquariums(u) \subseteq Aquariums
    BY DEF Access!JoinedAquariums
<1>5. /\ \A x \in Keepers : Access!MaySee(u, x) <=> x = u /\ x \notin left
      /\ \A x \in Aquariums : Access!MaySee(u, x) <=> x \in Access!JoinedAquariums(u)
      /\ \A x \in Fish : Access!MaySee(u, x) <=> fish[x].state = "live" /\ fish[x].home \in Access!JoinedAquariums(u)
    BY MaySeeIs
<1> QED BY <1>1, <1>2, <1>3, <1>4, <1>5 DEF Access!Entities

LEMMA AccessHolds == ASSUME AccessConstants, AccInv PROVE Access!AccessInv
<1>1. Access!AccessTypeOK
    BY DEF AccInv, TablesTyped, Access!AccessTypeOK
<1>2. Access!BatchAgreesWithSingle
    BY Agreement DEF AccInv
<1>3. ASSUME NEW q \in Tasks, asks[q].stage = "answered", NEW i \in DOMAIN asks[q].items
      PROVE  LET answer == Access!AnswerOf(asks[q].items, asks[q].found)
             IN IF i \in DOMAIN answer THEN answer[i] \in seen[q] /\ answer[i][1] = asks[q].items[i]
                ELSE asks[q].items[i] \in barred[q]
  <2> DEFINE x == asks[q].items[i]
             answer == Access!AnswerOf(asks[q].items, asks[q].found)
  <2>1. TaskTyped(q) /\ TaskLinks(q)
      BY DEF AccInv, TaskSound
  <2>2. asks[q].op = "links" /\ asks[q].items \in Lists
      BY <1>3, <2>1 DEF TaskTyped, LinkStages
  <2>3. x \in Asked(q) /\ x \in Keepers \cup Aquariums \cup Fish
      BY <2>2 DEF Asked, AccessConstants
  <2>4. i \in DOMAIN answer <=> x \in DOMAIN asks[q].found
      BY DEF Access!AnswerOf
  <2>5. x \in DOMAIN asks[q].found => answer[i] = <<x, asks[q].found[x]>>
      BY DEF Access!AnswerOf
  <2>6. CASE x \in DOMAIN asks[q].found
    <3>1. <<x, asks[q].found[x]>> \in seen[q]
        BY <2>1, <2>2, <2>6 DEF TaskLinks
    <3> QED BY <2>4, <2>5, <2>6, <3>1
  <2>7. CASE x \notin DOMAIN asks[q].found
    <3>1. x \in barred[q]
        BY <1>3, <2>1, <2>2, <2>3, <2>7 DEF TaskLinks
    <3> QED BY <2>4, <2>7, <3>1
  <2> QED BY <2>6, <2>7
<1>4. Access!AnswersHeld
    BY <1>3 DEF Access!AnswersHeld
<1> QED BY <1>1, <1>2, <1>4 DEF AccInv, Access!AccessInv

-----------------------------------------------------------------------------
(* Steps. *)

\* A request that makes nothing and asks for nothing.
LEMMA ReadySound ==
    ASSUME NEW q \in Tasks, asks[q] = Access!Ready(WhoOf[q])
    PROVE  TaskSound(q)
<1>1. TaskTyped(q)
    BY DEF TaskTyped, Access!Ready, Access!Nothing, IsTask, LinkStages, SyncOps
<1>2. TaskOwns(q)
    BY DEF TaskOwns, Access!Ready, Access!Nothing, SyncOps
<1>3. TaskLinks(q)
    BY DEF TaskLinks, Access!Ready
<1> QED BY <1>1, <1>2, <1>3 DEF TaskSound

LEMMA AccInit == ASSUME AccessConstants, Access!Init PROVE AccInv
<1>1. TablesTyped
  <2>1. (CHOOSE a \in Aquariums : TRUE) \in Aquariums
      BY DEF AccessConstants
  <2> QED BY <2>1 DEF Access!Init, TablesTyped, AccessConstants
<1>2. \A q \in Tasks : asks[q] = Access!Ready(WhoOf[q])
    BY DEF Access!Init
<1>3. Access!FishFollowAquarium
    BY DEF Access!Init, Access!FishFollowAquarium
<1> QED BY <1>1, <1>2, <1>3, ReadySound DEF AccInv

\* What the histories of a request add.
LEMMA Remembers ==
    ASSUME Access!Next, NEW q \in Tasks
    PROVE  /\ asks'[q].op = "links" =>
                 /\ seen[q] \subseteq seen'[q] /\ barred[q] \subseteq barred'[q]
                 /\ \A x \in Asked(q)' : IF Access!MaySee(asks[q].who, x)' THEN <<x, photo'[x]>> \in seen'[q]
                                         ELSE x \in barred'[q]
           /\ asks'[q].op \in DeleteOps =>
                 /\ \A f, a : <<f, a>> \in housed[q] /\ a \in asks'[q].aq => <<f, a>> \in housed'[q]
                 /\ \A f \in Fish : fish'[f].state = "live" /\ fish'[f].home \in asks'[q].aq =>
                       <<f, fish'[f].home>> \in housed'[q]
           /\ asks'[q].op \in SyncOps =>
                 \A a \in asks'[q].aq : a \in joined[q] \/ a \in Access!Mine(q)' => a \in joined'[q]
<1>1. Access!ToSet(asks[q].items)' = Asked(q)'
    BY DEF Access!ToSet, Asked
<1>2. ASSUME asks'[q].op = "links"
      PROVE  seen'[q] = seen[q] \cup Access!Visible(q)' /\ barred'[q] = barred[q] \cup Access!Hidden(q)'
    BY <1>2 DEF Access!Next, Access!Links
<1>3. ASSUME asks'[q].op \in DeleteOps
      PROVE  housed'[q] = {p \in housed[q] \cup Access!Homes' : p[2] \in asks'[q].aq}
    BY <1>3 DEF Access!Next, Access!Deletes, Access!Syncs, Access!About, DeleteOps, SyncOps
<1>7. ASSUME asks'[q].op \in SyncOps
      PROVE  joined'[q] = (joined[q] \cup Access!Mine(q)') \cap asks'[q].aq
    BY <1>7 DEF Access!Next, Access!Syncs, Access!About, SyncOps
<1>4. ASSUME NEW x \in Asked(q)'
      PROVE  IF Access!MaySee(asks[q].who, x)' THEN <<x, photo'[x]>> \in Access!Visible(q)' ELSE x \in Access!Hidden(q)'
    BY <1>1 DEF Access!Visible, Access!Hidden
<1>5. \A f \in Fish : fish'[f].state = "live" => <<f, fish'[f].home>> \in Access!Homes'
    BY DEF Access!Homes
<1>6. ASSUME asks'[q].op = "links"
      PROVE  /\ seen[q] \subseteq seen'[q] /\ barred[q] \subseteq barred'[q]
             /\ \A x \in Asked(q)' : IF Access!MaySee(asks[q].who, x)' THEN <<x, photo'[x]>> \in seen'[q]
                                     ELSE x \in barred'[q]
    BY <1>2, <1>4, <1>6
<1>8. ASSUME asks'[q].op \in DeleteOps
      PROVE  /\ \A f, a : <<f, a>> \in housed[q] /\ a \in asks'[q].aq => <<f, a>> \in housed'[q]
             /\ \A f \in Fish : fish'[f].state = "live" /\ fish'[f].home \in asks'[q].aq =>
                   <<f, fish'[f].home>> \in housed'[q]
    BY <1>3, <1>5, <1>8
<1> QED BY <1>6, <1>7, <1>8

\* What no step does: to unmake an aquarium or a fish, or to put a fish quietly
\* where a deletion has already looked.
Steady ==
    /\ \A a \in Aquariums : tank[a] # "none" => tank'[a] # "none"
    /\ \A f \in Fish : fish[f].state # "none" => fish'[f].state # "none"
    /\ late \subseteq late'
    /\ \A f \in Fish : fish'[f].state = "live" =>
          \/ f \in late'
          \/ fish[f].state = "live" /\ fish[f].home = fish'[f].home
          \/ ~Access!Closing(fish'[f].home)

\* A request that does not move stays sound.
LEMMA OthersSound ==
    ASSUME AccInv, Access!Next, Steady, NEW q \in Tasks, asks'[q] = asks[q]
    PROVE  TaskSound(q)'
<1>1. TaskTyped(q) /\ TaskOwns(q) /\ TaskLinks(q)
    BY DEF AccInv, TaskSound
<1>2. TaskTyped(q)'
  <2>1. \A a \in asks[q].aq : a \in Aquariums /\ tank'[a] # "none"
      BY <1>1 DEF TaskTyped, Steady
  <2>2. asks[q].op \in {"edit", "remove", "drop"} => \A f \in asks[q].fish : fish'[f].state # "none"
      BY <1>1 DEF TaskTyped, Steady
  <2>3. \A f \in asks[q].rows : fish'[f].state # "none"
      BY <1>1 DEF TaskTyped, Steady
  <2> QED BY <1>1, <2>1, <2>2, <2>3 DEF TaskTyped
<1>3. TaskOwns(q)'
  <2>1. asks[q].op \in DeleteOps => \A f, a : <<f, a>> \in housed[q] /\ a \in asks[q].aq => <<f, a>> \in housed'[q]
      BY Remembers
  <2>2. ASSUME asks[q].stage = "commit", asks[q].op \in Access!Deletions, NEW f \in Fish, fish'[f].state = "live",
               fish'[f].home \in asks[q].aq
        PROVE  f \in asks[q].rows \cup late'
    <3>1. PICK a \in Aquariums : asks[q].aq = {a}
        BY <1>1, <2>2 DEF TaskTyped
    <3>2. Access!Closing(fish'[f].home)
        BY <2>2, <3>1 DEF Access!Closing
    <3>3. f \in late' \/ (fish[f].state = "live" /\ fish[f].home = fish'[f].home)
        BY <2>2, <3>2 DEF Steady
    <3> QED BY <1>1, <2>2, <3>3 DEF TaskOwns, Steady
  <2>3. asks[q].op \in SyncOps => asks[q].aq \subseteq joined'[q]
      BY <1>1, Remembers DEF TaskOwns
  <2>4. \A f \in asks[q].rows, a \in asks[q].aq : <<f, a>> \in housed'[q]
      BY <1>1, <2>1 DEF TaskOwns, Access!Deletions, DeleteOps, SyncOps
  <2>5. asks[q].op = "remove" \/ (asks[q].op = "drop" /\ asks[q].stage = "commit") =>
           \A f \in asks[q].fish, a \in asks[q].aq : <<f, a>> \in housed'[q]
      BY <1>1, <2>1 DEF TaskOwns, DeleteOps, SyncOps
  <2> QED BY <1>1, <2>2, <2>3, <2>4, <2>5 DEF TaskOwns
<1>4. TaskLinks(q)'
  <2>1. asks[q].op = "links" => seen[q] \subseteq seen'[q] /\ barred[q] \subseteq barred'[q]
      BY Remembers
  <2>2. Asked(q)' = Asked(q)
      BY DEF Asked
  <2> QED BY <1>1, <2>1, <2>2 DEF TaskLinks
<1> QED BY <1>2, <1>3, <1>4 DEF TaskSound

\* A step of one request that changes no row.
LEMMA OneTask ==
    ASSUME AccInv, Access!Next, UNCHANGED <<tank, crew, fish, photo, left, late>>, NEW q \in Tasks, NEW t,
           asks' = [asks EXCEPT ![q] = t], TaskSound(q)'
    PROVE  AccInv'
<1>1. Steady
    BY DEF Steady
<1>2. \A p \in Tasks \ {q} : asks'[p] = asks[p]
    BY DEF AccInv, TablesTyped
<1>3. \A p \in Tasks : TaskSound(p)'
    BY <1>1, <1>2, OthersSound
<1>4. TablesTyped'
  <2>1. Access!Entities' = Access!Entities
      BY DEF Access!Entities
  <2> QED BY <2>1 DEF AccInv, TablesTyped
<1>5. Access!FishFollowAquarium'
    BY DEF AccInv, Access!FishFollowAquarium
<1> QED BY <1>3, <1>4, <1>5 DEF AccInv

LEMMA EndsReady ==
    ASSUME AccInv, NEW q \in Tasks, Access!Ends(q)
    PROVE  /\ asks' = [asks EXCEPT ![q] = Access!Ready(WhoOf[q])] /\ asks'[q] = Access!Ready(WhoOf[q])
           /\ TaskSound(q)' /\ \A p \in Tasks \ {q} : asks'[p] = asks[p]
           /\ asks' = [p \in Tasks |-> asks'[p]]
<1>1. asks[q].who = WhoOf[q]
    BY DEF AccInv, TaskSound, TaskTyped
<1>2. asks' = [asks EXCEPT ![q] = Access!Ready(WhoOf[q])]
    BY <1>1 DEF Access!Ends
<1>3. asks'[q] = Access!Ready(WhoOf[q]) /\ \A p \in Tasks \ {q} : asks'[p] = asks[p]
    BY <1>2 DEF AccInv, TablesTyped
<1>4. TaskSound(q)'
  <2>1. TaskTyped(q)'
      BY <1>3 DEF TaskTyped, Access!Ready, Access!Nothing, IsTask, LinkStages, SyncOps
  <2>2. TaskOwns(q)'
      BY <1>3 DEF TaskOwns, Access!Ready, Access!Nothing, SyncOps
  <2>3. TaskLinks(q)'
      BY <1>3 DEF TaskLinks, Access!Ready
  <2> QED BY <2>1, <2>2, <2>3 DEF TaskSound
<1>5. asks' = [p \in Tasks |-> asks'[p]]
    BY <1>2 DEF AccInv, TablesTyped
<1> QED BY <1>2, <1>3, <1>4, <1>5

LEMMA EndsTask ==
    ASSUME AccInv, Access!Next, UNCHANGED <<tank, crew, fish, photo, left, late>>, NEW q \in Tasks, Access!Ends(q)
    PROVE  AccInv'
BY EndsReady, OneTask

\* What a request that begins has asked.
LEMMA Fresh ==
    ASSUME AccInv, NEW q \in Tasks, Access!Begins(q)
    PROVE  /\ IsTask(asks[q]) /\ asks[q].who = WhoOf[q] /\ asks[q].fish = {} /\ asks[q].rows = {} /\ asks[q].aq = {}
           /\ asks[q].found = <<>>
<1>1. IsTask(asks[q]) /\ asks[q] = Access!Ready(WhoOf[q])
    BY DEF AccInv, TaskSound, TaskTyped, Access!Begins
<1> QED BY <1>1 DEF Access!Ready, Access!Nothing

LEMMA AskAquariumAcc ==
    ASSUME AccInv, Access!Next, NEW q \in Tasks, NEW op \in {"read", "update", "delete", "add"}, NEW a \in Aquariums,
           NEW f \in Fish, Access!AskAquarium(q, op, a, f)
    PROVE  AccInv'
<1>1. /\ IsTask(asks[q]) /\ asks[q].who = WhoOf[q] /\ asks[q].fish = {} /\ asks[q].rows = {} /\ asks[q].aq = {}
      /\ asks[q].found = <<>>
    BY Fresh DEF Access!AskAquarium
<1>2. PICK t : t = [asks[q] EXCEPT !.op = op, !.aq = {a}, !.fish = IF op = "add" THEN {f} ELSE Access!Nothing,
                                     !.stage = IF op = "read" THEN "check" ELSE "role"]
    OBVIOUS
<1>3. asks' = [asks EXCEPT ![q] = t]
    BY <1>2 DEF Access!AskAquarium, AccInv, TablesTyped
<1>4. asks'[q] = t
    BY <1>3 DEF AccInv, TablesTyped
<1>5. /\ IsTask(t) /\ t.who = WhoOf[q] /\ t.op = op /\ t.aq = {a} /\ t.fish \subseteq {f} /\ t.rows = {}
      /\ t.stage \in {"check", "role"}
    BY <1>1, <1>2 DEF Access!Nothing, IsTask
<1>6. UNCHANGED <<tank, crew, fish, photo, left, late>> /\ tank[a] # "none"
    BY DEF Access!AskAquarium, Access!rowVars
<1>7. TaskTyped(q)'
    BY <1>4, <1>5, <1>6 DEF TaskTyped, LinkStages, SyncOps
<1>8. TaskOwns(q)'
    BY <1>4, <1>5 DEF TaskOwns, SyncOps
<1>9. TaskLinks(q)'
    BY <1>4, <1>5 DEF TaskLinks
<1> QED BY <1>3, <1>6, <1>7, <1>8, <1>9, OneTask DEF TaskSound

LEMMA AskFishAcc ==
    ASSUME AccInv, Access!Next, NEW q \in Tasks, NEW op \in {"read", "edit", "remove"}, NEW f \in Fish,
           Access!AskFish(q, op, f)
    PROVE  AccInv'
<1>1. /\ IsTask(asks[q]) /\ asks[q].who = WhoOf[q] /\ asks[q].fish = {} /\ asks[q].rows = {} /\ asks[q].aq = {}
      /\ asks[q].found = <<>>
    BY Fresh DEF Access!AskFish
<1>2. UNCHANGED <<tank, crew, fish, photo, left, late>>
    BY DEF Access!AskFish, Access!rowVars
<1>3. CASE fish[f].state = "live"
  <2>1. PICK t : t = [asks[q] EXCEPT !.op = op, !.fish = {f}, !.aq = {fish[f].home}, !.stage = "check"]
      OBVIOUS
  <2>2. asks' = [asks EXCEPT ![q] = t]
      BY <1>3, <2>1 DEF Access!AskFish, AccInv, TablesTyped
  <2>3. asks'[q] = t
      BY <2>2 DEF AccInv, TablesTyped
  <2>4. /\ IsTask(t) /\ t.who = WhoOf[q] /\ t.op = op /\ t.aq = {fish[f].home} /\ t.fish = {f} /\ t.rows = {}
        /\ t.stage = "check"
      BY <1>1, <2>1 DEF IsTask
  <2>5. fish[f].home \in Aquariums /\ tank[fish[f].home] # "none"
      BY <1>3 DEF AccInv, TablesTyped
  <2>6. TaskTyped(q)'
      BY <1>2, <1>3, <2>3, <2>4, <2>5 DEF TaskTyped, LinkStages, SyncOps
  <2>7. op = "remove" => <<f, fish[f].home>> \in housed'[q]
      BY <1>2, <1>3, <2>3, <2>4, Remembers DEF DeleteOps
  <2>8. TaskOwns(q)'
      BY <2>3, <2>4, <2>7 DEF TaskOwns, SyncOps
  <2>9. TaskLinks(q)'
      BY <2>3, <2>4 DEF TaskLinks
  <2> QED BY <1>2, <2>2, <2>6, <2>8, <2>9, OneTask DEF TaskSound
<1>4. CASE fish[f].state # "live"
    BY <1>2, <1>4, EndsTask DEF Access!AskFish
<1> QED BY <1>3, <1>4

\* A request that goes on to another stage, and has what it needs there.
LEMMA GoesAcc ==
    ASSUME AccInv, Access!Next, UNCHANGED <<tank, crew, fish, photo, left, late>>, NEW q \in Tasks,
           asks[q].stage \in {"check", "role", "find"}, NEW stage \in {"role", "load", "cascade", "commit"}, Access!Goes(q, stage),
           asks[q].stage = "find" => stage = "cascade",
           stage \in {"cascade", "commit"} =>
              \E a \in Aquariums : asks[q].aq = {a} /\ (OwnerOf[a] = WhoOf[q] \/ asks[q].stage = "find"),
           stage = "cascade" <=> asks[q].op \in Access!Deletions /\ stage \in {"cascade", "commit"}
    PROVE  AccInv'
<1>1. TaskTyped(q) /\ TaskOwns(q)
    BY DEF AccInv, TaskSound
<1>2. PICK t : t = [asks[q] EXCEPT !.stage = stage]
    OBVIOUS
<1>3. asks' = [asks EXCEPT ![q] = t]
    BY <1>2 DEF Access!Goes, AccInv, TablesTyped
<1>4. asks'[q] = t
    BY <1>3 DEF AccInv, TablesTyped
<1>5. /\ IsTask(t) /\ t.who = asks[q].who /\ t.op = asks[q].op /\ t.aq = asks[q].aq /\ t.fish = asks[q].fish
      /\ t.rows = asks[q].rows /\ t.stage = stage
    BY <1>1, <1>2 DEF TaskTyped, IsTask
<1>6. asks[q].op # "links" /\ asks[q].rows = {}
    BY <1>1 DEF TaskTyped, TaskOwns, LinkStages
<1>7. TaskTyped(q)'
    BY <1>1, <1>4, <1>5, <1>6 DEF TaskTyped, LinkStages, SyncOps
<1>8. asks[q].op \in DeleteOps => \A f, a : <<f, a>> \in housed[q] /\ a \in asks[q].aq => <<f, a>> \in housed'[q]
    BY <1>4, <1>5, Remembers
<1>9. TaskOwns(q)'
  <2>1. stage = "commit" => asks[q].op \notin Access!Deletions
      OBVIOUS
  <2>2. stage \in {"cascade", "commit"} => \A a \in asks[q].aq : OwnerOf[a] = WhoOf[q] \/ asks[q].op \in SyncOps
      BY <1>1 DEF TaskTyped
  <2>3. asks[q].op = "remove" => \A f \in asks[q].fish, a \in asks[q].aq : <<f, a>> \in housed'[q]
      BY <1>1, <1>8 DEF TaskOwns, DeleteOps
  <2>4. asks[q].op \in SyncOps => asks[q].aq \subseteq joined'[q] /\ stage # "commit"
    <3>1. asks[q].op \in SyncOps => asks[q].stage = "find"
        BY <1>1 DEF TaskTyped
    <3> QED BY <1>1, <1>4, <1>5, <3>1, Remembers DEF TaskOwns
  <2>5. ~(asks[q].op = "drop" /\ stage = "commit")
      BY <2>4 DEF SyncOps
  <2> QED BY <1>4, <1>5, <1>6, <2>1, <2>2, <2>3, <2>4, <2>5 DEF TaskOwns
<1>10. TaskLinks(q)'
    BY <1>4, <1>5, <1>6 DEF TaskLinks
<1> QED BY <1>3, <1>7, <1>9, <1>10, OneTask DEF TaskSound

LEMMA CheckAcc ==
    ASSUME AccInv, Access!Next, NEW q \in Tasks, NEW a \in Aquariums, Access!Check(q, a) \/ Access!CheckRole(q, a)
    PROVE  AccInv'
<1>1. UNCHANGED <<tank, crew, fish, photo, left, late>>
    BY DEF Access!Check, Access!CheckRole, Access!rowVars
<1>2. CASE Access!Ends(q)
    BY <1>1, <1>2, EndsTask
<1>3. CASE Access!Check(q, a) /\ ~Access!Ends(q)
  <2>1. PICK stage \in {"role", "load"} : Access!Goes(q, stage)
      BY <1>3 DEF Access!Check
  <2> QED BY <1>1, <1>3, <2>1, GoesAcc DEF Access!Check
<1>4. CASE Access!CheckRole(q, a) /\ ~Access!Ends(q)
  <2>1. PICK stage : stage = Access!ToWrite(asks[q].op)
      OBVIOUS
  <2>2. /\ Access!Goes(q, stage) /\ asks[q].stage = "role" /\ asks[q].aq = {a}
        /\ Access!RoleOf(asks[q].who, a) = "owner"
      BY <1>4, <2>1 DEF Access!CheckRole, Access!MayChange
  <2>3. OwnerOf[a] = WhoOf[q]
    <3>1. asks[q].who = WhoOf[q]
        BY DEF AccInv, TaskSound, TaskTyped
    <3> QED BY <2>2, <3>1 DEF Access!RoleOf
  <2>4. stage = (IF asks[q].op = "delete" THEN "cascade" ELSE "commit")
      BY <2>1 DEF Access!ToWrite
  <2>5. asks[q].op # "sweep"
      BY <2>2 DEF AccInv, TaskSound, TaskTyped, SyncOps
  <2> QED BY <1>1, <2>2, <2>3, <2>4, <2>5, GoesAcc DEF Access!Deletions
<1> QED BY <1>2, <1>3, <1>4

LEMMA CascadeAcc ==
    ASSUME AccInv, Access!Next, NEW q \in Tasks, NEW a \in Aquariums, Access!Cascade(q, a)
    PROVE  AccInv'
<1>1. TaskTyped(q) /\ TaskOwns(q)
    BY DEF AccInv, TaskSound
<1>2. UNCHANGED <<tank, crew, fish, photo, left, late>> /\ asks[q].stage = "cascade" /\ asks[q].aq = {a}
    BY DEF Access!Cascade, Access!rowVars
<1>3. PICK t : t = [asks[q] EXCEPT !.stage = "commit", !.rows = Access!CascadeOf(a)]
    OBVIOUS
<1>4. asks' = [asks EXCEPT ![q] = t]
    BY <1>3 DEF Access!Cascade, AccInv, TablesTyped
<1>5. asks'[q] = t
    BY <1>4 DEF AccInv, TablesTyped
<1>6. /\ IsTask(t) /\ t.who = asks[q].who /\ t.op = asks[q].op /\ t.aq = asks[q].aq /\ t.fish = asks[q].fish
      /\ t.rows = Access!CascadeOf(a) /\ t.stage = "commit"
    BY <1>1, <1>3 DEF TaskTyped, IsTask
<1>7. asks[q].op \in Access!Deletions /\ (OwnerOf[a] = WhoOf[q] \/ asks[q].op \in SyncOps)
    BY <1>1, <1>2 DEF TaskOwns
<1>8. \A f \in Fish : f \in Access!CascadeOf(a) <=> fish[f].state = "live" /\ fish[f].home = a
    BY DEF Access!CascadeOf
<1>9. Access!CascadeOf(a) \subseteq Fish
    BY DEF Access!CascadeOf
<1>10. TaskTyped(q)'
    BY <1>1, <1>2, <1>5, <1>6, <1>7, <1>8, <1>9 DEF TaskTyped, LinkStages, SyncOps, Access!Deletions
<1>11. \A f \in Access!CascadeOf(a) : <<f, a>> \in housed'[q]
    BY <1>2, <1>5, <1>6, <1>7, <1>8, <1>9, Remembers DEF Access!Deletions, DeleteOps, SyncOps
<1>12. asks[q].op \in SyncOps => a \in joined'[q]
    BY <1>1, <1>2, <1>5, <1>6, Remembers DEF TaskOwns
<1>13. TaskOwns(q)'
    BY <1>2, <1>5, <1>6, <1>7, <1>8, <1>11, <1>12 DEF TaskOwns, Access!Deletions
<1>14. TaskLinks(q)'
    BY <1>5, <1>6, <1>7 DEF TaskLinks, Access!Deletions
<1> QED BY <1>2, <1>4, <1>10, <1>13, <1>14, OneTask DEF TaskSound

-----------------------------------------------------------------------------
(* A deletion that a sync brings. *)

\* It knows the aquariums of its user, or the one it is to delete.
LEMMA AskSyncAcc ==
    ASSUME AccInv, Access!Next, NEW q \in Tasks, NEW x \in Aquariums \cup Fish, Access!AskSync(q, x)
    PROVE  AccInv'
<1>1. /\ IsTask(asks[q]) /\ asks[q].who = WhoOf[q] /\ asks[q].fish = {} /\ asks[q].rows = {} /\ asks[q].aq = {}
      /\ asks[q].found = <<>>
    BY Fresh DEF Access!AskSync
<1>2. UNCHANGED <<tank, crew, fish, photo, left, late>>
    BY DEF Access!AskSync, Access!rowVars
<1>3. PICK op, aqs, fs :
         /\ asks' = [asks EXCEPT ![q].op = op, ![q].aq = aqs, ![q].fish = fs, ![q].stage = "find"]
         /\ \/ op = "drop" /\ aqs = Access!JoinedAquariums(asks[q].who) /\ fs = {x} /\ x \in Fish /\ fish[x].state # "none"
            \/ op = "sweep" /\ aqs = {x} /\ x \in Access!JoinedAquariums(asks[q].who) /\ fs = {}
    BY DEF Access!AskSync, Access!Nothing
<1>4. PICK t : t = [asks[q] EXCEPT !.op = op, !.aq = aqs, !.fish = fs, !.stage = "find"]
    OBVIOUS
<1>5. asks' = [asks EXCEPT ![q] = t]
    BY <1>3, <1>4 DEF AccInv, TablesTyped
<1>6. asks'[q] = t
    BY <1>5 DEF AccInv, TablesTyped
<1>7. /\ IsTask(t) /\ t.who = WhoOf[q] /\ t.op = op /\ t.aq = aqs /\ t.fish = fs /\ t.rows = {}
      /\ t.stage = "find"
    BY <1>1, <1>4 DEF IsTask
<1>8. aqs \subseteq Access!JoinedAquariums(asks[q].who) /\ op \in SyncOps
    BY <1>3 DEF SyncOps
<1>9. \A a \in Access!JoinedAquariums(asks[q].who) : a \in Aquariums /\ tank[a] = "live"
    BY DEF Access!JoinedAquariums
<1>10. TaskTyped(q)'
  <2>1. \A a \in aqs : a \in Aquariums /\ tank'[a] # "none"
      BY <1>2, <1>8, <1>9
  <2>2. fs \subseteq Fish /\ (op = "sweep" => fs = {}) /\ \A f \in fs : fish'[f].state # "none"
      BY <1>2, <1>3
  <2> QED BY <1>6, <1>7, <1>8, <2>1, <2>2 DEF TaskTyped, LinkStages, SyncOps
<1>11. aqs \subseteq joined'[q]
  <2>1. Access!Mine(q)' = Access!JoinedAquariums(asks[q].who)
      BY <1>1, <1>2, <1>6, <1>7 DEF Access!Mine, Access!JoinedAquariums
  <2> QED BY <1>6, <1>7, <1>8, <2>1, Remembers
<1>12. TaskOwns(q)'
    BY <1>6, <1>7, <1>8, <1>11 DEF TaskOwns, SyncOps
<1>13. TaskLinks(q)'
    BY <1>6, <1>7, <1>8 DEF TaskLinks, SyncOps
<1> QED BY <1>2, <1>5, <1>10, <1>12, <1>13, OneTask DEF TaskSound

\* A row that is found is in an aquarium of the user, or is that aquarium.
LEMMA FindAcc ==
    ASSUME AccInv, Access!Next, NEW q \in Tasks,
           \/ \E f \in Fish : Access!FindFish(q, f)
           \/ \E a \in Aquariums : Access!FindAquarium(q, a)
    PROVE  AccInv'
<1>1. UNCHANGED <<tank, crew, fish, photo, left, late>> /\ TaskTyped(q) /\ TaskOwns(q)
    BY DEF Access!FindFish, Access!FindAquarium, Access!rowVars, AccInv, TaskSound
<1>2. CASE Access!Ends(q)
    BY <1>1, <1>2, EndsTask
<1>3. ASSUME NEW a \in Aquariums, Access!FindAquarium(q, a), ~Access!Ends(q) PROVE AccInv'
    BY <1>1, <1>3, GoesAcc DEF Access!FindAquarium, Access!Deletions
<1>4. ASSUME NEW f \in Fish, Access!FindFish(q, f), ~Access!Ends(q) PROVE AccInv'
  <2>1. /\ asks[q].stage = "find" /\ asks[q].fish = {f} /\ fish[f].state = "live" /\ fish[f].home \in asks[q].aq
        /\ asks' = [asks EXCEPT ![q].stage = "commit", ![q].aq = {fish[f].home}]
      BY <1>4 DEF Access!FindFish
  <2>2. PICK t : t = [asks[q] EXCEPT !.stage = "commit", !.aq = {fish[f].home}]
      OBVIOUS
  <2>3. asks' = [asks EXCEPT ![q] = t]
      BY <2>1, <2>2 DEF AccInv, TablesTyped
  <2>4. asks'[q] = t
      BY <2>3 DEF AccInv, TablesTyped
  <2>5. /\ IsTask(t) /\ t.who = asks[q].who /\ t.op = asks[q].op /\ t.aq = {fish[f].home} /\ t.fish = {f}
        /\ t.rows = asks[q].rows /\ t.stage = "commit"
      BY <1>1, <2>1, <2>2 DEF TaskTyped, IsTask
  <2>6. asks[q].op = "drop" /\ asks[q].rows = {}
      BY <1>1, <2>1 DEF TaskTyped, TaskOwns, SyncOps
  <2>7. TaskTyped(q)'
      BY <1>1, <2>1, <2>4, <2>5, <2>6 DEF TaskTyped, LinkStages, SyncOps
  <2>8. fish[f].home \in joined'[q] /\ <<f, fish[f].home>> \in housed'[q]
      BY <1>1, <2>1, <2>4, <2>5, <2>6, Remembers DEF TaskOwns, DeleteOps, SyncOps
  <2>9. TaskOwns(q)'
      BY <2>4, <2>5, <2>6, <2>8 DEF TaskOwns, Access!Deletions, SyncOps
  <2>10. TaskLinks(q)'
      BY <2>4, <2>5, <2>6 DEF TaskLinks
  <2> QED BY <1>1, <2>3, <2>7, <2>9, <2>10, OneTask DEF TaskSound
<1> QED BY <1>2, <1>3, <1>4

\* What a request that writes may do.
LEMMA MayWrite ==
    ASSUME NEW q \in Tasks, NEW a \in Aquariums, TaskTyped(q), TaskOwns(q), asks[q].stage = "commit", asks[q].aq = {a}
    PROVE  Access!Right(q, a)
BY DEF TaskTyped, TaskOwns, Access!Right, Access!Syncs, SyncOps

-----------------------------------------------------------------------------
(* A batch of links. *)

LEMMA AskLinksAcc ==
    ASSUME AccessConstants, AccInv, Access!Next, NEW q \in Tasks, NEW items \in Lists, Access!AskLinks(q, items)
    PROVE  AccInv'
<1>1. /\ IsTask(asks[q]) /\ asks[q].who = WhoOf[q] /\ asks[q].fish = {} /\ asks[q].rows = {} /\ asks[q].aq = {}
      /\ asks[q].found = <<>>
    BY Fresh DEF Access!AskLinks
<1>2. PICK t : t = [asks[q] EXCEPT !.op = "links", !.items = items, !.stage = "avatars"]
    OBVIOUS
<1>3. asks' = [asks EXCEPT ![q] = t] /\ UNCHANGED <<tank, crew, fish, photo, left, late>>
    BY <1>2 DEF Access!AskLinks, AccInv, TablesTyped, Access!rowVars
<1>4. asks'[q] = t
    BY <1>3 DEF AccInv, TablesTyped
<1>5. /\ IsTask(t) /\ t.who = WhoOf[q] /\ t.op = "links" /\ t.aq = {} /\ t.fish = {} /\ t.rows = {} /\ t.items = items
      /\ t.stage = "avatars" /\ t.found = <<>>
    BY <1>1, <1>2 DEF Access!Nothing, IsTask
<1>6. TaskTyped(q)'
    BY <1>4, <1>5 DEF TaskTyped, LinkStages, SyncOps
<1>7. TaskOwns(q)'
    BY <1>4, <1>5 DEF TaskOwns, SyncOps
<1>8. Asked(q)' \subseteq Keepers \cup Aquariums \cup Fish
    BY <1>4, <1>5 DEF Asked, AccessConstants
<1>9. DOMAIN t.found = {}
    BY <1>5
<1>10. TaskLinks(q)'
    BY <1>4, <1>5, <1>8, <1>9, Remembers DEF TaskLinks, AccessConstants
<1> QED BY <1>3, <1>6, <1>7, <1>10, OneTask DEF TaskSound

\* A query finds what its user can see, of one kind.
LEMMA FoundAcc ==
    ASSUME AccessConstants, AccInv, Access!Next, UNCHANGED <<tank, crew, fish, photo, left, late>>, NEW q \in Tasks,
           asks[q].op = "links", NEW keys, NEW stage \in LinkStages,
           asks' = [asks EXCEPT ![q].found = Access!With(@, keys), ![q].stage = stage],
           \A x \in DOMAIN keys : x \in Asked(q) /\ Access!MaySee(asks[q].who, x) /\ keys[x] = photo[x],
           \A x \in Asked(q) \ DOMAIN keys :
              /\ x \in Keepers /\ stage # "avatars" => asks[q].stage # "avatars" \/ ~Access!MaySee(asks[q].who, x)
              /\ x \in Aquariums /\ stage \in {"fish", "answered"} =>
                    asks[q].stage \in {"fish", "answered"} \/ ~Access!MaySee(asks[q].who, x)
              /\ x \in Fish /\ stage = "answered" => asks[q].stage = "answered" \/ ~Access!MaySee(asks[q].who, x)
    PROVE  AccInv'
<1>1. TaskTyped(q) /\ TaskOwns(q) /\ TaskLinks(q)
    BY DEF AccInv, TaskSound
<1>2. PICK t : t = [asks[q] EXCEPT !.found = Access!With(asks[q].found, keys), !.stage = stage]
    OBVIOUS
<1>3. asks' = [asks EXCEPT ![q] = t]
    BY <1>2 DEF AccInv, TablesTyped
<1>4. asks'[q] = t
    BY <1>3 DEF AccInv, TablesTyped
<1>5. /\ IsTask(t) /\ t.who = asks[q].who /\ t.op = asks[q].op /\ t.aq = asks[q].aq /\ t.fish = asks[q].fish
      /\ t.rows = asks[q].rows /\ t.stage = stage /\ t.items = asks[q].items /\ t.found = Access!With(asks[q].found, keys)
    BY <1>1, <1>2 DEF TaskTyped, IsTask
<1>6. TaskTyped(q)'
    BY <1>1, <1>4, <1>5 DEF TaskTyped, LinkStages, SyncOps
<1>7. TaskOwns(q)'
    BY <1>1, <1>4, <1>5 DEF TaskOwns, LinkStages, SyncOps, Access!Deletions
<1>8. Asked(q)' = Asked(q)
    BY <1>4, <1>5 DEF Asked
<1>9. \A x : Access!MaySee(asks[q].who, x)' <=> Access!MaySee(asks[q].who, x)
    BY <1>4, <1>5 DEF Access!MaySee, Access!RoleOf
<1>10. /\ seen[q] \subseteq seen'[q] /\ barred[q] \subseteq barred'[q]
       /\ \A x \in Asked(q) : IF Access!MaySee(asks[q].who, x) THEN <<x, photo[x]>> \in seen'[q] ELSE x \in barred'[q]
    BY <1>4, <1>5, <1>8, <1>9, Remembers
<1>11. /\ DOMAIN t.found = DOMAIN asks[q].found \cup DOMAIN keys
       /\ \A x \in DOMAIN t.found : t.found[x] = IF x \in DOMAIN keys THEN keys[x] ELSE asks[q].found[x]
    BY <1>5 DEF Access!With
<1>12. \A x \in DOMAIN t.found : <<x, t.found[x]>> \in seen'[q]
    BY <1>1, <1>10, <1>11 DEF TaskLinks
<1>13. ASSUME NEW x \in Asked(q) \ DOMAIN t.found
       PROVE  /\ x \in Keepers /\ stage # "avatars" => x \in barred'[q]
              /\ x \in Aquariums /\ stage \in {"fish", "answered"} => x \in barred'[q]
              /\ x \in Fish /\ stage = "answered" => x \in barred'[q]
    BY <1>1, <1>10, <1>11 DEF TaskLinks
<1>14. TaskLinks(q)'
    BY <1>4, <1>5, <1>8, <1>12, <1>13 DEF TaskLinks
<1> QED BY <1>3, <1>6, <1>7, <1>14, OneTask DEF TaskSound

LEMMA FindKeysAcc ==
    ASSUME AccessConstants, AccInv, Access!Next, NEW q \in Tasks, Access!FindKeys(q)
    PROVE  AccInv'
<1> DEFINE u == asks[q].who
           A == Access!ToSet(asks[q].items)
<1>0. A = Asked(q) /\ UNCHANGED <<tank, crew, fish, photo, left, late>>
    BY DEF Access!FindKeys, Access!ToSet, Asked, Access!rowVars
<1>1. TaskTyped(q) /\ TablesTyped
    BY DEF AccInv, TaskSound
<1>2. /\ \A x \in Keepers : Access!MaySee(u, x) <=> x = u /\ x \notin left
      /\ \A x \in Aquariums : Access!MaySee(u, x) <=> x \in Access!JoinedAquariums(u)
      /\ \A x \in Fish : Access!MaySee(u, x) <=> fish[x].state = "live" /\ fish[x].home \in Access!JoinedAquariums(u)
    BY <1>1, MaySeeIs
<1>3. u \in Keepers /\ Access!JoinedAquariums(u) \subseteq Aquariums
    BY <1>1 DEF TaskTyped, AccessConstants, Access!JoinedAquariums
<1>4. CASE asks[q].stage = "avatars"
  <2>1. PICK keys : keys = Access!AvatarKeys(u, A)
      OBVIOUS
  <2>2. asks' = [asks EXCEPT ![q].found = Access!With(@, keys), ![q].stage = "aquariums"]
      BY <1>4, <2>1 DEF Access!FindKeys
  <2>3. DOMAIN keys = (Asked(q) \cap {u}) \ left /\ \A x \in DOMAIN keys : keys[x] = photo[x]
      BY <1>0, <2>1 DEF Access!AvatarKeys
  <2>4. asks[q].op = "links"
      BY <1>1, <1>4 DEF TaskTyped, LinkStages
  <2>5. \A x \in DOMAIN keys : x \in Asked(q) /\ Access!MaySee(u, x) /\ keys[x] = photo[x]
      BY <1>2, <1>3, <2>3
  <2>6. \A x \in Asked(q) \ DOMAIN keys : x \in Keepers => ~Access!MaySee(u, x)
      BY <1>2, <2>3
  <2> HIDE DEF u, A
  <2> QED BY <1>0, <1>4, <2>2, <2>4, <2>5, <2>6, FoundAcc DEF LinkStages, u
<1>5. CASE asks[q].stage = "aquariums"
  <2>1. PICK keys : keys = Access!AquariumKeys(u, A)
      OBVIOUS
  <2>2. asks' = [asks EXCEPT ![q].found = Access!With(@, keys), ![q].stage = "fish"]
      BY <1>5, <2>1 DEF Access!FindKeys
  <2>3. DOMAIN keys = Asked(q) \cap Access!JoinedAquariums(u) /\ \A x \in DOMAIN keys : keys[x] = photo[x]
      BY <1>0, <2>1 DEF Access!AquariumKeys
  <2>4. asks[q].op = "links"
      BY <1>1, <1>5 DEF TaskTyped, LinkStages
  <2>5. \A x \in DOMAIN keys : x \in Asked(q) /\ Access!MaySee(u, x) /\ keys[x] = photo[x]
      BY <1>2, <1>3, <2>3
  <2>6. \A x \in Asked(q) \ DOMAIN keys : x \in Aquariums => ~Access!MaySee(u, x)
      BY <1>2, <2>3
  <2> HIDE DEF u, A
  <2> QED BY <1>0, <1>5, <2>2, <2>4, <2>5, <2>6, FoundAcc DEF LinkStages, u
<1>6. CASE asks[q].stage = "fish"
  <2>1. PICK keys : keys = Access!FishKeys(u, A)
      OBVIOUS
  <2>2. asks' = [asks EXCEPT ![q].found = Access!With(@, keys), ![q].stage = "answered"]
      BY <1>6, <2>1 DEF Access!FindKeys
  <2>3. /\ DOMAIN keys = {g \in Asked(q) \cap Fish : fish[g].state = "live" /\ fish[g].home \in Access!JoinedAquariums(u)}
        /\ \A x \in DOMAIN keys : keys[x] = photo[x]
      BY <1>0, <2>1 DEF Access!FishKeys
  <2>4. asks[q].op = "links"
      BY <1>1, <1>6 DEF TaskTyped, LinkStages
  <2>5. \A x \in DOMAIN keys : x \in Asked(q) /\ Access!MaySee(u, x) /\ keys[x] = photo[x]
      BY <1>2, <2>3
  <2>6. \A x \in Asked(q) \ DOMAIN keys : x \in Fish => ~Access!MaySee(u, x)
      BY <1>2, <2>3
  <2> HIDE DEF u, A
  <2> QED BY <1>0, <1>6, <2>2, <2>4, <2>5, <2>6, FoundAcc DEF LinkStages, u
<1> QED BY <1>4, <1>5, <1>6 DEF Access!FindKeys

-----------------------------------------------------------------------------
(* Steps that change rows. *)

\* The acting request is sound after the step, and the others stay it.
LEMMA RowStep ==
    ASSUME AccInv, Access!Next, Steady, TablesTyped', Access!FishFollowAquarium', NEW q \in Tasks, TaskSound(q)',
           \A p \in Tasks \ {q} : asks'[p] = asks[p]
    PROVE  AccInv'
<1>1. ASSUME NEW p \in Tasks PROVE TaskSound(p)'
    BY OthersSound
<1> QED BY <1>1 DEF AccInv

\* No request acts.
LEMMA QuietStep ==
    ASSUME AccInv, Access!Next, Steady, TablesTyped', Access!FishFollowAquarium', UNCHANGED asks
    PROVE  AccInv'
<1>1. ASSUME NEW p \in Tasks PROVE TaskSound(p)'
    BY OthersSound
<1> QED BY <1>1 DEF AccInv

LEMMA CreateAcc ==
    ASSUME AccInv, Access!Next, NEW q \in Tasks, NEW a \in Aquariums, Access!Create(q, a)
    PROVE  AccInv'
<1>1. TablesTyped /\ Access!FishFollowAquarium
    BY DEF AccInv
<1>2. /\ Access!Ends(q) /\ tank' = [tank EXCEPT ![a] = "live"] /\ tank[a] = "none"
      /\ UNCHANGED <<crew, fish, photo, left, late>>
    BY DEF Access!Create
<1>3. /\ TaskSound(q)' /\ \A p \in Tasks \ {q} : asks'[p] = asks[p]
      /\ asks' = [p \in Tasks |-> asks'[p]]
    BY <1>2, EndsReady
<1>4. \A b \in Aquariums : tank'[b] = IF b = a THEN "live" ELSE tank[b]
    BY <1>1, <1>2 DEF TablesTyped
<1>5. Steady
    BY <1>2, <1>4 DEF Steady
<1>6. TablesTyped'
  <2>1. Access!Entities' = Access!Entities
      BY DEF Access!Entities
  <2>2. tank' \in [Aquariums -> {"none", "live", "deleted"}]
      BY <1>1, <1>2 DEF TablesTyped
  <2>3. \A f \in Fish : fish[f].home \in Aquariums /\ (fish[f].state # "none" => tank[fish[f].home] # "none")
      BY <1>1 DEF TablesTyped
  <2> QED BY <1>1, <1>2, <1>3, <1>4, <2>1, <2>2, <2>3 DEF TablesTyped
<1>7. Access!FishFollowAquarium'
  <2>1. \A f \in Fish : fish[f].home \in Aquariums
      BY <1>1 DEF TablesTyped
  <2> QED BY <1>1, <1>2, <1>4, <2>1 DEF Access!FishFollowAquarium
<1>8. \A p \in Tasks \ {q} : asks'[p] = asks[p]
    BY <1>3
<1> QED BY <1>3, <1>5, <1>6, <1>7, <1>8, RowStep

LEMMA CommitAquariumAcc ==
    ASSUME AccInv, Access!Next, NEW q \in Tasks, NEW a \in Aquariums, Access!CommitAquarium(q, a)
    PROVE  AccInv'
<1>1. TablesTyped /\ Access!FishFollowAquarium /\ TaskTyped(q) /\ TaskOwns(q)
    BY DEF AccInv, TaskSound
<1>2. /\ Access!Ends(q) /\ asks[q].stage = "commit" /\ asks[q].aq = {a}
      /\ tank' = IF asks[q].op \in Access!Deletions THEN [tank EXCEPT ![a] = "deleted"] ELSE tank
      /\ fish' = [f \in Fish |-> IF f \in asks[q].rows THEN [fish[f] EXCEPT !.state = "deleted"] ELSE fish[f]]
      /\ UNCHANGED <<crew, photo, left, late>>
    BY DEF Access!CommitAquarium
<1>3. /\ TaskSound(q)' /\ \A p \in Tasks \ {q} : asks'[p] = asks[p]
      /\ asks' = [p \in Tasks |-> asks'[p]]
    BY <1>2, EndsReady
<1>4. \A b \in Aquariums : tank'[b] = IF b = a /\ asks[q].op \in Access!Deletions THEN "deleted" ELSE tank[b]
    BY <1>1, <1>2 DEF TablesTyped
<1>5. tank[a] # "none" /\ \A f \in asks[q].rows : fish[f].state # "none"
    BY <1>1, <1>2 DEF TaskTyped
<1>6. ASSUME NEW f \in Fish
      PROVE  /\ fish[f].home \in Aquariums /\ (fish[f].state # "none" => tank[fish[f].home] # "none")
             /\ fish'[f].home = fish[f].home /\ fish'[f].state = IF f \in asks[q].rows THEN "deleted" ELSE fish[f].state
  <2>1. fish[f] \in [state : {"none", "live", "deleted"}, home : Aquariums]
      BY <1>1 DEF TablesTyped
  <2> QED BY <1>1, <1>2, <2>1 DEF TablesTyped
<1>7. Steady
    BY <1>2, <1>4, <1>5, <1>6 DEF Steady
<1>8. TablesTyped'
  <2>1. Access!Entities' = Access!Entities
      BY DEF Access!Entities
  <2>2. tank' \in [Aquariums -> {"none", "live", "deleted"}]
      BY <1>1, <1>2 DEF TablesTyped
  <2>3. fish' \in [Fish -> [state : {"none", "live", "deleted"}, home : Aquariums]]
      BY <1>1, <1>2 DEF TablesTyped
  <2>4. \A f \in Fish : fish'[f].state # "none" => tank'[fish'[f].home] # "none"
      BY <1>4, <1>5, <1>6
  <2> QED BY <1>1, <1>2, <1>3, <2>1, <2>2, <2>3, <2>4 DEF TablesTyped
<1>9. Access!FishFollowAquarium'
  <2> SUFFICES ASSUME NEW f \in Fish, fish'[f].state = "live", tank'[fish'[f].home] = "deleted" PROVE f \in late'
      BY DEF Access!FishFollowAquarium
  <2>1. fish[f].state = "live" /\ f \notin asks[q].rows
      BY <1>6
  <2>2. CASE tank[fish[f].home] = "deleted"
      BY <1>1, <1>2, <2>1, <2>2 DEF Access!FishFollowAquarium
  <2>3. CASE tank[fish[f].home] # "deleted"
    <3>1. asks[q].op \in Access!Deletions /\ fish[f].home = a
        BY <1>4, <1>6, <2>3
    <3> QED BY <1>1, <1>2, <2>1, <3>1 DEF TaskOwns
  <2> QED BY <2>2, <2>3
<1>10. \A p \in Tasks \ {q} : asks'[p] = asks[p]
    BY <1>3
<1> QED BY <1>3, <1>7, <1>8, <1>9, <1>10, RowStep

LEMMA CommitFishAcc ==
    ASSUME AccInv, Access!Next, NEW q \in Tasks, NEW f \in Fish, Access!CommitFish(q, f)
    PROVE  AccInv'
<1>1. TablesTyped /\ Access!FishFollowAquarium /\ TaskTyped(q)
    BY DEF AccInv, TaskSound
<1>2. PICK a \in Aquariums : asks[q].aq = {a}
    BY <1>1 DEF TaskTyped, Access!CommitFish
<1>3. (CHOOSE b \in Aquariums : asks[q].aq = {b}) = a
    BY <1>2
<1>4. /\ Access!Ends(q) /\ asks[q].fish = {f} /\ asks[q].op \in {"add", "edit", "remove", "drop"}
      /\ fish' = CASE asks[q].op = "add" -> [fish EXCEPT ![f] = [state |-> "live", home |-> a]]
                   [] asks[q].op \in {"remove", "drop"} -> [fish EXCEPT ![f].state = "deleted"]
                   [] OTHER -> fish
      /\ late' = IF asks[q].op = "add" /\ Access!Closing(a) THEN late \cup {f} ELSE late
      /\ UNCHANGED <<tank, crew, photo, left>>
    BY <1>3 DEF Access!CommitFish
<1>5. /\ TaskSound(q)' /\ \A p \in Tasks \ {q} : asks'[p] = asks[p]
      /\ asks' = [p \in Tasks |-> asks'[p]]
    BY <1>4, EndsReady
<1>6. /\ tank[a] # "none" /\ (asks[q].op \in {"remove", "drop"} => fish[f].state # "none")
      /\ fish \in [Fish -> [state : {"none", "live", "deleted"}, home : Aquariums]]
    BY <1>1, <1>2, <1>4 DEF TaskTyped, TablesTyped
<1>7. ASSUME NEW g \in Fish
      PROVE  /\ fish[g].home \in Aquariums /\ (fish[g].state # "none" => tank[fish[g].home] # "none")
             /\ fish'[g].home = IF g = f /\ asks[q].op = "add" THEN a ELSE fish[g].home
             /\ fish'[g].state = IF g = f /\ asks[q].op = "add" THEN "live"
                                 ELSE IF g = f /\ asks[q].op \in {"remove", "drop"} THEN "deleted" ELSE fish[g].state
  <2>1. fish[g].home \in Aquariums /\ (fish[g].state # "none" => tank[fish[g].home] # "none")
      BY <1>1 DEF TablesTyped
  <2>2. CASE asks[q].op = "add"
      BY <1>4, <1>6, <2>2, <2>1
  <2>3. CASE asks[q].op \in {"remove", "drop"}
      BY <1>4, <1>6, <2>3, <2>1
  <2>4. CASE asks[q].op = "edit"
      BY <1>4, <1>6, <2>4, <2>1
  <2> QED BY <1>4, <2>2, <2>3, <2>4
<1>8. Steady
  <2>1. \A g \in Fish : fish'[g].state = "live" =>
           g \in late' \/ (fish[g].state = "live" /\ fish[g].home = fish'[g].home) \/ ~Access!Closing(fish'[g].home)
      BY <1>4, <1>7
  <2>2. \A g \in Fish : fish[g].state # "none" => fish'[g].state # "none"
      BY <1>7
  <2> QED BY <1>4, <2>1, <2>2 DEF Steady
<1>9. TablesTyped'
  <2>1. Access!Entities' = Access!Entities
      BY DEF Access!Entities
  <2>2. fish' \in [Fish -> [state : {"none", "live", "deleted"}, home : Aquariums]]
    <3>1. CASE asks[q].op = "add"
        BY <1>4, <1>6, <3>1
    <3>2. CASE asks[q].op \in {"remove", "drop"}
        BY <1>4, <1>6, <3>2
    <3>3. CASE asks[q].op = "edit"
        BY <1>4, <1>6, <3>3
    <3> QED BY <1>4, <3>1, <3>2, <3>3
  <2>3. \A g \in Fish : fish'[g].state # "none" => tank'[fish'[g].home] # "none"
      BY <1>4, <1>6, <1>7
  <2>4. late' \subseteq Fish
      BY <1>1, <1>4 DEF TablesTyped
  <2> QED BY <1>1, <1>4, <1>5, <2>1, <2>2, <2>3, <2>4 DEF TablesTyped
<1>10. Access!FishFollowAquarium'
  <2> SUFFICES ASSUME NEW g \in Fish, fish'[g].state = "live", tank'[fish'[g].home] = "deleted" PROVE g \in late'
      BY DEF Access!FishFollowAquarium
  <2>1. CASE g = f /\ asks[q].op = "add"
    <3>1. Access!Closing(a)
        BY <1>4, <1>7, <2>1 DEF Access!Closing
    <3> QED BY <1>4, <2>1, <3>1
  <2>2. CASE ~(g = f /\ asks[q].op = "add")
      BY <1>1, <1>4, <1>7, <2>2 DEF Access!FishFollowAquarium
  <2> QED BY <2>1, <2>2
<1>11. \A p \in Tasks \ {q} : asks'[p] = asks[p]
    BY <1>5
<1> QED BY <1>5, <1>8, <1>9, <1>10, <1>11, RowStep

LEMMA MoveAcc ==
    ASSUME AccInv, Access!Next, NEW f \in Fish, NEW a \in Aquariums, Access!Move(f, a)
    PROVE  AccInv'
<1>1. TablesTyped /\ Access!FishFollowAquarium
    BY DEF AccInv
<1>2. /\ fish' = [fish EXCEPT ![f].home = a] /\ tank[a] = "live"
      /\ late' = IF Access!Closing(a) THEN late \cup {f} ELSE late
      /\ UNCHANGED <<tank, crew, photo, left, asks>>
    BY DEF Access!Move
<1>3. fish \in [Fish -> [state : {"none", "live", "deleted"}, home : Aquariums]]
    BY <1>1 DEF TablesTyped
<1>4. \A g \in Fish : fish'[g].state = fish[g].state /\ fish'[g].home = IF g = f THEN a ELSE fish[g].home
    BY <1>2, <1>3
<1>5. Steady
    BY <1>2, <1>4 DEF Steady
<1>6. TablesTyped'
  <2>1. Access!Entities' = Access!Entities
      BY DEF Access!Entities
  <2>2. fish' \in [Fish -> [state : {"none", "live", "deleted"}, home : Aquariums]]
      BY <1>2, <1>3
  <2>3. \A g \in Fish : fish'[g].state # "none" => tank'[fish'[g].home] # "none"
      BY <1>1, <1>2, <1>4 DEF TablesTyped
  <2>4. late' \subseteq Fish
      BY <1>1, <1>2 DEF TablesTyped
  <2> QED BY <1>1, <1>2, <2>1, <2>2, <2>3, <2>4 DEF TablesTyped
<1>7. Access!FishFollowAquarium'
    BY <1>1, <1>2, <1>4 DEF Access!FishFollowAquarium
<1> QED BY <1>2, <1>5, <1>6, <1>7, QuietStep

\* Members, accounts and photos change under requests.
LEMMA PeopleAcc ==
    ASSUME AccessConstants, AccInv, Access!Next, UNCHANGED <<tank, fish, late, asks>>,
           \/ \E u \in Guests, a \in Aquariums : Access!Join(u, a) \/ Access!Quit(u, a)
           \/ \E u \in Guests : Access!LeaveForGood(u)
           \/ \E x \in Pictured : Access!NewPhoto(x)
    PROVE  AccInv'
<1>1. TablesTyped /\ Access!FishFollowAquarium
    BY DEF AccInv
<1>2. Steady
    BY DEF Steady
<1>3. Access!Entities' = Access!Entities
    BY DEF Access!Entities
<1>4. TablesTyped'
  <2>1. ASSUME NEW u \in Guests, NEW a \in Aquariums, Access!Join(u, a) \/ Access!Quit(u, a) PROVE TablesTyped'
    <3>1. crew' \in [Aquariums -> SUBSET Keepers] /\ \A b \in Aquariums : OwnerOf[b] \notin crew'[b]
        BY <1>1, <2>1 DEF Access!Join, Access!Quit, TablesTyped, AccessConstants
    <3>2. UNCHANGED <<photo, left>>
        BY <2>1 DEF Access!Join, Access!Quit
    <3> QED BY <1>1, <1>3, <3>1, <3>2 DEF TablesTyped
  <2>2. ASSUME NEW u \in Guests, Access!LeaveForGood(u) PROVE TablesTyped'
      BY <1>1, <1>3, <2>2 DEF Access!LeaveForGood, TablesTyped
  <2>3. ASSUME NEW x \in Pictured, Access!NewPhoto(x) PROVE TablesTyped'
    <3>1. photo' \in [Access!Entities -> 0..MaxPhoto]
      <4>1. photo \in [Access!Entities -> 0..MaxPhoto] /\ photo' = [photo EXCEPT ![x] = photo[x] + 1] /\ photo[x] < MaxPhoto
          BY <1>1, <2>3 DEF Access!NewPhoto, TablesTyped
      <4>2. MaxPhoto \in Nat
          BY DEF AccessConstants
      <4>3. ASSUME x \in Access!Entities PROVE photo[x] + 1 \in 0..MaxPhoto
          BY <4>1, <4>2, <4>3
      <4> QED BY <4>1, <4>3
    <3> QED BY <1>1, <1>3, <2>3, <3>1 DEF Access!NewPhoto, TablesTyped
  <2> QED BY <2>1, <2>2, <2>3
<1>5. Access!FishFollowAquarium'
    BY <1>1 DEF Access!FishFollowAquarium
<1> QED BY <1>2, <1>4, <1>5, QuietStep

LEMMA AccStep == ASSUME AccessConstants, AccInv, [Access!Next]_accessVars PROVE AccInv'
<1>1. CASE UNCHANGED accessVars
    BY <1>1 DEF accessVars, AccInv, TablesTyped, TaskSound, TaskTyped, TaskOwns, TaskLinks, Asked, IsTask,
                Access!FishFollowAquarium, Access!Entities
<1>2. CASE Access!Next
  <2>1. ASSUME NEW q \in Tasks, NEW a \in Aquariums,
               \/ Access!Create(q, a) \/ Access!Check(q, a) \/ Access!CheckRole(q, a) \/ Access!Cascade(q, a)
               \/ Access!CommitAquarium(q, a)
        PROVE  AccInv'
      BY <1>2, <2>1, CreateAcc, CheckAcc, CascadeAcc, CommitAquariumAcc
  <2>2. ASSUME NEW q \in Tasks, NEW a \in Aquariums, NEW op \in {"read", "update", "delete", "add"}, NEW f \in Fish,
               Access!AskAquarium(q, op, a, f)
        PROVE  AccInv'
      BY <1>2, <2>2, AskAquariumAcc
  <2>3. ASSUME NEW q \in Tasks, NEW f \in Fish, Access!CommitFish(q, f) PROVE AccInv'
      BY <1>2, <2>3, CommitFishAcc
  <2>13. ASSUME NEW q \in Tasks, NEW x \in Aquariums \cup Fish, Access!AskSync(q, x) PROVE AccInv'
      BY <1>2, <2>13, AskSyncAcc
  <2>14. ASSUME NEW q \in Tasks,
                \/ \E f \in Fish : Access!FindFish(q, f)
                \/ \E a \in Aquariums : Access!FindAquarium(q, a)
         PROVE  AccInv'
      BY <1>2, <2>14, FindAcc
  <2>4. ASSUME NEW q \in Tasks, NEW f \in Fish, NEW op \in {"read", "edit", "remove"}, Access!AskFish(q, op, f)
        PROVE  AccInv'
      BY <1>2, <2>4, AskFishAcc
  <2>5. ASSUME NEW q \in Tasks, Access!Load(q) \/ Access!Done(q) PROVE AccInv'
    <3>1. Access!Ends(q) /\ UNCHANGED <<tank, crew, fish, photo, left, late>>
        BY <2>5 DEF Access!Load, Access!Done, Access!rowVars
    <3> QED BY <1>2, <3>1, EndsTask
  <2>6. ASSUME NEW q \in Tasks, Access!FindKeys(q) PROVE AccInv'
      BY <1>2, <2>6, FindKeysAcc
  <2>7. ASSUME NEW q \in Tasks, NEW items \in Lists, Access!AskLinks(q, items) PROVE AccInv'
      BY <1>2, <2>7, AskLinksAcc
  <2>8. ASSUME NEW u \in Guests, NEW a \in Aquariums, Access!Join(u, a) \/ Access!Quit(u, a) PROVE AccInv'
    <3>1. UNCHANGED <<tank, fish, late, asks>>
        BY <2>8 DEF Access!Join, Access!Quit
    <3> QED BY <1>2, <2>8, <3>1, PeopleAcc
  <2>9. ASSUME NEW u \in Guests, Access!LeaveForGood(u) PROVE AccInv'
    <3>1. UNCHANGED <<tank, fish, late, asks>>
        BY <2>9 DEF Access!LeaveForGood
    <3> QED BY <1>2, <2>9, <3>1, PeopleAcc
  <2>10. ASSUME NEW x \in Pictured, Access!NewPhoto(x) PROVE AccInv'
    <3>1. UNCHANGED <<tank, fish, late, asks>>
        BY <2>10 DEF Access!NewPhoto
    <3> QED BY <1>2, <2>10, <3>1, PeopleAcc
  <2>11. ASSUME NEW f \in Fish, NEW a \in Aquariums, Access!Move(f, a) PROVE AccInv'
      BY <1>2, <2>11, MoveAcc
  <2>12. Access!Step
      BY <1>2 DEF Access!Next
  <2> QED BY <2>1, <2>2, <2>3, <2>4, <2>5, <2>6, <2>7, <2>8, <2>9, <2>10, <2>11, <2>12, <2>13, <2>14
      DEF Access!Step
<1> QED BY <1>1, <1>2

\* check_access and the services of aquariums, fish and links: the joins of a
\* batch and the checks of an upload agree on every entity, a batch answers with
\* photos that its user could see meanwhile and is silent only on what the user
\* could not see at some time, and a live fish in a deleted aquarium got there
\* while it was being deleted; for any people, aquariums, fish and requests.
THEOREM AccessSound == ServicesSpec => []AccessInv
<1> DEFINE Held == component = "access" => AccInv
<1>0. AccessConstants
    BY ServicesAssumption DEF ServicesAssumption, AccessConstants
<1>1. ServicesInit => Held
    BY <1>0, AccInit DEF ServicesInit
<1>2. Held /\ [ServicesNext]_servicesVars => Held'
  <2> SUFFICES ASSUME Held, [ServicesNext]_servicesVars, component' = "access" PROVE AccInv'
      OBVIOUS
  <2>1. component = "access" /\ [Access!Next]_accessVars
      BY DEF ServicesNext, servicesVars, households
  <2> QED BY <2>1, <1>0, AccStep
<1>3. Held => AccessInv
    BY <1>0, AccessHolds DEF AccessInv
<1> QED BY <1>1, <1>2, <1>3, PTL DEF ServicesSpec

\* Who deletes a fish had it in an aquarium where he may.
LEMMA DeletedStep ==
    ASSUME AccInv, Access!Next, NEW f \in Fish, fish[f].state = "live", fish'[f].state = "deleted"
    PROVE  \E q \in Tasks : /\ asks[q].stage = "commit" /\ asks'[q].stage = "new"
                            /\ \E a \in Aquariums : <<f, a>> \in housed[q] /\ Access!Right(q, a)
<1>1. fish \in [Fish -> [state : {"none", "live", "deleted"}, home : Aquariums]]
    BY DEF AccInv, TablesTyped
<1>2. ASSUME NEW q \in Tasks, NEW a \in Aquariums, Access!CommitAquarium(q, a)
      PROVE  /\ asks[q].stage = "commit" /\ asks'[q].stage = "new"
             /\ <<f, a>> \in housed[q] /\ Access!Right(q, a)
  <2>1. /\ TaskTyped(q) /\ TaskOwns(q) /\ Access!Ends(q) /\ asks[q].stage = "commit" /\ asks[q].aq = {a}
      BY <1>2 DEF AccInv, TaskSound, Access!CommitAquarium
  <2>2. f \in asks[q].rows
      BY <1>2 DEF Access!CommitAquarium
  <2>3. asks'[q] = Access!Ready(WhoOf[q])
      BY <2>1, EndsReady
  <2>4. Access!Right(q, a)
      BY <2>1, MayWrite
  <2> QED BY <2>1, <2>2, <2>3, <2>4 DEF TaskOwns, Access!Ready
<1>3. ASSUME NEW q \in Tasks, NEW g \in Fish, Access!CommitFish(q, g)
      PROVE  /\ asks[q].stage = "commit" /\ asks'[q].stage = "new"
             /\ \E a \in Aquariums : <<f, a>> \in housed[q] /\ Access!Right(q, a)
  <2>1. TaskTyped(q) /\ TaskOwns(q) /\ Access!Ends(q) /\ asks[q].stage = "commit" /\ asks[q].fish = {g}
      BY <1>3 DEF AccInv, TaskSound, Access!CommitFish
  <2>2. PICK a \in Aquariums : asks[q].aq = {a}
      BY <2>1 DEF TaskTyped
  <2>3. asks[q].op \in {"remove", "drop"} /\ g = f
    <3>1. asks[q].op \in {"add", "edit", "remove", "drop"}
        BY <1>3 DEF Access!CommitFish
    <3>2. CASE asks[q].op = "add"
      <4>1. PICK b : fish' = [fish EXCEPT ![g] = [state |-> "live", home |-> b]]
          BY <1>3, <3>2 DEF Access!CommitFish
      <4> QED BY <1>1, <4>1
    <3>3. CASE asks[q].op = "edit"
        BY <1>3, <3>3 DEF Access!CommitFish
    <3>4. CASE asks[q].op \in {"remove", "drop"}
      <4>1. fish' = [fish EXCEPT ![g].state = "deleted"]
          BY <1>3, <3>4 DEF Access!CommitFish
      <4> QED BY <1>1, <3>4, <4>1
    <3> QED BY <3>1, <3>2, <3>3, <3>4
  <2>4. asks'[q] = Access!Ready(WhoOf[q])
      BY <2>1, EndsReady
  <2>5. Access!Right(q, a)
      BY <2>1, <2>2, MayWrite
  <2> QED BY <2>1, <2>2, <2>3, <2>4, <2>5 DEF TaskOwns, Access!Ready
<1>4. ASSUME NEW q \in Tasks, NEW a \in Aquariums,
             \/ Access!Create(q, a) \/ Access!Check(q, a) \/ Access!CheckRole(q, a) \/ Access!Cascade(q, a)
             \/ Access!FindAquarium(q, a)
             \/ \E op \in {"read", "update", "delete", "add"}, g \in Fish : Access!AskAquarium(q, op, a, g)
      PROVE  FALSE
    BY <1>4 DEF Access!Create, Access!Check, Access!CheckRole, Access!Cascade, Access!FindAquarium,
                Access!AskAquarium, Access!rowVars
<1>7. ASSUME NEW q \in Tasks,
             \/ \E g \in Fish, op \in {"read", "edit", "remove"} : Access!AskFish(q, op, g)
             \/ \E g \in Fish : Access!FindFish(q, g)
             \/ \E x \in Aquariums \cup Fish : Access!AskSync(q, x)
             \/ Access!Load(q) \/ Access!FindKeys(q) \/ Access!Done(q) \/ \E items \in Lists : Access!AskLinks(q, items)
      PROVE  FALSE
    BY <1>7 DEF Access!AskFish, Access!FindFish, Access!AskSync, Access!Load, Access!FindKeys, Access!Done,
                Access!AskLinks, Access!rowVars
<1>8. ASSUME \/ \E u \in Guests, a \in Aquariums : Access!Join(u, a) \/ Access!Quit(u, a)
             \/ \E u \in Guests : Access!LeaveForGood(u)
             \/ \E x \in Pictured : Access!NewPhoto(x)
      PROVE  FALSE
    BY <1>8 DEF Access!Join, Access!Quit, Access!LeaveForGood, Access!NewPhoto
<1>5. ASSUME NEW g \in Fish, NEW a \in Aquariums, Access!Move(g, a) PROVE FALSE
    BY <1>1, <1>5 DEF Access!Move
<1>6. Access!Step
    BY DEF Access!Next
<1> QED BY <1>2, <1>3, <1>4, <1>5, <1>6, <1>7, <1>8 DEF Access!Step

\* So has who deletes an aquarium.
LEMMA SweptStep ==
    ASSUME AccInv, Access!Next, NEW a \in Aquariums, tank[a] = "live", tank'[a] = "deleted"
    PROVE  \E q \in Tasks : asks[q].stage = "commit" /\ asks'[q].stage = "new" /\ Access!Right(q, a)
<1>1. tank \in [Aquariums -> {"none", "live", "deleted"}]
    BY DEF AccInv, TablesTyped
<1>2. PICK q \in Tasks, b \in Aquariums : Access!CommitAquarium(q, b)
  <2>1. ASSUME NEW q \in Tasks, NEW b \in Aquariums,
               \/ Access!Check(q, b) \/ Access!CheckRole(q, b) \/ Access!Cascade(q, b) \/ Access!FindAquarium(q, b)
               \/ \E op \in {"read", "update", "delete", "add"}, g \in Fish : Access!AskAquarium(q, op, b, g)
        PROVE  FALSE
      BY <2>1 DEF Access!Check, Access!CheckRole, Access!Cascade, Access!FindAquarium, Access!AskAquarium, Access!rowVars
  <2>2. ASSUME NEW q \in Tasks, NEW b \in Aquariums, Access!Create(q, b) PROVE FALSE
      BY <1>1, <2>2 DEF Access!Create
  <2>3. ASSUME NEW q \in Tasks,
               \/ \E g \in Fish : Access!CommitFish(q, g) \/ Access!FindFish(q, g)
               \/ \E g \in Fish, op \in {"read", "edit", "remove"} : Access!AskFish(q, op, g)
               \/ \E x \in Aquariums \cup Fish : Access!AskSync(q, x)
               \/ Access!Load(q) \/ Access!FindKeys(q) \/ Access!Done(q) \/ \E items \in Lists : Access!AskLinks(q, items)
        PROVE  FALSE
      BY <2>3 DEF Access!CommitFish, Access!AskFish, Access!FindFish, Access!AskSync, Access!Load, Access!FindKeys,
                  Access!Done, Access!AskLinks, Access!rowVars
  <2>4. ASSUME \/ \E u \in Guests, b \in Aquariums : Access!Join(u, b) \/ Access!Quit(u, b)
               \/ \E u \in Guests : Access!LeaveForGood(u)
               \/ \E x \in Pictured : Access!NewPhoto(x)
               \/ \E g \in Fish, b \in Aquariums : Access!Move(g, b)
        PROVE  FALSE
      BY <2>4 DEF Access!Join, Access!Quit, Access!LeaveForGood, Access!NewPhoto, Access!Move
  <2>5. Access!Step
      BY DEF Access!Next
  <2> QED BY <2>1, <2>2, <2>3, <2>4, <2>5 DEF Access!Step
<1>3. b = a /\ asks[q].stage = "commit" /\ asks[q].aq = {b} /\ Access!Ends(q)
    BY <1>1, <1>2 DEF Access!CommitAquarium
<1>4. asks'[q] = Access!Ready(WhoOf[q])
    BY <1>3, EndsReady
<1>5. Access!Right(q, a)
    BY <1>3, MayWrite DEF AccInv, TaskSound
<1> QED BY <1>3, <1>4, <1>5 DEF Access!Ready

\* delete_aquarium, remove_fish, _apply_aquarium_change, _apply_fish_change: an
\* aquarium or a fish is deleted only by the commit of a request of the owner,
\* or of a sync of one who was the owner or a member while it ran, whatever
\* moves, joins and deletions come between its checks and its commit.
THEOREM OnlyInsidersDelete == ServicesSpec => DeletedByRight
<1> DEFINE Held == component = "access" => AccInv
           Rightly ==
              /\ \A f \in Fish : fish[f].state = "live" /\ fish'[f].state = "deleted" =>
                    \E q \in Tasks : /\ asks[q].stage = "commit" /\ asks'[q].stage = "new"
                                     /\ \E a \in Aquariums : <<f, a>> \in housed[q] /\ Access!Right(q, a)
              /\ \A a \in Aquariums : tank[a] = "live" /\ tank'[a] = "deleted" =>
                    \E q \in Tasks : asks[q].stage = "commit" /\ asks'[q].stage = "new" /\ Access!Right(q, a)
<1>0. AccessConstants
    BY ServicesAssumption DEF ServicesAssumption, AccessConstants
<1>1. ServicesInit => Held
    BY <1>0, AccInit DEF ServicesInit
<1>2. Held /\ [ServicesNext]_servicesVars => Held'
  <2> SUFFICES ASSUME Held, [ServicesNext]_servicesVars, component' = "access" PROVE AccInv'
      OBVIOUS
  <2>1. component = "access" /\ [Access!Next]_accessVars
      BY DEF ServicesNext, servicesVars, households
  <2> QED BY <2>1, <1>0, AccStep
<1>3. Held /\ [ServicesNext]_servicesVars => [Rightly]_(Access!accessVars)
  <2> SUFFICES ASSUME Held, [ServicesNext]_servicesVars, ~UNCHANGED accessVars PROVE Rightly
      BY DEF Access!accessVars, accessVars
  <2>1. component = "access" /\ Access!Next
      BY DEF ServicesNext, servicesVars, households, clients
  <2> QED BY <2>1, DeletedStep, SweptStep
<1> QED BY <1>1, <1>2, <1>3, PTL DEF ServicesSpec, DeletedByRight, Access!DeletedByRight
=============================================================================
