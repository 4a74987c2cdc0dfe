----------------------------- MODULE QuotasProofs -----------------------------
(* Proofs about the quotas, the species catalogue and the recognition of fish: *)
(* how far limits that are checked before the work and counted after it can be *)
(* exceeded, why a cached species may be old, and what a scan was asked, found *)
(* and confirmed; for any requests, limits, species, readers and photos.       *)
EXTENDS Recognition, FiniteSetTheorems, TLAPS

\* What the proofs use of the constants.
LEMMA Constants ==
    /\ IsFiniteSet(Requests) /\ Full \in Nat /\ MinuteLen \in Nat \ {0}
    /\ Limit \in [Gates -> Nat \ {0}]
    /\ MaxTime \in Nat /\ MaxTrouble \in Nat
BY QuotasAssumption

\* A request in state q has passed gate g and is not counted yet.
Inside(q, g) == q.kind = g /\ q.stage \in {"work", "record", "count"}

\* It has been served as well: a count is due.
Owes(q, g) ==
    q.kind = g /\ q.stage \in {"record", "count"} /\ (g = "push" \/ q.fresh)

Number(b) == IF b THEN 1 ELSE 0

Working(g) == {r \in Requests : Inside(req[r], g)}
Owing(g)   == {r \in Requests : Owes(req[r], g)}

\* What a request remembers is in order.
Sound(q) ==
    /\ q.loaded \in 0..Full
    /\ q.fresh => q.loaded > 0 /\ q.stage \in {"record", "count", "commit"}
    /\ q.stage = "record" => q.fresh
    /\ q.stage \in {"work", "record", "count", "commit"} => q.kind \in Gates

Loaded == \A r \in Requests : Sound(req[r])

\* The counter has room for those that have passed the gate, but for as many as
\* may pass it while one slot is left.
HitsBound ==
    \A g \in Gates : hits[g] + Cardinality(Working(g)) <= Limit[g] - 1 + Cardinality(Requests)

\* Whatever was done is counted, is about to be counted, or failed before that.
DoneBound ==
    \A g \in Gates : done[g] <= hits[g] + Cardinality(Owing(g)) + uncounted[g]

QuotasInv == TypeOK /\ Loaded /\ HitsBound /\ DoneBound

-----------------------------------------------------------------------------
(* Types. *)

LEMMA IdleIsRequest == Idle \in Request /\ Sound(Idle)
BY Constants DEF Idle, Request, Stages, Sound

LEMMA TypeInit == Init => TypeOK /\ Loaded
<1> SUFFICES ASSUME Init PROVE TypeOK /\ Loaded
    OBVIOUS
<1>1. Loaded /\ req \in [Requests -> Request]
    BY IdleIsRequest DEF Init, Loaded
<1>2. now \in 0..MaxTime /\ remaining \in 0..Full /\ trouble \in 0..MaxTrouble
    BY Constants DEF Init
<1>3. holder \in SUBSET Requests /\ Cardinality(holder) <= 1
    BY FS_EmptySet DEF Init
<1> QED BY <1>1, <1>2, <1>3 DEF Init, TypeOK

\* A step of one request.
LEMMA RequestType ==
    ASSUME TypeOK, Loaded, NEW r \in Requests,
           \E q \in Request : Sound(q) /\ req' = [req EXCEPT ![r] = q]
    PROVE  req' \in [Requests -> Request] /\ Loaded'
BY DEF TypeOK, Loaded

\* A request that ends.
LEMMA EndsType ==
    ASSUME TypeOK, Loaded, NEW r \in Requests, Ends(r)
    PROVE  req' \in [Requests -> Request] /\ Loaded'
BY IdleIsRequest, RequestType DEF Ends

\* A request that moves to a stage that asks nothing new of it.
LEMMA MoveType ==
    ASSUME TypeOK, Loaded, NEW r \in Requests, NEW t \in Stages, Move(r, t),
           req[r].fresh => t \in {"record", "count", "commit"},
           t = "record" => req[r].fresh,
           t \in {"work", "record", "count", "commit"} => req[r].kind \in Gates
    PROVE  req' \in [Requests -> Request] /\ Loaded'
<1> DEFINE q == [req[r] EXCEPT !.stage = t]
<1>1. req[r] \in Request /\ Sound(req[r])
    BY DEF TypeOK, Loaded
<1>2. q \in Request
    BY <1>1 DEF Request
<1>3. q.stage = t /\ q.kind = req[r].kind /\ q.loaded = req[r].loaded /\ q.fresh = req[r].fresh
    BY <1>1 DEF Request
<1>4. Sound(q)
    BY <1>1, <1>3 DEF Sound
<1>5. req' = [req EXCEPT ![r] = q]
    BY DEF Move
<1> HIDE DEF q
<1> QED BY <1>2, <1>4, <1>5, RequestType

\* A holder that lets go leaves no other.
LEMMA HolderType ==
    ASSUME TypeOK, NEW r
    PROVE  holder \ {r} \in SUBSET Requests /\ Cardinality(holder \ {r}) <= 1
<1>1. holder \in SUBSET Requests /\ Cardinality(holder) <= 1
    BY DEF TypeOK
<1>2. IsFiniteSet(holder)
    BY <1>1, FS_Subset, Constants
<1>3. Cardinality(holder) \in Nat
    BY <1>2, FS_CardinalityType
<1>4. Cardinality(holder \ {r}) =
         IF r \in holder THEN Cardinality(holder) - 1 ELSE Cardinality(holder)
    BY <1>2, FS_RemoveElement
<1> QED BY <1>1, <1>3, <1>4

\* What is let through now is no tick old; the history keeps its type as it ages.
LEMMA AgesType == 0 \in Ages
BY Constants DEF Ages

LEMMA OlderType ==
    ASSUME NEW S \in SUBSET (Ages \X Nat)
    PROVE  Older(S) \in SUBSET (Ages \X Nat)
BY DEF Older

\* The middleware, authentication and uploads keep the types.
LEMMA FrontType ==
    ASSUME TypeOK, Loaded, NEW r \in Requests,
           Arrive(r) \/ Pass(r) \/ Authenticate(r) \/ Upload(r)
    PROVE  TypeOK' /\ Loaded'
<1>1. req[r] \in Request /\ Sound(req[r])
    BY DEF TypeOK, Loaded
<1>2. CASE Arrive(r)
  <2>1. PICK k \in {"scan", "upload", "push"} :
            req' = [req EXCEPT ![r] = [Idle EXCEPT !.kind = k,
                                          !.stage = IF k = "push" THEN "gate" ELSE "ip"]]
      BY <1>2 DEF Arrive
  <2> DEFINE q == [Idle EXCEPT !.kind = k, !.stage = IF k = "push" THEN "gate" ELSE "ip"]
  <2>2. q \in Request /\ q.loaded = 0 /\ ~q.fresh /\ q.stage \in {"gate", "ip"}
      BY DEF Idle, Request, Stages
  <2>3. req' = [req EXCEPT ![r] = q]
      BY <2>1
  <2> HIDE DEF q
  <2>4. Sound(q)
      BY <2>2, Constants DEF Sound
  <2>5. req' \in [Requests -> Request] /\ Loaded'
      BY <2>2, <2>3, <2>4, RequestType
  <2> QED BY <1>2, <2>5 DEF Arrive, TypeOK, counters, history
<1>3. CASE Pass(r)
  <2> DEFINE s == req[r].stage
  <2>1. s \in {"ip", "user"} /\ passes' = [passes EXCEPT ![s] = @ + 1]
      BY <1>3 DEF Pass, TypeOK, Sides
  <2>2. ~req[r].fresh
      BY <1>1, <2>1 DEF Sound
  <2>3. Ends(r) \/ Move(r, "user") \/ Move(r, "auth")
      BY <1>3 DEF Pass
  <2>4. req' \in [Requests -> Request] /\ Loaded'
    <3>1. CASE Ends(r)
        BY <3>1, EndsType
    <3>2. CASE Move(r, "user")
        BY <2>2, <3>2, MoveType DEF Stages
    <3>3. CASE Move(r, "auth")
        BY <2>2, <3>3, MoveType DEF Stages
    <3> QED BY <2>3, <3>1, <3>2, <3>3
  <2>5. recent' \in [{"passed", "uploads"} -> SUBSET (Ages \X Nat)]
    <3>1. <<0, passes[s] + 1>> \in Ages \X Nat
        BY <2>1, AgesType DEF TypeOK, Sides
    <3>2. recent' = recent \/ recent' = [recent EXCEPT !["passed"] = @ \cup {<<0, passes[s] + 1>>}]
        BY <1>3 DEF Pass
    <3> QED BY <3>1, <3>2 DEF TypeOK
  <2>6. passes' \in [Sides -> Nat]
      BY <2>1 DEF TypeOK, Sides
  <2> QED BY <1>3, <2>4, <2>5, <2>6 DEF Pass, TypeOK
<1>4. CASE Authenticate(r)
  <2> DEFINE m == IF req[r].kind = "scan" THEN remaining ELSE 0
             q == [req[r] EXCEPT !.stage = "gate", !.loaded = m]
  <2>1. m \in 0..Full /\ m \in Nat
      BY Constants DEF TypeOK
  <2>2. q \in Request /\ q.loaded = m /\ q.fresh = req[r].fresh /\ q.stage = "gate"
      BY <1>1, <2>1 DEF Request, Stages
  <2>3. ~req[r].fresh
      BY <1>1, <1>4 DEF Sound, Authenticate
  <2>4. req' = [req EXCEPT ![r] = q]
      BY <1>4 DEF Authenticate
  <2> HIDE DEF q, m
  <2>5. Sound(q)
      BY <2>1, <2>2, <2>3 DEF Sound
  <2>6. req' \in [Requests -> Request] /\ Loaded'
      BY <2>2, <2>4, <2>5, RequestType
  <2>7. apart' \in BOOLEAN
      BY <1>4 DEF Authenticate
  <2> QED BY <1>4, <2>6, <2>7 DEF Authenticate, TypeOK, counters
<1>5. CASE Upload(r)
  <2>1. req' \in [Requests -> Request] /\ Loaded'
      BY <1>5, EndsType DEF Upload
  <2>2. recent' \in [{"passed", "uploads"} -> SUBSET (Ages \X Nat)]
    <3>1. <<0, upload.n + 1>> \in Ages \X Nat
        BY AgesType DEF TypeOK
    <3>2. recent' = recent \/ recent' = [recent EXCEPT !["uploads"] = @ \cup {<<0, upload.n + 1>>}]
        BY <1>5 DEF Upload
    <3> QED BY <3>1, <3>2 DEF TypeOK
  <2>3. upload' \in [n : Nat, exp : Nat]
      BY <1>5, Constants DEF Upload, TypeOK, Expires
  <2> QED BY <1>5, <2>1, <2>2, <2>3 DEF Upload, TypeOK
<1> QED BY <1>2, <1>3, <1>4, <1>5

\* The gates and the work behind them keep the types.
LEMMA WorkType ==
    ASSUME TypeOK, Loaded, NEW r \in Requests,
           Check(r) \/ Work(r) \/ Record(r) \/ Count(r)
    PROVE  TypeOK' /\ Loaded'
<1> DEFINE g == req[r].kind
<1>1. req[r] \in Request /\ Sound(req[r])
    BY DEF TypeOK, Loaded
<1>2. CASE Check(r)
  <2>1. ~req[r].fresh /\ g \in Gates
      BY <1>1, <1>2 DEF Check, Sound
  <2>2. req' \in [Requests -> Request] /\ Loaded'
    <3>1. CASE Move(r, "work")
        BY <2>1, <3>1, MoveType DEF Stages
    <3>2. CASE Ends(r)
        BY <3>2, EndsType
    <3> QED BY <1>2, <3>1, <3>2 DEF Check
  <2> QED BY <1>2, <2>2 DEF Check, TypeOK, counters, history
<1>3. CASE Work(r)
  <2>1. ~req[r].fresh /\ g \in Gates /\ req[r].stage = "work"
      BY <1>1, <1>3 DEF Work, Sound
  <2>2. done' \in [Gates -> Nat]
    <3>1. done' = done \/ done' = [done EXCEPT ![g] = @ + 1]
        BY <1>3 DEF Work
    <3> QED BY <2>1, <3>1 DEF TypeOK
  <2>3. req' \in [Requests -> Request] /\ Loaded'
    <3> DEFINE q == [req[r] EXCEPT !.stage = "record", !.fresh = TRUE]
    <3>1. CASE Left(r) /\ req' = [req EXCEPT ![r].stage = "record", ![r].fresh = TRUE]
      <4>1. q \in Request /\ q.stage = "record" /\ q.fresh
            /\ q.kind = g /\ q.loaded = req[r].loaded
          BY <1>1 DEF Request, Stages
      <4>2. req' = [req EXCEPT ![r] = q]
          BY <3>1
      <4> HIDE DEF q
      <4>3. Sound(q)
          BY <1>1, <2>1, <3>1, <4>1 DEF Sound, Left
      <4> QED BY <4>1, <4>2, <4>3, RequestType
    <3>2. CASE Move(r, "count")
        BY <2>1, <3>2, MoveType DEF Stages
    <3>3. CASE Ends(r)
        BY <3>3, EndsType
    <3> QED BY <1>3, <3>1, <3>2, <3>3 DEF Work
  <2> QED BY <1>3, <2>2, <2>3 DEF Work, TypeOK, counters
<1>4. CASE Record(r)
  <2>1. g \in Gates /\ Move(r, "count")
      BY <1>1, <1>4 DEF Record, Sound
  <2>2. req' \in [Requests -> Request] /\ Loaded'
      BY <2>1, MoveType DEF Stages
  <2>3. holder' \in SUBSET Requests /\ Cardinality(holder') <= 1
      BY <1>4, FS_Singleton DEF Record
  <2> QED BY <1>4, <2>2, <2>3 DEF Record, TypeOK, counters, history
<1>5. CASE Count(r)
  <2>1. g \in Gates
      BY <1>1, <1>5 DEF Count, Sound
  <2>2. req' \in [Requests -> Request] /\ Loaded'
    <3>1. CASE Move(r, "commit")
        BY <2>1, <3>1, MoveType DEF Stages
    <3>2. CASE Ends(r)
        BY <3>2, EndsType
    <3> QED BY <1>5, <3>1, <3>2 DEF Count
  <2>3. hits' \in [Gates -> Nat]
      BY <1>5, <2>1 DEF Count, TypeOK
  <2> QED BY <1>5, <2>2, <2>3 DEF Count, TypeOK, history
<1> QED BY <1>2, <1>3, <1>4, <1>5

\* The ends of a request keep the types; a credit is spent only by a request
\* that saw one.
LEMMA EndType ==
    ASSUME TypeOK, Loaded, NEW r \in Requests, Commit(r) \/ Fail(r)
    PROVE  TypeOK' /\ Loaded'
<1>1. req[r] \in Request /\ Sound(req[r])
    BY DEF TypeOK, Loaded
<1>2. Ends(r) /\ holder' = holder \ {r}
    BY DEF Commit, Fail
<1>3. req' \in [Requests -> Request] /\ Loaded'
    BY <1>2, EndsType
<1>4. holder' \in SUBSET Requests /\ Cardinality(holder') <= 1
    BY <1>2, HolderType
<1>5. CASE Commit(r)
  <2>1. Spent(r) \in 0..Full
      BY <1>1, Constants DEF Spent, Sound, TypeOK
  <2> QED BY <1>3, <1>4, <1>5, <2>1 DEF Commit, TypeOK, counters
<1>6. CASE Fail(r)
  <2>1. trouble' \in 0..MaxTrouble
      BY <1>6, Constants DEF Fail, TypeOK
  <2>2. uncounted' \in [Gates -> Nat]
    <3>1. uncounted' = uncounted
          \/ uncounted' = [uncounted EXCEPT ![req[r].kind] = @ + 1]
        BY <1>6 DEF Fail
    <3> QED BY <3>1 DEF TypeOK
  <2> QED BY <1>3, <1>4, <1>6, <2>1, <2>2 DEF Fail, TypeOK, counters
<1> QED BY <1>5, <1>6

\* Time and resets keep the types.
LEMMA OutsideType ==
    ASSUME TypeOK, Loaded, Tick \/ Reset
    PROVE  TypeOK' /\ Loaded'
<1>1. CASE Tick
  <2>1. now' \in 0..MaxTime
      BY <1>1, Constants DEF Tick, TypeOK
  <2>2. passes' \in [Sides -> Nat]
      BY <1>1 DEF Tick, TypeOK
  <2>3. upload' \in [n : Nat, exp : Nat]
      BY <1>1 DEF Tick, TypeOK
  <2>4. hits' \in [Gates -> Nat] /\ done' \in [Gates -> Nat] /\ uncounted' \in [Gates -> Nat]
      BY <1>1 DEF Tick, TypeOK
  <2>5. recent' \in [{"passed", "uploads"} -> SUBSET (Ages \X Nat)]
      BY <1>1, OlderType DEF Tick, TypeOK
  <2>6. UNCHANGED <<remaining, holder, req, trouble, recorded, apart>>
      BY <1>1 DEF Tick
  <2> QED BY <2>1, <2>2, <2>3, <2>4, <2>5, <2>6 DEF TypeOK, Loaded
<1>2. CASE Reset
  <2>1. trouble' \in 0..MaxTrouble /\ remaining' \in 0..Full /\ apart' \in BOOLEAN
      BY <1>2, Constants DEF Reset, TypeOK
  <2> QED BY <1>2, <2>1 DEF Reset, TypeOK, Loaded, counters
<1> QED BY <1>1, <1>2

\* Every step keeps the types.
LEMMA TypeStep ==
    ASSUME TypeOK, Loaded, [Next]_vars
    PROVE  TypeOK' /\ Loaded'
<1>1. CASE Tick \/ Reset
    BY <1>1, OutsideType
<1>2. ASSUME NEW r \in Requests,
             Arrive(r) \/ Pass(r) \/ Authenticate(r) \/ Upload(r)
      PROVE  TypeOK' /\ Loaded'
    BY <1>2, FrontType
<1>3. ASSUME NEW r \in Requests, Check(r) \/ Work(r) \/ Record(r) \/ Count(r)
      PROVE  TypeOK' /\ Loaded'
    BY <1>3, WorkType
<1>4. ASSUME NEW r \in Requests, Commit(r) \/ Fail(r)
      PROVE  TypeOK' /\ Loaded'
    BY <1>4, EndType
<1>5. CASE UNCHANGED vars
    BY <1>5 DEF vars, TypeOK, Loaded
<1> QED BY <1>1, <1>2, <1>3, <1>4, <1>5 DEF Next

\* Counters are counters, one request at most holds the user row, and the free
\* scans stay between zero and the reset value, however many concurrent scans
\* write them back (scan_image, _apply_free_tier_limits, reset_ai_scans).
THEOREM TypeCorrect == Spec => []TypeOK
<1>1. TypeOK /\ Loaded /\ [Next]_vars => (TypeOK /\ Loaded)'
    BY TypeStep
<1> QED BY TypeInit, <1>1, PTL DEF Spec

-----------------------------------------------------------------------------
(* The overshoot. *)

\* Two sets of requests that differ in one element at most.
LEMMA OneApart ==
    ASSUME NEW S, NEW T, NEW r, IsFiniteSet(S), S \ {r} = T \ {r}
    PROVE  /\ IsFiniteSet(T)
           /\ Cardinality(T) + Number(r \in S) = Cardinality(S) + Number(r \in T)
<1> DEFINE C == S \ {r}
<1>1. IsFiniteSet(C) /\ Cardinality(C) \in Nat
    BY FS_RemoveElement, FS_CardinalityType
<1>2. Cardinality(C \cup {r}) = Cardinality(C) + 1 /\ IsFiniteSet(C \cup {r})
    BY <1>1, FS_AddElement
<1>3. ASSUME NEW U, U \ {r} = C
      PROVE  IsFiniteSet(U) /\ Cardinality(U) = Cardinality(C) + Number(r \in U)
  <2>1. CASE r \in U
    <3>1. U = C \cup {r}
        BY <1>3, <2>1
    <3> QED BY <1>2, <2>1, <3>1 DEF Number
  <2>2. CASE r \notin U
    <3>1. U = C
        BY <1>3, <2>2
    <3> QED BY <1>1, <2>2, <3>1 DEF Number
  <2> QED BY <2>1, <2>2
<1>4. Number(r \in S) \in Nat /\ Number(r \in T) \in Nat
    BY DEF Number
<1> HIDE DEF C
<1>5. Cardinality(S) = Cardinality(C) + Number(r \in S)
    BY <1>3 DEF C
<1>6. IsFiniteSet(T) /\ Cardinality(T) = Cardinality(C) + Number(r \in T)
    BY <1>3 DEF C
<1> QED BY <1>1, <1>4, <1>5, <1>6

\* The sets of requests are finite, and no larger than all of them.
LEMMA Finite ==
    /\ Cardinality(Requests) \in Nat
    /\ \A g : /\ IsFiniteSet(Working(g)) /\ Cardinality(Working(g)) \in Nat
              /\ Cardinality(Working(g)) <= Cardinality(Requests)
              /\ IsFiniteSet(Owing(g)) /\ Cardinality(Owing(g)) \in Nat
              /\ Cardinality(Owing(g)) <= Cardinality(Working(g))
<1>1. ASSUME NEW S, IsFiniteSet(S), NEW T \in SUBSET S
      PROVE  IsFiniteSet(T) /\ Cardinality(T) \in Nat /\ Cardinality(T) <= Cardinality(S)
    BY <1>1, FS_Subset, FS_CardinalityType
<1>2. ASSUME NEW g
      PROVE  Working(g) \in SUBSET Requests /\ Owing(g) \in SUBSET Working(g)
    BY DEF Working, Owing, Inside, Owes
<1>3. IsFiniteSet(Requests) /\ Cardinality(Requests) \in Nat
    BY Constants, FS_CardinalityType
<1>4. ASSUME NEW g
      PROVE  /\ IsFiniteSet(Working(g)) /\ Cardinality(Working(g)) \in Nat
             /\ Cardinality(Working(g)) <= Cardinality(Requests)
    BY <1>1, <1>2, <1>3
<1>5. ASSUME NEW g
      PROVE  /\ IsFiniteSet(Owing(g)) /\ Cardinality(Owing(g)) \in Nat
             /\ Cardinality(Owing(g)) <= Cardinality(Working(g))
    BY <1>1, <1>2, <1>4
<1> QED BY <1>3, <1>4, <1>5

\* How the sets change when one request does.
LEMMA SetsChange ==
    ASSUME TypeOK, NEW r \in Requests, NEW q, req' = [req EXCEPT ![r] = q], NEW g
    PROVE  /\ Cardinality(Working(g)') + Number(Inside(req[r], g))
                = Cardinality(Working(g)) + Number(Inside(q, g))
           /\ Cardinality(Owing(g)') + Number(Owes(req[r], g))
                = Cardinality(Owing(g)) + Number(Owes(q, g))
           /\ Cardinality(Working(g)') \in Nat /\ Cardinality(Owing(g)') \in Nat
           /\ Cardinality(Working(g)') <= Cardinality(Requests)
<1>1. req'[r] = q /\ \A p \in Requests : p # r => req'[p] = req[p]
    BY DEF TypeOK
<1>2. Working(g) \ {r} = Working(g)' \ {r} /\ Owing(g) \ {r} = Owing(g)' \ {r}
    BY <1>1 DEF Working, Owing
<1>3. /\ (r \in Working(g)) = Inside(req[r], g) /\ (r \in Working(g)') = Inside(q, g)
      /\ (r \in Owing(g)) = Owes(req[r], g) /\ (r \in Owing(g)') = Owes(q, g)
    BY <1>1 DEF Working, Owing, Inside, Owes
<1>4. /\ Cardinality(Working(g)') + Number(r \in Working(g))
           = Cardinality(Working(g)) + Number(r \in Working(g)')
      /\ Cardinality(Owing(g)') + Number(r \in Owing(g))
           = Cardinality(Owing(g)) + Number(r \in Owing(g)')
      /\ IsFiniteSet(Working(g)') /\ IsFiniteSet(Owing(g)')
    BY <1>2, Finite, OneApart
<1>5. Working(g)' \in SUBSET Requests
    BY DEF Working
<1>6. /\ Cardinality(Working(g)') \in Nat /\ Cardinality(Owing(g)') \in Nat
      /\ Cardinality(Working(g)') <= Cardinality(Requests)
    BY <1>4, <1>5, FS_CardinalityType, FS_Subset, Constants
<1> QED BY <1>3, <1>4, <1>6

\* A step of one request keeps the bounds when, at each gate, nobody enters but
\* while a slot is left, and what is done is owed, counted or lost.
LEMMA Balance ==
    ASSUME QuotasInv, TypeOK', NEW r \in Requests, NEW q, req' = [req EXCEPT ![r] = q],
           \A g \in Gates :
               \/ hits'[g] + Number(Inside(q, g)) <= hits[g] + Number(Inside(req[r], g))
               \/ hits'[g] < Limit[g],
           \A g \in Gates :
               done'[g] + hits[g] + uncounted[g] + Number(Owes(req[r], g))
                  <= done[g] + hits'[g] + uncounted'[g] + Number(Owes(q, g))
    PROVE  HitsBound' /\ DoneBound'
<1> SUFFICES ASSUME NEW g \in Gates
             PROVE  /\ hits'[g] + Cardinality(Working(g)') <= Limit[g] - 1 + Cardinality(Requests)
                    /\ done'[g] <= hits'[g] + Cardinality(Owing(g)') + uncounted'[g]
    BY DEF HitsBound, DoneBound
<1>1. TypeOK
    BY DEF QuotasInv
<1>2. /\ hits[g] \in Nat /\ done[g] \in Nat /\ uncounted[g] \in Nat
      /\ hits'[g] \in Nat /\ done'[g] \in Nat /\ uncounted'[g] \in Nat
      /\ Limit[g] \in Nat \ {0} /\ Cardinality(Requests) \in Nat
    BY Finite, Constants DEF QuotasInv, TypeOK
<1>3. /\ Number(Inside(req[r], g)) \in Nat /\ Number(Inside(q, g)) \in Nat
      /\ Number(Owes(req[r], g)) \in Nat /\ Number(Owes(q, g)) \in Nat
    BY DEF Number
<1>4. /\ Cardinality(Working(g)') + Number(Inside(req[r], g))
           = Cardinality(Working(g)) + Number(Inside(q, g))
      /\ Cardinality(Owing(g)') + Number(Owes(req[r], g))
           = Cardinality(Owing(g)) + Number(Owes(q, g))
      /\ Cardinality(Working(g)') \in Nat /\ Cardinality(Owing(g)') \in Nat
      /\ Cardinality(Working(g)') <= Cardinality(Requests)
    BY <1>1, SetsChange
<1>5. Cardinality(Working(g)) \in Nat /\ Cardinality(Owing(g)) \in Nat
    BY Finite
<1>6. /\ hits[g] + Cardinality(Working(g)) <= Limit[g] - 1 + Cardinality(Requests)
      /\ done[g] <= hits[g] + Cardinality(Owing(g)) + uncounted[g]
    BY DEF QuotasInv, HitsBound, DoneBound
<1>7. \/ hits'[g] + Number(Inside(q, g)) <= hits[g] + Number(Inside(req[r], g))
      \/ hits'[g] < Limit[g]
    OBVIOUS
<1>8. done'[g] + hits[g] + uncounted[g] + Number(Owes(req[r], g))
         <= done[g] + hits'[g] + uncounted'[g] + Number(Owes(q, g))
    OBVIOUS
<1> HIDE DEF Number
<1>9. hits'[g] + Cardinality(Working(g)') <= Limit[g] - 1 + Cardinality(Requests)
    BY <1>2, <1>3, <1>4, <1>5, <1>6, <1>7
<1>10. done'[g] <= hits'[g] + Cardinality(Owing(g)') + uncounted'[g]
    BY <1>2, <1>3, <1>4, <1>5, <1>6, <1>8
<1> QED BY <1>9, <1>10

\* A step that leaves the counters alone and takes a request away from the
\* gates, or moves it in front of them, keeps the bounds.
LEMMA Leaves ==
    ASSUME QuotasInv, TypeOK', NEW r \in Requests, NEW q, req' = [req EXCEPT ![r] = q],
           \A g \in Gates : ~Inside(q, g) /\ ~Owes(req[r], g),
           UNCHANGED <<hits, done, uncounted>>
    PROVE  HitsBound' /\ DoneBound'
<1>1. ASSUME NEW g \in Gates
      PROVE  /\ hits[g] \in Nat /\ done[g] \in Nat /\ uncounted[g] \in Nat
             /\ Number(Inside(q, g)) = 0 /\ Number(Inside(req[r], g)) \in Nat
             /\ Number(Owes(req[r], g)) = 0 /\ Number(Owes(q, g)) \in Nat
    BY DEF QuotasInv, TypeOK, Number
<1>2. \A g \in Gates :
          \/ hits'[g] + Number(Inside(q, g)) <= hits[g] + Number(Inside(req[r], g))
          \/ hits'[g] < Limit[g]
    BY <1>1
<1>3. \A g \in Gates :
          done'[g] + hits[g] + uncounted[g] + Number(Owes(req[r], g))
             <= done[g] + hits'[g] + uncounted'[g] + Number(Owes(q, g))
    BY <1>1
<1> QED BY <1>2, <1>3, Balance

\* What moving to a stage does to the sets.
LEMMA Moved ==
    ASSUME TypeOK, NEW r \in Requests, NEW t, Move(r, t)
    PROVE  \E q : /\ req' = [req EXCEPT ![r] = q]
                  /\ q.stage = t /\ q.kind = req[r].kind /\ q.fresh = req[r].fresh
<1> DEFINE q == [req[r] EXCEPT !.stage = t]
<1>1. req[r] \in Request
    BY DEF TypeOK
<1>2. q.stage = t /\ q.kind = req[r].kind /\ q.fresh = req[r].fresh
    BY <1>1 DEF Request
<1>3. req' = [req EXCEPT ![r] = q]
    BY DEF Move
<1> HIDE DEF q
<1> QED BY <1>2, <1>3

\* The middleware, authentication, uploads and the commit keep the bounds.
LEMMA FrontBounds ==
    ASSUME QuotasInv, TypeOK', NEW r \in Requests,
           Arrive(r) \/ Pass(r) \/ Authenticate(r) \/ Upload(r) \/ Commit(r)
    PROVE  HitsBound' /\ DoneBound'
<1>1. UNCHANGED <<hits, done, uncounted>>
    BY DEF Arrive, Pass, Authenticate, Upload, Commit, counters, history
<1>2. req[r].stage \in {"idle", "ip", "user", "auth", "gate", "commit"}
    BY DEF Arrive, Pass, Authenticate, Upload, Commit, Sides
<1>3. \A g \in Gates : ~Owes(req[r], g)
    BY <1>2 DEF Owes
<1>4. \E q : /\ req' = [req EXCEPT ![r] = q]
             /\ q.stage \in {"idle", "ip", "user", "auth", "gate"}
  <2>1. CASE Ends(r)
    <3>1. Idle.stage = "idle"
        BY DEF Idle
    <3> QED BY <2>1, <3>1 DEF Ends
  <2>2. CASE Move(r, "user") \/ Move(r, "auth")
      BY <2>2, Moved DEF QuotasInv
  <2>3. CASE Arrive(r)
    <3>1. PICK k \in {"scan", "upload", "push"} :
              req' = [req EXCEPT ![r] = [Idle EXCEPT !.kind = k,
                                            !.stage = IF k = "push" THEN "gate" ELSE "ip"]]
        BY <2>3 DEF Arrive
    <3> DEFINE q == [Idle EXCEPT !.kind = k, !.stage = IF k = "push" THEN "gate" ELSE "ip"]
    <3>2. q.stage \in {"ip", "gate"}
        BY DEF Idle
    <3>3. req' = [req EXCEPT ![r] = q]
        BY <3>1
    <3> HIDE DEF q
    <3> QED BY <3>2, <3>3
  <2>4. CASE Authenticate(r)
    <3> DEFINE q == [req[r] EXCEPT !.stage = "gate",
                        !.loaded = IF req[r].kind = "scan" THEN remaining ELSE 0]
    <3>1. q.stage = "gate"
        BY DEF QuotasInv, TypeOK, Request
    <3>2. req' = [req EXCEPT ![r] = q]
        BY <2>4 DEF Authenticate
    <3> HIDE DEF q
    <3> QED BY <3>1, <3>2
  <2>5. CASE Pass(r)
      BY <2>1, <2>2, <2>5 DEF Pass
  <2>6. CASE Upload(r) \/ Commit(r)
      BY <2>1, <2>6 DEF Upload, Commit
  <2> QED BY <2>3, <2>4, <2>5, <2>6
<1>5. PICK q : /\ req' = [req EXCEPT ![r] = q]
               /\ q.stage \in {"idle", "ip", "user", "auth", "gate"}
    BY <1>4
<1>6. \A g \in Gates : ~Inside(q, g)
    BY <1>5 DEF Inside
<1> QED BY <1>1, <1>3, <1>5, <1>6, Leaves

\* The gate: a slot was left when the counter was read.
LEMMA CheckBounds ==
    ASSUME QuotasInv, TypeOK', NEW r \in Requests, Check(r)
    PROVE  HitsBound' /\ DoneBound'
<1>1. UNCHANGED <<hits, done, uncounted>> /\ req[r].stage = "gate"
    BY DEF Check, counters, history
<1>2. \A g \in Gates : ~Owes(req[r], g) /\ ~Inside(req[r], g)
    BY <1>1 DEF Owes, Inside
<1>3. CASE Ends(r)
  <2>1. \A g \in Gates : ~Inside(Idle, g)
      BY DEF Inside, Idle
  <2> QED BY <1>1, <1>2, <1>3, <2>1, Leaves DEF Ends
<1>4. CASE Open(req[r].kind) /\ Move(r, "work")
  <2>1. PICK q : /\ req' = [req EXCEPT ![r] = q]
                 /\ q.stage = "work" /\ q.kind = req[r].kind
      BY <1>4, Moved DEF QuotasInv
  <2>2. ASSUME NEW g \in Gates
        PROVE  /\ hits[g] \in Nat /\ done[g] \in Nat /\ uncounted[g] \in Nat
               /\ Number(Owes(req[r], g)) = 0 /\ Number(Owes(q, g)) = 0
               /\ Number(Inside(req[r], g)) = 0
      BY <1>2, <2>1 DEF QuotasInv, TypeOK, Number, Owes
  <2>3. ASSUME NEW g \in Gates
        PROVE  \/ hits'[g] + Number(Inside(q, g)) <= hits[g] + Number(Inside(req[r], g))
               \/ hits'[g] < Limit[g]
    <3>1. CASE g = req[r].kind
        BY <1>1, <1>4, <3>1 DEF Open
    <3>2. CASE g # req[r].kind
        BY <1>1, <2>1, <2>2, <3>2 DEF Inside, Number
    <3> QED BY <3>1, <3>2
  <2>4. \A g \in Gates :
            done'[g] + hits[g] + uncounted[g] + Number(Owes(req[r], g))
               <= done[g] + hits'[g] + uncounted'[g] + Number(Owes(q, g))
      BY <1>1, <2>2
  <2> QED BY <2>1, <2>3, <2>4, Balance
<1> QED BY <1>3, <1>4 DEF Check

\* The work: whoever is served owes a count, whoever is not leaves.
LEMMA WorkBounds ==
    ASSUME QuotasInv, TypeOK', NEW r \in Requests, Work(r)
    PROVE  HitsBound' /\ DoneBound'
<1> DEFINE k == req[r].kind
<1>1. UNCHANGED <<hits, uncounted>> /\ req[r].stage = "work" /\ k \in Gates
    BY DEF Work, counters, Gates
<1>2. \A g \in Gates : ~Owes(req[r], g) /\ (Inside(req[r], g) <=> g = k)
    BY <1>1 DEF Owes, Inside
<1>3. CASE Ends(r) /\ UNCHANGED done
  <2>1. \A g \in Gates : ~Inside(Idle, g)
      BY DEF Inside, Idle
  <2> QED BY <1>1, <1>2, <1>3, <2>1, Leaves DEF Ends
<1>4. CASE \E q : /\ req' = [req EXCEPT ![r] = q] /\ q.kind = k
                  /\ q.stage \in {"record", "count"}
                  /\ \/ done' = done
                     \/ done' = [done EXCEPT ![k] = @ + 1] /\ (k = "push" \/ q.fresh)
  <2>1. PICK q : /\ req' = [req EXCEPT ![r] = q] /\ q.kind = k
                 /\ q.stage \in {"record", "count"}
                 /\ \/ done' = done
                    \/ done' = [done EXCEPT ![k] = @ + 1] /\ (k = "push" \/ q.fresh)
      BY <1>4
  <2>2. ASSUME NEW g \in Gates
        PROVE  /\ hits[g] \in Nat /\ done[g] \in Nat /\ uncounted[g] \in Nat
               /\ Number(Owes(req[r], g)) = 0 /\ Number(Owes(q, g)) \in {0, 1}
               /\ Number(Inside(req[r], g)) = Number(Inside(q, g))
               /\ Number(Inside(q, g)) \in Nat
      BY <1>2, <2>1 DEF QuotasInv, TypeOK, Number, Inside
  <2>3. ASSUME NEW g \in Gates
        PROVE  done'[g] <= done[g] + Number(Owes(q, g))
    <3>1. CASE done' = done
        BY <2>2, <3>1
    <3>2. CASE done' = [done EXCEPT ![k] = @ + 1] /\ (k = "push" \/ q.fresh)
      <4>1. CASE g = k
        <5>1. Number(Owes(q, g)) = 1
            BY <2>1, <3>2, <4>1 DEF Owes, Number
        <5> QED BY <2>2, <3>2, <4>1, <5>1 DEF QuotasInv, TypeOK
      <4>2. CASE g # k
          BY <2>2, <3>2, <4>2 DEF QuotasInv, TypeOK
      <4> QED BY <4>1, <4>2
    <3> QED BY <2>1, <3>1, <3>2
  <2>4. ASSUME NEW g \in Gates
        PROVE  done'[g] \in Nat
      BY DEF TypeOK
  <2> HIDE DEF k
  <2>5. \A g \in Gates :
            hits'[g] + Number(Inside(q, g)) <= hits[g] + Number(Inside(req[r], g))
      BY <1>1, <2>2
  <2>6. \A g \in Gates :
            done'[g] + hits[g] + uncounted[g] + Number(Owes(req[r], g))
               <= done[g] + hits'[g] + uncounted'[g] + Number(Owes(q, g))
      BY <1>1, <2>2, <2>3, <2>4
  <2> QED BY <2>1, <2>5, <2>6, Balance
<1>5. \/ Ends(r) /\ UNCHANGED done
      \/ \E q : /\ req' = [req EXCEPT ![r] = q] /\ q.kind = k
                /\ q.stage \in {"record", "count"}
                /\ \/ done' = done
                   \/ done' = [done EXCEPT ![k] = @ + 1] /\ (k = "push" \/ q.fresh)
  <2>1. CASE /\ req' = [req EXCEPT ![r].stage = "record", ![r].fresh = TRUE]
             /\ done' = [done EXCEPT ![k] = @ + 1]
    <3> DEFINE q == [req[r] EXCEPT !.stage = "record", !.fresh = TRUE]
    <3>1. q.kind = k /\ q.stage = "record" /\ q.fresh
        BY DEF QuotasInv, TypeOK, Request
    <3>2. req' = [req EXCEPT ![r] = q]
        BY <2>1
    <3> HIDE DEF q
    <3> QED BY <2>1, <3>1, <3>2
  <2>2. CASE Move(r, "count") /\ UNCHANGED done
      BY <2>2, Moved DEF QuotasInv
  <2>3. CASE Move(r, "count") /\ k = "push" /\ done' = [done EXCEPT ![k] = @ + 1]
      BY <2>3, Moved DEF QuotasInv
  <2>4. CASE Ends(r) /\ UNCHANGED done
      BY <2>4
  <2> QED BY <2>1, <2>2, <2>3, <2>4 DEF Work
<1> QED BY <1>3, <1>4, <1>5

\* Recording changes nothing at the gates; counting pays what is owed.
LEMMA CountBounds ==
    ASSUME QuotasInv, TypeOK', NEW r \in Requests, Record(r) \/ Count(r)
    PROVE  HitsBound' /\ DoneBound'
<1> DEFINE k == req[r].kind
<1>1. /\ UNCHANGED <<done, uncounted>> /\ Sound(req[r])
      /\ req[r].stage \in {"record", "count"}
    BY DEF Record, Count, history, QuotasInv, Loaded
<1>2. k \in Gates
    BY <1>1 DEF Sound
<1>3. ASSUME NEW g \in Gates
      PROVE  /\ hits[g] \in Nat /\ done[g] \in Nat /\ uncounted[g] \in Nat
             /\ hits'[g] \in Nat /\ Number(Owes(req[r], g)) \in {0, 1}
             /\ (g # k => Number(Owes(req[r], g)) = 0)
             /\ Number(Inside(req[r], g)) = Number(g = k)
    BY <1>1 DEF QuotasInv, TypeOK, Number, Owes, Inside
<1>4. CASE Record(r)
  <2>1. PICK q : /\ req' = [req EXCEPT ![r] = q]
                 /\ q.stage = "count" /\ q.kind = k /\ q.fresh = req[r].fresh
      BY <1>4, Moved DEF Record, QuotasInv
  <2>2. \A g \in Gates : /\ Number(Owes(q, g)) = Number(Owes(req[r], g))
                         /\ Number(Inside(q, g)) = Number(Inside(req[r], g))
      BY <1>1, <2>1 DEF Owes, Inside, Number
  <2>3. UNCHANGED hits
      BY <1>4 DEF Record, counters
  <2>4. \A g \in Gates : Number(Inside(req[r], g)) \in Nat
      BY DEF Number
  <2> HIDE DEF k
  <2>5. \A g \in Gates :
            hits'[g] + Number(Inside(q, g)) <= hits[g] + Number(Inside(req[r], g))
      BY <1>3, <2>2, <2>3, <2>4
  <2>6. \A g \in Gates :
            done'[g] + hits[g] + uncounted[g] + Number(Owes(req[r], g))
               <= done[g] + hits'[g] + uncounted'[g] + Number(Owes(q, g))
      BY <1>1, <1>3, <2>2, <2>3
  <2> QED BY <2>1, <2>5, <2>6, Balance
<1>5. CASE Count(r)
  <2>1. PICK q : /\ req' = [req EXCEPT ![r] = q] /\ q.stage \in {"commit", "idle"}
    <3>1. CASE Move(r, "commit")
        BY <3>1, Moved DEF QuotasInv
    <3>2. CASE Ends(r)
      <4>1. Idle.stage = "idle"
          BY DEF Idle
      <4> QED BY <3>2, <4>1 DEF Ends
    <3> QED BY <1>5, <3>1, <3>2 DEF Count
  <2>2. \A g \in Gates : Number(Owes(q, g)) = 0 /\ Number(Inside(q, g)) = 0
      BY <2>1 DEF Owes, Inside, Number
  <2>3. \A g \in Gates : hits'[g] = hits[g] + Number(g = k)
      BY <1>3, <1>5 DEF Count, Number, QuotasInv, TypeOK
  <2>4. \A g \in Gates : Number(g = k) \in {0, 1} /\ (g = k => Number(g = k) = 1)
      BY DEF Number
  <2> HIDE DEF k
  <2>5. \A g \in Gates :
            hits'[g] + Number(Inside(q, g)) <= hits[g] + Number(Inside(req[r], g))
      BY <1>3, <2>2, <2>3, <2>4
  <2>6. \A g \in Gates :
            done'[g] + hits[g] + uncounted[g] + Number(Owes(req[r], g))
               <= done[g] + hits'[g] + uncounted'[g] + Number(Owes(q, g))
      BY <1>1, <1>3, <2>2, <2>3, <2>4
  <2> QED BY <2>1, <2>5, <2>6, Balance
<1> QED BY <1>4, <1>5

\* A failure: what was owed is written off as uncounted.
LEMMA FailBounds ==
    ASSUME QuotasInv, TypeOK', NEW r \in Requests, Fail(r)
    PROVE  HitsBound' /\ DoneBound'
<1> DEFINE k == req[r].kind
           loses == req[r].stage \in {"record", "count"} /\ (k = "push" \/ req[r].fresh)
<1>1. UNCHANGED <<hits, done>> /\ req' = [req EXCEPT ![r] = Idle]
    BY DEF Fail, Ends, counters
<1>2. uncounted' = IF loses THEN [uncounted EXCEPT ![k] = @ + 1] ELSE uncounted
    BY DEF Fail
<1>3. ASSUME NEW g \in Gates
      PROVE  /\ hits[g] \in Nat /\ done[g] \in Nat /\ uncounted[g] \in Nat
             /\ Number(Owes(Idle, g)) = 0 /\ Number(Inside(Idle, g)) = 0
             /\ Number(Inside(req[r], g)) \in Nat
    BY DEF QuotasInv, TypeOK, Number, Owes, Inside, Idle
<1>4. ASSUME NEW g \in Gates
      PROVE  uncounted'[g] = uncounted[g] + Number(Owes(req[r], g))
  <2>1. CASE loses
      BY <1>2, <1>3, <2>1 DEF QuotasInv, TypeOK, Owes, Number
  <2>2. CASE ~loses
      BY <1>2, <1>3, <2>2 DEF Owes, Number
  <2> QED BY <2>1, <2>2
<1>5. \A g \in Gates : Number(Owes(req[r], g)) \in Nat
    BY DEF Number
<1> HIDE DEF k, loses
<1>6. \A g \in Gates :
          hits'[g] + Number(Inside(Idle, g)) <= hits[g] + Number(Inside(req[r], g))
    BY <1>1, <1>3
<1>7. \A g \in Gates :
          done'[g] + hits[g] + uncounted[g] + Number(Owes(req[r], g))
             <= done[g] + hits'[g] + uncounted'[g] + Number(Owes(Idle, g))
    BY <1>1, <1>3, <1>4, <1>5
<1> QED BY <1>1, <1>6, <1>7, Balance

\* A new window begins with nothing counted, and with those inside.
LEMMA TickBounds ==
    ASSUME QuotasInv, Tick
    PROVE  HitsBound' /\ DoneBound'
<1>1. UNCHANGED req
    BY DEF Tick
<1> SUFFICES ASSUME NEW g \in Gates
             PROVE  /\ hits'[g] + Cardinality(Working(g)) <= Limit[g] - 1 + Cardinality(Requests)
                    /\ done'[g] <= hits'[g] + Cardinality(Owing(g)) + uncounted'[g]
    BY <1>1 DEF HitsBound, DoneBound, Working, Owing
<1>2. /\ hits[g] + Cardinality(Working(g)) <= Limit[g] - 1 + Cardinality(Requests)
      /\ done[g] <= hits[g] + Cardinality(Owing(g)) + uncounted[g]
    BY DEF QuotasInv, HitsBound, DoneBound
<1>3. \/ hits'[g] = 0 /\ done'[g] = 0 /\ uncounted'[g] = 0
      \/ hits'[g] = hits[g] /\ done'[g] = done[g] /\ uncounted'[g] = uncounted[g]
    BY DEF Tick
<1>4. Limit[g] \in Nat \ {0}
    BY Constants
<1> QED BY <1>2, <1>3, <1>4, Finite

-----------------------------------------------------------------------------
(* The theorems. *)

LEMMA InvInit == Init => QuotasInv
<1> SUFFICES ASSUME Init PROVE QuotasInv
    OBVIOUS
<1>1. TypeOK /\ Loaded
    BY TypeInit
<1>2. \A g \in Gates : Working(g) = {} /\ Owing(g) = {}
    BY DEF Init, Working, Owing, Inside, Owes, Idle
<1>3. \A g \in Gates : Cardinality(Working(g)) = 0 /\ Cardinality(Owing(g)) = 0
    BY <1>2, FS_EmptySet
<1>4. \A g \in Gates : hits[g] = 0 /\ done[g] = 0 /\ uncounted[g] = 0 /\ Limit[g] \in Nat \ {0}
    BY Constants DEF Init
<1>5. HitsBound /\ DoneBound
    BY <1>3, <1>4, Finite DEF HitsBound, DoneBound
<1> QED BY <1>1, <1>5 DEF QuotasInv

LEMMA InvStep == QuotasInv /\ [Next]_vars => QuotasInv'
<1> SUFFICES ASSUME QuotasInv, [Next]_vars PROVE QuotasInv'
    OBVIOUS
<1>0. TypeOK /\ Loaded
    BY DEF QuotasInv
<1>1. TypeOK' /\ Loaded'
    BY <1>0, TypeStep
<1>2. CASE Tick
    BY <1>1, <1>2, TickBounds DEF QuotasInv
<1>3. CASE Reset \/ UNCHANGED vars
  <2>1. UNCHANGED <<req, hits, done, uncounted>>
      BY <1>3 DEF Reset, vars, counters
  <2>2. \A g : UNCHANGED <<Working(g), Owing(g)>>
      BY <2>1 DEF Working, Owing
  <2>3. HitsBound' /\ DoneBound'
      BY <2>1, <2>2 DEF QuotasInv, HitsBound, DoneBound
  <2> QED BY <1>1, <2>3 DEF QuotasInv
<1>4. ASSUME NEW r \in Requests,
             Arrive(r) \/ Pass(r) \/ Authenticate(r) \/ Upload(r) \/ Commit(r)
      PROVE  HitsBound' /\ DoneBound'
    BY <1>1, <1>4, FrontBounds
<1>5. ASSUME NEW r \in Requests, Check(r)
      PROVE  HitsBound' /\ DoneBound'
    BY <1>1, <1>5, CheckBounds
<1>6. ASSUME NEW r \in Requests, Work(r)
      PROVE  HitsBound' /\ DoneBound'
    BY <1>1, <1>6, WorkBounds
<1>7. ASSUME NEW r \in Requests, Record(r) \/ Count(r)
      PROVE  HitsBound' /\ DoneBound'
    BY <1>1, <1>7, CountBounds
<1>8. ASSUME NEW r \in Requests, Fail(r)
      PROVE  HitsBound' /\ DoneBound'
    BY <1>1, <1>8, FailBounds
<1> QED BY <1>1, <1>2, <1>3, <1>4, <1>5, <1>6, <1>7, <1>8 DEF Next, QuotasInv

\* The bounds at the gates say how far the limit is exceeded at most.
LEMMA InvOvershoot == QuotasInv => Overshoot
<1> SUFFICES ASSUME QuotasInv, NEW g \in Gates
             PROVE  done[g] <= Limit[g] - 1 + Cardinality(Requests) + uncounted[g]
    BY DEF Overshoot
<1>1. /\ hits[g] + Cardinality(Working(g)) <= Limit[g] - 1 + Cardinality(Requests)
      /\ done[g] <= hits[g] + Cardinality(Owing(g)) + uncounted[g]
    BY DEF QuotasInv, HitsBound, DoneBound
<1>2. hits[g] \in Nat /\ done[g] \in Nat /\ uncounted[g] \in Nat /\ Limit[g] \in Nat \ {0}
    BY Constants DEF QuotasInv, TypeOK
<1> QED BY <1>1, <1>2, Finite

\* In an hour the AI provider is asked, and in a day a user gets pushes, as often
\* as the limit allows and once more for every further request that runs at the
\* same time, plus what failed between the work and its count
\* (check_scan_limit and increment_scan_count; check_daily_limit and
\* increment_counter), for any number of requests and across window ends.
THEOREM OvershootBounded == Spec => []Overshoot
<1>1. Spec => []QuotasInv
    BY InvInit, InvStep, PTL DEF Spec
<1> QED BY <1>1, InvOvershoot, PTL
-----------------------------------------------------------------------------
(* The minute. *)

\* What is remembered under one number is one request.
Numbered(S) == \A e, f \in S : e[2] = f[2] => e = f

\* The upload counter outlives every upload of the last minute and has counted it.
UploadsCounted ==
    LET S == recent["uploads"] IN
    /\ Numbered(S)
    /\ \A e \in S : /\ e[2] \in 1..UploadLimit /\ e[2] <= upload.n
                    /\ now + MinuteLen <= upload.exp + e[1]

\* Let through since the clock began this minute.
ThisMinute(e) == e[1] <= now % MinuteLen

\* The counter of this minute has counted those of this minute; those of the
\* minute before were counted in the same way.
PassesCounted ==
    LET S == recent["passed"] IN
    /\ Numbered({e \in S : ThisMinute(e)}) /\ Numbered({e \in S : ~ThisMinute(e)})
    /\ \A e \in S : e[2] \in 1..PassLimits["user"] /\ (ThisMinute(e) => e[2] <= passes["user"])

MinuteInv == UploadsCounted /\ PassesCounted

\* A tick ages every entry and drops those that are a minute old.
LEMMA OlderElement ==
    ASSUME NEW S \in SUBSET (Ages \X Nat), NEW e \in Older(S)
    PROVE  \E d \in S : e = <<d[1] + 1, d[2]>> /\ d[1] + 1 \in Ages
BY DEF Older

\* A remainder is what it is.
LEMMA Remainder ==
    ASSUME NEW M \in Nat \ {0}, NEW q \in Int, NEW r \in 0..M - 1
    PROVE  (M * q + r) % M = r
<1> DEFINE s == (M * q + r) % M
           p == (M * q + r) \div M
<1>1. M * q + r \in Int /\ M * q \in Int
    OBVIOUS
<1>2. s \in 0..M - 1 /\ p \in Int /\ M * q + r = M * p + s
    BY <1>1
<1>3. M * (q - p) = s - r
    BY <1>2
<1> HIDE DEF s, p
<1>4. q - p \in Int /\ s - r < M /\ s - r > -M
    BY <1>2
<1>5. q - p < 1
    BY <1>3, <1>4
<1>6. q - p > -1
    BY <1>3, <1>4
<1>7. q = p
    BY <1>2, <1>4, <1>5, <1>6
<1> QED BY <1>2, <1>3, <1>7 DEF s

\* The next tick stays in this minute or begins the next one.
LEMMA NextMinute ==
    ASSUME NEW M \in Nat \ {0}, NEW t \in Nat
    PROVE  /\ t % M \in 0..M - 1
           /\ (t + 1) % M = IF t % M = M - 1 THEN 0 ELSE (t % M) + 1
<1> DEFINE m == t % M
           q == t \div M
<1>1. m \in 0..M - 1 /\ q \in Int /\ t = M * q + m
    OBVIOUS
<1> HIDE DEF m, q
<1>2. CASE m = M - 1
  <2>1. t + 1 = M * (q + 1) + 0
      BY <1>1, <1>2
  <2>2. 0 \in 0..M - 1 /\ q + 1 \in Int
      BY <1>1
  <2>3. (M * (q + 1) + 0) % M = 0
      BY <2>2, Remainder
  <2> QED BY <1>1, <1>2, <2>1, <2>3 DEF m
<1>3. CASE m # M - 1
  <2>1. t + 1 = M * q + (m + 1) /\ m + 1 \in 0..M - 1
      BY <1>1, <1>3
  <2>2. (M * q + (m + 1)) % M = m + 1
      BY <1>1, <2>1, Remainder
  <2> QED BY <1>1, <1>3, <2>1, <2>2 DEF m
<1> QED BY <1>2, <1>3

\* A set of entries with numbers of their own is no larger than their range.
LEMMA CountNumbered ==
    ASSUME NEW S, NEW L \in Nat, NEW f \in [S -> 1..L],
           \A d, e \in S : f[d] = f[e] => d = e
    PROVE  Cardinality(S) <= L
<1>1. f \in Injection(S, 1..L)
    BY DEF Injection, IsInjective
<1>2. IsFiniteSet(1..L) /\ Cardinality(1..L) = L
    BY FS_Interval
<1> QED BY <1>1, <1>2, FS_Injection

LEMMA MinuteBounds == TypeOK /\ MinuteInv => UploadsPerMinute /\ TwiceTheMinute
<1> SUFFICES ASSUME TypeOK, MinuteInv PROVE UploadsPerMinute /\ TwiceTheMinute
    OBVIOUS
<1>1. UploadLimit \in Nat /\ PassLimits["user"] \in Nat
    BY QuotasAssumption DEF Sides
<1>2. UploadsPerMinute
  <2> DEFINE S == recent["uploads"]
             f == [e \in S |-> e[2]]
  <2>1. f \in [S -> 1..UploadLimit]
      BY DEF MinuteInv, UploadsCounted
  <2>2. \A d, e \in S : f[d] = f[e] => d = e
      BY DEF MinuteInv, UploadsCounted, Numbered
  <2> HIDE DEF f
  <2>3. Cardinality(S) <= UploadLimit
      BY <1>1, <2>1, <2>2, CountNumbered
  <2> QED BY <2>3 DEF UploadsPerMinute
<1>3. TwiceTheMinute
  <2> DEFINE S == recent["passed"]
             P == PassLimits["user"]
             f == [e \in S |-> IF ThisMinute(e) THEN e[2] ELSE e[2] + P]
  <2>1. \A e \in S : e[2] \in 1..P
      BY DEF MinuteInv, PassesCounted
  <2>2. f \in [S -> 1..2 * P]
      BY <1>1, <2>1
  <2>3. ASSUME NEW d \in S, NEW e \in S, f[d] = f[e]
        PROVE  d = e
    <3>1. d[2] \in 1..P /\ e[2] \in 1..P
        BY <2>1
    <3>2. (ThisMinute(d) <=> ThisMinute(e)) /\ d[2] = e[2]
        BY <1>1, <2>3, <3>1
    <3> QED BY <3>2 DEF MinuteInv, PassesCounted, Numbered
  <2>4. 2 * P \in Nat
      BY <1>1
  <2> HIDE DEF f
  <2>5. Cardinality(S) <= 2 * P
      BY <2>2, <2>3, <2>4, CountNumbered
  <2> QED BY <2>5 DEF TwiceTheMinute
<1> QED BY <1>2, <1>3

\* A minute that ends takes its counters and what they counted with it.
LEMMA TickMinute ==
    ASSUME TypeOK, TypeOK', MinuteInv, Tick
    PROVE  MinuteInv'
<1>1. /\ now \in Nat /\ now' = now + 1 /\ MinuteLen \in Nat \ {0}
      /\ recent["uploads"] \in SUBSET (Ages \X Nat) /\ recent["passed"] \in SUBSET (Ages \X Nat)
    BY Constants DEF TypeOK, Tick
<1>2. /\ recent'["uploads"] = Older(recent["uploads"])
      /\ recent'["passed"] = Older(recent["passed"])
    BY DEF Tick, TypeOK
<1>3. UploadsCounted'
  <2> DEFINE S == recent["uploads"]
  <2>1. /\ Numbered(S)
        /\ \A e \in S : /\ e[2] \in 1..UploadLimit /\ e[2] <= upload.n
                        /\ now + MinuteLen <= upload.exp + e[1]
      BY DEF MinuteInv, UploadsCounted
  <2>2. ASSUME NEW e \in Older(S)
        PROVE  /\ e[2] \in 1..UploadLimit /\ e[2] <= upload'.n
               /\ now' + MinuteLen <= upload'.exp + e[1]
    <3>1. PICK d \in S : e = <<d[1] + 1, d[2]>> /\ d[1] + 1 \in Ages
        BY <1>1, OlderElement
    <3>2. d[1] \in Nat /\ d[1] + 1 < MinuteLen /\ upload.exp \in Nat
        BY <1>1, <3>1 DEF Ages, TypeOK
    <3>3. now + MinuteLen <= upload.exp + d[1] /\ d[2] \in 1..UploadLimit /\ d[2] <= upload.n
        BY <2>1
    <3>4. upload' = upload
        BY <1>1, <3>2, <3>3 DEF Tick
    <3> QED BY <1>1, <3>1, <3>2, <3>3, <3>4
  <2>3. Numbered(Older(S))
    <3> SUFFICES ASSUME NEW e \in Older(S), NEW f \in Older(S), e[2] = f[2]
                 PROVE  e = f
        BY DEF Numbered
    <3>1. PICK d \in S : e = <<d[1] + 1, d[2]>>
        BY <1>1, OlderElement
    <3>2. PICK c \in S : f = <<c[1] + 1, c[2]>>
        BY <1>1, OlderElement
    <3> QED BY <2>1, <3>1, <3>2 DEF Numbered
  <2> QED BY <1>2, <2>2, <2>3 DEF UploadsCounted
<1>4. PassesCounted'
  <2> DEFINE S == recent["passed"]
             m == now % MinuteLen
  <2>1. /\ m \in 0..MinuteLen - 1
        /\ now' % MinuteLen = IF m = MinuteLen - 1 THEN 0 ELSE m + 1
      BY <1>1, NextMinute
  <2>2. /\ Numbered({e \in S : e[1] <= m}) /\ Numbered({e \in S : ~(e[1] <= m)})
        /\ \A e \in S : e[2] \in 1..PassLimits["user"] /\ (e[1] <= m => e[2] <= passes["user"])
      BY DEF MinuteInv, PassesCounted, ThisMinute
  <2>3. passes' = IF now' % MinuteLen = 0 THEN [s \in Sides |-> 0] ELSE passes
      BY <1>1 DEF Tick
  <2> DEFINE n == now' % MinuteLen
  <2>4. m \in Nat /\ m < MinuteLen /\ n = IF m = MinuteLen - 1 THEN 0 ELSE m + 1
      BY <1>1, <2>1
  <2> HIDE DEF m, n
  <2>5. ASSUME NEW e \in Older(S)
        PROVE  \E d \in S : /\ e = <<d[1] + 1, d[2]>>
                            /\ e[1] <= n => d[1] <= m /\ n # 0
                            /\ ~(e[1] <= n) /\ n # 0 => ~(d[1] <= m)
                            /\ n = 0 => d[1] <= m
    <3>1. PICK d \in S : e = <<d[1] + 1, d[2]>> /\ d[1] + 1 \in Ages
        BY <1>1, OlderElement
    <3>2. d[1] \in Nat /\ d[1] + 1 < MinuteLen
        BY <1>1, <3>1 DEF Ages
    <3> QED BY <1>1, <2>4, <3>1, <3>2
  <2>6. ASSUME NEW e \in Older(S)
        PROVE  e[2] \in 1..PassLimits["user"] /\ (e[1] <= n => e[2] <= passes'["user"])
    <3>1. PICK d \in S : /\ e = <<d[1] + 1, d[2]>>
                         /\ e[1] <= n => d[1] <= m /\ n # 0
        BY <2>5
    <3> QED BY <2>2, <2>3, <3>1 DEF n
  <2>7. ASSUME NEW e \in Older(S), NEW f \in Older(S), e[2] = f[2], e[1] <= n <=> f[1] <= n
        PROVE  e = f
    <3>1. PICK d \in S : /\ e = <<d[1] + 1, d[2]>>
                         /\ e[1] <= n => d[1] <= m /\ n # 0
                         /\ ~(e[1] <= n) /\ n # 0 => ~(d[1] <= m)
                         /\ n = 0 => d[1] <= m
        BY <2>5
    <3>2. PICK c \in S : /\ f = <<c[1] + 1, c[2]>>
                         /\ f[1] <= n => c[1] <= m /\ n # 0
                         /\ ~(f[1] <= n) /\ n # 0 => ~(c[1] <= m)
                         /\ n = 0 => c[1] <= m
        BY <2>5
    <3>3. (d[1] <= m <=> c[1] <= m) /\ d[2] = c[2]
        BY <2>7, <3>1, <3>2
    <3>4. d = c
        BY <2>2, <3>3 DEF Numbered
    <3> QED BY <3>1, <3>2, <3>4
  <2> QED BY <1>2, <2>6, <2>7 DEF PassesCounted, ThisMinute, Numbered, n
<1> QED BY <1>3, <1>4 DEF MinuteInv

\* A request adds an entry with a new number at age zero.
LEMMA FrontMinute ==
    ASSUME TypeOK, TypeOK', MinuteInv, NEW r \in Requests, Pass(r) \/ Upload(r)
    PROVE  MinuteInv'
<1>1. /\ now \in Nat /\ MinuteLen \in Nat \ {0}
      /\ recent["uploads"] \in SUBSET (Ages \X Nat) /\ recent["passed"] \in SUBSET (Ages \X Nat)
      /\ UploadLimit \in Nat /\ PassLimits \in [Sides -> Nat \ {0}]
    BY Constants, QuotasAssumption DEF TypeOK
<1>2. CASE Upload(r)
  <2> DEFINE S == recent["uploads"]
             n == upload.n + 1
  <2>1. UNCHANGED <<now, passes>> /\ upload' = [n |-> n, exp |-> now + MinuteLen]
      BY <1>2 DEF Upload, Expires
  <2>2. /\ recent'["passed"] = recent["passed"]
        /\ \/ recent'["uploads"] = S
           \/ recent'["uploads"] = S \cup {<<0, n>>} /\ n <= UploadLimit
      BY <1>1, <1>2 DEF Upload, TypeOK
  <2>3. /\ Numbered(S) /\ upload.n \in Nat
        /\ \A e \in S : /\ e[2] \in 1..UploadLimit /\ e[2] <= upload.n
                        /\ now + MinuteLen <= upload.exp + e[1] /\ e[1] \in Nat
      BY <1>1 DEF MinuteInv, UploadsCounted, TypeOK, Ages
  <2>4. \A e \in S : /\ e[2] \in 1..UploadLimit /\ e[2] < n
                    /\ now + MinuteLen <= now + MinuteLen + e[1]
      BY <1>1, <2>3
  <2> HIDE DEF n, S
  <2>5. n \in Nat /\ n # 0
      BY <2>3 DEF n
  <2>6. \A e \in recent'["uploads"] :
            /\ e[2] \in 1..UploadLimit /\ e[2] <= n
            /\ now + MinuteLen <= now + MinuteLen + e[1]
    <3>1. \A e \in S : e[2] <= n
        BY <2>4, <2>5
    <3> QED BY <1>1, <2>2, <2>4, <2>5, <3>1
  <2>7. Numbered(S \cup {<<0, n>>}) /\ Numbered(S)
      BY <2>3, <2>4, <2>5 DEF Numbered
  <2>8. UploadsCounted'
      BY <2>1, <2>2, <2>6, <2>7 DEF UploadsCounted
  <2>9. PassesCounted'
      BY <2>1, <2>2 DEF MinuteInv, PassesCounted, ThisMinute
  <2> QED BY <2>8, <2>9 DEF MinuteInv
<1>3. CASE Pass(r)
  <2> DEFINE S == recent["passed"]
             P == PassLimits["user"]
             s == req[r].stage
             n == passes["user"] + 1
  <2>1. /\ UNCHANGED <<now, upload>> /\ s \in Sides
        /\ passes' = [passes EXCEPT ![s] = passes[s] + 1]
      BY <1>3 DEF Pass
  <2>2. /\ recent'["uploads"] = recent["uploads"]
        /\ \/ recent'["passed"] = S
           \/ recent'["passed"] = S \cup {<<0, n>>} /\ n <= P /\ passes'["user"] = n
    <3>1. CASE s = "user" /\ ~Exceeds(passes[s] + 1, PassLimits[s])
      <4>1. recent' = [recent EXCEPT !["passed"] = @ \cup {<<0, n>>}]
          BY <1>3, <3>1 DEF Pass
      <4>2. n <= P /\ passes'["user"] = n
          BY <1>1, <2>1, <3>1 DEF Exceeds, TypeOK, Sides
      <4> QED BY <4>1, <4>2 DEF TypeOK
    <3>2. CASE ~(s = "user" /\ ~Exceeds(passes[s] + 1, PassLimits[s]))
        BY <1>3, <3>2 DEF Pass
    <3> QED BY <3>1, <3>2
  <2>3. UploadsCounted'
      BY <2>1, <2>2 DEF MinuteInv, UploadsCounted
  <2>4. passes["user"] \in Nat /\ passes'["user"] \in {passes["user"], n}
      BY <2>1 DEF TypeOK, Sides
  <2>5. n \in Nat /\ n # 0 /\ passes["user"] < n /\ P \in Nat
      BY <1>1, <2>4 DEF Sides
  <2> DEFINE m == now % MinuteLen
  <2>6. m \in 0..MinuteLen - 1
      BY <1>1, NextMinute
  <2>7. /\ Numbered({e \in S : e[1] <= m}) /\ Numbered({e \in S : ~(e[1] <= m)})
        /\ \A e \in S : e[2] \in 1..P /\ (e[1] <= m => e[2] <= passes["user"])
      BY DEF MinuteInv, PassesCounted, ThisMinute
  <2>8. <<0, n>>[1] <= m
      BY <2>6
  <2> HIDE DEF n, m, S, P
  <2>9. \A e \in S : e[1] <= m => e[2] < n
      BY <2>4, <2>5, <2>7
  <2>10. ASSUME NEW e \in recent'["passed"]
         PROVE  e[2] \in 1..P /\ (e[1] <= m => e[2] <= passes'["user"])
    <3>1. CASE e \in S
        BY <2>4, <2>5, <2>7, <2>9, <3>1
    <3>2. CASE e = <<0, n>> /\ n <= P /\ passes'["user"] = n
        BY <2>5, <3>2
    <3> QED BY <2>2, <3>1, <3>2
  <2>11. Numbered({e \in recent'["passed"] : e[1] <= m})
    <3>1. CASE recent'["passed"] = S
        BY <2>7, <3>1
    <3>2. CASE recent'["passed"] = S \cup {<<0, n>>}
      <4>1. {e \in recent'["passed"] : e[1] <= m} = {e \in S : e[1] <= m} \cup {<<0, n>>}
          BY <2>8, <3>2
      <4> QED BY <2>5, <2>7, <2>9, <4>1 DEF Numbered
    <3> QED BY <2>2, <3>1, <3>2
  <2>12. {e \in recent'["passed"] : ~(e[1] <= m)} = {e \in S : ~(e[1] <= m)}
      BY <2>2, <2>8
  <2>13. PassesCounted'
      BY <2>1, <2>7, <2>10, <2>11, <2>12 DEF PassesCounted, ThisMinute, m, P
  <2> QED BY <2>3, <2>13 DEF MinuteInv
<1> QED BY <1>2, <1>3

-----------------------------------------------------------------------------
(* The free scans. *)

\* While scans do not overlap, the scan under way has read what remains.
ChargeInv ==
    /\ \A r \in Requests : req[r].fresh => req[r].kind = "scan"
    /\ apart => /\ remaining + recorded = Full
                /\ \A r \in Requests : Scanning(r) => req[r].loaded = remaining
                /\ \A r, q \in Requests : Scanning(r) /\ Scanning(q) => r = q

\* A step that changes one request and no account of the scans.
LEMMA ChargeMove ==
    ASSUME TypeOK, ChargeInv, NEW r \in Requests, NEW q \in Request,
           req' = [req EXCEPT ![r] = q], UNCHANGED <<remaining, recorded, apart>>,
           q.fresh => q.kind = "scan",
           q.kind = "scan" /\ q.stage \in {"gate", "work", "record", "count", "commit"}
              => Scanning(r) /\ q.loaded = req[r].loaded
    PROVE  ChargeInv'
<1>1. \A p \in Requests : req'[p] = IF p = r THEN q ELSE req[p]
    BY DEF TypeOK
<1>2. \A p \in Requests : Scanning(p)' => Scanning(p) /\ req'[p].loaded = req[p].loaded
    BY <1>1 DEF Scanning
<1>3. \A p \in Requests : req'[p].fresh => req'[p].kind = "scan"
    BY <1>1 DEF ChargeInv
<1> QED BY <1>2, <1>3 DEF ChargeInv

\* A request that ends takes its scan with it.
LEMMA ChargeEnds ==
    ASSUME TypeOK, ChargeInv, NEW r \in Requests, Ends(r),
           UNCHANGED <<remaining, recorded, apart>>
    PROVE  ChargeInv'
<1>1. Idle \in Request /\ ~Idle.fresh /\ Idle.stage = "idle"
    BY Constants DEF Idle, Request, Stages
<1> QED BY <1>1, ChargeMove DEF Ends

\* A scan that goes on.
LEMMA ChargeGoes ==
    ASSUME TypeOK, ChargeInv, NEW r \in Requests, NEW t \in Stages, Move(r, t),
           UNCHANGED <<remaining, recorded, apart>>,
           t \in {"gate", "work", "record", "count", "commit"}
              => req[r].stage \in {"gate", "work", "record", "count", "commit"}
    PROVE  ChargeInv'
<1> DEFINE q == [req[r] EXCEPT !.stage = t]
<1>1. req[r] \in Request
    BY DEF TypeOK
<1>2. /\ q \in Request /\ q.stage = t /\ q.kind = req[r].kind
      /\ q.loaded = req[r].loaded /\ q.fresh = req[r].fresh
    BY <1>1 DEF Request
<1>3. req' = [req EXCEPT ![r] = q]
    BY DEF Move
<1>4. q.fresh => q.kind = "scan"
    BY <1>2 DEF ChargeInv
<1>5. q.kind = "scan" /\ q.stage \in {"gate", "work", "record", "count", "commit"}
         => Scanning(r) /\ q.loaded = req[r].loaded
    BY <1>2 DEF Scanning
<1> HIDE DEF q
<1> QED BY <1>2, <1>3, <1>4, <1>5, ChargeMove

\* A request arrives, passes the middleware, uploads, or fails at the gate.
LEMMA FrontCharge ==
    ASSUME TypeOK, ChargeInv, NEW r \in Requests,
           Arrive(r) \/ Pass(r) \/ Upload(r) \/ Check(r) \/ Record(r) \/ Count(r) \/ Fail(r)
    PROVE  ChargeInv'
<1>1. UNCHANGED <<remaining, recorded, apart>>
    BY DEF Arrive, Pass, Upload, Check, Record, Count, Fail, history
<1>2. CASE Arrive(r)
  <2>1. PICK k \in {"scan", "upload", "push"} :
            req' = [req EXCEPT ![r] = [Idle EXCEPT !.kind = k,
                                          !.stage = IF k = "push" THEN "gate" ELSE "ip"]]
      BY <1>2 DEF Arrive
  <2> DEFINE q == [Idle EXCEPT !.kind = k, !.stage = IF k = "push" THEN "gate" ELSE "ip"]
  <2>2. /\ q \in Request /\ ~q.fresh /\ q.kind = k
        /\ k = "scan" => q.stage = "ip"
      BY DEF Idle, Request, Stages
  <2>3. req' = [req EXCEPT ![r] = q]
      BY <2>1
  <2> HIDE DEF q
  <2> QED BY <1>1, <2>2, <2>3, ChargeMove
<1>3. CASE Ends(r)
    BY <1>1, <1>3, ChargeEnds
<1>4. CASE Move(r, "user") \/ Move(r, "auth")
    BY <1>1, <1>4, ChargeGoes DEF Stages
<1>5. CASE /\ Move(r, "work") \/ Move(r, "count") \/ Move(r, "commit")
           /\ req[r].stage \in {"gate", "record", "count"}
    BY <1>1, <1>5, ChargeGoes DEF Stages
<1> QED BY <1>2, <1>3, <1>4, <1>5 DEF Pass, Upload, Check, Record, Count, Fail

\* A scan that begins while another one is under way ends the account.
LEMMA AuthenticateCharge ==
    ASSUME TypeOK, ChargeInv, NEW r \in Requests, Authenticate(r)
    PROVE  ChargeInv'
<1> DEFINE m == IF req[r].kind = "scan" THEN remaining ELSE 0
           q == [req[r] EXCEPT !.stage = "gate", !.loaded = m]
<1>1. req[r] \in Request /\ UNCHANGED <<remaining, recorded>>
    BY DEF TypeOK, Authenticate
<1>2. /\ q.kind = req[r].kind /\ q.loaded = m /\ q.fresh = req[r].fresh /\ q.stage = "gate"
    BY <1>1 DEF Request
<1>3. req' = [req EXCEPT ![r] = q]
    BY DEF Authenticate
<1> HIDE DEF q
<1>4. \A p \in Requests : req'[p] = IF p = r THEN q ELSE req[p]
    BY <1>3 DEF TypeOK
<1>5. \A p \in Requests : req'[p].fresh => req'[p].kind = "scan"
    BY <1>2, <1>4 DEF ChargeInv
<1>6. apart' => apart /\ (req[r].kind = "scan" => \A p \in Requests : ~Scanning(p))
    BY DEF Authenticate
<1>7. CASE req[r].kind = "scan"
  <2>1. apart' => \A p \in Requests : Scanning(p)' => p = r
      BY <1>4, <1>6, <1>7 DEF Scanning
  <2>2. req'[r].loaded = remaining
      BY <1>2, <1>4, <1>7
  <2> QED BY <1>1, <1>5, <1>6, <2>1, <2>2 DEF ChargeInv
<1>8. CASE req[r].kind # "scan"
  <2>1. \A p \in Requests : Scanning(p)' => Scanning(p) /\ req'[p] = req[p]
      BY <1>2, <1>4, <1>8 DEF Scanning
  <2> QED BY <1>1, <1>5, <1>6, <2>1 DEF ChargeInv
<1> QED BY <1>7, <1>8

\* Only a scan is fresh: the answer of the provider is a new one.
LEMMA WorkCharge ==
    ASSUME TypeOK, ChargeInv, NEW r \in Requests, Work(r)
    PROVE  ChargeInv'
<1>1. req[r] \in Request /\ req[r].stage = "work" /\ UNCHANGED <<remaining, recorded, apart>>
    BY DEF TypeOK, Work
<1>2. CASE Ends(r)
    BY <1>1, <1>2, ChargeEnds
<1>3. CASE Move(r, "count")
    BY <1>1, <1>3, ChargeGoes DEF Stages
<1>4. CASE req[r].kind = "scan" /\ req' = [req EXCEPT ![r].stage = "record", ![r].fresh = TRUE]
  <2> DEFINE q == [req[r] EXCEPT !.stage = "record", !.fresh = TRUE]
  <2>1. q \in Request /\ q.kind = "scan" /\ q.loaded = req[r].loaded
      BY <1>1, <1>4 DEF Request, Stages
  <2>2. req' = [req EXCEPT ![r] = q]
      BY <1>4
  <2>3. Scanning(r)
      BY <1>1, <1>4 DEF Scanning
  <2> HIDE DEF q
  <2> QED BY <1>1, <2>1, <2>2, <2>3, ChargeMove
<1> QED BY <1>2, <1>3, <1>4 DEF Work

\* The free scan that was read is the one that is spent.
LEMMA CommitCharge ==
    ASSUME TypeOK, Loaded, ChargeInv, NEW r \in Requests, Commit(r)
    PROVE  ChargeInv'
<1>1. /\ req' = [req EXCEPT ![r] = Idle] /\ req[r].stage = "commit" /\ UNCHANGED apart
      /\ remaining' = Spent(r)
      /\ recorded' = IF req[r].fresh THEN recorded + 1 ELSE recorded
    BY DEF Commit, Ends
<1>2. CASE ~req[r].fresh
  <2>1. UNCHANGED <<remaining, recorded>> /\ Ends(r)
      BY <1>1, <1>2 DEF Spent, Ends
  <2> QED BY <1>1, <2>1, ChargeEnds
<1>3. CASE req[r].fresh
  <2>1. Scanning(r)
      BY <1>1, <1>3 DEF ChargeInv, Scanning
  <2>2. \A p \in Requests : req'[p] = IF p = r THEN Idle ELSE req[p]
      BY <1>1 DEF TypeOK
  <2>3. ~Idle.fresh /\ Idle.stage = "idle"
      BY DEF Idle
  <2>4. \A p \in Requests : Scanning(p)' => p # r /\ Scanning(p)
      BY <2>2, <2>3 DEF Scanning
  <2>5. \A p \in Requests : req'[p].fresh => req'[p].kind = "scan"
      BY <2>2, <2>3 DEF ChargeInv
  <2>6. apart => req[r].loaded = remaining /\ remaining + recorded = Full
      BY <2>1 DEF ChargeInv
  <2>7. remaining' = req[r].loaded - 1 /\ recorded' = recorded + 1
      BY <1>1, <1>3 DEF Spent
  <2>8. remaining \in Int /\ recorded \in Int /\ Full \in Int
      BY Constants DEF TypeOK
  <2>9. apart => remaining' + recorded' = Full
      BY <2>6, <2>7, <2>8
  <2>10. apart => \A p \in Requests : ~Scanning(p)'
      BY <2>1, <2>4 DEF ChargeInv
  <2> QED BY <1>1, <2>5, <2>9, <2>10 DEF ChargeInv
<1> QED BY <1>2, <1>3

\* A reset gives every free scan back, and none is under way.
LEMMA ResetCharge ==
    ASSUME TypeOK, ChargeInv, Reset
    PROVE  ChargeInv'
<1>1. /\ UNCHANGED req /\ remaining' = Full /\ recorded' = 0
      /\ apart' => \A q \in Requests : ~Scanning(q)
    BY DEF Reset
<1>2. Full + 0 = Full
    BY Constants
<1>3. \A p \in Requests : Scanning(p)' <=> Scanning(p)
    BY <1>1 DEF Scanning
<1> QED BY <1>1, <1>2, <1>3 DEF ChargeInv

-----------------------------------------------------------------------------
(* The limits of one user. *)

LimitsInv == TypeOK /\ Loaded /\ MinuteInv /\ ChargeInv

LEMMA LimitsInit == Init => LimitsInv
<1> SUFFICES ASSUME Init PROVE LimitsInv
    OBVIOUS
<1>1. TypeOK /\ Loaded
    BY TypeInit
<1>2. recent["uploads"] = {} /\ recent["passed"] = {}
    BY DEF Init
<1>3. MinuteInv
    BY <1>2 DEF MinuteInv, UploadsCounted, PassesCounted, Numbered
<1>4. \A r \in Requests : ~req[r].fresh /\ ~Scanning(r)
    BY DEF Init, Idle, Scanning
<1>5. remaining + recorded = Full
    BY Constants DEF Init
<1> QED BY <1>1, <1>3, <1>4, <1>5 DEF LimitsInv, ChargeInv

LEMMA LimitsStep == LimitsInv /\ [Next]_vars => LimitsInv'
<1> SUFFICES ASSUME LimitsInv, [Next]_vars PROVE LimitsInv'
    OBVIOUS
<1>0. TypeOK /\ Loaded /\ MinuteInv /\ ChargeInv
    BY DEF LimitsInv
<1>1. TypeOK' /\ Loaded'
    BY <1>0, TypeStep
<1>2. MinuteInv'
  <2>1. CASE Tick
      BY <1>0, <1>1, <2>1, TickMinute
  <2>2. ASSUME NEW r \in Requests, Pass(r) \/ Upload(r) PROVE MinuteInv'
      BY <1>0, <1>1, <2>2, FrontMinute
  <2>3. CASE UNCHANGED <<now, passes, upload, recent>>
      BY <1>0, <2>3 DEF MinuteInv, UploadsCounted, PassesCounted, ThisMinute
  <2>4. ASSUME NEW r \in Requests,
               \/ Arrive(r) \/ Authenticate(r) \/ Check(r) \/ Work(r)
               \/ Record(r) \/ Count(r) \/ Commit(r) \/ Fail(r)
        PROVE  UNCHANGED <<now, passes, upload, recent>>
      BY <2>4 DEF Arrive, Authenticate, Check, Work, Record, Count, Commit, Fail, counters, history
  <2>5. Reset \/ UNCHANGED vars => UNCHANGED <<now, passes, upload, recent>>
      BY DEF Reset, vars, counters
  <2> QED BY <2>1, <2>2, <2>3, <2>4, <2>5 DEF Next
<1>3. ChargeInv'
  <2>1. CASE Tick \/ UNCHANGED vars
    <3>1. UNCHANGED <<req, remaining, recorded, apart>>
        BY <2>1 DEF Tick, vars
    <3> QED BY <1>0, <3>1 DEF ChargeInv, Scanning
  <2>2. CASE Reset
      BY <1>0, <2>2, ResetCharge
  <2>3. ASSUME NEW r \in Requests,
               Arrive(r) \/ Pass(r) \/ Upload(r) \/ Check(r) \/ Record(r) \/ Count(r) \/ Fail(r)
        PROVE  ChargeInv'
      BY <1>0, <2>3, FrontCharge
  <2>4. ASSUME NEW r \in Requests, Authenticate(r) PROVE ChargeInv'
      BY <1>0, <2>4, AuthenticateCharge
  <2>5. ASSUME NEW r \in Requests, Work(r) PROVE ChargeInv'
      BY <1>0, <2>5, WorkCharge
  <2>6. ASSUME NEW r \in Requests, Commit(r) PROVE ChargeInv'
      BY <1>0, <2>6, CommitCharge
  <2> QED BY <2>1, <2>2, <2>3, <2>4, <2>5, <2>6 DEF Next
<1> QED BY <1>1, <1>2, <1>3 DEF LimitsInv

\* In no minute more uploads than the limit, and no more than twice the limit of
\* requests, are let through (check_image_upload_rate_limit, RateLimiter), and
\* scans of a user that do not overlap each other or a reset are charged one by
\* one (scan_image), for any limits, any number of requests and any minute.
THEOREM LimitsAlwaysHeld == Spec => []LimitsHeld
<1>1. LimitsInv /\ Overshoot => LimitsHeld
    BY MinuteBounds DEF LimitsInv, LimitsHeld, ChargeInv, ChargedOnce
<1>2. Spec => []LimitsInv
    BY LimitsInit, LimitsStep, PTL DEF Spec
<1> QED BY <1>1, <1>2, OvershootBounded, PTL

-----------------------------------------------------------------------------
(* Catalogue.                                                              *)

\* What RecognitionAssumption says of the constants of Catalogue.
CatalogueConstants ==
    /\ IsFiniteSet(Species) /\ Species \cap {"list", "popular", "search"} = {} /\ Standing \subseteq Species
    /\ MaxVersion \in Nat \ {0} /\ MaxTrips \in Nat

Views == [total : Nat, items : UNION {[S -> Nat] : S \in SUBSET Species}]
ReaderSet == [stage : {"idle", "load", "fill"}, key : Catalogue!Keys, total : Nat, view : SUBSET Views, old : BOOLEAN]
WriterSet == [stage : {"idle", "flush", "clear", "commit"}, op : {"none", "create", "update", "delete"},
              sp : SUBSET Species, val : Nat, todo : SUBSET Catalogue!Keys, kept : SUBSET Catalogue!Keys]

CatalogueTypes ==
    /\ rows \in [Species -> Nat] /\ last \in [Species -> Nat]
    /\ cached \in [Catalogue!Keys -> SUBSET Views] /\ excused \subseteq Catalogue!Keys
    /\ reader \in [Readers -> ReaderSet] /\ writer \in [Writers -> WriterSet] /\ trips \in 0..MaxTrips

\* Versions are in order, and what fish name is there.
VersionsInOrder ==
    /\ \A s \in Species : rows[s] <= last[s] /\ last[s] <= MaxVersion
    /\ \A s \in InUse \cap Standing : rows[s] # 0

OneView(set) == \E v \in Views : set = {v}
Cells == \A k \in Catalogue!Keys : cached[k] = {} \/ OneView(cached[k])

\* What a reader holds is what is committed now, unless it was overtaken.
ReadsNow(q) ==
    /\ q.stage = "load" /\ q.key = "list" /\ ~q.old => q.total = Catalogue!Total
    /\ q.stage = "fill" => OneView(q.view) /\ (~q.old => q.view = {Catalogue!View(q.key, Catalogue!Total)})

\* A writer past its statement has deleted, has yet to delete, or knows that it
\* leaves behind each entry that shows its species.
Covers(p, s) ==
    \A k \in Catalogue!Keys : k \in p.todo \cup p.kept \/ cached[k] = {} \/ k \in Species \ {s}
WritesNow(p) ==
    /\ p.stage \in {"clear", "commit"} => \A s \in p.sp : Covers(p, s) /\ p.val <= last[s] /\ (p.val = 0 => s \notin InUse)
    /\ p.stage = "commit" => p.todo \subseteq p.kept

CatInv ==
    /\ CatalogueTypes /\ VersionsInOrder /\ Cells /\ Catalogue!StaleExplained
    /\ \A r \in Readers : ReadsNow(reader[r])
    /\ \A w \in Writers : WritesNow(writer[w])

LEMMA SameCatalogueCardinality == \A S : Catalogue!Cardinality(S) = Cardinality(S)
BY DEF Catalogue!Cardinality, Cardinality

LEMMA CatHolds == ASSUME CatalogueConstants, CatInv PROVE Catalogue!CatalogueInv
<1>1. \A s \in Species : rows[s] \in 0..last[s] /\ last[s] \in 0..MaxVersion
    BY DEF CatInv, CatalogueTypes, VersionsInOrder, CatalogueConstants
<1>2. ASSUME NEW k \in Catalogue!Keys PROVE Catalogue!Cardinality(cached[k]) <= 1
  <2>1. CASE cached[k] = {}
      BY <2>1, FS_EmptySet, SameCatalogueCardinality
  <2>2. CASE OneView(cached[k])
      BY <2>2, FS_Singleton, SameCatalogueCardinality DEF OneView
  <2> QED BY <2>1, <2>2 DEF CatInv, Cells
<1>3. \A s \in InUse \cap Standing : s \in Catalogue!Present
    BY DEF CatInv, VersionsInOrder, CatalogueConstants, Catalogue!Present
<1> QED BY <1>1, <1>2, <1>3 DEF CatInv, CatalogueTypes, Catalogue!CatalogueInv, Catalogue!CatalogueTypeOK

-----------------------------------------------------------------------------
(* Views. *)

LEMMA TotalType == ASSUME CatalogueConstants PROVE Catalogue!Total \in Nat
<1>1. Catalogue!Present \subseteq Species
    BY DEF Catalogue!Present
<1>2. Cardinality(Catalogue!Present) \in Nat
    BY <1>1, FS_Subset, FS_CardinalityType DEF CatalogueConstants
<1> QED BY <1>2, SameCatalogueCardinality DEF Catalogue!Total

LEMMA ShownType ==
    ASSUME rows \in [Species -> Nat], NEW S \in SUBSET Species, NEW t \in Nat
    PROVE  [total |-> t, items |-> Catalogue!Shown(S)] \in Views
<1>1. Catalogue!Shown(S) \in [S -> Nat]
    BY DEF Catalogue!Shown
<1> QED BY <1>1 DEF Views

LEMMA ViewType ==
    ASSUME CatalogueConstants, rows \in [Species -> Nat], NEW k \in Catalogue!Keys, NEW t \in Nat
    PROVE  Catalogue!View(k, t) \in Views
<1> DEFINE P == Catalogue!Present
           F == {s \in P : rows[s] \in Matching}
<1>1. P \in SUBSET Species /\ P \cap Popular \in SUBSET Species /\ F \in SUBSET Species /\ P \cap {k} \in SUBSET Species
    BY DEF Catalogue!Present
<1>2. 0 \in Nat
    OBVIOUS
<1>3. CASE k = "list"
    BY <1>1, <1>3, ShownType DEF Catalogue!View
<1>4. CASE k = "popular"
    BY <1>1, <1>2, <1>4, ShownType DEF Catalogue!View
<1>5. CASE k = "search"
    BY <1>1, <1>2, <1>5, ShownType DEF Catalogue!View
<1>6. CASE k \notin {"list", "popular", "search"}
    BY <1>1, <1>2, <1>6, ShownType DEF Catalogue!View
<1> QED BY <1>3, <1>4, <1>5, <1>6

\* Only the list shows a total.
LEMMA TotalOfList ==
    ASSUME NEW k, k # "list", NEW t, NEW n
    PROVE  Catalogue!View(k, t) = Catalogue!View(k, n)
BY DEF Catalogue!View

LEMMA SameViews ==
    ASSUME UNCHANGED rows
    PROVE  /\ Catalogue!Present' = Catalogue!Present /\ Catalogue!Total' = Catalogue!Total
           /\ \A k, t : Catalogue!View(k, t)' = Catalogue!View(k, t)
<1>1. Catalogue!Present' = Catalogue!Present
    BY DEF Catalogue!Present
<1>2. Catalogue!Total' = Catalogue!Total
    BY <1>1, SameCatalogueCardinality DEF Catalogue!Total
<1>3. ASSUME NEW S PROVE Catalogue!Shown(S)' = Catalogue!Shown(S)
    BY DEF Catalogue!Shown
<1>4. ASSUME NEW k, NEW t PROVE Catalogue!View(k, t)' = Catalogue!View(k, t)
    BY <1>1 DEF Catalogue!View, Catalogue!Shown
<1> QED BY <1>1, <1>2, <1>4

\* The detail of another species stays as it is.
LEMMA OtherDetail ==
    ASSUME CatalogueConstants, rows \in [Species -> Nat], NEW s \in Species, NEW v \in Nat, rows' = [rows EXCEPT ![s] = v],
           NEW k \in Species \ {s}
    PROVE  Catalogue!View(k, Catalogue!Total)' = Catalogue!View(k, Catalogue!Total)
<1>1. k \notin {"list", "popular", "search"}
    BY DEF CatalogueConstants
<1>2. (Catalogue!Present \cap {k})' = Catalogue!Present \cap {k} /\ rows'[k] = rows[k]
    BY DEF Catalogue!Present
<1> DEFINE D == Catalogue!Present \cap {k}
<1>3. [x \in D |-> rows'[x]] = [x \in D |-> rows[x]]
    BY <1>2
<1>4. Catalogue!Shown(D) = [x \in D |-> rows[x]] /\ Catalogue!Shown(D)' = [x \in D |-> rows'[x]]
    BY <1>2 DEF Catalogue!Shown
<1>5. Catalogue!Shown(D)' = Catalogue!Shown(D)
    BY <1>3, <1>4
<1>6. Catalogue!View(k, Catalogue!Total) = [total |-> 0, items |-> Catalogue!Shown(D)]
    BY <1>1 DEF Catalogue!View
<1>7. Catalogue!View(k, Catalogue!Total)' = [total |-> 0, items |-> Catalogue!Shown(D)']
    BY <1>1 DEF Catalogue!View
<1> QED BY <1>5, <1>6, <1>7

-----------------------------------------------------------------------------
(* Steps. *)

LEMMA RestingReads == Catalogue!Resting \in ReaderSet /\ ReadsNow(Catalogue!Resting)
BY DEF Catalogue!Resting, ReaderSet, ReadsNow, Catalogue!Keys, Catalogue!None

LEMMA FreeWrites == Catalogue!Free \in WriterSet /\ WritesNow(Catalogue!Free)
BY DEF Catalogue!Free, WriterSet, WritesNow, Catalogue!None

LEMMA CatInit == ASSUME CatalogueConstants, Catalogue!Init PROVE CatInv
<1>1. CatalogueTypes
    BY RestingReads, FreeWrites DEF Catalogue!Init, CatalogueTypes, CatalogueConstants, Catalogue!None
<1>2. VersionsInOrder /\ Cells /\ Catalogue!StaleExplained
    BY DEF Catalogue!Init, VersionsInOrder, Cells, Catalogue!StaleExplained, Catalogue!None, CatalogueConstants
<1>3. \A r \in Readers : ReadsNow(reader[r])
    BY RestingReads DEF Catalogue!Init
<1>4. \A w \in Writers : WritesNow(writer[w])
    BY FreeWrites DEF Catalogue!Init
<1> QED BY <1>1, <1>2, <1>3, <1>4 DEF CatInv

LEMMA SameReads ==
    ASSUME UNCHANGED rows
    PROVE  \A q : ReadsNow(q)' <=> ReadsNow(q)
<1>1. Catalogue!Total' = Catalogue!Total /\ \A k, t : Catalogue!View(k, t)' = Catalogue!View(k, t)
    BY SameViews
<1> SUFFICES ASSUME NEW q PROVE ReadsNow(q)' <=> ReadsNow(q)
    OBVIOUS
<1>2. Catalogue!View(q.key, Catalogue!Total)' = Catalogue!View(q.key, Catalogue!Total)
    BY <1>1
<1> QED BY <1>1, <1>2 DEF ReadsNow

LEMMA SameWrites ==
    ASSUME UNCHANGED <<last, cached>>
    PROVE  \A p : WritesNow(p)' <=> WritesNow(p)
BY DEF WritesNow, Covers

\* Nothing but readers changes.
LEMMA ReadersOnly ==
    ASSUME CatInv, UNCHANGED <<rows, last, cached, writer, excused>>, trips' \in 0..MaxTrips,
           reader' \in [Readers -> ReaderSet], \A r \in Readers : ReadsNow(reader'[r])
    PROVE  CatInv'
<1>1. CatalogueTypes' /\ VersionsInOrder' /\ Cells'
    BY DEF CatInv, CatalogueTypes, VersionsInOrder, Cells
<1>2. Catalogue!StaleExplained'
  <2>1. Catalogue!Total' = Catalogue!Total /\ \A k, t : Catalogue!View(k, t)' = Catalogue!View(k, t)
      BY SameViews
  <2>2. \A k : Catalogue!View(k, Catalogue!Total)' = Catalogue!View(k, Catalogue!Total)
      BY <2>1
  <2> QED BY <2>2 DEF CatInv, Catalogue!StaleExplained
<1>3. \A r \in Readers : ReadsNow(reader[r])'
    BY SameReads
<1>4. \A w \in Writers : WritesNow(writer[w])'
    BY SameWrites DEF CatInv
<1> QED BY <1>1, <1>2, <1>3, <1>4 DEF CatInv

LEMMA OneReader ==
    ASSUME CatInv, UNCHANGED <<rows, last, cached, writer, excused>>, trips' \in 0..MaxTrips,
           NEW r \in Readers, NEW q \in ReaderSet, ReadsNow(q), reader' = [reader EXCEPT ![r] = q]
    PROVE  CatInv'
<1>1. reader' \in [Readers -> ReaderSet] /\ \A p \in Readers : ReadsNow(reader'[p])
    BY DEF CatInv, CatalogueTypes
<1> QED BY <1>1, ReadersOnly

LEMMA MissStep == ASSUME CatalogueConstants, CatInv, NEW r \in Readers, NEW k \in Catalogue!Keys, Catalogue!Miss(r, k) PROVE CatInv'
<1> DEFINE q == [Catalogue!Resting EXCEPT !.stage = "load", !.key = k, !.total = Catalogue!Total]
<1>1. q \in ReaderSet /\ q.stage = "load" /\ q.total = Catalogue!Total
    BY RestingReads, TotalType DEF ReaderSet
<1>2. ReadsNow(q)
    BY <1>1 DEF ReadsNow
<1>3. trips' \in 0..MaxTrips
    BY DEF CatInv, CatalogueTypes, Catalogue!Miss, CatalogueConstants
<1> HIDE DEF q
<1> QED BY <1>1, <1>2, <1>3, OneReader DEF Catalogue!Miss, q

LEMMA LoadStep == ASSUME CatalogueConstants, CatInv, NEW r \in Readers, NEW k \in Catalogue!Keys, Catalogue!Load(r, k) PROVE CatInv'
<1> DEFINE v == Catalogue!View(k, reader[r].total)
           q == [reader[r] EXCEPT !.stage = "fill", !.view = {v}]
<1>1. trips' \in 0..MaxTrips
    BY DEF CatInv, CatalogueTypes, Catalogue!Load
<1>2. CASE k \in Species \ Catalogue!Present
    BY <1>1, <1>2, RestingReads, OneReader DEF Catalogue!Load
<1>3. CASE k \notin Species \ Catalogue!Present
  <2>1. reader[r] \in ReaderSet /\ reader[r].key = k /\ reader[r].stage = "load" /\ ReadsNow(reader[r])
      BY DEF CatInv, CatalogueTypes, Catalogue!Load
  <2>2. v \in Views
      BY <2>1, ViewType DEF CatInv, CatalogueTypes, ReaderSet
  <2>3. q \in ReaderSet /\ q.stage = "fill" /\ q.view = {v} /\ q.key = k /\ q.old = reader[r].old
      BY <2>1, <2>2 DEF ReaderSet
  <2>4. ~q.old => v = Catalogue!View(k, Catalogue!Total)
    <3>1. CASE k = "list"
        BY <2>1, <2>3, <3>1 DEF ReadsNow
    <3>2. CASE k # "list"
        BY <3>2, TotalOfList
    <3> QED BY <3>1, <3>2
  <2>5. ReadsNow(q)
    <3> HIDE DEF q, v
    <3> QED BY <2>2, <2>3, <2>4 DEF ReadsNow, OneView
  <2>6. reader' = [reader EXCEPT ![r] = q]
      BY <1>3, <2>1 DEF Catalogue!Load, CatInv, CatalogueTypes
  <2> HIDE DEF q
  <2> QED BY <1>1, <2>3, <2>5, <2>6, OneReader DEF Catalogue!Load
<1> QED BY <1>2, <1>3

LEMMA FillFailsStep == ASSUME CatalogueConstants, CatInv, NEW r \in Readers, Catalogue!FillFails(r) PROVE CatInv'
<1>1. trips' \in 0..MaxTrips
    BY DEF CatInv, CatalogueTypes, Catalogue!FillFails, CatalogueConstants
<1> QED BY <1>1, RestingReads, OneReader DEF Catalogue!FillFails

LEMMA FillStep == ASSUME CatalogueConstants, CatInv, NEW r \in Readers, NEW k \in Catalogue!Keys, Catalogue!Fill(r, k) PROVE CatInv'
<1>1. /\ UNCHANGED <<rows, last, trips>> /\ cached' = [cached EXCEPT ![k] = reader[r].view]
      /\ reader' = [reader EXCEPT ![r] = Catalogue!Resting]
      /\ excused' = IF reader[r].old THEN excused \cup {k} ELSE excused \ {k}
      /\ writer' = [w \in Writers |-> IF writer[w].stage \in {"clear", "commit"}
                                      THEN [writer[w] EXCEPT !.kept = @ \cup {k}] ELSE writer[w]]
    BY DEF Catalogue!Fill
<1>2. /\ reader[r] \in ReaderSet /\ OneView(reader[r].view)
      /\ ~reader[r].old => reader[r].view = {Catalogue!View(k, Catalogue!Total)}
    BY DEF CatInv, CatalogueTypes, Catalogue!Fill, ReadsNow
<1>3. CatalogueTypes'
  <2>1. writer' \in [Writers -> WriterSet]
    <3> SUFFICES ASSUME NEW w \in Writers PROVE [writer[w] EXCEPT !.kept = @ \cup {k}] \in WriterSet /\ writer[w] \in WriterSet
        BY <1>1
    <3> QED BY DEF CatInv, CatalogueTypes, WriterSet
  <2>2. cached' \in [Catalogue!Keys -> SUBSET Views] /\ excused' \subseteq Catalogue!Keys
      BY <1>1, <1>2 DEF CatInv, CatalogueTypes, ReaderSet
  <2> QED BY <1>1, <2>1, <2>2, RestingReads DEF CatInv, CatalogueTypes
<1>4. VersionsInOrder' /\ Cells'
    BY <1>1, <1>2 DEF CatInv, CatalogueTypes, VersionsInOrder, Cells
<1>5. Catalogue!StaleExplained'
  <2>1. Catalogue!Total' = Catalogue!Total /\ \A j, t : Catalogue!View(j, t)' = Catalogue!View(j, t)
      BY <1>1, SameViews
  <2>2. \A j : Catalogue!View(j, Catalogue!Total)' = Catalogue!View(j, Catalogue!Total)
      BY <2>1
  <2> SUFFICES ASSUME NEW j \in Catalogue!Keys, cached'[j] \notin {Catalogue!None, {Catalogue!View(j, Catalogue!Total)}}
               PROVE  j \in excused'
      BY <2>2 DEF Catalogue!StaleExplained
  <2>3. CASE j = k
      BY <1>1, <1>2, <2>3 DEF CatInv, CatalogueTypes
  <2>4. CASE j # k
      BY <1>1, <2>4 DEF CatInv, CatalogueTypes, Catalogue!StaleExplained
  <2> QED BY <2>3, <2>4
<1>6. \A p \in Readers : ReadsNow(reader[p])'
  <2>1. \A p \in Readers : ReadsNow(reader'[p])
      BY <1>1, RestingReads DEF CatInv, CatalogueTypes
  <2> QED BY <1>1, <2>1, SameReads
<1>7. ASSUME NEW w \in Writers PROVE WritesNow(writer[w])'
  <2>1. writer[w] \in WriterSet /\ WritesNow(writer[w])
      BY DEF CatInv, CatalogueTypes
  <2>2. CASE writer[w].stage \in {"clear", "commit"}
    <3>1. writer'[w] = [writer[w] EXCEPT !.kept = @ \cup {k}]
        BY <1>1, <2>2
    <3>2. /\ writer'[w].kept = writer[w].kept \cup {k} /\ writer'[w].todo = writer[w].todo /\ writer'[w].sp = writer[w].sp
          /\ writer'[w].val = writer[w].val /\ writer'[w].stage = writer[w].stage
        BY <2>1, <3>1 DEF WriterSet
    <3>3. \A j \in Catalogue!Keys \ {k} : cached'[j] = cached[j]
        BY <1>1 DEF CatInv, CatalogueTypes
    <3> QED BY <1>1, <2>1, <3>2, <3>3 DEF WritesNow, Covers
  <2>3. CASE writer[w].stage \notin {"clear", "commit"}
      BY <1>1, <2>3 DEF WritesNow
  <2> QED BY <2>2, <2>3
<1> QED BY <1>3, <1>4, <1>5, <1>6, <1>7 DEF CatInv

\* An entry goes.
LEMMA Gone ==
    ASSUME CatInv, UNCHANGED <<rows, last, reader, trips>>, NEW k \in Catalogue!Keys,
           cached' = [cached EXCEPT ![k] = {}], excused' = excused \ {k},
           writer' \in [Writers -> WriterSet], \A w \in Writers : WritesNow(writer[w])'
    PROVE  CatInv'
<1>1. CatalogueTypes' /\ VersionsInOrder' /\ Cells'
    BY DEF CatInv, CatalogueTypes, VersionsInOrder, Cells
<1>2. Catalogue!StaleExplained'
  <2>1. Catalogue!Total' = Catalogue!Total /\ \A j, t : Catalogue!View(j, t)' = Catalogue!View(j, t)
      BY SameViews
  <2>2. \A j : Catalogue!View(j, Catalogue!Total)' = Catalogue!View(j, Catalogue!Total)
      BY <2>1
  <2> QED BY <2>2 DEF CatInv, CatalogueTypes, Catalogue!StaleExplained, Catalogue!None
<1>3. \A r \in Readers : ReadsNow(reader[r])'
    BY SameReads DEF CatInv
<1> QED BY <1>1, <1>2, <1>3 DEF CatInv

LEMMA ExpireStep == ASSUME CatInv, NEW k \in Catalogue!Keys, Catalogue!Expire(k) PROVE CatInv'
<1>1. /\ UNCHANGED <<rows, last, reader, writer, trips>> /\ cached' = [cached EXCEPT ![k] = {}]
      /\ excused' = excused \ {k}
    BY DEF Catalogue!Expire, Catalogue!None
<1>2. ASSUME NEW w \in Writers PROVE WritesNow(writer[w])'
  <2>1. \A j \in Catalogue!Keys : cached'[j] = cached[j] \/ cached'[j] = {}
      BY <1>1 DEF CatInv, CatalogueTypes
  <2> QED BY <1>1, <2>1 DEF CatInv, WritesNow, Covers
<1>3. writer' \in [Writers -> WriterSet]
    BY <1>1 DEF CatInv, CatalogueTypes
<1> QED BY <1>1, <1>2, <1>3, Gone

\* Nothing but writers changes, and the last version of a species grows.
LEMMA WritersOnly ==
    ASSUME CatInv, UNCHANGED <<rows, cached, reader, excused>>, trips' \in 0..MaxTrips,
           last' \in [Species -> Nat], \A s \in Species : last[s] <= last'[s] /\ last'[s] <= MaxVersion,
           writer' \in [Writers -> WriterSet], \A w \in Writers : WritesNow(writer[w])'
    PROVE  CatInv'
<1>1. CatalogueTypes' /\ VersionsInOrder' /\ Cells'
    BY DEF CatInv, CatalogueTypes, VersionsInOrder, Cells
<1>2. Catalogue!StaleExplained'
  <2>1. Catalogue!Total' = Catalogue!Total /\ \A k, t : Catalogue!View(k, t)' = Catalogue!View(k, t)
      BY SameViews
  <2>2. \A k : Catalogue!View(k, Catalogue!Total)' = Catalogue!View(k, Catalogue!Total)
      BY <2>1
  <2> QED BY <2>2 DEF CatInv, Catalogue!StaleExplained
<1>3. \A r \in Readers : ReadsNow(reader[r])'
    BY SameReads DEF CatInv
<1> QED BY <1>1, <1>2, <1>3 DEF CatInv

LEMMA OneWriter ==
    ASSUME CatalogueConstants, CatInv, UNCHANGED <<rows, last, cached, reader, excused>>, trips' \in 0..MaxTrips,
           NEW w \in Writers, NEW p \in WriterSet, WritesNow(p), writer' = [writer EXCEPT ![w] = p]
    PROVE  CatInv'
<1>1. writer' \in [Writers -> WriterSet] /\ \A v \in Writers : WritesNow(writer'[v])
    BY DEF CatInv, CatalogueTypes
<1>2. \A v \in Writers : WritesNow(writer[v])'
    BY <1>1, SameWrites
<1>3. last' \in [Species -> Nat] /\ \A s \in Species : last[s] <= last'[s] /\ last'[s] <= MaxVersion
    BY DEF CatInv, CatalogueTypes, VersionsInOrder
<1> QED BY <1>1, <1>2, <1>3, WritersOnly

LEMMA BeginStep ==
    ASSUME CatalogueConstants, CatInv, NEW w \in Writers, NEW op \in {"create", "update", "delete"}, NEW s \in Species,
           Catalogue!Begin(w, op, s)
    PROVE  CatInv'
<1> DEFINE p == [Catalogue!Free EXCEPT !.stage = "flush", !.op = op, !.sp = {s}]
<1>1. p \in WriterSet /\ p.stage = "flush"
    BY FreeWrites DEF WriterSet
<1>2. WritesNow(p)
    BY <1>1 DEF WritesNow
<1>3. trips' \in 0..MaxTrips
    BY DEF CatInv, CatalogueTypes, Catalogue!Begin
<1> HIDE DEF p
<1> QED BY <1>1, <1>2, <1>3, OneWriter DEF Catalogue!Begin, p

LEMMA ClearFailsStep == ASSUME CatalogueConstants, CatInv, NEW w \in Writers, Catalogue!ClearFails(w) PROVE CatInv'
<1> DEFINE p == [writer[w] EXCEPT !.stage = "commit", !.kept = @ \cup writer[w].todo]
<1>1. writer[w] \in WriterSet /\ WritesNow(writer[w]) /\ writer[w].stage = "clear"
    BY DEF CatInv, CatalogueTypes, Catalogue!ClearFails
<1>2. /\ p \in WriterSet /\ p.kept = writer[w].kept \cup writer[w].todo /\ p.todo = writer[w].todo
      /\ p.sp = writer[w].sp /\ p.val = writer[w].val
    BY <1>1 DEF WriterSet
<1>3. WritesNow(p)
  <2> HIDE DEF p
  <2> QED BY <1>1, <1>2 DEF WritesNow, Covers
<1>4. trips' \in 0..MaxTrips
    BY DEF CatInv, CatalogueTypes, Catalogue!ClearFails, CatalogueConstants
<1>5. writer' = [writer EXCEPT ![w] = p]
    BY <1>1 DEF Catalogue!ClearFails, CatInv, CatalogueTypes
<1> HIDE DEF p
<1> QED BY <1>2, <1>3, <1>4, <1>5, OneWriter DEF Catalogue!ClearFails

LEMMA RollBackStep == ASSUME CatalogueConstants, CatInv, NEW w \in Writers, Catalogue!RollBack(w) PROVE CatInv'
<1>1. trips' \in 0..MaxTrips
    BY DEF CatInv, CatalogueTypes, Catalogue!RollBack, CatalogueConstants
<1> QED BY <1>1, FreeWrites, OneWriter DEF Catalogue!RollBack

LEMMA FlushStep ==
    ASSUME CatalogueConstants, CatInv, NEW w \in Writers, NEW s \in Species, Catalogue!Flush(w, s)
    PROVE  CatInv'
<1> DEFINE op == writer[w].op
           ok == /\ op = "create" <=> s \notin Catalogue!Present
                 /\ op = "delete" => Catalogue!Deletable(s)
                 /\ op # "delete" => last[s] < MaxVersion
<1>1. writer[w] \in WriterSet /\ writer[w].sp = {s} /\ trips' \in 0..MaxTrips /\ UNCHANGED <<rows, cached, reader, excused>>
    BY DEF CatInv, CatalogueTypes, Catalogue!Flush
<1>2. CASE ok
  <2>0. PICK p : p = [writer[w] EXCEPT !.stage = "clear", !.todo = Catalogue!Cleared(op, s),
                                       !.val = IF op = "delete" THEN 0 ELSE last[s] + 1,
                                       !.kept = IF op = "update" THEN {"search"} ELSE {}]
      OBVIOUS
  <2>1. last' = IF op = "delete" THEN last ELSE [last EXCEPT ![s] = @ + 1]
      BY <1>2 DEF Catalogue!Flush
  <2>2. writer' = [writer EXCEPT ![w] = p]
      BY <1>1, <1>2, <2>0 DEF Catalogue!Flush, CatInv, CatalogueTypes
  <2>3. last' \in [Species -> Nat] /\ \A t \in Species : last[t] <= last'[t] /\ last'[t] <= MaxVersion
      BY <1>2, <2>1 DEF CatInv, CatalogueTypes, VersionsInOrder, CatalogueConstants
  <2>4. Catalogue!Cleared(op, s) \subseteq Catalogue!Keys /\ "search" \in Catalogue!Keys
      BY DEF Catalogue!Cleared, Catalogue!Keys
  <2>5. /\ p \in WriterSet /\ p.stage = "clear" /\ p.sp = {s} /\ p.todo = Catalogue!Cleared(op, s)
        /\ p.val = (IF op = "delete" THEN 0 ELSE last[s] + 1) /\ p.kept = IF op = "update" THEN {"search"} ELSE {}
    <3>1. last[s] + 1 \in Nat
        BY DEF CatInv, CatalogueTypes
    <3> QED BY <1>1, <2>0, <2>4, <3>1 DEF WriterSet
  <2>6. p.val <= last'[s] /\ (p.val = 0 => s \notin InUse)
    <3>1. CASE op = "delete"
        BY <1>2, <2>3, <2>5, <3>1 DEF Catalogue!Deletable
    <3>2. CASE op # "delete"
        BY <2>1, <2>5, <3>2 DEF CatInv, CatalogueTypes
    <3> QED BY <3>1, <3>2
  <2>7. \A k \in Catalogue!Keys : k \in p.todo \cup p.kept \/ k \in Species \ {s}
      BY <2>5 DEF Catalogue!Cleared, Catalogue!Keys
  <2>8. WritesNow(p)'
      BY <2>5, <2>6, <2>7 DEF WritesNow, Covers
  <2>9. ASSUME NEW v \in Writers PROVE writer'[v] \in WriterSet /\ WritesNow(writer[v])'
    <3>1. CASE v = w
      <4>1. writer'[v] = p
          BY <2>2, <3>1 DEF CatInv, CatalogueTypes
      <4> QED BY <2>5, <2>8, <4>1 DEF WritesNow, Covers
    <3>2. CASE v # w
      <4>1. writer'[v] = writer[v] /\ writer[v] \in WriterSet /\ WritesNow(writer[v])
          BY <2>2, <3>2 DEF CatInv, CatalogueTypes
      <4>2. \A t \in writer[v].sp : t \in Species
          BY <4>1 DEF WriterSet
      <4>3. \A t \in writer[v].sp : writer[v].val <= last[t] => writer[v].val <= last'[t]
          BY <2>3, <4>1, <4>2 DEF WriterSet, CatInv, CatalogueTypes
      <4> QED BY <1>1, <4>1, <4>3 DEF WritesNow, Covers
    <3> QED BY <3>1, <3>2
  <2>10. writer' \in [Writers -> WriterSet]
      BY <2>2, <2>5 DEF CatInv, CatalogueTypes
  <2> QED BY <1>1, <2>3, <2>9, <2>10, WritersOnly
<1>3. CASE ~ok
  <2>1. writer' = [writer EXCEPT ![w] = Catalogue!Free] /\ UNCHANGED last
      BY <1>3 DEF Catalogue!Flush
  <2> QED BY <1>1, <2>1, FreeWrites, OneWriter
<1> QED BY <1>2, <1>3

LEMMA ClearStep == ASSUME CatalogueConstants, CatInv, NEW w \in Writers, NEW k \in Catalogue!Keys, Catalogue!Clear(w, k) PROVE CatInv'
<1>0. PICK p : p = [writer[w] EXCEPT !.todo = @ \ {k}, !.kept = @ \ {k},
                                     !.stage = IF writer[w].todo = {k} THEN "commit" ELSE "clear"]
    OBVIOUS
<1>1. writer[w] \in WriterSet /\ WritesNow(writer[w]) /\ writer[w].stage = "clear"
    BY DEF CatInv, CatalogueTypes, Catalogue!Clear
<1>2. /\ p \in WriterSet /\ p.kept = writer[w].kept \ {k} /\ p.todo = writer[w].todo \ {k}
      /\ p.sp = writer[w].sp /\ p.val = writer[w].val /\ (p.stage = "commit" => writer[w].todo = {k})
    BY <1>0, <1>1 DEF WriterSet
<1>3. /\ UNCHANGED <<rows, last, reader, trips>> /\ cached' = [cached EXCEPT ![k] = {}]
      /\ excused' = excused \ {k}
    BY DEF Catalogue!Clear, Catalogue!None
<1>4. writer' = [writer EXCEPT ![w] = p]
    BY <1>0, <1>1 DEF Catalogue!Clear, CatInv, CatalogueTypes
<1>5. cached'[k] = {} /\ \A j \in Catalogue!Keys : cached'[j] = cached[j] \/ cached'[j] = {}
    BY <1>3 DEF CatInv, CatalogueTypes
<1>6. WritesNow(p)'
    BY <1>1, <1>2, <1>3, <1>5 DEF WritesNow, Covers
<1>7. ASSUME NEW v \in Writers PROVE WritesNow(writer[v])'
  <2>1. CASE v = w
    <3>1. writer'[v] = p
        BY <1>4, <2>1 DEF CatInv, CatalogueTypes
    <3> QED BY <1>6, <3>1 DEF WritesNow, Covers
  <2>2. CASE v # w
    <3>1. writer'[v] = writer[v] /\ WritesNow(writer[v])
        BY <1>4, <2>2 DEF CatInv, CatalogueTypes
    <3> QED BY <1>3, <1>5, <3>1 DEF WritesNow, Covers
  <2> QED BY <2>1, <2>2
<1>8. writer' \in [Writers -> WriterSet]
    BY <1>2, <1>4 DEF CatInv, CatalogueTypes
<1> QED BY <1>3, <1>7, <1>8, Gone

-----------------------------------------------------------------------------
(* The rows change. *)

\* A reader that holds something is overtaken.
LEMMA OvertakenReads ==
    ASSUME CatInv, NEW r \in Readers
    PROVE  \E q \in ReaderSet : /\ q = Catalogue!Overtaken[r]
                                /\ q.stage = "fill" => OneView(q.view)
                                /\ q.stage = "fill" \/ (q.stage = "load" /\ q.key = "list") => q.old
<1>0. PICK q : q = Catalogue!Overtaken[r]
    OBVIOUS
<1>1. reader[r] \in ReaderSet /\ ReadsNow(reader[r])
    BY DEF CatInv, CatalogueTypes
<1>2. q = [reader[r] EXCEPT !.old = @ \/ Catalogue!HasRead(r)]
    BY <1>0 DEF Catalogue!Overtaken
<1>3. reader[r].old \in BOOLEAN /\ Catalogue!HasRead(r) \in BOOLEAN
    BY <1>1 DEF ReaderSet, Catalogue!HasRead
<1>4. (reader[r].old \/ Catalogue!HasRead(r)) \in BOOLEAN
    BY <1>3
<1>5. /\ q \in ReaderSet /\ q.stage = reader[r].stage /\ q.key = reader[r].key /\ q.view = reader[r].view
      /\ q.old = (reader[r].old \/ Catalogue!HasRead(r))
    BY <1>1, <1>2, <1>4 DEF ReaderSet
<1>6. q.stage = "fill" \/ (q.stage = "load" /\ q.key = "list") => q.old
    BY <1>5 DEF Catalogue!HasRead
<1> QED BY <1>0, <1>1, <1>5, <1>6 DEF ReadsNow

LEMMA ReadersOvertaken ==
    ASSUME CatInv, reader' = Catalogue!Overtaken
    PROVE  reader' \in [Readers -> ReaderSet] /\ \A r \in Readers : ReadsNow(reader[r])'
<1>1. ASSUME NEW r \in Readers PROVE reader'[r] \in ReaderSet /\ ReadsNow(reader[r])'
  <2>1. PICK q \in ReaderSet : /\ q = Catalogue!Overtaken[r]
                               /\ q.stage = "fill" => OneView(q.view)
                               /\ q.stage = "fill" \/ (q.stage = "load" /\ q.key = "list") => q.old
      BY OvertakenReads
  <2>2. reader'[r] = q
      BY <2>1
  <2> QED BY <2>1, <2>2 DEF ReadsNow
<1> QED BY <1>1 DEF Catalogue!Overtaken

LEMMA CommitStep ==
    ASSUME CatalogueConstants, CatInv, NEW w \in Writers, NEW s \in Species, Catalogue!Commit(w, s)
    PROVE  CatInv'
<1>1. /\ rows' = [rows EXCEPT ![s] = writer[w].val] /\ excused' = excused \cup writer[w].kept
      /\ reader' = Catalogue!Overtaken /\ writer' = [writer EXCEPT ![w] = Catalogue!Free]
      /\ UNCHANGED <<last, cached, trips>>
    BY DEF Catalogue!Commit
<1>2. /\ writer[w] \in WriterSet /\ writer[w].todo \subseteq writer[w].kept /\ Covers(writer[w], s)
      /\ writer[w].val <= last[s] /\ (writer[w].val = 0 => s \notin InUse)
    BY DEF Catalogue!Commit, CatInv, CatalogueTypes, WritesNow
<1>3. writer[w].val \in Nat /\ writer[w].kept \subseteq Catalogue!Keys
    BY <1>2 DEF WriterSet
<1>4. reader' \in [Readers -> ReaderSet] /\ \A r \in Readers : ReadsNow(reader[r])'
    BY <1>1, ReadersOvertaken
<1>5. CatalogueTypes'
    BY <1>1, <1>3, <1>4, FreeWrites DEF CatInv, CatalogueTypes
<1>6. VersionsInOrder' /\ Cells'
    BY <1>1, <1>2, <1>3 DEF CatInv, CatalogueTypes, VersionsInOrder, Cells
<1>7. Catalogue!StaleExplained'
  <2> SUFFICES ASSUME NEW k \in Catalogue!Keys, k \notin excused',
                      cached'[k] \notin {Catalogue!None, {Catalogue!View(k, Catalogue!Total)'}}
               PROVE  FALSE
      BY DEF Catalogue!StaleExplained
  <2>1. k \notin excused /\ k \notin writer[w].kept /\ k \notin writer[w].todo /\ cached[k] # {}
      BY <1>1, <1>2 DEF Catalogue!None
  <2>2. k \in Species \ {s}
      BY <1>2, <2>1 DEF Covers
  <2>3. Catalogue!View(k, Catalogue!Total)' = Catalogue!View(k, Catalogue!Total)
      BY <1>1, <1>3, <2>2, OtherDetail DEF CatInv, CatalogueTypes
  <2> QED BY <1>1, <2>1, <2>3 DEF CatInv, Catalogue!StaleExplained
<1>8. \A v \in Writers : WritesNow(writer[v])'
  <2>1. \A v \in Writers : WritesNow(writer'[v])
      BY <1>1, FreeWrites DEF CatInv, CatalogueTypes
  <2> QED BY <1>1, <2>1, SameWrites
<1> QED BY <1>4, <1>5, <1>6, <1>7, <1>8 DEF CatInv

LEMMA BackOfficeStep ==
    ASSUME CatalogueConstants, CatInv, NEW s \in Species, Catalogue!ChangeInBackOffice(s)
    PROVE  CatInv'
<1>1. excused' = Catalogue!Keys /\ reader' = Catalogue!Overtaken /\ UNCHANGED <<cached, writer, trips>>
    BY DEF Catalogue!ChangeInBackOffice
<1>2. /\ rows' \in [Species -> Nat] /\ last' \in [Species -> Nat] /\ VersionsInOrder'
      /\ \A t \in Species : last[t] <= last'[t]
  <2>1. CASE last[s] < MaxVersion /\ last' = [last EXCEPT ![s] = @ + 1] /\ rows' = [rows EXCEPT ![s] = last[s] + 1]
      BY <2>1 DEF CatInv, CatalogueTypes, VersionsInOrder, CatalogueConstants
  <2>2. CASE Catalogue!Deletable(s) /\ rows' = [rows EXCEPT ![s] = 0] /\ UNCHANGED last
      BY <2>2 DEF CatInv, CatalogueTypes, VersionsInOrder, CatalogueConstants, Catalogue!Deletable
  <2> QED BY <2>1, <2>2 DEF Catalogue!ChangeInBackOffice
<1>3. reader' \in [Readers -> ReaderSet] /\ \A r \in Readers : ReadsNow(reader[r])'
    BY <1>1, ReadersOvertaken
<1>4. CatalogueTypes' /\ Cells'
    BY <1>1, <1>2, <1>3 DEF CatInv, CatalogueTypes, Cells
<1>5. Catalogue!StaleExplained'
    BY <1>1 DEF Catalogue!StaleExplained
<1>6. ASSUME NEW v \in Writers PROVE WritesNow(writer[v])'
  <2>1. writer'[v] = writer[v] /\ writer[v] \in WriterSet /\ WritesNow(writer[v])
      BY <1>1 DEF CatInv, CatalogueTypes
  <2>2. \A t \in writer[v].sp : writer[v].val <= last[t] => writer[v].val <= last'[t]
      BY <1>2, <2>1 DEF WriterSet, CatInv, CatalogueTypes
  <2> QED BY <1>1, <2>1, <2>2 DEF WritesNow, Covers
<1> QED BY <1>2, <1>3, <1>4, <1>5, <1>6 DEF CatInv

LEMMA CatStep ==
    ASSUME CatalogueConstants, CatInv, [Catalogue!Next]_catalogueVars
    PROVE  CatInv'
<1>1. ASSUME NEW r \in Readers, NEW k \in Catalogue!Keys, Catalogue!Miss(r, k) \/ Catalogue!Load(r, k) \/ Catalogue!Fill(r, k)
      PROVE  CatInv'
    BY <1>1, MissStep, LoadStep, FillStep
<1>2. ASSUME NEW k \in Catalogue!Keys, Catalogue!Expire(k) PROVE CatInv'
    BY <1>2, ExpireStep
<1>3. ASSUME NEW w \in Writers, NEW s \in Species, Catalogue!Flush(w, s) \/ Catalogue!Commit(w, s)
      PROVE  CatInv'
    BY <1>3, FlushStep, CommitStep
<1>4. ASSUME NEW w \in Writers, NEW s \in Species, NEW op \in {"create", "update", "delete"}, Catalogue!Begin(w, op, s)
      PROVE  CatInv'
    BY <1>4, BeginStep
<1>5. ASSUME NEW w \in Writers, NEW k \in Catalogue!Keys, Catalogue!Clear(w, k) PROVE CatInv'
    BY <1>5, ClearStep
<1>6. ASSUME NEW w \in Writers, Catalogue!ClearFails(w) \/ Catalogue!RollBack(w) PROVE CatInv'
    BY <1>6, ClearFailsStep, RollBackStep
<1>7. ASSUME NEW s \in Species, Catalogue!ChangeInBackOffice(s) PROVE CatInv'
    BY <1>7, BackOfficeStep
<1>8. ASSUME NEW r \in Readers, Catalogue!FillFails(r) PROVE CatInv'
    BY <1>8, FillFailsStep
<1>9. CASE UNCHANGED catalogueVars
  <2>1. trips' \in 0..MaxTrips /\ reader' \in [Readers -> ReaderSet] /\ \A r \in Readers : ReadsNow(reader'[r])
      BY <1>9 DEF catalogueVars, CatInv, CatalogueTypes
  <2> QED BY <1>9, <2>1, ReadersOnly DEF catalogueVars
<1> QED BY <1>1, <1>2, <1>3, <1>4, <1>5, <1>6, <1>7, <1>8, <1>9 DEF Catalogue!Next

\* For any number of species, readers and writers: what fish name stays in the
\* catalogue, and a cached entry that differs from the rows has one of the
\* reasons that the code leaves it (get_species, invalidate_species_cache).
THEOREM StalenessExplained == RecognitionSpec => []CatalogueInv
<1> DEFINE Held == component = "catalogue" => CatInv
<1>0. CatalogueConstants
    BY RecognitionAssumption DEF RecognitionAssumption, CatalogueConstants
<1>1. RecognitionInit => Held
    BY <1>0, CatInit DEF RecognitionInit
<1>2. Held /\ [RecognitionNext]_recognitionVars => Held'
  <2> SUFFICES ASSUME Held, [RecognitionNext]_recognitionVars, component' = "catalogue" PROVE CatInv'
      OBVIOUS
  <2>1. component = "catalogue" /\ [Catalogue!Next]_catalogueVars
      BY DEF RecognitionNext, recognitionVars
  <2> QED BY <2>1, <1>0, CatStep
<1>3. Held => CatalogueInv
    BY <1>0, CatHolds DEF CatalogueInv
<1> QED BY <1>1, <1>2, <1>3, PTL DEF RecognitionSpec

-----------------------------------------------------------------------------
(* Scans.                                                                  *)

\* Records of the three kinds; what the mapping of labels finds can be anything.
IsScan(s) == s = [user |-> s.user, image |-> s.image, found |-> s.found, others |-> s.others,
                  confirmed |-> s.confirmed, corrected |-> s.corrected]
IsRequest(q) == q = [stage |-> q.stage, user |-> q.user, image |-> q.image, found |-> q.found,
                     others |-> q.others, answer |-> q.answer]

ScanTypes ==
    /\ scan = [r \in Requests |-> scan[r]] /\ \A r \in Requests : IsScan(scan[r])
    /\ asks = [r \in Requests |-> asks[r]] /\ \A r \in Requests : IsRequest(asks[r])
    /\ confirm = [c \in Confirmations |-> confirm[c]]
    /\ calls \in [Users -> [Images -> Nat]]

Running == {"asked", "called", "mapped"}

\* A request under way is somebody's for a photo and has no answer yet; an
\* answer is the scan of a request that is over, of the same user.
AskSound(q) ==
    /\ q.stage \in {"new", "done"} \cup Running
    /\ q.stage \in Running => q.answer = {} /\ \E u \in Users, i \in Images : q.user = {u} /\ q.image = {i}
    /\ q.stage = "new" => q.answer = {}
    /\ \A s \in Requests : s \in q.answer => asks[s].stage = "done" /\ (Scans!There(s) => scan[s].user = q.user)

\* A scan belongs to a request that is over and to a user who is there.
RowSound(r) ==
    Scans!There(r) =>
        /\ asks[r].stage = "done"
        /\ \E u \in Users \ erased, i \in Images : scan[r].user = {u} /\ scan[r].image = {i}
        /\ scan[r].found \cup scan[r].confirmed \subseteq standing

\* Unless scans of a photo overlapped or failed, one request at most works on
\* it, and whoever has called the provider is under way or has left a scan.
CallsSound(u, i) ==
    <<u, i>> \in repeated \/ u \in erased \/
        /\ \A p, q \in Requests : /\ asks[p].stage \in Running /\ asks[p].user = {u} /\ asks[p].image = {i}
                                  /\ asks[q].stage \in Running /\ asks[q].user = {u} /\ asks[q].image = {i}
                                  => p = q
        /\ calls[u][i] <= 1
        /\ calls[u][i] = 1 => \E r \in Requests :
              \/ scan[r].user = {u} /\ scan[r].image = {i}
              \/ asks[r].stage \in {"called", "mapped"} /\ asks[r].user = {u} /\ asks[r].image = {i}

\* A confirmation has loaded the scan as it is, unless that is blurred.
ConfirmSound(c, k) ==
    /\ k.stage \in {"new", "loaded", "done"}
    /\ k.stage = "loaded" => \E s \in Requests, x \in Kinds :
          /\ k.scan = {s} /\ k.species = {x} /\ asks[s].stage = "done"
          /\ s \notin blurred => /\ Scans!There(s) => k.loaded = scan[s]
                                 /\ \A d \in Confirmations \ {c} : confirm[d].stage = "loaded" => confirm[d].scan # {s}

ScanInv ==
    /\ ScanTypes /\ Scans!CorrectionTrue
    /\ \A r \in Requests : AskSound(asks[r]) /\ RowSound(r)
    /\ \A u \in Users, i \in Images : CallsSound(u, i)
    /\ \A c \in Confirmations : ConfirmSound(c, confirm[c])

LEMMA ScanHolds == ASSUME ScanInv PROVE Scans!ScansInv
<1>1. Scans!ScansTypeOK
  <2>1. ASSUME NEW r \in Requests, Scans!There(r)
        PROVE  scan[r].user \cap erased = {} /\ scan[r].found \cup scan[r].confirmed \subseteq standing
      BY <2>1 DEF ScanInv, RowSound
  <2>2. \A r \in Requests, s \in Requests : s \in asks[r].answer /\ Scans!There(s) => scan[s].user = asks[r].user
      BY DEF ScanInv, AskSound
  <2>3. \A c \in Confirmations : confirm[c].stage \in {"new", "loaded", "done"}
      BY DEF ScanInv, ConfirmSound
  <2> QED BY <2>1, <2>2, <2>3 DEF Scans!ScansTypeOK
<1>2. Scans!OneCallEnough
  <2> SUFFICES ASSUME NEW u \in Users, NEW i \in Images, calls[u][i] > 1 PROVE <<u, i>> \in repeated \/ u \in erased
      BY DEF Scans!OneCallEnough
  <2>1. calls[u][i] \in Nat /\ CallsSound(u, i)
      BY DEF ScanInv, ScanTypes
  <2> QED BY <2>1 DEF CallsSound
<1> QED BY <1>1, <1>2 DEF ScanInv, Scans!ScansInv

\* What a step may do to the requests for a photo.
LEMMA CallsMove ==
    ASSUME NEW u, NEW i, CallsSound(u, i), UNCHANGED scan, repeated \subseteq repeated', erased \subseteq erased',
           calls'[u][i] = calls[u][i],
           \A p \in Requests : asks'[p].user = {u} /\ asks'[p].image = {i} /\ asks'[p].stage \in Running
              => asks[p].user = {u} /\ asks[p].image = {i} /\ asks[p].stage \in Running,
           \A p \in Requests : asks[p].user = {u} /\ asks[p].image = {i} /\ asks[p].stage \in {"called", "mapped"}
              => asks'[p].user = {u} /\ asks'[p].image = {i} /\ asks'[p].stage \in {"called", "mapped"}
    PROVE  CallsSound(u, i)'
<1>1. CASE <<u, i>> \in repeated \/ u \in erased
    BY <1>1 DEF CallsSound
<1>2. CASE ~(<<u, i>> \in repeated \/ u \in erased)
    BY <1>2 DEF CallsSound
<1> QED BY <1>1, <1>2

LEMMA ScanInit == ASSUME Scans!Init PROVE ScanInv
<1>1. ScanTypes
    BY DEF Scans!Init, ScanTypes, IsScan, IsRequest, Scans!Missing, Scans!NoRequest
<1>2. \A r \in Requests : asks[r] = Scans!NoRequest /\ ~Scans!There(r)
    BY DEF Scans!Init, Scans!There
<1>3. Scans!CorrectionTrue
    BY <1>2 DEF Scans!CorrectionTrue
<1>4. \A r \in Requests : AskSound(asks[r]) /\ RowSound(r)
    BY <1>2 DEF AskSound, RowSound, Scans!NoRequest, Running
<1>5. \A u \in Users, i \in Images : CallsSound(u, i)
    BY <1>2 DEF Scans!Init, CallsSound, Scans!NoRequest, Running
<1>6. \A c \in Confirmations : ConfirmSound(c, confirm[c])
    BY DEF Scans!Init, ConfirmSound, Scans!NoConfirmation
<1> QED BY <1>1, <1>3, <1>4, <1>5, <1>6 DEF ScanInv

-----------------------------------------------------------------------------
(* Steps of requests. *)

\* A request that is not over changes, and no scan with it.
LEMMA OneAsk ==
    ASSUME ScanInv, UNCHANGED <<standing, erased, scan, confirm, blurred>>,
           NEW r \in Requests, asks[r].stage # "done", NEW q, IsRequest(q), asks' = [asks EXCEPT ![r] = q],
           q.stage \in {"new", "done"} \cup Running,
           q.stage \in Running => \E u \in Users, i \in Images : q.user = {u} /\ q.image = {i},
           q.answer # {} => q.stage = "done" /\ \E s \in Requests : q.answer = {s} /\ asks[s].stage = "done" /\ scan[s].user = q.user,
           calls' \in [Users -> [Images -> Nat]], \A u \in Users, i \in Images : CallsSound(u, i)'
    PROVE  ScanInv'
<1>1. asks'[r] = q /\ \A p \in Requests \ {r} : asks'[p] = asks[p]
    BY DEF ScanInv, ScanTypes
<1>2. \A s : Scans!There(s)' <=> Scans!There(s)
    BY DEF Scans!There
<1>3. ScanTypes'
    BY <1>1 DEF ScanInv, ScanTypes, IsScan, IsRequest
<1>4. Scans!CorrectionTrue'
    BY <1>2 DEF ScanInv, Scans!CorrectionTrue
<1>5. \A s \in Requests : asks[s].stage = "done" => asks'[s].stage = "done"
    BY <1>1
<1>6. ASSUME NEW p \in Requests PROVE AskSound(asks[p])'
  <2>1. CASE p = r
      BY <1>1, <1>2, <1>5, <2>1 DEF AskSound, Running
  <2>2. CASE p # r
    <3>1. AskSound(asks[p]) /\ asks'[p] = asks[p]
        BY <1>1, <2>2 DEF ScanInv
    <3> QED BY <1>2, <1>5, <3>1 DEF AskSound, Running
  <2> QED BY <2>1, <2>2
<1>7. \A p \in Requests : RowSound(p)'
    BY <1>2, <1>5 DEF ScanInv, RowSound
<1>8. ASSUME NEW c \in Confirmations PROVE ConfirmSound(c, confirm[c])'
  <2>1. ConfirmSound(c, confirm[c])
      BY DEF ScanInv
  <2> QED BY <1>2, <1>5, <2>1 DEF ConfirmSound
<1> QED BY <1>3, <1>4, <1>6, <1>7, <1>8 DEF ScanInv

LEMMA AskStep ==
    ASSUME ScanInv, NEW r \in Requests, NEW v \in Users, NEW j \in Images, Scans!Ask(r, v, j)
    PROVE  ScanInv'
<1>0. PICK q : q = [Scans!NoRequest EXCEPT !.stage = "asked", !.user = {v}, !.image = {j}]
    OBVIOUS
<1>1. IsRequest(q) /\ q.stage = "asked" /\ q.user = {v} /\ q.image = {j} /\ q.answer = {}
    BY <1>0 DEF IsRequest, Scans!NoRequest
<1>2. asks' = [asks EXCEPT ![r] = q] /\ asks[r].stage = "new" /\ UNCHANGED <<standing, erased, scan, confirm, blurred, calls>>
    BY <1>0 DEF Scans!Ask, Scans!Step
<1>3. asks'[r] = q /\ \A p \in Requests \ {r} : asks'[p] = asks[p]
    BY <1>2 DEF ScanInv, ScanTypes
<1>4. repeated \subseteq repeated'
    BY DEF Scans!Ask
<1>5. ASSUME NEW p \in Requests, asks[p].stage \in Running, asks[p].user = {v}, asks[p].image = {j}
      PROVE  <<v, j>> \in repeated'
    BY <1>5 DEF Scans!Ask, Scans!InProgress, Scans!Same, Running
<1>6. ASSUME NEW u \in Users, NEW i \in Images PROVE CallsSound(u, i)'
  <2>0. CallsSound(u, i)
      BY DEF ScanInv
  <2>1. CASE u = v /\ i = j /\ <<v, j>> \notin repeated'
    <3>1. \A p \in Requests : asks[p].stage \in Running => asks[p].user # {u} \/ asks[p].image # {i}
        BY <1>5, <2>1
    <3> QED BY <1>1, <1>2, <1>3, <1>4, <2>0, <2>1, <3>1 DEF CallsSound, Running
  <2>2. CASE u # v \/ i # j
      BY <1>1, <1>2, <1>3, <1>4, <2>0, <2>2 DEF CallsSound, Running
  <2>3. CASE u = v /\ i = j /\ <<v, j>> \in repeated'
      BY <2>3 DEF CallsSound
  <2> QED BY <2>1, <2>2, <2>3
<1>7. calls' \in [Users -> [Images -> Nat]]
    BY <1>2 DEF ScanInv, ScanTypes
<1> QED BY <1>1, <1>2, <1>6, <1>7, OneAsk DEF Running

LEMMA FindStep == ASSUME ScanInv, NEW r \in Requests, Scans!Find(r) PROVE ScanInv'
<1>1. asks[r].stage = "asked" /\ IsRequest(asks[r]) /\ AskSound(asks[r]) /\ asks[r].answer = {}
    BY DEF Scans!Find, ScanInv, ScanTypes, AskSound, Running
<1>2. PICK v \in Users, j \in Images : asks[r].user = {v} /\ asks[r].image = {j}
    BY <1>1 DEF AskSound, Running
<1>3. UNCHANGED <<standing, erased, scan, confirm, repeated, blurred>>
    BY DEF Scans!Find
<1>4. ASSUME NEW s \in Scans!Cached(v, j), Scans!Step(r, Scans!Answered(r, s)), UNCHANGED calls PROVE ScanInv'
  <2>1. PICK q : q = Scans!Answered(r, s)
      OBVIOUS
  <2>2. IsRequest(q) /\ q.stage = "done" /\ q.user = asks[r].user /\ q.answer = {s}
      BY <2>1 DEF Scans!Answered, Scans!NoRequest, IsRequest
  <2>3. s \in Requests /\ scan[s].user = asks[r].user /\ Scans!There(s)
      BY <1>2 DEF Scans!Cached, Scans!There, Scans!Missing
  <2>4. asks[s].stage = "done"
      BY <2>3 DEF ScanInv, RowSound
  <2>5. asks' = [asks EXCEPT ![r] = q]
      BY <1>4, <2>1 DEF Scans!Step
  <2>6. asks'[r] = q /\ \A p \in Requests \ {r} : asks'[p] = asks[p]
      BY <2>5 DEF ScanInv, ScanTypes
  <2>7. ASSUME NEW u \in Users, NEW i \in Images PROVE CallsSound(u, i)'
    <3>1. CallsSound(u, i)
        BY DEF ScanInv
    <3> QED BY <1>1, <1>3, <1>4, <2>2, <2>6, <3>1, CallsMove DEF Running
  <2>8. calls' \in [Users -> [Images -> Nat]]
      BY <1>4 DEF ScanInv, ScanTypes
  <2> QED BY <1>1, <1>3, <2>2, <2>3, <2>4, <2>5, <2>7, <2>8, OneAsk DEF Running
<1>5. ASSUME Scans!Cached(v, j) = {}, calls' = [calls EXCEPT ![v][j] = @ + 1],
             Scans!Step(r, [asks[r] EXCEPT !.stage = "called"])
      PROVE  ScanInv'
  <2>1. PICK q : q = [asks[r] EXCEPT !.stage = "called"]
      OBVIOUS
  <2>2. IsRequest(q) /\ q.stage = "called" /\ q.user = {v} /\ q.image = {j} /\ q.answer = {}
      BY <1>1, <1>2, <2>1 DEF IsRequest
  <2>3. asks' = [asks EXCEPT ![r] = q]
      BY <1>5, <2>1 DEF Scans!Step
  <2>4. asks'[r] = q /\ \A p \in Requests \ {r} : asks'[p] = asks[p]
      BY <2>3 DEF ScanInv, ScanTypes
  <2>5. /\ calls' \in [Users -> [Images -> Nat]] /\ calls'[v][j] = calls[v][j] + 1
        /\ \A u \in Users, i \in Images : u # v \/ i # j => calls'[u][i] = calls[u][i]
      BY <1>5 DEF ScanInv, ScanTypes
  <2>6. \A p \in Requests : scan[p].user # {v} \/ scan[p].image # {j}
      BY <1>5 DEF Scans!Cached
  <2>7. ASSUME NEW u \in Users, NEW i \in Images PROVE CallsSound(u, i)'
    <3>1. CallsSound(u, i) /\ calls[u][i] \in Nat
        BY DEF ScanInv, ScanTypes
    <3>2. CASE u = v /\ i = j /\ <<u, i>> \notin repeated /\ u \notin erased
      <4>1. \A p, o \in Requests : /\ asks[p].stage \in Running /\ asks[p].user = {u} /\ asks[p].image = {i}
                                   /\ asks[o].stage \in Running /\ asks[o].user = {u} /\ asks[o].image = {i}
                                   => p = o
          BY <3>1, <3>2 DEF CallsSound
      <4>2. \A p \in Requests : asks[p].stage \in {"called", "mapped"} => asks[p].user # {u} \/ asks[p].image # {i}
          BY <1>1, <1>2, <3>2, <4>1 DEF Running
      <4>3. calls[u][i] = 0
          BY <2>6, <3>1, <3>2, <4>2 DEF CallsSound
      <4>4. calls'[u][i] = 1
          BY <2>5, <3>2, <4>3
      <4>5. \A p \in Requests : asks'[p].stage \in Running <=> asks[p].stage \in Running
          BY <1>1, <2>2, <2>4 DEF Running
      <4>6. \A p \in Requests : asks'[p].user = asks[p].user /\ asks'[p].image = asks[p].image
          BY <1>2, <2>2, <2>4
      <4> QED BY <2>2, <2>4, <3>2, <4>1, <4>4, <4>5, <4>6 DEF CallsSound
    <3>3. CASE u # v \/ i # j
      <4>1. \A p \in Requests \ {r} : asks'[p] = asks[p]
          BY <2>4
      <4>2. ~(asks[r].user = {u} /\ asks[r].image = {i}) /\ ~(asks'[r].user = {u} /\ asks'[r].image = {i})
          BY <1>2, <2>2, <2>4, <3>3
      <4>3. calls'[u][i] = calls[u][i]
          BY <2>5, <3>3
      <4>4. \A p \in Requests : asks'[p].user = {u} /\ asks'[p].image = {i} => p # r
          BY <4>2
      <4>5. \A p \in Requests : asks[p].user = {u} /\ asks[p].image = {i} => p # r
          BY <4>2
      <4>6. UNCHANGED scan /\ repeated \subseteq repeated' /\ erased \subseteq erased'
          BY <1>3
      <4>7. \A p \in Requests : asks'[p].user = {u} /\ asks'[p].image = {i} /\ asks'[p].stage \in Running
               => asks[p].user = {u} /\ asks[p].image = {i} /\ asks[p].stage \in Running
          BY <4>1, <4>4
      <4>8. \A p \in Requests : asks[p].user = {u} /\ asks[p].image = {i} /\ asks[p].stage \in {"called", "mapped"}
               => asks'[p].user = {u} /\ asks'[p].image = {i} /\ asks'[p].stage \in {"called", "mapped"}
          BY <4>1, <4>5
      <4> QED BY <3>1, <4>3, <4>6, <4>7, <4>8, CallsMove
    <3>4. CASE <<u, i>> \in repeated \/ u \in erased
        BY <1>3, <3>4 DEF CallsSound
    <3> QED BY <3>2, <3>3, <3>4
  <2> QED BY <1>1, <1>3, <2>2, <2>3, <2>5, <2>7, OneAsk DEF Running
<1>6. asks[r].user = {v} /\ asks[r].image = {j}
    BY <1>2
<1>7. \/ \E s \in Scans!Cached(v, j) : Scans!Step(r, Scans!Answered(r, s)) /\ UNCHANGED calls
      \/ /\ Scans!Cached(v, j) = {} /\ calls' = [calls EXCEPT ![v][j] = @ + 1]
         /\ Scans!Step(r, [asks[r] EXCEPT !.stage = "called"])
  <2>1. PICK u \in asks[r].user, i \in asks[r].image :
          \/ \E s \in Scans!Cached(u, i) : Scans!Step(r, Scans!Answered(r, s)) /\ UNCHANGED calls
          \/ /\ Scans!Cached(u, i) = {} /\ calls' = [calls EXCEPT ![u][i] = @ + 1]
             /\ Scans!Step(r, [asks[r] EXCEPT !.stage = "called"])
      BY DEF Scans!Find
  <2>2. u = v /\ i = j
      BY <1>6
  <2> QED BY <2>1, <2>2
<1> QED BY <1>4, <1>5, <1>7

\* The request fails, and its photo is not promised to be asked for once.
LEMMA FailsAsk ==
    ASSUME ScanInv, NEW r \in Requests, asks[r].stage \in {"called", "mapped"}, Scans!Fails(r),
           UNCHANGED <<standing, erased, scan, confirm, calls, blurred>>
    PROVE  ScanInv'
<1>0. PICK q : q = [Scans!NoRequest EXCEPT !.stage = "done"]
    OBVIOUS
<1>1. IsRequest(q) /\ q.stage = "done" /\ q.answer = {}
    BY <1>0 DEF IsRequest, Scans!NoRequest
<1>2. PICK v \in Users, j \in Images : asks[r].user = {v} /\ asks[r].image = {j}
    BY DEF ScanInv, AskSound, Running
<1>3. asks' = [asks EXCEPT ![r] = q] /\ repeated' = repeated \cup {<<v, j>>}
    BY <1>0, <1>2 DEF Scans!Fails, Scans!Over, Scans!Step
<1>4. asks'[r] = q /\ \A p \in Requests \ {r} : asks'[p] = asks[p]
    BY <1>3 DEF ScanInv, ScanTypes
<1>5. ASSUME NEW u \in Users, NEW i \in Images PROVE CallsSound(u, i)'
  <2>0. CallsSound(u, i)
      BY DEF ScanInv
  <2>1. CASE u = v /\ i = j
      BY <1>3, <2>1 DEF CallsSound
  <2>2. CASE u # v \/ i # j
      BY <1>1, <1>2, <1>3, <1>4, <2>0, <2>2 DEF CallsSound, Running
  <2> QED BY <2>1, <2>2
<1>6. calls' \in [Users -> [Images -> Nat]]
    BY DEF ScanInv, ScanTypes
<1> QED BY <1>1, <1>3, <1>5, <1>6, OneAsk DEF Running

LEMMA MapStep == ASSUME ScanInv, NEW r \in Requests, Scans!Map(r) PROVE ScanInv'
<1>1. asks[r].stage = "called" /\ UNCHANGED <<standing, erased, scan, confirm, calls, blurred>>
    BY DEF Scans!Map
<1>2. CASE Scans!Fails(r)
    BY <1>1, <1>2, FailsAsk
<1>3. ASSUME NEW found, NEW alternatives, UNCHANGED repeated,
             Scans!Step(r, [asks[r] EXCEPT !.stage = "mapped", !.found = found, !.others = alternatives])
      PROVE  ScanInv'
  <2>0. PICK q : q = [asks[r] EXCEPT !.stage = "mapped", !.found = found, !.others = alternatives]
      OBVIOUS
  <2>1. IsRequest(asks[r]) /\ AskSound(asks[r]) /\ asks[r].answer = {}
      BY <1>1 DEF ScanInv, ScanTypes, AskSound, Running
  <2>2. IsRequest(q) /\ q.stage = "mapped" /\ q.user = asks[r].user /\ q.image = asks[r].image /\ q.answer = {}
      BY <2>0, <2>1 DEF IsRequest
  <2>3. asks' = [asks EXCEPT ![r] = q]
      BY <1>3, <2>0 DEF Scans!Step
  <2>4. asks'[r] = q /\ \A p \in Requests \ {r} : asks'[p] = asks[p]
      BY <2>3 DEF ScanInv, ScanTypes
  <2>5. \A u \in Users, i \in Images : CallsSound(u, i)'
    <3> SUFFICES ASSUME NEW u \in Users, NEW i \in Images PROVE CallsSound(u, i)'
        OBVIOUS
    <3>1. CallsSound(u, i)
        BY DEF ScanInv
    <3>2. \A p \in Requests : /\ asks'[p].user = asks[p].user /\ asks'[p].image = asks[p].image
                              /\ asks'[p].stage \in Running <=> asks[p].stage \in Running
                              /\ asks'[p].stage \in {"called", "mapped"} <=> asks[p].stage \in {"called", "mapped"}
        BY <1>1, <2>2, <2>4 DEF Running
    <3> QED BY <1>1, <1>3, <3>1, <3>2 DEF CallsSound
  <2>6. calls' \in [Users -> [Images -> Nat]]
      BY <1>1 DEF ScanInv, ScanTypes
  <2>7. \E u \in Users, i \in Images : q.user = {u} /\ q.image = {i}
      BY <1>1, <2>1, <2>2 DEF AskSound, Running
  <2> QED BY <1>1, <2>2, <2>3, <2>5, <2>6, <2>7, OneAsk DEF Running
<1>4. PICK labels \in Answers :
         IF Scans!Mapped(labels).failed THEN Scans!Fails(r)
         ELSE /\ Scans!Step(r, [asks[r] EXCEPT !.stage = "mapped", !.found = Scans!Mapped(labels).found,
                                               !.others = Scans!Mapped(labels).others])
              /\ UNCHANGED repeated
    BY DEF Scans!Map
<1> QED BY <1>2, <1>3, <1>4

LEMMA RecordStep == ASSUME ScanInv, NEW r \in Requests, Scans!Record(r) PROVE ScanInv'
<1>1. asks[r].stage = "mapped" /\ UNCHANGED <<standing, erased, confirm, calls, blurred>>
    BY DEF Scans!Record
<1>2. CASE Scans!Fails(r) /\ UNCHANGED scan
    BY <1>1, <1>2, FailsAsk
<1>3. CASE asks[r].found \subseteq standing /\ asks[r].user \cap erased = {}
  <2>0. PICK q, row : /\ q = Scans!Answered(r, r)
                      /\ row = [Scans!Missing EXCEPT !.user = asks[r].user, !.image = asks[r].image,
                                                     !.found = asks[r].found, !.others = asks[r].others]
      OBVIOUS
  <2>1. PICK v \in Users, j \in Images : asks[r].user = {v} /\ asks[r].image = {j}
      BY <1>1 DEF ScanInv, AskSound, Running
  <2>2. IsRequest(q) /\ q.stage = "done" /\ q.user = {v} /\ q.answer = {r}
      BY <2>0, <2>1 DEF Scans!Answered, Scans!NoRequest, IsRequest
  <2>3. IsScan(row) /\ row.user = {v} /\ row.image = {j} /\ row.found = asks[r].found /\ row.confirmed = {}
      BY <2>0, <2>1 DEF IsScan, Scans!Missing
  <2>4. asks' = [asks EXCEPT ![r] = q] /\ scan' = [scan EXCEPT ![r] = row] /\ UNCHANGED repeated
      BY <1>3, <2>0 DEF Scans!Record, Scans!Step
  <2>5. /\ asks'[r] = q /\ \A p \in Requests \ {r} : asks'[p] = asks[p]
        /\ scan'[r] = row /\ \A p \in Requests \ {r} : scan'[p] = scan[p]
      BY <2>4 DEF ScanInv, ScanTypes
  <2>6. \A p \in Requests \ {r} : Scans!There(p)' <=> Scans!There(p)
      BY <2>5 DEF Scans!There
  <2>7. ScanTypes'
      BY <1>1, <2>2, <2>3, <2>4, <2>5 DEF ScanInv, ScanTypes, IsScan, IsRequest
  <2>8. Scans!CorrectionTrue'
      BY <1>1, <2>3, <2>5, <2>6 DEF ScanInv, Scans!CorrectionTrue
  <2>9. \A p \in Requests : asks[p].stage = "done" => asks'[p].stage = "done" /\ p # r
      BY <1>1, <2>2, <2>5
  <2>10. ASSUME NEW p \in Requests PROVE AskSound(asks[p])'
    <3>1. CASE p = r
        BY <2>2, <2>3, <2>5, <3>1 DEF AskSound, Running
    <3>2. CASE p # r
      <4>1. AskSound(asks[p]) /\ asks'[p] = asks[p]
          BY <2>5, <3>2 DEF ScanInv
      <4> QED BY <2>5, <2>6, <2>9, <4>1 DEF AskSound, Running
    <3> QED BY <3>1, <3>2
  <2>11. ASSUME NEW p \in Requests PROVE RowSound(p)'
    <3>1. CASE p = r
        BY <1>1, <1>3, <2>1, <2>2, <2>3, <2>5, <3>1 DEF RowSound
    <3>2. CASE p # r
        BY <1>1, <2>5, <2>6, <2>9, <3>2 DEF ScanInv, RowSound
    <3> QED BY <3>1, <3>2
  <2>12. ASSUME NEW u \in Users, NEW i \in Images PROVE CallsSound(u, i)'
    <3>0. CallsSound(u, i)
        BY DEF ScanInv
    <3>1. ASSUME NEW p \in Requests, scan[p].user = {u} /\ scan[p].image = {i} PROVE scan'[p].user = {u} /\ scan'[p].image = {i}
      <4>1. Scans!There(p)
        <5>1. u \in scan[p].user
            BY <3>1
        <5> QED BY <5>1 DEF Scans!There, Scans!Missing
      <4>2. p # r
          BY <2>9, <4>1 DEF ScanInv, RowSound
      <4> QED BY <2>5, <3>1, <4>2
    <3>2. ASSUME NEW p \in Requests, asks'[p].stage \in Running PROVE asks'[p] = asks[p]
        BY <2>2, <2>5, <3>2 DEF Running
    <3>3. ASSUME NEW p \in Requests, asks[p].stage \in {"called", "mapped"}, asks[p].user = {u}, asks[p].image = {i}
          PROVE  \/ scan'[p].user = {u} /\ scan'[p].image = {i}
                 \/ asks'[p].stage \in {"called", "mapped"} /\ asks'[p].user = {u} /\ asks'[p].image = {i}
        BY <2>1, <2>3, <2>5, <3>3
    <3> QED BY <1>1, <2>4, <3>0, <3>1, <3>2, <3>3 DEF CallsSound
  <2>13. ASSUME NEW c \in Confirmations PROVE ConfirmSound(c, confirm[c])'
      BY <1>1, <2>5, <2>6, <2>9 DEF ScanInv, ConfirmSound
  <2> QED BY <2>7, <2>8, <2>10, <2>11, <2>12, <2>13 DEF ScanInv
<1> QED BY <1>2, <1>3 DEF Scans!Record

LEMMA BreakStep == ASSUME ScanInv, NEW r \in Requests, Scans!Break(r) PROVE ScanInv'
BY FailsAsk DEF Scans!Break

-----------------------------------------------------------------------------
(* Confirmations. *)

LEMMA LoadScanStep ==
    ASSUME ScanInv, NEW c \in Confirmations, NEW v \in Users, NEW s \in Requests, NEW x \in Kinds, Scans!Load(c, v, s, x)
    PROVE  ScanInv'
<1>0. PICK k : k = [stage |-> "loaded", scan |-> {s}, species |-> {x}, loaded |-> scan[s]]
    OBVIOUS
<1>1. k.stage = "loaded" /\ k.scan = {s} /\ k.species = {x} /\ k.loaded = scan[s]
    BY <1>0
<1>2. /\ UNCHANGED <<standing, erased, scan, asks, calls, repeated>> /\ confirm' = [confirm EXCEPT ![c] = k]
      /\ blurred' = blurred \cup {t \in {s} : \E d \in Confirmations : confirm[d].stage = "loaded" /\ confirm[d].scan = {s}}
      /\ confirm[c].stage = "new" /\ scan[s].user = {v}
    BY <1>0 DEF Scans!Load
<1>3. confirm'[c] = k /\ \A d \in Confirmations \ {c} : confirm'[d] = confirm[d]
    BY <1>2 DEF ScanInv, ScanTypes
<1>4. asks[s].stage = "done"
  <2>1. v \in scan[s].user
      BY <1>2
  <2>2. Scans!There(s)
      BY <2>1 DEF Scans!There, Scans!Missing
  <2> QED BY <2>2 DEF ScanInv, RowSound
<1>5. ScanTypes'
    BY <1>2 DEF ScanInv, ScanTypes, IsScan, IsRequest
<1>6. \A p : Scans!There(p)' <=> Scans!There(p)
    BY <1>2 DEF Scans!There
<1>7. Scans!CorrectionTrue'
    BY <1>2, <1>6 DEF ScanInv, Scans!CorrectionTrue
<1>8. \A r \in Requests : AskSound(asks[r])' /\ RowSound(r)'
    BY <1>2, <1>6 DEF ScanInv, AskSound, RowSound
<1>9. ASSUME NEW u \in Users, NEW i \in Images PROVE CallsSound(u, i)'
    BY <1>2, CallsMove DEF ScanInv
<1>10. ASSUME NEW d \in Confirmations PROVE ConfirmSound(d, confirm[d])'
  <2>1. CASE d = c
    <3>1. \A e \in Confirmations \ {c} : confirm'[e].stage = "loaded" /\ confirm'[e].scan = {s} => s \in blurred'
        BY <1>2, <1>3
    <3> QED BY <1>1, <1>2, <1>3, <1>4, <2>1, <3>1 DEF ConfirmSound
  <2>2. CASE d # c
    <3>1. confirm'[d] = confirm[d] /\ ConfirmSound(d, confirm[d])
        BY <1>3, <2>2 DEF ScanInv
    <3>2. ASSUME confirm[d].stage = "loaded", NEW p \in Requests, confirm[d].scan = {p}, p \notin blurred'
          PROVE  p \notin blurred /\ p # s
        BY <1>2, <3>2
    <3>3. ASSUME NEW p \in Requests, p # s PROVE k.scan # {p}
        BY <1>1, <3>3
    <3>4. CASE confirm[d].stage = "loaded"
      <4>1. PICK p \in Requests, y \in Kinds :
              /\ confirm[d].scan = {p} /\ confirm[d].species = {y} /\ asks[p].stage = "done"
              /\ p \notin blurred => /\ Scans!There(p) => confirm[d].loaded = scan[p]
                                     /\ \A e \in Confirmations \ {d} : confirm[e].stage = "loaded" => confirm[e].scan # {p}
          BY <3>1, <3>4 DEF ConfirmSound
      <4>2. p \notin blurred' => p \notin blurred /\ p # s
          BY <3>2, <3>4, <4>1
      <4>3. p \notin blurred' => /\ Scans!There(p)' => confirm[d].loaded = scan'[p]
                                 /\ \A e \in Confirmations \ {d} : confirm'[e].stage = "loaded" => confirm'[e].scan # {p}
          BY <1>2, <1>3, <1>6, <3>3, <4>1, <4>2
      <4>4. asks'[p].stage = "done" /\ confirm[d].stage \in {"new", "loaded", "done"}
          BY <1>2, <3>4, <4>1
      <4> QED BY <3>1, <4>1, <4>3, <4>4 DEF ConfirmSound
    <3>5. CASE confirm[d].stage # "loaded"
        BY <3>1, <3>5 DEF ConfirmSound
    <3> QED BY <3>4, <3>5
  <2> QED BY <2>1, <2>2
<1> QED BY <1>5, <1>7, <1>8, <1>9, <1>10 DEF ScanInv

\* Rows change, but not whose they are, for which photo, nor whether they are there.
LEMMA RowsRewritten ==
    ASSUME ScanInv, UNCHANGED <<erased, asks, calls, repeated>>, blurred \subseteq blurred',
           scan' = [r \in Requests |-> scan'[r]], \A r \in Requests : IsScan(scan'[r]),
           \A r \in Requests : scan'[r].user = scan[r].user /\ scan'[r].image = scan[r].image
                               /\ (Scans!There(r)' <=> Scans!There(r)),
           \A r \in Requests : Scans!There(r) => scan'[r].found \cup scan'[r].confirmed \subseteq standing',
           confirm' = [c \in Confirmations |-> confirm'[c]], \A c \in Confirmations : ConfirmSound(c, confirm[c])',
           Scans!CorrectionTrue'
    PROVE  ScanInv'
<1>1. ScanTypes'
    BY DEF ScanInv, ScanTypes, IsScan, IsRequest
<1>2. \A r \in Requests : AskSound(asks[r])' /\ RowSound(r)'
    BY DEF ScanInv, AskSound, RowSound
<1>3. ASSUME NEW u \in Users, NEW i \in Images PROVE CallsSound(u, i)'
  <2>1. CallsSound(u, i)
      BY DEF ScanInv
  <2> QED BY <2>1 DEF CallsSound
<1> QED BY <1>1, <1>2, <1>3 DEF ScanInv

LEMMA ConfirmStep == ASSUME ScanInv, NEW c \in Confirmations, Scans!Confirm(c) PROVE ScanInv'
<1>1. PICK k : k = confirm[c]
    OBVIOUS
<1>2. k.stage = "loaded" /\ UNCHANGED <<standing, erased, asks, calls, repeated, blurred>>
    BY <1>1 DEF Scans!Confirm
<1>3. PICK s \in Requests, x \in Kinds :
         /\ k.scan = {s} /\ k.species = {x} /\ asks[s].stage = "done"
         /\ s \notin blurred => /\ Scans!There(s) => k.loaded = scan[s]
                                /\ \A d \in Confirmations \ {c} : confirm[d].stage = "loaded" => confirm[d].scan # {s}
  <2>1. ConfirmSound(c, k)
      BY <1>1 DEF ScanInv
  <2> QED BY <1>2, <2>1 DEF ConfirmSound
<1>4. PICK q : q = [Scans!NoConfirmation EXCEPT !.stage = "done"]
    OBVIOUS
<1>5. q.stage = "done"
    BY <1>4 DEF Scans!NoConfirmation
<1>6. confirm' = [confirm EXCEPT ![c] = q]
    BY <1>4 DEF Scans!Confirm
<1>7. confirm'[c] = q /\ \A d \in Confirmations \ {c} : confirm'[d] = confirm[d]
    BY <1>6 DEF ScanInv, ScanTypes
<1>8. PICK one, two :
         /\ one = Scans!Column(k.loaded.confirmed, {x}, scan[s].confirmed)
         /\ two = Scans!Column(k.loaded.corrected, Scans!Corrected(k.loaded, {x}), scan[s].corrected)
    OBVIOUS
<1>9. scan' = IF Scans!There(s) /\ {x} \subseteq standing
              THEN [scan EXCEPT ![s].confirmed = one, ![s].corrected = two] ELSE scan
  <2>1. PICK p \in k.scan :
           scan' = IF Scans!There(p) /\ k.species \subseteq standing
                   THEN [scan EXCEPT ![p].confirmed = Scans!Column(k.loaded.confirmed, k.species, @),
                                     ![p].corrected = Scans!Column(k.loaded.corrected, Scans!Corrected(k.loaded, k.species), @)]
                   ELSE scan
      BY <1>1 DEF Scans!Confirm
  <2>2. p = s
      BY <1>3
  <2>3. scan[s] = [scan[s] EXCEPT !.confirmed = scan[s].confirmed] /\ IsScan(scan[s]) /\ scan = [r \in Requests |-> scan[r]]
      BY DEF ScanInv, ScanTypes, IsScan
  <2> QED BY <1>3, <1>8, <2>1, <2>2, <2>3 DEF IsScan
<1>10. CASE Scans!There(s) /\ {x} \subseteq standing
  <2>1. PICK row : row = [scan[s] EXCEPT !.confirmed = one, !.corrected = two]
      OBVIOUS
  <2>2. IsScan(scan[s]) /\ scan = [r \in Requests |-> scan[r]]
      BY DEF ScanInv, ScanTypes
  <2>3. /\ IsScan(row) /\ row.user = scan[s].user /\ row.image = scan[s].image /\ row.found = scan[s].found
        /\ row.confirmed = one /\ row.corrected = two
      BY <2>1, <2>2 DEF IsScan
  <2>4. scan' = [scan EXCEPT ![s] = row]
      BY <1>9, <1>10, <2>1, <2>2
  <2>5. scan'[s] = row /\ \A p \in Requests \ {s} : scan'[p] = scan[p]
      BY <2>2, <2>4
  <2>6. \E u \in Users : row.user = {u}
      BY <1>10, <2>3 DEF ScanInv, RowSound
  <2>7. row # Scans!Missing
      BY <2>6 DEF Scans!Missing
  <2>8. \A p \in Requests : Scans!There(p)' <=> Scans!There(p)
      BY <1>10, <2>5, <2>7 DEF Scans!There
  <2>9. one = {x} \/ one = scan[s].confirmed
      BY <1>8 DEF Scans!Column
  <2>10. scan[s].found \cup scan[s].confirmed \subseteq standing
      BY <1>10 DEF ScanInv, RowSound
  <2>11. s \notin blurred => one = {x} /\ (two <=> row.found # {x})
      BY <1>3, <1>8, <1>10, <2>3 DEF Scans!Column, Scans!Corrected
  <2>12. Scans!CorrectionTrue'
    <3> SUFFICES ASSUME NEW r \in Requests, Scans!There(r)', scan'[r].confirmed # {}, r \notin blurred'
                 PROVE  scan'[r].corrected <=> scan'[r].found # scan'[r].confirmed
        BY DEF Scans!CorrectionTrue
    <3>1. CASE r = s
        BY <1>2, <2>3, <2>5, <2>11, <3>1
    <3>2. CASE r # s
        BY <1>2, <2>5, <2>8, <3>2 DEF ScanInv, Scans!CorrectionTrue
    <3> QED BY <3>1, <3>2
  <2>13. ASSUME NEW d \in Confirmations PROVE ConfirmSound(d, confirm[d])'
    <3>1. CASE d = c
        BY <1>5, <1>7, <3>1 DEF ConfirmSound
    <3>2. CASE d # c /\ confirm[d].stage = "loaded"
      <4>1. confirm'[d] = confirm[d] /\ ConfirmSound(d, confirm[d])
          BY <1>7, <3>2 DEF ScanInv
      <4>2. PICK p \in Requests, y \in Kinds :
              /\ confirm[d].scan = {p} /\ confirm[d].species = {y} /\ asks[p].stage = "done"
              /\ p \notin blurred => /\ Scans!There(p) => confirm[d].loaded = scan[p]
                                     /\ \A e \in Confirmations \ {d} : confirm[e].stage = "loaded" => confirm[e].scan # {p}
          BY <3>2, <4>1 DEF ConfirmSound
      <4>3. p \notin blurred => p # s
          BY <1>1, <1>2, <1>3, <3>2, <4>2
      <4>4. p \notin blurred => /\ Scans!There(p)' => confirm[d].loaded = scan'[p]
                                /\ \A e \in Confirmations \ {d} : confirm'[e].stage = "loaded" => confirm'[e].scan # {p}
          BY <1>5, <1>7, <2>5, <2>8, <4>2, <4>3
      <4> QED BY <1>2, <3>2, <4>1, <4>2, <4>4 DEF ConfirmSound
    <3>3. CASE d # c /\ confirm[d].stage # "loaded"
      <4>1. confirm'[d] = confirm[d] /\ ConfirmSound(d, confirm[d])
          BY <1>7, <3>3 DEF ScanInv
      <4> QED BY <3>3, <4>1 DEF ConfirmSound
    <3> QED BY <3>1, <3>2, <3>3
  <2>14. scan' = [r \in Requests |-> scan'[r]] /\ confirm' = [d \in Confirmations |-> confirm'[d]]
      BY <1>6, <2>2, <2>4 DEF ScanInv, ScanTypes
  <2>15. \A r \in Requests : IsScan(scan'[r]) /\ scan'[r].user = scan[r].user /\ scan'[r].image = scan[r].image
      BY <2>3, <2>5 DEF ScanInv, ScanTypes
  <2>16. \A r \in Requests : Scans!There(r) => scan'[r].found \cup scan'[r].confirmed \subseteq standing'
    <3>1. \A r \in Requests : Scans!There(r) => scan[r].found \cup scan[r].confirmed \subseteq standing
        BY DEF ScanInv, RowSound
    <3> QED BY <1>2, <1>10, <2>3, <2>5, <2>9, <3>1
  <2> QED BY <1>2, <2>8, <2>12, <2>13, <2>14, <2>15, <2>16, RowsRewritten
<1>11. CASE ~(Scans!There(s) /\ {x} \subseteq standing)
  <2>1. UNCHANGED scan
      BY <1>9, <1>11
  <2>2. \A p \in Requests : Scans!There(p)' <=> Scans!There(p)
      BY <2>1 DEF Scans!There
  <2>3. Scans!CorrectionTrue'
      BY <1>2, <2>1, <2>2 DEF ScanInv, Scans!CorrectionTrue
  <2>4. ASSUME NEW d \in Confirmations PROVE ConfirmSound(d, confirm[d])'
    <3>1. CASE d = c
        BY <1>5, <1>7, <3>1 DEF ConfirmSound
    <3>2. CASE d # c
      <4>1. confirm'[d] = confirm[d] /\ ConfirmSound(d, confirm[d])
          BY <1>7, <3>2 DEF ScanInv
      <4>2. \A e \in Confirmations : confirm'[e].stage = "loaded" => confirm'[e] = confirm[e]
          BY <1>5, <1>7
      <4> QED BY <1>2, <2>1, <2>2, <4>1, <4>2 DEF ConfirmSound
    <3> QED BY <3>1, <3>2
  <2>5. scan' = [r \in Requests |-> scan'[r]] /\ confirm' = [d \in Confirmations |-> confirm'[d]]
      BY <1>6, <2>1 DEF ScanInv, ScanTypes
  <2>6. \A r \in Requests : IsScan(scan'[r]) /\ scan'[r].user = scan[r].user /\ scan'[r].image = scan[r].image
      BY <2>1 DEF ScanInv, ScanTypes
  <2>7. \A r \in Requests : Scans!There(r) => scan'[r].found \cup scan'[r].confirmed \subseteq standing'
      BY <1>2, <2>1 DEF ScanInv, RowSound
  <2> QED BY <1>2, <2>2, <2>3, <2>4, <2>5, <2>6, <2>7, RowsRewritten
<1> QED BY <1>10, <1>11

-----------------------------------------------------------------------------
(* Species and users go. *)

LEMMA SpeciesGoes == ASSUME ScanInv, NEW x \in Kinds, Scans!DeleteSpecies(x) PROVE ScanInv'
<1>1. /\ UNCHANGED <<erased, asks, confirm, calls, repeated>> /\ standing' = standing \ {x}
      /\ scan' = [r \in Requests |-> [scan[r] EXCEPT !.found = @ \ {x}, !.confirmed = @ \ {x}]]
      /\ blurred' = blurred \cup {r \in Requests : x \in scan[r].found \cup scan[r].confirmed}
    BY DEF Scans!DeleteSpecies
<1>2. ASSUME NEW r \in Requests
      PROVE  /\ IsScan(scan'[r]) /\ scan'[r].user = scan[r].user /\ scan'[r].image = scan[r].image
             /\ scan'[r].found = scan[r].found \ {x} /\ scan'[r].confirmed = scan[r].confirmed \ {x}
             /\ scan'[r].others = scan[r].others /\ scan'[r].corrected = scan[r].corrected
  <2>1. IsScan(scan[r]) /\ scan'[r] = [scan[r] EXCEPT !.found = @ \ {x}, !.confirmed = @ \ {x}]
      BY <1>1 DEF ScanInv, ScanTypes
  <2> QED BY <2>1 DEF IsScan
<1>3. ASSUME NEW r \in Requests, r \notin blurred' \/ ~Scans!There(r) PROVE scan'[r] = scan[r]
  <2>1. x \notin scan[r].found /\ x \notin scan[r].confirmed
    <3>1. CASE r \notin blurred'
        BY <1>1, <3>1
    <3>2. CASE scan[r] = Scans!Missing
        BY <3>2 DEF Scans!Missing
    <3> QED BY <1>3, <3>1, <3>2 DEF Scans!There
  <2>2. scan'[r].found = scan[r].found /\ scan'[r].confirmed = scan[r].confirmed
      BY <1>2, <2>1
  <2>3. IsScan(scan[r]) /\ IsScan(scan'[r])
      BY <1>2 DEF ScanInv, ScanTypes
  <2> QED BY <1>2, <2>2, <2>3 DEF IsScan
<1>4. ASSUME NEW r \in Requests PROVE Scans!There(r)' <=> Scans!There(r)
  <2>1. CASE ~Scans!There(r)
      BY <1>3, <2>1 DEF Scans!There
  <2>2. CASE Scans!There(r)
    <3>1. PICK u \in Users : scan[r].user = {u}
        BY <2>2 DEF ScanInv, RowSound
    <3>2. u \in scan'[r].user
        BY <1>2, <3>1
    <3> QED BY <2>2, <3>2 DEF Scans!There, Scans!Missing
  <2> QED BY <2>1, <2>2
<1>5. Scans!CorrectionTrue'
  <2> SUFFICES ASSUME NEW r \in Requests, Scans!There(r)', scan'[r].confirmed # {}, r \notin blurred'
               PROVE  scan'[r].corrected <=> scan'[r].found # scan'[r].confirmed
      BY DEF Scans!CorrectionTrue
  <2>1. scan'[r] = scan[r] /\ Scans!There(r) /\ r \notin blurred
      BY <1>1, <1>3, <1>4
  <2> QED BY <2>1 DEF ScanInv, Scans!CorrectionTrue
<1>6. ASSUME NEW c \in Confirmations PROVE ConfirmSound(c, confirm[c])'
  <2>1. ConfirmSound(c, confirm[c]) /\ blurred \subseteq blurred'
      BY <1>1 DEF ScanInv
  <2> QED BY <1>1, <1>3, <1>4, <2>1 DEF ConfirmSound
<1>7. ASSUME NEW r \in Requests, Scans!There(r) PROVE scan'[r].found \cup scan'[r].confirmed \subseteq standing'
  <2>1. scan[r].found \cup scan[r].confirmed \subseteq standing
      BY <1>7 DEF ScanInv, RowSound
  <2>2. standing' = standing \ {x}
      BY <1>1
  <2>3. scan'[r].found = scan[r].found \ {x} /\ scan'[r].confirmed = scan[r].confirmed \ {x}
      BY <1>2
  <2> QED BY <2>1, <2>2, <2>3
<1>8. /\ scan' = [r \in Requests |-> scan'[r]] /\ confirm' = [c \in Confirmations |-> confirm'[c]]
      /\ blurred \subseteq blurred'
    BY <1>1 DEF ScanInv, ScanTypes
<1> QED BY <1>1, <1>2, <1>4, <1>5, <1>6, <1>7, <1>8, RowsRewritten

LEMMA EraseStep == ASSUME ScanInv, NEW v \in Users, Scans!Erase(v) PROVE ScanInv'
<1>1. /\ UNCHANGED <<standing, asks, confirm, calls, repeated, blurred>> /\ erased' = erased \cup {v}
      /\ scan' = [r \in Requests |-> IF scan[r].user = {v} THEN Scans!Missing ELSE scan[r]]
    BY DEF Scans!Erase
<1>2. ASSUME NEW r \in Requests
      PROVE  \/ scan'[r] = Scans!Missing /\ ~Scans!There(r)'
             \/ scan'[r] = scan[r] /\ scan[r].user # {v} /\ (Scans!There(r)' <=> Scans!There(r))
    BY <1>1 DEF Scans!There
<1>3. IsScan(Scans!Missing)
    BY DEF IsScan, Scans!Missing
<1>4. ScanTypes'
  <2>1. \A r \in Requests : IsScan(scan'[r])
      BY <1>2, <1>3 DEF ScanInv, ScanTypes
  <2> QED BY <1>1, <2>1 DEF ScanInv, ScanTypes, IsScan, IsRequest
<1>5. Scans!CorrectionTrue'
    BY <1>1, <1>2 DEF ScanInv, Scans!CorrectionTrue
<1>6. ASSUME NEW r \in Requests PROVE AskSound(asks[r])'
  <2>1. AskSound(asks[r])
      BY DEF ScanInv
  <2> QED BY <1>1, <1>2, <2>1 DEF AskSound
<1>7. ASSUME NEW r \in Requests PROVE RowSound(r)'
  <2>1. RowSound(r)
      BY DEF ScanInv
  <2> QED BY <1>1, <1>2, <2>1 DEF RowSound
<1>8. ASSUME NEW u \in Users, NEW i \in Images PROVE CallsSound(u, i)'
  <2>1. CallsSound(u, i)
      BY DEF ScanInv
  <2>2. CASE u = v
      BY <1>1, <2>2 DEF CallsSound
  <2>3. CASE u # v
    <3>1. \A r \in Requests : scan[r].user = {u} => scan'[r] = scan[r]
        BY <1>1, <2>3
    <3> QED BY <1>1, <2>1, <3>1 DEF CallsSound
  <2> QED BY <2>2, <2>3
<1>9. ASSUME NEW c \in Confirmations PROVE ConfirmSound(c, confirm[c])'
  <2>1. ConfirmSound(c, confirm[c])
      BY DEF ScanInv
  <2> QED BY <1>1, <1>2, <2>1 DEF ConfirmSound
<1> QED BY <1>4, <1>5, <1>6, <1>7, <1>8, <1>9 DEF ScanInv

LEMMA ScanStays == ASSUME ScanInv, UNCHANGED scansVars PROVE ScanInv'
<1>1. UNCHANGED <<standing, erased, scan, asks, confirm, calls, repeated, blurred>>
    BY DEF scansVars
<1>2. \A r : Scans!There(r)' <=> Scans!There(r)
    BY <1>1 DEF Scans!There
<1>3. ScanTypes' /\ Scans!CorrectionTrue'
    BY <1>1, <1>2 DEF ScanInv, ScanTypes, IsScan, IsRequest, Scans!CorrectionTrue
<1>4. \A r \in Requests : AskSound(asks[r])' /\ RowSound(r)'
    BY <1>1, <1>2 DEF ScanInv, AskSound, RowSound
<1>5. ASSUME NEW u \in Users, NEW i \in Images PROVE CallsSound(u, i)'
    BY <1>1, CallsMove DEF ScanInv
<1>6. ASSUME NEW c \in Confirmations PROVE ConfirmSound(c, confirm[c])'
  <2>1. ConfirmSound(c, confirm[c])
      BY DEF ScanInv
  <2> QED BY <1>1, <1>2, <2>1 DEF ConfirmSound
<1> QED BY <1>3, <1>4, <1>5, <1>6 DEF ScanInv

LEMMA ScanStep == ASSUME ScanInv, [Scans!Next]_scansVars PROVE ScanInv'
<1>1. ASSUME NEW r \in Requests, Scans!Find(r) \/ Scans!Map(r) \/ Scans!Record(r) \/ Scans!Break(r) PROVE ScanInv'
    BY <1>1, FindStep, MapStep, RecordStep, BreakStep
<1>2. ASSUME NEW r \in Requests, NEW u \in Users, NEW i \in Images, Scans!Ask(r, u, i) PROVE ScanInv'
    BY <1>2, AskStep
<1>3. ASSUME NEW c \in Confirmations, NEW u \in Users, NEW s \in Requests, NEW x \in Kinds, Scans!Load(c, u, s, x)
      PROVE  ScanInv'
    BY <1>3, LoadScanStep
<1>4. ASSUME NEW c \in Confirmations, Scans!Confirm(c) PROVE ScanInv'
    BY <1>4, ConfirmStep
<1>5. ASSUME NEW x \in Kinds, Scans!DeleteSpecies(x) PROVE ScanInv'
    BY <1>5, SpeciesGoes
<1>6. ASSUME NEW u \in Users, Scans!Erase(u) PROVE ScanInv'
    BY <1>6, EraseStep
<1>7. CASE UNCHANGED scansVars
    BY <1>7, ScanStays
<1> QED BY <1>1, <1>2, <1>3, <1>4, <1>5, <1>6, <1>7 DEF Scans!Next

\* For any number of requests, confirmations, users and species, and whatever
\* the provider answers: a scan belongs to who asked for it, its references
\* hold, a photo is sent to the provider once, and a confirmation is marked a
\* correction when it is one (scan_image, confirm_species).
THEOREM ScansAreSound == RecognitionSpec => []ScansInv
<1> DEFINE Held == component = "scans" => ScanInv
<1>1. RecognitionInit => Held
    BY ScanInit DEF RecognitionInit
<1>2. Held /\ [RecognitionNext]_recognitionVars => Held'
  <2> SUFFICES ASSUME Held, [RecognitionNext]_recognitionVars, component' = "scans" PROVE ScanInv'
      OBVIOUS
  <2>1. component = "scans" /\ [Scans!Next]_scansVars
      BY DEF RecognitionNext, recognitionVars
  <2> QED BY <2>1, ScanStep
<1>3. Held => ScansInv
    BY ScanHolds DEF ScansInv
<1> QED BY <1>1, <1>2, <1>3, PTL DEF RecognitionSpec
=============================================================================
