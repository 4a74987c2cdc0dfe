----------------------------- MODULE MCServices -----------------------------
(* Small instances of the components of Services.                          *)
EXTENDS Services, TLC

CONSTANTS d1, d2, s1, s2, t1, t2        \* Feeding
CONSTANTS c1, f1, l1, v1                \* SyncDelta
CONSTANTS m1, m2, m3, i1, i2, q1, q2    \* Family
CONSTANTS p1, p2                        \* Profile
CONSTANTS n1, n2, x1, x2, g1, b1, b2    \* Access
CONSTANTS e1, e2, e3, u1, u2, a1, w     \* Retention

One == 1
Two == 2
Four == 4

\* Feeding: one schedule stands and may be deleted, the other one is new and
\* wants the same time; d2 is online, d1 is offline.
BothDevices == {d1, d2}
BothSchedules == {s1, s2}
OneStanding == {s1}
BothTimes == {t1, t2}
SameTime == s1 :> t1 @@ s2 :> t1
SomeForms == d1 :> {"good", "bad", "badid"} @@ d2 :> {}
OnlyD1 == {d1}
OnlyD2 == {d2}

\* SyncDelta: rows of three kinds, on pages of one row.
OneClient == {c1}
SomeRows == {f1, l1, v1}
RowKinds == f1 :> "fish" @@ l1 :> "feeding_log" @@ v1 :> "schedule"
RowIds == f1 :> 1 @@ l1 :> 1 @@ v1 :> 1
SomeWrites == f1 :> 2 @@ l1 :> 1 @@ v1 :> 2
NeverSynced == -1

\* Family: two requests for the one free place or the two premium ones.
ThreePeople == {m1, m2, m3}
OneFeeder == {m1}
BothInvites == {i1, i2}
BothRequests == {q1, q2}

\* Profile: a streak and a badge against a reader of the cache; and two
\* devices with points of their own.
BothPhones == {p1, p2}
OneReader == {p2}
StreakAndBadge ==
    p1 :> {[kind |-> "streak", val |-> 1, op |-> "update"], [kind |-> "badge", val |-> 0, op |-> "create"]} @@ p2 :> {}
SomePoints == p1 :> {[kind |-> "progress", val |-> 2, op |-> "update"]}
           @@ p2 :> {[kind |-> "progress", val |-> 1, op |-> "update"]}

\* Access: each aquarium with an owner, who makes the second one; the other
\* one of the two joins and leaves the first. A batch asks for a fish twice.
BothPeople == {n1, n2}
BothTasks == {b1, b2}
TwoAquariums == {x1, x2}
OneFish == {g1}
OwnerOfEach == x1 :> n1 @@ x2 :> n2
FirstAquarium == {x1}
OneGuest == {n2}
WhoOfEach == b1 :> n1 @@ b2 :> n2
OneBatch == {<<g1, x1, n2, g1>>}

\* Retention: two old events and a younger one, an admin beside the daily
\* job, and room for both limits to pass.
ThreeEvents == {e1, e2, e3}
OneUser == {u1}
OneAdmin == {a1}
TheirUsers == e1 :> u1 @@ e2 :> u2 @@ e3 :> u2
TheirAges == e1 :> 0 @@ e2 :> 0 @@ e3 :> 1

\* What a component that does not run starts with makes no difference.
MCInit == ServicesInit /\ (component # "family" => ~premium)
MCSpec == MCInit /\ [][ServicesNext]_servicesVars

Symmetry == Permutations({m2, m3}) \cup Permutations({q1, q2})
=============================================================================
