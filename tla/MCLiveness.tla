------------------------------ MODULE MCLiveness ------------------------------
(* What must happen in the end in Webhook, Feeding, Expiry, Catalogue and    *)
(* Retention, one component at a time, each under the fairness of its own    *)
(* module.                                                                   *)
EXTENDS Integers, Sequences, FiniteSets, TLC

CONSTANTS w1, w2, nobody, e1            \* Webhook
CONSTANTS d1, d2, s1, s2, t1, t2        \* Feeding
CONSTANTS u1, u2                        \* Expiry
CONSTANTS k1                            \* Catalogue
CONSTANTS o1, o2                        \* Retention

VARIABLES component, trouble, mishaps
VARIABLES head, emitted, due, acked, lock, ver, alive, audit, served, auditRow, req
VARIABLES schedules, time, logs, deadLetters, outbox, call, erased
VARIABLES truth, plan, age, order, pass, told, ended, banned, changes
VARIABLES rows, last, cached, reader, writer, excused
VARIABLES event, cleaning, day, gone

webhookVars == <<trouble, head, emitted, due, acked, lock, ver, alive, audit, served, auditRow, req>>
feedingVars == <<mishaps, schedules, time, logs, deadLetters, outbox, call, erased>>
expiryVars == <<mishaps, truth, plan, age, order, pass, told, ended, banned, changes>>
catalogueVars == <<rows, last, cached, reader, writer, excused, mishaps>>
retentionVars == <<event, cleaning, day, gone, mishaps>>
vars == <<component, webhookVars, feedingVars, expiryVars, catalogueVars, retentionVars>>

One == 1
Two == 2
Nothing == {}

\* Webhook: one renewal, two workers.
BothWorkers == {w1, w2}
OneEvent == {e1}
OneUser == {1}
Renewal == e1 :> {1}
Webhook == INSTANCE Webhook WITH
    Workers <- BothWorkers, Nobody <- nobody, Events <- OneEvent, Mutating <- OneEvent, Users <- OneUser,
    Participants <- Renewal, MaxTrouble <- One

\* Feeding: two devices that log two feedings offline; one of the
\* two schedules may be deleted.
BothDevices == {d1, d2}
BothSchedules == {s1, s2}
BothTimes == {t1, t2}
TheirTimes == s1 :> t1 @@ s2 :> t2
GoodForms == [d \in BothDevices |-> {"good"}]
FirstSchedule == {s1}
Feeding == INSTANCE Feeding WITH
    Devices <- BothDevices, Schedules <- BothSchedules, Standing <- BothSchedules, Times <- BothTimes,
    TimeOf <- TheirTimes, Erasable <- FirstSchedule, Online <- Nothing, Forms <- GoodForms,
    OwnPlans <- Nothing, MaxMishaps <- One

\* Expiry: two accounts, one of which can never be read.
BothAccounts == {u1, u2}
OnePoisoned == {u2}
Expiry == INSTANCE Expiry WITH
    Users <- BothAccounts, Poisoned <- OnePoisoned, MaxChanges <- Two, MaxMishaps <- One

\* Catalogue: a species that fish name, which a search finds once it is changed.
OneSpecies == {k1}
OneReader == {d1}
OneWriter == {w1}
SecondVersion == {2}
Catalogue == INSTANCE Catalogue WITH
    Species <- OneSpecies, Standing <- OneSpecies, Popular <- OneSpecies, Matching <- SecondVersion, InUse <- OneSpecies,
    Readers <- OneReader, Writers <- OneWriter, MaxVersion <- Two, MaxMishaps <- One

\* Retention: the daily job and two events, one of them of the user who may be
\* erased.
TwoEvents == {o1, o2}
TheirUser == o1 :> u1 @@ o2 :> u2
TheirAges == [e \in TwoEvents |-> 0]
FirstUser == {u1}
Three == 3
Retention == INSTANCE Retention WITH
    Events <- TwoEvents, Users <- FirstUser, UserOf <- TheirUser, Born <- TheirAges,
    AnonymizeAfter <- One, Retain <- Two, BatchSize <- One, Admins <- Nothing, Worker <- w1, MaxNow <- Three,
    MaxMishaps <- One, pass <- cleaning, now <- day, erased <- gone

Runs(c) == component = c

Init ==
    /\ component \in {"webhook", "feeding", "expiry", "catalogue", "retention"}
    /\ Webhook!Init /\ Feeding!Init /\ Expiry!Init /\ Catalogue!Init /\ Retention!Init
    /\ ~Runs("expiry") => order = (u1 :> 1 @@ u2 :> 2)

species == <<rows, last, cached, reader, writer, excused>>
feedings == <<schedules, time, logs, deadLetters, outbox, call, erased>>
plans == <<truth, plan, age, order, pass, told, ended, banned, changes>>
events == <<event, cleaning, day, gone>>

Next ==
    \/ Runs("webhook") /\ Webhook!Next /\ UNCHANGED <<component, mishaps, feedings, plans, species, events>>
    \/ Runs("feeding") /\ Feeding!Next /\ UNCHANGED <<component, webhookVars, plans, species, events>>
    \/ Runs("expiry") /\ Expiry!Next /\ UNCHANGED <<component, webhookVars, feedings, species, events>>
    \/ Runs("catalogue") /\ Catalogue!Next /\ UNCHANGED <<component, webhookVars, feedings, plans, events>>
    \/ Runs("retention") /\ Retention!Next /\ UNCHANGED <<component, webhookVars, feedings, plans, species>>

\* The fairness of the five modules, each where its component runs.
FairSpec ==
    /\ Init /\ [][Next]_vars
    /\ \A w \in BothWorkers : WF_webhookVars(Runs("webhook") /\ Webhook!Handles(w))
    /\ \A e \in OneEvent : /\ WF_webhookVars(Runs("webhook") /\ Webhook!Expire(e))
                           /\ SF_webhookVars(Runs("webhook") /\ Webhook!Redelivers(e))
    /\ \A d \in BothDevices : SF_feedingVars(Runs("feeding") /\ (Feeding!BeginSync(d) \/ Feeding!Serve(d)))
    /\ WF_expiryVars(Runs("expiry") /\ Expiry!Wait)
    /\ WF_expiryVars(Runs("expiry") /\ Expiry!Advances)
    /\ \A u \in BothAccounts : SF_expiryVars(Runs("expiry") /\ Expiry!Answered(u))
    /\ \A k \in {k1, "list", "popular", "search"} : WF_catalogueVars(Runs("catalogue") /\ Catalogue!Expire(k))
    /\ WF_retentionVars(Runs("retention") /\ Retention!Tick)
    /\ WF_retentionVars(Runs("retention") /\ Retention!Runs)

\* Every event RevenueCat sends is acknowledged in the end (Webhook).
EventuallyAcked == Webhook!EventuallyAcked
\* Every log that waits at a device is settled in the end, unless the device
\* sends something that the tables refuse (Feeding).
LogsSettle == Feeding!LogsSettle
\* Once the provider has made up its mind, the row says what it says (Expiry).
TruthReached == Expiry!TruthReached
\* When no species changes any more, every cached entry is right in the end (Catalogue).
EventuallyFresh == Catalogue!EventuallyFresh
\* Every analytics event is gone in the end (Retention).
OldEventsGo == Runs("retention") => Retention!OldEventsGo
=============================================================================
