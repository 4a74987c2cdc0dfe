------------------------------- MODULE Expiry -------------------------------
(***************************************************************************)
(* The recovery pass over subscriptions: check_expired_subscriptions_job   *)
(* of app/jobs/subscription_jobs.py.  A pass reconciles a fixed list of    *)
(* accounts one by one, tells those whose premium has ended, and is what   *)
(* repairs an account when the provider's events never arrive or were      *)
(* skipped.  What one reconciliation does to a row is in Reconcile; here   *)
(* it is one read and one write that compares the baseline.                *)
(***************************************************************************)
EXTENDS Integers, FiniteSets

CONSTANTS
    Users,        \* accounts
    Poisoned,     \* those whose answers never pass the validation
    MaxChanges,   \* bound: changes at the provider, and bans
    MaxMishaps    \* bound: crashes, and notices that could not be sent

VARIABLES
    truth,     \* truth[u]: the plan the provider knows
    plan,      \* plan[u]: the plan of the users row
    age,       \* age[u]: time since subscription_verified_at
    order,     \* order[u]: the place of u by that time, the oldest and the nulls first
    pass,      \* the running pass: stage, the places of those it has to do, what was read for the first
    told,      \* told[u]: notices sent
    ended,     \* history: ended[u]: times the row went from premium to free
    banned,    \* accounts that are soft-deleted
    changes,
    mishaps

expiryVars == <<truth, plan, age, order, pass, told, ended, banned, changes, mishaps>>

\* "ending": premium that expires within a day, or has expired.
Plans == {"free", "premium", "ending"}
Hour == 1
Day == 2
\* The places of the users, all different.
Orders == {f \in [Users -> 1..Cardinality(Users)] : \A u, v \in Users : f[u] = f[v] => u = v}
NoPass == [stage |-> "idle", ids |-> <<>>, plan |-> "free", moved |-> FALSE, snap |-> "free"]

Init ==
    /\ truth = [u \in Users |-> "free"] /\ plan = truth
    /\ age = [u \in Users |-> Day] /\ order \in Orders
    /\ pass = NoPass /\ told = [u \in Users |-> 0] /\ ended = told
    /\ banned = {} /\ changes = 0 /\ mishaps = 0

\* The first of those that the pass has still to do.
Head1 == CHOOSE u \in DOMAIN pass.ids : \A v \in DOMAIN pass.ids : pass.ids[u] <= pass.ids[v]

-----------------------------------------------------------------------------
(* The provider and the clock.                                             *)

\* A purchase, a renewal, an expiry or a refund.
Change(u) ==
    /\ changes < MaxChanges /\ changes' = changes + 1
    /\ \E p \in {"free", "premium"} \ {truth[u]} : truth' = [truth EXCEPT ![u] = p]
    /\ UNCHANGED <<plan, age, order, pass, told, ended, banned, mishaps>>

\* ban_user, delete_account: a soft delete; and unban_user.
Ban(u) ==
    /\ u \notin banned /\ changes < MaxChanges /\ changes' = changes + 1
    /\ banned' = banned \cup {u}
    /\ UNCHANGED <<truth, plan, age, order, pass, told, ended, mishaps>>

Unban(u) ==
    /\ u \in banned /\ banned' = banned \ {u}
    /\ UNCHANGED <<truth, plan, age, order, pass, told, ended, changes, mishaps>>

\* An hour or a day goes by, which is longer than a read takes, and the end
\* of some subscriptions comes near.
Wait ==
    /\ pass.stage # "apply"
    /\ age' = [u \in Users |-> IF age[u] < Day THEN age[u] + 1 ELSE Day]
    /\ \E near \in SUBSET Users :
          /\ truth' = [u \in Users |-> IF u \in near /\ truth[u] = "premium" THEN "ending" ELSE truth[u]]
          /\ plan' = [u \in Users |-> IF u \in near /\ plan[u] = "premium" THEN "ending" ELSE plan[u]]
    /\ UNCHANGED <<order, pass, told, ended, banned, changes, mishaps>>

\* The order when u is verified: it goes behind all others.
Behind(u) == [v \in Users |-> IF v = u THEN Cardinality(Users) ELSE IF order[v] > order[u] THEN order[v] - 1 ELSE order[v]]

\* What a reconciliation writes for u when it read p.
Verified(u, p) ==
    /\ plan' = [plan EXCEPT ![u] = p]
    /\ age' = [age EXCEPT ![u] = 0]
    /\ order' = Behind(u)
    /\ ended' = IF plan[u] # "free" /\ p = "free" THEN [ended EXCEPT ![u] = @ + 1] ELSE ended

\* A webhook event or a restore; for a banned account it is skipped.
Event(u) ==
    /\ u \notin Poisoned \cup banned /\ truth[u] # plan[u] /\ Verified(u, truth[u])
    /\ pass' = IF pass.stage = "apply" /\ u = Head1 THEN [pass EXCEPT !.moved = TRUE] ELSE pass
    /\ UNCHANGED <<truth, told, banned, changes, mishaps>>

-----------------------------------------------------------------------------
(* The pass.                                                               *)

\* Wrong: a subscription is looked at when it is about to end, and only then.
DueEnding(u) == u \notin banned /\ plan[u] = "ending" /\ age[u] >= Hour
\* _due_subscription_user_ids: not verified for a day, or for an hour when
\* premium is about to end.
Due(u) == u \notin banned /\ (age[u] = Day \/ (plan[u] = "ending" /\ age[u] >= Hour))

StartPass ==
    /\ pass.stage = "idle" /\ \E u \in Users : Due(u)
    /\ pass' = [NoPass EXCEPT !.stage = "ask", !.ids = [u \in {v \in Users : Due(v)} |-> order[u]]]
    /\ UNCHANGED <<truth, plan, age, order, told, ended, banned, changes, mishaps>>

\* The next account, or the end of the pass.
Next1 ==
    LET rest == DOMAIN pass.ids \ {Head1}
    IN IF rest = {} THEN NoPass ELSE [NoPass EXCEPT !.stage = "ask", !.ids = [u \in rest |-> pass.ids[u]]]

\* read_reconciliation: the row, then the provider.
Read(u) ==
    /\ pass.stage = "ask" /\ u = Head1 /\ u \notin Poisoned \cup banned
    /\ pass' = [pass EXCEPT !.stage = "apply", !.plan = plan[u], !.snap = truth[u]]
    /\ UNCHANGED <<truth, plan, age, order, told, ended, banned, changes, mishaps>>

\* An error of this account only, or it is banned: the pass goes on.
Refused(u) ==
    /\ pass.stage = "ask" /\ u = Head1
    /\ pass' = Next1
    /\ UNCHANGED <<truth, plan, age, order, told, ended, banned, changes, mishaps>>

\* 401, 403, 429 or no configuration, whatever the account: the pass ends here.
Fatal(u) ==
    /\ pass.stage = "ask" /\ u = Head1
    /\ pass' = NoPass
    /\ UNCHANGED <<truth, plan, age, order, told, ended, banned, changes, mishaps>>

\* Wrong: everyone who is free is told, whatever they were before.
TellsFree == pass.snap = "free"
Tells == pass.plan # "free" /\ pass.snap = "free"

\* apply_reconciliation and the commit, or a conflict with an event that has
\* verified the row meanwhile, or with a ban.
Apply(u) ==
    /\ pass.stage = "apply" /\ u = Head1
    /\ IF pass.moved \/ u \in banned
       THEN /\ UNCHANGED <<plan, age, order, ended>>
            /\ pass' = Next1
       ELSE /\ Verified(u, pass.snap)
            /\ pass' = IF Tells THEN [pass EXCEPT !.stage = "tell"] ELSE Next1
    /\ UNCHANGED <<truth, told, banned, changes, mishaps>>

\* _send_subscription_expired_notification, in a transaction of its own.
Tell(u) ==
    /\ pass.stage = "tell" /\ u = Head1
    /\ \/ told' = [told EXCEPT ![u] = @ + 1] /\ UNCHANGED mishaps
       \/ mishaps < MaxMishaps /\ mishaps' = mishaps + 1 /\ UNCHANGED told
    /\ pass' = Next1
    /\ UNCHANGED <<truth, plan, age, order, ended, banned, changes>>

\* The worker stops; the job runs again at the next interval.
Crash ==
    /\ pass.stage # "idle" /\ mishaps < MaxMishaps
    /\ mishaps' = mishaps + 1 /\ pass' = NoPass
    /\ UNCHANGED <<truth, plan, age, order, told, ended, banned, changes>>

Next ==
    \/ \E u \in Users :
          \/ Change(u) \/ Ban(u) \/ Unban(u) \/ Event(u)
          \/ Read(u) \/ Refused(u) \/ Fatal(u) \/ Apply(u) \/ Tell(u)
    \/ Wait \/ StartPass \/ Crash

Spec == Init /\ [][Next]_expiryVars

\* The scheduler, and whatever a pass does.
Advances == StartPass \/ \E u \in Users : Read(u) \/ Refused(u) \/ Fatal(u) \/ Apply(u) \/ Tell(u)

\* What becomes of u when no error ends the pass.
Answered(u) == IF u \in Poisoned THEN Refused(u) ELSE Read(u)

\* Time goes by, the job runs at its interval, and for no account do all
\* reads fail: one that is poisoned does not end every pass that comes to it.
Fairness ==
    /\ WF_expiryVars(Wait) /\ WF_expiryVars(Advances)
    /\ \A u \in Users : SF_expiryVars(Answered(u))

FairSpec == Spec /\ Fairness

-----------------------------------------------------------------------------
\* Types; every account has a place of its own, and a pass that runs has accounts to do.
ExpiryTypeOK ==
    /\ truth \in [Users -> Plans] /\ plan \in [Users -> Plans] /\ age \in [Users -> 0..Day]
    /\ order \in Orders
    /\ pass.stage \in {"idle", "ask", "apply", "tell"} /\ ((pass.stage = "idle") <=> (DOMAIN pass.ids = {}))
    /\ DOMAIN pass.ids \subseteq Users

\* Nobody is told more often that premium has ended than it has, whatever
\* events, crashes and passes follow one another (check_expired_subscriptions_job).
NoticesTrue == \A u \in Users : told[u] <= ended[u]

\* A pass is safe: its accounts are sound, and nobody is told what is not so.
ExpiryInv == ExpiryTypeOK /\ NoticesTrue

\* Once the provider has made up its mind, the row says what it says, without
\* any event, even if some accounts cannot be read and passes keep ending
\* early, though not always at the same account: those behind it would starve;
\* and even if the events came while the account was banned
\* (check_expired_subscriptions_job).
TruthReached ==
    \A u \in Users \ Poisoned : <>[](u \in banned \/ plan[u] = truth[u])
=============================================================================
