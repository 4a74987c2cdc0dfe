---------------------------- MODULE Subscriptions ----------------------------
(* Reconcile and Evidence, one at a time: the behaviours are those of each    *)
(* alone, so their states add up and do not multiply.                         *)
EXTENDS Reconcile, FiniteSets

CONSTANTS Entitlements, Purchases, Promotional, Production, MaxNow   \* Evidence

\* The records that an answer of RevenueCat is made of.
IsEntitlement(e) == e = [id |-> e.id, product |-> e.product, bought |-> e.bought, ends |-> e.ends] /\ e.ends \in Int
IsPurchase(r) ==
    /\ r = [product |-> r.product, once |-> r.once, bought |-> r.bought, ends |-> r.ends,
            sandbox |-> r.sandbox, dead |-> r.dead, promo |-> r.promo]
    /\ r.ends \in Int /\ {r.once, r.sandbox, r.dead, r.promo} \subseteq BOOLEAN

\* An answer is finite, its times are numbers, and what it says of a purchase is so or not.
ASSUME SubscriptionsAssumption ==
    /\ \A es \in Entitlements : IsFiniteSet(es) /\ \A e \in es : IsEntitlement(e)
    /\ \A rs \in Purchases : IsFiniteSet(rs) /\ \A r \in rs : IsPurchase(r)
    /\ Production \in BOOLEAN /\ MaxNow \in Nat

VARIABLES component
VARIABLES answer, hour      \* Evidence

evidenceVars == <<answer, hour>>
subscriptionsVars == <<component, vars, evidenceVars>>

Evidence == INSTANCE Evidence WITH now <- hour

SubscriptionsInit ==
    /\ component \in {"reconcile", "evidence"}
    /\ Init /\ Evidence!Init

SubscriptionsNext ==
    \/ component = "reconcile" /\ Next /\ UNCHANGED <<component, evidenceVars>>
    \/ component = "evidence" /\ Evidence!Next /\ UNCHANGED <<component, vars>>

SubscriptionsSpec == SubscriptionsInit /\ [][SubscriptionsNext]_subscriptionsVars

\* An answer is read when it is clear, and grants what is paid for (Evidence).
AnswersRead == component = "evidence" => Evidence!AnswersRead
\* Without a purchase, access only ends, and an answer stays readable (Evidence).
AccessOnlyEnds == [][component = "evidence" => Evidence!NothingAppears]_evidenceVars
=============================================================================
