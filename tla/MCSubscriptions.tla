--------------------------- MODULE MCSubscriptions ---------------------------
(* Subscriptions for TLC; Reconcile for one account and for a pair of them.   *)
EXTENDS Subscriptions, TLC

VARIABLES shape

allVars == <<subscriptionsVars, shape>>

MCStampSymmetry == Permutations(Stamps)

\* Evidence: an answer with at most one entitlement of each id, though two in
\* one case, and up to three purchases; names say what is bought.
Bought(p, once, at, ends, sandbox, promo) ==
    [product |-> p, once |-> once, bought |-> at, ends |-> ends, sandbox |-> sandbox, dead |-> FALSE, promo |-> promo]
Entitled(id, p, at, ends) == [id |-> id, product |-> p, bought |-> at, ends |-> ends]
Forever == 100   \* as in Evidence
Unsaid == 101
SomePurchases ==
    {Bought("plus", FALSE, at, ends, sandbox, FALSE) : at \in {0, 1}, ends \in {1, 2}, sandbox \in BOOLEAN}
    \cup {Bought("promo", FALSE, 0, ends, sandbox, TRUE) : ends \in {1, Forever}, sandbox \in BOOLEAN}
    \cup {Bought("once", TRUE, at, ends, FALSE, FALSE) : at \in {0, 1}, ends \in {1, Unsaid, Forever}}
    \cup {Bought("once", TRUE, 1, Forever, TRUE, FALSE), Bought("plus", TRUE, 0, Unsaid, FALSE, FALSE)}
SetsOfPurchases ==
    {{}} \cup {{r, s} : r \in SomePurchases, s \in SomePurchases}
         \cup {{r, s, Bought("plus", FALSE, 0, 2, FALSE, FALSE)} : r \in SomePurchases, s \in SomePurchases}
NoEntitlement == {}
PremiumOnes == {NoEntitlement} \cup {{Entitled("premium", p, 0, ends)} : p \in {"plus", "promo"}, ends \in {1, 2}}
AdsOnes ==
    {NoEntitlement, {Entitled("remove_ads", "once", 1, Forever)},
     {Entitled("premium", "once", 0, 1), Entitled("remove_ads", "once", 1, Forever)}}
    \cup {{Entitled("remove_ads", p, 0, ends)} : p \in {"once", "promo", "plus"}, ends \in {1, Forever}}
SetsOfEntitlements == {x \cup y : x \in PremiumOnes, y \in AdsOnes}
PromoOnly == {"promo"}
InProduction == TRUE
Two == 2
NoAnswer == [entitlements |-> NoEntitlement, evidence |-> NoEntitlement]

OnePref == CHOOSE pref \in Prefs : TRUE
AtRest(u) ==
    /\ provider[u] = <<>> /\ users[u].plan = Free /\ ~users[u].ads
    /\ users[u].pref = OnePref /\ users[u].alive

\* The shape "account": everything but a rate limit may happen to account 1.
OneAccount == cooldown = 0 /\ AtRest(2) /\ \A p \in Procs : work[p] \subseteq {1}

\* The shape "pair": Remove Ads stands for all access, each customer has one
\* state, both accounts stay, and two answers arrive.
StampsInUse(u) ==
    {users[u].stamp} \cup UNION {{props[p][u].at, props[p][u].base.stamp} : p \in Procs}
APair ==
    /\ \A u \in Users :
          /\ Len(provider[u]) <= 1 /\ (provider[u] # <<>> => provider[u][1].plan = Free)
          /\ users[u].plan = Free /\ users[u].pref = OnePref /\ users[u].alive
    /\ Cardinality(UNION {StampsInUse(u) : u \in Users} \ {NoStamp}) <= 2

InShape == IF shape = "account" THEN OneAccount ELSE APair

MCInit ==
    /\ component \in {"reconcile", "evidence"} /\ shape \in {"account", "pair"}
    /\ Init /\ InShape
    /\ component = "reconcile" => answer = NoAnswer /\ hour = 0
    /\ component = "evidence" => shape = "account" /\ (\A u \in Users : AtRest(u)) /\ Evidence!Init

MCNext ==
    \/ SubscriptionsNext /\ UNCHANGED shape /\ (component = "reconcile" => InShape')
    \/ component = "evidence" /\ UNCHANGED allVars  \* it comes to an end

MCSpec == MCInit /\ [][MCNext]_allVars
=============================================================================
