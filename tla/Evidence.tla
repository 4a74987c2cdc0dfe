------------------------------ MODULE Evidence ------------------------------
(***************************************************************************)
(* What RevenueCat's answer says of a customer: parse_revenuecat_subscriber *)
(* of app/services/purchase.py.  An entitlement ("premium", "remove_ads")  *)
(* names a product and the time of its purchase; the subscriptions and     *)
(* non-subscriptions are the evidence it must be matched with.  The parser *)
(* rather fails than guesses: an answer with evidence that nobody claims   *)
(* is refused, and the account keeps what it has.                          *)
(*                                                                         *)
(* Fields that are missing or of a wrong type, which raise as well, and    *)
(* what a snapshot says of trials and renewals are left out; a time of     *)
(* expiry stands for the later one of expiry and grace period.             *)
(***************************************************************************)
EXTENDS Integers, FiniteSets, FiniteSetsExt

CONSTANTS
    Entitlements, \* sets of entitlements: id, product, bought, ends
    Purchases,    \* sets of evidence: product, bought, ends, once, promo, sandbox, dead
    Promotional,  \* products named rc_promo_remove_ads_...
    Production,   \* whether sandbox purchases are ignored
    MaxNow        \* bound: the clock

VARIABLES
    answer,   \* the answer, as RevenueCat would send it now
    now

evidenceVars == <<answer, now>>

Forever == 100   \* expires_date null
Unsaid  == 101   \* no expires_date: only a non-subscription may leave it out

\* At most one entitlement of an id and one subscription (once = FALSE) of a
\* product, any number of non-subscriptions; dead: refunded or revoked.
WellFormed(a) ==
    /\ \A e, f \in a.entitlements : e.id = f.id => e = f
    /\ \A r, s \in a.evidence : r.product = s.product /\ ~r.once /\ ~s.once => r = s
    /\ \A r \in a.evidence : r.ends = Unsaid => r.once

\* The identity of evidence, and of what an entitlement claims.
Of(r) == <<r.product, r.bought>>

\* Two records, though of different kinds, are one purchase.
Doubled(a) == \E r, s \in a.evidence : r # s /\ Of(r) = Of(s)

Owners(a, claimed, of) ==
    IF of \in claimed THEN {"remove_ads"} ELSE {e.id : e \in {f \in a.entitlements : Of(f) = of}}

\* The record of an entitlement, and when it contradicts it.
Candidates(a, e) == {r \in a.evidence : Of(r) = Of(e)}
\* Wrong: a record without an expiry contradicts an entitlement with one.
ContradictsUnsaid(e, r) ==
    \/ r.ends = Forever /\ ~r.once /\ ~r.promo
    \/ r.ends # e.ends
Contradicts(e, r) ==
    \/ r.ends = Forever /\ ~r.once /\ ~r.promo
    \/ r.ends # Unsaid /\ r.ends # e.ends
\* A record that says no expiry takes the one of its entitlement.
Ends(e, r) == IF r.ends = Unsaid THEN e.ends ELSE r.ends

Usable(r) == ~r.dead /\ (Production => ~r.sandbox)

\* An expiry lies ahead; none, or one that is not said, does for ever.
Ahead(ends, t) == ends > t

\* The live promotions of Remove Ads, which claim their evidence.
Promotions(a, t) ==
    {r \in a.evidence : r.product \in Promotional /\ ~r.once /\ r.promo /\ Usable(r) /\ Ahead(r.ends, t)}

\* Wrong: evidence that ends just now is held against an entitlement.
UnmatchedStill(a, claimed, of, t) ==
    \E r \in a.evidence :
        /\ Of(r) # of /\ Cardinality(Owners(a, claimed, Of(r))) # 1
        /\ ~r.dead /\ r.ends >= t
\* _has_unmatched_active_evidence: live evidence, sandbox too, that is not
\* claimed by exactly one entitlement.
Unmatched(a, claimed, of, t) ==
    \E r \in a.evidence :
        /\ Of(r) # of /\ Cardinality(Owners(a, claimed, Of(r))) # 1
        /\ ~r.dead /\ Ahead(r.ends, t)

\* Whether an entitlement can be told from the evidence at all.
Refused(a, e, claimed, t) ==
    \/ Owners(a, claimed, Of(e)) # {e.id}
    \/ Candidates(a, e) = {} \/ \E r \in Candidates(a, e) : Contradicts(e, r)
    \/ Unmatched(a, claimed, Of(e), t)

\* Wrong: a refund leaves the record as it was.
LiveRefunded(a, e, t) ==
    {r \in Candidates(a, e) : (Production => ~r.sandbox) /\ Ahead(Ends(e, r), t)}
Live(a, e, t) == {r \in Candidates(a, e) : Usable(r) /\ Ahead(Ends(e, r), t)}

The(a, id) == {e \in a.entitlements : e.id = id}

\* The live promotions are looked at only for a remove_ads entitlement, and
\* must not belong to another one.
AdsPromotions(a, t) == IF The(a, "remove_ads") = {} THEN {} ELSE Promotions(a, t)
AdsRefused(a, t) ==
    \E e \in The(a, "remove_ads") :
        LET claimed == {Of(r) : r \in AdsPromotions(a, t)}
        IN \/ \E of \in claimed : Owners(a, {}, of) \notin {{}, {"remove_ads"}}
           \/ Refused(a, e, claimed, t)

\* The product of the promotion that lasts longest, or else of the entitlement.
RemoveAds(a, t) ==
    LET promos == AdsPromotions(a, t)
    IN IF promos # {} THEN {r.product : r \in {q \in promos : \A s \in promos : s.ends <= q.ends}}
       ELSE {e.product : e \in {f \in The(a, "remove_ads") : Live(a, f, t) # {}}}

Failure == [ok |-> FALSE, premium |-> FALSE, ends |-> 0, ads |-> {}]

Parsed(a, t) ==
    LET claimed == {Of(r) : r \in AdsPromotions(a, t)}
        live == UNION {Live(a, e, t) : e \in The(a, "premium")}
    IN IF Doubled(a) \/ AdsRefused(a, t) \/ \E e \in The(a, "premium") : Refused(a, e, claimed, t)
       THEN Failure
       ELSE [ok |-> TRUE, premium |-> live # {}, ads |-> RemoveAds(a, t),
             ends |-> Max({0} \cup {Ends(e, r) : e \in The(a, "premium"), r \in live})]

-----------------------------------------------------------------------------
Init ==
    /\ answer \in [entitlements : Entitlements, evidence : Purchases] /\ WellFormed(answer)
    /\ now = 0

\* Time goes by and nothing is bought.
Later == now < MaxNow /\ now' = now + 1 /\ UNCHANGED answer

\* A purchase is refunded or revoked.
Refund(r) ==
    /\ r \in answer.evidence /\ ~r.dead
    /\ answer' = [answer EXCEPT !.evidence = (@ \ {r}) \cup {[r EXCEPT !.dead = TRUE]}]
    /\ UNCHANGED now

Next == Later \/ \E r \in answer.evidence : Refund(r)

-----------------------------------------------------------------------------
(* Properties.                                                             *)

\* What is neither refunded nor over, in the sandbox or not; and what pays for
\* an entitlement: sandbox purchases pay for nothing in production.
Holds(r, ends) == ~r.dead /\ ends > now
Pays(e, r) == Of(r) = Of(e) /\ Holds(r, Ends(e, r)) /\ (Production => ~r.sandbox)

\* A gift of Remove Ads, which needs no entitlement of its own; gifts are looked
\* for only if there is a remove_ads entitlement.
Gift(r) ==
    /\ The(answer, "remove_ads") # {} /\ r.product \in Promotional /\ r.promo /\ ~r.once
    /\ Holds(r, r.ends) /\ (Production => ~r.sandbox)

\* An answer that is read grants premium, and Remove Ads, for and only for
\* purchases of their own that still hold, or gifts.
GrantsArePaid ==
    LET p == Parsed(answer, now)
        paid(id) == \E e \in The(answer, id), r \in answer.evidence : Pays(e, r)
    IN p.ok => /\ p.premium <=> paid("premium")
               /\ p.ads # {} <=> paid("remove_ads") \/ \E r \in answer.evidence : Gift(r)

\* Without purchases access can only end: as time goes by and purchases are
\* refunded, no access appears, and an answer that could be read still can.
NothingAppears ==
    LET p == Parsed(answer, now)  q == Parsed(answer', now')
    IN p.ok => q.ok /\ (q.premium => p.premium) /\ (q.ads # {} => p.ads # {})
AccessOnlyEnds == [][NothingAppears]_evidenceVars

\* The record ends when the entitlement does; only what was bought once, or is
\* a gift, may last for ever.
Agrees(e, r) == (r.ends = e.ends /\ (r.ends = Forever => r.once \/ r.promo)) \/ r.ends = Unsaid

\* An answer is clear: no purchase is listed twice, and if it has one of the
\* two entitlements, then each of them is alone with what it claims, which is
\* there and agrees with it; and every purchase that holds is claimed by exactly
\* one entitlement, or is a gift that none but remove_ads claims.  What is
\* refunded or over may be claimed by anybody or nobody.
Claimants(r) == {e \in answer.entitlements : Of(e) = Of(r)}
Clear ==
    LET mine == The(answer, "premium") \cup The(answer, "remove_ads")
    IN /\ \A r, s \in answer.evidence : Of(r) = Of(s) => r = s
       /\ mine # {} =>
             /\ \A e \in mine :
                   /\ Claimants(e) = {e} /\ \E r \in answer.evidence : Of(r) = Of(e)
                   /\ \A r \in answer.evidence : Of(r) = Of(e) => Agrees(e, r)
             /\ \A r \in answer.evidence : Holds(r, r.ends) =>
                   IF Gift(r) THEN Claimants(r) \subseteq The(answer, "remove_ads")
                   ELSE \E e \in answer.entitlements : Claimants(r) = {e}

\* An answer is read exactly when it is clear: nobody who pays is left without
\* access because of purchases of the past, and nothing is guessed from an
\* answer of which two readings are possible.
ReadIffClear == Parsed(answer, now).ok <=> Clear

AnswersRead == GrantsArePaid /\ ReadIffClear
=============================================================================
