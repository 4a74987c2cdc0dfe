------------------------------- MODULE Family -------------------------------
(***************************************************************************)
(* Family sharing of one aquarium: app/services/family.py, the achievement *)
(* check it triggers (app/services/gamification.py) and the erasure of an  *)
(* account (delete_user_data of app/services/analytics.py).                *)
(*                                                                         *)
(* Accepting an invite is a chain of SELECTs under READ COMMITTED, then a  *)
(* flush, the achievements of the owner, and the commit of the request.    *)
(***************************************************************************)
EXTENDS Integers, FiniteSets

CONSTANTS
    People,       \* users other than the owner
    Feeders,      \* those of them who feed, and may ask for their erasure
    Invites,      \* ids of invites
    Requests,     \* concurrent POST /family/accept
    FreeLimit, PremiumLimit,   \* FREE_MEMBER_LIMIT, PREMIUM_MEMBER_LIMIT
    MaxAliens     \* bound: achievements of an unknown type (0 or 1)

VARIABLES
    aquarium,     \* "live", "deleted" (soft), "erased"
    premium,      \* the owner's subscription is active
    members,      \* committed aquarium_members without the owner's row
    invite,       \* invite[i]: "none", "open", "expired", "cancelled", or who used it
    badges,       \* committed achievements of the owner
    accounts,     \* people whose users row exists
    authors,      \* people named by a schedule or a log of the aquarium
    req,          \* req[q]: a request to accept and its transaction
    stuck,        \* history: people whose erasure was refused
    freely        \* history: members whom the limit of the free plan let in

familyVars == <<aquarium, premium, members, invite, badges, accounts, authors, req, stuck, freely>>

NoRequest == [stage |-> "idle"]

Init ==
    /\ aquarium = "live" /\ premium \in BOOLEAN /\ members = {}
    /\ invite = [i \in Invites |-> "none"]
    /\ badges = {} /\ accounts = People /\ authors = {}
    /\ req = [q \in Requests |-> NoRequest]
    /\ stuck = {} /\ freely = {}

Goes(q, stage) == req' = [req EXCEPT ![q].stage = stage]
Ends(q)        == req' = [req EXCEPT ![q] = NoRequest]

\* The transactions that have flushed, and hold their rows and keys.
Holding == {q \in Requests : req[q].stage \in {"flushed", "unlock", "commit"}}

Limit == IF premium /\ aquarium # "erased" THEN PremiumLimit ELSE FreeLimit
\* Wrong: the owner's own row is not counted.
HasRoomBeside == Cardinality(members) < Limit
\* _get_member_count counts the owner too.
HasRoom == Cardinality(members) + 1 < Limit

-----------------------------------------------------------------------------
(* The owner.                                                              *)

CreateInvite(i) ==
    /\ aquarium = "live" /\ invite[i] = "none" /\ HasRoom
    /\ invite' = [invite EXCEPT ![i] = "open"]
    /\ UNCHANGED <<aquarium, premium, members, badges, accounts, authors, req, stuck, freely>>

\* The row of an invite that is being used is locked, and deleted afterwards.
CancelInvite(i) ==
    /\ aquarium = "live" /\ invite[i] \notin {"none", "cancelled"}
    /\ \A q \in Holding : req[q].inv # i
    /\ invite' = [invite EXCEPT ![i] = "cancelled"]
    /\ UNCHANGED <<aquarium, premium, members, badges, accounts, authors, req, stuck, freely>>

Expire(i) ==
    /\ invite[i] = "open"
    /\ invite' = [invite EXCEPT ![i] = "expired"]
    /\ UNCHANGED <<aquarium, premium, members, badges, accounts, authors, req, stuck, freely>>

\* By the owner, or by the member who leaves.
RemoveMember(u) ==
    /\ aquarium = "live" /\ u \in members
    /\ members' = members \ {u} /\ freely' = freely \ {u}
    /\ UNCHANGED <<aquarium, premium, invite, badges, accounts, authors, req, stuck>>

DeleteAquarium ==
    /\ aquarium = "live"
    /\ aquarium' = "deleted"
    /\ UNCHANGED <<premium, members, invite, badges, accounts, authors, req, stuck, freely>>

\* The subscription starts or ends.
Subscribe ==
    /\ premium' = ~premium
    /\ UNCHANGED <<aquarium, members, invite, badges, accounts, authors, req, stuck, freely>>

\* The owner's app stores an achievement whose type the server does not know.
\* Bound: only where it makes a difference, with no other badge there or on its way.
StoreAlien ==
    /\ MaxAliens > 0 /\ aquarium # "erased" /\ badges = {} /\ Holding = {}
    /\ badges' = {"alien"}
    /\ UNCHANGED <<aquarium, premium, members, invite, accounts, authors, req, stuck, freely>>

-----------------------------------------------------------------------------
(* POST /family/accept.                                                    *)

Look(q, u, i) ==
    /\ req[q].stage = "idle" /\ u \in accounts /\ invite[i] = "open"
    /\ req' = [req EXCEPT ![q] = [stage |-> "looked", who |-> u, inv |-> i, badge |-> FALSE, free |-> FALSE]]
    /\ UNCHANGED <<aquarium, premium, members, invite, badges, accounts, authors, stuck, freely>>

\* Already a member, no aquarium, or no room: a refusal.
Count(q) ==
    /\ req[q].stage = "looked"
    /\ IF req[q].who \notin members /\ aquarium = "live" /\ HasRoom
       THEN req' = [req EXCEPT ![q].stage = "counted", ![q].free = ~premium]
       ELSE Ends(q)
    /\ UNCHANGED <<aquarium, premium, members, invite, badges, accounts, authors, stuck, freely>>

\* Wrong: an UPDATE that meets no row is fine.
StillThereAnyway(i) == TRUE
\* The UPDATE of the invite must meet its row, or the flush raises.
StillThere(i) == invite[i] # "cancelled"

\* The flush inserts the member and marks the invite; it waits for the
\* transactions that hold the same key or row.
FlushMember(q) ==
    LET r == req[q]
    IN  /\ r.stage = "counted"
        /\ \A p \in Holding : req[p].inv # r.inv /\ req[p].who # r.who
        /\ IF r.who \notin members /\ r.who \in accounts /\ aquarium # "erased" /\ StillThere(r.inv)
           THEN Goes(q, "flushed") ELSE Ends(q)
        /\ UNCHANGED <<aquarium, premium, members, invite, badges, accounts, authors, stuck, freely>>

\* Wrong: the members are counted before the flush.
EarnsBefore(q) == aquarium = "live" /\ members # {}
\* The condition of FAMILY_FIRST, which the request's own member fulfils.
Earns(q) == aquarium = "live" /\ members \cup {req[q].who} # {}

\* check_achievements reads the statistics and the badges; an unknown type
\* raises, and that is only logged.
ReadBadges(q) ==
    /\ req[q].stage = "flushed"
    /\ req' = [req EXCEPT ![q] = IF badges = {} /\ Earns(q) THEN [@ EXCEPT !.stage = "unlock", !.badge = TRUE]
                                  ELSE [@ EXCEPT !.stage = "commit"]]
    /\ UNCHANGED <<aquarium, premium, members, invite, badges, accounts, authors, stuck, freely>>

\* It inserts the badge, and waits for another insert of it.  A badge another
\* request has unlocked meanwhile fails the flush; that is only logged too, but
\* the session cannot commit any more.
Unlock(q) ==
    /\ req[q].stage = "unlock"
    /\ \A p \in Requests : ~(req[p].stage = "commit" /\ req[p].badge)
    /\ IF "family_first" \in badges THEN Ends(q) ELSE Goes(q, "commit")
    /\ UNCHANGED <<aquarium, premium, members, invite, badges, accounts, authors, stuck, freely>>

CommitAccept(q) ==
    LET r == req[q]
    IN  /\ r.stage = "commit"
        /\ members' = members \cup {r.who}
        /\ freely' = IF r.free THEN freely \cup {r.who} ELSE freely
        /\ invite' = [invite EXCEPT ![r.inv] = r.who]
        /\ badges' = IF r.badge THEN badges \cup {"family_first"} ELSE badges
        /\ Ends(q)
        /\ UNCHANGED <<aquarium, premium, accounts, authors, stuck>>

Break(q) ==
    /\ req[q].stage # "idle" /\ Ends(q)
    /\ UNCHANGED <<aquarium, premium, members, invite, badges, accounts, authors, stuck, freely>>

-----------------------------------------------------------------------------
(* Members and their accounts.                                             *)

\* A member creates a schedule or logs a feeding of the aquarium.
Write(u) ==
    /\ aquarium = "live" /\ u \in members \cap Feeders
    /\ authors' = authors \cup {u}
    /\ UNCHANGED <<aquarium, premium, members, invite, badges, accounts, req, stuck, freely>>

\* Rows that still name the user when delete_user_data comes to the users row.
Spared(u) == {w \in authors : w = u /\ aquarium # "erased"}

\* delete_user_data of a member: the invite that was used and the membership
\* go, then the users row, if no other row names it.
EraseMember(u) ==
    /\ u \in accounts \cap Feeders
    /\ \A q \in Holding : req[q].who # u /\ invite[req[q].inv] # u
    /\ IF Spared(u) = {}
       THEN /\ accounts' = accounts \ {u}
            /\ members' = members \ {u} /\ freely' = freely \ {u}
            /\ invite' = [i \in Invites |-> IF invite[i] = u THEN "cancelled" ELSE invite[i]]
            /\ stuck' = stuck \ {u}
       ELSE stuck' = stuck \cup {u} /\ UNCHANGED <<accounts, members, freely, invite>>
    /\ UNCHANGED <<aquarium, premium, badges, authors, req>>

\* delete_user_data of the owner: everything of the aquarium goes with it.
\* It waits for requests that have flushed.
EraseOwner ==
    /\ aquarium # "erased" /\ Holding = {}
    /\ aquarium' = "erased" /\ members' = {} /\ freely' = {} /\ badges' = {} /\ authors' = {}
    /\ invite' = [i \in Invites |-> "cancelled"]
    /\ UNCHANGED <<premium, accounts, req, stuck>>

Next ==
    \/ \E i \in Invites : CreateInvite(i) \/ CancelInvite(i) \/ Expire(i)
    \/ \E u \in People : RemoveMember(u) \/ Write(u) \/ EraseMember(u)
    \/ DeleteAquarium \/ Subscribe \/ StoreAlien \/ EraseOwner
    \/ \E q \in Requests :
          \/ \E u \in People, i \in Invites : Look(q, u, i)
          \/ Count(q) \/ FlushMember(q) \/ ReadBadges(q) \/ Unlock(q) \/ CommitAccept(q) \/ Break(q)

Spec == Init /\ [][Next]_familyVars

-----------------------------------------------------------------------------
\* Types and keys.
FamilyTypeOK ==
    /\ aquarium \in {"live", "deleted", "erased"} /\ premium \in BOOLEAN
    /\ members \subseteq accounts /\ accounts \subseteq People /\ authors \subseteq accounts
    /\ invite \in [Invites -> {"none", "open", "expired", "cancelled"} \cup accounts]
    /\ badges \subseteq {"alien", "family_first"} /\ stuck \subseteq accounts /\ freely \subseteq members

\* The limit is checked before the insert without a lock: it is exceeded only
\* by requests that run at once.  That holds for the premium plan's limit and
\* all members, and for the free plan's and those it let in, whatever the owner
\* subscribes to before and after (accept_invite, _check_member_limit).
LimitNearlyHeld ==
    /\ Cardinality(members) + 1 < PremiumLimit + Cardinality(Requests)
    /\ Cardinality(freely) + 1 < FreeLimit + Cardinality(Requests)

\* A membership that is about to be committed rests on rows that are still
\* there, whatever is cancelled or erased between its statements: the invite,
\* the account and the aquarium (accept_invite, cancel_invite, delete_user_data).
JoinsBacked ==
    \A q \in Holding :
        invite[req[q].inv] # "cancelled" /\ req[q].who \in accounts /\ aquarium # "erased"

\* The owner's family achievement is unlocked by the first member, unless an
\* achievement of an unknown type is in the way (check_achievements).
FamilyFirst == members # {} /\ aquarium = "live" => badges # {}

\* A family is in order: its size, its invites and its owner's badge.
FamilyInv == FamilyTypeOK /\ LimitNearlyHeld /\ JoinsBacked /\ FamilyFirst

\* services/analytics.py, delete_user_data: "Order of deletion respects foreign
\* key constraints."  Whoever asks for it is erased.
ErasureNeverRefused == stuck = {}
=============================================================================
