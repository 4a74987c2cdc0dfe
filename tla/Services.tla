------------------------------ MODULE Services ------------------------------
(***************************************************************************)
(* Feeding, SyncDelta, Family, Profile, Access and Retention, one at a     *)
(* time: the behaviours are those of each component alone, so their states *)
(* add up and do not multiply.                                             *)
(***************************************************************************)
EXTENDS Retention

CONSTANTS
    Devices, Schedules, Standing, Times, TimeOf, Erasable, Online, Forms, OwnPlans,   \* Feeding
    Clients, Items, KindOf, IdOf, Writers, PageSize, SendsETag, Never, MaxClock, MaxWrites,  \* SyncDelta
    People, Feeders, Invites, Requests, FreeLimit, PremiumLimit, MaxAliens,           \* Family
    Phones, Edits, Readers, Scores, MaxDay,                                           \* Profile
    Keepers, Aquariums, Fish, OwnerOf, FirstOnes, Guests, Tasks, WhoOf, Lists, Pictured, MaxPhoto  \* Access

\* What a request reads is finite; the ids of rows are ordered, and a first
\* sync has no last_sync_at; the limits and the page are constants of family.py
\* and of sync/state.py.  What gets photos is named by its kind and its id.
ASSUME ServicesAssumption ==
    /\ IsFiniteSet(Items) /\ IdOf \in [Items -> Int]
    /\ KindOf \in [Items -> {"aquarium", "fish", "feeding_log", "schedule", "user"}]
    /\ PageSize \in Nat \ {0} /\ Never \notin Nat /\ MaxClock \in Nat /\ MaxWrites \in [Items -> Nat]
    /\ TimeOf \in [Schedules -> Times] /\ Forms \in [Devices -> SUBSET {"good", "bad", "badid"}]
    /\ \A d \in Phones : Edits[d] \cup Scores[d] \subseteq
          [kind : {"streak", "badge", "progress"}, val : Nat, op : {"create", "update"}]
    /\ MaxDay \in Nat \ {0} /\ MaxMishaps \in Nat /\ IsFiniteSet(Requests)
    /\ FreeLimit \in Nat /\ PremiumLimit \in Nat /\ FreeLimit >= 2 /\ FreeLimit <= PremiumLimit
    /\ Keepers \cap Aquariums = {} /\ Keepers \cap Fish = {} /\ Aquariums \cap Fish = {} /\ Aquariums # {}
    /\ FirstOnes \subseteq Aquariums /\ OwnerOf \in [Aquariums -> Keepers] /\ Guests \subseteq Keepers
    /\ WhoOf \in [Tasks -> Keepers] /\ Lists \subseteq Seq(Keepers \cup Aquariums \cup Fish) /\ MaxPhoto \in Nat

VARIABLES component
VARIABLES schedules, time, logs, deadLetters, outbox, call, cleared, slips
VARIABLES row, txn, dev, clock, sound, purged
VARIABLES aquarium, premium, members, invite, badges, accounts, authors, req, stuck, freely
VARIABLES earned, cache, edits, sends, day, made, failures, told, raced, excused
VARIABLES tank, crew, fish, photo, left, asks, seen, barred, housed, joined, late

feedingVars == <<schedules, time, logs, deadLetters, outbox, call, cleared, slips>>
deltaVars == <<row, txn, dev, clock, sound, purged>>
familyVars == <<aquarium, premium, members, invite, badges, accounts, authors, req, stuck, freely>>
profileVars == <<earned, cache, edits, sends, day, made, failures, told, raced, excused>>
accessVars == <<tank, crew, fish, photo, left, asks, seen, barred, housed, joined, late>>

Feeding == INSTANCE Feeding WITH erased <- cleared, mishaps <- slips
Delta == INSTANCE SyncDelta
Family == INSTANCE Family
Profile == INSTANCE Profile WITH
    Devices <- Phones, MaxClock <- MaxDay, row <- earned, call <- sends, clock <- day, mishaps <- failures
\* The same, with other edits and no reader: its rows are the same variables.
Points == INSTANCE Profile WITH
    Devices <- Phones, Edits <- Scores, Readers <- {}, MaxClock <- MaxDay,
    row <- earned, call <- sends, clock <- day, mishaps <- failures
Access == INSTANCE Access WITH
    People <- Keepers, Standing <- FirstOnes, Requests <- Tasks, aquarium <- tank, members <- crew, req <- asks

ServicesInit ==
    /\ component \in {"feeding", "delta", "family", "profile", "points", "access", "retention"}
    /\ Feeding!Init /\ Delta!Init /\ Family!Init /\ Profile!Init /\ Access!Init /\ Init

households == <<feedingVars, familyVars, accessVars>>
clients == <<deltaVars, profileVars>>

ServicesNext ==
    \/ component = "feeding" /\ UNCHANGED <<component, familyVars, accessVars, clients, retentionVars>> /\ Feeding!Next
    \/ component = "family" /\ UNCHANGED <<component, feedingVars, accessVars, clients, retentionVars>> /\ Family!Next
    \/ component = "access" /\ UNCHANGED <<component, feedingVars, familyVars, clients, retentionVars>> /\ Access!Next
    \/ component = "delta" /\ UNCHANGED <<component, households, profileVars, retentionVars>> /\ Delta!Next
    \/ component = "profile" /\ UNCHANGED <<component, households, deltaVars, retentionVars>> /\ Profile!Next
    \/ component = "points" /\ UNCHANGED <<component, households, deltaVars, retentionVars>> /\ Points!Next
    \/ component = "retention" /\ UNCHANGED <<component, households, clients>> /\ Next

servicesVars == <<component, households, clients, retentionVars>>
ServicesSpec == ServicesInit /\ [][ServicesNext]_servicesVars

\* Rows and keys of feedings hold, and devices are told the truth (Feeding).
FeedingInv == component = "feeding" => Feeding!FeedingInv
\* A row that a client never gets was stamped before a delta and committed
\* after it, or has left the tables; pages make up the delta (SyncDelta).
DeltaInv == component = "delta" => Delta!DeltaInv
\* The size, the invites and the badge of a family are in order (Family).
FamilyInv == component = "family" => Family!FamilyInv
\* Cached statistics are those of the rows, and points are not lost (Profile).
ProfileInv == component \in {"profile", "points"} => Profile!ProfileInv
\* Both checks agree, answers were visible, fish go with their aquarium (Access).
AccessInv == component = "access" => Access!AccessInv
\* Aquariums and fish are deleted by their owner, or by a member's sync (Access).
DeletedByRight == Access!DeletedByRight
=============================================================================
