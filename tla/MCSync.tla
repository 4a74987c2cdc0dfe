------------------------------- MODULE MCSync -------------------------------
(* SyncAlone for TLC: one device that moves fish between two aquariums, and  *)
(* two devices with one aquarium.                                            *)
EXTENDS SyncAlone, TLC

CONSTANTS a1, f1, s1,
    Loners,         \* who may be alone
    FamilyTime      \* bound: ticks when nobody is

MCFishOf == s1 :> f1
MCSymmetry == Permutations(Devices)

Ahead(d) == \E i \in 1..Len(pending[d]) : pending[d][i].ts > now

\* One aquarium; one device is ahead, and answers to one device are lost.
InFamily ==
    /\ now <= FamilyTime
    /\ \A c, d \in Devices :
          \/ c = d
          \/ ~(Ahead(c) /\ Ahead(d)) /\ ~(resent[c] # <<>> /\ resent[d] # <<>>)
    /\ \A a \in Aquariums \ {a1} : row[a].st = "none" /\ \A d \in Devices : ~Makes(d, a)
    /\ \A d \in Devices : \A x \in txn[d].todo : x.c.rest => x.c.op = "delete"

MCInit == AloneInit /\ alone \in Loners /\ (alone = Nobody => InFamily)

MCNext == AloneNext /\ (alone = Nobody => InFamily')

MCSpec == MCInit /\ [][MCNext]_aloneVars
=============================================================================
