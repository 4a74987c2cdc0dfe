------------------------------ MODULE MCQuotas ------------------------------
(* Recognition for TLC.                                                        *)
EXTENDS Recognition, TLC

CONSTANTS k1, a1                                \* Catalogue
CONSTANTS k2, u1, u2, i1, l1, l2, l3, l4, c1, c2    \* Scans

MCPassLimits == [ip |-> 2, user |-> 1]
MCLimit == [scan |-> 1, push |-> 1]
MCSymmetry == Permutations(Requests)

\* Catalogue: a species that a search finds once it is changed.
Nobody == {}
OneSpecies == {k1}
OneActor == {a1}
SecondVersion == {2}

\* Scans: two users with one photo; labels that match by common or by Latin
\* name, two species in part, or none; an answer that goes on after the third
\* alternative.  Two requests make a scan each, and two confirmations follow.
TwoSpecies == {k1, k2}
TwoUsers == {u1, u2}
OnePhoto == {i1}
FourLabels == {l1, l2, l3, l4}
ByName == l1 :> {k1} @@ l2 :> {} @@ l3 :> {} @@ l4 :> {}
InLatin == l1 :> {} @@ l2 :> {k2} @@ l3 :> {} @@ l4 :> {}
InPart == l1 :> {k1, k2} @@ l2 :> {} @@ l3 :> {k1, k2} @@ l4 :> {}
ItsAnswers == {<<>>, <<l4, l2, l1>>, <<l1, l3>>, <<l1, l2, l4, l1, l2, l3>>}
TwoConfirmations == {c1, c2}

MCNext ==
    \/ RecognitionNext
    \/ component = "scans" /\ UNCHANGED recognitionVars  \* they come to an end

MCSpec == RecognitionInit /\ [][MCNext]_recognitionVars
=============================================================================
