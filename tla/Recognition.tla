----------------------------- MODULE Recognition -----------------------------
(* Quotas, Scans and Catalogue, one at a time: the behaviours are those of    *)
(* each alone, so their states add up and do not multiply.                    *)
EXTENDS Quotas

CONSTANTS
    Species, Standing, Popular, Matching, InUse, Readers, Writers, MaxVersion, MaxTrips,   \* Catalogue
    Kinds, Users, Images, Labels, Exact, Latin, Part, Answers, Confirmations               \* Scans

\* The table is finite; the keys of the lists are no names of species.
ASSUME RecognitionAssumption ==
    /\ IsFiniteSet(Species) /\ Species \cap {"list", "popular", "search"} = {} /\ Standing \subseteq Species
    /\ MaxVersion \in Nat \ {0} /\ MaxTrips \in Nat

VARIABLES component
VARIABLES rows, last, cached, reader, writer, excused, trips
VARIABLES standing, erased, scan, asks, confirm, calls, repeated, blurred

catalogueVars == <<rows, last, cached, reader, writer, excused, trips>>
scansVars == <<standing, erased, scan, asks, confirm, calls, repeated, blurred>>
recognitionVars == <<component, vars, catalogueVars, scansVars>>

Catalogue == INSTANCE Catalogue WITH MaxMishaps <- MaxTrips, mishaps <- trips
Scans == INSTANCE Scans WITH Species <- Kinds, req <- asks

RecognitionInit ==
    /\ component \in {"quotas", "catalogue", "scans"}
    /\ Init /\ Catalogue!Init /\ Scans!Init

RecognitionNext ==
    \/ component = "quotas" /\ Next /\ UNCHANGED <<component, catalogueVars, scansVars>>
    \/ component = "catalogue" /\ Catalogue!Next /\ UNCHANGED <<component, vars, scansVars>>
    \/ component = "scans" /\ Scans!Next /\ UNCHANGED <<component, vars, catalogueVars>>

RecognitionSpec == RecognitionInit /\ [][RecognitionNext]_recognitionVars

\* A cached entry that differs from the rows has a reason (Catalogue).
CatalogueInv == component = "catalogue" => Catalogue!CatalogueInv
\* The species named first is the answer, and the next three are alternatives (Scans).
RankKept == component = "scans" => Scans!RankKept
\* A scan is what was asked, found and confirmed (Scans).
ScansInv == component = "scans" => Scans!ScansInv
=============================================================================
