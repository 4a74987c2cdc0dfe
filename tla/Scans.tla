-------------------------------- MODULE Scans --------------------------------
(***************************************************************************)
(* The recognition of fish in photos: app/services/ai.py with the provider *)
(* calls of app/services/ai_provider.py.  How many scans a user may make   *)
(* is in Quotas.                                                           *)
(*                                                                         *)
(* A request makes one scan, in one transaction; nothing is locked while   *)
(* the provider works.  Labels match species by three relations, for LIKE  *)
(* knows wildcards and names are not unique.  The copy of the photo in the *)
(* object store is left out: an upload that fails changes nothing here.    *)
(***************************************************************************)
EXTENDS Integers, Sequences, SequencesExt

CONSTANTS
    Species, Users, Images, Labels,
    Exact, Latin, Part,   \* Exact[l]: the species whose common name l is, and so on
    Answers,              \* lists of labels, best first, that the provider may give
    Requests,             \* POST /ai/scan; a scan has the name of its request
    Confirmations         \* POST /ai/scans/{id}/confirm

VARIABLES
    standing,   \* species there are
    erased,     \* users who were erased
    scan,       \* scan[r]: the row, or Missing
    req, confirm,
    calls,      \* history: calls[u][i]: provider calls
    repeated,   \* history: user and image with scans that overlapped or failed
    blurred     \* history: scans confirmed twice at a time, or whose species went

scansVars == <<standing, erased, scan, req, confirm, calls, repeated, blurred>>

Missing == [user |-> {}, image |-> {}, found |-> {}, others |-> <<>>, confirmed |-> {}, corrected |-> FALSE]
There(r) == scan[r] # Missing
NoRequest == [stage |-> "new", user |-> {}, image |-> {}, found |-> {}, others |-> <<>>, answer |-> {}]
NoConfirmation == [stage |-> "new", scan |-> {}, species |-> {}, loaded |-> Missing]

Init ==
    /\ standing = Species /\ erased = {}
    /\ scan = [r \in Requests |-> Missing]
    /\ req = [r \in Requests |-> NoRequest] /\ confirm = [c \in Confirmations |-> NoConfirmation]
    /\ calls = [u \in Users |-> [i \in Images |-> 0]] /\ repeated = {} /\ blurred = {}

-----------------------------------------------------------------------------
(* _match_label_to_species and _map_predictions_to_species.                 *)

\* The first relation that finds a species decides; two species are an error.
Found(l) ==
    LET one == Exact[l] \cap standing  two == Latin[l] \cap standing  three == Part[l] \cap standing
    IN IF one # {} THEN one ELSE IF two # {} THEN two ELSE three
Ambiguous(l) == \E x, y \in Found(l) : x # y

Nothing == [found |-> {}, others |-> <<>>, failed |-> FALSE]
Enough(m) == m.failed \/ Len(m.others) = 3

\* Wrong: a label that matches nothing fails the scan.
TakeStops(m, l) ==
    CASE Enough(m) -> m
      [] ~Enough(m) /\ (Ambiguous(l) \/ Found(l) = {}) -> [m EXCEPT !.failed = TRUE]
      [] ~Enough(m) /\ ~Ambiguous(l) /\ Found(l) # {} /\ m.found = {} -> [m EXCEPT !.found = Found(l)]
      [] OTHER -> [m EXCEPT !.others = m.others \o SetToSeq(Found(l))]

Take(m, l) ==
    CASE Enough(m) \/ Found(l) = {} -> m
      [] ~Enough(m) /\ Ambiguous(l) -> [m EXCEPT !.failed = TRUE]
      [] ~Enough(m) /\ m.found = {} /\ ~Ambiguous(l) -> [m EXCEPT !.found = Found(l)]
      [] OTHER -> [m EXCEPT !.others = m.others \o SetToSeq(Found(l))]

Mapped(labels) == FoldLeft(Take, Nothing, labels)

-----------------------------------------------------------------------------
(* scan_image.                                                              *)

InProgress(r) == req[r].stage \in {"asked", "called", "mapped"}
Same(r, u, i) == req[r].user = {u} /\ req[r].image = {i}
Answered(r, s) == [NoRequest EXCEPT !.stage = "done", !.user = req[r].user, !.answer = {s}]
Step(r, request) == req' = [req EXCEPT ![r] = request]

Ask(r, u, i) ==
    /\ req[r].stage = "new" /\ u \notin erased
    /\ Step(r, [NoRequest EXCEPT !.stage = "asked", !.user = {u}, !.image = {i}])
    /\ repeated' = repeated \cup {<<u, i>> : q \in {q \in Requests : InProgress(q) /\ Same(q, u, i)}}
    /\ UNCHANGED <<standing, erased, scan, confirm, calls, blurred>>

\* Wrong: a scan that recognized nothing is not looked up.
CachedRecognized(u, i) == {r \in Requests : scan[r].user = {u} /\ scan[r].image = {i} /\ scan[r].found # {}}
\* Wrong: anybody's scan will do.
CachedOfAny(u, i) == {r \in Requests : scan[r].image = {i}}
\* _find_cached_scan.
Cached(u, i) == {r \in Requests : scan[r].user = {u} /\ scan[r].image = {i}}

\* The answer of an earlier scan, or a call of the provider.
Find(r) ==
    /\ req[r].stage = "asked"
    /\ \E u \in req[r].user, i \in req[r].image :
          \/ \E s \in Cached(u, i) : Step(r, Answered(r, s))
                                     /\ UNCHANGED calls
          \/ /\ Cached(u, i) = {} /\ calls' = [calls EXCEPT ![u][i] = @ + 1]
             /\ Step(r, [req[r] EXCEPT !.stage = "called"])
    /\ UNCHANGED <<standing, erased, scan, confirm, repeated, blurred>>

Over(r) == Step(r, [NoRequest EXCEPT !.stage = "done"])
Fails(r) == Over(r) /\ repeated' = repeated \cup (req[r].user \X req[r].image)

\* The provider answers.
Map(r) ==
    /\ req[r].stage = "called"
    /\ \E labels \in Answers :
          LET m == Mapped(labels)
          IN IF m.failed THEN Fails(r)
             ELSE /\ Step(r, [req[r] EXCEPT !.stage = "mapped", !.found = m.found, !.others = m.others])
                  /\ UNCHANGED repeated
    /\ UNCHANGED <<standing, erased, scan, confirm, calls, blurred>>

\* Foreign keys want the user and the species found; the others are only data.
Record(r) ==
    /\ req[r].stage = "mapped"
    /\ IF req[r].found \subseteq standing /\ req[r].user \cap erased = {}
       THEN /\ scan' = [scan EXCEPT ![r] = [Missing EXCEPT !.user = req[r].user, !.image = req[r].image,
                                                           !.found = req[r].found, !.others = req[r].others]]
            /\ Step(r, Answered(r, r))
            /\ UNCHANGED repeated
       ELSE Fails(r) /\ UNCHANGED scan
    /\ UNCHANGED <<standing, erased, confirm, calls, blurred>>

\* Both providers fail, or the transaction does.
Break(r) ==
    /\ req[r].stage \in {"called", "mapped"} /\ Fails(r)
    /\ UNCHANGED <<standing, erased, scan, confirm, calls, blurred>>

-----------------------------------------------------------------------------
(* confirm_species.                                                         *)

\* Only the user's own scans; the caller of a confirmation is one of Users.
Load(c, u, s, k) ==
    /\ confirm[c].stage = "new" /\ u \notin erased
    /\ scan[s].user = {u} /\ k \in standing
    /\ confirm' = [confirm EXCEPT ![c] = [stage |-> "loaded", scan |-> {s}, species |-> {k}, loaded |-> scan[s]]]
    /\ blurred' = blurred \cup {t \in {s} : \E d \in Confirmations : confirm[d].stage = "loaded" /\ confirm[d].scan = {s}}
    /\ UNCHANGED <<standing, erased, scan, req, calls, repeated>>

\* Wrong: what was once corrected stays so.
CorrectedOnce(row, species) == row.corrected \/ row.found # species
Corrected(row, species) == row.found # species

\* A column is written only when it differs from what was loaded.
Column(loaded, set, current) == IF set = loaded THEN current ELSE set

\* The row or the species may have gone since: then nothing is written.
Confirm(c) ==
    /\ confirm[c].stage = "loaded"
    /\ \E s \in confirm[c].scan :
          LET old == confirm[c].loaded  species == confirm[c].species
          IN scan' = IF There(s) /\ species \subseteq standing
                     THEN [scan EXCEPT ![s].confirmed = Column(old.confirmed, species, @),
                                       ![s].corrected = Column(old.corrected, Corrected(old, species), @)]
                     ELSE scan
    /\ confirm' = [confirm EXCEPT ![c] = [NoConfirmation EXCEPT !.stage = "done"]]
    /\ UNCHANGED <<standing, erased, req, calls, repeated, blurred>>

-----------------------------------------------------------------------------
\* An administrator deletes a species that no fish names: ON DELETE SET NULL.
DeleteSpecies(k) ==
    /\ k \in standing /\ standing' = standing \ {k}
    /\ scan' = [r \in Requests |-> [scan[r] EXCEPT !.found = @ \ {k}, !.confirmed = @ \ {k}]]
    /\ blurred' = blurred \cup {r \in Requests : k \in scan[r].found \cup scan[r].confirmed}
    /\ UNCHANGED <<erased, req, confirm, calls, repeated>>

\* delete_user_data: the scans of the user.
Erase(u) ==
    /\ u \notin erased /\ erased' = erased \cup {u}
    /\ scan' = [r \in Requests |-> IF scan[r].user = {u} THEN Missing ELSE scan[r]]
    /\ UNCHANGED <<standing, req, confirm, calls, repeated, blurred>>

Next ==
    \/ \E r \in Requests : Find(r) \/ Map(r) \/ Record(r) \/ Break(r)
    \/ \E r \in Requests, u \in Users, i \in Images : Ask(r, u, i)
    \/ \E c \in Confirmations, u \in Users, s \in Requests, k \in Species : Load(c, u, s, k)
    \/ \E c \in Confirmations : Confirm(c)
    \/ \E k \in Species : DeleteSpecies(k)
    \/ \E u \in Users : Erase(u)

-----------------------------------------------------------------------------
(* Properties.                                                             *)

\* Types, references that hold, and answers that are scans of who asked.
ScansTypeOK ==
    /\ \A r \in Requests : There(r) =>
          scan[r].user \cap erased = {} /\ scan[r].found \cup scan[r].confirmed \subseteq standing
    /\ \A r \in Requests, s \in Requests : s \in req[r].answer /\ There(s) => scan[s].user = req[r].user
    /\ \A c \in Confirmations : confirm[c].stage \in {"new", "loaded", "done"}

\* While a call is out: the species named first is the answer and the next three are alternatives,
\* in the provider's order, whatever matches nothing in between; an ambiguous
\* label fails the scan only when it is reached.
RankKept ==
    (\E r \in Requests : req[r].stage = "called") => \A labels \in Answers :
       LET hits == SelectSeq(labels, LAMBDA l : Found(l) # {})
           best == SubSeq(hits, 1, IF Len(hits) < 4 THEN Len(hits) ELSE 4)
           m == Mapped(labels)
       IN /\ m.failed <=> \E j \in DOMAIN best : Ambiguous(best[j])
          /\ ~m.failed /\ best # <<>> =>
                m.found = Found(best[1]) /\ [j \in DOMAIN m.others |-> {m.others[j]}] = [j \in 1..Len(best) - 1 |-> Found(best[j + 1])]

\* The provider is asked once for a photo of a user, unless two scans of it
\* overlap, one fails, or the user is erased meanwhile.
OneCallEnough ==
    \A u \in Users, i \in Images : calls[u][i] > 1 => <<u, i>> \in repeated \/ u \in erased

\* A confirmed scan was corrected if and only if another species was found,
\* unless two confirmations overlapped or a species was deleted.
CorrectionTrue ==
    \A r \in Requests : There(r) /\ scan[r].confirmed # {} /\ r \notin blurred =>
       (scan[r].corrected <=> scan[r].found # scan[r].confirmed)

\* A scan is what was asked, found in the catalogue and confirmed.
ScansInv == ScansTypeOK /\ OneCallEnough /\ CorrectionTrue
=============================================================================
