------------------------------- MODULE Access -------------------------------
(***************************************************************************)
(* Who may see and change what: check_access and the services of aquariums *)
(* and fish (app/services/aquarium.py, app/services/fish.py), and the two  *)
(* ways of app/services/image_service.py to decide the same for photos,    *)
(* one by one before an upload and by joins for a batch of links.          *)
(*                                                                         *)
(* Sync decides in a third way who deletes (app/services/sync): whoever    *)
(* owns an aquarium or is a member of it.                                  *)
(*                                                                         *)
(* A request is one transaction, but each of its statements sees what is   *)
(* committed when it runs.  Rows change at the commit.  Who joins or       *)
(* leaves, what else sync changes and uploads are modelled by Family, Sync *)
(* and ImageStore; here they happen in one step.                           *)
(***************************************************************************)
EXTENDS Integers, Sequences, SequencesExt, FiniteSets

CONSTANTS
    People, Aquariums, Fish,
    OwnerOf,      \* OwnerOf[a]: who makes the aquarium a
    Standing,     \* the aquariums that are there at first
    Guests,       \* those who join and leave other aquariums
    Requests,     \* requests at a time
    WhoOf,        \* WhoOf[q]: whose requests q are
    Lists,        \* what a batch of links asks for: sequences of entities
    Pictured,     \* entities that get photos
    MaxPhoto      \* bound: photos of an entity

VARIABLES
    aquarium,  \* aquarium[a]: "none", "live" or "deleted"
    members,   \* members[a]: those with a row in aquarium_members, without the owner
    fish,      \* fish[f]: state, home
    photo,     \* photo[x]: the photo of an entity, 0 for none
    left,      \* accounts that are soft-deleted
    req,       \* req[q]: the request that q makes
    seen,      \* history: seen[q]: <<x, photo>> that its user could see since q began
    barred,    \* history: barred[q]: entities it could not see at some time since
    housed,    \* history: housed[q]: <<f, a>>: the fish f lived in a at some time since
    joined,    \* history: joined[q]: aquariums that its user made or was in at some time since
    late       \* history: fish put into an aquarium while it was being deleted

accessVars == <<aquarium, members, fish, photo, left, req, seen, barred, housed, joined, late>>
rowVars == <<aquarium, members, fish, photo, left>>

Entities == People \cup Aquariums \cup Fish
Nothing == {}
Ready(u) == [stage |-> "new", op |-> "none", who |-> u, aq |-> Nothing, fish |-> Nothing,
             items |-> <<>>, found |-> <<>>, rows |-> {}]

Init ==
    /\ aquarium = [a \in Aquariums |-> IF a \in Standing THEN "live" ELSE "none"] /\ members = [a \in Aquariums |-> {}]
    /\ fish = [f \in Fish |-> [state |-> "none", home |-> CHOOSE a \in Aquariums : TRUE]]
    /\ photo = [x \in Entities |-> 0] /\ left = {}
    /\ req = [q \in Requests |-> Ready(WhoOf[q])]
    /\ seen = [q \in Requests |-> {}] /\ barred = seen /\ housed = seen /\ joined = seen /\ late = {}

\* check_access: the role of u, "missing" (404) or "denied" (403).
RoleOf(u, a) ==
    CASE aquarium[a] # "live" -> "missing"
      [] aquarium[a] = "live" /\ OwnerOf[a] = u -> "owner"
      [] aquarium[a] = "live" /\ u # OwnerOf[a] /\ u \in members[a] -> "member"
      [] OTHER -> "denied"
Admitted == {"owner", "member"}

\* Wrong: any role will do.
MayChangeAny(role) == role \in Admitted
\* Whoever changes an aquarium or its fish must own it.
MayChange(role) == role = "owner"

\* _check_entity_access, for one entity.
MaySee(u, x) ==
    \/ x \in People /\ x = u /\ x \notin left
    \/ x \in Aquariums /\ RoleOf(u, x) \in Admitted
    \/ x \in Fish /\ fish[x].state = "live" /\ RoleOf(u, fish[x].home) \in Admitted

\* The three queries of a batch, each over all entities of its kind.
AvatarKeys(u, asked) == [x \in (asked \cap {u}) \ left |-> photo[x]]
JoinedAquariums(u) == {a \in Aquariums : aquarium[a] = "live" /\ (OwnerOf[a] = u \/ u \in members[a])}
AquariumKeys(u, asked) == [a \in asked \cap JoinedAquariums(u) |-> photo[a]]
\* Wrong: the join leaves out that the aquarium may be deleted.
FishKeysOfAny(u, asked) ==
    [f \in {g \in asked \cap Fish : fish[g].state = "live" /\ (OwnerOf[fish[g].home] = u \/ u \in members[fish[g].home])}
        |-> photo[f]]
FishKeys(u, asked) ==
    [f \in {g \in asked \cap Fish : fish[g].state = "live" /\ fish[g].home \in JoinedAquariums(u)} |-> photo[f]]

-----------------------------------------------------------------------------
(* Requests for an aquarium or a fish.                                     *)

Goes(q, stage) == req' = [req EXCEPT ![q].stage = stage]
Ends(q) == req' = [req EXCEPT ![q] = Ready(req[q].who)]
\* get_current_active_user: accounts that are soft-deleted are refused.
Begins(q) == req[q].stage = "new" /\ req[q].who \notin left
ToWrite(op) == IF op = "delete" THEN "cascade" ELSE "commit"

\* create_aquarium: aquarium and owner in one transaction.
Create(q, a) ==
    /\ Begins(q) /\ aquarium[a] = "none" /\ OwnerOf[a] = req[q].who
    /\ aquarium' = [aquarium EXCEPT ![a] = "live"] /\ Ends(q)
    /\ UNCHANGED <<members, fish, photo, left, late>>

\* get_aquarium_with_fish, list_fish, update_aquarium, delete_aquarium, add_fish.
AskAquarium(q, op, a, f) ==
    /\ Begins(q) /\ aquarium[a] # "none"
    /\ op = "add" => fish[f].state = "none" /\ \A p \in Requests : req[p].fish # {f}
    /\ req' = [req EXCEPT ![q].op = op, ![q].aq = {a}, ![q].fish = IF op = "add" THEN {f} ELSE Nothing,
                          ![q].stage = IF op = "read" THEN "check" ELSE "role"]
    /\ UNCHANGED <<rowVars, late>>

\* get_fish, update_fish, remove_fish: the fish first, then access to its home.
AskFish(q, op, f) ==
    /\ Begins(q) /\ fish[f].state # "none"
    /\ IF fish[f].state = "live"
       THEN req' = [req EXCEPT ![q].op = op, ![q].fish = {f}, ![q].aq = {fish[f].home}, ![q].stage = "check"]
       ELSE Ends(q)
    /\ UNCHANGED <<rowVars, late>>

\* Access alone; a reader goes on to load the rows, and fails if they are gone.
Check(q, a) ==
    /\ req[q].stage = "check" /\ req[q].aq = {a}
    /\ IF RoleOf(req[q].who, a) \notin Admitted THEN Ends(q)
       ELSE Goes(q, IF req[q].op \in {"edit", "remove"} THEN "role" ELSE "load")
    /\ UNCHANGED <<rowVars, late>>

Load(q) == req[q].stage = "load" /\ Ends(q) /\ UNCHANGED <<rowVars, late>>

CheckRole(q, a) ==
    /\ req[q].stage = "role" /\ req[q].aq = {a}
    /\ IF MayChange(RoleOf(req[q].who, a)) THEN Goes(q, ToWrite(req[q].op)) ELSE Ends(q)
    /\ UNCHANGED <<rowVars, late>>

\* Wrong: the cascade is left to the foreign key, which a soft delete spares.
CascadeNone(a) == {}
\* The live fish that a deletion takes along.
CascadeOf(a) == {f \in Fish : fish[f].state = "live" /\ fish[f].home = a}

Cascade(q, a) ==
    /\ req[q].stage = "cascade" /\ req[q].aq = {a}
    /\ req' = [req EXCEPT ![q].stage = "commit", ![q].rows = CascadeOf(a)]
    /\ UNCHANGED <<rowVars, late>>

\* delete_aquarium, and the same by a sync.
Deletions == {"delete", "sweep"}

\* An aquarium is being deleted, or has been, when a fish gets there.
Closing(a) == aquarium[a] = "deleted" \/ \E q \in Requests : req[q].stage = "commit" /\ req[q].op \in Deletions /\ req[q].aq = {a}

CommitAquarium(q, a) ==
    /\ req[q].stage = "commit" /\ req[q].op \in {"update"} \cup Deletions /\ req[q].aq = {a} /\ Ends(q)
    /\ aquarium' = IF req[q].op \in Deletions THEN [aquarium EXCEPT ![a] = "deleted"] ELSE aquarium
    /\ fish' = [f \in Fish |-> IF f \in req[q].rows THEN [fish[f] EXCEPT !.state = "deleted"] ELSE fish[f]]
    /\ UNCHANGED <<members, photo, left, late>>

CommitFish(q, f) ==
    /\ req[q].stage = "commit" /\ req[q].op \in {"add", "edit", "remove", "drop"} /\ req[q].fish = {f} /\ Ends(q)
    /\ LET a == CHOOSE b \in Aquariums : req[q].aq = {b}
       IN /\ fish' = CASE req[q].op = "add" -> [fish EXCEPT ![f] = [state |-> "live", home |-> a]]
                       [] req[q].op \in {"remove", "drop"} -> [fish EXCEPT ![f].state = "deleted"]
                       [] OTHER -> fish
          /\ late' = IF req[q].op = "add" /\ Closing(a) THEN late \cup {f} ELSE late
    /\ UNCHANGED <<aquarium, members, photo, left>>

-----------------------------------------------------------------------------
(* Deletions that a sync brings, one in a request: "sweep" deletes an      *)
(* aquarium with its fish, "drop" a fish.  Who may is decided first, by    *)
(* the aquariums of the user; then the row is looked up.                   *)

\* _validate_entity_ownership, which reads the user's aquariums once.
AskSync(q, x) ==
    /\ Begins(q)
    /\ LET mine == JoinedAquariums(req[q].who)
           asks(op, aqs, fs) ==
              req' = [req EXCEPT ![q].op = op, ![q].aq = aqs, ![q].fish = fs, ![q].stage = "find"]
       IN \/ x \in Fish /\ fish[x].state # "none" /\ asks("drop", mine, {x})
          \/ x \in mine /\ asks("sweep", {x}, Nothing)
    /\ UNCHANGED <<rowVars, late>>

\* A row that is gone, or changed after the client did, is let alone; so is a
\* fish outside the user's aquariums, for which the sync is refused.
FindFish(q, f) ==
    /\ req[q].stage = "find" /\ req[q].fish = {f}
    /\ \/ Ends(q)
       \/ /\ fish[f].state = "live" /\ fish[f].home \in req[q].aq
          /\ req' = [req EXCEPT ![q].stage = "commit", ![q].aq = {fish[f].home}]
    /\ UNCHANGED <<rowVars, late>>

FindAquarium(q, a) ==
    /\ req[q].stage = "find" /\ req[q].op = "sweep" /\ req[q].aq = {a}
    /\ Ends(q) \/ (aquarium[a] = "live" /\ Goes(q, "cascade"))
    /\ UNCHANGED <<rowVars, late>>

-----------------------------------------------------------------------------
(* get_presigned_urls: a query for each kind, then the answer.             *)

\* Batches change nothing, so one at a time is enough (a bound).
AskLinks(q, items) ==
    /\ Begins(q) /\ \A p \in Requests : req[p].op # "links"
    /\ req' = [req EXCEPT ![q].op = "links", ![q].items = items, ![q].stage = "avatars"]
    /\ UNCHANGED <<rowVars, late>>

\* found \cup keys, for functions with different domains.
With(found, keys) == [x \in DOMAIN found \cup DOMAIN keys |-> IF x \in DOMAIN keys THEN keys[x] ELSE found[x]]

FindKeys(q) ==
    LET u == req[q].who  asked == ToSet(req[q].items)
        found(keys, next) == req' = [req EXCEPT ![q].found = With(@, keys), ![q].stage = next]
    IN /\ \/ req[q].stage = "avatars" /\ found(AvatarKeys(u, asked), "aquariums")
          \/ req[q].stage = "aquariums" /\ found(AquariumKeys(u, asked), "fish")
          \/ req[q].stage = "fish" /\ found(FishKeys(u, asked), "answered")
       /\ UNCHANGED <<rowVars, late>>

\* Wrong: what is asked twice is answered once.
AnswerOfOnce(items, found) ==
    [i \in {j \in DOMAIN items : items[j] \in DOMAIN found /\ \A k \in 1..j - 1 : items[k] # items[j]}
        |-> <<items[i], found[items[i]]>>]
\* The answer at each place of the request; there is none at the places of what
\* was not found, and the list that is sent leaves them out.
AnswerOf(items, found) ==
    [i \in {j \in DOMAIN items : items[j] \in DOMAIN found} |-> <<items[i], found[items[i]]>>]

Done(q) == req[q].stage = "answered" /\ Ends(q) /\ UNCHANGED <<rowVars, late>>

-----------------------------------------------------------------------------
(* What others do.                                                         *)

Join(u, a) ==
    /\ u \notin members[a] \cup {OwnerOf[a]} /\ aquarium[a] = "live"
    /\ members' = [members EXCEPT ![a] = @ \cup {u}]
    /\ UNCHANGED <<aquarium, fish, photo, left, req, late>>

Quit(u, a) ==
    /\ u \in members[a] /\ members' = [members EXCEPT ![a] = @ \ {u}]
    /\ UNCHANGED <<aquarium, fish, photo, left, req, late>>

\* Bound: only where it makes a difference, while a request asks for links.
LeaveForGood(u) ==
    /\ u \notin left /\ left' = left \cup {u}
    /\ \E q \in Requests : req[q].who = u /\ req[q].op = "links"
    /\ UNCHANGED <<aquarium, members, fish, photo, req, late>>

\* A sync moves the fish to another aquarium that its user sees.
Move(f, a) ==
    /\ fish[f].state = "live" /\ fish[f].home # a /\ aquarium[a] = "live"
    /\ fish' = [fish EXCEPT ![f].home = a]
    /\ late' = IF Closing(a) THEN late \cup {f} ELSE late
    /\ UNCHANGED <<aquarium, members, photo, left, req>>

NewPhoto(x) ==
    /\ photo[x] < MaxPhoto /\ photo' = [photo EXCEPT ![x] = @ + 1]
    /\ UNCHANGED <<aquarium, members, fish, left, req, late>>

Step ==
    \/ \E q \in Requests, a \in Aquariums :
          \/ Create(q, a) \/ Check(q, a) \/ CheckRole(q, a) \/ Cascade(q, a) \/ CommitAquarium(q, a)
          \/ FindAquarium(q, a)
          \/ \E op \in {"read", "update", "delete", "add"}, f \in Fish : AskAquarium(q, op, a, f)
    \/ \E q \in Requests, f \in Fish :
          CommitFish(q, f) \/ FindFish(q, f) \/ \E op \in {"read", "edit", "remove"} : AskFish(q, op, f)
    \/ \E q \in Requests, x \in Aquariums \cup Fish : AskSync(q, x)
    \/ \E q \in Requests : Load(q) \/ FindKeys(q) \/ Done(q) \/ \E items \in Lists : AskLinks(q, items)
    \/ \E u \in Guests, a \in Aquariums : Join(u, a) \/ Quit(u, a)
    \/ \E u \in Guests : LeaveForGood(u)
    \/ \E f \in Fish, a \in Aquariums : Move(f, a)
    \/ \E x \in Pictured : NewPhoto(x)

\* What the user of a request can and cannot see of what it asks for; and for
\* one that deletes, where the fish live, and the aquariums of its user.
Visible(q) == {<<x, photo[x]>> : x \in {y \in ToSet(req[q].items) : MaySee(req[q].who, y)}}
Hidden(q) == {x \in ToSet(req[q].items) : ~MaySee(req[q].who, x)}
Homes == {<<f, fish[f].home>> : f \in {g \in Fish : fish[g].state = "live"}}
Links(q) == req[q].op = "links"
Mine(q) == JoinedAquariums(req[q].who)
About(q) == req[q].aq
Syncs(q) == req[q].op \in {"sweep", "drop"}
Deletes(q) == req[q].op \in {"delete", "remove"} \/ Syncs(q)
Next ==
    /\ Step
    /\ seen' = [q \in Requests |-> IF Links(q)' THEN seen[q] \cup Visible(q)' ELSE {}]
    /\ barred' = [q \in Requests |-> IF Links(q)' THEN barred[q] \cup Hidden(q)' ELSE {}]
    /\ housed' = [q \in Requests |-> IF Deletes(q)' THEN {p \in housed[q] \cup Homes' : p[2] \in About(q)'} ELSE {}]
    /\ joined' = [q \in Requests |-> IF Syncs(q)' THEN (joined[q] \cup Mine(q)') \cap About(q)' ELSE {}]

-----------------------------------------------------------------------------
(* Properties.                                                             *)

\* Types; a fish is never in an aquarium that was not made.
AccessTypeOK ==
    /\ \A a \in Aquariums : aquarium[a] \in {"none", "live", "deleted"} /\ members[a] \subseteq People \ {OwnerOf[a]}
    /\ \A f \in Fish : fish[f].home \in Aquariums /\ (fish[f].state # "none" => aquarium[fish[f].home] # "none")
    /\ \A x \in Entities : photo[x] \in 0..MaxPhoto
    /\ left \subseteq Guests /\ late \subseteq Fish

\* The joins of a batch and the checks of an upload agree on every entity.
BatchAgreesWithSingle ==
    \A u \in People :
        DOMAIN AvatarKeys(u, Entities) \cup DOMAIN AquariumKeys(u, Entities) \cup DOMAIN FishKeys(u, Entities) =
            {x \in Entities : MaySee(u, x)}

\* Though its queries run one after the other, a batch answers for an entity
\* only with a photo that its user could see meanwhile, and is silent only on
\* one that the user could at some time not see, at every place of the request:
\* what is asked twice is answered twice.
AnswersHeld ==
    \A q \in Requests : req[q].stage = "answered" =>
        LET items == req[q].items  answer == AnswerOf(items, req[q].found)
        IN \A i \in DOMAIN items :
              IF i \in DOMAIN answer THEN answer[i] \in seen[q] /\ answer[i][1] = items[i] ELSE items[i] \in barred[q]

\* An aquarium and its fish are deleted by a request of the owner, or by a
\* sync of one who was the owner or a member while it ran: the fish was in that
\* aquarium while the request ran, though it may have been moved since, and
\* though the member may have left or the aquarium may be gone.
Right(q, a) == OwnerOf[a] = req[q].who \/ (Syncs(q) /\ a \in joined[q])
DeletedByRight ==
    [][/\ \A f \in Fish : fish[f].state = "live" /\ fish'[f].state = "deleted" =>
             \E q \in Requests : /\ req[q].stage = "commit" /\ req'[q].stage = "new"
                                 /\ \E a \in Aquariums : <<f, a>> \in housed[q] /\ Right(q, a)
       /\ \A a \in Aquariums : aquarium[a] = "live" /\ aquarium'[a] = "deleted" =>
             \E q \in Requests : req[q].stage = "commit" /\ req'[q].stage = "new" /\ Right(q, a)]_accessVars

\* A live fish in a deleted aquarium got there while it was being deleted.
FishFollowAquarium ==
    \A f \in Fish : fish[f].state = "live" /\ aquarium[fish[f].home] = "deleted" => f \in late

\* Access is sound: both checks agree, answers were visible, fish go with aquariums.
AccessInv == AccessTypeOK /\ BatchAgreesWithSingle /\ AnswersHeld /\ FishFollowAquarium
=============================================================================
