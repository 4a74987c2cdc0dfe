------------------------------ MODULE Reconcile ------------------------------
(***************************************************************************)
(* Reconciliation of the local subscription projection with RevenueCat     *)
(* (app/services/purchase.py): a process reads a baseline of every user it *)
(* works for, asks the provider, and applies the answers in one database   *)
(* transaction under row locks if no baseline moved meanwhile.             *)
(*                                                                         *)
(* A process is a webhook request (several users), a restore request or    *)
(* one account of the scheduled job (one user).  The processes share the   *)
(* user rows with profile sync, account deletion and one another.          *)
(*                                                                         *)
(* Data kept: the plan (status, expiry, product, renewal and trial flags   *)
(* of a snapshot are one value of Plans), the Remove Ads entitlement, the  *)
(* downgrade marks and one client-owned settings key.                      *)
(***************************************************************************)
EXTENDS Integers, Sequences, FiniteSets

CONSTANTS
    Users,        \* local accounts; numbers, since rows are locked in id order
    Procs,        \* requests and job passes that reconcile
    Plans,        \* Free, and the premium subscription states
    Free,
    Prefs,        \* values of a client-owned key of users.settings
    Stamps,       \* instants at which an answer can arrive (verified_at)
    NoStamp,      \* subscription_verified_at IS NULL
    OverLimit,    \* users whose aquariums exceed the free tier
    MaxHistory,   \* bound: provider states per customer
    MaxCooldown   \* longest Retry-After

ASSUME ReconcileAssumption ==
    /\ Users \subseteq Nat
    /\ Free \in Plans
    /\ NoStamp \notin Stamps
    /\ OverLimit \subseteq Users
    /\ MaxHistory \in Nat
    /\ MaxCooldown \in Nat

VARIABLES
    provider,     \* provider[u]: states of the RevenueCat customer, oldest first; <<>>: unknown
    created,      \* customers that exist only because a read created them
    users,        \* committed rows of the users table
    pc,           \* "idle", "reading", "asking", "applying" or "applied"
    work,         \* work[p]: the users p reconciles in its transaction
    asked,        \* asked[p]: those of them with a complete proposal
    props,        \* props[p][u]: the Reconciliation read for u
    locked,       \* locked[p]: the rows p has locked and written, uncommitted
    cooldown      \* TTL of the shared cooldown key, 0 when absent

procVars == <<pc, work, asked, props, locked>>
vars == <<provider, created, users, pc, work, asked, props, locked, cooldown>>

Content  == [plan : Plans, ads : BOOLEAN]
Baseline == [plan : Plans, ads : BOOLEAN, stamp : Stamps \cup {NoStamp}]
Proposal == [base : Baseline, snap : Content, ver : Nat, at : Stamps \cup {NoStamp}]
Row      == [plan : Plans, ads : BOOLEAN, stamp : Stamps \cup {NoStamp}, pref : Prefs,
             marks : BOOLEAN, alive : BOOLEAN, ver : Nat]
PCs      == {"idle", "reading", "asking", "applying", "applied"}

Blank      == [plan |-> Free, ads |-> FALSE]
NoProposal == [base |-> [plan |-> Free, ads |-> FALSE, stamp |-> NoStamp],
               snap |-> Blank, ver |-> 0, at |-> NoStamp]

-----------------------------------------------------------------------------
(* Pure parts of the code. *)

\* The fields apply_reconciliation compares with the proposal.
BaselineOf(row) == [plan |-> row.plan, ads |-> row.ads, stamp |-> row.stamp]

\* The outcome read_reconciliation computes from the snapshot and the baseline.
Changed(pr) == pr.snap # [plan |-> pr.base.plan, ads |-> pr.base.ads]

\* Downgrade marks (limits_exceeded, downgraded_at) after a changed outcome.
MarksAfter(u, row, pr) ==
    \/ /\ pr.base.plan # Free /\ pr.snap.plan = Free
       /\ row.marks \/ u \in OverLimit
    \/ /\ ~(pr.base.plan = Free /\ pr.snap.plan # Free)
       /\ row.marks

\* Wrong: the Remove Ads projection is forgotten.
ProjectedWithoutAds(u, row, pr) ==
    [row EXCEPT !.plan = pr.snap.plan, !.marks = MarksAfter(u, row, pr),
                !.stamp = pr.at, !.ver = pr.ver]

\* Wrong: an unchanged outcome leaves subscription_verified_at alone.
ProjectedUnstamped(u, row, pr) ==
    IF Changed(pr)
    THEN [row EXCEPT !.plan = pr.snap.plan, !.ads = pr.snap.ads,
                     !.marks = MarksAfter(u, row, pr), !.stamp = pr.at, !.ver = pr.ver]
    ELSE [row EXCEPT !.ver = pr.ver]

\* The row the transaction writes over the row it has locked.
Projected(u, row, pr) ==
    IF Changed(pr)
    THEN [row EXCEPT !.plan = pr.snap.plan, !.ads = pr.snap.ads,
                     !.marks = MarksAfter(u, row, pr), !.stamp = pr.at, !.ver = pr.ver]
    ELSE [row EXCEPT !.stamp = pr.at, !.ver = pr.ver]

\* Wrong: the client's copy of a server-owned key wins.
MergedClientMarks(row, c) == [row EXCEPT !.pref = c.pref, !.marks = c.marks]

\* The settings object stored when a client uploads its own copy of it.
MergedSettings(row, c) == [row EXCEPT !.pref = c.pref]

\* Wrong: SET without looking at the TTL; cooldowns that add up.
OverwrittenTTL(requested) == requested

\* _COOLDOWN_SCRIPT.
RetainedTTL(requested) == IF cooldown < requested THEN requested ELSE cooldown

\* Wrong: participants in the order the event names them; no FOR UPDATE.
AnyOf(u, S) == u \in S

\* The next row in the order of _webhook_user_ids; a row no transaction holds.
FirstOf(u, S) == u \in S /\ \A v \in S : u <= v
Unlocked(u)   == \A p \in Procs : u \notin locked[p]

\* verified_at is a microsecond clock: no two answers about a user share an instant.
Fresh(u) == {s \in Stamps : /\ users[u].stamp # s
                            /\ \A p \in Procs : props[p][u].at # s /\ props[p][u].base.stamp # s}

-----------------------------------------------------------------------------
Init ==
    /\ provider \in [Users -> {<<>>} \cup {<<c>> : c \in Content}]
    /\ created = {}
    /\ users \in [Users -> [plan : Plans, ads : BOOLEAN, stamp : {NoStamp}, pref : Prefs,
                            marks : {FALSE}, alive : {TRUE}, ver : {0}]]
    /\ pc = [p \in Procs |-> "idle"]
    /\ work = [p \in Procs |-> {}]
    /\ asked = [p \in Procs |-> {}]
    /\ props = [p \in Procs |-> [u \in Users |-> NoProposal]]
    /\ locked = [p \in Procs |-> {}]
    /\ cooldown = 0

\* A purchase, renewal, expiry, refund or transfer at RevenueCat.
CustomerChanges(u) ==
    /\ Len(provider[u]) < MaxHistory
    /\ \E c \in Content :
          /\ provider[u] # <<>> => c # provider[u][Len(provider[u])]
          /\ provider' = [provider EXCEPT ![u] = Append(@, c)]
    /\ created' = created \ {u}
    /\ UNCHANGED <<users, procVars, cooldown>>

\* process_webhook, restore_purchases or the job settles the users it will read.
Begin(p, S) ==
    /\ pc[p] = "idle"
    /\ S # {} /\ \A u \in S : users[u].alive
    /\ pc' = [pc EXCEPT ![p] = "reading"]
    /\ work' = [work EXCEPT ![p] = S]
    /\ UNCHANGED <<provider, created, users, asked, props, locked, cooldown>>

\* read_reconciliation up to the request: the baseline, then the cooldown check.
ReadBaseline(p) ==
    /\ pc[p] = "reading"
    /\ cooldown = 0
    /\ \E u \in work[p] :
          /\ FirstOf(u, work[p] \ asked[p])
          /\ users[u].alive
          /\ props' = [props EXCEPT ![p][u].base = BaselineOf(users[u])]
    /\ pc' = [pc EXCEPT ![p] = "asking"]
    /\ UNCHANGED <<provider, created, users, work, asked, locked, cooldown>>

\* A valid answer c, the n-th state of the customer, completes u's proposal.
Answered(p, u, n, c) ==
    \E s \in Fresh(u) :
       /\ props' = [props EXCEPT ![p][u] = [@ EXCEPT !.snap = c, !.ver = n, !.at = s]]
       /\ asked' = [asked EXCEPT ![p] = @ \cup {u}]
       /\ pc' = [pc EXCEPT ![p] = IF asked[p] \cup {u} = work[p] THEN "applying" ELSE "reading"]

\* Status 200.
KnownCustomer(p) ==
    /\ pc[p] = "asking"
    /\ \E u \in work[p] :
          /\ FirstOf(u, work[p] \ asked[p])
          /\ provider[u] # <<>>
          /\ Answered(p, u, Len(provider[u]), provider[u][Len(provider[u])])
    /\ UNCHANGED <<provider, created, users, work, locked, cooldown>>

\* Status 201: the read created the customer; accepted for a user without access.
CreatedCustomer(p) ==
    /\ pc[p] = "asking"
    /\ \E u \in work[p] :
          /\ FirstOf(u, work[p] \ asked[p])
          /\ provider[u] = <<>>
          /\ props[p][u].base.plan = Free /\ ~props[p][u].base.ads
          /\ provider' = [provider EXCEPT ![u] = <<Blank>>]
          /\ created' = created \cup {u}
          /\ Answered(p, u, 1, Blank)
    /\ UNCHANGED <<users, work, locked, cooldown>>

\* The exception, cancellation or crash that ends p: the session rolls back.
RolledBack(p) ==
    /\ pc' = [pc EXCEPT ![p] = "idle"]
    /\ work' = [work EXCEPT ![p] = {}]
    /\ asked' = [asked EXCEPT ![p] = {}]
    /\ props' = [props EXCEPT ![p] = [u \in Users |-> NoProposal]]
    /\ locked' = [locked EXCEPT ![p] = {}]

\* Status 201 for a user with access, or any 201 whose answer is lost.
CreatedThenFails(p) ==
    /\ pc[p] = "asking"
    /\ \E u \in work[p] :
          /\ FirstOf(u, work[p] \ asked[p])
          /\ provider[u] = <<>>
          /\ provider' = [provider EXCEPT ![u] = <<Blank>>]
          /\ created' = created \cup {u}
    /\ RolledBack(p)
    /\ UNCHANGED <<users, cooldown>>

\* Status 429: the cooldown key keeps the longer of its TTL and Retry-After.
RateLimited(p) ==
    /\ pc[p] = "asking"
    /\ \E r \in 1..MaxCooldown : cooldown' = RetainedTTL(r)
    /\ RolledBack(p)
    /\ UNCHANGED <<provider, created, users>>

\* Cooling down, user gone, timeout, provider error, cancelled request, crash.
Fails(p) ==
    /\ pc[p] # "idle"
    /\ RolledBack(p)
    /\ UNCHANGED <<provider, created, users, cooldown>>

\* Wrong: the comparison misses subscription_verified_at, so a row that went
\* there and back matches a baseline from before.
ApplyUnstamped(p) ==
    /\ pc[p] = "applying"
    /\ \E u \in work[p] :
          /\ FirstOf(u, work[p] \ locked[p])
          /\ Unlocked(u)
          /\ users[u].alive
          /\ users[u].plan = props[p][u].base.plan /\ users[u].ads = props[p][u].base.ads
          /\ locked' = [locked EXCEPT ![p] = @ \cup {u}]
          /\ pc' = [pc EXCEPT ![p] = IF locked[p] \cup {u} = work[p] THEN "applied" ELSE @]
    /\ UNCHANGED <<provider, created, users, work, asked, props, cooldown>>

\* SELECT ... FOR UPDATE finds the baseline unchanged; the row is written.
ApplyUser(p) ==
    /\ pc[p] = "applying"
    /\ \E u \in work[p] :
          /\ FirstOf(u, work[p] \ locked[p])
          /\ Unlocked(u)
          /\ users[u].alive
          /\ BaselineOf(users[u]) = props[p][u].base
          /\ locked' = [locked EXCEPT ![p] = @ \cup {u}]
          /\ pc' = [pc EXCEPT ![p] = IF locked[p] \cup {u} = work[p] THEN "applied" ELSE @]
    /\ UNCHANGED <<provider, created, users, work, asked, props, cooldown>>

\* The locked row moved since the baseline, or the user is gone: 503, retry.
Conflict(p) ==
    /\ pc[p] = "applying"
    /\ \E u \in work[p] :
          /\ FirstOf(u, work[p] \ locked[p])
          /\ Unlocked(u)
          /\ ~users[u].alive \/ BaselineOf(users[u]) # props[p][u].base
    /\ RolledBack(p)
    /\ UNCHANGED <<provider, created, users, cooldown>>

ProjectedRows(p) ==
    [u \in Users |-> IF u \in work[p] THEN Projected(u, users[u], props[p][u]) ELSE users[u]]

Commit(p) ==
    /\ pc[p] = "applied"
    /\ users' = ProjectedRows(p)
    /\ RolledBack(p)
    /\ UNCHANGED <<provider, created, cooldown>>

\* _apply_user_profile_change: under the row lock, server-owned keys are preserved.
ProfileSync(u) ==
    /\ Unlocked(u) /\ users[u].alive
    /\ \E c \in [pref : Prefs, ads : BOOLEAN, marks : BOOLEAN] :
          users' = [users EXCEPT ![u] = MergedSettings(@, c)]
    /\ UNCHANGED <<provider, created, procVars, cooldown>>

\* delete_account, ban_user, unban_user.
SetDeleted(u) ==
    /\ Unlocked(u)
    /\ users' = [users EXCEPT ![u].alive = ~@]
    /\ UNCHANGED <<provider, created, procVars, cooldown>>

CooldownTicks ==
    /\ cooldown > 0
    /\ cooldown' = cooldown - 1
    /\ UNCHANGED <<provider, created, users, procVars>>

ProcStep(p) ==
    \/ ReadBaseline(p) \/ KnownCustomer(p) \/ CreatedCustomer(p)
    \/ ApplyUser(p) \/ Conflict(p) \/ Commit(p)

Next ==
    \/ \E p \in Procs :
          \/ \E S \in SUBSET Users : Begin(p, S)
          \/ ProcStep(p)
          \/ CreatedThenFails(p) \/ RateLimited(p) \/ Fails(p)
    \/ \E u \in Users : CustomerChanges(u) \/ ProfileSync(u) \/ SetDeleted(u)
    \/ CooldownTicks

Spec == Init /\ [][Next]_vars

-----------------------------------------------------------------------------
(* Properties. *)

\* Every column, proposal and process variable keeps the type of its table,
\* dataclass or request; the cooldown never exceeds the longest Retry-After.
TypeOK ==
    /\ provider \in [Users -> Seq(Content)]
    /\ created \in SUBSET Users
    /\ users \in [Users -> Row]
    /\ pc \in [Procs -> PCs]
    /\ work \in [Procs -> SUBSET Users]
    /\ asked \in [Procs -> SUBSET Users]
    /\ props \in [Procs -> [Users -> Proposal]]
    /\ locked \in [Procs -> SUBSET Users]
    /\ cooldown \in 0..MaxCooldown

\* A row verified against the provider shows exactly the state RevenueCat held
\* at that index of its history (what parse_revenuecat_subscriber read).
RowsShowHistory ==
    \A u \in Users :
       /\ users[u].ver <= Len(provider[u])
       /\ users[u].ver > 0 => /\ users[u].plan = provider[u][users[u].ver].plan
                              /\ users[u].ads = provider[u][users[u].ver].ads

\* A complete proposal whose baseline stamp is still the row's is at least as
\* recent as the row: the compare-and-set of apply_reconciliation on
\* subscription_verified_at cannot let an older snapshot over a newer one.
ProposalsCurrent ==
    \A p \in Procs : \A u \in asked[p] :
       LET pr == props[p][u] IN
       /\ pr.ver \in 1..Len(provider[u])
       /\ pr.snap = provider[u][pr.ver]
       /\ pr.base.stamp = users[u].stamp => users[u].ver <= pr.ver

\* The stamp of a complete proposal is its own: no row, baseline or other
\* proposal about the same user carries it before it is committed.
StampsDistinct ==
    \A p \in Procs : \A u \in asked[p] :
       /\ props[p][u].at \in Stamps
       /\ props[p][u].at # users[u].stamp
       /\ \A q \in Procs : /\ props[q][u].base.stamp # props[p][u].at
                           /\ q # p /\ u \in asked[q] => props[q][u].at # props[p][u].at

\* The rows a process has locked are its own, and still at its baselines.
LocksHold ==
    \A p \in Procs :
       /\ locked[p] \subseteq work[p]
       /\ asked[p] \subseteq work[p]
       /\ pc[p] = "idle" => work[p] = {}
       /\ pc[p] \in {"applying", "applied"} => asked[p] = work[p]
       /\ pc[p] = "applied" => locked[p] = work[p]
       /\ pc[p] \in {"idle", "reading", "asking"} => locked[p] = {}
       /\ \A u \in locked[p] : BaselineOf(users[u]) = props[p][u].base
       /\ \A q \in Procs \ {p} : locked[p] \cap locked[q] = {}

\* Two transactions never wait for each other's row locks: process_webhook
\* applies its proposals in the sorted order of _webhook_user_ids.
WaitsFor(p, q) == /\ pc[p] = "applying"
                  /\ \E u \in locked[q] : FirstOf(u, work[p] \ locked[p])
NoLockCycle == \A p, q \in Procs : p # q => ~(WaitsFor(p, q) /\ WaitsFor(q, p))

\* A premium account carries no limits_exceeded or downgraded_at, whatever
\* downgrades, upgrades and uploads of stale settings went before.
PremiumHasNoDowngradeMarks == \A u \in Users : users[u].plan # Free => ~users[u].marks

\* A 429 never shortens a cooldown another process has set; only time does.
CooldownHeld == [][cooldown' < cooldown => CooldownTicks]_vars

\* The processes implement the projection promised by Entitlement: no stale
\* overwrite, rows of one webhook move together, client settings survive.
LedgerRows == [u \in Users |-> [plan |-> users[u].plan, ads |-> users[u].ads,
                                pref |-> users[u].pref, ver |-> users[u].ver]]
Ledger == INSTANCE Entitlement WITH rows <- LedgerRows
ImplementsLedger == Ledger!LedgerSpec

\* tests/services/test_reconciliation.py: "A newly created provider profile
\* cannot disprove existing Remove Ads access."  An access is never lost to a
\* customer that only our own read created.
CreatedCustomerNeverRevokes ==
    [][\A u \in created \cap created' : /\ users[u].ads => users'[u].ads
                                        /\ users[u].plan # Free => users'[u].plan # Free]_vars
=============================================================================
