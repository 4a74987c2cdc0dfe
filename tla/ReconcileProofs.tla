--------------------------- MODULE ReconcileProofs ---------------------------
(***************************************************************************)
(* Proofs about Reconcile for every set of users, processes and stamps,    *)
(* and about Evidence for every finite answer.                             *)
(***************************************************************************)
EXTENDS Subscriptions, FiniteSetTheorems, TLAPS

USE ReconcileAssumption

\* The row a transaction writes is a row: every branch of the projection of
\* apply_reconciliation produces values of the columns' types.
LEMMA ProjectedIsRow ==
    ASSUME NEW u \in Users, NEW row \in Row, NEW pr \in Proposal
    PROVE  Projected(u, row, pr) \in Row
<1>1. MarksAfter(u, row, pr) \in BOOLEAN
    BY DEF MarksAfter
<1>2. CASE Changed(pr)
    BY <1>1, <1>2 DEF Projected, Row, Proposal, Content
<1>3. CASE ~Changed(pr)
    BY <1>3 DEF Projected, Row, Proposal
<1> QED BY <1>2, <1>3

\* What a written row takes from the proposal.
LEMMA ProjectedColumns ==
    ASSUME NEW u \in Users, NEW row \in Row, NEW pr \in Proposal
    PROVE  /\ Projected(u, row, pr).stamp = pr.at /\ Projected(u, row, pr).ver = pr.ver
           /\ Changed(pr) => /\ Projected(u, row, pr).plan = pr.snap.plan
                             /\ Projected(u, row, pr).ads = pr.snap.ads
           /\ ~Changed(pr) => /\ Projected(u, row, pr).plan = row.plan
                              /\ Projected(u, row, pr).ads = row.ads
<1>1. CASE Changed(pr)
    BY <1>1 DEF Projected, Row
<1>2. CASE ~Changed(pr)
    BY <1>2 DEF Projected, Row
<1> QED BY <1>1, <1>2

\* Rolling a process back keeps its variables well typed.
LEMMA RolledBackType ==
    ASSUME TypeOK, NEW p \in Procs, RolledBack(p)
    PROVE  /\ pc' \in [Procs -> PCs]
           /\ work' \in [Procs -> SUBSET Users]
           /\ asked' \in [Procs -> SUBSET Users]
           /\ props' \in [Procs -> [Users -> Proposal]]
           /\ locked' \in [Procs -> SUBSET Users]
<1>1. [u \in Users |-> NoProposal] \in [Users -> Proposal]
    BY DEF NoProposal, Proposal, Baseline, Content, Blank
<1> QED BY <1>1 DEF TypeOK, RolledBack, PCs

\* The effect of a complete answer keeps the process variables well typed.
LEMMA AnsweredType ==
    ASSUME TypeOK, NEW p \in Procs, NEW u \in Users, NEW n \in Nat, NEW c \in Content,
           Answered(p, u, n, c)
    PROVE  /\ props' \in [Procs -> [Users -> Proposal]]
           /\ asked' \in [Procs -> SUBSET Users]
           /\ pc' \in [Procs -> PCs]
<1>1. PICK s \in Fresh(u) :
          /\ props' = [props EXCEPT ![p][u] = [@ EXCEPT !.snap = c, !.ver = n, !.at = s]]
          /\ asked' = [asked EXCEPT ![p] = @ \cup {u}]
          /\ pc' = [pc EXCEPT ![p] = IF asked[p] \cup {u} = work[p] THEN "applying" ELSE "reading"]
    BY DEF Answered
<1>2. s \in Stamps
    BY DEF Fresh
<1>3. props[p][u] \in Proposal
    BY DEF TypeOK
<1>4. [props[p][u] EXCEPT !.snap = c, !.ver = n, !.at = s] \in Proposal
    BY <1>2, <1>3 DEF Proposal
<1> QED BY <1>1, <1>4 DEF TypeOK, PCs

\* The initial rows, customers and idle processes are well typed.
LEMMA TypeInit == Init => TypeOK
<1> SUFFICES ASSUME Init PROVE TypeOK
  OBVIOUS
<1>1. provider \in [Users -> Seq(Content)]
  <2>1. \A c \in Content : <<c>> \in Seq(Content)
    OBVIOUS
  <2>2. <<>> \in Seq(Content)
    OBVIOUS
  <2>3. provider \in [Users -> {<<>>} \cup {<<c>> : c \in Content}]
    BY DEF Init
  <2>4. {<<>>} \cup {<<c>> : c \in Content} \subseteq Seq(Content)
    BY <2>1, <2>2
  <2> QED BY <2>3, <2>4
<1>2. [u \in Users |-> NoProposal] \in [Users -> Proposal]
  BY DEF NoProposal, Proposal, Baseline, Content, Blank
<1>3. users \in [Users -> Row]
  <2> DEFINE NewRow == [plan : Plans, ads : BOOLEAN, stamp : {NoStamp}, pref : Prefs,
                        marks : {FALSE}, alive : {TRUE}, ver : {0}]
  <2>1. users \in [Users -> NewRow]
    BY DEF Init
  <2>2. ASSUME NEW r \in NewRow PROVE r \in Row
    <3>1. r = [plan |-> r.plan, ads |-> r.ads, stamp |-> r.stamp, pref |-> r.pref,
               marks |-> FALSE, alive |-> TRUE, ver |-> 0]
      OBVIOUS
    <3>2. r.plan \in Plans /\ r.ads \in BOOLEAN /\ r.stamp = NoStamp /\ r.pref \in Prefs
      OBVIOUS
    <3>3. r.stamp \in Stamps \cup {NoStamp}
      BY <3>2
    <3>4. [plan |-> r.plan, ads |-> r.ads, stamp |-> r.stamp, pref |-> r.pref,
           marks |-> FALSE, alive |-> TRUE, ver |-> 0] \in Row
      BY <3>2, <3>3 DEF Row
    <3> QED BY <3>1, <3>4, Zenon
  <2> QED BY <2>1, <2>2
<1>4. cooldown \in 0..MaxCooldown
  BY DEF Init
<1> QED BY <1>1, <1>2, <1>3, <1>4 DEF Init, TypeOK, PCs

\* Every step keeps the state well typed.
LEMMA TypeStep == TypeOK /\ [Next]_vars => TypeOK'
<1> SUFFICES ASSUME TypeOK, [Next]_vars PROVE TypeOK'
  OBVIOUS
<1>1. ASSUME NEW p \in Procs, NEW S \in SUBSET Users, Begin(p, S) PROVE TypeOK'
  BY <1>1 DEF TypeOK, Begin, PCs
<1>2. ASSUME NEW p \in Procs, ReadBaseline(p) PROVE TypeOK'
  <2>1. PICK u \in work[p] : props' = [props EXCEPT ![p][u].base = BaselineOf(users[u])]
    BY <1>2 DEF ReadBaseline
  <2>2. u \in Users
    BY DEF TypeOK
  <2>3. BaselineOf(users[u]) \in Baseline
    BY <2>2 DEF TypeOK, BaselineOf, Row, Baseline
  <2>4. props[p][u] \in Proposal
    BY <2>2 DEF TypeOK
  <2>5. [props[p][u] EXCEPT !.base = BaselineOf(users[u])] \in Proposal
    BY <2>3, <2>4 DEF Proposal
  <2>6. props' \in [Procs -> [Users -> Proposal]]
    BY <2>1, <2>2, <2>5 DEF TypeOK
  <2> QED BY <1>2, <2>6 DEF TypeOK, ReadBaseline, PCs
<1>3. ASSUME NEW p \in Procs, KnownCustomer(p) PROVE TypeOK'
  <2>1. PICK u \in work[p] :
            /\ provider[u] # <<>>
            /\ Answered(p, u, Len(provider[u]), provider[u][Len(provider[u])])
    BY <1>3 DEF KnownCustomer
  <2>2. u \in Users /\ provider[u] \in Seq(Content)
    BY DEF TypeOK
  <2>3. Len(provider[u]) \in Nat /\ provider[u][Len(provider[u])] \in Content
    BY <2>1, <2>2
  <2> QED BY <1>3, <2>1, <2>2, <2>3, AnsweredType DEF TypeOK, KnownCustomer
<1>4. ASSUME NEW p \in Procs, CreatedCustomer(p) PROVE TypeOK'
  <2>1. PICK u \in work[p] :
            /\ provider' = [provider EXCEPT ![u] = <<Blank>>]
            /\ created' = created \cup {u}
            /\ Answered(p, u, 1, Blank)
    BY <1>4 DEF CreatedCustomer
  <2>2. u \in Users
    BY DEF TypeOK
  <2>3. Blank \in Content
    BY DEF Blank, Content
  <2> QED BY <1>4, <2>1, <2>2, <2>3, AnsweredType DEF TypeOK, CreatedCustomer
<1>5. ASSUME NEW p \in Procs, CreatedThenFails(p) PROVE TypeOK'
  <2>1. PICK u \in work[p] : /\ provider' = [provider EXCEPT ![u] = <<Blank>>]
                             /\ created' = created \cup {u}
    BY <1>5 DEF CreatedThenFails
  <2>2. u \in Users /\ Blank \in Content
    BY DEF TypeOK, Blank, Content
  <2> QED BY <1>5, <2>1, <2>2, RolledBackType DEF TypeOK, CreatedThenFails
<1>6. ASSUME NEW p \in Procs, RateLimited(p) PROVE TypeOK'
  <2>1. cooldown' \in 0..MaxCooldown
    BY <1>6 DEF TypeOK, RateLimited, RetainedTTL
  <2> QED BY <1>6, <2>1, RolledBackType DEF TypeOK, RateLimited
<1>7. ASSUME NEW p \in Procs, Fails(p) PROVE TypeOK'
  BY <1>7, RolledBackType DEF TypeOK, Fails
<1>8. ASSUME NEW p \in Procs, ApplyUser(p) PROVE TypeOK'
  BY <1>8 DEF TypeOK, ApplyUser, PCs
<1>9. ASSUME NEW p \in Procs, Conflict(p) PROVE TypeOK'
  BY <1>9, RolledBackType DEF TypeOK, Conflict
<1>10. ASSUME NEW p \in Procs, Commit(p) PROVE TypeOK'
  <2>1. users' \in [Users -> Row]
    BY <1>10, ProjectedIsRow DEF TypeOK, Commit, ProjectedRows
  <2> QED BY <1>10, <2>1, RolledBackType DEF TypeOK, Commit
<1>11. ASSUME NEW u \in Users, CustomerChanges(u) PROVE TypeOK'
  BY <1>11 DEF TypeOK, CustomerChanges, procVars
<1>12. ASSUME NEW u \in Users, ProfileSync(u) PROVE TypeOK'
  <2>1. users[u] \in Row
    BY DEF TypeOK
  <2>2. \A c \in [pref : Prefs, ads : BOOLEAN, marks : BOOLEAN] :
           MergedSettings(users[u], c) \in Row
    BY <2>1 DEF MergedSettings, Row
  <2>3. users' \in [Users -> Row]
    BY <1>12, <2>2 DEF TypeOK, ProfileSync
  <2> QED BY <1>12, <2>3 DEF TypeOK, ProfileSync, procVars
<1>13. ASSUME NEW u \in Users, SetDeleted(u) PROVE TypeOK'
  <2>1. users[u] \in Row
    BY DEF TypeOK
  <2>2. [users[u] EXCEPT !.alive = ~@] \in Row
    BY <2>1 DEF Row
  <2>3. users' \in [Users -> Row]
    BY <1>13, <2>2 DEF TypeOK, SetDeleted
  <2> QED BY <1>13, <2>3 DEF TypeOK, SetDeleted, procVars
<1>14. CASE CooldownTicks
  BY <1>14 DEF TypeOK, CooldownTicks, procVars
<1>15. CASE UNCHANGED vars
  BY <1>15 DEF TypeOK, vars
<1> QED BY <1>1, <1>2, <1>3, <1>4, <1>5, <1>6, <1>7, <1>8, <1>9, <1>10, <1>11, <1>12,
           <1>13, <1>14, <1>15 DEF Next, ProcStep

\* Every reachable state is well typed: rows, proposals and processes keep
\* the shapes of their tables and dataclasses.
THEOREM TypeCorrect == Spec => []TypeOK
<1> QED BY TypeInit, TypeStep, PTL DEF Spec

-----------------------------------------------------------------------------
(* The inductive invariant behind the compare-and-set. *)

IInv == TypeOK /\ RowsShowHistory /\ ProposalsCurrent /\ StampsDistinct /\ LocksHold

\* The provider's history only grows at its end.
Grows == \A u \in Users : /\ Len(provider[u]) <= Len(provider'[u])
                          /\ \A i \in 1..Len(provider[u]) : provider'[u][i] = provider[u][i]

\* A customer RevenueCat leaves alone keeps its history.
LEMMA SameGrows == ASSUME UNCHANGED provider, TypeOK PROVE Grows
<1>1. \A u \in Users : Len(provider[u]) \in Nat
    BY DEF TypeOK
<1> QED BY <1>1 DEF Grows

\* A purchase, renewal or expiry is appended; earlier states stay where they are.
LEMMA AppendGrows ==
    ASSUME TypeOK, NEW u \in Users, NEW c \in Content,
           provider' = [provider EXCEPT ![u] = Append(@, c)]
    PROVE  Grows
<1> SUFFICES ASSUME NEW v \in Users
             PROVE  /\ Len(provider[v]) <= Len(provider'[v])
                    /\ \A i \in 1..Len(provider[v]) : provider'[v][i] = provider[v][i]
    BY DEF Grows
<1>1. provider[v] \in Seq(Content)
    BY DEF TypeOK
<1>2. CASE v = u
  <2>1. provider'[v] = Append(provider[v], c)
    BY <1>2 DEF TypeOK
  <2> QED BY <1>1, <2>1
<1>3. CASE v # u
  <2>1. provider'[v] = provider[v]
    BY <1>3 DEF TypeOK
  <2> QED BY <1>1, <2>1
<1> QED BY <1>2, <1>3

\* A customer created by a read (status 201) starts a history.
LEMMA CreateGrows ==
    ASSUME TypeOK, NEW u \in Users, provider[u] = <<>>,
           provider' = [provider EXCEPT ![u] = <<Blank>>]
    PROVE  Grows
<1> SUFFICES ASSUME NEW v \in Users
             PROVE  /\ Len(provider[v]) <= Len(provider'[v])
                    /\ \A i \in 1..Len(provider[v]) : provider'[v][i] = provider[v][i]
    BY DEF Grows
<1>1. provider[v] \in Seq(Content)
    BY DEF TypeOK
<1>2. CASE v = u
  <2>1. provider'[v] = <<Blank>> /\ provider[v] = <<>>
    BY <1>2 DEF TypeOK
  <2> QED BY <2>1
<1>3. CASE v # u
  <2>1. provider'[v] = provider[v]
    BY <1>3 DEF TypeOK
  <2> QED BY <1>1, <2>1
<1> QED BY <1>2, <1>3

\* Verified rows stay faithful while their stamps and contents do.
LEMMA RowsKept ==
    ASSUME IInv, TypeOK', Grows,
           \A u \in Users : /\ users'[u].ver = users[u].ver /\ users'[u].plan = users[u].plan
                            /\ users'[u].ads = users[u].ads
    PROVE  RowsShowHistory'
<1> SUFFICES ASSUME NEW u \in Users
             PROVE  /\ users'[u].ver <= Len(provider'[u])
                    /\ users'[u].ver > 0 => /\ users'[u].plan = provider'[u][users'[u].ver].plan
                                            /\ users'[u].ads = provider'[u][users'[u].ver].ads
    BY DEF RowsShowHistory
<1>1. Len(provider[u]) \in Nat /\ Len(provider'[u]) \in Nat /\ users[u].ver \in Nat
  <2>1. provider[u] \in Seq(Content) /\ provider'[u] \in Seq(Content) /\ users[u] \in Row
    BY DEF IInv, TypeOK
  <2> QED BY <2>1 DEF Row
<1>2. users[u].ver <= Len(provider[u]) /\ Len(provider[u]) <= Len(provider'[u])
    BY DEF IInv, RowsShowHistory, Grows
<1>3. CASE users[u].ver > 0
  <2>1. users[u].ver \in 1..Len(provider[u])
    BY <1>1, <1>2, <1>3
  <2>2. provider'[u][users[u].ver] = provider[u][users[u].ver]
    BY <2>1 DEF Grows
  <2>3. users[u].plan = provider[u][users[u].ver].plan /\ users[u].ads = provider[u][users[u].ver].ads
    BY <1>3 DEF IInv, RowsShowHistory
  <2>4. users'[u].ver = users[u].ver /\ users'[u].plan = users[u].plan /\ users'[u].ads = users[u].ads
    OBVIOUS
  <2>5. users'[u].ver <= Len(provider'[u])
    BY <1>1, <1>2, <2>4
  <2>6. provider'[u][users'[u].ver] = provider[u][users[u].ver]
    BY <2>2, <2>4
  <2> QED BY <2>3, <2>4, <2>5, <2>6
<1>4. CASE ~(users[u].ver > 0)
  <2>1. users'[u].ver = users[u].ver
    OBVIOUS
  <2> QED BY <1>1, <1>2, <1>4, <2>1
<1> QED BY <1>3, <1>4

\* Complete proposals stay current and faithful while rows, baselines and
\* proposals do not change.
LEMMA ProposalKept ==
    ASSUME IInv, TypeOK', Grows, NEW p \in Procs, NEW u \in asked[p],
           props'[p][u] = props[p][u],
           props[p][u].base.stamp = users'[u].stamp =>
              users'[u].stamp = users[u].stamp /\ users'[u].ver = users[u].ver
    PROVE  LET pr == props'[p][u] IN
           /\ pr.ver \in 1..Len(provider'[u])
           /\ pr.snap = provider'[u][pr.ver]
           /\ pr.base.stamp = users'[u].stamp => users'[u].ver <= pr.ver
<1>1. u \in Users
    BY DEF IInv, TypeOK
<1>2. Len(provider[u]) \in Nat /\ Len(provider'[u]) \in Nat
  <2>1. provider[u] \in Seq(Content) /\ provider'[u] \in Seq(Content)
    BY <1>1 DEF IInv, TypeOK
  <2> QED BY <2>1
<1>3. /\ props[p][u].ver \in 1..Len(provider[u])
      /\ props[p][u].snap = provider[u][props[p][u].ver]
      /\ props[p][u].base.stamp = users[u].stamp => users[u].ver <= props[p][u].ver
    BY DEF IInv, ProposalsCurrent
<1>4. /\ Len(provider[u]) <= Len(provider'[u])
      /\ provider'[u][props[p][u].ver] = provider[u][props[p][u].ver]
    BY <1>1, <1>3 DEF Grows
<1> QED BY <1>2, <1>3, <1>4

\* A step of the environment that leaves the processes and every compared
\* column alone keeps the invariant.
LEMMA QuietInv ==
    ASSUME IInv, TypeOK', Grows, UNCHANGED procVars,
           \A u \in Users : /\ users'[u].ver = users[u].ver /\ users'[u].plan = users[u].plan
                            /\ users'[u].ads = users[u].ads /\ users'[u].stamp = users[u].stamp
    PROVE  IInv'
<1> USE DEF procVars
<1>1. RowsShowHistory'
    BY RowsKept
<1>2. ProposalsCurrent'
  <2> SUFFICES ASSUME NEW p \in Procs, NEW u \in asked[p]
               PROVE  LET pr == props'[p][u] IN
                      /\ pr.ver \in 1..Len(provider'[u])
                      /\ pr.snap = provider'[u][pr.ver]
                      /\ pr.base.stamp = users'[u].stamp => users'[u].ver <= pr.ver
    BY DEF ProposalsCurrent
  <2>1. u \in Users
    BY DEF IInv, TypeOK
  <2>2. users'[u].ver = users[u].ver /\ users'[u].stamp = users[u].stamp
    BY <2>1
  <2> QED BY <2>2, ProposalKept
<1>3. StampsDistinct'
  <2> SUFFICES ASSUME NEW p \in Procs, NEW u \in asked[p]
               PROVE  /\ props[p][u].at \in Stamps
                      /\ props[p][u].at # users'[u].stamp
                      /\ \A q \in Procs :
                            /\ props[q][u].base.stamp # props[p][u].at
                            /\ q # p /\ u \in asked[q] => props[q][u].at # props[p][u].at
    BY DEF StampsDistinct
  <2>1. users'[u].stamp = users[u].stamp
    BY DEF IInv, TypeOK
  <2> QED BY <2>1 DEF IInv, StampsDistinct
<1>4. LocksHold'
  <2>1. \A p \in Procs : locked[p] \subseteq Users
    BY DEF IInv, TypeOK
  <2>2. \A u \in Users : BaselineOf(users[u])' = BaselineOf(users[u])
    BY DEF BaselineOf
  <2> QED BY <2>1, <2>2, ZenonT(60) DEF IInv, LocksHold
<1> QED BY <1>1, <1>2, <1>3, <1>4 DEF IInv

\* A process that ends, by rolling back or by committing the rows it locked,
\* keeps the invariant: the others' proposals about those rows go stale.
LEMMA LeaveInv ==
    ASSUME IInv, TypeOK', Grows, NEW p \in Procs, RolledBack(p),
           \A u \in Users : \/ users'[u] = users[u]
                            \/ /\ u \in locked[p] /\ u \in asked[p]
                               /\ users'[u] = Projected(u, users[u], props[p][u])
    PROVE  IInv'
<1>1. /\ asked'[p] = {} /\ locked'[p] = {} /\ work'[p] = {} /\ pc'[p] = "idle"
      /\ \A u \in Users : props'[p][u] = NoProposal
      /\ \A q \in Procs \ {p} : /\ asked'[q] = asked[q] /\ locked'[q] = locked[q]
                                /\ work'[q] = work[q] /\ pc'[q] = pc[q]
                                /\ props'[q] = props[q]
    BY DEF RolledBack, IInv, TypeOK
<1>2. \A u \in Users : users[u] \in Row /\ users'[u] \in Row /\ props[p][u] \in Proposal
  <2>1. \A u \in Users : users[u] \in Row /\ props[p][u] \in Proposal
    BY DEF IInv, TypeOK
  <2>2. \A u \in Users : users'[u] \in Row
    BY DEF TypeOK
  <2> QED BY <2>1, <2>2
<1>3. \A u \in Users : users'[u] # users[u] => /\ users'[u].stamp = props[p][u].at
                                               /\ users'[u].ver = props[p][u].ver
  <2> SUFFICES ASSUME NEW u \in Users, users'[u] = Projected(u, users[u], props[p][u])
               PROVE  /\ users'[u].stamp = props[p][u].at
                      /\ users'[u].ver = props[p][u].ver
    OBVIOUS
  <2>1. users[u] \in Row /\ props[p][u] \in Proposal
    BY <1>2
  <2>2. /\ Projected(u, users[u], props[p][u]).stamp = props[p][u].at
        /\ Projected(u, users[u], props[p][u]).ver = props[p][u].ver
    BY <2>1, ProjectedColumns, Zenon
  <2> QED BY <2>2
<1>4. \A u \in Users : users'[u] # users[u] =>
          /\ users'[u].plan = props[p][u].snap.plan
          /\ users'[u].ads = props[p][u].snap.ads
  <2> SUFFICES ASSUME NEW u \in Users, users'[u] # users[u]
               PROVE  /\ users'[u].plan = props[p][u].snap.plan
                      /\ users'[u].ads = props[p][u].snap.ads
    OBVIOUS
  <2>1. /\ users[u] \in Row /\ users'[u] = Projected(u, users[u], props[p][u]) /\ u \in locked[p]
        /\ props[p][u] \in Proposal
    BY <1>2
  <2>2. BaselineOf(users[u]) = props[p][u].base
    BY <2>1 DEF IInv, LocksHold
  <2> DEFINE pr == props[p][u]
             row == Projected(u, users[u], pr)
  <2>5. /\ Changed(pr) => row.plan = pr.snap.plan /\ row.ads = pr.snap.ads
        /\ ~Changed(pr) => row.plan = users[u].plan /\ row.ads = users[u].ads
    BY <2>1, ProjectedColumns, Zenon
  <2>6. users'[u] = row
    BY <2>1
  <2> HIDE DEF row
  <2>3. CASE Changed(pr)
    BY <2>3, <2>5, <2>6
  <2>4. CASE ~Changed(pr)
    <3>1. users'[u].plan = users[u].plan /\ users'[u].ads = users[u].ads
      BY <2>4, <2>5, <2>6
    <3>2. props[p][u].snap = [plan |-> props[p][u].base.plan, ads |-> props[p][u].base.ads]
      BY <2>4 DEF Changed
    <3> QED BY <2>2, <3>1, <3>2 DEF BaselineOf
  <2> QED BY <2>3, <2>4
<1> USE <1>1
<1>5. RowsShowHistory'
  <2> SUFFICES ASSUME NEW u \in Users
               PROVE  /\ users'[u].ver <= Len(provider'[u])
                      /\ users'[u].ver > 0 => /\ users'[u].plan = provider'[u][users'[u].ver].plan
                                              /\ users'[u].ads = provider'[u][users'[u].ver].ads
    BY DEF RowsShowHistory
  <2>1. /\ Len(provider[u]) \in Nat /\ Len(provider'[u]) \in Nat /\ users[u].ver \in Nat
        /\ Len(provider[u]) <= Len(provider'[u])
    <3>1. provider[u] \in Seq(Content) /\ provider'[u] \in Seq(Content) /\ users[u] \in Row
      BY DEF IInv, TypeOK
    <3>2. users[u].ver \in Nat
      BY ONLY <3>1 DEF Row
    <3>3. Len(provider[u]) \in Nat /\ Len(provider'[u]) \in Nat
      BY ONLY <3>1
    <3>4. Len(provider[u]) <= Len(provider'[u])
      BY ONLY Grows, u \in Users DEF Grows
    <3> QED BY <3>2, <3>3, <3>4
  <2>2. CASE users'[u] = users[u]
    <3>1. users[u].ver <= Len(provider[u])
      BY DEF IInv, RowsShowHistory
    <3>2. CASE users[u].ver > 0
      <4>1. users[u].ver \in 1..Len(provider[u])
        BY <2>1, <3>1, <3>2
      <4>2. provider'[u][users[u].ver] = provider[u][users[u].ver]
        BY <4>1 DEF Grows
      <4> QED BY <2>1, <2>2, <3>1, <3>2, <4>2 DEF IInv, RowsShowHistory
    <3>3. CASE ~(users[u].ver > 0)
      BY <2>1, <2>2, <3>1, <3>3
    <3> QED BY <3>2, <3>3
  <2>3. CASE users'[u] # users[u]
    <3>1. u \in asked[p]
      BY <2>3
    <3>2. /\ props[p][u].ver \in 1..Len(provider[u])
          /\ props[p][u].snap = provider[u][props[p][u].ver]
      BY <3>1 DEF IInv, ProposalsCurrent
    <3>3. provider'[u][props[p][u].ver] = provider[u][props[p][u].ver]
      BY <3>2 DEF Grows
    <3>4. /\ users'[u].ver = props[p][u].ver /\ users'[u].plan = props[p][u].snap.plan
          /\ users'[u].ads = props[p][u].snap.ads
      BY <1>3, <1>4, <2>3
    <3>5. props[p][u].ver <= Len(provider'[u])
      BY <2>1, <3>2
    <3> QED BY <3>2, <3>3, <3>4, <3>5
  <2> QED BY <2>2, <2>3
<1>6. ProposalsCurrent'
  <2> SUFFICES ASSUME NEW q \in Procs, NEW u \in asked'[q]
               PROVE  LET pr == props'[q][u] IN
                      /\ pr.ver \in 1..Len(provider'[u])
                      /\ pr.snap = provider'[u][pr.ver]
                      /\ pr.base.stamp = users'[u].stamp => users'[u].ver <= pr.ver
    BY DEF ProposalsCurrent
  <2>1. q # p /\ u \in asked[q] /\ props'[q][u] = props[q][u] /\ u \in Users
    BY DEF IInv, TypeOK
  <2>2. props[q][u].base.stamp = users'[u].stamp => users'[u] = users[u]
    BY <1>3, <2>1 DEF IInv, StampsDistinct
  <2> QED BY <2>1, <2>2, ProposalKept
<1>7. StampsDistinct'
  <2> SUFFICES ASSUME NEW q \in Procs, NEW u \in asked'[q]
               PROVE  /\ props'[q][u].at \in Stamps
                      /\ props'[q][u].at # users'[u].stamp
                      /\ \A r \in Procs :
                            /\ props'[r][u].base.stamp # props'[q][u].at
                            /\ r # q /\ u \in asked'[r] => props'[r][u].at # props'[q][u].at
    BY DEF StampsDistinct
  <2>1. q # p /\ u \in asked[q] /\ props'[q][u] = props[q][u] /\ u \in Users
    BY DEF IInv, TypeOK
  <2>2. props[q][u].at \in Stamps /\ props[q][u].at # users[u].stamp
    BY <2>1 DEF IInv, StampsDistinct
  <2>3. props[q][u].at # users'[u].stamp
    <3>1. CASE users'[u] = users[u]
      BY <2>2, <3>1
    <3>2. CASE users'[u] # users[u]
      <4>1. u \in asked[p]
        BY <2>1, <3>2
      <4> QED BY <1>3, <2>1, <3>2, <4>1 DEF IInv, StampsDistinct
    <3> QED BY <3>1, <3>2
  <2>4. ASSUME NEW r \in Procs
        PROVE  /\ props'[r][u].base.stamp # props'[q][u].at
               /\ r # q /\ u \in asked'[r] => props'[r][u].at # props'[q][u].at
    <3>1. CASE r = p
      BY <2>1, <2>2, <3>1 DEF NoProposal
    <3>2. CASE r # p
      BY <2>1, <3>2 DEF IInv, StampsDistinct
    <3> QED BY <3>1, <3>2
  <2> QED BY <2>1, <2>2, <2>3, <2>4
<1>8. LocksHold'
  <2>1. \A q \in Procs \ {p} : \A u \in locked[q] : u \in Users /\ users'[u] = users[u]
    BY DEF IInv, TypeOK, LocksHold
  <2>2. \A q \in Procs \ {p} : \A u \in locked[q] : BaselineOf(users[u])' = BaselineOf(users[u])
    BY <2>1 DEF BaselineOf
  <2> QED BY <2>1, <2>2 DEF IInv, LocksHold
<1> QED BY <1>5, <1>6, <1>7, <1>8 DEF IInv

\* A complete answer records the provider's latest state under a fresh stamp.
LEMMA AnswerInv ==
    ASSUME IInv, TypeOK', Grows, NEW p \in Procs, NEW u \in work[p], u \notin asked[p],
           pc[p] = "asking",
           NEW n \in Nat, n = Len(provider'[u]), n > 0, NEW c, c = provider'[u][n],
           Answered(p, u, n, c), UNCHANGED <<users, work, locked>>
    PROVE  IInv'
<1>1. PICK s \in Fresh(u) :
          /\ props' = [props EXCEPT ![p][u] = [@ EXCEPT !.snap = c, !.ver = n, !.at = s]]
          /\ asked' = [asked EXCEPT ![p] = @ \cup {u}]
          /\ pc' = [pc EXCEPT ![p] = IF asked[p] \cup {u} = work[p] THEN "applying" ELSE "reading"]
    BY DEF Answered
<1>2. u \in Users
    BY DEF IInv, TypeOK
<1>3. /\ s \in Stamps /\ users[u].stamp # s
      /\ \A q \in Procs : props[q][u].at # s /\ props[q][u].base.stamp # s
    BY DEF Fresh
<1>4. /\ props'[p][u].snap = c /\ props'[p][u].ver = n /\ props'[p][u].at = s
      /\ props'[p][u].base = props[p][u].base
  <2>1. props[p][u] \in Proposal
    BY <1>2 DEF IInv, TypeOK
  <2>2. props'[p][u] = [props[p][u] EXCEPT !.snap = c, !.ver = n, !.at = s]
    BY <1>1, <1>2 DEF IInv, TypeOK
  <2> QED BY <2>1, <2>2 DEF Proposal
<1>5. \A q \in Procs, v \in Users : ~(q = p /\ v = u) => props'[q][v] = props[q][v]
    BY <1>1, <1>2 DEF IInv, TypeOK
<1>6. asked'[p] = asked[p] \cup {u} /\ \A q \in Procs \ {p} : asked'[q] = asked[q]
    BY <1>1 DEF IInv, TypeOK
<1>7. RowsShowHistory'
    BY RowsKept
<1>8. ProposalsCurrent'
  <2> SUFFICES ASSUME NEW q \in Procs, NEW v \in asked'[q]
               PROVE  LET pr == props'[q][v] IN
                      /\ pr.ver \in 1..Len(provider'[v])
                      /\ pr.snap = provider'[v][pr.ver]
                      /\ pr.base.stamp = users'[v].stamp => users'[v].ver <= pr.ver
    BY DEF ProposalsCurrent
  <2>1. CASE q = p /\ v = u
    <3>1. users'[u].ver <= Len(provider'[u])
      BY <1>2, <1>7 DEF RowsShowHistory
    <3> QED BY <1>4, <2>1, <3>1
  <2>2. CASE ~(q = p /\ v = u)
    <3>1. v \in asked[q] /\ v \in Users
      BY <1>6, <2>2 DEF IInv, TypeOK
    <3>2. props'[q][v] = props[q][v]
      BY <1>5, <2>2, <3>1
    <3> QED BY <3>1, <3>2, ProposalKept
  <2> QED BY <2>1, <2>2
<1>9. StampsDistinct'
  <2> SUFFICES ASSUME NEW q \in Procs, NEW v \in asked'[q]
               PROVE  /\ props'[q][v].at \in Stamps
                      /\ props'[q][v].at # users[v].stamp
                      /\ \A r \in Procs :
                            /\ props'[r][v].base.stamp # props'[q][v].at
                            /\ r # q /\ v \in asked'[r] => props'[r][v].at # props'[q][v].at
    BY DEF StampsDistinct
  <2>1. \A r \in Procs : props'[r][u].base = props[r][u].base
    BY <1>2, <1>4, <1>5
  <2>2. CASE q = p /\ v = u
    <3>1. \A r \in Procs : r # q => props'[r][u].at # s
      BY <1>2, <1>3, <1>5, <2>2
    <3> QED BY <1>3, <1>4, <2>1, <2>2, <3>1
  <2>3. CASE ~(q = p /\ v = u)
    <3>1. v \in asked[q] /\ v \in Users
      BY <1>6, <2>3 DEF IInv, TypeOK
    <3>2. props'[q][v] = props[q][v]
      BY <1>5, <2>3, <3>1
    <3>3. props[q][v].at \in Stamps /\ props[q][v].at # users[v].stamp
      BY <3>1 DEF IInv, StampsDistinct
    <3>4. ASSUME NEW r \in Procs
          PROVE  /\ props'[r][v].base.stamp # props'[q][v].at
                 /\ r # q /\ v \in asked'[r] => props'[r][v].at # props'[q][v].at
      <4>1. CASE r = p /\ v = u
        <5>1. props[q][v].at # s /\ props'[r][v].at = s
          BY <1>3, <1>4, <4>1
        <5>2. props[r][v].base.stamp # props[q][v].at
          BY <3>1 DEF IInv, StampsDistinct
        <5>3. props'[r][v].base = props[r][v].base
          BY <2>1, <4>1
        <5> QED BY <3>2, <5>1, <5>2, <5>3
      <4>2. CASE ~(r = p /\ v = u)
        <5>1. props'[r][v] = props[r][v] /\ (v \in asked'[r] => v \in asked[r])
          BY <1>5, <1>6, <3>1, <4>2
        <5>2. /\ props[r][v].base.stamp # props[q][v].at
              /\ r # q /\ v \in asked[r] => props[r][v].at # props[q][v].at
          BY <3>1 DEF IInv, StampsDistinct
        <5> QED BY <3>2, <5>1, <5>2
      <4> QED BY <4>1, <4>2
    <3> QED BY <3>2, <3>3, <3>4
  <2> QED BY <2>2, <2>3
<1>10. LocksHold'
  <2>1. locked[p] = {}
    BY DEF IInv, LocksHold
  <2>2. \A q \in Procs \ {p} : pc'[q] = pc[q] /\ props'[q] = props[q]
    BY <1>1 DEF IInv, TypeOK
  <2>3. pc'[p] \in {"applying", "reading"} /\ (pc'[p] = "applying" => asked'[p] = work[p])
    BY <1>1, <1>6 DEF IInv, TypeOK
  <2>4. \A v \in Users : BaselineOf(users[v])' = BaselineOf(users[v])
    BY DEF BaselineOf
  <2>5. \A q \in Procs : locked[q] \subseteq Users
    BY DEF IInv, TypeOK
  <2>6. \A q \in Procs : asked'[q] \subseteq work[q]
    BY <1>6 DEF IInv, LocksHold
  <2> SUFFICES ASSUME NEW q \in Procs
               PROVE  /\ pc'[q] = "idle" => work[q] = {}
                      /\ pc'[q] \in {"applying", "applied"} => asked'[q] = work[q]
                      /\ pc'[q] = "applied" => locked[q] = work[q]
                      /\ pc'[q] \in {"idle", "reading", "asking"} => locked[q] = {}
                      /\ \A v \in locked[q] : BaselineOf(users[v])' = props'[q][v].base
    BY <2>6 DEF IInv, LocksHold
  <2>7. CASE q = p
    BY <2>1, <2>3, <2>7
  <2>8. CASE q # p
    BY <1>6, <2>2, <2>4, <2>5, <2>8 DEF IInv, LocksHold
  <2> QED BY <2>7, <2>8
<1> QED BY <1>7, <1>8, <1>9, <1>10 DEF IInv

\* Settling the participants and reading a baseline touch no complete proposal.
LEMMA BeginInv ==
    ASSUME IInv, TypeOK', NEW p \in Procs, NEW S \in SUBSET Users, Begin(p, S)
    PROVE  IInv'
<1>1. UNCHANGED <<provider, users, asked, props, locked>> /\ pc[p] = "idle"
    BY DEF Begin
<1>2. Grows
    BY <1>1, SameGrows DEF IInv
<1>3. RowsShowHistory'
    BY <1>1, <1>2, RowsKept
<1>4. ProposalsCurrent'
    BY <1>1 DEF IInv, ProposalsCurrent
<1>5. StampsDistinct'
    BY <1>1 DEF IInv, StampsDistinct
<1>6. asked[p] = {} /\ locked[p] = {}
    BY <1>1 DEF IInv, LocksHold
<1>7. LocksHold'
  <2>1. /\ pc'[p] = "reading" /\ \A q \in Procs \ {p} : pc'[q] = pc[q] /\ work'[q] = work[q]
    BY DEF Begin, IInv, TypeOK
  <2>2. \A u \in Users : BaselineOf(users[u])' = BaselineOf(users[u])
    BY <1>1 DEF BaselineOf
  <2>3. \A q \in Procs : locked[q] \subseteq Users
    BY DEF IInv, TypeOK
  <2> SUFFICES ASSUME NEW q \in Procs
               PROVE  /\ locked[q] \subseteq work'[q]
                      /\ asked[q] \subseteq work'[q]
                      /\ pc'[q] = "idle" => work'[q] = {}
                      /\ pc'[q] \in {"applying", "applied"} => asked[q] = work'[q]
                      /\ pc'[q] = "applied" => locked[q] = work'[q]
                      /\ pc'[q] \in {"idle", "reading", "asking"} => locked[q] = {}
                      /\ \A v \in locked[q] : BaselineOf(users[v])' = props[q][v].base
                      /\ \A r \in Procs \ {q} : locked[q] \cap locked[r] = {}
    BY <1>1 DEF LocksHold
  <2>6. /\ locked[q] \subseteq work[q] /\ asked[q] \subseteq work[q]
        /\ pc[q] = "idle" => work[q] = {}
        /\ pc[q] \in {"applying", "applied"} => asked[q] = work[q]
        /\ pc[q] = "applied" => locked[q] = work[q]
        /\ pc[q] \in {"idle", "reading", "asking"} => locked[q] = {}
        /\ \A v \in locked[q] : BaselineOf(users[v]) = props[q][v].base
        /\ \A r \in Procs \ {q} : locked[q] \cap locked[r] = {}
    BY DEF IInv, LocksHold
  <2>4. CASE q = p
    BY <1>6, <2>1, <2>4, <2>6
  <2>5. CASE q # p
    BY <2>1, <2>2, <2>3, <2>5, <2>6
  <2> QED BY <2>4, <2>5
<1> QED BY <1>3, <1>4, <1>5, <1>7 DEF IInv

\* Reading the baseline of the next participant completes no proposal yet.
LEMMA ReadBaselineInv ==
    ASSUME IInv, TypeOK', NEW p \in Procs, ReadBaseline(p)
    PROVE  IInv'
<1>1. PICK u \in work[p] : /\ u \notin asked[p]
                           /\ props' = [props EXCEPT ![p][u].base = BaselineOf(users[u])]
    BY DEF ReadBaseline, FirstOf
<1>0. TypeOK /\ LocksHold
    BY DEF IInv
<1>2. /\ UNCHANGED <<provider, users, work, asked, locked>>
      /\ pc[p] = "reading" /\ pc' = [pc EXCEPT ![p] = "asking"]
      /\ u \in Users
    BY <1>0 DEF ReadBaseline, TypeOK
<1>3. \A q \in Procs, v \in Users : ~(q = p /\ v = u) => props'[q][v] = props[q][v]
    BY <1>0, <1>1, <1>2 DEF TypeOK
<1>4. props'[p][u].at = props[p][u].at /\ props'[p][u].base.stamp = users[u].stamp
  <2>1. props[p][u] \in Proposal
    <3>1. props \in [Procs -> [Users -> Proposal]] /\ u \in Users
      BY <1>0, <1>2 DEF TypeOK
    <3> QED BY <3>1
  <2>2. props'[p][u] = [props[p][u] EXCEPT !.base = BaselineOf(users[u])]
    BY <1>0, <1>1, <1>2 DEF TypeOK
  <2>3. BaselineOf(users[u]).stamp = users[u].stamp
    BY DEF BaselineOf
  <2> QED BY <2>1, <2>2, <2>3 DEF Proposal
<1>5. Grows
    BY <1>2, SameGrows DEF IInv
<1>6. RowsShowHistory'
    BY RowsKept, <1>2, <1>5
<1>7. \A q \in Procs : \A v \in asked[q] : v \in Users /\ props'[q][v] = props[q][v]
    BY <1>0, <1>1, <1>3 DEF TypeOK
<1>8. ProposalsCurrent'
    BY <1>2, <1>7, SMTT(20) DEF IInv, ProposalsCurrent
<1>9. StampsDistinct'
  <2> SUFFICES ASSUME NEW q \in Procs, NEW v \in asked[q]
               PROVE  /\ props'[q][v].at \in Stamps
                      /\ props'[q][v].at # users[v].stamp
                      /\ \A r \in Procs :
                            /\ props'[r][v].base.stamp # props'[q][v].at
                            /\ r # q /\ v \in asked[r] => props'[r][v].at # props'[q][v].at
    BY <1>2 DEF StampsDistinct
  <2>1. props[q][v].at \in Stamps /\ props[q][v].at # users[v].stamp
    BY DEF IInv, StampsDistinct
  <2>2. ASSUME NEW r \in Procs
        PROVE  /\ props'[r][v].base.stamp # props'[q][v].at
               /\ r # q /\ v \in asked[r] => props'[r][v].at # props'[q][v].at
    <3>1. /\ props[r][v].base.stamp # props[q][v].at
          /\ r # q /\ v \in asked[r] => props[r][v].at # props[q][v].at
      BY DEF IInv, StampsDistinct
    <3>2. CASE r = p /\ v = u
      BY <1>4, <1>7, <2>1, <3>1, <3>2
    <3>3. CASE ~(r = p /\ v = u)
      BY <1>3, <1>7, <3>1, <3>3
    <3> QED BY <3>2, <3>3
  <2> QED BY <1>7, <2>1, <2>2
<1>10. LocksHold'
  <2>1. locked[p] = {} /\ pc'[p] = "asking" /\ \A q \in Procs \ {p} : pc'[q] = pc[q]
    BY <1>0, <1>2 DEF LocksHold, TypeOK
  <2>2. \A v \in Users : BaselineOf(users[v])' = BaselineOf(users[v])
    BY <1>2 DEF BaselineOf
  <2>3. \A q \in Procs : \A v \in locked[q] : v \in Users /\ props'[q][v] = props[q][v]
    BY <1>0, <1>3, <2>1 DEF TypeOK
  <2> SUFFICES ASSUME NEW q \in Procs
               PROVE  /\ locked[q] \subseteq work[q]
                      /\ asked[q] \subseteq work[q]
                      /\ pc'[q] = "idle" => work[q] = {}
                      /\ pc'[q] \in {"applying", "applied"} => asked[q] = work[q]
                      /\ pc'[q] = "applied" => locked[q] = work[q]
                      /\ pc'[q] \in {"idle", "reading", "asking"} => locked[q] = {}
                      /\ \A v \in locked[q] : BaselineOf(users[v])' = props'[q][v].base
                      /\ \A r \in Procs \ {q} : locked[q] \cap locked[r] = {}
    BY <1>2 DEF LocksHold
  <2>4. CASE q = p
    BY <1>0, <2>1, <2>4 DEF LocksHold
  <2>5. CASE q # p
    <3>1. pc'[q] = pc[q]
      BY <2>1, <2>5
    <3>2. \A v \in locked[q] : BaselineOf(users[v])' = props'[q][v].base
      BY <1>0, <2>2, <2>3 DEF LocksHold
    <3> QED BY <1>0, <3>1, <3>2 DEF LocksHold
  <2> QED BY <2>4, <2>5
<1> QED BY <1>6, <1>8, <1>9, <1>10 DEF IInv

\* Locking a row that is still at the baseline keeps the locks exclusive.
LEMMA ApplyUserInv ==
    ASSUME IInv, TypeOK', NEW p \in Procs, ApplyUser(p)
    PROVE  IInv'
<1>1. PICK u \in work[p] :
          /\ Unlocked(u) /\ BaselineOf(users[u]) = props[p][u].base
          /\ locked' = [locked EXCEPT ![p] = @ \cup {u}]
          /\ pc' = [pc EXCEPT ![p] = IF locked[p] \cup {u} = work[p] THEN "applied" ELSE @]
    BY DEF ApplyUser
<1>2. UNCHANGED <<provider, users, work, asked, props>> /\ pc[p] = "applying"
    BY DEF ApplyUser
<1>3. Grows
    BY <1>2, SameGrows DEF IInv
<1>4. RowsShowHistory'
    BY RowsKept, <1>2, <1>3
<1>5. ProposalsCurrent' /\ StampsDistinct'
    BY <1>2 DEF IInv, ProposalsCurrent, StampsDistinct
<1>6. LocksHold'
  <2>1. /\ locked'[p] = locked[p] \cup {u}
        /\ pc'[p] \in {"applying", "applied"} /\ (pc'[p] = "applied" => locked'[p] = work[p])
        /\ \A q \in Procs \ {p} : locked'[q] = locked[q] /\ pc'[q] = pc[q]
    BY <1>1, <1>2 DEF IInv, TypeOK
  <2>2. \A v \in Users : BaselineOf(users[v])' = BaselineOf(users[v])
    BY <1>2 DEF BaselineOf
  <2>3. \A q \in Procs : u \notin locked[q] /\ locked[q] \subseteq Users /\ work[q] \subseteq Users
    BY <1>1 DEF Unlocked, IInv, TypeOK
  <2> SUFFICES ASSUME NEW q \in Procs
               PROVE  /\ locked'[q] \subseteq work[q]
                      /\ asked[q] \subseteq work[q]
                      /\ pc'[q] = "idle" => work[q] = {}
                      /\ pc'[q] \in {"applying", "applied"} => asked[q] = work[q]
                      /\ pc'[q] = "applied" => locked'[q] = work[q]
                      /\ pc'[q] \in {"idle", "reading", "asking"} => locked'[q] = {}
                      /\ \A v \in locked'[q] : BaselineOf(users[v])' = props[q][v].base
                      /\ \A r \in Procs \ {q} : locked'[q] \cap locked'[r] = {}
    BY <1>2 DEF LocksHold
  <2>4. CASE q = p
    <3>1. \A r \in Procs \ {q} : locked'[q] \cap locked'[r] = {}
      BY <2>1, <2>3, <2>4 DEF IInv, LocksHold
    <3>2. \A v \in locked'[q] : BaselineOf(users[v])' = props[q][v].base
      <4> SUFFICES ASSUME NEW v \in locked'[q] PROVE BaselineOf(users[v])' = props[q][v].base
        OBVIOUS
      <4>1. v \in Users
        BY <2>1, <2>3, <2>4
      <4>2. CASE v = u
        BY <1>1, <2>2, <2>4, <4>1, <4>2
      <4>3. CASE v \in locked[p]
        BY <2>2, <2>4, <4>1, <4>3 DEF IInv, LocksHold
      <4> QED BY <2>1, <2>4, <4>2, <4>3
    <3> QED BY <1>2, <2>1, <2>4, <3>1, <3>2 DEF IInv, LocksHold
  <2>5. CASE q # p
    <3>1. \A r \in Procs \ {q} : locked'[q] \cap locked'[r] = {}
      <4> SUFFICES ASSUME NEW r \in Procs \ {q} PROVE locked'[q] \cap locked'[r] = {}
        OBVIOUS
      <4>1. locked[q] \cap locked[r] = {}
        BY DEF IInv, LocksHold
      <4> QED BY <2>1, <2>3, <2>5, <4>1
    <3>2. \A v \in locked'[q] : BaselineOf(users[v])' = props[q][v].base
      BY <2>1, <2>2, <2>3, <2>5 DEF IInv, LocksHold
    <3> QED BY <2>1, <2>5, <3>1, <3>2 DEF IInv, LocksHold
  <2> QED BY <2>4, <2>5
<1> QED BY <1>4, <1>5, <1>6 DEF IInv

\* Every step keeps the inductive invariant.
LEMMA SafetyStep == IInv /\ [Next]_vars => IInv'
<1> SUFFICES ASSUME IInv, [Next]_vars PROVE IInv'
    OBVIOUS
<1>1. TypeOK /\ TypeOK'
    BY TypeStep DEF IInv
<1>2. \A u \in Users : provider[u] \in Seq(Content) /\ provider'[u] \in Seq(Content)
    BY <1>1 DEF TypeOK
<1>3. ASSUME UNCHANGED provider PROVE Grows
    BY <1>1, <1>3, SameGrows
<1>4. ASSUME NEW p \in Procs, NEW S \in SUBSET Users, Begin(p, S) PROVE IInv'
    BY <1>1, <1>4, BeginInv
<1>5. ASSUME NEW p \in Procs, ReadBaseline(p) PROVE IInv'
    BY <1>1, <1>5, ReadBaselineInv
<1>6. ASSUME NEW p \in Procs, KnownCustomer(p) PROVE IInv'
  <2>1. PICK u \in work[p] :
            /\ u \notin asked[p] /\ provider[u] # <<>>
            /\ Answered(p, u, Len(provider[u]), provider[u][Len(provider[u])])
    BY <1>6 DEF KnownCustomer, FirstOf
  <2>2. pc[p] = "asking" /\ UNCHANGED <<provider, users, work, locked>> /\ u \in Users
    BY <1>1, <1>6 DEF KnownCustomer, TypeOK
  <2>3. Len(provider'[u]) \in Nat /\ Len(provider'[u]) > 0
    BY <1>2, <2>1, <2>2
  <2>4. Answered(p, u, Len(provider'[u]), provider'[u][Len(provider'[u])])
    BY <2>1, <2>2
  <2>5. Grows
    BY <1>3, <2>2
  <2> QED BY <1>1, <2>1, <2>2, <2>3, <2>4, <2>5, AnswerInv
<1>7. ASSUME NEW p \in Procs, CreatedCustomer(p) PROVE IInv'
  <2>1. PICK u \in work[p] :
            /\ u \notin asked[p] /\ provider[u] = <<>>
            /\ provider' = [provider EXCEPT ![u] = <<Blank>>]
            /\ Answered(p, u, 1, Blank)
    BY <1>7 DEF CreatedCustomer, FirstOf
  <2>2. pc[p] = "asking" /\ UNCHANGED <<users, work, locked>> /\ u \in Users
    BY <1>1, <1>7 DEF CreatedCustomer, TypeOK
  <2>3. provider'[u] = <<Blank>>
    BY <1>1, <2>1, <2>2 DEF TypeOK
  <2>4. Len(provider'[u]) = 1 /\ provider'[u][1] = Blank
    BY <2>3
  <2>5. Grows
    BY <1>1, <2>1, <2>2, CreateGrows
  <2> QED BY <1>1, <2>1, <2>2, <2>4, <2>5, AnswerInv
<1>8. ASSUME NEW p \in Procs, CreatedThenFails(p) PROVE IInv'
  <2>1. PICK u \in work[p] : /\ provider[u] = <<>>
                             /\ provider' = [provider EXCEPT ![u] = <<Blank>>]
    BY <1>8 DEF CreatedThenFails
  <2>2. RolledBack(p) /\ UNCHANGED users /\ u \in Users
    BY <1>1, <1>8 DEF CreatedThenFails, TypeOK
  <2> QED BY <1>1, <2>1, <2>2, CreateGrows, LeaveInv
<1>9. ASSUME NEW p \in Procs, RateLimited(p) \/ Fails(p) \/ Conflict(p) PROVE IInv'
  <2>1. RolledBack(p) /\ UNCHANGED <<provider, users>>
    BY <1>9 DEF RateLimited, Fails, Conflict
  <2> QED BY <1>1, <1>3, <2>1, LeaveInv
<1>10. ASSUME NEW p \in Procs, ApplyUser(p) PROVE IInv'
    BY <1>1, <1>10, ApplyUserInv
<1>11. ASSUME NEW p \in Procs, Commit(p) PROVE IInv'
  <2>1. RolledBack(p) /\ UNCHANGED provider /\ users' = ProjectedRows(p) /\ pc[p] = "applied"
    BY <1>11 DEF Commit
  <2>2. locked[p] = work[p] /\ asked[p] = work[p]
    BY <2>1 DEF IInv, LocksHold
  <2>3. \A u \in Users : \/ users'[u] = users[u]
                         \/ /\ u \in locked[p] /\ u \in asked[p]
                            /\ users'[u] = Projected(u, users[u], props[p][u])
    BY <2>1, <2>2 DEF ProjectedRows
  <2> QED BY <1>1, <1>3, <2>1, <2>3, LeaveInv
<1>12. ASSUME NEW u \in Users, CustomerChanges(u) PROVE IInv'
  <2>1. PICK c \in Content : provider' = [provider EXCEPT ![u] = Append(@, c)]
    BY <1>12 DEF CustomerChanges
  <2>2. Grows
    BY <1>1, <2>1, AppendGrows
  <2> QED BY <1>1, <1>12, <2>2, QuietInv DEF CustomerChanges
<1>13. ASSUME NEW u \in Users, ProfileSync(u) PROVE IInv'
  <2>1. PICK c \in [pref : Prefs, ads : BOOLEAN, marks : BOOLEAN] :
            users' = [users EXCEPT ![u] = MergedSettings(users[u], c)]
    BY <1>13 DEF ProfileSync
  <2>2. users[u] \in Row
    BY <1>1 DEF TypeOK
  <2>3. \A v \in Users : /\ users'[v].ver = users[v].ver /\ users'[v].plan = users[v].plan
                         /\ users'[v].ads = users[v].ads /\ users'[v].stamp = users[v].stamp
    BY <1>1, <2>1, <2>2 DEF TypeOK, MergedSettings, Row
  <2>4. UNCHANGED <<provider, procVars>>
    BY <1>13 DEF ProfileSync
  <2> QED BY <1>1, <1>3, <2>3, <2>4, QuietInv
<1>14. ASSUME NEW u \in Users, SetDeleted(u) PROVE IInv'
  <2>1. users' = [users EXCEPT ![u].alive = ~@]
    BY <1>14 DEF SetDeleted
  <2>2. users[u] \in Row
    BY <1>1 DEF TypeOK
  <2>3. \A v \in Users : /\ users'[v].ver = users[v].ver /\ users'[v].plan = users[v].plan
                         /\ users'[v].ads = users[v].ads /\ users'[v].stamp = users[v].stamp
    BY <1>1, <2>1, <2>2 DEF TypeOK, Row
  <2>4. UNCHANGED <<provider, procVars>>
    BY <1>14 DEF SetDeleted
  <2> QED BY <1>1, <1>3, <2>3, <2>4, QuietInv
<1>15. CASE CooldownTicks \/ UNCHANGED vars
  <2>1. UNCHANGED <<provider, users, procVars>>
    BY <1>15 DEF CooldownTicks, vars, procVars
  <2> QED BY <1>1, <1>3, <2>1, QuietInv
<1> QED BY <1>4, <1>5, <1>6, <1>7, <1>8, <1>9, <1>10, <1>11, <1>12, <1>13, <1>14, <1>15
        DEF Next, ProcStep

\* Idle processes and unverified rows satisfy the inductive invariant.
LEMMA SafetyInit == Init => IInv
<1> SUFFICES ASSUME Init PROVE IInv
    OBVIOUS
<1>1. TypeOK
    BY TypeInit
<1>2. \A u \in Users : users[u].ver = 0 /\ Len(provider[u]) \in Nat
  <2>1. \A u \in Users : users[u].ver = 0
    BY DEF Init
  <2>2. \A u \in Users : provider[u] \in Seq(Content)
    BY <1>1 DEF TypeOK
  <2> QED BY <2>1, <2>2
<1>3. RowsShowHistory
    BY <1>2 DEF RowsShowHistory
<1>4. ProposalsCurrent /\ StampsDistinct /\ LocksHold
    BY DEF Init, ProposalsCurrent, StampsDistinct, LocksHold
<1> QED BY <1>1, <1>3, <1>4 DEF IInv

\* The invariant of the compare-and-set holds in every reachable state.
THEOREM Invariance == Spec => []IInv
<1> QED BY SafetyInit, SafetyStep, PTL DEF Spec

\* A verified row shows a state RevenueCat held, in every reachable state.
THEOREM RowsFaithful == Spec => []RowsShowHistory
<1>1. IInv => RowsShowHistory
    BY DEF IInv
<1> QED BY <1>1, Invariance, PTL

\* A proposal that can still be applied is never older than the row.
THEOREM ProposalsNeverStale == Spec => []ProposalsCurrent
<1>1. IInv => ProposalsCurrent
    BY DEF IInv
<1> QED BY <1>1, Invariance, PTL

-----------------------------------------------------------------------------
(* Reconcile implements Entitlement. *)

\* A step that keeps the compared columns and the client's key is invisible.
LEMMA RowsSame ==
    ASSUME UNCHANGED provider,
           \A u \in Users : /\ users'[u].plan = users[u].plan /\ users'[u].ads = users[u].ads
                            /\ users'[u].pref = users[u].pref /\ users'[u].ver = users[u].ver
    PROVE  UNCHANGED Ledger!ledgerVars
<1>1. LedgerRows' = LedgerRows
    BY DEF LedgerRows
<1> QED BY <1>1 DEF Ledger!ledgerVars

\* A process works on users.
LEMMA WorkOnUsers == TypeOK => \A p \in Procs : work[p] \subseteq Users
BY DEF TypeOK

\* The committed rows of one transaction are one Verify step of the ledger.
LEMMA CommitVerifies ==
    ASSUME IInv, NEW p \in Procs, Commit(p)
    PROVE  Ledger!Verify(work[p])
<1>1. /\ users' = ProjectedRows(p) /\ UNCHANGED provider
      /\ asked[p] = work[p] /\ locked[p] = work[p] /\ work[p] \subseteq Users
  <2>1. users' = ProjectedRows(p) /\ UNCHANGED provider /\ pc[p] = "applied"
    BY DEF Commit
  <2>2. asked[p] = work[p] /\ locked[p] = work[p]
    BY <2>1 DEF IInv, LocksHold
  <2>3. work[p] \subseteq Users
    BY WorkOnUsers DEF IInv
  <2> QED BY <2>1, <2>2, <2>3
<1>2. ASSUME NEW u \in work[p]
      PROVE  \E n \in 1..Len(provider[u]) :
                /\ LedgerRows[u].ver <= n
                /\ LedgerRows'[u] = [plan |-> provider[u][n].plan, ads |-> provider[u][n].ads,
                                     pref |-> LedgerRows[u].pref, ver |-> n]
  <2> DEFINE n == props[p][u].ver
  <2>1. u \in Users /\ users'[u] = Projected(u, users[u], props[p][u])
    BY <1>1 DEF ProjectedRows
  <2>2. users[u] \in Row
    BY <2>1 DEF IInv, TypeOK
  <2>3. BaselineOf(users[u]) = props[p][u].base
    BY <1>1 DEF IInv, LocksHold
  <2>4. /\ n \in 1..Len(provider[u]) /\ props[p][u].snap = provider[u][n]
        /\ props[p][u].base.stamp = users[u].stamp => users[u].ver <= n
    BY <1>1 DEF IInv, ProposalsCurrent
  <2>5. users[u].ver <= n
    BY <2>3, <2>4 DEF BaselineOf
  <2>6. users'[u].pref = users[u].pref /\ users'[u].ver = n
    BY <2>1, <2>2 DEF Projected, Row
  <2>7. users'[u].plan = provider[u][n].plan /\ users'[u].ads = provider[u][n].ads
    <3>1. CASE Changed(props[p][u])
      BY <2>1, <2>2, <2>4, <3>1 DEF Projected, Row
    <3>2. CASE ~Changed(props[p][u])
      <4>1. users'[u].plan = users[u].plan /\ users'[u].ads = users[u].ads
        BY <2>1, <2>2, <3>2 DEF Projected, Row
      <4>2. props[p][u].snap = [plan |-> props[p][u].base.plan, ads |-> props[p][u].base.ads]
        BY <3>2 DEF Changed
      <4> QED BY <2>3, <2>4, <4>1, <4>2 DEF BaselineOf
    <3> QED BY <3>1, <3>2
  <2>8. LedgerRows[u].ver = users[u].ver /\ LedgerRows[u].pref = users[u].pref
    BY <2>1 DEF LedgerRows
  <2>9. LedgerRows'[u] = [plan |-> users'[u].plan, ads |-> users'[u].ads,
                          pref |-> users'[u].pref, ver |-> users'[u].ver]
    BY <2>1 DEF LedgerRows
  <2> HIDE DEF n
  <2>10. LedgerRows'[u] = [plan |-> provider[u][n].plan, ads |-> provider[u][n].ads,
                           pref |-> LedgerRows[u].pref, ver |-> n]
    BY <2>6, <2>7, <2>8, <2>9
  <2>11. n \in 1..Len(provider[u]) /\ LedgerRows[u].ver <= n
    BY <2>4, <2>5, <2>8
  <2> QED BY <2>10, <2>11, Zenon
<1>3. \A u \in Users \ work[p] : LedgerRows'[u] = LedgerRows[u]
    BY <1>1 DEF ProjectedRows, LedgerRows
<1> QED BY <1>1, <1>2, <1>3 DEF Ledger!Verify

\* Every step of the processes is a step of the ledger or leaves it alone.
LEMMA LedgerStep == IInv /\ [Next]_vars => [Ledger!LedgerNext]_Ledger!ledgerVars
<1> SUFFICES ASSUME IInv, [Next]_vars PROVE [Ledger!LedgerNext]_Ledger!ledgerVars
    OBVIOUS
<1>1. TypeOK
    BY DEF IInv
<1>2. ASSUME UNCHANGED <<provider, users>> PROVE UNCHANGED Ledger!ledgerVars
    BY <1>2, RowsSame
<1>3. ASSUME NEW u \in Users, NEW c \in Content,
             provider' = [provider EXCEPT ![u] = Append(@, c)], UNCHANGED users
      PROVE  Ledger!LedgerNext
  <2>1. LedgerRows' = LedgerRows
    BY <1>3 DEF LedgerRows
  <2>2. c \in Ledger!Content
    BY DEF Ledger!Content, Content
  <2>3. Ledger!CustomerChanges(u)
    BY <1>3, <2>1, <2>2 DEF Ledger!CustomerChanges
  <2> QED BY <2>3 DEF Ledger!LedgerNext
<1>4. ASSUME NEW u \in Users, provider[u] = <<>>,
             provider' = [provider EXCEPT ![u] = <<Blank>>], UNCHANGED users
      PROVE  Ledger!LedgerNext
  <2>1. Blank \in Content
    BY DEF Blank, Content
  <2>2. Append(provider[u], Blank) = <<Blank>>
    BY <1>4
  <2>3. provider' = [provider EXCEPT ![u] = Append(@, Blank)]
    BY <1>4, <2>2
  <2> QED BY <1>3, <1>4, <2>1, <2>3
<1>5. ASSUME NEW p \in Procs, NEW S \in SUBSET Users, Begin(p, S)
      PROVE  [Ledger!LedgerNext]_Ledger!ledgerVars
    BY <1>2, <1>5 DEF Begin
<1>6. ASSUME NEW p \in Procs,
             \/ ReadBaseline(p) \/ KnownCustomer(p) \/ ApplyUser(p)
             \/ RateLimited(p) \/ Fails(p) \/ Conflict(p)
      PROVE  [Ledger!LedgerNext]_Ledger!ledgerVars
    BY <1>2, <1>6 DEF ReadBaseline, KnownCustomer, ApplyUser, RateLimited, Fails, Conflict
<1>7. ASSUME NEW p \in Procs, CreatedCustomer(p) \/ CreatedThenFails(p)
      PROVE  [Ledger!LedgerNext]_Ledger!ledgerVars
  <2>1. PICK u \in work[p] : /\ provider[u] = <<>>
                             /\ provider' = [provider EXCEPT ![u] = <<Blank>>]
    BY <1>7 DEF CreatedCustomer, CreatedThenFails
  <2>2. u \in Users /\ UNCHANGED users
    BY <1>1, <1>7 DEF TypeOK, CreatedCustomer, CreatedThenFails
  <2> QED BY <1>4, <2>1, <2>2
<1>8. ASSUME NEW p \in Procs, Commit(p) PROVE [Ledger!LedgerNext]_Ledger!ledgerVars
  <2>1. work[p] \in SUBSET Users
    BY <1>1 DEF TypeOK
  <2> QED BY <1>8, <2>1, CommitVerifies DEF Ledger!LedgerNext
<1>9. ASSUME NEW u \in Users, CustomerChanges(u) PROVE [Ledger!LedgerNext]_Ledger!ledgerVars
    BY <1>3, <1>9 DEF CustomerChanges
<1>10. ASSUME NEW u \in Users, ProfileSync(u) PROVE [Ledger!LedgerNext]_Ledger!ledgerVars
  <2>1. PICK c \in [pref : Prefs, ads : BOOLEAN, marks : BOOLEAN] :
            users' = [users EXCEPT ![u] = MergedSettings(users[u], c)]
    BY <1>10 DEF ProfileSync
  <2>2. c.pref \in Prefs /\ \A v \in Users : users[v] \in Row
    BY <1>1, <2>1 DEF TypeOK
  <2>3. /\ users'[u].pref = c.pref /\ users'[u].plan = users[u].plan
        /\ users'[u].ads = users[u].ads /\ users'[u].ver = users[u].ver
    BY <1>1, <2>1, <2>2 DEF TypeOK, MergedSettings, Row
  <2>4. \A v \in Users \ {u} : users'[v] = users[v]
    BY <1>1, <2>1 DEF TypeOK
  <2>5. LedgerRows' = [LedgerRows EXCEPT ![u].pref = c.pref]
    BY <2>3, <2>4 DEF LedgerRows
  <2>6. Ledger!Prefer(u)
    BY <1>10, <2>2, <2>5 DEF ProfileSync, Ledger!Prefer
  <2> QED BY <2>6 DEF Ledger!LedgerNext
<1>11. ASSUME NEW u \in Users, SetDeleted(u) PROVE [Ledger!LedgerNext]_Ledger!ledgerVars
  <2>1. users' = [users EXCEPT ![u].alive = ~@] /\ UNCHANGED provider
    BY <1>11 DEF SetDeleted
  <2>2. users[u] \in Row
    BY <1>1 DEF TypeOK
  <2>3. \A v \in Users : /\ users'[v].plan = users[v].plan /\ users'[v].ads = users[v].ads
                         /\ users'[v].pref = users[v].pref /\ users'[v].ver = users[v].ver
    BY <1>1, <2>1, <2>2 DEF TypeOK, Row
  <2> QED BY <2>1, <2>3, RowsSame
<1>12. CASE CooldownTicks \/ UNCHANGED vars
    BY <1>2, <1>12 DEF CooldownTicks, vars
<1> QED BY <1>5, <1>6, <1>7, <1>8, <1>9, <1>10, <1>11, <1>12 DEF Next, ProcStep

\* The reconciling processes implement the entitlement ledger: whatever they
\* interleave, retry or lose, a row only ever moves forward through states
\* RevenueCat held, and the rows of one webhook move together.
THEOREM Refinement == Spec => ImplementsLedger
<1>1. Init => Ledger!LedgerInit
  <2> SUFFICES ASSUME Init PROVE Ledger!LedgerInit
    OBVIOUS
  <2>1. provider \in [Users -> Seq(Ledger!Content)]
    BY TypeInit DEF TypeOK, Content, Ledger!Content
  <2>2. \A u \in Users : LedgerRows[u].ver = 0
    BY DEF Init, LedgerRows
  <2> QED BY <2>1, <2>2 DEF Ledger!LedgerInit
<1> QED BY <1>1, LedgerStep, Invariance, PTL DEF Spec, ImplementsLedger, Ledger!LedgerSpec

-----------------------------------------------------------------------------
(* Row locks, downgrade marks and the cooldown. *)

\* Rows are locked from the smallest id up: a process has no row left to lock
\* that is smaller than one it holds (_webhook_user_ids).
LockedInOrder == \A p \in Procs : \A u \in locked[p], v \in work[p] \ locked[p] : u < v

\* A step of p that takes no lock keeps the order: p ends, or holds none yet.
LEMMA OrderKept ==
    ASSUME TypeOK, LockedInOrder, NEW p \in Procs,
           \A q \in Procs \ {p} : work'[q] = work[q] /\ locked'[q] = locked[q],
           locked'[p] = {} \/ (work'[p] = work[p] /\ locked'[p] = locked[p])
    PROVE  LockedInOrder'
BY DEF LockedInOrder

\* Every step keeps the order.
LEMMA OrderStep == IInv /\ LockedInOrder /\ [Next]_vars => LockedInOrder'
<1> SUFFICES ASSUME IInv, LockedInOrder, [Next]_vars PROVE LockedInOrder'
    OBVIOUS
<1>1. TypeOK
    BY DEF IInv
<1>2. work \in [Procs -> SUBSET Users] /\ locked \in [Procs -> SUBSET Users]
    BY <1>1 DEF TypeOK
<1>3. ASSUME NEW p \in Procs, RolledBack(p) PROVE LockedInOrder'
    BY <1>1, <1>2, <1>3, OrderKept DEF RolledBack
<1>4. ASSUME NEW p \in Procs, NEW S \in SUBSET Users, Begin(p, S) PROVE LockedInOrder'
  <2>1. locked[p] = {}
    BY <1>4 DEF Begin, IInv, LocksHold
  <2> QED BY <1>1, <1>2, <1>4, <2>1, OrderKept DEF Begin
<1>5. ASSUME NEW p \in Procs, ApplyUser(p) PROVE LockedInOrder'
  <2>1. PICK u \in work[p] : /\ FirstOf(u, work[p] \ locked[p])
                             /\ locked' = [locked EXCEPT ![p] = @ \cup {u}]
    BY <1>5 DEF ApplyUser
  <2>2. UNCHANGED work
    BY <1>5 DEF ApplyUser
  <2>3. u \in Nat /\ work[p] \subseteq Nat
    BY <1>2
  <2>4. \A v \in work[p] \ (locked[p] \cup {u}) : u < v
    BY <2>1, <2>3 DEF FirstOf
  <2>5. \A w \in locked'[p], v \in work'[p] \ locked'[p] : w < v
    BY <1>2, <2>1, <2>2, <2>4 DEF LockedInOrder
  <2>6. \A q \in Procs \ {p} : work'[q] = work[q] /\ locked'[q] = locked[q]
    BY <1>2, <2>1, <2>2
  <2> QED BY <2>5, <2>6 DEF LockedInOrder
<1>6. ASSUME UNCHANGED <<work, locked>> PROVE LockedInOrder'
    BY <1>6 DEF LockedInOrder
<1>7. ASSUME NEW p \in Procs, CreatedThenFails(p) \/ RateLimited(p) \/ Fails(p) \/ Conflict(p) \/ Commit(p)
      PROVE  LockedInOrder'
    BY <1>3, <1>7 DEF CreatedThenFails, RateLimited, Fails, Conflict, Commit
<1>8. ASSUME NEW p \in Procs, ReadBaseline(p) \/ KnownCustomer(p) \/ CreatedCustomer(p)
      PROVE  LockedInOrder'
    BY <1>6, <1>8 DEF ReadBaseline, KnownCustomer, CreatedCustomer
<1>9. ASSUME NEW u \in Users, CustomerChanges(u) \/ ProfileSync(u) \/ SetDeleted(u)
      PROVE  LockedInOrder'
    BY <1>6, <1>9 DEF CustomerChanges, ProfileSync, SetDeleted, procVars
<1>10. CASE CooldownTicks \/ UNCHANGED vars
    BY <1>6, <1>10 DEF CooldownTicks, procVars, vars
<1> QED BY <1>4, <1>5, <1>7, <1>8, <1>9, <1>10 DEF Next, ProcStep

\* Two transactions never wait for each other's rows: each would hold a row
\* smaller than the one it waits for (apply_reconciliation, process_webhook).
THEOREM NoDeadlock == Spec => []NoLockCycle
<1>1. Init => LockedInOrder
    BY DEF Init, LockedInOrder
<1>2. IInv /\ LockedInOrder => NoLockCycle
  <2> SUFFICES ASSUME IInv, LockedInOrder, NEW p \in Procs, NEW q \in Procs,
                      WaitsFor(p, q), WaitsFor(q, p)
               PROVE  FALSE
      BY DEF NoLockCycle
  <2>1. PICK u \in locked[q] : u \in work[p] \ locked[p]
      BY DEF WaitsFor, FirstOf
  <2>2. PICK v \in locked[p] : v \in work[q] \ locked[q]
      BY DEF WaitsFor, FirstOf
  <2>3. v < u /\ u < v
      BY <2>1, <2>2 DEF LockedInOrder
  <2>4. u \in Nat /\ v \in Nat
      BY <2>1, <2>2 DEF IInv, TypeOK
  <2> QED BY <2>3, <2>4
<1> QED BY <1>1, <1>2, OrderStep, Invariance, PTL DEF Spec

\* A premium account never carries downgrade marks: an upgrade clears them and
\* the compare-and-set keeps a downgrade's marks off a row that moved on
\* (apply_free_tier_limits, clear_limits_exceeded).
THEOREM PremiumUnmarked == Spec => []PremiumHasNoDowngradeMarks
<1>1. Init => PremiumHasNoDowngradeMarks
    BY DEF Init, PremiumHasNoDowngradeMarks
<1>2. IInv /\ PremiumHasNoDowngradeMarks /\ [Next]_vars => PremiumHasNoDowngradeMarks'
  <2> SUFFICES ASSUME IInv, PremiumHasNoDowngradeMarks, [Next]_vars, NEW u \in Users,
                      users'[u].plan # Free
               PROVE  ~users'[u].marks
      BY DEF PremiumHasNoDowngradeMarks
  <2>1. TypeOK /\ users[u] \in Row
      BY DEF IInv, TypeOK
  <2>2. users[u].plan # Free => ~users[u].marks
      BY DEF PremiumHasNoDowngradeMarks
  <2>3. ASSUME NEW p \in Procs, Commit(p) PROVE ~users'[u].marks
    <3> DEFINE pr == props[p][u]
    <3>1. CASE u \notin work[p]
        BY <2>2, <2>3, <3>1 DEF Commit, ProjectedRows
    <3>2. CASE u \in work[p]
      <4>1. users'[u] = Projected(u, users[u], pr)
          BY <2>3, <3>2 DEF Commit, ProjectedRows
      <4>2. BaselineOf(users[u]) = pr.base
          BY <2>3, <3>2 DEF Commit, IInv, LocksHold
      <4>3. pr.base.plan = users[u].plan
          BY <4>2 DEF BaselineOf
      <4>4. CASE ~Changed(pr)
          BY <2>1, <2>2, <4>1, <4>4 DEF Projected, Row
      <4>5. CASE Changed(pr)
        <5>1. users'[u].plan = pr.snap.plan /\ users'[u].marks = MarksAfter(u, users[u], pr)
            BY <2>1, <4>1, <4>5 DEF Projected, Row
        <5>2. pr.snap.plan # Free
            BY <5>1
        <5> QED BY <2>2, <4>3, <5>1, <5>2 DEF MarksAfter
      <4> QED BY <4>4, <4>5
    <3> QED BY <3>1, <3>2
  <2>4. ASSUME NEW v \in Users, ProfileSync(v) PROVE ~users'[u].marks
    <3>1. PICK c : users' = [users EXCEPT ![v] = MergedSettings(users[v], c)]
        BY <2>4 DEF ProfileSync
    <3>2. users[v] \in Row /\ users \in [Users -> Row]
        BY <2>1 DEF TypeOK
    <3>3. users'[u].plan = users[u].plan /\ users'[u].marks = users[u].marks
        BY <3>1, <3>2 DEF MergedSettings, Row
    <3> QED BY <2>2, <3>3
  <2>5. ASSUME NEW v \in Users, SetDeleted(v) PROVE ~users'[u].marks
    <3>1. users' = [users EXCEPT ![v].alive = ~@]
        BY <2>5 DEF SetDeleted
    <3>2. users[v] \in Row /\ users \in [Users -> Row]
        BY <2>1 DEF TypeOK
    <3>3. users'[u].plan = users[u].plan /\ users'[u].marks = users[u].marks
        BY <3>1, <3>2 DEF Row
    <3> QED BY <2>2, <3>3
  <2>6. ASSUME UNCHANGED users PROVE ~users'[u].marks
      BY <2>2, <2>6
  <2>7. ASSUME NEW p \in Procs,
               \/ \E S \in SUBSET Users : Begin(p, S)
               \/ ReadBaseline(p) \/ KnownCustomer(p) \/ CreatedCustomer(p) \/ ApplyUser(p)
               \/ Conflict(p) \/ CreatedThenFails(p) \/ RateLimited(p) \/ Fails(p)
        PROVE  UNCHANGED users
      BY <2>7 DEF Begin, ReadBaseline, KnownCustomer, CreatedCustomer, ApplyUser, Conflict,
         CreatedThenFails, RateLimited, Fails
  <2>8. (\E v \in Users : CustomerChanges(v)) \/ CooldownTicks \/ UNCHANGED vars
           => UNCHANGED users
      BY DEF CustomerChanges, CooldownTicks, vars
  <2> QED BY <2>3, <2>4, <2>5, <2>6, <2>7, <2>8 DEF Next, ProcStep
<1> QED BY <1>1, <1>2, Invariance, PTL DEF Spec

\* A 429 never shortens the cooldown that another process has set: only the
\* passing of time does (_COOLDOWN_SCRIPT).
THEOREM CooldownKept == Spec => CooldownHeld
<1>1. TypeOK /\ [Next]_vars => [cooldown' < cooldown => CooldownTicks]_vars
  <2> SUFFICES ASSUME TypeOK, Next, ~CooldownTicks PROVE ~(cooldown' < cooldown)
      OBVIOUS
  <2>1. cooldown \in Nat
      BY DEF TypeOK
  <2>2. ASSUME NEW p \in Procs, RateLimited(p) PROVE ~(cooldown' < cooldown)
    <3>1. PICK r \in 1..MaxCooldown : cooldown' = RetainedTTL(r)
        BY <2>2 DEF RateLimited
    <3>2. r \in Int
        OBVIOUS
    <3> QED BY <2>1, <3>1, <3>2 DEF RetainedTTL
  <2>3. ASSUME NEW p \in Procs,
               \/ \E S \in SUBSET Users : Begin(p, S)
               \/ ProcStep(p) \/ CreatedThenFails(p) \/ Fails(p)
        PROVE  cooldown' = cooldown
      BY <2>3 DEF Begin, ProcStep, ReadBaseline, KnownCustomer, CreatedCustomer, ApplyUser,
         Conflict, Commit, CreatedThenFails, Fails
  <2>4. ASSUME NEW u \in Users, CustomerChanges(u) \/ ProfileSync(u) \/ SetDeleted(u)
        PROVE  cooldown' = cooldown
      BY <2>4 DEF CustomerChanges, ProfileSync, SetDeleted
  <2> QED BY <2>1, <2>2, <2>3, <2>4 DEF Next
<1> QED BY <1>1, TypeCorrect, PTL DEF Spec, CooldownHeld

-----------------------------------------------------------------------------
(* Evidence: what the parser makes of an answer, and what becomes of it.   *)

\* Every answer the provider can give.
AnswerTyped(a) ==
    /\ a = [entitlements |-> a.entitlements, evidence |-> a.evidence]
    /\ IsFiniteSet(a.entitlements) /\ \A e \in a.entitlements : IsEntitlement(e)
    /\ \A e, f \in a.entitlements : e.id = f.id => e = f
    /\ IsFiniteSet(a.evidence) /\ \A r \in a.evidence : IsPurchase(r)
EvidenceTyped == AnswerTyped(answer) /\ hour \in 0..MaxNow

LEMMA SameEvidenceCardinality == \A S : Evidence!Cardinality(S) = Cardinality(S)
BY DEF Evidence!Cardinality, Cardinality

\* One record says the same of a purchase as another, but may know it refunded.
Follows(s, r) ==
    /\ s.product = r.product /\ s.bought = r.bought /\ s.ends = r.ends
    /\ s.once = r.once /\ s.promo = r.promo /\ s.sandbox = r.sandbox
    /\ s.dead = FALSE => r.dead = FALSE

\* An answer b at the time u that comes of the answer a at the time t while
\* nothing is bought.
ComesOf(b, u, a, t) ==
    /\ AnswerTyped(a) /\ AnswerTyped(b) /\ t \in Int /\ u \in Int /\ t <= u
    /\ b.entitlements = a.entitlements
    /\ \A s \in b.evidence : \E r \in a.evidence : Follows(s, r)
    /\ \A r \in a.evidence : \E s \in b.evidence : Follows(s, r)
    /\ ~Evidence!Doubled(a) => ~Evidence!Doubled(b)

Claimed(a, t) == {Evidence!Of(r) : r \in Evidence!AdsPromotions(a, t)}

\* A finite set of purchases that is not empty has one that lasts longest: a
\* smallest set without one would be larger by one than a set with one.
LEMMA LongestLasts ==
    ASSUME NEW S, IsFiniteSet(S), S # {}, \A r \in S : r.ends \in Int
    PROVE  \E r \in S : \A s \in S : s.ends <= r.ends
<1> DEFINE Longest(T) == \E r \in T : \A s \in T : s.ends <= r.ends
           Bad == {T \in SUBSET S : T # {} /\ ~Longest(T)}
<1> SUFFICES ASSUME Bad # {} PROVE FALSE
    OBVIOUS
<1>1. Bad \subseteq FiniteSubsetsOf(S)
    BY FS_Subset DEF FiniteSubsetsOf
<1>2. IsWellFoundedOn(StrictSubsetOrdering(S), FiniteSubsetsOf(S))
    BY FS_StrictSubsetOrderingWellFounded
<1>3. PICK T \in Bad : \A U \in Bad : ~(<<U, T>> \in StrictSubsetOrdering(S))
  <2> HIDE DEF Bad
  <2> QED BY <1>1, <1>2, WFMin
<1>4. PICK x \in T : TRUE
    OBVIOUS
<1> DEFINE U == T \ {x}
<1>5. U \subseteq T /\ U # T /\ U \in SUBSET S /\ T \in SUBSET S
    BY <1>4
<1>6. <<U, T>> \in StrictSubsetOrdering(S)
    BY <1>5 DEF StrictSubsetOrdering
<1>7. U = {} \/ Longest(U)
    BY <1>3, <1>5, <1>6
<1>8. CASE U = {}
    BY <1>3, <1>4, <1>8
<1>9. CASE Longest(U)
  <2>1. PICK m \in U : \A s \in U : s.ends <= m.ends
      BY <1>9
  <2>2. m.ends \in Int /\ x.ends \in Int
      BY <2>1, <1>5, <1>4
  <2>3. CASE m.ends <= x.ends
    <3>1. \A s \in T : s.ends <= x.ends
      <4>1. ASSUME NEW s \in T PROVE s.ends <= x.ends
        <5>1. s.ends \in Int
            BY <1>5
        <5>2. CASE s = x
            BY <2>2, <5>2
        <5>3. CASE s # x
            BY <2>1, <2>2, <2>3, <5>1, <5>3
        <5> QED BY <5>2, <5>3
      <4> QED BY <4>1
    <3> QED BY <1>3, <1>4, <3>1
  <2>4. CASE x.ends <= m.ends
    <3>1. \A s \in T : s.ends <= m.ends
        BY <2>1, <2>4
    <3> QED BY <1>3, <1>5, <2>1, <3>1
  <2> QED BY <2>2, <2>3, <2>4
<1> QED BY <1>7, <1>8, <1>9

\* A live promotion was one before.
LEMMA PromotionsWere ==
    ASSUME NEW a, NEW b, NEW t, NEW u, ComesOf(b, u, a, t)
    PROVE  /\ \A s \in Evidence!AdsPromotions(b, u) : \E r \in Evidence!AdsPromotions(a, t) : Follows(s, r)
           /\ Claimed(b, u) \subseteq Claimed(a, t)
<1>1. Evidence!The(b, "remove_ads") = Evidence!The(a, "remove_ads")
    BY DEF ComesOf, Evidence!The
<1>2. ASSUME NEW s \in Evidence!Promotions(b, u) PROVE \E r \in Evidence!Promotions(a, t) : Follows(s, r)
  <2>1. s \in b.evidence /\ s.product \in Promotional /\ ~s.once /\ s.promo /\ ~s.dead /\ (Production => ~s.sandbox) /\ s.ends > u
      BY DEF Evidence!Promotions, Evidence!Usable, Evidence!Ahead
  <2>2. PICK r \in a.evidence : Follows(s, r)
      BY <2>1 DEF ComesOf
  <2>3. IsPurchase(s) /\ IsPurchase(r)
      BY <2>1, <2>2 DEF ComesOf, AnswerTyped
  <2>4. r.product \in Promotional /\ ~r.once /\ r.promo /\ ~r.dead /\ (Production => ~r.sandbox)
      BY <2>1, <2>2, <2>3 DEF Follows, IsPurchase
  <2>5. r.ends > t
      BY <2>1, <2>2, <2>3 DEF Follows, IsPurchase, ComesOf
  <2>6. r \in Evidence!Promotions(a, t)
      BY <2>2, <2>4, <2>5 DEF Evidence!Promotions, Evidence!Usable, Evidence!Ahead
  <2> QED BY <2>2, <2>6
<1>3. \A s \in Evidence!AdsPromotions(b, u) : \E r \in Evidence!AdsPromotions(a, t) : Follows(s, r)
    BY <1>1, <1>2 DEF Evidence!AdsPromotions
<1>4. \A s, r : Follows(s, r) => Evidence!Of(s) = Evidence!Of(r)
    BY DEF Follows, Evidence!Of
<1> QED BY <1>3, <1>4 DEF Claimed

LEMMA OneClaims == Evidence!Cardinality({"remove_ads"}) = 1
BY FS_Singleton, SameEvidenceCardinality

\* An entitlement that could be told from the evidence still can.
LEMMA StillTold ==
    ASSUME NEW a, NEW b, NEW t, NEW u, ComesOf(b, u, a, t), ~Evidence!Doubled(a), ~Evidence!AdsRefused(a, t),
           NEW e \in a.entitlements, ~Evidence!Refused(a, e, Claimed(a, t), t)
    PROVE  ~Evidence!Refused(b, e, Claimed(b, u), u)
<1> DEFINE C == Claimed(a, t)
           D == Claimed(b, u)
<1>1. D \subseteq C
    BY PromotionsWere
<1>2. \A of : of \in D \/ of \notin C => Evidence!Owners(b, D, of) = Evidence!Owners(a, C, of)
    BY <1>1 DEF Evidence!Owners, ComesOf
<1>3. \A of : of \notin D => Evidence!Owners(b, D, of) = Evidence!Owners(a, {}, of)
    BY DEF Evidence!Owners, ComesOf
<1>4. \A of \in C : Evidence!Owners(a, {}, of) \in {{}, {"remove_ads"}}
    BY DEF Claimed, Evidence!AdsRefused, Evidence!AdsPromotions
<1>5. Evidence!Owners(a, C, Evidence!Of(e)) = {e.id}
    BY DEF Evidence!Refused
<1>6. Evidence!Owners(b, D, Evidence!Of(e)) = {e.id}
  <2>1. CASE Evidence!Of(e) \in D \/ Evidence!Of(e) \notin C
      BY <1>2, <1>5, <2>1
  <2>2. CASE Evidence!Of(e) \in C \ D
    <3>1. Evidence!Owners(a, C, Evidence!Of(e)) = {"remove_ads"}
        BY <2>2 DEF Evidence!Owners
    <3>2. e.id \in Evidence!Owners(a, {}, Evidence!Of(e))
        BY DEF Evidence!Owners
    <3> HIDE DEF C, D
    <3> QED BY <1>3, <1>4, <1>5, <2>2, <3>1, <3>2
  <2> QED BY <2>1, <2>2
<1>7. \A s, r : Follows(s, r) => Evidence!Of(s) = Evidence!Of(r) /\ (Evidence!Contradicts(e, s) <=> Evidence!Contradicts(e, r))
    BY DEF Follows, Evidence!Of, Evidence!Contradicts
<1>8. Evidence!Candidates(b, e) # {}
  <2>1. PICK r \in a.evidence : Evidence!Of(r) = Evidence!Of(e)
      BY DEF Evidence!Refused, Evidence!Candidates
  <2>2. PICK s \in b.evidence : Follows(s, r)
      BY DEF ComesOf
  <2> QED BY <1>7, <2>1, <2>2 DEF Evidence!Candidates
<1>9. ASSUME NEW s \in Evidence!Candidates(b, e) PROVE ~Evidence!Contradicts(e, s)
  <2>1. s \in b.evidence /\ Evidence!Of(s) = Evidence!Of(e)
      BY DEF Evidence!Candidates
  <2>2. PICK r \in a.evidence : Follows(s, r)
      BY <2>1 DEF ComesOf
  <2>3. r \in Evidence!Candidates(a, e)
      BY <1>7, <2>1, <2>2 DEF Evidence!Candidates
  <2> QED BY <1>7, <2>2, <2>3 DEF Evidence!Refused
<1>10. ASSUME NEW s \in b.evidence, Evidence!Of(s) # Evidence!Of(e), Evidence!Cardinality(Evidence!Owners(b, D, Evidence!Of(s))) # 1,
              ~s.dead, s.ends > u
       PROVE  FALSE
  <2>1. PICK r \in a.evidence : Follows(s, r)
      BY DEF ComesOf
  <2>2. IsPurchase(s) /\ IsPurchase(r)
      BY <2>1 DEF ComesOf, AnswerTyped
  <2>3. ~r.dead /\ r.ends > t /\ Evidence!Of(r) = Evidence!Of(s)
      BY <1>7, <1>10, <2>1, <2>2 DEF Follows, IsPurchase, ComesOf
  <2>4. Evidence!Cardinality(Evidence!Owners(a, C, Evidence!Of(r))) = 1
      BY <1>10, <2>3 DEF Evidence!Refused, Evidence!Unmatched, Evidence!Ahead
  <2>5. Evidence!Of(r) \in C /\ Evidence!Of(r) \notin D
      BY <1>2, <1>10, <2>3, <2>4
  <2>6. PICK p \in Evidence!AdsPromotions(a, t) : Evidence!Of(p) = Evidence!Of(r)
      BY <2>5 DEF Claimed
  <2>7. p \in a.evidence /\ Evidence!The(a, "remove_ads") # {}
      BY <2>6 DEF Evidence!AdsPromotions, Evidence!Promotions
  <2>8. p = r
      BY <2>6, <2>7 DEF Evidence!Doubled
  <2>9. r.product \in Promotional /\ ~r.once /\ r.promo /\ (Production => ~r.sandbox)
      BY <2>6, <2>7, <2>8 DEF Evidence!AdsPromotions, Evidence!Promotions, Evidence!Usable
  <2>10. s.product \in Promotional /\ ~s.once /\ s.promo /\ (Production => ~s.sandbox)
      BY <2>1, <2>2, <2>9 DEF Follows, IsPurchase
  <2>11. s \in Evidence!Promotions(b, u)
      BY <1>10, <2>10 DEF Evidence!Promotions, Evidence!Usable, Evidence!Ahead
  <2>12. Evidence!The(b, "remove_ads") # {}
      BY <2>7 DEF ComesOf, Evidence!The
  <2>13. Evidence!Of(s) \in D
      BY <2>11, <2>12 DEF Claimed, Evidence!AdsPromotions
  <2> QED BY <2>3, <2>5, <2>13
<1> HIDE DEF C, D
<1>11. ~Evidence!Unmatched(b, D, Evidence!Of(e), u)
    BY <1>10 DEF Evidence!Unmatched, Evidence!Ahead
<1>12. ~Evidence!Refused(b, e, D, u)
    BY <1>6, <1>8, <1>9, <1>11 DEF Evidence!Refused
<1> QED BY <1>12 DEF D

\* What the parser answers, in parts.
Grants(a, t) == UNION {Evidence!Live(a, e, t) : e \in Evidence!The(a, "premium")}
Refusal(a, t) ==
    \/ Evidence!Doubled(a) \/ Evidence!AdsRefused(a, t)
    \/ \E e \in Evidence!The(a, "premium") : Evidence!Refused(a, e, Claimed(a, t), t)

LEMMA ParsedParts ==
    ASSUME NEW a, NEW t
    PROVE  /\ Evidence!Parsed(a, t).ok <=> ~Refusal(a, t)
           /\ ~Refusal(a, t) => /\ Evidence!Parsed(a, t).premium <=> Grants(a, t) # {}
                                /\ Evidence!Parsed(a, t).ads = Evidence!RemoveAds(a, t)
<1> DEFINE granted == Grants(a, t) # {}
           ads == Evidence!RemoveAds(a, t)
           ends == Evidence!Max({0} \cup {Evidence!Ends(e, r) : e \in Evidence!The(a, "premium"), r \in Grants(a, t)})
           full == [ok |-> TRUE, premium |-> granted, ads |-> ads, ends |-> ends]
<1>1. Evidence!Parsed(a, t) = IF Refusal(a, t) THEN Evidence!Failure ELSE full
    BY DEF Evidence!Parsed, Claimed, Grants, Refusal
<1>2. granted \in BOOLEAN
    OBVIOUS
<1> HIDE DEF granted, ads, ends
<1>3. full.ok = TRUE /\ full.premium = granted /\ full.ads = ads
    OBVIOUS
<1>4. Evidence!Failure.ok = FALSE
    BY DEF Evidence!Failure
<1> HIDE DEF full
<1>5. CASE Refusal(a, t)
    BY <1>1, <1>4, <1>5
<1>6. CASE ~Refusal(a, t)
  <2>1. Evidence!Parsed(a, t) = full
      BY <1>1, <1>6
  <2>2. Evidence!Parsed(a, t).ok /\ Evidence!Parsed(a, t).ads = Evidence!RemoveAds(a, t)
      BY <1>3, <2>1 DEF ads
  <2>3. Evidence!Parsed(a, t).premium <=> Grants(a, t) # {}
      BY <1>2, <1>3, <2>1 DEF granted
  <2> QED BY <1>6, <2>2, <2>3
<1> QED BY <1>5, <1>6

\* While nothing is bought no access appears, and an answer stays readable.
LEMMA NothingComes ==
    ASSUME NEW a, NEW b, NEW t, NEW u, ComesOf(b, u, a, t), Evidence!Parsed(a, t).ok
    PROVE  /\ Evidence!Parsed(b, u).ok
           /\ Evidence!Parsed(b, u).premium => Evidence!Parsed(a, t).premium
           /\ Evidence!Parsed(b, u).ads # {} => Evidence!Parsed(a, t).ads # {}
<1>1. /\ ~Evidence!Doubled(a) /\ ~Evidence!AdsRefused(a, t)
      /\ \A e \in Evidence!The(a, "premium") : ~Evidence!Refused(a, e, Claimed(a, t), t)
    BY ParsedParts DEF Refusal
<1>2. \A id : Evidence!The(b, id) = Evidence!The(a, id) /\ Evidence!The(a, id) \subseteq a.entitlements
    BY DEF ComesOf, Evidence!The
<1>3. ~Evidence!Doubled(b)
    BY <1>1 DEF ComesOf
<1>4. \A e \in Evidence!The(b, "premium") : ~Evidence!Refused(b, e, Claimed(b, u), u)
    BY <1>1, <1>2, StillTold
<1>5. ~Evidence!AdsRefused(b, u)
  <2> SUFFICES ASSUME NEW e \in Evidence!The(b, "remove_ads"),
                      \/ \E of \in Claimed(b, u) : Evidence!Owners(b, {}, of) \notin {{}, {"remove_ads"}}
                      \/ Evidence!Refused(b, e, Claimed(b, u), u)
               PROVE  FALSE
      BY DEF Evidence!AdsRefused, Claimed
  <2>1. /\ ~Evidence!Refused(a, e, Claimed(a, t), t) /\ e \in a.entitlements
        /\ \A of \in Claimed(a, t) : Evidence!Owners(a, {}, of) \in {{}, {"remove_ads"}}
      BY <1>1, <1>2 DEF Evidence!AdsRefused, Claimed
  <2>2. ~Evidence!Refused(b, e, Claimed(b, u), u)
      BY <1>1, <2>1, StillTold
  <2>3. \A of : Evidence!Owners(b, {}, of) = Evidence!Owners(a, {}, of)
      BY DEF Evidence!Owners, ComesOf
  <2> QED BY <2>1, <2>2, <2>3, PromotionsWere
<1>6. Evidence!Parsed(b, u).ok
    BY <1>3, <1>4, <1>5, ParsedParts DEF Refusal
<1>7. ASSUME NEW e \in a.entitlements, NEW s \in Evidence!Live(b, e, u) PROVE Evidence!Live(a, e, t) # {}
  <2>1. s \in b.evidence /\ Evidence!Of(s) = Evidence!Of(e) /\ ~s.dead /\ (Production => ~s.sandbox) /\ Evidence!Ends(e, s) > u
      BY DEF Evidence!Live, Evidence!Candidates, Evidence!Usable, Evidence!Ahead
  <2>2. PICK r \in a.evidence : Follows(s, r)
      BY <2>1 DEF ComesOf
  <2>3. IsPurchase(s) /\ IsPurchase(r) /\ IsEntitlement(e)
      BY <2>1, <2>2 DEF ComesOf, AnswerTyped
  <2>4. Evidence!Of(r) = Evidence!Of(e) /\ Evidence!Ends(e, r) = Evidence!Ends(e, s) /\ Evidence!Ends(e, s) \in Int
      BY <2>1, <2>2, <2>3 DEF Follows, Evidence!Of, Evidence!Ends, IsPurchase, IsEntitlement
  <2>5. ~r.dead /\ (Production => ~r.sandbox)
      BY <2>1, <2>2, <2>3 DEF Follows, IsPurchase
  <2>6. Evidence!Ends(e, r) > t
      BY <2>1, <2>4 DEF ComesOf
  <2> QED BY <2>2, <2>4, <2>5, <2>6 DEF Evidence!Live, Evidence!Candidates, Evidence!Usable, Evidence!Ahead
<1>8. Grants(b, u) # {} => Grants(a, t) # {}
    BY <1>2, <1>7 DEF Grants
<1>9. Evidence!RemoveAds(b, u) # {} => Evidence!RemoveAds(a, t) # {}
  <2> SUFFICES ASSUME Evidence!RemoveAds(b, u) # {} PROVE Evidence!RemoveAds(a, t) # {}
      OBVIOUS
  <2>1. CASE Evidence!AdsPromotions(a, t) # {}
    <3>1. Evidence!AdsPromotions(a, t) \subseteq a.evidence
        BY DEF Evidence!AdsPromotions, Evidence!Promotions
    <3>2. IsFiniteSet(Evidence!AdsPromotions(a, t)) /\ \A r \in Evidence!AdsPromotions(a, t) : r.ends \in Int
        BY <3>1, FS_Subset DEF ComesOf, AnswerTyped, IsPurchase
    <3>3. \E q \in Evidence!AdsPromotions(a, t) : \A s \in Evidence!AdsPromotions(a, t) : s.ends <= q.ends
        BY <2>1, <3>2, LongestLasts
    <3> QED BY <2>1, <3>3 DEF Evidence!RemoveAds
  <2>2. CASE Evidence!AdsPromotions(a, t) = {}
    <3>1. Evidence!AdsPromotions(b, u) = {}
        BY <2>2, PromotionsWere
    <3>2. PICK e \in Evidence!The(b, "remove_ads") : Evidence!Live(b, e, u) # {}
        BY <3>1 DEF Evidence!RemoveAds
    <3>3. e \in Evidence!The(a, "remove_ads") /\ Evidence!Live(a, e, t) # {}
        BY <1>2, <1>7, <3>2
    <3> QED BY <2>2, <3>3 DEF Evidence!RemoveAds
  <2> QED BY <2>1, <2>2
<1> QED BY <1>6, <1>8, <1>9, ParsedParts

-----------------------------------------------------------------------------
(* The steps.                                                              *)

LEMMA EvidenceStarts == ASSUME Evidence!Init PROVE EvidenceTyped
<1>1. PICK es \in Entitlements, rs \in Purchases : answer = [entitlements |-> es, evidence |-> rs]
    BY DEF Evidence!Init
<1> QED BY <1>1, SubscriptionsAssumption DEF Evidence!Init, Evidence!WellFormed, EvidenceTyped, AnswerTyped

LEMMA LaterComes == ASSUME EvidenceTyped, Evidence!Later PROVE EvidenceTyped' /\ ComesOf(answer', hour', answer, hour)
<1>1. answer' = answer /\ hour' = hour + 1 /\ hour \in 0..MaxNow /\ hour < MaxNow /\ MaxNow \in Nat
    BY SubscriptionsAssumption DEF EvidenceTyped, Evidence!Later
<1>2. \A r : Follows(r, r)
    BY DEF Follows
<1> QED BY <1>1, <1>2 DEF EvidenceTyped, ComesOf

LEMMA RefundComes ==
    ASSUME EvidenceTyped, NEW r \in answer.evidence, Evidence!Refund(r)
    PROVE  EvidenceTyped' /\ ComesOf(answer', hour', answer, hour)
<1> DEFINE q == [r EXCEPT !.dead = TRUE]
<1>1. /\ answer = [entitlements |-> answer.entitlements, evidence |-> answer.evidence] /\ IsPurchase(r) /\ hour \in Int
      /\ \A s \in answer.evidence : IsPurchase(s)
    BY DEF EvidenceTyped, AnswerTyped
<1>2. answer' = [entitlements |-> answer.entitlements, evidence |-> (answer.evidence \ {r}) \cup {q}] /\ hour' = hour /\ ~r.dead
    BY <1>1 DEF Evidence!Refund
<1>3. q = [product |-> r.product, once |-> r.once, bought |-> r.bought, ends |-> r.ends,
           sandbox |-> r.sandbox, dead |-> TRUE, promo |-> r.promo]
  <2>1. r = [product |-> r.product, once |-> r.once, bought |-> r.bought, ends |-> r.ends,
             sandbox |-> r.sandbox, dead |-> r.dead, promo |-> r.promo]
      BY <1>1 DEF IsPurchase
  <2>2. \A d : [r EXCEPT !.dead = d] = [product |-> r.product, once |-> r.once, bought |-> r.bought, ends |-> r.ends,
                                        sandbox |-> r.sandbox, dead |-> d, promo |-> r.promo]
      BY ONLY <2>1
  <2> QED BY ONLY <2>2, Zenon
<1> HIDE DEF q
<1>4. IsPurchase(q)
    BY <1>1, <1>3 DEF IsPurchase
<1>5. IsFiniteSet((answer.evidence \ {r}) \cup {q})
    BY FS_RemoveElement, FS_AddElement DEF EvidenceTyped, AnswerTyped
<1>6. AnswerTyped(answer')
    BY <1>1, <1>2, <1>4, <1>5 DEF EvidenceTyped, AnswerTyped
<1>7. Follows(q, r) /\ \A s : Follows(s, s)
    BY <1>3 DEF Follows
<1>8. Evidence!Of(q) = Evidence!Of(r)
    BY <1>3 DEF Evidence!Of
<1>9. ~Evidence!Doubled(answer) => ~Evidence!Doubled(answer')
    BY <1>2, <1>8 DEF Evidence!Doubled
<1> QED BY <1>1, <1>2, <1>6, <1>7, <1>9 DEF EvidenceTyped, ComesOf

LEMMA EvidenceStep ==
    ASSUME EvidenceTyped, Evidence!Next
    PROVE  EvidenceTyped' /\ Evidence!NothingAppears
<1>1. EvidenceTyped' /\ ComesOf(answer', hour', answer, hour)
    BY LaterComes, RefundComes DEF Evidence!Next
<1> QED BY <1>1, NothingComes DEF Evidence!NothingAppears

-----------------------------------------------------------------------------
(* What an answer grants, and which are read.                              *)

\* The promotions of Remove Ads are the gifts.
LEMMA PromotionsAreGifts ==
    \A r : r \in Evidence!AdsPromotions(answer, hour) <=> r \in answer.evidence /\ Evidence!Gift(r)
BY DEF Evidence!AdsPromotions, Evidence!Promotions, Evidence!Gift, Evidence!Holds, Evidence!Usable, Evidence!Ahead

LEMMA RemoveAdsGranted ==
    ASSUME EvidenceTyped
    PROVE  Evidence!RemoveAds(answer, hour) # {} <=>
               \/ Evidence!AdsPromotions(answer, hour) # {}
               \/ \E e \in Evidence!The(answer, "remove_ads") : Evidence!Live(answer, e, hour) # {}
<1> DEFINE promos == Evidence!AdsPromotions(answer, hour)
           those == {e \in Evidence!The(answer, "remove_ads") : Evidence!Live(answer, e, hour) # {}}
           longest == {r \in promos : \A s \in promos : s.ends <= r.ends}
<1>1. Evidence!RemoveAds(answer, hour) = IF promos # {} THEN {r.product : r \in longest} ELSE {e.product : e \in those}
    BY DEF Evidence!RemoveAds
<1>2. CASE promos # {}
  <2>1. promos \subseteq answer.evidence
      BY PromotionsAreGifts
  <2>2. IsFiniteSet(promos) /\ \A r \in promos : r.ends \in Int
      BY <2>1, FS_Subset DEF EvidenceTyped, AnswerTyped, IsPurchase
  <2>3. PICK r \in promos : \A s \in promos : s.ends <= r.ends
    <3> HIDE DEF promos
    <3> QED BY <1>2, <2>2, LongestLasts
  <2>4. r \in longest
      BY <2>3
  <2> QED BY <1>1, <1>2, <2>4
<1>3. CASE promos = {}
    BY <1>1, <1>3
<1> QED BY <1>2, <1>3

LEMMA GrantsHold == ASSUME EvidenceTyped PROVE Evidence!GrantsArePaid
<1>1. \A e, r : r \in Evidence!Live(answer, e, hour) <=> r \in answer.evidence /\ Evidence!Pays(e, r)
    BY DEF Evidence!Live, Evidence!Candidates, Evidence!Usable, Evidence!Ahead, Evidence!Pays, Evidence!Holds
<1>2. Grants(answer, hour) # {} <=> \E e \in Evidence!The(answer, "premium"), r \in answer.evidence : Evidence!Pays(e, r)
    BY <1>1 DEF Grants
<1>3. Evidence!RemoveAds(answer, hour) # {} <=>
          \/ \E e \in Evidence!The(answer, "remove_ads"), r \in answer.evidence : Evidence!Pays(e, r)
          \/ \E r \in answer.evidence : Evidence!Gift(r)
    BY <1>1, PromotionsAreGifts, RemoveAdsGranted
<1> QED BY <1>2, <1>3, ParsedParts DEF Evidence!GrantsArePaid

\* Who owns a purchase, in the code's terms and in those of the property.
LEMMA OwnersAre ==
    ASSUME EvidenceTyped, NEW r
    PROVE  LET of == Evidence!Of(r)  claimed == Claimed(answer, hour)
           IN /\ \A id : id \in Evidence!Owners(answer, {}, of) <=> \E e \in Evidence!Claimants(r) : e.id = id
              /\ Evidence!Owners(answer, claimed, of) =
                     IF of \in claimed THEN {"remove_ads"} ELSE Evidence!Owners(answer, {}, of)
              /\ \A e \in answer.entitlements :
                     Evidence!Owners(answer, {}, of) = {e.id} <=> Evidence!Claimants(r) = {e}
<1> DEFINE of == Evidence!Of(r)
<1>1. Evidence!Owners(answer, {}, of) = {e.id : e \in Evidence!Claimants(r)}
    BY DEF Evidence!Owners, Evidence!Claimants
<1>2. Evidence!Owners(answer, Claimed(answer, hour), of) =
          IF of \in Claimed(answer, hour) THEN {"remove_ads"} ELSE Evidence!Owners(answer, {}, of)
    BY DEF Evidence!Owners
<1>3. Evidence!Claimants(r) \subseteq answer.entitlements
    BY DEF Evidence!Claimants
<1>4. \A e, f \in answer.entitlements : e.id = f.id => e = f
    BY DEF EvidenceTyped, AnswerTyped
<1>5. ASSUME NEW e \in answer.entitlements
      PROVE  Evidence!Owners(answer, {}, of) = {e.id} <=> Evidence!Claimants(r) = {e}
    BY <1>1, <1>3, <1>4
<1> QED BY <1>1, <1>2, <1>5

\* While no purchase is listed twice, what the promotions claim is the gifts.
LEMMA ClaimedIsGiven ==
    ASSUME \A r, s \in answer.evidence : Evidence!Of(r) = Evidence!Of(s) => r = s
    PROVE  /\ \A of : of \in Claimed(answer, hour) <=>
                 \E r \in answer.evidence : Evidence!Gift(r) /\ Evidence!Of(r) = of
           /\ \A r \in answer.evidence : Evidence!Of(r) \in Claimed(answer, hour) <=> Evidence!Gift(r)
BY PromotionsAreGifts DEF Claimed

\* An entitlement of a clear answer can be told.
LEMMA ClearIsTold ==
    ASSUME EvidenceTyped, Evidence!Clear,
           NEW e \in Evidence!The(answer, "premium") \cup Evidence!The(answer, "remove_ads")
    PROVE  ~Evidence!Refused(answer, e, Claimed(answer, hour), hour)
<1> DEFINE C == Claimed(answer, hour)
<1>1. /\ \A r, s \in answer.evidence : Evidence!Of(r) = Evidence!Of(s) => r = s
      /\ e \in answer.entitlements /\ Evidence!Claimants(e) = {e}
    BY DEF Evidence!Clear, Evidence!The
<1>2. Evidence!Owners(answer, C, Evidence!Of(e)) = {e.id}
  <2>1. CASE Evidence!Of(e) \in C
    <3>1. PICK r \in answer.evidence : Evidence!Gift(r) /\ Evidence!Of(r) = Evidence!Of(e)
        BY <1>1, <2>1, ClaimedIsGiven
    <3>2. Evidence!Claimants(r) \subseteq Evidence!The(answer, "remove_ads")
        BY <3>1 DEF Evidence!Clear, Evidence!Gift
    <3>3. e.id = "remove_ads"
        BY <1>1, <3>1, <3>2 DEF Evidence!Claimants, Evidence!The
    <3> QED BY <2>1, <3>3, OwnersAre
  <2>2. CASE Evidence!Of(e) \notin C
      BY <1>1, <2>2, OwnersAre
  <2> QED BY <2>1, <2>2
<1>3. ASSUME NEW r \in answer.evidence, ~r.dead, Evidence!Ahead(r.ends, hour)
      PROVE  Evidence!Cardinality(Evidence!Owners(answer, C, Evidence!Of(r))) = 1
  <2>1. Evidence!Holds(r, r.ends)
      BY <1>3 DEF Evidence!Holds, Evidence!Ahead
  <2>2. \E id : Evidence!Owners(answer, C, Evidence!Of(r)) = {id}
    <3>1. CASE Evidence!Gift(r)
        BY <1>1, <3>1, ClaimedIsGiven, OwnersAre
    <3>2. CASE ~Evidence!Gift(r)
      <4>1. PICK f \in answer.entitlements : Evidence!Claimants(r) = {f}
          BY <2>1, <3>2 DEF Evidence!Clear
      <4>2. Evidence!Of(r) \notin C
          BY <1>1, <3>2, ClaimedIsGiven
      <4> QED BY <4>1, <4>2, OwnersAre
    <3> QED BY <3>1, <3>2
  <2> QED BY <2>2, FS_Singleton, SameEvidenceCardinality
<1>4. Evidence!Candidates(answer, e) # {} /\ \A r \in Evidence!Candidates(answer, e) : ~Evidence!Contradicts(e, r)
    BY DEF Evidence!Clear, Evidence!Candidates, Evidence!Agrees, Evidence!Contradicts, Evidence!Forever, Evidence!Unsaid
<1> HIDE DEF C
<1>5. ~Evidence!Unmatched(answer, C, Evidence!Of(e), hour)
    BY <1>3 DEF Evidence!Unmatched
<1> QED BY <1>2, <1>4, <1>5 DEF Evidence!Refused, C

\* An answer whose entitlements can be told is clear.
LEMMA ToldIsClear == ASSUME EvidenceTyped, ~Refusal(answer, hour) PROVE Evidence!Clear
<1> DEFINE C == Claimed(answer, hour)
           mine == Evidence!The(answer, "premium") \cup Evidence!The(answer, "remove_ads")
<1>1. \A r, s \in answer.evidence : Evidence!Of(r) = Evidence!Of(s) => r = s
    BY DEF Refusal, Evidence!Doubled
<1>2. \A e \in mine : e \in answer.entitlements /\ ~Evidence!Refused(answer, e, C, hour)
    BY DEF Refusal, Evidence!AdsRefused, Claimed, Evidence!The
<1>3. ASSUME NEW of \in C PROVE Evidence!Owners(answer, {}, of) \subseteq {"remove_ads"}
  <2>1. Evidence!The(answer, "remove_ads") # {}
      BY PromotionsAreGifts DEF Claimed, Evidence!Gift
  <2> QED BY <2>1 DEF Refusal, Evidence!AdsRefused, Claimed
<1>4. ASSUME NEW e \in mine
      PROVE  /\ Evidence!Claimants(e) = {e} /\ \E r \in answer.evidence : Evidence!Of(r) = Evidence!Of(e)
             /\ \A r \in answer.evidence : Evidence!Of(r) = Evidence!Of(e) => Evidence!Agrees(e, r)
  <2>1. /\ Evidence!Owners(answer, C, Evidence!Of(e)) = {e.id}
        /\ Evidence!Candidates(answer, e) # {} /\ \A r \in Evidence!Candidates(answer, e) : ~Evidence!Contradicts(e, r)
      BY <1>2 DEF Evidence!Refused
  <2>2. e \in Evidence!Claimants(e)
      BY <1>2 DEF Evidence!Claimants
  <2>3. Evidence!Owners(answer, {}, Evidence!Of(e)) = {e.id}
    <3>1. CASE Evidence!Of(e) \in C
      <4>1. e.id \in Evidence!Owners(answer, {}, Evidence!Of(e))
          BY <2>2, OwnersAre
      <4> QED BY <1>3, <3>1, <4>1
    <3>2. CASE Evidence!Of(e) \notin C
        BY <2>1, <3>2, OwnersAre
    <3> QED BY <3>1, <3>2
  <2>4. Evidence!Claimants(e) = {e}
      BY <1>2, <2>3, OwnersAre
  <2> QED BY <2>1, <2>4 DEF Evidence!Candidates, Evidence!Agrees, Evidence!Contradicts, Evidence!Forever, Evidence!Unsaid
<1>5. ASSUME NEW r \in answer.evidence, Evidence!Holds(r, r.ends), Evidence!Gift(r)
      PROVE  Evidence!Claimants(r) \subseteq Evidence!The(answer, "remove_ads")
  <2>1. Evidence!Of(r) \in C
      BY <1>1, <1>5, ClaimedIsGiven
  <2>2. \A e \in Evidence!Claimants(r) : e.id \in Evidence!Owners(answer, {}, Evidence!Of(r))
      BY OwnersAre
  <2> QED BY <1>3, <2>1, <2>2 DEF Evidence!Claimants, Evidence!The
<1>6. ASSUME mine # {}, NEW r \in answer.evidence, Evidence!Holds(r, r.ends), ~Evidence!Gift(r)
      PROVE  \E e \in answer.entitlements : Evidence!Claimants(r) = {e}
  <2>1. PICK e \in mine : TRUE
      BY <1>6
  <2>2. CASE Evidence!Of(r) = Evidence!Of(e)
    <3>1. Evidence!Claimants(r) = Evidence!Claimants(e)
        BY <2>2 DEF Evidence!Claimants
    <3> QED BY <1>2, <1>4, <2>1, <3>1
  <2>3. CASE Evidence!Of(r) # Evidence!Of(e)
    <3> DEFINE names == Evidence!Owners(answer, {}, Evidence!Of(r))
    <3>1. Evidence!Cardinality(Evidence!Owners(answer, C, Evidence!Of(r))) = 1
        BY <1>2, <1>6, <2>1, <2>3 DEF Evidence!Refused, Evidence!Unmatched, Evidence!Holds, Evidence!Ahead
    <3>2. Evidence!Owners(answer, C, Evidence!Of(r)) = names
        BY <1>1, <1>6, ClaimedIsGiven, OwnersAre
    <3>3. IsFiniteSet(Evidence!Claimants(r))
        BY FS_Subset DEF Evidence!Claimants, EvidenceTyped, AnswerTyped
    <3>4. names = {f.id : f \in Evidence!Claimants(r)}
        BY DEF Evidence!Owners, Evidence!Claimants
    <3>5. IsFiniteSet(names)
      <4> DEFINE named == [f \in Evidence!Claimants(r) |-> f.id]
      <4>1. named \in Surjection(Evidence!Claimants(r), names)
          BY <3>4 DEF Surjection
      <4> HIDE DEF named, names
      <4> QED BY <3>3, <4>1, FS_Surjection
    <3>6. PICK id : names = {id}
      <4>1. Cardinality(names) = 1
          BY <3>1, <3>2, SameEvidenceCardinality
      <4> HIDE DEF names
      <4> QED BY <3>5, <4>1, FS_Singleton
    <3>7. PICK f \in Evidence!Claimants(r) : f.id = id
        BY <3>4, <3>6
    <3>8. f \in answer.entitlements
        BY <3>7 DEF Evidence!Claimants
    <3> QED BY <3>6, <3>7, <3>8, OwnersAre
  <2> QED BY <2>2, <2>3
<1> QED BY <1>1, <1>4, <1>5, <1>6 DEF Evidence!Clear

LEMMA ClearIffTold == ASSUME EvidenceTyped PROVE Evidence!ReadIffClear
<1>1. ASSUME Evidence!Clear PROVE ~Refusal(answer, hour)
  <2>1. ~Evidence!Doubled(answer)
      BY <1>1 DEF Evidence!Clear, Evidence!Doubled
  <2>2. \A e \in Evidence!The(answer, "premium") \cup Evidence!The(answer, "remove_ads") :
           ~Evidence!Refused(answer, e, Claimed(answer, hour), hour)
      BY <1>1, ClearIsTold
  <2>3. ASSUME NEW of \in Claimed(answer, hour) PROVE Evidence!Owners(answer, {}, of) \in {{}, {"remove_ads"}}
    <3>1. PICK r \in answer.evidence : Evidence!Gift(r) /\ Evidence!Of(r) = of
        BY PromotionsAreGifts DEF Claimed
    <3>2. Evidence!Claimants(r) \subseteq Evidence!The(answer, "remove_ads")
        BY <1>1, <3>1 DEF Evidence!Clear, Evidence!Gift
    <3>3. \A id \in Evidence!Owners(answer, {}, of) : id = "remove_ads"
        BY <3>1, <3>2, OwnersAre DEF Evidence!The
    <3> QED BY <3>3
  <2> QED BY <2>1, <2>2, <2>3 DEF Refusal, Evidence!AdsRefused, Claimed
<1> QED BY <1>1, ToldIsClear, ParsedParts DEF Evidence!ReadIffClear

\* parse_revenuecat_subscriber: premium and Remove Ads are granted for, and only
\* for, purchases of their own that still hold or gifts, and an answer is read
\* exactly when it is clear: what is refunded or over does not matter, and what
\* holds is claimed by one entitlement or is a gift; for every finite answer.
THEOREM ClearIsRead == SubscriptionsSpec => []AnswersRead
<1> DEFINE Held == component = "evidence" => EvidenceTyped
<1>1. SubscriptionsInit => Held
    BY EvidenceStarts DEF SubscriptionsInit
<1>2. Held /\ [SubscriptionsNext]_subscriptionsVars => Held'
  <2> SUFFICES ASSUME Held, [SubscriptionsNext]_subscriptionsVars, component' = "evidence" PROVE EvidenceTyped'
      OBVIOUS
  <2>1. component = "evidence" /\ (Evidence!Next \/ UNCHANGED evidenceVars)
      BY DEF SubscriptionsNext, subscriptionsVars, evidenceVars
  <2>2. CASE UNCHANGED evidenceVars
      BY <2>1, <2>2 DEF evidenceVars, EvidenceTyped
  <2> QED BY <2>1, <2>2, EvidenceStep
<1>3. Held => AnswersRead
    BY GrantsHold, ClearIffTold DEF AnswersRead, Evidence!AnswersRead
<1> QED BY <1>1, <1>2, <1>3, PTL DEF SubscriptionsSpec

\* As time goes by and purchases are refunded access only ends, and an answer
\* that could be read still can; for every finite answer.
THEOREM NothingAppearsUnpaid == SubscriptionsSpec => AccessOnlyEnds
<1> DEFINE Held == component = "evidence" => EvidenceTyped
<1>1. SubscriptionsInit => Held
    BY EvidenceStarts DEF SubscriptionsInit
<1>2. Held /\ [SubscriptionsNext]_subscriptionsVars => Held' /\ [component = "evidence" => Evidence!NothingAppears]_evidenceVars
  <2> SUFFICES ASSUME Held, [SubscriptionsNext]_subscriptionsVars
               PROVE  Held' /\ [component = "evidence" => Evidence!NothingAppears]_evidenceVars
      OBVIOUS
  <2>1. component' = component /\ (component = "evidence" => Evidence!Next \/ UNCHANGED evidenceVars)
      BY DEF SubscriptionsNext, subscriptionsVars, evidenceVars
  <2>2. CASE UNCHANGED evidenceVars
      BY <2>1, <2>2 DEF evidenceVars, EvidenceTyped
  <2>3. CASE component # "evidence"
      BY <2>1, <2>3
  <2>4. CASE component = "evidence" /\ Evidence!Next
      BY <2>1, <2>4, EvidenceStep
  <2> QED BY <2>1, <2>2, <2>3, <2>4
<1> QED BY <1>1, <1>2, PTL DEF SubscriptionsSpec, AccessOnlyEnds
=============================================================================
