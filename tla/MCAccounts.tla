------------------------------ MODULE MCAccounts ------------------------------
(* Small instances of the components of Accounts.                            *)
EXTENDS Accounts, TLC

CONSTANTS u1, u2, ia, ga, gb            \* Push
CONSTANTS d1, d2                        \* Sessions
CONSTANTS w1, w2, o1, o2                \* Worker

One == 1
Two == 2
Three == 3

\* Push: one user with two Android devices, in one batch, and one with an iOS
\* device, who changes the preferences.
BothUsers == {u1, u2}
AllTokens == {ia, ga, gb}
Owners == ga :> u1 @@ gb :> u1 @@ ia :> u2
AppleTokens == {ia}
OneChanger == {u2}

\* Sessions: two devices of one account and one reset of the password.
BothDevices == {d1, d2}
ThreeTokens == 1..3
OneReset == {4}

\* Backup: three calls in three ticks, kept for one.
ThreeRuns == 1..3
Bucket == TRUE
OneTick == {1}

\* Worker: two processes, each of the old or of the new build.
BothWorkers == {w1, w2}
BothBuilds == {1, 2}
BothJobs == {o1, o2}

\* Expiry: two accounts, three changes or bans.
Nobody == {}

\* What a component that does not run starts with makes no difference.
MCInit ==
    /\ AccountsInit
    /\ component # "push" => tokens = {}
    /\ component # "backup" => config.enabled
    /\ component # "expiry" => order = (u1 :> 1 @@ u2 :> 2)

MCSpec == MCInit /\ [][AccountsNext]_accountsVars
=============================================================================
