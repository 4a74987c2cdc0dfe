------------------------------- MODULE Accounts -------------------------------
(* Push, Sessions, Backup, Worker and Expiry, one at a time: the behaviours  *)
(* are those of each component alone.  They share the counter of mishaps.    *)
EXTENDS Worker

CONSTANTS
    Users, PushTokens, OwnerOf, Apple, Changers, MaxPasses,      \* Push
    Devices, Tokens, Resets, MaxVersion,                         \* Sessions
    Runs, Remote, Interval, Retentions, MaxAtOnce, MaxClock,     \* Backup
    Poisoned, MaxChanges,                                        \* Expiry, of Push's users
    FewMishaps                                                   \* bound of all but Worker

\* update_settings refuses a retention below a day; the users are a finite table.
ASSUME AccountsAssumption ==
    /\ Runs \subseteq Nat \ {0} /\ Remote \in BOOLEAN /\ Retentions \subseteq Nat \ {0}
    /\ IsFiniteSet(Users) /\ MaxVersion \in Nat /\ OwnerOf \in [PushTokens -> Users] /\ MaxPasses \in Nat

VARIABLE component
VARIABLES tokens, valid, prefs, accounts, logs, pass, passes, sent, quiet, steady, disturbed
VARIABLES user, refresh, reset, used, device, call, cut, crossed, fresh
VARIABLES rows, files, objects, config, run, now, twins
VARIABLES truth, plan, age, order, review, told, ended, banned, changes

pushVars == <<tokens, valid, prefs, accounts, logs, pass, passes, sent, quiet, steady, disturbed>>
sessionVars == <<user, refresh, reset, used, device, call, cut, crossed, fresh>>
backupVars == <<rows, files, objects, config, run, now, twins>>
startVars == <<schedules, recorded, worker, torn>>
expiryVars == <<truth, plan, age, order, review, told, ended, banned, changes>>

Push == INSTANCE Push WITH Tokens <- PushTokens, MaxMishaps <- FewMishaps
Sessions == INSTANCE Sessions WITH MaxMishaps <- FewMishaps
Backup == INSTANCE Backup WITH MaxMishaps <- FewMishaps
Expiry == INSTANCE Expiry WITH MaxMishaps <- FewMishaps, pass <- review

AccountsInit ==
    /\ component \in {"push", "sessions", "backup", "worker", "expiry"}
    /\ Push!Init /\ Sessions!Init /\ Backup!Init /\ Init /\ Expiry!Init

people == <<pushVars, sessionVars>>
jobs == <<backupVars, startVars>>

AccountsNext ==
    \/ component = "push" /\ Push!Next /\ UNCHANGED <<component, sessionVars, jobs, expiryVars>>
    \/ component = "sessions" /\ Sessions!Next /\ UNCHANGED <<component, pushVars, jobs, expiryVars>>
    \/ component = "backup" /\ Backup!Next /\ UNCHANGED <<component, people, startVars, expiryVars>>
    \/ component = "worker" /\ Next /\ UNCHANGED <<component, people, backupVars, expiryVars>>
    \/ component = "expiry" /\ Expiry!Next /\ UNCHANGED <<component, people, jobs>>

accountsVars == <<component, mishaps, people, jobs, expiryVars>>
AccountsSpec == AccountsInit /\ [][AccountsNext]_accountsVars

\* What a pass sends, logs and removes agrees (Push).
PushInv == component = "push" => Push!PushInv
\* Sessions end when they should, and not before (Sessions).
SessionInv == component = "sessions" => Sessions!SessionInv
\* There is a whole dump as new as the newest one on record (Backup).
BackupInv == component = "backup" => Backup!BackupInv
\* Nobody is told more often that premium has ended than it has (Expiry).
ExpiryInv == component = "expiry" => Expiry!ExpiryInv
=============================================================================
