----------------------------- MODULE Entitlement -----------------------------
(***************************************************************************)
(* What the entitlement projection promises, without processes, proposals, *)
(* row locks or verification stamps: every user row shows either its       *)
(* legacy value or a state RevenueCat really held, it only ever moves to a *)
(* state at least as recent, the rows of one transaction move together,    *)
(* and what the client owns in the row is touched by the client only.      *)
(***************************************************************************)
EXTENDS Integers, Sequences

CONSTANTS Users,    \* local accounts
          Plans,    \* subscription states a customer can be in
          Prefs     \* values of the settings keys the client owns

VARIABLES provider, \* provider[u]: the states RevenueCat has held for u, oldest first
          rows      \* rows[u]: plan, ads, pref, and ver, the index in provider[u] shown

ledgerVars == <<provider, rows>>

Content == [plan : Plans, ads : BOOLEAN]

LedgerInit ==
    /\ provider \in [Users -> Seq(Content)]
    /\ \A u \in Users : rows[u].ver = 0

CustomerChanges(u) ==
    /\ \E c \in Content : provider' = [provider EXCEPT ![u] = Append(@, c)]
    /\ UNCHANGED rows

\* One transaction verifies every user of S.
Verify(S) ==
    /\ \A u \in S :
          \E n \in 1..Len(provider[u]) :
             /\ rows[u].ver <= n
             /\ rows'[u] = [plan |-> provider[u][n].plan, ads |-> provider[u][n].ads,
                            pref |-> rows[u].pref, ver |-> n]
    /\ \A u \in Users \ S : rows'[u] = rows[u]
    /\ UNCHANGED provider

Prefer(u) ==
    /\ \E f \in Prefs : rows' = [rows EXCEPT ![u].pref = f]
    /\ UNCHANGED provider

LedgerNext ==
    \/ \E u \in Users : CustomerChanges(u) \/ Prefer(u)
    \/ \E S \in SUBSET Users : Verify(S)

LedgerSpec == LedgerInit /\ [][LedgerNext]_ledgerVars
=============================================================================
