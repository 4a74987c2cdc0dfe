-------------------------------- MODULE Push --------------------------------
(***************************************************************************)
(* Push tokens, preferences and the passes that send to many users:        *)
(* app/services/notification.py, fcm.py, apns.py, app/api/push.py and      *)
(* app/jobs/notification_jobs.py (weekly_summary_job, re_engagement_job,   *)
(* which differ in whom they choose).                                      *)
(*                                                                         *)
(* A pass is one transaction over all its users: logs and removed tokens   *)
(* are committed once, at the end; the pushes are sent at once.            *)
(***************************************************************************)
EXTENDS Integers, FiniteSets

CONSTANTS
    Users,
    Tokens,       \* of devices
    OwnerOf,      \* OwnerOf[t]: whose device it is
    Apple,        \* tokens of iOS devices; the others are Android's
    Changers,     \* users who change their preferences
    MaxPasses, MaxMishaps   \* bounds: passes; crashes and bad days of a provider

VARIABLES
    tokens,       \* committed push_tokens
    valid,        \* tokens the provider accepts
    prefs,        \* committed notification_preferences, or NoPrefs
    accounts,     \* users whose row exists
    logs,         \* committed notification_logs
    pass,         \* the pass and its transaction
    passes,       \* number of the pass
    sent,         \* history: pushes that were delivered
    quiet,        \* history: users answered that they have opted out of everything
    steady,       \* history: tokens that nobody has touched since the pass began
    disturbed,    \* history: an account went during the pass
    mishaps

pushVars == <<tokens, valid, prefs, accounts, logs, pass, passes, sent, quiet, steady, disturbed, mishaps>>

NoPrefs == [stored |-> FALSE, type |-> TRUE, optOut |-> FALSE]
Idle == [stage |-> "idle", left |-> {}, user |-> {}, batch |-> {}, results |-> {},
         logs |-> {}, removed |-> {}, failed |-> FALSE]

Init ==
    /\ tokens \in SUBSET Tokens /\ valid = Tokens
    /\ prefs = [u \in Users |-> NoPrefs] /\ accounts = Users
    /\ logs = {} /\ pass = Idle /\ passes = 0
    /\ sent = {} /\ quiet = {} /\ steady = {} /\ disturbed = FALSE /\ mishaps = 0

-----------------------------------------------------------------------------
(* app/api/push.py.  Rows a pass has deleted are locked until it commits.  *)

Register(t) ==
    /\ OwnerOf[t] \in accounts /\ t \in valid /\ t \notin pass.removed
    /\ tokens' = tokens \cup {t}
    /\ UNCHANGED <<valid, prefs, accounts, logs, pass, passes, sent, quiet, steady, disturbed, mishaps>>

Unregister(t) ==
    /\ t \in tokens \ pass.removed
    /\ tokens' = tokens \ {t} /\ steady' = steady \ {t}
    /\ UNCHANGED <<valid, prefs, accounts, logs, pass, passes, sent, quiet, disturbed, mishaps>>

\* The first update makes the row, and takes only the types from the request.
SetType(u, on) ==
    /\ u \in Changers \cap accounts /\ prefs[u].type # on
    /\ prefs' = [prefs EXCEPT ![u] = [@ EXCEPT !.stored = TRUE, !.type = on]]
    /\ steady' = {t \in steady : OwnerOf[t] # u}
    /\ UNCHANGED <<tokens, valid, accounts, logs, pass, passes, sent, quiet, disturbed, mishaps>>

OptOut(u) ==
    /\ u \in Changers \cap accounts /\ ~prefs[u].optOut
    /\ prefs' = [prefs EXCEPT ![u] = IF @.stored THEN [@ EXCEPT !.optOut = TRUE] ELSE [@ EXCEPT !.stored = TRUE]]
    /\ quiet' = quiet \cup {u}
    /\ UNCHANGED <<tokens, valid, accounts, logs, pass, passes, sent, steady, disturbed, mishaps>>

\* A device is wiped: the provider knows its token no more.
Invalidate(t) ==
    /\ t \in valid /\ valid' = valid \ {t} /\ steady' = steady \ {t}
    /\ UNCHANGED <<tokens, prefs, accounts, logs, pass, passes, sent, quiet, disturbed, mishaps>>

\* The account is erased; it waits for a pass that has inserted a log of it.
Erase(u) ==
    /\ u \in accounts /\ \A l \in pass.logs : OwnerOf[l.token] # u
    /\ accounts' = accounts \ {u}
    /\ tokens' = {t \in tokens : OwnerOf[t] # u}
    /\ logs' = {l \in logs : OwnerOf[l.token] # u}
    /\ prefs' = [prefs EXCEPT ![u] = NoPrefs]
    /\ disturbed' = TRUE /\ steady' = {t \in steady : OwnerOf[t] # u}
    /\ UNCHANGED <<valid, pass, passes, sent, quiet, mishaps>>

-----------------------------------------------------------------------------
(* A pass.                                                                 *)

\* The users, read once.
Start ==
    /\ pass.stage = "idle" /\ passes < MaxPasses
    /\ passes' = passes + 1 /\ disturbed' = FALSE
    /\ steady' = {t \in tokens \cap valid : prefs[OwnerOf[t]].type}
    /\ pass' = [Idle EXCEPT !.stage = "next", !.left = accounts]
    /\ UNCHANGED <<tokens, valid, prefs, accounts, logs, sent, quiet, mishaps>>

\* Tokens as this transaction sees them.
Seen(u) == {t \in tokens \ pass.removed : OwnerOf[t] = u}

\* The throttle is left out: no caller gives the service a Redis client.
Allowed(u) == prefs[u].type

\* Wrong: a user without tokens ends the pass.
AfterNobody(u) == [pass EXCEPT !.left = {}]
\* A user without tokens, or with the type turned off, is passed over; the log
\* of such a refusal names no token, and is left out.
Skipped(u) == [pass EXCEPT !.left = @ \ {u}]

Choose(u) ==
    /\ pass.stage = "next" /\ u \in pass.left
    /\ pass' = IF pass.failed \/ ~Allowed(u) \/ Seen(u) = {} THEN Skipped(u)
               ELSE [pass EXCEPT !.left = @ \ {u}, !.user = {u}, !.batch = Seen(u), !.stage = "apple"]
    /\ UNCHANGED <<tokens, valid, prefs, accounts, logs, passes, sent, quiet, steady, disturbed, mishaps>>

Entry(t, result) == [token |-> t, pass |-> passes, result |-> result]

\* What a provider may say of each token: one that got the push is good, and one
\* it does not know is not.
Truthful(answer) ==
    \A t \in DOMAIN answer : /\ answer[t] = "ok" => t \in valid
                             /\ answer[t] = "unknown" => t \notin valid

\* The answers are in; a push that failed may have arrived all the same.
Answered(answer, late) ==
    /\ pass' = [pass EXCEPT !.results = {Entry(t, answer[t]) : t \in DOMAIN answer},
                            !.stage = IF @ = "apple" THEN "logApple" ELSE "logGoogle"]
    /\ sent' = sent \cup {[token |-> t, pass |-> passes] :
                             t \in {d \in DOMAIN answer : answer[d] = "ok" \/ d \in late}}

\* A batch of tokens.  On a bad day each of them has any error of those listed.
Send(batch, errors) ==
    /\ \/ /\ Answered([t \in batch |-> IF t \in valid THEN "ok" ELSE "unknown"], {})
          /\ UNCHANGED mishaps
       \/ /\ batch # {} /\ mishaps < MaxMishaps /\ mishaps' = mishaps + 1
          /\ \E answer \in [batch -> {"ok", "unknown"} \cup errors] :
                /\ Truthful(answer)
                /\ \E late \in SUBSET {t \in batch \cap valid : answer[t] = "failed"} : Answered(answer, late)
    /\ UNCHANGED <<tokens, valid, prefs, accounts, logs, passes, quiet, steady, disturbed>>

\* APNs takes one token after another; when it is unavailable at one of them,
\* every token of the batch is logged as failed.
SendApple == pass.stage = "apple" /\ Send(pass.batch \cap Apple, {"failed"})

\* FCM answers for each token or fails for all of them.  What it calls an
\* invalid argument may be the token, or the message that all of them share.
SendGoogle == pass.stage = "google" /\ Send(pass.batch \ Apple, {"failed", "argument"})

\* Wrong: whatever failed is removed.
ToRemoveFailed(results) == {r.token : r \in {q \in results : q.result # "ok"}}
\* remove_invalid_tokens: the permanent errors only.
ToRemove(results) == {r.token : r \in {q \in results : q.result \in {"unknown", "argument"}}}

\* Wrong: a result is logged for every token of the user.
LoggedForAll(results) == {Entry(t, r.result) : t \in pass.batch, r \in results}
\* Wrong: only failures are logged.
LoggedFailures(results) == {r \in results : r.result # "ok"}
Logged(results) == results

\* The foreign key of the logs.
Orphan == pass.results # {} /\ pass.user \cap accounts = {}

\* The logs and the removal.  When the flush fails, everything fails that the
\* transaction still tries.
LogResults ==
    /\ pass.stage \in {"logApple", "logGoogle"}
    /\ pass' =
          IF Orphan THEN [pass EXCEPT !.stage = "next", !.failed = TRUE]
          ELSE [pass EXCEPT !.stage = IF @ = "logApple" THEN "google" ELSE "next",
                            !.logs = @ \cup Logged(pass.results), !.removed = @ \cup ToRemove(pass.results),
                            !.results = {}]
    /\ UNCHANGED <<tokens, valid, prefs, accounts, logs, passes, sent, quiet, steady, disturbed, mishaps>>

Commit ==
    /\ pass.stage = "next" /\ pass.left = {}
    /\ IF pass.failed THEN UNCHANGED <<tokens, logs>>
       ELSE logs' = logs \cup pass.logs /\ tokens' = tokens \ pass.removed
    /\ pass' = [Idle EXCEPT !.stage = "done"]
    /\ UNCHANGED <<valid, prefs, accounts, passes, sent, quiet, steady, disturbed, mishaps>>

Finish ==
    /\ pass.stage = "done" /\ pass' = Idle
    /\ UNCHANGED <<tokens, valid, prefs, accounts, logs, passes, sent, quiet, steady, disturbed, mishaps>>

Crash ==
    /\ pass.stage \notin {"idle", "done"} /\ mishaps < MaxMishaps
    /\ mishaps' = mishaps + 1 /\ pass' = Idle
    /\ UNCHANGED <<tokens, valid, prefs, accounts, logs, passes, sent, quiet, steady, disturbed>>

Next ==
    \/ \E t \in Tokens : Register(t) \/ Unregister(t) \/ Invalidate(t)
    \/ \E u \in Users : SetType(u, TRUE) \/ SetType(u, FALSE) \/ OptOut(u) \/ Erase(u) \/ Choose(u)
    \/ Start \/ SendApple \/ SendGoogle \/ LogResults \/ Commit \/ Finish \/ Crash

Spec == Init /\ [][Next]_pushVars

-----------------------------------------------------------------------------
\* Tokens and logs belong to accounts that exist (the foreign keys of
\* push_tokens and notification_logs); types.
PushTypeOK ==
    /\ tokens \subseteq Tokens /\ valid \subseteq Tokens
    /\ \A t \in tokens : OwnerOf[t] \in accounts
    /\ \A l \in logs : OwnerOf[l.token] \in accounts /\ l.result \in {"ok", "unknown", "argument", "failed"}
    /\ pass.removed \subseteq Tokens /\ passes \in 0..MaxPasses

\* A log says what happened: "ok" was delivered; a token that was unknown, or an
\* invalid argument, has got nothing (_send_to_ios, _send_to_android).
LogsTrue ==
    \A l \in logs :
        LET delivered == [token |-> l.token, pass |-> l.pass] \in sent
        IN  (l.result = "ok" => delivered) /\ (l.result \in {"unknown", "argument"} => ~delivered)

\* A pass removes a token that the provider accepts only when FCM has called the
\* request for it an invalid argument, and has a log of that: no outage and no
\* other token's failure costs a device its pushes (remove_invalid_tokens).
ValidTokensStay ==
    \A t \in pass.removed \cap valid :
        /\ t \notin Apple
        /\ Entry(t, "argument") \in pass.logs

\* A pass leaves nobody out: when it ends, every token that was there and was
\* not touched has its push, or the log of a failure, unless an account went
\* meanwhile (weekly_summary_job).
PassReachesAll ==
    pass.stage = "done" /\ ~disturbed =>
        \A t \in steady :
            \/ [token |-> t, pass |-> passes] \in sent
            \/ \E result \in {"failed", "argument"} : Entry(t, result) \in logs

\* What a pass has delivered is logged once it has ended, unless an account
\* went meanwhile (send_push, weekly_summary_job).
DeliveredIsLogged ==
    pass.stage = "done" /\ ~disturbed =>
        \A s \in sent : s.pass = passes =>
            \E l \in logs : l.token = s.token /\ l.pass = passes

\* A pass is accounted for: what is sent, logged and removed agree.
PushInv == PushTypeOK /\ LogsTrue /\ ValidTokensStay /\ PassReachesAll /\ DeliveredIsLogged

\* models/notification.py: "Global opt-out: disables ALL notifications regardless
\* of per-type settings".  Nothing is sent to who was answered that it is on.
OptOutSilences == [][\A s \in sent' \ sent : OwnerOf[s.token] \notin quiet]_pushVars
=============================================================================
