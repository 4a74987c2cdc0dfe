------------------------------ MODULE Sessions ------------------------------
(***************************************************************************)
(* Signing in, refreshing, passwords and leaving: app/services/auth.py,    *)
(* app/api/auth.py, app/utils/jwt.py and get_current_user of               *)
(* app/dependencies.py, for the account of one e-mail address.             *)
(*                                                                         *)
(* Refresh tokens live in Redis, the version that access tokens must carry *)
(* in the users row.  Redis changes at once, the row at the commit.        *)
(***************************************************************************)
EXTENDS Integers, FiniteSets

CONSTANTS
    Devices,      \* each runs one request at a time
    Tokens,       \* jti of refresh tokens; numbers, taken in turn
    Resets,       \* password reset tokens; other numbers
    MaxVersion,   \* bound: token_version
    MaxMishaps    \* bound: crashes and lost answers

VARIABLES
    user,      \* the users row: state, tv (token_version), linked (an OAuth identity)
    refresh,   \* Redis refresh:* (jti of live refresh tokens)
    reset,     \* Redis password_reset:*
    used,      \* jti and reset tokens that were given out
    device,    \* device[d]: access (tv of its access token), refresh (its jti)
    call,      \* call[d]: the request of d
    cut,       \* history: devices whose refresh was interrupted
    crossed,   \* history: a version was written over one not read
    fresh,     \* history: fresh[d]: no password change since d got its access token
    mishaps

sessionVars == <<user, refresh, reset, used, device, call, cut, crossed, fresh, mishaps>>

None == {}
Quiet == [stage |-> "idle", op |-> "none", seen |-> 0, jti |-> None, wrote |-> FALSE]
Signed == [access |-> None, refresh |-> None]

Init ==
    /\ user = [state |-> "none", tv |-> 0, linked |-> FALSE]
    /\ refresh = {} /\ reset = {} /\ used = {}
    /\ device = [d \in Devices |-> Signed]
    /\ call = [d \in Devices |-> Quiet]
    /\ cut = {} /\ crossed = FALSE /\ fresh = [d \in Devices |-> TRUE] /\ mishaps = 0

Live == user.state = "live"
Goes(d, stage) == call' = [call EXCEPT ![d].stage = stage]
Ends(d)        == call' = [call EXCEPT ![d] = Quiet]
Call(d, op)    == call' = [call EXCEPT ![d] = [Quiet EXCEPT !.stage = "begun", !.op = op, !.seen = user.tv]]

\* The row is locked by a request that has flushed an update or an insert.
Locked == \E d \in Devices : call[d].wrote

\* get_current_user and get_current_active_user.
Authenticated(d) == device[d].access = {user.tv} /\ Live

-----------------------------------------------------------------------------
(* Accounts.                                                               *)

\* POST /auth/register: the address must be new, even among deleted accounts.
Register(d) ==
    /\ call[d].stage = "idle" /\ user.state = "none" /\ ~Locked
    /\ call' = [call EXCEPT ![d] = [Quiet EXCEPT !.stage = "issue", !.op = "register", !.wrote = TRUE]]
    /\ UNCHANGED <<user, refresh, reset, used, device, cut, crossed, fresh, mishaps>>

\* POST /auth/login with the right password; the row is read once.
Login(d) ==
    /\ call[d].stage = "idle" /\ Live
    /\ call' = [call EXCEPT ![d] = [Quiet EXCEPT !.stage = "issue", !.op = "login", !.seen = user.tv]]
    /\ UNCHANGED <<user, refresh, reset, used, device, cut, crossed, fresh, mishaps>>

\* POST /auth/oauth: signs in, links the first identity, or makes the account;
\* with the address of a deleted account the insert fails.
OAuth(d) ==
    /\ call[d].stage = "idle" /\ user.state # "deleted" /\ ~Locked
    /\ call' = [call EXCEPT ![d] =
          [Quiet EXCEPT !.stage = "issue", !.op = IF Live THEN "link" ELSE "register", !.seen = user.tv,
                        !.wrote = ~Live \/ ~user.linked]]
    /\ UNCHANGED <<user, refresh, reset, used, device, cut, crossed, fresh, mishaps>>

\* Wrong: what is stored is the token that was sent.
StoredOld(d, jti) == refresh \cup call[d].jti
Stored(d, jti) == refresh \cup {jti}

\* create_refresh_token and redis.set, before the commit.
Issue(d, jti) ==
    /\ call[d].stage = "issue" /\ jti \notin used /\ \A old \in Tokens : old < jti => old \in used
    /\ refresh' = Stored(d, jti) /\ used' = used \cup {jti}
    /\ call' = [call EXCEPT ![d].stage = "commit", ![d].jti = {jti}]
    /\ UNCHANGED <<user, reset, device, cut, crossed, fresh, mishaps>>

-----------------------------------------------------------------------------
(* POST /auth/refresh: get, SELECT, delete, set.                           *)

BeginRefresh(d) ==
    /\ call[d].stage = "idle" /\ device[d].refresh # None
    /\ call' = [call EXCEPT ![d] = [Quiet EXCEPT !.stage = "get", !.op = "refresh", !.jti = device[d].refresh]]
    /\ UNCHANGED <<user, refresh, reset, used, device, cut, crossed, fresh, mishaps>>

\* Not there any more, expired or logged out: 401, and the device signs out.
Get(d) ==
    /\ call[d].stage = "get"
    /\ IF call[d].jti \subseteq refresh THEN Goes(d, "select") /\ UNCHANGED <<device, cut>>
       ELSE Ends(d) /\ device' = [device EXCEPT ![d] = Signed] /\ cut' = cut \ {d}
    /\ UNCHANGED <<user, refresh, reset, used, crossed, fresh, mishaps>>

Select(d) ==
    /\ call[d].stage = "select"
    /\ call' = [call EXCEPT ![d].stage = "delete", ![d].seen = user.tv, ![d].op = IF Live THEN "refresh" ELSE "gone"]
    /\ UNCHANGED <<user, refresh, reset, used, device, cut, crossed, fresh, mishaps>>

Delete(d) ==
    /\ call[d].stage = "delete"
    /\ refresh' = refresh \ call[d].jti
    /\ IF call[d].op = "gone" THEN Ends(d) /\ device' = [device EXCEPT ![d] = Signed]
       ELSE Goes(d, "issue") /\ UNCHANGED device
    /\ UNCHANGED <<user, reset, used, cut, crossed, fresh, mishaps>>

\* POST /auth/logout.
Logout(d) ==
    /\ call[d].stage = "idle" /\ Authenticated(d)
    /\ refresh' = refresh \ device[d].refresh
    /\ device' = [device EXCEPT ![d] = Signed] /\ cut' = cut \ {d}
    /\ UNCHANGED <<user, reset, used, call, crossed, fresh, mishaps>>

\* The TTL of a refresh token that nobody holds.
Expire(jti) ==
    /\ jti \in refresh /\ \A d \in Devices : jti \notin device[d].refresh \cup call[d].jti
    /\ refresh' = refresh \ {jti}
    /\ UNCHANGED <<user, reset, used, device, call, cut, crossed, fresh, mishaps>>

-----------------------------------------------------------------------------
(* Passwords and leaving.                                                  *)

\* change_password and delete_account: the row that authenticated.
BeginChange(d, op) ==
    /\ call[d].stage = "idle" /\ Authenticated(d) /\ op \in {"change", "leave"}
    /\ Call(d, op)
    /\ UNCHANGED <<user, refresh, reset, used, device, cut, crossed, fresh, mishaps>>

RequestReset(r) ==
    /\ Live /\ r \notin used
    /\ reset' = reset \cup {r} /\ used' = used \cup {r}
    /\ UNCHANGED <<user, refresh, device, call, cut, crossed, fresh, mishaps>>

\* confirm_password_reset: the token is deleted before the password is written.
BeginConfirm(d, r) ==
    /\ call[d].stage = "idle" /\ r \in reset
    /\ call' = [call EXCEPT ![d] = [Quiet EXCEPT !.stage = "take", !.op = "reset", !.jti = {r}]]
    /\ UNCHANGED <<user, refresh, reset, used, device, cut, crossed, fresh, mishaps>>

Take(d) ==
    /\ call[d].stage = "take"
    /\ reset' = reset \ call[d].jti
    /\ IF Live THEN call' = [call EXCEPT ![d].stage = "begun", ![d].seen = user.tv] ELSE Ends(d)
    /\ UNCHANGED <<user, refresh, used, device, cut, crossed, fresh, mishaps>>

\* The flush of token_version, one more than was read.
Flush(d) ==
    /\ call[d].stage = "begun" /\ ~Locked
    /\ call' = [call EXCEPT ![d].stage = "commit", ![d].wrote = TRUE]
    /\ crossed' = (crossed \/ call[d].seen # user.tv)
    /\ UNCHANGED <<user, refresh, reset, used, device, cut, fresh, mishaps>>

-----------------------------------------------------------------------------
\* Wrong: a reset leaves the version alone.
NextVersionKept(c) == IF c.op = "reset" THEN user.tv ELSE c.seen + 1
NextVersion(c) == c.seen + 1

Changes(c) == c.op \in {"change", "leave", "reset"}

\* What the commit leaves of the row.
Row(c) ==
    CASE Changes(c) -> [user EXCEPT !.tv = NextVersion(c), !.state = IF c.op = "leave" THEN "deleted" ELSE @]
      [] c.op = "register" /\ c.wrote -> [user EXCEPT !.state = "live"]
      [] c.op = "link" -> [user EXCEPT !.linked = TRUE]
      [] OTHER -> user

\* The commit, and the answer: tokens for those who signed in or refreshed.
Commit(d, heard) ==
    LET c == call[d]
    IN  /\ c.stage = "commit"
        /\ user' = Row(c)
        /\ fresh' = [e \in Devices |-> IF Changes(c) THEN FALSE
                                       ELSE IF e = d /\ heard THEN c.seen = user.tv ELSE fresh[e]]
        /\ IF Changes(c) \/ ~heard THEN UNCHANGED device
           ELSE device' = [device EXCEPT ![d] = [access |-> {c.seen}, refresh |-> c.jti]]
        /\ cut' = IF Changes(c) THEN cut ELSE IF heard THEN cut \ {d} ELSE cut \cup {d}
        /\ mishaps' = IF heard THEN mishaps ELSE mishaps + 1
        /\ Ends(d)
        /\ UNCHANGED <<refresh, reset, used, crossed>>

\* A crash or a timeout.
Break(d) ==
    /\ call[d].stage # "idle" /\ mishaps < MaxMishaps
    /\ mishaps' = mishaps + 1
    /\ cut' = IF call[d].op = "refresh" THEN cut \cup {d} ELSE cut
    /\ Ends(d)
    /\ UNCHANGED <<user, refresh, reset, used, device, crossed, fresh>>

Next ==
    \/ \E d \in Devices :
          \/ Register(d) \/ Login(d) \/ OAuth(d) \/ BeginRefresh(d) \/ Get(d) \/ Select(d) \/ Delete(d) \/ Logout(d)
          \/ \E jti \in Tokens : Issue(d, jti)
          \/ user.tv < MaxVersion /\ \E op \in {"change", "leave"} : BeginChange(d, op)
          \/ user.tv < MaxVersion /\ (Take(d) \/ \E r \in Resets : BeginConfirm(d, r))
          \/ Flush(d) \/ Commit(d, TRUE) \/ (mishaps < MaxMishaps /\ Commit(d, FALSE)) \/ Break(d)
    \/ \E r \in Resets : RequestReset(r)
    \/ \E jti \in Tokens : Expire(jti)

Spec == Init /\ [][Next]_sessionVars

-----------------------------------------------------------------------------
\* Redis holds tokens of its own kind; one request at a time has written the
\* row of the user without having committed (its row lock); types.
SessionTypeOK ==
    /\ user.state \in {"none", "live", "deleted"} /\ user.tv \in 0..MaxVersion
    /\ refresh \subseteq used \cap Tokens /\ reset \subseteq used \cap Resets
    /\ \A d \in Devices : device[d].refresh \subseteq used /\ Cardinality(device[d].access) <= 1
    /\ user.state = "none" => \A d \in Devices : device[d] = Signed
    /\ \A d, e \in Devices : call[d].wrote /\ call[e].wrote => d = e

\* A device keeps its session: its refresh token is in Redis until it logs out
\* or is told that the account has gone - unless a refresh was interrupted,
\* since the old token is deleted before the new one arrives (refresh_tokens).
SessionLives ==
    \A d \in Devices : d \notin cut /\ call[d].stage = "idle" => device[d].refresh \subseteq refresh

\* After a change of the password, access tokens from before it are refused,
\* unless two changes wrote the same version (change_password,
\* confirm_password_reset, get_current_user).
OldAccessRefused ==
    \A d \in Devices : ~crossed /\ ~fresh[d] => device[d].access # {user.tv}

\* Sessions end when they should, and not before.
SessionInv == SessionTypeOK /\ SessionLives /\ OldAccessRefused
=============================================================================
