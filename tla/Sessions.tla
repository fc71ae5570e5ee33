------------------------------- MODULE Sessions -------------------------------
(***************************************************************************)
(* Logins, tokens and their revocation (modules/auth, core/security.py,    *)
(* core/token_blacklist.py, core/account_lockout.py).                      *)
(*                                                                         *)
(* A token is signed and stored nowhere: what revokes it are two kinds of  *)
(* Redis keys, one per logged-out token and one per user, the second       *)
(* before which tokens are invalid.  The lockout is two more keys, written *)
(* by separate commands.  All of them expire.  A request reads Redis and   *)
(* the users table, decides, and writes later; every command is a step of  *)
(* its own.  Time is the second that int(timestamp()) returns; Redis       *)
(* answers every command, and the two or three commands that record a      *)
(* failed attempt fall into one second.                                    *)
(***************************************************************************)
EXTENDS Accounts, Integers, FiniteSets

CONSTANTS
    Tokens,             \* ids (jti) of tokens
    AccessLife,         \* ACCESS_TOKEN_EXPIRE_MINUTES
    RefreshLife,        \* REFRESH_TOKEN_EXPIRE_DAYS
    MaxFailed,          \* MAX_FAILED_ATTEMPTS
    LockTime,           \* LOCKOUT_DURATION_MINUTES
    Window,             \* FAILED_ATTEMPT_WINDOW_MINUTES
    MaxTime             \* bound: seconds that pass

ASSUME LivesAssumption ==
    /\ AccessLife \in Nat \ {0} /\ RefreshLife \in Nat /\ AccessLife <= RefreshLife
ASSUME LockAssumption ==
    /\ MaxFailed \in Nat \ {0} /\ LockTime \in Nat \ {0} /\ Window \in Nat \ {0}
    /\ Window <= LockTime
ASSUME BoundAssumption == MaxTime \in Nat

Token  == [user : Users, kind : {"access", "refresh"}, iat : Nat, exp : Nat]
Stages == {"idle", "open", "failed", "counted", "locking", "welcome", "renewing", "issuing",
           "ending", "committing"}

ASSUME TokenAssumption == NONE \notin Users \cup Tokens \cup Token

VARIABLES
    now,            \* the second
    active,         \* users that may log in
    resets,         \* users with a password reset token in their row
    token,          \* the tokens clients hold that have not expired
    blacklist,      \* token:blacklist:<jti>, the second at which the key expires; 0: no key
    invalid,        \* user:tokens_invalid_before:<id>, its value and expiry
    failed,         \* login:failed:<email>, the counter; expires 0: no TTL yet
    lockout,        \* login:lockout:<email>, as blacklist
    ended,          \* history: the latest second in which a user's tokens were invalidated
    out,            \* history: the tokens that were logged out
    stage, about,   \* where a request stands and whom it is about
    count,          \* the attempts that INCR returned to it
    change          \* what it commits

clock  == <<now, ended, out>>
redis  == <<blacklist, invalid, failed, lockout>>
tables == <<active, resets>>
req    == <<stage, about, count, change>>
sessionVars == <<clock, redis, tables, token, req>>

SessionTypeOK ==
    /\ now \in 0..MaxTime /\ active \subseteq Users /\ resets \subseteq Users
    /\ token \in [Tokens -> Token \cup {NONE}]
    /\ blacklist \in [Tokens -> Nat]
    /\ invalid \in [Users -> [before : Nat, expires : Nat]]
    /\ failed \in [Users -> [n : Nat, expires : Nat]]
    /\ lockout \in [Users -> Nat]
    /\ ended \in [Users -> Nat] /\ out \subseteq Tokens
    /\ stage \in [Requests -> Stages]
    /\ about \in [Requests -> Users \cup {NONE}]
    /\ count \in [Requests -> Nat]
    /\ change \in [Requests -> {NONE, "password", "reset", "deactivate"}]

NoKey     == [before |-> 0, expires |-> 0]
NoCounter == [n |-> 0, expires |-> 0]

SessionInit ==
    /\ now = 0 /\ active = Users /\ resets = {}
    /\ token = [t \in Tokens |-> NONE]
    /\ blacklist = [t \in Tokens |-> 0]
    /\ invalid = [u \in Users |-> NoKey]
    /\ failed = [u \in Users |-> NoCounter]
    /\ lockout = [u \in Users |-> 0]
    /\ ended = [u \in Users |-> 0] /\ out = {}
    /\ stage = [q \in Requests |-> "idle"]
    /\ about = [q \in Requests |-> NONE]
    /\ count = [q \in Requests |-> 0]
    /\ change = [q \in Requests |-> NONE]

-----------------------------------------------------------------------------
(* What the keys say; Tick removes the keys that expire. *)

IsBlacklisted(t)         == blacklist[t] # 0
IsInvalidForUser(u, iat) == iat < invalid[u].before
IsLockedOut(u)           == lockout[u] # 0

\* decode_token, and the two checks of get_current_user and refresh_tokens
Valid(t) ==
    /\ token[t] # NONE
    /\ ~IsBlacklisted(t) /\ ~IsInvalidForUser(token[t].user, token[t].iat)

GetCurrentUser(t) == Valid(t) /\ token[t].kind = "access" /\ token[t].user \in active

-----------------------------------------------------------------------------
(* Steps of a request. *)

GoTo(q, p) == stage' = [stage EXCEPT ![q] = p]

\* a new request of kind c about u stands at p
Start(q, p, u, c) ==
    /\ stage[q] = "idle"
    /\ GoTo(q, p)
    /\ about' = [about EXCEPT ![q] = u]
    /\ change' = [change EXCEPT ![q] = c]
    /\ UNCHANGED count

\* an exception, or the answer
Ends(q) ==
    /\ GoTo(q, "idle")
    /\ about' = [about EXCEPT ![q] = NONE]
    /\ change' = [change EXCEPT ![q] = NONE]
    /\ count' = [count EXCEPT ![q] = 0]

\* POST /login: is the account locked?
Login(q, u) ==
    /\ ~IsLockedOut(u)
    /\ Start(q, "open", u, NONE)
    /\ UNCHANGED <<clock, redis, tables, token>>

\* a wrong password, or no such user
WrongPassword(q) ==
    /\ stage[q] = "open" /\ GoTo(q, "failed")
    /\ UNCHANGED <<clock, redis, tables, token, about, count, change>>

RightPassword(q) ==
    /\ stage[q] = "open"
    /\ IF about[q] \in active THEN GoTo(q, "welcome") /\ UNCHANGED <<about, count, change>>
                              ELSE Ends(q)
    /\ UNCHANGED <<clock, redis, tables, token>>

\* Mutant: INCR counts the attempts that are left.
CountAttemptsLeft(q) ==
    LET u == about[q]  n == failed[u].n + 1
    IN  /\ stage[q] = "failed" /\ GoTo(q, "counted")
        /\ failed' = [failed EXCEPT ![u] = [n |-> n, expires |-> IF n = 1 THEN 0 ELSE @.expires]]
        /\ count' = [count EXCEPT ![q] = MaxFailed - n]
        /\ UNCHANGED <<clock, blacklist, invalid, lockout, tables, token, about, change>>

\* INCR: a counter that is gone starts without a TTL
CountAttempt(q) ==
    LET u == about[q]  n == failed[u].n + 1
    IN  /\ stage[q] = "failed" /\ GoTo(q, "counted")
        /\ failed' = [failed EXCEPT ![u] = [n |-> n, expires |-> IF n = 1 THEN 0 ELSE @.expires]]
        /\ count' = [count EXCEPT ![q] = n]
        /\ UNCHANGED <<clock, blacklist, invalid, lockout, tables, token, about, change>>

\* EXPIRE: on a counter that was deleted meanwhile it does nothing
SetWindow(q) ==
    LET u == about[q]
    IN  /\ stage[q] = "counted"
        /\ failed' = [failed EXCEPT ![u].expires = IF failed[u].n = 0 THEN @ ELSE now + Window]
        /\ IF count[q] >= MaxFailed THEN GoTo(q, "locking") /\ UNCHANGED <<about, count, change>>
                                    ELSE Ends(q)
        /\ UNCHANGED <<clock, blacklist, invalid, lockout, tables, token>>

\* Mutant: a lockout shorter than the window of the counter.
LockBriefly(q) ==
    /\ stage[q] = "locking"
    /\ lockout' = [lockout EXCEPT ![about[q]] = now + 1]
    /\ Ends(q)
    /\ UNCHANGED <<clock, blacklist, invalid, failed, tables, token>>

\* SETEX
Lock(q) ==
    /\ stage[q] = "locking"
    /\ lockout' = [lockout EXCEPT ![about[q]] = now + LockTime]
    /\ Ends(q)
    /\ UNCHANGED <<clock, blacklist, invalid, failed, tables, token>>

RecordSuccessfulLogin(q) ==
    /\ stage[q] = "welcome" /\ GoTo(q, "issuing")
    /\ failed' = [failed EXCEPT ![about[q]] = NoCounter]
    /\ UNCHANGED <<clock, blacklist, invalid, lockout, tables, token, about, count, change>>

\* POST /refresh: the token is checked, then the user
Refresh(q, t) ==
    /\ Valid(t) /\ token[t].kind = "refresh"
    /\ Start(q, "renewing", token[t].user, NONE)
    /\ UNCHANGED <<clock, redis, tables, token>>

ReadUser(q) ==
    /\ stage[q] = "renewing"
    /\ IF about[q] \in active THEN GoTo(q, "issuing") /\ UNCHANGED <<about, count, change>>
                              ELSE Ends(q)
    /\ UNCHANGED <<clock, redis, tables, token>>

NewToken(u, k) ==
    [user |-> u, kind |-> k, iat |-> now,
     exp |-> now + IF k = "access" THEN AccessLife ELSE RefreshLife]

CreateTokens(q) ==
    /\ stage[q] = "issuing"
    /\ \E a, r \in {t \in Tokens : token[t] = NONE} :
          /\ a # r
          /\ token' = [token EXCEPT ![a] = NewToken(about[q], "access"),
                                    ![r] = NewToken(about[q], "refresh")]
    /\ Ends(q)
    /\ UNCHANGED <<clock, redis, tables>>

\* POST /logout: the access token goes.  Its key lives for int() of the seconds left, so
\* unless they are whole it is gone a second early, and without one left it is not written.
Logout(t) ==
    /\ GetCurrentUser(t)
    /\ \E lag \in {0, 1} :
          LET end == token[t].exp - lag
          IN  blacklist' = IF end > now THEN [blacklist EXCEPT ![t] = end] ELSE blacklist
    /\ out' = out \cup {t}
    /\ UNCHANGED <<now, ended, invalid, failed, lockout, tables, token, req>>

-----------------------------------------------------------------------------
(* Requests that end the sessions of a user. *)

ChangePassword(q, t) ==
    /\ GetCurrentUser(t)
    /\ Start(q, "ending", token[t].user, "password")
    /\ UNCHANGED <<clock, redis, tables, token>>

\* POST /forgot-password: a new token replaces the one before
InitiatePasswordReset(u) ==
    /\ resets' = resets \cup {u}
    /\ UNCHANGED <<clock, redis, active, token, req>>

ResetExpires(u) ==
    /\ u \in resets
    /\ resets' = resets \ {u}
    /\ UNCHANGED <<clock, redis, active, token, req>>

ResetPassword(q, u) ==
    /\ u \in resets
    /\ Start(q, "ending", u, "reset")
    /\ UNCHANGED <<clock, redis, tables, token>>

\* by an administrator
DeactivateUser(q, u) ==
    /\ Start(q, "ending", u, "deactivate")
    /\ UNCHANGED <<clock, redis, tables, token>>

ReactivateUser(u) ==
    /\ active' = active \cup {u}
    /\ UNCHANGED <<clock, redis, resets, token, req>>

\* Mutant: the key lives as long as an access token.
InvalidateBriefly(q) ==
    LET u == about[q]
    IN  /\ stage[q] = "ending" /\ GoTo(q, "committing")
        /\ invalid' = [invalid EXCEPT ![u] = [before |-> now, expires |-> now + AccessLife]]
        /\ ended' = [ended EXCEPT ![u] = now]
        /\ UNCHANGED <<now, out, blacklist, failed, lockout, tables, token, about, count, change>>

\* Redis is told before the database commits
InvalidateUserTokens(q) ==
    LET u == about[q]
    IN  /\ stage[q] = "ending" /\ GoTo(q, "committing")
        /\ invalid' = [invalid EXCEPT ![u] = [before |-> now, expires |-> now + RefreshLife]]
        /\ ended' = [ended EXCEPT ![u] = now]
        /\ UNCHANGED <<now, out, blacklist, failed, lockout, tables, token, about, count, change>>

CommitChange(q) ==
    /\ stage[q] = "committing"
    /\ active' = IF change[q] = "deactivate" THEN active \ {about[q]} ELSE active
    /\ resets' = IF change[q] = "reset" THEN resets \ {about[q]} ELSE resets
    /\ Ends(q)
    /\ UNCHANGED <<clock, redis, token>>

\* the database refuses a statement or the commit
RollsBack(q) ==
    /\ stage[q] \in {"open", "welcome", "renewing", "issuing", "ending", "committing"}
    /\ Ends(q)
    /\ UNCHANGED <<clock, redis, tables, token>>

UnlockAccount(u) ==
    /\ lockout' = [lockout EXCEPT ![u] = 0]
    /\ failed' = [failed EXCEPT ![u] = NoCounter]
    /\ UNCHANGED <<clock, blacklist, invalid, tables, token, req>>

\* EXPIRE and SETEX follow their INCR within its second
Tick ==
    LET Later(expiry) == IF expiry = now + 1 THEN 0 ELSE expiry
    IN  /\ now < MaxTime
        /\ \A q \in Requests : stage[q] \notin {"counted", "locking"}
        /\ now' = now + 1
        /\ blacklist' = [t \in Tokens |-> Later(blacklist[t])]
        /\ lockout' = [u \in Users |-> Later(lockout[u])]
        /\ invalid' = [u \in Users |-> IF invalid[u].expires = now + 1 THEN NoKey ELSE invalid[u]]
        /\ failed' = [u \in Users |-> IF failed[u].expires = now + 1 THEN NoCounter ELSE failed[u]]
        /\ token' = [t \in Tokens |-> IF token[t] # NONE /\ token[t].exp = now THEN NONE ELSE token[t]]
        /\ out' = {t \in out : token[t].exp # now}
        /\ UNCHANGED <<ended, tables, req>>

SessionNext ==
    \/ \E q \in Requests :
          \/ \E u \in Users : Login(q, u) \/ ResetPassword(q, u) \/ DeactivateUser(q, u)
          \/ \E t \in Tokens : Refresh(q, t) \/ ChangePassword(q, t)
          \/ WrongPassword(q) \/ RightPassword(q) \/ CountAttempt(q) \/ SetWindow(q) \/ Lock(q)
          \/ RecordSuccessfulLogin(q) \/ ReadUser(q) \/ CreateTokens(q)
          \/ InvalidateUserTokens(q) \/ CommitChange(q) \/ RollsBack(q)
    \/ \E t \in Tokens : Logout(t)
    \/ \E u \in Users : \/ InitiatePasswordReset(u) \/ ResetExpires(u)
                        \/ ReactivateUser(u) \/ UnlockAccount(u)
    \/ Tick

SessionSpec == SessionInit /\ [][SessionNext]_sessionVars

-----------------------------------------------------------------------------
(* "Invalidate all existing tokens" (modules/auth/service.py, 221, 500,    *)
(* 866): a token issued before the second in which its user's tokens were  *)
(* invalidated is refused for the rest of its life, also after the keys in *)
(* Redis were overwritten or expired and the user was activated again.  A  *)
(* token that was logged out is refused until the second before the one in *)
(* which it expires: for a last second or two, in which its key has lapsed *)
(* or when it was logged out too late for a key, it is accepted again.     *)
RevokedIsRefused ==
    \A t \in Tokens : token[t] # NONE =>
        /\ token[t].iat < ended[token[t].user] => ~Valid(t)
        /\ t \in out /\ now + 1 < token[t].exp => ~Valid(t)

(* "Lock after 5 failed attempts" (core/account_lockout.py, 20): the       *)
(* counter is at its limit only while the account is locked or the request *)
(* that reached it is about to lock it; when a lockout is over, counting   *)
(* starts anew.                                                            *)
LockedAtTheLimit ==
    \A u \in Users : failed[u].n >= MaxFailed =>
        \/ IsLockedOut(u)
        \/ \E q \in Requests : about[q] = u /\ stage[q] \in {"counted", "locking"}
===============================================================================
