------------------------------ MODULE SignIn ------------------------------
(* Signing in: the web and mobile login routes with lib/auth.ts, the        *)
(* rotation of mobile refresh tokens in lib/mobile-auth.ts and the devices  *)
(* of lib/device-auth.ts, composed with the account operations of Accounts, *)
(* which take away what is issued here.                                     *)
EXTENDS Accounts

CONSTANT Code  \* device codes

VARIABLE code  \* rows of device_authorizations

vars == <<user, creds, call, open, code>>

Authorization == [consumed : BOOLEAN, by : User \cup {None}]
-----------------------------------------------------------------------------
(* Passwords.  The routes compare the password and read the account in one  *)
(* statement; the session is opened in a later transaction, which locks the *)
(* row and reads the account, not the password, again.  It changes nothing  *)
(* in the row, so a SERIALIZABLE transaction that is open does not notice.  *)

BeginLogin(u) ==
  \E audience \in {"MAIN", "MOBILE"} :
    /\ Active(u)
    /\ audience = "MOBILE" => ~user[u].mustChange /\ MaxToken[u] > 0
    /\ Begin(u, audience, user[u].pw)
    /\ UNCHANGED code

SignedInBy(u) == IF user[u].pw = call.seen THEN call.seen ELSE None

\* createSession
CreateSession(u) ==
  /\ Answers(u, "MAIN") /\ Active(u)
  /\ sessions' = sessions \cup {[user |-> u, audience |-> "MAIN", family |-> None,
                                 since |-> SignedInBy(u), missed |-> FALSE]}
  /\ UNCHANGED <<user, reset, refresh, devices, open, code>>
  /\ Room

\* createMobileCredentials.  Mutant: what the route read of must_change_password
\* is not read again.
MobileAllowedAsRead(u) == Active(u)

MobileAllowed(u) == Active(u) /\ ~user[u].mustChange

CreateMobileCredentials(u) ==
  \E f \in FreshFamily :
    /\ Answers(u, "MOBILE") /\ MobileAllowed(u)
    /\ sessions' = sessions \cup {MobileSession(u, f, SignedInBy(u), FALSE)}
    /\ refresh' = refresh \cup {RefreshToken(u, f, 1, SignedInBy(u), FALSE)}
    /\ UNCHANGED <<user, reset, devices, open, code>>
    /\ Room

\* loginDeviceWithPassword compares the password under the lock.
LoginDevice ==
  \E u \in DeviceUser :
    /\ Active(u) /\ ~user[u].mustChange
    /\ devices' = devices \cup {[user |-> u, method |-> "PASSWORD",
                                 since |-> user[u].pw]}
    /\ UNCHANGED <<user, reset, sessions, refresh, call, open, code>>
    /\ Room

\* clearSession.  Access tokens of apps only expire, which takes nothing from
\* what their family can do and is left out.
EndSession ==
  \E s \in sessions :
    /\ s.audience = "MAIN"
    /\ sessions' = sessions \ {s}
    /\ UNCHANGED <<user, reset, refresh, devices, call, open, code>>
-----------------------------------------------------------------------------
(* Refresh tokens.  Any token ever issued may be presented, again and late. *)

\* revokeMobileFamily.  Mutant: only the token that was presented.
RevokeTokenOnly(t) ==
  /\ refresh' = (refresh \ {t}) \cup {[t EXCEPT !.revoked = TRUE]}
  /\ sessions' = {s \in sessions : s.family # t.family}

RevokeMobileFamily(t) ==
  /\ refresh' = {IF r.family = t.family THEN [r EXCEPT !.revoked = TRUE] ELSE r :
                   r \in refresh}
  /\ sessions' = {s \in sessions : s.family # t.family}

\* rotateMobileRefreshToken locks the token with its user's row: it waits for a
\* logout that has locked the token.
Unlocked(t) == logout[t.family] # None => logout[t.family].token # t.n

\* Its branches that end the family: the token was used or revoked before, its
\* user may not sign in, it has expired.
EndFamily ==
  \E t \in refresh :
    /\ Unlocked(t)
    /\ RevokeMobileFamily(t)
    /\ UNCHANGED <<user, reset, devices, call, open, code>>

RotateMobileRefreshToken ==
  \E t \in refresh : \E n \in 1 .. MaxToken[t.user] :
    /\ Unlocked(t) /\ Usable(t) /\ MobileAllowed(t.user)
    /\ \A r \in refresh : r.family = t.family => r.n < n
    /\ \A m \in 1 .. n - 1 : \E r \in refresh : r.family = t.family /\ r.n = m
    /\ refresh' = (refresh \ {t})
         \cup {[t EXCEPT !.consumed = TRUE],
               RefreshToken(t.user, t.family, n, t.since, t.missed)}
    /\ sessions' = sessions \cup {MobileSession(t.user, t.family, t.since, t.missed)}
    /\ UNCHANGED <<user, reset, devices, call, open, code>>
    /\ Room

\* revokeMobileCredentials at logout locks the token that it is given and no
\* more: its UPDATE sees the tokens there are when it starts, waits for each,
\* and misses one that a rotation it waited for has inserted.  (The logout of a
\* family that is at an end changes nothing and is left out.)
BeginLogout ==
  \E t, newest \in refresh :
    /\ logout[t.family] = None
    /\ newest.family = t.family /\ Usable(newest)
    /\ \A r \in refresh : r.family = t.family => r.n <= newest.n
    /\ logout' = [logout EXCEPT ![t.family] = [token |-> t.n, sees |-> newest.n]]
    /\ UNCHANGED <<user, creds, call, snapshot, code>>

EndLogout ==
  \E f \in Family :
    /\ logout[f] # None
    /\ logout' = [logout EXCEPT ![f] = None]
    /\ refresh' = {IF r.family # f \/ r.revoked THEN r
                   ELSE IF r.n <= logout[f].sees THEN [r EXCEPT !.revoked = TRUE]
                   ELSE [r EXCEPT !.missed = TRUE] : r \in refresh}
    /\ sessions' = {s \in sessions : s.family # f}
    /\ UNCHANGED <<user, reset, devices, call, snapshot, code>>
-----------------------------------------------------------------------------
(* Devices that are paired by a code.                                       *)

\* startDeviceAuthorization: anyone's device gets a code; these exist from the
\* start, since nothing can be done before.
Started == [consumed |-> FALSE, by |-> None]

BeginApprove(u) ==
  /\ u \in DeviceUser
  /\ Authorized(u, "MAIN") \/ Authorized(u, "MOBILE")
  /\ Begin(u, "APPROVE", 0)
  /\ UNCHANGED code

\* approveDeviceAuthorization: the code may be anyone's who read it off a
\* screen, and the approving user is not read again.
ApproveDevice(u) ==
  \E k \in Code :
    /\ Answers(u, "APPROVE")
    /\ ~code[k].consumed /\ code[k].by = None
    /\ code' = [code EXCEPT ![k].by = u]
    /\ UNCHANGED <<user, creds, open>>

\* pollDeviceAuthorization of an approved code; earlier polls only move the
\* next one.  The answer, and the token with it, may be lost.
PollApproved ==
  \E k \in Code :
    LET u == code[k].by IN
    /\ ~code[k].consumed /\ u # None
    /\ code' = [code EXCEPT ![k].consumed = TRUE]
    /\ devices' = IF Active(u)
                  THEN devices \cup {[user |-> u, method |-> "PAIRING",
                                      since |-> 0]}
                  ELSE devices
    /\ sessions' = sessions /\ refresh' = refresh /\ Room
    /\ UNCHANGED <<user, reset, call, open>>

\* revokeLinkedDevice, revokeCurrentDevice, or the expiry of a device session.
RevokeDevice ==
  \E d \in devices :
    /\ devices' = devices \ {d}
    /\ UNCHANGED <<user, reset, sessions, refresh, call, open, code>>
-----------------------------------------------------------------------------
Init == AccountsInit /\ code = [k \in Code |-> Started]

LoginStep ==
  \/ \E u \in User : BeginLogin(u) \/ CreateSession(u) \/ CreateMobileCredentials(u)
  \/ LoginDevice \/ EndSession

MobileStep == RotateMobileRefreshToken \/ EndFamily \/ BeginLogout \/ EndLogout

DeviceStep ==
  \/ \E u \in User : BeginApprove(u) \/ ApproveDevice(u)
  \/ PollApproved \/ RevokeDevice

Next == (AccountsStep /\ UNCHANGED code) \/ LoginStep \/ MobileStep \/ DeviceStep

Spec == Init /\ [][Next]_vars
-----------------------------------------------------------------------------
TypeOK ==
  /\ user \in [User -> Row]
  /\ reset \in [User -> BOOLEAN]
  /\ sessions \subseteq Session
  /\ \A s \in sessions : s.audience = "MAIN" <=> s.family = None
  /\ refresh \subseteq Token /\ devices \subseteq Device
  /\ call \in Request \cup {None}
  /\ snapshot \in Snapshot \cup {None}
  /\ logout \in [Family -> Logout \cup {None}]
  /\ code \in [Code -> Authorization]

\* Whatever two administrators, an owner and maintenance do to each other at
\* once, an installation that has an enabled administrator keeps one: there is
\* no way back through the application without one.
AdminRemains == [][Admins # {} => Admins' # {}]_user

\* An account that is disabled, being deleted or gone holds no session and no
\* refresh token that could rotate; one that must change its password holds no
\* mobile ones.  That is why replaceTemporaryPassword need not revoke them.  Only
\* what was issued while the revoking transaction was open, and what comes of it,
\* is left.
LockedOut ==
  \A u \in User :
    /\ ~Active(u) => \A s \in sessions : s.user = u => s.missed
    /\ ~Active(u) \/ user[u].mustChange =>
         /\ \A s \in sessions : s.user = u /\ s.audience = "MOBILE" => s.missed
         /\ \A t \in refresh : t.user = u /\ Usable(t) => t.missed

\* A password ends with everything that was signed in with it: sessions and
\* tokens at once, unless they were issued after it was replaced or while the
\* transaction that replaced it was open, and devices that gave it by the time
\* they could act again, without exception (a temporary password leaves them,
\* blocked, until it is replaced).
PasswordBound ==
  /\ \A s \in sessions : s.since # None /\ ~s.missed => s.since = user[s.user].pw
  /\ \A t \in refresh : Usable(t) /\ t.since # None /\ ~t.missed => t.since = user[t.user].pw
  /\ \A d \in devices :
       d.method = "PASSWORD" /\ Active(d.user) /\ ~user[d.user].mustChange =>
         d.since = user[d.user].pw

\* A family has one token that rotates, and none, nor a session, once any of its
\* tokens has been revoked, except what was issued while a logout was open: a
\* stolen token and the client's own cannot both go on, whichever is presented
\* first.
FamilyEnds ==
  \A t \in refresh :
    /\ Usable(t) => \A r \in refresh : r.family = t.family /\ Usable(r) => r = t
    /\ t.revoked =>
         /\ \A r \in refresh : r.family = t.family /\ Usable(r) => r.missed
         /\ \A s \in sessions : s.family = t.family => s.missed

\* docs/admin-user-management.md: "Re-enabling creates or restores no
\* credentials.  The user must sign in again after any role or status change."
\* Who was not active is not signed in the moment the account is.
SignsInAgain ==
  [][\A u \in User, audience \in {"MAIN", "MOBILE"} :
       ~Active(u) => ~SignedIn(u, audience)']_vars
=============================================================================
