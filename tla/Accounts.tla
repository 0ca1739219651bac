----------------------------- MODULE Accounts -----------------------------
(* The users table, the credentials that hang on it and the operations of   *)
(* administrators and owners that change both: lib/admin-users.ts,          *)
(* lib/account.ts, lib/password-reset.ts, lib/mobile-account.ts,            *)
(* lib/account-deletion.ts, lib/admin-user-maintenance.ts and               *)
(* scripts/reset-admin-password.ts.                                         *)
(*                                                                          *)
(* A request reads before the transaction that acts on what it read: call   *)
(* holds what it read (one such request is in flight at a time, a bound:    *)
(* two of them touch the same rows only if they are of the same account).   *)
(* A READ COMMITTED transaction locks the user's row first and then sees    *)
(* all that was committed, so each is one action.  A SERIALIZABLE one sees  *)
(* the database as it was at its first statement, which waits for an        *)
(* advisory lock: that snapshot is a step of its own.  It fails when a row  *)
(* that it locks, updates or deletes has been changed since (40001), and    *)
(* misses the rows inserted since.  One of them is open at a time (a bound: *)
(* among themselves they commit as if one after the other).                 *)
EXTENDS FiniteSets, Naturals

CONSTANTS
  User,        \* the accounts
  Held,        \* those that own a station under legal hold
  DeviceUser,  \* bound: those that have devices, and reset forgotten passwords
  Family,      \* families of mobile refresh tokens
  Start,       \* bound: who is there at the start, and who of them administers
  MaxToken,    \* bound: refresh tokens of each account
  MaxRows,     \* bound: web sessions and devices of each account
  MaxVersion,  \* bound: changes of one account
  MaxChanges,  \* bound: changes of any two of them
  None

ASSUME AccountConstants ==
  /\ Held \subseteq User /\ DeviceUser \subseteq User
  /\ Start \subseteq [there : SUBSET User, admins : SUBSET User]
  /\ MaxToken \in [User -> Nat] /\ MaxRows \in [User -> Nat] /\ MaxVersion \in Nat /\ MaxChanges \in Nat
  /\ None \notin User \cup Family

VARIABLES
  user,      \* a row of users; pw names the password by the version that set it
  reset,     \* is there a password reset token that can still be claimed
  sessions,  \* rows of sessions
  refresh,   \* rows of mobile_refresh_tokens
  devices,   \* rows of device_sessions that are not revoked
  call,      \* what the request in flight has read
  snapshot,  \* what the SERIALIZABLE transaction that is open sees
  logout     \* what the logout of a family that is open has locked, and sees

creds == <<reset, sessions, refresh, devices>>
open == <<snapshot, logout>>

\* History: "since" is the password that was compared for the credential, or the
\* sign-in it was renewed from, and None if it was replaced before the credential
\* was issued; "missed" says that a transaction that revokes what it sees of the
\* account, or of the family, has committed and did not see the row.
Since == (0 .. MaxVersion) \cup {None}
Row == [role : {"USER", "ADMIN"},
        status : {"ACTIVE", "DISABLED", "DELETION_PENDING", "ANONYMIZED"},
        mustChange : BOOLEAN, pw : 0 .. MaxVersion, version : 0 .. MaxVersion]
Session == [user : User, audience : {"MAIN", "MOBILE"},
            family : Family \cup {None}, since : Since, missed : BOOLEAN]
Token == [family : Family, n : Nat \ {0}, user : User, since : Since,
          missed : BOOLEAN, consumed : BOOLEAN, revoked : BOOLEAN]
Device == [user : User, method : {"PAIRING", "PASSWORD"}, since : 0 .. MaxVersion]
Request == [by : User, op : {"MAIN", "MOBILE", "REPLACE", "MOBILE_PASSWORD", "APPROVE"},
            seen : 0 .. MaxVersion]
Snapshot == [op : {"ADMIN", "MOBILE_DELETION", "RESET_ADMIN"}, by : User, target : User,
             sessions : SUBSET Session, refresh : SUBSET Token, devices : SUBSET Device]
Logout == [token : Nat \ {0}, sees : Nat \ {0}]
-----------------------------------------------------------------------------
Active(u) == user[u].status = "ACTIVE"

Admins == {u \in User : user[u].role = "ADMIN" /\ Active(u)}

Usable(t) == ~t.consumed /\ ~t.revoked

\* resolveSessionUser; requireApiUser and requireMobileAuth refuse mustChange.
SignedIn(u, audience) ==
  Active(u) /\ \E s \in sessions : s.user = u /\ s.audience = audience

Authorized(u, audience) == SignedIn(u, audience) /\ ~user[u].mustChange

\* UPDATE users SET ..., version = version + 1.  A transaction that has yet to
\* lock this row can only fail, and is over at once.
Change(u, row) ==
  /\ user[u].version < MaxVersion
  /\ \A a \in User \ {u} : user[a].version + user[u].version < MaxChanges
  /\ user' = [user EXCEPT ![u] = [row EXCEPT !.version = user[u].version + 1]]
  /\ snapshot' = IF snapshot # None /\ u \in {snapshot.by, snapshot.target}
                 THEN None ELSE snapshot

\* A row whose password is replaced, and must or need not be replaced again.
NewPassword(u, temporary) ==
  [user[u] EXCEPT !.pw = user[u].version + 1, !.mustChange = temporary]

Others(rows, u) == {r \in rows : r.user # u}

RevokedTokens(u) ==
  {IF t.user = u THEN [t EXCEPT !.revoked = TRUE] ELSE t : t \in refresh}

\* The sessions and tokens that issueMobileCredentials opens a family with.
\* Mutant: the session does not name its family.
FreshFamily ==
  {f \in Family : logout[f] = None /\ \A r \in refresh \cup sessions : r.family # f}

MobileSessionUnbound(u, f, since, missed) ==
  [user |-> u, audience |-> "MOBILE", family |-> None, since |-> since, missed |-> missed]

MobileSession(u, f, since, missed) ==
  [user |-> u, audience |-> "MOBILE", family |-> f, since |-> since, missed |-> missed]

RefreshToken(u, f, n, since, missed) ==
  [family |-> f, n |-> n, user |-> u, since |-> since, missed |-> missed,
   consumed |-> FALSE, revoked |-> FALSE]

\* What is issued stays within the bound.
Room ==
  \A u \in User :
    /\ Cardinality({t \in refresh' : t.user = u}) <= MaxToken[u]
    /\ Cardinality({s \in sessions' : s.user = u /\ s.audience = "MAIN"})
         + Cardinality({d \in devices' : d.user = u}) <= MaxRows[u]

\* revokeAccountCredentials, under the lock of the user's row.
RevokeAccountCredentials(u) ==
  /\ sessions' = Others(sessions, u)
  /\ refresh' = RevokedTokens(u)
  /\ reset' = [reset EXCEPT ![u] = FALSE]

\* Mutant: device sessions outlive the password.
RevokePasswordDevicesNot(u) == devices' = devices

RevokePasswordDevices(u) ==
  devices' = {d \in devices : d.user = u => d.method = "PAIRING"}
-----------------------------------------------------------------------------
(* SERIALIZABLE transactions.                                               *)

TakeSnapshot(op, by, u) ==
  /\ snapshot = None
  /\ snapshot' = [op |-> op, by |-> by, target |-> u,
                  sessions |-> {s \in sessions : s.user = u},
                  refresh |-> {t \in refresh : t.user = u},
                  devices |-> {d \in devices : d.user = u /\ op = "RESET_ADMIN"}]
  /\ UNCHANGED <<user, creds, call, logout>>

\* It commits with a change of its target.
Commits(op) ==
  /\ snapshot # None /\ snapshot.op = op
  /\ UNCHANGED <<call, logout>>

\* It is refused, overtaken or rolled back.
RollBack ==
  /\ snapshot # None
  /\ snapshot' = None
  /\ UNCHANGED <<user, creds, call, logout>>

\* DELETE and UPDATE fail when a row that the snapshot has is gone or changed.
Finds(rows, seen) == seen \subseteq rows

\* What they leave of the account, because the snapshot has not got it.
Missed(rows, seen, u) ==
  {[r EXCEPT !.missed = @ \/ r.user = u] : r \in rows \ seen}

\* revokeAccountCredentials, of what the transaction sees.  A reset token that
\* is there may have been issued since.
RevokeSeen(u) ==
  /\ Finds(sessions, snapshot.sessions) /\ Finds(refresh, snapshot.refresh)
  /\ sessions' = Missed(sessions, snapshot.sessions, u)
  /\ refresh' = Missed(refresh, snapshot.refresh, u)
       \cup {[t EXCEPT !.revoked = TRUE] : t \in snapshot.refresh}
  /\ \E since \in BOOLEAN : reset' = [reset EXCEPT ![u] = @ /\ since]
-----------------------------------------------------------------------------
(* Requests.  Begin reads, the transaction follows, or nothing does: the    *)
(* request is refused, its transaction is rolled back or its client leaves. *)

Begin(u, op, seen) ==
  /\ call = None
  /\ call' = [by |-> u, op |-> op, seen |-> seen]
  /\ UNCHANGED <<user, creds, open>>

Answers(u, op) ==
  /\ call # None /\ call.by = u /\ call.op = op
  /\ call' = None

Refused ==
  /\ call # None
  /\ call' = None
  /\ UNCHANGED <<user, creds, open>>

BeginReplace(u) == SignedIn(u, "MAIN") /\ Begin(u, "REPLACE", user[u].pw)

BeginMobilePassword(u) ==
  Authorized(u, "MOBILE") /\ Begin(u, "MOBILE_PASSWORD", user[u].pw)
-----------------------------------------------------------------------------
(* lib/admin-users.ts                                                       *)

\* privilegedMutation takes its snapshot when it asks for the advisory lock.  A
\* page that showed another version of the target is refused (VERSION_CONFLICT):
\* what happened between the page and the snapshot makes no difference.
BeginAdmin(u) ==
  \E target \in User :
    /\ u \in Admins /\ Authorized(u, "MAIN")
    /\ TakeSnapshot("ADMIN", u, target)

\* With assertManageable.  Actor and target are read when they are locked.
Privileged(actor) ==
  /\ Commits("ADMIN") /\ snapshot.by = actor
  /\ actor \in Admins /\ ~user[actor].mustChange
  /\ user[snapshot.target].status \in {"ACTIVE", "DISABLED"}
  /\ UNCHANGED devices

\* assertNotLastEnabledAdmin.  Mutant: disabled administrators count.
NotLastEnabledAdminOfAll(u) ==
  u \in Admins => Cardinality({a \in User : user[a].role = "ADMIN"}) > 1

NotLastEnabledAdmin(u) == u \in Admins => Cardinality(Admins) > 1

UpdateUserProfile(actor) ==
  /\ Privileged(actor)
  /\ Change(snapshot.target, user[snapshot.target])
  /\ UNCHANGED <<reset, sessions, refresh>>

ChangeUserRole(actor) ==
  LET u == snapshot.target IN
  \E role \in {"USER", "ADMIN"} :
    /\ Privileged(actor)
    /\ u = actor => role = "ADMIN"
    /\ user[u].role # role
    /\ role = "USER" => NotLastEnabledAdmin(u)
    /\ Change(u, [user[u] EXCEPT !.role = role])
    /\ RevokeSeen(u)

DisableUser(actor) ==
  LET u == snapshot.target IN
  /\ Privileged(actor)
  /\ u # actor
  /\ Active(u) /\ NotLastEnabledAdmin(u)
  /\ Change(u, [user[u] EXCEPT !.status = "DISABLED"])
  /\ RevokeSeen(u)

EnableUser(actor) ==
  LET u == snapshot.target IN
  /\ Privileged(actor)
  /\ user[u].status = "DISABLED"
  /\ Change(u, [user[u] EXCEPT !.status = "ACTIVE"])
  /\ UNCHANGED <<reset, sessions, refresh>>

AssignTemporaryPassword(actor) ==
  LET u == snapshot.target IN
  /\ Privileged(actor)
  /\ Change(u, NewPassword(u, TRUE))
  /\ RevokeSeen(u)

RequestUserDeletion(actor) ==
  LET u == snapshot.target IN
  /\ Privileged(actor)
  /\ u # actor
  /\ NotLastEnabledAdmin(u)
  /\ u \notin Held
  /\ Change(u, [user[u] EXCEPT !.status = "DELETION_PENDING"])
  /\ RevokeSeen(u)

\* bootstrapFirstAdmin, and a role set by script without an actor: SERIALIZABLE,
\* but nothing that others insert matters to it.
BootstrapFirstAdmin ==
  /\ Admins = {}
  /\ \E u \in User : Active(u) /\ Change(u, [user[u] EXCEPT !.role = "ADMIN"])
  /\ UNCHANGED <<creds, call, logout>>

\* scripts/reset-admin-password.ts, which deletes the rows it sees.
BeginResetAdmin == \E u \in Admins : TakeSnapshot("RESET_ADMIN", u, u)

ResetAdminPassword ==
  LET u == snapshot.target IN
  /\ Commits("RESET_ADMIN")
  /\ Change(u, NewPassword(u, TRUE))
  /\ Finds(sessions, snapshot.sessions) /\ Finds(refresh, snapshot.refresh)
  /\ Finds(devices, snapshot.devices)
  /\ sessions' = Missed(sessions, snapshot.sessions, u)
  /\ refresh' = Missed(refresh, snapshot.refresh, u)
  /\ devices' = devices \ snapshot.devices
  /\ UNCHANGED reset
-----------------------------------------------------------------------------
(* Owners.  The current password is compared under the lock, with the one   *)
(* the request was sent with.                                               *)

StillCurrent(u) == Active(u) /\ user[u].pw = call.seen

\* replaceTemporaryPassword
ReplaceTemporaryPassword(u) ==
  /\ Answers(u, "REPLACE") /\ StillCurrent(u)
  /\ user[u].mustChange
  /\ Change(u, NewPassword(u, FALSE))
  /\ sessions' = Others(sessions, u)
  /\ RevokePasswordDevices(u)
  /\ UNCHANGED <<reset, refresh, logout>>

\* issuePasswordResetChallenge
IssueReset ==
  \E u \in DeviceUser :
    /\ Active(u) /\ ~reset[u]
    /\ reset' = [reset EXCEPT ![u] = TRUE]
    /\ UNCHANGED <<user, sessions, refresh, devices, call, open>>

ExpireReset ==
  \E u \in User :
    /\ reset[u]
    /\ reset' = [reset EXCEPT ![u] = FALSE]
    /\ UNCHANGED <<user, sessions, refresh, devices, call, open>>

\* resetPasswordWithToken
ResetPassword ==
  \E u \in User :
    /\ Active(u) /\ reset[u]
    /\ Change(u, NewPassword(u, FALSE))
    /\ RevokeAccountCredentials(u)
    /\ RevokePasswordDevices(u)
    /\ UNCHANGED <<call, logout>>

\* changeMobilePassword revokes everything and signs the device in again.
ChangeMobilePassword(u) ==
  \E f \in FreshFamily :
    /\ Answers(u, "MOBILE_PASSWORD") /\ StillCurrent(u)
    /\ Change(u, NewPassword(u, FALSE))
    /\ sessions' = Others(sessions, u) \cup {MobileSession(u, f, user'[u].pw, FALSE)}
    /\ refresh' = RevokedTokens(u) \cup {RefreshToken(u, f, 1, user'[u].pw, FALSE)}
    /\ reset' = [reset EXCEPT ![u] = FALSE]
    /\ RevokePasswordDevices(u)
    /\ Room
    /\ UNCHANGED logout

\* requestMobileAccountDeletion compares the password with the row that its
\* snapshot has.  Stations under legal hold are kept.
BeginMobileDeletion(u) ==
  /\ Authorized(u, "MOBILE")
  /\ TakeSnapshot("MOBILE_DELETION", u, u)

RequestMobileAccountDeletion ==
  LET u == snapshot.target IN
  /\ Commits("MOBILE_DELETION") /\ Active(u)
  /\ NotLastEnabledAdmin(u)
  /\ Change(u, [user[u] EXCEPT !.status = "DELETION_PENDING"])
  /\ RevokeSeen(u)
  /\ UNCHANGED devices

\* anonymizeUserIfEligible, once the user's stations are purged.
AnonymizeUser ==
  \E u \in User \ Held :
    /\ user[u].status = "DELETION_PENDING"
    /\ Change(u, [NewPassword(u, FALSE) EXCEPT !.status = "ANONYMIZED", !.role = "USER"])
    /\ sessions' = Others(sessions, u)
    /\ refresh' = Others(refresh, u)
    /\ reset' = [reset EXCEPT ![u] = FALSE]
    /\ UNCHANGED <<devices, call, logout>>

AccountsInit ==
  /\ \E start \in Start :
       user = [u \in User |-> [role |-> IF u \in start.admins THEN "ADMIN" ELSE "USER",
                               status |-> IF u \in start.there THEN "ACTIVE" ELSE "ANONYMIZED",
                               mustChange |-> FALSE,
                               pw |-> 0, version |-> 0]]
  /\ reset = [u \in User |-> FALSE]
  /\ sessions = {} /\ refresh = {} /\ devices = {}
  /\ call = None
  /\ snapshot = None
  /\ logout = [f \in Family |-> None]

AdminStep(actor) ==
  \/ UpdateUserProfile(actor) \/ ChangeUserRole(actor) \/ DisableUser(actor) \/ EnableUser(actor)
  \/ AssignTemporaryPassword(actor) \/ RequestUserDeletion(actor)

OwnerStep(u) == ReplaceTemporaryPassword(u) \/ ChangeMobilePassword(u)

AccountsStep ==
  \/ \E u \in User :
       \/ BeginReplace(u) \/ BeginMobilePassword(u) \/ OwnerStep(u)
       \/ BeginAdmin(u) \/ BeginMobileDeletion(u) \/ AdminStep(u)
  \/ Refused \/ BeginResetAdmin \/ ResetAdminPassword \/ RequestMobileAccountDeletion \/ RollBack
  \/ BootstrapFirstAdmin \/ IssueReset \/ ExpireReset \/ ResetPassword \/ AnonymizeUser
=============================================================================
