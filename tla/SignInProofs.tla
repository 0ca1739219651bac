---------------------------- MODULE SignInProofs ----------------------------
(* What holds of SignIn for any accounts, holds, families, codes, starting  *)
(* administrators and bounds.                                               *)
EXTENDS SignIn, TLAPS, FiniteSetTheorems

(***************************************************************************)
(* The inductive invariant.  A credential fits the row of its user: what it *)
(* can still do, the row allows.  That looks at one row only, so that a     *)
(* transaction on one account says nothing of the credentials of others.    *)
(* What a revocation missed need not fit anything.                          *)
(***************************************************************************)

SessionFits(row, s) ==
  s.missed = FALSE =>
    /\ row.status = "ACTIVE" /\ (s.since # None => s.since = row.pw)
    /\ row.mustChange => s.audience = "MAIN"

TokenFits(row, t) ==
  Usable(t) /\ t.missed = FALSE =>
    /\ row.status = "ACTIVE" /\ (t.since # None => t.since = row.pw)
    /\ ~row.mustChange

\* A device that gave the password keeps it while it may not act, too: an account
\* that is enabled again has it still; one that is anonymized never comes back.
DeviceFits(row, d) ==
  d.method = "PASSWORD" /\ ~row.mustChange /\ row.status # "ANONYMIZED" =>
    d.since = row.pw

Bound ==
  /\ \A s \in sessions : SessionFits(user[s.user], s)
  /\ \A t \in refresh : TokenFits(user[t.user], t)
  /\ \A d \in devices : DeviceFits(user[d.user], d)

\* The tokens and sessions of a family are of one user: what revokes a user's
\* credentials revokes whole families.  With FamilyEnds, of given sessions and
\* tokens.
FamiliesOf(ss, ts) ==
  /\ \A r, t \in ts : r.family = t.family => r.user = t.user
  /\ \A s \in ss : \A t \in ts : s.family = t.family => s.user = t.user
  /\ \A t \in ts :
       /\ Usable(t) => \A r \in ts : r.family = t.family /\ Usable(r) => r = t
       /\ t.revoked => /\ \A r \in ts : r.family = t.family /\ Usable(r) => r.missed = TRUE
                       /\ \A s \in ss : s.family = t.family => s.missed = TRUE

Families == FamiliesOf(sessions, refresh)

CredsTyped ==
  /\ reset \in [User -> BOOLEAN]
  /\ sessions \subseteq Session
  /\ \A s \in sessions : s.audience = "MAIN" <=> s.family = None
  /\ refresh \subseteq Token /\ devices \subseteq Device

\* A transaction that revokes what it sees of an account sees nothing of others.
SeesOwn ==
  snapshot # None =>
    /\ \A s \in snapshot.sessions : s.user = snapshot.target
    /\ \A t \in snapshot.refresh : t.user = snapshot.target

IInv == TypeOK /\ Bound /\ Families /\ SeesOwn

(***************************************************************************)
(* What is taken away.                                                     *)
(***************************************************************************)

LEMMA OthersProperty ==
  ASSUME NEW rows, NEW u
  PROVE  /\ Others(rows, u) \subseteq rows
         /\ \A r \in Others(rows, u) : r.user # u
         /\ \A r \in rows : r.user # u => r \in Others(rows, u)
BY DEF Others

\* The tokens of a user are revoked, and the others are left alone.
LEMMA RevokedProperty ==
  ASSUME refresh \subseteq Token, NEW u
  PROVE  /\ RevokedTokens(u) \subseteq Token
         /\ \A r \in RevokedTokens(u) :
              /\ r.user = u => r.revoked
              /\ r.user # u => r \in refresh
              /\ \E t \in refresh : r.family = t.family /\ r.user = t.user
<1> DEFINE image(t) == IF t.user = u THEN [t EXCEPT !.revoked = TRUE] ELSE t
<1>1. RevokedTokens(u) = {image(t) : t \in refresh}
  BY DEF RevokedTokens
<1>2. ASSUME NEW t \in refresh
      PROVE  /\ image(t) \in Token /\ image(t).family = t.family /\ image(t).user = t.user
             /\ t.user = u => image(t).revoked
             /\ t.user # u => image(t) = t
  <2>1. t \in Token
    OBVIOUS
  <2> QED BY <2>1 DEF Token
<1> HIDE DEF image
<1>3. ASSUME NEW r \in RevokedTokens(u)
      PROVE  /\ r \in Token
             /\ r.user = u => r.revoked
             /\ r.user # u => r \in refresh
             /\ \E t \in refresh : r.family = t.family /\ r.user = t.user
  <2>1. PICK t \in refresh : r = image(t)
    BY <1>1
  <2> QED BY <1>2, <2>1
<1> QED BY <1>3

LEMMA RevokePasswordDevicesProperty ==
  ASSUME NEW u, RevokePasswordDevices(u)
  PROVE  /\ devices' \subseteq devices
         /\ \A d \in devices' : d.user = u => d.method = "PAIRING"
BY DEF RevokePasswordDevices

(***************************************************************************)
(* The rows of users.                                                      *)
(***************************************************************************)

\* A transaction that changes one row changes its version, and what it says it
\* changes.
Changed(u, row) ==
  /\ user' \in [User -> Row]
  /\ \A v \in User \ {u} : user'[v] = user[v]
  /\ user'[u].role = row.role /\ user'[u].status = row.status
  /\ user'[u].mustChange = row.mustChange /\ user'[u].pw = row.pw

LEMMA ChangeProperty ==
  ASSUME user \in [User -> Row], NEW u \in User, NEW row \in Row, Change(u, row)
  PROVE  Changed(u, row)
<1> DEFINE new == [row EXCEPT !.version = user[u].version + 1]
<1>1. user' = [user EXCEPT ![u] = new]
  BY DEF Change
<1>2. user[u].version + 1 \in 0 .. MaxVersion
  <2>1. user[u].version \in 0 .. MaxVersion /\ MaxVersion \in Nat
    BY AccountConstants DEF Row
  <2> QED BY <2>1 DEF Change
<1>3. /\ new \in Row /\ new.role = row.role /\ new.status = row.status
      /\ new.mustChange = row.mustChange /\ new.pw = row.pw
  BY <1>2 DEF Row
<1> HIDE DEF new
<1> QED BY <1>1, <1>3 DEF Changed

LEMMA NewPasswordProperty ==
  ASSUME user \in [User -> Row], NEW u \in User, NEW temporary \in BOOLEAN,
         user[u].version < MaxVersion
  PROVE  /\ NewPassword(u, temporary) \in Row
         /\ NewPassword(u, temporary).mustChange = temporary
         /\ NewPassword(u, temporary).role = user[u].role
         /\ NewPassword(u, temporary).status = user[u].status
<1>1. user[u].version \in 0 .. MaxVersion /\ MaxVersion \in Nat
  BY AccountConstants DEF Row
<1>2. user[u].version + 1 \in 0 .. MaxVersion
  BY <1>1
<1> QED BY <1>2 DEF NewPassword, Row

\* Of the credentials left after a change of a row, those of other users are what
\* they were, and those of its user fit what it has become.
LEMMA BoundAfter ==
  ASSUME TypeOK, Bound, NEW u \in User, NEW row, Changed(u, row),
         \A s \in sessions' : \/ s \in sessions /\ s.user # u
                              \/ s.user = u /\ SessionFits(row, s),
         \A t \in refresh' : \/ t \in refresh /\ t.user # u
                             \/ t.user = u /\ TokenFits(row, t),
         \A d \in devices' : \/ d \in devices /\ d.user # u
                             \/ d.user = u /\ DeviceFits(row, d)
  PROVE  Bound'
<1>1. \A s \in sessions : s.user \in User
  BY DEF TypeOK, Session
<1>2. \A t \in refresh : t.user \in User
  BY DEF TypeOK, Token
<1>3. \A d \in devices : d.user \in User
  BY DEF TypeOK, Device
<1>4. ASSUME NEW s \in sessions'
      PROVE  SessionFits(user'[s.user], s)
  <2>1. CASE s \in sessions /\ s.user # u
    BY <1>1, <2>1 DEF Bound, Changed
  <2>2. CASE s.user = u /\ SessionFits(row, s)
    BY <2>2 DEF Changed, SessionFits
  <2> QED BY <1>4, <2>1, <2>2
<1>5. ASSUME NEW t \in refresh'
      PROVE  TokenFits(user'[t.user], t)
  <2>1. CASE t \in refresh /\ t.user # u
    BY <1>2, <2>1 DEF Bound, Changed
  <2>2. CASE t.user = u /\ TokenFits(row, t)
    BY <2>2 DEF Changed, TokenFits
  <2> QED BY <1>5, <2>1, <2>2
<1>6. ASSUME NEW d \in devices'
      PROVE  DeviceFits(user'[d.user], d)
  <2>1. CASE d \in devices /\ d.user # u
    BY <1>3, <2>1 DEF Bound, Changed
  <2>2. CASE d.user = u /\ DeviceFits(row, d)
    BY <2>2 DEF Changed, DeviceFits
  <2> QED BY <1>6, <2>1, <2>2
<1> QED BY <1>4, <1>5, <1>6 DEF Bound, SessionFits, TokenFits, DeviceFits

(***************************************************************************)
(* Families.                                                               *)
(***************************************************************************)

\* Sessions may end while their tokens stay.
LEMMA FamiliesFewer ==
  ASSUME NEW ss, NEW ts, NEW fewer \in SUBSET ss, FamiliesOf(ss, ts)
  PROVE  FamiliesOf(fewer, ts)
BY DEF FamiliesOf

\* A user's sessions go, and his tokens.
LEMMA FamiliesDeleted ==
  ASSUME NEW ss, NEW ts, NEW u, FamiliesOf(ss, ts)
  PROVE  FamiliesOf(Others(ss, u), Others(ts, u))
<1>1. Others(ss, u) \subseteq ss /\ Others(ts, u) \subseteq ts
  BY OthersProperty
<1> QED BY <1>1 DEF FamiliesOf

\* A user's sessions are gone or were missed, and his tokens are revoked or were
\* missed.
TakenFrom(u, ss, ts, fewer, left) ==
  /\ \A s \in fewer :
       /\ \E o \in ss : s.family = o.family /\ s.user = o.user
       /\ s.user = u => s.missed = TRUE
       /\ s.user # u => s \in ss
  /\ \A t \in left :
       /\ \E o \in ts : t.family = o.family /\ t.user = o.user
       /\ t.user = u => t.revoked \/ t.missed = TRUE
       /\ t.user # u => t \in ts
       /\ t.user = u /\ Usable(t) =>
            \E o \in ts : Usable(o) /\ t.family = o.family /\ t = [o EXCEPT !.missed = TRUE]

LEMMA FamiliesRevoked ==
  ASSUME NEW ss, NEW ts, NEW fewer, NEW left, NEW u, FamiliesOf(ss, ts),
         TakenFrom(u, ss, ts, fewer, left)
  PROVE  FamiliesOf(fewer, left)
<1> USE DEF TakenFrom
<1>1. \A r, t \in left : r.family = t.family => r.user = t.user
  BY DEF FamiliesOf
<1>2. \A s \in fewer : \A t \in left : s.family = t.family => s.user = t.user
  BY DEF FamiliesOf
<1>3. ASSUME NEW t \in left, Usable(t), NEW r \in left, r.family = t.family, Usable(r)
      PROVE  r = t
  <2>1. CASE t.user = u
    <3>1. r.user = u
      BY <1>1, <1>3, <2>1
    <3>2. PICK o \in ts : /\ Usable(o) /\ t.family = o.family
                           /\ t = [o EXCEPT !.missed = TRUE]
      BY <1>3, <2>1
    <3>3. PICK q \in ts : /\ Usable(q) /\ r.family = q.family
                           /\ r = [q EXCEPT !.missed = TRUE]
      BY <1>3, <3>1
    <3>4. q = o
      BY <1>3, <3>2, <3>3 DEF FamiliesOf
    <3> QED BY <3>2, <3>3, <3>4
  <2>2. CASE t.user # u
    <3>1. r.user # u
      BY <1>1, <1>3, <2>2
    <3> QED BY <1>3, <2>2, <3>1 DEF FamiliesOf
  <2> QED BY <2>1, <2>2
<1>4. ASSUME NEW t \in left, t.revoked
      PROVE  /\ \A r \in left : r.family = t.family /\ Usable(r) => r.missed = TRUE
             /\ \A s \in fewer : s.family = t.family => s.missed = TRUE
  <2>1. CASE t.user = u
    <3>1. ASSUME NEW r \in left, r.family = t.family, Usable(r)
          PROVE  r.missed = TRUE
      BY <1>1, <2>1, <3>1 DEF Usable
    <3>2. ASSUME NEW s \in fewer, s.family = t.family
          PROVE  s.missed = TRUE
      BY <1>2, <2>1, <3>2
    <3> QED BY <3>1, <3>2
  <2>2. CASE t.user # u
    <3>1. ASSUME NEW r \in left, r.family = t.family, Usable(r)
          PROVE  r.missed = TRUE
      BY <1>1, <1>4, <2>2, <3>1 DEF FamiliesOf
    <3>2. ASSUME NEW s \in fewer, s.family = t.family
          PROVE  s.missed = TRUE
      BY <1>2, <1>4, <2>2, <3>2 DEF FamiliesOf
    <3> QED BY <3>1, <3>2
  <2> QED BY <2>1, <2>2
<1> QED BY <1>1, <1>2, <1>3, <1>4 DEF FamiliesOf

\* A new family has a name that no token bears, and no session.
LEMMA FamiliesOpened ==
  ASSUME NEW ss, NEW ts, FamiliesOf(ss, ts), NEW u, NEW since, NEW f \in Family,
         \A t \in ts : t.family # f, \A s \in ss : s.family # f
  PROVE  FamiliesOf(ss \cup {MobileSession(u, f, since, FALSE)},
                    ts \cup {RefreshToken(u, f, 1, since, FALSE)})
<1> DEFINE s1 == MobileSession(u, f, since, FALSE)
           t1 == RefreshToken(u, f, 1, since, FALSE)
<1>1. s1.family = f /\ s1.user = u
  BY DEF MobileSession
<1>2. t1.family = f /\ t1.user = u /\ t1.revoked = FALSE
  BY DEF RefreshToken
<1> HIDE DEF s1, t1
<1>3. \A r, t \in ts \cup {t1} : r.family = t.family => r.user = t.user
  BY <1>2 DEF FamiliesOf
<1>4. \A s \in ss \cup {s1} : \A t \in ts \cup {t1} :
        s.family = t.family => s.user = t.user
  BY <1>1, <1>2 DEF FamiliesOf
<1>5. ASSUME NEW t \in ts \cup {t1}, Usable(t),
             NEW r \in ts \cup {t1}, r.family = t.family, Usable(r)
      PROVE  r = t
  BY <1>2, <1>5 DEF FamiliesOf
<1>6. ASSUME NEW t \in ts \cup {t1}, t.revoked
      PROVE  /\ \A r \in ts \cup {t1} :
                  r.family = t.family /\ Usable(r) => r.missed = TRUE
             /\ \A s \in ss \cup {s1} : s.family = t.family => s.missed = TRUE
  BY <1>1, <1>2, <1>6 DEF FamiliesOf
<1>7. FamiliesOf(ss \cup {s1}, ts \cup {t1})
  BY <1>3, <1>4, <1>5, <1>6 DEF FamiliesOf
<1> QED BY <1>7 DEF s1, t1

(***************************************************************************)
(* Transactions on one account.                                            *)
(***************************************************************************)

CredsInv == user \in [User -> Row] /\ CredsTyped /\ Bound /\ Families

LEMMA TypesKnown ==
  ASSUME TypeOK
  PROVE  /\ user \in [User -> Row] /\ CredsTyped
         /\ sessions \subseteq Session /\ refresh \subseteq Token
         /\ devices \subseteq Device /\ reset \in [User -> BOOLEAN]
BY DEF TypeOK, CredsTyped

\* Nothing is taken away where what was in force stays so.
LEMMA RowKept ==
  ASSUME IInv, NEW u \in User, NEW row \in Row, Change(u, row), UNCHANGED creds,
         row.pw = user[u].pw, row.mustChange = user[u].mustChange,
         \/ row.status = user[u].status
         \/ user[u].status = "DISABLED" /\ row.status = "ACTIVE"
  PROVE  CredsInv'
<1>1. /\ user \in [User -> Row] /\ CredsTyped /\ TypeOK /\ Bound /\ Families
  BY TypesKnown DEF IInv
<1>2. Changed(u, row)
  BY <1>1, ChangeProperty
<1>3. UNCHANGED <<reset, sessions, refresh, devices>>
  BY DEF creds
<1>4. \A s \in sessions : s.user = u => SessionFits(row, s)
  BY <1>1 DEF Bound, SessionFits
<1>5. \A t \in refresh : t.user = u => TokenFits(row, t)
  BY <1>1 DEF Bound, TokenFits
<1>6. \A d \in devices : d.user = u => DeviceFits(row, d)
  BY <1>1 DEF Bound, DeviceFits
<1>7. Bound'
  BY <1>1, <1>2, <1>3, <1>4, <1>5, <1>6, BoundAfter
<1>8. CredsTyped' /\ Families'
  BY <1>1, <1>3 DEF CredsTyped, Families
<1> QED BY <1>2, <1>7, <1>8 DEF CredsInv, Changed

\* The credentials of the account are revoked; the devices that are left fit.
LEMMA RowRevoked ==
  ASSUME IInv, NEW u \in User, NEW row \in Row, Change(u, row),
         RevokeAccountCredentials(u), devices' \subseteq devices,
         \A d \in devices' : d.user = u => DeviceFits(row, d)
  PROVE  CredsInv'
<1>1. /\ user \in [User -> Row] /\ CredsTyped /\ TypeOK /\ Bound /\ Families
      /\ sessions \subseteq Session /\ refresh \subseteq Token
      /\ devices \subseteq Device /\ reset \in [User -> BOOLEAN]
  BY TypesKnown DEF IInv
<1>2. Changed(u, row)
  BY <1>1, ChangeProperty
<1>3. /\ sessions' = Others(sessions, u) /\ refresh' = RevokedTokens(u)
      /\ reset' = [reset EXCEPT ![u] = FALSE]
  BY DEF RevokeAccountCredentials
<1>4. /\ sessions' \subseteq sessions /\ \A s \in sessions' : s.user # u
  BY <1>3, OthersProperty
<1>5. /\ refresh' \subseteq Token
      /\ \A t \in refresh' : /\ t.user = u => t.revoked
                             /\ t.user # u => t \in refresh
                             /\ \E o \in refresh : t.family = o.family /\ t.user = o.user
  BY <1>1, <1>3, RevokedProperty
<1>6. \A t \in refresh' : t.user = u => TokenFits(row, t)
  BY <1>5 DEF TokenFits, Usable
<1>7. Bound'
  BY <1>1, <1>2, <1>4, <1>5, <1>6, BoundAfter
<1>8. Families'
  <2>1. \A t \in refresh' : t.user = u => ~Usable(t)
    BY <1>5 DEF Usable
  <2>2. TakenFrom(u, sessions, refresh, sessions', refresh')
    BY <1>4, <1>5, <2>1 DEF TakenFrom
  <2> QED BY <1>1, <2>2, FamiliesRevoked DEF Families
<1>9. reset' \in [User -> BOOLEAN]
  BY <1>1, <1>3
<1>10. CredsTyped'
  BY <1>1, <1>4, <1>5, <1>9 DEF CredsTyped
<1> QED BY <1>2, <1>7, <1>8, <1>10 DEF CredsInv, Changed

\* A transaction takes away what it sees: by revoking the tokens, or with them.
Revokes(u, kept) ==
  /\ Finds(sessions, snapshot.sessions) /\ Finds(refresh, snapshot.refresh)
  /\ sessions' = Missed(sessions, snapshot.sessions, u)
  /\ refresh' = Missed(refresh, snapshot.refresh, u)
       \cup {[t EXCEPT !.revoked = TRUE] : t \in kept}
  /\ kept \subseteq snapshot.refresh

LEMMA RowRevokedSeen ==
  ASSUME IInv, NEW u \in User, NEW row \in Row, Change(u, row),
         snapshot # None, snapshot.target = u, NEW kept, Revokes(u, kept),
         reset' \in [User -> BOOLEAN], devices' \subseteq devices,
         \A d \in devices' : d.user = u => DeviceFits(row, d)
  PROVE  CredsInv'
<1>1. /\ user \in [User -> Row] /\ CredsTyped /\ TypeOK /\ Bound /\ Families
      /\ sessions \in SUBSET Session /\ refresh \in SUBSET Token
      /\ devices \subseteq Device
  BY TypesKnown DEF IInv
<1>2. Changed(u, row)
  BY <1>1, ChangeProperty
<1>3. ASSUME NEW s \in sessions'
      PROVE  /\ s \in Session
             /\ s.audience = "MAIN" <=> s.family = None
             /\ s.user = u => s.missed = TRUE
             /\ s.user # u => s \in sessions
             /\ \E o \in sessions : s.family = o.family /\ s.user = o.user
  <2>1. PICK o \in sessions : s = [o EXCEPT !.missed = o.missed \/ o.user = u]
    BY DEF Revokes, Missed
  <2>2. o \in Session
    BY <1>1
  <2>3. /\ s \in Session /\ s.family = o.family /\ s.user = o.user
        /\ s.audience = o.audience
        /\ s.user = u => s.missed = TRUE
        /\ s.user # u => s = o
    <3>1. o.missed \in BOOLEAN
      BY <2>2 DEF Session
    <3>2. CASE o.user = u
      <4>1. (o.missed \/ o.user = u) = TRUE
        BY <3>2
      <4>2. s = [o EXCEPT !.missed = TRUE]
        BY <2>1, <4>1
      <4> QED BY <2>2, <3>2, <4>2 DEF Session
    <3>3. CASE o.user # u
      <4>1. (o.missed \/ o.user = u) = o.missed
        BY <3>1, <3>3
      <4>2. s = o
        BY <2>1, <2>2, <4>1 DEF Session
      <4> QED BY <2>2, <3>3, <4>2
    <3> QED BY <3>2, <3>3
  <2> QED BY <1>1, <2>3 DEF CredsTyped
<1>4. ASSUME NEW t \in refresh'
      PROVE  /\ t \in Token
             /\ t.user = u => t.revoked \/ t.missed = TRUE
             /\ t.user # u => t \in refresh
             /\ \E o \in refresh : t.family = o.family /\ t.user = o.user
             /\ t.user = u /\ Usable(t) =>
                  \E o \in refresh : /\ Usable(o) /\ t.family = o.family
                                     /\ t = [o EXCEPT !.missed = TRUE]
  <2>1. CASE t \in Missed(refresh, snapshot.refresh, u)
    <3>1. PICK o \in refresh : t = [o EXCEPT !.missed = o.missed \/ o.user = u]
      BY <2>1 DEF Missed
    <3>2. o \in Token
      BY <1>1
    <3>3. /\ t \in Token /\ t.family = o.family /\ t.user = o.user
          /\ Usable(t) <=> Usable(o)
          /\ t.user = u => t.missed = TRUE /\ t = [o EXCEPT !.missed = TRUE]
          /\ t.user # u => t = o
      <4>1. o.missed \in BOOLEAN
        BY <3>2 DEF Token
      <4>2. CASE o.user = u
        <5>1. (o.missed \/ o.user = u) = TRUE
          BY <4>2
        <5>2. t = [o EXCEPT !.missed = TRUE]
          BY <3>1, <5>1
        <5> QED BY <3>2, <4>2, <5>2 DEF Token, Usable
      <4>3. CASE o.user # u
        <5>1. (o.missed \/ o.user = u) = o.missed
          BY <4>1, <4>3
        <5>2. t = o
          BY <3>1, <3>2, <5>1 DEF Token
        <5> QED BY <3>2, <4>3, <5>2
      <4> QED BY <4>2, <4>3
    <3> QED BY <3>3
  <2>2. CASE t \in {[o EXCEPT !.revoked = TRUE] : o \in kept}
    <3>1. PICK o \in kept : t = [o EXCEPT !.revoked = TRUE]
      BY <2>2
    <3>2. o \in refresh /\ o.user = u
      BY <3>1 DEF Revokes, Finds, IInv, SeesOwn
    <3>3. /\ t \in Token /\ t.family = o.family /\ t.user = o.user /\ t.revoked
      BY <1>1, <3>1, <3>2 DEF Token
    <3> QED BY <3>2, <3>3 DEF Usable
  <2> QED BY <2>1, <2>2 DEF Revokes
<1>5. \A t \in refresh' : t.user = u => TokenFits(row, t)
  BY <1>4 DEF TokenFits, Usable
<1>6. \A s \in sessions' : s.user = u => SessionFits(row, s)
  BY <1>3 DEF SessionFits
<1>7. Bound'
  <2>1. \A s \in sessions' : \/ s \in sessions /\ s.user # u
                             \/ s.user = u /\ SessionFits(row, s)
    BY <1>3, <1>6
  <2>2. \A t \in refresh' : \/ t \in refresh /\ t.user # u
                            \/ t.user = u /\ TokenFits(row, t)
    BY <1>4, <1>5
  <2>3. \A d \in devices' : \/ d \in devices /\ d.user # u
                            \/ d.user = u /\ DeviceFits(row, d)
    OBVIOUS
  <2> QED BY <1>1, <1>2, <2>1, <2>2, <2>3, BoundAfter
<1>8. FamiliesOf(sessions', refresh')
  <2>1. TakenFrom(u, sessions, refresh, sessions', refresh')
    BY <1>3, <1>4 DEF TakenFrom
  <2> QED BY <1>1, <2>1, FamiliesRevoked DEF Families
<1>9. CredsTyped'
  BY <1>1, <1>3, <1>4 DEF CredsTyped
<1> QED BY <1>2, <1>7, <1>8, <1>9 DEF CredsInv, Changed, Families

\* revokeAccountCredentials does, and leaves the devices.
LEMMA RowSeenRevoked ==
  ASSUME IInv, NEW u \in User, NEW row \in Row, Change(u, row),
         snapshot # None, snapshot.target = u, RevokeSeen(u), devices' = devices,
         \A d \in devices : d.user = u => DeviceFits(row, d)
  PROVE  CredsInv'
<1>1. Revokes(u, snapshot.refresh)
  BY DEF RevokeSeen, Revokes
<1>2. reset' \in [User -> BOOLEAN]
  BY DEF RevokeSeen, IInv, TypeOK
<1> QED BY <1>1, <1>2, RowRevokedSeen

\* The rows of the account's credentials are deleted.
LEMMA RowDeleted ==
  ASSUME IInv, NEW u \in User, NEW row \in Row, Change(u, row),
         sessions' = Others(sessions, u), refresh' = Others(refresh, u),
         reset' \in [User -> BOOLEAN], devices' \subseteq devices,
         \A d \in devices' : d.user = u => DeviceFits(row, d)
  PROVE  CredsInv'
<1>1. /\ user \in [User -> Row] /\ CredsTyped /\ TypeOK /\ Bound /\ Families
      /\ sessions \subseteq Session /\ refresh \subseteq Token
      /\ devices \subseteq Device
  BY TypesKnown DEF IInv
<1>2. Changed(u, row)
  BY <1>1, ChangeProperty
<1>3. /\ sessions' \subseteq sessions /\ \A s \in sessions' : s.user # u
      /\ refresh' \subseteq refresh /\ \A t \in refresh' : t.user # u
  BY OthersProperty
<1>4. Bound'
  BY <1>1, <1>2, <1>3, BoundAfter
<1>5. Families'
  BY <1>1, FamiliesDeleted DEF Families
<1>6. CredsTyped'
  BY <1>1, <1>3 DEF CredsTyped
<1> QED BY <1>2, <1>4, <1>5, <1>6 DEF CredsInv, Changed

(***************************************************************************)
(* Administrators.                                                         *)
(***************************************************************************)

\* Whom an administrator acts on, and that nothing was deleted of him.
LEMMA PrivilegedProperty ==
  ASSUME IInv, NEW actor \in User, Privileged(actor)
  PROVE  /\ snapshot # None
         /\ snapshot.target \in User
         /\ user[snapshot.target] \in Row
         /\ user[snapshot.target].status \in {"ACTIVE", "DISABLED"}
         /\ actor \in Admins
         /\ devices' = devices
<1>1. snapshot # None /\ snapshot \in Snapshot
  BY DEF IInv, TypeOK, Privileged, Commits
<1>2. snapshot.target \in User
  BY <1>1 DEF Snapshot
<1>3. user \in [User -> Row]
  BY DEF IInv, TypeOK
<1> QED BY <1>1, <1>2, <1>3 DEF Privileged

\* Devices of an account that keeps its password fit what becomes of it, if it
\* is not gone already.
LEMMA DevicesStay ==
  ASSUME IInv, NEW u \in User, NEW row, user[u].status # "ANONYMIZED",
         row.mustChange = user[u].mustChange, row.pw = user[u].pw
  PROVE  \A d \in devices : d.user = u => DeviceFits(row, d)
BY DEF IInv, Bound, DeviceFits

LEMMA AdminStepKeeps ==
  ASSUME IInv, NEW actor \in User, AdminStep(actor)
  PROVE  CredsInv'
<1> DEFINE u == snapshot.target
<1>1. Privileged(actor)
  BY DEF AdminStep, UpdateUserProfile, ChangeUserRole, DisableUser, EnableUser,
         AssignTemporaryPassword, RequestUserDeletion
<1>2. /\ u \in User /\ user[u] \in Row /\ user[u].status \in {"ACTIVE", "DISABLED"}
      /\ snapshot # None /\ snapshot.target = u /\ devices' = devices
  BY <1>1, PrivilegedProperty
<1>3. CASE UpdateUserProfile(actor)
  <2>1. Change(u, user[u]) /\ UNCHANGED creds
    BY <1>2, <1>3 DEF UpdateUserProfile, creds
  <2> HIDE DEF u
  <2> QED BY <1>2, <2>1, RowKept
<1>4. CASE ChangeUserRole(actor)
  <2>1. PICK role \in {"USER", "ADMIN"} : Change(u, [user[u] EXCEPT !.role = role])
    BY <1>4 DEF ChangeUserRole
  <2>2. RevokeSeen(u)
    BY <1>4 DEF ChangeUserRole
  <2> DEFINE row == [user[u] EXCEPT !.role = role]
  <2>3. /\ row \in Row /\ row.mustChange = user[u].mustChange /\ row.pw = user[u].pw
    BY <1>2 DEF Row
  <2>4. Change(u, row)
    BY <2>1
  <2> HIDE DEF u, row
  <2>5. \A d \in devices : d.user = u => DeviceFits(row, d)
    BY <1>2, <2>3, DevicesStay
  <2> QED BY <1>2, <2>2, <2>3, <2>4, <2>5, RowSeenRevoked
<1>5. CASE DisableUser(actor) \/ RequestUserDeletion(actor)
  <2>1. PICK status \in {"DISABLED", "DELETION_PENDING"} :
          Change(u, [user[u] EXCEPT !.status = status])
    BY <1>5 DEF DisableUser, RequestUserDeletion
  <2>2. RevokeSeen(u)
    BY <1>5 DEF DisableUser, RequestUserDeletion
  <2> DEFINE row == [user[u] EXCEPT !.status = status]
  <2>3. /\ row \in Row /\ row.mustChange = user[u].mustChange /\ row.pw = user[u].pw
    BY <1>2 DEF Row
  <2>4. Change(u, row)
    BY <2>1
  <2> HIDE DEF u, row
  <2>5. \A d \in devices : d.user = u => DeviceFits(row, d)
    BY <1>2, <2>3, DevicesStay
  <2> QED BY <1>2, <2>2, <2>3, <2>4, <2>5, RowSeenRevoked
<1>6. CASE EnableUser(actor)
  <2> DEFINE row == [user[u] EXCEPT !.status = "ACTIVE"]
  <2>1. Change(u, row) /\ UNCHANGED creds /\ user[u].status = "DISABLED"
    BY <1>2, <1>6 DEF EnableUser, creds
  <2>2. /\ row \in Row /\ row.mustChange = user[u].mustChange /\ row.pw = user[u].pw
        /\ row.status = "ACTIVE"
    BY <1>2 DEF Row
  <2> HIDE DEF u, row
  <2> QED BY <1>2, <2>1, <2>2, RowKept
<1>7. CASE AssignTemporaryPassword(actor)
  <2> DEFINE row == NewPassword(u, TRUE)
  <2>1. Change(u, row) /\ RevokeSeen(u)
    BY <1>7 DEF AssignTemporaryPassword
  <2>2. row \in Row /\ row.mustChange
    <3>1. user[u].version < MaxVersion /\ user \in [User -> Row]
      BY <2>1 DEF Change, IInv, TypeOK
    <3> HIDE DEF u
    <3> QED BY <1>2, <3>1, NewPasswordProperty
  <2> HIDE DEF u, row
  <2>3. \A d \in devices : d.user = u => DeviceFits(row, d)
    BY <2>2 DEF DeviceFits
  <2> QED BY <1>2, <2>1, <2>2, <2>3, RowSeenRevoked
<1> QED BY <1>3, <1>4, <1>5, <1>6, <1>7 DEF AdminStep

(***************************************************************************)
(* Scripts, owners and maintenance.                                        *)
(***************************************************************************)

LEMMA BootstrapKeeps ==
  ASSUME IInv, BootstrapFirstAdmin
  PROVE  CredsInv'
<1>1. PICK u \in User : Change(u, [user[u] EXCEPT !.role = "ADMIN"])
  BY DEF BootstrapFirstAdmin
<1> DEFINE row == [user[u] EXCEPT !.role = "ADMIN"]
<1>2. user[u] \in Row
  BY DEF IInv, TypeOK
<1>3. /\ row \in Row /\ row.mustChange = user[u].mustChange /\ row.pw = user[u].pw
      /\ row.status = user[u].status
  BY <1>2 DEF Row
<1>4. Change(u, row) /\ UNCHANGED creds
  BY <1>1 DEF BootstrapFirstAdmin
<1> HIDE DEF row
<1> QED BY <1>3, <1>4, RowKept

\* The password by which an account was entered is replaced.
LEMMA ReplacedPassword ==
  ASSUME IInv, NEW u \in User, NEW temporary \in BOOLEAN,
         Change(u, NewPassword(u, temporary))
  PROVE  /\ NewPassword(u, temporary) \in Row
         /\ NewPassword(u, temporary).mustChange = temporary
         /\ NewPassword(u, temporary).role = user[u].role
         /\ NewPassword(u, temporary).status = user[u].status
<1>1. user[u].version < MaxVersion /\ user \in [User -> Row]
  BY DEF Change, IInv, TypeOK
<1> QED BY <1>1, NewPasswordProperty

\* Devices that gave the password are gone, so that any row fits the others.
LEMMA PairedDevicesFit ==
  ASSUME NEW u, NEW row, RevokePasswordDevices(u)
  PROVE  /\ devices' \subseteq devices
         /\ \A d \in devices' : d.user = u => DeviceFits(row, d)
<1>1. /\ devices' \subseteq devices
      /\ \A d \in devices' : d.user = u => d.method = "PAIRING"
  BY RevokePasswordDevicesProperty
<1> QED BY <1>1 DEF DeviceFits

LEMMA ResetAdminKeeps ==
  ASSUME IInv, ResetAdminPassword
  PROVE  CredsInv'
<1> DEFINE u == snapshot.target
           row == NewPassword(u, TRUE)
<1>1. /\ snapshot # None /\ Change(u, row)
      /\ Finds(sessions, snapshot.sessions) /\ Finds(refresh, snapshot.refresh)
      /\ sessions' = Missed(sessions, snapshot.sessions, u)
      /\ refresh' = Missed(refresh, snapshot.refresh, u)
      /\ devices' = devices \ snapshot.devices /\ UNCHANGED reset
  BY DEF ResetAdminPassword, Commits
<1>2. u \in User
  BY <1>1 DEF IInv, TypeOK, Snapshot
<1>3. reset' \in [User -> BOOLEAN]
  BY <1>1 DEF IInv, TypeOK
<1>4. Revokes(u, {})
  BY <1>1 DEF Revokes
<1>5. snapshot.target = u
  OBVIOUS
<1> HIDE DEF u
<1>6. row \in Row /\ row.mustChange
  BY <1>1, <1>2, ReplacedPassword
<1> HIDE DEF row
<1>7. devices' \subseteq devices /\ \A d \in devices' : d.user = u => DeviceFits(row, d)
  BY <1>1, <1>6 DEF DeviceFits
<1> QED BY <1>1, <1>2, <1>3, <1>4, <1>5, <1>6, <1>7, RowRevokedSeen

LEMMA AnonymizeKeeps ==
  ASSUME IInv, AnonymizeUser
  PROVE  CredsInv'
<1>1. PICK u \in User \ Held :
        /\ Change(u, [NewPassword(u, FALSE) EXCEPT !.status = "ANONYMIZED",
                                                   !.role = "USER"])
        /\ sessions' = Others(sessions, u) /\ refresh' = Others(refresh, u)
        /\ reset' = [reset EXCEPT ![u] = FALSE] /\ UNCHANGED devices
  BY DEF AnonymizeUser
<1> DEFINE row == [NewPassword(u, FALSE) EXCEPT !.status = "ANONYMIZED", !.role = "USER"]
<1>2. NewPassword(u, FALSE) \in Row
  <2>1. user[u].version < MaxVersion /\ user \in [User -> Row]
    BY <1>1 DEF Change, IInv, TypeOK
  <2> QED BY <2>1, NewPasswordProperty
<1>3. row \in Row /\ row.status = "ANONYMIZED"
  BY <1>2 DEF Row
<1>4. reset' \in [User -> BOOLEAN]
  BY <1>1 DEF IInv, TypeOK
<1>5. Change(u, row)
  BY <1>1
<1> HIDE DEF row
<1>6. \A d \in devices' : d.user = u => DeviceFits(row, d)
  BY <1>3 DEF DeviceFits
<1> QED BY <1>1, <1>3, <1>4, <1>5, <1>6, RowDeleted

LEMMA ResetPasswordKeeps ==
  ASSUME IInv, ResetPassword
  PROVE  CredsInv'
<1>1. PICK u \in User :
        /\ Change(u, NewPassword(u, FALSE))
        /\ RevokeAccountCredentials(u) /\ RevokePasswordDevices(u)
  BY DEF ResetPassword
<1> DEFINE row == NewPassword(u, FALSE)
<1>2. row \in Row
  BY <1>1, ReplacedPassword
<1>3. Change(u, row)
  BY <1>1
<1> HIDE DEF row
<1> QED BY <1>1, <1>2, <1>3, PairedDevicesFit, RowRevoked

\* A temporary password is replaced: no token of the account could be used while
\* it was in force, but those that were missed, so that none need be revoked.
LEMMA ReplaceTemporaryKeeps ==
  ASSUME IInv, NEW u \in User, ReplaceTemporaryPassword(u)
  PROVE  CredsInv'
<1> DEFINE row == NewPassword(u, FALSE)
<1>1. /\ Change(u, row) /\ user[u].mustChange
      /\ sessions' = Others(sessions, u) /\ RevokePasswordDevices(u)
      /\ UNCHANGED <<reset, refresh>>
  BY DEF ReplaceTemporaryPassword
<1>2. row \in Row
  BY <1>1, ReplacedPassword
<1> HIDE DEF row
<1>3. /\ user \in [User -> Row] /\ CredsTyped /\ TypeOK /\ Bound /\ Families
  BY TypesKnown DEF IInv
<1>4. Changed(u, row)
  BY <1>1, <1>2, <1>3, ChangeProperty
<1>5. /\ sessions' \subseteq sessions /\ \A s \in sessions' : s.user # u
  BY <1>1, OthersProperty
<1>6. \A t \in refresh' : t.user = u => TokenFits(row, t)
  BY <1>1, <1>3 DEF Bound, TokenFits
<1>7. /\ devices' \subseteq devices
      /\ \A d \in devices' : d.user = u => DeviceFits(row, d)
  BY <1>1, PairedDevicesFit
<1>8. Bound'
  BY <1>1, <1>3, <1>4, <1>5, <1>6, <1>7, BoundAfter
<1>9. Families'
  BY <1>1, <1>3, <1>5, FamiliesFewer DEF Families
<1>10. CredsTyped'
  BY <1>1, <1>3, <1>5, <1>7 DEF CredsTyped
<1> QED BY <1>4, <1>8, <1>9, <1>10 DEF CredsInv, Changed

LEMMA RequestDeletionKeeps ==
  ASSUME IInv, RequestMobileAccountDeletion
  PROVE  CredsInv'
<1> DEFINE u == snapshot.target
           row == [user[u] EXCEPT !.status = "DELETION_PENDING"]
<1>1. /\ snapshot # None /\ Change(u, row) /\ RevokeSeen(u) /\ devices' = devices
      /\ user[u].status = "ACTIVE"
  BY DEF RequestMobileAccountDeletion, Commits, Active
<1>2. u \in User /\ user[u] \in Row
  BY <1>1 DEF IInv, TypeOK, Snapshot
<1>3. /\ row \in Row /\ row.mustChange = user[u].mustChange /\ row.pw = user[u].pw
  BY <1>2 DEF Row
<1>4. snapshot.target = u
  OBVIOUS
<1> HIDE DEF u, row
<1>5. \A d \in devices : d.user = u => DeviceFits(row, d)
  BY <1>1, <1>2, <1>3, DevicesStay
<1> QED BY <1>1, <1>2, <1>3, <1>4, <1>5, RowSeenRevoked

\* What a new family adds to an account.
LEMMA OpenedTyped ==
  ASSUME NEW u \in User, NEW f \in Family, NEW since \in Since
  PROVE  /\ MobileSession(u, f, since, FALSE) \in Session
         /\ MobileSession(u, f, since, FALSE).audience = "MOBILE"
         /\ MobileSession(u, f, since, FALSE).family # None
         /\ MobileSession(u, f, since, FALSE).user = u
         /\ MobileSession(u, f, since, FALSE).since = since
         /\ RefreshToken(u, f, 1, since, FALSE) \in Token
         /\ RefreshToken(u, f, 1, since, FALSE).user = u
         /\ RefreshToken(u, f, 1, since, FALSE).since = since
<1>1. 1 \in Nat \ {0} /\ f # None
  BY AccountConstants
<1> QED BY <1>1 DEF MobileSession, RefreshToken, Session, Token

LEMMA ChangeMobilePasswordKeeps ==
  ASSUME IInv, NEW u \in User, ChangeMobilePassword(u)
  PROVE  CredsInv'
<1> DEFINE row == NewPassword(u, FALSE)
<1>1. PICK f \in FreshFamily :
        /\ Change(u, row)
        /\ sessions' = Others(sessions, u) \cup {MobileSession(u, f, user'[u].pw, FALSE)}
        /\ refresh' = RevokedTokens(u) \cup {RefreshToken(u, f, 1, user'[u].pw, FALSE)}
        /\ reset' = [reset EXCEPT ![u] = FALSE]
        /\ RevokePasswordDevices(u)
  BY DEF ChangeMobilePassword
<1>2. row \in Row /\ row.mustChange = FALSE /\ row.status = "ACTIVE"
  BY <1>1, ReplacedPassword DEF ChangeMobilePassword, StillCurrent, Active
<1> HIDE DEF row
<1>3. /\ user \in [User -> Row] /\ CredsTyped /\ TypeOK /\ Bound /\ Families
      /\ sessions \subseteq Session /\ refresh \subseteq Token
      /\ reset \in [User -> BOOLEAN]
  BY TypesKnown DEF IInv
<1>4. Changed(u, row) /\ user'[u].pw = row.pw
  BY <1>1, <1>2, <1>3, ChangeProperty DEF Changed
<1>5. /\ f \in Family /\ \A t \in refresh : t.family # f
      /\ \A s \in sessions : s.family # f
  BY <1>1 DEF FreshFamily
<1>6. row.pw \in Since
  BY <1>2 DEF Row, Since
<1> DEFINE s1 == MobileSession(u, f, row.pw, FALSE)
           t1 == RefreshToken(u, f, 1, row.pw, FALSE)
<1>7. /\ s1 \in Session /\ s1.audience = "MOBILE" /\ s1.family # None
      /\ s1.user = u /\ s1.since = row.pw
      /\ t1 \in Token /\ t1.user = u /\ t1.since = row.pw
  <2>1. /\ s1 \in Session /\ s1.audience = "MOBILE" /\ s1.family # None
        /\ s1.user = u /\ s1.since = row.pw
    BY <1>5, <1>6, OpenedTyped
  <2>2. t1 \in Token /\ t1.user = u /\ t1.since = row.pw
    BY <1>5, <1>6, OpenedTyped
  <2> QED BY <2>1, <2>2
<1>8. /\ sessions' = Others(sessions, u) \cup {s1}
      /\ refresh' = RevokedTokens(u) \cup {t1}
  BY <1>1, <1>4
<1>9. /\ Others(sessions, u) \subseteq sessions
      /\ \A s \in Others(sessions, u) : s.user # u
  BY OthersProperty
<1>10. /\ RevokedTokens(u) \subseteq Token
       /\ \A t \in RevokedTokens(u) : /\ t.user = u => t.revoked
                                      /\ t.user # u => t \in refresh
                                      /\ \E o \in refresh : t.family = o.family /\ t.user = o.user
  BY <1>3, RevokedProperty
<1>11. Families'
  <2>1. FamiliesOf(Others(sessions, u), RevokedTokens(u))
    <3>1. \A t \in RevokedTokens(u) : t.user = u => ~Usable(t)
      BY <1>10 DEF Usable
    <3>2. TakenFrom(u, sessions, refresh, Others(sessions, u), RevokedTokens(u))
      BY <1>9, <1>10, <3>1 DEF TakenFrom
    <3> QED BY <1>3, <3>2, FamiliesRevoked DEF Families
  <2>2. \A t \in RevokedTokens(u) : t.family # f
    BY <1>5, <1>10
  <2>3. FamiliesOf(sessions', refresh')
    BY <1>5, <1>8, <1>9, <2>1, <2>2, FamiliesOpened
  <2> QED BY <2>3 DEF Families
<1> HIDE DEF s1, t1
<1>12. \A t \in refresh' : \/ t \in refresh /\ t.user # u
                           \/ t.user = u /\ TokenFits(row, t)
  BY <1>2, <1>7, <1>8, <1>10 DEF TokenFits, Usable
<1>13. \A s \in sessions' : \/ s \in sessions /\ s.user # u
                            \/ s.user = u /\ SessionFits(row, s)
  BY <1>2, <1>7, <1>8, <1>9 DEF SessionFits
<1>14. /\ devices' \subseteq devices
       /\ \A d \in devices' : d.user = u => DeviceFits(row, d)
  BY <1>1, PairedDevicesFit
<1>15. Bound'
  BY <1>3, <1>4, <1>12, <1>13, <1>14, BoundAfter
<1>16. reset' \in [User -> BOOLEAN]
  BY <1>1, <1>3
<1>17. CredsTyped'
  <2>1. sessions' \subseteq Session /\ refresh' \subseteq Token
    BY <1>3, <1>7, <1>8, <1>9, <1>10
  <2>2. \A s \in sessions' : s.audience = "MAIN" <=> s.family = None
    BY <1>3, <1>7, <1>8, <1>9 DEF CredsTyped
  <2> QED BY <1>3, <1>14, <1>16, <2>1, <2>2 DEF CredsTyped
<1> QED BY <1>4, <1>11, <1>15, <1>17 DEF CredsInv, Changed

(***************************************************************************)
(* Signing in.  No row of users changes, and what is issued fits the row    *)
(* that the transaction reads.                                             *)
(***************************************************************************)

\* The password that was compared, if it is still that of the account.
LEMMA SignedInByProperty ==
  ASSUME IInv, NEW u \in User, call # None
  PROVE  /\ SignedInBy(u) \in Since
         /\ SignedInBy(u) # None => SignedInBy(u) = user[u].pw
<1>1. call \in Request
  BY DEF IInv, TypeOK
<1>2. call.seen \in 0 .. MaxVersion
  BY <1>1 DEF Request
<1> QED BY <1>2 DEF SignedInBy, Since

LEMMA CreateSessionKeeps ==
  ASSUME IInv, NEW u \in User, CreateSession(u)
  PROVE  CredsInv'
<1> DEFINE since == SignedInBy(u)
           s1 == [user |-> u, audience |-> "MAIN", family |-> None,
                  since |-> since, missed |-> FALSE]
<1>1. /\ sessions' = sessions \cup {s1} /\ user[u].status = "ACTIVE" /\ call # None
      /\ UNCHANGED <<user, reset, refresh, devices>>
  BY DEF CreateSession, Active, Answers
<1>2. /\ user \in [User -> Row] /\ CredsTyped /\ TypeOK /\ Bound /\ Families
  BY TypesKnown DEF IInv
<1>3. since \in Since /\ (since # None => since = user[u].pw)
  BY <1>1, SignedInByProperty
<1> HIDE DEF since
<1>4. /\ s1 \in Session /\ s1.audience = "MAIN" /\ s1.family = None
      /\ SessionFits(user[u], s1) /\ s1.user = u
  BY <1>1, <1>3 DEF Session, SessionFits
<1> HIDE DEF s1
<1>5. CredsTyped'
  BY <1>1, <1>2, <1>4 DEF CredsTyped
<1>6. Bound'
  BY <1>1, <1>2, <1>4 DEF Bound
<1>7. Families'
  <2>1. \A t \in refresh : t.family # s1.family
    BY <1>2, <1>4, AccountConstants DEF CredsTyped, Token
  <2> QED BY <1>1, <1>2, <2>1 DEF Families, FamiliesOf
<1> QED BY <1>1, <1>2, <1>5, <1>6, <1>7 DEF CredsInv

\* A family is opened for an account that may have one.
LEMMA OpenedKeeps ==
  ASSUME IInv, NEW u \in User, user[u].status = "ACTIVE", ~user[u].mustChange,
         NEW since \in Since, since # None => since = user[u].pw,
         NEW f \in FreshFamily,
         sessions' = sessions \cup {MobileSession(u, f, since, FALSE)},
         refresh' = refresh \cup {RefreshToken(u, f, 1, since, FALSE)},
         UNCHANGED <<user, reset, devices>>
  PROVE  CredsInv'
<1>1. /\ user \in [User -> Row] /\ CredsTyped /\ TypeOK /\ Bound /\ Families
  BY TypesKnown DEF IInv
<1>2. /\ f \in Family /\ \A t \in refresh : t.family # f
      /\ \A s \in sessions : s.family # f
  BY DEF FreshFamily
<1> DEFINE s1 == MobileSession(u, f, since, FALSE)
           t1 == RefreshToken(u, f, 1, since, FALSE)
<1>3. /\ s1 \in Session /\ s1.audience = "MOBILE" /\ s1.family # None
      /\ s1.user = u /\ s1.since = since
      /\ t1 \in Token /\ t1.user = u /\ t1.since = since
  <2>1. 1 \in Nat \ {0} /\ f # None
    BY <1>2, AccountConstants
  <2>2. /\ s1 \in Session /\ s1.audience = "MOBILE" /\ s1.family # None
        /\ s1.user = u /\ s1.since = since
    BY <1>2, <2>1 DEF MobileSession, Session
  <2>3. t1 \in Token /\ t1.user = u /\ t1.since = since
    BY <1>2, <2>1 DEF RefreshToken, Token
  <2> QED BY <2>2, <2>3
<1>4. Families'
  BY <1>1, <1>2, FamiliesOpened DEF Families
<1>5. sessions' = sessions \cup {s1} /\ refresh' = refresh \cup {t1}
  OBVIOUS
<1> HIDE DEF s1, t1
<1>6. CredsTyped'
  BY <1>1, <1>3, <1>5 DEF CredsTyped
<1>7. SessionFits(user[u], s1) /\ TokenFits(user[u], t1)
  <2>1. SessionFits(user[u], s1)
    BY <1>3 DEF SessionFits
  <2>2. TokenFits(user[u], t1)
    BY <1>3 DEF TokenFits
  <2> QED BY <2>1, <2>2
<1>8. Bound'
  BY <1>1, <1>3, <1>5, <1>7 DEF Bound
<1> QED BY <1>1, <1>4, <1>6, <1>8 DEF CredsInv

LEMMA CreateMobileKeeps ==
  ASSUME IInv, NEW u \in User, CreateMobileCredentials(u)
  PROVE  CredsInv'
<1>1. /\ user[u].status = "ACTIVE" /\ ~user[u].mustChange /\ call # None
      /\ UNCHANGED <<user, reset, devices>>
  BY DEF CreateMobileCredentials, MobileAllowed, Active, Answers
<1>2. /\ SignedInBy(u) \in Since
      /\ SignedInBy(u) # None => SignedInBy(u) = user[u].pw
  BY <1>1, SignedInByProperty
<1>3. PICK f \in FreshFamily :
        /\ sessions' = sessions \cup {MobileSession(u, f, SignedInBy(u), FALSE)}
        /\ refresh' = refresh \cup {RefreshToken(u, f, 1, SignedInBy(u), FALSE)}
  BY DEF CreateMobileCredentials
<1> QED BY <1>1, <1>2, <1>3, OpenedKeeps

\* A device joins, or some leave.
LEMMA DevicesKept ==
  ASSUME IInv, UNCHANGED <<user, reset, sessions, refresh>>,
         \A d \in devices' : \/ d \in devices
                             \/ d \in Device /\ DeviceFits(user[d.user], d)
  PROVE  CredsInv'
<1>1. /\ user \in [User -> Row] /\ CredsTyped /\ TypeOK /\ Bound /\ Families
  BY TypesKnown DEF IInv
<1>2. CredsTyped'
  BY <1>1 DEF CredsTyped
<1>3. Bound'
  BY <1>1 DEF Bound
<1> QED BY <1>1, <1>2, <1>3 DEF CredsInv, Families

LEMMA DevicesKeep ==
  ASSUME IInv, LoginDevice \/ PollApproved \/ RevokeDevice
  PROVE  CredsInv'
<1>1. user \in [User -> Row] /\ 0 \in 0 .. MaxVersion /\ code \in [Code -> Authorization]
  BY AccountConstants DEF IInv, TypeOK
<1>2. CASE LoginDevice
  <2>1. PICK u \in DeviceUser :
          /\ devices' = devices \cup {[user |-> u, method |-> "PASSWORD",
                                       since |-> user[u].pw]}
          /\ UNCHANGED <<user, reset, sessions, refresh>>
    BY <1>2 DEF LoginDevice
  <2>2. u \in User
    BY AccountConstants
  <2>3. user[u].pw \in 0 .. MaxVersion
    BY <1>1, <2>2 DEF Row
  <2> DEFINE d1 == [user |-> u, method |-> "PASSWORD", since |-> user[u].pw]
  <2>4. d1 \in Device /\ DeviceFits(user[d1.user], d1)
    BY <2>2, <2>3 DEF Device, DeviceFits
  <2>5. devices' = devices \cup {d1}
    BY <2>1
  <2> HIDE DEF d1
  <2> QED BY <2>1, <2>4, <2>5, DevicesKept
<1>3. CASE PollApproved
  <2>1. PICK k \in Code :
          /\ code[k].by # None
          /\ devices' = IF Active(code[k].by)
                        THEN devices \cup {[user |-> code[k].by, method |-> "PAIRING",
                                            since |-> 0]}
                        ELSE devices
          /\ UNCHANGED <<user, reset, sessions, refresh>>
    BY <1>3 DEF PollApproved
  <2> DEFINE d1 == [user |-> code[k].by, method |-> "PAIRING", since |-> 0]
  <2>2. code[k].by \in User
    BY <1>1, <2>1 DEF Authorization
  <2>3. d1 \in Device /\ DeviceFits(user[d1.user], d1)
    BY <1>1, <2>2 DEF Device, DeviceFits
  <2>4. devices' = devices \cup {d1} \/ devices' = devices
    BY <2>1
  <2> HIDE DEF d1
  <2> QED BY <2>1, <2>3, <2>4, DevicesKept
<1>4. CASE RevokeDevice
  <2>1. devices' \subseteq devices /\ UNCHANGED <<user, reset, sessions, refresh>>
    BY <1>4 DEF RevokeDevice
  <2> QED BY <2>1, DevicesKept
<1> QED BY <1>2, <1>3, <1>4

LEMMA EndSessionKeeps ==
  ASSUME IInv, EndSession
  PROVE  CredsInv'
<1>1. sessions' \subseteq sessions /\ UNCHANGED <<user, reset, refresh, devices>>
  BY DEF EndSession
<1>2. /\ user \in [User -> Row] /\ CredsTyped /\ TypeOK /\ Bound /\ Families
  BY TypesKnown DEF IInv
<1>3. CredsTyped' /\ Bound'
  BY <1>1, <1>2 DEF CredsTyped, Bound
<1>4. Families'
  BY <1>1, <1>2, FamiliesFewer DEF Families
<1> QED BY <1>1, <1>2, <1>3, <1>4 DEF CredsInv

LEMMA EndFamilyKeeps ==
  ASSUME IInv, EndFamily
  PROVE  CredsInv'
<1>1. PICK t0 \in refresh :
        /\ refresh' = {IF r.family = t0.family THEN [r EXCEPT !.revoked = TRUE] ELSE r :
                         r \in refresh}
        /\ sessions' = {s \in sessions : s.family # t0.family}
        /\ UNCHANGED <<user, reset, devices>>
  BY DEF EndFamily, RevokeMobileFamily
<1>2. /\ user \in [User -> Row] /\ CredsTyped /\ TypeOK /\ Bound /\ Families
      /\ refresh \subseteq Token
  BY TypesKnown DEF IInv
<1> DEFINE image(t) == IF t.family = t0.family THEN [t EXCEPT !.revoked = TRUE] ELSE t
<1>3. ASSUME NEW t \in refresh
      PROVE  /\ image(t) \in Token /\ image(t).family = t.family /\ image(t).user = t.user
             /\ t.family = t0.family => image(t).revoked
             /\ t.family # t0.family => image(t) = t
  <2>1. t \in Token
    BY <1>2
  <2> QED BY <2>1 DEF Token
<1>4. refresh' = {image(t) : t \in refresh}
  BY <1>1
<1> HIDE DEF image
<1>5. ASSUME NEW r \in refresh'
      PROVE  /\ r \in Token
             /\ r.family = t0.family => r.revoked
             /\ r.family # t0.family => r \in refresh
             /\ \E t \in refresh : r.family = t.family /\ r.user = t.user
  BY <1>3, <1>4
<1>6. CredsTyped'
  BY <1>1, <1>2, <1>5 DEF CredsTyped
<1>7. Bound'
  <2>1. ASSUME NEW r \in refresh'
        PROVE  TokenFits(user[r.user], r)
    BY <1>2, <1>5 DEF Bound, TokenFits, Usable
  <2> QED BY <1>1, <1>2, <2>1 DEF Bound
<1>8. Families'
  <2>1. \A r, t \in refresh' : r.family = t.family => r.user = t.user
    BY <1>2, <1>5 DEF Families, FamiliesOf
  <2>2. \A s \in sessions' : \A t \in refresh' : s.family = t.family => s.user = t.user
    BY <1>1, <1>2, <1>5 DEF Families, FamiliesOf
  <2>3. ASSUME NEW t \in refresh', Usable(t),
               NEW r \in refresh', r.family = t.family, Usable(r)
        PROVE  r = t
    BY <1>2, <1>5, <2>3 DEF Families, FamiliesOf, Usable
  <2>4. ASSUME NEW t \in refresh', t.revoked
        PROVE  /\ \A r \in refresh' : r.family = t.family /\ Usable(r) => r.missed = TRUE
               /\ \A s \in sessions' : s.family = t.family => s.missed = TRUE
    BY <1>1, <1>2, <1>5, <2>4 DEF Families, FamiliesOf, Usable
  <2> QED BY <2>1, <2>2, <2>3, <2>4 DEF Families, FamiliesOf
<1> QED BY <1>1, <1>2, <1>6, <1>7, <1>8 DEF CredsInv

\* A logout revokes what it sees of the family, and missed the rest.
LEMMA EndLogoutKeeps ==
  ASSUME IInv, EndLogout
  PROVE  CredsInv'
<1> DEFINE image(f, t) == IF t.family # f \/ t.revoked THEN t
                          ELSE IF t.n <= logout[f].sees THEN [t EXCEPT !.revoked = TRUE]
                          ELSE [t EXCEPT !.missed = TRUE]
<1>1. PICK f \in Family :
        /\ refresh' = {image(f, t) : t \in refresh}
        /\ sessions' = {s \in sessions : s.family # f}
        /\ UNCHANGED <<user, reset, devices>>
  BY DEF EndLogout
<1>2. /\ user \in [User -> Row] /\ CredsTyped /\ TypeOK /\ Bound /\ Families
      /\ refresh \subseteq Token
  BY TypesKnown DEF IInv
<1>3. ASSUME NEW t \in refresh
      PROVE  /\ image(f, t) \in Token /\ image(f, t).family = t.family
             /\ image(f, t).user = t.user
             /\ IF t.family # f THEN image(f, t) = t
                ELSE \/ image(f, t).revoked
                     \/ image(f, t) = [t EXCEPT !.missed = TRUE]
  <2>1. t \in Token
    BY <1>2
  <2> QED BY <2>1 DEF Token
<1>4. ASSUME NEW t \in Token
      PROVE  /\ [t EXCEPT !.missed = TRUE].missed = TRUE
             /\ [t EXCEPT !.missed = TRUE].revoked = t.revoked
             /\ [t EXCEPT !.missed = TRUE].consumed = t.consumed
  BY DEF Token
<1> HIDE DEF image
<1>5. ASSUME NEW r \in refresh'
      PROVE  /\ r \in Token
             /\ \E t \in refresh : r.family = t.family /\ r.user = t.user
             /\ r.family # f => r \in refresh
             /\ r.family = f /\ Usable(r) =>
                  /\ r.missed = TRUE
                  /\ \E t \in refresh : /\ Usable(t) /\ t.family = f
                                        /\ r = [t EXCEPT !.missed = TRUE]
  <2>1. PICK t \in refresh : r = image(f, t)
    BY <1>1
  <2>2. t \in Token
    BY <1>2
  <2> QED BY <1>3, <1>4, <2>1, <2>2 DEF Usable
<1>6. CredsTyped'
  BY <1>1, <1>2, <1>5 DEF CredsTyped
<1>7. Bound'
  <2>1. ASSUME NEW r \in refresh'
        PROVE  TokenFits(user[r.user], r)
    BY <1>2, <1>5 DEF Bound, TokenFits
  <2> QED BY <1>1, <1>2, <2>1 DEF Bound
<1>8. Families'
  <2>1. ASSUME NEW r \in refresh', NEW t \in refresh', r.family = t.family
        PROVE  r.user = t.user
    <3>1. PICK o \in refresh : r.family = o.family /\ r.user = o.user
      BY <1>5
    <3>2. PICK q \in refresh : t.family = q.family /\ t.user = q.user
      BY <1>5
    <3> QED BY <1>2, <2>1, <3>1, <3>2 DEF Families, FamiliesOf
  <2>2. \A s \in sessions' : \A t \in refresh' : s.family = t.family => s.user = t.user
    BY <1>1, <1>2, <1>5 DEF Families, FamiliesOf
  <2>3. ASSUME NEW t \in refresh', Usable(t),
               NEW r \in refresh', r.family = t.family, Usable(r)
        PROVE  r = t
    <3>1. CASE t.family = f
      <4>1. PICK o \in refresh : Usable(o) /\ o.family = f /\ t = [o EXCEPT !.missed = TRUE]
        BY <1>5, <2>3, <3>1
      <4>2. PICK q \in refresh : Usable(q) /\ q.family = f /\ r = [q EXCEPT !.missed = TRUE]
        BY <1>5, <2>3, <3>1
      <4>3. q = o
        BY <1>2, <4>1, <4>2 DEF Families, FamiliesOf
      <4> QED BY <4>1, <4>2, <4>3
    <3>2. CASE t.family # f
      BY <1>2, <1>5, <2>3, <3>2 DEF Families, FamiliesOf
    <3> QED BY <3>1, <3>2
  <2>4. ASSUME NEW t \in refresh', t.revoked
        PROVE  /\ \A r \in refresh' : r.family = t.family /\ Usable(r) => r.missed = TRUE
               /\ \A s \in sessions' : s.family = t.family => s.missed = TRUE
    <3>1. CASE t.family = f
      <4>1. ASSUME NEW r \in refresh', r.family = t.family, Usable(r)
            PROVE  r.missed = TRUE
        BY <1>5, <3>1, <4>1
      <4>2. \A s \in sessions' : s.family # f
        BY <1>1
      <4> QED BY <3>1, <4>1, <4>2
    <3>2. CASE t.family # f
      BY <1>1, <1>2, <1>5, <2>4, <3>2 DEF Families, FamiliesOf
    <3> QED BY <3>1, <3>2
  <2> QED BY <2>1, <2>2, <2>3, <2>4 DEF Families, FamiliesOf
<1> QED BY <1>1, <1>2, <1>6, <1>7, <1>8 DEF CredsInv

LEMMA RotateKeeps ==
  ASSUME IInv, RotateMobileRefreshToken
  PROVE  CredsInv'
<1>1. PICK t0 \in refresh : \E n \in 1 .. MaxToken[t0.user] :
        /\ Usable(t0) /\ MobileAllowed(t0.user)
        /\ refresh' = (refresh \ {t0})
             \cup {[t0 EXCEPT !.consumed = TRUE],
                   RefreshToken(t0.user, t0.family, n, t0.since, t0.missed)}
        /\ sessions' = sessions \cup {MobileSession(t0.user, t0.family, t0.since, t0.missed)}
        /\ UNCHANGED <<user, reset, devices>>
  BY DEF RotateMobileRefreshToken
<1>2. /\ user \in [User -> Row] /\ CredsTyped /\ TypeOK /\ Bound /\ Families
      /\ refresh \subseteq Token
  BY TypesKnown DEF IInv
<1>3. t0 \in Token
  BY <1>2
<1>4. PICK n \in Nat \ {0} :
        /\ Usable(t0) /\ MobileAllowed(t0.user)
        /\ refresh' = (refresh \ {t0})
             \cup {[t0 EXCEPT !.consumed = TRUE],
                   RefreshToken(t0.user, t0.family, n, t0.since, t0.missed)}
        /\ sessions' = sessions \cup {MobileSession(t0.user, t0.family, t0.since, t0.missed)}
        /\ UNCHANGED <<user, reset, devices>>
  <2>1. MaxToken[t0.user] \in Nat
    BY <1>3, AccountConstants DEF Token
  <2> QED BY <1>1, <2>1
<1> DEFINE old == [t0 EXCEPT !.consumed = TRUE]
           new == RefreshToken(t0.user, t0.family, n, t0.since, t0.missed)
           s1 == MobileSession(t0.user, t0.family, t0.since, t0.missed)
<1>5. /\ old \in Token /\ old.family = t0.family /\ old.user = t0.user
      /\ old.consumed /\ old.revoked = FALSE
  BY <1>3, <1>4 DEF Token, Usable
<1>6. /\ new \in Token /\ new.family = t0.family /\ new.user = t0.user
      /\ new.since = t0.since /\ new.revoked = FALSE /\ new.missed = t0.missed
  BY <1>3, <1>4 DEF Token, RefreshToken
<1>7. /\ s1 \in Session /\ s1.audience = "MOBILE" /\ s1.family = t0.family
      /\ s1.family # None /\ s1.user = t0.user /\ s1.since = t0.since
      /\ s1.missed = t0.missed
  BY <1>3, AccountConstants DEF Token, Session, MobileSession
<1>8. /\ refresh' = (refresh \ {t0}) \cup {old, new}
      /\ sessions' = sessions \cup {s1}
  BY <1>4
<1> HIDE DEF old, new, s1
<1>9. CredsTyped'
  BY <1>2, <1>4, <1>5, <1>6, <1>7, <1>8 DEF CredsTyped
<1>10. /\ TokenFits(user[t0.user], t0) /\ user[t0.user].status = "ACTIVE"
       /\ ~user[t0.user].mustChange
  BY <1>2, <1>4 DEF Bound, MobileAllowed, Active
<1>11. Bound'
  <2>1. SessionFits(user[s1.user], s1)
    BY <1>4, <1>7, <1>10 DEF SessionFits, TokenFits
  <2>2. TokenFits(user[old.user], old) /\ TokenFits(user[new.user], new)
    BY <1>4, <1>5, <1>6, <1>10 DEF TokenFits, Usable
  <2> QED BY <1>2, <1>4, <1>8, <2>1, <2>2 DEF Bound
<1>12. Families'
  <2>1. \A r \in refresh : r.family = t0.family =>
          /\ r.user = t0.user
          /\ r.revoked => t0.missed = TRUE
          /\ Usable(r) => r = t0
    BY <1>2, <1>4 DEF Families, FamiliesOf
  <2>2. ~Usable(old)
    BY <1>5 DEF Usable
  <2>3. \A r, t \in refresh' : r.family = t.family => r.user = t.user
    BY <1>2, <1>5, <1>6, <1>8, <2>1 DEF Families, FamiliesOf
  <2>4. \A s \in sessions' : \A t \in refresh' : s.family = t.family => s.user = t.user
    BY <1>2, <1>5, <1>6, <1>7, <1>8, <2>1 DEF Families, FamiliesOf
  <2>5. ASSUME NEW t \in refresh', Usable(t),
               NEW r \in refresh', r.family = t.family, Usable(r)
        PROVE  r = t
    BY <1>2, <1>6, <1>8, <2>1, <2>2, <2>5 DEF Families, FamiliesOf
  <2>6. ASSUME NEW t \in refresh', t.revoked
        PROVE  /\ \A r \in refresh' : r.family = t.family /\ Usable(r) => r.missed = TRUE
               /\ \A s \in sessions' : s.family = t.family => s.missed = TRUE
    <3>1. t \in refresh
      BY <1>5, <1>6, <1>8, <2>6
    <3>2. ASSUME NEW r \in refresh', r.family = t.family, Usable(r)
          PROVE  r.missed = TRUE
      <4>1. CASE r = new
        BY <1>6, <2>1, <2>6, <3>1, <3>2, <4>1
      <4>2. CASE r \in refresh
        BY <1>2, <2>6, <3>1, <3>2, <4>2 DEF Families, FamiliesOf
      <4> QED BY <1>8, <2>2, <3>2, <4>1, <4>2
    <3>3. ASSUME NEW s \in sessions', s.family = t.family
          PROVE  s.missed = TRUE
      <4>1. CASE s = s1
        BY <1>7, <2>1, <2>6, <3>1, <3>3, <4>1
      <4>2. CASE s \in sessions
        BY <1>2, <2>6, <3>1, <3>3, <4>2 DEF Families, FamiliesOf
      <4> QED BY <1>8, <3>3, <4>1, <4>2
    <3> QED BY <3>2, <3>3
  <2> QED BY <2>3, <2>4, <2>5, <2>6 DEF Families, FamiliesOf
<1> QED BY <1>2, <1>4, <1>9, <1>11, <1>12 DEF CredsInv

(***************************************************************************)
(* All steps.                                                              *)
(***************************************************************************)

\* A request begins or is refused, a code is approved, a reset is sent or
\* expires: no row and no credential changes.
LEMMA CredsKept ==
  ASSUME IInv, UNCHANGED <<user, sessions, refresh, devices>>,
         reset' \in [User -> BOOLEAN]
  PROVE  CredsInv'
<1>1. /\ user \in [User -> Row] /\ CredsTyped /\ Bound /\ Families
  BY TypesKnown DEF IInv
<1> QED BY <1>1 DEF CredsInv, CredsTyped, Bound, Families

LEMMA CredsStep ==
  ASSUME IInv, [Next]_vars
  PROVE  CredsInv'
<1>1. reset \in [User -> BOOLEAN]
  BY DEF IInv, TypeOK
<1>2. CASE UNCHANGED creds /\ UNCHANGED user
  BY <1>1, <1>2, CredsKept DEF creds
<1>3. CASE IssueReset \/ ExpireReset
  BY <1>1, <1>3, CredsKept DEF IssueReset, ExpireReset
<1>4. ASSUME NEW u \in User,
             \/ AdminStep(u) \/ OwnerStep(u) \/ CreateSession(u)
             \/ CreateMobileCredentials(u)
      PROVE  CredsInv'
  BY <1>4, AdminStepKeeps, ReplaceTemporaryKeeps, ChangeMobilePasswordKeeps,
     CreateSessionKeeps, CreateMobileKeeps DEF OwnerStep
<1>5. CASE \/ BootstrapFirstAdmin \/ ResetAdminPassword \/ ResetPassword
           \/ AnonymizeUser \/ LoginDevice \/ PollApproved \/ RevokeDevice
           \/ EndSession \/ RotateMobileRefreshToken \/ EndFamily \/ EndLogout
           \/ RequestMobileAccountDeletion
  BY <1>5, BootstrapKeeps, ResetAdminKeeps, ResetPasswordKeeps, AnonymizeKeeps,
     DevicesKeep, EndSessionKeeps, RotateKeeps, EndFamilyKeeps, EndLogoutKeeps,
     RequestDeletionKeeps
<1>6. ASSUME NEW u \in User,
             \/ BeginAdmin(u) \/ BeginReplace(u) \/ BeginMobilePassword(u)
             \/ BeginMobileDeletion(u) \/ BeginLogin(u) \/ BeginApprove(u)
             \/ ApproveDevice(u)
      PROVE  UNCHANGED creds /\ UNCHANGED user
  BY <1>6 DEF BeginAdmin, BeginReplace, BeginMobilePassword, BeginMobileDeletion,
              BeginLogin, BeginApprove, ApproveDevice, Begin, TakeSnapshot
<1>7. CASE Refused \/ RollBack \/ BeginResetAdmin \/ BeginLogout
  <2>1. UNCHANGED creds /\ UNCHANGED user
    BY <1>7 DEF Refused, RollBack, BeginResetAdmin, BeginLogout, TakeSnapshot
  <2> QED BY <1>2, <2>1
<1>8. CASE UNCHANGED vars
  BY <1>2, <1>8 DEF vars
<1>9. CASE Next
  BY <1>2, <1>3, <1>4, <1>5, <1>6, <1>7, <1>9
     DEF Next, AccountsStep, LoginStep, MobileStep, DeviceStep
<1> QED BY <1>8, <1>9

\* A request remembers what it read until it is answered.
LEMMA CallTyped ==
  ASSUME IInv, [Next]_vars
  PROVE  call' \in Request \cup {None}
<1>1. /\ call \in Request \cup {None} /\ user \in [User -> Row] /\ 0 \in 0 .. MaxVersion
  BY AccountConstants DEF IInv, TypeOK
<1>2. \A u \in User : user[u].pw \in 0 .. MaxVersion
  BY <1>1 DEF Row
<1>3. CASE UNCHANGED call
  BY <1>1, <1>3
<1>4. CASE call' = None
  BY <1>4
<1>5. ASSUME NEW u \in User, NEW seen \in 0 .. MaxVersion,
             NEW op \in {"MAIN", "MOBILE", "REPLACE", "MOBILE_PASSWORD", "APPROVE"},
             Begin(u, op, seen)
      PROVE  call' \in Request \cup {None}
  BY <1>5 DEF Begin, Request
<1>6. ASSUME NEW u \in User,
             \/ BeginReplace(u) \/ BeginMobilePassword(u) \/ BeginLogin(u)
             \/ BeginApprove(u)
      PROVE  call' \in Request \cup {None}
  <2>1. CASE BeginReplace(u)
    BY <1>2, <1>5, <2>1 DEF BeginReplace
  <2>2. CASE BeginMobilePassword(u)
    BY <1>2, <1>5, <2>2 DEF BeginMobilePassword
  <2>3. CASE BeginLogin(u)
    BY <1>2, <1>5, <2>3 DEF BeginLogin
  <2>4. CASE BeginApprove(u)
    BY <1>1, <1>5, <2>4 DEF BeginApprove
  <2> QED BY <1>6, <2>1, <2>2, <2>3, <2>4
<1>7. ASSUME NEW u \in User,
             \/ OwnerStep(u) \/ Refused \/ CreateSession(u)
             \/ CreateMobileCredentials(u) \/ ApproveDevice(u)
      PROVE  call' = None
  BY <1>7 DEF OwnerStep, ReplaceTemporaryPassword, ChangeMobilePassword, Refused,
              CreateSession, CreateMobileCredentials, ApproveDevice, Answers
<1>8. ASSUME NEW u \in User, AdminStep(u) \/ BeginAdmin(u) \/ BeginMobileDeletion(u)
      PROVE  UNCHANGED call
  BY <1>8 DEF AdminStep, UpdateUserProfile, ChangeUserRole, DisableUser, EnableUser,
              AssignTemporaryPassword, RequestUserDeletion, Privileged, Commits,
              BeginAdmin, BeginMobileDeletion, TakeSnapshot
<1>9. CASE \/ BootstrapFirstAdmin \/ ResetAdminPassword \/ IssueReset \/ ExpireReset
           \/ ResetPassword \/ AnonymizeUser \/ LoginDevice \/ EndSession
           \/ RotateMobileRefreshToken \/ EndFamily \/ PollApproved \/ RevokeDevice
           \/ BeginLogout \/ EndLogout \/ BeginResetAdmin \/ RollBack
           \/ RequestMobileAccountDeletion
  BY <1>3, <1>9 DEF BootstrapFirstAdmin, ResetAdminPassword, IssueReset, ExpireReset,
     ResetPassword, AnonymizeUser, LoginDevice, EndSession, RotateMobileRefreshToken,
     EndFamily, PollApproved, RevokeDevice, BeginLogout, EndLogout, BeginResetAdmin,
     RollBack, RequestMobileAccountDeletion, Commits, TakeSnapshot
<1>10. CASE Refused
  BY <1>10 DEF Refused
<1>11. CASE UNCHANGED vars
  BY <1>3, <1>11 DEF vars
<1>12. CASE Next
  BY <1>3, <1>4, <1>6, <1>7, <1>8, <1>9, <1>10, <1>12
     DEF Next, AccountsStep, LoginStep, MobileStep, DeviceStep
<1> QED BY <1>11, <1>12

\* What a SERIALIZABLE transaction sees was there, and is of its target.
LEMMA SnapshotTaken ==
  ASSUME IInv, NEW by \in User, NEW u \in User,
         NEW op \in {"ADMIN", "MOBILE_DELETION", "RESET_ADMIN"}, TakeSnapshot(op, by, u)
  PROVE  snapshot' \in Snapshot /\ SeesOwn'
<1>1. /\ {s \in sessions : s.user = u} \in SUBSET Session
      /\ {t \in refresh : t.user = u} \in SUBSET Token
      /\ {d \in devices : d.user = u /\ op = "RESET_ADMIN"} \in SUBSET Device
  BY DEF IInv, TypeOK
<1> QED BY <1>1 DEF TakeSnapshot, Snapshot, SeesOwn

LEMMA SnapshotTyped ==
  ASSUME IInv, [Next]_vars
  PROVE  snapshot' \in Snapshot \cup {None} /\ SeesOwn'
<1>1. CASE UNCHANGED snapshot \/ snapshot' = None
  BY <1>1 DEF IInv, TypeOK, SeesOwn
<1>2. ASSUME NEW u \in User, BeginAdmin(u) \/ BeginMobileDeletion(u)
      PROVE  snapshot' \in Snapshot \cup {None} /\ SeesOwn'
  BY <1>2, SnapshotTaken DEF BeginAdmin, BeginMobileDeletion
<1>3. CASE BeginResetAdmin
  BY <1>3, SnapshotTaken DEF BeginResetAdmin, Admins
<1>4. ASSUME NEW u \in User, AdminStep(u) \/ OwnerStep(u)
      PROVE  UNCHANGED snapshot \/ snapshot' = None
  BY <1>4 DEF AdminStep, UpdateUserProfile, ChangeUserRole, DisableUser, EnableUser,
              AssignTemporaryPassword, RequestUserDeletion, OwnerStep,
              ReplaceTemporaryPassword, ChangeMobilePassword, Change
<1>5. CASE \/ BootstrapFirstAdmin \/ ResetAdminPassword \/ ResetPassword
           \/ AnonymizeUser \/ RollBack \/ RequestMobileAccountDeletion
  <2>1. UNCHANGED snapshot \/ snapshot' = None
    BY <1>5 DEF BootstrapFirstAdmin, ResetAdminPassword, ResetPassword, AnonymizeUser,
                RollBack, RequestMobileAccountDeletion, Change
  <2> QED BY <1>1, <2>1
<1>6. ASSUME NEW u \in User,
             \/ BeginReplace(u) \/ BeginMobilePassword(u) \/ BeginLogin(u)
             \/ CreateSession(u) \/ CreateMobileCredentials(u) \/ BeginApprove(u)
             \/ ApproveDevice(u)
      PROVE  UNCHANGED snapshot
  BY <1>6 DEF BeginReplace, BeginMobilePassword, BeginLogin, CreateSession,
              CreateMobileCredentials, BeginApprove, ApproveDevice, Begin, open
<1>7. CASE \/ Refused \/ IssueReset \/ ExpireReset \/ LoginDevice \/ EndSession
           \/ RotateMobileRefreshToken \/ EndFamily \/ PollApproved \/ RevokeDevice
           \/ BeginLogout \/ EndLogout
  <2>1. UNCHANGED snapshot
    BY <1>7 DEF Refused, IssueReset, ExpireReset, LoginDevice, EndSession,
         RotateMobileRefreshToken, EndFamily, PollApproved, RevokeDevice, BeginLogout,
         EndLogout, open
  <2> QED BY <1>1, <2>1
<1>8. CASE UNCHANGED vars
  BY <1>1, <1>8 DEF vars, open
<1>9. CASE Next
  BY <1>1, <1>2, <1>3, <1>4, <1>5, <1>6, <1>7, <1>9
     DEF Next, AccountsStep, LoginStep, MobileStep, DeviceStep
<1> QED BY <1>8, <1>9

LEMMA LogoutTyped ==
  ASSUME IInv, [Next]_vars
  PROVE  logout' \in [Family -> Logout \cup {None}]
<1>1. logout \in [Family -> Logout \cup {None}] /\ refresh \subseteq Token
  BY DEF IInv, TypeOK
<1>2. CASE UNCHANGED logout
  BY <1>1, <1>2
<1>3. CASE BeginLogout
  <2>1. PICK t, newest \in refresh :
          logout' = [logout EXCEPT ![t.family] = [token |-> t.n, sees |-> newest.n]]
    BY <1>3 DEF BeginLogout
  <2>2. [token |-> t.n, sees |-> newest.n] \in Logout
    BY <1>1 DEF Token, Logout
  <2> QED BY <1>1, <2>1, <2>2
<1>4. CASE EndLogout
  BY <1>1, <1>4 DEF EndLogout
<1>5. ASSUME NEW u \in User, \/ AdminStep(u) \/ OwnerStep(u)
                             \/ BeginAdmin(u) \/ BeginMobileDeletion(u)
      PROVE  UNCHANGED logout
  BY <1>5 DEF AdminStep, UpdateUserProfile, ChangeUserRole, DisableUser, EnableUser,
              AssignTemporaryPassword, RequestUserDeletion, Privileged, Commits, OwnerStep,
              ReplaceTemporaryPassword, ChangeMobilePassword, BeginAdmin,
              BeginMobileDeletion, TakeSnapshot
<1>6. ASSUME NEW u \in User,
             \/ BeginReplace(u) \/ BeginMobilePassword(u) \/ BeginLogin(u)
             \/ CreateSession(u) \/ CreateMobileCredentials(u) \/ BeginApprove(u)
             \/ ApproveDevice(u)
      PROVE  UNCHANGED logout
  BY <1>6 DEF BeginReplace, BeginMobilePassword, BeginLogin, CreateSession,
              CreateMobileCredentials, BeginApprove, ApproveDevice, Begin, open
<1>7. CASE \/ BootstrapFirstAdmin \/ ResetAdminPassword \/ IssueReset \/ ExpireReset
           \/ ResetPassword \/ AnonymizeUser \/ LoginDevice \/ EndSession
           \/ RotateMobileRefreshToken \/ EndFamily \/ PollApproved \/ RevokeDevice
           \/ BeginResetAdmin \/ RollBack \/ RequestMobileAccountDeletion \/ Refused
  <2>1. UNCHANGED logout
    BY <1>7 DEF BootstrapFirstAdmin, ResetAdminPassword, IssueReset, ExpireReset,
       ResetPassword, AnonymizeUser, LoginDevice, EndSession, RotateMobileRefreshToken,
       EndFamily, PollApproved, RevokeDevice, BeginResetAdmin, RollBack,
       RequestMobileAccountDeletion, Commits, TakeSnapshot, Refused, open
  <2> QED BY <1>2, <2>1
<1>8. CASE UNCHANGED vars
  BY <1>2, <1>8 DEF vars, open
<1>9. CASE Next
  BY <1>2, <1>3, <1>4, <1>5, <1>6, <1>7, <1>9
     DEF Next, AccountsStep, LoginStep, MobileStep, DeviceStep
<1> QED BY <1>8, <1>9

LEMMA CodeTyped ==
  ASSUME IInv, [Next]_vars
  PROVE  code' \in [Code -> Authorization]
<1>1. code \in [Code -> Authorization]
  BY DEF IInv, TypeOK
<1>2. CASE UNCHANGED code
  BY <1>1, <1>2
<1>3. ASSUME NEW u \in User, ApproveDevice(u)
      PROVE  code' \in [Code -> Authorization]
  BY <1>1, <1>3 DEF ApproveDevice, Authorization
<1>4. CASE PollApproved
  BY <1>1, <1>4 DEF PollApproved, Authorization
<1>5. \/ UNCHANGED code \/ PollApproved \/ \E u \in User : ApproveDevice(u)
  BY DEF vars, Next, LoginStep, MobileStep, DeviceStep, BeginLogin, CreateSession,
         CreateMobileCredentials, LoginDevice, EndSession, RotateMobileRefreshToken,
         EndFamily, BeginLogout, EndLogout, BeginApprove, RevokeDevice
<1> QED BY <1>2, <1>3, <1>4, <1>5

LEMMA InvStep ==
  ASSUME IInv, [Next]_vars
  PROVE  IInv'
<1>1. CredsInv'
  BY CredsStep
<1>2. /\ call' \in Request \cup {None} /\ code' \in [Code -> Authorization]
      /\ snapshot' \in Snapshot \cup {None} /\ SeesOwn'
      /\ logout' \in [Family -> Logout \cup {None}]
  BY CallTyped, CodeTyped, SnapshotTyped, LogoutTyped
<1> QED BY <1>1, <1>2 DEF IInv, CredsInv, CredsTyped, TypeOK

LEMMA InvInit ==
  ASSUME Init
  PROVE  IInv
<1>1. user \in [User -> Row]
  <2>1. 0 \in 0 .. MaxVersion
    BY AccountConstants
  <2> QED BY <2>1 DEF Init, AccountsInit, Row
<1>2. /\ reset \in [User -> BOOLEAN] /\ call = None /\ snapshot = None
      /\ logout \in [Family -> Logout \cup {None}]
      /\ sessions = {} /\ refresh = {} /\ devices = {}
  BY DEF Init, AccountsInit
<1>3. code \in [Code -> Authorization]
  BY DEF Init, Started, Authorization
<1>4. TypeOK
  BY <1>1, <1>2, <1>3 DEF TypeOK
<1>5. Bound
  BY <1>2 DEF Bound
<1>6. Families
  BY <1>2 DEF Families, FamiliesOf
<1> QED BY <1>2, <1>4, <1>5, <1>6 DEF IInv, SeesOwn

LEMMA InvAlways == Spec => []IInv
BY InvInit, InvStep, PTL DEF Spec

\* Every variable of SignIn keeps its type, whatever requests of whatever accounts
\* interleave.
THEOREM SignInTypeCorrect == Spec => []TypeOK
<1>1. IInv => TypeOK
  BY DEF IInv
<1> QED BY <1>1, InvAlways, PTL

\* Whoever may not sign in has nothing left but what was issued to him while the
\* transaction that shut him out was open.
THEOREM AlwaysLockedOut == Spec => []LockedOut
<1>1. IInv => LockedOut
  BY DEF IInv, Bound, LockedOut, SessionFits, TokenFits, Active
<1> QED BY <1>1, InvAlways, PTL

\* A password takes with it all that was signed in with it, but for that.
THEOREM AlwaysPasswordBound == Spec => []PasswordBound
<1>1. IInv => PasswordBound
  BY DEF IInv, Bound, PasswordBound, SessionFits, TokenFits, DeviceFits, Active
<1> QED BY <1>1, InvAlways, PTL

\* Of a family one token rotates, and none once one of them is revoked, but one
\* that the logout missed.
THEOREM FamiliesAlwaysEnd == Spec => []FamilyEnds
<1>1. IInv => FamilyEnds
  BY DEF IInv, Families, FamiliesOf, FamilyEnds
<1> QED BY <1>1, InvAlways, PTL

(***************************************************************************)
(* An enabled administrator remains.                                       *)
(***************************************************************************)

\* A change of a row that leaves an administrator one, or takes the role or the
\* status from one of several, leaves an enabled administrator.
LEMMA AdminKept ==
  ASSUME TypeOK, NEW u \in User, NEW row \in Row, Change(u, row),
         Admins # {},
         \/ u \in Admins => row.role = "ADMIN" /\ row.status = "ACTIVE"
         \/ NotLastEnabledAdmin(u)
  PROVE  Admins' # {}
<1>1. Changed(u, row)
  BY ChangeProperty DEF TypeOK
<1>2. \A v \in Admins : v # u => v \in Admins'
  BY <1>1 DEF Changed, Admins, Active
<1>3. CASE \E v \in Admins : v # u
  BY <1>2, <1>3
<1>4. CASE Admins = {u}
  <2>1. Cardinality(Admins) = 1
    BY <1>4, FS_Singleton
  <2>2. ~NotLastEnabledAdmin(u)
    BY <1>4, <2>1 DEF NotLastEnabledAdmin
  <2>3. row.role = "ADMIN" /\ row.status = "ACTIVE"
    BY <1>4, <2>2
  <2> QED BY <1>1, <2>3 DEF Changed, Admins, Active
<1> QED BY <1>3, <1>4

LEMMA AdminStepKeepsAdmin ==
  ASSUME IInv, NEW actor \in User, AdminStep(actor), Admins # {}
  PROVE  Admins' # {}
<1> DEFINE u == snapshot.target
<1>1. Privileged(actor)
  BY DEF AdminStep, UpdateUserProfile, ChangeUserRole, DisableUser, EnableUser,
         AssignTemporaryPassword, RequestUserDeletion
<1>2. /\ u \in User /\ user[u] \in Row /\ TypeOK
      /\ u \in Admins => user[u].role = "ADMIN" /\ user[u].status = "ACTIVE"
  BY <1>1, PrivilegedProperty DEF IInv, Admins, Active
<1>3. CASE UpdateUserProfile(actor)
  <2>1. Change(u, user[u])
    BY <1>3 DEF UpdateUserProfile
  <2> HIDE DEF u
  <2> QED BY <1>2, <2>1, AdminKept
<1>4. CASE ChangeUserRole(actor)
  <2>1. PICK role \in {"USER", "ADMIN"} :
          /\ Change(u, [user[u] EXCEPT !.role = role])
          /\ role = "USER" => NotLastEnabledAdmin(u)
    BY <1>4 DEF ChangeUserRole
  <2> DEFINE row == [user[u] EXCEPT !.role = role]
  <2>2. row \in Row /\ row.role = role /\ row.status = user[u].status
    BY <1>2 DEF Row
  <2>3. Change(u, row)
    BY <2>1
  <2> HIDE DEF u, row
  <2> QED BY <1>2, <2>1, <2>2, <2>3, AdminKept
<1>5. CASE DisableUser(actor) \/ RequestUserDeletion(actor)
  <2>1. PICK status \in {"DISABLED", "DELETION_PENDING"} :
          Change(u, [user[u] EXCEPT !.status = status])
    BY <1>5 DEF DisableUser, RequestUserDeletion
  <2>2. NotLastEnabledAdmin(u)
    BY <1>5 DEF DisableUser, RequestUserDeletion
  <2> DEFINE row == [user[u] EXCEPT !.status = status]
  <2>3. row \in Row
    BY <1>2 DEF Row
  <2>4. Change(u, row)
    BY <2>1
  <2> HIDE DEF u, row
  <2> QED BY <1>2, <2>2, <2>3, <2>4, AdminKept
<1>6. CASE EnableUser(actor)
  <2> DEFINE row == [user[u] EXCEPT !.status = "ACTIVE"]
  <2>1. Change(u, row)
    BY <1>6 DEF EnableUser
  <2>2. row \in Row /\ row.role = user[u].role /\ row.status = "ACTIVE"
    BY <1>2 DEF Row
  <2> HIDE DEF u, row
  <2> QED BY <1>2, <2>1, <2>2, AdminKept
<1>7. CASE AssignTemporaryPassword(actor)
  <2> DEFINE row == NewPassword(u, TRUE)
  <2>1. Change(u, row)
    BY <1>7 DEF AssignTemporaryPassword
  <2> HIDE DEF u
  <2>2. row \in Row /\ row.role = user[u].role /\ row.status = user[u].status
    BY <1>2, <2>1, ReplacedPassword
  <2> HIDE DEF row
  <2> QED BY <1>2, <2>1, <2>2, AdminKept
<1> QED BY <1>3, <1>4, <1>5, <1>6, <1>7 DEF AdminStep

\* A new password leaves role and status.
LEMMA PasswordKeepsAdmin ==
  ASSUME IInv, NEW u \in User, NEW temporary \in BOOLEAN,
         Change(u, NewPassword(u, temporary)), Admins # {}
  PROVE  Admins' # {}
<1> DEFINE row == NewPassword(u, temporary)
<1>1. row \in Row /\ row.role = user[u].role /\ row.status = user[u].status
  BY ReplacedPassword
<1>2. Change(u, row)
  OBVIOUS
<1> HIDE DEF row
<1>3. u \in Admins => row.role = "ADMIN" /\ row.status = "ACTIVE"
  BY <1>1 DEF Admins, Active
<1> QED BY <1>1, <1>2, <1>3, AdminKept DEF IInv

LEMMA OthersKeepAdmin ==
  ASSUME IInv, Admins # {}, ~UNCHANGED user,
         \/ \E u \in User : OwnerStep(u)
         \/ BootstrapFirstAdmin \/ ResetAdminPassword \/ ResetPassword \/ AnonymizeUser
         \/ RequestMobileAccountDeletion
  PROVE  Admins' # {}
<1>1. ASSUME NEW u \in User, ReplaceTemporaryPassword(u) \/ ChangeMobilePassword(u)
      PROVE  Admins' # {}
  BY <1>1, PasswordKeepsAdmin DEF ReplaceTemporaryPassword, ChangeMobilePassword
<1>2. CASE RequestMobileAccountDeletion
  <2> DEFINE u == snapshot.target
             row == [user[u] EXCEPT !.status = "DELETION_PENDING"]
  <2>1. snapshot # None /\ Change(u, row) /\ NotLastEnabledAdmin(u)
    BY <1>2 DEF RequestMobileAccountDeletion, Commits
  <2>2. u \in User /\ user[u] \in Row
    BY <2>1 DEF IInv, TypeOK, Snapshot
  <2>3. row \in Row
    BY <2>2 DEF Row
  <2> HIDE DEF u, row
  <2> QED BY <2>1, <2>2, <2>3, AdminKept DEF IInv
<1>3. CASE ResetAdminPassword
  <2>1. snapshot # None /\ Change(snapshot.target, NewPassword(snapshot.target, TRUE))
    BY <1>3 DEF ResetAdminPassword, Commits
  <2>2. snapshot.target \in User
    BY <2>1 DEF IInv, TypeOK, Snapshot
  <2> QED BY <2>1, <2>2, PasswordKeepsAdmin
<1>4. CASE ResetPassword
  BY <1>4, PasswordKeepsAdmin DEF ResetPassword
<1>5. CASE AnonymizeUser
  <2>1. PICK u \in User \ Held :
          /\ user[u].status = "DELETION_PENDING"
          /\ Change(u, [NewPassword(u, FALSE) EXCEPT !.status = "ANONYMIZED",
                                                     !.role = "USER"])
    BY <1>5 DEF AnonymizeUser
  <2> DEFINE row == [NewPassword(u, FALSE) EXCEPT !.status = "ANONYMIZED",
                                                  !.role = "USER"]
  <2>2. NewPassword(u, FALSE) \in Row
    <3>1. user[u].version < MaxVersion /\ user \in [User -> Row]
      BY <2>1 DEF Change, IInv, TypeOK
    <3> QED BY <3>1, NewPasswordProperty
  <2>3. row \in Row
    BY <2>2 DEF Row
  <2>4. Change(u, row) /\ u \notin Admins
    BY <2>1 DEF Admins, Active
  <2> HIDE DEF row
  <2> QED BY <2>3, <2>4, AdminKept DEF IInv
<1> QED BY <1>1, <1>2, <1>3, <1>4, <1>5 DEF OwnerStep, BootstrapFirstAdmin

\* As long as there is an enabled administrator, there will be one, whoever acts
\* on whom at the same time.
THEOREM AdminAlwaysRemains == Spec => AdminRemains
<1>1. ASSUME IInv, [Next]_vars, Admins # {}, ~UNCHANGED user
      PROVE  Admins' # {}
  <2>1. \/ \E u \in User : AdminStep(u) \/ OwnerStep(u)
        \/ BootstrapFirstAdmin \/ ResetAdminPassword \/ ResetPassword \/ AnonymizeUser
        \/ RequestMobileAccountDeletion
    BY <1>1 DEF vars, Next, AccountsStep, LoginStep, MobileStep, DeviceStep,
         BeginAdmin, BeginReplace, BeginMobilePassword, BeginMobileDeletion,
         BeginResetAdmin, TakeSnapshot, RollBack, Refused, Begin, IssueReset,
         ExpireReset, BeginLogin, CreateSession, CreateMobileCredentials, LoginDevice,
         EndSession, RotateMobileRefreshToken, EndFamily, BeginLogout, EndLogout,
         BeginApprove, ApproveDevice, PollApproved, RevokeDevice
  <2> QED BY <1>1, <2>1, AdminStepKeepsAdmin, OthersKeepAdmin
<1>2. IInv /\ [Next]_vars => [Admins # {} => Admins' # {}]_user
  BY <1>1
<1> QED BY <1>2, InvAlways, PTL DEF Spec, AdminRemains
=============================================================================
