-------------------------- MODULE Services_proofs ---------------------------
(***************************************************************************)
(* Proofs about components of the servers that the runs of MCServices      *)
(* check on small instances: accounts and tokens (Accounts), the list of   *)
(* relays (RelaySelection), forgotten passwords (PasswordReset), who may   *)
(* be punched through (PunchAuthorization), activation codes (Activation), *)
(* captchas (LoginLimiter), the pool of relay servers (ServerPool), logins *)
(* through a third party (OidcLogin), the list of devices (DeviceList),    *)
(* the server a client is given (ServerScheduler).                         *)
(*                                                                         *)
(* Each theorem is about one component alone, taken with constants and     *)
(* variables of its own names; those of the same name are shared only in   *)
(* that they are declared once.                                            *)
(***************************************************************************)
EXTENDS Integers, Sequences, FiniteSets, FiniteSetTheorems, WellFoundedInduction, TLAPS

CONSTANTS
  User, Task, MaxChange, MaxToken,                               \* Accounts
  Relay, Check,                                                  \* RelaySelection
  Expire, Cooldown, UsedFor, Faults, MaxMails,                   \* PasswordReset
  Device, Request, Limits, MaxTime,                              \* PunchAuthorization
  Guest, Code, Days,                                             \* Activation
  Captcha, CaptchaThreshold, BanThreshold, Window, BanDuration, Expiration, \* LoginLimiter
  Server, Probe, RedisFails,                                     \* ServerPool
  Caller, MaxAuth, QueryTimeout, CacheTimeout, MaxQuery,         \* OidcLogin
  MaxCallback, Lossy,
  Id, Name, Slot, Beat, Pace, PaceComment, Retry, Serial, Fails, \* DeviceList
  Changes, Restarts, Deletes, MaxLogins, MaxRows, NoUser,
  Region, Anywhere, ClientRegion, NoRegion, Priority, Cost,      \* ServerScheduler
  Rows, Users

VARIABLES
  rows, isAdmin, enabled, password, old, tokens, pc, who, saw, form, set, \* Accounts
  relayServers0, relayServers, queue, dialling, answered, alwaysUseRelay, \* RelaySelection
  up, changes, wanted,
  file, task, mails, mailAge, settled, resets,                   \* PasswordReset
  mustLogin, secret, banned, subscription, limit, permitted,     \* PunchAuthorization
  sessions, req, now, connected,
  validDays, first, exists, codeDays, usedBy, code, days,        \* Activation
  applied, start,
  attempts, captchas, needs, free, under, spent, drawn,          \* LoginLimiter
  unborn, gone, active, online, redis, todo, found, seen,        \* ServerPool
  topology, got, asked, steady,
  keep_querying, running, code_url, auth_body, failed, caller,   \* OidcLogin
  last, left, cache, authorized, timer, served, asking, storing,
  me, client, upload, logins, session,                           \* DeviceList
  user, region, isRestricted, given                              \* ServerScheduler

Accts == INSTANCE Accounts
Selection == INSTANCE RelaySelection
Reset == INSTANCE PasswordReset
Punch == INSTANCE PunchAuthorization
Codes == INSTANCE Activation
Limiter == INSTANCE LoginLimiter
Pool == INSTANCE ServerPool
Oidc == INSTANCE OidcLogin
Devs == INSTANCE DeviceList
Sched == INSTANCE ServerScheduler

-----------------------------------------------------------------------------
(* Accounts.                                                               *)

LEMMA AccountSets ==
  /\ \A S : Accts!IsFiniteSet(S) <=> IsFiniteSet(S)
  /\ \A S : Accts!Cardinality(S) = Cardinality(S)
BY DEF Accts!IsFiniteSet, IsFiniteSet, Accts!Cardinality, Cardinality

LEMMA AccountsTyped == Accts!AccountsAssumption /\ Accts!Spec => []Accts!TypeOK
<1> SUFFICES ASSUME Accts!AccountsAssumption PROVE Accts!Spec => []Accts!TypeOK
  OBVIOUS
<1> USE DEF Accts!AccountsAssumption
<1>1. Accts!Init => Accts!TypeOK
  <2> SUFFICES ASSUME Accts!Init PROVE Accts!TypeOK
    OBVIOUS
  <2>1. (CHOOSE u \in User : TRUE) \in User
    BY DEF Accts!Init
  <2> QED
    BY <2>1 DEF Accts!Init, Accts!TypeOK, Accts!Form, Accts!Seen, Accts!Token
<1>2. Accts!TypeOK /\ [Accts!Next]_Accts!vars => Accts!TypeOK'
  <2> SUFFICES ASSUME Accts!TypeOK, [Accts!Next]_Accts!vars PROVE Accts!TypeOK'
    OBVIOUS
  <2> USE DEF Accts!TypeOK, Accts!Goto, Accts!columns, Accts!secrets
  <2>1. ASSUME NEW t \in Task, NEW u \in User, Accts!Verify(t, u) PROVE Accts!TypeOK'
    <3>1. saw' \in [Task -> Accts!Seen]
      BY <2>1 DEF Accts!Verify, Accts!Seen
    <3>2. form' \in [Task -> Accts!Form]
      <4>1. PICK b \in BOOLEAN : b <=> u \in enabled
        OBVIOUS
      <4>2. form' = [form EXCEPT ![t].enabled = b]
        BY <2>1, <4>1, Zenon DEF Accts!Verify
      <4> QED
        BY <4>2 DEF Accts!Form
    <3> QED
      BY <2>1, <3>1, <3>2 DEF Accts!Verify
  <2>2. ASSUME NEW t \in Task, NEW u \in User, Accts!UpdatePassword(t, u) PROVE Accts!TypeOK'
    <3>1. saw' \in [Task -> Accts!Seen]
      BY <2>2 DEF Accts!UpdatePassword, Accts!Seen
    <3>2. password' \in [User -> 0..MaxChange] /\ set' \in [User -> 0..MaxChange]
      BY <2>2 DEF Accts!UpdatePassword
    <3> QED
      BY <2>2, <3>1, <3>2 DEF Accts!UpdatePassword
  <2>3. ASSUME NEW t \in Task, NEW u \in User, Accts!Delete(t, u) PROVE Accts!TypeOK'
    BY <2>3 DEF Accts!Delete
  <2>4. ASSUME NEW t \in Task, NEW u \in User, NEW f \in Accts!Form, Accts!Update(t, u, f)
        PROVE  Accts!TypeOK'
    BY <2>4 DEF Accts!Update
  <2>5. ASSUME NEW t \in Task, Accts!Rehash(t) PROVE Accts!TypeOK'
    BY <2>5 DEF Accts!Rehash, Accts!Seen
  <2>6. ASSUME NEW t \in Task, Accts!Login(t) PROVE Accts!TypeOK'
    BY <2>6 DEF Accts!Login, Accts!Seen, Accts!Token
  <2>7. ASSUME NEW t \in Task, Accts!FlushToken(t) PROVE Accts!TypeOK'
    BY <2>7 DEF Accts!FlushToken
  <2>8. ASSUME NEW t \in Task, Accts!DeleteRow(t) PROVE Accts!TypeOK'
    BY <2>8 DEF Accts!DeleteRow
  <2>9. ASSUME NEW t \in Task, Accts!Count(t) PROVE Accts!TypeOK'
    BY <2>9 DEF Accts!Count
  <2>10. ASSUME NEW t \in Task, Accts!Write(t) PROVE Accts!TypeOK'
    BY <2>10 DEF Accts!Write, Accts!Put
  <2>11. ASSUME NEW k \in tokens, Accts!Logout(k) PROVE Accts!TypeOK'
    BY <2>11 DEF Accts!Logout
  <2>12. CASE UNCHANGED Accts!vars
    BY <2>12 DEF Accts!vars
  <2> QED
    BY <2>1, <2>2, <2>3, <2>4, <2>5, <2>6, <2>7, <2>8, <2>9, <2>10, <2>11, <2>12
       DEF Accts!Next
<1> QED
  BY <1>1, <1>2, PTL DEF Accts!Spec

\* A password hash of the old kind is the first: UpdatePassword replaces both.
\* A login that has read a password set anew since is overtaken.
FormerInv ==
  /\ Accts!FormerTokensAreGone
  /\ \A u \in old : password[u] = 0 
  /\ \A t \in Task : pc[t] = "rehash" => saw[t].password = 0
  /\ \A t \in Task : pc[t] = "token" /\ saw[t].password < password[who[t]] => saw[t].overtaken

LEMMA FormerInit == Accts!Init => FormerInv
BY DEF Accts!Init, FormerInv, Accts!FormerTokensAreGone

LEMMA FormerStep ==
  ASSUME Accts!AccountsAssumption, Accts!TypeOK, FormerInv, [Accts!Next]_Accts!vars
  PROVE  FormerInv'
<1> USE DEF Accts!AccountsAssumption, Accts!TypeOK, Accts!Goto, Accts!columns, Accts!secrets
<1>0. \A u \in User, t \in Task : pc[t] = "flush" /\ who[t] = u => Accts!Flushing(u)
  BY DEF Accts!Flushing
<1>1. ASSUME NEW t \in Task, NEW u \in User, Accts!Verify(t, u) PROVE FormerInv'
  <2>1. \A v \in User : Accts!Flushing(v) => Accts!Flushing(v)'
    BY <1>1 DEF Accts!Verify, Accts!Flushing
  <2> QED
    BY <1>1, <2>1
       DEF Accts!Verify, FormerInv, Accts!FormerTokensAreGone, Accts!Token, Accts!Seen
<1>2. ASSUME NEW t \in Task, NEW u \in User, Accts!UpdatePassword(t, u) PROVE FormerInv'
  <2>1. Accts!Flushing(u)'
    BY <1>2 DEF Accts!UpdatePassword, Accts!Flushing
  <2>2. \A v \in User : Accts!Flushing(v) => Accts!Flushing(v)'
    BY <1>2 DEF Accts!UpdatePassword, Accts!Flushing
  <2>3. \A v \in User \ {u} : password'[v] = password[v]
    BY <1>2 DEF Accts!UpdatePassword
  <2>4. Accts!FormerTokensAreGone'
    BY <1>2, <2>1, <2>2, <2>3
       DEF Accts!UpdatePassword, FormerInv, Accts!FormerTokensAreGone, Accts!Token
  <2>5. ASSUME NEW s \in Task, s # t
        PROVE  /\ pc'[s] = pc[s] /\ who'[s] = who[s] /\ saw'[s].password = saw[s].password
               /\ saw'[s].overtaken = (saw[s].overtaken \/ who[s] = u)
    BY <1>2, <2>5 DEF Accts!UpdatePassword, Accts!Seen
  <2>6. pc'[t] = "flush"
    BY <1>2 DEF Accts!UpdatePassword
  <2>7. \A v \in old' : v \in old /\ v # u
    BY <1>2 DEF Accts!UpdatePassword
  <2>8. \A v \in old' : password'[v] = 0
    BY <2>3, <2>7 DEF FormerInv
  <2>9. \A s \in Task : pc'[s] = "rehash" => saw'[s].password = 0
    BY <2>5, <2>6 DEF FormerInv
  <2>10. ASSUME NEW s \in Task, pc'[s] = "token", saw'[s].password < password'[who'[s]]
         PROVE  saw'[s].overtaken
    <3>1. s # t
      BY <2>6, <2>10
    <3>2. CASE who[s] = u
      BY <2>5, <3>1, <3>2
    <3>3. CASE who[s] # u
      <4>1. password'[who[s]] = password[who[s]]
        BY <2>3, <3>3
      <4>2. pc[s] = "token" /\ saw[s].password < password[who[s]]
        BY <2>5, <2>10, <3>1, <4>1
      <4> QED
        BY <2>5, <3>1, <4>2 DEF FormerInv
    <3> QED
      BY <3>2, <3>3
  <2> QED
    BY <2>4, <2>8, <2>9, <2>10 DEF FormerInv
<1>3. ASSUME NEW t \in Task, NEW u \in User, Accts!Delete(t, u) PROVE FormerInv'
  <2>1. \A v \in User : Accts!Flushing(v) => Accts!Flushing(v)'
    BY <1>3 DEF Accts!Delete, Accts!Flushing
  <2> QED
    BY <1>3, <2>1 DEF Accts!Delete, FormerInv, Accts!FormerTokensAreGone, Accts!Token
<1>4. ASSUME NEW t \in Task, NEW u \in User, NEW f \in Accts!Form, Accts!Update(t, u, f)
      PROVE  FormerInv'
  <2>1. \A v \in User : Accts!Flushing(v) => Accts!Flushing(v)'
    BY <1>4 DEF Accts!Update, Accts!Flushing
  <2> QED
    BY <1>4, <2>1 DEF Accts!Update, FormerInv, Accts!FormerTokensAreGone, Accts!Token
<1>5. ASSUME NEW t \in Task, Accts!Rehash(t) PROVE FormerInv'
  <2>1. \A v \in User : Accts!Flushing(v) => Accts!Flushing(v)'
    BY <1>5 DEF Accts!Rehash, Accts!Flushing
  <2>2. /\ password' = [password EXCEPT ![who[t]] = 0]
        /\ \A v \in User : password'[v] <= password[v] /\ password[v] \in Nat
    <3>1. saw[t].password = 0 /\ who[t] \in User
      BY <1>5 DEF Accts!Rehash, FormerInv
    <3>2. password' = [password EXCEPT ![who[t]] = 0]
      BY <1>5, <3>1 DEF Accts!Rehash
    <3>3. \A v \in User :
            password[v] \in Nat /\ password'[v] = IF v = who[t] THEN 0 ELSE password[v]
      BY <3>2
    <3> QED
      BY <3>2, <3>3
  <2>3. Accts!FormerTokensAreGone'
    BY <1>5, <2>1, <2>2 DEF Accts!Rehash, FormerInv, Accts!FormerTokensAreGone, Accts!Token
  <2>4. saw[t].password = 0 /\ password'[who[t]] = 0
    BY <1>5, <2>2 DEF FormerInv, Accts!Rehash
  <2>5. \A s \in Task : s # t => pc'[s] = pc[s]
    BY <1>5 DEF Accts!Rehash
  <2>6. \A s \in Task : saw[s].password \in Nat
    BY DEF Accts!Seen
  <2>7. \A s \in Task : pc'[s] = "token" /\ saw[s].password < password'[who[s]] => saw[s].overtaken
    BY <2>2, <2>4, <2>5, <2>6 DEF FormerInv
  <2> QED
    BY <1>5, <2>2, <2>3, <2>7 DEF Accts!Rehash, FormerInv
<1>6. ASSUME NEW t \in Task, Accts!Login(t) PROVE FormerInv'
  <2>1. \A v \in User : Accts!Flushing(v) => Accts!Flushing(v)'
    BY <1>6 DEF Accts!Login, Accts!Flushing
  <2> QED
    BY <1>6, <2>1
       DEF Accts!Login, FormerInv, Accts!FormerTokensAreGone, Accts!Token, Accts!Seen
<1>7. ASSUME NEW t \in Task, Accts!FlushToken(t) PROVE FormerInv'
  <2>1. \A v \in User : Accts!Flushing(v) /\ v # who[t] => Accts!Flushing(v)'
    BY <1>7 DEF Accts!FlushToken, Accts!Flushing
  <2>2. \A k \in tokens' : k \in tokens /\ k.user # who[t]
    BY <1>7 DEF Accts!FlushToken, Accts!Held
  <2> QED
    BY <1>7, <2>1, <2>2
       DEF Accts!FlushToken, FormerInv, Accts!FormerTokensAreGone, Accts!Token
<1>8. ASSUME NEW t \in Task, Accts!DeleteRow(t) PROVE FormerInv'
  <2>1. \A v \in User : Accts!Flushing(v) => Accts!Flushing(v)'
    BY <1>8 DEF Accts!DeleteRow, Accts!Flushing
  <2> QED
    BY <1>8, <2>1 DEF Accts!DeleteRow, FormerInv, Accts!FormerTokensAreGone, Accts!Token
<1>9. ASSUME NEW t \in Task, Accts!Count(t) PROVE FormerInv'
  <2>1. \A v \in User : Accts!Flushing(v) => Accts!Flushing(v)'
    BY <1>9 DEF Accts!Count, Accts!Flushing
  <2> QED
    BY <1>9, <2>1 DEF Accts!Count, FormerInv, Accts!FormerTokensAreGone, Accts!Token
<1>10. ASSUME NEW t \in Task, Accts!Write(t) PROVE FormerInv'
  <2>1. \A v \in User : Accts!Flushing(v) => Accts!Flushing(v)'
    BY <1>10 DEF Accts!Write, Accts!Flushing
  <2> QED
    BY <1>10, <2>1 DEF Accts!Write, FormerInv, Accts!FormerTokensAreGone, Accts!Token
<1>11. ASSUME NEW k \in tokens, Accts!Logout(k) PROVE FormerInv'
  <2>1. \A v \in User : Accts!Flushing(v) => Accts!Flushing(v)'
    BY <1>11 DEF Accts!Logout, Accts!Flushing
  <2> QED
    BY <1>11, <2>1 DEF Accts!Logout, FormerInv, Accts!FormerTokensAreGone, Accts!Token
<1>12. CASE UNCHANGED Accts!vars
  BY <1>12 DEF Accts!vars, FormerInv, Accts!FormerTokensAreGone, Accts!Flushing
<1> QED
  BY <1>1, <1>2, <1>3, <1>4, <1>5, <1>6, <1>7, <1>8, <1>9, <1>10, <1>11, <1>12
     DEF Accts!Next

\* FormerTokensAreGone: UpdatePassword leaves a token older than the password only to a
\* login that was under way while it was changed, or until it has flushed them; for any
\* users, tasks and changes at once.
THEOREM FormerTokensGo ==
  Accts!AccountsAssumption /\ Accts!Spec => []Accts!FormerTokensAreGone
<1> SUFFICES ASSUME Accts!AccountsAssumption PROVE Accts!Spec => []Accts!FormerTokensAreGone
  OBVIOUS
<1>1. FormerInv => Accts!FormerTokensAreGone
  BY DEF FormerInv
<1> QED
  BY <1>1, AccountsTyped, FormerInit, FormerStep, PTL DEF Accts!Spec

\* With one request at a time the password given to Rehash is the one in the row.
StandsInv ==
  /\ \A u \in User : password[u] = set[u]
  /\ \A t \in Task : pc[t] = "rehash" => saw[t].password = password[who[t]]

LEMMA StandsStep ==
  ASSUME Accts!AccountsAssumption, \A s, t \in Task : s = t, Accts!TypeOK, StandsInv,
         [Accts!Next]_Accts!vars
  PROVE  StandsInv'
<1> USE DEF Accts!TypeOK, Accts!Goto, Accts!columns, Accts!secrets, StandsInv
<1>1. ASSUME NEW t \in Task, NEW u \in User, Accts!Verify(t, u) PROVE StandsInv'
  BY <1>1 DEF Accts!Verify
<1>2. ASSUME NEW t \in Task, NEW u \in User, Accts!UpdatePassword(t, u) PROVE StandsInv'
  BY <1>2 DEF Accts!UpdatePassword
<1>3. ASSUME NEW t \in Task, NEW u \in User, Accts!Delete(t, u) PROVE StandsInv'
  BY <1>3 DEF Accts!Delete
<1>4. ASSUME NEW t \in Task, NEW u \in User, NEW f \in Accts!Form, Accts!Update(t, u, f)
      PROVE  StandsInv'
  BY <1>4 DEF Accts!Update
<1>5. ASSUME NEW t \in Task, Accts!Rehash(t) PROVE StandsInv'
  BY <1>5 DEF Accts!Rehash
<1>6. ASSUME NEW t \in Task, Accts!Login(t) PROVE StandsInv'
  BY <1>6 DEF Accts!Login
<1>7. ASSUME NEW t \in Task, Accts!FlushToken(t) PROVE StandsInv'
  BY <1>7 DEF Accts!FlushToken
<1>8. ASSUME NEW t \in Task, Accts!DeleteRow(t) PROVE StandsInv'
  BY <1>8 DEF Accts!DeleteRow
<1>9. ASSUME NEW t \in Task, Accts!Count(t) PROVE StandsInv'
  BY <1>9 DEF Accts!Count
<1>10. ASSUME NEW t \in Task, Accts!Write(t) PROVE StandsInv'
  BY <1>10 DEF Accts!Write
<1>11. ASSUME NEW k \in tokens, Accts!Logout(k) PROVE StandsInv'
  BY <1>11 DEF Accts!Logout
<1>12. CASE UNCHANGED Accts!vars
  BY <1>12 DEF Accts!vars
<1> QED
  BY <1>1, <1>2, <1>3, <1>4, <1>5, <1>6, <1>7, <1>8, <1>9, <1>10, <1>11, <1>12
     DEF Accts!Next

\* PasswordStands, while requests are served one at a time: the password of a user is the
\* one last set, also when a login brings an old hash up to date (Rehash).
THEOREM PasswordsStand ==
  ASSUME Accts!AccountsAssumption, \A s, t \in Task : s = t
  PROVE  Accts!Spec => []Accts!PasswordStands
<1>1. Accts!Init => StandsInv
  BY DEF Accts!Init, StandsInv
<1>2. Accts!TypeOK /\ StandsInv => Accts!PasswordStands
  BY DEF StandsInv, Accts!PasswordStands, Accts!TypeOK
<1>3. Accts!TypeOK /\ StandsInv /\ [Accts!Next]_Accts!vars => StandsInv'
  BY StandsStep
<1> QED
  BY <1>1, <1>2, <1>3, AccountsTyped, PTL DEF Accts!Spec

\* What a request has read of the administrators still stands when it writes.
AdminInv ==
  /\ isAdmin # {}
  /\ \A t \in Task :
       /\ pc[t] = "delete" => \E v \in isAdmin : v # who[t]
       /\ pc[t] \in {"count", "write"} => who[t] \in rows
       /\ pc[t] = "write" => form[t].admin \/ \E v \in isAdmin : v # who[t]

\* There is another administrator than u, unless u is the last.
LEMMA AnotherAdmin ==
  ASSUME Accts!AccountsAssumption, Accts!TypeOK, isAdmin # {}, NEW u,
         ~(Accts!LastAdmin /\ u \in isAdmin)
  PROVE  \E v \in isAdmin : v # u
<1>1. CASE u \notin isAdmin
  BY <1>1
<1>2. CASE u \in isAdmin
  <2> SUFFICES ASSUME \A v \in isAdmin : v = u PROVE FALSE
    OBVIOUS
  <2>1. isAdmin = {u}
    BY <1>2
  <2>2. Cardinality(isAdmin) = 1
    BY <2>1, FS_Singleton
  <2> QED
    BY <1>2, <2>2, AccountSets DEF Accts!LastAdmin
<1> QED
  BY <1>1, <1>2

LEMMA AdminStep ==
  ASSUME Accts!AccountsAssumption, \A s, t \in Task : s = t, Accts!TypeOK, AdminInv,
         [Accts!Next]_Accts!vars
  PROVE  AdminInv'
<1> USE DEF Accts!TypeOK, Accts!Goto, Accts!columns, Accts!secrets, AdminInv
<1>1. ASSUME NEW t \in Task, NEW u \in User, Accts!Verify(t, u) PROVE AdminInv'
  BY <1>1 DEF Accts!Verify
<1>2. ASSUME NEW t \in Task, NEW u \in User, Accts!UpdatePassword(t, u) PROVE AdminInv'
  BY <1>2 DEF Accts!UpdatePassword
<1>3. ASSUME NEW t \in Task, NEW u \in User, Accts!Delete(t, u) PROVE AdminInv'
  <2>1. \E v \in isAdmin : v # u
    BY <1>3, AnotherAdmin DEF Accts!Delete
  <2> QED
    BY <1>3, <2>1 DEF Accts!Delete
<1>4. ASSUME NEW t \in Task, NEW u \in User, NEW f \in Accts!Form, Accts!Update(t, u, f)
      PROVE  AdminInv'
  BY <1>4 DEF Accts!Update
<1>5. ASSUME NEW t \in Task, Accts!Rehash(t) PROVE AdminInv'
  BY <1>5 DEF Accts!Rehash
<1>6. ASSUME NEW t \in Task, Accts!Login(t) PROVE AdminInv'
  BY <1>6 DEF Accts!Login
<1>7. ASSUME NEW t \in Task, Accts!FlushToken(t) PROVE AdminInv'
  BY <1>7 DEF Accts!FlushToken
<1>8. ASSUME NEW t \in Task, Accts!DeleteRow(t) PROVE AdminInv'
  BY <1>8 DEF Accts!DeleteRow
<1>9. ASSUME NEW t \in Task, Accts!Count(t) PROVE AdminInv'
  <2>1. CASE pc'[t] = "idle"
    BY <1>9, <2>1 DEF Accts!Count
  <2>2. CASE ~(Accts!LastAdmin /\ ~(form[t].admin /\ form[t].enabled))
    <3>1. form[t].admin \/ \E v \in isAdmin : v # who[t]
      BY <2>2, AnotherAdmin
    <3> QED
      BY <1>9, <3>1 DEF Accts!Count
  <2> QED
    BY <1>9, <2>1, <2>2 DEF Accts!Count
<1>10. ASSUME NEW t \in Task, Accts!Write(t) PROVE AdminInv'
  BY <1>10 DEF Accts!Write, Accts!Put
<1>11. ASSUME NEW k \in tokens, Accts!Logout(k) PROVE AdminInv'
  BY <1>11 DEF Accts!Logout
<1>12. CASE UNCHANGED Accts!vars
  BY <1>12 DEF Accts!vars
<1> QED
  BY <1>1, <1>2, <1>3, <1>4, <1>5, <1>6, <1>7, <1>8, <1>9, <1>10, <1>11, <1>12
     DEF Accts!Next

\* AnAdminStays, while requests are served one at a time: Delete and Update count the other
\* administrators before they take one away, so that there always is one.
THEOREM AdminsStay ==
  ASSUME Accts!AccountsAssumption, \A s, t \in Task : s = t
  PROVE  Accts!Spec => []Accts!AnAdminStays
<1>1. Accts!Init => AdminInv
  BY DEF Accts!Init, AdminInv
<1>2. AdminInv => Accts!AnAdminStays
  BY DEF AdminInv, Accts!AnAdminStays
<1>3. Accts!TypeOK /\ AdminInv /\ [Accts!Next]_Accts!vars => AdminInv'
  BY AdminStep
<1> QED
  BY <1>1, <1>2, <1>3, AccountsTyped, PTL DEF Accts!Spec

-----------------------------------------------------------------------------
(* The list of relays.                                                     *)

\* What a check has found is stored only if it found a relay: its messages to the
\* loop are not empty.
RelaysInv ==
  /\ Selection!TypeOK
  /\ Selection!NeverEmptied
  /\ \A i \in 1..Len(queue) : queue[i].kind = "RelayServers" => queue[i].list # {}

LEMMA RelaysStep ==
  ASSUME Selection!SelectionAssumption, RelaysInv, [Selection!Next]_Selection!vars
  PROVE  RelaysInv'
<1> USE DEF Selection!SelectionAssumption, RelaysInv, Selection!TypeOK, Selection!NeverEmptied,
            Selection!lists, Selection!checks
<1>s. ASSUME NEW kind \in {"RelayServers0", "RelayServers"}, NEW list \in SUBSET Relay,
             kind = "RelayServers" => list # {}, Selection!Send(kind, list)
      PROVE  /\ queue' \in Seq(Selection!Data)
             /\ \A i \in 1..Len(queue') : queue'[i].kind = "RelayServers" => queue'[i].list # {}
  <2>1. [kind |-> kind, list |-> list] \in Selection!Data
    BY DEF Selection!Data
  <2> QED
    BY <1>s, <2>1 DEF Selection!Send
<1>1. ASSUME Selection!SetRelayServers PROVE RelaysInv'
  <2>1. PICK list \in SUBSET Relay : Selection!Send("RelayServers0", list) /\ wanted' = list
    BY <1>1 DEF Selection!SetRelayServers
  <2>2. /\ queue' \in Seq(Selection!Data)
        /\ \A i \in 1..Len(queue') : queue'[i].kind = "RelayServers" => queue'[i].list # {}
    BY <1>s, <2>1
  <2> QED
    BY <1>1, <2>1, <2>2 DEF Selection!SetRelayServers, Selection!Count
<1>2. ASSUME Selection!AlwaysUseRelay PROVE RelaysInv'
  <2>1. Selection!Send("RelayServers0", {})
    BY <1>2 DEF Selection!AlwaysUseRelay
  <2>2. /\ queue' \in Seq(Selection!Data)
        /\ \A i \in 1..Len(queue') : queue'[i].kind = "RelayServers" => queue'[i].list # {}
    BY <1>s, <2>1
  <2> QED
    BY <1>2, <2>2 DEF Selection!AlwaysUseRelay, Selection!Count
<1>3. ASSUME Selection!Reach PROVE RelaysInv'
  BY <1>3 DEF Selection!Reach, Selection!Count, Selection!SymDiff
<1>4. ASSUME Selection!Receive PROVE RelaysInv'
  <2>1. /\ queue # <<>> /\ queue' = Tail(queue) /\ queue' \in Seq(Selection!Data)
        /\ \A i \in 1..Len(queue') : queue'[i] = queue[i + 1]
        /\ Len(queue') = Len(queue) - 1 /\ Len(queue) \in Nat
    BY <1>4 DEF Selection!Receive
  <2>2. PICK d \in Selection!Data : d = Head(queue) /\ (d.kind = "RelayServers" => d.list # {})
    <3>1. Head(queue) = queue[1] /\ queue[1] \in Selection!Data /\ 1 \in 1..Len(queue)
      BY <1>4 DEF Selection!Receive
    <3>2. queue[1].kind = "RelayServers" => queue[1].list # {}
      BY <3>1
    <3> QED
      BY <3>1, <3>2
  <2>3. /\ relayServers' = d.list
        /\ relayServers0' = IF d.kind = "RelayServers0" THEN d.list ELSE relayServers0
    BY <1>4, <2>2 DEF Selection!Receive
  <2> QED
    BY <1>4, <2>1, <2>2, <2>3 DEF Selection!Receive, Selection!Data
<1>5. ASSUME NEW c \in Check, Selection!StartCheck(c) PROVE RelaysInv'
  BY <1>5 DEF Selection!StartCheck
<1>6. ASSUME NEW c \in Check, Selection!Dial(c) PROVE RelaysInv'
  BY <1>6 DEF Selection!Dial, Selection!Idle
<1>7. ASSUME NEW c \in Check, Selection!SendCheck(c) PROVE RelaysInv'
  <2>1. CASE answered[c] = {}
    BY <1>7, <2>1 DEF Selection!SendCheck
  <2>2. CASE answered[c] # {}
    BY <1>7, <1>s, <2>2 DEF Selection!SendCheck
  <2> QED
    BY <2>1, <2>2
<1>8. CASE UNCHANGED Selection!vars
  BY <1>8 DEF Selection!vars
<1> QED
  BY <1>1, <1>2, <1>3, <1>4, <1>5, <1>6, <1>7, <1>8 DEF Selection!Next

\* NeverEmptied: while relays are configured the loop has one to hand out, whatever the
\* checks find, in whatever order they answer and however often the configuration changes.
THEOREM RelaysStayOffered ==
  Selection!SelectionAssumption /\ Selection!Spec => []Selection!NeverEmptied
<1> SUFFICES ASSUME Selection!SelectionAssumption
             PROVE  Selection!Spec => []Selection!NeverEmptied
  OBVIOUS
<1>1. Selection!Init => RelaysInv
  <2> SUFFICES ASSUME Selection!Init PROVE RelaysInv
    OBVIOUS
  <2>1. queue \in Seq(Selection!Data) /\ Len(queue) = 0
    BY DEF Selection!Init
  <2>2. Selection!TypeOK
    <3>1. dialling \in [Check -> (SUBSET Relay) \cup {Selection!Idle}]
      BY DEF Selection!Init
    <3>2. answered \in [Check -> SUBSET Relay]
      BY DEF Selection!Init
    <3>3. changes \in 0..MaxChange
      <4>1. changes = 0
        BY Zenon DEF Selection!Init
      <4> QED
        BY <4>1 DEF Selection!SelectionAssumption
    <3>4. /\ relayServers0 \subseteq Relay /\ relayServers \subseteq Relay
          /\ up \subseteq Relay /\ wanted \subseteq Relay
      BY DEF Selection!Init
    <3>5. alwaysUseRelay \in BOOLEAN
      BY Zenon DEF Selection!Init
    <3> QED
      BY <2>1, <3>1, <3>2, <3>3, <3>4, <3>5 DEF Selection!TypeOK
  <2>3. Selection!NeverEmptied
    BY DEF Selection!Init, Selection!NeverEmptied
  <2> QED
    BY <2>1, <2>2, <2>3 DEF RelaysInv
<1>2. RelaysInv => Selection!NeverEmptied
  BY DEF RelaysInv
<1>3. RelaysInv /\ [Selection!Next]_Selection!vars => RelaysInv'
  BY RelaysStep
<1> QED
  BY <1>1, <1>2, <1>3, PTL DEF Selection!Spec

-----------------------------------------------------------------------------
(* Forgotten passwords.                                                    *)

LEMMA ResetSets == \A S : Reset!Cardinality(S) = Cardinality(S)
BY DEF Reset!Cardinality, Cardinality

Mailing == {"store", "date", "pause", "pauseDate"}

\* What a request that is served alone knows of the files, by its step.
ServedAlone(t) ==
  LET p == task[t]
      c == file["code"]
      k == file["cooldown"]
  IN /\ p.pc \in {"cool", "look", "mail"} => mails < MaxMails
     /\ p.pc \in Mailing => mailAge = 0 /\ p.code = mails
     /\ p.pc \in {"date", "pause", "pauseDate"} => c.there /\ c.code = p.code /\ ~c.used
     /\ p.pc \in {"pause", "pauseDate"} => c.left = Expire
     /\ p.pc = "pauseDate" => k.there
     /\ p.pc = "look" /\ p.expired => k.left = 0
     /\ p.pc = "read" => p.expired = (c.left = 0)
     /\ p.pc = "mail" => mailAge >= Cooldown
     /\ p.pc \in {"state", "read", "change", "mark"} => p.code \in 1..mails
     /\ p.pc \in {"change", "mark"} => c.code = p.code
     /\ p.pc = "mark" => resets[p.code] > 0
     /\ p.pc = "markDate" => c.there /\ c.used

\* What the files say when no mail is being sent: the code is that of the last mail
\* and no longer valid than it, the cooldown has not ended before its time, and the
\* code of the last request that succeeded is there until it is used.
FilesFollow(t) ==
  LET p == task[t]
      c == file["code"]
      k == file["cooldown"]
  IN /\ p.pc # "store" /\ c.there /\ ~c.used =>
          c.code = mails /\ (c.left > 0 => c.left + mailAge <= Expire)
     /\ p.pc \notin Mailing /\ mailAge < Cooldown => k.there /\ k.left + mailAge >= Cooldown
     /\ p.pc \notin Mailing /\ settled.code # 0 /\ settled.age < Expire
          /\ resets[settled.code] = 0 =>
          c.there /\ c.code = settled.code /\ ~c.used /\ c.left + settled.age >= Expire

\* Where changing the password does not fail, a code that can be used has not been.
Spent(t) ==
  LET p == task[t]
      c == file["code"]
  IN /\ \A d \in Reset!Codes : resets[d] <= 1 /\ (d > mails => resets[d] = 0)
     /\ p.pc \in {"store", "change"} => resets[p.code] = 0
     /\ p.pc # "mark" /\ c.there /\ ~c.used => resets[c.code] = 0

ResetInv ==
  /\ Reset!TypeOK
  /\ \A t \in Task : ServedAlone(t) /\ FilesFollow(t) /\ (~Faults => Spent(t))

LEMMA ResetInit == Reset!TimesAssumption /\ Reset!Init => ResetInv
<1> SUFFICES ASSUME Reset!TimesAssumption, Reset!Init PROVE ResetInv
  OBVIOUS
<1> USE DEF Reset!TimesAssumption, Reset!Init, Reset!Longest, Reset!Codes,
            Reset!Idle, Reset!Absent, Reset!Keys
<1>1. Reset!TypeOK
  BY DEF Reset!TypeOK, Reset!Files, Reset!Tasks
<1>2. ASSUME NEW t \in Task PROVE ServedAlone(t) /\ FilesFollow(t) /\ Spent(t)
  BY DEF ServedAlone, FilesFollow, Spent, Mailing
<1> QED
  BY <1>1, <1>2 DEF ResetInv

\* The step of the only request there is.
LEMMA ResetStep ==
  ASSUME Reset!TimesAssumption, \A s, t \in Task : s = t, ResetInv, NEW t \in Task,
         \/ Reset!AskCode(t) \/ Reset!LookCooldown(t) \/ Reset!CheckCooldown(t)
         \/ Reset!Mail(t) \/ Reset!MailFails(t)
         \/ Reset!StoreCode(t) \/ Reset!DateCode(t) \/ Reset!StoreCooldown(t)
         \/ Reset!DateCooldown(t)
         \/ \E c \in Reset!Codes : Reset!AskReset(t, c)
         \/ Reset!LookCode(t) \/ Reset!ReadCode(t) \/ Reset!Change(t) \/ Reset!ChangeFails(t)
         \/ Reset!MarkUsed(t) \/ Reset!DateUsed(t)
  PROVE  ResetInv'
<1> USE DEF Reset!TimesAssumption, Reset!Longest, Reset!Codes, Reset!Keys, Mailing
<1>0. /\ file \in [Reset!Keys -> Reset!Files] /\ task \in [Task -> Reset!Tasks]
      /\ mails \in Reset!Codes /\ mailAge \in 0..Reset!Longest
      /\ settled \in [code : Reset!Codes, age : 0..Reset!Longest]
      /\ resets \in [Reset!Codes -> 0..2]
  BY DEF ResetInv, Reset!TypeOK
<1>a. PICK p \in Reset!Tasks, c \in Reset!Files, k \in Reset!Files :
         p = task[t] /\ c = file["code"] /\ k = file["cooldown"]
  BY <1>0
<1>b. ServedAlone(t) /\ FilesFollow(t) /\ (~Faults => Spent(t))
  BY DEF ResetInv
<1>z. ASSUME task' \in [Task -> Reset!Tasks], file' \in [Reset!Keys -> Reset!Files],
             mails' \in Reset!Codes, mailAge' \in 0..Reset!Longest,
             settled' \in [code : Reset!Codes, age : 0..Reset!Longest],
             resets' \in [Reset!Codes -> 0..2],
             ServedAlone(t)', FilesFollow(t)', ~Faults => Spent(t)'
      PROVE  ResetInv'
  BY <1>z DEF ResetInv, Reset!TypeOK
<1>c. /\ Reset!Idle \in Reset!Tasks /\ Reset!Absent \in Reset!Files
  BY DEF Reset!Idle, Reset!Tasks, Reset!Absent, Reset!Files
<1>d. /\ Reset!Written(p.code, FALSE) \in Reset!Files
      /\ Reset!Written(p.code, TRUE) \in Reset!Files
      /\ Reset!Written(0, FALSE) \in Reset!Files
      /\ [c EXCEPT !.left = Expire] \in Reset!Files
      /\ [c EXCEPT !.left = IF c.there THEN UsedFor ELSE 0] \in Reset!Files
      /\ [k EXCEPT !.left = IF k.there THEN Cooldown ELSE 0] \in Reset!Files
  <2>1. p.code \in Reset!Codes
    BY <1>a DEF Reset!Tasks
  <2>2. \A f \in Reset!Files, m \in {0, Cooldown, Expire, UsedFor} :
          [f EXCEPT !.left = m] \in Reset!Files
    BY DEF Reset!Files
  <2>3. \A n \in Reset!Codes, b \in BOOLEAN : Reset!Written(n, b) \in Reset!Files
    BY DEF Reset!Files, Reset!Written
  <2> HIDE DEF Reset!Codes
  <2>4. 0 \in Reset!Codes
    BY DEF Reset!Codes
  <2> QED
    BY <1>a, <2>1, <2>2, <2>3, <2>4
<1>1. CASE Reset!AskCode(t)
  <2>0. mails < MaxMails
    <3>1. {u \in Task : task[u].pc \in {"cool", "look", "mail"}} = {}
      BY <1>1 DEF Reset!AskCode
    <3>2. Reset!Cardinality({u \in Task : task[u].pc \in {"cool", "look", "mail"}}) = 0
      BY <3>1, ResetSets, FS_EmptySet
    <3> QED
      BY <1>0, <1>1, <3>2 DEF Reset!AskCode
  <2>1. /\ task'[t] = [p EXCEPT !.pc = "cool"]
        /\ file'["code"] = c
        /\ file'["cooldown"] = k
    BY <1>0, <1>1, <1>a DEF Reset!AskCode, Reset!Go
  <2>2. /\ task'[t] \in Reset!Tasks /\ file'["code"] \in Reset!Files
        /\ file'["cooldown"] \in Reset!Files
    <3>1. task'[t] \in Reset!Tasks
      BY <1>0, <1>1, <1>a, <1>b, <1>c, <2>1 DEF Reset!AskCode, Reset!Tasks
    <3>2. file'["code"] \in Reset!Files /\ file'["cooldown"] \in Reset!Files
      BY <1>a, <1>c, <1>d, <2>1
    <3> QED
      BY <3>1, <3>2
  <2>3. /\ task' \in [Task -> Reset!Tasks] /\ file' \in [Reset!Keys -> Reset!Files]
    BY <1>0, <1>1, <2>2 DEF Reset!AskCode, Reset!Go
  <2>4. /\ mails' \in Reset!Codes /\ mailAge' \in 0..Reset!Longest
        /\ settled' \in [code : Reset!Codes, age : 0..Reset!Longest]
        /\ resets' \in [Reset!Codes -> 0..2]
    BY <1>0, <1>1, <1>a, <1>b DEF Reset!AskCode
  <2>5. ServedAlone(t)'
    BY <1>0, <1>1, <1>a, <1>b, <2>1, <2>0 DEF Reset!AskCode, ServedAlone
  <2>6. FilesFollow(t)'
    BY <1>0, <1>1, <1>a, <1>b, <2>1 DEF Reset!AskCode, FilesFollow
  <2>7. ~Faults => Spent(t)'
    BY <1>0, <1>1, <1>a, <1>b, <2>1 DEF Reset!AskCode, Spent
  <2> QED
    BY <1>z, <2>3, <2>4, <2>5, <2>6, <2>7
<1>2. CASE Reset!LookCooldown(t)
  <2>1. /\ task'[t] = [p EXCEPT !.pc = "look", !.expired = (k.left = 0)]
        /\ file'["code"] = c
        /\ file'["cooldown"] = k
    BY <1>0, <1>2, <1>a DEF Reset!LookCooldown, Reset!Look
  <2>2. /\ task'[t] \in Reset!Tasks /\ file'["code"] \in Reset!Files
        /\ file'["cooldown"] \in Reset!Files
    <3>1. task'[t] \in Reset!Tasks
      BY <1>0, <1>2, <1>a, <1>b, <1>c, <2>1 DEF Reset!LookCooldown, Reset!Tasks
    <3>2. file'["code"] \in Reset!Files /\ file'["cooldown"] \in Reset!Files
      BY <1>a, <1>c, <1>d, <2>1
    <3> QED
      BY <3>1, <3>2
  <2>3. /\ task' \in [Task -> Reset!Tasks] /\ file' \in [Reset!Keys -> Reset!Files]
    BY <1>0, <1>2, <2>2 DEF Reset!LookCooldown, Reset!Look
  <2>4. /\ mails' \in Reset!Codes /\ mailAge' \in 0..Reset!Longest
        /\ settled' \in [code : Reset!Codes, age : 0..Reset!Longest]
        /\ resets' \in [Reset!Codes -> 0..2]
    BY <1>0, <1>2, <1>a, <1>b DEF Reset!LookCooldown, Reset!Look
  <2>5. ServedAlone(t)'
    BY <1>0, <1>2, <1>a, <1>b, <2>1
       DEF Reset!LookCooldown, Reset!Look, ServedAlone, Reset!Tasks
  <2>6. FilesFollow(t)'
    BY <1>0, <1>2, <1>a, <1>b, <2>1 DEF Reset!LookCooldown, Reset!Look, FilesFollow
  <2>7. ~Faults => Spent(t)'
    BY <1>0, <1>2, <1>a, <1>b, <2>1 DEF Reset!LookCooldown, Reset!Look, Spent
  <2> QED
    BY <1>z, <2>3, <2>4, <2>5, <2>6, <2>7
<1>3. CASE Reset!CheckCooldown(t)
  <2>1. /\ task'[t] = IF p.expired \/ ~k.there THEN [p EXCEPT !.pc = "mail"] ELSE Reset!Idle
        /\ file'["code"] = c
        /\ file'["cooldown"] = IF p.expired THEN Reset!Absent ELSE k
    BY <1>0, <1>3, <1>a DEF Reset!CheckCooldown, Reset!Go, Reset!End
  <2>2. /\ task'[t] \in Reset!Tasks /\ file'["code"] \in Reset!Files
        /\ file'["cooldown"] \in Reset!Files
    <3>1. task'[t] \in Reset!Tasks
      BY <1>0, <1>3, <1>a, <1>b, <1>c, <2>1, SMTT(30)
         DEF Reset!CheckCooldown, Reset!Tasks, ServedAlone
    <3>2. file'["code"] \in Reset!Files /\ file'["cooldown"] \in Reset!Files
      BY <1>a, <1>c, <1>d, <2>1
    <3> QED
      BY <3>1, <3>2
  <2>3. /\ task' \in [Task -> Reset!Tasks] /\ file' \in [Reset!Keys -> Reset!Files]
    BY <1>0, <1>3, <2>2 DEF Reset!CheckCooldown, Reset!Go, Reset!End
  <2>4. /\ mails' \in Reset!Codes /\ mailAge' \in 0..Reset!Longest
        /\ settled' \in [code : Reset!Codes, age : 0..Reset!Longest]
        /\ resets' \in [Reset!Codes -> 0..2]
    BY <1>0, <1>3, <1>a, <1>b DEF Reset!CheckCooldown
  <2>5. ServedAlone(t)'
    BY <1>0, <1>3, <1>a, <1>b, <2>1
       DEF Reset!CheckCooldown, ServedAlone, FilesFollow, Reset!Idle
  <2>6. FilesFollow(t)'
    BY <1>0, <1>3, <1>a, <1>b, <2>1 DEF Reset!CheckCooldown, ServedAlone, FilesFollow
  <2>7. ~Faults => Spent(t)'
    BY <1>0, <1>3, <1>a, <1>b, <2>1 DEF Reset!CheckCooldown, Spent, Reset!Idle
  <2> QED
    BY <1>z, <2>3, <2>4, <2>5, <2>6, <2>7
<1>4. CASE Reset!Mail(t)
  <2>1. /\ task'[t] = [p EXCEPT !.pc = "store", !.code = mails + 1]
        /\ file'["code"] = c
        /\ file'["cooldown"] = k
    BY <1>0, <1>4, <1>a DEF Reset!Mail
  <2>2. /\ task'[t] \in Reset!Tasks /\ file'["code"] \in Reset!Files
        /\ file'["cooldown"] \in Reset!Files
    <3>1. task'[t] \in Reset!Tasks
      <4>1. mails + 1 \in Reset!Codes
        BY <1>0, <1>4, <1>a, <1>b DEF Reset!Mail, ServedAlone
      <4> QED
        BY <1>a, <2>1, <4>1 DEF Reset!Tasks
    <3>2. file'["code"] \in Reset!Files /\ file'["cooldown"] \in Reset!Files
      BY <1>a, <1>c, <1>d, <2>1
    <3> QED
      BY <3>1, <3>2
  <2>3. /\ task' \in [Task -> Reset!Tasks] /\ file' \in [Reset!Keys -> Reset!Files]
    BY <1>0, <1>4, <2>2 DEF Reset!Mail
  <2>4. /\ mails' \in Reset!Codes /\ mailAge' \in 0..Reset!Longest
        /\ settled' \in [code : Reset!Codes, age : 0..Reset!Longest]
        /\ resets' \in [Reset!Codes -> 0..2]
    BY <1>0, <1>4, <1>a, <1>b DEF Reset!Mail, Reset!Tasks
  <2>5. ServedAlone(t)'
    BY <1>0, <1>4, <1>a, <1>b, <2>1 DEF Reset!Mail, ServedAlone
  <2>6. FilesFollow(t)'
    BY <1>0, <1>4, <1>a, <1>b, <2>1 DEF Reset!Mail, FilesFollow
  <2>7. ~Faults => Spent(t)'
    BY <1>0, <1>4, <1>a, <1>b, <2>1 DEF Reset!Mail, Spent, Reset!Tasks
  <2> QED
    BY <1>z, <2>3, <2>4, <2>5, <2>6, <2>7
<1>5. CASE Reset!MailFails(t)
  <2>1. /\ task'[t] = Reset!Idle
        /\ file'["code"] = c
        /\ file'["cooldown"] = k
    BY <1>0, <1>5, <1>a DEF Reset!MailFails, Reset!End
  <2>2. /\ task'[t] \in Reset!Tasks /\ file'["code"] \in Reset!Files
        /\ file'["cooldown"] \in Reset!Files
    <3>1. task'[t] \in Reset!Tasks
      BY <1>0, <1>5, <1>a, <1>b, <1>c, <2>1 DEF Reset!MailFails
    <3>2. file'["code"] \in Reset!Files /\ file'["cooldown"] \in Reset!Files
      BY <1>a, <1>c, <1>d, <2>1
    <3> QED
      BY <3>1, <3>2
  <2>3. /\ task' \in [Task -> Reset!Tasks] /\ file' \in [Reset!Keys -> Reset!Files]
    BY <1>0, <1>5, <2>2 DEF Reset!MailFails, Reset!End
  <2>4. /\ mails' \in Reset!Codes /\ mailAge' \in 0..Reset!Longest
        /\ settled' \in [code : Reset!Codes, age : 0..Reset!Longest]
        /\ resets' \in [Reset!Codes -> 0..2]
    BY <1>0, <1>5, <1>a, <1>b DEF Reset!MailFails
  <2>5. ServedAlone(t)'
    BY <1>0, <1>5, <1>a, <1>b, <2>1 DEF Reset!MailFails, ServedAlone, Reset!Idle
  <2>6. FilesFollow(t)'
    BY <1>0, <1>5, <1>a, <1>b, <2>1 DEF Reset!MailFails, FilesFollow
  <2>7. ~Faults => Spent(t)'
    BY <1>0, <1>5, <1>a, <1>b, <2>1 DEF Reset!MailFails, Spent
  <2> QED
    BY <1>z, <2>3, <2>4, <2>5, <2>6, <2>7
<1>6. CASE Reset!StoreCode(t)
  <2>1. /\ task'[t] = [p EXCEPT !.pc = "date"]
        /\ file'["code"] = Reset!Written(p.code, FALSE)
        /\ file'["cooldown"] = k
    BY <1>0, <1>6, <1>a DEF Reset!StoreCode, Reset!Go, Reset!Store
  <2>2. /\ task'[t] \in Reset!Tasks /\ file'["code"] \in Reset!Files
        /\ file'["cooldown"] \in Reset!Files
    <3>1. task'[t] \in Reset!Tasks
      BY <1>0, <1>6, <1>a, <1>b, <1>c, <2>1 DEF Reset!StoreCode, Reset!Tasks
    <3>2. file'["code"] \in Reset!Files /\ file'["cooldown"] \in Reset!Files
      BY <1>a, <1>c, <1>d, <2>1
    <3> QED
      BY <3>1, <3>2
  <2>3. /\ task' \in [Task -> Reset!Tasks] /\ file' \in [Reset!Keys -> Reset!Files]
    BY <1>0, <1>6, <2>2 DEF Reset!StoreCode, Reset!Go, Reset!Store
  <2>4. /\ mails' \in Reset!Codes /\ mailAge' \in 0..Reset!Longest
        /\ settled' \in [code : Reset!Codes, age : 0..Reset!Longest]
        /\ resets' \in [Reset!Codes -> 0..2]
    BY <1>0, <1>6, <1>a, <1>b DEF Reset!StoreCode
  <2>5. ServedAlone(t)'
    BY <1>0, <1>6, <1>a, <1>b, <2>1 DEF Reset!StoreCode, ServedAlone, Reset!Written
  <2>6. FilesFollow(t)'
    BY <1>0, <1>6, <1>a, <1>b, <2>1
       DEF Reset!StoreCode, ServedAlone, FilesFollow, Reset!Written
  <2>7. ~Faults => Spent(t)'
    BY <1>0, <1>6, <1>a, <1>b, <2>1 DEF Reset!StoreCode, Spent, Reset!Written
  <2> QED
    BY <1>z, <2>3, <2>4, <2>5, <2>6, <2>7
<1>7. CASE Reset!DateCode(t)
  <2>0. c.there
    BY <1>7, <1>a, <1>b DEF Reset!DateCode, ServedAlone
  <2>1. /\ task'[t] = [p EXCEPT !.pc = "pause"]
        /\ file'["code"] = [c EXCEPT !.left = Expire]
        /\ file'["cooldown"] = k
    BY <1>0, <1>7, <1>a, <2>0 DEF Reset!DateCode, Reset!Go, Reset!Dated
  <2>2. /\ task'[t] \in Reset!Tasks /\ file'["code"] \in Reset!Files
        /\ file'["cooldown"] \in Reset!Files
    <3>1. task'[t] \in Reset!Tasks
      BY <1>0, <1>7, <1>a, <1>b, <1>c, <2>1 DEF Reset!DateCode, Reset!Tasks
    <3>2. file'["code"] \in Reset!Files /\ file'["cooldown"] \in Reset!Files
      BY <1>a, <1>c, <1>d, <2>1
    <3> QED
      BY <3>1, <3>2
  <2>3. /\ task' \in [Task -> Reset!Tasks] /\ file' \in [Reset!Keys -> Reset!Files]
    BY <1>0, <1>7, <2>2 DEF Reset!DateCode, Reset!Go, Reset!End, Reset!Dated
  <2>4. /\ mails' \in Reset!Codes /\ mailAge' \in 0..Reset!Longest
        /\ settled' \in [code : Reset!Codes, age : 0..Reset!Longest]
        /\ resets' \in [Reset!Codes -> 0..2]
    BY <1>0, <1>7, <1>a, <1>b DEF Reset!DateCode
  <2>5. ServedAlone(t)'
    BY <1>0, <1>7, <1>a, <1>b, <2>1 DEF Reset!DateCode, ServedAlone
  <2>6. FilesFollow(t)'
    BY <1>0, <1>7, <1>a, <1>b, <2>1 DEF Reset!DateCode, ServedAlone, FilesFollow
  <2>7. ~Faults => Spent(t)'
    BY <1>0, <1>7, <1>a, <1>b, <2>1 DEF Reset!DateCode, Spent
  <2> QED
    BY <1>z, <2>3, <2>4, <2>5, <2>6, <2>7
<1>8. CASE Reset!StoreCooldown(t)
  <2>1. /\ task'[t] = [p EXCEPT !.pc = "pauseDate"]
        /\ file'["code"] = c
        /\ file'["cooldown"] = Reset!Written(0, FALSE)
    BY <1>0, <1>8, <1>a DEF Reset!StoreCooldown, Reset!Go, Reset!Store
  <2>2. /\ task'[t] \in Reset!Tasks /\ file'["code"] \in Reset!Files
        /\ file'["cooldown"] \in Reset!Files
    <3>1. task'[t] \in Reset!Tasks
      BY <1>0, <1>8, <1>a, <1>b, <1>c, <2>1 DEF Reset!StoreCooldown, Reset!Tasks
    <3>2. file'["code"] \in Reset!Files /\ file'["cooldown"] \in Reset!Files
      BY <1>a, <1>c, <1>d, <2>1
    <3> QED
      BY <3>1, <3>2
  <2>3. /\ task' \in [Task -> Reset!Tasks] /\ file' \in [Reset!Keys -> Reset!Files]
    BY <1>0, <1>8, <2>2 DEF Reset!StoreCooldown, Reset!Go, Reset!Store
  <2>4. /\ mails' \in Reset!Codes /\ mailAge' \in 0..Reset!Longest
        /\ settled' \in [code : Reset!Codes, age : 0..Reset!Longest]
        /\ resets' \in [Reset!Codes -> 0..2]
    BY <1>0, <1>8, <1>a, <1>b DEF Reset!StoreCooldown
  <2>5. ServedAlone(t)'
    BY <1>0, <1>8, <1>a, <1>b, <2>1 DEF Reset!StoreCooldown, ServedAlone, Reset!Written
  <2>6. FilesFollow(t)'
    BY <1>0, <1>8, <1>a, <1>b, <2>1 DEF Reset!StoreCooldown, FilesFollow
  <2>7. ~Faults => Spent(t)'
    BY <1>0, <1>8, <1>a, <1>b, <2>1 DEF Reset!StoreCooldown, Spent
  <2> QED
    BY <1>z, <2>3, <2>4, <2>5, <2>6, <2>7
<1>9. CASE Reset!DateCooldown(t)
  <2>1. /\ task'[t] = Reset!Idle
        /\ file'["code"] = c
        /\ file'["cooldown"] = [k EXCEPT !.left = IF k.there THEN Cooldown ELSE 0]
    BY <1>0, <1>9, <1>a DEF Reset!DateCooldown, Reset!End, Reset!Dated
  <2>2. /\ task'[t] \in Reset!Tasks /\ file'["code"] \in Reset!Files
        /\ file'["cooldown"] \in Reset!Files
    <3>1. task'[t] \in Reset!Tasks
      BY <1>0, <1>9, <1>a, <1>b, <1>c, <2>1 DEF Reset!DateCooldown
    <3>2. file'["code"] \in Reset!Files /\ file'["cooldown"] \in Reset!Files
      BY <1>a, <1>c, <1>d, <2>1
    <3> QED
      BY <3>1, <3>2
  <2>3. /\ task' \in [Task -> Reset!Tasks] /\ file' \in [Reset!Keys -> Reset!Files]
    BY <1>0, <1>9, <2>2 DEF Reset!DateCooldown, Reset!End, Reset!Dated
  <2>4. /\ mails' \in Reset!Codes /\ mailAge' \in 0..Reset!Longest
        /\ settled' \in [code : Reset!Codes, age : 0..Reset!Longest]
        /\ resets' \in [Reset!Codes -> 0..2]
    BY <1>0, <1>9, <1>a, <1>b DEF Reset!DateCooldown, Reset!Tasks
  <2>5. ServedAlone(t)'
    BY <1>0, <1>9, <1>a, <1>b, <2>1 DEF Reset!DateCooldown, ServedAlone, Reset!Idle
  <2>6. FilesFollow(t)'
    BY <1>0, <1>9, <1>a, <1>b, <2>1 DEF Reset!DateCooldown, ServedAlone, FilesFollow
  <2>7. ~Faults => Spent(t)'
    BY <1>0, <1>9, <1>a, <1>b, <2>1 DEF Reset!DateCooldown, Spent, Reset!Idle
  <2> QED
    BY <1>z, <2>3, <2>4, <2>5, <2>6, <2>7
<1>10. ASSUME NEW n \in Reset!Codes, Reset!AskReset(t, n) PROVE ResetInv'
  <2>1. /\ task'[t] = [p EXCEPT !.pc = "state", !.code = n]
        /\ file'["code"] = c
        /\ file'["cooldown"] = k
    BY <1>0, <1>10, <1>a DEF Reset!AskReset
  <2>2. /\ task'[t] \in Reset!Tasks /\ file'["code"] \in Reset!Files
        /\ file'["cooldown"] \in Reset!Files
    <3>1. task'[t] \in Reset!Tasks
      BY <1>0, <1>10, <1>a, <1>b, <1>c, <2>1 DEF Reset!AskReset, Reset!Tasks
    <3>2. file'["code"] \in Reset!Files /\ file'["cooldown"] \in Reset!Files
      BY <1>a, <1>c, <1>d, <2>1
    <3> QED
      BY <3>1, <3>2
  <2>3. /\ task' \in [Task -> Reset!Tasks] /\ file' \in [Reset!Keys -> Reset!Files]
    BY <1>0, <1>10, <2>2 DEF Reset!AskReset
  <2>4. /\ mails' \in Reset!Codes /\ mailAge' \in 0..Reset!Longest
        /\ settled' \in [code : Reset!Codes, age : 0..Reset!Longest]
        /\ resets' \in [Reset!Codes -> 0..2]
    BY <1>0, <1>10, <1>a, <1>b DEF Reset!AskReset
  <2>5. ServedAlone(t)'
    BY <1>0, <1>10, <1>a, <1>b, <2>1 DEF Reset!AskReset, ServedAlone, Reset!Tasks
  <2>6. FilesFollow(t)'
    BY <1>0, <1>10, <1>a, <1>b, <2>1 DEF Reset!AskReset, FilesFollow
  <2>7. ~Faults => Spent(t)'
    BY <1>0, <1>10, <1>a, <1>b, <2>1 DEF Reset!AskReset, Spent, Reset!Tasks
  <2> QED
    BY <1>z, <2>3, <2>4, <2>5, <2>6, <2>7
<1>11. CASE Reset!LookCode(t)
  <2>1. /\ task'[t] = [p EXCEPT !.pc = "read", !.expired = (c.left = 0)]
        /\ file'["code"] = c
        /\ file'["cooldown"] = k
    BY <1>0, <1>11, <1>a DEF Reset!LookCode, Reset!Look
  <2>2. /\ task'[t] \in Reset!Tasks /\ file'["code"] \in Reset!Files
        /\ file'["cooldown"] \in Reset!Files
    <3>1. task'[t] \in Reset!Tasks
      BY <1>0, <1>11, <1>a, <1>b, <1>c, <2>1 DEF Reset!LookCode, Reset!Tasks
    <3>2. file'["code"] \in Reset!Files /\ file'["cooldown"] \in Reset!Files
      BY <1>a, <1>c, <1>d, <2>1
    <3> QED
      BY <3>1, <3>2
  <2>3. /\ task' \in [Task -> Reset!Tasks] /\ file' \in [Reset!Keys -> Reset!Files]
    BY <1>0, <1>11, <2>2 DEF Reset!LookCode, Reset!Look
  <2>4. /\ mails' \in Reset!Codes /\ mailAge' \in 0..Reset!Longest
        /\ settled' \in [code : Reset!Codes, age : 0..Reset!Longest]
        /\ resets' \in [Reset!Codes -> 0..2]
    BY <1>0, <1>11, <1>a, <1>b DEF Reset!LookCode, Reset!Look
  <2>5. ServedAlone(t)'
    BY <1>0, <1>11, <1>a, <1>b, <2>1 DEF Reset!LookCode, Reset!Look, ServedAlone
  <2>6. FilesFollow(t)'
    BY <1>0, <1>11, <1>a, <1>b, <2>1 DEF Reset!LookCode, Reset!Look, FilesFollow
  <2>7. ~Faults => Spent(t)'
    BY <1>0, <1>11, <1>a, <1>b, <2>1 DEF Reset!LookCode, Reset!Look, Spent
  <2> QED
    BY <1>z, <2>3, <2>4, <2>5, <2>6, <2>7
<1>12. CASE Reset!ReadCode(t)
  <2>1. /\ task'[t] = IF ~p.expired /\ c.there /\ ~c.used /\ c.code = p.code
                     THEN [p EXCEPT !.pc = "change"] ELSE Reset!Idle
        /\ file'["code"] = IF p.expired THEN Reset!Absent ELSE c
        /\ file'["cooldown"] = k
    BY <1>0, <1>12, <1>a DEF Reset!ReadCode, Reset!Go, Reset!End
  <2>2. /\ task'[t] \in Reset!Tasks /\ file'["code"] \in Reset!Files
        /\ file'["cooldown"] \in Reset!Files
    <3>1. task'[t] \in Reset!Tasks
      <4>1. [p EXCEPT !.pc = "change"] \in Reset!Tasks
        BY DEF Reset!Tasks
      <4> QED
        BY <1>c, <2>1, <4>1
    <3>2. file'["code"] \in Reset!Files /\ file'["cooldown"] \in Reset!Files
      BY <1>a, <1>c, <1>d, <2>1
    <3> QED
      BY <3>1, <3>2
  <2>3. /\ task' \in [Task -> Reset!Tasks] /\ file' \in [Reset!Keys -> Reset!Files]
    BY <1>0, <1>12, <2>2 DEF Reset!ReadCode, Reset!Go, Reset!End
  <2>4. /\ mails' \in Reset!Codes /\ mailAge' \in 0..Reset!Longest
        /\ settled' \in [code : Reset!Codes, age : 0..Reset!Longest]
        /\ resets' \in [Reset!Codes -> 0..2]
    BY <1>0, <1>12, <1>a, <1>b DEF Reset!ReadCode
  <2>5. ServedAlone(t)'
    BY <1>0, <1>12, <1>a, <1>b, <2>1 DEF Reset!ReadCode, ServedAlone, Reset!Idle
  <2>6. FilesFollow(t)'
    BY <1>0, <1>12, <1>a, <1>b, <2>1
       DEF Reset!ReadCode, ServedAlone, FilesFollow, Reset!Files, Reset!Absent
  <2>7. ~Faults => Spent(t)'
    BY <1>0, <1>12, <1>a, <1>b, <2>1 DEF Reset!ReadCode, Spent, Reset!Idle, Reset!Absent
  <2> QED
    BY <1>z, <2>3, <2>4, <2>5, <2>6, <2>7
<1>13. CASE Reset!Change(t)
  <2>1. /\ task'[t] = [p EXCEPT !.pc = "mark"]
        /\ file'["code"] = c
        /\ file'["cooldown"] = k
    BY <1>0, <1>13, <1>a DEF Reset!Change, Reset!Go
  <2>2. /\ task'[t] \in Reset!Tasks /\ file'["code"] \in Reset!Files
        /\ file'["cooldown"] \in Reset!Files
    <3>1. task'[t] \in Reset!Tasks
      BY <1>0, <1>13, <1>a, <1>b, <1>c, <2>1 DEF Reset!Change, Reset!Tasks
    <3>2. file'["code"] \in Reset!Files /\ file'["cooldown"] \in Reset!Files
      BY <1>a, <1>c, <1>d, <2>1
    <3> QED
      BY <3>1, <3>2
  <2>3. /\ task' \in [Task -> Reset!Tasks] /\ file' \in [Reset!Keys -> Reset!Files]
    BY <1>0, <1>13, <2>2 DEF Reset!Change, Reset!Go
  <2>4. /\ mails' \in Reset!Codes /\ mailAge' \in 0..Reset!Longest
        /\ settled' \in [code : Reset!Codes, age : 0..Reset!Longest]
        /\ resets' \in [Reset!Codes -> 0..2]
    BY <1>0, <1>13, <1>a, <1>b DEF Reset!Change, Reset!Tasks
  <2>5. ServedAlone(t)'
    <3>1. p.pc = "change" /\ p.code \in Reset!Codes
      BY <1>13, <1>a DEF Reset!Change, Reset!Tasks
    <3>2. resets'[p.code] = IF resets[p.code] < 2 THEN resets[p.code] + 1 ELSE resets[p.code]
      BY <1>0, <1>13, <1>a, <3>1 DEF Reset!Change
    <3>3. resets'[p.code] > 0
      BY <1>0, <3>1, <3>2
    <3>4. p.code \in 1..mails /\ c.code = p.code /\ mails' = mails
      BY <1>13, <1>a, <1>b, <3>1 DEF Reset!Change, ServedAlone
    <3> QED
      BY <1>a, <2>1, <3>1, <3>3, <3>4 DEF ServedAlone
  <2>6. FilesFollow(t)'
    BY <1>0, <1>13, <1>a, <1>b, <2>1, SMTT(30)
       DEF Reset!Change, ServedAlone, FilesFollow, Reset!Files
  <2>7. ~Faults => Spent(t)'
    BY <1>0, <1>13, <1>a, <1>b, <2>1 DEF Reset!Change, ServedAlone, Spent
  <2> QED
    BY <1>z, <2>3, <2>4, <2>5, <2>6, <2>7
<1>14. CASE Reset!ChangeFails(t)
  <2>1. /\ task'[t] = Reset!Idle
        /\ file'["code"] = c
        /\ file'["cooldown"] = k
    BY <1>0, <1>14, <1>a DEF Reset!ChangeFails, Reset!End
  <2>2. /\ task'[t] \in Reset!Tasks /\ file'["code"] \in Reset!Files
        /\ file'["cooldown"] \in Reset!Files
    <3>1. task'[t] \in Reset!Tasks
      BY <1>0, <1>14, <1>a, <1>b, <1>c, <2>1 DEF Reset!ChangeFails
    <3>2. file'["code"] \in Reset!Files /\ file'["cooldown"] \in Reset!Files
      BY <1>a, <1>c, <1>d, <2>1
    <3> QED
      BY <3>1, <3>2
  <2>3. /\ task' \in [Task -> Reset!Tasks] /\ file' \in [Reset!Keys -> Reset!Files]
    BY <1>0, <1>14, <2>2 DEF Reset!ChangeFails, Reset!End
  <2>4. /\ mails' \in Reset!Codes /\ mailAge' \in 0..Reset!Longest
        /\ settled' \in [code : Reset!Codes, age : 0..Reset!Longest]
        /\ resets' \in [Reset!Codes -> 0..2]
    BY <1>0, <1>14, <1>a, <1>b DEF Reset!ChangeFails
  <2>5. ServedAlone(t)'
    BY <1>0, <1>14, <1>a, <1>b, <2>1 DEF Reset!ChangeFails, ServedAlone, Reset!Idle
  <2>6. FilesFollow(t)'
    BY <1>0, <1>14, <1>a, <1>b, <2>1 DEF Reset!ChangeFails, ServedAlone, FilesFollow
  <2>7. ~Faults => Spent(t)'
    BY <1>0, <1>14, <1>a, <1>b, <2>1 DEF Reset!ChangeFails, Spent
  <2> QED
    BY <1>z, <2>3, <2>4, <2>5, <2>6, <2>7
<1>15. CASE Reset!MarkUsed(t)
  <2>1. /\ task'[t] = [p EXCEPT !.pc = "markDate"]
        /\ file'["code"] = Reset!Written(p.code, TRUE)
        /\ file'["cooldown"] = k
    BY <1>0, <1>15, <1>a DEF Reset!MarkUsed, Reset!Go, Reset!Store
  <2>2. /\ task'[t] \in Reset!Tasks /\ file'["code"] \in Reset!Files
        /\ file'["cooldown"] \in Reset!Files
    <3>1. task'[t] \in Reset!Tasks
      BY <1>0, <1>15, <1>a, <1>b, <1>c, <2>1 DEF Reset!MarkUsed, Reset!Tasks
    <3>2. file'["code"] \in Reset!Files /\ file'["cooldown"] \in Reset!Files
      BY <1>a, <1>c, <1>d, <2>1
    <3> QED
      BY <3>1, <3>2
  <2>3. /\ task' \in [Task -> Reset!Tasks] /\ file' \in [Reset!Keys -> Reset!Files]
    BY <1>0, <1>15, <2>2 DEF Reset!MarkUsed, Reset!Go, Reset!Store
  <2>4. /\ mails' \in Reset!Codes /\ mailAge' \in 0..Reset!Longest
        /\ settled' \in [code : Reset!Codes, age : 0..Reset!Longest]
        /\ resets' \in [Reset!Codes -> 0..2]
    BY <1>0, <1>15, <1>a, <1>b DEF Reset!MarkUsed
  <2>5. ServedAlone(t)'
    BY <1>0, <1>15, <1>a, <1>b, <2>1 DEF Reset!MarkUsed, ServedAlone, Reset!Written
  <2>6. FilesFollow(t)'
    BY <1>0, <1>15, <1>a, <1>b, <2>1
       DEF Reset!MarkUsed, ServedAlone, FilesFollow, Reset!Written
  <2>7. ~Faults => Spent(t)'
    BY <1>0, <1>15, <1>a, <1>b, <2>1 DEF Reset!MarkUsed, Spent, Reset!Written
  <2> QED
    BY <1>z, <2>3, <2>4, <2>5, <2>6, <2>7
<1>16. CASE Reset!DateUsed(t)
  <2>1. /\ task'[t] = Reset!Idle
        /\ file'["code"] = [c EXCEPT !.left = IF c.there THEN UsedFor ELSE 0]
        /\ file'["cooldown"] = k
    BY <1>0, <1>16, <1>a DEF Reset!DateUsed, Reset!End, Reset!Dated
  <2>2. /\ task'[t] \in Reset!Tasks /\ file'["code"] \in Reset!Files
        /\ file'["cooldown"] \in Reset!Files
    <3>1. task'[t] \in Reset!Tasks
      BY <1>0, <1>16, <1>a, <1>b, <1>c, <2>1 DEF Reset!DateUsed
    <3>2. file'["code"] \in Reset!Files /\ file'["cooldown"] \in Reset!Files
      BY <1>a, <1>c, <1>d, <2>1
    <3> QED
      BY <3>1, <3>2
  <2>3. /\ task' \in [Task -> Reset!Tasks] /\ file' \in [Reset!Keys -> Reset!Files]
    BY <1>0, <1>16, <2>2 DEF Reset!DateUsed, Reset!End, Reset!Dated
  <2>4. /\ mails' \in Reset!Codes /\ mailAge' \in 0..Reset!Longest
        /\ settled' \in [code : Reset!Codes, age : 0..Reset!Longest]
        /\ resets' \in [Reset!Codes -> 0..2]
    BY <1>0, <1>16, <1>a, <1>b DEF Reset!DateUsed
  <2>5. ServedAlone(t)'
    BY <1>0, <1>16, <1>a, <1>b, <2>1 DEF Reset!DateUsed, ServedAlone, Reset!Idle
  <2>6. FilesFollow(t)'
    BY <1>0, <1>16, <1>a, <1>b, <2>1 DEF Reset!DateUsed, ServedAlone, FilesFollow
  <2>7. ~Faults => Spent(t)'
    BY <1>0, <1>16, <1>a, <1>b, <2>1 DEF Reset!DateUsed, Spent, Reset!Idle
  <2> QED
    BY <1>z, <2>3, <2>4, <2>5, <2>6, <2>7
<1> QED
  BY <1>1, <1>2, <1>3, <1>4, <1>5, <1>6, <1>7, <1>8, <1>9, <1>10, <1>11, <1>12, <1>13,
     <1>14, <1>15, <1>16

\* Time passes while nothing is in flight but a mail or a change of the database.
LEMMA ResetTick ==
  ASSUME Reset!TimesAssumption, ResetInv, Reset!Tick
  PROVE  ResetInv'
<1> USE DEF Reset!TimesAssumption, Reset!Longest, Reset!Codes, Reset!Keys, Mailing
<1>0. /\ file \in [Reset!Keys -> Reset!Files] /\ task \in [Task -> Reset!Tasks]
      /\ mails \in Reset!Codes /\ mailAge \in 0..Reset!Longest
      /\ settled \in [code : Reset!Codes, age : 0..Reset!Longest]
      /\ resets \in [Reset!Codes -> 0..2]
  BY DEF ResetInv, Reset!TypeOK
<1>1. PICK c \in Reset!Files, k \in Reset!Files : c = file["code"] /\ k = file["cooldown"]
  BY <1>0
<1>2. /\ file'["code"] = [c EXCEPT !.left = IF @ = 0 THEN 0 ELSE @ - 1]
      /\ file'["cooldown"] = [k EXCEPT !.left = IF @ = 0 THEN 0 ELSE @ - 1]
      /\ task' = task /\ mails' = mails /\ resets' = resets
      /\ settled' = [settled EXCEPT !.age = IF @ < Expire + 1 THEN @ + 1 ELSE @]
      /\ mailAge' = IF mailAge < Expire + 1 THEN mailAge + 1 ELSE mailAge
  BY <1>0, <1>1 DEF Reset!Tick, Reset!Older
<1>3. \A f \in Reset!Files : [f EXCEPT !.left = IF @ = 0 THEN 0 ELSE @ - 1] \in Reset!Files
  BY DEF Reset!Files
<1>4. file' \in [Reset!Keys -> Reset!Files]
  BY <1>0, <1>3 DEF Reset!Tick
<1>5. Reset!TypeOK'
  BY <1>0, <1>2, <1>4 DEF Reset!TypeOK
<1>7. /\ file'["code"].there = file["code"].there /\ file'["code"].code = file["code"].code
      /\ file'["code"].used = file["code"].used
      /\ file'["code"].left = IF file["code"].left = 0 THEN 0 ELSE file["code"].left - 1
      /\ file["code"].left \in Nat
      /\ file'["cooldown"].there = file["cooldown"].there
      /\ file'["cooldown"].left = IF file["cooldown"].left = 0 THEN 0 ELSE file["cooldown"].left - 1
      /\ file["cooldown"].left \in Nat
  BY <1>1, <1>2 DEF Reset!Files
<1>8. /\ settled'.code = settled.code /\ settled.age \in Nat /\ mailAge \in Nat
      /\ settled'.age = IF settled.age < Expire + 1 THEN settled.age + 1 ELSE settled.age
  BY <1>0, <1>2
<1>6. ASSUME NEW t \in Task
      PROVE  ServedAlone(t)' /\ FilesFollow(t)' /\ (~Faults => Spent(t)')
  <2>1. ServedAlone(t) /\ FilesFollow(t) /\ (~Faults => Spent(t))
    BY DEF ResetInv
  <2>2. task[t] \in Reset!Tasks /\ task[t].pc \in {"idle", "mail", "change"}
    BY <1>0 DEF Reset!Tick
  <2>3. ServedAlone(t)'
    BY <1>7, <1>8, <1>2, <2>1, <2>2 DEF ServedAlone
  <2>4. FilesFollow(t)'
    BY <1>7, <1>8, <1>2, <2>1, <2>2 DEF FilesFollow
  <2>5. ~Faults => Spent(t)'
    BY <1>0, <1>1, <1>2, <2>1, <2>2 DEF Spent
  <2> QED
    BY <2>3, <2>4, <2>5
<1> QED
  BY <1>5, <1>6 DEF ResetInv

LEMMA ResetKeeps ==
  ASSUME Reset!TimesAssumption, \A s, t \in Task : s = t
  PROVE  ResetInv /\ [Reset!Next]_Reset!vars => ResetInv'
<1> SUFFICES ASSUME ResetInv, [Reset!Next]_Reset!vars PROVE ResetInv'
  OBVIOUS
<1>1. CASE Reset!Tick
  BY <1>1, ResetTick
<1>2. CASE UNCHANGED Reset!vars
  BY <1>2 DEF Reset!vars, ResetInv, Reset!TypeOK, ServedAlone, FilesFollow, Spent
<1> QED
  BY <1>1, <1>2, ResetStep DEF Reset!Next

\* UsedOnce, one request at a time and where changing a password does not fail: a code sets
\* the password once, as the reset that took it stores that it is used.
THEOREM CodesServeOnce ==
  ASSUME Reset!TimesAssumption, \A s, t \in Task : s = t, Task # {}, ~Faults
  PROVE  Reset!Spec => []Reset!UsedOnce
<1>1. ResetInv => Reset!UsedOnce
  BY DEF ResetInv, Spent, Reset!UsedOnce
<1> QED
  BY <1>1, ResetInit, ResetKeeps, PTL DEF Reset!Spec

\* CodeServes, one request at a time: between requests, the code of the last one that
\* succeeded is in the file, unused and not expired, until a reset took it or its ten minutes
\* are over, whichever mails and changes fail.
THEOREM LastCodesServe ==
  ASSUME Reset!TimesAssumption, \A s, t \in Task : s = t, Task # {}
  PROVE  Reset!Spec => []Reset!CodeServes
<1>1. ResetInv => Reset!CodeServes
  <2> SUFFICES ASSUME ResetInv, NEW t \in Task, task[t].pc = "idle", settled.code # 0,
                      settled.age < Expire, resets[settled.code] = 0
               PROVE  /\ file["code"].code = settled.code /\ ~file["code"].used
                      /\ file["code"].left > 0
    BY DEF Reset!CodeServes, Reset!Quiet
  <2>1. FilesFollow(t)
    BY DEF ResetInv
  <2>2. file["code"].left \in Nat /\ settled.age \in Nat /\ Expire \in Nat
    BY DEF ResetInv, Reset!TypeOK, Reset!Files, Reset!Keys, Reset!Longest,
           Reset!TimesAssumption
  <2> QED
    BY <2>1, <2>2 DEF FilesFollow, Mailing
<1> QED
  BY <1>1, ResetInit, ResetKeeps, PTL DEF Reset!Spec

\* MailsArePaced, one request at a time: a code is mailed no sooner than the cool-down after
\* the mail before it, whichever mails and changes fail.
THEOREM MailsPaced ==
  ASSUME Reset!TimesAssumption, \A s, t \in Task : s = t
  PROVE  Reset!Spec => [][Reset!MailsArePaced]_Reset!vars
<1>1. ResetInv => Reset!MailsArePaced
  BY DEF ResetInv, ServedAlone, Reset!MailsArePaced, Reset!Mail
<1> QED
  BY <1>1, ResetInit, ResetKeeps, PTL DEF Reset!Spec

\* OnlyTheLastCode, one request at a time: a reset goes on to the password only with the code
\* of the last mail, and before that has expired.
THEOREM LastCodesOnly ==
  ASSUME Reset!TimesAssumption, \A s, t \in Task : s = t
  PROVE  Reset!Spec => [][Reset!OnlyTheLastCode]_Reset!vars
<1>1. ResetInv => Reset!OnlyTheLastCode
  <2> SUFFICES ASSUME ResetInv, NEW t \in Task, Reset!ReadCode(t), task'[t].pc = "change"
               PROVE  task[t].code = mails /\ mailAge < Expire
    BY DEF Reset!OnlyTheLastCode
  <2>1. ServedAlone(t) /\ FilesFollow(t)
    BY DEF ResetInv
  <2>2. /\ task \in [Task -> Reset!Tasks] /\ file["code"] \in Reset!Files
        /\ mailAge \in 0..Reset!Longest
    BY DEF ResetInv, Reset!TypeOK, Reset!Keys
  <2>3. /\ task[t].pc = "read" /\ ~task[t].expired /\ file["code"].there
        /\ ~file["code"].used /\ file["code"].code = task[t].code
    BY <2>2 DEF Reset!ReadCode, Reset!End, Reset!Idle
  <2>4. file["code"].left \in Nat /\ file["code"].left # 0 /\ Expire \in Nat /\ mailAge \in Nat
    BY <2>1, <2>2, <2>3
       DEF ServedAlone, Reset!Files, Reset!Tasks, Reset!TimesAssumption, Reset!Longest
  <2> QED
    BY <2>1, <2>3, <2>4 DEF FilesFollow
<1> QED
  BY <1>1, ResetInit, ResetKeeps, PTL DEF Reset!Spec

-----------------------------------------------------------------------------
(* Who may be punched through.                                             *)

LEMMA PunchSets ==
  /\ \A S : Punch!IsFiniteSet(S) <=> IsFiniteSet(S)
  /\ \A S : Punch!Cardinality(S) = Cardinality(S)
BY DEF Punch!IsFiniteSet, IsFiniteSet, Punch!Cardinality, Cardinality

\* A set of natural numbers has a least element.
LEMMA LeastNat ==
  ASSUME NEW S, S \subseteq Nat, S # {}
  PROVE  \E n \in S : \A m \in S : n <= m
<1>1. PICK n \in S : \A m \in S : <<m, n>> \notin OpToRel(<, Nat)
  BY NatLessThanWellFounded, WFMin
<1>2. \A m \in S : ~(m < n)
  BY <1>1 DEF OpToRel
<1> QED
  BY <1>2

LEMMA RefusingIs ==
  /\ Punch!Refusing \subseteq Punch!Checks
  /\ "status" \in Punch!Refusing <=> banned
  /\ "subscription" \in Punch!Refusing <=> subscription # "valid"
  /\ "permission" \in Punch!Refusing <=> ~permitted
BY DEF Punch!Refusing, Punch!Checks

\* What each request knows: the checks it has passed did not refuse it all along,
\* and those that would have still would.  Of what is stamped later than a request
\* that is not registered yet, it has been overtaken.
DoomedInv ==
  \A r \in Request :
    /\ req[r].doomed \subseteq Punch!Refusing
    /\ "status" \in req[r].doomed =>
         req[r].pc \notin {"subscription", "stamp", "register", "permission", "granted"}
    /\ "subscription" \in req[r].doomed =>
         req[r].pc \notin {"stamp", "register", "permission", "granted"}
    /\ "permission" \in req[r].doomed => req[r].pc # "granted"

ScoresInv ==
  /\ \A d \in Device : sessions[d] <= now
  /\ \A r \in Request : req[r].score <= now
  /\ \A r \in Request : req[r].pc = "register" /\ ~req[r].overtaken =>
       /\ \A d \in Device : d # req[r].device => sessions[d] <= req[r].score
       /\ \A q \in Request : req[q].pc = "register" /\ req[q].device # req[r].device =>
            req[q].score <= req[r].score

LEMMA PunchInit ==
  Punch!AuthorizationAssumption /\ Punch!Init => Punch!TypeOK /\ DoomedInv /\ ScoresInv
<1> SUFFICES ASSUME Punch!AuthorizationAssumption, Punch!Init
             PROVE  Punch!TypeOK /\ DoomedInv /\ ScoresInv
  OBVIOUS
<1>1. PICK d \in Device : req = [r \in Request |->
        [pc |-> "idle", device |-> d, limit |-> limit, score |-> 0,
         doomed |-> {}, overtaken |-> FALSE]]
  BY DEF Punch!Init
<1>2. [pc |-> "idle", device |-> d, limit |-> limit, score |-> 0,
       doomed |-> {}, overtaken |-> FALSE] \in Punch!Req
  BY DEF Punch!Init, Punch!Req, Punch!AuthorizationAssumption, Punch!Step
<1>3. req \in [Request -> Punch!Req]
  BY <1>1, <1>2
<1>4. sessions = [e \in Device |-> -1] /\ now = 0 /\ MaxTime \in Nat
  BY DEF Punch!Init, Punch!None, Punch!AuthorizationAssumption
<1>5. mustLogin \in BOOLEAN /\ secret \in BOOLEAN /\ banned \in BOOLEAN /\ permitted \in BOOLEAN
  BY Zenon DEF Punch!Init
<1>6. /\ subscription \in {"none", "expired", "valid"} /\ limit \in Limits
      /\ connected \subseteq Device
  BY DEF Punch!Init
<1>7. changes \in 0..MaxChange
  <2>1. changes = 0
    BY Zenon DEF Punch!Init
  <2> QED
    BY <2>1 DEF Punch!AuthorizationAssumption
<1>8. Punch!TypeOK
  BY <1>3, <1>4, <1>5, <1>6, <1>7 DEF Punch!TypeOK, Punch!None
<1>9. DoomedInv
  BY <1>1 DEF DoomedInv
<1>10. ScoresInv
  BY <1>1, <1>4 DEF ScoresInv
<1> QED
  BY <1>8, <1>9, <1>10

\* What changes no row, no score and no session, and takes one request from step to
\* step, as it may.
LEMMA RequestGoes ==
  ASSUME Punch!AuthorizationAssumption, Punch!TypeOK, DoomedInv, ScoresInv,
         NEW r \in Request, NEW x \in Punch!Step, NEW l \in Limits,
         UNCHANGED <<Punch!account, now, sessions>>,
         \/ req' = [req EXCEPT ![r].pc = x, ![r].limit = l]
         \/ req' = [req EXCEPT ![r].pc = x],
         x \notin {"status", "register"},
         "status" \in req[r].doomed => x = "refused",
         "subscription" \in req[r].doomed => x \in {"subscription", "refused"},
         "permission" \in req[r].doomed => x # "granted"
  PROVE  req' \in [Request -> Punch!Req] /\ DoomedInv' /\ ScoresInv'
<1>1. /\ req \in [Request -> Punch!Req]
      /\ \A q \in Request : req'[q] \in Punch!Req
      /\ req' \in [Request -> Punch!Req]
  BY DEF Punch!TypeOK, Punch!Req
<1>2. /\ req'[r].pc = x /\ req'[r].doomed = req[r].doomed /\ req'[r].score = req[r].score
      /\ req'[r].device = req[r].device /\ req'[r].overtaken = req[r].overtaken
      /\ \A q \in Request : q # r => req'[q] = req[q]
  BY <1>1 DEF Punch!Req
<1>3. Punch!Refusing' = Punch!Refusing
  BY DEF Punch!Refusing, Punch!account
<1>4. DoomedInv'
  BY <1>2, <1>3 DEF DoomedInv
<1>5. ScoresInv'
  BY <1>2 DEF ScoresInv
<1> QED
  BY <1>1, <1>4, <1>5

LEMMA ArriveKeeps ==
  ASSUME Punch!AuthorizationAssumption, Punch!TypeOK, DoomedInv, ScoresInv,
         NEW r \in Request, Punch!Arrive(r)
  PROVE  Punch!TypeOK' /\ DoomedInv' /\ ScoresInv'
<1>1. PICK d \in Device, x \in {"refused", "granted", "status"} :
        /\ req' = [req EXCEPT ![r] =
                    [@ EXCEPT !.pc = x, !.device = d, !.limit = limit, !.score = 0,
                       !.doomed = IF x = "status" THEN Punch!Refusing ELSE {},
                       !.overtaken = FALSE]]
        /\ connected' = IF x = "granted" THEN connected \cup {d} ELSE connected
  <2>1. PICK d \in Device, licensed \in BOOLEAN, token \in {"none", "bad", "good"} :
          LET answer == CASE ~licensed -> "refused"
                          [] ~mustLogin -> "granted"
                          [] token = "none" -> "refused"
                          [] ~secret -> "granted"
                          [] token = "bad" -> "refused"
                          [] OTHER -> "status"
          IN /\ req' = [req EXCEPT ![r] =
                         [@ EXCEPT !.pc = answer, !.device = d, !.limit = limit, !.score = 0,
                           !.doomed = IF answer = "status" THEN Punch!Refusing ELSE {},
                           !.overtaken = FALSE]]
             /\ connected' = IF answer = "granted" THEN connected \cup {d} ELSE connected
    BY Zenon DEF Punch!Arrive
  <2> DEFINE answer == CASE ~licensed -> "refused"
                         [] ~mustLogin -> "granted"
                         [] token = "none" -> "refused"
                         [] ~secret -> "granted"
                         [] token = "bad" -> "refused"
                         [] OTHER -> "status"
  <2>2. PICK x \in {"refused", "granted", "status"} : x = answer
    BY DEF Punch!TypeOK
  <2> QED
    BY <2>1, <2>2
<1>2. UNCHANGED <<mustLogin, secret, banned, subscription, limit, permitted, sessions, now,
                  changes>>
  BY DEF Punch!Arrive, Punch!switches, Punch!account
<1>3. PICK D \in SUBSET Punch!Checks :
        D = IF x = "status" THEN Punch!Refusing ELSE {}
  BY RefusingIs
<1>4. req' = [req EXCEPT ![r] = [@ EXCEPT !.pc = x, !.device = d, !.limit = limit, !.score = 0,
                                   !.doomed = D, !.overtaken = FALSE]]
  BY <1>1, <1>3
<1>5. /\ req \in [Request -> Punch!Req] /\ limit \in Limits /\ 0 \in 0..MaxTime
  BY DEF Punch!TypeOK, Punch!AuthorizationAssumption
<1>6. [req[r] EXCEPT !.pc = x, !.device = d, !.limit = limit, !.score = 0,
                     !.doomed = D, !.overtaken = FALSE] \in Punch!Req
  BY <1>5 DEF Punch!Req, Punch!Step
<1>7. req' \in [Request -> Punch!Req]
  BY <1>4, <1>5, <1>6
<1>8. /\ req'[r].pc = x /\ req'[r].score = 0 /\ req'[r].doomed = D
      /\ \A q \in Request : q # r => req'[q] = req[q]
  BY <1>4, <1>5, <1>6 DEF Punch!Req
<1>9. Punch!Refusing' = Punch!Refusing
  BY <1>2 DEF Punch!Refusing
<1>10. Punch!TypeOK'
  BY <1>1, <1>2, <1>7 DEF Punch!TypeOK
<1>11. DoomedInv'
  BY <1>3, <1>8, <1>9 DEF DoomedInv
<1>12. ScoresInv'
  BY <1>2, <1>8 DEF ScoresInv, Punch!TypeOK
<1> QED
  BY <1>10, <1>11, <1>12

LEMMA StampKeeps ==
  ASSUME Punch!AuthorizationAssumption, Punch!TypeOK, DoomedInv, ScoresInv,
         NEW r \in Request, Punch!Stamp(r)
  PROVE  Punch!TypeOK' /\ DoomedInv' /\ ScoresInv'
<1>1. /\ req[r].pc = "stamp" /\ req \in [Request -> Punch!Req]
      /\ now \in 0..MaxTime /\ MaxTime \in Nat
      /\ sessions \in [Device -> 0..MaxTime \cup {-1}]
  BY DEF Punch!Stamp, Punch!Reads, Punch!TypeOK, Punch!AuthorizationAssumption, Punch!None
<1>2. UNCHANGED <<mustLogin, secret, banned, subscription, limit, permitted, sessions, now,
                  changes, connected>>
  BY DEF Punch!Stamp, Punch!Reads, Punch!switches, Punch!account
<1>3. /\ req'[r] = [req[r] EXCEPT !.pc = "register", !.score = now]
      /\ req'[r] \in Punch!Req
  BY <1>1 DEF Punch!Stamp, Punch!Req, Punch!Step
<1>4. ASSUME NEW q \in Request, q # r
      PROVE  /\ req'[q] \in Punch!Req
             /\ req'[q].pc = req[q].pc /\ req'[q].doomed = req[q].doomed
             /\ req'[q].score = req[q].score /\ req'[q].device = req[q].device
             /\ ~req'[q].overtaken =>
                  ~req[q].overtaken /\ (req[q].pc = "register" => req[q].device = req[r].device)
  <2>1. PICK b \in BOOLEAN :
          b <=> req[q].overtaken \/ (req[q].pc = "register" /\ req[q].device # req[r].device)
    OBVIOUS
  <2>2. req'[q] = [req[q] EXCEPT !.overtaken =
                     @ \/ (req[q].pc = "register" /\ req[q].device # req[r].device)]
    BY <1>4, Zenon DEF Punch!Stamp
  <2>3. (req[q].overtaken \/ (req[q].pc = "register" /\ req[q].device # req[r].device)) = b
    BY <1>1, <2>1 DEF Punch!Req
  <2>4. req'[q] = [req[q] EXCEPT !.overtaken = b]
    BY <2>2, <2>3
  <2> QED
    BY <1>1, <2>1, <2>4 DEF Punch!Req
<1>5. req' \in [Request -> Punch!Req]
  <2>1. \A q \in Request : req'[q] \in Punch!Req
    BY <1>3, <1>4
  <2>2. req' = [q \in Request |-> req'[q]]
    BY Zenon DEF Punch!Stamp
  <2> QED
    BY <2>1, <2>2
<1>6. Punch!TypeOK'
  BY <1>2, <1>5 DEF Punch!TypeOK
<1>7. Punch!Refusing' = Punch!Refusing
  BY <1>2 DEF Punch!Refusing
<1>8. /\ req'[r].pc = "register" /\ req'[r].score = now /\ req'[r].doomed = req[r].doomed
      /\ req'[r].device = req[r].device
  BY <1>1, <1>3 DEF Punch!Req
<1>9. DoomedInv'
  BY <1>1, <1>4, <1>7, <1>8 DEF DoomedInv
<1>10. \A q \in Request : req[q].score \in Nat /\ now \in Nat /\ req[q].score <= now
  BY <1>1 DEF Punch!Req, ScoresInv
<1>11. ScoresInv'
  <2>1. /\ \A d \in Device : sessions'[d] <= now'
        /\ \A q \in Request : req'[q].score <= now'
    BY <1>2, <1>4, <1>8, <1>10 DEF ScoresInv
  <2>2. ASSUME NEW q \in Request, req'[q].pc = "register", ~req'[q].overtaken
        PROVE  /\ \A d \in Device : d # req'[q].device => sessions'[d] <= req'[q].score
               /\ \A p \in Request : req'[p].pc = "register" /\ req'[p].device # req'[q].device =>
                    req'[p].score <= req'[q].score
    <3>1. CASE q = r
      BY <1>2, <1>8, <2>1, <3>1
    <3>2. CASE q # r
      BY <1>2, <1>4, <1>8, <2>2, <3>2 DEF ScoresInv
    <3> QED
      BY <3>1, <3>2
  <2> QED
    BY <2>1, <2>2 DEF ScoresInv
<1> QED
  BY <1>6, <1>9, <1>11

\* What is left of the sessions is what there was, with the device added.
LEMMA RegisterGoes ==
  ASSUME Punch!AuthorizationAssumption, Punch!TypeOK, NEW r \in Request, Punch!Register(r)
  PROVE  /\ req[r].pc = "register"
         /\ \E x \in {"limited", "permission"} : req' = [req EXCEPT ![r].pc = x]
         /\ \A d \in Device :
              sessions'[d] \in {sessions[d], -1, IF d = req[r].device THEN req[r].score ELSE -1}
         /\ sessions' \in [Device -> 0..MaxTime \cup {-1}]
<1> DEFINE d == req[r].device
           added == [sessions EXCEPT ![d] = req[r].score]
           popped == Punch!Popped(added, req[r].limit)
           after == [e \in Device |-> IF e \in popped THEN -1 ELSE added[e]]
<1>1. /\ req[r].pc = "register"
      /\ \/ sessions' = after /\ Punch!Goto(r, IF d \in popped THEN "limited" ELSE "permission")
         \/ sessions' \in {sessions, after} /\ Punch!Goto(r, "permission")
  BY Zenon DEF Punch!Register, Punch!Reads, Punch!None
<1>2. \E x \in {"limited", "permission"} : req' = [req EXCEPT ![r].pc = x]
  BY <1>1 DEF Punch!Goto
<1>3. /\ sessions \in [Device -> 0..MaxTime \cup {-1}]
      /\ req[r].device \in Device /\ req[r].score \in 0..MaxTime
  BY DEF Punch!TypeOK, Punch!Req, Punch!None
<1>4. added \in [Device -> 0..MaxTime \cup {-1}]
      /\ \A e \in Device : added[e] = IF e = d THEN req[r].score ELSE sessions[e]
  BY <1>3
<1> HIDE DEF popped, added
<1>5. \A e \in Device : after[e] \in {-1, added[e]}
  OBVIOUS
<1>6. after \in [Device -> 0..MaxTime \cup {-1}]
  BY <1>4
<1>7. sessions' \in {sessions, after}
  BY <1>1
<1> QED
  BY <1>1, <1>2, <1>3, <1>4, <1>5, <1>6, <1>7

LEMMA RegisterRest ==
  ASSUME NEW r \in Request, NEW q \in Request, q # r, Punch!Register(r),
         req \in [Request -> Punch!Req]
  PROVE  req'[q] = req[q]
<1>1. \E x : Punch!Goto(r, x)
  BY Zenon DEF Punch!Register
<1> QED
  BY <1>1 DEF Punch!Goto

LEMMA RegisterKeeps ==
  ASSUME Punch!AuthorizationAssumption, Punch!TypeOK, DoomedInv, ScoresInv,
         NEW r \in Request, Punch!Register(r)
  PROVE  Punch!TypeOK' /\ DoomedInv' /\ ScoresInv'
<1>1. UNCHANGED <<mustLogin, secret, banned, subscription, limit, permitted, now,
                  changes, connected>>
  BY DEF Punch!Register, Punch!Reads, Punch!switches, Punch!account
<1>2. PICK x \in {"limited", "permission"} :
        req[r].pc = "register" /\ req' = [req EXCEPT ![r].pc = x]
  BY RegisterGoes
<1>3. /\ req \in [Request -> Punch!Req] /\ req' \in [Request -> Punch!Req]
      /\ \A q \in Request : q # r => req'[q] = req[q]
      /\ req'[r].pc = x /\ req'[r].doomed = req[r].doomed /\ req'[r].score = req[r].score
  BY <1>2 DEF Punch!TypeOK, Punch!Req, Punch!Step
<1>4. Punch!TypeOK'
  BY <1>1, <1>3, RegisterGoes DEF Punch!TypeOK, Punch!None
<1>5. Punch!Refusing' = Punch!Refusing
  BY <1>1 DEF Punch!Refusing
<1>6. DoomedInv'
  BY <1>2, <1>3, <1>5 DEF DoomedInv
<1>7. /\ now \in Nat /\ sessions \in [Device -> 0..MaxTime \cup {-1}] /\ MaxTime \in Nat
      /\ \A q \in Request : req[q].score \in Nat
  BY DEF Punch!TypeOK, Punch!None, Punch!AuthorizationAssumption, Punch!Req
<1>8. \A d \in Device :
        sessions'[d] \in {sessions[d], -1, IF d = req[r].device THEN req[r].score ELSE -1}
  BY RegisterGoes
<1>9. \A d \in Device : \/ sessions'[d] = sessions[d]
                        \/ sessions'[d] = -1
                        \/ d = req[r].device /\ sessions'[d] = req[r].score
  BY <1>8
<1>10. ScoresInv'
  <2>1. \A d \in Device : sessions'[d] <= now
    BY <1>7, <1>9 DEF ScoresInv
  <2>2. \A q \in Request : req'[q].score <= now
    BY <1>3 DEF ScoresInv
  <2>3. ASSUME NEW q \in Request, req'[q].pc = "register", ~req'[q].overtaken
        PROVE  /\ \A d \in Device : d # req'[q].device => sessions'[d] <= req'[q].score
               /\ \A p \in Request : req'[p].pc = "register" /\ req'[p].device # req'[q].device =>
                    req'[p].score <= req'[q].score
    <3>1. q # r /\ req'[q] = req[q]
      BY <1>3, <2>3
    <3>2. /\ \A d \in Device : d # req[q].device => sessions[d] <= req[q].score
          /\ \A p \in Request : req[p].pc = "register" /\ req[p].device # req[q].device =>
               req[p].score <= req[q].score
      BY <2>3, <3>1 DEF ScoresInv
    <3>3. ASSUME NEW d \in Device, d # req[q].device PROVE sessions'[d] <= req[q].score
      BY <1>2, <1>7, <1>9, <3>2, <3>3
    <3>4. ASSUME NEW p \in Request, req'[p].pc = "register", req'[p].device # req[q].device
          PROVE  req'[p].score <= req[q].score
      BY <1>3, <3>2, <3>4
    <3> QED
      BY <3>1, <3>3, <3>4
  <2> QED
    BY <1>1, <2>1, <2>2, <2>3 DEF ScoresInv
<1> QED
  BY <1>4, <1>6, <1>10

LEMMA ChangeKeeps ==
  ASSUME Punch!AuthorizationAssumption, Punch!TypeOK, DoomedInv, ScoresInv, Punch!ChangeAccount
  PROVE  Punch!TypeOK' /\ DoomedInv' /\ ScoresInv'
<1>1. UNCHANGED <<mustLogin, secret, sessions, now, connected>>
  BY DEF Punch!ChangeAccount, Punch!switches
<1>2. ASSUME NEW r \in Request
      PROVE  /\ req'[r] \in Punch!Req
             /\ req'[r].doomed = req[r].doomed \cap Punch!Refusing'
             /\ req'[r].pc = req[r].pc /\ req'[r].score = req[r].score
             /\ req'[r].device = req[r].device /\ req'[r].overtaken = req[r].overtaken
  <2>1. req'[r] = [req[r] EXCEPT !.doomed = @ \cap Punch!Refusing']
    BY Zenon DEF Punch!ChangeAccount
  <2>2. req[r] \in Punch!Req /\ req[r].doomed \cap Punch!Refusing' \in SUBSET Punch!Checks
    BY DEF Punch!TypeOK, Punch!Req
  <2> QED
    BY <2>1, <2>2 DEF Punch!Req
<1>3. req' \in [Request -> Punch!Req]
  <2>1. req' = [r \in Request |-> req'[r]]
    BY Zenon DEF Punch!ChangeAccount
  <2> QED
    BY <1>2, <2>1
<1>4. /\ banned' \in BOOLEAN /\ permitted' \in BOOLEAN
      /\ subscription' \in {"none", "expired", "valid"} /\ limit' \in Limits
      /\ changes' \in 0..MaxChange
  <2>1. /\ banned \in BOOLEAN /\ permitted \in BOOLEAN
        /\ subscription \in {"none", "expired", "valid"} /\ limit \in Limits
        /\ changes \in 0..MaxChange /\ MaxChange \in Nat
    BY DEF Punch!TypeOK, Punch!AuthorizationAssumption
  <2>2. /\ banned' \in {banned, ~banned} /\ permitted' \in {permitted, ~permitted}
        /\ subscription' \in {"none", "expired", "valid"} \cup {subscription}
        /\ limit' \in Limits \cup {limit}
    BY Zenon DEF Punch!ChangeAccount
  <2>3. banned' \in BOOLEAN /\ permitted' \in BOOLEAN
    BY <2>1, <2>2, Zenon
  <2>4. changes' \in 0..MaxChange
    BY <2>1 DEF Punch!ChangeAccount
  <2> QED
    BY <2>1, <2>2, <2>3, <2>4
<1>5. Punch!TypeOK'
  BY <1>1, <1>3, <1>4 DEF Punch!TypeOK
<1>6. DoomedInv'
  BY <1>2 DEF DoomedInv
<1>7. ScoresInv'
  BY <1>1, <1>2 DEF ScoresInv
<1> QED
  BY <1>5, <1>6, <1>7

LEMMA PunchKeeps ==
  ASSUME Punch!AuthorizationAssumption, Punch!TypeOK, DoomedInv, ScoresInv,
         [Punch!Next]_Punch!vars
  PROVE  Punch!TypeOK' /\ DoomedInv' /\ ScoresInv'
<1> USE DEF Punch!switches, Punch!account
<1>0. req \in [Request -> Punch!Req] /\ \A r \in Request : req[r].limit \in Limits
  BY DEF Punch!TypeOK, Punch!Req
<1>1. ASSUME NEW r \in Request, Punch!CheckStatus(r)
      PROVE  Punch!TypeOK' /\ DoomedInv' /\ ScoresInv'
  <2>1. /\ req[r].pc = "status"
        /\ UNCHANGED <<mustLogin, secret, banned, subscription, limit, permitted, sessions, now,
                       changes, connected>>
    BY <1>1 DEF Punch!CheckStatus, Punch!Reads
  <2>2. PICK x \in {"refused", "subscription"} :
          req' = [req EXCEPT ![r].pc = x] /\ (x = "subscription" => ~banned)
    BY <1>1 DEF Punch!CheckStatus, Punch!DbError, Punch!Goto
  <2>3. "status" \in req[r].doomed => x = "refused"
    BY <2>2, RefusingIs DEF DoomedInv
  <2>4. req' \in [Request -> Punch!Req] /\ DoomedInv' /\ ScoresInv'
    BY <1>0, <2>1, <2>2, <2>3, RequestGoes DEF Punch!Step
  <2> QED
    BY <2>1, <2>4 DEF Punch!TypeOK
<1>2. ASSUME NEW r \in Request, Punch!CheckSubscription(r)
      PROVE  Punch!TypeOK' /\ DoomedInv' /\ ScoresInv'
  <2>1. /\ req[r].pc = "subscription" /\ limit \in Limits
        /\ UNCHANGED <<mustLogin, secret, banned, subscription, limit, permitted, sessions, now,
                       changes, connected>>
    BY <1>2 DEF Punch!CheckSubscription, Punch!Reads, Punch!TypeOK
  <2>2. PICK x \in {"refused", "stamp"} :
          /\ \/ req' = [req EXCEPT ![r].pc = x, ![r].limit = limit]
             \/ req' = [req EXCEPT ![r].pc = x]
          /\ x = "stamp" => subscription = "valid"
    BY <1>2 DEF Punch!CheckSubscription, Punch!DbError, Punch!Goto
  <2>3. /\ "status" \notin req[r].doomed
        /\ "subscription" \in req[r].doomed => x = "refused"
    BY <2>1, <2>2, RefusingIs DEF DoomedInv
  <2>4. req' \in [Request -> Punch!Req] /\ DoomedInv' /\ ScoresInv'
    BY <2>1, <2>2, <2>3, RequestGoes DEF Punch!Step
  <2> QED
    BY <2>1, <2>4 DEF Punch!TypeOK
<1>3. ASSUME NEW r \in Request, Punch!CheckPermission(r)
      PROVE  Punch!TypeOK' /\ DoomedInv' /\ ScoresInv'
  <2>1. /\ req[r].pc = "permission"
        /\ UNCHANGED <<mustLogin, secret, banned, subscription, limit, permitted, sessions, now,
                       changes>>
    BY <1>3 DEF Punch!CheckPermission
  <2>2. PICK x \in {"refused", "granted"} :
          req' = [req EXCEPT ![r].pc = x] /\ (x = "granted" => permitted)
    BY <1>3 DEF Punch!CheckPermission, Punch!DbError, Punch!Goto
  <2>3. /\ "status" \notin req[r].doomed /\ "subscription" \notin req[r].doomed
        /\ "permission" \in req[r].doomed => x = "refused"
    BY <2>1, <2>2, RefusingIs DEF DoomedInv
  <2>4. req' \in [Request -> Punch!Req] /\ DoomedInv' /\ ScoresInv'
    BY <1>0, <2>1, <2>2, <2>3, RequestGoes DEF Punch!Step
  <2>5. connected' \subseteq Device
    BY <1>0, <1>3 DEF Punch!CheckPermission, Punch!TypeOK, Punch!Req
  <2> QED
    BY <2>1, <2>4, <2>5 DEF Punch!TypeOK
<1>4. CASE Punch!MustLogin
  <2>1. UNCHANGED <<secret, banned, subscription, limit, permitted, sessions, now, req, connected>>
    BY <1>4 DEF Punch!MustLogin
  <2>2. mustLogin' \in BOOLEAN /\ changes' \in 0..MaxChange
    BY <1>4 DEF Punch!MustLogin, Punch!TypeOK, Punch!AuthorizationAssumption
  <2>3. Punch!Refusing' = Punch!Refusing
    BY <2>1 DEF Punch!Refusing
  <2> QED
    BY <2>1, <2>2, <2>3 DEF Punch!TypeOK, DoomedInv, ScoresInv
<1>5. CASE Punch!Tick
  <2>1. UNCHANGED <<mustLogin, secret, banned, subscription, limit, permitted, sessions, req,
                    changes, connected>>
    BY <1>5 DEF Punch!Tick
  <2>2. now' = now + 1 /\ now' \in 0..MaxTime /\ now \in Nat
    BY <1>5 DEF Punch!Tick, Punch!TypeOK, Punch!AuthorizationAssumption
  <2>3. Punch!Refusing' = Punch!Refusing
    BY <2>1 DEF Punch!Refusing
  <2>4. /\ \A d \in Device : sessions[d] \in Int
        /\ \A r \in Request : req[r].score \in Int
    BY DEF Punch!TypeOK, Punch!None, Punch!Req, Punch!AuthorizationAssumption
  <2> QED
    BY <2>1, <2>2, <2>3, <2>4 DEF Punch!TypeOK, DoomedInv, ScoresInv
<1>6. ASSUME NEW d \in Device, Punch!End(d) PROVE Punch!TypeOK' /\ DoomedInv' /\ ScoresInv'
  <2>1. UNCHANGED <<mustLogin, secret, banned, subscription, limit, permitted, sessions, req, now,
                    changes>> /\ connected' = connected \ {d}
    BY <1>6 DEF Punch!End
  <2>3. Punch!Refusing' = Punch!Refusing
    BY <2>1 DEF Punch!Refusing
  <2> QED
    BY <2>1, <2>3 DEF Punch!TypeOK, DoomedInv, ScoresInv
<1>7. CASE UNCHANGED Punch!vars
  <2>1. UNCHANGED <<mustLogin, secret, banned, subscription, limit, permitted, sessions, req, now,
                    changes, connected>>
    BY <1>7 DEF Punch!vars
  <2>3. Punch!Refusing' = Punch!Refusing
    BY <2>1 DEF Punch!Refusing
  <2> QED
    BY <2>1, <2>3 DEF Punch!TypeOK, DoomedInv, ScoresInv
<1> QED
  BY <1>1, <1>2, <1>3, <1>4, <1>5, <1>6, <1>7, ArriveKeeps, StampKeeps, RegisterKeeps,
     ChangeKeeps DEF Punch!Next, Punch!Serve

\* DoomedIsRefused: a punch request that one and the same check would have refused all the
\* while it was served is not granted, however many requests and changes there are.
THEOREM DoomedRefused ==
  Punch!AuthorizationAssumption /\ Punch!Spec => []Punch!DoomedIsRefused
<1> SUFFICES ASSUME Punch!AuthorizationAssumption
             PROVE  Punch!Spec => []Punch!DoomedIsRefused
  OBVIOUS
<1>1. DoomedInv /\ Punch!TypeOK => Punch!DoomedIsRefused
  BY DEF DoomedInv, Punch!DoomedIsRefused, Punch!TypeOK, Punch!Req, Punch!Checks
<1> QED
  BY <1>1, PunchInit, PunchKeeps, PTL DEF Punch!Spec

\* Only its registration takes a request that is stamped further.
LEMMA OnlyRegister ==
  ASSUME Punch!TypeOK, [Punch!Next]_Punch!vars, NEW r \in Request,
         req[r].pc = "register", req'[r].pc # "register"
  PROVE  Punch!Register(r)
<1>0. req \in [Request -> Punch!Req]
  BY DEF Punch!TypeOK
<1>1. ASSUME NEW q \in Request, Punch!Arrive(q) PROVE FALSE
  <2>1. q # r
    BY <1>1 DEF Punch!Arrive
  <2>2. req'[r] = req[r]
    BY <1>0, <1>1, <2>1 DEF Punch!Arrive
  <2> QED
    BY <2>2
<1>2. ASSUME NEW q \in Request,
             Punch!CheckStatus(q) \/ Punch!CheckSubscription(q) \/ Punch!CheckPermission(q)
      PROVE  FALSE
  <2>1. q # r
    BY <1>2
       DEF Punch!CheckStatus, Punch!CheckSubscription, Punch!CheckPermission, Punch!Reads
  <2>2. req'[r] = req[r]
    BY <1>0, <1>2, <2>1
       DEF Punch!CheckStatus, Punch!CheckSubscription, Punch!CheckPermission, Punch!DbError,
           Punch!Goto
  <2> QED
    BY <2>2
<1>3. ASSUME NEW q \in Request, Punch!Stamp(q) PROVE FALSE
  <2>1. q # r
    BY <1>3 DEF Punch!Stamp, Punch!Reads
  <2>2. req'[r] = [req[r] EXCEPT !.overtaken =
                     @ \/ (req[r].pc = "register" /\ req[r].device # req[q].device)]
    BY <1>3, <2>1, Zenon DEF Punch!Stamp
  <2>3. req'[r].pc = req[r].pc
    BY <1>0, <2>2 DEF Punch!Req
  <2> QED
    BY <2>3
<1>4. ASSUME NEW q \in Request, Punch!Register(q) PROVE q = r
  <2>1. CASE q # r
    <3>1. req'[r] = req[r]
      BY <1>0, <1>4, <2>1, RegisterRest
    <3> QED
      BY <3>1
  <2> QED
    BY <2>1
<1>5. CASE Punch!ChangeAccount
  <2>1. req'[r] = [req[r] EXCEPT !.doomed = @ \cap Punch!Refusing']
    BY <1>5, Zenon DEF Punch!ChangeAccount
  <2>2. req'[r].pc = req[r].pc
    BY <1>0, <2>1 DEF Punch!Req
  <2> QED
    BY <2>2
<1>6. CASE req' = req
  BY <1>6
<1> QED
  BY <1>1, <1>2, <1>3, <1>4, <1>5, <1>6
     DEF Punch!Next, Punch!Serve, Punch!MustLogin, Punch!Tick, Punch!End, Punch!vars

Sessions == [Device -> 0..MaxTime \cup {-1}]

LEMMA MembersAre ==
  ASSUME Punch!AuthorizationAssumption, NEW s \in Sessions
  PROVE  /\ \A e : e \in Punch!Members(s) <=> e \in Device /\ s[e] # -1
         /\ \A e \in Punch!Members(s) : e \in Nat /\ s[e] \in Nat
         /\ IsFiniteSet(Punch!Members(s)) /\ Cardinality(Punch!Members(s)) \in Nat
<1>1. Punch!Members(s) \subseteq Device /\ IsFiniteSet(Device) /\ Device \subseteq Nat
  BY PunchSets DEF Punch!Members, Punch!AuthorizationAssumption
<1>2. IsFiniteSet(Punch!Members(s)) /\ Cardinality(Punch!Members(s)) \in Nat
  BY <1>1, FS_Subset, FS_CardinalityType
<1> QED
  BY <1>1, <1>2 DEF Punch!Members, Punch!None, Sessions, Punch!AuthorizationAssumption

\* The members that come before one, in the order of their scores and names.
Before(s, d) ==
  {e \in Punch!Members(s) : s[e] < s[d] \/ (s[e] = s[d] /\ e < d)}

LEMMA BeforeIs ==
  ASSUME Punch!AuthorizationAssumption, NEW s \in Sessions, NEW d
  PROVE  IsFiniteSet(Before(s, d)) /\ Cardinality(Before(s, d)) \in Nat
<1>1. Before(s, d) \subseteq Punch!Members(s)
  BY DEF Before
<1> QED
  BY <1>1, MembersAre, FS_Subset, FS_CardinalityType

LEMMA LowestIs ==
  ASSUME NEW s, NEW n, NEW d
  PROVE  d \in Punch!Lowest(s, n) <=>
           d \in Punch!Members(s) /\ Cardinality(Before(s, d)) < n
BY PunchSets DEF Punch!Lowest, Before

LEMMA PoppedIs ==
  ASSUME NEW s, NEW max
  PROVE  LET count == Cardinality(Punch!Members(s))
         IN Punch!Popped(s, max) = IF count <= max THEN {} ELSE Punch!Lowest(s, count - max)
BY PunchSets DEF Punch!Popped

\* Whoever is popped though nobody has its score or a higher one is popped because
\* nobody may stay.
LEMMA HighestIsKept ==
  ASSUME Punch!AuthorizationAssumption, NEW s \in Sessions, NEW max \in Int,
         NEW d \in Punch!Popped(s, max),
         \A e \in Punch!Members(s) : e # d => s[e] < s[d]
  PROVE  max <= 0
<1>1. PICK m \in Nat : m = Cardinality(Punch!Members(s))
  BY MembersAre
<1>2. d \in Punch!Lowest(s, m - max)
  BY <1>1, PoppedIs
<1>3. d \in Punch!Members(s) /\ Cardinality(Before(s, d)) < m - max
  BY <1>2, LowestIs
<1>4. Before(s, d) = Punch!Members(s) \ {d}
  BY <1>3, MembersAre DEF Before
<1>5. Cardinality(Punch!Members(s) \ {d}) = m - 1
  BY <1>1, <1>3, MembersAre, FS_RemoveElement
<1> QED
  BY <1>1, <1>3, <1>4, <1>5

\* Those who come before one come before everybody who comes after it.
LEMMA BeforeGrows ==
  ASSUME Punch!AuthorizationAssumption, NEW s \in Sessions,
         NEW d \in Punch!Members(s), NEW e \in Punch!Members(s), s[d] < s[e]
  PROVE  Cardinality(Before(s, d)) <= Cardinality(Before(s, e))
<1>1. Before(s, d) \subseteq Before(s, e)
  BY MembersAre DEF Before
<1> QED
  BY <1>1, BeforeIs, FS_Subset

\* Of those who are not popped, one comes first: everybody before it is popped, and
\* so they are not too many.
LEMMA FewStay ==
  ASSUME Punch!AuthorizationAssumption, NEW s \in Sessions, NEW max \in Int,
         NEW stay, stay = Punch!Members(s) \ Punch!Popped(s, max), stay # {}
  PROVE  Cardinality(stay) <= max
<1>1. PICK m \in Nat : m = Cardinality(Punch!Members(s))
  BY MembersAre
<1>2. CASE m <= max
  <2>1. stay \subseteq Punch!Members(s)
    OBVIOUS
  <2> QED
    BY <1>1, <1>2, <2>1, MembersAre, FS_Subset, FS_CardinalityType
<1>3. CASE ~(m <= max)
  <2>1. Punch!Popped(s, max) = Punch!Lowest(s, m - max)
    BY <1>1, <1>3, PoppedIs
  <2>2. \A d \in stay : d \in Punch!Members(s) /\ ~(Cardinality(Before(s, d)) < m - max)
    BY <2>1, LowestIs
  <2>3. PICK d \in stay : \A e \in stay : s[d] < s[e] \/ (s[d] = s[e] /\ d <= e)
    <3>1. \A d \in stay : d \in Nat /\ s[d] \in Nat
      BY <2>2, MembersAre
    <3> DEFINE Scores == {s[d] : d \in stay}
    <3>2. PICK low \in Scores : \A x \in Scores : low <= x
      <4>1. Scores \subseteq Nat /\ Scores # {}
        BY <3>1
      <4> HIDE DEF Scores
      <4> QED
        BY <4>1, LeastNat
    <3> DEFINE lowest == {d \in stay : s[d] = low}
    <3>3. lowest \subseteq Nat /\ lowest # {}
      BY <3>1, <3>2
    <3>4. PICK d \in lowest : \A e \in lowest : d <= e
      BY <3>3, LeastNat
    <3>5. d \in stay /\ s[d] = low /\ low \in Nat
      BY <3>1, <3>4
    <3>6. ASSUME NEW e \in stay PROVE s[d] < s[e] \/ (s[d] = s[e] /\ d <= e)
      <4>1. low <= s[e] /\ s[e] \in Nat
        BY <3>1, <3>2
      <4>2. CASE s[e] = low
        BY <3>4, <3>5, <4>2
      <4>3. CASE s[e] # low
        BY <3>5, <4>1, <4>3
      <4> QED
        BY <4>2, <4>3
    <3> QED
      BY <3>5, <3>6
  <2>4. Before(s, d) \cap stay = {}
    BY <2>2, <2>3, MembersAre DEF Before
  <2>5. Before(s, d) \subseteq Punch!Members(s) \ stay
    BY <2>4 DEF Before
  <2>6. /\ IsFiniteSet(stay) /\ Cardinality(stay) \in Nat
        /\ Cardinality(Punch!Members(s) \ stay) = m - Cardinality(stay)
        /\ IsFiniteSet(Punch!Members(s) \ stay)
    <3>1. stay \subseteq Punch!Members(s) /\ Punch!Members(s) \ stay \subseteq Punch!Members(s)
          /\ stay = Punch!Members(s) \cap stay
      OBVIOUS
    <3>2. IsFiniteSet(stay) /\ IsFiniteSet(Punch!Members(s) \ stay) /\ Cardinality(stay) \in Nat
      BY <3>1, MembersAre, FS_Subset, FS_CardinalityType
    <3>3. Cardinality(Punch!Members(s) \ stay)
            = Cardinality(Punch!Members(s)) - Cardinality(Punch!Members(s) \cap stay)
      BY MembersAre, FS_Difference
    <3> QED
      BY <1>1, <3>1, <3>2, <3>3
  <2>7. Cardinality(Before(s, d)) <= m - Cardinality(stay)
    BY <2>5, <2>6, FS_Subset
  <2>8. Cardinality(Before(s, d)) \in Nat /\ ~(Cardinality(Before(s, d)) < m - max)
    BY <2>2, <2>3, BeforeIs
  <2> QED
    BY <1>1, <2>6, <2>7, <2>8
<1> QED
  BY <1>2, <1>3

\* LimitedIsOvertaken: the limit of sessions refuses a request only if another device's was
\* stamped in between or in the same millisecond, or if no session is allowed.
THEOREM LimitedOvertaken ==
  Punch!AuthorizationAssumption /\ Punch!Spec => [][Punch!LimitedIsOvertaken]_Punch!vars
<1> SUFFICES ASSUME Punch!AuthorizationAssumption
             PROVE  Punch!Spec => [][Punch!LimitedIsOvertaken]_Punch!vars
  OBVIOUS
<1>1. Punch!TypeOK /\ ScoresInv /\ [Punch!Next]_Punch!vars => Punch!LimitedIsOvertaken
  <2> SUFFICES ASSUME Punch!TypeOK, ScoresInv, [Punch!Next]_Punch!vars, NEW r \in Request,
                      req[r].pc = "register", req'[r].pc = "limited",
                      ~req[r].overtaken, ~(req[r].limit <= 0)
               PROVE  \E d \in Device \ {req[r].device} : sessions[d] = req[r].score
    BY DEF Punch!LimitedIsOvertaken
  <2> SUFFICES ASSUME \A e \in Device : e # req[r].device => sessions[e] # req[r].score
               PROVE  FALSE
    OBVIOUS
  <2>1. Punch!Register(r)
    BY OnlyRegister
  <2>2. /\ req[r] \in Punch!Req /\ req[r].device \in Device /\ req[r].score \in 0..MaxTime
        /\ req[r].limit \in Int /\ MaxTime \in Nat /\ sessions \in Sessions
    BY DEF Punch!TypeOK, Punch!Req, Punch!AuthorizationAssumption, Sessions, Punch!None
  <2>3. PICK added \in Sessions : added = [sessions EXCEPT ![req[r].device] = req[r].score]
    BY <2>2 DEF Sessions
  <2>4. req[r].device \in Punch!Popped(added, req[r].limit)
    <3>1. \/ Punch!Goto(r, IF req[r].device \in Punch!Popped(added, req[r].limit)
                           THEN "limited" ELSE "permission")
          \/ Punch!Goto(r, "permission")
      BY <2>1, <2>3, Zenon DEF Punch!Register
    <3> QED
      BY <3>1 DEF Punch!Goto, Punch!TypeOK, Punch!Req
  <2>5. \A e \in Device : e # req[r].device => sessions[e] <= req[r].score
    BY DEF ScoresInv
  <2>6. \A e \in Punch!Members(added) : e # req[r].device => added[e] < added[req[r].device]
    <3>1. \A e \in Punch!Members(added) : e \in Device /\ added[e] # -1
      BY MembersAre
    <3>2. /\ added[req[r].device] = req[r].score
          /\ \A e \in Device : e # req[r].device => added[e] = sessions[e]
          /\ \A e \in Device : sessions[e] \in Int
      BY <2>2, <2>3 DEF Sessions
    <3>3. \A e \in Device : e # req[r].device => sessions[e] < req[r].score
      BY <2>2, <2>5, <3>2
    <3> QED
      BY <3>1, <3>2, <3>3
  <2> QED
    BY <2>2, <2>4, <2>6, HighestIsKept
<1> QED
  BY <1>1, PunchInit, PunchKeeps, PTL DEF Punch!Spec

\* NewestKeepSessions: after a registration no more devices hold a session than it allows, and
\* they are the ones with the highest scores.
THEOREM NewestKept ==
  Punch!AuthorizationAssumption /\ Punch!Spec => [][Punch!NewestKeepSessions]_Punch!vars
<1> SUFFICES ASSUME Punch!AuthorizationAssumption
             PROVE  Punch!Spec => [][Punch!NewestKeepSessions]_Punch!vars
  OBVIOUS
<1>1. Punch!TypeOK /\ [Punch!Next]_Punch!vars => Punch!NewestKeepSessions
  <2> SUFFICES ASSUME Punch!TypeOK, [Punch!Next]_Punch!vars, NEW r \in Request,
                      req[r].pc = "register", req'[r].pc # "register", sessions' # sessions
               PROVE  LET before == Punch!Members(sessions) \cup {req[r].device}
                          Score(d) == IF d = req[r].device THEN req[r].score ELSE sessions[d]
                      IN /\ \/ Punch!Cardinality(Punch!Members(sessions')) <= req[r].limit
                            \/ Punch!Members(sessions') = {}
                         /\ \A d \in Punch!Members(sessions'),
                               e \in before \ Punch!Members(sessions') : Score(e) <= Score(d)
    BY DEF Punch!NewestKeepSessions
  <2>1. Punch!Register(r)
    BY OnlyRegister
  <2>2. /\ req[r] \in Punch!Req /\ req[r].device \in Device /\ req[r].score \in 0..MaxTime
        /\ req[r].limit \in Int /\ MaxTime \in Nat /\ sessions \in Sessions
    BY DEF Punch!TypeOK, Punch!Req, Punch!AuthorizationAssumption, Sessions, Punch!None
  <2>12. PICK added \in Sessions : added = [sessions EXCEPT ![req[r].device] = req[r].score]
    BY <2>2 DEF Sessions
  <2>13. PICK popped : popped = Punch!Popped(added, req[r].limit)
    OBVIOUS
  <2>3. /\ added = [sessions EXCEPT ![req[r].device] = req[r].score]
        /\ popped = Punch!Popped(added, req[r].limit)
    BY <2>12, <2>13
  <2>4. sessions' = [e \in Device |-> IF e \in popped THEN -1 ELSE added[e]]
    BY <2>1, <2>3, Zenon DEF Punch!Register, Punch!None
  <2>5. sessions' \in Sessions
    BY <2>4 DEF Sessions
  <2>6. Punch!Members(sessions') = Punch!Members(added) \ popped
    BY <2>4, <2>5, MembersAre
  <2>7. \/ Cardinality(Punch!Members(sessions')) <= req[r].limit
        \/ Punch!Members(sessions') = {}
    BY <2>2, <2>3, <2>6, FewStay
  <2>8. Punch!Members(added) = Punch!Members(sessions) \cup {req[r].device}
    <3>1. /\ added[req[r].device] = req[r].score /\ req[r].score # -1
          /\ \A e \in Device : e # req[r].device => added[e] = sessions[e]
      BY <2>2, <2>3 DEF Sessions
    <3>2. /\ \A e : e \in Punch!Members(added) <=> e \in Device /\ added[e] # -1
          /\ \A e : e \in Punch!Members(sessions) <=> e \in Device /\ sessions[e] # -1
      BY <2>2, MembersAre
    <3> QED
      BY <2>2, <3>1, <3>2
  <2>9. ASSUME NEW d \in Punch!Members(added) \ popped, NEW e \in Punch!Members(added) \cap popped
        PROVE  added[e] <= added[d]
    <3>1. PICK m \in Nat : m = Cardinality(Punch!Members(added))
      BY MembersAre
    <3>2. popped = Punch!Lowest(added, m - req[r].limit)
      BY <2>2, <2>3, <2>9, <3>1, PoppedIs
    <3>3. /\ Cardinality(Before(added, e)) < m - req[r].limit
          /\ ~(Cardinality(Before(added, d)) < m - req[r].limit)
      BY <2>9, <3>2, LowestIs
    <3>4. /\ Cardinality(Before(added, e)) \in Nat /\ Cardinality(Before(added, d)) \in Nat
          /\ added[e] \in Nat /\ added[d] \in Nat
      BY <2>9, BeforeIs, MembersAre
    <3>5. CASE added[d] < added[e]
      <4>1. Cardinality(Before(added, d)) <= Cardinality(Before(added, e))
        BY <2>9, <3>5, BeforeGrows
      <4> QED
        BY <2>2, <3>1, <3>3, <3>4, <4>1
    <3> QED
      BY <3>4, <3>5
  <2>10. \A d \in Device : added[d] = IF d = req[r].device THEN req[r].score ELSE sessions[d]
    BY <2>2, <2>3 DEF Sessions
  <2>11. \A d \in Punch!Members(added) : d \in Device
    BY MembersAre
  <2> QED
    BY <2>6, <2>7, <2>8, <2>9, <2>10, <2>11, PunchSets
<1> QED
  BY <1>1, PunchInit, PunchKeeps, PTL DEF Punch!Spec

-----------------------------------------------------------------------------
(* Activation codes.                                                       *)

\* A task that serves no request has had any user and code.
SomeUser == CHOOSE u \in User : TRUE
SomeCode == CHOOSE c \in Code : TRUE

CodesTyped ==
  /\ applied \in [User \X Code -> Nat] /\ usedBy \in [Code -> User \cup {Codes!Nobody}]
  /\ who \in [Task -> User \cup {SomeUser}] /\ code \in [Task -> Code \cup {SomeCode}]
  /\ pc \in [Task -> {"idle", "redeem", "mark", "update", "create", "assign", "markNew"}]
  /\ exists \subseteq User
  /\ \A t \in Task : pc[t] # "idle" => who[t] \in User /\ code[t] \in Code

LEMMA CodesTypedInit == Codes!ActivationAssumption /\ Codes!Init => CodesTyped
BY DEF Codes!ActivationAssumption, Codes!Init, CodesTyped, SomeUser, SomeCode

\* Apply gives the task's user the days of the task's code once more, and no other.
LEMMA AppliesOne ==
  ASSUME CodesTyped, NEW t \in Task, pc[t] # "idle", NEW new, Codes!Apply(t, new)
  PROVE  /\ applied' \in [User \X Code -> Nat]
         /\ applied'[<<who[t], code[t]>>] = applied[<<who[t], code[t]>>] + 1
         /\ \A u \in User, c \in Code :
              u # who[t] \/ c # code[t] => applied'[<<u, c>>] = applied[<<u, c>>]
<1> DEFINE at == <<who[t], code[t]>>
<1>1. applied' = [applied EXCEPT ![at] = applied[at] + 1] /\ at \in User \X Code
  BY DEF CodesTyped, Codes!Apply
<1>2. applied \in [User \X Code -> Nat]
  BY DEF CodesTyped
<1>3. \A u \in User, c \in Code : u # who[t] \/ c # code[t] => <<u, c>> # at
  OBVIOUS
<1> HIDE DEF at
<1>4. applied' \in [User \X Code -> Nat] /\ applied'[at] = applied[at] + 1
  BY <1>1, <1>2
<1>5. \A u \in User, c \in Code : <<u, c>> # at => applied'[<<u, c>>] = applied[<<u, c>>]
  BY <1>1, <1>2
<1> QED
  BY <1>3, <1>4, <1>5 DEF at

LEMMA CodesTypedStep ==
  ASSUME Codes!ActivationAssumption, CodesTyped, [Codes!Next]_Codes!vars
  PROVE  CodesTyped'
<1> USE DEF Codes!ActivationAssumption, CodesTyped, Codes!Goto, Codes!Mark, Codes!Apply,
            Codes!users, Codes!codes, Codes!tasks, Codes!history
<1>1. ASSUME NEW t \in Task, Codes!Redeem(t) PROVE CodesTyped'
  BY <1>1 DEF Codes!Redeem
<1>2. ASSUME NEW t \in Task, Codes!Validate(t) PROVE CodesTyped'
  BY <1>2 DEF Codes!Validate
<1>3. ASSUME NEW t \in Task, Codes!MarkUsed(t) PROVE CodesTyped'
  BY <1>3 DEF Codes!MarkUsed
<1>4. ASSUME NEW t \in Task, Codes!Update(t) PROVE CodesTyped'
  BY <1>4 DEF Codes!Update
<1>5. ASSUME NEW t \in Task, Codes!Register(t) PROVE CodesTyped'
  BY <1>5 DEF Codes!Register
<1>6. ASSUME NEW t \in Task, Codes!Create(t) PROVE CodesTyped'
  BY <1>6 DEF Codes!Create
<1>7. ASSUME NEW t \in Task, Codes!Assign(t) PROVE CodesTyped'
  <2>1. applied' \in [User \X Code -> Nat]
    <3>1. CASE UNCHANGED applied
      BY <3>1
    <3>2. CASE Codes!Apply(t, codeDays[code[t]])
      BY <1>7, <3>2, AppliesOne DEF Codes!Assign
    <3> QED
      BY <1>7, <3>1, <3>2 DEF Codes!Assign
  <2> QED
    BY <1>7, <2>1 DEF Codes!Assign
<1>8. ASSUME NEW t \in Task, Codes!MarkNew(t) PROVE CodesTyped'
  BY <1>8 DEF Codes!MarkNew
<1>9. ASSUME NEW u \in User, Codes!Login(u) PROVE CodesTyped'
  BY <1>9 DEF Codes!Login
<1>10. CASE Codes!Day
  BY <1>10 DEF Codes!Day
<1>11. CASE UNCHANGED Codes!vars
  BY <1>11 DEF Codes!vars
<1> QED
  BY <1>1, <1>2, <1>3, <1>4, <1>5, <1>6, <1>7, <1>8, <1>9, <1>10, <1>11 DEF Codes!Next

\* Whoever adds a redeemed code's days has marked it, and whoever registers is a guest.
MarkedInv ==
  \A t \in Task :
    /\ pc[t] = "update" => usedBy[code[t]] = who[t]
    /\ pc[t] \in {"create", "assign", "markNew"} => who[t] \in Guest

LEMMA MarkedStep ==
  ASSUME Codes!ActivationAssumption, \A s, t \in Task : s = t, CodesTyped, MarkedInv,
         [Codes!Next]_Codes!vars
  PROVE  MarkedInv' /\ Codes!RedeemedIsMarked
<1> USE DEF Codes!ActivationAssumption, CodesTyped, MarkedInv, Codes!RedeemedIsMarked,
            Codes!Goto, Codes!Mark, Codes!Apply,
            Codes!users, Codes!codes, Codes!tasks, Codes!history
<1>1. ASSUME NEW t \in Task, Codes!Redeem(t) PROVE MarkedInv' /\ Codes!RedeemedIsMarked
  BY <1>1 DEF Codes!Redeem
<1>2. ASSUME NEW t \in Task, Codes!Validate(t) PROVE MarkedInv' /\ Codes!RedeemedIsMarked
  BY <1>2 DEF Codes!Validate
<1>3. ASSUME NEW t \in Task, Codes!MarkUsed(t) PROVE MarkedInv' /\ Codes!RedeemedIsMarked
  BY <1>3 DEF Codes!MarkUsed
<1>4. ASSUME NEW t \in Task, Codes!Update(t) PROVE MarkedInv' /\ Codes!RedeemedIsMarked
  BY <1>4 DEF Codes!Update
<1>5. ASSUME NEW t \in Task, Codes!Register(t) PROVE MarkedInv' /\ Codes!RedeemedIsMarked
  BY <1>5 DEF Codes!Register
<1>6. ASSUME NEW t \in Task, Codes!Create(t) PROVE MarkedInv' /\ Codes!RedeemedIsMarked
  BY <1>6 DEF Codes!Create
<1>7. ASSUME NEW t \in Task, Codes!Assign(t) PROVE MarkedInv' /\ Codes!RedeemedIsMarked
  BY <1>7 DEF Codes!Assign
<1>8. ASSUME NEW t \in Task, Codes!MarkNew(t) PROVE MarkedInv' /\ Codes!RedeemedIsMarked
  BY <1>8 DEF Codes!MarkNew
<1>9. ASSUME NEW u \in User, Codes!Login(u) PROVE MarkedInv' /\ Codes!RedeemedIsMarked
  BY <1>9 DEF Codes!Login
<1>10. CASE Codes!Day
  BY <1>10 DEF Codes!Day
<1>11. CASE UNCHANGED Codes!vars
  BY <1>11 DEF Codes!vars
<1> QED
  BY <1>1, <1>2, <1>3, <1>4, <1>5, <1>6, <1>7, <1>8, <1>9, <1>10, <1>11 DEF Codes!Next

\* RedeemedIsMarked, while requests are served one at a time: a user is given a code's
\* days by Redeem only once ValidateAndUse has stored them as the code's user, whichever
\* database write fails.
THEOREM RedeemedAreMarked ==
  Codes!ActivationAssumption /\ (\A s, t \in Task : s = t) /\ Codes!Spec
    => [][Codes!RedeemedIsMarked]_Codes!vars
<1> SUFFICES ASSUME Codes!ActivationAssumption, \A s, t \in Task : s = t
             PROVE  Codes!Spec => [][Codes!RedeemedIsMarked]_Codes!vars
  OBVIOUS
<1>1. Codes!Init => CodesTyped /\ MarkedInv
  BY CodesTypedInit DEF Codes!Init, MarkedInv
<1>2. CodesTyped /\ MarkedInv /\ [Codes!Next]_Codes!vars
        => (CodesTyped /\ MarkedInv)' /\ [Codes!RedeemedIsMarked]_Codes!vars
  BY CodesTypedStep, MarkedStep
<1> QED
  BY <1>1, <1>2, PTL DEF Codes!Spec

\* A code that is not marked has been applied by none, but for a registration that is
\* about to mark it; and a task past the check of its code is the only one to use it.
AppliedInv ==
  /\ Codes!CodeAppliedOnce
  /\ \A c \in Code, u \in User :
       usedBy[c] = Codes!Nobody /\ (\A t \in Task : ~(pc[t] = "markNew" /\ code[t] = c))
         => applied[<<u, c>>] = 0
  /\ \A t \in Task :
       /\ pc[t] \in {"mark", "create", "assign"} => usedBy[code[t]] = Codes!Nobody
       /\ pc[t] = "update" =>
            usedBy[code[t]] # Codes!Nobody /\ \A u \in User : applied[<<u, code[t]>>] = 0

LEMMA AppliedStep ==
  ASSUME Codes!ActivationAssumption, \A s, t \in Task : s = t, ~Faults,
         CodesTyped, AppliedInv, [Codes!Next]_Codes!vars
  PROVE  AppliedInv'
<1> USE DEF Codes!ActivationAssumption, CodesTyped, AppliedInv, Codes!CodeAppliedOnce,
            Codes!Goto, Codes!Mark,
            Codes!users, Codes!codes, Codes!tasks, Codes!history
<1>1. ASSUME NEW t \in Task, Codes!Redeem(t) PROVE AppliedInv'
  BY <1>1 DEF Codes!Redeem
<1>2. ASSUME NEW t \in Task, Codes!Validate(t) PROVE AppliedInv'
  BY <1>2 DEF Codes!Validate, Codes!Valid
<1>3. ASSUME NEW t \in Task, Codes!MarkUsed(t) PROVE AppliedInv'
  BY <1>3 DEF Codes!MarkUsed
<1>4. ASSUME NEW t \in Task, Codes!Update(t) PROVE AppliedInv'
  <2> DEFINE new == Codes!Accumulated(days[t], codeDays[code[t]])
  <2>1. Codes!Apply(t, new)
    BY <1>4 DEF Codes!Update
  <2> HIDE DEF new
  <2>2. /\ applied'[<<who[t], code[t]>>] = applied[<<who[t], code[t]>>] + 1
        /\ \A u \in User, c \in Code :
             u # who[t] \/ c # code[t] => applied'[<<u, c>>] = applied[<<u, c>>]
    BY <1>4, <2>1, AppliesOne DEF Codes!Update
  <2>3. /\ pc[t] = "update" /\ usedBy[code[t]] = usedBy'[code[t]]
        /\ pc' = [pc EXCEPT ![t] = "idle"] /\ UNCHANGED <<usedBy, who, code>>
        /\ who[t] \in User /\ code[t] \in Code
    BY <1>4 DEF Codes!Update
  <2> QED
    BY <2>2, <2>3
<1>5. ASSUME NEW t \in Task, Codes!Register(t) PROVE AppliedInv'
  BY <1>5 DEF Codes!Register, Codes!Valid
<1>6. ASSUME NEW t \in Task, Codes!Create(t) PROVE AppliedInv'
  BY <1>6 DEF Codes!Create
<1>7. ASSUME NEW t \in Task, Codes!Assign(t) PROVE AppliedInv'
  <2>1. Codes!Apply(t, codeDays[code[t]]) /\ pc' = [pc EXCEPT ![t] = "markNew"]
    BY <1>7 DEF Codes!Assign
  <2>2. /\ applied'[<<who[t], code[t]>>] = applied[<<who[t], code[t]>>] + 1
        /\ \A u \in User, c \in Code :
             u # who[t] \/ c # code[t] => applied'[<<u, c>>] = applied[<<u, c>>]
    BY <1>7, <2>1, AppliesOne DEF Codes!Assign
  <2>3. /\ pc[t] = "assign" /\ UNCHANGED <<usedBy, who, code>>
        /\ who[t] \in User /\ code[t] \in Code
    BY <1>7 DEF Codes!Assign
  <2>4. \A u \in User : applied[<<u, code[t]>>] = 0
    BY <2>3
  <2> QED
    BY <2>1, <2>2, <2>3, <2>4
<1>8. ASSUME NEW t \in Task, Codes!MarkNew(t) PROVE AppliedInv'
  BY <1>8 DEF Codes!MarkNew
<1>9. ASSUME NEW u \in User, Codes!Login(u) PROVE AppliedInv'
  BY <1>9 DEF Codes!Login
<1>10. CASE Codes!Day
  BY <1>10 DEF Codes!Day
<1>11. CASE UNCHANGED Codes!vars
  BY <1>11 DEF Codes!vars
<1> QED
  BY <1>1, <1>2, <1>3, <1>4, <1>5, <1>6, <1>7, <1>8, <1>9, <1>10, <1>11 DEF Codes!Next

\* CodeAppliedOnce, while requests are served one at a time and no database write fails:
\* Validate lets nobody apply a code again, neither by Redeem nor by Register.
THEOREM CodesApplyOnce ==
  Codes!ActivationAssumption /\ (\A s, t \in Task : s = t) /\ ~Faults /\ Codes!Spec
    => []Codes!CodeAppliedOnce
<1> SUFFICES ASSUME Codes!ActivationAssumption, \A s, t \in Task : s = t, ~Faults
             PROVE  Codes!Spec => []Codes!CodeAppliedOnce
  OBVIOUS
<1>1. Codes!Init => CodesTyped /\ AppliedInv
  <2>1. Codes!Init => AppliedInv
    BY DEF Codes!Init, AppliedInv, Codes!CodeAppliedOnce
  <2> QED
    BY <2>1, CodesTypedInit
<1>2. CodesTyped /\ AppliedInv /\ [Codes!Next]_Codes!vars => (CodesTyped /\ AppliedInv)'
  BY CodesTypedStep, AppliedStep
<1>3. AppliedInv => Codes!CodeAppliedOnce
  BY DEF AppliedInv
<1> QED
  BY <1>1, <1>2, <1>3, PTL DEF Codes!Spec

-----------------------------------------------------------------------------
(* Captchas of the login limiter.                                          *)

\* A captcha is not drawn twice, in store only once drawn, and out of store once
\* a login was let through for it.  CaptchaServesOnce needs the last part: a
\* step of Verify sees the store and not what was accepted before.
CaptchaInv ==
  /\ drawn \subseteq Captcha
  /\ captchas = [c \in Captcha |-> captchas[c]]
  /\ spent \in [Captcha -> Nat]
  /\ \A c \in Captcha :
       /\ c \notin drawn => captchas[c] = Limiter!None /\ spent[c] = 0
       /\ captchas[c] # Limiter!None => spent[c] = 0
       /\ spent[c] <= 1

LEMMA CaptchaInit == Limiter!Init => CaptchaInv
BY DEF Limiter!Init, CaptchaInv, Limiter!None

\* Only Verify accepts a captcha: one in store, which it takes.
LEMMA CaptchaVerified ==
  ASSUME NEW t \in Task, CaptchaInv, Limiter!Verify(t)
  PROVE  CaptchaInv'
<1>1. drawn' = drawn
  BY DEF Limiter!Verify
<1>2. CASE UNCHANGED <<captchas, spent>>
  BY <1>1, <1>2 DEF CaptchaInv
<1>3. ASSUME NEW c \in drawn, captchas[c] # Limiter!None,
             captchas' = [captchas EXCEPT ![c] = Limiter!None],
             spent' = [spent EXCEPT ![c] = @ + 1] \/ spent' = spent
      PROVE  CaptchaInv'
  <2>1. spent' \in [Captcha -> Nat] /\ captchas' = [d \in Captcha |-> captchas'[d]]
    BY <1>3 DEF CaptchaInv
  <2>2. c \in Captcha /\ captchas'[c] = Limiter!None /\ spent'[c] <= 1
    BY <1>3 DEF CaptchaInv
  <2>3. \A d \in Captcha \ {c} : captchas'[d] = captchas[d] /\ spent'[d] = spent[d]
    BY <1>3 DEF CaptchaInv
  <2> QED
    BY <1>1, <2>1, <2>2, <2>3 DEF CaptchaInv
<1> QED
  BY <1>2, <1>3 DEF Limiter!Verify

LEMMA CaptchaDrawn ==
  ASSUME NEW c \in Captcha, CaptchaInv, Limiter!RequireCaptcha(c)
  PROVE  CaptchaInv'
BY DEF Limiter!RequireCaptcha, CaptchaInv

\* The clean-up only takes captchas out of store.
LEMMA CaptchaCleanup == CaptchaInv /\ Limiter!cleanupExpired => CaptchaInv'
<1> SUFFICES ASSUME CaptchaInv, Limiter!cleanupExpired PROVE CaptchaInv'
  OBVIOUS
<1>1. captchas' = [c \in Captcha |-> IF captchas[c] < now THEN Limiter!None ELSE captchas[c]]
  BY DEF Limiter!cleanupExpired
<1>2. UNCHANGED <<spent, drawn>>
  BY DEF Limiter!cleanupExpired, Limiter!history
<1> QED
  BY <1>1, <1>2 DEF CaptchaInv

LEMMA CaptchaStep == CaptchaInv /\ [Limiter!Next]_Limiter!vars => CaptchaInv'
<1> SUFFICES ASSUME CaptchaInv, [Limiter!Next]_Limiter!vars PROVE CaptchaInv'
  OBVIOUS
<1>1. CASE UNCHANGED Limiter!vars
  BY <1>1 DEF Limiter!vars, Limiter!history, CaptchaInv
<1>2. CASE Limiter!Tick
  BY <1>2 DEF Limiter!Tick, Limiter!history, CaptchaInv
<1>3. ASSUME NEW t \in Task,
             \/ Limiter!Arrive(t) \/ Limiter!Check(t) \/ Limiter!Malformed(t)
             \/ Limiter!Fail(t) \/ Limiter!Succeed(t)
      PROVE  CaptchaInv'
  BY <1>3
     DEF Limiter!Arrive, Limiter!Check, Limiter!Malformed, Limiter!Fail, Limiter!Succeed,
         Limiter!history, CaptchaInv
<1>4. ASSUME NEW t \in Task, Limiter!Verify(t) PROVE CaptchaInv'
  BY <1>4, CaptchaVerified
<1>5. ASSUME NEW c \in Captcha, Limiter!RequireCaptcha(c) PROVE CaptchaInv'
  BY <1>5, CaptchaDrawn
<1>6. CASE Limiter!cleanupExpired
  BY <1>6, CaptchaCleanup
<1> QED
  BY <1>1, <1>2, <1>3, <1>4, <1>5, <1>6 DEF Limiter!Next

\* A captcha is good for one login, though requests may bring it together:
\* VerifyCaptcha looks it up and removes it under one lock.
THEOREM CaptchasServeOnce == Limiter!Spec => []Limiter!CaptchaServesOnce
<1>1. CaptchaInv => Limiter!CaptchaServesOnce
  BY DEF CaptchaInv, Limiter!CaptchaServesOnce
<1> QED
  BY <1>1, CaptchaInit, CaptchaStep, PTL DEF Limiter!Spec

-----------------------------------------------------------------------------
(* The pool of relay servers.                                              *)

\* Of the list that a request published last, or has read, nothing has changed since:
\* the only request is the one that publishes.
CurrentInv ==
  /\ pc \in [Task -> {"idle", "check", "dialled", "written", "read"}]
  /\ seen = [t \in Task |-> seen[t]]
  /\ Pool!PublishedIsCurrent
  /\ \A t \in Task : pc[t] = "read" => seen[t] = active

LEMMA CurrentStep ==
  ASSUME \A s, t \in Task : s = t, ~RedisFails, CurrentInv, [Pool!Next]_Pool!vars
  PROVE  CurrentInv'
<1> USE DEF CurrentInv, Pool!PublishedIsCurrent, Pool!Publishing, Pool!Begin, Pool!Written,
            Pool!table, Pool!hbbs, Pool!tasks
<1>1. ASSUME NEW t \in Task, Pool!Create(t) PROVE CurrentInv'
  BY <1>1 DEF Pool!Create
<1>2. ASSUME NEW t \in Task, Pool!Update(t) PROVE CurrentInv'
  BY <1>2 DEF Pool!Update
<1>3. ASSUME NEW t \in Task, Pool!Delete(t) PROVE CurrentInv'
  BY <1>3 DEF Pool!Delete
<1>4. ASSUME NEW t \in Task, Pool!ToggleOnline(t) PROVE CurrentInv'
  BY <1>4 DEF Pool!ToggleOnline
<1>5. ASSUME NEW t \in Task, Pool!Check(t) PROVE CurrentInv'
  BY <1>5 DEF Pool!Check
<1>6. ASSUME NEW t \in Task, Pool!Dial(t) PROVE CurrentInv'
  BY <1>6 DEF Pool!Dial, Pool!Resume
<1>7. ASSUME NEW t \in Task, Pool!UpdateOnlineStatus(t) PROVE CurrentInv'
  BY <1>7 DEF Pool!UpdateOnlineStatus
<1>8. ASSUME NEW t \in Task, Pool!GetActiveServers(t) PROVE CurrentInv'
  BY <1>8 DEF Pool!GetActiveServers
<1>9. ASSUME NEW t \in Task, Pool!Set(t) PROVE CurrentInv'
  BY <1>9 DEF Pool!Set, Pool!Resume
<1>10. CASE Pool!Reach
  BY <1>10 DEF Pool!Reach
<1>11. CASE Pool!Refresh
  BY <1>11 DEF Pool!Refresh
<1>12. ASSUME NEW p \in Probe, Pool!ProbeFetch(p) \/ Pool!ProbeSend(p) PROVE CurrentInv'
  BY <1>12 DEF Pool!ProbeFetch, Pool!ProbeSend
<1>13. CASE Pool!Receive
  BY <1>13 DEF Pool!Receive
<1>14. CASE UNCHANGED Pool!vars
  BY <1>14 DEF Pool!vars
<1> QED
  BY <1>1, <1>2, <1>3, <1>4, <1>5, <1>6, <1>7, <1>8, <1>9, <1>10, <1>11, <1>12, <1>13, <1>14
     DEF Pool!Next, Pool!Work

\* PublishedIsCurrent, one request at a time and while Redis does not fail: whenever no
\* request is publishing, Redis holds the active rows, as each operation that changes them
\* ends with PublishServerTopologyToRedis.
THEOREM PublishedStayCurrent ==
  ASSUME \A s, t \in Task : s = t, ~RedisFails
  PROVE  Pool!Spec => []Pool!PublishedIsCurrent
<1>1. Pool!Init => CurrentInv
  BY DEF Pool!Init, CurrentInv, Pool!PublishedIsCurrent
<1>2. CurrentInv /\ [Pool!Next]_Pool!vars => CurrentInv'
  BY CurrentStep
<1>3. CurrentInv => Pool!PublishedIsCurrent
  BY DEF CurrentInv
<1> QED
  BY <1>1, <1>2, <1>3, PTL DEF Pool!Spec

\* Whether a row that a task has read, or dialled, is one of the server s.
Unchecked(t, s) == \E r \in todo[t] : r.server = s
Unstored(t, s) == \E r \in found[t] : r.server = s

\* Of an undisturbed check: what it has read is still stored, what it has found is so
\* still, and the other rows tell the truth.
Truthful(t) ==
  /\ \A r \in todo[t] : r.online = (r.server \in online)
  /\ \A r \in found[t] : r.online = (r.server \in up)
  /\ \A s \in active :
       Unchecked(t, s) \/ Unstored(t, s) \/ (s \in online <=> s \in up)

\* The rows of a check are rows of different servers.
ProbeRows(t) ==
  /\ todo[t] \subseteq Pool!Row /\ found[t] \subseteq Pool!Row
  /\ pc[t] # "dialled" => found[t] = {}
  /\ \A r, q \in found[t] : r = q
  /\ \A r, q \in todo[t] : r.server = q.server => r = q
  /\ \A r \in found[t], q \in todo[t] : r.server # q.server

TruthInv ==
  /\ pc \in [Task -> {"idle", "check", "dialled", "written", "read"}]
  /\ todo \in [Task -> SUBSET Pool!Row] /\ found \in [Task -> SUBSET Pool!Row]
  /\ active \subseteq Server \ gone /\ unborn \subseteq Server
  /\ unborn \cap gone = {} /\ active \cap unborn = {} /\ gone \subseteq Server
  /\ steady \subseteq Task
  /\ \A t \in Task : ProbeRows(t)
  /\ \A t \in steady : pc[t] \notin {"idle"} => Truthful(t)

\* What a check reads is one row of each active server.
LEMMA RowsAreRead ==
  ASSUME active \subseteq Server
  PROVE  LET new == {[server |-> s, online |-> s \in online] : s \in active}
         IN  /\ new \subseteq Pool!Row
             /\ \A r, q \in new : r.server = q.server => r = q
             /\ \A r \in new : r.online = (r.server \in online)
             /\ \A s \in active : \E r \in new : r.server = s
<1> DEFINE row(s) == [server |-> s, online |-> s \in online]
           new == {row(s) : s \in active}
<1>1. \A s \in active : row(s).server = s /\ row(s).online = (s \in online)
  OBVIOUS
<1>2. \A s \in active : row(s) \in Pool!Row
  BY DEF Pool!Row
<1> HIDE DEF row
<1>3. /\ \A s \in active : row(s) \in new
      /\ \A r \in new : \E s \in active : r = row(s)
  OBVIOUS
<1> HIDE DEF new
<1>4. /\ new \subseteq Pool!Row
      /\ \A r, q \in new : r.server = q.server => r = q
      /\ \A r \in new : r.online = (r.server \in online)
      /\ \A s \in active : \E r \in new : r.server = s
  BY <1>1, <1>2, <1>3
<1> QED
  BY <1>4 DEF new, row

LEMMA TruthStep ==
  ASSUME TruthInv, [Pool!Next]_Pool!vars
  PROVE  TruthInv' /\ Pool!CheckTellsTheTruth
<1> USE DEF TruthInv, Pool!CheckTellsTheTruth, Pool!Begin, ProbeRows, Truthful, Pool!Written,
            Pool!Row,
            Pool!table, Pool!hbbs, Pool!tasks
<1>1. ASSUME NEW t \in Task, Pool!Create(t) PROVE TruthInv' /\ Pool!CheckTellsTheTruth
  BY <1>1 DEF Pool!Create, Pool!Insert
<1>2. ASSUME NEW t \in Task, Pool!Update(t) PROVE TruthInv' /\ Pool!CheckTellsTheTruth
  BY <1>2 DEF Pool!Update, Pool!Column
<1>3. ASSUME NEW t \in Task, Pool!Delete(t) PROVE TruthInv' /\ Pool!CheckTellsTheTruth
  BY <1>3 DEF Pool!Delete
<1>4. ASSUME NEW t \in Task, Pool!ToggleOnline(t) PROVE TruthInv' /\ Pool!CheckTellsTheTruth
  BY <1>4 DEF Pool!ToggleOnline, Pool!SetOnline, Pool!Column
<1>5. ASSUME NEW t \in Task, Pool!Check(t) PROVE TruthInv' /\ Pool!CheckTellsTheTruth
  <2> DEFINE new == {[server |-> s, online |-> s \in online] : s \in active}
  <2>1. /\ new \subseteq Pool!Row
        /\ \A r, q \in new : r.server = q.server => r = q
        /\ \A r \in new : r.online = (r.server \in online)
        /\ \A s \in active : \E r \in new : r.server = s
    BY RowsAreRead DEF TruthInv
  <2>2. todo'[t] = new /\ found[t] = {} /\ \A u \in Task \ {t} : todo'[u] = todo[u]
    BY <1>5 DEF Pool!Check
  <2>3. todo' \in [Task -> SUBSET Pool!Row]
    BY <1>5, <2>1 DEF Pool!Check
  <2>4. \A u \in Task : ProbeRows(u)'
    BY <1>5, <2>1, <2>2 DEF Pool!Check
  <2>5. \A u \in Task \ {t} : Truthful(u) => Truthful(u)'
    BY <1>5, <2>2 DEF Pool!Check, Unchecked, Unstored
  <2>6. Truthful(t)'
    BY <1>5, <2>1, <2>2 DEF Pool!Check, Unchecked, Unstored
  <2> HIDE DEF new, Truthful, ProbeRows
  <2>7. TruthInv'
    BY <1>5, <2>3, <2>4, <2>5, <2>6 DEF Pool!Check
  <2>8. Pool!CheckTellsTheTruth
    BY <1>5 DEF Pool!Check
  <2> QED  BY <2>7, <2>8
<1>6. ASSUME NEW t \in Task, Pool!Dial(t) PROVE TruthInv' /\ Pool!CheckTellsTheTruth
  <2> PICK r \in todo[t] :
         /\ todo' = [todo EXCEPT ![t] = @ \ {r}]
         /\ IF (r.server \in up) = r.online
            THEN Pool!Resume(t) /\ UNCHANGED found
            ELSE /\ pc' = [pc EXCEPT ![t] = "dialled"]
                 /\ found' = [found EXCEPT ![t] = {[r EXCEPT !.online = r.server \in up]}]
    BY <1>6 DEF Pool!Dial
  <2>1. /\ UNCHANGED <<unborn, gone, active, online, up, steady>> /\ pc[t] = "check"
        /\ todo'[t] = todo[t] \ {r} /\ r \in Pool!Row /\ found[t] = {}
        /\ \A u \in Task \ {t} : UNCHANGED <<todo[u], found[u], pc[u]>>
    BY <1>6 DEF Pool!Dial, Pool!Resume
  <2>2. CASE (r.server \in up) = r.online
    <3>1. Truthful(t) => Truthful(t)'
      BY <2>1, <2>2 DEF Unchecked, Unstored
    <3>2. \A u \in Task \ {t} : Truthful(u) => Truthful(u)'
      BY <2>1 DEF Unchecked, Unstored
    <3>3. TruthInv'
      BY <2>1, <2>2, <3>1, <3>2 DEF Pool!Resume
    <3>4. todo'[t] = {} /\ Truthful(t) => \A s \in active : s \in online <=> s \in up
      BY <2>1, <2>2 DEF Unchecked, Unstored
    <3>5. Pool!CheckTellsTheTruth
      BY <2>1, <2>2, <3>4 DEF Pool!Resume
    <3> QED  BY <3>3, <3>5
  <2>3. CASE (r.server \in up) # r.online
    <3> DEFINE q == [r EXCEPT !.online = r.server \in up]
    <3>1. q \in Pool!Row /\ q.server = r.server /\ q.online = (r.server \in up)
      <4>1. r \in [server : Server, online : BOOLEAN] /\ (r.server \in up) \in BOOLEAN
        BY <2>1
      <4>2. q = [server |-> r.server, online |-> r.server \in up]
        BY <4>1
      <4> QED  BY <4>1, <4>2, Zenon
    <3>2. found'[t] = {q} /\ pc'[t] = "dialled"
      BY <2>3
    <3> HIDE DEF q
    <3>3. Truthful(t) => Truthful(t)'
      BY <2>1, <3>1, <3>2 DEF Unchecked, Unstored
    <3>4. \A u \in Task \ {t} : Truthful(u) => Truthful(u)'
      BY <2>1 DEF Unchecked, Unstored
    <3>5. \A u \in Task : ProbeRows(u)'
      BY <2>1, <3>1, <3>2
    <3>6. found' \in [Task -> SUBSET Pool!Row] /\ todo' \in [Task -> SUBSET Pool!Row]
      BY <2>1, <2>3, <3>1 DEF q
    <3>7. pc' \in [Task -> {"idle", "check", "dialled", "written", "read"}]
      BY <2>3
    <3> HIDE DEF Truthful, ProbeRows
    <3>8. TruthInv'
      BY <2>1, <3>2, <3>3, <3>4, <3>5, <3>6, <3>7
    <3>9. Pool!CheckTellsTheTruth
      BY <2>1, <3>2
    <3> QED  BY <3>8, <3>9
  <2> QED  BY <2>2, <2>3
<1>7. ASSUME NEW t \in Task, Pool!UpdateOnlineStatus(t)
      PROVE  TruthInv' /\ Pool!CheckTellsTheTruth
  BY <1>7 DEF Pool!UpdateOnlineStatus, Pool!SetOnline, Pool!Column, Unchecked, Unstored
<1>8. ASSUME NEW t \in Task, Pool!GetActiveServers(t)
      PROVE  TruthInv' /\ Pool!CheckTellsTheTruth
  BY <1>8 DEF Pool!GetActiveServers, Unchecked, Unstored
<1>9. ASSUME NEW t \in Task, Pool!Set(t) PROVE TruthInv' /\ Pool!CheckTellsTheTruth
  BY <1>9 DEF Pool!Set, Pool!Resume, Unchecked, Unstored
<1>10. CASE Pool!Reach
  BY <1>10 DEF Pool!Reach
<1>11. CASE Pool!Refresh
  BY <1>11 DEF Pool!Refresh, Unchecked, Unstored
<1>12. ASSUME NEW p \in Probe, Pool!ProbeFetch(p) \/ Pool!ProbeSend(p)
       PROVE  TruthInv' /\ Pool!CheckTellsTheTruth
  BY <1>12 DEF Pool!ProbeFetch, Pool!ProbeSend, Unchecked, Unstored
<1>13. CASE Pool!Receive
  BY <1>13 DEF Pool!Receive, Unchecked, Unstored
<1>14. CASE UNCHANGED Pool!vars
  BY <1>14 DEF Pool!vars, Unchecked, Unstored
<1> QED
  BY <1>1, <1>2, <1>3, <1>4, <1>5, <1>6, <1>7, <1>8, <1>9, <1>10, <1>11, <1>12, <1>13, <1>14
     DEF Pool!Next, Pool!Work

\* CheckTellsTheTruth: when a check that nothing has disturbed ends, is_online of every
\* active row is what a dial shows; for any servers and tasks, whatever Redis does.
THEOREM ChecksTellTheTruth == Pool!Spec => [][Pool!CheckTellsTheTruth]_Pool!vars
<1>1. Pool!Init => TruthInv
  BY DEF Pool!Init, TruthInv, ProbeRows
<1>2. TruthInv /\ [Pool!Next]_Pool!vars => TruthInv' /\ [Pool!CheckTellsTheTruth]_Pool!vars
  BY TruthStep
<1> QED
  BY <1>1, <1>2, PTL DEF Pool!Spec

-----------------------------------------------------------------------------
(* A login through a third party.                                          *)

\* A step of a task, also of one that is none.
LEMMA TaskChanged ==
  ASSUME task \in [Oidc!Auth -> Oidc!Step], NEW b, NEW step \in Oidc!Step
  PROVE  /\ [task EXCEPT ![b] = step] \in [Oidc!Auth -> Oidc!Step]
         /\ \A a \in Oidc!Auth :
              [task EXCEPT ![b] = step][a] = IF a = b THEN step ELSE task[a]
OBVIOUS

\* One thread starts logins: the task under way is the last login's, and none is under
\* way when the next begins.
LastInv ==
  /\ task \in [Oidc!Auth -> Oidc!Step] /\ last \in Nat
  /\ caller \in [Caller -> {"idle", "waiting", "begin"}]
  /\ \A a \in Oidc!Auth : task[a] # "none" => a = last /\ running
  /\ \A c \in Caller : caller[c] = "begin" => ~running
  /\ Oidc!ShownIsLast

LEMMA LastStep ==
  ASSUME \A c, d \in Caller : c = d, Oidc!OidcLoginAssumption, LastInv,
         [Oidc!Next]_Oidc!vars
  PROVE  LastInv'
<1> USE DEF LastInv, Oidc!ShownIsLast, Oidc!OidcLoginAssumption, Oidc!Auth, Oidc!Step,
            Oidc!None, Oidc!session, Oidc!callbacks, Oidc!client, Oidc!server, Oidc!Goto
<1>1. ASSUME NEW c \in Caller, Oidc!account_auth(c) PROVE LastInv'
  BY <1>1 DEF Oidc!account_auth
<1>2. ASSUME NEW c \in Caller, Oidc!wait_stop_querying(c) PROVE LastInv'
  BY <1>2 DEF Oidc!wait_stop_querying
<1>3. ASSUME NEW c \in Caller, Oidc!before_task(c) PROVE LastInv'
  <2>1. /\ task' = [task EXCEPT ![last + 1] = "request"] /\ last' = last + 1 /\ running'
        /\ code_url' = 0 /\ auth_body' = 0 /\ caller' = [caller EXCEPT ![c] = "idle"]
        /\ \A a \in Oidc!Auth : task[a] = "none"
    BY <1>3 DEF Oidc!before_task
  <2>2. task' \in [Oidc!Auth -> Oidc!Step] /\ last' \in Nat
    <3> "request" \in Oidc!Step  OBVIOUS
    <3> HIDE DEF Oidc!Auth, Oidc!Step
    <3> QED  BY <2>1, TaskChanged
  <2>3. /\ caller' \in [Caller -> {"idle", "waiting", "begin"}]
        /\ \A d \in Caller : caller'[d] = "idle"
    BY <2>1
  <2>4. \A a \in Oidc!Auth : task'[a] # "none" => a = last + 1
    BY <2>1
  <2> QED
    BY <2>1, <2>2, <2>3, <2>4
<1>4. CASE Oidc!auth_cancel
  BY <1>4 DEF Oidc!auth_cancel
<1>5. ASSUME NEW a \in Oidc!Auth, Oidc!auth(a) PROVE LastInv'
  BY <1>5 DEF Oidc!auth
<1>6. ASSUME NEW a \in Oidc!Auth, Oidc!auth_error(a) PROVE LastInv'
  BY <1>6 DEF Oidc!auth_error
<1>7. ASSUME NEW a \in Oidc!Auth, Oidc!query(a) PROVE LastInv'
  BY <1>7 DEF Oidc!query
<1>8. ASSUME NEW a \in Oidc!Auth, Oidc!Serve(a) PROVE LastInv'
  BY <1>8 DEF Oidc!Serve
<1>9. ASSUME NEW a \in Oidc!Auth, Oidc!Answer(a) PROVE LastInv'
  BY <1>9 DEF Oidc!Answer
<1>10. ASSUME NEW a \in Oidc!Auth, Oidc!GiveUp(a) PROVE LastInv'
  BY <1>10 DEF Oidc!GiveUp
<1>11. ASSUME NEW a \in Oidc!Auth, Oidc!Stop(a) PROVE LastInv'
  BY <1>11 DEF Oidc!Stop
<1>12. ASSUME NEW a \in Oidc!Auth, Oidc!after_task(a) PROVE LastInv'
  BY <1>12 DEF Oidc!after_task
<1>13. ASSUME NEW a \in Oidc!Auth,
              Oidc!Callback(a) \/ Oidc!Authorize(a) \/ Oidc!Store(a) \/ Oidc!Expire(a)
       PROVE  LastInv'
  BY <1>13 DEF Oidc!Callback, Oidc!Authorize, Oidc!Store, Oidc!Expire
<1>14. CASE Oidc!Tick
  BY <1>14 DEF Oidc!Tick
<1>15. CASE UNCHANGED Oidc!vars
  BY <1>15 DEF Oidc!vars
<1> QED
  BY <1>1, <1>2, <1>3, <1>4, <1>5, <1>6, <1>7, <1>8, <1>9, <1>10, <1>11, <1>12, <1>13,
     <1>14, <1>15 DEF Oidc!Next, Oidc!Work

LEMMA LastInit == Oidc!Init => LastInv
<1> SUFFICES ASSUME Oidc!Init PROVE LastInv
  OBVIOUS
<1>1. task \in [Oidc!Auth -> Oidc!Step] /\ \A a \in Oidc!Auth : task[a] = "none"
  BY DEF Oidc!Init, Oidc!Step
<1>2. caller \in [Caller -> {"idle", "waiting", "begin"}] /\ \A c \in Caller : caller[c] = "idle"
  BY DEF Oidc!Init
<1>3. last \in Nat /\ Oidc!ShownIsLast
  BY DEF Oidc!Init, Oidc!None, Oidc!ShownIsLast
<1> QED
  BY <1>1, <1>2, <1>3 DEF LastInv

\* ShownIsLast: what the session shows is of the login begun last, when one thread starts
\* logins: wait_stop_querying lets no task of a former one go on.
THEOREM ShownAreLast ==
  ASSUME \A c, d \in Caller : c = d, Oidc!OidcLoginAssumption
  PROVE  Oidc!Spec => []Oidc!ShownIsLast
<1>1. Oidc!Init => LastInv
  BY LastInit
<1>2. LastInv /\ [Oidc!Next]_Oidc!vars => LastInv'
  BY LastStep
<1>3. LastInv => Oidc!ShownIsLast
  BY DEF LastInv
<1> QED
  BY <1>1, <1>2, <1>3, PTL DEF Oidc!Spec

\* A state nobody has been given yet is not known to the server.
Unknown(a) ==
  /\ a \notin cache /\ a \notin authorized
  /\ served[a] = 0 /\ tokens[a] = 0 /\ asking[a] = 0 /\ storing[a] = 0

\* One callback of a state at a time: what is about to be stored has no user yet, and a
\* state has one before it is answered.
DroppedInv ==
  /\ task \in [Oidc!Auth -> Oidc!Step] /\ last \in Nat
  /\ served \in [Oidc!Auth -> Nat] /\ tokens \in [Oidc!Auth -> Nat]
  /\ asking \in [Oidc!Auth -> Nat] /\ storing \in [Oidc!Auth -> Nat]
  /\ \A a \in Oidc!Auth :
       /\ a > last => task[a] = "none"
       /\ a > last \/ task[a] = "request" => Unknown(a)
       /\ asking[a] + storing[a] <= MaxCallback
       /\ storing[a] > 0 => a \notin authorized
       /\ served[a] > 0 \/ tokens[a] > 0 => a \in authorized
  /\ Oidc!AnsweredIsDropped

LEMMA DroppedStep ==
  ASSUME MaxCallback <= 1, Oidc!OidcLoginAssumption, DroppedInv, [Oidc!Next]_Oidc!vars
  PROVE  DroppedInv'
<1> USE DEF DroppedInv, Unknown, Oidc!AnsweredIsDropped, Oidc!OidcLoginAssumption,
            Oidc!Step, Oidc!session, Oidc!callbacks, Oidc!client,
            Oidc!server, Oidc!Goto
<1>0. \A a \in Oidc!Auth : a \in Nat
  BY DEF Oidc!Auth
<1>1. ASSUME NEW c \in Caller,
             Oidc!account_auth(c) \/ Oidc!wait_stop_querying(c)
      PROVE  DroppedInv'
  BY <1>1 DEF Oidc!account_auth, Oidc!wait_stop_querying
<1>2. ASSUME NEW c \in Caller, Oidc!before_task(c) PROVE DroppedInv'
  <2>1. /\ task' = [task EXCEPT ![last + 1] = "request"] /\ last' = last + 1
        /\ UNCHANGED <<cache, authorized, served, tokens, asking, storing>>
    BY <1>2 DEF Oidc!before_task
  <2>2. task' \in [Oidc!Auth -> Oidc!Step] /\ last' \in Nat
    <3> "request" \in Oidc!Step  OBVIOUS
    <3> HIDE DEF Oidc!Step
    <3> QED  BY <2>1, TaskChanged
  <2>3. \A a \in Oidc!Auth : task'[a] = IF a = last + 1 THEN "request" ELSE task[a]
    <3> "request" \in Oidc!Step  OBVIOUS
    <3> HIDE DEF Oidc!Step
    <3> QED  BY <2>1, TaskChanged
  <2>4. \A a \in Oidc!Auth :
          /\ a > last' => task'[a] = "none"
          /\ a > last' \/ task'[a] = "request" => Unknown(a)
    BY <1>0, <2>1, <2>3
  <2> QED
    BY <2>1, <2>2, <2>4
<1>3. CASE Oidc!auth_cancel
  BY <1>3 DEF Oidc!auth_cancel
<1>4. ASSUME NEW a \in Oidc!Auth, Oidc!auth(a) PROVE DroppedInv'
  BY <1>4 DEF Oidc!auth
<1>5. ASSUME NEW a \in Oidc!Auth, Oidc!auth_error(a) PROVE DroppedInv'
  BY <1>5 DEF Oidc!auth_error
<1>6. ASSUME NEW a \in Oidc!Auth, Oidc!query(a) PROVE DroppedInv'
  <2>1. /\ task' \in [Oidc!Auth -> Oidc!Step] /\ served' \in [Oidc!Auth -> Nat]
        /\ \A b \in Oidc!Auth \ {a} : task'[b] = task[b] /\ served'[b] = served[b]
        /\ task[a] = "loop" /\ task'[a] # "request"
        /\ served'[a] = served[a] \/ a \in authorized
        /\ UNCHANGED <<last, cache, authorized, tokens, asking, storing>>
    BY <1>6 DEF Oidc!query
  <2> QED
    BY <2>1
<1>7. ASSUME NEW a \in Oidc!Auth, Oidc!Serve(a) PROVE DroppedInv'
  <2>1. /\ served[a] > 0 /\ cache' = cache \ {a}
        /\ served' = [served EXCEPT ![a] = @ - 1] /\ tokens' = [tokens EXCEPT ![a] = @ + 1]
        /\ UNCHANGED <<task, last, authorized, asking, storing>>
    BY <1>7 DEF Oidc!Serve
  <2>2. served[a] - 1 \in Nat /\ tokens[a] + 1 \in Nat
    BY <2>1
  <2>3. /\ served' \in [Oidc!Auth -> Nat] /\ tokens' \in [Oidc!Auth -> Nat]
        /\ \A b \in Oidc!Auth \ {a} : served'[b] = served[b] /\ tokens'[b] = tokens[b]
    BY <2>1, <2>2
  <2>4. a \in authorized /\ ~(a > last \/ task[a] = "request")
    BY <2>1
  <2> QED
    BY <2>1, <2>3, <2>4
<1>8. ASSUME NEW a \in Oidc!Auth, Oidc!Answer(a) PROVE DroppedInv'
  BY <1>8 DEF Oidc!Answer
<1>9. ASSUME NEW a \in Oidc!Auth, Oidc!GiveUp(a) PROVE DroppedInv'
  BY <1>9 DEF Oidc!GiveUp
<1>10. ASSUME NEW a \in Oidc!Auth, Oidc!Stop(a) PROVE DroppedInv'
  BY <1>10 DEF Oidc!Stop
<1>11. ASSUME NEW a \in Oidc!Auth, Oidc!after_task(a) PROVE DroppedInv'
  BY <1>11 DEF Oidc!after_task
<1>12. ASSUME NEW a \in Oidc!Auth, Oidc!Callback(a) PROVE DroppedInv'
  BY <1>12 DEF Oidc!Callback
<1>13. ASSUME NEW a \in Oidc!Auth, Oidc!Authorize(a) PROVE DroppedInv'
  <2>1. /\ asking[a] > 0 /\ asking' = [asking EXCEPT ![a] = @ - 1]
        /\ \/ a \notin authorized /\ storing' = [storing EXCEPT ![a] = @ + 1]
           \/ storing' = storing
        /\ UNCHANGED <<task, last, cache, authorized, served, tokens>>
    BY <1>13 DEF Oidc!Authorize
  <2>2. asking[a] - 1 \in Nat /\ storing[a] + 1 \in Nat
    BY <2>1
  <2>3. /\ asking' \in [Oidc!Auth -> Nat] /\ storing' \in [Oidc!Auth -> Nat]
        /\ asking'[a] = asking[a] - 1 /\ storing'[a] \in {storing[a], storing[a] + 1}
        /\ storing'[a] # storing[a] => a \notin authorized
        /\ \A b \in Oidc!Auth \ {a} : asking'[b] = asking[b] /\ storing'[b] = storing[b]
    BY <2>1, <2>2
  <2>4. ~(a > last \/ task[a] = "request")
    BY <2>1
  <2> QED
    BY <2>1, <2>3, <2>4
<1>14. ASSUME NEW a \in Oidc!Auth, Oidc!Store(a) PROVE DroppedInv'
  <2>1. /\ storing[a] > 0 /\ storing' = [storing EXCEPT ![a] = @ - 1]
        /\ authorized' = authorized \cup {a} /\ cache' = cache \cup {a}
        /\ UNCHANGED <<task, last, served, tokens, asking>>
    BY <1>14 DEF Oidc!Store
  <2>2. storing[a] = 1 /\ asking[a] = 0
    <3>1. /\ storing[a] \in Nat /\ asking[a] \in Nat /\ MaxCallback \in Nat
          /\ asking[a] + storing[a] <= MaxCallback /\ storing[a] > 0
      BY <2>1
    <3> QED  BY ONLY <3>1, MaxCallback <= 1
  <2>3. /\ storing' \in [Oidc!Auth -> Nat] /\ storing'[a] = 0
        /\ \A b \in Oidc!Auth \ {a} : storing'[b] = storing[b]
    BY <2>1, <2>2
  <2>4. ~(a > last \/ task[a] = "request") /\ ~(served[a] > 0 \/ tokens[a] > 0)
    BY <2>1
  <2> QED
    BY <2>1, <2>3, <2>4
<1>15. ASSUME NEW a \in Oidc!Auth, Oidc!Expire(a) PROVE DroppedInv'
  BY <1>15 DEF Oidc!Expire
<1>16. CASE Oidc!Tick
  BY <1>16 DEF Oidc!Tick
<1>17. CASE UNCHANGED Oidc!vars
  BY <1>17 DEF Oidc!vars
<1> QED
  BY <1>1, <1>2, <1>3, <1>4, <1>5, <1>6, <1>7, <1>8, <1>9, <1>10, <1>11, <1>12, <1>13,
     <1>14, <1>15, <1>16, <1>17 DEF Oidc!Next, Oidc!Work

\* AnsweredIsDropped: a state that was answered with a token is never again in the cache,
\* when one callback of a state is served at a time; whatever is cancelled or lost.
THEOREM AnsweredAreDropped ==
  ASSUME MaxCallback <= 1, Oidc!OidcLoginAssumption
  PROVE  Oidc!Spec => []Oidc!AnsweredIsDropped
<1>1. Oidc!Init => DroppedInv
  <2> SUFFICES ASSUME Oidc!Init PROVE DroppedInv
    OBVIOUS
  <2>1. task \in [Oidc!Auth -> Oidc!Step] /\ \A a \in Oidc!Auth : task[a] = "none"
    BY DEF Oidc!Init, Oidc!Step
  <2>2. served \in [Oidc!Auth -> Nat] /\ \A a \in Oidc!Auth : served[a] = 0
    BY DEF Oidc!Init
  <2>3. /\ tokens = served /\ asking = served /\ storing = served
        /\ last \in Nat /\ cache = {} /\ authorized = {}
    BY DEF Oidc!Init, Oidc!None
  <2> QED
    BY <2>1, <2>2, <2>3 DEF DroppedInv, Unknown, Oidc!AnsweredIsDropped, Oidc!OidcLoginAssumption
<1>2. DroppedInv /\ [Oidc!Next]_Oidc!vars => DroppedInv'
  BY DroppedStep
<1>3. DroppedInv => Oidc!AnsweredIsDropped
  BY DEF DroppedInv
<1> QED
  BY <1>1, <1>2, <1>3, PTL DEF Oidc!Spec

\* While a task may ask, the timer of its state has longer to go, and only an answer has
\* dropped the state.
ExpiryInv ==
  /\ left \in [Oidc!Auth -> Nat] /\ timer \in [Oidc!Auth -> Nat]
  /\ served \in [Oidc!Auth -> Nat] /\ tokens \in [Oidc!Auth -> Nat]
  /\ \A a \in Oidc!Auth :
       task[a] \in {"loop", "query"} /\ left[a] > 0 =>
         timer[a] > left[a] /\ (a \in cache \/ tokens[a] > 0)
  /\ failed = "expired" => last \in Oidc!Auth /\ tokens[last] > 0

LEMMA ExpiryStep ==
  ASSUME QueryTimeout <= CacheTimeout, Oidc!OidcLoginAssumption, LastInv, ExpiryInv,
         [Oidc!Next]_Oidc!vars
  PROVE  ExpiryInv'
<1> USE DEF LastInv, ExpiryInv, Oidc!OidcLoginAssumption,
            Oidc!Step, Oidc!session, Oidc!callbacks, Oidc!client,
            Oidc!server, Oidc!Goto, Oidc!InTime
<1>1. ASSUME NEW c \in Caller,
             Oidc!account_auth(c) \/ Oidc!wait_stop_querying(c)
      PROVE  ExpiryInv'
  BY <1>1 DEF Oidc!account_auth, Oidc!wait_stop_querying
<1>2. ASSUME NEW c \in Caller, Oidc!before_task(c) PROVE ExpiryInv'
  BY <1>2 DEF Oidc!before_task
<1>3. CASE Oidc!auth_cancel
  BY <1>3 DEF Oidc!auth_cancel
<1>4. ASSUME NEW a \in Oidc!Auth, Oidc!auth(a) PROVE ExpiryInv'
  <2>1. /\ cache' = cache \cup {a} /\ task' = [task EXCEPT ![a] = "loop"]
        /\ timer' = [timer EXCEPT ![a] = CacheTimeout + 1]
        /\ left' = [left EXCEPT ![a] = QueryTimeout]
        /\ UNCHANGED <<last, failed, served, tokens>>
    BY <1>4 DEF Oidc!auth
  <2>2. /\ left' \in [Oidc!Auth -> Nat] /\ timer' \in [Oidc!Auth -> Nat]
        /\ left'[a] = QueryTimeout /\ timer'[a] = CacheTimeout + 1
        /\ \A b \in Oidc!Auth \ {a} :
             left'[b] = left[b] /\ timer'[b] = timer[b] /\ task'[b] = task[b]
    BY <2>1
  <2> QED
    BY <2>1, <2>2
<1>5. ASSUME NEW a \in Oidc!Auth, Oidc!auth_error(a) PROVE ExpiryInv'
  BY <1>5 DEF Oidc!auth_error
<1>6. ASSUME NEW a \in Oidc!Auth, Oidc!query(a) PROVE ExpiryInv'
  <2>1. /\ task[a] = "loop" /\ left[a] > 0
        /\ \/ a \notin cache /\ failed' = "expired" /\ served' = served
           \/ a \in cache /\ failed' = failed /\ served' = [served EXCEPT ![a] = @ + 1]
        /\ UNCHANGED <<left, timer, cache, tokens, last>>
        /\ task' \in [Oidc!Auth -> Oidc!Step]
        /\ \A b \in Oidc!Auth \ {a} : task'[b] = task[b]
    BY <1>6 DEF Oidc!query
  <2>2. served' \in [Oidc!Auth -> Nat]
    BY <2>1
  <2>3. a = last /\ (a \notin cache => tokens[a] > 0)
    BY <2>1
  <2> QED
    BY <2>1, <2>2, <2>3
<1>7. ASSUME NEW a \in Oidc!Auth, Oidc!Serve(a) PROVE ExpiryInv'
  <2>1. /\ served[a] > 0 /\ cache' = cache \ {a}
        /\ served' = [served EXCEPT ![a] = @ - 1] /\ tokens' = [tokens EXCEPT ![a] = @ + 1]
        /\ UNCHANGED <<task, last, left, timer, failed>>
    BY <1>7 DEF Oidc!Serve
  <2>2. served[a] - 1 \in Nat /\ tokens[a] + 1 \in Nat
    BY <2>1
  <2>3. /\ served' \in [Oidc!Auth -> Nat] /\ tokens' \in [Oidc!Auth -> Nat]
        /\ tokens'[a] = tokens[a] + 1 /\ \A b \in Oidc!Auth \ {a} : tokens'[b] = tokens[b]
    BY <2>1, <2>2
  <2> QED
    BY <2>1, <2>3
<1>8. ASSUME NEW a \in Oidc!Auth, Oidc!Answer(a) PROVE ExpiryInv'
  BY <1>8 DEF Oidc!Answer
<1>9. ASSUME NEW a \in Oidc!Auth, Oidc!GiveUp(a) PROVE ExpiryInv'
  BY <1>9 DEF Oidc!GiveUp
<1>10. ASSUME NEW a \in Oidc!Auth, Oidc!Stop(a) PROVE ExpiryInv'
  BY <1>10 DEF Oidc!Stop
<1>11. ASSUME NEW a \in Oidc!Auth, Oidc!after_task(a) PROVE ExpiryInv'
  BY <1>11 DEF Oidc!after_task
<1>12. ASSUME NEW a \in Oidc!Auth, Oidc!Callback(a) \/ Oidc!Authorize(a) \/ Oidc!Store(a)
       PROVE  ExpiryInv'
  BY <1>12 DEF Oidc!Callback, Oidc!Authorize, Oidc!Store
<1>13. ASSUME NEW a \in Oidc!Auth, Oidc!Expire(a) PROVE ExpiryInv'
  BY <1>13 DEF Oidc!Expire
<1>14. CASE Oidc!Tick
  <2>1. /\ left' = [a \in Oidc!Auth |-> IF left[a] > 0 THEN left[a] - 1 ELSE 0]
        /\ timer' = [a \in Oidc!Auth |-> IF timer[a] > 1 THEN timer[a] - 1 ELSE timer[a]]
        /\ UNCHANGED <<task, last, failed, served, tokens, cache>>
    BY <1>14 DEF Oidc!Tick
  <2> HIDE DEF Oidc!Step
  <2>2. \A a \in Oidc!Auth : left[a] \in Nat /\ timer[a] \in Nat
    OBVIOUS
  <2>3. left' \in [Oidc!Auth -> Nat] /\ timer' \in [Oidc!Auth -> Nat]
    BY <2>1, <2>2
  <2>4. \A a \in Oidc!Auth :
           /\ left'[a] > 0 => left[a] > 0 /\ left'[a] = left[a] - 1
           /\ timer[a] > 1 => timer'[a] = timer[a] - 1
    BY <2>1, <2>2
  <2>5. \A a \in Oidc!Auth :
          task'[a] \in {"loop", "query"} /\ left'[a] > 0 =>
            timer'[a] > left'[a] /\ (a \in cache' \/ tokens'[a] > 0)
    BY <2>1, <2>2, <2>4
  <2> QED
    BY <2>1, <2>3, <2>5
<1>15. CASE UNCHANGED Oidc!vars
  BY <1>15 DEF Oidc!vars
<1> QED
  BY <1>1, <1>2, <1>3, <1>4, <1>5, <1>6, <1>7, <1>8, <1>9, <1>10, <1>11, <1>12, <1>13,
     <1>14, <1>15 DEF Oidc!Next, Oidc!Work

\* ExpiredAfterToken: the client is told that its state expired only after a token was made
\* for it, as QUERY_TIMEOUT_SECS is no longer than the time SetOauthCache gives a state;
\* also when answers get lost.
THEOREM ExpiryAfterToken ==
  ASSUME \A c, d \in Caller : c = d, QueryTimeout <= CacheTimeout,
         Oidc!OidcLoginAssumption
  PROVE  Oidc!Spec => []Oidc!ExpiredAfterToken
<1>1. Oidc!Init => LastInv /\ ExpiryInv
  <2> SUFFICES ASSUME Oidc!Init PROVE ExpiryInv
    BY LastInit
  <2>1. /\ left \in [Oidc!Auth -> Nat] /\ timer \in [Oidc!Auth -> Nat]
        /\ \A a \in Oidc!Auth : left[a] = 0
    BY DEF Oidc!Init
  <2>2. served \in [Oidc!Auth -> Nat] /\ tokens = served /\ failed # "expired"
    BY DEF Oidc!Init
  <2> QED
    BY <2>1, <2>2 DEF ExpiryInv
<1>2. LastInv /\ ExpiryInv /\ [Oidc!Next]_Oidc!vars => (LastInv /\ ExpiryInv)'
  BY LastStep, ExpiryStep
<1>3. ExpiryInv => Oidc!ExpiredAfterToken
  BY DEF ExpiryInv, Oidc!ExpiredAfterToken
<1> QED
  BY <1>1, <1>2, <1>3, PTL DEF Oidc!Spec

-----------------------------------------------------------------------------
(* The list of devices.                                                    *)

Machine == [id : Id, name : Name, viewed : BOOLEAN]
Client == [pc : {"idle", "post", "beat"}, due : BOOLEAN, uploaded : BOOLEAN, as : Id,
           name : Name \cup {Devs!Unnamed}, wait : 0..Retry, sent : 0..Beat,
           slot : Slot \cup {0}]
Upload == [pc : {"none", "sent", "read", "answered"}, id : Id, name : Name,
           row : 0..MaxRows, owner : User \cup {NoUser}]
LoginRow == [user : User, id : Id]

\* The uploads on their way are of ids and names the machine had, and a row found is one.
ListTypes ==
  /\ me \in Machine /\ client \in Client /\ upload \in [Slot -> Upload]
  /\ rows \in Seq(Devs!Rows) /\ Len(rows) <= MaxRows
  /\ logins \in Seq(LoginRow)

\* What a lookup answers is a row, the oldest, of that id.
LEMMA OldestIsOne ==
  ASSUME NEW S, S \subseteq Nat, S # {}
  PROVE  Devs!Oldest(S) \in S /\ \A q \in S : Devs!Oldest(S) <= q
BY LeastNat DEF Devs!Oldest

LEMMA RowFound ==
  ASSUME rows \in Seq(Devs!Rows), NEW id
  PROVE  /\ Devs!RowsOf(id) \subseteq DOMAIN rows
         /\ Devs!FindById(id) = 0 <=> Devs!RowsOf(id) = {}
         /\ Devs!FindById(id) # 0 => /\ Devs!FindById(id) \in Devs!RowsOf(id)
                                     /\ Devs!FindById(id) \in DOMAIN rows
<1>1. Devs!RowsOf(id) \subseteq DOMAIN rows /\ DOMAIN rows = 1..Len(rows)
  BY DEF Devs!RowsOf
<1>2. Devs!RowsOf(id) # {} => Devs!Oldest(Devs!RowsOf(id)) \in Devs!RowsOf(id)
  BY <1>1, OldestIsOne
<1> QED
  BY <1>1, <1>2 DEF Devs!FindById

\* One upload, the client, the rows: what a step may make of them.
LEMMA UploadKinds ==
  ASSUME NEW u \in Upload
  PROVE  /\ u.row \in 0..MaxRows /\ u.id \in Id /\ u.name \in Name
         /\ u.owner \in User \cup {NoUser}
         /\ \A p \in {"none", "sent", "read", "answered"} : [u EXCEPT !.pc = p] \in Upload
         /\ \A r \in 0..MaxRows, o \in User \cup {NoUser} :
              [u EXCEPT !.pc = "read", !.row = r, !.owner = o] \in Upload
BY DEF Upload

LEMMA IdleUpload ==
  ASSUME me \in Machine, Devs!DeviceListAssumption
  PROVE  Devs!Idle \in Upload /\ [Devs!Idle EXCEPT !.pc = "sent"] \in Upload
<1>1. 0 \in 0..MaxRows /\ me.id \in Id /\ me.name \in Name
  BY DEF Machine, Devs!DeviceListAssumption
<1> QED
  BY <1>1 DEF Upload, Devs!Idle

\* The client after its heartbeat, due or not.
LEMMA ClientSteps ==
  ASSUME NEW c \in Client, Devs!DeviceListAssumption
  PROVE  /\ Devs!HeartbeatOrNot(c) \in Client
         /\ Devs!HeartbeatOrNot(c).pc \in {"idle", "beat"}
         /\ \A p \in {"idle", "post", "beat"} : [c EXCEPT !.pc = p] \in Client
<1>1. 0 \in 0..Beat
  BY DEF Devs!DeviceListAssumption
<1>2. \A p \in {"idle", "post", "beat"} : [c EXCEPT !.pc = p] \in Client
  BY DEF Client
<1>3. [c EXCEPT !.pc = "beat", !.sent = 0] \in Client
  BY <1>1 DEF Client
<1> QED
  BY <1>2, <1>3 DEF Devs!HeartbeatOrNot, Client

LEMMA FreshClient ==
  ASSUME me \in Machine, Devs!DeviceListAssumption
  PROVE  Devs!Fresh \in Client
<1>1. 0 \in 0..Retry /\ Beat \in 0..Beat /\ me.id \in Id
  BY DEF Machine, Devs!DeviceListAssumption
<1> QED
  BY <1>1 DEF Client, Devs!Fresh

LEMMA GreatestUpTo ==
  ASSUME NEW n \in Nat, NEW S, S \subseteq 1..n, S # {}
  PROVE  \E m \in S : \A k \in S : k <= m
<1> DEFINE T == {n - k : k \in S}
<1>1. \A k \in S : k \in Int /\ n - k \in Nat
  OBVIOUS
<1>2. T \subseteq Nat /\ T # {}
  BY <1>1
<1>3. PICK t \in T : \A u \in T : t <= u
  BY <1>2, LeastNat
<1>4. PICK m \in S : t = n - m
  BY <1>3
<1>5. \A k \in S : n - m <= n - k
  BY <1>3, <1>4
<1> QED
  BY <1>1, <1>5

LEMMA LoginsAre ==
  ASSUME logins \in Seq(LoginRow)
  PROVE  \A l \in DOMAIN logins : logins[l].user \in User /\ logins[l].id \in Id
<1>1. \A l \in 1..Len(logins) : logins[l] \in LoginRow
  OBVIOUS
<1>2. DOMAIN logins = 1..Len(logins)
  OBVIOUS
<1>3. \A l \in LoginRow : l.user \in User /\ l.id \in Id
  BY DEF LoginRow
<1> QED
  BY <1>1, <1>2, <1>3

\* Who logged in last is a user, or nobody before any login of that id.
LEMMA LatestIsUser ==
  ASSUME logins \in Seq(LoginRow), NEW id
  PROVE  Devs!FindLatestUserIdFromLoginLogByUuid(id) \in User \cup {NoUser}
<1> DEFINE ls == {l \in DOMAIN logins : logins[l].id = id}
<1>1. ls \subseteq 1..Len(logins) /\ Len(logins) \in Nat
  OBVIOUS
<1>2. CASE ls # {}
  <2>1. (CHOOSE l \in ls : \A k \in ls : k <= l) \in DOMAIN logins
    BY <1>1, <1>2, GreatestUpTo
  <2> HIDE DEF ls
  <2>2. \A l \in DOMAIN logins : logins[l].user \in User
    BY LoginsAre
  <2> QED
    BY <1>2, <2>1, <2>2 DEF Devs!FindLatestUserIdFromLoginLogByUuid, ls
<1>3. CASE ls = {}
  BY <1>3 DEF Devs!FindLatestUserIdFromLoginLogByUuid
<1> QED
  BY <1>2, <1>3

\* A row written into the table.
LEMMA RowKinds ==
  ASSUME NEW r \in Devs!Rows, Devs!DeviceListAssumption
  PROVE  /\ r.there \in BOOLEAN /\ r.id \in Id /\ r.owner \in User \cup {NoUser}
         /\ r.age \in Nat
         /\ \A o \in User \cup {NoUser} : [r EXCEPT !.owner = o] \in Devs!Rows
         /\ \A n \in Name, o \in User \cup {NoUser} :
              [r EXCEPT !.name = n, !.owner = o] \in Devs!Rows
         /\ [r EXCEPT !.there = FALSE] \in Devs!Rows
         /\ [r EXCEPT !.seen = TRUE, !.age = 0] \in Devs!Rows
         /\ [r EXCEPT !.age = Devs!Older(@)] \in Devs!Rows
<1>1. Devs!Longest \in Nat /\ 0 \in 0..Devs!Longest
  BY DEF Devs!DeviceListAssumption, Devs!Longest
<1>2. \A n \in 0..Devs!Longest : Devs!Older(n) \in 0..Devs!Longest
  BY <1>1 DEF Devs!Older
<1>3. r.age \in 0..Devs!Longest /\ Devs!Older(r.age) \in 0..Devs!Longest /\ r.age \in Nat
  BY <1>1, <1>2 DEF Devs!Rows
<1>4. \A o \in User \cup {NoUser} : [r EXCEPT !.owner = o] \in Devs!Rows
  BY DEF Devs!Rows
<1>5. \A n \in Name, o \in User \cup {NoUser} :
        [r EXCEPT !.name = n, !.owner = o] \in Devs!Rows
  BY DEF Devs!Rows
<1>6. [r EXCEPT !.there = FALSE] \in Devs!Rows
  BY DEF Devs!Rows
<1>7. [r EXCEPT !.seen = TRUE, !.age = 0] \in Devs!Rows
  BY <1>1 DEF Devs!Rows
<1>8. [r EXCEPT !.age = Devs!Older(@)] \in Devs!Rows
  BY <1>3 DEF Devs!Rows
<1>9. r.there \in BOOLEAN /\ r.id \in Id /\ r.owner \in User \cup {NoUser}
  BY DEF Devs!Rows
<1> QED
  BY <1>3, <1>4, <1>5, <1>6, <1>7, <1>8, <1>9

\* A table changed in one row, or in each, or longer by one.
LEMMA TableKinds ==
  ASSUME rows \in Seq(Devs!Rows)
  PROVE  /\ DOMAIN rows = 1..Len(rows) /\ Len(rows) \in Nat
         /\ \A r \in DOMAIN rows : rows[r] \in Devs!Rows
         /\ \A r \in DOMAIN rows, x \in Devs!Rows :
              /\ [rows EXCEPT ![r] = x] \in Seq(Devs!Rows)
              /\ Len([rows EXCEPT ![r] = x]) = Len(rows)
              /\ [rows EXCEPT ![r] = x][r] = x
              /\ \A q \in DOMAIN rows \ {r} : [rows EXCEPT ![r] = x][q] = rows[q]
         /\ \A x \in Devs!Rows :
              /\ Append(rows, x) \in Seq(Devs!Rows) /\ Len(Append(rows, x)) = Len(rows) + 1
              /\ Append(rows, x)[Len(rows) + 1] = x
              /\ \A q \in DOMAIN rows : Append(rows, x)[q] = rows[q]
OBVIOUS

\* No row comes, changes its id or comes back.
RowsStay ==
  /\ DOMAIN rows' = DOMAIN rows /\ Len(rows') = Len(rows)
  /\ \A r \in DOMAIN rows :
       rows'[r].id = rows[r].id /\ (rows'[r].there => rows[r].there)

LEMMA RowKept ==
  ASSUME ListTypes, Devs!DeviceListAssumption, NEW r \in DOMAIN rows, NEW x \in Devs!Rows,
         x.id = rows[r].id, x.there => rows[r].there, rows' = [rows EXCEPT ![r] = x]
  PROVE  /\ RowsStay /\ rows' \in Seq(Devs!Rows) /\ Len(rows') <= MaxRows
         /\ rows'[r] = x /\ \A q \in DOMAIN rows \ {r} : rows'[q] = rows[q]
BY TableKinds DEF RowsStay, ListTypes

LEMMA RowsChanged ==
  ASSUME ListTypes, Devs!DeviceListAssumption, [Devs!Next]_Devs!vars,
         \A s \in Slot : ~Devs!SysInfoWrites(s)
  PROVE  RowsStay /\ rows' \in Seq(Devs!Rows) /\ Len(rows') <= MaxRows
<1> USE DEF ListTypes
<1>0. /\ DOMAIN rows = 1..Len(rows) /\ Len(rows) \in Nat
      /\ \A r \in DOMAIN rows : rows[r] \in Devs!Rows
  BY TableKinds
<1>1. CASE UNCHANGED rows
  BY <1>1 DEF RowsStay
<1>2. CASE Devs!Heartbeat
  <2> DEFINE r == Devs!FindById(me.id)
  <2>1. CASE UNCHANGED rows
    BY <2>1, <1>1
  <2>2. CASE r # 0 /\ rows' = [rows EXCEPT ![r].seen = TRUE, ![r].age = 0]
    <3>1. r \in DOMAIN rows
      BY <2>2, RowFound
    <3>2. rows' = [rows EXCEPT ![r] = [rows[r] EXCEPT !.seen = TRUE, !.age = 0]]
      BY <2>2, <3>1, <1>0
    <3> HIDE DEF r
    <3> DEFINE x == [rows[r] EXCEPT !.seen = TRUE, !.age = 0]
    <3>3. x \in Devs!Rows /\ x.id = rows[r].id /\ (x.there => rows[r].there)
      <4>1. rows[r] \in Devs!Rows
        BY <3>1, <1>0
      <4>2. x \in Devs!Rows
        BY <4>1, RowKinds
      <4> HIDE DEF r
      <4>3. x.id = rows[r].id /\ (x.there => rows[r].there)
        BY <4>1 DEF Devs!Rows
      <4> QED  BY <4>2, <4>3
    <3> HIDE DEF x
    <3>4. rows' = [rows EXCEPT ![r] = x]
      BY <3>2 DEF x
    <3> HIDE DEF r
    <3> QED  BY ONLY <3>1, <3>3, <3>4, RowKept, ListTypes, Devs!DeviceListAssumption
  <2> QED
    BY <1>2, <2>1, <2>2 DEF Devs!Heartbeat
<1>3. ASSUME NEW u \in User, Devs!UuidBindUserId(u)
      PROVE  RowsStay /\ rows' \in Seq(Devs!Rows) /\ Len(rows') <= MaxRows
  <2> DEFINE r == Devs!FindByUuid
  <2>1. CASE UNCHANGED rows
    BY <2>1, <1>1
  <2>2. CASE r # 0 /\ rows' = [rows EXCEPT ![r].owner = u]
    <3>1. r \in DOMAIN rows
      <4> DEFINE rs == {q \in DOMAIN rows : rows[q].there}
      <4>1. rs \subseteq Nat /\ rs # {} /\ r = Devs!Oldest(rs)
        BY <2>2, <1>0 DEF Devs!FindByUuid
      <4>2. Devs!Oldest(rs) \in rs
        BY <4>1, OldestIsOne
      <4> QED  BY <4>1, <4>2
    <3>2. rows' = [rows EXCEPT ![r] = [rows[r] EXCEPT !.owner = u]]
      BY <2>2, <3>1, <1>0
    <3> DEFINE x == [rows[r] EXCEPT !.owner = u]
    <3>3. x \in Devs!Rows /\ x.id = rows[r].id /\ (x.there => rows[r].there)
      <4>1. rows[r] \in Devs!Rows
        BY <3>1, <1>0
      <4>2. x \in Devs!Rows
        BY <4>1, RowKinds
      <4> HIDE DEF r
      <4>3. x.id = rows[r].id /\ (x.there => rows[r].there)
        BY <4>1 DEF Devs!Rows
      <4> QED  BY <4>2, <4>3
    <3> HIDE DEF x
    <3>4. rows' = [rows EXCEPT ![r] = x]
      BY <3>2 DEF x
    <3> HIDE DEF r
    <3> QED  BY ONLY <3>1, <3>3, <3>4, RowKept, ListTypes, Devs!DeviceListAssumption
  <2> QED
    BY <1>3, <2>1, <2>2 DEF Devs!UuidBindUserId
<1>4. ASSUME NEW u \in User, Devs!UuidUnbindUserId(u)
      PROVE  RowsStay /\ rows' \in Seq(Devs!Rows) /\ Len(rows') <= MaxRows
  <2> DEFINE rs == {r \in DOMAIN rows : rows[r].there /\ rows[r].owner = u}
  <2>1. CASE UNCHANGED rows
    BY <2>1, <1>1
  <2>2. CASE rs # {} /\ rows' = [rows EXCEPT ![Devs!Oldest(rs)].owner = NoUser]
    <3> DEFINE r == Devs!Oldest(rs)
    <3>1. r \in DOMAIN rows
      <4>1. rs \subseteq Nat /\ rs # {}
        BY <2>2, <1>0
      <4>2. Devs!Oldest(rs) \in rs
        BY <4>1, OldestIsOne
      <4> QED  BY <4>2
    <3> HIDE DEF r
    <3>2. rows' = [rows EXCEPT ![r] = [rows[r] EXCEPT !.owner = NoUser]]
      BY <2>2, <3>1, <1>0 DEF r
    <3> DEFINE x == [rows[r] EXCEPT !.owner = NoUser]
    <3>3. x \in Devs!Rows /\ x.id = rows[r].id /\ (x.there => rows[r].there)
      <4>1. rows[r] \in Devs!Rows
        BY <3>1, <1>0
      <4>2. x \in Devs!Rows
        BY <4>1, RowKinds
      <4> HIDE DEF r
      <4>3. x.id = rows[r].id /\ (x.there => rows[r].there)
        BY <4>1 DEF Devs!Rows
      <4> QED  BY <4>2, <4>3
    <3> HIDE DEF x
    <3>4. rows' = [rows EXCEPT ![r] = x]
      BY <3>2 DEF x
    <3> QED  BY ONLY <3>1, <3>3, <3>4, RowKept, ListTypes, Devs!DeviceListAssumption
  <2> QED
    BY <1>4, <2>1, <2>2 DEF Devs!UuidUnbindUserId
<1>5. ASSUME NEW r \in DOMAIN rows, Devs!Delete(r)
      PROVE  RowsStay /\ rows' \in Seq(Devs!Rows) /\ Len(rows') <= MaxRows
  <2>1. rows' = [rows EXCEPT ![r] = [rows[r] EXCEPT !.there = FALSE]]
    BY <1>5, <1>0 DEF Devs!Delete
  <2> DEFINE x == [rows[r] EXCEPT !.there = FALSE]
  <2>2. x \in Devs!Rows /\ x.id = rows[r].id /\ (x.there => rows[r].there)
    BY <1>0, RowKinds DEF Devs!Rows
  <2> HIDE DEF x
  <2>3. rows' = [rows EXCEPT ![r] = x]
    BY <2>1 DEF x
  <2> QED  BY ONLY r \in DOMAIN rows, <2>2, <2>3, RowKept, ListTypes, Devs!DeviceListAssumption
<1>6. ASSUME NEW u \in User, Devs!DeleteUser(u)
      PROVE  RowsStay /\ rows' \in Seq(Devs!Rows) /\ Len(rows') <= MaxRows
  <2> DEFINE x(r) == IF rows[r].owner = u THEN [rows[r] EXCEPT !.owner = NoUser] ELSE rows[r]
  <2>1. \A r \in DOMAIN rows :
          x(r) \in Devs!Rows /\ x(r).id = rows[r].id /\ x(r).there = rows[r].there
    BY <1>0, RowKinds DEF Devs!Rows
  <2>2. rows' = [r \in DOMAIN rows |-> x(r)]
    BY <1>6 DEF Devs!DeleteUser
  <2> HIDE DEF x
  <2> QED  BY <2>1, <2>2, <1>0 DEF RowsStay
<1>7. CASE Devs!Tick
  <2> DEFINE x(r) == [rows[r] EXCEPT !.age = Devs!Older(@)]
  <2>1. \A r \in DOMAIN rows :
          x(r) \in Devs!Rows /\ x(r).id = rows[r].id /\ x(r).there = rows[r].there
    BY <1>0, RowKinds DEF Devs!Rows
  <2>2. rows' = [r \in DOMAIN rows |-> x(r)]
    BY <1>7 DEF Devs!Tick
  <2> HIDE DEF x
  <2> QED  BY <2>1, <2>2, <1>0 DEF RowsStay
<1> QED
  <2>1. \/ UNCHANGED rows \/ Devs!Heartbeat \/ Devs!Tick
        \/ \E u \in User :
             Devs!UuidBindUserId(u) \/ Devs!UuidUnbindUserId(u) \/ Devs!DeleteUser(u)
        \/ \E r \in DOMAIN rows : Devs!Delete(r)
    BY DEF Devs!Next, Devs!vars, Devs!ClientStep, Devs!ServerStep, Devs!UserStep,
           Devs!Wake, Devs!Uploaded, Devs!NotUploaded, Devs!AnswerIsDropped,
           Devs!SysInfoReads, Devs!HeartbeatIsLost, Devs!Restart, Devs!Login, Devs!Logout,
           Devs!Change
  <2> QED
    BY <2>1, <1>1, <1>2, <1>3, <1>4, <1>5, <1>6, <1>7

LEMMA RowWritten ==
  ASSUME ListTypes, Devs!DeviceListAssumption, NEW s \in Slot, Devs!SysInfoWrites(s),
         upload[s].row \in DOMAIN rows \cup {0}
  PROVE  /\ rows' \in Seq(Devs!Rows) /\ Len(rows') <= MaxRows
         /\ \/ /\ upload[s].row = 0 /\ Len(rows') = Len(rows) + 1
               /\ DOMAIN rows' = DOMAIN rows \cup {Len(rows) + 1}
               /\ rows'[Len(rows) + 1] =
                    [there |-> TRUE, id |-> upload[s].id, name |-> upload[s].name,
                     owner |-> upload[s].owner, seen |-> FALSE, age |-> 0]
               /\ \A q \in DOMAIN rows : rows'[q] = rows[q]
            \/ /\ upload[s].row # 0 /\ ~rows[upload[s].row].there /\ rows' = rows
            \/ /\ upload[s].row # 0 /\ rows[upload[s].row].there /\ RowsStay
               /\ rows'[upload[s].row] =
                    [rows[upload[s].row] EXCEPT
                       !.name = upload[s].name,
                       !.owner = IF upload[s].owner = NoUser THEN @ ELSE upload[s].owner]
               /\ \A q \in DOMAIN rows \ {upload[s].row} : rows'[q] = rows[q]
<1> USE DEF ListTypes
<1>0. /\ DOMAIN rows = 1..Len(rows) /\ Len(rows) \in Nat
      /\ \A r \in DOMAIN rows : rows[r] \in Devs!Rows
  BY TableKinds
<1>1. upload[s] \in Upload /\ upload[s].id \in Id /\ upload[s].name \in Name
      /\ upload[s].owner \in User \cup {NoUser}
  BY UploadKinds
<1>2. CASE upload[s].row = 0
  <2> DEFINE x == [there |-> TRUE, id |-> upload[s].id, name |-> upload[s].name,
                   owner |-> upload[s].owner, seen |-> FALSE, age |-> 0]
  <2>1. x \in Devs!Rows
    <3>1. 0 \in 0..Devs!Longest
      BY DEF Devs!Longest, Devs!DeviceListAssumption
    <3> QED  BY <1>1, <3>1 DEF Devs!Rows
  <2>2. rows' = Append(rows, x) /\ Len(rows) < MaxRows
    BY <1>2 DEF Devs!SysInfoWrites
  <2> HIDE DEF x
  <2>3. /\ rows' \in Seq(Devs!Rows) /\ Len(rows') = Len(rows) + 1
        /\ rows'[Len(rows) + 1] = x /\ \A q \in DOMAIN rows : rows'[q] = rows[q]
    BY <2>1, <2>2, TableKinds
  <2>4. DOMAIN rows' = DOMAIN rows \cup {Len(rows) + 1}
    BY <1>0, <2>3
  <2>5. Len(rows') <= MaxRows
    BY <1>0, <2>2, <2>3 DEF Devs!DeviceListAssumption
  <2> QED  BY <1>2, <2>3, <2>4, <2>5 DEF x
<1>3. CASE upload[s].row # 0
  <2> DEFINE r == upload[s].row
             x == [rows[r] EXCEPT !.name = upload[s].name,
                     !.owner = IF upload[s].owner = NoUser THEN @ ELSE upload[s].owner]
  <2>1. CASE ~rows[r].there
    BY <1>3, <2>1 DEF Devs!SysInfoWrites
  <2>2. CASE rows[r].there
    <3>1. r \in DOMAIN rows
      BY <1>3
    <3>2. rows' = [rows EXCEPT ![r] = x]
      BY <1>3, <2>2, <3>1, <1>0 DEF Devs!SysInfoWrites
    <3>3. x \in Devs!Rows /\ x.id = rows[r].id /\ (x.there => rows[r].there)
      <4>1. rows[r] \in Devs!Rows
        BY <3>1, <1>0
      <4> HIDE DEF r
      <4> QED  BY <4>1, <1>1 DEF Devs!Rows
    <3> HIDE DEF x
    <3>4. /\ RowsStay /\ rows' \in Seq(Devs!Rows) /\ Len(rows') <= MaxRows
          /\ rows'[r] = x /\ \A q \in DOMAIN rows \ {r} : rows'[q] = rows[q]
      BY <3>1, <3>2, <3>3, RowKept
    <3> QED  BY <1>3, <2>2, <3>4 DEF x
  <2> QED  BY <2>1, <2>2
<1> QED
  BY <1>2, <1>3

\* The row an upload has found.
FoundRows ==
  \A s \in Slot : upload[s].pc = "read" =>
    /\ upload[s].row \in DOMAIN rows \cup {0}
    /\ upload[s].row # 0 => rows[upload[s].row].id = upload[s].id

\* What an upload becomes: nothing, on its way, read or answered.
UploadKept(s) ==
  \/ upload'[s] = upload[s]
  \/ upload'[s] = Devs!Idle
  \/ upload[s].pc = "none" /\ upload'[s] = [Devs!Idle EXCEPT !.pc = "sent"]
  \/ Devs!SysInfoReads(s)
  \/ Devs!SysInfoWrites(s) /\ upload'[s] = [upload[s] EXCEPT !.pc = "answered"]

LEMMA UploadRead ==
  ASSUME ListTypes, Devs!DeviceListAssumption, NEW s \in Slot, Devs!SysInfoReads(s)
  PROVE  /\ upload[s].pc = "sent" /\ Devs!MayBegin /\ UNCHANGED rows
         /\ upload' \in [Slot -> Upload] /\ \A t \in Slot \ {s} : upload'[t] = upload[t]
         /\ upload'[s].pc = "read" /\ upload'[s].id = upload[s].id
         /\ upload'[s].name = upload[s].name
         /\ upload'[s].row = Devs!FindById(upload[s].id)
         /\ upload'[s].row \in DOMAIN rows \cup {0}
         /\ upload'[s].owner =
              LET latest == Devs!FindLatestUserIdFromLoginLogByUuid(upload[s].id)
              IN IF latest = NoUser /\ upload'[s].row # 0
                 THEN rows[upload'[s].row].owner ELSE latest
<1> DEFINE r == Devs!FindById(upload[s].id)
           latest == Devs!FindLatestUserIdFromLoginLogByUuid(upload[s].id)
           o == IF latest = NoUser /\ r # 0 THEN rows[r].owner ELSE latest
<1>1. r \in DOMAIN rows \cup {0} /\ latest \in User \cup {NoUser}
  BY RowFound, LatestIsUser DEF ListTypes
<1>2. r \in 0..MaxRows
  BY <1>1, TableKinds DEF ListTypes, Devs!DeviceListAssumption
<1>3. o \in User \cup {NoUser}
  <2>1. \A q \in DOMAIN rows : rows[q].owner \in User \cup {NoUser}
    BY TableKinds, RowKinds DEF ListTypes
  <2> HIDE DEF r, latest
  <2> QED  BY <1>1, <2>1
<1>4. /\ upload[s].pc = "sent" /\ Devs!MayBegin /\ UNCHANGED rows
      /\ upload' = [upload EXCEPT ![s].pc = "read", ![s].row = r, ![s].owner = o]
  BY DEF Devs!SysInfoReads
<1> HIDE DEF r, o
<1>5. upload' = [upload EXCEPT ![s] =
                   [upload[s] EXCEPT !.pc = "read", !.row = r, !.owner = o]]
  BY <1>4 DEF ListTypes
<1>6. upload[s] \in Upload /\ [upload[s] EXCEPT !.pc = "read", !.row = r, !.owner = o] \in Upload
  BY <1>2, <1>3, UploadKinds DEF ListTypes
<1> DEFINE u == [upload[s] EXCEPT !.pc = "read", !.row = r, !.owner = o]
<1>7. /\ u.pc = "read" /\ u.id = upload[s].id /\ u.name = upload[s].name
      /\ u.row = r /\ u.owner = o
  BY <1>6 DEF Upload
<1> HIDE DEF u
<1>8. /\ upload' \in [Slot -> Upload] /\ upload'[s] = u
      /\ \A t \in Slot \ {s} : upload'[t] = upload[t]
  BY <1>5, <1>6 DEF ListTypes, u
<1> QED
  BY <1>1, <1>4, <1>7, <1>8 DEF r, o

LEMMA UploadsChanged ==
  ASSUME ListTypes, Devs!DeviceListAssumption, [Devs!Next]_Devs!vars
  PROVE  upload' \in [Slot -> Upload] /\ \A s \in Slot : UploadKept(s)
<1> USE DEF ListTypes, UploadKept
<1>0. Devs!Idle \in Upload /\ [Devs!Idle EXCEPT !.pc = "sent"] \in Upload
  BY IdleUpload
<1>1. CASE UNCHANGED upload
  BY <1>1
<1>2. CASE Devs!Wake
  <2>1. UNCHANGED upload \/ \E s \in Slot :
          /\ upload[s].pc = "none"
          /\ upload' = [upload EXCEPT ![s] = [Devs!Idle EXCEPT !.pc = "sent"]]
    BY <1>2 DEF Devs!Wake
  <2> QED  BY <2>1, <1>0
<1>3. ASSUME NEW s \in Slot, upload' = [upload EXCEPT ![s] = Devs!Idle]
      PROVE  upload' \in [Slot -> Upload] /\ \A t \in Slot : UploadKept(t)
  BY <1>3, <1>0
<1>4. ASSUME NEW s \in Slot, Devs!SysInfoReads(s)
      PROVE  upload' \in [Slot -> Upload] /\ \A t \in Slot : UploadKept(t)
  <2>1. upload' \in [Slot -> Upload] /\ \A t \in Slot \ {s} : upload'[t] = upload[t]
    BY <1>4, UploadRead
  <2> QED  BY <1>4, <2>1
<1>5. ASSUME NEW s \in Slot, Devs!SysInfoWrites(s)
      PROVE  upload' \in [Slot -> Upload] /\ \A t \in Slot : UploadKept(t)
  <2>1. upload' = [upload EXCEPT ![s] = [upload[s] EXCEPT !.pc = "answered"]]
    BY <1>5 DEF Devs!SysInfoWrites
  <2>2. [upload[s] EXCEPT !.pc = "answered"] \in Upload
    BY UploadKinds
  <2> QED  BY <1>5, <2>1, <2>2
<1> QED
  <2>1. \/ UNCHANGED upload \/ Devs!Wake
        \/ \E s \in Slot : \/ upload' = [upload EXCEPT ![s] = Devs!Idle]
                           \/ Devs!SysInfoReads(s) \/ Devs!SysInfoWrites(s)
    BY DEF Devs!Next, Devs!vars, Devs!ClientStep, Devs!ServerStep, Devs!UserStep,
           Devs!Uploaded, Devs!NotUploaded, Devs!AnswerIsDropped, Devs!Heartbeat,
           Devs!HeartbeatIsLost, Devs!Restart, Devs!Login, Devs!Logout, Devs!Change,
           Devs!UuidBindUserId, Devs!UuidUnbindUserId, Devs!Delete, Devs!DeleteUser,
           Devs!Tick
  <2> QED
    BY <2>1, <1>1, <1>2, <1>3, <1>4, <1>5

LEMMA ClientChanged ==
  ASSUME ListTypes, Devs!DeviceListAssumption, [Devs!Next]_Devs!vars
  PROVE  client' \in Client /\ me' \in Machine /\ logins' \in Seq(LoginRow)
<1> USE DEF ListTypes
<1>1. me' \in Machine
  <2>1. CASE Devs!Change
    BY <2>1 DEF Devs!Change, Machine
  <2>2. CASE UNCHANGED me
    BY <2>2
  <2> QED
    BY <2>1, <2>2 DEF Devs!Next, Devs!vars, Devs!ClientStep, Devs!ServerStep, Devs!UserStep,
      Devs!Wake, Devs!Uploaded, Devs!NotUploaded, Devs!AnswerIsDropped, Devs!SysInfoReads,
      Devs!SysInfoWrites, Devs!Heartbeat, Devs!HeartbeatIsLost, Devs!Restart, Devs!Login,
      Devs!Logout, Devs!UuidBindUserId, Devs!UuidUnbindUserId, Devs!Delete,
      Devs!DeleteUser, Devs!Tick
<1>2. logins' \in Seq(LoginRow)
  <2>1. ASSUME NEW u \in User, Devs!Login(u) PROVE logins' \in Seq(LoginRow)
    <3>1. [user |-> u, id |-> me.id] \in LoginRow
      BY DEF Machine, LoginRow
    <3> QED  BY <2>1, <3>1 DEF Devs!Login
  <2>2. CASE UNCHANGED logins
    BY <2>2
  <2> QED
    BY <2>1, <2>2 DEF Devs!Next, Devs!vars, Devs!ClientStep, Devs!ServerStep, Devs!UserStep,
      Devs!Wake, Devs!Uploaded, Devs!NotUploaded, Devs!AnswerIsDropped, Devs!SysInfoReads,
      Devs!SysInfoWrites, Devs!Heartbeat, Devs!HeartbeatIsLost, Devs!Restart, Devs!Change,
      Devs!Logout, Devs!UuidBindUserId, Devs!UuidUnbindUserId, Devs!Delete,
      Devs!DeleteUser, Devs!Tick
<1>3. client' \in Client
  <2>0. /\ client.due \in BOOLEAN /\ client.uploaded \in BOOLEAN /\ client.sent \in 0..Beat
        /\ client.wait \in 0..Retry /\ 0 \in 0..Retry /\ Retry \in 0..Retry
        /\ Beat \in Nat /\ Retry \in Nat /\ me.id \in Id
    BY DEF Client, Machine, Devs!DeviceListAssumption
  <2>1. CASE Devs!Wake
    <3> DEFINE c == [client EXCEPT !.due = FALSE,
                                   !.uploaded = @ /\ client.as = me.id]
    <3>1. c \in Client
      <4>1. (client.uploaded /\ client.as = me.id) \in BOOLEAN
        BY <2>0
      <4> QED  BY <4>1 DEF Client
    <3>2. client' = Devs!HeartbeatOrNot(c)
          \/ \E s \in Slot : client' = [c EXCEPT !.pc = "post", !.slot = s]
      BY <2>1 DEF Devs!Wake
    <3> HIDE DEF c
    <3>3. \A s \in Slot : [c EXCEPT !.pc = "post", !.slot = s] \in Client
      BY <3>1 DEF Client
    <3> QED  BY <3>1, <3>2, <3>3, ClientSteps
  <2>2. ASSUME NEW s \in Slot, Devs!Uploaded(s) PROVE client' \in Client
    <3> DEFINE c == [client EXCEPT !.uploaded = TRUE, !.as = upload[s].id,
                                   !.name = upload[s].name, !.wait = 0, !.slot = 0]
    <3>1. c \in Client
      <4>1. upload[s].id \in Id /\ upload[s].name \in Name
        BY UploadKinds
      <4> QED  BY <2>0, <4>1 DEF Client
    <3>2. client' = Devs!HeartbeatOrNot(c)
      BY <2>2 DEF Devs!Uploaded
    <3> HIDE DEF c
    <3> QED  BY <3>1, <3>2, ClientSteps
  <2>3. ASSUME NEW s \in Slot, Devs!NotUploaded(s) PROVE client' \in Client
    <3> DEFINE c == [client EXCEPT !.wait = Retry, !.slot = 0]
    <3>1. c \in Client
      BY <2>0 DEF Client
    <3>2. client' = Devs!HeartbeatOrNot(c)
      BY <2>3 DEF Devs!NotUploaded
    <3> HIDE DEF c
    <3> QED  BY <3>1, <3>2, ClientSteps
  <2>4. CASE Devs!Restart
    BY <2>4, FreshClient DEF Devs!Restart
  <2>5. CASE Devs!Heartbeat \/ Devs!HeartbeatIsLost
    BY <2>5, ClientSteps DEF Devs!Heartbeat, Devs!HeartbeatIsLost
  <2>6. CASE Devs!Tick
    <3>1. Devs!Sooner(client.wait) \in 0..Retry
      BY <2>0 DEF Devs!Sooner
    <3>2. (IF client.sent < Beat THEN client.sent + 1 ELSE client.sent) \in 0..Beat
      BY <2>0
    <3> QED  BY <2>6, <3>1, <3>2 DEF Devs!Tick, Client
  <2>7. CASE UNCHANGED client
    BY <2>7
  <2> QED
    BY <2>1, <2>2, <2>3, <2>4, <2>5, <2>6, <2>7
       DEF Devs!Next, Devs!vars, Devs!ClientStep, Devs!ServerStep, Devs!UserStep,
      Devs!AnswerIsDropped, Devs!SysInfoReads, Devs!SysInfoWrites, Devs!Login,
      Devs!Change, Devs!Logout, Devs!UuidBindUserId, Devs!UuidUnbindUserId, Devs!Delete,
      Devs!DeleteUser
<1> QED
  BY <1>1, <1>2, <1>3

LEMMA ListTypesKept ==
  ASSUME ListTypes, FoundRows, Devs!DeviceListAssumption, [Devs!Next]_Devs!vars
  PROVE  (ListTypes /\ FoundRows)'
<1>1. rows' \in Seq(Devs!Rows) /\ Len(rows') <= MaxRows
  <2>1. ASSUME NEW s \in Slot, Devs!SysInfoWrites(s)
        PROVE  rows' \in Seq(Devs!Rows) /\ Len(rows') <= MaxRows
    BY <2>1, RowWritten DEF FoundRows, Devs!SysInfoWrites
  <2> QED
    BY <2>1, RowsChanged
<1>2. DOMAIN rows \subseteq DOMAIN rows' /\ \A r \in DOMAIN rows : rows'[r].id = rows[r].id
  <2>1. ASSUME NEW s \in Slot, Devs!SysInfoWrites(s)
        PROVE  DOMAIN rows \subseteq DOMAIN rows' /\ \A r \in DOMAIN rows : rows'[r].id = rows[r].id
    BY <2>1, RowWritten DEF FoundRows, Devs!SysInfoWrites, RowsStay
  <2> QED
    BY <2>1, RowsChanged DEF RowsStay
<1>3. ListTypes'
  BY <1>1, ClientChanged, UploadsChanged DEF ListTypes
<1>4. ASSUME NEW s \in Slot, upload'[s].pc = "read"
      PROVE  /\ upload'[s].row \in DOMAIN rows' \cup {0}
             /\ upload'[s].row # 0 => rows'[upload'[s].row].id = upload'[s].id
  <2>1. CASE upload'[s] = upload[s]
    BY <2>1, <1>2, <1>4 DEF FoundRows
  <2>2. CASE Devs!SysInfoReads(s)
    <3>1. /\ UNCHANGED rows /\ upload'[s].row \in DOMAIN rows \cup {0}
          /\ upload'[s].row = Devs!FindById(upload[s].id) /\ upload'[s].id = upload[s].id
      BY <2>2, UploadRead
    <3>2. upload'[s].row # 0 => rows[upload'[s].row].id = upload[s].id
      BY <3>1, RowFound DEF ListTypes, Devs!RowsOf
    <3> QED  BY <3>1, <3>2
  <2>3. Devs!Idle.pc = "none" /\ [Devs!Idle EXCEPT !.pc = "sent"].pc = "sent"
    BY DEF Devs!Idle
  <2>4. upload[s] \in Upload => [upload[s] EXCEPT !.pc = "answered"].pc = "answered"
    BY DEF Upload
  <2> QED
    BY <1>4, <2>1, <2>2, <2>3, <2>4, UploadsChanged DEF UploadKept, ListTypes
<1> QED
  BY <1>3, <1>4 DEF FoundRows

\* Where nothing gets lost and the client is started once, it waits for its only upload.
Posted ==
  /\ left \in [changes : Int, restarts : {0}, deletes : Int]
  /\ \A s \in Slot : upload[s].pc # "none" => client.pc = "post" /\ client.slot = s

LEMMA PostedKept ==
  ASSUME ListTypes, Posted, ~Fails, Devs!DeviceListAssumption, [Devs!Next]_Devs!vars
  PROVE  Posted'
<1>0. Devs!Idle.pc = "none" /\ [Devs!Idle EXCEPT !.pc = "sent"].pc = "sent"
  BY DEF Devs!Idle
<1>a. /\ ~Devs!Restart /\ ~Devs!HeartbeatIsLost
      /\ \A s \in Slot : ~Devs!NotUploaded(s) /\ ~Devs!AnswerIsDropped(s)
  <2>1. left.restarts = 0
    BY DEF Posted
  <2> QED
    BY <2>1 DEF Posted, Devs!Restart, Devs!HeartbeatIsLost, Devs!NotUploaded,
                Devs!AnswerIsDropped
<1>b. \/ UNCHANGED left \/ Devs!Change
      \/ \E r \in DOMAIN rows : Devs!Delete(r)
      \/ \E u \in User : Devs!DeleteUser(u)
  BY <1>a DEF Devs!Next, Devs!vars, Devs!ClientStep, Devs!ServerStep, Devs!UserStep,
     Devs!Wake, Devs!Uploaded, Devs!SysInfoReads, Devs!SysInfoWrites, Devs!Heartbeat,
     Devs!Login, Devs!Logout, Devs!UuidBindUserId, Devs!UuidUnbindUserId, Devs!Tick
<1>1. left' \in [changes : Int, restarts : {0}, deletes : Int]
  <2>1. \/ left' = left \/ left' = [left EXCEPT !.changes = @ - 1]
        \/ left' = [left EXCEPT !.deletes = @ - 1]
    BY <1>b DEF Devs!Change, Devs!Delete, Devs!DeleteUser
  <2>2. left \in [changes : Int, restarts : {0}, deletes : Int]
    BY DEF Posted
  <2> QED  BY <2>1, <2>2
<1>2. CASE Devs!Wake
  <2> DEFINE c == [client EXCEPT !.due = FALSE,
                                 !.uploaded = @ /\ client.as = me.id]
  <2>1. \A s \in Slot : upload[s].pc = "none"
    BY <1>2 DEF Posted, Devs!Wake
  <2>2. CASE UNCHANGED upload
    BY <1>1, <2>1, <2>2 DEF Posted
  <2>3. ASSUME NEW s \in Slot, upload' = [upload EXCEPT ![s] = [Devs!Idle EXCEPT !.pc = "sent"]],
               client' = [c EXCEPT !.pc = "post", !.slot = s]
        PROVE  Posted'
    <3>1. client'.pc = "post" /\ client'.slot = s
      BY <2>3 DEF ListTypes, Client
    <3>2. \A t \in Slot \ {s} : upload'[t] = upload[t]
      BY <2>3 DEF ListTypes
    <3> QED  BY <1>1, <2>1, <3>1, <3>2 DEF Posted
  <2> QED
    BY <1>2, <2>2, <2>3 DEF Devs!Wake
<1>3. ASSUME NEW s \in Slot, Devs!Uploaded(s) PROVE Posted'
  <2>1. upload'[s] = Devs!Idle /\ \A t \in Slot \ {s} : upload'[t] = upload[t]
    BY <1>3 DEF Devs!Uploaded, ListTypes
  <2>2. \A t \in Slot : upload'[t].pc = "none"
    BY <1>0, <1>3, <2>1 DEF Posted, Devs!Uploaded
  <2> QED  BY <1>1, <2>2 DEF Posted
<1>4. ASSUME NEW s \in Slot, Devs!SysInfoReads(s) \/ Devs!SysInfoWrites(s) PROVE Posted'
  <2>1. UNCHANGED client /\ upload[s].pc # "none"
    BY <1>4 DEF Devs!SysInfoReads, Devs!SysInfoWrites
  <2>2. \A t \in Slot \ {s} : upload'[t] = upload[t]
    BY <1>4 DEF Devs!SysInfoReads, Devs!SysInfoWrites, ListTypes
  <2> QED  BY <1>1, <2>1, <2>2 DEF Posted
<1>5. CASE Devs!Heartbeat \/ Devs!Tick
  <2>1. UNCHANGED upload /\ client.pc # "post"
    BY <1>5 DEF Devs!Heartbeat, Devs!Tick
  <2> QED  BY <1>1, <2>1 DEF Posted
<1>6. CASE UNCHANGED <<client, upload>>
  BY <1>1, <1>6 DEF Posted
<1> QED
  <2>1. \/ Devs!Wake \/ Devs!Heartbeat \/ Devs!Tick \/ UNCHANGED <<client, upload>>
        \/ \E s \in Slot : Devs!Uploaded(s) \/ Devs!SysInfoReads(s) \/ Devs!SysInfoWrites(s)
    BY <1>a DEF Devs!Next, Devs!vars, Devs!ClientStep, Devs!ServerStep, Devs!UserStep,
       Devs!Login, Devs!Logout, Devs!Change, Devs!UuidBindUserId, Devs!UuidUnbindUserId,
       Devs!Delete, Devs!DeleteUser
  <2> QED
    BY <2>1, <1>2, <1>3, <1>4, <1>5, <1>6

\* One upload at a time is between its reads and its answer, and there is one row of an id;
\* none, while an upload that found none is about to create it.
ListedInv ==
  /\ ListTypes /\ FoundRows
  /\ Serial \/ (~Fails /\ Posted)
  /\ \A s, t \in Slot :
       s # t /\ upload[s].pc = "read" => upload[t].pc \in {"none", "sent"}
  /\ \A q, r \in DOMAIN rows :
       rows[q].there /\ rows[r].there /\ rows[q].id = rows[r].id => q = r
  /\ \A s \in Slot : upload[s].pc = "read" /\ upload[s].row = 0 =>
       \A r \in DOMAIN rows : rows[r].there => rows[r].id # upload[s].id

LEMMA ListedStep ==
  ASSUME ListedInv, Devs!DeviceListAssumption, [Devs!Next]_Devs!vars
  PROVE  ListedInv'
<1>0. (ListTypes /\ FoundRows)'
  BY ListTypesKept DEF ListedInv
<1>1. Serial \/ (~Fails /\ Posted')
  BY PostedKept DEF ListedInv
<1>2. \A s \in Slot :
        /\ upload'[s].pc = "read" => upload'[s] = upload[s] \/ Devs!SysInfoReads(s)
        /\ upload'[s].pc = "answered" => upload'[s] = upload[s] \/ Devs!SysInfoWrites(s)
  <2>1. Devs!Idle.pc = "none" /\ [Devs!Idle EXCEPT !.pc = "sent"].pc = "sent"
    BY DEF Devs!Idle
  <2>2. \A u \in Upload : [u EXCEPT !.pc = "answered"].pc = "answered"
    BY DEF Upload
  <2>3. \A s \in Slot : Devs!SysInfoReads(s) => upload'[s].pc = "read"
    BY UploadRead DEF ListedInv
  <2> QED
    BY <2>1, <2>2, <2>3, UploadsChanged DEF UploadKept, ListedInv, ListTypes
<1>3. ASSUME NEW s \in Slot, Devs!SysInfoReads(s)
      PROVE  /\ upload'[s].id = upload[s].id /\ upload'[s].row = Devs!FindById(upload[s].id)
             /\ upload[s].pc = "sent" /\ UNCHANGED rows
             /\ \A t \in Slot \ {s} :
                  upload'[t] = upload[t] /\ upload[t].pc \in {"none", "sent"}
  <2>1. \A t \in Slot : upload[t].pc \in {"none", "sent", "read", "answered"}
    BY DEF ListedInv, ListTypes, Upload
  <2>2. Serial => \A t \in Slot \ {s} : upload[t].pc \in {"none", "sent"}
    BY <1>3, UploadRead DEF Devs!MayBegin, ListedInv
  <2>3. upload[s].pc = "sent"
    BY <1>3, UploadRead DEF ListedInv
  <2>4. Posted => \A t \in Slot \ {s} : upload[t].pc \in {"none", "sent"}
    BY <2>3 DEF Posted
  <2> QED
    BY <1>3, <2>2, <2>4, UploadRead DEF ListedInv
<1>4. ASSUME NEW s \in Slot, NEW t \in Slot, s # t, upload'[s].pc = "read"
      PROVE  upload'[t].pc \in {"none", "sent"}
  <2>0. upload'[t].pc \in {"none", "sent", "read", "answered"}
    BY <1>0 DEF ListTypes, Upload
  <2>1. CASE Devs!SysInfoReads(s)
    BY <1>3, <1>4, <2>1
  <2>2. CASE upload'[s] = upload[s]
    <3>1. upload[s].pc = "read" /\ upload[t].pc \in {"none", "sent"}
      BY <1>4, <2>2 DEF ListedInv
    <3>2. ~Devs!SysInfoReads(t)
      BY <1>3, <1>4, <3>1
    <3>3. ~Devs!SysInfoWrites(t)
      BY <3>1 DEF Devs!SysInfoWrites
    <3> QED  BY <2>0, <3>1, <3>2, <3>3, <1>2
  <2> QED
    BY <1>2, <1>4, <2>1, <2>2
<1>5. CASE \A s \in Slot : ~Devs!SysInfoWrites(s)
  <2>1. RowsStay
    BY <1>5, RowsChanged DEF ListedInv
  <2>2. \A q, r \in DOMAIN rows' :
          rows'[q].there /\ rows'[r].there /\ rows'[q].id = rows'[r].id => q = r
    BY <2>1 DEF ListedInv, RowsStay
  <2>3. ASSUME NEW s \in Slot, upload'[s].pc = "read", upload'[s].row = 0,
               NEW r \in DOMAIN rows', rows'[r].there
        PROVE  rows'[r].id # upload'[s].id
    <3>1. CASE upload'[s] = upload[s]
      BY <2>1, <2>3, <3>1 DEF ListedInv, RowsStay
    <3>2. CASE Devs!SysInfoReads(s)
      <4>1. Devs!RowsOf(upload[s].id) = {} /\ UNCHANGED rows /\ upload'[s].id = upload[s].id
        BY <1>3, <2>3, <3>2, RowFound DEF ListedInv, ListTypes
      <4> QED  BY <2>3, <4>1 DEF Devs!RowsOf
    <3> QED  BY <1>2, <2>3, <3>1, <3>2
  <2> QED
    BY <1>0, <1>1, <1>4, <2>2, <2>3 DEF ListedInv
<1>6. ASSUME NEW s \in Slot, Devs!SysInfoWrites(s) PROVE ListedInv'
  <2>1. upload[s].pc = "read" /\ upload[s].row \in DOMAIN rows \cup {0}
    BY <1>6 DEF Devs!SysInfoWrites, ListedInv, FoundRows
  <2>2. \A t \in Slot : upload'[t].pc # "read"
    <3>1. upload'[s].pc = "answered"
      BY <1>6 DEF Devs!SysInfoWrites, ListedInv, ListTypes, Upload
    <3>2. \A t \in Slot \ {s} : upload'[t] = upload[t]
      BY <1>6 DEF Devs!SysInfoWrites, ListedInv, ListTypes
    <3> QED  BY <2>1, <3>1, <3>2 DEF ListedInv
  <2>3. \A q, r \in DOMAIN rows' :
          rows'[q].there /\ rows'[r].there /\ rows'[q].id = rows'[r].id => q = r
    <3>1. CASE RowsStay \/ rows' = rows
      BY <3>1 DEF ListedInv, RowsStay
    <3>2. CASE /\ upload[s].row = 0
               /\ DOMAIN rows' = DOMAIN rows \cup {Len(rows) + 1}
               /\ rows'[Len(rows) + 1].id = upload[s].id
               /\ \A q \in DOMAIN rows : rows'[q] = rows[q]
      BY <2>1, <3>2 DEF ListedInv
    <3>3. \/ RowsStay \/ rows' = rows
          \/ /\ upload[s].row = 0
             /\ DOMAIN rows' = DOMAIN rows \cup {Len(rows) + 1}
             /\ rows'[Len(rows) + 1] =
                  [there |-> TRUE, id |-> upload[s].id, name |-> upload[s].name,
                   owner |-> upload[s].owner, seen |-> FALSE, age |-> 0]
             /\ \A q \in DOMAIN rows : rows'[q] = rows[q]
      BY <1>6, <2>1, RowWritten DEF ListedInv
    <3> QED
      BY <3>1, <3>2, <3>3
  <2> QED
    BY <1>0, <1>1, <2>2, <2>3 DEF ListedInv
<1> QED
  BY <1>5, <1>6

LEMMA DevSets == \A S : Devs!Cardinality(S) = Cardinality(S)
BY DEF Devs!Cardinality, Cardinality

LEMMA ListedInit ==
  ASSUME Serial \/ (~Fails /\ Restarts = 0), Devs!DeviceListAssumption, Devs!Init
  PROVE  ListedInv
<1>1. me \in Machine /\ rows = <<>> /\ logins = <<>>
  BY DEF Devs!Init, Machine
<1>2. client \in Client
  BY <1>1, FreshClient DEF Devs!Init
<1>3. /\ upload \in [Slot -> Upload] /\ \A s \in Slot : upload[s].pc = "none"
  BY <1>1, IdleUpload DEF Devs!Init, Devs!Idle
<1>4. rows \in Seq(Devs!Rows) /\ Len(rows) <= MaxRows /\ logins \in Seq(LoginRow)
      /\ DOMAIN rows = {}
  BY <1>1 DEF Devs!DeviceListAssumption
<1>5. Restarts = 0 => left \in [changes : Int, restarts : {0}, deletes : Int]
  BY DEF Devs!Init, Devs!DeviceListAssumption
<1> QED
  BY <1>1, <1>2, <1>3, <1>4, <1>5 DEF ListedInv, ListTypes, FoundRows, Posted

\* ListedOnce: a device is in the list once, as SysInfo looks before it creates a row; where
\* requests wait for each other, or nothing gets lost and the client is started once; with
\* any ids, users, restarts and deletions.
THEOREM DevicesListedOnce ==
  ASSUME Serial \/ (~Fails /\ Restarts = 0), Devs!DeviceListAssumption
  PROVE  Devs!Spec => []Devs!ListedOnce
<1>1. Devs!Init => ListedInv
  BY ListedInit
<1>2. ListedInv /\ [Devs!Next]_Devs!vars => ListedInv'
  BY ListedStep
<1>3. ListedInv => Devs!ListedOnce
  <2> SUFFICES ASSUME ListedInv, NEW id \in Id
               PROVE  Cardinality(Devs!RowsOf(id)) <= 1
    BY DevSets DEF Devs!ListedOnce
  <2>1. CASE Devs!RowsOf(id) = {}
    BY <2>1, FS_EmptySet
  <2>2. CASE Devs!RowsOf(id) # {}
    <3>1. PICK r : r \in Devs!RowsOf(id)
      BY <2>2
    <3>2. Devs!RowsOf(id) = {r}
      BY <3>1 DEF ListedInv, Devs!RowsOf
    <3> QED  BY <3>2, FS_Singleton
  <2> QED  BY <2>1, <2>2
<1> QED
  BY <1>1, <1>2, <1>3, PTL DEF Devs!Spec

\* Names, owners, ages and the presence of the rows, which few steps change.
FieldsStay ==
  \A r \in DOMAIN rows :
    /\ rows'[r].name = rows[r].name
    /\ \/ rows'[r].owner \in {rows[r].owner, NoUser}
       \/ \E u \in User : Devs!UuidBindUserId(u)
    /\ rows'[r].age = rows[r].age \/ Devs!Tick \/ Devs!Heartbeat
    /\ rows'[r].there = rows[r].there \/ \E q \in DOMAIN rows : Devs!Delete(q)

LEMMA FieldsChanged ==
  ASSUME ListTypes, Devs!DeviceListAssumption, [Devs!Next]_Devs!vars,
         \A s \in Slot : ~Devs!SysInfoWrites(s)
  PROVE  FieldsStay
<1> USE DEF ListTypes, FieldsStay
<1>0. /\ DOMAIN rows = 1..Len(rows) /\ Len(rows) \in Nat
      /\ \A r \in DOMAIN rows :
           rows[r] \in [there : BOOLEAN, id : Id, name : Name, owner : User \cup {NoUser},
                        seen : BOOLEAN, age : 0..Devs!Longest]
  BY TableKinds DEF Devs!Rows
<1>1. CASE UNCHANGED rows
  BY <1>1
<1>2. CASE Devs!Heartbeat
  <2> DEFINE r == Devs!FindById(me.id)
  <2> HIDE DEF r
  <2>1. UNCHANGED rows \/ rows' = [rows EXCEPT ![r].seen = TRUE, ![r].age = 0]
    BY <1>2 DEF Devs!Heartbeat, r
  <2>2. CASE rows' = [rows EXCEPT ![r].seen = TRUE, ![r].age = 0]
    <3>1. \A q \in DOMAIN rows :
            rows'[q] = IF q = r THEN [rows[q] EXCEPT !.seen = TRUE, !.age = 0] ELSE rows[q]
      BY <2>2, <1>0
    <3> QED  BY <1>0, <1>2, <3>1
  <2> QED  BY <1>1, <2>1, <2>2
<1>3. ASSUME NEW u \in User, Devs!UuidBindUserId(u) PROVE FieldsStay
  <2> DEFINE r == Devs!FindByUuid
  <2> HIDE DEF r
  <2>1. UNCHANGED rows \/ rows' = [rows EXCEPT ![r].owner = u]
    BY <1>3 DEF Devs!UuidBindUserId, r
  <2>2. CASE rows' = [rows EXCEPT ![r].owner = u]
    <3>1. \A q \in DOMAIN rows :
            rows'[q] = IF q = r THEN [rows[q] EXCEPT !.owner = u] ELSE rows[q]
      BY <2>2, <1>0
    <3> QED  BY <1>0, <1>3, <3>1
  <2> QED  BY <1>1, <2>1, <2>2
<1>4. ASSUME NEW u \in User, Devs!UuidUnbindUserId(u) PROVE FieldsStay
  <2> DEFINE r == Devs!Oldest({r \in DOMAIN rows : rows[r].there /\ rows[r].owner = u})
  <2> HIDE DEF r
  <2>1. UNCHANGED rows \/ rows' = [rows EXCEPT ![r].owner = NoUser]
    BY <1>4 DEF Devs!UuidUnbindUserId, r
  <2>2. CASE rows' = [rows EXCEPT ![r].owner = NoUser]
    <3>1. \A q \in DOMAIN rows :
            rows'[q] = IF q = r THEN [rows[q] EXCEPT !.owner = NoUser] ELSE rows[q]
      BY <2>2, <1>0
    <3> QED  BY <1>0, <3>1
  <2> QED  BY <1>1, <2>1, <2>2
<1>5. ASSUME NEW r \in DOMAIN rows, Devs!Delete(r) PROVE FieldsStay
  BY <1>0, <1>5 DEF Devs!Delete
<1>6. ASSUME NEW u \in User, Devs!DeleteUser(u) PROVE FieldsStay
  BY <1>0, <1>6 DEF Devs!DeleteUser
<1>7. CASE Devs!Tick
  <2>1. \A r \in DOMAIN rows : rows'[r] = [rows[r] EXCEPT !.age = Devs!Older(rows[r].age)]
    BY <1>7 DEF Devs!Tick
  <2> QED  BY <1>0, <1>7, <2>1
<1> QED
  <2>1. \/ UNCHANGED rows \/ Devs!Heartbeat \/ Devs!Tick
        \/ \E u \in User :
             Devs!UuidBindUserId(u) \/ Devs!UuidUnbindUserId(u) \/ Devs!DeleteUser(u)
        \/ \E r \in DOMAIN rows : Devs!Delete(r)
    BY DEF Devs!Next, Devs!vars, Devs!ClientStep, Devs!ServerStep, Devs!UserStep,
           Devs!Wake, Devs!Uploaded, Devs!NotUploaded, Devs!AnswerIsDropped,
           Devs!SysInfoReads, Devs!HeartbeatIsLost, Devs!Restart, Devs!Login, Devs!Logout,
           Devs!Change
  <2> QED
    BY <2>1, <1>1, <1>2, <1>3, <1>4, <1>5, <1>6, <1>7

\* The user who logged in last on a machine of one id.
LastUser == IF logins = <<>> THEN NoUser ELSE logins[Len(logins)].user

LEMMA LatestIsLast ==
  ASSUME \A i, j \in Id : i = j, logins \in Seq(LoginRow), NEW id \in Id
  PROVE  Devs!FindLatestUserIdFromLoginLogByUuid(id) = LastUser
<1> DEFINE ls == {l \in DOMAIN logins : logins[l].id = id}
<1>0. DOMAIN logins = 1..Len(logins) /\ Len(logins) \in Nat
  OBVIOUS
<1>1. ls = DOMAIN logins /\ DOMAIN logins = 1..Len(logins) /\ Len(logins) \in Nat
  <2>1. \A l \in DOMAIN logins : logins[l].id = id
    BY LoginsAre
  <2> QED  BY <1>0, <2>1
<1>2. CASE logins = <<>>
  <2>1. DOMAIN logins = {}
    BY <1>2
  <2> QED  BY <1>1, <1>2, <2>1 DEF Devs!FindLatestUserIdFromLoginLogByUuid, LastUser
<1>3. CASE logins # <<>>
  <2>1. Len(logins) \in ls /\ Len(logins) # 0
    BY <1>1, <1>3
  <2>2. (CHOOSE l \in ls : \A k \in ls : k <= l) = Len(logins)
    <3>1. \A k \in ls : k <= Len(logins)
      BY <1>1
    <3>2. \A l \in ls : (\A k \in ls : k <= l) => l = Len(logins)
      BY <1>1, <2>1, <3>1
    <3> HIDE DEF ls
    <3> QED  BY <2>1, <3>1, <3>2
  <2> HIDE DEF ls
  <2> QED
    BY <1>3, <2>1, <2>2 DEF Devs!FindLatestUserIdFromLoginLogByUuid, LastUser, ls
<1> QED
  BY <1>2, <1>3

\* Requests wait for each other: while a login has not bound its row no upload is between its
\* reads and its write, and otherwise rows, and what an upload is about to write, name the
\* user who logged in last, or nobody.
OwnerInv ==
  /\ session \in [User -> {"out", "bind", "in", "unbind", "gone"}]
  /\ \A u \in User : session[u] = "bind" =>
       /\ logins # <<>> /\ u = LastUser
       /\ \A s \in Slot : upload[s].pc # "read"
  /\ \A s \in Slot : upload[s].pc = "read" => upload[s].owner \in {NoUser, LastUser}
  /\ (\A u \in User : session[u] # "bind") =>
       \A r \in DOMAIN rows : rows[r].there => rows[r].owner \in {NoUser, LastUser}

LEMMA OwnerStep ==
  ASSUME Serial, \A i, j \in Id : i = j, ListedInv, ListedInv', OwnerInv,
         Devs!DeviceListAssumption, [Devs!Next]_Devs!vars
  PROVE  OwnerInv'
<1>0. /\ ListTypes /\ FoundRows /\ NoUser \notin User
      /\ \A s \in Slot : upload[s] \in Upload
  BY DEF ListedInv, ListTypes, Devs!DeviceListAssumption
<1>1. session' \in [User -> {"out", "bind", "in", "unbind", "gone"}]
  BY DEF OwnerInv, Devs!Next, Devs!vars, Devs!ClientStep, Devs!ServerStep, Devs!UserStep,
     Devs!Wake, Devs!Uploaded, Devs!NotUploaded, Devs!AnswerIsDropped, Devs!SysInfoReads,
     Devs!SysInfoWrites, Devs!Heartbeat, Devs!HeartbeatIsLost, Devs!Restart, Devs!Login,
     Devs!Logout, Devs!Change, Devs!UuidBindUserId, Devs!UuidUnbindUserId, Devs!Delete,
     Devs!DeleteUser, Devs!Tick
<1>2. ASSUME NEW u \in User, Devs!Login(u) PROVE OwnerInv'
  <2>1. /\ \A s \in Slot : upload[s].pc # "read"
        /\ UNCHANGED <<upload, rows>> /\ session' = [session EXCEPT ![u] = "bind"]
    BY <1>2 DEF Devs!Login, Devs!MayBegin
  <2>2. \A v \in User : session[v] # "bind"
    BY <1>2 DEF Devs!Login, Devs!MayBegin
  <2>3. logins' # <<>> /\ LastUser' = u
    <3> DEFINE x == [user |-> u, id |-> me.id]
    <3>1. x \in LoginRow /\ x.user = u /\ logins \in Seq(LoginRow)
      BY <1>0 DEF LoginRow, ListTypes, Machine
    <3>2. logins' = Append(logins, x)
      BY <1>2 DEF Devs!Login
    <3> HIDE DEF x
    <3>3. Len(logins') = Len(logins) + 1 /\ logins'[Len(logins) + 1] = x /\ Len(logins) \in Nat
      BY <3>1, <3>2
    <3>4. logins' # <<>>
      BY <3>3
    <3> QED  BY <3>1, <3>3, <3>4 DEF LastUser
  <2>4. session'[u] = "bind" /\ \A v \in User \ {u} : session'[v] # "bind"
    BY <2>1, <2>2 DEF OwnerInv
  <2> QED  BY <1>1, <2>1, <2>3, <2>4 DEF OwnerInv
<1>3. CASE \A u \in User : ~Devs!Login(u)
  <2>1. UNCHANGED <<logins, LastUser>>
    BY <1>3 DEF LastUser, Devs!Next, Devs!vars, Devs!ClientStep, Devs!ServerStep,
       Devs!UserStep, Devs!Wake, Devs!Uploaded, Devs!NotUploaded, Devs!AnswerIsDropped,
       Devs!SysInfoReads, Devs!SysInfoWrites, Devs!Heartbeat, Devs!HeartbeatIsLost,
       Devs!Restart, Devs!Logout, Devs!Change, Devs!UuidBindUserId,
       Devs!UuidUnbindUserId, Devs!Delete, Devs!DeleteUser, Devs!Tick
  <2>2. /\ \A u \in User : session'[u] = "bind" => session[u] = "bind"
        /\ \A u \in User : session[u] = "bind" => session'[u] = "bind" \/ Devs!UuidBindUserId(u)
    BY <1>3 DEF OwnerInv, Devs!Next, Devs!vars, Devs!ClientStep, Devs!ServerStep,
       Devs!UserStep, Devs!Wake, Devs!Uploaded, Devs!NotUploaded, Devs!AnswerIsDropped,
       Devs!SysInfoReads, Devs!SysInfoWrites, Devs!Heartbeat, Devs!HeartbeatIsLost,
       Devs!Restart, Devs!Logout, Devs!Change, Devs!UuidBindUserId,
       Devs!UuidUnbindUserId, Devs!Delete, Devs!DeleteUser, Devs!Tick
  <2>3. ASSUME NEW s \in Slot, upload'[s].pc = "read"
        PROVE  /\ upload'[s].owner \in {NoUser, LastUser}
               /\ \A u \in User : session[u] # "bind"
    <3>1. CASE upload'[s] = upload[s]
      BY <2>3, <3>1 DEF OwnerInv
    <3>2. CASE Devs!SysInfoReads(s)
      <4>1. Devs!MayBegin /\ upload'[s].row \in DOMAIN rows \cup {0}
            /\ upload'[s].row = Devs!FindById(upload[s].id) /\ upload[s].id \in Id
            /\ upload'[s].owner =
                 IF LastUser = NoUser /\ upload'[s].row # 0
                 THEN rows[upload'[s].row].owner ELSE LastUser
        BY <1>0, <3>2, UploadRead, LatestIsLast DEF ListTypes, Upload
      <4>2. \A u \in User : session[u] # "bind"
        BY <4>1 DEF Devs!MayBegin
      <4>3. upload'[s].row # 0 => rows[upload'[s].row].there /\ upload'[s].row \in DOMAIN rows
        BY <1>0, <4>1, RowFound DEF ListTypes, Devs!RowsOf
      <4> QED  BY <4>1, <4>2, <4>3 DEF OwnerInv
    <3>3. upload'[s] = upload[s] \/ Devs!SysInfoReads(s)
      <4>1. Devs!Idle.pc = "none" /\ [Devs!Idle EXCEPT !.pc = "sent"].pc = "sent"
        BY DEF Devs!Idle
      <4>2. \A u \in Upload : [u EXCEPT !.pc = "answered"].pc = "answered"
        BY DEF Upload
      <4> QED
        BY <1>0, <2>3, <4>1, <4>2, UploadsChanged DEF UploadKept
    <3> QED  BY <3>1, <3>2, <3>3
  <2>4. ASSUME \A u \in User : session'[u] # "bind", NEW r \in DOMAIN rows', rows'[r].there
        PROVE  rows'[r].owner \in {NoUser, LastUser}
    <3>1. ASSUME NEW s \in Slot, Devs!SysInfoWrites(s)
          PROVE  rows'[r].owner \in {NoUser, LastUser}
      <4>1. upload[s].pc = "read" /\ upload[s].row \in DOMAIN rows \cup {0}
            /\ upload[s].owner \in {NoUser, LastUser}
        BY <1>0, <3>1 DEF Devs!SysInfoWrites, FoundRows, OwnerInv
      <4>2. UNCHANGED session
        BY <3>1 DEF Devs!SysInfoWrites
      <4>3. \A q \in DOMAIN rows : rows[q].there => rows[q].owner \in {NoUser, LastUser}
        BY <2>4, <4>2 DEF OwnerInv
      <4>4. CASE rows' = rows
        BY <2>4, <4>3, <4>4
      <4>5. CASE /\ DOMAIN rows' = DOMAIN rows \cup {Len(rows) + 1}
                 /\ rows'[Len(rows) + 1].owner = upload[s].owner
                 /\ \A q \in DOMAIN rows : rows'[q] = rows[q]
        BY <2>4, <4>1, <4>3, <4>5
      <4>6. CASE /\ rows[upload[s].row].there /\ RowsStay /\ upload[s].row # 0
                 /\ rows'[upload[s].row].owner \in {rows[upload[s].row].owner, upload[s].owner}
                 /\ \A q \in DOMAIN rows \ {upload[s].row} : rows'[q] = rows[q]
        BY <2>4, <4>1, <4>3, <4>6 DEF RowsStay
      <4>7. upload[s].row # 0 => rows[upload[s].row] \in Devs!Rows
        BY <1>0, <4>1, TableKinds DEF ListTypes
      <4>8. \A x \in Devs!Rows : \A n, o :
              [x EXCEPT !.name = n, !.owner = IF o = NoUser THEN @ ELSE o].owner \in {x.owner, o}
        BY DEF Devs!Rows
      <4>9. [there |-> TRUE, id |-> upload[s].id, name |-> upload[s].name,
             owner |-> upload[s].owner, seen |-> FALSE, age |-> 0].owner = upload[s].owner
        OBVIOUS
      <4> DEFINE was == rows[upload[s].row]
      <4>10. \/ /\ DOMAIN rows' = DOMAIN rows \cup {Len(rows) + 1}
                /\ rows'[Len(rows) + 1].owner = upload[s].owner
                /\ \A q \in DOMAIN rows : rows'[q] = rows[q]
             \/ rows' = rows
             \/ /\ upload[s].row # 0 /\ was.there /\ RowsStay
                /\ rows'[upload[s].row] =
                     [was EXCEPT !.name = upload[s].name,
                        !.owner = IF upload[s].owner = NoUser THEN @ ELSE upload[s].owner]
                /\ \A q \in DOMAIN rows \ {upload[s].row} : rows'[q] = rows[q]
        BY <1>0, <3>1, <4>1, <4>9, RowWritten
      <4>11. upload[s].row # 0 =>
               [was EXCEPT !.name = upload[s].name,
                  !.owner = IF upload[s].owner = NoUser THEN @ ELSE upload[s].owner].owner
               \in {was.owner, upload[s].owner}
        BY <4>7, <4>8
      <4> QED
        BY <4>4, <4>5, <4>6, <4>10, <4>11
    <3>2. ASSUME \A s \in Slot : ~Devs!SysInfoWrites(s),
                 \A u \in User : ~Devs!UuidBindUserId(u)
          PROVE  rows'[r].owner \in {NoUser, LastUser}
      <4>1. \A u \in User : session[u] # "bind"
        BY <2>2, <2>4, <3>2
      <4>2. r \in DOMAIN rows /\ rows[r].there /\ rows'[r].owner \in {rows[r].owner, NoUser}
        BY <1>0, <2>4, <3>2, RowsChanged, FieldsChanged DEF RowsStay, FieldsStay
      <4> QED  BY <4>1, <4>2 DEF OwnerInv
    <3>3. ASSUME NEW u \in User, Devs!UuidBindUserId(u)
          PROVE  rows'[r].owner \in {NoUser, LastUser}
      <4>1. u = LastUser
        BY <3>3 DEF OwnerInv, Devs!UuidBindUserId
      <4>2. UNCHANGED upload
        BY <3>3 DEF Devs!UuidBindUserId
      <4>3. \A s \in Slot : ~Devs!SysInfoWrites(s)
        BY <1>0, <4>2 DEF Devs!SysInfoWrites, ListTypes, Upload
      <4>4. r \in DOMAIN rows /\ rows[r].there
        BY <1>0, <2>4, <4>3, RowsChanged DEF RowsStay
      <4> DEFINE rs == {q \in DOMAIN rows : rows[q].there}
      <4>5. rs \subseteq Nat /\ rs # {}
        BY <1>0, <4>4, TableKinds DEF ListTypes
      <4>6. Devs!FindByUuid = Devs!Oldest(rs) /\ Devs!Oldest(rs) \in rs
        BY <4>5, OldestIsOne DEF Devs!FindByUuid
      <4>7. \A q \in DOMAIN rows : rows[q].id \in Id
        BY <1>0, TableKinds, RowKinds DEF ListTypes
      <4>8. r = Devs!FindByUuid
        BY <4>4, <4>6, <4>7 DEF ListedInv
      <4>9. r # 0
        BY <1>0, <4>4, TableKinds DEF ListTypes
      <4>10. rows' = [rows EXCEPT ![r].owner = u]
        BY <3>3, <4>8, <4>9 DEF Devs!UuidBindUserId
      <4>11. rows[r] \in Devs!Rows
        BY <1>0, <4>4, TableKinds DEF ListTypes
      <4>12. rows'[r].owner = u
        BY <4>4, <4>10, <4>11 DEF Devs!Rows
      <4> QED  BY <4>1, <4>12
    <3> QED  BY <3>1, <3>2, <3>3
  <2>5. \A u \in User : session'[u] = "bind" => \A s \in Slot : upload'[s].pc # "read"
    BY <2>2, <2>3
  <2> QED
    BY <1>1, <2>1, <2>2, <2>3, <2>4, <2>5 DEF OwnerInv
<1> QED
  BY <1>2, <1>3

\* OwnerLoggedInLast: once a login has bound its row, a device of one id belongs to the user
\* who logged in last, or to nobody, whichever uploads, logouts, deletions and restarts come
\* between, where requests wait for each other.
THEOREM OwnersLoggedInLast ==
  ASSUME Serial, \A i, j \in Id : i = j, Devs!DeviceListAssumption
  PROVE  Devs!Spec => []Devs!OwnerLoggedInLast
<1>1. Devs!Init => ListedInv /\ OwnerInv
  <2> SUFFICES ASSUME Devs!Init PROVE OwnerInv
    BY ListedInit
  <2>1. /\ session \in [User -> {"out", "bind", "in", "unbind", "gone"}]
        /\ \A u \in User : session[u] = "out"
    BY DEF Devs!Init
  <2>2. DOMAIN rows = {} /\ \A s \in Slot : upload[s].pc = "none"
    BY DEF Devs!Init, Devs!Idle
  <2> QED  BY <2>1, <2>2 DEF OwnerInv
<1>2. ListedInv /\ OwnerInv /\ [Devs!Next]_Devs!vars => (ListedInv /\ OwnerInv)'
  BY ListedStep, OwnerStep
<1>3. ListedInv /\ OwnerInv => Devs!OwnerLoggedInLast
  <2> SUFFICES ASSUME ListedInv, OwnerInv, \A u \in User : session[u] # "bind",
                      NEW r \in DOMAIN rows, rows[r].there
               PROVE  rows[r].owner \in
                        {NoUser, Devs!FindLatestUserIdFromLoginLogByUuid(rows[r].id)}
    BY DEF Devs!OwnerLoggedInLast
  <2>1. rows[r].id \in Id /\ logins \in Seq(LoginRow)
    BY TableKinds, RowKinds DEF ListedInv, ListTypes
  <2> QED  BY <2>1, LatestIsLast DEF OwnerInv
<1> QED
  BY <1>1, <1>2, <1>3, PTL DEF Devs!Spec

\* Nothing gets lost, the client is started once and no row is deleted: what has been
\* answered is in the list, and what the client takes to be uploaded, unless it has an upload
\* on its way.
BelievedInv ==
  /\ Posted /\ left.deletes = 0
  /\ \A r \in DOMAIN rows : rows[r].there
  /\ \A s \in Slot : upload[s].pc = "answered" =>
       \E r \in DOMAIN rows :
         rows[r].id = upload[s].id /\ rows[r].name = upload[s].name
  /\ client.uploaded /\ (\A s \in Slot : upload[s].pc = "none") =>
       \E r \in DOMAIN rows : rows[r].id = client.as /\ rows[r].name = client.name

LEMMA HeartbeatKeeps ==
  ASSUME NEW c \in Client
  PROVE  /\ Devs!HeartbeatOrNot(c).uploaded = c.uploaded
         /\ Devs!HeartbeatOrNot(c).as = c.as /\ Devs!HeartbeatOrNot(c).name = c.name
         /\ Devs!HeartbeatOrNot(c).due = c.due
         /\ \/ /\ Devs!HeartbeatOrNot(c).pc = "idle" /\ c.sent < Beat
               /\ Devs!HeartbeatOrNot(c).sent = c.sent
            \/ Devs!HeartbeatOrNot(c).pc = "beat" /\ Devs!HeartbeatOrNot(c).sent = 0
BY DEF Client, Devs!HeartbeatOrNot

\* The steps that are left where nothing is lost, started again or deleted.
LEMMA SureSteps ==
  ASSUME ListTypes, Posted, left.deletes = 0, ~Fails, Devs!DeviceListAssumption,
         [Devs!Next]_Devs!vars
  PROVE  /\ \/ Devs!Wake \/ Devs!Heartbeat \/ Devs!Tick
            \/ \E s \in Slot : \/ Devs!Uploaded(s) \/ Devs!SysInfoReads(s)
                               \/ Devs!SysInfoWrites(s)
            \/ UNCHANGED <<client, upload>> /\ ~Devs!Tick /\ ~Devs!Heartbeat
         /\ left'.deletes = 0
         /\ \A r \in DOMAIN rows : ~Devs!Delete(r)
<1>1. left \in [changes : Int, restarts : {0}, deletes : Int]
  BY DEF Posted
<1>2. /\ ~Devs!Restart /\ ~Devs!HeartbeatIsLost
      /\ \A s \in Slot : ~Devs!NotUploaded(s) /\ ~Devs!AnswerIsDropped(s)
      /\ \A r \in DOMAIN rows : ~Devs!Delete(r)
      /\ \A u \in User : ~Devs!DeleteUser(u)
  BY <1>1 DEF Posted, Devs!Restart, Devs!HeartbeatIsLost, Devs!NotUploaded,
     Devs!AnswerIsDropped, Devs!Delete, Devs!DeleteUser
<1>3. left' = left \/ left' = [left EXCEPT !.changes = @ - 1]
  BY <1>2 DEF Devs!Next, Devs!vars, Devs!ClientStep, Devs!ServerStep, Devs!UserStep,
     Devs!Wake, Devs!Uploaded, Devs!SysInfoReads, Devs!SysInfoWrites, Devs!Heartbeat,
     Devs!Login, Devs!Logout, Devs!UuidBindUserId, Devs!UuidUnbindUserId, Devs!Tick,
     Devs!Change
<1>4. \/ Devs!Wake \/ Devs!Heartbeat \/ Devs!Tick
      \/ \E s \in Slot : \/ Devs!Uploaded(s) \/ Devs!SysInfoReads(s)
                         \/ Devs!SysInfoWrites(s)
      \/ UNCHANGED <<client, upload>>
  BY <1>2 DEF Devs!Next, Devs!vars, Devs!ClientStep, Devs!ServerStep, Devs!UserStep,
     Devs!Login, Devs!Logout, Devs!UuidBindUserId, Devs!UuidUnbindUserId, Devs!Change
<1> QED
  BY <1>1, <1>2, <1>3, <1>4

LEMMA BelievedStep ==
  ASSUME ListedInv, BelievedInv, ~Fails, Devs!DeviceListAssumption, [Devs!Next]_Devs!vars
  PROVE  BelievedInv'
<1>0. /\ ListTypes /\ FoundRows /\ Posted' /\ left'.deletes = 0
      /\ \A s \in Slot : upload[s] \in Upload
      /\ Devs!Idle.pc = "none" /\ client \in Client
  BY PostedKept, SureSteps DEF ListedInv, BelievedInv, ListTypes, Devs!Idle
<1>1. ASSUME NEW s \in Slot, Devs!SysInfoWrites(s) PROVE BelievedInv'
  <2>1. /\ upload[s].pc = "read" /\ upload[s].row \in DOMAIN rows \cup {0}
        /\ upload[s].row # 0 =>
             rows[upload[s].row].id = upload[s].id /\ rows[upload[s].row].there
    BY <1>0, <1>1 DEF Devs!SysInfoWrites, FoundRows, BelievedInv
  <2>2. /\ \A t \in Slot \ {s} : upload'[t] = upload[t] /\ upload[t].pc = "none"
        /\ upload'[s].pc = "answered" /\ upload'[s].id = upload[s].id
        /\ upload'[s].name = upload[s].name
    <3>1. upload' = [upload EXCEPT ![s] = [upload[s] EXCEPT !.pc = "answered"]]
      BY <1>1 DEF Devs!SysInfoWrites
    <3>2. \A t \in Slot \ {s} : upload[t].pc = "none"
      BY <2>1 DEF BelievedInv, Posted
    <3>3. upload'[s] = [upload[s] EXCEPT !.pc = "answered"]
          /\ \A t \in Slot \ {s} : upload'[t] = upload[t]
      BY <1>0, <3>1 DEF ListTypes
    <3> QED  BY <1>0, <3>2, <3>3 DEF Upload
  <2>3. /\ \A r \in DOMAIN rows' : rows'[r].there
        /\ \E r \in DOMAIN rows' :
             rows'[r].id = upload[s].id /\ rows'[r].name = upload[s].name
    <3> DEFINE was == rows[upload[s].row]
               o == IF upload[s].owner = NoUser THEN was.owner ELSE upload[s].owner
    <3>1. CASE /\ DOMAIN rows' = DOMAIN rows \cup {Len(rows) + 1}
               /\ rows'[Len(rows) + 1] =
                    [there |-> TRUE, id |-> upload[s].id, name |-> upload[s].name,
                     owner |-> upload[s].owner, seen |-> FALSE, age |-> 0]
               /\ \A q \in DOMAIN rows : rows'[q] = rows[q]
      BY <3>1 DEF BelievedInv
    <3>2. CASE /\ upload[s].row # 0 /\ RowsStay
               /\ rows'[upload[s].row] = [was EXCEPT !.name = upload[s].name, !.owner = o]
               /\ \A q \in DOMAIN rows \ {upload[s].row} : rows'[q] = rows[q]
      <4>1. was \in Devs!Rows
        BY <1>0, <2>1, <3>2, TableKinds DEF ListTypes
      <4> HIDE DEF o, was
      <4>2. [was EXCEPT !.name = upload[s].name, !.owner = o].name = upload[s].name
            /\ [was EXCEPT !.name = upload[s].name, !.owner = o].id = was.id
            /\ [was EXCEPT !.name = upload[s].name, !.owner = o].there = was.there
        BY <4>1 DEF Devs!Rows
      <4>3. upload[s].row \in DOMAIN rows /\ DOMAIN rows' = DOMAIN rows
            /\ was.there /\ was.id = upload[s].id
        BY <2>1, <3>2 DEF RowsStay, was
      <4>4. \A q \in DOMAIN rows \ {upload[s].row} : rows'[q].there
        BY <3>2 DEF BelievedInv
      <4> QED  BY <3>2, <4>2, <4>3, <4>4
    <3>3. /\ \/ upload[s].row = 0
             \/ /\ upload[s].row # 0 /\ RowsStay
                /\ rows'[upload[s].row] =
                     [was EXCEPT !.name = upload[s].name,
                        !.owner = IF upload[s].owner = NoUser THEN @ ELSE upload[s].owner]
                /\ \A q \in DOMAIN rows \ {upload[s].row} : rows'[q] = rows[q]
          /\ upload[s].row = 0 =>
               /\ DOMAIN rows' = DOMAIN rows \cup {Len(rows) + 1}
               /\ rows'[Len(rows) + 1] =
                    [there |-> TRUE, id |-> upload[s].id, name |-> upload[s].name,
                     owner |-> upload[s].owner, seen |-> FALSE, age |-> 0]
               /\ \A q \in DOMAIN rows : rows'[q] = rows[q]
      BY <1>0, <1>1, <2>1, RowWritten
    <3> QED  BY <3>1, <3>2, <3>3
  <2> QED  BY <1>0, <2>2, <2>3 DEF BelievedInv
<1>2. CASE \A s \in Slot : ~Devs!SysInfoWrites(s)
  <2>1. /\ DOMAIN rows' = DOMAIN rows
        /\ \A r \in DOMAIN rows :
             rows'[r].id = rows[r].id /\ rows'[r].name = rows[r].name /\ rows'[r].there
    BY <1>0, <1>2, RowsChanged, FieldsChanged, SureSteps
       DEF RowsStay, FieldsStay, BelievedInv
  <2>2. ASSUME NEW s \in Slot, upload'[s].pc = "answered"
        PROVE  upload[s].pc = "answered" /\ upload'[s] = upload[s]
    <3>1. [Devs!Idle EXCEPT !.pc = "sent"].pc = "sent"
      BY DEF Devs!Idle
    <3>2. Devs!SysInfoReads(s) => upload'[s].pc = "read"
      BY <1>0, UploadRead
    <3> QED  BY <1>0, <1>2, <2>2, <3>1, <3>2, UploadsChanged DEF UploadKept
  <2>3. ASSUME client'.uploaded, \A s \in Slot : upload'[s].pc = "none"
        PROVE  \E r \in DOMAIN rows :
                 rows[r].id = client'.as /\ rows[r].name = client'.name
    <3>1. ASSUME NEW s \in Slot, Devs!Uploaded(s)
          PROVE  \E r \in DOMAIN rows :
                   rows[r].id = client'.as /\ rows[r].name = client'.name
      <4> DEFINE c == [client EXCEPT !.uploaded = TRUE, !.as = upload[s].id,
                                     !.name = upload[s].name, !.wait = 0, !.slot = 0]
      <4>1. c \in Client /\ c.as = upload[s].id /\ c.name = upload[s].name
        <5>0. upload[s] \in Upload /\ 0 \in 0..Retry
          BY <1>0 DEF Devs!DeviceListAssumption
        <5>1. upload[s].id \in Id /\ upload[s].name \in Name /\ 0 \in 0..Retry
          BY <5>0, UploadKinds
        <5> QED  BY <1>0, <5>1 DEF Client
      <4>2. client' = Devs!HeartbeatOrNot(c) /\ upload[s].pc = "answered"
        BY <3>1 DEF Devs!Uploaded
      <4> HIDE DEF c
      <4>3. client'.as = upload[s].id /\ client'.name = upload[s].name
        BY <4>1, <4>2, HeartbeatKeeps
      <4> QED  BY <4>2, <4>3 DEF BelievedInv
    <3>2. CASE Devs!Wake
      <4>1. client.pc = "idle" /\ \A s \in Slot : upload[s].pc = "none"
        BY <3>2 DEF Devs!Wake, BelievedInv, Posted
      <4> DEFINE c == [client EXCEPT !.due = FALSE,
                                     !.uploaded = @ /\ client.as = me.id]
      <4>2. c \in Client /\ c.as = client.as /\ c.name = client.name
            /\ (c.uploaded => client.uploaded)
        <5>1. (client.uploaded /\ client.as = me.id) \in BOOLEAN
          OBVIOUS
        <5> QED  BY <1>0, <5>1 DEF Client
      <4>3. client' = Devs!HeartbeatOrNot(c)
            \/ \E s \in Slot : client' = [c EXCEPT !.pc = "post", !.slot = s]
        BY <3>2 DEF Devs!Wake
      <4> HIDE DEF c
      <4>4. /\ client'.as = client.as /\ client'.name = client.name
            /\ client'.uploaded => client.uploaded
        BY <4>2, <4>3, HeartbeatKeeps DEF Client
      <4> QED  BY <2>3, <4>1, <4>4 DEF BelievedInv
    <3>3. CASE Devs!Heartbeat \/ Devs!Tick
      <4>1. /\ UNCHANGED upload
            /\ client'.as = client.as /\ client'.name = client.name
            /\ client'.uploaded = client.uploaded
        BY <1>0, <3>3 DEF Devs!Heartbeat, Devs!Tick, Client
      <4> QED  BY <2>3, <4>1 DEF BelievedInv
    <3>4. \A s \in Slot : Devs!SysInfoReads(s) => upload'[s].pc = "read"
      BY <1>0, UploadRead
    <3>5. CASE UNCHANGED <<client, upload>>
      BY <2>3, <3>5 DEF BelievedInv
    <3> QED
      BY <1>0, <1>2, <2>3, <3>1, <3>2, <3>3, <3>4, <3>5, SureSteps DEF BelievedInv
  <2> QED
    BY <1>0, <2>1, <2>2, <2>3 DEF BelievedInv
<1> QED
  BY <1>1, <1>2

LEMMA BelievedInit ==
  ASSUME ~Fails, Restarts = 0, Deletes = 0, Devs!DeviceListAssumption, Devs!Init
  PROVE  ListedInv /\ BelievedInv
<1>1. rows = <<>> /\ DOMAIN rows = {} /\ \A s \in Slot : upload[s].pc = "none"
  BY DEF Devs!Init, Devs!Idle
<1>2. ~client.uploaded
  BY DEF Devs!Init, Devs!Fresh
<1>3. left \in [changes : Int, restarts : {0}, deletes : Int] /\ left.deletes = 0
  BY DEF Devs!Init, Devs!DeviceListAssumption
<1> QED
  BY <1>1, <1>2, <1>3, ListedInit DEF BelievedInv, Posted

\* BelievedIsListed: a client that takes itself to be uploaded, with nothing on its way, is in
\* the list under its id and the name it uploaded; for any ids, names and users, where nothing
\* gets lost, the client is started once and no row is deleted.
THEOREM BelievedAreListed ==
  ASSUME ~Fails, Restarts = 0, Deletes = 0, Devs!DeviceListAssumption
  PROVE  Devs!Spec => []Devs!BelievedIsListed
<1>1. Devs!Init => ListedInv /\ BelievedInv
  BY BelievedInit
<1>2. ListedInv /\ BelievedInv /\ [Devs!Next]_Devs!vars => (ListedInv /\ BelievedInv)'
  BY ListedStep, BelievedStep
<1>3. ListedInv /\ BelievedInv => Devs!BelievedIsListed
  <2> SUFFICES ASSUME ListedInv, BelievedInv, client.uploaded, client.as = me.id,
                      \A s \in Slot : upload[s].pc = "none"
               PROVE  /\ Devs!FindById(me.id) # 0
                      /\ rows[Devs!FindById(me.id)].name = client.name
    BY DEF Devs!BelievedIsListed
  <2>1. PICK r \in DOMAIN rows : rows[r].id = me.id /\ rows[r].name = client.name
    BY DEF BelievedInv
  <2>2. r \in Devs!RowsOf(me.id) /\ rows \in Seq(Devs!Rows)
    BY <2>1 DEF Devs!RowsOf, BelievedInv, ListedInv, ListTypes
  <2>3. Devs!FindById(me.id) # 0 /\ Devs!FindById(me.id) \in Devs!RowsOf(me.id)
    BY <2>2, RowFound
  <2>4. Devs!FindById(me.id) = r
    BY <2>1, <2>3 DEF Devs!RowsOf, ListedInv, BelievedInv
  <2> QED  BY <2>1, <2>3, <2>4
<1> QED
  BY <1>1, <1>2, <1>3, PTL DEF Devs!Spec

\* How was a row may be: younger than the API's pace after a heartbeat, and older by the
\* ticks since then; a heartbeat is under way before it is a whole interval older.
FreshInv ==
  /\ client.pc = "beat" => client.sent = 0
  /\ DOMAIN rows # {} /\ client.pc = "idle" /\ ~client.due => client.sent < Beat
  /\ \A r \in DOMAIN rows :
       rows[r].age <= Pace - 1 + (IF client.pc = "beat" THEN Beat ELSE client.sent)

LEMMA FreshStep ==
  ASSUME \A i, j \in Id : i = j, ~Fails, ListedInv, BelievedInv, FreshInv,
         Devs!DeviceListAssumption, [Devs!Next]_Devs!vars
  PROVE  FreshInv'
<1>0. /\ ListTypes /\ FoundRows /\ client \in Client /\ me \in Machine
      /\ client.sent \in 0..Beat /\ Beat \in Nat \ {0} /\ Pace \in Nat \ {0}
      /\ \A s \in Slot : upload[s] \in Upload
      /\ \A r \in DOMAIN rows : rows[r] \in Devs!Rows /\ rows[r].age \in Nat
  BY TableKinds, RowKinds DEF ListedInv, ListTypes, Devs!DeviceListAssumption, Client
<1>1. ASSUME NEW s \in Slot, Devs!SysInfoWrites(s) PROVE FreshInv'
  <2>1. /\ upload[s].pc = "read" /\ upload[s].row \in DOMAIN rows \cup {0}
        /\ UNCHANGED client /\ client.pc = "post"
    BY <1>0, <1>1 DEF Devs!SysInfoWrites, FoundRows, BelievedInv, Posted
  <2> DEFINE was == rows[upload[s].row]
             o == IF upload[s].owner = NoUser THEN was.owner ELSE upload[s].owner
  <2>2. CASE /\ DOMAIN rows' = DOMAIN rows \cup {Len(rows) + 1}
             /\ rows'[Len(rows) + 1].age = 0
             /\ \A q \in DOMAIN rows : rows'[q] = rows[q]
    BY <1>0, <2>1, <2>2 DEF FreshInv
  <2>3. CASE /\ upload[s].row # 0 /\ RowsStay
             /\ rows'[upload[s].row] = [was EXCEPT !.name = upload[s].name, !.owner = o]
             /\ \A q \in DOMAIN rows \ {upload[s].row} : rows'[q] = rows[q]
    <3>1. was \in Devs!Rows
      BY <1>0, <2>1, <2>3
    <3> HIDE DEF o, was
    <3>2. [was EXCEPT !.name = upload[s].name, !.owner = o].age = was.age
      BY <3>1 DEF Devs!Rows
    <3>3. \A q \in DOMAIN rows : rows'[q].age = rows[q].age
      BY <2>3, <3>2 DEF was
    <3>4. DOMAIN rows' = DOMAIN rows
      BY <2>3 DEF RowsStay
    <3> QED  BY <1>0, <2>1, <3>3, <3>4 DEF FreshInv
  <2>4. [there |-> TRUE, id |-> upload[s].id, name |-> upload[s].name,
         owner |-> upload[s].owner, seen |-> FALSE, age |-> 0].age = 0
    OBVIOUS
  <2>5. CASE rows' = rows
    BY <2>1, <2>5 DEF FreshInv
  <2>6. \/ /\ DOMAIN rows' = DOMAIN rows \cup {Len(rows) + 1}
           /\ rows'[Len(rows) + 1].age = 0
           /\ \A q \in DOMAIN rows : rows'[q] = rows[q]
        \/ rows' = rows
        \/ /\ upload[s].row # 0 /\ RowsStay
           /\ rows'[upload[s].row] =
                [was EXCEPT !.name = upload[s].name,
                   !.owner = IF upload[s].owner = NoUser THEN @ ELSE upload[s].owner]
           /\ \A q \in DOMAIN rows \ {upload[s].row} : rows'[q] = rows[q]
    BY <1>0, <1>1, <2>1, <2>4, RowWritten
  <2> QED  BY <2>2, <2>3, <2>5, <2>6
<1>2. CASE Devs!Heartbeat
  <2> DEFINE r == Devs!FindById(me.id)
  <2>1. client.pc = "beat" /\ client' = [client EXCEPT !.pc = "idle"]
    BY <1>2 DEF Devs!Heartbeat
  <2>2. client'.pc = "idle" /\ client'.sent = 0
    BY <1>0, <2>1 DEF Client, FreshInv
  <2>3. /\ r \in DOMAIN rows \cup {0}
        /\ \A q \in DOMAIN rows : q = r /\ r # 0
    <3>1. \A q \in DOMAIN rows : q \in Devs!RowsOf(me.id)
      BY <1>0 DEF Devs!RowsOf, BelievedInv, Devs!Rows, Machine
    <3>2. /\ r = 0 <=> Devs!RowsOf(me.id) = {}
          /\ r # 0 => r \in Devs!RowsOf(me.id) /\ r \in DOMAIN rows
      BY <1>0, RowFound DEF ListTypes
    <3>3. \A p, q \in Devs!RowsOf(me.id) : p = q
      BY DEF ListedInv, Devs!RowsOf
    <3> HIDE DEF r
    <3> QED  BY <3>1, <3>2, <3>3
  <2>4. rows' = IF r # 0 /\ (rows[r].seen => rows[r].age >= Pace)
                THEN [rows EXCEPT ![r].seen = TRUE, ![r].age = 0] ELSE rows
    BY <1>2 DEF Devs!Heartbeat
  <2> HIDE DEF r
  <2>5. DOMAIN rows' = DOMAIN rows
    BY <1>0, <2>4
  <2>6. ASSUME NEW q \in DOMAIN rows PROVE rows'[q].age <= Pace - 1
    <3>1. q = r /\ r # 0 /\ rows[r] \in Devs!Rows
      BY <1>0, <2>3, <2>6
    <3>2. CASE rows[r].seen => rows[r].age >= Pace
      <4>1. rows'[r] = [rows[r] EXCEPT !.seen = TRUE, !.age = 0]
        BY <2>4, <3>1, <3>2, <2>6
      <4>2. rows'[r].age = 0
        BY <3>1, <4>1 DEF Devs!Rows
      <4> QED  BY <1>0, <3>1, <4>2
    <3>3. CASE ~(rows[r].seen => rows[r].age >= Pace)
      <4>1. rows' = rows /\ ~(rows[r].age >= Pace) /\ rows[r].age \in Nat
        BY <1>0, <2>4, <2>6, <3>1, <3>3
      <4> QED  BY <1>0, <3>1, <4>1
    <3> QED  BY <3>2, <3>3
  <2> QED  BY <1>0, <2>2, <2>5, <2>6 DEF FreshInv
<1>3. CASE Devs!Tick
  <2>1. /\ client.pc = "idle" /\ ~client.due
        /\ client'.pc = "idle" /\ client'.due
        /\ client'.sent = IF client.sent < Beat THEN client.sent + 1 ELSE client.sent
    BY <1>0, <1>3 DEF Devs!Tick, Client
  <2>2. \A r \in DOMAIN rows : rows'[r] = [rows[r] EXCEPT !.age = Devs!Older(rows[r].age)]
    BY <1>3 DEF Devs!Tick
  <2>3. DOMAIN rows' = DOMAIN rows
    BY <1>3 DEF Devs!Tick
  <2>4. \A r \in DOMAIN rows : rows'[r].age <= rows[r].age + 1
                             /\ rows'[r].age \in Nat
    <3> TAKE r \in DOMAIN rows
    <3>1. rows'[r].age = Devs!Older(rows[r].age)
      BY <1>0, <2>2 DEF Devs!Rows
    <3> QED  BY <1>0, <3>1 DEF Devs!Older
  <2>5. ASSUME NEW r \in DOMAIN rows PROVE rows'[r].age <= Pace - 1 + client'.sent
    <3>1. client.sent < Beat /\ rows[r].age <= Pace - 1 + client.sent
      BY <2>1 DEF FreshInv
    <3> QED  BY <1>0, <2>1, <2>4, <3>1
  <2> QED  BY <2>1, <2>3, <2>5 DEF FreshInv
<1>4. ASSUME NEW c \in Client, client' = Devs!HeartbeatOrNot(c), c.sent = client.sent,
             client.pc # "beat", UNCHANGED rows
      PROVE  FreshInv'
  <2>1. \/ client'.pc = "idle" /\ client.sent < Beat /\ client'.sent = client.sent
        \/ client'.pc = "beat" /\ client'.sent = 0
    BY <1>4, HeartbeatKeeps
  <2>2. \A r \in DOMAIN rows : rows[r].age <= Pace - 1 + client.sent
    BY <1>4 DEF FreshInv
  <2> QED  BY <1>0, <1>4, <2>1, <2>2 DEF FreshInv
<1>5. CASE Devs!Wake
  <2> DEFINE c == [client EXCEPT !.due = FALSE,
                                 !.uploaded = @ /\ client.as = me.id]
  <2>1. c \in Client /\ c.sent = client.sent
    <3>1. (client.uploaded /\ client.as = me.id) \in BOOLEAN
      OBVIOUS
    <3> QED  BY <1>0, <3>1 DEF Client
  <2>2. /\ client.pc = "idle" /\ UNCHANGED rows
        /\ \/ client' = Devs!HeartbeatOrNot(c)
           \/ \E s \in Slot : client' = [c EXCEPT !.pc = "post", !.slot = s]
    BY <1>5 DEF Devs!Wake
  <2> HIDE DEF c
  <2>3. ASSUME NEW s \in Slot, client' = [c EXCEPT !.pc = "post", !.slot = s]
        PROVE  FreshInv'
    <3>1. client'.pc = "post" /\ client'.sent = client.sent
      BY <2>1, <2>3 DEF Client
    <3> QED  BY <2>2, <3>1 DEF FreshInv
  <2> QED  BY <1>4, <2>1, <2>2, <2>3
<1>6. ASSUME NEW s \in Slot, Devs!Uploaded(s) PROVE FreshInv'
  <2> DEFINE c == [client EXCEPT !.uploaded = TRUE, !.as = upload[s].id,
                                 !.name = upload[s].name, !.wait = 0, !.slot = 0]
  <2>1. c \in Client /\ c.sent = client.sent
    <3>0. upload[s] \in Upload /\ 0 \in 0..Retry
      BY <1>0 DEF Devs!DeviceListAssumption
    <3>1. upload[s].id \in Id /\ upload[s].name \in Name /\ 0 \in 0..Retry
      BY <3>0, UploadKinds
    <3> QED  BY <1>0, <3>1 DEF Client
  <2>2. client.pc = "post" /\ UNCHANGED rows /\ client' = Devs!HeartbeatOrNot(c)
    BY <1>6 DEF Devs!Uploaded
  <2> HIDE DEF c
  <2> QED  BY <1>4, <2>1, <2>2
<1>7. CASE /\ UNCHANGED client /\ ~Devs!Tick /\ ~Devs!Heartbeat
           /\ \A s \in Slot : ~Devs!SysInfoWrites(s)
  <2>1. DOMAIN rows' = DOMAIN rows /\ \A r \in DOMAIN rows : rows'[r].age = rows[r].age
    BY <1>0, <1>7, RowsChanged, FieldsChanged DEF RowsStay, FieldsStay
  <2> QED  BY <1>7, <2>1 DEF FreshInv
<1> QED
  <2>1. \A s \in Slot : Devs!SysInfoReads(s) => UNCHANGED client
    BY DEF Devs!SysInfoReads
  <2>2. \/ Devs!Wake \/ Devs!Heartbeat \/ Devs!Tick
        \/ \E s \in Slot : \/ Devs!Uploaded(s) \/ Devs!SysInfoReads(s)
                           \/ Devs!SysInfoWrites(s)
        \/ UNCHANGED client
    BY <1>0, SureSteps DEF BelievedInv
  <2> QED
    BY <2>1, <2>2, <1>1, <1>2, <1>3, <1>5, <1>6, <1>7

\* TimeIsFresh: the time of a running client's row is never older than the API's pace and one
\* heartbeat, though both wait for the other; for any intervals, where the client keeps its
\* id, is started once, nothing gets lost and no row is deleted.
THEOREM TimesAreFresh ==
  ASSUME \A i, j \in Id : i = j, ~Fails, Restarts = 0, Deletes = 0,
         Devs!DeviceListAssumption
  PROVE  Devs!Spec => []Devs!TimeIsFresh
<1>1. Devs!Init => ListedInv /\ BelievedInv /\ FreshInv
  <2> SUFFICES ASSUME Devs!Init PROVE FreshInv
    BY BelievedInit
  <2>1. client.pc = "idle" /\ DOMAIN rows = {}
    BY DEF Devs!Init, Devs!Fresh
  <2> QED  BY <2>1 DEF FreshInv
<1>2. ListedInv /\ BelievedInv /\ FreshInv /\ [Devs!Next]_Devs!vars
      => (ListedInv /\ BelievedInv /\ FreshInv)'
  BY ListedStep, BelievedStep, FreshStep
<1>3. ListedInv /\ BelievedInv /\ FreshInv => Devs!TimeIsFresh
  <2> SUFFICES ASSUME ListedInv, FreshInv, NEW r \in DOMAIN rows
               PROVE  rows[r].age <= Pace + Beat - 1
    BY DEF Devs!TimeIsFresh
  <2>1. rows[r].age \in Nat /\ client.sent \in 0..Beat /\ Beat \in Nat /\ Pace \in Nat
    BY TableKinds, RowKinds DEF ListedInv, ListTypes, Client, Devs!DeviceListAssumption
  <2> QED  BY <2>1 DEF FreshInv
<1> QED
  BY <1>1, <1>2, <1>3, PTL DEF Devs!Spec

-----------------------------------------------------------------------------
(* Passwords tried under a ban.                                            *)

LEMMA LimiterSets ==
  /\ \A S : Limiter!IsFiniteSet(S) <=> IsFiniteSet(S)
  /\ \A S : Limiter!Cardinality(S) = Cardinality(S)
BY DEF Limiter!IsFiniteSet, IsFiniteSet, Limiter!Cardinality, Cardinality

\* The requests let in.
LetIn == {t \in Task : pc[t] # "idle"}

\* Under a ban nobody is let in, and each request let in before has tried its password or
\* may still: together they are fewer than the requests, as the one that banned has ended.
BanInv ==
  /\ pc \in [Task -> {"idle", "check", "captcha", "admin", "client"}]
  /\ now \in Nat /\ banned \in Int /\ under \in Nat
  /\ BanThreshold = 0 => banned = Limiter!None
  /\ Limiter!isBanned => under + Cardinality(LetIn) <= Cardinality(Task) - 1

\* A request that ends is one less let in, and fewer than all are.
LEMMA OneLessIn ==
  ASSUME Limiter!LoginLimiterAssumption, BanInv, NEW t \in Task, pc[t] # "idle",
         pc' = [pc EXCEPT ![t] = "idle"]
  PROVE  /\ Cardinality(LetIn') = Cardinality(LetIn) - 1
         /\ Cardinality(LetIn') <= Cardinality(Task) - 1
         /\ Cardinality(LetIn) \in Nat /\ Cardinality(LetIn') \in Nat
         /\ Cardinality(Task) \in Nat
<1>1. IsFiniteSet(Task)
  BY LimiterSets DEF Limiter!LoginLimiterAssumption
<1>2. LetIn \subseteq Task /\ t \in LetIn /\ LetIn' = LetIn \ {t}
  BY DEF LetIn, BanInv
<1>3. IsFiniteSet(LetIn) /\ Cardinality(LetIn) <= Cardinality(Task)
  BY <1>1, <1>2, FS_Subset
<1>4. Cardinality(LetIn') = Cardinality(LetIn) - 1 /\ IsFiniteSet(LetIn')
  BY <1>2, <1>3, FS_RemoveElement
<1>5. Cardinality(LetIn) \in Nat /\ Cardinality(LetIn') \in Nat /\ Cardinality(Task) \in Nat
  BY <1>1, <1>3, <1>4, FS_CardinalityType
<1> QED
  BY <1>3, <1>4, <1>5

\* A failure bans from now on, or leaves the ban as it is.
LEMMA BanRecorded ==
  ASSUME Limiter!LoginLimiterAssumption, BanInv, Limiter!RecordFailedAttempt
  PROVE  /\ banned' \in Int /\ (BanThreshold = 0 => banned' = Limiter!None)
         /\ banned' # banned => ~Limiter!isBanned
<1>1. /\ BanDuration \in Nat /\ BanThreshold \in Nat
      /\ now + BanDuration \in Nat /\ now \in Nat /\ banned \in Int
  BY DEF Limiter!LoginLimiterAssumption, BanInv
<1>2. \/ UNCHANGED banned
      \/ ~Limiter!isBanned /\ BanThreshold > 0 /\ banned' = now + BanDuration
  BY DEF Limiter!RecordFailedAttempt
<1> QED
  BY <1>1, <1>2 DEF BanInv

LEMMA BanStep ==
  ASSUME Limiter!LoginLimiterAssumption, BanInv, [Limiter!Next]_Limiter!vars
  PROVE  BanInv'
<1>0. pc' \in [Task -> {"idle", "check", "captcha", "admin", "client"}]
  BY DEF BanInv, Limiter!Next, Limiter!vars, Limiter!Arrive, Limiter!Check, Limiter!Verify,
     Limiter!Malformed, Limiter!Fail, Limiter!Succeed, Limiter!RequireCaptcha,
     Limiter!cleanupExpired, Limiter!Tick, Limiter!Goto
<1>1. ASSUME UNCHANGED <<pc, under>>, now' \in {now, now + 1}, banned' \in {banned, Limiter!None}
      PROVE  BanInv'
  BY <1>1 DEF BanInv, LetIn, Limiter!isBanned, Limiter!None
<1>2. ASSUME NEW t \in Task, Limiter!Arrive(t) PROVE BanInv'
  <2>1. UNCHANGED <<now, banned, under>> /\ ~Limiter!isBanned
    BY <1>2 DEF Limiter!Arrive, Limiter!history, Limiter!isDisabled, Limiter!isBanned, BanInv
  <2> QED  BY <1>0, <2>1 DEF BanInv, Limiter!isBanned
<1>3. ASSUME NEW t \in Task, NEW step, pc[t] # "idle", step # "idle",
             pc' = [pc EXCEPT ![t] = step], UNCHANGED <<now, banned, under>>
      PROVE  BanInv'
  <2>1. LetIn' = LetIn
    BY <1>3 DEF LetIn, BanInv
  <2> QED  BY <1>0, <1>3, <2>1 DEF BanInv, Limiter!isBanned
<1>4. ASSUME NEW t \in Task, pc[t] # "idle", pc' = [pc EXCEPT ![t] = "idle"],
             UNCHANGED now, banned' \in Int, BanThreshold = 0 => banned' = Limiter!None,
             \/ banned' # banned /\ under' = 0
             \/ banned' = banned /\ Limiter!isBanned /\ under' \in {under, under + 1}
             \/ banned' = banned /\ ~Limiter!isBanned /\ under' = under
      PROVE  BanInv'
  <2>1. under' \in Nat /\ under \in Nat
    BY <1>4 DEF BanInv
  <2>5. /\ Cardinality(LetIn') = Cardinality(LetIn) - 1
        /\ Cardinality(LetIn') <= Cardinality(Task) - 1
        /\ Cardinality(LetIn) \in Nat /\ Cardinality(LetIn') \in Nat
        /\ Cardinality(Task) \in Nat
    BY <1>4, OneLessIn
  <2>2. CASE banned' # banned /\ under' = 0
    <3>1. under' + Cardinality(LetIn') <= Cardinality(Task) - 1
      BY <2>2, <2>5
    <3> QED  BY <1>0, <1>4, <2>1, <3>1 DEF BanInv
  <2>3. CASE banned' = banned /\ ~Limiter!isBanned /\ under' = under
    BY <1>0, <1>4, <2>3 DEF BanInv, Limiter!isBanned
  <2>4. CASE banned' = banned /\ Limiter!isBanned /\ under' \in {under, under + 1}
    <3>0. under + Cardinality(LetIn) <= Cardinality(Task) - 1
      BY <2>4 DEF BanInv
    <3>1. under' + Cardinality(LetIn') <= Cardinality(Task) - 1
      BY <2>1, <2>4, <2>5, <3>0
    <3> QED  BY <1>0, <1>4, <2>1, <2>4, <3>1 DEF BanInv
  <2> QED  BY <1>4, <2>2, <2>3, <2>4
<1>5. ASSUME NEW t \in Task, Limiter!Check(t) PROVE BanInv'
  BY <1>3, <1>5 DEF Limiter!Check, Limiter!history, Limiter!Goto
<1>6. ASSUME NEW t \in Task, Limiter!Verify(t) PROVE BanInv'
  <2>1. /\ pc[t] = "captcha" /\ UNCHANGED <<now, banned, under>>
        /\ pc' = [pc EXCEPT ![t] = "admin"] \/ pc' = [pc EXCEPT ![t] = "idle"]
    BY <1>6 DEF Limiter!Verify, Limiter!Goto
  <2>2. banned' \in Int /\ (BanThreshold = 0 => banned' = Limiter!None)
    BY <2>1 DEF BanInv
  <2> QED  BY <1>3, <1>4, <2>1, <2>2
<1>7. ASSUME NEW t \in Task, Limiter!Malformed(t) PROVE BanInv'
  <2>1. /\ pc[t] # "idle" /\ UNCHANGED now /\ Limiter!RecordFailedAttempt
        /\ pc' = [pc EXCEPT ![t] = "idle"]
        /\ under' = IF banned' # banned THEN 0 ELSE under
    BY <1>7 DEF Limiter!Malformed, Limiter!Goto, Limiter!Reset
  <2> QED  BY <1>4, <2>1, BanRecorded
<1>8. ASSUME NEW t \in Task, Limiter!Fail(t) PROVE BanInv'
  <2>1. /\ pc[t] # "idle" /\ UNCHANGED now /\ Limiter!RecordFailedAttempt
        /\ pc' = [pc EXCEPT ![t] = "idle"]
        /\ under' = IF banned' # banned THEN 0
                    ELSE IF Limiter!isBanned THEN under + 1 ELSE under
    BY <1>8 DEF Limiter!Fail, Limiter!Goto, Limiter!Reset
  <2> QED  BY <1>4, <2>1, BanRecorded
<1>9. ASSUME NEW t \in Task, Limiter!Succeed(t) PROVE BanInv'
  <2>1. /\ pc[t] # "idle" /\ UNCHANGED <<now, banned>>
        /\ pc' = [pc EXCEPT ![t] = "idle"]
        /\ under' = IF Limiter!isBanned THEN under + 1 ELSE under
    BY <1>9 DEF Limiter!Succeed, Limiter!Goto
  <2>2. banned' \in Int /\ (BanThreshold = 0 => banned' = Limiter!None)
    BY <2>1 DEF BanInv
  <2> QED  BY <1>4, <2>1, <2>2
<1>10. ASSUME NEW c \in Captcha, Limiter!RequireCaptcha(c) PROVE BanInv'
  BY <1>1, <1>10 DEF Limiter!RequireCaptcha
<1>11. CASE Limiter!cleanupExpired
  BY <1>1, <1>11 DEF Limiter!cleanupExpired, Limiter!history
<1>12. CASE Limiter!Tick
  BY <1>1, <1>12 DEF Limiter!Tick, Limiter!history
<1>13. CASE UNCHANGED Limiter!vars
  BY <1>1, <1>13 DEF Limiter!vars, Limiter!history
<1> QED
  BY <1>2, <1>5, <1>6, <1>7, <1>8, <1>9, <1>10, <1>11, <1>12, <1>13 DEF Limiter!Next

\* TriesUnderBanAreBounded: while an address is banned, fewer passwords are tried than there
\* are requests at the same time: RecordFailedAttempt bans under those already let in, and
\* the middleware lets no other in; for any thresholds and durations.
THEOREM TriesUnderBanBounded ==
  ASSUME Limiter!LoginLimiterAssumption
  PROVE  Limiter!Spec => []Limiter!TriesUnderBanAreBounded
<1>1. Limiter!Init => BanInv
  BY DEF Limiter!Init, BanInv, Limiter!isBanned, Limiter!None
<1>2. BanInv /\ [Limiter!Next]_Limiter!vars => BanInv'
  BY BanStep
<1>3. BanInv => Limiter!TriesUnderBanAreBounded
  <2> SUFFICES ASSUME BanInv, Limiter!isBanned PROVE under <= Cardinality(Task) - 1
    BY LimiterSets DEF Limiter!TriesUnderBanAreBounded
  <2>1. IsFiniteSet(Task) /\ LetIn \subseteq Task
    BY LimiterSets DEF Limiter!LoginLimiterAssumption, LetIn
  <2>2. Cardinality(LetIn) \in Nat /\ Cardinality(Task) \in Nat
    BY <2>1, FS_Subset, FS_CardinalityType
  <2> QED  BY <2>2 DEF BanInv
<1> QED
  BY <1>1, <1>2, <1>3, PTL DEF Limiter!Spec

-----------------------------------------------------------------------------
(* Passwords tried without a captcha.                                      *)

\* Times in order, none after n; those after c; and the j-th from the end.
Timeline(s, n) ==
  /\ s \in Seq(Nat)
  /\ \A i \in 1..Len(s) : s[i] <= n
  /\ \A i, j \in 1..Len(s) : i <= j => s[i] <= s[j]
After(s, c) == SubSeq(s, Cardinality({i \in 1..Len(s) : s[i] <= c}) + 1, Len(s))
Back(s, j) == s[Len(s) - j]

LEMMA BackIs ==
  ASSUME NEW n \in Nat, NEW s, Timeline(s, n), NEW j \in 0..Len(s) - 1
  PROVE  Back(s, j) \in Nat /\ Back(s, j) <= n
<1>1. s \in Seq(Nat) /\ \A i \in 1..Len(s) : s[i] <= n
  BY DEF Timeline
<1>2. Len(s) - j \in 1..Len(s)
  BY <1>1
<1>3. s[Len(s) - j] \in Nat /\ s[Len(s) - j] <= n
  BY <1>1, <1>2
<1> QED
  BY <1>3 DEF Back

LEMMA AfterIs ==
  ASSUME NEW n \in Nat, NEW s, Timeline(s, n), NEW c \in Int
  PROVE  \E k \in 0..Len(s) :
           /\ After(s, c) = SubSeq(s, k + 1, Len(s))
           /\ \A i \in 1..k : s[i] <= c
           /\ \A i \in k + 1..Len(s) : s[i] > c
<1> DEFINE S == {k \in 0..Len(s) : \A i \in k + 1..Len(s) : s[i] > c}
<1>1. s \in Seq(Nat) /\ Len(s) \in Nat
  BY DEF Timeline
<1>2. S \subseteq Nat /\ Len(s) \in S
  BY <1>1
<1>3. PICK k \in S : \A m \in S : k <= m
  BY <1>2, LeastNat
<1>4. k \in 0..Len(s) /\ \A i \in k + 1..Len(s) : s[i] > c
  BY <1>3
<1>5. \A i \in 1..k : s[i] <= c
  <2>1. CASE k = 0
    BY <2>1
  <2>2. CASE k # 0
    <3>1. s[k] <= c
      <4>1. SUFFICES ASSUME s[k] > c PROVE FALSE
        BY <1>1, <1>4, <2>2
      <4>2. k - 1 \in S
        BY <1>1, <1>4, <2>2, <4>1
      <4>3. k <= k - 1
        BY <1>3, <4>2
      <4> QED
        BY <1>4, <4>3
    <3> QED
      BY <1>1, <1>4, <2>2, <3>1 DEF Timeline
  <2> QED
    BY <2>1, <2>2
<1>6. {i \in 1..Len(s) : s[i] <= c} = 1..k
  BY <1>1, <1>4, <1>5
<1>7. Cardinality(1..k) = k
  BY <1>4, FS_Interval
<1> QED
  BY <1>4, <1>5, <1>6, <1>7 DEF After

\* The same, seen from the end.
LEMMA AfterFromEnd ==
  ASSUME NEW n \in Nat, NEW s, Timeline(s, n), NEW c \in Int
  PROVE  /\ Timeline(After(s, c), n) /\ Len(After(s, c)) \in Nat /\ Len(After(s, c)) <= Len(s)
         /\ \A j \in 0..Len(After(s, c)) - 1 :
              Back(After(s, c), j) = Back(s, j) /\ Back(s, j) > c
         /\ \A j \in Len(After(s, c))..Len(s) - 1 : Back(s, j) <= c
<1>1. s \in Seq(Nat) /\ Len(s) \in Nat
  BY DEF Timeline
<1>2. PICK k \in 0..Len(s) : /\ After(s, c) = SubSeq(s, k + 1, Len(s))
                             /\ \A i \in 1..k : s[i] <= c
                             /\ \A i \in k + 1..Len(s) : s[i] > c
  BY AfterIs
<1> DEFINE r == SubSeq(s, k + 1, Len(s))
<1>3. /\ r \in Seq(Nat) /\ Len(r) = Len(s) - k
      /\ \A i \in 1..Len(r) : r[i] = s[i + k]
  BY <1>1
<1>4. Timeline(r, n)
  BY <1>1, <1>3 DEF Timeline
<1>5. ASSUME NEW j \in 0..Len(r) - 1 PROVE Back(r, j) = Back(s, j) /\ Back(s, j) > c
  <2>1. Len(r) - j \in 1..Len(r) /\ Len(r) - j + k = Len(s) - j /\ Len(s) - j \in k + 1..Len(s)
    BY <1>1, <1>3
  <2>2. r[Len(r) - j] = s[Len(s) - j] /\ s[Len(s) - j] > c
    BY <1>2, <1>3, <2>1
  <2> HIDE DEF r
  <2> QED
    BY <2>2 DEF Back
<1>6. ASSUME NEW j \in Len(r)..Len(s) - 1 PROVE Back(s, j) <= c
  <2>1. Len(s) - j \in 1..k
    BY <1>1, <1>3
  <2> QED
    BY <1>2, <2>1 DEF Back
<1> HIDE DEF r
<1>7. After(s, c) = r
  BY <1>2 DEF r
<1> QED
  BY <1>1, <1>3, <1>4, <1>5, <1>6, <1>7

LEMMA NoneIsTimeline ==
  ASSUME NEW n \in Nat, NEW c \in Int
  PROVE  Timeline(<<>>, n) /\ After(<<>>, c) = <<>> /\ Len(After(<<>>, c)) = 0
<1>1. Timeline(<<>>, n)
  BY DEF Timeline
<1>2. /\ Len(After(<<>>, c)) \in Nat /\ Len(After(<<>>, c)) <= 0
      /\ Timeline(After(<<>>, c), n)
  BY <1>1, AfterFromEnd
<1>3. After(<<>>, c) = <<>>
  BY <1>2 DEF Timeline
<1> QED
  BY <1>1, <1>3

LEMMA LaterTimeline ==
  ASSUME NEW n \in Nat, NEW m \in Nat, n <= m, NEW s, Timeline(s, n)
  PROVE  Timeline(s, m)
BY DEF Timeline

LEMMA Appended ==
  ASSUME NEW n \in Nat, NEW s, Timeline(s, n)
  PROVE  /\ Timeline(Append(s, n), n) /\ Len(Append(s, n)) = Len(s) + 1
         /\ Back(Append(s, n), 0) = n
         /\ \A j \in 1..Len(s) : Back(Append(s, n), j) = Back(s, j - 1)
BY DEF Timeline, Back

\* What is left of what is left, later.
LEMMA AfterLater ==
  ASSUME NEW n \in Nat, NEW s, Timeline(s, n), NEW c \in Int, NEW d \in Int, c <= d
  PROVE  Len(After(s, d)) <= Len(After(s, c))
<1>1. /\ Len(After(s, c)) \in Nat /\ Len(After(s, d)) \in Nat /\ Len(s) \in Nat
      /\ Len(After(s, d)) <= Len(s)
  BY AfterFromEnd DEF Timeline
<1>2. SUFFICES ASSUME Len(After(s, c)) < Len(After(s, d)) PROVE FALSE
  BY <1>1
<1>3. /\ Len(After(s, c)) \in 0..Len(After(s, d)) - 1
      /\ Len(After(s, c)) \in Len(After(s, c))..Len(s) - 1 /\ Len(After(s, c)) \in 0..Len(s) - 1
  BY <1>1, <1>2
<1>4. Back(s, Len(After(s, c))) > d /\ Back(s, Len(After(s, c))) <= c
  BY <1>3, AfterFromEnd
<1>5. Back(s, Len(After(s, c))) \in Nat
  BY <1>3, BackIs
<1> QED
  BY <1>4, <1>5

\* Every time of f after c has, as far from the end of a, one no earlier.
Covers(a, f, c) ==
  \A j \in 0..Len(f) - 1 : Back(f, j) > c => j < Len(a) /\ Back(f, j) <= Back(a, j)

LEMMA CoversCounts ==
  ASSUME NEW n \in Nat, NEW a, NEW f, Timeline(a, n), Timeline(f, n), NEW c \in Int,
         Covers(a, f, c)
  PROVE  Len(After(f, c)) <= Len(After(a, c))
<1>1. /\ Len(After(a, c)) \in Nat /\ Len(After(f, c)) \in Nat /\ Len(f) \in Nat /\ Len(a) \in Nat
      /\ Len(After(f, c)) <= Len(f)
  <2>1. Len(After(a, c)) \in Nat
    BY AfterFromEnd
  <2>2. Len(After(f, c)) \in Nat /\ Len(After(f, c)) <= Len(f)
    BY AfterFromEnd
  <2> QED
    BY <2>1, <2>2 DEF Timeline
<1>2. SUFFICES ASSUME Len(After(a, c)) < Len(After(f, c)) PROVE FALSE
  BY <1>1
<1> DEFINE j == Len(After(a, c))
<1>3. j \in 0..Len(After(f, c)) - 1 /\ j \in 0..Len(f) - 1
  BY <1>1, <1>2
<1>4. Back(f, j) > c
  BY <1>3, AfterFromEnd
<1>5. j < Len(a) /\ Back(f, j) <= Back(a, j)
  BY <1>3, <1>4 DEF Covers
<1>6. Back(a, j) <= c
  <2>1. j \in Len(After(a, c))..Len(a) - 1
    BY <1>1, <1>5
  <2> QED
    BY <2>1, AfterFromEnd
<1>7. Back(f, j) \in Nat /\ Back(a, j) \in Nat
  BY <1>1, <1>3, <1>5, BackIs
<1> QED
  BY <1>4, <1>5, <1>6, <1>7

LEMMA CoversLater ==
  ASSUME NEW n \in Nat, NEW a, NEW f, Timeline(f, n), NEW c \in Int, NEW d \in Int, c <= d,
         Covers(a, f, c)
  PROVE  Covers(a, f, d)
<1>1. \A j \in 0..Len(f) - 1 : Back(f, j) \in Nat
  BY BackIs
<1> QED
  BY <1>1 DEF Covers

LEMMA CoversWith ==
  ASSUME NEW n \in Nat, NEW a, NEW f, Timeline(a, n), Timeline(f, n), NEW c \in Int,
         Covers(a, f, c)
  PROVE  Covers(After(a, c), f, c)
<1>1. Len(After(a, c)) \in Nat /\ Len(a) \in Nat /\ Len(f) \in Nat
  BY AfterFromEnd DEF Timeline
<1>2. SUFFICES ASSUME NEW j \in 0..Len(f) - 1, Back(f, j) > c
               PROVE  j < Len(After(a, c)) /\ Back(f, j) <= Back(After(a, c), j)
  BY DEF Covers
<1>3. j < Len(a) /\ Back(f, j) <= Back(a, j)
  BY <1>2 DEF Covers
<1>4. Back(f, j) \in Nat /\ Back(a, j) \in Nat
  <2>1. j \in 0..Len(a) - 1
    BY <1>1, <1>2, <1>3
  <2> QED
    BY <1>2, <2>1, BackIs
<1>5. j < Len(After(a, c))
  <2>1. SUFFICES ASSUME ~(j < Len(After(a, c))) PROVE FALSE
    OBVIOUS
  <2>2. j \in Len(After(a, c))..Len(a) - 1
    BY <1>1, <1>2, <1>3, <2>1
  <2>3. Back(a, j) <= c
    BY <2>2, AfterFromEnd
  <2> QED
    BY <1>2, <1>3, <1>4, <2>3
<1>6. Back(After(a, c), j) = Back(a, j)
  <2>1. j \in 0..Len(After(a, c)) - 1
    BY <1>1, <1>2, <1>5
  <2> QED
    BY <2>1, AfterFromEnd
<1> QED
  BY <1>3, <1>5, <1>6

LEMMA CoversLess ==
  ASSUME NEW n \in Nat, NEW a, NEW f, Timeline(f, n), NEW c \in Int, Covers(a, f, c)
  PROVE  Covers(a, After(f, c), c)
<1>1. Len(After(f, c)) \in Nat /\ Len(f) \in Nat /\ Len(After(f, c)) <= Len(f)
  BY AfterFromEnd DEF Timeline
<1>2. ASSUME NEW j \in 0..Len(After(f, c)) - 1
      PROVE  j \in 0..Len(f) - 1 /\ Back(After(f, c), j) = Back(f, j)
  BY <1>1, AfterFromEnd
<1> QED
  BY <1>2 DEF Covers

LEMMA CoversMore ==
  ASSUME NEW n \in Nat, NEW a, NEW f, Timeline(a, n), Timeline(f, n), NEW c \in Int,
         Covers(a, f, c)
  PROVE  Covers(Append(a, n), f, c)
<1>1. Len(a) \in Nat /\ Len(f) \in Nat
  BY DEF Timeline
<1>2. SUFFICES ASSUME NEW j \in 0..Len(f) - 1, Back(f, j) > c
               PROVE  j < Len(Append(a, n)) /\ Back(f, j) <= Back(Append(a, n), j)
  BY DEF Covers
<1>3. j < Len(a) /\ Back(f, j) <= Back(a, j)
  BY <1>2 DEF Covers
<1>4. Back(f, j) \in Nat /\ Back(a, j) \in Nat /\ Back(f, j) <= n
  <2>1. j \in 0..Len(a) - 1
    BY <1>1, <1>2, <1>3
  <2> QED
    BY <1>2, <2>1, BackIs
<1>5. CASE j = 0
  BY <1>1, <1>4, <1>5, Appended
<1>6. CASE j # 0
  <2>1. j \in 1..Len(a) /\ Len(a) - j \in 1..Len(a) /\ Len(a) - (j - 1) \in 1..Len(a)
    BY <1>1, <1>2, <1>3, <1>6
  <2>2. Back(Append(a, n), j) = Back(a, j - 1) /\ Len(Append(a, n)) = Len(a) + 1
    BY <2>1, Appended
  <2>3. Back(a, j) <= Back(a, j - 1) /\ Back(a, j - 1) \in Nat
    <3>1. Len(a) - j <= Len(a) - (j - 1)
      BY <1>1, <2>1
    <3>2. \A x, y \in 1..Len(a) : x <= y => a[x] <= a[y] /\ a[y] \in Nat
      BY DEF Timeline
    <3>3. a[Len(a) - j] <= a[Len(a) - (j - 1)] /\ a[Len(a) - (j - 1)] \in Nat
      BY <2>1, <3>1, <3>2
    <3> QED
      BY <3>3 DEF Back
  <2> QED
    BY <1>1, <1>3, <1>4, <2>1, <2>2, <2>3
<1> QED
  BY <1>5, <1>6

LEMMA CoversBoth ==
  ASSUME NEW n \in Nat, NEW a, NEW f, Timeline(a, n), Timeline(f, n), NEW c \in Int,
         Covers(a, f, c)
  PROVE  Covers(Append(a, n), Append(f, n), c)
<1>1. Len(a) \in Nat /\ Len(f) \in Nat
  BY DEF Timeline
<1>2. SUFFICES ASSUME NEW j \in 0..Len(Append(f, n)) - 1, Back(Append(f, n), j) > c
               PROVE  /\ j < Len(Append(a, n))
                      /\ Back(Append(f, n), j) <= Back(Append(a, n), j)
  BY DEF Covers
<1>3. /\ Len(Append(f, n)) = Len(f) + 1 /\ Len(Append(a, n)) = Len(a) + 1
      /\ Back(Append(f, n), 0) = n /\ Back(Append(a, n), 0) = n
  BY Appended
<1>4. CASE j = 0
  BY <1>1, <1>3, <1>4
<1>5. CASE j # 0
  <2>1. j \in 1..Len(f) /\ j - 1 \in 0..Len(f) - 1
    BY <1>1, <1>2, <1>3, <1>5
  <2>2. Back(Append(f, n), j) = Back(f, j - 1)
    BY <2>1, Appended
  <2>3. j - 1 < Len(a) /\ Back(f, j - 1) <= Back(a, j - 1)
    BY <1>2, <2>1, <2>2 DEF Covers
  <2>4. j \in 1..Len(a)
    BY <1>1, <2>1, <2>3
  <2>5. Back(Append(a, n), j) = Back(a, j - 1)
    BY <2>4, Appended
  <2> QED
    BY <1>1, <1>3, <2>1, <2>2, <2>3, <2>5
<1> QED
  BY <1>4, <1>5

\* The requests told that they need no captcha whose password is still to be looked up.
Untold == {t \in Task : pc[t] \in {"captcha", "admin"} /\ ~needs[t]}

\* The failures without a captcha are among those counted, both are cleared by a ban, and
\* with the requests that may still add to them they stay in the limit.
Cut == now - Window
FreeTimes ==
  /\ Timeline(attempts, now) /\ Timeline(free, now) /\ Covers(attempts, free, Cut)
  /\ Limiter!isBanned => attempts = <<>> /\ free = <<>>
Allowed == (IF CaptchaThreshold > 0 THEN CaptchaThreshold ELSE 0) + Cardinality(Task) - 1
FreeTries == Len(After(free, Cut)) + Cardinality(Untold) <= Allowed

LEMMA RecentIs ==
  ASSUME NEW s, s \in Seq(Nat)
  PROVE  Limiter!Recent(s) = After(s, Cut)
<1>1. {i \in DOMAIN s : s[i] <= now - Window} = {i \in 1..Len(s) : s[i] <= Cut}
  BY DEF Cut
<1> QED
  BY <1>1, LimiterSets DEF Limiter!Recent, After

LEMMA CutIs ==
  ASSUME Limiter!LoginLimiterAssumption, BanInv
  PROVE  Cut \in Int /\ now \in Nat
BY DEF Limiter!LoginLimiterAssumption, BanInv, Cut

\* What a step makes of the times.
LEMMA TimesStay ==
  ASSUME Limiter!LoginLimiterAssumption, BanInv, FreeTimes, UNCHANGED now,
         \/ attempts' \in {attempts, After(attempts, Cut)}
         \/ attempts' = Append(After(attempts, Cut), now),
         free' \in {free, After(free, Cut)}
  PROVE  /\ Timeline(attempts', now) /\ Timeline(free', now) /\ Covers(attempts', free', Cut)
         /\ Len(After(free', Cut)) \in Nat /\ Len(After(free, Cut)) \in Nat
         /\ Len(After(free', Cut)) <= Len(After(free, Cut))
<1>1. Cut \in Int /\ now \in Nat
  BY CutIs
<1> DEFINE a == After(attempts, Cut)
           f == After(free, Cut)
<1>2. Timeline(a, now) /\ Timeline(f, now) /\ Len(f) \in Nat
  BY <1>1, AfterFromEnd DEF FreeTimes
<1>3. Covers(a, free, Cut)
  BY <1>1, CoversWith DEF FreeTimes
<1>4. Timeline(Append(a, now), now) /\ Covers(Append(a, now), free, Cut)
  BY <1>1, <1>2, <1>3, Appended, CoversMore DEF FreeTimes
<1> HIDE DEF a, f
<1>5. Timeline(attempts', now) /\ Covers(attempts', free, Cut)
  BY <1>2, <1>3, <1>4 DEF FreeTimes, a
<1>6. Covers(attempts', f, Cut)
  BY <1>1, <1>5, CoversLess DEF FreeTimes, f
<1>7. Len(After(f, Cut)) \in Nat /\ Len(After(f, Cut)) <= Len(f)
  BY <1>1, <1>2, AfterFromEnd
<1> QED
  BY <1>2, <1>5, <1>6, <1>7 DEF FreeTimes, f

LEMMA TimesGrow ==
  ASSUME Limiter!LoginLimiterAssumption, BanInv, FreeTimes, UNCHANGED now,
         attempts' = Append(After(attempts, Cut), now),
         free' = Append(After(free, Cut), now)
  PROVE  /\ Timeline(attempts', now) /\ Timeline(free', now) /\ Covers(attempts', free', Cut)
         /\ Len(After(free', Cut)) \in Nat /\ Len(After(free, Cut)) \in Nat
         /\ Len(After(free', Cut)) <= Len(After(free, Cut)) + 1
<1>1. Cut \in Int /\ now \in Nat
  BY CutIs
<1> DEFINE a == After(attempts, Cut)
           f == After(free, Cut)
<1>2. Timeline(a, now) /\ Timeline(f, now) /\ Len(f) \in Nat
  BY <1>1, AfterFromEnd DEF FreeTimes
<1>3. Covers(a, f, Cut)
  BY <1>1, <1>2, CoversWith, CoversLess DEF FreeTimes
<1> HIDE DEF a, f
<1>4. Timeline(Append(a, now), now) /\ Timeline(Append(f, now), now)
  BY <1>1, <1>2, Appended
<1>5. Covers(Append(a, now), Append(f, now), Cut)
  BY <1>1, <1>2, <1>3, CoversBoth
<1>6. /\ Len(After(Append(f, now), Cut)) \in Nat
      /\ Len(After(Append(f, now), Cut)) <= Len(f) + 1
  <2>1. Len(Append(f, now)) = Len(f) + 1
    BY <1>1, <1>2, Appended
  <2>2. /\ Len(After(Append(f, now), Cut)) \in Nat
        /\ Len(After(Append(f, now), Cut)) <= Len(Append(f, now))
    BY <1>1, <1>4, AfterFromEnd
  <2> QED
    BY <2>1, <2>2
<1> QED
  BY <1>2, <1>4, <1>5, <1>6 DEF f, a

LEMMA TimesCleared ==
  ASSUME Limiter!LoginLimiterAssumption, BanInv, UNCHANGED now,
         attempts' = <<>>, free' = <<>>
  PROVE  /\ Timeline(attempts', now) /\ Timeline(free', now) /\ Covers(attempts', free', Cut)
         /\ Len(After(free', Cut)) = 0
<1>1. Cut \in Int /\ now \in Nat
  BY CutIs
<1> QED
  BY <1>1, NoneIsTimeline DEF Covers

LEMMA TimesPass ==
  ASSUME Limiter!LoginLimiterAssumption, BanInv, FreeTimes, now' = now + 1,
         UNCHANGED <<attempts, free>>
  PROVE  /\ Timeline(attempts, now') /\ Timeline(free, now') /\ Covers(attempts, free, Cut')
         /\ Len(After(free, Cut')) \in Nat /\ Len(After(free, Cut)) \in Nat
         /\ Len(After(free, Cut')) <= Len(After(free, Cut))
<1>1. Cut \in Int /\ now \in Nat
  BY CutIs
<1>2. now' \in Nat /\ now <= now' /\ Cut' \in Int /\ Cut <= Cut'
  BY <1>1 DEF Cut, Limiter!LoginLimiterAssumption
<1>3. Timeline(attempts, now') /\ Timeline(free, now')
  BY <1>1, <1>2, LaterTimeline DEF FreeTimes
<1>4. Covers(attempts, free, Cut')
  BY <1>1, <1>2, CoversLater DEF FreeTimes
<1>5. Len(After(free, Cut')) <= Len(After(free, Cut))
  BY <1>1, <1>2, AfterLater DEF FreeTimes
<1>6. Len(After(free, Cut')) \in Nat /\ Len(After(free, Cut)) \in Nat
  <2>1. Len(After(free, Cut)) \in Nat
    BY <1>1, AfterFromEnd DEF FreeTimes
  <2>2. Len(After(free, Cut')) \in Nat
    BY <1>2, <1>3, AfterFromEnd
  <2> QED
    BY <2>1, <2>2
<1> QED
  BY <1>3, <1>4, <1>5, <1>6

LEMMA UntoldFinite ==
  ASSUME Limiter!LoginLimiterAssumption, BanInv
  PROVE  /\ Untold \subseteq LetIn /\ LetIn \subseteq Task
         /\ IsFiniteSet(Task) /\ IsFiniteSet(LetIn) /\ IsFiniteSet(Untold)
         /\ Cardinality(Untold) \in Nat /\ Cardinality(LetIn) \in Nat /\ Cardinality(Task) \in Nat
         /\ Cardinality(Untold) <= Cardinality(LetIn)
<1>1. Untold \subseteq LetIn /\ LetIn \subseteq Task
  BY DEF Untold, LetIn
<1>2. IsFiniteSet(Task)
  BY LimiterSets DEF Limiter!LoginLimiterAssumption
<1>3. IsFiniteSet(LetIn)
  BY <1>1, <1>2, FS_Subset
<1>4. IsFiniteSet(Untold) /\ Cardinality(Untold) <= Cardinality(LetIn)
  BY <1>1, <1>3, FS_Subset
<1> QED
  BY <1>1, <1>2, <1>3, <1>4, FS_CardinalityType

LEMMA AllowedIs ==
  ASSUME Limiter!LoginLimiterAssumption, BanInv
  PROVE  Allowed \in Int /\ Allowed >= Cardinality(Task) - 1
BY UntoldFinite DEF Allowed, Limiter!LoginLimiterAssumption

LEMMA FewerUntold ==
  ASSUME Limiter!LoginLimiterAssumption, BanInv, Untold' \subseteq Untold
  PROVE  Cardinality(Untold') \in Nat /\ Cardinality(Untold') <= Cardinality(Untold)
BY UntoldFinite, FS_Subset, FS_CardinalityType

LEMMA OneLessUntold ==
  ASSUME Limiter!LoginLimiterAssumption, BanInv, NEW t \in Untold, Untold' = Untold \ {t}
  PROVE  Cardinality(Untold') = Cardinality(Untold) - 1
BY UntoldFinite, FS_RemoveElement

\* A step that adds no failure.
LEMMA QuietStep ==
  ASSUME Limiter!LoginLimiterAssumption, BanInv, FreeTimes, FreeTries, UNCHANGED now,
         banned' \in {banned, Limiter!None}, Untold' \subseteq Untold,
         \/ attempts' \in {attempts, After(attempts, Cut)} /\ free' = free
         \/ attempts' = <<>> /\ free' = <<>>
  PROVE  FreeTimes' /\ FreeTries'
<1>1. /\ Timeline(attempts', now) /\ Timeline(free', now) /\ Covers(attempts', free', Cut)
      /\ Len(After(free', Cut)) \in Nat
      /\ Len(After(free', Cut)) <= Len(After(free, Cut)) /\ Len(After(free, Cut)) \in Nat
  <2>1. Len(After(free, Cut)) \in Nat
    BY CutIs, AfterFromEnd DEF FreeTimes
  <2>2. CASE attempts' \in {attempts, After(attempts, Cut)} /\ free' = free
    BY <2>2, TimesStay
  <2>3. CASE attempts' = <<>> /\ free' = <<>>
    BY <2>1, <2>3, TimesCleared
  <2> QED
    BY <2>2, <2>3
<1>2. Cut' = Cut
  BY DEF Cut
<1>3. Limiter!isBanned' => Limiter!isBanned
  BY DEF Limiter!isBanned, Limiter!None
<1>4. Limiter!isBanned' => attempts' = <<>> /\ free' = <<>>
  BY <1>3, CutIs, NoneIsTimeline DEF FreeTimes
<1>5. FreeTimes'
  BY <1>1, <1>2, <1>4 DEF FreeTimes
<1>6. Allowed' = Allowed /\ Allowed \in Int
  BY AllowedIs DEF Allowed
<1>7. Cardinality(Untold') \in Nat /\ Cardinality(Untold') <= Cardinality(Untold)
  BY FewerUntold
<1>8. Cardinality(Untold) \in Nat
  BY UntoldFinite
<1>9. Len(After(free', Cut)) + Cardinality(Untold') <= Allowed
  <2>1. Len(After(free, Cut)) + Cardinality(Untold) <= Allowed
    BY DEF FreeTries
  <2> QED
    BY <1>1, <1>6, <1>7, <1>8, <2>1
<1> QED
  BY <1>2, <1>5, <1>6, <1>9 DEF FreeTries

LEMMA Recorded ==
  ASSUME Limiter!LoginLimiterAssumption, ~Limiter!isDisabled, BanInv, FreeTimes,
         Limiter!RecordFailedAttempt
  PROVE  \/ Limiter!Reset /\ attempts' = <<>>
         \/ ~Limiter!Reset /\ Limiter!isBanned /\ attempts' = attempts
         \/ ~Limiter!Reset /\ ~Limiter!isBanned /\ attempts' = Append(After(attempts, Cut), now)
<1>1. Limiter!Recent(attempts) = After(attempts, Cut)
  BY RecentIs DEF FreeTimes, Timeline
<1>2. CASE Limiter!isBanned
  BY <1>2 DEF Limiter!RecordFailedAttempt, Limiter!Reset
<1>3. CASE ~Limiter!isBanned
  <2>1. now + BanDuration # banned
    BY <1>3 DEF Limiter!isBanned, BanInv, Limiter!None, Limiter!LoginLimiterAssumption
  <2> QED
    BY <1>1, <1>3, <2>1 DEF Limiter!RecordFailedAttempt, Limiter!Reset
<1> QED
  BY <1>2, <1>3

\* A step that records a failure and ends its request.
LEMMA FailureStep ==
  ASSUME Limiter!LoginLimiterAssumption, ~Limiter!isDisabled, Task # {}, BanInv, FreeTimes,
         FreeTries, BanInv', UNCHANGED <<now, needs>>, Limiter!RecordFailedAttempt,
         NEW t \in Task, pc' = [pc EXCEPT ![t] = "idle"],
         \/ free' = IF Limiter!Reset THEN <<>>
                    ELSE IF t \in Untold /\ pc[t] = "admin" /\ ~Limiter!isBanned
                      THEN Append(Limiter!Recent(free), now) ELSE Limiter!Recent(free)
         \/ free' = IF Limiter!Reset THEN <<>> ELSE Limiter!Recent(free)
  PROVE  FreeTimes' /\ FreeTries'
<1>0. Limiter!Recent(free) = After(free, Cut)
  BY RecentIs DEF FreeTimes, Timeline
<1>1. Cut' = Cut /\ Allowed' = Allowed /\ Allowed \in Int
  BY AllowedIs DEF Cut, Allowed
<1>2. Untold' = Untold \ {t}
  BY DEF Untold, BanInv
<1>3. Len(After(free, Cut)) \in Nat /\ Cardinality(Untold) \in Nat /\ Cardinality(Untold') \in Nat
      /\ Cardinality(Untold') <= Cardinality(Untold)
  BY <1>2, CutIs, AfterFromEnd, UntoldFinite, FewerUntold DEF FreeTimes
<1>4. Len(After(free, Cut)) + Cardinality(Untold) <= Allowed
  BY DEF FreeTries
<1>5. SUFFICES /\ Timeline(attempts', now) /\ Timeline(free', now)
               /\ Covers(attempts', free', Cut)
               /\ Limiter!isBanned' => attempts' = <<>> /\ free' = <<>>
               /\ Len(After(free', Cut)) + Cardinality(Untold') <= Allowed
  BY <1>1 DEF FreeTimes, FreeTries
<1>6. CASE Limiter!Reset
  <2>1. attempts' = <<>> /\ free' = <<>>
    BY <1>6, Recorded
  <2>2. /\ Timeline(attempts', now) /\ Timeline(free', now) /\ Covers(attempts', free', Cut)
        /\ Len(After(free', Cut)) = 0
    BY <2>1, TimesCleared
  <2> QED
    BY <1>1, <1>3, <1>4, <2>1, <2>2
<1>7. CASE ~Limiter!Reset /\ Limiter!isBanned
  <2>1. attempts' = <<>> /\ free' = <<>>
    BY <1>0, <1>7, Recorded, CutIs, NoneIsTimeline DEF FreeTimes
  <2>2. /\ Timeline(attempts', now) /\ Timeline(free', now) /\ Covers(attempts', free', Cut)
        /\ Len(After(free', Cut)) = 0
    BY <2>1, TimesCleared
  <2> QED
    BY <1>1, <1>3, <1>4, <2>1, <2>2
<1>8. CASE ~Limiter!Reset /\ ~Limiter!isBanned
  <2>1. attempts' = Append(After(attempts, Cut), now) /\ ~Limiter!isBanned'
    BY <1>8, Recorded DEF Limiter!Reset, Limiter!isBanned
  <2>2. CASE free' = After(free, Cut)
    <3>1. /\ Timeline(attempts', now) /\ Timeline(free', now) /\ Covers(attempts', free', Cut)
          /\ Len(After(free', Cut)) \in Nat
          /\ Len(After(free', Cut)) <= Len(After(free, Cut))
      BY <2>1, <2>2, TimesStay
    <3> QED
      BY <1>1, <1>3, <1>4, <2>1, <3>1
  <2>3. CASE t \in Untold /\ free' = Append(After(free, Cut), now)
    <3>1. /\ Timeline(attempts', now) /\ Timeline(free', now) /\ Covers(attempts', free', Cut)
          /\ Len(After(free', Cut)) \in Nat
          /\ Len(After(free', Cut)) <= Len(After(free, Cut)) + 1
      BY <2>1, <2>3, TimesGrow
    <3>2. Cardinality(Untold') = Cardinality(Untold) - 1
      BY <1>2, <2>3, OneLessUntold
    <3> QED
      BY <1>1, <1>3, <1>4, <2>1, <3>1, <3>2
  <2> QED
    BY <1>0, <1>8, <2>2, <2>3
<1> QED
  BY <1>6, <1>7, <1>8

LEMMA CheckStep ==
  ASSUME Limiter!LoginLimiterAssumption, ~Limiter!isDisabled, Task # {}, BanInv, FreeTimes,
         FreeTries, BanInv', needs \in [Task -> BOOLEAN], NEW t \in Task, Limiter!Check(t)
  PROVE  FreeTimes' /\ FreeTries'
<1>1. /\ pc[t] = "check" /\ pc' = [pc EXCEPT ![t] = "captcha"]
      /\ needs' = [needs EXCEPT ![t] = Limiter!CaptchaRequired]
      /\ UNCHANGED <<banned, now, free>> /\ attempts' \in {attempts, After(attempts, Cut)}
  BY RecentIs DEF Limiter!Check, Limiter!Goto, Limiter!Prune, Limiter!history, FreeTimes, Timeline
<1>2. Cut' = Cut /\ Allowed' = Allowed /\ Allowed \in Int /\ Allowed >= Cardinality(Task) - 1
  BY <1>1, AllowedIs DEF Cut, Allowed
<1>3. CASE Limiter!CaptchaRequired
  <2>1. Untold' \subseteq Untold
    BY <1>1, <1>3 DEF Untold, BanInv
  <2> QED
    BY <1>1, <2>1, QuietStep
<1>4. CASE ~Limiter!CaptchaRequired
  <2>1. /\ Timeline(attempts', now) /\ Timeline(free', now) /\ Covers(attempts', free', Cut)
        /\ Len(After(free', Cut)) \in Nat
    BY <1>1, TimesStay
  <2>2. Limiter!isBanned' => attempts' = <<>> /\ free' = <<>>
    BY <1>1, CutIs, NoneIsTimeline DEF FreeTimes, Limiter!isBanned
  <2>3. FreeTimes'
    BY <1>1, <1>2, <2>1, <2>2 DEF FreeTimes
  <2>4. /\ Untold' \subseteq Task /\ Untold' \subseteq LetIn /\ LetIn \subseteq Task
    BY <1>1 DEF Untold, LetIn, BanInv
  <2>5. /\ Cardinality(Untold') \in Nat /\ Cardinality(Untold') <= Cardinality(LetIn)
        /\ Cardinality(Untold') <= Cardinality(Task)
        /\ Cardinality(LetIn) \in Nat /\ Cardinality(Task) \in Nat
    BY <2>4, UntoldFinite, FS_Subset, FS_CardinalityType
  <2>6. Len(After(free', Cut)) + Cardinality(Untold') <= Allowed
    <3>1. CASE Limiter!isBanned
      <4>1. free' = <<>> /\ Len(After(free', Cut)) = 0
        BY <1>1, <3>1, CutIs, NoneIsTimeline DEF FreeTimes
      <4>2. Cardinality(LetIn) <= Cardinality(Task) - 1
        <5>1. under + Cardinality(LetIn) <= Cardinality(Task) - 1 /\ under \in Nat
          BY <3>1 DEF BanInv
        <5> QED
          BY <2>5, <5>1
      <4> QED
        BY <1>2, <2>5, <4>1, <4>2
    <3>2. CASE ~Limiter!isBanned
      <4>1. ~(Len(After(attempts, Cut)) >= CaptchaThreshold)
        BY <1>4, <3>2, RecentIs DEF Limiter!CaptchaRequired, FreeTimes, Timeline
      <4>2. Len(After(free, Cut)) <= Len(After(attempts, Cut))
        BY CutIs, CoversCounts DEF FreeTimes
      <4>3. Len(After(attempts, Cut)) \in Nat
        BY CutIs, AfterFromEnd DEF FreeTimes
      <4>4. CaptchaThreshold \in Int
        BY DEF Limiter!LoginLimiterAssumption
      <4>5. CaptchaThreshold > 0 /\ Allowed = CaptchaThreshold + Cardinality(Task) - 1
        BY <4>1, <4>3, <4>4 DEF Allowed
      <4>6. Len(After(free', Cut)) <= CaptchaThreshold - 1
        BY <1>1, <2>1, <4>1, <4>2, <4>3, <4>4
      <4> QED
        BY <2>1, <2>5, <4>4, <4>5, <4>6
    <3> QED
      BY <3>1, <3>2
  <2> QED
    BY <1>2, <2>3, <2>6 DEF FreeTries
<1> QED
  BY <1>3, <1>4

FreeInv ==
  /\ BanInv /\ FreeTimes /\ FreeTries /\ needs \in [Task -> BOOLEAN]

LEMMA FreeStep ==
  ASSUME Limiter!LoginLimiterAssumption, ~Limiter!isDisabled, Task # {}, FreeInv,
         [Limiter!Next]_Limiter!vars
  PROVE  FreeInv'
<1>0. /\ BanInv /\ FreeTimes /\ FreeTries /\ needs \in [Task -> BOOLEAN] /\ BanInv'
  BY BanStep DEF FreeInv
<1>1. needs' \in [Task -> BOOLEAN]
  <2>1. Limiter!CaptchaRequired \in BOOLEAN
    BY DEF Limiter!CaptchaRequired
  <2> QED
    BY <1>0, <2>1 DEF Limiter!Next, Limiter!vars, Limiter!Arrive, Limiter!Check, Limiter!Verify,
       Limiter!Malformed, Limiter!Fail, Limiter!Succeed, Limiter!RequireCaptcha,
       Limiter!cleanupExpired, Limiter!Tick, Limiter!history
<1>2. SUFFICES FreeTimes' /\ FreeTries'
  BY <1>0, <1>1 DEF FreeInv
<1>3. Limiter!Recent(attempts) = After(attempts, Cut)
  BY <1>0, RecentIs DEF FreeTimes, Timeline
<1>4. CASE UNCHANGED Limiter!vars
  BY <1>0, <1>4, QuietStep DEF Limiter!vars, Limiter!history, Untold
<1>5. ASSUME NEW t \in Task, Limiter!Arrive(t) PROVE FreeTimes' /\ FreeTries'
  <2>1. Untold' \subseteq Untold
    BY <1>0, <1>5 DEF Limiter!Arrive, Limiter!Goto, Untold, BanInv
  <2> QED
    BY <1>0, <1>3, <1>5, <2>1, QuietStep DEF Limiter!Arrive, Limiter!Prune, Limiter!history
<1>6. ASSUME NEW t \in Task, Limiter!Check(t) PROVE FreeTimes' /\ FreeTries'
  BY <1>0, <1>6, CheckStep
<1>7. ASSUME NEW t \in Task, Limiter!Verify(t) PROVE FreeTimes' /\ FreeTries'
  <2>1. Untold' \subseteq Untold
    BY <1>0, <1>7 DEF Limiter!Verify, Limiter!Goto, Untold, BanInv
  <2> QED
    BY <1>0, <1>7, <2>1, QuietStep DEF Limiter!Verify
<1>8. ASSUME NEW t \in Task, Limiter!Malformed(t) PROVE FreeTimes' /\ FreeTries'
  BY <1>0, <1>8, FailureStep DEF Limiter!Malformed, Limiter!Goto
<1>9. ASSUME NEW t \in Task, Limiter!Fail(t) PROVE FreeTimes' /\ FreeTries'
  <2>1. pc[t] = "admin" /\ ~needs[t] => t \in Untold
    BY DEF Untold
  <2>2. /\ UNCHANGED <<now, needs>> /\ Limiter!RecordFailedAttempt
        /\ pc' = [pc EXCEPT ![t] = "idle"]
    BY <1>9 DEF Limiter!Fail, Limiter!Goto
  <2>3. \/ free' = IF Limiter!Reset THEN <<>>
                   ELSE IF t \in Untold /\ pc[t] = "admin" /\ ~Limiter!isBanned
                     THEN Append(Limiter!Recent(free), now) ELSE Limiter!Recent(free)
        \/ free' = IF Limiter!Reset THEN <<>> ELSE Limiter!Recent(free)
    BY <1>9, <2>1 DEF Limiter!Fail
  <2> QED
    BY <1>0, <2>2, <2>3, FailureStep
<1>10. ASSUME NEW t \in Task, Limiter!Succeed(t) PROVE FreeTimes' /\ FreeTries'
  <2>1. Untold' \subseteq Untold
    BY <1>0, <1>10 DEF Limiter!Succeed, Limiter!Goto, Untold, BanInv
  <2> QED
    BY <1>0, <1>10, <2>1, QuietStep DEF Limiter!Succeed
<1>11. ASSUME NEW c \in Captcha, Limiter!RequireCaptcha(c) PROVE FreeTimes' /\ FreeTries'
  BY <1>0, <1>3, <1>11, QuietStep DEF Limiter!RequireCaptcha, Limiter!Prune, Untold
<1>12. CASE Limiter!cleanupExpired
  BY <1>0, <1>3, <1>12, QuietStep DEF Limiter!cleanupExpired, Limiter!history, Untold
<1>13. CASE Limiter!Tick
  <2>1. now' = now + 1 /\ UNCHANGED <<attempts, free, banned, pc, needs>>
    BY <1>13 DEF Limiter!Tick, Limiter!history
  <2>2. /\ Timeline(attempts, now') /\ Timeline(free, now') /\ Covers(attempts, free, Cut')
        /\ Len(After(free, Cut')) \in Nat /\ Len(After(free, Cut)) \in Nat
        /\ Len(After(free, Cut')) <= Len(After(free, Cut))
    BY <1>0, <2>1, TimesPass
  <2>3. Limiter!isBanned' => Limiter!isBanned
    BY <1>0, <2>1 DEF Limiter!isBanned, BanInv
  <2>4. FreeTimes'
    BY <1>0, <2>1, <2>2, <2>3 DEF FreeTimes
  <2>5. Untold' = Untold /\ Allowed' = Allowed /\ Allowed \in Int /\ Cardinality(Untold) \in Nat
    BY <1>0, <2>1, AllowedIs, UntoldFinite DEF Untold, Allowed
  <2>6. Len(After(free, Cut')) + Cardinality(Untold) <= Allowed
    BY <1>0, <2>2, <2>5 DEF FreeTries
  <2> QED
    BY <2>1, <2>4, <2>5, <2>6 DEF FreeTries
<1> QED
  BY <1>4, <1>5, <1>6, <1>7, <1>8, <1>9, <1>10, <1>11, <1>12, <1>13 DEF Limiter!Next

\* FreeTriesAreBounded: within a window an address tries, at the administrators' login, no
\* more passwords without a captcha than the threshold and one for every other request under
\* way, though each was let in on an answer of CheckSecurityStatus that later failures, a ban
\* or its end have put out of date; for any thresholds, windows and number of requests,
\* unless the limiter is disabled.
THEOREM FreeTriesBounded ==
  ASSUME Limiter!LoginLimiterAssumption, ~Limiter!isDisabled, Task # {}
  PROVE  Limiter!Spec => []Limiter!FreeTriesAreBounded
<1>1. Limiter!Init => FreeInv
  <2> SUFFICES ASSUME Limiter!Init PROVE FreeInv
    OBVIOUS
  <2>1. BanInv
    BY DEF Limiter!Init, BanInv, Limiter!isBanned, Limiter!None
  <2>2. attempts = <<>> /\ free = <<>> /\ Untold = {} /\ needs \in [Task -> BOOLEAN]
    BY DEF Limiter!Init, Untold
  <2>3. FreeTimes
    BY <2>1, <2>2, CutIs, NoneIsTimeline DEF FreeTimes, Covers
  <2>4. Cardinality(Task) >= 1
    <3>1. Cardinality(Task) # 0
      BY <2>1, UntoldFinite, FS_EmptySet
    <3> QED
      BY <2>1, <3>1, UntoldFinite
  <2>5. Cardinality(Untold) = 0 /\ Len(After(free, Cut)) = 0
    BY <2>1, <2>2, CutIs, NoneIsTimeline, FS_EmptySet
  <2>6. FreeTries
    BY <2>1, <2>4, <2>5, AllowedIs, UntoldFinite DEF FreeTries
  <2> QED
    BY <2>1, <2>2, <2>3, <2>6 DEF FreeInv
<1>2. FreeInv /\ [Limiter!Next]_Limiter!vars => FreeInv'
  BY FreeStep
<1>3. FreeInv => Limiter!FreeTriesAreBounded
  <2> SUFFICES ASSUME FreeInv PROVE Len(After(free, Cut)) <= Allowed
    BY LimiterSets, RecentIs
    DEF Limiter!FreeTriesAreBounded, FreeInv, FreeTimes, Timeline, Allowed
  <2>1. Len(After(free, Cut)) \in Nat /\ Cardinality(Untold) \in Nat /\ Allowed \in Int
    BY CutIs, AfterFromEnd, UntoldFinite, AllowedIs DEF FreeInv, FreeTimes
  <2> QED
    BY <2>1 DEF FreeInv, FreeTries
<1> QED
  BY <1>1, <1>2, <1>3, PTL DEF Limiter!Spec

-----------------------------------------------------------------------------
(* The server a client is given.                                           *)

\* The scheduler is not asked, or has no server to give.
Unserved == region = NoRegion \/ Sched!Available = {}

\* What a choice is made of, and what is given: the scheduler's choice is one of its
\* candidates that no other comes before.
ChoiceInv ==
  /\ rows \in [Id -> Sched!Server]
  /\ Sched!From("scheduled") => Sched!TheServer \in Sched!Scheduled
  /\ Sched!From("assigned") => Sched!TheServer \in Sched!AssignedServer
  /\ Sched!From("default") => Unserved /\ Sched!AssignedServer = {}

\* What Before and Sooner compare.
LEMMA Compared ==
  ASSUME Sched!SchedulerAssumption, ChoiceInv, NEW i \in Id
  PROVE  rows[i].priority \in Nat /\ rows[i].cost \in Nat /\ i \in Nat
BY DEF Sched!SchedulerAssumption, ChoiceInv, Sched!Server

\* A finite set of servers has one that is tried no later than any other.
LEMMA SoonestExists ==
  ASSUME Sched!SchedulerAssumption, ChoiceInv, NEW S, S \subseteq Id, S # {}
  PROVE  \E i \in S : \A j \in S : ~Sched!Sooner(j, i)
<1> DEFINE Ahead(i) == {j \in S : Sched!Sooner(j, i)}
           Counts == {Cardinality(Ahead(i)) : i \in S}
<1>1. IsFiniteSet(S)
  <2>1. IsFiniteSet(Id)
    BY DEF Sched!SchedulerAssumption, Sched!IsFiniteSet, IsFiniteSet
  <2> QED
    BY <2>1, FS_Subset
<1>2. \A i \in S : IsFiniteSet(Ahead(i)) /\ Cardinality(Ahead(i)) \in Nat
  BY <1>1, FS_Subset, FS_CardinalityType
<1>3. Counts \subseteq Nat /\ Counts # {}
  BY <1>2
<1>4. PICK i \in S : \A j \in S : Cardinality(Ahead(i)) <= Cardinality(Ahead(j))
  <2>1. PICK n \in Counts : \A m \in Counts : n <= m
    BY <1>3, LeastNat
  <2> QED
    BY <2>1
<1>5. \A j \in S : ~Sched!Sooner(j, i)
  <2> SUFFICES ASSUME NEW j \in S, Sched!Sooner(j, i) PROVE FALSE
    OBVIOUS
  <2>1. \A k \in S : /\ rows[k].priority \in Nat /\ k \in Nat
                     /\ Sched!Turn(k) \in {1, 2, 3}
    BY Compared DEF Sched!Turn
  <2>2. ~Sched!Sooner(j, j)
    BY <2>1 DEF Sched!Sooner
  <2>3. \A k \in S : Sched!Sooner(k, j) => Sched!Sooner(k, i)
    BY <2>1 DEF Sched!Sooner
  <2>4. Ahead(j) \subseteq Ahead(i) \ {j} /\ j \in Ahead(i)
    BY <2>2, <2>3
  <2>5. /\ IsFiniteSet(Ahead(i) \ {j})
        /\ Cardinality(Ahead(i) \ {j}) = Cardinality(Ahead(i)) - 1
    BY <1>2, <2>4, FS_RemoveElement
  <2>6. Cardinality(Ahead(j)) <= Cardinality(Ahead(i)) - 1
    BY <2>4, <2>5, FS_Subset
  <2>7. Cardinality(Ahead(i)) <= Cardinality(Ahead(j))
    BY <1>4
  <2>8. Cardinality(Ahead(i)) \in Nat /\ Cardinality(Ahead(j)) \in Nat
    BY <1>2
  <2> HIDE DEF Ahead
  <2> QED
    BY <2>6, <2>7, <2>8
<1> QED
  BY <1>5

LEMMA ChoiceStep ==
  ASSUME ChoiceInv, [Sched!Next]_Sched!vars
  PROVE  ChoiceInv'
<1>0. ASSUME UNCHANGED <<rows, user, region, isRestricted>>
      PROVE  /\ UNCHANGED Sched!Scheduled /\ UNCHANGED Sched!AssignedServer
             /\ UNCHANGED Sched!Available
  <2>1. /\ UNCHANGED Sched!Available /\ \A i : Sched!RegionMatch(i)' = Sched!RegionMatch(i)
        /\ \A i, j : Sched!Before(i, j)' = Sched!Before(i, j)
    BY <1>0 DEF Sched!Available, Sched!IsAvailable, Sched!RegionMatch, Sched!Before
  <2>2. UNCHANGED Sched!Scheduled
    BY <1>0, <2>1 DEF Sched!Scheduled, Sched!Candidates, Sched!Filtered
  <2>3. UNCHANGED Sched!AssignedServer
    BY <1>0 DEF Sched!AssignedServer, Sched!Assigned, Sched!Sooner, Sched!Turn
  <2> QED
    BY <2>1, <2>2, <2>3
<1>1. CASE UNCHANGED Sched!vars
  <2>1. UNCHANGED <<rows, user, region, isRestricted, given>>
    BY <1>1 DEF Sched!vars
  <2> QED
    BY <2>1, <1>0 DEF ChoiceInv, Unserved, Sched!From, Sched!TheServer
<1>2. CASE Sched!Next
  <2>1. UNCHANGED <<rows, user, region, isRestricted>>
    BY <1>2 DEF Sched!Next, Sched!GetServerConfigSmart
  <2>2. ASSUME NEW from, NEW server, Sched!Give(from, server)
        PROVE  /\ \A how : Sched!From(how)' <=> how = from
               /\ Sched!TheServer' = server[1]
    <3>1. given' # <<>> /\ given'[1] = [from |-> from, server |-> server]
      BY <2>2 DEF Sched!Give
    <3> QED
      BY <3>1 DEF Sched!From, Sched!TheServer
  <2>3. \/ Sched!Give("custom", <<>>)
        \/ \E i \in Sched!AssignedServer : Sched!Give("assigned", <<i>>)
        \/ Sched!AssignedServer = {} /\ Unserved /\ Sched!Give("default", <<>>)
        \/ \E i \in Sched!Scheduled : Sched!Give("scheduled", <<i>>)
    BY <1>2 DEF Sched!Next, Sched!GetServerConfigSmart, Unserved
  <2>4. CASE Sched!Give("custom", <<>>)
    <3>1. \A how : Sched!From(how)' <=> how = "custom"
      BY <2>2, <2>4
    <3> QED
      BY <2>1, <3>1 DEF ChoiceInv
  <2>5. ASSUME NEW i \in Sched!AssignedServer, Sched!Give("assigned", <<i>>)
        PROVE  ChoiceInv'
    <3>1. (\A how : Sched!From(how)' <=> how = "assigned") /\ Sched!TheServer' = i
      BY <2>2, <2>5
    <3> QED
      BY <1>0, <2>1, <3>1 DEF ChoiceInv
  <2>6. CASE Sched!AssignedServer = {} /\ Unserved /\ Sched!Give("default", <<>>)
    <3>1. \A how : Sched!From(how)' <=> how = "default"
      BY <2>2, <2>6
    <3> QED
      BY <1>0, <2>1, <2>6, <3>1 DEF ChoiceInv, Unserved
  <2>7. ASSUME NEW i \in Sched!Scheduled, Sched!Give("scheduled", <<i>>)
        PROVE  ChoiceInv'
    <3>1. (\A how : Sched!From(how)' <=> how = "scheduled") /\ Sched!TheServer' = i
      BY <2>2, <2>7
    <3> QED
      BY <1>0, <2>1, <3>1 DEF ChoiceInv
  <2> QED
    BY <2>3, <2>4, <2>5, <2>6, <2>7
<1> QED
  BY <1>1, <1>2

LEMMA ChoiceAlways ==
  ASSUME Rows \subseteq [Id -> Sched!Server]
  PROVE  Sched!Spec => []ChoiceInv
<1>1. Sched!Init => ChoiceInv
  BY DEF Sched!Init, ChoiceInv, Sched!From
<1>2. ChoiceInv /\ [Sched!Next]_Sched!vars => ChoiceInv'
  BY ChoiceStep
<1> QED
  BY <1>1, <1>2, PTL DEF Sched!Spec

\* A server switched off is given to nobody, the scheduler gives one that is reachable, and the
\* default is given only if none that is assigned is switched on and, where the caller names the
\* client's address, no server is available.
THEOREM GivenAreUsable ==
  ASSUME Sched!SchedulerAssumption, Rows \subseteq [Id -> Sched!Server]
  PROVE  Sched!Spec => []Sched!OfferedIsUsable
<1>1. ChoiceInv => Sched!OfferedIsUsable
  <2> SUFFICES ASSUME ChoiceInv PROVE Sched!OfferedIsUsable
    OBVIOUS
  <2>1. \A i \in Sched!AssignedServer : rows[i].isActive
    BY DEF Sched!AssignedServer
  <2>2. \A i \in Sched!Scheduled : Sched!IsAvailable(i)
    BY DEF Sched!Scheduled, Sched!Candidates, Sched!Filtered, Sched!Available
  <2>3. Sched!AssignedServer = {} => ~\E i \in Sched!Assigned : rows[i].isActive
    <3> DEFINE filtered == {i \in Sched!Assigned : rows[i].isActive}
               wss == {i \in filtered : rows[i].wss}
               tried == IF isRestricted /\ wss # {} THEN wss ELSE filtered
    <3> SUFFICES ASSUME filtered # {} PROVE Sched!AssignedServer # {}
      OBVIOUS
    <3>1. tried \subseteq Id /\ tried # {}
      BY DEF Sched!Assigned
    <3>2. Sched!AssignedServer = {i \in tried : \A j \in tried : ~Sched!Sooner(j, i)}
      BY DEF Sched!AssignedServer
    <3> HIDE DEF tried
    <3>3. \E i \in tried : \A j \in tried : ~Sched!Sooner(j, i)
      BY <3>1, SoonestExists
    <3> QED
      BY <3>2, <3>3
  <2> QED
    BY <2>1, <2>2, <2>3 DEF Sched!OfferedIsUsable, ChoiceInv, Unserved
<1> QED
  BY <1>1, ChoiceAlways, PTL

\* sortServers compares servers by an order for any priorities, costs and regions, though the
\* rule for Chinese clients stands between the priority and the cost.
THEOREM ServersAreOrdered ==
  ASSUME Sched!SchedulerAssumption, Rows \subseteq [Id -> Sched!Server]
  PROVE  Sched!Spec => []Sched!SortIsAnOrder
<1>1. ChoiceInv => Sched!SortIsAnOrder
  <2> SUFFICES ASSUME ChoiceInv, NEW i \in Id, NEW j \in Id, NEW k \in Id
               PROVE  /\ ~(Sched!Before(i, j) /\ Sched!Before(j, i))
                      /\ Sched!Before(i, j) /\ Sched!Before(j, k) => Sched!Before(i, k)
                      /\ Sched!Before(i, k) => Sched!Before(i, j) \/ Sched!Before(j, k)
    BY DEF Sched!SortIsAnOrder, Sched!Available
  <2>1. \A l \in {i, j, k} : rows[l].priority \in Nat /\ rows[l].cost \in Nat
    BY Compared
  <2> QED
    BY <2>1 DEF Sched!Before
<1> QED
  BY <1>1, ChoiceAlways, PTL

\* A client of a region is given a server there that speaks its protocol if there is one, and
\* the one of the highest priority there, whatever the table holds.
THEOREM NearestComesFirst ==
  ASSUME Sched!SchedulerAssumption, Rows \subseteq [Id -> Sched!Server]
  PROVE  Sched!Spec => []Sched!RegionComesFirst
<1>1. ChoiceInv => Sched!RegionComesFirst
  <2> DEFINE Near == {j \in Sched!Available : /\ isRestricted => rows[j].wss
                                              /\ rows[j].region = region}
             s == Sched!TheServer
  <2> SUFFICES ASSUME ChoiceInv, Sched!From("scheduled"), region # Anywhere, Near # {}
               PROVE  s \in Near /\ \A j \in Near : rows[j].priority <= rows[s].priority
    BY DEF Sched!RegionComesFirst
  <2>1. Sched!Candidates = Near
    BY DEF Sched!Candidates, Sched!Filtered, Sched!RegionMatch
  <2>2. s \in Near /\ \A j \in Near : ~Sched!Before(j, s)
    BY <2>1 DEF ChoiceInv, Sched!Scheduled
  <2>3. \A j \in Near : j \in Id
    BY DEF Sched!Available
  <2>4. \A j \in Near : rows[j].priority <= rows[s].priority
    BY <2>2, <2>3, Compared DEF Sched!Before
  <2> QED
    BY <2>2, <2>4
<1> QED
  BY <1>1, ChoiceAlways, PTL
=============================================================================
