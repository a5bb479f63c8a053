------------------------------ MODULE Accounts ------------------------------
(***************************************************************************)
(* The users of the API, their passwords and access tokens, as logins and  *)
(* the administrators' requests change them (rustdesk-api:                 *)
(* service/user.go, controller/admin/user.go).                             *)
(*                                                                         *)
(* A task is the goroutine of a request; every database call is a step.    *)
(* A password is the number of the change that set it.                     *)
(***************************************************************************)
EXTENDS Integers, FiniteSets

CONSTANTS
  User,
  Task,         \* requests served at the same time
  MaxChange,    \* bound on password changes
  MaxToken      \* bound on the tokens a user holds

AccountsAssumption ==
  IsFiniteSet(User) /\ MaxChange \in Nat /\ MaxToken \in Nat

VARIABLES
  rows, isAdmin, enabled,  \* users with a row; the ones with these columns set
  password, old,           \* column password; users whose hash is of the old kind
  tokens,                  \* user_tokens: user, password of the login, overtaken
  pc, who, saw, form,      \* a task: its step, user, what it read, what it writes
  set                      \* history: the password last set

columns == <<rows, isAdmin, enabled>>
secrets == <<password, old, set>>
vars == <<columns, secrets, tokens, pc, who, saw, form>>

Token == [user : User, password : 0..MaxChange, overtaken : BOOLEAN]
Form == [admin : BOOLEAN, enabled : BOOLEAN]

\* What a task knows: the password it verified, whether another was set since.
Seen == [password : 0..MaxChange, overtaken : BOOLEAN]

TypeOK ==
  /\ rows \subseteq User /\ isAdmin \subseteq User /\ enabled \subseteq User
  /\ password \in [User -> 0..MaxChange] /\ set \in [User -> 0..MaxChange]
  /\ old \subseteq User /\ tokens \subseteq Token
  /\ isAdmin \cup enabled \subseteq rows
  /\ pc \in [Task -> {"idle", "rehash", "token", "flush", "delete", "count", "write"}]
  /\ who \in [Task -> User] /\ saw \in [Task -> Seen] /\ form \in [Task -> Form]

Init ==
  /\ rows = User /\ isAdmin \in (SUBSET User) \ {{}} /\ enabled = User
  /\ password = [u \in User |-> 0] /\ set = password /\ old \in SUBSET User
  /\ tokens = {}
  /\ pc = [t \in Task |-> "idle"]
  /\ who = [t \in Task |-> CHOOSE u \in User : TRUE]
  /\ saw = [t \in Task |-> [password |-> 0, overtaken |-> FALSE]]
  /\ form = [t \in Task |-> [admin |-> FALSE, enabled |-> FALSE]]

-----------------------------------------------------------------------------
Goto(t, step) == pc' = [pc EXCEPT ![t] = step]

\* InfoByUsernamePassword: the user's row is read and the password verified;
\* CheckUserEnable follows on the same row.
Verify(t, u) ==
  /\ pc[t] = "idle" /\ u \in rows
  /\ who' = [who EXCEPT ![t] = u]
  /\ saw' = [saw EXCEPT ![t] = [password |-> password[u], overtaken |-> FALSE]]
  /\ form' = [form EXCEPT ![t].enabled = u \in enabled]
  /\ Goto(t, IF u \in old THEN "rehash" ELSE IF u \in enabled THEN "token" ELSE "idle")
  /\ UNCHANGED <<columns, secrets, tokens>>

\* A hash of the old kind is replaced by a new one of the password given.
Rehash(t) ==
  /\ pc[t] = "rehash"
  /\ password' = [password EXCEPT ![who[t]] = saw[t].password]
  /\ old' = old \ {who[t]}
  /\ Goto(t, IF form[t].enabled THEN "token" ELSE "idle")
  /\ UNCHANGED <<columns, set, tokens, who, saw, form>>

Held(u) == {k \in tokens : k.user = u}

\* Login stores a token.
Login(t) ==
  /\ pc[t] = "token"
  /\ Cardinality(Held(who[t])) < MaxToken
  /\ tokens' = tokens \cup {[user |-> who[t], password |-> saw[t].password,
                             overtaken |-> saw[t].overtaken]}
  /\ Goto(t, "idle")
  /\ UNCHANGED <<columns, secrets, who, saw, form>>

\* Logout deletes the token.
Logout(k) ==
  /\ k \in tokens /\ tokens' = tokens \ {k}
  /\ UNCHANGED <<columns, secrets, pc, who, saw, form>>

\* UpdatePassword stores a password; logins under way are overtaken ...
UpdatePassword(t, u) ==
  /\ pc[t] = "idle" /\ u \in rows /\ set[u] < MaxChange
  /\ password' = [password EXCEPT ![u] = set[u] + 1]
  /\ set' = [set EXCEPT ![u] = @ + 1]
  /\ old' = old \ {u}
  /\ who' = [who EXCEPT ![t] = u]
  /\ saw' = [s \in Task |-> IF s # t /\ who[s] = u
                              THEN [saw[s] EXCEPT !.overtaken = TRUE] ELSE saw[s]]
  /\ Goto(t, "flush")
  /\ UNCHANGED <<columns, tokens, form>>

\* Mutant: the tokens of the device are deleted, not the user's.
FlushDevice(t) ==
  /\ pc[t] = "flush"
  /\ \E k \in Held(who[t]) \cup {[user |-> who[t], password |-> 0, overtaken |-> FALSE]} :
       tokens' = tokens \ {k}
  /\ Goto(t, "idle")
  /\ UNCHANGED <<columns, secrets, who, saw, form>>

\* ... and FlushToken deletes the user's tokens.
FlushToken(t) ==
  /\ pc[t] = "flush"
  /\ tokens' = tokens \ Held(who[t])
  /\ Goto(t, "idle")
  /\ UNCHANGED <<columns, secrets, who, saw, form>>

\* getAdminUserCount counts the disabled ones too.
LastAdmin == Cardinality(isAdmin) <= 1

\* Delete counts the administrators ...
Delete(t, u) ==
  /\ pc[t] = "idle" /\ u \in rows
  /\ ~(LastAdmin /\ u \in isAdmin)
  /\ who' = [who EXCEPT ![t] = u] /\ Goto(t, "delete")
  /\ UNCHANGED <<columns, secrets, tokens, saw, form>>

\* ... and its transaction deletes the row, and not the tokens.
DeleteRow(t) ==
  /\ pc[t] = "delete"
  /\ rows' = rows \ {who[t]}
  /\ isAdmin' = isAdmin \ {who[t]} /\ enabled' = enabled \ {who[t]}
  /\ Goto(t, "idle")
  /\ UNCHANGED <<secrets, tokens, who, saw, form>>

\* Update reads the user: an administrator is counted ...
Update(t, u, f) ==
  /\ pc[t] = "idle" /\ u \in rows
  /\ who' = [who EXCEPT ![t] = u] /\ form' = [form EXCEPT ![t] = f]
  /\ Goto(t, IF u \in isAdmin THEN "count" ELSE "write")
  /\ UNCHANGED <<columns, secrets, tokens, saw>>

Count(t) ==
  /\ pc[t] = "count"
  /\ Goto(t, IF LastAdmin /\ ~(form[t].admin /\ form[t].enabled) THEN "idle" ELSE "write")
  /\ UNCHANGED <<columns, secrets, tokens, who, saw, form>>

Put(set1, u, in) == IF in /\ u \in rows THEN set1 \cup {u} ELSE set1 \ {u}

\* ... and the form's columns are stored, if the row is still there.
Write(t) ==
  /\ pc[t] = "write"
  /\ isAdmin' = Put(isAdmin, who[t], form[t].admin)
  /\ enabled' = Put(enabled, who[t], form[t].enabled)
  /\ Goto(t, "idle")
  /\ UNCHANGED <<rows, secrets, tokens, who, saw, form>>

Next ==
  \/ \E t \in Task :
       \/ \E u \in User :
            \/ Verify(t, u) \/ UpdatePassword(t, u) \/ Delete(t, u)
            \/ \E f \in Form : Update(t, u, f)
       \/ Rehash(t) \/ Login(t) \/ FlushToken(t) \/ DeleteRow(t) \/ Count(t) \/ Write(t)
  \/ \E k \in tokens : Logout(k)

Spec == Init /\ [][Next]_vars

-----------------------------------------------------------------------------
Flushing(u) == \E t \in Task : pc[t] = "flush" /\ who[t] = u

\* UpdatePassword: once it has answered, a token older than the password is left
\* only to a login that was under way while the password was changed.
FormerTokensAreGone ==
  \A k \in tokens : k.password < password[k.user] => k.overtaken \/ Flushing(k.user)

\* "The last admin user cannot be deleted", nor disabled or demoted: there is one
\* (Delete, Update).
AnAdminStays == isAdmin # {}

\* ... and one that can log in (Update).
AnAdminIsEnabled == isAdmin \cap enabled # {}

\* A user's password is the one last set (UpdatePassword).
PasswordStands == \A u \in rows : password[u] = set[u]
=============================================================================
