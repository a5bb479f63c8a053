----------------------------- MODULE Activation -----------------------------
(***************************************************************************)
(* Activation codes: a user redeems one for days of service, or registers  *)
(* with one (rustdesk-api: controller/api/vip.go, service/activationCode.go*)
(* and user.go).                                                           *)
(*                                                                         *)
(* A task is the goroutine of a request; every database call is a step.    *)
(***************************************************************************)
EXTENDS Integers, FiniteSets, FiniteSetsExt

CONSTANTS
  User,      \* users; the ones of Guest have yet to register
  Guest,
  Code,      \* activation codes
  Task,      \* requests served at the same time
  Days,      \* valid_days a code may have; Lifetime is one
  MaxTime,   \* bound on the clock (days)
  Faults     \* whether a database write may fail

Lifetime == -1
Nobody == "nobody"

ActivationAssumption ==
  /\ Guest \subseteq User /\ Nobody \notin User
  /\ IsFiniteSet(Code) /\ Days \subseteq Int
  /\ MaxTime \in Nat /\ Faults \in BOOLEAN

Never == -1

VARIABLES
  validDays, first,   \* columns of a user: valid_days, first_login_at
  exists,             \* users with a row
  codeDays, usedBy,   \* columns of a code
  pc, who, code, days,  \* a task: its step, user, code, the days it knows
  now,
  applied, start      \* history: how often a user was given a code's days;
                      \* the days users had at first

users == <<validDays, first, exists>>
codes == <<codeDays, usedBy>>
tasks == <<pc, who, code, days>>
history == <<applied, start>>
vars == <<users, codes, tasks, now, history>>

TypeOK ==
  /\ validDays \in [User -> Nat \cup {Lifetime}]
  /\ first \in [User -> 0..MaxTime \cup {Never}]
  /\ exists \subseteq User
  /\ codeDays \in [Code -> Days] /\ usedBy \in [Code -> User \cup {Nobody}]
  /\ pc \in [Task -> {"idle", "redeem", "mark", "update", "create", "assign", "markNew"}]
  /\ who \in [Task -> User] /\ code \in [Task -> Code]
  /\ days \in [Task -> Nat \cup {Lifetime}]
  /\ now \in 0..MaxTime
  /\ applied \in [User \X Code -> Nat] /\ start \in [User -> Nat \cup {Lifetime}]

\* Users who have registered have the days an administrator or a code gave.
Init ==
  /\ validDays \in [User -> Days \cup {0}] /\ \A u \in Guest : validDays[u] = 0
  /\ start = validDays
  /\ first = [u \in User |-> Never] /\ exists = User \ Guest
  /\ codeDays \in [Code -> Days] /\ usedBy = [c \in Code |-> Nobody]
  /\ pc = [t \in Task |-> "idle"] /\ days = [t \in Task |-> 0]
  /\ who = [t \in Task |-> CHOOSE u \in User : TRUE]
  /\ code = [t \in Task |-> CHOOSE c \in Code : TRUE]
  /\ now = 0 /\ applied = [uc \in User \X Code |-> 0]

-----------------------------------------------------------------------------
\* CheckUserEnable: days run from the first login.
Enabled(u) ==
  \/ validDays[u] = Lifetime
  \/ validDays[u] > 0 /\ (first[u] = Never \/ now <= first[u] + validDays[u])

\* Login refuses a user who is not enabled, and starts the days.
Login(u) ==
  /\ u \in exists /\ Enabled(u) /\ first[u] = Never
  /\ first' = [first EXCEPT ![u] = now]
  /\ UNCHANGED <<validDays, exists, codes, tasks, now, history>>

Goto(t, step) == pc' = [pc EXCEPT ![t] = step]

\* Validate: no code that is used.  (An expired one is one fewer to choose.)
Valid(c) == usedBy[c] = Nobody

\* POST /vip/redeem: the middleware reads the user's row ...
Redeem(t) ==
  /\ pc[t] = "idle"
  /\ \E u \in exists, c \in Code :
       /\ Enabled(u)
       /\ who' = [who EXCEPT ![t] = u] /\ code' = [code EXCEPT ![t] = c]
       /\ days' = [days EXCEPT ![t] = validDays[u]]
  /\ Goto(t, "redeem")
  /\ UNCHANGED <<users, codes, now, history>>

\* ... ValidateAndUse reads the code's ...
Validate(t) ==
  /\ pc[t] = "redeem"
  /\ Goto(t, IF Valid(code[t]) THEN "mark" ELSE "idle")
  /\ UNCHANGED <<users, codes, who, code, days, now, history>>

Mark(t) == usedBy' = [usedBy EXCEPT ![code[t]] = who[t]]

\* ... and marks it, whoever has marked it since ...
MarkUsed(t) ==
  /\ pc[t] = "mark"
  /\ \/ Mark(t) /\ Goto(t, "update")
     \/ Faults /\ Goto(t, "idle") /\ UNCHANGED usedBy
  /\ UNCHANGED <<users, codeDays, who, code, days, now, history>>

\* ApplyToUser, accumulating: a lifetime stays one.
Accumulated(old, add) ==
  IF old = Lifetime \/ add = Lifetime THEN Lifetime ELSE old + add

Apply(t, new) ==
  /\ validDays' = [validDays EXCEPT ![who[t]] = new]
  /\ applied' = [applied EXCEPT ![<<who[t], code[t]>>] = @ + 1]

\* ... and the days are added to those read at the start.
Update(t) ==
  /\ pc[t] = "update"
  /\ \/ Apply(t, Accumulated(days[t], codeDays[code[t]]))
     \/ Faults /\ UNCHANGED <<validDays, applied>>
  /\ Goto(t, "idle")
  /\ UNCHANGED <<first, exists, codes, who, code, days, now, start>>

\* POST /register with a code: it is validated, the user created ...
Register(t) ==
  /\ pc[t] = "idle"
  /\ \E u \in Guest \ exists, c \in Code :
       /\ Valid(c)
       /\ who' = [who EXCEPT ![t] = u] /\ code' = [code EXCEPT ![t] = c]
  /\ days' = [days EXCEPT ![t] = 0]
  /\ Goto(t, "create")
  /\ UNCHANGED <<users, codes, now, history>>

\* (a name taken since is an error) ...
Create(t) ==
  /\ pc[t] = "create"
  /\ \/ who[t] \notin exists /\ exists' = exists \cup {who[t]} /\ Goto(t, "assign")
     \/ (who[t] \in exists \/ Faults) /\ Goto(t, "idle") /\ UNCHANGED exists
  /\ UNCHANGED <<validDays, first, codes, who, code, days, now, history>>

\* ... the days are stored and last the code is marked.
Assign(t) ==
  /\ pc[t] = "assign"
  /\ \/ Apply(t, codeDays[code[t]]) /\ Goto(t, "markNew")
     \/ Faults /\ Goto(t, "idle") /\ UNCHANGED <<validDays, applied>>
  /\ UNCHANGED <<first, exists, codes, who, code, days, now, start>>

MarkNew(t) ==
  /\ pc[t] = "markNew"
  /\ Mark(t) \/ (Faults /\ UNCHANGED usedBy)
  /\ Goto(t, "idle")
  /\ UNCHANGED <<users, codeDays, who, code, days, now, history>>

Day ==
  /\ now < MaxTime /\ now' = now + 1
  /\ UNCHANGED <<users, codes, tasks, history>>

Next ==
  \/ \E t \in Task :
       \/ Redeem(t) \/ Validate(t) \/ MarkUsed(t) \/ Update(t)
       \/ Register(t) \/ Create(t) \/ Assign(t) \/ MarkNew(t)
  \/ \E u \in User : Login(u)
  \/ Day

Spec == Init /\ [][Next]_vars

-----------------------------------------------------------------------------
\* The days of a code go to one user, once (Validate: "activation code already
\* used").
CodeAppliedOnce ==
  \A c \in Code, u, v \in User :
    /\ applied[<<u, c>>] <= 1
    /\ applied[<<u, c>>] > 0 /\ applied[<<v, c>>] > 0 => u = v

\* A user has the days of the account and of every code applied to it, and a
\* lifetime for ever: no request takes days back (Redeem).
DaysAreKept ==
  \A u \in User :
    LET own == {c \in Code : applied[<<u, c>>] > 0} IN
    IF start[u] = Lifetime \/ \E c \in own : codeDays[c] = Lifetime
      THEN validDays[u] = Lifetime
      ELSE validDays[u] >= start[u] + MapThenSumSet(LAMBDA c : codeDays[c], own)

\* Whichever write fails, who redeems a code gets its days only once it is marked
\* as theirs (ValidateAndUse before Updates), so that trying again gives nothing
\* more.  A registration marks last, and may leave an applied code unused.
RedeemedIsMarked ==
  \A u \in User \ Guest, c \in Code :
    applied'[<<u, c>>] > applied[<<u, c>>] => usedBy[c] = u
=============================================================================
