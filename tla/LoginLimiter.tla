---------------------------- MODULE LoginLimiter ----------------------------
(***************************************************************************)
(* The limit on password logins (rustdesk-api: utils/login_limiter.go,     *)
(* middleware/limiter.go, the login handlers of controller/admin and       *)
(* controller/api), for the requests of one address.  Addresses share      *)
(* nothing but the captchas.                                               *)
(*                                                                         *)
(* Every call of the limiter holds its lock and is a step; between two of  *)
(* them other requests make theirs.                                        *)
(***************************************************************************)
EXTENDS Integers, Sequences, FiniteSets

CONSTANTS
  Task,              \* requests served at the same time
  Captcha,           \* captchas that may be drawn
  CaptchaThreshold,  \* failures from which a captcha is asked for
  BanThreshold,      \* failures that ban the address; 0 for no ban
  Window,            \* AttemptsWindow
  BanDuration,
  Expiration,        \* how long a captcha is good
  MaxTime            \* bound on the clock

LoginLimiterAssumption ==
  /\ CaptchaThreshold \in Int /\ BanThreshold \in Nat
  /\ {Window, BanDuration, Expiration, MaxTime} \subseteq Nat
  /\ IsFiniteSet(Task)

None == -1

VARIABLES
  attempts,   \* when the failures still counted were
  banned,     \* when the ban ends
  captchas,   \* when each captcha in store ends
  pc, needs,  \* a request: its step, whether it was told to bring a captcha
  now,
  free,       \* history: failures without a captcha at the administrators' login
  under,      \* history: passwords tried under the present ban
  spent,      \* history: logins a captcha was accepted for
  drawn       \* history: captchas drawn

history == <<free, under, spent, drawn>>
vars == <<attempts, banned, captchas, pc, needs, now, history>>

TypeOK ==
  /\ attempts \in Seq(0..MaxTime)
  /\ BanThreshold > 0 => Len(attempts) < BanThreshold
  /\ banned \in {None} \cup 0..MaxTime + BanDuration
  /\ captchas \in [Captcha -> {None} \cup 0..MaxTime + Expiration]
  /\ pc \in [Task -> {"idle", "check", "captcha", "admin", "client"}]
  /\ needs \in [Task -> BOOLEAN]
  /\ now \in 0..MaxTime
  /\ free \in Seq(0..MaxTime) /\ under \in Nat
  /\ spent \in [Captcha -> Nat] /\ drawn \subseteq Captcha

Init ==
  /\ attempts = <<>> /\ banned = None
  /\ captchas = [c \in Captcha |-> None]
  /\ pc = [t \in Task |-> "idle"] /\ needs = [t \in Task |-> FALSE]
  /\ now = 0
  /\ free = <<>> /\ under = 0
  /\ spent = [c \in Captcha |-> 0] /\ drawn = {}

-----------------------------------------------------------------------------
isDisabled == CaptchaThreshold < 0 /\ BanThreshold = 0

\* isBanned; a ban that is over is forgotten, which nothing tells from its end.
isBanned == banned # None /\ now <= banned

\* The failures of the last window: times are in order, so that they are the last.
Recent(times) ==
  LET old == {i \in DOMAIN times : times[i] <= now - Window}
  IN  SubSeq(times, Cardinality(old) + 1, Len(times))

\* CheckSecurityStatus, whose answer on captchas this is.
CaptchaRequired ==
  ~isDisabled /\ ~isBanned /\ Len(Recent(attempts)) >= CaptchaThreshold

Prune == attempts' = IF isDisabled \/ isBanned THEN attempts ELSE Recent(attempts)

Goto(t, step) == pc' = [pc EXCEPT ![t] = step]

\* The middleware turns requests of a banned address away.
Arrive(t) ==
  /\ pc[t] = "idle"
  /\ isDisabled \/ ~isBanned
  /\ \E step \in {"check", "client"} : Goto(t, step)
  /\ needs' = [needs EXCEPT ![t] = FALSE]
  /\ Prune
  /\ UNCHANGED <<banned, captchas, now, history>>

\* Only the administrators' login asks for captchas.
Check(t) ==
  /\ pc[t] = "check"
  /\ needs' = [needs EXCEPT ![t] = CaptchaRequired]
  /\ Goto(t, "captcha") /\ Prune
  /\ UNCHANGED <<banned, captchas, now, history>>

\* VerifyCaptcha: a good answer takes the captcha, and so does a late one.
Verify(t) ==
  /\ pc[t] = "captcha"
  /\ \/ /\ ~needs[t]
        /\ Goto(t, "admin") /\ UNCHANGED <<captchas, spent>>
     \/ \E c \in drawn :
          /\ needs[t] /\ captchas[c] # None
          /\ captchas' = [captchas EXCEPT ![c] = None]
          /\ IF now <= captchas[c]
               THEN Goto(t, "admin") /\ spent' = [spent EXCEPT ![c] = @ + 1]
               ELSE Goto(t, "idle") /\ UNCHANGED spent
     \/ /\ needs[t]  \* none, a wrong answer, or one in store no more
        /\ Goto(t, "idle") /\ UNCHANGED <<captchas, spent>>
  /\ UNCHANGED <<attempts, banned, needs, now, free, under, drawn>>

\* RecordFailedAttempt: the failure that reaches the threshold bans.
RecordFailedAttempt ==
  LET valid == Append(Recent(attempts), now) IN
  IF isDisabled \/ isBanned THEN UNCHANGED <<attempts, banned>>
  ELSE IF BanThreshold > 0 /\ Len(valid) >= BanThreshold
    THEN attempts' = <<>> /\ banned' = now + BanDuration
    ELSE attempts' = valid /\ UNCHANGED banned

Reset == banned' # banned

\* A request without the fields of a login counts as a failure.
Malformed(t) ==
  /\ pc[t] \in {"captcha", "client"}
  /\ RecordFailedAttempt
  /\ Goto(t, "idle")
  /\ free' = IF Reset THEN <<>> ELSE Recent(free)
  /\ under' = IF Reset THEN 0 ELSE under
  /\ UNCHANGED <<captchas, needs, now, spent, drawn>>

\* The password is looked up, and is wrong.
Fail(t) ==
  /\ pc[t] \in {"admin", "client"}
  /\ RecordFailedAttempt
  /\ Goto(t, "idle")
  /\ free' = IF Reset THEN <<>>
             ELSE IF pc[t] = "admin" /\ ~needs[t] /\ ~isBanned
               THEN Append(Recent(free), now) ELSE Recent(free)
  /\ under' = IF Reset THEN 0 ELSE IF isBanned THEN under + 1 ELSE under
  /\ UNCHANGED <<captchas, needs, now, spent, drawn>>

\* It is right: RemoveAttempts, at the administrators' login; or its user is
\* disabled, and nothing changes.
Succeed(t) ==
  /\ pc[t] \in {"admin", "client"}
  /\ \/ pc[t] = "admin" /\ attempts' = <<>> /\ free' = <<>>
     \/ UNCHANGED <<attempts, free>>
  /\ Goto(t, "idle")
  /\ under' = IF isBanned THEN under + 1 ELSE under
  /\ UNCHANGED <<banned, captchas, needs, now, spent, drawn>>

\* GET /captcha: RequireCaptcha, only for an address that needs one.
RequireCaptcha(c) ==
  /\ c \notin drawn /\ ~isBanned /\ CaptchaRequired
  /\ captchas' = [captchas EXCEPT ![c] = now + Expiration]
  /\ drawn' = drawn \cup {c} /\ Prune
  /\ UNCHANGED <<banned, pc, needs, now, free, under, spent>>

\* Every minute.
cleanupExpired ==
  /\ banned' = IF isBanned THEN banned ELSE None
  /\ attempts' = Recent(attempts)
  /\ captchas' = [c \in Captcha |-> IF captchas[c] < now THEN None ELSE captchas[c]]
  /\ UNCHANGED <<pc, needs, now, history>>

Tick ==
  /\ now < MaxTime /\ now' = now + 1
  /\ UNCHANGED <<attempts, banned, captchas, pc, needs, history>>

Next ==
  \/ \E t \in Task :
       Arrive(t) \/ Check(t) \/ Verify(t) \/ Malformed(t) \/ Fail(t) \/ Succeed(t)
  \/ \E c \in Captcha : RequireCaptcha(c)
  \/ cleanupExpired \/ Tick

Spec == Init /\ [][Next]_vars

-----------------------------------------------------------------------------
\* The answer of Check may be out of date when the password fails: within a window
\* the passwords an administrators' login lets try without a captcha are those of
\* the threshold and one for every other request under way.
FreeTriesAreBounded ==
  Len(Recent(free)) <= (IF CaptchaThreshold > 0 THEN CaptchaThreshold ELSE 0)
                       + Cardinality(Task) - 1

\* A ban is imposed under requests already let in: each of the others may still
\* try its password, and no more than that are tried before it ends.
TriesUnderBanAreBounded == isBanned => under <= Cardinality(Task) - 1

\* A captcha is good for one login, though requests may bring it together.
CaptchaServesOnce == \A c \in Captcha : spent[c] <= 1

\* "captcha threshold; -1 disabled" (README_EN.md): no captcha is ever asked for.
NegativeDisables == CaptchaThreshold < 0 => \A t \in Task : ~needs[t]
=============================================================================
