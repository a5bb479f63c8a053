------------------------- MODULE PunchAuthorization -------------------------
(***************************************************************************)
(* Who may be punched through by hbbs: the first half of                   *)
(* handle_punch_hole_request (rendezvous_server.rs) for one user, whose    *)
(* devices ask at the same time, with the token (jwt.rs), the rows read    *)
(* (database.rs) and the sessions kept in Redis (redis_session.rs).        *)
(*                                                                         *)
(* A request waits for every row and for Redis: those are the steps.  The  *)
(* user's rows and hbbs's must-login flag change in between.               *)
(***************************************************************************)
EXTENDS Integers, FiniteSets

CONSTANTS
  Device,      \* the user's devices: numbers, as Redis orders equal scores by name
  Request,     \* requests served at the same time
  Limits,      \* values of concurrent_limit
  MaxTime,     \* bound on the clock
  MaxChange,   \* bound on changes of the rows and the flag
  Faults       \* whether the database and Redis may fail

AuthorizationAssumption ==
  /\ Device \subseteq Nat /\ IsFiniteSet(Device) /\ Limits \subseteq Int
  /\ MaxTime \in Nat /\ MaxChange \in Nat /\ Faults \in BOOLEAN

VARIABLES
  mustLogin, secret,    \* MUST_LOGIN; whether SECRET is set
  banned, subscription, limit, permitted,   \* the user's rows
  sessions,    \* the sorted set in Redis: a device's score, or None
  req,         \* each request
  now, changes,
  connected    \* history: devices let through that have not ended since

switches == <<mustLogin, secret>>
account == <<banned, subscription, limit, permitted>>
vars == <<switches, account, sessions, req, now, changes, connected>>

None == -1
Step == {"idle", "status", "subscription", "stamp", "register", "permission",
         "granted", "refused", "limited"}

\* The steps that refuse a user, each for a row of its own.
Checks == {"status", "subscription", "permission"}
Refusing ==
  {c \in Checks : \/ c = "status" /\ banned
                  \/ c = "subscription" /\ subscription # "valid"
                  \/ c = "permission" /\ ~permitted}

\* A request: where it is, its device, the limit it read and its score; and two
\* facts about its past, which checks would have refused it all along, and
\* whether another device was stamped after it.
Req == [pc : Step, device : Device, limit : Limits, score : 0..MaxTime,
        doomed : SUBSET Checks, overtaken : BOOLEAN]

TypeOK ==
  /\ mustLogin \in BOOLEAN /\ secret \in BOOLEAN
  /\ banned \in BOOLEAN /\ subscription \in {"none", "expired", "valid"}
  /\ limit \in Limits /\ permitted \in BOOLEAN
  /\ sessions \in [Device -> 0..MaxTime \cup {None}]
  /\ req \in [Request -> Req]
  /\ now \in 0..MaxTime /\ changes \in 0..MaxChange
  /\ connected \subseteq Device

Init ==
  /\ mustLogin \in BOOLEAN /\ secret \in BOOLEAN
  /\ banned = FALSE /\ subscription = "valid" /\ limit \in Limits /\ permitted = TRUE
  /\ sessions = [d \in Device |-> None]
  /\ \E d \in Device : req = [r \in Request |->
       [pc |-> "idle", device |-> d, limit |-> limit, score |-> 0,
        doomed |-> {}, overtaken |-> FALSE]]
  /\ now = 0 /\ changes = 0 /\ connected = {}

-----------------------------------------------------------------------------
Goto(r, step) == req' = [req EXCEPT ![r].pc = step]

\* Only rows and Redis are read while a request goes on.
Reads(r, step) ==
  /\ req[r].pc = step
  /\ UNCHANGED <<switches, account, now, changes, connected>>

\* A row that cannot be read refuses.
DbError(r) == Faults /\ Goto(r, "refused")

\* The licence key, the flag and the token are looked at without waiting.  A
\* token is empty, not valid or expired, or good.
Arrive(r) ==
  /\ req[r].pc \in {"idle", "granted", "refused", "limited"}
  /\ \E d \in Device, licensed \in BOOLEAN, token \in {"none", "bad", "good"} :
       LET answer == CASE ~licensed -> "refused"
                       [] ~mustLogin -> "granted"
                       [] token = "none" -> "refused"
                       [] ~secret -> "granted"
                       [] token = "bad" -> "refused"
                       [] OTHER -> "status"
       IN /\ req' = [req EXCEPT ![r] =
                      [@ EXCEPT !.pc = answer, !.device = d, !.limit = limit, !.score = 0,
                        !.doomed = IF answer = "status" THEN Refusing ELSE {},
                        !.overtaken = FALSE]]
          /\ connected' = IF answer = "granted" THEN connected \cup {d} ELSE connected
  /\ UNCHANGED <<switches, account, sessions, now, changes>>

\* get_user_status.
CheckStatus(r) ==
  /\ Reads(r, "status")
  /\ \/ Goto(r, IF banned THEN "refused" ELSE "subscription")
     \/ DbError(r)
  /\ UNCHANGED sessions

\* get_subscription_status: none and expired are refused, the limit is kept.
CheckSubscription(r) ==
  /\ Reads(r, "subscription")
  /\ \/ /\ subscription = "valid"
        /\ req' = [req EXCEPT ![r].pc = "stamp", ![r].limit = limit]
     \/ subscription # "valid" /\ Goto(r, "refused")
     \/ DbError(r)
  /\ UNCHANGED sessions

\* check_and_register: the score is hbbs's time ...
Stamp(r) ==
  /\ Reads(r, "stamp")
  /\ req' = [q \in Request |->
       IF q = r THEN [req[r] EXCEPT !.pc = "register", !.score = now]
       ELSE [req[q] EXCEPT !.overtaken =
               @ \/ (req[q].pc = "register" /\ req[q].device # req[r].device)]]
  /\ UNCHANGED sessions

Members(s) == {d \in Device : s[d] # None}

\* The n members with the lowest scores, names breaking ties.
Lowest(s, n) ==
  {d \in Members(s) :
     Cardinality({e \in Members(s) : s[e] < s[d] \/ (s[e] = s[d] /\ e < d)}) < n}

\* ... and the script adds the device and pops the oldest ones over the limit.
Popped(s, max) ==
  LET count == Cardinality(Members(s)) IN
  IF count <= max THEN {} ELSE Lowest(s, count - max)

\* A device that has popped itself is refused.  A failure of Redis lets it
\* through, whether the script has run or not.
Register(r) ==
  /\ Reads(r, "register")
  /\ LET d == req[r].device
         added == [sessions EXCEPT ![d] = req[r].score]
         popped == Popped(added, req[r].limit)
         after == [e \in Device |-> IF e \in popped THEN None ELSE added[e]]
     IN \/ sessions' = after /\ Goto(r, IF d \in popped THEN "limited" ELSE "permission")
        \/ Faults /\ sessions' \in {sessions, after} /\ Goto(r, "permission")

\* check_device_permission, after the session was registered.
CheckPermission(r) ==
  /\ req[r].pc = "permission"
  /\ \/ /\ permitted
        /\ Goto(r, "granted") /\ connected' = connected \cup {req[r].device}
     \/ ~permitted /\ Goto(r, "refused") /\ UNCHANGED connected
     \/ DbError(r) /\ UNCHANGED connected
  /\ UNCHANGED <<switches, account, sessions, now, changes>>

\* The rows change, or the administrator changes MUST_LOGIN (check_cmd).
ChangeAccount ==
  /\ changes < MaxChange /\ changes' = changes + 1
  /\ \/ banned' = ~banned /\ UNCHANGED <<subscription, limit, permitted>>
     \/ /\ subscription' \in {"none", "expired", "valid"} \ {subscription}
        /\ UNCHANGED <<banned, limit, permitted>>
     \/ limit' \in Limits \ {limit} /\ UNCHANGED <<banned, subscription, permitted>>
     \/ permitted' = ~permitted /\ UNCHANGED <<banned, subscription, limit>>
  /\ req' = [r \in Request |-> [req[r] EXCEPT !.doomed = @ \cap Refusing']]
  /\ UNCHANGED <<switches, sessions, now, connected>>

MustLogin ==
  /\ changes < MaxChange /\ changes' = changes + 1
  /\ mustLogin' = ~mustLogin
  /\ UNCHANGED <<secret, account, sessions, req, now, connected>>

Tick ==
  /\ now < MaxTime /\ now' = now + 1
  /\ UNCHANGED <<switches, account, sessions, req, changes, connected>>

\* A device ends what it was let through for; hbbs does not learn of it.
End(d) ==
  /\ d \in connected /\ connected' = connected \ {d}
  /\ UNCHANGED <<switches, account, sessions, req, now, changes>>

Serve(r) ==
  \/ CheckStatus(r) \/ CheckSubscription(r) \/ Stamp(r) \/ Register(r)
  \/ CheckPermission(r)

Next ==
  \/ \E r \in Request : Arrive(r) \/ Serve(r)
  \/ ChangeAccount \/ MustLogin \/ Tick
  \/ \E d \in Device : End(d)

Spec == Init /\ [][Next]_vars

-----------------------------------------------------------------------------
\* A request of a user who lacks one of the rights all the while it is served goes
\* nowhere, whatever changes in between.  (One who lacks now this and now that may
\* get through: each row is read once, and at another time.)
DoomedIsRefused == \A r \in Request : req[r].doomed # {} => req[r].pc # "granted"

\* The limit turns no device away that came last: a request is refused for it
\* only if another device's was stamped before this one's was registered, or in
\* the same millisecond, or if nothing at all is allowed.
LimitedIsOvertaken ==
  \A r \in Request :
    req[r].pc = "register" /\ req'[r].pc = "limited"
    => \/ req[r].overtaken \/ req[r].limit <= 0
       \/ \E d \in Device \ {req[r].device} : sessions[d] = req[r].score

\* No more devices hold a session than the last registration allowed, and they
\* are the ones with the highest scores of those it looked at.
NewestKeepSessions ==
  \A r \in Request :
    req[r].pc = "register" /\ req'[r].pc # "register" /\ sessions' # sessions
    => LET before == Members(sessions) \cup {req[r].device}
           Score(d) == IF d = req[r].device THEN req[r].score ELSE sessions[d]
       IN /\ Cardinality(Members(sessions')) <= req[r].limit \/ Members(sessions') = {}
          /\ \A d \in Members(sessions'), e \in before \ Members(sessions') :
               Score(e) <= Score(d)

\* No more devices are connected at the same time than the subscription allows.
WithinLimit == mustLogin /\ secret => Cardinality(connected) <= limit
=============================================================================
