----------------------------- MODULE MCServices -----------------------------
(***************************************************************************)
(* Instances for TLC of what hbbs does beside registration and punching,   *)
(* and of the components of the admin API.                                 *)
(***************************************************************************)
EXTENDS SideBySide, Integers, FiniteSets

CONSTANTS
  q1, q2, r1, r2, k1, k2, t1, t2, t3, p1, p2, p3, u1, u2, c1, c2, i1, n1, n2,
  NoUser

\* Two punch requests of a user with two devices, of which one may connect.
Punch == INSTANCE PunchAuthorization WITH
  Device <- {1, 2}, Request <- {q1, q2}, Limits <- {1}, MaxTime <- 1,
  MaxChange <- 2, Faults <- TRUE,
  mustLogin <- x1, secret <- x2, banned <- x3, subscription <- x4, limit <- x5,
  permitted <- x6, sessions <- x7, req <- x8, now <- x9, changes <- x10,
  connected <- x11

\* Two relays, two checks of them at the same time.
Selection == INSTANCE RelaySelection WITH
  Relay <- {r1, r2}, Check <- {k1, k2}, MaxChange <- 2,
  relayServers0 <- x1, relayServers <- x2, queue <- x3, dialling <- x4,
  answered <- x5, alwaysUseRelay <- x6, up <- x7, changes <- x8, wanted <- x9

\* Two servers of the pool, one request at a time ...
Pool == INSTANCE ServerPool WITH
  Server <- {1, 2}, Task <- {t1}, Probe <- {k1}, MaxChange <- 3,
  RedisFails <- FALSE,
  unborn <- x1, gone <- x2, active <- x3, online <- x4, up <- x5, redis <- x6,
  pc <- x7, todo <- x8, found <- x9, seen <- x10, topology <- x11, queue <- x12,
  got <- x13, changes <- x14, asked <- x15, steady <- x16

\* ... and two at once, while Redis may fail.
PoolTasks == INSTANCE ServerPool WITH
  Server <- {1, 2}, Task <- {t1, t2}, Probe <- {}, MaxChange <- 3,
  RedisFails <- TRUE,
  unborn <- x1, gone <- x2, active <- x3, online <- x4, up <- x5, redis <- x6,
  pc <- x7, todo <- x8, found <- x9, seen <- x10, topology <- x11, queue <- x12,
  got <- x13, changes <- x14, asked <- x15, steady <- x16

\* A host that registers from three addresses ...
Paced == INSTANCE RegistrationPace WITH
  Ip <- {p1, p2, p3}, Task <- {t1}, Burst <- 3, Pace <- 2, Duration <- 2,
  MaxStreak <- 5,
  at <- x1, reg <- x2, changes <- x3, changesAge <- x4, task <- x5, streak <- x6,
  quiet <- x7, moved <- x8

\* ... and from one, two registrations handled at once.
PaceTasks == INSTANCE RegistrationPace WITH
  Ip <- {p1}, Task <- {t1, t2}, Burst <- 3, Pace <- 2, Duration <- 1,
  MaxStreak <- 12,
  at <- x1, reg <- x2, changes <- x3, changesAge <- x4, task <- x5, streak <- x6,
  quiet <- x7, moved <- x8

\* Servers in use and reachable, and any; users with nothing assigned, and any.
UpServer ==
  [isActive : {TRUE}, isOnline : {TRUE}, region : {"CN", "HK"}, priority : {0, 1},
   cost : {1, 2}, wss : BOOLEAN]
AnyServer ==
  [isActive : BOOLEAN, isOnline : BOOLEAN, region : {"CN", "HK"}, priority : {0, 1},
   cost : {1}, wss : BOOLEAN]
Stranger == [custom |-> FALSE, primary |-> <<>>, backup |-> <<>>, package |-> {}]
AnyUser ==
  [custom : BOOLEAN, primary : {<<>>, <<1>>, <<2>>}, backup : {<<>>, <<2>>},
   package : SUBSET {1, 2}]

\* Every table of three servers whose lines are up, for users with nothing assigned
\* ...
Scheduler == INSTANCE ServerScheduler WITH
  Id <- {1, 2, 3}, Anywhere <- "OTHER", Region <- {"CN", "HK", "OTHER"},
  ClientRegion <- {"CN", "OTHER"}, NoRegion <- "", Priority <- {0, 1}, Cost <- {1, 2},
  Rows <- [{1, 2, 3} -> UpServer], Users <- {Stranger},
  rows <- x1, user <- x2, region <- x3, isRestricted <- x4, given <- x5

\* ... and every table of two, for users with anything assigned.
Assigned == INSTANCE ServerScheduler WITH
  Id <- {1, 2}, Anywhere <- "OTHER", Region <- {"CN", "HK", "OTHER"},
  ClientRegion <- {"CN", "OTHER"}, NoRegion <- "", Priority <- {0, 1}, Cost <- {1},
  Rows <- [{1, 2} -> AnyServer], Users <- AnyUser,
  rows <- x1, user <- x2, region <- x3, isRestricted <- x4, given <- x5

\* Two accounts, one request at a time ...
OneTask == INSTANCE Accounts WITH
  User <- {u1, u2}, Task <- {t1}, MaxChange <- 2, MaxToken <- 1,
  rows <- x1, isAdmin <- x2, enabled <- x3, password <- x4, old <- x5,
  tokens <- x6, pc <- x7, who <- x8, saw <- x9, form <- x10, set <- x11

\* ... and one account, two requests at once.
TwoTasks == INSTANCE Accounts WITH
  User <- {u1}, Task <- {t1, t2}, MaxChange <- 2, MaxToken <- 2,
  rows <- x1, isAdmin <- x2, enabled <- x3, password <- x4, old <- x5,
  tokens <- x6, pc <- x7, who <- x8, saw <- x9, form <- x10, set <- x11

\* Two codes for days or a lifetime, a user and one yet to register ...
Codes == INSTANCE Activation WITH
  User <- {u1, u2}, Guest <- {u2}, Code <- {c1, c2}, Task <- {t1}, Days <- {1, -1},
  MaxTime <- 2, Faults <- FALSE,
  validDays <- x1, first <- x2, exists <- x3, codeDays <- x4, usedBy <- x5,
  pc <- x6, who <- x7, code <- x8, days <- x9, now <- x10, applied <- x11,
  start <- x12

\* ... while writes may fail.
FailingCodes == INSTANCE Activation WITH
  User <- {u1, u2}, Guest <- {u2}, Code <- {c1, c2}, Task <- {t1}, Days <- {1, -1},
  MaxTime <- 2, Faults <- TRUE,
  validDays <- x1, first <- x2, exists <- x3, codeDays <- x4, usedBy <- x5,
  pc <- x6, who <- x7, code <- x8, days <- x9, now <- x10, applied <- x11,
  start <- x12

\* Two logins at once, a captcha after one failure, a ban after four ...
Limiter == INSTANCE LoginLimiter WITH
  Task <- {t1, t2}, Captcha <- {c1}, CaptchaThreshold <- 1, BanThreshold <- 4,
  Window <- 2, BanDuration <- 1, Expiration <- 1, MaxTime <- 3,
  attempts <- x1, banned <- x2, captchas <- x3, pc <- x4, needs <- x5, now <- x6,
  free <- x7, under <- x8, spent <- x9, drawn <- x10

\* ... and three, each with a captcha, a ban after two.
Ban == INSTANCE LoginLimiter WITH
  Task <- {t1, t2, t3}, Captcha <- {c1}, CaptchaThreshold <- 0, BanThreshold <- 2,
  Window <- 2, BanDuration <- 2, Expiration <- 1, MaxTime <- 4,
  attempts <- x1, banned <- x2, captchas <- x3, pc <- x4, needs <- x5, now <- x6,
  free <- x7, under <- x8, spent <- x9, drawn <- x10

\* Forgotten passwords, one request at a time ...
Reset == INSTANCE PasswordReset WITH
  Task <- {t1}, Expire <- 3, Cooldown <- 1, UsedFor <- 2, Faults <- FALSE,
  MaxMails <- 4,
  file <- x1, task <- x2, mails <- x3, mailAge <- x4, settled <- x5, resets <- x6

\* ... while mail and database may fail.
FailingReset == INSTANCE PasswordReset WITH
  Task <- {t1}, Expire <- 3, Cooldown <- 1, UsedFor <- 2, Faults <- TRUE,
  MaxMails <- 4,
  file <- x1, task <- x2, mails <- x3, mailAge <- x4, settled <- x5, resets <- x6

\* Two logins with a third party, one after the other ...
Oidc == INSTANCE OidcLogin WITH
  Caller <- {c1}, MaxAuth <- 2, QueryTimeout <- 1, CacheTimeout <- 2,
  MaxQuery <- 2, MaxCallback <- 1, Lossy <- FALSE,
  keep_querying <- x1, running <- x2, code_url <- x3, auth_body <- x4,
  failed <- x5, caller <- x6, last <- x7, task <- x8, left <- x9, cache <- x10,
  authorized <- x11, timer <- x12, served <- x13, answered <- x14, asking <- x15,
  storing <- x16, tokens <- x17

\* ... and with answers that get lost.
LossyOidc == INSTANCE OidcLogin WITH
  Caller <- {c1}, MaxAuth <- 2, QueryTimeout <- 1, CacheTimeout <- 2,
  MaxQuery <- 2, MaxCallback <- 1, Lossy <- TRUE,
  keep_querying <- x1, running <- x2, code_url <- x3, auth_body <- x4,
  failed <- x5, caller <- x6, last <- x7, task <- x8, left <- x9, cache <- x10,
  authorized <- x11, timer <- x12, served <- x13, answered <- x14, asking <- x15,
  storing <- x16, tokens <- x17

\* A machine whose uploads get lost, two users who log in on it ...
Devices == INSTANCE DeviceList WITH
  Id <- {i1}, Name <- {n1}, User <- {u1, u2}, Beat <- 1, Pace <- 1, Retry <- 1,
  Serial <- TRUE, Fails <- TRUE, Changes <- 0, Restarts <- 1, Deletes <- 1,
  MaxLogins <- 2, MaxRows <- 2, PaceComment <- 0, Slot <- {1, 2},
  me <- x1, client <- x2, upload <- x3, rows <- x4, logins <- x5, session <- x6,
  left <- x7

\* ... and one with intervals in the proportions of the code's, whose user changes
\* name.
TimedDevices == INSTANCE DeviceList WITH
  Id <- {i1}, Name <- {n1, n2}, User <- {u1}, Beat <- 5, Pace <- 10, Retry <- 40,
  Serial <- FALSE, Fails <- FALSE, Changes <- 2, Restarts <- 0, Deletes <- 0,
  MaxLogins <- 1, MaxRows <- 3, PaceComment <- 0, Slot <- {1, 2},
  me <- x1, client <- x2, upload <- x3, rows <- x4, logins <- x5, session <- x6,
  left <- x7

ASSUME ServicesAssumption ==
  /\ Punch!AuthorizationAssumption /\ Selection!SelectionAssumption
  /\ Pool!PoolAssumption /\ PoolTasks!PoolAssumption
  /\ Paced!PaceAssumption /\ PaceTasks!PaceAssumption
  /\ Scheduler!SchedulerAssumption /\ Assigned!SchedulerAssumption
  /\ OneTask!AccountsAssumption /\ TwoTasks!AccountsAssumption
  /\ Codes!ActivationAssumption /\ FailingCodes!ActivationAssumption
  /\ Limiter!LoginLimiterAssumption /\ Ban!LoginLimiterAssumption
  /\ Reset!TimesAssumption /\ FailingReset!TimesAssumption
  /\ Oidc!OidcLoginAssumption /\ LossyOidc!OidcLoginAssumption
  /\ Devices!DeviceListAssumption /\ TimedDevices!DeviceListAssumption

Init ==
  \/ Begin("punch", 11) /\ Punch!Init
  \/ Begin("selection", 9) /\ Selection!Init
  \/ Begin("pool", 16) /\ Pool!Init
  \/ Begin("pool tasks", 16) /\ PoolTasks!Init
  \/ Begin("pace", 8) /\ Paced!Init
  \/ Begin("pace tasks", 8) /\ PaceTasks!Init
  \/ Begin("scheduler", 5) /\ Scheduler!Init
  \/ Begin("assigned", 5) /\ Assigned!Init
  \/ Begin("accounts", 11) /\ OneTask!Init
  \/ Begin("accounts tasks", 11) /\ TwoTasks!Init
  \/ Begin("codes", 12) /\ Codes!Init
  \/ Begin("failing codes", 12) /\ FailingCodes!Init
  \/ Begin("limiter", 10) /\ Limiter!Init
  \/ Begin("ban", 10) /\ Ban!Init
  \/ Begin("reset", 6) /\ Reset!Init
  \/ Begin("failing reset", 6) /\ FailingReset!Init
  \/ Begin("oidc", 17) /\ Oidc!Init
  \/ Begin("lossy oidc", 17) /\ LossyOidc!Init
  \/ Begin("devices", 7) /\ Devices!Init
  \/ Begin("timed devices", 7) /\ TimedDevices!Init

Next ==
  \/ Go("punch", 11) /\ Punch!Next
  \/ Go("selection", 9) /\ Selection!Next
  \/ Go("pool", 16) /\ Pool!Next
  \/ Go("pool tasks", 16) /\ PoolTasks!Next
  \/ Go("pace", 8) /\ Paced!Next
  \/ Go("pace tasks", 8) /\ PaceTasks!Next
  \/ Go("scheduler", 5) /\ Scheduler!Next
  \/ Go("assigned", 5) /\ Assigned!Next
  \/ Go("accounts", 11) /\ OneTask!Next
  \/ Go("accounts tasks", 11) /\ TwoTasks!Next
  \/ Go("codes", 12) /\ Codes!Next
  \/ Go("failing codes", 12) /\ FailingCodes!Next
  \/ Go("limiter", 10) /\ Limiter!Next
  \/ Go("ban", 10) /\ Ban!Next
  \/ Go("reset", 6) /\ Reset!Next
  \/ Go("failing reset", 6) /\ FailingReset!Next
  \/ Go("oidc", 17) /\ Oidc!Next
  \/ Go("lossy oidc", 17) /\ LossyOidc!Next
  \/ Go("devices", 7) /\ Devices!Next
  \/ Go("timed devices", 7) /\ TimedDevices!Next

Spec == Init /\ [][Next]_all

-----------------------------------------------------------------------------
\* Every part keeps its types.
TypeOK ==
  /\ part = "punch" => Punch!TypeOK
  /\ part = "selection" => Selection!TypeOK
  /\ part = "pool" => Pool!TypeOK
  /\ part = "pool tasks" => PoolTasks!TypeOK
  /\ part = "pace" => Paced!TypeOK
  /\ part = "pace tasks" => PaceTasks!TypeOK
  /\ part = "scheduler" => Scheduler!TypeOK
  /\ part = "assigned" => Assigned!TypeOK
  /\ part = "accounts" => OneTask!TypeOK
  /\ part = "accounts tasks" => TwoTasks!TypeOK
  /\ part = "codes" => Codes!TypeOK
  /\ part = "failing codes" => FailingCodes!TypeOK
  /\ part = "limiter" => Limiter!TypeOK
  /\ part = "ban" => Ban!TypeOK
  /\ part = "reset" => Reset!TypeOK
  /\ part = "failing reset" => FailingReset!TypeOK
  /\ part = "oidc" => Oidc!TypeOK
  /\ part = "lossy oidc" => LossyOidc!TypeOK
  /\ part = "devices" => Devices!TypeOK
  /\ part = "timed devices" => TimedDevices!TypeOK

\* What the modules promise, by subject.  Each promise is of the part it is about,
\* and stated with the code it is about in that part's module.

\* The relay list of hbbs never becomes empty, the published list is the rows in use
\* when no request is under way, a check stores what a dial showed, and the scheduler
\* sorts by an order, puts the region first and offers a server in use.
RelaysAreOffered ==
  /\ [](/\ part = "selection" => Selection!NeverEmptied
        /\ part = "pool" => Pool!PublishedIsCurrent
        /\ part = "scheduler" => Scheduler!SortIsAnOrder /\ Scheduler!RegionComesFirst
        /\ part = "assigned" => Assigned!OfferedIsUsable)
  /\ [][part = "pool tasks" => PoolTasks!CheckTellsTheTruth]_all

\* Requests served one at a time leave an administrator and the password last set;
\* tokens of a former password do not outlive the flush that follows it, whatever runs
\* beside it; and a code of days is applied once, whole, and marked also when a write
\* fails.
AccountsAreKept ==
  /\ [](/\ part = "accounts" => OneTask!AnAdminStays /\ OneTask!PasswordStands
        /\ part = "accounts tasks" => TwoTasks!FormerTokensAreGone
        /\ part = "codes" => Codes!CodeAppliedOnce /\ Codes!DaysAreKept)
  /\ [][part = "failing codes" => FailingCodes!RedeemedIsMarked]_all

\* Registrations, passwords and captchas stay within their limits, overshot by no more
\* than the requests under way, and what a limit refuses is not counted.  A punch request
\* that one check would have refused all the while is refused; a device over the limit
\* of sessions has been overtaken by a newer one, and Redis keeps the newest.
LimitsHold ==
  /\ [](/\ part = "pace" => Paced!StreakIsBounded /\ Paced!ReportIsOfOnePeriod
        /\ part = "pace tasks" => PaceTasks!OverrunIsBounded
        /\ part = "limiter" => Limiter!CaptchaServesOnce /\ Limiter!FreeTriesAreBounded
        /\ part = "ban" => Ban!TriesUnderBanAreBounded
        /\ part = "punch" => Punch!DoomedIsRefused)
  /\ [][/\ part = "pace" => Paced!RefusalsDoNotCount
        /\ part = "punch" => Punch!LimitedIsOvertaken /\ Punch!NewestKeepSessions]_all


=============================================================================
