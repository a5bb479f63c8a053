----------------------------- MODULE MCProgress -----------------------------
(***************************************************************************)
(* Instances for TLC in which something must happen in the end.            *)
(***************************************************************************)
EXTENDS SideBySide, Integers, FiniteSets

CONSTANTS
  h1, h2, NoHost, i1, i2, i3, f1, NoEnd, j1, j2, s1, t1, t2, t3, k1, r1, r2, c1,
  n1, u1, NoUser, d1, d2  \* model values

\* A host and a server that may restart, with losses, delays, a limit and a
\* deployment token ...
Registering == INSTANCE Mediator WITH
  Host <- {h1}, Id <- {i1}, FirstId <- i1, Taken <- [h \in {h1} |-> {}],
  Public <- FALSE, RegInterval <- 1, MinRegTimeout <- 1, MaxRegTimeout <- 1,
  DeployRetry <- 1, MaxFails1 <- 1, MaxFails2 <- 1, RegTimeout <- 2,
  Prompt <- FALSE, Faults <- {"loss", "restart", "deploy", "limit"},
  MaxRestart <- 1, MaxDraw <- 0, MaxLoss <- 0, MaxQuiet <- 0, Tolerance <- 0,
  id <- x1, keyConfirmed <- x2, hostConfirmed <- x3, solving <- x4,
  needsDeploy <- x5, deployAge <- x6, due <- x7, sent <- x8, resp <- x9,
  fails <- x10, regTimeout <- x11, shown <- x12, up <- x13, down <- x14,
  row <- x15, mem <- x16, seen <- x17, deployed <- x18, restarts <- x19,
  draws <- x20, lost <- x21, quiet <- x22

\* ... and one at which its first id is taken.
Taken == INSTANCE Mediator WITH
  Host <- {h1}, Id <- {i1, i2, i3}, FirstId <- i1, Taken <- [h \in {h1} |-> {i1}],
  Public <- FALSE, RegInterval <- 1, MinRegTimeout <- 1, MaxRegTimeout <- 1,
  DeployRetry <- 1, MaxFails1 <- 1, MaxFails2 <- 1, RegTimeout <- 2,
  Prompt <- TRUE, Faults <- {"loss"}, MaxRestart <- 1, MaxDraw <- 0, MaxLoss <- 0,
  MaxQuiet <- 0, Tolerance <- 0,
  id <- x1, keyConfirmed <- x2, hostConfirmed <- x3, solving <- x4,
  needsDeploy <- x5, deployAge <- x6, due <- x7, sent <- x8, resp <- x9,
  fails <- x10, regTimeout <- x11, shown <- x12, up <- x13, down <- x14,
  row <- x15, mem <- x16, seen <- x17, deployed <- x18, restarts <- x19,
  draws <- x20, lost <- x21, quiet <- x22

\* A user changes the servers and stops the service while mediators fail.
Restart == INSTANCE MediatorRestart WITH
  Host <- {h1, h2}, MaxChange <- 2,
  servers <- x1, stopped <- x2, shouldExit <- x3, manual <- x4, pc <- x5,
  used <- x6, running <- x7, ending <- x8, user <- x9, changes <- x10, told <- x11,
  swallowed <- x12

\* A viewer whose messages are lost.
Flows == INSTANCE ConnectionSetup WITH
  Flow <- {f1}, Attempts <- 1, Copies <- 1, Lossy <- TRUE, ForceRelay <- FALSE,
  flow <- x1, sinks <- x2, inbox <- x3, answers <- x4, job <- x5, last <- x6,
  recent <- x7, parked <- x8

\* Two downloads read by the connection manager, of files one of which may fail.
Downloads == INSTANCE FileTransfer WITH
  Jobs <- {j1, j2}, Files <- 2, Blocks <- 1, Present <- {2}, Left <- {},
  Delegated <- TRUE, MaxErrors <- 1, MaxLosses <- 0, Cancels <- TRUE,
  queue <- x1, readers <- x2, writers <- x3, disk <- x4, toHost <- x5,
  toClient <- x6, asked <- x7, answered <- x8, status <- x9, saved <- x10,
  errors <- x11, losses <- x12

\* A session that connects again while its clipboard loop is leaving.
Clipboard == INSTANCE ClipboardLoop WITH
  Session <- {s1}, MaxRounds <- 3, Thread <- {t1, t2, t3}, Overlap <- "loop",
  Fails <- TRUE,
  round <- x1, state <- x2, job <- x3, running <- x4, loop <- x5, subscriber <- x6

\* A server of the pool.
Pool == INSTANCE ServerPool WITH
  Server <- {1}, Task <- {t1}, Probe <- {k1}, MaxChange <- 3, RedisFails <- FALSE,
  unborn <- x1, gone <- x2, active <- x3, online <- x4, up <- x5, redis <- x6,
  pc <- x7, todo <- x8, found <- x9, seen <- x10, topology <- x11, queue <- x12,
  got <- x13, changes <- x14, asked <- x15, steady <- x16

\* Two relays and a check.
Selection == INSTANCE RelaySelection WITH
  Relay <- {r1, r2}, Check <- {k1}, MaxChange <- 2,
  relayServers0 <- x1, relayServers <- x2, queue <- x3, dialling <- x4,
  answered <- x5, alwaysUseRelay <- x6, up <- x7, changes <- x8, wanted <- x9

\* Two logins with a third party.
Oidc == INSTANCE OidcLogin WITH
  Caller <- {c1}, MaxAuth <- 2, QueryTimeout <- 1, CacheTimeout <- 1,
  MaxQuery <- 1, MaxCallback <- 1, Lossy <- FALSE,
  keep_querying <- x1, running <- x2, code_url <- x3, auth_body <- x4,
  failed <- x5, caller <- x6, last <- x7, task <- x8, left <- x9, cache <- x10,
  authorized <- x11, timer <- x12, served <- x13, answered <- x14, asking <- x15,
  storing <- x16, tokens <- x17

\* A machine that changes its id, and whose uploads may fail.
Devices == INSTANCE DeviceList WITH
  Id <- {i1, i2}, Name <- {n1}, User <- {u1}, Slot <- {1}, Beat <- 1, Pace <- 1,
  PaceComment <- 0, Retry <- 1, Serial <- TRUE, Fails <- TRUE, Changes <- 1,
  Restarts <- 0, Deletes <- 0, MaxLogins <- 0, MaxRows <- 2,
  me <- x1, client <- x2, upload <- x3, rows <- x4, logins <- x5, session <- x6,
  left <- x7

\* A terminal whose client comes back.
Terminals == INSTANCE TerminalService WITH
  Conns <- {1, 2}, Terms <- {1}, Capacity <- 1, Replay <- 1, Overlap <- TRUE,
  Options <- {TRUE, FALSE}, MaxOutput <- 1,
  service <- x1, sessions <- x2, link <- x3, thread <- x4, got <- x5, told <- x6

\* Two viewers of a display, who come and go ...
Video == INSTANCE VideoService WITH
  Conns <- {d1, d2}, Closing <- FALSE, Timeouts <- FALSE, MaxQueue <- 1,
  MaxJoins <- 1,
  member <- x1, conn <- x2, joins <- x3, refresh <- x4, thread <- x5, switch <- x6,
  synced <- x7, queue <- x8, sent <- x9, fetched <- x10, notes <- x11, told <- x12,
  picture <- x13, asking <- x14

\* ... and one whose connection closes, or is too slow.
ClosingVideo == INSTANCE VideoService WITH
  Conns <- {d1}, Closing <- TRUE, Timeouts <- TRUE, MaxQueue <- 1, MaxJoins <- 2,
  member <- x1, conn <- x2, joins <- x3, refresh <- x4, thread <- x5, switch <- x6,
  synced <- x7, queue <- x8, sent <- x9, fetched <- x10, notes <- x11, told <- x12,
  picture <- x13, asking <- x14

\* A viewer whose network is good, slow or bad.
Qos == INSTANCE VideoQos WITH
  Users <- {1}, Delays <- {20, 120, 700}, Elapsed <- {}, CustomFps <- {},
  FPS <- 23, INIT_FPS <- 15, MIN_FPS <- 1, MinFps <- 10, NormalFps <- 20,
  Threshold <- 150, WindowSamples <- 3, MinSamples <- 2, Joins <- TRUE,
  users <- x1, fps <- x2, recent <- x3, reported <- x4

ASSUME ProgressAssumption ==
  /\ Registering!HostAssumption /\ Registering!TakenAssumption /\ Registering!TimeAssumption
  /\ Taken!HostAssumption /\ Taken!TakenAssumption /\ Taken!TimeAssumption
  /\ Restart!ChangeAssumption /\ Flows!SetupAssumption /\ Downloads!TransferAssumption
  /\ Clipboard!LoopAssumption /\ Terminals!TerminalAssumption
  /\ Pool!PoolAssumption /\ Selection!SelectionAssumption
  /\ Oidc!OidcLoginAssumption /\ Devices!DeviceListAssumption
  /\ Video!VideoAssumption /\ Qos!QosAssumption

Init ==
  \/ Begin("mediator", 22) /\ Registering!Init
  \/ Begin("taken", 22) /\ Taken!Init
  \/ Begin("restart", 12) /\ Restart!Init
  \/ Begin("flow", 8) /\ Flows!Init
  \/ Begin("jobs", 12) /\ Downloads!Init
  \/ Begin("clipboard", 6) /\ Clipboard!Init
  \/ Begin("pool", 16) /\ Pool!Init
  \/ Begin("selection", 9) /\ Selection!Init
  \/ Begin("oidc", 17) /\ Oidc!Init
  \/ Begin("devices", 7) /\ Devices!Init
  \/ Begin("terminals", 6) /\ Terminals!Init
  \/ Begin("video", 14) /\ Video!Init
  \/ Begin("closing video", 14) /\ ClosingVideo!Init
  \/ Begin("qos", 4) /\ Qos!Init

Next ==
  \/ Go("mediator", 22) /\ Registering!Next
  \/ Go("taken", 22) /\ Taken!Next
  \/ Go("restart", 12) /\ Restart!Next
  \/ Go("flow", 8) /\ Flows!Next
  \/ Go("jobs", 12) /\ Downloads!Next
  \/ Go("clipboard", 6) /\ Clipboard!Next
  \/ Go("pool", 16) /\ Pool!Next
  \/ Go("selection", 9) /\ Selection!Next
  \/ Go("oidc", 17) /\ Oidc!Next
  \/ Go("devices", 7) /\ Devices!Next
  \/ Go("terminals", 6) /\ Terminals!Next
  \/ Go("video", 14) /\ Video!Next
  \/ Go("closing video", 14) /\ ClosingVideo!Next
  \/ Go("qos", 4) /\ Qos!Next

\* The steps that each part's module is fair to.  A behaviour is one part's, so the
\* k-th of one and the k-th of another share a condition.
Weakly(k) ==
  \/ /\ Go("mediator", 22)
     /\ \/ k = 1 /\ Registering!Pass
        \/ k = 2 /\ Registering!Deploy
        \/ k = 3 /\ Registering!TimerTick(h1)
  \/ /\ Go("taken", 22)
     /\ \/ k = 1 /\ Taken!Pass
        \/ k = 2 /\ Taken!Deploy
        \/ k = 3 /\ Taken!TimerTick(h1)
  \/ /\ Go("restart", 12)
     /\ \/ k = 1 /\ (Restart!TellExit \/ Restart!TellManual)
        \/ k = 2 /\ Restart!Turn
        \/ k = 3 /\ Restart!Leave(h1)
        \/ k = 4 /\ Restart!Finish(h1)
        \/ k = 5 /\ Restart!Leave(h2)
        \/ k = 6 /\ Restart!Finish(h2)
  \/ /\ Go("flow", 8)
     /\ \/ k = 1 /\ Flows!Viewer(f1)
        \/ k = 2 /\ \E j \in Flows!Jobs : j.kind = "punch" /\ Flows!Host(j)
        \/ k = 3 /\ \E j \in Flows!Jobs : j.kind = "relay" /\ Flows!Host(j)
  \/ /\ Go("jobs", 12)
     /\ \/ k = 1 /\ (Downloads!ConnectionTick \/ Downloads!ManagerTick)
        \/ k = 2 /\ Downloads!HostReceives(j1)
        \/ k = 3 /\ Downloads!ClientReceives(j1)
        \/ k = 4 /\ Downloads!HostReceives(j2)
        \/ k = 5 /\ Downloads!ClientReceives(j2)
        \/ \E f \in 1..2 :
             \/ k = 6 /\ Downloads!Answer(j1, f)
             \/ k = 7 /\ Downloads!Answer(j2, f)
  \/ /\ Go("clipboard", 6)
     /\ \/ \E r \in 1..3 :
             /\ k = r
             /\ \/ Clipboard!SetDisconnected(s1, r) \/ Clipboard!TryStop(s1, r)
                \/ Clipboard!Unsubscribe(s1, r) \/ Clipboard!StopRunning(s1, r)
        \/ \E t \in {t1, t2, t3} :
             /\ k = IF t = t1 THEN 4 ELSE IF t = t2 THEN 5 ELSE 6
             /\ \/ Clipboard!LooksAtRunning(t) \/ Clipboard!WaitEnds(t)
                \/ Clipboard!Sent(t) \/ Clipboard!Leaves(t)
  \/ /\ Go("pool", 16)
     /\ \/ k = 1 /\ Pool!Work(t1)
        \/ k = 2 /\ Pool!Refresh
        \/ k = 3 /\ Pool!Receive
        \/ k = 4 /\ Pool!ProbeSend(k1)
  \/ /\ Go("selection", 9)
     /\ \/ k = 1 /\ (Selection!StartCheck(k1) \/ Selection!Dial(k1) \/ Selection!SendCheck(k1))
        \/ k = 2 /\ Selection!Receive
  \/ /\ Go("oidc", 17)
     /\ \/ k = 1 /\ Oidc!Tick
        \/ k = 2 /\ Oidc!Work(1)
        \/ k = 3 /\ Oidc!Work(2)
  \/ /\ Go("devices", 7)
     /\ \/ k = 1 /\ Devices!Tick
        \/ k = 2 /\ Devices!Wake
        \/ k = 3 /\ Devices!Heartbeat
        \/ k = 4 /\ (Devices!Uploaded(1) \/ Devices!AnswerIsDropped(1))
        \/ k = 5 /\ Devices!NotUploaded(1)
        \/ k = 6 /\ Devices!SysInfoWrites(1)
  \/ /\ Go("terminals", 6)
     /\ \E c \in {1, 2} :
        \/ k = 4 * c - 3 /\ Terminals!Drop(c)
        \/ k = 4 * c - 2 /\ Terminals!ThreadLeaves(c)
        \/ k = 4 * c - 1 /\ Terminals!ThreadRemoves(c)
        \/ k = 4 * c /\ Terminals!ReadOutputs(c, 1)
  \/ /\ Go("video", 14)
     /\ \/ k = 1 /\ Video!Thread
        \/ k = 2 /\ Video!Deliver(d1)
        \/ k = 3 /\ Video!Remove(d1)
        \/ k = 4 /\ Video!AskRefresh(d1)
        \/ k = 5 /\ Video!Deliver(d2)
        \/ k = 6 /\ Video!Remove(d2)
        \/ k = 7 /\ Video!AskRefresh(d2)
  \/ /\ Go("closing video", 14)
     /\ \/ k = 1 /\ ClosingVideo!Thread
        \/ k = 2 /\ ClosingVideo!Deliver(d1)
        \/ k = 3 /\ ClosingVideo!Remove(d1)
        \/ k = 4 /\ ClosingVideo!AskRefresh(d1)
  \/ /\ Go("qos", 4)
     /\ \/ k = 1 /\ Qos!Second
        \/ k = 2 /\ \E d \in {20, 120, 700} : Qos!NetworkDelay(1, d)

Strongly(k) ==
  \/ /\ Go("mediator", 22)
     /\ \/ k = 1 /\ Registering!ServePeer(h1)
        \/ k = 2 /\ (Registering!ServePk(h1) \/ Registering!RefusePk(h1))
        \/ k = 3 /\ Registering!Recv(h1)
        \/ k = 4 /\ Registering!RecvOk(h1)
  \/ /\ Go("taken", 22)
     /\ \/ k = 1 /\ Taken!ServePeer(h1)
        \/ k = 2 /\ (Taken!ServePk(h1) \/ Taken!RefusePk(h1))
        \/ k = 3 /\ Taken!Recv(h1)
        \/ k = 4 /\ Taken!RecvOk(h1)
  \/ /\ Go("devices", 7)
     /\ k = 1 /\ Devices!SysInfoReads(1)
  \/ /\ Go("video", 14)
     /\ \/ k = 1 /\ Video!Snapshot
        \/ k = 2 /\ Video!Encode
  \/ /\ Go("closing video", 14)
     /\ \/ k = 1 /\ ClosingVideo!Snapshot
        \/ k = 2 /\ ClosingVideo!Encode

FairSpec ==
  /\ Init /\ [][Next]_all
  /\ \A k \in 1..8 : WF_all(Weakly(k))
  /\ \A k \in 1..4 : SF_all(Strongly(k))

-----------------------------------------------------------------------------
\* Whatever is lost or refused, a host is again and again online at its servers, a
\* change of its options reaches the mediators, and they end together.
HostsComeBack ==
  /\ []<>(part = "mediator" => Registering!Online(h1))
  /\ []<>(part = "taken" => Taken!Online(h1))
  /\ []<>(part = "restart" => Restart!TakenUp) /\ []<>(part = "restart" => Restart!AllOrNone)

\* A connection attempt, a file transfer, a clipboard loop and a login come to an end,
\* and what they leave at the other side ends, too.
EverythingEnds ==
  /\ []<>(part = "flow" => Flows!Settled) /\ <>[](part = "flow" => Flows!NothingLeft)
  /\ \A j \in {j1, j2} : []<>(part = "jobs" => Downloads!Ended(j))
  /\ []<>(part = "clipboard" => Clipboard!CleanedUp)
  /\ []<>(part = "oidc" => Oidc!Ended)

\* A server that is withdrawn is no longer given, a relay's list follows what is reached
\* once that is settled, a device is listed again, and a shell's exit is noticed.
ListsFollow ==
  /\ <>[](part = "pool" => Pool!Withdrawn(1)) => <>[](part = "pool" => Pool!Unused(1))
  /\ <>[](part = "selection" => Selection!Follows)
  /\ []<>(part = "devices" => Devices!IsListed)
  /\ \A c \in {1, 2} : []<>(part = "terminals" => ~Terminals!Unnoticed(c, 1))

\* A viewer that joins sees the display, a spoilt picture is made good, and with a good
\* network the rate is again and again the highest.
PicturesReturn ==
  /\ []<>(part = "closing video" => ~ClosingVideo!Spoilt(d1))
  /\ \A d \in {d1, d2} : []<>(part = "video" => Video!Served(d))
  /\ <>[](part = "qos" => Qos!Good) => []<>(part = "qos" => Qos!Highest)
=============================================================================
