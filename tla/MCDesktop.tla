----------------------------- MODULE MCDesktop ------------------------------
(***************************************************************************)
(* Instances for TLC of the components of the desktop program:             *)
(* registration, connecting and logging in, and what a session carries.    *)
(***************************************************************************)
EXTENDS SideBySide, Naturals, FiniteSets

CONSTANTS
  h1, h2, NoHost, i1, i2, i3, f1, f2, NoEnd, j1, j2, s1, s2, t1, t2, t3, d1, d2,
  d3, NoConn  \* model values

\* The host's registration with the code's own intervals and one server that may
\* restart.
Timed == INSTANCE Mediator WITH
  Host <- {h1}, Id <- {i1}, FirstId <- i1, Taken <- [h \in {h1} |-> {}],
  Public <- TRUE, RegInterval <- 15, MinRegTimeout <- 3, MaxRegTimeout <- 30,
  DeployRetry <- 30, MaxFails1 <- 2, MaxFails2 <- 4, RegTimeout <- 30,
  Prompt <- TRUE, Faults <- {"loss", "restart"}, MaxRestart <- 1, MaxDraw <- 0,
  MaxLoss <- 4, MaxQuiet <- 45, Tolerance <- 2,
  id <- x1, keyConfirmed <- x2, hostConfirmed <- x3, solving <- x4,
  needsDeploy <- x5, deployAge <- x6, due <- x7, sent <- x8, resp <- x9,
  fails <- x10, regTimeout <- x11, shown <- x12, up <- x13, down <- x14,
  row <- x15, mem <- x16, seen <- x17, deployed <- x18, restarts <- x19,
  draws <- x20, lost <- x21, quiet <- x22

\* Its first id is another machine's at both servers.
Refused == INSTANCE Mediator WITH
  Host <- {h1, h2}, Id <- {i1, i2, i3}, FirstId <- i1,
  Taken <- [h \in {h1, h2} |-> {i1}], Public <- FALSE, RegInterval <- 1,
  MinRegTimeout <- 1, MaxRegTimeout <- 1, DeployRetry <- 1, MaxFails1 <- 1,
  MaxFails2 <- 2, RegTimeout <- 2, Prompt <- TRUE, Faults <- {"loss"},
  MaxRestart <- 1, MaxDraw <- 0, MaxLoss <- 0, MaxQuiet <- 0, Tolerance <- 0,
  id <- x1, keyConfirmed <- x2, hostConfirmed <- x3, solving <- x4,
  needsDeploy <- x5, deployAge <- x6, due <- x7, sent <- x8, resp <- x9,
  fails <- x10, regTimeout <- x11, shown <- x12, up <- x13, down <- x14,
  row <- x15, mem <- x16, seen <- x17, deployed <- x18, restarts <- x19,
  draws <- x20, lost <- x21, quiet <- x22

\* A viewer with one flow of two attempts ...
OneFlow == INSTANCE ConnectionSetup WITH
  Flow <- {f1}, Attempts <- 2, Copies <- 1, Lossy <- TRUE, ForceRelay <- FALSE,
  flow <- x1, sinks <- x2, inbox <- x3, answers <- x4, job <- x5, last <- x6,
  recent <- x7, parked <- x8

\* ... with requests that may reach the host twice ...
Doubled == INSTANCE ConnectionSetup WITH
  Flow <- {f1}, Attempts <- 1, Copies <- 2, Lossy <- TRUE, ForceRelay <- FALSE,
  flow <- x1, sinks <- x2, inbox <- x3, answers <- x4, job <- x5, last <- x6,
  recent <- x7, parked <- x8

\* ... and with two that race, through a relay.
TwoFlows == INSTANCE ConnectionSetup WITH
  Flow <- {f1, f2}, Attempts <- 1, Copies <- 1, Lossy <- TRUE, ForceRelay <- TRUE,
  flow <- x1, sinks <- x2, inbox <- x3, answers <- x4, job <- x5, last <- x6,
  recent <- x7, parked <- x8

\* Two viewers of one address guess passwords for a minute and more ...
Login == INSTANCE HostLogin WITH
  Conns <- {1, 2}, Shared <- {}, PerMinute <- 1, MaxPw <- 1, Remote <- {1, 2},
  InAll <- 2, Rotate <- 3, Clicks <- FALSE, MaxTime <- 4,
  now <- x1, pw <- x2, failures <- x3, temp <- x4, sessions <- x5, conns <- x6,
  misses <- x7

\* ... or until the temporary password changes ...
Guesses == INSTANCE HostLogin WITH
  Conns <- {1, 2}, Shared <- {}, PerMinute <- 1, MaxPw <- 2, Remote <- {1, 2},
  InAll <- 2, Rotate <- 2, Clicks <- FALSE, MaxTime <- 1,
  now <- x1, pw <- x2, failures <- x3, temp <- x4, sessions <- x5, conns <- x6,
  misses <- x7

\* ... and one comes back after its link is lost.
Return == INSTANCE HostLogin WITH
  Conns <- {1, 2}, Shared <- {}, PerMinute <- 1, MaxPw <- 2, Remote <- {1},
  InAll <- 1, Rotate <- 1, Clicks <- TRUE, MaxTime <- 3,
  now <- x1, pw <- x2, failures <- x3, temp <- x4, sessions <- x5, conns <- x6,
  misses <- x7

\* Two downloads into folders that hold a file, with cancellations ...
TwoJobs == INSTANCE FileTransfer WITH
  Jobs <- {j1, j2}, Files <- 2, Blocks <- 2, Present <- {1}, MaxErrors <- 0,
  MaxLosses <- 0, Delegated <- FALSE, Cancels <- TRUE, Left <- {},
  queue <- x1, readers <- x2, writers <- x3, disk <- x4, toHost <- x5,
  toClient <- x6, asked <- x7, answered <- x8, status <- x9, saved <- x10,
  errors <- x11, losses <- x12

\* ... and one of one file, lost twice and resumed.
Resumed == INSTANCE FileTransfer WITH
  Jobs <- {j1}, Files <- 1, Blocks <- 3, Present <- {}, MaxErrors <- 1,
  MaxLosses <- 2, Delegated <- FALSE, Cancels <- TRUE, Left <- {},
  queue <- x1, readers <- x2, writers <- x3, disk <- x4, toHost <- x5,
  toClient <- x6, asked <- x7, answered <- x8, status <- x9, saved <- x10,
  errors <- x11, losses <- x12

\* Two sessions of which a connection meets nothing of the one before ...
Apart == INSTANCE ClipboardLoop WITH
  Session <- {s1, s2}, MaxRounds <- 2, Thread <- {t1, t2, t3}, Overlap <- "none",
  Fails <- FALSE,
  round <- x1, state <- x2, job <- x3, running <- x4, loop <- x5, subscriber <- x6

\* ... or any of its steps.
Overlapping == INSTANCE ClipboardLoop WITH
  Session <- {s1, s2}, MaxRounds <- 2, Thread <- {t1, t2}, Overlap <- "any",
  Fails <- TRUE,
  round <- x1, state <- x2, job <- x3, running <- x4, loop <- x5, subscriber <- x6

\* Two connections, one after the other, to a service with two terminals.
Terminals == INSTANCE TerminalService WITH
  Conns <- {1, 2}, Terms <- {1, 2}, Capacity <- 2, Replay <- 2, Overlap <- FALSE,
  Options <- {TRUE, FALSE}, MaxOutput <- 2,
  service <- x1, sessions <- x2, link <- x3, thread <- x4, got <- x5, told <- x6

\* A shell that writes text ...
Utf8 == INSTANCE TerminalBuffer WITH
  Kinds <- {"nl", "a", "lead2", "lead3", "cont"}, MaxBytes <- 4, MaxLines <- 2,
  MaxRead <- 3, Text <- TRUE, MaxText <- 9,
  text <- x1, ended <- x2, remainder <- x3, emitted <- x4, lines <- x5,
  total_size <- x6, last_line_incomplete <- x7

\* ... and one that writes any bytes.
Bytes == INSTANCE TerminalBuffer WITH
  Kinds <- {"nl", "a", "lead2", "lead3", "cont"}, MaxBytes <- 4, MaxLines <- 2,
  MaxRead <- 3, Text <- FALSE, MaxText <- 6,
  text <- x1, ended <- x2, remainder <- x3, emitted <- x4, lines <- x5,
  total_size <- x6, last_line_incomplete <- x7

\* Three viewers of a display.
Video == INSTANCE VideoService WITH
  Conns <- {d1, d2, d3}, Closing <- FALSE, Timeouts <- FALSE, MaxQueue <- 1,
  MaxJoins <- 1,
  member <- x1, conn <- x2, joins <- x3, refresh <- x4, thread <- x5, switch <- x6,
  synced <- x7, queue <- x8, sent <- x9, fetched <- x10, notes <- x11, told <- x12,
  picture <- x13, asking <- x14

\* A viewer with a network of every kind who chooses frame rates ...
Qos == INSTANCE VideoQos WITH
  Users <- {1}, Delays <- {20, 120, 250, 700}, Elapsed <- {1000, 3000},
  CustomFps <- {12, 25}, FPS <- 25, INIT_FPS <- 15, MIN_FPS <- 1, MinFps <- 10,
  NormalFps <- 20, Threshold <- 150, WindowSamples <- 3, MinSamples <- 2,
  Joins <- TRUE,
  users <- x1, fps <- x2, recent <- x3, reported <- x4

\* ... and two.
TwoQos == INSTANCE VideoQos WITH
  Users <- {1, 2}, Delays <- {20, 700}, Elapsed <- {3000}, CustomFps <- {},
  FPS <- 16, INIT_FPS <- 15, MIN_FPS <- 1, MinFps <- 10, NormalFps <- 20,
  Threshold <- 150, WindowSamples <- 2, MinSamples <- 2, Joins <- TRUE,
  users <- x1, fps <- x2, recent <- x3, reported <- x4

\* Two remote controls that turn privacy mode on and off ...
Privacy == INSTANCE PrivacyMode WITH
  Conns <- {1, 2}, Impls <- {"mag", "display"}, Slow <- {}, Tested <- {"mag"},
  HostKeys <- TRUE,
  holder <- x1, impl <- x2, lock <- x3, conns <- x4, threads <- x5, told <- x6,
  notices <- x7

\* ... and one whose implementation takes a thread of its own.
SlowPrivacy == INSTANCE PrivacyMode WITH
  Conns <- {1}, Impls <- {"mag", "display"}, Slow <- {"display"},
  Tested <- {"mag"}, HostKeys <- TRUE,
  holder <- x1, impl <- x2, lock <- x3, conns <- x4, threads <- x5, told <- x6,
  notices <- x7

ASSUME DesktopAssumption ==
  /\ Timed!HostAssumption /\ Timed!TakenAssumption /\ Timed!TimeAssumption
  /\ Refused!HostAssumption /\ Refused!TakenAssumption /\ Refused!TimeAssumption
  /\ OneFlow!SetupAssumption /\ Doubled!SetupAssumption /\ TwoFlows!SetupAssumption
  /\ Login!LoginAssumption /\ Guesses!LoginAssumption /\ Return!LoginAssumption
  /\ TwoJobs!TransferAssumption /\ Resumed!TransferAssumption
  /\ Apart!LoopAssumption /\ Overlapping!LoopAssumption
  /\ Terminals!TerminalAssumption /\ Utf8!BufferAssumption /\ Bytes!BufferAssumption
  /\ Video!VideoAssumption /\ Qos!QosAssumption /\ TwoQos!QosAssumption
  /\ Privacy!PrivacyAssumption /\ SlowPrivacy!PrivacyAssumption

Init ==
  \/ Begin("timed", 22) /\ Timed!Init
  \/ Begin("taken", 22) /\ Refused!Init
  \/ Begin("one flow", 8) /\ OneFlow!Init
  \/ Begin("doubled", 8) /\ Doubled!Init
  \/ Begin("two flows", 8) /\ TwoFlows!Init
  \/ Begin("login", 7) /\ Login!Init
  \/ Begin("guesses", 7) /\ Guesses!Init
  \/ Begin("return", 7) /\ Return!Init
  \/ Begin("two jobs", 12) /\ TwoJobs!Init
  \/ Begin("resumed", 12) /\ Resumed!Init
  \/ Begin("clipboard", 6) /\ Apart!Init
  \/ Begin("clipboards", 6) /\ Overlapping!Init
  \/ Begin("terminals", 6) /\ Terminals!Init
  \/ Begin("text", 7) /\ Utf8!Init
  \/ Begin("bytes", 7) /\ Bytes!Init
  \/ Begin("video", 14) /\ Video!Init
  \/ Begin("qos", 4) /\ Qos!Init
  \/ Begin("two qos", 4) /\ TwoQos!Init
  \/ Begin("privacy", 7) /\ Privacy!Init
  \/ Begin("slow privacy", 7) /\ SlowPrivacy!Init

Next ==
  \/ Go("timed", 22) /\ Timed!Next
  \/ Go("taken", 22) /\ Refused!Next
  \/ Go("one flow", 8) /\ OneFlow!Next
  \/ Go("doubled", 8) /\ Doubled!Next
  \/ Go("two flows", 8) /\ TwoFlows!Next
  \/ Go("login", 7) /\ Login!Next
  \/ Go("guesses", 7) /\ Guesses!Next
  \/ Go("return", 7) /\ Return!Next
  \/ Go("two jobs", 12) /\ TwoJobs!Next
  \/ Go("resumed", 12) /\ Resumed!Next
  \/ Go("clipboard", 6) /\ Apart!Next
  \/ Go("clipboards", 6) /\ Overlapping!Next
  \/ Go("terminals", 6) /\ Terminals!Next
  \/ Go("text", 7) /\ Utf8!Next
  \/ Go("bytes", 7) /\ Bytes!Next
  \/ Go("video", 14) /\ Video!Next
  \/ Go("qos", 4) /\ Qos!Next
  \/ Go("two qos", 4) /\ TwoQos!Next
  \/ Go("privacy", 7) /\ Privacy!Next
  \/ Go("slow privacy", 7) /\ SlowPrivacy!Next

Spec == Init /\ [][Next]_all

-----------------------------------------------------------------------------
\* Every part keeps its types.
TypeOK ==
  /\ part = "timed" => Timed!TypeOK
  /\ part = "taken" => Refused!TypeOK
  /\ part = "one flow" => OneFlow!TypeOK
  /\ part = "doubled" => Doubled!TypeOK
  /\ part = "two flows" => TwoFlows!TypeOK
  /\ part = "login" => Login!TypeOK
  /\ part = "guesses" => Guesses!TypeOK
  /\ part = "return" => Return!TypeOK
  /\ part = "two jobs" => TwoJobs!TypeOK
  /\ part = "resumed" => Resumed!TypeOK
  /\ part = "clipboard" => Apart!TypeOK
  /\ part = "clipboards" => Overlapping!TypeOK
  /\ part = "terminals" => Terminals!TypeOK
  /\ part = "text" => Utf8!TypeOK
  /\ part = "bytes" => Bytes!TypeOK
  /\ part = "video" => Video!TypeOK
  /\ part = "qos" => Qos!TypeOK
  /\ part = "two qos" => TwoQos!TypeOK
  /\ part = "privacy" => Privacy!TypeOK
  /\ part = "slow privacy" => SlowPrivacy!TypeOK

\* What the modules promise, by subject.  Each promise is of the part it is about,
\* and stated with the code it is about in that part's module.

\* A host that is shown ready has heard from its server lately, and stays online through
\* as many losses as its timeouts leave room for.  A viewer that waits for a host's answer
\* is waited for or will give up, is relayed when it says so, and has one connection, with
\* the task that has it, however many flows race and also when its request was doubled.
HostsAreReached ==
  /\ [](/\ part = "timed" => Timed!ReadyIsRecent
        /\ part = "one flow" => OneFlow!WaitsForSomebody
        /\ part = "doubled" => Doubled!WaitsForSomebody /\ Doubled!OneConnection
        /\ part = "two flows" => TwoFlows!ForcedIsRelayed /\ TwoFlows!OneConnection)
  /\ [][part = "timed" => Timed!StaysOnline]_all

\* Passwords tried from an address, and guesses of one temporary password, stay within the
\* limits and the logins under way; a remote control keeps the session it came with.
LoginsAreBounded ==
  /\ part = "login" => Login!AttemptsAreBounded
  /\ part = "guesses" => Guesses!GuessesAreBounded
  /\ part = "return" => Return!RemoteKeepsSession

\* A job that is done has all its files, a file under its own name is whole, also when
\* it was resumed, and nothing is written over without consent.
FilesArriveWhole ==
  /\ [](/\ part = "two jobs" => TwoJobs!DoneIsComplete
        /\ part = "resumed" => Resumed!FinalIsWhole)
  /\ [][part = "two jobs" => TwoJobs!Consented]_all

\* A terminal shows what its shell wrote, in order and cut between characters; what is
\* replayed is the end of it; no terminal runs on unseen, and a persistent service
\* outlives its connection.
OutputIsComplete ==
  /\ [](/\ part = "terminals" => Terminals!NoGaps /\ Terminals!NoneUnseen
        /\ part = "text" => Utf8!EmittedWhole /\ Utf8!BufferIsSuffix /\ Utf8!RecentIsSuffix
        /\ part = "bytes" => Bytes!Lossless)
  /\ [][part = "terminals" => Terminals!PersistentSurvives]_all

\* Viewers share an encoder only from a picture on that all can decode, a frame's turn
\* ends when all have it, the rate is that of the slowest; privacy mode is on for somebody
\* who is connected and was told; and sessions share one clipboard loop, which runs while
\* one of them is ready.
ViewersShare ==
  /\ [](/\ part = "video" => Video!SharedEncoder
        /\ part = "privacy" => Privacy!HolderIsConnected
        /\ part = "slow privacy" => SlowPrivacy!HolderIsTold
        /\ part = "clipboard" => Apart!ReadyIsServed
        /\ part = "clipboards" => Overlapping!OneListens)
  /\ [][/\ part = "video" => Video!AllFetched
        /\ part = "qos" => Qos!SlowestRules
        /\ part = "two qos" => TwoQos!SlowestRules]_all
=============================================================================
