------------------------------ MODULE VideoQos ------------------------------
(***************************************************************************)
(* How a host sets the frame rate for all its viewers from the delays each *)
(* of them reports (server/video_qos.rs).  The rate of a viewer is derived *)
(* from the rate in use and its network delay, and the rate in use is the  *)
(* least of all viewers.  One quality for all; the bitrate ratio and the   *)
(* time of a viewer's quality are left out, divisions of f32 are exact.    *)
(***************************************************************************)
EXTENDS Integers, Sequences, FiniteSets, FiniteSetsExt

CONSTANTS Users,
          Delays,      \* delays in ms a viewer may report
          Elapsed,     \* times in ms since a request for the delay was sent
          CustomFps,   \* frame rates a viewer may choose
          FPS, INIT_FPS, MIN_FPS,
          MinFps, NormalFps,   \* of the quality: 8, 16 or 10, 20 or 12, 24
          Threshold,           \* DELAY_THRESHOLD_150MS
          WindowSamples, MinSamples,
          Joins        \* viewers come and go

QosAssumption ==
    /\ Delays \subseteq Nat \ {0} /\ Elapsed \subseteq Nat /\ CustomFps \subseteq Nat \ {0}
    /\ {FPS, INIT_FPS, MIN_FPS, MinFps, NormalFps, Threshold} \subseteq Nat \ {0}
    /\ {WindowSamples, MinSamples} \subseteq Nat \ {0} /\ Joins \in BOOLEAN

VARIABLES users,      \* the viewers' data
          fps,        \* the rate in use
          recent,     \* a viewer came within the last second
          reported    \* viewers whose delay came since the second began

vars == <<users, fps, recent, reported>>

None == 0

NewUser == [custom |-> None, fps |-> None, delayed |-> FALSE, history |-> <<>>,
            least |-> None, samples |-> <<>>, smoothed |-> None, quick |-> 0, stable |-> 0]

Clamp(x, lo, hi) == IF x < lo THEN lo ELSE IF x > hi THEN hi ELSE x
Larger(a, b) == IF a > b THEN a ELSE b
Smaller(a, b) == IF a < b THEN a ELSE b
Push(s, n, x) == Append(IF Len(s) > n THEN Tail(s) ELSE s, x)
Entry(s, i) == IF i <= Len(s) THEN s[i] ELSE 0
Sum(s) == Entry(s, 1) + Entry(s, 2) + Entry(s, 3)  (* of a history, which is no longer *)
LeastOf(s) == Min({s[i] : i \in 1..Len(s)})

Init ==
    /\ users = [u \in (IF Joins THEN {} ELSE Users) |-> NewUser]
    /\ fps = FPS /\ recent = FALSE /\ reported = {}

(* highest_fps: what the most modest viewer chose *)
HighestFps(us) ==
    IF DOMAIN us = {} THEN FPS
    ELSE Min({IF us[u].custom = None THEN FPS ELSE us[u].custom : u \in DOMAIN us})

(* adjust_fps *)
Adjusted(us, new) ==
    LET least == IF DOMAIN us = {} THEN INIT_FPS
                 ELSE Min({IF us[u].fps = None THEN INIT_FPS ELSE us[u].fps : u \in DOMAIN us})
        answered == IF \E u \in DOMAIN us : us[u].delayed
                    THEN Smaller(least, MIN_FPS + 1) ELSE least
        started == IF new THEN Smaller(answered, INIT_FPS) ELSE answered
    IN  Clamp(started, MIN_FPS, HighestFps(us))

(* RttCalculator::update and add_delay *)
AddDelay(user, delay) ==
    LET least == IF user.least = None THEN delay ELSE Smaller(user.least, delay)
        samples == Push(user.samples, WindowSamples - 1, delay)
    IN  [user EXCEPT !.least = least, !.samples = samples,
                     !.smoothed = IF Len(samples) < WindowSamples THEN @
                                  ELSE (least + LeastOf(samples)) \div 2,
                     !.history = Push(@, 2, delay)]

(* get_rtt *)
Rtt(user) ==
    IF user.smoothed # None THEN user.smoothed
    ELSE IF Len(user.samples) >= MinSamples THEN user.least ELSE None

Average(user) == Sum(user.history) \div Len(user.history)

(* avg_delay *)
AvgDelay(user) ==
    IF user.history = <<>> THEN Threshold
    ELSE IF Rtt(user) # None /\ Average(user) > Rtt(user) THEN Average(user) - Rtt(user)
    ELSE Average(user)

(* The rate the delay allows, from the rate in use *)
Stepped(user, avg, old) ==
    LET divided == (fps * Threshold + avg - 1) \div avg
        below == IF fps < NormalFps THEN 1 ELSE 0
    IN  CASE avg < 50 -> Larger(MinFps, fps + IF user.quick >= 2 THEN 5 ELSE below)
          [] avg \in 50..99 -> Larger(MinFps, fps + IF avg < old THEN below ELSE 0)
          [] avg >= 100 /\ avg < Threshold -> Larger(MinFps, fps)
          [] avg >= Threshold /\ avg < 200 -> Larger(MinFps, divided)
          [] avg \in 200..299 -> Smaller(MinFps, divided)
          [] avg \in 300..599 -> (Threshold * MinFps) \div avg
          [] OTHER -> Smaller((Threshold * MinFps) \div avg, divided)

(* Mutant: the quick steps are never counted from the start again. *)
MeasuredUnreset(user, delay) ==
    LET grown == AddDelay(user, Larger(delay, 10))
        avg == Larger(AvgDelay(grown), 10)
        stable == IF avg < Threshold THEN user.stable + 1 ELSE 0
        rate == Stepped(user, avg, AvgDelay(user)) + IF stable >= 3 THEN 1 ELSE 0
    IN  [grown EXCEPT
           !.quick = IF avg > 50 THEN 0 ELSE Smaller(@ + 1, 3),
           !.stable = IF stable >= 3 THEN 0 ELSE stable,
           !.fps = Clamp(rate, MIN_FPS, HighestFps(users))]

(* What a reported delay makes of a viewer *)
Measured(user, delay) ==
    LET grown == AddDelay(user, Larger(delay, 10))
        avg == Larger(AvgDelay(grown), 10)
        stable == IF avg < Threshold THEN user.stable + 1 ELSE 0
        rate == Stepped(user, avg, AvgDelay(user)) + IF stable >= 3 THEN 1 ELSE 0
    IN  [grown EXCEPT
           !.quick = IF avg > 50 THEN 0 ELSE IF avg = 50 THEN @ ELSE IF @ >= 2 THEN 0 ELSE @ + 1,
           !.stable = IF stable >= 3 THEN 0 ELSE stable,
           !.fps = Clamp(rate, MIN_FPS, HighestFps(users))]

-----------------------------------------------------------------------------
(* on_connection_open *)
Open(u) ==
    /\ Joins /\ u \notin DOMAIN users
    /\ users' = [v \in DOMAIN users \union {u} |-> IF v = u THEN NewUser ELSE users[v]]
    /\ recent' = TRUE
    /\ UNCHANGED <<fps, reported>>

(* on_connection_close: the last one resets everything *)
Close(u) ==
    /\ Joins /\ u \in DOMAIN users
    /\ users' = [v \in DOMAIN users \ {u} |-> users[v]]
    /\ fps' = IF DOMAIN users' = {} THEN FPS ELSE fps
    /\ recent' = (recent \/ DOMAIN users' = {})
    /\ reported' = reported \ {u}

(* user_custom_fps: taken up by the next adjustment *)
ChooseFps(u, f) ==
    /\ u \in DOMAIN users
    /\ users' = [users EXCEPT ![u].custom = f]
    /\ UNCHANGED <<fps, recent, reported>>

(* user_network_delay, for every answer to a TestDelay *)
NetworkDelay(u, delay) ==
    /\ u \in DOMAIN users \ reported
    /\ users' = [users EXCEPT ![u] = Measured(users[u], delay)]
    /\ fps' = Adjusted(users', recent)
    /\ reported' = reported \union {u}
    /\ UNCHANGED recent

(* user_delay_response_elapsed, while an answer is missing *)
ResponseElapsed(u, e) ==
    /\ u \in DOMAIN users
    /\ users' = [users EXCEPT ![u] = IF e > 2000 THEN AddDelay([@ EXCEPT !.delayed = TRUE], e)
                                     ELSE [@ EXCEPT !.delayed = FALSE]]
    /\ fps' = IF e > 2000 THEN Adjusted(users', recent) ELSE fps
    /\ UNCHANGED <<recent, reported>>

(* update_display_data, every second of the capture loop *)
Second ==
    /\ recent' = FALSE
    /\ fps' = Adjusted(users, FALSE)
    /\ reported' = {}
    /\ UNCHANGED users

Next ==
    \/ \E u \in Users :
         \/ Open(u) \/ Close(u)
         \/ \E f \in CustomFps : ChooseFps(u, f)
         \/ \E d \in Delays : NetworkDelay(u, d)
         \/ \E e \in Elapsed : ResponseElapsed(u, e)
    \/ Second

Spec == Init /\ [][Next]_vars

(* The capture loop goes on, and every viewer goes on answering *)
FairSpec ==
    /\ Spec
    /\ WF_vars(Second)
    /\ \A u \in Users : WF_vars(\E d \in Delays : NetworkDelay(u, d))
-----------------------------------------------------------------------------
(* The shape of the state.                                                 *)
TypeOK ==
    /\ DOMAIN users \subseteq Users
    /\ \A u \in DOMAIN users :
          /\ users[u].fps \in Nat /\ users[u].quick \in 0..2 /\ users[u].stable \in 0..2
          /\ Len(users[u].history) <= 3 /\ Len(users[u].samples) <= WindowSamples
    /\ fps \in Nat /\ recent \in BOOLEAN

(* "update real fps to the minimum fps from all users", never 0 and never  *)
(* more than any viewer chose, nor 2 while one does not answer: no order   *)
(* of reports, choices and comings lets one viewer overrule another.       *)
SlowestRules ==
    fps' # fps /\ DOMAIN users' # {} =>
        /\ fps' >= MIN_FPS
        /\ \A u \in DOMAIN users' :
              /\ users'[u].custom # None => fps' <= users'[u].custom
              /\ users'[u].delayed => fps' <= MIN_FPS + 1
              /\ users'[u].fps # None => fps' <= users'[u].fps

(* "use delay minus RTT as the actual network delay"                       *)
DelayIsWithoutRtt ==
    \A u \in DOMAIN users :
        Rtt(users[u]) # None /\ users[u].history # <<>> =>
            AvgDelay(users[u]) <= Larger(Average(users[u]) - Rtt(users[u]), 0)

(* "When network delay >= DELAY_THRESHOLD_150MS, fps is always lower than  *)
(* the minimum fps"                                                        *)
SlowIsBelowMinimum ==
    \A u \in DOMAIN users :
        users[u].fps # None /\ AvgDelay(users[u]) >= Threshold => users[u].fps < MinFps

Good == \A u \in DOMAIN users : ~users[u].delayed /\ AvgDelay(users[u]) < Threshold

(* "When network delay < DELAY_THRESHOLD_150MS, ... increase fps": once    *)
(* every viewer's network is good for good, the rate comes to the highest  *)
(* the viewers chose.                                                      *)
Highest == DOMAIN users = {} \/ fps = HighestFps(users)
Recovers == <>[]Good => []<>Highest
=============================================================================
