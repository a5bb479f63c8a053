------------------------------ MODULE Mediator ------------------------------
(***************************************************************************)
(* The client keeps its host registered at the rendezvous servers:         *)
(* RendezvousMediator::start_udp, handle_resp, register_peer, register_pk  *)
(* and handle_uuid_mismatch (rendezvous_mediator.rs), one loop per server  *)
(* over UDP, against what hbbs does with RegisterPeer and RegisterPk.      *)
(*                                                                         *)
(* Datagrams are lost, delayed and reordered; the network holds at most    *)
(* one copy of each.  Time is in seconds, the period of the loops' timer.  *)
(* Ages count the ticks; what has elapsed can be a little less, so a test  *)
(* at exactly its limit may go either way.  Ages stop at the first value   *)
(* at which the code's test is surely true.                                *)
(***************************************************************************)
EXTENDS Integers

CONSTANTS
  Host, NoHost,     \* the rendezvous servers
  Id,               \* the ids this machine may draw
  FirstId,
  Taken,            \* Taken[h]: the ids other machines own at h
  Public,           \* using_public_server(): the retry timeout grows
  RegInterval, MinRegTimeout, MaxRegTimeout, DeployRetry,
  MaxFails1, MaxFails2,
  RegTimeout,       \* of the server: a peer is offline when silent for so long
  Prompt,           \* a datagram arrives within its second or never
  Faults,           \* of {"loss", "restart", "deploy", "limit"}
  MaxRestart,       \* bound: server restarts
  MaxDraw,          \* bound: ids drawn that turn out to be taken
  MaxLoss, MaxQuiet,  \* where the counts of lost datagrams and silent seconds stop
  Tolerance         \* losses in a row that do not take a host offline

None == -1  \* an Option<Instant> without a value

HostAssumption == NoHost \notin Host /\ FirstId \in Id
TakenAssumption == Taken \in [Host -> SUBSET Id]
TimeAssumption ==
  /\ {RegInterval, MinRegTimeout, MaxRegTimeout, DeployRetry, RegTimeout} \subseteq Nat \ {0}
  /\ {MaxFails1, MaxFails2, MaxRestart, MaxDraw, MaxLoss, MaxQuiet, Tolerance} \subseteq Nat
  /\ Public \in BOOLEAN /\ Prompt \in BOOLEAN
  /\ MinRegTimeout <= MaxRegTimeout

VARIABLES
  id,             \* Config.id
  keyConfirmed,   \* Config.key_confirmed
  hostConfirmed,  \* Config.keys_confirmed
  solving,        \* SOLVING_PK_MISMATCH
  needsDeploy,    \* NEEDS_DEPLOY
  deployAge,      \* since LAST_NOT_DEPLOYED_REGISTER, or None
  due,            \* the loop's timer has ticked
  sent,           \* since last_register_sent, or None
  resp,           \* since last_register_resp; at first it counts as expired
  fails, regTimeout,
  shown,          \* ONLINE[h]: what the user is shown
  up, down,       \* datagrams to and from each server
  row,            \* at the server: ids stored as this machine's
  mem,            \* and those of them in memory
  seen,           \* since the server last took the address of the present id
  deployed,       \* the operator lets the machine register
  restarts,       \* server restarts so far
  draws,          \* taken ids drawn so far
  lost,           \* history: datagrams lost since a heartbeat was last confirmed
  quiet           \* history: seconds since the last answer

config == <<id, keyConfirmed, hostConfirmed, solving>>
deploy == <<needsDeploy, deployAge>>
loop == <<sent, resp, fails, regTimeout, shown>>
net == <<up, down>>
server == <<row, mem, seen, deployed, restarts>>
vars == <<config, deploy, due, loop, net, server, draws, lost, quiet>>

Peer(i) == [type |-> "peer", id |-> i]
PkOf(i) == [type |-> "pk", id |-> i]
Requests == {Peer(i) : i \in Id} \cup {PkOf(i) : i \in Id}

PeerResponse(askPk) == [type |-> "peer", request_pk |-> askPk]
PkResponse(r) == [type |-> "pk", result |-> r]
Results == {"OK", "UUID_MISMATCH", "NOT_DEPLOYED", "TOO_FREQUENT"}
Responses == {PeerResponse(b) : b \in BOOLEAN} \cup {PkResponse(r) : r \in Results}

Older(age, limit) == IF age = limit THEN age ELSE age + 1

Init ==
  /\ id = FirstId /\ keyConfirmed = FALSE
  /\ hostConfirmed = [h \in Host |-> FALSE]
  /\ solving = NoHost
  /\ needsDeploy = FALSE /\ deployAge = None
  /\ due = [h \in Host |-> TRUE]
  /\ sent = [h \in Host |-> None]
  /\ resp = [h \in Host |-> RegInterval + 1]
  /\ fails = [h \in Host |-> 0]
  /\ regTimeout = [h \in Host |-> MinRegTimeout]
  /\ shown = [h \in Host |-> "connecting"]
  /\ up = [h \in Host |-> {}] /\ down = [h \in Host |-> {}]
  /\ row = [h \in Host |-> {}] /\ mem = [h \in Host |-> {}]
  /\ seen = [h \in Host |-> RegTimeout]
  /\ deployed \in IF "deploy" \in Faults THEN BOOLEAN ELSE {TRUE}
  /\ restarts = 0 /\ draws = 0
  /\ lost = [h \in Host |-> MaxLoss] /\ quiet = [h \in Host |-> 0]

Send(h, m) == up' = [up EXCEPT ![h] = @ \cup {m}]

\* Nothing that is claimed is timed by the backoff: its age is exact.
DeployThrottled == deployAge # None /\ deployAge < DeployRetry

\* register_pk, with its own look at the deployment backoff.
RegisterPk(h, i) ==
  IF needsDeploy /\ DeployThrottled
  THEN UNCHANGED <<up, deployAge>>
  ELSE /\ Send(h, PkOf(i))
       /\ deployAge' = IF needsDeploy THEN 0 ELSE None

\* register_peer: nothing is sent while another host solves a mismatch.
RegisterPeer(h) ==
  IF solving \notin {NoHost, h} THEN UNCHANGED <<up, deployAge>>
  ELSE IF keyConfirmed /\ hostConfirmed[h]
  THEN Send(h, Peer(id)) /\ UNCHANGED deployAge
  ELSE RegisterPk(h, id)

-----------------------------------------------------------------------------
\* elapsed() >= limit, asked at a tick: an answer came between two ticks, and a tick is
\* late by a moment that the next one need not be late by.
Reached(age, limit) == {r \in BOOLEAN : (age > limit => r) /\ (age < limit => ~r)}

Timeouts(h) == IF sent[h] = None THEN {FALSE} ELSE Reached(sent[h], regTimeout[h])
Expiries(h) == IF sent[h] = None THEN Reached(resp[h], RegInterval) ELSE {FALSE}

\* Mutant: a request without an answer is not repeated.
TickWaits(h) ==
  /\ due[h]
  /\ due' = [due EXCEPT ![h] = FALSE]
  /\ \E expired \in Expiries(h) :
       IF ~expired
       THEN UNCHANGED <<loop, up, deployAge>>
       ELSE /\ RegisterPeer(h)
            /\ sent' = [sent EXCEPT ![h] = 0]
            /\ UNCHANGED <<resp, fails, regTimeout, shown>>
  /\ UNCHANGED <<config, needsDeploy, down, server, lost, quiet, draws>>

\* start_udp, the timer's branch.  A register_peer that sends nothing counts as
\* sent all the same.  Rebinding the socket after MaxFails2 changes no state here.
TimerTick(h) ==
  /\ due[h]
  /\ due' = [due EXCEPT ![h] = FALSE]
  /\ \E late \in Timeouts(h), expired \in Expiries(h) :
       IF (needsDeploy /\ DeployThrottled) \/ (~late /\ ~expired)
       THEN UNCHANGED <<loop, up, deployAge>>
       ELSE /\ regTimeout' = [regTimeout EXCEPT ![h] =
                 IF Public /\ late /\ @ < MaxRegTimeout THEN @ + MinRegTimeout ELSE @]
            /\ fails' = [fails EXCEPT ![h] = IF late /\ @ < MaxFails2 THEN @ + 1 ELSE @]
            /\ shown' = [shown EXCEPT ![h] =
                 CASE late /\ fails'[h] >= MaxFails2 -> "offline"
                   [] late /\ fails'[h] \in MaxFails1..(MaxFails2 - 1) -> "connecting"
                   [] OTHER -> @]
            /\ RegisterPeer(h)
            /\ sent' = [sent EXCEPT ![h] = 0]
            /\ UNCHANGED resp
  /\ UNCHANGED <<config, needsDeploy, down, server, lost, quiet, draws>>

\* update_latency: any answer ends the wait, also one to an earlier request.
\* Only one that took less than a second is shown.
UpdateLatency(h) ==
  /\ resp' = [resp EXCEPT ![h] = 0]
  /\ fails' = [fails EXCEPT ![h] = 0]
  /\ regTimeout' = [regTimeout EXCEPT ![h] = MinRegTimeout]
  /\ sent' = [sent EXCEPT ![h] = None]
  /\ quiet' = [quiet EXCEPT ![h] = 0]
  /\ \E s \in CASE sent[h] = 0 -> {"ready"}
                [] sent[h] \in {None, 1} -> {"ready", shown[h]}
                [] OTHER -> {shown[h]} :
       shown' = [shown EXCEPT ![h] = s]

Take(h, m) ==
  /\ m \in down[h]
  /\ down' = [down EXCEPT ![h] = @ \ {m}]

RecvPeerResponse(h) ==
  \E ask \in BOOLEAN :
    /\ Take(h, PeerResponse(ask))
    /\ UpdateLatency(h)
    /\ IF ask THEN RegisterPk(h, id) ELSE UNCHANGED <<up, deployAge>>
    /\ lost' = [lost EXCEPT ![h] = IF ask THEN @ ELSE 0]
    /\ UNCHANGED <<config, needsDeploy, due, server, draws>>

RecvOk(h) ==
  /\ Take(h, PkResponse("OK"))
  /\ UpdateLatency(h)
  /\ keyConfirmed' = TRUE
  /\ hostConfirmed' = [hostConfirmed EXCEPT ![h] = TRUE]
  /\ solving' = NoHost
  /\ needsDeploy' = FALSE
  /\ UNCHANGED <<id, deployAge, due, up, server, lost, draws>>

\* Config::set_key_confirmed(false) forgets every host, but only when the key was
\* confirmed.
Unconfirm ==
  /\ keyConfirmed' = FALSE
  /\ hostConfirmed' = IF keyConfirmed THEN [h \in Host |-> FALSE] ELSE hostConfirmed

TakenIds == UNION {Taken[h] : h \in Host}

Draw(i) ==
  /\ draws' = IF i \in TakenIds THEN draws + 1 ELSE draws
  /\ draws' <= MaxDraw

\* handle_uuid_mismatch: the machine draws another id and presents it at once.
RecvMismatch(h, i) ==
  /\ Take(h, PkResponse("UUID_MISMATCH"))
  /\ UpdateLatency(h)
  /\ IF solving \in {NoHost, h}
     THEN /\ Unconfirm /\ solving' = h /\ id' = i
          /\ RegisterPk(h, i)
          /\ seen' = [g \in Host |-> RegTimeout]
     ELSE UNCHANGED <<config, up, deployAge, seen>>
  /\ Draw(i)
  /\ UNCHANGED <<needsDeploy, due, row, mem, deployed, restarts, lost>>

RecvNotDeployed(h) ==
  /\ Take(h, PkResponse("NOT_DEPLOYED"))
  /\ UpdateLatency(h)
  /\ needsDeploy' = TRUE
  /\ keyConfirmed' = FALSE
  /\ hostConfirmed' =
       [(IF keyConfirmed THEN [g \in Host |-> FALSE] ELSE hostConfirmed) EXCEPT ![h] = FALSE]
  /\ UNCHANGED <<id, solving, deployAge, due, up, server, lost, draws>>

\* TOO_FREQUENT and the like are only logged.
RecvOther(h) ==
  /\ Take(h, PkResponse("TOO_FREQUENT"))
  /\ UpdateLatency(h)
  /\ UNCHANGED <<config, deploy, due, up, server, lost, draws>>

-----------------------------------------------------------------------------
Reply(h, m, r) ==
  /\ up' = [up EXCEPT ![h] = @ \ {m}]
  /\ down' = [down EXCEPT ![h] = @ \cup {r}]
  /\ UNCHANGED <<config, deploy, due, loop, row, deployed, restarts, draws, lost, quiet>>

Refresh(h, i) == seen' = IF i = id THEN [seen EXCEPT ![h] = 0] ELSE seen

\* hbbs, RegisterPeer: update_addr knows this machine's ids in memory; for any
\* other id it asks for the key.
ServePeer(h) ==
  \E i \in Id :
    /\ Peer(i) \in up[h]
    /\ Reply(h, Peer(i), PeerResponse(i \notin mem[h]))
    /\ IF i \in mem[h] THEN Refresh(h, i) ELSE UNCHANGED seen
    /\ UNCHANGED mem

Accept(h, i) ==
  /\ PkOf(i) \in up[h] /\ i \notin Taken[h] /\ deployed
  /\ up' = [up EXCEPT ![h] = @ \ {PkOf(i)}]
  /\ down' = [down EXCEPT ![h] = @ \cup {PkResponse("OK")}]
  /\ row' = [row EXCEPT ![h] = @ \cup {i}]
  /\ mem' = [mem EXCEPT ![h] = @ \cup {i}]
  /\ IF i \notin row[h] THEN Refresh(h, i) ELSE UNCHANGED seen
  /\ UNCHANGED <<config, deploy, due, loop, deployed, restarts, draws, lost, quiet>>

\* hbbs, RegisterPk: a known machine's address is not taken (see PeerRegistry).
ServePk(h) == \E i \in Id : Accept(h, i)

RefusePk(h) ==
  \E i \in Id :
    /\ PkOf(i) \in up[h]
    /\ \/ ~deployed /\ Reply(h, PkOf(i), PkResponse("NOT_DEPLOYED"))
       \/ deployed /\ i \in Taken[h] /\ Reply(h, PkOf(i), PkResponse("UUID_MISMATCH"))
    /\ UNCHANGED <<mem, seen>>

LimitPk(h) ==
  \E i \in Id :
    /\ "limit" \in Faults /\ PkOf(i) \in up[h]
    /\ Reply(h, PkOf(i), PkResponse("TOO_FREQUENT"))
    /\ UNCHANGED <<mem, seen>>

\* A datagram is lost.
Lose(h) ==
  /\ "loss" \in Faults
  /\ lost' = [lost EXCEPT ![h] = Older(@, MaxLoss)]
  /\ \/ \E m \in up[h] : up' = [up EXCEPT ![h] = @ \ {m}] /\ UNCHANGED down
     \/ \E m \in down[h] : down' = [down EXCEPT ![h] = @ \ {m}] /\ UNCHANGED up
  /\ UNCHANGED <<config, deploy, due, loop, server, quiet, draws>>

\* The server restarts: its memory is gone, the rows stay.
Restart(h) ==
  /\ "restart" \in Faults /\ restarts < MaxRestart
  /\ restarts' = restarts + 1
  /\ mem' = [mem EXCEPT ![h] = {}]
  /\ seen' = [seen EXCEPT ![h] = RegTimeout]
  /\ UNCHANGED <<config, deploy, due, loop, net, row, deployed, lost, quiet, draws>>

\* The operator deploys the machine.
Deploy ==
  /\ ~deployed /\ deployed' = TRUE
  /\ UNCHANGED <<config, deploy, due, loop, net, row, mem, seen, restarts, lost, quiet, draws>>

\* A second passes; every loop has had its tick.
Pass ==
  /\ \A h \in Host : ~due[h]
  /\ Prompt => \A h \in Host : up[h] = {} /\ down[h] = {}
  /\ due' = [h \in Host |-> TRUE]
  /\ sent' = [h \in Host |-> IF sent[h] = None THEN None
                             ELSE Older(sent[h], MaxRegTimeout + 1)]
  /\ resp' = [h \in Host |-> Older(resp[h], RegInterval + 1)]
  /\ seen' = [h \in Host |-> Older(seen[h], RegTimeout)]
  /\ deployAge' = IF deployAge = None THEN None ELSE Older(deployAge, DeployRetry)
  /\ quiet' = [h \in Host |-> Older(quiet[h], MaxQuiet)]
  /\ UNCHANGED <<config, needsDeploy, fails, regTimeout, shown, net,
                 row, mem, deployed, restarts, lost, draws>>

Recv(h) ==
  \/ RecvPeerResponse(h) \/ RecvOk(h) \/ RecvNotDeployed(h) \/ RecvOther(h)
  \/ \E i \in Id \ {id} : RecvMismatch(h, i)

Next ==
  \/ \E h \in Host :
       \/ TimerTick(h) \/ Recv(h)
       \/ ServePeer(h) \/ ServePk(h) \/ RefusePk(h) \/ LimitPk(h)
       \/ Lose(h) \/ Restart(h)
  \/ Deploy \/ Pass

\* Time passes and the timer ticks; what is sent again and again arrives and is
\* answered.
Fairness ==
  /\ WF_vars(Pass) /\ WF_vars(Deploy)
  /\ \A h \in Host :
       /\ WF_vars(TimerTick(h))
       /\ SF_vars(ServePeer(h)) /\ SF_vars(ServePk(h) \/ RefusePk(h))
       /\ SF_vars(Recv(h)) /\ SF_vars(RecvOk(h))

Spec == Init /\ [][Next]_vars
FairSpec == Spec /\ Fairness

-----------------------------------------------------------------------------
TypeOK ==
  /\ id \in Id /\ keyConfirmed \in BOOLEAN
  /\ hostConfirmed \in [Host -> BOOLEAN]
  /\ solving \in Host \cup {NoHost}
  /\ needsDeploy \in BOOLEAN
  /\ deployAge \in 0..DeployRetry \cup {None}
  /\ due \in [Host -> BOOLEAN]
  /\ sent \in [Host -> 0..(MaxRegTimeout + 1) \cup {None}]
  /\ resp \in [Host -> 0..(RegInterval + 1)]
  /\ fails \in [Host -> 0..MaxFails2]
  /\ regTimeout \in [Host -> MinRegTimeout..MaxRegTimeout]
  /\ shown \in [Host -> {"offline", "connecting", "ready"}]
  /\ up \in [Host -> SUBSET Requests] /\ down \in [Host -> SUBSET Responses]
  /\ row \in [Host -> SUBSET Id] /\ mem \in [Host -> SUBSET Id]
  /\ seen \in [Host -> 0..RegTimeout]
  /\ deployed \in BOOLEAN /\ restarts \in 0..MaxRestart /\ draws \in 0..MaxDraw
  /\ lost \in [Host -> 0..MaxLoss] /\ quiet \in [Host -> 0..MaxQuiet]

Online(h) == seen[h] < RegTimeout

\* Whatever is lost, delayed or refused, the host is again and again online at every
\* server: no answer, late or lost, leaves the loops waiting for good.
Reachable == \A h \in Host : []<>Online(h)

\* A host whose heartbeat was confirmed stays online through Tolerance losses: the
\* retry timeouts, also when they grow, fit between REG_INTERVAL and the server's
\* patience.
StaysOnline ==
  \A h \in Host : Online(h) /\ id' = id /\ restarts' = restarts /\ lost[h] <= Tolerance =>
    Online(h)'
StaysReachable == [][StaysOnline]_vars

\* The user is not told that a host is ready when its server has been silent for
\* longer than an interval and MaxFails1 timeouts, the second of which may have grown,
\* and the tick by which each of the three may be missed.
ReadyIsRecent ==
  \A h \in Host : shown[h] = "ready" => quiet[h] <= RegInterval + 3 * MinRegTimeout + 3
=============================================================================
