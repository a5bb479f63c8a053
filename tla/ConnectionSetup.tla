-------------------------- MODULE ConnectionSetup --------------------------
(***************************************************************************)
(* How a viewer reaches a host: the viewer's attempts                      *)
(* (rustdesk src/client.rs, _start_inner, connect, request_relay), the     *)
(* host's tasks (src/rendezvous_mediator.rs, handle_punch_hole,            *)
(* handle_request_relay, create_relay; src/server.rs), and between them    *)
(* hbbs and hbbr, which are PunchBroker and RelayPairing and appear here as *)
(* one step per message.                                                   *)
(*                                                                         *)
(* The viewer runs one or two flows at a time, over UDP and TCP, and keeps *)
(* the first that succeeds.  A flow asks up to Attempts times over one     *)
(* socket to be let through, and up to Attempts times, each over a socket  *)
(* and with a uuid of its own, for a relay.  The host handles each request *)
(* in a task.  Requests reach it by UDP: late, twice or not at all.        *)
(* Refusals by hbbs are in PunchAuthorization; encryption and what follows *)
(* are left out.  A timeout is a step that may happen at any time.         *)
(***************************************************************************)
EXTENDS Naturals, FiniteSets

CONSTANTS
  Flow, NoEnd,
  Attempts,   \* 3 in the code
  Copies,     \* 1, or 2 when a datagram may arrive twice
  Lossy,      \* whether datagrams get lost and connections fail
  ForceRelay  \* is_force_relay

\* A request, as one of its copies arrives at the host; the task that handles
\* it; and the uuid that stands for it: its first copy's in a RequestRelay, the
\* task's own when the host chooses to be relayed.
Jobs == [flow : Flow, try : 1..Attempts, kind : {"punch", "relay"}, copy : 1..Copies]

\* The viewer's sockets: the first asks for a hole, the others for a relay.
Sockets == [flow : Flow, try : 0..Attempts]
SocketOf(j) == [flow |-> j.flow, try |-> IF j.kind = "punch" THEN 0 ELSE j.try]
Relayed(j) == [j EXCEPT !.copy = 1]

SetupAssumption ==
  /\ NoEnd \notin Flow \cup Jobs /\ Flow \cap Jobs = {}
  /\ Attempts \in Nat \ {0} /\ Copies \in {1, 2}
  /\ Lossy \in BOOLEAN /\ ForceRelay \in BOOLEAN

VARIABLES
  flow,    \* where each flow is, its attempt, and the task or uuid it goes by
  sinks,   \* hbbs: the sockets it has an answer's sink of
  inbox,   \* answers that a socket has received
  answers, \* answers on their way
  job,     \* the tasks of the host
  last,    \* LAST_MSG and LAST_RELAY_MSG: a socket's address
  recent,  \* whether they are younger than 100 ms
  parked   \* hbbr: the end that waits under each uuid

viewer == <<flow, inbox>>
hbbs == <<sinks, answers>>
host == <<job, last, recent>>
vars == <<viewer, hbbs, host, parked>>

Kinds == {"punch", "relay"}
AnyJob == CHOOSE j \in Jobs : TRUE
FlowStates == {"idle", "punch", "direct", "ask", "join", "parked", "secure", "up",
               "failed", "dropped"}
JobStates == {"none", "coming", "read", "again", "handle", "told", "parked", "listen",
              "hand", "up", "ended"}
Answers == [by : Jobs, how : {"direct", "relay"}]

Init ==
  /\ flow = [f \in Flow |-> [pc |-> "idle", try |-> 0, via |-> AnyJob]]
  /\ sinks = {} /\ inbox = {} /\ answers = {}
  /\ job = [j \in Jobs |-> "none"]
  /\ last = [k \in Kinds |-> NoEnd]
  /\ recent = [k \in Kinds |-> FALSE]
  /\ parked = [u \in Jobs |-> NoEnd]

Go(f, pc, try, via) == flow' = [flow EXCEPT ![f] = [pc |-> pc, try |-> try, via |-> via]]
Fails(f) == flow' = [flow EXCEPT ![f].pc = "failed"]

\* hbbs forwards a request to the host; its datagram may be doubled.
Forward(f, try, kind) ==
  LET sent(c) == [flow |-> f, try |-> try, kind |-> kind, copy |-> c] IN
  \E copies \in IF Copies = 1 THEN {{sent(1)}} ELSE {{sent(1)}, {sent(1), sent(2)}} :
    job' = [j \in Jobs |-> IF j \in copies THEN "coming" ELSE job[j]]

-----------------------------------------------------------------------------
\* The viewer asks for a hole; its sink waits at hbbs for one answer.
Punch(f) ==
  /\ flow[f].pc = "idle"
  /\ Go(f, "punch", 1, AnyJob)
  /\ sinks' = sinks \cup {[flow |-> f, try |-> 0]}
  /\ Forward(f, 1, "punch")
  /\ UNCHANGED <<inbox, answers, last, recent, parked>>

\* It asks again over the same socket, whose sink may be gone by then.
PunchAgain(f) ==
  /\ flow[f].pc = "punch" /\ flow[f].try < Attempts
  /\ Go(f, "punch", flow[f].try + 1, AnyJob)
  /\ Forward(f, flow[f].try + 1, "punch")
  /\ UNCHANGED <<inbox, hbbs, last, recent, parked>>

PunchEnds(f) ==
  /\ flow[f].pc = "punch" /\ flow[f].try = Attempts
  /\ Fails(f)
  /\ UNCHANGED <<inbox, hbbs, host, parked>>

\* A PunchHoleResponse, or a RelayResponse with the host's uuid.
Punched(f) ==
  /\ flow[f].pc = "punch"
  /\ \E a \in inbox :
       /\ SocketOf(a.by) = [flow |-> f, try |-> 0]
       /\ Go(f, IF a.how = "direct" THEN "direct" ELSE "join", 0, a.by)
  /\ UNCHANGED <<inbox, hbbs, host, parked>>

\* connect: the host is reached, but the connection is given up if a relay is
\* forced.
Connect(f) ==
  /\ flow[f].pc = "direct" /\ job[flow[f].via] = "listen"
  /\ flow' = [flow EXCEPT ![f].pc = IF ForceRelay THEN "ask" ELSE "secure"]
  /\ job' = [job EXCEPT ![flow[f].via] = "hand"]
  /\ UNCHANGED <<inbox, hbbs, last, recent, parked>>

ConnectFails(f) ==
  /\ flow[f].pc = "direct"
  /\ flow' = [flow EXCEPT ![f].pc = "ask"]
  /\ UNCHANGED <<inbox, hbbs, host, parked>>

\* request_relay: a socket and a uuid for each attempt.
Ask(f) ==
  LET n == flow[f].try + 1 IN
  /\ flow[f].pc = "ask" /\ flow[f].try < Attempts
  /\ Go(f, "ask", n, [flow |-> f, try |-> n, kind |-> "relay", copy |-> 1])
  /\ sinks' = sinks \cup {[flow |-> f, try |-> n]}
  /\ Forward(f, n, "relay")
  /\ UNCHANGED <<inbox, answers, last, recent, parked>>

AskEnds(f) ==
  /\ flow[f].pc = "ask" /\ flow[f].try = Attempts
  /\ Fails(f)
  /\ UNCHANGED <<inbox, hbbs, host, parked>>

\* Only the socket of this attempt is still read.
Answered(f) ==
  /\ flow[f].pc = "ask" /\ flow[f].try > 0
  /\ \E a \in inbox : SocketOf(a.by) = [flow |-> f, try |-> flow[f].try]
  /\ flow' = [flow EXCEPT ![f].pc = "join"]
  /\ UNCHANGED <<inbox, hbbs, host, parked>>

\* create_relay: hbbr pairs the viewer with the task that waits, whose
\* connection may have ended since, or parks it.
Join(f) ==
  LET u == flow[f].via IN
  /\ flow[f].pc = "join"
  /\ IF parked[u] = NoEnd
     THEN /\ parked' = [parked EXCEPT ![u] = f]
          /\ flow' = [flow EXCEPT ![f].pc = "parked"]
          /\ UNCHANGED job
     ELSE /\ parked' = [parked EXCEPT ![u] = NoEnd]
          /\ IF job[parked[u]] = "parked"
             THEN /\ Go(f, "secure", flow[f].try, parked[u])
                  /\ job' = [job EXCEPT ![parked[u]] = "hand"]
             ELSE Fails(f) /\ UNCHANGED job
  /\ UNCHANGED <<inbox, hbbs, last, recent>>

\* secure_connection gives up: nobody came, or the stream ended.
Gives(f) ==
  /\ \/ flow[f].pc = "parked"
     \/ flow[f].pc \in {"join", "secure"} /\ Lossy
     \/ flow[f].pc = "secure" /\ job[flow[f].via] # "hand"
  /\ Fails(f)
  /\ UNCHANGED <<inbox, hbbs, host, parked>>

\* Mutant: the other flow goes on.
SecureKeepsOther(f) ==
  /\ flow[f].pc = "secure" /\ job[flow[f].via] = "hand"
  /\ flow' = [flow EXCEPT ![f].pc = "up"]
  /\ job' = [job EXCEPT ![flow[f].via] = "up"]
  /\ UNCHANGED <<inbox, hbbs, last, recent, parked>>

\* The first flow that succeeds ends the other, wherever that is (select_ok).
Secure(f) ==
  /\ flow[f].pc = "secure" /\ job[flow[f].via] = "hand"
  /\ flow' = [g \in Flow |-> IF g = f THEN [flow[g] EXCEPT !.pc = "up"]
                             ELSE IF flow[g].pc = "failed" THEN flow[g]
                             ELSE [flow[g] EXCEPT !.pc = "dropped"]]
  /\ job' = [job EXCEPT ![flow[f].via] = "up"]
  /\ UNCHANGED <<inbox, hbbs, last, recent, parked>>

-----------------------------------------------------------------------------
\* hbbs passes an answer to the sink it has for it, and forgets the sink.
Route(a) ==
  /\ a \in answers
  /\ answers' = answers \ {a}
  /\ sinks' = sinks \ {SocketOf(a.by)}
  /\ inbox' = IF SocketOf(a.by) \in sinks THEN inbox \cup {a} ELSE inbox
  /\ UNCHANGED <<flow, host, parked>>

Set(j, s) == job' = [job EXCEPT ![j] = s]

Lose(j) ==
  /\ Lossy /\ job[j] = "coming"
  /\ Set(j, "ended")
  /\ UNCHANGED <<viewer, hbbs, last, recent, parked>>

\* A task looks at the last address that was served, ...
Read(j) ==
  /\ job[j] = "coming"
  /\ Set(j, IF last[j.kind] = SocketOf(j) /\ recent[j.kind] THEN "again" ELSE "read")
  /\ UNCHANGED <<viewer, hbbs, last, recent, parked>>

\* ... puts its own there, and is done if they were the same within 100 ms.
Note(j) ==
  /\ job[j] \in {"read", "again"}
  /\ Set(j, IF job[j] = "again" THEN "ended" ELSE "handle")
  /\ last' = [last EXCEPT ![j.kind] = SocketOf(j)]
  /\ recent' = [recent EXCEPT ![j.kind] = TRUE]
  /\ UNCHANGED <<viewer, hbbs, parked>>

Fade(k) ==
  /\ recent[k]
  /\ recent' = [recent EXCEPT ![k] = FALSE]
  /\ UNCHANGED <<viewer, hbbs, job, last, parked>>

\* The task answers over hbbs and then accepts a connection, or goes to the
\* relay: what the nature of the two networks decides.
Tell(j) ==
  /\ job[j] = "handle"
  /\ \E how \in IF j.kind = "relay" THEN {"relay"} ELSE {"direct", "relay"} :
       /\ answers' = answers \cup {[by |-> j, how |-> how]}
       /\ Set(j, IF how = "relay" THEN "told" ELSE "listen")
  /\ UNCHANGED <<viewer, sinks, last, recent, parked>>

UuidOf(j) == IF j.kind = "relay" THEN Relayed(j) ELSE j

\* create_relay_connection_: hbbr pairs the task with whoever waits under the
\* uuid, the viewer, one that has gone, or another task; or parks it.
Dial(j) ==
  LET u == UuidOf(j)
      end == parked[u] IN
  /\ job[j] = "told"
  /\ parked' = [parked EXCEPT ![u] = IF end = NoEnd THEN j ELSE NoEnd]
  /\ IF end = NoEnd THEN Set(j, "parked") /\ UNCHANGED flow
     ELSE IF end \in Flow /\ flow[end].pc = "parked" /\ flow[end].via = u
     THEN /\ Set(j, "hand")
          /\ flow' = [flow EXCEPT ![end].pc = "secure", ![end].via = j]
     ELSE Set(j, "ended") /\ UNCHANGED flow
  /\ UNCHANGED <<inbox, hbbs, last, recent>>

Fail(j) ==
  /\ Lossy /\ job[j] \in {"handle", "told"}
  /\ Set(j, "ended")
  /\ UNCHANGED <<viewer, hbbs, last, recent, parked>>

With(j) == \E f \in Flow : flow[f].via = j /\ flow[f].pc \in {"secure", "up"}

\* Nobody came within the timeout, or the viewer closed the stream.
End(j) ==
  /\ job[j] \in {"parked", "listen"} \/ (job[j] \in {"hand", "up"} /\ ~With(j))
  /\ Set(j, "ended")
  /\ UNCHANGED <<viewer, hbbs, last, recent, parked>>

\* hbbr drops an end that has waited too long, whether it is alive or not.
Expire(u) ==
  /\ parked[u] # NoEnd
  /\ parked' = [parked EXCEPT ![u] = NoEnd]
  /\ IF parked[u] \in Jobs
     THEN /\ job' = [job EXCEPT ![parked[u]] = "ended"]
          /\ UNCHANGED flow
     ELSE /\ IF flow[parked[u]].pc = "parked" THEN Fails(parked[u]) ELSE UNCHANGED flow
          /\ UNCHANGED job
  /\ UNCHANGED <<inbox, hbbs, last, recent>>

Done ==
  /\ \A f \in Flow : flow[f].pc \in {"up", "failed", "dropped"}
  /\ UNCHANGED vars

Viewer(f) ==
  \/ PunchAgain(f) \/ PunchEnds(f) \/ Punched(f) \/ Connect(f) \/ ConnectFails(f)
  \/ Ask(f) \/ AskEnds(f) \/ Answered(f) \/ Join(f) \/ Gives(f) \/ Secure(f)

Host(j) == Read(j) \/ Note(j) \/ Tell(j) \/ Dial(j) \/ End(j)

Next ==
  \/ \E f \in Flow : Punch(f) \/ Viewer(f)
  \/ \E a \in answers : Route(a)
  \/ \E j \in Jobs : Host(j) \/ Lose(j) \/ Fail(j) \/ Expire(j)
  \/ \E k \in Kinds : Fade(k)
  \/ Done

Spec == Init /\ [][Next]_vars

\* Every await of the viewer and of the host ends: by what it waits for or by
\* its timeout.
FairSpec ==
  /\ Spec
  /\ \A f \in Flow : WF_vars(Viewer(f))
  /\ \A j \in Jobs : WF_vars(Host(j))

-----------------------------------------------------------------------------
\* The variables keep their types.
TypeOK ==
  /\ flow \in [Flow -> [pc : FlowStates, try : 0..Attempts, via : Jobs]]
  /\ sinks \subseteq Sockets
  /\ inbox \subseteq Answers /\ answers \subseteq Answers
  /\ job \in [Jobs -> JobStates]
  /\ last \in [Kinds -> Sockets \cup {NoEnd}]
  /\ recent \in [Kinds -> BOOLEAN]
  /\ parked \in [Jobs -> Jobs \cup Flow \cup {NoEnd}]

\* A viewer joins a relay only under a uuid that the host has been told, and has
\* agreed to: it never waits for somebody who knows nothing of it.
WaitsForSomebody ==
  \A f \in Flow : flow[f].pc \in {"join", "parked"} =>
    \E j \in Jobs : UuidOf(j) = flow[f].via
                      /\ job[j] \notin {"none", "coming", "read", "again", "handle"}

\* A forced relay is never a direct connection.
ForcedIsRelayed ==
  ForceRelay => \A f \in Flow : flow[f].pc = "up" =>
    ~\E a \in inbox : a = [by |-> flow[f].via, how |-> "direct"]

\* The host ends one session and the viewer one connection: the flows agree on
\* which, and the viewer's is the task that has it.
OneConnection ==
  /\ Cardinality({f \in Flow : flow[f].pc \in {"up"}}) <= 1
  /\ \A f \in Flow : flow[f].pc = "up" => job[flow[f].via] = "up"

\* Two tasks of the host never meet at the relay ("skip duplicate relay request
\* messages").  With Copies = 2 they may.
NeverCrossed ==
  [][\A j \in Jobs : Dial(j) =>
       ~(parked[UuidOf(j)] \in Jobs /\ job[parked[UuidOf(j)]] = "parked")]_vars

\* The viewer comes to an end, connected or not.
Settled == \A f \in Flow : flow[f].pc \in {"idle", "up", "failed", "dropped"}
Settles == []<>Settled

\* Whatever the attempts left behind at the host ends: what stays is the task
\* that serves the viewer.
NothingLeft ==
  \A j \in Jobs : job[j] \notin {"none", "ended"} => job[j] = "up" /\ With(j)
LeftoversEnd == <>[]NothingLeft
=============================================================================
