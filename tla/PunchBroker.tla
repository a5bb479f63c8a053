---------------------------- MODULE PunchBroker ----------------------------
(***************************************************************************)
(* hbbs: how a viewer's request travels to a host and the host's answer    *)
(* back (rustdesk-server/src/rendezvous_server.rs, handle_tcp and what it  *)
(* calls).                                                                 *)
(*                                                                         *)
(* Every TCP or WebSocket connection has a task that reads it.  The        *)
(* writing half, its sink, is moved by the handlers: a viewer's into       *)
(* tcp_punch, a WebSocket host's into ws_map, both keyed by the remote     *)
(* address, and whoever takes it out sends one message and drops it.  A    *)
(* task gives up every lock at each await, so an action is what a task     *)
(* does between two of them.  Behind a proxy connections share an address: *)
(* X-Real-IP gives them port 0.                                            *)
(***************************************************************************)
EXTENDS Naturals

CONSTANTS
  Conn, NoConn,  \* the connections; each is used once
  Ws,            \* those that came in over WebSocket
  Addr, NoAddr,
  AddrOf,        \* the remote address of each connection
  Host,          \* the hosts' ids
  MaxTries       \* bound: requests read

ASSUME BrokerAssumption ==
  /\ NoConn \notin Conn /\ Ws \subseteq Conn
  /\ NoAddr \notin Addr /\ AddrOf \in [Conn -> Addr]
  /\ MaxTries \in Nat

VARIABLES
  at,         \* where each connection's task is
  owns,       \* the connections whose task has its sink
  tcp_punch,  \* the sink kept under each address for an answer
  ws_map,     \* the sink kept under each address for requests
  home,       \* the address the registry has for each host
  want,       \* the host a task's request is for
  dest,       \* the address that the task read for it
  sending,    \* messages being written to a sink taken from a map
  mail,       \* the requests a host may have received
  got,        \* history: messages each connection got through a map
  tries

vars == <<at, owns, tcp_punch, ws_map, home, want, dest, sending, mail, got, tries>>

Idle == {"new", "reading", "closed"}
Busy == {"asking", "forwarding", "routing", "storing", "sending"}

\* A request as it is forwarded: AddrMangle'd, it carries the viewer's address,
\* and nothing else of the viewer.  (asker is history.)
Requests == [for : Addr, asker : Conn]
\* by is the task that waits for the write, if one does.
Sends == [to : Conn, by : Conn \cup {NoConn}, what : {"answer", "request", "refusal"},
          re : Requests]

Init ==
  /\ at = [c \in Conn |-> "new"]
  /\ owns = {}
  /\ tcp_punch = [a \in Addr |-> NoConn]
  /\ ws_map = [a \in Addr |-> NoConn]
  /\ home = [h \in Host |-> NoAddr]
  /\ want \in [Conn -> Host] /\ dest = [c \in Conn |-> NoAddr]
  /\ sending = {} /\ mail = {}
  /\ got = [c \in Conn |-> 0]
  /\ tries = 0

Request(c) == [for |-> AddrOf[c], asker |-> c]

Goto(c, l) == at' = [at EXCEPT ![c] = l]

Reads(c) ==
  /\ at[c] = "reading" /\ tries < MaxTries
  /\ tries' = tries + 1

-----------------------------------------------------------------------------
\* handle_listener spawns handle_listener_inner.
Accept(c) ==
  /\ at[c] = "new"
  /\ Goto(c, "reading")
  /\ owns' = owns \cup {c}
  /\ UNCHANGED <<tcp_punch, ws_map, home, want, dest, sending, mail, got, tries>>

\* Mutant: the port of the address is left out of the key.
KeepSinkByIp(c) ==
  IF c \in owns
  THEN /\ tcp_punch' = [a \in Addr |-> c]
       /\ owns' = owns \ {c}
  ELSE UNCHANGED <<tcp_punch, owns>>

\* A viewer's sink waits in tcp_punch; there may be several attempts, and only
\* the first has a sink to leave there.  One of another connection is dropped.
KeepSink(c) ==
  IF c \in owns
  THEN /\ tcp_punch' = [tcp_punch EXCEPT ![AddrOf[c]] = c]
       /\ owns' = owns \ {c}
  ELSE UNCHANGED <<tcp_punch, owns>>

\* PunchHoleRequest.
Ask(c, h) ==
  /\ Reads(c)
  /\ KeepSink(c)
  /\ want' = [want EXCEPT ![c] = h]
  /\ Goto(c, "asking")
  /\ UNCHANGED <<ws_map, home, dest, sending, mail, got>>

\* What send_to_tcp and send_to_tcp_sync do to the map, and the send they begin.
TakeSink(a, by, what, re) ==
  /\ tcp_punch' = [tcp_punch EXCEPT ![a] = NoConn]
  /\ sending' = IF tcp_punch[a] = NoConn THEN sending
                ELSE sending \cup
                       {[to |-> tcp_punch[a], by |-> by, what |-> what, re |-> re]}

\* handle_punch_hole_request says no: licence, login, subscription, sessions,
\* permission, or the host is unknown or offline.
Refuse(c) ==
  /\ at[c] = "asking"
  /\ TakeSink(AddrOf[c], c, "refusal", Request(c))
  /\ Goto(c, IF tcp_punch[AddrOf[c]] = NoConn THEN "reading" ELSE "sending")
  /\ UNCHANGED <<owns, ws_map, home, want, dest, mail, got, tries>>

\* handle_punch_hole_request reads the host's address, then picks a relay.
Locate(c) ==
  /\ at[c] = "asking" /\ home[want[c]] # NoAddr
  /\ dest' = [dest EXCEPT ![c] = home[want[c]]]
  /\ Goto(c, "forwarding")
  /\ UNCHANGED <<owns, tcp_punch, ws_map, home, want, sending, mail, got, tries>>

\* handle_tcp_punch_hole_request: to the host's WebSocket if one is kept, or else
\* through the main loop over UDP, which may lose, repeat and reorder.
Forward(c) ==
  LET s == ws_map[dest[c]] IN
  /\ at[c] = "forwarding"
  /\ dest' = [dest EXCEPT ![c] = NoAddr]
  /\ ws_map' = [ws_map EXCEPT ![dest[c]] = NoConn]
  /\ IF s # NoConn
     THEN /\ sending' = sending \cup
                          {[to |-> s, by |-> c, what |-> "request", re |-> Request(c)]}
          /\ Goto(c, "sending") /\ UNCHANGED mail
     ELSE mail' = mail \cup {Request(c)} /\ Goto(c, "reading") /\ UNCHANGED sending
  /\ UNCHANGED <<owns, tcp_punch, home, want, got, tries>>

\* RequestRelay.
AskRelay(c, h) ==
  /\ Reads(c)
  /\ KeepSink(c)
  /\ want' = [want EXCEPT ![c] = h]
  /\ Goto(c, "routing")
  /\ UNCHANGED <<ws_map, home, dest, sending, mail, got>>

\* A RequestRelay goes over UDP, or nowhere: there is no answer then.
Route(c) ==
  /\ at[c] = "routing"
  /\ mail' = IF home[want[c]] # NoAddr THEN mail \cup {Request(c)} ELSE mail
  /\ Goto(c, "reading")
  /\ UNCHANGED <<owns, tcp_punch, ws_map, home, want, dest, sending, got, tries>>

\* RegisterPk of a host over WebSocket: update_pk, then the sink into ws_map.
RegisterWs(c, h) ==
  /\ Reads(c) /\ c \in Ws
  /\ home' = [home EXCEPT ![h] = AddrOf[c]]
  /\ Goto(c, "storing")
  /\ UNCHANGED <<owns, tcp_punch, ws_map, want, dest, sending, mail, got>>

StoreWs(c) ==
  /\ at[c] = "storing"
  /\ IF c \in owns
     THEN ws_map' = [ws_map EXCEPT ![AddrOf[c]] = c] /\ owns' = owns \ {c}
     ELSE UNCHANGED <<ws_map, owns>>
  /\ Goto(c, "reading")
  /\ UNCHANGED <<tcp_punch, home, want, dest, sending, mail, got, tries>>

\* Any other registration or heartbeat of a host.
Register(h, a) ==
  /\ home' = [home EXCEPT ![h] = a]
  /\ UNCHANGED <<at, owns, tcp_punch, ws_map, want, dest, sending, mail, got, tries>>

\* Mutant: the sink is used and left in tcp_punch.
AnswerKeepsSink(m) ==
  /\ m \in mail
  /\ tcp_punch[m.for] # NoConn
  /\ sending' = sending \cup
       {[to |-> tcp_punch[m.for], by |-> NoConn, what |-> "answer", re |-> m]}
  /\ UNCHANGED <<at, owns, tcp_punch, ws_map, home, want, dest, mail, got, tries>>

\* A host answers, once or more, with PunchHoleSent, LocalAddr or RelayResponse on
\* a connection of its own; an answer that finds no sink is dropped.
Answer(m) ==
  /\ m \in mail
  /\ tcp_punch[m.for] # NoConn
  /\ TakeSink(m.for, NoConn, "answer", m)
  /\ UNCHANGED <<at, owns, ws_map, home, want, dest, mail, got, tries>>

Done(s) ==
  /\ sending' = sending \ {s}
  /\ at' = IF s.by = NoConn THEN at ELSE [at EXCEPT ![s.by] = "reading"]

\* The message is written and the sink is dropped.
Deliver(s) ==
  /\ s \in sending
  /\ Done(s)
  /\ got' = [got EXCEPT ![s.to] = @ + 1]
  /\ mail' = IF s.what = "request" THEN mail \cup {s.re} ELSE mail
  /\ UNCHANGED <<owns, tcp_punch, ws_map, home, want, dest, tries>>

\* The write fails: the client is gone.
DeliverFails(s) ==
  /\ s \in sending
  /\ Done(s)
  /\ UNCHANGED <<owns, tcp_punch, ws_map, home, want, dest, mail, got, tries>>

\* Mutant: the entry is removed only by an answer.
CloseLeavesEntry(c) ==
  /\ at[c] = "reading"
  /\ Goto(c, "closed")
  /\ owns' = owns \ {c}
  /\ UNCHANGED <<tcp_punch, ws_map, home, want, dest, sending, mail, got, tries>>

\* Mutant: the entry is removed also by a connection that never left its sink.
CloseTakesEntry(c) ==
  /\ at[c] = "reading"
  /\ Goto(c, "closed")
  /\ owns' = owns \ {c}
  /\ tcp_punch' = [tcp_punch EXCEPT ![AddrOf[c]] = NoConn]
  /\ UNCHANGED <<ws_map, home, want, dest, sending, mail, got, tries>>

\* The connection ends, or is silent for 30 s, or sent what ends the loop.  The
\* task frees the slot of its address if it gave its sink away.
Close(c) ==
  /\ at[c] = "reading"
  /\ Goto(c, "closed")
  /\ owns' = owns \ {c}
  /\ tcp_punch' = IF c \in owns THEN tcp_punch
                  ELSE [tcp_punch EXCEPT ![AddrOf[c]] = NoConn]
  /\ UNCHANGED <<ws_map, home, want, dest, sending, mail, got, tries>>

\* What a task does by itself.
Advance(c) == Refuse(c) \/ Locate(c) \/ Forward(c) \/ Route(c) \/ StoreWs(c)

Finish == \E s \in sending : Deliver(s) \/ DeliverFails(s)

Next ==
  \/ \E c \in Conn :
       \/ Accept(c) \/ Close(c) \/ Advance(c)
       \/ \E h \in Host : Ask(c, h) \/ AskRelay(c, h) \/ RegisterWs(c, h)
  \/ \E h \in Host, a \in Addr : Register(h, a)
  \/ \E m \in mail : Answer(m)
  \/ Finish

Spec == Init /\ [][Next]_vars

\* tokio runs the tasks; a write ends, if only by the failure of the connection;
\* a connection that sends nothing is closed by the 30 s timeout of its reader.
Fairness ==
  /\ WF_vars(Finish)
  /\ \A c \in Conn : WF_vars(Advance(c)) /\ WF_vars(Close(c))

FairSpec == Spec /\ Fairness

-----------------------------------------------------------------------------
TypeOK ==
  /\ at \in [Conn -> Idle \cup Busy]
  /\ owns \subseteq Conn
  /\ tcp_punch \in [Addr -> Conn \cup {NoConn}]
  /\ ws_map \in [Addr -> Conn \cup {NoConn}]
  /\ home \in [Host -> Addr \cup {NoAddr}]
  /\ want \in [Conn -> Host]
  /\ dest \in [Conn -> Addr \cup {NoAddr}]
  /\ sending \subseteq Sends /\ mail \subseteq Requests
  /\ got \in [Conn -> Nat] /\ tries \in 0..MaxTries

\* A connection that gave its sink away gets one message through it at most,
\* however often it asks and however often hosts answer.
OneMessagePerSink == \A c \in Conn : got[c] <= 1

\* A viewer's sink does not outlive its task in tcp_punch, so an answer is never
\* spent on a viewer that left.
WaitingIsOpen ==
  \A a \in Addr : tcp_punch[a] # NoConn =>
    /\ AddrOf[tcp_punch[a]] = a
    /\ at[tcp_punch[a]] \notin {"new", "closed"}

\* An answer or a refusal is only written to a connection with the address that
\* asked: to the asker itself, unless a proxy gave them the same address.
AnswerReachesAsker ==
  \A s \in sending : s.what # "request" => AddrOf[s.to] = AddrOf[s.re.asker]

\* In this step d's task ends, having given its sink away, to either map.
EndsSinkless(d) == at[d] # "closed" /\ at'[d] = "closed" /\ d \notin owns

\* In this step d's task gives its sink away to tcp_punch.
LeavesSink(d) == d \in owns \ owns' /\ tcp_punch'[AddrOf[d]] = d

\* A waiting sink leaves tcp_punch only in the step that begins to write a message
\* to it, or in one of a task with its address: the sink's own or, behind a proxy,
\* another one, which either takes the slot for its own sink or ends after it had
\* given its sink away, whatever became of that sink.
LeavesForAReason ==
  [][\A a \in Addr : tcp_punch[a] # NoConn /\ tcp_punch'[a] # tcp_punch[a] =>
       \/ \E s \in sending' \ sending : s.to = tcp_punch[a]
       \/ \E d \in Conn : AddrOf[d] = a /\ (EndsSinkless(d) \/ LeavesSink(d))]_vars

\* Every waiting viewer is answered or let go.
WaitingEnds == \A c \in Conn, a \in Addr : tcp_punch[a] = c ~> tcp_punch[a] # c
=============================================================================
