------------------------- MODULE PunchBroker_proofs -------------------------
(***************************************************************************)
(* Proofs about PunchBroker, for any number of connections, hosts and      *)
(* addresses, shared or not, and any number of requests.  The inductive    *)
(* invariant says where a sink can be: with its task, in tcp_punch, in     *)
(* ws_map, in one send, or gone, and never in two of these places.         *)
(***************************************************************************)
EXTENDS PunchBroker, TLAPS

Kept(c) == \E a \in Addr : tcp_punch[a] = c \/ ws_map[a] = c
Used(c) == \E s \in sending : s.to = c

\* A sink that its task still has is nowhere else.
OwnedInv ==
  \A c \in Conn :
    /\ at[c] = "new" => c \notin owns /\ ~Kept(c) /\ ~Used(c)
    /\ c \in owns => at[c] # "closed" /\ ~Kept(c) /\ ~Used(c)
    /\ (at[c] = "new" \/ c \in owns) => got[c] = 0

\* A sink is kept under the address of its connection, in one map, unused.
KeptInv ==
  \A a \in Addr :
    /\ tcp_punch[a] # NoConn =>
         /\ AddrOf[tcp_punch[a]] = a
         /\ at[tcp_punch[a]] # "closed"
         /\ tcp_punch[a] # ws_map[a]
         /\ ~Used(tcp_punch[a]) /\ got[tcp_punch[a]] = 0
    /\ ws_map[a] # NoConn =>
         /\ AddrOf[ws_map[a]] = a
         /\ ~Used(ws_map[a]) /\ got[ws_map[a]] = 0

\* A task that forwards has read an address.
LocatedInv == \A c \in Conn : at[c] = "forwarding" => dest[c] # NoAddr

\* A sink carries one message.
UsedInv ==
  /\ \A s \in sending : got[s.to] = 0
  /\ \A s, r \in sending : s.to = r.to => s = r
  /\ \A c \in Conn : got[c] <= 1

\* A request carries its asker's address, and an answer goes there.
MailInv ==
  /\ \A m \in mail : m.for = AddrOf[m.asker]
  /\ \A s \in sending :
       /\ s.re.for = AddrOf[s.re.asker]
       /\ s.what # "request" => AddrOf[s.to] = s.re.for

IInv == TypeOK /\ LocatedInv /\ OwnedInv /\ KeptInv /\ UsedInv /\ MailInv

USE BrokerAssumption

LEMMA InitInv == Init => IInv
BY DEF Init, IInv, TypeOK, LocatedInv, OwnedInv, KeptInv, UsedInv, MailInv,
       Kept, Used, Idle, Busy

LEMMA AcceptInv ==
  ASSUME IInv, NEW c \in Conn, Accept(c)
  PROVE  IInv'
<1> USE DEF IInv, Accept, Goto
<1>1. TypeOK'
  BY DEF TypeOK, Idle, Busy, Requests, Sends
<1>2. OwnedInv'
  BY DEF TypeOK, Sends, OwnedInv, KeptInv, UsedInv, Kept, Used
<1>3. KeptInv'
  BY DEF TypeOK, Sends, OwnedInv, KeptInv, UsedInv, Kept, Used
<1>4. UsedInv'
  BY DEF TypeOK, Sends, OwnedInv, KeptInv, UsedInv, Kept, Used
<1>5. MailInv'
  BY DEF TypeOK, Sends, Requests, MailInv, KeptInv
<1>6. LocatedInv'
  BY DEF TypeOK, LocatedInv, Sends
<1> QED
  BY <1>1, <1>2, <1>3, <1>4, <1>5, <1>6

LEMMA AskInv ==
  ASSUME IInv, NEW c \in Conn, NEW h \in Host, Ask(c, h)
  PROVE  IInv'
<1> USE DEF IInv, Ask, Goto, Reads, KeepSink
<1>1. TypeOK'
  BY DEF TypeOK, Idle, Busy, Requests, Sends
<1>2. OwnedInv'
  BY DEF TypeOK, Sends, OwnedInv, KeptInv, UsedInv, Kept, Used
<1>3. KeptInv'
  BY DEF TypeOK, Sends, OwnedInv, KeptInv, UsedInv, Kept, Used
<1>4. UsedInv'
  BY DEF TypeOK, Sends, OwnedInv, KeptInv, UsedInv, Kept, Used
<1>5. MailInv'
  BY DEF TypeOK, Sends, Requests, MailInv, KeptInv
<1>6. LocatedInv'
  BY DEF TypeOK, LocatedInv, Sends
<1> QED
  BY <1>1, <1>2, <1>3, <1>4, <1>5, <1>6

LEMMA RefuseInv ==
  ASSUME IInv, NEW c \in Conn, Refuse(c)
  PROVE  IInv'
<1> USE DEF IInv, Refuse, Goto, TakeSink, Request
<1>1. TypeOK'
  BY DEF TypeOK, Idle, Busy, Requests, Sends
<1>2. OwnedInv'
  BY DEF TypeOK, Sends, OwnedInv, KeptInv, UsedInv, Kept, Used
<1>3. KeptInv'
  BY DEF TypeOK, Sends, OwnedInv, KeptInv, UsedInv, Kept, Used
<1>4. UsedInv'
  BY DEF TypeOK, Sends, OwnedInv, KeptInv, UsedInv, Kept, Used
<1>5. MailInv'
  BY DEF TypeOK, Sends, Requests, MailInv, KeptInv
<1>6. LocatedInv'
  BY DEF TypeOK, LocatedInv, Sends
<1> QED
  BY <1>1, <1>2, <1>3, <1>4, <1>5, <1>6

LEMMA LocateInv ==
  ASSUME IInv, NEW c \in Conn, Locate(c)
  PROVE  IInv'
<1> USE DEF IInv, Locate, Goto
<1>1. TypeOK'
  BY DEF TypeOK, Idle, Busy, Requests, Sends
<1>2. OwnedInv'
  BY DEF TypeOK, Sends, OwnedInv, KeptInv, UsedInv, Kept, Used
<1>3. KeptInv'
  BY DEF TypeOK, Sends, OwnedInv, KeptInv, UsedInv, Kept, Used
<1>4. UsedInv'
  BY DEF TypeOK, Sends, OwnedInv, KeptInv, UsedInv, Kept, Used
<1>5. MailInv'
  BY DEF TypeOK, Sends, Requests, MailInv, KeptInv
<1>6. LocatedInv'
  BY DEF TypeOK, LocatedInv, Sends
<1> QED
  BY <1>1, <1>2, <1>3, <1>4, <1>5, <1>6

LEMMA ForwardInv ==
  ASSUME IInv, NEW c \in Conn, Forward(c)
  PROVE  IInv'
<1> USE DEF IInv
<1>1. PICK a \in Addr \cup {NoAddr} : a = dest[c]
  BY DEF TypeOK
<1>2. PICK s : s = ws_map[a]
  OBVIOUS
<1>3. PICK m \in Requests : m = Request(c)
  BY DEF Request, Requests
<1>4. PICK p : p = [to |-> s, by |-> c, what |-> "request", re |-> m]
  OBVIOUS
<1>5. /\ at[c] = "forwarding"
      /\ dest' = [dest EXCEPT ![c] = NoAddr]
      /\ ws_map' = [ws_map EXCEPT ![a] = NoConn]
      /\ UNCHANGED <<owns, tcp_punch, home, want, got, tries>>
  BY <1>1 DEF Forward
<1>6. CASE s = NoConn
  <2>1. /\ at' = [at EXCEPT ![c] = "reading"]
        /\ mail' = mail \cup {m} /\ UNCHANGED sending
    BY <1>1, <1>2, <1>3, <1>6 DEF Forward, Goto
  <2>2. TypeOK' /\ LocatedInv'
    BY <1>5, <2>1 DEF TypeOK, LocatedInv, Idle, Busy
  <2>3. OwnedInv' /\ KeptInv'
    BY <1>5, <2>1 DEF TypeOK, OwnedInv, KeptInv, Kept, Used
  <2>4. UsedInv' /\ MailInv'
    BY <1>3, <1>5, <2>1 DEF UsedInv, MailInv, Request
  <2> QED
    BY <2>2, <2>3, <2>4
<1>7. CASE s # NoConn
  <2>1. /\ at' = [at EXCEPT ![c] = "sending"]
        /\ sending' = sending \cup {p} /\ UNCHANGED mail
    BY <1>1, <1>2, <1>3, <1>4, <1>7 DEF Forward, Goto
  <2>2. a \in Addr /\ s \in Conn /\ p \in Sends /\ p.to = s
    <3>1. a \in Addr
      BY <1>1, <1>5 DEF LocatedInv
    <3>2. s \in Conn
      BY <1>2, <1>7, <3>1 DEF TypeOK
    <3> QED
      BY <1>3, <1>4, <3>1, <3>2 DEF Sends
  <2>3. ~Used(s) /\ got[s] = 0 /\ s \notin owns /\ at[s] # "new"
    BY <1>2, <1>7, <2>2 DEF KeptInv, OwnedInv, Kept
  <2>4. \A b \in Addr : tcp_punch[b] # s /\ (ws_map[b] = s => b = a)
    BY <1>2, <1>7, <2>2 DEF KeptInv
  <2>5. TypeOK' /\ LocatedInv'
    BY <1>5, <2>1, <2>2 DEF TypeOK, LocatedInv, Busy
  <2>6. ASSUME NEW d \in Conn
        PROVE  (Kept(d)' => Kept(d) /\ d # s) /\ (Used(d)' => Used(d) \/ d = s)
    <3>1. Used(d)' => Used(d) \/ d = s
      BY <2>1, <2>2 DEF Used
    <3>2. Kept(d)' => Kept(d) /\ d # s
      BY <1>2, <1>5, <2>2, <2>4 DEF TypeOK, Kept
    <3> QED
      BY <3>1, <3>2
  <2>7. OwnedInv'
    BY <1>5, <2>1, <2>3, <2>6 DEF TypeOK, OwnedInv
  <2>8. KeptInv'
    BY <1>5, <2>1, <2>2, <2>4, <2>6 DEF TypeOK, KeptInv
  <2>9. UsedInv' /\ MailInv'
    BY <1>3, <1>4, <1>5, <2>1, <2>2, <2>3 DEF UsedInv, MailInv, Request, Used
  <2> QED
    BY <2>5, <2>7, <2>8, <2>9
<1> QED
  BY <1>6, <1>7

LEMMA AskRelayInv ==
  ASSUME IInv, NEW c \in Conn, NEW h \in Host, AskRelay(c, h)
  PROVE  IInv'
<1> USE DEF IInv, AskRelay, Goto, Reads, KeepSink
<1>1. TypeOK'
  BY DEF TypeOK, Idle, Busy, Requests, Sends
<1>2. OwnedInv'
  BY DEF TypeOK, Sends, OwnedInv, KeptInv, UsedInv, Kept, Used
<1>3. KeptInv'
  BY DEF TypeOK, Sends, OwnedInv, KeptInv, UsedInv, Kept, Used
<1>4. UsedInv'
  BY DEF TypeOK, Sends, OwnedInv, KeptInv, UsedInv, Kept, Used
<1>5. MailInv'
  BY DEF TypeOK, Sends, Requests, MailInv, KeptInv
<1>6. LocatedInv'
  BY DEF TypeOK, LocatedInv, Sends
<1> QED
  BY <1>1, <1>2, <1>3, <1>4, <1>5, <1>6

LEMMA RouteInv ==
  ASSUME IInv, NEW c \in Conn, Route(c)
  PROVE  IInv'
<1> USE DEF IInv, Route, Goto, Request
<1>1. TypeOK'
  BY DEF TypeOK, Idle, Busy, Requests, Sends
<1>2. OwnedInv'
  BY DEF TypeOK, Sends, OwnedInv, KeptInv, UsedInv, Kept, Used
<1>3. KeptInv'
  BY DEF TypeOK, Sends, OwnedInv, KeptInv, UsedInv, Kept, Used
<1>4. UsedInv'
  BY DEF TypeOK, Sends, OwnedInv, KeptInv, UsedInv, Kept, Used
<1>5. MailInv'
  BY DEF TypeOK, Sends, Requests, MailInv, KeptInv
<1>6. LocatedInv'
  BY DEF TypeOK, LocatedInv, Sends
<1> QED
  BY <1>1, <1>2, <1>3, <1>4, <1>5, <1>6

LEMMA RegisterWsInv ==
  ASSUME IInv, NEW c \in Conn, NEW h \in Host, RegisterWs(c, h)
  PROVE  IInv'
<1> USE DEF IInv, RegisterWs, Goto, Reads
<1>1. TypeOK'
  BY DEF TypeOK, Idle, Busy, Requests, Sends
<1>2. OwnedInv'
  BY DEF TypeOK, Sends, OwnedInv, KeptInv, UsedInv, Kept, Used
<1>3. KeptInv'
  BY DEF TypeOK, Sends, OwnedInv, KeptInv, UsedInv, Kept, Used
<1>4. UsedInv'
  BY DEF TypeOK, Sends, OwnedInv, KeptInv, UsedInv, Kept, Used
<1>5. MailInv'
  BY DEF TypeOK, Sends, Requests, MailInv, KeptInv
<1>6. LocatedInv'
  BY DEF TypeOK, LocatedInv, Sends
<1> QED
  BY <1>1, <1>2, <1>3, <1>4, <1>5, <1>6

LEMMA StoreWsInv ==
  ASSUME IInv, NEW c \in Conn, StoreWs(c)
  PROVE  IInv'
<1> USE DEF IInv, StoreWs, Goto
<1>1. TypeOK'
  BY DEF TypeOK, Idle, Busy, Requests, Sends
<1>2. OwnedInv'
  BY DEF TypeOK, Sends, OwnedInv, KeptInv, UsedInv, Kept, Used
<1>3. KeptInv'
  BY DEF TypeOK, Sends, OwnedInv, KeptInv, UsedInv, Kept, Used
<1>4. UsedInv'
  BY DEF TypeOK, Sends, OwnedInv, KeptInv, UsedInv, Kept, Used
<1>5. MailInv'
  BY DEF TypeOK, Sends, Requests, MailInv, KeptInv
<1>6. LocatedInv'
  BY DEF TypeOK, LocatedInv, Sends
<1> QED
  BY <1>1, <1>2, <1>3, <1>4, <1>5, <1>6

LEMMA RegisterInv ==
  ASSUME IInv, NEW h \in Host, NEW a \in Addr, Register(h, a)
  PROVE  IInv'
<1> USE DEF IInv, Register
<1>1. TypeOK'
  BY DEF TypeOK, Idle, Busy, Requests, Sends
<1>2. OwnedInv'
  BY DEF TypeOK, Sends, OwnedInv, KeptInv, UsedInv, Kept, Used
<1>3. KeptInv'
  BY DEF TypeOK, Sends, OwnedInv, KeptInv, UsedInv, Kept, Used
<1>4. UsedInv'
  BY DEF TypeOK, Sends, OwnedInv, KeptInv, UsedInv, Kept, Used
<1>5. MailInv'
  BY DEF TypeOK, Sends, Requests, MailInv, KeptInv
<1>6. LocatedInv'
  BY DEF TypeOK, LocatedInv, Sends
<1> QED
  BY <1>1, <1>2, <1>3, <1>4, <1>5, <1>6

LEMMA AnswerInv ==
  ASSUME IInv, NEW m \in mail, Answer(m)
  PROVE  IInv'
<1> USE DEF IInv
<1>1. m \in Requests /\ m.for \in Addr /\ m.for = AddrOf[m.asker]
  BY DEF TypeOK, Requests, MailInv
<1>2. PICK a \in Addr : a = m.for
  BY <1>1
<1>3. PICK s \in Conn : s = tcp_punch[a]
  BY <1>2 DEF Answer, TypeOK
<1>4. PICK p : p = [to |-> s, by |-> NoConn, what |-> "answer", re |-> m]
  OBVIOUS
<1>5. /\ tcp_punch' = [tcp_punch EXCEPT ![a] = NoConn]
      /\ sending' = sending \cup {p}
      /\ UNCHANGED <<at, owns, ws_map, home, want, dest, mail, got, tries>>
  BY <1>2, <1>3, <1>4 DEF Answer, TakeSink
<1>6. p \in Sends /\ p.to = s /\ p.re = m
  BY <1>1, <1>4 DEF Sends
<1>7. ~Used(s) /\ got[s] = 0 /\ s \notin owns /\ at[s] # "new" /\ AddrOf[s] = a
  BY <1>3 DEF KeptInv, OwnedInv, Kept
<1>8. \A b \in Addr : ws_map[b] # s /\ (tcp_punch[b] = s => b = a)
  BY <1>3 DEF KeptInv
<1>9. TypeOK' /\ LocatedInv'
  BY <1>5, <1>6 DEF TypeOK, LocatedInv
<1>10. ASSUME NEW d \in Conn
       PROVE  (Kept(d)' => Kept(d) /\ d # s) /\ (Used(d)' => Used(d) \/ d = s)
  <2>1. Used(d)' => Used(d) \/ d = s
    BY <1>5, <1>6 DEF Used
  <2>2. Kept(d)' => Kept(d) /\ d # s
    BY <1>3, <1>5, <1>8 DEF TypeOK, Kept
  <2> QED
    BY <2>1, <2>2
<1>11. OwnedInv'
  BY <1>5, <1>7, <1>10 DEF TypeOK, OwnedInv
<1>12. KeptInv'
  BY <1>5, <1>8, <1>10 DEF TypeOK, KeptInv
<1>13. UsedInv' /\ MailInv'
  BY <1>1, <1>2, <1>5, <1>6, <1>7 DEF UsedInv, MailInv, Used
<1> QED
  BY <1>9, <1>11, <1>12, <1>13

LEMMA DeliverInv ==
  ASSUME IInv, NEW s \in sending, Deliver(s)
  PROVE  IInv'
<1> USE DEF IInv, Deliver, Done
<1>1. TypeOK'
  BY DEF TypeOK, Idle, Busy, Requests, Sends
<1>2. OwnedInv'
  BY DEF TypeOK, Sends, OwnedInv, KeptInv, UsedInv, Kept, Used
<1>3. KeptInv'
  BY DEF TypeOK, Sends, OwnedInv, KeptInv, UsedInv, Kept, Used
<1>4. UsedInv'
  BY DEF TypeOK, Sends, OwnedInv, KeptInv, UsedInv, Kept, Used
<1>5. MailInv'
  BY DEF TypeOK, Sends, Requests, MailInv, KeptInv
<1>6. LocatedInv'
  BY DEF TypeOK, LocatedInv, Sends
<1> QED
  BY <1>1, <1>2, <1>3, <1>4, <1>5, <1>6

LEMMA DeliverFailsInv ==
  ASSUME IInv, NEW s \in sending, DeliverFails(s)
  PROVE  IInv'
<1> USE DEF IInv, DeliverFails, Done
<1>1. TypeOK'
  BY DEF TypeOK, Idle, Busy, Requests, Sends
<1>2. OwnedInv'
  BY DEF TypeOK, Sends, OwnedInv, KeptInv, UsedInv, Kept, Used
<1>3. KeptInv'
  BY DEF TypeOK, Sends, OwnedInv, KeptInv, UsedInv, Kept, Used
<1>4. UsedInv'
  BY DEF TypeOK, Sends, OwnedInv, KeptInv, UsedInv, Kept, Used
<1>5. MailInv'
  BY DEF TypeOK, Sends, Requests, MailInv, KeptInv
<1>6. LocatedInv'
  BY DEF TypeOK, LocatedInv, Sends
<1> QED
  BY <1>1, <1>2, <1>3, <1>4, <1>5, <1>6

LEMMA CloseInv ==
  ASSUME IInv, NEW c \in Conn, Close(c)
  PROVE  IInv'
<1> USE DEF IInv, Close, Goto
<1>1. TypeOK'
  BY DEF TypeOK, Idle, Busy, Requests, Sends
<1>2. OwnedInv'
  BY DEF TypeOK, Sends, OwnedInv, KeptInv, UsedInv, Kept, Used
<1>3. KeptInv'
  BY DEF TypeOK, Sends, OwnedInv, KeptInv, UsedInv, Kept, Used
<1>4. UsedInv'
  BY DEF TypeOK, Sends, OwnedInv, KeptInv, UsedInv, Kept, Used
<1>5. MailInv'
  BY DEF TypeOK, Sends, Requests, MailInv, KeptInv
<1>6. LocatedInv'
  BY DEF TypeOK, LocatedInv, Sends
<1> QED
  BY <1>1, <1>2, <1>3, <1>4, <1>5, <1>6

LEMMA NextInv == IInv /\ [Next]_vars => IInv'
<1> SUFFICES ASSUME IInv, [Next]_vars PROVE IInv'
  OBVIOUS
<1>1. ASSUME NEW c \in Conn, Advance(c) PROVE IInv'
  BY <1>1, RefuseInv, LocateInv, ForwardInv, RouteInv, StoreWsInv DEF Advance
<1>2. ASSUME NEW c \in Conn, Accept(c) \/ Close(c) PROVE IInv'
  BY <1>2, AcceptInv, CloseInv
<1>3. ASSUME NEW c \in Conn, NEW h \in Host, Ask(c, h) \/ AskRelay(c, h) \/ RegisterWs(c, h)
      PROVE  IInv'
  BY <1>3, AskInv, AskRelayInv, RegisterWsInv
<1>4. ASSUME NEW h \in Host, NEW a \in Addr, Register(h, a) PROVE IInv'
  BY <1>4, RegisterInv
<1>5. ASSUME NEW m \in mail, Answer(m) PROVE IInv'
  BY <1>5, AnswerInv
<1>6. ASSUME Finish PROVE IInv'
  BY <1>6, DeliverInv, DeliverFailsInv DEF Finish
<1>7. CASE UNCHANGED vars
  BY <1>7 DEF vars, IInv, TypeOK, LocatedInv, OwnedInv, KeptInv, UsedInv, MailInv, Kept, Used
<1> QED
  BY <1>1, <1>2, <1>3, <1>4, <1>5, <1>6, <1>7 DEF Next

-----------------------------------------------------------------------------
\* IInv holds in every reachable state of the broker.
THEOREM Inductive == Spec => []IInv
<1>1. Init => IInv
  BY InitInv
<1>2. IInv /\ [Next]_vars => IInv'
  BY NextInv
<1> QED
  BY <1>1, <1>2, PTL DEF Spec

\* The tasks, the maps and the messages on their way hold values of their types.
THEOREM TypeCorrect == Spec => []TypeOK
<1>1. IInv => TypeOK
  BY DEF IInv
<1> QED
  BY <1>1, Inductive, PTL

\* A sink that a handler moved into a map carries one message, ever.
THEOREM SinksCarryOnce == Spec => []OneMessagePerSink
<1>1. IInv => OneMessagePerSink
  BY DEF IInv, UsedInv, OneMessagePerSink
<1> QED
  BY <1>1, Inductive, PTL

\* Whatever waits in tcp_punch belongs to a task that still runs.
THEOREM WaitersAreOpen == Spec => []WaitingIsOpen
<1>1. IInv => WaitingIsOpen
  BY DEF IInv, TypeOK, OwnedInv, KeptInv, WaitingIsOpen, Kept
<1> QED
  BY <1>1, Inductive, PTL

\* No answer and no refusal is written to an address that did not ask.
THEOREM AnswersReachAskers == Spec => []AnswerReachesAsker
<1>1. IInv => AnswerReachesAsker
  BY DEF IInv, MailInv, AnswerReachesAsker
<1> QED
  BY <1>1, Inductive, PTL

LEMMA LeaveStep ==
  ASSUME IInv, [Next]_vars, NEW a \in Addr, tcp_punch[a] # NoConn, tcp_punch'[a] # tcp_punch[a]
  PROVE  \/ \E s \in sending' \ sending : s.to = tcp_punch[a]
         \/ \E d \in Conn : AddrOf[d] = a /\ (EndsSinkless(d) \/ LeavesSink(d))
<1>1. PICK c \in Conn : c = tcp_punch[a]
  BY DEF IInv, TypeOK
<1> DEFINE Reason ==
      \/ \E s \in sending' \ sending : s.to = c
      \/ \E d \in Conn : AddrOf[d] = a /\ (EndsSinkless(d) \/ LeavesSink(d))
<1>2. tcp_punch \in [Addr -> Conn \cup {NoConn}] /\ at \in [Conn -> Idle \cup Busy]
  BY DEF IInv, TypeOK
<1>3. ~Used(c) /\ c \notin owns
  BY <1>1 DEF IInv, KeptInv, OwnedInv, Kept
\* Only four operations change tcp_punch: a sink is left there,
<1>4. ASSUME NEW d \in Conn, KeepSink(d) PROVE Reason
  <2>1. AddrOf[d] \in Addr
    OBVIOUS
  <2> QED
    BY <1>1, <1>2, <1>4, <2>1 DEF KeepSink, LeavesSink
\* one is taken out to be written to,
<1>5. ASSUME NEW b \in Addr, NEW by, NEW what, NEW re, TakeSink(b, by, what, re) PROVE Reason
  <2>1. b = a
    BY <1>1, <1>2, <1>5 DEF TakeSink
  <2>2. PICK s : s = [to |-> c, by |-> by, what |-> what, re |-> re]
    OBVIOUS
  <2>3. s \in sending' /\ s.to = c
    BY <1>1, <1>5, <2>1, <2>2 DEF TakeSink
  <2>4. s \notin sending
    BY <1>3, <2>3 DEF Used
  <2> QED
    BY <2>3, <2>4
\* or a task that gave its own away closes.
<1>6. ASSUME NEW d \in Conn, Close(d) PROVE Reason
  BY <1>1, <1>2, <1>6 DEF Close, Goto, EndsSinkless
<1>7. ASSUME NEW d \in Conn, Refuse(d) PROVE Reason
  <2>1. AddrOf[d] \in Addr
    OBVIOUS
  <2> QED
    BY <1>5, <1>7, <2>1 DEF Refuse
<1>8. ASSUME NEW m \in mail, Answer(m) PROVE Reason
  <2>1. m.for \in Addr
    BY DEF IInv, TypeOK, Requests
  <2> QED
    BY <1>5, <1>8, <2>1 DEF Answer
<1>9. ASSUME NEW d \in Conn, NEW h \in Host, Ask(d, h) \/ AskRelay(d, h) PROVE Reason
  BY <1>4, <1>9 DEF Ask, AskRelay
<1> HIDE DEF Reason
<1>10. Reason
  BY <1>6, <1>7, <1>8, <1>9
  DEF Next, Accept, Advance, Locate, Forward, Route, RegisterWs, StoreWs, Register,
      Finish, Deliver, DeliverFails, vars
<1> QED
  BY <1>1, <1>10 DEF Reason

\* A waiting sink is only taken for a message, or by a task with its address, in the
\* very step in which that task ends without its sink or leaves it in the slot.
THEOREM LeavesHaveReasons == Spec => LeavesForAReason
<1>1. IInv /\ [Next]_vars =>
        [\A a \in Addr : tcp_punch[a] # NoConn /\ tcp_punch'[a] # tcp_punch[a] =>
           \/ \E s \in sending' \ sending : s.to = tcp_punch[a]
           \/ \E d \in Conn : AddrOf[d] = a /\ (EndsSinkless(d) \/ LeavesSink(d))]_vars
  BY LeaveStep
<1> QED
  BY <1>1, Inductive, PTL DEF Spec, LeavesForAReason
=============================================================================
