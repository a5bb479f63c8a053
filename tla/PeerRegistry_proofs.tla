------------------------ MODULE PeerRegistry_proofs ------------------------
(***************************************************************************)
(* Proofs about PeerRegistry, for any number of requests, ids, machines,   *)
(* keys, addresses and restarts, any mix of transports and any failures of *)
(* the database.  The inductive invariant IInv adds to the types what a    *)
(* task knows at each await (PcInv) and which task refers to which record  *)
(* (RefInv): a record is reached under one id only, and by nobody before   *)
(* the task it is named after has made it.  The last two theorems are      *)
(* about registrations by UDP, which hbbs serves one at a time: SerialInv, *)
(* RecordInv and WriteInv add what this excludes.                          *)
(***************************************************************************)
EXTENDS PeerRegistry, TLAPS

\* What a task knows at each await: the kind of its request, that it holds a
\* record, that it has read a row.
PcInv ==
  \A t \in Task :
    /\ pc[t] \in Busy => req[t] \in Requests
    /\ pc[t] \in {"find", "load", "publish"} => req[t].kind # "heartbeat"
    /\ pc[t] \in {"ensure", "check", "rate", "apply", "store", "seal"} => Registers(t)
    /\ pc[t] = "beat" => req[t].kind = "heartbeat"
    /\ pc[t] \in {"check", "rate", "apply", "store", "seal"} => ref[t] \in Task
    /\ pc[t] = "publish" => row[t] \in Rows

\* Where a task has not yet made or found a record.
Early == {"idle", "find", "load", "publish", "ensure"}

RefInv ==
  /\ \A t \in Task : pc[t] \in Early => ref[t] = NoTask
  /\ \A i \in Id : mem[i] # NoTask =>
       pc[mem[i]] \notin Early /\ req[mem[i]].id = i
  /\ \A t \in Task : pc[t] \in Busy /\ ref[t] # NoTask =>
       pc[ref[t]] \notin Early /\ req[ref[t]].id = req[t].id

IInv == TypeOK /\ PcInv /\ RefInv

USE NamesAssumption, ViaAssumption, CrashAssumption

LEMMA RegisterType ==
  ASSUME NEW r \in Requests, r.kind = "register"
  PROVE  r.id \in Id /\ r.uuid \in Uuid /\ r.pk \in Pk /\ r.ip \in Ip
BY DEF Requests

LEMMA RequestType ==
  ASSUME NEW r \in Requests
  PROVE  r.id \in Id /\ (r.kind = "heartbeat" => r.ip \in Ip) /\ r.kind # "none"
BY DEF Requests

LEMMA InitInv == Init => IInv
BY DEF Init, IInv, TypeOK, PcInv, RefInv, EmptyPeer, Records, Replies, Idle, Busy, Early

LEMMA StartInv ==
  ASSUME IInv, NEW t \in Task, NEW r \in Requests, Start(t, r)
  PROVE  IInv'
<1> USE DEF IInv, Start, Goto, locals
<1>1. TypeOK'
  BY RegisterType, RequestType
  DEF TypeOK, PcInv, Rows, Replies, Busy, Idle
<1>2. PcInv'
  BY RequestType DEF TypeOK, PcInv, RefInv, Registers, Busy, Idle, Early
<1>3. RefInv'
  BY RequestType DEF TypeOK, PcInv, RefInv, Registers, Busy, Idle, Early
<1> QED
  BY <1>1, <1>2, <1>3

LEMMA FindInv ==
  ASSUME IInv, NEW t \in Task, Find(t)
  PROVE  IInv'
<1> USE DEF IInv, Find, Obtain, Goto, Answer, locals
<1>1. TypeOK'
  BY RegisterType, RequestType
  DEF TypeOK, PcInv, Rows, Replies, Busy, Idle
<1>2. PcInv'
  BY RequestType DEF TypeOK, PcInv, RefInv, Registers, Busy, Idle, Early
<1>3. RefInv'
  BY RequestType DEF TypeOK, PcInv, RefInv, Registers, Busy, Idle, Early
<1> QED
  BY <1>1, <1>2, <1>3

LEMMA LoadInv ==
  ASSUME IInv, NEW t \in Task, Load(t)
  PROVE  IInv'
<1> USE DEF IInv, Load, Absent, Goto, Answer, locals
<1>1. TypeOK'
  BY RegisterType, RequestType
  DEF TypeOK, PcInv, Rows, Replies, Busy, Idle
<1>2. PcInv'
  BY RequestType DEF TypeOK, PcInv, RefInv, Registers, Busy, Idle, Early
<1>3. RefInv'
  BY RequestType DEF TypeOK, PcInv, RefInv, Registers, Busy, Idle, Early
<1> QED
  BY <1>1, <1>2, <1>3

LEMMA LoadFailsInv ==
  ASSUME IInv, NEW t \in Task, LoadFails(t)
  PROVE  IInv'
<1> USE DEF IInv, LoadFails, Absent, Goto, Answer, locals
<1>1. TypeOK'
  BY RegisterType, RequestType
  DEF TypeOK, PcInv, Rows, Replies, Busy, Idle
<1>2. PcInv'
  BY RequestType DEF TypeOK, PcInv, RefInv, Registers, Busy, Idle, Early
<1>3. RefInv'
  BY RequestType DEF TypeOK, PcInv, RefInv, Registers, Busy, Idle, Early
<1> QED
  BY <1>1, <1>2, <1>3

LEMMA PublishInv ==
  ASSUME IInv, NEW t \in Task, Publish(t)
  PROVE  IInv'
<1> USE DEF IInv, Publish, Obtain, Goto, Answer, locals
<1>1. TypeOK'
  <2>1. FromRow(row[t]) \in Records
    BY DEF TypeOK, PcInv, Records, Rows, FromRow
  <2> QED
    BY <2>1, RequestType DEF TypeOK, PcInv, Replies, Busy, Idle
<1>2. PcInv'
  BY RequestType DEF TypeOK, PcInv, RefInv, Registers, Busy, Idle, Early
<1>3. RefInv'
  BY RequestType DEF TypeOK, PcInv, RefInv, Registers, Busy, Idle, Early
<1> QED
  BY <1>1, <1>2, <1>3

LEMMA EnsureInv ==
  ASSUME IInv, NEW t \in Task, Ensure(t)
  PROVE  IInv'
<1> USE DEF IInv, Ensure, Obtain, Goto, Answer, locals
<1>1. TypeOK'
  <2>1. EmptyPeer \in Records
    BY DEF EmptyPeer, Records
  <2> QED
    BY <2>1, RequestType DEF TypeOK, PcInv, Replies, Busy, Idle
<1>2. PcInv'
  BY RequestType DEF TypeOK, PcInv, RefInv, Registers, Busy, Idle, Early
<1>3. RefInv'
  BY RequestType DEF TypeOK, PcInv, RefInv, Registers, Busy, Idle, Early
<1> QED
  BY <1>1, <1>2, <1>3

LEMMA CheckInv ==
  ASSUME IInv, NEW t \in Task, Check(t)
  PROVE  IInv'
<1> USE DEF IInv, Check, Goto, Answer, locals
<1>1. TypeOK'
  BY DEF TypeOK, PcInv, Differs, Replies, Busy, Idle
<1>2. PcInv'
  BY RequestType DEF TypeOK, PcInv, RefInv, Registers, Busy, Idle, Early
<1>3. RefInv'
  BY RequestType DEF TypeOK, PcInv, RefInv, Registers, Busy, Idle, Early
<1> QED
  BY <1>1, <1>2, <1>3

LEMMA RateInv ==
  ASSUME IInv, NEW t \in Task, Rate(t)
  PROVE  IInv'
<1> USE DEF IInv, Rate, Goto, Answer, locals
<1>1. TypeOK'
  BY RegisterType, RequestType
  DEF TypeOK, PcInv, Rows, Replies, Busy, Idle
<1>2. PcInv'
  BY RequestType DEF TypeOK, PcInv, RefInv, Registers, Busy, Idle, Early
<1>3. RefInv'
  BY RequestType DEF TypeOK, PcInv, RefInv, Registers, Busy, Idle, Early
<1> QED
  BY <1>1, <1>2, <1>3

LEMMA ApplyInv ==
  ASSUME IInv, NEW t \in Task, Apply(t)
  PROVE  IInv'
<1> USE DEF IInv, Apply, Goto, locals
<1>1. TypeOK'
  <2>1. heap[ref[t]] \in Records /\ ref[t] \in Task
    BY DEF TypeOK, PcInv
  <2>2. req[t] \in Requests /\ req[t].kind = "register"
    BY DEF PcInv, Busy, Registers
  <2>3. [heap[ref[t]] EXCEPT !.uuid = req[t].uuid, !.pk = req[t].pk, !.ip = req[t].ip,
                             !.addr = req[t].ip, !.port = HasPort(req[t]),
                             !.fresh = TRUE] \in Records
    BY <2>1, <2>2, RegisterType DEF Records, HasPort
  <2>4. heap[ref[t]].guid \in Task \cup {NoTask}
    BY <2>1 DEF Records
  <2> QED
    BY <2>1, <2>3, <2>4 DEF TypeOK, Busy
<1>2. PcInv'
  BY RequestType DEF TypeOK, PcInv, RefInv, Registers, Busy, Idle, Early
<1>3. RefInv'
  BY RequestType DEF TypeOK, PcInv, RefInv, Registers, Busy, Idle, Early
<1> QED
  BY <1>1, <1>2, <1>3

LEMMA InsertInv ==
  ASSUME IInv, NEW t \in Task, Insert(t)
  PROVE  IInv'
<1> USE DEF IInv, Insert, Goto, Answer, locals
<1>1. TypeOK'
  <2>1. req[t] \in Requests /\ req[t].kind = "register"
    BY DEF PcInv, Busy, Registers
  <2>2. [guid |-> t, uuid |-> req[t].uuid, pk |-> req[t].pk, ip |-> req[t].ip] \in Rows
    BY <2>1, RegisterType DEF Rows
  <2> QED
    BY <2>1, <2>2, RequestType DEF TypeOK, Replies, Busy, Idle
<1>2. PcInv'
  BY RequestType DEF TypeOK, PcInv, RefInv, Registers, Busy, Idle, Early
<1>3. RefInv'
  BY RequestType DEF TypeOK, PcInv, RefInv, Registers, Busy, Idle, Early
<1> QED
  BY <1>1, <1>2, <1>3

LEMMA UpdateInv ==
  ASSUME IInv, NEW t \in Task, Update(t)
  PROVE  IInv'
<1> USE DEF IInv, Update, Answer, locals
<1>1. TypeOK'
  <2>1. req[t] \in Requests /\ req[t].kind = "register"
    BY DEF PcInv, Busy, Registers
  <2>2. req[t].id \in Id /\ req[t].pk \in Pk /\ req[t].ip \in Ip
    BY <2>1, RegisterType
  <2>3. ASSUME db[req[t].id] # NoRow
        PROVE  [db[req[t].id] EXCEPT !.pk = req[t].pk, !.ip = req[t].ip] \in Rows
    <3>1. db[req[t].id] \in Rows
      BY <2>2, <2>3 DEF TypeOK
    <3> HIDE DEF Update
    <3> QED
      BY <2>2, <3>1 DEF Rows
  <2>4. db' \in [Id -> Rows \cup {NoRow}]
    BY <2>2, <2>3 DEF TypeOK
  <2> QED
    BY <2>4 DEF TypeOK, Replies, Idle
<1>2. PcInv'
  BY RequestType DEF TypeOK, PcInv, RefInv, Registers, Busy, Idle, Early
<1>3. RefInv'
  BY RequestType DEF TypeOK, PcInv, RefInv, Registers, Busy, Idle, Early
<1> QED
  BY <1>1, <1>2, <1>3

LEMMA StoreFailsInv ==
  ASSUME IInv, NEW t \in Task, StoreFails(t)
  PROVE  IInv'
<1> USE DEF IInv, StoreFails, Answer, locals
<1>1. TypeOK'
  BY RegisterType, RequestType
  DEF TypeOK, PcInv, Rows, Replies, Busy, Idle
<1>2. PcInv'
  BY RequestType DEF TypeOK, PcInv, RefInv, Registers, Busy, Idle, Early
<1>3. RefInv'
  BY RequestType DEF TypeOK, PcInv, RefInv, Registers, Busy, Idle, Early
<1> QED
  BY <1>1, <1>2, <1>3

LEMMA SealInv ==
  ASSUME IInv, NEW t \in Task, Seal(t)
  PROVE  IInv'
<1> USE DEF IInv, Seal, Answer, locals
<1>1. TypeOK'
  <2>1. heap[ref[t]] \in Records /\ ref[t] \in Task
    BY DEF TypeOK, PcInv
  <2>2. [heap[ref[t]] EXCEPT !.guid = t] \in Records
    BY <2>1 DEF Records
  <2> QED
    BY <2>1, <2>2 DEF TypeOK, Replies, Idle
<1>2. PcInv'
  BY RequestType DEF TypeOK, PcInv, RefInv, Registers, Busy, Idle, Early
<1>3. RefInv'
  BY RequestType DEF TypeOK, PcInv, RefInv, Registers, Busy, Idle, Early
<1> QED
  BY <1>1, <1>2, <1>3

LEMMA FindBeatInv ==
  ASSUME IInv, NEW t \in Task, FindBeat(t)
  PROVE  IInv'
<1> USE DEF IInv, FindBeat, Answer, locals
<1>1. TypeOK'
  BY RegisterType, RequestType
  DEF TypeOK, PcInv, Rows, Replies, Busy, Idle
<1>2. PcInv'
  BY RequestType DEF TypeOK, PcInv, RefInv, Registers, Busy, Idle, Early
<1>3. RefInv'
  BY RequestType DEF TypeOK, PcInv, RefInv, Registers, Busy, Idle, Early
<1> QED
  BY <1>1, <1>2, <1>3

LEMMA BeatInv ==
  ASSUME IInv, NEW t \in Task, Beat(t)
  PROVE  IInv'
<1> USE DEF IInv, Beat, Answer, locals
<1>1. TypeOK'
  <2>1. heap[ref[t]] \in Records /\ ref[t] \in Task
    BY DEF TypeOK, PcInv
  <2>2. req[t].ip \in Ip
    BY RequestType DEF PcInv, Busy
  <2>3. [heap[ref[t]] EXCEPT !.addr = req[t].ip, !.port = HasPort(req[t]),
                             !.fresh = TRUE] \in Records
    BY <2>1, <2>2 DEF Records, HasPort
  <2>4. heap' \in [Task -> Records]
    BY <2>1, <2>3 DEF TypeOK
  <2> QED
    BY <2>4 DEF TypeOK, Replies, Idle
<1>2. PcInv'
  BY RequestType DEF TypeOK, PcInv, RefInv, Registers, Busy, Idle, Early
<1>3. RefInv'
  BY RequestType DEF TypeOK, PcInv, RefInv, Registers, Busy, Idle, Early
<1> QED
  BY <1>1, <1>2, <1>3

LEMMA FadeInv ==
  ASSUME IInv, NEW t \in Task, Fade(t)
  PROVE  IInv'
<1> USE DEF IInv, Fade, locals
<1>1. TypeOK'
  <2>1. heap[t] \in Records
    BY DEF TypeOK
  <2>2. [heap[t] EXCEPT !.fresh = FALSE] \in Records
    BY <2>1 DEF Records
  <2> QED
    BY <2>1, <2>2 DEF TypeOK
<1>2. PcInv'
  BY RequestType DEF TypeOK, PcInv, RefInv, Registers, Busy, Idle, Early
<1>3. RefInv'
  BY RequestType DEF TypeOK, PcInv, RefInv, Registers, Busy, Idle, Early
<1> QED
  BY <1>1, <1>2, <1>3

LEMMA CrashInv ==
  ASSUME IInv, Crash
  PROVE  IInv'
<1> USE DEF IInv, Crash, locals
<1>1. TypeOK'
  <2>1. EmptyPeer \in Records
    BY DEF EmptyPeer, Records
  <2> QED
    BY <2>1, RequestType DEF TypeOK, PcInv, Replies, Busy, Idle
<1>2. PcInv'
  BY RequestType DEF TypeOK, PcInv, RefInv, Registers, Busy, Idle, Early
<1>3. RefInv'
  BY RequestType DEF TypeOK, PcInv, RefInv, Registers, Busy, Idle, Early
<1> QED
  BY <1>1, <1>2, <1>3

LEMMA NextInv == IInv /\ [Next]_vars => IInv'
<1> SUFFICES ASSUME IInv, [Next]_vars PROVE IInv'
  OBVIOUS
<1>1. ASSUME NEW t \in Task, NEW r \in Requests, Start(t, r) PROVE IInv'
  BY <1>1, StartInv
<1>2. ASSUME NEW t \in Task, Step(t) PROVE IInv'
  <2>1. CASE Find(t)
    BY <2>1, FindInv
  <2>2. CASE Load(t)
    BY <2>2, LoadInv
  <2>3. CASE LoadFails(t)
    BY <2>3, LoadFailsInv
  <2>4. CASE Publish(t)
    BY <2>4, PublishInv
  <2>5. CASE Ensure(t)
    BY <2>5, EnsureInv
  <2>6. CASE Check(t)
    BY <2>6, CheckInv
  <2>7. CASE Rate(t)
    BY <2>7, RateInv
  <2>8. CASE Apply(t)
    BY <2>8, ApplyInv
  <2>9. CASE Insert(t)
    BY <2>9, InsertInv
  <2>10. CASE Update(t)
    BY <2>10, UpdateInv
  <2>11. CASE StoreFails(t)
    BY <2>11, StoreFailsInv
  <2>12. CASE Seal(t)
    BY <2>12, SealInv
  <2>13. CASE FindBeat(t)
    BY <2>13, FindBeatInv
  <2>14. CASE Beat(t)
    BY <2>14, BeatInv
  <2> QED
    BY <1>2, <2>1, <2>2, <2>3, <2>4, <2>5, <2>6, <2>7, <2>8, <2>9, <2>10, <2>11,
       <2>12, <2>13, <2>14
    DEF Step
<1>3. ASSUME NEW t \in Task, Fade(t) PROVE IInv'
  BY <1>3, FadeInv
<1>4. CASE Crash
  BY <1>4, CrashInv
<1>5. CASE UNCHANGED vars
  BY <1>5 DEF vars, locals, IInv, TypeOK, PcInv, RefInv, Registers
<1> QED
  BY <1>1, <1>2, <1>3, <1>4, <1>5 DEF Next

-----------------------------------------------------------------------------
\* IInv holds in every reachable state of hbbs's peer registry.
THEOREM Inductive == Spec => []IInv
<1>1. Init => IInv
  BY InitInv
<1>2. IInv /\ [Next]_vars => IInv'
  BY NextInv
<1> QED
  BY <1>1, <1>2, PTL DEF Spec

\* The memory, the table and every task hold values of their types.
THEOREM TypeCorrect == Spec => []TypeOK
<1>1. IInv => TypeOK
  BY DEF IInv
<1> QED
  BY <1>1, Inductive, PTL

-----------------------------------------------------------------------------
\* The address half of the registry, with the types that its steps rest on.
AInv == IInv /\ AddressWasRegistered

LEMMA AddressStep == AInv /\ [Next]_vars => AddressWasRegistered'
<1> SUFFICES ASSUME AInv, [Next]_vars PROVE AddressWasRegistered'
  OBVIOUS
<1> USE DEF AInv, IInv
<1> DEFINE Good(p) == /\ p.addr \in {NoIp, p.ip, Loopback}
                      /\ p.fresh => p.addr # NoIp
<1>0. \A s \in Task : Good(heap[s]) /\ heap[s] \in Records
  BY DEF AddressWasRegistered, TypeOK
<1>1. ASSUME heap' = heap PROVE AddressWasRegistered'
  BY <1>1 DEF AddressWasRegistered
<1>2. ASSUME NEW s \in Task, NEW p, Good(p), heap' = [heap EXCEPT ![s] = p]
      PROVE  AddressWasRegistered'
  BY <1>2 DEF AddressWasRegistered, TypeOK
<1>3. Good(EmptyPeer)
  BY DEF EmptyPeer
<1> HIDE DEF Good
<1>4. ASSUME NEW t \in Task, Publish(t) PROVE AddressWasRegistered'
  <2>1. Good(FromRow(row[t]))
    BY DEF Good, FromRow
  <2> QED
    BY <1>2, <1>4, <2>1 DEF Publish
<1>5. ASSUME NEW t \in Task, Ensure(t) PROVE AddressWasRegistered'
  BY <1>1, <1>2, <1>3, <1>5 DEF Ensure
<1>6. ASSUME NEW t \in Task, Apply(t) PROVE AddressWasRegistered'
  <2>1. ref[t] \in Task /\ req[t].ip \in Ip
    BY <1>6, RegisterType DEF PcInv, Apply, Registers, Busy
  <2>2. PICK p \in Records : p = heap[ref[t]]
    BY <1>0, <2>1
  <2>3. PICK q : q = [p EXCEPT !.uuid = req[t].uuid, !.pk = req[t].pk,
                               !.ip = req[t].ip, !.addr = req[t].ip,
                               !.port = HasPort(req[t]), !.fresh = TRUE]
    OBVIOUS
  <2>4. Good(q)
    BY <2>1, <2>3 DEF Good, Records
  <2> QED
    BY <1>2, <1>6, <2>1, <2>2, <2>3, <2>4 DEF Apply
<1>7. ASSUME NEW t \in Task, Seal(t) PROVE AddressWasRegistered'
  <2>1. PICK p \in Records : p = heap[ref[t]] /\ Good(p) /\ ref[t] \in Task
    BY <1>0, <1>7 DEF PcInv, Seal
  <2>2. PICK q : q = [p EXCEPT !.guid = t]
    OBVIOUS
  <2>3. Good(q)
    BY <2>1, <2>2 DEF Good, Records
  <2> QED
    BY <1>2, <1>7, <2>1, <2>2, <2>3 DEF Seal
<1>8. ASSUME NEW t \in Task, Beat(t) PROVE AddressWasRegistered'
  <2>1. req[t].ip \in Ip
    BY <1>8, RequestType DEF PcInv, Beat, Busy
  <2>2. PICK p \in Records : p = heap[ref[t]] /\ Good(p) /\ ref[t] \in Task
    BY <1>0, <1>8 DEF TypeOK, Beat
  <2>3. PICK q : q = [p EXCEPT !.addr = req[t].ip, !.port = HasPort(req[t]), !.fresh = TRUE]
    OBVIOUS
  <2>4. CASE AsksForPk(heap[ref[t]], req[t].ip)
    BY <1>1, <1>8, <2>4 DEF Beat
  <2>5. CASE ~ AsksForPk(heap[ref[t]], req[t].ip)
    <3>1. req[t].ip \in {p.addr, p.ip, Loopback}
      BY <2>2, <2>5 DEF AsksForPk, IpChanged
    <3>2. Good(q)
      BY <2>1, <2>2, <2>3, <3>1 DEF Good, Records
    <3> QED
      BY <1>2, <1>8, <2>2, <2>3, <2>5, <3>2 DEF Beat
  <2> QED
    BY <2>4, <2>5
<1>9. ASSUME NEW t \in Task, Fade(t) PROVE AddressWasRegistered'
  <2>1. PICK p \in Records : p = heap[t] /\ Good(p)
    BY <1>0
  <2>2. PICK q : q = [p EXCEPT !.fresh = FALSE]
    OBVIOUS
  <2>3. Good(q)
    BY <2>1, <2>2 DEF Good, Records
  <2> QED
    BY <1>2, <1>9, <2>1, <2>2, <2>3 DEF Fade
<1>10. CASE Crash
  BY <1>3, <1>10 DEF Crash, AddressWasRegistered, Good
<1> QED
  BY <1>1, <1>4, <1>5, <1>6, <1>7, <1>8, <1>9, <1>10
  DEF Next, Step, Start, Find, Load, LoadFails, Check, Rate, Insert, Update,
      StoreFails, FindBeat, vars

\* A peer is only ever reached at the address of its last RegisterPk or at the
\* server's own host, whatever heartbeats and loads race with it.
THEOREM AddressesWereRegistered == Spec => []AddressWasRegistered
<1>1. Init => AInv
  BY InitInv DEF Init, AInv, AddressWasRegistered, EmptyPeer
<1>2. AInv /\ [Next]_vars => AInv'
  BY NextInv, AddressStep DEF AInv
<1>3. AInv => AddressWasRegistered
  BY DEF AInv
<1> QED
  BY <1>1, <1>2, <1>3, PTL DEF Spec

-----------------------------------------------------------------------------
\* What Update leaves of a row.
LEMMA UpdateKeepsOwner ==
  ASSUME IInv, NEW t \in Task, Update(t), NEW i \in Id, db[i] # NoRow
  PROVE  db'[i] \in Rows /\ db'[i].uuid = db[i].uuid /\ db'[i].guid = db[i].guid
<1> DEFINE j == req[t].id
<1>1. db[i] \in Rows /\ req[t] \in Requests /\ req[t].kind = "register"
  BY DEF IInv, TypeOK, PcInv, Update, Busy, Registers
<1>2. j \in Id /\ req[t].pk \in Pk /\ req[t].ip \in Ip
  BY <1>1, RegisterType
<1>3. CASE i = j /\ db[j] # NoRow /\ db[j].guid = guid[t]
  <2>1. db'[i] = [db[i] EXCEPT !.pk = req[t].pk, !.ip = req[t].ip]
    BY <1>2, <1>3 DEF Update, IInv, TypeOK
  <2> QED
    BY <1>1, <1>2, <2>1 DEF Rows
<1>4. CASE ~ (i = j /\ db[j] # NoRow /\ db[j].guid = guid[t])
  <2>1. db'[i] = db[i]
    BY <1>2, <1>4 DEF Update, IInv, TypeOK
  <2> QED
    BY <1>1, <2>1
<1> QED
  BY <1>3, <1>4

\* No step takes a row away or gives it to another machine.
LEMMA OwnerStep ==
  ASSUME IInv, [Next]_vars, NEW i \in Id, db[i] # NoRow
  PROVE  db'[i] # NoRow /\ db'[i].uuid = db[i].uuid /\ db'[i].guid = db[i].guid
<1>1. ASSUME NEW t \in Task, Insert(t) PROVE db'[i] = db[i]
  <2>1. req[t].id \in Id
    BY <1>1, RequestType DEF IInv, PcInv, Insert, Busy
  <2> QED
    BY <1>1, <2>1 DEF Insert, IInv, TypeOK
<1>2. ASSUME NEW t \in Task, Update(t)
      PROVE  db'[i] # NoRow /\ db'[i].uuid = db[i].uuid /\ db'[i].guid = db[i].guid
  BY <1>2, UpdateKeepsOwner, RowAssumption DEF Rows
<1> QED
  BY <1>1, <1>2
  DEF Next, Step, Start, Find, Load, LoadFails, Publish, Ensure, Check, Rate, Apply,
      StoreFails, Seal, FindBeat, Beat, Fade, Crash, vars

\* The machine that first got a row for an id keeps it, whatever registrations
\* race, whatever the database fails at and however often hbbs restarts.
THEOREM RowsKeepOwners == Spec => RowKeepsOwner
<1>1. IInv /\ [Next]_vars =>
        [\A i \in Id : db[i] # NoRow =>
           /\ db'[i] # NoRow
           /\ db'[i].uuid = db[i].uuid /\ db'[i].guid = db[i].guid]_vars
  BY OwnerStep
<1> QED
  BY <1>1, Inductive, PTL DEF Spec, RowKeepsOwner

-----------------------------------------------------------------------------
\* The memory and every task at work know o as the owner of id i.
KnownAs(i, o) ==
  /\ mem[i] # NoTask => heap[mem[i]].uuid = o
  /\ \A t \in Task : Serving(t, i) =>
       /\ ref[t] # NoTask => heap[ref[t]].uuid = o
       /\ pc[t] = "publish" => row[t].uuid = o
       /\ pc[t] = "ensure" => mem[i] # NoTask
       /\ pc[t] \in {"rate", "apply", "store", "seal"} => req[t].uuid = o

LEMMA SettledIsKnown ==
  ASSUME NEW i \in Id
  PROVE  Settled(i) <=> db[i] # NoRow /\ KnownAs(i, db[i].uuid)
BY DEF Settled, KnownAs

LEMMA StartKnown ==
  ASSUME IInv, NEW i \in Id, NEW o \in Uuid, db[i] # NoRow, db[i].uuid = o,
         KnownAs(i, o), NEW t \in Task, NEW r \in Requests, Start(t, r)
  PROVE  KnownAs(i, o)'
BY RequestType
DEF Start, Goto, IInv, TypeOK, PcInv, RefInv, KnownAs, Serving, Registers, Busy, Idle,
    Early, locals

LEMMA FindKnown ==
  ASSUME IInv, NEW i \in Id, NEW o \in Uuid, db[i] # NoRow, db[i].uuid = o,
         KnownAs(i, o), NEW t \in Task, Find(t)
  PROVE  KnownAs(i, o)'
BY RequestType
DEF Find, Obtain, Goto, Answer, IInv, TypeOK, PcInv, RefInv, KnownAs, Serving,
    Registers, Busy, Idle, Early, locals

LEMMA LoadKnown ==
  ASSUME IInv, NEW i \in Id, NEW o \in Uuid, db[i] # NoRow, db[i].uuid = o,
         KnownAs(i, o), NEW t \in Task, Load(t)
  PROVE  KnownAs(i, o)'
BY RequestType
DEF Load, Absent, Goto, Answer, IInv, TypeOK, PcInv, RefInv, KnownAs, Serving,
    Registers, Busy, Idle, Early, locals

LEMMA PublishKnown ==
  ASSUME IInv, NEW i \in Id, NEW o \in Uuid, db[i] # NoRow, db[i].uuid = o,
         KnownAs(i, o), NEW t \in Task, Publish(t)
  PROVE  KnownAs(i, o)'
<1>1. \A s \in Task : heap'[s].uuid = IF s = t THEN row[t].uuid ELSE heap[s].uuid
  BY DEF Publish, FromRow, IInv, TypeOK
<1> QED
  BY <1>1, RequestType
  DEF Publish, Obtain, Goto, Answer, IInv, TypeOK, PcInv, RefInv, KnownAs, Serving,
      Registers, Busy, Idle, Early, locals

LEMMA EnsureKnown ==
  ASSUME IInv, NEW i \in Id, NEW o \in Uuid, db[i] # NoRow, db[i].uuid = o,
         KnownAs(i, o), NEW t \in Task, Ensure(t)
  PROVE  KnownAs(i, o)'
<1>1. \A s \in Task \ {t} : heap'[s].uuid = heap[s].uuid
  BY DEF Ensure, IInv, TypeOK
<1> QED
  BY <1>1, RequestType
  DEF Ensure, Obtain, Goto, Answer, IInv, TypeOK, PcInv, RefInv, KnownAs, Serving,
      Registers, Busy, Idle, Early, locals

LEMMA CheckKnown ==
  ASSUME IInv, NEW i \in Id, NEW o \in Uuid, db[i] # NoRow, db[i].uuid = o,
         KnownAs(i, o), NEW t \in Task, Check(t)
  PROVE  KnownAs(i, o)'
BY RequestType
DEF Check, Goto, Answer, Mismatch, IInv, TypeOK, PcInv, RefInv, KnownAs, Serving,
    Registers, Busy, Idle, Early, locals

LEMMA RateKnown ==
  ASSUME IInv, NEW i \in Id, NEW o \in Uuid, db[i] # NoRow, db[i].uuid = o,
         KnownAs(i, o), NEW t \in Task, Rate(t)
  PROVE  KnownAs(i, o)'
BY RequestType
DEF Rate, Goto, Answer, IInv, TypeOK, PcInv, RefInv, KnownAs, Serving, Registers,
    Busy, Idle, Early, locals

LEMMA ApplyKnown ==
  ASSUME IInv, NEW i \in Id, NEW o \in Uuid, db[i] # NoRow, db[i].uuid = o,
         KnownAs(i, o), NEW t \in Task, Apply(t)
  PROVE  KnownAs(i, o)'
<1>1. \A s \in Task : heap'[s].uuid = IF s = ref[t] THEN req[t].uuid ELSE heap[s].uuid
  <2>1. heap[ref[t]] \in Records /\ ref[t] \in Task
    BY DEF Apply, IInv, TypeOK, PcInv
  <2> QED
    BY <2>1 DEF Apply, IInv, TypeOK, Records
<1> QED
  BY <1>1, RequestType
  DEF Apply, Goto, IInv, TypeOK, PcInv, RefInv, KnownAs, Serving, Registers, Busy,
      Idle, Early, locals

LEMMA InsertKnown ==
  ASSUME IInv, NEW i \in Id, NEW o \in Uuid, db[i] # NoRow, db[i].uuid = o,
         KnownAs(i, o), NEW t \in Task, Insert(t)
  PROVE  KnownAs(i, o)'
BY RequestType
DEF Insert, Goto, Answer, IInv, TypeOK, PcInv, RefInv, KnownAs, Serving, Registers,
    Busy, Idle, Early, locals

LEMMA UpdateKnown ==
  ASSUME IInv, NEW i \in Id, NEW o \in Uuid, db[i] # NoRow, db[i].uuid = o,
         KnownAs(i, o), NEW t \in Task, Update(t)
  PROVE  KnownAs(i, o)'
BY RequestType
DEF Update, Answer, IInv, TypeOK, PcInv, RefInv, KnownAs, Serving, Registers, Busy,
    Idle, Early, locals

LEMMA StoreFailsKnown ==
  ASSUME IInv, NEW i \in Id, NEW o \in Uuid, db[i] # NoRow, db[i].uuid = o,
         KnownAs(i, o), NEW t \in Task, StoreFails(t)
  PROVE  KnownAs(i, o)'
BY RequestType
DEF StoreFails, Answer, IInv, TypeOK, PcInv, RefInv, KnownAs, Serving, Registers,
    Busy, Idle, Early, locals

LEMMA SealKnown ==
  ASSUME IInv, NEW i \in Id, NEW o \in Uuid, db[i] # NoRow, db[i].uuid = o,
         KnownAs(i, o), NEW t \in Task, Seal(t)
  PROVE  KnownAs(i, o)'
<1>1. \A s \in Task : heap'[s].uuid = heap[s].uuid
  <2>1. heap[ref[t]] \in Records /\ ref[t] \in Task
    BY DEF Seal, IInv, TypeOK, PcInv
  <2> QED
    BY <2>1 DEF Seal, IInv, TypeOK, Records
<1> QED
  BY <1>1, RequestType
  DEF Seal, Answer, IInv, TypeOK, PcInv, RefInv, KnownAs, Serving, Registers, Busy,
      Idle, Early, locals

LEMMA FindBeatKnown ==
  ASSUME IInv, NEW i \in Id, NEW o \in Uuid, db[i] # NoRow, db[i].uuid = o,
         KnownAs(i, o), NEW t \in Task, FindBeat(t)
  PROVE  KnownAs(i, o)'
BY RequestType
DEF FindBeat, Answer, IInv, TypeOK, PcInv, RefInv, KnownAs, Serving, Registers, Busy,
    Idle, Early, locals

LEMMA BeatKnown ==
  ASSUME IInv, NEW i \in Id, NEW o \in Uuid, db[i] # NoRow, db[i].uuid = o,
         KnownAs(i, o), NEW t \in Task, Beat(t)
  PROVE  KnownAs(i, o)'
<1>1. \A s \in Task : heap'[s].uuid = heap[s].uuid
  <2>1. heap[ref[t]] \in Records /\ ref[t] \in Task
    BY DEF Beat, IInv, TypeOK
  <2>2. [heap[ref[t]] EXCEPT !.addr = req[t].ip, !.port = HasPort(req[t]),
                             !.fresh = TRUE].uuid = heap[ref[t]].uuid
    BY <2>1 DEF Records
  <2> QED
    BY <2>1, <2>2 DEF Beat, IInv, TypeOK
<1> QED
  BY <1>1, RequestType
  DEF Beat, Answer, IInv, TypeOK, PcInv, RefInv, KnownAs, Serving, Registers, Busy,
      Idle, Early, locals

LEMMA FadeKnown ==
  ASSUME IInv, NEW i \in Id, NEW o \in Uuid, db[i] # NoRow, db[i].uuid = o,
         KnownAs(i, o), NEW t \in Task, Fade(t)
  PROVE  KnownAs(i, o)'
<1>1. \A s \in Task : heap'[s].uuid = heap[s].uuid
  BY DEF Fade, IInv, TypeOK, Records
<1> QED
  BY <1>1, RequestType
  DEF Fade, IInv, TypeOK, PcInv, RefInv, KnownAs, Serving, Registers, Busy, Idle,
      Early, locals

LEMMA LoadFailsKnown ==
  ASSUME IInv, NEW i \in Id, NEW o \in Uuid, db[i] # NoRow, db[i].uuid = o,
         KnownAs(i, o), NEW t \in Task, LoadFails(t), ~ Serving(t, i)
  PROVE  KnownAs(i, o)'
BY RequestType
DEF LoadFails, Absent, Goto, Answer, IInv, TypeOK, PcInv, RefInv, KnownAs, Serving,
    Registers, Busy, Idle, Early, locals

LEMMA CrashKnown ==
  ASSUME IInv, NEW i \in Id, NEW o \in Uuid, db[i] # NoRow, db[i].uuid = o,
         KnownAs(i, o), Crash
  PROVE  KnownAs(i, o)'
BY RequestType
DEF Crash, IInv, TypeOK, PcInv, RefInv, KnownAs, Serving, Registers, Busy, Idle,
    Early, locals

\* Every step keeps a settled id settled, except a failure to read its row.
LEMMA SettledStep ==
  ASSUME IInv, [Next]_vars, NEW i \in Id, Settled(i),
         \A t \in Task : ~ (Serving(t, i) /\ LoadFails(t))
  PROVE  Settled(i)'
<1>1. PICK o \in Uuid : db[i].uuid = o
  BY DEF IInv, TypeOK, Settled, Rows
<1>2. db[i] # NoRow /\ KnownAs(i, o)
  BY <1>1, SettledIsKnown
<1>3. ASSUME NEW t \in Task, NEW r \in Requests, Start(t, r) PROVE KnownAs(i, o)'
  BY <1>1, <1>2, <1>3, StartKnown
<1>4. ASSUME NEW t \in Task, Step(t) PROVE KnownAs(i, o)'
  <2>1. CASE Find(t)
    BY <1>1, <1>2, <2>1, FindKnown
  <2>2. CASE Load(t)
    BY <1>1, <1>2, <2>2, LoadKnown
  <2>3. CASE Publish(t)
    BY <1>1, <1>2, <2>3, PublishKnown
  <2>4. CASE Ensure(t)
    BY <1>1, <1>2, <2>4, EnsureKnown
  <2>5. CASE Check(t)
    BY <1>1, <1>2, <2>5, CheckKnown
  <2>6. CASE Rate(t)
    BY <1>1, <1>2, <2>6, RateKnown
  <2>7. CASE Apply(t)
    BY <1>1, <1>2, <2>7, ApplyKnown
  <2>8. CASE Insert(t)
    BY <1>1, <1>2, <2>8, InsertKnown
  <2>9. CASE Update(t)
    BY <1>1, <1>2, <2>9, UpdateKnown
  <2>10. CASE StoreFails(t)
    BY <1>1, <1>2, <2>10, StoreFailsKnown
  <2>11. CASE Seal(t)
    BY <1>1, <1>2, <2>11, SealKnown
  <2>12. CASE FindBeat(t)
    BY <1>1, <1>2, <2>12, FindBeatKnown
  <2>13. CASE Beat(t)
    BY <1>1, <1>2, <2>13, BeatKnown
  <2>14. CASE LoadFails(t)
    BY <1>1, <1>2, <2>14, LoadFailsKnown
  <2> QED
    BY <1>4, <2>1, <2>2, <2>3, <2>4, <2>5, <2>6, <2>7, <2>8, <2>9, <2>10, <2>11,
       <2>12, <2>13, <2>14
    DEF Step
<1>5. ASSUME NEW t \in Task, Fade(t) PROVE KnownAs(i, o)'
  BY <1>1, <1>2, <1>5, FadeKnown
<1>6. ASSUME Crash PROVE KnownAs(i, o)'
  BY <1>1, <1>2, <1>6, CrashKnown
<1>7. ASSUME UNCHANGED vars PROVE KnownAs(i, o)'
  BY <1>2, <1>7 DEF vars, locals, KnownAs, Serving
<1>8. KnownAs(i, o)'
  BY <1>3, <1>4, <1>5, <1>6, <1>7 DEF Next
<1>9. db'[i] # NoRow /\ db'[i].uuid = o
  BY <1>1, <1>2, OwnerStep
<1> QED
  BY <1>8, <1>9 DEF Settled, KnownAs, Serving

\* Once table, memory and tasks agree on the owner of an id, only a failure of
\* the database to read the row can make one of them take another machine for it.
THEOREM OwnershipStays == Spec => OwnershipIsStable
<1>1. IInv /\ [Next]_vars =>
        [\A i \in Id : Settled(i) =>
           \/ Settled(i)'
           \/ \E t \in Task : Serving(t, i) /\ LoadFails(t)]_vars
  BY SettledStep
<1> QED
  BY <1>1, Inductive, PTL DEF Spec, OwnershipIsStable

-----------------------------------------------------------------------------
(***************************************************************************)
(* Where every registration comes by UDP, the main loop serves them one    *)
(* after the other; lookups of other tasks run beside them and may publish *)
(* what they read before a registration was stored.                        *)
(***************************************************************************)
\* Id i has a row with guid g that belongs to machine m.
Knows(i, g, m) == db[i] # NoRow /\ db[i].guid = g /\ db[i].uuid = m

\* A task keeps its request, and the main loop serves one at a time.
SerialInv ==
  /\ \A t \in Task : IF pc[t] = "idle" THEN req[t] = NoReq /\ reply[t] = "none"
                                       ELSE req[t] \in Requests
  /\ \A s, t \in Task :
       Inline(req[s]) /\ Inline(req[t]) /\ pc[s] \in Busy /\ pc[t] \in Busy => s = t

\* A record with a guid names the row's machine; so does a row that was read.
RecordInv ==
  /\ \A u \in Task : heap[u].guid # NoTask =>
       pc[u] \notin Early /\ Knows(req[u].id, heap[u].guid, heap[u].uuid)
  /\ \A t \in Task : pc[t] = "publish" => Knows(req[t].id, row[t].guid, row[t].uuid)

\* A registration past its check goes on with a record of its own machine.
WriteInv ==
  \A t \in Task :
    /\ pc[t] \in {"rate", "apply"} => heap[ref[t]].uuid \in {NoUuid, req[t].uuid}
    /\ pc[t] \in {"store", "seal"} => heap[ref[t]].uuid = req[t].uuid
    /\ pc[t] = "store" => heap[ref[t]].guid = guid[t]
    /\ pc[t] = "seal" => Knows(req[t].id, t, req[t].uuid)

RInv == IInv /\ SerialInv /\ RecordInv /\ WriteInv /\ RowIsOneRequest

LEMMA SerialStep ==
  ASSUME IInv, SerialInv, [Next]_vars
  PROVE  SerialInv'
<1> USE DEF SerialInv
<1>1. ASSUME NEW t \in Task, NEW r \in Requests, Start(t, r) PROVE SerialInv'
  <2>1. /\ req' = [req EXCEPT ![t] = r]
        /\ pc' = [pc EXCEPT ![t] = IF r.kind = "heartbeat" THEN "beat" ELSE "find"]
        /\ reply' = reply /\ pc[t] = "idle"
        /\ Inline(r) => \A s \in Task : Inline(req[s]) => pc[s] \in Idle
    BY <1>1 DEF Start, Goto
  <2> QED
    BY <2>1 DEF IInv, TypeOK, Busy, Idle
<1>2. ASSUME NEW t \in Task, Step(t) PROVE SerialInv'
  <2>1. req' = req
    BY <1>2
    DEF Step, Find, Load, LoadFails, Publish, Ensure, Check, Rate, Apply, Insert, Update,
        StoreFails, Seal, FindBeat, Beat
  <2>2. pc[t] \in Busy
    BY <1>2
    DEF Step, Find, Load, LoadFails, Publish, Ensure, Check, Rate, Apply, Insert, Update,
        StoreFails, Seal, FindBeat, Beat, Busy
  <2>3. \/ UNCHANGED <<pc, reply>>
        \/ \E l \in Busy : Goto(t, l)
        \/ \E a : Answer(t, a)
    BY <1>2
    DEF Step, Find, Load, LoadFails, Publish, Ensure, Check, Rate, Apply, Insert, Update,
        StoreFails, Seal, FindBeat, Beat, Obtain, Absent, Busy
  <2>4. CASE UNCHANGED <<pc, reply>>
    BY <2>1, <2>4
  <2>5. ASSUME NEW l \in Busy, Goto(t, l) PROVE SerialInv'
    BY <2>1, <2>2, <2>5 DEF Goto, IInv, TypeOK, Busy
  <2>6. ASSUME NEW a, Answer(t, a) PROVE SerialInv'
    BY <2>1, <2>2, <2>6 DEF Answer, IInv, TypeOK, Busy
  <2> QED
    BY <2>3, <2>4, <2>5, <2>6
<1>3. ASSUME NEW t \in Task, Fade(t) PROVE SerialInv'
  BY <1>3 DEF Fade
<1>4. CASE Crash
  BY <1>4 DEF Crash, Busy, IInv, TypeOK
<1>5. CASE UNCHANGED vars
  BY <1>5 DEF vars
<1> QED
  BY <1>1, <1>2, <1>3, <1>4, <1>5 DEF Next

LEMMA OneAtATime ==
  ASSUME Via \subseteq {"udp"}, IInv, SerialInv, NEW s \in Task, NEW t \in Task,
         pc[s] \in Busy, pc[t] \in Busy, Registers(s), Registers(t)
  PROVE  s = t
<1>1. req[s] \in Requests /\ req[t] \in Requests
  BY DEF IInv, PcInv
<1>2. Inline(req[s]) /\ Inline(req[t])
  BY <1>1 DEF Requests, Registers, Inline
<1> QED
  BY <1>2 DEF SerialInv

\* What is known of a row stays true, as rows keep their owners.
LEMMA KnowsStep ==
  ASSUME IInv, [Next]_vars, NEW i \in Id, NEW g, NEW m, Knows(i, g, m)
  PROVE  Knows(i, g, m)'
BY OwnerStep DEF Knows

LEMMA KnownMachine ==
  ASSUME IInv, NEW i \in Id, NEW g, NEW m, Knows(i, g, m)
  PROVE  m \in Uuid /\ g \in Task
BY DEF Knows, IInv, TypeOK, Rows

\* What a step that keeps the requests has to show of the records and rows.
LEMMA RecordFrame ==
  ASSUME IInv, SerialInv, [Next]_vars, req' = req,
         \A u \in Task : heap'[u].guid # NoTask =>
           pc'[u] \notin Early /\ Knows(req[u].id, heap'[u].guid, heap'[u].uuid),
         \A t \in Task : pc'[t] = "publish" =>
           pc[t] # "idle" /\ Knows(req[t].id, row'[t].guid, row'[t].uuid)
  PROVE  RecordInv'
<1>1. ASSUME NEW u \in Task, heap'[u].guid # NoTask
      PROVE  /\ pc'[u] \notin Early
             /\ db'[req[u].id] # NoRow
             /\ db'[req[u].id].guid = heap'[u].guid /\ db'[req[u].id].uuid = heap'[u].uuid
  <2>1. req[u].id \in Id
    <3>1. SerialInv'
      BY SerialStep
    <3>2. req'[u] \in Requests
      BY <1>1, <3>1 DEF SerialInv, Early
    <3> QED
      BY <3>2, RequestType
  <2>2. PICK i, g, m : i \in Id /\ i = req[u].id /\ g = heap'[u].guid /\ m = heap'[u].uuid
    BY <2>1
  <2>3. Knows(i, g, m)'
    BY <1>1, <2>2, KnowsStep
  <2> QED
    BY <1>1, <2>2, <2>3 DEF Knows
<1>2. ASSUME NEW t \in Task, pc'[t] = "publish"
      PROVE  /\ db'[req[t].id] # NoRow
             /\ db'[req[t].id].guid = row'[t].guid /\ db'[req[t].id].uuid = row'[t].uuid
  <2>1. req[t].id \in Id
    BY <1>2, RequestType DEF SerialInv
  <2>2. PICK i, g, m : i \in Id /\ i = req[t].id /\ g = row'[t].guid /\ m = row'[t].uuid
    BY <2>1
  <2>3. Knows(i, g, m)'
    BY <1>2, <2>2, KnowsStep
  <2> QED
    BY <2>2, <2>3 DEF Knows
<1> QED
  BY <1>1, <1>2 DEF RecordInv, Knows

\* Every step keeps the records and the rows that were read true to the table.
LEMMA RecordStep ==
  ASSUME RInv, [Next]_vars
  PROVE  RecordInv'
<1> USE DEF RInv
<1> DEFINE Rec(u) == heap'[u].guid # NoTask =>
                       pc'[u] \notin Early /\ Knows(req[u].id, heap'[u].guid, heap'[u].uuid)
           Row(t) == pc'[t] = "publish" =>
                       pc[t] # "idle" /\ Knows(req[t].id, row'[t].guid, row'[t].uuid)
<1>1. ASSUME NEW t \in Task, NEW r \in Requests, Start(t, r) PROVE RecordInv'
  BY <1>1 DEF Start, Goto, locals, RecordInv, Knows, IInv, TypeOK, Early
<1>2. ASSUME NEW t \in Task, Step(t)
      PROVE  /\ \A u \in Task : pc[u] \notin Early => pc'[u] \notin Early
             /\ req' = req /\ pc[t] # "idle"
             /\ \A s \in Task \ {t} : pc'[s] = pc[s]
  BY <1>2
  DEF Step, Find, Load, LoadFails, Publish, Ensure, Check, Rate, Apply, Insert, Update,
      StoreFails, Seal, FindBeat, Beat, Obtain, Absent, Goto, Answer, IInv, TypeOK, Early
<1>3. ASSUME heap' = heap, \A u \in Task : pc[u] \notin Early => pc'[u] \notin Early
      PROVE  \A u \in Task : Rec(u)
  BY <1>3 DEF RecordInv
<1>4. ASSUME row' = row, \A t \in Task : pc'[t] = "publish" => pc[t] = "publish"
      PROVE  \A t \in Task : Row(t)
  BY <1>4 DEF RecordInv
<1> DEFINE Framed == (\A u \in Task : Rec(u)) /\ (\A s \in Task : Row(s))
<1> HIDE DEF Rec, Row
<1>5. ASSUME NEW t \in Task, Load(t) PROVE Framed
  <2>1. Row(t)
    <3>1. req[t].id \in Id
      BY <1>5, RequestType DEF Load, IInv, PcInv, Busy
    <3> QED
      BY <1>5, <3>1 DEF Row, Load, Absent, Goto, Answer, Knows, IInv, TypeOK
  <2>2. \A s \in Task \ {t} : Row(s)
    BY <1>5 DEF Row, Load, Absent, Goto, Answer, RecordInv, IInv, TypeOK
  <2>3. Step(t)
    BY <1>5 DEF Step
  <2> QED
    BY <1>2, <1>3, <1>5, <2>1, <2>2, <2>3 DEF Load
<1>6. ASSUME NEW t \in Task, Publish(t) PROVE Framed
  <2>1. \A s \in Task : pc'[s] = "publish" => pc[s] = "publish"
    BY <1>6 DEF Publish, Obtain, Goto, Answer, IInv, TypeOK
  <2>2. Rec(t)
    BY <1>6 DEF Rec, Publish, FromRow, Obtain, Goto, Answer, RecordInv, IInv, TypeOK, Early
  <2>3. \A u \in Task \ {t} : Rec(u)
    BY <1>6 DEF Rec, Publish, Obtain, Goto, Answer, RecordInv, IInv, TypeOK
  <2> QED
    BY <1>4, <1>6, <2>1, <2>2, <2>3 DEF Publish
<1>7. ASSUME NEW t \in Task, Ensure(t) PROVE Framed
  <2>1. \A s \in Task : pc'[s] = "publish" => pc[s] = "publish"
    BY <1>7 DEF Ensure, Obtain, Goto, Answer, IInv, TypeOK
  <2>2. Rec(t)
    BY <1>7
    DEF Rec, Ensure, EmptyPeer, Obtain, Goto, Answer, RecordInv, IInv, TypeOK, Early
  <2>3. \A u \in Task \ {t} : Rec(u)
    BY <1>7 DEF Rec, Ensure, Obtain, Goto, Answer, RecordInv, IInv, TypeOK
  <2> QED
    BY <1>4, <1>7, <2>1, <2>2, <2>3 DEF Ensure
<1>8. ASSUME NEW t \in Task, Apply(t) PROVE Framed
  <2>1. /\ ref[t] \in Task /\ heap[ref[t]] \in Records /\ req[ref[t]].id = req[t].id
        /\ req[t].id \in Id /\ req[t].uuid \in Uuid
    BY <1>8, RegisterType DEF Apply, IInv, TypeOK, PcInv, RefInv, Registers, Busy
  <2>2. heap'[ref[t]].guid = heap[ref[t]].guid /\ heap'[ref[t]].uuid = req[t].uuid
    BY <1>8, <2>1 DEF Apply, IInv, TypeOK, Records
  <2>3. heap[ref[t]].guid # NoTask => heap[ref[t]].uuid = req[t].uuid
    <3>1. ASSUME heap[ref[t]].guid # NoTask PROVE heap[ref[t]].uuid \in Uuid
      BY <2>1, <3>1, KnownMachine DEF RecordInv
    <3> QED
      BY <1>8, <3>1 DEF WriteInv, Apply
  <2>4. \A s \in Task : pc'[s] = "publish" => pc[s] = "publish"
    BY <1>8 DEF Apply, Goto, IInv, TypeOK
  <2>5. Rec(ref[t])
    BY <1>2, <1>8, <2>1, <2>2, <2>3 DEF Rec, RecordInv, Step
  <2>6. \A u \in Task \ {ref[t]} : Rec(u)
    BY <1>2, <1>8 DEF Rec, Apply, RecordInv, IInv, TypeOK, Step
  <2> QED
    BY <1>4, <1>8, <2>4, <2>5, <2>6 DEF Apply
<1>9. ASSUME NEW t \in Task, Seal(t) PROVE Framed
  <2>1. /\ ref[t] \in Task /\ heap[ref[t]] \in Records /\ req[ref[t]].id = req[t].id
        /\ pc[ref[t]] \notin Early
    BY <1>9 DEF Seal, IInv, TypeOK, PcInv, RefInv, Busy
  <2>2. heap'[ref[t]].guid = t /\ heap'[ref[t]].uuid = req[t].uuid
    BY <1>9, <2>1 DEF Seal, WriteInv, IInv, TypeOK, Records
  <2>3. \A s \in Task : pc'[s] = "publish" => pc[s] = "publish"
    BY <1>9 DEF Seal, Answer, IInv, TypeOK
  <2>4. Rec(ref[t])
    BY <1>2, <1>9, <2>1, <2>2 DEF Rec, Seal, WriteInv, Step
  <2>5. \A u \in Task \ {ref[t]} : Rec(u)
    BY <1>2, <1>9 DEF Rec, Seal, RecordInv, IInv, TypeOK, Step
  <2> QED
    BY <1>4, <1>9, <2>3, <2>4, <2>5 DEF Seal, locals
<1>10. ASSUME NEW t \in Task, Beat(t) PROVE Framed
  <2>1. \A s \in Task : heap'[s].uuid = heap[s].uuid /\ heap'[s].guid = heap[s].guid
    <3>1. heap[ref[t]] \in Records /\ ref[t] \in Task
      BY <1>10 DEF Beat, IInv, TypeOK
    <3>2. PICK q : q = [heap[ref[t]] EXCEPT !.addr = req[t].ip, !.port = HasPort(req[t]),
                                            !.fresh = TRUE]
      OBVIOUS
    <3>3. q.uuid = heap[ref[t]].uuid /\ q.guid = heap[ref[t]].guid
      BY <3>1, <3>2 DEF Records
    <3> QED
      BY <1>10, <3>1, <3>2, <3>3 DEF Beat, IInv, TypeOK
  <2>2. \A s \in Task : pc'[s] = "publish" => pc[s] = "publish"
    BY <1>10 DEF Beat, Answer, IInv, TypeOK
  <2>3. \A u \in Task : Rec(u)
    BY <1>2, <1>10, <2>1 DEF Rec, RecordInv, Step
  <2> QED
    BY <1>4, <1>10, <2>2, <2>3 DEF Beat, locals
<1>11. ASSUME NEW t \in Task, Fade(t) PROVE RecordInv'
  <2>1. \A s \in Task : heap'[s].uuid = heap[s].uuid /\ heap'[s].guid = heap[s].guid
    BY <1>11 DEF Fade, IInv, TypeOK, Records
  <2> QED
    BY <1>11, <2>1 DEF Fade, RecordInv, Knows, locals
<1>12. CASE Crash
  BY <1>12 DEF Crash, EmptyPeer, RecordInv, Busy
<1>13. ASSUME NEW t \in Task,
              \/ Find(t) \/ LoadFails(t) \/ Check(t) \/ Rate(t) \/ Insert(t) \/ Update(t)
              \/ StoreFails(t) \/ FindBeat(t)
       PROVE  Framed
  <2>1. heap' = heap /\ row' = row
    BY <1>13 DEF Find, LoadFails, Check, Rate, Insert, Update, StoreFails, FindBeat, locals
  <2>2. \A s \in Task : pc'[s] = "publish" => pc[s] = "publish"
    BY <1>13
    DEF Find, LoadFails, Check, Rate, Insert, Update, StoreFails, FindBeat, Obtain, Absent,
        Goto, Answer, IInv, TypeOK
  <2>3. Step(t)
    BY <1>13 DEF Step
  <2> QED
    BY <1>2, <1>3, <1>4, <2>1, <2>2, <2>3
<1>14. ASSUME NEW t \in Task, Step(t) PROVE RecordInv'
  <2>1. Framed
    BY <1>5, <1>6, <1>7, <1>8, <1>9, <1>10, <1>13, <1>14 DEF Step
  <2> QED
    BY <1>2, <1>14, <2>1, RecordFrame DEF Rec, Row
<1>15. CASE UNCHANGED vars
  BY <1>15 DEF vars, locals, RecordInv, Knows
<1> QED
  BY <1>1, <1>11, <1>12, <1>14, <1>15 DEF Next

\* A registration meets its own machine's record from its check to its end.
LEMMA WriteStep ==
  ASSUME Via \subseteq {"udp"}, RInv, [Next]_vars
  PROVE  WriteInv'
<1> USE DEF RInv
\* Nobody else writes the record meanwhile, as registrations do not overlap.
<1>1. ASSUME NEW s \in Task, NEW t \in Task, pc[s] \in Busy, pc[t] \in Busy,
             Registers(s), Registers(t)
      PROVE  s = t
  BY <1>1, OneAtATime
<1>2. \A t \in Task : pc[t] = "seal" =>
        /\ req[t].id \in Id /\ Registers(t) /\ t \in Task /\ req[t].uuid \in Uuid
  BY RegisterType DEF IInv, PcInv, Registers, Busy
<1>3. ASSUME NEW t \in Task, pc[t] = "seal" PROVE Knows(req[t].id, t, req[t].uuid)'
  <2>1. PICK i, m : i \in Id /\ i = req[t].id /\ m = req[t].uuid
    BY <1>2, <1>3
  <2>2. Knows(i, t, m)'
    BY <1>3, <2>1, KnowsStep DEF WriteInv
  <2>3. req'[t] = req[t]
    BY <1>3
    DEF Next, Step, Start, Find, Load, LoadFails, Publish, Ensure, Check, Rate, Apply,
        Insert, Update, StoreFails, Seal, FindBeat, Beat, Fade, Crash, vars, IInv, TypeOK
  <2> QED
    BY <2>1, <2>2, <2>3 DEF Knows
<1> DEFINE Wrote(s) ==
      /\ pc'[s] \in {"rate", "apply"} => heap'[ref'[s]].uuid \in {NoUuid, req'[s].uuid}
      /\ pc'[s] \in {"store", "seal"} => heap'[ref'[s]].uuid = req'[s].uuid
      /\ pc'[s] = "store" => heap'[ref'[s]].guid = guid'[s]
      /\ pc'[s] = "seal" => pc[s] = "seal" \/ Knows(req[s].id, s, req[s].uuid)'
<1> DEFINE Same(s) ==
      /\ pc'[s] = pc[s] /\ ref'[s] = ref[s] /\ req'[s] = req[s] /\ guid'[s] = guid[s]
      /\ pc[s] \in {"rate", "apply", "store", "seal"} =>
           /\ heap'[ref[s]].uuid = heap[ref[s]].uuid
           /\ heap'[ref[s]].guid = heap[ref[s]].guid
<1>4. \A s \in Task : Same(s) => Wrote(s)
  BY DEF WriteInv
<1>5. ASSUME \A s \in Task : Wrote(s) PROVE WriteInv'
  <2>1. \A s \in Task : pc'[s] = "seal" => Knows(req[s].id, s, req[s].uuid)'
    BY <1>3, <1>5
  <2> QED
    BY <1>5, <2>1 DEF WriteInv
<1> HIDE DEF Same, Wrote
<1> DEFINE Written == \A s \in Task : Wrote(s)
<1>6. ASSUME NEW t \in Task, Wrote(t), \A s \in Task \ {t} : Same(s) PROVE Written
  BY <1>4, <1>6
<1>7. ASSUME NEW t \in Task, NEW r \in Requests, Start(t, r) PROVE Written
  BY <1>6, <1>7 DEF Start, Goto, locals, Same, Wrote, IInv, TypeOK
<1>8. ASSUME NEW t \in Task, Find(t) \/ Load(t) \/ LoadFails(t) \/ FindBeat(t)
      PROVE  Written
  BY <1>6, <1>8
  DEF Find, Load, LoadFails, FindBeat, Obtain, Absent, Goto, Answer, locals, Same, Wrote,
      IInv, TypeOK
<1>9. ASSUME NEW t \in Task, Publish(t) \/ Ensure(t) PROVE Written
  <2>1. \A u \in Task \ {t} : heap'[u] = heap[u]
    BY <1>9 DEF Publish, Ensure, IInv, TypeOK
  <2>2. \A s \in Task : pc[s] \in {"rate", "apply", "store", "seal"} => ref[s] \in Task \ {t}
    BY <1>9 DEF Publish, Ensure, IInv, TypeOK, PcInv, RefInv, Busy, Early
  <2>3. Wrote(t)
    BY <1>9 DEF Publish, Ensure, Obtain, Goto, Answer, Wrote, IInv, TypeOK
  <2>4. \A s \in Task \ {t} : Same(s)
    BY <1>9, <2>1, <2>2
    DEF Publish, Ensure, Obtain, Goto, Answer, Same, IInv, TypeOK
  <2> QED
    BY <1>6, <2>3, <2>4
<1>10. ASSUME NEW t \in Task, Check(t) PROVE Written
  <2>1. Wrote(t)
    BY <1>10 DEF Check, Mismatch, Goto, Answer, Wrote, IInv, TypeOK
  <2> QED
    BY <1>6, <1>10, <2>1 DEF Check, Goto, Answer, Same, IInv, TypeOK
<1>11. ASSUME NEW t \in Task, Rate(t) PROVE Written
  <2>1. Wrote(t)
    BY <1>11 DEF Rate, Goto, Answer, Wrote, WriteInv, locals, IInv, TypeOK
  <2> QED
    BY <1>6, <1>11, <2>1 DEF Rate, Goto, Answer, Same, locals, IInv, TypeOK
\* The writers of a record: every other registration is elsewhere.
<1>12. ASSUME NEW t \in Task, pc[t] \in {"apply", "seal"}
       PROVE  \A s \in Task \ {t} : pc[s] \notin {"rate", "apply", "store", "seal"}
  BY <1>1, <1>12 DEF IInv, PcInv, Busy
<1>13. ASSUME NEW t \in Task, Apply(t) PROVE Written
  <2>1. heap'[ref[t]].guid = heap[ref[t]].guid /\ heap'[ref[t]].uuid = req[t].uuid
    <3>1. heap[ref[t]] \in Records /\ ref[t] \in Task
      BY <1>13 DEF Apply, IInv, TypeOK, PcInv
    <3> QED
      BY <1>13, <3>1 DEF Apply, IInv, TypeOK, Records
  <2>2. Wrote(t)
    BY <1>13, <2>1 DEF Apply, Goto, Wrote, IInv, TypeOK
  <2> QED
    BY <1>6, <1>12, <1>13, <2>2 DEF Apply, Goto, Same, IInv, TypeOK
<1>14. ASSUME NEW t \in Task, Insert(t) PROVE Written
  <2>1. req[t].id \in Id
    BY <1>14, RequestType DEF Insert, IInv, PcInv, Busy
  <2>2. Wrote(t)
    <3>1. CASE db[req[t].id] = NoRow
      <4>1. PICK n \in Rows : /\ db' = [db EXCEPT ![req[t].id] = n]
                              /\ n.guid = t /\ n.uuid = req[t].uuid
        <5>1. [guid |-> t, uuid |-> req[t].uuid, pk |-> req[t].pk, ip |-> req[t].ip] \in Rows
          BY <1>14, RegisterType DEF Rows, Insert, IInv, PcInv, Registers, Busy
        <5> QED
          BY <1>14, <3>1, <5>1 DEF Insert
      <4>2. req' = req /\ Knows(req[t].id, t, req[t].uuid)'
        BY <1>14, <2>1, <4>1, RowAssumption DEF Insert, Knows, Rows, IInv, TypeOK
      <4> QED
        BY <1>14, <4>2 DEF Insert, Goto, Answer, Wrote, WriteInv, locals, IInv, TypeOK
    <3>2. CASE db[req[t].id] # NoRow
      BY <1>14, <3>2 DEF Insert, Answer, Wrote, IInv, TypeOK
    <3> QED
      BY <3>1, <3>2
  <2> QED
    BY <1>6, <1>14, <2>2 DEF Insert, Goto, Answer, Same, locals, IInv, TypeOK
<1>15. ASSUME NEW t \in Task, Update(t) \/ StoreFails(t) PROVE Written
  BY <1>6, <1>15 DEF Update, StoreFails, Answer, Same, Wrote, locals, IInv, TypeOK
<1>16. ASSUME NEW t \in Task, Seal(t) PROVE Written
  BY <1>6, <1>12, <1>16 DEF Seal, Answer, Same, Wrote, locals, IInv, TypeOK
<1>17. ASSUME NEW t \in Task, Beat(t) PROVE Written
  <2>1. \A s \in Task : heap'[s].uuid = heap[s].uuid /\ heap'[s].guid = heap[s].guid
    <3>1. heap[ref[t]] \in Records /\ ref[t] \in Task
      BY <1>17 DEF Beat, IInv, TypeOK
    <3>2. PICK q : q = [heap[ref[t]] EXCEPT !.addr = req[t].ip, !.port = HasPort(req[t]),
                                            !.fresh = TRUE]
      OBVIOUS
    <3>3. q.uuid = heap[ref[t]].uuid /\ q.guid = heap[ref[t]].guid
      BY <3>1, <3>2 DEF Records
    <3> QED
      BY <1>17, <3>1, <3>2, <3>3 DEF Beat, IInv, TypeOK
  <2>2. \A s \in Task \ {t} : Same(s)
    BY <1>17, <2>1 DEF Beat, Answer, Same, locals, IInv, TypeOK, PcInv
  <2> QED
    BY <1>6, <1>17, <2>2 DEF Beat, Answer, Wrote, IInv, TypeOK
<1>18. ASSUME NEW t \in Task, Fade(t) PROVE Written
  <2>1. \A s \in Task : heap'[s].uuid = heap[s].uuid /\ heap'[s].guid = heap[s].guid
    BY <1>18 DEF Fade, IInv, TypeOK, Records
  <2> QED
    BY <1>4, <1>18, <2>1 DEF Fade, Same, locals, IInv, TypeOK, PcInv
<1>19. ASSUME Crash PROVE Written
  BY <1>19 DEF Crash, Wrote, Busy, IInv, TypeOK
<1>20. ASSUME UNCHANGED vars PROVE Written
  BY <1>4, <1>20 DEF vars, locals, Same
<1>21. Written
  BY <1>7, <1>8, <1>9, <1>10, <1>11, <1>13, <1>14, <1>15, <1>16, <1>17, <1>18, <1>19, <1>20
  DEF Next, Step
<1> QED
  BY <1>5, <1>21

\* A row stays what one request presented: an update is of the row's own machine,
\* with the guid of the row that it goes to.
LEMMA RowStep ==
  ASSUME RInv, [Next]_vars
  PROVE  RowIsOneRequest'
<1> USE DEF RInv
<1> DEFINE One(i, r) == \E t \in Task : /\ Registers(t) /\ req[t].id = i
                                        /\ req[t].uuid = r.uuid /\ req[t].pk = r.pk
                                        /\ req[t].ip = r.ip
<1>1. \A t \in Task : Registers(t) => req'[t] = req[t]
  <2>1. ASSUME NEW t \in Task, NEW r \in Requests, Start(t, r)
        PROVE  \A s \in Task : Registers(s) => req'[s] = req[s]
    BY <2>1 DEF Start, SerialInv, Registers, NoReq, IInv, TypeOK
  <2> QED
    BY <2>1
    DEF Next, Step, Find, Load, LoadFails, Publish, Ensure, Check, Rate, Apply, Insert,
        Update, StoreFails, Seal, FindBeat, Beat, Fade, Crash, vars
<1>2. ASSUME NEW t \in Task, Insert(t) \/ Update(t)
      PROVE  \A i \in Id : db'[i] # NoRow => One(i, db'[i])
  <2>1. req[t] \in Requests /\ Registers(t)
    BY <1>2 DEF Insert, Update, IInv, PcInv, Busy
  <2>2. req[t].id \in Id /\ req[t].uuid \in Uuid /\ req[t].pk \in Pk /\ req[t].ip \in Ip
    BY <2>1, RegisterType DEF Registers
  <2>3. ASSUME NEW i \in Id, db'[i] # NoRow, db'[i] # db[i] PROVE One(i, db'[i])
    <3>1. CASE Insert(t)
      <4>1. i = req[t].id /\ db'[i] = [guid |-> t, uuid |-> req[t].uuid, pk |-> req[t].pk,
                                       ip |-> req[t].ip]
        BY <2>2, <2>3, <3>1 DEF Insert, IInv, TypeOK
      <4> QED
        BY <2>1, <4>1
    <3>2. CASE Update(t)
      <4>1. /\ i = req[t].id /\ db[i] # NoRow /\ db[i].guid = guid[t] /\ guid[t] # NoTask
            /\ db'[i] = [db[i] EXCEPT !.pk = req[t].pk, !.ip = req[t].ip]
        BY <2>2, <2>3, <3>2 DEF Update, IInv, TypeOK
      <4>2. db[i] \in Rows
        BY <4>1 DEF IInv, TypeOK
      <4>3. db[i].uuid = req[t].uuid
        <5>1. /\ ref[t] \in Task /\ req[ref[t]].id = i
              /\ heap[ref[t]].guid # NoTask /\ heap[ref[t]].uuid = req[t].uuid
          BY <3>2, <4>1 DEF Update, WriteInv, IInv, PcInv, RefInv, Busy
        <5> QED
          BY <5>1 DEF RecordInv, Knows
      <4> QED
        BY <2>1, <4>1, <4>2, <4>3 DEF Rows
    <3> QED
      BY <1>2, <3>1, <3>2
  <2> QED
    BY <2>3 DEF RowIsOneRequest
<1>3. ASSUME db' = db PROVE \A i \in Id : db'[i] # NoRow => One(i, db'[i])
  BY <1>3 DEF RowIsOneRequest
<1>4. \A i \in Id : db'[i] # NoRow => One(i, db'[i])
  BY <1>2, <1>3
  DEF Next, Step, Start, Find, Load, LoadFails, Publish, Ensure, Check, Rate, Apply,
      StoreFails, Seal, FindBeat, Beat, Fade, Crash, vars
<1> QED
  BY <1>1, <1>4 DEF RowIsOneRequest, Registers

\* Where registrations come by UDP, and so never overlap, a row holds what one
\* request presented: whatever lookups run beside, whatever the database fails
\* at and however often hbbs restarts.
THEOREM RowsAreOneRequest ==
  ASSUME Via \subseteq {"udp"}
  PROVE  Spec => []RowIsOneRequest
<1>1. Init => RInv
  BY InitInv
  DEF Init, RInv, SerialInv, RecordInv, WriteInv, RowIsOneRequest, EmptyPeer, Busy
<1>2. RInv /\ [Next]_vars => RInv'
  BY NextInv, SerialStep, RecordStep, WriteStep, RowStep DEF RInv
<1>3. RInv => RowIsOneRequest
  BY DEF RInv
<1> QED
  BY <1>1, <1>2, <1>3, PTL DEF Spec

-----------------------------------------------------------------------------
(***************************************************************************)
(* ... and where the database does not fail either: a record without a     *)
(* guid is one whose id has no row yet, but for the registration that is   *)
(* about to write it.                                                      *)
(***************************************************************************)
\* Somebody can still get at record u as the one of id i.
Held(u, i) ==
  \/ mem[i] = u
  \/ \E t \in Task : pc[t] \in Busy /\ req[t].id = i /\ ref[t] = u

At(u, l) == \E t \in Task : pc[t] \in l /\ ref[t] = u

FreshInv ==
  \A u \in Task, i \in Id : Held(u, i) /\ heap[u].guid = NoTask =>
    /\ db[i] = NoRow \/ At(u, {"seal"})
    /\ heap[u].uuid = NoUuid \/ At(u, {"store", "seal"})

\* While there is no row, the record a task holds is the one in memory.
HoldInv ==
  \A t \in Task : pc[t] \in Busy /\ ref[t] # NoTask /\ db[req[t].id] = NoRow =>
    mem[req[t].id] = ref[t]

\* What a registration has read is still so when it acts on it.
ReadInv ==
  \A t \in Task :
    /\ pc[t] = "ensure" => db[req[t].id] = NoRow
    /\ pc[t] = "rate" /\ ~ changed[t] => heap[ref[t]].uuid = req[t].uuid

SInv == RInv /\ FreshInv /\ HoldInv /\ ReadInv /\ AcceptedIsStored

LEMMA HoldStep ==
  ASSUME SInv, [Next]_vars
  PROVE  HoldInv'
<1> USE DEF SInv, RInv
<1>1. ASSUME NEW t \in Task, NEW r \in Requests, Start(t, r) PROVE HoldInv'
  BY <1>1 DEF Start, Goto, locals, HoldInv, IInv, TypeOK, RefInv, Early
<1>2. ASSUME NEW t \in Task, Find(t) \/ FindBeat(t) PROVE HoldInv'
  BY <1>2, RequestType DEF Find, FindBeat, Obtain, Goto, Answer, locals, HoldInv, IInv, TypeOK,
     PcInv, RefInv, Busy, Early
<1>3. ASSUME NEW t \in Task, Publish(t) PROVE HoldInv'
  BY <1>3, RequestType DEF Publish, Obtain, Goto, Answer, HoldInv, RecordInv, Knows, IInv, TypeOK,
     PcInv, Busy
<1>4. ASSUME NEW t \in Task, Ensure(t) PROVE HoldInv'
  BY <1>4, RequestType DEF Ensure, Obtain, Goto, Answer, HoldInv, IInv, TypeOK, PcInv, Busy
<1>5. ASSUME NEW t \in Task, Insert(t) \/ Update(t) PROVE HoldInv'
  <2>1. \A i \in Id : db'[i] = NoRow => db[i] = NoRow
    BY OwnerStep
  <2>2. \A s \in Task : pc[s] \in Busy => req[s].id \in Id
    BY RequestType DEF IInv, PcInv
  <2> QED
    BY <1>5, <2>1, <2>2 DEF Insert, Update, Goto, Answer, locals, HoldInv, IInv, TypeOK, Busy
<1>6. ASSUME NEW t \in Task,
             \/ Load(t) \/ LoadFails(t) \/ Check(t) \/ Rate(t) \/ Apply(t) \/ StoreFails(t)
             \/ Seal(t) \/ Beat(t)
      PROVE  HoldInv'
  <2>1. /\ mem' = mem /\ db' = db /\ req' = req /\ ref' = ref
        /\ \A s \in Task : pc'[s] \in Busy => pc[s] \in Busy
    BY <1>6 DEF Load, LoadFails, Check, Rate, Apply, StoreFails, Seal, Beat, Absent, Goto, Answer,
       locals, IInv, TypeOK, Busy
  <2> QED
    BY <2>1 DEF HoldInv
<1>7. ASSUME NEW t \in Task, Fade(t) PROVE HoldInv'
  BY <1>7 DEF Fade, HoldInv, locals
<1>8. CASE Crash
  BY <1>8 DEF Crash, HoldInv, Busy
<1>9. CASE UNCHANGED vars
  BY <1>9 DEF vars, locals, HoldInv
<1> QED
  BY <1>1, <1>2, <1>3, <1>4, <1>5, <1>6, <1>7, <1>8, <1>9 DEF Next, Step

LEMMA ReadStep ==
  ASSUME Via \subseteq {"udp"}, Failures = {}, SInv, [Next]_vars
  PROVE  ReadInv'
<1> USE DEF SInv, RInv
<1>1. ASSUME NEW s \in Task, NEW t \in Task, s # t, pc[s] \in Busy, Registers(s),
             pc[t] \in {"ensure", "rate"}
      PROVE  FALSE
  BY <1>1, OneAtATime DEF IInv, PcInv, Busy
<1>2. ASSUME NEW t \in Task, NEW r \in Requests, Start(t, r) PROVE ReadInv'
  BY <1>2 DEF Start, Goto, locals, ReadInv, IInv, TypeOK
<1>3. ASSUME NEW t \in Task, Find(t) \/ FindBeat(t) PROVE ReadInv'
  <2>1. \A s \in Task \ {t} : pc'[s] = pc[s] /\ ref'[s] = ref[s]
    BY <1>3 DEF Find, FindBeat, Obtain, Goto, Answer, IInv, TypeOK
  <2>2. pc'[t] \notin {"ensure", "rate"}
    BY <1>3 DEF Find, FindBeat, Obtain, Goto, Answer, IInv, TypeOK
  <2> QED
    BY <1>3, <2>1, <2>2 DEF Find, FindBeat, ReadInv
<1>4. ASSUME NEW t \in Task, Load(t) PROVE ReadInv'
  BY <1>4, RequestType DEF Load, Absent, Goto, Answer, locals, ReadInv, IInv, TypeOK, PcInv, Busy
<1>5. ASSUME NEW t \in Task, Publish(t) \/ Ensure(t) PROVE ReadInv'
  <2>1. \A u \in Task \ {t} : heap'[u] = heap[u]
    BY <1>5 DEF Publish, Ensure, IInv, TypeOK
  <2>2. \A s \in Task : pc[s] = "rate" => ref[s] \in Task \ {t}
    BY <1>5 DEF Publish, Ensure, IInv, TypeOK, PcInv, RefInv, Busy, Early
  <2>3. \A s \in Task \ {t} : pc'[s] = pc[s] /\ ref'[s] = ref[s]
    BY <1>5 DEF Publish, Ensure, Obtain, Goto, Answer, IInv, TypeOK
  <2>4. pc'[t] \notin {"ensure", "rate"} /\ db' = db /\ req' = req /\ changed' = changed
    BY <1>5 DEF Publish, Ensure, Obtain, Goto, Answer, IInv, TypeOK
  <2> QED
    BY <2>1, <2>2, <2>3, <2>4 DEF ReadInv
<1>6. ASSUME NEW t \in Task, Check(t) PROVE ReadInv'
  <2>1. pc'[t] = "rate" /\ ~ changed'[t] => heap[ref[t]].uuid = req[t].uuid
    BY <1>6 DEF Check, Differs, Goto, Answer, IInv, TypeOK
  <2>2. pc'[t] # "ensure"
    BY <1>6 DEF Check, Goto, Answer, IInv, TypeOK
  <2>3. \A s \in Task \ {t} : pc'[s] = pc[s] /\ changed'[s] = changed[s]
    BY <1>6 DEF Check, Goto, Answer, IInv, TypeOK
  <2> QED
    BY <1>6, <2>1, <2>2, <2>3 DEF Check, ReadInv
<1>7. ASSUME NEW t \in Task, Rate(t) PROVE ReadInv'
  BY <1>7 DEF Rate, Goto, Answer, locals, ReadInv, IInv, TypeOK
\* While a registration writes, no other one stands at what it has read.
<1>8. ASSUME NEW t \in Task, Apply(t) \/ Insert(t) \/ Update(t) \/ Seal(t) PROVE ReadInv'
  <2>1. \A s \in Task \ {t} : pc[s] \notin {"ensure", "rate"}
    BY <1>1, <1>8 DEF Apply, Insert, Update, Seal, IInv, PcInv, Busy
  <2>2. \A s \in Task : pc'[s] \notin {"ensure", "rate"}
    BY <1>8, <2>1 DEF Apply, Insert, Update, Seal, Goto, Answer, IInv, TypeOK
  <2> QED
    BY <2>2 DEF ReadInv
<1>9. ASSUME NEW t \in Task, Beat(t) PROVE ReadInv'
  <2>1. \A s \in Task : heap'[s].uuid = heap[s].uuid
    <3>1. heap[ref[t]] \in Records /\ ref[t] \in Task
      BY <1>9 DEF Beat, IInv, TypeOK
    <3>2. PICK q : q = [heap[ref[t]] EXCEPT !.addr = req[t].ip, !.port = HasPort(req[t]),
                                            !.fresh = TRUE]
      OBVIOUS
    <3>3. q.uuid = heap[ref[t]].uuid
      BY <3>1, <3>2 DEF Records
    <3> QED
      BY <1>9, <3>1, <3>2, <3>3 DEF Beat, IInv, TypeOK
  <2> QED
    BY <1>9, <2>1 DEF Beat, Answer, locals, ReadInv, IInv, TypeOK, PcInv
<1>10. ASSUME NEW t \in Task, Fade(t) PROVE ReadInv'
  <2>1. \A s \in Task : heap'[s].uuid = heap[s].uuid
    BY <1>10 DEF Fade, IInv, TypeOK, Records
  <2> QED
    BY <1>10, <2>1 DEF Fade, locals, ReadInv, IInv, TypeOK, PcInv
<1>11. CASE Crash
  BY <1>11 DEF Crash, ReadInv, Busy
<1>12. CASE UNCHANGED vars
  BY <1>12 DEF vars, locals, ReadInv
<1> QED
  BY <1>2, <1>3, <1>4, <1>5, <1>6, <1>7, <1>8, <1>9, <1>10, <1>11, <1>12
  DEF Next, Step, LoadFails, StoreFails

\* A registration that is told OK has its machine's row in the table.
LEMMA OkIsStored ==
  ASSUME Via \subseteq {"udp"}, Failures = {}, SInv, [Next]_vars, NEW t \in Task, Registers(t),
         pc[t] \in Busy, reply'[t] = "OK", reply[t] # "OK"
  PROVE  db'[req[t].id] # NoRow /\ db'[req[t].id].uuid = req[t].uuid
<1> USE DEF SInv, RInv
<1>1. req[t].id \in Id /\ req[t].uuid \in Uuid
  BY RegisterType DEF IInv, PcInv, Registers
<1>2. \A s \in Task : pc[s] \in {"store", "seal"} => s = t
  BY OneAtATime DEF IInv, PcInv, Busy
<1>3. ASSUME NEW g, Knows(req[t].id, g, req[t].uuid)
      PROVE  db'[req[t].id] # NoRow /\ db'[req[t].id].uuid = req[t].uuid
  BY <1>1, <1>3, OwnerStep DEF Knows
<1>4. ASSUME NEW s \in Task, Rate(s) \/ Insert(s) \/ Update(s) \/ Seal(s), s = t
      PROVE  \E g : Knows(req[t].id, g, req[t].uuid)
  <2>1. /\ ref[t] \in Task /\ req[ref[t]].id = req[t].id
        /\ Held(ref[t], req[t].id)
    BY <1>4 DEF Rate, Insert, Update, Seal, Held, IInv, PcInv, RefInv, Busy
  <2>2. heap[ref[t]].guid # NoTask => Knows(req[t].id, heap[ref[t]].guid, heap[ref[t]].uuid)
    BY <2>1 DEF RecordInv
  <2>3. CASE Rate(t)
    <3>1. ~ changed[t] /\ pc[t] = "rate"
      BY <2>3 DEF Rate, Goto, Answer, IInv, TypeOK
    <3>2. heap[ref[t]].uuid = req[t].uuid
      BY <3>1 DEF ReadInv
    <3>3. ~ At(ref[t], {"store", "seal"})
      BY <1>2, <3>1 DEF At
    <3>4. heap[ref[t]].guid # NoTask
      BY <1>1, <2>1, <3>2, <3>3 DEF FreshInv
    <3> QED
      BY <2>2, <3>2, <3>4
  <2>4. CASE Insert(t)
    <3>1. heap[ref[t]].guid = NoTask /\ ~ At(ref[t], {"seal"})
      BY <1>2, <2>4 DEF Insert, WriteInv, At
    <3>2. db[req[t].id] = NoRow
      BY <1>1, <2>1, <3>1 DEF FreshInv
    <3>3. reply' = reply
      BY <2>4, <3>2 DEF Insert, Goto
    <3> QED
      BY <3>3
  <2>5. CASE Update(t)
    BY <2>2, <2>5 DEF Update, WriteInv
  <2>6. CASE Seal(t)
    BY <2>6 DEF Seal, WriteInv
  <2> QED
    BY <1>4, <2>3, <2>4, <2>5, <2>6
<1>5. ASSUME NEW s \in Task, Step(s)
      PROVE  s = t /\ (Rate(s) \/ Insert(s) \/ Update(s) \/ Seal(s))
  <2>1. \A u \in Task \ {s} : reply'[u] = reply[u]
    BY <1>5
    DEF Step, Find, Load, LoadFails, Publish, Ensure, Check, Rate, Apply, Insert, Update,
        StoreFails, Seal, FindBeat, Beat, Obtain, Absent, Goto, Answer, IInv, TypeOK
  <2>2. s = t
    BY <2>1
  <2>3. ~ FindBeat(t) /\ ~ Beat(t)
    BY DEF FindBeat, Beat, Registers, IInv, PcInv
  <2>4. ~ Find(t) /\ ~ Load(t) /\ ~ Publish(t) /\ ~ Ensure(t) /\ ~ Check(t) /\ ~ Apply(t)
    BY DEF Find, Load, Publish, Ensure, Check, Apply, Obtain, Absent, Goto, Answer, Registers,
           IInv, TypeOK
  <2> QED
    BY <1>5, <2>2, <2>3, <2>4 DEF Step, LoadFails, StoreFails
<1>6. \E s \in Task : Step(s)
  BY DEF Next, Start, Fade, Crash, Goto, vars
<1> QED
  BY <1>3, <1>4, <1>5, <1>6

\* A record without a guid stays one whose id has no row, until its own
\* registration writes both.
LEMMA FreshStep ==
  ASSUME Via \subseteq {"udp"}, Failures = {}, SInv, [Next]_vars
  PROVE  FreshInv'
<1> USE DEF SInv, RInv
<1> DEFINE Fresh(u, i) ==
      Held(u, i)' /\ heap'[u].guid = NoTask =>
        /\ db'[i] = NoRow \/ At(u, {"seal"})'
        /\ heap'[u].uuid = NoUuid \/ At(u, {"store", "seal"})'
<1>1. ASSUME \A u \in Task, i \in Id : Fresh(u, i) PROVE FreshInv'
  BY <1>1 DEF FreshInv
<1> DEFINE All == \A u \in Task, i \in Id : Fresh(u, i)
\* What a step has to show that writes neither the table nor a record's owner.
<1>2. ASSUME db' = db, NEW U \in SUBSET Task,
             \A u \in U : heap'[u].guid = heap[u].guid /\ heap'[u].uuid = heap[u].uuid,
             \A u \in U, i \in Id : Held(u, i)' => Held(u, i),
             \A u \in Task, l \in {{"seal"}, {"store", "seal"}} : At(u, l) => At(u, l)'
      PROVE  \A u \in U, i \in Id : Fresh(u, i)
  BY <1>2 DEF FreshInv
<1> HIDE DEF Fresh
<1>3. ASSUME NEW t \in Task, NEW r \in Requests, Start(t, r) PROVE All
  <2>1. \A u \in Task, l \in {{"seal"}, {"store", "seal"}} : At(u, l) => At(u, l)'
    BY <1>3 DEF Start, Goto, locals, At, IInv, TypeOK
  <2>2. \A u \in Task, i \in Id : Held(u, i)' => Held(u, i)
    BY <1>3 DEF Start, Goto, locals, Held, IInv, TypeOK, RefInv, Early
  <2> QED
    BY <1>2, <1>3, <2>1, <2>2 DEF Start
\* The steps that pass neither through the end of a registration nor the table.
<1>4. ASSUME NEW t \in Task,
             \/ Find(t) \/ Load(t) \/ Publish(t) \/ Ensure(t) \/ Check(t) \/ Rate(t)
             \/ Apply(t) \/ FindBeat(t) \/ Beat(t)
      PROVE  \A u \in Task, l \in {{"seal"}, {"store", "seal"}} : At(u, l) => At(u, l)'
  <2>1. pc[t] \notin {"store", "seal"} /\ \A s \in Task \ {t} : pc'[s] = pc[s] /\ ref'[s] = ref[s]
    BY <1>4 DEF Find, Load, Publish, Ensure, Check, Rate, Apply, FindBeat, Beat, Obtain, Absent,
       Goto, Answer, locals, IInv, TypeOK
  <2> QED
    BY <2>1 DEF At
<1>5. ASSUME NEW t \in Task, Find(t) \/ FindBeat(t) PROVE All
  <2>1. \A u \in Task, i \in Id : Held(u, i)' => Held(u, i)
    BY <1>5 DEF Find, FindBeat, Obtain, Goto, Answer, Held, IInv, TypeOK, RefInv, Busy, Early
  <2> QED
    BY <1>2, <1>4, <1>5, <2>1 DEF Find, FindBeat
<1>6. ASSUME NEW t \in Task, Load(t) \/ Check(t) \/ Rate(t) PROVE All
  <2>1. \A u \in Task, i \in Id : Held(u, i)' => Held(u, i)
    BY <1>6 DEF Load, Check, Rate, Absent, Goto, Answer, locals, Held, IInv, TypeOK, Busy
  <2> QED
    BY <1>2, <1>4, <1>6, <2>1 DEF Load, Check, Rate, locals
<1>7. ASSUME NEW t \in Task, Publish(t) PROVE All
  <2>1. \A u \in Task \ {t}, i \in Id : Held(u, i)' => Held(u, i)
    BY <1>7 DEF Publish, Obtain, Goto, Answer, Held, IInv, TypeOK, Busy
  <2>2. heap'[t].guid # NoTask
    BY <1>7 DEF Publish, FromRow, IInv, TypeOK, PcInv, Rows
  <2>3. \A u \in Task \ {t} : heap'[u].guid = heap[u].guid /\ heap'[u].uuid = heap[u].uuid
    BY <1>7 DEF Publish, IInv, TypeOK
  <2>4. \A u \in Task \ {t}, i \in Id : Fresh(u, i)
    BY <1>2, <1>4, <1>7, <2>1, <2>3 DEF Publish
  <2>5. \A i \in Id : Fresh(t, i)
    BY <2>2 DEF Fresh
  <2> QED
    BY <2>4, <2>5
<1>8. ASSUME NEW t \in Task, Ensure(t) PROVE All
  <2>1. \A u \in Task \ {t}, i \in Id : Held(u, i)' => Held(u, i)
    BY <1>8 DEF Ensure, Obtain, Goto, Answer, Held, IInv, TypeOK, RefInv, Busy, Early
  <2>2. \A u \in Task \ {t} : heap'[u].guid = heap[u].guid /\ heap'[u].uuid = heap[u].uuid
    BY <1>8 DEF Ensure, IInv, TypeOK
  <2>3. \A u \in Task \ {t}, i \in Id : Fresh(u, i)
    BY <1>2, <1>4, <1>8, <2>1, <2>2 DEF Ensure
  <2>4. \A i \in Id : Held(t, i)' => i = req[t].id
    BY <1>8 DEF Ensure, Obtain, Goto, Answer, Held, IInv, TypeOK, RefInv, Busy, Early
  <2>5. mem[req[t].id] = NoTask => heap'[t] = EmptyPeer
    BY <1>8 DEF Ensure, IInv, TypeOK
  <2>6. mem[req[t].id] # NoTask => \A i \in Id : ~ Held(t, i)'
    BY <1>8, RequestType
    DEF Ensure, Obtain, Goto, Answer, Held, IInv, TypeOK, PcInv, RefInv, Registers, Busy, Early
  <2>7. db'[req[t].id] = NoRow
    BY <1>8 DEF Ensure, ReadInv
  <2>8. \A i \in Id : Fresh(t, i)
    BY <2>4, <2>5, <2>6, <2>7 DEF Fresh, EmptyPeer
  <2> QED
    BY <2>3, <2>8
<1>9. ASSUME NEW t \in Task, Apply(t) PROVE All
  <2>1. \A u \in Task, i \in Id : Held(u, i)' => Held(u, i)
    BY <1>9 DEF Apply, Goto, Held, IInv, TypeOK, Busy
  <2>2. \A u \in Task \ {ref[t]} : heap'[u].guid = heap[u].guid /\ heap'[u].uuid = heap[u].uuid
    BY <1>9 DEF Apply, IInv, TypeOK
  <2>3. \A u \in Task \ {ref[t]}, i \in Id : Fresh(u, i)
    BY <1>2, <1>4, <1>9, <2>1, <2>2 DEF Apply
  <2>4. At(ref[t], {"store", "seal"})'
    BY <1>9 DEF Apply, Goto, At, IInv, TypeOK
  <2>5. ref[t] \in Task /\ heap'[ref[t]].guid = heap[ref[t]].guid
    <3>1. heap[ref[t]] \in Records /\ ref[t] \in Task
      BY <1>9 DEF Apply, IInv, TypeOK, PcInv
    <3> QED
      BY <1>9, <3>1 DEF Apply, IInv, TypeOK, Records
  <2>6. \A i \in Id : Held(ref[t], i)' /\ heap'[ref[t]].guid = NoTask =>
                        db[i] = NoRow \/ At(ref[t], {"seal"})
    BY <1>9, <2>1, <2>5 DEF FreshInv, Apply
  <2>7. At(ref[t], {"seal"}) => At(ref[t], {"seal"})'
    BY <1>9 DEF Apply, Goto, At, IInv, TypeOK
  <2>8. \A i \in Id : Fresh(ref[t], i)
    BY <1>9, <2>4, <2>6, <2>7 DEF Fresh, Apply
  <2> QED
    BY <2>3, <2>8
<1>10. ASSUME NEW t \in Task, Insert(t) PROVE All
  <2>1. \A s \in Task : pc[s] = "seal" => s = t
    BY <1>10, OneAtATime DEF Insert, IInv, PcInv, Busy
  <2>2. /\ ref[t] \in Task /\ req[t].id \in Id /\ Held(ref[t], req[t].id)
        /\ heap[ref[t]].guid = NoTask
    BY <1>10, RequestType DEF Insert, Held, WriteInv, IInv, PcInv, Busy
  <2>3. db[req[t].id] = NoRow
    BY <1>10, <2>1, <2>2 DEF FreshInv, At, Insert
  <2>4. /\ pc' = [pc EXCEPT ![t] = "seal"] /\ heap' = heap /\ mem' = mem /\ req' = req
        /\ ref' = ref /\ \A i \in Id \ {req[t].id} : db'[i] = db[i]
    BY <1>10, <2>2, <2>3 DEF Insert, Goto, locals, IInv, TypeOK
  <2>5. \A u \in Task, i \in Id : Held(u, i)' => Held(u, i)
    BY <1>10, <2>4 DEF Insert, Held, IInv, TypeOK, Busy
  <2>6. \A u \in Task : (At(u, {"seal"}) => At(u, {"seal"})')
                     /\ (At(u, {"store", "seal"}) => At(u, {"store", "seal"})')
    BY <1>10, <2>4 DEF Insert, At, IInv, TypeOK
  \* The record without a guid of that id is the one the registration holds.
  <2>7. \A u \in Task : Held(u, req[t].id) => u = ref[t]
    BY <1>10, <2>2, <2>3 DEF Insert, Held, HoldInv, Busy
  <2>8. At(ref[t], {"seal"})'
    BY <1>10, <2>4 DEF At, IInv, TypeOK
  <2>9. ASSUME NEW u \in Task, NEW i \in Id PROVE Fresh(u, i)
    BY <2>4, <2>5, <2>6, <2>7, <2>8 DEF Fresh, FreshInv
  <2> QED
    BY <2>9
<1>11. ASSUME NEW t \in Task, Update(t) PROVE All
  <2>1. heap[ref[t]].guid # NoTask
    BY <1>11 DEF Update, WriteInv
  <2>2. \A i \in Id : db[i] = NoRow => db'[i] = NoRow
    BY <1>11 DEF Update, IInv, TypeOK
  <2>3. \A u \in Task, i \in Id : Held(u, i)' => Held(u, i)
    BY <1>11 DEF Update, Answer, locals, Held, IInv, TypeOK, Busy
  <2>4. \A u \in Task \ {ref[t]} : (At(u, {"seal"}) => At(u, {"seal"})')
                                /\ (At(u, {"store", "seal"}) => At(u, {"store", "seal"})')
    BY <1>11 DEF Update, Answer, locals, At, IInv, TypeOK
  <2> QED
    BY <1>11, <2>1, <2>2, <2>3, <2>4 DEF Update, Fresh, FreshInv
<1>12. ASSUME NEW t \in Task, Seal(t) PROVE All
  <2>1. \A u \in Task, i \in Id : Held(u, i)' => Held(u, i)
    BY <1>12 DEF Seal, Answer, locals, Held, IInv, TypeOK, Busy
  <2>2. \A u \in Task \ {ref[t]} : (At(u, {"seal"}) => At(u, {"seal"})')
                                /\ (At(u, {"store", "seal"}) => At(u, {"store", "seal"})')
    BY <1>12 DEF Seal, Answer, locals, At, IInv, TypeOK
  <2>3. \A u \in Task \ {ref[t]} : heap'[u] = heap[u]
    BY <1>12 DEF Seal, IInv, TypeOK
  <2>4. \A u \in Task \ {ref[t]}, i \in Id : Fresh(u, i)
    BY <1>12, <2>1, <2>2, <2>3 DEF Seal, Fresh, FreshInv
  <2>5. heap'[ref[t]].guid # NoTask
    <3>1. heap[ref[t]] \in Records /\ ref[t] \in Task
      BY <1>12 DEF Seal, IInv, TypeOK, PcInv
    <3> QED
      BY <1>12, <3>1 DEF Seal, IInv, TypeOK, Records
  <2>6. \A i \in Id : Fresh(ref[t], i)
    BY <2>5 DEF Fresh
  <2> QED
    BY <2>4, <2>6
<1>13. ASSUME NEW t \in Task, Beat(t) PROVE All
  <2>1. \A s \in Task : heap'[s].uuid = heap[s].uuid /\ heap'[s].guid = heap[s].guid
    <3>1. heap[ref[t]] \in Records /\ ref[t] \in Task
      BY <1>13 DEF Beat, IInv, TypeOK
    <3>2. PICK q : q = [heap[ref[t]] EXCEPT !.addr = req[t].ip, !.port = HasPort(req[t]),
                                            !.fresh = TRUE]
      OBVIOUS
    <3>3. q.uuid = heap[ref[t]].uuid /\ q.guid = heap[ref[t]].guid
      BY <3>1, <3>2 DEF Records
    <3> QED
      BY <1>13, <3>1, <3>2, <3>3 DEF Beat, IInv, TypeOK
  <2>2. \A u \in Task, i \in Id : Held(u, i)' => Held(u, i)
    BY <1>13 DEF Beat, Answer, locals, Held, IInv, TypeOK, Busy
  <2> QED
    BY <1>2, <1>4, <1>13, <2>1, <2>2 DEF Beat
<1>14. ASSUME NEW t \in Task, Fade(t) PROVE All
  <2>1. \A s \in Task : heap'[s].uuid = heap[s].uuid /\ heap'[s].guid = heap[s].guid
    BY <1>14 DEF Fade, IInv, TypeOK, Records
  <2>2. \A u \in Task : /\ \A i \in Id : Held(u, i)' => Held(u, i)
                        /\ \A l \in {{"seal"}, {"store", "seal"}} : At(u, l) => At(u, l)'
    BY <1>14 DEF Fade, locals, Held, At
  <2> QED
    BY <1>2, <1>14, <2>1, <2>2 DEF Fade
<1>15. ASSUME Crash PROVE All
  BY <1>15 DEF Crash, Fresh, Held, Busy, IInv, TypeOK
<1>16. ASSUME UNCHANGED vars PROVE All
  BY <1>16 DEF vars, locals, Fresh, FreshInv, Held, At
<1>17. All
  BY <1>3, <1>5, <1>6, <1>7, <1>8, <1>9, <1>10, <1>11, <1>12, <1>13, <1>14, <1>15, <1>16
  DEF Next, Step, LoadFails, StoreFails
<1> QED
  BY <1>1, <1>17

\* Once told, it stays so: a request does not change, and a row keeps its owner.
LEMMA AcceptStep ==
  ASSUME Via \subseteq {"udp"}, Failures = {}, SInv, [Next]_vars
  PROVE  AcceptedIsStored'
<1> USE DEF SInv, RInv
<1> SUFFICES ASSUME NEW t \in Task, Registers(t)', reply'[t] = "OK"
             PROVE  db'[req'[t].id] # NoRow /\ db'[req'[t].id].uuid = req'[t].uuid
  BY DEF AcceptedIsStored
<1>1. pc[t] # "idle"
  <2>1. pc[t] = "idle" => reply[t] = "none"
    BY DEF SerialInv
  <2>2. \A s \in Task : Step(s) => pc[s] # "idle"
    BY DEF Step, Find, Load, LoadFails, Publish, Ensure, Check, Rate, Apply, Insert, Update,
           StoreFails, Seal, FindBeat, Beat
  <2>3. ASSUME NEW s \in Task, Step(s), s # t PROVE reply'[t] = reply[t]
    BY <2>3
    DEF Step, Find, Load, LoadFails, Publish, Ensure, Check, Rate, Apply, Insert, Update,
        StoreFails, Seal, FindBeat, Beat, Obtain, Absent, Goto, Answer, IInv, TypeOK
  <2> QED
    BY <2>1, <2>2, <2>3 DEF Next, Start, Fade, Crash, Goto, vars
<1>2. req'[t] = req[t]
  BY <1>1
  DEF Next, Step, Start, Find, Load, LoadFails, Publish, Ensure, Check, Rate, Apply, Insert,
      Update, StoreFails, Seal, FindBeat, Beat, Fade, Crash, vars, IInv, TypeOK
<1>3. Registers(t) /\ req[t].id \in Id
  BY <1>1, <1>2, RegisterType DEF Registers, SerialInv
<1>4. CASE reply[t] = "OK"
  BY <1>2, <1>3, <1>4, OwnerStep DEF AcceptedIsStored
<1>5. CASE reply[t] # "OK"
  <2>1. pc[t] \in Busy
    <3>1. \A s \in Task : Step(s) => pc[s] \in Busy
      BY DEF Step, Find, Load, LoadFails, Publish, Ensure, Check, Rate, Apply, Insert, Update,
             StoreFails, Seal, FindBeat, Beat, Busy
    <3>2. ASSUME NEW s \in Task, Step(s), s # t PROVE reply'[t] = reply[t]
      BY <3>2
      DEF Step, Find, Load, LoadFails, Publish, Ensure, Check, Rate, Apply, Insert, Update,
          StoreFails, Seal, FindBeat, Beat, Obtain, Absent, Goto, Answer, IInv, TypeOK
    <3> QED
      BY <1>5, <3>1, <3>2 DEF Next, Start, Fade, Crash, Goto, vars
  <2> QED
    BY <1>2, <1>3, <1>5, <2>1, OkIsStored
<1> QED
  BY <1>4, <1>5

\* Where registrations come by UDP and the database does not fail, a machine
\* that was told OK has the id's row, and no restart takes it away.
THEOREM AcceptedAreStored ==
  ASSUME Via \subseteq {"udp"}, Failures = {}
  PROVE  Spec => []AcceptedIsStored
<1>1. Init => SInv
  BY InitInv
  DEF Init, SInv, RInv, SerialInv, RecordInv, WriteInv, RowIsOneRequest, FreshInv, HoldInv,
      ReadInv, AcceptedIsStored, Registers, NoReq, EmptyPeer, Held, Busy, IInv
<1>2. SInv /\ [Next]_vars => SInv'
  BY NextInv, SerialStep, RecordStep, WriteStep, RowStep, FreshStep, HoldStep, ReadStep,
     AcceptStep
  DEF SInv, RInv
<1>3. SInv => AcceptedIsStored
  BY DEF SInv
<1> QED
  BY <1>1, <1>2, <1>3, PTL DEF Spec
=============================================================================
