---------------------------- MODULE PeerRegistry ----------------------------
(***************************************************************************)
(* hbbs: who owns a peer id.  PeerMap keeps one shared record per id in    *)
(* memory in front of the peer table (peer.rs, database.rs); RegisterPk,   *)
(* RegisterPeer and the lookups of the punch handlers read and write it    *)
(* (rendezvous_server.rs).                                                 *)
(*                                                                         *)
(* A task serves one request.  It gives up the locks at every await, so    *)
(* each action is what a task does between two of them.  UDP requests are  *)
(* served one after the other by the main loop; TCP and WebSocket requests *)
(* and lookups run beside it.  A record is shared by reference: it is      *)
(* named after the task that created it, and a task keeps its reference    *)
(* even when the map has moved on to another record.                       *)
(***************************************************************************)
EXTENDS Naturals

CONSTANTS
  Task, NoTask,
  Id,
  Uuid, NoUuid,  \* machine uuids, and the empty one of a fresh record
  Pk, NoPk,      \* public keys
  Ip, NoIp,      \* client addresses; NoIp is 0.0.0.0:0
  Loopback,
  NoRow,         \* no row with that id
  Via,           \* how registrations arrive: a subset of Transport
  Failures,      \* what the database may fail at: of {"read", "write"}
  MaxCrash       \* bound: restarts of hbbs

\* "proxy": WebSocket through a proxy, whose X-Real-IP makes the port 0.
Transport == {"udp", "tcp", "ws", "proxy"}

ASSUME NamesAssumption ==
  /\ NoTask \notin Task /\ NoUuid \notin Uuid /\ NoPk \notin Pk /\ NoIp \notin Ip
ASSUME ViaAssumption == Via \subseteq Transport
ASSUME CrashAssumption == MaxCrash \in Nat
ASSUME RowAssumption == \A r \in [guid : Task, uuid : Uuid, pk : Pk, ip : Ip] : r # NoRow

VARIABLES
  mem,      \* PeerMap.map: the record in memory under each id
  heap,     \* the contents of each record
  db,       \* the peer table, by id
  pc, req,  \* where each task is, and the request it serves
  ref,      \* the record a task holds
  row,      \* the row a task has read and not yet published
  changed,  \* what handle_register_pk found at its check
  guid,     \* the guid update_pk saw when it wrote the record
  reply,
  crashes

locals == <<ref, row, changed, guid>>
vars == <<mem, heap, db, pc, req, locals, reply, crashes>>

Rows == [guid : Task, uuid : Uuid, pk : Pk, ip : Ip]

Records == [guid : Task \cup {NoTask}, uuid : Uuid \cup {NoUuid}, pk : Pk \cup {NoPk},
            ip : Ip \cup {NoIp},     \* info.ip
            addr : Ip \cup {NoIp},   \* socket_addr, and whether its port is not 0
            port : BOOLEAN,
            fresh : BOOLEAN]         \* last_reg_time is less than REG_TIMEOUT ago

\* Peer::default()
EmptyPeer == [guid |-> NoTask, uuid |-> NoUuid, pk |-> NoPk, ip |-> NoIp,
              addr |-> NoIp, port |-> FALSE, fresh |-> FALSE]

\* A record made from a row has no address and an expired last_reg_time.
FromRow(r) == [guid |-> r.guid, uuid |-> r.uuid, pk |-> r.pk, ip |-> r.ip,
               addr |-> NoIp, port |-> FALSE, fresh |-> FALSE]

Requests ==
  [kind : {"register"}, id : Id, uuid : Uuid, pk : Pk, ip : Ip, via : Via]
    \cup [kind : {"heartbeat"}, id : Id, ip : Ip, via : Via]
    \cup [kind : {"lookup"}, id : Id]

NoReq == [kind |-> "none"]

\* What a task answered: a registration, a heartbeat, a lookup.
Replies == {"none", "OK", "UUID_MISMATCH", "TOO_FREQUENT", "registered", "request_pk",
            "found", "absent"}

Idle == {"idle", "done", "lost"}
Busy == {"find", "load", "publish", "ensure", "check", "rate", "apply", "store",
         "seal", "beat"}

Init ==
  /\ mem = [i \in Id |-> NoTask]
  /\ heap = [t \in Task |-> EmptyPeer]
  /\ db = [i \in Id |-> NoRow]
  /\ pc = [t \in Task |-> "idle"]
  /\ req = [t \in Task |-> NoReq]
  /\ ref = [t \in Task |-> NoTask]
  /\ row = [t \in Task |-> NoRow]
  /\ changed = [t \in Task |-> FALSE]
  /\ guid = [t \in Task |-> NoTask]
  /\ reply = [t \in Task |-> "none"]
  /\ crashes = 0

HasPort(r) == r.via # "proxy"

Registers(t) == req[t].kind = "register"

\* Requests the main loop serves itself, one at a time.
Inline(r) == r.kind \in {"register", "heartbeat"} /\ r.via = "udp"

Answer(t, r) ==
  /\ pc' = [pc EXCEPT ![t] = "done"]
  /\ reply' = [reply EXCEPT ![t] = r]

Goto(t, l) == pc' = [pc EXCEPT ![t] = l] /\ UNCHANGED reply

-----------------------------------------------------------------------------
\* handle_udp, handle_tcp: a valid request that check_ip_blocker let through.
Start(t, r) ==
  /\ pc[t] = "idle"
  /\ Inline(r) => \A s \in Task : Inline(req[s]) => pc[s] \in Idle
  /\ req' = [req EXCEPT ![t] = r]
  /\ Goto(t, IF r.kind = "heartbeat" THEN "beat" ELSE "find")
  /\ UNCHANGED <<mem, heap, db, locals, crashes>>

\* PeerMap::get found or made a record: a registration goes on with it.
Obtain(t, r) ==
  /\ ref' = [ref EXCEPT ![t] = r]
  /\ IF Registers(t) THEN Goto(t, "check") ELSE Answer(t, "found")

Absent(t) == IF Registers(t) THEN Goto(t, "ensure") ELSE Answer(t, "absent")

\* PeerMap::get, in memory.
Find(t) ==
  LET i == req[t].id IN
  /\ pc[t] = "find"
  /\ IF mem[i] # NoTask
     THEN Obtain(t, mem[i])
     ELSE Goto(t, "load") /\ UNCHANGED ref
  /\ UNCHANGED <<mem, heap, db, req, row, changed, guid, crashes>>

\* PeerMap::get, db.get_peer.
Load(t) ==
  LET i == req[t].id IN
  /\ pc[t] = "load"
  /\ IF db[i] # NoRow
     THEN row' = [row EXCEPT ![t] = db[i]] /\ Goto(t, "publish")
     ELSE Absent(t) /\ UNCHANGED row
  /\ UNCHANGED <<mem, heap, db, req, ref, changed, guid, crashes>>

\* An error of db.get_peer is taken for an absent row.
LoadFails(t) ==
  /\ pc[t] = "load" /\ "read" \in Failures
  /\ Absent(t)
  /\ UNCHANGED <<mem, heap, db, req, locals, crashes>>

\* Mutant: the record is published before the row is copied into it.
PublishDefault(t) ==
  /\ pc[t] = "publish"
  /\ heap' = [heap EXCEPT ![t] = [EmptyPeer EXCEPT !.pk = row[t].pk, !.ip = row[t].ip]]
  /\ mem' = [mem EXCEPT ![req[t].id] = t]
  /\ Obtain(t, t)
  /\ UNCHANGED <<db, req, row, changed, guid, crashes>>

\* PeerMap::get puts the loaded record into the map, whatever is there by now.
Publish(t) ==
  /\ pc[t] = "publish"
  /\ heap' = [heap EXCEPT ![t] = FromRow(row[t])]
  /\ mem' = [mem EXCEPT ![req[t].id] = t]
  /\ Obtain(t, t)
  /\ UNCHANGED <<db, req, row, changed, guid, crashes>>

\* PeerMap::get_or, under the write lock.
Ensure(t) ==
  LET i == req[t].id IN
  /\ pc[t] = "ensure"
  /\ IF mem[i] # NoTask
     THEN Obtain(t, mem[i]) /\ UNCHANGED <<mem, heap>>
     ELSE /\ heap' = [heap EXCEPT ![t] = EmptyPeer]
          /\ mem' = [mem EXCEPT ![i] = t]
          /\ Obtain(t, t)
  /\ UNCHANGED <<db, req, row, changed, guid, crashes>>

\* Mutant: the uuid is not compared.
MismatchAnyUuid(r, p) == p.uuid # NoUuid /\ p.ip # r.ip /\ p.pk # r.pk

\* The uuid must be the record's, and of ip and pk one at most may differ.
Mismatch(r, p) ==
  /\ p.uuid # NoUuid
  /\ p.uuid # r.uuid \/ (p.ip # r.ip /\ p.pk # r.pk)

Differs(r, p) == p.uuid # r.uuid \/ p.pk # r.pk \/ p.ip # r.ip

\* handle_register_pk, under the read lock.
Check(t) ==
  LET p == heap[ref[t]] IN
  /\ pc[t] = "check"
  /\ IF Mismatch(req[t], p)
     THEN Answer(t, "UUID_MISMATCH") /\ UNCHANGED changed
     ELSE changed' = [changed EXCEPT ![t] = Differs(req[t], p)] /\ Goto(t, "rate")
  /\ UNCHANGED <<mem, heap, db, req, ref, row, guid, crashes>>

\* reg_pk lets the request through, or not; update_pk follows if there is news.
Rate(t) ==
  /\ pc[t] = "rate"
  /\ \/ Answer(t, "TOO_FREQUENT")
     \/ IF changed[t] \/ req[t].via \in {"ws", "proxy"}
        THEN Goto(t, "apply")
        ELSE Answer(t, "OK")
  /\ UNCHANGED <<mem, heap, db, req, locals, crashes>>

\* PeerMap::update_pk, under the write lock.
Apply(t) ==
  LET r == req[t]
      p == heap[ref[t]] IN
  /\ pc[t] = "apply"
  /\ heap' = [heap EXCEPT ![ref[t]] =
                [p EXCEPT !.uuid = r.uuid, !.pk = r.pk, !.ip = r.ip,
                          !.addr = r.ip, !.port = HasPort(r), !.fresh = TRUE]]
  /\ guid' = [guid EXCEPT ![t] = p.guid]
  /\ Goto(t, "store")
  /\ UNCHANGED <<mem, db, req, ref, row, changed, crashes>>

\* Mutant: the row is replaced, as without the index on id.
InsertReplaces(t) ==
  LET r == req[t] IN
  /\ pc[t] = "store" /\ guid[t] = NoTask
  /\ db' = [db EXCEPT ![r.id] = [guid |-> t, uuid |-> r.uuid, pk |-> r.pk, ip |-> r.ip]]
  /\ Goto(t, "seal")
  /\ UNCHANGED <<mem, heap, req, locals, crashes>>

\* db.insert_peer: the index on id admits one row per id.
Insert(t) ==
  LET r == req[t] IN
  /\ pc[t] = "store" /\ guid[t] = NoTask
  /\ IF db[r.id] = NoRow
     THEN /\ db' = [db EXCEPT ![r.id] =
                      [guid |-> t, uuid |-> r.uuid, pk |-> r.pk, ip |-> r.ip]]
          /\ Goto(t, "seal")
     ELSE Answer(t, "OK") /\ UNCHANGED db
  /\ UNCHANGED <<mem, heap, req, locals, crashes>>

\* Mutant: info is not written.
UpdateKeepsInfo(t) ==
  LET r == req[t] IN
  /\ pc[t] = "store" /\ guid[t] # NoTask
  /\ db' = IF db[r.id] # NoRow /\ db[r.id].guid = guid[t]
           THEN [db EXCEPT ![r.id].pk = r.pk]
           ELSE db
  /\ Answer(t, "OK")
  /\ UNCHANGED <<mem, heap, req, locals, crashes>>

\* db.update_pk writes id, pk and info of the row with that guid, not its uuid.
Update(t) ==
  LET r == req[t] IN
  /\ pc[t] = "store" /\ guid[t] # NoTask
  /\ db' = IF db[r.id] # NoRow /\ db[r.id].guid = guid[t]
           THEN [db EXCEPT ![r.id].pk = r.pk, ![r.id].ip = r.ip]
           ELSE db
  /\ Answer(t, "OK")
  /\ UNCHANGED <<mem, heap, req, locals, crashes>>

\* update_pk's SERVER_ERROR is dropped: the client is told OK all the same.
StoreFails(t) ==
  /\ pc[t] = "store" /\ "write" \in Failures
  /\ Answer(t, "OK")
  /\ UNCHANGED <<mem, heap, db, req, locals, crashes>>

\* The new row's guid goes into the record.
Seal(t) ==
  /\ pc[t] = "seal"
  /\ heap' = [heap EXCEPT ![ref[t]].guid = t]
  /\ Answer(t, "OK")
  /\ UNCHANGED <<mem, db, req, locals, crashes>>

-----------------------------------------------------------------------------
\* Mutant: a record without a port takes any address.
IpChangedFromAddr(p, ip) == ip # Loopback /\ p.port /\ ip # p.addr

\* update_addr compares the sender with the address in use, or with the one
\* registered when that has no port; loopback is always let through.
IpChanged(p, ip) == ip # Loopback /\ ip # (IF p.port THEN p.addr ELSE p.ip)

AsksForPk(p, ip) == p.pk = NoPk \/ IpChanged(p, ip)

\* RegisterPeer: get_in_memory.
FindBeat(t) ==
  LET i == req[t].id IN
  /\ pc[t] = "beat" /\ ref[t] = NoTask
  /\ IF mem[i] # NoTask
     THEN ref' = [ref EXCEPT ![t] = mem[i]] /\ UNCHANGED <<pc, reply>>
     ELSE Answer(t, "request_pk") /\ UNCHANGED ref
  /\ UNCHANGED <<mem, heap, db, req, row, changed, guid, crashes>>

\* update_addr, under the record's write lock.
Beat(t) ==
  LET p == heap[ref[t]]
      ip == req[t].ip IN
  /\ pc[t] = "beat" /\ ref[t] # NoTask
  /\ IF AsksForPk(p, ip)
     THEN Answer(t, "request_pk") /\ UNCHANGED heap
     ELSE /\ heap' = [heap EXCEPT ![ref[t]] =
                        [p EXCEPT !.addr = ip, !.port = HasPort(req[t]), !.fresh = TRUE]]
          /\ Answer(t, "registered")
  /\ UNCHANGED <<mem, db, req, locals, crashes>>

\* REG_TIMEOUT passes without a sign of the peer.
Fade(t) ==
  /\ heap[t].fresh
  /\ heap' = [heap EXCEPT ![t].fresh = FALSE]
  /\ UNCHANGED <<mem, db, pc, req, locals, reply, crashes>>

\* hbbs restarts: the memory and the tasks are gone, the table stays.
Crash ==
  /\ crashes < MaxCrash
  /\ crashes' = crashes + 1
  /\ mem' = [i \in Id |-> NoTask]
  /\ heap' = [t \in Task |-> EmptyPeer]
  /\ pc' = [t \in Task |-> IF pc[t] \in Busy THEN "lost" ELSE pc[t]]
  /\ UNCHANGED <<db, req, locals, reply>>

Step(t) ==
  \/ Find(t) \/ Load(t) \/ LoadFails(t) \/ Publish(t) \/ Ensure(t)
  \/ Check(t) \/ Rate(t) \/ Apply(t) \/ Insert(t) \/ Update(t) \/ StoreFails(t)
  \/ Seal(t) \/ FindBeat(t) \/ Beat(t)

Next ==
  \/ \E t \in Task : (\E r \in Requests : Start(t, r)) \/ Step(t) \/ Fade(t)
  \/ Crash

Spec == Init /\ [][Next]_vars

-----------------------------------------------------------------------------
TypeOK ==
  /\ mem \in [Id -> Task \cup {NoTask}]
  /\ heap \in [Task -> Records]
  /\ db \in [Id -> Rows \cup {NoRow}]
  /\ pc \in [Task -> Busy \cup Idle]
  /\ req \in [Task -> Requests \cup {NoReq}]
  /\ ref \in [Task -> Task \cup {NoTask}]
  /\ row \in [Task -> Rows \cup {NoRow}]
  /\ changed \in [Task -> BOOLEAN]
  /\ guid \in [Task -> Task \cup {NoTask}]
  /\ reply \in [Task -> Replies]
  /\ crashes \in 0..MaxCrash

\* The machine that first got a row for an id keeps it in the table: no race, no
\* failure and no restart replaces the row's uuid or removes the row.
RowKeepsOwner ==
  [][\A i \in Id : db[i] # NoRow =>
       /\ db'[i] # NoRow
       /\ db'[i].uuid = db[i].uuid /\ db'[i].guid = db[i].guid]_vars

Serving(t, i) == pc[t] \in Busy /\ req[t].id = i

\* The table, the memory and every task at work agree who owns id i.
Settled(i) ==
  /\ db[i] # NoRow
  /\ mem[i] # NoTask => heap[mem[i]].uuid = db[i].uuid
  /\ \A t \in Task : Serving(t, i) =>
       /\ ref[t] # NoTask => heap[ref[t]].uuid = db[i].uuid
       /\ pc[t] = "publish" => row[t].uuid = db[i].uuid
       /\ pc[t] = "ensure" => mem[i] # NoTask
       /\ pc[t] \in {"rate", "apply", "store", "seal"} => req[t].uuid = db[i].uuid

\* Once settled, an id stays settled, over all interleavings and restarts: no
\* other machine can take it, unless the database fails to read the row.
OwnershipIsStable ==
  [][\A i \in Id : Settled(i) =>
       \/ Settled(i)'
       \/ \E t \in Task : Serving(t, i) /\ LoadFails(t)]_vars

\* A peer is only ever reached at the address of its last RegisterPk (or at the
\* server's own host): a heartbeat from elsewhere does not move it, also when it
\* meets a record that another task has just loaded.  A peer that counts as
\* online has an address.
AddressWasRegistered ==
  \A t \in Task :
    /\ heap[t].addr \in {NoIp, heap[t].ip, Loopback}
    /\ heap[t].fresh => heap[t].addr # NoIp

\* A row holds what one request presented, never one machine's uuid with another
\* one's key.  (Where registrations of an id do not overlap.)
RowIsOneRequest ==
  \A i \in Id : db[i] # NoRow =>
    \E t \in Task : /\ Registers(t) /\ req[t].id = i
                    /\ req[t].uuid = db[i].uuid /\ req[t].pk = db[i].pk
                    /\ req[t].ip = db[i].ip

\* A machine that was told OK owns the id, also after a restart.  (Where
\* registrations do not overlap and the database does not fail.)
AcceptedIsStored ==
  \A t \in Task : Registers(t) /\ reply[t] = "OK" =>
    db[req[t].id] # NoRow /\ db[req[t].id].uuid = req[t].uuid
=============================================================================
