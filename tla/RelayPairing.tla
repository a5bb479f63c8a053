---------------------------- MODULE RelayPairing ----------------------------
(***************************************************************************)
(* hbbr, the relay server: how two connections that present the same uuid  *)
(* are joined (rustdesk-server/src/relay_server.rs, make_pair_).           *)
(*                                                                         *)
(* Every accepted connection runs in a task of its own.  The tasks share   *)
(* PEERS, which maps a uuid to the stream parked under it, and USAGE, which *)
(* has an entry per running relay.  Each is behind a lock that is released *)
(* at every await, so one action below is what a task does between two     *)
(* awaits.  A connection is used once: what it presented stays recorded    *)
(* after it closed.                                                        *)
(***************************************************************************)
EXTENDS Naturals, FiniteSets

CONSTANTS
  Conn,       \* the connections (and the task that serves each)
  NoConn,     \* no stream
  Uuid,       \* the session uuids that requests carry
  NoUuid,     \* the empty uuid
  Key,        \* the licence keys that requests carry
  ServerKey,  \* the key hbbr was started with
  NoKey,      \* the empty key: hbbr checks none
  Ws,         \* the connections that came in over WebSocket
  Usage,      \* the "ip:port" strings USAGE is keyed by
  UsageId,    \* the one of each connection; WebSocket ones are "ip:0"
  Window      \* how long a stream stays parked, in ticks (30 s in the code)

ASSUME ConnAssumption == NoConn \notin Conn /\ Ws \subseteq Conn
ASSUME UuidAssumption == NoUuid \notin Uuid
ASSUME KeyAssumption == ServerKey \in Key \cup {NoKey}
ASSUME UsageAssumption == UsageId \in [Conn -> Usage]
ASSUME WindowAssumption == Window \in Nat \ {0}

VARIABLES
  phase,    \* where each connection's task is
  uuid,     \* the uuid each connection presented
  licence,  \* the key each connection presented
  peers,    \* PEERS: the stream parked under each uuid
  age,      \* how long each sleeping task has slept
  partner,  \* the stream a relaying task took out of PEERS
  raw,      \* the streams switched to raw forwarding
  usage     \* the keys of USAGE

vars == <<phase, uuid, licence, peers, age, partner, raw, usage>>

\* A task that is "looking" holds a valid request; one that is "parking" has
\* found nobody and is about to insert itself; a "pairing" one has taken its
\* partner out of PEERS; an "ending" one has left relay().
Phase == {"idle", "accepted", "looking", "parking", "waiting",
          "pairing", "relaying", "ending", "closed"}

Joined == {"pairing", "relaying", "ending"}

Init ==
  /\ phase = [c \in Conn |-> "idle"]
  /\ uuid = [c \in Conn |-> NoUuid]
  /\ licence = [c \in Conn |-> NoKey]
  /\ peers = [u \in Uuid |-> NoConn]
  /\ age = [c \in Conn |-> 0]
  /\ partner = [c \in Conn |-> NoConn]
  /\ raw = {}
  /\ usage = {}

-----------------------------------------------------------------------------
\* io_loop accepts the connection and handle_connection spawns make_pair.
Accept(c) ==
  /\ phase[c] = "idle"
  /\ phase' = [phase EXCEPT ![c] = "accepted"]
  /\ UNCHANGED <<uuid, licence, peers, age, partner, raw, usage>>

\* The task ends before a request: the address is on the blocklist, the
\* WebSocket handshake fails, 30 s pass, or the first frame is something else.
GiveUp(c) ==
  /\ phase[c] \in {"idle", "accepted"}
  /\ phase' = [phase EXCEPT ![c] = "closed"]
  /\ UNCHANGED <<uuid, licence, peers, age, partner, raw, usage>>

\* Mutant: the licence key is not compared.
AdmitsAnyKey(u, k) == u # NoUuid

Admits(u, k) == (ServerKey = NoKey \/ k = ServerKey) /\ u # NoUuid

\* The first frame is a RequestRelay.
RecvRequest(c, u, k) ==
  /\ phase[c] = "accepted"
  /\ uuid' = [uuid EXCEPT ![c] = u]
  /\ licence' = [licence EXCEPT ![c] = k]
  /\ phase' = [phase EXCEPT ![c] = IF Admits(u, k) THEN "looking" ELSE "closed"]
  /\ UNCHANGED <<peers, age, partner, raw, usage>>

\* Mutant: the entry is read and left in PEERS.
LookupKeepsEntry(c) ==
  LET found == peers[uuid[c]] IN
  /\ phase[c] = "looking"
  /\ phase' = [phase EXCEPT ![c] = IF found # NoConn THEN "pairing" ELSE "parking"]
  /\ partner' = [partner EXCEPT ![c] = found]
  /\ UNCHANGED <<uuid, licence, peers, age, raw, usage>>

\* PEERS.lock().await.remove(&rf.uuid); the lock is released with the statement.
Lookup(c) ==
  LET found == peers[uuid[c]] IN
  /\ phase[c] = "looking"
  /\ phase' = [phase EXCEPT ![c] = IF found # NoConn THEN "pairing" ELSE "parking"]
  /\ partner' = [partner EXCEPT ![c] = found]
  /\ peers' = [peers EXCEPT ![uuid[c]] = NoConn]
  /\ UNCHANGED <<uuid, licence, age, raw, usage>>

\* PEERS.lock().await.insert(..): a stream already parked there is dropped.
Park(c) ==
  /\ phase[c] = "parking"
  /\ peers' = [peers EXCEPT ![uuid[c]] = c]
  /\ age' = [age EXCEPT ![c] = 0]
  /\ phase' = [phase EXCEPT ![c] = "waiting"]
  /\ UNCHANGED <<uuid, licence, partner, raw, usage>>

\* Mutant: the slot is not cleared.
ExpireLeavesEntry(c) ==
  /\ phase[c] = "waiting"
  /\ age[c] = Window
  /\ phase' = [phase EXCEPT ![c] = "closed"]
  /\ UNCHANGED <<uuid, licence, peers, age, partner, raw, usage>>

\* Mutant: the slot is cleared before the sleep is over.
ExpireEarly(c) ==
  /\ phase[c] = "waiting"
  /\ peers' = [peers EXCEPT ![uuid[c]] = NoConn]
  /\ phase' = [phase EXCEPT ![c] = "closed"]
  /\ UNCHANGED <<uuid, licence, age, partner, raw, usage>>

\* The 30 s sleep is over: whatever is parked under the uuid is dropped.
Expire(c) ==
  /\ phase[c] = "waiting"
  /\ age[c] = Window
  /\ peers' = [peers EXCEPT ![uuid[c]] = NoConn]
  /\ phase' = [phase EXCEPT ![c] = "closed"]
  /\ UNCHANGED <<uuid, licence, age, partner, raw, usage>>

\* The USAGE entry is made, and two TCP streams are switched to raw.
StartRelay(c) ==
  /\ phase[c] = "pairing"
  /\ phase' = [phase EXCEPT ![c] = "relaying"]
  /\ usage' = usage \cup {UsageId[c]}
  /\ raw' = IF {c, partner[c]} \cap Ws = {} THEN raw \cup {c, partner[c]} ELSE raw
  /\ UNCHANGED <<uuid, licence, peers, age, partner>>

\* relay() rewrites its USAGE entry about once a second.
UpdateUsage(c) ==
  /\ phase[c] = "relaying"
  /\ usage' = usage \cup {UsageId[c]}
  /\ UNCHANGED <<phase, uuid, licence, peers, age, partner, raw>>

\* relay() returns: end of a stream, a failed send, idle, or blocked.
EndRelay(c) ==
  /\ phase[c] = "relaying"
  /\ phase' = [phase EXCEPT ![c] = "ending"]
  /\ UNCHANGED <<uuid, licence, peers, age, partner, raw, usage>>

\* Mutant: the USAGE entry stays.
CloseRelayKeepsUsage(c) ==
  /\ phase[c] = "ending"
  /\ phase' = [phase EXCEPT ![c] = "closed"]
  /\ UNCHANGED <<uuid, licence, peers, age, partner, raw, usage>>

\* Mutant: USAGE is cleared.
CloseRelayClearsUsage(c) ==
  /\ phase[c] = "ending"
  /\ usage' = {}
  /\ phase' = [phase EXCEPT ![c] = "closed"]
  /\ UNCHANGED <<uuid, licence, peers, age, partner, raw>>

\* The USAGE entry is removed and both streams are dropped.
CloseRelay(c) ==
  /\ phase[c] = "ending"
  /\ usage' = usage \ {UsageId[c]}
  /\ phase' = [phase EXCEPT ![c] = "closed"]
  /\ UNCHANGED <<uuid, licence, peers, age, partner, raw>>

Asleep(c) == phase[c] = "waiting" /\ age[c] < Window

\* Time passes for the sleeping tasks.  A task whose sleep is over may be late.
Tick ==
  /\ \E c \in Conn : Asleep(c)
  /\ age' = [c \in Conn |-> IF Asleep(c) THEN age[c] + 1 ELSE age[c]]
  /\ UNCHANGED <<phase, uuid, licence, peers, partner, raw, usage>>

\* What a task does by itself once its await has returned.
Advance(c) ==
  Lookup(c) \/ Park(c) \/ Expire(c) \/ StartRelay(c) \/ CloseRelay(c)

Next ==
  \/ Tick
  \/ \E c \in Conn :
       \/ Accept(c)
       \/ GiveUp(c)
       \/ \E u \in Uuid \cup {NoUuid}, k \in Key \cup {NoKey} : RecvRequest(c, u, k)
       \/ UpdateUsage(c)
       \/ EndRelay(c)
       \/ Advance(c)

Spec == Init /\ [][Next]_vars

\* tokio runs every task that is ready and fires every timer.  EndRelay is not
\* fair: two clients that keep sending are relayed for as long as they like.
Fairness == WF_vars(Tick) /\ \A c \in Conn : WF_vars(Advance(c))

FairSpec == Spec /\ Fairness

-----------------------------------------------------------------------------
TypeOK ==
  /\ phase \in [Conn -> Phase]
  /\ uuid \in [Conn -> Uuid \cup {NoUuid}]
  /\ licence \in [Conn -> Key \cup {NoKey}]
  /\ peers \in [Uuid -> Conn \cup {NoConn}]
  /\ age \in [Conn -> 0..Window]
  /\ partner \in [Conn -> Conn \cup {NoConn}]
  /\ raw \subseteq Conn
  /\ usage \subseteq Usage

Parked(c) == \E u \in Uuid : peers[u] = c

\* Whatever is parked in PEERS was put there by a task that still sleeps, and
\* sits under the uuid it asked for.  That task's own wake-up is what clears the
\* slot, so nothing stays in PEERS for ever even though an earlier sleeper may
\* clear a slot that is not its own.
SleeperOwnsSlot ==
  \A u \in Uuid : peers[u] # NoConn =>
    phase[peers[u]] = "waiting" /\ uuid[peers[u]] = u

\* A stream serves one relay at most: no two tasks take the same partner, none
\* takes itself, a taken stream is not parked any more, and the task that takes
\* one never parked its own.
ExclusiveRelay ==
  \A c \in Conn : partner[c] # NoConn =>
    /\ ~Parked(partner[c]) /\ ~Parked(c)
    /\ partner[partner[c]] = NoConn
    /\ \A d \in Conn : partner[d] = partner[c] => d = c

\* Only streams that presented hbbr's key and the same uuid are joined, and
\* they agree on the framing: both forward raw bytes or neither does.
RelayIsLegitimate ==
  \A c \in Conn : phase[c] \in Joined =>
    /\ uuid[c] = uuid[partner[c]] /\ uuid[c] # NoUuid
    /\ ServerKey # NoKey => licence[c] = ServerKey /\ licence[partner[c]] = ServerKey
    /\ c \in raw <=> partner[c] \in raw
    /\ raw \cap Ws = {}

\* USAGE lists no relay that is over: each key belongs to a relay that has yet
\* to remove it, although several WebSocket relays may share one key.
UsageHasRelay ==
  \A i \in usage : \E c \in Conn : UsageId[c] = i /\ phase[c] \in {"relaying", "ending"}

\* A relay whose key no other connection shares is listed for as long as it runs.
RelayHasUsage ==
  \A c \in Conn :
    /\ phase[c] = "relaying"
    /\ \A d \in Conn : UsageId[d] = UsageId[c] => d = c
    => UsageId[c] \in usage

\* A parked stream leaves PEERS before its 30 s are over only because of another
\* connection with the same uuid: one that takes it for its relay, or one that
\* had itself found nobody (it looked between the other's lookup and insert, or
\* its own stream is gone and it still sleeps).
LosesSlotOnlyToNamesake ==
  [][\A c \in Conn : Parked(c) /\ ~Parked(c)' /\ age[c] < Window =>
       \E d \in Conn \ {c} :
         /\ uuid[d] = uuid[c]
         /\ partner'[d] = c \/ phase[d] \in {"parking", "waiting"}]_vars

\* The slot of a parked stream is freed in the end, whatever the clients do.
ParkedLeaves == \A u \in Uuid : \A c \in Conn : peers[u] = c ~> peers[u] # c

-----------------------------------------------------------------------------
\* Refinement: the tasks and PEERS implement Rendezvous.
Mate(c) ==
  IF partner[c] # NoConn THEN partner[c]
  ELSE IF \E d \in Conn : partner[d] = c THEN CHOOSE d \in Conn : partner[d] = c
  ELSE NoConn

\* The streams that have been dropped: those of a relay that is over, those of a
\* task that ended unmatched, and a sleeper's once something else took its slot.
Dropped ==
  {c \in Conn :
     IF Mate(c) # NoConn
     THEN \E d \in {c, Mate(c)} : partner[d] # NoConn /\ phase[d] = "closed"
     ELSE phase[c] = "closed" \/ (phase[c] = "waiting" /\ ~Parked(c))}

Promise == INSTANCE Rendezvous WITH
             name <- uuid, mate <- [c \in Conn |-> Mate(c)], gone <- Dropped

\* Every step of hbbr links, drops or refuses connections only as Rendezvous
\* allows, the races between lookup, insert and wake-up included.
KeepsPromise == Promise!Spec
=============================================================================
