----------------------------- MODULE ServerPool -----------------------------
(***************************************************************************)
(* The pool of relay servers: the rows the administrator edits             *)
(* (rustdesk-api/service/server.go), the check that marks them online      *)
(* (healthcheck.go), the list published to Redis, and the copy hbbs        *)
(* decides by (rendezvous_server.rs: server_topology).                     *)
(*                                                                         *)
(* A task is the goroutine of a request; a database or Redis call is a     *)
(* step.  Rows are sets of servers; a list is the set of its servers (its  *)
(* order, by priority and id, is a function of the set).  The API server   *)
(* starts no periodic check: the call of StartHealthCheck in apimain.go    *)
(* stands in a comment.                                                    *)
(***************************************************************************)
EXTENDS Naturals, Sequences, FiniteSets

CONSTANTS
  Server,      \* rows' ids, never used twice (auto-increment)
  Task,        \* requests the API serves at the same time
  Probe,       \* relay checks hbbs runs at the same time
  MaxChange,   \* bound: requests, and changes of what can be reached
  RedisFails   \* whether a Set may fail

PoolAssumption == MaxChange \in Nat /\ RedisFails \in BOOLEAN

VARIABLES
  unborn, gone,            \* ids not given yet, ids of deleted rows
  active, online,          \* the columns is_active, is_online
  up,                      \* the lines a dial reaches
  redis,                   \* rustdesk:server_topology; nothing reads as {}
  pc, todo, found, seen,   \* a task: where it is, the rows it still checks,
                           \* what it found of one, the list it publishes
  topology, queue, got,    \* hbbs: its copy, the channel, each relay check's list
  changes,
  asked,                   \* history: is_active in the forms
  steady                   \* history: the checks nothing has disturbed

table == <<unborn, gone, active, online>>
tasks == <<pc, todo, found, seen>>
hbbs == <<topology, queue, got>>
vars == <<table, up, redis, tasks, hbbs, changes, asked, steady>>

Row == [server : Server, online : BOOLEAN]

TypeOK ==
  /\ unborn \subseteq Server /\ gone \subseteq Server \ unborn
  /\ active \cup online \subseteq Server \ (unborn \cup gone) /\ up \subseteq Server
  /\ redis \subseteq Server /\ topology \subseteq Server
  /\ pc \in [Task -> {"idle", "check", "dialled", "written", "read"}]
  /\ todo \in [Task -> SUBSET Row]
  /\ found \in [Task -> SUBSET Row] /\ \A t \in Task : Cardinality(found[t]) <= 1
  /\ seen \in [Task -> SUBSET Server]
  /\ queue \in Seq(SUBSET Server)
  /\ got \in [Probe -> Seq(SUBSET Server)] /\ \A p \in Probe : Len(got[p]) <= 1
  /\ changes \in 0..MaxChange
  /\ asked \subseteq Server /\ steady \subseteq Task

Init ==
  /\ unborn = Server /\ gone = {} /\ active = {} /\ online = {}
  /\ up \in SUBSET Server
  /\ redis = {} /\ topology = {} /\ queue = <<>> /\ got = [p \in Probe |-> <<>>]
  /\ pc = [t \in Task |-> "idle"]
  /\ todo = [t \in Task |-> {}] /\ found = [t \in Task |-> {}]
  /\ seen = [t \in Task |-> {}]
  /\ changes = 0 /\ asked = {} /\ steady = {}

-----------------------------------------------------------------------------
Begin(t) == pc[t] = "idle" /\ changes < MaxChange /\ changes' = changes + 1

\* The request has written its row, and publishes.
Written(t) ==
  /\ pc' = [pc EXCEPT ![t] = "written"]
  /\ steady' = {}
  /\ UNCHANGED <<up, redis, todo, found, seen, hbbs>>

\* A column after UPDATE ... WHERE id = s, which writes no deleted row.
Column(col, s, value) ==
  IF s \in gone THEN col ELSE IF value THEN col \cup {s} ELSE col \ {s}

\* gorm's INSERT: a false or zero field of a column with a default is the
\* default, true for is_active and is_online.
Insert(s) == active' = active \cup {s} /\ online' = online \cup {s}

Create(t) ==
  /\ Begin(t)
  /\ \E s \in unborn, isActive \in BOOLEAN :
       /\ unborn' = unborn \ {s}
       /\ Insert(s)
       /\ asked' = IF isActive THEN asked \cup {s} ELSE asked
  /\ Written(t)
  /\ UNCHANGED gone

\* Mutant: a change of the row is not published.
UpdateSilently(t) ==
  /\ Begin(t)
  /\ \E s \in Server \ unborn, isActive \in BOOLEAN :
       active' = Column(active, s, isActive) /\ asked' = Column(asked, s, isActive)
  /\ steady' = {}
  /\ UNCHANGED <<unborn, gone, online, up, redis, tasks, hbbs>>

\* is_online is not among the columns written.
Update(t) ==
  /\ Begin(t)
  /\ \E s \in Server \ unborn, isActive \in BOOLEAN :
       active' = Column(active, s, isActive) /\ asked' = Column(asked, s, isActive)
  /\ Written(t)
  /\ UNCHANGED <<unborn, gone, online>>

\* Deleting a row again deletes nothing, and publishes.
Delete(t) ==
  /\ Begin(t)
  /\ \E s \in Server \ unborn :
       /\ gone' = gone \cup {s}
       /\ active' = active \ {s} /\ online' = online \ {s} /\ asked' = asked \ {s}
  /\ Written(t)
  /\ UNCHANGED unborn

SetOnline(s, isOnline) == online' = Column(online, s, isOnline)

ToggleOnline(t) ==
  /\ Begin(t)
  /\ \E s \in Server \ unborn, isOnline \in BOOLEAN : SetOnline(s, isOnline)
  /\ Written(t)
  /\ UNCHANGED <<unborn, gone, active, asked>>

\* CheckAllServers reads the active rows once.
Check(t) ==
  /\ Begin(t)
  /\ todo' = [todo EXCEPT ![t] = {[server |-> s, online |-> s \in online] : s \in active}]
  /\ pc' = [pc EXCEPT ![t] = IF active = {} THEN "idle" ELSE "check"]
  /\ steady' = steady \cup {t}
  /\ UNCHANGED <<table, up, redis, found, seen, hbbs, asked>>

\* A task goes on with its rows, or ends.
Resume(t) == pc' = [pc EXCEPT ![t] = IF todo'[t] = {} THEN "idle" ELSE "check"]

\* CheckServerLine dials; the answer is compared with the row read at the start.
Dial(t) ==
  /\ pc[t] = "check"
  /\ \E r \in todo[t] :
       LET isOnline == r.server \in up IN
       /\ todo' = [todo EXCEPT ![t] = @ \ {r}]
       /\ IF isOnline = r.online
          THEN Resume(t) /\ UNCHANGED found
          ELSE /\ pc' = [pc EXCEPT ![t] = "dialled"]
               /\ found' = [found EXCEPT ![t] = {[r EXCEPT !.online = isOnline]}]
  /\ UNCHANGED <<table, up, redis, seen, hbbs, changes, asked, steady>>

UpdateOnlineStatus(t) ==
  /\ pc[t] = "dialled"
  /\ \E r \in found[t] : SetOnline(r.server, r.online)
  /\ pc' = [pc EXCEPT ![t] = "written"]
  /\ found' = [found EXCEPT ![t] = {}]
  /\ steady' = steady \cap {t}
  /\ UNCHANGED <<unborn, gone, active, up, redis, todo, seen, hbbs, changes, asked>>

\* PublishServerTopologyToRedis: GetActiveServers, then Set; its error is dropped.
GetActiveServers(t) ==
  /\ pc[t] = "written"
  /\ seen' = [seen EXCEPT ![t] = active]
  /\ pc' = [pc EXCEPT ![t] = "read"]
  /\ UNCHANGED <<table, up, redis, todo, found, hbbs, changes, asked, steady>>

Set(t) ==
  /\ pc[t] = "read"
  /\ \/ redis' = seen[t]
     \/ RedisFails /\ UNCHANGED redis
  /\ seen' = [seen EXCEPT ![t] = {}]
  /\ todo' = todo /\ Resume(t)
  /\ UNCHANGED <<table, up, found, hbbs, changes, asked, steady>>

\* A line goes up or down.
Reach ==
  /\ changes < MaxChange /\ changes' = changes + 1
  /\ \E s \in Server : up' = (up \ {s}) \cup ({s} \ up)
  /\ steady' = {}
  /\ UNCHANGED <<table, redis, tasks, hbbs, asked>>

-----------------------------------------------------------------------------
\* hbbs: timer_refresh_topology fetches and stores; a failed fetch stores nothing.
Refresh ==
  /\ topology' = redis
  /\ UNCHANGED <<table, up, redis, tasks, queue, got, changes, asked, steady>>

\* Mutant: a relay check fetches again before it has sent.
ProbeFetchAgain(p) ==
  /\ got' = [got EXCEPT ![p] = @ \o <<redis>>]
  /\ UNCHANGED <<table, up, redis, tasks, topology, queue, changes, asked, steady>>

\* check_relay_servers, in a task of its own, fetches the list too and sends it
\* to the loop.
ProbeFetch(p) ==
  /\ got[p] = <<>>
  /\ got' = [got EXCEPT ![p] = <<redis>>]
  /\ UNCHANGED <<table, up, redis, tasks, topology, queue, changes, asked, steady>>

ProbeSend(p) ==
  /\ got[p] # <<>> /\ Len(queue) < Cardinality(Probe)  \* bound on the channel
  /\ queue' = queue \o got[p]
  /\ got' = [got EXCEPT ![p] = <<>>]
  /\ UNCHANGED <<table, up, redis, tasks, topology, changes, asked, steady>>

Receive ==
  /\ queue # <<>>
  /\ topology' = Head(queue) /\ queue' = Tail(queue)
  /\ UNCHANGED <<table, up, redis, tasks, got, changes, asked, steady>>

Work(t) == Dial(t) \/ UpdateOnlineStatus(t) \/ GetActiveServers(t) \/ Set(t)

Next ==
  \/ \E t \in Task :
       \/ Create(t) \/ Update(t) \/ Delete(t) \/ ToggleOnline(t) \/ Check(t)
       \/ Work(t)
  \/ Reach
  \/ Refresh
  \/ \E p \in Probe : ProbeFetch(p) \/ ProbeSend(p)
  \/ Receive

\* Requests come to an end, the refresh timer fires, the loop reads its channel
\* and a relay check sends what it fetched.  Nobody has to send requests.
Spec ==
  /\ Init /\ [][Next]_vars
  /\ \A t \in Task : WF_vars(Work(t))
  /\ WF_vars(Refresh) /\ WF_vars(Receive)
  /\ \A p \in Probe : WF_vars(ProbeSend(p))

-----------------------------------------------------------------------------
\* The list the API gives to clients (GetRelayServerEntries).
RelayServerEntries == active

Publishing == \E t \in Task : pc[t] \in {"written", "read"}

\* When no request is publishing, Redis holds the active rows: every operation
\* that changes them publishes, in whatever order the rest happens.  True of one
\* request at a time: two may overtake each other.
PublishedIsCurrent == Publishing \/ redis = active

\* A relay switched off, or deleted, for good is in the end no longer in the list
\* hbbs chooses from, although lists fetched earlier are still in its channel.
Withdrawn(s) == s \notin active
Unused(s) == s \notin topology
WithdrawalTakesEffect == \A s \in Server : <>[]Withdrawn(s) => <>[]Unused(s)

\* A check that nothing disturbs leaves is_online true of every active row.
CheckTellsTheTruth ==
  \A t \in Task :
    t \in steady /\ pc[t] # "idle" /\ pc'[t] = "idle"
    => \A s \in active' : s \in online' <=> s \in up'

\* A server that stays down is in the end marked offline.
DownIsNoticed ==
  \A s \in Server : <>[](s \in active /\ s \notin up) => []<>(s \notin online)

\* The relays given to clients are active and online.
EntriesAreOnline == RelayServerEntries \subseteq online

\* A row is active exactly if the administrator's last form said so.
ActiveAsAsked == active = asked
=============================================================================
