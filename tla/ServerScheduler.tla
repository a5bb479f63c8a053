-------------------------- MODULE ServerScheduler --------------------------
(***************************************************************************)
(* Which servers the admin API gives a client: GetServerConfigSmart        *)
(* (rustdesk-api/service/serverConfig.go) and the scheduler it asks        *)
(* (serverScheduler.go).                                                   *)
(*                                                                         *)
(* A server is a record of what the choice looks at.  Every server speaks  *)
(* TCP (the forms store support_tcp = true), and wss stands for            *)
(* SupportWSS && WsHost != "".  The only caller asks for "auto".           *)
(***************************************************************************)
EXTENDS Naturals, FiniteSets

CONSTANTS
  Id,        \* servers' ids: numbers, the order of rows
  Region,    \* regions of servers
  Anywhere,  \* the client region every server matches
  ClientRegion,  \* regions GetRegionByIP finds: China and anywhere else
  NoRegion,  \* none is looked for: the caller named no address of the client
  Priority,  \* priorities
  Cost,      \* cost weights
  Rows, Users  \* the tables and users considered

SchedulerAssumption ==
  /\ Id \subseteq Nat /\ Priority \subseteq Nat /\ Cost \subseteq Nat
  /\ Anywhere \in ClientRegion /\ ClientRegion \subseteq Region /\ NoRegion \notin Region
  /\ IsFiniteSet(Id)

VARIABLES
  rows,      \* the table of servers
  user,      \* the user who asks: what the row assigns
  region,    \* of the client
  isRestricted,
  given      \* the answer: no server yet, or where it comes from and a server

vars == <<rows, user, region, isRestricted, given>>

Server == [isActive : BOOLEAN, isOnline : BOOLEAN, region : Region,
           priority : Priority, cost : Cost, wss : BOOLEAN]
Optional(S) == {<<>>} \cup {<<x>> : x \in S}
User == [custom : BOOLEAN, primary : Optional(Id), backup : Optional(Id),
         package : SUBSET Id]
Answer == [from : {"custom", "assigned", "scheduled", "default"}, server : Optional(Id)]

TypeOK ==
  /\ rows \in [Id -> Server] /\ user \in User
  /\ region \in ClientRegion \cup {NoRegion} /\ isRestricted \in BOOLEAN
  /\ given \in Optional(Answer)

Init ==
  /\ rows \in Rows /\ user \in Users
  /\ region \in ClientRegion \cup {NoRegion} /\ isRestricted \in BOOLEAN
  /\ given = <<>>

-----------------------------------------------------------------------------
\* The servers assigned to the user, and the order they are tried in: the primary
\* one, the backup, and those of the package by priority and id.
Assigned ==
  {i \in Id : user.primary = <<i>> \/ user.backup = <<i>> \/ i \in user.package}
Turn(i) == IF user.primary = <<i>> THEN 1 ELSE IF user.backup = <<i>> THEN 2 ELSE 3
Sooner(i, j) ==
  \/ Turn(i) < Turn(j)
  \/ /\ Turn(i) = 3 /\ Turn(j) = 3
     /\ \/ rows[i].priority > rows[j].priority
        \/ rows[i].priority = rows[j].priority /\ i < j

\* getAssignedServerConfig: the first active one, for a restricted client the
\* first with WSS if there is one.
AssignedServer ==
  LET filtered == {i \in Assigned : rows[i].isActive}
      wss == {i \in filtered : rows[i].wss}
      tried == IF isRestricted /\ wss # {} THEN wss ELSE filtered
  IN {i \in tried : \A j \in tried : ~Sooner(j, i)}

IsAvailable(i) == rows[i].isActive /\ rows[i].isOnline
Available == {i \in Id : IsAvailable(i)}

\* isRegionMatch: clients of any other region match every server.
RegionMatch(i) == region = Anywhere \/ rows[i].region = region

\* filterServers; if nothing is left, every available server is a candidate.
Filtered ==
  {i \in Available : (isRestricted => rows[i].wss) /\ RegionMatch(i)}
Candidates == IF Filtered = {} THEN Available ELSE Filtered

\* sortServers: a priority before a cost.  The rule for Chinese clients in
\* between prefers their own region among equal priorities.
Before(i, j) ==
  LET own == region = "CN" /\ (rows[i].region = "CN") # (rows[j].region = "CN") IN
  \/ rows[i].priority > rows[j].priority
  \/ /\ rows[i].priority = rows[j].priority
     /\ IF own THEN rows[i].region = "CN" ELSE rows[i].cost < rows[j].cost

\* Schedule: any first server of the sorted ones, for sort.Slice keeps no order
\* between equals.
Scheduled == {i \in Candidates : \A j \in Candidates : ~Before(j, i)}

Give(from, server) == given' = <<[from |-> from, server |-> server]>>

GetServerConfigSmart ==
  /\ given = <<>>
  /\ IF user.custom THEN Give("custom", <<>>)
     ELSE IF AssignedServer # {} THEN \E i \in AssignedServer : Give("assigned", <<i>>)
     ELSE IF region = NoRegion \/ Available = {} THEN Give("default", <<>>)
     ELSE \E i \in Scheduled : Give("scheduled", <<i>>)
  /\ UNCHANGED <<rows, user, region, isRestricted>>

Next == GetServerConfigSmart

Spec == Init /\ [][Next]_vars

-----------------------------------------------------------------------------
From(how) == given # <<>> /\ given[1].from = how
TheServer == given[1].server[1]

\* sortServers compares by an order: no cycle, and servers it holds equal are
\* equal to the same others.  sort.Slice answers nothing useful otherwise.
SortIsAnOrder ==
  \A i, j, k \in Available :
    /\ ~(Before(i, j) /\ Before(j, i))
    /\ Before(i, j) /\ Before(j, k) => Before(i, k)
    /\ Before(i, k) => Before(i, j) \/ Before(j, k)

\* The scheduler gives the best server of the client's region that speaks its
\* protocol, if there is one, and never prefers a higher priority elsewhere.
RegionComesFirst ==
  From("scheduled") =>
    LET Near == {j \in Available : /\ isRestricted => rows[j].wss
                                   /\ rows[j].region = region}
    IN region # Anywhere /\ Near # {}
       => /\ TheServer \in Near
          /\ \A j \in Near : rows[j].priority <= rows[TheServer].priority

\* A server switched off is given to nobody, one that is down only to a user it
\* is assigned to.  The default is given only to who is assigned no server in use,
\* and then only if none is available, or none was looked for: the configuration
\* endpoints of vip.go name no address of the client.
OfferedIsUsable ==
  /\ From("assigned") => rows[TheServer].isActive
  /\ From("scheduled") => IsAvailable(TheServer)
  /\ From("default") =>
       /\ region = NoRegion \/ Available = {}
       /\ ~\E i \in Assigned : rows[i].isActive

\* A client that can only use port 443 is given a server with WSS if one is
\* available.
RestrictedGetsWss ==
  isRestricted /\ From("scheduled") /\ (\E i \in Available : rows[i].wss)
  => rows[TheServer].wss
=============================================================================
