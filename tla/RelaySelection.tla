--------------------------- MODULE RelaySelection ---------------------------
(***************************************************************************)
(* hbbs's own list of relays, used when no list is published: the          *)
(* administrator's commands, the checks that take out the relays nobody    *)
(* reaches, and the loop that stores both (rendezvous_server.rs).          *)
(*                                                                         *)
(* A list is the set of its relays.  Commands and checks run in tasks and  *)
(* send what they have to the loop.  (A connection works on the copy of    *)
(* the list made when it was accepted: this is the loop's own.)            *)
(***************************************************************************)
EXTENDS Naturals, Sequences, FiniteSets, SequencesExt

CONSTANTS
  Relay,       \* relays
  Check,       \* check_relay_servers running at the same time
  MaxChange    \* bound: commands, and changes of what can be reached

SelectionAssumption == MaxChange \in Nat /\ IsFiniteSet(Check)

VARIABLES
  relayServers0, relayServers,  \* the loop's lists: configured, reachable
  queue,        \* messages to the loop
  dialling,     \* a check: the relays it has not dialled, or idle
  answered,     \* a check: those that answered
  alwaysUseRelay,
  up,           \* the relays a dial reaches
  changes,
  wanted        \* history: the administrator's last list

lists == <<relayServers0, relayServers>>
checks == <<dialling, answered>>
vars == <<lists, queue, checks, alwaysUseRelay, up, changes, wanted>>

Idle == {"idle"}
Data == [kind : {"RelayServers0", "RelayServers"}, list : SUBSET Relay]
MaxQueue == 2   \* bound on the channel

TypeOK ==
  /\ relayServers0 \subseteq Relay /\ relayServers \subseteq Relay
  /\ queue \in Seq(Data)
  /\ dialling \in [Check -> (SUBSET Relay) \cup {Idle}]
  /\ answered \in [Check -> SUBSET Relay]
  /\ alwaysUseRelay \in BOOLEAN /\ up \subseteq Relay
  /\ changes \in 0..MaxChange /\ wanted \subseteq Relay

\* The list given on the command line.
Init ==
  /\ relayServers0 \in SUBSET Relay /\ relayServers = relayServers0
  /\ queue = <<>>
  /\ dialling = [c \in Check |-> Idle] /\ answered = [c \in Check |-> {}]
  /\ alwaysUseRelay = FALSE
  /\ up \in SUBSET Relay
  /\ changes = 0 /\ wanted = relayServers0

-----------------------------------------------------------------------------
Send(kind, list) ==
  /\ Len(queue) < MaxQueue
  /\ queue' = Append(queue, [kind |-> kind, list |-> list])

Count == changes < MaxChange /\ changes' = changes + 1

\* check_cmd "relay-servers <list>".
SetRelayServers ==
  /\ Count
  /\ \E list \in SUBSET Relay : Send("RelayServers0", list) /\ wanted' = list
  /\ UNCHANGED <<lists, checks, alwaysUseRelay, up>>

\* check_cmd "always-use-relay Y|N" also sends its word as a list; no host has
\* that name, so get_servers keeps nothing of it.
AlwaysUseRelay ==
  /\ Count
  /\ alwaysUseRelay' \in BOOLEAN
  /\ Send("RelayServers0", {})
  /\ UNCHANGED <<lists, checks, up, wanted>>

Reach ==
  /\ Count
  /\ \E r \in Relay : up' = SymDiff(up, {r})
  /\ UNCHANGED <<lists, queue, checks, alwaysUseRelay, wanted>>

\* Mutant: the check dials the relays of the last check.
CheckTheReachable(c) ==
  /\ Cardinality(relayServers) > 1 /\ dialling[c] = Idle
  /\ dialling' = [dialling EXCEPT ![c] = relayServers]
  /\ answered' = [answered EXCEPT ![c] = {}]
  /\ UNCHANGED <<lists, queue, alwaysUseRelay, up, changes, wanted>>

\* timer_check_relay starts a check of the configured list.
StartCheck(c) ==
  /\ Cardinality(relayServers0) > 1 /\ dialling[c] = Idle
  /\ dialling' = [dialling EXCEPT ![c] = relayServers0]
  /\ answered' = [answered EXCEPT ![c] = {}]
  /\ UNCHANGED <<lists, queue, alwaysUseRelay, up, changes, wanted>>

\* The dials run side by side and end in any order.
Dial(c) ==
  /\ dialling[c] \notin {Idle, {}}
  /\ \E r \in dialling[c] :
       /\ dialling' = [dialling EXCEPT ![c] = @ \ {r}]
       /\ answered' = [answered EXCEPT ![c] = IF r \in up THEN @ \cup {r} ELSE @]
  /\ UNCHANGED <<lists, queue, alwaysUseRelay, up, changes, wanted>>

\* The relays that answered are sent to the loop unless there is none.
SendCheck(c) ==
  /\ dialling[c] = {}
  /\ IF answered[c] = {} THEN UNCHANGED queue ELSE Send("RelayServers", answered[c])
  /\ dialling' = [dialling EXCEPT ![c] = Idle]
  /\ answered' = [answered EXCEPT ![c] = {}]
  /\ UNCHANGED <<lists, alwaysUseRelay, up, changes, wanted>>

\* The loop: parse_relay_servers stores both lists, a check's result one.
Receive ==
  /\ queue # <<>> /\ queue' = Tail(queue)
  /\ relayServers' = Head(queue).list
  /\ relayServers0' = IF Head(queue).kind = "RelayServers0"
                      THEN Head(queue).list ELSE relayServers0
  /\ UNCHANGED <<checks, alwaysUseRelay, up, changes, wanted>>

Next ==
  \/ SetRelayServers \/ AlwaysUseRelay \/ Reach \/ Receive
  \/ \E c \in Check : StartCheck(c) \/ Dial(c) \/ SendCheck(c)

\* The timer starts checks, a dial ends (in CHECK_RELAY_TIMEOUT at the latest),
\* the loop reads its channel.
Spec ==
  /\ Init /\ [][Next]_vars
  /\ \A c \in Check : WF_vars(StartCheck(c) \/ Dial(c) \/ SendCheck(c))
  /\ WF_vars(Receive)

-----------------------------------------------------------------------------
\* A check takes relays out and brings them back: once commands and lines are
\* quiet, exactly the configured relays that answer are handed out, if there are
\* several configured and one answers.
Follows ==
  Cardinality(relayServers0) > 1 /\ up \cap relayServers0 # {}
  => relayServers = up \cap relayServers0
ListFollowsReach == <>[]Follows

\* While relays are configured there is one to hand out, even if none answers.
NeverEmptied == relayServers0 # {} => relayServers # {}

\* In the end only relays of the configured list are handed out.
OnlyConfigured == <>[](relayServers \subseteq relayServers0)

\* The configured list is the administrator's last one, once it has arrived.
ListIsAdministrators ==
  (\A i \in DOMAIN queue : queue[i].kind # "RelayServers0") => relayServers0 = wanted
=============================================================================
