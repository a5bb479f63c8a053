-------------------------- MODULE MediatorRestart --------------------------
(***************************************************************************)
(* The client restarts its mediators when the user changes the servers or  *)
(* stops the service: RendezvousMediator::start_all, restart               *)
(* (rendezvous_mediator.rs) and the callers of restart (ipc.rs).           *)
(*                                                                         *)
(* The loop, its mediators and the user run on threads of their own; two   *)
(* atomic flags connect them.  A step reads or writes one of them.         *)
(***************************************************************************)
EXTENDS Naturals

CONSTANTS
  Host,       \* rendezvous servers
  MaxChange   \* bound: changes the user makes

ChangeAssumption == MaxChange \in Nat

VARIABLES
  servers, stopped,   \* the options rendezvous-servers and stop-service
  shouldExit,         \* SHOULD_EXIT
  manual,             \* MANUAL_RESTARTED
  pc,                 \* where start_all's loop is
  used,               \* the servers it has read
  running,            \* the mediators that have not ended
  ending,             \* those whose start() has returned
  user,               \* whether the user's change still has to be told
  changes,
  told, swallowed     \* history: a restart came after the options were read,
                      \* and was cleared

options == <<servers, stopped>>
flags == <<shouldExit, manual>>
tasks == <<running, ending>>
history == <<told, swallowed>>
vars == <<options, flags, pc, used, tasks, user, changes, history>>

Init ==
  /\ servers \in (SUBSET Host) \ {{}} /\ stopped = FALSE
  /\ shouldExit = FALSE /\ manual = FALSE
  /\ pc = "top" /\ used = {}
  /\ running = {} /\ ending = {}
  /\ user = "idle" /\ changes = 0
  /\ told = FALSE /\ swallowed = FALSE

-----------------------------------------------------------------------------
\* set_options, then CheckIfRestart or another caller restarts the mediators.
Change ==
  /\ user = "idle" /\ changes < MaxChange
  /\ changes' = changes + 1
  /\ \/ servers' \in (SUBSET Host) \ {{}, servers} /\ UNCHANGED stopped
     \/ stopped' = ~stopped /\ UNCHANGED servers
  /\ user' = "changed"
  /\ UNCHANGED <<flags, pc, used, tasks, history>>

\* restart(): SHOULD_EXIT, then MANUAL_RESTARTED.
TellExit ==
  /\ user = "changed"
  /\ shouldExit' = TRUE /\ user' = "told"
  /\ told' = (pc \in {"servers", "clear"})
  /\ UNCHANGED <<options, manual, pc, used, tasks, changes, swallowed>>

TellManual ==
  /\ user = "told"
  /\ manual' = TRUE /\ user' = "idle"
  /\ UNCHANGED <<options, shouldExit, pc, used, tasks, changes, history>>

-----------------------------------------------------------------------------
Loop == UNCHANGED <<options, user, changes>>

\* start_all reads stop-service.
ReadStop ==
  /\ pc = "top"
  /\ IF stopped
     THEN pc' = "rest" /\ used' = {}
     ELSE pc' = "servers" /\ UNCHANGED used
  /\ Loop /\ UNCHANGED <<flags, tasks, history>>

ReadServers ==
  /\ pc = "servers"
  /\ used' = servers /\ pc' = "clear"
  /\ Loop /\ UNCHANGED <<flags, tasks, history>>

\* SHOULD_EXIT is cleared after the options were read: a restart in between is lost.
ClearExit ==
  /\ pc = "clear"
  /\ shouldExit' = FALSE /\ pc' = "spawn"
  /\ swallowed' = told /\ told' = FALSE
  /\ Loop /\ UNCHANGED <<manual, used, tasks>>

Spawn ==
  /\ pc = "spawn"
  /\ manual' = FALSE
  /\ running' = used /\ ending' = {}
  /\ pc' = "join"
  /\ Loop /\ UNCHANGED <<shouldExit, used, history>>

\* A mediator fails: no route, a closed socket.
Fail(h) ==
  /\ h \in running \ ending
  /\ ending' = ending \cup {h}
  /\ Loop /\ UNCHANGED <<flags, pc, used, running, history>>

\* The timer of a mediator finds SHOULD_EXIT.
Leave(h) ==
  /\ h \in running \ ending /\ shouldExit
  /\ ending' = ending \cup {h}
  /\ Loop /\ UNCHANGED <<flags, pc, used, running, history>>

Finish(h) ==
  /\ h \in ending
  /\ shouldExit' = TRUE
  /\ running' = running \ {h} /\ ending' = ending \ {h}
  /\ Loop /\ UNCHANGED <<manual, pc, used, history>>

\* join_all returns.
Joined ==
  /\ pc = "join" /\ running = {}
  /\ pc' = "rest"
  /\ Loop /\ UNCHANGED <<flags, used, tasks, history>>

\* The loop sleeps, longer when the restart was not the user's.
Rest ==
  /\ pc = "rest" /\ pc' = "top"
  /\ swallowed' = FALSE
  /\ Loop /\ UNCHANGED <<flags, used, tasks, told>>

Turn == ReadStop \/ ReadServers \/ ClearExit \/ Spawn \/ Joined \/ Rest

Next ==
  \/ Change \/ TellExit \/ TellManual \/ Turn
  \/ \E h \in Host : Fail(h) \/ Leave(h) \/ Finish(h)

Spec == Init /\ [][Next]_vars

\* The threads run and the timers tick; a mediator need not fail.
FairSpec ==
  /\ Spec
  /\ WF_vars(TellExit \/ TellManual) /\ WF_vars(Turn)
  /\ \A h \in Host : WF_vars(Leave(h)) /\ WF_vars(Finish(h))

-----------------------------------------------------------------------------
TypeOK ==
  /\ servers \subseteq Host /\ stopped \in BOOLEAN
  /\ shouldExit \in BOOLEAN /\ manual \in BOOLEAN
  /\ pc \in {"top", "servers", "clear", "spawn", "join", "rest"}
  /\ used \subseteq Host /\ running \subseteq used /\ ending \subseteq running
  /\ user \in {"idle", "changed", "told"} /\ changes \in 0..MaxChange
  /\ told \in BOOLEAN /\ swallowed \in BOOLEAN

Wanted == IF stopped THEN {} ELSE servers
UpToDate == used = Wanted
TakenUp == UpToDate \/ swallowed
AllOrNone == running \in {{}, used}

\* A change of the servers, or of stop-service, is taken up in the end, whatever
\* the mediators were doing, unless its restart fell between the reading of the
\* options and the clearing of SHOULD_EXIT.
ChangesAreTakenUp == []<>TakenUp

\* "once one exits, the others also exit", and the loop starts them all again.
OneEndsAllEnd == []<>AllOrNone
=============================================================================
