--------------------------- MODULE ClipboardLoop ---------------------------
(***************************************************************************)
(* The one clipboard loop a client process has for all its sessions        *)
(* (try_start_clipboard and try_stop_clipboard in client.rs,               *)
(* clipboard_listener in clipboard.rs, the rounds of a session's           *)
(* connection in ui_session_interface.rs and client/io_loop.rs).           *)
(*                                                                         *)
(* A session that is logged in starts the loop unless it runs; one that is *)
(* disconnected stops it unless another is connected.  Stopping takes      *)
(* several steps, and the loop's thread leaves in its own time.  The       *)
(* listener keeps one subscriber under the loop's name.                    *)
(***************************************************************************)
EXTENDS Naturals, FiniteSets

CONSTANTS
  Session,
  MaxRounds,  \* bound: connections of a session, one after another
  Thread,     \* the threads a loop can be
  Overlap,    \* what a new connection may meet: "none" of the one before, a "loop"
              \* that is leaving, or "any" of its steps
  Fails       \* whether the listener may fail

LoopAssumption ==
  MaxRounds \in Nat /\ Fails \in BOOLEAN /\ Overlap \in {"none", "loop", "any"}

VARIABLES
  round, state,  \* ConnectionRoundState of each session
  job,           \* each round's thread
  running,       \* CLIPBOARD_STATE.running
  loop,          \* the loop's threads: where they are, and whether they are told to stop
  subscriber     \* the thread the listener tells of changes

sessions == <<round, state>>
clipboard == <<running, loop, subscriber>>
vars == <<round, state, job, running, loop, subscriber>>

Nobody == "nobody"
Round == 1..MaxRounds
Away == [pc |-> "away", stop |-> FALSE]

Init ==
  /\ round = [s \in Session |-> 0]
  /\ state = [s \in Session |-> "connecting"]
  /\ job = [s \in Session |-> [r \in Round |-> "none"]]
  /\ running = FALSE
  /\ loop = [t \in Thread |-> Away]
  /\ subscriber = Nobody

At(s, r, pc) == job[s][r] = pc
Go(s, r, pc) == job' = [job EXCEPT ![s][r] = pc]

\* The subscriber, if there is one, finds that it is to stop.
Dropped == [t \in Thread |-> IF t = subscriber THEN [loop[t] EXCEPT !.stop = TRUE]
                             ELSE loop[t]]

Disconnecting ==
  \E s \in Session, r \in Round : job[s][r] \in {"over", "look", "unsubscribe", "clear"}
Leaving == \E t \in Thread : loop[t].pc # "away" /\ (loop[t].stop \/ loop[t].pc = "leave")

-----------------------------------------------------------------------------
(* A session.                                                              *)

\* The first connection, or reconnect(), which closes the one before.
Reconnect(s) ==
  /\ round[s] < MaxRounds
  /\ round[s] > 0 => state[s] # "connecting"
  /\ Overlap # "any" => \A r \in 1..round[s] : At(s, r, "done")
  /\ round' = [round EXCEPT ![s] = @ + 1]
  /\ state' = [state EXCEPT ![s] = "connecting"]
  /\ Go(s, round[s] + 1, "connect")
  /\ UNCHANGED clipboard

\* set_connected does not look at the round.
Connected(s, r) ==
  /\ At(s, r, "connect")
  /\ state' = [state EXCEPT ![s] = "connected"]
  /\ Go(s, r, "login")
  /\ UNCHANGED <<round, clipboard>>

\* PeerInfo: try_start_clipboard, under the lock of CLIPBOARD_STATE.
PeerInfo(s, r) ==
  /\ At(s, r, "login")
  /\ Overlap # "any" => ~Disconnecting
  /\ Overlap = "none" => ~Leaving
  /\ \/ running /\ UNCHANGED clipboard
     \/ /\ ~running
        /\ \E t \in Thread :
             /\ loop[t].pc = "away"
             /\ loop' = [Dropped EXCEPT ![t] = [pc |-> "look", stop |-> FALSE]]
             /\ subscriber' = t
        /\ running' = TRUE
  /\ Go(s, r, "ready")
  /\ UNCHANGED sessions

\* The connection fails, is lost, or is closed.
Over(s, r) ==
  /\ job[s][r] \in {"connect", "login", "ready"}
  /\ Go(s, r, "over")
  /\ UNCHANGED <<sessions, clipboard>>

\* set_disconnected: only the last round counts.
SetDisconnected(s, r) ==
  /\ At(s, r, "over")
  /\ \/ r < round[s] /\ Go(s, r, "done") /\ UNCHANGED state
     \/ /\ r = round[s]
        /\ state' = [state EXCEPT ![s] = "disconnected"]
        /\ Go(s, r, "look")
  /\ UNCHANGED <<round, clipboard>>

\* has_connected_sessions_running
AnyConnected == \E s \in Session : state[s] = "connected"

TryStop(s, r) ==
  /\ At(s, r, "look")
  /\ Go(s, r, IF AnyConnected THEN "done" ELSE "unsubscribe")
  /\ UNCHANGED <<sessions, clipboard>>

Unsubscribe(s, r) ==
  /\ At(s, r, "unsubscribe")
  /\ loop' = Dropped
  /\ subscriber' = Nobody
  /\ Go(s, r, "clear")
  /\ UNCHANGED <<sessions, running>>

StopRunning(s, r) ==
  /\ At(s, r, "clear")
  /\ running' = FALSE
  /\ Go(s, r, "done")
  /\ UNCHANGED <<sessions, loop, subscriber>>

-----------------------------------------------------------------------------
(* The loop.                                                               *)

LooksAtRunning(t) ==
  /\ loop[t].pc = "look"
  /\ loop' = [loop EXCEPT ![t].pc = IF running THEN "wait" ELSE "leave"]
  /\ UNCHANGED <<sessions, job, running, subscriber>>

\* Told to stop, or nothing in CLIPBOARD_INTERVAL.
WaitEnds(t) ==
  /\ loop[t].pc = "wait"
  /\ loop' = [loop EXCEPT ![t].pc = IF loop[t].stop THEN "leave" ELSE "look"]
  /\ UNCHANGED <<sessions, job, running, subscriber>>

\* The clipboard has changed: it is read, which may take a while, and sent.
Changes(t) ==
  /\ loop[t].pc = "wait" /\ subscriber = t /\ ~loop[t].stop
  /\ loop' = [loop EXCEPT ![t].pc = "work"]
  /\ UNCHANGED <<sessions, job, running, subscriber>>

Sent(t) ==
  /\ loop[t].pc = "work"
  /\ loop' = [loop EXCEPT ![t].pc = "look"]
  /\ UNCHANGED <<sessions, job, running, subscriber>>

Leaves(t) ==
  /\ loop[t].pc = "leave"
  /\ running' = FALSE
  /\ loop' = [loop EXCEPT ![t] = Away]
  /\ UNCHANGED <<sessions, job, subscriber>>

\* StopWithError, to every subscriber.
ListenerFails ==
  /\ Fails
  /\ \E t \in Thread : t = subscriber /\ loop[t].pc # "away" /\ ~loop[t].stop
  /\ loop' = Dropped
  /\ UNCHANGED <<sessions, job, running, subscriber>>

SessionStep(s, r) ==
  \/ Connected(s, r) \/ PeerInfo(s, r) \/ Over(s, r)
  \/ SetDisconnected(s, r) \/ TryStop(s, r) \/ Unsubscribe(s, r) \/ StopRunning(s, r)
LoopStep(t) ==
  LooksAtRunning(t) \/ WaitEnds(t) \/ Changes(t) \/ Sent(t) \/ Leaves(t)

Finished ==
  /\ \A s \in Session : round[s] = MaxRounds /\ \A r \in Round : At(s, r, "done")
  /\ \A t \in Thread : loop[t].pc = "away"
  /\ UNCHANGED vars

Next ==
  \/ \E s \in Session : Reconnect(s) \/ \E r \in Round : SessionStep(s, r)
  \/ \E t \in Thread : LoopStep(t)
  \/ ListenerFails
  \/ Finished

Spec == Init /\ [][Next]_vars

-----------------------------------------------------------------------------
(* Properties.                                                             *)

TypeOK ==
  /\ round \in [Session -> 0..MaxRounds]
  /\ state \in [Session -> {"connecting", "connected", "disconnected"}]
  /\ job \in [Session -> [Round -> {"none", "connect", "login", "ready", "over", "look",
                                    "unsubscribe", "clear", "done"}]]
  /\ running \in BOOLEAN
  /\ loop \in [Thread -> [pc : {"away", "look", "wait", "work", "leave"}, stop : BOOLEAN]]
  /\ subscriber \in Thread \cup {Nobody}

Ready(s) == round[s] > 0 /\ At(s, round[s], "ready")
Served ==
  /\ running
  /\ \E t \in Thread : t = subscriber /\ loop[t].pc # "away" /\ ~loop[t].stop

\* client.rs:964-967: the loop is shared by all sessions and ends after all of
\* them have.  While one is logged in, and nothing is being stopped, it runs.
ReadyIsServed == (\E s \in Session : Ready(s)) /\ ~Disconnecting /\ ~Leaving => Served

\* A copy is sent once: every loop but the one that subscribed last has been told to
\* stop, however the logins and the ends of the connections are interleaved.
OneListens == \A t \in Thread : loop[t].pc # "away" /\ ~loop[t].stop => t = subscriber

\* A session that has ended leaves no loop behind, and no subscription, whatever
\* the others' threads were doing.
AllOver == \A s \in Session, r \in Round : job[s][r] \in {"none", "over", "look",
                                               "unsubscribe", "clear", "done"}
Started == \E t \in Thread : loop[t].pc # "away"
CleanedUp == AllOver => ~Started /\ subscriber = Nobody
LoopEnds == []<>CleanedUp

\* Threads go on; connections and changes need not come.
FairSpec ==
  /\ Spec
  /\ \A s \in Session, r \in Round :
       WF_vars(SetDisconnected(s, r) \/ TryStop(s, r) \/ Unsubscribe(s, r)
               \/ StopRunning(s, r))
  /\ \A t \in Thread : WF_vars(LooksAtRunning(t) \/ WaitEnds(t) \/ Sent(t) \/ Leaves(t))

=============================================================================
