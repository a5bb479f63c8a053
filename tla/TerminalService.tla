--------------------------- MODULE TerminalService ---------------------------
(***************************************************************************)
(* The terminals of a host (server/terminal_service.rs).  A service is     *)
(* found by the id its client keeps, so a client that reconnects finds the *)
(* terminals of its last connection.  Every connection runs a thread of    *)
(* its own that drains the output of the service's terminals, for its      *)
(* client; when the connection is dropped, the thread ends and removes the *)
(* service unless it is persistent, in two steps.                          *)
(*                                                                         *)
(* One service id, connections made one after the other by its client.     *)
(* The output of a terminal is numbered in the order its channel took it:  *)
(* 1..seen is in the output buffer, the rest of 1..made in the channel.    *)
(***************************************************************************)
EXTENDS Naturals, Sequences, FiniteSets

CONSTANTS Conns,      \* 1..n, in the order they are made
          Terms,      \* terminal ids
          Capacity,   \* CHANNEL_BUFFER_SIZE, in chunks
          Replay,     \* DEFAULT_RECONNECT_BUFFER_BYTES, in chunks
          Overlap,    \* a client reconnects before the host noticed it had left
          Options,    \* what a client may ask: persistent or not
          MaxOutput   \* bound: chunks of one terminal

TerminalAssumption ==
    /\ Conns \subseteq Nat \ {0} /\ Terms \subseteq Nat \ {0}
    /\ Capacity \in Nat \ {0} /\ Replay \in Nat \ {0}
    /\ Overlap \in BOOLEAN /\ Options \subseteq BOOLEAN /\ MaxOutput \in Nat

VARIABLES service,    \* <<>> or the registered service
          sessions,   \* its terminals
          link,       \* none, up, lost (not noticed by the host), gone
          thread,     \* none, run, remove, done
          got,        \* the output each connection's client received, by terminal
          told        \* terminals each connection's client was told of

vars == <<service, sessions, link, thread, got, told>>

NewSession == [active |-> TRUE, made |-> 0, seen |-> 0, replay |-> 0,
               running |-> TRUE, closedSent |-> FALSE]

Upto(a, b) == [i \in 1..(b - a) |-> a + i]      \* a+1, ..., b

Init ==
    /\ service = <<>>
    /\ sessions = <<>>
    /\ link = [c \in Conns |-> "none"]
    /\ thread = [c \in Conns |-> "none"]
    /\ got = [c \in Conns |-> [t \in Terms |-> <<>>]]
    /\ told = [c \in Conns |-> {}]

Open == DOMAIN sessions
Live(c) == link[c] = "up"

(* A client connects anew: init_terminal_service, get_or_create_service *)
Connect(c) ==
    /\ link[c] = "none"
    /\ \A d \in Conns : d < c => IF Overlap THEN link[d] \in {"lost", "gone"}
                                 ELSE thread[d] = "done"
    /\ \E persistent \in Options :
          service' = <<[persistent |-> persistent, sync |-> TRUE]>>
    /\ sessions' = [t \in Open |-> [sessions[t] EXCEPT !.active = FALSE]]
    /\ link' = [link EXCEPT ![c] = "up"]
    /\ thread' = [thread EXCEPT ![c] = "run"]
    /\ UNCHANGED <<got, told>>

(* The terminals of the service as OpenTerminal finds them: the lowest one *)
(* takes the asked id when there is none under it after a reconnection.    *)
Found(t) ==
    IF t \in Open \/ ~service[1].sync \/ Open = {} THEN sessions
    ELSE LET low == CHOOSE u \in Open : \A v \in Open : u <= v
         IN  [u \in (Open \ {low}) \union {t} |-> sessions[IF u = t THEN low ELSE u]]

(* handle_open: an existing terminal replays, another is started *)
OpenTerminal(c, t) ==
    /\ Live(c) /\ service # <<>>
    /\ LET found == Found(t)
           s == found[t]
       IN  IF t \in DOMAIN found
           THEN /\ sessions' = [found EXCEPT ![t].active = TRUE, ![t].seen = s.made,
                                  ![t].replay = IF s.made < Replay THEN s.made ELSE Replay]
                /\ told' = [told EXCEPT ![c] = @ \union {t} \union
                              IF service[1].sync THEN DOMAIN found ELSE {}]
           ELSE /\ sessions' = [u \in DOMAIN found \union {t} |->
                                  IF u = t THEN NewSession ELSE found[u]]
                /\ told' = [told EXCEPT ![c] = @ \union {t}]
    /\ service' = [service EXCEPT ![1].sync = FALSE]
    /\ got' = [got EXCEPT ![c][t] = <<>>]
    /\ UNCHANGED <<link, thread>>

(* handle_close *)
CloseTerminal(c, t) ==
    /\ Live(c) /\ service # <<>> /\ t \in Open
    /\ sessions' = [u \in Open \ {t} |-> sessions[u]]
    /\ UNCHANGED <<service, link, thread, got, told>>

(* update_terminal_persistence *)
SetPersistent(c, persistent) ==
    /\ Live(c) /\ service # <<>>
    /\ persistent \in Options
    /\ service' = [service EXCEPT ![1].persistent = persistent]
    /\ UNCHANGED <<sessions, link, thread, got, told>>

(* The shell writes: the reader thread sends to the channel or drops *)
Output(t) ==
    /\ t \in Open
    /\ sessions[t].running /\ sessions[t].made < MaxOutput
    /\ sessions[t].made - sessions[t].seen < Capacity
    /\ sessions' = [sessions EXCEPT ![t].made = @ + 1]
    /\ UNCHANGED <<service, link, thread, got, told>>

(* The shell exits *)
Exit(t) ==
    /\ t \in Open /\ sessions[t].running
    /\ sessions' = [sessions EXCEPT ![t].running = FALSE]
    /\ UNCHANGED <<service, link, thread, got, told>>

(* Mutant: the replay stays pending after it was sent. *)
ReadReplaysAgain(c, t) ==
    /\ thread[c] = "run"
    /\ service # <<>> /\ t \in Open
    /\ LET s == sessions[t]
           sent == IF s.active THEN Upto(s.seen - s.replay, s.seen) \o Upto(s.seen, s.made)
                   ELSE <<>>
       IN  /\ s.made > s.seen \/ ~s.running
           /\ got' = IF Live(c) THEN [got EXCEPT ![c][t] = @ \o sent] ELSE got
           /\ sessions' = IF s.running
                          THEN [sessions EXCEPT ![t].seen = s.made]
                          ELSE [u \in Open \ {t} |-> sessions[u]]
    /\ UNCHANGED <<service, link, thread, told>>

(* read_outputs, for one terminal: what was replayed and read is sent to   *)
(* the thread's own connection; a terminal whose shell exited is removed.  *)
ReadOutputs(c, t) ==
    /\ thread[c] = "run"
    /\ service # <<>> /\ t \in Open
    /\ LET s == sessions[t]
           sent == IF s.active THEN Upto(s.seen - s.replay, s.seen) \o Upto(s.seen, s.made)
                   ELSE <<>>
       IN  /\ s.made > s.seen \/ (s.active /\ s.replay > 0) \/ ~s.running
           /\ got' = IF Live(c) THEN [got EXCEPT ![c][t] = @ \o sent] ELSE got
           /\ sessions' = IF s.running
                          THEN [sessions EXCEPT ![t].seen = s.made,
                                  ![t].replay = IF s.active THEN 0 ELSE @]
                          ELSE [u \in Open \ {t} |-> sessions[u]]
    /\ UNCHANGED <<service, link, thread, told>>

(* The client leaves; the host notices later, when a timeout ends the connection *)
Leave(c) ==
    /\ Live(c)
    /\ link' = [link EXCEPT ![c] = "lost"]
    /\ UNCHANGED <<service, sessions, thread, got, told>>

(* Connection::drop: the service's thread is told to end *)
Drop(c) ==
    /\ link[c] = "lost"
    /\ link' = [link EXCEPT ![c] = "gone"]
    /\ UNCHANGED <<service, sessions, thread, got, told>>

(* The thread leaves its loop and looks whether the service is persistent *)
ThreadLeaves(c) ==
    /\ thread[c] = "run" /\ link[c] = "gone"
    /\ thread' = [thread EXCEPT ![c] =
                    IF service # <<>> /\ ~service[1].persistent THEN "remove" ELSE "done"]
    /\ UNCHANGED <<service, sessions, link, got, told>>

(* remove_service: whatever is registered under the id by now *)
ThreadRemoves(c) ==
    /\ thread[c] = "remove"
    /\ thread' = [thread EXCEPT ![c] = "done"]
    /\ service' = <<>>
    /\ sessions' = <<>>
    /\ UNCHANGED <<link, got, told>>

Next ==
    \/ \E c \in Conns :
         \/ Connect(c) \/ Leave(c) \/ Drop(c) \/ ThreadLeaves(c) \/ ThreadRemoves(c)
         \/ \E p \in BOOLEAN : SetPersistent(c, p)
         \/ \E t \in Terms : OpenTerminal(c, t) \/ CloseTerminal(c, t) \/ ReadOutputs(c, t)
    \/ \E t \in Terms : Output(t) \/ Exit(t)

Spec == Init /\ [][Next]_vars

(* The threads go on, and the host notices in the end who has left *)
FairSpec ==
    /\ Spec
    /\ \A c \in Conns :
         /\ WF_vars(Drop(c)) /\ WF_vars(ThreadLeaves(c)) /\ WF_vars(ThreadRemoves(c))
         /\ \A t \in Terms : WF_vars(ReadOutputs(c, t))

-----------------------------------------------------------------------------
(* The shape of the state: a registered service, its terminals, who is     *)
(* connected and what was received.                                        *)
TypeOK ==
    /\ service = <<>> \/ service[1] \in [persistent : BOOLEAN, sync : BOOLEAN]
    /\ Open \subseteq Terms
    /\ service = <<>> => Open = {}
    /\ \A t \in Open : sessions[t].seen <= sessions[t].made
                       /\ sessions[t].replay <= sessions[t].seen
    /\ link \in [Conns -> {"none", "up", "lost", "gone"}]
    /\ thread \in [Conns -> {"none", "run", "remove", "done"}]

(* What a client receives of a terminal is a run of its output without a   *)
(* gap, a repetition or a change of order, from what was replayed on       *)
(* ("When Active: data is sent to client").                                *)
NoGaps ==
    \A c \in Conns, t \in Terms : \A i \in 1..(Len(got[c][t]) - 1) :
        got[c][t][i + 1] = got[c][t][i] + 1

(* A client that is connected and opened a terminal has been told of every *)
(* terminal of its service, so that none goes on unseen (persistent_sessions). *)
NoneUnseen ==
    \A c \in Conns :
        (Live(c) /\ service # <<>> /\ ~service[1].sync /\ \A d \in Conns : Live(d) => d = c)
            => Open \subseteq told[c]

(* A persistent service survives the connections: no thread of a           *)
(* connection that ended removes it ("Persistent terminal service that can *)
(* survive connection drops").                                             *)
PersistentSurvives ==
    service # <<>> /\ service[1].persistent => service' # <<>>

(* A terminal whose shell has exited is removed and its client told, while *)
(* a client is connected (closed_message_sent).                            *)
Unnoticed(c, t) == Live(c) /\ t \in Open /\ ~sessions[t].running
ExitIsNoticed ==
    \A c \in Conns, t \in Terms : []<>~Unnoticed(c, t)
=============================================================================
