---------------------------- MODULE PrivacyMode ----------------------------
(***************************************************************************)
(* Privacy mode of a RustDesk host: one remote control at a time darkens   *)
(* the host's screens and blocks its input (privacy_mode.rs and the        *)
(* handlers of connection.rs).                                             *)
(*                                                                         *)
(* PRIVACY_MODE is one object behind one lock: an implementation and the   *)
(* connection it is on for.  An implementation that needs long is turned   *)
(* on by a thread, which keeps the lock while it works; its connection     *)
(* waits for it 7.5 s and goes on.  What a handler looks at under one lock *)
(* it uses under the next.                                                 *)
(***************************************************************************)
EXTENDS Naturals

CONSTANTS
    Conns,      \* remote controls of the host
    Impls,      \* implementations this host supports
    Slow,       \* those turned on by a thread of their own
    Tested,     \* those tried out once they are on (the magnifier)
    HostKeys,   \* somebody at the host may press Ctrl+P
    NoConn      \* INVALID_PRIVACY_MODE_CONN_ID

PrivacyAssumption ==
    Slow \subseteq Impls /\ Tested \subseteq Impls /\ NoConn \notin Conns

VARIABLES
    holder,     \* the connection privacy mode is on for
    impl,       \* the current implementation
    lock,       \* the connection whose thread holds PRIVACY_MODE
    conns,      \* where each connection is, what it asked for, its permission
    threads,    \* the threads turning privacy mode on: none, wanting, working
    told,       \* what each viewer was last told: on, off, ended by the host
    notices     \* connections the connection manager has news for

vars == <<holder, impl, lock, conns, threads, told, notices>>

Places == {"out", "login", "idle", "asking", "waiting", "checking", "erring",
           "offing", "ending", "leaving"}

TypeOK ==
    /\ holder \in Conns \cup {NoConn} /\ impl \in Impls /\ lock \in Conns \cup {NoConn}
    /\ conns \in [Conns -> [at : Places, want : Impls, permitted : BOOLEAN]]
    /\ threads \in [Conns -> {"none", "wants", "works"}]
    /\ told \in [Conns -> {"off", "on", "exit"}] /\ notices \subseteq Conns

Init ==
    /\ holder = NoConn /\ lock = NoConn /\ notices = {} /\ impl \in Impls
    /\ conns = [c \in Conns |-> [at |-> "out", want |-> impl, permitted |-> TRUE]]
    /\ threads = [c \in Conns |-> "none"]
    /\ told = [c \in Conns |-> "off"]

At(c, place) == conns[c].at = place
Goto(c, place) == conns' = [conns EXCEPT ![c].at = place]
Tell(c, on) == told' = [told EXCEPT ![c] = on]
Free == lock = NoConn

-----------------------------------------------------------------------------
(* Coming and going.                                                       *)

(* check_privacy_mode_on; the login goes on after it.                      *)
Login(c) ==
    /\ At(c, "out") /\ Free /\ holder = NoConn
    /\ threads[c] = "none"  \* the number of a connection is not used again
    /\ conns' = [conns EXCEPT ![c].at = "login", ![c].permitted = TRUE]
    /\ Tell(c, "off")
    /\ notices' = notices \ {c}
    /\ UNCHANGED <<holder, impl, lock, threads>>

Enter(c) ==
    /\ At(c, "login") /\ Goto(c, "idle")
    /\ UNCHANGED <<holder, impl, lock, threads, told, notices>>

(* The end of a connection looks for whom privacy mode is on, then ends it. *)
Close(c) ==
    /\ At(c, "idle") /\ Free
    /\ Goto(c, IF holder = c THEN "leaving" ELSE "out")
    /\ UNCHANGED <<holder, impl, lock, threads, told, notices>>

Leave(c) ==
    /\ At(c, "leaving") /\ Free
    /\ holder' = IF holder = c THEN NoConn ELSE holder
    /\ Goto(c, "out")
    /\ UNCHANGED <<impl, lock, threads, told, notices>>

-----------------------------------------------------------------------------
(* Turning on.                                                             *)

(* turn_on_privacy_sync: who holds it then, by which implementation, and   *)
(* the answer.  Another implementation starts with the old one cleared.    *)
Outcomes(c, want) ==
    IF holder = c /\ impl = want
        THEN {[holder |-> c, impl |-> impl, answer |-> "checking"]}
    ELSE IF holder \notin {c, NoConn}
        THEN {[holder |-> holder, impl |-> impl, answer |-> "erring"]}
    ELSE {[holder |-> c, impl |-> want, answer |-> "checking"]}
         \cup [holder : {NoConn}, impl : {want}, answer : {"erring", "idle"}]

AskOn(c, want) ==
    /\ At(c, "idle")
    /\ IF conns[c].permitted
       THEN /\ conns' = [conns EXCEPT ![c].at = "asking", ![c].want = want]
            /\ UNCHANGED told
       ELSE Tell(c, "off") /\ UNCHANGED conns
    /\ UNCHANGED <<holder, impl, lock, threads, notices>>

(* The answer is refused by the plugin ("idle"), an error or a success.    *)
TurnOn(c) ==
    /\ At(c, "asking") /\ Free /\ impl \notin Slow
    /\ \E o \in Outcomes(c, conns[c].want) :
        /\ holder' = o.holder /\ impl' = o.impl
        /\ Goto(c, o.answer)
        /\ told' = IF o.answer = "idle" THEN [told EXCEPT ![c] = "off"] ELSE told
    /\ UNCHANGED <<lock, threads, notices>>

(* turn_on_privacy_async.                                                  *)
StartThread(c) ==
    /\ At(c, "asking") /\ Free /\ impl \in Slow
    /\ threads' = [threads EXCEPT ![c] = "wants"]
    /\ Goto(c, "waiting")
    /\ UNCHANGED <<holder, impl, lock, told, notices>>

ThreadTakes(c) ==
    /\ threads[c] = "wants" /\ Free
    /\ lock' = c
    /\ threads' = [threads EXCEPT ![c] = "works"]
    /\ UNCHANGED <<holder, impl, conns, told, notices>>

(* The answer of a thread nobody waits for any more is dropped.            *)
ThreadEnds(c) ==
    /\ threads[c] = "works"
    /\ threads' = [threads EXCEPT ![c] = "none"]
    /\ lock' = NoConn
    /\ \E o \in Outcomes(c, conns[c].want) :
        /\ holder' = o.holder /\ impl' = o.impl
        /\ IF At(c, "waiting")
           THEN /\ Goto(c, o.answer)
                /\ told' = IF o.answer = "idle" THEN [told EXCEPT ![c] = "off"] ELSE told
           ELSE UNCHANGED <<conns, told>>
    /\ UNCHANGED notices

(* 7.5 s have passed: a thread is working, this one's or another's.        *)
Timeout(c) ==
    /\ At(c, "waiting") /\ ~Free
    /\ Goto(c, "erring")
    /\ UNCHANGED <<holder, impl, lock, threads, told, notices>>

(* check_privacy_mode_err: only the magnifier can fail it.                 *)
CheckPasses(c) ==
    /\ At(c, "checking") /\ Free
    /\ Goto(c, "idle") /\ Tell(c, "on")
    /\ UNCHANGED <<holder, impl, lock, threads, notices>>

CheckFails(c) ==
    /\ At(c, "checking") /\ Free /\ impl \in Tested
    /\ holder' = IF holder = c THEN NoConn ELSE holder
    /\ Goto(c, "idle") /\ Tell(c, "off")
    /\ UNCHANGED <<impl, lock, threads, notices>>

(* An error: whatever is on now is turned off, for any connection.         *)
LookAfterError(c) ==
    /\ At(c, "erring") /\ Free
    /\ IF holder = NoConn THEN Goto(c, "idle") /\ Tell(c, "off")
       ELSE Goto(c, "offing") /\ UNCHANGED told
    /\ UNCHANGED <<holder, impl, lock, threads, notices>>

TurnOffAfterError(c) ==
    /\ At(c, "offing") /\ Free
    /\ holder' = NoConn
    /\ Goto(c, "idle") /\ Tell(c, "off")
    /\ UNCHANGED <<impl, lock, threads, notices>>

-----------------------------------------------------------------------------
(* Turning off.                                                            *)

(* turn_off_privacy of a viewer; another's privacy mode is refused.        *)
AskOff(c) ==
    /\ At(c, "idle") /\ Free
    /\ IF holder \in {c, NoConn}
       THEN holder' = NoConn /\ Tell(c, "off")
       ELSE UNCHANGED <<holder, told>>
    /\ UNCHANGED <<impl, lock, conns, threads, notices>>

(* The permission is given or taken in the connection manager.             *)
Permit(c) ==
    /\ At(c, "idle") /\ ~conns[c].permitted
    /\ conns' = [conns EXCEPT ![c].permitted = TRUE]
    /\ UNCHANGED <<holder, impl, lock, threads, told, notices>>

Revoke(c) ==
    /\ At(c, "idle") /\ Free /\ conns[c].permitted
    /\ conns' = [conns EXCEPT ![c].permitted = FALSE]
    /\ holder' = IF holder = c THEN NoConn ELSE holder
    /\ Tell(c, IF holder = c THEN "exit" ELSE told[c])
    /\ UNCHANGED <<impl, lock, threads, notices>>

(* Ctrl+P at the host; every connection hears of it from the connection    *)
(* manager.                                                                *)
PressCtrlP ==
    /\ HostKeys /\ Free /\ holder # NoConn
    /\ holder' = NoConn
    /\ notices' = {c \in Conns : ~At(c, "out")}
    /\ UNCHANGED <<impl, lock, conns, threads, told>>

Notice(c) ==
    /\ c \in notices /\ At(c, "idle")
    /\ notices' = notices \ {c}
    /\ Tell(c, "exit")
    /\ UNCHANGED <<holder, impl, lock, conns, threads>>

Next ==
    \/ \E c \in Conns :
        \/ Login(c) \/ Enter(c) \/ Close(c) \/ Leave(c)
        \/ \E want \in Impls : AskOn(c, want)
        \/ TurnOn(c) \/ StartThread(c) \/ ThreadTakes(c) \/ ThreadEnds(c) \/ Timeout(c)
        \/ CheckPasses(c) \/ CheckFails(c) \/ LookAfterError(c) \/ TurnOffAfterError(c)
        \/ AskOff(c) \/ Permit(c) \/ Revoke(c) \/ Notice(c)
    \/ PressCtrlP

Spec == Init /\ [][Next]_vars

-----------------------------------------------------------------------------
(* Properties.                                                             *)

(* Privacy mode is on for a connection that is there to end it: a host     *)
(* left dark for one that is gone refuses every remote control.            *)
HolderIsConnected == holder # NoConn => ~At(holder, "out")

(* A viewer whose privacy mode is on was not answered that it is off: a    *)
(* request that timed out while its thread works ends with it off.  (News  *)
(* of an earlier Ctrl+P, "exit", may still come late.)                     *)
HolderIsTold ==
    holder # NoConn /\ At(holder, "idle") /\ threads[holder] = "none"
        => told[holder] # "off"

(* The message of TURN_OFF_OTHER_ID: nobody but its viewer and the people  *)
(* at the host turns off a privacy mode that belongs to somebody.          *)
NobodyElseTurnsOff ==
    [][\A c, d \in Conns :
        c # d /\ holder = d /\ At(d, "idle") /\ conns'[c] # conns[c] => holder' = d]_vars
=============================================================================
