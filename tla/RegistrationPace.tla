-------------------------- MODULE RegistrationPace --------------------------
(***************************************************************************)
(* hbbs: how often one id may register its key, and the report of ids that *)
(* change address (rustdesk-server/src/rendezvous_server.rs, the second    *)
(* half of handle_register_pk, and the administrator's ip-changes).        *)
(*                                                                         *)
(* A registration over UDP is handled in the main loop, one over TCP or a  *)
(* web socket in a task of its own.  reg_pk is copied under one lock and   *)
(* written back under another.  One id, its uuid and key already accepted; *)
(* the limit by address is IpBlocker and the stored row is PeerRegistry.   *)
(* The id's record is in memory, and no lookup that missed it is still     *)
(* reading its row: PeerMap::get would then put a new record in its place, *)
(* with a reg_pk that starts again, and the count of the old one be lost.  *)
(* Time is in seconds.                                                     *)
(***************************************************************************)
EXTENDS Naturals, FiniteSets

CONSTANTS
  Ip, Task,
  Burst,     \* 3 in the code, which compares with 2
  Pace,      \* 6 s in the code
  Duration,  \* IP_CHANGE_DUR, 180 s in the code
  MaxStreak  \* bound: registrations accepted in one streak

PaceAssumption ==
  Burst \in Nat \ {0} /\ Pace \in Nat \ {0} /\ Duration \in Nat \ {0} /\ MaxStreak \in Nat

VARIABLES
  at,         \* peer.info.ip
  reg,        \* peer.reg_pk: the count and the age of its Instant
  changes,    \* the id's entry of IP_CHANGES: {} when there is none
  changesAge, \* the age of its Instant
  task,       \* the registration that each task handles
  streak,     \* history: accepted so far, each within Pace of the one before
  quiet,      \* history: since one was accepted
  moved       \* history: since one from this address was counted as a change

code == <<at, reg, changes, changesAge, task>>
history == <<streak, quiet, moved>>
vars == <<code, history>>

Long == 2 * Duration + 1
Older(n, limit) == IF n < limit THEN n + 1 ELSE limit

Idle == [pc |-> "idle", from |-> CHOOSE p \in Ip : TRUE, ws |-> FALSE,
         changed |-> FALSE, count |-> 0]

Tasks == [pc : {"idle", "read", "write", "note", "apply"}, from : Ip, ws : BOOLEAN,
          changed : BOOLEAN, count : 0..Burst]

Init ==
  /\ at \in Ip
  /\ reg = [count |-> 0, age |-> Pace + 1]
  /\ changes = {}
  /\ changesAge = 0
  /\ task = [t \in Task |-> Idle]
  /\ streak = 0
  /\ quiet = Pace + 1
  /\ moved = [p \in Ip |-> Long]

\* A request arrives; whether its address is new is decided under the read lock.
Check(t, p, ws) ==
  /\ task[t].pc = "idle"
  /\ streak < MaxStreak
  /\ task' = [task EXCEPT ![t] = [pc |-> "read", from |-> p, ws |-> ws,
                                  changed |-> p # at, count |-> 0]]
  /\ UNCHANGED <<at, reg, changes, changesAge, history>>

\* The count a copy of reg_pk stands for.
Count(r) == IF r.age > Pace THEN 0 ELSE r.count

\* TOO_FREQUENT.
Refuse(t) ==
  /\ task[t].pc = "read"
  /\ Count(reg) >= Burst
  /\ task' = [task EXCEPT ![t] = Idle]
  /\ UNCHANGED <<at, reg, changes, changesAge, history>>

Read(t) ==
  /\ task[t].pc = "read"
  /\ Count(reg) < Burst
  /\ task' = [task EXCEPT ![t].pc = "write", ![t].count = Count(reg)]
  /\ UNCHANGED <<at, reg, changes, changesAge, history>>

\* Mutant: the count is not written back.
WriteTime(t) ==
  /\ task[t].pc = "write"
  /\ reg' = [reg EXCEPT !.age = 0]
  /\ task' = [task EXCEPT ![t].pc = IF task[t].changed THEN "note" ELSE "apply"]
  /\ streak' = IF quiet > Pace THEN 1 ELSE streak + 1
  /\ quiet' = 0
  /\ UNCHANGED <<at, changes, changesAge, moved>>

\* The copy goes back with one more and the time of now.
Write(t) ==
  /\ task[t].pc = "write"
  /\ reg' = [count |-> task[t].count + 1, age |-> 0]
  /\ task' = [task EXCEPT ![t].pc = IF task[t].changed THEN "note" ELSE "apply"]
  /\ streak' = IF quiet > Pace THEN 1 ELSE streak + 1
  /\ quiet' = 0
  /\ UNCHANGED <<at, changes, changesAge, moved>>

\* The address enters IP_CHANGES; an entry older than Duration starts again.
Note(t) ==
  LET again == changes = {} \/ changesAge > Duration IN
  /\ task[t].pc = "note"
  /\ changes' = IF again THEN {task[t].from} ELSE changes \cup {task[t].from}
  /\ changesAge' = IF again THEN 0 ELSE changesAge
  /\ moved' = [moved EXCEPT ![task[t].from] = 0]
  /\ task' = [task EXCEPT ![t].pc = "apply"]
  /\ UNCHANGED <<at, reg, streak, quiet>>

\* PeerMap::update_pk, for a change and for every web socket.
Apply(t) ==
  /\ task[t].pc = "apply"
  /\ at' = IF task[t].changed \/ task[t].ws THEN task[t].from ELSE at
  /\ task' = [task EXCEPT ![t] = Idle]
  /\ UNCHANGED <<reg, changes, changesAge, history>>

\* The ids that ip-changes reports: those that were seen at two new addresses.
Reported == Cardinality(changes) > 1 /\ changesAge < 2 * Duration

\* The command drops every entry that it does not report, and one that it does
\* when it is told to.
IpChanges(remove) ==
  /\ changes # {}
  /\ ~Reported \/ remove
  /\ changes' = {}
  /\ changesAge' = 0
  /\ UNCHANGED <<at, reg, task, history>>

Tick ==
  /\ reg' = [reg EXCEPT !.age = Older(@, Pace + 1)]
  /\ changesAge' = IF changes = {} THEN 0 ELSE Older(changesAge, Long)
  /\ quiet' = Older(quiet, Pace + 1)
  /\ streak' = IF quiet >= Pace THEN 0 ELSE streak
  /\ moved' = [p \in Ip |-> Older(moved[p], Long)]
  /\ UNCHANGED <<at, changes, task>>

Next ==
  \/ \E t \in Task :
       \/ \E p \in Ip, ws \in BOOLEAN : Check(t, p, ws)
       \/ Refuse(t) \/ Read(t) \/ Write(t) \/ Note(t) \/ Apply(t)
  \/ \E remove \in BOOLEAN : IpChanges(remove)
  \/ Tick

Spec == Init /\ [][Next]_vars

-----------------------------------------------------------------------------
\* The variables keep their types.
TypeOK ==
  /\ at \in Ip
  /\ reg \in [count : 0..Burst, age : 0..(Pace + 1)]
  /\ changes \subseteq Ip
  /\ changesAge \in 0..Long
  /\ task \in [Task -> Tasks]
  /\ streak \in Nat
  /\ quiet \in 0..(Pace + 1)
  /\ moved \in [Ip -> 0..Long]

\* In a streak, where each registration is accepted within Pace of the one
\* before, at most Burst are (the test of reg_pk).
StreakIsBounded == streak <= Burst

\* Copies written back late win the id further registrations, but a bounded
\* number of them: no two tasks get more than three times the limit of three.
OverrunIsBounded == streak <= 3 * Burst

\* A registration is refused only within Pace of one that was accepted, never
\* because of others that were refused: a host that keeps asking gets in.
RefusalsDoNotCount == \A t \in Task : Refuse(t) => quiet <= Pace

\* Whatever ip-changes reports happened within Duration: every address of the
\* entry was counted as a change since the entry was begun, and none later than
\* Duration after that.
ReportIsOfOnePeriod ==
  Reported => \A p \in changes : moved[p] <= changesAge /\ changesAge <= moved[p] + Duration
=============================================================================
