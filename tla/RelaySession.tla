---------------------------- MODULE RelaySession ----------------------------
(***************************************************************************)
(* hbbr: the life of one relay, from accept to the end of relay(), while   *)
(* an administrator edits BLOCKLIST and BLACKLIST through check_cmd        *)
(* (rustdesk-server/src/relay_server.rs).                                  *)
(*                                                                         *)
(* relay() selects over its two streams and a timer.  A chunk is throttled *)
(* and sent on before the loop turns again, so neither the timer nor the   *)
(* lists are looked at while a send is stuck.                              *)
(*                                                                         *)
(* The code measures in milliseconds; a tick of this clock is some part of *)
(* a second, so that a turn of the loop may come less than a second after  *)
(* a check and be passed over by the gate n >= 1_000.                      *)
(***************************************************************************)
EXTENDS Naturals

CONSTANTS
  Ip,          \* the addresses the lists may name, as strings
  Canonical,   \* the client's address as handle_connection writes it
  Mapped,      \* the same address written as IPv4-mapped IPv6
  Second,      \* ticks of this clock in one second, 1_000 in the code
  IdleLimit,   \* 30 s in the code; this and all below are in ticks
  Period,      \* of relay()'s timer, 3 s in the code
  StartCheck,  \* DOWNGRADE_START_CHECK
  Threshold,   \* downgrade threshold, in chunks per tick
  MaxTotal,    \* bound: chunks relayed
  MaxLife      \* bound: ticks observed

ASSUME IpAssumption == Canonical \in Ip /\ Mapped \in Ip
ASSUME TimeAssumption ==
  /\ Second \in Nat \ {0} /\ Period \in Nat \ {0}
  /\ IdleLimit \in Nat /\ StartCheck \in Nat
  /\ Threshold \in Nat /\ MaxTotal \in Nat /\ MaxLife \in Nat

VARIABLES
  seenAs,      \* how relay() writes the address: Mapped on a dual-stack socket
  blocklist, blacklist,
  phase,       \* "new", "select", "sending" or "over"
  why,         \* what ended the session
  idle,        \* since last_recv_time
  sinceTick,   \* since the timer's last tick fell due
  sinceCheck,  \* since tm
  elapsed, total, blacked, downgrade,
  life,        \* history: ticks since relay() began
  blockedFor,  \* history: ticks for which seenAs has been on the blocklist
  blackFor     \* history: and on the blacklist

lists == <<blocklist, blacklist>>
session == <<elapsed, total, blacked, downgrade>>
clocks == <<idle, sinceTick, sinceCheck, life>>
history == <<blockedFor, blackFor>>
vars == <<seenAs, lists, phase, why, clocks, session, history>>

Init ==
  /\ seenAs \in {Canonical, Mapped}
  /\ blocklist = {} /\ blacklist = {}
  /\ phase = "new" /\ why = "none"
  /\ idle = 0 /\ sinceCheck = 0 /\ life = 0
  /\ sinceTick = Period  \* an interval's first tick is due at once
  /\ elapsed = 0 /\ total = 0 /\ blacked = FALSE /\ downgrade = FALSE
  /\ blockedFor = 0 /\ blackFor = 0

Over(reason) == phase' = "over" /\ why' = reason

-----------------------------------------------------------------------------
\* handle_connection, then make_pair_ hands the paired streams to relay().
Accept ==
  /\ phase = "new"
  /\ IF Canonical \in blocklist
     THEN Over("refused")
     ELSE phase' = "select" /\ UNCHANGED why
  /\ UNCHANGED <<seenAs, lists, clocks, session, history>>

\* check_cmd: blocklist-add, blocklist-remove <ip> and blocklist-remove all; the
\* same for the blacklist.
Edits(list) == {list \cup {i} : i \in Ip} \cup {list \ {i} : i \in Ip} \cup {{}}

EditBlocklist ==
  /\ blocklist' \in Edits(blocklist) \ {blocklist}
  /\ blockedFor' = IF seenAs \in blocklist' THEN blockedFor ELSE 0
  /\ UNCHANGED <<seenAs, blacklist, phase, why, clocks, session, blackFor>>

EditBlacklist ==
  /\ blacklist' \in Edits(blacklist) \ {blacklist}
  /\ blackFor' = IF seenAs \in blacklist' THEN blackFor ELSE 0
  /\ UNCHANGED <<seenAs, blocklist, phase, why, clocks, session, blockedFor>>

\* Mutant: the blocklist is read for the next round only.
SettleLate ==
  IF sinceCheck < Second
  THEN phase' = "select" /\ UNCHANGED <<why, sinceCheck, elapsed, blacked, downgrade>>
  ELSE /\ phase' = "select" /\ UNCHANGED why
       /\ blacked' = (seenAs \in blacklist)
       /\ elapsed' = elapsed + sinceCheck
       /\ sinceCheck' = 0
       /\ downgrade' = (downgrade \/ (elapsed' > StartCheck /\ total > elapsed' * Threshold))

\* Mutant: the clock is restarted without adding what it showed.
SettleLosesTime ==
  IF sinceCheck < Second
  THEN phase' = "select" /\ UNCHANGED <<why, sinceCheck, elapsed, blacked, downgrade>>
  ELSE IF seenAs \in blocklist
  THEN Over("blocked") /\ UNCHANGED <<sinceCheck, elapsed, blacked, downgrade>>
  ELSE /\ phase' = "select" /\ UNCHANGED why
       /\ blacked' = (seenAs \in blacklist)
       /\ elapsed' = elapsed + 1
       /\ sinceCheck' = 0
       /\ downgrade' = (downgrade \/ (elapsed' > StartCheck /\ total > elapsed' * Threshold))

\* The end of a turn of the loop: unless they were less than a second ago, the
\* lists are read again and the traffic is weighed.
Settle ==
  IF sinceCheck < Second
  THEN phase' = "select" /\ UNCHANGED <<why, sinceCheck, elapsed, blacked, downgrade>>
  ELSE IF seenAs \in blocklist
  THEN Over("blocked") /\ UNCHANGED <<sinceCheck, elapsed, blacked, downgrade>>
  ELSE /\ phase' = "select" /\ UNCHANGED why
       /\ blacked' = (seenAs \in blacklist)
       /\ elapsed' = elapsed + sinceCheck
       /\ sinceCheck' = 0
       /\ downgrade' = (downgrade \/ (elapsed' > StartCheck /\ total > elapsed' * Threshold))

\* A chunk arrives on either stream; it waits for the limiters and the send.
Recv ==
  /\ phase = "select" /\ total < MaxTotal
  /\ phase' = "sending" /\ idle' = 0 /\ total' = total + 1
  /\ UNCHANGED <<seenAs, lists, why, sinceTick, sinceCheck, life, elapsed, blacked,
                 downgrade, history>>

Sent ==
  /\ phase = "sending"
  /\ Settle
  /\ UNCHANGED <<seenAs, lists, idle, sinceTick, life, total, history>>

\* A stream ends, or a send fails.
Close ==
  /\ phase \in {"select", "sending"}
  /\ Over("closed")
  /\ UNCHANGED <<seenAs, lists, clocks, session, history>>

\* Mutant: a tick always finds the session alive.
TickNoTimeout ==
  /\ phase = "select" /\ sinceTick >= Period
  /\ sinceTick' = sinceTick - Period
  /\ Settle
  /\ UNCHANGED <<seenAs, lists, idle, life, total, history>>

\* The timer; ticks missed during a send fall due one after the other.
TimerTick ==
  /\ phase = "select" /\ sinceTick >= Period
  /\ sinceTick' = sinceTick - Period
  /\ IF idle >= IdleLimit + Second  \* as_secs() > 30
     THEN Over("timeout") /\ UNCHANGED <<sinceCheck, elapsed, blacked, downgrade>>
     ELSE Settle
  /\ UNCHANGED <<seenAs, lists, idle, life, total, history>>

\* A tick passes.  The runtime wakes a selecting task when its timer is due.
Pass ==
  /\ phase \in {"select", "sending"} /\ life < MaxLife
  /\ phase = "select" => sinceTick < Period
  /\ idle' = idle + 1 /\ sinceTick' = sinceTick + 1
  /\ sinceCheck' = sinceCheck + 1 /\ life' = life + 1
  /\ blockedFor' = IF seenAs \in blocklist THEN blockedFor + 1 ELSE 0
  /\ blackFor' = IF seenAs \in blacklist THEN blackFor + 1 ELSE 0
  /\ UNCHANGED <<seenAs, lists, phase, why, session>>

Next ==
  \/ Accept \/ EditBlocklist \/ EditBlacklist
  \/ Recv \/ Sent \/ Close \/ TimerTick \/ Pass

Spec == Init /\ [][Next]_vars

-----------------------------------------------------------------------------
TypeOK ==
  /\ seenAs \in {Canonical, Mapped}
  /\ blocklist \subseteq Ip /\ blacklist \subseteq Ip
  /\ phase \in {"new", "select", "sending", "over"}
  /\ why \in {"none", "refused", "closed", "timeout", "blocked"}
  /\ {idle, sinceTick, sinceCheck, elapsed, total, life, blockedFor, blackFor} \subseteq Nat
  /\ blacked \in BOOLEAN /\ downgrade \in BOOLEAN

\* A relay that is not stuck in a send is silent for less than the idle limit, the
\* second by which as_secs() rounds down and one period of the timer that looks
\* for it, unless the timer is behind (as after a send that was stuck for longer).
SilenceIsBounded ==
  phase = "select" /\ sinceTick <= Period => idle < IdleLimit + Second + Period

\* An address put on the blocklist, in the form relay() writes it, is relayed for
\* less than one timer period and one second; on the blacklist, it is throttled by
\* then.  The second is the gate's: a tick that comes less than a second after a
\* chunk's check looks at nothing.  A stuck send delays both until it returns.
ListsTakeEffect ==
  phase = "select" =>
    /\ blockedFor < Period + Second
    /\ blackFor >= Period + Second => blacked

\* A relay is downgraded for good, and only when its average rate over its whole
\* life exceeded the threshold: no second is lost between two checks.
DowngradeIsEarned ==
  [][/\ downgrade => downgrade'
     /\ downgrade' /\ ~downgrade =>
          life > StartCheck /\ total > Threshold * life]_vars
=============================================================================
