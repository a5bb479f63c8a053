------------------------ MODULE RelaySession_proofs ------------------------
(***************************************************************************)
(* Proofs about RelaySession, for all limits, periods and thresholds.      *)
(*                                                                         *)
(* What a check may have missed is bounded by the time since that check:   *)
(* each history counter is compared with the clock that the code restarts  *)
(* where it looks, and the clocks with each other.                         *)
(***************************************************************************)
EXTENDS RelaySession, TLAPS

\* The lists' counters run only while the address is listed, ...
Listed ==
  /\ seenAs \notin blocklist => blockedFor = 0
  /\ seenAs \notin blacklist => blackFor = 0

\* ... what was put on a list before the last check has taken effect, ...
Effective ==
  /\ blockedFor <= sinceCheck
  /\ blackFor > sinceCheck => blacked

\* ... the last check is less than a second older than the timer's last tick, and no
\* time is lost between two checks.
Clocked ==
  /\ phase # "over" =>
       /\ sinceCheck < sinceTick + Second
       /\ idle < IdleLimit + Second + sinceTick
  /\ phase = "select" => sinceCheck < Period + Second
  /\ phase = "new" => sinceCheck = 0 /\ idle = 0
  /\ elapsed + sinceCheck = life

IInv == TypeOK /\ Listed /\ Effective /\ Clocked

-----------------------------------------------------------------------------
LEMMA TypeInit == Init => TypeOK
<1> SUFFICES ASSUME Init PROVE TypeOK
  OBVIOUS
<1>1. {idle, sinceTick, sinceCheck, elapsed, total, life, blockedFor, blackFor} \subseteq Nat
  BY TimeAssumption DEF Init
<1> QED
  BY <1>1 DEF Init, TypeOK

LEMMA TypeStep == TypeOK /\ [Next]_vars => TypeOK'
<1> SUFFICES ASSUME TypeOK, [Next]_vars PROVE TypeOK'
  OBVIOUS
<1> USE IpAssumption, TimeAssumption DEF TypeOK, lists, session, clocks, history, Over
<1>1. CASE Accept
  BY <1>1 DEF Accept
<1>2. CASE EditBlocklist
  <2>1. blocklist' \subseteq Ip
    BY <1>2 DEF EditBlocklist, Edits
  <2> QED BY <1>2, <2>1 DEF EditBlocklist
<1>3. CASE EditBlacklist
  <2>1. blacklist' \subseteq Ip
    BY <1>3 DEF EditBlacklist, Edits
  <2> QED BY <1>3, <2>1 DEF EditBlacklist
<1>4. CASE Recv
  BY <1>4 DEF Recv
<1>a. ASSUME Settle
      PROVE  /\ phase' \in {"select", "over"} /\ why' \in {why, "blocked"}
             /\ sinceCheck' \in Nat /\ elapsed' \in Nat
             /\ blacked' \in BOOLEAN /\ downgrade' \in BOOLEAN
  <2>1. CASE sinceCheck < Second \/ seenAs \in blocklist
    BY <1>a, <2>1 DEF Settle
  <2>2. CASE ~(sinceCheck < Second) /\ seenAs \notin blocklist
    <3>1. phase' = "select" /\ why' = why /\ sinceCheck' = 0 /\ elapsed' = elapsed + sinceCheck
      BY <1>a, <2>2 DEF Settle
    <3>2. /\ blacked' = (seenAs \in blacklist)
          /\ downgrade' = (downgrade \/ (elapsed' > StartCheck /\ total > elapsed' * Threshold))
      BY <1>a, <2>2, Zenon DEF Settle
    <3>3. blacked' \in BOOLEAN
      BY <3>2, SMT
    <3>4. downgrade' \in BOOLEAN
      BY <3>2, SMT
    <3> QED BY <3>1, <3>3, <3>4
  <2> QED BY <2>1, <2>2
<1>5. CASE Sent
  BY <1>5, <1>a DEF Sent
<1>6. CASE Close
  BY <1>6 DEF Close
<1>7. CASE TimerTick
  <2>1. sinceTick' \in Nat
    BY <1>7 DEF TimerTick
  <2>2. CASE idle >= IdleLimit + Second
    BY <1>7, <2>1, <2>2 DEF TimerTick
  <2>3. CASE ~(idle >= IdleLimit + Second)
    BY <1>7, <1>a, <2>1, <2>3 DEF TimerTick
  <2> QED BY <2>2, <2>3
<1>8. CASE Pass
  BY <1>8 DEF Pass
<1>9. CASE UNCHANGED vars
  BY <1>9 DEF vars
<1> QED
  BY <1>1, <1>2, <1>3, <1>4, <1>5, <1>6, <1>7, <1>8, <1>9 DEF Next

LEMMA InvInit == Init => IInv
  BY TypeInit, TimeAssumption DEF Init, IInv, TypeOK, Listed, Effective, Clocked

\* A turn of the loop that ends in another one has looked at both lists, or did so
\* less than a second ago.
LEMMA SettleLooks ==
  ASSUME IInv, Settle, UNCHANGED <<seenAs, lists, life, history>>, phase # "over"
  PROVE  /\ Effective'
         /\ phase' = "select" => sinceCheck' < Second
         /\ elapsed' + sinceCheck' = life'
         /\ phase' \in {"select", "over"}
<1> USE TimeAssumption DEF IInv, TypeOK, Listed, Effective, Clocked, lists, history
<1>1. CASE sinceCheck < Second
  <2>1. phase' = "select" /\ UNCHANGED <<sinceCheck, elapsed, blacked>>
    BY <1>1, Zenon DEF Settle
  <2> QED BY <1>1, <2>1
<1>2. CASE ~(sinceCheck < Second) /\ seenAs \in blocklist
  <2>1. phase' = "over" /\ UNCHANGED <<sinceCheck, elapsed, blacked>>
    BY <1>2, Zenon DEF Settle, Over
  <2> QED BY <1>2, <2>1
<1>3. CASE ~(sinceCheck < Second) /\ seenAs \notin blocklist
  <2>1. phase' = "select" /\ elapsed' = elapsed + sinceCheck /\ sinceCheck' = 0
    BY <1>3, Zenon DEF Settle
  <2>2. seenAs \in blacklist => blacked'
    BY <1>3, Zenon DEF Settle
  <2>3. blockedFor' <= sinceCheck' /\ elapsed' + sinceCheck' = life'
    BY <1>3, <2>1
  <2>4. blackFor' > sinceCheck' => blacked'
    <3>1. blackFor' > sinceCheck' => seenAs \in blacklist
      BY <1>3, <2>1
    <3> QED BY <2>2, <3>1
  <2> QED BY <2>1, <2>3, <2>4
<1> QED BY <1>1, <1>2, <1>3

LEMMA InvStep == IInv /\ [Next]_vars => IInv'
<1> SUFFICES ASSUME IInv, [Next]_vars PROVE IInv'
  OBVIOUS
<1>0. TypeOK /\ TypeOK'
  BY TypeStep DEF IInv
<1> USE TimeAssumption DEF lists, session, clocks, history
<1>1. CASE Accept
  BY <1>0, <1>1 DEF Accept, Over, IInv, TypeOK, Listed, Effective, Clocked
<1>2. CASE EditBlocklist
  BY <1>0, <1>2 DEF EditBlocklist, IInv, TypeOK, Listed, Effective, Clocked
<1>3. CASE EditBlacklist
  BY <1>0, <1>3 DEF EditBlacklist, IInv, TypeOK, Listed, Effective, Clocked
<1>4. CASE Recv
  BY <1>0, <1>4 DEF Recv, IInv, TypeOK, Listed, Effective, Clocked
<1>5. CASE Sent
  <2>1. phase # "over"
    BY <1>5 DEF Sent
  <2>2. /\ Effective'
        /\ phase' = "select" => sinceCheck' < Second
        /\ elapsed' + sinceCheck' = life'
        /\ phase' \in {"select", "over"}
    BY <1>5, <2>1, SettleLooks DEF Sent
  <2> QED
    BY <1>0, <1>5, <2>1, <2>2 DEF Sent, IInv, TypeOK, Listed, Clocked
<1>6. CASE Close
  BY <1>0, <1>6 DEF Close, Over, IInv, TypeOK, Listed, Effective, Clocked
<1>7. CASE TimerTick
  <2>1. CASE idle >= IdleLimit + Second
    BY <1>0, <1>7, <2>1 DEF TimerTick, Over, IInv, TypeOK, Listed, Effective, Clocked
  <2>2. CASE ~(idle >= IdleLimit + Second)
    <3>1. phase # "over" /\ Settle
      BY <1>7, <2>2 DEF TimerTick
    <3>2. /\ Effective'
          /\ phase' = "select" => sinceCheck' < Second
          /\ elapsed' + sinceCheck' = life'
          /\ phase' \in {"select", "over"}
      BY <1>7, <3>1, SettleLooks DEF TimerTick
    <3> QED
      BY <1>0, <1>7, <2>2, <3>1, <3>2 DEF TimerTick, IInv, TypeOK, Listed, Clocked
  <2> QED BY <2>1, <2>2
<1>8. CASE Pass
  BY <1>0, <1>8 DEF Pass, IInv, TypeOK, Listed, Effective, Clocked
<1>9. CASE UNCHANGED vars
  BY <1>9 DEF vars, IInv, TypeOK, Listed, Effective, Clocked
<1> QED
  BY <1>1, <1>2, <1>3, <1>4, <1>5, <1>6, <1>7, <1>8, <1>9 DEF Next

-----------------------------------------------------------------------------
\* The variables of one relay, its clocks and its history keep their types, whatever
\* the administrator edits.
THEOREM TypeCorrect == Spec => []TypeOK
  BY TypeInit, TypeStep, PTL DEF Spec

\* The invariant the other theorems rest on.
THEOREM Inductive == Spec => []IInv
  BY InvInit, InvStep, PTL DEF Spec

\* relay()'s timer ends a silent relay: whatever the limit and the period, silence
\* ends within both together and a second unless the timer is behind.
THEOREM SilenceBounded == Spec => []SilenceIsBounded
<1>1. IInv => SilenceIsBounded
  BY TimeAssumption DEF IInv, TypeOK, Clocked, SilenceIsBounded
<1> QED
  BY Inductive, <1>1, PTL

\* The lists that check_cmd edits are obeyed within one period of relay()'s timer and
\* the second of its gate, for every order of edits, sends and ticks and however
\* finely time is divided.
THEOREM ListsObeyed == Spec => []ListsTakeEffect
<1>1. IInv => ListsTakeEffect
  BY TimeAssumption DEF IInv, TypeOK, Effective, Clocked, ListsTakeEffect
<1> QED
  BY Inductive, <1>1, PTL

\* relay() downgrades a relay only for its average rate over its whole life, for
\* every threshold.
THEOREM DowngradesEarned == Spec => DowngradeIsEarned
<1> DEFINE A == /\ downgrade => downgrade'
                /\ downgrade' /\ ~downgrade =>
                     life > StartCheck /\ total > Threshold * life
<1>1. IInv /\ [Next]_vars => [A]_vars
  <2> SUFFICES ASSUME IInv, Next PROVE A
    OBVIOUS
  <2> USE DEF lists, session, clocks, history, Over
  <2>1. ASSUME Settle, downgrade' # downgrade, total' = total, life' = life PROVE A
    <3>1. elapsed' = life /\ elapsed' > StartCheck /\ total > elapsed' * Threshold
      BY <2>1 DEF Settle, IInv, TypeOK, Clocked
    <3>2. elapsed' * Threshold = Threshold * life
      BY <3>1, TimeAssumption DEF IInv, TypeOK
    <3>3. downgrade => downgrade'
      BY <2>1 DEF Settle, IInv, TypeOK
    <3> QED BY <3>1, <3>2, <3>3
  <2>2. CASE Sent
    BY <2>1, <2>2 DEF Sent
  <2>3. CASE TimerTick
    BY <2>1, <2>3 DEF TimerTick
  <2>4. CASE Accept \/ EditBlocklist \/ EditBlacklist \/ Recv \/ Close \/ Pass
    BY <2>4 DEF Accept, EditBlocklist, EditBlacklist, Recv, Close, Pass
  <2> QED BY <2>2, <2>3, <2>4 DEF Next
<1> QED
  BY Inductive, <1>1, PTL DEF Spec, DowngradeIsEarned
=============================================================================
