--------------------------- MODULE Desktop_proofs ---------------------------
(***************************************************************************)
(* Proofs about components of the desktop program that the run of          *)
(* MCDesktop checks on small instances: the logins of a host (HostLogin),  *)
(* privacy mode (PrivacyMode), the clipboard loop (ClipboardLoop), the     *)
(* set-up of a connection (ConnectionSetup), terminals (TerminalService),  *)
(* the encoder of a display (VideoService), the registration of a host at  *)
(* its rendezvous servers (Mediator), the frame rate for all viewers       *)
(* (VideoQos).                                                             *)
(*                                                                         *)
(* Each theorem is about one component alone, taken with constants and     *)
(* variables of its own names; those of the same name are shared only in   *)
(* that they are declared once.                                            *)
(***************************************************************************)
EXTENDS Integers, Sequences, FiniteSets, FiniteSetTheorems, WellFoundedInduction, TLAPS

CONSTANTS
  Conns, Shared, Remote, PerMinute, InAll, Rotate, Clicks, MaxPw, MaxTime, \* HostLogin
  Impls, Slow, Tested, HostKeys, NoConn,                                   \* PrivacyMode
  Session, MaxRounds, Thread, Overlap, Fails,                              \* ClipboardLoop
  Flow, NoEnd, Attempts, Copies, Lossy, ForceRelay,                        \* ConnectionSetup
  Terms, Capacity, Replay, Options, MaxOutput,                             \* TerminalService
  Closing, Timeouts, MaxQueue, MaxJoins,                                   \* VideoService
  Server, NoHost, Id, FirstId, Taken, Public, RegInterval, MinRegTimeout,  \* Mediator
  MaxRegTimeout, DeployRetry, MaxFails1, MaxFails2, RegTimeout, Prompt, Faults,
  MaxRestart, MaxDraw, MaxLoss, MaxQuiet, Tolerance,
  Users, Delays, Elapsed, CustomFps, FPS, INIT_FPS, MIN_FPS, MinFps,       \* VideoQos
  NormalFps, Threshold, WindowSamples, MinSamples, Joins

VARIABLES
  now, pw, failures, temp, sessions, conns, misses,         \* HostLogin
  holder, impl, lock, threads, told, notices,               \* PrivacyMode
  round, state, job, running, loop, subscriber,             \* ClipboardLoop
  flow, sinks, inbox, answers, last, recent, parked, \* ConnectionSetup
  service, link, thread, got,                               \* TerminalService
  member, conn, joins, refresh, switch, synced, queue,      \* VideoService
  sent, fetched, notes, picture, asking,
  id, keyConfirmed, hostConfirmed, solving, needsDeploy,    \* Mediator
  deployAge, due, resp, fails, regTimeout, shown, up, down,
  row, mem, seen, deployed, restarts, draws, lost, quiet,
  users, fps, reported                                      \* VideoQos

Door == INSTANCE HostLogin
Privacy == INSTANCE PrivacyMode
Clipboard == INSTANCE ClipboardLoop
Setup == INSTANCE ConnectionSetup
Term == INSTANCE TerminalService
Video == INSTANCE VideoService
Med == INSTANCE Mediator WITH Host <- Server
Qos == INSTANCE VideoQos

-----------------------------------------------------------------------------
(* Logins on a host.                                                       *)

Minutes == 0..1 + MaxTime \div 4
Entry == [minute : Minutes, run : Nat, total : Nat]
Steps == {"closed", "open", "check", "validate", "clear", "forget", "bump", "count", "grant",
          "ending"}
Guess == -1..Door!Permanent
Times == -1..MaxTime
Spoke == {"not", "at once", "late"}
Conn ==
  [pc : Steps, asked : BOOLEAN, guess : Guess, seen : Entry, time : Minutes, heard : Times,
   authed : BOOLEAN, linked : BOOLEAN, temporary : BOOLEAN, spoke : Spoke]
SessionEntry == [password : -1..MaxPw, heard : Times]

LoginTypes == Door!TypeOK /\ conns \in [Conns -> Conn]

\* The instance's copies of the operators of FiniteSets.
LEMMA HostSets ==
  /\ \A S : Door!IsFiniteSet(S) <=> IsFiniteSet(S)
  /\ \A S : Door!Cardinality(S) = Cardinality(S)
BY DEF Door!IsFiniteSet, IsFiniteSet, Door!Cardinality, Cardinality

LEMMA LoginConstants ==
  ASSUME Door!LoginAssumption
  PROVE  /\ MaxPw \in Nat /\ MaxPw >= 1 /\ MaxTime \in Nat /\ MaxTime >= 1
         /\ Rotate \in Nat /\ Rotate >= 1
         /\ PerMinute \in Nat /\ PerMinute >= 1 /\ InAll \in Nat /\ InAll >= 1
         /\ MaxTime \div 4 \in Nat /\ IsFiniteSet(Conns)
BY HostSets DEF Door!LoginAssumption

LEMMA Empties ==
  ASSUME Door!LoginAssumption
  PROVE  Door!NoEntry \in Entry /\ Door!Fresh \in Conn /\ Door!NoSession \in SessionEntry
<1>1. Door!NoEntry \in Entry
  BY LoginConstants DEF Door!NoEntry, Entry, Minutes
<1>2. 0 \in Minutes /\ 0 \in Times /\ -1 \in Guess /\ -1 \in Times
  BY LoginConstants DEF Minutes, Times, Guess, Door!Permanent
<1>3. Door!Fresh \in Conn
  BY <1>1, <1>2 DEF Door!Fresh, Conn, Door!Empty, Steps, Spoke
<1>4. Door!NoSession \in SessionEntry
  BY <1>2, LoginConstants DEF Door!NoSession, Door!Empty, SessionEntry
<1> QED
  BY <1>1, <1>3, <1>4

LEMMA TypesAre ==
  LoginTypes <=>
    /\ now \in 0..MaxTime /\ pw \in 1..MaxPw /\ failures \in Entry
    /\ temp \in [password : 0..MaxPw, failures : 0..Rotate - 1]
    /\ sessions \in [Door!Keys -> SessionEntry] /\ misses \in Nat
    /\ conns \in [Conns -> Conn]
<1>1. conns \in [Conns -> Conn] => \A c \in Conns : conns[c].guess \in -1..Door!Permanent
  BY DEF Conn, Guess
<1> QED
  BY <1>1 DEF LoginTypes, Door!TypeOK, Entry, Minutes, SessionEntry, Times

LEMMA LoginInitTyped == Door!LoginAssumption /\ Door!Init => LoginTypes
<1> SUFFICES ASSUME Door!LoginAssumption, Door!Init PROVE LoginTypes
  OBVIOUS
<1>1. conns \in [Conns -> Conn] /\ failures \in Entry /\ sessions \in [Door!Keys -> SessionEntry]
  BY Empties DEF Door!Init
<1> QED
  BY <1>1, TypesAre, LoginConstants DEF Door!Init

\* A connection takes a step, and nothing else of it changes.
LEMMA GoesTo ==
  ASSUME conns \in [Conns -> Conn], NEW c \in Conns, NEW pc \in Steps, Door!Goto(c, pc)
  PROVE  conns' \in [Conns -> Conn]
<1>1. [conns[c] EXCEPT !.pc = pc] \in Conn
  BY DEF Conn
<1> QED
  BY <1>1 DEF Door!Goto

\* What is left of the clocks after sessions are dropped.
LEMMA UnlinkedIs ==
  ASSUME conns \in [Conns -> Conn], NEW K, NEW c \in Conns
  PROVE  /\ Door!Unlinked(K) \in [Conns -> Conn]
         /\ Door!Unlinked(K)[c] \in {conns[c], [conns[c] EXCEPT !.linked = FALSE]}
         /\ Door!KeyOf(c) \notin K => Door!Unlinked(K)[c] = conns[c]
<1>1. \A p \in Conn : [p EXCEPT !.linked = FALSE] \in Conn
  BY DEF Conn
<1> QED
  BY <1>1 DEF Door!Unlinked

LEMMA RetainTyped ==
  ASSUME Door!LoginAssumption, sessions \in [Door!Keys -> SessionEntry], NEW K, Door!Retain(K)
  PROVE  sessions' \in [Door!Keys -> SessionEntry]
BY Empties DEF Door!Retain

LEMMA MinuteTyped ==
  ASSUME Door!LoginAssumption, now \in 0..MaxTime
  PROVE  Door!Minute \in Minutes /\ Door!Minute \in Nat /\ Door!Minute >= 1
BY LoginConstants DEF Door!Minute, Minutes

LEMMA LoginTyped ==
  ASSUME Door!LoginAssumption, LoginTypes, [Door!Next]_Door!vars
  PROVE  LoginTypes'
<1>0. /\ now \in 0..MaxTime /\ pw \in 1..MaxPw /\ failures \in Entry
      /\ temp \in [password : 0..MaxPw, failures : 0..Rotate - 1]
      /\ sessions \in [Door!Keys -> SessionEntry] /\ misses \in Nat
      /\ conns \in [Conns -> Conn]
  BY TypesAre
<1>k. \A c \in Conns : conns[c] \in Conn /\ Door!KeyOf(c) \in Door!Keys
  BY <1>0 DEF Door!Keys
<1>z. ASSUME /\ now' \in 0..MaxTime /\ pw' \in 1..MaxPw /\ failures' \in Entry
             /\ temp' \in [password : 0..MaxPw, failures : 0..Rotate - 1]
             /\ sessions' \in [Door!Keys -> SessionEntry] /\ misses' \in Nat
             /\ conns' \in [Conns -> Conn]
      PROVE  LoginTypes'
  <2>1. \A c \in Conns : conns'[c].guess \in -1..Door!Permanent
    BY <1>z DEF Conn, Guess
  <2> QED
    BY <1>z, <2>1 DEF LoginTypes, Door!TypeOK, Entry, Minutes, SessionEntry, Times
<1>t. now \in Times /\ \A t \in Nat : t < MaxTime => t + 1 \in 0..MaxTime
  BY <1>0, LoginConstants DEF Times
<1>1. ASSUME NEW c \in Conns, Door!Open(c) PROVE LoginTypes'
  <2>1. [Door!Fresh EXCEPT !.pc = "open", !.heard = now] \in Conn
    BY <1>t, Empties DEF Conn, Steps
  <2> QED
    BY <1>0, <1>z, <1>1, <2>1 DEF Door!Open
<1>2. ASSUME NEW c \in Conns, NEW guess \in Door!Guesses(c), Door!Login(c, guess)
      PROVE LoginTypes'
  <2>1. sessions' \in [Door!Keys -> SessionEntry]
    BY <1>0, <1>2, RetainTyped DEF Door!Login
  <2>2. guess \in Guess
    BY <1>0, <1>k, LoginConstants
       DEF Door!Guesses, Door!Empty, Door!Wrong, Door!Permanent, Guess, SessionEntry
  <2>3. PICK u \in [Conns -> Conn] : u = Door!Unlinked(Door!Expired)
    BY <1>0, UnlinkedIs
  <2>4. PICK r \in BOOLEAN : r = Door!IsRecentSession(c, guess)
    BY DEF Door!IsRecentSession
  <2>5. PICK pc \in Steps : pc = IF r THEN "grant" ELSE IF guess = Door!Empty THEN "open"
                                 ELSE "check"
    BY DEF Steps
  <2>6. PICK p : p = [u[c] EXCEPT !.guess = guess, !.asked = TRUE, !.heard = now,
                                  !.temporary = r, !.pc = pc]
    OBVIOUS
  <2>7. p \in Conn
    BY <2>2, <2>6, <1>t DEF Conn
  <2>8. conns' = [u EXCEPT ![c].guess = guess, ![c].asked = TRUE, ![c].heard = now,
                           ![c].temporary = r, ![c].pc = pc]
    BY <1>2, <2>3, <2>4, <2>5, Zenon DEF Door!Login
  <2>9. conns' = [u EXCEPT ![c] = p]
    BY <2>6, <2>8
  <2>10. conns' \in [Conns -> Conn]
    BY <2>7, <2>9
  <2> QED
    BY <1>0, <1>z, <1>2, <2>1, <2>10 DEF Door!Login
<1>3. ASSUME NEW c \in Conns, Door!Check(c) PROVE LoginTypes'
  <2>1. PICK pc \in Steps : pc = IF Door!IsRefused(failures) THEN "open" ELSE "validate"
    BY DEF Steps
  <2>2. PICK p : p = [conns[c] EXCEPT !.seen = failures, !.time = Door!Minute, !.pc = pc]
    OBVIOUS
  <2>3. p \in Conn
    BY <1>0, <1>k, <2>2, MinuteTyped DEF Conn
  <2>4. conns' = [conns EXCEPT ![c] = p]
    BY <1>0, <1>3, <2>1, <2>2 DEF Door!Check
  <2> QED
    BY <1>0, <1>z, <1>3, <2>3, <2>4 DEF Door!Check
<1>4. ASSUME NEW c \in Conns, Door!Validate(c) PROVE LoginTypes'
  <2>1. CASE /\ conns[c].guess = pw /\ UNCHANGED <<now, pw, failures, temp, misses>>
             /\ sessions' = [sessions EXCEPT ![Door!KeyOf(c)] =
                                Door!Renewed(@, conns[c].guess)]
             /\ conns' = [conns EXCEPT ![c].pc = "clear", ![c].temporary = TRUE]
    <3>1. [conns[c] EXCEPT !.pc = "clear", !.temporary = TRUE] \in Conn
      BY <1>k DEF Conn, Steps
    <3>2. conns' \in [Conns -> Conn]
      BY <1>0, <2>1, <3>1
    <3>3. PICK s \in SessionEntry : s = sessions[Door!KeyOf(c)]
      BY <1>0, <1>k
    <3>4. Door!Renewed(s, pw) \in SessionEntry
      BY <1>0, <1>t DEF Door!Renewed, SessionEntry
    <3>5. sessions' \in [Door!Keys -> SessionEntry]
      BY <1>0, <2>1, <3>3, <3>4
    <3> QED
      BY <1>0, <1>z, <2>1, <3>2, <3>5
  <2>2. CASE Door!Goto(c, "forget") /\ UNCHANGED <<now, pw, failures, temp, sessions, misses>>
    <3>1. conns' \in [Conns -> Conn]
      BY <1>0, <2>2, GoesTo DEF Steps
    <3> QED
      BY <1>0, <1>z, <2>2, <3>1
  <2>3. CASE /\ Door!Goto(c, "bump") /\ misses' = misses + 1
             /\ UNCHANGED <<now, pw, failures, temp, sessions>>
    <3>1. conns' \in [Conns -> Conn]
      BY <1>0, <2>3, GoesTo DEF Steps
    <3> QED
      BY <1>0, <1>z, <2>3, <3>1
  <2> QED
    BY <1>4, <2>1, <2>2, <2>3 DEF Door!Validate
<1>5. ASSUME NEW c \in Conns, Door!ClearTemporary(c) PROVE LoginTypes'
  <2>1. conns' \in [Conns -> Conn]
    BY <1>0, <1>5, GoesTo DEF Door!ClearTemporary, Steps
  <2> QED
    BY <1>0, <1>z, <1>5, <2>1, LoginConstants DEF Door!ClearTemporary
<1>6. ASSUME NEW c \in Conns, Door!CountTemporary(c) PROVE LoginTypes'
  <2>1. conns' \in [Conns -> Conn]
    BY <1>0, <1>6, GoesTo DEF Door!CountTemporary, Steps
  <2>2. Door!Current \in 0..Rotate - 1
    BY <1>0, LoginConstants DEF Door!Current
  <2>3. /\ temp' \in [password : 0..MaxPw, failures : 0..Rotate - 1]
        /\ pw' \in 1..MaxPw /\ misses' \in Nat
    BY <1>0, <1>6, <2>2, LoginConstants DEF Door!CountTemporary
  <2> QED
    BY <1>0, <1>z, <1>6, <2>1, <2>3 DEF Door!CountTemporary
<1>7. ASSUME NEW c \in Conns, Door!Bump(c) PROVE LoginTypes'
  <2>1. conns' \in [Conns -> Conn]
    BY <1>0, <1>7, GoesTo DEF Door!Bump, Steps
  <2>2. failures' \in Entry
    BY <1>0, <1>k, <1>7 DEF Door!Bump, Conn, Door!Bumped, Entry
  <2> QED
    BY <1>0, <1>z, <1>7, <2>1, <2>2 DEF Door!Bump
<1>8. ASSUME NEW c \in Conns, Door!Forget(c) PROVE LoginTypes'
  <2>1. conns' \in [Conns -> Conn]
    BY <1>0, <1>8, GoesTo DEF Door!Forget, Steps
  <2>2. failures' \in Entry
    BY <1>0, <1>8, Empties DEF Door!Forget
  <2> QED
    BY <1>0, <1>z, <1>8, <2>1, <2>2 DEF Door!Forget
<1>9. ASSUME NEW c \in Conns, Door!Authorize(c) PROVE LoginTypes'
  <2>1. PICK l \in BOOLEAN : l <=> sessions[Door!KeyOf(c)] # Door!NoSession
    OBVIOUS
  <2>2. PICK p : p = [conns[c] EXCEPT !.pc = "open", !.authed = TRUE, !.linked = l]
    OBVIOUS
  <2>3. p \in Conn
    BY <1>k, <2>2 DEF Conn, Steps
  <2>4. conns' = [conns EXCEPT ![c] = p]
    BY <1>0, <1>9, <2>1, <2>2 DEF Door!Authorize
  <2> QED
    BY <1>0, <1>z, <1>9, <2>3, <2>4 DEF Door!Authorize
<1>10. ASSUME NEW c \in Conns, Door!Click(c) PROVE LoginTypes'
  <2>1. conns' \in [Conns -> Conn]
    BY <1>0, <1>10, GoesTo DEF Door!Click, Steps
  <2> QED
    BY <1>0, <1>z, <1>10, <2>1 DEF Door!Click
<1>11. ASSUME NEW c \in Conns, Door!Hear(c) PROVE LoginTypes'
  <2>1. PICK spoke : spoke = CASE conns[c].spoke # "not" -> conns[c].spoke
                               [] conns[c].heard = now -> "at once"
                               [] OTHER -> "late"
    OBVIOUS
  <2>2. PICK p : p = [conns[c] EXCEPT !.heard = now, !.spoke = spoke]
    OBVIOUS
  <2>3. p \in Conn
    <3>1. spoke \in Spoke
      BY <1>k, <2>1 DEF Conn, Spoke
    <3> QED
      BY <1>k, <1>t, <2>2, <3>1 DEF Conn
  <2>4. conns' = [conns EXCEPT ![c] = p]
    BY <1>0, <1>11, <2>1, <2>2 DEF Door!Hear
  <2>5. [sessions[Door!KeyOf(c)] EXCEPT !.heard = now] \in SessionEntry
    BY <1>0, <1>k, <1>t DEF SessionEntry
  <2>6. sessions' \in [Door!Keys -> SessionEntry]
    BY <1>0, <1>k, <1>11, <2>5 DEF Door!Hear
  <2> QED
    BY <1>0, <1>z, <1>11, <2>3, <2>4, <2>6 DEF Door!Hear
<1>12. ASSUME NEW c \in Conns, Door!CloseForGood(c) PROVE LoginTypes'
  <2>1. PICK gone : /\ Door!Retain(gone)
                    /\ conns' = [Door!Unlinked(gone) EXCEPT ![c].pc = "ending"]
    BY <1>12 DEF Door!CloseForGood
  <2>2. PICK u \in [Conns -> Conn] : u = Door!Unlinked(gone)
    BY <1>0, UnlinkedIs
  <2>3. [u[c] EXCEPT !.pc = "ending"] \in Conn
    BY DEF Conn, Steps
  <2>4. conns' \in [Conns -> Conn]
    BY <2>1, <2>2, <2>3
  <2>5. sessions' \in [Door!Keys -> SessionEntry]
    BY <1>0, <2>1, RetainTyped
  <2> QED
    BY <1>0, <1>z, <1>12, <2>4, <2>5 DEF Door!CloseForGood
<1>13. ASSUME NEW c \in Conns, Door!LoseLink(c) PROVE LoginTypes'
  <2>1. conns' \in [Conns -> Conn]
    BY <1>0, <1>13, GoesTo DEF Door!LoseLink, Steps
  <2> QED
    BY <1>0, <1>z, <1>13, <2>1 DEF Door!LoseLink
<1>14. ASSUME NEW c \in Conns, Door!End(c) PROVE LoginTypes'
  <2>1. Door!Fresh \in Conn
    BY Empties
  <2>2. pw' \in 1..MaxPw /\ misses' \in Nat /\ conns' \in [Conns -> Conn]
    BY <1>0, <1>14, <2>1, LoginConstants DEF Door!End
  <2> QED
    BY <1>0, <1>z, <1>14, <2>2 DEF Door!End
<1>15. CASE Door!Tick
  BY <1>0, <1>t, <1>z, <1>15, LoginConstants DEF Door!Tick
<1>16. CASE UNCHANGED Door!vars
  BY <1>0, <1>z, <1>16 DEF Door!vars
<1> QED
  BY <1>1, <1>2, <1>3, <1>4, <1>5, <1>6, <1>7, <1>8, <1>9, <1>10, <1>11, <1>12, <1>13, <1>14,
     <1>15, <1>16 DEF Door!Next

-----------------------------------------------------------------------------
\* Past the check of the address and not counted yet; refused, and not counted yet
\* against the temporary password.
Unbumped == {c \in Conns : conns[c].pc \in {"validate", "bump"}}
Uncounted == {c \in Conns : conns[c].pc \in {"bump", "count"}}

\* Whoever is past a check was within the limits when it was made, so that what was
\* counted and what is to be counted exceed a limit by no more than the connections.
AttemptInv ==
  /\ failures.total + Cardinality(Unbumped) <= InAll + Cardinality(Conns)
  /\ failures.minute = Door!Minute
       => failures.run + Cardinality(Unbumped) <= PerMinute + Cardinality(Conns)
  /\ failures.run <= PerMinute + Cardinality(Conns)
  /\ failures.minute <= Door!Minute
  /\ \A c \in Unbumped : conns[c].time = Door!Minute

\* A wrong attempt at the temporary password is counted or about to be.
GuessInv == misses <= Door!Current + Cardinality(Uncounted)

\* Connection c takes a step, and the others stay where they are.
Steps1(c, pc) ==
  /\ conns'[c].pc = pc
  /\ \A d \in Conns \ {c} : conns'[d].pc = conns[d].pc /\ conns'[d].time = conns[d].time

\* A set of connections gains or loses at most the one that steps.
LEMMA CountMoves ==
  ASSUME NEW C, IsFiniteSet(C), NEW S \in SUBSET C, NEW T \in SUBSET C, NEW c \in C,
         T \ {c} = S \ {c}
  PROVE  /\ Cardinality(S) \in Nat /\ Cardinality(T) \in Nat /\ Cardinality(C) \in Nat
         /\ Cardinality(T) <= Cardinality(C)
         /\ (c \in S <=> c \in T) => Cardinality(T) = Cardinality(S)
         /\ c \in S /\ c \notin T => Cardinality(T) = Cardinality(S) - 1
         /\ c \notin S /\ c \in T => Cardinality(T) = Cardinality(S) + 1
         /\ c \notin T => Cardinality(T) + 1 <= Cardinality(C)
<1>1. IsFiniteSet(S) /\ IsFiniteSet(T) /\ Cardinality(T) <= Cardinality(C)
  BY FS_Subset
<1>2. Cardinality(S) \in Nat /\ Cardinality(T) \in Nat /\ Cardinality(C) \in Nat
  BY <1>1, FS_CardinalityType
<1>3. (c \in S <=> c \in T) => S = T
  OBVIOUS
<1>4. ASSUME c \in S, c \notin T PROVE Cardinality(T) = Cardinality(S) - 1
  <2>1. T = S \ {c}
    BY <1>4
  <2> QED
    BY <1>1, <1>4, <2>1, FS_RemoveElement
<1>5. ASSUME c \notin S, c \in T PROVE Cardinality(T) = Cardinality(S) + 1
  <2>1. T = S \cup {c}
    BY <1>5
  <2> QED
    BY <1>1, <1>5, <2>1, FS_AddElement
<1>6. ASSUME c \notin T PROVE Cardinality(T) + 1 <= Cardinality(C)
  <2>1. T \cup {c} \subseteq C /\ Cardinality(T \cup {c}) = Cardinality(T) + 1
    BY <1>1, <1>6, FS_AddElement
  <2> QED
    BY <2>1, FS_Subset
<1> QED
  BY <1>1, <1>2, <1>3, <1>4, <1>5, <1>6

LEMMA UnbumpedMoves ==
  ASSUME IsFiniteSet(Conns), NEW c \in Conns, NEW pc, Steps1(c, pc)
  PROVE  /\ Cardinality(Unbumped) \in Nat /\ Cardinality(Unbumped') \in Nat
         /\ Cardinality(Conns) \in Nat
         /\ Cardinality(Unbumped') <= Cardinality(Conns)
         /\ conns[c].pc \notin {"validate", "bump"} /\ pc \notin {"validate", "bump"}
              => Unbumped' = Unbumped
         /\ conns[c].pc = "validate" /\ pc = "bump"
              => Unbumped' = Unbumped
         /\ conns[c].pc \in {"validate", "bump"} /\ pc \notin {"validate", "bump"}
              => Cardinality(Unbumped') = Cardinality(Unbumped) - 1
         /\ pc \notin {"validate", "bump"}
              => Unbumped' \subseteq Unbumped /\ c \notin Unbumped'
                 /\ Cardinality(Unbumped') + 1 <= Cardinality(Conns)
<1>1. PICK T : T = Unbumped'
  OBVIOUS
<1>2. T \in SUBSET Conns /\ Unbumped \in SUBSET Conns /\ T \ {c} = Unbumped \ {c}
      /\ (c \in T <=> pc \in {"validate", "bump"})
  BY <1>1 DEF Unbumped, Steps1
<1>3. c \in Unbumped <=> conns[c].pc \in {"validate", "bump"}
  BY DEF Unbumped
<1>4. /\ Cardinality(Unbumped) \in Nat /\ Cardinality(T) \in Nat /\ Cardinality(Conns) \in Nat
      /\ Cardinality(T) <= Cardinality(Conns)
      /\ c \in Unbumped /\ c \notin T => Cardinality(T) = Cardinality(Unbumped) - 1
      /\ c \notin T => Cardinality(T) + 1 <= Cardinality(Conns)
  BY <1>2, CountMoves
<1>5. (c \in Unbumped <=> c \in T) => T = Unbumped
  BY <1>2
<1> QED
  BY <1>1, <1>2, <1>3, <1>4, <1>5

LEMMA UncountedMoves ==
  ASSUME IsFiniteSet(Conns), NEW c \in Conns, NEW pc, Steps1(c, pc)
  PROVE  /\ Cardinality(Uncounted) \in Nat /\ Cardinality(Uncounted') \in Nat
         /\ conns[c].pc \notin {"bump", "count"} /\ pc \notin {"bump", "count"}
              => Cardinality(Uncounted') = Cardinality(Uncounted)
         /\ conns[c].pc = "bump" /\ pc = "count"
              => Cardinality(Uncounted') = Cardinality(Uncounted)
         /\ conns[c].pc = "validate" /\ pc = "bump"
              => Cardinality(Uncounted') = Cardinality(Uncounted) + 1
         /\ conns[c].pc = "count" /\ pc = "open"
              => Cardinality(Uncounted') = Cardinality(Uncounted) - 1
<1>1. PICK T : T = Uncounted'
  OBVIOUS
<1>2. T \in SUBSET Conns /\ Uncounted \in SUBSET Conns /\ T \ {c} = Uncounted \ {c}
      /\ (c \in T <=> pc \in {"bump", "count"})
  BY <1>1 DEF Uncounted, Steps1
<1>3. c \in Uncounted <=> conns[c].pc \in {"bump", "count"}
  BY DEF Uncounted
<1>4. /\ Cardinality(Uncounted) \in Nat /\ Cardinality(T) \in Nat
      /\ (c \in Uncounted <=> c \in T) => Cardinality(T) = Cardinality(Uncounted)
      /\ c \in Uncounted /\ c \notin T => Cardinality(T) = Cardinality(Uncounted) - 1
      /\ c \notin Uncounted /\ c \in T => Cardinality(T) = Cardinality(Uncounted) + 1
  BY <1>2, CountMoves
<1> QED
  BY <1>1, <1>2, <1>3, <1>4

LEMMA GotoSteps ==
  ASSUME LoginTypes, NEW c \in Conns, NEW pc, Door!Goto(c, pc)
  PROVE  Steps1(c, pc)
<1>1. conns \in [Conns -> Conn]
  BY TypesAre
<1> QED
  BY <1>1 DEF Door!Goto, Steps1, Conn

\* The steps that count nothing: from and to where nothing is to be counted.
Idly(c) ==
  /\ \E pc \in {"open", "check", "clear", "forget", "grant", "ending", "closed"} : Steps1(c, pc)
  /\ conns[c].pc \in {"open", "closed", "clear", "forget", "grant", "ending"}

LEMMA IdleSteps ==
  ASSUME LoginTypes, NEW c \in Conns,
         \/ Door!Open(c) \/ \E guess \in Door!Guesses(c) : Door!Login(c, guess)
         \/ Door!Forget(c) \/ Door!Authorize(c) \/ Door!Click(c) \/ Door!Hear(c)
         \/ Door!CloseForGood(c) \/ Door!LoseLink(c) \/ Door!End(c) \/ Door!ClearTemporary(c)
  PROVE  Idly(c)
<1>1. conns \in [Conns -> Conn]
  BY TypesAre
<1>2. CASE Door!Open(c)
  <2>1. conns' = [conns EXCEPT ![c] = [Door!Fresh EXCEPT !.pc = "open", !.heard = now]]
        /\ conns[c].pc = "closed"
    BY <1>2 DEF Door!Open, Door!At
  <2>2. Steps1(c, "open")
    BY <1>1, <2>1 DEF Steps1, Door!Fresh
  <2> QED
    BY <2>1, <2>2 DEF Idly
<1>3. ASSUME NEW guess \in Door!Guesses(c), Door!Login(c, guess) PROVE Idly(c)
  <2>1. PICK u \in [Conns -> Conn] : u = Door!Unlinked(Door!Expired)
    BY <1>1, UnlinkedIs
  <2>2. \A d \in Conns : u[d] \in {conns[d], [conns[d] EXCEPT !.linked = FALSE]}
    BY <1>1, <2>1, UnlinkedIs
  <2>3. \A d \in Conns : u[d].pc = conns[d].pc /\ u[d].time = conns[d].time
    BY <1>1, <2>2 DEF Conn
  <2>4. PICK r, pc : /\ conns' = [u EXCEPT ![c].guess = guess, ![c].asked = TRUE, ![c].heard = now,
                                            ![c].temporary = r, ![c].pc = pc]
                     /\ pc \in {"grant", "open", "check"}
    <3>1. PICK r, pc : /\ r = Door!IsRecentSession(c, guess)
                       /\ pc = IF Door!IsRecentSession(c, guess) THEN "grant"
                               ELSE IF guess = Door!Empty THEN "open" ELSE "check"
      OBVIOUS
    <3>2. pc \in {"grant", "open", "check"}
      BY <3>1
    <3>3. conns' = [u EXCEPT ![c].guess = guess, ![c].asked = TRUE, ![c].heard = now,
                             ![c].temporary = r, ![c].pc = pc]
      BY <1>3, <2>1, <3>1, Zenon DEF Door!Login
    <3> QED
      BY <3>2, <3>3
  <2>5. conns'[c].pc = pc /\ \A d \in Conns \ {c} : conns'[d] = u[d]
    BY <2>4 DEF Conn
  <2>6. conns[c].pc = "open"
    BY <1>3 DEF Door!Login, Door!At
  <2> QED
    BY <2>3, <2>4, <2>5, <2>6 DEF Idly, Steps1
<1>4. CASE Door!Forget(c)
  BY <1>4, GotoSteps DEF Door!Forget, Door!At, Idly
<1>5. CASE Door!Authorize(c)
  <2>1. PICK p : p = [conns[c] EXCEPT !.pc = "open", !.authed = TRUE,
                        !.linked = sessions[Door!KeyOf(c)] # Door!NoSession]
    OBVIOUS
  <2>2. conns' = [conns EXCEPT ![c] = p] /\ conns[c].pc = "grant"
    BY <1>1, <1>5, <2>1 DEF Door!Authorize, Door!At
  <2>3. p.pc = "open"
    BY <1>1, <2>1 DEF Conn
  <2> QED
    BY <1>1, <2>2, <2>3 DEF Idly, Steps1
<1>6. CASE Door!Click(c)
  BY <1>6, GotoSteps DEF Door!Click, Door!At, Idly
<1>7. CASE Door!Hear(c)
  <2>1. PICK p : /\ conns' = [conns EXCEPT ![c] = p] /\ conns[c].pc = "open"
                 /\ \E spoke : p = [conns[c] EXCEPT !.heard = now, !.spoke = spoke]
    BY <1>1, <1>7 DEF Door!Hear, Door!At
  <2>2. p.pc = "open"
    BY <1>1, <2>1 DEF Conn
  <2> QED
    BY <1>1, <2>1, <2>2 DEF Idly, Steps1
<1>8. CASE Door!CloseForGood(c)
  <2>1. PICK gone : conns' = [Door!Unlinked(gone) EXCEPT ![c].pc = "ending"]
    BY <1>8 DEF Door!CloseForGood
  <2>2. PICK u \in [Conns -> Conn] : u = Door!Unlinked(gone)
    BY <1>1, UnlinkedIs
  <2>3. \A d \in Conns : u[d] \in {conns[d], [conns[d] EXCEPT !.linked = FALSE]}
    BY <1>1, <2>2, UnlinkedIs
  <2>4. \A d \in Conns : u[d].pc = conns[d].pc /\ u[d].time = conns[d].time
    BY <1>1, <2>3 DEF Conn
  <2>5. conns'[c].pc = "ending" /\ \A d \in Conns \ {c} : conns'[d] = u[d]
    BY <2>1, <2>2 DEF Conn
  <2>6. conns[c].pc = "open"
    BY <1>8 DEF Door!CloseForGood, Door!At
  <2> QED
    BY <2>4, <2>5, <2>6 DEF Idly, Steps1
<1>9. CASE Door!LoseLink(c)
  BY <1>9, GotoSteps DEF Door!LoseLink, Door!At, Idly
<1>10. CASE Door!End(c)
  <2>1. conns' = [conns EXCEPT ![c] = Door!Fresh] /\ conns[c].pc = "ending"
    BY <1>10 DEF Door!End, Door!At
  <2>2. Steps1(c, "closed")
    BY <1>1, <2>1 DEF Steps1, Door!Fresh
  <2> QED
    BY <2>1, <2>2 DEF Idly
<1>11. CASE Door!ClearTemporary(c)
  BY <1>11, GotoSteps DEF Door!ClearTemporary, Door!At, Idly
<1> QED
  BY <1>2, <1>3, <1>4, <1>5, <1>6, <1>7, <1>8, <1>9, <1>10, <1>11

\* The clock stands still while a login is under way.
LEMMA MinuteStands ==
  ASSUME NEW c \in Conns, UNCHANGED now PROVE Door!Minute' = Door!Minute
BY DEF Door!Minute

LEMMA MinuteGrows ==
  ASSUME now \in Nat, now' = now + 1 PROVE Door!Minute' \in Nat /\ Door!Minute' >= Door!Minute
BY DEF Door!Minute

LEMMA AttemptStep ==
  ASSUME Door!LoginAssumption, LoginTypes, AttemptInv, [Door!Next]_Door!vars
  PROVE  AttemptInv'
<1>0. /\ now \in 0..MaxTime /\ failures \in Entry /\ conns \in [Conns -> Conn]
      /\ IsFiniteSet(Conns) /\ Door!Minute \in Nat /\ Door!Minute >= 1
  BY TypesAre, MinuteTyped, LoginConstants
<1>k. \A c \in Conns : conns[c] \in Conn
  BY <1>0
<1>f. failures.total \in Nat /\ failures.run \in Nat /\ failures.minute \in Nat
  BY <1>0 DEF Entry, Minutes
<1>1. ASSUME NEW c \in Conns, Idly(c), now' = now,
             failures' = failures \/ failures' = Door!NoEntry
      PROVE AttemptInv'
  <2>1. PICK pc : Steps1(c, pc) /\ pc \notin {"validate", "bump"}
    BY <1>1 DEF Idly
  <2>2. conns[c].pc \notin {"validate", "bump"}
    BY <1>1 DEF Idly
  <2>3. /\ Unbumped' = Unbumped /\ Cardinality(Unbumped) \in Nat /\ Cardinality(Conns) \in Nat
        /\ Cardinality(Unbumped) <= Cardinality(Conns) /\ c \notin Unbumped
    BY <1>0, <2>1, <2>2, UnbumpedMoves
  <2>4. Door!Minute' = Door!Minute /\ \A d \in Unbumped : conns'[d].time = conns[d].time
    BY <1>1, <2>1, <2>3, MinuteStands DEF Steps1, Unbumped
  <2>5. CASE failures' = failures
    BY <2>3, <2>4, <2>5 DEF AttemptInv
  <2>6. CASE failures' = Door!NoEntry
    BY <1>0, <2>3, <2>4, <2>6, LoginConstants DEF AttemptInv, Door!NoEntry
  <2> QED
    BY <1>1, <2>5, <2>6
<1>2. ASSUME NEW c \in Conns, Door!Check(c) PROVE AttemptInv'
  <2>1. PICK pc : pc = IF Door!IsRefused(failures) THEN "open" ELSE "validate"
    OBVIOUS
  <2>2. /\ conns[c].pc = "check" /\ now' = now /\ failures' = failures
        /\ conns' = [conns EXCEPT ![c].seen = failures, ![c].time = Door!Minute, ![c].pc = pc]
    BY <1>2, <2>1 DEF Door!Check, Door!At
  <2>3. PICK p : p = [conns[c] EXCEPT !.seen = failures, !.time = Door!Minute, !.pc = pc]
    OBVIOUS
  <2>4. conns' = [conns EXCEPT ![c] = p]
    BY <2>2, <2>3
  <2>5. p.pc = pc /\ p.time = Door!Minute
    BY <1>k, <2>3 DEF Conn
  <2>6. Steps1(c, pc) /\ conns'[c].time = Door!Minute
    BY <1>0, <2>4, <2>5 DEF Steps1
  <2>7. PICK n \in Nat, m \in Nat, k \in Nat :
          n = Cardinality(Unbumped) /\ m = Cardinality(Unbumped') /\ k = Cardinality(Conns)
    BY <1>0, <2>6, UnbumpedMoves
  <2>8. m <= k /\ Door!Minute' = Door!Minute
    BY <1>0, <2>2, <2>6, <2>7, UnbumpedMoves, MinuteStands
  <2>9. \A d \in Unbumped' : conns'[d].time = Door!Minute
    BY <2>6 DEF Unbumped, Steps1, AttemptInv
  <2>10. CASE pc = "open"
    <3>1. Unbumped' = Unbumped
      BY <1>0, <2>2, <2>6, <2>10, UnbumpedMoves
    <3> QED
      BY <2>2, <2>8, <2>9, <3>1 DEF AttemptInv
  <2>11. CASE pc = "validate" /\ ~Door!IsRefused(failures)
    <3>1. /\ failures.total <= InAll
          /\ failures.minute = Door!Minute => failures.run <= PerMinute
      BY <1>f, <2>11, LoginConstants DEF Door!IsRefused
    <3>2. InAll \in Nat /\ PerMinute \in Nat
      BY LoginConstants
    <3>3. failures.total + m <= InAll + k
      BY <1>f, <2>7, <2>8, <3>1, <3>2
    <3>4. failures.minute = Door!Minute => failures.run + m <= PerMinute + k
      BY <1>f, <2>7, <2>8, <3>1, <3>2
    <3> QED
      BY <2>2, <2>7, <2>8, <2>9, <3>3, <3>4 DEF AttemptInv
  <2> QED
    BY <2>1, <2>10, <2>11
<1>3. ASSUME NEW c \in Conns, Door!Validate(c) PROVE AttemptInv'
  <2>1. PICK pc \in {"clear", "forget", "bump"} : Steps1(c, pc)
    <3>1. CASE conns' = [conns EXCEPT ![c].pc = "clear", ![c].temporary = TRUE]
      <4>1. conns' = [conns EXCEPT ![c] = [conns[c] EXCEPT !.pc = "clear", !.temporary = TRUE]]
        BY <1>0, <3>1
      <4>2. [conns[c] EXCEPT !.pc = "clear", !.temporary = TRUE].pc = "clear"
        BY <1>k DEF Conn
      <4> QED
        BY <1>0, <4>1, <4>2 DEF Steps1
    <3> QED
      BY <1>3, <3>1, GotoSteps DEF Door!Validate
  <2>2. conns[c].pc = "validate" /\ now' = now /\ failures' = failures
    BY <1>3 DEF Door!Validate, Door!At
  <2>3. PICK n \in Nat, m \in Nat :
          n = Cardinality(Unbumped) /\ m = Cardinality(Unbumped') /\ Cardinality(Conns) \in Nat
    BY <1>0, <2>1, UnbumpedMoves
  <2>4. m <= n /\ Unbumped' \subseteq Unbumped
    BY <1>0, <2>1, <2>2, <2>3, UnbumpedMoves
  <2>5. Door!Minute' = Door!Minute
    BY <2>2, MinuteStands
  <2>6. \A d \in Unbumped' : conns'[d].time = Door!Minute
    <3>1. ASSUME NEW d \in Unbumped', d # c PROVE conns'[d].time = Door!Minute
      BY <2>1, <2>4, <3>1 DEF Steps1, AttemptInv, Unbumped
    <3>2. conns'[c].time = conns[c].time
      BY <1>0, <1>3 DEF Door!Validate, Door!Goto, Conn
    <3> QED
      BY <2>4, <3>1, <3>2 DEF AttemptInv
  <2> QED
    BY <1>f, <2>2, <2>3, <2>4, <2>5, <2>6, LoginConstants DEF AttemptInv
<1>4. ASSUME NEW c \in Conns, Door!CountTemporary(c) PROVE AttemptInv'
  <2>1. Steps1(c, "open") /\ conns[c].pc = "count" /\ now' = now /\ failures' = failures
    BY <1>4, GotoSteps DEF Door!CountTemporary, Door!At
  <2>2. Unbumped' = Unbumped /\ c \notin Unbumped
    BY <1>0, <2>1, UnbumpedMoves
  <2>3. Door!Minute' = Door!Minute /\ \A d \in Unbumped : conns'[d].time = conns[d].time
    BY <2>1, <2>2, MinuteStands DEF Steps1, Unbumped
  <2> QED
    BY <2>1, <2>2, <2>3 DEF AttemptInv
<1>5. ASSUME NEW c \in Conns, Door!Bump(c) PROVE AttemptInv'
  <2>1. /\ Steps1(c, "count") /\ conns[c].pc = "bump" /\ now' = now
        /\ failures' = Door!Bumped(failures, conns[c].time)
    BY <1>5, GotoSteps DEF Door!Bump, Door!At
  <2>2. conns[c].time = Door!Minute
    BY <2>1 DEF AttemptInv, Unbumped
  <2>3. PICK n \in Nat, m \in Nat, k \in Nat :
          n = Cardinality(Unbumped) /\ m = Cardinality(Unbumped') /\ k = Cardinality(Conns)
    BY <1>0, <2>1, UnbumpedMoves
  <2>4. m = n - 1 /\ m + 1 <= k /\ Unbumped' \subseteq Unbumped /\ c \notin Unbumped'
    BY <1>0, <2>1, <2>3, UnbumpedMoves
  <2>5. Door!Minute' = Door!Minute /\ \A d \in Unbumped' : conns'[d].time = Door!Minute
    BY <2>1, <2>4, MinuteStands DEF Steps1, Unbumped, AttemptInv
  <2>6. /\ failures'.minute = Door!Minute /\ failures'.total = failures.total + 1
        /\ failures'.run = IF failures.minute = Door!Minute THEN failures.run + 1 ELSE 1
    BY <2>1, <2>2 DEF Door!Bumped
  <2> QED
    BY <1>0, <1>f, <2>3, <2>4, <2>5, <2>6, LoginConstants DEF AttemptInv
<1>6. CASE Door!Tick
  <2>1. now' = now + 1 /\ UNCHANGED <<failures, conns>>
        /\ \A c \in Conns : conns[c].pc \in {"closed", "open"}
    BY <1>6 DEF Door!Tick, Door!At
  <2>2. Unbumped = {} /\ Unbumped' = {}
    BY <2>1 DEF Unbumped
  <2>3. Door!Minute' \in Nat /\ Door!Minute' >= Door!Minute
    BY <1>0, <2>1, MinuteGrows
  <2> QED
    BY <1>0, <1>f, <2>1, <2>2, <2>3, LoginConstants, FS_EmptySet, FS_CardinalityType, SMTT(30)
       DEF AttemptInv
<1>7. CASE UNCHANGED Door!vars
  <2>1. Unbumped' = Unbumped /\ Door!Minute' = Door!Minute /\ UNCHANGED <<failures, conns>>
    BY <1>7 DEF Door!vars, Unbumped, Door!Minute
  <2> QED
    BY <2>1 DEF AttemptInv
<1>8. ASSUME NEW c \in Conns,
             \/ Door!Open(c) \/ \E guess \in Door!Guesses(c) : Door!Login(c, guess)
             \/ Door!Forget(c) \/ Door!Authorize(c) \/ Door!Click(c) \/ Door!Hear(c)
             \/ Door!CloseForGood(c) \/ Door!LoseLink(c) \/ Door!End(c)
             \/ Door!ClearTemporary(c)
      PROVE AttemptInv'
  <2>1. now' = now /\ (failures' = failures \/ failures' = Door!NoEntry)
    BY <1>8 DEF Door!Open, Door!Login, Door!Forget, Door!Authorize, Door!Click, Door!Hear,
                Door!CloseForGood, Door!LoseLink, Door!End, Door!ClearTemporary
  <2> QED
    BY <1>1, <1>8, <2>1, IdleSteps
<1> QED
  BY <1>2, <1>3, <1>4, <1>5, <1>6, <1>7, <1>8 DEF Door!Next

\* AttemptsAreBounded: the failed logins of an address in a minute, and of all time, pass
\* their limits by no more than the connections there are, each of which may have passed
\* check_failure before the others' update_failure; for any limits, connections and
\* sharing of sessions.
THEOREM AttemptsBounded ==
  ASSUME Door!LoginAssumption PROVE Door!Spec => []Door!AttemptsAreBounded
<1>1. Door!Init => LoginTypes /\ AttemptInv
  <2> SUFFICES ASSUME Door!Init PROVE AttemptInv
    BY LoginInitTyped
  <2>1. Unbumped = {} /\ failures = Door!NoEntry
    BY DEF Door!Init, Unbumped, Door!Fresh
  <2>2. Cardinality(Conns) \in Nat /\ Door!Minute >= 1 /\ Door!Minute \in Nat
    BY LoginInitTyped, TypesAre, MinuteTyped, FS_CardinalityType, LoginConstants
  <2> QED
    BY <2>1, <2>2, LoginConstants, FS_EmptySet DEF AttemptInv, Door!NoEntry
<1>2. LoginTypes /\ AttemptInv /\ [Door!Next]_Door!vars => (LoginTypes /\ AttemptInv)'
  BY LoginTyped, AttemptStep
<1>3. LoginTypes /\ AttemptInv => Door!AttemptsAreBounded
  <2> SUFFICES ASSUME LoginTypes, AttemptInv PROVE Door!AttemptsAreBounded
    OBVIOUS
  <2>1. Cardinality(Unbumped) \in Nat /\ Cardinality(Conns) \in Nat
    <3>1. Unbumped \in SUBSET Conns /\ IsFiniteSet(Conns)
      BY LoginConstants DEF Unbumped
    <3> QED
      BY <3>1, FS_Subset, FS_CardinalityType
  <2>2. failures.total \in Nat /\ failures.run \in Nat
    BY TypesAre DEF Entry
  <2> QED
    BY <2>1, <2>2, LoginConstants, HostSets DEF AttemptInv, Door!AttemptsAreBounded
<1> QED
  BY <1>1, <1>2, <1>3, PTL DEF Door!Spec

-----------------------------------------------------------------------------
LEMMA CurrentTyped ==
  ASSUME Door!LoginAssumption, LoginTypes PROVE Door!Current \in 0..Rotate - 1
BY TypesAre, LoginConstants DEF Door!Current

LEMMA UncountedTyped ==
  ASSUME Door!LoginAssumption
  PROVE  /\ Cardinality(Uncounted) \in Nat /\ Cardinality(Conns) \in Nat
         /\ Cardinality(Uncounted) <= Cardinality(Conns)
<1>1. Uncounted \in SUBSET Conns /\ IsFiniteSet(Conns)
  BY LoginConstants DEF Uncounted
<1> QED
  BY <1>1, FS_Subset, FS_CardinalityType

LEMMA CheckSteps ==
  ASSUME LoginTypes, NEW c \in Conns, Door!Check(c)
  PROVE  \E pc \in {"open", "validate"} : Steps1(c, pc)
<1>1. PICK pc : pc = IF Door!IsRefused(failures) THEN "open" ELSE "validate"
  OBVIOUS
<1>2. conns \in [Conns -> Conn]
  BY TypesAre
<1>3. conns' = [conns EXCEPT ![c].seen = failures, ![c].time = Door!Minute, ![c].pc = pc]
  BY <1>1 DEF Door!Check
<1>4. PICK p : p = [conns[c] EXCEPT !.seen = failures, !.time = Door!Minute, !.pc = pc]
  OBVIOUS
<1>5. conns' = [conns EXCEPT ![c] = p]
  BY <1>3, <1>4
<1>6. conns[c] \in Conn
  BY <1>2
<1>7. p.pc = pc
  BY <1>4, <1>6 DEF Conn
<1>8. Steps1(c, pc)
  BY <1>2, <1>5, <1>7 DEF Steps1
<1> QED
  BY <1>1, <1>8

\* Nothing is counted, or everything is forgotten.
LEMMA GuessIdle ==
  ASSUME Door!LoginAssumption, LoginTypes, LoginTypes', GuessInv,
         NEW c \in Conns, NEW pc, Steps1(c, pc),
         conns[c].pc \notin {"bump", "count"}, pc \notin {"bump", "count"},
         misses' = 0 \/ UNCHANGED <<pw, temp, misses>>
  PROVE  GuessInv'
<1>1. Cardinality(Uncounted') \in Nat /\ Cardinality(Uncounted') = Cardinality(Uncounted)
  BY UncountedMoves, LoginConstants
<1>2. CASE misses' = 0
  <2>1. Door!Current' \in 0..Rotate - 1
    BY LoginConstants DEF LoginTypes, Door!TypeOK, Door!Current
  <2> QED
    BY <1>1, <1>2, <2>1, LoginConstants DEF GuessInv
<1>3. CASE UNCHANGED <<pw, temp, misses>>
  BY <1>1, <1>3 DEF GuessInv, Door!Current
<1> QED
  BY <1>2, <1>3

LEMMA GuessStep ==
  ASSUME Door!LoginAssumption, LoginTypes, GuessInv, [Door!Next]_Door!vars
  PROVE  GuessInv'
<1>t. LoginTypes'
  BY LoginTyped
<1>0. /\ misses \in Nat /\ conns \in [Conns -> Conn] /\ IsFiniteSet(Conns)
      /\ temp \in [password : 0..MaxPw, failures : 0..Rotate - 1] /\ pw \in Nat
  BY TypesAre, LoginConstants
<1>c. Door!Current \in Nat /\ Door!Current' \in Nat /\ Cardinality(Uncounted) \in Nat
      /\ Cardinality(Uncounted') \in Nat
  <2>1. Door!Current \in 0..Rotate - 1 /\ Door!Current' \in 0..Rotate - 1
    BY <1>t, CurrentTyped, LoginConstants DEF LoginTypes, Door!TypeOK, Door!Current
  <2>2. PICK T : T = Uncounted'
    OBVIOUS
  <2>3. T \in SUBSET Conns
    BY <2>2 DEF Uncounted
  <2>4. Cardinality(Uncounted) \in Nat /\ Cardinality(T) \in Nat
    BY <2>3, LoginConstants, UncountedTyped, FS_Subset, FS_CardinalityType
  <2> QED
    BY <2>1, <2>2, <2>4, LoginConstants
<1>1. ASSUME NEW c \in Conns,
             \/ Door!Open(c) \/ \E guess \in Door!Guesses(c) : Door!Login(c, guess)
             \/ Door!Forget(c) \/ Door!Authorize(c) \/ Door!Click(c) \/ Door!Hear(c)
             \/ Door!CloseForGood(c) \/ Door!LoseLink(c) \/ Door!End(c)
             \/ Door!ClearTemporary(c)
      PROVE GuessInv'
  <2>1. misses' = 0 \/ UNCHANGED <<pw, temp, misses>>
    BY <1>1 DEF Door!Open, Door!Login, Door!Forget, Door!Authorize, Door!Click, Door!Hear,
                Door!CloseForGood, Door!LoseLink, Door!End, Door!ClearTemporary
  <2>2. PICK pc : Steps1(c, pc) /\ pc \notin {"bump", "count"}
                  /\ conns[c].pc \notin {"bump", "count"}
    BY <1>1, IdleSteps DEF Idly
  <2> QED
    BY <1>t, <2>1, <2>2, GuessIdle
<1>2. ASSUME NEW c \in Conns, Door!Check(c) PROVE GuessInv'
  <2>1. conns[c].pc = "check" /\ UNCHANGED <<pw, temp, misses>>
    BY <1>2 DEF Door!Check, Door!At
  <2> QED
    BY <1>t, <1>2, <2>1, CheckSteps, GuessIdle
<1>3. ASSUME NEW c \in Conns, Door!Validate(c) PROVE GuessInv'
  <2>1. conns[c].pc = "validate" /\ UNCHANGED <<pw, temp>>
    BY <1>3 DEF Door!Validate, Door!At
  <2>2. CASE conns' = [conns EXCEPT ![c].pc = "clear", ![c].temporary = TRUE]
             /\ UNCHANGED misses
    <3>1. conns' = [conns EXCEPT ![c] = [conns[c] EXCEPT !.pc = "clear", !.temporary = TRUE]]
      BY <1>0, <2>2
    <3>2. [conns[c] EXCEPT !.pc = "clear", !.temporary = TRUE].pc = "clear"
      BY <1>0 DEF Conn
    <3>3. Steps1(c, "clear")
      BY <1>0, <3>1, <3>2 DEF Steps1
    <3> QED
      BY <1>t, <2>1, <2>2, <3>3, GuessIdle
  <2>3. CASE Door!Goto(c, "forget") /\ UNCHANGED misses
    BY <1>t, <2>1, <2>3, GotoSteps, GuessIdle
  <2>4. CASE Door!Goto(c, "bump") /\ misses' = misses + 1
    <3>1. Cardinality(Uncounted') = Cardinality(Uncounted) + 1
      BY <1>0, <2>1, <2>4, GotoSteps, UncountedMoves
    <3>2. Door!Current' = Door!Current
      BY <2>1 DEF Door!Current
    <3> QED
      BY <1>0, <1>c, <2>4, <3>1, <3>2 DEF GuessInv
  <2> QED
    BY <1>3, <2>2, <2>3, <2>4 DEF Door!Validate
<1>4. ASSUME NEW c \in Conns, Door!CountTemporary(c) PROVE GuessInv'
  <2>1. conns[c].pc = "count" /\ Door!Goto(c, "open")
    BY <1>4 DEF Door!CountTemporary, Door!At
  <2>2. Cardinality(Uncounted') = Cardinality(Uncounted) - 1
    BY <1>0, <2>1, GotoSteps, UncountedMoves
  <2>3. CASE misses' = 0
    BY <1>c, <2>3 DEF GuessInv
  <2>4. CASE temp' = [password |-> pw, failures |-> Door!Current + 1] /\ UNCHANGED <<pw, misses>>
    <3>1. Door!Current' = Door!Current + 1
      BY <2>4 DEF Door!Current
    <3> QED
      BY <1>0, <1>c, <2>2, <2>4, <3>1 DEF GuessInv
  <2> QED
    BY <1>4, <2>3, <2>4 DEF Door!CountTemporary
<1>5. ASSUME NEW c \in Conns, Door!Bump(c) PROVE GuessInv'
  <2>1. conns[c].pc = "bump" /\ Door!Goto(c, "count") /\ UNCHANGED <<pw, temp, misses>>
    BY <1>5 DEF Door!Bump, Door!At
  <2>2. Cardinality(Uncounted') = Cardinality(Uncounted)
    BY <1>0, <2>1, GotoSteps, UncountedMoves
  <2> QED
    BY <2>1, <2>2 DEF GuessInv, Door!Current
<1>6. CASE Door!Tick \/ UNCHANGED Door!vars
  <2>1. UNCHANGED <<pw, temp, misses, conns>>
    BY <1>6 DEF Door!Tick, Door!vars
  <2> QED
    BY <2>1 DEF GuessInv, Door!Current, Uncounted
<1> QED
  BY <1>1, <1>2, <1>3, <1>4, <1>5, <1>6 DEF Door!Next

\* GuessesAreBounded: a temporary password that was not presented correctly stands fewer
\* wrong attempts than Rotate and the connections there are: check_update_temporary_password
\* counts each of them, though only when the connection's turn comes.
THEOREM GuessesBounded ==
  ASSUME Door!LoginAssumption PROVE Door!Spec => []Door!GuessesAreBounded
<1>1. Door!Init => LoginTypes /\ GuessInv
  <2> SUFFICES ASSUME Door!Init PROVE GuessInv
    BY LoginInitTyped
  <2>1. misses = 0
    BY DEF Door!Init
  <2>2. Door!Current \in 0..Rotate - 1
    BY LoginInitTyped, CurrentTyped
  <2> QED
    BY <2>1, <2>2, UncountedTyped, LoginConstants DEF GuessInv
<1>2. LoginTypes /\ GuessInv /\ [Door!Next]_Door!vars => (LoginTypes /\ GuessInv)'
  BY LoginTyped, GuessStep
<1>3. LoginTypes /\ GuessInv => Door!GuessesAreBounded
  <2> SUFFICES ASSUME LoginTypes, GuessInv PROVE Door!GuessesAreBounded
    OBVIOUS
  <2>1. misses \in Nat /\ Door!Current \in 0..Rotate - 1
    BY TypesAre, CurrentTyped
  <2> QED
    BY <2>1, UncountedTyped, LoginConstants, HostSets DEF GuessInv, Door!GuessesAreBounded
<1> QED
  BY <1>1, <1>2, <1>3, PTL DEF Door!Spec

-----------------------------------------------------------------------------
\* The session of connection c is one that a viewer can come back to.
Alive(c) == sessions[c].password # Door!Empty /\ now - sessions[c].heard < 2

\* Where each viewer has a session key of its own: a login with the temporary password
\* finds its session alive, and so does the first message if it comes at once; from then
\* on connection and session are heard together.
Keeps(c) ==
  /\ conns[c].heard <= now
  /\ ~conns[c].authed => conns[c].spoke = "not"
  /\ conns[c].pc \notin {"open", "closed", "ending"} => ~conns[c].authed
  /\ conns[c].pc \in {"closed", "check", "validate", "bump", "count"} => ~conns[c].temporary
  /\ conns[c].pc = "open" /\ ~conns[c].authed => ~conns[c].temporary
  /\ conns[c].pc \in {"check", "validate"}
       => /\ conns[c].heard = now
          /\ sessions[c] = Door!NoSession \/ now - sessions[c].heard < 2
  /\ conns[c].pc \in {"clear", "forget", "grant"} /\ conns[c].temporary
       => conns[c].heard = now /\ Alive(c)
  /\ conns[c].pc = "open" /\ conns[c].authed /\ conns[c].temporary =>
       /\ conns[c].spoke = "not" /\ conns[c].heard = now => conns[c].linked /\ Alive(c)
       /\ conns[c].spoke = "at once" /\ now - conns[c].heard < 2
            => /\ conns[c].linked /\ Alive(c)
               /\ sessions[c].heard = conns[c].heard

KeepInv == \A c \in Conns : Keeps(c)

\* What another connection's step may do to connection d: nothing, or drop its session
\* that has expired.
Untouched(d) ==
  \/ conns'[d] = conns[d] /\ sessions'[d] = sessions[d]
  \/ /\ now - sessions[d].heard >= 2 /\ sessions'[d] = Door!NoSession
     /\ conns'[d] = [conns[d] EXCEPT !.linked = FALSE]

LEMMA UntouchedKeeps ==
  ASSUME Door!LoginAssumption, LoginTypes, Shared = {}, now' = now,
         NEW d \in Conns, Keeps(d), Untouched(d)
  PROVE  Keeps(d)'
<1>1. /\ conns[d] \in Conn /\ now \in Nat
      /\ sessions[d].heard \in Int /\ conns[d].heard \in Int
  <2>1. conns[d] \in Conn /\ now \in 0..MaxTime /\ Door!KeyOf(d) = d
        /\ sessions \in [Door!Keys -> SessionEntry] /\ Door!KeyOf(d) \in Door!Keys
    BY TypesAre DEF Door!KeyOf, Door!Keys
  <2>2. sessions[d] \in SessionEntry
    BY <2>1
  <2> QED
    BY <2>1, <2>2, LoginConstants DEF Conn, SessionEntry, Times
<1>2. CASE conns'[d] = conns[d] /\ sessions'[d] = sessions[d]
  BY <1>2 DEF Keeps, Alive
<1>3. CASE /\ now - sessions[d].heard >= 2 /\ sessions'[d] = Door!NoSession
           /\ conns'[d] = [conns[d] EXCEPT !.linked = FALSE]
  <2>1. ~Alive(d) /\ ~(now - sessions[d].heard < 2)
    BY <1>1, <1>3 DEF Alive
  <2>2. /\ conns'[d].pc = conns[d].pc /\ conns'[d].heard = conns[d].heard
        /\ conns'[d].authed = conns[d].authed /\ conns'[d].temporary = conns[d].temporary
        /\ conns'[d].spoke = conns[d].spoke
    BY <1>1, <1>3 DEF Conn
  <2> QED
    BY <1>1, <1>3, <2>1, <2>2 DEF Keeps
<1> QED
  BY <1>2, <1>3 DEF Untouched

\* The session key of a viewer that shares none.
LEMMA OwnKey ==
  ASSUME LoginTypes, Shared = {}, NEW c \in Conns
  PROVE  /\ Door!KeyOf(c) = c /\ Door!Keys = Conns /\ conns[c] \in Conn
         /\ sessions[c] \in SessionEntry /\ sessions \in [Conns -> SessionEntry]
         /\ conns \in [Conns -> Conn]
<1>1. \A d \in Conns : Door!KeyOf(d) = d
  BY DEF Door!KeyOf
<1>2. Door!Keys = Conns
  BY <1>1 DEF Door!Keys
<1> QED
  BY <1>1, <1>2, TypesAre

LEMMA Clocks ==
  ASSUME Door!LoginAssumption, LoginTypes, Shared = {}, NEW c \in Conns
  PROVE  now \in Int /\ conns[c].heard \in Int /\ sessions[c].heard \in Int
<1>1. conns[c].heard \in Times /\ sessions[c].heard \in Times
  BY OwnKey DEF Conn, SessionEntry
<1>2. now \in 0..MaxTime /\ MaxTime \in Nat
  BY TypesAre, LoginConstants
<1> QED
  BY <1>1, <1>2 DEF Times

LEMMA KeepGoto ==
  ASSUME Door!LoginAssumption, LoginTypes, Shared = {}, KeepInv, NEW c \in Conns, NEW pc,
         Door!Goto(c, pc), sessions' = sessions, now' = now,
         \/ conns[c].pc = "validate" /\ pc \in {"bump", "forget"}
         \/ conns[c].pc = "bump" /\ pc = "count"
         \/ conns[c].pc = "count" /\ pc = "open"
         \/ conns[c].pc = "clear" /\ pc = "forget"
         \/ conns[c].pc = "forget" /\ pc = "grant"
         \/ conns[c].pc = "open" /\ ~conns[c].authed /\ pc = "grant"
         \/ pc = "ending"
  PROVE  KeepInv'
<1>1. conns' = [conns EXCEPT ![c].pc = pc] /\ conns[c] \in Conn /\ conns \in [Conns -> Conn]
  BY OwnKey DEF Door!Goto
<1>2. \A d \in Conns \ {c} : Untouched(d)
  BY <1>1 DEF Untouched
<1>3. /\ conns'[c].pc = pc /\ conns'[c].heard = conns[c].heard
      /\ conns'[c].authed = conns[c].authed /\ conns'[c].temporary = conns[c].temporary
      /\ conns'[c].spoke = conns[c].spoke
  BY <1>1 DEF Conn
<1>4. Keeps(c)
  BY DEF KeepInv
<1>5. Keeps(c)'
  BY <1>3, <1>4 DEF Keeps, Alive
<1> QED
  BY <1>2, <1>5, UntouchedKeeps DEF KeepInv

LEMMA KeepLogin ==
  ASSUME Door!LoginAssumption, LoginTypes, Shared = {}, KeepInv, NEW c \in Conns,
         NEW guess \in Door!Guesses(c), Door!Login(c, guess)
  PROVE  KeepInv'
<1>1. /\ conns[c].pc = "open" /\ ~conns[c].authed /\ now' = now /\ Door!Retain(Door!Expired)
      /\ \A d \in Conns : sessions'[d] = IF d \in Door!Expired THEN Door!NoSession ELSE sessions[d]
  BY OwnKey DEF Door!Login, Door!At, Door!Retain
<1>2. PICK u \in [Conns -> Conn] : u = Door!Unlinked(Door!Expired)
  BY UnlinkedIs, OwnKey
<1>3. \A d \in Conns : u[d] = IF d \in Door!Expired THEN [conns[d] EXCEPT !.linked = FALSE]
                                ELSE conns[d]
  BY <1>2, OwnKey DEF Door!Unlinked
<1>4. \A d \in Conns : d \in Door!Expired <=>
                          sessions[d] # Door!NoSession /\ now - sessions[d].heard >= 2
  BY OwnKey DEF Door!Expired, Door!IsExpired, Door!SessionTimeout
<1>5. PICK r \in BOOLEAN : r = Door!IsRecentSession(c, guess)
  BY DEF Door!IsRecentSession
<1>6. PICK pc : pc = IF r THEN "grant" ELSE IF guess = Door!Empty THEN "open" ELSE "check"
  OBVIOUS
<1>7. conns' = [u EXCEPT ![c].guess = guess, ![c].asked = TRUE, ![c].heard = now,
                         ![c].temporary = r, ![c].pc = pc]
  BY <1>2, <1>5, <1>6, Zenon DEF Door!Login
<1>8. /\ conns'[c].heard = now /\ conns'[c].temporary = r /\ conns'[c].pc = pc
      /\ conns'[c].authed = u[c].authed /\ conns'[c].spoke = u[c].spoke
      /\ \A d \in Conns \ {c} : conns'[d] = u[d]
  BY <1>7 DEF Conn
<1>9. u[c].authed = conns[c].authed /\ u[c].spoke = conns[c].spoke
  BY <1>3, OwnKey DEF Conn
<1>10. \A d \in Conns \ {c} : Untouched(d)
  BY <1>1, <1>3, <1>4, <1>8 DEF Untouched
<1>11. r => /\ c \notin Door!Expired /\ sessions[c] # Door!NoSession
            /\ sessions[c].password # Door!Empty
  BY <1>5, OwnKey DEF Door!IsRecentSession
<1>12. now \in Int /\ sessions[c].heard \in Int
  BY TypesAre, OwnKey, LoginConstants DEF SessionEntry, Times
<1>13. sessions'[c] = Door!NoSession \/ now - sessions'[c].heard < 2
  BY <1>1, <1>4, <1>12
<1>14. r => sessions'[c].password # Door!Empty /\ now - sessions'[c].heard < 2
  BY <1>1, <1>4, <1>11, <1>12
<1>15. conns[c].spoke = "not"
  BY <1>1 DEF KeepInv, Keeps
<1>16. Keeps(c)'
  BY <1>1, <1>6, <1>8, <1>9, <1>12, <1>13, <1>14, <1>15 DEF Keeps, Alive
<1> QED
  BY <1>1, <1>10, <1>16, UntouchedKeeps DEF KeepInv

LEMMA KeepStep ==
  ASSUME Door!LoginAssumption, LoginTypes, Shared = {}, KeepInv, [Door!Next]_Door!vars
  PROVE  KeepInv'
<1>0. /\ now \in 0..MaxTime /\ now \in Int /\ MaxTime \in Nat /\ pw \in 1..MaxPw /\ MaxPw \in Nat
      /\ conns \in [Conns -> Conn]
  BY TypesAre, LoginConstants
<1>k. \A c \in Conns :
        /\ Door!KeyOf(c) = c /\ conns[c] \in Conn /\ sessions[c] \in SessionEntry
        /\ sessions[c].heard \in Int /\ conns[c].heard \in Int /\ Keeps(c)
  BY OwnKey, Clocks DEF KeepInv
<1>s. sessions \in [Conns -> SessionEntry] /\ Door!Keys = Conns
  <2>1. \A c \in Conns : Door!KeyOf(c) = c
    BY <1>k
  <2>2. Door!Keys = Conns
    BY <2>1 DEF Door!Keys
  <2> QED
    BY <2>2, TypesAre
<1>1. ASSUME NEW c \in Conns, Door!Open(c) PROVE KeepInv'
  <2>1. /\ conns' = [conns EXCEPT ![c] = [Door!Fresh EXCEPT !.pc = "open", !.heard = now]]
        /\ sessions' = sessions /\ now' = now
    BY <1>1 DEF Door!Open
  <2>2. /\ conns'[c].pc = "open" /\ conns'[c].heard = now /\ conns'[c].authed = FALSE
        /\ conns'[c].temporary = FALSE /\ conns'[c].spoke = "not"
    BY <1>0, <2>1 DEF Door!Fresh
  <2>k. now <= now
    BY <1>0
  <2>3. Keeps(c)'
    BY <2>k, <2>1, <2>2 DEF Keeps
  <2>4. \A d \in Conns \ {c} : Untouched(d)
    BY <1>0, <2>1 DEF Untouched
  <2> QED
    BY <1>k, <2>1, <2>3, <2>4, UntouchedKeeps DEF KeepInv
<1>2. ASSUME NEW c \in Conns, NEW guess \in Door!Guesses(c), Door!Login(c, guess)
      PROVE KeepInv'
  BY <1>2, KeepLogin
<1>3. ASSUME NEW c \in Conns, Door!Check(c) PROVE KeepInv'
  <2>1. PICK pc : pc = IF Door!IsRefused(failures) THEN "open" ELSE "validate"
    OBVIOUS
  <2>2. /\ conns' = [conns EXCEPT ![c].seen = failures, ![c].time = Door!Minute, ![c].pc = pc]
        /\ conns[c].pc = "check" /\ sessions' = sessions /\ now' = now
    BY <1>3, <2>1 DEF Door!Check, Door!At
  <2>3. PICK p : p = [conns[c] EXCEPT !.seen = failures, !.time = Door!Minute, !.pc = pc]
    OBVIOUS
  <2>4. conns' = [conns EXCEPT ![c] = p]
    BY <2>2, <2>3
  <2>5. /\ p.pc = pc /\ p.heard = conns[c].heard /\ p.authed = conns[c].authed
        /\ p.temporary = conns[c].temporary /\ p.spoke = conns[c].spoke
    BY <1>k, <2>3 DEF Conn
  <2>6. conns'[c] = p
    BY <1>0, <2>4
  <2>k. Keeps(c) /\ pc \in {"open", "validate"}
    BY <1>k, <2>1
  <2>7. Keeps(c)'
    BY <2>k, <2>2, <2>5, <2>6 DEF Keeps, Alive
  <2>8. \A d \in Conns \ {c} : Untouched(d)
    BY <1>0, <2>2, <2>4 DEF Untouched
  <2> QED
    BY <1>k, <2>2, <2>7, <2>8, UntouchedKeeps DEF KeepInv
<1>4. ASSUME NEW c \in Conns, Door!Validate(c) PROVE KeepInv'
  <2>1. conns[c].pc = "validate" /\ now' = now
    BY <1>4 DEF Door!Validate, Door!At
  <2>2. CASE /\ conns[c].guess = pw
             /\ sessions' = [sessions EXCEPT ![Door!KeyOf(c)] =
                                Door!Renewed(@, conns[c].guess)]
             /\ conns' = [conns EXCEPT ![c].pc = "clear", ![c].temporary = TRUE]
    <3>1. PICK s \in SessionEntry : s = sessions[c] /\ sessions' = [sessions EXCEPT ![c] =
                                Door!Renewed(s, pw)]
      BY <1>k, <1>s, <2>2
    <3>2. PICK p : p = [conns[c] EXCEPT !.pc = "clear", !.temporary = TRUE]
      OBVIOUS
    <3>3. conns' = [conns EXCEPT ![c] = p]
      BY <2>2, <3>2
    <3>4. /\ p.pc = "clear" /\ p.heard = conns[c].heard /\ p.authed = conns[c].authed
          /\ p.temporary = TRUE /\ p.spoke = conns[c].spoke
      BY <1>k, <3>2 DEF Conn
    <3>5. conns'[c] = p /\ sessions'[c] = Door!Renewed(s, pw)
      BY <1>0, <1>s, <3>1, <3>3
    <3>6. conns[c].heard = now /\ (s = Door!NoSession \/ now - s.heard < 2)
      BY <1>k, <2>1, <3>1 DEF Keeps
    <3>7. /\ Door!Renewed(s, pw).password = pw
          /\ now - Door!Renewed(s, pw).heard < 2
      BY <1>0, <3>6 DEF Door!Renewed, SessionEntry
    <3>8. pw # Door!Empty
      BY <1>0 DEF Door!Empty
    <3>9. Keeps(c)'
      BY <1>k, <2>1, <3>4, <3>5, <3>6, <3>7, <3>8 DEF Keeps, Alive
    <3>10. \A d \in Conns \ {c} : Untouched(d)
      BY <1>0, <1>s, <3>1, <3>3 DEF Untouched
    <3> QED
      BY <1>k, <2>1, <3>9, <3>10, UntouchedKeeps DEF KeepInv
  <2>3. CASE Door!Goto(c, "forget") /\ UNCHANGED sessions
    BY <2>1, <2>3, KeepGoto
  <2>4. CASE Door!Goto(c, "bump") /\ UNCHANGED sessions
    BY <2>1, <2>4, KeepGoto
  <2> QED
    BY <1>4, <2>2, <2>3, <2>4 DEF Door!Validate
<1>5. ASSUME NEW c \in Conns,
             \/ Door!ClearTemporary(c) \/ Door!CountTemporary(c) \/ Door!Bump(c)
             \/ Door!Forget(c) \/ Door!Click(c) \/ Door!LoseLink(c)
      PROVE KeepInv'
  <2>1. now' = now /\ sessions' = sessions
    BY <1>5 DEF Door!ClearTemporary, Door!CountTemporary, Door!Bump, Door!Forget, Door!Click,
                Door!LoseLink
  <2>2. PICK pc :
          /\ Door!Goto(c, pc)
          /\ \/ conns[c].pc = "bump" /\ pc = "count"
             \/ conns[c].pc = "count" /\ pc = "open"
             \/ conns[c].pc = "clear" /\ pc = "forget"
             \/ conns[c].pc = "forget" /\ pc = "grant"
             \/ conns[c].pc = "open" /\ ~conns[c].authed /\ pc = "grant"
             \/ pc = "ending"
    BY <1>5 DEF Door!ClearTemporary, Door!CountTemporary, Door!Bump, Door!Forget, Door!Click,
                Door!LoseLink, Door!At
  <2> QED
    BY <2>1, <2>2, KeepGoto
<1>6. ASSUME NEW c \in Conns, Door!Authorize(c) PROVE KeepInv'
  <2>1. PICK l \in BOOLEAN : l = (sessions[c] # Door!NoSession)
    OBVIOUS
  <2>2. PICK p : p = [conns[c] EXCEPT !.pc = "open", !.authed = TRUE, !.linked = l]
    OBVIOUS
  <2>3. /\ conns' = [conns EXCEPT ![c] = p] /\ conns[c].pc = "grant"
        /\ sessions' = sessions /\ now' = now
    BY <1>k, <1>6, <2>1, <2>2 DEF Door!Authorize, Door!At
  <2>4. /\ p.pc = "open" /\ p.heard = conns[c].heard /\ p.authed = TRUE
        /\ p.temporary = conns[c].temporary /\ p.spoke = conns[c].spoke /\ p.linked = l
    BY <1>k, <2>2 DEF Conn
  <2>5. conns'[c] = p
    BY <1>0, <2>3
  <2>6. conns[c].spoke = "not"
    BY <1>k, <2>3 DEF Keeps
  <2>k. Keeps(c)
    BY <1>k
  <2>a. conns[c].temporary => conns[c].heard = now /\ Alive(c)
    BY <2>k, <2>3 DEF Keeps
  <2>b. Alive(c) => sessions[c] # Door!NoSession
    BY DEF Alive, Door!NoSession
  <2>7. conns[c].temporary => conns[c].heard = now /\ Alive(c) /\ l
    BY <2>a, <2>b, <2>1
  <2>8. Keeps(c)'
    BY <2>k, <2>3, <2>4, <2>5, <2>6, <2>7 DEF Keeps, Alive
  <2>9. \A d \in Conns \ {c} : Untouched(d)
    BY <1>0, <2>3 DEF Untouched
  <2> QED
    BY <1>k, <2>3, <2>8, <2>9, UntouchedKeeps DEF KeepInv
<1>7. ASSUME NEW c \in Conns, Door!Hear(c) PROVE KeepInv'
  <2>1. PICK spoke : spoke = CASE conns[c].spoke # "not" -> conns[c].spoke
                               [] conns[c].heard = now -> "at once"
                               [] OTHER -> "late"
    OBVIOUS
  <2>2. PICK p : p = [conns[c] EXCEPT !.heard = now, !.spoke = spoke]
    OBVIOUS
  <2>k. /\ now \in Int /\ conns[c].heard \in Int /\ Door!KeyOf(c) = c
        /\ sessions[c] \in SessionEntry /\ conns[c] \in Conn
    BY <1>0, <1>k
  <2>q. Keeps(c)
    BY <1>k
  <2>a. /\ conns[c].pc = "open" /\ conns[c].authed /\ now' = now /\ ~Door!IsSilent(c)
        /\ conns[c].heard # now \/ conns[c].spoke = "not"
    BY <1>7 DEF Door!Hear, Door!At
  <2>b. now - conns[c].heard < 2
    BY <2>k, <2>a DEF Door!IsSilent, Door!SessionTimeout
  <2>c. conns' = [conns EXCEPT ![c].heard = now, ![c].spoke = spoke]
    BY <1>7, <2>1, Zenon DEF Door!Hear
  <2>d. sessions' = IF conns[c].linked THEN [sessions EXCEPT ![Door!KeyOf(c)].heard = now]
                    ELSE sessions
    BY <1>7 DEF Door!Hear
  <2>3. /\ conns' = [conns EXCEPT ![c] = p] /\ conns[c].pc = "open" /\ conns[c].authed
        /\ now' = now /\ now - conns[c].heard < 2
        /\ sessions' = IF conns[c].linked THEN [sessions EXCEPT ![c].heard = now] ELSE sessions
    BY <1>0, <2>k, <2>2, <2>a, <2>b, <2>c, <2>d
  <2>4. /\ p.pc = "open" /\ p.heard = now /\ p.authed
        /\ p.temporary = conns[c].temporary /\ p.spoke = spoke /\ p.linked = conns[c].linked
    BY <1>k, <2>2, <2>3 DEF Conn
  <2>5. conns'[c] = p
    BY <1>0, <2>3
  <2>6. conns[c].linked => /\ sessions'[c].password = sessions[c].password
                           /\ sessions'[c].heard = now
    BY <1>k, <1>s, <2>3 DEF SessionEntry
  <2>7. ASSUME spoke = "at once" /\ conns[c].temporary PROVE Keeps(c)'
    <3>1. (conns[c].spoke = "not" /\ conns[c].heard = now) \/ conns[c].spoke = "at once"
      <4>1. CASE conns[c].spoke # "not"
        BY <2>1, <2>7, <2>a, <4>1
      <4>2. CASE conns[c].spoke = "not" /\ conns[c].heard # now
        BY <2>1, <2>7, <4>2
      <4> QED
        BY <4>1, <4>2
    <3>2. conns[c].linked /\ sessions[c].password # Door!Empty
      BY <2>q, <2>3, <2>7, <3>1 DEF Keeps, Alive
    <3>3. now - now < 2 /\ now <= now
      BY <2>k
    <3>4. Alive(c)'
      BY <2>3, <2>6, <3>2, <3>3 DEF Alive
    <3>5. sessions'[c].heard = now /\ conns'[c].linked
      BY <2>4, <2>5, <2>6, <3>2
    <3> QED
      BY <2>3, <2>4, <2>5, <2>7, <3>3, <3>4, <3>5 DEF Keeps
  <2>8. ASSUME spoke # "at once" \/ ~conns[c].temporary PROVE Keeps(c)'
    <3>1. spoke # "not"
      BY <2>1
    <3>2. now <= now
      BY <2>k
    <3> QED
      BY <2>3, <2>4, <2>5, <2>8, <3>1, <3>2 DEF Keeps
  <2>9. \A d \in Conns \ {c} : Untouched(d)
    BY <1>0, <1>s, <2>3 DEF Untouched
  <2> QED
    BY <1>k, <2>3, <2>7, <2>8, <2>9, UntouchedKeeps DEF KeepInv
<1>8. ASSUME NEW c \in Conns, Door!CloseForGood(c) PROVE KeepInv'
  <2>1. PICK gone \in SUBSET {c} :
          /\ Door!Retain(gone) /\ conns' = [Door!Unlinked(gone) EXCEPT ![c].pc = "ending"]
          /\ now' = now
    BY <1>k, <1>8 DEF Door!CloseForGood
  <2>2. PICK u \in [Conns -> Conn] : u = Door!Unlinked(gone)
    BY <1>0, UnlinkedIs
  <2>3. /\ u[c] \in {conns[c], [conns[c] EXCEPT !.linked = FALSE]}
        /\ \A d \in Conns \ {c} : u[d] = conns[d]
    BY <1>0, <1>k, <2>1, <2>2, UnlinkedIs
  <2>4. /\ conns'[c].pc = "ending" /\ conns'[c].heard = u[c].heard
        /\ conns'[c].authed = u[c].authed /\ conns'[c].spoke = u[c].spoke
        /\ \A d \in Conns \ {c} : conns'[d] = u[d]
    BY <2>1, <2>2 DEF Conn
  <2>k. conns[c] \in Conn /\ Keeps(c)
    BY <1>k
  <2>l. PICK p \in Conn : p = conns[c]
    BY <2>k
  <2>m. [p EXCEPT !.linked = FALSE].heard = p.heard
        /\ [p EXCEPT !.linked = FALSE].authed = p.authed
        /\ [p EXCEPT !.linked = FALSE].spoke = p.spoke
    BY DEF Conn
  <2>5. u[c].heard = conns[c].heard /\ u[c].authed = conns[c].authed /\ u[c].spoke = conns[c].spoke
    BY <2>3, <2>l, <2>m
  <2>6. \A d \in Conns \ {c} : sessions'[d] = sessions[d]
    BY <1>s, <2>1 DEF Door!Retain
  <2>7. Keeps(c)'
    BY <2>k, <2>1, <2>4, <2>5 DEF Keeps
  <2>8. \A d \in Conns \ {c} : Untouched(d)
    <3> SUFFICES ASSUME NEW d \in Conns \ {c} PROVE Untouched(d)
      OBVIOUS
    <3>1. conns'[d] = conns[d] /\ sessions'[d] = sessions[d]
      BY <2>3, <2>4, <2>6
    <3> QED
      BY <3>1 DEF Untouched
  <2> QED
    BY <1>k, <2>1, <2>7, <2>8, UntouchedKeeps DEF KeepInv
<1>9. ASSUME NEW c \in Conns, Door!End(c) PROVE KeepInv'
  <2>1. conns' = [conns EXCEPT ![c] = Door!Fresh] /\ sessions' = sessions /\ now' = now
    BY <1>9 DEF Door!End
  <2>2. /\ conns'[c].pc = "closed" /\ conns'[c].heard = 0 /\ conns'[c].authed = FALSE
        /\ conns'[c].temporary = FALSE /\ conns'[c].spoke = "not"
    BY <1>0, <2>1 DEF Door!Fresh
  <2>k. 0 <= now
    BY <1>0
  <2>3. Keeps(c)'
    BY <2>k, <2>1, <2>2 DEF Keeps
  <2>4. \A d \in Conns \ {c} : Untouched(d)
    BY <1>0, <2>1 DEF Untouched
  <2> QED
    BY <1>k, <2>1, <2>3, <2>4, UntouchedKeeps DEF KeepInv
<1>10. CASE Door!Tick
  <2>1. now' = now + 1 /\ UNCHANGED <<conns, sessions>>
        /\ \A c \in Conns : conns[c].pc \in {"closed", "open"}
    BY <1>10 DEF Door!Tick, Door!At
  <2>2. ASSUME NEW c \in Conns PROVE Keeps(c)'
    <3>1. /\ conns[c].heard <= now + 1 /\ conns[c].heard # now + 1
          /\ (now + 1) - conns[c].heard < 2 => now - conns[c].heard < 2
          /\ sessions[c].heard = conns[c].heard
                => ((now + 1) - conns[c].heard < 2 => (now + 1) - sessions[c].heard < 2)
      <4>1. now \in Int /\ conns[c].heard \in Int /\ sessions[c].heard \in Int
            /\ conns[c].heard <= now
        BY <1>0, <1>k DEF Keeps
      <4> QED
        BY <4>1
    <3>2. Keeps(c)
      BY <1>k
    <3> QED
      BY <2>1, <3>1, <3>2 DEF Keeps, Alive
  <2> QED
    BY <2>2 DEF KeepInv
<1>11. CASE UNCHANGED Door!vars
  BY <1>11 DEF Door!vars, KeepInv, Keeps, Alive
<1> QED
  BY <1>1, <1>2, <1>3, <1>4, <1>5, <1>6, <1>7, <1>8, <1>9, <1>10, <1>11 DEF Door!Next

LEMMA Heard ==
  ASSUME Door!LoginAssumption, LoginTypes, Shared = {}, NEW c \in Conns, ~Door!IsSilent(c)
  PROVE  now - conns[c].heard < 2
<1>1. PICK n \in Int, h \in Int : n = now /\ h = conns[c].heard
  BY Clocks
<1>2. ~(n - h >= 2)
  BY <1>1 DEF Door!IsSilent, Door!SessionTimeout
<1> QED
  BY <1>1, <1>2

\* RemoteKeepsSession: a remote control let in with the temporary password whose viewer is
\* heard at once has an entry in SESSIONS that it can come back to, however the password
\* changes meanwhile; for viewers that share no session key.
THEOREM SessionsKept ==
  ASSUME Door!LoginAssumption, Shared = {} PROVE Door!Spec => []Door!RemoteKeepsSession
<1>1. Door!Init => LoginTypes /\ KeepInv
  <2> SUFFICES ASSUME Door!Init PROVE LoginTypes /\ KeepInv
    OBVIOUS
  <2>1. ASSUME NEW c \in Conns PROVE Keeps(c)
    <3>1. /\ conns[c].pc = "closed" /\ conns[c].heard = 0 /\ conns[c].authed = FALSE
          /\ conns[c].temporary = FALSE /\ conns[c].spoke = "not" /\ now = 0
      BY DEF Door!Init, Door!Fresh
    <3> QED
      BY <3>1 DEF Keeps
  <2> QED
    BY <2>1, LoginInitTyped DEF KeepInv
<1>2. LoginTypes /\ KeepInv /\ [Door!Next]_Door!vars => (LoginTypes /\ KeepInv)'
  BY LoginTyped, KeepStep
<1>3. LoginTypes /\ KeepInv => Door!RemoteKeepsSession
  <2> SUFFICES ASSUME LoginTypes, KeepInv, NEW c \in Remote, conns[c].authed,
                      conns[c].temporary, conns[c].spoke = "at once", conns[c].pc = "open",
                      ~Door!IsSilent(c)
               PROVE  conns[c].linked /\ sessions[Door!KeyOf(c)].password # Door!Empty
    BY DEF Door!RemoteKeepsSession, Door!At
  <2>1. c \in Conns
    BY DEF Door!LoginAssumption
  <2>2. now \in Int /\ conns[c].heard \in Int /\ Door!KeyOf(c) = c
    BY <2>1, OwnKey, Clocks
  <2>3. now - conns[c].heard < 2
    BY <2>1, Heard
  <2> QED
    BY <2>1, <2>2, <2>3 DEF KeepInv, Keeps, Alive
<1> QED
  BY <1>1, <1>2, <1>3, PTL DEF Door!Spec

-----------------------------------------------------------------------------
(* Privacy mode.                                                           *)

\* A thread that works has the lock, and its connection waits for it, or for the
\* lock after its time is over.
ThreadInv ==
  /\ \A c \in Conns : threads[c] = "works" <=> lock = c
  /\ \A c \in Conns : threads[c] # "none" => conns[c].at \in {"waiting", "erring"}
  /\ \A c \in Conns : conns[c].at = "erring" => threads[c] # "wants"

\* The connection of a privacy mode is there, and was permitted to ask for it; in
\* peace it has not been told that it is off.
HolderInv ==
  /\ \A c \in Conns :
       conns[c].at \in {"asking", "waiting", "checking", "erring", "offing"}
         => conns[c].permitted
  /\ \A c \in Conns : holder = c =>
       /\ conns[c].at \notin {"out", "login"}
       /\ conns[c].at = "idle" => conns[c].permitted /\ told[c] # "off"

Slowly == Slow = {} \/ \A c, d \in Conns : c = d

PrivacyInv ==
  /\ Privacy!TypeOK /\ ThreadInv /\ HolderInv
  /\ Slow = {} => \A c \in Conns : threads[c] = "none"

\* turn_on_privacy_sync leaves privacy mode with the one who asked, with whom had it,
\* or with nobody; it is refused by the plugin only in the last case.
LEMMA OutcomeIs ==
  ASSUME Privacy!PrivacyAssumption, Privacy!TypeOK, NEW c \in Conns,
         NEW want \in Impls, NEW o \in Privacy!Outcomes(c, want)
  PROVE  /\ o.holder \in {c, holder, NoConn} /\ o.impl \in Impls
         /\ o.answer \in {"checking", "erring", "idle"}
         /\ o.answer = "idle" => o.holder = NoConn
         /\ o.holder = holder \/ o.holder = NoConn \/ o.answer = "checking"
BY DEF Privacy!PrivacyAssumption, Privacy!TypeOK, Privacy!Outcomes

LEMMA PrivacyMoves ==
  ASSUME Privacy!PrivacyAssumption, Slowly, PrivacyInv, Privacy!Next
  PROVE  PrivacyInv'
<1> USE DEF PrivacyInv, Privacy!TypeOK, Privacy!Places, Privacy!At, Privacy!Goto,
            Privacy!Tell, Privacy!Free
<1>a. NoConn \notin Conns
  BY DEF Privacy!PrivacyAssumption
<1>1. ASSUME NEW c \in Conns, Privacy!Login(c) PROVE PrivacyInv'
  <2>1. PICK p : /\ p = [conns[c] EXCEPT !.at = "login", !.permitted = TRUE]
                 /\ conns' = [conns EXCEPT ![c] = p]
    BY <1>1 DEF Privacy!Login
  <2>2. p \in [at : Privacy!Places, want : Impls, permitted : BOOLEAN] /\ p.at = "login"
    BY <2>1
  <2> QED
    BY <1>1, <1>a, <2>1, <2>2 DEF Privacy!Login, ThreadInv, HolderInv
<1>2. ASSUME NEW c \in Conns, Privacy!Enter(c) PROVE PrivacyInv'
  BY <1>2, <1>a DEF Privacy!Enter, ThreadInv, HolderInv
<1>3. ASSUME NEW c \in Conns, Privacy!Close(c) PROVE PrivacyInv'
  BY <1>3, <1>a DEF Privacy!Close, ThreadInv, HolderInv
<1>4. ASSUME NEW c \in Conns, Privacy!Leave(c) PROVE PrivacyInv'
  BY <1>4, <1>a DEF Privacy!Leave, ThreadInv, HolderInv
<1>5. ASSUME NEW c \in Conns, NEW want \in Impls, Privacy!AskOn(c, want) PROVE PrivacyInv'
  BY <1>5, <1>a, SMTT(30) DEF Privacy!AskOn, ThreadInv, HolderInv
<1>6. ASSUME NEW c \in Conns, Privacy!TurnOn(c) PROVE PrivacyInv'
  <2>1. PICK o \in Privacy!Outcomes(c, conns[c].want) :
          /\ holder' = o.holder /\ impl' = o.impl
          /\ conns' = [conns EXCEPT ![c].at = o.answer]
          /\ told' = IF o.answer = "idle" THEN [told EXCEPT ![c] = "off"] ELSE told
    BY <1>6 DEF Privacy!TurnOn
  <2> QED
    BY <1>6, <2>1, <1>a, OutcomeIs DEF Privacy!TurnOn, ThreadInv, HolderInv
<1>7. ASSUME NEW c \in Conns, Privacy!StartThread(c) PROVE PrivacyInv'
  BY <1>7, <1>a DEF Privacy!StartThread, ThreadInv, HolderInv
<1>8. ASSUME NEW c \in Conns, Privacy!ThreadTakes(c) PROVE PrivacyInv'
  BY <1>8, <1>a DEF Privacy!ThreadTakes, ThreadInv, HolderInv
<1>9. ASSUME NEW c \in Conns, Privacy!ThreadEnds(c) PROVE PrivacyInv'
  <2>1. PICK o \in Privacy!Outcomes(c, conns[c].want) :
          /\ holder' = o.holder /\ impl' = o.impl
          /\ IF conns[c].at = "waiting"
             THEN /\ conns' = [conns EXCEPT ![c].at = o.answer]
                  /\ told' = IF o.answer = "idle" THEN [told EXCEPT ![c] = "off"] ELSE told
             ELSE UNCHANGED <<conns, told>>
    BY <1>9 DEF Privacy!ThreadEnds
  <2>2. /\ threads[c] = "works" /\ threads' = [threads EXCEPT ![c] = "none"]
        /\ lock' = NoConn /\ UNCHANGED notices /\ lock = c
    BY <1>9 DEF Privacy!ThreadEnds, ThreadInv
  <2>3. conns[c].at \in {"waiting", "erring"} /\ Slow # {}
    BY <2>2 DEF ThreadInv
  <2>4. \A d \in Conns : d = c
    BY <2>3 DEF Slowly
  <2> QED
    BY <2>1, <2>2, <2>3, <2>4, <1>a, OutcomeIs DEF ThreadInv, HolderInv
<1>10. ASSUME NEW c \in Conns, Privacy!Timeout(c) PROVE PrivacyInv'
  <2>1. threads[c] = "works"
    BY <1>10, <1>a DEF Privacy!Timeout, ThreadInv, Slowly
  <2> QED
    BY <1>10, <2>1, <1>a DEF Privacy!Timeout, ThreadInv, HolderInv
<1>11. ASSUME NEW c \in Conns, Privacy!CheckPasses(c) PROVE PrivacyInv'
  BY <1>11, <1>a DEF Privacy!CheckPasses, ThreadInv, HolderInv
<1>12. ASSUME NEW c \in Conns, Privacy!CheckFails(c) PROVE PrivacyInv'
  BY <1>12, <1>a DEF Privacy!CheckFails, ThreadInv, HolderInv
<1>13. ASSUME NEW c \in Conns, Privacy!LookAfterError(c) PROVE PrivacyInv'
  <2>1. threads[c] = "none" /\ conns[c].permitted
    BY <1>13, <1>a DEF Privacy!LookAfterError, ThreadInv, HolderInv
  <2>2. CASE holder = NoConn
    BY <1>13, <2>1, <2>2, <1>a, SMTT(30) DEF Privacy!LookAfterError, ThreadInv, HolderInv
  <2>3. CASE holder # NoConn
    <3>1. PICK p : p = [conns[c] EXCEPT !.at = "offing"] /\ conns' = [conns EXCEPT ![c] = p]
      BY <1>13, <2>3 DEF Privacy!LookAfterError
    <3>2. /\ p \in [at : Privacy!Places, want : Impls, permitted : BOOLEAN]
          /\ p.at = "offing" /\ p.permitted
      BY <2>1, <3>1
    <3> QED
      BY <1>13, <2>1, <2>3, <3>1, <3>2, <1>a
         DEF Privacy!LookAfterError, ThreadInv, HolderInv
  <2> QED
    BY <2>2, <2>3
<1>14. ASSUME NEW c \in Conns, Privacy!TurnOffAfterError(c) PROVE PrivacyInv'
  BY <1>14, <1>a DEF Privacy!TurnOffAfterError, ThreadInv, HolderInv
<1>15. ASSUME NEW c \in Conns, Privacy!AskOff(c) PROVE PrivacyInv'
  BY <1>15, <1>a DEF Privacy!AskOff, ThreadInv, HolderInv
<1>16. ASSUME NEW c \in Conns, Privacy!Permit(c) PROVE PrivacyInv'
  <2>1. PICK p : p = [conns[c] EXCEPT !.permitted = TRUE] /\ conns' = [conns EXCEPT ![c] = p]
    BY <1>16 DEF Privacy!Permit
  <2>2. /\ p \in [at : Privacy!Places, want : Impls, permitted : BOOLEAN]
        /\ p.at = conns[c].at /\ p.permitted
    BY <2>1
  <2> QED
    BY <1>16, <2>1, <2>2, <1>a DEF Privacy!Permit, ThreadInv, HolderInv
<1>17. ASSUME NEW c \in Conns, Privacy!Revoke(c) PROVE PrivacyInv'
  <2>1. PICK p : p = [conns[c] EXCEPT !.permitted = FALSE] /\ conns' = [conns EXCEPT ![c] = p]
    BY <1>17 DEF Privacy!Revoke
  <2>p. PICK q \in [at : Privacy!Places, want : Impls, permitted : BOOLEAN] :
          q = conns[c] /\ q.at = "idle"
    BY <1>17 DEF Privacy!Revoke
  <2>2. p \in [at : Privacy!Places, want : Impls, permitted : BOOLEAN] /\ p.at = "idle"
    BY <2>1, <2>p
  <2>3. holder' # c /\ holder' \in {holder, NoConn}
    BY <1>17, <1>a DEF Privacy!Revoke
  <2>4. Privacy!TypeOK'
    BY <1>17, <2>1, <2>2, <2>3 DEF Privacy!Revoke
  <2> QED
    BY <1>17, <2>1, <2>2, <2>3, <2>4, <1>a DEF Privacy!Revoke, ThreadInv, HolderInv
<1>18. ASSUME NEW c \in Conns, Privacy!Notice(c) PROVE PrivacyInv'
  BY <1>18, <1>a DEF Privacy!Notice, ThreadInv, HolderInv
<1>19. ASSUME Privacy!PressCtrlP PROVE PrivacyInv'
  BY <1>19, <1>a DEF Privacy!PressCtrlP, ThreadInv, HolderInv
<1> HIDE DEF PrivacyInv
<1> QED
  BY <1>1, <1>2, <1>3, <1>4, <1>5, <1>6, <1>7, <1>8, <1>9, <1>10, <1>11, <1>12, <1>13,
     <1>14, <1>15, <1>16, <1>17, <1>18, <1>19 DEF Privacy!Next

LEMMA PrivacyHolds ==
  ASSUME Privacy!PrivacyAssumption, Slowly PROVE Privacy!Spec => []PrivacyInv
<1>1. Privacy!Init => PrivacyInv
  BY DEF Privacy!PrivacyAssumption, Privacy!Init, PrivacyInv, Privacy!TypeOK, Privacy!Places,
         ThreadInv, HolderInv
<1>2. ASSUME PrivacyInv, UNCHANGED Privacy!vars PROVE PrivacyInv'
  BY <1>2 DEF PrivacyInv, Privacy!vars, Privacy!TypeOK, ThreadInv, HolderInv
<1> QED
  BY <1>1, <1>2, PrivacyMoves, PTL DEF Privacy!Spec

\* HolderIsConnected and HolderIsTold: the connection that privacy mode is on for is there,
\* was permitted to turn it on, and when it has nothing in flight was not told by
\* turn_off_privacy that it is off; for any connections and implementations, as long as no
\* implementation takes a thread of its own or only one connection asks.
THEOREM PrivacyIsHeld ==
  ASSUME Privacy!PrivacyAssumption, Slowly
  PROVE  Privacy!Spec => [](Privacy!HolderIsConnected /\ Privacy!HolderIsTold)
<1>1. PrivacyInv => Privacy!HolderIsConnected /\ Privacy!HolderIsTold
  BY DEF PrivacyInv, Privacy!TypeOK, HolderInv, Privacy!HolderIsConnected, Privacy!HolderIsTold,
    Privacy!At
<1> QED
  BY <1>1, PrivacyHolds, PTL

-----------------------------------------------------------------------------
(* The clipboard loop.                                                     *)

Active(t) == loop[t].pc # "away"

LEMMA ClipboardTyped ==
  ASSUME Clipboard!LoopAssumption, Clipboard!TypeOK, [Clipboard!Next]_Clipboard!vars
  PROVE  Clipboard!TypeOK'
<1> USE DEF Clipboard!TypeOK, Clipboard!At, Clipboard!Go, Clipboard!Dropped,
            Clipboard!clipboard, Clipboard!sessions, Clipboard!Round
<1>a. MaxRounds \in Nat
  BY DEF Clipboard!LoopAssumption
<1>1. ASSUME NEW s \in Session, Clipboard!Reconnect(s) PROVE Clipboard!TypeOK'
  <2>1. round[s] + 1 \in 0..MaxRounds
    BY <1>1, <1>a DEF Clipboard!Reconnect
  <2> QED
    BY <1>1, <2>1 DEF Clipboard!Reconnect
<1>2. ASSUME NEW s \in Session, NEW r \in Clipboard!Round, Clipboard!SessionStep(s, r)
      PROVE Clipboard!TypeOK'
  <2>1. CASE Clipboard!Connected(s, r)
    BY <2>1 DEF Clipboard!Connected
  <2>2. CASE Clipboard!PeerInfo(s, r)
    <3>1. Clipboard!Dropped \in [Thread -> [pc : {"away", "look", "wait", "work", "leave"},
                                             stop : BOOLEAN]]
      OBVIOUS
    <3>2. job' \in [Session -> [Clipboard!Round ->
             {"none", "connect", "login", "ready", "over", "look", "unsubscribe", "clear",
              "done"}]]
      BY <2>2 DEF Clipboard!PeerInfo
    <3>3. ASSUME NEW t \in Thread, running' = TRUE, subscriber' = t,
                 loop' = [Clipboard!Dropped EXCEPT ![t] = [pc |-> "look", stop |-> FALSE]]
          PROVE  /\ loop' \in [Thread -> [pc : {"away", "look", "wait", "work", "leave"},
                                          stop : BOOLEAN]]
                 /\ running' \in BOOLEAN /\ subscriber' \in Thread
      <4> HIDE DEF Clipboard!Dropped
      <4> QED
        BY <3>1, <3>3
    <3> HIDE DEF Clipboard!Dropped
    <3> QED
      BY <2>2, <3>2, <3>3 DEF Clipboard!PeerInfo
  <2>3. CASE Clipboard!Over(s, r)
    BY <2>3 DEF Clipboard!Over
  <2>4. CASE Clipboard!SetDisconnected(s, r)
    <3>1. CASE Clipboard!Go(s, r, "done") /\ UNCHANGED state
      BY <2>4, <3>1 DEF Clipboard!SetDisconnected
    <3>2. CASE Clipboard!Go(s, r, "look") /\ state' = [state EXCEPT ![s] = "disconnected"]
      BY <2>4, <3>2 DEF Clipboard!SetDisconnected
    <3> QED
      BY <2>4, <3>1, <3>2 DEF Clipboard!SetDisconnected
  <2>5. CASE Clipboard!TryStop(s, r)
    BY <2>5 DEF Clipboard!TryStop
  <2>6. CASE Clipboard!Unsubscribe(s, r)
    BY <2>6 DEF Clipboard!Unsubscribe
  <2>7. CASE Clipboard!StopRunning(s, r)
    BY <2>7 DEF Clipboard!StopRunning
  <2> QED
    BY <1>2, <2>1, <2>2, <2>3, <2>4, <2>5, <2>6, <2>7 DEF Clipboard!SessionStep
<1>3. ASSUME NEW t \in Thread, Clipboard!LoopStep(t) PROVE Clipboard!TypeOK'
  <2>1. CASE Clipboard!LooksAtRunning(t)
    BY <2>1 DEF Clipboard!LooksAtRunning
  <2>2. CASE Clipboard!WaitEnds(t)
    BY <2>2 DEF Clipboard!WaitEnds
  <2>3. CASE Clipboard!Changes(t) \/ Clipboard!Sent(t)
    BY <2>3 DEF Clipboard!Changes, Clipboard!Sent
  <2>4. CASE Clipboard!Leaves(t)
    BY <2>4 DEF Clipboard!Leaves, Clipboard!Away
  <2> QED
    BY <1>3, <2>1, <2>2, <2>3, <2>4 DEF Clipboard!LoopStep
<1>4. CASE Clipboard!ListenerFails
  BY <1>4 DEF Clipboard!ListenerFails
<1>5. CASE UNCHANGED Clipboard!vars
  BY <1>5 DEF Clipboard!vars
<1> QED
  BY <1>1, <1>2, <1>3, <1>4, <1>5 DEF Clipboard!Next, Clipboard!Finished

LEMMA ClipboardInit ==
  Clipboard!LoopAssumption /\ Clipboard!Init
    => Clipboard!TypeOK /\ \A t \in Thread : ~Active(t)
<1> SUFFICES ASSUME Clipboard!LoopAssumption, Clipboard!Init
             PROVE  Clipboard!TypeOK /\ \A t \in Thread : ~Active(t)
  OBVIOUS
<1>1. loop \in [Thread -> [pc : {"away", "look", "wait", "work", "leave"}, stop : BOOLEAN]]
      /\ \A t \in Thread : ~Active(t)
  BY DEF Clipboard!Init, Clipboard!Away, Active
<1>2. round \in [Session -> 0..MaxRounds]
  BY DEF Clipboard!Init, Clipboard!LoopAssumption
<1> QED
  BY <1>1, <1>2 DEF Clipboard!Init, Clipboard!TypeOK

\* OneListens is inductive: who subscribes, or ends the subscription, has told the
\* thread before it to stop.
LEMMA ListensStep ==
  ASSUME Clipboard!TypeOK, Clipboard!OneListens, [Clipboard!Next]_Clipboard!vars
  PROVE  Clipboard!OneListens'
<1> USE DEF Clipboard!TypeOK, Clipboard!OneListens, Clipboard!Dropped, Clipboard!clipboard
<1>1. CASE UNCHANGED <<loop, subscriber>>
  BY <1>1
<1>2. ASSUME NEW s \in Session, NEW r \in Clipboard!Round, Clipboard!PeerInfo(s, r)
      PROVE  Clipboard!OneListens'
  <2>1. CASE running /\ UNCHANGED Clipboard!clipboard
    BY <1>1, <2>1
  <2>2. ASSUME NEW t \in Thread,
               loop' = [Clipboard!Dropped EXCEPT ![t] = [pc |-> "look", stop |-> FALSE]],
               subscriber' = t
        PROVE  Clipboard!OneListens'
    <3>1. ASSUME NEW u \in Thread, u # t
          PROVE  loop'[u] = IF u = subscriber THEN [loop[u] EXCEPT !.stop = TRUE] ELSE loop[u]
      BY <2>2, <3>1
    <3>2. ASSUME NEW u \in Thread, u # t, u = subscriber
          PROVE  loop'[u].stop
      BY <3>1, <3>2
    <3>3. ASSUME NEW u \in Thread, u # t, u # subscriber
          PROVE  loop[u].pc = "away" \/ loop[u].stop
      BY <3>3
    <3>4. ASSUME NEW u \in Thread, u # t
          PROVE  loop'[u].pc = "away" \/ loop'[u].stop
      BY <3>1, <3>2, <3>3, <3>4
    <3> QED
      BY <2>2, <3>4
  <2> QED
    BY <1>2, <2>1, <2>2, Zenon DEF Clipboard!PeerInfo
<1>3. ASSUME NEW s \in Session, NEW r \in Clipboard!Round, Clipboard!Unsubscribe(s, r)
      PROVE  Clipboard!OneListens'
  BY <1>3 DEF Clipboard!Unsubscribe
<1>4. ASSUME NEW t \in Thread, Clipboard!LoopStep(t) PROVE Clipboard!OneListens'
  BY <1>4 DEF Clipboard!LoopStep, Clipboard!LooksAtRunning, Clipboard!WaitEnds,
              Clipboard!Changes, Clipboard!Sent, Clipboard!Leaves, Clipboard!Away
<1>5. CASE Clipboard!ListenerFails
  BY <1>5 DEF Clipboard!ListenerFails
<1> QED
  BY <1>1, <1>2, <1>3, <1>4, <1>5
     DEF Clipboard!Next, Clipboard!Finished, Clipboard!vars, Clipboard!Reconnect,
         Clipboard!SessionStep, Clipboard!Connected, Clipboard!Over,
         Clipboard!SetDisconnected, Clipboard!TryStop, Clipboard!StopRunning

\* OneListens: of the threads try_start_clipboard started, at most one listens to the
\* clipboard unless it was told to stop; for any sessions, rounds and threads.
THEOREM OneLoopListens ==
  ASSUME Clipboard!LoopAssumption PROVE Clipboard!Spec => []Clipboard!OneListens
<1>1. Clipboard!Init => Clipboard!TypeOK /\ Clipboard!OneListens
  BY ClipboardInit DEF Clipboard!OneListens, Active
<1> QED
  BY <1>1, ClipboardTyped, ListensStep, PTL DEF Clipboard!Spec

-----------------------------------------------------------------------------
\* A connection starts after the session's ones before are done, and is connected
\* from its login to its end.
RoundInv ==
  \A s \in Session, r \in Clipboard!Round :
    /\ job[s][r] \notin {"none", "done"} => r = round[s]
    /\ r > round[s] => job[s][r] = "none"
    /\ job[s][r] \in {"login", "ready"} => state[s] = "connected"

Clearing == \E s \in Session, r \in Clipboard!Round : job[s][r] = "clear"
Stopping == \E s \in Session, r \in Clipboard!Round : job[s][r] \in {"unsubscribe", "clear"}
AnyReady == \E s \in Session, r \in Clipboard!Round : job[s][r] = "ready"
Working(t) == t = subscriber /\ loop[t].pc \in {"look", "wait", "work"} /\ ~loop[t].stop

\* There is one thread.  It works while the loop is to run, until it is stopped; and
\* nobody stops the loop of a session that is ready.
ServedInv ==
  /\ \A t, u \in Thread : Active(t) /\ Active(u) => t = u
  /\ running /\ ~Clearing => \E t \in Thread : Working(t)
  /\ \A t \in Thread : Active(t) /\ ~running => loop[t].stop \/ loop[t].pc = "leave"
  /\ \A t \in Thread : Active(t) /\ Clearing => loop[t].stop
  /\ AnyReady => running /\ ~Stopping

LEMMA RoundStep ==
  ASSUME Clipboard!LoopAssumption, Overlap # "any", Clipboard!TypeOK, RoundInv,
         [Clipboard!Next]_Clipboard!vars
  PROVE  RoundInv'
<1> USE DEF Clipboard!TypeOK, RoundInv, Clipboard!At, Clipboard!Go,
            Clipboard!clipboard, Clipboard!sessions, Clipboard!Round
<1>a. MaxRounds \in Nat
  BY DEF Clipboard!LoopAssumption
<1>1. ASSUME NEW s \in Session, Clipboard!Reconnect(s) PROVE RoundInv'
  <2>1. /\ round[s] \in Nat /\ round[s] + 1 \in 1..MaxRounds
        /\ \A r \in 1..round[s] : job[s][r] = "done"
    BY <1>1, <1>a DEF Clipboard!Reconnect
  <2>2. /\ round' = [round EXCEPT ![s] = round[s] + 1]
        /\ state' = [state EXCEPT ![s] = "connecting"]
        /\ job' = [job EXCEPT ![s][round[s] + 1] = "connect"]
    BY <1>1 DEF Clipboard!Reconnect
  <2> QED
    BY <2>1, <2>2, <1>a
<1>2. ASSUME NEW s \in Session, NEW r \in Clipboard!Round, Clipboard!SessionStep(s, r)
      PROVE RoundInv'
  <2>1. CASE Clipboard!Connected(s, r)
    BY <2>1 DEF Clipboard!Connected
  <2>2. CASE Clipboard!PeerInfo(s, r)
    BY <2>2 DEF Clipboard!PeerInfo
  <2>3. CASE Clipboard!Over(s, r)
    BY <2>3 DEF Clipboard!Over
  <2>4. CASE Clipboard!SetDisconnected(s, r)
    <3>1. CASE Clipboard!Go(s, r, "done") /\ UNCHANGED state
      BY <2>4, <3>1 DEF Clipboard!SetDisconnected
    <3>2. CASE /\ r = round[s] /\ Clipboard!Go(s, r, "look")
               /\ state' = [state EXCEPT ![s] = "disconnected"]
      BY <2>4, <3>2 DEF Clipboard!SetDisconnected
    <3> QED
      BY <2>4, <3>1, <3>2 DEF Clipboard!SetDisconnected
  <2>5. CASE Clipboard!TryStop(s, r)
    BY <2>5 DEF Clipboard!TryStop
  <2>6. CASE Clipboard!Unsubscribe(s, r)
    BY <2>6 DEF Clipboard!Unsubscribe
  <2>7. CASE Clipboard!StopRunning(s, r)
    BY <2>7 DEF Clipboard!StopRunning
  <2> QED
    BY <1>2, <2>1, <2>2, <2>3, <2>4, <2>5, <2>6, <2>7 DEF Clipboard!SessionStep
<1>3. CASE UNCHANGED <<round, state, job>>
  BY <1>3
<1> QED
  BY <1>1, <1>2, <1>3
     DEF Clipboard!Next, Clipboard!Finished, Clipboard!vars, Clipboard!LoopStep,
         Clipboard!LooksAtRunning, Clipboard!WaitEnds, Clipboard!Changes, Clipboard!Sent,
         Clipboard!Leaves, Clipboard!ListenerFails

\* What a step of a session's thread does to the jobs.
LEMMA JobMoves ==
  ASSUME Clipboard!TypeOK, NEW s \in Session, NEW r \in Clipboard!Round, NEW pc,
         Clipboard!Go(s, r, pc)
  PROVE  /\ job'[s][r] = pc
         /\ \A z \in Session, q \in Clipboard!Round :
              <<z, q>> # <<s, r>> => job'[z][q] = job[z][q]
BY DEF Clipboard!TypeOK, Clipboard!Go

LEMMA ServedStep ==
  ASSUME Clipboard!LoopAssumption, Overlap = "none", Fails = FALSE, Clipboard!TypeOK,
         RoundInv, Clipboard!OneListens, ServedInv, [Clipboard!Next]_Clipboard!vars
  PROVE  ServedInv'
<1> USE DEF Active, Working, Clearing, Stopping, AnyReady, Clipboard!clipboard,
            Clipboard!sessions
<1>1. ASSUME NEW s \in Session, Clipboard!Reconnect(s) PROVE ServedInv'
  <2>1. round[s] + 1 \in Clipboard!Round /\ Clipboard!Go(s, round[s] + 1, "connect")
    BY <1>1 DEF Clipboard!Reconnect, Clipboard!TypeOK, Clipboard!LoopAssumption,
                Clipboard!Round
  <2>2. PICK r \in Clipboard!Round : r = round[s] + 1
    BY <2>1
  <2>3. job[s][r] = "none"
    BY <2>2 DEF RoundInv, Clipboard!TypeOK
  <2>4. /\ job'[s][r] = "connect"
        /\ \A z \in Session, q \in Clipboard!Round :
             <<z, q>> # <<s, r>> => job'[z][q] = job[z][q]
    BY <2>1, <2>2, JobMoves
  <2> QED
    BY <1>1, <2>3, <2>4 DEF Clipboard!Reconnect, ServedInv
<1>2. ASSUME NEW s \in Session, NEW r \in Clipboard!Round, Clipboard!SessionStep(s, r)
      PROVE ServedInv'
  <2>1. CASE Clipboard!Connected(s, r)
    BY <2>1, JobMoves DEF Clipboard!Connected, Clipboard!At, ServedInv
  <2>2. CASE Clipboard!PeerInfo(s, r)
    <3>1. /\ ~Clipboard!Disconnecting /\ ~Clipboard!Leaving /\ job[s][r] = "login"
          /\ job'[s][r] = "ready"
          /\ \A z \in Session, q \in Clipboard!Round :
               <<z, q>> # <<s, r>> => job'[z][q] = job[z][q]
      BY <2>2, JobMoves DEF Clipboard!PeerInfo, Clipboard!At
    <3>2. ~Stopping /\ ~Stopping'
      BY <3>1 DEF Clipboard!Disconnecting
    <3>3. CASE running /\ UNCHANGED <<running, loop, subscriber>>
      BY <3>1, <3>2, <3>3 DEF ServedInv
    <3>4. ASSUME ~running,
                 NEW t \in Thread, loop' = [Clipboard!Dropped EXCEPT ![t] =
                                              [pc |-> "look", stop |-> FALSE]],
                 subscriber' = t, running' = TRUE
          PROVE  ServedInv'
      <4>1. \A u \in Thread : ~Active(u)
        BY <3>1, <3>4 DEF ServedInv, Clipboard!Leaving
      <4>2. loop'[t] = [pc |-> "look", stop |-> FALSE]
            /\ \A u \in Thread : u # t => loop'[u].pc = "away"
        BY <3>4, <4>1 DEF Clipboard!Dropped, Clipboard!TypeOK
      <4> QED
        BY <3>1, <3>2, <3>4, <4>2 DEF ServedInv
    <3> QED
      BY <2>2, <3>3, <3>4 DEF Clipboard!PeerInfo
  <2>3. CASE Clipboard!Over(s, r)
    BY <2>3, JobMoves DEF Clipboard!Over, Clipboard!At, ServedInv
  <2>4. CASE Clipboard!SetDisconnected(s, r)
    BY <2>4, JobMoves DEF Clipboard!SetDisconnected, Clipboard!At, ServedInv
  <2>5. CASE Clipboard!TryStop(s, r)
    <3>1. CASE Clipboard!AnyConnected
      BY <2>5, <3>1, JobMoves DEF Clipboard!TryStop, Clipboard!At, ServedInv
    <3>2. CASE ~Clipboard!AnyConnected
      <4>1. ~AnyReady
        BY <3>2 DEF RoundInv, Clipboard!AnyConnected
      <4> QED
        BY <2>5, <3>2, <4>1, JobMoves DEF Clipboard!TryStop, Clipboard!At, ServedInv
    <3> QED
      BY <3>1, <3>2
  <2>6. CASE Clipboard!Unsubscribe(s, r)
    <3>1. /\ job[s][r] = "unsubscribe" /\ job'[s][r] = "clear"
          /\ \A z \in Session, q \in Clipboard!Round :
               <<z, q>> # <<s, r>> => job'[z][q] = job[z][q]
      BY <2>6, JobMoves DEF Clipboard!Unsubscribe, Clipboard!At
    <3>2. Clearing' /\ ~AnyReady'
      BY <3>1 DEF ServedInv
    <3>3. \A t \in Thread : loop'[t].pc = loop[t].pc
                            /\ (Active(t) => loop'[t].stop)
      BY <2>6 DEF Clipboard!Unsubscribe, Clipboard!Dropped, Clipboard!TypeOK,
                  Clipboard!OneListens
    <3> QED
      BY <2>6, <3>2, <3>3 DEF ServedInv, Clipboard!Unsubscribe
  <2>7. CASE Clipboard!StopRunning(s, r)
    <3>1. /\ job[s][r] = "clear" /\ job'[s][r] = "done"
          /\ \A z \in Session, q \in Clipboard!Round :
               <<z, q>> # <<s, r>> => job'[z][q] = job[z][q]
      BY <2>7, JobMoves DEF Clipboard!StopRunning, Clipboard!At
    <3>2. Clearing /\ (Clearing' => Clearing) /\ ~AnyReady'
      BY <3>1 DEF ServedInv
    <3> QED
      BY <2>7, <3>2 DEF ServedInv, Clipboard!StopRunning
  <2> QED
    BY <1>2, <2>1, <2>2, <2>3, <2>4, <2>5, <2>6, <2>7 DEF Clipboard!SessionStep
<1>3. ASSUME NEW t \in Thread, Clipboard!LoopStep(t) PROVE ServedInv'
  <2>1. job' = job /\ subscriber' = subscriber
    BY <1>3 DEF Clipboard!LoopStep, Clipboard!LooksAtRunning, Clipboard!WaitEnds,
                Clipboard!Changes, Clipboard!Sent, Clipboard!Leaves
  <2>2. CASE Clipboard!Leaves(t)
    <3>1. ~AnyReady
      BY <2>2 DEF ServedInv, Clipboard!Leaves
    <3>2. \A u \in Thread : loop'[u].pc = "away"
      BY <2>2 DEF ServedInv, Clipboard!Leaves, Clipboard!TypeOK, Clipboard!Away
    <3> QED
      BY <2>1, <2>2, <3>1, <3>2 DEF ServedInv, Clipboard!Leaves
  <2>3. CASE ~Clipboard!Leaves(t)
    <3>1. /\ running' = running /\ Active(t) /\ \A u \in Thread : u # t => loop'[u] = loop[u]
          /\ loop'[t].stop = loop[t].stop /\ loop'[t].pc # "away"
          /\ loop'[t].pc = "leave" => loop[t].stop \/ ~running
          /\ loop[t].pc = "leave" => loop'[t].pc = "leave"
          /\ ~running /\ ~loop[t].stop => loop'[t].pc = "leave"
          /\ loop'[t].pc \in {"look", "wait", "work", "leave"}
      BY <1>3, <2>3
         DEF Clipboard!LoopStep, Clipboard!LooksAtRunning, Clipboard!WaitEnds, ServedInv,
             Clipboard!Changes, Clipboard!Sent, Clipboard!TypeOK
    <3> QED
      BY <2>1, <3>1 DEF ServedInv
  <2> QED
    BY <2>2, <2>3
<1>4. CASE UNCHANGED Clipboard!vars
  BY <1>4 DEF Clipboard!vars, ServedInv
<1> QED
  BY <1>1, <1>2, <1>3, <1>4 DEF Clipboard!Next, Clipboard!Finished, Clipboard!ListenerFails

\* ReadyIsServed: a session that is up and may use the clipboard finds a loop that works, or
\* one that is about to; where listening does not fail and a connection starts only after
\* the steps of the one before it.
THEOREM ReadyAreServed ==
  ASSUME Clipboard!LoopAssumption, Overlap = "none", Fails = FALSE
  PROVE  Clipboard!Spec => []Clipboard!ReadyIsServed
<1> DEFINE Inv == Clipboard!TypeOK /\ RoundInv /\ Clipboard!OneListens /\ ServedInv
<1>1. Clipboard!Init => Inv
  <2> SUFFICES ASSUME Clipboard!Init PROVE Inv
    OBVIOUS
  <2>1. Clipboard!TypeOK /\ \A t \in Thread : ~Active(t)
    BY ClipboardInit
  <2>2. \A s \in Session, r \in Clipboard!Round : job[s][r] = "none"
    BY DEF Clipboard!Init
  <2> QED
    BY <2>1, <2>2 DEF Clipboard!Init, RoundInv, ServedInv, Clipboard!OneListens, Active,
                      Clearing, Stopping, AnyReady
<1>2. Inv /\ [Clipboard!Next]_Clipboard!vars => Inv'
  BY ClipboardTyped, RoundStep, ListensStep, ServedStep
<1>3. Inv => Clipboard!ReadyIsServed
  <2> SUFFICES ASSUME Inv, NEW s \in Session, Clipboard!Ready(s) PROVE Clipboard!Served
    BY DEF Clipboard!ReadyIsServed
  <2>1. round[s] \in Clipboard!Round
    BY DEF Clipboard!Ready, Clipboard!TypeOK, Clipboard!Round, Clipboard!LoopAssumption
  <2>2. AnyReady
    BY <2>1 DEF Clipboard!Ready, Clipboard!At, AnyReady
  <2> QED
    BY <2>2 DEF ServedInv, Clipboard!Served, Stopping, Clearing, Working
<1> QED
  BY <1>1, <1>2, <1>3, PTL DEF Clipboard!Spec

-----------------------------------------------------------------------------
(* Connecting to a host.                                                   *)

FlowEntry == [pc : Setup!FlowStates, try : 0..Attempts, via : Setup!Jobs]

\* Where a task's job is before it has answered.
Early == {"none", "coming", "read", "again", "handle"}

\* What a viewer has not asked for has no task at the host.
Unasked(f, j) ==
  \/ flow[f].pc = "idle"
  \/ flow[f].pc = "punch" /\ (j.kind = "relay" \/ j.try > flow[f].try)
  \/ flow[f].pc \in {"direct", "ask"} /\ j.kind = "relay" /\ j.try > flow[f].try

UnaskedInv == \A j \in Setup!Jobs : Unasked(j.flow, j) => job[j] = "none"

\* An answer is of a task that has told it, and one told to connect directly does not go
\* to the relay.
ToldInv ==
  \A a \in inbox \cup answers :
    /\ job[a.by] \notin Early
    /\ a.how = "direct" => job[a.by] \in {"listen", "hand", "up", "ended"}

\* A task waits at the relay under its own uuid.
ParkedInv ==
  \A u \in Setup!Jobs : parked[u] \in Setup!Jobs =>
    /\ Setup!UuidOf(parked[u]) = u
    /\ job[parked[u]] \in {"parked", "ended"}

\* A flow goes to the relay under a uuid of its own, and once.
SeatInv ==
  /\ \A f \in Flow : flow[f].pc \in {"join", "parked"} => flow[f].via.flow = f
  /\ \A u \in Setup!Jobs : parked[u] \in Flow =>
       /\ u.flow = parked[u]
       /\ flow[parked[u]].pc \in {"parked", "secure", "up", "failed", "dropped"}

\* A flow that asks for a relay goes by the uuid of its attempt.
AskInv ==
  \A f \in Flow :
    /\ flow[f].pc = "direct" => flow[f].try = 0
    /\ flow[f].pc = "ask" /\ flow[f].try > 0 =>
         flow[f].via = [flow |-> f, try |-> flow[f].try, kind |-> "relay", copy |-> 1]

\* A flow that has a connection has it with a task that serves it, and that did not
\* answer "direct" when a relay is forced.
PairInv ==
  \A f \in Flow : flow[f].pc \in {"secure", "up"} =>
    /\ job[flow[f].via] \in {"hand", "up"}
    /\ flow[f].pc = "up" => job[flow[f].via] = "up"
    /\ ForceRelay => \A a \in inbox \cup answers : a.by = flow[f].via => a.how # "direct"

\* The flow that succeeds has ended the others.
AloneInv ==
  \A f, g \in Flow : f # g /\ flow[f].pc = "up" => flow[g].pc \in {"failed", "dropped"}

SetupInv ==
  /\ Setup!TypeOK /\ UnaskedInv /\ ToldInv /\ ParkedInv /\ SeatInv /\ AskInv /\ PairInv
  /\ AloneInv /\ Setup!WaitsForSomebody

\* The steps that a task of the host may take, ...
Moves ==
  {<<"coming", "ended">>, <<"coming", "again">>, <<"coming", "read">>, <<"again", "ended">>,
   <<"read", "handle">>, <<"handle", "told">>, <<"handle", "listen">>, <<"handle", "ended">>,
   <<"told", "parked">>, <<"told", "hand">>, <<"told", "ended">>, <<"listen", "hand">>,
   <<"listen", "ended">>, <<"parked", "hand">>, <<"parked", "ended">>, <<"hand", "up">>,
   <<"hand", "ended">>, <<"up", "ended">>}

JobEffect(j) ==
  \/ job'[j] = job[j]
  \/ job[j] = "none" /\ job'[j] = "coming" /\ ~Unasked(j.flow, j)'
  \/ /\ <<job[j], job'[j]>> \in Moves
     /\ job[j] \in {"hand", "up"} /\ job'[j] = "ended" => ~Setup!With(j)
     /\ job[j] = "parked" /\ job'[j] = "hand" => parked'[Setup!UuidOf(j)] # j

\* ... what the relay may hold after a step, ...
ParkedEffect(u) ==
  \/ parked'[u] = parked[u]
  \/ parked'[u] \notin Setup!Jobs \cup Flow
  \/ \E f \in Flow : /\ parked'[u] = f /\ flow[f].via = u
                     /\ flow[f].pc = "join" /\ flow'[f].pc = "parked"
  \/ /\ parked'[u] \in Setup!Jobs /\ Setup!UuidOf(parked'[u]) = u
     /\ job'[parked'[u]] = "parked"

\* ... the answers there may be, ...
AnswerEffect ==
  \A a \in inbox' \cup answers' :
    \/ a \in inbox \cup answers
    \/ /\ a.by \in Setup!Jobs /\ job[a.by] = "handle"
       /\ job'[a.by] = IF a.how = "direct" THEN "listen" ELSE "told"

\* ... and the steps that a flow may take.
Answers(f, u) == u.flow = f /\ \E a \in inbox : Setup!UuidOf(a.by) = u

FlowEffect(f) ==
  LET was == flow[f].pc
      is == flow'[f].pc
      try == flow'[f].try
      via == flow'[f].via IN
  \/ flow'[f] = flow[f]
  \/ was \notin {"up", "failed", "dropped"} /\ is \in {"failed", "dropped"}
  \/ was = "idle" /\ is = "punch" /\ try = 1
  \/ was = "punch" /\ is = "punch" /\ try = flow[f].try + 1
  \/ was = "punch" /\ is = "direct" /\ try = 0
  \/ was = "punch" /\ is = "join" /\ Answers(f, via)
  \/ was = "direct" /\ is = "ask" /\ try = flow[f].try
  \/ was = "ask" /\ is = "ask" /\ try = flow[f].try + 1
       /\ via = [flow |-> f, try |-> try, kind |-> "relay", copy |-> 1]
  \/ was = "ask" /\ is = "join" /\ Answers(f, via)
  \/ was = "join" /\ is = "parked" /\ via = flow[f].via
  \/ was = "direct" /\ is = "secure" /\ ~ForceRelay
       /\ job[via] = "listen" /\ job'[via] = "hand"
  \/ was \in {"join", "parked"} /\ is = "secure"
       /\ job[via] \in {"told", "parked"} /\ job'[via] = "hand"
  \/ was = "secure" /\ is = "up" /\ via = flow[f].via /\ job'[via] = "up"
       /\ \A g \in Flow \ {f} : flow'[g].pc \in {"failed", "dropped"}

SetupEffects ==
  /\ \A f \in Flow : FlowEffect(f)
  /\ \A j \in Setup!Jobs : JobEffect(j)
  /\ \A u \in Setup!Jobs : ParkedEffect(u)
  /\ AnswerEffect

LEMMA Types ==
  ASSUME Setup!TypeOK
  PROVE  /\ flow \in [Flow -> FlowEntry] /\ job \in [Setup!Jobs -> Setup!JobStates]
         /\ parked \in [Setup!Jobs -> Setup!Jobs \cup Flow \cup {NoEnd}]
         /\ inbox \subseteq Setup!Answers /\ answers \subseteq Setup!Answers
         /\ \A a \in inbox \cup answers : a.by \in Setup!Jobs /\ a.how \in {"direct", "relay"}
         /\ \A f \in Flow : /\ flow[f].pc \in Setup!FlowStates /\ flow[f].try \in 0..Attempts
                            /\ flow[f].via \in Setup!Jobs
BY DEF Setup!TypeOK, FlowEntry, Setup!Answers

LEMMA JobTypes ==
  ASSUME Setup!SetupAssumption, NEW j \in Setup!Jobs
  PROVE  /\ j.flow \in Flow /\ j.try \in 1..Attempts /\ j.kind \in {"punch", "relay"}
         /\ j.copy \in 1..Copies
         /\ Setup!UuidOf(j) \in Setup!Jobs /\ Setup!SocketOf(j) \in Setup!Sockets
         /\ Setup!UuidOf(j).kind = j.kind /\ Attempts \in Nat /\ j \notin Flow /\ j # NoEnd
<1>1. /\ j.flow \in Flow /\ j.try \in 1..Attempts /\ j.kind \in {"punch", "relay"}
      /\ j.copy \in 1..Copies
  BY DEF Setup!Jobs
<1>2. Attempts \in Nat /\ j \notin Flow /\ j # NoEnd /\ Copies \in {1, 2}
  BY DEF Setup!SetupAssumption
<1>3. 1 \in 1..Copies
  BY <1>2
<1>4. [j EXCEPT !.copy = 1] \in Setup!Jobs /\ [j EXCEPT !.copy = 1].kind = j.kind
  BY <1>3 DEF Setup!Jobs
<1>5. Setup!UuidOf(j) \in Setup!Jobs /\ Setup!UuidOf(j).kind = j.kind
  BY <1>4 DEF Setup!UuidOf, Setup!Relayed
<1>6. Setup!SocketOf(j) \in Setup!Sockets
  BY <1>1, <1>2 DEF Setup!SocketOf, Setup!Sockets
<1> QED
  BY <1>1, <1>2, <1>5, <1>6

\* What hbbs forwards arrives as copies of one request.
LEMMA ForwardIs ==
  ASSUME Setup!SetupAssumption, NEW f \in Flow, NEW try \in 1..Attempts,
         NEW kind \in {"punch", "relay"}, Setup!Forward(f, try, kind),
         job \in [Setup!Jobs -> Setup!JobStates]
  PROVE  /\ job' \in [Setup!Jobs -> Setup!JobStates]
         /\ \A j \in Setup!Jobs :
              \/ job'[j] = job[j]
              \/ job'[j] = "coming" /\ j.flow = f /\ j.try = try /\ j.kind = kind
<1> DEFINE copyOf(c) == [flow |-> f, try |-> try, kind |-> kind, copy |-> c]
<1>1. PICK C \in SUBSET {copyOf(1), copyOf(2)} :
        job' = [j \in Setup!Jobs |-> IF j \in C THEN "coming" ELSE job[j]]
  BY DEF Setup!Forward
<1>2. \A j \in C : j.flow = f /\ j.try = try /\ j.kind = kind
  OBVIOUS
<1> QED
  BY <1>1, <1>2 DEF Setup!JobStates

\* What a viewer's step does to its flow.
FlowGoes(f, pc, try, via) ==
  /\ flow' \in [Flow -> FlowEntry]
  /\ flow'[f].pc = pc /\ flow'[f].try = try /\ flow'[f].via = via
  /\ \A g \in Flow \ {f} : flow'[g] = flow[g]

LEMMA FlowMoves ==
  ASSUME Setup!TypeOK, NEW f \in Flow, NEW pc \in Setup!FlowStates, NEW try \in 0..Attempts,
         NEW via \in Setup!Jobs
  PROVE  /\ Setup!Go(f, pc, try, via) => FlowGoes(f, pc, try, via)
         /\ flow' = [flow EXCEPT ![f].pc = pc] => FlowGoes(f, pc, flow[f].try, flow[f].via)
         /\ flow' = [flow EXCEPT ![f].pc = pc, ![f].via = via]
              => FlowGoes(f, pc, flow[f].try, via)
<1>0. flow \in [Flow -> FlowEntry] /\ flow[f] \in FlowEntry
  BY Types
<1>1. Setup!Go(f, pc, try, via) => FlowGoes(f, pc, try, via)
  <2>1. PICK r \in FlowEntry : r = [pc |-> pc, try |-> try, via |-> via]
    BY DEF FlowEntry
  <2>2. r.pc = pc /\ r.try = try /\ r.via = via
    BY <2>1
  <2> QED
    BY <1>0, <2>1, <2>2 DEF Setup!Go, FlowGoes
<1>2. flow' = [flow EXCEPT ![f].pc = pc] => FlowGoes(f, pc, flow[f].try, flow[f].via)
  <2>1. PICK r \in FlowEntry : r = [flow[f] EXCEPT !.pc = pc]
    BY <1>0 DEF FlowEntry
  <2>2. r.pc = pc /\ r.try = flow[f].try /\ r.via = flow[f].via
    BY <1>0, <2>1 DEF FlowEntry
  <2> QED
    BY <1>0, <2>1, <2>2 DEF FlowGoes
<1>3. flow' = [flow EXCEPT ![f].pc = pc, ![f].via = via]
              => FlowGoes(f, pc, flow[f].try, via)
  <2>1. PICK r \in FlowEntry : r = [flow[f] EXCEPT !.pc = pc, !.via = via]
    BY <1>0 DEF FlowEntry
  <2>2. r.pc = pc /\ r.try = flow[f].try /\ r.via = via
    BY <1>0, <2>1 DEF FlowEntry
  <2> QED
    BY <1>0, <2>1, <2>2 DEF FlowGoes
<1> QED
  BY <1>1, <1>2, <1>3

LEMMA JobSet ==
  ASSUME Setup!TypeOK, NEW j \in Setup!Jobs, NEW s \in Setup!JobStates,
         job' = [job EXCEPT ![j] = s]
  PROVE  /\ job' \in [Setup!Jobs -> Setup!JobStates]
         /\ job'[j] = s /\ \A k \in Setup!Jobs \ {j} : job'[k] = job[k]
BY Types

LEMMA ParkedSet ==
  ASSUME Setup!TypeOK, NEW u \in Setup!Jobs, NEW e \in Setup!Jobs \cup Flow \cup {NoEnd},
         parked' = [parked EXCEPT ![u] = e]
  PROVE  /\ parked' \in [Setup!Jobs -> Setup!Jobs \cup Flow \cup {NoEnd}]
         /\ parked'[u] = e /\ \A v \in Setup!Jobs \ {u} : parked'[v] = parked[v]
BY Types

LEMMA EffectsKeep ==
  ASSUME Setup!SetupAssumption, SetupInv, Setup!TypeOK', SetupEffects
  PROVE  SetupInv'
<1>a. Attempts \in Nat
  BY DEF Setup!SetupAssumption
<1>t. /\ \A f \in Flow : /\ flow[f].pc \in Setup!FlowStates /\ flow[f].try \in 0..Attempts
                         /\ flow[f].via \in Setup!Jobs
                         /\ flow'[f].via \in Setup!Jobs /\ flow'[f].try \in 0..Attempts
      /\ \A j \in Setup!Jobs : j.flow \in Flow /\ j.try \in 1..Attempts
                                 /\ j.kind \in {"punch", "relay"}
                                 /\ Setup!UuidOf(j) \in Setup!Jobs
      /\ \A a \in inbox \cup answers : a.by \in Setup!Jobs
  <2>1. \A f \in Flow : flow'[f].via \in Setup!Jobs /\ flow'[f].try \in 0..Attempts
    BY DEF Setup!TypeOK
  <2> QED
    BY <2>1, Types, JobTypes DEF SetupInv
<1>1. UnaskedInv'
  <2> SUFFICES ASSUME NEW j \in Setup!Jobs, Unasked(j.flow, j)' PROVE job'[j] = "none"
    BY DEF UnaskedInv
  <2>1. Unasked(j.flow, j)
    <3>1. FlowEffect(j.flow)
      BY <1>t DEF SetupEffects
    <3> QED
      BY <1>t, <1>a, <3>1 DEF FlowEffect, Unasked, SetupInv, AskInv
  <2>2. job[j] = "none"
    BY <2>1 DEF SetupInv, UnaskedInv
  <2> QED
    BY <2>2 DEF SetupEffects, JobEffect, Moves
<1>2. \A j \in Setup!Jobs :
        /\ job[j] \notin Early => job'[j] \notin Early
        /\ job[j] \in {"listen", "hand", "up", "ended"}
             => job'[j] \in {"listen", "hand", "up", "ended"}
  BY DEF SetupEffects, JobEffect, Moves, Early
<1>3. ToldInv'
  BY <1>t, <1>2 DEF SetupInv, ToldInv, SetupEffects, AnswerEffect, Early
<1>4. ParkedInv'
  <2> SUFFICES ASSUME NEW u \in Setup!Jobs, parked'[u] \in Setup!Jobs
               PROVE  /\ Setup!UuidOf(parked'[u]) = u
                      /\ job'[parked'[u]] \in {"parked", "ended"}
    BY DEF ParkedInv, Setup!UuidOf, Setup!Relayed
  <2>1. PICK e \in Setup!Jobs : e = parked'[u]
    OBVIOUS
  <2>2. CASE parked[u] = e
    <3>1. Setup!UuidOf(e) = u /\ job[e] \in {"parked", "ended"}
      BY <2>1, <2>2 DEF SetupInv, ParkedInv
    <3>2. JobEffect(e)
      BY DEF SetupEffects
    <3> QED
      BY <2>1, <3>1, <3>2 DEF JobEffect, Moves
  <2>3. CASE parked[u] # e
    BY <2>1, <2>3 DEF SetupEffects, ParkedEffect, Setup!SetupAssumption
  <2> QED
    BY <2>2, <2>3
<1>s. SeatInv'
  <2>1. ASSUME NEW f \in Flow, flow'[f].pc \in {"join", "parked"}
        PROVE  flow'[f].via.flow = f
    <3>1. FlowEffect(f)
      BY DEF SetupEffects
    <3> QED
      BY <2>1, <3>1 DEF FlowEffect, Answers, SetupInv, SeatInv
  <2>2. ASSUME NEW u \in Setup!Jobs, parked'[u] \in Flow
        PROVE  /\ u.flow = parked'[u]
               /\ flow'[parked'[u]].pc \in {"parked", "secure", "up", "failed", "dropped"}
    <3>1. PICK f \in Flow : f = parked'[u]
      BY <2>2
    <3>2. FlowEffect(f) /\ ParkedEffect(u) /\ f \notin Setup!Jobs
      BY DEF SetupEffects, Setup!SetupAssumption
    <3>3. CASE parked[u] = f
      <4>1. u.flow = f /\ flow[f].pc \in {"parked", "secure", "up", "failed", "dropped"}
        BY <3>3 DEF SetupInv, SeatInv
      <4> QED
        BY <3>1, <3>2, <4>1 DEF FlowEffect
    <3>4. CASE flow[f].pc = "join" /\ flow'[f].pc = "parked" /\ flow[f].via = u
      BY <3>1, <3>4 DEF SetupInv, SeatInv
    <3> QED
      BY <3>1, <3>2, <3>3, <3>4 DEF ParkedEffect
  <2> QED
    BY <2>1, <2>2 DEF SeatInv
<1>5. AskInv'
  <2> SUFFICES ASSUME NEW f \in Flow
               PROVE /\ flow'[f].pc = "direct" => flow'[f].try = 0
                     /\ flow'[f].pc = "ask" /\ flow'[f].try > 0 =>
                          flow'[f].via = [flow |-> f, try |-> flow'[f].try,
                                          kind |-> "relay", copy |-> 1]
    BY DEF AskInv
  <2>1. FlowEffect(f)
    BY DEF SetupEffects
  <2> QED
    BY <2>1, <1>t DEF FlowEffect, SetupInv, AskInv
<1>6. PairInv'
  <2> SUFFICES ASSUME NEW f \in Flow, flow'[f].pc \in {"secure", "up"}
               PROVE /\ job'[flow'[f].via] \in {"hand", "up"}
                     /\ flow'[f].pc = "up" => job'[flow'[f].via] = "up"
                     /\ ForceRelay => \A a \in inbox' \cup answers' :
                                        a.by = flow'[f].via => a.how # "direct"
    BY DEF PairInv
  <2>1. FlowEffect(f)
    BY DEF SetupEffects
  <2>2. PICK v \in Setup!Jobs : v = flow'[f].via
    BY <1>t
  <2>3. CASE flow[f].pc \in {"secure", "up"}
    <3>1. v = flow[f].via /\ (flow'[f].pc = flow[f].pc \/ job'[v] = "up")
      BY <2>1, <2>2, <2>3 DEF FlowEffect
    <3>2. /\ job[v] \in {"hand", "up"} /\ (flow[f].pc = "up" => job[v] = "up")
          /\ ForceRelay => \A a \in inbox \cup answers : a.by = v => a.how # "direct"
      BY <2>3, <3>1 DEF SetupInv, PairInv
    <3>3. Setup!With(v)
      BY <2>3, <3>1 DEF Setup!With
    <3>4. job'[v] \in {"hand", "up"} /\ (job[v] = "up" => job'[v] = "up")
      BY <3>2, <3>3 DEF SetupEffects, JobEffect, Moves
    <3>5. ForceRelay => \A a \in inbox' \cup answers' : a.by = v => a.how # "direct"
      BY <3>2 DEF SetupEffects, AnswerEffect
    <3> QED
      BY <2>2, <3>1, <3>2, <3>4, <3>5
  <2>4. CASE flow[f].pc \notin {"secure", "up"}
    <3>1. /\ flow'[f].pc = "secure" /\ job'[v] = "hand"
          /\ job[v] \in {"told", "parked"} \/ (~ForceRelay /\ job[v] = "listen")
      BY <2>1, <2>2, <2>4 DEF FlowEffect
    <3>2. ForceRelay => \A a \in inbox' \cup answers' : a.by = v => a.how # "direct"
      BY <3>1 DEF SetupEffects, AnswerEffect, SetupInv, ToldInv
    <3> QED
      BY <2>2, <3>1, <3>2
  <2> QED
    BY <2>3, <2>4
<1>7. AloneInv'
  <2> SUFFICES ASSUME NEW f \in Flow, NEW g \in Flow, f # g, flow'[f].pc = "up"
               PROVE  flow'[g].pc \in {"failed", "dropped"}
    BY DEF AloneInv
  <2>1. FlowEffect(f) /\ FlowEffect(g)
    BY DEF SetupEffects
  <2>2. CASE flow[f].pc = "up"
    <3>1. flow[g].pc \in {"failed", "dropped"}
      BY <2>2 DEF SetupInv, AloneInv
    <3> QED
      BY <2>1, <3>1 DEF FlowEffect
  <2>3. CASE flow[f].pc # "up"
    BY <2>1, <2>3 DEF FlowEffect
  <2> QED
    BY <2>2, <2>3
<1>8. Setup!WaitsForSomebody'
  <2> SUFFICES ASSUME NEW f \in Flow, flow'[f].pc \in {"join", "parked"}
               PROVE  \E j \in Setup!Jobs : /\ Setup!UuidOf(j) = flow'[f].via
                                            /\ job'[j] \notin Early
    BY DEF Setup!WaitsForSomebody, Early, Setup!UuidOf, Setup!Relayed
  <2>1. FlowEffect(f)
    BY DEF SetupEffects
  <2>2. CASE flow[f].pc \in {"join", "parked"}
    <3>1. flow'[f].via = flow[f].via
      BY <2>1, <2>2 DEF FlowEffect
    <3>2. PICK j \in Setup!Jobs : Setup!UuidOf(j) = flow[f].via /\ job[j] \notin Early
      BY <2>2 DEF SetupInv, Setup!WaitsForSomebody, Early
    <3> QED
      BY <1>2, <3>1, <3>2
  <2>3. CASE flow[f].pc \notin {"join", "parked"}
    <3>1. Answers(f, flow'[f].via)
      BY <2>1, <2>3 DEF FlowEffect
    <3>2. PICK a \in inbox : Setup!UuidOf(a.by) = flow'[f].via
      BY <3>1 DEF Answers
    <3>3. a.by \in Setup!Jobs /\ job[a.by] \notin Early
      BY <1>t DEF SetupInv, ToldInv
    <3> QED
      BY <1>2, <3>2, <3>3
  <2> QED
    BY <2>2, <2>3
<1> QED
  BY <1>1, <1>3, <1>4, <1>s, <1>5, <1>6, <1>7, <1>8 DEF SetupInv
\* A step of one flow that leaves the host and the relay alone.
LEMMA FlowAlone ==
  ASSUME Setup!SetupAssumption, SetupInv, NEW f \in Flow,
         NEW pc \in Setup!FlowStates, NEW try \in 0..Attempts, NEW via \in Setup!Jobs,
         FlowGoes(f, pc, try, via), FlowEffect(f),
         UNCHANGED <<inbox, answers, sinks, job, last, recent, parked>>
  PROVE  Setup!TypeOK' /\ SetupEffects
<1>1. Setup!TypeOK'
  BY DEF SetupInv, Setup!TypeOK, FlowGoes, FlowEntry
<1>2. \A g \in Flow : FlowEffect(g)
  BY DEF FlowGoes, FlowEffect
<1> QED
  BY <1>1, <1>2 DEF SetupEffects, JobEffect, ParkedEffect, AnswerEffect

LEMMA SetupStep ==
  ASSUME Setup!SetupAssumption, SetupInv, [Setup!Next]_Setup!vars
  PROVE  SetupInv'
<1>a. Attempts \in Nat /\ Attempts >= 1 /\ Copies \in {1, 2}
  BY DEF Setup!SetupAssumption
<1>t. Setup!TypeOK
  BY DEF SetupInv
<1>f. \A f \in Flow : /\ flow[f].pc \in Setup!FlowStates /\ flow[f].try \in 0..Attempts
                      /\ flow[f].via \in Setup!Jobs
  BY <1>t, Types
<1>j. \A j \in Setup!Jobs :
        /\ j.flow \in Flow /\ j.try \in 1..Attempts /\ j.kind \in {"punch", "relay"}
        /\ Setup!UuidOf(j) \in Setup!Jobs /\ j \notin Flow /\ j # NoEnd
        /\ job[j] \in Setup!JobStates
  BY <1>t, JobTypes, Types
<1>s. /\ \A pc \in {"idle", "punch", "direct", "ask", "join", "parked", "secure", "up",
                     "failed", "dropped"} : pc \in Setup!FlowStates
      /\ \A s \in {"none", "coming", "read", "again", "handle", "told", "parked", "listen",
                   "hand", "up", "ended"} : s \in Setup!JobStates
  BY DEF Setup!FlowStates, Setup!JobStates
<1>1. ASSUME NEW f \in Flow,
             \/ Setup!PunchEnds(f) \/ Setup!AskEnds(f) \/ Setup!Gives(f)
      PROVE  Setup!TypeOK' /\ SetupEffects
  <2>1. /\ flow' = [flow EXCEPT ![f].pc = "failed"] /\ flow[f].pc \notin {"up", "failed", "dropped"}
        /\ UNCHANGED <<inbox, answers, sinks, job, last, recent, parked>>
    BY <1>1 DEF Setup!PunchEnds, Setup!AskEnds, Setup!Gives, Setup!Fails, Setup!hbbs,
                Setup!host
  <2>2. FlowGoes(f, "failed", flow[f].try, flow[f].via)
    BY <2>1, <1>t, <1>f, <1>s, FlowMoves
  <2>3. FlowEffect(f)
    BY <2>1, <2>2 DEF FlowGoes, FlowEffect
  <2> QED
    BY <2>1, <2>2, <2>3, <1>f, <1>s, FlowAlone
<1>2. ASSUME NEW f \in Flow, Setup!Punched(f) PROVE Setup!TypeOK' /\ SetupEffects
  <2>1. PICK a \in inbox : /\ Setup!SocketOf(a.by) = [flow |-> f, try |-> 0]
                           /\ Setup!Go(f, IF a.how = "direct" THEN "direct" ELSE "join", 0, a.by)
    BY <1>2 DEF Setup!Punched
  <2>2. /\ flow[f].pc = "punch"
        /\ UNCHANGED <<inbox, answers, sinks, job, last, recent, parked>>
    BY <1>2 DEF Setup!Punched, Setup!hbbs, Setup!host
  <2>3. a.by \in Setup!Jobs /\ 0 \in 0..Attempts
    BY <1>a, <1>t, Types
  <2>4. PICK pc \in {"direct", "join"} : pc = IF a.how = "direct" THEN "direct" ELSE "join"
    OBVIOUS
  <2>5. FlowGoes(f, pc, 0, a.by)
    BY <1>s, <1>t, <2>1, <2>3, <2>4, FlowMoves
  <2>6. a.by.kind = "punch"
    <3>1. a.by.try # 0
      BY <1>j, <2>3
    <3>2. Setup!SocketOf(a.by).try = 0
      BY <2>1
    <3> QED
      BY <3>1, <3>2 DEF Setup!SocketOf
  <2>b. a.by.flow = f
    BY <2>1 DEF Setup!SocketOf
  <2>7. Answers(f, a.by)
    BY <2>6, <2>b DEF Answers, Setup!UuidOf
  <2>8. FlowEffect(f)
    BY <2>2, <2>4, <2>5, <2>7 DEF FlowGoes, FlowEffect
  <2> QED
    BY <2>2, <2>3, <2>5, <2>8, <1>s, FlowAlone
<1>3. ASSUME NEW f \in Flow, Setup!ConnectFails(f) PROVE Setup!TypeOK' /\ SetupEffects
  <2>1. /\ flow' = [flow EXCEPT ![f].pc = "ask"] /\ flow[f].pc = "direct"
        /\ UNCHANGED <<inbox, answers, sinks, job, last, recent, parked>>
    BY <1>3 DEF Setup!ConnectFails, Setup!hbbs, Setup!host
  <2>2. FlowGoes(f, "ask", flow[f].try, flow[f].via)
    BY <2>1, <1>t, <1>f, <1>s, FlowMoves
  <2>3. FlowEffect(f)
    BY <2>1, <2>2 DEF FlowGoes, FlowEffect
  <2> QED
    BY <2>1, <2>2, <2>3, <1>f, <1>s, FlowAlone
<1>4. ASSUME NEW f \in Flow, Setup!Answered(f) PROVE Setup!TypeOK' /\ SetupEffects
  <2>1. /\ flow' = [flow EXCEPT ![f].pc = "join"] /\ flow[f].pc = "ask" /\ flow[f].try > 0
        /\ UNCHANGED <<inbox, answers, sinks, job, last, recent, parked>>
    BY <1>4 DEF Setup!Answered, Setup!hbbs, Setup!host
  <2>2. PICK a \in inbox : Setup!SocketOf(a.by) = [flow |-> f, try |-> flow[f].try]
    BY <1>4 DEF Setup!Answered
  <2>3. FlowGoes(f, "join", flow[f].try, flow[f].via)
    BY <2>1, <1>t, <1>f, <1>s, FlowMoves
  <2>4. a.by \in Setup!Jobs
    BY <1>t, Types
  <2>5. a.by.flow = f /\ a.by.kind = "relay" /\ a.by.try = flow[f].try
    <3>1. Setup!SocketOf(a.by).flow = f /\ Setup!SocketOf(a.by).try = flow[f].try
      BY <2>2
    <3> QED
      BY <1>f, <1>j, <2>1, <2>4, <3>1 DEF Setup!SocketOf
  <2>6. Setup!UuidOf(a.by) = flow[f].via
    <3>1. flow[f].via = [flow |-> f, try |-> flow[f].try, kind |-> "relay", copy |-> 1]
      BY <2>1 DEF SetupInv, AskInv
    <3>2. PICK u : u = [a.by EXCEPT !.copy = 1]
      OBVIOUS
    <3>3. u = [flow |-> f, try |-> flow[f].try, kind |-> "relay", copy |-> 1]
      BY <2>4, <2>5, <3>2 DEF Setup!Jobs
    <3> QED
      BY <2>5, <3>1, <3>2, <3>3 DEF Setup!UuidOf, Setup!Relayed
  <2>b. flow[f].via.flow = f
    <3>1. flow[f].via = [flow |-> f, try |-> flow[f].try, kind |-> "relay", copy |-> 1]
      BY <2>1 DEF SetupInv, AskInv
    <3> QED
      BY <3>1
  <2>7. FlowEffect(f)
    BY <2>1, <2>3, <2>6, <2>b DEF FlowGoes, FlowEffect, Answers
  <2> QED
    BY <2>1, <2>3, <2>7, <1>f, <1>s, FlowAlone
<1>5. ASSUME NEW f \in Flow, NEW pc \in Setup!FlowStates, NEW try \in 1..Attempts,
             NEW via \in Setup!Jobs, NEW kind \in {"punch", "relay"},
             Setup!Go(f, pc, try, via), Setup!Forward(f, try, kind),
             sinks' \subseteq sinks \cup {[flow |-> f, try |-> 0], [flow |-> f, try |-> try]},
             UNCHANGED <<inbox, answers, last, recent, parked>>,
             \/ flow[f].pc = "idle" /\ pc = "punch" /\ try = 1 /\ kind = "punch"
             \/ flow[f].pc = "punch" /\ pc = "punch" /\ try = flow[f].try + 1 /\ kind = "punch"
             \/ flow[f].pc = "ask" /\ pc = "ask" /\ try = flow[f].try + 1 /\ kind = "relay"
                  /\ via = [flow |-> f, try |-> try, kind |-> "relay", copy |-> 1]
      PROVE  Setup!TypeOK' /\ SetupEffects
  <2>1. /\ job' \in [Setup!Jobs -> Setup!JobStates]
        /\ \A j \in Setup!Jobs :
             \/ job'[j] = job[j]
             \/ job'[j] = "coming" /\ j.flow = f /\ j.try = try /\ j.kind = kind
    BY <1>5, <1>t, Types, ForwardIs
  <2>2. try \in 0..Attempts /\ [flow |-> f, try |-> 0] \in Setup!Sockets
        /\ [flow |-> f, try |-> try] \in Setup!Sockets
    BY <1>a DEF Setup!Sockets
  <2>3. FlowGoes(f, pc, try, via)
    BY <1>5, <1>t, <2>2, FlowMoves
  <2>4. \A g \in Flow : FlowEffect(g)
    BY <1>5, <2>3 DEF FlowGoes, FlowEffect
  <2>5. ASSUME NEW j \in Setup!Jobs PROVE JobEffect(j)
    <3>1. CASE job'[j] = job[j]
      BY <3>1 DEF JobEffect
    <3>2. CASE job'[j] = "coming" /\ j.flow = f /\ j.try = try /\ j.kind = kind
      <4>1. Unasked(f, j)
        BY <1>5, <1>f, <1>a, <3>2 DEF Unasked
      <4>2. job[j] = "none"
        BY <3>2, <4>1 DEF SetupInv, UnaskedInv
      <4>3. ~Unasked(f, j)'
        BY <1>5, <2>3, <3>2 DEF FlowGoes, Unasked
      <4> QED
        BY <3>2, <4>2, <4>3 DEF JobEffect
    <3> QED
      BY <2>1, <3>1, <3>2
  <2>6. Setup!TypeOK'
    BY <1>5, <1>t, <2>1, <2>2, <2>3 DEF Setup!TypeOK, FlowGoes, FlowEntry
  <2> QED
    BY <1>5, <2>4, <2>5, <2>6 DEF SetupEffects, ParkedEffect, AnswerEffect
<1>6. ASSUME NEW f \in Flow, Setup!Punch(f) \/ Setup!PunchAgain(f) \/ Setup!Ask(f)
      PROVE  Setup!TypeOK' /\ SetupEffects
  <2>0. Setup!AnyJob \in Setup!Jobs
    <3>1. [flow |-> f, try |-> 1, kind |-> "punch", copy |-> 1] \in Setup!Jobs
      BY <1>a DEF Setup!Jobs
    <3> QED
      BY <3>1 DEF Setup!AnyJob
  <2>1. CASE Setup!Punch(f)
    <3>1. 1 \in 1..Attempts
      BY <1>a
    <3> QED
      BY <1>5, <1>s, <2>0, <2>1, <3>1 DEF Setup!Punch
  <2>2. CASE Setup!PunchAgain(f)
    <3>1. PICK try \in 1..Attempts : try = flow[f].try + 1
      BY <1>a, <1>f, <2>2 DEF Setup!PunchAgain
    <3> QED
      BY <1>5, <1>s, <2>0, <2>2, <3>1 DEF Setup!PunchAgain, Setup!hbbs
  <2>3. CASE Setup!Ask(f)
    <3>1. PICK try \in 1..Attempts : try = flow[f].try + 1
      BY <1>a, <1>f, <2>3 DEF Setup!Ask
    <3>2. PICK via \in Setup!Jobs : via = [flow |-> f, try |-> try, kind |-> "relay", copy |-> 1]
      <4>1. 1 \in 1..Copies
        BY <1>a
      <4> QED
        BY <4>1 DEF Setup!Jobs
    <3> QED
      BY <1>5, <1>s, <2>3, <3>1, <3>2 DEF Setup!Ask
  <2> QED
    BY <1>6, <2>1, <2>2, <2>3
<1>7. ASSUME NEW f \in Flow, Setup!Connect(f) PROVE Setup!TypeOK' /\ SetupEffects
  <2>1. PICK pc \in {"ask", "secure"} : pc = IF ForceRelay THEN "ask" ELSE "secure"
    OBVIOUS
  <2>2. PICK via \in Setup!Jobs : via = flow[f].via
    BY <1>f
  <2>3. /\ flow' = [flow EXCEPT ![f].pc = pc] /\ flow[f].pc = "direct"
        /\ job[via] = "listen" /\ job' = [job EXCEPT ![via] = "hand"]
        /\ UNCHANGED <<inbox, answers, sinks, last, recent, parked>>
    BY <1>7, <2>1, <2>2 DEF Setup!Connect, Setup!hbbs
  <2>4. FlowGoes(f, pc, flow[f].try, via)
    BY <2>2, <2>3, <1>t, <1>f, <1>s, FlowMoves
  <2>5. /\ job' \in [Setup!Jobs -> Setup!JobStates]
        /\ job'[via] = "hand" /\ \A k \in Setup!Jobs \ {via} : job'[k] = job[k]
    BY <1>s, <1>t, <2>3, JobSet
  <2>6. \A g \in Flow : FlowEffect(g)
    BY <2>1, <2>3, <2>4, <2>5 DEF FlowGoes, FlowEffect
  <2>7. \A j \in Setup!Jobs : JobEffect(j)
    BY <2>3, <2>5 DEF JobEffect, Moves
  <2>8. Setup!TypeOK'
    BY <1>t, <2>3, <2>4, <2>5 DEF Setup!TypeOK, FlowGoes, FlowEntry
  <2> QED
    BY <2>3, <2>6, <2>7, <2>8 DEF SetupEffects, ParkedEffect, AnswerEffect
<1>8. ASSUME NEW f \in Flow, Setup!Join(f) PROVE Setup!TypeOK' /\ SetupEffects
  <2>1. PICK u \in Setup!Jobs, e \in Setup!Jobs \cup Flow \cup {NoEnd} :
          u = flow[f].via /\ e = parked[u]
    BY <1>f, <1>t, Types
  <2>2. flow[f].pc = "join" /\ UNCHANGED <<inbox, answers, sinks, last, recent>>
    BY <1>8 DEF Setup!Join, Setup!hbbs
  <2>3. CASE e = NoEnd
    <3>1. /\ parked' = [parked EXCEPT ![u] = f] /\ flow' = [flow EXCEPT ![f].pc = "parked"]
          /\ job' = job
      BY <1>8, <2>1, <2>3 DEF Setup!Join
    <3>2. FlowGoes(f, "parked", flow[f].try, u)
      BY <2>1, <3>1, <1>t, <1>f, <1>s, FlowMoves
    <3>3. /\ parked' \in [Setup!Jobs -> Setup!Jobs \cup Flow \cup {NoEnd}]
          /\ parked'[u] = f /\ \A v \in Setup!Jobs \ {u} : parked'[v] = parked[v]
      BY <1>t, <3>1, ParkedSet
    <3>4. \A g \in Flow : FlowEffect(g)
      BY <2>1, <2>2, <3>2 DEF FlowGoes, FlowEffect
    <3>6. Setup!TypeOK'
      BY <1>t, <2>2, <3>1, <3>2, <3>3 DEF Setup!TypeOK, FlowGoes, FlowEntry
    <3>7. \A v \in Setup!Jobs : ParkedEffect(v)
      <4>1. flow'[f].pc = "parked" /\ flow[f].via = u
        BY <2>1, <3>2 DEF FlowGoes
      <4> QED
        BY <2>2, <3>3, <4>1 DEF ParkedEffect
    <3> QED
      BY <2>2, <3>1, <3>4, <3>6, <3>7 DEF SetupEffects, AnswerEffect, JobEffect
  <2>4. CASE e # NoEnd
    <3>0. parked' = [parked EXCEPT ![u] = NoEnd]
      BY <1>8, <2>1, <2>4 DEF Setup!Join
    <3>1. /\ parked' \in [Setup!Jobs -> Setup!Jobs \cup Flow \cup {NoEnd}]
          /\ parked'[u] = NoEnd /\ \A v \in Setup!Jobs \ {u} : parked'[v] = parked[v]
      BY <1>t, <3>0, ParkedSet
    <3>2. \A v \in Setup!Jobs : ParkedEffect(v)
      BY <1>j, <3>1 DEF ParkedEffect, Setup!SetupAssumption
    <3>3. AnswerEffect
      BY <2>2 DEF AnswerEffect
    <3>4. CASE e \in Setup!Jobs /\ job[e] = "parked"
      <4>1. Setup!Go(f, "secure", flow[f].try, e) /\ job' = [job EXCEPT ![e] = "hand"]
        BY <1>8, <2>1, <2>4, <3>4 DEF Setup!Join
      <4>2. FlowGoes(f, "secure", flow[f].try, e)
        BY <3>4, <4>1, <1>t, <1>f, <1>s, FlowMoves
      <4>3. /\ job' \in [Setup!Jobs -> Setup!JobStates]
            /\ job'[e] = "hand" /\ \A k \in Setup!Jobs \ {e} : job'[k] = job[k]
        BY <1>s, <1>t, <3>4, <4>1, JobSet
      <4>4. \A g \in Flow : FlowEffect(g)
        BY <2>2, <3>4, <4>2, <4>3 DEF FlowGoes, FlowEffect
      <4>5. Setup!UuidOf(e) = u
        BY <2>1, <3>4 DEF SetupInv, ParkedInv
      <4>6. \A j \in Setup!Jobs : JobEffect(j)
        BY <1>j, <3>1, <3>4, <4>3, <4>5 DEF JobEffect, Moves
      <4>7. Setup!TypeOK'
        BY <1>t, <2>2, <3>1, <4>2, <4>3 DEF Setup!TypeOK, FlowGoes, FlowEntry
      <4> QED
        BY <3>2, <3>3, <4>4, <4>6, <4>7 DEF SetupEffects
    <3>5. CASE flow' = [flow EXCEPT ![f].pc = "failed"] /\ job' = job
      <4>1. FlowGoes(f, "failed", flow[f].try, flow[f].via)
        BY <3>5, <1>t, <1>f, <1>s, FlowMoves
      <4>2. \A g \in Flow : FlowEffect(g)
        BY <2>2, <4>1 DEF FlowGoes, FlowEffect
      <4>3. Setup!TypeOK'
        BY <1>t, <2>2, <3>1, <3>5, <4>1 DEF Setup!TypeOK, FlowGoes, FlowEntry
      <4> QED
        BY <3>2, <3>3, <3>5, <4>2, <4>3 DEF SetupEffects, JobEffect
    <3>6. e \notin Flow
      <4>1. u.flow = f
        BY <2>1, <2>2 DEF SetupInv, SeatInv
      <4> QED
        BY <2>1, <2>2, <4>1 DEF SetupInv, SeatInv
    <3> QED
      BY <1>8, <2>1, <2>4, <3>4, <3>5, <3>6 DEF Setup!Join, Setup!Fails
  <2> QED
    BY <2>3, <2>4
<1>9. ASSUME NEW f \in Flow, Setup!Secure(f) PROVE Setup!TypeOK' /\ SetupEffects
  <2>1. PICK via \in Setup!Jobs : via = flow[f].via
    BY <1>f
  <2>2. /\ flow[f].pc = "secure" /\ job[via] = "hand"
        /\ job' = [job EXCEPT ![via] = "up"]
        /\ UNCHANGED <<inbox, answers, sinks, last, recent, parked>>
    BY <1>9, <2>1 DEF Setup!Secure, Setup!hbbs
  <2>3. flow' = [g \in Flow |-> IF g = f THEN [flow[g] EXCEPT !.pc = "up"]
                                ELSE IF flow[g].pc = "failed" THEN flow[g]
                                ELSE [flow[g] EXCEPT !.pc = "dropped"]]
    BY <1>9 DEF Setup!Secure
  <2>4. \A r \in FlowEntry, pc \in Setup!FlowStates :
          /\ [r EXCEPT !.pc = pc] \in FlowEntry
          /\ [r EXCEPT !.pc = pc].pc = pc /\ [r EXCEPT !.pc = pc].via = r.via
    BY DEF FlowEntry
  <2>5. \A g \in Flow : flow[g] \in FlowEntry
    BY <1>t, Types
  <2>6. /\ flow' \in [Flow -> FlowEntry] /\ flow'[f].pc = "up" /\ flow'[f].via = via
        /\ \A g \in Flow \ {f} : flow'[g].pc \in {"failed", "dropped"}
    BY <1>s, <2>1, <2>3, <2>4, <2>5
  <2>7. /\ job' \in [Setup!Jobs -> Setup!JobStates]
        /\ job'[via] = "up" /\ \A k \in Setup!Jobs \ {via} : job'[k] = job[k]
    BY <1>s, <1>t, <2>2, JobSet
  <2>8. \A g \in Flow \ {f} : flow[g].pc # "up"
    BY <2>2 DEF SetupInv, AloneInv
  <2>9. ASSUME NEW g \in Flow PROVE FlowEffect(g)
    <3>1. CASE g = f
      BY <2>1, <2>2, <2>6, <2>7, <3>1 DEF FlowEffect
    <3>2. CASE g # f /\ flow[g].pc = "failed"
      BY <2>3, <3>2 DEF FlowEffect
    <3>3. CASE g # f /\ flow[g].pc = "dropped"
      <4>1. PICK r \in FlowEntry : r = flow[g]
        BY <2>5
      <4>2. [r EXCEPT !.pc = "dropped"] = r
        BY <3>3, <4>1 DEF FlowEntry
      <4> QED
        BY <2>3, <3>3, <4>1, <4>2 DEF FlowEffect
    <3>4. CASE g # f /\ flow[g].pc \notin {"failed", "dropped"}
      BY <2>6, <2>8, <3>4 DEF FlowEffect
    <3> QED
      BY <3>1, <3>2, <3>3, <3>4
  <2>10. \A j \in Setup!Jobs : JobEffect(j)
    BY <2>2, <2>7 DEF JobEffect, Moves
  <2>11. Setup!TypeOK'
    BY <1>t, <2>2, <2>6, <2>7 DEF Setup!TypeOK, FlowEntry
  <2> QED
    BY <2>2, <2>9, <2>10, <2>11 DEF SetupEffects, ParkedEffect, AnswerEffect
<1>10. ASSUME NEW a \in answers, Setup!Route(a) PROVE Setup!TypeOK' /\ SetupEffects
  <2>1. /\ answers' \subseteq answers /\ inbox' \subseteq inbox \cup {a} /\ sinks' \subseteq sinks
        /\ UNCHANGED <<flow, job, last, recent, parked>>
    BY <1>10 DEF Setup!Route, Setup!host
  <2>2. Setup!TypeOK'
    BY <1>t, <2>1 DEF Setup!TypeOK
  <2> QED
    BY <2>1, <2>2 DEF SetupEffects, ParkedEffect, AnswerEffect, JobEffect, FlowEffect
\* A step of one task that leaves the viewer and the relay alone.
<1>11. ASSUME NEW j \in Setup!Jobs, NEW s \in Setup!JobStates, job' = [job EXCEPT ![j] = s],
              s = job[j] \/ <<job[j], s>> \in Moves, s # "hand",
              job[j] \in {"hand", "up"} => ~Setup!With(j),
              last' \in [Setup!Kinds -> Setup!Sockets \cup {NoEnd}],
              recent' \in [Setup!Kinds -> BOOLEAN],
              UNCHANGED <<flow, inbox, answers, sinks, parked>>
       PROVE  Setup!TypeOK' /\ SetupEffects
  <2>1. /\ job' \in [Setup!Jobs -> Setup!JobStates]
        /\ job'[j] = s /\ \A k \in Setup!Jobs \ {j} : job'[k] = job[k]
    BY <1>t, <1>11, JobSet
  <2>2. \A k \in Setup!Jobs : JobEffect(k)
    BY <1>11, <2>1 DEF JobEffect
  <2>3. Setup!TypeOK'
    BY <1>t, <1>11, <2>1 DEF Setup!TypeOK
  <2> QED
    BY <1>11, <2>2, <2>3 DEF SetupEffects, ParkedEffect, AnswerEffect, FlowEffect
<1>12. ASSUME NEW j \in Setup!Jobs,
              \/ Setup!Lose(j) \/ Setup!Read(j) \/ Setup!Note(j) \/ Setup!Fail(j) \/ Setup!End(j)
       PROVE  Setup!TypeOK' /\ SetupEffects
  <2>0. /\ last \in [Setup!Kinds -> Setup!Sockets \cup {NoEnd}]
        /\ recent \in [Setup!Kinds -> BOOLEAN]
        /\ j.kind \in Setup!Kinds /\ Setup!SocketOf(j) \in Setup!Sockets
    BY <1>t, JobTypes DEF Setup!TypeOK, Setup!Kinds
  <2>1. CASE Setup!Lose(j) \/ Setup!Fail(j)
    BY <1>11, <1>s, <2>0, <2>1 DEF Setup!Lose, Setup!Fail, Setup!Set, Setup!viewer, Setup!hbbs,
       Moves
  <2>2. CASE Setup!Read(j)
    <3>1. PICK s \in {"again", "read"} :
            s = IF last[j.kind] = Setup!SocketOf(j) /\ recent[j.kind] THEN "again" ELSE "read"
      OBVIOUS
    <3> QED
      BY <1>11, <1>s, <2>0, <2>2, <3>1 DEF Setup!Read, Setup!Set, Setup!viewer, Setup!hbbs,
         Moves
  <2>3. CASE Setup!Note(j)
    <3>1. PICK s \in {"ended", "handle"} : s = IF job[j] = "again" THEN "ended" ELSE "handle"
      OBVIOUS
    <3>2. /\ last' \in [Setup!Kinds -> Setup!Sockets \cup {NoEnd}]
          /\ recent' \in [Setup!Kinds -> BOOLEAN]
      BY <2>0, <2>3 DEF Setup!Note
    <3> QED
      BY <1>11, <1>s, <2>3, <3>1, <3>2 DEF Setup!Note, Setup!Set, Setup!viewer, Setup!hbbs,
         Moves
  <2>4. CASE Setup!End(j)
    BY <1>11, <1>s, <2>0, <2>4 DEF Setup!End, Setup!Set, Setup!viewer, Setup!hbbs,
       Moves
  <2> QED
    BY <1>12, <2>1, <2>2, <2>3, <2>4
<1>13. ASSUME NEW j \in Setup!Jobs, Setup!Tell(j) PROVE Setup!TypeOK' /\ SetupEffects
  <2>1. PICK how \in {"direct", "relay"} :
          /\ answers' = answers \cup {[by |-> j, how |-> how]}
          /\ job' = [job EXCEPT ![j] = IF how = "relay" THEN "told" ELSE "listen"]
    BY <1>13 DEF Setup!Tell, Setup!Set
  <2>2. /\ job[j] = "handle" /\ UNCHANGED <<flow, inbox, sinks, last, recent, parked>>
    BY <1>13 DEF Setup!Tell, Setup!viewer
  <2>3. PICK s \in {"told", "listen"} : s = IF how = "relay" THEN "told" ELSE "listen"
    OBVIOUS
  <2>4. /\ job' \in [Setup!Jobs -> Setup!JobStates]
        /\ job'[j] = s /\ \A k \in Setup!Jobs \ {j} : job'[k] = job[k]
    BY <1>s, <1>t, <2>1, <2>3, JobSet
  <2>5. \A k \in Setup!Jobs : JobEffect(k)
    BY <2>2, <2>3, <2>4 DEF JobEffect, Moves
  <2>6. PICK a \in Setup!Answers : a = [by |-> j, how |-> how]
    BY DEF Setup!Answers
  <2>7. a.by = j /\ a.how = how
    BY <2>6
  <2>8. AnswerEffect
    BY <2>1, <2>2, <2>3, <2>4, <2>6, <2>7 DEF AnswerEffect
  <2>9. Setup!TypeOK'
    BY <1>t, <2>1, <2>2, <2>4, <2>6 DEF Setup!TypeOK
  <2> QED
    BY <2>2, <2>5, <2>8, <2>9 DEF SetupEffects, ParkedEffect, FlowEffect
<1>14. ASSUME NEW j \in Setup!Jobs, Setup!Dial(j) PROVE Setup!TypeOK' /\ SetupEffects
  <2>1. PICK u \in Setup!Jobs, e \in Setup!Jobs \cup Flow \cup {NoEnd} :
          u = Setup!UuidOf(j) /\ e = parked[u]
    BY <1>j, <1>t, Types
  <2>2. /\ job[j] = "told" /\ UNCHANGED <<inbox, answers, sinks, last, recent>>
    BY <1>14 DEF Setup!Dial, Setup!hbbs
  <2>3. PICK p \in Setup!Jobs \cup Flow \cup {NoEnd} : p = IF e = NoEnd THEN j ELSE NoEnd
    OBVIOUS
  <2>4. parked' = [parked EXCEPT ![u] = p]
    BY <1>14, <2>1, <2>3 DEF Setup!Dial
  <2>5. /\ parked' \in [Setup!Jobs -> Setup!Jobs \cup Flow \cup {NoEnd}]
        /\ parked'[u] = p /\ \A v \in Setup!Jobs \ {u} : parked'[v] = parked[v]
    BY <1>t, <2>4, ParkedSet
  <2>7. AnswerEffect
    BY <2>2 DEF AnswerEffect
  <2>8. ASSUME NEW s \in Setup!JobStates, job' = [job EXCEPT ![j] = s],
               <<"told", s>> \in Moves
        PROVE  /\ job' \in [Setup!Jobs -> Setup!JobStates] /\ job'[j] = s
               /\ \A k \in Setup!Jobs : JobEffect(k)
    <3>1. /\ job' \in [Setup!Jobs -> Setup!JobStates]
          /\ job'[j] = s /\ \A k \in Setup!Jobs \ {j} : job'[k] = job[k]
      BY <1>t, <2>8, JobSet
    <3> QED
      BY <2>2, <2>8, <3>1 DEF JobEffect
  <2>9. ASSUME flow' = flow, NEW s \in {"parked", "ended"}, job' = [job EXCEPT ![j] = s],
               s = IF e = NoEnd THEN "parked" ELSE "ended"
        PROVE  Setup!TypeOK' /\ SetupEffects
    <3>1. s \in Setup!JobStates /\ <<"told", s>> \in Moves
      BY <1>s DEF Moves
    <3>2. /\ job' \in [Setup!Jobs -> Setup!JobStates] /\ job'[j] = s
          /\ \A k \in Setup!Jobs : JobEffect(k)
      BY <2>8, <2>9, <3>1
    <3>3. \A v \in Setup!Jobs : ParkedEffect(v)
      BY <2>1, <2>3, <2>5, <2>9, <3>2 DEF ParkedEffect, Setup!SetupAssumption
    <3>4. Setup!TypeOK'
      BY <1>t, <2>2, <2>5, <2>9, <3>2 DEF Setup!TypeOK
    <3> QED
      BY <2>7, <2>9, <3>2, <3>3, <3>4 DEF SetupEffects, FlowEffect
  <2>10. CASE e # NoEnd /\ e \in Flow /\ flow[e].pc = "parked" /\ flow[e].via = u
    <3>1. /\ job' = [job EXCEPT ![j] = "hand"]
          /\ flow' = [flow EXCEPT ![e].pc = "secure", ![e].via = j]
      BY <1>14, <2>1, <2>10 DEF Setup!Dial, Setup!Set
    <3>2. FlowGoes(e, "secure", flow[e].try, j)
      BY <1>t, <1>f, <1>s, <2>10, <3>1, FlowMoves
    <3>3. /\ job' \in [Setup!Jobs -> Setup!JobStates] /\ job'[j] = "hand"
          /\ \A k \in Setup!Jobs : JobEffect(k)
      BY <1>s, <2>8, <3>1 DEF Moves
    <3>4. \A v \in Setup!Jobs : ParkedEffect(v)
      BY <2>3, <2>5, <2>10 DEF ParkedEffect, Setup!SetupAssumption
    <3>5. \A g \in Flow : FlowEffect(g)
      BY <2>2, <2>10, <3>2, <3>3 DEF FlowGoes, FlowEffect
    <3>6. Setup!TypeOK'
      BY <1>t, <2>2, <2>5, <3>2, <3>3 DEF Setup!TypeOK, FlowGoes, FlowEntry
    <3> QED
      BY <2>7, <3>3, <3>4, <3>5, <3>6 DEF SetupEffects
  <2>11. CASE e = NoEnd
    BY <1>14, <2>1, <2>9, <2>11 DEF Setup!Dial, Setup!Set
  <2>12. CASE e # NoEnd /\ ~(e \in Flow /\ flow[e].pc = "parked" /\ flow[e].via = u)
    BY <1>14, <2>1, <2>9, <2>12 DEF Setup!Dial, Setup!Set
  <2> QED
    BY <2>10, <2>11, <2>12
<1>15. ASSUME NEW u \in Setup!Jobs, Setup!Expire(u) PROVE Setup!TypeOK' /\ SetupEffects
  <2>1. PICK e \in Setup!Jobs \cup Flow : e = parked[u]
    BY <1>15, <1>t, Types DEF Setup!Expire
  <2>2. /\ parked' = [parked EXCEPT ![u] = NoEnd]
        /\ UNCHANGED <<inbox, answers, sinks, last, recent>>
    BY <1>15 DEF Setup!Expire, Setup!hbbs
  <2>3. /\ parked' \in [Setup!Jobs -> Setup!Jobs \cup Flow \cup {NoEnd}]
        /\ parked'[u] = NoEnd /\ \A v \in Setup!Jobs \ {u} : parked'[v] = parked[v]
    BY <1>t, <2>2, ParkedSet
  <2>4. \A v \in Setup!Jobs : ParkedEffect(v)
    BY <2>3 DEF ParkedEffect, Setup!SetupAssumption
  <2>5. AnswerEffect
    BY <2>2 DEF AnswerEffect
  <2>6. CASE e \in Setup!Jobs
    <3>1. job' = [job EXCEPT ![e] = "ended"] /\ flow' = flow /\ job[e] \in {"parked", "ended"}
      BY <1>15, <2>1, <2>6 DEF Setup!Expire, SetupInv, ParkedInv
    <3>2. /\ job' \in [Setup!Jobs -> Setup!JobStates]
          /\ job'[e] = "ended" /\ \A k \in Setup!Jobs \ {e} : job'[k] = job[k]
      BY <1>s, <1>t, <2>6, <3>1, JobSet
    <3>3. \A j \in Setup!Jobs : JobEffect(j)
      BY <3>1, <3>2 DEF JobEffect, Moves
    <3>4. Setup!TypeOK'
      BY <1>t, <2>2, <2>3, <3>1, <3>2 DEF Setup!TypeOK
    <3> QED
      BY <2>4, <2>5, <3>1, <3>3, <3>4 DEF SetupEffects, FlowEffect
  <2>7. CASE e \in Flow
    <3>1. \/ flow[e].pc = "parked" /\ flow' = [flow EXCEPT ![e].pc = "failed"]
          \/ flow' = flow
      BY <1>15, <1>j, <2>1, <2>7 DEF Setup!Expire, Setup!Fails
    <3>2. \/ FlowGoes(e, "failed", flow[e].try, flow[e].via) /\ flow[e].pc = "parked"
          \/ flow' = flow
      BY <1>s, <1>f, <1>t, <2>7, <3>1, FlowMoves
    <3>3. \A g \in Flow : FlowEffect(g)
      BY <2>7, <3>2 DEF FlowGoes, FlowEffect
    <3>c. flow \in [Flow -> FlowEntry]
      BY <1>t, Types
    <3>d. flow' \in [Flow -> FlowEntry]
      <4>1. CASE flow' = flow
        BY <3>c, <4>1
      <4>2. CASE FlowGoes(e, "failed", flow[e].try, flow[e].via)
        BY <4>2 DEF FlowGoes
      <4> QED
        BY <3>2, <4>1, <4>2
    <3>e. job' = job
      BY <1>15, <2>1, <2>7, <1>j DEF Setup!Expire
    <3>a. job' = job /\ flow' \in [Flow -> FlowEntry]
      BY <3>d, <3>e
    <3>4. Setup!TypeOK'
      BY <1>t, <2>2, <2>3, <3>a DEF Setup!TypeOK, FlowEntry
    <3>b. \A j \in Setup!Jobs : JobEffect(j)
      BY <3>a DEF JobEffect
    <3> QED
      BY <2>4, <2>5, <3>b, <3>3, <3>4 DEF SetupEffects
  <2> QED
    BY <2>6, <2>7
<1>16. ASSUME NEW k \in Setup!Kinds, Setup!Fade(k) PROVE Setup!TypeOK' /\ SetupEffects
  <2>1. /\ UNCHANGED <<flow, inbox, answers, sinks, job, last, parked>>
        /\ recent' \in [Setup!Kinds -> BOOLEAN]
    BY <1>16, <1>t DEF Setup!Fade, Setup!viewer, Setup!hbbs, Setup!TypeOK
  <2>2. Setup!TypeOK'
    BY <1>t, <2>1 DEF Setup!TypeOK
  <2> QED
    BY <2>1, <2>2 DEF SetupEffects, ParkedEffect, AnswerEffect, JobEffect, FlowEffect
<1>17. CASE UNCHANGED Setup!vars
  <2>1. UNCHANGED <<flow, inbox, answers, sinks, job, last, recent, parked>>
    BY <1>17 DEF Setup!vars, Setup!viewer, Setup!hbbs, Setup!host
  <2>2. Setup!TypeOK'
    BY <1>t, <2>1 DEF Setup!TypeOK
  <2>3. SetupEffects
    BY <2>1 DEF SetupEffects, ParkedEffect, AnswerEffect, JobEffect, FlowEffect
  <2> QED
    BY <2>2, <2>3, EffectsKeep
<1>18. CASE Setup!Next
  <2>1. (Setup!TypeOK' /\ SetupEffects) \/ Setup!Done
    BY <1>18, <1>1, <1>2, <1>3, <1>4, <1>6, <1>7, <1>8, <1>9, <1>10, <1>12, <1>13, <1>14,
       <1>15, <1>16 DEF Setup!Next, Setup!Viewer, Setup!Host
  <2> QED
    BY <2>1, <1>17, EffectsKeep DEF Setup!Done
<1> QED
  BY <1>17, <1>18

LEMMA SetupHolds ==
  ASSUME Setup!SetupAssumption PROVE Setup!Spec => []SetupInv
<1>1. ASSUME Setup!Init PROVE SetupInv
  <2>a. Attempts \in Nat /\ Attempts >= 1 /\ Copies \in {1, 2}
    BY DEF Setup!SetupAssumption
  <2>1. \A f \in Flow : Setup!AnyJob \in Setup!Jobs
    <3> SUFFICES ASSUME NEW f \in Flow PROVE Setup!AnyJob \in Setup!Jobs
      OBVIOUS
    <3>1. [flow |-> f, try |-> 1, kind |-> "punch", copy |-> 1] \in Setup!Jobs
      BY <2>a DEF Setup!Jobs
    <3> QED
      BY <3>1 DEF Setup!AnyJob
  <2>2. /\ inbox = {} /\ answers = {} /\ sinks = {}
        /\ \A f \in Flow : flow[f].pc = "idle"
        /\ \A j \in Setup!Jobs : job[j] = "none" /\ parked[j] = NoEnd
    BY <1>1 DEF Setup!Init
  <2>3. flow \in [Flow -> FlowEntry]
    BY <1>1, <2>1, <2>a DEF Setup!Init, FlowEntry, Setup!FlowStates
  <2>4. Setup!TypeOK
    BY <1>1, <2>2, <2>3 DEF Setup!Init, Setup!TypeOK, FlowEntry, Setup!JobStates
  <2> QED
    BY <2>2, <2>4 DEF SetupInv, UnaskedInv, ToldInv, ParkedInv, SeatInv, AskInv, PairInv,
                      AloneInv, Setup!WaitsForSomebody, Setup!SetupAssumption
<1> QED
  BY <1>1, SetupStep, PTL DEF Setup!Spec

\* WaitsForSomebody: a viewer that goes to the relay, or waits there, goes by the uuid of
\* a task of the host that was told of it; for any flows, attempts, copies and losses.
THEOREM ViewersAreWaitedFor ==
  ASSUME Setup!SetupAssumption PROVE Setup!Spec => []Setup!WaitsForSomebody
BY SetupHolds, PTL DEF SetupInv

\* ForcedIsRelayed: a viewer that must be relayed is not connected with the answer of a
\* host that listens for it directly.
THEOREM ForcedRelaysHold ==
  ASSUME Setup!SetupAssumption PROVE Setup!Spec => []Setup!ForcedIsRelayed
<1>1. SetupInv => Setup!ForcedIsRelayed
  <2> SUFFICES ASSUME SetupInv, ForceRelay, NEW f \in Flow, flow[f].pc = "up", NEW a \in inbox,
                      a = [by |-> flow[f].via, how |-> "direct"]
               PROVE  FALSE
    BY DEF Setup!ForcedIsRelayed
  <2>1. a.by = flow[f].via /\ a.how = "direct"
    OBVIOUS
  <2> QED
    BY <2>1 DEF SetupInv, PairInv
<1> QED
  BY <1>1, SetupHolds, PTL

\* OneConnection: of the flows that race to connect, TCP, UDP and IPv6, one at most is up.
THEOREM OneIsConnected ==
  ASSUME Setup!SetupAssumption PROVE Setup!Spec => []Setup!OneConnection
<1>1. SetupInv => Setup!OneConnection
  <2> SUFFICES ASSUME SetupInv PROVE Setup!OneConnection
    OBVIOUS
  <2>1. PICK S : S = {f \in Flow : flow[f].pc \in {"up"}}
    OBVIOUS
  <2>2. S = {} \/ \E f \in S : S = {f}
    BY <2>1 DEF SetupInv, AloneInv
  <2>3. Cardinality(S) <= 1
    <3>1. CASE S = {}
      BY <3>1, FS_EmptySet
    <3>2. ASSUME NEW f \in S, S = {f} PROVE Cardinality(S) <= 1
      BY <3>2, FS_Singleton
    <3> QED
      BY <2>2, <3>1, <3>2
  <2>4. Setup!Cardinality(S) = Cardinality(S)
    BY DEF Setup!Cardinality, Cardinality
  <2> QED
    BY <2>1, <2>3, <2>4 DEF SetupInv, PairInv, Setup!OneConnection
<1> QED
  BY <1>1, SetupHolds, PTL

-----------------------------------------------------------------------------
(* Terminals.                                                              *)

Terminal == [active : BOOLEAN, made : Nat, seen : Nat, replay : Nat, running : BOOLEAN,
             closedSent : BOOLEAN]
Registered == [persistent : BOOLEAN, sync : BOOLEAN]

ServiceTypes ==
  /\ service \in Seq(Registered) /\ Len(service) <= 1
  /\ service = <<>> => Term!Open = {}

\* Terminals whose output is counted as it is made, read and replayed.
Terminals(D, f) ==
  /\ f \in [D -> Terminal]
  /\ \A t \in D : f[t].seen <= f[t].made /\ f[t].replay <= f[t].seen

SessionTypes ==
  Term!Open \subseteq Terms /\ Terminals(Term!Open, sessions)

ClientTypes ==
  /\ link \in [Conns -> {"none", "up", "lost", "gone"}]
  /\ thread \in [Conns -> {"none", "run", "remove", "done"}]
  /\ got \in [Conns -> [Terms -> Seq(Nat)]]
  /\ told \in [Conns -> SUBSET Terms]

TerminalTypes == ServiceTypes /\ SessionTypes /\ ClientTypes

\* A thread is of a connection that was made, and goes on while the host has it; the
\* connections before it have been left, or, when none overlaps another, are over.
ThreadsInv ==
  /\ \A c \in Conns : /\ thread[c] = "none" <=> link[c] = "none"
                      /\ link[c] \in {"up", "lost"} => thread[c] = "run"
  /\ \A c, d \in Conns : d < c /\ link[c] # "none" =>
       /\ link[d] \in {"lost", "gone"}
       /\ ~Overlap => thread[d] = "done"

\* The client has been told of the terminals that are there.
ToldAll ==
  \A c \in Conns :
    Term!Live(c) /\ service # <<>> /\ ~service[1].sync => Term!Open \subseteq told[c]

\* A thread that removes the service found it not persistent, and nobody makes it so.
RemovesInv ==
  \A c \in Conns : thread[c] = "remove" /\ service # <<>> => ~service[1].persistent

\* What a client received is a run of the output up to where it was last read.
RunsInv ==
  \A c \in Conns, t \in Terms :
    /\ \A i \in 1..(Len(got[c][t]) - 1) : got[c][t][i + 1] = got[c][t][i] + 1
    /\ link[c] = "none" => got[c][t] = <<>>
    /\ Term!Live(c) /\ got[c][t] # <<>> /\ t \in Term!Open =>
         /\ sessions[t].active /\ sessions[t].replay = 0
         /\ got[c][t][Len(got[c][t])] = sessions[t].seen

LEMMA LeastOf ==
  ASSUME NEW S \in SUBSET Nat, S # {}
  PROVE  \E x \in S : \A y \in S : x <= y
<1>1. \E x \in S : \A y \in S : ~ (<<y, x>> \in OpToRel(<, Nat))
  BY WFMin, NatLessThanWellFounded, Zenon
<1>2. \E x \in S : \A y \in S : ~ (y < x)
  BY <1>1, Zenon DEF OpToRel
<1> QED
  BY <1>2

\* What OpenTerminal finds are terminals of the service, the one asked for among them
\* in the place of another or not at all.
LEMMA FoundAre ==
  ASSUME Term!TerminalAssumption, SessionTypes, NEW t \in Terms
  PROVE  LET found == Term!Found(t) IN
         /\ DOMAIN found \subseteq Term!Open \cup {t} /\ Terminals(DOMAIN found, found)
         /\ \A u \in DOMAIN found : u # t => u \in Term!Open /\ found[u] = sessions[u]
         /\ t \in Term!Open \/ ~service[1].sync => found = sessions
         /\ t \notin DOMAIN found => ~service[1].sync \/ Term!Open = {}
<1> DEFINE low == CHOOSE u \in Term!Open : \A v \in Term!Open : u <= v
<1> HIDE DEF low
<1>0. DOMAIN sessions = Term!Open
  BY DEF Term!Open
<1>1. CASE t \in Term!Open \/ ~service[1].sync \/ Term!Open = {}
  <2>1. Term!Found(t) = sessions
    BY <1>1, Zenon DEF Term!Found
  <2> QED
    BY <1>0, <1>1, <2>1 DEF SessionTypes
<1>2. CASE ~(t \in Term!Open \/ ~service[1].sync \/ Term!Open = {})
  <2>1. low \in Term!Open
    <3>1. Term!Open \in SUBSET Nat
      BY DEF SessionTypes, Term!TerminalAssumption
    <3>2. \E u \in Term!Open : \A v \in Term!Open : u <= v
      BY <1>2, <3>1, LeastOf, Zenon
    <3> QED
      BY <3>2, Zenon DEF low
  <2>2. Term!Found(t) =
          [u \in (Term!Open \ {low}) \union {t} |-> sessions[IF u = t THEN low ELSE u]]
    BY <1>2, Zenon DEF Term!Found, low
  <2>3. PICK D, found : D = (Term!Open \ {low}) \union {t} /\ found = Term!Found(t)
    OBVIOUS
  <2>4. found = [u \in D |-> sessions[IF u = t THEN low ELSE u]]
    BY <2>2, <2>3
  <2>5. DOMAIN found = D /\ found \in [D -> Terminal]
    BY <2>1, <2>3, <2>4 DEF SessionTypes, Terminals
  <2>6. \A u \in D : /\ found[u] = sessions[IF u = t THEN low ELSE u]
                     /\ u # t => u \in Term!Open
    BY <2>3, <2>4
  <2>7. \A u \in D : /\ found[u].seen <= found[u].made
                     /\ found[u].replay <= found[u].seen
                     /\ u # t => u \in Term!Open /\ found[u] = sessions[u]
    BY <2>1, <2>6 DEF SessionTypes, Terminals
  <2>8. D \subseteq Term!Open \cup {t} /\ t \in D
    BY <2>3
  <2>9. Terminals(D, found)
    BY <2>5, <2>7 DEF Terminals
  <2> QED
    BY <1>2, <2>3, <2>5, <2>7, <2>8, <2>9
<1> QED
  BY <1>1, <1>2

LEMMA ServiceSet ==
  ASSUME service \in Seq(Registered), Len(service) <= 1, service # <<>>
  PROVE  /\ service[1] \in Registered
         /\ [service EXCEPT ![1].sync = FALSE] \in Seq(Registered)
         /\ [service EXCEPT ![1].sync = FALSE] # <<>>
         /\ Len([service EXCEPT ![1].sync = FALSE]) = 1
         /\ [service EXCEPT ![1].sync = FALSE][1].persistent = service[1].persistent
         /\ [service EXCEPT ![1].sync = FALSE][1].sync = FALSE
         /\ \A p \in BOOLEAN :
              /\ [service EXCEPT ![1].persistent = p] \in Seq(Registered)
              /\ [service EXCEPT ![1].persistent = p] # <<>>
              /\ Len([service EXCEPT ![1].persistent = p]) = 1
              /\ [service EXCEPT ![1].persistent = p][1].persistent = p
              /\ [service EXCEPT ![1].persistent = p][1].sync = service[1].sync
<1>0. Len(service) \in Nat /\ Len(service) # 0
  OBVIOUS
<1>1. Len(service) = 1 /\ service[1] \in Registered
  <2>1. Len(service) = 1
    BY <1>0
  <2> QED
    BY <2>1
<1>2. \A r \in Registered : [service EXCEPT ![1] = r] \in Seq(Registered) \ {<<>>}
                            /\ Len([service EXCEPT ![1] = r]) = 1
                            /\ [service EXCEPT ![1] = r][1] = r
  BY <1>1
<1>3. /\ [service[1] EXCEPT !.sync = FALSE] \in Registered
      /\ [service[1] EXCEPT !.sync = FALSE].persistent = service[1].persistent
      /\ [service[1] EXCEPT !.sync = FALSE].sync = FALSE
  BY <1>1 DEF Registered
<1>4. \A p \in BOOLEAN : /\ [service[1] EXCEPT !.persistent = p] \in Registered
                         /\ [service[1] EXCEPT !.persistent = p].persistent = p
                         /\ [service[1] EXCEPT !.persistent = p].sync = service[1].sync
  BY <1>1 DEF Registered
<1>5. /\ [service EXCEPT ![1].sync = FALSE] =
             [service EXCEPT ![1] = [service[1] EXCEPT !.sync = FALSE]]
      /\ \A p \in BOOLEAN : [service EXCEPT ![1].persistent = p]
                             = [service EXCEPT ![1] = [service[1] EXCEPT !.persistent = p]]
  BY <1>1
<1> QED
  BY <1>1, <1>2, <1>3, <1>4, <1>5

LEMMA UptoIs ==
  ASSUME NEW a \in Nat, NEW b \in Nat, a <= b
  PROVE  /\ Term!Upto(a, b) \in Seq(Nat) /\ Len(Term!Upto(a, b)) = b - a
         /\ \A i \in 1..(b - a) : Term!Upto(a, b)[i] = a + i
BY DEF Term!Upto

\* What was replayed and read goes on where the last read ended.
Sent(a, b, c) == Term!Upto(a, b) \o Term!Upto(b, c)
Run(s) == \A i \in 1..(Len(s) - 1) : s[i + 1] = s[i] + 1

LEMMA SentIs ==
  ASSUME NEW a \in Nat, NEW b \in Nat, NEW c \in Nat, a <= b, b <= c
  PROVE  /\ Sent(a, b, c) \in Seq(Nat) /\ Len(Sent(a, b, c)) = c - a
         /\ \A i \in 1..(c - a) : Sent(a, b, c)[i] = a + i
<1>1. PICK s, u \in Seq(Nat) : s = Term!Upto(a, b) /\ u = Term!Upto(b, c)
  BY UptoIs
<1>2. /\ Len(s) = b - a /\ Len(u) = c - b
      /\ \A i \in 1..(b - a) : s[i] = a + i
      /\ \A i \in 1..(c - b) : u[i] = b + i
  BY <1>1, UptoIs
<1>3. /\ s \o u \in Seq(Nat) /\ Len(s \o u) = Len(s) + Len(u)
      /\ \A i \in 1..(Len(s) + Len(u)) :
           (s \o u)[i] = IF i <= Len(s) THEN s[i] ELSE u[i - Len(s)]
  OBVIOUS
<1>4. ASSUME NEW i \in 1..(c - a) PROVE (s \o u)[i] = a + i
  <2>1. CASE i <= b - a
    BY <1>2, <1>3, <2>1
  <2>2. CASE ~(i <= b - a)
    <3>1. i - (b - a) \in 1..(c - b)
      BY <2>2
    <3> QED
      BY <1>2, <1>3, <2>2, <3>1
  <2> QED
    BY <2>1, <2>2
<1> QED
  BY <1>1, <1>2, <1>3, <1>4 DEF Sent

LEMMA RunGoesOn ==
  ASSUME NEW s \in Seq(Nat), NEW u \in Seq(Nat), NEW a \in Nat, Run(s),
         s # <<>> => s[Len(s)] = a, \A i \in 1..Len(u) : u[i] = a + i
  PROVE  /\ s \o u \in Seq(Nat) /\ Run(s \o u)
         /\ s \o u # <<>> => (s \o u)[Len(s \o u)] = a + Len(u)
<1>1. /\ s \o u \in Seq(Nat) /\ Len(s \o u) = Len(s) + Len(u)
      /\ \A i \in 1..(Len(s) + Len(u)) :
           (s \o u)[i] = IF i <= Len(s) THEN s[i] ELSE u[i - Len(s)]
      /\ Len(s) \in Nat /\ Len(u) \in Nat
  OBVIOUS
<1>2. ASSUME NEW i \in 1..(Len(s) + Len(u) - 1) PROVE (s \o u)[i + 1] = (s \o u)[i] + 1
  <2>1. CASE i < Len(s)
    <3>1. i \in 1..(Len(s) - 1) /\ i + 1 <= Len(s)
      BY <1>1, <2>1
    <3>2. s[i + 1] = s[i] + 1
      BY <3>1 DEF Run
    <3> QED
      BY <1>1, <3>1, <3>2
  <2>2. CASE i = Len(s)
    <3>1. s # <<>> /\ Len(u) >= 1 /\ u[1] = a + 1 /\ s[Len(s)] = a
      BY <1>1, <2>2
    <3> QED
      BY <1>1, <2>2, <3>1
  <2>3. CASE i > Len(s)
    <3>1. i - Len(s) \in 1..Len(u) /\ i + 1 - Len(s) \in 1..Len(u)
      BY <1>1, <2>3
    <3>2. u[i - Len(s)] = a + (i - Len(s)) /\ u[i + 1 - Len(s)] = a + (i + 1 - Len(s))
      BY <3>1
    <3> QED
      BY <1>1, <2>3, <3>1, <3>2
  <2> QED
    BY <1>1, <2>1, <2>2, <2>3
<1>3. s \o u # <<>> => (s \o u)[Len(s \o u)] = a + Len(u)
  <2>1. CASE Len(u) = 0
    <3>1. s \o u = s
      BY <2>1
    <3> QED
      BY <2>1, <3>1
  <2>2. CASE Len(u) > 0
    <3>1. Len(s) + Len(u) \in 1..(Len(s) + Len(u)) /\ ~(Len(s) + Len(u) <= Len(s))
          /\ Len(s) + Len(u) - Len(s) = Len(u) /\ Len(u) \in 1..Len(u)
      BY <1>1, <2>2
    <3> QED
      BY <1>1, <3>1
  <2> QED
    BY <1>1, <2>1, <2>2
<1>4. Run(s \o u)
  <2>1. PICK q : q = s \o u /\ Len(q) = Len(s) + Len(u)
    BY <1>1
  <2>2. \A i \in 1..(Len(q) - 1) : q[i + 1] = q[i] + 1
    BY <1>2, <2>1, SMTT(30)
  <2> QED
    BY <2>1, <2>2 DEF Run
<1> QED
  BY <1>1, <1>3, <1>4

LEMMA TypesInit ==
  ASSUME Term!TerminalAssumption, Term!Init
  PROVE  TerminalTypes /\ ThreadsInv /\ ToldAll /\ RemovesInv /\ RunsInv
<1>1. Term!Open = {} /\ sessions \in [Term!Open -> Terminal]
  BY DEF Term!Init, Term!Open
<1>2. \A c \in Conns, t \in Terms : got[c][t] = <<>> /\ link[c] = "none" /\ thread[c] = "none"
  BY DEF Term!Init
<1>3. ServiceTypes /\ SessionTypes
  BY <1>1 DEF Term!Init, ServiceTypes, SessionTypes, Terminals
<1>4. ClientTypes
  BY DEF Term!Init, ClientTypes
<1>5. RunsInv
  BY <1>1, <1>2 DEF RunsInv
<1>6. ThreadsInv
  BY DEF ThreadsInv, Term!Init
<1>7. ToldAll /\ RemovesInv
  BY DEF ToldAll, RemovesInv, Term!Init
<1> QED
  BY <1>3, <1>4, <1>5, <1>6, <1>7 DEF TerminalTypes

LEMMA TerminalConstants ==
  ASSUME Term!TerminalAssumption
  PROVE  /\ Conns \subseteq Nat /\ Terms \subseteq Nat /\ Replay \in Nat
         /\ Options \subseteq BOOLEAN /\ Overlap \in BOOLEAN
         /\ Term!Open = DOMAIN sessions /\ Term!Open' = DOMAIN sessions'
BY DEF Term!TerminalAssumption, Term!Open



LEMMA OpenGoes ==
  ASSUME Term!TerminalAssumption, TerminalTypes, NEW c \in Conns, NEW t \in Terms,
         Term!OpenTerminal(c, t)
  PROVE  /\ TerminalTypes'
         /\ service' # <<>> /\ service'[1].sync = FALSE
         /\ service'[1].persistent = service[1].persistent
         /\ \A u \in Term!Open' : u # t => u \in Term!Open /\ sessions'[u] = sessions[u]
         /\ service[1].sync \/ Term!Open \subseteq told[c] => Term!Open' \subseteq told'[c]
<1>0. Terms \subseteq Nat /\ Replay \in Nat /\ Term!Open' = DOMAIN sessions' /\ SessionTypes
  BY TerminalConstants DEF TerminalTypes
<1>1. PICK D, f : /\ f = Term!Found(t) /\ D = DOMAIN f
                  /\ D \subseteq Term!Open \cup {t} /\ Terminals(D, f)
                  /\ \A u \in D : u # t => u \in Term!Open /\ f[u] = sessions[u]
                  /\ ~service[1].sync => f = sessions
                  /\ t \notin D => ~service[1].sync \/ Term!Open = {}
  BY <1>0, FoundAre
<1>2. D \subseteq Terms
  BY <1>0, <1>1 DEF SessionTypes
<1>3. /\ service' \in Seq(Registered) /\ Len(service') = 1
      /\ service' # <<>> /\ service'[1].sync = FALSE
      /\ service'[1].persistent = service[1].persistent
  BY ServiceSet DEF Term!OpenTerminal, TerminalTypes, ServiceTypes
<1>4. /\ Term!Open' = D \cup {t} /\ Terminals(Term!Open', sessions')
      /\ \A u \in D : u # t => sessions'[u] = f[u]
  <2>1. CASE t \in D
    <3>1. PICK p, is : is = sessions' /\ p = IF f[t].made < Replay THEN f[t].made ELSE Replay
      OBVIOUS
    <3>2. is = [f EXCEPT ![t].active = TRUE, ![t].seen = f[t].made, ![t].replay = p]
      BY <1>1, <2>1, <3>1 DEF Term!OpenTerminal
    <3>3. f[t].made \in Nat
      BY <1>1, <2>1 DEF Terminals, Terminal
    <3>4. p \in Nat /\ p <= f[t].made
      BY <1>0, <3>1, <3>3
    <3>5. Terminals(D, is) /\ \A u \in D : u # t => is[u] = f[u]
      <4>1. PICK m \in Nat : m = f[t].made
        BY <3>3
      <4>2. /\ f \in [D -> Terminal] /\ t \in D /\ p \in Nat
            /\ is = [f EXCEPT ![t].active = TRUE, ![t].seen = m, ![t].replay = p]
        BY <1>1, <2>1, <3>2, <3>4, <4>1 DEF Terminals
      <4>3. /\ is \in [D -> Terminal]
            /\ is[t].seen = m /\ is[t].replay = p /\ is[t].made = f[t].made
            /\ \A u \in D : u # t => is[u] = f[u]
        BY <4>2 DEF Terminal
      <4> QED
        BY <1>1, <3>4, <4>1, <4>3 DEF Terminals
    <3>6. DOMAIN is = D
      BY <3>5 DEF Terminals
    <3> QED
      BY <1>0, <2>1, <3>1, <3>5, <3>6
  <2>2. CASE t \notin D
    <3>1. PICK is, E : is = sessions' /\ E = D \cup {t}
      OBVIOUS
    <3>2. is = [u \in E |-> IF u = t THEN Term!NewSession ELSE f[u]]
      BY <1>1, <2>2, <3>1 DEF Term!OpenTerminal
    <3>3. /\ Term!NewSession \in Terminal /\ Term!NewSession.seen <= Term!NewSession.made
          /\ Term!NewSession.replay <= Term!NewSession.seen
      BY DEF Term!NewSession, Terminal
    <3>4. /\ DOMAIN is = E /\ is[t] = Term!NewSession
          /\ \A u \in D : u # t => is[u] = f[u]
      BY <3>1, <3>2
    <3>5. is \in [E -> Terminal]
      BY <1>1, <2>2, <3>1, <3>2, <3>3 DEF Terminals
    <3>6. \A u \in E : is[u].seen <= is[u].made /\ is[u].replay <= is[u].seen
      BY <1>1, <2>2, <3>1, <3>3, <3>4 DEF Terminals
    <3> QED
      BY <1>0, <3>1, <3>4, <3>5, <3>6 DEF Terminals
  <2> QED
    BY <2>1, <2>2
<1>5. SessionTypes'
  BY <1>2, <1>4 DEF SessionTypes
<1>6. /\ told' = [told EXCEPT ![c] = @ \union {t} \union
                                    IF t \in D /\ service[1].sync THEN D ELSE {}]
      /\ got' = [got EXCEPT ![c][t] = <<>>] /\ link' = link /\ thread' = thread
  BY <1>1 DEF Term!OpenTerminal
<1>7. ClientTypes'
  <2>1. got' \in [Conns -> [Terms -> Seq(Nat)]]
    BY <1>6 DEF TerminalTypes, ClientTypes
  <2>2. told' \in [Conns -> SUBSET Terms]
    <3>1. (told[c] \union {t} \union IF t \in D /\ service[1].sync THEN D ELSE {}) \in SUBSET Terms
      BY <1>2 DEF TerminalTypes, ClientTypes
    <3> QED
      BY <1>6, <3>1 DEF TerminalTypes, ClientTypes
  <2> QED
    BY <1>6, <2>1, <2>2 DEF TerminalTypes, ClientTypes
<1>8. ASSUME service[1].sync \/ Term!Open \subseteq told[c] PROVE Term!Open' \subseteq told'[c]
  <2>1. told'[c] = told[c] \union {t} \union IF t \in D /\ service[1].sync THEN D ELSE {}
    BY <1>6 DEF TerminalTypes, ClientTypes
  <2>2. D \subseteq told[c] \cup {t} \/ (t \in D /\ service[1].sync) \/ D = {}
    <3>1. CASE ~service[1].sync
      BY <1>1, <1>8, <3>1
    <3>2. CASE service[1].sync
      BY <1>1, <3>2
    <3> QED
      BY <3>1, <3>2
  <2> QED
    BY <1>4, <2>1, <2>2
<1> QED
  BY <1>1, <1>3, <1>4, <1>5, <1>7, <1>8 DEF TerminalTypes, ServiceTypes

LEMMA ReadGoes ==
  ASSUME Term!TerminalAssumption, TerminalTypes, NEW c \in Conns, NEW t \in Terms,
         Term!ReadOutputs(c, t)
  PROVE  /\ TerminalTypes' /\ t \in Term!Open /\ Term!Open' \subseteq Term!Open
         /\ \A u \in Term!Open' : u # t => sessions'[u] = sessions[u]
         /\ t \in Term!Open' =>
              /\ sessions'[t].active = sessions[t].active
              /\ sessions'[t].seen = sessions[t].made
              /\ sessions[t].active => sessions'[t].replay = 0
         /\ sessions[t].seen \in Nat /\ sessions[t].made \in Nat
         /\ sessions[t].replay \in Nat /\ sessions[t].replay <= sessions[t].seen
         /\ sessions[t].seen <= sessions[t].made
         /\ \E batch \in Seq(Nat) :
              /\ got' = IF Term!Live(c) THEN [got EXCEPT ![c][t] = @ \o batch] ELSE got
              /\ ~sessions[t].active => batch = <<>>
              /\ sessions[t].active =>
                   /\ Len(batch) = sessions[t].made - (sessions[t].seen - sessions[t].replay)
                   /\ \A i \in 1..Len(batch) : batch[i] = sessions[t].seen - sessions[t].replay + i
<1>0. Term!Open' = DOMAIN sessions' /\ Term!Open \subseteq Terms /\ Terminals(Term!Open, sessions)
  BY TerminalConstants DEF TerminalTypes, SessionTypes
<1>1. PICK s, f, is : s = sessions[t] /\ f = sessions /\ is = sessions'
  OBVIOUS
<1>2. /\ t \in Term!Open /\ UNCHANGED <<service, link, thread, told>> /\ service # <<>>
      /\ is = IF s.running
              THEN [f EXCEPT ![t].seen = s.made, ![t].replay = IF s.active THEN 0 ELSE @]
              ELSE [u \in Term!Open \ {t} |-> f[u]]
  BY <1>1 DEF Term!ReadOutputs
<1>3. /\ s.seen \in Nat /\ s.made \in Nat /\ s.replay \in Nat /\ s.replay <= s.seen
      /\ s.seen <= s.made /\ f[t] = s /\ Terminals(Term!Open, f)
  BY <1>0, <1>1, <1>2 DEF Terminals, Terminal
<1>4. /\ Terminals(DOMAIN is, is) /\ DOMAIN is \subseteq Term!Open
      /\ \A u \in DOMAIN is : u # t => is[u] = f[u]
      /\ t \in DOMAIN is => is[t].active = s.active /\ is[t].seen = s.made
      /\ t \in DOMAIN is /\ s.active => is[t].replay = 0
  <2>1. CASE s.running
    <3>1. PICK p : p = IF s.active THEN 0 ELSE s.replay
      OBVIOUS
    <3>2. is = [f EXCEPT ![t].seen = f[t].made, ![t].replay = p]
      BY <1>2, <1>3, <2>1, <3>1
    <3>3. p \in Nat /\ p <= f[t].made
      BY <1>3, <3>1
    <3>4. /\ Terminals(Term!Open, is) /\ is[t].active = f[t].active
          /\ is[t].seen = f[t].made /\ is[t].replay = p
          /\ \A u \in Term!Open : u # t => is[u] = f[u]
      <4>1. PICK m, D : m \in Nat /\ m = f[t].made /\ D = Term!Open
        BY <1>3
      <4>2. /\ f \in [D -> Terminal] /\ t \in D /\ p \in Nat /\ m \in Nat
            /\ is = [f EXCEPT ![t].seen = m, ![t].replay = p]
        BY <1>2, <1>3, <3>2, <3>3, <4>1 DEF Terminals
      <4>3. /\ is \in [D -> Terminal]
            /\ is[t].active = f[t].active
            /\ is[t].seen = m /\ is[t].replay = p /\ is[t].made = f[t].made
            /\ \A u \in D : u # t => is[u] = f[u]
        BY <4>2 DEF Terminal
      <4> QED
        BY <1>3, <3>3, <4>1, <4>3 DEF Terminals
    <3>5. DOMAIN is = Term!Open
      BY <3>4 DEF Terminals
    <3> QED
      BY <1>3, <3>1, <3>4, <3>5
  <2>2. CASE ~s.running
    <3>1. is = [u \in Term!Open \ {t} |-> f[u]]
      BY <1>2, <2>2
    <3>2. DOMAIN is = Term!Open \ {t} /\ \A u \in Term!Open \ {t} : is[u] = f[u]
      BY <3>1
    <3>3. is \in [DOMAIN is -> Terminal]
      BY <1>3, <3>1, <3>2 DEF Terminals
    <3> QED
      BY <1>3, <3>2, <3>3 DEF Terminals
  <2> QED
    BY <2>1, <2>2
<1>5. PICK batch : batch = IF s.active
                         THEN Term!Upto(s.seen - s.replay, s.seen) \o Term!Upto(s.seen, s.made)
                         ELSE <<>>
  OBVIOUS
<1>6. /\ batch \in Seq(Nat)
      /\ ~s.active => batch = <<>>
      /\ s.active =>
           /\ Len(batch) = s.made - (s.seen - s.replay)
           /\ \A i \in 1..Len(batch) : batch[i] = s.seen - s.replay + i
  <2>1. CASE s.active
    <3>1. PICK a \in Nat, b \in Nat, m \in Nat :
            a = s.seen - s.replay /\ b = s.seen /\ m = s.made /\ a <= b /\ b <= m
      BY <1>3
    <3>2. batch = Sent(a, b, m)
      BY <1>5, <2>1, <3>1 DEF Sent
    <3>3. /\ Sent(a, b, m) \in Seq(Nat) /\ Len(Sent(a, b, m)) = m - a
          /\ \A i \in 1..(m - a) : Sent(a, b, m)[i] = a + i
      <4>1. a <= b /\ b <= m
        BY <3>1
      <4> QED
        BY <4>1, SentIs, Zenon
    <3>4. Len(batch) = m - a /\ 1..Len(batch) = 1..(m - a)
      BY <3>2, <3>3
    <3> QED
      BY <2>1, <3>1, <3>2, <3>3, <3>4
  <2>2. CASE ~s.active
    BY <1>5, <2>2
  <2> QED
    BY <2>1, <2>2
<1>7. got' = IF Term!Live(c) THEN [got EXCEPT ![c][t] = @ \o batch] ELSE got
  BY <1>1, <1>5 DEF Term!ReadOutputs
<1>8. ClientTypes'
  <2>1. got' \in [Conns -> [Terms -> Seq(Nat)]]
    <3>0. got[c][t] \in Seq(Nat)
      BY DEF TerminalTypes, ClientTypes
    <3>1. PICK s2 \in Seq(Nat) : s2 = got[c][t] \o batch
      <4>1. PICK q \in Seq(Nat) : q = got[c][t]
        BY <3>0
      <4>2. batch \in Seq(Nat)
        BY <1>6
      <4>3. q \o batch \in Seq(Nat)
        BY <4>2
      <4> QED
        BY <4>1, <4>3, Zenon
    <3>2. got' = IF Term!Live(c) THEN [got EXCEPT ![c][t] = s2] ELSE got
      BY <1>7, <3>1
    <3> QED
      BY <3>2 DEF TerminalTypes, ClientTypes
  <2> QED
    BY <1>2, <2>1 DEF TerminalTypes, ClientTypes
<1>9. SessionTypes' /\ ServiceTypes'
  BY <1>0, <1>1, <1>2, <1>4 DEF SessionTypes, TerminalTypes, ServiceTypes
<1>10. \E x \in Seq(Nat) :
         /\ got' = IF Term!Live(c) THEN [got EXCEPT ![c][t] = @ \o x] ELSE got
         /\ ~s.active => x = <<>>
         /\ s.active => /\ Len(x) = s.made - (s.seen - s.replay)
                        /\ \A i \in 1..Len(x) : x[i] = s.seen - s.replay + i
  BY <1>6, <1>7, Zenon
<1> QED
  BY <1>0, <1>1, <1>2, <1>3, <1>4, <1>8, <1>9, <1>10, ZenonT(60) DEF TerminalTypes

\* The steps that neither read nor open leave what was read and received as it was.
Rest(c, t) ==
  \/ Term!CloseTerminal(c, t)
  \/ Term!Output(t) \/ Term!Exit(t)
  \/ Term!Leave(c) \/ Term!Drop(c) \/ Term!ThreadLeaves(c) \/ Term!ThreadRemoves(c)
  \/ \E p \in BOOLEAN : Term!SetPersistent(c, p)
  \/ UNCHANGED Term!vars

LEMMA TerminalSteps ==
  ASSUME [Term!Next]_Term!vars
  PROVE  \/ \E c \in Conns : Term!Connect(c)
         \/ \E c \in Conns, t \in Terms : Term!OpenTerminal(c, t) \/ Term!ReadOutputs(c, t)
         \/ \E c, t : Rest(c, t)
<1>1. CASE UNCHANGED Term!vars
  BY <1>1 DEF Rest
<1>2. ASSUME NEW t \in Terms, Term!Output(t) \/ Term!Exit(t) PROVE \E c, u : Rest(c, u)
  BY <1>2 DEF Rest
<1>3. CASE Term!Next
  BY <1>2, <1>3 DEF Term!Next, Rest
<1> QED
  BY <1>1, <1>3

LEMMA RestGoes ==
  ASSUME Term!TerminalAssumption, TerminalTypes, NEW c, NEW t, Rest(c, t)
  PROVE  /\ TerminalTypes' /\ got' = got /\ told' = told
         /\ Term!Open' \subseteq Term!Open
         /\ \A u \in Term!Open' : /\ sessions'[u].active = sessions[u].active
                                  /\ sessions'[u].seen = sessions[u].seen
                                  /\ sessions'[u].replay = sessions[u].replay
         /\ service' # <<>> => service # <<>> /\ service'[1].sync = service[1].sync
<1>0. /\ Term!Open' = DOMAIN sessions' /\ Term!Open \subseteq Terms /\ Term!Open = DOMAIN sessions
      /\ Terminals(Term!Open, sessions) /\ ServiceTypes /\ ClientTypes /\ SessionTypes
  BY TerminalConstants DEF TerminalTypes, SessionTypes
<1>1. CASE Term!CloseTerminal(c, t)
  <2>1. /\ sessions' = [u \in Term!Open \ {t} |-> sessions[u]] /\ service # <<>>
        /\ UNCHANGED <<service, link, thread, got, told>>
    BY <1>1 DEF Term!CloseTerminal
  <2>2. Term!Open' = Term!Open \ {t} /\ \A u \in Term!Open' : sessions'[u] = sessions[u]
    BY <1>0, <2>1
  <2>3. Terminals(Term!Open', sessions')
    BY <1>0, <2>1, <2>2 DEF Terminals
  <2> QED
    BY <1>0, <2>1, <2>2, <2>3 DEF TerminalTypes, SessionTypes, ServiceTypes, ClientTypes
<1>2. CASE Term!Output(t) \/ Term!Exit(t)
  <2>1. PICK D, f, is : D = Term!Open /\ f = sessions /\ is = sessions'
    OBVIOUS
  <2>2. /\ f \in [D -> Terminal] /\ t \in D
        /\ \A u \in D : f[u].seen <= f[u].made /\ f[u].replay <= f[u].seen
        /\ UNCHANGED <<service, link, thread, got, told>>
    BY <1>0, <1>2, <2>1 DEF Term!Output, Term!Exit, Terminals
  <2>3. \/ is = [f EXCEPT ![t].made = @ + 1]
        \/ is = [f EXCEPT ![t].running = FALSE]
    BY <1>2, <2>1 DEF Term!Output, Term!Exit
  <2>4. f[t] \in Terminal /\ f[t].made \in Nat /\ f[t].seen \in Nat
    BY <2>2 DEF Terminal
  <2>5. /\ is \in [D -> Terminal]
        /\ is[t].active = f[t].active /\ is[t].seen = f[t].seen /\ is[t].replay = f[t].replay
        /\ is[t].made = f[t].made \/ is[t].made = f[t].made + 1
        /\ \A u \in D : u # t => is[u] = f[u]
    <3>1. f \in [D -> Terminal] /\ t \in D
      BY <2>2
    <3>2. CASE is = [f EXCEPT ![t].made = @ + 1]
      BY <3>1, <3>2 DEF Terminal
    <3>3. CASE is = [f EXCEPT ![t].running = FALSE]
      BY <3>1, <3>3 DEF Terminal
    <3> QED
      BY <2>3, <3>2, <3>3
  <2>6. Terminals(D, is)
    BY <2>2, <2>4, <2>5 DEF Terminals
  <2>7. Term!Open' = Term!Open
    BY <1>0, <2>1, <2>5
  <2>8. \A u \in D : /\ is[u].active = f[u].active /\ is[u].seen = f[u].seen
                     /\ is[u].replay = f[u].replay
    BY <2>5
  <2>9. SessionTypes' /\ ServiceTypes' /\ ClientTypes'
    BY <1>0, <2>1, <2>2, <2>6, <2>7 DEF SessionTypes, ServiceTypes, ClientTypes
  <2> QED
    BY <2>1, <2>2, <2>7, <2>8, <2>9 DEF TerminalTypes
<1>3. CASE Term!Leave(c) \/ Term!Drop(c) \/ Term!ThreadLeaves(c)
  <2>1. UNCHANGED <<service, sessions, got, told>>
    BY <1>3 DEF Term!Leave, Term!Drop, Term!ThreadLeaves
  <2>2. ClientTypes'
    BY <1>0, <1>3 DEF Term!Leave, Term!Drop, Term!ThreadLeaves, ClientTypes
  <2>3. Term!Open' = Term!Open
    BY <1>0, <2>1
  <2> QED
    BY <1>0, <2>1, <2>2, <2>3 DEF TerminalTypes, SessionTypes, ServiceTypes
<1>4. CASE Term!ThreadRemoves(c)
  <2>1. PICK is : is = sessions' /\ is = <<>>
    BY <1>4 DEF Term!ThreadRemoves
  <2>2. DOMAIN is = {} /\ is \in [DOMAIN is -> Terminal]
    BY <2>1
  <2>3. Term!Open' = {} /\ Terminals(Term!Open', sessions')
    BY <1>0, <2>1, <2>2 DEF Terminals
  <2>4. ClientTypes'
    BY <1>0, <1>4 DEF Term!ThreadRemoves, ClientTypes
  <2>5. ServiceTypes'
    <3>1. service' = <<>>
      BY <1>4 DEF Term!ThreadRemoves
    <3> QED
      BY <2>3, <3>1 DEF ServiceTypes
  <2> QED
    BY <1>4, <2>3, <2>4, <2>5 DEF TerminalTypes, SessionTypes, Term!ThreadRemoves
<1>5. CASE \E p \in BOOLEAN : Term!SetPersistent(c, p)
  <2>1. PICK p \in BOOLEAN : Term!SetPersistent(c, p)
    BY <1>5
  <2>2. /\ service # <<>> /\ service' \in Seq(Registered) /\ Len(service') = 1
        /\ service' # <<>> /\ service'[1].sync = service[1].sync
    BY <1>0, <2>1, ServiceSet DEF Term!SetPersistent, ServiceTypes
  <2>3. UNCHANGED <<sessions, link, thread, got, told>>
    BY <2>1 DEF Term!SetPersistent
  <2>4. Term!Open' = Term!Open
    BY <1>0, <2>3
  <2> QED
    BY <1>0, <2>2, <2>3, <2>4 DEF TerminalTypes, SessionTypes, ServiceTypes, ClientTypes
<1>6. CASE UNCHANGED Term!vars
  BY <1>0, <1>6 DEF Term!vars, TerminalTypes, SessionTypes, ServiceTypes, ClientTypes
<1> QED
  BY <1>1, <1>2, <1>3, <1>4, <1>5, <1>6 DEF Rest

LEMMA ConnectGoes ==
  ASSUME Term!TerminalAssumption, TerminalTypes, NEW c \in Conns, Term!Connect(c)
  PROVE  TerminalTypes' /\ service' # <<>> /\ service'[1].sync /\ Term!Open' = Term!Open
<1>0. /\ Term!Open' = DOMAIN sessions' /\ Term!Open \subseteq Terms /\ Options \subseteq BOOLEAN
      /\ Terminals(Term!Open, sessions) /\ ServiceTypes /\ ClientTypes /\ SessionTypes
  BY TerminalConstants DEF TerminalTypes, SessionTypes
<1>1. PICK p \in BOOLEAN : service' = <<[persistent |-> p, sync |-> TRUE]>>
  BY <1>0 DEF Term!Connect
<1>2. /\ service' \in Seq(Registered) /\ Len(service') <= 1 /\ service' # <<>>
      /\ service'[1].sync
  <2>1. [persistent |-> p, sync |-> TRUE] \in Registered
    BY DEF Registered
  <2> QED
    BY <1>1, <2>1
<1>3. PICK D, f, is : D = Term!Open /\ f = sessions /\ is = sessions'
  OBVIOUS
<1>4. /\ is = [t \in D |-> [f[t] EXCEPT !.active = FALSE]] /\ f \in [D -> Terminal]
  BY <1>0, <1>3 DEF Term!Connect, Terminals
<1>5. /\ is \in [D -> Terminal]
      /\ \A t \in D : /\ is[t].made = f[t].made /\ is[t].seen = f[t].seen
                      /\ is[t].replay = f[t].replay
  BY <1>4 DEF Terminal
<1>6. DOMAIN is = D /\ Terminals(D, is)
  BY <1>0, <1>3, <1>5 DEF Terminals
<1>7. Term!Open' = Term!Open /\ SessionTypes'
  BY <1>0, <1>3, <1>6 DEF SessionTypes
<1>8. ClientTypes'
  BY <1>0 DEF ClientTypes, Term!Connect
<1> QED
  BY <1>2, <1>7, <1>8 DEF TerminalTypes, ServiceTypes

TerminalInv == TerminalTypes /\ ThreadsInv

LEMMA ThreadsStep ==
  ASSUME Term!TerminalAssumption, TerminalInv, [Term!Next]_Term!vars
  PROVE  TerminalInv'
<1>0. Conns \subseteq Nat /\ Overlap \in BOOLEAN /\ ClientTypes
  BY TerminalConstants DEF TerminalInv, TerminalTypes
<1>1. ASSUME link' = link, thread' = thread PROVE ThreadsInv'
  BY <1>1 DEF TerminalInv, ThreadsInv
<1>2. ASSUME NEW c \in Conns, Term!Connect(c) PROVE ThreadsInv'
  <2>1. /\ link[c] = "none"
        /\ link' = [link EXCEPT ![c] = "up"] /\ thread' = [thread EXCEPT ![c] = "run"]
        /\ \A d \in Conns : d < c => IF Overlap THEN link[d] \in {"lost", "gone"}
                                     ELSE thread[d] = "done"
    BY <1>2 DEF Term!Connect
  <2>2. \A d \in Conns : thread[d] = "done" => link[d] \in {"lost", "gone"}
    BY <1>0 DEF TerminalInv, ThreadsInv, ClientTypes
  <2>3. \A d \in Conns : c < d => link[d] = "none"
    BY <2>1 DEF TerminalInv, ThreadsInv
  <2>4. /\ link'[c] = "up" /\ thread'[c] = "run"
        /\ \A d \in Conns \ {c} : link'[d] = link[d] /\ thread'[d] = thread[d]
    BY <1>0, <2>1 DEF ClientTypes
  <2>5. ASSUME NEW d \in Conns, NEW e \in Conns, e < d, link'[d] # "none"
        PROVE  link'[e] \in {"lost", "gone"} /\ (~Overlap => thread'[e] = "done")
    <3>1. e # d
      BY <1>0, <2>5
    <3>2. CASE d = c
      BY <2>1, <2>2, <2>4, <2>5, <3>1, <3>2
    <3>3. CASE e = c
      BY <2>3, <2>4, <2>5, <3>1, <3>3
    <3>4. CASE d # c /\ e # c
      BY <2>4, <2>5, <3>4 DEF TerminalInv, ThreadsInv
    <3> QED
      BY <3>2, <3>3, <3>4
  <2>6. ASSUME NEW d \in Conns
        PROVE  /\ thread'[d] = "none" <=> link'[d] = "none"
               /\ link'[d] \in {"up", "lost"} => thread'[d] = "run"
    BY <2>4 DEF TerminalInv, ThreadsInv
  <2> QED
    BY <2>5, <2>6 DEF ThreadsInv
<1>3. ASSUME NEW c \in Conns,
             Term!Leave(c) \/ Term!Drop(c) \/ Term!ThreadLeaves(c) \/ Term!ThreadRemoves(c)
      PROVE  ThreadsInv'
  <2>1. /\ link[c] # "none" /\ thread[c] # "none" /\ thread[c] # "done"
        /\ link'[c] \in {"lost", "gone"} /\ thread'[c] # "none"
        /\ link'[c] = "lost" => thread'[c] = "run"
        /\ \A d \in Conns \ {c} : link'[d] = link[d] /\ thread'[d] = thread[d]
    <3>1. CASE Term!Leave(c) \/ Term!Drop(c)
      BY <1>0, <3>1 DEF TerminalInv, ThreadsInv, ClientTypes, Term!Leave, Term!Drop, Term!Live
    <3>2. CASE Term!ThreadLeaves(c)
      BY <1>0, <3>2 DEF TerminalInv, ThreadsInv, ClientTypes, Term!ThreadLeaves
    <3>3. CASE Term!ThreadRemoves(c)
      BY <1>0, <3>3 DEF TerminalInv, ThreadsInv, ClientTypes, Term!ThreadRemoves
    <3> QED
      BY <1>3, <3>1, <3>2, <3>3
  <2>2. ASSUME NEW d \in Conns
        PROVE  /\ thread'[d] = "none" <=> link'[d] = "none"
               /\ link'[d] \in {"up", "lost"} => thread'[d] = "run"
    BY <2>1 DEF TerminalInv, ThreadsInv
  <2>3. ASSUME NEW d \in Conns, NEW e \in Conns, e < d, link'[d] # "none"
        PROVE  link'[e] \in {"lost", "gone"} /\ (~Overlap => thread'[e] = "done")
    <3>1. link[d] # "none"
      BY <2>1, <2>3
    <3>2. link[e] \in {"lost", "gone"} /\ (~Overlap => thread[e] = "done")
      BY <2>3, <3>1 DEF TerminalInv, ThreadsInv
    <3> QED
      BY <2>1, <3>2
  <2> QED
    BY <2>2, <2>3 DEF ThreadsInv
<1>4. ThreadsInv'
  <2>1. CASE UNCHANGED Term!vars
    BY <1>1, <2>1 DEF Term!vars
  <2>2. CASE Term!Next
    <3>1. ASSUME NEW c \in Conns, NEW t \in Terms,
                 Term!OpenTerminal(c, t) \/ Term!CloseTerminal(c, t) \/ Term!ReadOutputs(c, t)
          PROVE  ThreadsInv'
      BY <1>1, <3>1 DEF Term!OpenTerminal, Term!CloseTerminal, Term!ReadOutputs
    <3>2. ASSUME NEW t \in Terms, Term!Output(t) \/ Term!Exit(t) PROVE ThreadsInv'
      BY <1>1, <3>2 DEF Term!Output, Term!Exit
    <3>3. ASSUME NEW c \in Conns, NEW p \in BOOLEAN, Term!SetPersistent(c, p) PROVE ThreadsInv'
      BY <1>1, <3>3 DEF Term!SetPersistent
    <3> QED
      BY <1>2, <1>3, <2>2, <3>1, <3>2, <3>3 DEF Term!Next
  <2> QED
    BY <2>1, <2>2
<1>5. TerminalTypes'
  BY TerminalSteps, ConnectGoes, OpenGoes, ReadGoes, RestGoes DEF TerminalInv
<1> QED
  BY <1>4, <1>5 DEF TerminalInv

\* Of the connections of a client one at most is up.
LEMMA OneIsUp ==
  ASSUME Term!TerminalAssumption, TerminalInv, NEW c \in Conns, NEW d \in Conns,
         Term!Live(c), link[d] \in {"up"} \/ (~Overlap /\ thread[d] \notin {"none", "done"})
  PROVE  c = d
<1>1. c \in Nat /\ d \in Nat
  BY TerminalConstants
<1>2. link[c] = "up" /\ thread[d] # "none" /\ link[d] # "none"
  BY DEF TerminalInv, ThreadsInv, Term!Live
<1>3. ~(c < d)
  BY <1>1, <1>2 DEF TerminalInv, ThreadsInv
<1>4. ~(d < c)
  BY <1>1, <1>2 DEF TerminalInv, ThreadsInv
<1> QED
  BY <1>1, <1>3, <1>4

LEMMA ToldStep ==
  ASSUME Term!TerminalAssumption, TerminalInv, ToldAll, [Term!Next]_Term!vars
  PROVE  ToldAll'
<1>0. TerminalTypes /\ ClientTypes
  BY DEF TerminalInv, TerminalTypes
<1>1. ASSUME NEW c \in Conns, Term!Connect(c) PROVE ToldAll'
  BY <1>0, <1>1, ConnectGoes DEF ToldAll
<1>2. ASSUME NEW c \in Conns, NEW t \in Terms, Term!OpenTerminal(c, t) PROVE ToldAll'
  <2>1. link' = link /\ Term!Live(c) /\ service # <<>>
    BY <1>2 DEF Term!OpenTerminal
  <2>2. service[1].sync \/ Term!Open \subseteq told[c]
    BY <2>1 DEF ToldAll
  <2>3. Term!Open' \subseteq told'[c]
    BY <1>0, <1>2, <2>2, OpenGoes
  <2>4. \A d \in Conns : Term!Live(d)' => d = c
    BY <2>1, OneIsUp DEF Term!Live
  <2> QED
    BY <2>3, <2>4 DEF ToldAll
<1>3. ASSUME NEW c \in Conns, NEW t \in Terms, Term!ReadOutputs(c, t) PROVE ToldAll'
  <2>1. UNCHANGED <<link, told, service>>
    BY <1>3 DEF Term!ReadOutputs
  <2>2. Term!Open' \subseteq Term!Open
    BY <1>0, <1>3, ReadGoes
  <2> QED
    BY <2>1, <2>2 DEF ToldAll, Term!Live
<1>4. ASSUME NEW c, NEW t, Rest(c, t) PROVE ToldAll'
  <2>1. /\ told' = told /\ Term!Open' \subseteq Term!Open
        /\ service' # <<>> => service # <<>> /\ service'[1].sync = service[1].sync
    BY <1>0, <1>4, RestGoes
  <2>2. \A d \in Conns : Term!Live(d)' => Term!Live(d)
    BY <1>0, <1>4 DEF Rest, Term!Live, ClientTypes, Term!CloseTerminal, Term!Output, Term!Exit,
                      Term!Leave, Term!Drop, Term!ThreadLeaves, Term!ThreadRemoves,
                      Term!SetPersistent, Term!vars
  <2> QED
    BY <2>1, <2>2 DEF ToldAll
<1> QED
  BY <1>1, <1>2, <1>3, <1>4, TerminalSteps

LEMMA RemovesStep ==
  ASSUME Term!TerminalAssumption, ~Overlap, TerminalInv, RemovesInv, [Term!Next]_Term!vars
  PROVE  RemovesInv' /\ Term!PersistentSurvives
<1>0. TerminalTypes /\ ClientTypes /\ ServiceTypes /\ Conns \subseteq Nat
  BY TerminalConstants DEF TerminalInv, TerminalTypes
<1>1. ASSUME NEW c \in Conns, Term!Connect(c) PROVE RemovesInv' /\ service' # <<>>
  <2>1. /\ link[c] = "none" /\ thread' = [thread EXCEPT ![c] = "run"]
        /\ \A d \in Conns : d < c => thread[d] = "done"
    BY <1>1 DEF Term!Connect
  <2>2. \A d \in Conns : c < d => thread[d] = "none"
    BY <2>1 DEF TerminalInv, ThreadsInv
  <2>3. \A d \in Conns : thread'[d] # "remove"
    <3>1. \A d \in Conns : d = c \/ d < c \/ c < d
      BY <1>0
    <3> QED
      BY <1>0, <2>1, <2>2, <3>1 DEF ClientTypes
  <2> QED
    BY <1>0, <1>1, <2>3, ConnectGoes DEF RemovesInv
<1>2. ASSUME NEW c \in Conns, NEW t \in Terms, Term!OpenTerminal(c, t)
      PROVE  RemovesInv' /\ service' # <<>>
  <2>1. /\ service # <<>> /\ thread' = thread
        /\ service' # <<>> /\ service'[1].persistent = service[1].persistent
    BY <1>0, <1>2, OpenGoes DEF Term!OpenTerminal
  <2> QED
    BY <2>1 DEF RemovesInv
<1>3. ASSUME NEW c \in Conns, NEW p \in BOOLEAN, Term!SetPersistent(c, p)
      PROVE  RemovesInv' /\ service' # <<>>
  <2>1. Term!Live(c) /\ thread' = thread /\ service # <<>> /\ link[c] = "up"
    BY <1>3 DEF Term!SetPersistent, Term!Live
  <2>2. \A d \in Conns : thread[d] # "remove"
    <3>1. thread[c] = "run"
      BY <2>1 DEF TerminalInv, ThreadsInv
    <3>2. \A d \in Conns : thread[d] = "remove" => c = d
      BY <2>1, OneIsUp
    <3> QED
      BY <3>1, <3>2
  <2>3. service' # <<>>
    BY <1>0, <1>3, <2>1, ServiceSet DEF Term!SetPersistent, ServiceTypes
  <2> QED
    BY <2>1, <2>2, <2>3 DEF RemovesInv
<1>4. ASSUME NEW c \in Conns, Term!ThreadLeaves(c)
      PROVE  RemovesInv' /\ service' = service
  BY <1>0, <1>4 DEF Term!ThreadLeaves, RemovesInv, ClientTypes
<1>5. ASSUME NEW c \in Conns, Term!ThreadRemoves(c)
      PROVE  RemovesInv' /\ (service # <<>> => ~service[1].persistent)
  BY <1>0, <1>5 DEF Term!ThreadRemoves, RemovesInv, ClientTypes
<1>6. ASSUME service' = service, thread' = thread
      PROVE  RemovesInv' /\ service' = service
  BY <1>6 DEF RemovesInv
<1>7. CASE UNCHANGED Term!vars
  BY <1>6, <1>7 DEF Term!vars, Term!PersistentSurvives
<1>8. CASE Term!Next
  <2>1. ASSUME NEW c \in Conns, NEW t \in Terms, Term!CloseTerminal(c, t) \/ Term!ReadOutputs(c, t)
        PROVE  RemovesInv' /\ service' = service
    BY <1>6, <2>1 DEF Term!CloseTerminal, Term!ReadOutputs
  <2>2. ASSUME NEW t \in Terms, Term!Output(t) \/ Term!Exit(t)
        PROVE  RemovesInv' /\ service' = service
    BY <1>6, <2>2 DEF Term!Output, Term!Exit
  <2>3. ASSUME NEW c \in Conns, Term!Leave(c) \/ Term!Drop(c)
        PROVE  RemovesInv' /\ service' = service
    BY <1>6, <2>3 DEF Term!Leave, Term!Drop
  <2> QED
    BY <1>1, <1>2, <1>3, <1>4, <1>5, <1>8, <2>1, <2>2, <2>3 DEF Term!Next, Term!PersistentSurvives
<1> QED
  BY <1>7, <1>8

RunOf(c, t) ==
  /\ Run(got[c][t])
  /\ link[c] = "none" => got[c][t] = <<>>
  /\ Term!Live(c) /\ got[c][t] # <<>> /\ t \in Term!Open =>
       /\ sessions[t].active /\ sessions[t].replay = 0
       /\ got[c][t][Len(got[c][t])] = sessions[t].seen

LEMMA RunsAre == RunsInv <=> \A c \in Conns, t \in Terms : RunOf(c, t)
BY DEF RunsInv, RunOf, Run

LEMMA RunsStep ==
  ASSUME Term!TerminalAssumption, ~Overlap, TerminalInv, RunsInv, [Term!Next]_Term!vars
  PROVE  RunsInv'
<1>0. TerminalTypes /\ ClientTypes /\ Conns \subseteq Nat
  BY TerminalConstants DEF TerminalInv, TerminalTypes
<1>1. \A c \in Conns, t \in Terms : RunOf(c, t) /\ got[c][t] \in Seq(Nat)
  BY <1>0, RunsAre DEF ClientTypes
<1>2. ASSUME NEW c \in Conns, Term!Connect(c), NEW d \in Conns, NEW t \in Terms
      PROVE  RunOf(d, t)'
  <2>1. /\ link[c] = "none" /\ got' = got /\ link' = [link EXCEPT ![c] = "up"]
    BY <1>2 DEF Term!Connect
  <2>2. CASE d = c
    <3>1. got'[d][t] = <<>>
      BY <1>1, <2>1, <2>2 DEF RunOf
    <3>2. Len(<<>>) = 0 /\ Run(<<>>)
      BY DEF Run
    <3>3. link'[d] = "up"
      BY <1>0, <2>1, <2>2 DEF ClientTypes
    <3> QED
      BY <3>1, <3>2, <3>3 DEF RunOf, Run
  <2>3. CASE d # c
    <3>1. link'[d] = link[d]
      BY <1>0, <2>1, <2>3 DEF ClientTypes
    <3>2. link[d] # "up"
      <4>1. d < c => thread[d] = "done"
        BY <1>2 DEF Term!Connect
      <4>2. c < d => link[d] = "none"
        BY <2>1 DEF TerminalInv, ThreadsInv
      <4>3. d < c \/ c < d
        BY <1>0, <2>3
      <4> QED
        BY <4>1, <4>2, <4>3 DEF TerminalInv, ThreadsInv
    <3> QED
      BY <1>1, <2>1, <3>1, <3>2 DEF RunOf, Run, Term!Live
  <2> QED
    BY <2>2, <2>3
<1>3. ASSUME NEW c \in Conns, NEW u \in Terms, Term!OpenTerminal(c, u),
             NEW d \in Conns, NEW t \in Terms
      PROVE  RunOf(d, t)'
  <2>1. /\ Term!Live(c) /\ got' = [got EXCEPT ![c][u] = <<>>] /\ link' = link
    BY <1>3 DEF Term!OpenTerminal
  <2>2. \A v \in Term!Open' : v # u => v \in Term!Open /\ sessions'[v] = sessions[v]
    BY <1>0, <1>3, OpenGoes
  <2>3. CASE d = c /\ t = u
    <3>1. got'[d][t] = <<>>
      BY <1>0, <2>1, <2>3 DEF ClientTypes
    <3>2. Len(<<>>) = 0 /\ Run(<<>>)
      BY DEF Run
    <3> QED
      BY <3>1, <3>2 DEF RunOf, Run
  <2>4. CASE ~(d = c /\ t = u)
    <3>1. got'[d][t] = got[d][t]
      BY <1>0, <2>1, <2>4 DEF ClientTypes
    <3>2. Term!Live(d) => d = c
      BY <2>1, OneIsUp DEF Term!Live
    <3> QED
      BY <1>1, <2>1, <2>2, <2>4, <3>1, <3>2 DEF RunOf, Run, Term!Live
  <2> QED
    BY <2>3, <2>4
<1>4. ASSUME NEW c \in Conns, NEW u \in Terms, Term!ReadOutputs(c, u),
             NEW d \in Conns, NEW t \in Terms
      PROVE  RunOf(d, t)'
  <2>1. thread[c] = "run" /\ link' = link
    BY <1>4 DEF Term!ReadOutputs
  <2>2. /\ u \in Term!Open /\ Term!Open' \subseteq Term!Open
        /\ \A v \in Term!Open' : v # u => sessions'[v] = sessions[v]
    BY <1>0, <1>4, ReadGoes
  <2>3. Term!Live(d) => d = c
    BY <2>1, OneIsUp
  <2>4. CASE got'[d][t] = got[d][t] /\ ~Term!Live(d)
    BY <1>1, <2>1, <2>4 DEF RunOf, Run, Term!Live
  <2>5. CASE d = c /\ Term!Live(c)
    <3>1. PICK batch \in Seq(Nat) :
            /\ got' = [got EXCEPT ![c][u] = @ \o batch]
            /\ ~sessions[u].active => batch = <<>>
            /\ sessions[u].active =>
                 /\ Len(batch) = sessions[u].made - (sessions[u].seen - sessions[u].replay)
                 /\ \A i \in 1..Len(batch) : batch[i] = sessions[u].seen - sessions[u].replay + i
      BY <1>0, <1>4, <2>5, ReadGoes
    <3>2. CASE t # u
      <4>1. got'[d][t] = got[d][t]
        BY <1>0, <2>5, <3>1, <3>2 DEF ClientTypes
      <4> QED
        BY <1>1, <2>1, <2>2, <3>2, <4>1, SMTT(30) DEF RunOf, Run, Term!Live
    <3>3. CASE t = u
      <4>1. PICK old \in Seq(Nat), all \in Seq(Nat) :
              old = got[c][u] /\ all = got'[c][u] /\ all = old \o batch
        <5>1. PICK old \in Seq(Nat) : old = got[c][u]
          BY <1>1
        <5>2. got'[c][u] = old \o batch
          BY <1>0, <3>1, <5>1 DEF ClientTypes
        <5>3. old \o batch \in Seq(Nat)
          OBVIOUS
        <5> QED
          BY <5>1, <5>2, <5>3, Zenon
      <4>2. PICK upTo \in Nat, made \in Nat, replay \in Nat :
              /\ upTo = sessions[u].seen /\ made = sessions[u].made /\ replay = sessions[u].replay
              /\ replay <= upTo /\ upTo <= made
        BY <1>0, <1>4, ReadGoes
      <4>3. u \in Term!Open' => /\ sessions'[u].active = sessions[u].active
                                /\ sessions'[u].seen = made
                                /\ sessions[u].active => sessions'[u].replay = 0
        BY <1>0, <1>4, <4>2, ReadGoes
      <4>4. /\ Run(old) /\ link[c] = "up"
            /\ old # <<>> => sessions[u].active /\ replay = 0 /\ old[Len(old)] = upTo
        BY <1>1, <2>2, <2>5, <4>1, <4>2 DEF RunOf, Term!Live
      <4>5. CASE sessions[u].active
        <5>1. PICK a \in Nat : a = upTo - replay
          BY <4>2
        <5>2. /\ Len(batch) = made - a /\ \A i \in 1..Len(batch) : batch[i] = a + i
          BY <3>1, <4>2, <4>5, <5>1
        <5>3. old # <<>> => old[Len(old)] = a
          BY <4>2, <4>4, <5>1
        <5>4. /\ Run(all)
              /\ all # <<>> => all[Len(all)] = a + Len(batch)
          <6>1. \A i \in 1..Len(batch) : batch[i] = a + i
            BY <5>2
          <6>2. /\ Run(old \o batch)
                /\ old \o batch # <<>> => (old \o batch)[Len(old \o batch)] = a + Len(batch)
            BY <4>4, <6>1, <5>3, RunGoesOn, Zenon
          <6> QED
            BY <4>1, <6>2, Zenon
        <5>5. a + Len(batch) = made
          BY <5>2
        <5> QED
          <6>1. Run(got[d][t])'
            <7>1. got'[d][t] = all
              BY <2>5, <3>3, <4>1
            <7> QED
              BY <5>4, <7>1 DEF Run
          <6>2. link'[d] # "none"
            BY <2>1, <2>5, <4>4
          <6>3. t \in Term!Open' /\ got'[d][t] # <<>> =>
                  /\ sessions'[t].active /\ sessions'[t].replay = 0
                  /\ got'[d][t][Len(got'[d][t])] = sessions'[t].seen
            BY <2>5, <3>3, <4>1, <4>3, <4>5, <5>4, <5>5
          <6> QED
            BY <6>1, <6>2, <6>3 DEF RunOf
      <4>6. CASE ~sessions[u].active
        <5>1. old = <<>> /\ batch = <<>>
          BY <3>1, <4>4, <4>6
        <5>2. all = <<>> /\ Run(<<>>)
          BY <4>1, <5>1 DEF Run
        <5> QED
          BY <2>5, <3>3, <4>1, <5>2 DEF RunOf, Run
      <4> QED
        BY <4>5, <4>6
    <3> QED
      BY <3>2, <3>3
  <2>6. got'[d][t] = got[d][t] \/ (d = c /\ Term!Live(c))
    BY <1>0, <1>4 DEF Term!ReadOutputs, ClientTypes
  <2> QED
    BY <2>3, <2>4, <2>5, <2>6
<1>5. ASSUME NEW c, NEW u, Rest(c, u), NEW d \in Conns, NEW t \in Terms
      PROVE  RunOf(d, t)'
  <2>1. /\ got' = got /\ Term!Open' \subseteq Term!Open
        /\ \A v \in Term!Open' : /\ sessions'[v].active = sessions[v].active
                                 /\ sessions'[v].seen = sessions[v].seen
                                 /\ sessions'[v].replay = sessions[v].replay
    BY <1>0, <1>5, RestGoes
  <2>2. (Term!Live(d)' => Term!Live(d)) /\ (link'[d] = "none" => link[d] = "none")
    BY <1>0, <1>5 DEF Rest, Term!Live, ClientTypes, Term!CloseTerminal, Term!Output, Term!Exit,
                      Term!Leave, Term!Drop, Term!ThreadLeaves, Term!ThreadRemoves,
                      Term!SetPersistent, Term!vars
  <2> QED
    BY <1>1, <2>1, <2>2 DEF RunOf, Run
<1> QED
  BY <1>2, <1>3, <1>4, <1>5, TerminalSteps DEF RunsInv, RunOf, Run

\* NoneUnseen: a client that is connected and opened a terminal was told of every terminal
\* of its service; for any connections, terminals and buffers, whether or not the client
\* connects anew before the host noticed that it had left.
THEOREM TerminalsAreSeen ==
  ASSUME Term!TerminalAssumption
  PROVE  Term!Spec => []Term!NoneUnseen
<1>1. Term!Init => TerminalInv /\ ToldAll
  BY TypesInit DEF TerminalInv
<1>2. TerminalInv /\ ToldAll /\ [Term!Next]_Term!vars => (TerminalInv /\ ToldAll)'
  BY ThreadsStep, ToldStep
<1>3. TerminalInv /\ ToldAll => Term!NoneUnseen
  BY DEF ToldAll, Term!NoneUnseen
<1> QED
  BY <1>1, <1>2, <1>3, PTL DEF Term!Spec

\* PersistentSurvives: no step removes a service that is persistent, as long as a client
\* connects anew only when the thread of its last connection is over.
THEOREM PersistentStays ==
  ASSUME Term!TerminalAssumption, ~Overlap
  PROVE  Term!Spec => [][Term!PersistentSurvives]_Term!vars
<1>1. Term!Init => TerminalInv /\ RemovesInv
  BY TypesInit DEF TerminalInv
<1>2. TerminalInv /\ RemovesInv /\ [Term!Next]_Term!vars => (TerminalInv /\ RemovesInv)'
  BY ThreadsStep, RemovesStep
<1>3. TerminalInv /\ RemovesInv /\ [Term!Next]_Term!vars => [Term!PersistentSurvives]_Term!vars
  BY RemovesStep
<1> QED
  BY <1>1, <1>2, <1>3, PTL DEF Term!Spec

\* NoGaps: what a client receives of a terminal is a run of its output, without a gap, a
\* repetition or a change of order; under the same condition.
THEOREM OutputIsWhole ==
  ASSUME Term!TerminalAssumption, ~Overlap
  PROVE  Term!Spec => []Term!NoGaps
<1>1. Term!Init => TerminalInv /\ RunsInv
  BY TypesInit DEF TerminalInv
<1>2. TerminalInv /\ RunsInv /\ [Term!Next]_Term!vars => (TerminalInv /\ RunsInv)'
  BY ThreadsStep, RunsStep
<1>3. TerminalInv /\ RunsInv => Term!NoGaps
  BY DEF RunsInv, Term!NoGaps
<1> QED
  BY <1>1, <1>2, <1>3, PTL DEF Term!Spec

-----------------------------------------------------------------------------
(* The viewers of a display.                                               *)

VideoTypes ==
  /\ member \in [Conns -> {"out", "new", "sub"}]
  /\ joins \in [Conns -> Nat]

\* Who was sent every frame of the encoder: all who can be, until the first frame; then only
\* viewers, of which those who wait to be taken in again have joined before.
SyncedInv ==
  \/ synced = Conns
  \/ \A c \in Conns : c \in synced => joins[c] >= 1 /\ (member[c] = "new" => joins[c] >= 2)

JoinedInv == \A c \in Conns : member[c] # "out" => joins[c] >= 1

\* Newcomers are taken in to an encoder in use only if it has no viewer yet.
FirstInv == thread = "swap" /\ ~switch => Video!Subs = {}

\* Between the setting up of an encoder and its end.
TogetherInv ==
  thread # "idle" =>
    \A c, d \in Conns :
      member[c] = "sub" /\ member[d] = "sub" /\ c \in synced /\ joins[c] = 1 => d \in synced

EncoderInv == VideoTypes /\ SyncedInv /\ JoinedInv /\ FirstInv /\ TogetherInv

LEMMA EncoderInit ==
  ASSUME Video!Init
  PROVE  EncoderInv
BY DEF Video!Init, EncoderInv, VideoTypes, SyncedInv, JoinedInv, FirstInv, TogetherInv

\* Connections come and go.
LEMMA EncoderKeptByConnections ==
  ASSUME EncoderInv, NEW c \in Conns,
         \/ Video!Subscribe(c) \/ Video!Unsubscribe(c) \/ Video!Close(c) \/ Video!Remove(c)
         \/ Video!Deliver(c) \/ Video!AskRefresh(c)
  PROVE  EncoderInv'
<1>1. CASE Video!Subscribe(c)
  <2>1. /\ member[c] = "out" /\ member' = [member EXCEPT ![c] = "new"]
        /\ joins' = [joins EXCEPT ![c] = @ + 1]
        /\ UNCHANGED <<thread, switch, synced>>
    BY <1>1 DEF Video!Subscribe, Video!encoder
  <2>2. VideoTypes'
    BY <2>1 DEF EncoderInv, VideoTypes
  <2>3. /\ joins[c] \in Nat /\ joins'[c] = joins[c] + 1 /\ member'[c] = "new"
        /\ \A d \in Conns \ {c} : joins'[d] = joins[d] /\ member'[d] = member[d]
    BY <2>1 DEF EncoderInv, VideoTypes
  <2>4. SyncedInv' /\ JoinedInv'
    BY <2>1, <2>3 DEF EncoderInv, SyncedInv, JoinedInv
  <2>5. FirstInv' /\ TogetherInv'
    BY <2>1, <2>3 DEF EncoderInv, FirstInv, TogetherInv, Video!Subs
  <2> QED
    BY <2>2, <2>4, <2>5 DEF EncoderInv
<1>2. CASE Video!Unsubscribe(c) \/ Video!Remove(c)
  <2>1. /\ member' = [member EXCEPT ![c] = "out"]
        /\ UNCHANGED <<joins, thread, switch, synced>>
    BY <1>2 DEF Video!Unsubscribe, Video!Remove, Video!encoder
  <2>2. VideoTypes'
    BY <2>1 DEF EncoderInv, VideoTypes
  <2>3. /\ member'[c] = "out"
        /\ \A d \in Conns \ {c} : member'[d] = member[d]
    BY <2>1 DEF EncoderInv, VideoTypes
  <2>4. SyncedInv' /\ JoinedInv'
    BY <2>1, <2>3 DEF EncoderInv, SyncedInv, JoinedInv
  <2>5. FirstInv' /\ TogetherInv'
    BY <2>1, <2>3 DEF EncoderInv, FirstInv, TogetherInv, Video!Subs
  <2> QED
    BY <2>2, <2>4, <2>5 DEF EncoderInv
<1>3. CASE Video!Close(c) \/ Video!Deliver(c) \/ Video!AskRefresh(c)
  BY <1>3 DEF EncoderInv, VideoTypes, SyncedInv, JoinedInv, FirstInv, TogetherInv, Video!Subs,
    Video!Close, Video!Deliver, Video!AskRefresh, Video!hub, Video!encoder
<1> QED
  BY <1>1, <1>2, <1>3

\* The service's thread.
LEMMA EncoderKeptByThread ==
  ASSUME EncoderInv,
         \/ Video!SetUp \/ Video!ClearRefresh \/ Video!Check \/ Video!NoFrame
         \/ Video!Snapshot \/ Video!Swap \/ Video!Encode \/ Video!Fetch \/ Video!GiveUp
         \/ Video!NextFrame
  PROVE  EncoderInv'
<1>1. CASE Video!SetUp
  BY <1>1 DEF EncoderInv, VideoTypes, SyncedInv, JoinedInv, FirstInv, TogetherInv, Video!Subs,
    Video!SetUp, Video!hub
<1>2. CASE \/ Video!ClearRefresh \/ Video!Check \/ Video!NoFrame \/ Video!Fetch
           \/ Video!GiveUp \/ Video!NextFrame
  <2>1. /\ UNCHANGED <<member, joins, synced>>
        /\ thread # "idle" /\ thread' # "swap"
    BY <1>2 DEF Video!ClearRefresh, Video!Check, Video!NoFrame, Video!Fetch, Video!GiveUp,
      Video!NextFrame, Video!hub, Video!encoder
  <2> QED
    BY <2>1 DEF EncoderInv, VideoTypes, SyncedInv, JoinedInv, FirstInv, TogetherInv
<1>3. CASE Video!Snapshot
  <2>1. /\ UNCHANGED <<member, joins, synced>> /\ thread # "idle"
        /\ thread' = "swap" => switch' = (Video!Subs # {})
    BY <1>3 DEF Video!Snapshot, Video!hub
  <2> QED
    BY <2>1 DEF EncoderInv, VideoTypes, SyncedInv, JoinedInv, FirstInv, TogetherInv, Video!Subs
<1>4. CASE Video!Swap
  <2>1. /\ member' = [d \in Conns |-> IF d \in Video!News THEN "sub" ELSE member[d]]
        /\ thread = "swap" /\ thread' = (IF switch THEN "idle" ELSE "encode")
        /\ UNCHANGED <<joins, synced, switch>>
    BY <1>4 DEF Video!Swap, Video!encoder
  <2>2. VideoTypes'
    BY <2>1 DEF EncoderInv, VideoTypes
  <2>3. \A d \in Conns : /\ member[d] = "new" => member'[d] = "sub"
                         /\ member[d] # "new" => member'[d] = member[d]
    BY <2>1 DEF Video!News
  <2>4. SyncedInv' /\ JoinedInv' /\ FirstInv'
    BY <2>1, <2>3 DEF EncoderInv, SyncedInv, JoinedInv, FirstInv
  <2>5. TogetherInv'
    <3>1. SUFFICES ASSUME ~switch, NEW d \in Conns, NEW e \in Conns,
                          member'[d] = "sub", member'[e] = "sub", d \in synced, joins[d] = 1
                   PROVE  e \in synced
      BY <2>1 DEF TogetherInv
    <3>2. member[d] = "new"
      BY <3>1, <2>1, <2>3 DEF EncoderInv, FirstInv, Video!Subs
    <3> QED
      BY <3>1, <3>2 DEF EncoderInv, SyncedInv
  <2> QED
    BY <2>2, <2>4, <2>5 DEF EncoderInv
<1>5. CASE Video!Encode
  <2>1. /\ UNCHANGED <<member, joins, switch>> /\ synced' = synced \intersect Video!Subs
        /\ thread = "encode" /\ thread' = "wait"
    BY <1>5 DEF Video!Encode, Video!hub
  <2>2. VideoTypes' /\ JoinedInv' /\ FirstInv'
    BY <2>1 DEF EncoderInv, VideoTypes, JoinedInv, FirstInv
  <2>3. SyncedInv' /\ TogetherInv'
    BY <2>1 DEF EncoderInv, VideoTypes, SyncedInv, JoinedInv, TogetherInv, Video!Subs
  <2> QED
    BY <2>2, <2>3 DEF EncoderInv
<1> QED
  BY <1>1, <1>2, <1>3, <1>4, <1>5

\* SharedEncoder: of two viewers of one encoder that joined once, both can decode it or neither
\* can, as handle_one_frame means by "new sub and old sub share the same encoder after
\* switch"; for any viewers that come, close and return, also when the thread gives up.
THEOREM EncodersAreShared == Video!Spec => []Video!SharedEncoder
<1>1. EncoderInv /\ [Video!Next]_Video!vars => EncoderInv'
  <2> SUFFICES ASSUME EncoderInv, [Video!Next]_Video!vars PROVE EncoderInv'
    OBVIOUS
  <2>1. CASE UNCHANGED Video!vars
    BY <2>1 DEF Video!vars, Video!hub, Video!encoder, EncoderInv, VideoTypes, SyncedInv,
      JoinedInv, FirstInv, TogetherInv, Video!Subs
  <2> QED
    BY <2>1, EncoderKeptByConnections, EncoderKeptByThread DEF Video!Next
<1>2. EncoderInv => Video!SharedEncoder
  BY DEF EncoderInv, TogetherInv, Video!SharedEncoder, Video!Subs
<1> QED
  BY EncoderInit, <1>1, <1>2, PTL DEF Video!Spec

\* The instance's copies of the operators of FiniteSets.
LEMMA VideoSets ==
  /\ \A S : Video!IsFiniteSet(S) <=> IsFiniteSet(S)
  /\ \A S : Video!Cardinality(S) = Cardinality(S)
BY DEF Video!IsFiniteSet, IsFiniteSet, Video!Cardinality, Cardinality

\* While connections stay and the thread waits for them: a frame is under way only in its
\* turn, to a connection it was sent to that has not said it took it.
TurnInv ==
  /\ conn = [c \in Conns |-> "up"] /\ member \in [Conns -> {"out", "new", "sub"}]
  /\ DOMAIN queue = Conns /\ sent \subseteq Conns
  /\ thread # "wait" => notes = {} /\ \A c \in Conns : queue[c] = <<>>
  /\ thread = "wait" =>
       /\ notes \subseteq sent /\ fetched \subseteq sent
       /\ \A c \in Conns :
            \/ queue[c] = <<>>
            \/ /\ c \in sent \ (notes \union fetched)
               /\ \E frame \in {"good", "bad"} : queue[c] = <<frame>>
  /\ thread \in {"frame", "encode", "swap"} => sent = {}

LEMMA TurnInit ==
  ASSUME Video!Init
  PROVE  TurnInv
BY DEF Video!Init, TurnInv

LEMMA TurnKeptByConnections ==
  ASSUME TurnInv, NEW c \in Conns,
         \/ Video!Subscribe(c) \/ Video!Unsubscribe(c) \/ Video!Remove(c)
         \/ Video!Deliver(c) \/ Video!AskRefresh(c)
  PROVE  TurnInv'
<1>1. CASE Video!Subscribe(c) \/ Video!Unsubscribe(c) \/ Video!AskRefresh(c)
  <2>1. /\ member' \in [Conns -> {"out", "new", "sub"}]
        /\ UNCHANGED <<conn, queue, sent, thread, notes, fetched>>
    BY <1>1 DEF Video!Subscribe, Video!Unsubscribe, Video!AskRefresh, Video!encoder,
      Video!waiting, TurnInv
  <2> QED
    BY <2>1 DEF TurnInv
<1>2. ~Video!Remove(c)
  BY DEF Video!Remove, TurnInv
<1>3. CASE Video!Deliver(c)
  <2>1. /\ queue[c] # <<>> /\ notes' = notes \union {c}
        /\ queue' = [queue EXCEPT ![c] = Tail(@)]
        /\ UNCHANGED <<member, conn, thread, sent, fetched>>
    BY <1>3 DEF Video!Deliver, Video!hub
  <2>2. /\ thread = "wait" /\ c \in sent \ (notes \union fetched)
        /\ \E frame \in {"good", "bad"} : queue[c] = <<frame>>
    BY <2>1 DEF TurnInv
  <2>3. Tail(queue[c]) = <<>>
    BY <2>2
  <2>4. /\ DOMAIN queue' = Conns /\ queue'[c] = <<>>
        /\ \A d \in Conns \ {c} : queue'[d] = queue[d]
    BY <2>1, <2>3 DEF TurnInv
  <2> QED
    BY <2>1, <2>2, <2>4 DEF TurnInv
<1> QED
  BY <1>1, <1>2, <1>3

\* The turn is over when as many have said they took the frame as it was sent to.
LEMMA TurnEnds ==
  ASSUME Video!VideoAssumption, TurnInv, Video!Fetch
  PROVE  /\ UNCHANGED <<member, conn, queue, sent>>
         /\ thread = "wait" /\ thread' \in {"wait", "leave"}
         /\ notes' = {} /\ fetched' = fetched \union notes
         /\ thread' = "leave" => fetched' = sent
<1>1. /\ UNCHANGED <<member, conn, queue, sent>> /\ thread = "wait"
      /\ fetched' = (IF sent = {} THEN fetched ELSE fetched \union notes)
      /\ notes' = (IF sent = {} THEN notes ELSE {})
      /\ thread' = (IF Cardinality(fetched') >= Cardinality(sent) THEN "leave" ELSE "wait")
  BY VideoSets DEF Video!Fetch, Video!hub
<1>2. fetched' = fetched \union notes /\ notes' = {} /\ fetched' \subseteq sent
  BY <1>1 DEF TurnInv
<1>3. IsFiniteSet(sent)
  BY VideoSets, FS_Subset DEF Video!VideoAssumption, TurnInv
<1>4. IsFiniteSet(fetched') /\ Cardinality(fetched') \in Nat /\ Cardinality(sent) \in Nat
  BY <1>2, <1>3, FS_Subset, FS_CardinalityType
<1>5. Cardinality(fetched') >= Cardinality(sent) => fetched' = sent
  <2>1. Cardinality(fetched') <= Cardinality(sent)
    BY <1>2, <1>3, FS_Subset
  <2>2. Cardinality(fetched') = Cardinality(sent) => fetched' = sent
    BY <1>2, <1>3, FS_Subset
  <2> QED
    BY <2>1, <2>2, <1>4
<1> QED
  BY <1>1, <1>2, <1>5

LEMMA TurnKeptByThread ==
  ASSUME Video!VideoAssumption, TurnInv,
         \/ Video!SetUp \/ Video!ClearRefresh \/ Video!Check \/ Video!NoFrame
         \/ Video!Snapshot \/ Video!Swap \/ Video!Encode \/ Video!Fetch
         \/ Video!NextFrame
  PROVE  TurnInv'
<1>1. CASE \/ Video!SetUp \/ Video!ClearRefresh \/ Video!Check \/ Video!Snapshot
           \/ Video!Swap \/ Video!NextFrame
  <2>1. /\ UNCHANGED <<conn, queue, notes>> /\ thread # "wait" /\ thread' # "wait"
        /\ sent' \in {sent, {}}
    BY <1>1 DEF Video!SetUp, Video!ClearRefresh, Video!Check, Video!Snapshot, Video!Swap,
      Video!NextFrame, Video!hub, Video!encoder, Video!waiting
  <2>2. member' \in [Conns -> {"out", "new", "sub"}]
    BY <1>1 DEF Video!SetUp, Video!ClearRefresh, Video!Check, Video!Snapshot, Video!Swap,
      Video!NextFrame, Video!hub, TurnInv
  <2>3. thread' \in {"frame", "encode", "swap"} => sent' = {}
    BY <1>1 DEF Video!SetUp, Video!ClearRefresh, Video!Check, Video!Snapshot, Video!Swap,
      Video!NextFrame, Video!waiting, TurnInv
  <2> QED
    BY <2>1, <2>2, <2>3 DEF TurnInv
<1>2. CASE Video!NoFrame
  <2>1. /\ UNCHANGED <<conn, member, queue, notes, sent>> /\ fetched' = {}
        /\ thread \in {"frame", "encode"} /\ thread' = "wait"
    BY <1>2 DEF Video!NoFrame, Video!hub
  <2> QED
    BY <2>1 DEF TurnInv
<1>3. CASE Video!Encode
  <2>1. /\ UNCHANGED <<conn, member, notes>> /\ fetched' = {} /\ sent' = Video!Subs
        /\ thread = "encode" /\ thread' = "wait"
        /\ queue' = [c \in Conns |->
                       IF c \in Video!Subs /\ conn[c] = "up"
                       THEN Append(queue[c], IF c \in synced THEN "good" ELSE "bad")
                       ELSE queue[c]]
    BY <1>3 DEF Video!Encode, Video!hub
  <2>2. notes = {} /\ \A c \in Conns : queue[c] = <<>>
    BY <2>1 DEF TurnInv
  <2>3. DOMAIN queue' = Conns /\ sent' \subseteq Conns
    BY <2>1 DEF Video!Subs
  <2>4. ASSUME NEW c \in Conns
        PROVE  \/ queue'[c] = <<>>
               \/ /\ c \in sent'
                  /\ \E frame \in {"good", "bad"} : queue'[c] = <<frame>>
    <3>1. CASE c \in Video!Subs /\ conn[c] = "up"
      <4>1. PICK frame \in {"good", "bad"} : queue'[c] = Append(<<>>, frame)
        BY <3>1, <2>1, <2>2
      <4>2. queue'[c] = <<frame>>
        BY <4>1
      <4> QED
        BY <4>2, <3>1, <2>1
    <3>2. CASE ~(c \in Video!Subs /\ conn[c] = "up")
      BY <3>2, <2>1, <2>2
    <3> QED
      BY <3>1, <3>2
  <2> QED
    BY <2>1, <2>2, <2>3, <2>4 DEF TurnInv
<1>4. CASE Video!Fetch
  <2>1. ASSUME thread' = "leave", NEW c \in Conns PROVE queue[c] = <<>>
    BY <1>4, <2>1, TurnEnds DEF TurnInv
  <2> QED
    BY <1>4, <2>1, TurnEnds DEF TurnInv
<1> QED
  BY <1>1, <1>2, <1>3, <1>4

\* AllFetched: when the wait for a frame ends, every connection it was sent to has taken it
\* ("break if all connections have received current frame"); for any connections that
\* come and leave, as long as none closes and the thread does not give up.
THEOREM FramesAreFetched ==
  ASSUME Video!VideoAssumption, ~Closing, ~Timeouts
  PROVE  Video!Spec => [][Video!AllFetched]_Video!vars
<1>1. TurnInv /\ [Video!Next]_Video!vars => TurnInv'
  <2> SUFFICES ASSUME TurnInv, [Video!Next]_Video!vars PROVE TurnInv'
    OBVIOUS
  <2>1. CASE UNCHANGED Video!vars
    BY <2>1 DEF Video!vars, Video!hub, Video!waiting, TurnInv
  <2>2. \A c \in Conns : ~Video!Close(c)
    BY DEF Video!Close
  <2>3. ~Video!GiveUp
    BY DEF Video!GiveUp
  <2> QED
    BY <2>1, <2>2, <2>3, TurnKeptByConnections, TurnKeptByThread DEF Video!Next
<1>2. TurnInv /\ [Video!Next]_Video!vars => [Video!AllFetched]_Video!vars
  <2> SUFFICES ASSUME TurnInv, Video!Fetch, thread' = "leave", NEW c \in sent
               PROVE  queue[c] = <<>>
    BY DEF Video!AllFetched
  <2> QED
    BY TurnEnds DEF TurnInv
<1> QED
  BY TurnInit, <1>1, <1>2, PTL DEF Video!Spec

-----------------------------------------------------------------------------
(* The registration of a host.                                             *)

\* The operator lets the machine register, and the longest retry timeout is a multiple of
\* the first, as 30 s is of 3 s.
Deployable ==
  "deploy" \notin Faults /\ \E n \in 1..MaxRegTimeout : MaxRegTimeout = n * MinRegTimeout

LEMMA MediatorConstants ==
  ASSUME Med!TimeAssumption
  PROVE  /\ RegInterval \in Nat /\ RegInterval >= 1 /\ RegTimeout \in Nat /\ RegTimeout >= 1
         /\ MinRegTimeout \in Nat /\ MinRegTimeout >= 1 /\ DeployRetry \in Nat
         /\ MaxRegTimeout \in Nat /\ MinRegTimeout <= MaxRegTimeout
         /\ MaxFails1 \in Nat /\ MaxFails2 \in Nat /\ MaxLoss \in Nat /\ MaxQuiet \in Nat
         /\ Tolerance \in Nat /\ MaxRestart \in Nat
BY DEF Med!TimeAssumption

LEMMA Messages ==
  /\ \A i, j : Med!Peer(i) # Med!PkOf(j)
  /\ \A i, j : Med!Peer(i) = Med!Peer(j) => i = j
  /\ \A i, j : Med!PkOf(i) = Med!PkOf(j) => i = j
  /\ \A b, r : Med!PeerResponse(b) # Med!PkResponse(r)
  /\ \A r, s : Med!PkResponse(r) = Med!PkResponse(s) => r = s
  /\ Med!PeerResponse(TRUE) # Med!PeerResponse(FALSE)
<1>1. /\ \A i : Med!Peer(i).type = "peer" /\ Med!Peer(i).id = i
      /\ \A i : Med!PkOf(i).type = "pk" /\ Med!PkOf(i).id = i
      /\ \A b : Med!PeerResponse(b).type = "peer" /\ Med!PeerResponse(b).request_pk = b
      /\ \A r : Med!PkResponse(r).type = "pk" /\ Med!PkResponse(r).result = r
  BY DEF Med!Peer, Med!PkOf, Med!PeerResponse, Med!PkResponse
<1>2. "peer" # "pk"
  OBVIOUS
<1>3. \A i, j : Med!Peer(i) # Med!PkOf(j)
  BY <1>1, <1>2, Zenon
<1>4. ASSUME NEW i, NEW j, Med!Peer(i) = Med!Peer(j) PROVE i = j
  <2>1. Med!Peer(i).id = Med!Peer(j).id
    BY <1>4
  <2> QED
    BY <2>1, <1>1
<1>5. ASSUME NEW i, NEW j, Med!PkOf(i) = Med!PkOf(j) PROVE i = j
  <2>1. Med!PkOf(i).id = Med!PkOf(j).id
    BY <1>5
  <2> QED
    BY <2>1, <1>1
<1>6. \A b, r : Med!PeerResponse(b) # Med!PkResponse(r)
  BY <1>1, <1>2, Zenon
<1>7. ASSUME NEW r, NEW s, Med!PkResponse(r) = Med!PkResponse(s) PROVE r = s
  <2>1. Med!PkResponse(r).result = Med!PkResponse(s).result
    BY <1>7
  <2> QED
    BY <2>1, <1>1
<1>8. Med!PeerResponse(TRUE) # Med!PeerResponse(FALSE)
  BY Zenon DEF Med!PeerResponse
<1> QED
  BY <1>3, <1>4, <1>5, <1>6, <1>7, <1>8

\* A retry timeout below the longest may grow by a step.
LEMMA Multiples ==
  ASSUME Med!TimeAssumption, Deployable, NEW t \in Nat, t < MaxRegTimeout,
         \E n \in 1..MaxRegTimeout : t = n * MinRegTimeout
  PROVE  /\ \E n \in 1..MaxRegTimeout : t + MinRegTimeout = n * MinRegTimeout
         /\ t + MinRegTimeout <= MaxRegTimeout
<1>1. PICK n \in 1..MaxRegTimeout : t = n * MinRegTimeout
  OBVIOUS
<1>2. PICK m \in 1..MaxRegTimeout : MaxRegTimeout = m * MinRegTimeout
  BY DEF Deployable
<1>3. MinRegTimeout \in Nat /\ MaxRegTimeout \in Nat /\ n \in Nat /\ m \in Nat
  BY MediatorConstants
<1>4. n < m
  <2> SUFFICES ASSUME n >= m PROVE FALSE
    BY <1>3
  <2>1. n * MinRegTimeout >= m * MinRegTimeout
    BY <1>3
  <2> QED
    BY <2>1, <1>1, <1>2, <1>3
<1>5. (n + 1) * MinRegTimeout = t + MinRegTimeout
  BY <1>1, <1>3
<1>6. (n + 1) * MinRegTimeout <= m * MinRegTimeout
  BY <1>3, <1>4
<1> QED
  BY <1>2, <1>3, <1>4, <1>5, <1>6

-----------------------------------------------------------------------------
(* The clocks of the loops.                                                *)

IsFunction(f) == f = [h \in Server |-> f[h]]
Shaped ==
  /\ IsFunction(due) /\ IsFunction(sent) /\ IsFunction(resp) /\ IsFunction(fails)
  /\ IsFunction(regTimeout) /\ IsFunction(shown) /\ IsFunction(quiet) /\ IsFunction(down)

\* What a step is to the clocks of one server's loop.
Kept(h) ==
  /\ due'[h] = due[h] /\ sent'[h] = sent[h] /\ resp'[h] = resp[h] /\ fails'[h] = fails[h]
  /\ regTimeout'[h] = regTimeout[h] /\ shown'[h] = shown[h] /\ quiet'[h] = quiet[h]
Answered(h) ==
  /\ due'[h] = due[h] /\ sent'[h] = Med!None /\ resp'[h] = 0 /\ fails'[h] = 0
  /\ regTimeout'[h] = MinRegTimeout /\ quiet'[h] = 0
  /\ shown'[h] \in {shown[h], "ready"}
Waits(h) ==
  /\ due[h] = TRUE /\ due'[h] = FALSE
  /\ FALSE \in Med!Timeouts(h) /\ FALSE \in Med!Expiries(h)
  /\ sent'[h] = sent[h] /\ resp'[h] = resp[h] /\ fails'[h] = fails[h]
  /\ regTimeout'[h] = regTimeout[h] /\ shown'[h] = shown[h] /\ quiet'[h] = quiet[h]
SendsFor(h, late) ==
  /\ regTimeout'[h] = IF Public /\ late /\ regTimeout[h] < MaxRegTimeout
                      THEN regTimeout[h] + MinRegTimeout ELSE regTimeout[h]
  /\ fails'[h] = IF late /\ fails[h] < MaxFails2 THEN fails[h] + 1 ELSE fails[h]
  /\ shown'[h] = (CASE late /\ fails'[h] >= MaxFails2 -> "offline"
                    [] late /\ fails'[h] \in MaxFails1..(MaxFails2 - 1) -> "connecting"
                    [] OTHER -> shown[h])
  /\ sent'[h] = 0 /\ resp'[h] = resp[h] /\ quiet'[h] = quiet[h]
Sends(h) ==
  /\ due[h] = TRUE /\ due'[h] = FALSE
  /\ \E late \in Med!Timeouts(h) : (late \/ TRUE \in Med!Expiries(h)) /\ SendsFor(h, late)
Passes(h) ==
  /\ due[h] = FALSE /\ due'[h] = TRUE
  /\ sent'[h] = IF sent[h] = Med!None THEN Med!None
                ELSE Med!Older(sent[h], MaxRegTimeout + 1)
  /\ resp'[h] = Med!Older(resp[h], RegInterval + 1)
  /\ quiet'[h] = Med!Older(quiet[h], MaxQuiet)
  /\ fails'[h] = fails[h] /\ regTimeout'[h] = regTimeout[h] /\ shown'[h] = shown[h]

\* The timer repeats or renews what is due, and a retry timeout is a multiple of the first.
TimerInv(h) ==
  /\ due[h] \in BOOLEAN
  /\ sent[h] \in 0..(MaxRegTimeout + 1) \cup {Med!None}
  /\ resp[h] \in 0..(RegInterval + 1)
  /\ fails[h] \in Nat
  /\ regTimeout[h] \in Nat /\ regTimeout[h] >= 1 /\ regTimeout[h] <= MaxRegTimeout
  /\ \E n \in 1..MaxRegTimeout : regTimeout[h] = n * MinRegTimeout
  /\ quiet[h] \in 0..MaxQuiet
  /\ ~due[h] /\ sent[h] = Med!None => resp[h] <= RegInterval
  /\ ~due[h] /\ sent[h] # Med!None => sent[h] <= regTimeout[h]
  /\ sent[h] # Med!None => sent[h] <= regTimeout[h] + 1

\* The machine is never told that it is not deployed.
DeployedInv ==
  /\ deployed = TRUE /\ needsDeploy = FALSE
  /\ \A h \in Server : Med!PkResponse("NOT_DEPLOYED") \notin down[h]

LoopInv == Shaped /\ DeployedInv /\ \A h \in Server : TimerInv(h)

LEMMA Shapes ==
  ASSUME Shaped, Med!Next
  PROVE  Shaped'
<1>1. SUFFICES ASSUME \/ \E h \in Server :
                           \/ Med!TimerTick(h) \/ Med!Recv(h)
                           \/ Med!ServePeer(h) \/ Med!ServePk(h) \/ Med!RefusePk(h)
                           \/ Med!LimitPk(h) \/ Med!Lose(h) \/ Med!Restart(h)
                      \/ Med!Deploy \/ Med!Pass
               PROVE  Shaped'
  BY DEF Med!Next
<1>2. CASE Med!Deploy \/ Med!Pass
  BY <1>2 DEF Shaped, IsFunction, Med!Deploy, Med!Pass, Med!loop, Med!net
<1>3. ASSUME NEW h \in Server, Med!TimerTick(h) PROVE Shaped'
  BY <1>3 DEF Shaped, IsFunction, Med!TimerTick, Med!loop
<1>4. ASSUME NEW h \in Server, Med!Recv(h) PROVE Shaped'
  <2>1. PICK m, s : /\ down' = [down EXCEPT ![h] = @ \ {m}]
                    /\ shown' = [shown EXCEPT ![h] = s]
                    /\ resp' = [resp EXCEPT ![h] = 0]
                    /\ fails' = [fails EXCEPT ![h] = 0]
                    /\ regTimeout' = [regTimeout EXCEPT ![h] = MinRegTimeout]
                    /\ sent' = [sent EXCEPT ![h] = Med!None]
                    /\ quiet' = [quiet EXCEPT ![h] = 0]
                    /\ UNCHANGED due
    BY <1>4 DEF Med!Recv, Med!RecvPeerResponse, Med!RecvOk, Med!RecvNotDeployed, Med!RecvOther,
      Med!RecvMismatch, Med!Take, Med!UpdateLatency
  <2> QED
    BY <2>1 DEF Shaped, IsFunction
<1>5. ASSUME NEW h \in Server,
             \/ Med!ServePeer(h) \/ Med!ServePk(h) \/ Med!RefusePk(h) \/ Med!LimitPk(h)
             \/ Med!Lose(h) \/ Med!Restart(h)
      PROVE  Shaped'
  <2>1. /\ UNCHANGED <<due, sent, resp, fails, regTimeout, shown, quiet>>
        /\ \/ UNCHANGED down
           \/ \E r : down' = [down EXCEPT ![h] = @ \cup {r}]
           \/ \E r : down' = [down EXCEPT ![h] = @ \ {r}]
    BY <1>5 DEF Med!ServePeer, Med!ServePk, Med!Accept, Med!RefusePk, Med!LimitPk, Med!Lose,
      Med!Restart, Med!Reply, Med!loop, Med!net
  <2> QED
    BY <2>1 DEF Shaped, IsFunction
<1> QED
  BY <1>1, <1>2, <1>3, <1>4, <1>5

\* Before its limit a test fails, after it it does not.
LEMMA TestsAreTimed ==
  ASSUME Med!TimeAssumption, NEW h \in Server, TimerInv(h)
  PROVE  /\ Med!Timeouts(h) \subseteq BOOLEAN /\ Med!Expiries(h) \subseteq BOOLEAN
         /\ sent[h] = Med!None => FALSE \in Med!Timeouts(h) /\ TRUE \notin Med!Timeouts(h)
         /\ sent[h] # Med!None => FALSE \in Med!Expiries(h) /\ TRUE \notin Med!Expiries(h)
         /\ sent[h] # Med!None /\ FALSE \in Med!Timeouts(h) => sent[h] <= regTimeout[h]
         /\ sent[h] # Med!None /\ TRUE \in Med!Timeouts(h) => sent[h] >= regTimeout[h]
         /\ sent[h] = Med!None /\ FALSE \in Med!Expiries(h) => resp[h] <= RegInterval
<1>1. sent[h] \in Int /\ regTimeout[h] \in Nat /\ resp[h] \in Nat /\ RegInterval \in Nat
  BY MediatorConstants DEF TimerInv, Med!None
<1>2. \A age, limit : Med!Reached(age, limit) \subseteq BOOLEAN
  BY DEF Med!Reached
<1>3. /\ Med!Timeouts(h) = (IF sent[h] = Med!None THEN {FALSE}
                            ELSE Med!Reached(sent[h], regTimeout[h]))
      /\ Med!Expiries(h) = (IF sent[h] = Med!None THEN Med!Reached(resp[h], RegInterval)
                            ELSE {FALSE})
  BY DEF Med!Timeouts, Med!Expiries
<1>4. TRUE \notin {FALSE} /\ FALSE \in {FALSE} /\ {FALSE} \subseteq BOOLEAN
  OBVIOUS
<1>5. CASE sent[h] = Med!None
  <2>1. Med!Timeouts(h) = {FALSE} /\ Med!Expiries(h) = Med!Reached(resp[h], RegInterval)
    BY <1>3, <1>5
  <2>2. FALSE \in Med!Reached(resp[h], RegInterval) => resp[h] <= RegInterval
    BY <1>1 DEF Med!Reached
  <2>3. FALSE \in Med!Expiries(h) => resp[h] <= RegInterval
    BY <2>1, <2>2
  <2>4. /\ Med!Timeouts(h) \subseteq BOOLEAN /\ Med!Expiries(h) \subseteq BOOLEAN
        /\ FALSE \in Med!Timeouts(h) /\ TRUE \notin Med!Timeouts(h)
    BY <1>2, <1>4, <2>1
  <2> QED
    BY <1>5, <2>3, <2>4
<1>6. CASE sent[h] # Med!None
  <2>1. Med!Expiries(h) = {FALSE} /\ Med!Timeouts(h) = Med!Reached(sent[h], regTimeout[h])
    BY <1>3, <1>6
  <2>2. /\ FALSE \in Med!Reached(sent[h], regTimeout[h]) => sent[h] <= regTimeout[h]
        /\ TRUE \in Med!Reached(sent[h], regTimeout[h]) => sent[h] >= regTimeout[h]
    BY <1>1 DEF Med!Reached
  <2>3. /\ FALSE \in Med!Timeouts(h) => sent[h] <= regTimeout[h]
        /\ TRUE \in Med!Timeouts(h) => sent[h] >= regTimeout[h]
    BY <2>1, <2>2
  <2>4. /\ Med!Timeouts(h) \subseteq BOOLEAN /\ Med!Expiries(h) \subseteq BOOLEAN
        /\ FALSE \in Med!Expiries(h) /\ TRUE \notin Med!Expiries(h)
    BY <1>2, <1>4, <2>1
  <2> QED
    BY <1>6, <2>3, <2>4
<1> QED
  BY <1>5, <1>6

LEMMA ClocksMove ==
  ASSUME LoopInv, Med!Next, NEW h \in Server
  PROVE  Kept(h) \/ Answered(h) \/ Waits(h) \/ Sends(h) \/ Passes(h)
<1>1. CASE Med!Deploy
  BY <1>1 DEF Med!Deploy, Med!loop, Kept
<1>2. CASE Med!Pass
  BY <1>2 DEF Med!Pass, Passes, LoopInv, TimerInv
<1>3. ASSUME NEW g \in Server, Med!TimerTick(g)
      PROVE  Kept(h) \/ Waits(h) \/ Sends(h)
  <2>1. UNCHANGED quiet /\ due[g] /\ due' = [due EXCEPT ![g] = FALSE]
    BY <1>3 DEF Med!TimerTick
  <2>2. PICK late \in Med!Timeouts(g), expired \in Med!Expiries(g) :
          IF ~late /\ ~expired
          THEN UNCHANGED <<sent, resp, fails, regTimeout, shown>>
          ELSE /\ regTimeout' = [regTimeout EXCEPT ![g] =
                    IF Public /\ late /\ @ < MaxRegTimeout THEN @ + MinRegTimeout ELSE @]
               /\ fails' = [fails EXCEPT ![g] =
                    IF late /\ @ < MaxFails2 THEN @ + 1 ELSE @]
               /\ shown' = [shown EXCEPT ![g] =
                    CASE late /\ fails'[g] >= MaxFails2 -> "offline"
                      [] late /\ fails'[g] \in MaxFails1..(MaxFails2 - 1) -> "connecting"
                      [] OTHER -> @]
               /\ sent' = [sent EXCEPT ![g] = 0]
               /\ UNCHANGED resp
    BY <1>3 DEF Med!TimerTick, Med!loop, LoopInv, DeployedInv
  <2>3. late \in BOOLEAN /\ expired \in BOOLEAN
    BY DEF Med!Timeouts, Med!Expiries, Med!Reached
  <2>4. CASE ~late /\ ~expired
    <3>1. FALSE \in Med!Timeouts(g) /\ FALSE \in Med!Expiries(g)
      BY <2>3, <2>4, Zenon
    <3> QED
      BY <2>1, <2>2, <2>4, <3>1 DEF Kept, Waits, LoopInv, Shaped, IsFunction, TimerInv
  <2>5. CASE late \/ expired
    <3>1. late \/ TRUE \in Med!Expiries(g)
      BY <2>3, <2>5, Zenon
    <3>2. SendsFor(g, late)
      BY <2>1, <2>2, <2>5 DEF SendsFor, LoopInv, Shaped, IsFunction
    <3>3. CASE h = g
      BY <2>1, <3>1, <3>2, <3>3 DEF Sends, LoopInv, Shaped, IsFunction, TimerInv
    <3>4. CASE h # g
      BY <2>1, <2>2, <2>5, <3>4 DEF Kept, LoopInv, Shaped, IsFunction
    <3> QED
      BY <3>3, <3>4
  <2> QED
    BY <2>3, <2>4, <2>5
<1>4. ASSUME NEW g \in Server, Med!Recv(g)
      PROVE  Kept(h) \/ Answered(h)
  <2>1. PICK s \in {shown[g], "ready"} :
                    /\ shown' = [shown EXCEPT ![g] = s]
                    /\ resp' = [resp EXCEPT ![g] = 0]
                    /\ fails' = [fails EXCEPT ![g] = 0]
                    /\ regTimeout' = [regTimeout EXCEPT ![g] = MinRegTimeout]
                    /\ sent' = [sent EXCEPT ![g] = Med!None]
                    /\ quiet' = [quiet EXCEPT ![g] = 0]
                    /\ UNCHANGED due
    <3>1. Med!UpdateLatency(g) /\ UNCHANGED due
      BY <1>4 DEF Med!Recv, Med!RecvPeerResponse, Med!RecvOk, Med!RecvNotDeployed,
        Med!RecvOther, Med!RecvMismatch
    <3>2. \E s \in {shown[g], "ready"} : shown' = [shown EXCEPT ![g] = s]
      BY <3>1 DEF Med!UpdateLatency
    <3> QED
      BY <3>1, <3>2 DEF Med!UpdateLatency
  <2> QED
    BY <2>1 DEF Kept, Answered, LoopInv, Shaped, IsFunction
<1>5. ASSUME NEW g \in Server,
             \/ Med!ServePeer(g) \/ Med!ServePk(g) \/ Med!RefusePk(g) \/ Med!LimitPk(g)
             \/ Med!Lose(g) \/ Med!Restart(g)
      PROVE  Kept(h)
  BY <1>5 DEF Med!ServePeer, Med!ServePk, Med!Accept, Med!RefusePk, Med!LimitPk, Med!Lose,
      Med!Restart, Med!Reply, Med!loop, Med!net, Kept
<1> QED
  BY <1>1, <1>2, <1>3, <1>4, <1>5 DEF Med!Next

LEMMA DeployedKept ==
  ASSUME LoopInv, Med!Next
  PROVE  DeployedInv'
<1>1. CASE Med!Deploy
  BY <1>1 DEF Med!Deploy, LoopInv, DeployedInv
<1>2. CASE Med!Pass
  BY <1>2 DEF Med!Pass, Med!net, LoopInv, DeployedInv
<1>3. ASSUME NEW g \in Server, Med!TimerTick(g) PROVE DeployedInv'
  BY <1>3 DEF Med!TimerTick, Med!server, LoopInv, DeployedInv
<1>4. ASSUME NEW g \in Server, Med!Recv(g) PROVE DeployedInv'
  <2>1. ~Med!RecvNotDeployed(g)
    BY DEF Med!RecvNotDeployed, Med!Take, LoopInv, DeployedInv
  <2>2. deployed' = TRUE /\ needsDeploy' = FALSE
    BY <1>4, <2>1 DEF Med!Recv, Med!RecvPeerResponse, Med!RecvOk, Med!RecvOther,
      Med!RecvMismatch, Med!server, Med!deploy, LoopInv, DeployedInv
  <2>3. PICK m : down' = [down EXCEPT ![g] = @ \ {m}]
    BY <1>4 DEF Med!Recv, Med!RecvPeerResponse, Med!RecvOk, Med!RecvNotDeployed,
      Med!RecvOther, Med!RecvMismatch, Med!Take
  <2> QED
    BY <2>2, <2>3 DEF LoopInv, DeployedInv, Shaped, IsFunction
<1>5. ASSUME NEW g \in Server,
             \/ Med!ServePeer(g) \/ Med!ServePk(g) \/ Med!RefusePk(g) \/ Med!LimitPk(g)
      PROVE  DeployedInv'
  <2>1. /\ UNCHANGED <<deployed, needsDeploy>>
        /\ \E r : /\ down' = [down EXCEPT ![g] = @ \cup {r}]
                  /\ \/ \E b : r = Med!PeerResponse(b)
                     \/ \E s \in {"OK", "UUID_MISMATCH", "TOO_FREQUENT"} : r = Med!PkResponse(s)
    BY <1>5 DEF Med!ServePeer, Med!ServePk, Med!Accept, Med!RefusePk, Med!LimitPk, Med!Reply,
      Med!deploy, LoopInv, DeployedInv
  <2>2. PICK r : /\ down' = [down EXCEPT ![g] = @ \cup {r}]
                 /\ r # Med!PkResponse("NOT_DEPLOYED")
    BY <2>1, Messages
  <2> QED
    BY <2>1, <2>2 DEF LoopInv, DeployedInv, Shaped, IsFunction
<1>6. ASSUME NEW g \in Server, Med!Lose(g) \/ Med!Restart(g) PROVE DeployedInv'
  <2>1. /\ UNCHANGED <<deployed, needsDeploy>>
        /\ down' = down \/ \E m : down' = [down EXCEPT ![g] = @ \ {m}]
    BY <1>6 DEF Med!Lose, Med!Restart, Med!server, Med!deploy, Med!net
  <2> QED
    BY <2>1 DEF LoopInv, DeployedInv, Shaped, IsFunction
<1> QED
  BY <1>1, <1>2, <1>3, <1>4, <1>5, <1>6 DEF Med!Next

LEMMA TimersKept ==
  ASSUME Med!TimeAssumption, Deployable, LoopInv, Med!Next, NEW h \in Server
  PROVE  TimerInv(h)'
<1>0. /\ RegInterval \in Nat /\ RegInterval >= 1 /\ MaxQuiet \in Nat
      /\ MinRegTimeout \in Nat /\ MinRegTimeout >= 1 /\ MaxFails2 \in Nat
      /\ MaxRegTimeout \in Nat /\ MinRegTimeout <= MaxRegTimeout
  BY MediatorConstants
<1>1. TimerInv(h)
  BY DEF LoopInv
<1>2. CASE Kept(h)
  BY <1>1, <1>2 DEF Kept, TimerInv
<1>3. CASE Answered(h)
  <2>1. 1 \in 1..MaxRegTimeout /\ MinRegTimeout = 1 * MinRegTimeout
    BY <1>0
  <2> QED
    BY <1>0, <1>1, <1>3, <2>1 DEF Answered, TimerInv, Med!None
<1>4. CASE Waits(h)
  <2>2. /\ sent[h] = Med!None => resp[h] <= RegInterval
        /\ sent[h] # Med!None => sent[h] <= regTimeout[h]
    BY <1>1, <1>4, TestsAreTimed DEF Waits
  <2> QED
    BY <1>1, <1>4, <2>2 DEF Waits, TimerInv
<1>5. CASE Sends(h)
  <2>1. regTimeout'[h] \in {regTimeout[h], regTimeout[h] + MinRegTimeout}
        /\ (regTimeout'[h] # regTimeout[h] => regTimeout[h] < MaxRegTimeout)
    BY <1>5 DEF Sends, SendsFor
  <2>2. /\ regTimeout'[h] \in Nat /\ regTimeout'[h] >= 1 /\ regTimeout'[h] <= MaxRegTimeout
        /\ \E n \in 1..MaxRegTimeout : regTimeout'[h] = n * MinRegTimeout
    <3>1. CASE regTimeout'[h] = regTimeout[h]
      BY <1>1, <3>1 DEF TimerInv
    <3>2. CASE regTimeout[h] < MaxRegTimeout /\ regTimeout'[h] = regTimeout[h] + MinRegTimeout
      <4>1. regTimeout[h] \in Nat /\ \E n \in 1..MaxRegTimeout : regTimeout[h] = n * MinRegTimeout
        BY <1>1 DEF TimerInv
      <4>2. /\ \E n \in 1..MaxRegTimeout : regTimeout[h] + MinRegTimeout = n * MinRegTimeout
            /\ regTimeout[h] + MinRegTimeout <= MaxRegTimeout
        BY <3>2, <4>1, Multiples
      <4>3. regTimeout'[h] \in Nat /\ regTimeout'[h] >= 1
        BY <1>0, <3>2, <4>1
      <4> QED
        BY <3>2, <4>2, <4>3
    <3> QED
      BY <2>1, <3>1, <3>2
  <2>3. fails'[h] \in Nat
    BY <1>1, <1>5 DEF Sends, SendsFor, TimerInv
  <2> QED
    <3>1. /\ due'[h] = FALSE /\ sent'[h] = 0 /\ resp'[h] = resp[h] /\ quiet'[h] = quiet[h]
      BY <1>5 DEF Sends, SendsFor
    <3>2. 0 # Med!None /\ 0 \in 0..(MaxRegTimeout + 1)
      BY <1>0 DEF Med!None
    <3>3. 0 <= regTimeout'[h] /\ 0 <= regTimeout'[h] + 1
      BY <2>2
    <3> QED
      BY <1>1, <2>2, <2>3, <3>1, <3>2, <3>3 DEF TimerInv
<1>6. CASE Passes(h)
  <2>1. sent'[h] \in 0..(MaxRegTimeout + 1) \cup {Med!None}
    BY <1>0, <1>1, <1>6 DEF Passes, TimerInv, Med!Older, Med!None
  <2>2. resp'[h] \in 0..(RegInterval + 1) /\ quiet'[h] \in 0..MaxQuiet
    BY <1>0, <1>1, <1>6 DEF Passes, TimerInv, Med!Older
  <2>3. sent'[h] # Med!None => sent'[h] <= regTimeout[h] + 1
    <3>1. sent[h] \in Int /\ regTimeout[h] \in Nat
      BY <1>0, <1>1 DEF TimerInv, Med!None
    <3> QED
      BY <1>1, <1>6, <3>1 DEF Passes, TimerInv, Med!Older
  <2> QED
    BY <1>1, <1>6, <2>1, <2>2, <2>3 DEF Passes, TimerInv
<1> QED
  BY <1>2, <1>3, <1>4, <1>5, <1>6, ClocksMove

LEMMA LoopInit ==
  ASSUME Med!TimeAssumption, Deployable, Med!Init
  PROVE  LoopInv
<1>1. Shaped
  BY DEF Med!Init, Shaped, IsFunction
<1>2. DeployedInv
  BY DEF Med!Init, DeployedInv, Deployable
<1>3. ASSUME NEW h \in Server PROVE TimerInv(h)
  <2>1. /\ RegInterval \in Nat /\ MinRegTimeout \in Nat /\ MinRegTimeout >= 1
        /\ MaxRegTimeout \in Nat /\ MinRegTimeout <= MaxRegTimeout /\ MaxQuiet \in Nat
    BY MediatorConstants
  <2>2. 1 \in 1..MaxRegTimeout /\ MinRegTimeout = 1 * MinRegTimeout
    BY <2>1
  <2> QED
    BY <2>1, <2>2 DEF Med!Init, TimerInv, Med!None
<1> QED
  BY <1>1, <1>2, <1>3 DEF LoopInv

LEMMA LoopKept ==
  ASSUME Med!TimeAssumption, Deployable, LoopInv, [Med!Next]_Med!vars
  PROVE  LoopInv'
<1>1. CASE Med!Next
  BY <1>1, Shapes, DeployedKept, TimersKept DEF LoopInv
<1>2. CASE UNCHANGED Med!vars
  BY <1>2 DEF LoopInv, Shaped, IsFunction, DeployedInv, TimerInv, Med!vars, Med!loop, Med!net,
    Med!server, Med!deploy
<1> QED
  BY <1>1, <1>2

-----------------------------------------------------------------------------
(* What the user is shown.                                                 *)

\* How long the machine has not heard from the server it is shown ready at: until the
\* first request, until the first timeout, until the second.
ReadyInv(h) ==
  shown[h] = "ready" =>
    \/ /\ sent[h] = Med!None /\ fails[h] = 0 /\ regTimeout[h] = MinRegTimeout
       /\ quiet[h] <= resp[h]
    \/ /\ sent[h] # Med!None /\ fails[h] = 0 /\ regTimeout[h] = MinRegTimeout
       /\ quiet[h] <= RegInterval + 1 + sent[h]
    \/ /\ sent[h] # Med!None /\ fails[h] = 1 /\ regTimeout[h] <= 2 * MinRegTimeout
       /\ quiet[h] <= RegInterval + MinRegTimeout + 2 + sent[h]

LEMMA ReadyKept ==
  ASSUME Med!TimeAssumption, MaxFails1 <= 2, LoopInv, NEW h \in Server, ReadyInv(h),
         TimerInv(h)', Kept(h) \/ Answered(h) \/ Waits(h) \/ Sends(h) \/ Passes(h)
  PROVE  ReadyInv(h)'
<1>0. /\ RegInterval \in Nat /\ RegInterval >= 1 /\ MaxQuiet \in Nat
      /\ MinRegTimeout \in Nat /\ MinRegTimeout >= 1 /\ MaxFails2 \in Nat /\ MaxFails1 \in Nat
      /\ MaxRegTimeout \in Nat /\ MinRegTimeout <= MaxRegTimeout
  BY MediatorConstants
<1>1. TimerInv(h)
  BY DEF LoopInv
<1>2. CASE Kept(h) \/ Waits(h)
  BY <1>2 DEF Kept, Waits, ReadyInv
<1>3. CASE Answered(h)
  BY <1>3 DEF Answered, ReadyInv
<1>4. CASE Sends(h)
  <2> SUFFICES ASSUME shown'[h] = "ready" PROVE ReadyInv(h)'
    BY DEF ReadyInv
  <2> PICK late \in Med!Timeouts(h) :
        (late \/ TRUE \in Med!Expiries(h)) /\ SendsFor(h, late)
    BY <1>4 DEF Sends
  <2>1. shown[h] = "ready" /\ late \in BOOLEAN
    BY <1>1, TestsAreTimed DEF SendsFor
  <2>2. CASE late = FALSE
    <3>1. sent[h] = Med!None
      BY <1>1, <2>2, TestsAreTimed
    <3> QED
      BY <1>0, <1>1, <2>1, <2>2, <3>1 DEF SendsFor, ReadyInv, TimerInv, Med!None
  <2>3. CASE late = TRUE
    <3>1. ~(fails'[h] >= MaxFails2) /\ ~(fails'[h] \in MaxFails1..(MaxFails2 - 1))
      BY <2>3 DEF SendsFor
    <3>2. fails'[h] \in Nat /\ fails'[h] < 2 /\ fails[h] \in Nat
      BY <1>0, <1>1, <3>1 DEF TimerInv
    <3>3. fails[h] = 0 /\ fails'[h] = 1
      BY <1>0, <1>1, <2>3, <3>1, <3>2 DEF SendsFor, TimerInv
    <3>4. sent[h] # Med!None
      BY <1>1, <2>3, TestsAreTimed
    <3>5. regTimeout[h] = MinRegTimeout /\ quiet[h] <= RegInterval + 1 + sent[h]
      BY <2>1, <3>3, <3>4 DEF ReadyInv
    <3>6. sent[h] \in Int /\ sent[h] <= MinRegTimeout + 1
      BY <1>0, <1>1, <3>4, <3>5 DEF TimerInv, Med!None
    <3>7. /\ sent'[h] = 0 /\ quiet'[h] = quiet[h] /\ quiet[h] \in Nat
          /\ regTimeout'[h] \in {regTimeout[h], regTimeout[h] + MinRegTimeout}
      BY <1>1, <1>0 DEF SendsFor, TimerInv
    <3>8. regTimeout'[h] <= 2 * MinRegTimeout
      BY <1>0, <3>5, <3>7
    <3>9. quiet'[h] <= RegInterval + MinRegTimeout + 2 + sent'[h]
      BY <1>0, <3>5, <3>6, <3>7
    <3> QED
      BY <3>3, <3>7, <3>8, <3>9 DEF ReadyInv, Med!None
  <2> QED
    BY <2>1, <2>2, <2>3
<1>5. CASE Passes(h)
  BY <1>0, <1>1, <1>5 DEF Passes, ReadyInv, TimerInv, Med!Older, Med!None
<1> QED
  BY <1>2, <1>3, <1>4, <1>5

\* ReadyIsRecent: a host is shown ready only if its server was heard from within the time
\* until the next request and two timeouts, of which the second may have grown, each of them
\* up to a tick later than its limit (start_udp, update_latency); for any losses, delays,
\* restarts and refusals, for any timeouts, as long as the machine is not told to be deployed
\* first: while that is to be done, the loop does not look at its timeouts.
THEOREM ReadyHostsWereHeard ==
  ASSUME Med!TimeAssumption, Deployable, MaxFails1 <= 2
  PROVE  Med!Spec => []Med!ReadyIsRecent
<1> DEFINE AllReady == \A h \in Server : ReadyInv(h)
<1>1. Med!Init => LoopInv /\ AllReady
  BY LoopInit DEF Med!Init, ReadyInv
<1>2. LoopInv /\ [Med!Next]_Med!vars => LoopInv'
  BY LoopKept
<1>3. LoopInv /\ AllReady /\ [Med!Next]_Med!vars => AllReady'
  <2> SUFFICES ASSUME LoopInv, AllReady, [Med!Next]_Med!vars, NEW h \in Server
               PROVE  ReadyInv(h)'
    OBVIOUS
  <2>1. CASE UNCHANGED Med!vars
    BY <2>1 DEF Med!vars, Med!loop, ReadyInv
  <2>2. CASE Med!Next
    BY <2>2, ClocksMove, TimersKept, ReadyKept
  <2> QED
    BY <2>1, <2>2
<1>4. LoopInv /\ AllReady => Med!ReadyIsRecent
  <2> SUFFICES ASSUME LoopInv, AllReady, NEW h \in Server, shown[h] = "ready"
               PROVE  quiet[h] <= RegInterval + 3 * MinRegTimeout + 3
    BY DEF Med!ReadyIsRecent
  <2>1. TimerInv(h) /\ ReadyInv(h)
    BY DEF LoopInv
  <2>2. RegInterval \in Nat /\ MinRegTimeout \in Nat
    BY MediatorConstants
  <2>3. resp[h] \in 0..(RegInterval + 1) /\ quiet[h] \in Int /\ sent[h] \in Int
        /\ (sent[h] # Med!None => sent[h] <= regTimeout[h] + 1) /\ regTimeout[h] \in Nat
    BY <2>1, MediatorConstants DEF TimerInv, Med!None
  <2> QED
    BY <2>1, <2>2, <2>3 DEF ReadyInv
<1> QED
  BY <1>1, <1>2, <1>3, <1>4, PTL DEF Med!Spec

-----------------------------------------------------------------------------
(* Registration that is undisturbed but for losses and restarts.           *)

\* Nobody else owns an id of this machine at any server, and a datagram arrives within its
\* second or never.
Undisturbed == Deployable /\ Prompt /\ \A h \in Server : Taken[h] = {}

\* The retry timeouts of Tolerance losses in a row, each up to a tick late, fit into the
\* server's patience.
Patient ==
  /\ Tolerance < MaxLoss
  /\ 2 * (RegInterval + 1) + MinRegTimeout * (Tolerance * (Tolerance + 1)) + 2 * Tolerance
       < 2 * RegTimeout

Silent(h) == up[h] = {} /\ down[h] = {}
Few(h) == lost[h] <= Tolerance
Calm(h) == Med!Online(h) /\ Few(h)
Confirmed(h) == keyConfirmed /\ hostConfirmed[h]
Heartbeat(h) ==
  Med!Peer(id) \in up[h] \/ \E ask \in BOOLEAN : Med!PeerResponse(ask) \in down[h]

\* The machine keeps its id.
Replies == {Med!PeerResponse(TRUE), Med!PeerResponse(FALSE),
            Med!PkResponse("OK"), Med!PkResponse("TOO_FREQUENT")}
MachineInv ==
  /\ solving = NoHost /\ deployAge = Med!None /\ restarts \in Nat
  /\ IsFunction(hostConfirmed) /\ IsFunction(up) /\ IsFunction(row) /\ IsFunction(mem)
  /\ IsFunction(seen) /\ IsFunction(lost)
  /\ \A h \in Server :
       /\ up[h] \subseteq {Med!Peer(id), Med!PkOf(id)} /\ down[h] \subseteq Replies
       /\ seen[h] \in 0..RegTimeout /\ lost[h] \in 0..MaxLoss

\* What a step is to the datagrams of one server and to what it keeps of the machine.
Confirms(h) ==
  /\ keyConfirmed => keyConfirmed'
  /\ hostConfirmed[h] => hostConfirmed'[h]
KeepsRow(h) == row'[h] = row[h] /\ mem'[h] = mem[h]
KeepsServer(h) == KeepsRow(h) /\ seen'[h] = seen[h] /\ lost'[h] = lost[h]
KeepsNet(h) == up'[h] = up[h] /\ down'[h] = down[h]
Elsewhere(h) == Kept(h) /\ KeepsNet(h) /\ KeepsServer(h) /\ Confirms(h)
Ticks(h) ==
  /\ KeepsServer(h) /\ Confirms(h) /\ down'[h] = down[h]
  /\ \/ Waits(h) /\ up'[h] = up[h]
     \/ /\ Sends(h)
        /\ \/ Confirmed(h) /\ up'[h] = up[h] \cup {Med!Peer(id)}
           \/ ~Confirmed(h) /\ up'[h] = up[h] \cup {Med!PkOf(id)}
TakesAnswer(h) ==
  /\ Answered(h) /\ KeepsRow(h) /\ seen'[h] = seen[h] /\ Confirms(h)
  /\ \/ /\ Med!PeerResponse(FALSE) \in down[h] /\ lost'[h] = 0
        /\ down'[h] = down[h] \ {Med!PeerResponse(FALSE)} /\ up'[h] = up[h]
     \/ /\ Med!PeerResponse(TRUE) \in down[h] /\ lost'[h] = lost[h]
        /\ down'[h] = down[h] \ {Med!PeerResponse(TRUE)}
        /\ up'[h] = up[h] \cup {Med!PkOf(id)}
     \/ /\ lost'[h] = lost[h] /\ up'[h] = up[h]
        /\ \E r \in {"OK", "TOO_FREQUENT"} :
             /\ Med!PkResponse(r) \in down[h] /\ down'[h] = down[h] \ {Med!PkResponse(r)}
Serves(h) ==
  /\ Kept(h) /\ lost'[h] = lost[h] /\ Confirms(h)
  /\ \/ /\ Med!Peer(id) \in up[h] /\ up'[h] = up[h] \ {Med!Peer(id)} /\ KeepsRow(h)
        /\ \/ /\ id \in mem[h] /\ seen'[h] = 0
              /\ down'[h] = down[h] \cup {Med!PeerResponse(FALSE)}
           \/ /\ id \notin mem[h] /\ seen'[h] = seen[h]
              /\ down'[h] = down[h] \cup {Med!PeerResponse(TRUE)}
     \/ /\ Med!PkOf(id) \in up[h] /\ up'[h] = up[h] \ {Med!PkOf(id)}
        /\ row'[h] = row[h] \cup {id} /\ mem'[h] = mem[h] \cup {id}
        /\ seen'[h] = (IF id \notin row[h] THEN 0 ELSE seen[h])
        /\ down'[h] = down[h] \cup {Med!PkResponse("OK")}
     \/ /\ Med!PkOf(id) \in up[h] /\ up'[h] = up[h] \ {Med!PkOf(id)} /\ KeepsRow(h)
        /\ seen'[h] = seen[h] /\ down'[h] = down[h] \cup {Med!PkResponse("TOO_FREQUENT")}
Loses(h) ==
  /\ Kept(h) /\ KeepsRow(h) /\ seen'[h] = seen[h] /\ Confirms(h)
  /\ lost'[h] = Med!Older(lost[h], MaxLoss)
  /\ \/ \E m \in up[h] : up'[h] = up[h] \ {m} /\ down'[h] = down[h]
     \/ \E m \in down[h] : down'[h] = down[h] \ {m} /\ up'[h] = up[h]
Restarts(h) ==
  /\ Kept(h) /\ KeepsNet(h) /\ lost'[h] = lost[h] /\ row'[h] = row[h] /\ Confirms(h)
  /\ mem'[h] = {} /\ seen'[h] = RegTimeout /\ restarts' # restarts
Ages(h) ==
  /\ Passes(h) /\ KeepsNet(h) /\ KeepsRow(h) /\ lost'[h] = lost[h] /\ Confirms(h)
  /\ Silent(h) /\ seen'[h] = Med!Older(seen[h], RegTimeout)

HostMoves(h) ==
  \/ Elsewhere(h) \/ Ticks(h) \/ TakesAnswer(h) \/ Serves(h) \/ Loses(h) \/ Restarts(h)
  \/ Ages(h)

\* The timer's branch, with register_peer.
LEMMA TicksMove ==
  ASSUME LoopInv, MachineInv, NEW g \in Server, Med!TimerTick(g)
  PROVE  /\ UNCHANGED <<id, solving, keyConfirmed, hostConfirmed, down, row, mem, seen, lost>>
         /\ deployAge' = Med!None /\ IsFunction(up)' /\ Ticks(g)
         /\ \A h \in Server \ {g} : Elsewhere(h)
<1>1. /\ UNCHANGED <<id, solving, keyConfirmed, hostConfirmed, needsDeploy, quiet>>
      /\ UNCHANGED <<down, row, mem, seen, lost>>
      /\ due[g] /\ due' = [due EXCEPT ![g] = FALSE]
  BY DEF Med!TimerTick, Med!config, Med!server
<1>2. needsDeploy = FALSE /\ due[g] = TRUE
  BY <1>1 DEF LoopInv, DeployedInv, TimerInv
<1> PICK late \in Med!Timeouts(g), expired \in Med!Expiries(g) :
      IF ~late /\ ~expired
      THEN UNCHANGED <<sent, resp, fails, regTimeout, shown, up, deployAge>>
      ELSE /\ regTimeout' = [regTimeout EXCEPT ![g] =
                IF Public /\ late /\ @ < MaxRegTimeout THEN @ + MinRegTimeout ELSE @]
           /\ fails' = [fails EXCEPT ![g] = IF late /\ @ < MaxFails2 THEN @ + 1 ELSE @]
           /\ shown' = [shown EXCEPT ![g] =
                CASE late /\ fails'[g] >= MaxFails2 -> "offline"
                  [] late /\ fails'[g] \in MaxFails1..(MaxFails2 - 1) -> "connecting"
                  [] OTHER -> @]
           /\ sent' = [sent EXCEPT ![g] = 0]
           /\ UNCHANGED resp /\ Med!RegisterPeer(g)
  BY <1>2 DEF Med!TimerTick, Med!loop
<1> late \in BOOLEAN /\ expired \in BOOLEAN
  BY DEF Med!Timeouts, Med!Expiries, Med!Reached
<1>3. CASE ~late /\ ~expired
  <2>1. UNCHANGED <<sent, resp, fails, regTimeout, shown, up, deployAge>>
    BY <1>3
  <2>2. Waits(g)
    <3>1. FALSE \in Med!Timeouts(g) /\ FALSE \in Med!Expiries(g)
      BY <1>3, Zenon
    <3> QED
      BY <1>1, <1>2, <2>1, <3>1 DEF Waits, LoopInv, Shaped, IsFunction
  <2>3. \A h \in Server \ {g} : Kept(h)
    BY <1>1, <2>1 DEF Kept, LoopInv, Shaped, IsFunction
  <2> QED
    BY <1>1, <2>1, <2>2, <2>3 DEF Ticks, Elsewhere, KeepsServer, KeepsRow, KeepsNet, Confirms,
      MachineInv, IsFunction
<1>4. CASE late \/ expired
  <2>1. /\ regTimeout' = [regTimeout EXCEPT ![g] =
               IF Public /\ late /\ @ < MaxRegTimeout THEN @ + MinRegTimeout ELSE @]
        /\ fails' = [fails EXCEPT ![g] = IF late /\ @ < MaxFails2 THEN @ + 1 ELSE @]
        /\ shown' = [shown EXCEPT ![g] =
             CASE late /\ fails'[g] >= MaxFails2 -> "offline"
               [] late /\ fails'[g] \in MaxFails1..(MaxFails2 - 1) -> "connecting"
               [] OTHER -> @]
        /\ sent' = [sent EXCEPT ![g] = 0]
        /\ UNCHANGED resp /\ Med!RegisterPeer(g)
    BY <1>4
  <2>2. Sends(g)
    <3>1. late \/ TRUE \in Med!Expiries(g)
      BY <1>4, Zenon
    <3>2. SendsFor(g, late)
      BY <1>1, <2>1 DEF SendsFor, LoopInv, Shaped, IsFunction
    <3> QED
      BY <1>1, <1>2, <3>1, <3>2 DEF Sends, LoopInv, Shaped, IsFunction
  <2>3. \A h \in Server \ {g} : Kept(h)
    BY <1>1, <2>1 DEF Kept, LoopInv, Shaped, IsFunction
  <2>4. /\ deployAge' = Med!None
        /\ \/ Confirmed(g) /\ up' = [up EXCEPT ![g] = @ \cup {Med!Peer(id)}]
           \/ ~Confirmed(g) /\ up' = [up EXCEPT ![g] = @ \cup {Med!PkOf(id)}]
    BY <1>2, <2>1 DEF Med!RegisterPeer, Med!RegisterPk, Med!Send, Med!DeployThrottled, MachineInv,
      Confirmed
  <2>5. /\ IsFunction(up)' /\ \A h \in Server \ {g} : up'[h] = up[h]
        /\ \/ Confirmed(g) /\ up'[g] = up[g] \cup {Med!Peer(id)}
           \/ ~Confirmed(g) /\ up'[g] = up[g] \cup {Med!PkOf(id)}
    BY <2>4 DEF MachineInv, IsFunction
  <2> QED
    BY <1>1, <2>2, <2>3, <2>4, <2>5 DEF Ticks, Elsewhere, KeepsServer, KeepsRow, KeepsNet,
      Confirms
<1> QED
  BY <1>3, <1>4

\* An answer.  None that refuses the machine is under way.
LEMMA AnswersMove ==
  ASSUME LoopInv, MachineInv, NEW g \in Server, Med!Recv(g)
  PROVE  /\ UNCHANGED <<id, row, mem, seen>>
         /\ solving' = NoHost /\ deployAge' = Med!None
         /\ IsFunction(up)' /\ IsFunction(hostConfirmed)' /\ IsFunction(lost)'
         /\ TakesAnswer(g) /\ \A h \in Server \ {g} : Elsewhere(h)
<1>1. /\ Med!UpdateLatency(g) /\ UNCHANGED due
  BY DEF Med!Recv, Med!RecvPeerResponse, Med!RecvOk, Med!RecvNotDeployed, Med!RecvOther,
    Med!RecvMismatch
<1>2. \E s \in {shown[g], "ready"} : shown' = [shown EXCEPT ![g] = s]
  BY <1>1 DEF Med!UpdateLatency
<1>3. Answered(g) /\ \A h \in Server \ {g} : Kept(h)
  BY <1>1, <1>2 DEF Med!UpdateLatency, Answered, Kept, LoopInv, Shaped, IsFunction
<1>4. \A r \in {"UUID_MISMATCH", "NOT_DEPLOYED"} : Med!PkResponse(r) \notin down[g]
  <2>1. down[g] \subseteq Replies
    BY DEF MachineInv
  <2> QED
    BY <2>1, Messages DEF Replies
<1>5. CASE Med!RecvPeerResponse(g)
  <2>1. PICK ask \in BOOLEAN :
          /\ Med!PeerResponse(ask) \in down[g]
          /\ down' = [down EXCEPT ![g] = @ \ {Med!PeerResponse(ask)}]
          /\ IF ask THEN Med!RegisterPk(g, id) ELSE UNCHANGED <<up, deployAge>>
          /\ lost' = [lost EXCEPT ![g] = IF ask THEN @ ELSE 0]
          /\ UNCHANGED <<id, keyConfirmed, hostConfirmed, solving, row, mem, seen>>
    BY <1>5 DEF Med!RecvPeerResponse, Med!Take, Med!config, Med!server
  <2>2. CASE ask = TRUE
    <3>1. up' = [up EXCEPT ![g] = @ \cup {Med!PkOf(id)}] /\ deployAge' = Med!None
      BY <2>1, <2>2 DEF Med!RegisterPk, Med!Send, LoopInv, DeployedInv, MachineInv
    <3>2. /\ IsFunction(up)' /\ up'[g] = up[g] \cup {Med!PkOf(id)}
          /\ down'[g] = down[g] \ {Med!PeerResponse(TRUE)}
          /\ \A h \in Server : lost'[h] = lost[h]
          /\ \A h \in Server \ {g} : up'[h] = up[h] /\ down'[h] = down[h]
      BY <2>1, <2>2, <3>1 DEF LoopInv, Shaped, MachineInv, IsFunction
    <3>3. IsFunction(lost)' /\ IsFunction(hostConfirmed)'
      BY <2>1 DEF MachineInv, IsFunction
    <3> QED
      BY <1>3, <2>1, <2>2, <3>1, <3>2, <3>3 DEF TakesAnswer, Elsewhere, KeepsNet, KeepsServer,
        KeepsRow, Confirms, MachineInv
  <2>3. CASE ask = FALSE
    <3>1. UNCHANGED <<up, deployAge>> /\ lost' = [lost EXCEPT ![g] = 0]
      BY <2>1, <2>3
    <3>2. /\ down'[g] = down[g] \ {Med!PeerResponse(FALSE)} /\ lost'[g] = 0
          /\ \A h \in Server \ {g} : lost'[h] = lost[h] /\ down'[h] = down[h]
      BY <2>1, <2>3, <3>1 DEF LoopInv, Shaped, MachineInv, IsFunction
    <3>3. IsFunction(up)' /\ IsFunction(lost)' /\ IsFunction(hostConfirmed)'
      BY <2>1, <3>1 DEF MachineInv, IsFunction
    <3> QED
      BY <1>3, <2>1, <2>3, <3>1, <3>2, <3>3 DEF TakesAnswer, Elsewhere, KeepsNet, KeepsServer,
        KeepsRow, Confirms, MachineInv
  <2> QED
    BY <2>2, <2>3
<1>6. CASE Med!RecvOk(g) \/ Med!RecvOther(g)
  <2>1. PICK r \in {"OK", "TOO_FREQUENT"} :
          /\ Med!PkResponse(r) \in down[g]
          /\ down' = [down EXCEPT ![g] = @ \ {Med!PkResponse(r)}]
    BY <1>6 DEF Med!RecvOk, Med!RecvOther, Med!Take
  <2>2. /\ UNCHANGED <<id, up, deployAge, row, mem, seen, lost>> /\ solving' = NoHost
        /\ \/ UNCHANGED <<keyConfirmed, hostConfirmed>>
           \/ keyConfirmed' = TRUE /\ hostConfirmed' = [hostConfirmed EXCEPT ![g] = TRUE]
    BY <1>6 DEF Med!RecvOk, Med!RecvOther, Med!config, Med!deploy, Med!server, MachineInv
  <2>3. IsFunction(hostConfirmed)' /\ \A h \in Server : Confirms(h)
    BY <2>2 DEF MachineInv, IsFunction, Confirms
  <2>4. /\ down'[g] = down[g] \ {Med!PkResponse(r)}
        /\ \A h \in Server \ {g} : down'[h] = down[h]
    BY <2>1 DEF LoopInv, Shaped, IsFunction
  <2>5. IsFunction(up)' /\ IsFunction(lost)'
    BY <2>2 DEF MachineInv, IsFunction
  <2> QED
    BY <1>3, <2>1, <2>2, <2>3, <2>4, <2>5 DEF TakesAnswer, Elsewhere, KeepsNet, KeepsServer,
      KeepsRow, MachineInv
<1>7. ~Med!RecvNotDeployed(g) /\ \A i : ~Med!RecvMismatch(g, i)
  BY <1>4 DEF Med!RecvNotDeployed, Med!RecvMismatch, Med!Take
<1> QED
  BY <1>5, <1>6, <1>7 DEF Med!Recv

\* The server.
LEMMA ServersMove ==
  ASSUME LoopInv, MachineInv, Undisturbed, NEW g \in Server,
         Med!ServePeer(g) \/ Med!ServePk(g) \/ Med!RefusePk(g) \/ Med!LimitPk(g)
  PROVE  /\ UNCHANGED <<id, solving, deployAge, hostConfirmed, lost>>
         /\ IsFunction(up)' /\ IsFunction(row)' /\ IsFunction(mem)' /\ IsFunction(seen)'
         /\ Serves(g) /\ \A h \in Server \ {g} : Elsewhere(h)
<1>1. \A h \in Server : Kept(h) /\ Confirms(h)
  BY DEF Med!ServePeer, Med!ServePk, Med!Accept, Med!RefusePk, Med!LimitPk, Med!Reply, Med!loop,
    Med!config, Kept, Confirms
<1>2. UNCHANGED <<id, solving, deployAge, hostConfirmed, lost>>
  BY DEF Med!ServePeer, Med!ServePk, Med!Accept, Med!RefusePk, Med!LimitPk, Med!Reply, Med!config,
    Med!deploy
<1>3. CASE Med!ServePeer(g)
  <2>1. PICK i \in Id :
          /\ Med!Peer(i) \in up[g] /\ up' = [up EXCEPT ![g] = @ \ {Med!Peer(i)}]
          /\ down' = [down EXCEPT ![g] = @ \cup {Med!PeerResponse(i \notin mem[g])}]
          /\ IF i \in mem[g] THEN Med!Refresh(g, i) ELSE UNCHANGED seen
          /\ UNCHANGED <<row, mem>>
    BY <1>3 DEF Med!ServePeer, Med!Reply
  <2>2. i = id
    BY <2>1, Messages DEF MachineInv
  <2>3. /\ IsFunction(up)' /\ up'[g] = up[g] \ {Med!Peer(id)}
        /\ down'[g] = down[g] \cup {Med!PeerResponse(id \notin mem[g])}
        /\ \A h \in Server \ {g} : up'[h] = up[h] /\ down'[h] = down[h]
    BY <2>1, <2>2 DEF LoopInv, Shaped, MachineInv, IsFunction
  <2>4. CASE id \in mem[g]
    <3>1. seen' = [seen EXCEPT ![g] = 0] /\ (id \notin mem[g]) = FALSE
      BY <2>1, <2>2, <2>4 DEF Med!Refresh
    <3>2. IsFunction(seen)' /\ seen'[g] = 0 /\ \A h \in Server \ {g} : seen'[h] = seen[h]
      BY <3>1 DEF MachineInv, IsFunction
    <3>3. down'[g] = down[g] \cup {Med!PeerResponse(FALSE)}
      BY <2>3, <3>1
    <3> QED
      BY <1>1, <1>2, <2>1, <2>2, <2>3, <2>4, <3>2, <3>3 DEF Serves, Elsewhere, KeepsRow,
        KeepsServer, KeepsNet, MachineInv, IsFunction
  <2>5. CASE id \notin mem[g]
    <3>1. seen' = seen /\ (id \notin mem[g]) = TRUE
      BY <2>1, <2>2, <2>5
    <3>2. down'[g] = down[g] \cup {Med!PeerResponse(TRUE)}
      BY <2>3, <3>1
    <3> QED
      BY <1>1, <1>2, <2>1, <2>2, <2>3, <2>5, <3>1, <3>2 DEF Serves, Elsewhere, KeepsRow,
        KeepsServer, KeepsNet, MachineInv, IsFunction
  <2> QED
    BY <2>4, <2>5
<1>4. CASE Med!ServePk(g)
  <2>1. PICK i \in Id :
          /\ Med!PkOf(i) \in up[g] /\ up' = [up EXCEPT ![g] = @ \ {Med!PkOf(i)}]
          /\ down' = [down EXCEPT ![g] = @ \cup {Med!PkResponse("OK")}]
          /\ row' = [row EXCEPT ![g] = @ \cup {i}]
          /\ mem' = [mem EXCEPT ![g] = @ \cup {i}]
          /\ IF i \notin row[g] THEN Med!Refresh(g, i) ELSE UNCHANGED seen
    BY <1>4 DEF Med!ServePk, Med!Accept
  <2>2. i = id
    BY <2>1, Messages DEF MachineInv
  <2>3. /\ IsFunction(up)' /\ up'[g] = up[g] \ {Med!PkOf(id)}
        /\ down'[g] = down[g] \cup {Med!PkResponse("OK")}
        /\ \A h \in Server \ {g} : up'[h] = up[h] /\ down'[h] = down[h]
    BY <2>1, <2>2 DEF LoopInv, Shaped, MachineInv, IsFunction
  <2>4. /\ IsFunction(row)' /\ row'[g] = row[g] \cup {id}
        /\ IsFunction(mem)' /\ mem'[g] = mem[g] \cup {id}
        /\ \A h \in Server \ {g} : row'[h] = row[h] /\ mem'[h] = mem[h]
    BY <2>1, <2>2 DEF MachineInv, IsFunction
  <2>5. /\ IsFunction(seen)' /\ seen'[g] = (IF id \notin row[g] THEN 0 ELSE seen[g])
        /\ \A h \in Server \ {g} : seen'[h] = seen[h]
    BY <2>1, <2>2 DEF MachineInv, IsFunction, Med!Refresh
  <2> QED
    BY <1>1, <1>2, <2>1, <2>2, <2>3, <2>4, <2>5 DEF Serves, Elsewhere, KeepsRow,
        KeepsServer, KeepsNet
<1>5. CASE Med!LimitPk(g)
  <2>1. PICK i \in Id :
          /\ Med!PkOf(i) \in up[g] /\ up' = [up EXCEPT ![g] = @ \ {Med!PkOf(i)}]
          /\ down' = [down EXCEPT ![g] = @ \cup {Med!PkResponse("TOO_FREQUENT")}]
          /\ UNCHANGED <<row, mem, seen>>
    BY <1>5 DEF Med!LimitPk, Med!Reply
  <2>2. i = id
    BY <2>1, Messages DEF MachineInv
  <2>3. /\ IsFunction(up)' /\ up'[g] = up[g] \ {Med!PkOf(id)}
        /\ down'[g] = down[g] \cup {Med!PkResponse("TOO_FREQUENT")}
        /\ \A h \in Server \ {g} : up'[h] = up[h] /\ down'[h] = down[h]
    BY <2>1, <2>2 DEF LoopInv, Shaped, MachineInv, IsFunction
  <2> QED
    BY <1>1, <1>2, <2>1, <2>2, <2>3 DEF Serves, Elsewhere, KeepsRow,
        KeepsServer, KeepsNet, MachineInv, IsFunction
<1>6. ~Med!RefusePk(g)
  BY DEF Med!RefusePk, Undisturbed, LoopInv, DeployedInv
<1> QED
  BY <1>3, <1>4, <1>5, <1>6

\* Losses and restarts.
LEMMA FaultsMove ==
  ASSUME LoopInv, MachineInv, NEW g \in Server, Med!Lose(g) \/ Med!Restart(g)
  PROVE  /\ UNCHANGED <<id, solving, deployAge, hostConfirmed>>
         /\ IsFunction(up)' /\ IsFunction(row)' /\ IsFunction(mem)' /\ IsFunction(seen)'
         /\ IsFunction(lost)'
         /\ Loses(g) \/ Restarts(g)
         /\ \A h \in Server \ {g} : Elsewhere(h)
<1>1. \A h \in Server : Kept(h) /\ Confirms(h)
  BY DEF Med!Lose, Med!Restart, Med!loop, Med!config, Kept, Confirms
<1>2. UNCHANGED <<id, solving, deployAge, hostConfirmed>>
  BY DEF Med!Lose, Med!Restart, Med!config, Med!deploy
<1>3. CASE Med!Lose(g)
  <2>1. /\ lost' = [lost EXCEPT ![g] = Med!Older(@, MaxLoss)] /\ UNCHANGED <<row, mem, seen>>
        /\ \/ \E m \in up[g] : up' = [up EXCEPT ![g] = @ \ {m}] /\ UNCHANGED down
           \/ \E m \in down[g] : down' = [down EXCEPT ![g] = @ \ {m}] /\ UNCHANGED up
    BY <1>3 DEF Med!Lose, Med!server
  <2>2. /\ IsFunction(lost)' /\ lost'[g] = Med!Older(lost[g], MaxLoss)
        /\ \A h \in Server \ {g} : lost'[h] = lost[h]
    BY <2>1 DEF MachineInv, IsFunction
  <2>3. /\ IsFunction(up)' /\ \A h \in Server \ {g} : up'[h] = up[h] /\ down'[h] = down[h]
        /\ \/ \E m \in up[g] : up'[g] = up[g] \ {m} /\ down'[g] = down[g]
           \/ \E m \in down[g] : down'[g] = down[g] \ {m} /\ up'[g] = up[g]
    BY <2>1 DEF LoopInv, Shaped, MachineInv, IsFunction
  <2> QED
    BY <1>1, <1>2, <2>1, <2>2, <2>3 DEF Loses, Elsewhere, KeepsRow, KeepsServer, KeepsNet,
      MachineInv, IsFunction
<1>4. CASE Med!Restart(g)
  <2>1. /\ restarts' = restarts + 1 /\ mem' = [mem EXCEPT ![g] = {}]
        /\ seen' = [seen EXCEPT ![g] = RegTimeout] /\ UNCHANGED <<up, down, row, lost>>
    BY <1>4 DEF Med!Restart, Med!net
  <2>2. /\ IsFunction(mem)' /\ mem'[g] = {} /\ IsFunction(seen)' /\ seen'[g] = RegTimeout
        /\ \A h \in Server \ {g} : mem'[h] = mem[h] /\ seen'[h] = seen[h]
    BY <2>1 DEF MachineInv, IsFunction
  <2> QED
    BY <1>1, <1>2, <2>1, <2>2 DEF Restarts, Elsewhere, KeepsRow, KeepsServer, KeepsNet,
      MachineInv, IsFunction
<1> QED
  BY <1>3, <1>4

LEMMA AllMove ==
  ASSUME LoopInv, MachineInv, Undisturbed, Med!Next
  PROVE  /\ id' = id /\ solving' = NoHost /\ deployAge' = Med!None
         /\ IsFunction(hostConfirmed)' /\ IsFunction(up)' /\ IsFunction(row)'
         /\ IsFunction(mem)' /\ IsFunction(seen)' /\ IsFunction(lost)'
         /\ restarts' \in Nat
         /\ \A h \in Server : HostMoves(h)
<1>1. ~Med!Deploy
  BY DEF Med!Deploy, LoopInv, DeployedInv
<1>2. CASE Med!Pass
  <2>1. \A h \in Server : Ages(h)
    <3>1. \A h \in Server : Passes(h)
      BY <1>2 DEF Med!Pass, Passes, LoopInv, TimerInv
    <3>2. \A h \in Server : Silent(h)
      BY <1>2 DEF Med!Pass, Undisturbed, Silent
    <3>3. /\ UNCHANGED <<up, down, row, mem, lost, keyConfirmed, hostConfirmed>>
          /\ seen' = [h \in Server |-> Med!Older(seen[h], RegTimeout)]
      BY <1>2 DEF Med!Pass, Med!net, Med!config
    <3> QED
      BY <3>1, <3>2, <3>3 DEF Ages, KeepsNet, KeepsRow, Confirms
  <2>2. /\ UNCHANGED <<id, solving, hostConfirmed, up, row, mem, lost, restarts>>
        /\ deployAge' = Med!None /\ IsFunction(seen)'
    BY <1>2 DEF Med!Pass, Med!net, Med!config, MachineInv, IsFunction
  <2> QED
    BY <2>1, <2>2 DEF HostMoves, MachineInv, IsFunction
<1>3. ASSUME NEW g \in Server, Med!TimerTick(g)
      PROVE  /\ id' = id /\ solving' = NoHost /\ deployAge' = Med!None
             /\ IsFunction(hostConfirmed)' /\ IsFunction(up)' /\ IsFunction(row)'
             /\ IsFunction(mem)' /\ IsFunction(seen)' /\ IsFunction(lost)'
             /\ restarts' \in Nat
             /\ \A h \in Server : HostMoves(h)
  BY <1>3, TicksMove DEF HostMoves, MachineInv, IsFunction, Med!TimerTick, Med!server
<1>4. ASSUME NEW g \in Server, Med!Recv(g)
      PROVE  /\ id' = id /\ solving' = NoHost /\ deployAge' = Med!None
             /\ IsFunction(hostConfirmed)' /\ IsFunction(up)' /\ IsFunction(row)'
             /\ IsFunction(mem)' /\ IsFunction(seen)' /\ IsFunction(lost)'
             /\ restarts' \in Nat
             /\ \A h \in Server : HostMoves(h)
  <2>1. UNCHANGED restarts
    BY <1>4 DEF Med!Recv, Med!RecvPeerResponse, Med!RecvOk, Med!RecvNotDeployed, Med!RecvOther,
      Med!RecvMismatch, Med!server
  <2> QED
    BY <1>4, <2>1, AnswersMove DEF HostMoves, MachineInv, IsFunction
<1>5. ASSUME NEW g \in Server,
             Med!ServePeer(g) \/ Med!ServePk(g) \/ Med!RefusePk(g) \/ Med!LimitPk(g)
      PROVE  /\ id' = id /\ solving' = NoHost /\ deployAge' = Med!None
             /\ IsFunction(hostConfirmed)' /\ IsFunction(up)' /\ IsFunction(row)'
             /\ IsFunction(mem)' /\ IsFunction(seen)' /\ IsFunction(lost)'
             /\ restarts' \in Nat
             /\ \A h \in Server : HostMoves(h)
  <2>1. UNCHANGED restarts
    BY <1>5 DEF Med!ServePeer, Med!ServePk, Med!Accept, Med!RefusePk, Med!LimitPk, Med!Reply
  <2> QED
    BY <1>5, <2>1, ServersMove DEF HostMoves, MachineInv, IsFunction
<1>6. ASSUME NEW g \in Server, Med!Lose(g) \/ Med!Restart(g)
      PROVE  /\ id' = id /\ solving' = NoHost /\ deployAge' = Med!None
             /\ IsFunction(hostConfirmed)' /\ IsFunction(up)' /\ IsFunction(row)'
             /\ IsFunction(mem)' /\ IsFunction(seen)' /\ IsFunction(lost)'
             /\ restarts' \in Nat
             /\ \A h \in Server : HostMoves(h)
  <2>1. restarts' \in Nat
    BY <1>6 DEF Med!Lose, Med!Restart, Med!server, MachineInv
  <2> QED
    BY <1>6, <2>1, FaultsMove DEF HostMoves, MachineInv
<1> QED
  BY <1>1, <1>2, <1>3, <1>4, <1>5, <1>6 DEF Med!Next

LEMMA MachineKept ==
  ASSUME Med!TimeAssumption, LoopInv, MachineInv, Undisturbed, Med!Next
  PROVE  MachineInv'
<1>1. ASSUME NEW h \in Server
      PROVE  /\ up'[h] \subseteq {Med!Peer(id'), Med!PkOf(id')} /\ down'[h] \subseteq Replies
             /\ seen'[h] \in 0..RegTimeout /\ lost'[h] \in 0..MaxLoss
  <2>1. HostMoves(h) /\ id' = id
    BY AllMove
  <2>2. /\ up[h] \subseteq {Med!Peer(id), Med!PkOf(id)} /\ down[h] \subseteq Replies
        /\ seen[h] \in 0..RegTimeout /\ lost[h] \in 0..MaxLoss
    BY DEF MachineInv
  <2>3. up'[h] \subseteq {Med!Peer(id), Med!PkOf(id)}
    BY <2>1, <2>2 DEF HostMoves, Elsewhere, Ticks, TakesAnswer, Serves, Loses, Restarts, Ages,
      KeepsNet
  <2>4. down'[h] \subseteq Replies
    BY <2>1, <2>2 DEF HostMoves, Elsewhere, Ticks, TakesAnswer, Serves, Loses, Restarts, Ages,
      KeepsNet, Replies
  <2>5. RegTimeout \in Nat /\ MaxLoss \in Nat
    BY MediatorConstants
  <2>6. seen'[h] \in 0..RegTimeout /\ lost'[h] \in 0..MaxLoss
    <3>1. /\ seen'[h] \in {seen[h], 0, RegTimeout, Med!Older(seen[h], RegTimeout)}
          /\ lost'[h] \in {lost[h], 0, Med!Older(lost[h], MaxLoss)}
      BY <2>1 DEF HostMoves, Elsewhere, Ticks, TakesAnswer, Serves, Loses, Restarts, Ages,
        KeepsServer
    <3>2. /\ Med!Older(seen[h], RegTimeout) \in 0..RegTimeout
          /\ Med!Older(lost[h], MaxLoss) \in 0..MaxLoss
      BY <2>2, <2>5 DEF Med!Older
    <3> QED
      BY <2>2, <2>5, <3>1, <3>2
  <2> QED
    BY <2>1, <2>3, <2>4, <2>6
<1> QED
  BY <1>1, AllMove DEF MachineInv, Replies

-----------------------------------------------------------------------------
(* A host stays online.                                                    *)

\* A server and the machine have at most one datagram between them, sent in this second.
TokenInv(h) ==
  /\ due[h] => Silent(h)
  /\ up[h] = {} \/ down[h] = {}
  /\ \A m, n \in up[h] : m = n
  /\ \A m, n \in down[h] : m = n
  /\ Heartbeat(h) => sent[h] = 0 /\ Confirmed(h)

\* What the server knows of a machine it has answered.
KnownInv(h) ==
  /\ mem[h] \subseteq row[h]
  /\ Med!Online(h) => id \in mem[h]
  /\ Few(h) => id \in row[h] /\ Confirmed(h)
  /\ Med!PeerResponse(FALSE) \in down[h] =>
       id \in row[h] /\ (Med!Online(h) => seen[h] = 0)
  /\ Calm(h) => Med!PkOf(id) \notin up[h] /\ down[h] \subseteq {Med!PeerResponse(FALSE)}

\* The retry timeout grows by one step for a loss.
StepsInv(h) ==
  Few(h) =>
    /\ sent[h] = Med!None => regTimeout[h] = MinRegTimeout
    /\ sent[h] # Med!None /\ Silent(h) =>
         lost[h] >= 1 /\ regTimeout[h] <= lost[h] * MinRegTimeout
    /\ ~Silent(h) => regTimeout[h] <= (lost[h] + 1) * MinRegTimeout

\* How long the server has not heard of the machine.
HeardInv(h) ==
  Calm(h) =>
    /\ sent[h] = Med!None => seen[h] <= resp[h]
    /\ sent[h] # Med!None /\ Silent(h) =>
         2 * seen[h] <= 2 * RegInterval + MinRegTimeout * ((lost[h] - 1) * lost[h])
                        + 2 * lost[h] + 2 * sent[h]
    /\ ~Silent(h) =>
         2 * seen[h] <= 2 * RegInterval + MinRegTimeout * (lost[h] * (lost[h] + 1))
                        + 2 * lost[h] + 2

OnlineInv(h) == TokenInv(h) /\ KnownInv(h) /\ StepsInv(h) /\ HeardInv(h)

LEMMA TokenKept ==
  ASSUME LoopInv, MachineInv, NEW h \in Server, TokenInv(h), HostMoves(h), id' = id
  PROVE  TokenInv(h)'
<1>0. /\ up[h] \subseteq {Med!Peer(id), Med!PkOf(id)} /\ down[h] \subseteq Replies
      /\ due[h] \in BOOLEAN
  BY DEF LoopInv, TimerInv, MachineInv
<1>1. CASE Elsewhere(h)
  BY <1>1 DEF Elsewhere, Kept, KeepsNet, Confirms, TokenInv, Silent, Heartbeat, Confirmed
<1>2. CASE Ticks(h)
  <2>1. due[h] /\ ~due'[h] /\ up[h] = {} /\ down[h] = {} /\ down'[h] = {}
    BY <1>2 DEF Ticks, Waits, Sends, TokenInv, Silent
  <2>2. CASE Waits(h) /\ up'[h] = up[h]
    BY <2>1, <2>2 DEF TokenInv, Heartbeat
  <2>3. CASE Sends(h) /\ Confirmed(h) /\ up'[h] = up[h] \cup {Med!Peer(id)}
    BY <1>2, <2>1, <2>3 DEF Sends, SendsFor, Ticks, Confirms, TokenInv, Heartbeat, Confirmed
  <2>4. CASE Sends(h) /\ up'[h] = up[h] \cup {Med!PkOf(id)}
    BY <2>1, <2>4, Messages DEF TokenInv, Heartbeat
  <2> QED
    BY <1>2, <2>2, <2>3, <2>4 DEF Ticks
<1>3. CASE TakesAnswer(h)
  <2>1. up[h] = {} /\ \E m \in down[h] : down'[h] = down[h] \ {m}
    BY <1>3 DEF TakesAnswer, TokenInv
  <2>2. down'[h] = {} /\ up'[h] \subseteq {Med!PkOf(id)} /\ ~due[h] /\ ~due'[h]
    BY <1>3, <2>1 DEF TakesAnswer, TokenInv, Answered, Silent
  <2>3. ~Heartbeat(h)'
    BY <2>2, Messages DEF Heartbeat
  <2> QED
    BY <2>2, <2>3 DEF TokenInv
<1>4. CASE Serves(h)
  <2>1. down[h] = {} /\ up'[h] = {} /\ ~due[h] /\ ~due'[h] /\ sent'[h] = sent[h]
    BY <1>4 DEF Serves, TokenInv, Kept, Silent
  <2>2. PICK r : down'[h] = {r}
    BY <1>4, <2>1 DEF Serves
  <2>3. Heartbeat(h)' => Med!Peer(id) \in up[h]
    <3>1. CASE Med!Peer(id) \in up[h]
      BY <3>1
    <3>2. CASE Med!Peer(id) \notin up[h]
      <4>1. PICK s : down'[h] = down[h] \cup {Med!PkResponse(s)}
        BY <1>4, <3>2 DEF Serves
      <4> QED
        BY <2>1, <4>1, Messages DEF Heartbeat
    <3> QED
      BY <3>1, <3>2
  <2>4. Heartbeat(h)' => sent'[h] = 0 /\ Confirmed(h)'
    BY <1>4, <2>1, <2>3 DEF Serves, Heartbeat, TokenInv, Confirms, Confirmed
  <2> QED
    BY <2>1, <2>2, <2>4 DEF TokenInv
<1>5. CASE Loses(h)
  <2>1. /\ up'[h] \subseteq up[h] /\ down'[h] \subseteq down[h]
        /\ due'[h] = due[h] /\ sent'[h] = sent[h]
    BY <1>5 DEF Loses, Kept
  <2>2. Confirmed(h) => Confirmed(h)'
    BY <1>5 DEF Loses, Confirms, Confirmed
  <2> QED
    BY <2>1, <2>2 DEF TokenInv, Silent, Heartbeat
<1>6. CASE Restarts(h)
  BY <1>6 DEF Restarts, Kept, KeepsNet, Confirms, TokenInv, Silent, Heartbeat, Confirmed
<1>7. CASE Ages(h)
  BY <1>7 DEF Ages, KeepsNet, TokenInv, Silent, Heartbeat
<1> QED
  BY <1>1, <1>2, <1>3, <1>4, <1>5, <1>6, <1>7 DEF HostMoves

\* A server that is heard by is a server that knows the machine.
LEMMA KnownKept ==
  ASSUME Med!TimeAssumption, Patient, LoopInv, MachineInv, NEW h \in Server, TokenInv(h),
         KnownInv(h), HostMoves(h), id' = id, lost'[h] \in 0..MaxLoss
  PROVE  KnownInv(h)'
<1>0. /\ up[h] \subseteq {Med!Peer(id), Med!PkOf(id)} /\ down[h] \subseteq Replies
      /\ seen[h] \in 0..RegTimeout /\ lost[h] \in 0..MaxLoss
      /\ RegTimeout \in Nat /\ RegTimeout >= 1 /\ MaxLoss \in Nat /\ Tolerance \in Nat
      /\ Tolerance < MaxLoss
  BY MediatorConstants DEF MachineInv, Patient
<1>1. CASE Elsewhere(h)
  BY <1>1 DEF Elsewhere, KeepsNet, KeepsServer, KeepsRow, Confirms, KnownInv, Med!Online, Few,
    Calm, Confirmed
<1>2. CASE Ticks(h)
  <2>1. /\ KeepsServer(h) /\ Confirms(h) /\ down'[h] = down[h] /\ due[h] = TRUE
        /\ \/ up'[h] = up[h]
           \/ Confirmed(h) /\ up'[h] = up[h] \cup {Med!Peer(id)}
           \/ ~Confirmed(h)
    BY <1>2 DEF Ticks, Waits, Sends
  <2>2. up[h] = {} /\ down[h] = {}
    BY <2>1 DEF TokenInv, Silent
  <2>3. Calm(h)' => Med!PkOf(id) \notin up'[h]
    BY <2>1, <2>2, Messages DEF KnownInv, KeepsServer, Calm, Few, Med!Online
  <2> QED
    BY <2>1, <2>2, <2>3 DEF KnownInv, KeepsServer, KeepsRow, Confirms, Confirmed, Calm, Few,
      Med!Online
<1>3. CASE TakesAnswer(h)
  <2>1. /\ KeepsRow(h) /\ seen'[h] = seen[h] /\ Confirms(h)
    BY <1>3 DEF TakesAnswer
  <2>2. up[h] = {} /\ \E m \in down[h] : down'[h] = down[h] \ {m}
    BY <1>3 DEF TakesAnswer, TokenInv
  <2>3. down'[h] = {}
    BY <2>2 DEF TokenInv
  <2>4. CASE Med!PeerResponse(FALSE) \in down[h]
    <3>1. down[h] = {Med!PeerResponse(FALSE)} /\ id \in row[h] /\ Confirmed(h)
      BY <2>4 DEF TokenInv, KnownInv, Heartbeat
    <3>2. up'[h] = {}
      BY <1>3, <2>2, <3>1, Messages DEF TakesAnswer
    <3> QED
      BY <2>1, <2>3, <3>1, <3>2 DEF KnownInv, KeepsRow, Confirms, Confirmed, Calm, Few, Med!Online
  <2>5. CASE Med!PeerResponse(FALSE) \notin down[h]
    <3>1. lost'[h] = lost[h] /\ down[h] # {}
      BY <1>3, <2>5 DEF TakesAnswer
    <3>2. ~Calm(h) /\ ~Calm(h)'
      BY <2>1, <2>5, <3>1 DEF KnownInv, Calm, Few, Med!Online
    <3> QED
      BY <2>1, <2>3, <3>1, <3>2 DEF KnownInv, KeepsRow, Confirms, Confirmed, Few, Med!Online
  <2> QED
    BY <2>4, <2>5
<1>4. CASE Serves(h)
  <2>1. down[h] = {} /\ up'[h] = {} /\ lost'[h] = lost[h] /\ Confirms(h)
    BY <1>4 DEF Serves, TokenInv
  <2>2. CASE /\ Med!Peer(id) \in up[h] /\ KeepsRow(h) /\ id \in mem[h] /\ seen'[h] = 0
             /\ down'[h] = {Med!PeerResponse(FALSE)}
    <3>1. id \in row[h]
      BY <2>2 DEF KnownInv
    <3> QED
      BY <2>1, <2>2, <3>1 DEF KnownInv, KeepsRow, Confirms, Confirmed, Calm, Few, Med!Online
  <2>3. CASE /\ Med!Peer(id) \in up[h] /\ KeepsRow(h) /\ id \notin mem[h] /\ seen'[h] = seen[h]
             /\ down'[h] = {Med!PeerResponse(TRUE)}
    BY <2>1, <2>3, Messages DEF KnownInv, KeepsRow, Confirms, Confirmed, Calm, Few, Med!Online
  <2>4. CASE /\ Med!PkOf(id) \in up[h]
             /\ row'[h] = row[h] \cup {id} /\ mem'[h] = mem[h] \cup {id}
             /\ seen'[h] = (IF id \notin row[h] THEN 0 ELSE seen[h])
             /\ down'[h] = {Med!PkResponse("OK")}
    <3>1. ~Calm(h) /\ ~Calm(h)'
      BY <2>1, <2>4 DEF KnownInv, Calm, Few, Med!Online
    <3>2. Med!PeerResponse(FALSE) \notin down'[h]
      BY <2>4, Messages
    <3> QED
      BY <2>1, <2>4, <3>1, <3>2 DEF KnownInv, Confirms, Confirmed, Few
  <2>5. CASE /\ Med!PkOf(id) \in up[h] /\ KeepsRow(h)
             /\ seen'[h] = seen[h] /\ down'[h] = {Med!PkResponse("TOO_FREQUENT")}
    <3>1. ~Calm(h) /\ ~Calm(h)'
      BY <2>1, <2>5 DEF KnownInv, Calm, Few, Med!Online
    <3>2. Med!PeerResponse(FALSE) \notin down'[h]
      BY <2>5, Messages
    <3> QED
      BY <2>1, <2>5, <3>1, <3>2 DEF KnownInv, KeepsRow, Confirms, Confirmed, Few, Med!Online
  <2> QED
    BY <1>4, <2>1, <2>2, <2>3, <2>4, <2>5 DEF Serves
<1>5. CASE Loses(h)
  <2>1. /\ up'[h] \subseteq up[h] /\ down'[h] \subseteq down[h] /\ KeepsRow(h)
        /\ seen'[h] = seen[h] /\ Confirms(h) /\ lost'[h] = Med!Older(lost[h], MaxLoss)
    BY <1>5 DEF Loses
  <2>2. lost'[h] >= lost[h]
    BY <1>0, <2>1 DEF Med!Older
  <2>3. (Few(h)' => Few(h)) /\ (Calm(h)' => Calm(h)) /\ (Med!Online(h)' => Med!Online(h))
    BY <1>0, <2>1, <2>2 DEF Calm, Few, Med!Online
  <2> QED
    BY <2>1, <2>3 DEF KnownInv, KeepsRow, Confirms, Confirmed
<1>6. CASE Restarts(h)
  <2>1. ~Med!Online(h)' /\ ~Calm(h)'
    BY <1>0, <1>6 DEF Restarts, Calm, Med!Online
  <2> QED
    BY <1>6, <2>1 DEF Restarts, KeepsNet, Confirms, KnownInv, Confirmed, Few
<1>7. CASE Ages(h)
  <2>1. /\ up'[h] = {} /\ down'[h] = {} /\ KeepsRow(h) /\ lost'[h] = lost[h] /\ Confirms(h)
        /\ (Med!Online(h)' => Med!Online(h))
    BY <1>0, <1>7 DEF Ages, KeepsNet, Silent, Med!Online, Med!Older
  <2> QED
    BY <2>1 DEF KnownInv, KeepsRow, Confirms, Confirmed, Calm, Few
<1> QED
  BY <1>1, <1>2, <1>3, <1>4, <1>5, <1>6, <1>7 DEF HostMoves

\* What is sent, lost, served and answered as the clocks see it.
LEMMA ClocksSee ==
  ASSUME Med!TimeAssumption, Patient, LoopInv, MachineInv, NEW h \in Server, TokenInv(h),
         HostMoves(h)
  PROVE  /\ lost[h] \in Nat /\ sent[h] \in Int /\ seen[h] \in Nat /\ resp[h] \in Nat
         /\ resp[h] <= RegInterval + 1
         /\ regTimeout[h] \in Nat /\ (sent[h] # Med!None => sent[h] >= 0)
         /\ \/ /\ Elsewhere(h)
            \/ /\ Waits(h) /\ KeepsNet(h) /\ KeepsServer(h)
            \/ /\ Sends(h) /\ KeepsServer(h) /\ Silent(h) /\ ~Silent(h)'
            \/ /\ TakesAnswer(h) /\ ~Silent(h)
            \/ /\ Serves(h) /\ ~Silent(h) /\ ~Silent(h)'
            \/ /\ Loses(h) /\ ~Silent(h) /\ Silent(h)'
               /\ lost[h] <= Tolerance => lost'[h] = lost[h] + 1
            \/ /\ Restarts(h)
            \/ /\ Ages(h) /\ Silent(h)'
<1>1. TimerInv(h) /\ seen[h] \in 0..RegTimeout /\ lost[h] \in 0..MaxLoss
  BY DEF LoopInv, MachineInv
<1>2. /\ RegInterval \in Nat /\ RegTimeout \in Nat /\ MaxLoss \in Nat /\ Tolerance \in Nat
      /\ MaxRegTimeout \in Nat
  BY MediatorConstants
<1>3. /\ lost[h] \in Nat /\ sent[h] \in Int /\ seen[h] \in Nat /\ resp[h] \in Nat
      /\ resp[h] <= RegInterval + 1
      /\ regTimeout[h] \in Nat /\ (sent[h] # Med!None => sent[h] >= 0)
  BY <1>1, <1>2 DEF TimerInv, Med!None
<1>4. CASE Ticks(h)
  BY <1>3, <1>4 DEF Ticks, Waits, Sends, TokenInv, Silent, KeepsNet
<1>5. CASE TakesAnswer(h)
  BY <1>3, <1>5 DEF TakesAnswer, Silent
<1>6. CASE Serves(h)
  BY <1>3, <1>6 DEF Serves, Silent
<1>7. CASE Loses(h)
  <2>1. ~Silent(h) /\ Silent(h)'
    BY <1>7 DEF Loses, Silent, TokenInv
  <2>2. lost[h] <= Tolerance => lost'[h] = lost[h] + 1
    BY <1>1, <1>2, <1>7 DEF Loses, Med!Older, Patient
  <2> QED
    BY <1>3, <1>7, <2>1, <2>2
<1>8. CASE Ages(h)
  BY <1>3, <1>8 DEF Ages, KeepsNet, Silent
<1> QED
  BY <1>3, <1>4, <1>5, <1>6, <1>7, <1>8 DEF HostMoves

LEMMA Products ==
  ASSUME NEW a \in Nat, NEW m \in Nat
  PROVE  /\ (a + 1) * m = a * m + m /\ a * m \in Nat /\ 1 * m = m /\ m <= (a + 1) * m
         /\ m * ((a + 1) * a) = m * (a * (a + 1))
         /\ a * m + m * ((a - 1) * a) + a * m = m * (a * (a + 1))
         /\ m * (a * (a + 1)) \in Nat
OBVIOUS

LEMMA StepsKept ==
  ASSUME Med!TimeAssumption, Patient, LoopInv, MachineInv, NEW h \in Server, TokenInv(h),
         StepsInv(h), HostMoves(h)
  PROVE  StepsInv(h)'
<1>0. /\ MinRegTimeout \in Nat /\ MaxRegTimeout \in Nat /\ Tolerance \in Nat
      /\ lost[h] \in Nat /\ sent[h] \in Int /\ regTimeout[h] \in Nat
      /\ (lost[h] + 1) * MinRegTimeout = lost[h] * MinRegTimeout + MinRegTimeout
      /\ MinRegTimeout <= (lost[h] + 1) * MinRegTimeout /\ lost[h] * MinRegTimeout \in Nat
      /\ (sent[h] # Med!None => sent[h] >= 0)
  BY ClocksSee, MediatorConstants, Products
<1>1. CASE Elsewhere(h)
  BY <1>1 DEF Elsewhere, Kept, KeepsServer, KeepsNet, StepsInv, Few, Silent
<1>2. CASE Waits(h) /\ KeepsNet(h) /\ KeepsServer(h)
  BY <1>2 DEF Waits, KeepsServer, KeepsNet, StepsInv, Few, Silent
<1>3. CASE Sends(h) /\ KeepsServer(h) /\ Silent(h) /\ ~Silent(h)'
  <2> SUFFICES ASSUME Few(h) PROVE regTimeout'[h] <= (lost[h] + 1) * MinRegTimeout
    BY <1>3 DEF StepsInv, Few, Sends, SendsFor, KeepsServer, Med!None
  <2>1. PICK late \in Med!Timeouts(h) : SendsFor(h, late)
    BY <1>3 DEF Sends
  <2>2. \/ regTimeout[h] <= lost[h] * MinRegTimeout
        \/ regTimeout[h] = MinRegTimeout /\ ~late
    BY <1>3, <2>1, TestsAreTimed DEF StepsInv, LoopInv
  <2>3. regTimeout'[h] = (IF Public /\ late /\ regTimeout[h] < MaxRegTimeout
                         THEN regTimeout[h] + MinRegTimeout ELSE regTimeout[h])
    BY <2>1 DEF SendsFor
  <2> QED
    BY <1>0, <2>2, <2>3
<1>4. CASE TakesAnswer(h)
  <2>1. /\ sent'[h] = Med!None /\ regTimeout'[h] = MinRegTimeout
        /\ lost'[h] \in {lost[h], 0}
    BY <1>4 DEF TakesAnswer, Answered
  <2>2. MinRegTimeout <= (lost'[h] + 1) * MinRegTimeout
    BY <1>0, <2>1, Products
  <2> QED
    BY <2>1, <2>2 DEF StepsInv
<1>5. CASE Serves(h) /\ ~Silent(h) /\ ~Silent(h)'
  BY <1>5 DEF Serves, Kept, StepsInv, Few
<1>6. CASE /\ Loses(h) /\ ~Silent(h) /\ Silent(h)'
           /\ lost[h] <= Tolerance => lost'[h] = lost[h] + 1
  <2> SUFFICES ASSUME Few(h)'
               PROVE  /\ sent[h] = Med!None => regTimeout[h] = MinRegTimeout
                      /\ lost'[h] >= 1 /\ regTimeout[h] <= lost'[h] * MinRegTimeout
    BY <1>6 DEF StepsInv, Loses, Kept
  <2>1. Few(h) /\ lost'[h] = lost[h] + 1
    BY <1>0, <1>6 DEF Few, Loses, Med!Older
  <2> QED
    BY <1>0, <1>6, <2>1 DEF StepsInv
<1>7. CASE Restarts(h)
  BY <1>7 DEF Restarts, Kept, KeepsNet, StepsInv, Few, Silent
<1>8. CASE Ages(h) /\ Silent(h)'
  <2>1. /\ Silent(h) /\ lost'[h] = lost[h] /\ regTimeout'[h] = regTimeout[h]
        /\ (sent'[h] = Med!None => sent[h] = Med!None)
        /\ (sent[h] = Med!None => sent'[h] = Med!None)
    BY <1>0, <1>8 DEF Ages, Passes, Med!Older, Med!None
  <2> QED
    BY <1>8, <2>1 DEF StepsInv, Few
<1> QED
  BY <1>1, <1>2, <1>3, <1>4, <1>5, <1>6, <1>7, <1>8, ClocksSee

\* A second passes: the server has not heard of the machine for a second more.
LEMMA HeardInTime ==
  ASSUME Med!TimeAssumption, Patient, LoopInv, MachineInv, NEW h \in Server, TokenInv(h),
         StepsInv(h), HeardInv(h), Calm(h), Ages(h)
  PROVE  HeardInv(h)' /\ Med!Online(h)'
<1>0. /\ MinRegTimeout \in Nat /\ RegInterval \in Nat /\ RegTimeout \in Nat /\ Tolerance \in Nat
      /\ lost[h] \in Nat /\ sent[h] \in Int /\ regTimeout[h] \in Nat /\ resp[h] \in Nat
      /\ resp[h] <= RegInterval + 1 /\ seen[h] \in Nat /\ lost[h] <= Tolerance
      /\ MinRegTimeout >= 1 /\ RegInterval >= 1 /\ MaxRegTimeout \in Nat
  BY ClocksSee, MediatorConstants DEF Calm, Few, HostMoves
<1>1. /\ Silent(h) /\ Silent(h)' /\ lost'[h] = lost[h] /\ seen'[h] = Med!Older(seen[h], RegTimeout)
      /\ ~due[h]
      /\ sent'[h] = (IF sent[h] = Med!None THEN Med!None
                     ELSE Med!Older(sent[h], MaxRegTimeout + 1))
      /\ resp'[h] = Med!Older(resp[h], RegInterval + 1)
  BY DEF Ages, Passes, KeepsNet, Silent
<1>2. seen[h] < RegTimeout /\ seen'[h] = seen[h] + 1
  BY <1>0, <1>1 DEF Calm, Med!Online, Med!Older
<1>3. CASE sent[h] = Med!None
  <2>1. resp[h] <= RegInterval /\ resp'[h] = resp[h] + 1 /\ seen[h] <= resp[h]
    BY <1>0, <1>1, <1>3 DEF LoopInv, TimerInv, Med!Older, HeardInv
  <2>2. RegInterval + 1 < RegTimeout
    <3>1. MinRegTimeout * (Tolerance * (Tolerance + 1)) \in Nat
      BY <1>0, Products
    <3> QED
      BY <1>0, <3>1 DEF Patient
  <2> QED
    BY <1>0, <1>1, <1>2, <1>3, <2>1, <2>2 DEF HeardInv, Med!Online
<1>4. CASE sent[h] # Med!None
  <2>1. /\ sent[h] <= regTimeout[h] /\ regTimeout[h] <= MaxRegTimeout /\ sent[h] >= 0
    BY <1>0, <1>1, <1>4, ClocksSee DEF LoopInv, TimerInv, HostMoves
  <2>2. sent'[h] = sent[h] + 1 /\ sent'[h] # Med!None
    BY <1>0, <1>1, <1>4, <2>1 DEF Med!Older, Med!None
  <2>3. /\ lost[h] >= 1 /\ regTimeout[h] <= lost[h] * MinRegTimeout
        /\ 2 * seen[h] <= 2 * RegInterval + MinRegTimeout * ((lost[h] - 1) * lost[h])
                          + 2 * lost[h] + 2 * sent[h]
    BY <1>1, <1>4 DEF StepsInv, HeardInv, Calm
  <2> DEFINE before == MinRegTimeout * ((lost[h] - 1) * lost[h])
             after == MinRegTimeout * (lost[h] * (lost[h] + 1))
             step == lost[h] * MinRegTimeout
  <2>4. before \in Int /\ after \in Nat /\ step \in Nat /\ step + before + step = after
    BY <1>0, Products
  <2>5. after <= MinRegTimeout * (Tolerance * (Tolerance + 1))
    <3>1. lost[h] * (lost[h] + 1) <= Tolerance * (Tolerance + 1)
      BY <1>0
    <3> QED
      BY <1>0, <3>1
  <2>6. 2 * seen'[h] <= 2 * RegInterval + before + 2 * lost[h] + 2 * sent'[h]
    BY <1>0, <1>2, <2>2, <2>3, <2>4
  <2>7. sent'[h] <= step + 1
    BY <1>0, <2>1, <2>2, <2>3, <2>4
  <2>8. 2 * seen'[h] < 2 * RegTimeout
    <3> HIDE DEF before, after, step
    <3>1. 2 * seen'[h] <= 2 * RegInterval + after + 2 * lost[h] + 2
      BY <1>0, <1>2, <2>2, <2>4, <2>6, <2>7
    <3>2. 2 * RegInterval + after + 2 * lost[h] + 2 < 2 * RegTimeout
      <4>1. MinRegTimeout * (Tolerance * (Tolerance + 1)) \in Nat
        BY <1>0, Products
      <4> QED
        BY <1>0, <2>4, <2>5, <4>1 DEF Patient
    <3> QED
      BY <1>0, <1>2, <2>4, <3>1, <3>2
  <2>9. seen'[h] < RegTimeout
    BY <1>0, <1>2, <2>8
  <2> QED
    BY <1>1, <2>2, <2>6, <2>9 DEF HeardInv, Med!Online
<1> QED
  BY <1>3, <1>4

LEMMA HeardKept ==
  ASSUME Med!TimeAssumption, Patient, LoopInv, MachineInv, NEW h \in Server, OnlineInv(h),
         HostMoves(h)
  PROVE  HeardInv(h)'
<1> DEFINE before == MinRegTimeout * ((lost[h] - 1) * lost[h])
           after == MinRegTimeout * (lost[h] * (lost[h] + 1))
           step == lost[h] * MinRegTimeout
<1>0. /\ MinRegTimeout \in Nat /\ RegInterval \in Nat /\ RegTimeout \in Nat
      /\ lost[h] \in Nat /\ sent[h] \in Int /\ regTimeout[h] \in Nat /\ resp[h] \in Nat
      /\ resp[h] <= RegInterval + 1 /\ seen[h] \in Nat /\ Tolerance \in Nat
      /\ (sent[h] # Med!None => sent[h] >= 0) /\ MaxLoss \in Nat
  BY ClocksSee, MediatorConstants DEF OnlineInv
<1>1. before \in Int /\ after \in Nat /\ step \in Nat /\ step + before + step = after
  BY <1>0, Products
<1>2. CASE Elsewhere(h)
  BY <1>2 DEF Elsewhere, Kept, KeepsServer, KeepsNet, OnlineInv, HeardInv, Calm, Few, Silent,
    Med!Online
<1>3. CASE Waits(h) /\ KeepsNet(h) /\ KeepsServer(h)
  BY <1>3 DEF Waits, KeepsServer, KeepsNet, OnlineInv, HeardInv, Calm, Few, Silent, Med!Online
<1>4. CASE Sends(h) /\ KeepsServer(h) /\ Silent(h) /\ ~Silent(h)'
  <2>1. /\ sent'[h] # Med!None /\ lost'[h] = lost[h] /\ seen'[h] = seen[h]
        /\ (Calm(h)' => Calm(h))
    BY <1>4 DEF Sends, SendsFor, KeepsServer, Calm, Few, Med!Online, Med!None
  <2> SUFFICES ASSUME Calm(h)
               PROVE  2 * seen[h] <= 2 * RegInterval + after + 2 * lost[h] + 2
    BY <1>4, <2>1 DEF HeardInv
  <2>2. CASE sent[h] = Med!None
    <3>1. seen[h] <= resp[h]
      BY <2>2 DEF OnlineInv, HeardInv
    <3> HIDE DEF after
    <3> QED
      BY <1>0, <1>1, <3>1
  <2>3. CASE sent[h] # Med!None
    <3>1. sent[h] <= regTimeout[h] + 1 /\ regTimeout[h] <= step
      BY <1>4, <2>3 DEF OnlineInv, LoopInv, TimerInv, StepsInv, Calm
    <3>2. 2 * seen[h] <= 2 * RegInterval + before + 2 * lost[h] + 2 * sent[h]
      BY <1>4, <2>3 DEF OnlineInv, HeardInv
    <3> HIDE DEF before, after, step
    <3> QED
      BY <1>0, <1>1, <3>1, <3>2
  <2> QED
    BY <2>2, <2>3
<1>5. CASE TakesAnswer(h)
  <2>1. /\ seen'[h] = seen[h] /\ sent'[h] = Med!None /\ resp'[h] = 0
        /\ up[h] = {} /\ \E m \in down[h] : down'[h] = down[h] \ {m}
    BY <1>5 DEF TakesAnswer, Answered, OnlineInv, TokenInv
  <2>2. CASE Med!PeerResponse(FALSE) \in down[h]
    <3>1. down[h] = {Med!PeerResponse(FALSE)} /\ (Med!Online(h) => seen[h] = 0)
      BY <2>2 DEF OnlineInv, TokenInv, KnownInv
    <3>2. up'[h] = {} /\ down'[h] = {}
      BY <1>5, <2>1, <3>1, Messages DEF TakesAnswer
    <3>3. Calm(h)' => seen'[h] = 0
      BY <2>1, <3>1 DEF Calm, Med!Online
    <3>4. Silent(h)'
      BY <3>2 DEF Silent
    <3> QED
      BY <2>1, <3>3, <3>4 DEF HeardInv
  <2>3. CASE Med!PeerResponse(FALSE) \notin down[h]
    <3>1. lost'[h] = lost[h] /\ down[h] # {}
      BY <1>5, <2>3 DEF TakesAnswer
    <3>2. ~Calm(h)'
      BY <2>1, <2>3, <3>1 DEF OnlineInv, KnownInv, Calm, Few, Med!Online
    <3> QED
      BY <3>2 DEF HeardInv
  <2> QED
    BY <2>2, <2>3
<1>6. CASE Serves(h) /\ ~Silent(h) /\ ~Silent(h)'
  <2>1. /\ sent'[h] = sent[h] /\ resp'[h] = resp[h] /\ lost'[h] = lost[h]
        /\ seen'[h] \in {0, seen[h]}
    BY <1>6 DEF Serves, Kept
  <2>2. CASE seen'[h] = 0
    <3> HIDE DEF before, after, step
    <3>1. 2 * seen'[h] <= 2 * RegInterval + after + 2 * lost[h] + 2 /\ seen'[h] <= resp'[h]
      BY <1>0, <1>1, <2>1, <2>2
    <3> QED
      BY <1>6, <2>1, <3>1 DEF HeardInv, after
  <2>3. CASE seen'[h] = seen[h]
    BY <1>6, <2>1, <2>3 DEF OnlineInv, HeardInv, Calm, Few, Med!Online
  <2> QED
    BY <2>1, <2>2, <2>3
<1>7. CASE /\ Loses(h) /\ ~Silent(h) /\ Silent(h)'
           /\ lost[h] <= Tolerance => lost'[h] = lost[h] + 1
  <2>1. /\ sent'[h] = sent[h] /\ resp'[h] = resp[h] /\ seen'[h] = seen[h]
        /\ lost'[h] = Med!Older(lost[h], MaxLoss)
    BY <1>7 DEF Loses, Kept
  <2> SUFFICES ASSUME Calm(h)' PROVE HeardInv(h)'
    BY DEF HeardInv
  <2>2. Calm(h) /\ lost'[h] = lost[h] + 1
    BY <1>0, <1>7, <2>1 DEF Calm, Few, Med!Online, Med!Older
  <2>3. 2 * seen[h] <= 2 * RegInterval + after + 2 * lost[h] + 2
    BY <1>7, <2>2 DEF OnlineInv, HeardInv
  <2>4. MinRegTimeout * ((lost'[h] - 1) * lost'[h]) = after
    BY <1>0, <2>2
  <2>5. sent[h] # Med!None =>
          2 * seen'[h] <= 2 * RegInterval + MinRegTimeout * ((lost'[h] - 1) * lost'[h])
                          + 2 * lost'[h] + 2 * sent'[h]
    <3> HIDE DEF after
    <3> QED
      BY <1>0, <1>1, <2>1, <2>2, <2>3, <2>4
  <2>6. sent[h] = Med!None => seen[h] <= resp[h]
    BY <2>2 DEF OnlineInv, HeardInv
  <2> QED
    BY <1>7, <2>1, <2>5, <2>6 DEF HeardInv
<1>8. CASE Restarts(h)
  BY <1>0, <1>8 DEF Restarts, HeardInv, Calm, Med!Online
<1>9. CASE Ages(h)
  <2>1. Calm(h)' => Calm(h)
    BY <1>0, <1>9 DEF Ages, Calm, Few, Med!Online, Med!Older
  <2>2. Calm(h) => HeardInv(h)'
    BY <1>9, HeardInTime DEF OnlineInv
  <2> QED
    BY <2>1, <2>2 DEF HeardInv
<1> QED
  BY <1>2, <1>3, <1>4, <1>5, <1>6, <1>7, <1>8, <1>9, ClocksSee DEF OnlineInv

MediatorInv == LoopInv /\ MachineInv /\ \A h \in Server : OnlineInv(h)

LEMMA MediatorInit ==
  ASSUME Med!TimeAssumption, Undisturbed, Patient, Med!Init
  PROVE  MediatorInv
<1>1. LoopInv
  BY LoopInit DEF Undisturbed
<1>2. MachineInv
  BY MediatorConstants DEF Med!Init, MachineInv, IsFunction
<1>3. ASSUME NEW h \in Server PROVE OnlineInv(h)
  <2>1. /\ up[h] = {} /\ down[h] = {} /\ mem[h] = {} /\ row[h] = {}
        /\ seen[h] = RegTimeout /\ lost[h] = MaxLoss
    BY DEF Med!Init
  <2>2. ~Med!Online(h) /\ ~Few(h) /\ ~Calm(h) /\ ~Heartbeat(h)
    BY <2>1, MediatorConstants DEF Med!Online, Few, Calm, Patient, Heartbeat
  <2> QED
    BY <2>1, <2>2 DEF OnlineInv, TokenInv, KnownInv, StepsInv, HeardInv, Silent
<1> QED
  BY <1>1, <1>2, <1>3 DEF MediatorInv

LEMMA MediatorKept ==
  ASSUME Med!TimeAssumption, Undisturbed, Patient, MediatorInv, [Med!Next]_Med!vars
  PROVE  MediatorInv'
<1>1. CASE Med!Next
  <2>1. LoopInv'
    BY LoopKept DEF Undisturbed, MediatorInv
  <2>2. MachineInv'
    BY <1>1, MachineKept DEF MediatorInv
  <2>3. ASSUME NEW h \in Server PROVE OnlineInv(h)'
    <3>1. OnlineInv(h) /\ HostMoves(h) /\ id' = id /\ lost'[h] \in 0..MaxLoss
      BY <1>1, <2>2, AllMove DEF MediatorInv, MachineInv
    <3>2. TokenInv(h)' /\ KnownInv(h)' /\ StepsInv(h)' /\ HeardInv(h)'
      BY <3>1, TokenKept, KnownKept, StepsKept, HeardKept DEF MediatorInv, OnlineInv
    <3> QED
      BY <3>2 DEF OnlineInv
  <2> QED
    BY <2>1, <2>2, <2>3 DEF MediatorInv
<1>2. CASE UNCHANGED Med!vars
  <2>1. LoopInv'
    BY LoopKept DEF Undisturbed, MediatorInv
  <2>2. MachineInv'
    BY <1>2 DEF MediatorInv, MachineInv, IsFunction, Med!vars, Med!config, Med!deploy, Med!net,
      Med!server
  <2>3. \A h \in Server : OnlineInv(h)'
    BY <1>2 DEF MediatorInv, OnlineInv, TokenInv, KnownInv, StepsInv, HeardInv, Silent, Few, Calm,
      Confirmed, Heartbeat, Med!Online, Med!vars, Med!config, Med!loop, Med!net, Med!server
  <2> QED
    BY <2>1, <2>2, <2>3 DEF MediatorInv
<1> QED
  BY <1>1, <1>2

\* StaysOnline: a host whose heartbeat a server confirmed stays online there through
\* Tolerance losses in a row, of requests or of answers: register_peer's retries, also when
\* the timeouts grow by a step after each, come within the server's patience.  For any
\* servers, which may restart, limit requests and lose datagrams, and any timeouts whose sum
\* fits (Patient), as long as no other machine owns an id of this one (Undisturbed).
THEOREM HostsStayOnline ==
  ASSUME Med!TimeAssumption, Undisturbed, Patient
  PROVE  Med!Spec => [][Med!StaysOnline]_Med!vars
<1>1. MediatorInv /\ [Med!Next]_Med!vars => [Med!StaysOnline]_Med!vars
  <2> SUFFICES ASSUME MediatorInv, Med!Next, NEW h \in Server, Med!Online(h),
                      restarts' = restarts, lost[h] <= Tolerance
               PROVE  Med!Online(h)'
    BY DEF Med!StaysOnline
  <2>1. HostMoves(h) /\ OnlineInv(h)
    BY AllMove DEF MediatorInv
  <2>2. CASE Ages(h)
    BY <2>1, <2>2, HeardInTime DEF MediatorInv, OnlineInv, Calm, Few
  <2>3. CASE ~Ages(h)
    <3>1. seen'[h] \in {0, seen[h]}
      BY <2>1, <2>3 DEF HostMoves, Elsewhere, Ticks, TakesAnswer, Serves, Loses, Restarts,
        KeepsServer
    <3> QED
      BY <3>1, MediatorConstants DEF Med!Online
  <2> QED
    BY <2>2, <2>3
<1> QED
  BY MediatorInit, MediatorKept, <1>1, PTL DEF Med!Spec

-----------------------------------------------------------------------------
(* The frame rate for all viewers.                                         *)

\* The least rate is 1 in the code, and no rate that can be chosen is below it.
LowestRate ==
  /\ Qos!QosAssumption
  /\ MIN_FPS <= FPS /\ \A f \in CustomFps : MIN_FPS <= f

RateOf == {n \in Nat : n = 0 \/ n >= MIN_FPS}
Viewer ==
  [custom : RateOf, fps : RateOf, delayed : BOOLEAN, history : Seq(Nat), least : Nat,
   samples : Seq(Nat), smoothed : Nat, quick : Nat, stable : Nat]

QosInv ==
  /\ users \in [DOMAIN users -> Viewer]
  /\ fps \in Nat

LEMMA QosConstants ==
  ASSUME LowestRate
  PROVE  /\ MIN_FPS \in Nat /\ MIN_FPS >= 1 /\ FPS \in Nat /\ INIT_FPS \in Nat /\ INIT_FPS >= 1
         /\ MinFps \in Nat /\ MinFps >= 1 /\ NormalFps \in Nat /\ Threshold \in Nat
         /\ Threshold >= 1 /\ WindowSamples \in Nat /\ WindowSamples >= 1 /\ MinSamples \in Nat
         /\ MIN_FPS <= FPS
BY DEF LowestRate, Qos!QosAssumption

\* A set of natural numbers has a least element.
LEMMA LeastNat ==
  ASSUME NEW S, S \subseteq Nat, S # {}
  PROVE  \E n \in S : \A m \in S : n <= m
<1>1. PICK n \in S : \A m \in S : <<m, n>> \notin OpToRel(<, Nat)
  BY NatLessThanWellFounded, WFMin
<1>2. \A m \in S : ~(m < n)
  BY <1>1 DEF OpToRel
<1> QED
  BY <1>2

LEMMA MinIsLeast ==
  ASSUME NEW S, S \subseteq Nat, S # {}
  PROVE  Qos!Min(S) \in S /\ \A m \in S : Qos!Min(S) <= m
<1>1. \E n \in S : \A m \in S : n <= m
  BY LeastNat
<1> QED
  BY <1>1 DEF Qos!Min

LEMMA NewUserIs == Qos!NewUser \in Viewer
BY DEF Qos!NewUser, Qos!None, Viewer, RateOf

LEMMA PushTyped ==
  ASSUME NEW s \in Seq(Nat), NEW n \in Nat, NEW x \in Nat
  PROVE  Qos!Push(s, n, x) \in Seq(Nat) /\ Len(Qos!Push(s, n, x)) >= 1
<1>1. CASE Len(s) > n
  <2>1. s # <<>> /\ Tail(s) \in Seq(Nat)
    BY <1>1
  <2> QED
    BY <1>1, <2>1 DEF Qos!Push
<1>2. CASE ~(Len(s) > n)
  BY <1>2 DEF Qos!Push
<1> QED
  BY <1>1, <1>2

LEMMA LeastOfTyped ==
  ASSUME NEW s \in Seq(Nat), Len(s) >= 1
  PROVE  Qos!LeastOf(s) \in Nat
<1>1. {s[i] : i \in 1..Len(s)} \subseteq Nat /\ s[1] \in {s[i] : i \in 1..Len(s)}
  OBVIOUS
<1>2. {s[i] : i \in 1..Len(s)} # {}
  BY <1>1
<1>3. Qos!Min({s[i] : i \in 1..Len(s)}) \in {s[i] : i \in 1..Len(s)}
  BY <1>1, <1>2, MinIsLeast
<1> QED
  BY <1>1, <1>3 DEF Qos!LeastOf

LEMMA AddDelayTyped ==
  ASSUME LowestRate, NEW v \in Viewer, NEW d \in Nat
  PROVE  Qos!AddDelay(v, d) \in Viewer /\ Len(Qos!AddDelay(v, d).history) >= 1
<1> DEFINE least == IF v.least = Qos!None THEN d ELSE Qos!Smaller(v.least, d)
           samples == Qos!Push(v.samples, WindowSamples - 1, d)
           smoothed == IF Len(samples) < WindowSamples THEN v.smoothed
                       ELSE (least + Qos!LeastOf(samples)) \div 2
           history == Qos!Push(v.history, 2, d)
<1>1. /\ v.least \in Nat /\ v.samples \in Seq(Nat) /\ v.smoothed \in Nat
      /\ v.history \in Seq(Nat) /\ v.custom \in RateOf /\ v.fps \in RateOf
      /\ v.delayed \in BOOLEAN /\ v.quick \in Nat /\ v.stable \in Nat
  BY DEF Viewer
<1>2. least \in Nat
  BY <1>1 DEF Qos!Smaller
<1>3. samples \in Seq(Nat) /\ Len(samples) >= 1
  BY <1>1, PushTyped, QosConstants
<1>4. history \in Seq(Nat) /\ Len(history) >= 1
  BY <1>1, PushTyped
<1>5. smoothed \in Nat
  <2>1. Qos!LeastOf(samples) \in Nat
    BY <1>3, LeastOfTyped
  <2> HIDE DEF least, samples
  <2> QED
    BY <1>1, <1>2, <2>1
<1>6. Qos!AddDelay(v, d) = [v EXCEPT !.least = least, !.samples = samples,
                                     !.smoothed = smoothed, !.history = history]
  BY DEF Qos!AddDelay
<1> HIDE DEF least, samples, smoothed, history
<1> QED
  BY <1>1, <1>2, <1>3, <1>4, <1>5, <1>6 DEF Viewer

LEMMA AverageTyped ==
  ASSUME NEW v \in Viewer, Len(v.history) >= 1
  PROVE  Qos!Average(v) \in Nat
<1>1. v.history \in Seq(Nat)
  BY DEF Viewer
<1>2. \A i \in 1..3 : Qos!Entry(v.history, i) \in Nat
  BY <1>1 DEF Qos!Entry
<1>3. Qos!Sum(v.history) \in Nat
  BY <1>2 DEF Qos!Sum
<1>4. Len(v.history) \in Nat
  BY <1>1
<1> QED
  BY <1>3, <1>4 DEF Qos!Average

LEMMA AvgDelayTyped ==
  ASSUME LowestRate, NEW v \in Viewer
  PROVE  Qos!AvgDelay(v) \in Nat
<1>1. Qos!Rtt(v) \in Nat
  BY DEF Qos!Rtt, Viewer, Qos!None
<1>2. CASE v.history = <<>>
  BY <1>2, QosConstants DEF Qos!AvgDelay
<1>3. CASE v.history # <<>>
  <2>1. Len(v.history) >= 1
    BY <1>3 DEF Viewer
  <2>2. Qos!Average(v) \in Nat
    BY <2>1, AverageTyped
  <2> QED
    BY <1>1, <1>3, <2>2 DEF Qos!AvgDelay
<1> QED
  BY <1>2, <1>3

LEMMA SteppedTyped ==
  ASSUME LowestRate, QosInv, NEW v \in Viewer, NEW avg \in Nat, avg >= 10, NEW old \in Nat
  PROVE  Qos!Stepped(v, avg, old) \in Nat
<1>1. /\ fps \in Nat /\ MinFps \in Nat /\ Threshold \in Nat /\ NormalFps \in Nat
      /\ fps * Threshold \in Nat /\ Threshold * MinFps \in Nat
  BY QosConstants DEF QosInv
<1>2. PICK divided \in Nat : divided = (fps * Threshold + avg - 1) \div avg
  <2>1. PICK n \in Nat : n = fps * Threshold + avg - 1
    BY <1>1
  <2>2. n \div avg \in Nat
    BY <2>1
  <2> QED
    BY <2>1, <2>2
<1>3. PICK share \in Nat : share = (Threshold * MinFps) \div avg
  BY <1>1
<1>4. Qos!Stepped(v, avg, old) \in
        {Qos!Larger(MinFps, fps + n) : n \in {0, 1, 5}} \cup
        {Qos!Larger(MinFps, fps), Qos!Larger(MinFps, divided), Qos!Smaller(MinFps, divided),
         share, Qos!Smaller(share, divided)}
  BY <1>1, <1>2, <1>3 DEF Qos!Stepped
<1> QED
  BY <1>1, <1>2, <1>3, <1>4 DEF Qos!Larger, Qos!Smaller

\* The highest rate that all viewers accept.
LEMMA HighestFpsIs ==
  ASSUME LowestRate, NEW us, us \in [DOMAIN us -> Viewer]
  PROVE  /\ Qos!HighestFps(us) \in Nat /\ Qos!HighestFps(us) >= MIN_FPS
         /\ \A u \in DOMAIN us : us[u].custom # Qos!None => Qos!HighestFps(us) <= us[u].custom
<1> DEFINE rate(u) == IF us[u].custom = Qos!None THEN FPS ELSE us[u].custom
           rates == {rate(u) : u \in DOMAIN us}
<1>1. CASE DOMAIN us = {}
  BY <1>1, QosConstants DEF Qos!HighestFps
<1>2. CASE DOMAIN us # {}
  <2>1. \A u \in DOMAIN us : rate(u) \in Nat /\ rate(u) >= MIN_FPS
    BY QosConstants DEF Viewer, RateOf, Qos!None
  <2>2. rates \subseteq Nat /\ rates # {}
    BY <1>2, <2>1
  <2>3. Qos!Min(rates) \in rates /\ \A m \in rates : Qos!Min(rates) <= m
    BY <2>2, MinIsLeast
  <2>4. Qos!HighestFps(us) = Qos!Min(rates)
    BY <1>2 DEF Qos!HighestFps
  <2>5. \A u \in DOMAIN us : Qos!HighestFps(us) <= rate(u)
    BY <2>3, <2>4
  <2>6. Qos!HighestFps(us) \in Nat /\ Qos!HighestFps(us) >= MIN_FPS
    BY <2>1, <2>3, <2>4
  <2> QED
    BY <2>5, <2>6
<1> QED
  BY <1>1, <1>2

LEMMA MeasuredTyped ==
  ASSUME LowestRate, QosInv, NEW v \in Viewer, NEW d \in Nat
  PROVE  Qos!Measured(v, d) \in Viewer
<1> DEFINE delay == Qos!Larger(d, 10)
           grown == Qos!AddDelay(v, delay)
           avg == Qos!Larger(Qos!AvgDelay(grown), 10)
           stable == IF avg < Threshold THEN v.stable + 1 ELSE 0
           rate == Qos!Stepped(v, avg, Qos!AvgDelay(v)) + IF stable >= 3 THEN 1 ELSE 0
           quick == IF avg > 50 THEN 0 ELSE IF avg = 50 THEN grown.quick
                    ELSE IF grown.quick >= 2 THEN 0 ELSE grown.quick + 1
           new == Qos!Clamp(rate, MIN_FPS, Qos!HighestFps(users))
<1>1. delay \in Nat
  BY DEF Qos!Larger
<1>2. grown \in Viewer
  BY <1>1, AddDelayTyped
<1>3. avg \in Nat /\ avg >= 10
  <2>1. Qos!AvgDelay(grown) \in Nat
    BY <1>2, AvgDelayTyped
  <2> HIDE DEF grown
  <2> QED
    BY <2>1 DEF Qos!Larger
<1>4. stable \in Nat
  BY <1>3, QosConstants DEF Viewer
<1>5. rate \in Nat
  <2>1. Qos!Stepped(v, avg, Qos!AvgDelay(v)) \in Nat
    BY <1>3, AvgDelayTyped, SteppedTyped
  <2> HIDE DEF avg, stable
  <2> QED
    BY <2>1
<1>6. new \in Nat /\ new >= MIN_FPS
  <2>1. Qos!HighestFps(users) \in Nat /\ Qos!HighestFps(users) >= MIN_FPS
    BY HighestFpsIs DEF QosInv
  <2> HIDE DEF rate
  <2> QED
    BY <1>5, <2>1, QosConstants DEF Qos!Clamp
<1>7. quick \in Nat
  <2> HIDE DEF avg, grown
  <2> QED
    BY <1>2, <1>3 DEF Viewer
<1>8. Qos!Measured(v, d) =
        [grown EXCEPT !.quick = quick, !.stable = IF stable >= 3 THEN 0 ELSE stable, !.fps = new]
  BY DEF Qos!Measured
<1>9. new \in RateOf
  BY <1>6 DEF RateOf
<1>10. PICK kept \in Nat : kept = IF stable >= 3 THEN 0 ELSE stable
  <2> HIDE DEF stable
  <2> QED
    BY <1>4
<1> HIDE DEF grown, avg, stable, quick, new, rate
<1>11. Qos!Measured(v, d) = [grown EXCEPT !.quick = quick, !.stable = kept, !.fps = new]
  BY <1>8, <1>10
<1> QED
  BY <1>2, <1>7, <1>9, <1>11 DEF Viewer

\* What adjust_fps makes of the rates of the viewers.
Slowest(n, us) ==
  /\ n \in Nat /\ n >= MIN_FPS
  /\ \A u \in DOMAIN us :
       /\ us[u].custom # Qos!None => n <= us[u].custom
       /\ us[u].delayed => n <= MIN_FPS + 1
       /\ us[u].fps # Qos!None => n <= us[u].fps

LEMMA AdjustedIs ==
  ASSUME LowestRate, NEW us, us \in [DOMAIN us -> Viewer], NEW new
  PROVE  Slowest(Qos!Adjusted(us, new), us)
<1> DEFINE rate(u) == IF us[u].fps = Qos!None THEN INIT_FPS ELSE us[u].fps
           rates == {rate(u) : u \in DOMAIN us}
           least == IF DOMAIN us = {} THEN INIT_FPS ELSE Qos!Min(rates)
           answered == IF \E u \in DOMAIN us : us[u].delayed
                       THEN Qos!Smaller(least, MIN_FPS + 1) ELSE least
           started == IF new THEN Qos!Smaller(answered, INIT_FPS) ELSE answered
           high == Qos!HighestFps(us)
<1>1. least \in Nat /\ \A u \in DOMAIN us : least <= rate(u)
  <2>1. CASE DOMAIN us = {}
    BY <2>1, QosConstants
  <2>2. CASE DOMAIN us # {}
    <3>0. \A u \in DOMAIN us : rate(u) \in Nat
      BY QosConstants DEF Viewer, RateOf
    <3>1. rates \subseteq Nat /\ rates # {}
      BY <2>2, <3>0
    <3>2. Qos!Min(rates) \in rates /\ \A m \in rates : Qos!Min(rates) <= m
      BY <3>1, MinIsLeast
    <3> QED
      BY <2>2, <3>1, <3>2
  <2> QED
    BY <2>1, <2>2
<1>2. \A u \in DOMAIN us : us[u].fps # Qos!None => least <= us[u].fps /\ us[u].fps >= MIN_FPS
  BY <1>1 DEF Viewer, RateOf, Qos!None
<1>3. /\ answered \in Nat /\ answered <= least
      /\ \A u \in DOMAIN us : us[u].delayed => answered <= MIN_FPS + 1
  <2> HIDE DEF least
  <2> QED
    BY <1>1, QosConstants DEF Qos!Smaller
<1>4. started \in Nat /\ started <= answered
  <2> HIDE DEF answered
  <2> QED
    BY <1>3, QosConstants DEF Qos!Smaller
<1>5. /\ high \in Nat /\ high >= MIN_FPS
      /\ \A u \in DOMAIN us : us[u].custom # Qos!None => high <= us[u].custom
  BY HighestFpsIs
<1>6. Qos!Adjusted(us, new) = Qos!Clamp(started, MIN_FPS, high)
  BY DEF Qos!Adjusted
<1> HIDE DEF rate, least, answered, started, high
<1>7. PICK n : n = Qos!Adjusted(us, new)
  OBVIOUS
<1>8. n \in Nat /\ n >= MIN_FPS /\ n <= high /\ (n = MIN_FPS \/ n <= started)
  BY <1>4, <1>5, <1>6, <1>7, QosConstants DEF Qos!Clamp
<1>9. ASSUME NEW u \in DOMAIN us
      PROVE  /\ us[u].custom # Qos!None => n <= us[u].custom
             /\ us[u].delayed => n <= MIN_FPS + 1
             /\ us[u].fps # Qos!None => n <= us[u].fps
  <2>1. us[u].custom \in Nat /\ us[u].fps \in Nat /\ MIN_FPS \in Nat
    BY QosConstants DEF Viewer, RateOf
  <2> QED
    BY <1>1, <1>2, <1>3, <1>4, <1>5, <1>8, <2>1
<1> QED
  BY <1>7, <1>8, <1>9 DEF Slowest

LEMMA ViewerChanges ==
  ASSUME QosInv, NEW u \in DOMAIN users, NEW v \in Viewer, users' = [users EXCEPT ![u] = v]
  PROVE  users' \in [DOMAIN users' -> Viewer]
BY DEF QosInv

LEMMA SlowestIs ==
  ASSUME Slowest(fps', users')
  PROVE  fps' \in Nat /\ Qos!SlowestRules
BY DEF Slowest, Qos!SlowestRules

LEMMA QosStep ==
  ASSUME LowestRate, QosInv, [Qos!Next]_Qos!vars
  PROVE  QosInv' /\ Qos!SlowestRules
<1>1. CASE UNCHANGED Qos!vars
  BY <1>1 DEF Qos!vars, QosInv, Qos!SlowestRules
<1>2. ASSUME NEW u \in Users, Qos!Open(u) PROVE QosInv' /\ Qos!SlowestRules
  <2>1. users' = [v \in DOMAIN users \union {u} |-> IF v = u THEN Qos!NewUser ELSE users[v]]
    BY <1>2 DEF Qos!Open
  <2>2. users' \in [DOMAIN users' -> Viewer]
    BY <2>1, NewUserIs DEF QosInv
  <2> QED
    BY <1>2, <2>2 DEF Qos!Open, QosInv, Qos!SlowestRules
<1>3. ASSUME NEW u \in Users, Qos!Close(u) PROVE QosInv' /\ Qos!SlowestRules
  <2>1. users' = [v \in DOMAIN users \ {u} |-> users[v]]
    BY <1>3 DEF Qos!Close
  <2>2. users' \in [DOMAIN users' -> Viewer]
    BY <2>1 DEF QosInv
  <2>3. fps' = IF DOMAIN users' = {} THEN FPS ELSE fps
    BY <1>3 DEF Qos!Close
  <2> QED
    BY <2>2, <2>3, QosConstants DEF QosInv, Qos!SlowestRules
<1>4. ASSUME NEW u \in Users, NEW f \in CustomFps, Qos!ChooseFps(u, f)
      PROVE  QosInv' /\ Qos!SlowestRules
  <2>1. f \in RateOf
    BY DEF LowestRate, Qos!QosAssumption, RateOf
  <2>2. u \in DOMAIN users /\ users[u] \in Viewer
    BY <1>4 DEF Qos!ChooseFps, QosInv
  <2>3. [users[u] EXCEPT !.custom = f] \in Viewer
    BY <2>1, <2>2 DEF Viewer
  <2>4. users' = [users EXCEPT ![u] = [users[u] EXCEPT !.custom = f]]
    BY <1>4 DEF Qos!ChooseFps
  <2>5. users' \in [DOMAIN users' -> Viewer]
    BY <2>2, <2>3, <2>4, ViewerChanges
  <2> QED
    BY <1>4, <2>5 DEF Qos!ChooseFps, QosInv, Qos!SlowestRules
<1>5. ASSUME NEW u \in Users, NEW d \in Delays, Qos!NetworkDelay(u, d)
      PROVE  QosInv' /\ Qos!SlowestRules
  <2>1. u \in DOMAIN users /\ users[u] \in Viewer /\ d \in Nat
    BY <1>5 DEF Qos!NetworkDelay, QosInv, LowestRate, Qos!QosAssumption
  <2>2. Qos!Measured(users[u], d) \in Viewer
    BY <2>1, MeasuredTyped
  <2>3. users' \in [DOMAIN users' -> Viewer]
    BY <1>5, <2>1, <2>2, ViewerChanges DEF Qos!NetworkDelay
  <2>4. Slowest(fps', users')
    <3>1. fps' = Qos!Adjusted(users', recent)
      BY <1>5 DEF Qos!NetworkDelay
    <3> QED
      BY <2>3, <3>1, AdjustedIs
  <2> QED
    BY <2>3, <2>4, SlowestIs DEF QosInv
<1>6. ASSUME NEW u \in Users, NEW e \in Elapsed, Qos!ResponseElapsed(u, e)
      PROVE  QosInv' /\ Qos!SlowestRules
  <2> DEFINE is == IF e > 2000 THEN Qos!AddDelay([users[u] EXCEPT !.delayed = TRUE], e)
                   ELSE [users[u] EXCEPT !.delayed = FALSE]
  <2>1. u \in DOMAIN users /\ users[u] \in Viewer /\ e \in Nat
    BY <1>6 DEF Qos!ResponseElapsed, QosInv, LowestRate, Qos!QosAssumption
  <2>2. /\ [users[u] EXCEPT !.delayed = TRUE] \in Viewer
        /\ [users[u] EXCEPT !.delayed = FALSE] \in Viewer
    BY <2>1 DEF Viewer
  <2>3. is \in Viewer
    BY <2>1, <2>2, AddDelayTyped
  <2>4. users' = [users EXCEPT ![u] = is]
    BY <1>6 DEF Qos!ResponseElapsed
  <2> HIDE DEF is
  <2>5. users' \in [DOMAIN users' -> Viewer]
    BY <2>1, <2>3, <2>4, ViewerChanges
  <2>6. fps' = IF e > 2000 THEN Qos!Adjusted(users', recent) ELSE fps
    BY <1>6 DEF Qos!ResponseElapsed
  <2>7. CASE e > 2000
    <3>1. Slowest(fps', users')
      BY <2>5, <2>6, <2>7, AdjustedIs
    <3> QED
      BY <2>5, <3>1, SlowestIs DEF QosInv
  <2>8. CASE ~(e > 2000)
    BY <2>5, <2>6, <2>8 DEF QosInv, Qos!SlowestRules
  <2> QED
    BY <2>7, <2>8
<1>7. CASE Qos!Second
  <2>1. /\ users' = users /\ fps' = Qos!Adjusted(users, FALSE)
        /\ users' \in [DOMAIN users' -> Viewer]
    BY <1>7 DEF Qos!Second, QosInv
  <2>2. Slowest(fps', users')
    BY <2>1, AdjustedIs
  <2> QED
    BY <2>1, <2>2, SlowestIs DEF QosInv
<1> QED
  BY <1>1, <1>2, <1>3, <1>4, <1>5, <1>6, <1>7 DEF Qos!Next

\* Whenever the frame rate of a display changes it is at most what each viewer chose and what
\* each viewer's network allows, and next to the least while one of them does not answer:
\* adjust_fps is run after every change of a viewer that could lower it, for any delays,
\* choices and qualities.
THEOREM SlowestViewerRules ==
  ASSUME LowestRate
  PROVE  Qos!Spec => [][Qos!SlowestRules]_Qos!vars
<1>1. Qos!Init => QosInv
  <2> SUFFICES ASSUME Qos!Init PROVE QosInv
    OBVIOUS
  <2>1. users = [u \in (IF Joins THEN {} ELSE Users) |-> Qos!NewUser] /\ fps = FPS
    BY DEF Qos!Init
  <2> QED
    BY <2>1, NewUserIs, QosConstants DEF QosInv
<1>2. QosInv /\ [Qos!Next]_Qos!vars => QosInv' /\ Qos!SlowestRules
  BY QosStep
<1> QED
  BY <1>1, <1>2, PTL DEF Qos!Spec
=============================================================================
