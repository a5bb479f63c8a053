----------------------------- MODULE HostLogin -----------------------------
(***************************************************************************)
(* The login of incoming connections on a RustDesk host (connection.rs).   *)
(*                                                                         *)
(* Connections are tasks of one process.  They share the temporary         *)
(* password, the SESSIONS that let a viewer come back without asking, the  *)
(* failures counted by address and the consecutive failures counted        *)
(* against the temporary password.  Each of these has a lock of its own,   *)
(* so a login is a sequence of steps between which other connections run.  *)
(*                                                                         *)
(* All connections come from one address, and the host asks for no codes.  *)
(* Time runs in quarters of a minute: SESSION_TIMEOUT is two of them.      *)
(***************************************************************************)
EXTENDS Integers, FiniteSets

CONSTANTS
    Conns,      \* connections of the host
    Shared,     \* the connections of one viewer and session; each of the
                \* others has a session key of its own
    Remote,     \* the connections that are remote controls
    PerMinute,  \* failures of a minute after which an address waits (code: 6)
    InAll,      \* failures after which an address is refused (code: 30)
    Rotate,     \* failures that change the temporary password (code: 10)
    Clicks,     \* somebody at the host may accept a viewer
    MaxPw,      \* bound: temporary passwords of a run
    MaxTime     \* bound: quarters of a minute of a run

LoginAssumption ==
    /\ IsFiniteSet(Conns) /\ Remote \subseteq Conns /\ Shared \subseteq Conns
    /\ {PerMinute, InAll, Rotate, MaxPw, MaxTime} \subseteq Nat \ {0}

VARIABLES
    now,        \* quarters of a minute passed
    pw,         \* TEMPORARY_PASSWORD, numbered
    failures,   \* LOGIN_FAILURES of the address
    temp,       \* TEMPORARY_PASSWORD_FAILURES
    sessions,   \* SESSIONS
    conns,      \* the connection tasks
    misses      \* history: wrong attempts at this password since it was
                \* last presented correctly

vars == <<now, pw, failures, temp, sessions, conns, misses>>

(* The session key: peer, name and session id.                             *)
KeyOf(c) == IF c \in Shared THEN "shared" ELSE c
Keys == {KeyOf(c) : c \in Conns}

(* What a viewer may send: nothing, a wrong password, a temporary password *)
(* by its number, the permanent password.                                  *)
Empty == -1
Wrong == 0
Permanent == MaxPw + 1

NoEntry == [minute |-> 0, run |-> 0, total |-> 0]
NoSession == [password |-> Empty, heard |-> -1]
Fresh == [pc |-> "closed", asked |-> FALSE, guess |-> Empty, seen |-> NoEntry,
          time |-> 0, heard |-> 0, authed |-> FALSE, linked |-> FALSE,
          temporary |-> FALSE, spoke |-> "not"]

Minute == 1 + now \div 4
SessionTimeout == 2

TypeOK ==
    /\ now \in 0..MaxTime /\ pw \in 1..MaxPw
    /\ failures \in [minute : 0..1 + MaxTime \div 4, run : Nat, total : Nat]
    /\ temp \in [password : 0..MaxPw, failures : 0..Rotate - 1]
    /\ sessions \in [Keys -> [password : -1..MaxPw, heard : -1..MaxTime]]
    /\ \A c \in Conns : conns[c].guess \in -1..Permanent
    /\ misses \in Nat

Init ==
    /\ now = 0 /\ pw = 1 /\ misses = 0
    /\ failures = NoEntry
    /\ temp = [password |-> 0, failures |-> 0]
    /\ sessions = [k \in Keys |-> NoSession]
    /\ conns = [c \in Conns |-> Fresh]

At(c, pc) == conns[c].pc = pc
Goto(c, pc) == conns' = [conns EXCEPT ![c].pc = pc]

Open(c) ==
    /\ At(c, "closed")
    /\ conns' = [conns EXCEPT ![c] = [Fresh EXCEPT !.pc = "open", !.heard = now]]
    /\ UNCHANGED <<now, pw, failures, temp, sessions, misses>>

-----------------------------------------------------------------------------
(* Sessions.                                                               *)

IsExpired(k) == now - sessions[k].heard >= SessionTimeout

(* The sessions left, and the connections that still share their clock.    *)
Retain(expired) ==
    sessions' = [k \in Keys |-> IF k \in expired THEN NoSession ELSE sessions[k]]
Unlinked(expired) ==
    [c \in Conns |-> IF KeyOf(c) \in expired
                     THEN [conns[c] EXCEPT !.linked = FALSE] ELSE conns[c]]
Expired == {k \in Keys : sessions[k] # NoSession /\ IsExpired(k)}

IsRecentSession(c, guess) ==
    LET s == sessions[KeyOf(c)] IN
    /\ KeyOf(c) \notin Expired /\ s # NoSession
    /\ guess # Empty /\ guess = s.password

(* A LoginRequest.  An empty password leaves it to somebody at the host.   *)
Login(c, guess) ==
    /\ At(c, "open") /\ ~conns[c].authed
    /\ Retain(Expired)
    /\ conns' = [Unlinked(Expired) EXCEPT
                    ![c].guess = guess, ![c].asked = TRUE, ![c].heard = now,
                    ![c].temporary = IsRecentSession(c, guess),
                    ![c].pc = IF IsRecentSession(c, guess) THEN "grant"
                              ELSE IF guess = Empty THEN "open" ELSE "check"]
    /\ UNCHANGED <<now, pw, failures, temp, misses>>

(* check_failure: a refusal counts nothing.                                *)
IsRefused(entry) ==
    \/ entry.total > InAll
    \/ entry.minute = Minute /\ entry.run > PerMinute

Check(c) ==
    /\ At(c, "check")
    /\ conns' = [conns EXCEPT ![c].seen = failures, ![c].time = Minute,
                     ![c].pc = IF IsRefused(failures) THEN "open" ELSE "validate"]
    /\ UNCHANGED <<now, pw, failures, temp, sessions, misses>>

(* validate_password: the temporary password opens or renews the session.  *)
Renewed(s, password) ==
    IF s = NoSession THEN [password |-> password, heard |-> now]
    ELSE [s EXCEPT !.password = password]

Validate(c) ==
    LET guess == conns[c].guess IN
    /\ At(c, "validate")
    /\ \/ /\ guess = pw
          /\ sessions' = [sessions EXCEPT ![KeyOf(c)] = Renewed(@, guess)]
          /\ conns' = [conns EXCEPT ![c].pc = "clear", ![c].temporary = TRUE]
          /\ UNCHANGED misses
       \/ /\ guess = Permanent
          /\ Goto(c, "forget") /\ UNCHANGED <<sessions, misses>>
       \/ /\ guess \notin {pw, Permanent}
          /\ misses' = misses + 1
          /\ Goto(c, "bump") /\ UNCHANGED sessions
    /\ UNCHANGED <<now, pw, failures, temp>>

(* check_update_temporary_password.                                        *)
Current == IF temp.password = pw THEN temp.failures ELSE 0

ClearTemporary(c) ==
    /\ At(c, "clear")
    /\ temp' = [password |-> pw, failures |-> 0]
    /\ misses' = 0
    /\ Goto(c, "forget")
    /\ UNCHANGED <<now, pw, failures, sessions>>

CountTemporary(c) ==
    /\ At(c, "count")
    /\ IF Current + 1 < Rotate
       THEN /\ temp' = [password |-> pw, failures |-> Current + 1]
            /\ UNCHANGED <<pw, misses>>
       ELSE /\ pw < MaxPw /\ pw' = pw + 1
            /\ temp' = [password |-> pw + 1, failures |-> 0]
            /\ misses' = 0
    /\ Goto(c, "open")
    /\ UNCHANGED <<now, failures, sessions>>

-----------------------------------------------------------------------------
(* Failures by address, and entry.                                         *)

Bumped(entry, time) ==
    [minute |-> time, total |-> entry.total + 1,
     run |-> IF entry.minute = time THEN entry.run + 1 ELSE 1]

(* update_failure re-reads the entry; a success forgets it only if there   *)
(* was one when this login was checked.                                    *)
Bump(c) ==
    /\ At(c, "bump")
    /\ failures' = Bumped(failures, conns[c].time)
    /\ Goto(c, "count")
    /\ UNCHANGED <<now, pw, temp, sessions, misses>>

Forget(c) ==
    /\ At(c, "forget")
    /\ failures' = IF conns[c].seen.minute # 0 THEN NoEntry ELSE failures
    /\ Goto(c, "grant")
    /\ UNCHANGED <<now, pw, temp, sessions, misses>>

(* Mutant: the connection does not share the clock of its session.         *)
AuthorizeUnlinked(c) ==
    /\ At(c, "grant")
    /\ conns' = [conns EXCEPT ![c].pc = "open", ![c].authed = TRUE]
    /\ UNCHANGED <<now, pw, failures, temp, sessions, misses>>

(* send_logon_response: the connection is authorized, and shares the clock *)
(* of its session if there is one.                                         *)
Authorize(c) ==
    /\ At(c, "grant")
    /\ conns' = [conns EXCEPT ![c].pc = "open", ![c].authed = TRUE,
                     ![c].linked = sessions[KeyOf(c)] # NoSession]
    /\ UNCHANGED <<now, pw, failures, temp, sessions, misses>>

(* Data::Authorize: somebody at the host accepts.                          *)
Click(c) ==
    /\ Clicks /\ At(c, "open") /\ conns[c].asked /\ ~conns[c].authed
    /\ Goto(c, "grant")
    /\ UNCHANGED <<now, pw, failures, temp, sessions, misses>>

-----------------------------------------------------------------------------
(* Messages and endings.                                                   *)

(* A connection not heard of for 30 s ends (IsSilent).                     *)
IsSilent(c) == now - conns[c].heard >= SessionTimeout

Hear(c) ==
    /\ At(c, "open") /\ conns[c].authed
    /\ (conns[c].heard # now \/ conns[c].spoke = "not") /\ ~IsSilent(c)
    /\ conns' = [conns EXCEPT ![c].heard = now, 
                     ![c].spoke = CASE @ # "not" -> @
                                    [] conns[c].heard = now -> "at once"
                                    [] OTHER -> "late"]
    /\ sessions' = IF conns[c].linked
                   THEN [sessions EXCEPT ![KeyOf(c)].heard = now] ELSE sessions
    /\ UNCHANGED <<now, pw, failures, temp, misses>>

IsAuthedRemote(c) == c \in Remote /\ conns[c].authed

(* check_remove_session, when either side closes for good.                 *)
RemovesSession(c) ==
    \/ IsAuthedRemote(c)
    \/ ~\E d \in Conns \ {c} : KeyOf(d) = KeyOf(c) /\ IsAuthedRemote(d)

CloseForGood(c) ==
    LET gone == IF conns[c].asked /\ RemovesSession(c) THEN {KeyOf(c)} ELSE {} IN
    /\ At(c, "open")
    /\ Retain(gone)
    /\ conns' = [Unlinked(gone) EXCEPT ![c].pc = "ending"]
    /\ UNCHANGED <<now, pw, failures, temp, misses>>

LoseLink(c) ==
    /\ At(c, "open")
    /\ Goto(c, "ending")
    /\ UNCHANGED <<now, pw, failures, temp, sessions, misses>>

(* The end of an authorized connection changes the temporary password.     *)
End(c) ==
    /\ At(c, "ending")
    /\ IF conns[c].authed
       THEN pw < MaxPw /\ pw' = pw + 1 /\ misses' = 0
       ELSE UNCHANGED <<pw, misses>>
    /\ conns' = [conns EXCEPT ![c] = Fresh]
    /\ UNCHANGED <<now, failures, temp, sessions>>

(* The handlers are short: no quarter of a minute passes within one, and   *)
(* the timer of a silent connection ends it at once.                       *)
Tick ==
    /\ now < MaxTime
    /\ \A c \in Conns : At(c, "closed") \/ (At(c, "open") /\ ~IsSilent(c))
    /\ now' = now + 1
    /\ UNCHANGED <<pw, failures, temp, sessions, conns, misses>>

Guesses(c) == {Empty, Wrong, pw, Permanent, sessions[KeyOf(c)].password}

Next ==
    \/ \E c \in Conns :
        \/ Open(c) \/ Check(c) \/ Validate(c) \/ ClearTemporary(c) \/ CountTemporary(c)
        \/ Bump(c) \/ Forget(c) \/ Authorize(c) \/ Click(c) \/ Hear(c)
        \/ CloseForGood(c) \/ LoseLink(c) \/ End(c)
        \/ \E guess \in Guesses(c) : Login(c, guess)
    \/ Tick

Spec == Init /\ [][Next]_vars

-----------------------------------------------------------------------------
(* Properties.                                                             *)

(* The failures of a minute, and of all time, exceed their limits by no    *)
(* more than the logins that were past the check when it was reached:      *)
(* check_failure and update_failure take the lock one after the other.     *)
AttemptsAreBounded ==
    /\ failures.run <= PerMinute + Cardinality(Conns)
    /\ failures.total <= InAll + Cardinality(Conns)

(* No temporary password stands more wrong attempts in a row than Rotate   *)
(* and those of the logins under way: it is changed by                     *)
(* check_update_temporary_password.                                        *)
GuessesAreBounded == misses < Rotate + Cardinality(Conns)

(* A remote control opened with the temporary password, whose viewer was   *)
(* heard at once, can come back after its link is lost: its session is     *)
(* in SESSIONS and its messages keep it there, though the end of any       *)
(* connection changes the password.                                        *)
RemoteKeepsSession ==
    \A c \in Remote :
        /\ conns[c].authed /\ conns[c].temporary /\ conns[c].spoke = "at once"
        /\ At(c, "open") /\ ~IsSilent(c)
        => conns[c].linked /\ sessions[KeyOf(c)].password # Empty

(* The comment of check_update_temporary_password: a correct presentation  *)
(* of the active temporary password clears the failures counted against it *)
(* immediately.                                                            *)
SuccessClears ==
    [][\A c \in Conns :
        (\A d \in Conns : At(d, "open")) /\ conns'[c].pc = "grant" /\ conns'[c].guess = pw
            => temp'.password # pw \/ temp'.failures = 0]_vars
=============================================================================
