--------------------------- MODULE PasswordReset ---------------------------
(***************************************************************************)
(* Admin API: resetting a password by a code that is mailed                *)
(* (rustdesk-api/service/password_reset.go) over the file cache            *)
(* (rustdesk-api/lib/cache/file.go), for one address and its one user.     *)
(*                                                                         *)
(* The two keys, the code and the cooldown, are files whose time of change *)
(* is the moment they expire.  A write first creates the file with the     *)
(* time of now and then moves that time; a read looks at the time, removes *)
(* a file that has expired, and reads it otherwise.  Only writes take the  *)
(* lock.  Every request runs in a goroutine of its own.  Time is in units  *)
(* of the cooldown.                                                        *)
(***************************************************************************)
EXTENDS Naturals, FiniteSets

CONSTANTS
  Task,
  Expire,   \* passwordResetCodeExpireSeconds, 600 s in the code
  Cooldown, \* passwordResetCooldownSeconds, 60 s in the code
  UsedFor,  \* 300 s in the code
  Faults,   \* whether mail and database may fail
  MaxMails  \* bound: codes mailed, each a number of its own

TimesAssumption ==
  /\ Expire \in Nat /\ Cooldown \in Nat /\ UsedFor \in Nat
  /\ 0 < Cooldown /\ Cooldown < Expire /\ 0 < UsedFor
  /\ Faults \in BOOLEAN /\ MaxMails \in Nat

VARIABLES
  file,     \* what is stored under each key
  task,     \* the requests that are being handled
  mails,    \* codes mailed so far
  mailAge,  \* history: since the last of them
  settled,  \* history: the last code whose sending succeeded, and its age
  resets    \* history: how often each code has set the password

vars == <<file, task, mails, mailAge, settled, resets>>

Codes == 0..MaxMails      \* 0: none
Keys == {"code", "cooldown"}
Longest == Expire + 1
Older(n) == IF n < Longest THEN n + 1 ELSE n

\* left is the time until the file's time of change, 0 once that has passed.
Files == [there : BOOLEAN, code : Codes, used : BOOLEAN, left : 0..(Expire + UsedFor)]
Absent == [there |-> FALSE, code |-> 0, used |-> FALSE, left |-> 0]
Written(code, used) == [there |-> TRUE, code |-> code, used |-> used, left |-> 0]

Idle == [pc |-> "idle", code |-> 0, expired |-> FALSE, used |-> FALSE]
Tasks == [pc : {"idle", "cool", "look", "mail", "store", "date", "pause", "pauseDate",
                "state", "read", "change", "mark", "markDate"},
          code : Codes, expired : BOOLEAN, used : BOOLEAN]

Init ==
  /\ file = [k \in Keys |-> Absent]
  /\ task = [t \in Task |-> Idle]
  /\ mails = 0
  /\ mailAge = Longest
  /\ settled = [code |-> 0, age |-> Longest]
  /\ resets = [c \in Codes |-> 0]

Go(t, pc) == task' = [task EXCEPT ![t].pc = pc]
End(t) == task' = [task EXCEPT ![t] = Idle]

-----------------------------------------------------------------------------
\* The file cache.  An expired or missing file is nothing to read.

\* getValue's look at the time of the file.
Look(t, from, key, to) ==
  /\ task[t].pc = from
  /\ task' = [task EXCEPT ![t].pc = to, ![t].expired = file[key].left = 0]
  /\ UNCHANGED <<file, mails, mailAge, settled, resets>>

\* saveValue's two steps: the file, and its time, which cannot be set on a file
\* that was removed in between.
Store(key, content) == file' = [file EXCEPT ![key] = content]
Dated(key, left) == file' = [file EXCEPT ![key].left = IF file[key].there THEN left ELSE 0]

-----------------------------------------------------------------------------
\* SendCode.
AskCode(t) ==
  /\ task[t].pc = "idle"
  /\ mails + Cardinality({u \in Task : task[u].pc \in {"cool", "look", "mail"}}) < MaxMails
  /\ Go(t, "cool")
  /\ UNCHANGED <<file, mails, mailAge, settled, resets>>

LookCooldown(t) == Look(t, "cool", "cooldown", "look")

CheckCooldown(t) ==
  /\ task[t].pc = "look"
  /\ IF task[t].expired \/ ~file["cooldown"].there THEN Go(t, "mail") ELSE End(t)
  /\ file' = [file EXCEPT !["cooldown"] = IF task[t].expired THEN Absent ELSE @]
  /\ UNCHANGED <<mails, mailAge, settled, resets>>

\* Mail.Send, which may fail.
Mail(t) ==
  /\ task[t].pc = "mail"
  /\ mails' = mails + 1
  /\ task' = [task EXCEPT ![t].pc = "store", ![t].code = mails + 1]
  /\ mailAge' = 0
  /\ UNCHANGED <<file, settled, resets>>

MailFails(t) ==
  /\ Faults
  /\ task[t].pc = "mail"
  /\ End(t)
  /\ UNCHANGED <<file, mails, mailAge, settled, resets>>

StoreCode(t) ==
  /\ task[t].pc = "store"
  /\ Store("code", Written(task[t].code, FALSE))
  /\ Go(t, "date")
  /\ UNCHANGED <<mails, mailAge, settled, resets>>

\* When the time cannot be set the request fails, although the mail is out.
DateCode(t) ==
  /\ task[t].pc = "date"
  /\ Dated("code", Expire)
  /\ IF file["code"].there THEN Go(t, "pause") ELSE End(t)
  /\ UNCHANGED <<mails, mailAge, settled, resets>>

StoreCooldown(t) ==
  /\ task[t].pc = "pause"
  /\ Store("cooldown", Written(0, FALSE))
  /\ Go(t, "pauseDate")
  /\ UNCHANGED <<mails, mailAge, settled, resets>>

\* The request succeeds, even when the cooldown's time could not be set.
DateCooldown(t) ==
  /\ task[t].pc = "pauseDate"
  /\ Dated("cooldown", Cooldown)
  /\ End(t)
  /\ settled' = [code |-> task[t].code, age |-> mailAge]
  /\ UNCHANGED <<mails, mailAge, resets>>

-----------------------------------------------------------------------------
\* ResetWithCode, with a code that was mailed.
AskReset(t, code) ==
  /\ task[t].pc = "idle"
  /\ code \in 1..mails
  /\ task' = [task EXCEPT ![t].pc = "state", ![t].code = code]
  /\ UNCHANGED <<file, mails, mailAge, settled, resets>>

LookCode(t) == Look(t, "state", "code", "read")

\* The state is read and the code compared with it; a used one has no code.
ReadCode(t) ==
  /\ task[t].pc = "read"
  /\ file' = [file EXCEPT !["code"] = IF task[t].expired THEN Absent ELSE @]
  /\ IF /\ ~task[t].expired /\ file["code"].there
        /\ ~file["code"].used /\ file["code"].code = task[t].code
       THEN Go(t, "change")
       ELSE End(t)
  /\ UNCHANGED <<mails, mailAge, settled, resets>>

\* UpdatePassword.
Change(t) ==
  /\ task[t].pc = "change"
  /\ resets' = [resets EXCEPT ![task[t].code] = IF @ < 2 THEN @ + 1 ELSE @]
  /\ Go(t, "mark")
  /\ UNCHANGED <<file, mails, mailAge, settled>>

\* It fails before the password is written, or after, at the tokens.
ChangeFails(t) ==
  /\ Faults
  /\ task[t].pc = "change"
  /\ resets' \in {resets, [resets EXCEPT ![task[t].code] = IF @ < 2 THEN @ + 1 ELSE @]}
  /\ End(t)
  /\ UNCHANGED <<file, mails, mailAge, settled>>

MarkUsed(t) ==
  /\ task[t].pc = "mark"
  /\ Store("code", Written(task[t].code, TRUE))
  /\ Go(t, "markDate")
  /\ UNCHANGED <<mails, mailAge, settled, resets>>

DateUsed(t) ==
  /\ task[t].pc = "markDate"
  /\ Dated("code", UsedFor)
  /\ End(t)
  /\ UNCHANGED <<mails, mailAge, settled, resets>>

\* Time passes while requests wait for the mail server or the database only.
Tick ==
  /\ \A t \in Task : task[t].pc \in {"idle", "mail", "change"}
  /\ file' = [k \in Keys |-> [file[k] EXCEPT !.left = IF @ = 0 THEN 0 ELSE @ - 1]]
  /\ mailAge' = Older(mailAge)
  /\ settled' = [settled EXCEPT !.age = Older(@)]
  /\ UNCHANGED <<task, mails, resets>>

Next ==
  \/ \E t \in Task :
       \/ AskCode(t) \/ LookCooldown(t) \/ CheckCooldown(t) \/ Mail(t) \/ MailFails(t)
       \/ StoreCode(t) \/ DateCode(t) \/ StoreCooldown(t) \/ DateCooldown(t)
       \/ \E code \in Codes : AskReset(t, code)
       \/ LookCode(t) \/ ReadCode(t) \/ Change(t) \/ ChangeFails(t)
       \/ MarkUsed(t) \/ DateUsed(t)
  \/ Tick

Spec == Init /\ [][Next]_vars

-----------------------------------------------------------------------------
\* The variables keep their types.
TypeOK ==
  /\ file \in [Keys -> Files]
  /\ task \in [Task -> Tasks]
  /\ mails \in Codes
  /\ mailAge \in 0..Longest
  /\ settled \in [code : Codes, age : 0..Longest]
  /\ resets \in [Codes -> 0..2]

Quiet == \A t \in Task : task[t].pc = "idle"

\* A code sets the password once ("verification code has already been used").
UsedOnce == \A c \in Codes : resets[c] <= 1

\* The code of the last request that succeeded can be used for ten minutes
\* ("This code expires in 10 minutes"), unless it has been.
CodeServes ==
  Quiet /\ settled.code # 0 /\ settled.age < Expire /\ resets[settled.code] = 0
    => file["code"].code = settled.code /\ ~file["code"].used /\ file["code"].left > 0

\* A minute passes between two mails ("please wait 60 seconds before
\* requesting another code").
MailsArePaced == \A t \in Task : Mail(t) => mailAge >= Cooldown

\* One request at a time, a reset is only let through with the code of the last
\* mail, and only until that has expired.
OnlyTheLastCode ==
  \A t \in Task :
    ReadCode(t) /\ task'[t].pc = "change" => task[t].code = mails /\ mailAge < Expire
=============================================================================
