----------------------------- MODULE DeviceList -----------------------------
(***************************************************************************)
(* The admin API's list of devices, and the client that keeps itself in it *)
(* (rustdesk-1.4.9/src/hbbs_http/sync.rs;                                  *)
(* rustdesk-api/http/controller/api/peer.go and index.go,                  *)
(* rustdesk-api/service/peer.go and user.go), for one machine.             *)
(*                                                                         *)
(* Every tick the client uploads what it is, if it has not yet or its user *)
(* name has changed, and then sends a heartbeat if one is due.  An upload  *)
(* looks for the row of the client's id and for the user who logged in     *)
(* last, and then writes the row.  Users log in and out of the machine,    *)
(* which binds its row to them and unbinds it.  The table takes any number *)
(* of rows with one id; a look-up answers the oldest.                      *)
(*                                                                         *)
(* A request is answered within the client's tick or not at all; one that  *)
(* is not answered may still be handled, also later.  Time is in the       *)
(* client's ticks of 3 s.  This API's heartbeat answers an empty object,   *)
(* so what else the client does with an answer is left out.                *)
(***************************************************************************)
EXTENDS Naturals, FiniteSets, Sequences

CONSTANTS
  Id,           \* ids the client has, one after another
  Name,         \* the names of the machine's users in its system
  User,         \* the API's users
  Slot,         \* the requests an upload can be
  Beat,         \* TIME_HEARTBEAT, 15 s in the code
  Pace,         \* a row's time is left alone for so long, 30 s in the code
  PaceComment,  \* ... which a comment calls 40 s
  Retry,        \* UPLOAD_SYSINFO_TIMEOUT, 120 s in the code
  Serial,       \* whether a request waits for the ones before it
  Fails,        \* whether answers may be lost
  Changes,      \* bound: changes of the id, of the name and of whether it is viewed
  Restarts,     \* bound: how often the client is started again
  Deletes,      \* bound: rows and users the administrator deletes
  MaxLogins,    \* bound: logins
  MaxRows,      \* bound: rows ever created
  NoUser

DeviceListAssumption ==
  /\ Beat \in Nat \ {0} /\ Pace \in Nat \ {0} /\ Retry \in Nat \ {0}
  /\ PaceComment \in Nat
  /\ {Serial, Fails} \subseteq BOOLEAN
  /\ {Changes, Restarts, Deletes, MaxLogins, MaxRows} \subseteq Nat
  /\ NoUser \notin User

VARIABLES
  me,      \* the machine: its id, the name of its user, whether it is being viewed
  client,  \* the client's loop and its InfoUploaded
  upload,  \* the uploads the API is handling
  rows,    \* the table of devices, oldest first
  logins,  \* the table of logins, oldest first
  session, \* what each user has on this machine
  left     \* changes, restarts and deletions that may still happen

vars == <<me, client, upload, rows, logins, session, left>>

Row == 1..MaxRows
Longest == Pace + Beat + PaceComment
Older(n) == IF n < Longest THEN n + 1 ELSE n
Sooner(n) == IF n > 0 THEN n - 1 ELSE 0
Unnamed == "unnamed"

Rows == [there : BOOLEAN, id : Id, name : Name, owner : User \cup {NoUser},
         seen : BOOLEAN, age : 0..Longest]
Idle == [pc |-> "none", id |-> me.id, name |-> me.name, row |-> 0, owner |-> NoUser]
Fresh == [pc |-> "idle", due |-> FALSE, uploaded |-> FALSE, as |-> me.id,
          name |-> Unnamed, wait |-> 0, sent |-> Beat, slot |-> 0]

Init ==
  /\ me \in [id : Id, name : Name, viewed : {FALSE}]
  /\ client = Fresh
  /\ upload = [s \in Slot |-> Idle]
  /\ rows = <<>>
  /\ logins = <<>>
  /\ session = [u \in User |-> "out"]
  /\ left = [changes |-> Changes, restarts |-> Restarts, deletes |-> Deletes]

-----------------------------------------------------------------------------
(* The tables.                                                             *)

RowsOf(id) == {r \in DOMAIN rows : rows[r].there /\ rows[r].id = id}
Oldest(rs) == CHOOSE r \in rs : \A q \in rs : r <= q

\* FindById and FindByUuid: 0 where there is none.
FindById(id) == IF RowsOf(id) = {} THEN 0 ELSE Oldest(RowsOf(id))
FindByUuid ==
  LET rs == {r \in DOMAIN rows : rows[r].there}
  IN IF rs = {} THEN 0 ELSE Oldest(rs)

FindLatestUserIdFromLoginLogByUuid(id) ==
  LET ls == {l \in DOMAIN logins : logins[l].id = id}
  IN IF ls = {} THEN NoUser
     ELSE logins[CHOOSE l \in ls : \A k \in ls : k <= l].user

\* A request begins at any moment, or after all others are done.
MayBegin ==
  Serial => /\ \A s \in Slot : upload[s].pc \in {"none", "sent"}
            /\ \A u \in User : session[u] \in {"out", "in", "gone"}

-----------------------------------------------------------------------------
(* The client.                                                             *)

\* need_upload
NeedUpload ==
  LET known == client.uploaded /\ client.as = me.id
  IN (~known \/ client.name # me.name) /\ client.wait = 0

\* The end of the loop's body: the heartbeat, unless none is due.
HeartbeatOrNot(c) ==
  IF ~me.viewed /\ c.sent < Beat
  THEN [c EXCEPT !.pc = "idle"] ELSE [c EXCEPT !.pc = "beat", !.sent = 0]

Wake ==
  /\ client.pc = "idle" /\ client.due
  /\ LET c == [client EXCEPT !.due = FALSE,
                             !.uploaded = @ /\ client.as = me.id]
     IN IF ~NeedUpload
        THEN client' = HeartbeatOrNot(c) /\ UNCHANGED upload
        ELSE \E s \in Slot :
               /\ upload[s].pc = "none"
               /\ upload' = [upload EXCEPT ![s] = [Idle EXCEPT !.pc = "sent"]]
               /\ client' = [c EXCEPT !.pc = "post", !.slot = s]
  /\ UNCHANGED <<me, rows, logins, session, left>>


Uploaded(s) ==
  /\ client.pc = "post" /\ client.slot = s /\ upload[s].pc = "answered"
  /\ client' = HeartbeatOrNot([client EXCEPT !.uploaded = TRUE, !.as = upload[s].id,
                                            !.name = upload[s].name, !.wait = 0,
                                            !.slot = 0])
  /\ upload' = [upload EXCEPT ![s] = Idle]
  /\ UNCHANGED <<me, rows, logins, session, left>>

\* The request fails; the API may have it nevertheless.
NotUploaded(s) ==
  /\ Fails
  /\ client.pc = "post" /\ client.slot = s
  /\ client' = HeartbeatOrNot([client EXCEPT !.wait = Retry, !.slot = 0])
  /\ \/ UNCHANGED upload
     \/ upload[s].pc = "sent" /\ upload' = [upload EXCEPT ![s] = Idle]
  /\ UNCHANGED <<me, rows, logins, session, left>>

\* An answer nobody waits for.
AnswerIsDropped(s) ==
  /\ upload[s].pc = "answered" /\ client.slot # s
  /\ upload' = [upload EXCEPT ![s] = Idle]
  /\ UNCHANGED <<me, client, rows, logins, session, left>>

Restart ==
  /\ left.restarts > 0
  /\ client' = Fresh
  /\ left' = [left EXCEPT !.restarts = @ - 1]
  /\ UNCHANGED <<me, upload, rows, logins, session>>

-----------------------------------------------------------------------------
(* The API.                                                                *)

\* Heartbeat: a row's time is left alone for a while.
Heartbeat ==
  /\ client.pc = "beat"
  /\ LET r == FindById(me.id)
     IN rows' = IF r # 0 /\ (rows[r].seen => rows[r].age >= Pace)
                THEN [rows EXCEPT ![r].seen = TRUE, ![r].age = 0] ELSE rows
  /\ client' = [client EXCEPT !.pc = "idle"]
  /\ UNCHANGED <<me, upload, logins, session, left>>

HeartbeatIsLost ==
  /\ Fails
  /\ client.pc = "beat"
  /\ client' = [client EXCEPT !.pc = "idle"]
  /\ UNCHANGED <<me, upload, rows, logins, session, left>>

\* SysInfo, the reads: the row, and the user who logged in last.
SysInfoReads(s) ==
  /\ upload[s].pc = "sent" /\ MayBegin
  /\ LET r == FindById(upload[s].id)
         latest == FindLatestUserIdFromLoginLogByUuid(upload[s].id)
     IN upload' = [upload EXCEPT ![s].pc = "read", ![s].row = r,
                                 ![s].owner = IF latest = NoUser /\ r # 0
                                              THEN rows[r].owner ELSE latest]
  /\ UNCHANGED <<me, client, rows, logins, session, left>>

\* SysInfo, the write.  An update leaves out what is zero, and does nothing to
\* a row that is gone.
SysInfoWrites(s) ==
  /\ upload[s].pc = "read"
  /\ LET t == upload[s]
     IN \/ /\ t.row = 0 /\ Len(rows) < MaxRows
           /\ rows' = Append(rows, [there |-> TRUE, id |-> t.id, name |-> t.name,
                                    owner |-> t.owner, seen |-> FALSE, age |-> 0])
        \/ /\ t.row # 0
           /\ rows' = IF ~rows[t.row].there THEN rows
                      ELSE [rows EXCEPT ![t.row].name = t.name,
                                        ![t.row].owner = IF t.owner = NoUser
                                                         THEN @ ELSE t.owner]
  /\ upload' = [upload EXCEPT ![s].pc = "answered"]
  /\ UNCHANGED <<me, client, logins, session, left>>

\* Login: the token and the log, and then UuidBindUserId.
Login(u) ==
  /\ session[u] = "out" /\ MayBegin /\ Len(logins) < MaxLogins
  /\ logins' = Append(logins, [user |-> u, id |-> me.id])
  /\ session' = [session EXCEPT ![u] = "bind"]
  /\ UNCHANGED <<me, client, upload, rows, left>>

UuidBindUserId(u) ==
  /\ session[u] = "bind"
  /\ rows' = IF FindByUuid = 0 THEN rows ELSE [rows EXCEPT ![FindByUuid].owner = u]
  /\ session' = [session EXCEPT ![u] = "in"]
  /\ UNCHANGED <<me, client, upload, logins, left>>

\* Logout: the token goes, and then UuidUnbindUserId.
Logout(u) ==
  /\ session[u] = "in" /\ MayBegin
  /\ session' = [session EXCEPT ![u] = "unbind"]
  /\ UNCHANGED <<me, client, upload, rows, logins, left>>

UuidUnbindUserId(u) ==
  /\ session[u] = "unbind"
  /\ LET rs == {r \in DOMAIN rows : rows[r].there /\ rows[r].owner = u}
     IN rows' = IF rs = {} THEN rows ELSE [rows EXCEPT ![Oldest(rs)].owner = NoUser]
  /\ session' = [session EXCEPT ![u] = "out"]
  /\ UNCHANGED <<me, client, upload, logins, left>>

\* The administrator deletes a device, and with it the machine's tokens ...
Delete(r) ==
  /\ left.deletes > 0 /\ MayBegin
  /\ rows[r].there
  /\ rows' = [rows EXCEPT ![r].there = FALSE]
  /\ session' = [u \in User |-> IF session[u] = "in" THEN "out" ELSE session[u]]
  /\ left' = [left EXCEPT !.deletes = @ - 1]
  /\ UNCHANGED <<me, client, upload, logins>>

\* ... or a user, whose devices belong to nobody then (EraseUserId).  The
\* logins stay.
DeleteUser(u) ==
  /\ left.deletes > 0 /\ MayBegin
  /\ session[u] \in {"out", "in"}
  /\ session' = [session EXCEPT ![u] = "gone"]
  /\ rows' = [r \in DOMAIN rows |->
               IF rows[r].owner = u THEN [rows[r] EXCEPT !.owner = NoUser] ELSE rows[r]]
  /\ left' = [left EXCEPT !.deletes = @ - 1]
  /\ UNCHANGED <<me, client, upload, logins>>

-----------------------------------------------------------------------------
(* The machine and time.                                                   *)

Change ==
  /\ left.changes > 0
  /\ \/ \E i \in Id \ {me.id} : me' = [me EXCEPT !.id = i]
     \/ \E n \in Name \ {me.name} : me' = [me EXCEPT !.name = n]
     \/ client.pc = "idle" /\ me' = [me EXCEPT !.viewed = ~@]
  /\ left' = [left EXCEPT !.changes = @ - 1]
  /\ UNCHANGED <<client, upload, rows, logins, session>>

\* A tick of the client's interval; the loop is done with the one before.
Tick ==
  /\ client.pc = "idle" /\ ~client.due
  /\ client' = [client EXCEPT !.due = TRUE, !.wait = Sooner(@),
                              !.sent = IF @ < Beat THEN @ + 1 ELSE @]
  /\ rows' = [r \in DOMAIN rows |-> [rows[r] EXCEPT !.age = Older(@)]]
  /\ UNCHANGED <<me, upload, logins, session, left>>

ClientStep ==
  \/ Wake
  \/ \E s \in Slot : Uploaded(s) \/ NotUploaded(s) \/ AnswerIsDropped(s)
ServerStep == \E s \in Slot : SysInfoReads(s) \/ SysInfoWrites(s)
UserStep(u) ==
  Login(u) \/ UuidBindUserId(u) \/ Logout(u) \/ UuidUnbindUserId(u) \/ DeleteUser(u)

Next ==
  \/ ClientStep \/ ServerStep
  \/ Heartbeat \/ HeartbeatIsLost
  \/ Restart
  \/ \E u \in User : UserStep(u)
  \/ \E r \in DOMAIN rows : Delete(r)
  \/ Change \/ Tick

Spec == Init /\ [][Next]_vars

-----------------------------------------------------------------------------
(* Properties.                                                             *)

TypeOK ==
  /\ me \in [id : Id, name : Name, viewed : BOOLEAN]
  /\ client \in [pc : {"idle", "post", "beat"}, due : BOOLEAN, uploaded : BOOLEAN,
                 as : Id, name : Name \cup {Unnamed}, wait : 0..Retry,
                 sent : 0..Beat, slot : Slot \cup {0}]
  /\ upload \in [Slot -> [pc : {"none", "sent", "read", "answered"}, id : Id,
                          name : Name, row : 0..MaxRows, owner : User \cup {NoUser}]]
  /\ rows \in Seq(Rows) /\ Len(rows) <= MaxRows
  /\ logins \in Seq([user : User, id : Id]) /\ Len(logins) <= MaxLogins
  /\ session \in [User -> {"out", "bind", "in", "unbind", "gone"}]
  /\ left \in [changes : 0..Changes, restarts : 0..Restarts, deletes : 0..Deletes]

\* A device is in the list once: nothing in the table keeps a second row out,
\* only that an upload looks before it creates.
ListedOnce == \A id \in Id : Cardinality(RowsOf(id)) <= 1

\* A device belongs to nobody or to the user who was the last to log in on it,
\* whichever uploads and logouts came in between.
OwnerLoggedInLast ==
  (\A u \in User : session[u] # "bind") =>
    \A r \in DOMAIN rows : rows[r].there =>
      rows[r].owner \in {NoUser, FindLatestUserIdFromLoginLogByUuid(rows[r].id)}

\* A client that takes itself to be uploaded, with nothing on its way, is in
\* the list as it is.
BelievedIsListed ==
  (/\ client.uploaded /\ client.as = me.id
   /\ \A s \in Slot : upload[s].pc = "none") =>
     /\ FindById(me.id) # 0
     /\ rows[FindById(me.id)].name = client.name

\* A running client's time in the list is never older than the API's pace and
\* one heartbeat, though both wait for the other.
TimeIsFresh ==
  \A r \in DOMAIN rows :
    rows[r].there /\ rows[r].id = me.id => rows[r].age <= Pace + Beat - 1

\* index.go:57: the time of a row is not written again within 40 s.
PacedAsCommented ==
  [][\A r \in DOMAIN rows : rows'[r].age < rows[r].age /\ rows[r].seen
       => rows[r].age >= PaceComment]_vars

\* UuidUnbindUserId "unbinds the user, for the user's logout": a user who is
\* logged out of a machine does not own it.
LogoutUnbinds ==
  \A u \in User : session[u] = "out" =>
    \A r \in DOMAIN rows : rows[r].there => rows[r].owner # u

\* EraseUserId "clears the user, for the user's deletion": who was deleted owns
\* no device.
DeletedOwnsNothing ==
  \A u \in User : session[u] = "gone" =>
    \A r \in DOMAIN rows : rows[r].there => rows[r].owner # u

\* The client comes back at every tick, the API works on what it has received,
\* and not every upload is lost.
Fairness ==
  /\ WF_vars(Tick) /\ WF_vars(Wake) /\ WF_vars(Heartbeat)
  /\ WF_vars(\E s \in Slot : Uploaded(s) \/ AnswerIsDropped(s))
  /\ WF_vars(\E s \in Slot : NotUploaded(s))
  /\ SF_vars(\E s \in Slot : SysInfoReads(s))
  /\ WF_vars(\E s \in Slot : SysInfoWrites(s))
FairSpec == Spec /\ Fairness

InList(id, n) == \E r \in RowsOf(id) : rows[r].name = n

\* A client that runs gets into the list under its id and its user's name, and
\* back into it, unless they change first.
IsListed == InList(me.id, me.name)
Listed == []<>IsListed

=============================================================================
