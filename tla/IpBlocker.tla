----------------------------- MODULE IpBlocker -----------------------------
(***************************************************************************)
(* hbbs: IP_BLOCKER, which limits how often an address may register a key  *)
(* and for how many ids (rustdesk-server/src/rendezvous_server.rs,         *)
(* check_ip_blocker and the administrator's command ip-blocker).           *)
(*                                                                         *)
(* Each of them holds the lock from its first to its last statement, so a  *)
(* call is one action.  Time is in seconds, and an age is counted up to the *)
(* first second past the limit that it is compared with.                   *)
(***************************************************************************)
EXTENDS Naturals, FiniteSets

CONSTANTS
  Ip, Id,
  Window,   \* IP_BLOCK_DUR, 60 s in the code
  Burst,    \* 30 in the code
  Day,      \* DAY_SECONDS
  IdLimit   \* 300 in the code

ASSUME LimitAssumption ==
  Window \in Nat /\ Burst \in Nat /\ Day \in Nat /\ IdLimit \in Nat

VARIABLES
  listed,     \* the keys of IP_BLOCKER
  blocker,    \* the entry of each
  passed,     \* history: the requests that passed the rate test within Window,
              \* each a number and an age
  introduced, \* history: since each id was let in as a new one
  lastPass,   \* history: since a request passed the rate test
  lastAdmit   \* history: since a request was let in

code == <<listed, blocker>>
history == <<passed, introduced, lastPass, lastAdmit>>
vars == <<code, history>>

\* hits and hitAge are the first counter, ids and idAge the second.
Entries == [hits : 0..(Burst + 1), hitAge : 0..(Window + 1),
            ids : SUBSET Id, idAge : 0..(Day + 1)]

Fresh == [hits |-> 0, hitAge |-> 0, ids |-> {}, idAge |-> 0]

Never(limit) == limit + 1
Older(n, limit) == IF n > limit THEN n ELSE n + 1

\* A number that tells a request from the others that passed within the second.
Unused(p) ==
  CHOOSE n \in 0..Cardinality(passed[p]) : <<n, 0>> \notin passed[p]

Init ==
  /\ listed = {}
  /\ blocker = [p \in Ip |-> Fresh]
  /\ passed = [p \in Ip |-> {}]
  /\ introduced = [p \in Ip |-> [i \in Id |-> Never(Day)]]
  /\ lastPass = [p \in Ip |-> Never(Window)]
  /\ lastAdmit = [p \in Ip |-> Never(Day)]

Passes(p) == p \in listed => blocker[p].hitAge > Window \/ blocker[p].hits <= Burst

\* Mutant: the limit is one entry further.
HasRoomForOneMore(p) == blocker[p].idAge > Day \/ Cardinality(blocker[p].ids) <= IdLimit + 1

HasRoom(p) == blocker[p].idAge > Day \/ Cardinality(blocker[p].ids) <= IdLimit

Admits(p, i) == Passes(p) /\ (p \in listed => HasRoom(p) \/ i \in blocker[p].ids)

\* Mutant: the counter starts again whatever its age.
CountedAnew(b) == [b EXCEPT !.hits = 1, !.hitAge = 0]

\* The first counter after a request that passed it.
Counted(b) ==
  [b EXCEPT !.hits = IF b.hitAge > Window THEN 1 ELSE b.hits + 1, !.hitAge = 0]

Pass(p) ==
  /\ passed' = [passed EXCEPT ![p] = @ \cup {<<Unused(p), 0>>}]
  /\ lastPass' = [lastPass EXCEPT ![p] = 0]

LetIn(p, i, isNew) ==
  /\ Pass(p)
  /\ introduced' = IF isNew THEN [introduced EXCEPT ![p][i] = 0] ELSE introduced
  /\ lastAdmit' = [lastAdmit EXCEPT ![p] = 0]

-----------------------------------------------------------------------------
\* The first request of an address makes the entry; it counts in neither counter.
First(p, i) ==
  /\ p \notin listed
  /\ listed' = listed \cup {p}
  /\ blocker' = [blocker EXCEPT ![p] = Fresh]
  /\ LetIn(p, i, TRUE)

\* Mutant: a refused request starts the minute again.
TooFastRenews(p) ==
  /\ ~Passes(p)
  /\ blocker' = [blocker EXCEPT ![p].hitAge = 0]
  /\ UNCHANGED <<listed, history>>

\* More than Burst in the minute: refused, and nothing changes.
TooFast(p) == ~Passes(p) /\ UNCHANGED vars

\* The address has too many ids for the day: a known one is let in, a new one is
\* refused, and both count in the first counter only.
Full(p, i) ==
  LET b == blocker[p] IN
  /\ p \in listed /\ Passes(p) /\ ~HasRoom(p)
  /\ blocker' = [blocker EXCEPT ![p] = Counted(b)]
  /\ IF i \in b.ids
     THEN LetIn(p, i, FALSE)
     ELSE Pass(p) /\ UNCHANGED <<introduced, lastAdmit>>
  /\ UNCHANGED listed

\* Let in, and the day begins again.  Whether the id is new is looked up before an
\* old day's ids are cleared: a known id that ends the day is not noted again.
Admit(p, i) ==
  LET b == blocker[p]
      isNew == i \notin b.ids
      kept == IF b.idAge > Day THEN {} ELSE b.ids IN
  /\ p \in listed /\ Passes(p) /\ HasRoom(p)
  /\ blocker' = [blocker EXCEPT ![p] =
                   [Counted(b) EXCEPT !.ids = IF isNew THEN kept \cup {i} ELSE kept,
                                      !.idAge = 0]]
  /\ LetIn(p, i, isNew)
  /\ UNCHANGED listed

\* What the administrator's commands drop before they answer.
Current == {p \in listed : blocker[p].hitAge <= Window \/ blocker[p].idAge <= Day}

Forget(P) == blocker' = [p \in Ip |-> IF p \in P THEN blocker[p] ELSE Fresh]

\* ip-blocker
Prune ==
  /\ listed' = Current
  /\ Forget(Current)
  /\ UNCHANGED history

\* ip-blocker <ip> -
Pardon(p) ==
  /\ listed' = Current \ {p}
  /\ Forget(Current \ {p})
  /\ passed' = [passed EXCEPT ![p] = {}]
  /\ introduced' = [introduced EXCEPT ![p] = [i \in Id |-> Never(Day)]]
  /\ UNCHANGED <<lastPass, lastAdmit>>

\* A second passes.
Tick ==
  /\ blocker' = [p \in Ip |-> IF p \in listed
                   THEN [blocker[p] EXCEPT !.hitAge = Older(@, Window),
                                           !.idAge = Older(@, Day)]
                   ELSE blocker[p]]
  /\ passed' = [p \in Ip |->
                  {<<e[1], e[2] + 1>> : e \in {e \in passed[p] : e[2] < Window}}]
  /\ introduced' = [p \in Ip |-> [i \in Id |-> Older(introduced[p][i], Day)]]
  /\ lastPass' = [p \in Ip |-> Older(lastPass[p], Window)]
  /\ lastAdmit' = [p \in Ip |-> Older(lastAdmit[p], Day)]
  /\ UNCHANGED listed

Next ==
  \/ \E p \in Ip :
       \/ TooFast(p) \/ Pardon(p)
       \/ \E i \in Id : First(p, i) \/ Full(p, i) \/ Admit(p, i)
  \/ Prune \/ Tick

Spec == Init /\ [][Next]_vars

-----------------------------------------------------------------------------
TypeOK ==
  /\ listed \subseteq Ip
  /\ blocker \in [Ip -> Entries]
  /\ passed \in [Ip -> SUBSET (Nat \X (0..Window))]
  /\ introduced \in [Ip -> [Id -> 0..Never(Day)]]
  /\ lastPass \in [Ip -> 0..Never(Window)]
  /\ lastAdmit \in [Ip -> 0..Never(Day)]

\* However an address spreads its requests, and whatever the administrator prunes,
\* at most Burst + 2 pass the rate test in any Window seconds between pardons: the
\* one that makes the entry is not counted, and Burst + 1 may follow.
BurstIsBounded == \A p \in Ip : Cardinality(passed[p]) <= Burst + 2

\* At most IdLimit + 2 ids of an address are let in as new ones in any Day seconds:
\* the id of the request that makes the entry is not noted, and the set may grow to
\* IdLimit + 1.
NewIdsAreBounded ==
  \A p \in Ip : Cardinality({i \in Id : introduced[p][i] <= Day}) <= IdLimit + 2

\* Nobody is locked out by insisting.  A request is only refused within Window
\* seconds of one that passed the rate test, or, for an id not noted, within Day
\* seconds of one of its address that was let in.
BlocksExpire ==
  \A p \in Ip, i \in Id : ~Admits(p, i) =>
    \/ lastPass[p] <= Window
    \/ lastAdmit[p] <= Day /\ i \notin blocker[p].ids
=============================================================================
