----------------------------- MODULE Rendezvous -----------------------------
(***************************************************************************)
(* What a relay promises, whatever it keeps in memory: connections name a  *)
(* session, two that named the same one may be linked, a link joins them   *)
(* for good and is broken for both at once, and a connection that left is  *)
(* never linked.                                                           *)
(***************************************************************************)
CONSTANTS Conn, NoConn, Uuid, NoUuid

VARIABLES
  name,  \* the session each connection asked for
  mate,  \* the connection each is, or was, linked to
  gone   \* the connections that are over

Free(c) == c \notin gone /\ mate[c] = NoConn

Init ==
  /\ name = [c \in Conn |-> NoUuid]
  /\ mate = [c \in Conn |-> NoConn]
  /\ gone = {}

Ask(c, u) ==
  /\ Free(c) /\ name[c] = NoUuid
  /\ name' = [name EXCEPT ![c] = u]
  /\ UNCHANGED <<mate, gone>>

\* A request that is turned down.
Refuse(c, u) ==
  /\ Free(c) /\ name[c] = NoUuid
  /\ name' = [name EXCEPT ![c] = u]
  /\ gone' = gone \cup {c}
  /\ UNCHANGED mate

Link(c, d) ==
  /\ c # d /\ Free(c) /\ Free(d)
  /\ name[c] = name[d] /\ name[c] \in Uuid
  /\ mate' = [mate EXCEPT ![c] = d, ![d] = c]
  /\ UNCHANGED <<name, gone>>

Leave(c) ==
  /\ Free(c)
  /\ gone' = gone \cup {c}
  /\ UNCHANGED <<name, mate>>

Part(c, d) ==
  /\ mate[c] = d /\ d \in Conn
  /\ {c, d} \cap gone = {}
  /\ gone' = gone \cup {c, d}
  /\ UNCHANGED <<name, mate>>

Next ==
  \/ \E c \in Conn, u \in Uuid \cup {NoUuid} : Ask(c, u) \/ Refuse(c, u)
  \/ \E c \in Conn : Leave(c)
  \/ \E c, d \in Conn : Link(c, d) \/ Part(c, d)

Spec == Init /\ [][Next]_<<name, mate, gone>>
=============================================================================
