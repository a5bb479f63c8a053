--------------------------- MODULE MCRelayPairing ---------------------------
(***************************************************************************)
(* RelayPairing on three connections: the two parties of a session and a   *)
(* third that presents the same uuid (a repeated request) or another one.  *)
(* Two are TCP, so that a pair may be raw, and one is a WebSocket.         *)
(***************************************************************************)
EXTENDS RelayPairing

CONSTANTS c1, c2, c3, u1, u2, k1, k2, i1, i2, i3

MCConn == {c1, c2, c3}
MCUuid == {u1, u2}
MCKey == {k1, k2}
MCWs == {c3}
MCUsage == {i1, i2, i3}
MCUsageId == [c \in MCConn |-> IF c = c1 THEN i1 ELSE IF c = c2 THEN i2 ELSE i3]
=============================================================================
