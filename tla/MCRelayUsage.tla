---------------------------- MODULE MCRelayUsage ----------------------------
(***************************************************************************)
(* RelayPairing on four connections, so that two relays can run at once.   *)
(* Two of them are WebSocket connections behind one address and share      *)
(* their USAGE key; hbbr checks no licence key.                            *)
(***************************************************************************)
EXTENDS RelayPairing, TLC

CONSTANTS t1, t2, w1, w2, u1, u2

MCConn == {t1, t2, w1, w2}
MCUuid == {u1, u2}
MCWs == {w1, w2}
MCUsageId == [c \in MCConn |-> IF c \in MCWs THEN "ws:0" ELSE c]
MCUsage == {"ws:0", t1, t2}
Symmetry == Permutations({t1, t2}) \cup Permutations({w1, w2}) \cup Permutations(MCUuid)
=============================================================================
