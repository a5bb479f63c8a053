---------------------------- MODULE MCPunchBroker ----------------------------
(***************************************************************************)
(* PunchBroker on one host and three connections: v has an address of its  *)
(* own, p and q are WebSocket connections behind one proxy.                *)
(***************************************************************************)
EXTENDS PunchBroker

CONSTANTS v, p, q, h

MCConn == {v, p, q}
MCWs == {p, q}
MCAddrOf == [c \in MCConn |-> IF c = v THEN "direct" ELSE "proxy:0"]
MCAddr == {"direct", "proxy:0"}
MCHost == {h}
=============================================================================
