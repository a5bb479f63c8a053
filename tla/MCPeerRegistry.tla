--------------------------- MODULE MCPeerRegistry ---------------------------
(***************************************************************************)
(* PeerRegistry on one id, two machines, two keys and two addresses; three *)
(* requests, so that a third one meets what a race of two left behind.     *)
(***************************************************************************)
EXTENDS PeerRegistry, TLC

CONSTANTS t1, t2, t3, i1, m1, m2, k1, k2, a1, a2

MCTask == {t1, t2, t3}
MCId == {i1}
MCUuid == {m1, m2}
MCPk == {k1, k2}
MCIp == {a1, a2}
Symmetry ==
  Permutations(MCTask) \cup Permutations(MCUuid) \cup Permutations(MCPk)
    \cup Permutations(MCIp)
\* For runs where one of the addresses is the loopback.
SerialSymmetry ==
  Permutations(MCTask) \cup Permutations(MCUuid) \cup Permutations(MCPk)
\* For runs with one machine and one key.
AddressSymmetry == Permutations(MCTask) \cup Permutations(MCIp)
=============================================================================
