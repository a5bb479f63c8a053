----------------------------- MODULE SideBySide -----------------------------
(***************************************************************************)
(* What the MC modules of several components share.                        *)
(*                                                                         *)
(* Components that share no state need not be explored in each other's     *)
(* company: whatever one does, the others' states stay what they were, so   *)
(* a property of one holds in their product when it holds with the others  *)
(* at rest.  An MC module instantiates several of them; "part" says which  *)
(* one a behaviour runs, and x1, x2, ... are the variables of that one, in  *)
(* the order in which its module declares them.                            *)
(***************************************************************************)
EXTENDS Naturals

VARIABLES part,
  x1, x2, x3, x4, x5, x6, x7, x8, x9, x10, x11,
  x12, x13, x14, x15, x16, x17, x18, x19, x20, x21, x22

all == <<part, x1, x2, x3, x4, x5, x6, x7, x8, x9, x10, x11,
         x12, x13, x14, x15, x16, x17, x18, x19, x20, x21, x22>>

Unused == "unused"

\* A part with n variables begins ...
Begin(name, n) ==
  /\ part = name
  /\ (n < 1 => x1 = Unused) /\ (n < 2 => x2 = Unused) /\ (n < 3 => x3 = Unused)
  /\ (n < 4 => x4 = Unused) /\ (n < 5 => x5 = Unused) /\ (n < 6 => x6 = Unused)
  /\ (n < 7 => x7 = Unused) /\ (n < 8 => x8 = Unused) /\ (n < 9 => x9 = Unused)
  /\ (n < 10 => x10 = Unused) /\ (n < 11 => x11 = Unused) /\ (n < 12 => x12 = Unused)
  /\ (n < 13 => x13 = Unused) /\ (n < 14 => x14 = Unused) /\ (n < 15 => x15 = Unused)
  /\ (n < 16 => x16 = Unused) /\ (n < 17 => x17 = Unused) /\ (n < 18 => x18 = Unused)
  /\ (n < 19 => x19 = Unused) /\ (n < 20 => x20 = Unused) /\ (n < 21 => x21 = Unused)
  /\ (n < 22 => x22 = Unused)

\* ... and goes on.
Go(name, n) ==
  /\ part = name
  /\ UNCHANGED part
  /\ (n < 1 => x1' = x1) /\ (n < 2 => x2' = x2) /\ (n < 3 => x3' = x3)
  /\ (n < 4 => x4' = x4) /\ (n < 5 => x5' = x5) /\ (n < 6 => x6' = x6)
  /\ (n < 7 => x7' = x7) /\ (n < 8 => x8' = x8) /\ (n < 9 => x9' = x9)
  /\ (n < 10 => x10' = x10) /\ (n < 11 => x11' = x11) /\ (n < 12 => x12' = x12)
  /\ (n < 13 => x13' = x13) /\ (n < 14 => x14' = x14) /\ (n < 15 => x15' = x15)
  /\ (n < 16 => x16' = x16) /\ (n < 17 => x17' = x17) /\ (n < 18 => x18' = x18)
  /\ (n < 19 => x19' = x19) /\ (n < 20 => x20' = x20) /\ (n < 21 => x21' = x21)
  /\ (n < 22 => x22' = x22)
=============================================================================
