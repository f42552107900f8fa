------------------------------ MODULE MCBridge ------------------------------
(***************************************************************************)
(* Bridge for TLC: three packets that expect a response and one that does  *)
(* not, so that a request queue of two and two response slots can each be  *)
(* the one that is full.                                                   *)
(***************************************************************************)
EXTENDS Bridge
CONSTANTS p1, p2, p3, w1

MCNeedsResponse == {p1, p2, p3}
MCPackets == MCNeedsResponse \cup {w1}
=============================================================================
