---------------------------- MODULE MCPacketQueue ---------------------------
(***************************************************************************)
(* Instances of PacketQueue for TLC: three packets, two of them for one    *)
(* address.                                                                *)
(***************************************************************************)
EXTENDS PacketQueue, TLC

CONSTANTS p1, p2, p3, x, y

MCPackets == {p1, p2, p3}
MCAddr == p1 :> x @@ p2 :> x @@ p3 :> y
=============================================================================
