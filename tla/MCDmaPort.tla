----------------------------- MODULE MCDmaPort ------------------------------
(***************************************************************************)
(* DmaPort for TLC: one write spans two cache lines, so that a transfer    *)
(* can be partly answered; there is one transfer more than channels, so    *)
(* that a channel can hold packets of two.                                 *)
(***************************************************************************)
EXTENDS DmaPort, TLC
CONSTANTS r1, w1, w2, w3

MCActions == {r1, w1, w2}
MCWrites == {w1, w2}
MCChunks == r1 :> 1 @@ w1 :> 2 @@ w2 :> 1

MCActions4 == {r1, w1, w2, w3}
MCWrites4 == {w1, w2, w3}
MCChunks4 == r1 :> 1 @@ w1 :> 2 @@ w2 :> 1 @@ w3 :> 1
=============================================================================
