-------------------------- MODULE MCNoncoherentXBar -------------------------
(***************************************************************************)
(* Instances of NoncoherentXBar for TLC: three masters that compete for    *)
(* s1, one of them with a request for s2 as well so that responses of two  *)
(* memories meet in its layer.  The write of m3 has no response.           *)
(***************************************************************************)
EXTENDS NoncoherentXBar, TLC

CONSTANTS m1, m2, m3, s1, s2, a1, a2, b1, w3

(* The layers that are asked to drain: one of each kind.                   *)
MCDrained == {m1, s1}

MCMasters == {m1, m2, m3}
MCMemories == {s1, s2}
MCPackets == {a1, a2, b1, w3}
MCSrc == a1 :> m1 @@ a2 :> m1 @@ b1 :> m2 @@ w3 :> m3
MCDst == a1 :> s1 @@ a2 :> s2 @@ b1 :> s1 @@ w3 :> s1
MCNeedsResponse == {a1, a2, b1}
=============================================================================
