--------------------------- MODULE MCDrainManager ---------------------------
(***************************************************************************)
(* DrainManager for TLC: a chain of three objects, each of which may       *)
(* disturb the next, so that a drain takes up to four rounds, and two      *)
(* objects with a limited life that take work from them.                   *)
(***************************************************************************)
EXTENDS DrainManager
CONSTANTS o1, o2, o3, d1, d2

MCObjects == {o1, o2, o3, d1, d2}
MCFeeds == {<<o1, o2>>, <<o2, o3>>, <<o1, d1>>, <<o2, d2>>}
=============================================================================
