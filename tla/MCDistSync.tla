------------------------------ MODULE MCDistSync ------------------------------
(* Two nodes and a switch; the nodes agree on a repeat below the switch's.   *)
EXTENDS DistSync

CONSTANTS n1, n2, sw

MCRepeat == [p \in Procs |-> IF p = Switch THEN 3 ELSE 2]
MCTalking == {<<n1, sw>>, <<sw, n2>>}
OnCkptOffExit == <<"toggle", "ckpt", "toggle", "exit">>
OnCkptExitNow == <<"toggle", "ckpt", "exitNow">>
OnCkptNowExitNow == <<"toggle", "ckptNow", "exitNow">>
UnsyncedExitNow == <<"exitNow">>
MCPrograms == {OnCkptOffExit, OnCkptExitNow, OnCkptNowExitNow, UnsyncedExitNow}
================================================================================
