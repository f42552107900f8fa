----------------------------- MODULE MCMIExample -----------------------------
(***************************************************************************)
(* MIExample for TLC.                                                      *)
(***************************************************************************)
EXTENDS MIExample
CONSTANTS c1, c2, p1, d1, d2, a, b

OneHome == [x \in Addr |-> d1]
TwoHomes == [x \in Addr |-> IF x = a THEN d1 ELSE d2]
OneReplaces == ({c2} \X {"Load", "Store"} \X {a})
               \union {<<c1, "Store", a>>, <<c1, "Load", b>>, <<p1, "READ", a>>, <<p1, "WRITE", a>>}
All == ({c1, c2} \X {"Store"} \X {a, b})
               \union ({p1} \X {"READ"} \X {a, b})
==============================================================================
