----------------------------- MODULE MCParallelSim -----------------------------
(* Two queues, a quantum of two ticks and two calls of simulate().            *)
EXTENDS ParallelSim

MCCycles == {1, 6}
================================================================================
