--------------------------- MODULE MCDmaReadFifo ----------------------------
(***************************************************************************)
(* DmaReadFifo for TLC: blocks of one and of three words, so that the last *)
(* request of a block is short and a block may end where it starts; a FIFO *)
(* of five and three events, so that either can be what requests wait for; *)
(* reads of up to four words, the largest that leave room for a request.   *)
(***************************************************************************)
EXTENDS DmaReadFifo
=============================================================================
