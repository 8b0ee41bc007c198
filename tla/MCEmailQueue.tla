--------------------------- MODULE MCEmailQueue -----------------------------
(* A small instance of EmailQueue.                                         *)
EXTENDS EmailQueue, TLC
=============================================================================
