----------------------------- MODULE MCSendPipe -----------------------------
(* A small instance of SendPipe for TLC; liveness is checked, so the threads *)
(* are not declared symmetric.                                               *)
EXTENDS SendPipe, TLC
=============================================================================
