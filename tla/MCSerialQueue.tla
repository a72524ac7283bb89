--------------------------- MODULE MCSerialQueue ---------------------------
(* A small instance of SerialQueue for TLC; liveness is checked, so nothing  *)
(* is declared symmetric.                                                    *)
EXTENDS SerialQueue, TLC
=============================================================================
