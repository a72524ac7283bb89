--------------------------- MODULE MCS2sConnector ---------------------------
(* A small instance of S2sConnector for TLC; liveness is checked, so the     *)
(* requests are not declared symmetric.                                      *)
EXTENDS S2sConnector, TLC
=============================================================================
