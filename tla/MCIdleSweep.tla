---------------------------- MODULE MCIdleSweep ----------------------------
(* Small instances of IdleSweep for TLC; liveness is checked, so the        *)
(* sessions are not declared symmetric.                                     *)
EXTENDS IdleSweep, TLC
=============================================================================
