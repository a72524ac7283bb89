------------------------------ MODULE MCTrade ------------------------------
(* Small instances of Trade for TLC; liveness is checked, so nothing is     *)
(* declared symmetric.                                                       *)
EXTENDS Trade, TLC
=============================================================================
