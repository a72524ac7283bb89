------------------------------ MODULE MCRoster ------------------------------
(* Small instances of Roster for TLC. *)
EXTENDS Roster, TLC

Symmetry == Permutations(Players) \cup Permutations(Sessions) \cup Permutations(Zones)
=============================================================================
