--------------------------- MODULE MCSessionLife ---------------------------
(* Small instances of SessionLife for TLC. *)
EXTENDS SessionLife, TLC

Symmetry == Permutations(Sessions) \cup Permutations(IoWorkers)
    \cup Permutations(PoolWorkers) \cup Permutations(Closers)
=============================================================================
