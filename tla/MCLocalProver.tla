---------------------------- MODULE MCLocalProver ----------------------------
(* Instances of LocalProver for TLC *)
EXTENDS LocalProver, TLC

ThreadSymmetry == Permutations(Threads)

=============================================================================
