---------------------------- MODULE MCImpatomic ----------------------------
(* Impatomic for TLC.                                                      *)
EXTENDS Impatomic

Symmetry == Permutations(Thread)
=============================================================================
