-------------------------------- MODULE MCStock --------------------------------
(* An instance of Stock for TLC: two seconds of window, words of four bits.  *)
EXTENDS Stock, TLC

Symmetry == Permutations(Users)
================================================================================
