------------------------------ MODULE MCMemeCoin ------------------------------
(* An instance of MemeCoin for TLC: words of four bits, a fee of a quarter.  *)
EXTENDS MemeCoin, TLC

MCAuthority == [m \in {"lp"} |-> "pool"]

Symmetry == Permutations(Users)
================================================================================
