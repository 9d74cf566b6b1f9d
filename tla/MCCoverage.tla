------------------------------ MODULE MCCoverage ------------------------------
(* Instances of Coverage for TLC.                                            *)
EXTENDS Coverage

Bits == INSTANCE Bitwise

MCBitXor(a, b) == Bits!^^(a, b)

\* A walk through five blocks; its second and third transition share a counter.
MCTransitions == {<<0, 1>>, <<1, 2>>, <<2, 5>>, <<5, 5>>}
================================================================================
