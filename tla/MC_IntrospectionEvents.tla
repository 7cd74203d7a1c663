------------------------- MODULE MC_IntrospectionEvents -------------------------
(* Handle values are model values, interchangeable under symmetry.         *)
EXTENDS IntrospectionEvents, TLC

CONSTANTS h1, h2, h3

HandleSymmetry == Permutations({h1, h2, h3})
=============================================================================
