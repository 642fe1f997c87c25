--------------------------- MODULE MCRunController ---------------------------
(* Instances of RunController for TLC: the cards are interchangeable.      *)
EXTENDS RunController, TLC

Symmetry == Permutations(Cards)
=============================================================================
