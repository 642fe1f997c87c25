------------------------------ MODULE MCEgress ------------------------------
EXTENDS Egress, TLC

(* Clients and sessions differ in their names only, and so do calls.       *)
Symmetry == Permutations(Clients) \cup Permutations(Sessions) \cup Permutations(Calls)

(* Addresses inside, at the edge of and next to the reserved blocks.       *)
Public4 == <<100, 128, 0, 1>>
MCLiterals == {Public4, <<172, 16, 0, 1>>, <<0, 0, 0, 0, 0, 65535, 43518, 1>>}
MCResolutions == {<<Public4>>, <<<<8193, 0, 0, 0, 0, 0, 0, 1>>, <<100, 127, 0, 1>>>>,
                  <<<<0, 0, 0, 0, 0, 65535, 32513, 1>>>>, <<<<65151, 0, 0, 0, 0, 0, 0, 1>>>>,
                  <<<<65215, 0, 0, 0, 0, 0, 0, 1>>>>}
=============================================================================
