--------------------------- MODULE MCMediaChoice ---------------------------
(* The 62 mm roll, which may be the black and red one, and the 29 mm roll. *)
EXTENDS MediaChoice, TLC

CONSTANTS tape62, red62, tape29

MCLabels == {tape62, red62, tape29}
MCMedia == {{tape62, red62}, {tape29}}
MCPlain == [m \in MCMedia |-> IF tape62 \in m THEN tape62 ELSE tape29]

Slots == Permutations(Saves) \cup Permutations(Checks)
=============================================================================
