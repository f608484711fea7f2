--------------------------- MODULE MCSettingsStore ---------------------------
(* Two settings of two values, and one pair of them that does not validate. *)
EXTENDS SettingsStore

MCKeys     == {"label", "memory"}
MCValues   == {0, 1}
MCDefaults == [k \in MCKeys |-> 0]
MCInvalid  == {[k \in MCKeys |-> IF k = "memory" THEN 1 ELSE 0]}
MCHookKeys == {"memory"}

\* Nothing tells one inode from another.
MCSymmetry == Permutations(Inodes)
=============================================================================
