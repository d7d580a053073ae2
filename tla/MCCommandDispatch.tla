------------------------- MODULE MCCommandDispatch -------------------------
(* CommandDispatch for TLC: groups and emojis are interchangeable. *)
EXTENDS CommandDispatch, TLC

NameSymmetry == Permutations(Groups) \cup Permutations(Emojis)
=============================================================================
