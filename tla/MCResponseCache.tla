-------------------------- MODULE MCResponseCache --------------------------
(* ResponseCache for TLC: the readers are interchangeable. *)
EXTENDS ResponseCache, TLC

ReaderSymmetry == Permutations(Readers)
=============================================================================
