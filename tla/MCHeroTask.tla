----------------------------- MODULE MCHeroTask -----------------------------
(* Instances of HeroTask for TLC. *)
EXTENDS HeroTask, TLC

Symmetry == Permutations(Workers) \cup Permutations(Tokens)
=============================================================================
