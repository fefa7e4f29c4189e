--------------------------- MODULE MCExpertCache ---------------------------
(* Instances of ExpertCache for TLC: experts are alike. *)
EXTENDS ExpertCache, TLC

ExpertSymmetry == Permutations(Experts)
=============================================================================
