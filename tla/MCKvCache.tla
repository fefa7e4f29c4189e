----------------------------- MODULE MCKvCache -----------------------------
(* Instances of KvCache for TLC: two tokens, which are alike. *)
EXTENDS KvCache, TLC

TokenSymmetry == Permutations(Tokens)
=============================================================================
