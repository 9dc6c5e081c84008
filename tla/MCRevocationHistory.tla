------------------------- MODULE MCRevocationHistory -------------------------
(* RevocationHistory and the refinement on a small instance, for TLC.      *)
EXTENDS RevocationHistory, RefreshTokensRefinement, TLC

(* No definition tells two tokens, two families or two workers apart, and  *)
(* only Configs two administrators: here it has all of them.               *)
Symmetry == Permutations(Tokens) \cup Permutations(Families)
              \cup Permutations(Workers) \cup Permutations(Admins)
=============================================================================
