--------------------------- MODULE MCRefreshTokens ---------------------------
(* RefreshTokens on small instances, for TLC.                              *)
EXTENDS RefreshTokens, TLC

(* No definition tells two tokens, two families or two workers apart.      *)
Symmetry == Permutations(Tokens) \cup Permutations(Families)
              \cup Permutations(Workers)
=============================================================================
