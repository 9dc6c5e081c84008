---------------------------- MODULE MCAdminAccess ----------------------------
(* AdminAccess on a small instance, for TLC.                               *)
EXTENDS AdminAccess, TLC

(* No definition tells two tokens, two families or two workers apart.      *)
Symmetry == Permutations(Tokens) \cup Permutations(Families)
              \cup Permutations(Workers)
=============================================================================
