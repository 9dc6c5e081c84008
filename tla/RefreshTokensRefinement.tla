----------------------- MODULE RefreshTokensRefinement -----------------------
(* The refresh-token store implements Sessions.  Deleting a row that the   *)
(* cleanup may delete is a stutter: such a row is dead already.            *)
EXTENDS RefreshTokens

State(t) ==
  CASE t \notin Given -> "unissued"
    [] t \in Stored /\ Live(refresh_tokens[t]) -> "live"
    [] OTHER -> "dead"

Family(t) == IF t \in Given THEN issued[t].fam ELSE NULL

RotatedFamily(w) ==
  IF session[w].stage = "rotate"
    THEN session[w].loaded[session[w].token].family_id
    ELSE NULL

S == INSTANCE Sessions WITH
       state    <- [t \in Tokens |-> State(t)],
       family   <- [t \in Tokens |-> Family(t)],
       rotating <- [w \in Workers |-> RotatedFamily(w)]

(* Whatever the interleaving of handlers, cleanups, restarts and failed    *)
(* requests, clients see the sessions that Sessions describes: a rotation  *)
(* extends only the session of the token it was given, tokens die and      *)
(* never revive, and a session that has ended stays ended.                 *)
ImplementsSessions == S!Spec
=============================================================================
