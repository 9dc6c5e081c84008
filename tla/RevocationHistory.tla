-------------------------- MODULE RevocationHistory --------------------------
(***************************************************************************)
(* The refresh-token store with a history variable.  Reuse detection and   *)
(* logout-all read the rows they revoke in one SELECT and write them in a  *)
(* later commit; tokens that a rotation or a login stores in between are   *)
(* not revoked.  `late` remembers them, so that it can be said that        *)
(* nothing else survives.                                                  *)
(***************************************************************************)
EXTENDS RefreshTokens

VARIABLE late  \* for each thread, the tokens stored since it selected

hvars == <<clock, admin_emails, issued, refresh_tokens, session, late>>

(* The thread has selected what it is to revoke and has yet to commit.     *)
Selecting(w) == session[w].stage \in {"reuse_commit", "logout_all_commit"}

HistoryInit == Init /\ late = [w \in Workers |-> {}]

HistoryNext ==
  /\ Next
  /\ late' = [w \in Workers |->
                IF Selecting(w) /\ Selecting(w)'
                  THEN late[w] \cup (Given' \ Given) ELSE {}]

HistorySpec == HistoryInit /\ [][HistoryNext]_hvars

(* The rows that thread w is to revoke: those of the family of the reused  *)
(* token, or of the administrator who logs out.                            *)
Concerns(w, row) ==
  LET own == session[w].loaded[session[w].token]
  IN  IF session[w].stage = "reuse_commit"
        THEN row.family_id = own.family_id
        ELSE row.admin_email = own.admin_email

(* What survives a revocation.  When a reuse detection or a logout-all     *)
(* commits, each row of the family or administrator it is about is         *)
(* revoked, in whatever session and however it was changed since it was    *)
(* read, but for tokens that were given out between the SELECT and the     *)
(* commit.                                                                 *)
OnlyLateTokensSurvive ==
  [][\A w \in Workers :
       /\ Selecting(w)
       /\ session'[w].stage = "idle"
       /\ refresh_tokens' # refresh_tokens
       /\ Stored' = Stored
       => \A t \in Stored :
            Concerns(w, refresh_tokens[t]) /\ Unrevoked(refresh_tokens'[t])
              => t \in late[w]]_hvars
=============================================================================
