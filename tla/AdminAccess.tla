----------------------------- MODULE AdminAccess -----------------------------
(***************************************************************************)
(* Access tokens on top of the refresh-token store: what login and refresh *)
(* hand out besides the refresh token, and what get_current_admin of       *)
(* app/api/deps.py accepts.  An access token has no row: nothing revokes   *)
(* it, it only expires.  A login creates it before its commit, a refresh   *)
(* after its commit, when another handler may have ended the session.      *)
(***************************************************************************)
EXTENDS RefreshTokens

CONSTANT AccessLifetime   \* jwt_access_token_expire_minutes, in ticks

ASSUME AccessAssumption == AccessLifetime \in Nat

VARIABLES
  access,    \* when the access token handed out with a refresh token expires
  response,  \* the rotation a thread has committed and not answered yet
  closed_at  \* history: when a family was first closed

access_vars == <<vars, access, response, closed_at>>

(* create_access_token at time now: its exp claim. *)
AccessExpiry(now) == now + AccessLifetime

(* Mutant of Admitted: the exp claim is not verified.                      *)
AdmittedUnexpiring(t) == access[t] # NULL /\ issued[t].sub \in admin_emails

(* get_current_admin accepts the access token handed out with t.  The JWT  *)
(* library rejects exp < now only.                                         *)
Admitted(t) ==
  /\ access[t] # NULL
  /\ access[t] >= clock
  /\ issued[t].sub \in admin_emails

AccessInit ==
  /\ Init
  /\ access = [t \in Tokens |-> NULL]
  /\ response = [w \in Workers |-> NULL]
  /\ closed_at = [f \in Families |-> NULL]

LoginAnswer(w, n, f) ==
  /\ LoginInsert(w, n, f)
  /\ access' = [access EXCEPT ![n] = AccessExpiry(session[w].now)]
  /\ UNCHANGED response

RefreshCommit(w, n) ==
  /\ RefreshRotate(w, n)
  /\ response' = [response EXCEPT ![w] = [token |-> n, now |-> session[w].now]]
  /\ UNCHANGED access

RefreshAnswer(w) ==
  /\ response[w] # NULL
  /\ access' = [access EXCEPT ![response[w].token] = AccessExpiry(clock)]
  /\ response' = [response EXCEPT ![w] = NULL]
  /\ UNCHANGED vars

(* Every other step of a handler hands out nothing. *)
ServeWithout(w) ==
  /\ response[w] = NULL
  /\ Serve(w)
  /\ UNCHANGED <<issued, access, response>>

AccessCleanup == Cleanup /\ UNCHANGED <<access, response>>

AccessTick ==
  /\ \A w \in Workers :
       response[w] # NULL => clock < response[w].now + MaxDelay
  /\ Tick
  /\ UNCHANGED <<access, response>>

(* The answers under way are lost with the process.                        *)
AccessRestart(emails) ==
  /\ Restart(emails)
  /\ response' = [w \in Workers |-> NULL]
  /\ UNCHANGED access

AccessStep ==
  \/ \E w \in Workers, n \in Tokens, f \in Families : LoginAnswer(w, n, f)
  \/ \E w \in Workers, n \in Tokens : RefreshCommit(w, n)
  \/ \E w \in Workers : RefreshAnswer(w)
  \/ \E w \in Workers : ServeWithout(w)
  \/ AccessCleanup
  \/ AccessTick
  \/ \E emails \in Configs : AccessRestart(emails)

AccessNext ==
  /\ AccessStep
  /\ closed_at' = [f \in Families |->
       IF closed_at[f] = NULL /\ Closed(f)' THEN clock' ELSE closed_at[f]]

AccessSpec == AccessInit /\ [][AccessNext]_access_vars
-----------------------------------------------------------------------------
(* Ending a session does not end its access tokens: get_current_admin goes *)
(* on accepting them, even one created after the session was closed, by a  *)
(* rotation that had committed before.  But for no longer than an access   *)
(* token lives and a handler takes.                                        *)
ExposureBounded ==
  \A t \in Given :
    LET f == issued[t].fam
    IN  closed_at[f] # NULL /\ Admitted(t)
          => clock <= closed_at[f] + MaxDelay + AccessLifetime
=============================================================================
