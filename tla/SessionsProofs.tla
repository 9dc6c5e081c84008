--------------------------- MODULE SessionsProofs ---------------------------
(***************************************************************************)
(* What the refresh-token store makes of sessions, for every value of the  *)
(* constants: tokens die and never revive, a family is extended only by a  *)
(* rotation that read one of its tokens while it was live, a session that  *)
(* has ended stays ended, and all of it implements Sessions.               *)
(***************************************************************************)
EXTENDS RefreshTokensProofs, RefreshTokensRefinement, RevocationHistory, FiniteSetTheorems

USE ConfigAssumption, NullAssumption

(* A commit of a revocation, or a failure, ends the handler.               *)
LEMMA EndsIdle ==
  ASSUME session \in [Workers -> Request], NEW w \in Workers,
         \/ ReuseCommit(w) \/ LogoutCommit(w) \/ LogoutAllCommit(w)
         \/ RequestFails(w)
  PROVE  session'[w] = Idle /\ session'[w].stage = "idle"
<1>1. session' = [session EXCEPT ![w] = Idle]
  <2>1. ASSUME NEW stage, NEW reason, NEW by, NEW reused, Revoke(w, stage, reason, by, reused)
        PROVE  session' = [session EXCEPT ![w] = Idle]
    BY <2>1 DEF Revoke
  <2>2. CASE RequestFails(w)
    BY <2>2 DEF RequestFails
  <2>. QED
    BY <2>1, <2>2 DEF ReuseCommit, LogoutCommit, LogoutAllCommit
<1>2. session'[w] = Idle
  BY <1>1
<1>. QED
  BY <1>2 DEF Idle

(* What a rotation leaves of the row that it replaces.                     *)
LEMMA RotatedRow ==
  ASSUME refresh_tokens \in [Tokens -> Row \cup {NULL}],
         NEW w \in Workers, NEW n \in Tokens, RefreshRotate(w, n),
         session[w].token \in Tokens, session[w].token # n
  PROVE  LET t == session[w].token
         IN  refresh_tokens'[t] =
               [Stamped(refresh_tokens[t], session[w].loaded[t], session[w].now,
                        "rotated", "system") EXCEPT !.replaced_by_id = n]
<1> DEFINE t == session[w].token
           row == [Stamped(refresh_tokens[t], session[w].loaded[t], session[w].now,
                           "rotated", "system") EXCEPT !.replaced_by_id = n]
           table == [refresh_tokens EXCEPT ![t] = row]
<1>1. \E new : refresh_tokens' = [table EXCEPT ![n] = new]
  BY DEF RefreshRotate, Issue
<1> HIDE DEF row
<1>2. table[t] = row /\ DOMAIN table = Tokens
  OBVIOUS
<1> HIDE DEF table
<1>3. refresh_tokens'[t] = row
  BY <1>1, <1>2
<1>. QED
  BY <1>3 DEF row

(* Time does not run backwards, and claims once signed do not change.      *)
LEMMA ClaimsStay ==
  ASSUME Inv, [Next]_vars
  PROVE  /\ clock <= clock'
         /\ \A t \in Given : t \in Given' /\ issued'[t] = issued[t]
<1>1. clock \in Nat /\ issued \in [Tokens -> Claims \cup {NULL}]
  BY DEF Inv, TypeInv, TypeOK
<1>2. CASE UNCHANGED <<clock, issued>>
  BY <1>1, <1>2 DEF Given
<1>3. CASE Tick
  BY <1>1, <1>3 DEF Tick, Given
<1>4. ASSUME NEW w \in Workers, NEW n \in Tokens, NEW f \in Families, LoginInsert(w, n, f)
      PROVE  UNCHANGED clock /\ \A t \in Given : t \in Given' /\ issued'[t] = issued[t]
  BY <1>1, <1>4 DEF LoginInsert, Issue, Given
<1>5. ASSUME NEW w \in Workers, NEW n \in Tokens, RefreshRotate(w, n)
      PROVE  UNCHANGED clock /\ \A t \in Given : t \in Given' /\ issued'[t] = issued[t]
  BY <1>1, <1>5 DEF RefreshRotate, Issue, Given
<1>6. \/ UNCHANGED <<clock, issued>>
      \/ Tick
      \/ \E w \in Workers : \/ \E n \in Tokens, f \in Families : LoginInsert(w, n, f)
                            \/ \E n \in Tokens : RefreshRotate(w, n)
  <2>1. ASSUME NEW w \in Workers, Serve(w)
        PROVE  \/ UNCHANGED <<clock, issued>>
               \/ \E n \in Tokens, f \in Families : LoginInsert(w, n, f)
               \/ \E n \in Tokens : RefreshRotate(w, n)
    BY <2>1 DEF Serve, LoginStart, LoginCount,
       RefreshLookup, RefreshReused, LogoutLookup, LogoutAllLookup, Start,
       ReuseSelect, LogoutAllSelect, Select, RequestFails,
       ReuseCommit, LogoutCommit, LogoutAllCommit, Revoke
  <2>. QED
    BY <2>1 DEF Next, vars, Cleanup, Restart
<1> QED
  BY <1>1, <1>2, <1>3, <1>4, <1>5, <1>6

(* A row is stored once, when its token is issued, and a revoked row stays *)
(* revoked: whatever a handler has read, no update clears revoked_at.      *)
LEMMA RowsOnlyDie ==
  ASSUME Inv, [Next]_vars, NEW t \in Given, t \in Stored'
  PROVE  t \in Stored /\ (~Unrevoked(refresh_tokens[t]) => ~Unrevoked(refresh_tokens'[t]))
<1>1. t \in Tokens /\ refresh_tokens \in [Tokens -> Row \cup {NULL}]
  BY DEF Given, Inv, TypeInv, TypeOK
<1>2. CASE refresh_tokens' = refresh_tokens
  BY <1>2 DEF Stored
<1>3. CASE refresh_tokens' = Purged
  <2>1. t \in Kept /\ t \in Stored /\ refresh_tokens[t] \in Row
    BY <1>3, PurgedStored, Types DEF Stored, Kept, Inv
  <2>2. refresh_tokens'[t] = [refresh_tokens[t] EXCEPT
                                !.replaced_by_id = IF @ \in Kept THEN @ ELSE NULL]
    BY <1>1, <1>3, <2>1 DEF Purged
  <2> QED
    BY <2>1, <2>2 DEF Row, Unrevoked
<1>4. ASSUME NEW w \in Workers, NEW n \in Tokens, NEW f \in Families, LoginInsert(w, n, f)
      PROVE  refresh_tokens'[t] = refresh_tokens[t]
  BY <1>1, <1>4 DEF LoginInsert, Issue
<1>5. ASSUME NEW w \in Workers, NEW n \in Tokens, RefreshRotate(w, n)
      PROVE  \/ refresh_tokens'[t] = refresh_tokens[t]
             \/ t \in Stored /\ ~Unrevoked(refresh_tokens'[t])
  <2> DEFINE read  == session[w].loaded[t]
             stamp == Stamped(refresh_tokens[t], read, session[w].now, "rotated", "system")
  <2>1. CASE t # session[w].token
    BY <1>1, <1>5, <2>1 DEF RefreshRotate, Issue
  <2>2. CASE t = session[w].token
    <3>1. t \in Stored /\ read # NULL
      BY <1>5, <2>2
         DEF RefreshRotate, Inv, TypeInv, RequestsComplete, Reading, Stages
    <3>2. stamp \in Row /\ stamp.revoked_at # NULL
      <4>1. "rotated" \in Reasons /\ "system" \in Actors
        BY DEF Reasons, Actors
      <4>. QED
        BY <3>1, <4>1, StampedRevoked
    <3>3. refresh_tokens'[t] = [stamp EXCEPT !.replaced_by_id = n]
      <4>1. t # n
        BY <1>5 DEF RefreshRotate, Issue
      <4>. QED
        BY <1>1, <1>5, <2>2, <4>1, RotatedRow
    <3> HIDE DEF stamp
    <3> QED
      BY <3>1, <3>2, <3>3 DEF Row, Unrevoked
  <2> QED
    BY <2>1, <2>2
<1>6. ASSUME NEW w \in Workers, ReuseCommit(w) \/ LogoutCommit(w) \/ LogoutAllCommit(w)
      PROVE  t \in Stored /\ (~Unrevoked(refresh_tokens[t]) => ~Unrevoked(refresh_tokens'[t]))
  <2>1. PICK stage \in Revoking, reason \in Reasons, by \in Actors,
             reused \in SUBSET {u \in Tokens : session[w].loaded[u] # NULL} :
          Revoke(w, stage, reason, by, reused)
    BY <1>6, Commits
  <2>2. t \in Stored
    BY <2>1 DEF Revoke, Stored
  <2>3. \/ refresh_tokens'[t] = refresh_tokens[t]
        \/ refresh_tokens'[t].revoked_at # NULL
    BY <2>1, <2>2, RevokedRow
  <2> QED
    BY <2>2, <2>3 DEF Unrevoked
<1>7. \/ refresh_tokens' = refresh_tokens
      \/ refresh_tokens' = Purged
      \/ \E w \in Workers : \/ \E n \in Tokens, f \in Families : LoginInsert(w, n, f)
                            \/ \E n \in Tokens : RefreshRotate(w, n)
                            \/ ReuseCommit(w) \/ LogoutCommit(w) \/ LogoutAllCommit(w)
  BY DEF Next, Serve, vars, Cleanup, Tick, Restart, LoginStart, LoginCount,
     RefreshLookup, RefreshReused, LogoutLookup, LogoutAllLookup, Start,
     ReuseSelect, LogoutAllSelect, Select, RequestFails
<1> QED
  BY <1>1, <1>2, <1>3, <1>4, <1>5, <1>6, <1>7 DEF Stored

(* A token that is live was live before, or has just been issued.          *)
LEMMA LiveBefore ==
  ASSUME Inv, [Next]_vars, NEW t \in Given, t \in Stored', Live(refresh_tokens[t])'
  PROVE  /\ t \in Stored /\ Live(refresh_tokens[t])
         /\ refresh_tokens'[t].family_id = refresh_tokens[t].family_id
<1>1. Inv'
  BY InvInductive
<1>2. t \in Stored /\ Unrevoked(refresh_tokens[t])
  BY RowsOnlyDie DEF Live, Unrevoked
<1>3. /\ refresh_tokens[t].family_id = issued[t].fam
      /\ refresh_tokens[t].expires_at = issued[t].exp
      /\ refresh_tokens'[t].family_id = issued'[t].fam
      /\ refresh_tokens'[t].expires_at = issued'[t].exp
  BY <1>1, <1>2 DEF Inv, SafetyInv, ClaimsMatchRows
<1>4. clock <= clock' /\ issued'[t] = issued[t]
  BY ClaimsStay
<1>5. clock \in Nat /\ clock' \in Nat /\ refresh_tokens[t].expires_at \in Nat
  BY <1>1, <1>2, Types DEF Inv, TypeInv, TypeOK, Row
<1>6. refresh_tokens[t].expires_at > clock
  BY <1>3, <1>4, <1>5 DEF Live
<1> QED
  BY <1>2, <1>3, <1>4, <1>6 DEF Live

(* A token is issued to the family that a login founds, or to one that is  *)
(* being rotated.                                                          *)
LEMMA NewTokens ==
  ASSUME Inv, [Next]_vars, NEW t \in Given', t \notin Given
  PROVE  \/ Rotating(issued'[t].fam)
         \/ \E w \in Workers : /\ LoginInsert(w, t, issued'[t].fam)
                               /\ issued'[t].sub = session[w].email
<1>1. t \in Tokens /\ issued \in [Tokens -> Claims \cup {NULL}] /\ issued'[t] # issued[t]
  BY DEF Given, Inv, TypeInv, TypeOK
<1>2. ASSUME NEW w \in Workers, NEW n \in Tokens, NEW f \in Families, LoginInsert(w, n, f)
      PROVE  LoginInsert(w, t, issued'[t].fam) /\ issued'[t].sub = session[w].email
  <2>1. issued' = [issued EXCEPT ![n] = [sub |-> session[w].email, fam |-> f,
                                         exp |-> session[w].now + Lifetime]]
    BY <1>2 DEF LoginInsert, Issue
  <2>2. t = n /\ issued'[t].fam = f /\ issued'[t].sub = session[w].email
    BY <1>1, <2>1
  <2> QED
    BY <1>2, <2>2
<1>3. ASSUME NEW w \in Workers, NEW n \in Tokens, RefreshRotate(w, n)
      PROVE  Rotating(issued'[t].fam)
  <2> DEFINE f == session[w].loaded[session[w].token].family_id
  <2>1. issued' = [issued EXCEPT ![n] = [sub |-> issued[session[w].token].sub, fam |-> f,
                                         exp |-> session[w].now + Lifetime]]
    BY <1>3 DEF RefreshRotate, Issue
  <2>2. t = n /\ issued'[t].fam = f
    BY <1>1, <2>1
  <2> QED
    BY <1>3, <2>2 DEF RefreshRotate, Rotating
<1>4. \E w \in Workers : \/ \E n \in Tokens, f \in Families : LoginInsert(w, n, f)
                         \/ \E n \in Tokens : RefreshRotate(w, n)
  BY <1>1
     DEF Next, Serve, vars, Cleanup, Tick, Restart, LoginStart, LoginCount,
         RefreshLookup, RefreshReused, LogoutLookup, LogoutAllLookup, Start,
         ReuseSelect, LogoutAllSelect, Select, RequestFails,
         ReuseCommit, LogoutCommit, LogoutAllCommit, Revoke
<1> QED
  BY <1>2, <1>3, <1>4

(* Only its own steps, and the end of the process, move a worker.          *)
LEMMA OwnSteps ==
  ASSUME Inv, [Next]_vars, NEW v \in Workers, session'[v] # session[v]
  PROVE  Serve(v) \/ session'[v] = Idle
<1>1. session \in [Workers -> Request]
  BY DEF Inv, TypeInv, TypeOK
<1>2. ASSUME NEW w \in Workers, Serve(w), w # v PROVE FALSE
  BY <1>1, <1>2
     DEF Serve, LoginStart, LoginCount, LoginInsert, RefreshLookup, RefreshReused,
         RefreshRotate, LogoutLookup, LogoutAllLookup, Start, ReuseSelect,
         LogoutAllSelect, Select, RequestFails, ReuseCommit, LogoutCommit,
         LogoutAllCommit, Revoke
<1> QED
  BY <1>2 DEF Next, vars, Cleanup, Tick, Restart

(* A worker enters the stage "rotate" by looking up a live token.          *)
LEMMA RotationBegins ==
  ASSUME Inv, [Next]_vars, NEW v \in Workers,
         session'[v] # session[v], session'[v].stage = "rotate"
  PROVE  \E t \in Tokens : RefreshLookup(v, t)
<1>1. session \in [Workers -> Request] /\ session[v] \in Request
  BY DEF Inv, TypeInv, TypeOK
<1>2. Serve(v)
  BY OwnSteps DEF Idle
<1>3. ASSUME NEW e \in Admins, LoginStart(v, e) PROVE FALSE
  BY <1>1, <1>3 DEF LoginStart, Idle
<1>4. ASSUME LoginCount(v) PROVE FALSE
  BY <1>1, <1>4 DEF LoginCount, Idle, Request
<1>5. ASSUME NEW n \in Tokens, \/ \E f \in Families : LoginInsert(v, n, f)
                               \/ RefreshRotate(v, n)
      PROVE FALSE
  BY <1>1, <1>5 DEF LoginInsert, RefreshRotate, Idle
<1>6. ASSUME NEW t \in Tokens,
             RefreshReused(v, t) \/ LogoutLookup(v, t) \/ LogoutAllLookup(v, t)
      PROVE FALSE
  BY <1>1, <1>6 DEF RefreshReused, LogoutLookup, LogoutAllLookup, Start
<1>7. ASSUME ReuseSelect(v) \/ LogoutAllSelect(v) PROVE FALSE
  <2>1. ASSUME NEW from, NEW to, NEW rows, Select(v, from, to, rows), to # "rotate" PROVE FALSE
    BY <1>1, <2>1 DEF Select, Request
  <2> QED
    BY <1>7, <2>1 DEF ReuseSelect, LogoutAllSelect
<1>8. ASSUME \/ ReuseCommit(v) \/ LogoutCommit(v) \/ LogoutAllCommit(v)
             \/ RequestFails(v)
      PROVE FALSE
  BY <1>1, <1>8, EndsIdle
<1> QED
  BY <1>2, <1>3, <1>4, <1>5, <1>6, <1>7, <1>8 DEF Serve

(* A rotation begins with a live token of its family.                      *)
LEMMA NewRotation ==
  ASSUME Inv, [Next]_vars, NEW f \in Families, Rotating(f)'
  PROVE  Rotating(f) \/ LiveFamily(f)
<1>1. PICK v \in Workers : /\ session'[v].stage = "rotate"
                           /\ session'[v].loaded[session'[v].token].family_id = f
  BY DEF Rotating
<1>2. session \in [Workers -> Request]
  BY DEF Inv, TypeInv, TypeOK
<1>3. CASE session'[v] = session[v]
  BY <1>1, <1>3 DEF Rotating
<1>4. CASE session'[v] # session[v]
  <2>1. PICK t \in Tokens : RefreshLookup(v, t)
    BY <1>1, <1>4, RotationBegins
  <2>2. /\ t \in Stored /\ Live(refresh_tokens[t])
        /\ session'[v].token = t
        /\ session'[v].loaded = Load(Idle.loaded, {t})
    BY <1>2, <2>1 DEF RefreshLookup, Start
  <2>3. Load(Idle.loaded, {t})[t].family_id = refresh_tokens[t].family_id
    BY DEF Load, Idle, Read
  <2> QED
    BY <1>1, <2>2, <2>3 DEF LiveFamily
<1> QED
  BY <1>3, <1>4

(* A step leaves a closed family closed.                                   *)
LEMMA ClosedStays ==
  ASSUME Inv, [Next]_vars, NEW f \in Families, Closed(f)
  PROVE  Closed(f)'
<1>1. (f \notin FreshFamilies)'
  BY ClaimsStay DEF Closed, FreshFamilies
<1>2. ~LiveFamily(f)'
  <2> SUFFICES ASSUME NEW t \in Stored', refresh_tokens'[t].family_id = f,
                      Live(refresh_tokens[t])'
               PROVE  FALSE
    BY DEF LiveFamily
  <2>1. CASE t \in Given
    BY <2>1, LiveBefore DEF Closed, LiveFamily
  <2>2. CASE t \notin Given
    <3>1. t \in Given' /\ issued'[t].fam = f
      BY InvInductive DEF Inv, TypeInv, SafetyInv, ClaimsMatchRows
    <3> QED
      BY <2>2, <3>1, NewTokens DEF Closed, LoginInsert
  <2> QED
    BY <2>1, <2>2
<1>3. ~Rotating(f)'
  BY NewRotation DEF Closed
<1> QED
  BY <1>1, <1>2, <1>3 DEF Closed

-----------------------------------------------------------------------------
(* Ending a session is final.  Once a family has no live token and no      *)
(* rotation under way, nothing - overlapping handlers, retries, failures,  *)
(* restarts, the cleanup - gives it a live token again.                    *)
THEOREM SessionsEnd == Spec => ClosedFamiliesStayClosed
<1>1. Inv /\ [Next]_vars => [\A f \in Families : Closed(f) => Closed(f)']_vars
  BY ClosedStays
<1> QED
  BY <1>1, InvAlways, PTL DEF Spec, ClosedFamiliesStayClosed

-----------------------------------------------------------------------------
(* What a step may do to a token, as Sessions sees it: an issued token     *)
(* keeps its family and at most dies, the others stay unissued.            *)
LEMMA TokenSteps ==
  ASSUME Inv, [Next]_vars, NEW t \in Tokens
  PROVE  /\ t \in Given =>
              /\ Family(t)' = Family(t)
              /\ \/ State(t)' = State(t)
                 \/ State(t) = "live" /\ State(t)' = "dead"
         /\ t \notin Given /\ t \notin Given' =>
              Family(t)' = Family(t) /\ State(t)' = State(t)
<1>1. CASE t \in Given
  <2>1. t \in Given' /\ issued'[t] = issued[t]
    BY <1>1, ClaimsStay
  <2>2. t \in Stored' /\ Live(refresh_tokens[t])' => t \in Stored /\ Live(refresh_tokens[t])
    BY <1>1, LiveBefore
  <2> QED
    BY <1>1, <2>1, <2>2 DEF State, Family
<1>2. CASE t \notin Given
  <2>1. t \notin Stored /\ (t \notin Given' => t \notin Stored')
    BY <1>2, InvInductive DEF Inv, TypeInv
  <2> QED
    BY <1>2, <2>1 DEF State, Family
<1> QED
  BY <1>1, <1>2

(* A step that issues nothing and neither begins nor ends a rotation only  *)
(* kills tokens.                                                           *)
LEMMA KillStep ==
  ASSUME Inv, [Next]_vars, UNCHANGED issued,
         \A w \in Workers : RotatedFamily(w)' = RotatedFamily(w)
  PROVE  S!Next
<1> DEFINE dying == {t \in Tokens : State(t)' = "dead"}
<1>1. Given' = Given
  BY DEF Given
<1>2. ASSUME NEW t \in Tokens
      PROVE  /\ Family(t)' = Family(t)
             /\ State(t)' = IF t \in dying /\ State(t) = "live" THEN "dead" ELSE State(t)
  BY <1>1, TokenSteps
<1>3. S!Kill(dying)
  BY <1>2 DEF S!Kill, S!Killed
<1> QED
  BY <1>3 DEF S!Next

(* The cleanup is a stutter: it deletes no row that is live.               *)
LEMMA PurgedSteps ==
  ASSUME Inv, refresh_tokens' \in {Purged, refresh_tokens}, UNCHANGED <<clock, issued>>,
         NEW t \in Tokens
  PROVE  Family(t)' = Family(t) /\ State(t)' = State(t)
<1>1. Given' = Given
  BY DEF Given
<1>2. CASE refresh_tokens' = refresh_tokens
  BY <1>1, <1>2 DEF State, Family, Stored, Live
<1>3. CASE refresh_tokens' = Purged
  <2>1. ASSUME t \in Kept
        PROVE  t \in Stored' /\ (Live(refresh_tokens[t])' <=> Live(refresh_tokens[t]))
    <3>1. t \in Stored' /\ refresh_tokens[t] \in Row
      BY <1>3, <2>1, KeptStored, Types DEF Inv, Kept
    <3>2. refresh_tokens'[t] = [refresh_tokens[t] EXCEPT
                                  !.replaced_by_id = IF @ \in Kept THEN @ ELSE NULL]
      BY <1>3, <2>1 DEF Purged
    <3> QED
      BY <3>1, <3>2 DEF Live, Unrevoked, Row
  <2>2. ASSUME t \in Stored, t \notin Kept
        PROVE  ~Live(refresh_tokens[t])
    <3>1. clock \in Nat /\ refresh_tokens[t] \in Row
      BY <2>2, Types DEF Inv, TypeInv, TypeOK
    <3> QED
      BY <2>2, <3>1 DEF Kept, Purgeable, Live, Row
  <2>3. t \in Stored' => t \in Kept
    BY <1>3, PurgedStored DEF Stored
  <2>4. t \in Kept => t \in Stored
    BY DEF Kept
  <2>5. t \in Stored => t \in Given
    BY DEF Inv, TypeInv
  <2> QED
    BY <1>1, <2>1, <2>2, <2>3, <2>4, <2>5 DEF State, Family
<1> QED
  BY <1>2, <1>3

(* Steps that issue a token, by a login ...                                *)
LEMMA OpenStep ==
  ASSUME Inv, [Next]_vars, NEW w \in Workers, NEW n \in Tokens, NEW f \in Families,
         LoginInsert(w, n, f)
  PROVE  S!Next
<1>1. /\ session \in [Workers -> Request]
      /\ issued \in [Tokens -> Claims \cup {NULL}]
      /\ refresh_tokens \in [Tokens -> Row \cup {NULL}]
  BY DEF Inv, TypeInv, TypeOK
<1>2. /\ n \notin Given /\ f \in FreshFamilies /\ UNCHANGED clock
      /\ issued' = [issued EXCEPT ![n] = [sub |-> session[w].email, fam |-> f,
                                          exp |-> session[w].now + Lifetime]]
      /\ \A t \in Tokens : t # n => refresh_tokens'[t] = refresh_tokens[t]
  BY <1>1 DEF LoginInsert, Issue
<1>3. n \in Given' /\ \A t \in Tokens : t # n => (t \in Given' <=> t \in Given)
  <2>1. session[w].email \in Admins /\ session[w].now + Lifetime \in Nat
    BY <1>1 DEF LoginInsert, Inv, TypeInv, RequestsComplete, Request
  <2>2. issued'[n] \in Claims
    BY <1>1, <1>2, <2>1 DEF Claims
  <2> QED
    BY <1>1, <1>2, <2>2 DEF Given
<1>4. ASSUME NEW t \in Tokens, t # n
      PROVE  Family(t)' = Family(t) /\ State(t)' = State(t)
  BY <1>1, <1>2, <1>3, <1>4 DEF State, Family, Stored, Live, Unrevoked
<1>5. Family(n)' = f /\ State(n) = "unissued" /\ State(n)' \in {"live", "dead"}
  <2>1. n \notin Stored
    BY <1>2 DEF Inv, TypeInv
  <2> QED
    BY <1>1, <1>2, <1>3, <2>1 DEF State, Family
<1>6. \A t \in Tokens : Family(t) # f
  BY <1>2 DEF Family, FreshFamilies
<1>7. \A v \in Workers : RotatedFamily(v)' = RotatedFamily(v)
  BY <1>1 DEF LoginInsert, RotatedFamily, Idle
<1>8. S!Open(n, f)
  BY <1>4, <1>5, <1>6, <1>7 DEF S!Open, S!Add, S!Killed
<1> QED
  BY <1>8 DEF S!Next

(* ... by rotating one, ...                                                *)
LEMMA RotateStep ==
  ASSUME Inv, [Next]_vars, NEW w \in Workers, NEW n \in Tokens, RefreshRotate(w, n)
  PROVE  S!Next
<1> DEFINE o == session[w].token
           f == session[w].loaded[o].family_id
           dying == {t \in Tokens : Family(t) = f /\ State(t)' = "dead"}
<1>1. /\ session \in [Workers -> Request]
      /\ issued \in [Tokens -> Claims \cup {NULL}]
      /\ refresh_tokens \in [Tokens -> Row \cup {NULL}]
  BY DEF Inv, TypeInv, TypeOK
<1>2. o \in Tokens /\ o \in Given /\ session[w].loaded[o] # NULL /\ issued[o].fam = f
  BY DEF RefreshRotate, Inv, TypeInv, SafetyInv, RequestsComplete, ReadsMatchClaims,
     Reading, Stages, Given
<1>3. session[w].loaded[o] \in Attributes /\ issued[o] \in Claims /\ session[w].now \in Nat
  BY <1>1, <1>2, Types DEF Inv
<1>4. /\ n \notin Given /\ UNCHANGED clock
      /\ issued' = [issued EXCEPT ![n] = [sub |-> issued[o].sub, fam |-> f,
                                          exp |-> session[w].now + Lifetime]]
      /\ \A t \in Tokens : t # n /\ t # o => refresh_tokens'[t] = refresh_tokens[t]
  BY <1>1 DEF RefreshRotate, Issue
<1>5. n \in Given' /\ \A t \in Tokens : t # n => (t \in Given' <=> t \in Given)
  <2>1. issued'[n] \in Claims
    BY <1>1, <1>3, <1>4 DEF Claims, Attributes
  <2> QED
    BY <1>1, <1>4, <2>1 DEF Given
<1>6. f # NULL /\ Family(o) = f
  BY <1>2, <1>3 DEF Family, Attributes
<1>7. ASSUME NEW t \in Tokens, t # n
      PROVE  /\ Family(t)' = Family(t)
             /\ State(t)' = IF t \in dying /\ State(t) = "live" THEN "dead" ELSE State(t)
  <2>1. CASE t = o
    BY <1>2, <1>6, <2>1, TokenSteps
  <2>2. CASE t # o
    BY <1>1, <1>4, <1>5, <1>7, <2>2 DEF State, Family, Stored, Live, Unrevoked
  <2> QED
    BY <2>1, <2>2
<1>8. Family(n)' = f /\ State(n) = "unissued" /\ State(n)' \in {"live", "dead"}
  <2>1. n \notin Stored
    BY <1>4 DEF Inv, TypeInv
  <2> QED
    BY <1>1, <1>4, <1>5, <2>1 DEF State, Family
<1>9. /\ RotatedFamily(w) = f /\ RotatedFamily(w)' = NULL
      /\ \A v \in Workers : v # w => RotatedFamily(v)' = RotatedFamily(v)
  BY <1>1 DEF RefreshRotate, RotatedFamily, Idle
<1>10. dying \in SUBSET {t \in Tokens : Family(t) = f}
  OBVIOUS
<1> HIDE DEF dying, f, o
<1>11. S!Add(n, f, dying)
  BY <1>7, <1>8 DEF S!Add, S!Killed
<1>12. S!Rotate(w, n)
  <2> DEFINE family   == [t \in Tokens |-> Family(t)]
             rotating == [v \in Workers |-> RotatedFamily(v)]
  <2>1. rotating[w] = f
    BY <1>9
  <2>2. dying \in SUBSET {t \in Tokens : family[t] = rotating[w]}
    BY <1>10, <2>1
  <2>3. S!Add(n, rotating[w], dying)
    BY <1>11, <2>1
  <2>4. rotating' = [rotating EXCEPT ![w] = NULL]
    BY <1>9
  <2> HIDE DEF rotating, family
  <2>5. rotating[w] # NULL
    BY <1>6, <2>1
  <2> QED
    BY <2>2, <2>3, <2>4, <2>5 DEF S!Rotate, rotating, family
<1> QED
  BY <1>12 DEF S!Next

(* ... begin a rotation, ...                                               *)
LEMMA BeginStep ==
  ASSUME Inv, [Next]_vars, NEW w \in Workers, NEW t \in Tokens, RefreshLookup(w, t)
  PROVE  S!Next
<1> DEFINE f == refresh_tokens[t].family_id
<1>1. /\ session \in [Workers -> Request]
      /\ UNCHANGED <<clock, issued, refresh_tokens>>
      /\ t \in Stored /\ Live(refresh_tokens[t]) /\ issued[t].fam = f
      /\ session' = [session EXCEPT
           ![w] = [stage |-> "rotate", email |-> NULL, token |-> t, now |-> clock,
                   loaded |-> Load(Idle.loaded, {t})]]
  BY DEF Inv, TypeInv, TypeOK, RefreshLookup, Start
<1>2. f \in Families /\ t \in Given
  BY <1>1, Types DEF Inv, TypeInv, Row
<1>3. \A u \in Tokens : Family(u)' = Family(u) /\ State(u)' = State(u)
  BY <1>1, PurgedSteps
<1>4. Load(Idle.loaded, {t})[t].family_id = f
  BY DEF Load, Idle, Read
<1>5. /\ RotatedFamily(w)' = f
      /\ \A v \in Workers : v # w => RotatedFamily(v)' = RotatedFamily(v)
  BY <1>1, <1>4 DEF RotatedFamily
<1>6. Family(t) = f /\ State(t) = "live"
  BY <1>1, <1>2 DEF Family, State
<1>7. S!Begin(w, f)
  BY <1>3, <1>5, <1>6 DEF S!Begin, S!LiveFamily
<1> QED
  BY <1>2, <1>7 DEF S!Next

(* ... or close sessions.                                                  *)
LEMMA AbandonStep ==
  ASSUME Inv, [Next]_vars, refresh_tokens' \in {Purged, refresh_tokens},
         UNCHANGED <<clock, issued>>, NEW W \in SUBSET Workers,
         session' = [w \in Workers |-> IF w \in W THEN Idle ELSE session[w]]
  PROVE  S!Next
<1>1. \A t \in Tokens : Family(t)' = Family(t) /\ State(t)' = State(t)
  BY PurgedSteps
<1>2. \A w \in Workers : RotatedFamily(w)' = IF w \in W THEN NULL ELSE RotatedFamily(w)
  BY DEF RotatedFamily, Idle
<1>3. S!Abandon(W)
  BY <1>1, <1>2 DEF S!Abandon
<1> QED
  BY <1>3 DEF S!Next

(* Steps that have nothing to do with rotations.                           *)
LEMMA OtherStep ==
  ASSUME Inv, [Next]_vars, UNCHANGED issued, NEW w \in Workers, NEW s,
         session' = [session EXCEPT ![w] = s],
         session[w].stage # "rotate", s.stage # "rotate"
  PROVE  S!Next
<1>1. session \in [Workers -> Request]
  BY DEF Inv, TypeInv, TypeOK
<1>2. \A v \in Workers : RotatedFamily(v)' = RotatedFamily(v)
  BY <1>1 DEF RotatedFamily
<1> QED
  BY <1>2, KillStep

(* Every step of the store is a step of Sessions, or leaves it unchanged.  *)
THEOREM StepRefines == Inv /\ [Next]_vars => [S!Next]_S!vars
<1> SUFFICES ASSUME Inv, [Next]_vars PROVE S!Next \/ UNCHANGED S!vars
  OBVIOUS
<1>1. session \in [Workers -> Request]
  BY DEF Inv, TypeInv, TypeOK
<1>2. CASE UNCHANGED vars
  BY <1>2, KillStep DEF vars, RotatedFamily
<1>3. CASE Cleanup \/ Tick
  BY <1>3, KillStep DEF Cleanup, Tick, RotatedFamily
<1>4. ASSUME NEW emails \in Configs, Restart(emails) PROVE S!Next
  <2>1. session' = [w \in Workers |-> IF w \in Workers THEN Idle ELSE session[w]]
    BY <1>4 DEF Restart
  <2> QED
    BY <1>4, <2>1, AbandonStep DEF Restart
<1>5. ASSUME NEW w \in Workers, RequestFails(w) PROVE S!Next
  <2>1. session' = [v \in Workers |-> IF v \in {w} THEN Idle ELSE session[v]]
    BY <1>1, <1>5 DEF RequestFails
  <2> QED
    <3>1. {w} \in SUBSET Workers
      OBVIOUS
    <3>2. refresh_tokens' \in {Purged, refresh_tokens} /\ UNCHANGED <<clock, issued>>
      BY <1>5 DEF RequestFails
    <3> QED
      BY <2>1, <3>1, <3>2, AbandonStep
<1>6. ASSUME NEW w \in Workers, NEW n \in Tokens,
             (\E f \in Families : LoginInsert(w, n, f)) \/ RefreshRotate(w, n)
      PROVE  S!Next
  BY <1>6, OpenStep, RotateStep
<1>7. ASSUME NEW w \in Workers, NEW t \in Tokens, RefreshLookup(w, t) PROVE S!Next
  BY <1>7, BeginStep
<1>8. ASSUME NEW w \in Workers, NEW e \in Admins, LoginStart(w, e) PROVE S!Next
  <2> DEFINE s == [Idle EXCEPT !.stage = "login_count", !.email = e, !.now = clock]
  <2>1. s.stage # "rotate" /\ session[w].stage # "rotate"
    BY <1>8 DEF LoginStart, Idle
  <2>2. session' = [session EXCEPT ![w] = s] /\ UNCHANGED issued
    BY <1>8 DEF LoginStart
  <2> HIDE DEF s
  <2> QED
    BY <2>1, <2>2, OtherStep
<1>9. ASSUME NEW w \in Workers, LoginCount(w) PROVE S!Next
  <2> DEFINE s == IF BelowCap(session[w].email)
                    THEN [session[w] EXCEPT !.stage = "login_insert", !.now = clock]
                    ELSE Idle
  <2>1. session[w] \in Request
    BY <1>1
  <2>2. s.stage # "rotate" /\ session[w].stage # "rotate"
    BY <1>9, <2>1 DEF LoginCount, Idle, Request
  <2>3. session' = [session EXCEPT ![w] = s] /\ UNCHANGED issued
    BY <1>9 DEF LoginCount
  <2> HIDE DEF s
  <2> QED
    BY <2>2, <2>3, OtherStep
<1>10. ASSUME NEW w \in Workers, NEW t \in Tokens,
              RefreshReused(w, t) \/ LogoutLookup(w, t) \/ LogoutAllLookup(w, t)
       PROVE  S!Next
  <2>1. ASSUME NEW stage, stage # "rotate", Start(w, t, stage) PROVE S!Next
    <3> DEFINE s == [stage |-> stage, email |-> NULL, token |-> t, now |-> clock,
                     loaded |-> Load(Idle.loaded, {t})]
    <3>1. s.stage # "rotate" /\ session[w].stage # "rotate"
      BY <2>1 DEF Start
    <3>2. session' = [session EXCEPT ![w] = s] /\ UNCHANGED issued
      BY <2>1 DEF Start
    <3> HIDE DEF s
    <3> QED
      BY <3>1, <3>2, OtherStep
  <2> QED
    BY <1>10, <2>1 DEF RefreshReused, LogoutLookup, LogoutAllLookup
<1>11. ASSUME NEW w \in Workers, ReuseSelect(w) \/ LogoutAllSelect(w) PROVE S!Next
  <2>1. ASSUME NEW from, NEW to, NEW T, from # "rotate", to # "rotate",
               Select(w, from, to, T)
        PROVE  S!Next
    <3> DEFINE s == [session[w] EXCEPT !.stage = to, !.now = clock, !.loaded = Load(@, T)]
    <3>1. session[w] \in Request
      BY <1>1
    <3>2. s.stage # "rotate" /\ session[w].stage # "rotate"
      BY <2>1, <3>1 DEF Select, Request
    <3>3. session' = [session EXCEPT ![w] = s] /\ UNCHANGED issued
      BY <2>1, <1>1 DEF Select, Request
    <3> HIDE DEF s
    <3> QED
      BY <3>2, <3>3, OtherStep
  <2> QED
    BY <1>11, <2>1 DEF ReuseSelect, LogoutAllSelect
<1>12. ASSUME NEW w \in Workers, ReuseCommit(w) \/ LogoutCommit(w) \/ LogoutAllCommit(w)
       PROVE  S!Next
  <2>1. /\ session[w].stage \in Revoking
        /\ session' = [session EXCEPT ![w] = Idle] /\ UNCHANGED issued
    BY <1>12 DEF ReuseCommit, LogoutCommit, LogoutAllCommit, Revoke, Revoking
  <2>2. Idle.stage # "rotate" /\ session[w].stage # "rotate"
    BY <2>1 DEF Idle, Revoking
  <2> QED
    BY <2>1, <2>2, OtherStep
<1> QED
  BY <1>2, <1>3, <1>4, <1>5, <1>6, <1>7, <1>8, <1>9, <1>10, <1>11, <1>12 DEF Next, Serve

(* The refresh-token store implements Sessions: clients see nothing but    *)
(* sessions that are opened, extended by rotations, and ended for good.    *)
THEOREM Refinement == Spec => ImplementsSessions
<1>1. Init => S!Init
  <2> SUFFICES ASSUME Init PROVE S!Init
    OBVIOUS
  <2>1. Given = {} /\ Stored = {}
    BY DEF Init, Given, Stored
  <2>2. \A t \in Tokens : State(t) = "unissued" /\ Family(t) = NULL
    BY <2>1 DEF State, Family
  <2>3. \A w \in Workers : RotatedFamily(w) = NULL
    BY DEF Init, RotatedFamily, Idle
  <2> QED
    BY <2>2, <2>3 DEF S!Init
<1>2. Inv /\ [Next]_vars => [S!Next]_S!vars
  BY StepRefines
<1> QED
  BY <1>1, <1>2, InvAlways, PTL DEF Spec, S!Spec, ImplementsSessions

(* The promise of Sessions, of its own: only a login opens a family, and   *)
(* only once; only a rotation that began while the family was live adds to *)
(* it.  So one that has ended stays ended.                                 *)
LEMMA EndStep ==
  ASSUME [S!Next]_S!vars, NEW f \in Families, S!Ended(f)
  PROVE  S!Ended(f)'
<1> DEFINE st  == [t \in Tokens |-> State(t)]
           fam == [t \in Tokens |-> Family(t)]
           rot == [w \in Workers |-> RotatedFamily(w)]
           Ended == /\ \E t \in Tokens : fam[t] = f
                    /\ \A t \in Tokens : fam[t] = f => st[t] # "live"
                    /\ \A w \in Workers : rot[w] # f
<1>1. /\ S!Ended(f) <=> Ended
      /\ S!Ended(f)' <=> Ended'
  BY DEF S!Ended, S!LiveFamily
<1>2. f # NULL /\ \A t \in Tokens : st[t] = "unissued" => fam[t] = NULL
  BY DEF State, Family
<1>3. DOMAIN st = Tokens /\ DOMAIN fam = Tokens /\ DOMAIN rot = Workers
  OBVIOUS
<1>4. ASSUME NEW n \in Tokens, NEW g, NEW K \in SUBSET Tokens, S!Add(n, g, K)
      PROVE  /\ st[n] = "unissued" /\ \A t \in Tokens \ {n} : fam'[t] = fam[t]
             /\ fam'[n] = g /\ \A t \in Tokens \ {n} : st'[t] = "live" => st[t] = "live"
  <2>1. PICK new \in {"live", "dead"} :
          /\ st[n] = "unissued"
          /\ st' = [[t \in Tokens |-> IF t \in K /\ st[t] = "live" THEN "dead" ELSE st[t]]
                      EXCEPT ![n] = new]
          /\ fam' = [fam EXCEPT ![n] = g]
    BY <1>4 DEF S!Add, S!Killed
  <2> HIDE DEF st, fam
  <2>. QED
    BY <1>3, <2>1
<1> HIDE DEF st, fam, rot
<1>5. ASSUME NEW n \in Tokens, NEW g \in Families, S!Open(n, g) PROVE Ended'
  <2>1. /\ \A t \in Tokens : fam[t] # g /\ rot' = rot
        /\ S!Add(n, g, {})
    BY <1>5 DEF S!Open, fam, rot
  <2>. QED
    BY <1>1, <1>2, <1>4, <2>1
<1>6. ASSUME NEW w \in Workers, NEW g \in Families, S!Begin(w, g) PROVE Ended'
  <2>1. /\ \E t \in Tokens : fam[t] = g /\ st[t] = "live"
        /\ rot' = [rot EXCEPT ![w] = g] /\ st' = st /\ fam' = fam
    BY <1>6 DEF S!Begin, S!LiveFamily, st, fam, rot
  <2>. QED
    BY <1>1, <1>3, <2>1
<1>7. ASSUME NEW w \in Workers, NEW n \in Tokens, S!Rotate(w, n) PROVE Ended'
  <2>1. PICK K \in SUBSET Tokens :
          rot[w] # NULL /\ S!Add(n, rot[w], K) /\ rot' = [rot EXCEPT ![w] = NULL]
    BY <1>7 DEF S!Rotate, fam, rot
  <2>. QED
    BY <1>1, <1>2, <1>3, <1>4, <2>1
<1>8. ASSUME NEW W \in SUBSET Workers, S!Abandon(W) PROVE Ended'
  <2>1. rot' = [v \in Workers |-> IF v \in W THEN NULL ELSE rot[v]] /\ st' = st /\ fam' = fam
    BY <1>8 DEF S!Abandon, st, fam, rot
  <2>. QED
    BY <1>1, <1>2, <2>1
<1>9. ASSUME NEW K \in SUBSET Tokens, S!Kill(K) PROVE Ended'
  <2>1. /\ st' = [t \in Tokens |-> IF t \in K /\ st[t] = "live" THEN "dead" ELSE st[t]]
        /\ fam' = fam /\ rot' = rot
    BY <1>9 DEF S!Kill, S!Killed, st, fam, rot
  <2>. QED
    BY <1>1, <2>1
<1>10. CASE UNCHANGED S!vars
  <2>1. st' = st /\ fam' = fam /\ rot' = rot
    BY <1>10 DEF S!vars, st, fam, rot
  <2>. QED
    BY <1>1, <2>1
<1>. QED
  BY <1>1, <1>5, <1>6, <1>7, <1>8, <1>9, <1>10 DEF S!Next

(* This is what Sessions promises to clients, whoever implements it.       *)
THEOREM EndingIsFinal == S!Spec => S!EndIsFinal
<1>1. [S!Next]_S!vars => [\A f \in Families : S!Ended(f) => S!Ended(f)']_S!vars
  BY EndStep
<1>. QED
  BY <1>1, PTL DEF S!Spec, S!EndIsFinal

(* The refresh-token store keeps the promise, as it implements Sessions.   *)
THEOREM SessionsStayEnded == Spec => S!EndIsFinal
BY Refinement, EndingIsFinal, PTL DEF ImplementsSessions

-----------------------------------------------------------------------------
(* A thread's time is not of the future, and as old as a handler may get.  *)
Timely ==
  \A w \in Workers :
    /\ session[w].now <= clock
    /\ session[w].stage # "idle" => clock <= session[w].now + MaxDelay

(* No step lets a handler's time grow older than that.                     *)
LEMMA TimelyStep ==
  ASSUME Inv, Timely, [Next]_vars
  PROVE  Timely'
<1>1. /\ clock \in Nat /\ MaxDelay \in Nat /\ session \in [Workers -> Request]
      /\ \A w \in Workers : session[w].now \in Nat
  BY DEF Inv, TypeInv, TypeOK, Request
<1>2. CASE UNCHANGED <<clock, session>>
  BY <1>2 DEF Timely
<1>3. CASE Tick
  BY <1>1, <1>3 DEF Tick, Timely
<1>4. ASSUME UNCHANGED clock,
             \A w \in Workers : \/ session'[w] = session[w]
                                \/ session'[w] = Idle
                                \/ session'[w].now = clock
      PROVE  Timely'
  <2> SUFFICES ASSUME NEW w \in Workers
               PROVE  /\ session'[w].now <= clock'
                      /\ session'[w].stage # "idle" => clock' <= session'[w].now + MaxDelay
    BY DEF Timely
  <2>1. CASE session'[w] = session[w]
    BY <1>4, <2>1 DEF Timely
  <2>2. CASE session'[w] = Idle
    BY <1>1, <1>4, <2>2 DEF Idle
  <2>3. CASE session'[w].now = clock
    BY <1>1, <1>4, <2>3
  <2> QED
    BY <1>4, <2>1, <2>2, <2>3
<1>5. ASSUME NEW w \in Workers, Serve(w)
      PROVE  Timely'
  <2>1. UNCHANGED clock
    BY <1>5 DEF Serve, LoginStart, LoginCount, LoginInsert, RefreshLookup,
       RefreshReused, RefreshRotate, LogoutLookup, LogoutAllLookup, Start,
       ReuseSelect, LogoutAllSelect, Select, RequestFails, ReuseCommit,
       LogoutCommit, LogoutAllCommit, Revoke
  <2>2. ASSUME NEW v \in Workers
        PROVE  \/ session'[v] = session[v]
               \/ session'[v] = Idle
               \/ session'[v].now = clock
    <3>1. ASSUME NEW e \in Admins, LoginStart(w, e)
          PROVE  session'[v] = session[v] \/ session'[v].now = clock
      BY <1>1, <3>1 DEF LoginStart, Idle
    <3>2. ASSUME LoginCount(w)
          PROVE  session'[v] = session[v] \/ session'[v] = Idle \/ session'[v].now = clock
      BY <1>1, <3>2 DEF LoginCount, Request
    <3>3. ASSUME NEW t, NEW stage, Start(w, t, stage)
          PROVE  session'[v] = session[v] \/ session'[v].now = clock
      BY <1>1, <3>3 DEF Start
    <3>4. ASSUME NEW from, NEW to, NEW rows, Select(w, from, to, rows)
          PROVE  session'[v] = session[v] \/ session'[v].now = clock
      BY <1>1, <3>4 DEF Select, Request
    <3>5. CASE \/ \E n \in Tokens, f \in Families : LoginInsert(w, n, f)
               \/ \E n \in Tokens : RefreshRotate(w, n)
               \/ ReuseCommit(w) \/ LogoutCommit(w) \/ LogoutAllCommit(w)
               \/ RequestFails(w)
      BY <1>1, <3>5 DEF LoginInsert, RefreshRotate, ReuseCommit, LogoutCommit,
         LogoutAllCommit, Revoke, RequestFails
    <3> QED
      BY <1>5, <3>1, <3>2, <3>3, <3>4, <3>5 DEF Serve, RefreshLookup, RefreshReused,
         LogoutLookup, LogoutAllLookup, ReuseSelect, LogoutAllSelect
  <2> QED
    BY <1>4, <2>1, <2>2
<1>6. ASSUME NEW emails \in Configs, Restart(emails)
      PROVE  Timely'
  BY <1>1, <1>4, <1>6 DEF Restart
<1> QED
  BY <1>2, <1>3, <1>5, <1>6 DEF Next, vars, Cleanup

(* No token lives longer than one issued now, and a token that is revoked  *)
(* expires at most a lifetime, and the delay of the handler that revoked   *)
(* it, after its row says it was revoked.                                  *)
ExpiresSoon ==
  /\ \A t \in Given : issued[t].exp <= clock + Lifetime
  /\ \A t \in Stored :
       ~Unrevoked(refresh_tokens[t]) =>
         issued[t].exp <= refresh_tokens[t].revoked_at + MaxDelay + Lifetime

RetentionInv == Timely /\ ExpiresSoon /\ UnexpiredTokensKept

(* A token is issued with a lifetime from the time its handler has read.   *)
LEMMA NewExpiry ==
  ASSUME Inv, [Next]_vars, NEW t \in Given', t \notin Given
  PROVE  /\ clock' = clock /\ t \in Stored' /\ Unrevoked(refresh_tokens'[t])
         /\ \E w \in Workers : issued'[t].exp = session[w].now + Lifetime
<1>1. t \in Tokens /\ issued \in [Tokens -> Claims \cup {NULL}] /\ issued'[t] # issued[t]
      /\ refresh_tokens \in [Tokens -> Row \cup {NULL}]
  BY DEF Given, Inv, TypeInv, TypeOK
<1>2. ASSUME NEW w \in Workers, NEW n \in Tokens, NEW e \in Admins, NEW f \in Families,
             NEW rows, DOMAIN rows = Tokens,
             Issue(n, e, f, session[w].now + Lifetime, rows)
      PROVE  /\ t \in Stored' /\ Unrevoked(refresh_tokens'[t])
             /\ issued'[t].exp = session[w].now + Lifetime
  <2> DEFINE exp == session[w].now + Lifetime
  <2>1. t = n /\ issued'[t].exp = exp
    BY <1>1, <1>2 DEF Issue
  <2>2. refresh_tokens'[t] = NewRow(e, f, exp)
    BY <1>1, <1>2, <2>1 DEF Issue
  <2>3. NewRow(e, f, exp) # NULL
    <3>1. exp \in Nat
      BY Types DEF Inv
    <3>. QED
      BY <3>1, NewRowType
  <2>. QED
    BY <1>1, <2>1, <2>2, <2>3 DEF NewRow, Unrevoked, Stored
<1>3. ASSUME NEW w \in Workers, NEW n \in Tokens, NEW f \in Families, LoginInsert(w, n, f)
      PROVE  clock' = clock /\ t \in Stored' /\ Unrevoked(refresh_tokens'[t])
             /\ issued'[t].exp = session[w].now + Lifetime
  <2>1. session[w].email \in Admins
    BY <1>3 DEF LoginInsert, Inv, TypeInv, RequestsComplete
  <2>. QED
    BY <1>1, <1>2, <1>3, <2>1 DEF LoginInsert
<1>4. ASSUME NEW w \in Workers, NEW n \in Tokens, RefreshRotate(w, n)
      PROVE  clock' = clock /\ t \in Stored' /\ Unrevoked(refresh_tokens'[t])
             /\ issued'[t].exp = session[w].now + Lifetime
  <2> DEFINE u    == session[w].token
             row  == [Stamped(refresh_tokens[u], session[w].loaded[u], session[w].now,
                              "rotated", "system") EXCEPT !.replaced_by_id = n]
             rows == [refresh_tokens EXCEPT ![u] = row]
  <2>1. /\ u \in Given /\ issued[u] \in Claims
        /\ session[w].loaded[u] \in Attributes
    BY <1>4, Types
       DEF RefreshRotate, Inv, TypeInv, RequestsComplete, Reading, Stages, Given
  <2>2. issued[u].sub \in Admins /\ session[w].loaded[u].family_id \in Families
    BY <2>1 DEF Claims, Attributes
  <2>3. DOMAIN rows = Tokens
    BY <1>1
  <2>4. Issue(n, issued[u].sub, session[w].loaded[u].family_id,
              session[w].now + Lifetime, rows)
    BY <1>1, <1>4, <2>1 DEF RefreshRotate, Given
  <2> HIDE DEF rows
  <2>5. clock' = clock
    BY <1>4 DEF RefreshRotate
  <2>. QED
    BY <1>2, <2>2, <2>3, <2>4, <2>5
<1>5. \E w \in Workers : \/ \E n \in Tokens, f \in Families : LoginInsert(w, n, f)
                         \/ \E n \in Tokens : RefreshRotate(w, n)
  BY <1>1
     DEF Next, Serve, vars, Cleanup, Tick, Restart, LoginStart, LoginCount,
         RefreshLookup, RefreshReused, LogoutLookup, LogoutAllLookup, Start,
         ReuseSelect, LogoutAllSelect, Select, RequestFails,
         ReuseCommit, LogoutCommit, LogoutAllCommit, Revoke
<1>. QED
  BY <1>3, <1>4, <1>5

(* Only the cleanup takes rows away, and only those that it may.           *)
LEMMA RowsLost ==
  ASSUME Inv, [Next]_vars, NEW t \in Stored, t \notin Stored'
  PROVE  Purgeable(refresh_tokens[t])
<1>1. t \in Tokens /\ refresh_tokens[t] # NULL /\ refresh_tokens'[t] = NULL
      /\ refresh_tokens \in [Tokens -> Row \cup {NULL}]
  BY DEF Stored, Inv, TypeInv, TypeOK
<1>2. CASE refresh_tokens' = Purged
  <2>1. t \in Kept => refresh_tokens'[t] # NULL
    <3>1. ASSUME t \in Kept PROVE Purged[t] \in Row
      BY <1>1, <3>1 DEF Purged, Row
    <3>. QED
      BY <1>2, <3>1
  <2>. QED
    BY <1>1, <2>1 DEF Kept
<1>3. CASE Stored \subseteq Stored'
  BY <1>1, <1>3
<1>4. ASSUME NEW w \in Workers, ReuseCommit(w) \/ LogoutCommit(w) \/ LogoutAllCommit(w)
      PROVE  FALSE
  BY <1>1, <1>4, Commits, RevokedRow
<1>5. ASSUME NEW w \in Workers, NEW n \in Tokens,
             RefreshRotate(w, n) \/ \E f \in Families : LoginInsert(w, n, f)
      PROVE  FALSE
  <2>1. t \in Given /\ n \notin Given
    BY <1>5 DEF RefreshRotate, LoginInsert, Issue, Inv, TypeInv
  <2>2. t # n
    BY <2>1
  <2>3. CASE \E f \in Families : LoginInsert(w, n, f)
    BY <1>1, <2>2, <2>3 DEF LoginInsert, Issue
  <2>4. CASE RefreshRotate(w, n) /\ t # session[w].token
    BY <1>1, <2>2, <2>4 DEF RefreshRotate, Issue
  <2>5. CASE RefreshRotate(w, n) /\ t = session[w].token
    <3> DEFINE stamp == Stamped(refresh_tokens[t], session[w].loaded[t], session[w].now,
                                "rotated", "system")
    <3>1. session[w].loaded[t] # NULL
      BY <2>5 DEF RefreshRotate, Inv, TypeInv, RequestsComplete, Reading, Stages
    <3>2. stamp \in Row
      BY <3>1, StampedRevoked DEF Reasons, Actors
    <3>3. refresh_tokens'[t] = [stamp EXCEPT !.replaced_by_id = n]
      BY <1>1, <2>2, <2>5, RotatedRow
    <3> HIDE DEF stamp
    <3>4. [stamp EXCEPT !.replaced_by_id = n] \in Row
      BY <3>2 DEF Row
    <3>. QED
      BY <1>1, <3>3, <3>4
  <2>. QED
    BY <1>5, <2>3, <2>4, <2>5
<1>6. \/ refresh_tokens' = refresh_tokens
      \/ refresh_tokens' = Purged
      \/ \E w \in Workers : \/ \E n \in Tokens, f \in Families : LoginInsert(w, n, f)
                            \/ \E n \in Tokens : RefreshRotate(w, n)
                            \/ ReuseCommit(w) \/ LogoutCommit(w) \/ LogoutAllCommit(w)
  BY DEF Next, Serve, vars, Cleanup, Tick, Restart, LoginStart, LoginCount,
     RefreshLookup, RefreshReused, LogoutLookup, LogoutAllLookup, Start,
     ReuseSelect, LogoutAllSelect, Select, RequestFails
<1>. QED
  BY <1>1, <1>2, <1>4, <1>5, <1>6

(* A row is revoked with the time of a handler that is being served.       *)
LEMMA RevokedWhen ==
  ASSUME Inv, [Next]_vars, NEW t \in Given, t \in Stored',
         ~Unrevoked(refresh_tokens'[t])
  PROVE  /\ t \in Stored
         /\ \/ /\ ~Unrevoked(refresh_tokens[t])
               /\ refresh_tokens'[t].revoked_at = refresh_tokens[t].revoked_at
            \/ /\ clock' = clock
               /\ \E w \in Workers : /\ session[w].stage # "idle"
                                     /\ refresh_tokens'[t].revoked_at = session[w].now
<1>1. t \in Tokens /\ t \in Stored /\ refresh_tokens \in [Tokens -> Row \cup {NULL}]
      /\ refresh_tokens[t] \in Row
  BY RowsOnlyDie, Types DEF Given, Inv, TypeInv, TypeOK
<1> DEFINE Same == refresh_tokens'[t].revoked_at = refresh_tokens[t].revoked_at
           Stamps(w) == /\ clock' = clock /\ session[w].stage # "idle"
                        /\ \/ Same
                           \/ refresh_tokens'[t].revoked_at = session[w].now
<1>2. CASE refresh_tokens' = refresh_tokens
  BY <1>1, <1>2 DEF Unrevoked
<1>3. CASE refresh_tokens' = Purged
  <2>1. t \in Kept
    BY <1>1, <1>3, PurgedStored DEF Stored
  <2>2. Same
    BY <1>1, <1>3, <2>1 DEF Purged, Row
  <2>. QED
    BY <1>1, <2>2 DEF Unrevoked
<1>4. ASSUME NEW read, NEW now, NEW reason, NEW by, NEW row \in Row
      PROVE  Stamped(row, read, now, reason, by).revoked_at \in {now, row.revoked_at}
  BY DEF Stamped, Row
<1>5. ASSUME NEW w \in Workers, NEW n \in Tokens, NEW f \in Families, LoginInsert(w, n, f)
      PROVE  Same
  BY <1>1, <1>5 DEF LoginInsert, Issue
<1>6. ASSUME NEW w \in Workers, NEW n \in Tokens, RefreshRotate(w, n)
      PROVE  Same \/ Stamps(w)
  <2>1. CASE t # session[w].token
    BY <1>1, <1>6, <2>1 DEF RefreshRotate, Issue
  <2>2. CASE t = session[w].token
    <3> DEFINE stamp == Stamped(refresh_tokens[t], session[w].loaded[t], session[w].now,
                                "rotated", "system")
    <3>1. refresh_tokens'[t] = [stamp EXCEPT !.replaced_by_id = n]
      BY <1>1, <1>6, <2>2 DEF RefreshRotate, Issue
    <3>2. refresh_tokens'[t].revoked_at = stamp.revoked_at
      BY <1>1, <3>1 DEF Stamped, Row
    <3>3. stamp.revoked_at \in {session[w].now, refresh_tokens[t].revoked_at}
      BY <1>1, <1>4
    <3>. QED
      BY <1>6, <3>2, <3>3 DEF RefreshRotate
  <2>. QED
    BY <2>1, <2>2
<1>7. ASSUME NEW w \in Workers, ReuseCommit(w) \/ LogoutCommit(w) \/ LogoutAllCommit(w)
      PROVE  Same \/ Stamps(w)
  <2>1. PICK stage \in Revoking, reason \in Reasons, by \in Actors,
             reused \in SUBSET {u \in Tokens : session[w].loaded[u] # NULL} :
          Revoke(w, stage, reason, by, reused)
    BY <1>7, Commits
  <2> DEFINE stamp == Stamped(refresh_tokens[t], session[w].loaded[t], session[w].now,
                              reason, by)
  <2>2. \/ refresh_tokens'[t] = refresh_tokens[t]
        \/ refresh_tokens'[t] = [stamp EXCEPT !.reused_detected = @ \/ t \in reused]
    BY <1>1, <2>1 DEF Revoke
  <2>3. [stamp EXCEPT !.reused_detected = @ \/ t \in reused].revoked_at = stamp.revoked_at
    BY <1>1 DEF Stamped, Row
  <2>4. stamp.revoked_at \in {session[w].now, refresh_tokens[t].revoked_at}
    BY <1>1, <1>4
  <2>5. clock' = clock /\ session[w].stage # "idle"
    BY <2>1 DEF Revoke, Revoking
  <2>. QED
    BY <2>2, <2>3, <2>4, <2>5
<1>8. \/ refresh_tokens' = refresh_tokens
      \/ refresh_tokens' = Purged
      \/ \E w \in Workers : \/ \E n \in Tokens, f \in Families : LoginInsert(w, n, f)
                            \/ \E n \in Tokens : RefreshRotate(w, n)
                            \/ ReuseCommit(w) \/ LogoutCommit(w) \/ LogoutAllCommit(w)
  BY DEF Next, Serve, vars, Cleanup, Tick, Restart, LoginStart, LoginCount,
     RefreshLookup, RefreshReused, LogoutLookup, LogoutAllLookup, Start,
     ReuseSelect, LogoutAllSelect, Select, RequestFails
<1>. QED
  BY <1>1, <1>2, <1>3, <1>5, <1>6, <1>7, <1>8 DEF Unrevoked

(* So every step keeps what is not expired: what the cleanup takes away    *)
(* was revoked, or has expired, long enough ago.                           *)
LEMMA RetentionStep ==
  ASSUME Inv, RetentionInv, [Next]_vars
  PROVE  RetentionInv'
<1>1. Inv' /\ Timely'
  BY InvInductive, TimelyStep DEF RetentionInv
<1>2. /\ clock \in Nat /\ clock' \in Nat /\ clock <= clock'
      /\ \A t \in Given : issued[t].exp \in Nat /\ t \in Given' /\ issued'[t] = issued[t]
      /\ \A w \in Workers : session[w].now \in Nat
  BY <1>1, ClaimsStay, Types DEF Inv, TypeInv, TypeOK, Claims
<1>3. ASSUME NEW t \in Given'
      PROVE  issued'[t].exp <= clock' + Lifetime
  <2>1. CASE t \in Given
    BY <1>2, <2>1 DEF RetentionInv, ExpiresSoon
  <2>2. CASE t \notin Given
    <3>1. PICK w \in Workers : issued'[t].exp = session[w].now + Lifetime
      BY <2>2, NewExpiry
    <3>2. clock' = clock
      BY <2>2, NewExpiry
    <3>. QED
      BY <1>2, <3>1, <3>2 DEF RetentionInv, Timely
  <2>. QED
    BY <2>1, <2>2
<1>4. ASSUME NEW t \in Stored', ~Unrevoked(refresh_tokens'[t])
      PROVE  issued'[t].exp <= refresh_tokens'[t].revoked_at + MaxDelay + Lifetime
  <2>1. t \in Given
    BY <1>1, <1>4, NewExpiry DEF Inv, TypeInv
  <2>2. CASE /\ t \in Stored /\ ~Unrevoked(refresh_tokens[t])
             /\ refresh_tokens'[t].revoked_at = refresh_tokens[t].revoked_at
    BY <1>2, <2>1, <2>2 DEF RetentionInv, ExpiresSoon
  <2>3. ASSUME clock' = clock, NEW w \in Workers, session[w].stage # "idle",
               refresh_tokens'[t].revoked_at = session[w].now
        PROVE  issued'[t].exp <= refresh_tokens'[t].revoked_at + MaxDelay + Lifetime
    <3>1. clock <= session[w].now + MaxDelay /\ issued[t].exp <= clock + Lifetime
      BY <2>1, <2>3 DEF RetentionInv, Timely, ExpiresSoon
    <3>. QED
      BY <1>2, <2>1, <2>3, <3>1
  <2>. QED
    BY <1>4, <2>1, <2>2, <2>3, RevokedWhen
<1>5. ASSUME Retention >= Lifetime + MaxDelay, NEW t \in Given', issued'[t].exp > clock'
      PROVE  t \in Stored'
  <2>1. CASE t \notin Given
    BY <2>1, NewExpiry
  <2>2. CASE t \in Given
    <3>1. issued[t].exp > clock /\ issued[t].exp \in Nat
      BY <1>2, <1>5, <2>2
    <3>2. t \in Stored /\ refresh_tokens[t] \in Row
      BY <1>5, <2>2, <3>1, Types DEF RetentionInv, UnexpiredTokensKept, Inv
    <3>3. refresh_tokens[t].expires_at = issued[t].exp
      BY <3>2 DEF Inv, SafetyInv, ClaimsMatchRows
    <3>4. ~(refresh_tokens[t].expires_at + Retention <= clock)
      BY <1>2, <3>1, <3>3
    <3>5. ASSUME ~Unrevoked(refresh_tokens[t])
          PROVE  ~(refresh_tokens[t].revoked_at + Retention <= clock)
      <4>1. refresh_tokens[t].revoked_at \in Nat
        BY <3>2, <3>5 DEF Row, Unrevoked
      <4>2. issued[t].exp <= refresh_tokens[t].revoked_at + MaxDelay + Lifetime
        BY <3>2, <3>5 DEF RetentionInv, ExpiresSoon
      <4>. QED
        BY <1>2, <1>5, <3>1, <4>1, <4>2
    <3>. QED
      BY <3>2, <3>4, <3>5, RowsLost DEF Purgeable
  <2>. QED
    BY <2>1, <2>2
<1>. QED
  BY <1>1, <1>3, <1>4, <1>5 DEF RetentionInv, ExpiresSoon, UnexpiredTokensKept

(* The cleanup never forgets a token that a client could still present, if *)
(* rows are retained longer than a token lives and a handler may take:     *)
(* reusing a revoked token is then always detected, for any number of      *)
(* threads, restarts and cleanups.                                         *)
THEOREM TokensKept == Spec => []UnexpiredTokensKept
<1>1. Init => RetentionInv
  BY DEF Init, RetentionInv, Timely, ExpiresSoon, UnexpiredTokensKept, Given, Stored, Idle
<1>2. Inv /\ RetentionInv /\ [Next]_vars => RetentionInv'
  BY RetentionStep
<1>3. RetentionInv => UnexpiredTokensKept
  BY DEF RetentionInv
<1>. QED
  BY <1>1, <1>2, <1>3, InvAlways, PTL DEF Spec

-----------------------------------------------------------------------------
(* The cap on active sessions.  A family opens only when a login inserts   *)
(* it: a rotation that revives it had read a live token of it.             *)
LEMMA OpensByLogin ==
  ASSUME Inv, [Next]_vars, NEW e \in Admins,
         NEW f \in OpenFamilies(e)', f \notin OpenFamilies(e)
  PROVE  \E w \in Workers, n \in Tokens :
           LoginInsert(w, n, f) /\ session[w].email = e
<1>1. Inv' /\ f \in Families
  BY InvInductive DEF OpenFamilies, ActiveFamilies
<1>2. PICK t \in Given' : issued'[t].fam = f /\ issued'[t].sub = e
                          /\ (LiveFamily(f)' \/ Rotating(f)')
  <2>1. CASE f \in ActiveFamilies(e)'
    <3>1. PICK t \in Stored' : /\ refresh_tokens'[t].admin_email = e
                               /\ refresh_tokens'[t].family_id = f
                               /\ Live(refresh_tokens[t])'
      BY <2>1 DEF ActiveFamilies
    <3>2. t \in Given' /\ issued'[t].fam = f /\ issued'[t].sub = e
      BY <1>1, <3>1 DEF Inv, TypeInv, SafetyInv, ClaimsMatchRows
    <3>. QED
      BY <3>1, <3>2 DEF LiveFamily
  <2>2. CASE f \notin ActiveFamilies(e)'
    BY <2>2 DEF OpenFamilies
  <2>. QED
    BY <2>1, <2>2
<1>3. ASSUME NEW u \in Given, issued[u].fam = f PROVE issued[u].sub = e
  <2>1. u \in Given' /\ issued'[u] = issued[u]
    BY ClaimsStay
  <2>. QED
    BY <1>1, <1>2, <1>3, <2>1 DEF Inv, SafetyInv, ClaimsMatchRows
<1>4. ~LiveFamily(f)
  <2> SUFFICES ASSUME NEW u \in Stored, refresh_tokens[u].family_id = f,
                      Live(refresh_tokens[u])
               PROVE  FALSE
    BY DEF LiveFamily
  <2>1. u \in Given /\ issued[u].fam = f /\ refresh_tokens[u].admin_email = issued[u].sub
    BY DEF Inv, TypeInv, SafetyInv, ClaimsMatchRows
  <2>2. f \in ActiveFamilies(e)
    BY <1>1, <1>3, <2>1 DEF ActiveFamilies
  <2>. QED
    BY <2>2 DEF OpenFamilies
<1>5. ~Rotating(f)
  <2> SUFFICES ASSUME NEW w \in Workers, session[w].stage = "rotate",
                      session[w].loaded[session[w].token].family_id = f
               PROVE  FALSE
    BY DEF Rotating
  <2>1. session[w].token \in Given /\ session[w].loaded[session[w].token] # NULL
    BY DEF Inv, TypeInv, RequestsComplete, Reading, Stages
  <2>2. issued[session[w].token].fam = f
    BY <2>1 DEF Given, Inv, SafetyInv, ReadsMatchClaims
  <2>3. f \in OpenFamilies(e)
    BY <1>1, <1>3, <2>1, <2>2 DEF OpenFamilies, Rotating
  <2>. QED
    BY <2>3
<1>6. ~Rotating(f)'
  BY <1>1, <1>4, <1>5, NewRotation
<1>7. t \notin Given
  <2>1. PICK u \in Stored' : refresh_tokens'[u].family_id = f /\ Live(refresh_tokens[u])'
    BY <1>2, <1>6 DEF LiveFamily
  <2>2. u \notin Given
    BY <1>4, <2>1, LiveBefore DEF LiveFamily
  <2>3. u \in Given' /\ issued'[u].fam = f
    BY <1>1, <2>1 DEF Inv, TypeInv, SafetyInv, ClaimsMatchRows
  <2>4. PICK w \in Workers : LoginInsert(w, u, f)
    BY <1>5, <2>2, <2>3, NewTokens
  <2>5. \A v \in Given : issued[v].fam # f
    BY <2>4 DEF LoginInsert, FreshFamilies
  <2>. QED
    BY <1>2, <2>5, ClaimsStay
<1>. QED
  BY <1>2, <1>5, <1>7, NewTokens DEF Given

(* A login passes the cap by counting.                                     *)
LEMMA AdmittedByCount ==
  ASSUME Inv, [Next]_vars, NEW v \in Workers,
         session'[v] # session[v], session'[v].stage = "login_insert"
  PROVE  LoginCount(v) /\ BelowCap(session[v].email) /\ session'[v].email = session[v].email
<1>1. session \in [Workers -> Request] /\ session[v] \in Request
  BY DEF Inv, TypeInv, TypeOK
<1>2. Serve(v)
  BY OwnSteps DEF Idle
<1>3. ASSUME NEW e \in Admins, LoginStart(v, e) PROVE FALSE
  BY <1>1, <1>3 DEF LoginStart, Idle
<1>4. ASSUME LoginCount(v)
      PROVE  BelowCap(session[v].email) /\ session'[v].email = session[v].email
  BY <1>1, <1>4 DEF LoginCount, Idle, Request
<1>5. ASSUME NEW n \in Tokens, \/ \E f \in Families : LoginInsert(v, n, f)
                               \/ RefreshRotate(v, n)
      PROVE FALSE
  BY <1>1, <1>5 DEF LoginInsert, RefreshRotate, Idle
<1>6. ASSUME NEW t \in Tokens,
             \/ RefreshLookup(v, t) \/ RefreshReused(v, t)
             \/ LogoutLookup(v, t) \/ LogoutAllLookup(v, t)
      PROVE FALSE
  BY <1>1, <1>6 DEF RefreshLookup, RefreshReused, LogoutLookup, LogoutAllLookup, Start
<1>7. ASSUME ReuseSelect(v) \/ LogoutAllSelect(v) PROVE FALSE
  <2>1. ASSUME NEW from, NEW to, NEW rows, Select(v, from, to, rows),
               to # "login_insert"
        PROVE  FALSE
    BY <1>1, <2>1 DEF Select, Request
  <2> QED
    BY <1>7, <2>1 DEF ReuseSelect, LogoutAllSelect
<1>8. ASSUME \/ ReuseCommit(v) \/ LogoutCommit(v) \/ LogoutAllCommit(v)
             \/ RequestFails(v)
      PROVE FALSE
  BY <1>1, <1>8, EndsIdle
<1> QED
  BY <1>2, <1>3, <1>4, <1>5, <1>6, <1>7, <1>8 DEF Serve

(* Families that are open but not active are being rotated, each by a      *)
(* thread of its own.                                                      *)
LEMMA OpenOverActive ==
  ASSUME IsFiniteSet(Workers), NEW e \in Admins, IsFiniteSet(OpenFamilies(e))
  PROVE  LET R == {w \in Workers : session[w].stage = "rotate"}
         IN  /\ IsFiniteSet(R)
             /\ Cardinality(OpenFamilies(e)) <= Cardinality(ActiveFamilies(e)) + Cardinality(R)
<1> DEFINE R == {w \in Workers : session[w].stage = "rotate"}
           fam == [w \in R |-> session[w].loaded[session[w].token].family_id]
           F == {fam[w] : w \in R}
           O == OpenFamilies(e)
           A == ActiveFamilies(e)
<1>1. IsFiniteSet(R)
  BY FS_Subset
<1>2. IsFiniteSet(F) /\ Cardinality(F) <= Cardinality(R)
  <2>1. fam \in Surjection(R, F)
    BY DEF Surjection
  <2> HIDE DEF fam, F, R
  <2>. QED
    BY <1>1, <2>1, FS_Surjection
<1>3. O \subseteq A \cup F
  BY DEF OpenFamilies, Rotating
<1>4. A \subseteq O
  BY DEF OpenFamilies
<1> HIDE DEF R, F, O, A, fam
<1>5. IsFiniteSet(O) /\ IsFiniteSet(A)
  BY <1>4, FS_Subset DEF O
<1>6. /\ IsFiniteSet(A \cup F)
      /\ Cardinality(A \cup F) = Cardinality(A) + Cardinality(F) - Cardinality(A \cap F)
  BY <1>2, <1>5, FS_Union
<1>7. Cardinality(O) <= Cardinality(A \cup F)
  BY <1>3, <1>6, FS_Subset
<1>8. /\ Cardinality(O) \in Nat /\ Cardinality(A) \in Nat /\ Cardinality(F) \in Nat
      /\ Cardinality(R) \in Nat /\ Cardinality(A \cap F) \in Nat
      /\ Cardinality(A \cup F) \in Nat
  <2>1. IsFiniteSet(A \cap F)
    BY <1>5, FS_Subset
  <2>. QED
    BY <1>1, <1>2, <1>5, <1>6, <2>1, FS_CardinalityType
<1>9. Cardinality(O) <= Cardinality(A) + Cardinality(R)
  BY <1>2, <1>6, <1>7, <1>8
<1>. QED
  BY <1>1, <1>9 DEF O, A, R

(* Rotations, admitted logins and a login that counts are all threads.     *)
LEMMA ThreadsCounted ==
  ASSUME IsFiniteSet(Workers), NEW e \in Admins,
         NEW w \in Workers, session[w].stage = "login_count"
  PROVE  Cardinality({v \in Workers : session[v].stage = "rotate"})
           + Cardinality(AdmittedLogins(e)) < Cardinality(Workers)
<1> DEFINE R == {v \in Workers : session[v].stage = "rotate"}
           A == AdmittedLogins(e)
<1>1. /\ R \subseteq Workers /\ A \subseteq Workers
      /\ R \cap A = {} /\ w \notin R \cup A /\ (R \cup A) \cup {w} \subseteq Workers
  BY DEF AdmittedLogins
<1> HIDE DEF R, A
<1>2. IsFiniteSet(R) /\ IsFiniteSet(A)
  BY <1>1, FS_Subset
<1>3. /\ IsFiniteSet(R \cup A)
      /\ Cardinality(R \cup A) = Cardinality(R) + Cardinality(A) - Cardinality({})
  BY <1>1, <1>2, FS_Union
<1>4. Cardinality((R \cup A) \cup {w}) = Cardinality(R \cup A) + 1
  BY <1>1, <1>3, FS_AddElement
<1>5. Cardinality((R \cup A) \cup {w}) <= Cardinality(Workers)
  BY <1>1, FS_Subset
<1>6. /\ Cardinality(R) \in Nat /\ Cardinality(A) \in Nat /\ Cardinality({}) = 0
      /\ Cardinality(Workers) \in Nat
  BY <1>2, FS_CardinalityType, FS_EmptySet
<1>7. Cardinality(R) + Cardinality(A) < Cardinality(Workers)
  BY <1>3, <1>4, <1>5, <1>6
<1>. QED
  BY <1>7 DEF R, A

(* The insertion of a login gives out one token, of the new family.        *)
LEMMA InsertsOne ==
  ASSUME Inv, NEW w \in Workers, NEW n \in Tokens, NEW f, LoginInsert(w, n, f)
  PROVE  /\ issued'[n] # issued[n] /\ issued'[n].fam = f
         /\ \A m \in Tokens : m # n => issued'[m] = issued[m]
         /\ session' = [session EXCEPT ![w] = Idle]
<1> DEFINE claims == [sub |-> session[w].email, fam |-> f,
                      exp |-> session[w].now + Lifetime]
<1>1. /\ issued[n] = NULL /\ issued' = [issued EXCEPT ![n] = claims]
      /\ session' = [session EXCEPT ![w] = Idle]
  BY DEF LoginInsert, Issue, Given
<1>2. session[w].email \in Admins /\ f \in Families
  BY DEF Inv, TypeInv, RequestsComplete, LoginInsert, FreshFamilies
<1>3. session[w].now + Lifetime \in Nat
  BY ConfigAssumption, Types DEF Inv
<1>4. claims \in Claims /\ claims # NULL /\ claims.fam = f
  BY <1>2, <1>3, NullAssumption DEF Claims
<1>5. issued \in [Tokens -> Claims \cup {NULL}]
  BY DEF Inv, TypeInv, TypeOK
<1> HIDE DEF claims
<1>. QED
  BY <1>1, <1>4, <1>5

(* A step keeps the bound: the count that admits a login sees all active   *)
(* families, and every one that it does not see, or that is still to be    *)
(* inserted, has a thread to itself.                                       *)
CapInv ==
  \A e \in Admins :
    /\ IsFiniteSet(OpenFamilies(e))
    /\ FamilyCap > 0 =>
         Cardinality(OpenFamilies(e)) + Cardinality(AdmittedLogins(e))
           < FamilyCap + Cardinality(Workers)

(* Each login that was let in before its insert keeps its place.           *)
LEMMA CapStep ==
  ASSUME IsFiniteSet(Workers), Inv, CapInv, [Next]_vars
  PROVE  CapInv'
<1> SUFFICES ASSUME NEW e \in Admins
             PROVE  /\ IsFiniteSet(OpenFamilies(e)')
                    /\ FamilyCap > 0 =>
                         Cardinality(OpenFamilies(e)') + Cardinality(AdmittedLogins(e)')
                           < FamilyCap + Cardinality(Workers)
  BY DEF CapInv
<1> DEFINE O == OpenFamilies(e)
           A == AdmittedLogins(e)
           O2 == OpenFamilies(e)'
           A2 == AdmittedLogins(e)'
<1>1. A \subseteq Workers /\ A2 \subseteq Workers
  BY DEF AdmittedLogins
<1>2. IsFiniteSet(O) /\ IsFiniteSet(A) /\ IsFiniteSet(A2)
  BY <1>1, FS_Subset DEF CapInv
<1>3. /\ Cardinality(O) \in Nat /\ Cardinality(A) \in Nat /\ Cardinality(A2) \in Nat
      /\ Cardinality(Workers) \in Nat /\ FamilyCap \in Nat
  BY <1>2, FS_CardinalityType
<1>4. \A v \in A2 \ A : LoginCount(v) /\ BelowCap(e) /\ session[v].email = e
  BY AdmittedByCount DEF AdmittedLogins
<1>5. \A f \in O2 \ O : \E w \in Workers, n \in Tokens :
        LoginInsert(w, n, f) /\ session[w].email = e
  BY OpensByLogin
<1>6. session \in [Workers -> Request] /\ issued \in [Tokens -> Claims \cup {NULL}]
  BY DEF Inv, TypeInv, TypeOK
<1>7. CASE O2 \subseteq O /\ A2 \subseteq A
  <2>1. /\ IsFiniteSet(O2) /\ Cardinality(O2) <= Cardinality(O)
        /\ Cardinality(A2) <= Cardinality(A)
    BY <1>2, <1>7, FS_Subset
  <2>2. Cardinality(O2) \in Nat
    BY <2>1, FS_CardinalityType
  <2>. QED
    BY <1>3, <2>1, <2>2 DEF CapInv
<1>8. ASSUME NEW w \in A2, w \notin A
      PROVE  /\ IsFiniteSet(O2)
             /\ FamilyCap > 0 =>
                  Cardinality(O2) + Cardinality(A2) < FamilyCap + Cardinality(Workers)
  <2> DEFINE R == {v \in Workers : session[v].stage = "rotate"}
  <2>1. w \in Workers /\ LoginCount(w) /\ BelowCap(e) /\ session[w].stage = "login_count"
    BY <1>1, <1>4, <1>8 DEF LoginCount
  <2>2. A2 \subseteq A \cup {w}
    BY <1>4, <1>6, <2>1 DEF LoginCount, AdmittedLogins
  <2>3. O2 \subseteq O
    <3>1. \A v \in Workers, n \in Tokens : \A f : ~LoginInsert(v, n, f)
      <4>1. issued' = issued
        BY <2>1 DEF LoginCount
      <4>. QED
        BY <4>1, InsertsOne
    <3>. QED
      BY <1>5, <3>1
  <2>4. IsFiniteSet(O2) /\ Cardinality(O2) <= Cardinality(O)
    BY <1>2, <2>3, FS_Subset
  <2>5. Cardinality(A2) <= Cardinality(A) + 1
    <3>1. /\ IsFiniteSet(A \cup {w})
          /\ Cardinality(A \cup {w}) = IF w \in A THEN Cardinality(A) ELSE Cardinality(A) + 1
      BY <1>2, FS_AddElement
    <3>2. Cardinality(A2) <= Cardinality(A \cup {w})
      BY <2>2, <3>1, FS_Subset
    <3>. QED
      BY <1>8, <3>1, <3>2
  <2>6. /\ IsFiniteSet(R)
        /\ Cardinality(O) <= Cardinality(ActiveFamilies(e)) + Cardinality(R)
    BY <1>2, OpenOverActive
  <2>7. Cardinality(R) + Cardinality(A) < Cardinality(Workers)
    BY <2>1, ThreadsCounted
  <2>8. Cardinality(R) \in Nat /\ Cardinality(ActiveFamilies(e)) \in Nat
        /\ Cardinality(O2) \in Nat
    <3>1. ActiveFamilies(e) \subseteq O
      BY DEF OpenFamilies
    <3>2. IsFiniteSet(ActiveFamilies(e))
      BY <1>2, <3>1, FS_Subset
    <3>. QED
      BY <2>4, <2>6, <3>2, FS_CardinalityType
  <2>9. FamilyCap > 0 => Cardinality(ActiveFamilies(e)) < FamilyCap
    BY <2>1 DEF BelowCap
  <2> HIDE DEF R, O, A, O2, A2
  <2>. QED
    BY <1>3, <2>4, <2>5, <2>6, <2>7, <2>8, <2>9
<1>9. ASSUME NEW f \in O2, f \notin O
      PROVE  /\ IsFiniteSet(O2)
             /\ FamilyCap > 0 =>
                  Cardinality(O2) + Cardinality(A2) < FamilyCap + Cardinality(Workers)
  <2>1. PICK w \in Workers, n \in Tokens : LoginInsert(w, n, f) /\ session[w].email = e
    BY <1>5, <1>9
  <2>2. O2 \subseteq O \cup {f}
    <3> SUFFICES ASSUME NEW g \in O2, g \notin O PROVE g = f
      OBVIOUS
    <3>1. PICK v \in Workers, m \in Tokens : LoginInsert(v, m, g)
      BY <1>5
    <3>2. m = n
      BY <2>1, <3>1, InsertsOne
    <3>. QED
      BY <2>1, <3>1, <3>2, InsertsOne
  <2>3. w \in A /\ A2 \subseteq A \ {w}
    <3>1. w \in A
      BY <2>1 DEF LoginInsert, AdmittedLogins
    <3>2. w \notin A2
      BY <1>6, <2>1 DEF LoginInsert, AdmittedLogins, Idle
    <3>3. A2 \subseteq A
      <4>1. issued' # issued
        BY <2>1, InsertsOne
      <4>. QED
        BY <1>4, <4>1 DEF LoginCount
    <3>. QED
      BY <3>1, <3>2, <3>3
  <2>4. IsFiniteSet(O2) /\ Cardinality(O2) <= Cardinality(O) + 1
    <3>1. /\ IsFiniteSet(O \cup {f}) /\ Cardinality(O \cup {f}) = Cardinality(O) + 1
      BY <1>2, <1>9, FS_AddElement
    <3>. QED
      BY <2>2, <3>1, FS_Subset
  <2>5. Cardinality(A2) <= Cardinality(A) - 1
    <3>1. IsFiniteSet(A \ {w}) /\ Cardinality(A \ {w}) = Cardinality(A) - 1
      BY <1>2, <2>3, FS_RemoveElement
    <3>. QED
      BY <2>3, <3>1, FS_Subset
  <2>6. Cardinality(O2) \in Nat
    BY <2>4, FS_CardinalityType
  <2>7. FamilyCap > 0 => Cardinality(O) + Cardinality(A) < FamilyCap + Cardinality(Workers)
    BY DEF CapInv
  <2> HIDE DEF O, A, O2, A2
  <2>. QED
    BY <1>3, <2>4, <2>5, <2>6, <2>7
<1>. QED
  BY <1>7, <1>8, <1>9

(* The bound holds from the start.                                         *)
LEMMA CapAlways ==
  ASSUME IsFiniteSet(Workers)
  PROVE  Spec => []CapInv
<1>1. Init => CapInv
  <2> SUFFICES ASSUME Init, NEW e \in Admins
               PROVE  /\ IsFiniteSet(OpenFamilies(e))
                      /\ FamilyCap > 0 =>
                           Cardinality(OpenFamilies(e)) + Cardinality(AdmittedLogins(e))
                             < FamilyCap + Cardinality(Workers)
    BY DEF CapInv
  <2>1. OpenFamilies(e) = {}
    BY DEF Init, OpenFamilies, ActiveFamilies, Stored, Given
  <2>2. AdmittedLogins(e) = {}
    BY DEF Init, AdmittedLogins, Idle
  <2>3. Cardinality(Workers) \in Nat
    BY FS_CardinalityType
  <2>. QED
    BY <2>1, <2>2, <2>3, FS_EmptySet
<1>2. Inv /\ CapInv /\ [Next]_vars => CapInv'
  BY CapStep
<1>. QED
  BY <1>1, <1>2, InvAlways, PTL DEF Spec

(* With finitely many threads, logins and rotations that overlap exceed    *)
(* the cap on active sessions by less than the number of threads, however  *)
(* many administrators, tokens and families there are.                     *)
THEOREM OvershootBounded ==
  ASSUME IsFiniteSet(Workers)
  PROVE  Spec => []CapOvershootBounded
<1>1. CapInv => CapOvershootBounded
  BY DEF CapInv, CapOvershootBounded
<1>2. Spec => []CapInv
  BY CapAlways
<1>. QED
  BY <1>1, <1>2, PTL

-----------------------------------------------------------------------------
(* Requests that overlap.  A rotation gives out one token, of the family   *)
(* of the token that it revokes.                                           *)
LEMMA RotatesOne ==
  ASSUME Inv, NEW w \in Workers, NEW n \in Tokens, RefreshRotate(w, n)
  PROVE  LET s == session[w].token
         IN  /\ s \in Stored /\ s # n
             /\ issued'[n].fam = issued[s].fam
             /\ \A m \in Tokens : m # n => issued'[m] = issued[m]
             /\ ~Unrevoked(refresh_tokens'[s])
             /\ refresh_tokens'[s].reused_detected = refresh_tokens[s].reused_detected
             /\ ~refresh_tokens'[n].reused_detected
             /\ \A t \in Tokens : t # n /\ t # s => refresh_tokens'[t] = refresh_tokens[t]
<1> DEFINE s == session[w].token
           read == session[w].loaded[s]
           stamp == Stamped(refresh_tokens[s], read, session[w].now, "rotated", "system")
           row == [stamp EXCEPT !.replaced_by_id = n]
           claims == [sub |-> issued[s].sub, fam |-> read.family_id,
                      exp |-> session[w].now + Lifetime]
           new == NewRow(issued[s].sub, read.family_id, session[w].now + Lifetime)
<1>1. /\ s \in Stored /\ read # NULL /\ s \in Tokens
      /\ n \notin Given /\ issued' = [issued EXCEPT ![n] = claims]
      /\ refresh_tokens' = [[refresh_tokens EXCEPT ![s] = row] EXCEPT ![n] = new]
  BY DEF RefreshRotate, Issue, Stored, Inv, TypeInv, RequestsComplete, Reading, Stages
<1>2. s # n /\ s \in Given
  BY <1>1 DEF Inv, TypeInv
<1>3. /\ refresh_tokens \in [Tokens -> Row \cup {NULL}]
      /\ issued \in [Tokens -> Claims \cup {NULL}]
  BY DEF Inv, TypeInv, TypeOK
<1>4. read.family_id = issued[s].fam
  BY <1>1 DEF Inv, SafetyInv, ReadsMatchClaims
<1>5. /\ stamp \in Row /\ stamp.revoked_at # NULL
      /\ stamp.reused_detected = refresh_tokens[s].reused_detected
  <2>1. /\ stamp \in Row /\ stamp.revoked_at # NULL
        /\ \A c \in {"admin_email", "family_id", "expires_at",
                     "reused_detected", "replaced_by_id"} :
             stamp[c] = refresh_tokens[s][c]
    <3>1. "rotated" \in Reasons /\ "system" \in Actors
      BY DEF Reasons, Actors
    <3>2. s \in Stored /\ session[w].loaded[s] # NULL
      BY <1>1
    <3>. QED
      BY <3>1, <3>2, StampedRevoked
  <2> HIDE DEF stamp
  <2>. QED
    BY <2>1
<1>6. /\ row.revoked_at # NULL
      /\ row.reused_detected = refresh_tokens[s].reused_detected
  <2> HIDE DEF stamp
  <2>. QED
    BY <1>5 DEF Row
<1>7. claims.fam = issued[s].fam /\ new.reused_detected = FALSE
  BY <1>4 DEF NewRow
<1> HIDE DEF stamp, row, claims, new, read, s
<1>8. /\ refresh_tokens'[s] = row /\ refresh_tokens'[n] = new
      /\ \A t \in Tokens : t # n /\ t # s => refresh_tokens'[t] = refresh_tokens[t]
      /\ issued'[n] = claims
      /\ \A m \in Tokens : m # n => issued'[m] = issued[m]
  BY <1>1, <1>2, <1>3
<1>. QED
  BY <1>1, <1>2, <1>6, <1>7, <1>8 DEF Unrevoked, s

(* A revocation of many rows commits what it has just selected.            *)
LEMMA SelectBegins ==
  ASSUME Inv, [Next]_vars, NEW v \in Workers, session'[v] # session[v],
         session'[v].stage \in {"reuse_commit", "logout_all_commit"}
  PROVE  \/ session'[v].stage = "reuse_commit" /\ ReuseSelect(v)
         \/ session'[v].stage = "logout_all_commit" /\ LogoutAllSelect(v)
<1>1. session \in [Workers -> Request] /\ session[v] \in Request
  BY DEF Inv, TypeInv, TypeOK
<1>2. Serve(v)
  BY OwnSteps DEF Idle
<1>3. ASSUME NEW e \in Admins, LoginStart(v, e) PROVE FALSE
  BY <1>1, <1>3 DEF LoginStart, Idle
<1>4. ASSUME LoginCount(v) PROVE FALSE
  BY <1>1, <1>4 DEF LoginCount, Idle, Request
<1>5. ASSUME NEW n \in Tokens, \/ \E f \in Families : LoginInsert(v, n, f)
                               \/ RefreshRotate(v, n)
      PROVE FALSE
  BY <1>1, <1>5 DEF LoginInsert, RefreshRotate, Idle
<1>6. ASSUME NEW t \in Tokens,
             \/ RefreshLookup(v, t) \/ RefreshReused(v, t)
             \/ LogoutLookup(v, t) \/ LogoutAllLookup(v, t)
      PROVE FALSE
  BY <1>1, <1>6 DEF RefreshLookup, RefreshReused, LogoutLookup, LogoutAllLookup, Start
<1>7. ASSUME NEW from, NEW to, NEW rows, Select(v, from, to, rows)
      PROVE  session'[v].stage = to
  BY <1>1, <1>7 DEF Select, Request
<1>8. ASSUME \/ ReuseCommit(v) \/ LogoutCommit(v) \/ LogoutAllCommit(v)
             \/ RequestFails(v)
      PROVE FALSE
  BY <1>1, <1>8, EndsIdle
<1>9. ReuseSelect(v) => session'[v].stage = "reuse_commit"
  BY <1>7 DEF ReuseSelect
<1>10. LogoutAllSelect(v) => session'[v].stage = "logout_all_commit"
  BY <1>7 DEF LogoutAllSelect
<1>. QED
  BY <1>2, <1>3, <1>4, <1>5, <1>6, <1>8, <1>9, <1>10 DEF Serve

(* A row that a step leaves keeps its family and administrator.            *)
LEMMA RowSame ==
  ASSUME Inv, [Next]_vars, NEW t \in Stored', t \in Given
  PROVE  /\ t \in Stored
         /\ ~Unrevoked(refresh_tokens[t]) => ~Unrevoked(refresh_tokens'[t])
         /\ refresh_tokens'[t].family_id = issued[t].fam
         /\ refresh_tokens[t].family_id = issued[t].fam
         /\ refresh_tokens'[t].admin_email = issued[t].sub
         /\ refresh_tokens[t].admin_email = issued[t].sub
<1>1. /\ t \in Stored
      /\ ~Unrevoked(refresh_tokens[t]) => ~Unrevoked(refresh_tokens'[t])
  BY RowsOnlyDie
<1>2. Inv' /\ issued'[t] = issued[t]
  BY InvInductive, ClaimsStay
<1>. QED
  BY <1>1, <1>2 DEF Inv, SafetyInv, ClaimsMatchRows

(* A row that a step adds is that of a token it gives out, in a login or a *)
(* rotation.                                                               *)
LEMMA RowNew ==
  ASSUME Inv, [Next]_vars, NEW n \in Stored', n \notin Given
  PROVE  /\ n \in Given' /\ refresh_tokens'[n].family_id = issued'[n].fam
         /\ \E w \in Workers :
              \/ \E f \in Families : LoginInsert(w, n, f) /\ f = issued'[n].fam
              \/ RefreshRotate(w, n)
<1>1. Inv' /\ n \in Given' /\ n \in Tokens
  BY InvInductive DEF Inv, TypeInv, Given
<1>2. PICK w \in Workers, m \in Tokens :
         RefreshRotate(w, m) \/ \E f \in Families : LoginInsert(w, m, f)
  <2>1. issued'[n] # issued[n]
    BY <1>1 DEF Given
  <2>. QED
    BY <2>1
       DEF Next, Serve, vars, Cleanup, Tick, Restart, LoginStart, LoginCount,
           RefreshLookup, RefreshReused, LogoutLookup, LogoutAllLookup, Start,
           ReuseSelect, LogoutAllSelect, Select, RequestFails,
           ReuseCommit, LogoutCommit, LogoutAllCommit, Revoke
<1>3. m = n
  BY <1>1, <1>2, InsertsOne, RotatesOne DEF Given
<1>4. refresh_tokens'[n].family_id = issued'[n].fam
  BY <1>1 DEF Inv, SafetyInv, ClaimsMatchRows
<1>. QED
  BY <1>1, <1>2, <1>3, <1>4, InsertsOne

(* What a SELECT returns is loaded, and the session keeps its token.       *)
LEMMA Selected ==
  ASSUME Inv, NEW w \in Workers, NEW from \in Reading, NEW to, NEW rows \in SUBSET Stored,
         Select(w, from, to, rows)
  PROVE  /\ \A t \in rows : session'[w].loaded[t] # NULL
         /\ session'[w].token = session[w].token
         /\ session'[w].loaded[session[w].token] = session[w].loaded[session[w].token]
         /\ refresh_tokens' = refresh_tokens
<1>1. session \in [Workers -> Request] /\ session[w] \in Request
  BY DEF Inv, TypeInv, TypeOK
<1>2. /\ session'[w].loaded = Load(session[w].loaded, rows)
      /\ session'[w].token = session[w].token
      /\ refresh_tokens' = refresh_tokens
  BY <1>1 DEF Select, Request
<1>3. session[w].token \in Tokens /\ session[w].loaded[session[w].token] # NULL
  BY DEF Select, Inv, TypeInv, RequestsComplete, Given
<1>4. \A t \in rows : t \in Tokens /\ Read(refresh_tokens[t]) # NULL
  BY Types, ReadType, NullAssumption DEF Inv, Stored
<1>. QED
  BY <1>2, <1>3, <1>4 DEF Load

(* A rotation under way has read its token before anyone revoked it.       *)
RotatesUnrevoked ==
  \A w \in Workers :
    session[w].stage = "rotate" => Unrevoked(session[w].loaded[session[w].token])

LEMMA RotatesUnrevokedStep ==
  ASSUME Inv, RotatesUnrevoked, [Next]_vars
  PROVE  RotatesUnrevoked'
<1> SUFFICES ASSUME NEW w \in Workers, session'[w].stage = "rotate"
             PROVE  Unrevoked(session'[w].loaded[session'[w].token])
  BY DEF RotatesUnrevoked, Unrevoked
<1>1. CASE session'[w] = session[w]
  BY <1>1 DEF RotatesUnrevoked
<1>2. CASE session'[w] # session[w]
  <2>1. session \in [Workers -> Request]
    BY DEF Inv, TypeInv, TypeOK
  <2>2. PICK t \in Tokens : RefreshLookup(w, t)
    BY <1>2, RotationBegins
  <2>3. /\ Unrevoked(refresh_tokens[t])
        /\ session'[w].token = t
        /\ session'[w].loaded = Load(Idle.loaded, {t})
    BY <2>1, <2>2 DEF RefreshLookup, Start, Live
  <2>4. Load(Idle.loaded, {t})[t] = Read(refresh_tokens[t])
    BY DEF Load, Idle
  <2>. QED
    BY <2>3, <2>4 DEF Unrevoked, Read
<1>. QED
  BY <1>1, <1>2

(* A new token that finds an unrevoked one in its family was given out by  *)
(* a rotation that another handler overtook, unless there were two before. *)
LEMMA NewRowOvertakes ==
  ASSUME Inv, RotatesUnrevoked, [Next]_vars,
         NEW f \in Families, AtMostOneToken(f),
         NEW n \in Stored', n \notin Given, refresh_tokens'[n].family_id = f,
         NEW t \in Stored', t # n, refresh_tokens'[t].family_id = f,
         Unrevoked(refresh_tokens'[t])
  PROVE  \E w \in Workers : Overtaken(w, f) /\ session'[w].stage = "idle"
<1>1. issued'[n].fam = f /\ n \in Tokens /\ t \in Tokens
  BY RowNew DEF Stored
<1>2. ASSUME \A m \in Tokens : m # n => issued'[m] = issued[m]
      PROVE  t \in Given
  <2>1. t \in Given'
    BY InvInductive DEF Inv, TypeInv
  <2>. QED
    BY <1>1, <1>2, <2>1 DEF Given
<1>3. ASSUME NEW w \in Workers, LoginInsert(w, n, f) PROVE FALSE
  <2>1. t \in Given
    BY <1>1, <1>2, <1>3, InsertsOne
  <2>2. issued[t].fam = f
    BY <2>1, RowSame
  <2>. QED
    BY <1>3, <2>1, <2>2 DEF LoginInsert, FreshFamilies
<1>4. PICK w \in Workers : RefreshRotate(w, n)
  BY <1>1, <1>3, RowNew
<1> DEFINE s == session[w].token
<1>5. /\ s \in Stored /\ issued[s].fam = f /\ ~Unrevoked(refresh_tokens'[s])
      /\ t \in Given
  BY <1>1, <1>2, <1>4, RotatesOne
<1>6. t \in Stored /\ Unrevoked(refresh_tokens[t]) /\ refresh_tokens[t].family_id = f
  BY <1>5, RowSame
<1>7. refresh_tokens[s].family_id = f
  BY <1>5 DEF Inv, SafetyInv, ClaimsMatchRows
<1>8. session[w].stage = "rotate" /\ session[w].loaded[s].family_id = f
  <2>1. session[w].loaded[s] # NULL /\ session[w].stage = "rotate"
    BY <1>4 DEF RefreshRotate, Inv, TypeInv, RequestsComplete, Reading, Stages
  <2>. QED
    BY <1>5, <2>1 DEF Inv, SafetyInv, ReadsMatchClaims, Stored
<1>9. session'[w].stage = "idle"
  BY <1>4 DEF RefreshRotate, Idle, Inv, TypeInv, TypeOK
<1>10. Unrevoked(session[w].loaded[s])
  BY <1>8 DEF RotatesUnrevoked
<1> HIDE DEF s
<1>11. ~Unrevoked(refresh_tokens[s])
  BY <1>5, <1>6, <1>7 DEF AtMostOneToken
<1>12. Overtaken(w, f)
  BY <1>5, <1>8, <1>10, <1>11 DEF Overtaken, s
<1>. QED
  BY <1>9, <1>12

(* A session that has at most one unrevoked token gets a second one only   *)
(* from a rotation whose token was revoked between its check and its       *)
(* commit, whatever other handlers, failures and restarts do.              *)
THEOREM SecondTokens == Spec => SecondTokenOvertaken
<1>1. ASSUME Inv, RotatesUnrevoked, [Next]_vars, NEW f \in Families,
             AtMostOneToken(f), ~AtMostOneToken(f)'
      PROVE  \E w \in Workers : Overtaken(w, f) /\ session'[w].stage = "idle"
  <2>1. PICK t \in Stored', u \in Stored' :
          /\ refresh_tokens'[t].family_id = f /\ Unrevoked(refresh_tokens'[t])
          /\ refresh_tokens'[u].family_id = f /\ Unrevoked(refresh_tokens'[u])
          /\ t # u
    BY <1>1 DEF AtMostOneToken, Unrevoked
  <2>2. CASE t \in Given /\ u \in Given
    <3>1. /\ t \in Stored /\ Unrevoked(refresh_tokens[t]) /\ refresh_tokens[t].family_id = f
          /\ u \in Stored /\ Unrevoked(refresh_tokens[u]) /\ refresh_tokens[u].family_id = f
      BY <1>1, <2>1, <2>2, RowSame
    <3>. QED
      BY <1>1, <2>1, <3>1 DEF AtMostOneToken
  <2>3. CASE t \notin Given
    BY <1>1, <2>1, <2>3, NewRowOvertakes
  <2>4. CASE u \notin Given
    BY <1>1, <2>1, <2>4, NewRowOvertakes
  <2>. QED
    BY <2>2, <2>3, <2>4
<1>2. Init => RotatesUnrevoked
  BY DEF Init, RotatesUnrevoked, Idle
<1>3. Inv /\ RotatesUnrevoked /\ [Next]_vars => RotatesUnrevoked'
  BY RotatesUnrevokedStep
<1>4. Inv /\ RotatesUnrevoked /\ [Next]_vars => [\A f \in Families :
         AtMostOneToken(f) /\ ~AtMostOneToken(f)' =>
           \E w \in Workers : Overtaken(w, f) /\ session'[w].stage = "idle"]_vars
  BY <1>1
<1>. QED
  BY <1>2, <1>3, <1>4, InvAlways, PTL DEF Spec, SecondTokenOvertaken

-----------------------------------------------------------------------------
(* What a revocation of many rows has not read was stored after it read.   *)
Missed ==
  \A w \in Workers, t \in Stored :
    Selecting(w) /\ Concerns(w, refresh_tokens[t]) =>
      session[w].loaded[t] # NULL \/ t \in late[w]

(* The SELECT returns every row there is to revoke ...                     *)
LEMMA SelectsAll ==
  ASSUME Inv, [Next]_vars, NEW w \in Workers, session'[w] # session[w], Selecting(w)',
         NEW t \in Stored', Concerns(w, refresh_tokens[t])'
  PROVE  session'[w].loaded[t] # NULL
<1> DEFINE own == session[w].loaded[session[w].token]
           family == {u \in Stored : refresh_tokens[u].family_id = own.family_id}
           account == {u \in Stored : refresh_tokens[u].admin_email = own.admin_email}
<1>1. {"reuse_select", "logout_all_select"} \subseteq Reading
      /\ family \in SUBSET Stored /\ account \in SUBSET Stored
  BY DEF Reading, Stages
<1>2. \/ session'[w].stage = "reuse_commit" /\ ReuseSelect(w)
      \/ session'[w].stage = "logout_all_commit" /\ LogoutAllSelect(w)
  BY SelectBegins DEF Selecting
<1>3. CASE session'[w].stage = "reuse_commit" /\ ReuseSelect(w)
  <2>1. Select(w, "reuse_select", "reuse_commit", family)
    BY <1>3 DEF ReuseSelect
  <2> HIDE DEF family
  <2>2. /\ \A u \in family : session'[w].loaded[u] # NULL
        /\ session'[w].loaded[session'[w].token] = own
        /\ refresh_tokens' = refresh_tokens
    BY <1>1, <2>1, Selected
  <2>3. t \in family
    BY <1>3, <2>2 DEF Concerns, Stored, family
  <2>. QED
    BY <2>2, <2>3
<1>4. CASE session'[w].stage = "logout_all_commit" /\ LogoutAllSelect(w)
  <2>1. Select(w, "logout_all_select", "logout_all_commit", account)
    BY <1>4 DEF LogoutAllSelect
  <2> HIDE DEF account
  <2>2. /\ \A u \in account : session'[w].loaded[u] # NULL
        /\ session'[w].loaded[session'[w].token] = own
        /\ refresh_tokens' = refresh_tokens
    BY <1>1, <2>1, Selected
  <2>3. t \in account
    BY <1>4, <2>2 DEF Concerns, Stored, account
  <2>. QED
    BY <2>2, <2>3
<1>. QED
  BY <1>2, <1>3, <1>4

(* ... and a row that is stored while the thread waits is late.            *)
LEMMA MissedStep ==
  ASSUME Inv, Missed, [HistoryNext]_hvars
  PROVE  Missed'
<1> SUFFICES ASSUME NEW w \in Workers, NEW t \in Stored',
                    Selecting(w)', Concerns(w, refresh_tokens[t])'
             PROVE  session'[w].loaded[t] # NULL \/ t \in late'[w]
  BY DEF Missed
<1>1. [Next]_vars
  BY DEF HistoryNext, hvars, vars
<1>2. CASE session'[w] # session[w]
  BY <1>1, <1>2, SelectsAll
<1>3. CASE session'[w] = session[w]
  <2>1. Selecting(w)
    BY <1>3 DEF Selecting
  <2>2. CASE UNCHANGED hvars
    BY <1>3, <2>1, <2>2 DEF hvars, Missed, Concerns, Stored
  <2>3. CASE HistoryNext
    <3>1. late'[w] = late[w] \cup (Given' \ Given)
      BY <2>1, <2>3 DEF HistoryNext
    <3>2. CASE t \notin Given
      BY <1>1, <3>1, <3>2, RowNew
    <3>3. CASE t \in Given
      <4>1. /\ t \in Stored
            /\ refresh_tokens'[t].family_id = refresh_tokens[t].family_id
            /\ refresh_tokens'[t].admin_email = refresh_tokens[t].admin_email
        BY <1>1, <3>3, RowSame
      <4>2. Concerns(w, refresh_tokens[t])
        BY <1>3, <4>1 DEF Concerns
      <4>. QED
        BY <1>3, <2>1, <3>1, <4>1, <4>2 DEF Missed
    <3>. QED
      BY <3>2, <3>3
  <2>. QED
    BY <2>2, <2>3
<1>. QED
  BY <1>2, <1>3

(* A reuse detection or a logout-all leaves no token of its family or      *)
(* administrator unrevoked, whatever other handlers did since it read the  *)
(* rows, except tokens that were given out after it read them.             *)
THEOREM OnlyLateSurvive == HistorySpec => OnlyLateTokensSurvive
<1>1. HistoryInit => Init /\ Missed
  BY DEF HistoryInit, Init, Missed, Stored
<1>2. [HistoryNext]_hvars => [Next]_vars
  BY DEF HistoryNext, hvars, vars
<1>3. HistorySpec => []Inv
  BY <1>1, <1>2, InvAlways, PTL DEF HistorySpec, Spec
<1>4. Inv /\ Missed /\ [HistoryNext]_hvars => Missed'
  BY MissedStep
<1>5. ASSUME Inv, Missed, [Next]_vars, NEW w \in Workers, Selecting(w),
             session'[w].stage = "idle", refresh_tokens' # refresh_tokens,
             Stored' = Stored,
             NEW t \in Stored, Concerns(w, refresh_tokens[t]),
             Unrevoked(refresh_tokens'[t])
      PROVE  t \in late[w]
  <2>1. session[w].stage \in Revoking
    BY <1>5 DEF Selecting, Revoking
  <2>2. session[w].loaded[t] = NULL
    BY <1>5, <2>1, LoadedDie
  <2>. QED
    BY <1>5, <2>2 DEF Missed
<1>6. Inv /\ Missed /\ [HistoryNext]_hvars => [\A w \in Workers :
         /\ Selecting(w)
         /\ session'[w].stage = "idle"
         /\ refresh_tokens' # refresh_tokens
         /\ Stored' = Stored
         => \A t \in Stored :
              Concerns(w, refresh_tokens[t]) /\ Unrevoked(refresh_tokens'[t])
                => t \in late[w]]_hvars
  BY <1>2, <1>5
<1>. QED
  BY <1>1, <1>3, <1>4, <1>6, PTL DEF HistorySpec, OnlyLateTokensSurvive

-----------------------------------------------------------------------------
(* Whose tokens a request may end.  All that a session has read, until it  *)
(* selects what to revoke, is the row of its own token; then also the rows *)
(* of that token's family, or of its administrator.                        *)
LoadedAreMeant ==
  \A w \in Workers, t \in Tokens :
    session[w].loaded[t] # NULL =>
      LET own == session[w].token
      IN  \/ t = own
          \/ session[w].stage = "reuse_commit" /\ issued[t].fam = issued[own].fam
          \/ session[w].stage = "logout_all_commit" /\ issued[t].sub = issued[own].sub

(* What a SELECT adds to a session are the rows it returns.                *)
LEMMA SelectAdds ==
  ASSUME Inv, NEW w \in Workers, NEW from, NEW to, NEW rows, Select(w, from, to, rows)
  PROVE  /\ session[w].stage = from /\ session'[w].stage = to
         /\ session'[w].token = session[w].token /\ UNCHANGED issued
         /\ \A t \in Tokens : session'[w].loaded[t] # NULL =>
                              session[w].loaded[t] # NULL \/ t \in rows
<1>1. session \in [Workers -> Request] /\ session[w] \in Request
  BY DEF Inv, TypeInv, TypeOK
<1>2. /\ session'[w].stage = to /\ session'[w].token = session[w].token
      /\ session'[w].loaded = Load(session[w].loaded, rows)
  BY <1>1 DEF Select, Request
<1>. QED
  BY <1>2 DEF Select, Load

(* No step makes a session read a row that is none of its business: rows   *)
(* are selected by the family, or the administrator, that the row of its   *)
(* own token names, and no claim changes while it waits.                   *)
LEMMA LoadedMeantStep ==
  ASSUME Inv, LoadedAreMeant, [Next]_vars
  PROVE  LoadedAreMeant'
<1> SUFFICES ASSUME NEW w \in Workers, NEW t \in Tokens, session'[w].loaded[t] # NULL
             PROVE  LET own == session'[w].token
                    IN  \/ t = own
                        \/ /\ session'[w].stage = "reuse_commit"
                           /\ issued'[t].fam = issued'[own].fam
                        \/ /\ session'[w].stage = "logout_all_commit"
                           /\ issued'[t].sub = issued'[own].sub
  BY DEF LoadedAreMeant
<1> DEFINE own == session[w].token
<1>1. session \in [Workers -> Request] /\ session[w] \in Request
  BY DEF Inv, TypeInv, TypeOK
<1>2. Idle.loaded[t] = NULL
  BY DEF Idle
<1>3. CASE session'[w] = session[w]
  <2>1. t \in Given
    BY <1>3 DEF Inv, SafetyInv, ReadsMatchClaims
  <2>2. session[w].stage \in {"reuse_commit", "logout_all_commit"} => own \in Given
    BY DEF Inv, TypeInv, RequestsComplete, Reading, Stages
  <2>3. issued'[t] = issued[t] /\ (own \in Given => issued'[own] = issued[own])
    BY <2>1, ClaimsStay
  <2>. QED
    BY <1>3, <2>2, <2>3 DEF LoadedAreMeant
<1>4. CASE session'[w] # session[w]
  <2>1. Serve(w)
    BY <1>2, <1>4, OwnSteps
  <2>2. ASSUME NEW e \in Admins, LoginStart(w, e) PROVE FALSE
    BY <1>1, <1>2, <2>2 DEF LoginStart, Idle
  <2>3. ASSUME LoginCount(w) PROVE t = session'[w].token
    <3>1. session'[w].loaded # Idle.loaded
      BY <1>2
    <3>2. session'[w].loaded = session[w].loaded /\ session'[w].token = own
      BY <1>1, <2>3, <3>1 DEF LoginCount, Request
    <3>3. session[w].stage = "login_count"
      BY <2>3 DEF LoginCount
    <3>. QED
      BY <3>2, <3>3 DEF LoadedAreMeant
  <2>4. ASSUME NEW n \in Tokens, \/ \E f \in Families : LoginInsert(w, n, f)
                                 \/ RefreshRotate(w, n)
        PROVE FALSE
    BY <1>1, <1>2, <2>4 DEF LoginInsert, RefreshRotate
  <2>5. ASSUME NEW u \in Tokens, NEW stage, Start(w, u, stage)
        PROVE  t = session'[w].token
    <3>1. session'[w].token = u /\ session'[w].loaded = Load(Idle.loaded, {u})
      BY <1>1, <2>5 DEF Start
    <3>. QED
      BY <1>2, <3>1 DEF Load
  <2>6. ASSUME ReuseSelect(w)
        PROVE  \/ t = session'[w].token
               \/ /\ session'[w].stage = "reuse_commit"
                  /\ issued'[t].fam = issued'[session'[w].token].fam
    <3> DEFINE read == session[w].loaded[own]
               rows == {u \in Stored : refresh_tokens[u].family_id = read.family_id}
    <3>1. Select(w, "reuse_select", "reuse_commit", rows)
      BY <2>6 DEF ReuseSelect
    <3>2. session[w].loaded[own].family_id = issued[own].fam
      BY <3>1 DEF Select, Inv, TypeInv, RequestsComplete, Reading, Stages, Given,
         SafetyInv, ReadsMatchClaims
    <3>3. \A u \in rows : issued[u].fam = issued[own].fam
      BY <3>2 DEF Inv, SafetyInv, ClaimsMatchRows
    <3> HIDE DEF rows
    <3>4. /\ session[w].stage = "reuse_select" /\ session'[w].stage = "reuse_commit"
          /\ session'[w].token = own /\ issued' = issued
          /\ session[w].loaded[t] # NULL \/ t \in rows
      BY <3>1, SelectAdds
    <3>. QED
      BY <3>3, <3>4 DEF LoadedAreMeant
  <2>7. ASSUME LogoutAllSelect(w)
        PROVE  \/ t = session'[w].token
               \/ /\ session'[w].stage = "logout_all_commit"
                  /\ issued'[t].sub = issued'[session'[w].token].sub
    <3> DEFINE read == session[w].loaded[own]
               rows == {u \in Stored : refresh_tokens[u].admin_email = read.admin_email}
    <3>1. Select(w, "logout_all_select", "logout_all_commit", rows)
      BY <2>7 DEF LogoutAllSelect
    <3>2. session[w].loaded[own].admin_email = issued[own].sub
      BY <3>1 DEF Select, Inv, TypeInv, RequestsComplete, Reading, Stages, Given,
         SafetyInv, ReadsMatchClaims
    <3>3. \A u \in rows : issued[u].sub = issued[own].sub
      BY <3>2 DEF Inv, SafetyInv, ClaimsMatchRows
    <3> HIDE DEF rows
    <3>4. /\ session[w].stage = "logout_all_select"
          /\ session'[w].stage = "logout_all_commit"
          /\ session'[w].token = own /\ issued' = issued
          /\ session[w].loaded[t] # NULL \/ t \in rows
      BY <3>1, SelectAdds
    <3>. QED
      BY <3>3, <3>4 DEF LoadedAreMeant
  <2>8. ASSUME \/ ReuseCommit(w) \/ LogoutCommit(w) \/ LogoutAllCommit(w)
               \/ RequestFails(w)
        PROVE FALSE
    BY <1>1, <1>2, <2>8, EndsIdle
  <2>9. ASSUME NEW u \in Tokens, \/ RefreshLookup(w, u) \/ RefreshReused(w, u)
                                 \/ LogoutLookup(w, u) \/ LogoutAllLookup(w, u)
        PROVE  t = session'[w].token
    BY <2>5, <2>9 DEF RefreshLookup, RefreshReused, LogoutLookup, LogoutAllLookup
  <2>. QED
    BY <2>1, <2>2, <2>3, <2>4, <2>6, <2>7, <2>8, <2>9 DEF Serve
<1>. QED
  BY <1>3, <1>4

(* A commit writes only to rows that its session has read.                 *)
LEMMA RevokesLoaded ==
  ASSUME Inv, LoadedAreMeant, NEW w \in Workers, NEW t \in Stored,
         ReuseCommit(w) \/ LogoutCommit(w) \/ LogoutAllCommit(w)
  PROVE  /\ t \in Stored' /\ session'[w].stage = "idle"
         /\ refresh_tokens'[t] = refresh_tokens[t] \/ t \in MayRevoke(w)
<1>1. t \in Tokens /\ t \in Given
  BY DEF Inv, TypeInv, Given
<1>2. t \in Stored'
  <2>1. PICK stage \in Revoking, reason \in Reasons, by \in Actors,
             reused \in SUBSET {u \in Tokens : session[w].loaded[u] # NULL} :
          Revoke(w, stage, reason, by, reused)
    BY Commits
  <2>. QED
    BY <1>1, <2>1, RevokedRow DEF Stored
<1>3. session'[w].stage = "idle"
  BY EndsIdle DEF Inv, TypeInv, TypeOK
<1>4. ASSUME NEW stage, NEW reason, NEW by, NEW reused,
             Revoke(w, stage, reason, by, reused), session[w].loaded[t] = NULL, t \notin reused
      PROVE  refresh_tokens'[t] = refresh_tokens[t]
  BY <1>1, <1>4 DEF Revoke
<1>5. \/ refresh_tokens'[t] = refresh_tokens[t]
      \/ session[w].loaded[t] # NULL
      \/ session[w].stage = "reuse_commit" /\ t = session[w].token
  <2>1. ReuseCommit(w) => session[w].stage = "reuse_commit"
    BY DEF ReuseCommit, Revoke
  <2>. QED
    BY <1>4, <2>1 DEF ReuseCommit, LogoutCommit, LogoutAllCommit
<1>6. session[w].stage \in {"reuse_commit", "logout_commit", "logout_all_commit"}
  BY DEF ReuseCommit, LogoutCommit, LogoutAllCommit, Revoke
<1>7. session[w].loaded[t] # NULL => t \in MayRevoke(w)
  BY <1>1, <1>6 DEF LoadedAreMeant, MayRevoke
<1>8. session[w].stage = "reuse_commit" /\ t = session[w].token => t \in MayRevoke(w)
  BY <1>1 DEF MayRevoke
<1>. QED
  BY <1>2, <1>3, <1>5, <1>7, <1>8

(* A step that takes the life of an unrevoked row is a commit that is      *)
(* about it, or the cleanup of what is expired.                            *)
LEMMA IsolatedStep ==
  ASSUME Inv, LoadedAreMeant, [Next]_vars, NEW t \in Stored, Unrevoked(refresh_tokens[t])
  PROVE  \/ t \in Stored' /\ Unrevoked(refresh_tokens'[t])
         \/ t \notin Stored' /\ refresh_tokens[t].expires_at <= clock
         \/ /\ t \in Stored'
            /\ \E w \in Workers : t \in MayRevoke(w) /\ session'[w].stage = "idle"
<1>1. /\ t \in Tokens /\ t \in Given /\ refresh_tokens[t] \in Row
      /\ refresh_tokens \in [Tokens -> Row \cup {NULL}] /\ clock \in Nat
  BY Types DEF Inv, TypeInv, TypeOK, Given
<1>2. CASE refresh_tokens'[t] = refresh_tokens[t]
  BY <1>1, <1>2 DEF Stored
<1>3. CASE refresh_tokens' = Purged
  <2>1. CASE t \in Kept
    <3>1. t \in Stored'
      BY <1>3, <2>1, KeptStored DEF Inv
    <3>2. refresh_tokens'[t] = [refresh_tokens[t] EXCEPT
                                  !.replaced_by_id = IF @ \in Kept THEN @ ELSE NULL]
      BY <1>1, <1>3, <2>1 DEF Purged
    <3>. QED
      BY <1>1, <3>1, <3>2 DEF Row, Unrevoked
  <2>2. CASE t \notin Kept
    <3>1. t \notin Stored'
      BY <1>3, <2>2, PurgedStored DEF Stored
    <3>2. refresh_tokens[t].expires_at + Retention <= clock
      BY <2>2 DEF Kept, Purgeable
    <3>3. refresh_tokens[t].expires_at \in Nat
      BY <1>1 DEF Row
    <3>. QED
      BY <1>1, <3>1, <3>2, <3>3
  <2>. QED
    BY <2>1, <2>2
<1>4. ASSUME NEW w \in Workers, NEW n \in Tokens, NEW f \in Families, LoginInsert(w, n, f)
      PROVE  refresh_tokens'[t] = refresh_tokens[t]
  BY <1>1, <1>4 DEF LoginInsert, Issue
<1>5. ASSUME NEW w \in Workers, NEW n \in Tokens, RefreshRotate(w, n)
      PROVE  \/ refresh_tokens'[t] = refresh_tokens[t]
             \/ t \in Stored' /\ t \in MayRevoke(w) /\ session'[w].stage = "idle"
  <2>1. CASE t # session[w].token
    BY <1>1, <1>5, <2>1 DEF RefreshRotate, Issue
  <2>2. CASE t = session[w].token
    <3>1. t \in MayRevoke(w)
      BY <1>1, <1>5, <2>2 DEF RefreshRotate, MayRevoke
    <3>2. session'[w].stage = "idle"
      BY <1>5 DEF RefreshRotate, Idle, Inv, TypeInv, TypeOK
    <3>3. t \in Stored'
      <4> DEFINE stamp == Stamped(refresh_tokens[t], session[w].loaded[t],
                                  session[w].now, "rotated", "system")
      <4>1. stamp \in Row
        <5>1. session[w].loaded[t] # NULL /\ "rotated" \in Reasons /\ "system" \in Actors
          BY <1>5, <2>2 DEF RefreshRotate, Inv, TypeInv, RequestsComplete, Reading,
             Stages, Reasons, Actors
        <5>. QED
          BY <5>1, StampedRevoked
      <4>2. refresh_tokens'[t] = [stamp EXCEPT !.replaced_by_id = n]
        <5>1. t # n
          BY <1>1, <1>5 DEF RefreshRotate, Issue
        <5>. QED
          BY <1>1, <1>5, <2>2, <5>1, RotatedRow
      <4> HIDE DEF stamp
      <4>3. refresh_tokens'[t] \in Row
        BY <4>1, <4>2 DEF Row
      <4>. QED
        BY <1>1, <4>3 DEF Stored
    <3>. QED
      BY <3>1, <3>2, <3>3
  <2>. QED
    BY <2>1, <2>2
<1>6. ASSUME NEW w \in Workers, ReuseCommit(w) \/ LogoutCommit(w) \/ LogoutAllCommit(w)
      PROVE  \/ refresh_tokens'[t] = refresh_tokens[t]
             \/ t \in Stored' /\ t \in MayRevoke(w) /\ session'[w].stage = "idle"
  BY <1>6, RevokesLoaded
<1>7. \/ refresh_tokens' = refresh_tokens
      \/ refresh_tokens' = Purged
      \/ \E w \in Workers : \/ \E n \in Tokens, f \in Families : LoginInsert(w, n, f)
                            \/ \E n \in Tokens : RefreshRotate(w, n)
                            \/ ReuseCommit(w) \/ LogoutCommit(w) \/ LogoutAllCommit(w)
  BY DEF Next, Serve, vars, Cleanup, Tick, Restart, LoginStart, LoginCount,
     RefreshLookup, RefreshReused, LogoutLookup, LogoutAllLookup, Start,
     ReuseSelect, LogoutAllSelect, Select, RequestFails
<1>. QED
  BY <1>2, <1>3, <1>4, <1>5, <1>6, <1>7

(* Sessions are isolated: however handlers, cleanups, failures and         *)
(* restarts interleave, a token that is not revoked is revoked only by a   *)
(* request about it - its own refresh or logout, a reuse in its family, a  *)
(* logout-all of its administrator - and deleted only once it is expired.  *)
THEOREM RevocationsAreMeant == Spec => SessionsIsolated
<1>1. Init => LoadedAreMeant
  BY DEF Init, Idle, LoadedAreMeant
<1>2. Inv /\ LoadedAreMeant /\ [Next]_vars => LoadedAreMeant'
  BY LoadedMeantStep
<1>3. Inv /\ LoadedAreMeant /\ [Next]_vars =>
        [\A t \in Stored :
           Unrevoked(refresh_tokens[t]) =>
             \/ t \in Stored' /\ Unrevoked(refresh_tokens'[t])
             \/ t \notin Stored' /\ refresh_tokens[t].expires_at <= clock
             \/ /\ t \in Stored'
                /\ \E w \in Workers : t \in MayRevoke(w) /\ session'[w].stage = "idle"]_vars
  BY IsolatedStep
<1>. QED
  BY <1>1, <1>2, <1>3, InvAlways, PTL DEF Spec, SessionsIsolated

=============================================================================
