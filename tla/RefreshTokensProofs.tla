------------------------ MODULE RefreshTokensProofs -------------------------
(***************************************************************************)
(* The refresh-token store keeps its types, its rows match the claims of   *)
(* their tokens, their audit columns agree, and revocations kill what they *)
(* have read: for every value of the constants, and however handlers       *)
(* overlap.                                                                *)
(***************************************************************************)
EXTENDS RefreshTokens, TLAPS

USE ConfigAssumption, NullAssumption

(* The row a login or a rotation inserts is a row of the table.            *)
LEMMA NewRowType ==
  ASSUME NEW e \in Admins, NEW f \in Families, NEW exp \in Nat
  PROVE  NewRow(e, f, exp) \in Row
BY DEF NewRow, Row

(* What a handler has read of a row has the types of the columns.          *)
LEMMA ReadType ==
  ASSUME NEW row \in Row
  PROVE  Read(row) \in Attributes
BY DEF Read, Row, Attributes

(* _revoke_token leaves a row of the table, whatever was read before.      *)
LEMMA StampedType ==
  ASSUME NEW row \in Row, NEW read, NEW now \in Nat,
         NEW reason \in Reasons, NEW by \in Actors
  PROVE  Stamped(row, read, now, reason, by) \in Row
BY DEF Stamped, Row

(* So does the cleanup.                                                    *)
LEMMA PurgedType ==
  ASSUME refresh_tokens \in [Tokens -> Row \cup {NULL}]
  PROVE  Purged \in [Tokens -> Row \cup {NULL}]
BY DEF Purged, Kept, Stored, Row

(* A SELECT of stored rows leaves typed attributes in the session.         *)
LEMMA LoadType ==
  ASSUME refresh_tokens \in [Tokens -> Row \cup {NULL}],
         NEW loaded \in [Tokens -> Attributes \cup {NULL}], NEW S \in SUBSET Stored
  PROVE  Load(loaded, S) \in [Tokens -> Attributes \cup {NULL}]
BY ReadType DEF Load, Stored

(* A closed session is typed.                                              *)
LEMMA IdleType == Idle \in Request
BY DEF Idle, Request, Stages

(* A step that only moves the session of one worker keeps TypeOK. *)
LEMMA SessionType ==
  ASSUME TypeOK, NEW w \in Workers, NEW s \in Request,
         session' = [session EXCEPT ![w] = s],
         UNCHANGED <<clock, admin_emails, issued, refresh_tokens>>
  PROVE  TypeOK'
BY DEF TypeOK, Stored, Given

(* A handler that has looked up the row of its token keeps TypeOK.         *)
LEMMA StartType ==
  ASSUME TypeOK, NEW w \in Workers, NEW t \in Tokens, NEW stage \in Stages,
         Start(w, t, stage)
  PROVE  TypeOK'
<1>1. Load(Idle.loaded, {t}) \in [Tokens -> Attributes \cup {NULL}]
  BY LoadType DEF Start, TypeOK, Idle
<1>2. [stage |-> stage, email |-> NULL, token |-> t, now |-> clock,
       loaded |-> Load(Idle.loaded, {t})] \in Request
  BY <1>1 DEF Request, TypeOK
<1> QED
  BY <1>2, SessionType DEF Start

(* A SELECT of the rows to revoke keeps TypeOK.                            *)
LEMMA SelectType ==
  ASSUME TypeOK, NEW w \in Workers, NEW from, NEW to \in Stages,
         NEW S \in SUBSET Stored, Select(w, from, to, S)
  PROVE  TypeOK'
<1> DEFINE s == session[w]
           new == [s EXCEPT !.stage = to, !.now = clock, !.loaded = Load(s.loaded, S)]
<1>1. s \in Request
  BY DEF TypeOK
<1>2. Load(s.loaded, S) \in [Tokens -> Attributes \cup {NULL}]
  BY <1>1, LoadType DEF TypeOK, Request
<1>3. new \in Request
  BY <1>1, <1>2 DEF TypeOK, Request
<1>4. session' = [session EXCEPT ![w] = new]
  BY <1>1 DEF Select, TypeOK, Request
<1>5. UNCHANGED <<clock, admin_emails, issued, refresh_tokens>>
  BY DEF Select
<1> HIDE DEF new
<1> QED
  BY <1>3, <1>4, <1>5, SessionType

(* Signing and storing a token keeps the types of claims and rows.         *)
LEMMA IssueType ==
  ASSUME TypeOK, NEW n \in Tokens, NEW e \in Admins, NEW f \in Families,
         NEW exp \in Nat, NEW rows \in [Tokens -> Row \cup {NULL}],
         Issue(n, e, f, exp, rows)
  PROVE  /\ issued' \in [Tokens -> Claims \cup {NULL}]
         /\ refresh_tokens' \in [Tokens -> Row \cup {NULL}]
BY NewRowType DEF Issue, TypeOK, Claims

(* The commit of a revocation keeps TypeOK.                                *)
LEMMA RevokeType ==
  ASSUME TypeOK, NEW w \in Workers, NEW stage, NEW reason \in Reasons,
         NEW by \in Actors, NEW reused, Revoke(w, stage, reason, by, reused)
  PROVE  TypeOK'
<1>1. ASSUME NEW t \in Tokens, t \in Stored
      PROVE  [Stamped(refresh_tokens[t], session[w].loaded[t], session[w].now, reason, by)
                EXCEPT !.reused_detected = @ \/ t \in reused] \in Row
  <2>1. refresh_tokens[t] \in Row /\ session[w].now \in Nat
    BY <1>1 DEF TypeOK, Stored, Request
  <2>2. Stamped(refresh_tokens[t], session[w].loaded[t], session[w].now, reason, by) \in Row
    BY <2>1, StampedType
  <2> QED
    BY <2>2 DEF Row
<1>2. refresh_tokens' \in [Tokens -> Row \cup {NULL}]
  BY <1>1 DEF Revoke, TypeOK
<1>3. session' \in [Workers -> Request]
  BY IdleType DEF Revoke, TypeOK
<1> QED
  BY <1>2, <1>3 DEF Revoke, TypeOK

-----------------------------------------------------------------------------
(* TypeOK is not inductive: a handler must have read the row it works on,  *)
(* and a login must know its administrator.                                *)
Reading == Stages \ {"idle", "login_count", "login_insert"}

RequestsComplete ==
  \A w \in Workers :
    /\ session[w].stage \in {"login_count", "login_insert"} => session[w].email \in Admins
    /\ session[w].stage \in Reading =>
         /\ session[w].token \in Given
         /\ session[w].loaded[session[w].token] # NULL

TypeInv ==
  /\ TypeOK
  /\ Stored \subseteq Given
  /\ RequestsComplete

(* The cleanup stores nothing: a row that is left was kept.                *)
LEMMA PurgedStored ==
  ASSUME NEW t \in Tokens, Purged[t] # NULL
  PROVE  t \in Kept
BY DEF Purged

(* Of the kinds of steps, those that look up a token, ...                  *)
LEMMA StartInv ==
  ASSUME TypeInv, NEW w \in Workers, NEW t \in Given, NEW stage \in Reading,
         Start(w, t, stage)
  PROVE  TypeInv'
<1>1. t \in Tokens /\ refresh_tokens[t] \in Row
  BY DEF TypeInv, TypeOK, Given, Start, Stored
<1>2. TypeOK'
  BY <1>1, StartType DEF TypeInv, Reading
<1>3. Load(Idle.loaded, {t})[t] # NULL
  BY <1>1, ReadType DEF Load, Idle
<1>4. RequestsComplete'
  BY <1>3 DEF TypeInv, TypeOK, RequestsComplete, Start, Given, Reading
<1> QED
  BY <1>2, <1>4 DEF TypeInv, Start, Stored, Given

(* ... read the rows to revoke ...                                         *)
LEMMA SelectInv ==
  ASSUME TypeInv, NEW w \in Workers, NEW from \in Reading, NEW to \in Reading,
         NEW S \in SUBSET Stored, Select(w, from, to, S)
  PROVE  TypeInv'
<1>1. session[w] \in Request /\ session[w].token \in Tokens
  BY DEF TypeInv, TypeOK, RequestsComplete, Select, Given
<1>2. TypeOK'
  BY SelectType DEF TypeInv, Reading
<1>3. Load(session[w].loaded, S)[session[w].token] # NULL
  BY <1>1 DEF Load, TypeInv, RequestsComplete, Select
<1>4. RequestsComplete'
  BY <1>1, <1>3 DEF TypeInv, TypeOK, RequestsComplete, Select, Given, Reading, Request
<1> QED
  BY <1>2, <1>4 DEF TypeInv, Select, Stored, Given

(* ... or revoke them keep TypeInv.                                        *)
LEMMA RevokeInv ==
  ASSUME TypeInv, NEW w \in Workers, NEW stage, NEW reason \in Reasons,
         NEW by \in Actors, NEW reused, Revoke(w, stage, reason, by, reused)
  PROVE  TypeInv'
<1>1. TypeOK'
  BY RevokeType DEF TypeInv
<1>2. Stored' \subseteq Stored
  BY DEF Revoke, Stored
<1>3. RequestsComplete'
  BY DEF Revoke, TypeInv, TypeOK, RequestsComplete, Idle, Reading, Given
<1> QED
  BY <1>1, <1>2, <1>3 DEF TypeInv, Revoke, Given

(* Every step of every handler, of the cleanup, the clock and the process *)
(* keeps TypeInv.                                                          *)
THEOREM TypeInvInductive == TypeInv /\ [Next]_vars => TypeInv'
<1> SUFFICES ASSUME TypeInv, [Next]_vars PROVE TypeInv'
  OBVIOUS
<1> USE DEF TypeInv
<1>1. ASSUME UNCHANGED vars PROVE TypeInv'
  BY <1>1 DEF vars, TypeOK, Stored, Given, RequestsComplete
<1>2. ASSUME Cleanup PROVE TypeInv'
  BY <1>2, PurgedType DEF Cleanup, TypeOK, Stored, Given, RequestsComplete, Purged, Kept
<1>3. ASSUME Tick PROVE TypeInv'
  BY <1>3 DEF Tick, TypeOK, Stored, Given, RequestsComplete
<1>4. ASSUME NEW emails \in Configs, Restart(emails) PROVE TypeInv'
  <2>1. TypeOK'
    BY <1>4, PurgedType, IdleType DEF Restart, TypeOK
  <2>2. (Stored \subseteq Given)'
    BY <1>4, PurgedStored DEF Restart, Stored, Given, Kept
  <2>3. RequestsComplete'
    BY <1>4 DEF Restart, RequestsComplete, Idle, Reading, Stages
  <2> QED
    BY <2>1, <2>2, <2>3
<1>5. ASSUME NEW w \in Workers, NEW e \in Admins, LoginStart(w, e) PROVE TypeInv'
  <2>1. TypeOK'
    BY <1>5, PurgedType DEF LoginStart, TypeOK, Idle, Request, Stages
  <2>2. (Stored \subseteq Given)'
    BY <1>5, PurgedStored DEF LoginStart, Stored, Given, Kept
  <2>3. RequestsComplete'
    BY <1>5 DEF LoginStart, RequestsComplete, TypeOK, Given, Idle, Reading, Stages
  <2> QED
    BY <2>1, <2>2, <2>3
<1>6. ASSUME NEW w \in Workers, LoginCount(w) PROVE TypeInv'
  <2>1. session[w] \in Request
    BY DEF TypeOK
  <2>2. TypeOK'
    BY <1>6, <2>1, IdleType DEF LoginCount, TypeOK, Request, Stages
  <2>3. RequestsComplete'
    BY <1>6, <2>1 DEF LoginCount, RequestsComplete, TypeOK, Given, Request, Idle, Reading
  <2> QED
    BY <1>6, <2>2, <2>3 DEF LoginCount, Stored, Given
<1>7. ASSUME NEW w \in Workers, NEW n \in Tokens, NEW f \in Families, LoginInsert(w, n, f)
      PROVE TypeInv'
  <2>1. session[w].email \in Admins /\ session[w].now + Lifetime \in Nat
    BY <1>7 DEF LoginInsert, RequestsComplete, TypeOK, Request
  <2>2. TypeOK'
    <3>1. /\ issued' \in [Tokens -> Claims \cup {NULL}]
          /\ refresh_tokens' \in [Tokens -> Row \cup {NULL}]
      BY <1>7, <2>1, IssueType DEF LoginInsert, TypeOK
    <3> QED
      BY <1>7, <3>1, IdleType DEF LoginInsert, TypeOK
  <2>3. Given' = Given \cup {n} /\ Stored' = Stored \cup {n}
    BY <1>7, <2>1, NewRowType DEF LoginInsert, Issue, TypeOK, Given, Stored, Claims
  <2>4. RequestsComplete'
    BY <1>7, <2>3 DEF LoginInsert, RequestsComplete, TypeOK, Idle, Reading
  <2> QED
    BY <2>2, <2>3, <2>4
<1>8. ASSUME NEW w \in Workers, NEW n \in Tokens, RefreshRotate(w, n) PROVE TypeInv'
  <2> DEFINE t   == session[w].token
             row == [Stamped(refresh_tokens[t], session[w].loaded[t], session[w].now,
                             "rotated", "system") EXCEPT !.replaced_by_id = n]
             rows == [refresh_tokens EXCEPT ![t] = row]
  <2>1. /\ t \in Tokens /\ session[w].now \in Nat
        /\ session[w].loaded[t] \in Attributes
        /\ issued[t] \in Claims /\ refresh_tokens[t] \in Row
    BY <1>8 DEF RefreshRotate, RequestsComplete, TypeOK, Request, Given, Stored, Reading, Stages
  <2>2. row \in Row
    BY <2>1, StampedType DEF Row, Reasons, Actors
  <2>3. rows \in [Tokens -> Row \cup {NULL}]
    BY <2>2 DEF TypeOK
  <2>4. Issue(n, issued[t].sub, session[w].loaded[t].family_id, session[w].now + Lifetime, rows)
    BY <1>8, <2>1 DEF RefreshRotate, TypeOK
  <2>5. issued[t].sub \in Admins /\ session[w].loaded[t].family_id \in Families
    BY <2>1 DEF Claims, Attributes
  <2>6. TypeOK'
    <3>1. session[w].now + Lifetime \in Nat
      BY <2>1
    <3> HIDE DEF rows
    <3>2. /\ issued' \in [Tokens -> Claims \cup {NULL}]
          /\ refresh_tokens' \in [Tokens -> Row \cup {NULL}]
      BY <2>3, <2>4, <2>5, <3>1, IssueType
    <3> QED
      BY <1>8, <3>2, IdleType DEF RefreshRotate, TypeOK
  <2>7. Given' = Given \cup {n} /\ Stored' = Stored \cup {n}
    <3>1. NewRow(issued[t].sub, session[w].loaded[t].family_id, session[w].now + Lifetime)
            # NULL
      BY <2>1, <2>5, NewRowType
    <3>2. row # NULL
      BY <2>2
    <3>3. Given' = Given \cup {n}
      BY <2>1, <2>4, <2>5 DEF Issue, TypeOK, Given, Claims
    <3> HIDE DEF row
    <3>4. Stored' = Stored \cup {n}
      <4>1. refresh_tokens' =
              [rows EXCEPT ![n] = NewRow(issued[t].sub, session[w].loaded[t].family_id,
                                         session[w].now + Lifetime)]
        BY <2>4 DEF Issue
      <4>2. \A u \in Tokens : rows[u] # NULL <=> u \in Stored
        BY <2>1, <3>2 DEF Stored
      <4> HIDE DEF rows
      <4>3. \A u \in Tokens : refresh_tokens'[u] # NULL <=> u = n \/ u \in Stored
        BY <2>3, <3>1, <4>1, <4>2
      <4> QED
        BY <4>3 DEF Stored
    <3> QED
      BY <3>3, <3>4
  <2>8. RequestsComplete'
    BY <1>8, <2>7 DEF RefreshRotate, RequestsComplete, TypeOK, Idle, Reading
  <2> QED
    BY <2>6, <2>7, <2>8
<1>9. ASSUME NEW w \in Workers, NEW t \in Tokens,
             \/ RefreshLookup(w, t) \/ RefreshReused(w, t)
             \/ LogoutLookup(w, t) \/ LogoutAllLookup(w, t)
      PROVE TypeInv'
  BY <1>9, StartInv DEF RefreshLookup, RefreshReused, Recognised, LogoutLookup,
     LogoutAllLookup, Reading, Stages
<1>10. ASSUME NEW w \in Workers, ReuseSelect(w) \/ LogoutAllSelect(w) PROVE TypeInv'
  <2> DEFINE f == session[w].loaded[session[w].token].family_id
             e == session[w].loaded[session[w].token].admin_email
             F == {t \in Stored : refresh_tokens[t].family_id = f}
             A == {t \in Stored : refresh_tokens[t].admin_email = e}
  <2>1. \/ Select(w, "reuse_select", "reuse_commit", F)
        \/ Select(w, "logout_all_select", "logout_all_commit", A)
    BY <1>10 DEF ReuseSelect, LogoutAllSelect
  <2>2. F \in SUBSET Stored /\ A \in SUBSET Stored
    OBVIOUS
  <2>3. {"reuse_select", "reuse_commit", "logout_all_select", "logout_all_commit"}
          \subseteq Reading
    BY DEF Reading, Stages
  <2> HIDE DEF F, A
  <2> QED
    BY <2>1, <2>2, <2>3, SelectInv
<1>11. ASSUME NEW w \in Workers, ReuseCommit(w) \/ LogoutCommit(w) \/ LogoutAllCommit(w)
       PROVE TypeInv'
  BY <1>11, RevokeInv DEF ReuseCommit, LogoutCommit, LogoutAllCommit, Reasons, Actors
<1>12. ASSUME NEW w \in Workers, RequestFails(w) PROVE TypeInv'
  BY <1>12, IdleType DEF RequestFails, TypeOK, RequestsComplete, Idle, Reading, Given, Stored
<1> QED
  BY <1>1, <1>2, <1>3, <1>4, <1>5, <1>6, <1>7, <1>8, <1>9, <1>10, <1>11, <1>12
     DEF Next, Serve

(* The columns of the table and the sessions of the handlers keep their     *)
(* types in every run of the store.                                        *)
THEOREM TypeCorrect == Spec => []TypeOK
<1>1. Init => TypeInv
  BY IdleType DEF Init, TypeInv, TypeOK, Stored, Given, RequestsComplete, Idle, Reading
<1>2. TypeInv => TypeOK
  BY DEF TypeInv
<1> QED
  BY <1>1, <1>2, TypeInvInductive, PTL DEF Spec

-----------------------------------------------------------------------------
(* What makes these inductive is what handlers may believe of the rows     *)
(* they have loaded.  A loaded row names the administrator and the family  *)
(* of its token, which never change.                                       *)
ReadsMatchClaims ==
  \A w \in Workers, t \in Tokens :
    LET read == session[w].loaded[t]
    IN  read # NULL => /\ t \in Given
                       /\ read.admin_email = issued[t].sub
                       /\ read.family_id = issued[t].fam

(* A row that was loaded revoked is revoked still, or deleted.             *)
ReadsAgree ==
  \A w \in Workers, t \in Tokens :
    LET read == session[w].loaded[t]
    IN  read # NULL =>
          /\ Unrevoked(read) <=> read.revocation_reason = NULL
          /\ Unrevoked(read) <=> read.revoked_by = NULL
          /\ ~Unrevoked(read) /\ t \in Stored => ~Unrevoked(refresh_tokens[t])

SafetyInv == ClaimsMatchRows /\ ReadsMatchClaims /\ AuditColumnsAgree /\ ReadsAgree

Inv == TypeInv /\ SafetyInv

(* What TypeInv says of the rows, claims and sessions that exist.          *)
LEMMA Types ==
  ASSUME TypeInv
  PROVE  /\ \A t \in Stored : refresh_tokens[t] \in Row /\ t \in Given
         /\ \A t \in Given : issued[t] \in Claims
         /\ \A w \in Workers, t \in Tokens :
              session[w].loaded[t] # NULL => session[w].loaded[t] \in Attributes
         /\ \A w \in Workers : session[w].now \in Nat
BY DEF TypeInv, TypeOK, Stored, Given, Request

(* A row that is kept is a row still. *)
LEMMA KeptStored ==
  ASSUME TypeInv, refresh_tokens' = Purged
  PROVE  Kept \subseteq Stored'
<1> SUFFICES ASSUME NEW t \in Kept PROVE t \in Stored'
  OBVIOUS
<1>1. t \in Tokens /\ refresh_tokens[t] \in Row
  BY Types DEF Kept, Stored
<1>2. Purged[t] = [refresh_tokens[t] EXCEPT
                     !.replaced_by_id = IF @ \in Kept THEN @ ELSE NULL]
  BY <1>1 DEF Purged
<1>3. Purged[t] \in Row
  BY <1>1, <1>2 DEF Row
<1> QED
  BY <1>1, <1>3 DEF Stored

-----------------------------------------------------------------------------
(* Steps that at most purge rows and forget what sessions have loaded.     *)
LEMMA ForgetSafe ==
  ASSUME Inv, UNCHANGED issued, refresh_tokens' \in {Purged, refresh_tokens},
         \A w \in Workers : session'[w].loaded \in {session[w].loaded, Idle.loaded}
  PROVE  SafetyInv'
<1> USE DEF Inv, SafetyInv
<1>1. \A t \in Stored' : t \in Stored /\ t \in Tokens
  BY PurgedStored DEF Kept, Stored
<1>2. Given' = Given
  BY DEF Given
<1>3. ASSUME NEW t \in Stored'
      PROVE  /\ refresh_tokens'[t].admin_email = refresh_tokens[t].admin_email
             /\ refresh_tokens'[t].family_id = refresh_tokens[t].family_id
             /\ refresh_tokens'[t].expires_at = refresh_tokens[t].expires_at
             /\ refresh_tokens'[t].revoked_at = refresh_tokens[t].revoked_at
             /\ refresh_tokens'[t].revocation_reason = refresh_tokens[t].revocation_reason
             /\ refresh_tokens'[t].revoked_by = refresh_tokens[t].revoked_by
             /\ refresh_tokens'[t].reused_detected = refresh_tokens[t].reused_detected
             /\ refresh_tokens'[t].replaced_by_id # NULL =>
                  /\ refresh_tokens'[t].replaced_by_id = refresh_tokens[t].replaced_by_id
                  /\ refresh_tokens'[t].replaced_by_id \in Stored'
  <2>1. refresh_tokens[t] \in Row
    BY <1>1, Types
  <2>2. CASE refresh_tokens' = refresh_tokens
    <3>1. Stored' = Stored
      BY <2>2 DEF Stored
    <3> QED
      BY <1>1, <2>2, <3>1 DEF AuditColumnsAgree
  <2>3. CASE refresh_tokens' = Purged
    <3>1. t \in Kept /\ t \in Tokens
      BY <1>1, <2>3, PurgedStored DEF Stored
    <3>2. refresh_tokens'[t] = [refresh_tokens[t] EXCEPT
                                  !.replaced_by_id = IF @ \in Kept THEN @ ELSE NULL]
      BY <2>3, <3>1 DEF Purged
    <3>3. Kept \subseteq Stored'
      BY <2>3, KeptStored
    <3> QED
      BY <2>1, <3>2, <3>3 DEF Row
  <2> QED
    BY <2>2, <2>3
<1>4. ClaimsMatchRows'
  BY <1>1, <1>2, <1>3 DEF ClaimsMatchRows
<1>5. AuditColumnsAgree'
  BY <1>1, <1>3 DEF AuditColumnsAgree, Unrevoked
<1>6. \A w \in Workers, t \in Tokens :
        session'[w].loaded[t] # NULL => session'[w].loaded[t] = session[w].loaded[t]
  BY DEF Idle
<1>7. ReadsMatchClaims'
  BY <1>2, <1>6 DEF ReadsMatchClaims
<1>8. ReadsAgree'
  BY <1>1, <1>3, <1>6 DEF ReadsAgree, Unrevoked
<1> QED
  BY <1>4, <1>5, <1>7, <1>8

-----------------------------------------------------------------------------
(* Steps that read rows.  A row that is read matches its claims, and its   *)
(* audit columns agree.                                                    *)
LEMMA LoadSafe ==
  ASSUME Inv, NEW S \in SUBSET Stored, UNCHANGED <<issued, refresh_tokens>>,
         \A w \in Workers : session'[w].loaded \in
           {session[w].loaded, Load(session[w].loaded, S), Load(Idle.loaded, S)}
  PROVE  SafetyInv'
<1> USE DEF Inv, SafetyInv
<1>1. Stored' = Stored /\ Given' = Given
  BY DEF Stored, Given
<1>2. \A w \in Workers, t \in Tokens :
        \/ session'[w].loaded[t] = NULL
        \/ session'[w].loaded[t] = session[w].loaded[t]
        \/ t \in Stored /\ session'[w].loaded[t] = Read(refresh_tokens[t])
  BY DEF Load, Idle
<1>3. \A t \in Stored :
        LET read == Read(refresh_tokens[t])
        IN  /\ t \in Given
            /\ read.admin_email = issued[t].sub
            /\ read.family_id = issued[t].fam
            /\ Unrevoked(read) <=> read.revocation_reason = NULL
            /\ Unrevoked(read) <=> read.revoked_by = NULL
            /\ Unrevoked(read) <=> Unrevoked(refresh_tokens[t])
  BY Types DEF Read, ClaimsMatchRows, AuditColumnsAgree, Unrevoked
<1>4. ReadsMatchClaims'
  BY <1>1, <1>2, <1>3 DEF ReadsMatchClaims
<1>5. ReadsAgree'
  BY <1>1, <1>2, <1>3 DEF ReadsAgree, Unrevoked
<1>6. ClaimsMatchRows'
  BY <1>1 DEF ClaimsMatchRows
<1>7. AuditColumnsAgree'
  BY <1>1 DEF AuditColumnsAgree, Unrevoked
<1> QED
  BY <1>4, <1>5, <1>6, <1>7

-----------------------------------------------------------------------------
(* _revoke_token revokes: whatever became of the row since it was read, it *)
(* is revoked, with a reason and an actor, once the update is flushed, and *)
(* the update leaves its other columns alone.                              *)
LEMMA StampedRevoked ==
  ASSUME Inv, NEW w \in Workers, NEW t \in Stored, session[w].loaded[t] # NULL,
         NEW reason \in Reasons, NEW by \in Actors
  PROVE  LET row == Stamped(refresh_tokens[t], session[w].loaded[t],
                            session[w].now, reason, by)
         IN  /\ row \in Row
             /\ row.revoked_at # NULL
             /\ row.revocation_reason # NULL
             /\ row.revoked_by # NULL
             /\ \A c \in {"admin_email", "family_id", "expires_at",
                          "reused_detected", "replaced_by_id"} :
                  row[c] = refresh_tokens[t][c]
<1> DEFINE read == session[w].loaded[t]
           row  == Stamped(refresh_tokens[t], read, session[w].now, reason, by)
<1>1. /\ t \in Tokens /\ refresh_tokens[t] \in Row
      /\ session[w].now \in Nat /\ read \in Attributes
  BY Types DEF Inv, Stored
<1>2. /\ Unrevoked(read) <=> read.revocation_reason = NULL
      /\ Unrevoked(read) <=> read.revoked_by = NULL
      /\ ~Unrevoked(read) => ~Unrevoked(refresh_tokens[t])
  BY <1>1 DEF Inv, SafetyInv, ReadsAgree
<1>3. ~Unrevoked(refresh_tokens[t]) =>
        refresh_tokens[t].revocation_reason # NULL /\ refresh_tokens[t].revoked_by # NULL
  BY DEF Inv, SafetyInv, AuditColumnsAgree
<1>4. row \in Row
  BY <1>1, StampedType
<1>5. /\ row.revoked_at = IF Unrevoked(read) THEN session[w].now
                                             ELSE refresh_tokens[t].revoked_at
      /\ row.revocation_reason = IF read.revocation_reason # reason
                                   THEN reason
                                   ELSE refresh_tokens[t].revocation_reason
      /\ row.revoked_by = IF read.revoked_by # by THEN by
                                                  ELSE refresh_tokens[t].revoked_by
      /\ \A c \in {"admin_email", "family_id", "expires_at",
                   "reused_detected", "replaced_by_id"} :
           row[c] = refresh_tokens[t][c]
  BY <1>1 DEF Stamped, Row
<1>6. reason # NULL /\ by # NULL /\ session[w].now # NULL
  BY <1>1
<1>7. row.revoked_at # NULL /\ row.revocation_reason # NULL /\ row.revoked_by # NULL
  BY <1>2, <1>3, <1>5, <1>6 DEF Unrevoked
<1> QED
  BY <1>4, <1>5, <1>7

(* What the commit of a revocation does to a row: nothing, or the stamp.   *)
LEMMA RevokedRow ==
  ASSUME Inv, NEW w \in Workers, NEW stage, NEW reason \in Reasons, NEW by \in Actors,
         NEW reused \in SUBSET {t \in Tokens : session[w].loaded[t] # NULL},
         Revoke(w, stage, reason, by, reused), NEW t \in Stored
  PROVE  LET old == refresh_tokens[t]
             row == refresh_tokens'[t]
         IN  /\ row # NULL
             /\ row.admin_email = old.admin_email /\ row.family_id = old.family_id
             /\ row.expires_at = old.expires_at
             /\ row.replaced_by_id = old.replaced_by_id
             /\ \/ row = old /\ (session[w].loaded[t] # NULL => ~Unrevoked(old))
                \/ /\ row.revoked_at # NULL
                   /\ row.revocation_reason # NULL
                   /\ row.revoked_by # NULL
<1> DEFINE read  == session[w].loaded[t]
           stamp == Stamped(refresh_tokens[t], read, session[w].now, reason, by)
           new   == [stamp EXCEPT !.reused_detected = @ \/ t \in reused]
           dirty == {u \in Tokens : /\ session[w].loaded[u] # NULL
                                    /\ NetChange(session[w].loaded[u], reason, by)}
                      \cup reused
<1>1. t \in Tokens /\ refresh_tokens[t] \in Row
  BY Types DEF Inv, Stored
<1>2. refresh_tokens'[t] = IF t \in dirty THEN new ELSE refresh_tokens[t]
  BY <1>1 DEF Revoke
<1>3. CASE t \in dirty
  <2>1. read # NULL
    BY <1>3
  <2>2. /\ stamp \in Row
        /\ stamp.revoked_at # NULL /\ stamp.revocation_reason # NULL
        /\ stamp.revoked_by # NULL
        /\ stamp.admin_email = refresh_tokens[t].admin_email
        /\ stamp.family_id = refresh_tokens[t].family_id
        /\ stamp.expires_at = refresh_tokens[t].expires_at
        /\ stamp.replaced_by_id = refresh_tokens[t].replaced_by_id
    <3> HIDE DEF stamp, read
    <3>1. /\ stamp \in Row
          /\ stamp.revoked_at # NULL /\ stamp.revocation_reason # NULL
          /\ stamp.revoked_by # NULL
          /\ \A c \in {"admin_email", "family_id", "expires_at",
                       "reused_detected", "replaced_by_id"} :
               stamp[c] = refresh_tokens[t][c]
      BY <2>1, StampedRevoked DEF stamp, read
    <3> QED
      BY <3>1
  <2> HIDE DEF stamp, dirty
  <2>3. new \in Row
    <3>1. stamp \in Row
      BY <2>2
    <3> QED
      BY <3>1 DEF Row
  <2>4. refresh_tokens'[t] = new
    BY <1>2, <1>3
  <2> QED
    BY <2>2, <2>3, <2>4 DEF Row
<1>4. CASE t \notin dirty
  <2>1. read # NULL => ~NetChange(read, reason, by)
    BY <1>1, <1>4
  <2>2. read # NULL => ~Unrevoked(refresh_tokens[t])
    BY <1>1, <2>1 DEF NetChange, Inv, SafetyInv, ReadsAgree
  <2>3. refresh_tokens'[t] = refresh_tokens[t]
    BY <1>2, <1>4
  <2>4. refresh_tokens[t] # NULL
    BY <1>1
  <2> QED
    BY <2>2, <2>3, <2>4
<1> QED
  BY <1>3, <1>4

(* So a revocation that commits keeps the safety invariants.               *)
LEMMA RevokeSafe ==
  ASSUME Inv, NEW w \in Workers, NEW stage, NEW reason \in Reasons, NEW by \in Actors,
         NEW reused \in SUBSET {t \in Tokens : session[w].loaded[t] # NULL},
         Revoke(w, stage, reason, by, reused)
  PROVE  SafetyInv'
<1> USE DEF Inv, SafetyInv
<1>1. Given' = Given /\ issued' = issued
  BY DEF Revoke, Given
<1>2. Stored' = Stored
  <2>1. Stored' \subseteq Stored
    BY DEF Revoke, Stored
  <2>2. \A t \in Stored : refresh_tokens'[t] # NULL
    BY RevokedRow
  <2> QED
    BY <2>1, <2>2 DEF Stored
<1>3. ClaimsMatchRows'
  <2>1. \A t \in Stored :
          /\ refresh_tokens'[t].admin_email = refresh_tokens[t].admin_email
          /\ refresh_tokens'[t].family_id = refresh_tokens[t].family_id
          /\ refresh_tokens'[t].expires_at = refresh_tokens[t].expires_at
    BY RevokedRow
  <2> QED
    BY <1>1, <1>2, <2>1 DEF ClaimsMatchRows
<1>4. AuditColumnsAgree'
  <2> SUFFICES ASSUME NEW t \in Stored
               PROVE  LET row == refresh_tokens'[t]
                          r   == row.replaced_by_id
                      IN  /\ row.revoked_at = NULL <=> row.revocation_reason = NULL
                          /\ row.revoked_at = NULL <=> row.revoked_by = NULL
                          /\ row.reused_detected => row.revoked_at # NULL
                          /\ r # NULL => /\ row.revoked_at # NULL
                                         /\ r \in Stored
                                         /\ refresh_tokens'[r].family_id = row.family_id
    BY <1>2 DEF AuditColumnsAgree, Unrevoked
  <2>1. refresh_tokens'[t] = refresh_tokens[t] \/
          /\ refresh_tokens'[t].revoked_at # NULL
          /\ refresh_tokens'[t].revocation_reason # NULL
          /\ refresh_tokens'[t].revoked_by # NULL
    BY RevokedRow
  <2>2. /\ refresh_tokens'[t].replaced_by_id = refresh_tokens[t].replaced_by_id
        /\ \A r \in Stored : refresh_tokens'[r].family_id = refresh_tokens[r].family_id
    BY RevokedRow
  <2> QED
    BY <2>1, <2>2 DEF AuditColumnsAgree, Unrevoked
<1>5. \A v \in Workers, t \in Tokens :
        session'[v].loaded[t] # NULL => session'[v].loaded[t] = session[v].loaded[t]
  BY DEF Revoke, Idle, TypeInv, TypeOK
<1>6. ReadsMatchClaims'
  BY <1>1, <1>5 DEF ReadsMatchClaims
<1>7. \A t \in Stored : ~Unrevoked(refresh_tokens[t]) => ~Unrevoked(refresh_tokens'[t])
  BY RevokedRow DEF Unrevoked
<1>8. ReadsAgree'
  BY <1>2, <1>5, <1>7 DEF ReadsAgree, Unrevoked
<1> QED
  BY <1>3, <1>4, <1>6, <1>8

(* The three commits are revocations of rows that the handler has read.    *)
LEMMA Commits ==
  ASSUME Inv, NEW w \in Workers, ReuseCommit(w) \/ LogoutCommit(w) \/ LogoutAllCommit(w)
  PROVE  \E stage \in Revoking, reason \in Reasons, by \in Actors,
            reused \in SUBSET {t \in Tokens : session[w].loaded[t] # NULL} :
              Revoke(w, stage, reason, by, reused)
<1>1. CASE ReuseCommit(w)
  <2>1. {session[w].token} \in SUBSET {t \in Tokens : session[w].loaded[t] # NULL}
    BY <1>1 DEF ReuseCommit, Revoke, Inv, TypeInv, RequestsComplete, Reading, Stages, Given
  <2> QED
    BY <1>1, <2>1 DEF ReuseCommit, Revoking, Reasons, Actors
<1>2. CASE LogoutCommit(w)
  BY <1>2 DEF LogoutCommit, Revoking, Reasons, Actors
<1>3. CASE LogoutAllCommit(w)
  BY <1>3 DEF LogoutAllCommit, Revoking, Reasons, Actors
<1> QED
  BY <1>1, <1>2, <1>3

-----------------------------------------------------------------------------
(* Steps that issue a token: n joins the family f of e, or founds it.      *)
LEMMA IssueSafe ==
  ASSUME Inv, NEW n \in Tokens, NEW e \in Admins, NEW f \in Families, NEW exp \in Nat,
         NEW rows \in [Tokens -> Row \cup {NULL}], Issue(n, e, f, exp, rows),
         \A t \in Given : issued[t].fam = f => issued[t].sub = e,
         \A t \in Tokens : rows[t] # NULL <=> t \in Stored,
         \A t \in Stored :
           LET row == rows[t]
               r   == row.replaced_by_id
           IN  /\ row.admin_email = refresh_tokens[t].admin_email
               /\ row.family_id = refresh_tokens[t].family_id
               /\ row.expires_at = refresh_tokens[t].expires_at
               /\ row.revoked_at = NULL <=> row.revocation_reason = NULL
               /\ row.revoked_at = NULL <=> row.revoked_by = NULL
               /\ row.reused_detected => row.revoked_at # NULL
               /\ r # NULL => /\ row.revoked_at # NULL
                              /\ \/ r = n /\ row.family_id = f
                                 \/ r = refresh_tokens[t].replaced_by_id
               /\ refresh_tokens[t].revoked_at # NULL => row.revoked_at # NULL,
         \A w \in Workers : session'[w].loaded \in {session[w].loaded, Idle.loaded}
  PROVE  SafetyInv'
<1> USE DEF Inv, SafetyInv
<1> DEFINE claims == [sub |-> e, fam |-> f, exp |-> exp]
           new    == NewRow(e, f, exp)
<1>1. /\ n \notin Given /\ n \notin Stored
      /\ \A t \in Tokens : /\ issued'[t] = IF t = n THEN claims ELSE issued[t]
                           /\ refresh_tokens'[t] = IF t = n THEN new ELSE rows[t]
  BY DEF Issue, TypeInv, TypeOK
<1>2. claims # NULL /\ new # NULL
  BY NewRowType DEF Claims
<1>3. /\ new.admin_email = e /\ new.family_id = f /\ new.expires_at = exp
      /\ new.revoked_at = NULL /\ new.revocation_reason = NULL /\ new.revoked_by = NULL
      /\ new.reused_detected = FALSE /\ new.replaced_by_id = NULL
  BY DEF NewRow
<1>4. claims.sub = e /\ claims.fam = f /\ claims.exp = exp
  OBVIOUS
<1> HIDE DEF claims, new
<1>5. Given' = Given \cup {n} /\ Stored' = Stored \cup {n}
  BY <1>1, <1>2 DEF Given, Stored
<1>6. /\ Given \subseteq Tokens /\ Stored \subseteq Given
      /\ \A t \in Given : t # n /\ issued'[t] = issued[t]
      /\ \A t \in Stored : t # n /\ refresh_tokens'[t] = rows[t]
      /\ issued'[n] = claims /\ refresh_tokens'[n] = new
  BY <1>1 DEF Given, Stored, TypeInv
<1>7. ClaimsMatchRows'
  BY <1>3, <1>4, <1>5, <1>6 DEF ClaimsMatchRows
<1>8. AuditColumnsAgree'
  <2>1. \A r \in Stored : refresh_tokens'[r].family_id = refresh_tokens[r].family_id
    BY <1>6
  <2>2. \A t \in Stored : refresh_tokens[t].replaced_by_id # NULL =>
          LET r == refresh_tokens[t].replaced_by_id
          IN  r \in Stored /\ refresh_tokens[r].family_id = refresh_tokens[t].family_id
    BY DEF AuditColumnsAgree
  <2>3. ASSUME NEW t \in Stored
        PROVE  LET row == refresh_tokens'[t]
                   r   == row.replaced_by_id
               IN  /\ row.revoked_at = NULL <=> row.revocation_reason = NULL
                   /\ row.revoked_at = NULL <=> row.revoked_by = NULL
                   /\ row.reused_detected => row.revoked_at # NULL
                   /\ r # NULL => /\ row.revoked_at # NULL
                                  /\ r \in Stored'
                                  /\ refresh_tokens'[r].family_id = row.family_id
    BY <1>3, <1>5, <1>6, <2>1, <2>2
  <2> QED
    BY <1>3, <1>5, <1>6, <2>3 DEF AuditColumnsAgree, Unrevoked
<1>9. \A w \in Workers, t \in Tokens :
        session'[w].loaded[t] # NULL => session'[w].loaded[t] = session[w].loaded[t]
  BY DEF Idle
<1>10. ReadsMatchClaims'
  BY <1>5, <1>6, <1>9 DEF ReadsMatchClaims
<1>11. ReadsAgree'
  BY <1>5, <1>6, <1>9 DEF ReadsAgree, ReadsMatchClaims, Unrevoked
<1> QED
  BY <1>7, <1>8, <1>10, <1>11

-----------------------------------------------------------------------------
(* Every step keeps the safety invariants, given the type invariant.       *)
THEOREM InvInductive == Inv /\ [Next]_vars => Inv'
<1> SUFFICES ASSUME Inv, [Next]_vars PROVE SafetyInv'
  BY TypeInvInductive DEF Inv
<1>1. ASSUME UNCHANGED vars PROVE SafetyInv'
  BY <1>1, ForgetSafe DEF vars
<1>2. ASSUME Cleanup PROVE SafetyInv'
  BY <1>2, ForgetSafe DEF Cleanup
<1>3. ASSUME Tick PROVE SafetyInv'
  BY <1>3, ForgetSafe DEF Tick
<1>4. ASSUME NEW emails \in Configs, Restart(emails) PROVE SafetyInv'
  BY <1>4, ForgetSafe DEF Restart
<1>5. ASSUME NEW w \in Workers, NEW e \in Admins, LoginStart(w, e) PROVE SafetyInv'
  <2>1. \A v \in Workers : session'[v].loaded \in {session[v].loaded, Idle.loaded}
    BY <1>5 DEF LoginStart, Inv, TypeInv, TypeOK, Idle
  <2> QED
    BY <1>5, <2>1, ForgetSafe DEF LoginStart
<1>6. ASSUME NEW w \in Workers, LoginCount(w) \/ RequestFails(w) PROVE SafetyInv'
  <2>1. \A v \in Workers : session'[v].loaded \in {session[v].loaded, Idle.loaded}
    <3>1. session[w] \in Request
      BY DEF Inv, TypeInv, TypeOK
    <3>2. \/ session' = [session EXCEPT ![w] = Idle]
          \/ session' = [session EXCEPT
                           ![w] = [session[w] EXCEPT !.stage = "login_insert", !.now = clock]]
      BY <1>6 DEF LoginCount, RequestFails
    <3>3. \/ session'[w] = Idle
          \/ session'[w] = [session[w] EXCEPT !.stage = "login_insert", !.now = clock]
      BY <3>2 DEF Inv, TypeInv, TypeOK
    <3>4. session'[w].loaded \in {session[w].loaded, Idle.loaded}
      BY <3>1, <3>3 DEF Request
    <3>5. \A v \in Workers : v # w => session'[v] = session[v]
      BY <3>2 DEF Inv, TypeInv, TypeOK
    <3> QED
      BY <3>4, <3>5
  <2> QED
    BY <1>6, <2>1, ForgetSafe DEF LoginCount, RequestFails
<1>7. ASSUME NEW w \in Workers, NEW n \in Tokens, NEW f \in Families, LoginInsert(w, n, f)
      PROVE SafetyInv'
  <2>1. session[w].email \in Admins /\ session[w].now + Lifetime \in Nat
    BY <1>7 DEF LoginInsert, Inv, TypeInv, RequestsComplete, TypeOK, Request
  <2>2. refresh_tokens \in [Tokens -> Row \cup {NULL}]
    BY DEF Inv, TypeInv, TypeOK
  <2>3. \A v \in Workers : session'[v].loaded \in {session[v].loaded, Idle.loaded}
    BY <1>7 DEF LoginInsert, Inv, TypeInv, TypeOK
  <2>4. Issue(n, session[w].email, f, session[w].now + Lifetime, refresh_tokens)
    BY <1>7 DEF LoginInsert
  <2>5. \A t \in Given : issued[t].fam # f
    BY <1>7 DEF LoginInsert, FreshFamilies
  <2>6. \A t \in Tokens : refresh_tokens[t] # NULL <=> t \in Stored
    BY DEF Stored
  <2>7. \A t \in Stored :
          LET row == refresh_tokens[t]
          IN  /\ row.revoked_at = NULL <=> row.revocation_reason = NULL
              /\ row.revoked_at = NULL <=> row.revoked_by = NULL
              /\ row.reused_detected => row.revoked_at # NULL
              /\ row.replaced_by_id # NULL => row.revoked_at # NULL
    BY DEF Inv, SafetyInv, AuditColumnsAgree, Unrevoked
  <2> QED
    BY <2>1, <2>2, <2>3, <2>4, <2>5, <2>6, <2>7, IssueSafe
<1>8. ASSUME NEW w \in Workers, NEW n \in Tokens, RefreshRotate(w, n) PROVE SafetyInv'
  <2> DEFINE t     == session[w].token
             read  == session[w].loaded[t]
             stamp == Stamped(refresh_tokens[t], read, session[w].now, "rotated", "system")
             row   == [stamp EXCEPT !.replaced_by_id = n]
             rows  == [refresh_tokens EXCEPT ![t] = row]
             f     == read.family_id
             e     == issued[t].sub
             exp   == session[w].now + Lifetime
  <2>1. t \in Given /\ read # NULL /\ t \in Stored /\ t \in Tokens
    BY <1>8 DEF RefreshRotate, Inv, TypeInv, RequestsComplete, Reading, Stages, Stored
  <2>2. /\ read \in Attributes /\ issued[t] \in Claims /\ session[w].now \in Nat
        /\ refresh_tokens \in [Tokens -> Row \cup {NULL}]
    BY <2>1, Types DEF Inv, TypeInv, TypeOK
  <2>3. f \in Families /\ e \in Admins /\ exp \in Nat
    BY <2>2 DEF Attributes, Claims
  <2>4. f = issued[t].fam /\ refresh_tokens[t].family_id = issued[t].fam
    BY <2>1 DEF Inv, SafetyInv, ReadsMatchClaims, ClaimsMatchRows
  <2>5. \A u \in Given : issued[u].fam = f => issued[u].sub = e
    BY <2>1, <2>4 DEF Inv, SafetyInv, ClaimsMatchRows
  <2>6. /\ stamp \in Row
        /\ stamp.revoked_at # NULL /\ stamp.revocation_reason # NULL
        /\ stamp.revoked_by # NULL
        /\ stamp.admin_email = refresh_tokens[t].admin_email
        /\ stamp.family_id = refresh_tokens[t].family_id
        /\ stamp.expires_at = refresh_tokens[t].expires_at
    <3> HIDE DEF stamp, t, read
    <3>1. /\ stamp \in Row
          /\ stamp.revoked_at # NULL /\ stamp.revocation_reason # NULL
          /\ stamp.revoked_by # NULL
          /\ \A c \in {"admin_email", "family_id", "expires_at",
                       "reused_detected", "replaced_by_id"} :
               stamp[c] = refresh_tokens[t][c]
      <4>1. "rotated" \in Reasons /\ "system" \in Actors
        BY DEF Reasons, Actors
      <4> QED
        BY <2>1, <4>1, StampedRevoked DEF stamp, t, read
    <3> QED
      BY <3>1
  <2>7. /\ row \in Row
        /\ row.revoked_at # NULL /\ row.revocation_reason # NULL
        /\ row.revoked_by # NULL /\ row.replaced_by_id = n
        /\ row.admin_email = refresh_tokens[t].admin_email
        /\ row.family_id = f
        /\ row.expires_at = refresh_tokens[t].expires_at
    <3> HIDE DEF stamp, t, read
    <3> QED
      BY <2>4, <2>6 DEF Row
  <2>8. Issue(n, e, f, exp, rows)
    BY <1>8 DEF RefreshRotate
  <2>9. \A v \in Workers : session'[v].loaded \in {session[v].loaded, Idle.loaded}
    BY <1>8 DEF RefreshRotate, Inv, TypeInv, TypeOK
  <2> HIDE DEF t, read, stamp, row, f, e, exp
  <2>10. /\ rows \in [Tokens -> Row \cup {NULL}]
         /\ rows[t] = row
         /\ \A u \in Tokens : u # t => rows[u] = refresh_tokens[u]
    BY <2>1, <2>2, <2>7
  <2>11. \A u \in Tokens : rows[u] # NULL <=> u \in Stored
    <3>1. row # NULL
      BY <2>7
    <3> QED
      BY <2>1, <2>10, <3>1 DEF Stored
  <2>12. \A u \in Stored :
           LET old == refresh_tokens[u]
           IN  /\ u \in Tokens
               /\ old.revoked_at = NULL <=> old.revocation_reason = NULL
               /\ old.revoked_at = NULL <=> old.revoked_by = NULL
               /\ old.reused_detected => old.revoked_at # NULL
               /\ old.replaced_by_id # NULL => old.revoked_at # NULL
    BY DEF Inv, SafetyInv, AuditColumnsAgree, Unrevoked, Stored
  <2>13. \A u \in Stored :
           LET new == rows[u]
               r   == new.replaced_by_id
           IN  /\ new.admin_email = refresh_tokens[u].admin_email
               /\ new.family_id = refresh_tokens[u].family_id
               /\ new.expires_at = refresh_tokens[u].expires_at
               /\ new.revoked_at = NULL <=> new.revocation_reason = NULL
               /\ new.revoked_at = NULL <=> new.revoked_by = NULL
               /\ new.reused_detected => new.revoked_at # NULL
               /\ r # NULL => /\ new.revoked_at # NULL
                              /\ \/ r = n /\ new.family_id = f
                                 \/ r = refresh_tokens[u].replaced_by_id
               /\ refresh_tokens[u].revoked_at # NULL => new.revoked_at # NULL
    <3> HIDE DEF rows
    <3> QED
      BY <2>4, <2>7, <2>10, <2>12
  <2> HIDE DEF rows
  <2> QED
    BY <2>3, <2>5, <2>8, <2>9, <2>10, <2>11, <2>13, IssueSafe
<1>9. ASSUME NEW w \in Workers, NEW t \in Tokens,
             \/ RefreshLookup(w, t) \/ RefreshReused(w, t)
             \/ LogoutLookup(w, t) \/ LogoutAllLookup(w, t)
      PROVE SafetyInv'
  <2>1. /\ {t} \in SUBSET Stored
        /\ UNCHANGED <<issued, refresh_tokens>>
        /\ \A v \in Workers : session'[v].loaded \in
             {session[v].loaded, Load(session[v].loaded, {t}), Load(Idle.loaded, {t})}
    BY <1>9 DEF RefreshLookup, RefreshReused, LogoutLookup, LogoutAllLookup, Start,
       Inv, TypeInv, TypeOK
  <2> QED
    BY <2>1, LoadSafe
<1>10. ASSUME NEW w \in Workers, ReuseSelect(w) \/ LogoutAllSelect(w) PROVE SafetyInv'
  <2>1. ASSUME NEW from, NEW to, NEW S \in SUBSET Stored, Select(w, from, to, S)
        PROVE  SafetyInv'
    <3>1. /\ UNCHANGED <<issued, refresh_tokens>>
          /\ \A v \in Workers : session'[v].loaded \in
               {session[v].loaded, Load(session[v].loaded, S), Load(Idle.loaded, S)}
      BY <2>1 DEF Select, Inv, TypeInv, TypeOK, Request
    <3> QED
      BY <3>1, LoadSafe
  <2> QED
    BY <1>10, <2>1 DEF ReuseSelect, LogoutAllSelect
<1>11. ASSUME NEW w \in Workers, ReuseCommit(w) \/ LogoutCommit(w) \/ LogoutAllCommit(w)
       PROVE SafetyInv'
  BY <1>11, Commits, RevokeSafe
<1> QED
  BY <1>1, <1>2, <1>3, <1>4, <1>5, <1>6, <1>7, <1>8, <1>9, <1>10, <1>11
     DEF Next, Serve

(* The invariants hold in every reachable state of the store.              *)
LEMMA InvAlways == Spec => []Inv
<1>1. Init => Inv
  <2> SUFFICES ASSUME Init PROVE Inv
    OBVIOUS
  <2>1. TypeInv
    BY IdleType DEF Init, TypeInv, TypeOK, Stored, Given, RequestsComplete, Idle, Reading
  <2>2. Stored = {} /\ Given = {}
    BY DEF Init, Stored, Given
  <2>3. \A w \in Workers, t \in Tokens : session[w].loaded[t] = NULL
    BY DEF Init, Idle
  <2> QED
    BY <2>1, <2>2, <2>3 DEF Inv, SafetyInv, ClaimsMatchRows, ReadsMatchClaims,
       AuditColumnsAgree, ReadsAgree
<1> QED
  BY <1>1, InvInductive, PTL DEF Spec

(* No handler ever revokes or rotates a row of another administrator: rows *)
(* hold what their tokens claim, and a family belongs to one               *)
(* administrator.                                                          *)
THEOREM RowsMatchClaims == Spec => []ClaimsMatchRows
<1>1. Inv => ClaimsMatchRows
  BY DEF Inv, SafetyInv
<1> QED
  BY <1>1, InvAlways, PTL

(* However handlers overlap, the columns of a row tell one story: whether  *)
(* and why it was revoked, and what replaced it.                           *)
THEOREM AuditTrailAgrees == Spec => []AuditColumnsAgree
<1>1. Inv => AuditColumnsAgree
  BY DEF Inv, SafetyInv
<1> QED
  BY <1>1, InvAlways, PTL

-----------------------------------------------------------------------------
(* A cleanup that deletes no row changes nothing: the rows that point at a *)
(* replacement point at a row.                                             *)
LEMMA PurgedSame ==
  ASSUME Inv, refresh_tokens' = Purged, Stored' = Stored
  PROVE  refresh_tokens' = refresh_tokens
<1>1. refresh_tokens \in [Tokens -> Row \cup {NULL}]
  BY DEF Inv, TypeInv, TypeOK
<1>2. Kept = Stored
  BY PurgedStored DEF Kept, Stored
<1>3. ASSUME NEW t \in Tokens PROVE Purged[t] = refresh_tokens[t]
  <2>1. CASE t \in Stored
    <3>1. /\ refresh_tokens[t] \in Row
          /\ \/ refresh_tokens[t].replaced_by_id = NULL
             \/ refresh_tokens[t].replaced_by_id \in Kept
      BY <1>2, <2>1, Types DEF Inv, SafetyInv, AuditColumnsAgree
    <3>2. Purged[t] = [refresh_tokens[t] EXCEPT
                         !.replaced_by_id = IF @ \in Kept THEN @ ELSE NULL]
      BY <1>2, <2>1 DEF Purged
    <3> QED
      BY <3>1, <3>2 DEF Row
  <2>2. CASE t \notin Stored
    BY <1>2, <2>2 DEF Purged, Stored
  <2> QED
    BY <2>1, <2>2
<1> QED
  BY <1>1, <1>3 DEF Purged

(* Every row that a revocation has read is revoked once it has committed.  *)
LEMMA LoadedDie ==
  ASSUME Inv, [Next]_vars, NEW w \in Workers,
         session[w].stage \in Revoking, session'[w].stage = "idle",
         refresh_tokens' # refresh_tokens, Stored' = Stored,
         NEW t \in Stored, session[w].loaded[t] # NULL
  PROVE  ~Unrevoked(refresh_tokens'[t])
<1>1. session[w].stage \in {"reuse_commit", "logout_commit", "logout_all_commit"}
  BY DEF Revoking
<1>2. refresh_tokens' # Purged
  BY PurgedSame
<1>3. ASSUME NEW v \in Workers,
             \/ \E n \in Tokens, f \in Families : LoginInsert(v, n, f)
             \/ \E n \in Tokens : RefreshRotate(v, n)
      PROVE  FALSE
  BY <1>1, <1>3 DEF LoginInsert, RefreshRotate, Inv, TypeInv, TypeOK
<1>4. PICK v \in Workers : ReuseCommit(v) \/ LogoutCommit(v) \/ LogoutAllCommit(v)
  BY <1>1, <1>2, <1>3
     DEF Next, Serve, vars, Cleanup, Tick, Restart, LoginStart, LoginCount,
         RefreshLookup, RefreshReused, LogoutLookup, LogoutAllLookup, Start,
         ReuseSelect, LogoutAllSelect, Select, RequestFails
<1>5. v = w
  BY <1>1, <1>4
     DEF ReuseCommit, LogoutCommit, LogoutAllCommit, Revoke, Inv, TypeInv, TypeOK
<1>6. PICK stage \in Revoking, reason \in Reasons, by \in Actors,
           reused \in SUBSET {u \in Tokens : session[w].loaded[u] # NULL} :
        Revoke(w, stage, reason, by, reused)
  BY <1>4, <1>5, Commits
<1>7. \/ refresh_tokens'[t] = refresh_tokens[t] /\ ~Unrevoked(refresh_tokens[t])
      \/ refresh_tokens'[t].revoked_at # NULL
  BY <1>6, RevokedRow
<1> QED
  BY <1>7 DEF Unrevoked

(* A revocation kills every token it has read: no row that a logout, a     *)
(* logout-all or a reuse detection has found is live once it commits,      *)
(* whichever handlers updated the row between the read and the commit.     *)
THEOREM RevocationsKill == Spec => LoadedTokensDie
<1>1. Inv /\ [Next]_vars => [\A w \in Workers :
       /\ session[w].stage \in Revoking
       /\ session'[w].stage = "idle"
       /\ refresh_tokens' # refresh_tokens
       /\ Stored' = Stored
       => \A t \in Stored :
            session[w].loaded[t] # NULL => ~Unrevoked(refresh_tokens'[t])]_vars
  BY LoadedDie
<1> QED
  BY <1>1, InvAlways, PTL DEF Spec, LoadedTokensDie
=============================================================================
