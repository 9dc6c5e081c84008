-------------------------- MODULE AdminAccessProofs --------------------------
(***************************************************************************)
(* How long an access token outlives its session, for any number of        *)
(* tokens, families and threads and any lifetimes and delays.              *)
(***************************************************************************)
EXTENDS AdminAccess, SessionsProofs

USE ConfigAssumption, NullAssumption, AccessAssumption

(* Access tokens, answers that are due and times at which families closed. *)
AccessTypeOK ==
  /\ access \in [Tokens -> Nat \cup {NULL}]
  /\ response \in [Workers -> [token : Tokens, now : Nat] \cup {NULL}]
  /\ closed_at \in [Families -> Nat \cup {NULL}]

(* A family is closed since closed_at.                                     *)
ClosedSince ==
  \A f \in Families : closed_at[f] # NULL => Closed(f) /\ closed_at[f] <= clock

(* No access token lives longer than one created now, ...                  *)
AccessShort == \A t \in Tokens : access[t] # NULL => access[t] <= AccessExpiry(clock)

(* ... and none of a closed family longer than one created when it closed  *)
(* and handed out by the slowest handler.                                  *)
AccessEnds ==
  \A t \in Given :
    LET f == issued[t].fam
    IN  access[t] # NULL /\ closed_at[f] # NULL =>
          access[t] <= AccessExpiry(closed_at[f] + MaxDelay)

(* A rotation that is not answered yet was committed before its family was *)
(* closed, and not long ago.                                               *)
AnswersDue ==
  \A w \in Workers :
    LET p == response[w]
        f == issued[p.token].fam
    IN  p # NULL =>
          /\ p.token \in Given
          /\ p.now <= clock /\ clock <= p.now + MaxDelay
          /\ closed_at[f] # NULL => p.now <= closed_at[f]

AccessInv ==
  /\ AccessTypeOK /\ Timely
  /\ ClosedSince /\ AccessShort /\ AccessEnds /\ AnswersDue

-----------------------------------------------------------------------------
(* Whoever hands out access tokens takes the steps of the token store.     *)
LEMMA StoreStep == [AccessNext]_access_vars => [Next]_vars
<1>1. AccessStep => [Next]_vars
  BY DEF AccessStep, LoginAnswer, RefreshCommit, RefreshAnswer, ServeWithout,
     AccessCleanup, AccessTick, AccessRestart, Next, Serve
<1> QED
  BY <1>1 DEF AccessNext, access_vars, vars

(* What a step does to the access tokens.                                  *)
LEMMA AccessChanges ==
  ASSUME AccessTypeOK, AccessStep
  PROVE  \/ UNCHANGED access
         \/ \E w \in Workers, n \in Tokens, f \in Families :
              /\ LoginInsert(w, n, f)
              /\ access' = [access EXCEPT ![n] = AccessExpiry(session[w].now)]
         \/ \E w \in Workers :
              /\ response[w] # NULL /\ UNCHANGED vars
              /\ access' = [access EXCEPT ![response[w].token] = AccessExpiry(clock)]
BY DEF AccessStep, LoginAnswer, RefreshCommit, RefreshAnswer, ServeWithout,
   AccessCleanup, AccessTick, AccessRestart

(* What a step does to the answers that are due.                           *)
LEMMA AnswerChanges ==
  ASSUME AccessTypeOK, AccessStep, NEW w \in Workers, response'[w] # NULL
  PROVE  \/ /\ response'[w] = response[w]
            /\ clock' = clock \/ (clock < response[w].now + MaxDelay /\ clock' = clock + 1)
         \/ \E n \in Tokens :
              /\ RefreshRotate(w, n)
              /\ response'[w] = [token |-> n, now |-> session[w].now]
<1> DEFINE Due(v)     == response'[v] = response[v]
           Rotated(v) == \E n \in Tokens :
                           /\ RefreshRotate(v, n)
                           /\ response'[v] = [token |-> n, now |-> session[v].now]
<1> USE DEF AccessTypeOK
<1>1. ASSUME NEW v \in Workers, \/ \E n \in Tokens, f \in Families : LoginAnswer(v, n, f)
                                \/ RefreshAnswer(v)
      PROVE  response'[w] = response[w] /\ clock' = clock
  BY <1>1 DEF LoginAnswer, LoginInsert, RefreshAnswer, vars
<1>2. ASSUME NEW v \in Workers, NEW n \in Tokens, RefreshCommit(v, n)
      PROVE  \/ response'[w] = response[w] /\ clock' = clock
             \/ /\ RefreshRotate(w, n)
                /\ response'[w] = [token |-> n, now |-> session[w].now]
  BY <1>2 DEF RefreshCommit, RefreshRotate
<1>3. ASSUME NEW v \in Workers, ServeWithout(v)
      PROVE  response'[w] = response[w] /\ clock' = clock
  BY <1>3 DEF ServeWithout, Serve, LoginStart, LoginCount, LoginInsert, RefreshLookup,
     RefreshReused, RefreshRotate, LogoutLookup, LogoutAllLookup, Start,
     ReuseSelect, LogoutAllSelect, Select, RequestFails, ReuseCommit,
     LogoutCommit, LogoutAllCommit, Revoke
<1>4. ASSUME AccessCleanup
      PROVE  response'[w] = response[w] /\ clock' = clock
  BY <1>4 DEF AccessCleanup, Cleanup
<1>5. ASSUME AccessTick
      PROVE  /\ response'[w] = response[w]
             /\ clock < response[w].now + MaxDelay /\ clock' = clock + 1
  BY <1>5 DEF AccessTick, Tick
<1>6. ASSUME NEW emails \in Configs, AccessRestart(emails)
      PROVE  FALSE
  BY <1>6 DEF AccessRestart
<1>7. \/ Due(w) /\ clock' = clock
      \/ Due(w) /\ clock < response[w].now + MaxDelay /\ clock' = clock + 1
      \/ Rotated(w)
  <2>1. CASE \E v \in Workers, n \in Tokens : RefreshCommit(v, n)
    BY <1>2, <2>1
  <2> HIDE DEF Rotated
  <2> QED
    BY <1>1, <1>3, <1>4, <1>5, <1>6, <2>1 DEF AccessStep
<1> QED
  BY <1>7

(* A step keeps the types of what is added to the token store, ...         *)
LEMMA AccessTypes ==
  ASSUME Inv, Inv', AccessTypeOK, AccessNext
  PROVE  AccessTypeOK'
<1>1. /\ clock \in Nat /\ clock' \in Nat /\ AccessLifetime \in Nat
      /\ \A w \in Workers : session[w].now \in Nat
  BY DEF Inv, TypeInv, TypeOK, Request
<1>2. access' \in [Tokens -> Nat \cup {NULL}]
  BY <1>1, AccessChanges DEF AccessNext, AccessTypeOK, AccessExpiry
<1>3. response' \in [Workers -> [token : Tokens, now : Nat] \cup {NULL}]
  BY <1>1 DEF AccessNext, AccessStep, LoginAnswer, RefreshCommit, RefreshAnswer,
     ServeWithout, AccessCleanup, AccessTick, AccessRestart, AccessTypeOK
<1>4. closed_at' \in [Families -> Nat \cup {NULL}]
  BY <1>1 DEF AccessNext, AccessTypeOK
<1> QED
  BY <1>2, <1>3, <1>4 DEF AccessTypeOK

(* ... and how long access tokens may live: each action at a time.         *)
LEMMA AccessInvInductive ==
  ASSUME Inv, Inv', AccessInv, AccessNext
  PROVE  AccessInv'
<1>1. [Next]_vars
  BY StoreStep
<1>2. AccessTypeOK' /\ Timely'
  BY <1>1, AccessTypes, TimelyStep DEF AccessInv
<1>3. /\ clock \in Nat /\ clock' \in Nat /\ clock <= clock'
      /\ AccessLifetime \in Nat /\ MaxDelay \in Nat
      /\ \A w \in Workers : session[w].now \in Nat /\ session[w].now <= clock
      /\ issued \in [Tokens -> Claims \cup {NULL}] /\ issued' \in [Tokens -> Claims \cup {NULL}]
      /\ \A t \in Given : t \in Given' /\ issued'[t] = issued[t]
  BY <1>1, ClaimsStay DEF Inv, TypeInv, TypeOK, Request, AccessInv, Timely
<1>4. /\ access \in [Tokens -> Nat \cup {NULL}]
      /\ access' \in [Tokens -> Nat \cup {NULL}]
      /\ \A f \in Families : closed_at[f] \in Nat \cup {NULL}
      /\ \A f \in Families : closed_at'[f] \in Nat \cup {NULL}
  BY <1>2 DEF AccessInv, AccessTypeOK
<1>5. ASSUME NEW f \in Families
      PROVE  \/ closed_at'[f] = closed_at[f]
             \/ closed_at[f] = NULL /\ Closed(f)' /\ closed_at'[f] = clock'
  BY DEF AccessNext
<1>6. ASSUME NEW f \in Families, closed_at[f] # NULL
      PROVE  closed_at'[f] = closed_at[f] /\ Closed(f) /\ closed_at[f] <= clock
  BY <1>5, <1>6 DEF AccessInv, ClosedSince
<1>7. \A t \in Given' : t \in Tokens /\ issued'[t].fam \in Families
  BY <1>3 DEF Given, Claims
<1>8. ClosedSince'
  <2> SUFFICES ASSUME NEW f \in Families, closed_at'[f] # NULL
               PROVE  Closed(f)' /\ closed_at'[f] <= clock'
    BY DEF ClosedSince
  <2>1. CASE closed_at[f] # NULL
    BY <1>1, <1>3, <1>4, <1>6, <2>1, ClosedStays
  <2>2. CASE closed_at[f] = NULL
    BY <1>3, <1>5, <2>2
  <2> QED
    BY <2>1, <2>2
<1>9. AccessShort'
  <2> SUFFICES ASSUME NEW t \in Tokens, access'[t] # NULL
               PROVE  access'[t] <= AccessExpiry(clock')
    BY DEF AccessShort, AccessExpiry
  <2>1. access[t] # NULL => access[t] <= AccessExpiry(clock)
    BY DEF AccessInv, AccessShort
  <2>2. \/ access'[t] = access[t]
        \/ \E w \in Workers : access'[t] = AccessExpiry(session[w].now)
        \/ access'[t] = AccessExpiry(clock)
    BY <1>4, AccessChanges DEF AccessNext, AccessInv
  <2> QED
    BY <1>3, <1>4, <2>1, <2>2 DEF AccessExpiry
<1>10. AccessEnds'
  <2> SUFFICES ASSUME NEW t \in Given', access'[t] # NULL, NEW f, f = issued'[t].fam,
                      closed_at'[f] # NULL
               PROVE  access'[t] <= AccessExpiry(closed_at'[f] + MaxDelay)
    BY DEF AccessEnds, AccessExpiry
  <2>1. f \in Families /\ t \in Tokens
    BY <1>7
  <2>2. CASE closed_at[f] = NULL
    <3>1. closed_at'[f] = clock' /\ access'[t] <= AccessExpiry(clock')
      BY <1>5, <1>9, <2>1, <2>2 DEF AccessShort, AccessExpiry
    <3> QED
      BY <1>3, <1>4, <2>1, <3>1 DEF AccessExpiry
  <2>3. CASE closed_at[f] # NULL
    <3>1. closed_at'[f] = closed_at[f] /\ Closed(f) /\ closed_at[f] \in Nat
      BY <1>4, <1>6, <2>1, <2>3
    <3>2. t \in Given /\ issued[t].fam = f
      <4>1. t \in Given
        BY <1>1, <3>1, NewTokens DEF Closed, LoginInsert
      <4> QED
        BY <1>3, <4>1
    <3>3. CASE access'[t] = access[t]
      BY <2>3, <3>1, <3>2, <3>3 DEF AccessInv, AccessEnds
    <3>4. ASSUME NEW w \in Workers, response[w] # NULL, t = response[w].token,
                 access'[t] = AccessExpiry(clock)
          PROVE  access'[t] <= AccessExpiry(closed_at'[f] + MaxDelay)
      <4>1. /\ response[w].now <= closed_at[f]
            /\ clock <= response[w].now + MaxDelay
        BY <2>3, <3>2, <3>4 DEF AccessInv, AnswersDue
      <4>2. response[w].now \in Nat
        BY <3>4 DEF AccessInv, AccessTypeOK
      <4> QED
        BY <1>3, <3>1, <3>4, <4>1, <4>2 DEF AccessExpiry
    <3>5. ASSUME NEW w \in Workers, NEW n \in Tokens, NEW g \in Families,
                 LoginInsert(w, n, g),
                 access' = [access EXCEPT ![n] = AccessExpiry(session[w].now)]
          PROVE  access'[t] = access[t]
      BY <1>4, <2>1, <3>2, <3>5 DEF LoginInsert, Issue
    <3> QED
      BY <1>4, <2>1, <3>3, <3>4, <3>5, AccessChanges DEF AccessNext, AccessInv
  <2> QED
    BY <2>2, <2>3
<1>11. AnswersDue'
  <2> SUFFICES ASSUME NEW w \in Workers, response'[w] # NULL,
                      NEW f, f = issued'[response'[w].token].fam
               PROVE  /\ response'[w].token \in Given'
                      /\ response'[w].now <= clock'
                      /\ clock' <= response'[w].now + MaxDelay
                      /\ closed_at'[f] # NULL => response'[w].now <= closed_at'[f]
    BY DEF AnswersDue
  <2>1. ASSUME response'[w] = response[w],
               clock' = clock \/ (clock < response[w].now + MaxDelay /\ clock' = clock + 1)
        PROVE  /\ response'[w].token \in Given'
               /\ response'[w].now <= clock'
               /\ clock' <= response'[w].now + MaxDelay
               /\ closed_at'[f] # NULL => response'[w].now <= closed_at'[f]
    <3>1. /\ response[w].token \in Given /\ response[w].now \in Nat
          /\ response[w].now <= clock /\ clock <= response[w].now + MaxDelay
      BY <2>1 DEF AccessInv, AccessTypeOK, AnswersDue
    <3>2. response'[w].token \in Given' /\ f = issued[response[w].token].fam /\ f \in Families
      BY <1>3, <1>7, <2>1, <3>1
    <3>3. closed_at[f] # NULL => response[w].now <= closed_at[f]
      BY <2>1, <3>2 DEF AccessInv, AnswersDue
    <3>4. closed_at'[f] # NULL => response'[w].now <= closed_at'[f]
      BY <1>3, <1>4, <1>5, <2>1, <3>1, <3>2, <3>3
    <3> QED
      BY <1>3, <2>1, <3>1, <3>2, <3>4
  <2>2. ASSUME NEW n \in Tokens, RefreshRotate(w, n),
               response'[w] = [token |-> n, now |-> session[w].now]
        PROVE  /\ response'[w].token \in Given'
               /\ response'[w].now <= clock'
               /\ clock' <= response'[w].now + MaxDelay
               /\ closed_at'[f] # NULL => response'[w].now <= closed_at'[f]
    <3>1. /\ clock' = clock /\ session[w].stage = "rotate" /\ n \notin Given
          /\ issued'[n] = [sub |-> issued[session[w].token].sub,
                           fam |-> session[w].loaded[session[w].token].family_id,
                           exp |-> session[w].now + Lifetime]
      BY <1>3, <2>2 DEF RefreshRotate, Issue
    <3>2. f = session[w].loaded[session[w].token].family_id /\ Rotating(f)
      BY <2>2, <3>1 DEF Rotating
    <3>3. n \in Given'
      <4>1. session[w].token \in Given /\ session[w].loaded[session[w].token] # NULL
        BY <3>1 DEF Inv, TypeInv, RequestsComplete, Reading, Stages
      <4>2. issued'[n] \in Claims
        <5>1. issued[session[w].token].sub \in Admins
          BY <4>1, Types DEF Inv, Claims
        <5>2. session[w].token \in Tokens /\ session[w].loaded[session[w].token] \in Attributes
          BY <4>1, Types DEF Inv, Given
        <5>3. session[w].loaded[session[w].token].family_id \in Families
          BY <5>2 DEF Attributes
        <5>4. session[w].now + Lifetime \in Nat
          BY <1>3 DEF ConfigAssumption
        <5> QED
          BY <3>1, <5>1, <5>3, <5>4 DEF Claims
      <4> QED
        BY <4>2 DEF Given
    <3>4. f \in Families /\ closed_at[f] = NULL
      BY <1>6, <1>7, <2>2, <3>2, <3>3 DEF Closed
    <3>5. session[w].now <= clock /\ clock <= session[w].now + MaxDelay
      BY <3>1 DEF AccessInv, Timely
    <3> QED
      BY <1>3, <1>5, <2>2, <3>1, <3>3, <3>4, <3>5
  <2> QED
    BY <2>1, <2>2, AnswerChanges DEF AccessNext, AccessInv
<1> QED
  BY <1>2, <1>8, <1>9, <1>10, <1>11 DEF AccessInv

-----------------------------------------------------------------------------
(* At the start no access token is out.                                    *)
LEMMA AccessInvInit == AccessInit => AccessInv
<1> SUFFICES ASSUME AccessInit PROVE AccessInv
  OBVIOUS
<1>1. AccessTypeOK /\ ClosedSince /\ AccessShort /\ AccessEnds /\ AnswersDue
  BY DEF AccessInit, AccessTypeOK, ClosedSince, AccessShort, AccessEnds, AnswersDue, Given
<1>2. Timely
  BY DEF AccessInit, Init, Timely, Idle
<1> QED
  BY <1>1, <1>2 DEF AccessInv

(* The access tokens are an addition to the token store: whatever holds of *)
(* the store holds with them.                                              *)
LEMMA AccessSpecRefines == AccessSpec => Spec
<1>1. AccessInit => Init
  BY DEF AccessInit
<1> QED
  BY <1>1, StoreStep, PTL DEF AccessSpec, Spec

(* After its session has ended, by a revocation, by reuse detection or by  *)
(* expiry, get_current_admin accepts no access token of the session for    *)
(* longer than an access token lives and a handler takes to answer.        *)
THEOREM ExposureEnds == AccessSpec => []ExposureBounded
<1>1. Inv /\ Inv' /\ AccessInv /\ [AccessNext]_access_vars => AccessInv'
  <2>1. CASE AccessNext
    BY <2>1, AccessInvInductive
  <2>2. CASE UNCHANGED access_vars
    BY <2>2 DEF access_vars, vars, AccessInv, AccessTypeOK, Timely, ClosedSince,
       AccessShort, AccessEnds, AnswersDue, Closed, FreshFamilies, LiveFamily,
       Live, Rotating, Stored, Given, AccessExpiry
  <2> QED
    BY <2>1, <2>2
<1>2. Inv /\ AccessInv => ExposureBounded
  <2> SUFFICES ASSUME Inv, AccessInv, NEW t \in Given, NEW f, f = issued[t].fam,
                      closed_at[f] # NULL, Admitted(t)
               PROVE  clock <= closed_at[f] + MaxDelay + AccessLifetime
    BY DEF ExposureBounded
  <2>1. f \in Families /\ t \in Tokens
    BY Types DEF Inv, Claims, Given
  <2>2. /\ clock \in Nat /\ closed_at[f] \in Nat /\ access[t] \in Nat
        /\ MaxDelay \in Nat /\ AccessLifetime \in Nat
    BY <2>1 DEF Inv, TypeInv, TypeOK, AccessInv, AccessTypeOK, Admitted
  <2>3. access[t] >= clock
    BY DEF Admitted
  <2>4. access[t] <= AccessExpiry(closed_at[f] + MaxDelay)
    BY DEF Admitted, AccessInv, AccessEnds
  <2> QED
    BY <2>2, <2>3, <2>4 DEF AccessExpiry
<1> QED
  BY <1>1, <1>2, AccessInvInit, AccessSpecRefines, InvAlways, PTL DEF AccessSpec

(* Handing out access tokens along with them changes nothing about the     *)
(* refresh tokens: the retention cleanup deletes none that still matters.  *)
THEOREM AccessTokensKept == AccessSpec => []UnexpiredTokensKept
BY TokensKept, AccessSpecRefines, PTL

(* ... and a session that has ended stays ended, whatever access tokens of *)
(* it are still accepted.                                                  *)
THEOREM AccessSessionsEnd == AccessSpec => ClosedFamiliesStayClosed
BY SessionsEnd, AccessSpecRefines, PTL
=============================================================================
