---------------------------- MODULE RefreshTokens ----------------------------
(***************************************************************************)
(* The refresh-token store of the API: login, refresh (rotation and reuse  *)
(* detection), logout, logout-all and the retention cleanup, as the        *)
(* handlers of app/api/routes/auth.py run them against the refresh_tokens  *)
(* table.                                                                  *)
(*                                                                         *)
(* The handlers are synchronous functions, so the server runs them in a    *)
(* pool of threads, each with a database session of its own.  A handler is *)
(* split where another one can get in between: at its SELECTs and at its   *)
(* commit.  What a handler has read stays in its session's identity map    *)
(* (`loaded`), and the commit writes only the columns that differ from     *)
(* what was read.  Commits are atomic and SELECTs see committed rows only  *)
(* (PostgreSQL's READ COMMITTED).                                          *)
(***************************************************************************)
EXTENDS Naturals, FiniteSets

CONSTANTS
  Admins,     \* e-mail addresses an administrator may have
  Tokens,     \* refresh tokens: a token, its hash and its row's id
  Configs,    \* values ADMIN_EMAILS may have when the process starts
  Families,   \* family ids
  Endpoints,  \* of login, refresh, logout and logout_all: those clients call
  Workers,    \* threads that run handlers
  NULL,       \* SQL's NULL
  FamilyCap,  \* max_active_refresh_token_families_per_admin, 0 for no cap
  Lifetime,   \* jwt_refresh_token_expire_days, in ticks of the clock
  Retention,  \* max(refresh_token_cleanup_retention_days, 0), in ticks
  MaxDelay,   \* how many ticks may pass while a handler uses a time it read
  MaxClock    \* bound on the clock

ASSUME ConfigAssumption ==
  FamilyCap \in Nat /\ Lifetime \in Nat /\ Retention \in Nat
    /\ MaxDelay \in Nat /\ MaxClock \in Nat
    /\ Configs \subseteq SUBSET Admins

(* The reasons and actors _revoke_token is called with. *)
Reasons == {"rotated", "reuse_detected", "logout", "logout_all"}
Actors  == {"system", "security", "user"}

VARIABLES
  clock,          \* the time every thread reads
  admin_emails,   \* settings.admin_emails_list of the running process
  issued,         \* claims of the refresh tokens that clients were given
  refresh_tokens, \* the table: the row of each token, NULL if it has none
  session         \* the request each thread is serving, and its session

vars == <<clock, admin_emails, issued, refresh_tokens, session>>

-----------------------------------------------------------------------------
Claims == [sub : Admins, fam : Families, exp : Nat]

(* reused_detected says that reused_detected_at is set: nobody reads its   *)
(* value.  last_used_at is left out: the rotation that sets it also sets   *)
(* replaced_by_id, and neither is read.                                    *)
Row == [admin_email       : Admins,
        family_id         : Families,
        expires_at        : Nat,
        revoked_at        : Nat \cup {NULL},
        revocation_reason : Reasons \cup {NULL},
        revoked_by        : Actors \cup {NULL},
        reused_detected   : BOOLEAN,
        replaced_by_id    : Tokens \cup {NULL}]

(* The attributes of a row that handlers use after they have read it.      *)
Attributes == [admin_email       : Admins,
               family_id         : Families,
               revoked_at        : Nat \cup {NULL},
               revocation_reason : Reasons \cup {NULL},
               revoked_by        : Actors \cup {NULL}]

ASSUME NullAssumption ==
  /\ NULL \notin Nat \cup Tokens \cup Admins \cup Families
  /\ NULL \notin Reasons /\ NULL \notin Actors
  /\ NULL \notin Claims /\ NULL \notin Row /\ NULL \notin Attributes

(* Where a handler is: the database call it makes next. *)
Stages == {"idle", "login_count", "login_insert", "rotate", "reuse_select",
           "reuse_commit", "logout_commit", "logout_all_select",
           "logout_all_commit"}

Idle == [stage |-> "idle", email |-> NULL, token |-> NULL, now |-> 0,
         loaded |-> [t \in Tokens |-> NULL]]

(* Tokens that clients were given, and tokens that have a row. *)
Given  == {t \in Tokens : issued[t] # NULL}
Stored == {t \in Tokens : refresh_tokens[t] # NULL}

Unrevoked(row) == row.revoked_at = NULL

(* A row that can still be refreshed. *)
Live(row) == Unrevoked(row) /\ row.expires_at > clock

(* active_refresh_family_count counts these. *)
ActiveFamilies(e) ==
  {f \in Families : \E t \in Stored : /\ refresh_tokens[t].admin_email = e
                                      /\ refresh_tokens[t].family_id = f
                                      /\ Live(refresh_tokens[t])}

NewRow(e, f, exp) ==
  [admin_email |-> e, family_id |-> f, expires_at |-> exp,
   revoked_at |-> NULL, revocation_reason |-> NULL, revoked_by |-> NULL,
   reused_detected |-> FALSE, replaced_by_id |-> NULL]

Read(row) ==
  [admin_email |-> row.admin_email, family_id |-> row.family_id,
   revoked_at |-> row.revoked_at, revocation_reason |-> row.revocation_reason,
   revoked_by |-> row.revoked_by]

(* Mutants of Stamped: the arguments swapped, revoked_at and revoked_by    *)
(* not written.                                                            *)
StampedSwapped(row, read, now, reason, by) ==
  [row EXCEPT !.revoked_at = IF Unrevoked(read) THEN now ELSE @,
              !.revocation_reason = by, !.revoked_by = reason]

StampedNotRevoked(row, read, now, reason, by) ==
  [row EXCEPT !.revocation_reason = reason, !.revoked_by = by]

StampedNoActor(row, read, now, reason, by) ==
  [row EXCEPT !.revoked_at = IF Unrevoked(read) THEN now ELSE @,
              !.revocation_reason = reason]

(* _revoke_token on a row read as `read`, flushed onto the row as it is    *)
(* now: a column is written only if it was changed from what was read.     *)
Stamped(row, read, now, reason, by) ==
  [row EXCEPT
     !.revoked_at = IF Unrevoked(read) THEN now ELSE @,
     !.revocation_reason = IF read.revocation_reason # reason THEN reason ELSE @,
     !.revoked_by = IF read.revoked_by # by THEN by ELSE @]

NetChange(read, reason, by) ==
  \/ Unrevoked(read)
  \/ read.revocation_reason # reason
  \/ read.revoked_by # by

(* The session's identity map after a SELECT returns the rows of S: a row  *)
(* loaded before keeps the attributes it was loaded with.                  *)
Load(loaded, S) ==
  [t \in Tokens |-> IF loaded[t] = NULL /\ t \in S THEN Read(refresh_tokens[t])
                                                 ELSE loaded[t]]

-----------------------------------------------------------------------------
Init ==
  /\ clock = 0
  /\ admin_emails \in Configs
  /\ issued = [t \in Tokens |-> NULL]
  /\ refresh_tokens = [t \in Tokens |-> NULL]
  /\ session = [w \in Workers |-> Idle]

(* Mutant of Purgeable: revoked rows are not retained.                     *)
PurgeableOnceRevoked(row) == ~Unrevoked(row) \/ row.expires_at + Retention <= clock

(* cleanup_refresh_tokens: the DELETE, and the ON DELETE SET NULL of the   *)
(* rows that pointed at a deleted one.                                     *)
Purgeable(row) ==
  \/ ~Unrevoked(row) /\ row.revoked_at + Retention <= clock
  \/ row.expires_at + Retention <= clock

Kept == {t \in Stored : ~Purgeable(refresh_tokens[t])}

Purged ==
  [t \in Tokens |->
     IF t \in Kept
       THEN [refresh_tokens[t] EXCEPT
               !.replaced_by_id = IF @ \in Kept THEN @ ELSE NULL]
       ELSE NULL]

Cleanup ==
  /\ refresh_tokens' = Purged
  /\ UNCHANGED <<clock, admin_emails, issued, session>>

(* Only a handler that waits on the database holds a timestamp. *)
Tick ==
  /\ clock < MaxClock
  /\ \A w \in Workers :
       session[w].stage # "idle" => clock < session[w].now + MaxDelay
  /\ clock' = clock + 1
  /\ UNCHANGED <<admin_emails, issued, refresh_tokens, session>>

(* A database error, a StaleDataError when an UPDATE misses a row that was *)
(* deleted meanwhile, or a killed thread: the session is closed and its    *)
(* transaction rolled back.                                                *)
RequestFails(w) ==
  /\ session[w].stage # "idle"
  /\ session' = [session EXCEPT ![w] = Idle]
  /\ UNCHANGED <<clock, admin_emails, issued, refresh_tokens>>

(* The process stops or crashes, and starts with a new ADMIN_EMAILS.  The  *)
(* cleanup at startup may fail; its error is caught.                       *)
Restart(emails) ==
  /\ session' = [w \in Workers |-> Idle]
  /\ admin_emails' = emails
  /\ refresh_tokens' \in {Purged, refresh_tokens}
  /\ UNCHANGED <<clock, issued>>

-----------------------------------------------------------------------------
(* admin_login.  A rejected login changes nothing; an accepted one first   *)
(* runs the cleanup, which commits.                                        *)
LoginStart(w, e) ==
  /\ session[w].stage = "idle"
  /\ "login" \in Endpoints
  /\ e \in admin_emails
  /\ refresh_tokens' = Purged
  /\ session' = [session EXCEPT
       ![w] = [Idle EXCEPT !.stage = "login_count", !.email = e, !.now = clock]]
  /\ UNCHANGED <<clock, admin_emails, issued>>

(* Mutant of BelowCap: > instead of >=.                                    *)
BelowCapInclusive(e) ==
  FamilyCap > 0 => Cardinality(ActiveFamilies(e)) <= FamilyCap

BelowCap(e) == FamilyCap > 0 => Cardinality(ActiveFamilies(e)) < FamilyCap

(* The session count, 429 at the cap; then the token is created.           *)
LoginCount(w) ==
  /\ session[w].stage = "login_count"
  /\ session' = [session EXCEPT
       ![w] = IF BelowCap(session[w].email)
                THEN [session[w] EXCEPT !.stage = "login_insert", !.now = clock]
                ELSE Idle]
  /\ UNCHANGED <<clock, admin_emails, issued, refresh_tokens>>

(* Token n of family f is signed, stored and handed to the client.         *)
Issue(n, e, f, exp, rows) ==
  /\ n \notin Given
  /\ issued' = [issued EXCEPT ![n] = [sub |-> e, fam |-> f, exp |-> exp]]
  /\ refresh_tokens' = [rows EXCEPT ![n] = NewRow(e, f, exp)]

(* Mutant of FreshFamilies: family ids repeat.                             *)
RepeatedFamilies == Families

(* uuid4 never returns an id twice. *)
FreshFamilies == {f \in Families : \A t \in Given : issued[t].fam # f}

LoginInsert(w, n, f) ==
  /\ session[w].stage = "login_insert"
  /\ f \in FreshFamilies
  /\ Issue(n, session[w].email, f, session[w].now + Lifetime, refresh_tokens)
  /\ session' = [session EXCEPT ![w] = Idle]
  /\ UNCHANGED <<clock, admin_emails>>

-----------------------------------------------------------------------------
(* refresh_access_token.  A client presents any token it was given, once   *)
(* or many times.  A token that is expired, of an address that is no       *)
(* longer an administrator's, or without a row is rejected: no change.     *)
Recognised(t) ==
  /\ "refresh" \in Endpoints
  /\ t \in Given
  /\ issued[t].exp >= clock
  /\ issued[t].sub \in admin_emails
  /\ t \in Stored

(* A handler starts, with the row of t in its identity map. *)
Start(w, t, stage) ==
  /\ session[w].stage = "idle"
  /\ t \in Stored
  /\ session' = [session EXCEPT
       ![w] = [stage |-> stage, email |-> NULL, token |-> t, now |-> clock,
               loaded |-> Load(Idle.loaded, {t})]]
  /\ UNCHANGED <<clock, admin_emails, issued, refresh_tokens>>

(* Mutant of RefreshLookup: revoked_at not checked.                        *)
RefreshLookupRevoked(w, t) ==
  Recognised(t) /\ refresh_tokens[t].expires_at > clock /\ Start(w, t, "rotate")

(* Mutant of RefreshLookup: expires_at not checked, only the claim.        *)
RefreshLookupExpired(w, t) ==
  Recognised(t) /\ Unrevoked(refresh_tokens[t]) /\ Start(w, t, "rotate")

RefreshLookup(w, t) ==
  /\ Recognised(t)
  /\ Live(refresh_tokens[t])
  /\ refresh_tokens[t].family_id = issued[t].fam
  /\ Start(w, t, "rotate")

RefreshReused(w, t) ==
  /\ Recognised(t)
  /\ ~Unrevoked(refresh_tokens[t])
  /\ Start(w, t, "reuse_select")

(* Insert the replacement, revoke the old row and commit.                  *)
RefreshRotate(w, n) ==
  LET s    == session[w]
      t    == s.token
      read == s.loaded[t]
  IN  /\ s.stage = "rotate"
      /\ t \in Stored
      /\ Issue(n, issued[t].sub, read.family_id, s.now + Lifetime,
               [refresh_tokens EXCEPT
                  ![t] = [Stamped(@, read, s.now, "rotated", "system") EXCEPT
                            !.replaced_by_id = n]])
      /\ session' = [session EXCEPT ![w] = Idle]
      /\ UNCHANGED <<clock, admin_emails>>

-----------------------------------------------------------------------------
(* _revoke_token_family and _revoke_admin_tokens read the rows they will   *)
(* revoke in one SELECT ...                                                *)
Select(w, from, to, S) ==
  /\ session[w].stage = from
  /\ session' = [session EXCEPT
       ![w].stage = to, ![w].now = clock, ![w].loaded = Load(@, S)]
  /\ UNCHANGED <<clock, admin_emails, issued, refresh_tokens>>

(* ... and update them in one commit.  Every row with a change must still  *)
(* be there: if not, RequestFails is what happens.                         *)
Revoke(w, stage, reason, by, reused) ==
  LET s     == session[w]
      dirty == {t \in Tokens : /\ s.loaded[t] # NULL
                               /\ NetChange(s.loaded[t], reason, by)} \cup reused
  IN  /\ s.stage = stage
      /\ dirty \subseteq Stored
      /\ refresh_tokens' =
           [t \in Tokens |->
              IF t \in dirty
                THEN [Stamped(refresh_tokens[t], s.loaded[t], s.now, reason, by)
                        EXCEPT !.reused_detected = @ \/ t \in reused]
                ELSE refresh_tokens[t]]
      /\ session' = [session EXCEPT ![w] = Idle]
      /\ UNCHANGED <<clock, admin_emails, issued>>

(* Mutant of ReuseSelect: all the administrator's tokens, as logout-all.   *)
ReuseSelectAdmin(w) ==
  LET e == session[w].loaded[session[w].token].admin_email
  IN  Select(w, "reuse_select", "reuse_commit",
             {t \in Stored : refresh_tokens[t].admin_email = e})

ReuseSelect(w) ==
  LET f == session[w].loaded[session[w].token].family_id
  IN  Select(w, "reuse_select", "reuse_commit",
             {t \in Stored : refresh_tokens[t].family_id = f})

ReuseCommit(w) ==
  Revoke(w, "reuse_commit", "reuse_detected", "security", {session[w].token})

(* logout accepts any token, expired or revoked ones too. *)
LogoutLookup(w, t) ==
  "logout" \in Endpoints /\ t \in Given /\ Start(w, t, "logout_commit")

LogoutCommit(w) == Revoke(w, "logout_commit", "logout", "user", {})

LogoutAllLookup(w, t) ==
  "logout_all" \in Endpoints /\ t \in Given /\ Start(w, t, "logout_all_select")

(* Mutant of LogoutAllSelect: the family's rows, not the administrator's.  *)
LogoutAllSelectFamily(w) ==
  LET f == session[w].loaded[session[w].token].family_id
  IN  Select(w, "logout_all_select", "logout_all_commit",
             {t \in Stored : refresh_tokens[t].family_id = f})

LogoutAllSelect(w) ==
  LET e == session[w].loaded[session[w].token].admin_email
  IN  Select(w, "logout_all_select", "logout_all_commit",
             {t \in Stored : refresh_tokens[t].admin_email = e})

LogoutAllCommit(w) ==
  Revoke(w, "logout_all_commit", "logout_all", "user", {})

-----------------------------------------------------------------------------
Serve(w) ==
  \/ \E e \in Admins : LoginStart(w, e)
  \/ LoginCount(w)
  \/ \E n \in Tokens, f \in Families : LoginInsert(w, n, f)
  \/ \E t \in Tokens : RefreshLookup(w, t)
  \/ \E t \in Tokens : RefreshReused(w, t)
  \/ \E n \in Tokens : RefreshRotate(w, n)
  \/ ReuseSelect(w)
  \/ ReuseCommit(w)
  \/ \E t \in Tokens : LogoutLookup(w, t)
  \/ LogoutCommit(w)
  \/ \E t \in Tokens : LogoutAllLookup(w, t)
  \/ LogoutAllSelect(w)
  \/ LogoutAllCommit(w)
  \/ RequestFails(w)

Next ==
  \/ \E w \in Workers : Serve(w)
  \/ Cleanup
  \/ Tick
  \/ \E emails \in Configs : Restart(emails)

Spec == Init /\ [][Next]_vars
-----------------------------------------------------------------------------
Request == [stage : Stages, email : Admins \cup {NULL},
            token : Tokens \cup {NULL}, now : Nat,
            loaded : [Tokens -> Attributes \cup {NULL}]]

(* The columns of the refresh_tokens table and the sessions keep their     *)
(* types.                                                                  *)
TypeOK ==
  /\ clock \in Nat
  /\ admin_emails \subseteq Admins
  /\ issued \in [Tokens -> Claims \cup {NULL}]
  /\ refresh_tokens \in [Tokens -> Row \cup {NULL}]
  /\ session \in [Workers -> Request]

(* The audit columns of a row agree although handlers that overlap write   *)
(* different subsets of them: a row has a reason and an actor exactly when *)
(* it is revoked, a rotated or reused row is revoked, and the replacement  *)
(* of a rotated row is a row of the same family.                           *)
AuditColumnsAgree ==
  \A t \in Stored :
    LET row == refresh_tokens[t]
        r   == row.replaced_by_id
    IN  /\ Unrevoked(row) <=> row.revocation_reason = NULL
        /\ Unrevoked(row) <=> row.revoked_by = NULL
        /\ row.reused_detected => ~Unrevoked(row)
        /\ r # NULL => /\ ~Unrevoked(row)
                       /\ r \in Stored
                       /\ refresh_tokens[r].family_id = row.family_id

(* A row holds what its token claims, and all tokens of a family belong to *)
(* one administrator: the family_mismatch branch of refresh_access_token   *)
(* rejects no token the API issued, and revoking a family or an            *)
(* administrator's tokens never touches another administrator's session.   *)
ClaimsMatchRows ==
  /\ \A t \in Stored :
       /\ refresh_tokens[t].admin_email = issued[t].sub
       /\ refresh_tokens[t].family_id = issued[t].fam
       /\ refresh_tokens[t].expires_at = issued[t].exp
  /\ \A t, u \in Given :
       issued[t].fam = issued[u].fam => issued[t].sub = issued[u].sub

(* The cleanup never forgets a token that a client could still present:    *)
(* if rows are retained longer than a token lives (30 days and 14 by       *)
(* default), reusing a revoked token is always detected, never merely      *)
(* "not recognized".  MaxDelay enters because a revocation may be stamped  *)
(* with a time read before the token was issued.                           *)
UnexpiredTokensKept ==
  Retention >= Lifetime + MaxDelay =>
    \A t \in Given : issued[t].exp > clock => t \in Stored

(* A family that has no live token and no rotation under way.              *)
Rotating(f) ==
  \E w \in Workers : /\ session[w].stage = "rotate"
                     /\ session[w].loaded[session[w].token].family_id = f

LiveFamily(f) ==
  \E t \in Stored : refresh_tokens[t].family_id = f /\ Live(refresh_tokens[t])

Closed(f) == f \notin FreshFamilies /\ ~LiveFamily(f) /\ ~Rotating(f)

(* Ending a session is final.  Once the last live token of a family is     *)
(* revoked or expires and the rotations that had already read one of its   *)
(* tokens are over, no interleaving of handlers, no failed request, no     *)
(* restart and no cleanup brings the session back.                         *)
ClosedFamiliesStayClosed ==
  [][\A f \in Families : Closed(f) => Closed(f)']_vars

(* Families of e that are active or may become active again when a         *)
(* rotation commits, and logins of e that have passed the cap.             *)
OpenFamilies(e) ==
  ActiveFamilies(e) \cup
    {f \in Families : \E t \in Given :
       issued[t].sub = e /\ issued[t].fam = f /\ Rotating(f)}

AdmittedLogins(e) ==
  {w \in Workers : session[w].stage = "login_insert" /\ session[w].email = e}

(* The cap is checked before the new session is inserted, so logins that   *)
(* overlap can exceed it, and rotations can revive families the count did  *)
(* not see; but never by as many sessions as there are threads.            *)
CapOvershootBounded ==
  FamilyCap > 0 =>
    \A e \in Admins :
      Cardinality(OpenFamilies(e)) + Cardinality(AdmittedLogins(e))
        < FamilyCap + Cardinality(Workers)

(* Every token a revocation has read is dead when it commits, whatever     *)
(* other handlers did to the row in between: after a logout, logout-all or *)
(* reuse detection the tokens it found can never be refreshed again.       *)
Revoking == {"reuse_commit", "logout_commit", "logout_all_commit"}

LoadedTokensDie ==
  [][\A w \in Workers :
       /\ session[w].stage \in Revoking
       /\ session'[w].stage = "idle"
       /\ refresh_tokens' # refresh_tokens
       /\ Stored' = Stored
       => \A t \in Stored :
            session[w].loaded[t] # NULL => ~Unrevoked(refresh_tokens'[t])]_vars

(* The tokens that a handler may revoke when it commits: the one it was    *)
(* shown, the family of a reused one, the administrator's for logout-all.  *)
MayRevoke(w) ==
  LET own == session[w].token
  IN  {t \in Given :
         \/ session[w].stage \in {"rotate", "logout_commit"} /\ t = own
         \/ session[w].stage = "reuse_commit" /\ issued[t].fam = issued[own].fam
         \/ session[w].stage = "logout_all_commit" /\ issued[t].sub = issued[own].sub}

(* Sessions are isolated.  A token is revoked only by a request that is    *)
(* about it - its own refresh or logout, the reuse of a token of its       *)
(* family, a logout-all of its administrator - and a row that is not       *)
(* revoked is deleted only once it is expired: no handler that works on    *)
(* rows it read long ago, no cleanup, no failure and no restart ends a     *)
(* session of someone else.                                                *)
SessionsIsolated ==
  [][\A t \in Stored :
       Unrevoked(refresh_tokens[t]) =>
         \/ t \in Stored' /\ Unrevoked(refresh_tokens'[t])
         \/ t \notin Stored' /\ refresh_tokens[t].expires_at <= clock
         \/ /\ t \in Stored'
            /\ \E w \in Workers : t \in MayRevoke(w) /\ session'[w].stage = "idle"]_vars

-----------------------------------------------------------------------------
(* The tokens of a family that are not revoked are at most one.            *)
AtMostOneToken(f) ==
  \A t, u \in Stored :
    /\ refresh_tokens[t].family_id = f /\ Unrevoked(refresh_tokens[t])
    /\ refresh_tokens[u].family_id = f /\ Unrevoked(refresh_tokens[u])
    => t = u

(* A rotation of family f checked that its token is not revoked, and the   *)
(* token has been revoked since.                                           *)
Overtaken(w, f) ==
  LET t == session[w].token
  IN  /\ session[w].stage = "rotate"
      /\ session[w].loaded[t].family_id = f
      /\ Unrevoked(session[w].loaded[t])
      /\ t \in Stored /\ ~Unrevoked(refresh_tokens[t])

(* How a session gets a second token.  refresh_access_token checks its     *)
(* token and rotates it in two steps without a lock, so two refreshes of   *)
(* one token can both succeed.  That is the only way: a session that has   *)
(* at most one unrevoked token gets another only when a rotation commits   *)
(* whose token was revoked between its check and its commit - never by a   *)
(* login, by a rotation that nothing overtook, or by a restart.            *)
SecondTokenOvertaken ==
  [][\A f \in Families :
       AtMostOneToken(f) /\ ~AtMostOneToken(f)' =>
         \E w \in Workers : Overtaken(w, f) /\ session'[w].stage = "idle"]_vars

(* Once reuse of a token is detected its whole family is revoked: what the *)
(* code says it does.  False: see OnlyLateTokensSurvive for what holds.    *)
ReuseEndsFamily ==
  \A t, u \in Stored :
    /\ refresh_tokens[t].family_id = refresh_tokens[u].family_id
    /\ refresh_tokens[t].reused_detected
    => ~Unrevoked(refresh_tokens[u])
=============================================================================
