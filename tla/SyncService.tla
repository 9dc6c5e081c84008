----------------------------- MODULE SyncService -----------------------------
(***************************************************************************)
(* Users, their daily snapshots and the handlers that write them: the      *)
(* daily sync of app/services/sync_service.py and the user administration  *)
(* of app/api/routes/admin.py.                                             *)
(*                                                                         *)
(* The sync and create_user are coroutines that wait for LeetCode between  *)
(* what they read and what they write; delete_user runs in a thread.  Each *)
(* has a database session of its own.  LeetCode itself is external: it     *)
(* answers with a user's counts at some moment of the wait, or fails.      *)
(***************************************************************************)
EXTENDS Naturals, FiniteSets

CONSTANTS
  Usernames,
  Ids,       \* primary keys of users
  Requests,  \* requests served at the same time
  Syncers,   \* those of them that may run the daily sync
  NULL,      \* no row, no answer
  MaxSolved, \* bound on the problems a user has solved
  MaxDay,    \* bound on the days that pass
  MaxLate    \* bound on the midnights between a date and its COMMIT

ASSUME SyncAssumption ==
  /\ Syncers \subseteq Requests
  /\ MaxSolved \in Nat /\ MaxDay \in Nat /\ MaxLate \in Nat
  /\ NULL \notin Nat /\ NULL \notin Usernames /\ NULL \notin Ids
  /\ NULL \notin Requests

VARIABLES
  today,
  solved,    \* LeetCode: problems solved by each user, NULL for no profile
  used,      \* ids that were given out: uuid4 never repeats one
  users,     \* the users table: the username of each row
  snapshots, \* the snapshots table: the total of each user and date
  request,   \* what each request is doing
  history    \* read by TotalsNeverDrop only

vars == <<today, solved, used, users, snapshots, request, history>>

Days == 0 .. MaxDay
Counts == 0 .. MaxSolved

Stages == {"idle", "create_fetch", "create_insert", "delete_commit",
           "sync_next", "sync_fetch", "sync_date", "sync_store"}

Syncing == {"sync_next", "sync_fetch", "sync_date", "sync_store"}

(* aborted: a statement failed and PostgreSQL rejects every other one of   *)
(* the transaction.  expired: a commit expired the users that were loaded. *)
(* loaded: the users as the sync read them.  It counts successes and       *)
(* errors; here it remembers whose they are.  unfetched, broken, start and *)
(* starts are history: the users LeetCode did not answer for, whether the  *)
(* database failed, what everyone had solved when the sync began, and when *)
(* each of the syncs that were running then, itself included, began.       *)
Idle == [stage |-> "idle", username |-> NULL, user |-> NULL, stats |-> NULL,
         day |-> NULL,
         loaded |-> [u \in Ids |-> NULL], queue |-> {},
         success |-> {}, errors |-> {}, aborted |-> FALSE, expired |-> FALSE,
         unfetched |-> {}, broken |-> FALSE,
         start |-> [n \in Usernames |-> NULL], starts |-> {}]

Running == {r \in Requests : request[r].stage \in Syncing}

Present == {u \in Ids : users[u] # NULL}

Init ==
  /\ today = 0
  /\ solved \in [Usernames -> Counts \cup {NULL}]
  /\ used = {}
  /\ users = [u \in Ids |-> NULL]
  /\ snapshots = [u \in Ids |-> [d \in Days |-> NULL]]
  /\ request = [r \in Requests |-> Idle]
  /\ history = [alone |-> NULL, overnight |-> {}]

Update(r, new) == request' = [request EXCEPT ![r] = new]

-----------------------------------------------------------------------------
(* The world: days pass and users solve problems.  history has the sync    *)
(* that runs alone, the last to begin if no other was running then, and    *)
(* the dates that began while a sync was running that had not run alone.   *)
Midnight ==
  /\ today < MaxDay
  /\ \A r \in Requests : request[r].stage = "sync_store" =>
                          today < request[r].day + MaxLate
  /\ today' = today + 1
  /\ history' = IF Running \subseteq {history.alone} THEN history
                ELSE [history EXCEPT !.overnight = @ \cup {today + 1}]
  /\ UNCHANGED <<solved, used, users, snapshots, request>>

Solve(n) ==
  /\ solved[n] # NULL /\ solved[n] < MaxSolved
  /\ solved' = [solved EXCEPT ![n] = @ + 1]
  /\ UNCHANGED <<today, used, users, snapshots, request, history>>

(* A crash, or a database error that the sync's try does not catch.        *)
RequestFails(r) ==
  /\ request[r].stage # "idle"
  /\ Update(r, Idle)
  /\ UNCHANGED <<today, solved, used, users, snapshots, history>>

-----------------------------------------------------------------------------
(* create_user: 409 if the name is taken, then the check against LeetCode, *)
(* then the INSERT, which the unique constraint rejects if another request *)
(* has stored the name meanwhile.                                          *)
Taken(n) == \E u \in Ids : users[u] = n

CreateStart(r, n) ==
  /\ request[r].stage = "idle"
  /\ ~Taken(n)
  /\ Update(r, [Idle EXCEPT !.stage = "create_fetch", !.username = n])
  /\ UNCHANGED <<today, solved, used, users, snapshots, history>>

CreateFetch(r) ==
  /\ request[r].stage = "create_fetch"
  /\ Update(r, IF solved[request[r].username] = NULL
                 THEN Idle
                 ELSE [request[r] EXCEPT !.stage = "create_insert"])
  /\ UNCHANGED <<today, solved, used, users, snapshots, history>>

CreateInsert(r, u) ==
  LET n == request[r].username
  IN  /\ request[r].stage = "create_insert"
      /\ u \notin used
      /\ IF Taken(n)
           THEN UNCHANGED <<used, users>>
           ELSE /\ used' = used \cup {u}
                /\ users' = [users EXCEPT ![u] = n]
      /\ Update(r, Idle)
      /\ UNCHANGED <<today, solved, snapshots, history>>

(* delete_user: the row and, by cascade, its snapshots. *)
DeleteLookup(r, u) ==
  /\ request[r].stage = "idle"
  /\ u \in Present
  /\ Update(r, [Idle EXCEPT !.stage = "delete_commit", !.user = u])
  /\ UNCHANGED <<today, solved, used, users, snapshots, history>>

(* Mutant of Cascade: the snapshots stay.                                  *)
NoCascade(u) == snapshots

Cascade(u) == [snapshots EXCEPT ![u] = [d \in Days |-> NULL]]

DeleteCommit(r) ==
  LET u == request[r].user
  IN  /\ request[r].stage = "delete_commit"
      /\ users' = [users EXCEPT ![u] = NULL]
      /\ snapshots' = Cascade(u)
      /\ Update(r, Idle)
      /\ UNCHANGED <<today, solved, used, history>>

-----------------------------------------------------------------------------
(* run_daily_sync: the users are read once, in no particular order. *)
SyncStart(r) ==
  /\ request[r].stage = "idle"
  /\ r \in Syncers
  /\ Update(r, [Idle EXCEPT !.stage = "sync_next", !.queue = Present,
                            !.loaded = users, !.start = solved,
                            !.starts = {solved} \cup {request[q].start : q \in Running}])
  /\ history' = [history EXCEPT !.alone = IF Running = {} THEN r ELSE NULL]
  /\ UNCHANGED <<today, solved, used, users, snapshots>>

(* One user is done, well or not, and the loop goes on. *)
Succeeded(s) ==
  [s EXCEPT !.stage = "sync_next", !.queue = @ \ {s.user},
            !.success = @ \cup {s.user}, !.expired = TRUE]

(* Mutant of Failed: the user is tried again.                              *)
FailedAgain(s) == [s EXCEPT !.stage = "sync_next", !.errors = @ \cup {s.user}]

(* Mutant of Failed: the error is recorded under the user's name.          *)
FailedByName(s) ==
  [s EXCEPT !.stage = "sync_next", !.queue = @ \ {s.user},
            !.errors = @ \cup {s.username}]

Failed(s) ==
  [s EXCEPT !.stage = "sync_next", !.queue = @ \ {s.user},
            !.errors = @ \cup {s.user}]

(* user.username: loaded already, or read again after a commit expired it, *)
(* which fails if the row is gone or the transaction is aborted.           *)
SyncNext(r, u) ==
  LET s == [request[r] EXCEPT !.user = u, !.stats = NULL]
  IN  /\ request[r].stage = "sync_next"
      /\ u \in request[r].queue
      /\ Update(r, IF s.expired /\ (s.aborted \/ u \notin Present)
                     THEN Failed(s)
                     ELSE [s EXCEPT !.stage = "sync_fetch", !.username = s.loaded[u]])
      /\ UNCHANGED <<today, solved, used, users, snapshots, history>>

(* A database error inside the try counts as an error of that user: no     *)
(* connection could be had, or a statement failed, and then the            *)
(* transaction is aborted for the users that follow.                       *)
Broken(s, aborted) ==
  [Failed(s) EXCEPT !.aborted = @ \/ aborted, !.broken = TRUE]

SyncNextBroken(r, u) ==
  /\ request[r].stage = "sync_next"
  /\ u \in request[r].queue
  /\ request[r].expired
  /\ \E aborted \in BOOLEAN :
       Update(r, Broken([request[r] EXCEPT !.user = u, !.stats = NULL], aborted))
  /\ UNCHANGED <<today, solved, used, users, snapshots, history>>

(* fetch_leetcode_stats: an answer, whose counts may be missing and are    *)
(* then taken for zero, ...                                                *)
SyncFetch(r) ==
  LET n == request[r].username
  IN  /\ request[r].stage = "sync_fetch"
      /\ solved[n] # NULL
      /\ \E stats \in {0, solved[n]} :
           Update(r, [request[r] EXCEPT !.stage = "sync_date", !.stats = stats])
      /\ UNCHANGED <<today, solved, used, users, snapshots, history>>

(* Mutant of Unfetched: the failed fetch aborts the transaction.           *)
UnfetchedAborts(s) ==
  [Failed(s) EXCEPT !.unfetched = @ \cup {s.user}, !.aborted = TRUE]

(* ... or an error: a timeout, a status other than 200, no such user.      *)
Unfetched(s) == [Failed(s) EXCEPT !.unfetched = @ \cup {s.user}]

SyncFetchFails(r) ==
  /\ request[r].stage = "sync_fetch"
  /\ Update(r, Unfetched(request[r]))
  /\ UNCHANGED <<today, solved, used, users, snapshots, history>>

(* Mutant of SnapshotDate: the date of a time zone that is ahead.          *)
SnapshotDateAhead == IF today < MaxDay THEN today + 1 ELSE today

(* Mutant of SnapshotDate: the date of a time zone that is behind.         *)
SnapshotDateBehind == IF today > 0 THEN today - 1 ELSE today

SnapshotDate == today

(* upsert_snapshot reads the date before the INSERT and the COMMIT, which  *)
(* wait for locks and for the disk, over midnight if it comes.             *)
SyncDate(r) ==
  /\ request[r].stage = "sync_date"
  /\ Update(r, [request[r] EXCEPT !.stage = "sync_store", !.day = SnapshotDate])
  /\ UNCHANGED <<today, solved, used, users, snapshots, history>>

(* If the user is gone the foreign key fails the INSERT; the error is      *)
(* caught, but nothing rolls the transaction back.                         *)
Storable(s) == ~s.aborted /\ s.user \in Present

(* Mutant of Upserted: a conflict leaves the row as it is.                 *)
UpsertedOnce(r) ==
  LET s == request[r]
  IN  IF Storable(s) /\ snapshots[s.user][s.day] = NULL
        THEN [snapshots EXCEPT ![s.user][s.day] = s.stats]
        ELSE snapshots

Upserted(r) ==
  LET s == request[r]
  IN  IF Storable(s)
        THEN [snapshots EXCEPT ![s.user][s.day] = s.stats]
        ELSE snapshots

SyncUpsert(r) ==
  LET s == request[r]
  IN  /\ s.stage = "sync_store"
      /\ snapshots' = Upserted(r)
      /\ Update(r, IF Storable(s) THEN Succeeded(s)
                                  ELSE [Failed(s) EXCEPT !.aborted = TRUE])
      /\ UNCHANGED <<today, solved, used, users, history>>

(* The statement fails, or the COMMIT does, and then the row may be stored *)
(* or not.                                                                 *)
SyncUpsertBroken(r) ==
  /\ request[r].stage = "sync_store"
  /\ snapshots' \in {snapshots, Upserted(r)}
  /\ Update(r, Broken(request[r], TRUE))
  /\ UNCHANGED <<today, solved, used, users, history>>

SyncEnd(r) ==
  /\ request[r].stage = "sync_next"
  /\ request[r].queue = {}
  /\ Update(r, Idle)
  /\ UNCHANGED <<today, solved, used, users, snapshots, history>>

-----------------------------------------------------------------------------
(* Steps that begin a request, and steps that continue one. *)
Begin(r) ==
  \/ \E n \in Usernames : CreateStart(r, n)
  \/ \E u \in Ids : DeleteLookup(r, u)
  \/ SyncStart(r)

Continue(r) ==
  \/ CreateFetch(r)
  \/ \E u \in Ids : CreateInsert(r, u)
  \/ DeleteCommit(r)
  \/ \E u \in Ids : SyncNext(r, u)
  \/ \E u \in Ids : SyncNextBroken(r, u)
  \/ SyncFetch(r)
  \/ SyncFetchFails(r)
  \/ SyncDate(r)
  \/ SyncUpsert(r)
  \/ SyncUpsertBroken(r)
  \/ SyncEnd(r)

Next ==
  \/ \E r \in Requests : Begin(r) \/ Continue(r) \/ RequestFails(r)
  \/ Midnight
  \/ \E n \in Usernames : Solve(n)

Spec == Init /\ [][Next]_vars

(* A request that can go on does: the event loop runs every ready task,    *)
(* LeetCode's answers end, or the HTTP client gives up when 20 seconds     *)
(* pass without a byte, and the database comes back with each statement.   *)
FairSpec == Spec /\ \A r \in Requests : WF_vars(Continue(r))

-----------------------------------------------------------------------------
Request == [stage : Stages, username : Usernames \cup {NULL},
            user : Ids \cup {NULL}, stats : Counts \cup {NULL},
            day : Days \cup {NULL},
            loaded : [Ids -> Usernames \cup {NULL}], queue : SUBSET Ids,
            success : SUBSET Ids, errors : SUBSET Ids,
            aborted : BOOLEAN, expired : BOOLEAN, unfetched : SUBSET Ids,
            broken : BOOLEAN,
            start : [Usernames -> Counts \cup {NULL}],
            starts : SUBSET [Usernames -> Counts \cup {NULL}]]

(* The tables and the requests keep their types. *)
TypeOK ==
  /\ today \in Days
  /\ solved \in [Usernames -> Counts \cup {NULL}]
  /\ used \subseteq Ids
  /\ users \in [Ids -> Usernames \cup {NULL}]
  /\ snapshots \in [Ids -> [Days -> Counts \cup {NULL}]]
  /\ request \in [Requests -> Request]
  /\ history \in [alone : Requests \cup {NULL}, overnight : SUBSET Days]

(* Users and snapshots agree, whichever requests overlap: two that create  *)
(* the same user leave one row, and a sync that has fetched the counts of  *)
(* a user who is deleted meanwhile leaves no snapshot behind.              *)
TablesConsistent ==
  /\ \A u, v \in Present : users[u] = users[v] => u = v
  /\ \A u \in Ids, d \in Days : snapshots[u][d] # NULL => u \in Present

(* Every user the sync has read is a success, an error or still to do, and *)
(* only one of these: the two counts it returns add up to all users.       *)
CountsAddUp ==
  \A r \in Requests :
    LET s == request[r]
    IN  s.stage \in Syncing =>
          /\ s.success \cup s.errors \cup s.queue = {u \in Ids : s.loaded[u] # NULL}
          /\ s.success \cap s.errors = {}
          /\ s.queue \cap (s.success \cup s.errors) = {}

(* One user's failure does not fail another: as long as no user is deleted *)
(* while the sync runs and the database answers, its errors are the users  *)
(* whose counts could not be fetched.  (After a deleted user, or a failed  *)
(* statement, all the users that come after may fail.)                     *)
FailuresIsolated ==
  \A r \in Requests :
    LET s == request[r]
    IN  /\ s.stage \in Syncing /\ ~s.broken
        /\ \A u \in Ids : s.loaded[u] # NULL => u \in Present
        => s.errors = s.unfetched

(* Whatever requests overlap, those who read the tables see what the       *)
(* abstract store promises: snapshots are written on their date or, if     *)
(* midnight overtakes the COMMIT, up to MaxLate days after it, for users   *)
(* that exist, and go with their user.                                     *)
Store == INSTANCE SnapshotStore WITH users <- Present

ImplementsStore == Store!Spec

(* A sync leaves every user it counts as a success with a snapshot: a zero *)
(* if LeetCode's answer had no counts, or else the total the user had when *)
(* one of the syncs that overlap it began, or more.  With one sync at a    *)
(* time that is the sync itself; an overlapping one may store its older    *)
(* answer over the newer.                                                  *)
SyncLeavesFresh ==
  \A r \in Requests :
    LET s == request[r]
    IN  s.stage \in Syncing =>
          \A u \in s.success \cap Present :
            \E d \in 0 .. today :
              /\ snapshots[u][d] # NULL
              /\ \/ snapshots[u][d] = 0
                 \/ \E start \in s.starts : start[s.loaded[u]] <= snapshots[u][d]

(* Totals do not drop from one date to a later one, because what users     *)
(* have solved on LeetCode does not, except to the zero of an answer       *)
(* without counts, and except if overlapping syncs were running at every   *)
(* midnight in between: a sync that runs alone may take all night.         *)
TotalsNeverDrop ==
  \A u \in Ids : \A c, d \in Days :
    /\ snapshots[u][c] # NULL /\ snapshots[u][d] \notin {NULL, 0}
    /\ \E e \in Days \ history.overnight : c < e /\ e <= d
    => snapshots[u][c] <= snapshots[u][d]

(* Every sync ends, whatever LeetCode answers and whoever is deleted.      *)
SyncFinishes ==
  \A r \in Requests :
    request[r].stage \in Syncing ~> request[r].stage \notin Syncing
=============================================================================
