-------------------------- MODULE SyncServiceProofs --------------------------
(***************************************************************************)
(* Theorems about the daily sync and the user administration, for every    *)
(* value of the constants: the tables agree, what a sync counts adds up,   *)
(* failures stay their own, and the tables are a SnapshotStore; what is    *)
(* stored is fresh and totals do not drop, as far as overlapping syncs and *)
(* answers without counts allow.                                           *)
(***************************************************************************)
EXTENDS SyncService, TLAPS

USE SyncAssumption

(* What a request knows, P being the users that exist and U the ids that   *)
(* were given out: whom it serves, and how the sync has done so far.  The  *)
(* users that a sync has read were given their ids, so one that has gone   *)
(* does not come back, and as long as none has gone and the database       *)
(* answers the transaction is in order and only LeetCode has failed.       *)
Read(s) == {u \in Ids : s.loaded[u] # NULL}

Progress(s, P, U) ==
  /\ s.success \cup s.errors \cup s.queue = Read(s)
  /\ s.success \cap s.errors = {}
  /\ s.queue \cap (s.success \cup s.errors) = {}
  /\ Read(s) \subseteq U
  /\ Read(s) \subseteq P /\ ~s.broken => ~s.aborted /\ s.errors = s.unfetched

GoodRequest(s, P, U) ==
  /\ s.stage \in {"create_fetch", "create_insert"} => s.username \in Usernames
  /\ s.stage = "delete_commit" => s.user \in Ids
  /\ s.stage \in Syncing => Progress(s, P, U)
  /\ s.stage \in {"sync_fetch", "sync_date", "sync_store"} =>
       s.user \in s.queue /\ s.username \in Usernames
  /\ s.stage \in {"sync_date", "sync_store"} => s.stats \in Counts

RequestsGood ==
  /\ request \in [Requests -> Request]
  /\ \A r \in Requests : GoodRequest(request[r], Present, used)

TablesGood ==
  /\ today \in Days
  /\ solved \in [Usernames -> Counts \cup {NULL}]
  /\ used \subseteq Ids
  /\ users \in [Ids -> Usernames \cup {NULL}]
  /\ snapshots \in [Ids -> [Days -> Counts \cup {NULL}]]
  /\ Present \subseteq used
  /\ TablesConsistent

(* A date that waits to be stored ended at most MaxLate days ago.          *)
DatesGood ==
  /\ history \in [alone : Requests \cup {NULL}, overnight : SUBSET Days]
  /\ \A r \in Requests :
       request[r].stage = "sync_store" =>
         /\ request[r].day \in Days /\ request[r].day <= today
         /\ today <= request[r].day + MaxLate

Inv == TablesGood /\ RequestsGood /\ DatesGood

-----------------------------------------------------------------------------
(* A request stays good while ids are given out, once each, and users go.  *)
LEMMA GoodStays ==
  ASSUME NEW s \in Request, NEW P, NEW U, NEW P2, NEW U2,
         GoodRequest(s, P, U), U \subseteq U2, P2 \cap U \subseteq P
  PROVE  GoodRequest(s, P2, U2)
BY DEF GoodRequest, Progress

(* A step that moves one request keeps the others good.                    *)
LEMMA OthersGood ==
  ASSUME RequestsGood, NEW r \in Requests, NEW new \in Request, Update(r, new),
         GoodRequest(new, Present', used'),
         used \subseteq used', Present' \cap used \subseteq Present
  PROVE  RequestsGood'
<1>1. \A q \in Requests : request'[q] = IF q = r THEN new ELSE request[q]
  BY DEF Update, RequestsGood
<1>2. request' \in [Requests -> Request]
  BY DEF Update, RequestsGood
<1>3. ASSUME NEW q \in Requests PROVE GoodRequest(request'[q], Present', used')
  <2>1. CASE q = r
    BY <1>1, <2>1
  <2>2. CASE q # r
    BY <1>1, <2>2, GoodStays DEF RequestsGood
  <2> QED
    BY <2>1, <2>2
<1> QED
  BY <1>2, <1>3 DEF RequestsGood

(* An idle request is good.                                                *)
LEMMA IdleGood ==
  ASSUME NEW P, NEW U
  PROVE  Idle \in Request /\ GoodRequest(Idle, P, U)
BY DEF Idle, Request, Stages, GoodRequest, Syncing

(* The user a sync is at moves from those still to do to one of the        *)
(* others; failing it for a reason other than LeetCode takes a user that   *)
(* has gone or a database that failed.                                     *)
LEMMA DoneGood ==
  ASSUME NEW s \in Request, NEW P, NEW U, Progress(s, P, U), s.user \in s.queue
  PROVE  /\ Succeeded(s) \in Request /\ GoodRequest(Succeeded(s), P, U)
         /\ Unfetched(s) \in Request /\ GoodRequest(Unfetched(s), P, U)
         /\ \A a \in BOOLEAN :
              Broken(s, a) \in Request /\ GoodRequest(Broken(s, a), P, U)
         /\ ~(Read(s) \subseteq P /\ ~s.broken) =>
              /\ Failed(s) \in Request /\ GoodRequest(Failed(s), P, U)
              /\ [Failed(s) EXCEPT !.aborted = TRUE] \in Request
              /\ GoodRequest([Failed(s) EXCEPT !.aborted = TRUE], P, U)
<1> DEFINE u == s.user
           ok == Succeeded(s)
           ko == Failed(s)
           ab == [Failed(s) EXCEPT !.aborted = TRUE]
           un == Unfetched(s)
<1>1. u \in Ids /\ s.queue \subseteq Ids /\ u \in Read(s)
  BY DEF Request, Progress
<1>2. /\ ok \in Request /\ ko \in Request /\ ab \in Request /\ un \in Request
      /\ ok.stage = "sync_next" /\ ko.stage = "sync_next"
      /\ ab.stage = "sync_next" /\ un.stage = "sync_next"
  <2>1. ok \in Request /\ ok.stage = "sync_next"
    BY <1>1 DEF Succeeded, Request, Stages
  <2>2. ko \in Request /\ ko.stage = "sync_next"
    BY <1>1 DEF Failed, Request, Stages
  <2>3. ab \in Request /\ ab.stage = "sync_next"
    <3> HIDE DEF ko
    <3>1. /\ [ko EXCEPT !.aborted = TRUE] \in Request
          /\ [ko EXCEPT !.aborted = TRUE].stage = "sync_next"
      BY <2>2 DEF Request
    <3> QED
      BY <3>1 DEF ko
  <2>4. un \in Request /\ un.stage = "sync_next"
    <3> HIDE DEF ko
    <3>1. /\ [ko EXCEPT !.unfetched = @ \cup {u}] \in Request
          /\ [ko EXCEPT !.unfetched = @ \cup {u}].stage = "sync_next"
      BY <1>1, <2>2 DEF Request
    <3> QED
      BY <3>1 DEF ko, Unfetched
  <2> QED
    BY <2>1, <2>2, <2>3, <2>4
<1>3. /\ ok.queue = s.queue \ {u} /\ ok.success = s.success \cup {u}
      /\ ok.errors = s.errors /\ ok.loaded = s.loaded
      /\ ok.unfetched = s.unfetched /\ ok.aborted = s.aborted
      /\ ok.broken = s.broken
  BY DEF Succeeded, Request
<1>4. /\ ko.queue = s.queue \ {u} /\ ko.success = s.success
      /\ ko.errors = s.errors \cup {u} /\ ko.loaded = s.loaded
      /\ ko.broken = s.broken
  BY DEF Failed, Request
<1>5. /\ ab.queue = s.queue \ {u} /\ ab.success = s.success
      /\ ab.errors = s.errors \cup {u} /\ ab.loaded = s.loaded
      /\ ab.broken = s.broken
  BY DEF Failed, Request
<1>6. /\ un.queue = s.queue \ {u} /\ un.success = s.success
      /\ un.errors = s.errors \cup {u} /\ un.loaded = s.loaded
      /\ un.unfetched = s.unfetched \cup {u} /\ un.aborted = s.aborted
      /\ un.broken = s.broken
  BY DEF Unfetched, Failed, Request
<1> HIDE DEF ok, ko, ab, un
<1>7. Read(ok) = Read(s) /\ Read(ko) = Read(s) /\ Read(ab) = Read(s) /\ Read(un) = Read(s)
  BY <1>3, <1>4, <1>5, <1>6 DEF Read
<1>8. Progress(ok, P, U)
  BY <1>1, <1>3, <1>7 DEF Progress
<1>9. ~(Read(s) \subseteq P /\ ~s.broken) => Progress(ko, P, U) /\ Progress(ab, P, U)
  BY <1>1, <1>4, <1>5, <1>7 DEF Progress
<1>10. Progress(un, P, U)
  BY <1>1, <1>6, <1>7 DEF Progress
<1>11. /\ GoodRequest(ok, P, U) /\ GoodRequest(un, P, U)
       /\ ~(Read(s) \subseteq P /\ ~s.broken) => GoodRequest(ko, P, U) /\ GoodRequest(ab, P, U)
  BY <1>2, <1>8, <1>9, <1>10 DEF GoodRequest
<1>12. ASSUME NEW a \in BOOLEAN
       PROVE  Broken(s, a) \in Request /\ GoodRequest(Broken(s, a), P, U)
  <2> DEFINE br == [ko EXCEPT !.aborted = @ \/ a, !.broken = TRUE]
  <2>1. /\ br \in Request /\ br.stage = "sync_next" /\ br.broken
        /\ br.queue = ko.queue /\ br.success = ko.success
        /\ br.errors = ko.errors /\ br.loaded = ko.loaded
    <3>1. ko \in Request /\ ko.stage = "sync_next"
      BY <1>2
    <3> HIDE DEF ko
    <3>2. br \in Request
      <4>1. ASSUME NEW f \in Request PROVE [f EXCEPT !.broken = TRUE] \in Request
        BY DEF Request
      <4>2. [ko EXCEPT !.aborted = @ \/ a] \in Request
        <5>1. ko.aborted \/ a \in BOOLEAN
          BY <3>1 DEF Request
        <5>2. ASSUME NEW b \in BOOLEAN PROVE [ko EXCEPT !.aborted = b] \in Request
          BY <3>1 DEF Request
        <5> QED
          BY <5>1, <5>2
      <4>3. br = [[ko EXCEPT !.aborted = @ \/ a] EXCEPT !.broken = TRUE]
        BY <3>1 DEF Request
      <4> QED
        BY <4>1, <4>2, <4>3
    <3>3. /\ br.stage = "sync_next" /\ br.broken
          /\ br.queue = ko.queue /\ br.success = ko.success
          /\ br.errors = ko.errors /\ br.loaded = ko.loaded
      BY <3>1 DEF Request
    <3> QED
      BY <3>2, <3>3
  <2> HIDE DEF br
  <2>2. Read(br) = Read(s)
    BY <1>4, <2>1 DEF Read
  <2>3. Progress(br, P, U)
    BY <1>1, <1>4, <2>1, <2>2 DEF Progress
  <2>4. GoodRequest(br, P, U)
    BY <2>1, <2>3 DEF GoodRequest
  <2> QED
    BY <2>1, <2>4 DEF br, ko, Broken
<1> QED
  BY <1>2, <1>11, <1>12 DEF ok, ko, ab, un

(* A step that moves one request and leaves the tables alone.              *)
LEMMA MoveGood ==
  ASSUME Inv, NEW r \in Requests, NEW new \in Request, Update(r, new),
         GoodRequest(new, Present, used), UNCHANGED <<users, used>>
  PROVE  RequestsGood'
<1>1. Present' = Present
  BY DEF Present
<1> QED
  BY <1>1, OthersGood DEF Inv

-----------------------------------------------------------------------------
(* The steps of create_user and delete_user that leave the tables alone,   *)
(* and the steps that end a request, keep what requests know.              *)
LEMMA CreateGood ==
  ASSUME Inv, NEW r \in Requests,
         \/ \E n \in Usernames : CreateStart(r, n)
         \/ CreateFetch(r)
         \/ \E u \in Ids : DeleteLookup(r, u)
         \/ RequestFails(r) \/ SyncEnd(r)
  PROVE  RequestsGood'
<1>1. request[r] \in Request /\ GoodRequest(request[r], Present, used)
  BY DEF Inv, RequestsGood
<1>2. ASSUME NEW n \in Usernames, CreateStart(r, n) PROVE RequestsGood'
  <2> DEFINE new == [Idle EXCEPT !.stage = "create_fetch", !.username = n]
  <2>1. new \in Request /\ GoodRequest(new, Present, used)
    BY DEF Idle, Request, Stages, GoodRequest, Syncing
  <2> QED
    BY <1>2, <2>1, MoveGood DEF CreateStart
<1>3. CASE CreateFetch(r)
  <2> DEFINE new == [request[r] EXCEPT !.stage = "create_insert"]
  <2>1. new \in Request /\ GoodRequest(new, Present, used)
    BY <1>1, <1>3 DEF CreateFetch, Request, Stages, GoodRequest, Syncing
  <2>2. Update(r, new) \/ Update(r, Idle)
    BY <1>3 DEF CreateFetch
  <2>3. UNCHANGED <<users, used>>
    BY <1>3 DEF CreateFetch
  <2> HIDE DEF new
  <2> QED
    BY <2>1, <2>2, <2>3, IdleGood, MoveGood
<1>4. ASSUME NEW u \in Ids, DeleteLookup(r, u) PROVE RequestsGood'
  <2> DEFINE new == [Idle EXCEPT !.stage = "delete_commit", !.user = u]
  <2>1. new \in Request /\ GoodRequest(new, Present, used)
    BY DEF Idle, Request, Stages, GoodRequest, Syncing
  <2> QED
    BY <1>4, <2>1, MoveGood DEF DeleteLookup
<1>5. CASE RequestFails(r) \/ SyncEnd(r)
  BY <1>5, IdleGood, MoveGood DEF RequestFails, SyncEnd
<1> QED
  BY <1>2, <1>3, <1>4, <1>5

(* So do the steps of the sync.                                            *)
LEMMA SyncGood ==
  ASSUME Inv, NEW r \in Requests,
         \/ SyncStart(r)
         \/ \E u \in Ids : SyncNext(r, u) \/ SyncNextBroken(r, u)
         \/ SyncFetch(r) \/ SyncFetchFails(r) \/ SyncDate(r)
         \/ SyncUpsert(r) \/ SyncUpsertBroken(r)
  PROVE  RequestsGood'
<1> DEFINE s == request[r]
<1>1. /\ s \in Request /\ GoodRequest(s, Present, used)
      /\ solved \in [Usernames -> Counts \cup {NULL}]
      /\ users \in [Ids -> Usernames \cup {NULL}]
      /\ Present \subseteq used
  BY DEF Inv, RequestsGood, TablesGood
<1>2. UNCHANGED <<users, used>>
  BY DEF SyncStart, SyncNext, SyncNextBroken, SyncFetch, SyncFetchFails,
         SyncDate, SyncUpsert, SyncUpsertBroken
<1>3. CASE SyncStart(r)
  <2> DEFINE new == [Idle EXCEPT !.stage = "sync_next", !.queue = Present,
                                 !.loaded = users, !.start = solved,
                                 !.starts = {solved} \cup {request[q].start : q \in Running}]
  <2>0. {solved} \cup {request[q].start : q \in Running}
          \subseteq [Usernames -> Counts \cup {NULL}]
    BY <1>1 DEF Running, Inv, RequestsGood, Request
  <2>1. new \in Request
    BY <1>1, <2>0 DEF Idle, Request, Stages, Present
  <2>2. Progress(new, Present, used)
    BY <1>1 DEF Idle, Progress, Read, Present
  <2>3. GoodRequest(new, Present, used)
    BY <2>2 DEF Idle, GoodRequest
  <2> QED
    BY <1>2, <1>3, <2>1, <2>3, MoveGood DEF SyncStart
<1>4. ASSUME NEW u \in Ids, SyncNext(r, u) PROVE RequestsGood'
  <2> DEFINE at == [s EXCEPT !.user = u, !.stats = NULL]
             new == [at EXCEPT !.stage = "sync_fetch", !.username = at.loaded[u]]
  <2>1. u \in s.queue /\ s.stage = "sync_next" /\ Progress(s, Present, used)
    BY <1>1, <1>4 DEF SyncNext, GoodRequest, Syncing
  <2>2. at \in Request /\ Progress(at, Present, used) /\ at.user \in at.queue
    BY <1>1, <2>1 DEF Request, Progress, Read
  <2>3. s.loaded[u] \in Usernames
    BY <1>1, <2>1 DEF Request, Progress, Read
  <2>4. new \in Request /\ GoodRequest(new, Present, used)
    BY <1>1, <2>1, <2>3 DEF Request, Stages, GoodRequest, Progress, Read, Syncing
  <2>5. CASE at.expired /\ (at.aborted \/ u \notin Present)
    <3>1. ~(Read(at) \subseteq Present /\ ~at.broken)
      BY <1>1, <2>1, <2>2, <2>5 DEF Request, Progress, Read
    <3>2. Failed(at) \in Request /\ GoodRequest(Failed(at), Present, used)
      BY <2>2, <3>1, DoneGood
    <3>3. Update(r, Failed(at))
      BY <1>4, <2>5 DEF SyncNext
    <3> QED
      BY <1>2, <3>2, <3>3, MoveGood
  <2>6. CASE ~(at.expired /\ (at.aborted \/ u \notin Present))
    <3>1. Update(r, new)
      BY <1>4, <2>6 DEF SyncNext
    <3> HIDE DEF new
    <3> QED
      BY <1>2, <2>4, <3>1, MoveGood
  <2> QED
    BY <2>5, <2>6
<1>5. CASE SyncFetch(r)
  <2>0. PICK c \in {0, solved[s.username]} :
          Update(r, [s EXCEPT !.stage = "sync_date", !.stats = c])
    BY <1>5 DEF SyncFetch
  <2> DEFINE new == [s EXCEPT !.stage = "sync_date", !.stats = c]
  <2>1. c \in Counts
    BY <1>1, <1>5 DEF SyncFetch, GoodRequest, Counts
  <2>2. new \in Request
    BY <1>1, <2>1 DEF Request, Stages
  <2>3. Progress(s, Present, used) /\ s.user \in s.queue /\ s.username \in Usernames
    BY <1>1, <1>5 DEF SyncFetch, GoodRequest, Syncing
  <2>4. GoodRequest(new, Present, used)
    BY <1>1, <2>1, <2>3 DEF GoodRequest, Progress, Read, Request
  <2> QED
    BY <1>2, <2>0, <2>2, <2>4, MoveGood
<1>6. CASE SyncFetchFails(r)
  <2>1. Progress(s, Present, used) /\ s.user \in s.queue
    BY <1>1, <1>6 DEF SyncFetchFails, GoodRequest, Syncing
  <2>2. Unfetched(s) \in Request /\ GoodRequest(Unfetched(s), Present, used)
    BY <1>1, <2>1, DoneGood
  <2> QED
    BY <1>2, <1>6, <2>2, MoveGood DEF SyncFetchFails
<1>7. CASE SyncUpsert(r)
  <2>1. Progress(s, Present, used) /\ s.user \in s.queue
    BY <1>1, <1>7 DEF SyncUpsert, GoodRequest, Syncing
  <2>2. CASE Storable(s)
    <3>1. Succeeded(s) \in Request /\ GoodRequest(Succeeded(s), Present, used)
      BY <1>1, <2>1, DoneGood
    <3>2. Update(r, Succeeded(s))
      BY <1>7, <2>2 DEF SyncUpsert
    <3> QED
      BY <1>2, <3>1, <3>2, MoveGood
  <2>3. CASE ~Storable(s)
    <3>1. ~(Read(s) \subseteq Present /\ ~s.broken)
      BY <1>1, <2>1, <2>3 DEF Progress, Read, Storable
    <3>2. /\ [Failed(s) EXCEPT !.aborted = TRUE] \in Request
          /\ GoodRequest([Failed(s) EXCEPT !.aborted = TRUE], Present, used)
      BY <1>1, <2>1, <3>1, DoneGood
    <3>3. Update(r, [Failed(s) EXCEPT !.aborted = TRUE])
      BY <1>7, <2>3 DEF SyncUpsert
    <3> QED
      BY <1>2, <3>2, <3>3, MoveGood
  <2> QED
    BY <2>2, <2>3
<1>8. ASSUME NEW u \in Ids, SyncNextBroken(r, u) PROVE RequestsGood'
  <2> DEFINE at == [s EXCEPT !.user = u, !.stats = NULL]
  <2>1. u \in s.queue /\ s.stage = "sync_next" /\ Progress(s, Present, used)
    BY <1>1, <1>8 DEF SyncNextBroken, GoodRequest, Syncing
  <2>2. at \in Request /\ Progress(at, Present, used) /\ at.user \in at.queue
    BY <1>1, <2>1 DEF Request, Progress, Read
  <2>3. PICK a \in BOOLEAN : Update(r, Broken(at, a))
    BY <1>8 DEF SyncNextBroken
  <2>4. Broken(at, a) \in Request /\ GoodRequest(Broken(at, a), Present, used)
    BY <2>2, DoneGood
  <2> QED
    BY <1>2, <2>3, <2>4, MoveGood
<1>9. CASE SyncUpsertBroken(r)
  <2>1. Progress(s, Present, used) /\ s.user \in s.queue
    BY <1>1, <1>9 DEF SyncUpsertBroken, GoodRequest, Syncing
  <2>2. Broken(s, TRUE) \in Request /\ GoodRequest(Broken(s, TRUE), Present, used)
    BY <1>1, <2>1, DoneGood
  <2> QED
    BY <1>2, <1>9, <2>2, MoveGood DEF SyncUpsertBroken
<1>10. CASE SyncDate(r)
  <2> DEFINE new == [s EXCEPT !.stage = "sync_store", !.day = SnapshotDate]
  <2>1. SnapshotDate \in Days
    BY DEF SnapshotDate, Inv, TablesGood
  <2>2. new \in Request
    BY <1>1, <2>1 DEF Request, Stages
  <2>3. /\ Progress(s, Present, used) /\ s.user \in s.queue
        /\ s.username \in Usernames /\ s.stats \in Counts
    BY <1>1, <1>10 DEF SyncDate, GoodRequest, Syncing
  <2>4. GoodRequest(new, Present, used)
    BY <1>1, <2>3 DEF GoodRequest, Progress, Read, Request
  <2> QED
    BY <1>2, <1>10, <2>2, <2>4, MoveGood DEF SyncDate
<1> QED
  BY <1>3, <1>4, <1>5, <1>6, <1>7, <1>8, <1>9, <1>10

(* And so do the two steps that change who exists: the ids handed out are  *)
(* new, and the users that go do not come back.                            *)
LEMMA UsersGood ==
  ASSUME Inv, NEW r \in Requests,
         (\E u \in Ids : CreateInsert(r, u)) \/ DeleteCommit(r)
  PROVE  RequestsGood'
<1>1. GoodRequest(request[r], Present, used) /\ request[r] \in Request
  BY DEF Inv, RequestsGood
<1>2. ASSUME NEW u \in Ids, CreateInsert(r, u) PROVE RequestsGood'
  <2>1. used \subseteq used'
    BY <1>2 DEF CreateInsert
  <2>2. Present' \cap used \subseteq Present
    BY <1>2 DEF CreateInsert, Present, Inv, TablesGood
  <2>. QED
    BY <1>2, <2>1, <2>2, IdleGood, OthersGood DEF CreateInsert, Inv
<1>3. CASE DeleteCommit(r)
  <2>1. used' = used
    BY <1>3 DEF DeleteCommit
  <2>2. Present' \subseteq Present
    BY <1>3 DEF DeleteCommit, Present, Inv, TablesGood
  <2>. QED
    BY <1>3, <2>1, <2>2, IdleGood, OthersGood DEF DeleteCommit, Inv
<1>. QED
  BY <1>2, <1>3

-----------------------------------------------------------------------------
(* Every step keeps the tables: a name is stored if no row has it, a       *)
(* snapshot if its user has a row, and a row goes with its snapshots.      *)
LEMMA TablesStay ==
  ASSUME Inv, [Next]_vars
  PROVE  TablesGood'
<1> USE DEF Inv, TablesGood, TablesConsistent, Present
<1>1. CASE UNCHANGED <<today, solved, used, users, snapshots>>
  BY <1>1 DEF Days
<1>2. CASE Midnight
  BY <1>2 DEF Midnight, Days
<1>3. ASSUME NEW n \in Usernames, Solve(n) PROVE TablesGood'
  BY <1>3 DEF Solve, Counts
<1>4. ASSUME NEW r \in Requests, NEW u \in Ids, CreateInsert(r, u) PROVE TablesGood'
  <2>1. request[r].username \in Usernames
    BY <1>4 DEF CreateInsert, RequestsGood, GoodRequest
  <2>2. CASE Taken(request[r].username)
    BY <1>4, <2>2 DEF CreateInsert, Days
  <2>3. CASE ~Taken(request[r].username)
    <3> DEFINE n == request[r].username
    <3>1. /\ used' = used \cup {u} /\ users' = [users EXCEPT ![u] = n]
          /\ UNCHANGED <<today, solved, snapshots>>
      BY <1>4, <2>3 DEF CreateInsert
    <3>2. n # NULL /\ \A v \in Ids : users[v] # n
      BY <2>1, <2>3, SyncAssumption DEF Taken
    <3>3. \A v \in Ids : users'[v] = IF v = u THEN n ELSE users[v]
      BY <3>1
    <3>4. Present' = Present \cup {u}
      BY <3>2, <3>3
    <3>5. \A v, x \in Present' : users'[v] = users'[x] => v = x
      BY <3>2, <3>3
    <3>6. \A v \in Ids, d \in Days' : snapshots'[v][d] # NULL => v \in Present'
      <4>1. Days' = Days
        BY <3>1 DEF Days
      <4>. QED
        BY <3>1, <3>4, <4>1
    <3>7. TablesConsistent'
      BY <3>5, <3>6
    <3>. QED
      BY <2>1, <3>1, <3>4, <3>7 DEF Days
  <2>. QED
    BY <2>2, <2>3
<1>5. ASSUME NEW r \in Requests, DeleteCommit(r) PROVE TablesGood'
  <2>1. request[r].user \in Ids
    BY <1>5 DEF DeleteCommit, RequestsGood, GoodRequest
  <2>. QED
    BY <1>5, <2>1 DEF DeleteCommit, Cascade, Days
<1>6. ASSUME NEW r \in Requests, SyncUpsert(r) \/ SyncUpsertBroken(r)
      PROVE  TablesGood'
  <2>1. request[r].user \in Ids /\ request[r].stats \in Counts
    BY <1>6 DEF SyncUpsert, SyncUpsertBroken, RequestsGood, GoodRequest, Progress,
                Request, Syncing
  <2>2. CASE snapshots' = snapshots
    BY <1>6, <2>2 DEF SyncUpsert, SyncUpsertBroken, Days
  <2>3. CASE snapshots' = Upserted(r)
    <3>1. UNCHANGED <<today, solved, used, users>>
      BY <1>6 DEF SyncUpsert, SyncUpsertBroken
    <3> DEFINE v == request[r].user
               c == request[r].stats
               dd == request[r].day
    <3>2. \/ snapshots' = snapshots
          \/ v \in Present /\ snapshots' = [snapshots EXCEPT ![v][dd] = c]
      BY <2>3 DEF Upserted, Storable
    <3> HIDE DEF v, c, dd
    <3>3. snapshots' \in [Ids -> [Days -> Counts \cup {NULL}]]
      <4>1. v \in Ids /\ c \in Counts
        BY <2>1 DEF v, c
      <4>2. ASSUME NEW f \in [Ids -> [Days -> Counts \cup {NULL}]],
                   NEW d \in Days, NEW u \in Ids, NEW n \in Counts
            PROVE  [f EXCEPT ![u][d] = n] \in [Ids -> [Days -> Counts \cup {NULL}]]
        OBVIOUS
      <4>3. snapshots \in [Ids -> [Days -> Counts \cup {NULL}]] /\ dd \in Days
        BY <1>6 DEF DatesGood, SyncUpsert, SyncUpsertBroken, dd
      <4> HIDE DEF Inv
      <4>. QED
        BY <3>2, <4>1, <4>2, <4>3
    <3>4. ASSUME NEW u \in Ids, NEW d \in Days, snapshots'[u][d] # NULL
          PROVE  u \in Present
      <4>1. CASE u = v /\ snapshots' # snapshots
        BY <3>2, <4>1
      <4>2. CASE ~(u = v /\ snapshots' # snapshots)
        <5>1. snapshots'[u] = snapshots[u]
          BY <3>2, <4>2
        <5>. QED
          BY <3>4, <5>1
      <4>. QED
        BY <4>1, <4>2
    <3>. QED
      BY <3>1, <3>3, <3>4
  <2>. QED
    BY <1>6, <2>2, <2>3 DEF SyncUpsert, SyncUpsertBroken
<1>7. ASSUME NEW r \in Requests,
             \/ Begin(r) \/ CreateFetch(r)
             \/ \E u \in Ids : SyncNext(r, u) \/ SyncNextBroken(r, u)
             \/ SyncFetch(r) \/ SyncFetchFails(r) \/ SyncDate(r)
             \/ SyncEnd(r) \/ RequestFails(r)
      PROVE  UNCHANGED <<today, solved, used, users, snapshots>>
  BY <1>7 DEF Begin, CreateStart, DeleteLookup, SyncStart, CreateFetch, SyncNext,
              SyncNextBroken, SyncFetch, SyncFetchFails, SyncDate, SyncEnd,
              RequestFails
<1>. QED
  BY <1>1, <1>2, <1>3, <1>4, <1>5, <1>6, <1>7 DEF Next, Continue, vars

(* Midnight does not come when a date would wait too long; the date that   *)
(* begins to wait is today's.                                              *)
LEMMA DatesStay ==
  ASSUME Inv, [Next]_vars
  PROVE  DatesGood'
<1> DEFINE H == [alone : Requests \cup {NULL}, overnight : SUBSET Days]
<1>1. today \in Nat /\ MaxLate \in Nat /\ MaxDay \in Nat /\ Days' = Days
  BY DEF Inv, TablesGood, Days
<1>2. history' \in H
  <2>1. history \in H
    BY DEF Inv, DatesGood
  <2>2. CASE Midnight
    <3>1. today + 1 \in Days
      BY <1>1, <2>2 DEF Midnight, Days
    <3>. QED
      BY <2>1, <2>2, <3>1 DEF Midnight
  <2>3. ASSUME NEW r \in Requests, SyncStart(r) PROVE history' \in H
    BY <2>1, <2>3 DEF SyncStart
  <2>4. CASE UNCHANGED history
    BY <2>1, <2>4
  <2>5. Midnight \/ (\E r \in Requests : SyncStart(r)) \/ UNCHANGED history
    BY DEF Next, Begin, Continue, vars, CreateStart, DeleteLookup, CreateFetch,
           CreateInsert, DeleteCommit, SyncNext, SyncNextBroken, SyncFetch,
           SyncFetchFails, SyncDate, SyncUpsert, SyncUpsertBroken, SyncEnd,
           RequestFails, Solve
  <2>. QED
    BY <2>2, <2>3, <2>4, <2>5
<1>3. ASSUME NEW r \in Requests, Begin(r) \/ Continue(r) \/ RequestFails(r)
      PROVE  /\ today' = today
             /\ \A q \in Requests \ {r} : request'[q] = request[q]
             /\ request'[r].stage = "sync_store" => request'[r].day = today
  <2> DEFINE s == request[r]
  <2>1. request \in [Requests -> Request] /\ s \in Request
    BY DEF Inv, RequestsGood
  <2>2. PICK new : Update(r, new)
    BY <1>3 DEF Begin, Continue, CreateStart, DeleteLookup, SyncStart, CreateFetch,
           CreateInsert, DeleteCommit, SyncNext, SyncNextBroken, SyncFetch,
           SyncFetchFails, SyncDate, SyncUpsert, SyncUpsertBroken, SyncEnd, RequestFails
  <2>3. request'[r] = new /\ \A q \in Requests \ {r} : request'[q] = request[q]
    BY <2>1, <2>2 DEF Update
  <2>4. today' = today
    BY <1>3 DEF Begin, Continue, CreateStart, DeleteLookup, SyncStart, CreateFetch,
           CreateInsert, DeleteCommit, SyncNext, SyncNextBroken, SyncFetch,
           SyncFetchFails, SyncDate, SyncUpsert, SyncUpsertBroken, SyncEnd, RequestFails
  <2>5. CASE SyncDate(r)
    <3>1. request'[r] = [s EXCEPT !.stage = "sync_store", !.day = today]
      BY <2>1, <2>5 DEF SyncDate, SnapshotDate, Update
    <3>2. ASSUME NEW f \in Request
          PROVE  [f EXCEPT !.stage = "sync_store", !.day = today].day = today
      BY DEF Request
    <3> HIDE DEF s
    <3>. QED
      BY <2>1, <2>3, <2>4, <3>1, <3>2
  <2>6. CASE \/ Begin(r) \/ CreateFetch(r) \/ RequestFails(r) \/ SyncEnd(r) \/ SyncFetch(r)
             \/ \E u \in Ids : CreateInsert(r, u)
             \/ DeleteCommit(r)
    <3>1. CASE \/ RequestFails(r) \/ SyncEnd(r) \/ DeleteCommit(r)
               \/ \E u \in Ids : CreateInsert(r, u)
      BY <2>1, <3>1 DEF CreateInsert, DeleteCommit, SyncEnd, RequestFails, Update, Idle
    <3>2. CASE Begin(r)
      <4>1. ASSUME NEW n \in Usernames, CreateStart(r, n)
            PROVE  request'[r].stage # "sync_store"
        BY <2>1, <4>1 DEF CreateStart, Update, Idle
      <4>2. ASSUME NEW u \in Ids, DeleteLookup(r, u)
            PROVE  request'[r].stage # "sync_store"
        BY <2>1, <4>2 DEF DeleteLookup, Update, Idle
      <4>3. CASE SyncStart(r)
        BY <2>1, <4>3 DEF SyncStart, Update, Idle
      <4>. QED
        BY <3>2, <4>1, <4>2, <4>3, <2>3, <2>4 DEF Begin
    <3>3. CASE CreateFetch(r) \/ SyncFetch(r)
      <4>1. ASSUME NEW c
            PROVE  /\ [s EXCEPT !.stage = "create_insert"].stage = "create_insert"
                   /\ [s EXCEPT !.stage = "sync_date", !.stats = c].stage = "sync_date"
        BY <2>1 DEF Request
      <4>. QED
        <5>1. \/ request'[r] = Idle
              \/ request'[r] = [s EXCEPT !.stage = "create_insert"]
              \/ \E c \in {0, solved[s.username]} :
                   request'[r] = [s EXCEPT !.stage = "sync_date", !.stats = c]
          BY <2>1, <3>3 DEF CreateFetch, SyncFetch, Update
        <5>2. Idle.stage = "idle"
          BY DEF Idle
        <5> HIDE DEF s
        <5>3. request'[r].stage # "sync_store"
          BY <4>1, <5>1, <5>2
        <5>. QED
          BY <2>3, <2>4, <5>3
    <3>. QED
      BY <2>3, <2>4, <2>6, <3>1, <3>2, <3>3
  <2>7. CASE \/ \E u \in Ids : SyncNext(r, u) \/ SyncNextBroken(r, u)
             \/ SyncFetchFails(r) \/ SyncUpsert(r) \/ SyncUpsertBroken(r)
    <3>1. ASSUME NEW t \in Request, NEW a \in BOOLEAN
          PROVE  /\ Succeeded(t).stage = "sync_next" /\ Failed(t).stage = "sync_next"
                 /\ Unfetched(t).stage = "sync_next" /\ Broken(t, a).stage = "sync_next"
                 /\ [Failed(t) EXCEPT !.aborted = TRUE].stage = "sync_next"
      BY DEF Succeeded, Failed, Unfetched, Broken, Request
    <3>2. ASSUME NEW u \in Ids, SyncNext(r, u) \/ SyncNextBroken(r, u)
          PROVE  request'[r].stage # "sync_store"
      <4> DEFINE at == [s EXCEPT !.user = u, !.stats = NULL]
      <4>1. at \in Request
        BY <2>1 DEF Request
      <4>2. [at EXCEPT !.stage = "sync_fetch", !.username = at.loaded[u]].stage = "sync_fetch"
        BY <4>1 DEF Request
      <4>3. \/ request'[r] = Failed(at)
            \/ request'[r] = [at EXCEPT !.stage = "sync_fetch", !.username = at.loaded[u]]
            \/ \E a \in BOOLEAN : request'[r] = Broken(at, a)
        BY <2>1, <3>2 DEF SyncNext, SyncNextBroken, Update
      <4> HIDE DEF at
      <4>. QED
        BY <3>1, <4>1, <4>2, <4>3
    <3>3. CASE SyncFetchFails(r) \/ SyncUpsert(r) \/ SyncUpsertBroken(r)
      <4>1. \/ request'[r] = Succeeded(s) \/ request'[r] = Unfetched(s)
            \/ request'[r] = Broken(s, TRUE)
            \/ request'[r] = [Failed(s) EXCEPT !.aborted = TRUE]
        BY <2>1, <3>3 DEF SyncFetchFails, SyncUpsert, SyncUpsertBroken, Update
      <4>2. request'[r].stage = "sync_next"
        <5> HIDE DEF s
        <5>. QED
          BY <2>1, <3>1, <4>1
      <4>. QED
        BY <2>3, <2>4, <4>2
    <3>. QED
      BY <2>3, <2>4, <2>7, <3>2, <3>3
  <2>. QED
    BY <1>3, <2>3, <2>4, <2>5, <2>6, <2>7 DEF Continue
<1>4. CASE Midnight
  BY <1>1, <1>2, <1>4 DEF Inv, DatesGood, Midnight, Days
<1>5. CASE UNCHANGED <<today, request>>
  BY <1>1, <1>2, <1>5 DEF Inv, DatesGood
<1>6. ASSUME NEW r \in Requests, Begin(r) \/ Continue(r) \/ RequestFails(r)
      PROVE  DatesGood'
  <2>1. /\ today' = today
        /\ \A q \in Requests \ {r} : request'[q] = request[q]
        /\ request'[r].stage = "sync_store" => request'[r].day = today
    BY <1>3, <1>6
  <2>. QED
    BY <1>1, <1>2, <2>1 DEF Inv, TablesGood, DatesGood
<1>. QED
  BY <1>4, <1>5, <1>6 DEF Next, vars, Solve

(* The tables and what requests know of them are kept together, by every   *)
(* step ...                                                                *)
LEMMA InvBegins == Init => Inv
<1> SUFFICES ASSUME Init PROVE Inv
  OBVIOUS
<1>1. TablesGood
  BY DEF Init, TablesGood, TablesConsistent, Present, Days, Counts
<1>2. RequestsGood
  BY IdleGood DEF Init, RequestsGood
<1>3. DatesGood
  BY DEF Init, DatesGood, Idle
<1>. QED
  BY <1>1, <1>2, <1>3 DEF Inv

(* All parts of the invariant survive every step.                          *)
LEMMA InvStays == Inv /\ [Next]_vars => Inv'
<1> SUFFICES ASSUME Inv, [Next]_vars PROVE Inv'
  OBVIOUS
<1>1. TablesGood' /\ DatesGood'
  BY TablesStay, DatesStay
<1>2. CASE UNCHANGED <<used, users, request>>
  <2>1. Present' = Present
    BY <1>2 DEF Present
  <2>2. RequestsGood'
    BY <1>2, <2>1 DEF Inv, RequestsGood
  <2>. QED
    BY <1>1, <2>2 DEF Inv
<1>3. ASSUME NEW r \in Requests, Begin(r) \/ Continue(r) \/ RequestFails(r)
      PROVE  RequestsGood'
  BY <1>3, CreateGood, SyncGood, UsersGood DEF Begin, Continue
<1>. QED
  BY <1>1, <1>2, <1>3 DEF Inv, Next, vars, Midnight, Solve

(* ... and so always.                                                      *)
THEOREM SyncInductive == Spec => []Inv
<1>. QED
  BY InvBegins, InvStays, PTL DEF Spec

(* The tables and the requests keep their types: the sync reads and writes *)
(* only users, days and counts that exist.                                 *)
THEOREM SyncTypes == Spec => []TypeOK
<1>1. Inv => TypeOK
  BY DEF Inv, TablesGood, RequestsGood, DatesGood, TypeOK
<1>. QED
  BY <1>1, SyncInductive, PTL

(* Whichever requests overlap, usernames are unique and no snapshot is     *)
(* left without its user.                                                  *)
THEOREM TablesAgree == Spec => []TablesConsistent
<1>1. Inv => TablesConsistent
  BY DEF Inv, TablesGood
<1>. QED
  BY <1>1, SyncInductive, PTL

(* A running sync has counted every user it read exactly once or has it    *)
(* still to do, whatever is created or deleted meanwhile.                  *)
THEOREM SyncCountsAddUp == Spec => []CountsAddUp
<1>1. Inv => CountsAddUp
  BY DEF Inv, RequestsGood, GoodRequest, Progress, Read, CountsAddUp
<1>. QED
  BY <1>1, SyncInductive, PTL

(* As long as none of its users is deleted and the database answers, a     *)
(* sync fails only those that LeetCode did not answer for: neither other   *)
(* syncs nor earlier failures of its own reach the others.                 *)
THEOREM SyncIsolatesFailures == Spec => []FailuresIsolated
<1>1. Inv => FailuresIsolated
  BY DEF Inv, RequestsGood, GoodRequest, Progress, Read, FailuresIsolated
<1>. QED
  BY <1>1, SyncInductive, PTL

-----------------------------------------------------------------------------
(* Every step of the requests is a step of the abstract store or leaves it *)
(* alone: a user deleted a second time has no snapshots to lose.           *)
LEMMA StepStores ==
  ASSUME Inv, [Next]_vars
  PROVE  [Store!Next]_(Store!vars)
<1> USE DEF Store!vars
<1>1. CASE UNCHANGED <<today, used, users, snapshots>>
  BY <1>1 DEF Present
<1>2. CASE Midnight
  BY <1>2 DEF Midnight, Store!Next, Store!Midnight, Present
<1>3. ASSUME NEW r \in Requests, NEW u \in Ids, CreateInsert(r, u)
      PROVE  [Store!Next]_(Store!vars)
  <2>1. CASE Taken(request[r].username)
    BY <1>3, <2>1 DEF CreateInsert, Present
  <2>2. CASE ~Taken(request[r].username)
    <3>1. request[r].username \in Usernames
      BY <1>3 DEF CreateInsert, Inv, RequestsGood, GoodRequest
    <3>2. Present' = Present \cup {u}
      BY <1>3, <2>2, <3>1 DEF CreateInsert, Present, Inv, TablesGood
    <3>3. Store!Create(u)
      BY <1>3, <2>2, <3>2 DEF CreateInsert, Store!Create
    <3>. QED
      BY <3>3 DEF Store!Next, Store!Write
  <2>. QED
    BY <2>1, <2>2
<1>4. ASSUME NEW r \in Requests, DeleteCommit(r)
      PROVE  [Store!Next]_(Store!vars)
  <2> DEFINE u == request[r].user
  <2>1. u \in Ids
    BY <1>4 DEF DeleteCommit, Inv, RequestsGood, GoodRequest
  <2>2. Present' = Present \ {u}
    BY <1>4, <2>1 DEF DeleteCommit, Present, Inv, TablesGood
  <2>3. CASE u \in Present
    <3>1. Store!Delete(u)
      BY <1>4, <2>2, <2>3 DEF DeleteCommit, Cascade, Store!Delete, Store!Days, Days
    <3>. QED
      BY <2>1, <3>1 DEF Store!Next, Store!Write
  <2>4. CASE u \notin Present
    <3>1. \A d \in Days : snapshots[u][d] = NULL
      BY <2>1, <2>4 DEF Inv, TablesGood, TablesConsistent
    <3>2. snapshots[u] = [d \in Days |-> NULL]
      BY <2>1, <3>1 DEF Inv, TablesGood
    <3>3. snapshots' = snapshots
      BY <1>4, <2>1, <3>2 DEF DeleteCommit, Cascade, Inv, TablesGood
    <3>. QED
      BY <1>4, <2>2, <2>4, <3>3 DEF DeleteCommit
  <2>. QED
    BY <2>3, <2>4
<1>5. ASSUME NEW r \in Requests, SyncUpsert(r) \/ SyncUpsertBroken(r)
      PROVE  [Store!Next]_(Store!vars)
  <2> DEFINE s == request[r]
  <2>1. s.user \in Ids /\ s.stats \in Counts
    BY <1>5 DEF SyncUpsert, SyncUpsertBroken, Inv, RequestsGood, GoodRequest,
                Progress, Request, Syncing
  <2>2. UNCHANGED <<today, used, users>> /\ Present' = Present
    BY <1>5 DEF SyncUpsert, SyncUpsertBroken, Present
  <2>3. CASE snapshots' = snapshots
    BY <2>2, <2>3
  <2>4. CASE snapshots' = Upserted(r) /\ Storable(s)
    <3>1. s.day \in Store!Days /\ s.day <= today /\ today <= s.day + MaxLate
      BY <1>5 DEF SyncUpsert, SyncUpsertBroken, Inv, DatesGood, Store!Days, Days
    <3>2. Store!Upsert(s.user, s.day, s.stats)
      BY <2>2, <2>4, <3>1 DEF Upserted, Storable, Store!Upsert
    <3>. QED
      BY <2>1, <3>1, <3>2 DEF Store!Next, Store!Write
  <2>5. CASE snapshots' = Upserted(r) /\ ~Storable(s)
    BY <2>2, <2>5 DEF Upserted
  <2>. QED
    BY <1>5, <2>3, <2>4, <2>5 DEF SyncUpsert, SyncUpsertBroken
<1>6. ASSUME NEW r \in Requests,
             \/ Begin(r) \/ CreateFetch(r)
             \/ \E u \in Ids : SyncNext(r, u) \/ SyncNextBroken(r, u)
             \/ SyncFetch(r) \/ SyncFetchFails(r) \/ SyncDate(r)
             \/ SyncEnd(r) \/ RequestFails(r)
      PROVE  UNCHANGED <<today, used, users, snapshots>>
  BY <1>6 DEF Begin, CreateStart, DeleteLookup, SyncStart, CreateFetch, SyncNext,
              SyncNextBroken, SyncFetch, SyncFetchFails, SyncDate, SyncEnd,
              RequestFails
<1>. QED
  BY <1>1, <1>2, <1>3, <1>4, <1>5, <1>6 DEF Next, Continue, vars, Solve

(* The sync and the user administration implement the abstract store: what *)
(* is proved of the store holds of the tables.                             *)
THEOREM SyncStores == Spec => ImplementsStore
<1>1. Init => Store!Init
  BY DEF Init, Store!Init, Present, Store!Days, Days
<1>2. Inv /\ [Next]_vars => [Store!Next]_(Store!vars)
  BY StepStores
<1>. QED
  BY <1>1, <1>2, SyncInductive, PTL DEF Spec, ImplementsStore, Store!Spec

(* So the snapshots of dates that ended more than MaxLate days ago never   *)
(* change while their user exists, however long a sync waits for LeetCode  *)
(* between its read and its write.                                         *)
THEOREM PastIsFrozen == Spec => Store!HistoryFrozen
<1> DEFINE Frozen == \A u \in Ids, d \in Store!Days :
             d + MaxLate < today /\ u \in Present' =>
               snapshots'[u][d] = snapshots[u][d]
<1>1. Inv /\ [Next]_vars => [Frozen]_(Store!vars)
  <2> SUFFICES ASSUME Inv, Store!Next, NEW v \in Ids, NEW d \in Days,
                      d + MaxLate < today, v \in Present'
               PROVE  snapshots'[v][d] = snapshots[v][d]
    BY StepStores DEF Store!Days, Days
  <2>1. /\ snapshots \in [Ids -> [Days -> Counts \cup {NULL}]]
        /\ today \in Nat /\ d \in Nat
    BY DEF Inv, TablesGood, Days
  <2>2. CASE Store!Midnight
    BY <2>2 DEF Store!Midnight
  <2>3. ASSUME NEW u \in Ids, Store!Create(u) PROVE snapshots'[v][d] = snapshots[v][d]
    BY <2>3 DEF Store!Create
  <2>4. ASSUME NEW u \in Ids, Store!Delete(u) PROVE snapshots'[v][d] = snapshots[v][d]
    BY <2>1, <2>4 DEF Store!Delete
  <2>5. ASSUME NEW u \in Ids, NEW e \in Store!Days, NEW c \in Counts, Store!Upsert(u, e, c)
        PROVE  snapshots'[v][d] = snapshots[v][d]
    <3>1. snapshots' = [snapshots EXCEPT ![u][e] = c] /\ d # e
      BY <2>1, <2>5 DEF Store!Upsert, Store!Days
    <3>. QED
      BY <2>1, <3>1
  <2>. QED
    BY <2>2, <2>3, <2>4, <2>5 DEF Store!Next, Store!Write
<1>2. Spec => [][Frozen]_(Store!vars)
  BY <1>1, SyncInductive, PTL DEF Spec
<1>. QED
  BY <1>2 DEF Store!HistoryFrozen

-----------------------------------------------------------------------------
(* The numbers.  A user still has the name a sync has read; nobody has     *)
(* solved less than when a sync began, and of two syncs that run each      *)
(* knows a start that is no later than the other's.                        *)
Grown(a, b) == (a = NULL <=> b = NULL) /\ (a # NULL => a <= b)

Named ==
  \A r \in Running, u \in Ids :
    request[r].loaded[u] # NULL /\ users[u] # NULL =>
      users[u] = request[r].loaded[u]

Begun ==
  \A r \in Running :
    /\ \A n \in Usernames : Grown(request[r].start[n], solved[n])
    /\ \A q \in Running : \E f \in request[r].starts :
         \A n \in Usernames : Grown(f[n], request[q].start[n])

(* Successes are stored, and an answer that waits to be stored has no      *)
(* counts or is between the start of its sync and now.                     *)
Fresh(s, u, c) ==
  c = 0 \/ \E f \in s.starts : f[s.loaded[u]] # NULL /\ f[s.loaded[u]] <= c

Stored ==
  \A r \in Running : \A u \in request[r].success :
    users[u] # NULL =>
      \E d \in 0 .. today : /\ snapshots[u][d] # NULL
                            /\ Fresh(request[r], u, snapshots[u][d])

Answer(s) ==
  /\ s.stage \in {"sync_fetch", "sync_date", "sync_store"} =>
       s.username = s.loaded[s.user]
  /\ s.stage \in {"sync_date", "sync_store"} =>
       /\ s.start[s.username] # NULL /\ solved[s.username] # NULL
       /\ s.stats = 0 \/ s.start[s.username] <= s.stats
       /\ s.stats <= solved[s.username]

Answered == \A r \in Requests : Answer(request[r])

(* No snapshot is of a later day, or of more than its user has solved.     *)
Bounded ==
  \A u \in Ids, d \in Days :
    snapshots[u][d] # NULL =>
      /\ d <= today /\ solved[users[u]] # NULL
      /\ snapshots[u][d] <= solved[users[u]]

(* The sync that runs alone is the only one that runs.  It has begun after *)
(* all that is stored of the users it has still to do; and so has every    *)
(* sync after what is dated before a night without overlapping syncs.      *)
Alone == history.alone \in Running => Running = {history.alone}

Calm == {e \in Days \ history.overnight : e <= today}

Overtaken ==
  \A r \in Running : \A u \in request[r].queue : \A c \in Days :
    /\ snapshots[u][c] # NULL
    /\ r = history.alone \/ \E e \in Calm : c < e
    => snapshots[u][c] <= request[r].start[request[r].loaded[u]]

(* An answer that is to be stored under a date before such a night is no   *)
(* more than the others began with, and than what is dated after it.       *)
Late(s, e) == s.stage = "sync_store" /\ s.day < e

Waiting ==
  \A r \in Requests : \A e \in Calm :
    Late(request[r], e) =>
      /\ \A q \in Running \ {r} :
           request[r].stats <= request[q].start[request[r].username]
      /\ \A d \in Days :
           e <= d /\ snapshots[request[r].user][d] \notin {NULL, 0} =>
             request[r].stats <= snapshots[request[r].user][d]

Numbers ==
  /\ Named /\ Begun /\ Stored /\ Answered /\ Bounded
  /\ Alone /\ Overtaken /\ Waiting /\ TotalsNeverDrop

FreshInv == Inv /\ Numbers

(* What has grown twice has grown, and so has what was no more.            *)
LEMMA GrownOrder ==
  ASSUME NEW a \in Counts \cup {NULL}, NEW b \in Counts \cup {NULL},
         NEW c \in Counts \cup {NULL}
  PROVE  /\ Grown(a, a)
         /\ Grown(a, b) /\ Grown(b, c) => Grown(a, c)
         /\ a # NULL /\ b # NULL /\ a <= b /\ Grown(b, c) => c # NULL /\ a <= c
<1>1. Counts \subseteq Nat /\ NULL \notin Counts
  BY DEF Counts
<1>2. \A i, j, k \in Nat : i <= i /\ (i <= j /\ j <= k => i <= k)
  OBVIOUS
<1>3. /\ a # NULL => a \in Nat
      /\ b # NULL => b \in Nat
      /\ c # NULL => c \in Nat
  BY <1>1
<1>. QED
  BY <1>2, <1>3 DEF Grown

(* What the first invariant says of a running sync and of the tables.      *)
LEMMA RunningGood ==
  ASSUME Inv, NEW r \in Running
  PROVE  /\ r \in Requests /\ request[r] \in Request
         /\ Progress(request[r], Present, used)
         /\ \A u \in Ids : request[r].loaded[u] # NULL => u \in used
         /\ request[r].success \subseteq used /\ request[r].queue \subseteq used
         /\ \A u \in request[r].success \cup request[r].queue :
              request[r].loaded[u] \in Usernames
         /\ request[r].start \in [Usernames -> Counts \cup {NULL}]
         /\ request[r].starts \subseteq [Usernames -> Counts \cup {NULL}]
<1>1. r \in Requests /\ request[r] \in Request /\ request[r].stage \in Syncing
  BY DEF Running, Inv, RequestsGood
<1>2. Progress(request[r], Present, used)
  BY <1>1 DEF Inv, RequestsGood, GoodRequest
<1>. QED
  BY <1>1, <1>2 DEF Progress, Read, Request

(* What a step that moves one request may do, apart from starting a sync   *)
(* and storing an answer: users come, or go with their snapshots, ...      *)
Kept ==
  /\ \A u \in Ids, d \in Days :
       snapshots'[u][d] # NULL =>
         snapshots'[u][d] = snapshots[u][d] /\ users'[u] = users[u]
  /\ \A u \in used :
       users'[u] # NULL => users'[u] = users[u] /\ snapshots'[u] = snapshots[u]

(* ... and a sync goes on.                                                 *)
Follows(s, new) ==
  /\ new.stage \in Syncing =>
       /\ s.stage \in Syncing /\ new.queue \subseteq s.queue
       /\ new.loaded = s.loaded /\ new.success = s.success
       /\ new.start = s.start /\ new.starts = s.starts
  /\ new.stage = "sync_store" => new.day = today
  /\ Answer(new)

LEMMA MoveHonest ==
  ASSUME FreshInv, Inv', NEW r \in Requests, NEW new \in Request,
         Update(r, new), Follows(request[r], new), Kept,
         UNCHANGED <<today, solved, history>>
  PROVE  Numbers'
<1>1. request'[r] = new /\ \A q \in Requests \ {r} : request'[q] = request[q]
  BY DEF Update, FreshInv, Inv, RequestsGood
<1>2. /\ Running' \subseteq Running
      /\ \A q \in Running' :
           /\ request'[q].loaded = request[q].loaded
           /\ request'[q].success = request[q].success
           /\ request'[q].start = request[q].start
           /\ request'[q].starts = request[q].starts
           /\ request'[q].queue \subseteq request[q].queue
  <2>1. ASSUME NEW q \in Running' PROVE q = r \/ (q # r /\ q \in Running)
    BY <1>1, <2>1 DEF Running
  <2>2. r \in Running' => r \in Running
    BY <1>1 DEF Running, Follows
  <2>3. r \in Running' =>
           /\ request'[r].loaded = request[r].loaded
           /\ request'[r].success = request[r].success
           /\ request'[r].start = request[r].start
           /\ request'[r].starts = request[r].starts
           /\ request'[r].queue \subseteq request[r].queue
    BY <1>1 DEF Running, Follows
  <2>4. Running' \subseteq Requests
    BY DEF Running
  <2>. QED
    BY <1>1, <2>1, <2>2, <2>3, <2>4
<1>3. Calm' = Calm /\ Days' = Days
  BY DEF Calm, Days
<1>4. \A q \in Running :
        /\ \A u \in Ids : request[q].loaded[u] # NULL => u \in used
        /\ request[q].success \subseteq used /\ request[q].queue \subseteq used
        /\ request[q].queue \subseteq Ids
  BY RunningGood DEF FreshInv, Request
<1>5. Named'
  BY <1>2, <1>4 DEF FreshInv, Numbers, Named, Kept
<1>6. Begun'
  BY <1>2 DEF FreshInv, Numbers, Begun
<1>7. Stored'
  <2>1. ASSUME NEW q \in Running', NEW u \in request'[q].success, users'[u] # NULL
        PROVE  \E d \in 0 .. today' : /\ snapshots'[u][d] # NULL
                                      /\ Fresh(request'[q], u, snapshots'[u][d])
    <3>1. u \in used /\ q \in Running /\ u \in request[q].success
      BY <1>2, <1>4, <2>1
    <3>2. users[u] # NULL /\ snapshots'[u] = snapshots[u]
      BY <2>1, <3>1 DEF Kept
    <3>3. PICK d \in 0 .. today : /\ snapshots[u][d] # NULL
                                  /\ Fresh(request[q], u, snapshots[u][d])
      BY <3>1, <3>2 DEF FreshInv, Numbers, Stored
    <3>4. Fresh(request'[q], u, snapshots[u][d])
      BY <1>2, <3>3 DEF Fresh
    <3>. QED
      BY <3>2, <3>3, <3>4
  <2>. QED
    BY <2>1 DEF Stored
<1>8. Answered'
  <2>1. ASSUME NEW q \in Requests PROVE Answer(request[q])'
    <3>1. CASE q = r
      BY <1>1, <3>1 DEF Follows, Answer
    <3>2. CASE q # r
      BY <1>1, <3>2 DEF FreshInv, Numbers, Answered, Answer
    <3>. QED
      BY <3>1, <3>2
  <2>. QED
    BY <2>1 DEF Answered
<1>9. Bounded'
  BY <1>3 DEF FreshInv, Numbers, Bounded, Kept
<1>10. Alone'
  BY <1>2 DEF FreshInv, Numbers, Alone
<1>11. Overtaken'
  <2>1. ASSUME NEW q \in Running', NEW u \in request'[q].queue, NEW c \in Days,
               snapshots'[u][c] # NULL, q = history.alone \/ \E e \in Calm : c < e
        PROVE  snapshots'[u][c] <= request'[q].start[request'[q].loaded[u]]
    <3>1. q \in Running /\ u \in request[q].queue /\ u \in Ids
      BY <1>2, <1>4, <2>1
    <3>2. snapshots'[u][c] = snapshots[u][c]
      BY <2>1, <3>1 DEF Kept
    <3>3. snapshots[u][c] <= request[q].start[request[q].loaded[u]]
      BY <2>1, <3>1, <3>2 DEF FreshInv, Numbers, Overtaken
    <3>. QED
      BY <1>2, <3>2, <3>3
  <2>. QED
    BY <1>3, <2>1 DEF Overtaken
<1>12. Waiting'
  <2>1. ASSUME NEW q \in Requests, NEW e \in Calm, Late(request'[q], e)
        PROVE  q # r /\ request'[q] = request[q] /\ Late(request[q], e)
    <3>1. e <= today /\ today \in Nat /\ e \in Nat
      BY DEF Calm, Days, FreshInv, Inv, TablesGood
    <3>2. q # r
      BY <1>1, <2>1, <3>1 DEF Follows, Late
    <3>. QED
      BY <1>1, <2>1, <3>2
  <2>2. ASSUME NEW q \in Requests, request[q].stage = "sync_store"
        PROVE  request[q].user \in Ids
    BY <2>2, RunningGood DEF FreshInv, Inv, RequestsGood, GoodRequest, Running, Syncing, Request
  <2>3. ASSUME NEW q \in Requests, NEW e \in Calm, Late(request'[q], e)
        PROVE  /\ \A p \in Running' \ {q} :
                    request'[q].stats <= request'[p].start[request'[q].username]
               /\ \A d \in Days :
                    e <= d /\ snapshots'[request'[q].user][d] \notin {NULL, 0} =>
                      request'[q].stats <= snapshots'[request'[q].user][d]
    <3>1. request'[q] = request[q] /\ Late(request[q], e)
      BY <2>1, <2>3
    <3>2. /\ \A p \in Running \ {q} :
               request[q].stats <= request[p].start[request[q].username]
          /\ \A d \in Days :
               e <= d /\ snapshots[request[q].user][d] \notin {NULL, 0} =>
                 request[q].stats <= snapshots[request[q].user][d]
      BY <3>1 DEF FreshInv, Numbers, Waiting
    <3>3. request[q].user \in Ids
      BY <2>2, <3>1 DEF Late
    <3>4. ASSUME NEW d \in Days, e <= d, snapshots'[request[q].user][d] \notin {NULL, 0}
          PROVE  request[q].stats <= snapshots'[request[q].user][d]
      BY <3>2, <3>3, <3>4 DEF Kept
    <3>. QED
      BY <1>2, <3>1, <3>2, <3>4
  <2>. QED
    BY <1>3, <2>3 DEF Waiting
<1>13. TotalsNeverDrop'
  <2>1. ASSUME NEW u \in Ids, NEW c \in Days, NEW d \in Days,
               snapshots'[u][c] # NULL, snapshots'[u][d] \notin {NULL, 0},
               \E e \in Days \ history.overnight : c < e /\ e <= d
        PROVE  snapshots'[u][c] <= snapshots'[u][d]
    BY <2>1 DEF Kept, FreshInv, Numbers, TotalsNeverDrop
  <2>. QED
    BY <1>3, <2>1 DEF TotalsNeverDrop
<1>. QED
  BY <1>5, <1>6, <1>7, <1>8, <1>9, <1>10, <1>11, <1>12, <1>13 DEF Numbers

(* Days that pass: a night that only one sync was running, alone, is calm, *)
(* and nobody has a date to store that the new day is after.               *)
LEMMA MidnightHonest ==
  ASSUME FreshInv, Inv', Midnight
  PROVE  Numbers'
<1>1. /\ UNCHANGED <<solved, used, users, snapshots, request>>
      /\ today \in Nat /\ today' = today + 1 /\ Days' = Days /\ Running' = Running
      /\ history'.alone = history.alone
      /\ history.overnight \subseteq history'.overnight
      /\ today + 1 \notin history'.overnight => Running \subseteq {history.alone}
  BY DEF Midnight, Running, Days, FreshInv, Inv, TablesGood, DatesGood
<1>2. \A e \in Calm' : e \in Calm \/ (e = today + 1 /\ Running \subseteq {history.alone})
  BY <1>1 DEF Calm, Days
<1>3. Named' /\ Begun' /\ Answered' /\ Alone'
  BY <1>1 DEF FreshInv, Numbers, Named, Begun, Answered, Answer, Alone
<1>4. Stored'
  <2>1. ASSUME NEW r \in Running, NEW u \in request[r].success, users[u] # NULL
        PROVE  \E d \in 0 .. today + 1 : /\ snapshots[u][d] # NULL
                                         /\ Fresh(request[r], u, snapshots[u][d])
    BY <1>1, <2>1 DEF FreshInv, Numbers, Stored
  <2>. QED
    BY <1>1, <2>1 DEF Stored, Fresh
<1>5. Bounded'
  BY <1>1 DEF FreshInv, Numbers, Bounded, Days
<1>6. Overtaken'
  BY <1>1, <1>2 DEF FreshInv, Numbers, Overtaken
<1>7. Waiting'
  <2>1. ASSUME NEW r \in Requests, NEW e \in Calm', Late(request[r], e)
        PROVE  /\ \A q \in Running \ {r} :
                    request[r].stats <= request[q].start[request[r].username]
               /\ \A d \in Days :
                    e <= d /\ snapshots[request[r].user][d] \notin {NULL, 0} =>
                      request[r].stats <= snapshots[request[r].user][d]
    <3>1. r \in Running
      BY <2>1 DEF Late, Running, Syncing
    <3>2. CASE e \in Calm
      BY <2>1, <3>2 DEF FreshInv, Numbers, Waiting
    <3>3. CASE e = today + 1 /\ Running \subseteq {history.alone}
      <4>1. Running \ {r} = {}
        BY <3>1, <3>3
      <4>2. request[r].user \in Ids
        BY <3>1, RunningGood, <2>1 DEF FreshInv, Inv, RequestsGood, GoodRequest, Late, Request
      <4>3. \A d \in Days : e <= d => snapshots[request[r].user][d] = NULL
        BY <1>1, <3>3, <4>2 DEF FreshInv, Numbers, Bounded, Days
      <4>. QED
        BY <4>1, <4>3
    <3>. QED
      BY <1>2, <3>2, <3>3
  <2>. QED
    BY <1>1, <2>1 DEF Waiting
<1>8. TotalsNeverDrop'
  BY <1>1 DEF FreshInv, Numbers, TotalsNeverDrop
<1>. QED
  BY <1>3, <1>4, <1>5, <1>6, <1>7, <1>8 DEF Numbers

(* Users who solve problems only get further from what is stored.          *)
LEMMA SolveHonest ==
  ASSUME FreshInv, Inv', NEW m \in Usernames, Solve(m)
  PROVE  Numbers'
<1>1. /\ UNCHANGED <<today, used, users, snapshots, request, history>>
      /\ Days' = Days /\ Running' = Running /\ Calm' = Calm
  BY DEF Solve, Days, Running, Calm
<1>2. /\ solved \in [Usernames -> Counts \cup {NULL}]
      /\ solved' \in [Usernames -> Counts \cup {NULL}]
      /\ \A n \in Usernames : Grown(solved[n], solved'[n])
  <2>1. /\ solved \in [Usernames -> Counts \cup {NULL}]
        /\ solved' \in [Usernames -> Counts \cup {NULL}]
    BY <1>1 DEF FreshInv, Inv, TablesGood, Counts
  <2>2. ASSUME NEW n \in Usernames PROVE Grown(solved[n], solved'[n])
    <3>1. CASE n = m
      BY <2>1, <3>1 DEF Solve, Grown, Counts
    <3>2. CASE n # m
      BY <2>1, <3>2, GrownOrder DEF Solve
    <3>. QED
      BY <3>1, <3>2
  <2>. QED
    BY <2>1, <2>2
<1>0. ASSUME NEW n \in Usernames, NEW c \in Counts, solved[n] # NULL, c <= solved[n]
      PROVE  solved'[n] # NULL /\ c <= solved'[n]
  <2>1. c # NULL
    BY DEF Counts
  <2>2. c \in Counts \cup {NULL} /\ solved[n] \in Counts \cup {NULL}
        /\ solved'[n] \in Counts \cup {NULL} /\ Grown(solved[n], solved'[n])
    BY <1>2
  <2>. QED
    BY <1>0, <2>1, <2>2, GrownOrder
<1>3. Named' /\ Stored' /\ Alone' /\ Overtaken' /\ Waiting' /\ TotalsNeverDrop'
  BY <1>1 DEF FreshInv, Numbers, Named, Stored, Fresh, Alone, Overtaken, Waiting,
              Late, TotalsNeverDrop
<1>4. Begun'
  <2>1. ASSUME NEW r \in Running, NEW n \in Usernames
        PROVE  Grown(request[r].start[n], solved'[n])
    <3>1. request[r].start[n] \in Counts \cup {NULL}
      BY RunningGood DEF FreshInv
    <3>2. Grown(request[r].start[n], solved[n])
      BY DEF FreshInv, Numbers, Begun
    <3>. QED
      BY <1>2, <3>1, <3>2, GrownOrder
  <2>. QED
    BY <1>1, <2>1 DEF FreshInv, Numbers, Begun
<1>5. Answered'
  <2>1. ASSUME NEW r \in Requests PROVE Answer(request[r])'
    <3> DEFINE s == request[r]
    <3>1. Answer(s)
      BY DEF FreshInv, Numbers, Answered
    <3>2. s.stage \in {"sync_date", "sync_store"} =>
            s.username \in Usernames /\ s.stats \in Counts
      BY DEF FreshInv, Inv, RequestsGood, GoodRequest
    <3>3. s.stage \in {"sync_date", "sync_store"} =>
            solved'[s.username] # NULL /\ s.stats <= solved'[s.username]
      BY <1>0, <3>1, <3>2 DEF Answer
    <3>. QED
      BY <1>1, <3>1, <3>3 DEF Answer
  <2>. QED
    BY <2>1 DEF Answered
<1>6. Bounded'
  <2>1. ASSUME NEW u \in Ids, NEW d \in Days, snapshots[u][d] # NULL
        PROVE  /\ d <= today /\ solved'[users[u]] # NULL
               /\ snapshots[u][d] <= solved'[users[u]]
    <3>1. users[u] \in Usernames /\ snapshots[u][d] \in Counts
      BY <2>1 DEF FreshInv, Inv, TablesGood, TablesConsistent, Present
    <3>2. solved[users[u]] # NULL /\ snapshots[u][d] <= solved[users[u]] /\ d <= today
      BY <2>1 DEF FreshInv, Numbers, Bounded
    <3>. QED
      BY <1>0, <3>1, <3>2
  <2>. QED
    BY <1>1, <2>1 DEF Bounded
<1>. QED
  BY <1>3, <1>4, <1>5, <1>6 DEF Numbers

(* A sync that begins has begun after all that is stored, and knows when   *)
(* the others did.                                                         *)
LEMMA StartHonest ==
  ASSUME FreshInv, Inv', NEW r \in Requests, SyncStart(r)
  PROVE  Numbers'
<1> DEFINE all == {solved} \cup {request[q].start : q \in Running}
           new == [Idle EXCEPT !.stage = "sync_next", !.queue = Present,
                               !.loaded = users, !.start = solved, !.starts = all]
<1>1. /\ UNCHANGED <<today, solved, used, users, snapshots>> /\ Days' = Days
      /\ request[r].stage = "idle" /\ request'[r] = new
      /\ \A q \in Requests \ {r} : request'[q] = request[q]
      /\ history'.alone = IF Running = {} THEN r ELSE NULL
      /\ history'.overnight = history.overnight
  BY DEF SyncStart, Days, Update, FreshInv, Inv, RequestsGood, DatesGood
<1>2. /\ new.stage = "sync_next" /\ new.queue = Present /\ new.loaded = users
      /\ new.start = solved /\ new.starts = all /\ new.success = {}
  BY DEF Idle
<1> HIDE DEF new
<1>3. /\ Running' = Running \cup {r} /\ r \notin Running /\ Calm' = Calm
      /\ \A q \in Running : q # r /\ request'[q] = request[q]
  BY <1>1, <1>2 DEF Running, Syncing, Calm
<1>4. solved \in [Usernames -> Counts \cup {NULL}]
  BY DEF FreshInv, Inv, TablesGood
<1>5. \A n \in Usernames : Grown(solved[n], solved[n])
  BY <1>4, GrownOrder
<1>6. Named'
  BY <1>1, <1>2, <1>3 DEF FreshInv, Numbers, Named
<1>7. Begun'
  <2>1. ASSUME NEW q \in Running', NEW n \in Usernames
        PROVE  Grown(request'[q].start[n], solved[n])
    BY <1>1, <1>2, <1>3, <1>5 DEF FreshInv, Numbers, Begun
  <2>2. ASSUME NEW p \in Running'
        PROVE  \E f \in new.starts : \A n \in Usernames : Grown(f[n], request'[p].start[n])
    <3>1. CASE p = r
      <4>1. solved \in new.starts
        BY <1>2
      <4>. QED
        BY <1>1, <1>2, <1>5, <3>1, <4>1
    <3>2. CASE p \in Running
      <4>1. request[p].start \in new.starts /\ request'[p] = request[p]
        BY <1>2, <1>3, <3>2
      <4>2. \A n \in Usernames : Grown(request[p].start[n], request[p].start[n])
        BY <3>2, RunningGood, GrownOrder DEF FreshInv
      <4>. QED
        BY <4>1, <4>2
    <3>. QED
      BY <1>3, <3>1, <3>2
  <2>3. ASSUME NEW q \in Running, NEW p \in Running'
        PROVE  \E f \in request[q].starts :
                 \A n \in Usernames : Grown(f[n], request'[p].start[n])
    <3>1. CASE p = r
      <4>1. PICK f \in request[q].starts :
              \A n \in Usernames : Grown(f[n], request[q].start[n])
        BY DEF FreshInv, Numbers, Begun
      <4>2. /\ f \in [Usernames -> Counts \cup {NULL}]
            /\ request[q].start \in [Usernames -> Counts \cup {NULL}]
        BY RunningGood DEF FreshInv
      <4>3. \A n \in Usernames : Grown(request[q].start[n], solved[n])
        BY DEF FreshInv, Numbers, Begun
      <4>4. \A n \in Usernames : Grown(f[n], solved[n])
        BY <1>4, <4>1, <4>2, <4>3, GrownOrder
      <4>. QED
        BY <1>1, <1>2, <3>1, <4>4
    <3>2. CASE p \in Running
      BY <1>3, <3>2 DEF FreshInv, Numbers, Begun
    <3>. QED
      BY <1>3, <3>1, <3>2
  <2>. QED
    BY <1>1, <1>3, <2>1, <2>2, <2>3 DEF Begun
<1>8. Stored'
  <2>1. ASSUME NEW q \in Running', NEW u \in request'[q].success
        PROVE  q \in Running /\ request'[q] = request[q] /\ u \in request[q].success
    BY <1>1, <1>2, <1>3, <2>1
  <2>. QED
    BY <1>1, <2>1 DEF FreshInv, Numbers, Stored, Fresh
<1>9. Answered'
  <2>1. ASSUME NEW q \in Requests PROVE Answer(request[q])'
    <3>1. CASE q = r
      BY <1>1, <1>2, <3>1 DEF Answer
    <3>2. CASE q # r
      BY <1>1, <3>2 DEF FreshInv, Numbers, Answered, Answer
    <3>. QED
      BY <3>1, <3>2
  <2>. QED
    BY <2>1 DEF Answered
<1>10. Bounded' /\ TotalsNeverDrop'
  BY <1>1 DEF FreshInv, Numbers, Bounded, TotalsNeverDrop
<1>11. Alone'
  BY <1>1, <1>3 DEF Alone, Running
<1>12. Overtaken'
  <2>1. ASSUME NEW u \in Present, NEW c \in Days, snapshots[u][c] # NULL
        PROVE  snapshots[u][c] <= solved[users[u]]
    BY <2>1 DEF FreshInv, Numbers, Bounded, Present
  <2>2. ASSUME NEW q \in Running, NEW u \in request[q].queue, NEW c \in Days,
               snapshots[u][c] # NULL, q = history'.alone \/ \E e \in Calm : c < e
        PROVE  snapshots[u][c] <= request[q].start[request[q].loaded[u]]
    <3>1. q # history'.alone
      BY <1>1, <1>3 DEF Running
    <3>. QED
      BY <2>2, <3>1 DEF FreshInv, Numbers, Overtaken
  <2>. QED
    BY <1>1, <1>2, <1>3, <2>1, <2>2 DEF Overtaken
<1>13. Waiting'
  <2>1. ASSUME NEW q \in Requests, NEW e \in Calm, Late(request'[q], e)
        PROVE  /\ q # r /\ q \in Running /\ request'[q] = request[q]
               /\ request[q].stats <= solved[request[q].username]
    <3>1. q # r
      BY <1>1, <1>2, <2>1 DEF Late
    <3>. QED
      BY <1>1, <2>1, <3>1 DEF Late, Running, Syncing, FreshInv, Numbers, Answered, Answer
  <2>2. ASSUME NEW q \in Requests, NEW e \in Calm, Late(request'[q], e)
        PROVE  /\ \A p \in Running' \ {q} :
                    request'[q].stats <= request'[p].start[request'[q].username]
               /\ \A d \in Days :
                    e <= d /\ snapshots[request'[q].user][d] \notin {NULL, 0} =>
                      request'[q].stats <= snapshots[request'[q].user][d]
    <3>1. Late(request[q], e)
      BY <2>1, <2>2
    <3>2. /\ \A p \in Running \ {q} :
               request[q].stats <= request[p].start[request[q].username]
          /\ \A d \in Days :
               e <= d /\ snapshots[request[q].user][d] \notin {NULL, 0} =>
                 request[q].stats <= snapshots[request[q].user][d]
      BY <3>1 DEF FreshInv, Numbers, Waiting
    <3>. QED
      BY <1>1, <1>2, <1>3, <2>1, <2>2, <3>2
  <2>. QED
    BY <1>1, <1>3, <2>2 DEF Waiting
<1>. QED
  BY <1>6, <1>7, <1>8, <1>9, <1>10, <1>11, <1>12, <1>13 DEF Numbers

(* A user that is done with for lack of an answer or a row leaves what the *)
(* sync has begun with, read and stored.                                   *)
LEMMA FailedFollows ==
  ASSUME NEW s \in Request, NEW a \in BOOLEAN, s.stage \in Syncing
  PROVE  \A t \in {Failed(s), Unfetched(s), Broken(s, a), [Failed(s) EXCEPT !.aborted = TRUE]} :
           /\ t \in Request => Follows(s, t)
           /\ t.stage = "sync_next" /\ t.queue = s.queue \ {s.user}
           /\ t.loaded = s.loaded /\ t.success = s.success
           /\ t.start = s.start /\ t.starts = s.starts
<1> DEFINE ko == Failed(s)
           Same(t) == /\ t.stage = "sync_next" /\ t.queue = s.queue \ {s.user}
                      /\ t.loaded = s.loaded /\ t.success = s.success
                      /\ t.start = s.start /\ t.starts = s.starts
<1>1. Same(ko) /\ DOMAIN ko = DOMAIN s
  BY DEF Failed, Request
<1>2. "aborted" \in DOMAIN s /\ "broken" \in DOMAIN s /\ "unfetched" \in DOMAIN s
      /\ "stage" \in DOMAIN s /\ "success" \in DOMAIN s /\ "queue" \in DOMAIN s
      /\ "loaded" \in DOMAIN s /\ "start" \in DOMAIN s /\ "starts" \in DOMAIN s
  BY DEF Request
<1> HIDE DEF ko
<1>3. \A t \in {ko, [ko EXCEPT !.unfetched = @ \cup {s.user}],
                [ko EXCEPT !.aborted = @ \/ a, !.broken = TRUE],
                [ko EXCEPT !.aborted = TRUE]} : Same(t)
  BY <1>1, <1>2
<1>4. \A t : Same(t) => Follows(s, t)
  BY DEF Follows, Answer, Syncing
<1> HIDE DEF Same
<1>5. \A t \in {Failed(s), Unfetched(s), Broken(s, a), [Failed(s) EXCEPT !.aborted = TRUE]} : Same(t)
  BY <1>3 DEF ko, Unfetched, Broken
<1>. QED
  BY <1>4, <1>5 DEF Same

(* The steps of the other handlers, and the last of the sync.              *)
LEMMA OthersHonest ==
  ASSUME FreshInv, Inv', NEW r \in Requests,
         \/ \E n \in Usernames : CreateStart(r, n)
         \/ \E u \in Ids : DeleteLookup(r, u) \/ CreateInsert(r, u)
         \/ CreateFetch(r) \/ DeleteCommit(r) \/ RequestFails(r) \/ SyncEnd(r)
  PROVE  Numbers'
<1>1. /\ TablesGood /\ RequestsGood /\ request[r] \in Request
      /\ GoodRequest(request[r], Present, used)
  BY DEF FreshInv, Inv, RequestsGood
<1>2. PICK new \in Request : Update(r, new) /\ new.stage \in Stages \ Syncing
  <2>1. Idle \in Request /\ Idle.stage \in Stages \ Syncing
    BY IdleGood DEF Idle, Stages, Syncing
  <2>2. ASSUME NEW n \in Usernames, CreateStart(r, n)
        PROVE  \E new \in Request : Update(r, new) /\ new.stage \in Stages \ Syncing
    <3> DEFINE new == [Idle EXCEPT !.stage = "create_fetch", !.username = n]
    <3>1. new \in Request /\ new.stage \in Stages \ Syncing
      BY DEF Idle, Request, Stages, Syncing
    <3>. QED
      BY <2>2, <3>1 DEF CreateStart
  <2>3. ASSUME NEW u \in Ids, DeleteLookup(r, u)
        PROVE  \E new \in Request : Update(r, new) /\ new.stage \in Stages \ Syncing
    <3> DEFINE new == [Idle EXCEPT !.stage = "delete_commit", !.user = u]
    <3>1. new \in Request /\ new.stage \in Stages \ Syncing
      BY DEF Idle, Request, Stages, Syncing
    <3>. QED
      BY <2>3, <3>1 DEF DeleteLookup
  <2>4. CASE CreateFetch(r)
    <3> DEFINE new == [request[r] EXCEPT !.stage = "create_insert"]
    <3>1. new \in Request /\ new.stage \in Stages \ Syncing
      BY <1>1 DEF Request, Stages, Syncing
    <3>2. Update(r, new) \/ Update(r, Idle)
      BY <2>4 DEF CreateFetch
    <3> HIDE DEF new
    <3>. QED
      BY <2>1, <3>1, <3>2
  <2>5. CASE DeleteCommit(r) \/ RequestFails(r) \/ SyncEnd(r) \/ \E u \in Ids : CreateInsert(r, u)
    BY <2>1, <2>5 DEF DeleteCommit, RequestFails, SyncEnd, CreateInsert
  <2>. QED
    BY <2>2, <2>3, <2>4, <2>5
<1>3. Follows(request[r], new)
  BY <1>2 DEF Follows, Answer, Syncing
<1>4. UNCHANGED <<today, solved, history>>
  BY DEF CreateStart, DeleteLookup, CreateInsert, CreateFetch, DeleteCommit,
         RequestFails, SyncEnd
<1>5. Kept
  <2>1. CASE UNCHANGED <<users, snapshots>>
    BY <2>1 DEF Kept
  <2>2. ASSUME NEW v \in Ids, CreateInsert(r, v) PROVE Kept
    BY <1>1, <2>2 DEF CreateInsert, TablesGood, TablesConsistent, Present, Kept
  <2>3. CASE DeleteCommit(r)
    <3>1. request[r].user \in Ids
      BY <1>1, <2>3 DEF DeleteCommit, GoodRequest
    <3>. QED
      BY <1>1, <2>3, <3>1 DEF DeleteCommit, Cascade, TablesGood, TablesConsistent, Present, Kept
  <2>. QED
    BY <2>1, <2>2, <2>3 DEF CreateStart, DeleteLookup, CreateFetch, RequestFails, SyncEnd
<1>. QED
  BY <1>2, <1>3, <1>4, <1>5, MoveHonest

(* The steps of the sync's loop up to the store.                           *)
LEMMA LoopHonest ==
  ASSUME FreshInv, Inv', NEW r \in Requests,
         \/ \E u \in Ids : SyncNext(r, u) \/ SyncNextBroken(r, u)
         \/ SyncFetch(r) \/ SyncFetchFails(r) \/ SyncDate(r)
  PROVE  Numbers'
<1> DEFINE s == request[r]
<1>1. /\ s \in Request /\ s.stage \in Syncing /\ r \in Running
      /\ GoodRequest(s, Present, used) /\ Progress(s, Present, used) /\ Answer(s)
  BY DEF FreshInv, Inv, RequestsGood, GoodRequest, Syncing, Running, Numbers, Answered,
         SyncNext, SyncNextBroken, SyncFetch, SyncFetchFails, SyncDate
<1>2. UNCHANGED <<today, solved, history>> /\ Kept
  BY DEF SyncNext, SyncNextBroken, SyncFetch, SyncFetchFails, SyncDate, Kept
<1>3. ASSUME NEW new, Update(r, new)
      PROVE  new \in Request
  BY <1>3 DEF Update, FreshInv, Inv, RequestsGood
<1>4. ASSUME NEW u \in Ids, SyncNext(r, u) \/ SyncNextBroken(r, u)
      PROVE  Numbers'
  <2> DEFINE at == [s EXCEPT !.user = u, !.stats = NULL]
             new == [at EXCEPT !.stage = "sync_fetch", !.username = at.loaded[u]]
  <2>1. /\ at \in Request /\ at.stage \in Syncing /\ at.queue = s.queue
        /\ at.loaded = s.loaded /\ at.success = s.success
        /\ at.start = s.start /\ at.starts = s.starts
    BY <1>1 DEF Request
  <2>2. /\ new.stage = "sync_fetch" /\ new.queue = s.queue
        /\ new.loaded = s.loaded /\ new.success = s.success
        /\ new.start = s.start /\ new.starts = s.starts
        /\ new.user = u /\ new.username = s.loaded[u]
    BY <1>1 DEF Request
  <2> HIDE DEF at, new
  <2>3. Follows(s, new)
    BY <1>1, <2>2 DEF Follows, Answer
  <2>4. ASSUME NEW t, Follows(at, t) PROVE Follows(s, t)
    BY <1>1, <2>1, <2>4 DEF Follows
  <2>5. \/ Update(r, Failed(at)) \/ Update(r, new)
        \/ \E a \in BOOLEAN : Update(r, Broken(at, a))
    BY <1>4 DEF SyncNext, SyncNextBroken, at, new
  <2>6. CASE Update(r, Failed(at))
    <3>1. Failed(at) \in Request
      BY <1>3, <2>6
    <3>2. Follows(s, Failed(at))
      BY <2>1, <2>4, <3>1, FailedFollows
    <3>. QED
      BY <1>2, <2>6, <3>1, <3>2, MoveHonest
  <2>7. CASE Update(r, new)
    BY <1>2, <1>3, <2>3, <2>7, MoveHonest
  <2>8. ASSUME NEW a \in BOOLEAN, Update(r, Broken(at, a)) PROVE Numbers'
    <3>1. Broken(at, a) \in Request
      BY <1>3, <2>8
    <3>2. Follows(s, Broken(at, a))
      BY <2>1, <2>4, <3>1, FailedFollows
    <3>. QED
      BY <1>2, <2>8, <3>1, <3>2, MoveHonest
  <2>. QED
    BY <2>5, <2>6, <2>7, <2>8
<1>5. CASE SyncFetch(r)
  <2>1. PICK c \in {0, solved[s.username]} :
          Update(r, [s EXCEPT !.stage = "sync_date", !.stats = c])
    BY <1>5 DEF SyncFetch
  <2> DEFINE new == [s EXCEPT !.stage = "sync_date", !.stats = c]
  <2>2. /\ new.stage = "sync_date" /\ new.queue = s.queue
        /\ new.loaded = s.loaded /\ new.success = s.success
        /\ new.start = s.start /\ new.starts = s.starts
        /\ new.user = s.user /\ new.username = s.username /\ new.stats = c
    BY <1>1 DEF Request
  <2> HIDE DEF new
  <2>3. s.stage = "sync_fetch" /\ s.username \in Usernames /\ solved[s.username] # NULL
        /\ s.username = s.loaded[s.user]
    BY <1>1, <1>5 DEF SyncFetch, GoodRequest, Answer
  <2>4. solved[s.username] \in Nat
    BY <2>3 DEF FreshInv, Inv, TablesGood, Counts
  <2>5. Grown(s.start[s.username], solved[s.username])
    BY <1>1, <2>3 DEF FreshInv, Numbers, Begun
  <2>6. Answer(new)
    BY <2>2, <2>3, <2>4, <2>5 DEF Answer, Grown
  <2>7. Follows(s, new)
    BY <1>1, <2>2, <2>6 DEF Follows
  <2>8. Update(r, new)
    BY <2>1 DEF new
  <2>. QED
    BY <1>2, <1>3, <2>7, <2>8, MoveHonest
<1>6. CASE SyncFetchFails(r)
  <2>1. Update(r, Unfetched(s)) /\ Unfetched(s) \in Request
    BY <1>3, <1>6 DEF SyncFetchFails
  <2>2. Follows(s, Unfetched(s))
    BY <1>1, <2>1, FailedFollows
  <2>. QED
    BY <1>2, <2>1, <2>2, MoveHonest
<1>7. CASE SyncDate(r)
  <2> DEFINE new == [s EXCEPT !.stage = "sync_store", !.day = SnapshotDate]
  <2>1. /\ new.stage = "sync_store" /\ new.day = today /\ new.queue = s.queue
        /\ new.loaded = s.loaded /\ new.success = s.success
        /\ new.start = s.start /\ new.starts = s.starts
        /\ new.user = s.user /\ new.username = s.username /\ new.stats = s.stats
    BY <1>1 DEF Request, SnapshotDate
  <2> HIDE DEF new
  <2>2. Answer(new)
    BY <1>1, <1>7, <2>1 DEF SyncDate, Answer
  <2>3. Follows(s, new)
    BY <1>1, <2>1, <2>2 DEF Follows
  <2>4. Update(r, new)
    BY <1>7 DEF SyncDate, new
  <2>. QED
    BY <1>2, <1>3, <2>3, <2>4, MoveHonest
<1>. QED
  BY <1>4, <1>5, <1>6, <1>7

(* The step that stores an answer: what other syncs have counted on is     *)
(* replaced by no less than they began with; what is dated before a calm   *)
(* night is no more, and what is dated after it no less.                   *)
LEMMA UpsertHonest ==
  ASSUME FreshInv, Inv', NEW r \in Requests, SyncUpsert(r) \/ SyncUpsertBroken(r)
  PROVE  Numbers'
<1> DEFINE s == request[r]
           u == s.user
           n == s.username
           up == [snapshots EXCEPT ![u][s.day] = s.stats]
<1>1. /\ s \in Request /\ s.stage = "sync_store" /\ s.stage \in Syncing /\ r \in Running
      /\ u \in s.queue /\ u \in Ids /\ u \notin s.success
      /\ n \in Usernames /\ n = s.loaded[u] /\ s.loaded[u] # NULL
      /\ s.stats \in Counts /\ s.stats # NULL
      /\ s.start[n] # NULL /\ solved[n] # NULL
      /\ s.stats = 0 \/ s.start[n] <= s.stats
      /\ s.stats <= solved[n]
      /\ s.day \in Days /\ s.day <= today
  <2>1. s \in Request /\ s.stage = "sync_store" /\ s.stage \in Syncing /\ r \in Running
    BY DEF SyncUpsert, SyncUpsertBroken, FreshInv, Inv, RequestsGood, Running, Syncing
  <2>2. /\ Progress(s, Present, used) /\ u \in s.queue /\ n \in Usernames /\ s.stats \in Counts
        /\ Answer(s)
    BY <2>1 DEF FreshInv, Inv, RequestsGood, GoodRequest, Numbers, Answered
  <2>3. u \in Ids /\ u \notin s.success
    BY <2>1, <2>2 DEF Progress, Request
  <2>4. n = s.loaded[u] /\ n # NULL
    BY <2>1, <2>2 DEF Answer
  <2>5. s.stats # NULL
    BY <2>2 DEF Counts
  <2>. QED
    BY <2>1, <2>2, <2>3, <2>4, <2>5 DEF Answer, FreshInv, Inv, DatesGood
<1>2. UNCHANGED <<today, solved, used, users, history>> /\ Days' = Days /\ Calm' = Calm
  BY DEF SyncUpsert, SyncUpsertBroken, Days, Calm
<1>3. snapshots' = snapshots \/ (snapshots' = up /\ users[u] = n)
  <2>1. Storable(s) => users[u] = n
    BY <1>1 DEF Storable, Present, FreshInv, Numbers, Named
  <2>. QED
    BY <2>1 DEF SyncUpsert, SyncUpsertBroken, Upserted
<1>4. \A v \in Ids, d \in Days :
        up[v][d] = IF v = u /\ d = s.day THEN s.stats ELSE snapshots[v][d]
  BY <1>1 DEF FreshInv, Inv, TablesGood
<1>5. /\ \A q \in Requests \ {r} : request'[q] = request[q]
      /\ request'[r].stage = "sync_next" /\ request'[r].queue = s.queue \ {u}
      /\ request'[r].loaded = s.loaded
      /\ request'[r].start = s.start /\ request'[r].starts = s.starts
      /\ \/ request'[r].success = s.success
         \/ request'[r].success = s.success \cup {u} /\ snapshots' = up
  <2> DEFINE ok == Succeeded(s)
             ab == [Failed(s) EXCEPT !.aborted = TRUE]
             br == Broken(s, TRUE)
  <2>1. /\ ok.stage = "sync_next" /\ ok.queue = s.queue \ {u} /\ ok.success = s.success \cup {u}
        /\ ok.loaded = s.loaded /\ ok.start = s.start /\ ok.starts = s.starts
    BY <1>1 DEF Succeeded, Request
  <2>2. \A t \in {ab, br} :
          /\ t.stage = "sync_next" /\ t.queue = s.queue \ {u} /\ t.success = s.success
          /\ t.loaded = s.loaded /\ t.start = s.start /\ t.starts = s.starts
    <3>1. \A t \in {Failed(s), Unfetched(s), Broken(s, TRUE),
                    [Failed(s) EXCEPT !.aborted = TRUE]} :
            /\ t.stage = "sync_next" /\ t.queue = s.queue \ {u} /\ t.success = s.success
            /\ t.loaded = s.loaded /\ t.start = s.start /\ t.starts = s.starts
      <4>1. s \in Request /\ s.stage \in Syncing /\ TRUE \in BOOLEAN
        BY <1>1
      <4> HIDE DEF s
      <4>. QED
        BY <4>1, FailedFollows
    <3>. QED
      BY <3>1
  <2>3. \/ Update(r, ok) /\ snapshots' = up
        \/ Update(r, ab) \/ Update(r, br)
    BY DEF SyncUpsert, SyncUpsertBroken, Upserted, up, ok, ab, br
  <2> HIDE DEF ok, ab, br, up
  <2>4. \A t : Update(r, t) =>
          request'[r] = t /\ \A q \in Requests \ {r} : request'[q] = request[q]
    BY DEF Update, FreshInv, Inv, RequestsGood
  <2>5. CASE Update(r, ok) /\ snapshots' = up
    BY <2>1, <2>4, <2>5
  <2>6. CASE Update(r, ab) \/ Update(r, br)
    <3>1. PICK t \in {ab, br} : Update(r, t)
      BY <2>6
    <3>. QED
      BY <2>2, <2>4, <3>1
  <2>. QED
    BY <2>3, <2>5, <2>6
<1> HIDE DEF up
<1>5a. ASSUME NEW d \in Days, snapshots'[u][d] # NULL
       PROVE  users[u] = n
  <2>1. users[u] # NULL
    BY <1>1, <1>2, <1>5a DEF Inv, TablesGood, TablesConsistent, Present
  <2>. QED
    BY <1>1, <2>1 DEF FreshInv, Numbers, Named
<1>6. Running' = Running
  BY <1>1, <1>5 DEF Running, Syncing
<1>7. /\ Named' /\ Begun' /\ Alone'
      /\ \A q \in Running : /\ request'[q].loaded = request[q].loaded
                            /\ request'[q].start = request[q].start
                            /\ request'[q].starts = request[q].starts
                            /\ request'[q].queue \subseteq request[q].queue
  <2>1. \A q \in Running : /\ request'[q].loaded = request[q].loaded
                           /\ request'[q].start = request[q].start
                           /\ request'[q].starts = request[q].starts
                           /\ request'[q].queue \subseteq request[q].queue
    BY <1>5 DEF Running
  <2>. QED
    BY <1>2, <1>6, <2>1 DEF FreshInv, Numbers, Named, Begun, Alone
<1>8. Answered'
  <2>1. ASSUME NEW q \in Requests PROVE Answer(request[q])'
    <3>1. CASE q = r
      BY <1>5, <3>1 DEF Answer
    <3>2. CASE q # r
      BY <1>2, <1>5, <3>2 DEF FreshInv, Numbers, Answered, Answer
    <3>. QED
      BY <3>1, <3>2
  <2>. QED
    BY <2>1 DEF Answered
<1>9. Bounded'
  BY <1>1, <1>2, <1>3, <1>4 DEF FreshInv, Numbers, Bounded
<1>10. ASSUME NEW q \in Running, users[u] = n, request[q].loaded[u] # NULL
       PROVE  /\ request[q].loaded[u] = n
              /\ Fresh(request[q], u, s.stats)
  <2>1. request[q].loaded[u] = n
    BY <1>1, <1>10 DEF FreshInv, Numbers, Named
  <2>2. CASE s.stats = 0
    BY <2>1, <2>2 DEF Fresh
  <2>3. CASE s.start[n] <= s.stats
    <3>1. PICK f \in request[q].starts : Grown(f[n], s.start[n])
      BY <1>1 DEF FreshInv, Numbers, Begun
    <3>2. f[n] \in Counts \cup {NULL} /\ s.start[n] \in Counts \cup {NULL}
      BY <1>1, RunningGood DEF FreshInv
    <3>3. Counts \subseteq Nat
      BY DEF Counts
    <3>4. f[n] # NULL /\ f[n] \in Nat /\ s.start[n] \in Nat /\ f[n] <= s.start[n]
      BY <1>1, <3>1, <3>2, <3>3 DEF Grown
    <3>5. f[n] <= s.stats
      <4>1. s.stats \in Nat
        BY <1>1, <3>3
      <4>2. \A i, j, k \in Nat : i <= j /\ j <= k => i <= k
        OBVIOUS
      <4>. QED
        BY <2>3, <3>4, <4>1, <4>2
    <3>. QED
      BY <2>1, <3>4, <3>5 DEF Fresh
  <2>. QED
    BY <1>1, <2>1, <2>2, <2>3
<1>11. Stored'
  <2>1. ASSUME NEW q \in Running, NEW v \in request'[q].success, users[v] # NULL
        PROVE  \E d \in 0 .. today : /\ snapshots'[v][d] # NULL
                                     /\ Fresh(request[q], v, snapshots'[v][d])
    <3>1. v \in Ids /\ (v \in request[q].success \/ (v = u /\ q = r /\ snapshots' = up))
      BY <1>1, <1>5, <2>1, RunningGood DEF FreshInv, Running, Request
    <3>2. request[q].loaded[v] # NULL
      BY <1>1, <3>1, RunningGood DEF FreshInv
    <3>3. CASE snapshots' = up /\ v = u
      <4>1. users[u] = n
        BY <1>1, <2>1, <3>3 DEF FreshInv, Numbers, Named
      <4>2. CASE q = r
        <5>1. Fresh(request[q], v, s.stats)
          BY <1>10, <3>2, <3>3, <4>1
        <5>2. s.day \in 0 .. today /\ snapshots'[v][s.day] = s.stats
          BY <1>1, <1>4, <3>3 DEF Days
        <5>. QED
          BY <1>1, <5>1, <5>2
      <4>3. CASE v \in request[q].success
        <5>1. PICK d \in 0 .. today : /\ snapshots[v][d] # NULL
                                      /\ Fresh(request[q], v, snapshots[v][d])
          BY <2>1, <4>3 DEF FreshInv, Numbers, Stored
        <5>2. d \in Days
          BY DEF Days, FreshInv, Inv, TablesGood
        <5>3. CASE d = s.day
          BY <1>1, <1>4, <1>10, <3>2, <3>3, <4>1, <5>2, <5>3
        <5>4. CASE d # s.day
          BY <1>4, <3>1, <3>3, <5>1, <5>2, <5>4
        <5>. QED
          BY <5>3, <5>4
      <4>. QED
        BY <3>1, <4>2, <4>3
    <3>4. CASE ~(snapshots' = up /\ v = u)
      <4>1. PICK d \in 0 .. today : /\ snapshots[v][d] # NULL
                                    /\ Fresh(request[q], v, snapshots[v][d])
        BY <2>1, <3>1, <3>4 DEF FreshInv, Numbers, Stored
      <4>2. d \in Days
        BY DEF Days, FreshInv, Inv, TablesGood
      <4>3. snapshots'[v][d] = snapshots[v][d]
        BY <1>3, <1>4, <3>1, <3>4, <4>2
      <4>. QED
        BY <4>1, <4>3
    <3>. QED
      BY <3>3, <3>4
  <2>. QED
    BY <1>2, <1>6, <1>7, <2>1 DEF Stored, Fresh
<1>12. Overtaken'
  <2>1. ASSUME NEW q \in Running, NEW v \in request'[q].queue, NEW c \in Days,
               snapshots'[v][c] # NULL, q = history.alone \/ \E e \in Calm : c < e
        PROVE  snapshots'[v][c] <= request[q].start[request[q].loaded[v]]
    <3>1. v \in request[q].queue /\ v \in Ids /\ request[q].loaded[v] \in Usernames
      BY <1>7, <2>1, RunningGood DEF FreshInv, Request
    <3>2. CASE snapshots' = up /\ v = u /\ c = s.day
      <4>1. q # r
        BY <1>5, <2>1, <3>2
      <4>2. q # history.alone
        BY <1>1, <4>1 DEF FreshInv, Numbers, Alone
      <4>3. PICK e \in Calm : s.day < e
        BY <2>1, <3>2, <4>2
      <4>4. s.stats <= request[q].start[n]
        BY <1>1, <4>1, <4>3 DEF FreshInv, Numbers, Waiting, Late
      <4>5. users[u] = n
        BY <1>1, <2>1, <3>2, <1>5a
      <4>6. request[q].loaded[u] = n
        BY <1>1, <3>1, <3>2, <4>5 DEF FreshInv, Numbers, Named
      <4>. QED
        BY <1>1, <1>4, <3>2, <4>4, <4>6
    <3>3. CASE ~(snapshots' = up /\ v = u /\ c = s.day)
      <4>1. snapshots'[v][c] = snapshots[v][c]
        BY <1>3, <1>4, <3>1, <3>3
      <4>. QED
        BY <2>1, <3>1, <4>1 DEF FreshInv, Numbers, Overtaken
    <3>. QED
      BY <3>2, <3>3
  <2>. QED
    BY <1>2, <1>6, <1>7, <2>1 DEF Overtaken
<1>13. Waiting'
  <2>1. ASSUME NEW q \in Requests, NEW e \in Calm, Late(request'[q], e)
        PROVE  /\ \A p \in Running \ {q} :
                    request'[q].stats <= request[p].start[request'[q].username]
               /\ \A d \in Days :
                    e <= d /\ snapshots'[request'[q].user][d] \notin {NULL, 0} =>
                      request'[q].stats <= snapshots'[request'[q].user][d]
    <3>1. q # r /\ request'[q] = request[q] /\ Late(request[q], e)
      BY <1>5, <2>1 DEF Late
    <3> DEFINE t == request[q]
    <3>2. /\ \A p \in Running \ {q} : t.stats <= request[p].start[t.username]
          /\ \A d \in Days : e <= d /\ snapshots[t.user][d] \notin {NULL, 0} =>
                               t.stats <= snapshots[t.user][d]
      BY <3>1 DEF FreshInv, Numbers, Waiting
    <3>3. /\ q \in Running /\ t.user \in Ids /\ t.username = t.loaded[t.user]
          /\ t.loaded[t.user] # NULL /\ t.stats \in Counts
      <4>1. t \in Request /\ t.stage = "sync_store" /\ GoodRequest(t, Present, used) /\ Answer(t)
        BY <3>1 DEF Late, FreshInv, Inv, RequestsGood, Numbers, Answered
      <4>. QED
        BY <4>1 DEF GoodRequest, Answer, Running, Syncing, Request
    <3>4. ASSUME NEW d \in Days, e <= d, snapshots'[t.user][d] \notin {NULL, 0}
          PROVE  t.stats <= snapshots'[t.user][d]
      <4>1. CASE snapshots' = up /\ t.user = u /\ d = s.day
        <5>1. users[u] = n
          BY <1>1, <1>5a, <3>4, <4>1
        <5>2. t.username = n
          BY <1>1, <3>3, <4>1, <5>1 DEF FreshInv, Numbers, Named
        <5>3. t.stats <= s.start[n]
          BY <1>1, <3>1, <3>2, <5>2
        <5>4. snapshots'[u][d] = s.stats /\ s.start[n] <= s.stats
          BY <1>1, <1>4, <3>4, <4>1
        <5>5. s.start[n] \in Nat /\ t.stats \in Nat /\ s.stats \in Nat
          BY <1>1, <3>3, RunningGood DEF FreshInv, Counts
        <5>. QED
          BY <4>1, <5>3, <5>4, <5>5
      <4>2. CASE ~(snapshots' = up /\ t.user = u /\ d = s.day)
        <5>1. snapshots'[t.user][d] = snapshots[t.user][d]
          BY <1>3, <1>4, <3>3, <4>2
        <5>. QED
          BY <3>2, <3>4, <5>1
      <4>. QED
        BY <4>1, <4>2
    <3>. QED
      BY <3>1, <3>2, <3>4
  <2>. QED
    BY <1>2, <1>6, <1>7, <2>1 DEF Waiting
<1>14. TotalsNeverDrop'
  <2>1. ASSUME NEW v \in Ids, NEW c \in Days, NEW d \in Days,
               snapshots'[v][c] # NULL, snapshots'[v][d] \notin {NULL, 0},
               NEW e \in Days \ history.overnight, c < e, e <= d
        PROVE  snapshots'[v][c] <= snapshots'[v][d]
    <3>1. d <= today /\ e \in Calm /\ c \in Nat /\ d \in Nat /\ e \in Nat
      BY <1>2, <1>9, <2>1 DEF Bounded, Calm, Days, FreshInv, Inv, TablesGood
    <3>2. CASE snapshots' = up /\ v = u /\ d = s.day
      <4>1. c # s.day /\ snapshots'[v][c] = snapshots[v][c]
        BY <1>4, <2>1, <3>1, <3>2
      <4>2. snapshots[u][c] <= s.start[n]
        BY <1>1, <2>1, <3>1, <3>2, <4>1 DEF FreshInv, Numbers, Overtaken
      <4>3. snapshots'[v][d] = s.stats /\ s.start[n] <= s.stats
        BY <1>1, <1>4, <2>1, <3>2
      <4>4. snapshots[u][c] \in Nat /\ s.start[n] \in Nat /\ s.stats \in Nat
        BY <1>1, <2>1, <3>2, <4>1, RunningGood DEF FreshInv, Inv, TablesGood, Counts
      <4>. QED
        BY <3>2, <4>1, <4>2, <4>3, <4>4
    <3>3. CASE snapshots' = up /\ v = u /\ c = s.day
      <4>1. d # s.day /\ snapshots'[v][d] = snapshots[v][d]
        BY <1>4, <2>1, <3>1, <3>3
      <4>2. s.stats <= snapshots[u][d]
        BY <1>1, <2>1, <3>1, <3>3, <4>1 DEF FreshInv, Numbers, Waiting, Late
      <4>. QED
        BY <1>1, <1>4, <3>3, <4>1, <4>2
    <3>4. CASE ~(snapshots' = up /\ v = u /\ (c = s.day \/ d = s.day))
      <4>1. snapshots'[v][c] = snapshots[v][c] /\ snapshots'[v][d] = snapshots[v][d]
        BY <1>3, <1>4, <3>4
      <4>. QED
        BY <2>1, <4>1 DEF FreshInv, Numbers, TotalsNeverDrop
    <3>. QED
      BY <3>2, <3>3, <3>4
  <2>. QED
    BY <1>2, <2>1 DEF TotalsNeverDrop
<1>. QED
  BY <1>7, <1>8, <1>9, <1>11, <1>12, <1>13, <1>14 DEF Numbers

(* All of this is an invariant, however many syncs overlap.                *)
THEOREM SyncHonest == Spec => []FreshInv
<1>1. Init => FreshInv
  <2> SUFFICES ASSUME Init PROVE FreshInv
    OBVIOUS
  <2>1. Inv
    BY InvBegins
  <2>2. /\ \A r \in Requests : request[r].stage = "idle" /\ request[r].stage \notin Syncing
        /\ \A u \in Ids, d \in Days : snapshots[u][d] = NULL
    BY DEF Init, Idle, Syncing
  <2>3. Running = {}
    BY <2>2 DEF Running
  <2>4. Numbers
    BY <2>2, <2>3 DEF Numbers, Named, Begun, Stored, Answered, Answer, Bounded, Alone,
                      Overtaken, Waiting, Late, TotalsNeverDrop
  <2>. QED
    BY <2>1, <2>4 DEF FreshInv
<1>2. FreshInv /\ [Next]_vars => FreshInv'
  <2> SUFFICES ASSUME FreshInv, [Next]_vars, Inv' PROVE Numbers'
    BY InvStays DEF FreshInv
  <2>1. CASE UNCHANGED vars
    BY <2>1 DEF vars, FreshInv, Numbers, Named, Begun, Stored, Answered, Answer, Bounded,
                Alone, Overtaken, Waiting, TotalsNeverDrop, Running, Calm, Fresh, Days
  <2>2. CASE Midnight
    BY <2>2, MidnightHonest
  <2>3. ASSUME NEW n \in Usernames, Solve(n) PROVE Numbers'
    BY <2>3, SolveHonest
  <2>4. ASSUME NEW r \in Requests, Begin(r) \/ Continue(r) \/ RequestFails(r)
        PROVE  Numbers'
    BY <2>4, OthersHonest, StartHonest, LoopHonest, UpsertHonest DEF Begin, Continue
  <2>. QED
    BY <2>1, <2>2, <2>3, <2>4 DEF Next
<1>. QED
  BY <1>1, <1>2, PTL DEF Spec

(* A sync leaves every user it counts as a success with a snapshot that is *)
(* the zero of an answer without counts or at least as recent as the start *)
(* of a sync that overlaps it or of its own, whatever is created, deleted  *)
(* or solved, and whatever fails, while it runs ...                        *)
THEOREM SyncIsFresh == Spec => []SyncLeavesFresh
<1>1. FreshInv => SyncLeavesFresh
  <2> SUFFICES ASSUME FreshInv, NEW r \in Requests, request[r].stage \in Syncing,
                      NEW u \in request[r].success \cap Present
               PROVE  \E d \in 0 .. today :
                        /\ snapshots[u][d] # NULL
                        /\ \/ snapshots[u][d] = 0
                           \/ \E start \in request[r].starts :
                                start[request[r].loaded[u]] <= snapshots[u][d]
    BY DEF SyncLeavesFresh
  <2>1. r \in Running /\ users[u] # NULL
    BY DEF Running, Present
  <2>. QED
    BY <2>1 DEF FreshInv, Numbers, Stored, Fresh
<1>. QED
  BY <1>1, SyncHonest, PTL

(* ... and the totals of a user do not drop from one date to a later one,  *)
(* but for such zeros and for syncs that overlap night after night.        *)
THEOREM TotalsRise == Spec => []TotalsNeverDrop
<1>1. FreshInv => TotalsNeverDrop
  BY DEF FreshInv, Numbers
<1>. QED
  BY <1>1, SyncHonest, PTL
=============================================================================
