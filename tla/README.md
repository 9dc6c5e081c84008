# Verification of the LeetCode tracker backend

TLA+ models of the backend in `src/`, the TLC configurations that check them on
small instances, and theorems about them that TLAPS proves for every instance.
Paths below are relative to the repository.

* [The system](#the-system) - components, state, operations, what is hard
* [The modules](#the-modules) - how they correspond to the code
* [The runs](#the-runs) - what TLC checks, the bounds, the fairness
* [The proofs](#the-proofs) - what is proved, from what, and how
* [Disagreements](#disagreements-with-the-documentation) - between the code and what is said of it
* [What is not modelled](#what-is-not-modelled)
* [Plan](#plan)

## The system

A FastAPI process with PostgreSQL behind it and, optionally, Redis.
Administrators log in; they register LeetCode users and start a daily sync that
fetches what each user has solved and stores one snapshot per user and date. Anyone
may read leaderboards and analytics computed from the snapshots.

Three facts of the platform decide what can interleave, and every model rests on them.

* **`def` handlers run in a thread pool**, `async def` handlers and the background
  task on one event loop. Handlers of the first kind overlap at any point; those of
  the second kind only at an `await`.
* **PostgreSQL runs at READ COMMITTED** (SQLAlchemy's default engine, `app/db/session.py`).
  Each query sees what is committed when it starts. Nothing that was read stays true.
* **A SQLAlchemy session keeps what it has read.** A row that a second SELECT returns
  again keeps the attributes it was loaded with; the flush writes only the
  attributes that changed; an UPDATE that misses its row is an error that rolls
  everything back; a commit expires what was loaded.

| Component | State | Operations | Interacts with | What is hard | What makes it correct |
|---|---|---|---|---|---|
| Refresh-token sessions (`api/routes/auth.py`, `core/security.py`, `models/refresh_token.py`) | the `refresh_tokens` table; the tokens clients hold | login, refresh (rotation, reuse detection), logout, logout-all | cleanup, rate limiter, configuration | overlapping handlers, stale identity maps, column-wise updates, retries, clock boundaries | a session that ended never comes back; a family has one administrator; a revocation leaves only what was given out after it looked; a second token needs a rotation that was overtaken; reuse is detected as long as a token could be used; the overshoot of the session cap is bounded |
| Cleanup and its status (`main.py`, `core/refresh_token_maintenance.py`) | the loop's task, `_LAST_CLEANUP_STATE` | startup, loop, shutdown; cleanups by logins | sessions, monitor | overlapping cleanups that report out of order, failures, cancellation | an ok status is true; the loop survives failures; shutdown ends |
| Rate limiter (`core/rate_limiter.py`) | deques in memory, keys in Redis | `hit` | login and refresh | time read before the lock, commands that fail half-way, two backends | limits per window, a sufficient Retry-After, keys that expire |
| Daily sync and user administration (`services/sync_service.py`, `api/routes/admin.py`) | `users`, `snapshots` | sync, create, delete | LeetCode, analytics | waiting for LeetCode in the middle, midnight, users deleted meanwhile, a transaction that is aborted | tables consistent, only the last date changes once it is over, failures isolated, counts right, what is stored is fresh or a zero, the sync ends |
| Leaderboard and analytics (`api/routes/leaderboard.py`, `services/sync_service.py`) | none | latest, weekly, global, user, dashboard | reads `users`, `snapshots` | two queries with two views; boundaries of windows; ties; any integer as a parameter | results agree with their definitions, and deviate no further than the second query explains |
| Access tokens (`api/deps.py`, `core/security.py`) | none: the token itself | handed out by login and refresh, `get_current_admin` | sessions | a token outlives its session, and is created after the commit of a rotation that may be overtaken | bounded exposure |
| Connection pool, threads, event loop (`db/session.py`, every handler) | who holds what, and who waits | checkout, commit, `get_db`'s close | every request | blocking calls on the event loop, to the database and to Redis, connections held over an `await`, three resources that are acquired in different orders | every request is answered, if Redis answers; the loop waits for the pool a bounded number of times in a row |
| LeetCode client (`services/leetcode_client.py`, `api/routes/leetcode.py`) | none | `fetch_leetcode_stats` | LeetCode | timeouts, incomplete answers | an error is never stored; an answer without counts is stored as zeros, and what is said of the totals says so |
| Monitoring (`core/monitoring.py`, `api/routes/health.py`) | none | `/health/monitor`, `/health`, `/health/deps` | cleanup status, probed URLs, log buffer | the status is read before probes that take seconds | an ok report is true |
| Log collector, audit, tracing (`core/log_collector.py`, `core/security_audit.py`, `core/tracing.py`) | a deque of 200 records, a context variable | append, list | everything | levels, filters and propagation between loggers | a record carries the trace of its request |
| Configuration, migrations, schemas | environment | read once | everything | validation | - |

## The modules

| Module | Models | Composes |
|---|---|---|
| `RefreshTokens` | the token store and its handlers | |
| `Sessions` | what the token store promises, without rows and times | |
| `RefreshTokensRefinement` | the mapping from the one to the other | both |
| `RevocationHistory` | the token store with a history variable, for what survives a revocation | `RefreshTokens` |
| `RefreshTokensProofs` | theorems about `RefreshTokens`: types, rows and claims, revocations | |
| `SessionsProofs` | theorems about sessions: their end, the refinement, the retention, the cap, second tokens, what survives a revocation; on top of the module before | |
| `AdminAccess` | access tokens on top of the token store | `RefreshTokens` |
| `AdminAccessProofs` | theorems about `AdminAccess`, on top of `SessionsProofs` | |
| `CleanupLoop` | startup, background loop, shutdown, status | |
| `Monitor` | the monitor's report beside the cleanups it reports on | `CleanupLoop` |
| `MonitorProofs` | theorems about `Monitor` and the cleanup loop | |
| `ConnectionPool` | event loop, threads and connections, and who waits for which | |
| `ConnectionPoolProofs` | theorems about `ConnectionPool` | |
| `LogCollector` | log records from the loggers to the buffer | |
| `RateLimiter` | both limiters, the fallback, one key | |
| `RateLimiterProofs` | theorems about `RateLimiter` | |
| `SnapshotStore` | what `users` and `snapshots` promise to readers | |
| `SyncService` | daily sync, create, delete; implements `SnapshotStore` | `SnapshotStore` |
| `SyncServiceProofs` | theorems about `SyncService` | |
| `Leaderboard` | the readers, over `SnapshotStore` | `SnapshotStore` |
| `LeaderboardProofs` | theorems about `SnapshotStore` and its readers | |
| `MC*` | instances for TLC | |

An operator named "Mutant of X" in a comment is X with a plausible bug. No
specification uses it: it shows that a property notices the bug.

### RefreshTokens

A handler is split at its database calls, because that is where another handler can
get in between: `LoginStart` (rate limit and credentials passed, cleanup committed),
`LoginCount` (the cap), `LoginInsert`; `RefreshLookup` and `RefreshReused` (the SELECT
of the token and the two ways it can be accepted or recognised as reused),
`RefreshRotate`, `ReuseSelect` and `ReuseCommit`; `LogoutLookup` and
`LogoutCommit`; `LogoutAllLookup`, `LogoutAllSelect`, `LogoutAllCommit`. `RequestFails` may
end any handler between two of them: a database error, a `StaleDataError`, a crash of the
thread. `Cleanup` is the DELETE with its `ON DELETE SET NULL`, `Restart` loses all
handlers and may change ADMIN_EMAILS, `Tick` is time.

`session[w].loaded` is the identity map of thread w's session: `Load` does not replace what
is there, `Stamped` is `_revoke_token` decided by what was loaded and written only where it
differs, onto the row as it is by then. A client may present any token it was ever
given, at any time and any number of times: retries, theft and lost responses need no
action of their own.

Abstracted: a token, its SHA-256 hash and the id of its row are one value (the hash is
taken to be injective and uuid4 never to repeat); `last_used_at` is left out, nothing
reads it; a rejected request is no step, as it changes nothing; passwords and rate
limits decide only whether `LoginStart` happens.

### RevocationHistory

Reuse detection and logout-all read the rows they are to revoke in one SELECT and write them in a
later commit. `late[w]` is a history variable: the tokens that were given out while thread w was between the
two. With it `OnlyLateTokensSurvive` says of each commit exactly what it leaves unrevoked.

### Sessions

A login opens a family with a live token, a rotation begins while its family is live
and may add one token to it, tokens die and never revive. `RefreshTokensRefinement`
maps a token to live if its row is unrevoked and unexpired and to dead if it is
revoked, expired or deleted. That deletion is a stutter is what makes the retention
cleanup harmless.

### AdminAccess

Every step is one of `RefreshTokens`, which is why what is proved there holds here
(`AccessSpecRefines`). `LoginAnswer` hands out an access token with the time read before
the commit; a rotation commits in `RefreshCommit` and creates its access token later, in
`RefreshAnswer`: in between another handler may end the session. `Admitted` is
`get_current_admin`. `closed_at` is a history variable: when a family was first closed.

### CleanupLoop and Monitor

`phase` is where `lifespan` is, `loop` is the task of `_refresh_token_cleanup_loop`, `job[w]` is a
call of `cleanup_refresh_tokens` in thread w, split where it reads the time (`Begin`), deletes and
commits (`Delete`), and reports (`Report`, `MarkFailure`). `Write` is a handler that stores or
revokes a row: it has read the clock up to `MaxDelay` before it commits, as all handlers of
`auth.py` do. The event loop does one thing at a time, and logins clean up in threads of their own.
A row is reduced to the time from which the cleanup deletes it. Shutdown is three steps, since the
task may be cancelled while it waits or before it first ran.

`Monitor` adds the handler of `/health/monitor`: it copies the status (`MonitorBegin`),
probes the configured URLs and those of the request one by one (`Probe`, which may fail), and
puts the results together in two steps (`ReportBuilt`, `MonitorRespond`), as
`build_monitor_report` and `monitor_status` do.

### ConnectionPool

A request is reduced to what it waits for and what it holds: its `stage`, whether it has a
connection, and how much it has `left` to do. There are five kinds: handlers that end
with a commit (which returns the connection) and those that end with a read (which keep it until
`get_db` closes the session), the monitor, `create_user` and `daily_sync`. The last two are
coroutines: what they call synchronously blocks the event loop (`loop`), they hold their connection while
LeetCode is asked (`fetching`), and after a commit they need a new one for
`db.refresh(user)` or for the next `user.username`. `InThread` are the stages that occupy a
thread: a thread is given back only when the event loop resumes its caller.

`rate_limiter.hit` is a synchronous call to Redis (`app/api/routes/admin.py:42`, `66` and `83`),
made before the first query and without a socket timeout. A handler that has one passes the stage
`hit` in its thread or, in the coroutines, `hit_on_loop` on the event loop, which stands still as
long as Redis takes (`HitInThread`, `HitOnLoop`); a 429 ends the request there. `TimedOut` is the
pool's timeout, which fails the request - except in `run_daily_sync`, whose `except` clause counts
it as an error of one user (`SyncTimeout`). `waits` is a history variable. `CleanupBegin` is the
background cleanup, which blocks the loop too.

### LogCollector

A record is logged in the context of a request (`Enter`, `Leave` are the middleware) to the
root logger, that of the security events or one of a library, if the level
lets it pass. `Filtered` is what Python's logging makes of a filter on the root logger; `Appended`
is the deque. `emitted` is a history variable.

### RateLimiter

One key, as keys do not interact. `MemoryHit` reads the time and `MemoryDecide` is the
critical section; `RedisIncr`, `RedisExpire`, `RedisTtl` are commands, each of which may
fail with its effect (`RedisIncrFails` and so on), which sends the hit to the in-memory limiter.
`admitted` and `lost` are history variables: the times, in order, at which each limiter let
hits through, and whether an EXPIRE was ever lost.

### SyncService, SnapshotStore, Leaderboard

`SyncService` splits the coroutines at each `await` and each database call. A sync
has the list of users it began with (`loaded`, `queue`), remembers whether a commit expired
them (`expired`: then `user.username` is a query) and whether PostgreSQL rejects
everything since a statement failed (`aborted`: the `except` clause does not roll
back). `SyncNextBroken` and `SyncUpsertBroken` are statements and commits that the database
fails, with or without their effect, and are remembered in `broken`. A sync returns two counts; the
model keeps whose they are. LeetCode is external:
`solved` grows by itself and `SyncFetch` returns it as of one moment of the wait, or zeros, which is what
`_parse_difficulty_counts` makes of an answer with status 200 and no counts
(`app/services/leetcode_client.py:49`), or `SyncFetchFails`. `upsert_snapshot` reads the date
(`SyncDate`) before its INSERT and COMMIT (`SyncUpsert`), and keeps it in `day`: midnight may pass
in between, at most `MaxLate` times.

`unfetched`, `broken`, `start` and `starts` are history variables, and so is `history`, the syncs
that ran alone and the dates that began while others were running: they say when overlapping syncs
excuse an old value.

`SnapshotStore` is what is left when requests are forgotten: its `Upsert` writes a date up to
`MaxLate` days old. `Leaderboard` extends it with one reader, which is enough as readers change
nothing: `Query` remembers the first query's view, `Respond` is the second one. What a response
holds is a function of the two views, so the operators `WeeklyEntry`, `GlobalStats`,
`MostActiveUsers`, `BestPlayer` and `GlobalTrends` translate the code - windows, slices, stable
sorts and ties included - and the properties compare them with definitions of what they report. Of a
snapshot only `total` is kept.

## The runs

`tlc -config X.cfg M` in this directory; each run ends in about three minutes or less on two cores.

| Run | Checks | Shows |
|---|---|---|
| `tokens_overlap` | `TypeOK` `CapOvershootBounded` `AuditColumnsAgree` `LoadedTokensDie` | two threads, all endpoints, before and after tokens expire: whatever overlaps, rows that two handlers write in parts stay consistent, what a revocation found is dead, and the cap is exceeded by fewer sessions than there are threads |
| `tokens_access` | `UnexpiredTokensKept` `ExposureBounded` `ClosedFamiliesStayClosed` | the same two threads over time, expiry, deletion and restarts with other ADMIN_EMAILS, and the access tokens they hand out: ended sessions stay ended at every boundary, and their access tokens end too |
| `tokens_history` | `ClaimsMatchRows` `SessionsIsolated` `ImplementsSessions` `SecondTokenOvertaken` `OnlyLateTokensSurvive` | two threads, two administrators, three tokens, two sessions: the store is what `Sessions` promises, rows hold what their tokens claim, nobody's session is ended by somebody else, a session gets a second unrevoked token only from a rotation that was overtaken, and a reuse detection or a logout-all leaves only tokens given out after it read the rows |
| `tokens_reuse_race` | `ReuseEndsFamily`, violated | see below |
| `cleanup_loop` | `TypeOK` `OkMeansClean` `MonitorHonest` `DueRowsGo` `ShutdownEnds` | with a retention of 0, the least the code allows, the status is honest and so is the report made of it, the loop survives, shutdown ends |
| `pool_waits` | `PoolTypeOK` `LoopWaitsBounded` `RequestsEnd` | every mix of three requests and the cleanup over two connections and one thread: the pool is not exceeded, the loop waits for it a bounded number of times in a row, all are answered |
| `logs_traced` | `TraceIdsAttached`, violated | see below |
| `limiter_fallback` | `TypeOK` `RedisWindowBound` `MemoryWindowBound` `RetryAfterRight` `ExpiryPending` | what each limiter guarantees while Redis fails at any command and the process restarts |
| `limiter_surfaced` | `BackendSurfaced`, violated | see below |
| `sync_overlap` | `TypeOK` `TablesConsistent` `CountsAddUp` `FailuresIsolated` `SyncFinishes` | any two of sync, create and delete, with LeetCode and a database that fail: the tables agree, a failure stays its own, every sync ends |
| `sync_values` | `SyncLeavesFresh` `TotalsNeverDrop` `ImplementsStore` | the same two requests over two midnights and with what LeetCode answers: which dates may change, which values a sync leaves, when a total may drop |
| `leaderboard` | `LeaderboardTypeOK` `WeeklyExact` `GlobalCountsItsUsers` `BestPlayerIsBest` `MostActiveRanked` `TrendsCountEachSnapshot` | every table of two users and three days, with up to two commits between two queries |

### Bounds

* *Tokens, families, threads.* `tokens_overlap` has two tokens - a row and its replacement, or two
  sessions - and two threads that both hold both; overshooting a cap of 1 needs two logins that
  overlap. A family with two live tokens needs a login and two rotations: three tokens, in
  `tokens_history` and `tokens_reuse_race`. The second family of `tokens_history` is another session of
  the administrator, which a logout-all ends too, or one of another administrator, which it must
  not; it leaves out logout, which revokes as a logout-all of one row would. That the overshoot
  grows with the threads takes three of them; the bound is proved for any number.
* *Time.* In `tokens_history` time stands still (`MaxClock = 0`): it is about interleavings.
  `tokens_overlap` has one tick, at which all tokens issued before it expire.
  `tokens_access` has `Lifetime` 1, `Retention` 2, `AccessLifetime` 1 and
  three ticks: a token is issued, rotated, expires and is deleted, and `MaxDelay = 1` lets a
  handler hold a timestamp over a tick. `MaxDelay` is a bound on how long a handler
  waits for the database with a time it has read, and on how long it takes to answer after a
  commit; the properties that depend on it name it.
* *Pool.* Two connections, one thread and three requests: enough for everyone to wait for everyone -
  a coroutine on the loop, a thread for a connection, the connections with a handler
  that waits for the loop and a sync that waits for LeetCode. Three users are the smallest
  sync that can wait twice in a row without an `await`.
* *Logs.* Two requests, a buffer of two records, three records.
* *Rate limiter.* Limit 2, window 3, four ticks, two threads: two windows of Redis, and an
  in-memory deque out of order.
* *Sync.* Two requests, both of which may sync, as three hold no pair that two do not.
  `sync_overlap` has two names and two ids, which is what requests contend for, and no days: nothing
  it checks depends on a date or a value. `sync_values` has one name, whose user may be deleted and
  made again under another id, three totals (with two, a drop would always be to zero) and three
  days: a date that is over may still change (`MaxLate = 1`), and the one before may not.
* *Leaderboard.* Totals 0 and 1 give rises, falls and ties; three days with `ActiveDays = 1` have a
  date outside the window; a negative limit is the slice that counts from the end, and a
  negative trend (`TrendDays` is {-1, 2}) an empty trend. The values for which
  `date.today() - timedelta(...)` overflows are left out: they are a 500 without any other effect.
* *Cleanup and monitor.* One row, stored again and again, with `Retention` 0 and `MaxDelay` 1, so that rows
  may be due as soon as they are written; the event loop and one thread of logins,
  whose cleanups overlap; one configured URL and up to one of the request.

Deadlock is checked in every run. Symmetry is used where no definition tells
the values apart, and never with liveness.

### Fairness

* `SyncService!FairSpec`: a request that can go on does. The event loop runs every ready
  task, and the wait for LeetCode ends in an answer or an error; nothing is assumed about which. The
  timeout of the HTTP client, 20 seconds, is one of each operation: it is 20 seconds without a byte that end the
  wait, and that an answer which comes byte by byte ends is an assumption.
* `Monitor!MonitorSpec` (and `CleanupLoop!FairSpec`): weak fairness of what the event loop has to
  do (its timers included), and strong fairness of its `Delete`: a database that is tried again
  and again is not down each time. `DueRowsGo` would be false without it.
  No fairness is assumed of logins, reports, `Tick`, `Shutdown` or `Restart`.
* `ConnectionPool!Spec`: weak fairness of `Progress`: a wait for a connection ends, at the latest by
  the pool's timeout (30 seconds by default), LeetCode and probes are given up after theirs, and
  threads run. That Redis answers, or that its connection fails, is an assumption: the code sets no
  timeout for it, and if neither happens on the event loop nothing ends. Strong fairness of
  `Dispatch`: the event loop's queue of ready tasks and the thread limiter's queue are first come
  first served, so a task that is ready again and again is served, although the loop and the threads
  are taken in between. Nothing is assumed about who gets a connection, nor that the cleanup or
  other requests stop coming.

## The proofs

`tlapm M.tla`. A theorem holds for all values of the constants that satisfy the named assumptions:
no set need be finite and no bound small, unless the theorem says so itself.

| Module | Assumptions | What they say |
|---|---|---|
| `RefreshTokensProofs`, `SessionsProofs` | `ConfigAssumption`, `NullAssumption` | the settings are naturals, ADMIN_EMAILS are addresses; NULL is no value of its columns |
| `AdminAccessProofs` | also `AccessAssumption` | the lifetime of an access token is a natural |
| `ConnectionPoolProofs` | `PoolAssumption` | there is a connection and a thread; the names of requests, the cleanup and NULL differ |
| `MonitorProofs` | `LoopAssumption`, `MonitorAssumption` | times are naturals, the retention and the delay 0 included, NULL is no time, the event loop is none of the login threads |
| `RateLimiterProofs` | `LimiterAssumption` | limit and window are positive, NULL is no integer |
| `SyncServiceProofs` | `SyncAssumption` | syncers are requests, and all may be; the bounds are naturals; NULL is no user, name, request or count |
| `LeaderboardProofs` | `LeaderboardAssumption` | ids are ordered, totals are naturals, NULL is no integer; the parameters of the requests are integers, negative ones included |

One theorem has a hypothesis of its own: `IsFiniteSet(Workers)` (`OvershootBounded`), the thread pool is
finite. None assumes that requests or syncs do not overlap.

### The token store

**`RefreshTokensProofs`.**
`TypeCorrect`: `Spec => []TypeOK`. `TypeOK` is not inductive: `RefreshRotate` uses the
claims of the token it works on and the row it has loaded, so it must know that both exist. `TypeInv`
adds that a stored token was given to a client and that a handler past its lookup has a
token and has loaded its row (`RequestsComplete`). `TypeInvInductive` is the step.

`RowsMatchClaims`: `Spec => []ClaimsMatchRows`. `AuditTrailAgrees`:
`Spec => []AuditColumnsAgree`. `RevocationsKill`: `Spec => LoadedTokensDie`.
The tables alone do not carry the argument, as handlers write what follows from
what they *have read*. The invariant `Inv` therefore says what a handler may believe of a
row it loaded, whatever has happened to it since:

* its administrator and its family are those of the token (`ReadsMatchClaims`), which never change;
* its audit columns agreed when it was read, and if it was revoked then, it is revoked now or
  deleted (`ReadsAgree`). Nothing ever clears `revoked_at`, and an id is not used again.

From this `StampedRevoked` follows: a flush that writes only the changed columns leaves
the row revoked, with a reason and an actor, whatever others wrote meanwhile. If
`revoked_at` is not written, the row was revoked when it was loaded, hence still is; and likewise
for the other two columns. The induction has one lemma for each kind of step:
`ForgetSafe` (steps that purge rows or close sessions), `LoadSafe` (steps that
read), `RevokeSafe` (commits of revocations), `IssueSafe` (logins and rotations).
For `RevocationsKill` the step is found to be a commit by elimination; `PurgedSame`
excludes a cleanup, since one that deletes nothing changes nothing.

**`SessionsProofs`.**

*The end of a session.* `SessionsEnd`: `Spec => ClosedFamiliesStayClosed`. Three lemmas say what a
step may do to a family. `LiveBefore`: a token that is live after the step was live before it or has
just been issued, because `revoked_at` is never cleared (`RowsOnlyDie`), claims do not change and
time does not run backwards (`ClaimsStay`). `NewTokens`: a token is issued to a new family
or to one that is being rotated. `NewRotation`: a rotation begins with a live token. So a family
without live tokens and rotations gets neither (`ClosedStays`).

*The refinement.* `Refinement`: `Spec => ImplementsSessions`. `StepRefines` sorts the steps by the
action of `Sessions` they are: `OpenStep` (a login inserts), `BeginStep` (a refresh passes its checks),
`RotateStep` (it commits), `AbandonStep` (sessions are closed, by a failure or the end of
the process), and `KillStep` for all that issue nothing and leave rotations alone - among them
every revocation, the clock, and the cleanup, which changes nothing `Sessions` can see
(`PurgedSteps`). `EndingIsFinal` proves of `Sessions` alone, with the store's tokens and families for
its own, that a session that has ended stays ended; with the refinement this is
`SessionsStayEnded`, a second way to what `SessionsEnd` says.

*The retention.* `TokensKept`: `Spec => []UnexpiredTokensKept`. A row may be stamped as revoked with an
old time, so the invariant `RetentionInv` bounds how old: a handler's time is at most `MaxDelay` old
(`Timely`), and a revoked token expires at most a lifetime and `MaxDelay` after the time in its row
(`ExpiresSoon`). A retention that covers both therefore keeps it until it is useless.

*The cap.* `OvershootBounded`: `Spec => []CapOvershootBounded`. `CapInv` counts what a login does not
see: open families, and logins that were admitted and have not inserted
(`AdmittedLogins`), are together fewer than the cap and the number of threads. A login is admitted by
a count of the active families (`AdmittedByCount`); each open one which that count misses
occupies another thread (`OpenOverActive`, `ThreadsCounted`). With one thread the bound is the
cap itself.

*Second tokens.* `SecondTokens`: `Spec => SecondTokenOvertaken`. Two refreshes that overlap both find their
token unrevoked, and the session has two. The theorem says that there is no other way. A thread that
rotates has loaded an unrevoked row (`RotatesUnrevoked`); if the row is unrevoked still, the rotation
replaces it and leaves one token for one, and otherwise somebody revoked or deleted it after the check
(`NewRowOvertakes`). No other step gives a family a token it had none like: a login opens a family of its own
(`RowNew`), and the rest only takes away (`RowSame`).

*What survives a revocation.* `OnlyLateSurvive`: `HistorySpec => OnlyLateTokensSurvive`. The
invariant is `Missed`: between its SELECT and its commit a handler has loaded every row it is about
but those in `late`. It begins with the SELECT, which reads them all (`SelectsAll`), and stays
because a row that appears is put in `late` and claims do not change (`MissedStep`). `LoadedDie`
says that what is loaded is dead after the commit.

*Isolation.* `RevocationsAreMeant`: `Spec => SessionsIsolated`. A revocation stamps all its session has
loaded, so the invariant is about that: `LoadedAreMeant` says that a session has read the row of
its own token and, once it has selected what to revoke, rows of that token's family, or of its
administrator. The SELECT goes by what the row it read earlier names, which is right because of
`ReadsMatchClaims`, and stays right while it waits because claims do not change
(`LoadedMeantStep`). `IsolatedStep` adds what the cleanup may delete.

**`AdminAccessProofs`.**
`ExposureEnds`: `AccessSpec => []ExposureBounded`. `AccessSpecRefines` carries the invariants of the
token store over, and with them `AccessTokensKept` and `AccessSessionsEnd`, the two properties of the
store that `tokens_access` checks. On top of them `AccessInv` keeps three facts: a handler's time is at most
`MaxDelay` old (`Timely`); a family that was closed is closed since
(`ClosedSince`, which is `ClosedStays` again); and an access token ends at most its lifetime
after now, and if its session is over, after the time it was closed plus what an answer may take
(`AccessShort`, `AccessEnds`). The argument turns on answers under way: a rotation that has
committed and not answered was committed while its family was open, and not long ago
(`AnswersDue`), so the access token it is about to hand out, if the family was closed since, is late by
at most `MaxDelay`.

### Cleanup, limiter and pool

**`MonitorProofs`.** `MonitorTypes`, `StatusIsTrue` (`MonitorSpec => []OkMeansClean`) and
`ReportIsTrue` (`MonitorSpec => []MonitorHonest`), for any number of threads, rows and probes. What
makes the status true is `CleanupsHonest`: between its delete and its report a cleanup knows that no
row due at its time is left (`NoneDue`), and nobody can store one: a row that is stored or revoked
later has its retention before it, counted from the time its handler had read (`NothingDueAgain`).
So a row that is due nevertheless comes from a handler that took longer than the retention from
reading the clock to its commit, which `Cleaned` says. Hence it does not matter in which order
cleanups report, nor how long a monitor keeps a status that it has read: `Trusted` is stable
(`StillTrusted`), which is all that `ReportHonest` needs. No retention is too small for this: with 0
days every delay is longer, and the status is as weak as the code makes it.

**`RateLimiterProofs`.**
`LimiterTypes`, `KeysExpire` (`Spec => []ExpiryPending`), `RetrySuffices` (`Spec => RetryAfterRight`),
`MemoryBounded` (`Spec => []MemoryWindowBound`) and `RedisBounded` (`Spec => []RedisWindowBound`).

* *Memory.* Threads append times out of order, so the deque is not sorted, and pruning stops
  at the first event that is young enough. `MemoryInv` says what is true nevertheless: the bucket holds
  the times read by the last hits admitted, each at most `MaxDelay` before its admission, and the hits
  before them are older than the window less `MaxDelay`. A window of that length therefore
  sees only hits in the bucket, whose length the limit bounds. `RetrySuffices` needs the head only: all events
  before the one that keeps a hit out are gone when it is.
* *Redis.* `RedisInv` splits the hits admitted at some p (`Parted`): those after p were counted by the
  key there is, and are at most the limit; those up to p were counted by keys that were gone
  a whole window before this key goes, and at most the limit of them are recent. When the key
  expires, p moves to the end; while it lives, the bound is twice the limit. A
  thread between INCR and EXPIRE owes a hit to the key and is the only one that does (`KeyInv`,
  `Owed`). If its EXPIRE is lost, the key stays and its count only grows, which lets nobody in.

**`ConnectionPoolProofs`.** `PoolRespected`: `Spec => []PoolTypeOK`. `LoopWaits`: `Spec =>
[]LoopWaitsBounded`, for any number of requests, connections, threads and users. `RequestStep`
reduces every action to what it does to one request and to the loop: it leaves the loop alone
(`Quiet`), calls Redis on it (`Calls`), blocks it, frees it, or makes a sync wait again (`Retries`).
The bound comes from `WaitsPaid`: a sync that waits has paid for each wait with a user, the first of
them before it began to wait, as `reload` follows a commit; so waits and the users left are never
more than `Users`. `PoolNotExceeded` is the cardinality argument. It is a number of waits and no
time: each of them takes at most the pool's timeout, but the call to Redis before the first, and a
query that waits for a lock, take as long as they take. That the loop does not stand still for ever,
if these end, is `RequestsEnd`, and liveness.

### The sync and its readers

**`SyncServiceProofs`.**
`SyncTypes`, `TablesAgree` (`Spec => []TablesConsistent`), `SyncCountsAddUp`
(`Spec => []CountsAddUp`), `SyncIsolatesFailures` (`Spec => []FailuresIsolated`), `SyncStores`
(`Spec => ImplementsStore`). A sync works on users it has read long ago, so the invariant `Inv` says
what it may still believe of them (`GoodRequest`, `Progress`): they have been given their ids,
and as long as all of them exist, its transaction is in order and only LeetCode has failed. This
survives what others do because a deleted user does not come back under its id (`GoodStays`): once
one of the users read is gone, it is gone for the rest of the sync. In `SyncStores` a step is
the store's action on the same rows; that a user deleted twice changes nothing the second time
is `TablesConsistent` again.

`Inv` also says of dates (`DatesGood`) that a sync which is about to store has read its date at most `MaxLate`
midnights ago, which is what the store asks of `Upsert`.

`SyncIsFresh` (`Spec => []SyncLeavesFresh`) and `TotalsRise` (`Spec => []TotalsNeverDrop`), for any
number of syncs and with answers that are zeros. `FreshInv` adds to `Inv` what the numbers are worth
(`Numbers`, and `SyncHonest` that it always holds): users still have the names a sync has read
(`Named`), nobody has solved less than when it began (`Begun`), each success has a snapshot that is
a zero or not below the count at the start of a sync that overlapped (`Stored`), and the answer it
carries is one of these too (`Answered`). For the totals, a date is calm if no overlapping syncs
were running when it began (`Calm`). Nothing is above what LeetCode has (`Bounded`); what is dated
before a calm night is not above what any running sync began with, for the users it has still to do
(`Overtaken`); and an answer that waits to be stored under a date before one is not above what the
other syncs began with, nor what is dated after it (`Waiting`). A sync that runs alone may take all
night: everything stored of the users it has still to do is older than itself (`Alone`).

`PastIsFrozen`: `Spec => Store!HistoryFrozen`, from `SyncStores` and what the store promises: a
snapshot does not change any more once its date ended more than `MaxLate` days ago.

**`LeaderboardProofs`.** `StoreHasNoOrphans` (`Spec => []NoOrphans`) and `StoreHistoryFrozen` (`Spec
=> HistoryFrozen`) are about the store itself: snapshots go with their user, and those of dates that
ended more than `MaxLate` days ago do not change. Both hold of the sync too (`TablesAgree`,
`PastIsFrozen`). `NoOrphans` is inductive because it includes that present users' ids have been
given out, which is why a new id meets no old snapshot.

`StatisticsCountUsers`: `LeaderboardSpec => []GlobalCountsItsUsers`. A user that the second query
adds up and the first did not count was created and given a snapshot in between, which takes two
commits. `CommitsPaid` counts just this: users that are new, and those of them with a
snapshot, are together at most as many as the commits.

`WeeklyIsExact`: `LeaderboardSpec => []WeeklyExact`. `ViewKept` relates the view of the first query
to the tables now: unless its user is gone, what it saw of dates that ended more than `MaxLate` days
before the query is there unchanged, and what it saw of others is there, perhaps with a new total.
`LastDay` and `SecondRow` give the dates the two queries choose, `SumOfOne` and `Difference`
evaluate the sums of an entry, each of which adds up one row.

The other theorems need to know what a sort and a loop over any number of users return. The
library's induction theorems cannot be used (they take an operator as a parameter), so what would be an
induction is an argument by a least counterexample: the set of cases where the claim fails is a
subset of Nat, and if it is not empty it has a least element (`WFMin`, by way of `NatClosed`), which the step
excludes.

* *Folds.* `FoldExists` shows that a fold over a finite set is well defined, by the sizes of its
  subsets (`Sizes`).
* *Sorts.* `OrderExists` shows that a finite set can be put in order, so the CHOOSE of `Sorted` has
  something to choose; `OrderFacts`, `EntriesSorted` and `IdsSorted` say what it chooses.
* *The loop.* `BestFold` turns the fold over the users into its iterations, `BestStep` keeps the
  loop invariant `BestOf`: the best player so far is the first of the most improved among those
  visited.

`TrendsAreComplete` (`TrendsCountEachSnapshot`): the trend has the dates of its window that have a
snapshot, each with the number and the sum of the snapshots of that very date, and those of the
first query for dates that could not change any more. `MostActiveAreRanked` (`MostActiveRanked`): a
slice of what is sorted (`SliceFacts`, `WindowFacts`), for any limit, is in order and leaves out
nobody who ranks before one it lists, by the active days or, if these are equal, by the total.
`MostImprovedIsBest` (`BestPlayerIsBest`): the loop, and the fact that the dates of the active
window do not depend on how much more the trend has fetched (`ActiveIsWindow`). `ResponsesAreTyped`
(`LeaderboardTypeOK`) builds on the ranking. All relate a response to two views of the tables, by
`ViewKept` again.

### What the proofs changed

* A restart whose cleanup deletes rows while a revocation is under way changes the table and ends the
  handler without a commit; proofs about commits stop there. `LoadedTokensDie` and `OnlyLateTokensSurvive`
  therefore speak of steps after which all rows are still there.
* What was stated for one thread or one sync, since overlaps break it, could be proved only under a
  hypothesis that the code does not ensure. `SecondTokenOvertaken`, `OnlyLateTokensSurvive`,
  `SyncLeavesFresh` and `TotalsNeverDrop` say instead which overlap it takes, and hold without one.
* `RateLimiter!admitted` counted hits per time. An argument about which hits a key has
  counted needs their order, so it is a sequence now.
* `Leaderboard` sorted with `SetToSortSeq` and added up the users of a date with `MapThenSumSet`, which
  take operators that the prover cannot apply. It has a `Sorted` of its own now, a CHOOSE of the
  sequence in order, and adds up with `SumFunction`, which mean the same.
* `Sessions` lets any step kill any token, since a session's end is all it is about. Which request may
  end whose session was therefore stated nowhere; `SessionsIsolated` states it.

### Only model-checked

* *Liveness* (`SyncFinishes`, `DueRowsGo`, `ShutdownEnds`, `RequestsEnd`): the prover does not reason about
  fairness or ENABLED.

All other properties of the passing runs are theorems. The three runs that
expect a violation are about properties that are false.

## Disagreements with the documentation

* **A reused token's family is not always revoked** (`tokens_reuse_race`). The comment in
  `app/api/routes/auth.py:180` says that reuse revokes "the entire family".
  `_revoke_token_family` revokes the rows its SELECT returned; a rotation that has
  passed its own checks and commits after that SELECT leaves a live token in the family. What
  holds is weaker: nothing else does (`OnlyLateTokensSurvive`).
* **The limiter's backend is not always surfaced** (`limiter_surfaced`). `src/README.md` says
  the mode is surfaced through monitoring; `backend_name` is the backend chosen at
  startup, also while hits fall back to memory.
* **Trace ids are not attached to the records of other loggers** (`logs_traced`). `app/main.py:71` adds
  the filter to the root logger, and `app/core/tracing.py:23` says "Attach trace_id to logging records
  when available". Python applies a logger's filters only to what is logged through that
  logger: the records that `security` and the libraries propagate reach the buffer
  without a trace id.

Met on the way and covered by properties that say what does hold: logins that overlap
exceed the cap on active sessions, as the count and the insert are two transactions
(`CapOvershootBounded`: by fewer than there are threads); two refreshes that
overlap both succeed (`SecondTokenOvertaken`: nothing else gives a session a second token);
a login or rotation survives a logout-all that had read the rows before (`OnlyLateTokensSurvive`);
limit hits per window is neither what the in-memory limiter nor what Redis guarantees
(`MemoryWindowBound`, `RedisWindowBound`); a user deleted during a sync, or a statement that fails,
may fail all users after it (`FailuresIsolated` excludes just these);
syncs that overlap may store older counts over newer ones, and an answer of LeetCode without counts stores zeros
(`TotalsNeverDrop` and `SyncLeavesFresh` say that these are the only ways to a wrong total); a snapshot may be
committed on a date that is over (`ImplementsStore`, with `MaxLate`); an access
token may be handed out for a session that is already over (`ExposureBounded` includes it); a
blocking call on the event loop keeps out those who would give a connection back
(`LoopWaitsBounded`, `RequestsEnd`), and one of them, to Redis, has no timeout;
a cleanup with a retention of 0 may be called ok although a row is due that a slow handler has stored since
(`OkMeansClean`).

Met and stated by no property: security events are logged at INFO, and since nothing sets the level of
the root logger, which is WARNING by default, they reach the buffer only where the
environment has configured logging otherwise (`LogCollector!RootLevel`).

## What is not modelled

* **The signature and encoding of tokens**: left to the JWT library.
* **The LeetCode exchange**: GraphQL, status codes and parsing are I/O. What comes of them is modelled: a
  total, zeros for an answer without counts, or an error. Of the counts only the total
  is kept.
* **`/health` and `/health/deps`**: they report settings and the outcome of one query each. **The
  parsing of probe specifications** and the settings a report repeats: text.
* **`/leaderboard/latest` and the snapshots of a user**: one SELECT each.
  **The dashboard's difficulty percentages**: floating point.
* **Configuration, schemas, migrations**: declarations, read once or run before the process serves
  requests; their values are the
  modules' CONSTANTS. `ConfigAssumption` is what the code needs of them.
* **PostgreSQL, SQLAlchemy, Redis, asyncio**: external. What is assumed of them is said
  under [The system](#the-system) and in the modules.

## Plan

Done: all components above that are not listed as left out, each with its runs, and theorems for all
properties of the passing runs but liveness.

Left:

1. *Several keys in the rate limiter*, and how a client's address becomes a key, if it proves to matter: the
   keys are independent in the code.
2. *Responses*: the status of a request whose session's close fails, or that fails after its commit
   (`app/api/routes/auth.py:268`).
3. *Readers beside the sync itself*: `Leaderboard` reads the abstract store. That the sync implements the
   store is proved; the composition of the two is not spelled out.
4. *Liveness by proof*, should the prover learn to.
