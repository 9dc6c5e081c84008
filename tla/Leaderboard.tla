----------------------------- MODULE Leaderboard -----------------------------
(***************************************************************************)
(* The analytics of app/api/routes/leaderboard.py: the weekly comparison,  *)
(* the global statistics and the dashboard.  Each runs two queries in one  *)
(* transaction, but PostgreSQL's READ COMMITTED gives each query a view of *)
(* its own, so users and snapshots may change in between.  Readers do not  *)
(* change the tables, so one is enough to see what any of them may see.    *)
(* Of the counts of a snapshot only the total is kept: the others are      *)
(* added up in the same way.                                               *)
(***************************************************************************)
EXTENDS SnapshotStore, Integers, FiniteSetsExt, SequencesExt

CONSTANTS
  ActiveDays, \* the dashboard's window of 30 days
  TrendDays,  \* values of the dashboard's trend_days for which Since is a date
  Limits,     \* values of the dashboard's active_users_limit
  MaxCommits  \* bound on what is committed between the two queries

ASSUME LeaderboardAssumption ==
  /\ Ids \subseteq Nat  \* ids are ordered, as uuids are
  /\ Counts \subseteq Nat        \* a snapshot is its total
  /\ TrendDays \subseteq Int /\ Limits \subseteq Int
  /\ ActiveDays \in Nat /\ MaxCommits \in Nat /\ MaxDay \in Nat /\ MaxLate \in Nat
  /\ NULL \notin Counts /\ NULL \notin Int

VARIABLE reader \* the handler's stage, and what its first query saw and when

readVars == <<vars, reader>>

Stages == {"idle", "weekly", "global", "dashboard"}

Idle == [stage |-> "idle", users |-> {}, snapshots |-> [u \in Ids |-> NULL],
         today |-> 0, commits |-> 0]

-----------------------------------------------------------------------------
(* In what follows t is the snapshots table as a query saw it. *)
Dates(t, u) == {d \in Days : t[u][d] # NULL}

(* get_latest_snapshots: the users with a snapshot, and their last one. *)
Listed(t) == {u \in Ids : Dates(t, u) # {}}

LatestDate(t, u) == Max(Dates(t, u))

Latest(t, u) == t[u][LatestDate(t, u)]

(* Mutant of PreviousDates: the oldest snapshot first.                     *)
PreviousDatesAsc(t, u) ==
  {d \in Dates(t, u) : Cardinality({e \in Dates(t, u) : e < d}) = 1}

(* row_number() = 2, the newest snapshot first. *)
PreviousDates(t, u) ==
  {d \in Dates(t, u) : Cardinality({e \in Dates(t, u) : e > d}) = 1}

(* get_weekly_comparison for a user: its queries saw t and then t2.        *)
WeeklyEntry(t, t2, u) ==
  LET total    == Latest(t, u)
      previous == {t2[u][d] : d \in PreviousDates(t2, u)}
  IN  [date |-> LatestDate(t, u), total |-> total,
       previous_total |-> IF previous = {} THEN NULL ELSE Max(previous),
       delta_total |-> total - MapThenSumSet(LAMBDA p : p, previous)]

(* Mutant of GlobalStats: the users are counted last.                      *)
GlobalStatsLate(counted, t) ==
  [users |-> Cardinality(users), solvers |-> Listed(reader.snapshots)]

(* global_stats: the users are counted first.  The response has the sums   *)
(* over solvers, the users of the second query.                            *)
GlobalStats(counted, t) ==
  [users |-> Cardinality(counted), solvers |-> Listed(t)]

-----------------------------------------------------------------------------
(* analytics_dashboard on day n.  A trend_days so large that Since is no   *)
(* date is an OverflowError in the code, and none of TrendDays.            *)
Since(n, trend) == Min({n - trend, n - ActiveDays})

(* The second query: the rows since the earlier of two windows.            *)
Fetched(t, n, trend) ==
  {r \in Ids \X Days : r[2] \in Dates(t, r[1]) /\ r[2] >= Since(n, trend)}

(* active_snapshots of a user, among the fetched rows.                     *)
Active(rows, n, u) == {d \in Days : <<u, d>> \in rows /\ d >= n - ActiveDays}

(* Mutant of Before: the total does not count.                             *)
BeforeByDays(a, b) ==
  \/ a.active_days > b.active_days
  \/ a.active_days = b.active_days /\ a.user < b.user

(* The sort by (-active_days, -total_solved) is stable, and the entries    *)
(* are made in the order of the ids.                                       *)
Before(a, b) ==
  \/ a.active_days > b.active_days
  \/ a.active_days = b.active_days /\ a.total_solved > b.total_solved
  \/ [a EXCEPT !.user = b.user] = b /\ a.user < b.user

(* The elements of S in an order that leaves no choice.                    *)
Sorted(S, Op(_, _)) ==
  CHOOSE seq \in SetToSeqs(S) :
    \A i, j \in DOMAIN seq : i < j => Op(seq[i], seq[j])

(* seq[:n], where a negative n counts from the end.                        *)
Slice(seq, n) ==
  SubSeq(seq, 1, IF n >= 0 THEN Min({n, Len(seq)}) ELSE Len(seq) + n)

MostActiveUsers(t, n, rows, limit) ==
  Slice(Sorted({[user |-> u, active_days |-> Cardinality(Active(rows, n, u)),
                 total_solved |-> t[u][Max(Active(rows, n, u))]] :
                  u \in {v \in Ids : Active(rows, n, v) # {}}}, Before),
        limit)

Improvement(t, A) ==
  IF Cardinality(A) < 2 THEN 0 ELSE t[Max(A)] - t[Min(A)]

(* Mutant of Better: the last of the equally improved.                     *)
BetterOrEqual(improvement, best) ==
  improvement > 0 /\ improvement >= best.improvement

Better(improvement, best) == improvement > best.improvement

(* The loop over snapshots_by_user, in the order of the ids.               *)
BestPlayer(t, n, rows) ==
  FoldLeft(LAMBDA best, u :
             LET i == Improvement(t[u], Active(rows, n, u))
             IN  IF Better(i, best) THEN [user |-> u, improvement |-> i] ELSE best,
           [user |-> NULL, improvement |-> 0],
           Sorted({r[1] : r \in rows}, <))

(* Mutant of TrendDates: the dates of the active window.                   *)
TrendDatesActive(rows, n, trend) ==
  {d \in Days : d >= n - ActiveDays /\ \E u \in Ids : <<u, d>> \in rows}

TrendDates(rows, n, trend) ==
  {d \in Days : d >= n - trend /\ \E u \in Ids : <<u, d>> \in rows}

(* The rows of a date, added up.                                           *)
GlobalTrends(t, n, rows, trend) ==
  [d \in TrendDates(rows, n, trend) |->
     LET S == {u \in Ids : <<u, d>> \in rows}
     IN  [total |-> SumFunction([u \in S |-> t[u][d]]),
          user_count |-> Cardinality(S)]]

-----------------------------------------------------------------------------
LeaderboardInit == Init /\ reader = Idle

(* The first query.  The dashboard that finds no snapshot returns at once. *)
Query(stage) ==
  /\ reader.stage = "idle"
  /\ stage = "dashboard" => Listed(snapshots) # {}
  /\ reader' = [stage |-> stage, users |-> users, snapshots |-> snapshots,
                today |-> today, commits |-> 0]
  /\ UNCHANGED vars

(* The second query, and the response.  What it holds is a function of     *)
(* what the two queries saw, so the properties compute it.                 *)
Respond ==
  /\ reader.stage # "idle"
  /\ reader' = Idle
  /\ UNCHANGED vars

Commit ==
  /\ Write
  /\ IF reader.stage = "idle"
       THEN UNCHANGED reader
       ELSE /\ reader.commits < MaxCommits
            /\ reader' = [reader EXCEPT !.commits = @ + 1]

LeaderboardNext ==
  \/ \E stage \in Stages \ {"idle"} : Query(stage)
  \/ Respond
  \/ Commit
  \/ Midnight /\ UNCHANGED reader

LeaderboardSpec == LeaderboardInit /\ [][LeaderboardNext]_readVars
-----------------------------------------------------------------------------
Table == [Ids -> [Days -> Counts \cup {NULL}]]

(* The tables keep their types, and a response is of the declared schema.  *)
LeaderboardTypeOK ==
  /\ today \in Days /\ used \subseteq Ids /\ users \subseteq used
  /\ snapshots \in Table
  /\ reader.stage \in Stages /\ reader.commits \in 0 .. MaxCommits
  /\ reader.stage # "idle" => reader.snapshots \in Table
  /\ reader.stage = "dashboard" =>
       \A trend \in TrendDays, limit \in Limits :
         LET rows == Fetched(snapshots, reader.today, trend)
         IN  MostActiveUsers(snapshots, reader.today, rows, limit)
               \in Seq([user : Ids, active_days : Nat, total_solved : Nat])

(* The weekly comparison joins two queries.  Unless the user was deleted   *)
(* or a later snapshot of it stored in between, an entry is the difference *)
(* to the date before, even if that one was stored or overwritten late.    *)
(* Of a deleted user it is the whole total; and if the next snapshot was   *)
(* stored in between, the date is compared to itself: the difference is    *)
(* what was overwritten, mostly zero.                                      *)
WeeklyExact ==
  reader.stage = "weekly" =>
    \A u \in Listed(reader.snapshots) :
      LET t       == reader.snapshots[u]
          last    == LatestDate(reader.snapshots, u)
          earlier == {d \in Dates(snapshots, u) : d < last}
          later   == {d \in Dates(snapshots, u) : d > last}
          entry   == WeeklyEntry(reader.snapshots, snapshots, u)
      IN  /\ u \in users /\ later = {} =>
               entry.delta_total =
                 t[last] - (IF earlier = {} THEN 0 ELSE snapshots[u][Max(earlier)])
          /\ u \notin users =>
               entry.previous_total = NULL /\ entry.delta_total = t[last]
          /\ u \in users /\ Cardinality(later) = 1 =>
               entry.delta_total = t[last] - snapshots[u][last]

(* It takes two commits between its queries for the global statistics to   *)
(* add up the totals of more users than they count.                        *)
GlobalCountsItsUsers ==
  reader.stage = "global" =>
    LET stats == GlobalStats(reader.users, snapshots)
    IN  Cardinality(stats.solvers) <= stats.users + reader.commits \div 2

(* The improvement of a user over the active window, from the table alone. *)
Improved(t, n, u, i) ==
  \E c, d \in Dates(t, u) :
    /\ n - ActiveDays <= c /\ c < d
    /\ \A e \in Dates(t, u) : n - ActiveDays <= e => c <= e /\ e <= d
    /\ i = t[u][d] - t[u][c]

Gains == UNION {{a - b : b \in Counts} : a \in Counts}

(* The most improved player is: nobody improved more, nobody before it in  *)
(* the order of the ids as much, and nobody is named if nobody improved;   *)
(* whatever trend_days is, and whatever happens between the two queries.   *)
BestPlayerIsBest ==
  reader.stage = "dashboard" =>
    \A trend \in TrendDays :
      LET n    == reader.today
          best == BestPlayer(snapshots, n, Fetched(snapshots, n, trend))
      IN  /\ \A u \in Ids, i \in Gains :
               Improved(snapshots, n, u, i) =>
                 i <= (IF best.user = NULL \/ u >= best.user
                         THEN best.improvement ELSE best.improvement - 1)
          /\ best.user = NULL <=> best.improvement = 0
          /\ best.user # NULL =>
               Improved(snapshots, n, best.user, best.improvement)

(* The most active users are listed by the number of their active days and *)
(* then by total; who is left out for the limit ranks no higher, by both,  *)
(* than who is listed; and the total of a user whose snapshots were left   *)
(* alone between the two queries is the one the difficulty distribution    *)
(* counts.                                                                 *)
MostActiveRanked ==
  reader.stage = "dashboard" =>
    \A trend \in TrendDays, limit \in Limits :
      LET n == reader.today
          list == MostActiveUsers(snapshots, n, Fetched(snapshots, n, trend), limit)
          listed == {list[i].user : i \in 1 .. Len(list)}
          Window(u) == {d \in Dates(snapshots, u) : d >= n - ActiveDays}
          Days30(u) == Cardinality(Window(u))
      IN  /\ \A i, j \in 1 .. Len(list) :
               i < j => /\ list[i].user # list[j].user
                        /\ list[i].active_days >= list[j].active_days
                        /\ list[i].active_days = list[j].active_days =>
                             list[i].total_solved >= list[j].total_solved
          /\ \A u \in Ids \ listed, i \in 1 .. Len(list) :
               \/ Days30(u) < list[i].active_days
               \/ /\ Days30(u) = list[i].active_days
                  /\ snapshots[u][Max(Window(u))] <= list[i].total_solved
          /\ limit >= Cardinality({u \in Ids : Days30(u) > 0}) =>
               listed = {u \in Ids : Days30(u) > 0}
          /\ \A i \in 1 .. Len(list) :
               snapshots[list[i].user] = reader.snapshots[list[i].user] =>
                 list[i].total_solved = Latest(reader.snapshots, list[i].user)

(* The trend has the dates of its window with a snapshot, each with the    *)
(* number and the sum of its snapshots.  Of a date that ended more than    *)
(* MaxLate days before the first query they are those that query saw, but  *)
(* for the users deleted since: a trend's past does not change any more.   *)
TrendsCountEachSnapshot ==
  reader.stage = "dashboard" =>
    \A trend \in TrendDays :
      LET n      == reader.today
          trends == GlobalTrends(snapshots, n, Fetched(snapshots, n, trend), trend)
          Solvers(t, d) == {u \in users : t[u][d] # NULL}
          Reports(t, d) ==
            /\ trends[d].user_count = Cardinality(Solvers(t, d))
            /\ trends[d].total = SumFunction([u \in Solvers(t, d) |-> t[u][d]])
      IN  /\ DOMAIN trends =
               {d \in Days : d >= n - trend /\ Solvers(snapshots, d) # {}}
          /\ \A d \in DOMAIN trends :
               /\ Reports(snapshots, d)
               /\ d + MaxLate < n => Reports(reader.snapshots, d)
=============================================================================
