---------------------------- MODULE SnapshotStore ----------------------------
(***************************************************************************)
(* What the users and snapshots tables promise to those who read them: one *)
(* snapshot per user and date, written on its date or soon after, gone     *)
(* with its user.  SyncService is shown to implement this; Leaderboard     *)
(* reads it.                                                               *)
(***************************************************************************)
EXTENDS Naturals

CONSTANTS
  Ids,    \* primary keys of users
  Counts, \* what a snapshot may record
  NULL,   \* no row
  MaxDay, \* bound on the days that pass
  MaxLate \* bound on the midnights between a date and its COMMIT

VARIABLES
  today,
  used,     \* ids that were given out, once each
  users,    \* ids of the rows of the users table
  snapshots \* the snapshots table: the counts of each user and date

vars == <<today, used, users, snapshots>>

Days == 0 .. MaxDay

Init ==
  /\ today = 0
  /\ used = {}
  /\ users = {}
  /\ snapshots = [u \in Ids |-> [d \in Days |-> NULL]]

Midnight ==
  /\ today < MaxDay
  /\ today' = today + 1
  /\ UNCHANGED <<used, users, snapshots>>

(* Mutant of Create: an id may be given out again.                         *)
CreateReused(u) ==
  /\ u \notin users
  /\ users' = users \cup {u}
  /\ UNCHANGED <<today, used, snapshots>>

Create(u) ==
  /\ u \notin used
  /\ used' = used \cup {u}
  /\ users' = users \cup {u}
  /\ UNCHANGED <<today, snapshots>>

Delete(u) ==
  /\ u \in users
  /\ users' = users \ {u}
  /\ snapshots' = [snapshots EXCEPT ![u] = [d \in Days |-> NULL]]
  /\ UNCHANGED <<today, used>>

(* The date is read before the COMMIT. *)
Upsert(u, d, c) ==
  /\ u \in users
  /\ d <= today /\ today <= d + MaxLate
  /\ snapshots' = [snapshots EXCEPT ![u][d] = c]
  /\ UNCHANGED <<today, used, users>>

Write ==
  \/ \E u \in Ids : Create(u)
  \/ \E u \in Ids : Delete(u)
  \/ \E u \in Ids, d \in Days, c \in Counts : Upsert(u, d, c)

Next == Midnight \/ Write

Spec == Init /\ [][Next]_vars
-----------------------------------------------------------------------------
(* Snapshots go with their user, and ids of deleted users do not come back *)
(* to inherit any: the foreign key and its ON DELETE CASCADE.              *)
NoOrphans ==
  /\ users \subseteq used
  /\ \A u \in Ids, d \in Days : snapshots[u][d] # NULL => u \in users

(* The past is immutable: the snapshots of dates that ended more than      *)
(* MaxLate days ago do not change, only deleting the user removes them.  A *)
(* sync that waits for LeetCode over midnight writes the new date; one     *)
(* whose INSERT or COMMIT does writes the old one.                         *)
HistoryFrozen ==
  [][\A u \in Ids, d \in Days :
       d + MaxLate < today /\ u \in users' =>
         snapshots'[u][d] = snapshots[u][d]]_vars
=============================================================================
