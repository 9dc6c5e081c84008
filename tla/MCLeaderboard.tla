---------------------------- MODULE MCLeaderboard ----------------------------
(* Leaderboard on small instances, for TLC.                                *)
EXTENDS Leaderboard

(* trend_days within the active window, in the future even, and beyond it. *)
SmallTrendDays == {-1, 2}

(* active_users_limit: a client may send a negative one.                   *)
SmallLimits == {-1, 1, 2}
=============================================================================
