---------------------------- MODULE MCSyncService ----------------------------
(* SyncService on small instances, for TLC.                                *)
EXTENDS SyncService, TLC

(* No definition tells two names or two ids apart, and only Syncers tells  *)
(* requests apart: here all of them may sync.                              *)
Symmetry == Permutations(Usernames) \cup Permutations(Ids)
              \cup Permutations(Requests)
=============================================================================
