--------------------------- MODULE MCConnectionPool ---------------------------
(* ConnectionPool on a small instance, for TLC.  Liveness is checked, so   *)
(* nothing is permuted.                                                    *)
EXTENDS ConnectionPool
=============================================================================
