------------------------------ MODULE MCMonitor ------------------------------
(* CleanupLoop and Monitor on a small instance, for TLC.  Liveness is      *)
(* checked, so nothing is permuted.                                        *)
EXTENDS Monitor
=============================================================================
