---------------------------- MODULE MCLogCollector ----------------------------
(* LogCollector on a small instance, for TLC.                              *)
EXTENDS LogCollector
=============================================================================
