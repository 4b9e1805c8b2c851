---------------------------- MODULE MCStatusPanel ----------------------------
(* StatusPanel for TLC. *)
EXTENDS StatusPanel
=============================================================================
