------------------------------ MODULE MCServer ------------------------------
(* Server for TLC: more pipelines than threads. *)
EXTENDS Server
=============================================================================
