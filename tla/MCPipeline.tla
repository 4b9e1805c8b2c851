----------------------------- MODULE MCPipeline -----------------------------
(* Instances of Pipeline for TLC: two meetings on one host. *)
EXTENDS Pipeline, TLC

CONSTANTS s1, s2

(* A meeting with two recipients and one without any. *)
MixedEmails == (s1 :> 2) @@ (s2 :> 0)
=============================================================================
