----------------------------- MODULE MCWorkspace -----------------------------
(* Workspace for TLC: an HR user, one more address, a team of each company, *)
(* a member and a meeting; two requests at a time.                          *)
EXTENDS Workspace, TLC

CONSTANTS e1, e2, t1, t2, m1, g1, r1, r2

Ids == Permutations({r1, r2})
=============================================================================
