--------------------------- MODULE MCAuthSession ---------------------------
(* AuthSession with two tabs that look alike, and accounts, calls and      *)
(* tokens that do.                                                         *)
EXTENDS AuthSession, TLC

CONSTANTS t1, t2, u1, u2, c1, c2, n1, n2, n3

TwoTabs == {t1, t2}
TwoAccounts == {u1, u2}
TwoCalls == {c1, c2}
ThreeTokens == {n1, n2, n3}

Alike == Permutations(TwoTabs) \cup Permutations(TwoAccounts) \cup Permutations(TwoCalls)
           \cup Permutations(ThreeTokens)
=============================================================================
