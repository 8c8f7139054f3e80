---------------------------- MODULE MCBaseServer ----------------------------
(* Small instances of BaseServer for TLC.                                   *)
EXTENDS BaseServer, TLC

CONSTANTS h1, h2, h3, p1, p2, s1, s2, r1, r2, w1, w2

A == [player |-> p1, session |-> s1]
B == [player |-> p2, session |-> s1]

TokenA == {A}
TokensAB == {A, B}

Symmetry == Permutations(Hdls) \cup Permutations(Workers) \cup Permutations(Results)
==============================================================================
