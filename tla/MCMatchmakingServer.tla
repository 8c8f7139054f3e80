------------------------- MODULE MCMatchmakingServer -------------------------
(* Small instances of MatchmakingServer for TLC.                            *)
EXTENDS MatchmakingServer, TLC

CONSTANTS p1, p2, s1, s2

\* Two players who wait for a match, one each.
TwoTokens == {[player |-> p1, session |-> s1], [player |-> p2, session |-> s2]}
==============================================================================
