---------------------------- MODULE MCGameServer ----------------------------
(* Small instances of GameServer for TLC.                                   *)
EXTENDS GameServer, TLC

CONSTANTS p1, p2, valid, invalid

\* A player of a game and one whose token makes no game.
TwoTokens == {[player |-> p1, session |-> valid], [player |-> p2, session |-> invalid]}

OneToken == {[player |-> p1, session |-> valid]}
=============================================================================
