------------------------------- MODULE Pairing -------------------------------
(***************************************************************************)
(* tic_tac_toe_matchmaker::match of tic_tac_toe_game.hpp (:430-472): which *)
(* of the waiting sessions are put into a game together.                   *)
(*                                                                         *)
(* Sessions come in the order of an unordered_map, which may be any; each  *)
(* has the rating of its token.  In that order, each session that is not   *)
(* matched yet gets the nearest of those after it, the first of several,   *)
(* unless that is more than MaxDifference away.                            *)
(*                                                                         *)
(* A call does nothing until five seconds have passed (:437-439); when it  *)
(* pairs is left to the module that uses this one.                         *)
(***************************************************************************)
EXTENDS Integers, Sequences, FiniteSets, Functions

CONSTANT MaxDifference

ASSUME DifferenceAssumption == MaxDifference \in Nat

Score(a, b) == IF a < b THEN b - a ELSE a - b

InPairs(pairs) == UNION {{pair[1], pair[2]} : pair \in pairs}

\* Mutant of Candidates: who is matched already may be matched again.
AllLater(order, i, pairs) == i + 1..Len(order)

\* The places of the inner loop.
Candidates(order, i, pairs) ==
    {j \in i + 1..Len(order) : order[j] \notin InPairs(pairs)}

\* The first of those with the least score.
Nearest(order, rating, i, places) ==
    CHOOSE j \in places :
        \A k \in places :
            LET toJ == Score(rating[order[i]], rating[order[j]])
                toK == Score(rating[order[i]], rating[order[k]])
            IN  toJ < toK \/ (toJ = toK /\ j <= k)

Near(a, b) == Score(a, b) <= MaxDifference

\* The turn of the session at place i, after the turns before it.
Turn(order, rating, i, pairs) ==
    LET places  == Candidates(order, i, pairs)
        partner == order[Nearest(order, rating, i, places)]
    IN  IF order[i] \notin InPairs(pairs) /\ places # {}
              /\ Near(rating[order[i]], rating[partner])
          THEN pairs \cup {<<order[i], partner>>}
          ELSE pairs

\* The games of one call, by the order in which the map has its sessions.
Pairs(order, rating) ==
    LET after[i \in 0..Len(order)] ==
            IF i = 0 THEN {} ELSE Turn(order, rating, i, after[i - 1])
    IN  after[Len(order)]

------------------------------------------------------------------------------
(* What a good pairing is, whatever the order.                             *)

EachInOnePair(pairs) ==
    \A p, q \in pairs : p # q => {p[1], p[2]} \cap {q[1], q[2]} = {}

PairsNear(rating, pairs) ==
    \A p \in pairs : p[1] # p[2] /\ Score(rating[p[1]], rating[p[2]]) <= MaxDifference

NobodyLeftForNobody(sessions, rating, pairs) ==
    \A s, t \in sessions \ InPairs(pairs) :
        s # t => Score(rating[s], rating[t]) > MaxDifference
==============================================================================
