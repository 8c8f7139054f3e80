----------------------- MODULE TicTacToeExample_proofs -----------------------
(***************************************************************************)
(* What holds of the example for any number of accounts, sessions, tokens  *)
(* and ratings: of its matcher, that it pairs whom it should; of its       *)
(* accounts, that a session is ended once, and whose it is.                *)
(***************************************************************************)
EXTENDS TicTacToeExample, WellFoundedInduction, FiniteSetTheorems, TLAPS

USE DifferenceAssumption

------------------------------------------------------------------------------
(* The matcher, for any sessions, ratings and order.  Its loop is a         *)
(* recursive function; what it returns is followed turn by turn, with the   *)
(* order of the numbers in place of an induction scheme.                    *)

(* A set of numbers that is not empty has a least one.                      *)
LEMMA LeastNumber ==
    ASSUME NEW T \in SUBSET Nat, T # {}
    PROVE  \E x \in T : \A y \in T : x <= y
<1>1. PICK x \in T : \A y \in T : ~(<<y, x>> \in OpToRel(<, Nat))
    <2>1. IsWellFoundedOn(OpToRel(<, Nat), Nat)
        BY NatLessThanWellFounded, Zenon
    <2>2. QED
        BY <2>1, WFMin, Zenon
<1>2. \A y \in T : ~(y < x)
    BY <1>1, Zenon DEF OpToRel
<1>3. QED
    BY <1>2, SMT

(* What holds after no turn, and after a turn if it did before, holds after *)
(* all of them.                                                             *)
LEMMA EveryTurn ==
    ASSUME NEW n \in Nat, NEW G,
           0 \in G, \A i \in 1..n : i - 1 \in G => i \in G
    PROVE  0..n \subseteq G
<1> DEFINE T == {i \in 0..n : i \notin G}
<1>1. SUFFICES ASSUME T # {} PROVE FALSE
    OBVIOUS
<1>2. T \in SUBSET Nat
    OBVIOUS
<1>3. PICK x \in T : \A y \in T : x <= y
    <2> HIDE DEF T
    <2> QED
        BY <1>1, <1>2, LeastNumber
<1>4. x \in 1..n /\ x \notin G
    BY <1>3
<1>5. x - 1 \in 0..n /\ x - 1 \notin T
    BY <1>3, <1>4
<1>6. QED
    BY <1>4, <1>5

(* The games after each turn of the outer loop.                             *)
Turns(after, order, rating) ==
    /\ after[0] = {}
    /\ \A i \in 1..Len(order) : after[i] = Turn(order, rating, i, after[i - 1])

(* The recursive function is there, and its turns are those of the loop.    *)
LEMMA PairsByTurns ==
    ASSUME NEW order, NEW rating, Len(order) \in Nat
    PROVE  \E after : Turns(after, order, rating) /\ Pairs(order, rating) = after[Len(order)]
<1> DEFINE n == Len(order)
           Step(f, i) == IF i = 0 THEN {} ELSE Turn(order, rating, i, f[i - 1])
           G == {k \in 0..n : \E f : f = [i \in 0..k |-> Step(f, i)]}
<1>1. 0 \in G
    <2> DEFINE f == [i \in 0..0 |-> {}]
    <2>1. \A i \in 0..0 : Step(f, i) = {}
        OBVIOUS
    <2>2. f = [i \in 0..0 |-> Step(f, i)]
        BY <2>1
    <2> HIDE DEF f
    <2>3. QED
        BY <2>2
<1>2. ASSUME NEW k \in 1..n, k - 1 \in G PROVE k \in G
    <2>1. PICK f : f = [i \in 0..k - 1 |-> Step(f, i)]
        BY <1>2
    <2> DEFINE g == [i \in 0..k |-> IF i = k THEN Turn(order, rating, k, f[k - 1]) ELSE f[i]]
    <2>2. k \in Nat \ {0}
        OBVIOUS
    <2>3. \A i \in 0..k - 1 : g[i] = f[i]
        BY <2>2
    <2>4. \A i \in 0..k : i # 0 => g[i - 1] = f[i - 1]
        BY <2>2, <2>3
    <2>5. \A i \in 0..k : g[i] = Step(g, i)
        <3>1. SUFFICES ASSUME NEW i \in 0..k PROVE g[i] = Step(g, i)
            OBVIOUS
        <3>2. CASE i = k
            <4>1. g[i] = Turn(order, rating, k, f[k - 1])
                BY <3>2, <2>2
            <4>2. QED
                BY <2>2, <2>4, <3>2, <4>1
        <3>3. CASE i \in 0..k - 1
            <4>1. f[i] = Step(f, i)
                BY <2>1, <3>3
            <4>2. i # 0 => g[i - 1] = f[i - 1]
                BY <2>4
            <4>3. g[i] = f[i]
                BY <2>3, <3>3
            <4> HIDE DEF g
            <4>4. QED
                BY <4>1, <4>2, <4>3
        <3>4. QED
            BY <2>2, <3>2, <3>3
    <2>6. g = [i \in 0..k |-> g[i]]
        OBVIOUS
    <2> HIDE DEF g
    <2>7. g = [i \in 0..k |-> Step(g, i)]
        BY <2>5, <2>6
    <2>8. QED
        BY <2>7
<1>3. n \in G
    <2> HIDE DEF G, n
    <2>1. n \in Nat
        BY DEF n
    <2>2. 0..n \subseteq G
        BY <1>1, <1>2, <2>1, EveryTurn
    <2>3. QED
        BY <2>1, <2>2
<1> DEFINE after == CHOOSE f : f = [i \in 0..n |-> Step(f, i)]
<1>4. after = [i \in 0..n |-> Step(after, i)]
    <2>1. \E f : f = [i \in 0..n |-> Step(f, i)]
        BY <1>3
    <2>2. QED
        BY <2>1, Zenon
<1>5. Pairs(order, rating) = after[n]
    BY Zenon DEF Pairs
<1> HIDE DEF after
<1>6. after[0] = {}
    BY <1>4
<1>7. \A i \in 1..n : after[i] = Turn(order, rating, i, after[i - 1])
    <2>1. SUFFICES ASSUME NEW i \in 1..n PROVE after[i] = Turn(order, rating, i, after[i - 1])
        OBVIOUS
    <2>2. i \in 0..n /\ i # 0
        OBVIOUS
    <2> HIDE DEF n
    <2>3. after[i] = Step(after, i)
        BY <1>4, <2>2
    <2>4. QED
        BY <2>2, <2>3
<1>8. QED
    BY <1>5, <1>6, <1>7 DEF Turns

(* A score is how far two ratings are from each other.                      *)
LEMMA ScoreFacts ==
    ASSUME NEW a \in Int, NEW b \in Int
    PROVE  Score(a, b) \in Nat /\ Score(a, b) = Score(b, a)
BY DEF Score

(* Of some places one is the nearest.                                       *)
LEMMA NearestFound ==
    ASSUME NEW order, NEW rating, NEW i, NEW places \in SUBSET Nat, places # {},
           \A j \in places : Score(rating[order[i]], rating[order[j]]) \in Nat
    PROVE  /\ Nearest(order, rating, i, places) \in places
           /\ \A k \in places :
                 Score(rating[order[i]], rating[order[Nearest(order, rating, i, places)]])
                    <= Score(rating[order[i]], rating[order[k]])
<1> DEFINE To(j) == Score(rating[order[i]], rating[order[j]])
           First(j) == \A k \in places : To(j) < To(k) \/ (To(j) = To(k) /\ j <= k)
<1>1. \A j \in places : To(j) \in Nat
    OBVIOUS
<1>2. Nearest(order, rating, i, places) = CHOOSE j \in places : First(j)
    BY Zenon DEF Nearest
<1> HIDE DEF To
<1>3. PICK m \in {To(j) : j \in places} : \A y \in {To(j) : j \in places} : m <= y
    <2>1. {To(j) : j \in places} \in SUBSET Nat /\ {To(j) : j \in places} # {}
        BY <1>1
    <2>2. QED
        BY <2>1, LeastNumber
<1>4. PICK c \in {j \in places : To(j) = m} : \A y \in {j \in places : To(j) = m} : c <= y
    <2>1. {j \in places : To(j) = m} \in SUBSET Nat /\ {j \in places : To(j) = m} # {}
        BY <1>3
    <2>2. QED
        BY <2>1, LeastNumber
<1>5. c \in places /\ First(c)
    <2>1. SUFFICES ASSUME NEW k \in places PROVE To(c) < To(k) \/ (To(c) = To(k) /\ c <= k)
        BY <1>4
    <2>2. To(c) = m /\ m <= To(k) /\ To(k) \in Nat /\ m \in Nat
        BY <1>1, <1>3, <1>4
    <2>3. QED
        BY <1>4, <2>2
<1> DEFINE d == Nearest(order, rating, i, places)
<1>6. d \in places /\ First(d)
    <2> HIDE DEF First
    <2>1. QED
        BY <1>2, <1>5
<1>7. \A k \in places : To(d) <= To(k)
    <2> HIDE DEF d
    <2>1. QED
        BY <1>1, <1>6
<1>8. QED
    BY <1>6, <1>7 DEF To

(* What one turn does: nothing, or one game with a session near enough.     *)
LEMMA TurnFacts ==
    ASSUME NEW order, NEW rating, Len(order) \in Nat, NEW i \in 1..Len(order), NEW pairs,
           \A j \in 1..Len(order) : rating[order[j]] \in Int
    PROVE  \/ /\ Turn(order, rating, i, pairs) = pairs
              /\ \/ order[i] \in InPairs(pairs)
                 \/ \A j \in i + 1..Len(order) :
                       order[j] \in InPairs(pairs) \/ ~Near(rating[order[i]], rating[order[j]])
           \/ /\ order[i] \notin InPairs(pairs)
              /\ \E j \in i + 1..Len(order) :
                    /\ order[j] \notin InPairs(pairs)
                    /\ Near(rating[order[i]], rating[order[j]])
                    /\ Turn(order, rating, i, pairs) = pairs \cup {<<order[i], order[j]>>}
<1> DEFINE n == Len(order)
           places == Candidates(order, i, pairs)
           d == Nearest(order, rating, i, places)
<1>1. /\ places = {j \in i + 1..n : order[j] \notin InPairs(pairs)}
      /\ places \in SUBSET Nat
      /\ \A j \in i + 1..n : Score(rating[order[i]], rating[order[j]]) \in Nat
    <2>1. places = {j \in i + 1..n : order[j] \notin InPairs(pairs)}
        BY DEF Candidates
    <2>2. \A j \in i + 1..n : j \in 1..n
        OBVIOUS
    <2>3. places \in SUBSET Nat
        <3> HIDE DEF places
        <3>1. QED
            BY <2>1
    <2>4. \A j \in i + 1..n : Score(rating[order[i]], rating[order[j]]) \in Nat
        BY <2>2, ScoreFacts
    <2>5. QED
        BY <2>1, <2>3, <2>4
<1>2. Turn(order, rating, i, pairs) =
        IF order[i] \notin InPairs(pairs) /\ places # {}
              /\ Near(rating[order[i]], rating[order[d]])
          THEN pairs \cup {<<order[i], order[d]>>}
          ELSE pairs
    BY Zenon DEF Turn
<1> HIDE DEF places
<1>3. places # {} =>
        /\ d \in places
        /\ \A k \in places : Score(rating[order[i]], rating[order[d]])
                                <= Score(rating[order[i]], rating[order[k]])
    BY <1>1, NearestFound
<1> HIDE DEF d
<1>4. CASE order[i] \in InPairs(pairs) \/ places = {}
    BY <1>1, <1>2, <1>4
<1>5. CASE order[i] \notin InPairs(pairs) /\ places # {}
           /\ Near(rating[order[i]], rating[order[d]])
    BY <1>1, <1>2, <1>3, <1>5
<1>6. CASE order[i] \notin InPairs(pairs) /\ places # {}
           /\ ~Near(rating[order[i]], rating[order[d]])
    <2>1. ASSUME NEW j \in places PROVE ~Near(rating[order[i]], rating[order[j]])
        <3>1. /\ Score(rating[order[i]], rating[order[d]]) \in Nat
              /\ Score(rating[order[i]], rating[order[j]]) \in Nat
            BY <1>1, <1>3
        <3>2. Score(rating[order[i]], rating[order[d]]) <= Score(rating[order[i]], rating[order[j]])
            BY <1>3
        <3>3. QED
            BY <1>6, <3>1, <3>2 DEF Near
    <2>2. QED
        BY <1>1, <1>2, <1>6, <2>1
<1>7. QED
    BY <1>4, <1>5, <1>6

(* The games after k turns: each is of two sessions near enough, the first  *)
(* of them first in the order, no session is in two of them, and of the     *)
(* sessions that had their turn none was left out for nothing.              *)
GoodSoFar(pairs, k, order, rating) ==
    /\ \A p \in pairs : \E a, b \in 1..Len(order) :
          /\ a < b /\ p = <<order[a], order[b]>>
          /\ Near(rating[order[a]], rating[order[b]])
    /\ EachInOnePair(pairs)
    /\ \A a \in 1..k, b \in 1..Len(order) :
          a < b => \/ order[a] \in InPairs(pairs)
                   \/ order[b] \in InPairs(pairs)
                   \/ ~Near(rating[order[a]], rating[order[b]])

(* Whom one more game takes.                                                *)
LEMMA OneMoreGame ==
    ASSUME NEW pairs, NEW x, NEW y
    PROVE  /\ InPairs(pairs \cup {<<x, y>>}) = InPairs(pairs) \cup {x, y}
           /\ \A p \in pairs : p[1] \in InPairs(pairs) /\ p[2] \in InPairs(pairs)
<1>1. <<x, y>>[1] = x /\ <<x, y>>[2] = y
    OBVIOUS
<1>2. QED
    BY <1>1 DEF InPairs

(* Each turn keeps the games good.                                          *)
LEMMA TurnKeeps ==
    ASSUME NEW order, NEW rating, Len(order) \in Nat, NEW i \in 1..Len(order), NEW pairs,
           \A j \in 1..Len(order) : rating[order[j]] \in Int,
           \A a, b \in 1..Len(order) : a # b => order[a] # order[b],
           GoodSoFar(pairs, i - 1, order, rating)
    PROVE  GoodSoFar(Turn(order, rating, i, pairs), i, order, rating)
<1> DEFINE n == Len(order)
           new == Turn(order, rating, i, pairs)
<1>s. SUFFICES GoodSoFar(new, i, order, rating)
    OBVIOUS
<1>1. n \in Nat /\ i \in 1..n /\ i - 1 \in Nat
    OBVIOUS
<1>2. \A a \in 1..i : a \in 1..i - 1 \/ a = i
    BY <1>1
<1>g. /\ \A p \in pairs : \E a, b \in 1..n :
            /\ a < b /\ p = <<order[a], order[b]>>
            /\ Near(rating[order[a]], rating[order[b]])
      /\ EachInOnePair(pairs)
      /\ \A a \in 1..i - 1, b \in 1..n :
            a < b => \/ order[a] \in InPairs(pairs)
                     \/ order[b] \in InPairs(pairs)
                     \/ ~Near(rating[order[a]], rating[order[b]])
    BY DEF GoodSoFar
<1>t. \/ /\ new = pairs
         /\ \/ order[i] \in InPairs(pairs)
            \/ \A j \in i + 1..n :
                  order[j] \in InPairs(pairs) \/ ~Near(rating[order[i]], rating[order[j]])
      \/ /\ order[i] \notin InPairs(pairs)
         /\ \E j \in i + 1..n :
               /\ order[j] \notin InPairs(pairs)
               /\ Near(rating[order[i]], rating[order[j]])
               /\ new = pairs \cup {<<order[i], order[j]>>}
    BY TurnFacts, SMTT(20)
<1> HIDE DEF n
<1>3. CASE /\ new = pairs
           /\ \/ order[i] \in InPairs(pairs)
              \/ \A j \in i + 1..n :
                    order[j] \in InPairs(pairs) \/ ~Near(rating[order[i]], rating[order[j]])
    <2>1. \A b \in 1..n : i < b => b \in i + 1..n
        BY <1>1
    <2>2. \A a \in 1..i, b \in 1..n :
            a < b => \/ order[a] \in InPairs(pairs)
                     \/ order[b] \in InPairs(pairs)
                     \/ ~Near(rating[order[a]], rating[order[b]])
        BY <1>2, <1>3, <1>g, <2>1
    <2> HIDE DEF new
    <2>3. QED
        BY <1>3, <1>g, <2>2 DEF GoodSoFar, n
<1>4. ASSUME order[i] \notin InPairs(pairs),
             NEW j \in i + 1..n, order[j] \notin InPairs(pairs),
             Near(rating[order[i]], rating[order[j]]),
             new = pairs \cup {<<order[i], order[j]>>}
      PROVE  GoodSoFar(new, i, order, rating)
    <2> HIDE DEF new
    <2>1. j \in 1..n /\ i < j /\ order[i] # order[j]
        BY <1>1 DEF n
    <2>2. /\ InPairs(new) = InPairs(pairs) \cup {order[i], order[j]}
          /\ \A p \in pairs : p[1] \in InPairs(pairs) /\ p[2] \in InPairs(pairs)
        BY <1>4, OneMoreGame
    <2>3. \A p \in new : \E a, b \in 1..n :
            /\ a < b /\ p = <<order[a], order[b]>>
            /\ Near(rating[order[a]], rating[order[b]])
        BY <1>1, <1>4, <1>g, <2>1
    <2>4. EachInOnePair(new)
        <3>1. SUFFICES ASSUME NEW p \in new, NEW q \in new, p # q
                       PROVE  {p[1], p[2]} \cap {q[1], q[2]} = {}
            BY DEF EachInOnePair
        <3>2. CASE p \in pairs /\ q \in pairs
            BY <1>g, <3>1, <3>2 DEF EachInOnePair
        <3>3. CASE p \in pairs /\ q = <<order[i], order[j]>>
            BY <1>4, <2>2, <3>3
        <3>4. CASE q \in pairs /\ p = <<order[i], order[j]>>
            BY <1>4, <2>2, <3>4
        <3>5. QED
            BY <1>4, <3>1, <3>2, <3>3, <3>4
    <2>5. \A a \in 1..i, b \in 1..n :
            a < b => \/ order[a] \in InPairs(new)
                     \/ order[b] \in InPairs(new)
                     \/ ~Near(rating[order[a]], rating[order[b]])
        BY <1>2, <1>g, <2>2
    <2>6. QED
        BY <2>3, <2>4, <2>5 DEF GoodSoFar, n
<1>5. QED
    <2> HIDE DEF new
    <2>1. QED
        BY <1>3, <1>4, <1>t

(* An order of finitely many sessions has each of them once.                *)
LEMMA OrderFacts ==
    ASSUME NEW S, IsFiniteSet(S), NEW order \in SetToSeqs(S)
    PROVE  /\ Len(order) = Cardinality(S) /\ Len(order) \in Nat
           /\ order \in [1..Len(order) -> S]
           /\ \A i, j \in 1..Len(order) : i # j => order[i] # order[j]
           /\ \A s \in S : \E i \in 1..Len(order) : order[i] = s
<1> DEFINE n == Cardinality(S)
<1>1. n \in Nat
    BY FS_CardinalityType
<1>2. order \in [1..n -> S] /\ \A i, j \in 1..n : i # j => order[i] # order[j]
    BY Zenon DEF SetToSeqs
<1>3. Len(order) = n
    <2> HIDE DEF n
    <2>1. QED
        BY <1>1, <1>2
<1>4. ASSUME NEW s \in S PROVE \E i \in 1..n : order[i] = s
    <2>1. SUFFICES ASSUME \A i \in 1..n : order[i] # s PROVE FALSE
        OBVIOUS
    <2>2. order \in [1..n -> S \ {s}]
        BY <1>2, <2>1
    <2>3. IsFiniteSet(S \ {s}) /\ Cardinality(S \ {s}) = n - 1
        BY FS_RemoveElement
    <2>4. IsFiniteSet(1..n) /\ Cardinality(1..n) = n
        <3>1. 1 \in Int /\ n \in Int /\ n >= 0
            BY <1>1
        <3> HIDE DEF n
        <3>2. IsFiniteSet(1..n) /\ Cardinality(1..n) = IF 1 > n THEN 0 ELSE n - 1 + 1
            BY <3>1, FS_Interval
        <3>3. QED
            BY <3>1, <3>2
    <2> HIDE DEF n
    <2>5. Cardinality(S \ {s}) < Cardinality(1..n)
        BY <1>1, <2>3, <2>4
    <2>6. \E i, j \in 1..n : i # j /\ order[i] = order[j]
        BY <2>2, <2>3, <2>4, <2>5, FS_PigeonHole, ZenonT(30)
    <2>7. QED
        BY <1>2, <2>6
<1> HIDE DEF n
<1>5. QED
    BY <1>1, <1>2, <1>3, <1>4 DEF n

(* Whatever ratings the waiting sessions have and in whatever order the map *)
(* has them, a game is between two of them that are near enough, no session *)
(* is in two games, and no two that are near enough are both left out       *)
(* (:430-472).                                                              *)
THEOREM MatcherIsMaximal ==
    ASSUME NEW S, IsFiniteSet(S), NEW rating \in [S -> Int], NEW order \in SetToSeqs(S)
    PROVE  LET pairs == Pairs(order, rating)
           IN  /\ pairs \subseteq S \X S
               /\ EachInOnePair(pairs)
               /\ PairsNear(rating, pairs)
               /\ NobodyLeftForNobody(S, rating, pairs)
<1> DEFINE n == Len(order)
           pairs == Pairs(order, rating)
<1>1. /\ n \in Nat /\ order \in [1..n -> S]
      /\ \A i, j \in 1..n : i # j => order[i] # order[j]
      /\ \A s \in S : \E i \in 1..n : order[i] = s
      /\ \A i \in 1..n : order[i] \in S /\ rating[order[i]] \in Int
    BY OrderFacts
<1>2. PICK after : Turns(after, order, rating) /\ pairs = after[n]
    BY <1>1, PairsByTurns
<1>3. GoodSoFar(pairs, n, order, rating)
    <2> DEFINE G == {k \in 0..n : GoodSoFar(after[k], k, order, rating)}
    <2>1. 0 \in G
        <3>1. after[0] = {}
            BY <1>2 DEF Turns
        <3>2. GoodSoFar({}, 0, order, rating)
            BY DEF GoodSoFar, EachInOnePair
        <3>3. GoodSoFar(after[0], 0, order, rating)
            BY <3>1, <3>2, Zenon
        <3>4. 0 \in 0..n
            BY <1>1
        <3>5. QED
            BY <3>3, <3>4, Zenon
    <2>2. ASSUME NEW i \in 1..n, i - 1 \in G PROVE i \in G
        <3>1. after[i] = Turn(order, rating, i, after[i - 1])
            BY <1>2 DEF Turns
        <3>2. GoodSoFar(after[i - 1], i - 1, order, rating)
            BY <2>2
        <3>3. GoodSoFar(Turn(order, rating, i, after[i - 1]), i, order, rating)
            BY <1>1, <3>2, TurnKeeps
        <3>4. QED
            BY <1>1, <3>1, <3>3
    <2>3. n \in G
        <3> HIDE DEF G, n
        <3>1. 0..n \subseteq G
            BY <1>1, <2>1, <2>2, EveryTurn
        <3>2. QED
            BY <1>1, <3>1
    <2>4. QED
        BY <1>2, <2>3
<1> HIDE DEF pairs
<1>g. /\ \A p \in pairs : \E a, b \in 1..n :
            /\ a < b /\ p = <<order[a], order[b]>>
            /\ Near(rating[order[a]], rating[order[b]])
      /\ EachInOnePair(pairs)
      /\ \A a \in 1..n, b \in 1..n :
            a < b => \/ order[a] \in InPairs(pairs)
                     \/ order[b] \in InPairs(pairs)
                     \/ ~Near(rating[order[a]], rating[order[b]])
    BY <1>3 DEF GoodSoFar
<1> HIDE DEF n
<1>4. ASSUME NEW p \in pairs
      PROVE  /\ p \in S \X S /\ p[1] # p[2]
             /\ Score(rating[p[1]], rating[p[2]]) <= MaxDifference
    <2>1. PICK a \in 1..n, b \in 1..n :
            a < b /\ p = <<order[a], order[b]>> /\ Near(rating[order[a]], rating[order[b]])
        BY <1>g
    <2>2. p[1] = order[a] /\ p[2] = order[b] /\ a # b
        BY <1>1, <2>1
    <2>3. QED
        BY <1>1, <2>1, <2>2 DEF Near
<1>5. NobodyLeftForNobody(S, rating, pairs)
    <2>1. SUFFICES ASSUME NEW s \in S \ InPairs(pairs), NEW t \in S \ InPairs(pairs), s # t
                   PROVE  Score(rating[s], rating[t]) > MaxDifference
        BY DEF NobodyLeftForNobody
    <2>2. PICK a \in 1..n, b \in 1..n : order[a] = s /\ order[b] = t
        BY <1>1
    <2>3. a < b \/ b < a
        BY <1>1, <2>1, <2>2
    <2>4. /\ Score(rating[s], rating[t]) \in Nat
          /\ Score(rating[s], rating[t]) = Score(rating[t], rating[s])
        BY <1>1, <2>2, ScoreFacts
    <2>5. ~Near(rating[s], rating[t]) \/ ~Near(rating[t], rating[s])
        BY <1>g, <2>1, <2>2, <2>3
    <2>6. QED
        BY <2>4, <2>5 DEF Near
<1>6. QED
    BY <1>4, <1>5, <1>g DEF PairsNear, pairs

------------------------------------------------------------------------------
(* The accounts, their sessions and their tokens.                           *)

Account == [elo : Elos, matchmaking : BOOLEAN, sid : Nat]

(* The session s was begun for the account of pid.                          *)
Begun(s, pid) == \E login \in logins : login.sid = s /\ login.pid = pid

(* Who has an account, the sessions that were begun, each for one account,  *)
(* and the ratings that wait.                                               *)
AccountInv ==
    /\ accounts \in Seq(Account)
    /\ sessionCount \in Nat /\ sessionCount <= MaxSessions
    /\ waiting \in [DOMAIN waiting -> Elos]
    /\ \A login \in logins : login.rating \in Elos
    /\ \A s, pid : Begun(s, pid) => s \in 0..sessionCount - 1 /\ pid \in DOMAIN accounts
    /\ \A s, p, q : Begun(s, p) /\ Begun(s, q) => p = q
    /\ \A p \in DOMAIN accounts : accounts[p].matchmaking => Begun(accounts[p].sid, p)

(* What an account has ended is a session of its own, by a token that was   *)
(* really given out; a session is ended when its account is not in it any   *)
(* more.                                                                    *)
ClosingInv ==
    /\ \A c \in closings : Begun(c.sid, c.token.pid) /\ c.token \in tokens
    /\ \A c, d \in closings : c.sid = d.sid => c = d
    /\ \A s, p : Begun(s, p) =>
          ((\E c \in closings : c.sid = s) <=> ~(accounts[p].matchmaking /\ accounts[p].sid = s))

(* What waits, plays or waits again was begun, and so was what was cancelled. *)
(* A session that does not wait again has one outcome: it does not wait with *)
(* one, is in one game, or was cancelled and is in none.                     *)
OutcomeInv ==
    /\ \A s \in DOMAIN waiting \cup InPairs(games) \cup again : \E p : Begun(s, p)
    /\ \A t \in tokens : t.result = Cancelled => Begun(t.sid, t.pid)
    /\ \A s \in DOMAIN waiting : HasOutcome(s) => s \in again
    /\ \A g, h \in games : \A s \in {g[1], g[2]} \cap {h[1], h[2]} : s \notin again => g = h
    /\ \A t \in tokens : t.result = Cancelled /\ t.sid \in InPairs(games) => t.sid \in again

(* A session of pid is in a game of that name.                              *)
Plays(pid, sid) ==
    \E game \in games : \E s \in {game[1], game[2]} : game[1] = sid /\ Begun(s, pid)

(* The result is of two players who may play a game of that name.           *)
Played(result, sid) ==
    \E p, q : p # q /\ result.players = <<p, q>> /\ Plays(p, sid) /\ Plays(q, sid)

(* The results that are kept or were handed out.                            *)
ResultInv ==
    /\ \A sid \in DOMAIN results : Played(results[sid], sid)
    /\ \A t \in tokens : t.result # Cancelled => Plays(t.pid, t.sid) /\ Played(t.result, t.sid)

(* What FairPlayersEndTheirOwn says of the sessions.                        *)
EndsOwn == \A c \in closings : Fair(c.token.pid) => c.sid \in SessionsOf(c.token)

IInv == AccountInv /\ ClosingInv /\ OutcomeInv /\ ResultInv /\ EndsOwn

USE AccountsAssumption, BoundsAssumption

(* Of the logins of one session any tells whose it is.                      *)
LEMMA AnyLogin ==
    ASSUME NEW L, NEW s, NEW p, \E l \in L : l.sid = s /\ l.pid = p,
           \A l, m \in L : l.sid = m.sid => l.pid = m.pid
    PROVE  (CHOOSE l \in L : l.sid = s).pid = p
<1> DEFINE chosen == CHOOSE l \in L : l.sid = s
<1>1. PICK l \in L : l.sid = s /\ l.pid = p
    OBVIOUS
<1>2. chosen \in L /\ chosen.sid = s
    BY <1>1
<1> HIDE DEF chosen
<1>3. chosen.pid = p
    BY <1>1, <1>2
<1>4. QED
    BY <1>3 DEF chosen

(* Whoever began a session owns it.                                         *)
LEMMA OwnerBegan ==
    ASSUME AccountInv, NEW s, NEW p, Begun(s, p)
    PROVE  Owner(s) = p
<1>1. \A l, m \in logins : l.sid = m.sid => l.pid = m.pid
    <2>1. \A t, q, r : Begun(t, q) /\ Begun(t, r) => q = r
        BY DEF AccountInv
    <2>2. QED
        BY <2>1 DEF Begun
<1>2. (CHOOSE login \in logins : login.sid = s).pid = p
    BY <1>1, AnyLogin DEF Begun
<1>3. QED
    BY <1>2 DEF Owner

(* A new system has nobody in it.                                           *)
LEMMA ExampleInitial == ExampleInit => IInv
<1>1. SUFFICES ASSUME ExampleInit PROVE IInv
    OBVIOUS
<1>2. /\ accounts = <<>> /\ sessionCount = 0 /\ logins = {} /\ waiting = [s \in {} |-> FirstElo]
      /\ games = {} /\ tokens = {} /\ closings = {} /\ again = {}
      /\ DOMAIN results = {}
    BY <1>1 DEF ExampleInit, Init
<1>3. ~(\E s, p : Begun(s, p)) /\ DOMAIN accounts = {} /\ DOMAIN waiting = {}
    BY <1>2 DEF Begun
<1>4. InPairs(games) = {}
    BY <1>2 DEF InPairs
<1>5. AccountInv
    <2>1. accounts \in Seq(Account) /\ waiting \in [DOMAIN waiting -> Elos]
        BY <1>2
    <2>2. sessionCount \in Nat /\ sessionCount <= MaxSessions
        BY <1>2
    <2>3. QED
        BY <1>2, <1>3, <2>1, <2>2 DEF AccountInv
<1>6. ClosingInv
    BY <1>2, <1>3 DEF ClosingInv
<1>7. OutcomeInv
    BY <1>2, <1>3, <1>4 DEF OutcomeInv
<1>8. ResultInv /\ EndsOwn
    BY <1>2 DEF ResultInv, EndsOwn
<1>9. QED
    BY <1>5, <1>6, <1>7, <1>8 DEF IInv

(* While sessions are only added, those that were begun stay their owner's. *)
LEMMA StillBegun ==
    ASSUME logins \subseteq logins', NEW s, NEW p, Begun(s, p)
    PROVE  Begun(s, p)'
BY DEF Begun

(* And their owner stays who it is.                                         *)
LEMMA OwnerKept ==
    ASSUME AccountInv, AccountInv', logins \subseteq logins', NEW s, NEW p, Begun(s, p)
    PROVE  Owner(s)' = p /\ Owner(s) = p
<1>1. \A l, m \in logins' : l.sid = m.sid => l.pid = m.pid
    <2>1. \A t, q, r : Begun(t, q)' /\ Begun(t, r)' => q = r
        BY DEF AccountInv
    <2>2. QED
        BY <2>1 DEF Begun
<1>2. \E l \in logins' : l.sid = s /\ l.pid = p
    BY DEF Begun
<1>3. (CHOOSE login \in logins' : login.sid = s).pid = p
    BY <1>1, <1>2, AnyLogin
<1>4. Owner(s)' = p
    BY <1>3 DEF Owner
<1>5. QED
    BY <1>4, OwnerBegan

(* Who is in a game.                                                        *)
LEMMA InGame ==
    ASSUME NEW G, NEW s
    PROVE  s \in InPairs(G) <=> \E game \in G : s \in {game[1], game[2]}
BY DEF InPairs

(* Who is fair after a step was fair before it: whatever makes a player not *)
(* fair stays.                                                              *)
LEMMA FairBefore ==
    ASSUME AccountInv, OutcomeInv, AccountInv', logins \subseteq logins',
           games \subseteq games', again \subseteq again', closings \subseteq closings',
           tokens \subseteq tokens', NEW pid, Fair(pid)'
    PROVE  Fair(pid)
<1>1. /\ \A s \in again' : Owner(s)' # pid
      /\ \A game \in games' : pid \in {Owner(game[1])', Owner(game[2])'} =>
            {game[1], game[2]} \cap again' = {}
      /\ \A c, d \in closings' : c.token = d.token /\ c.token.pid = pid => c = d
      /\ \A t, u \in tokens' : t.pid = pid /\ u.pid = pid /\ t.sid = u.sid => t = u
    BY DEF Fair
<1>2. ASSUME NEW s \in InPairs(games) \cup again PROVE Owner(s)' = Owner(s)
    <2>1. PICK p : Begun(s, p)
        BY DEF OutcomeInv
    <2>2. QED
        BY <2>1, OwnerKept
<1>3. \A s \in again : Owner(s) # pid
    BY <1>1, <1>2
<1>4. ASSUME NEW game \in games, pid \in {Owner(game[1]), Owner(game[2])}
      PROVE  {game[1], game[2]} \cap again = {}
    <2>1. game[1] \in InPairs(games) /\ game[2] \in InPairs(games)
        BY InGame
    <2>2. Owner(game[1])' = Owner(game[1]) /\ Owner(game[2])' = Owner(game[2])
        BY <1>2, <2>1
    <2>3. {game[1], game[2]} \cap again' = {}
        BY <1>1, <1>4, <2>2
    <2>4. QED
        BY <2>3
<1>5. QED
    BY <1>1, <1>3, <1>4 DEF Fair

(* What a token is about it stays about.                                    *)
LEMMA StillAbout ==
    ASSUME AccountInv, AccountInv', logins \subseteq logins', games \subseteq games',
           NEW token, NEW s, NEW p, Begun(s, p), s \in SessionsOf(token)
    PROVE  s \in SessionsOf(token)'
<1>1. Owner(s)' = Owner(s) /\ Owner(s) = token.pid
    BY OwnerKept DEF SessionsOf
<1>2. CASE token.result = Cancelled
    BY <1>1, <1>2 DEF SessionsOf
<1>3. CASE token.result # Cancelled
    <2>1. s \in InPairs({game \in games : game[1] = token.sid})
        BY <1>3 DEF SessionsOf, GamesCalled
    <2>2. s \in InPairs({game \in games' : game[1] = token.sid})
        BY <2>1, InGame
    <2>3. s \in InPairs(GamesCalled(token.sid)')
        BY <2>2 DEF GamesCalled
    <2>4. QED
        BY <1>1, <1>3, <2>3 DEF SessionsOf, InPairs
<1>4. QED
    BY <1>2, <1>3

(* So is what was ended before.                                             *)
LEMMA StillOwn ==
    ASSUME AccountInv, AccountInv', ClosingInv, OutcomeInv, EndsOwn,
           logins \subseteq logins', games \subseteq games', again \subseteq again',
           closings \subseteq closings', tokens \subseteq tokens',
           NEW c \in closings, Fair(c.token.pid)'
    PROVE  c.sid \in SessionsOf(c.token)'
<1>1. Fair(c.token.pid)
    BY FairBefore
<1>2. c.sid \in SessionsOf(c.token)
    BY <1>1 DEF EndsOwn
<1>3. Begun(c.sid, c.token.pid)
    BY DEF ClosingInv
<1>4. QED
    BY <1>2, <1>3, StillAbout

(* Who may play may still play, and what was played was.                    *)
LEMMA StillPlayed ==
    ASSUME logins \subseteq logins', games \subseteq games'
    PROVE  /\ \A pid, sid : Plays(pid, sid) => Plays(pid, sid)'
           /\ \A result, sid : Played(result, sid) => Played(result, sid)'
<1>1. \A s, p : Begun(s, p) => Begun(s, p)'
    BY StillBegun
<1>2. ASSUME NEW pid, NEW sid, Plays(pid, sid) PROVE Plays(pid, sid)'
    <2>1. PICK game \in games : \E s \in {game[1], game[2]} : game[1] = sid /\ Begun(s, pid)
        BY <1>2 DEF Plays
    <2>2. game \in games' /\ \E s \in {game[1], game[2]} : game[1] = sid /\ Begun(s, pid)'
        BY <1>1, <2>1
    <2>3. QED
        BY <2>2 DEF Plays
<1>3. ASSUME NEW result, NEW sid, Played(result, sid) PROVE Played(result, sid)'
    <2>1. PICK p, q : p # q /\ result.players = <<p, q>> /\ Plays(p, sid) /\ Plays(q, sid)
        BY <1>3 DEF Played
    <2>2. Plays(p, sid)' /\ Plays(q, sid)'
        BY <1>2, <2>1
    <2>3. QED
        BY <2>1, <2>2 DEF Played
<1>4. QED
    BY <1>2, <1>3

(* Whoever has a token for a game of that name has a session in one.        *)
LEMMA HolderPlays ==
    ASSUME AccountInv, OutcomeInv, NEW sid, NEW pid \in PlayersOf(sid)
    PROVE  Plays(pid, sid)
<1>1. PICK s \in InPairs(GamesCalled(sid)) : Owner(s) = pid
    BY DEF PlayersOf
<1>2. PICK game \in games : game[1] = sid /\ s \in {game[1], game[2]}
    BY <1>1, InGame DEF GamesCalled
<1>3. s \in InPairs(games)
    BY <1>2, InGame
<1>4. PICK p : Begun(s, p)
    BY <1>3 DEF OutcomeInv
<1>5. Begun(s, pid)
    BY <1>1, <1>4, OwnerBegan
<1>6. QED
    BY <1>2, <1>5 DEF Plays

(* A result has players; a cancellation has none.                           *)
LEMMA PlayedNotCancelled ==
    ASSUME NEW result, NEW sid, Played(result, sid)
    PROVE  result # Cancelled
<1>1. PICK p, q : result.players = <<p, q>>
    BY DEF Played
<1>2. <<p, q>> # <<>>
    OBVIOUS
<1>3. Cancelled.players = <<>>
    BY DEF Cancelled
<1>4. QED
    BY <1>1, <1>2, <1>3
------------------------------------------------------------------------------
(* The requests of the HTTP service.                                        *)

(* What a step that neither begins nor ends a session leaves as it is.      *)
LEMMA SameSessions ==
    ASSUME ClosingInv, logins' = logins, closings' = closings, tokens \subseteq tokens',
           AccountInv,
           \A p \in DOMAIN accounts : /\ accounts'[p].matchmaking = accounts[p].matchmaking
                                      /\ accounts'[p].sid = accounts[p].sid
    PROVE  ClosingInv'
<1>1. \A s, p : Begun(s, p)' <=> Begun(s, p)
    BY DEF Begun
<1>2. \A s, p : Begun(s, p) => p \in DOMAIN accounts
    BY DEF AccountInv
<1>3. \A c \in closings' : Begun(c.sid, c.token.pid)' /\ c.token \in tokens'
    <2>1. SUFFICES ASSUME NEW c \in closings PROVE Begun(c.sid, c.token.pid)' /\ c.token \in tokens'
        OBVIOUS
    <2>2. Begun(c.sid, c.token.pid) /\ c.token \in tokens
        BY DEF ClosingInv
    <2>3. QED
        BY <1>1, <2>2
<1>4. \A s, p : Begun(s, p)' =>
        ((\E c \in closings' : c.sid = s) <=> ~(accounts'[p].matchmaking /\ accounts'[p].sid = s))
    BY <1>1, <1>2 DEF ClosingInv
<1>5. QED
    BY <1>3, <1>4 DEF ClosingInv

(* The requests leave the outcomes of sessions and games as they are.       *)
LEMMA RequestsKeep ==
    ASSUME IInv, AccountInv', UNCHANGED <<waiting, games, results, tokens, again>>,
           logins \subseteq logins', closings \subseteq closings'
    PROVE  /\ OutcomeInv' /\ ResultInv'
           /\ \A c \in closings : Fair(c.token.pid)' => c.sid \in SessionsOf(c.token)'
<1>i. AccountInv /\ ClosingInv /\ OutcomeInv /\ ResultInv /\ EndsOwn
    BY DEF IInv
<1>1. \A s, p : Begun(s, p) => Begun(s, p)'
    BY StillBegun
<1>2. OutcomeInv'
    <2>1. \A s : HasOutcome(s)' <=> HasOutcome(s)
        BY DEF HasOutcome
    <2>2. \A s \in DOMAIN waiting' \cup InPairs(games') \cup again' : \E p : Begun(s, p)'
        BY <1>i, <1>1 DEF OutcomeInv
    <2>3. \A t \in tokens' : t.result = Cancelled => Begun(t.sid, t.pid)'
        BY <1>i, <1>1 DEF OutcomeInv
    <2>4. QED
        BY <1>i, <2>1, <2>2, <2>3 DEF OutcomeInv
<1>3. ResultInv'
    <2>1. /\ \A pid, sid : Plays(pid, sid) => Plays(pid, sid)'
          /\ \A result, sid : Played(result, sid) => Played(result, sid)'
        BY StillPlayed
    <2>2. \A sid \in DOMAIN results : \A r : r = results[sid] => Played(r, sid)'
        BY <1>i, <2>1 DEF ResultInv
    <2>3. (\A sid \in DOMAIN results : Played(results[sid], sid))'
        BY <2>2 DEF Played
    <2>4. \A t \in tokens' : t.result # Cancelled =>
             Plays(t.pid, t.sid)' /\ Played(t.result, t.sid)'
        BY <1>i, <2>1 DEF ResultInv
    <2>5. QED
        BY <2>3, <2>4 DEF ResultInv
<1>4. \A c \in closings : Fair(c.token.pid)' => c.sid \in SessionsOf(c.token)'
    BY <1>i, StillOwn
<1>5. QED
    BY <1>2, <1>3, <1>4

(* /signup: a new account is in no session.                                 *)
LEMMA SignUpKeeps ==
    ASSUME IInv, RequestAccount
    PROVE  IInv'
<1>i. AccountInv /\ ClosingInv
    BY DEF IInv
<1>1. /\ accounts' = Append(accounts, NewAccount)
      /\ UNCHANGED <<sessionCount, logins, waiting, games, results, tokens, closings, again>>
    BY DEF RequestAccount, SignUp, history
<1>2. NewAccount \in Account /\ accounts \in Seq(Account) /\ ~NewAccount.matchmaking
    BY <1>i DEF NewAccount, Account, AccountInv
<1>3. /\ accounts' \in Seq(Account)
      /\ DOMAIN accounts' = DOMAIN accounts \cup {Len(accounts) + 1}
      /\ \A p \in DOMAIN accounts : accounts'[p] = accounts[p]
      /\ accounts'[Len(accounts) + 1] = NewAccount
    BY <1>1, <1>2
<1>4. \A s, p : Begun(s, p)' <=> Begun(s, p)
    BY <1>1 DEF Begun
<1>5. AccountInv'
    <2>1. ASSUME NEW p \in DOMAIN accounts', accounts'[p].matchmaking
          PROVE  p \in DOMAIN accounts /\ accounts'[p] = accounts[p]
        BY <1>2, <1>3, <2>1
    <2>2. \A p \in DOMAIN accounts' : accounts'[p].matchmaking => Begun(accounts'[p].sid, p)
        BY <2>1, <1>i DEF AccountInv
    <2>3. \A p \in DOMAIN accounts' : accounts'[p].matchmaking =>
             \E login \in logins' : login.sid = accounts'[p].sid /\ login.pid = p
        BY <1>1, <2>2 DEF Begun
    <2>4. (\A p \in DOMAIN accounts : accounts[p].matchmaking => Begun(accounts[p].sid, p))'
        BY <2>3 DEF Begun
    <2>5. /\ accounts' \in Seq(Account)
          /\ sessionCount' \in Nat /\ sessionCount' <= MaxSessions
          /\ waiting' \in [DOMAIN waiting' -> Elos]
          /\ \A login \in logins' : login.rating \in Elos
        BY <1>1, <1>3, <1>i DEF AccountInv
    <2>6. \A s, p : Begun(s, p)' => s \in 0..sessionCount' - 1 /\ p \in DOMAIN accounts'
        BY <1>1, <1>3, <1>4, <1>i DEF AccountInv
    <2>7. \A s, p, q : Begun(s, p)' /\ Begun(s, q)' => p = q
        BY <1>4, <1>i DEF AccountInv
    <2>8. QED
        BY <2>4, <2>5, <2>6, <2>7 DEF AccountInv
<1>6. ClosingInv'
    BY <1>1, <1>3, <1>i, SameSessions
<1>7. OutcomeInv' /\ ResultInv' /\ EndsOwn'
    <2>1. OutcomeInv' /\ ResultInv'
        BY <1>1, <1>5, RequestsKeep
    <2>2. \A c \in closings' : Fair(c.token.pid)' => c.sid \in SessionsOf(c.token)'
        BY <1>1, <1>5, RequestsKeep
    <2>3. QED
        BY <2>1, <2>2 DEF EndsOwn
<1>8. QED
    BY <1>5, <1>6, <1>7 DEF IInv

(* /login: the account goes into a new session, or stays in the one it is   *)
(* in and its player is told of it once more.                               *)
LEMMA LoginFacts ==
    ASSUME AccountInv, NEW pid \in Pids, RequestLogin(pid)
    PROVE  /\ pid \in DOMAIN accounts
           /\ UNCHANGED <<waiting, games, results, tokens, closings, again>>
           /\ accounts' \in Seq(Account) /\ DOMAIN accounts' = DOMAIN accounts
           /\ accounts'[pid].matchmaking
           /\ \A p \in DOMAIN accounts : p # pid => accounts'[p] = accounts[p]
           /\ \E r \in Elos :
                 logins' = logins \cup {[sid |-> accounts'[pid].sid, pid |-> pid, rating |-> r]}
           /\ \/ /\ accounts[pid].matchmaking /\ accounts' = accounts
                 /\ sessionCount' = sessionCount
              \/ /\ ~accounts[pid].matchmaking /\ accounts'[pid].sid = sessionCount
                 /\ sessionCount' = sessionCount + 1
           /\ sessionCount' \in Nat /\ sessionCount' <= MaxSessions
<1>1. /\ pid \in DOMAIN accounts /\ accounts \in Seq(Account) /\ accounts[pid] \in Account
      /\ DOMAIN accounts = 1..Len(accounts) /\ Len(accounts) \in Nat
      /\ sessionCount \in Nat
    <2>1. pid \in DOMAIN accounts
        BY DEF RequestLogin, Login, Known
    <2>2. QED
        BY <2>1 DEF AccountInv
<1>2. /\ sessionCount' <= MaxSessions
      /\ UNCHANGED <<waiting, games, results, tokens, closings, again>>
      /\ logins' = logins \cup {[sid |-> accounts'[pid].sid, pid |-> pid,
                                 rating |-> accounts'[pid].elo]}
    BY DEF RequestLogin, history
<1>3. CASE accounts[pid].matchmaking
    <2>1. accounts' = accounts /\ sessionCount' = sessionCount
        BY <1>3 DEF RequestLogin, Login
    <2>2. accounts[pid].elo \in Elos
        BY <1>1 DEF Account
    <2>3. QED
        BY <1>1, <1>2, <1>3, <2>1, <2>2
<1>4. CASE ~accounts[pid].matchmaking
    <2>1. /\ accounts' = [accounts EXCEPT ![pid].sid = sessionCount, ![pid].matchmaking = TRUE]
          /\ sessionCount' = sessionCount + 1
        BY <1>4 DEF RequestLogin, Login
    <2>2. accounts[pid] = [elo |-> accounts[pid].elo, matchmaking |-> accounts[pid].matchmaking,
                           sid |-> accounts[pid].sid]
          /\ accounts[pid].elo \in Elos
        BY <1>1 DEF Account
    <2>3. /\ DOMAIN accounts' = DOMAIN accounts
          /\ \A p \in DOMAIN accounts : p # pid => accounts'[p] = accounts[p]
          /\ accounts'[pid] = [accounts[pid] EXCEPT !.sid = sessionCount, !.matchmaking = TRUE]
        BY <1>1, <2>1
    <2>4. /\ accounts'[pid].sid = sessionCount /\ accounts'[pid].matchmaking = TRUE
          /\ accounts'[pid].elo = accounts[pid].elo /\ accounts'[pid] \in Account
        BY <1>1, <2>2, <2>3 DEF Account
    <2>5. accounts' \in Seq(Account)
        <3>1. \A p \in 1..Len(accounts) : accounts'[p] \in Account
            BY <1>1, <2>3, <2>4
        <3>2. accounts' = [p \in 1..Len(accounts) |-> accounts'[p]]
            BY <1>1, <2>1
        <3>3. accounts' \in [1..Len(accounts) -> Account]
            BY <3>1, <3>2
        <3>4. QED
            BY <1>1, <3>3
    <2>6. QED
        BY <1>1, <1>2, <1>4, <2>1, <2>2, <2>3, <2>4, <2>5
<1>5. QED
    BY <1>3, <1>4

(* A session that is new is nobody's and not ended.                         *)
LEMMA LoginKeeps ==
    ASSUME IInv, NEW pid \in Pids, RequestLogin(pid)
    PROVE  IInv'
<1>i. AccountInv /\ ClosingInv
    BY DEF IInv
<1>f. /\ pid \in DOMAIN accounts
      /\ UNCHANGED <<waiting, games, results, tokens, closings, again>>
      /\ accounts' \in Seq(Account) /\ DOMAIN accounts' = DOMAIN accounts
      /\ accounts'[pid].matchmaking
      /\ \A p \in DOMAIN accounts : p # pid => accounts'[p] = accounts[p]
      /\ \/ /\ accounts[pid].matchmaking /\ accounts' = accounts
            /\ sessionCount' = sessionCount
         \/ /\ ~accounts[pid].matchmaking /\ accounts'[pid].sid = sessionCount
            /\ sessionCount' = sessionCount + 1
      /\ sessionCount' \in Nat /\ sessionCount' <= MaxSessions
    BY <1>i, LoginFacts
<1>l. PICK r \in Elos :
        logins' = logins \cup {[sid |-> accounts'[pid].sid, pid |-> pid, rating |-> r]}
    BY <1>i, LoginFacts
<1> DEFINE now == accounts'[pid].sid
           new == [sid |-> now, pid |-> pid, rating |-> r]
<1>n. logins' = logins \cup {new} /\ new.sid = now /\ new.pid = pid
    BY <1>l
<1> HIDE DEF new
<1>1. \A s, p : Begun(s, p)' <=> Begun(s, p) \/ (s = now /\ p = pid)
    <2>1. \A s, p : Begun(s, p)' <=> \E login \in logins' : login.sid = s /\ login.pid = p
        BY DEF Begun
    <2> HIDE DEF now
    <2>2. QED
        BY <1>n, <2>1 DEF Begun
<1>2. /\ \A s, p : Begun(s, p) => s \in 0..sessionCount - 1 /\ p \in DOMAIN accounts
      /\ \A s, p, q : Begun(s, p) /\ Begun(s, q) => p = q
      /\ sessionCount \in Nat
    BY <1>i DEF AccountInv
<1>3. \A p \in DOMAIN accounts : accounts[p].matchmaking => Begun(accounts[p].sid, p)
    BY <1>i DEF AccountInv
\* The session is the account's already, or nobody's.
<1>4. \/ accounts[pid].matchmaking /\ accounts' = accounts /\ Begun(now, pid)
      \/ ~accounts[pid].matchmaking /\ now = sessionCount /\ \A p : ~Begun(now, p)
    <2>1. CASE accounts[pid].matchmaking
        BY <1>3, <1>f, <2>1
    <2>2. CASE ~accounts[pid].matchmaking
        BY <1>2, <1>f, <2>2
    <2>3. QED
        BY <2>1, <2>2
<1> HIDE DEF now
<1>5. AccountInv'
    <2>1. /\ waiting' \in [DOMAIN waiting' -> Elos]
          /\ \A login \in logins' : login.rating \in Elos
        BY <1>i, <1>f, <1>l DEF AccountInv
    <2>2. \A s, p : Begun(s, p)' => s \in 0..sessionCount' - 1 /\ p \in DOMAIN accounts'
        BY <1>1, <1>2, <1>4, <1>f
    <2>3. \A s, p, q : Begun(s, p)' /\ Begun(s, q)' => p = q
        BY <1>1, <1>2, <1>4
    <2>4. \A p \in DOMAIN accounts' : accounts'[p].matchmaking =>
             \E login \in logins' : login.sid = accounts'[p].sid /\ login.pid = p
        <3>1. SUFFICES ASSUME NEW p \in DOMAIN accounts', accounts'[p].matchmaking
                       PROVE  \E login \in logins' : login.sid = accounts'[p].sid /\ login.pid = p
            OBVIOUS
        <3>2. CASE p = pid
            BY <1>n, <3>2 DEF now
        <3>3. CASE p # pid
            <4>1. accounts'[p] = accounts[p] /\ Begun(accounts[p].sid, p)
                BY <1>3, <1>f, <3>1, <3>3
            <4>2. QED
                BY <1>l, <4>1 DEF Begun
        <3>4. QED
            BY <3>2, <3>3
    <2>5. (\A p \in DOMAIN accounts : accounts[p].matchmaking => Begun(accounts[p].sid, p))'
        BY <2>4 DEF Begun
    <2>6. QED
        BY <1>f, <2>1, <2>2, <2>3, <2>5 DEF AccountInv
<1>6. ClosingInv'
    <2>1. \A c \in closings' : Begun(c.sid, c.token.pid)' /\ c.token \in tokens'
        <3>1. SUFFICES ASSUME NEW c \in closings
                       PROVE  Begun(c.sid, c.token.pid)' /\ c.token \in tokens'
            BY <1>f
        <3>2. Begun(c.sid, c.token.pid) /\ c.token \in tokens
            BY <1>i DEF ClosingInv
        <3>3. QED
            BY <1>1, <1>f, <3>2
    <2>2. \A c, d \in closings' : c.sid = d.sid => c = d
        BY <1>i, <1>f DEF ClosingInv
    <2>3. ASSUME NEW s, NEW p, Begun(s, p)'
          PROVE  (\E c \in closings' : c.sid = s)
                    <=> ~(accounts'[p].matchmaking /\ accounts'[p].sid = s)
        <3>0. \A c \in closings : \E q : Begun(c.sid, q)
            BY <1>i DEF ClosingInv
        <3>1. CASE s = now /\ ~accounts[pid].matchmaking
            <4>1. p = pid /\ \A q : ~Begun(now, q)
                BY <1>1, <1>4, <2>3, <3>1
            <4>2. ~(\E c \in closings' : c.sid = s)
                BY <1>f, <3>0, <3>1, <4>1
            <4>3. accounts'[p].matchmaking /\ accounts'[p].sid = s
                BY <1>f, <3>1, <4>1 DEF now
            <4>4. QED
                BY <4>2, <4>3
        <3>2. CASE ~(s = now /\ ~accounts[pid].matchmaking)
            <4>1. Begun(s, p)
                BY <1>1, <1>4, <2>3, <3>2
            <4>2. (\E c \in closings : c.sid = s)
                     <=> ~(accounts[p].matchmaking /\ accounts[p].sid = s)
                BY <1>i, <4>1 DEF ClosingInv
            <4>3. (accounts'[p].matchmaking /\ accounts'[p].sid = s)
                     <=> (accounts[p].matchmaking /\ accounts[p].sid = s)
                <5>1. CASE p = pid
                    BY <1>f, <1>4, <3>2, <5>1 DEF now
                <5>2. CASE p # pid
                    BY <1>2, <1>f, <4>1, <5>2
                <5>3. QED
                    BY <5>1, <5>2
            <4>4. QED
                BY <1>f, <4>2, <4>3
        <3>3. QED
            BY <3>1, <3>2
    <2>4. QED
        BY <2>1, <2>2, <2>3 DEF ClosingInv
<1>7. OutcomeInv' /\ ResultInv' /\ EndsOwn'
    <2>1. logins \subseteq logins'
        BY <1>l
    <2>2. OutcomeInv' /\ ResultInv'
        BY <1>f, <1>5, <2>1, RequestsKeep
    <2>3. \A c \in closings' : Fair(c.token.pid)' => c.sid \in SessionsOf(c.token)'
        BY <1>f, <1>5, <2>1, RequestsKeep
    <2>4. QED
        BY <2>2, <2>3 DEF EndsOwn
<1>8. QED
    BY <1>5, <1>6, <1>7 DEF IInv

(* /submit and /cancel: the account leaves its session, whichever that is,  *)
(* and nothing else becomes of the sessions.                                *)
LEMMA CloseFacts ==
    ASSUME AccountInv, NEW token \in Held, PresentResult(token) \/ PresentMatch(token)
    PROVE  /\ token \in tokens
           /\ token.pid \in DOMAIN accounts /\ accounts[token.pid].matchmaking
           /\ accounts' \in Seq(Account) /\ DOMAIN accounts' = DOMAIN accounts
           /\ \A p \in DOMAIN accounts :
                 /\ accounts'[p].sid = accounts[p].sid
                 /\ accounts'[p].matchmaking <=> accounts[p].matchmaking /\ p # token.pid
           /\ closings' = closings \cup {[sid |-> accounts[token.pid].sid, token |-> token]}
           /\ UNCHANGED <<sessionCount, logins, waiting, games, results, tokens, again>>
<1> DEFINE pid == token.pid
<1>1. /\ accounts \in Seq(Account) /\ Len(accounts) \in Nat
      /\ DOMAIN accounts = 1..Len(accounts)
      /\ \A p \in DOMAIN accounts : accounts[p] \in Account
    BY DEF AccountInv
<1>2. /\ closings' = closings \cup {[sid |-> accounts[pid].sid, token |-> token]}
      /\ UNCHANGED <<sessionCount, logins, waiting, games, results, tokens, again>>
      /\ pid \in DOMAIN accounts /\ accounts[pid].matchmaking
    BY DEF PresentResult, PresentMatch, Ends, Submit, Cancel, Counts, Known
<1>3. token \in tokens
    <2>1. token.result # Matched
        BY DEF PresentResult, PresentMatch, Cancel
    <2>2. \A p, s : Token(p, s, Matched).result = Matched
        BY DEF Token
    <2>3. QED
        BY <2>1, <2>2 DEF Held
\* In either case the accounts are changed one by one.
<1>4. \E new \in [DOMAIN accounts -> Elos] :
        accounts' = [p \in DOMAIN accounts |->
            [accounts[p] EXCEPT !.elo = new[p], !.matchmaking = @ /\ p # pid]]
    <2>1. CASE PresentMatch(token)
        <3>1. accounts' = [accounts EXCEPT ![pid].matchmaking = FALSE]
            BY <2>1 DEF PresentMatch, Cancel
        <3> DEFINE new == [p \in DOMAIN accounts |-> accounts[p].elo]
        <3>2. new \in [DOMAIN accounts -> Elos]
            BY <1>1 DEF Account
        <3>3. \A p \in DOMAIN accounts :
                accounts'[p] = [accounts[p] EXCEPT !.elo = new[p], !.matchmaking = @ /\ p # pid]
            <4>1. SUFFICES ASSUME NEW p \in DOMAIN accounts
                           PROVE  accounts'[p] = [accounts[p] EXCEPT !.elo = accounts[p].elo,
                                                  !.matchmaking = @ /\ p # pid]
                OBVIOUS
            <4>2. accounts[p] \in Account
                BY <1>1
            <4>3. CASE p = pid
                <5>1. accounts'[p] = [accounts[p] EXCEPT !.matchmaking = FALSE]
                    BY <1>2, <3>1, <4>3
                <5>2. QED
                    BY <4>2, <4>3, <5>1 DEF Account
            <4>4. CASE p # pid
                <5>1. accounts'[p] = accounts[p]
                    BY <1>2, <3>1, <4>4
                <5>2. QED
                    BY <4>2, <4>4, <5>1 DEF Account
            <4>5. QED
                BY <4>3, <4>4
        <3>4. accounts' = [p \in DOMAIN accounts |-> accounts'[p]]
            BY <3>1
        <3> HIDE DEF new
        <3>5. QED
            BY <3>2, <3>3, <3>4
    <2>2. CASE PresentResult(token)
        <3> DEFINE i == token.result.players[1]
                   j == token.result.players[2]
        <3>1. PICK a \in Elos, b \in Elos : accounts' = Closed(pid, a, b, i, j)
            BY <2>2 DEF PresentResult, Submit, Rerated
        <3> DEFINE new == [p \in DOMAIN accounts |->
                              IF p = j THEN b ELSE IF p = i THEN a ELSE accounts[p].elo]
        <3> HIDE DEF i, j
        <3>2. new \in [DOMAIN accounts -> Elos]
            BY <1>1 DEF Account
        <3>3. accounts' = [p \in DOMAIN accounts |->
                [accounts[p] EXCEPT !.elo = new[p], !.matchmaking = @ /\ p # pid]]
            BY <3>1 DEF Closed
        <3> HIDE DEF new
        <3>4. QED
            BY <3>2, <3>3
    <2>3. QED
        BY <2>1, <2>2
<1>5. PICK new \in [DOMAIN accounts -> Elos] :
        accounts' = [p \in DOMAIN accounts |->
            [accounts[p] EXCEPT !.elo = new[p], !.matchmaking = @ /\ p # pid]]
    BY <1>4
<1>6. ASSUME NEW p \in DOMAIN accounts
      PROVE  /\ accounts'[p] \in Account
             /\ accounts'[p].sid = accounts[p].sid
             /\ accounts'[p].matchmaking <=> accounts[p].matchmaking /\ p # pid
    <2>1. accounts[p] \in Account /\ new[p] \in Elos
        BY <1>1
    <2>2. accounts'[p] = [accounts[p] EXCEPT !.elo = new[p], !.matchmaking = @ /\ p # pid]
        BY <1>5
    <2>3. QED
        BY <2>1, <2>2 DEF Account
<1>7. accounts' \in Seq(Account) /\ DOMAIN accounts' = DOMAIN accounts
    <2>1. accounts' \in [1..Len(accounts) -> Account]
        BY <1>1, <1>5, <1>6
    <2>2. QED
        BY <1>1, <2>1
<1>8. QED
    BY <1>2, <1>3, <1>6, <1>7

(* Every token is about a session of its player.                            *)
LEMMA AboutBegun ==
    ASSUME AccountInv, OutcomeInv, ResultInv, NEW token \in tokens
    PROVE  \E x \in SessionsOf(token) : Begun(x, token.pid)
<1>1. CASE token.result = Cancelled
    <2>1. Begun(token.sid, token.pid)
        BY <1>1 DEF OutcomeInv
    <2>2. Owner(token.sid) = token.pid
        BY <2>1, OwnerBegan
    <2>3. QED
        BY <1>1, <2>1, <2>2 DEF SessionsOf
<1>2. CASE token.result # Cancelled
    <2>1. Plays(token.pid, token.sid)
        BY <1>2 DEF ResultInv
    <2>2. PICK game \in games :
            \E s \in {game[1], game[2]} : game[1] = token.sid /\ Begun(s, token.pid)
        BY <2>1 DEF Plays
    <2>3. PICK s \in {game[1], game[2]} : game[1] = token.sid /\ Begun(s, token.pid)
        BY <2>2
    <2>4. s \in InPairs(GamesCalled(token.sid))
        BY <2>3, InGame DEF GamesCalled
    <2>5. Owner(s) = token.pid
        BY <2>3, OwnerBegan
    <2>6. QED
        BY <1>2, <2>3, <2>4, <2>5 DEF SessionsOf
<1>3. QED
    BY <1>1, <1>2

(* What a token that is about a session of a game says.                     *)
LEMMA AboutGame ==
    ASSUME NEW token, NEW x \in SessionsOf(token)
    PROVE  \/ token.result = Cancelled /\ token.sid = x
           \/ /\ token.result # Cancelled
              /\ \E game \in games : game[1] = token.sid /\ x \in {game[1], game[2]}
<1>1. CASE token.result = Cancelled
    BY <1>1 DEF SessionsOf
<1>2. CASE token.result # Cancelled
    <2>1. x \in InPairs(GamesCalled(token.sid))
        BY <1>2 DEF SessionsOf
    <2>2. QED
        BY <1>2, <2>1, InGame DEF GamesCalled
<1>3. QED
    BY <1>1, <1>2

(* Of each of its sessions a fair player has one token.                     *)
LEMMA OneToken ==
    ASSUME AccountInv, OutcomeInv, NEW pid, Fair(pid),
           NEW t \in tokens, NEW u \in tokens, t.pid = pid, u.pid = pid,
           NEW x, Begun(x, pid), x \in SessionsOf(t), x \in SessionsOf(u)
    PROVE  t = u
<1>1. x \notin again
    <2>1. Owner(x) = pid
        BY OwnerBegan
    <2>2. QED
        BY <2>1 DEF Fair
<1>2. SUFFICES t.sid = u.sid
    BY DEF Fair
<1>3. \A w \in tokens : w.result = Cancelled => ~(w.sid = x /\ x \in InPairs(games))
    BY <1>1 DEF OutcomeInv
<1>4. CASE t.result = Cancelled
    <2>1. t.sid = x
        BY <1>4, AboutGame
    <2>2. x \notin InPairs(games)
        BY <1>3, <1>4, <2>1
    <2>3. u.result = Cancelled /\ u.sid = x
        BY <2>2, AboutGame, InGame
    <2>4. QED
        BY <2>1, <2>3
<1>5. CASE t.result # Cancelled
    <2>1. PICK g \in games : g[1] = t.sid /\ x \in {g[1], g[2]}
        BY <1>5, AboutGame
    <2>2. x \in InPairs(games)
        BY <2>1, InGame
    <2>3. PICK h \in games : h[1] = u.sid /\ x \in {h[1], h[2]}
        BY <1>3, <2>2, AboutGame
    <2>4. g = h
        BY <1>1, <2>1, <2>3 DEF OutcomeInv
    <2>5. QED
        BY <2>1, <2>3, <2>4
<1>6. QED
    BY <1>4, <1>5

(* The session that is ended was not, and a fair player's token is its own. *)
LEMMA CloseKeeps ==
    ASSUME IInv, NEW token \in Held, PresentResult(token) \/ PresentMatch(token)
    PROVE  IInv'
<1> DEFINE pid == token.pid
           s == accounts[token.pid].sid
           end == [sid |-> accounts[token.pid].sid, token |-> token]
<1>i. AccountInv /\ ClosingInv /\ OutcomeInv /\ ResultInv
    BY DEF IInv
<1>f. /\ token \in tokens
      /\ pid \in DOMAIN accounts /\ accounts[pid].matchmaking
      /\ accounts' \in Seq(Account) /\ DOMAIN accounts' = DOMAIN accounts
      /\ \A p \in DOMAIN accounts :
            /\ accounts'[p].sid = accounts[p].sid
            /\ accounts'[p].matchmaking <=> accounts[p].matchmaking /\ p # pid
      /\ closings' = closings \cup {end}
      /\ UNCHANGED <<sessionCount, logins, waiting, games, results, tokens, again>>
    BY <1>i, CloseFacts
<1>e. end.sid = s /\ end.token = token
    OBVIOUS
<1>1. \A t, p : Begun(t, p)' <=> Begun(t, p)
    BY <1>f DEF Begun
<1>2. /\ \A t, p : Begun(t, p) => p \in DOMAIN accounts
      /\ \A t, p, q : Begun(t, p) /\ Begun(t, q) => p = q
      /\ Begun(s, pid)
    BY <1>i, <1>f DEF AccountInv
\* The session that is ended had not been ended.
<1>3. \A c \in closings : c.sid # s
    BY <1>i, <1>f, <1>2 DEF ClosingInv
<1> HIDE DEF end
<1>4. AccountInv'
    <2>1. \A p \in DOMAIN accounts' : accounts'[p].matchmaking => Begun(accounts'[p].sid, p)
        BY <1>i, <1>f DEF AccountInv
    <2>2. \A p \in DOMAIN accounts' : accounts'[p].matchmaking =>
             \E login \in logins' : login.sid = accounts'[p].sid /\ login.pid = p
        BY <1>f, <2>1 DEF Begun
    <2>3. (\A p \in DOMAIN accounts : accounts[p].matchmaking => Begun(accounts[p].sid, p))'
        BY <2>2 DEF Begun
    <2>4. \A t, p : Begun(t, p)' => t \in 0..sessionCount' - 1 /\ p \in DOMAIN accounts'
        BY <1>1, <1>i, <1>f DEF AccountInv
    <2>5. \A t, p, q : Begun(t, p)' /\ Begun(t, q)' => p = q
        BY <1>1, <1>2
    <2>6. QED
        BY <1>i, <1>f, <2>3, <2>4, <2>5 DEF AccountInv
<1>5. ClosingInv'
    <2>1. \A c \in closings' : Begun(c.sid, c.token.pid)' /\ c.token \in tokens'
        <3>1. ASSUME NEW c \in closings PROVE Begun(c.sid, c.token.pid)' /\ c.token \in tokens'
            <4>1. Begun(c.sid, c.token.pid) /\ c.token \in tokens
                BY <1>i DEF ClosingInv
            <4>2. QED
                BY <1>1, <1>f, <4>1
        <3>2. Begun(end.sid, end.token.pid)
            BY <1>2, <1>e
        <3>3. ASSUME NEW c \in {end} PROVE Begun(c.sid, c.token.pid)' /\ c.token \in tokens'
            <4>1. Begun(c.sid, c.token.pid) /\ c.token \in tokens
                BY <1>f, <1>e, <3>2
            <4>2. QED
                BY <1>1, <1>f, <4>1
        <3>4. QED
            BY <1>f, <3>1, <3>3
    <2>2. \A c, d \in closings' : c.sid = d.sid => c = d
        BY <1>i, <1>f, <1>e, <1>3 DEF ClosingInv
    <2>3. ASSUME NEW t, NEW p, Begun(t, p)'
          PROVE  (\E c \in closings' : c.sid = t)
                    <=> ~(accounts'[p].matchmaking /\ accounts'[p].sid = t)
        <3>1. Begun(t, p) /\ p \in DOMAIN accounts
            BY <1>1, <1>2, <2>3
        <3>2. (\E c \in closings : c.sid = t)
                 <=> ~(accounts[p].matchmaking /\ accounts[p].sid = t)
            BY <1>i, <3>1 DEF ClosingInv
        <3>3. CASE t = s
            <4>1. p = pid
                BY <1>2, <3>1, <3>3
            <4>2. QED
                BY <1>f, <1>e, <3>3, <4>1
        <3>4. CASE t # s
            <4>1. (\E c \in closings' : c.sid = t) <=> (\E c \in closings : c.sid = t)
                BY <1>f, <1>e, <3>4
            <4>2. (accounts'[p].matchmaking /\ accounts'[p].sid = t)
                     <=> (accounts[p].matchmaking /\ accounts[p].sid = t)
                BY <1>f, <3>1, <3>4
            <4>3. QED
                BY <3>2, <4>1, <4>2
        <3>5. QED
            BY <3>3, <3>4
    <2>4. QED
        BY <2>1, <2>2, <2>3 DEF ClosingInv
<1>6. /\ OutcomeInv' /\ ResultInv'
      /\ \A c \in closings : Fair(c.token.pid)' => c.sid \in SessionsOf(c.token)'
    <2>1. logins \subseteq logins' /\ closings \subseteq closings'
        BY <1>f
    <2>2. QED
        BY <1>f, <1>4, <2>1, RequestsKeep
<1>7. SessionsOf(token)' = SessionsOf(token)
    BY <1>f DEF SessionsOf, GamesCalled, InPairs, Owner
\* If the account is in none of the sessions that the token of a fair player is
\* about, it has ended them, and with the same token: it would show it twice.
<1>8. ASSUME Fair(pid)' PROVE s \in SessionsOf(token)
    <2>1. SUFFICES ASSUME s \notin SessionsOf(token) PROVE FALSE
        OBVIOUS
    <2>2. Fair(pid)
        <3>1. logins \subseteq logins' /\ closings \subseteq closings'
            BY <1>f
        <3>2. QED
            BY <1>i, <1>f, <1>4, <1>8, <3>1, FairBefore
    <2>3. PICK x \in SessionsOf(token) : Begun(x, pid)
        BY <1>i, <1>f, AboutBegun
    <2>4. PICK c \in closings : c.sid = x
        BY <1>i, <2>1, <2>3 DEF ClosingInv
    <2>5. c.token.pid = pid /\ c.token \in tokens
        BY <1>i, <1>2, <2>3, <2>4 DEF ClosingInv
    <2>6. x \in SessionsOf(c.token)
        BY <1>i, <2>2, <2>4, <2>5 DEF EndsOwn, IInv
    <2>7. c.token = token
        BY <1>i, <1>f, <2>2, <2>3, <2>5, <2>6, OneToken
    <2>8. \A a, b \in closings' : a.token = b.token /\ a.token.pid = pid => a = b
        BY <1>8 DEF Fair
    <2>9. c = end
        BY <1>f, <1>e, <2>7, <2>8
    <2>10. QED
        BY <1>3, <1>e, <2>9
<1>9. EndsOwn'
    <2>1. SUFFICES ASSUME NEW c \in closings', Fair(c.token.pid)'
                   PROVE  c.sid \in SessionsOf(c.token)'
        BY DEF EndsOwn
    <2>2. CASE c \in closings
        BY <1>6, <2>1, <2>2
    <2>3. CASE c = end
        BY <1>7, <1>8, <1>e, <2>1, <2>3
    <2>4. QED
        BY <1>f, <2>1, <2>2, <2>3
<1>10. QED
    BY <1>4, <1>5, <1>6, <1>9 DEF IInv

------------------------------------------------------------------------------
(* The matchmaking server and the game server.                              *)

(* What they do leaves the accounts and what was ended as they are.         *)
LEMMA ServersKeep ==
    ASSUME IInv, UNCHANGED <<service, logins, closings>>,
           tokens \subseteq tokens', games \subseteq games', again \subseteq again',
           waiting' \in [DOMAIN waiting' -> Elos]
    PROVE  /\ AccountInv' /\ ClosingInv' /\ EndsOwn'
           /\ \A s, p : Begun(s, p)' <=> Begun(s, p)
<1>i. AccountInv /\ ClosingInv /\ OutcomeInv /\ EndsOwn
    BY DEF IInv
<1>u. UNCHANGED <<accounts, sessionCount, logins, closings>>
    BY DEF service
<1>1. \A s, p : Begun(s, p)' <=> Begun(s, p)
    BY <1>u DEF Begun
<1>2. AccountInv'
    <2>1. \A p \in DOMAIN accounts' : accounts'[p].matchmaking => Begun(accounts'[p].sid, p)
        BY <1>i, <1>u DEF AccountInv
    <2>2. (\A p \in DOMAIN accounts : accounts[p].matchmaking => Begun(accounts[p].sid, p))'
        BY <1>u, <2>1 DEF Begun
    <2>3. \A s, p : Begun(s, p)' => s \in 0..sessionCount' - 1 /\ p \in DOMAIN accounts'
        BY <1>1, <1>i, <1>u DEF AccountInv
    <2>4. \A s, p, q : Begun(s, p)' /\ Begun(s, q)' => p = q
        BY <1>1, <1>i DEF AccountInv
    <2>5. QED
        BY <1>i, <1>u, <2>2, <2>3, <2>4 DEF AccountInv
<1>3. ClosingInv'
    BY <1>i, <1>u, SameSessions
<1>4. \A c \in closings : Fair(c.token.pid)' => c.sid \in SessionsOf(c.token)'
    BY <1>i, <1>u, <1>2, StillOwn
<1>5. EndsOwn'
    BY <1>u, <1>4 DEF EndsOwn
<1>6. QED
    BY <1>1, <1>2, <1>3, <1>5

(* What they do to neither results nor their tokens leaves those as they    *)
(* are.                                                                     *)
LEMMA ResultsKept ==
    ASSUME ResultInv, logins \subseteq logins', games \subseteq games', results' = results,
           \A t \in tokens' : t \in tokens \/ t.result = Cancelled
    PROVE  ResultInv'
<1>1. /\ \A pid, sid : Plays(pid, sid) => Plays(pid, sid)'
      /\ \A result, sid : Played(result, sid) => Played(result, sid)'
    BY StillPlayed
<1>2. \A sid \in DOMAIN results : \A r : r = results[sid] => Played(r, sid)'
    BY <1>1 DEF ResultInv
<1>3. (\A sid \in DOMAIN results : Played(results[sid], sid))'
    BY <1>2 DEF Played
<1>4. \A t \in tokens' : t.result # Cancelled =>
         Plays(t.pid, t.sid)' /\ Played(t.result, t.sid)'
    BY <1>1 DEF ResultInv
<1>5. QED
    BY <1>3, <1>4 DEF ResultInv

(* A session with an outcome that waits is noted as one that waits again.   *)
LEMMA QueueKeeps ==
    ASSUME IInv, NEW login \in logins, Queue(login)
    PROVE  IInv'
<1>i. AccountInv /\ OutcomeInv /\ ResultInv
    BY DEF IInv
<1>1. /\ UNCHANGED <<service, logins, games, results, tokens, closings>>
      /\ login.sid \notin DOMAIN waiting
      /\ waiting' = [s \in DOMAIN waiting \cup {login.sid} |->
                        IF s \in DOMAIN waiting THEN waiting[s] ELSE login.rating]
      /\ again' = IF HasOutcome(login.sid) THEN again \cup {login.sid} ELSE again
    BY DEF Queue
<1>2. DOMAIN waiting' = DOMAIN waiting \cup {login.sid} /\ waiting' \in [DOMAIN waiting' -> Elos]
    BY <1>i, <1>1 DEF AccountInv
<1>3. again \subseteq again' /\ again' \subseteq again \cup {login.sid}
    BY <1>1
<1>4. /\ AccountInv' /\ ClosingInv' /\ EndsOwn'
      /\ \A s, p : Begun(s, p)' <=> Begun(s, p)
    BY <1>1, <1>2, <1>3, ServersKeep
<1>5. OutcomeInv'
    <2>1. \A s : HasOutcome(s)' <=> HasOutcome(s)
        BY <1>1 DEF HasOutcome
    <2>2. Begun(login.sid, login.pid)
        BY DEF Begun
    <2>3. \A s \in DOMAIN waiting' \cup InPairs(games') \cup again' : \E p : Begun(s, p)'
        BY <1>i, <1>1, <1>2, <1>3, <1>4, <2>2 DEF OutcomeInv
    <2>4. \A t \in tokens' : t.result = Cancelled => Begun(t.sid, t.pid)'
        BY <1>i, <1>1, <1>4 DEF OutcomeInv
    <2>5. \A s \in DOMAIN waiting' : HasOutcome(s)' => s \in again'
        BY <1>i, <1>1, <1>2, <1>3, <2>1 DEF OutcomeInv
    <2>6. /\ \A g, h \in games' : \A s \in {g[1], g[2]} \cap {h[1], h[2]} :
                s \notin again' => g = h
          /\ \A t \in tokens' : t.result = Cancelled /\ t.sid \in InPairs(games') => t.sid \in again'
        BY <1>i, <1>1, <1>3 DEF OutcomeInv
    <2>7. QED
        BY <2>3, <2>4, <2>5, <2>6 DEF OutcomeInv
<1>6. ResultInv'
    BY <1>i, <1>1, ResultsKept
<1>7. QED
    BY <1>4, <1>5, <1>6 DEF IInv

(* Who leaves does not wait any more.                                       *)
LEMMA LeaveKeeps ==
    ASSUME IInv, NEW s \in Sids, Leave(s)
    PROVE  IInv'
<1>i. AccountInv /\ OutcomeInv /\ ResultInv
    BY DEF IInv
<1> DEFINE new == Token(Owner(s), s, Cancelled)
<1>1. /\ UNCHANGED <<service, logins, games, results, closings, again>>
      /\ s \in DOMAIN waiting
      /\ waiting' = [x \in DOMAIN waiting \ {s} |-> waiting[x]]
      /\ tokens' = tokens \cup {new}
    BY DEF Leave, history, Restrict
<1>n. new.sid = s /\ new.pid = Owner(s) /\ new.result = Cancelled
    BY DEF Token
<1> HIDE DEF new
<1>2. DOMAIN waiting' = DOMAIN waiting \ {s} /\ waiting' \in [DOMAIN waiting' -> Elos]
    BY <1>i, <1>1 DEF AccountInv
<1>3. /\ AccountInv' /\ ClosingInv' /\ EndsOwn'
      /\ \A t, p : Begun(t, p)' <=> Begun(t, p)
    BY <1>1, <1>2, ServersKeep
<1>4. Begun(s, Owner(s))
    <2>1. PICK p : Begun(s, p)
        BY <1>i, <1>1 DEF OutcomeInv
    <2>2. QED
        BY <1>i, <2>1, OwnerBegan
<1>5. OutcomeInv'
    <2>1. \A x : HasOutcome(x)' => HasOutcome(x) \/ x = s
        BY <1>1, <1>n DEF HasOutcome
    <2>2. \A x \in DOMAIN waiting' \cup InPairs(games') \cup again' : \E p : Begun(x, p)'
        BY <1>i, <1>1, <1>2, <1>3 DEF OutcomeInv
    <2>3. \A t \in tokens' : t.result = Cancelled => Begun(t.sid, t.pid)'
        BY <1>i, <1>1, <1>n, <1>3, <1>4 DEF OutcomeInv
    <2>4. \A x \in DOMAIN waiting' : HasOutcome(x)' => x \in again'
        BY <1>i, <1>1, <1>2, <2>1 DEF OutcomeInv
    <2>5. \A g, h \in games' : \A x \in {g[1], g[2]} \cap {h[1], h[2]} : x \notin again' => g = h
        BY <1>i, <1>1 DEF OutcomeInv
    \* It waited: if it is in a game it did so once more.
    <2>6. s \in InPairs(games) => s \in again
        BY <1>i, <1>1 DEF OutcomeInv, HasOutcome
    <2>7. \A t \in tokens' : t.result = Cancelled /\ t.sid \in InPairs(games') => t.sid \in again'
        BY <1>i, <1>1, <1>n, <2>6 DEF OutcomeInv
    <2>8. QED
        BY <2>2, <2>3, <2>4, <2>5, <2>7 DEF OutcomeInv
<1>6. ResultInv'
    BY <1>i, <1>1, <1>n, ResultsKept
<1>7. QED
    BY <1>3, <1>5, <1>6 DEF IInv

(* Who is in one of more games.                                             *)
LEMMA InPairsUnion ==
    ASSUME NEW A, NEW B
    PROVE  InPairs(A \cup B) = InPairs(A) \cup InPairs(B)
BY DEF InPairs

(* There are finitely many sessions that wait, each with a rating.          *)
LEMMA WaitingFinite ==
    ASSUME AccountInv, OutcomeInv
    PROVE  IsFiniteSet(DOMAIN waiting) /\ waiting \in [DOMAIN waiting -> Int]
<1>1. DOMAIN waiting \subseteq 0..sessionCount - 1
    <2>1. \A s \in DOMAIN waiting : \E p : Begun(s, p)
        BY DEF OutcomeInv
    <2>2. \A s, p : Begun(s, p) => s \in 0..sessionCount - 1
        BY DEF AccountInv
    <2>3. QED
        BY <2>1, <2>2
<1>2. 0 \in Int /\ sessionCount - 1 \in Int
    BY DEF AccountInv
<1>3. IsFiniteSet(0..sessionCount - 1)
    BY <1>2, FS_Interval
<1>4. IsFiniteSet(DOMAIN waiting)
    BY <1>1, <1>3, FS_Subset
<1>5. QED
    BY <1>4 DEF AccountInv

(* Whom the matcher pairs has waited, and does not any more.                *)
LEMMA MatchKeeps ==
    ASSUME IInv, Match
    PROVE  IInv'
<1>i. AccountInv /\ OutcomeInv /\ ResultInv
    BY DEF IInv
<1>u. UNCHANGED <<service, logins, results, tokens, closings, again>>
    BY DEF Match, history
<1>1. PICK order \in SetToSeqs(DOMAIN waiting) :
        /\ games' = games \cup Pairs(order, waiting)
        /\ waiting' = Restrict(waiting, DOMAIN waiting \ InPairs(Pairs(order, waiting)))
    BY Zenon DEF Match
<1> DEFINE pairs == Pairs(order, waiting)
<1>2. pairs \subseteq (DOMAIN waiting) \X (DOMAIN waiting) /\ EachInOnePair(pairs)
    <2>1. IsFiniteSet(DOMAIN waiting) /\ waiting \in [DOMAIN waiting -> Int]
        BY <1>i, WaitingFinite
    <2>2. QED
        BY <2>1, MatcherIsMaximal
<1>3. /\ games' = games \cup pairs
      /\ waiting' = [x \in DOMAIN waiting \ InPairs(pairs) |-> waiting[x]]
    BY <1>1 DEF Restrict
<1> HIDE DEF pairs
<1>4. InPairs(pairs) \subseteq DOMAIN waiting
    <2>1. \A p \in pairs : p[1] \in DOMAIN waiting /\ p[2] \in DOMAIN waiting
        BY <1>2
    <2>2. QED
        BY <2>1 DEF InPairs
<1>5. InPairs(games') = InPairs(games) \cup InPairs(pairs)
    BY <1>3, InPairsUnion
<1>6. /\ DOMAIN waiting' = DOMAIN waiting \ InPairs(pairs)
      /\ waiting' \in [DOMAIN waiting' -> Elos]
    BY <1>i, <1>3 DEF AccountInv
<1>7. /\ AccountInv' /\ ClosingInv' /\ EndsOwn'
      /\ \A s, p : Begun(s, p)' <=> Begun(s, p)
    BY <1>u, <1>3, <1>6, ServersKeep
<1>8. OutcomeInv'
    <2>1. \A s : HasOutcome(s)' => HasOutcome(s) \/ s \in InPairs(pairs)
        BY <1>u, <1>5 DEF HasOutcome
    <2>2. \A s \in DOMAIN waiting' \cup InPairs(games') \cup again' : \E p : Begun(s, p)'
        BY <1>i, <1>u, <1>4, <1>5, <1>6, <1>7 DEF OutcomeInv
    <2>3. \A t \in tokens' : t.result = Cancelled => Begun(t.sid, t.pid)'
        BY <1>i, <1>u, <1>7 DEF OutcomeInv
    <2>4. \A x \in DOMAIN waiting' : HasOutcome(x)' => x \in again'
        BY <1>i, <1>u, <1>6, <2>1 DEF OutcomeInv
    \* Who is paired has waited: if it had an outcome it did so once more.
    <2>5. \A x \in InPairs(pairs) : HasOutcome(x) => x \in again
        BY <1>i, <1>4 DEF OutcomeInv
    <2>6. ASSUME NEW g \in games', NEW h \in games',
                 NEW x \in {g[1], g[2]} \cap {h[1], h[2]}, x \notin again'
          PROVE  g = h
        <3>1. x \notin again
            BY <1>u, <2>6
        <3>2. CASE g \in games /\ h \in games
            BY <1>i, <3>1, <3>2 DEF OutcomeInv
        <3>3. CASE g \in pairs /\ h \in pairs
            BY <1>2, <3>3 DEF EachInOnePair
        <3>4. CASE (g \in games /\ h \in pairs) \/ (g \in pairs /\ h \in games)
            <4>1. x \in InPairs(games) /\ x \in InPairs(pairs)
                BY <3>4, InGame
            <4>2. QED
                BY <2>5, <3>1, <4>1 DEF HasOutcome
        <3>5. QED
            BY <1>3, <3>2, <3>3, <3>4
    <2>7. \A t \in tokens' : t.result = Cancelled /\ t.sid \in InPairs(games') => t.sid \in again'
        <3>1. SUFFICES ASSUME NEW t \in tokens, t.result = Cancelled, t.sid \in InPairs(games')
                       PROVE  t.sid \in again
            BY <1>u
        <3>2. CASE t.sid \in InPairs(games)
            BY <1>i, <3>1, <3>2 DEF OutcomeInv
        <3>3. CASE t.sid \in InPairs(pairs)
            BY <2>5, <3>1, <3>3 DEF HasOutcome
        <3>4. QED
            BY <1>5, <3>1, <3>2, <3>3
    <2>8. QED
        BY <2>2, <2>3, <2>4, <2>6, <2>7 DEF OutcomeInv
<1>9. ResultInv'
    BY <1>i, <1>u, <1>3, ResultsKept DEF service
<1>10. QED
    BY <1>7, <1>8, <1>9 DEF IInv

(* What happens at the game server is told nobody who waits.                *)
LEMMA GamesKeep ==
    ASSUME IInv, UNCHANGED <<service, logins, waiting, games, closings, again>>,
           tokens \subseteq tokens', \A t \in tokens' : t \in tokens \/ t.result # Cancelled
    PROVE  AccountInv' /\ ClosingInv' /\ OutcomeInv' /\ EndsOwn'
<1>i. AccountInv /\ OutcomeInv
    BY DEF IInv
<1>1. /\ AccountInv' /\ ClosingInv' /\ EndsOwn'
      /\ \A s, p : Begun(s, p)' <=> Begun(s, p)
    <2>1. waiting' \in [DOMAIN waiting' -> Elos]
        BY <1>i DEF AccountInv
    <2>2. QED
        BY <2>1, ServersKeep
<1>2. \A s : HasOutcome(s)' => HasOutcome(s)
    BY DEF HasOutcome
<1>3. OutcomeInv'
    <2>1. \A s \in DOMAIN waiting' \cup InPairs(games') \cup again' : \E p : Begun(s, p)'
        BY <1>i, <1>1 DEF OutcomeInv
    <2>2. \A t \in tokens' : t.result = Cancelled => Begun(t.sid, t.pid)'
        BY <1>i, <1>1 DEF OutcomeInv
    <2>3. \A s \in DOMAIN waiting' : HasOutcome(s)' => s \in again'
        BY <1>i, <1>2 DEF OutcomeInv
    <2>4. /\ \A g, h \in games' : \A s \in {g[1], g[2]} \cap {h[1], h[2]} :
                s \notin again' => g = h
          /\ \A t \in tokens' : t.result = Cancelled /\ t.sid \in InPairs(games') => t.sid \in again'
        BY <1>i DEF OutcomeInv
    <2>5. QED
        BY <2>1, <2>2, <2>3, <2>4 DEF OutcomeInv
<1>4. QED
    BY <1>1, <1>3

(* A game is played by two who may play it.                                 *)
LEMMA PlayKeeps ==
    ASSUME IInv, NEW sid, NEW p, NEW q, NEW score, Play(sid, p, q, score)
    PROVE  IInv'
<1>i. AccountInv /\ OutcomeInv /\ ResultInv
    BY DEF IInv
<1> DEFINE result == [players |-> <<p, q>>, score |-> score]
<1>1. /\ UNCHANGED <<service, logins, waiting, games, tokens, closings, again>>
      /\ {p, q} \subseteq PlayersOf(sid) /\ p # q
      /\ results' = [g \in DOMAIN results \cup {sid} |-> IF g = sid THEN result ELSE results[g]]
    BY DEF Play, history
<1>2. AccountInv' /\ ClosingInv' /\ OutcomeInv' /\ EndsOwn'
    BY <1>1, GamesKeep
<1>3. Played(result, sid)
    <2>1. Plays(p, sid) /\ Plays(q, sid)
        BY <1>i, <1>1, HolderPlays
    <2>2. QED
        BY <1>1, <2>1 DEF Played
<1> HIDE DEF result
<1>4. /\ \A pid, g : Plays(pid, g) => Plays(pid, g)'
      /\ \A r, g : Played(r, g) => Played(r, g)'
    BY <1>1, StillPlayed
<1>5. ResultInv'
    <2>1. \A g \in DOMAIN results' : \A r : r = results'[g] => Played(r, g)'
        BY <1>i, <1>1, <1>3, <1>4 DEF ResultInv
    <2>2. (\A g \in DOMAIN results : Played(results[g], g))'
        BY <2>1 DEF Played
    <2>3. \A t \in tokens' : t.result # Cancelled =>
             Plays(t.pid, t.sid)' /\ Played(t.result, t.sid)'
        BY <1>i, <1>1, <1>4 DEF ResultInv
    <2>4. QED
        BY <2>2, <2>3 DEF ResultInv
<1>6. QED
    BY <1>2, <1>5 DEF IInv

(* A result goes to those who may have played for it.                       *)
LEMMA CollectKeeps ==
    ASSUME IInv, NEW pid, NEW sid, Collect(pid, sid)
    PROVE  IInv'
<1>i. AccountInv /\ OutcomeInv /\ ResultInv
    BY DEF IInv
<1> DEFINE result == results[sid]
           new == Token(pid, sid, result)
<1>1. /\ UNCHANGED <<service, logins, waiting, games, results, closings, again>>
      /\ sid \in DOMAIN results /\ pid \in PlayersOf(sid)
      /\ tokens' = tokens \cup {new}
    BY DEF Collect, history
<1>n. new.pid = pid /\ new.sid = sid /\ new.result = result
    BY DEF Token
<1>2. Played(result, sid) /\ Plays(pid, sid)
    BY <1>i, <1>1, HolderPlays DEF ResultInv
<1> HIDE DEF new, result
<1>3. result # Cancelled
    BY <1>2, PlayedNotCancelled
<1>4. AccountInv' /\ ClosingInv' /\ OutcomeInv' /\ EndsOwn'
    BY <1>1, <1>n, <1>3, GamesKeep
<1>5. /\ \A p, g : Plays(p, g) => Plays(p, g)'
      /\ \A r, g : Played(r, g) => Played(r, g)'
    BY <1>1, StillPlayed
<1>6. ResultInv'
    <2>1. \A g \in DOMAIN results : \A r : r = results[g] => Played(r, g)'
        BY <1>i, <1>5 DEF ResultInv
    <2>2. (\A g \in DOMAIN results : Played(results[g], g))'
        BY <1>1, <2>1 DEF Played
    <2>3. \A t \in tokens' : t.result # Cancelled =>
             Plays(t.pid, t.sid)' /\ Played(t.result, t.sid)'
        BY <1>i, <1>1, <1>n, <1>2, <1>5 DEF ResultInv
    <2>4. QED
        BY <2>2, <2>3 DEF ResultInv
<1>7. QED
    BY <1>4, <1>6 DEF IInv

(* The results that are not forgotten are what they were.                   *)
LEMMA ForgetKeeps ==
    ASSUME IInv, NEW sid, Forget(sid)
    PROVE  IInv'
<1>i. ResultInv
    BY DEF IInv
<1>1. /\ UNCHANGED <<service, logins, waiting, games, tokens, closings, again>>
      /\ results' = [g \in DOMAIN results \ {sid} |-> results[g]]
    BY DEF Forget, history, Restrict
<1>2. AccountInv' /\ ClosingInv' /\ OutcomeInv' /\ EndsOwn'
    BY <1>1, GamesKeep
<1>3. /\ \A p, g : Plays(p, g) => Plays(p, g)'
      /\ \A r, g : Played(r, g) => Played(r, g)'
    BY <1>1, StillPlayed
<1>4. ResultInv'
    <2>1. \A g \in DOMAIN results' : \A r : r = results'[g] => Played(r, g)'
        BY <1>i, <1>1, <1>3 DEF ResultInv
    <2>2. (\A g \in DOMAIN results : Played(results[g], g))'
        BY <2>1 DEF Played
    <2>3. \A t \in tokens' : t.result # Cancelled =>
             Plays(t.pid, t.sid)' /\ Played(t.result, t.sid)'
        BY <1>i, <1>1, <1>3 DEF ResultInv
    <2>4. QED
        BY <2>2, <2>3 DEF ResultInv
<1>5. QED
    BY <1>2, <1>4 DEF IInv

(* A step of nobody.                                                        *)
LEMMA StutterKeeps ==
    ASSUME IInv, UNCHANGED vars
    PROVE  IInv'
<1>1. UNCHANGED <<service, logins, waiting, games, results, tokens, closings, again>>
    BY DEF vars, history
<1>2. AccountInv' /\ ClosingInv' /\ OutcomeInv' /\ EndsOwn'
    BY <1>1, GamesKeep
<1>3. ResultInv'
    BY <1>1, ResultsKept DEF IInv
<1>4. QED
    BY <1>2, <1>3 DEF IInv

------------------------------------------------------------------------------
(* Every step keeps the invariant.                                          *)
THEOREM ExampleInductive == IInv /\ [ExampleNext]_vars => IInv'
<1>1. SUFFICES ASSUME IInv, [ExampleNext]_vars PROVE IInv'
    OBVIOUS
<1>2. CASE RequestAccount
    BY <1>1, <1>2, SignUpKeeps
<1>3. ASSUME NEW pid \in Pids, RequestLogin(pid) PROVE IInv'
    BY <1>1, <1>3, LoginKeeps
<1>4. ASSUME NEW token \in Held, PresentResult(token) \/ PresentMatch(token) PROVE IInv'
    BY <1>1, <1>4, CloseKeeps
<1>5. ASSUME NEW login \in logins, Queue(login) PROVE IInv'
    BY <1>1, <1>5, QueueKeeps
<1>6. ASSUME NEW s \in Sids, Leave(s) PROVE IInv'
    BY <1>1, <1>6, LeaveKeeps
<1>7. CASE Match
    BY <1>1, <1>7, MatchKeeps
<1>8. ASSUME NEW sid \in Sids, NEW p \in Pids, NEW q \in Pids, NEW score \in Scores,
             Play(sid, p, q, score)
      PROVE  IInv'
    BY <1>1, <1>8, PlayKeeps
<1>9. ASSUME NEW pid \in Pids, NEW sid \in Sids, Collect(pid, sid) PROVE IInv'
    BY <1>1, <1>9, CollectKeeps
<1>10. ASSUME NEW sid \in Sids, Forget(sid) PROVE IInv'
    BY <1>1, <1>10, ForgetKeeps
<1>11. CASE UNCHANGED vars
    BY <1>1, <1>11, StutterKeeps
<1>12. QED
    BY <1>1, <1>2, <1>3, <1>4, <1>5, <1>6, <1>7, <1>8, <1>9, <1>10, <1>11 DEF ExampleNext

(* So the invariant always holds.                                           *)
THEOREM ExampleInvariance == Spec => []IInv
BY ExampleInitial, ExampleInductive, PTL DEF Spec

(* Each session of an account is ended at most once, and is ended as soon as *)
(* its account is not in it any more, whatever tokens are shown and for any  *)
(* number of accounts and sessions (:130, :172, :230).                       *)
THEOREM SessionsEnd == Spec => []SessionsEndOnce
<1>1. IInv => SessionsEndOnce
    <2>1. SUFFICES ASSUME IInv, NEW login \in logins
                   PROVE  LET s == login.sid
                              a == accounts[login.pid]
                          IN  /\ \A c, d \in closings : c.sid = s /\ d.sid = s => c = d
                              /\ (\E c \in closings : c.sid = s) <=> ~(a.matchmaking /\ a.sid = s)
        BY DEF SessionsEndOnce
    <2>2. Begun(login.sid, login.pid) /\ ClosingInv
        BY <2>1 DEF IInv, Begun
    <2>3. QED
        BY <2>2 DEF ClosingInv
<1>2. QED
    BY <1>1, ExampleInvariance, PTL

(* The result that a fair player shows is of the two players who were       *)
(* matched: its game is the only one of that name.                          *)
LEMMA OwnResult ==
    ASSUME IInv, NEW token \in tokens, token.result # Cancelled, Fair(token.pid)
    PROVE  Range(token.result.players) = PlayersOf(token.sid)
<1> DEFINE name == token.sid
<1>i. AccountInv /\ OutcomeInv /\ ResultInv
    BY DEF IInv
<1>1. Plays(token.pid, name) /\ Played(token.result, name)
    BY <1>i DEF ResultInv
<1>2. PICK g \in games : \E s \in {g[1], g[2]} : g[1] = name /\ Begun(s, token.pid)
    BY <1>1 DEF Plays
<1>3. g[1] = name /\ token.pid \in {Owner(g[1]), Owner(g[2])}
    BY <1>i, <1>2, OwnerBegan
<1>4. name \notin again
    BY <1>3 DEF Fair
<1>5. \A h \in games : h[1] = name => h = g
    BY <1>i, <1>3, <1>4 DEF OutcomeInv
<1>6. PlayersOf(name) = {Owner(g[1]), Owner(g[2])}
    <2>1. GamesCalled(name) = {g}
        BY <1>3, <1>5 DEF GamesCalled
    <2>2. InPairs({g}) = {g[1], g[2]}
        BY DEF InPairs
    <2>3. QED
        BY <2>1, <2>2 DEF PlayersOf
<1>7. \A p : Plays(p, name) => p \in {Owner(g[1]), Owner(g[2])}
    <2>1. SUFFICES ASSUME NEW p, Plays(p, name) PROVE p \in {Owner(g[1]), Owner(g[2])}
        OBVIOUS
    <2>2. PICK h \in games : \E s \in {h[1], h[2]} : h[1] = name /\ Begun(s, p)
        BY <2>1 DEF Plays
    <2>3. \E s \in {g[1], g[2]} : Begun(s, p)
        BY <1>5, <2>2
    <2>4. QED
        BY <1>i, <2>3, OwnerBegan
<1>8. PICK p, q : p # q /\ token.result.players = <<p, q>> /\ Plays(p, name) /\ Plays(q, name)
    BY <1>1 DEF Played
<1>9. Range(<<p, q>>) = {p, q}
    <2>1. DOMAIN <<p, q>> = {1, 2} /\ <<p, q>>[1] = p /\ <<p, q>>[2] = q
        OBVIOUS
    <2>2. QED
        BY <2>1 DEF Range
<1>10. {p, q} = {Owner(g[1]), Owner(g[2])}
    BY <1>7, <1>8
<1>11. QED
    BY <1>6, <1>8, <1>9, <1>10

(* /submit and /cancel do not ask whose session a token is of, nor whether   *)
(* its player was in the game.  For a player who shows each token once, and  *)
(* meets no one who plays again in an old session, the session that is       *)
(* closed is one the token is about, and the result that is counted is that  *)
(* of the two who were matched for its game (:172-192, :230).                *)
THEOREM FairEnds == Spec => []FairPlayersEndTheirOwn
<1>1. IInv => FairPlayersEndTheirOwn
    <2>1. SUFFICES ASSUME IInv, NEW c \in closings, Fair(c.token.pid)
                   PROVE  /\ c.sid \in SessionsOf(c.token)
                          /\ c.token.result # Cancelled =>
                                Range(c.token.result.players) = PlayersOf(c.token.sid)
        BY DEF FairPlayersEndTheirOwn
    <2>2. EndsOwn /\ ClosingInv
        BY <2>1 DEF IInv
    <2>3. c.sid \in SessionsOf(c.token) /\ c.token \in tokens
        BY <2>1, <2>2 DEF EndsOwn, ClosingInv
    <2>4. QED
        BY <2>1, <2>3, OwnResult
<1>2. QED
    BY <1>1, ExampleInvariance, PTL

(* While a fair player waits or plays in a session its account stays in it   *)
(* (:130-135, :230-237): the session could only have been ended by a token   *)
(* that is about it, and it waits again if there is one.                     *)
THEOREM FairStay == Spec => []FairPlayersStay
<1>1. IInv => FairPlayersStay
    <2>1. SUFFICES ASSUME IInv,
                          NEW s \in DOMAIN waiting \cup
                              {x \in InPairs(games) : \A t \in tokens : x \notin SessionsOf(t)},
                          Fair(Owner(s))
                   PROVE  accounts[Owner(s)].matchmaking /\ accounts[Owner(s)].sid = s
        BY DEF FairPlayersStay
    <2>2. AccountInv /\ ClosingInv /\ OutcomeInv /\ EndsOwn
        BY <2>1 DEF IInv
    <2>3. PICK p : Begun(s, p)
        BY <2>2 DEF OutcomeInv
    <2>4. Owner(s) = p
        BY <2>2, <2>3, OwnerBegan
    <2>5. ASSUME NEW c \in closings, c.sid = s PROVE FALSE
        <3>1. c.token.pid = p /\ c.token \in tokens
            BY <2>2, <2>3, <2>5 DEF ClosingInv, AccountInv
        <3>2. s \in SessionsOf(c.token)
            BY <2>1, <2>2, <2>4, <2>5, <3>1 DEF EndsOwn
        <3>3. s \in DOMAIN waiting
            BY <2>1, <3>1, <3>2
        <3>4. HasOutcome(s)
            BY <3>1, <3>2, AboutGame, InGame DEF HasOutcome
        <3>5. s \in again
            BY <2>2, <3>3, <3>4 DEF OutcomeInv
        <3>6. QED
            BY <2>1, <3>5 DEF Fair
    <2>6. QED
        BY <2>2, <2>3, <2>4, <2>5 DEF ClosingInv
<1>2. QED
    BY <1>1, ExampleInvariance, PTL

(* The matcher is right about the sessions that wait, any number of them and *)
(* any ratings (:441-470 of tic_tac_toe_game.hpp).                           *)
THEOREM WaitingMatched == Spec => []MaximalMatching
<1>1. IInv => MaximalMatching
    <2>1. SUFFICES ASSUME IInv, NEW rating \in [DOMAIN waiting -> MatcherRatings],
                          NEW order \in SetToSeqs(DOMAIN waiting)
                   PROVE  LET pairs == Pairs(order, rating)
                          IN  /\ EachInOnePair(pairs)
                              /\ PairsNear(rating, pairs)
                              /\ NobodyLeftForNobody(DOMAIN waiting, rating, pairs)
        BY DEF MaximalMatching
    <2>2. IsFiniteSet(DOMAIN waiting)
        BY <2>1, WaitingFinite DEF IInv
    <2>3. rating \in [DOMAIN waiting -> Int]
        <3>1. MatcherRatings \subseteq Nat
            BY BoundsAssumption, Zenon
        <3>2. rating \in [DOMAIN waiting -> MatcherRatings]
            BY <2>1
        <3>3. Nat \subseteq Int
            OBVIOUS
        <3>4. QED
            BY <3>1, <3>2, <3>3
    <2>4. QED
        BY <2>2, <2>3, MatcherIsMaximal
<1>2. QED
    BY <1>1, ExampleInvariance, PTL
==============================================================================
