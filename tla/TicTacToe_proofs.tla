-------------------------- MODULE TicTacToe_proofs --------------------------
(* Theorems about TicTacToe, for any players and any clocks.                *)
EXTENDS TicTacToe, FiniteSetTheorems, TLAPS

USE TimeAssumption DEF EmptyVal

(* Why the two verdicts never meet: the clock's is given only while the    *)
(* board has none, and then nobody moves any more.                         *)
VerdictInv ==
    /\ clockState # 0 => gameOver
    /\ gameOver => boardState = 0

(* Who is connected is in the list of players, has been shown the current  *)
(* state when the game is on, and a game that is on has two players.       *)
ViewInv ==
    /\ connected \subseteq Range(list)
    /\ started => Len(list) > 1
    /\ ~started => ~IsDone /\ ~updating
    /\ started => \A p \in connected : view[p] = Current

IInv == TypeOK /\ VerdictInv /\ ViewInv /\ ClockOfMover

------------------------------------------------------------------------------
(* A list that grows keeps what it had.                                     *)
LEMMA AppendKeeps ==
    ASSUME NEW S, NEW s \in Seq(S), NEW e \in S
    PROVE  /\ Append(s, e) \in Seq(S)
           /\ Len(Append(s, e)) = Len(s) + 1
           /\ \A i \in 1..Len(s) : Append(s, e)[i] = s[i]
           /\ Range(Append(s, e)) = Range(s) \cup {e}
<1>1. /\ Append(s, e) \in Seq(S)
      /\ Len(Append(s, e)) = Len(s) + 1
      /\ \A i \in 1..Len(s) : Append(s, e)[i] = s[i]
      /\ Append(s, e)[Len(s) + 1] = e
      /\ Len(s) \in Nat
      /\ DOMAIN s = 1..Len(s) /\ DOMAIN Append(s, e) = 1..Len(s) + 1
    OBVIOUS
<1>2. Range(Append(s, e)) = Range(s) \cup {e}
    BY <1>1 DEF Range
<1>3. QED
    BY <1>1, <1>2

(* What the first two players' change of places leaves as it was.           *)
LEMMA SwapKeeps ==
    ASSUME list \in Seq(Players), Len(list) > 1
    PROVE  /\ Swapped \in Seq(Players)
           /\ Len(Swapped) = Len(list)
           /\ Range(Swapped) = Range(list)
<1>1. /\ DOMAIN list = 1..Len(list) /\ Len(list) \in Nat
      /\ list \in [1..Len(list) -> Players]
    OBVIOUS
<1>2. 1 \in DOMAIN list /\ 2 \in DOMAIN list
    BY <1>1
<1>3. /\ Swapped \in [1..Len(list) -> Players]
      /\ DOMAIN Swapped = 1..Len(list)
      /\ Swapped[1] = list[2] /\ Swapped[2] = list[1]
      /\ \A i \in DOMAIN list : i \notin {1, 2} => Swapped[i] = list[i]
    BY <1>1, <1>2 DEF Swapped
<1>4. Swapped \in Seq(Players) /\ Len(Swapped) = Len(list)
    BY <1>1, <1>3
<1>5. Range(Swapped) = Range(list)
    BY <1>1, <1>2, <1>3 DEF Range
<1>6. QED
    BY <1>4, <1>5

------------------------------------------------------------------------------
(* A new game has no players, no moves and all the time.                    *)
THEOREM Initial == Init => IInv
<1>1. SUFFICES ASSUME Init PROVE IInv
    OBVIOUS
<1>2. TypeOK
    <2>1. list \in Seq(Players) /\ board \in [Cells -> {-1, 0, 1}]
        BY <1>1 DEF Init
    <2>2. view \in [Players -> Views \cup {NoView}]
        BY <1>1 DEF Init
    <2>3. times \in [{1, 2} -> 0..TimeLimit]
        BY <1>1 DEF Init
    <2>4. /\ connected \in SUBSET Players /\ turn \in {1, 2} /\ moveCount \in 0..9
          /\ clockState \in {-1, 0, 1} /\ boardState \in {-1, 0, 1}
        BY <1>1 DEF Init
    <2>5. started \in BOOLEAN /\ gameOver \in BOOLEAN /\ updating \in BOOLEAN
        BY <1>1 DEF Init
    <2>6. QED
        BY <2>1, <2>2, <2>3, <2>4, <2>5 DEF TypeOK
<1>3. VerdictInv /\ ViewInv
    BY <1>1 DEF Init, VerdictInv, ViewInv, IsDone
<1>4. ClockOfMover
    BY <1>1 DEF Init, ClockOfMover
<1>5. QED
    BY <1>2, <1>3, <1>4 DEF IInv

------------------------------------------------------------------------------
(* What is shown is a view.                                                 *)
LEMMA CurrentIsView ==
    ASSUME TypeOK PROVE Current \in Views
BY DEF TypeOK, Current, Views, State, IsDone

(* Who connects or leaves disturbs nothing but the list and the views.      *)
LEMMA ConnectKeeps ==
    ASSUME IInv, NEW p \in Players, Connect(p)
    PROVE  IInv'
<1>t. TypeOK /\ VerdictInv /\ ViewInv /\ ClockOfMover
    BY DEF IInv
<1>u. UNCHANGED <<started, turn, position, clocks, updating>> /\ Current' = Current
      /\ IsDone' = IsDone
    BY DEF Connect, position, clocks, Current, State, IsDone
<1>1. /\ list' \in Seq(Players) /\ Len(list') >= Len(list)
      /\ Range(list') = Range(list) \cup {p}
    <2>1. CASE p \in Range(list)
        BY <1>t, <2>1 DEF Connect, TypeOK
    <2>2. CASE p \notin Range(list)
        <3>1. list' = Append(list, p) /\ list \in Seq(Players)
            BY <1>t, <2>2 DEF Connect, TypeOK
        <3>2. QED
            BY <3>1, AppendKeeps
    <2>3. QED
        BY <2>1, <2>2
<1>2. connected' = connected \cup {p} /\ connected' \in SUBSET Players
    BY <1>t DEF Connect, TypeOK
<1>3. /\ view' \in [Players -> Views \cup {NoView}]
      /\ started => view' = [q \in Players |-> IF q = p THEN Current ELSE view[q]]
    <2>1. CASE started
        BY <2>1, <1>t, <1>u, CurrentIsView DEF Connect, Show, TypeOK
    <2>2. CASE ~started
        BY <2>2, <1>t DEF Connect, TypeOK
    <2>3. QED
        BY <2>1, <2>2
<1>4. TypeOK'
    BY <1>t, <1>u, <1>1, <1>2, <1>3 DEF TypeOK, position, clocks
<1>5. ViewInv'
    <2>1. connected' \subseteq Range(list')
        BY <1>t, <1>1, <1>2 DEF ViewInv
    <2>2. started' => Len(list') > 1
        BY <1>t, <1>u, <1>1 DEF ViewInv, TypeOK
    <2>3. ~started' => ~IsDone' /\ ~updating'
        BY <1>t, <1>u DEF ViewInv
    <2>4. started' => \A q \in connected' : view'[q] = Current'
        BY <1>t, <1>u, <1>2, <1>3 DEF ViewInv, TypeOK
    <2>5. QED
        BY <2>1, <2>2, <2>3, <2>4 DEF ViewInv
<1>6. VerdictInv' /\ ClockOfMover'
    BY <1>t, <1>u DEF VerdictInv, ClockOfMover, position, clocks
<1>7. QED
    BY <1>4, <1>5, <1>6 DEF IInv

(* Who leaves is shown nothing any more.                                    *)
LEMMA DisconnectKeeps ==
    ASSUME IInv, NEW p \in Players, Disconnect(p)
    PROVE  IInv'
<1>t. TypeOK /\ VerdictInv /\ ViewInv /\ ClockOfMover
    BY DEF IInv
<1>u. UNCHANGED <<list, started, turn, position, clocks, updating>> /\ Current' = Current
      /\ IsDone' = IsDone
    BY DEF Disconnect, position, clocks, Current, State, IsDone
<1>1. /\ connected' = connected \ {p}
      /\ view' \in [Players -> Views \cup {NoView}]
      /\ \A q \in connected' : view'[q] = view[q]
    BY <1>t DEF Disconnect, TypeOK
<1>2. TypeOK'
    BY <1>t, <1>u, <1>1 DEF TypeOK, position, clocks
<1>3. ViewInv'
    BY <1>t, <1>u, <1>1 DEF ViewInv
<1>4. VerdictInv' /\ ClockOfMover'
    BY <1>t, <1>u DEF VerdictInv, ClockOfMover, position, clocks
<1>5. QED
    BY <1>2, <1>3, <1>4 DEF IInv

------------------------------------------------------------------------------
(* What is shown to everybody connected leaves everybody with the state.    *)
LEMMA BroadcastShows ==
    ASSUME TypeOK, ViewInv, TypeOK', UNCHANGED connected,
           Range(list') = Range(list),
           \/ Broadcast
           \/ UNCHANGED view /\ Current' = Current /\ started
    PROVE  /\ connected' \subseteq Range(list')
           /\ \A p \in connected' : view'[p] = Current'
<1>1. connected' \subseteq Range(list') /\ connected \cap Range(list) = connected'
    BY DEF ViewInv
<1>2. CASE Broadcast
    BY <1>1, <1>2 DEF Broadcast, Show, TypeOK, ViewInv
<1>3. CASE UNCHANGED view /\ Current' = Current /\ started
    BY <1>1, <1>3 DEF ViewInv
<1>4. QED
    BY <1>1, <1>2, <1>3

(* A broadcast shows views.                                                 *)
LEMMA BroadcastTypes ==
    ASSUME TypeOK, Broadcast, Current' \in Views
    PROVE  view' \in [Players -> Views \cup {NoView}]
BY DEF Broadcast, Show, TypeOK

(* The game that starts is shown to both players.                           *)
LEMMA StartKeeps ==
    ASSUME IInv, Start
    PROVE  IInv'
<1>t. TypeOK /\ VerdictInv /\ ViewInv /\ ClockOfMover
    BY DEF IInv
<1>1. /\ UNCHANGED <<connected, turn, position, clocks, updating>>
      /\ started' = TRUE /\ Broadcast /\ ~updating
      /\ Current' = Current /\ IsDone' = IsDone
    BY DEF Start, CallUpdate, position, clocks, Current, State, IsDone
<1>2. list' \in Seq(Players) /\ Len(list') = Len(list) /\ Range(list') = Range(list)
    BY <1>t, SwapKeeps DEF Start, TypeOK
<1>3. view' \in [Players -> Views \cup {NoView}]
    BY <1>t, <1>1, BroadcastTypes, CurrentIsView
<1>4. TypeOK'
    BY <1>t, <1>1, <1>2, <1>3 DEF TypeOK, position, clocks
<1>5. ViewInv'
    BY <1>t, <1>1, <1>2, <1>4, BroadcastShows DEF ViewInv, Start
<1>6. VerdictInv' /\ ClockOfMover'
    BY <1>t, <1>1 DEF VerdictInv, ClockOfMover, position, clocks
<1>7. QED
    BY <1>4, <1>5, <1>6 DEF IInv

(* The clocks after one of them has run.                                    *)
LEMMA ClocksAfterTick ==
    ASSUME TypeOK, ClockOfMover, ~gameOver, NEW dt \in Deltas
    PROVE  /\ \A i \in {1, 2} : Floored(TickedBy(dt)[i]) \in 0..TimeLimit
           /\ \A i \in {1, 2} : TickedBy(dt)[i] <= 0 => i = turn
           /\ \A i \in {1, 2} :
                 Floored(TickedBy(dt)[i]) = 0 <=> TickedBy(dt)[i] <= 0
<1>1. /\ times \in [{1, 2} -> 0..TimeLimit] /\ turn \in {1, 2} /\ dt \in Nat \ {0}
      /\ \A i \in {1, 2} : times[i] # 0
    BY DEF TypeOK, ClockOfMover
<1>2. /\ TickedBy(dt)[turn] = times[turn] - dt
      /\ \A i \in {1, 2} : i # turn => TickedBy(dt)[i] = times[i]
    BY <1>1 DEF TickedBy
<1>3. \A i \in {1, 2} : times[i] \in 1..TimeLimit
    BY <1>1
<1>4. \A i \in {1, 2} :
        /\ TickedBy(dt)[i] \in Int /\ TickedBy(dt)[i] <= TimeLimit
        /\ TickedBy(dt)[i] <= 0 => i = turn
    BY <1>1, <1>2, <1>3
<1>5. QED
    BY <1>4 DEF Floored

(* The clock of the mover runs, and may end the game.                       *)
LEMMA BeginUpdateKeeps ==
    ASSUME IInv, NEW dt \in Deltas, BeginUpdate(dt)
    PROVE  IInv'
<1>t. TypeOK /\ VerdictInv /\ ViewInv /\ ClockOfMover
    BY DEF IInv
<1> DEFINE out == {i \in {1, 2} : TickedBy(dt)[i] <= 0}
<1>1. /\ UNCHANGED <<list, connected, started, turn, position>>
      /\ started /\ ~IsDone /\ ~gameOver /\ boardState = 0 /\ clockState = 0
    BY <1>t DEF BeginUpdate, CallUpdate, IsDone, VerdictInv, TypeOK
<1>2. /\ times' = [i \in {1, 2} |-> Floored(TickedBy(dt)[i])]
      /\ gameOver' = (out # {})
      /\ clockState' = IF out = {} THEN clockState
                       ELSE BoardValues[IF 2 \in out THEN 2 ELSE 1]
      /\ updating' = TRUE
    BY DEF BeginUpdate
<1>3. out \subseteq {turn}
    BY <1>t, <1>1, ClocksAfterTick
<1>4. times' \in [{1, 2} -> 0..TimeLimit]
    BY <1>t, <1>1, <1>2, ClocksAfterTick
<1>5. clockState' \in {-1, 0, 1} /\ (clockState' # 0 => gameOver')
    BY <1>1, <1>2 DEF BoardValues
<1>6. gameOver' \in BOOLEAN /\ updating' \in BOOLEAN
    BY <1>2
<1>7. UNCHANGED <<board, boardState, moveCount>>
    BY <1>1 DEF position
<1>8. Current' \in Views
    BY <1>t, <1>1, <1>5, <1>6, <1>7 DEF TypeOK, Current, Views, State, IsDone
<1>9. view' \in [Players -> Views \cup {NoView}]
    <2>1. CASE IsDone'
        BY <2>1, <1>t, <1>8, BroadcastTypes DEF BeginUpdate
    <2>2. CASE ~IsDone'
        BY <2>2, <1>t DEF BeginUpdate, TypeOK
    <2>3. QED
        BY <2>1, <2>2
<1>10. TypeOK'
    BY <1>t, <1>1, <1>4, <1>5, <1>6, <1>7, <1>9 DEF TypeOK
<1>11. VerdictInv'
    BY <1>1, <1>5, <1>7 DEF VerdictInv
<1>12. ClockOfMover'
    <2>1. \A i \in {1, 2} : times'[i] = 0 <=> i \in out
        BY <1>t, <1>1, <1>2, ClocksAfterTick
    <2>2. QED
        BY <2>1, <1>1, <1>2, <1>3 DEF ClockOfMover
<1>13. ViewInv'
    <2>1. \/ Broadcast
          \/ UNCHANGED view /\ Current' = Current /\ started
        <3>1. CASE IsDone'
            <4>1. Broadcast
                BY <3>1 DEF BeginUpdate
            <4>2. QED
                BY <4>1
        <3>2. CASE ~IsDone'
            <4>1. ~gameOver' /\ clockState' = clockState
                BY <3>2, <1>2 DEF IsDone
            <4>2. IsDone' = FALSE /\ IsDone = FALSE
                BY <3>2, <1>1
            <4>3. QED
                BY <3>2, <4>1, <4>2, <1>1, <1>7 DEF BeginUpdate, Current, State
        <3>3. QED
            BY <3>1, <3>2
    <2>2. /\ connected' \subseteq Range(list')
          /\ \A p \in connected' : view'[p] = Current'
        BY <1>t, <1>1, <1>10, <2>1, BroadcastShows
    <2>3. QED
        BY <2>2, <1>t, <1>1 DEF ViewInv
<1>14. QED
    BY <1>10, <1>11, <1>12, <1>13 DEF IInv

(* A move is shown to everybody who is connected.                           *)
LEMMA MoveKeeps ==
    ASSUME IInv, NEW p \in Players, NEW x \in Coordinates, NEW y \in Coordinates,
           Move(p, x, y)
    PROVE  IInv'
<1>t. TypeOK /\ VerdictInv /\ ViewInv /\ ClockOfMover
    BY DEF IInv
<1>1. /\ UNCHANGED <<list, connected, started, clocks, updating>>
      /\ ~IsDone /\ ~gameOver /\ boardState = 0 /\ clockState = 0 /\ moveCount # 9
      /\ started /\ Broadcast
    BY <1>t DEF Move, MayMove, IsDone, ViewInv, VerdictInv
<1>2. turn \in {1, 2} /\ turn' \in {1, 2} /\ BoardValues[turn] \in {-1, 1}
    BY <1>t DEF Move, TypeOK, BoardValues
<1>3. /\ board' \in [Cells -> {-1, 0, 1}]
      /\ moveCount' \in 0..9
      /\ boardState' \in {-1, 0, 1}
    <2>1. AddMove(x, y, BoardValues[turn])
        BY DEF Move
    <2>2. board' \in [Cells -> {-1, 0, 1}]
        BY <2>1, <1>t, <1>2 DEF AddMove, TypeOK
    <2>3. moveCount' \in 0..9
        BY <2>1, <1>t, <1>1 DEF AddMove, TypeOK
    <2>4. boardState' \in {-1, 0, 1}
        BY <2>1, <1>t, <1>2 DEF AddMove, TypeOK
    <2>5. QED
        BY <2>2, <2>3, <2>4
<1>4. Current' \in Views
    BY <1>t, <1>1, <1>2, <1>3 DEF TypeOK, clocks, Current, Views, State, IsDone
<1>5. TypeOK'
    BY <1>t, <1>1, <1>2, <1>3, <1>4, BroadcastTypes DEF TypeOK, clocks
<1>6. ViewInv'
    BY <1>t, <1>1, <1>5, BroadcastShows DEF ViewInv
<1>7. VerdictInv' /\ ClockOfMover'
    BY <1>t, <1>1 DEF VerdictInv, ClockOfMover, clocks, TypeOK
<1>8. QED
    BY <1>5, <1>6, <1>7 DEF IInv

(* The end of an update changes nothing of the game.                        *)
LEMMA EndUpdateKeeps ==
    ASSUME IInv, EndUpdate
    PROVE  IInv'
<1>1. /\ UNCHANGED <<list, connected, started, turn, position, clocks, view>>
      /\ updating' = FALSE /\ Current' = Current /\ IsDone' = IsDone
    BY DEF EndUpdate, position, clocks, Current, State, IsDone
<1>2. QED
    BY <1>1 DEF IInv, TypeOK, VerdictInv, ViewInv, ClockOfMover, position, clocks

(* Every step keeps the invariant.                                          *)
THEOREM Inductive == IInv /\ [Next]_vars => IInv'
<1>1. SUFFICES ASSUME IInv, [Next]_vars PROVE IInv'
    OBVIOUS
<1>2. CASE UNCHANGED vars
    BY <1>1, <1>2 DEF vars, IInv, TypeOK, VerdictInv, ViewInv, ClockOfMover,
       position, clocks, Current, State, IsDone
<1>3. ASSUME NEW p \in Players, Connect(p) \/ Disconnect(p) PROVE IInv'
    BY <1>1, <1>3, ConnectKeeps, DisconnectKeeps
<1>4. CASE Start
    BY <1>1, <1>4, StartKeeps
<1>5. ASSUME NEW dt \in Deltas, BeginUpdate(dt) PROVE IInv'
    BY <1>1, <1>5, BeginUpdateKeeps
<1>6. ASSUME NEW p \in Players, NEW x \in Coordinates, NEW y \in Coordinates,
             Move(p, x, y)
      PROVE IInv'
    BY <1>1, <1>6, MoveKeeps
<1>7. CASE EndUpdate
    BY <1>1, <1>7, EndUpdateKeeps
<1>8. QED
    BY <1>1, <1>2, <1>3, <1>4, <1>5, <1>6, <1>7 DEF Next

(* So the invariant always holds.                                           *)
THEOREM Invariance == Spec => []IInv
BY Initial, Inductive, PTL DEF Spec

------------------------------------------------------------------------------
(* Every variable stays in its range: the times are floored at zero, and no *)
(* tenth move is counted (:36-45, :218-227, :314-344).                      *)
THEOREM Types == Spec => []TypeOK
<1>1. IInv => TypeOK
    BY DEF IInv
<1>2. QED
    BY <1>1, Invariance, PTL

(* The state of the game is -1, 0 or 1: the board's and the clock's verdicts *)
(* are never added up (:281), for any time limit and any steps of the clock. *)
THEOREM VerdictOnce == Spec => []OneVerdict
<1>1. IInv => OneVerdict
    BY DEF IInv, TypeOK, VerdictInv, OneVerdict, State
<1>2. QED
    BY <1>1, Invariance, PTL

(* Every connected player of a game that is on has been shown its state,     *)
(* for any number of players (:194-206, :239-245, :325-329).                 *)
THEOREM ViewsCurrent == Spec => []ConnectedSeeState
<1>1. IInv => ConnectedSeeState
    BY DEF IInv, ViewInv, ConnectedSeeState
<1>2. QED
    BY <1>1, Invariance, PTL

(* A clock at zero is that of the player whose turn it is when the game ended *)
(* (:218-227).                                                               *)
THEOREM ClockRunsOut == Spec => []ClockOfMover
<1>1. IInv => ClockOfMover
    BY DEF IInv
<1>2. QED
    BY <1>1, Invariance, PTL

(* No step changes the position, the clocks or the two players of a game that *)
(* is done (:257-278, :308-344).                                             *)
THEOREM DoneStays == Spec => DoneIsFinal
<1> DEFINE Stays == IsDone => /\ UNCHANGED <<position, clocks, turn>>
                              /\ \A i \in {1, 2} : list'[i] = list[i]
<1>1. ASSUME IInv, [Next]_vars PROVE [Stays]_vars
    <2>1. SUFFICES ASSUME IsDone, Next
                   PROVE  UNCHANGED <<position, clocks, turn>>
                          /\ \A i \in {1, 2} : list'[i] = list[i]
        BY <1>1
    <2>2. started /\ Len(list) > 1 /\ list \in Seq(Players)
        BY <1>1, <2>1 DEF IInv, ViewInv, TypeOK
    <2>3. ASSUME NEW p \in Players, Connect(p)
          PROVE  \A i \in {1, 2} : list'[i] = list[i]
        <3>1. CASE p \in Range(list)
            BY <2>3, <3>1 DEF Connect
        <3>2. CASE p \notin Range(list)
            <4>1. list' = Append(list, p)
                BY <2>3, <3>2 DEF Connect
            <4>2. 1 \in 1..Len(list) /\ 2 \in 1..Len(list)
                BY <2>2
            <4>3. QED
                BY <2>2, <4>1, <4>2, AppendKeeps
        <3>3. QED
            BY <3>1, <3>2
    <2>4. ASSUME NEW p \in Players, Connect(p) \/ Disconnect(p)
          PROVE  UNCHANGED <<position, clocks, turn>>
                 /\ \A i \in {1, 2} : list'[i] = list[i]
        BY <2>3, <2>4 DEF Connect, Disconnect
    <2>5. ~Start /\ ~(\E dt \in Deltas : BeginUpdate(dt))
          /\ ~(\E p \in Players, x, y \in Coordinates : Move(p, x, y))
        BY <2>1 DEF Start, BeginUpdate, CallUpdate, Move, MayMove
    <2>6. EndUpdate => UNCHANGED <<position, clocks, turn, list>>
        BY DEF EndUpdate
    <2>7. QED
        BY <2>1, <2>4, <2>5, <2>6 DEF Next
<1>2. Spec => [][Stays]_vars
    BY <1>1, Invariance, PTL DEF Spec
<1>3. QED
    BY <1>2 DEF DoneIsFinal

------------------------------------------------------------------------------
(* The board.                                                               *)

(* The verdict of the board, StateIsLine, needs only the types beside it: a *)
(* move counts while the board has none, so no line is there before it, and *)
(* the one it completes goes through the cell it sets.                      *)

(* The stones of one player.                                                *)
Stones(s) == {cell \in Cells : board[cell] = s}

(* Their numbers follow from whose turn it is.                              *)
StoneInv ==
    /\ turn \in {1, 2}
    /\ Cardinality(Stones(1)) \in Nat /\ Cardinality(Stones(-1)) \in Nat
    /\ Cardinality(Stones(1)) = Cardinality(Stones(-1)) + turn - 1
    /\ moveCount = Cardinality(Stones(1)) + Cardinality(Stones(-1))

(* A line is a column, a row or one of the diagonals.                       *)
LEMMA LineKinds ==
    ASSUME NEW line
    PROVE  line \in Lines <=>
              \/ \E c \in Coordinates : line = {<<c, i>> : i \in Coordinates}
              \/ \E c \in Coordinates : line = {<<i, c>> : i \in Coordinates}
              \/ line = {<<i, i>> : i \in Coordinates}
              \/ line = {<<i, 2 - i>> : i \in Coordinates}
BY DEF Lines

(* The lines that move looks at are the lines through its cell.             *)
LEMMA LinesThroughCell ==
    ASSUME NEW b \in [Cells -> Int], NEW s \in Int,
           NEW x \in Coordinates, NEW y \in Coordinates
    PROVE  CompletesLine(b, x, y, s) <=>
              \E line \in Lines : <<x, y>> \in line /\ \A cell \in line : b[cell] = s
<1>1. ASSUME CompletesLine(b, x, y, s)
      PROVE  \E line \in Lines : <<x, y>> \in line /\ \A cell \in line : b[cell] = s
    <2>1. CASE \A i \in Coordinates : b[<<x, i>>] = s
        <3> DEFINE line == {<<x, i>> : i \in Coordinates}
        <3>1. line \in Lines
            BY LineKinds
        <3>2. <<x, y>> \in line /\ \A cell \in line : b[cell] = s
            BY <2>1
        <3>3. QED
            BY <3>1, <3>2
    <2>2. CASE \A i \in Coordinates : b[<<i, y>>] = s
        <3> DEFINE line == {<<i, y>> : i \in Coordinates}
        <3>1. line \in Lines
            BY LineKinds
        <3>2. <<x, y>> \in line /\ \A cell \in line : b[cell] = s
            BY <2>2
        <3>3. QED
            BY <3>1, <3>2
    <2>3. CASE x = y /\ \A i \in Coordinates : b[<<i, i>>] = s
        <3> DEFINE line == {<<i, i>> : i \in Coordinates}
        <3>1. line \in Lines
            BY LineKinds
        <3>2. <<x, y>> \in line /\ \A cell \in line : b[cell] = s
            BY <2>3
        <3>3. QED
            BY <3>1, <3>2
    <2>4. CASE x + y = 2 /\ \A i \in Coordinates : b[<<i, 2 - i>>] = s
        <3> DEFINE line == {<<i, 2 - i>> : i \in Coordinates}
        <3>1. line \in Lines
            BY LineKinds
        <3>2. y = 2 - x
            BY <2>4 DEF Coordinates
        <3>3. <<x, y>> \in line /\ \A cell \in line : b[cell] = s
            BY <2>4, <3>2
        <3>4. QED
            BY <3>1, <3>3
    <2>5. QED
        BY <1>1, <2>1, <2>2, <2>3, <2>4 DEF CompletesLine
<1>2. ASSUME NEW line \in Lines, <<x, y>> \in line, \A cell \in line : b[cell] = s
      PROVE  CompletesLine(b, x, y, s)
    <2>1. ASSUME NEW c \in Coordinates, line = {<<c, i>> : i \in Coordinates}
          PROVE  CompletesLine(b, x, y, s)
        <3>1. c = x
            BY <1>2, <2>1
        <3>2. QED
            BY <1>2, <2>1, <3>1 DEF CompletesLine
    <2>2. ASSUME NEW c \in Coordinates, line = {<<i, c>> : i \in Coordinates}
          PROVE  CompletesLine(b, x, y, s)
        <3>1. c = y
            BY <1>2, <2>2
        <3>2. QED
            BY <1>2, <2>2, <3>1 DEF CompletesLine
    <2>3. CASE line = {<<i, i>> : i \in Coordinates}
        <3>1. x = y
            BY <1>2, <2>3
        <3>2. QED
            BY <1>2, <2>3, <3>1 DEF CompletesLine
    <2>4. CASE line = {<<i, 2 - i>> : i \in Coordinates}
        <3>1. x + y = 2
            BY <1>2, <2>4 DEF Coordinates
        <3>2. QED
            BY <1>2, <2>4, <3>1 DEF CompletesLine
    <2>5. QED
        BY <1>2, <2>1, <2>2, <2>3, <2>4, LineKinds
<1>3. QED
    BY <1>1, <1>2

(* A line is a set of cells, and not an empty one.                          *)
LEMMA LineCells ==
    ASSUME NEW line \in Lines
    PROVE  line \subseteq Cells /\ line # {}
<1>1. 0 \in Coordinates /\ \A i \in Coordinates : 2 - i \in Coordinates
    BY DEF Coordinates
<1>2. ASSUME NEW c \in Coordinates, line = {<<c, i>> : i \in Coordinates}
      PROVE  line \subseteq Cells /\ line # {}
    <2>1. <<c, 0>> \in line
        BY <1>1, <1>2
    <2>2. ASSUME NEW cell \in line PROVE cell \in Cells
        <3>1. PICK i \in Coordinates : cell = <<c, i>>
            BY <1>2
        <3>2. QED
            BY <1>1, <3>1 DEF Cells
    <2>3. QED
        BY <2>1, <2>2
<1>3. ASSUME NEW c \in Coordinates, line = {<<i, c>> : i \in Coordinates}
      PROVE  line \subseteq Cells /\ line # {}
    <2>1. <<0, c>> \in line
        BY <1>1, <1>3
    <2>2. ASSUME NEW cell \in line PROVE cell \in Cells
        <3>1. PICK i \in Coordinates : cell = <<i, c>>
            BY <1>3
        <3>2. QED
            BY <1>1, <3>1 DEF Cells
    <2>3. QED
        BY <2>1, <2>2
<1>4. CASE line = {<<i, i>> : i \in Coordinates}
    <2>1. <<0, 0>> \in line
        BY <1>1, <1>4
    <2>2. ASSUME NEW cell \in line PROVE cell \in Cells
        <3>1. PICK i \in Coordinates : cell = <<i, i>>
            BY <1>4
        <3>2. QED
            BY <1>1, <3>1 DEF Cells
    <2>3. QED
        BY <2>1, <2>2
<1>5. CASE line = {<<i, 2 - i>> : i \in Coordinates}
    <2>1. <<0, 2 - 0>> \in line
        BY <1>1, <1>5
    <2>2. ASSUME NEW cell \in line PROVE cell \in Cells
        <3>1. PICK i \in Coordinates : cell = <<i, 2 - i>>
            BY <1>5
        <3>2. QED
            BY <1>1, <3>1 DEF Cells
    <2>3. QED
        BY <2>1, <2>2
<1>6. \/ \E c \in Coordinates : line = {<<c, i>> : i \in Coordinates}
      \/ \E c \in Coordinates : line = {<<i, c>> : i \in Coordinates}
      \/ line = {<<i, i>> : i \in Coordinates}
      \/ line = {<<i, 2 - i>> : i \in Coordinates}
    BY LineKinds
<1>7. CASE \E c \in Coordinates : line = {<<c, i>> : i \in Coordinates}
    BY <1>2, <1>7
<1>8. CASE \E c \in Coordinates : line = {<<i, c>> : i \in Coordinates}
    BY <1>3, <1>8
<1>9. QED
    BY <1>4, <1>5, <1>6, <1>7, <1>8

(* A move sets one empty cell to the stone of the player whose turn it is.  *)
LEMMA MoveSetsCell ==
    ASSUME IInv, NEW p \in Players, NEW x \in Coordinates, NEW y \in Coordinates,
           Move(p, x, y)
    PROVE  /\ board \in [Cells -> {-1, 0, 1}]
           /\ board' = [board EXCEPT ![<<x, y>>] = BoardValues[turn]]
           /\ <<x, y>> \in Cells /\ board[<<x, y>>] = 0
           /\ boardState = 0 /\ moveCount' = moveCount + 1 /\ moveCount \in Nat
           /\ boardState' = IF CompletesLine(board', x, y, BoardValues[turn])
                            THEN BoardValues[turn] ELSE 0
           /\ turn' = 3 - turn
           /\ \/ turn = 1 /\ BoardValues[turn] = 1
              \/ turn = 2 /\ BoardValues[turn] = -1
<1>1. TypeOK /\ AddMove(x, y, BoardValues[turn]) /\ LegalMove(x, y) /\ ~IsDone
    BY DEF IInv, Move, MayMove
<1>2. boardState = 0 /\ turn \in {1, 2}
    BY <1>1 DEF IsDone, TypeOK
<1>3. QED
    BY <1>1, <1>2 DEF Move, AddMove, LegalMove, TypeOK, BoardValues

(* The line that a move completes is the first, and goes through its cell.  *)
LEMMA MoveKeepsLines ==
    ASSUME IInv, StateIsLine, NEW p \in Players, NEW x \in Coordinates, NEW y \in Coordinates,
           Move(p, x, y)
    PROVE  StateIsLine'
<1> DEFINE s == BoardValues[turn]
           c == <<x, y>>
<1>1. /\ board \in [Cells -> {-1, 0, 1}] /\ c \in Cells /\ board[c] = 0
      /\ board' = [board EXCEPT ![c] = s] /\ boardState = 0
      /\ boardState' = IF CompletesLine(board', x, y, s) THEN s ELSE 0
      /\ s \in {1, -1}
    BY MoveSetsCell
<1>2. \A line \in Lines : \A q \in {1, -1} : ~(\A cell \in line : board[cell] = q)
    BY <1>1 DEF StateIsLine, HasLine
\* The other player has no more lines than before.
<1>3. ~(\E line \in Lines : \A cell \in line : board'[cell] = -s)
    <2>1. SUFFICES ASSUME NEW line \in Lines, \A cell \in line : board'[cell] = -s
                   PROVE  FALSE
        OBVIOUS
    <2>2. c \notin line
        BY <1>1, <2>1
    <2>3. \A cell \in line : board[cell] = -s
        BY <1>1, <2>1, <2>2, LineCells
    <2>4. QED
        BY <1>1, <1>2, <2>3
\* The one who moves has a line now only if it goes through the cell.
<1>4. (\E line \in Lines : \A cell \in line : board'[cell] = s)
        <=> CompletesLine(board', x, y, s)
    <2>1. board' \in [Cells -> Int] /\ s \in Int
        BY <1>1
    <2>2. ASSUME NEW line \in Lines, \A cell \in line : board'[cell] = s
          PROVE  c \in line
        <3>1. SUFFICES ASSUME c \notin line PROVE FALSE
            OBVIOUS
        <3>2. \A cell \in line : board[cell] = s
            BY <1>1, <2>2, <3>1, LineCells
        <3>3. QED
            BY <1>1, <1>2, <3>2
    <2>3. QED
        BY <2>1, <2>2, LinesThroughCell
<1>6. /\ boardState' = s <=> \E line \in Lines : \A cell \in line : board'[cell] = s
      /\ boardState' # -s
    BY <1>1, <1>4
<1>7. \A q \in {1, -1} : boardState' = q <=> \E line \in Lines : \A cell \in line : board'[cell] = q
    BY <1>1, <1>3, <1>6
<1>8. QED
    BY <1>1, <1>3, <1>7 DEF StateIsLine, HasLine

(* There are finitely many cells, so the stones can be counted.             *)
LEMMA StonesFinite ==
    ASSUME NEW S \in SUBSET Cells
    PROVE  IsFiniteSet(S) /\ Cardinality(S) \in Nat
<1>1. IsFiniteSet(Coordinates)
    <2>1. 0 \in Int /\ 2 \in Int
        OBVIOUS
    <2>2. QED
        BY <2>1, FS_Interval DEF Coordinates
<1>2. IsFiniteSet(Cells)
    BY <1>1, FS_Product DEF Cells
<1>3. IsFiniteSet(S)
    BY <1>2, FS_Subset
<1>4. QED
    BY <1>3, FS_CardinalityType

(* A move adds one stone of the player whose turn it is.                    *)
LEMMA MoveKeepsStones ==
    ASSUME IInv, StoneInv, NEW p \in Players, NEW x \in Coordinates, NEW y \in Coordinates,
           Move(p, x, y)
    PROVE  StoneInv'
<1> DEFINE s == BoardValues[turn]
           c == <<x, y>>
           After(q) == {cell \in Cells : board'[cell] = q}
<1>1. /\ board \in [Cells -> {-1, 0, 1}] /\ c \in Cells /\ board[c] = 0
      /\ board' = [board EXCEPT ![c] = s]
      /\ moveCount' = moveCount + 1 /\ turn' = 3 - turn
      /\ (turn = 1 /\ s = 1) \/ (turn = 2 /\ s = -1)
    BY MoveSetsCell
<1>2. After(s) = Stones(s) \cup {c} /\ c \notin Stones(s)
    BY <1>1 DEF Stones
<1>3. After(0 - s) = Stones(0 - s)
    BY <1>1 DEF Stones
<1>4. Cardinality(After(s)) = Cardinality(Stones(s)) + 1
    <2>1. IsFiniteSet(Stones(s))
        BY StonesFinite DEF Stones
    <2>2. QED
        BY <1>2, <2>1, FS_AddElement
<1>5. /\ Cardinality(Stones(1))' = Cardinality(After(1))
      /\ Cardinality(Stones(-1))' = Cardinality(After(-1))
    BY DEF Stones
<1>6. /\ turn \in {1, 2}
      /\ Cardinality(Stones(1)) \in Nat /\ Cardinality(Stones(-1)) \in Nat
      /\ Cardinality(Stones(1)) = Cardinality(Stones(-1)) + turn - 1
      /\ moveCount = Cardinality(Stones(1)) + Cardinality(Stones(-1))
    BY DEF StoneInv
<1>7. CASE turn = 1 /\ s = 1
    <2>1. Cardinality(After(1)) = Cardinality(Stones(1)) + 1
        BY <1>4, <1>7
    <2>2. 0 - s = -1
        BY <1>7
    <2>3. Cardinality(After(-1)) = Cardinality(Stones(-1))
        BY <1>3, <2>2
    <2>4. QED
        BY <1>1, <1>5, <1>6, <1>7, <2>1, <2>3 DEF StoneInv
<1>8. CASE turn = 2 /\ s = -1
    <2>1. Cardinality(After(-1)) = Cardinality(Stones(-1)) + 1
        BY <1>4, <1>8
    <2>2. 0 - s = 1
        BY <1>8
    <2>3. Cardinality(After(1)) = Cardinality(Stones(1))
        BY <1>3, <2>2
    <2>4. QED
        BY <1>1, <1>5, <1>6, <1>8, <2>1, <2>3 DEF StoneInv
<1>9. QED
    BY <1>1, <1>7, <1>8

(* A new game has an empty board.                                           *)
LEMMA EmptyBoard == Init => StateIsLine /\ StoneInv
<1>1. SUFFICES ASSUME Init PROVE StateIsLine /\ StoneInv
    OBVIOUS
<1>2. board = [cell \in Cells |-> 0] /\ boardState = 0 /\ moveCount = 0 /\ turn = 1
    BY <1>1 DEF Init
<1>3. StateIsLine
    <2>1. \A s \in {1, -1} : ~HasLine(s)
        BY <1>2, LineCells DEF HasLine
    <2>2. QED
        BY <1>2, <2>1 DEF StateIsLine
<1>4. StoneInv
    <2>1. Stones(1) = {} /\ Stones(-1) = {}
        BY <1>2 DEF Stones
    <2>2. Cardinality(Stones(1)) = 0 /\ Cardinality(Stones(-1)) = 0
        BY <2>1, FS_EmptySet
    <2>3. QED
        BY <1>2, <2>2 DEF StoneInv
<1>5. QED
    BY <1>3, <1>4

(* Only a move touches the board.                                           *)
LEMMA BoardStep ==
    ASSUME IInv, StateIsLine, StoneInv, [Next]_vars
    PROVE  StateIsLine' /\ StoneInv'
<1>1. CASE UNCHANGED <<position, turn>>
    <2>1. board' = board /\ boardState' = boardState /\ moveCount' = moveCount /\ turn' = turn
        BY <1>1 DEF position
    <2>2. StateIsLine'
        BY <2>1 DEF StateIsLine, HasLine
    <2>3. StoneInv'
        BY <2>1 DEF StoneInv, Stones
    <2>4. QED
        BY <2>2, <2>3
<1>2. ASSUME NEW p \in Players, NEW x \in Coordinates, NEW y \in Coordinates, Move(p, x, y)
      PROVE  StateIsLine' /\ StoneInv'
    BY <1>2, MoveKeepsLines, MoveKeepsStones
<1>3. \/ UNCHANGED <<position, turn>>
      \/ \E p \in Players, x, y \in Coordinates : Move(p, x, y)
    BY DEF Next, vars, Connect, Disconnect, Start, BeginUpdate, EndUpdate
<1>4. QED
    BY <1>1, <1>2, <1>3

(* Verdict and stones are right in every state.                             *)
THEOREM BoardInvariance == Spec => [](StateIsLine /\ StoneInv)
BY EmptyBoard, BoardStep, Invariance, PTL DEF Spec

(* The board names as the winner who has one of the eight lines, found from *)
(* the cell of the last move alone, and never do both players have one      *)
(* (:68-119).                                                               *)
THEOREM BoardFindsLines == Spec => []StateIsLine
BY BoardInvariance, PTL

(* However many messages come, from whom and in which updates, each player  *)
(* has put a stone in each of its turns and no other (:308-344).            *)
THEOREM TurnsAlternate == Spec => []StonesAlternate
<1>1. StoneInv => StonesAlternate
    <2>1. SUFFICES ASSUME StoneInv PROVE StonesAlternate
        OBVIOUS
    <2>2. /\ turn \in {1, 2}
          /\ Cardinality(Stones(1)) \in Nat /\ Cardinality(Stones(-1)) \in Nat
          /\ Cardinality(Stones(1)) = Cardinality(Stones(-1)) + turn - 1
          /\ moveCount = Cardinality(Stones(1)) + Cardinality(Stones(-1))
        BY <2>1 DEF StoneInv
    <2>3. QED
        BY <2>2 DEF StonesAlternate, Stones
<1>2. QED
    BY <1>1, BoardInvariance, PTL
==============================================================================
