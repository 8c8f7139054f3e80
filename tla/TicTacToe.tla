------------------------------ MODULE TicTacToe ------------------------------
(***************************************************************************)
(* tic_tac_toe_game and tic_tac_toe_board of tic_tac_toe_game.hpp (line    *)
(* numbers are of that file): one game, as game_server drives it.          *)
(*                                                                         *)
(* game_server calls connect, disconnect and update from one thread.  An   *)
(* update is taken apart here: it begins with the clocks, then goes        *)
(* through the messages that came since the last one, then ends; nothing   *)
(* is called in between.  game_server asks is_done after each update, and  *)
(* does not update a game again that is done (GameServer's                 *)
(* DoneGamesNotUpdated), though players may still come and go.             *)
(*                                                                         *)
(* The messages to the players are abstracted to what each connected       *)
(* player was last shown; those that only tell the clocks are left out,    *)
(* and so is m_move_list, which is only ever added to.  disconnect is      *)
(* called for players that have connected: m_data_map has the players of   *)
(* m_player_list.                                                          *)
(***************************************************************************)
EXTENDS Integers, Sequences, Functions, FiniteSets

CONSTANTS
    Players,
    TimeLimit,  \* what a player has for all moves of a game
    Deltas,     \* the time between two updates, a time-step or more
    NoView      \* nothing was shown yet

ASSUME TimeAssumption == TimeLimit \in Nat \ {0} /\ Deltas \subseteq Nat \ {0}

BoardValues == <<1, -1>>

EmptyVal == 0

Coordinates == 0..2

Cells == Coordinates \X Coordinates

Views == [board : [Cells -> {-1, 0, 1}], turn : {1, 2}, state : Int, done : BOOLEAN]

VARIABLES
    list,        \* m_player_list: first the one who plays X
    connected,   \* the players with is_connected
    started,     \* m_started
    gameOver,    \* m_game_over
    turn,        \* m_turn, counted from 1
    clockState,  \* m_state of the game
    times,       \* m_times
    board,       \* m_board of the board
    boardState,  \* m_state of the board
    moveCount,   \* m_move_count
    view,        \* what each player was last shown on its connection
    updating     \* in the middle of update

position == <<board, boardState, moveCount>>
clocks   == <<times, gameOver, clockState>>
vars     == <<list, connected, started, turn, position, clocks, view, updating>>

TypeOK ==
    /\ list \in Seq(Players)
    /\ connected \in SUBSET Players
    /\ started \in BOOLEAN /\ gameOver \in BOOLEAN /\ updating \in BOOLEAN
    /\ turn \in {1, 2}
    /\ clockState \in {-1, 0, 1}
    /\ times \in [{1, 2} -> 0..TimeLimit]
    /\ board \in [Cells -> {-1, 0, 1}]
    /\ boardState \in {-1, 0, 1}
    /\ moveCount \in 0..9
    /\ view \in [Players -> Views \cup {NoView}]

\* A game made from the data of a match.
Init ==
    /\ list = <<>>
    /\ connected = {}
    /\ started = FALSE
    /\ gameOver = FALSE
    /\ turn = 1
    /\ clockState = 0
    /\ times = [i \in {1, 2} |-> TimeLimit]
    /\ board = [cell \in Cells |-> EmptyVal]
    /\ boardState = 0
    /\ moveCount = 0
    /\ view = [p \in Players |-> NoView]
    /\ updating = FALSE

------------------------------------------------------------------------------
(* The board.                                                              *)

\* move looks for a line of s in the column, the row and the diagonals of the
\* cell it has set.
CompletesLine(b, x, y, s) ==
    \/ \A i \in Coordinates : b[<<x, i>>] = s
    \/ \A i \in Coordinates : b[<<i, y>>] = s
    \/ x = y /\ \A i \in Coordinates : b[<<i, i>>] = s
    \/ x + y = 2 /\ \A i \in Coordinates : b[<<i, 2 - i>>] = s

\* Mutant of LegalMove: a move may overwrite another.
OnBoard(x, y) == <<x, y>> \in Cells

LegalMove(x, y) == <<x, y>> \in Cells /\ board[<<x, y>>] = EmptyVal

\* Mutant of AddMove: the move that fills the second diagonal does not win.
AddMoveOneDiagonal(x, y, s) ==
    LET b == [board EXCEPT ![<<x, y>>] = s]
    IN  /\ board' = b
        /\ moveCount' = moveCount + 1
        /\ boardState' = IF \/ \A i \in Coordinates : b[<<x, i>>] = s
                            \/ \A i \in Coordinates : b[<<i, y>>] = s
                            \/ x = y /\ \A i \in Coordinates : b[<<i, i>>] = s
                         THEN s ELSE boardState

AddMove(x, y, s) ==
    /\ board' = [board EXCEPT ![<<x, y>>] = s]
    /\ moveCount' = moveCount + 1
    /\ boardState' = IF CompletesLine(board', x, y, s) THEN s ELSE boardState

------------------------------------------------------------------------------
(* What the players are shown.                                             *)

State == boardState + clockState

\* Mutant of IsDone: only the board is looked at.
BoardIsDone == moveCount = 9 \/ boardState # 0

IsDone == moveCount = 9 \/ boardState # 0 \/ gameOver

Current == [board |-> board, turn |-> turn, state |-> State, done |-> IsDone]

Show(to) == view' = [p \in Players |-> IF p \in to THEN Current' ELSE view[p]]

\* To each player of the list that is connected.
Broadcast == Show(connected \cap Range(list))

------------------------------------------------------------------------------
(* connect and disconnect.                                                 *)

\* Mutant of Connect: who comes back is shown nothing.
ConnectSilently(p) ==
    /\ ~updating
    /\ list' = IF p \in Range(list) THEN list ELSE Append(list, p)
    /\ connected' = connected \cup {p}
    /\ UNCHANGED <<started, turn, position, clocks, view, updating>>

\* Once more for a player who is connected: its old connection is closed then.
Connect(p) ==
    /\ ~updating
    /\ list' = IF p \in Range(list) THEN list ELSE Append(list, p)
    /\ connected' = connected \cup {p}
    /\ UNCHANGED <<started, turn, position, clocks, updating>>
    /\ IF started THEN Show({p})
       ELSE view' = [view EXCEPT ![p] = NoView]

Disconnect(p) ==
    /\ ~updating
    /\ p \in connected
    /\ connected' = connected \ {p}
    /\ view' = [view EXCEPT ![p] = NoView]
    /\ UNCHANGED <<list, started, turn, position, clocks, updating>>

------------------------------------------------------------------------------
(* update.                                                                 *)

\* game_server calls update in each time-step until the game is done.
CallUpdate == ~updating /\ ~IsDone

\* The first two players may change places.
Swapped == [list EXCEPT ![1] = list[2], ![2] = list[1]]

\* Two players have come: the game starts.
Start ==
    /\ CallUpdate
    /\ ~started
    /\ Len(list) > 1
    /\ started' = TRUE
    /\ list' \in {list, Swapped}
    /\ UNCHANGED <<connected, turn, position, clocks, updating>>
    /\ Broadcast

TickedBy(dt) == [times EXCEPT ![turn] = @ - dt]

Floored(time) == IF time <= 0 THEN 0 ELSE time

\* The clock of the player whose turn it is runs.  A player without time is
\* the one that m_state names.
BeginUpdate(dt) ==
    /\ CallUpdate
    /\ started
    /\ LET out == {i \in {1, 2} : TickedBy(dt)[i] <= 0}
       IN  /\ times' = [i \in {1, 2} |-> Floored(TickedBy(dt)[i])]
           /\ gameOver' = (out # {})
           /\ clockState' = IF out = {} THEN clockState
                            ELSE BoardValues[IF 2 \in out THEN 2 ELSE 1]
    /\ updating' = TRUE
    /\ UNCHANGED <<list, connected, started, turn, position>>
    /\ IF IsDone' THEN Broadcast ELSE UNCHANGED view

\* Mutant of MayMove: a message that comes after the end still counts.
MoveAnyTime(p) == p = list[turn]

MayMove(p) == ~IsDone /\ p = list[turn]

\* player_update, for a message with a move that counts; any other message is
\* dropped.  Messages are taken to be objects with a "move": :315 looks it up
\* without asking, and what it does with an object that has none is undefined.
Move(p, x, y) ==
    /\ updating
    /\ MayMove(p)
    /\ LegalMove(x, y)
    /\ AddMove(x, y, BoardValues[turn])
    /\ turn' = 3 - turn
    /\ UNCHANGED <<list, connected, started, clocks, updating>>
    /\ Broadcast

EndUpdate ==
    /\ updating
    /\ updating' = FALSE
    /\ UNCHANGED <<list, connected, started, turn, position, clocks, view>>

------------------------------------------------------------------------------
Next ==
    \/ \E p \in Players : Connect(p) \/ Disconnect(p)
    \/ Start
    \/ \E dt \in Deltas : BeginUpdate(dt)
    \/ \E p \in Players, x, y \in Coordinates : Move(p, x, y)
    \/ EndUpdate

Spec == Init /\ [][Next]_vars

\* game_server updates the game in each time-step until it is done; nobody has
\* to come or to move.
UpdateStep == Start \/ (\E dt \in Deltas : BeginUpdate(dt)) \/ EndUpdate

FairSpec == Spec /\ WF_vars(UpdateStep)

------------------------------------------------------------------------------
(* Properties.                                                             *)

\* The eight lines of the board.
Lines ==
    {{<<x, i>> : i \in Coordinates} : x \in Coordinates}
        \cup {{<<i, y>> : i \in Coordinates} : y \in Coordinates}
        \cup {{<<i, i>> : i \in Coordinates}, {<<i, 2 - i>> : i \in Coordinates}}

HasLine(s) == \E line \in Lines : \A cell \in line : board[cell] = s

\* The incremental test of the last move finds what a look at all eight lines
\* finds, and at most one player has one (:68-119).
StateIsLine ==
    /\ \A s \in {1, -1} : boardState = s <=> HasLine(s)
    /\ ~(HasLine(1) /\ HasLine(-1))

\* The players alternate and no move is lost or made twice, whoever sends what
\* when: the first player has as many stones as the second or one more (:308-344).
StonesAlternate ==
    LET Stones(s) == {cell \in Cells : board[cell] = s}
    IN  /\ Cardinality(Stones(1)) - Cardinality(Stones(-1)) = turn - 1
        /\ moveCount = Cardinality(Stones(1)) + Cardinality(Stones(-1))

\* The scores 0.5 + 0.5 * state and 0.5 - 0.5 * state are those of a win, a
\* loss or a draw: the clock and the board never both decide the game (:281).
OneVerdict == State \in {-1, 0, 1}

\* Between two updates, whoever is connected to a game that has started sees it
\* as it is, over the end of the game and a reconnection (:194-206, :239-245, :325-329).
ConnectedSeeState ==
    started /\ ~updating => \A p \in connected : view[p] = Current

\* A game that is done stays as it is, its two players included, whoever still
\* comes, goes or speaks.
DoneIsFinal ==
    [][ IsDone => /\ UNCHANGED <<position, clocks, turn>>
                  /\ \A i \in {1, 2} : list'[i] = list[i] ]_vars

\* Only the player whose turn it is can lose time, and who runs out of it was
\* to move: a clock at zero is that of the player whose turn it still is (:218-227).
ClockOfMover ==
    \A i \in {1, 2} : times[i] = 0 <=> gameOver /\ i = turn

\* A game between two players comes to an end, if they move or not.
GamesEnd == started ~> IsDone
==============================================================================
