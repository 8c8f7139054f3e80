# A TLA+ model of simple_web_game_server

simple_web_game_server is a header-only C++ library for multiplayer game
servers: clients connect over WebSockets, log in with a JSON web token that
names a *player* and a *session*, and play under the control of a loop that
advances all games by a time-step. This directory models the library's servers
and client, and its tic tac toe example, in TLA+, checks them with TLC and proves
the properties that matter most with TLAPS. Paths are relative to the repository;
a `:n` in a comment of a module is a line of the file that its heading names, and
in `BufferedMap`, `SessionArchive` and `SessionService` of
`include/simple_web_game_server/base_server.hpp`.

## The system

| component | state | operations | depends on |
|---|---|---|---|
| `buffered_map`, `update_session_locks` (`base_server.hpp`) | two maps, the start of the period | `insert`, `contains`, `at`, `clear` | the clock |
| `base_server` (`base_server.hpp`) | queue of actions, connection maps, session rosters, archive of results, player count, `m_is_running` | handlers `on_open`, `on_message`, `on_close`, `on_http`; `process_messages`; `send_message`, `complete_session`, `get_player_count`; `run`, `reset`, `stop` | websocketpp, jwt-cpp |
| `game_server` (`game_server.hpp`) | games by session, lists of connection and game updates, messages out, finished games, game count | `update_games`, the callbacks `process_message`, `player_connect`, `player_disconnect`; `stop` | `base_server`, a game class |
| `matchmaking_server` (`matchmaking_server.hpp`) | waiting sessions, lists of connection updates, messages out, finished sessions | `match_players`, the same callbacks, `stop` | `base_server`, a matchmaker class |
| `client` (`client.hpp`) | connection, `m_is_running`, `m_has_failed` | `connect`, `disconnect`, `reset`, `send`, handlers | websocketpp |
| tic tac toe (`examples/tic_tac_toe/tic_tac_toe_game.hpp`) | board, turn, clocks, who is connected; ratings of those waiting | `connect`, `disconnect`, `update`; `match` | `game_server`, `matchmaking_server` |
| tic tac toe HTTP service (`.../matchmaking_server/matchmaking_server.cpp`) | users, tokens, ratings | `signup`, `login`, `submit`, `cancel` | `on_http` of `base_server` |
| web client (`.../client/src`), minimal template | user interface; a game without rules | | |
| websocketpp, asio, jwt-cpp, json, spdlog | third party | | |

**Threads.** asio threads (`run`) call the handlers, which only append to the
queue `m_actions`. Worker threads (`process_messages`, one or more) take actions
off it, keep the records of connections and sessions and call the server on top
(`m_handle_open`, `m_handle_close`, `m_handle_message`). The loop thread
(`update_games`, `match_players`) advances the games or matches players and
calls back into `base_server` with `send_message` and `complete_session`, which
append to the queue too. A control thread calls `stop`, joins the others, and
may `reset` and `run` again.

**Shared state and locks.** `m_action_lock` (queue, with a condition variable),
`m_connection_lock` (the three connection records), `m_session_lock` (rosters
and archive) and, one level up, locks for the games and for each update list.
`complete_session` wants `m_action_lock` while it holds `m_session_lock`; `stop`
takes them the other way round. `m_connection_lock` is always taken last.

**What is hard.** A connection's life is spread over several queued actions, and
everything may happen in between: the client leaves, another connection logs in
with the same token, the session is completed, the server stops. Ids and
connections are looked up under one lock and used after it is released. The
queue outlives connections, and after a `stop` the server. A completed session
must be remembered long enough to turn late clients away with its result, but
not for ever. Counts are unsigned and kept apart from what they count.

**What makes each part correct.**
* Archive: a completed session is found for at least the release time, admits
  nobody in that time, and has one result.
* `base_server`: at most one connection per id and one id per connection; the
  rosters and the count agree with the connections; the server on top sees
  opens and closes of a player alternate; no open connection is unknown to
  `stop`; a message goes to its addressee only; completing a session reaches all
  of its players; departures are processed; `stop` returns and leaves nothing.
* `game_server`: a game is created once per session and never again after it
  ended, every player of it is told, the game count is the number of games, no
  update is lost or applied to a later game.
* `matchmaking_server`: a session is matched into one game at most; who asks for
  the end gets an answer; a session that is over leaves both maps, and the two
  always have the same sessions; no login is lost between the lists.
* `client`: it says that it runs only while a thread serves its connection; the
  token goes out once per connection; a disconnect ends in a client that has
  stopped; a connect is answered.
* Tic tac toe: only legal moves of the player whose turn it is; a game that is
  over stays over with one result; clocks and board never both decide; connected
  players see the game as it is; the matcher makes games of two near sessions
  and leaves no two near ones out.
* HTTP service: an account ends each session once, before it begins the next; a
  player waits in one session.

The line-by-line list of what can go wrong is under `hazards` in `PROJECT.json`.

## Modules

| module | models |
|---|---|
| `BufferedMap` | the template `buffered_map` as pure operators: `Insert`, `Contains`, `At`, `Clear` on a record of two partial functions |
| `SessionArchive` | `m_locked_sessions` and `m_last_session_update_time` against a discrete clock; one action per clock read and per half of `complete_session` and `open_session`, and `stop` |
| `SessionArchive_proofs`, `BufferedMap_proofs` | proofs |
| `BaseServer` | the server: handlers, queue, workers, `send_message`, `complete_session`, `stop`, `run` |
| `MCBaseServer` | its small instances |
| `BaseServer_proofs` | proofs, among them that `BaseServer` implements `SessionService` |
| `SessionService` | abstract specification: what `base_server` promises to the server on top of it, over the players announced and the results archived |
| `GameServer` | `game_server`, on top of a `SessionService` |
| `MCGameServer` | its small instances |
| `GameServer_proofs` | proofs |
| `MatchmakingServer` | `matchmaking_server`, on top of a `SessionService` |
| `MCMatchmakingServer` | its small instance |
| `MatchmakingServer_proofs` | proofs |
| `TicTacToe` | one game of the example, as `game_server` drives it |
| `TicTacToe_proofs` | proofs |
| `Pairing` | the example's `match` as a pure function of the ratings and of the order in which the map has the sessions |
| `RatingService` | the example's accounts and the HTTP requests that change them |
| `TicTacToeExample` | accounts, matcher, games and the tokens that players carry from one server to the other |
| `TicTacToeExample_proofs` | proofs, of the matcher and of the accounts |
| `Client` | `client`, its connection and the main thread of its application |
| `Client_proofs` | proofs |

`BufferedMap` is used by `SessionArchive`, against a clock, and by `BaseServer`.
`BaseServer` instantiates `SessionService` with a refinement mapping, and
`GameServer` instantiates it again as the service it runs on: its callbacks
contain the abstract steps `Open` and `Close`, its loop the step `Complete`. So
the game server is checked against everything that the base server may do, not
against its hundreds of thousands of detailed states. `MatchmakingServer` runs on
the same service. `TicTacToe` takes from `GameServer` that it is called by one
thread and not updated again when it is done, which `DoneGamesNotUpdated` shows.
`TicTacToeExample` extends `RatingService` and `Pairing` and uses of the two
WebSocket servers what their modules show: a session is matched or cancelled
once, and its result is archived and forgotten after a while. `Client` stands
alone: what its server does to it is what the network may do.

### BaseServer and the code

Each handler and each case of the `switch` in `process_messages` is an action,
or one action per critical section when its locks are released in between:

| code | actions |
|---|---|
| `on_open`, `on_message`, `on_close` | `OnOpen`, `OnMessage`, `OnClose` |
| loop of `process_messages`, its wait | `CheckRunning`, `TakeAction`, `ReturnFromWait`, `SpuriousWakeup` |
| SUBSCRIBE | `Subscribe` |
| UNSUBSCRIBE, `player_disconnect` | `Unsubscribe`, then `Leave`, `Unlist`, `Report` |
| IN_MESSAGE, `open_session`, `setup_connection_id` | `InMessage`, then `Admit` or `TurnAway` |
| OUT_MESSAGE, CLOSE_CONNECTION | `OutMessage`, `CloseConnection` |
| `send_message` | `SendMessage`, `PushMessage` |
| `complete_session` | `CompleteSession`, then `EachPlayer` and `PushClose` per player, `Archive` |
| `stop` | `StopCall`, `StopLock`, `StopClear`, `StopNotify` |
| `reset` and `run` | `Restart` |

The variables are the members of the class (the comment at each declaration
names it), a program counter with the local variables for each thread, the state
of each connection inside websocketpp, and two history variables: `present`, the
players the server on top has been told of, and `told`, the results sent out.

Modelling decisions:
* A critical section of `m_connection_lock` is one step: no other lock is taken
  inside. `m_session_lock` of `complete_session` and `m_action_lock` of `stop`
  are held across steps, and are what the program counters say they are
  (`SessionLockFree`, `ActionLockFree`), so that the deadlock of the two is a
  behaviour of the model.
* `open_session` is one step under `m_session_lock`: what it does after its
  first write touches only what its own lock, or `m_connection_lock` around it,
  protects. A push and its `notify_one` are one step: a notification that comes
  later wakes a worker that then finds what it would have found anyway.
* A token is a member of `Tokens` (an id for which a client holds a signed,
  unexpired token) or `Garbage`. `jwt::verify` keeps no state.
* websocketpp delivers messages of open connections only, `send` and `close` on
  others throw (and are caught by `send_to_hdl` and `close_hdl`), `on_close` is
  called once for each connection and after its other handlers. A handler that
  was already running when the server closed its connection delivers one last
  message: state `"late"`.
* The archive's clock is abstracted: any call may find that zero, one or two
  periods have passed (`Elapse`). When that may happen is the subject of
  `SessionArchive`.
* `m_player_count` is an integer modulo `CountMod`.
* Sent texts are abstracted to their addressee and, for the end of a session, to
  its result.

**SessionService.** The refinement mapping takes `present` as it is (a history
variable of `BaseServer`: who was announced with `m_handle_open` and not taken
back with `m_handle_close`) and reads the result of a session off the two maps of
the archive, as `at` does. A step of the abstract specification admits a player
only while the session has no result, gives a result only to a session that has
none, and forgets sessions only as a whole. What `BaseServer` does to connections,
rosters and queues are stutters.

### GameServer and the code

| code | actions |
|---|---|
| `player_connect`, `player_disconnect`, `process_message` | `PlayerConnect`, `PlayerDisconnect`, `ProcessMessage` |
| `update_games` until a time-step is due | `CheckRunning`, `LockGames`, `LookForUpdates`, `ReturnFromWait`, `SpuriousWakeup` |
| `process_connection_updates` | `SwapUpdates`, `ProcessUpdate` per update, `UpdatesProcessed` |
| erasing the finished games | `EraseFinished` per game, `FinishedErased` |
| `process_game_updates` | `UpdateGames` |
| completing the sessions whose games ended | `CompleteEnded` per game, `EndTick` |
| `complete_session` for a session with connections | `BeginCompletion`, then `CompleteSession` in `CompleteEnded` or `ProcessUpdate` |
| `stop`, first of the `base_server` | `StopServer`, `StopLock`, `StopService`, `StopNotify`, `StopGames`, `StopMessages`, `StopUpdates`, `StopCount` |
| `run` and `update_games` again | `Restart` |

Modelling decisions:
* The loop holds `m_game_list_lock` through a time-step. Only `stop` wants it too
  (`Ticking`), the workers go on adding to the lists in the middle of one.
* Of the `base_server`'s locks the two that can block the loop are kept:
  `complete_session` has `m_session_lock` from `BeginCompletion` on (`completing`)
  and needs `m_action_lock` for each connection it closes; `stop` has `m_action_lock`
  from `StopLock` on (`stop.pc = "clear"`) and needs `m_session_lock`. So the
  deadlock of the two is a behaviour of this model as well (`Deadlocked`). A session
  without connections is completed without `m_action_lock`. Which sessions have
  connections is not known here, and `BeginCompletion` may take any; logins and the
  archive's forgetting need `m_session_lock`.
* `wait` returns with the lock of the connection updates (`loop = "relook"`), under
  which the loop looks at `is_running` and then at the list again. `stop` sets the
  flag and notifies without that lock, and can do so between the two looks.
* Time is counted in naps of the loop, a millisecond or what is left of the
  time-step. A nap may make the time-step due earlier than its number says, never
  later. `delta_time` is read before the wait and is not read again after it
  (`due`), as in the code.
* What a game and its players say to each other is left out, with the outgoing
  messages; that a message is handed over at all is kept (`messages`). A game may
  end in any time-step.
* A session's tokens carry data that is good for a game, or they do not
  (`ValidSessions`): one verdict per session. Tokens of one session with
  different verdicts are not modelled.
* The base server keeps a result for its release time. `Forget` waits until the
  session's game is erased, one time-step after its end, and until its
  connections are closed: the release time is taken to be longer than both. It
  is an hour by default, and the time-steps of the examples are 16 and 100 ms.
* After `stop` each worker can still deliver the one call it has in hand
  (`lateCalls`).

### MatchmakingServer and the code

| code | actions |
|---|---|
| `player_connect`, `player_disconnect`, `process_message` | `PlayerConnect`, `PlayerDisconnect`, `ProcessMessage` |
| `match_players` until a time-step is due | `CheckRunning`, `LockMatch`, `LookForUpdates`, `ReturnFromWait`, `SpuriousWakeup` |
| `process_connection_updates` | `SwapUpdates`, `ProcessUpdate` per update, `UpdatesProcessed` |
| erasing the finished sessions, swapping the lists | `EraseFinished` |
| `m_matchmaker.match` | `Match` |
| completing the matched sessions | `CompleteMatched` per session, `EndTick` |
| `complete_session` for a session with connections | `BeginCompletion`, then `CompleteSession` in `CompleteMatched` or `ProcessUpdate` |
| `stop`, first of the `base_server` | `StopServer`, `StopLock`, `StopService`, `StopMatching`, `StopUpdates`, `StopNotify` |
| `run` and `match_players` again | `Restart` |

Modelling decisions:
* The matchmaker is the user's class: `Match` may make any set of disjoint games
  of two or more waiting sessions, or none. `can_match` is that of both matchmakers
  in the repository.
* The result of a session is the set of sessions it was matched with, so that
  "matched twice" is visible; the empty set stands for `get_cancel_data`.
* A message from a client is a request to end the matchmaking, whatever it says.
* The release time is taken to be longer than it takes to be done with a session
  here (`Settled`): finished sessions are erased by name, one time-step later.
* The two locks of the `base_server` and the end of a wait are as in `GameServer`.

### TicTacToe, Pairing and the code

`connect`, `disconnect` and `update` are called by one thread. `update` is taken
apart into `BeginUpdate` (the clocks, and the last message of a game that they
end), one `Move` per message with a move that counts, and `EndUpdate`; `Start` is
the update that finds two players. What the players are sent is abstracted to what
each was last shown (`view`); messages that only tell the clocks are left out. The
clock in `Start` that "randomizes" who plays X is a free choice.

`Pairs` is the loop of `match` as a function: the turn of each session in the order
of the map, with the pairs made so far. The order of an `unordered_map` is any. When
the loop runs, after more than five seconds (`:437-439`), is left to the module that
uses it: `TicTacToeExample` lets it run at any time. A message without `"move"` hits
an undefined lookup (`:315`) and is not modelled.

### RatingService, TicTacToeExample and the code

Each request that changes an account is an action: `SignUp`, `Login`, `Submit`,
`Cancel`. A token is the record that a server signed; players may present any token
they were ever given, to the right endpoint, any number of times and in any order.
How far a rating moves is a free choice in the right direction. Left out: `/info`
and the files, which change nothing, and that tokens expire, in half an hour.

| code | actions |
|---|---|
| a login token shown to the matchmaking server | `Queue` |
| a player that leaves or asks for the end; `match` | `Leave`; `Match` |
| a game from its two logins to its result | `Play` |
| `open_session` and `complete_session` of the game server, as a player sees them | `Collect` |
| `update_session_locks` of the game server | `Forget` |
| the four requests, with what players hold | `RequestAccount`, `RequestLogin`, `PresentResult`, `PresentMatch` |

A game goes by the session of its first player (`tic_tac_toe_game.hpp:460-464`), and
so do the tokens of both: `complete_session` signs `result_sid` for each player
(`base_server.hpp:541-544`). `Token` is that record, `GamesCalled` and `PlayersOf`
say for whom it is. The game server knows a game only by this name: it keeps one
result for it (`results`), hands that to whoever shows a token for the game
(`Collect`), and plays the game again once it has forgotten it. `SessionsOf` is what a
token is about, seen from its player: its own session in that game.

A token of a cancelled session makes no game, since its data names none; the game
server answers with a result without players, which `/submit` refuses, and which is
left out.

### Client and the code

| code | actions |
|---|---|
| `connect` | `Connect` or `InvalidUri`, then `ConnectThrows` or `SetRunning` and `Run`, and `RunReturns` |
| the handlers | `OnOpen`, `OnClose` |
| asio and websocketpp inside `run()` | `Opened`, `Refused`, `PeerCloses`, `Ended` |
| `disconnect`, `send`, `reset` | `Disconnect`, `Send`, `BeginReset` and `Reset`, in two steps each: the look at `m_is_running`, and what it leads to |

The io_service is its flag: `run()` sets it when it returns for want of work and
returns at once while it is set; `reset` clears it. The flags are set by two lines of
`connect` (`:128`, `:129`), and other threads may look or act in between. The main
thread calls `connect` only when the last call of it has returned, as
`test/src/client_test.cpp` does.

### Not modelled

`on_http` of `base_server` (hands the request to a user's function), the setters
called before `run`, TLS, logging; the messages that a game or a matchmaker sends,
and sessions whose tokens carry different data; the web client and the minimal
template, which hold no logic of their own beyond calls that the models allow; the
third-party libraries, of which the modules keep what they show to the code that
uses them.

## Runs

`MCBaseServer` has connections `h1`, `h2`, players `p1`, `p2` and session `s1`.
Connections are used once, so two of them suffice for a duplicate login, a
displaced client and a re-login; `symmetry` is over connections, workers and
results, which no constant distinguishes. `MaxQueue` bounds when a client sends
and when the loop calls; the server's own pushes are never held back, so the
queue grows beyond it. `CountMod = 8` is far from the two players there are: a
count that wraps shows.

| run | instance | shows |
|---|---|---|
| `archive` | two sessions, two results, release time 2, up to 1 between the clock reads, time 0..12 | completed sessions are retained and not reopened early |
| `session` | two players of one session, one worker, two results, `MaxQueue` 1 | rosters, handles and completion agree for players who log in, leave, replace each other and are completed |
| `shutdown` | one player, two connections, one worker, one `stop` at any moment, restart; any call may find that the archive's time has passed | the types and the agreement of the records (`RecordsInv`, the inductive invariant of the proofs), that stop forgets no connection but one in a worker's hand, and that `BaseServer` implements `SessionService` |
| `liveness` | one worker, fairness | completed sessions empty; clients that went are forgotten |
| `games` | a player of a valid session, one of an invalid one, two waiting updates, one waiting message, time-step of one nap, one worker, one `stop` at any moment, restart; fairness | what stands before `stop` is called (see the comments), that every game has its list of messages at all times, that finished games go and logins are processed, and that `stop` is noticed but for a lost wakeup or the deadlock of two locks |
| `matches` | two sessions of one player each, one of which may be refused, two waiting updates, one `stop` at any moment, restart; fairness | no login is lost, no session is matched twice or left over, the maps agree, ends are taken from the list and answered, and `stop` is noticed, with the exceptions of `games` |
| `tictactoe` | two players, time limit 2, time-steps of 1 and 2; fairness | every game: the test of the last move agrees with a look at all lines, players alternate, one verdict, players see the game, games end |
| `example` | three accounts, three sessions, two tokens of an outcome, one session that waits more than once; games are won by their first player; one rating for the accounts, for the matcher 0..3, limit 1 | sessions end once, fair players end their own and stay in it; the matcher makes proper pairs and leaves no two near sessions out |
| `client` | up to three calls of `connect`, three messages per connection; fairness | flags, threads and tokens agree; `disconnect` and `connect` lead somewhere |
| `games_stop` | one player, one `stop` | a game can be left over by `stop` (finding) |
| `stop_deadlock` | one connection, fairness | a call of `stop` may wait for ever (finding) |
| `workers_count` | two workers | the count can stay wrong for ever (finding) |

`MCGameServer` lets a player log in, leave and log in again twice within one
time-step, before and after the game ends; a second valid session would run beside
the first without meeting it, except in the list of finished games, whose order no
property depends on (and the theorems are for every set of sessions). The other
token's session is invalid and is completed without a game. Two waiting updates are
one more than an overtaking login needs; `MaxUpdates` holds back those who connect
and leave, never the loop. The same holds of `MCMatchmakingServer`, where two
sessions are what a match needs.

In `tictactoe` a time limit of two lets either player run out of time, by one long
time-step or by two short ones, in the update in which its opponent or it wins, or
never: a game can be played to nine moves within one time-step. In `example` the three
sessions are a game and a second session of one of the players, whose first is still
around in tokens, or those of three players, of whom two play under a name that was
used for a game of two others before: `MaxAgain` lets one forgotten session wait a
second time, and the game server may or may not have forgotten the earlier result.
Two tokens are what one session can be ended with twice, or two players of a game with
one each. Accounts keep their first rating (`Elos`): nothing but the matcher reads it,
and that is tried with every rating of 0..3, which with a limit of 1 has near, just
near and far pairs.
Three connects of a client are a first one, one without a reset and one after it.

The time bound of `archive` covers three release times from any starting point
that the maps can tell apart. `shutdown`, `games`, `matches` and the findings switch
the deadlock check off, because a stopped server may rightly stop (and the two locks
may block it, which `StopReturns` and `StopIsHeard` are about); so do `archive`, whose
clock ends at its bound, `tictactoe`, where a game may be over, and `example`, where the
bounds on sessions and tokens can be used up.

**Fairness** (`FairSpec`). Workers, the loop in the middle of a call, and `stop`
are threads of a fair scheduler: weak fairness. A closing handshake ends, by an
answer or by websocketpp's timeout, and a handler that has started runs to its
end: weak fairness. No client has to connect, send or leave, nobody has to call,
and `condition_variable::wait` need not wake up spuriously. In `GameServer` the
threads are the loop (`LoopStep`) and the caller of `stop` (`Stopping`), each
weakly fair; either may wait for a lock of the other for ever, and no game has to
end. The same in `MatchmakingServer`, where nobody has to be matched. In
`TicTacToe` only the calls of `update` are fair, as `update_games` makes one in each
time-step. In `Client` the two threads are, a handshake is
answered or refused in the end and a closing one ends, because websocketpp has
timeouts for both; a server need not close, an application need not disconnect.

## Findings

* `stop` (`:347`) and `complete_session` (`:521`, `:536`) take `m_action_lock` and
  `m_session_lock` in opposite orders; stopping a server whose games are ending
  can hang.
* With several workers, which the comment on `process_messages` allows, a
  login and the departure of its connection can be processed in the wrong order;
  the player is then counted for ever.
* `update_games` looks at `m_is_running` only at the top of its loop. A login that
  waits when `stop` clears the games, or that a worker adds afterwards, still makes
  a game, which is there when the server runs again.

* The comment on `buffered_map` (`:182-184`) says that it keeps session data "in memory
  for at least one time-step and at most two time-steps". With the release time R as
  the time-step the first half is `RetainedForReleaseTime`; the second is not what the
  code does. The maps are swapped only by the next call of `complete_session` or
  `open_session`, so that without calls an entry stays for ever; and with calls a
  session that is completed at time 0 of a period is moved to the older map by a call
  at 2R (which does not exceed 2R, so that `clear` is called once) and still answered
  from there at 3R. The theorem `Release` shows that no call finds it later than that.
  No run is about it: `ReleasedInThreePeriods` is a theorem only, and becomes false with
  two in place of three and no delay between the clock reads.

What the models show and no comment or test of the repository contradicts:

* A text that a displaced connection sent before it was closed is read as a login,
  because that connection has no id any more. If it is a token, the closed
  connection takes the id over and the newer, open one is closed (`InMessage`, then
  `Admit`).
* A thread that has looked at `m_is_running` and not yet begun to wait misses the
  notification of `stop`: a worker of `base_server`, `update_games` and
  `match_players` may then wait for ever. Each loop has two such places: before its
  first wait, and after a wakeup that leaves the list empty, when it looks at
  `is_running` and waits again (`game_server.hpp:206`, `:209-210`;
  `matchmaking_server.hpp:195`, `:197-198`). The loops can also hang in
  `complete_session`, in the deadlock above. `StopIsHeard` of `GameServer` and
  `MatchmakingServer` is about the stops that find the loop in neither place: it
  returns, or is in that deadlock.
* A session that is cancelled and logs in again in one batch of updates is told of
  the cancellation and may be matched nevertheless (`CancelSession`, `AddSession`,
  `Match`); its archived answer stands.
* The tic tac toe player whose clock runs out is the one whom `state`, and with it
  the scores, name as the winner (`BeginUpdate`; `tic_tac_toe_game.hpp:224`, `:291`).
* `submit` and `cancel` never look at the session of the token. A player who shows
  old tokens can end a later session with them; `FairPlayersEndTheirOwn` shows that
  others are not affected, but for the next item.
* A game goes by its first player's session. If that player shows its login token again
  after the matchmaking server has forgotten the session, the new game has the name of
  the old one. While the game server keeps the old result, the new opponent, who has
  done nothing unusual, is given the result of a game between two others, which
  `/submit` counts only if it is one of those two. `Fair` leaves such opponents out.
* A client whose handshake is refused, or that connects again without a reset,
  says that it runs though no thread serves it; `RunningIsServed` and
  `ConnectAnswered` speak of the other cases.

## Proofs

All proofs are for arbitrary sets of connections, players, sessions, tokens and
results and arbitrary bounds.

* `SessionArchive_proofs`. `Invariance`: `IInv` is inductive. None of the
  properties is: they need to know that an entry of the newer map completed in
  the current period and one of the older map in the period before, and that
  this earlier period lasted at most two release times, because otherwise both
  maps were cleared (`ArchivedInPeriod`). `Retention`, `NoEarlyReopening`,
  `ResultStands` and the bound on what calls find, `Release`, follow. Assumed: the
  release time and the delay are natural numbers, and the answer "admitted" is not a
  result.
* `BaseServer_proofs`. `Types`: type correctness for any number of workers and
  calls of `stop`. Assumed throughout: tokens are ids, null values are none of the
  sets they stand beside, numbers are naturals. What else holds depends on how many
  workers there are, on `stop`, and on the clock of the archive:
  * For any number of workers, through stops and restarts. `ConnectionsKnown`:
    `stop` can find every open connection; `ConnectionsInv` adds that a connection
    whose departure is queued or under way is closed, so that erasing it forgets
    nothing that is open. `ServiceImplemented`: every step maps to a step of
    `SessionService` or to a stutter. The one fact needed beyond the types is
    `CompletingUnarchived`: between the moment `complete_session` finds that a
    session has no result and the moment it archives one, nobody else does, because
    it holds `m_session_lock` all the while.
  * For any number of workers, until `stop`, within the release time (`Elapse = {0}`):
    `ResultsAgree`, that all players of a session are told one result. `ResultsInv`
    says of each result that was told or is on its way that it is the archived one
    or that of the completion under way; `ToldInv`, that a connection is closed with
    what it is told. After the release time a session may rightly be played again,
    with another result, and `stop` forgets the archive; `SessionArchive` is about both.
  * With one worker, through stops and restarts. `RecordsAgree`: `m_connection_ids`
    and `m_id_connections` are inverse and the rosters list exactly the connected
    players and those about to be unlisted. `RecordsInv` adds `HandsMatchRecords`:
    what a worker looked up before it released the lock still holds when it uses it,
    or `stop` has cleared the records meanwhile. With two workers it is false.
    `CompletionReaches`, for any `Elapse`: `ReachInv` says in the middle of a
    completion that who is connected is still to be visited or has been sent
    off; nobody can be admitted in between, as the lock is held, and what sends a
    player off stays queued until the connection is closed. `MessagesReach`:
    `MessagesInv` says that a message that waits is for the player that its
    connection has, as long as this is open. A connection keeps its id while it is
    open, because what takes it out of the records, a departure, a newer login or
    `stop`, finds it closed or closes it; `OpenedInv` rules out those not yet opened.
  * With one worker, until `stop`. `PresentConnected` and `PlayersCounted`: the server
    on top has been told of exactly the players that have a connection, and
    `get_player_count` is their number; `PlayersInv` adds which records a departure
    has erased at each of its steps (`LeaversInv`). For the count, the connections
    are finitely many, and fewer than a `std::size_t` can count.
* `GameServer_proofs`. `Types`. `OutListsFound`: the games and the lists of messages
  have the same keys, whatever `stop` does. `GamesOrdered`: `GamesInv` is inductive.
  What it adds to `CompletedGamesListed` is the argument of the comment at `:225`:
  a login that waits when its session is completed finds the game still there,
  because the games that ended are erased only after the updates that came before
  were processed, and no later login passes the archive (`LoginsFindGame`); a game
  is listed once (`FinishedOnce`, `EndedUncompleted`). `CompletedListed` and
  `GamesCounted` follow, the latter for finitely many sessions, fewer than a
  `std::size_t` can count. `DoneNotUpdated`: a game that is done is listed as
  finished before the next time-step, and is erased before the next update.
  `PresentPlay`: `WillPlayInv` is about one player at a time (`Foretold`). The last
  update of it that waits, in the two lists taken as one, says whether it is there;
  if none waits, the game says so. The order of the updates is all that this needs.
  Assumed of the constants: tokens are ids, the numbers are naturals, "no result" is
  not a result.
* `MatchmakingServer_proofs`. `Types`. `RostersFound`: the two maps have the same
  keys, whatever `stop` does. `MatchesOrdered`: `MatchInv` is inductive. It says
  where a session that is over can still be: in the map only if a list of finished
  sessions names it, and in that case a login that waits when it ends is processed
  before the list is worked off. `EndedAreListed` and `MatchedOnce` follow: when the
  matchmaker is called, the sessions it matched before have been erased. The
  assumption about the release time (`Settled`) is used here. `PresentWait`: one
  departure ends a session for all of its players, so that `WaitInv` cannot go
  by players. It says that of a session that is neither over nor refused the
  lists hold no end without a login before it (`LoginFirst`), so that an end that is
  due finds the session there and completes it, and that a session which is erased
  was over (`FinishedEnded`).
* `TicTacToe_proofs`. `IInv` is inductive: it adds to the types that the verdict of
  the clocks is given while the board has none and ends the game (`VerdictInv`), and
  what the players have been shown in the middle of an update (`ViewInv`). `VerdictOnce`,
  `ViewsCurrent`, `ClockRunsOut` and `DoneStays` follow, for any number of players,
  any time limit and any time-steps. `BoardFindsLines` needs only the types: a move
  counts while the board has no verdict, so that no line is there before it,
  and one that it completes goes through its cell (`LinesThroughCell`).
  `TurnsAlternate` counts the stones of each player as finite sets (`StoneInv`).
* `TicTacToeExample_proofs`. `MatcherIsMaximal`: for any finite set of sessions, any
  integers as ratings and any order of the map, and so not for the states of this
  model only. `Pairs` is a recursive function of the turn, and what holds after all
  turns is shown with the least turn after which it does not (`LeastNumber`,
  `EveryTurn`). `WaitingMatched` is its instance for the sessions that wait.
  Of the accounts, `IInv` is inductive: each session was begun for one account
  (`AccountInv`), has been ended if and only if its account is not in it any more,
  by a token that was given out (`ClosingInv`), and waits with an outcome only if it
  waits again (`OutcomeInv`). A result, kept or in a token, is of two players who were
  matched for a game of its name (`ResultInv`), and for a fair player there is one such
  game. `SessionsEnd` follows. `FairEnds` is part of the invariant (`EndsOwn`): a token
  that is about another session than the one that its account is in is about one
  that was ended before, by the one token there is for it, so that a fair player does
  not show it again; and since nobody in its games waits again, the game that its token
  names stays the only one of that name, and the result in it is that game's. For
  `FairStay`, a session that waits or plays after it was ended would have an outcome,
  and so would wait again.
* `Client_proofs`. `IInv` is inductive: it adds which states of the connection, of
  the io_service and of the two threads go together (`ThreadInv`), and that the token
  has been sent unless `on_open` is still to run (`TokenInv`). `Served` and `TokenOnce`
  follow. `Flags` says where the two flags contradict each other: after a `connect` that
  failed, between the line that sets the one and the line that clears the other, and
  nowhere else.

Every invariant and every safety property of an action that a run checks is thus a
theorem, under the conditions that are named above and in each theorem's comment.

Only proved: type correctness of the modules other than `BaseServer`, and the theorems
`Release`, `ResultStands`, `Flags`, `GamesOrdered`, `MatchesOrdered`, `ClockRunsOut`,
`DoneStays` and `MatcherIsMaximal`, which are about every instance and leave the small
ones nothing to add.

Only model-checked: the liveness properties, because liveness under fairness, and
with it ENABLED, is beyond the proof system's backends. They are
`CompletedSessionsEmpty` and `DeparturesProcessed` of `BaseServer`, `FinishedGamesGo`,
`LoginsProcessed` and `StopIsHeard` of `GameServer`, `EndsAnswered` and `StopIsHeard` of
`MatchmakingServer`, `GamesEnd` of `TicTacToe`, and `DisconnectEnds` and
`ConnectAnswered` of `Client`. No module of a proof has a recursive operator.

## Left to do

* `GameServer`: outgoing messages, and sessions whose tokens disagree about the data.
* `MatchmakingServer`: the messages that a matchmaker broadcasts.
* Time in the HTTP service: tokens that expire while an account is matchmaking, and
  when the matcher runs.
