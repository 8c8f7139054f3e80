----------------------------- MODULE GameServer -----------------------------
(***************************************************************************)
(* game_server of game_server.hpp (line numbers are of that file): the     *)
(* games, the lists through which the workers of the base_server below     *)
(* hand connections and messages to the loop of update_games, and stop.    *)
(*                                                                         *)
(* The base_server is the SessionService that BaseServer implements: its   *)
(* workers call player_connect and player_disconnect in the steps Open and *)
(* Close, the loop calls complete_session in the step Complete.            *)
(*                                                                         *)
(* Locks.  The loop holds m_game_list_lock through a whole time-step (see  *)
(* Ticking), which only stop can notice.  The locks of the two lists are   *)
(* held for one step, except that the loop keeps that of the connection    *)
(* updates from the end of a wait to its next look at them ("relook"; no   *)
(* lock keeps stop from notifying in between), and then while it takes     *)
(* m_game_list_lock, but m_games is empty then, and stop, the only other   *)
(* thread to touch it, cannot fill it.  Two locks of the base_server are   *)
(* part of the state: stop has m_action_lock when it is at "clear", and    *)
(* complete_session has m_session_lock while it closes the connections of  *)
(* a session (completing).  Each needs the other's lock to go on.          *)
(*                                                                         *)
(* A game is a class that the user supplies: an update may end it, and     *)
(* what it has to say to its players is left out.                          *)
(***************************************************************************)
EXTENDS Naturals, Sequences, FiniteSets, Functions

CONSTANTS
    Players, Sessions, Results, NoResult,
    Tokens,         \* ids for which some client holds a valid JWT
    ValidSessions,  \* sessions whose tokens carry data that makes a valid game
    Workers,        \* how many threads run process_messages
    Timestep,       \* the argument of update_games, in naps of the loop
    CountMod,       \* 2^w for the width w of std::size_t
    MaxUpdates,     \* bound: nobody connects or leaves when more are waiting
    MaxMessages,    \* bound: nobody speaks when more messages are waiting
    MaxStops        \* bound: how often stop is called

ASSUME SessionsAssumption ==
    /\ ValidSessions \subseteq Sessions
    /\ Tokens \subseteq [player : Players, session : Sessions]
    /\ NoResult \notin Results
ASSUME NumbersAssumption ==
    /\ CountMod \in Nat \ {0} /\ Timestep \in Nat /\ Workers \in Nat
    /\ MaxUpdates \in Nat /\ MaxMessages \in Nat /\ MaxStops \in Nat

VARIABLES
    present, archive,  \* the SessionService
    running,           \* m_is_running of the base_server
    lateCalls,         \* calls of the workers since it was set to false
    completing,        \* the session, if any, whose complete_session has
                       \* m_session_lock and closes its connections
    updates,           \* m_connection_updates.first
    batch,             \* m_connection_updates.second, what is left of it
    messages,          \* m_in_messages.first: who has a message in it
    games,             \* m_games: for each session who is connected, and is_done
    outLists,          \* the sessions with an entry in m_out_messages
    gameCount,         \* m_game_count
    finished,          \* finished_games of update_games
    loop,              \* where update_games is
    due,               \* delta_time has reached the time-step
    naps,              \* sleeps since time_start
    ended,             \* sessions whose end is still to be reported in this step
    stop               \* where stop is, and how often it was called

Service == INSTANCE SessionService

Ids == Service!Ids

lists   == <<updates, batch, messages>>
gameSet == <<games, outLists, gameCount>>
timing  == <<due, naps>>
looping == <<loop, timing, finished, ended>>
vars    == <<present, archive, running, lateCalls, completing, lists, gameSet,
             looping, stop>>

Updates == [id : Ids, disconnection : BOOLEAN]

Games == UNION {[D -> [connected : SUBSET Players, done : BOOLEAN]] : D \in SUBSET Sessions}

Ticking == loop \in {"swap", "apply", "erase", "update", "report"}

TypeOK ==
    /\ Service!TypeOK
    /\ running \in BOOLEAN
    /\ lateCalls \in 0..Workers
    /\ completing \in SUBSET Sessions
    /\ updates \in Seq(Updates) /\ batch \in Seq(Updates)
    /\ messages \in SUBSET Ids
    /\ games \in Games
    /\ outLists \in SUBSET Sessions
    /\ gameCount \in 0..CountMod - 1
    /\ finished \in Seq(Sessions)
    /\ loop \in {"check", "lock", "look", "wait", "woken", "relook", "swap",
                 "apply", "erase", "update", "report", "returned"}
    /\ due \in BOOLEAN
    /\ naps \in 0..Timestep
    /\ ended \in SUBSET Sessions
    /\ stop \in [pc : {"idle", "lock", "clear", "notify", "games", "messages",
                       "updates", "count"},
                 calls : 0..MaxStops]

NoGames == [s \in {} |-> [connected |-> {}, done |-> FALSE]]

Init ==
    /\ Service!Init
    /\ running = TRUE
    /\ lateCalls = 0
    /\ completing = {}
    /\ updates = <<>> /\ batch = <<>>
    /\ messages = {}
    /\ games = NoGames
    /\ outLists = {}
    /\ gameCount = 0
    /\ finished = <<>>
    /\ loop = "check"
    /\ due = FALSE
    /\ naps = 0
    /\ ended = {}
    /\ stop = [pc |-> "idle", calls |-> 0]

------------------------------------------------------------------------------
(* What the base_server calls.  Once it has been stopped each worker       *)
(* finishes the action it has in hand and returns.                         *)

\* m_connection_update_list_lock, and m_session_lock of the base_server.
UpdatesLockFree == loop # "relook"
SessionLockFree == completing = {}

Call ==
    /\ running \/ lateCalls < Workers
    /\ lateCalls' = IF running THEN lateCalls ELSE lateCalls + 1

\* Mutant of NotifyLoop: a new connection is not announced.
NotifyNobody == UNCHANGED loop

NotifyLoop == loop' = IF loop = "wait" THEN "woken" ELSE loop

\* Each login is announced, that of a duplicate connection too.
PlayerConnect(id) ==
    /\ Call
    /\ SessionLockFree /\ UpdatesLockFree
    /\ Len(updates) < MaxUpdates
    /\ UNCHANGED archive /\ Service!Open(id)
    /\ updates' = Append(updates, [id |-> id, disconnection |-> FALSE])
    /\ NotifyLoop
    /\ UNCHANGED <<running, completing, batch, messages, gameSet, timing, finished,
                   ended, stop>>

\* The loop is not notified.
PlayerDisconnect(id) ==
    /\ Call
    /\ UpdatesLockFree
    /\ Len(updates) < MaxUpdates
    /\ id \in present /\ Service!Close(id)
    /\ updates' = Append(updates, [id |-> id, disconnection |-> TRUE])
    /\ UNCHANGED <<running, completing, batch, messages, gameSet, looping, stop>>

ProcessMessage(id) ==
    /\ Call
    /\ Cardinality(messages) < MaxMessages
    /\ id \in present
    /\ messages' = messages \cup {id}
    /\ UNCHANGED <<present, archive, running, completing, updates, batch, gameSet,
                   looping, stop>>

\* The base_server keeps a result for its release time.  That is taken to be
\* longer than a time-step, and than it takes to close the session's connections.
Forget ==
    /\ SessionLockFree
    /\ Service!Forget
    /\ \A s \in Sessions :
          archive'[s] # archive[s] =>
              s \notin DOMAIN games /\ \A id \in present : id.session # s
    /\ UNCHANGED <<running, lateCalls, completing, lists, gameSet, looping, stop>>

------------------------------------------------------------------------------
(* update_games up to the decision that a time-step is due.                *)

\* The loop condition, and delta_time.
CheckRunning ==
    /\ loop = "check"
    /\ \/ /\ running
          /\ loop' = "lock"
          /\ due' \in BOOLEAN /\ (naps = Timestep => due')
          /\ UNCHANGED finished
       \/ /\ ~running
          /\ loop' = "returned"
          /\ finished' = <<>>
          /\ UNCHANGED due
    /\ UNCHANGED <<present, archive, running, lateCalls, completing, lists,
                   gameSet, naps, ended, stop>>

\* delta_time was taken before the loop waited, and is not taken again.
SleepOrTick(since) ==
    IF due THEN loop' = "swap" /\ naps' = 0
    ELSE loop' = "check" /\ naps' = IF since < Timestep THEN since + 1 ELSE since

\* With m_game_list_lock: on to the time-step, unless there is no game.
LockGames ==
    /\ loop = "lock"
    /\ IF DOMAIN games = {} THEN loop' = "look" /\ UNCHANGED naps
                            ELSE SleepOrTick(naps)
    /\ UNCHANGED <<present, archive, running, lateCalls, completing, lists,
                   gameSet, due,
                   finished, ended, stop>>

\* No game: with the lock of the connection updates, wait for one.
LookForUpdates ==
    /\ loop \in {"look", "relook"}
    /\ IF updates = <<>> THEN loop' = "wait" /\ UNCHANGED naps
                         ELSE SleepOrTick(naps)
    /\ UNCHANGED <<present, archive, running, lateCalls, completing, lists,
                   gameSet, due,
                   finished, ended, stop>>

SpuriousWakeup ==
    /\ loop = "wait"
    /\ loop' = "woken"
    /\ UNCHANGED <<present, archive, running, lateCalls, completing, lists,
                   gameSet, timing,
                   finished, ended, stop>>

\* Mutant of ReturnFromWait: is_running is not looked at.
WaitOn ==
    /\ loop = "woken"
    /\ loop' = "relook"
    /\ naps' = 0
    /\ UNCHANGED <<present, archive, running, lateCalls, completing, lists,
                   gameSet, due,
                   finished, ended, stop>>

\* wait returned, with the lock of the connection updates.
ReturnFromWait ==
    /\ loop = "woken"
    /\ \/ /\ ~running
          /\ loop' = "returned"
          /\ finished' = <<>>
          /\ UNCHANGED naps
       \/ /\ running
          /\ loop' = "relook"
          /\ naps' = 0
          /\ UNCHANGED finished
    /\ UNCHANGED <<present, archive, running, lateCalls, completing, lists,
                   gameSet, due,
                   ended, stop>>

------------------------------------------------------------------------------
(* A time-step, with m_game_list_lock.                                     *)

SwapUpdates ==
    /\ loop = "swap"
    /\ loop' = "apply"
    /\ updates' = batch
    /\ batch' = updates
    /\ UNCHANGED <<present, archive, running, lateCalls, completing, messages,
                   gameSet, timing,
                   finished, ended, stop>>

Refused(update) ==
    /\ ~update.disconnection
    /\ update.id.session \notin DOMAIN games \cup ValidSessions

\* complete_session takes m_session_lock, for a session with connections.
BeginCompletion(s) ==
    /\ \/ loop = "report" /\ s \in ended
       \/ /\ loop = "apply"
          /\ batch # <<>>
          /\ Refused(Head(batch)) /\ s = Head(batch).id.session
    /\ SessionLockFree
    /\ archive[s] = NoResult
    /\ completing' = {s}
    /\ UNCHANGED <<present, archive, running, lateCalls, lists, gameSet, looping,
                   stop>>

\* It leaves a session alone that is archived already, and is done in one step
\* if the session has no connection.  For each that it closes it needs
\* m_action_lock.
CompleteSession(s) ==
    /\ completing \subseteq {s} /\ completing' = {}
    /\ \/ /\ archive[s] # NoResult
          /\ UNCHANGED <<present, archive>>
       \/ /\ completing = {s} => stop.pc # "clear"
          /\ \E r \in Results : Service!Complete(s, r)

Connected(id) ==
    [games EXCEPT ![id.session].connected = @ \cup {id.player}]

\* Mutant of Disconnected: a player who left stays in the game.
StillConnected(id) == games

Disconnected(id) ==
    [games EXCEPT ![id.session].connected = @ \ {id.player}]

Created(id) ==
    [s \in DOMAIN games \cup {id.session} |->
        IF s \in DOMAIN games THEN games[s] ELSE [connected |-> {id.player}, done |-> FALSE]]

\* Mutant of AddGame: the game gets no list of messages.
AddGameOnly(id) ==
    /\ games' = Created(id)
    /\ gameCount' = (gameCount + 1) % CountMod
    /\ UNCHANGED outLists

AddGame(id) ==
    /\ games' = Created(id)
    /\ outLists' = outLists \cup {id.session}
    /\ gameCount' = (gameCount + 1) % CountMod

\* The next connection update, in the order in which they came.
ProcessUpdate ==
    /\ loop = "apply"
    /\ batch # <<>>
    /\ batch' = Tail(batch)
    /\ LET update == Head(batch)
           s == update.id.session
       IN  \/ /\ s \in DOMAIN games
              /\ games' = IF update.disconnection THEN Disconnected(update.id)
                                                  ELSE Connected(update.id)
              /\ UNCHANGED <<present, archive, completing, outLists, gameCount>>
           \/ /\ s \notin DOMAIN games /\ update.disconnection
              /\ UNCHANGED <<present, archive, completing, gameSet>>
           \/ /\ s \notin DOMAIN games /\ ~update.disconnection
              /\ s \in ValidSessions
              /\ AddGame(update.id)
              /\ UNCHANGED <<present, archive, completing>>
           \/ /\ Refused(update)
              /\ CompleteSession(s)
              /\ UNCHANGED gameSet
    /\ UNCHANGED <<running, lateCalls, updates, messages, looping, stop>>

UpdatesProcessed ==
    /\ loop = "apply"
    /\ batch = <<>>
    /\ loop' = "erase"
    /\ UNCHANGED <<present, archive, running, lateCalls, completing, lists,
                   gameSet, timing,
                   finished, ended, stop>>

\* Mutant of EraseGame: the count stays.
EraseUncounted(s) ==
    /\ games' = Restrict(games, DOMAIN games \ {s})
    /\ outLists' = outLists \ {s}
    /\ UNCHANGED gameCount

EraseGame(s) ==
    /\ games' = Restrict(games, DOMAIN games \ {s})
    /\ outLists' = outLists \ {s}
    /\ gameCount' = (gameCount + CountMod - 1) % CountMod

\* The next game that was over in the last time-step.
EraseFinished ==
    /\ loop = "erase"
    /\ finished # <<>>
    /\ EraseGame(Head(finished))
    /\ finished' = Tail(finished)
    /\ UNCHANGED <<present, archive, running, lateCalls, completing, lists, loop,
                   timing, ended, stop>>

FinishedErased ==
    /\ loop = "erase"
    /\ finished = <<>>
    /\ loop' = "update"
    /\ UNCHANGED <<present, archive, running, lateCalls, completing, lists,
                   gameSet, timing,
                   finished, ended, stop>>

\* Each game is given the messages of its players and the time, and may end.
\* Those that have are gone through next.
UpdateGames ==
    /\ loop = "update"
    /\ loop' = "report"
    /\ messages' = {}
    /\ \E over \in SUBSET DOMAIN games :
          games' = [s \in DOMAIN games |-> [games[s] EXCEPT !.done = @ \/ s \in over]]
    /\ ended' = {s \in DOMAIN games : games'[s].done}
    /\ UNCHANGED <<present, archive, running, lateCalls, completing, updates,
                   batch, outLists,
                   gameCount, timing, finished, stop>>

\* Mutant of Noted: a finished game is not noted for erasure.
NotNoted(s) == finished

Noted(s) == Append(finished, s)

CompleteEnded(s) ==
    /\ loop = "report"
    /\ s \in ended
    /\ CompleteSession(s)
    /\ ended' = ended \ {s}
    /\ finished' = Noted(s)
    /\ UNCHANGED <<running, lateCalls, lists, gameSet, loop, timing, stop>>

EndTick ==
    /\ loop = "report"
    /\ ended = {}
    /\ loop' = "check"
    /\ UNCHANGED <<present, archive, running, lateCalls, completing, lists,
                   gameSet, timing,
                   finished, ended, stop>>

------------------------------------------------------------------------------
(* stop, which first stops the base_server, and a new start.               *)

StopStep(from, to) == stop.pc = from /\ stop' = [stop EXCEPT !.pc = to]

StopServer ==
    /\ stop.pc = "idle"
    /\ running
    /\ stop.calls < MaxStops
    /\ running' = FALSE
    /\ stop' = [pc |-> "lock", calls |-> stop.calls + 1]
    /\ UNCHANGED <<present, archive, lateCalls, completing, lists, gameSet, looping>>

\* The stop of the base_server takes m_action_lock and keeps it
StopLock ==
    /\ StopStep("lock", "clear")
    /\ UNCHANGED <<present, archive, running, lateCalls, completing, lists,
                   gameSet, looping>>

\* until it has m_session_lock, too, and has cleared what these protect.
StopService ==
    /\ StopStep("clear", "notify")
    /\ SessionLockFree
    /\ archive' = Service!Kept(Sessions)
    /\ UNCHANGED <<present, running, lateCalls, completing, lists, gameSet, looping>>

StopNotify ==
    /\ StopStep("notify", "games")
    /\ NotifyLoop
    /\ UNCHANGED <<present, archive, running, lateCalls, completing, lists,
                   gameSet, timing,
                   finished, ended>>

\* Under m_game_list_lock; the second lists are empty outside a time-step.
StopGames ==
    /\ StopStep("games", "messages")
    /\ ~Ticking
    /\ games' = NoGames
    /\ outLists' = {}
    /\ batch' = <<>>
    /\ UNCHANGED <<present, archive, running, lateCalls, completing, updates,
                   messages,
                   gameCount, looping>>

StopMessages ==
    /\ StopStep("messages", "updates")
    /\ messages' = {}
    /\ UNCHANGED <<present, archive, running, lateCalls, completing, updates,
                   batch, gameSet, looping>>

StopUpdates ==
    /\ StopStep("updates", "count")
    /\ UpdatesLockFree
    /\ updates' = <<>>
    /\ UNCHANGED <<present, archive, running, lateCalls, completing, batch,
                   messages, gameSet, looping>>

StopCount ==
    /\ StopStep("count", "idle")
    /\ gameCount' = 0
    /\ UNCHANGED <<present, archive, running, lateCalls, completing, lists, games,
                   outLists, looping>>

\* run and update_games are called again.
Restart ==
    /\ ~running
    /\ stop.pc = "idle"
    /\ loop = "returned"
    /\ running' = TRUE
    /\ lateCalls' = 0
    /\ loop' = "check"
    /\ naps' = 0
    /\ UNCHANGED <<present, archive, completing, lists, gameSet, due, finished,
                   ended, stop>>

------------------------------------------------------------------------------
LoopStep ==
    \/ CheckRunning \/ LockGames \/ LookForUpdates \/ ReturnFromWait
    \/ SwapUpdates \/ ProcessUpdate \/ UpdatesProcessed
    \/ EraseFinished \/ FinishedErased
    \/ UpdateGames
    \/ (\E s \in Sessions : BeginCompletion(s) \/ CompleteEnded(s)) \/ EndTick

Stopping ==
    \/ StopLock \/ StopService \/ StopNotify \/ StopGames \/ StopMessages \/ StopUpdates
    \/ StopCount

Next ==
    \/ \E id \in Tokens : PlayerConnect(id) \/ PlayerDisconnect(id) \/ ProcessMessage(id)
    \/ Forget
    \/ LoopStep \/ SpuriousWakeup
    \/ StopServer \/ Stopping \/ Restart

Spec == Init /\ [][Next]_vars

\* The thread of update_games and that of stop make progress; nobody has to
\* connect, leave or speak, and no game has to end.
FairSpec == Spec /\ WF_vars(LoopStep) /\ WF_vars(Stopping)

------------------------------------------------------------------------------
(* Properties.  Most speak of a server that has not been stopped: what     *)
(* stop leaves behind is the subject of a run of its own.                  *)

NeverStopped == stop.calls = 0

Waiting == batch \o updates

UpdatesOf(id) == {i \in DOMAIN Waiting : Waiting[i].id = id}

\* Who will be connected to a game when the updates that wait are processed.
WillPlay(id) ==
    IF UpdatesOf(id) = {}
      THEN id.session \in DOMAIN games /\ id.player \in games[id.session].connected
      ELSE LET last == CHOOSE i \in UpdatesOf(id) : \A j \in UpdatesOf(id) : j <= i
           IN  ~Waiting[last].disconnection

\* The logins and departures that the base_server announced reach the game,
\* through both lists and in their order, until the session is completed (:272-318).
PresentWillPlay ==
    NeverStopped =>
        \A id \in Tokens :
            id.session \in ValidSessions /\ archive[id.session] = NoResult
                => (WillPlay(id) <=> id \in present)

\* A completed session has a game only until the next time-step erases it:
\* a login that came just before the end does not bring it back (:225-235).
CompletedGamesListed ==
    NeverStopped =>
        \A s \in DOMAIN games : archive[s] # NoResult <=> s \in Range(finished)

\* A game that is over is erased before games are updated again: the tic tac toe
\* game does not stand it (:228, :320; :257 of tic_tac_toe_game.hpp).
DoneGamesNotUpdated ==
    NeverStopped /\ loop = "update" => \A s \in DOMAIN games : ~games[s].done

\* get_game_count is the number of games: each is added and erased once (:266).
CountIsGames ==
    NeverStopped => gameCount = Cardinality(DOMAIN games)

\* m_out_messages.at(...), called for each game in parallel, finds its list,
\* after stop and a new start too (:337, :343).
EachGameHasOutList == DOMAIN games = outLists

\* A game that is over goes away, unless the server is stopped first.
FinishedGamesGo ==
    \A s \in Sessions :
        s \in DOMAIN games /\ games[s].done ~> s \notin DOMAIN games \/ ~running

\* A login wakes the loop up if it has to, and is processed (:361-369, :205-216).
LoginsProcessed ==
    \A id \in Tokens :
        LET login == [id |-> id, disconnection |-> FALSE]
        IN  login \in Range(updates) ~> login \notin Range(updates) \/ ~running

\* The base_server's stop and complete_session wait for each other (:254, :295;
\* base_server.hpp:347-348, :521, :536).
Deadlocked == stop.pc = "clear" /\ completing # {}

\* update_games returns after stop, except in the two cases in which the code
\* lets it hang: stop finds it between its look at is_running and a wait, and
\* nobody notifies it again (:198 or :210, :209, :156), or the two wait for
\* each other's lock.
StopIsHeard ==
    stop.pc = "lock" /\ loop \notin {"lock", "look", "relook"}
        ~> loop = "returned" \/ Deadlocked

------------------------------------------------------------------------------
(* Why no completed session gets a second game: a login that waits when    *)
(* its session is completed finds the game, which is erased only after     *)
(* that login, and later logins do not get past the archive.               *)

LoginsIn(list) ==
    {list[i].id.session : i \in {j \in DOMAIN list : ~list[j].disconnection}}

FinishedOnce ==
    /\ Range(finished) \subseteq DOMAIN games
    /\ \A i, j \in DOMAIN finished : finished[i] = finished[j] => i = j
    /\ loop = "update" => finished = <<>>

EndedUncompleted ==
    /\ ended \subseteq DOMAIN games \ Range(finished)
    /\ loop # "report" => ended = {}

LoginsFindGame ==
    /\ loop # "apply" => batch = <<>>
    /\ loop \in {"apply", "erase"} => LoginsIn(updates) \cap Range(finished) = {}
    /\ \A s \in ValidSessions \cap (LoginsIn(batch) \cup LoginsIn(updates)) :
          archive[s] # NoResult => s \in DOMAIN games

\* Why no game that is over is updated: the lists have it until it is erased.
DoneListed ==
    NeverStopped =>
        \A s \in DOMAIN games : games[s].done => s \in Range(finished) \cup ended

GamesInv ==
    NeverStopped =>
        /\ running /\ stop.pc = "idle"
        /\ CompletedGamesListed
        /\ FinishedOnce
        /\ EndedUncompleted
        /\ LoginsFindGame

------------------------------------------------------------------------------
\* stop "clears all data" (:153): nothing is left of the games when it has
\* returned, and update_games with it.
StopClearsGames ==
    ~running /\ stop.pc = "idle" /\ loop = "returned"
        => DOMAIN games = {} /\ gameCount = 0
==============================================================================
