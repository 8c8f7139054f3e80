----------------------------- MODULE BaseServer -----------------------------
(***************************************************************************)
(* base_server of base_server.hpp: WebSocket connections, the queue of     *)
(* actions, the worker threads that process it, the records of players and *)
(* sessions, and shutdown.                                                 *)
(*                                                                         *)
(* Threads.  The asio threads of websocketpp call on_open, on_message and  *)
(* on_close and only touch the queue.  Each worker runs process_messages.  *)
(* One more thread, the main loop of the server built on top, calls        *)
(* send_message and complete_session; another calls stop and run.          *)
(*                                                                         *)
(* Locks.  m_connection_lock is a leaf, taken with no other lock wanted:   *)
(* each of its critical sections is one step.  m_session_lock and          *)
(* m_action_lock nest (complete_session holds the first and wants the      *)
(* second, stop holds the second and wants the first), so holding one is   *)
(* visible: see ActionLockFree and SessionLockFree.  open_session holds    *)
(* m_session_lock across setup_connection_id and m_handle_open; nothing    *)
(* that another thread can do in between depends on what is still missing, *)
(* so it is one step, and so is each push with its notify_one, since a     *)
(* notify that comes late is no more than a spurious wakeup.               *)
(***************************************************************************)
EXTENDS Naturals, Sequences, FiniteSets, BufferedMap

CONSTANTS
    Hdls,       \* connections, each opened at most once
    Players, Sessions,
    Tokens,     \* ids for which some client holds a valid JWT
    Results,    \* result data of a session
    Workers,    \* threads that run process_messages
    Elapse,     \* how often update_session_locks may clear the archive
    Garbage,    \* a text that is no valid token
    NoHdl, NoId, NoMsg,
    CountMod,   \* 2^w for the width w of std::size_t
    MaxQueue,   \* bound: no new message or call while the queue is longer
    MaxStops    \* bound: how often stop is called

Ids == [player : Players, session : Sessions]

\* What m_get_result_str makes of a player and the result of its session.
ResultTokens == [id : Ids, result : Results]

Texts == Tokens \cup {Garbage}

\* A queued action; the text of an OUT_MESSAGE is abstracted to its addressee.
Actions ==
    [type : {"SUBSCRIBE", "UNSUBSCRIBE"}, hdl : Hdls, msg : {NoMsg}]
        \cup [type : {"IN_MESSAGE"}, hdl : Hdls, msg : Texts]
        \cup [type : {"OUT_MESSAGE"}, hdl : Hdls, msg : Ids]
        \cup [type : {"CLOSE_CONNECTION"}, hdl : Hdls, msg : ResultTokens]

ASSUME TokensAssumption == Tokens \subseteq Ids
ASSUME ElapseAssumption == Elapse \subseteq 0..2 /\ 0 \in Elapse
ASSUME NullAssumption ==
    NoHdl \notin Hdls /\ NoId \notin Ids /\ Garbage \notin Ids /\ NoMsg \notin Results
ASSUME NumbersAssumption ==
    CountMod \in Nat \ {0} /\ MaxQueue \in Nat /\ MaxStops \in Nat

VARIABLES
    conn,            \* state of each connection inside websocketpp
    running,         \* m_is_running
    actions,         \* m_actions
    newConnections,  \* m_new_connections
    connectionId,    \* m_connection_ids, NoId where there is no entry
    idConnection,    \* m_id_connections, NoHdl where there is no entry
    sessionPlayers,  \* m_session_players, {} where there is no entry
    locked,          \* m_locked_sessions
    playerCount,     \* m_player_count
    worker,          \* each worker: where it is and what it has in hand
    loop,            \* the same for the caller of send_message, complete_session
    stop,            \* where the caller of stop is, and its calls so far
    present,         \* history: ids with a handle_open and no handle_close since
    told             \* history: result tokens that went out on each connection

network  == <<conn, told>>
records  == <<connectionId, idConnection, newConnections>>
rosters  == <<sessionPlayers, locked>>
players  == <<records, rosters, playerCount, present>>
callers  == <<loop, stop>>
vars     == <<network, running, actions, players, worker, callers>>

\* "late": the server has closed the connection while an asio thread was in
\* on_message with a last message of it, received before.
ConnStates == {"new", "open", "late", "closing", "closed"}

WorkerStates ==
    [pc : {"check", "lock", "wait", "woken", "done"}]
        \cup [pc : {"act"}, act : Actions]
        \cup [pc : {"open", "leave", "unlist", "report"}, hdl : Hdls, id : Ids]

LoopStates ==
    [pc : {"idle"}]
        \cup [pc : {"send"}, id : Ids, hdl : Hdls]
        \cup [pc : {"each"}, sid : Sessions, result : Results, todo : SUBSET Players]
        \cup [pc : {"close"}, sid : Sessions, result : Results,
              todo : SUBSET Players, player : Players, hdl : Hdls]

TypeOK ==
    /\ conn \in [Hdls -> ConnStates]
    /\ running \in BOOLEAN
    /\ actions \in Seq(Actions)
    /\ newConnections \in SUBSET Hdls
    /\ connectionId \in [Hdls -> Ids \cup {NoId}]
    /\ idConnection \in [Ids -> Hdls \cup {NoHdl}]
    /\ sessionPlayers \in [Sessions -> SUBSET Players]
    /\ locked \in BufferedMaps(Sessions, Results)
    /\ playerCount \in 0..CountMod - 1
    /\ worker \in [Workers -> WorkerStates]
    /\ loop \in LoopStates
    /\ stop \in [pc : {"idle", "lock", "clear", "notify"}, calls : Nat]
    /\ present \in SUBSET Ids
    /\ told \in [Hdls -> SUBSET ResultTokens]

\* The server runs, nobody is connected, the threads have just been started.
Init ==
    /\ conn = [h \in Hdls |-> "new"]
    /\ running = TRUE
    /\ actions = <<>>
    /\ newConnections = {}
    /\ connectionId = [h \in Hdls |-> NoId]
    /\ idConnection = [id \in Ids |-> NoHdl]
    /\ sessionPlayers = [s \in Sessions |-> {}]
    /\ locked = EmptyBuffer
    /\ playerCount = 0
    /\ worker = [w \in Workers |-> [pc |-> "check"]]
    /\ loop = [pc |-> "idle"]
    /\ stop = [pc |-> "idle", calls |-> 0]
    /\ present = {}
    /\ told = [h \in Hdls |-> {}]

------------------------------------------------------------------------------
(* Locks, the queue, and the two calls into websocketpp.                   *)

ActionLockFree == stop.pc # "clear"

\* Mutant of SessionLockFree: nobody holds m_session_lock for long.
NoSessionLock == TRUE

SessionLockFree == loop.pc \notin {"each", "close"}

Waiting == {w \in Workers : worker[w].pc = "wait"}

\* Mutant of NotifyOne: the push is not announced.
NotifyNobody == worker' = worker

NotifyOne ==
    IF Waiting = {} THEN worker' = worker
    ELSE \E w \in Waiting : worker' = [worker EXCEPT ![w] = [pc |-> "woken"]]

Push(type, h, m) ==
    /\ ActionLockFree
    /\ actions' = Append(actions, [type |-> type, hdl |-> h, msg |-> m])
    /\ NotifyOne

\* send_to_hdl: sending on a connection that is not open throws, and is caught.
Send(h, token) ==
    told' = IF conn[h] = "open" THEN [told EXCEPT ![h] = @ \cup {token}] ELSE told

\* close_hdl on each of hs: closing what is not open throws, and is caught.
Close(hs) ==
    \E late \in SUBSET {h \in hs : conn[h] = "open"} :
        conn' = [h \in Hdls |->
                    IF h \notin hs \/ conn[h] # "open" THEN conn[h]
                    ELSE IF h \in late THEN "late" ELSE "closing"]

\* update_session_locks, which clears n times; see SessionArchive for when.
Released(n) ==
    IF n = 0 THEN locked ELSE IF n = 1 THEN Clear(locked) ELSE Clear(Clear(locked))

------------------------------------------------------------------------------
(* The handlers that websocketpp calls.                                    *)

OnOpen(h) ==
    /\ conn[h] = "new"
    /\ IF running
         THEN /\ Push("SUBSCRIBE", h, NoMsg)
              /\ conn' = [conn EXCEPT ![h] = "open"]
         ELSE /\ ActionLockFree
              /\ conn' = [conn EXCEPT ![h] = "closing"]
              /\ NotifyOne
              /\ UNCHANGED actions
    /\ UNCHANGED <<told, running, players, callers>>

OnMessage(h, text) ==
    /\ \/ conn[h] = "open" /\ Len(actions) < MaxQueue /\ UNCHANGED conn
       \/ conn[h] = "late" /\ conn' = [conn EXCEPT ![h] = "closing"]
    /\ Push("IN_MESSAGE", h, text)
    /\ UNCHANGED <<told, running, players, callers>>

\* The client has gone, or the closing handshake ended or timed out.
OnClose(h) ==
    /\ conn[h] \in {"open", "closing"}
    /\ conn' = [conn EXCEPT ![h] = "closed"]
    /\ Push("UNSUBSCRIBE", h, NoMsg)
    /\ UNCHANGED <<told, running, players, callers>>

------------------------------------------------------------------------------
(* The workers: process_messages.                                          *)

IsAt(w, place) == worker[w].pc = place

Goto(w, state) == worker' = [worker EXCEPT ![w] = state]

InHand(w, type) == IsAt(w, "act") /\ worker[w].act.type = type

\* The loop condition.
CheckRunning(w) ==
    /\ IsAt(w, "check")
    /\ Goto(w, [pc |-> IF running THEN "lock" ELSE "done"])
    /\ UNCHANGED <<network, running, actions, players, callers>>

\* Under m_action_lock, on entry or after wait returned: pop, or wait (again).
TakeAction(w) ==
    /\ IsAt(w, "lock") \/ (IsAt(w, "woken") /\ running)
    /\ ActionLockFree
    /\ IF actions = <<>>
         THEN Goto(w, [pc |-> "wait"]) /\ UNCHANGED actions
         ELSE /\ Goto(w, [pc |-> "act", act |-> Head(actions)])
              /\ actions' = Tail(actions)
    /\ UNCHANGED <<network, running, players, callers>>

\* wait returned and the server no longer runs.
ReturnFromWait(w) ==
    /\ IsAt(w, "woken")
    /\ ~running
    /\ ActionLockFree
    /\ Goto(w, [pc |-> "done"])
    /\ UNCHANGED <<network, running, actions, players, callers>>

SpuriousWakeup(w) ==
    /\ IsAt(w, "wait")
    /\ Goto(w, [pc |-> "woken"])
    /\ UNCHANGED <<network, running, actions, players, callers>>

Subscribe(w) ==
    /\ InHand(w, "SUBSCRIBE")
    /\ newConnections' = newConnections \cup {worker[w].act.hdl}
    /\ Goto(w, [pc |-> "check"])
    /\ UNCHANGED <<network, running, actions, connectionId, idConnection,
                   rosters, playerCount, callers, present>>

Forgotten(h) == newConnections \ {h}

\* A connection without an id is forgotten; one with an id leaves below.
Unsubscribe(w) ==
    /\ InHand(w, "UNSUBSCRIBE")
    /\ LET h == worker[w].act.hdl
       IN  IF connectionId[h] = NoId
             THEN /\ newConnections' = Forgotten(h)
                  /\ Goto(w, [pc |-> "check"])
             ELSE /\ Goto(w, [pc |-> "leave", hdl |-> h, id |-> connectionId[h]])
                  /\ UNCHANGED newConnections
    /\ UNCHANGED <<network, running, actions, connectionId, idConnection,
                   rosters, playerCount, callers, present>>

\* Mutant of Departed: the server on top is not told.
StillPresent(id) == present

Unlisted(id) == [sessionPlayers EXCEPT ![id.session] = @ \ {id.player}]

Departed(id) == present \ {id}

CountDeparture == (playerCount + CountMod - 1) % CountMod

\* player_disconnect, from one place to the next with the same hdl and id:
Departure(w, place) == [pc |-> place, hdl |-> worker[w].hdl, id |-> worker[w].id]

\* the block under m_connection_lock,
Leave(w) ==
    /\ IsAt(w, "leave")
    /\ connectionId' = [connectionId EXCEPT ![worker[w].hdl] = NoId]
    /\ idConnection' = [idConnection EXCEPT ![worker[w].id] = NoHdl]
    /\ Goto(w, Departure(w, "unlist"))
    /\ UNCHANGED <<network, running, actions, newConnections, rosters,
                   playerCount, callers, present>>

\* the block under m_session_lock,
Unlist(w) ==
    /\ IsAt(w, "unlist")
    /\ SessionLockFree
    /\ sessionPlayers' = Unlisted(worker[w].id)
    /\ Goto(w, Departure(w, "report"))
    /\ UNCHANGED <<network, running, actions, records, locked, playerCount,
                   callers, present>>

\* and --m_player_count, an atomic std::size_t, then m_handle_close.
Report(w) ==
    /\ IsAt(w, "report")
    /\ playerCount' = CountDeparture
    /\ present' = Departed(worker[w].id)
    /\ Goto(w, [pc |-> "check"])
    /\ UNCHANGED <<network, running, actions, records, rosters, callers>>

\* A message of a known player goes to m_handle_message, which leaves this
\* state alone; any other message is taken for a token.  jwt::verify runs
\* before a lock is taken, and the client of a bad token is turned away.
InMessage(w) ==
    /\ InHand(w, "IN_MESSAGE")
    /\ LET h == worker[w].act.hdl
           text == worker[w].act.msg
       IN  \/ /\ connectionId[h] # NoId
              /\ Goto(w, [pc |-> "check"])
              /\ UNCHANGED conn
           \/ /\ connectionId[h] = NoId
              /\ text \in Tokens
              /\ Goto(w, [pc |-> "open", hdl |-> h, id |-> text])
              /\ UNCHANGED conn
           \/ /\ connectionId[h] = NoId
              /\ text \notin Tokens
              /\ Goto(w, [pc |-> "check"])
              /\ Close({h})
    /\ UNCHANGED <<told, running, actions, players, callers>>

\* Mutants of CloseDuplicate and CountLogin: the duplicate is left open, or is
\* counted twice.
KeepDuplicate(id) == UNCHANGED conn

CountEveryLogin(id) == (playerCount + 1) % CountMod

\* setup_connection_id: the connection that held the id, if any, is closed and
\* forgotten; m_player_count grows only when there was none.
CloseDuplicate(id) ==
    IF idConnection[id] = NoHdl THEN UNCHANGED conn ELSE Close({idConnection[id]})

ForgetDuplicate(id) ==
    IF idConnection[id] = NoHdl THEN connectionId
    ELSE [connectionId EXCEPT ![idConnection[id]] = NoId]

CountLogin(id) ==
    IF idConnection[id] = NoHdl THEN (playerCount + 1) % CountMod ELSE playerCount

SetupConnectionId(h, id) ==
    LET freed == ForgetDuplicate(id)
    IN  /\ CloseDuplicate(id)
        /\ playerCount' = CountLogin(id)
        /\ connectionId' = IF freed[h] = NoId THEN [freed EXCEPT ![h] = id]
                           ELSE freed
        /\ idConnection' = [idConnection EXCEPT ![id] = h]
        /\ newConnections' = Forgotten(h)

\* Mutant of EndSession: the connection is left open.
TellOnly(h, token) == Send(h, token) /\ UNCHANGED conn

\* A result goes out before the connection is closed.
EndSession(h, token) == Send(h, token) /\ Close({h})

\* The locked part of open_session when the session is not archived,
Admit(w) ==
    /\ IsAt(w, "open")
    /\ SessionLockFree
    /\ \E n \in Elapse : locked' = Released(n)
    /\ LET id == worker[w].id
       IN  /\ ~Contains(locked', id.session)
           /\ SetupConnectionId(worker[w].hdl, id)
           /\ sessionPlayers' =
                 [sessionPlayers EXCEPT ![id.session] = @ \cup {id.player}]
           /\ present' = present \cup {id}
    /\ Goto(w, [pc |-> "check"])
    /\ UNCHANGED <<told, running, actions, callers>>

\* and when it is: the result at once, and no record of the connection.
TurnAway(w) ==
    /\ IsAt(w, "open")
    /\ SessionLockFree
    /\ \E n \in Elapse : locked' = Released(n)
    /\ LET h == worker[w].hdl
           id == worker[w].id
       IN  /\ Contains(locked', id.session)
           /\ EndSession(h, [id |-> id, result |-> At(locked', id.session)])
    /\ Goto(w, [pc |-> "check"])
    /\ UNCHANGED <<running, actions, records, sessionPlayers, playerCount,
                   callers, present>>

\* What a player is sent in the game changes no state kept here.
OutMessage(w) ==
    /\ InHand(w, "OUT_MESSAGE")
    /\ Goto(w, [pc |-> "check"])
    /\ UNCHANGED <<network, running, actions, players, callers>>

CloseConnection(w) ==
    /\ InHand(w, "CLOSE_CONNECTION")
    /\ EndSession(worker[w].act.hdl, worker[w].act.msg)
    /\ Goto(w, [pc |-> "check"])
    /\ UNCHANGED <<running, actions, players, callers>>

------------------------------------------------------------------------------
(* The main loop of the server built on top.  It may be in the middle of a *)
(* call, or begin its last ones, when the server is stopped.               *)

MayCall == loop.pc = "idle" /\ Len(actions) < MaxQueue

\* send_message: the lookup; without a connection the message is dropped.
SendMessage(id) ==
    /\ MayCall
    /\ idConnection[id] # NoHdl
    /\ loop' = [pc |-> "send", id |-> id, hdl |-> idConnection[id]]
    /\ UNCHANGED <<network, running, actions, players, worker, stop>>

PushMessage ==
    /\ loop.pc = "send"
    /\ Push("OUT_MESSAGE", loop.hdl, loop.id)
    /\ loop' = [pc |-> "idle"]
    /\ UNCHANGED <<network, running, players, stop>>

\* complete_session takes m_session_lock.  An archived session is left alone.
CompleteSession(s, r) ==
    /\ MayCall
    /\ \E n \in Elapse : locked' = Released(n)
    /\ loop' = IF Contains(locked', s) THEN loop
               ELSE [pc |-> "each", sid |-> s, result |-> r,
                     todo |-> sessionPlayers[s]]
    /\ UNCHANGED <<network, running, actions, records, sessionPlayers,
                   playerCount, worker, stop, present>>

\* The next player of the session: look up its connection,
EachPlayer(p) ==
    /\ loop.pc = "each"
    /\ p \in loop.todo
    /\ LET h == idConnection[[player |-> p, session |-> loop.sid]]
           rest == loop.todo \ {p}
       IN  loop' = IF h = NoHdl THEN [loop EXCEPT !.todo = rest]
                   ELSE [pc |-> "close", sid |-> loop.sid, result |-> loop.result,
                         todo |-> rest, player |-> p, hdl |-> h]
    /\ UNCHANGED <<network, running, actions, players, worker, stop>>

\* then queue its result and the end of its connection.
PushClose ==
    /\ loop.pc = "close"
    /\ Push("CLOSE_CONNECTION", loop.hdl,
            [id |-> [player |-> loop.player, session |-> loop.sid],
             result |-> loop.result])
    /\ loop' = [pc |-> "each", sid |-> loop.sid, result |-> loop.result,
                todo |-> loop.todo]
    /\ UNCHANGED <<network, running, players, stop>>

\* Mutant of Archived: the result is not kept.
NotArchived(s, r) == locked

Archived(s, r) == Insert(locked, s, r)

\* All players are done: archive the result and release m_session_lock.
Archive ==
    /\ loop.pc = "each"
    /\ loop.todo = {}
    /\ locked' = Archived(loop.sid, loop.result)
    /\ loop' = [pc |-> "idle"]
    /\ UNCHANGED <<network, running, actions, records, sessionPlayers,
                   playerCount, worker, stop, present>>

------------------------------------------------------------------------------
(* stop and run.                                                           *)

StopCall ==
    /\ stop.pc = "idle"
    /\ running
    /\ stop.calls < MaxStops
    /\ running' = FALSE
    /\ stop' = [pc |-> "lock", calls |-> stop.calls + 1]
    /\ UNCHANGED <<network, actions, players, worker, loop>>

\* Takes m_action_lock and goes for m_session_lock.
StopLock ==
    /\ stop.pc = "lock"
    /\ stop' = [stop EXCEPT !.pc = "clear"]
    /\ UNCHANGED <<network, running, actions, players, worker, loop>>

\* Connections that stop finds: those with an id, those without, and those
\* with an unprocessed SUBSCRIBE or CLOSE_CONNECTION.
KnownConnections ==
    newConnections
        \cup {h \in Hdls : connectionId[h] # NoId}
        \cup {actions[i].hdl : i \in {j \in DOMAIN actions :
                   actions[j].type \in {"SUBSCRIBE", "CLOSE_CONNECTION"}}}

\* Mutant of ClearRecords: the sessions keep their players.
ClearConnections ==
    /\ newConnections' = {}
    /\ connectionId' = [h \in Hdls |-> NoId]
    /\ idConnection' = [id \in Ids |-> NoHdl]
    /\ UNCHANGED sessionPlayers

ClearRecords ==
    /\ newConnections' = {}
    /\ connectionId' = [h \in Hdls |-> NoId]
    /\ idConnection' = [id \in Ids |-> NoHdl]
    /\ sessionPlayers' = [s \in Sessions |-> {}]

\* With both locks: close what is known, then clear everything.
StopClear ==
    /\ stop.pc = "clear"
    /\ SessionLockFree
    /\ Close(KnownConnections)
    /\ actions' = <<>>
    /\ ClearRecords
    /\ locked' = Clear(Clear(locked))
    /\ playerCount' = 0
    /\ stop' = [stop EXCEPT !.pc = "notify"]
    /\ UNCHANGED <<told, running, worker, loop, present>>

\* notify_all; stop returns.
StopNotify ==
    /\ stop.pc = "notify"
    /\ worker' = [w \in Workers |->
                     IF IsAt(w, "wait") THEN [pc |-> "woken"] ELSE worker[w]]
    /\ stop' = [stop EXCEPT !.pc = "idle"]
    /\ UNCHANGED <<network, running, actions, players, loop>>

\* reset and run, once the threads have been joined: no worker is left, and
\* the asio threads have no connection to serve.
Restart ==
    /\ ~running
    /\ stop.pc = "idle"
    /\ loop.pc = "idle"
    /\ \A w \in Workers : IsAt(w, "done")
    /\ \A h \in Hdls : conn[h] \in {"new", "closed"}
    /\ running' = TRUE
    /\ worker' = [w \in Workers |-> [pc |-> "check"]]
    /\ UNCHANGED <<network, actions, players, callers>>

------------------------------------------------------------------------------
Network(h) == OnOpen(h) \/ (\E text \in Texts : OnMessage(h, text)) \/ OnClose(h)

WorkerStep(w) ==
    \/ CheckRunning(w) \/ TakeAction(w) \/ ReturnFromWait(w)
    \/ Subscribe(w)
    \/ Unsubscribe(w) \/ Leave(w) \/ Unlist(w) \/ Report(w)
    \/ InMessage(w) \/ Admit(w) \/ TurnAway(w)
    \/ OutMessage(w) \/ CloseConnection(w)

LoopStep == PushMessage \/ (\E p \in Players : EachPlayer(p)) \/ PushClose \/ Archive

StopStep == StopLock \/ StopClear \/ StopNotify

Next ==
    \/ \E h \in Hdls : Network(h)
    \/ \E w \in Workers : WorkerStep(w) \/ SpuriousWakeup(w)
    \/ \E id \in Ids : SendMessage(id)
    \/ \E s \in Sessions, r \in Results : CompleteSession(s, r)
    \/ LoopStep
    \/ StopCall
    \/ StopStep
    \/ Restart

Spec == Init /\ [][Next]_vars

\* Threads in the middle of something get to run; a closing handshake ends
\* or times out; a message received is handed over.  Nobody has to connect,
\* send, leave or call.
FairSpec ==
    /\ Spec
    /\ \A w \in Workers : WF_vars(WorkerStep(w))
    /\ WF_vars(LoopStep)
    /\ WF_vars(StopStep)
    /\ \A h \in Hdls : /\ WF_vars(conn[h] = "closing" /\ OnClose(h))
                       /\ WF_vars(conn[h] = "late" /\ Network(h))

------------------------------------------------------------------------------
(* Properties.  Those about the records of players hold with one worker    *)
(* only: what goes wrong with more, CountAtRest shows.                     *)

NeverStopped == stop.calls = 0

Registered == {h \in Hdls : connectionId[h] # NoId}

\* Workers that have erased a player's connection and not yet the rest.
Departing(places) == {w \in Workers : worker[w].pc \in places}

\* An action is queued, or in the hand of a worker.
Pending(type, h) ==
    \/ \E i \in DOMAIN actions : actions[i].type = type /\ actions[i].hdl = h
    \/ \E w \in Workers : InHand(w, type) /\ worker[w].act.hdl = h

\* m_connection_ids and m_id_connections are inverse to each other, through
\* logins, displaced duplicates, departures and shutdown (:687-710, :566-571).
OneConnectionPerId ==
    \A h \in Hdls, id \in Ids : connectionId[h] = id <=> idConnection[id] = h

\* m_session_players lists every connected player, so that complete_session
\* reaches them all, and nobody else but players about to be unlisted (:749, :572).
RosterMatchesConnections ==
    \A id \in Ids :
        LET listed == id.player \in sessionPlayers[id.session]
        IN  /\ idConnection[id] # NoHdl => listed
            /\ listed => \/ idConnection[id] # NoHdl
                         \/ \E w \in Departing({"unlist"}) : worker[w].id = id

\* Why these two hold, and with one worker only: an id looked up under
\* m_connection_lock is used after the unlock (:424, :440), and by then it is
\* still the id of that connection, or stop has cleared the records.
HandsMatchRecords ==
    \A w \in Workers :
        LET h == worker[w].hdl
            id == worker[w].id
        IN  /\ IsAt(w, "open") => connectionId[h] = NoId
            /\ IsAt(w, "leave") =>
                  \/ connectionId[h] = id
                  \/ connectionId[h] = NoId /\ idConnection[id] = NoHdl
            /\ IsAt(w, "unlist") => idConnection[id] = NoHdl

\* Types, and the agreement of the records, through shutdowns and restarts.
RecordsInv ==
    /\ TypeOK
    /\ OneConnectionPerId
    /\ RosterMatchesConnections
    /\ HandsMatchRecords

\* get_player_count is the number of players with a connection, apart from
\* those whose departure is under way (:476, :583, :703).  stop sets it to zero.
CountIsConnectedPlayers ==
    NeverStopped =>
        playerCount = Cardinality(Registered) + Cardinality(Departing({"unlist", "report"}))

\* The server on top has been told of exactly the players that have a
\* connection: a departure takes back what any number of logins announced, and
\* the connection that a duplicate login displaces takes back nothing (:588, :756).
\* stop forgets the connections and reports nobody.
PresentAreConnected ==
    NeverStopped =>
        present = {connectionId[h] : h \in Registered}
                     \cup {worker[w].id : w \in Departing({"unlist", "report"})}

\* Every open connection is one that stop would close, or its SUBSCRIBE has
\* just been popped: a displaced or refused client is never left open (:347-368).
OpenConnectionsKnown ==
    \A h \in Hdls : conn[h] = "open" => h \in KnownConnections \/ Pending("SUBSCRIBE", h)

\* Once a session is archived, each of its connections is closed or has its
\* result queued: no login slips in between the list of players and the
\* archive (:521-563 against :745-757).
CompletionReachesAll ==
    \A h \in Registered :
        Contains(locked, connectionId[h].session) /\ conn[h] = "open" =>
            Pending("CLOSE_CONNECTION", h)

\* All players of a session are told one result, early and late ones, and a
\* connection is told one at most (:523, :757-766).
OneResultPerSession ==
    \A h, g \in Hdls : \A t \in told[h], u \in told[g] :
        /\ h = g => t = u
        /\ t.id.session = u.id.session => t.result = u.result

\* A queued message is only ever sent to the player it was meant for: if the
\* connection is still open then no one else has it (:481-503, :452-459).
MessageReachesAddressee ==
    [][ \A w \in Workers :
            OutMessage(w) /\ conn[worker[w].act.hdl] = "open"
                => connectionId[worker[w].act.hdl] = worker[w].act.msg ]_vars

\* The players of a completed session are all disconnected in the end, with
\* nothing but the threads' progress to count on.
CompletedSessionsEmpty ==
    \A s \in Sessions :
        Contains(locked, s) ~> \A id \in Ids : id.session = s => idConnection[id] = NoHdl

\* A client that went away is forgotten in the end.
DeparturesProcessed ==
    \A h \in Hdls : conn[h] = "closed" ~> h \notin newConnections \cup Registered

------------------------------------------------------------------------------
(* The server keeps what SessionService promises.                          *)

ArchivedResult(s) ==
    IF s \in DOMAIN locked.m1 THEN locked.m1[s]
    ELSE IF s \in DOMAIN locked.m2 THEN locked.m2[s]
    ELSE NoMsg

Service == INSTANCE SessionService WITH
    NoResult <- NoMsg,
    archive <- [s \in Sessions |-> ArchivedResult(s)]

\* Whatever the threads do, the server on top sees logins and departures of
\* sessions that are archived at most once and are closed to logins then
\* (:523, :559, :749).
ImplementsService == Service!Spec

\* Why: m_session_lock keeps the session that is being completed out of the
\* archive, from the look into it (:523) to the insertion (:559).
CompletingUnarchived ==
    loop.pc \in {"each", "close"} => ~Contains(locked, loop.sid)

------------------------------------------------------------------------------
(* What the comments and tests say of the program, and runs refute.        *)

AtRest ==
    /\ actions = <<>>
    /\ worker \in [Workers -> [pc : {"wait", "done"}]]
    /\ loop.pc = "idle"
    /\ stop.pc = "idle"
    /\ \A h \in Hdls : conn[h] \notin {"late", "closing"}

\* get_player_count returns "the number of verified clients connected" (:476),
\* at least when no event is left to be processed.
CountAtRest ==
    AtRest => playerCount = Cardinality({h \in Registered : conn[h] = "open"})

\* A call of stop returns (game_server_test.cpp:382).
StopReturns == stop.pc = "lock" ~> stop.pc = "idle"
==============================================================================
