-------------------------- MODULE GameServer_proofs --------------------------
(***************************************************************************)
(* What holds of GameServer for every set of players and sessions, every   *)
(* number of workers and every bound.                                      *)
(***************************************************************************)
EXTENDS GameServer, FiniteSetTheorems, TLAPS

USE NumbersAssumption DEF lists, gameSet, timing, looping

\* Taking the first element off a list.
LEMMA TailFacts ==
    ASSUME NEW S, NEW q \in Seq(S), q # <<>>
    PROVE  /\ Head(q) \in S
           /\ Tail(q) \in Seq(S)
           /\ Head(q) \in Range(q)
           /\ Range(Tail(q)) \subseteq Range(q)
           /\ Range(q) = {Head(q)} \cup Range(Tail(q))
<1>1. /\ Len(q) \in Nat \ {0} /\ Head(q) = q[1] /\ Tail(q) \in Seq(S)
      /\ DOMAIN q = 1..Len(q) /\ DOMAIN Tail(q) = 1..(Len(q) - 1)
      /\ \A i \in 1..(Len(q) - 1) : Tail(q)[i] = q[i + 1]
  OBVIOUS
<1>2. \A i \in DOMAIN q : i = 1 \/ (i - 1 \in DOMAIN Tail(q) /\ Tail(q)[i - 1] = q[i])
  BY <1>1
<1>3. Range(Tail(q)) \subseteq Range(q)
  BY <1>1 DEF Range
<1>4. q[1] \in S /\ q[1] \in Range(q)
  BY <1>1 DEF Range
<1>5. Range(q) \subseteq {q[1]} \cup Range(Tail(q))
  BY <1>2 DEF Range
<1> QED
  BY <1>1, <1>3, <1>4, <1>5

\* The empty list.
LEMMA EmptyFacts ==
    ASSUME NEW S
    PROVE  <<>> \in Seq(S) /\ Range(<<>>) = {}
BY DEF Range

\* Appending an element.
LEMMA AppendFacts ==
    ASSUME NEW S, NEW q \in Seq(S), NEW x \in S
    PROVE  /\ Append(q, x) \in Seq(S)
           /\ Range(Append(q, x)) = Range(q) \cup {x}
<1>1. /\ Append(q, x) \in Seq(S) /\ Len(q) \in Nat
      /\ DOMAIN Append(q, x) = 1..(Len(q) + 1) /\ DOMAIN q = 1..Len(q)
      /\ \A i \in 1..Len(q) : Append(q, x)[i] = q[i]
      /\ Append(q, x)[Len(q) + 1] = x
  OBVIOUS
<1>2. Range(Append(q, x)) \subseteq Range(q) \cup {x}
  BY <1>1 DEF Range
<1>3. Range(q) \cup {x} \subseteq Range(Append(q, x))
  BY <1>1 DEF Range
<1> QED
  BY <1>1, <1>2, <1>3

\* The sessions with a waiting login, by the elements of the list.
LEMMA LoginsByRange ==
    ASSUME NEW q
    PROVE  LoginsIn(q) = {u.id.session : u \in {v \in Range(q) : ~v.disconnection}}
BY DEF LoginsIn, Range

\* A login that joins the list, or one taken off it.
LEMMA AppendLogins ==
    ASSUME NEW S, NEW q \in Seq(S), NEW x \in S
    PROVE  /\ x.disconnection => LoginsIn(Append(q, x)) = LoginsIn(q)
           /\ ~x.disconnection => LoginsIn(Append(q, x)) = LoginsIn(q) \cup {x.id.session}
<1>1. Range(Append(q, x)) = Range(q) \cup {x}
  BY AppendFacts
<1>2. \A l, t : t \in LoginsIn(l) <=> \E u \in Range(l) : ~u.disconnection /\ t = u.id.session
  BY LoginsByRange
<1>3. \A t : t \in LoginsIn(Append(q, x)) <=>
                t \in LoginsIn(q) \/ (~x.disconnection /\ t = x.id.session)
  BY <1>1, <1>2
<1> QED
  BY <1>3

\* The logins left when the first update has been taken.
LEMMA TailLogins ==
    ASSUME NEW S, NEW q \in Seq(S), q # <<>>
    PROVE  /\ LoginsIn(Tail(q)) \subseteq LoginsIn(q)
           /\ ~Head(q).disconnection => Head(q).id.session \in LoginsIn(q)
<1>1. Head(q) \in Range(q) /\ Range(Tail(q)) \subseteq Range(q)
  BY TailFacts
<1>2. \A l, t : t \in LoginsIn(l) <=> \E u \in Range(l) : ~u.disconnection /\ t = u.id.session
  BY LoginsByRange
<1> QED
  BY <1>1, <1>2

------------------------------------------------------------------------------
\* A game in m_games: where it is and what it knows.
LEMMA GamesType ==
    ASSUME NEW D \in SUBSET Sessions,
           NEW g \in [D -> [connected : SUBSET Players, done : BOOLEAN]]
    PROVE  g \in Games
BY DEF Games

\* The other direction of GamesType.
LEMMA GamesElim ==
    ASSUME NEW g \in Games
    PROVE  /\ DOMAIN g \subseteq Sessions
           /\ g \in [DOMAIN g -> [connected : SUBSET Players, done : BOOLEAN]]
BY DEF Games

\* No game at all.
LEMMA NoGamesType == NoGames \in Games
<1>1. NoGames \in [{} -> [connected : SUBSET Players, done : BOOLEAN]]
  BY DEF NoGames
<1> QED
  BY <1>1, GamesType

\* The next update, and what it makes of the games.
LEMMA UpdateType ==
    ASSUME NEW id \in Ids, games \in Games
    PROVE  /\ id.session \in Sessions /\ id.player \in Players
           /\ id.session \in DOMAIN games => Connected(id) \in Games /\ Disconnected(id) \in Games
           /\ Created(id) \in Games
<1>1. id.session \in Sessions /\ id.player \in Players
  BY DEF Ids, Service!Ids
<1>2. /\ DOMAIN games \subseteq Sessions
      /\ games \in [DOMAIN games -> [connected : SUBSET Players, done : BOOLEAN]]
  BY GamesElim
<1>3. ASSUME id.session \in DOMAIN games
      PROVE  Connected(id) \in Games /\ Disconnected(id) \in Games
  <2>1. /\ Connected(id) \in [DOMAIN games -> [connected : SUBSET Players, done : BOOLEAN]]
        /\ Disconnected(id) \in [DOMAIN games -> [connected : SUBSET Players, done : BOOLEAN]]
    BY <1>1, <1>2, <1>3 DEF Connected, Disconnected
  <2> QED
    BY <1>2, <2>1, GamesType
<1>4. Created(id) \in Games
  <2> DEFINE D == DOMAIN games \cup {id.session}
  <2>1. Created(id) \in [D -> [connected : SUBSET Players, done : BOOLEAN]]
    BY <1>1, <1>2 DEF Created
  <2> QED
    BY <1>1, <1>2, <2>1, GamesType
<1> QED
  BY <1>1, <1>3, <1>4

\* The server starts well typed.
LEMMA InitType == Init => TypeOK
<1> SUFFICES ASSUME Init PROVE TypeOK
  OBVIOUS
<1>1. Service!TypeOK
  BY DEF Init, Service!Init, Service!TypeOK
<1>2. <<>> \in Seq(Updates) /\ <<>> \in Seq(Sessions)
  BY EmptyFacts
<1>3. /\ 0 \in 0..Workers /\ 0 \in 0..CountMod - 1 /\ 0 \in 0..Timestep
      /\ 0 \in 0..MaxStops
  OBVIOUS
<1> QED
  BY <1>1, <1>2, <1>3, NoGamesType DEF Init, TypeOK

\* complete_session adds a result to the archive.
LEMMA CompleteType ==
    ASSUME Service!TypeOK, NEW s \in Sessions, CompleteSession(s)
    PROVE  Service!TypeOK'
BY DEF Service!TypeOK, CompleteSession, Service!Complete

\* The calls of the workers keep the types.
LEMMA CallType ==
    ASSUME TypeOK, NEW id \in Ids,
           PlayerConnect(id) \/ PlayerDisconnect(id) \/ ProcessMessage(id)
    PROVE  TypeOK'
<1>1. lateCalls' \in 0..Workers
  BY DEF TypeOK, PlayerConnect, PlayerDisconnect, ProcessMessage, Call
<1>2. CASE PlayerConnect(id)
  <2>1. updates' \in Seq(Updates)
    BY <1>2 DEF PlayerConnect, TypeOK, Updates
  <2>2. Service!TypeOK'
    BY <1>2 DEF PlayerConnect, TypeOK, Service!TypeOK, Service!Open, Ids, Service!Ids
  <2> QED
    BY <1>1, <1>2, <2>1, <2>2 DEF PlayerConnect, NotifyLoop, TypeOK
<1>3. CASE PlayerDisconnect(id)
  <2>1. updates' \in Seq(Updates)
    BY <1>3 DEF PlayerDisconnect, TypeOK, Updates
  <2>2. Service!TypeOK'
    BY <1>3 DEF PlayerDisconnect, TypeOK, Service!TypeOK, Service!Close
  <2> QED
    BY <1>1, <1>3, <2>1, <2>2 DEF PlayerDisconnect, TypeOK
<1>4. CASE ProcessMessage(id)
  BY <1>1, <1>4 DEF ProcessMessage, TypeOK, Service!TypeOK
<1> QED
  BY <1>2, <1>3, <1>4

\* So do the steps of the loop outside a time-step.
LEMMA WaitingType ==
    ASSUME TypeOK, \/ CheckRunning \/ LockGames \/ LookForUpdates
                   \/ ReturnFromWait \/ SpuriousWakeup
    PROVE  TypeOK'
<1>1. Service!TypeOK'
  BY DEF CheckRunning, LockGames, LookForUpdates, ReturnFromWait, SpuriousWakeup,
         TypeOK, Service!TypeOK
<1>e. <<>> \in Seq(Sessions)
  BY EmptyFacts
<1>2. CASE CheckRunning \/ SpuriousWakeup
  <2>1. due' \in BOOLEAN
    BY <1>2 DEF CheckRunning, SpuriousWakeup, TypeOK
  <2> QED
    BY <1>1, <1>e, <1>2, <2>1 DEF CheckRunning, SpuriousWakeup, TypeOK
<1>3. CASE LockGames \/ LookForUpdates \/ ReturnFromWait
  <2>1. naps' \in 0..Timestep
    BY <1>3 DEF LockGames, LookForUpdates, ReturnFromWait, SleepOrTick, TypeOK
  <2> QED
    BY <1>1, <1>e, <1>3, <2>1
       DEF LockGames, LookForUpdates, ReturnFromWait, SleepOrTick, TypeOK
<1> QED
  BY <1>2, <1>3

\* So does a time-step.
LEMMA TickType ==
    ASSUME TypeOK, \/ SwapUpdates \/ ProcessUpdate \/ UpdatesProcessed
                   \/ EraseFinished \/ FinishedErased \/ UpdateGames
                   \/ (\E s \in Sessions : BeginCompletion(s) \/ CompleteEnded(s))
                   \/ EndTick
    PROVE  TypeOK'
<1>1. CASE SwapUpdates \/ UpdatesProcessed \/ FinishedErased \/ EndTick
  BY <1>1 DEF SwapUpdates, UpdatesProcessed, FinishedErased, EndTick, TypeOK,
     Service!TypeOK
<1>2. CASE ProcessUpdate
  <2> DEFINE id == Head(batch).id
  <2>1. Head(batch) \in Updates /\ batch' \in Seq(Updates)
    BY <1>2, TailFacts DEF ProcessUpdate, TypeOK
  <2>2. id \in Ids
    BY <2>1 DEF Updates
  <2>3. /\ id.session \in Sessions
        /\ id.session \in DOMAIN games => Connected(id) \in Games /\ Disconnected(id) \in Games
        /\ Created(id) \in Games
    BY <2>2, UpdateType DEF TypeOK
  <2>4. games' \in Games
    BY <1>2, <2>3 DEF ProcessUpdate, AddGame, TypeOK
  <2>5. gameCount' \in 0..CountMod - 1 /\ outLists' \in SUBSET Sessions
    BY <1>2, <2>3 DEF ProcessUpdate, AddGame, TypeOK
  <2>6. Service!TypeOK'
    BY <1>2, <2>3, CompleteType DEF ProcessUpdate, TypeOK, Service!TypeOK
  <2>7. completing' \in SUBSET Sessions
    BY <1>2 DEF ProcessUpdate, AddGame, CompleteSession, TypeOK
  <2> QED
    BY <1>2, <2>1, <2>4, <2>5, <2>6, <2>7 DEF ProcessUpdate, TypeOK
<1>3. CASE EraseFinished
  <2>1. finished' \in Seq(Sessions)
    BY <1>3, TailFacts DEF EraseFinished, TypeOK
  <2>2. games' \in Games
    <3>1. /\ DOMAIN games \subseteq Sessions
          /\ games \in [DOMAIN games -> [connected : SUBSET Players, done : BOOLEAN]]
      BY GamesElim DEF TypeOK
    <3> DEFINE D == DOMAIN games \ {Head(finished)}
    <3>2. games' \in [D -> [connected : SUBSET Players, done : BOOLEAN]]
      BY <1>3, <3>1 DEF EraseFinished, EraseGame, Restrict
    <3> QED
      BY <3>1, <3>2, GamesType
  <2>3. gameCount' \in 0..CountMod - 1
    BY <1>3 DEF EraseFinished, EraseGame, TypeOK
  <2> QED
    BY <1>3, <2>1, <2>2, <2>3 DEF EraseFinished, EraseGame, TypeOK, Service!TypeOK
<1>4. CASE UpdateGames
  <2>1. /\ DOMAIN games \subseteq Sessions
        /\ games \in [DOMAIN games -> [connected : SUBSET Players, done : BOOLEAN]]
    BY GamesElim DEF TypeOK
  <2>2. games' \in [DOMAIN games -> [connected : SUBSET Players, done : BOOLEAN]]
    <3>1. PICK over \in SUBSET DOMAIN games :
             games' = [s \in DOMAIN games |-> [games[s] EXCEPT !.done = @ \/ s \in over]]
      BY <1>4 DEF UpdateGames
    <3>2. ASSUME NEW s \in DOMAIN games
          PROVE  games'[s] \in [connected : SUBSET Players, done : BOOLEAN]
      <4>1. games'[s] = [games[s] EXCEPT !.done = games[s].done \/ s \in over]
        BY <3>1
      <4>2. (games[s].done \/ s \in over) \in BOOLEAN
        BY Zenon
      <4>3. \A d \in BOOLEAN : [games[s] EXCEPT !.done = d]
                                \in [connected : SUBSET Players, done : BOOLEAN]
        BY <2>1
      <4> QED
        BY <4>1, <4>2, <4>3
    <3>3. games' = [s \in DOMAIN games |-> games'[s]]
      BY <3>1
    <3> QED
      BY <3>2, <3>3
  <2>3. games' \in Games
    BY <2>1, <2>2, GamesType
  <2>4. ended' \in SUBSET Sessions
    BY <1>4, <2>1 DEF UpdateGames
  <2> QED
    BY <1>4, <2>3, <2>4 DEF UpdateGames, TypeOK, Service!TypeOK
<1>5. ASSUME NEW s \in Sessions, CompleteEnded(s)
      PROVE  TypeOK'
  <2>1. finished' \in Seq(Sessions)
    BY <1>5, AppendFacts DEF CompleteEnded, Noted, TypeOK
  <2>2. Service!TypeOK'
    BY <1>5, CompleteType DEF CompleteEnded, TypeOK
  <2> QED
    BY <1>5, <2>1, <2>2 DEF CompleteEnded, CompleteSession, TypeOK
<1>6. ASSUME NEW s \in Sessions, BeginCompletion(s)
      PROVE  TypeOK'
  BY <1>6 DEF BeginCompletion, TypeOK, Service!TypeOK
<1> QED
  BY <1>1, <1>2, <1>3, <1>4, <1>5, <1>6

\* So does stopping and starting again.
LEMMA StopType ==
    ASSUME TypeOK, StopServer \/ Stopping \/ Restart
    PROVE  TypeOK'
<1>e. <<>> \in Seq(Updates)
  BY EmptyFacts
<1>s. Service!TypeOK'
  BY DEF StopServer, Stopping, StopLock, StopService, StopNotify, StopGames, StopMessages,
         StopUpdates, StopCount, Restart, TypeOK, Service!TypeOK, Service!Kept
<1>1. CASE StopServer \/ Restart
  <2>1. CASE StopServer
    <3>1. stop' \in [pc : {"lock"}, calls : 0..MaxStops]
      BY <2>1 DEF StopServer, TypeOK
    <3> QED
      BY <1>s, <2>1, <3>1 DEF StopServer, TypeOK
  <2>2. CASE Restart
    <3>1. 0 \in 0..Workers /\ 0 \in 0..Timestep
      OBVIOUS
    <3> QED
      BY <1>s, <2>2, <3>1 DEF Restart, TypeOK
  <2> QED
    BY <1>1, <2>1, <2>2
<1>2. CASE StopLock \/ StopService
  BY <1>2 DEF StopLock, StopService, StopStep, TypeOK, Service!TypeOK, Service!Kept
<1>3. CASE StopNotify
  BY <1>3 DEF StopNotify, StopStep, NotifyLoop, TypeOK, Service!TypeOK
<1>4. CASE StopGames
  <2> QED
    BY <1>e, <1>4, NoGamesType DEF StopGames, StopStep, TypeOK, Service!TypeOK
<1>5. CASE StopMessages \/ StopUpdates
  BY <1>e, <1>s, <1>5 DEF StopMessages, StopUpdates, StopStep, TypeOK
<1>6. CASE StopCount
  <2>1. 0 \in 0..CountMod - 1
    OBVIOUS
  <2> QED
    BY <1>s, <1>6, <2>1 DEF StopCount, StopStep, TypeOK
<1> QED
  BY <1>1, <1>2, <1>3, <1>4, <1>5, <1>6 DEF Stopping

\* Every step keeps the types.
LEMMA TypeStep == TypeOK /\ [Next]_vars => TypeOK'
<1> SUFFICES ASSUME TypeOK, [Next]_vars PROVE TypeOK'
  OBVIOUS
<1>1. CASE \E id \in Tokens : PlayerConnect(id) \/ PlayerDisconnect(id) \/ ProcessMessage(id)
  BY <1>1, CallType, SessionsAssumption DEF Ids, Service!Ids
<1>2. CASE Forget
  BY <1>2 DEF Forget, Service!Forget, Service!Kept, TypeOK, Service!TypeOK
<1>3. CASE LoopStep \/ SpuriousWakeup
  BY <1>3, WaitingType, TickType DEF LoopStep
<1>4. CASE StopServer \/ Stopping \/ Restart
  BY <1>4, StopType
<1>5. CASE UNCHANGED vars
  BY <1>5 DEF vars, TypeOK, Service!TypeOK
<1> QED
  BY <1>1, <1>2, <1>3, <1>4, <1>5 DEF Next

\* The server is well typed, with any number of players, sessions and stops.
THEOREM Types == Spec => []TypeOK
BY InitType, TypeStep, PTL DEF Spec

------------------------------------------------------------------------------
\* What each step makes of the set of sessions that have a game.
LEMMA GameDomains ==
    /\ \A id \in Ids : /\ DOMAIN Connected(id) = DOMAIN games
                       /\ DOMAIN Disconnected(id) = DOMAIN games
                       /\ DOMAIN Created(id) = DOMAIN games \cup {id.session}
    /\ \A D : DOMAIN Restrict(games, D) = D
    /\ DOMAIN NoGames = {}
    /\ UpdateGames => DOMAIN games' = DOMAIN games
BY DEF Connected, Disconnected, Created, Restrict, NoGames, UpdateGames

\* The steps that leave the games as they are.
LEMMA OtherSteps ==
    ASSUME [Next]_vars
    PROVE  \/ ProcessUpdate \/ EraseFinished \/ UpdateGames \/ StopGames
           \/ UNCHANGED <<games, outLists>>
BY DEF Next, vars, LoopStep, Stopping, PlayerConnect, PlayerDisconnect,
       ProcessMessage, Forget, CheckRunning, LockGames, LookForUpdates,
       SpuriousWakeup, ReturnFromWait, SwapUpdates, UpdatesProcessed,
       FinishedErased, BeginCompletion, CompleteEnded, EndTick, StopServer,
       StopLock, StopService,
       StopNotify, StopMessages, StopUpdates, StopCount, Restart

\* update_games never calls m_out_messages.at for a session that is not there,
\* whatever stop does: the two maps have the same keys.
THEOREM OutListsFound == Spec => []EachGameHasOutList
<1>1. Init => EachGameHasOutList
  BY GameDomains DEF Init, EachGameHasOutList
<1>2. TypeOK /\ EachGameHasOutList /\ [Next]_vars => EachGameHasOutList'
  <2> SUFFICES ASSUME TypeOK, EachGameHasOutList, [Next]_vars
               PROVE  EachGameHasOutList'
    OBVIOUS
  <2>1. CASE ProcessUpdate
    <3>1. batch \in Seq(Updates) /\ batch # <<>>
      BY <2>1 DEF ProcessUpdate, TypeOK
    <3>2. Head(batch) \in Updates
      BY <3>1, TailFacts
    <3>3. Head(batch).id \in Ids
      BY <3>2 DEF Updates
    <3> QED
      BY <2>1, <3>3, GameDomains DEF ProcessUpdate, AddGame, EachGameHasOutList
  <2>2. CASE EraseFinished
    BY <2>2, GameDomains DEF EraseFinished, EraseGame, EachGameHasOutList
  <2>3. CASE UpdateGames
    BY <2>3, GameDomains DEF UpdateGames, EachGameHasOutList
  <2>4. CASE StopGames
    BY <2>4, GameDomains DEF StopGames, EachGameHasOutList
  <2>5. CASE UNCHANGED <<games, outLists>>
    BY <2>5 DEF EachGameHasOutList
  <2> QED
    BY <2>1, <2>2, <2>3, <2>4, <2>5, OtherSteps
<1> QED
  BY <1>1, <1>2, Types, PTL DEF Spec

------------------------------------------------------------------------------
\* A list without repetitions loses its head, and gains a new element.
LEMMA UniqueTail ==
    ASSUME NEW S, NEW q \in Seq(S), q # <<>>,
           \A i, j \in DOMAIN q : q[i] = q[j] => i = j
    PROVE  /\ Head(q) \notin Range(Tail(q))
           /\ \A i, j \in DOMAIN Tail(q) : Tail(q)[i] = Tail(q)[j] => i = j
<1>1. /\ Len(q) \in Nat \ {0} /\ Head(q) = q[1]
      /\ DOMAIN q = 1..Len(q) /\ DOMAIN Tail(q) = 1..(Len(q) - 1)
      /\ \A i \in 1..(Len(q) - 1) : Tail(q)[i] = q[i + 1]
  OBVIOUS
<1>2. \A i \in DOMAIN Tail(q) : i + 1 \in DOMAIN q /\ Tail(q)[i] = q[i + 1] /\ i + 1 # 1
  BY <1>1
<1>3. Head(q) \notin Range(Tail(q))
  BY <1>1, <1>2 DEF Range
<1>4. ASSUME NEW i \in DOMAIN Tail(q), NEW j \in DOMAIN Tail(q), Tail(q)[i] = Tail(q)[j]
      PROVE  i = j
  <2>1. i + 1 = j + 1
    BY <1>2, <1>4
  <2> QED
    BY <1>1, <2>1
<1> QED
  BY <1>3, <1>4

\* A list without repetitions gets a new element.
LEMMA UniqueAppend ==
    ASSUME NEW S, NEW q \in Seq(S), NEW x \in S, x \notin Range(q),
           \A i, j \in DOMAIN q : q[i] = q[j] => i = j
    PROVE  \A i, j \in DOMAIN Append(q, x) : Append(q, x)[i] = Append(q, x)[j] => i = j
<1>1. /\ Len(q) \in Nat
      /\ DOMAIN Append(q, x) = 1..(Len(q) + 1) /\ DOMAIN q = 1..Len(q)
      /\ \A i \in 1..Len(q) : Append(q, x)[i] = q[i]
      /\ Append(q, x)[Len(q) + 1] = x
  OBVIOUS
<1>2. \A i \in 1..Len(q) : q[i] # x
  BY <1>1 DEF Range
<1> QED
  BY <1>1, <1>2

\* What the invariant says of a server that was not stopped.
Listed == \A s \in DOMAIN games : archive[s] # NoResult <=> s \in Range(finished)

Orderly ==
    /\ running /\ stop.pc = "idle"
    /\ Listed
    /\ FinishedOnce
    /\ EndedUncompleted
    /\ LoginsFindGame

\* GamesInv speaks of a server that was never stopped.
LEMMA OrderlyGames == GamesInv <=> (NeverStopped => Orderly)
BY DEF GamesInv, CompletedGamesListed, Listed, Orderly

\* complete_session gives a result to the session that has none.
LEMMA Completing ==
    ASSUME TypeOK, NEW s \in Sessions, CompleteSession(s)
    PROVE  /\ archive'[s] # NoResult
           /\ \A t \in Sessions \ {s} : archive'[t] = archive[t]
           /\ DOMAIN archive' = Sessions
BY SessionsAssumption DEF TypeOK, Service!TypeOK, CompleteSession, Service!Complete

\* The workers: a login gets in only while its session is not archived.
LEMMA CallOrderly ==
    ASSUME TypeOK, Orderly, NEW id \in Tokens,
           PlayerConnect(id) \/ PlayerDisconnect(id) \/ ProcessMessage(id)
    PROVE  Orderly'
<1> DEFINE login == [id |-> id, disconnection |-> FALSE]
<1> DEFINE leaving == [id |-> id, disconnection |-> TRUE]
<1>1. id \in Ids /\ id.session \in Sessions
  BY SessionsAssumption DEF Ids, Service!Ids
<1>2. login \in Updates /\ leaving \in Updates
  BY <1>1 DEF Updates
<1>3. CASE PlayerConnect(id)
  <2>1. archive[id.session] = NoResult /\ UNCHANGED <<archive, running, stop, games, batch, finished, ended>>
    BY <1>3 DEF PlayerConnect, Service!Open
  <2>2. updates \in Seq(Updates) /\ updates' = Append(updates, login)
    BY <1>3 DEF PlayerConnect, TypeOK
  <2>3. LoginsIn(updates') = LoginsIn(updates) \cup {id.session}
    BY <1>2, <2>2, AppendLogins
  <2>4. id.session \notin Range(finished)
    BY <2>1 DEF Orderly, Listed, FinishedOnce
  <2>5. \/ loop' = loop
        \/ loop = "wait" /\ loop' = "woken"
    BY <1>3 DEF PlayerConnect, NotifyLoop
  <2>6. LoginsFindGame'
    BY <2>1, <2>3, <2>4, <2>5 DEF Orderly, LoginsFindGame, LoginsIn
  <2> QED
    BY <2>1, <2>5, <2>6 DEF Orderly, Listed, FinishedOnce, EndedUncompleted
<1>4. CASE PlayerDisconnect(id)
  <2>1. UNCHANGED <<archive, running, stop, games, batch, finished, ended, loop>>
    BY <1>4 DEF PlayerDisconnect, Service!Close
  <2>2. updates \in Seq(Updates) /\ updates' = Append(updates, leaving)
    BY <1>4 DEF PlayerDisconnect, TypeOK
  <2>3. LoginsIn(updates') = LoginsIn(updates)
    BY <1>2, <2>2, AppendLogins
  <2>4. LoginsFindGame'
    BY <2>1, <2>3 DEF Orderly, LoginsFindGame, LoginsIn
  <2> QED
    BY <2>1, <2>4 DEF Orderly, Listed, FinishedOnce, EndedUncompleted
<1>5. CASE ProcessMessage(id)
  BY <1>5 DEF ProcessMessage, Orderly, Listed, FinishedOnce, EndedUncompleted,
     LoginsFindGame, LoginsIn
<1> QED
  BY <1>3, <1>4, <1>5

\* A result is forgotten only after its session's game was erased.
LEMMA ForgetOrderly == ASSUME TypeOK, Orderly, Forget PROVE Orderly'
<1>1. \A s \in Sessions : archive'[s] = archive[s] \/ (s \notin DOMAIN games /\ archive'[s] = NoResult)
  BY DEF Forget, Service!Forget, Service!Kept, TypeOK, Service!TypeOK
<1>2. DOMAIN games \subseteq Sessions
  BY GamesElim DEF TypeOK
<1>3. UNCHANGED <<running, stop, games, batch, updates, finished, ended, loop>>
  BY DEF Forget
<1>4. Listed'
  BY <1>1, <1>2, <1>3 DEF Orderly, Listed
<1>5. LoginsFindGame'
  BY <1>1, <1>3, SessionsAssumption DEF Orderly, LoginsFindGame, LoginsIn
<1> QED
  BY <1>3, <1>4, <1>5 DEF Orderly, FinishedOnce, EndedUncompleted

\* Waiting for a time-step changes no list.
LEMMA WaitingOrderly ==
    ASSUME TypeOK, Orderly,
           \/ CheckRunning \/ LockGames \/ LookForUpdates \/ ReturnFromWait
           \/ SpuriousWakeup
    PROVE  Orderly'
<1>1. /\ UNCHANGED <<archive, running, stop, games, batch, updates, finished, ended>>
      /\ loop \in {"check", "lock", "look", "wait", "woken", "relook"}
      /\ loop' \in {"check", "lock", "look", "wait", "woken", "relook", "swap"}
  BY DEF CheckRunning, LockGames, LookForUpdates, ReturnFromWait, SpuriousWakeup,
     SleepOrTick, Orderly
<1> QED
  BY <1>1 DEF Orderly, Listed, FinishedOnce, EndedUncompleted, LoginsFindGame, LoginsIn

\* No update is left, or all those that came are taken at once.
LEMMA BetweenOrderly ==
    ASSUME TypeOK, Orderly,
           SwapUpdates \/ UpdatesProcessed \/ FinishedErased \/ EndTick
    PROVE  Orderly'
<1>1. UNCHANGED <<archive, running, stop, games, finished, ended>>
  BY DEF SwapUpdates, UpdatesProcessed, FinishedErased, EndTick
<1>2. Listed'
  BY <1>1 DEF Orderly, Listed
<1>3. CASE SwapUpdates
  <2>1. LoginsIn(updates') = {}
    BY <1>3 DEF SwapUpdates, Orderly, LoginsFindGame, LoginsIn
  <2>2. LoginsIn(batch') = LoginsIn(updates) /\ loop = "swap" /\ loop' = "apply"
    BY <1>3 DEF SwapUpdates
  <2>3. LoginsFindGame'
    BY <1>1, <2>1, <2>2 DEF Orderly, LoginsFindGame
  <2> QED
    BY <1>1, <1>2, <2>2, <2>3 DEF Orderly, FinishedOnce, EndedUncompleted
<1>4. CASE UpdatesProcessed \/ FinishedErased \/ EndTick
  <2>1. /\ UNCHANGED <<batch, updates>>
        /\ (loop = "apply" /\ loop' = "erase") \/ loop' \notin {"apply", "erase", "report"}
        /\ loop' # "apply" => batch = <<>>
        /\ loop' = "update" => finished = <<>>
        /\ loop' # "report" => ended = {}
    BY <1>4 DEF UpdatesProcessed, FinishedErased, EndTick, Orderly, LoginsFindGame,
       EndedUncompleted
  <2>2. LoginsFindGame'
    BY <1>1, <2>1 DEF Orderly, LoginsFindGame, LoginsIn
  <2> QED
    BY <1>1, <1>2, <2>1, <2>2 DEF Orderly, FinishedOnce, EndedUncompleted
<1> QED
  BY <1>3, <1>4

\* A login makes a game only of a session that is not archived: had it been
\* completed since the login, its game would still be there.
LEMMA UpdateOrderly == ASSUME TypeOK, Orderly, ProcessUpdate PROVE Orderly'
<1> DEFINE update == Head(batch)
<1> DEFINE s == update.id.session
<1>1. /\ loop = "apply" /\ ended = {}
      /\ batch \in Seq(Updates) /\ batch # <<>> /\ batch' = Tail(batch)
      /\ UNCHANGED <<running, stop, updates, finished, ended, loop>>
  BY DEF ProcessUpdate, TypeOK, Orderly, EndedUncompleted
<1>2. update \in Updates
  BY <1>1, TailFacts
<1>3. update.id \in Ids /\ s \in Sessions
  BY <1>2 DEF Updates, Ids, Service!Ids
<1>4. /\ LoginsIn(batch') \subseteq LoginsIn(batch)
      /\ ~update.disconnection => s \in LoginsIn(batch)
  BY <1>1, TailLogins
<1>5. CASE DOMAIN games' = DOMAIN games /\ archive' = archive
  <2>1. LoginsFindGame'
    BY <1>1, <1>4, <1>5 DEF Orderly, LoginsFindGame
  <2> QED
    BY <1>1, <1>5, <2>1 DEF Orderly, Listed, FinishedOnce, EndedUncompleted
<1>6. CASE s \notin DOMAIN games /\ ~update.disconnection /\ s \in ValidSessions
           /\ AddGame(update.id) /\ archive' = archive
  <2>1. DOMAIN games' = DOMAIN games \cup {s}
    BY <1>3, <1>6, GameDomains DEF AddGame
  <2>2. archive[s] = NoResult
    BY <1>4, <1>6 DEF Orderly, LoginsFindGame
  <2>3. s \notin Range(finished)
    BY <1>6 DEF Orderly, FinishedOnce
  <2>4. LoginsFindGame'
    BY <1>1, <1>4, <1>6, <2>1 DEF Orderly, LoginsFindGame
  <2> QED
    BY <1>1, <1>6, <2>1, <2>2, <2>3, <2>4
    DEF Orderly, Listed, FinishedOnce, EndedUncompleted
<1>7. CASE s \notin DOMAIN games /\ s \notin ValidSessions
           /\ CompleteSession(s) /\ games' = games
  <2>1. \A t \in Sessions \ {s} : archive'[t] = archive[t]
    BY <1>3, <1>7, Completing
  <2>2. DOMAIN games \subseteq Sessions
    BY GamesElim DEF TypeOK
  <2>3. LoginsFindGame'
    BY <1>1, <1>4, <1>7, <2>1, SessionsAssumption DEF Orderly, LoginsFindGame
  <2> QED
    BY <1>1, <1>7, <2>1, <2>2, <2>3
    DEF Orderly, Listed, FinishedOnce, EndedUncompleted
<1> QED
  <2>1. DOMAIN Connected(update.id) = DOMAIN games /\ DOMAIN Disconnected(update.id) = DOMAIN games
    BY <1>3, GameDomains
  <2> QED
    BY <1>5, <1>6, <1>7, <2>1 DEF ProcessUpdate, Refused, gameSet

\* No login of the next batch is for a session whose game is erased.
LEMMA EraseOrderly == ASSUME TypeOK, Orderly, EraseFinished PROVE Orderly'
<1> DEFINE s == Head(finished)
<1>1. /\ loop = "erase" /\ ended = {} /\ batch = <<>>
      /\ finished \in Seq(Sessions) /\ finished # <<>> /\ finished' = Tail(finished)
      /\ UNCHANGED <<archive, running, stop, updates, batch, ended, loop>>
  BY DEF EraseFinished, TypeOK, Orderly, EndedUncompleted, LoginsFindGame
<1>2. s \in Range(finished) /\ Range(finished) = {s} \cup Range(finished')
  BY <1>1, TailFacts
<1>3. /\ s \notin Range(finished')
      /\ \A i, j \in DOMAIN finished' : finished'[i] = finished'[j] => i = j
  BY <1>1, UniqueTail DEF Orderly, FinishedOnce
<1>4. DOMAIN games' = DOMAIN games \ {s}
  BY GameDomains DEF EraseFinished, EraseGame
<1>5. Listed'
  BY <1>1, <1>2, <1>4 DEF Orderly, Listed
<1>6. FinishedOnce'
  BY <1>1, <1>2, <1>3, <1>4 DEF Orderly, FinishedOnce
<1>7. LoginsFindGame'
  <2>1. LoginsIn(updates) \cap Range(finished) = {} /\ LoginsIn(batch) = {}
    BY <1>1 DEF Orderly, LoginsFindGame, LoginsIn
  <2> QED
    BY <1>1, <1>2, <1>4, <2>1 DEF Orderly, LoginsFindGame
<1> QED
  BY <1>1, <1>5, <1>6, <1>7 DEF Orderly, EndedUncompleted

\* When the games are updated none is listed, so that each that ends will be
\* listed once.
LEMMA GamesOrderly == ASSUME TypeOK, Orderly, UpdateGames PROVE Orderly'
<1>1. /\ loop = "update" /\ loop' = "report" /\ finished = <<>> /\ batch = <<>>
      /\ UNCHANGED <<archive, running, stop, updates, batch, finished>>
      /\ ended' \subseteq DOMAIN games
  BY DEF UpdateGames, Orderly, FinishedOnce, LoginsFindGame
<1>2. DOMAIN games' = DOMAIN games
  BY GameDomains
<1>3. Range(finished) = {}
  BY <1>1, EmptyFacts
<1> QED
  BY <1>1, <1>2, <1>3 DEF Orderly, Listed, FinishedOnce, EndedUncompleted, LoginsFindGame

\* The session of a game that ended is completed and listed.
LEMMA EndOrderly ==
    ASSUME TypeOK, Orderly, NEW s \in Sessions, CompleteEnded(s)
    PROVE  Orderly'
<1>1. /\ loop = "report" /\ s \in ended /\ batch = <<>>
      /\ finished \in Seq(Sessions) /\ finished' = Append(finished, s)
      /\ ended' = ended \ {s}
      /\ UNCHANGED <<running, stop, games, updates, batch, loop>>
  BY DEF CompleteEnded, Noted, TypeOK, Orderly, LoginsFindGame
<1>2. s \in DOMAIN games \ Range(finished)
  BY <1>1 DEF Orderly, EndedUncompleted
<1>3. Range(finished') = Range(finished) \cup {s}
  BY <1>1, AppendFacts
<1>4. \A i, j \in DOMAIN finished' : finished'[i] = finished'[j] => i = j
  BY <1>1, <1>2, UniqueAppend DEF Orderly, FinishedOnce
<1>5. archive'[s] # NoResult /\ \A t \in Sessions \ {s} : archive'[t] = archive[t]
  BY Completing DEF CompleteEnded
<1>6. DOMAIN games \subseteq Sessions
  BY GamesElim DEF TypeOK
<1>7. Listed'
  BY <1>1, <1>3, <1>5, <1>6 DEF Orderly, Listed
<1>8. LoginsFindGame'
  BY <1>1, <1>2, <1>5, SessionsAssumption DEF Orderly, LoginsFindGame
<1> QED
  BY <1>1, <1>2, <1>3, <1>4, <1>7, <1>8 DEF Orderly, FinishedOnce, EndedUncompleted

\* Taking m_session_lock changes nothing that the invariant speaks of.
LEMMA BeginOrderly ==
    ASSUME Orderly, NEW s \in Sessions, BeginCompletion(s)
    PROVE  Orderly'
BY DEF BeginCompletion, Orderly, Listed, FinishedOnce, EndedUncompleted, LoginsFindGame,
       LoginsIn

\* Only a call of stop is counted as one.
LEMMA StopCalls ==
    ASSUME TypeOK, [Next]_vars, NeverStopped'
    PROVE  NeverStopped /\ ~StopServer
<1>1. stop' = stop \/ stop'.calls = stop.calls \/ StopServer
  BY DEF Next, vars, LoopStep, Stopping, PlayerConnect, PlayerDisconnect,
     ProcessMessage, Forget, CheckRunning, LockGames, LookForUpdates,
     SpuriousWakeup, ReturnFromWait, SwapUpdates, ProcessUpdate, UpdatesProcessed,
     EraseFinished, FinishedErased, UpdateGames, BeginCompletion, CompleteEnded,
     EndTick, StopLock, StopService,
     StopNotify, StopGames, StopMessages, StopUpdates, StopCount, StopStep, Restart,
     TypeOK
<1> QED
  BY <1>1 DEF StopServer, NeverStopped, TypeOK

\* Every step, as long as stop is not called.
LEMMA OrderlyStep == TypeOK /\ GamesInv /\ [Next]_vars => GamesInv'
<1> SUFFICES ASSUME TypeOK, GamesInv, [Next]_vars, NeverStopped'
             PROVE  Orderly'
  BY OrderlyGames DEF GamesInv, CompletedGamesListed, Listed, Orderly, NeverStopped
<1>1. ~StopServer /\ NeverStopped
  BY StopCalls
<1>2. Orderly
  BY <1>1, OrderlyGames
<1>3. ~Stopping /\ ~Restart
  BY <1>2 DEF Orderly, Stopping, StopLock, StopService, StopNotify, StopGames, StopMessages,
     StopUpdates, StopCount, StopStep, Restart
<1>4. CASE \E id \in Tokens : PlayerConnect(id) \/ PlayerDisconnect(id) \/ ProcessMessage(id)
  BY <1>2, <1>4, CallOrderly
<1>5. CASE LoopStep \/ SpuriousWakeup
  BY <1>2, <1>5, WaitingOrderly, BetweenOrderly, UpdateOrderly, EraseOrderly,
     GamesOrderly, BeginOrderly, EndOrderly DEF LoopStep
<1>6. CASE UNCHANGED vars
  BY <1>2, <1>6 DEF vars, Orderly, Listed, FinishedOnce, EndedUncompleted,
     LoginsFindGame, LoginsIn
<1> QED
  BY <1>1, <1>2, <1>3, <1>4, <1>5, <1>6, ForgetOrderly DEF Next

\* Until stop is called, the finished games are exactly those of the completed
\* sessions, and no login that waits can make a second game of one.
THEOREM GamesOrdered == Spec => []GamesInv
<1>1. Init => GamesInv
  BY EmptyFacts DEF Init, GamesInv, CompletedGamesListed, FinishedOnce,
     EndedUncompleted, LoginsFindGame, LoginsIn, NoGames
<1> QED
  BY <1>1, OrderlyStep, Types, PTL DEF Spec

\* A completed session has a game only until the next time-step.
THEOREM CompletedListed == Spec => []CompletedGamesListed
<1>1. GamesInv => CompletedGamesListed
  BY DEF GamesInv, CompletedGamesListed
<1> QED
  BY <1>1, GamesOrdered, PTL

------------------------------------------------------------------------------
\* Counting up and down in a std::size_t that is large enough.
LEMMA CountUp == \A n \in Nat : n + 1 < CountMod => (n + 1) % CountMod = n + 1
BY SMT

\* The count less one, in the width of a std::size_t.
LEMMA CountDown ==
    ASSUME NEW n \in Nat, n > 0, n < CountMod
    PROVE  (n + CountMod - 1) % CountMod = n - 1
BY SMT

\* The count is right as long as the number of sessions fits a std::size_t: a
\* game is counted when it is added, and erased once.
THEOREM GamesCounted ==
    ASSUME IsFiniteSet(Sessions), Cardinality(Sessions) < CountMod
    PROVE  Spec => []CountIsGames
<1>1. Init => CountIsGames
  <2>1. DOMAIN NoGames = {}
    BY DEF NoGames
  <2> QED
    BY <2>1, FS_EmptySet DEF Init, CountIsGames
<1>2. TypeOK /\ GamesInv /\ CountIsGames /\ [Next]_vars /\ GamesInv' => CountIsGames'
  <2> SUFFICES ASSUME TypeOK, GamesInv, CountIsGames, [Next]_vars, GamesInv', NeverStopped'
               PROVE  gameCount' = Cardinality(DOMAIN games')
    BY DEF CountIsGames
  <2>1. NeverStopped /\ stop'.pc = "idle" /\ stop.pc = "idle"
    <3>1. NeverStopped
      BY StopCalls
    <3> QED
      BY <3>1 DEF GamesInv, NeverStopped
  <2>2. gameCount = Cardinality(DOMAIN games) /\ IsFiniteSet(DOMAIN games)
        /\ DOMAIN games \subseteq Sessions
    <3>1. DOMAIN games \subseteq Sessions
      BY GamesElim DEF TypeOK
    <3> QED
      BY <2>1, <3>1, FS_Subset DEF CountIsGames
  <2>3. CASE ProcessUpdate
    <3> DEFINE id == Head(batch).id
    <3>1. batch \in Seq(Updates) /\ batch # <<>>
      BY <2>3 DEF ProcessUpdate, TypeOK
    <3>2. Head(batch) \in Updates
      BY <3>1, TailFacts
    <3>3. id \in Ids /\ id.session \in Sessions
      BY <3>2 DEF Updates, Ids, Service!Ids
    <3>4. CASE DOMAIN games' = DOMAIN games /\ gameCount' = gameCount
      BY <2>2, <3>4
    <3>5. CASE id.session \notin DOMAIN games /\ AddGame(id)
      <4>1. DOMAIN games' = DOMAIN games \cup {id.session}
        BY <3>3, <3>5, GameDomains DEF AddGame
      <4>2. Cardinality(DOMAIN games') = Cardinality(DOMAIN games) + 1
        BY <2>2, <3>5, <4>1, FS_AddElement
      <4>3. Cardinality(DOMAIN games') <= Cardinality(Sessions)
        BY <2>2, <3>3, <4>1, FS_Subset
      <4>4. Cardinality(DOMAIN games) \in Nat /\ Cardinality(Sessions) \in Nat
        BY <2>2, FS_CardinalityType
      <4>5. (gameCount + 1) % CountMod = gameCount + 1
        BY <2>2, <4>2, <4>3, <4>4, CountUp
      <4> QED
        BY <2>2, <3>5, <4>2, <4>5 DEF AddGame
    <3> QED
      <4>1. DOMAIN Connected(id) = DOMAIN games /\ DOMAIN Disconnected(id) = DOMAIN games
        BY <3>3, GameDomains
      <4> QED
        BY <2>3, <3>4, <3>5, <4>1 DEF ProcessUpdate, Refused
  <2>4. CASE EraseFinished
    <3> DEFINE s == Head(finished)
    <3>1. finished \in Seq(Sessions) /\ finished # <<>>
      BY <2>4 DEF EraseFinished, TypeOK
    <3>2. s \in DOMAIN games
      BY <2>1, <3>1, TailFacts DEF GamesInv, FinishedOnce
    <3>3. DOMAIN games' = DOMAIN games \ {s}
      BY <2>4, GameDomains DEF EraseFinished, EraseGame
    <3>4. Cardinality(DOMAIN games') = Cardinality(DOMAIN games) - 1
      BY <2>2, <3>2, <3>3, FS_RemoveElement
    <3>5. Cardinality(DOMAIN games) \in Nat /\ Cardinality(DOMAIN games) # 0
      BY <2>2, <3>2, FS_CardinalityType, FS_EmptySet
    <3>6. gameCount < CountMod
      BY DEF TypeOK
    <3>7. (gameCount + CountMod - 1) % CountMod = gameCount - 1
      BY <2>2, <3>5, <3>6, CountDown
    <3> QED
      BY <2>2, <2>4, <3>4, <3>7 DEF EraseFinished, EraseGame
  <2>5. CASE UpdateGames
    BY <2>2, <2>5, GameDomains DEF UpdateGames
  <2>6. CASE UNCHANGED <<games, gameCount>>
    BY <2>2, <2>6
  <2> QED
    BY <2>1, <2>3, <2>4, <2>5, <2>6
    DEF Next, vars, LoopStep, Stopping, PlayerConnect, PlayerDisconnect,
        ProcessMessage, Forget, CheckRunning, LockGames, LookForUpdates,
        SpuriousWakeup, ReturnFromWait, SwapUpdates, UpdatesProcessed, FinishedErased,
        BeginCompletion, CompleteEnded, EndTick, StopServer, StopLock, StopService,
        StopNotify, StopGames,
        StopMessages, StopUpdates, StopCount, StopStep, Restart
<1> QED
  BY <1>1, <1>2, Types, GamesOrdered, PTL DEF Spec

------------------------------------------------------------------------------
\* What an update leaves of the games: none that was not over before is over.
LEMMA UpdateDone ==
    ASSUME TypeOK, ProcessUpdate
    PROVE  \A t \in DOMAIN games' : games'[t].done => t \in DOMAIN games /\ games[t].done
<1> DEFINE id == Head(batch).id
<1>1. batch \in Seq(Updates) /\ batch # <<>>
  BY DEF ProcessUpdate, TypeOK
<1>2. Head(batch) \in Updates
  BY <1>1, TailFacts
<1>3. id \in Ids
  BY <1>2 DEF Updates
<1>4. games \in [DOMAIN games -> [connected : SUBSET Players, done : BOOLEAN]]
  BY GamesElim DEF TypeOK
<1>5. \/ games' = games
      \/ id.session \in DOMAIN games /\ games' \in {Connected(id), Disconnected(id)}
      \/ games' = Created(id)
  BY DEF ProcessUpdate, AddGame, gameSet
<1>6. CASE games' = games
  BY <1>6
<1>7. CASE id.session \in DOMAIN games /\ games' \in {Connected(id), Disconnected(id)}
  <2>1. DOMAIN games' = DOMAIN games
    BY <1>3, <1>7, GameDomains
  <2>2. \A t \in DOMAIN games : games'[t].done = games[t].done
    BY <1>4, <1>7 DEF Connected, Disconnected
  <2> QED
    BY <2>1, <2>2
<1>8. CASE games' = Created(id)
  BY <1>4, <1>8 DEF Created
<1> QED
  BY <1>5, <1>6, <1>7, <1>8

\* A game that is over is in one of the lists until it is erased.
LEMMA DoneListedStep ==
    TypeOK /\ GamesInv /\ DoneListed /\ [Next]_vars => DoneListed'
<1> SUFFICES ASSUME TypeOK, GamesInv, DoneListed, [Next]_vars, NeverStopped',
                    NEW t \in DOMAIN games', games'[t].done
             PROVE  t \in Range(finished') \cup ended'
  BY DEF DoneListed
<1>1. NeverStopped /\ ~StopServer
  BY StopCalls
<1>2. /\ stop.pc = "idle" /\ running
      /\ \A s \in DOMAIN games : games[s].done => s \in Range(finished) \cup ended
  BY <1>1 DEF GamesInv, DoneListed
<1>3. ~Stopping /\ ~Restart
  BY <1>2 DEF Stopping, StopLock, StopService, StopNotify, StopGames, StopMessages,
     StopUpdates, StopCount, StopStep, Restart
<1>4. CASE ProcessUpdate
  <2>1. UNCHANGED <<finished, ended>>
    BY <1>4 DEF ProcessUpdate
  <2> QED
    BY <1>2, <1>4, <2>1, UpdateDone
<1>5. CASE EraseFinished
  <2>1. finished \in Seq(Sessions) /\ finished # <<>> /\ finished' = Tail(finished)
        /\ ended' = ended
    BY <1>5 DEF EraseFinished, TypeOK
  <2>2. Range(finished) = {Head(finished)} \cup Range(Tail(finished))
    BY <2>1, TailFacts
  <2>3. DOMAIN games' = DOMAIN games \ {Head(finished)} /\ games'[t] = games[t]
    BY <1>5, GameDomains DEF EraseFinished, EraseGame, Restrict
  <2> QED
    BY <1>2, <2>1, <2>2, <2>3
<1>6. CASE UpdateGames
  BY <1>6, GameDomains DEF UpdateGames
<1>7. ASSUME NEW s \in Sessions, CompleteEnded(s) PROVE t \in Range(finished') \cup ended'
  <2>1. /\ finished \in Seq(Sessions) /\ finished' = Append(finished, s)
        /\ ended' = ended \ {s} /\ games' = games
    BY <1>7 DEF CompleteEnded, Noted, TypeOK, gameSet
  <2>2. Range(finished') = Range(finished) \cup {s}
    BY <2>1, AppendFacts
  <2> QED
    BY <1>2, <2>1, <2>2
<1>8. CASE CheckRunning
  BY <1>2, <1>8 DEF CheckRunning
<1>9. CASE ReturnFromWait
  BY <1>2, <1>9 DEF ReturnFromWait
<1>10. CASE UNCHANGED <<games, finished, ended>>
  BY <1>2, <1>10
<1> QED
  BY <1>1, <1>3, <1>4, <1>5, <1>6, <1>7, <1>8, <1>9, <1>10
  DEF Next, vars, gameSet, LoopStep, PlayerConnect, PlayerDisconnect, Call,
      ProcessMessage, Forget, LockGames, LookForUpdates, SpuriousWakeup,
      SwapUpdates, UpdatesProcessed, FinishedErased, BeginCompletion, EndTick

\* update_games never updates a game that is over, whoever logs in to it while
\* its session is completed, for any number of players and sessions (:225-249).
THEOREM DoneNotUpdated == Spec => []DoneGamesNotUpdated
<1>1. Init => DoneListed
  BY DEF Init, DoneListed, NoGames
<1>2. GamesInv /\ DoneListed => DoneGamesNotUpdated
  <2> SUFFICES ASSUME GamesInv, DoneListed, NeverStopped, loop = "update",
                      NEW s \in DOMAIN games
               PROVE  ~games[s].done
    BY DEF DoneGamesNotUpdated
  <2>1. finished = <<>> /\ ended = {}
    BY DEF GamesInv, FinishedOnce, EndedUncompleted
  <2>2. Range(finished) = {}
    BY <2>1, EmptyFacts
  <2> QED
    BY <2>1, <2>2 DEF DoneListed
<1> QED
  BY <1>1, <1>2, DoneListedStep, Types, GamesOrdered, PTL DEF Spec

------------------------------------------------------------------------------
(* The logins and departures that wait, and who is in the games.           *)

\* The list has an update of the player, and the last one says whether the
\* player is there.
Has(q, id) == \E i \in DOMAIN q : q[i].id = id

LastSays(q, id, there) ==
    \E i \in DOMAIN q : /\ q[i].id = id
                        /\ \A j \in DOMAIN q : q[j].id = id => j <= i
                        /\ ~q[i].disconnection <=> there

\* A new update is the last of its player, and no other player's;
LEMMA AppendLast ==
    ASSUME NEW S, NEW q \in Seq(S), NEW x \in S, NEW id, NEW there
    PROVE  /\ x.id = id => /\ Has(Append(q, x), id)
                           /\ (~x.disconnection <=> there) => LastSays(Append(q, x), id, there)
           /\ x.id # id => /\ Has(Append(q, x), id) <=> Has(q, id)
                           /\ LastSays(q, id, there) => LastSays(Append(q, x), id, there)
<1> DEFINE r == Append(q, x)
           n == Len(q) + 1
<1>1. /\ Len(q) \in Nat /\ DOMAIN q = 1..Len(q) /\ DOMAIN r = 1..n /\ n \in DOMAIN r
      /\ \A i \in 1..Len(q) : r[i] = q[i]
      /\ r[n] = x
  OBVIOUS
<1>2. ASSUME x.id = id
      PROVE  Has(r, id) /\ ((~x.disconnection <=> there) => LastSays(r, id, there))
  <2>1. \A j \in DOMAIN r : j <= n
    BY <1>1
  <2> QED
    BY <1>1, <1>2, <2>1 DEF Has, LastSays
<1>3. ASSUME x.id # id
      PROVE  /\ Has(r, id) <=> Has(q, id)
             /\ LastSays(q, id, there) => LastSays(r, id, there)
  <2>1. \A j \in DOMAIN r : r[j].id = id => j \in DOMAIN q /\ r[j] = q[j]
    BY <1>1, <1>3
  <2>2. \A j \in DOMAIN q : j \in DOMAIN r /\ r[j] = q[j]
    BY <1>1
  <2> QED
    BY <2>1, <2>2 DEF Has, LastSays
<1> QED
  BY <1>2, <1>3

\* an update that is taken off the list was the last, or the last stays.
LEMMA TailLast ==
    ASSUME NEW S, NEW q \in Seq(S), q # <<>>, NEW id, NEW there
    PROVE  /\ Head(q).id # id => Has(Tail(q), id) = Has(q, id)
           /\ LastSays(q, id, there) /\ Has(Tail(q), id) => LastSays(Tail(q), id, there)
           /\ LastSays(q, id, there) /\ ~Has(Tail(q), id) =>
                 Head(q).id = id /\ (~Head(q).disconnection <=> there)
<1> DEFINE r == Tail(q)
<1>1. /\ Len(q) \in Nat \ {0} /\ DOMAIN q = 1..Len(q) /\ DOMAIN r = 1..(Len(q) - 1)
      /\ Head(q) = q[1]
      /\ \A i \in 1..(Len(q) - 1) : r[i] = q[i + 1]
  OBVIOUS
<1>2. \A i \in DOMAIN q : i # 1 => i - 1 \in DOMAIN r
  BY <1>1
<1>3. \A i \in DOMAIN q : i # 1 => r[i - 1] = q[i]
  <2> SUFFICES ASSUME NEW i \in DOMAIN q, i # 1 PROVE r[i - 1] = q[i]
    OBVIOUS
  <2>1. i - 1 \in 1..(Len(q) - 1) /\ (i - 1) + 1 = i
    BY <1>1
  <2> QED
    BY <1>1, <2>1
<1>4. \A i \in DOMAIN r : i + 1 \in DOMAIN q /\ i + 1 # 1 /\ r[i] = q[i + 1]
  BY <1>1
<1>5. Head(q).id # id => Has(r, id) = Has(q, id)
  BY <1>1, <1>2, <1>3, <1>4 DEF Has
<1>6. ASSUME LastSays(q, id, there)
      PROVE  /\ Has(r, id) => LastSays(r, id, there)
             /\ ~Has(r, id) => Head(q).id = id /\ (~Head(q).disconnection <=> there)
  <2>1. PICK i \in DOMAIN q : /\ q[i].id = id
                              /\ \A j \in DOMAIN q : q[j].id = id => j <= i
                              /\ ~q[i].disconnection <=> there
    BY <1>6 DEF LastSays
  <2>2. CASE i # 1
    <3>1. i - 1 \in DOMAIN r /\ r[i - 1] = q[i]
      BY <1>2, <1>3, <2>2
    <3>2. ASSUME NEW j \in DOMAIN r, r[j].id = id
          PROVE  j <= i - 1
      <4>1. j + 1 <= i
        BY <1>4, <2>1, <3>2
      <4> QED
        BY <1>1, <4>1
    <3> QED
      BY <2>1, <3>1, <3>2 DEF LastSays, Has
  <2>3. CASE i = 1
    <3>1. ~Has(r, id)
      <4>1. ASSUME NEW j \in DOMAIN r, r[j].id = id PROVE FALSE
        <5>1. j + 1 <= 1
          BY <1>4, <2>1, <2>3, <4>1
        <5> QED
          BY <1>1, <5>1
      <4> QED
        BY <4>1 DEF Has
    <3> QED
      BY <1>1, <2>1, <2>3, <3>1
  <2> QED
    BY <2>2, <2>3
<1> QED
  BY <1>5, <1>6

\* The two lists are one behind the other.
LEMMA TwoLists ==
    ASSUME NEW S, NEW q \in Seq(S), NEW r \in Seq(S)
    PROVE  /\ q \o r \in Seq(S)
           /\ q \o <<>> = q /\ <<>> \o r = r
           /\ \A x \in S : q \o Append(r, x) = Append(q \o r, x)
           /\ q # <<>> => q \o r # <<>> /\ Head(q \o r) = Head(q) /\ Tail(q \o r) = Tail(q) \o r
<1>1. q # <<>> => q \o r # <<>> /\ Head(q \o r) = Head(q) /\ Tail(q \o r) = Tail(q) \o r
  OBVIOUS
<1> QED
  BY <1>1

InGame(id) == id.session \in DOMAIN games /\ id.player \in games[id.session].connected

\* The last update that waits says whether its player is there, and without one
\* the game knows.
Foretold(id) ==
    /\ Has(Waiting, id) => LastSays(Waiting, id, id \in present)
    /\ ~Has(Waiting, id) /\ id.session \in ValidSessions /\ archive[id.session] = NoResult =>
          (InGame(id) <=> id \in present)

WillPlayInv == NeverStopped => \A id \in Tokens : Foretold(id)

\* The workers add an update for whom they announce.
LEMMA CallForetold ==
    ASSUME TypeOK, NEW other \in Tokens,
           PlayerConnect(other) \/ PlayerDisconnect(other) \/ ProcessMessage(other),
           NEW id \in Tokens, Foretold(id)
    PROVE  Foretold(id)'
<1>0. UNCHANGED <<archive, games>>
  BY DEF PlayerConnect, PlayerDisconnect, ProcessMessage, Service!Close
<1>1. CASE ProcessMessage(other)
  BY <1>0, <1>1 DEF ProcessMessage, Foretold, InGame, Waiting
<1>2. ASSUME NEW b \in BOOLEAN,
             updates' = Append(updates, [id |-> other, disconnection |-> b]), batch' = batch,
             present' = IF b THEN present \ {other} ELSE present \cup {other}
      PROVE  Foretold(id)'
  <2> DEFINE x == [id |-> other, disconnection |-> b]
  <2>1. x \in Updates /\ updates \in Seq(Updates) /\ batch \in Seq(Updates)
    BY SessionsAssumption DEF Updates, TypeOK, Ids, Service!Ids
  <2>2. Waiting' = Append(Waiting, x) /\ Waiting \in Seq(Updates)
    BY <1>2, <2>1, TwoLists DEF Waiting
  <2>3. CASE id = other
    <3>1. x.id = id /\ (~x.disconnection <=> id \in present')
      BY <1>2, <2>3
    <3>2. Has(Waiting', id) /\ LastSays(Waiting', id, id \in present')
      BY <2>1, <2>2, <3>1, AppendLast
    <3> QED
      BY <3>2 DEF Foretold
  <2>4. CASE id # other
    <3>1. id \in present' <=> id \in present
      BY <1>2, <2>4
    <3>2. /\ Has(Waiting', id) <=> Has(Waiting, id)
          /\ LastSays(Waiting, id, id \in present) => LastSays(Waiting', id, id \in present)
      BY <2>1, <2>2, <2>4, AppendLast
    <3>3. LastSays(Waiting', id, id \in present) => LastSays(Waiting', id, id \in present')
      BY <3>1 DEF LastSays
    <3>4. InGame(id)' <=> InGame(id)
      BY <1>0 DEF InGame
    <3> QED
      BY <1>0, <3>1, <3>2, <3>3, <3>4 DEF Foretold
  <2> QED
    BY <2>3, <2>4
<1>3. CASE PlayerConnect(other)
  BY <1>2, <1>3 DEF PlayerConnect, Service!Open
<1>4. CASE PlayerDisconnect(other)
  BY <1>2, <1>4 DEF PlayerDisconnect, Service!Close
<1> QED
  BY <1>1, <1>3, <1>4

\* When the loop takes an update the game learns of it.
LEMMA UpdateForetold ==
    ASSUME TypeOK, Orderly, ProcessUpdate, NEW id \in Tokens, Foretold(id)
    PROVE  Foretold(id)'
<1> DEFINE x == Head(batch)
           s == x.id.session
<1>1. /\ batch \in Seq(Updates) /\ batch # <<>> /\ batch' = Tail(batch)
      /\ updates \in Seq(Updates) /\ updates' = updates
      /\ present' = present
  BY DEF ProcessUpdate, TypeOK, CompleteSession, Service!Complete
<1>2. x \in Updates
  BY <1>1, TailFacts
<1>3. x.id \in Ids /\ s \in Sessions /\ id \in Ids /\ id.session \in Sessions
  BY <1>2, SessionsAssumption DEF Updates, Ids, Service!Ids
<1>4. /\ Waiting \in Seq(Updates) /\ Waiting # <<>> /\ Head(Waiting) = x
      /\ Waiting' = Tail(Waiting)
  BY <1>1, TwoLists DEF Waiting
<1>5. /\ x.id # id => Has(Waiting', id) = Has(Waiting, id)
      /\ LastSays(Waiting, id, id \in present) /\ Has(Waiting', id) =>
            LastSays(Waiting', id, id \in present)
      /\ LastSays(Waiting, id, id \in present) /\ ~Has(Waiting', id) =>
            x.id = id /\ (~x.disconnection <=> id \in present)
  <2>1. /\ Head(Waiting).id # id => Has(Tail(Waiting), id) = Has(Waiting, id)
        /\ LastSays(Waiting, id, id \in present) /\ Has(Tail(Waiting), id) =>
              LastSays(Tail(Waiting), id, id \in present)
        /\ LastSays(Waiting, id, id \in present) /\ ~Has(Tail(Waiting), id) =>
              Head(Waiting).id = id /\ (~Head(Waiting).disconnection <=> id \in present)
    BY <1>4, TailLast
  <2> QED
    BY <1>4, <2>1
<1>6. Has(Waiting', id) => Has(Waiting, id)
  <2>1. CASE x.id # id
    BY <1>5, <2>1
  <2>2. CASE x.id = id
    BY <1>4, <2>2 DEF Has
  <2> QED
    BY <2>1, <2>2
<1>7. Has(Waiting', id) => LastSays(Waiting', id, id \in present')
  BY <1>1, <1>5, <1>6 DEF Foretold
<1>8. ASSUME ~Has(Waiting', id), id.session \in ValidSessions, archive'[id.session] = NoResult
      PROVE  InGame(id)' <=> id \in present'
  <2>1. archive[id.session] = NoResult
    BY <1>3, <1>8, Completing DEF ProcessUpdate
  <2>2. games \in [DOMAIN games -> [connected : SUBSET Players, done : BOOLEAN]]
    BY GamesElim DEF TypeOK
  <2>3. CASE x.id # id
    <3>1. InGame(id) <=> id \in present
      BY <1>5, <1>8, <2>1, <2>3 DEF Foretold
    <3>2. s = id.session => x.id.player # id.player
      BY <1>3, <2>3 DEF Ids, Service!Ids
    <3>3. CASE s \in DOMAIN games /\ games' = Connected(x.id)
      BY <1>1, <2>2, <3>1, <3>2, <3>3 DEF Connected, InGame
    <3>4. CASE s \in DOMAIN games /\ games' = Disconnected(x.id)
      BY <1>1, <2>2, <3>1, <3>2, <3>4 DEF Disconnected, InGame
    <3>5. CASE s \notin DOMAIN games /\ games' = Created(x.id)
      BY <1>1, <2>2, <3>1, <3>2, <3>5 DEF Created, InGame
    <3>6. CASE games' = games
      BY <1>1, <3>1, <3>6 DEF InGame
    <3> QED
      BY <3>3, <3>4, <3>5, <3>6 DEF ProcessUpdate, AddGame, gameSet
  <2>4. CASE x.id = id
    <3>1. Has(Waiting, id)
      BY <1>4, <2>4 DEF Has
    <3>2. ~x.disconnection <=> id \in present
      BY <1>5, <1>8, <3>1 DEF Foretold
    <3>3. CASE s \in DOMAIN games /\ games' = Connected(x.id) /\ ~x.disconnection
      BY <1>1, <2>2, <2>4, <3>2, <3>3 DEF Connected, InGame
    <3>4. CASE s \in DOMAIN games /\ games' = Disconnected(x.id) /\ x.disconnection
      BY <1>1, <2>2, <2>4, <3>2, <3>4 DEF Disconnected, InGame
    <3>5. CASE s \notin DOMAIN games /\ games' = games /\ x.disconnection
      BY <1>1, <2>4, <3>2, <3>5 DEF InGame
    <3>6. CASE s \notin DOMAIN games /\ games' = Created(x.id) /\ ~x.disconnection
      BY <1>1, <2>4, <3>2, <3>6 DEF Created, InGame
    <3> QED
      BY <1>8, <2>4, <3>3, <3>4, <3>5, <3>6 DEF ProcessUpdate, Refused, AddGame, gameSet
  <2> QED
    BY <2>3, <2>4
<1> QED
  BY <1>7, <1>8 DEF Foretold

\* Only completed sessions lose their game.
LEMMA EraseForetold ==
    ASSUME TypeOK, Orderly, EraseFinished, NEW id \in Tokens, Foretold(id)
    PROVE  Foretold(id)'
<1> DEFINE s == Head(finished)
<1>1. /\ finished \in Seq(Sessions) /\ finished # <<>>
      /\ UNCHANGED <<archive, present, updates, batch>>
  BY DEF EraseFinished, TypeOK
<1>2. s \in Range(finished)
  BY <1>1, TailFacts
<1>3. archive[s] # NoResult
  BY <1>2 DEF Orderly, Listed, FinishedOnce
<1>4. /\ DOMAIN games' = DOMAIN games \ {s}
      /\ \A t \in DOMAIN games' : games'[t] = games[t]
  BY DEF EraseFinished, EraseGame, Restrict
<1>5. id.session # s => (InGame(id)' <=> InGame(id))
  BY <1>4 DEF InGame
<1> QED
  BY <1>1, <1>3, <1>5 DEF Foretold, Waiting

\* No other step changes who plays, or who will.
LEMMA ForetoldStep ==
    TypeOK /\ GamesInv /\ WillPlayInv /\ [Next]_vars => WillPlayInv'
<1> SUFFICES ASSUME TypeOK, GamesInv, WillPlayInv, [Next]_vars, NeverStopped',
                    NEW id \in Tokens
             PROVE  Foretold(id)'
  BY DEF WillPlayInv
<1>1. NeverStopped /\ ~StopServer
  BY StopCalls
<1>2. Orderly /\ Foretold(id)
  BY <1>1, OrderlyGames DEF WillPlayInv
<1>3. ~Stopping /\ ~Restart
  BY <1>2 DEF Orderly, Stopping, StopLock, StopService, StopNotify, StopGames, StopMessages,
     StopUpdates, StopCount, StopStep, Restart
<1>4. CASE \E other \in Tokens : \/ PlayerConnect(other) \/ PlayerDisconnect(other)
                                 \/ ProcessMessage(other)
  BY <1>2, <1>4, CallForetold
<1>5. CASE Forget
  <2>1. id.session \in Sessions /\ id.session \in ValidSessions => id.session \in Sessions
    BY SessionsAssumption
  <2>2. \/ archive'[id.session] = archive[id.session]
        \/ id.session \notin DOMAIN games /\ id \notin present
    BY <1>5, <2>1, SessionsAssumption DEF Forget
  <2>3. UNCHANGED <<present, games, updates, batch>>
    BY <1>5 DEF Forget, Service!Forget
  <2> QED
    BY <1>2, <2>2, <2>3 DEF Foretold, InGame, Waiting
<1>6. CASE SwapUpdates
  <2>1. batch = <<>> /\ updates \in Seq(Updates)
    BY <1>2, <1>6 DEF SwapUpdates, Orderly, LoginsFindGame, TypeOK
  <2>2. Waiting' = Waiting
    BY <1>6, <2>1, TwoLists DEF SwapUpdates, Waiting
  <2>3. UNCHANGED <<present, archive, games>>
    BY <1>6 DEF SwapUpdates
  <2> QED
    BY <1>2, <2>2, <2>3 DEF Foretold, InGame
<1>7. CASE UpdateGames
  <2>1. UNCHANGED <<present, archive, updates, batch>>
    BY <1>7 DEF UpdateGames
  <2>2. games \in [DOMAIN games -> [connected : SUBSET Players, done : BOOLEAN]]
    BY GamesElim DEF TypeOK
  <2>3. PICK over \in SUBSET DOMAIN games :
           games' = [t \in DOMAIN games |-> [games[t] EXCEPT !.done = @ \/ t \in over]]
    BY <1>7 DEF UpdateGames
  <2>4. /\ DOMAIN games' = DOMAIN games
        /\ \A t \in DOMAIN games : games'[t].connected = games[t].connected
    BY <2>2, <2>3
  <2>5. InGame(id)' <=> InGame(id)
    BY <2>4 DEF InGame
  <2> QED
    BY <1>2, <2>1, <2>5 DEF Foretold, Waiting
<1>8. ASSUME NEW s \in Sessions, CompleteEnded(s)
      PROVE  Foretold(id)'
  <2>1. UNCHANGED <<present, updates, batch, games>>
    BY <1>8 DEF CompleteEnded, CompleteSession, Service!Complete
  <2>2. archive'[id.session] = NoResult => archive[id.session] = NoResult
    <3>1. id.session \in Sessions
      BY SessionsAssumption
    <3> QED
      BY <1>8, <3>1, Completing DEF CompleteEnded
  <2> QED
    BY <1>2, <2>1, <2>2 DEF Foretold, InGame, Waiting
<1>9. CASE UNCHANGED <<present, archive, updates, batch, games>>
  BY <1>2, <1>9 DEF Foretold, InGame, Waiting
<1> QED
  BY <1>1, <1>2, <1>3, <1>4, <1>5, <1>6, <1>7, <1>8, <1>9, UpdateForetold, EraseForetold
  DEF Next, vars, LoopStep, CheckRunning, LockGames, LookForUpdates, SpuriousWakeup,
      ReturnFromWait, UpdatesProcessed, FinishedErased, BeginCompletion, EndTick

\* Until stop is called, and for any number of players, sessions and updates that
\* wait: the logins and departures that the base_server announced reach the game
\* in their order, and once the list is empty the game is right (:272-318).
THEOREM PresentPlay == Spec => []PresentWillPlay
<1>1. Init => WillPlayInv
  <2> SUFFICES ASSUME Init, NEW id \in Tokens PROVE Foretold(id)
    BY DEF WillPlayInv
  <2>1. Waiting = <<>> /\ present = {} /\ DOMAIN games = {}
    BY TwoLists DEF Init, Waiting, Service!Init, NoGames
  <2> QED
    BY <2>1 DEF Foretold, Has, InGame
<1>2. WillPlayInv => PresentWillPlay
  <2> SUFFICES ASSUME NEW id \in Tokens, Foretold(id),
                      id.session \in ValidSessions, archive[id.session] = NoResult
               PROVE  WillPlay(id) <=> id \in present
    BY DEF WillPlayInv, PresentWillPlay
  <2>1. CASE UpdatesOf(id) = {}
    BY <2>1 DEF UpdatesOf, Has, WillPlay, Foretold, InGame
  <2>2. CASE UpdatesOf(id) # {}
    <3> DEFINE last == CHOOSE i \in UpdatesOf(id) : \A j \in UpdatesOf(id) : j <= i
    <3>1. PICK i \in UpdatesOf(id) : /\ \A j \in UpdatesOf(id) : j <= i
                                     /\ ~Waiting[i].disconnection <=> id \in present
      BY <2>2 DEF UpdatesOf, Has, LastSays, Foretold
    <3>2. last \in UpdatesOf(id) /\ \A j \in UpdatesOf(id) : j <= last
      BY <3>1
    <3>3. last = i
      <4>1. last <= i /\ i <= last
        BY <3>1, <3>2
      <4> QED
        BY <3>1, <3>2, <4>1
    <3> QED
      BY <2>2, <3>1, <3>3 DEF WillPlay
  <2> QED
    BY <2>1, <2>2
<1> QED
  BY <1>1, <1>2, ForetoldStep, Types, GamesOrdered, PTL DEF Spec
==============================================================================
