---------------------- MODULE MatchmakingServer_proofs ----------------------
(***************************************************************************)
(* What holds of MatchmakingServer for every set of players and sessions,  *)
(* every number of workers and every bound, whatever the matchmaker does.  *)
(***************************************************************************)
EXTENDS MatchmakingServer, TLAPS

USE NumbersAssumption DEF lists, waiting, ends, looping

\* Taking the first element off a list, and adding one.
LEMMA ListFacts ==
    ASSUME NEW S, NEW q \in Seq(S)
    PROVE  /\ q # <<>> => /\ Head(q) \in S /\ Tail(q) \in Seq(S)
                          /\ Head(q) \in Range(q)
                          /\ Range(Tail(q)) \subseteq Range(q)
           /\ \A x \in S : /\ Append(q, x) \in Seq(S)
                           /\ Range(Append(q, x)) \subseteq Range(q) \cup {x}
<1>1. ASSUME q # <<>>
      PROVE  /\ Head(q) \in S /\ Tail(q) \in Seq(S)
             /\ Head(q) \in Range(q)
             /\ Range(Tail(q)) \subseteq Range(q)
  <2>1. /\ Len(q) \in Nat \ {0} /\ Head(q) = q[1] /\ Tail(q) \in Seq(S)
        /\ DOMAIN q = 1..Len(q) /\ DOMAIN Tail(q) = 1..(Len(q) - 1)
        /\ \A i \in 1..(Len(q) - 1) : Tail(q)[i] = q[i + 1]
    BY <1>1
  <2>2. q[1] \in S /\ q[1] \in Range(q)
    BY <2>1 DEF Range
  <2>3. Range(Tail(q)) \subseteq Range(q)
    BY <2>1 DEF Range
  <2> QED
    BY <2>1, <2>2, <2>3
<1>2. ASSUME NEW x \in S
      PROVE  /\ Append(q, x) \in Seq(S)
             /\ Range(Append(q, x)) \subseteq Range(q) \cup {x}
  <2>1. /\ Append(q, x) \in Seq(S) /\ Len(q) \in Nat
        /\ DOMAIN Append(q, x) = 1..(Len(q) + 1) /\ DOMAIN q = 1..Len(q)
        /\ \A i \in 1..Len(q) : Append(q, x)[i] = q[i]
        /\ Append(q, x)[Len(q) + 1] = x
    OBVIOUS
  <2> QED
    BY <2>1 DEF Range
<1> QED
  BY <1>1, <1>2

\* The empty list.
LEMMA EmptyFacts ==
    ASSUME NEW S
    PROVE  <<>> \in Seq(S) /\ Range(<<>>) = {}
BY DEF Range

\* A function on some of the sessions.
LEMMA OnSessions ==
    ASSUME NEW T
    PROVE  /\ \A D \in SUBSET Sessions : \A f \in [D -> T] :
                f \in UNION {[E -> T] : E \in SUBSET Sessions}
           /\ \A f \in UNION {[E -> T] : E \in SUBSET Sessions} :
                DOMAIN f \subseteq Sessions /\ f \in [DOMAIN f -> T]
           /\ \A f \in UNION {[E -> T] : E \in SUBSET Sessions} : \A R :
                Restrict(f, DOMAIN f \ R) \in UNION {[E -> T] : E \in SUBSET Sessions}
<1>1. \A D \in SUBSET Sessions : \A f \in [D -> T] :
         f \in UNION {[E -> T] : E \in SUBSET Sessions}
  OBVIOUS
<1>2. \A f \in UNION {[E -> T] : E \in SUBSET Sessions} :
         DOMAIN f \subseteq Sessions /\ f \in [DOMAIN f -> T]
  OBVIOUS
<1>3. ASSUME NEW f \in UNION {[E -> T] : E \in SUBSET Sessions}, NEW R
      PROVE  Restrict(f, DOMAIN f \ R) \in UNION {[E -> T] : E \in SUBSET Sessions}
  <2>1. /\ DOMAIN f \ R \in SUBSET Sessions
        /\ Restrict(f, DOMAIN f \ R) \in [DOMAIN f \ R -> T]
    BY <1>2 DEF Restrict
  <2> QED
    BY <1>1, <2>1
<1> QED
  BY <1>1, <1>2, <1>3

\* The data of no session.
LEMMA NoSessionsType ==
    ASSUME NEW T
    PROVE  NoSessions \in UNION {[D -> T] : D \in SUBSET Sessions} /\ DOMAIN NoSessions = {}
<1>1. NoSessions \in [{} -> T]
  BY DEF NoSessions
<1> QED
  BY <1>1, OnSessions

------------------------------------------------------------------------------
(* Types.                                                                  *)

\* A new server has nobody waiting.
LEMMA InitType == Init => TypeOK
<1> SUFFICES ASSUME Init PROVE TypeOK
  OBVIOUS
<1>1. Service!TypeOK
  BY DEF Init, Service!Init, Service!TypeOK
<1>2. <<>> \in Seq(Updates)
  BY EmptyFacts
<1>3. 0 \in 0..Workers /\ 0 \in 0..Timestep /\ 0 \in 0..MaxStops
  OBVIOUS
<1> QED
  BY <1>1, <1>2, <1>3, NoSessionsType DEF Init, TypeOK

\* complete_session changes the archive, and nothing of it but the session.
LEMMA Completing ==
    ASSUME Service!TypeOK, NEW s \in Sessions, NEW r \in Games, CompleteSession(s, r)
    PROVE  /\ Service!TypeOK'
           /\ archive'[s] = IF archive[s] = NoResult THEN r ELSE archive[s]
           /\ archive'[s] # NoResult
           /\ \A t \in Sessions \ {s} : archive'[t] = archive[t]
BY SessionsAssumption DEF Service!TypeOK, CompleteSession, Service!Complete

\* That a session was cancelled is told like a game.
LEMMA CancelledType == Cancelled \in Games
BY DEF Cancelled, Games

\* The calls of the workers keep the types.
LEMMA CallType ==
    ASSUME TypeOK, NEW id \in Ids,
           PlayerConnect(id) \/ PlayerDisconnect(id) \/ ProcessMessage(id)
    PROVE  TypeOK'
<1>1. Service!TypeOK'
  <2>1. CASE PlayerConnect(id)
    BY <2>1 DEF PlayerConnect, TypeOK, Service!TypeOK, Service!Open, Ids, Service!Ids
  <2>2. CASE PlayerDisconnect(id)
    BY <2>2 DEF PlayerDisconnect, TypeOK, Service!TypeOK, Service!Close
  <2>3. CASE ProcessMessage(id)
    BY <2>3 DEF ProcessMessage, TypeOK, Service!TypeOK
  <2> QED
    BY <2>1, <2>2, <2>3
<1>2. ASSUME NEW d \in BOOLEAN, AddUpdate(id, d) PROVE TypeOK'
  <2>1. [id |-> id, disconnection |-> d] \in Updates
    BY DEF Updates
  <2>2. updates' \in Seq(Updates)
    BY <1>2, <2>1, ListFacts DEF AddUpdate, TypeOK
  <2>3. lateCalls' \in 0..Workers
    BY <1>2 DEF AddUpdate, TypeOK
  <2> QED
    BY <1>1, <1>2, <2>2, <2>3 DEF AddUpdate, NotifyLoop, TypeOK
<1> QED
  BY <1>2 DEF PlayerConnect, PlayerDisconnect, ProcessMessage

\* So do the steps of the loop outside a time-step.
LEMMA WaitingType ==
    ASSUME TypeOK, \/ CheckRunning \/ LockMatch \/ LookForUpdates
                   \/ ReturnFromWait \/ SpuriousWakeup
    PROVE  TypeOK'
<1>1. Service!TypeOK'
  BY DEF CheckRunning, LockMatch, LookForUpdates, ReturnFromWait, SpuriousWakeup,
         TypeOK, Service!TypeOK
<1>2. CASE CheckRunning \/ SpuriousWakeup
  BY <1>1, <1>2 DEF CheckRunning, SpuriousWakeup, TypeOK
<1>3. CASE LockMatch \/ LookForUpdates \/ ReturnFromWait
  <2>1. naps' \in 0..Timestep
    BY <1>3 DEF LockMatch, LookForUpdates, ReturnFromWait, SleepOrTick, TypeOK
  <2> QED
    BY <1>1, <1>3, <2>1
       DEF LockMatch, LookForUpdates, ReturnFromWait, SleepOrTick, TypeOK
<1> QED
  BY <1>2, <1>3

\* What a connection update makes of the sessions.
LEMMA UpdateType ==
    ASSUME TypeOK, ProcessUpdate
    PROVE  /\ Head(batch) \in Updates /\ Head(batch) \in Range(batch)
           /\ Head(batch).id.session \in Sessions
           /\ batch' \in Seq(Updates) /\ Range(batch') \subseteq Range(batch)
           /\ Service!TypeOK' /\ completing' \in SUBSET Sessions
           /\ data' \in SUBSET Sessions /\ finishing' \in SUBSET Sessions
           /\ roster' \in UNION {[D -> SUBSET Players] : D \in SUBSET Sessions}
<1> DEFINE id == Head(batch).id
<1> DEFINE Rosters == UNION {[D -> SUBSET Players] : D \in SUBSET Sessions}
<1>1. /\ Head(batch) \in Updates /\ Head(batch) \in Range(batch)
      /\ batch' \in Seq(Updates) /\ Range(batch') \subseteq Range(batch)
  BY ListFacts DEF ProcessUpdate, TypeOK
<1>2. id.session \in Sessions /\ id.player \in Players
  BY <1>1 DEF Updates, Ids, Service!Ids
<1>3. roster \in Rosters /\ DOMAIN roster \subseteq Sessions
      /\ roster \in [DOMAIN roster -> SUBSET Players]
  BY OnSessions DEF TypeOK
<1>4. CASE CancelSession(id.session)
  <2>1. roster' \in Rosters
    BY <1>3, <1>4, OnSessions DEF CancelSession, Dropped
  <2> QED
    BY <1>1, <1>2, <1>4, <2>1, Completing, CancelledType
    DEF CancelSession, CompleteSession, Dropped, TypeOK
<1>5. CASE UNCHANGED <<present, archive, completing, waiting, finishing>>
  BY <1>1, <1>2, <1>5 DEF TypeOK, Service!TypeOK
<1>6. CASE AddPlayer(id) /\ UNCHANGED <<present, archive, completing, finishing>>
  <2>1. roster' \in [DOMAIN roster -> SUBSET Players]
    BY <1>2, <1>3, <1>6 DEF AddPlayer
  <2>2. roster' \in Rosters
    BY <1>3, <2>1, OnSessions
  <2> QED
    BY <1>1, <1>2, <1>6, <2>2 DEF AddPlayer, TypeOK, Service!TypeOK
<1>7. CASE AddSession(id) /\ UNCHANGED <<present, archive, completing, finishing>>
  <2>1. roster' \in [DOMAIN roster \cup {id.session} -> SUBSET Players]
    BY <1>2, <1>3, <1>7 DEF AddSession
  <2>2. DOMAIN roster \cup {id.session} \in SUBSET Sessions
    BY <1>2, <1>3
  <2>3. roster' \in Rosters
    BY <2>1, <2>2, OnSessions
  <2> QED
    BY <1>1, <1>2, <1>7, <2>3 DEF AddSession, TypeOK, Service!TypeOK
<1>8. CASE RefuseSession(id.session)
  BY <1>1, <1>2, <1>8, Completing, CancelledType
  DEF RefuseSession, CompleteSession, TypeOK
<1> QED
  BY <1>4, <1>5, <1>6, <1>7, <1>8 DEF ProcessUpdate, Cancels, MayBeRefused

\* What the matchmaker returns: games of sessions that wait.
LEMMA MatchingType ==
    ASSUME TypeOK, NEW matching \in Matchings
    PROVE  /\ DOMAIN matching \subseteq data
           /\ matching \in UNION {[D -> Games] : D \in SUBSET Sessions}
<1>1. PICK games \in SUBSET (SUBSET data) :
         matching = [s \in UNION games |-> UNION {g \in games : s \in g}]
  BY DEF Matchings
<1>2. UNION games \subseteq data /\ data \subseteq Sessions
  BY <1>1 DEF TypeOK
<1>3. \A s : UNION {g \in games : s \in g} \in Games
  BY <1>2 DEF Games
<1>4. matching \in [UNION games -> Games]
  BY <1>1, <1>3
<1>5. UNION games \in SUBSET Sessions
  BY <1>2
<1> QED
  BY <1>1, <1>2, <1>4, <1>5, OnSessions

\* A time-step keeps the types.
LEMMA TickType ==
    ASSUME TypeOK, \/ SwapUpdates \/ ProcessUpdate \/ UpdatesProcessed
                   \/ EraseFinished \/ Match
                   \/ (\E s \in Sessions : BeginCompletion(s) \/ CompleteMatched(s))
                   \/ EndTick
    PROVE  TypeOK'
<1>1. CASE SwapUpdates \/ UpdatesProcessed \/ EndTick
  BY <1>1 DEF SwapUpdates, UpdatesProcessed, EndTick, TypeOK, Service!TypeOK
<1>2. CASE ProcessUpdate
  BY <1>2, UpdateType DEF ProcessUpdate, TypeOK
<1>3. CASE EraseFinished
  <2>1. roster' \in UNION {[D -> SUBSET Players] : D \in SUBSET Sessions}
    BY <1>3, OnSessions DEF EraseFinished, Dropped, TypeOK
  <2> QED
    BY <1>3, <2>1 DEF EraseFinished, Dropped, TypeOK, Service!TypeOK
<1>4. CASE Match
  <2>1. matched' \in UNION {[D -> Games] : D \in SUBSET Sessions}
    BY <1>4, MatchingType DEF Match
  <2> QED
    BY <1>4, <2>1 DEF Match, TypeOK, Service!TypeOK
<1>5. ASSUME NEW s \in Sessions, CompleteMatched(s)
      PROVE  TypeOK'
  <2>1. matched[s] \in Games
    BY <1>5, OnSessions DEF CompleteMatched, TypeOK
  <2>2. Service!TypeOK'
    BY <1>5, <2>1, Completing DEF CompleteMatched, TypeOK
  <2>3. matched' \in UNION {[D -> Games] : D \in SUBSET Sessions}
    BY <1>5, OnSessions DEF CompleteMatched, TypeOK
  <2> QED
    BY <1>5, <2>2, <2>3 DEF CompleteMatched, CompleteSession, Noted, TypeOK
<1>6. ASSUME NEW s \in Sessions, BeginCompletion(s)
      PROVE  TypeOK'
  BY <1>6 DEF BeginCompletion, TypeOK, Service!TypeOK
<1> QED
  BY <1>1, <1>2, <1>3, <1>4, <1>5, <1>6

\* So does stopping and starting again.
LEMMA StopType ==
    ASSUME TypeOK, StopServer \/ Stopping \/ Restart
    PROVE  TypeOK'
<1>e. <<>> \in Seq(Updates)
  BY EmptyFacts
<1>s. Service!TypeOK'
  BY DEF StopServer, Stopping, StopLock, StopService, StopMatching, StopUpdates, StopNotify,
         Restart, TypeOK, Service!TypeOK, Service!Kept
<1>1. CASE StopServer
  <2>1. stop' \in [pc : {"lock"}, calls : 0..MaxStops]
    BY <1>1 DEF StopServer, TypeOK
  <2> QED
    BY <1>s, <1>1, <2>1 DEF StopServer, TypeOK
<1>2. CASE Restart
  <2>1. 0 \in 0..Workers /\ 0 \in 0..Timestep
    OBVIOUS
  <2> QED
    BY <1>s, <1>2, <2>1 DEF Restart, TypeOK
<1>3. CASE StopLock \/ StopService
  BY <1>s, <1>3 DEF StopLock, StopService, StopStep, TypeOK
<1>4. CASE StopMatching
  BY <1>s, <1>e, <1>4, NoSessionsType DEF StopMatching, StopStep, TypeOK
<1>5. CASE StopUpdates
  BY <1>s, <1>e, <1>5 DEF StopUpdates, StopStep, TypeOK
<1>6. CASE StopNotify
  BY <1>s, <1>6 DEF StopNotify, StopStep, NotifyLoop, TypeOK
<1> QED
  BY <1>1, <1>2, <1>3, <1>4, <1>5, <1>6 DEF Stopping

\* Every step keeps each variable in its range.
LEMMA TypeStep == TypeOK /\ [Next]_vars => TypeOK'
<1> SUFFICES ASSUME TypeOK, [Next]_vars PROVE TypeOK'
  OBVIOUS
<1>1. CASE \E id \in Tokens : PlayerConnect(id) \/ PlayerDisconnect(id) \/ ProcessMessage(id)
  BY <1>1, CallType, SessionsAssumption DEF Ids, Service!Ids
<1>2. CASE Forget
  BY <1>2 DEF Forget, Service!Forget, Service!Kept, TypeOK, Service!TypeOK
<1>3. CASE LoopStep \/ SpuriousWakeup
  BY <1>3, WaitingType, TickType DEF LoopStep
<1>4. CASE StopServer \/ Stopping \/ Restart
  BY <1>4, StopType
<1>5. CASE UNCHANGED vars
  BY <1>5 DEF vars, TypeOK, Service!TypeOK
<1> QED
  BY <1>1, <1>2, <1>3, <1>4, <1>5 DEF Next

\* The server is well typed, with any number of players, sessions and stops:
\* the naps of the loop and the calls of late workers are bounded (:209-214).
THEOREM Types == Spec => []TypeOK
BY InitType, TypeStep, PTL DEF Spec

------------------------------------------------------------------------------
(* The two maps.                                                           *)

\* Taking sessions out of both maps.
LEMMA DroppedDomains ==
    ASSUME NEW R, Dropped(R), EachSessionHasRoster
    PROVE  EachSessionHasRoster'
BY DEF Dropped, Restrict, EachSessionHasRoster

\* m_session_players.at finds its entry for every session that waits, through
\* stops and new starts, for any number of players and sessions (:311).
THEOREM RostersFound == Spec => []EachSessionHasRoster
<1>1. Init => EachSessionHasRoster
  BY DEF Init, EachSessionHasRoster, NoSessions
<1>2. EachSessionHasRoster /\ [Next]_vars => EachSessionHasRoster'
  <2> SUFFICES ASSUME EachSessionHasRoster, [Next]_vars PROVE EachSessionHasRoster'
    OBVIOUS
  <2>1. CASE UNCHANGED waiting
    BY <2>1 DEF EachSessionHasRoster
  <2>2. CASE EraseFinished
    BY <2>2, DroppedDomains DEF EraseFinished
  <2>3. CASE ProcessUpdate
    <3> DEFINE id == Head(batch).id
    <3>1. CASE CancelSession(id.session)
      BY <3>1, DroppedDomains DEF CancelSession
    <3>2. CASE AddPlayer(id) \/ AddSession(id)
      BY <3>2 DEF AddPlayer, AddSession, EachSessionHasRoster
    <3>3. CASE RefuseSession(id.session)
      BY <3>3, <2>1 DEF RefuseSession
    <3> QED
      BY <2>1, <2>3, <3>1, <3>2, <3>3 DEF ProcessUpdate
  <2>4. CASE StopMatching
    BY <2>4 DEF StopMatching, EachSessionHasRoster, NoSessions
  <2> QED
    BY <2>1, <2>2, <2>3, <2>4
    DEF Next, vars, LoopStep, Stopping, PlayerConnect, PlayerDisconnect,
        ProcessMessage, AddUpdate, Forget, CheckRunning, LockMatch, LookForUpdates,
        SpuriousWakeup, ReturnFromWait, SwapUpdates, UpdatesProcessed, Match,
        BeginCompletion, CompleteMatched, EndTick, StopServer, StopLock, StopService,
        StopUpdates, StopNotify,
        Restart
<1> QED
  BY <1>1, <1>2, PTL DEF Spec

------------------------------------------------------------------------------
(* Why no session is matched twice: a login that waits when its session is *)
(* over is processed before the lists of finished sessions have erased it. *)

\* The sessions with a waiting login.
LoginsIn(list) == {u.id.session : u \in {v \in Range(list) : ~v.disconnection}}

Ended(s) == archive[s] # NoResult

Matchable(s) == archive[s] \in {NoResult, Cancelled}

Orderly ==
    /\ running /\ stop.pc = "idle"
    /\ loop # "apply" => batch = <<>>
    /\ loop \notin {"apply", "erase"} => finishing = {}
    /\ \A s \in data \cup LoginsIn(batch) : Ended(s) => s \in finished \cup finishing
    /\ \A s \in LoginsIn(updates) :
          Ended(s) => s \in IF loop \in {"apply", "erase"} THEN finishing ELSE finished
    /\ \A s \in finishing \ finished : Matchable(s)
    /\ loop = "match" => \A s \in data : Matchable(s)

MatchInv == NeverStopped => Orderly

\* Waiting logins are of sessions.
LEMMA LoginsType ==
    ASSUME NEW q \in Seq(Updates)
    PROVE  LoginsIn(q) \subseteq Sessions
<1>1. Range(q) \subseteq Updates
  BY DEF Range
<1> QED
  BY <1>1 DEF LoginsIn, Updates, Ids, Service!Ids

\* A worker adds a login only of a session that is not over.
LEMMA CallOrderly ==
    ASSUME TypeOK, Orderly, NEW id \in Ids,
           PlayerConnect(id) \/ PlayerDisconnect(id) \/ ProcessMessage(id)
    PROVE  Orderly'
<1>1. archive' = archive
  BY DEF PlayerConnect, PlayerDisconnect, ProcessMessage, Service!Close
<1>2. /\ UNCHANGED <<running, stop, batch, data, finished, finishing>>
      /\ loop' = loop \/ (loop = "wait" /\ loop' = "woken")
  BY DEF PlayerConnect, PlayerDisconnect, ProcessMessage, AddUpdate, NotifyLoop
<1>3. \A s \in LoginsIn(updates') : s \in LoginsIn(updates) \/ ~Ended(s)
  <2>1. CASE PlayerConnect(id)
    <3>1. updates' = Append(updates, [id |-> id, disconnection |-> FALSE])
          /\ [id |-> id, disconnection |-> FALSE] \in Updates
      BY <2>1 DEF PlayerConnect, AddUpdate, Updates
    <3>2. Range(updates') \subseteq Range(updates) \cup {[id |-> id, disconnection |-> FALSE]}
      BY <3>1, ListFacts DEF TypeOK
    <3>3. ~Ended(id.session)
      BY <2>1, <1>1 DEF PlayerConnect, Service!Open, Ended
    <3> QED
      BY <3>2, <3>3 DEF LoginsIn
  <2>2. CASE PlayerDisconnect(id) \/ ProcessMessage(id)
    <3>1. updates' = Append(updates, [id |-> id, disconnection |-> TRUE])
          /\ [id |-> id, disconnection |-> TRUE] \in Updates
      BY <2>2 DEF PlayerDisconnect, ProcessMessage, AddUpdate, Updates
    <3>2. Range(updates') \subseteq Range(updates) \cup {[id |-> id, disconnection |-> TRUE]}
      BY <3>1, ListFacts DEF TypeOK
    <3> QED
      BY <3>2 DEF LoginsIn
  <2> QED
    BY <2>1, <2>2
<1> QED
  BY <1>1, <1>2, <1>3 DEF Orderly, Ended, Matchable

\* What is forgotten is not over any more.
LEMMA ForgetOrderly == ASSUME TypeOK, Orderly, Forget PROVE Orderly'
<1>1. \A s \in Sessions : archive'[s] = archive[s] \/ archive'[s] = NoResult
  BY DEF Forget, Service!Forget, Service!Kept, TypeOK, Service!TypeOK
<1>2. UNCHANGED <<running, stop, batch, updates, data, finished, finishing, loop>>
  BY DEF Forget
<1>3. /\ data \subseteq Sessions /\ finishing \subseteq Sessions
      /\ LoginsIn(batch) \subseteq Sessions /\ LoginsIn(updates) \subseteq Sessions
  BY LoginsType DEF TypeOK
<1>4. LoginsIn(batch)' = LoginsIn(batch) /\ LoginsIn(updates)' = LoginsIn(updates)
  BY <1>2 DEF LoginsIn
<1> QED
  BY <1>1, <1>2, <1>3, <1>4 DEF Orderly, Ended, Matchable

\* The loop outside a time-step, and where it changes nothing but its place.
LEMMA PlaceOrderly ==
    ASSUME TypeOK, Orderly,
           \/ CheckRunning \/ LockMatch \/ LookForUpdates \/ ReturnFromWait
           \/ SpuriousWakeup \/ UpdatesProcessed \/ Match \/ EndTick
           \/ (\E s \in Sessions : BeginCompletion(s))
    PROVE  Orderly'
<1>1. UNCHANGED <<archive, running, stop, batch, updates, data, finished, finishing>>
  BY DEF CheckRunning, LockMatch, LookForUpdates, ReturnFromWait, SpuriousWakeup,
         UpdatesProcessed, Match, BeginCompletion, EndTick, Orderly
<1>2. \/ loop = "apply" /\ loop' = "erase" /\ batch = <<>>
      \/ loop = "match" /\ loop' = "report"
      \/ loop = "report" /\ loop' = "check"
      \/ loop' = loop
      \/ /\ loop \in {"check", "lock", "look", "wait", "woken", "relook"}
         /\ loop' \in {"check", "lock", "look", "wait", "woken", "relook", "swap",
                      "returned"}
  BY DEF CheckRunning, LockMatch, LookForUpdates, ReturnFromWait, SpuriousWakeup,
         UpdatesProcessed, Match, BeginCompletion, EndTick, SleepOrTick
<1>3. LoginsIn(batch)' = LoginsIn(batch) /\ LoginsIn(updates)' = LoginsIn(updates)
  BY <1>1 DEF LoginsIn
<1> QED
  BY <1>1, <1>2, <1>3 DEF Orderly, Ended, Matchable

\* Swapping the two lists of updates.
LEMMA SwapOrderly == ASSUME TypeOK, Orderly, SwapUpdates PROVE Orderly'
<1>1. /\ UNCHANGED <<archive, running, stop, data, finished, finishing>>
      /\ loop = "swap" /\ loop' = "apply" /\ batch = <<>> /\ finishing = {}
      /\ updates' = <<>> /\ batch' = updates
  BY DEF SwapUpdates, Orderly
<1>2. LoginsIn(<<>>) = {}
  BY EmptyFacts DEF LoginsIn
<1>3. LoginsIn(batch)' = LoginsIn(updates) /\ LoginsIn(updates)' = {}
  BY <1>1, <1>2 DEF LoginsIn
<1> QED
  BY <1>1, <1>3 DEF Orderly, Ended, Matchable

\* A session that is cancelled or refused is listed at once, and was not over
\* before or is to be erased in this time-step.
LEMMA UpdateOrderly == ASSUME TypeOK, Orderly, ProcessUpdate PROVE Orderly'
<1> DEFINE id == Head(batch).id
<1> DEFINE s == id.session
<1>1. /\ loop = "apply" /\ loop' = loop
      /\ UNCHANGED <<running, stop, updates, finished>>
  BY DEF ProcessUpdate
<1>2. /\ s \in Sessions /\ Head(batch) \in Range(batch)
      /\ Range(batch') \subseteq Range(batch)
  BY UpdateType
<1>3. /\ LoginsIn(batch') \subseteq LoginsIn(batch)
      /\ ~Head(batch).disconnection => s \in LoginsIn(batch)
  BY <1>2 DEF LoginsIn
<1>4. LoginsIn(batch)' = LoginsIn(batch') /\ LoginsIn(updates)' = LoginsIn(updates)
  BY <1>1 DEF LoginsIn
<1>5. /\ data \subseteq Sessions /\ finishing \subseteq Sessions
      /\ LoginsIn(batch) \subseteq Sessions /\ LoginsIn(updates) \subseteq Sessions
  BY LoginsType DEF TypeOK
<1>6. CASE /\ CompleteSession(s, Cancelled) /\ finishing' = finishing \cup {s}
           /\ data' \subseteq data /\ s \in data \cup LoginsIn(batch)
  <2>1. /\ archive'[s] = IF archive[s] = NoResult THEN Cancelled ELSE archive[s]
        /\ \A t \in Sessions \ {s} : archive'[t] = archive[t]
    BY <1>2, <1>6, Completing, CancelledType DEF TypeOK
  <2>2. \A t \in finishing' \ finished : archive'[t] \in {NoResult, Cancelled}
    BY <1>5, <1>6, <2>1 DEF Orderly, Ended, Matchable
  <2>3. \A t \in data' \cup LoginsIn(batch') :
           archive'[t] # NoResult => t \in finished \cup finishing'
    BY <1>3, <1>5, <1>6, <2>1 DEF Orderly, Ended
  <2>4. \A t \in LoginsIn(updates) : archive'[t] # NoResult => t \in finishing'
    BY <1>1, <1>5, <1>6, <2>1 DEF Orderly, Ended
  <2> QED
    BY <1>1, <1>4, <2>2, <2>3, <2>4 DEF Orderly, Ended, Matchable
<1>7. CASE /\ UNCHANGED <<archive, finishing>>
           /\ data' \subseteq data \cup LoginsIn(batch)
  BY <1>1, <1>3, <1>4, <1>7 DEF Orderly, Ended, Matchable
<1> QED
  <2>1. CASE CancelSession(s) /\ s \in data
    BY <1>6, <2>1 DEF CancelSession, Dropped
  <2>2. CASE RefuseSession(s) /\ ~Head(batch).disconnection
    BY <1>3, <1>6, <2>2 DEF RefuseSession
  <2>3. CASE ~Head(batch).disconnection /\ (AddPlayer(id) \/ AddSession(id))
             /\ UNCHANGED <<archive, finishing>>
    BY <1>3, <1>7, <2>3 DEF AddPlayer, AddSession
  <2>4. CASE UNCHANGED <<archive, waiting, finishing>>
    BY <1>7, <2>4
  <2> QED
    BY <2>1, <2>2, <2>3, <2>4 DEF ProcessUpdate, Cancels, MayBeRefused

\* Who is left to be matched is over only if it was cancelled just now.
LEMMA EraseOrderly == ASSUME TypeOK, Orderly, EraseFinished PROVE Orderly'
<1>1. /\ UNCHANGED <<archive, running, stop, batch, updates>>
      /\ loop = "erase" /\ loop' = "match" /\ batch = <<>>
      /\ data' = data \ finished /\ finished' = finishing /\ finishing' = {}
  BY DEF EraseFinished, Dropped, Orderly
<1>2. LoginsIn(<<>>) = {}
  BY EmptyFacts DEF LoginsIn
<1>3. LoginsIn(batch)' = {} /\ LoginsIn(updates)' = LoginsIn(updates)
  BY <1>1, <1>2 DEF LoginsIn
<1> QED
  BY <1>1, <1>2, <1>3 DEF Orderly, Ended, Matchable

\* Telling the players of a session how it ended.
LEMMA ReportOrderly ==
    ASSUME TypeOK, Orderly, NEW s \in Sessions, CompleteMatched(s)
    PROVE  Orderly'
<1>1. /\ UNCHANGED <<running, stop, batch, updates, data, finishing, loop>>
      /\ loop = "report" /\ finished' = finished \cup {s}
      /\ batch = <<>> /\ finishing = {}
  BY DEF CompleteMatched, Noted, Orderly
<1>2. matched[s] \in Games
  BY OnSessions DEF CompleteMatched, TypeOK
<1>3. \A t \in Sessions \ {s} : archive'[t] = archive[t]
  BY <1>2, Completing DEF CompleteMatched, TypeOK
<1>4. /\ data \subseteq Sessions
      /\ LoginsIn(batch) \subseteq Sessions /\ LoginsIn(updates) \subseteq Sessions
  BY LoginsType DEF TypeOK
<1>5. LoginsIn(batch)' = LoginsIn(batch) /\ LoginsIn(updates)' = LoginsIn(updates)
  BY <1>1 DEF LoginsIn
<1> QED
  BY <1>1, <1>3, <1>4, <1>5 DEF Orderly, Ended, Matchable

\* Only a call of stop is counted as one.
LEMMA StopCalls ==
    ASSUME TypeOK, [Next]_vars, NeverStopped'
    PROVE  NeverStopped /\ ~StopServer
<1>1. stop' = stop \/ stop'.calls = stop.calls \/ StopServer
  BY DEF Next, vars, LoopStep, Stopping, PlayerConnect, PlayerDisconnect,
     ProcessMessage, AddUpdate, Forget, CheckRunning, LockMatch, LookForUpdates,
     SpuriousWakeup, ReturnFromWait, SwapUpdates, ProcessUpdate, UpdatesProcessed,
     EraseFinished, Match, BeginCompletion, CompleteMatched, EndTick, StopLock,
     StopService, StopMatching,
     StopUpdates, StopNotify, StopStep, Restart, TypeOK
<1> QED
  BY <1>1 DEF StopServer, NeverStopped, TypeOK

\* Every step keeps the order in which sessions come and go.
LEMMA OrderlyStep == TypeOK /\ MatchInv /\ [Next]_vars => MatchInv'
<1> SUFFICES ASSUME TypeOK, MatchInv, [Next]_vars, NeverStopped' PROVE Orderly'
  BY DEF MatchInv
<1>1. NeverStopped /\ ~StopServer
  BY StopCalls
<1>2. Orderly
  BY <1>1 DEF MatchInv
<1>3. ~Stopping /\ ~Restart
  BY <1>2 DEF Orderly, Stopping, StopLock, StopService, StopMatching, StopUpdates, StopNotify,
     StopStep, Restart
<1>4. CASE \E id \in Tokens : PlayerConnect(id) \/ PlayerDisconnect(id) \/ ProcessMessage(id)
  BY <1>2, <1>4, CallOrderly, SessionsAssumption DEF Ids, Service!Ids
<1>5. CASE LoopStep \/ SpuriousWakeup
  BY <1>2, <1>5, PlaceOrderly, SwapOrderly, UpdateOrderly, EraseOrderly, ReportOrderly
  DEF LoopStep
<1>6. CASE UNCHANGED vars
  BY <1>2, <1>6 DEF vars, Orderly, Ended, Matchable, LoginsIn
<1> QED
  BY <1>1, <1>2, <1>3, <1>4, <1>5, <1>6, ForgetOrderly DEF Next

\* Where a session that is over can still be: MatchInv always holds.
THEOREM MatchesOrdered == Spec => []MatchInv
<1>1. Init => MatchInv
  BY EmptyFacts DEF Init, MatchInv, Orderly, LoginsIn, Ended, Matchable
<1> QED
  BY <1>1, OrderlyStep, Types, PTL DEF Spec

\* A session that is over waits only until the lists erase it, for any number
\* of players and sessions and any matchmaker (:219-227).
THEOREM EndedAreListed == Spec => []CompletedListed
<1>1. MatchInv => CompletedListed
  BY DEF MatchInv, Orderly, Ended, CompletedListed
<1> QED
  BY <1>1, MatchesOrdered, PTL

\* No session that got a game is matched again, for any number of players and
\* sessions and any matchmaker (:219-232).
THEOREM MatchedOnce == Spec => NoSecondGame
<1> DEFINE Once == NeverStopped /\ Match =>
                       \A s \in DOMAIN matched' : archive[s] \in {NoResult, Cancelled}
<1>1. ASSUME TypeOK, MatchInv, [Next]_vars PROVE [Once]_vars
  <2> SUFFICES ASSUME NeverStopped, Match, NEW s \in DOMAIN matched'
               PROVE  archive[s] \in {NoResult, Cancelled}
    OBVIOUS
  <2>1. s \in data
    BY <1>1, MatchingType DEF Match
  <2> QED
    BY <1>1, <2>1 DEF MatchInv, Orderly, Matchable, Match
<1>2. Spec => [][Once]_vars
  BY <1>1, Types, MatchesOrdered, PTL DEF Spec
<1> QED
  BY <1>2 DEF NoSecondGame

------------------------------------------------------------------------------
(* The logins that wait, and who waits for a match.                        *)

\* What is in a list that gains an update or loses its first.
LEMMA RangeFacts ==
    ASSUME NEW S, NEW q \in Seq(S)
    PROVE  /\ \A x \in S : Range(Append(q, x)) = Range(q) \cup {x}
           /\ q # <<>> => Range(q) = {Head(q)} \cup Range(Tail(q))
<1>1. ASSUME NEW x \in S
      PROVE  Range(Append(q, x)) = Range(q) \cup {x}
  <2>1. /\ Len(q) \in Nat
        /\ DOMAIN Append(q, x) = 1..(Len(q) + 1) /\ DOMAIN q = 1..Len(q)
        /\ \A i \in 1..Len(q) : Append(q, x)[i] = q[i]
        /\ Append(q, x)[Len(q) + 1] = x
    OBVIOUS
  <2>2. Range(q) \cup {x} \subseteq Range(Append(q, x))
    BY <2>1 DEF Range
  <2> QED
    BY <1>1, <2>2, ListFacts
<1>2. ASSUME q # <<>>
      PROVE  Range(q) = {Head(q)} \cup Range(Tail(q))
  <2>1. /\ Len(q) \in Nat \ {0} /\ Head(q) = q[1]
        /\ DOMAIN q = 1..Len(q) /\ DOMAIN Tail(q) = 1..(Len(q) - 1)
        /\ \A i \in 1..(Len(q) - 1) : Tail(q)[i] = q[i + 1]
    BY <1>2
  <2>2. \A i \in DOMAIN q : i = 1 \/ (i - 1 \in DOMAIN Tail(q) /\ Tail(q)[i - 1] = q[i])
    BY <2>1
  <2>3. Range(q) \subseteq {q[1]} \cup Range(Tail(q))
    BY <2>2 DEF Range
  <2> QED
    BY <1>2, <2>1, <2>3, ListFacts
<1> QED
  BY <1>1, <1>2

\* The two lists are one behind the other.
LEMMA TwoLists ==
    ASSUME NEW S, NEW q \in Seq(S), NEW r \in Seq(S)
    PROVE  /\ q \o r \in Seq(S)
           /\ q \o <<>> = q /\ <<>> \o r = r
           /\ \A x \in S : q \o Append(r, x) = Append(q \o r, x)
           /\ q # <<>> => q \o r # <<>> /\ Head(q \o r) = Head(q) /\ Tail(q \o r) = Tail(q) \o r
<1>1. q # <<>> => q \o r # <<>> /\ Head(q \o r) = Head(q) /\ Tail(q \o r) = Tail(q) \o r
  OBVIOUS
<1> QED
  BY <1>1

\* What the two lists of updates hold together.
LEMMA TwoListsRange ==
    ASSUME NEW S, NEW q \in Seq(S), NEW r \in Seq(S)
    PROVE  Range(q \o r) \subseteq Range(q) \cup Range(r)
<1>1. /\ Len(q) \in Nat /\ Len(r) \in Nat
      /\ DOMAIN q = 1..Len(q) /\ DOMAIN r = 1..Len(r) /\ DOMAIN (q \o r) = 1..(Len(q) + Len(r))
  OBVIOUS
<1>2. ASSUME NEW i \in DOMAIN (q \o r)
      PROVE  (q \o r)[i] \in Range(q) \cup Range(r)
  <2>1. CASE i <= Len(q)
    BY <1>1, <2>1 DEF Range
  <2>2. CASE i > Len(q)
    <3>1. i - Len(q) \in DOMAIN r /\ (q \o r)[i] = r[i - Len(q)]
      BY <1>1, <2>2
    <3> QED
      BY <3>1 DEF Range
  <2> QED
    BY <1>1, <2>1, <2>2
<1> QED
  BY <1>2 DEF Range

\* Of a session, the list has no departure or request without a login before.
LoginFirst(q, s) ==
    \A i \in DOMAIN q :
        q[i].id.session = s /\ q[i].disconnection =>
            \E j \in 1..i - 1 : q[j].id.session = s /\ ~q[j].disconnection

\* An end that is added comes after a login that waits, so a login stays first.
LEMMA AppendLoginFirst ==
    ASSUME NEW S, NEW q \in Seq(S), NEW x \in S, NEW s, LoginFirst(q, s),
           x.id.session = s /\ x.disconnection => s \in LoginsIn(q)
    PROVE  LoginFirst(Append(q, x), s)
<1> DEFINE r == Append(q, x)
<1>1. /\ Len(q) \in Nat /\ DOMAIN q = 1..Len(q) /\ DOMAIN r = 1..(Len(q) + 1)
      /\ \A i \in 1..Len(q) : r[i] = q[i]
      /\ r[Len(q) + 1] = x
  OBVIOUS
<1> SUFFICES ASSUME NEW i \in DOMAIN r, r[i].id.session = s, r[i].disconnection
             PROVE  \E j \in 1..i - 1 : r[j].id.session = s /\ ~r[j].disconnection
  BY DEF LoginFirst
<1>2. CASE i \in DOMAIN q
  <2>1. PICK j \in 1..i - 1 : q[j].id.session = s /\ ~q[j].disconnection
    BY <1>1, <1>2 DEF LoginFirst
  <2>2. j \in 1..Len(q)
    BY <1>1, <1>2
  <2> QED
    BY <1>1, <2>1, <2>2
<1>3. CASE i = Len(q) + 1
  <2>1. s \in LoginsIn(q)
    BY <1>1, <1>3
  <2>2. PICK j \in DOMAIN q : q[j].id.session = s /\ ~q[j].disconnection
    BY <2>1 DEF LoginsIn, Range
  <2>3. j \in 1..i - 1 /\ r[j] = q[j]
    BY <1>1, <1>3
  <2> QED
    BY <2>2, <2>3
<1> QED
  BY <1>1, <1>2, <1>3

\* The update that is taken is not the end of a session that logs in first.
LEMMA TailLoginFirst ==
    ASSUME NEW S, NEW q \in Seq(S), q # <<>>, NEW s, LoginFirst(q, s)
    PROVE  /\ Head(q).id.session = s => ~Head(q).disconnection
           /\ Head(q).id.session # s => LoginFirst(Tail(q), s)
<1> DEFINE r == Tail(q)
<1>1. /\ Len(q) \in Nat \ {0} /\ DOMAIN q = 1..Len(q) /\ DOMAIN r = 1..(Len(q) - 1)
      /\ Head(q) = q[1]
      /\ \A i \in 1..(Len(q) - 1) : r[i] = q[i + 1]
  OBVIOUS
<1>2. Head(q).id.session = s => ~Head(q).disconnection
  BY <1>1 DEF LoginFirst
<1>3. ASSUME Head(q).id.session # s,
             NEW i \in DOMAIN r, r[i].id.session = s, r[i].disconnection
      PROVE  \E j \in 1..i - 1 : r[j].id.session = s /\ ~r[j].disconnection
  <2>1. i + 1 \in DOMAIN q /\ r[i] = q[i + 1] /\ i \in Nat
    BY <1>1
  <2>2. PICK k \in 1..(i + 1) - 1 : q[k].id.session = s /\ ~q[k].disconnection
    BY <1>3, <2>1 DEF LoginFirst
  <2>3. k # 1
    BY <1>1, <1>3, <2>2
  <2>4. k - 1 \in 1..i - 1 /\ k - 1 \in 1..(Len(q) - 1) /\ (k - 1) + 1 = k
    BY <1>1, <2>1, <2>3
  <2>5. r[k - 1] = q[k]
    BY <1>1, <2>4
  <2> QED
    BY <2>2, <2>4, <2>5
<1> QED
  BY <1>2, <1>3 DEF LoginFirst

\* Of a session that is neither over nor refused: its players have brought it
\* there or will; its end comes after that; and when none is due, who waits is
\* who is logged in.
Awaited(id) ==
    LET s == id.session
    IN  /\ s \in data \/ LoginFirst(Waiting, s)
        /\ id \in present => s \in data \cup LoginsIn(Waiting)
        /\ ~EndWaits(s) => (WillWait(id) <=> id \in present)

\* What is listed as finished is over.
FinishedEnded == \A s \in finished \cup finishing : Ended(s)

WaitInv ==
    NeverStopped =>
        /\ FinishedEnded
        /\ \A id \in Tokens : id.session \in ValidSessions /\ ~Ended(id.session) => Awaited(id)

\* The end of a session waits, by the elements of the list.
LEMMA EndByRange ==
    ASSUME NEW s
    PROVE  EndWaits(s) <=> \E u \in Range(Waiting) : u.id.session = s /\ u.disconnection
BY DEF EndWaits, Range

\* Tokens are of sessions.
LEMMA TokenFacts ==
    ASSUME NEW id \in Tokens
    PROVE  id \in Ids /\ id.session \in Sessions /\ id.player \in Players
BY SessionsAssumption DEF Ids, Service!Ids

\* The workers add an update for whom they announce.
LEMMA CallAwaited ==
    ASSUME TypeOK, NEW other \in Tokens,
           PlayerConnect(other) \/ PlayerDisconnect(other) \/ ProcessMessage(other),
           NEW id \in Tokens, Awaited(id), Awaited(other) \/ other.session # id.session
    PROVE  Awaited(id)'
<1> DEFINE s == id.session
<1>1. ASSUME NEW b \in BOOLEAN, AddUpdate(other, b),
             ~b => present' = present \cup {other},
             b => other \in present /\ present \ {other} \subseteq present' /\ present' \subseteq present
      PROVE  Awaited(id)'
  <2> DEFINE x == [id |-> other, disconnection |-> b]
  <2>1. x \in Updates /\ updates \in Seq(Updates) /\ batch \in Seq(Updates)
    BY TokenFacts DEF Updates, TypeOK
  <2>2. UNCHANGED <<batch, data, roster>> /\ updates' = Append(updates, x)
    BY <1>1 DEF AddUpdate
  <2>3. Waiting' = Append(Waiting, x) /\ Waiting \in Seq(Updates)
    BY <2>1, <2>2, TwoLists DEF Waiting
  <2>4. Range(Waiting') = Range(Waiting) \cup {x}
    BY <2>1, <2>3, RangeFacts
  <2>5. LoginsIn(Waiting) \subseteq LoginsIn(Waiting')
        /\ (~b => other.session \in LoginsIn(Waiting'))
    BY <2>4 DEF LoginsIn
  <2>6. s \in data' \/ LoginFirst(Waiting', s)
    <3>1. CASE s \in data
      BY <2>2, <3>1
    <3>2. CASE s \notin data
      <4>1. LoginFirst(Waiting, s)
        BY <3>2 DEF Awaited
      <4>2. other.session = s /\ b => s \in LoginsIn(Waiting)
        BY <1>1, <3>2 DEF Awaited
      <4> QED
        BY <2>1, <2>3, <4>1, <4>2, AppendLoginFirst
    <3> QED
      BY <3>1, <3>2
  <2>7. id \in present' => s \in data' \cup LoginsIn(Waiting')
    BY <1>1, <2>2, <2>5 DEF Awaited
  <2>8. ASSUME ~EndWaits(s)'
        PROVE  WillWait(id)' <=> id \in present'
    <3>1. ~EndWaits(s) /\ ~(other.session = s /\ b)
      <4>1. EndWaits(s)' <=> \E u \in Range(Waiting') : u.id.session = s /\ u.disconnection
        BY DEF EndWaits, Range
      <4>2. \A u \in Range(Waiting') : ~(u.id.session = s /\ u.disconnection)
        BY <2>8, <4>1
      <4>3. x.id.session = s => ~x.disconnection
        BY <2>4, <4>2
      <4>4. ~EndWaits(s)
        BY <2>4, <4>2, EndByRange
      <4> QED
        BY <4>3, <4>4
    <3>2. WillWait(id) <=> id \in present
      BY <3>1 DEF Awaited
    <3>3. LoginWaits(id)' <=> LoginWaits(id) \/ (other = id /\ ~b)
      BY <2>4 DEF LoginWaits
    <3>4. id \in present' <=> id \in present \/ (other = id /\ ~b)
      BY <1>1, <3>1
    <3> QED
      BY <2>2, <3>2, <3>3, <3>4 DEF WillWait
  <2> QED
    BY <2>6, <2>7, <2>8 DEF Awaited
<1>2. CASE PlayerConnect(other)
  BY <1>1, <1>2 DEF PlayerConnect, Service!Open
<1>3. CASE PlayerDisconnect(other)
  BY <1>1, <1>3 DEF PlayerDisconnect, Service!Close
<1>4. CASE ProcessMessage(other)
  BY <1>1, <1>4 DEF ProcessMessage
<1> QED
  BY <1>2, <1>3, <1>4

\* When the loop takes an update the session learns of it.
LEMMA UpdateAwaited ==
    ASSUME TypeOK, EachSessionHasRoster, ProcessUpdate,
           NEW id \in Tokens, id.session \in ValidSessions, Awaited(id), ~Ended(id.session)'
    PROVE  Awaited(id)'
<1> DEFINE x == Head(batch)
           s == id.session
<1>1. /\ batch \in Seq(Updates) /\ batch # <<>> /\ batch' = Tail(batch)
      /\ updates \in Seq(Updates) /\ updates' = updates
      /\ present' = present
  BY DEF ProcessUpdate, TypeOK, CancelSession, RefuseSession, CompleteSession, Service!Complete
<1>2. /\ x \in Updates /\ x.id \in Ids /\ id \in Ids
      /\ x.id.session \in Sessions /\ s \in Sessions
  BY UpdateType, TokenFacts DEF Updates, Ids, Service!Ids
<1>3. /\ Waiting \in Seq(Updates) /\ Waiting # <<>> /\ Head(Waiting) = x
      /\ Waiting' = Tail(Waiting)
  BY <1>1, TwoLists DEF Waiting
<1>4. Range(Waiting) = {x} \cup Range(Waiting')
  BY <1>3, RangeFacts
<1>5. /\ LoginFirst(Waiting, s) /\ x.id.session = s => ~x.disconnection
      /\ LoginFirst(Waiting, s) /\ x.id.session # s => LoginFirst(Waiting', s)
  BY <1>3, TailLoginFirst
<1>r. /\ DOMAIN roster = data
      /\ roster \in [DOMAIN roster -> SUBSET Players]
  BY OnSessions DEF EachSessionHasRoster, TypeOK
\* An update of another session is nothing to this one.
<1>6. CASE x.id.session # s
  <2>1. s \in data' <=> s \in data
    BY <1>6 DEF ProcessUpdate, CancelSession, Dropped, AddSession, AddPlayer, RefuseSession
  <2>2. s \in data => roster'[s] = roster[s]
    BY <1>r, <1>6 DEF ProcessUpdate, CancelSession, Dropped, Restrict, AddSession, AddPlayer,
       RefuseSession
  <2>3. s \in LoginsIn(Waiting) => s \in LoginsIn(Waiting')
    BY <1>4, <1>6 DEF LoginsIn
  <2>4. LoginWaits(id)' <=> LoginWaits(id)
    BY <1>4, <1>6 DEF LoginWaits
  <2>5. EndWaits(s) => EndWaits(s)'
    <3>1. EndWaits(s)' <=> \E u \in Range(Waiting') : u.id.session = s /\ u.disconnection
      BY DEF EndWaits, Range
    <3>2. EndWaits(s) => \E u \in Range(Waiting) : u.id.session = s /\ u.disconnection
      BY EndByRange
    <3> QED
      BY <1>4, <1>6, <3>1, <3>2
  <2>6. s \in data' \/ LoginFirst(Waiting', s)
    BY <1>5, <1>6, <2>1 DEF Awaited
  <2>7. id \in present' => s \in data' \cup LoginsIn(Waiting')
    BY <1>1, <2>1, <2>3 DEF Awaited
  <2>8. ~EndWaits(s)' => (WillWait(id)' <=> id \in present')
    BY <1>1, <2>1, <2>2, <2>4, <2>5 DEF Awaited, WillWait
  <2> QED
    BY <2>6, <2>7, <2>8 DEF Awaited
\* The end of this one would have archived it.
<1>7. CASE x.id.session = s /\ x.disconnection
  <2>1. s \in data
    BY <1>5, <1>7 DEF Awaited
  <2>2. CompleteSession(s, Cancelled)
    BY <1>7, <2>1 DEF ProcessUpdate, Cancels, MayBeRefused, CancelSession
  <2>3. archive'[s] # NoResult
    BY <1>2, <2>2, Completing, CancelledType DEF TypeOK
  <2> QED
    BY <2>3 DEF Ended
\* A login brings its session there.
<1>8. CASE x.id.session = s /\ ~x.disconnection
  <2>1. (AddPlayer(x.id) /\ s \in data) \/ (AddSession(x.id) /\ s \notin data)
    <3>1. ~(x.id.session \notin ValidSessions)
      BY <1>8
    <3>2. \/ x.id.session \in data /\ AddPlayer(x.id)
          \/ x.id.session \notin data /\ AddSession(x.id)
          \/ x.id.session \notin data /\ x.id.session \notin ValidSessions
      <4>1. x.disconnection = FALSE
        BY <1>2, <1>8 DEF Updates
      <4> QED
        BY <4>1 DEF ProcessUpdate, Cancels, MayBeRefused
    <3> QED
      BY <1>8, <3>1, <3>2
  <2>2. s \in data'
    BY <1>8, <2>1 DEF AddPlayer, AddSession
  <2>3. roster'[s] = IF s \in data THEN roster[s] \cup {x.id.player} ELSE {x.id.player}
    BY <1>r, <1>8, <2>1 DEF AddPlayer, AddSession
  <2>4. EndWaits(s) => EndWaits(s)'
    <3>1. EndWaits(s)' <=> \E u \in Range(Waiting') : u.id.session = s /\ u.disconnection
      BY DEF EndWaits, Range
    <3>2. EndWaits(s) => \E u \in Range(Waiting) : u.id.session = s /\ u.disconnection
      BY EndByRange
    <3> QED
      BY <1>4, <1>8, <3>1, <3>2
  <2>5. CASE x.id = id
    <3>1. x = [id |-> id, disconnection |-> FALSE]
      BY <1>2, <1>8, <2>5 DEF Updates
    <3>2. WillWait(id)
      BY <1>4, <3>1 DEF WillWait, LoginWaits
    <3>3. WillWait(id)'
      BY <2>2, <2>3, <2>5 DEF WillWait
    <3> QED
      BY <1>1, <2>2, <2>4, <3>2, <3>3 DEF Awaited
  <2>6. CASE x.id # id
    <3>1. x.id.player # id.player
      BY <1>2, <1>8, <2>6 DEF Ids, Service!Ids
    <3>2. LoginWaits(id)' <=> LoginWaits(id)
      BY <1>4, <2>6 DEF LoginWaits
    <3>3. WillWait(id)' <=> WillWait(id)
      BY <2>2, <2>3, <3>1, <3>2 DEF WillWait
    <3> QED
      BY <1>1, <2>2, <2>4, <3>3 DEF Awaited
  <2> QED
    BY <2>5, <2>6
<1> QED
  BY <1>6, <1>7, <1>8

\* Only sessions that are over are erased.
LEMMA EraseAwaited ==
    ASSUME EachSessionHasRoster, FinishedEnded, EraseFinished,
           NEW id \in Tokens, Awaited(id), ~Ended(id.session)
    PROVE  Awaited(id)'
<1>1. UNCHANGED <<present, updates, batch>> /\ id.session \notin finished
  BY DEF EraseFinished, FinishedEnded
<1>2. /\ id.session \in data' <=> id.session \in data
      /\ id.session \in data => roster'[id.session] = roster[id.session]
  BY <1>1 DEF EraseFinished, Dropped, Restrict, EachSessionHasRoster
<1> QED
  BY <1>1, <1>2 DEF Awaited, Waiting, EndWaits, WillWait, LoginWaits

\* What is listed is over, and stays so until it is erased.
LEMMA FinishedStep ==
    ASSUME TypeOK, Orderly, FinishedEnded, [Next]_vars, ~StopServer, ~Stopping
    PROVE  FinishedEnded'
<1>0. finished \subseteq Sessions /\ finishing \subseteq Sessions /\ Service!TypeOK
  BY DEF TypeOK
<1>1. CASE Forget
  BY <1>1 DEF Forget, Settled, FinishedEnded, Ended, TypeOK
<1>2. CASE ProcessUpdate
  <2> DEFINE s == Head(batch).id.session
  <2>1. s \in Sessions
    BY <1>2, UpdateType
  <2>2. CASE CompleteSession(s, Cancelled) /\ finishing' = finishing \cup {s}
    BY <1>0, <1>2, <2>1, <2>2, Completing, CancelledType
    DEF ProcessUpdate, FinishedEnded, Ended
  <2>3. CASE UNCHANGED <<archive, finishing>>
    BY <1>2, <2>3 DEF ProcessUpdate, FinishedEnded, Ended
  <2> QED
    BY <1>2, <2>2, <2>3 DEF ProcessUpdate, CancelSession, RefuseSession
<1>3. ASSUME NEW s \in Sessions, CompleteMatched(s) PROVE FinishedEnded'
  <2>1. matched[s] \in Games
    BY <1>3, OnSessions DEF CompleteMatched, TypeOK
  <2>2. finished' = finished \cup {s} /\ finishing' = finishing
    BY <1>3 DEF CompleteMatched, Noted
  <2>3. archive'[s] # NoResult /\ \A t \in Sessions \ {s} : archive'[t] = archive[t]
    BY <1>0, <1>3, <2>1, Completing DEF CompleteMatched
  <2> QED
    BY <1>0, <2>2, <2>3 DEF FinishedEnded, Ended
<1>4. CASE EraseFinished
  BY <1>4 DEF EraseFinished, FinishedEnded, Ended
<1>5. CASE UNCHANGED <<archive, finished, finishing>>
  BY <1>5 DEF FinishedEnded, Ended
<1>6. CASE CheckRunning \/ ReturnFromWait
  BY <1>6 DEF CheckRunning, ReturnFromWait, FinishedEnded, Ended
<1> QED
  BY <1>1, <1>2, <1>3, <1>4, <1>5, <1>6
  DEF Next, vars, LoopStep, PlayerConnect, PlayerDisconnect, Service!Close,
      ProcessMessage, AddUpdate, LockMatch, LookForUpdates, SpuriousWakeup,
      SwapUpdates, UpdatesProcessed, Match, BeginCompletion, EndTick, Restart

\* No other step changes who waits, or who will.
LEMMA WaitStep ==
    TypeOK /\ EachSessionHasRoster /\ MatchInv /\ WaitInv /\ [Next]_vars => WaitInv'
<1> SUFFICES ASSUME TypeOK, EachSessionHasRoster, MatchInv, WaitInv, [Next]_vars,
                    NeverStopped'
             PROVE  /\ FinishedEnded'
                    /\ \A id \in Tokens : id.session \in ValidSessions /\ ~Ended(id.session)'
                                             => Awaited(id)'
  BY DEF WaitInv
<1>1. NeverStopped /\ ~StopServer
  BY StopCalls
<1>2. /\ Orderly /\ FinishedEnded
      /\ \A id \in Tokens : id.session \in ValidSessions /\ ~Ended(id.session) => Awaited(id)
  BY <1>1 DEF MatchInv, WaitInv
<1>3. ~Stopping /\ ~Restart
  BY <1>2 DEF Orderly, Stopping, StopLock, StopService, StopMatching, StopUpdates, StopNotify,
     StopStep, Restart
<1>4. FinishedEnded'
  BY <1>1, <1>2, <1>3, FinishedStep
<1>5. ASSUME NEW id \in Tokens, id.session \in ValidSessions, ~Ended(id.session)'
      PROVE  Awaited(id)'
  <2> DEFINE s == id.session
  <2>0. s \in Sessions /\ Service!TypeOK
    BY TokenFacts DEF TypeOK
  <2>1. CASE Forget
    <3>1. archive'[s] = archive[s] \/ Settled(s)
      BY <1>5, <2>0, <2>1 DEF Forget
    <3>2. UNCHANGED <<present, data, roster, updates, batch>>
      BY <2>1 DEF Forget, Service!Forget
    <3>3. CASE ~Ended(s)
      BY <1>2, <1>5, <3>2, <3>3 DEF Awaited, Waiting, EndWaits, WillWait, LoginWaits
    <3>4. CASE Settled(s)
      <4>1. updates \in Seq(Updates) /\ batch \in Seq(Updates)
        BY DEF TypeOK
      <4>2. \A u \in Range(Waiting) : u.id.session # s
        BY <3>4, <4>1, TwoListsRange DEF Settled, Waiting
      <4>3. Waiting' = Waiting
        BY <3>2 DEF Waiting
      <4>4. s \notin data /\ id \notin present
        BY <3>4 DEF Settled
      <4>5. LoginFirst(Waiting, s) /\ ~LoginWaits(id)
        BY <4>2 DEF LoginFirst, LoginWaits, Range
      <4> QED
        BY <3>2, <4>3, <4>4, <4>5 DEF Awaited, WillWait, LoginWaits
    <3> QED
      BY <3>1, <3>3, <3>4, <1>5 DEF Ended
  <2>2. ~Forget => ~Ended(s)
    <3>1. ASSUME NEW t \in Sessions, NEW r \in Games, CompleteSession(t, r)
          PROVE  ~Ended(s)
      BY <1>5, <2>0, <3>1, Completing DEF Ended
    <3>2. CASE UNCHANGED archive
      BY <1>5, <3>2 DEF Ended
    <3>3. CASE ProcessUpdate
      BY <3>1, <3>2, <3>3, UpdateType, CancelledType
      DEF ProcessUpdate, CancelSession, RefuseSession
    <3>4. ASSUME NEW t \in Sessions, CompleteMatched(t) PROVE ~Ended(s)
      <4>1. matched[t] \in Games
        BY <3>4, OnSessions DEF CompleteMatched, TypeOK
      <4> QED
        BY <3>1, <3>4, <4>1 DEF CompleteMatched
    <3> QED
      BY <1>1, <1>3, <3>2, <3>3, <3>4
      DEF Next, vars, LoopStep, PlayerConnect, PlayerDisconnect, Service!Close,
          ProcessMessage, CheckRunning, LockMatch, LookForUpdates, SpuriousWakeup,
          ReturnFromWait, SwapUpdates, UpdatesProcessed, EraseFinished, Match,
          BeginCompletion, EndTick
  <2>3. ~Forget => Awaited(id)
    BY <1>2, <1>5, <2>2
  <2>4. ASSUME NEW other \in Tokens, ~Forget,
               PlayerConnect(other) \/ PlayerDisconnect(other) \/ ProcessMessage(other)
        PROVE  Awaited(id)'
    <3>1. Awaited(other) \/ other.session # s
      BY <1>2, <1>5, <2>2, <2>4
    <3> QED
      BY <2>3, <2>4, <3>1, CallAwaited
  <2>5. CASE SwapUpdates /\ ~Forget
    <3>1. batch = <<>> /\ updates \in Seq(Updates)
      BY <1>2, <2>5 DEF SwapUpdates, Orderly, TypeOK
    <3>2. Waiting' = Waiting
      BY <2>5, <3>1, TwoLists DEF SwapUpdates, Waiting
    <3>3. UNCHANGED <<present, data, roster>>
      BY <2>5 DEF SwapUpdates
    <3> QED
      BY <2>3, <2>5, <3>2, <3>3 DEF Awaited, EndWaits, WillWait, LoginWaits
  <2>6. CASE UNCHANGED <<present, data, roster, updates, batch>> /\ ~Forget
    BY <2>3, <2>6 DEF Awaited, Waiting, EndWaits, WillWait, LoginWaits
  <2>7. ASSUME NEW t \in Sessions, CompleteMatched(t)
        PROVE  UNCHANGED <<present, data, roster, updates, batch>>
    BY <2>7 DEF CompleteMatched, CompleteSession, Service!Complete
  <2> QED
    BY <1>1, <1>2, <1>3, <1>5, <2>1, <2>2, <2>3, <2>4, <2>5, <2>6, <2>7,
       UpdateAwaited, EraseAwaited
    DEF Next, vars, LoopStep, CheckRunning, LockMatch, LookForUpdates, SpuriousWakeup,
        ReturnFromWait, UpdatesProcessed, Match, BeginCompletion, EndTick
<1> QED
  BY <1>4, <1>5

\* Until stop is called, and for any number of players, sessions and updates that
\* wait and any matchmaker: who is logged in to a session that is neither over
\* nor about to be is among those waiting for a match, and nobody else (:272-313).
THEOREM PresentWait == Spec => []PresentWillWait
<1>1. Init => WaitInv
  <2> SUFFICES ASSUME Init PROVE FinishedEnded /\ \A id \in Tokens : Awaited(id)
    BY DEF WaitInv
  <2>1. Waiting = <<>> /\ present = {} /\ data = {} /\ finished = {} /\ finishing = {}
    BY TwoLists DEF Init, Waiting, Service!Init
  <2> QED
    BY <2>1, EmptyFacts DEF Awaited, FinishedEnded, LoginFirst, WillWait, LoginWaits
<1>2. WaitInv => PresentWillWait
  BY DEF WaitInv, Awaited, Ended, PresentWillWait
<1> QED
  BY <1>1, <1>2, WaitStep, Types, RostersFound, MatchesOrdered, PTL DEF Spec
==============================================================================
