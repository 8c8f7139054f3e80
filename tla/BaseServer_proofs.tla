-------------------------- MODULE BaseServer_proofs --------------------------
(***************************************************************************)
(* What holds of BaseServer for every number of connections, players,      *)
(* sessions and stops: its types and what stop can close, whatever the     *)
(* number of workers, and, when there is one worker, the agreement of its  *)
(* records, the players announced and the players counted; that it         *)
(* implements SessionService; and what its players are told of the end of  *)
(* a session and of messages.                                              *)
(***************************************************************************)
EXTENDS BaseServer, BufferedMap_proofs, FiniteSetTheorems, TLAPS

USE TokensAssumption, ElapseAssumption, NumbersAssumption
    DEF network, records, rosters, players, callers

\* What a worker has in hand, from the place where it is.
LEMMA InHandFacts ==
    ASSUME TypeOK, NEW w \in Workers
    PROVE  /\ worker[w].pc = "act" => worker[w].act \in Actions
           /\ worker[w].pc \in {"open", "leave", "unlist", "report"} =>
                 worker[w].hdl \in Hdls /\ worker[w].id \in Ids
BY DEF TypeOK, WorkerStates

\* The states that a worker goes to.
LEMMA PlaceFacts ==
    /\ \A p \in {"check", "lock", "wait", "woken", "done"} : [pc |-> p] \in WorkerStates
    /\ \A a \in Actions : [pc |-> "act", act |-> a] \in WorkerStates
    /\ \A p \in {"open", "leave", "unlist", "report"}, h \in Hdls, id \in Ids :
          [pc |-> p, hdl |-> h, id |-> id] \in WorkerStates
BY DEF WorkerStates

\* The parts of an action by its type.
LEMMA ActionFacts ==
    ASSUME NEW a \in Actions
    PROVE  /\ a.hdl \in Hdls
           /\ a.type = "IN_MESSAGE" => a.msg \in Texts
           /\ a.type = "CLOSE_CONNECTION" => a.msg \in ResultTokens
BY DEF Actions

\* Moving one worker keeps the others where they are.
LEMMA GotoType ==
    ASSUME TypeOK, NEW w \in Workers, NEW state \in WorkerStates, Goto(w, state)
    PROVE  worker' \in [Workers -> WorkerStates]
BY DEF TypeOK, Goto

\* A notification moves at most one waiting worker.
LEMMA NotifyType ==
    ASSUME TypeOK, NotifyOne
    PROVE  worker' \in [Workers -> WorkerStates]
<1>1. CASE Waiting = {}
  BY <1>1 DEF TypeOK, NotifyOne
<1>2. CASE Waiting # {}
  <2>1. PICK w \in Waiting : worker' = [worker EXCEPT ![w] = [pc |-> "woken"]]
    BY <1>2 DEF NotifyOne
  <2>2. [pc |-> "woken"] \in WorkerStates
    BY PlaceFacts
  <2> QED
    BY <2>1, <2>2 DEF TypeOK, Waiting
<1> QED
  BY <1>1, <1>2

\* A push appends one action and notifies.
LEMMA PushType ==
    ASSUME TypeOK, NEW type, NEW h, NEW m, Push(type, h, m),
           [type |-> type, hdl |-> h, msg |-> m] \in Actions
    PROVE  actions' \in Seq(Actions) /\ worker' \in [Workers -> WorkerStates]
<1>1. worker' \in [Workers -> WorkerStates]
  BY NotifyType DEF Push
<1> QED
  BY <1>1 DEF Push, TypeOK

\* Closing connections leaves websocketpp with a state for each.
LEMMA CloseType ==
    ASSUME TypeOK, NEW hs, Close(hs)
    PROVE  conn' \in [Hdls -> ConnStates]
BY DEF TypeOK, Close, ConnStates

\* A client is told result tokens.
LEMMA SendType ==
    ASSUME TypeOK, NEW h, NEW token \in ResultTokens, Send(h, token)
    PROVE  told' \in [Hdls -> SUBSET ResultTokens]
BY DEF TypeOK, Send

\* update_session_locks keeps the archive a buffered map.
LEMMA ReleasedType ==
    ASSUME TypeOK, NEW n
    PROVE  Released(n) \in BufferedMaps(Sessions, Results)
<1>1. locked \in BufferedMaps(Sessions, Results)
  BY DEF TypeOK
<1>2. Clear(locked) \in BufferedMaps(Sessions, Results)
  BY <1>1, ClearFacts
<1>3. Clear(Clear(locked)) \in BufferedMaps(Sessions, Results)
  BY <1>2, ClearFacts
<1> QED
  BY <1>1, <1>2, <1>3 DEF Released

\* An archived result is a result.
LEMMA AtType ==
    ASSUME NEW b \in BufferedMaps(Sessions, Results), NEW s, Contains(b, s)
    PROVE  At(b, s) \in Results
<1>1. b.m1 \in Maps(Sessions, Results) /\ b.m2 \in Maps(Sessions, Results)
  BY DEF BufferedMaps
<1>2. b.m1 \in [DOMAIN b.m1 -> Results] /\ b.m2 \in [DOMAIN b.m2 -> Results]
  BY <1>1, MapsElim
<1> QED
  BY <1>2 DEF At, Contains, Keys

------------------------------------------------------------------------------
\* The initial state is well typed.
LEMMA InitType == Init => TypeOK
<1> SUFFICES ASSUME Init PROVE TypeOK
  OBVIOUS
<1>1. EmptyBuffer \in BufferedMaps(Sessions, Results)
  BY EmptyBufferFacts
<1>2. [pc |-> "check"] \in WorkerStates
  BY PlaceFacts
<1>3. <<>> \in Seq(Actions)
  OBVIOUS
<1>4. [pc |-> "idle"] \in LoopStates
  BY DEF LoopStates
<1> QED
  BY <1>1, <1>2, <1>3, <1>4 DEF Init, TypeOK, ConnStates

\* The handlers of websocketpp keep the types.
LEMMA NetworkType ==
    ASSUME TypeOK, NEW h \in Hdls, Network(h)
    PROVE  TypeOK'
<1>1. CASE OnOpen(h)
  <2>1. [type |-> "SUBSCRIBE", hdl |-> h, msg |-> NoMsg] \in Actions
    BY DEF Actions
  <2>2. actions' \in Seq(Actions) /\ worker' \in [Workers -> WorkerStates]
    BY <1>1, <2>1, PushType, NotifyType DEF OnOpen, TypeOK
  <2>3. conn' \in [Hdls -> ConnStates]
    BY <1>1 DEF OnOpen, TypeOK, ConnStates
  <2> QED
    BY <1>1, <2>2, <2>3 DEF OnOpen, TypeOK
<1>2. CASE \E text \in Texts : OnMessage(h, text)
  <2>1. PICK text \in Texts : OnMessage(h, text)
    BY <1>2
  <2>2. [type |-> "IN_MESSAGE", hdl |-> h, msg |-> text] \in Actions
    BY DEF Actions
  <2>3. actions' \in Seq(Actions) /\ worker' \in [Workers -> WorkerStates]
    BY <2>1, <2>2, PushType DEF OnMessage
  <2>4. conn' \in [Hdls -> ConnStates]
    BY <2>1 DEF OnMessage, TypeOK, ConnStates
  <2> QED
    BY <2>1, <2>3, <2>4 DEF OnMessage, TypeOK
<1>3. CASE OnClose(h)
  <2>1. [type |-> "UNSUBSCRIBE", hdl |-> h, msg |-> NoMsg] \in Actions
    BY DEF Actions
  <2>2. actions' \in Seq(Actions) /\ worker' \in [Workers -> WorkerStates]
    BY <1>3, <2>1, PushType DEF OnClose
  <2>3. conn' \in [Hdls -> ConnStates]
    BY <1>3 DEF OnClose, TypeOK, ConnStates
  <2> QED
    BY <1>3, <2>2, <2>3 DEF OnClose, TypeOK
<1> QED
  BY <1>1, <1>2, <1>3 DEF Network

\* The steps of a worker that only move it, or take from the queue.
LEMMA QueueStepType ==
    ASSUME TypeOK, NEW w \in Workers,
           CheckRunning(w) \/ TakeAction(w) \/ ReturnFromWait(w) \/ SpuriousWakeup(w)
    PROVE  TypeOK'
<1>1. CASE CheckRunning(w) \/ ReturnFromWait(w) \/ SpuriousWakeup(w)
  <2>1. worker' \in [Workers -> WorkerStates]
    BY <1>1, PlaceFacts, GotoType DEF CheckRunning, ReturnFromWait, SpuriousWakeup
  <2> QED
    BY <1>1, <2>1 DEF CheckRunning, ReturnFromWait, SpuriousWakeup, TypeOK
<1>2. CASE TakeAction(w)
  <2>1. CASE actions = <<>>
    <3>1. worker' \in [Workers -> WorkerStates]
      BY <1>2, <2>1, PlaceFacts, GotoType DEF TakeAction
    <3> QED
      BY <1>2, <2>1, <3>1 DEF TakeAction, TypeOK
  <2>2. CASE actions # <<>>
    <3>1. Head(actions) \in Actions /\ Tail(actions) \in Seq(Actions)
      BY <2>2 DEF TypeOK
    <3>2. worker' \in [Workers -> WorkerStates]
      BY <1>2, <2>2, <3>1, PlaceFacts, GotoType DEF TakeAction
    <3> QED
      BY <1>2, <2>2, <3>1, <3>2 DEF TakeAction, TypeOK
  <2> QED
    BY <2>1, <2>2
<1> QED
  BY <1>1, <1>2

\* The steps of a worker that process an action or a departure.
LEMMA ProcessType ==
    ASSUME TypeOK, NEW w \in Workers,
           \/ Subscribe(w) \/ Unsubscribe(w) \/ Leave(w) \/ Unlist(w) \/ Report(w)
           \/ InMessage(w) \/ OutMessage(w) \/ CloseConnection(w)
    PROVE  TypeOK'
<1> USE InHandFacts, PlaceFacts
<1>1. CASE Subscribe(w) \/ OutMessage(w)
  <2>1. worker' \in [Workers -> WorkerStates]
    BY <1>1, GotoType DEF Subscribe, OutMessage
  <2>2. newConnections' \in SUBSET Hdls
    BY <1>1, ActionFacts DEF Subscribe, OutMessage, TypeOK, InHand, IsAt
  <2> QED
    BY <1>1, <2>1, <2>2 DEF Subscribe, OutMessage, TypeOK
<1>2. CASE Unsubscribe(w)
  <2> DEFINE h == worker[w].act.hdl
  <2>1. h \in Hdls
    BY <1>2, ActionFacts DEF Unsubscribe, InHand, IsAt
  <2>2. worker' \in [Workers -> WorkerStates]
    <3>1. CASE connectionId[h] = NoId
      BY <1>2, <3>1, GotoType DEF Unsubscribe
    <3>2. CASE connectionId[h] # NoId
      <4>1. connectionId[h] \in Ids
        BY <2>1, <3>2 DEF TypeOK
      <4>2. [pc |-> "leave", hdl |-> h, id |-> connectionId[h]] \in WorkerStates
        BY <2>1, <4>1
      <4> QED
        BY <1>2, <3>2, <4>2, GotoType DEF Unsubscribe
    <3> QED
      BY <3>1, <3>2
  <2>3. newConnections' \in SUBSET Hdls
    BY <1>2 DEF Unsubscribe, Forgotten, TypeOK
  <2> QED
    BY <1>2, <2>2, <2>3 DEF Unsubscribe, TypeOK
<1>3. CASE Leave(w)
  <2>1. worker[w].hdl \in Hdls /\ worker[w].id \in Ids
    BY <1>3 DEF Leave, IsAt
  <2>2. worker' \in [Workers -> WorkerStates]
    BY <1>3, <2>1, GotoType DEF Leave, Departure
  <2>3. /\ connectionId' \in [Hdls -> Ids \cup {NoId}]
        /\ idConnection' \in [Ids -> Hdls \cup {NoHdl}]
    BY <1>3, <2>1 DEF Leave, TypeOK
  <2> QED
    BY <1>3, <2>2, <2>3 DEF Leave, TypeOK
<1>4. CASE Unlist(w)
  <2>1. worker[w].hdl \in Hdls /\ worker[w].id \in Ids
    BY <1>4 DEF Unlist, IsAt
  <2>2. worker' \in [Workers -> WorkerStates]
    BY <1>4, <2>1, GotoType DEF Unlist, Departure
  <2>3. sessionPlayers' \in [Sessions -> SUBSET Players]
    BY <1>4, <2>1 DEF Unlist, Unlisted, TypeOK
  <2> QED
    BY <1>4, <2>2, <2>3 DEF Unlist, TypeOK
<1>5. CASE Report(w)
  <2>1. worker' \in [Workers -> WorkerStates]
    BY <1>5, GotoType DEF Report
  <2>2. playerCount' \in 0..CountMod - 1
    BY <1>5 DEF Report, CountDeparture, TypeOK
  <2> QED
    BY <1>5, <2>1, <2>2 DEF Report, Departed, TypeOK
<1>6. CASE InMessage(w)
  <2>1. worker[w].act.hdl \in Hdls /\ worker[w].act.msg \in Texts
    BY <1>6, ActionFacts DEF InMessage, InHand, IsAt
  <2>2. worker' \in [Workers -> WorkerStates]
    BY <1>6, <2>1, GotoType DEF InMessage
  <2>3. conn' \in [Hdls -> ConnStates]
    BY <1>6, CloseType DEF InMessage, TypeOK
  <2> QED
    BY <1>6, <2>2, <2>3 DEF InMessage, TypeOK
<1>7. CASE CloseConnection(w)
  <2>1. worker[w].act.msg \in ResultTokens
    BY <1>7, ActionFacts DEF CloseConnection, InHand, IsAt
  <2>2. worker' \in [Workers -> WorkerStates]
    BY <1>7, GotoType DEF CloseConnection
  <2>3. conn' \in [Hdls -> ConnStates]
    BY <1>7, CloseType DEF CloseConnection, EndSession
  <2>4. told' \in [Hdls -> SUBSET ResultTokens]
    BY <1>7, <2>1, SendType DEF CloseConnection, EndSession
  <2> QED
    BY <1>7, <2>2, <2>3, <2>4 DEF CloseConnection, TypeOK
<1> QED
  BY <1>1, <1>2, <1>3, <1>4, <1>5, <1>6, <1>7

\* Both ends of open_session.
LEMMA OpenSessionType ==
    ASSUME TypeOK, NEW w \in Workers, Admit(w) \/ TurnAway(w)
    PROVE  TypeOK'
<1> DEFINE h == worker[w].hdl
           id == worker[w].id
<1>1. h \in Hdls /\ id \in Ids
  BY InHandFacts DEF Admit, TurnAway, IsAt
<1>2. locked' \in BufferedMaps(Sessions, Results)
  BY ReleasedType DEF Admit, TurnAway
<1>3. worker' \in [Workers -> WorkerStates]
  BY PlaceFacts, GotoType DEF Admit, TurnAway
<1>4. CASE Admit(w)
  <2>1. SetupConnectionId(h, id)
    BY <1>4 DEF Admit
  <2>2. conn' \in [Hdls -> ConnStates]
    BY <2>1, CloseType DEF SetupConnectionId, CloseDuplicate, TypeOK
  <2>3. playerCount' \in 0..CountMod - 1
    BY <2>1 DEF SetupConnectionId, CountLogin, TypeOK
  <2>4. connectionId' \in [Hdls -> Ids \cup {NoId}]
    BY <1>1, <2>1 DEF SetupConnectionId, ForgetDuplicate, TypeOK
  <2>5. /\ idConnection' \in [Ids -> Hdls \cup {NoHdl}]
        /\ newConnections' \in SUBSET Hdls
    BY <1>1, <2>1 DEF SetupConnectionId, Forgotten, TypeOK
  <2>6. /\ sessionPlayers' \in [Sessions -> SUBSET Players]
        /\ present' \in SUBSET Ids
    BY <1>1, <1>4 DEF Admit, TypeOK, Ids
  <2> QED
    BY <1>2, <1>3, <1>4, <2>2, <2>3, <2>4, <2>5, <2>6 DEF Admit, TypeOK
<1>5. CASE TurnAway(w)
  <2>1. At(locked', id.session) \in Results
    BY <1>2, <1>5, AtType DEF TurnAway
  <2>2. [id |-> id, result |-> At(locked', id.session)] \in ResultTokens
    BY <1>1, <2>1 DEF ResultTokens
  <2>3. told' \in [Hdls -> SUBSET ResultTokens]
    BY <1>5, <2>2, SendType DEF TurnAway, EndSession
  <2>4. conn' \in [Hdls -> ConnStates]
    BY <1>5, CloseType DEF TurnAway, EndSession
  <2> QED
    BY <1>2, <1>3, <1>5, <2>3, <2>4 DEF TurnAway, TypeOK
<1> QED
  BY <1>4, <1>5

\* The calls of the main loop.
LEMMA LoopType ==
    ASSUME TypeOK,
           \/ \E id \in Ids : SendMessage(id)
           \/ \E s \in Sessions, r \in Results : CompleteSession(s, r)
           \/ LoopStep
    PROVE  TypeOK'
<1>1. CASE \E id \in Ids : SendMessage(id)
  <2>1. PICK id \in Ids : SendMessage(id)
    BY <1>1
  <2>2. idConnection[id] \in Hdls
    BY <2>1 DEF SendMessage, TypeOK
  <2>3. loop' \in LoopStates
    BY <2>1, <2>2 DEF SendMessage, LoopStates
  <2> QED
    BY <2>1, <2>3 DEF SendMessage, TypeOK
<1>2. CASE \E s \in Sessions, r \in Results : CompleteSession(s, r)
  <2>1. PICK s \in Sessions, r \in Results : CompleteSession(s, r)
    BY <1>2
  <2>2. locked' \in BufferedMaps(Sessions, Results)
    BY <2>1, ReleasedType DEF CompleteSession
  <2>3. sessionPlayers[s] \in SUBSET Players /\ loop \in LoopStates
    BY DEF TypeOK
  <2>4. loop' \in LoopStates
    BY <2>1, <2>3 DEF CompleteSession, LoopStates
  <2> QED
    BY <2>1, <2>2, <2>4 DEF CompleteSession, TypeOK
<1>3. CASE PushMessage
  <2>1. loop.id \in Ids /\ loop.hdl \in Hdls
    BY <1>3 DEF PushMessage, TypeOK, LoopStates
  <2>2. [type |-> "OUT_MESSAGE", hdl |-> loop.hdl, msg |-> loop.id] \in Actions
    BY <2>1 DEF Actions
  <2>3. actions' \in Seq(Actions) /\ worker' \in [Workers -> WorkerStates]
    BY <1>3, <2>2, PushType DEF PushMessage
  <2>4. loop' \in LoopStates
    BY <1>3 DEF PushMessage, LoopStates
  <2> QED
    BY <1>3, <2>3, <2>4 DEF PushMessage, TypeOK
<1>4. CASE \E p \in Players : EachPlayer(p)
  <2>1. PICK p \in Players : EachPlayer(p)
    BY <1>4
  <2>2. /\ loop.sid \in Sessions /\ loop.result \in Results
        /\ loop.todo \in SUBSET Players
        /\ loop = [pc |-> "each", sid |-> loop.sid, result |-> loop.result,
                   todo |-> loop.todo]
    BY <2>1 DEF EachPlayer, TypeOK, LoopStates
  <2> DEFINE h == idConnection[[player |-> p, session |-> loop.sid]]
             rest == loop.todo \ {p}
  <2>3. h \in Hdls \cup {NoHdl} /\ rest \in SUBSET Players
    BY <2>2 DEF TypeOK, Ids
  <2>4. CASE h = NoHdl
    <3>1. loop' = [pc |-> "each", sid |-> loop.sid, result |-> loop.result,
                   todo |-> rest]
      BY <2>1, <2>2, <2>4 DEF EachPlayer
    <3>2. loop' \in LoopStates
      BY <2>2, <2>3, <3>1 DEF LoopStates
    <3> QED
      BY <2>1, <3>2 DEF EachPlayer, TypeOK
  <2>5. CASE h # NoHdl
    <3>1. loop' = [pc |-> "close", sid |-> loop.sid, result |-> loop.result,
                   todo |-> rest, player |-> p, hdl |-> h]
      BY <2>1, <2>5 DEF EachPlayer
    <3>2. loop' \in LoopStates
      BY <2>2, <2>3, <2>5, <3>1 DEF LoopStates
    <3> QED
      BY <2>1, <3>2 DEF EachPlayer, TypeOK
  <2> QED
    BY <2>4, <2>5
<1>5. CASE PushClose
  <2>1. /\ loop.sid \in Sessions /\ loop.result \in Results
        /\ loop.todo \in SUBSET Players
        /\ loop.player \in Players /\ loop.hdl \in Hdls
    BY <1>5 DEF PushClose, TypeOK, LoopStates
  <2> DEFINE token == [id |-> [player |-> loop.player, session |-> loop.sid],
                       result |-> loop.result]
  <2>2. token \in ResultTokens
    BY <2>1 DEF ResultTokens, Ids
  <2>3. [type |-> "CLOSE_CONNECTION", hdl |-> loop.hdl, msg |-> token] \in Actions
    BY <2>1, <2>2 DEF Actions
  <2>4. actions' \in Seq(Actions) /\ worker' \in [Workers -> WorkerStates]
    BY <1>5, <2>3, PushType DEF PushClose
  <2>5. loop' \in LoopStates
    BY <1>5, <2>1 DEF PushClose, LoopStates
  <2> QED
    BY <1>5, <2>4, <2>5 DEF PushClose, TypeOK
<1>6. CASE Archive
  <2>1. loop.sid \in Sessions /\ loop.result \in Results
    BY <1>6 DEF Archive, TypeOK, LoopStates
  <2>2. locked' \in BufferedMaps(Sessions, Results)
    BY <1>6, <2>1, InsertFacts DEF Archive, Archived, TypeOK
  <2>3. loop' \in LoopStates
    BY <1>6 DEF Archive, LoopStates
  <2> QED
    BY <1>6, <2>2, <2>3 DEF Archive, TypeOK
<1> QED
  BY <1>1, <1>2, <1>3, <1>4, <1>5, <1>6 DEF LoopStep

\* stop and run.
LEMMA StopType ==
    ASSUME TypeOK, StopCall \/ StopStep \/ Restart
    PROVE  TypeOK'
<1>1. CASE StopCall \/ StopLock
  <2>1. stop' \in [pc : {"idle", "lock", "clear", "notify"}, calls : Nat]
    BY <1>1 DEF StopCall, StopLock, TypeOK
  <2> QED
    BY <1>1, <2>1 DEF StopCall, StopLock, TypeOK
<1>2. CASE StopClear
  <2>1. conn' \in [Hdls -> ConnStates]
    BY <1>2, CloseType DEF StopClear, ClearRecords
  <2>2. locked' \in BufferedMaps(Sessions, Results)
    <3>1. Clear(locked) \in BufferedMaps(Sessions, Results)
      BY ClearFacts DEF TypeOK
    <3> QED
      BY <1>2, <3>1, ClearFacts DEF StopClear, ClearRecords
  <2>3. actions' \in Seq(Actions)
    BY <1>2 DEF StopClear, ClearRecords
  <2>4. playerCount' \in 0..CountMod - 1
    BY <1>2 DEF StopClear, ClearRecords
  <2>5. stop' \in [pc : {"idle", "lock", "clear", "notify"}, calls : Nat]
    BY <1>2 DEF StopClear, ClearRecords, TypeOK
  <2> QED
    BY <1>2, <2>1, <2>2, <2>3, <2>4, <2>5 DEF StopClear, ClearRecords, TypeOK
<1>3. CASE StopNotify
  <2>1. worker' \in [Workers -> WorkerStates]
    BY <1>3, PlaceFacts DEF StopNotify, TypeOK
  <2> QED
    BY <1>3, <2>1 DEF StopNotify, TypeOK
<1>4. CASE Restart
  <2>1. worker' \in [Workers -> WorkerStates]
    BY <1>4, PlaceFacts DEF Restart
  <2> QED
    BY <1>4, <2>1 DEF Restart, TypeOK
<1> QED
  BY <1>1, <1>2, <1>3, <1>4 DEF StopStep

\* Every step keeps the types.
LEMMA TypeStep == TypeOK /\ [Next]_vars => TypeOK'
<1> SUFFICES ASSUME TypeOK, [Next]_vars PROVE TypeOK'
  OBVIOUS
<1>1. CASE \E h \in Hdls : Network(h)
  BY <1>1, NetworkType
<1>2. CASE \E w \in Workers : WorkerStep(w) \/ SpuriousWakeup(w)
  BY <1>2, QueueStepType, ProcessType, OpenSessionType DEF WorkerStep
<1>3. CASE \/ \E id \in Ids : SendMessage(id)
           \/ \E s \in Sessions, r \in Results : CompleteSession(s, r)
           \/ LoopStep
  BY <1>3, LoopType
<1>4. CASE StopCall \/ StopStep \/ Restart
  BY <1>4, StopType
<1>5. CASE UNCHANGED vars
  BY <1>5 DEF vars, TypeOK
<1> QED
  BY <1>1, <1>2, <1>3, <1>4, <1>5 DEF Next

\* Types, for any number of workers: in particular a connection, an id or a
\* session that a thread carries from one lock to the next is always a real
\* one, and m_player_count never leaves the range of a std::size_t.
THEOREM Types == Spec => []TypeOK
BY InitType, TypeStep, PTL DEF Spec

------------------------------------------------------------------------------
(* Any number of workers: stop knows every open connection.                *)

\* A connection that is leaving, or is about to, is closed; an open one is in
\* the records, or its SUBSCRIBE is on the way.
ConnectionsInv ==
    /\ \A h \in Hdls : Pending("UNSUBSCRIBE", h) => conn[h] = "closed"
    /\ \A w \in Workers : IsAt(w, "leave") => conn[worker[w].hdl] = "closed"
    /\ \A h \in Hdls : conn[h] = "open" =>
          h \in newConnections \/ connectionId[h] # NoId \/ Pending("SUBSCRIBE", h)

\* Steps of workers that take no action in hand and go to no departure.
AtEase ==
    \A w \in Workers :
        \/ worker'[w] = worker[w]
        \/ worker[w].pc # "act" /\ worker'[w].pc \notin {"act", "leave"}

\* A notification only wakes up.
LEMMA NotifyAtEase ==
    ASSUME TypeOK, NotifyOne
    PROVE  AtEase
<1>1. CASE Waiting = {}
  BY <1>1 DEF NotifyOne, AtEase
<1>2. CASE Waiting # {}
  <2>1. PICK w \in Waiting : worker' = [worker EXCEPT ![w] = [pc |-> "woken"]]
    BY <1>2 DEF NotifyOne
  <2>2. worker[w].pc = "wait" /\ w \in Workers
    BY DEF Waiting
  <2>3. \A v \in Workers : worker'[v] = IF v = w THEN [pc |-> "woken"] ELSE worker[v]
    BY <2>1, <2>2 DEF TypeOK
  <2> QED
    BY <2>2, <2>3 DEF AtEase
<1> QED
  BY <1>1, <1>2

\* What is pending when nothing is taken or queued.
LEMMA EasePending ==
    ASSUME AtEase, actions' = actions, NEW type, NEW h
    PROVE  Pending(type, h)' <=> Pending(type, h)
BY DEF AtEase, Pending, InHand, IsAt

\* A push makes one action more pending.
LEMMA PushPending ==
    ASSUME TypeOK, NEW type, NEW h, NEW m, Push(type, h, m),
           NEW t, NEW g
    PROVE  Pending(t, g)' <=> Pending(t, g) \/ (t = type /\ g = h)
<1> DEFINE a == [type |-> type, hdl |-> h, msg |-> m]
<1>1. AtEase
  BY NotifyAtEase DEF Push
<1>2. actions' = Append(actions, a) /\ actions \in Seq(Actions)
  BY DEF Push, TypeOK
<1>3. DOMAIN actions' = 1..Len(actions) + 1 /\ DOMAIN actions = 1..Len(actions) /\ Len(actions) \in Nat
  BY <1>2
<1>4. \A i \in DOMAIN actions' : actions'[i] = IF i = Len(actions) + 1 THEN a ELSE actions[i]
  BY <1>2
<1>5. (\E i \in DOMAIN actions' : actions'[i].type = t /\ actions'[i].hdl = g)
         <=> \/ \E i \in DOMAIN actions : actions[i].type = t /\ actions[i].hdl = g
             \/ t = type /\ g = h
  BY <1>3, <1>4
<1>6. (\E w \in Workers : InHand(w, t)' /\ worker'[w].act.hdl = g)
         <=> (\E w \in Workers : InHand(w, t) /\ worker[w].act.hdl = g)
  BY <1>1 DEF AtEase, InHand, IsAt
<1> QED
  BY <1>5, <1>6 DEF Pending

\* An action that a worker takes is still pending.
LEMMA TakePending ==
    ASSUME TypeOK, NEW w \in Workers, TakeAction(w), NEW t, NEW g
    PROVE  Pending(t, g)' <=> Pending(t, g)
<1>1. worker[w].pc \in {"lock", "woken"}
  BY DEF TakeAction, IsAt
<1>2. CASE actions = <<>>
  <2>1. AtEase
    BY <1>1, <1>2 DEF TakeAction, Goto, AtEase, TypeOK
  <2> QED
    BY <1>2, <2>1, EasePending DEF TakeAction
<1>3. CASE actions # <<>>
  <2>1. /\ actions' = Tail(actions)
        /\ \A v \in Workers : worker'[v] = IF v = w THEN [pc |-> "act", act |-> Head(actions)]
                                                     ELSE worker[v]
    BY <1>3 DEF TakeAction, Goto, TypeOK
  <2>2. /\ actions \in Seq(Actions) /\ Len(actions) \in Nat \ {0}
        /\ DOMAIN actions = 1..Len(actions) /\ DOMAIN actions' = 1..Len(actions) - 1
        /\ Head(actions) = actions[1]
        /\ \A i \in 1..Len(actions) - 1 : actions'[i] = actions[i + 1]
    BY <1>3, <2>1 DEF TypeOK
  <2>3. (\E i \in DOMAIN actions : actions[i].type = t /\ actions[i].hdl = g)
           <=> \/ Head(actions).type = t /\ Head(actions).hdl = g
               \/ \E i \in DOMAIN actions' : actions'[i].type = t /\ actions'[i].hdl = g
    <3>1. ASSUME NEW i \in DOMAIN actions, i # 1
          PROVE  i - 1 \in DOMAIN actions' /\ actions'[i - 1] = actions[i]
      <4>1. i - 1 \in 1..Len(actions) - 1
        BY <2>2, <3>1
      <4>2. actions'[i - 1] = actions[(i - 1) + 1] /\ (i - 1) + 1 = i
        BY <2>2, <4>1
      <4> QED
        BY <2>2, <4>1, <4>2
    <3>2. ASSUME NEW i \in DOMAIN actions'
          PROVE  i + 1 \in DOMAIN actions /\ actions'[i] = actions[i + 1]
      <4>1. i \in 1..Len(actions) - 1
        BY <2>2
      <4>2. i + 1 \in 1..Len(actions)
        BY <2>2, <4>1
      <4> QED
        BY <2>2, <4>1, <4>2
    <3>3. 1 \in DOMAIN actions
      BY <2>2
    <3> QED
      BY <2>2, <3>1, <3>2, <3>3
  <2>4. (\E v \in Workers : InHand(v, t)' /\ worker'[v].act.hdl = g)
           <=> \/ Head(actions).type = t /\ Head(actions).hdl = g
               \/ \E v \in Workers : InHand(v, t) /\ worker[v].act.hdl = g
    BY <1>1, <2>1 DEF InHand, IsAt
  <2> QED
    BY <2>3, <2>4 DEF Pending
<1> QED
  BY <1>2, <1>3

\* A step that closes connections or none, and loses or queues no action.
CalmStep ==
    /\ \A h \in Hdls : /\ conn[h] = "closed" => conn'[h] = "closed"
                       /\ conn'[h] = "open" => conn[h] = "open"
    /\ \A h \in Hdls : Pending("UNSUBSCRIBE", h)' => Pending("UNSUBSCRIBE", h)
    /\ \A h \in Hdls : Pending("SUBSCRIBE", h) => Pending("SUBSCRIBE", h)'
    /\ \A w \in Workers : IsAt(w, "leave")' => worker'[w] = worker[w]
    /\ \A h \in Hdls : conn'[h] = "open" =>
          /\ h \in newConnections => h \in newConnections' \/ connectionId'[h] # NoId
          /\ connectionId[h] # NoId => connectionId'[h] # NoId

\* Calm steps keep track of the connections.
LEMMA CalmStepInv ==
    ASSUME ConnectionsInv, TypeOK, CalmStep
    PROVE  ConnectionsInv'
<1>1. ASSUME NEW h \in Hdls, Pending("UNSUBSCRIBE", h)'
      PROVE  conn'[h] = "closed"
  BY <1>1 DEF ConnectionsInv, CalmStep
<1>2. ASSUME NEW w \in Workers, IsAt(w, "leave")'
      PROVE  conn'[worker'[w].hdl] = "closed"
  <2>1. worker'[w] = worker[w] /\ IsAt(w, "leave")
    BY <1>2 DEF CalmStep, IsAt
  <2>2. worker[w].hdl \in Hdls
    BY <2>1, InHandFacts DEF IsAt
  <2> QED
    BY <2>1, <2>2 DEF ConnectionsInv, CalmStep
<1>3. ASSUME NEW h \in Hdls, conn'[h] = "open"
      PROVE  h \in newConnections' \/ connectionId'[h] # NoId \/ Pending("SUBSCRIBE", h)'
  BY <1>3 DEF ConnectionsInv, CalmStep
<1> QED
  BY <1>1, <1>2, <1>3 DEF ConnectionsInv

\* What the network does.
LEMMA NetworkConnections ==
    ASSUME ConnectionsInv, TypeOK, NEW h \in Hdls, Network(h)
    PROVE  ConnectionsInv'
<1>1. CASE OnOpen(h)
  <2>1. CASE running
    <3>1. Push("SUBSCRIBE", h, NoMsg) /\ conn' = [conn EXCEPT ![h] = "open"] /\ conn[h] = "new"
      BY <1>1, <2>1 DEF OnOpen
    <3>2. AtEase /\ UNCHANGED <<newConnections, connectionId>>
      BY <1>1, <3>1, NotifyAtEase DEF OnOpen, Push
    <3>3. \A g \in Hdls : conn'[g] = IF g = h THEN "open" ELSE conn[g]
      BY <3>1 DEF TypeOK
    <3>4. \A g \in Hdls : /\ Pending("UNSUBSCRIBE", g)' => Pending("UNSUBSCRIBE", g)
                          /\ Pending("SUBSCRIBE", g) \/ g = h => Pending("SUBSCRIBE", g)'
      BY <3>1, PushPending
    <3>5. \A g \in Hdls : Pending("UNSUBSCRIBE", g)' => conn'[g] = "closed"
      BY <3>1, <3>3, <3>4 DEF ConnectionsInv
    <3>6. ASSUME NEW w \in Workers, IsAt(w, "leave")'
          PROVE  conn'[worker'[w].hdl] = "closed"
      <4>1. worker'[w] = worker[w] /\ IsAt(w, "leave")
        BY <3>2, <3>6 DEF AtEase, IsAt
      <4>2. worker[w].hdl \in Hdls /\ conn[worker[w].hdl] = "closed"
        BY <4>1, InHandFacts DEF IsAt, ConnectionsInv
      <4> QED
        BY <3>1, <3>3, <4>1, <4>2
    <3>7. \A g \in Hdls : conn'[g] = "open" =>
             g \in newConnections' \/ connectionId'[g] # NoId \/ Pending("SUBSCRIBE", g)'
      BY <3>2, <3>3, <3>4 DEF ConnectionsInv
    <3> QED
      BY <3>5, <3>6, <3>7 DEF ConnectionsInv
  <2>2. CASE ~running
    <3>1. AtEase /\ UNCHANGED <<newConnections, connectionId, actions>>
      BY <1>1, <2>2, NotifyAtEase DEF OnOpen
    <3>2. conn' = [conn EXCEPT ![h] = "closing"] /\ conn[h] = "new"
      BY <1>1, <2>2 DEF OnOpen
    <3>3. \A g \in Hdls : conn'[g] = IF g = h THEN "closing" ELSE conn[g]
      BY <3>2 DEF TypeOK
    <3>4. \A g \in Hdls : /\ Pending("UNSUBSCRIBE", g)' <=> Pending("UNSUBSCRIBE", g)
                          /\ Pending("SUBSCRIBE", g)' <=> Pending("SUBSCRIBE", g)
      BY <3>1, EasePending
    <3>5. CalmStep
      BY <3>1, <3>2, <3>3, <3>4 DEF CalmStep, AtEase, IsAt
    <3> QED
      BY <3>5, CalmStepInv
  <2> QED
    BY <2>1, <2>2
<1>2. CASE \E text \in Texts : OnMessage(h, text)
  <2>1. PICK text \in Texts : OnMessage(h, text)
    BY <1>2
  <2>2. Push("IN_MESSAGE", h, text) /\ UNCHANGED <<newConnections, connectionId>>
    BY <2>1 DEF OnMessage
  <2>3. AtEase
    BY <2>2, NotifyAtEase DEF Push
  <2>4. \A g \in Hdls : conn'[g] = conn[g] \/ (conn[g] = "late" /\ conn'[g] = "closing")
    BY <2>1 DEF OnMessage, TypeOK
  <2>5. \A g \in Hdls : /\ Pending("UNSUBSCRIBE", g)' <=> Pending("UNSUBSCRIBE", g)
                        /\ Pending("SUBSCRIBE", g)' <=> Pending("SUBSCRIBE", g)
    BY <2>2, PushPending
  <2>6. CalmStep
    BY <2>2, <2>3, <2>4, <2>5 DEF CalmStep, AtEase, IsAt
  <2> QED
    BY <2>6, CalmStepInv
<1>3. CASE OnClose(h)
  <2>1. Push("UNSUBSCRIBE", h, NoMsg) /\ UNCHANGED <<newConnections, connectionId>>
    BY <1>3 DEF OnClose
  <2>2. AtEase
    BY <2>1, NotifyAtEase DEF Push
  <2>3. \A g \in Hdls : conn'[g] = IF g = h THEN "closed" ELSE conn[g]
    BY <1>3 DEF OnClose, TypeOK
  <2>4. \A g \in Hdls : /\ Pending("UNSUBSCRIBE", g)' => Pending("UNSUBSCRIBE", g) \/ g = h
                        /\ Pending("SUBSCRIBE", g) => Pending("SUBSCRIBE", g)'
    BY <2>1, PushPending
  <2>5. \A g \in Hdls : Pending("UNSUBSCRIBE", g)' => conn'[g] = "closed"
    BY <2>3, <2>4 DEF ConnectionsInv
  <2>6. ASSUME NEW w \in Workers, IsAt(w, "leave")'
        PROVE  conn'[worker'[w].hdl] = "closed"
    <3>1. worker'[w] = worker[w] /\ IsAt(w, "leave")
      BY <2>2, <2>6 DEF AtEase, IsAt
    <3>2. worker[w].hdl \in Hdls /\ conn[worker[w].hdl] = "closed"
      BY <3>1, InHandFacts DEF IsAt, ConnectionsInv
    <3> QED
      BY <2>3, <3>1, <3>2
  <2>7. \A g \in Hdls : conn'[g] = "open" =>
           g \in newConnections' \/ connectionId'[g] # NoId \/ Pending("SUBSCRIBE", g)'
    BY <2>1, <2>3, <2>4 DEF ConnectionsInv
  <2> QED
    BY <2>5, <2>6, <2>7 DEF ConnectionsInv
<1> QED
  BY <1>1, <1>2, <1>3 DEF Network

\* The queue and the worker's own place.
LEMMA QueueConnections ==
    ASSUME ConnectionsInv, TypeOK, NEW w \in Workers,
           CheckRunning(w) \/ TakeAction(w) \/ ReturnFromWait(w) \/ SpuriousWakeup(w)
    PROVE  ConnectionsInv'
<1>1. UNCHANGED <<conn, newConnections, connectionId>>
  BY DEF CheckRunning, TakeAction, ReturnFromWait, SpuriousWakeup
<1>2. CASE CheckRunning(w) \/ ReturnFromWait(w) \/ SpuriousWakeup(w)
  <2>1. AtEase /\ actions' = actions
    BY <1>2 DEF CheckRunning, ReturnFromWait, SpuriousWakeup, Goto, AtEase, TypeOK, IsAt
  <2>2. \A h \in Hdls : /\ Pending("UNSUBSCRIBE", h)' <=> Pending("UNSUBSCRIBE", h)
                        /\ Pending("SUBSCRIBE", h)' <=> Pending("SUBSCRIBE", h)
    BY <2>1, EasePending
  <2>3. CalmStep
    BY <1>1, <2>1, <2>2 DEF CalmStep, AtEase, IsAt
  <2> QED
    BY <2>3, CalmStepInv
<1>3. CASE TakeAction(w)
  <2>1. \A h \in Hdls : /\ Pending("UNSUBSCRIBE", h)' <=> Pending("UNSUBSCRIBE", h)
                        /\ Pending("SUBSCRIBE", h)' <=> Pending("SUBSCRIBE", h)
    BY <1>3, TakePending
  <2>2. \A v \in Workers : IsAt(v, "leave")' => worker'[v] = worker[v]
    BY <1>3 DEF TakeAction, Goto, TypeOK, IsAt
  <2>3. CalmStep
    BY <1>1, <2>1, <2>2 DEF CalmStep
  <2> QED
    BY <2>3, CalmStepInv
<1> QED
  BY <1>2, <1>3

\* A worker that goes to a place without an action in hand makes nothing
\* pending, and at most what it had in hand is pending no more.
LEMMA GotoPending ==
    ASSUME TypeOK, NEW w \in Workers, NEW state, state.pc # "act", Goto(w, state),
           actions' = actions, NEW t, NEW h
    PROVE  /\ Pending(t, h)' => Pending(t, h)
           /\ Pending(t, h) => Pending(t, h)' \/ (InHand(w, t) /\ worker[w].act.hdl = h)
<1>1. \A v \in Workers : worker'[v] = IF v = w THEN state ELSE worker[v]
  BY DEF Goto, TypeOK
<1> QED
  BY <1>1 DEF Pending, InHand, IsAt

\* Closing leaves closed what is closed, and open only what was.
LEMMA CloseConnections ==
    ASSUME TypeOK, NEW hs, Close(hs), NEW h \in Hdls
    PROVE  /\ conn[h] = "closed" => conn'[h] = "closed"
           /\ conn'[h] = "open" => conn[h] = "open" /\ h \notin hs
BY DEF Close

\* The steps of a worker that leave the records of connections alone.
LEMMA ProcessConnections ==
    ASSUME ConnectionsInv, TypeOK, NEW w \in Workers,
           \/ Unlist(w) \/ Report(w) \/ InMessage(w) \/ TurnAway(w)
           \/ OutMessage(w) \/ CloseConnection(w)
    PROVE  ConnectionsInv'
<1>1. UNCHANGED <<actions, newConnections, connectionId>>
  BY DEF Unlist, Report, InMessage, TurnAway, OutMessage, CloseConnection
<1>2. PICK state : Goto(w, state) /\ state.pc \in {"check", "report", "open"}
  BY DEF Unlist, Report, InMessage, TurnAway, OutMessage, CloseConnection, Departure
<1>3. ~InHand(w, "SUBSCRIBE")
  BY DEF Unlist, Report, InMessage, TurnAway, OutMessage, CloseConnection, InHand, IsAt
<1>4. \A h \in Hdls : /\ conn[h] = "closed" => conn'[h] = "closed"
                      /\ conn'[h] = "open" => conn[h] = "open"
  <2>1. UNCHANGED conn \/ \E hs : Close(hs)
    BY DEF Unlist, Report, InMessage, TurnAway, OutMessage, CloseConnection, EndSession
  <2> QED
    BY <2>1, CloseConnections
<1>5. \A h \in Hdls : /\ Pending("UNSUBSCRIBE", h)' => Pending("UNSUBSCRIBE", h)
                      /\ Pending("SUBSCRIBE", h) => Pending("SUBSCRIBE", h)'
  BY <1>1, <1>2, <1>3, GotoPending
<1>6. \A v \in Workers : IsAt(v, "leave")' => worker'[v] = worker[v]
  BY <1>2 DEF Goto, TypeOK, IsAt
<1>7. CalmStep
  BY <1>1, <1>4, <1>5, <1>6 DEF CalmStep
<1> QED
  BY <1>7, CalmStepInv

\* A SUBSCRIBE that is processed puts its connection into the records.
LEMMA SubscribeConnections ==
    ASSUME ConnectionsInv, TypeOK, NEW w \in Workers, Subscribe(w)
    PROVE  ConnectionsInv'
<1> DEFINE g == worker[w].act.hdl
<1>1. /\ UNCHANGED <<conn, actions, connectionId>>
      /\ newConnections' = newConnections \cup {g}
      /\ Goto(w, [pc |-> "check"])
  BY DEF Subscribe
<1>2. \A v \in Workers : IsAt(v, "leave")' => worker'[v] = worker[v]
  BY <1>1 DEF Goto, TypeOK, IsAt
<1>3. \A h \in Hdls : /\ Pending("UNSUBSCRIBE", h)' => Pending("UNSUBSCRIBE", h)
                      /\ Pending("SUBSCRIBE", h) => Pending("SUBSCRIBE", h)' \/ h = g
  BY <1>1, GotoPending
<1>4. \A h \in Hdls : Pending("UNSUBSCRIBE", h)' => conn'[h] = "closed"
  BY <1>1, <1>3 DEF ConnectionsInv
<1>5. \A v \in Workers : IsAt(v, "leave")' => conn'[worker'[v].hdl] = "closed"
  BY <1>1, <1>2 DEF ConnectionsInv, IsAt
<1>6. \A h \in Hdls : conn'[h] = "open" =>
         h \in newConnections' \/ connectionId'[h] # NoId \/ Pending("SUBSCRIBE", h)'
  BY <1>1, <1>3 DEF ConnectionsInv
<1> QED
  BY <1>4, <1>5, <1>6 DEF ConnectionsInv

\* Only a closed connection is forgotten, or begins to leave, or leaves.
LEMMA DepartureConnections ==
    ASSUME ConnectionsInv, TypeOK, NEW w \in Workers, Unsubscribe(w) \/ Leave(w)
    PROVE  ConnectionsInv'
<1>1. CASE Unsubscribe(w)
  <2> DEFINE g == worker[w].act.hdl
  <2>1. g \in Hdls /\ Pending("UNSUBSCRIBE", g) /\ conn[g] = "closed"
    BY <1>1, InHandFacts, ActionFacts DEF Unsubscribe, InHand, IsAt, Pending, ConnectionsInv
  <2>2. /\ UNCHANGED <<conn, actions, connectionId>>
        /\ newConnections \ {g} \subseteq newConnections'
    BY <1>1 DEF Unsubscribe, Forgotten
  <2>3. PICK state : /\ Goto(w, state) /\ state.pc # "act"
                     /\ state.pc = "leave" => state.hdl = g
    BY <1>1 DEF Unsubscribe
  <2>4. \A h \in Hdls : /\ Pending("UNSUBSCRIBE", h)' => Pending("UNSUBSCRIBE", h)
                        /\ Pending("SUBSCRIBE", h) => Pending("SUBSCRIBE", h)'
    <3>1. ~InHand(w, "SUBSCRIBE")
      BY <1>1 DEF Unsubscribe, InHand
    <3> QED
      BY <2>2, <2>3, <3>1, GotoPending
  <2>5. ASSUME NEW v \in Workers, IsAt(v, "leave")'
        PROVE  conn'[worker'[v].hdl] = "closed"
    <3>1. worker'[v] = IF v = w THEN state ELSE worker[v]
      BY <2>3 DEF Goto, TypeOK
    <3>2. CASE v = w
      BY <2>1, <2>2, <2>3, <2>5, <3>1, <3>2 DEF IsAt
    <3>3. CASE v # w
      BY <2>2, <2>5, <3>1, <3>3 DEF ConnectionsInv, IsAt
    <3> QED
      BY <3>2, <3>3
  <2>6. \A h \in Hdls : Pending("UNSUBSCRIBE", h)' => conn'[h] = "closed"
    BY <2>2, <2>4 DEF ConnectionsInv
  <2>7. \A h \in Hdls : conn'[h] = "open" =>
           h \in newConnections' \/ connectionId'[h] # NoId \/ Pending("SUBSCRIBE", h)'
    BY <2>1, <2>2, <2>4 DEF ConnectionsInv
  <2> QED
    BY <2>5, <2>6, <2>7 DEF ConnectionsInv
<1>2. CASE Leave(w)
  <2> DEFINE g == worker[w].hdl
  <2>1. g \in Hdls /\ conn[g] = "closed"
    BY <1>2, InHandFacts DEF Leave, IsAt, ConnectionsInv
  <2>2. /\ UNCHANGED <<conn, actions, newConnections>>
        /\ \A h \in Hdls : h # g => connectionId'[h] = connectionId[h]
        /\ Goto(w, Departure(w, "unlist"))
    BY <1>2 DEF Leave, TypeOK
  <2>3. \A h \in Hdls : /\ Pending("UNSUBSCRIBE", h)' => Pending("UNSUBSCRIBE", h)
                        /\ Pending("SUBSCRIBE", h) => Pending("SUBSCRIBE", h)'
    <3>1. ~InHand(w, "SUBSCRIBE") /\ Departure(w, "unlist").pc # "act"
      BY <1>2 DEF Leave, InHand, IsAt, Departure
    <3> QED
      BY <2>2, <3>1, GotoPending
  <2>4. \A v \in Workers : IsAt(v, "leave")' => worker'[v] = worker[v]
    BY <2>2 DEF Goto, TypeOK, IsAt, Departure
  <2>5. CalmStep
    BY <2>1, <2>2, <2>3, <2>4 DEF CalmStep
  <2> QED
    BY <2>5, CalmStepInv
<1> QED
  BY <1>1, <1>2

\* A login closes the connection that had its id.
LEMMA AdmitConnections ==
    ASSUME ConnectionsInv, TypeOK, NEW w \in Workers, Admit(w)
    PROVE  ConnectionsInv'
<1> DEFINE h == worker[w].hdl
           id == worker[w].id
           old == idConnection[id]
<1>1. h \in Hdls /\ id \in Ids /\ worker[w].pc = "open"
  BY InHandFacts DEF Admit, IsAt
<1>2. /\ SetupConnectionId(h, id)
      /\ Goto(w, [pc |-> "check"])
      /\ actions' = actions
  BY DEF Admit
<1>3. \A g \in Hdls : /\ conn[g] = "closed" => conn'[g] = "closed"
                      /\ conn'[g] = "open" => conn[g] = "open" /\ (g # old \/ old = NoHdl)
  <2>1. CASE old = NoHdl
    BY <1>2, <2>1 DEF SetupConnectionId, CloseDuplicate
  <2>2. CASE old # NoHdl
    <3>1. Close({old})
      BY <1>2, <2>2 DEF SetupConnectionId, CloseDuplicate
    <3> QED
      BY <3>1, CloseConnections
  <2> QED
    BY <2>1, <2>2
<1>4. \A g \in Hdls : g = old \/ ForgetDuplicate(id)[g] = connectionId[g]
  BY DEF ForgetDuplicate, TypeOK
<1>5. connectionId'[h] # NoId
  BY <1>1, <1>2, NullAssumption DEF SetupConnectionId, ForgetDuplicate, TypeOK
<1>6. \A g \in Hdls : g # h => connectionId'[g] = ForgetDuplicate(id)[g]
  BY <1>2 DEF SetupConnectionId, ForgetDuplicate, TypeOK
<1>7. \A g \in Hdls : g # h => (g \in newConnections => g \in newConnections')
  BY <1>2 DEF SetupConnectionId, Forgotten
<1>8. \A g \in Hdls : /\ Pending("UNSUBSCRIBE", g)' => Pending("UNSUBSCRIBE", g)
                      /\ Pending("SUBSCRIBE", g) => Pending("SUBSCRIBE", g)'
  <2>1. ~InHand(w, "SUBSCRIBE")
    BY <1>1 DEF InHand, IsAt
  <2> QED
    BY <1>2, <2>1, GotoPending
<1>9. \A v \in Workers : IsAt(v, "leave")' => worker'[v] = worker[v]
  BY <1>2 DEF Goto, TypeOK, IsAt
<1>10. CalmStep
  <2>1. ASSUME NEW g \in Hdls, conn'[g] = "open"
        PROVE  /\ g \in newConnections => g \in newConnections' \/ connectionId'[g] # NoId
               /\ connectionId[g] # NoId => connectionId'[g] # NoId
    <3>1. g # old
      <4>1. NoHdl \notin Hdls
        BY NullAssumption
      <4> QED
        BY <1>3, <2>1, <4>1
    <3> QED
      BY <1>4, <1>5, <1>6, <1>7, <3>1
  <2> QED
    BY <1>3, <1>8, <1>9, <2>1 DEF CalmStep
<1> QED
  BY <1>10, CalmStepInv

\* The main loop queues neither a SUBSCRIBE nor an UNSUBSCRIBE.
LEMMA LoopConnections ==
    ASSUME ConnectionsInv, TypeOK,
           \/ \E id \in Ids : SendMessage(id)
           \/ \E s \in Sessions, r \in Results : CompleteSession(s, r)
           \/ LoopStep
    PROVE  ConnectionsInv'
<1>1. UNCHANGED <<conn, newConnections, connectionId>>
  BY DEF SendMessage, CompleteSession, LoopStep, PushMessage, EachPlayer, PushClose, Archive
<1>2. AtEase
  <2>1. NotifyOne \/ worker' = worker
    BY DEF SendMessage, CompleteSession, LoopStep, PushMessage, EachPlayer, PushClose, Archive, Push
  <2> QED
    BY <2>1, NotifyAtEase DEF AtEase
<1>3. \A h \in Hdls : /\ Pending("UNSUBSCRIBE", h)' <=> Pending("UNSUBSCRIBE", h)
                      /\ Pending("SUBSCRIBE", h)' <=> Pending("SUBSCRIBE", h)
  <2>1. CASE actions' = actions
    BY <1>2, <2>1, EasePending
  <2>2. CASE PushMessage
    <3>1. PICK h, m : Push("OUT_MESSAGE", h, m)
      BY <2>2 DEF PushMessage
    <3> QED
      BY <3>1, PushPending
  <2>3. CASE PushClose
    <3>1. PICK h, m : Push("CLOSE_CONNECTION", h, m)
      BY <2>3 DEF PushClose
    <3> QED
      BY <3>1, PushPending
  <2> QED
    BY <2>1, <2>2, <2>3 DEF SendMessage, CompleteSession, LoopStep, EachPlayer, Archive
<1>4. CalmStep
  BY <1>1, <1>2, <1>3 DEF CalmStep, AtEase, IsAt
<1> QED
  BY <1>4, CalmStepInv

\* stop closes what it finds before it forgets it; what it does not find has
\* its SUBSCRIBE in the hand of a worker.
LEMMA StopConnections ==
    ASSUME ConnectionsInv, TypeOK, StopCall \/ StopStep \/ Restart
    PROVE  ConnectionsInv'
<1>1. CASE StopCall \/ StopLock \/ StopNotify
  <2>1. UNCHANGED <<conn, newConnections, connectionId, actions>>
    BY <1>1 DEF StopCall, StopLock, StopNotify
  <2>2. AtEase
    BY <1>1 DEF StopCall, StopLock, StopNotify, AtEase, IsAt
  <2>3. \A h \in Hdls : /\ Pending("UNSUBSCRIBE", h)' <=> Pending("UNSUBSCRIBE", h)
                        /\ Pending("SUBSCRIBE", h)' <=> Pending("SUBSCRIBE", h)
    BY <2>1, <2>2, EasePending
  <2>4. CalmStep
    BY <2>1, <2>2, <2>3 DEF CalmStep, AtEase, IsAt
  <2> QED
    BY <2>4, CalmStepInv
<1>2. CASE StopClear
  <2>1. /\ Close(KnownConnections) /\ worker' = worker /\ actions' = <<>>
    BY <1>2 DEF StopClear
  <2>2. \A h \in Hdls : /\ conn[h] = "closed" => conn'[h] = "closed"
                        /\ conn'[h] = "open" => conn[h] = "open" /\ h \notin KnownConnections
    BY <2>1, CloseConnections
  <2>3. \A t, h : Pending(t, h)' <=> \E w \in Workers : InHand(w, t) /\ worker[w].act.hdl = h
    BY <2>1 DEF Pending, InHand, IsAt
  <2>4. \A h \in Hdls : Pending("UNSUBSCRIBE", h)' => conn'[h] = "closed"
    BY <2>2, <2>3 DEF ConnectionsInv, Pending
  <2>5. \A w \in Workers : IsAt(w, "leave")' => conn'[worker'[w].hdl] = "closed"
    BY <2>1, <2>2, InHandFacts DEF ConnectionsInv, IsAt
  <2>6. ASSUME NEW h \in Hdls, conn'[h] = "open"
        PROVE  Pending("SUBSCRIBE", h)'
    <3>1. conn[h] = "open" /\ h \notin KnownConnections
      BY <2>2, <2>6
    <3>2. Pending("SUBSCRIBE", h)
      BY <3>1 DEF ConnectionsInv, KnownConnections
    <3>3. ~ \E i \in DOMAIN actions : actions[i].type = "SUBSCRIBE" /\ actions[i].hdl = h
      BY <3>1 DEF KnownConnections
    <3> QED
      BY <2>3, <3>2, <3>3 DEF Pending
  <2> QED
    BY <2>4, <2>5, <2>6 DEF ConnectionsInv
<1>3. CASE Restart
  <2>1. /\ \A h \in Hdls : conn'[h] = conn[h] /\ conn[h] # "open"
        /\ UNCHANGED <<newConnections, connectionId, actions>>
    BY <1>3 DEF Restart
  <2>2. AtEase
    BY <1>3 DEF Restart, AtEase, IsAt
  <2>3. \A h \in Hdls : Pending("UNSUBSCRIBE", h)' => conn'[h] = "closed"
    BY <2>1, <2>2, EasePending DEF ConnectionsInv
  <2>4. \A w \in Workers : ~IsAt(w, "leave")'
    BY <1>3 DEF Restart, IsAt
  <2> QED
    BY <2>1, <2>3, <2>4 DEF ConnectionsInv
<1> QED
  BY <1>1, <1>2, <1>3 DEF StopStep

\* Every step keeps track of the connections.
LEMMA ConnectionsStep == TypeOK /\ ConnectionsInv /\ [Next]_vars => ConnectionsInv'
<1> SUFFICES ASSUME TypeOK, ConnectionsInv, [Next]_vars PROVE ConnectionsInv'
  OBVIOUS
<1>1. CASE \E h \in Hdls : Network(h)
  BY <1>1, NetworkConnections
<1>2. CASE \E w \in Workers : WorkerStep(w) \/ SpuriousWakeup(w)
  BY <1>2, QueueConnections, ProcessConnections, SubscribeConnections,
     DepartureConnections, AdmitConnections DEF WorkerStep
<1>3. CASE \/ \E id \in Ids : SendMessage(id)
           \/ \E s \in Sessions, r \in Results : CompleteSession(s, r)
           \/ LoopStep
  BY <1>3, LoopConnections
<1>4. CASE StopCall \/ StopStep \/ Restart
  BY <1>4, StopConnections
<1>5. CASE UNCHANGED vars
  BY <1>5 DEF vars, ConnectionsInv, Pending, InHand, IsAt
<1> QED
  BY <1>1, <1>2, <1>3, <1>4, <1>5 DEF Next

\* For any number of workers, logins and stops: an open connection is always
\* one that stop would close, or its SUBSCRIBE is on the way (:347-368).
THEOREM ConnectionsKnown == Spec => []OpenConnectionsKnown
<1>1. Init => ConnectionsInv
  BY DEF Init, ConnectionsInv, Pending, InHand, IsAt
<1>2. ConnectionsInv => OpenConnectionsKnown
  BY DEF ConnectionsInv, OpenConnectionsKnown, KnownConnections
<1> QED
  BY <1>1, <1>2, InitType, TypeStep, ConnectionsStep, PTL DEF Spec

------------------------------------------------------------------------------
(* One worker: the records of players agree with each other.               *)

\* An id is its two parts.
LEMMA IdParts ==
    ASSUME NEW a \in Ids, NEW b \in Ids,
           a.player = b.player, a.session = b.session
    PROVE  a = b
BY DEF Ids

\* Steps that leave the records alone and move workers between the places
\* where they have nothing in hand that the records must agree with.
QuietStep ==
    /\ UNCHANGED <<connectionId, idConnection, sessionPlayers>>
    /\ \A w \in Workers :
          \/ worker'[w] = worker[w]
          \/ /\ worker[w].pc # "unlist"
             /\ worker'[w].pc \notin {"open", "leave", "unlist"}

\* Quiet steps keep the invariant.
LEMMA QuietStepInv ==
    ASSUME RecordsInv, TypeOK', QuietStep
    PROVE  RecordsInv'
<1>1. OneConnectionPerId'
  BY DEF RecordsInv, OneConnectionPerId, QuietStep
<1>2. RosterMatchesConnections'
  BY DEF RecordsInv, RosterMatchesConnections, QuietStep, Departing
<1>3. HandsMatchRecords'
  BY DEF RecordsInv, HandsMatchRecords, QuietStep, IsAt
<1> QED
  BY <1>1, <1>2, <1>3 DEF RecordsInv

\* A worker that goes from one harmless place to another is quiet.
LEMMA GotoQuiet ==
    ASSUME TypeOK, NEW w \in Workers, NEW state, Goto(w, state),
           worker[w].pc # "unlist", state.pc \notin {"open", "leave", "unlist"},
           UNCHANGED <<connectionId, idConnection, sessionPlayers>>
    PROVE  QuietStep
BY DEF TypeOK, Goto, QuietStep

\* So is whoever notifies.
LEMMA NotifyQuiet ==
    ASSUME TypeOK, NotifyOne,
           UNCHANGED <<connectionId, idConnection, sessionPlayers>>
    PROVE  QuietStep
<1>1. CASE Waiting = {}
  BY <1>1 DEF NotifyOne, QuietStep
<1>2. CASE Waiting # {}
  <2>1. PICK w \in Waiting : worker' = [worker EXCEPT ![w] = [pc |-> "woken"]]
    BY <1>2 DEF NotifyOne
  <2> QED
    BY <2>1 DEF TypeOK, Waiting, QuietStep
<1> QED
  BY <1>1, <1>2

\* The handlers, the main loop and most of stop touch no player's record.
LEMMA OutsideQuiet ==
    ASSUME TypeOK,
           \/ \E h \in Hdls : Network(h)
           \/ \E id \in Ids : SendMessage(id)
           \/ \E s \in Sessions, r \in Results : CompleteSession(s, r)
           \/ LoopStep
           \/ StopCall \/ StopLock \/ StopNotify \/ Restart
    PROVE  QuietStep
<1>1. CASE \E h \in Hdls : Network(h)
  BY <1>1, NotifyQuiet DEF Network, OnOpen, OnMessage, OnClose, Push
<1>2. CASE \E id \in Ids : SendMessage(id)
  BY <1>2 DEF SendMessage, QuietStep
<1>3. CASE \E s \in Sessions, r \in Results : CompleteSession(s, r)
  BY <1>3 DEF CompleteSession, QuietStep
<1>4. CASE PushMessage \/ PushClose
  BY <1>4, NotifyQuiet DEF PushMessage, PushClose, Push
<1>5. CASE Archive \/ \E p \in Players : EachPlayer(p)
  BY <1>5 DEF Archive, EachPlayer, QuietStep
<1>6. CASE StopCall \/ StopLock
  BY <1>6 DEF StopCall, StopLock, QuietStep
<1>7. CASE StopNotify
  BY <1>7 DEF StopNotify, QuietStep, IsAt, TypeOK
<1>8. CASE Restart
  BY <1>8 DEF Restart, QuietStep, IsAt, TypeOK
<1> QED
  BY <1>1, <1>2, <1>3, <1>4, <1>5, <1>6, <1>7, <1>8 DEF LoopStep

\* A worker that looks an id up takes it to the next lock as it found it.
LEMMA LookupInv ==
    ASSUME RecordsInv, TypeOK', NEW w \in Workers, Unsubscribe(w) \/ InMessage(w)
    PROVE  RecordsInv'
<1> DEFINE h == worker[w].act.hdl
<1>t. TypeOK
  BY DEF RecordsInv
<1>u. UNCHANGED <<connectionId, idConnection, sessionPlayers>>
  BY DEF Unsubscribe, InMessage
<1>h. h \in Hdls /\ worker[w].pc = "act"
  BY <1>t, InHandFacts, ActionFacts DEF Unsubscribe, InMessage, InHand, IsAt
<1>1. CASE Goto(w, [pc |-> "check"])
  BY <1>t, <1>u, <1>h, <1>1, GotoQuiet, QuietStepInv
<1>2. CASE /\ connectionId[h] # NoId
           /\ Goto(w, [pc |-> "leave", hdl |-> h, id |-> connectionId[h]])
  <2>1. /\ worker'[w] = [pc |-> "leave", hdl |-> h, id |-> connectionId[h]]
        /\ \A v \in Workers : v # w => worker'[v] = worker[v]
    BY <1>t, <1>2 DEF TypeOK, Goto
  <2>2. OneConnectionPerId' /\ RosterMatchesConnections'
    BY <1>u, <1>h, <2>1 DEF RecordsInv, OneConnectionPerId, RosterMatchesConnections,
                            Departing
  <2>3. HandsMatchRecords'
    BY <1>u, <2>1 DEF RecordsInv, HandsMatchRecords, IsAt
  <2> QED
    BY <2>2, <2>3 DEF RecordsInv
<1>3. CASE \E id \in Tokens : /\ connectionId[h] = NoId
                             /\ Goto(w, [pc |-> "open", hdl |-> h, id |-> id])
  <2>1. PICK id \in Tokens : /\ connectionId[h] = NoId
                             /\ Goto(w, [pc |-> "open", hdl |-> h, id |-> id])
    BY <1>3
  <2>2. /\ worker'[w] = [pc |-> "open", hdl |-> h, id |-> id]
        /\ \A v \in Workers : v # w => worker'[v] = worker[v]
    BY <1>t, <2>1 DEF TypeOK, Goto
  <2>3. OneConnectionPerId' /\ RosterMatchesConnections'
    BY <1>u, <1>h, <2>2 DEF RecordsInv, OneConnectionPerId, RosterMatchesConnections,
                            Departing
  <2>4. HandsMatchRecords'
    BY <1>u, <2>1, <2>2 DEF RecordsInv, HandsMatchRecords, IsAt
  <2> QED
    BY <2>3, <2>4 DEF RecordsInv
<1> QED
  BY <1>1, <1>2, <1>3 DEF Unsubscribe, InMessage

\* The sole worker erases a departing player from both maps and then the roster.
LEMMA DepartureInv ==
    ASSUME RecordsInv, TypeOK', NEW w, Workers = {w}, Leave(w) \/ Unlist(w)
    PROVE  RecordsInv'
<1> DEFINE h == worker[w].hdl
           id == worker[w].id
<1>t. TypeOK /\ w \in Workers
  BY DEF RecordsInv
<1>h. h \in Hdls /\ id \in Ids
  BY <1>t, InHandFacts DEF Leave, Unlist, IsAt
<1>1. CASE Leave(w)
  <2>1. /\ worker'[w] = [pc |-> "unlist", hdl |-> h, id |-> id]
        /\ connectionId' = [connectionId EXCEPT ![h] = NoId]
        /\ idConnection' = [idConnection EXCEPT ![id] = NoHdl]
        /\ sessionPlayers' = sessionPlayers
    BY <1>t, <1>1 DEF Leave, Goto, Departure, TypeOK
  <2>2. \/ connectionId[h] = id
        \/ connectionId[h] = NoId /\ idConnection[id] = NoHdl
    BY <1>t, <1>1 DEF RecordsInv, HandsMatchRecords, Leave
  <2>3. OneConnectionPerId'
    BY <1>t, <1>h, <2>1, <2>2, NullAssumption
       DEF RecordsInv, OneConnectionPerId, TypeOK
  <2>4. RosterMatchesConnections'
    <3>1. w \in Departing({"unlist"})' /\ worker'[w].id = id
      BY <1>t, <2>1 DEF Departing
    <3>2. Departing({"unlist"}) = {}
      BY <1>1 DEF Departing, Leave, IsAt
    <3> QED
      BY <1>t, <1>h, <2>1, <3>1, <3>2
         DEF RecordsInv, RosterMatchesConnections, TypeOK
  <2>5. HandsMatchRecords'
    BY <1>t, <1>h, <2>1 DEF HandsMatchRecords, IsAt, TypeOK
  <2> QED
    BY <2>3, <2>4, <2>5 DEF RecordsInv
<1>2. CASE Unlist(w)
  <2>1. /\ worker'[w] = [pc |-> "report", hdl |-> h, id |-> id]
        /\ sessionPlayers' = [sessionPlayers EXCEPT ![id.session] = @ \ {id.player}]
        /\ connectionId' = connectionId /\ idConnection' = idConnection
    BY <1>t, <1>2 DEF Unlist, Unlisted, Goto, Departure, TypeOK
  <2>2. idConnection[id] = NoHdl
    BY <1>t, <1>2 DEF RecordsInv, HandsMatchRecords, Unlist
  <2>3. OneConnectionPerId' /\ HandsMatchRecords'
    BY <1>t, <2>1 DEF RecordsInv, OneConnectionPerId, HandsMatchRecords, IsAt
  <2>4. RosterMatchesConnections'
    <3> SUFFICES ASSUME NEW j \in Ids
                 PROVE  j.player \in sessionPlayers'[j.session] <=> idConnection[j] # NoHdl
      BY <2>1 DEF RosterMatchesConnections
    <3>1. id.session \in Sessions /\ j.session \in Sessions
      BY <1>h DEF Ids
    <3>2. j.player \in sessionPlayers'[j.session]
             <=> j.player \in sessionPlayers[j.session] /\ j # id
      BY <1>t, <1>h, <2>1, <3>1, IdParts DEF TypeOK
    <3>3. j.player \in sessionPlayers[j.session] =>
             idConnection[j] # NoHdl \/ j = id
      BY <1>t DEF RecordsInv, RosterMatchesConnections,
                            Departing
    <3>4. idConnection[j] # NoHdl => j.player \in sessionPlayers[j.session]
      BY DEF RecordsInv, RosterMatchesConnections
    <3> QED
      BY <2>2, <3>2, <3>3, <3>4
  <2> QED
    BY <2>3, <2>4 DEF RecordsInv
<1> QED
  BY <1>1, <1>2

\* A login takes the id over from whoever had it and lists the player.
LEMMA AdmitInv ==
    ASSUME RecordsInv, TypeOK', NEW w, Workers = {w}, Admit(w)
    PROVE  RecordsInv'
<1> DEFINE h == worker[w].hdl
           id == worker[w].id
           old == idConnection[id]
<1>t. TypeOK /\ w \in Workers
  BY DEF RecordsInv
<1>h. h \in Hdls /\ id \in Ids /\ worker[w].pc = "open"
  BY <1>t, InHandFacts DEF Admit, IsAt
<1>1. connectionId[h] = NoId
  BY <1>t DEF RecordsInv, HandsMatchRecords, Admit
<1>2. old # h
  BY <1>h, <1>1, NullAssumption DEF RecordsInv, OneConnectionPerId
<1>3. old = NoHdl \/ (old \in Hdls /\ connectionId[old] = id)
  BY <1>t, <1>h DEF RecordsInv, OneConnectionPerId, TypeOK
<1>4. /\ idConnection' = [idConnection EXCEPT ![id] = h]
      /\ sessionPlayers' = [sessionPlayers EXCEPT ![id.session] = @ \cup {id.player}]
      /\ worker'[w] = [pc |-> "check"]
  BY <1>t DEF Admit, SetupConnectionId, Goto, TypeOK
<1>5. \A g \in Hdls : connectionId'[g] = IF g = h THEN id
                                        ELSE IF g = old THEN NoId ELSE connectionId[g]
  <2>1. SetupConnectionId(h, id)
    BY DEF Admit
  <2>2. \A g \in Hdls : ForgetDuplicate(id)[g] =
                          IF g = old THEN NoId ELSE connectionId[g]
    BY <1>t, <1>3, NullAssumption DEF ForgetDuplicate, TypeOK
  <2>3. ForgetDuplicate(id)[h] = NoId
    BY <1>1, <1>2, <1>h, <2>2
  <2>4. connectionId' = [ForgetDuplicate(id) EXCEPT ![h] = id]
    BY <2>1, <2>3 DEF SetupConnectionId
  <2>5. DOMAIN ForgetDuplicate(id) = Hdls
    BY <1>t DEF ForgetDuplicate, TypeOK
  <2> QED
    BY <1>h, <1>1, <2>2, <2>4, <2>5
<1>6. OneConnectionPerId'
  <2> SUFFICES ASSUME NEW g \in Hdls, NEW j \in Ids
               PROVE  connectionId'[g] = j <=> idConnection'[j] = g
    BY DEF OneConnectionPerId
  <2>1. idConnection'[j] = IF j = id THEN h ELSE idConnection[j]
    BY <1>t, <1>h, <1>4 DEF TypeOK
  <2>2. connectionId[g] = j <=> idConnection[j] = g
    BY DEF RecordsInv, OneConnectionPerId
  <2>3. idConnection[j] = old /\ old # NoHdl => j = id
    BY <1>3 DEF RecordsInv, OneConnectionPerId
  <2> QED
    BY <1>h, <1>1, <1>2, <1>3, <1>5, <2>1, <2>2, <2>3, NullAssumption
<1>7. RosterMatchesConnections'
  <2>1. Departing({"unlist"}) = {}
    BY <1>h DEF Departing
  <2> SUFFICES ASSUME NEW j \in Ids
               PROVE  j.player \in sessionPlayers'[j.session] <=> idConnection'[j] # NoHdl
    BY DEF RosterMatchesConnections
  <2>2. id.session \in Sessions /\ j.session \in Sessions
    BY <1>h DEF Ids
  <2>3. j.player \in sessionPlayers'[j.session]
           <=> j.player \in sessionPlayers[j.session] \/ j = id
    BY <1>t, <1>h, <1>4, <2>2, IdParts DEF TypeOK
  <2>4. j.player \in sessionPlayers[j.session] <=> idConnection[j] # NoHdl
    BY <2>1 DEF RecordsInv, RosterMatchesConnections
  <2>5. idConnection'[j] = IF j = id THEN h ELSE idConnection[j]
    BY <1>t, <1>h, <1>4 DEF TypeOK
  <2> QED
    BY <1>h, <2>3, <2>4, <2>5, NullAssumption
<1>8. HandsMatchRecords'
  BY <1>t, <1>4 DEF HandsMatchRecords, IsAt
<1> QED
  BY <1>6, <1>7, <1>8 DEF RecordsInv

\* stop clears all the records at once, whatever the worker has in hand.
LEMMA StopClearInv ==
    ASSUME RecordsInv, TypeOK', StopClear
    PROVE  RecordsInv'
<1>t. TypeOK
  BY DEF RecordsInv
<1>1. /\ connectionId' = [h \in Hdls |-> NoId]
      /\ idConnection' = [id \in Ids |-> NoHdl]
      /\ sessionPlayers' = [s \in Sessions |-> {}]
      /\ worker' = worker
  BY DEF StopClear, ClearRecords
<1>2. OneConnectionPerId'
  BY <1>1, NullAssumption DEF OneConnectionPerId
<1>3. RosterMatchesConnections'
  BY <1>1 DEF RosterMatchesConnections, Ids
<1>4. HandsMatchRecords'
  BY <1>t, <1>1, InHandFacts DEF HandsMatchRecords, IsAt
<1> QED
  BY <1>2, <1>3, <1>4 DEF RecordsInv

\* The records agree at the start.
LEMMA InitRecords == Init => RecordsInv
<1> SUFFICES ASSUME Init PROVE RecordsInv
  OBVIOUS
<1>1. TypeOK
  BY InitType
<1>2. OneConnectionPerId
  BY NullAssumption DEF Init, OneConnectionPerId
<1>3. RosterMatchesConnections
  BY DEF Init, RosterMatchesConnections, Ids
<1>4. HandsMatchRecords
  BY DEF Init, HandsMatchRecords, IsAt
<1> QED
  BY <1>1, <1>2, <1>3, <1>4 DEF RecordsInv

\* Every step of a server with one worker keeps the records in agreement.
LEMMA RecordsStep ==
    ASSUME NEW sole, Workers = {sole}
    PROVE  RecordsInv /\ [Next]_vars => RecordsInv'
<1> SUFFICES ASSUME RecordsInv, [Next]_vars PROVE RecordsInv'
  OBVIOUS
<1>t. TypeOK /\ TypeOK'
  BY TypeStep DEF RecordsInv
<1>1. CASE \/ \E h \in Hdls : Network(h)
           \/ \E id \in Ids : SendMessage(id)
           \/ \E s \in Sessions, r \in Results : CompleteSession(s, r)
           \/ LoopStep
           \/ StopCall \/ StopLock \/ StopNotify \/ Restart
  BY <1>t, <1>1, OutsideQuiet, QuietStepInv
<1>2. CASE StopClear
  BY <1>t, <1>2, StopClearInv
<1>3. ASSUME NEW w \in Workers, WorkerStep(w) \/ SpuriousWakeup(w)
      PROVE  RecordsInv'
  <2>1. CASE Unsubscribe(w) \/ InMessage(w)
    BY <1>t, <2>1, LookupInv
  <2>2. CASE Leave(w) \/ Unlist(w)
    BY <1>t, <2>2, DepartureInv
  <2>3. CASE Admit(w)
    BY <1>t, <2>3, AdmitInv
  <2>4. CASE CheckRunning(w) \/ TakeAction(w) \/ ReturnFromWait(w) \/ SpuriousWakeup(w)
    BY <1>t, <2>4, GotoQuiet, QuietStepInv
       DEF CheckRunning, TakeAction, ReturnFromWait, SpuriousWakeup, IsAt
  <2>5. CASE \/ Subscribe(w) \/ Report(w) \/ TurnAway(w) \/ OutMessage(w)
             \/ CloseConnection(w)
    BY <1>t, <2>5, GotoQuiet, QuietStepInv
       DEF Subscribe, Report, TurnAway, OutMessage, CloseConnection, InHand, IsAt
  <2> QED
    BY <1>3, <2>1, <2>2, <2>3, <2>4, <2>5 DEF WorkerStep
<1>4. CASE UNCHANGED vars
  BY <1>t, <1>4, QuietStepInv DEF vars, QuietStep
<1> QED
  BY <1>1, <1>2, <1>3, <1>4 DEF Next, StopStep

\* With one worker, and through any number of stops and restarts,
\* m_connection_ids and m_id_connections stay inverse to each other and
\* m_session_players lists the connected players.
THEOREM RecordsAgree ==
    ASSUME NEW sole, Workers = {sole}
    PROVE  Spec => []RecordsInv
<1>1. RecordsInv /\ [Next]_vars => RecordsInv'
  BY RecordsStep
<1> QED
  BY InitRecords, <1>1, PTL DEF Spec
------------------------------------------------------------------------------
(* One worker: the players announced and the players counted.              *)

\* Before stop is called it is nowhere.
StopInv == NeverStopped => stop.pc = "idle"

\* Every step keeps it so, and a server that was stopped was stopped for good.
LEMMA StopStays ==
    ASSUME TypeOK, StopInv, [Next]_vars
    PROVE  StopInv' /\ (NeverStopped' => NeverStopped /\ stop' = stop)
<1>1. stop.calls \in Nat
  BY DEF TypeOK
<1>2. CASE stop' = stop
  BY <1>2 DEF StopInv, NeverStopped
<1>3. CASE StopCall \/ StopStep
  <2>1. CASE StopCall
    BY <1>1, <2>1 DEF StopCall, StopInv, NeverStopped
  <2>2. CASE StopStep
    BY <2>2 DEF StopStep, StopLock, StopClear, StopNotify, StopInv, NeverStopped, TypeOK
  <2> QED
    BY <1>3, <2>1, <2>2
<1>4. stop' = stop \/ StopCall \/ StopStep
  <2>1. ASSUME NEW w \in Workers, WorkerStep(w) \/ SpuriousWakeup(w)
        PROVE  stop' = stop
    BY <2>1 DEF WorkerStep, CheckRunning, TakeAction, ReturnFromWait, SpuriousWakeup,
       Subscribe, Unsubscribe, Leave, Unlist, Report, InMessage, Admit, TurnAway,
       OutMessage, CloseConnection
  <2>2. ASSUME NEW h \in Hdls, Network(h)
        PROVE  stop' = stop
    BY <2>2 DEF Network, OnOpen, OnMessage, OnClose
  <2>3. ASSUME \/ \E id \in Ids : SendMessage(id)
               \/ \E s \in Sessions, r \in Results : CompleteSession(s, r)
               \/ LoopStep \/ Restart
        PROVE  stop' = stop
    BY <2>3 DEF SendMessage, CompleteSession, LoopStep, PushMessage, EachPlayer,
       PushClose, Archive, Restart
  <2>4. CASE UNCHANGED vars
    BY <2>4 DEF vars
  <2> QED
    BY <2>1, <2>2, <2>3, <2>4 DEF Next
<1> QED
  BY <1>2, <1>3, <1>4

\* What a departure has in hand: until stop interferes, the id is that of the
\* connection, and nobody's once the records are rid of it.
LeaversInv ==
    NeverStopped =>
        \A w \in Workers :
            /\ IsAt(w, "leave") => connectionId[worker[w].hdl] = worker[w].id
            /\ IsAt(w, "unlist") \/ IsAt(w, "report") => idConnection[worker[w].id] = NoHdl

PlayersInv ==
    /\ StopInv
    /\ LeaversInv
    /\ PresentAreConnected

\* Steps in which nobody comes or leaves.
StillStep ==
    /\ UNCHANGED <<connectionId, idConnection, playerCount, present>>
    /\ \A w \in Workers :
          \/ worker'[w] = worker[w]
          \/ /\ worker[w].pc \notin {"leave", "unlist", "report"}
             /\ worker'[w].pc \notin {"leave", "unlist", "report"}

\* Those are all but five.
LEMMA Still ==
    ASSUME TypeOK, [Next]_vars, ~StopClear,
           ~ \E w \in Workers : Unsubscribe(w) \/ Leave(w) \/ Unlist(w) \/ Report(w) \/ Admit(w)
    PROVE  StillStep
<1>1. ASSUME NotifyOne PROVE \A w \in Workers : \/ worker'[w] = worker[w]
                                                \/ worker[w].pc = "wait" /\ worker'[w].pc = "woken"
  <2>1. CASE Waiting = {}
    BY <1>1, <2>1 DEF NotifyOne
  <2>2. CASE Waiting # {}
    <3>1. PICK w \in Waiting : worker' = [worker EXCEPT ![w] = [pc |-> "woken"]]
      BY <1>1, <2>2 DEF NotifyOne
    <3> QED
      BY <3>1 DEF TypeOK, Waiting
  <2> QED
    BY <2>1, <2>2
<1>2. CASE \E h \in Hdls : Network(h)
  BY <1>1, <1>2 DEF Network, OnOpen, OnMessage, OnClose, Push, StillStep
<1>3. ASSUME NEW w \in Workers,
             \/ CheckRunning(w) \/ TakeAction(w) \/ ReturnFromWait(w) \/ SpuriousWakeup(w)
             \/ Subscribe(w) \/ InMessage(w) \/ TurnAway(w) \/ OutMessage(w)
             \/ CloseConnection(w)
      PROVE  StillStep
  <2>1. UNCHANGED <<connectionId, idConnection, playerCount, present>>
    BY <1>3 DEF CheckRunning, TakeAction, ReturnFromWait, SpuriousWakeup, Subscribe,
       InMessage, TurnAway, OutMessage, CloseConnection
  <2>2. worker[w].pc \notin {"leave", "unlist", "report"}
    BY <1>3 DEF CheckRunning, TakeAction, ReturnFromWait, SpuriousWakeup, Subscribe,
       InMessage, TurnAway, OutMessage, CloseConnection, InHand, IsAt
  <2>3. PICK state : Goto(w, state) /\ state.pc \notin {"leave", "unlist", "report"}
    BY <1>3 DEF CheckRunning, TakeAction, ReturnFromWait, SpuriousWakeup, Subscribe,
       InMessage, TurnAway, OutMessage, CloseConnection
  <2> QED
    BY <2>1, <2>2, <2>3 DEF Goto, StillStep, TypeOK
<1>4. CASE \/ \E id \in Ids : SendMessage(id)
           \/ \E s \in Sessions, r \in Results : CompleteSession(s, r)
           \/ LoopStep
  BY <1>1, <1>4 DEF SendMessage, CompleteSession, LoopStep, PushMessage, EachPlayer,
     PushClose, Archive, Push, StillStep
<1>5. CASE StopCall \/ StopLock \/ StopNotify \/ Restart
  BY <1>5 DEF StopCall, StopLock, StopNotify, Restart, StillStep, IsAt, TypeOK
<1>6. CASE UNCHANGED vars
  BY <1>6 DEF vars, StillStep
<1> QED
  BY <1>2, <1>3, <1>4, <1>5, <1>6 DEF Next, WorkerStep, StopStep

\* In such a step the players, and those who are leaving, stay who they are.
LEMMA StillPlayers ==
    ASSUME TypeOK, StillStep
    PROVE  /\ Registered' = Registered
           /\ \A places \in SUBSET {"leave", "unlist", "report"} :
                 Departing(places)' = Departing(places)
           /\ \A w \in Workers : worker'[w].pc \in {"leave", "unlist", "report"} =>
                                    worker'[w] = worker[w]
BY DEF StillStep, Registered, Departing

\* Who leaves is one worker's business.
LEMMA SoleLeaver ==
    ASSUME NEW w, Workers = {w}, NEW places
    PROVE  Departing(places) = IF worker[w].pc \in places THEN {w} ELSE {}
BY DEF Departing

\* Whose connections the others have: what a login changes.
LEMMA AdmitIds ==
    ASSUME RecordsInv, NEW w \in Workers, Admit(w)
    PROVE  LET h == worker[w].hdl
               id == worker[w].id
               old == idConnection[id]
           IN  /\ h \in Hdls /\ id \in Ids /\ worker[w].pc = "open"
               /\ connectionId[h] = NoId /\ old # h
               /\ old = NoHdl \/ (old \in Hdls /\ connectionId[old] = id)
               /\ \A g \in Hdls : connectionId'[g] =
                     IF g = h THEN id ELSE IF g = old THEN NoId ELSE connectionId[g]
<1> DEFINE h == worker[w].hdl
           id == worker[w].id
           old == idConnection[id]
<1>t. TypeOK
  BY DEF RecordsInv
<1>h. h \in Hdls /\ id \in Ids /\ worker[w].pc = "open"
  BY <1>t, InHandFacts DEF Admit, IsAt
<1>1. connectionId[h] = NoId
  BY <1>t DEF RecordsInv, HandsMatchRecords, Admit
<1>2. old # h
  BY <1>h, <1>1, NullAssumption DEF RecordsInv, OneConnectionPerId
<1>3. old = NoHdl \/ (old \in Hdls /\ connectionId[old] = id)
  BY <1>t, <1>h DEF RecordsInv, OneConnectionPerId, TypeOK
<1>4. \A g \in Hdls : connectionId'[g] = IF g = h THEN id
                                        ELSE IF g = old THEN NoId ELSE connectionId[g]
  <2>1. SetupConnectionId(h, id)
    BY DEF Admit
  <2>2. \A g \in Hdls : ForgetDuplicate(id)[g] =
                          IF g = old THEN NoId ELSE connectionId[g]
    BY <1>t, <1>3, NullAssumption DEF ForgetDuplicate, TypeOK
  <2>3. ForgetDuplicate(id)[h] = NoId
    BY <1>1, <1>2, <1>h, <2>2
  <2>4. connectionId' = [ForgetDuplicate(id) EXCEPT ![h] = id]
    BY <2>1, <2>3 DEF SetupConnectionId
  <2>5. DOMAIN ForgetDuplicate(id) = Hdls
    BY <1>t DEF ForgetDuplicate, TypeOK
  <2> QED
    BY <1>h, <1>1, <2>2, <2>4, <2>5
<1> QED
  BY <1>h, <1>1, <1>2, <1>3, <1>4

\* A login announces its player, who was announced before if it displaces a
\* connection.
LEMMA AdmitPlayers ==
    ASSUME RecordsInv, PlayersInv, NEW w, Workers = {w}, Admit(w), NeverStopped, NeverStopped'
    PROVE  LeaversInv' /\ PresentAreConnected'
<1> DEFINE h == worker[w].hdl
           id == worker[w].id
           old == idConnection[id]
<1>1. /\ h \in Hdls /\ id \in Ids /\ worker[w].pc = "open"
      /\ connectionId[h] = NoId /\ old # h
      /\ old = NoHdl \/ (old \in Hdls /\ connectionId[old] = id)
      /\ \A g \in Hdls : connectionId'[g] =
            IF g = h THEN id ELSE IF g = old THEN NoId ELSE connectionId[g]
  BY AdmitIds
<1>2. worker'[w].pc = "check" /\ present' = present \cup {id}
  BY DEF Admit, Goto, RecordsInv, TypeOK
<1>3. LeaversInv'
  BY <1>2 DEF LeaversInv, IsAt
<1>4. /\ Departing({"unlist", "report"}) = {}
      /\ Departing({"unlist", "report"})' = {}
  BY <1>1, <1>2 DEF Departing
<1>5. present = {connectionId[g] : g \in Registered}
  BY <1>4 DEF PlayersInv, PresentAreConnected
<1>6. \A g \in Hdls : g \in Registered' <=> g = h \/ (g \in Registered /\ g # old)
  BY <1>1, NullAssumption DEF Registered
<1>7. present' = {connectionId'[g] : g \in Registered'}
  <2>1. ASSUME NEW x \in present' PROVE x \in {connectionId'[g] : g \in Registered'}
    <3>1. CASE x = id
      BY <1>1, <1>6, <3>1
    <3>2. CASE x # id
      <4>1. PICK g \in Registered : x = connectionId[g]
        BY <1>2, <1>5, <2>1, <3>2
      <4>2. g \in Hdls /\ g # old /\ g # h
        BY <1>1, <3>2, <4>1, NullAssumption DEF Registered
      <4> QED
        BY <1>1, <1>6, <4>1, <4>2
    <3> QED
      BY <3>1, <3>2
  <2>2. ASSUME NEW g \in Registered' PROVE connectionId'[g] \in present'
    <3>1. g \in Hdls
      BY <2>2 DEF Registered
    <3> QED
      BY <1>1, <1>2, <1>5, <1>6, <2>2, <3>1
  <2> QED
    BY <2>1, <2>2
<1>8. PresentAreConnected'
  BY <1>4, <1>7 DEF PresentAreConnected
<1> QED
  BY <1>3, <1>8

\* A departure takes the player from the records to the hand of the worker and
\* from there to the server on top.
LEMMA DeparturePlayers ==
    ASSUME RecordsInv, RecordsInv', PlayersInv, NEW w, Workers = {w},
           Unsubscribe(w) \/ Leave(w) \/ Unlist(w) \/ Report(w),
           NeverStopped, NeverStopped'
    PROVE  LeaversInv' /\ PresentAreConnected'
<1> DEFINE h == worker[w].hdl
           id == worker[w].id
           Leavers == Departing({"unlist", "report"})
<1>t. TypeOK /\ w \in Workers
  BY DEF RecordsInv
<1>p. present = {connectionId[g] : g \in Registered} \cup {worker[v].id : v \in Leavers}
  BY DEF PlayersInv, PresentAreConnected
<1>1. CASE Unsubscribe(w)
  <2>1. UNCHANGED <<connectionId, idConnection, present>> /\ worker[w].pc = "act"
    BY <1>1 DEF Unsubscribe, InHand, IsAt
  <2>2. \/ worker'[w].pc = "check"
        \/ worker'[w].pc = "leave" /\ connectionId[worker'[w].hdl] = worker'[w].id
    BY <1>t, <1>1 DEF Unsubscribe, Goto, TypeOK
  <2>3. Leavers = {} /\ Leavers' = {} /\ Registered' = Registered
    BY <2>1, <2>2 DEF Departing, Registered
  <2>4. PresentAreConnected'
    BY <1>p, <2>1, <2>3 DEF PresentAreConnected
  <2> QED
    BY <2>1, <2>2, <2>4 DEF LeaversInv, IsAt
<1>2. CASE Leave(w)
  <2>1. /\ worker[w].pc = "leave" /\ h \in Hdls /\ id \in Ids
        /\ connectionId[h] = id
    BY <1>t, <1>2, InHandFacts DEF Leave, IsAt, PlayersInv, LeaversInv
  <2>2. /\ worker'[w] = [pc |-> "unlist", hdl |-> h, id |-> id]
        /\ idConnection'[id] = NoHdl
        /\ \A g \in Hdls : connectionId'[g] = IF g = h THEN NoId ELSE connectionId[g]
        /\ present' = present
    BY <1>t, <1>2, <2>1 DEF Leave, Goto, Departure, TypeOK
  <2>3. Leavers = {} /\ Leavers' = {w}
    BY <2>1, <2>2 DEF Departing
  <2>4. \A g \in Hdls : g \in Registered' <=> g \in Registered /\ g # h
    BY <2>2 DEF Registered
  <2>5. Registered \subseteq Hdls /\ Registered' \subseteq Hdls /\ h \in Registered
    BY <2>1, NullAssumption DEF Registered
  <2>6. {connectionId[g] : g \in Registered} = {connectionId'[g] : g \in Registered'} \cup {id}
    BY <2>1, <2>2, <2>4, <2>5
  <2>7. PresentAreConnected'
    BY <1>p, <2>2, <2>3, <2>6 DEF PresentAreConnected
  <2> QED
    BY <2>2, <2>7 DEF LeaversInv, IsAt
<1>3. CASE Unlist(w)
  <2>1. /\ UNCHANGED <<connectionId, idConnection, present>>
        /\ worker[w].pc = "unlist" /\ worker'[w] = [pc |-> "report", hdl |-> h, id |-> id]
    BY <1>t, <1>3 DEF Unlist, Goto, Departure, TypeOK, IsAt
  <2>2. Leavers = {w} /\ Leavers' = {w} /\ Registered' = Registered
    BY <2>1 DEF Departing, Registered
  <2>3. PresentAreConnected'
    BY <1>p, <2>1, <2>2 DEF PresentAreConnected
  <2>4. idConnection[id] = NoHdl
    BY <1>t, <2>1 DEF PlayersInv, LeaversInv, IsAt
  <2> QED
    BY <2>1, <2>3, <2>4 DEF LeaversInv, IsAt
<1>4. CASE Report(w)
  <2>1. /\ UNCHANGED <<connectionId, idConnection>> /\ present' = present \ {id}
        /\ worker[w].pc = "report" /\ worker'[w].pc = "check" /\ id \in Ids
    BY <1>t, <1>4, InHandFacts DEF Report, Departed, Goto, TypeOK, IsAt
  <2>2. Leavers = {w} /\ Leavers' = {} /\ Registered' = Registered
    BY <2>1 DEF Departing, Registered
  <2>3. id \notin {connectionId[g] : g \in Registered}
    <3>1. idConnection[id] = NoHdl
      BY <1>t, <2>1 DEF PlayersInv, LeaversInv, IsAt
    <3> QED
      BY <2>1, <3>1, NullAssumption DEF RecordsInv, OneConnectionPerId, Registered
  <2>4. PresentAreConnected'
    BY <1>p, <2>1, <2>2, <2>3 DEF PresentAreConnected
  <2> QED
    BY <2>1, <2>4 DEF LeaversInv, IsAt
<1> QED
  BY <1>1, <1>2, <1>3, <1>4

\* Every step of a server with one worker keeps track of its players.
LEMMA PlayersStep ==
    ASSUME NEW sole, Workers = {sole}
    PROVE  RecordsInv /\ PlayersInv /\ [Next]_vars => PlayersInv'
<1> SUFFICES ASSUME RecordsInv, PlayersInv, [Next]_vars PROVE PlayersInv'
  OBVIOUS
<1>t. TypeOK /\ RecordsInv'
  BY RecordsStep DEF RecordsInv
<1>s. StopInv' /\ (NeverStopped' => NeverStopped /\ stop' = stop)
  BY <1>t, StopStays DEF PlayersInv
<1>1. CASE ~NeverStopped'
  BY <1>s, <1>1 DEF PlayersInv, LeaversInv, PresentAreConnected
<1>2. CASE NeverStopped'
  <2>1. NeverStopped /\ ~StopClear
    BY <1>s, <1>2 DEF PlayersInv, StopInv, StopClear
  <2>2. CASE \E w \in Workers : Admit(w)
    BY <1>s, <1>2, <2>1, <2>2, AdmitPlayers DEF PlayersInv
  <2>3. CASE \E w \in Workers : Unsubscribe(w) \/ Leave(w) \/ Unlist(w) \/ Report(w)
    BY <1>t, <1>s, <1>2, <2>1, <2>3, DeparturePlayers DEF PlayersInv
  <2>4. CASE StillStep
    <3>1. /\ Registered' = Registered
          /\ Departing({"unlist", "report"})' = Departing({"unlist", "report"})
          /\ \A w \in Workers : worker'[w].pc \in {"leave", "unlist", "report"} =>
                                   worker'[w] = worker[w]
      BY <1>t, <2>4, StillPlayers
    <3>2. UNCHANGED <<connectionId, idConnection, present>>
      BY <2>4 DEF StillStep
    <3>3. LeaversInv'
      BY <2>1, <3>1, <3>2 DEF PlayersInv, LeaversInv, IsAt
    <3>4. \A w \in Departing({"unlist", "report"})' : worker'[w] = worker[w]
      BY <3>1 DEF Departing
    <3>5. PresentAreConnected'
      BY <2>1, <3>1, <3>2, <3>4 DEF PlayersInv, PresentAreConnected
    <3> QED
      BY <1>s, <3>3, <3>5 DEF PlayersInv
  <2> QED
    BY <1>t, <2>1, <2>2, <2>3, <2>4, Still
<1> QED
  BY <1>1, <1>2

\* With one worker, and until stop is called, the server on top has been told of
\* exactly the players that have a connection, or whose departure is under way.
THEOREM PresentConnected ==
    ASSUME NEW sole, Workers = {sole}
    PROVE  Spec => []PresentAreConnected
<1>1. Init => PlayersInv
  BY DEF Init, PlayersInv, StopInv, LeaversInv, PresentAreConnected, IsAt, Registered, Departing
<1>2. RecordsInv /\ PlayersInv /\ [Next]_vars => PlayersInv'
  BY PlayersStep
<1>3. RecordsInv /\ [Next]_vars => RecordsInv'
  BY RecordsStep
<1>4. PlayersInv => PresentAreConnected
  BY DEF PlayersInv
<1> QED
  BY InitRecords, <1>1, <1>2, <1>3, <1>4, PTL DEF Spec
\* Counting up and down in a std::size_t that does not wrap.
LEMMA CountUp == \A n \in Nat : n + 1 < CountMod => (n + 1) % CountMod = n + 1
BY SMT

\* The count less one, in the width of a std::size_t.
LEMMA CountDown ==
    ASSUME NEW n \in Nat, n + 1 < CountMod
    PROVE  (n + 1 + CountMod - 1) % CountMod = n
BY SMT

\* The number of players, as those who have a connection and those who leave.
PlayersNumber == Cardinality(Registered) + Cardinality(Departing({"unlist", "report"}))

\* A login counts unless it displaces a connection.
LEMMA AdmitCount ==
    ASSUME IsFiniteSet(Hdls), Cardinality(Hdls) < CountMod,
           RecordsInv, NEW w, Workers = {w}, Admit(w), playerCount = PlayersNumber
    PROVE  playerCount' = PlayersNumber'
<1> DEFINE h == worker[w].hdl
           id == worker[w].id
           old == idConnection[id]
<1>1. /\ h \in Hdls /\ id \in Ids /\ worker[w].pc = "open"
      /\ connectionId[h] = NoId /\ old # h
      /\ old = NoHdl \/ (old \in Hdls /\ connectionId[old] = id)
      /\ \A g \in Hdls : connectionId'[g] =
            IF g = h THEN id ELSE IF g = old THEN NoId ELSE connectionId[g]
  BY AdmitIds
<1>2. worker'[w].pc = "check" /\ playerCount' = CountLogin(id)
  BY DEF Admit, SetupConnectionId, Goto, RecordsInv, TypeOK
<1>3. /\ Departing({"unlist", "report"}) = {}
      /\ Departing({"unlist", "report"})' = {}
  BY <1>1, <1>2 DEF Departing
<1>4. Registered' = (Registered \ {old}) \cup {h} /\ h \notin Registered
  BY <1>1, NullAssumption DEF Registered
<1>5. /\ Registered \in SUBSET Hdls /\ Registered' \in SUBSET Hdls
      /\ IsFiniteSet(Registered) /\ Cardinality(Registered) \in Nat
      /\ Cardinality(Registered') \in Nat /\ Cardinality(Registered') <= Cardinality(Hdls)
      /\ Cardinality(Hdls) \in Nat
  <2>1. Registered \in SUBSET Hdls /\ Registered' \in SUBSET Hdls
    BY DEF Registered
  <2>2. IsFiniteSet(Registered) /\ IsFiniteSet(Registered')
        /\ Cardinality(Registered') <= Cardinality(Hdls)
    BY <2>1, FS_Subset
  <2> QED
    BY <2>1, <2>2, FS_CardinalityType
<1>6. playerCount = Cardinality(Registered) /\ PlayersNumber' = Cardinality(Registered')
  BY <1>3, <1>5, FS_EmptySet DEF PlayersNumber
<1>7. CASE old = NoHdl
  <2>1. Registered' = Registered \cup {h}
    BY <1>4, <1>5, <1>7, NullAssumption
  <2>2. Cardinality(Registered') = Cardinality(Registered) + 1
    BY <1>4, <1>5, <2>1, FS_AddElement
  <2> QED
    BY <1>2, <1>5, <1>6, <1>7, <2>2, CountUp DEF CountLogin
<1>8. CASE old # NoHdl
  <2>1. old \in Registered
    BY <1>1, <1>8, NullAssumption DEF Registered
  <2>2. IsFiniteSet(Registered \ {old})
        /\ Cardinality(Registered \ {old}) = Cardinality(Registered) - 1
    BY <1>5, <2>1, FS_RemoveElement
  <2>3. Cardinality(Registered') = Cardinality(Registered) - 1 + 1
    BY <1>4, <2>2, FS_AddElement
  <2> QED
    BY <1>2, <1>5, <1>6, <1>8, <2>3 DEF CountLogin
<1> QED
  BY <1>7, <1>8

\* A departure counts when it is reported.
LEMMA DepartureCount ==
    ASSUME IsFiniteSet(Hdls), Cardinality(Hdls) < CountMod,
           RecordsInv, PlayersInv, NEW w, Workers = {w}, NeverStopped,
           Unsubscribe(w) \/ Leave(w) \/ Unlist(w) \/ Report(w),
           playerCount = PlayersNumber, playerCount < CountMod
    PROVE  playerCount' = PlayersNumber'
<1> DEFINE h == worker[w].hdl
           id == worker[w].id
           Leavers == Departing({"unlist", "report"})
<1>t. TypeOK /\ w \in Workers
  BY DEF RecordsInv
<1>n. IsFiniteSet(Registered) /\ Cardinality(Registered) \in Nat
  <2>1. Registered \in SUBSET Hdls
    BY DEF Registered
  <2> QED
    BY <2>1, FS_Subset, FS_CardinalityType
<1>c. Cardinality({w}) = 1 /\ Cardinality({}) = 0
  BY FS_Singleton, FS_EmptySet
<1>1. CASE Unsubscribe(w)
  <2>1. UNCHANGED <<connectionId, playerCount>> /\ worker[w].pc = "act"
    BY <1>1 DEF Unsubscribe, InHand, IsAt
  <2>2. worker'[w].pc \in {"check", "leave"}
    BY <1>t, <1>1 DEF Unsubscribe, Goto, TypeOK
  <2>3. Leavers = {} /\ Leavers' = {} /\ Registered' = Registered
    BY <2>1, <2>2 DEF Departing, Registered
  <2> QED
    BY <2>1, <2>3 DEF PlayersNumber
<1>2. CASE Leave(w)
  <2>1. worker[w].pc = "leave" /\ h \in Hdls /\ id \in Ids /\ connectionId[h] = id
    BY <1>t, <1>2, InHandFacts DEF Leave, IsAt, PlayersInv, LeaversInv
  <2>2. /\ worker'[w].pc = "unlist" /\ playerCount' = playerCount
        /\ \A g \in Hdls : connectionId'[g] = IF g = h THEN NoId ELSE connectionId[g]
    BY <1>t, <1>2, <2>1 DEF Leave, Goto, Departure, TypeOK
  <2>3. Leavers = {} /\ Leavers' = {w}
    BY <2>1, <2>2 DEF Departing
  <2>4. Registered' = Registered \ {h} /\ h \in Registered
    BY <2>1, <2>2, NullAssumption DEF Registered
  <2>5. Cardinality(Registered') = Cardinality(Registered) - 1
    BY <1>n, <2>4, FS_RemoveElement
  <2>6. Cardinality(Leavers) = 0 /\ Cardinality(Leavers') = 1
    BY <1>c, <2>3
  <2>7. /\ PlayersNumber = Cardinality(Registered) + Cardinality(Leavers)
        /\ PlayersNumber' = Cardinality(Registered') + Cardinality(Leavers')
    BY DEF PlayersNumber
  <2> QED
    BY <1>n, <2>2, <2>5, <2>6, <2>7
<1>3. CASE Unlist(w)
  <2>1. /\ UNCHANGED <<connectionId, playerCount>>
        /\ worker[w].pc = "unlist" /\ worker'[w].pc = "report"
    BY <1>t, <1>3 DEF Unlist, Goto, Departure, TypeOK, IsAt
  <2>2. Leavers = {w} /\ Leavers' = {w} /\ Registered' = Registered
    BY <2>1 DEF Departing, Registered
  <2> QED
    BY <2>1, <2>2 DEF PlayersNumber
<1>4. CASE Report(w)
  <2>1. /\ connectionId' = connectionId /\ playerCount' = CountDeparture
        /\ worker[w].pc = "report" /\ worker'[w].pc = "check"
    BY <1>t, <1>4 DEF Report, Goto, TypeOK, IsAt
  <2>2. Leavers = {w} /\ Leavers' = {} /\ Registered' = Registered
    BY <2>1 DEF Departing, Registered
  <2>3. Cardinality(Leavers) = 1 /\ Cardinality(Leavers') = 0
    BY <1>c, <2>2
  <2>4. /\ PlayersNumber = Cardinality(Registered) + Cardinality(Leavers)
        /\ PlayersNumber' = Cardinality(Registered') + Cardinality(Leavers')
    BY DEF PlayersNumber
  <2>5. playerCount = Cardinality(Registered) + 1 /\ PlayersNumber' = Cardinality(Registered)
    BY <1>n, <2>2, <2>3, <2>4
  <2> QED
    BY <1>n, <2>1, <2>5, CountDown DEF CountDeparture
<1> QED
  BY <1>1, <1>2, <1>3, <1>4

\* With one worker, and fewer connections than a std::size_t can count, and
\* until stop is called: get_player_count is the number of players that have a
\* connection, and of those whose departure is under way (:476, :583, :703).
THEOREM PlayersCounted ==
    ASSUME NEW sole, Workers = {sole}, IsFiniteSet(Hdls), Cardinality(Hdls) < CountMod
    PROVE  Spec => []CountIsConnectedPlayers
<1>1. Init => CountIsConnectedPlayers
  <2> SUFFICES ASSUME Init PROVE CountIsConnectedPlayers
    OBVIOUS
  <2>1. Registered = {} /\ Departing({"unlist", "report"}) = {} /\ playerCount = 0
    BY DEF Init, Registered, Departing
  <2> QED
    BY <2>1, FS_EmptySet DEF CountIsConnectedPlayers
<1>2. RecordsInv /\ PlayersInv /\ CountIsConnectedPlayers /\ [Next]_vars
        => CountIsConnectedPlayers'
  <2> SUFFICES ASSUME RecordsInv, PlayersInv, CountIsConnectedPlayers, [Next]_vars,
                      NeverStopped'
               PROVE  playerCount' = PlayersNumber'
    BY DEF CountIsConnectedPlayers, PlayersNumber
  <2>1. TypeOK /\ NeverStopped /\ ~StopClear
    <3>1. TypeOK /\ StopInv
      BY DEF RecordsInv, PlayersInv
    <3> QED
      BY <3>1, StopStays DEF StopInv, StopClear
  <2>2. playerCount = PlayersNumber /\ playerCount < CountMod
    BY <2>1 DEF CountIsConnectedPlayers, PlayersNumber, TypeOK
  <2>3. CASE \E w \in Workers : Admit(w)
    BY <2>2, <2>3, AdmitCount
  <2>4. CASE \E w \in Workers : Unsubscribe(w) \/ Leave(w) \/ Unlist(w) \/ Report(w)
    BY <2>1, <2>2, <2>4, DepartureCount
  <2>5. CASE StillStep
    BY <2>1, <2>2, <2>5, StillPlayers DEF StillStep, PlayersNumber
  <2> QED
    BY <2>1, <2>3, <2>4, <2>5, Still
<1>3. RecordsInv /\ PlayersInv /\ [Next]_vars => RecordsInv' /\ PlayersInv'
  BY RecordsStep, PlayersStep
<1>4. Init => PlayersInv
  BY DEF Init, PlayersInv, StopInv, LeaversInv, PresentAreConnected, IsAt, Registered, Departing
<1> QED
  BY InitRecords, <1>1, <1>2, <1>3, <1>4, PTL DEF Spec

------------------------------------------------------------------------------
(* BaseServer implements SessionService, for any number of workers: every  *)
(* step of a thread is a step of the service or changes nothing of it.     *)

\* The archive as the service sees it.
ArchiveSeen == [s \in Sessions |-> ArchivedResult(s)]

\* update_session_locks keeps the result of what it keeps.
LEMMA ReleasedKeeps ==
    ASSUME TypeOK, NEW n, locked' = Released(n)
    PROVE  \E forgotten \in SUBSET Sessions : ArchiveSeen' = Service!Kept(forgotten)
<1> DEFINE gone == {s \in Sessions : ~Contains(locked', s)}
<1>1. locked \in BufferedMaps(Sessions, Results)
  BY DEF TypeOK
<1>2. /\ Clear(locked) \in BufferedMaps(Sessions, Results)
      /\ DOMAIN Clear(locked).m1 = {}
      /\ Clear(locked).m2 = locked.m1
  BY <1>1, ClearFacts
<1>3. /\ DOMAIN Clear(Clear(locked)).m1 = {}
      /\ Clear(Clear(locked)).m2 = Clear(locked).m1
  BY <1>2, ClearFacts
<1>4. \A s \in Sessions :
         ArchivedResult(s)' = IF s \in gone THEN NoMsg ELSE ArchivedResult(s)
  <2> SUFFICES ASSUME NEW s \in Sessions
               PROVE  ArchivedResult(s)' = IF s \in gone THEN NoMsg ELSE ArchivedResult(s)
    OBVIOUS
  <2>1. CASE locked' = locked
    BY <2>1 DEF ArchivedResult, Contains, Keys
  <2>2. CASE locked' = Clear(locked)
    BY <1>2, <2>2 DEF ArchivedResult, Contains, Keys
  <2>3. CASE locked' = Clear(Clear(locked))
    BY <1>2, <1>3, <2>3 DEF ArchivedResult, Contains, Keys
  <2> QED
    BY <2>1, <2>2, <2>3 DEF Released
<1>5. ArchiveSeen' = Service!Kept(gone)
  BY <1>4 DEF ArchiveSeen, Service!Kept
<1> QED
  BY <1>5

\* A thread that calls update_session_locks and no more forgets sessions.
LEMMA ReleasedForgets ==
    ASSUME TypeOK, \E n \in Elapse : locked' = Released(n), UNCHANGED present
    PROVE  Service!Forget
<1>1. PICK n \in Elapse : locked' = Released(n)
  OBVIOUS
<1>2. \E forgotten \in SUBSET Sessions : ArchiveSeen' = Service!Kept(forgotten)
  BY <1>1, ReleasedKeeps
<1> QED
  BY <1>2 DEF Service!Forget, ArchiveSeen

\* open_session admits a player of a session that is not archived.
LEMMA AdmitOpens ==
    ASSUME TypeOK, NEW w \in Workers, Admit(w)
    PROVE  Service!Open(worker[w].id)
<1> DEFINE id == worker[w].id
<1>1. id \in Ids
  BY InHandFacts DEF Admit, IsAt
<1>2. PICK n \in Elapse : locked' = Released(n)
  BY DEF Admit
<1>3. \E forgotten \in SUBSET Sessions : ArchiveSeen' = Service!Kept(forgotten)
  BY <1>2, ReleasedKeeps
<1>4. ArchiveSeen'[id.session] = NoMsg
  <2>1. id.session \in Sessions
    BY <1>1 DEF Ids
  <2>2. ~Contains(locked', id.session)
    BY DEF Admit
  <2> QED
    BY <2>1, <2>2 DEF ArchiveSeen, ArchivedResult, Contains, Keys
<1>5. present' = present \cup {id}
  BY DEF Admit
<1> QED
  BY <1>3, <1>4, <1>5 DEF Service!Open, ArchiveSeen

\* The last step of complete_session archives the result of a session that
\* has none.
LEMMA ArchiveCompletes ==
    ASSUME TypeOK, CompletingUnarchived, Archive
    PROVE  Service!Complete(loop.sid, loop.result)
<1>1. loop.sid \in Sessions /\ loop.result \in Results
  BY DEF Archive, TypeOK, LoopStates
<1>2. locked \in BufferedMaps(Sessions, Results)
  BY DEF TypeOK
<1> DEFINE b == Insert(locked, loop.sid, loop.result)
<1>3. locked' = b
  BY DEF Archive, Archived
<1>4. /\ DOMAIN b.m1 = DOMAIN locked.m1 \cup {loop.sid}
      /\ \A x \in DOMAIN locked.m1 : b.m1[x] = locked.m1[x]
      /\ b.m2 = locked.m2
  BY <1>1, <1>2, InsertFacts
<1>5. ~Contains(locked, loop.sid)
  BY DEF CompletingUnarchived, Archive
<1>6. b.m1[loop.sid] = loop.result
  BY <1>5 DEF Insert, Contains, Keys, BufferedMaps, TypeOK
<1>7. \A s \in Sessions :
         ArchivedResult(s)' = IF s = loop.sid THEN loop.result ELSE ArchivedResult(s)
  BY <1>3, <1>4, <1>6 DEF ArchivedResult
<1>8. ArchiveSeen' = [ArchiveSeen EXCEPT ![loop.sid] = loop.result]
  BY <1>7 DEF ArchiveSeen
<1>9. ArchiveSeen[loop.sid] = NoMsg
  BY <1>1, <1>5 DEF ArchiveSeen, ArchivedResult, Contains, Keys
<1> QED
  BY <1>8, <1>9 DEF Service!Complete, ArchiveSeen, Archive

------------------------------------------------------------------------------
\* What is neither archived nor announced is no step of the service.
LEMMA ServiceStutter ==
    ASSUME UNCHANGED <<locked, present>>
    PROVE  UNCHANGED Service!service
<1>1. ArchiveSeen' = ArchiveSeen
  BY DEF ArchiveSeen, ArchivedResult
<1> QED
  BY <1>1 DEF Service!service, ArchiveSeen

\* Every step is a step of the service or none.
LEMMA ServiceStep ==
    ASSUME TypeOK, CompletingUnarchived, [Next]_vars
    PROVE  [Service!Next]_(Service!service)
<1>1. CASE \E h \in Hdls : Network(h)
  BY <1>1, ServiceStutter DEF Network, OnOpen, OnMessage, OnClose
<1>2. CASE \E id \in Ids : SendMessage(id)
  BY <1>2, ServiceStutter DEF SendMessage
<1>3. CASE \E s \in Sessions, r \in Results : CompleteSession(s, r)
  <2>1. (\E n \in Elapse : locked' = Released(n)) /\ UNCHANGED present
    BY <1>3 DEF CompleteSession
  <2> QED
    BY <2>1, ReleasedForgets DEF Service!Next
<1>4. CASE PushMessage \/ PushClose \/ \E p \in Players : EachPlayer(p)
  BY <1>4, ServiceStutter DEF PushMessage, PushClose, EachPlayer
<1>5. CASE Archive
  <2>1. loop.sid \in Sessions /\ loop.result \in Results
    BY <1>5 DEF Archive, TypeOK, LoopStates
  <2> QED
    BY <1>5, <2>1, ArchiveCompletes DEF Service!Next
<1>6. CASE StopCall \/ StopLock \/ StopNotify \/ Restart
  BY <1>6, ServiceStutter DEF StopCall, StopLock, StopNotify, Restart
<1>7. CASE StopClear
  <2>1. locked' = Released(2) /\ UNCHANGED present
    BY <1>7 DEF StopClear, Released
  <2>2. \E forgotten \in SUBSET Sessions : ArchiveSeen' = Service!Kept(forgotten)
    BY <2>1, ReleasedKeeps
  <2>3. Service!Forget
    BY <2>1, <2>2 DEF Service!Forget, ArchiveSeen
  <2> QED
    BY <2>3 DEF Service!Next
<1>8. ASSUME NEW w \in Workers, WorkerStep(w) \/ SpuriousWakeup(w)
      PROVE  [Service!Next]_(Service!service)
  <2>1. CASE Admit(w)
    <3>1. worker[w].id \in Ids
      BY <2>1, InHandFacts DEF Admit, IsAt
    <3> QED
      BY <2>1, <3>1, AdmitOpens DEF Service!Next, Ids, Service!Ids
  <2>2. CASE TurnAway(w)
    <3>1. (\E n \in Elapse : locked' = Released(n)) /\ UNCHANGED present
      BY <2>2 DEF TurnAway
    <3> QED
      BY <3>1, ReleasedForgets DEF Service!Next
  <2>3. CASE Report(w)
    <3>1. worker[w].id \in Ids
      BY <2>3, InHandFacts DEF Report, IsAt
    <3>2. UNCHANGED locked /\ present' = present \ {worker[w].id}
      BY <2>3 DEF Report, Departed
    <3>3. ArchiveSeen' = ArchiveSeen
      BY <3>2 DEF ArchiveSeen, ArchivedResult
    <3>4. Service!Close(worker[w].id)
      BY <3>2, <3>3 DEF Service!Close, ArchiveSeen
    <3> QED
      BY <3>1, <3>4 DEF Service!Next, Ids, Service!Ids
  <2>4. CASE \/ CheckRunning(w) \/ TakeAction(w) \/ ReturnFromWait(w)
             \/ SpuriousWakeup(w) \/ Subscribe(w) \/ Unsubscribe(w) \/ Leave(w)
             \/ Unlist(w) \/ InMessage(w) \/ OutMessage(w) \/ CloseConnection(w)
    BY <2>4, ServiceStutter
       DEF CheckRunning, TakeAction, ReturnFromWait, SpuriousWakeup, Subscribe,
           Unsubscribe, Leave, Unlist, InMessage, OutMessage, CloseConnection
  <2> QED
    BY <1>8, <2>1, <2>2, <2>3, <2>4 DEF WorkerStep
<1>9. CASE UNCHANGED vars
  BY <1>9, ServiceStutter DEF vars
<1> QED
  BY <1>1, <1>2, <1>3, <1>4, <1>5, <1>6, <1>7, <1>8, <1>9 DEF Next, LoopStep, StopStep

\* m_session_lock is held from the look into the archive to the insertion.
LEMMA CompletingStep ==
    ASSUME TypeOK, CompletingUnarchived, [Next]_vars
    PROVE  CompletingUnarchived'
<1>1. CASE UNCHANGED <<loop, locked>>
  BY <1>1 DEF CompletingUnarchived
<1>2. CASE SessionLockFree /\ UNCHANGED loop
  BY <1>2 DEF CompletingUnarchived, SessionLockFree
<1>3. CASE \E id \in Ids : SendMessage(id)
  BY <1>3 DEF SendMessage, CompletingUnarchived
<1>4. CASE \E s \in Sessions, r \in Results : CompleteSession(s, r)
  BY <1>4 DEF CompleteSession, MayCall, CompletingUnarchived
<1>5. CASE PushMessage \/ Archive
  BY <1>5 DEF PushMessage, Archive, CompletingUnarchived
<1>6. CASE PushClose \/ \E p \in Players : EachPlayer(p)
  <2>1. loop.pc \in {"each", "close"} /\ loop'.sid = loop.sid /\ UNCHANGED locked
    <3>1. CASE PushClose
      BY <3>1 DEF PushClose
    <3>2. ASSUME NEW p \in Players, EachPlayer(p)
          PROVE  /\ loop.pc \in {"each", "close"}
                 /\ loop'.sid = loop.sid
                 /\ UNCHANGED locked
      <4>1. loop \in [pc : {"each"}, sid : Sessions, result : Results,
                      todo : SUBSET Players]
        BY <3>2 DEF EachPlayer, TypeOK, LoopStates
      <4> QED
        BY <3>2, <4>1 DEF EachPlayer
    <3> QED
      BY <1>6, <3>1, <3>2
  <2> QED
    BY <2>1 DEF CompletingUnarchived
<1>7. CASE \/ \E h \in Hdls : Network(h)
           \/ StopCall \/ StopLock \/ StopNotify \/ Restart
           \/ UNCHANGED vars
  BY <1>1, <1>7 DEF Network, OnOpen, OnMessage, OnClose, StopCall, StopLock,
     StopNotify, Restart, vars
<1>8. CASE StopClear
  BY <1>2, <1>8 DEF StopClear
<1>9. ASSUME NEW w \in Workers, WorkerStep(w) \/ SpuriousWakeup(w)
      PROVE  CompletingUnarchived'
  <2>1. CASE Admit(w) \/ TurnAway(w)
    BY <1>2, <2>1 DEF Admit, TurnAway
  <2>2. CASE ~(Admit(w) \/ TurnAway(w))
    BY <1>1, <1>9, <2>2
       DEF WorkerStep, CheckRunning, TakeAction, ReturnFromWait, SpuriousWakeup,
           Subscribe, Unsubscribe, Leave, Unlist, Report, InMessage, OutMessage,
           CloseConnection
  <2> QED
    BY <2>1, <2>2
<1> QED
  BY <1>3, <1>4, <1>5, <1>6, <1>7, <1>8, <1>9 DEF Next, LoopStep, StopStep

\* The server on top can rely on the service whatever threads there are.
THEOREM ServiceImplemented == Spec => ImplementsService
<1> DEFINE Inv == TypeOK /\ CompletingUnarchived
<1>1. Init => Inv
  BY InitType DEF Init, CompletingUnarchived
<1>2. Inv /\ [Next]_vars => Inv'
  BY TypeStep, CompletingStep
<1>3. Init => Service!Init
  BY EmptyBufferFacts DEF Init, Service!Init, ArchivedResult
<1>4. Inv /\ [Next]_vars => [Service!Next]_(Service!service)
  BY ServiceStep
<1> HIDE DEF Inv
<1> QED
  BY <1>1, <1>2, <1>3, <1>4, PTL DEF Spec, ImplementsService, Service!Spec

------------------------------------------------------------------------------
(* The actions that are queued or in the hand of a worker.                 *)

Held ==
    {a \in Actions : \/ \E i \in DOMAIN actions : actions[i] = a
                     \/ \E w \in Workers : IsAt(w, "act") /\ worker[w].act = a}

\* Nothing is held that was not, when nothing is taken or queued,
LEMMA EaseHeld ==
    ASSUME AtEase, actions' = actions
    PROVE  Held' \subseteq Held
BY DEF AtEase, Held, IsAt

\* when a worker goes on,
LEMMA GotoHeld ==
    ASSUME TypeOK, NEW w \in Workers, NEW state, state.pc # "act", Goto(w, state),
           actions' = actions
    PROVE  Held' \subseteq Held
<1>1. \A v \in Workers : worker'[v] = IF v = w THEN state ELSE worker[v]
  BY DEF Goto, TypeOK
<1> QED
  BY <1>1 DEF Held, IsAt

\* or takes an action;
LEMMA TakeHeld ==
    ASSUME TypeOK, NEW w \in Workers, TakeAction(w)
    PROVE  Held' \subseteq Held
<1>1. CASE actions = <<>>
  <2>1. Goto(w, [pc |-> "wait"]) /\ actions' = actions
    BY <1>1 DEF TakeAction
  <2> QED
    BY <2>1, GotoHeld
<1>2. CASE actions # <<>>
  <2>1. /\ actions' = Tail(actions)
        /\ \A v \in Workers : worker'[v] = IF v = w THEN [pc |-> "act", act |-> Head(actions)]
                                                     ELSE worker[v]
    BY <1>2 DEF TakeAction, Goto, TypeOK
  <2>2. /\ actions \in Seq(Actions) /\ Len(actions) \in Nat \ {0}
        /\ DOMAIN actions = 1..Len(actions) /\ DOMAIN actions' = 1..Len(actions) - 1
        /\ Head(actions) = actions[1] /\ 1 \in DOMAIN actions
        /\ \A i \in 1..Len(actions) - 1 : actions'[i] = actions[i + 1]
    BY <1>2, <2>1 DEF TypeOK
  <2>3. \A i \in DOMAIN actions' : i + 1 \in DOMAIN actions /\ actions'[i] = actions[i + 1]
    BY <2>2
  <2>4. ASSUME NEW a \in Held' PROVE a \in Held
    <3>1. a \in Actions
      BY DEF Held
    <3>2. CASE \E i \in DOMAIN actions' : actions'[i] = a
      BY <2>3, <3>1, <3>2 DEF Held
    <3>3. ASSUME NEW v \in Workers, IsAt(v, "act")', worker'[v].act = a
          PROVE  a \in Held
      BY <2>1, <2>2, <3>1, <3>3 DEF Held, IsAt
    <3> QED
      BY <3>2, <3>3 DEF Held
  <2> QED
    BY <2>4
<1> QED
  BY <1>1, <1>2

\* a push adds one.
LEMMA PushHeld ==
    ASSUME TypeOK, NEW type, NEW h, NEW m, Push(type, h, m)
    PROVE  Held' \subseteq Held \cup {[type |-> type, hdl |-> h, msg |-> m]}
<1> DEFINE b == [type |-> type, hdl |-> h, msg |-> m]
<1>1. AtEase
  BY NotifyAtEase DEF Push
<1>2. actions' = Append(actions, b) /\ actions \in Seq(Actions)
  BY DEF Push, TypeOK
<1>3. /\ DOMAIN actions' = 1..Len(actions) + 1 /\ DOMAIN actions = 1..Len(actions)
      /\ \A i \in DOMAIN actions' : actions'[i] = IF i = Len(actions) + 1 THEN b ELSE actions[i]
  BY <1>2
<1>4. \A i \in DOMAIN actions' : actions'[i] = b \/ (i \in DOMAIN actions /\ actions'[i] = actions[i])
  BY <1>2, <1>3
<1>5. ASSUME NEW a \in Held', a # b PROVE a \in Held
  BY <1>1, <1>4, <1>5 DEF Held, AtEase, IsAt
<1> QED
  BY <1>5

\* Where an action comes from that was not held before.
LEMMA HeldStep ==
    ASSUME TypeOK, [Next]_vars, NEW a \in Held', a \notin Held
    PROVE  \/ a.type \in {"SUBSCRIBE", "UNSUBSCRIBE"}
           \/ /\ a.type = "IN_MESSAGE"
              /\ \E text \in Texts : OnMessage(a.hdl, text)
           \/ /\ PushMessage
              /\ a = [type |-> "OUT_MESSAGE", hdl |-> loop.hdl, msg |-> loop.id]
           \/ /\ PushClose
              /\ a = [type |-> "CLOSE_CONNECTION", hdl |-> loop.hdl,
                      msg |-> [id |-> [player |-> loop.player, session |-> loop.sid],
                               result |-> loop.result]]
<1>1. CASE \E h \in Hdls : Network(h)
  <2>1. PICK h \in Hdls : Network(h)
    BY <1>1
  <2>2. CASE OnOpen(h) /\ running
    BY <2>2, PushHeld DEF OnOpen
  <2>3. CASE OnOpen(h) /\ ~running
    BY <2>3, NotifyAtEase, EaseHeld DEF OnOpen
  <2>4. ASSUME NEW text \in Texts, OnMessage(h, text)
        PROVE  a.type = "IN_MESSAGE" /\ \E t \in Texts : OnMessage(a.hdl, t)
    <3>1. a = [type |-> "IN_MESSAGE", hdl |-> h, msg |-> text]
      BY <2>4, PushHeld DEF OnMessage
    <3> QED
      BY <2>4, <3>1
  <2>5. CASE OnClose(h)
    BY <2>5, PushHeld DEF OnClose
  <2> QED
    BY <2>1, <2>2, <2>3, <2>4, <2>5 DEF Network
<1>2. ASSUME NEW w \in Workers, WorkerStep(w) \/ SpuriousWakeup(w)
      PROVE  FALSE
  <2>1. CASE TakeAction(w)
    BY <2>1, TakeHeld
  <2>2. CASE ~TakeAction(w)
    <3>1. actions' = actions
      BY <1>2, <2>2 DEF WorkerStep, SpuriousWakeup, CheckRunning, ReturnFromWait, Subscribe,
         Unsubscribe, Leave, Unlist, Report, InMessage, Admit, TurnAway, OutMessage,
         CloseConnection
    <3>2. PICK state : Goto(w, state) /\ state.pc # "act"
      BY <1>2, <2>2 DEF WorkerStep, SpuriousWakeup, CheckRunning, ReturnFromWait, Subscribe,
         Unsubscribe, Leave, Unlist, Report, InMessage, Admit, TurnAway, OutMessage,
         CloseConnection, Departure
    <3> QED
      BY <3>1, <3>2, GotoHeld
  <2> QED
    BY <2>1, <2>2
<1>3. CASE PushMessage
  BY <1>3, PushHeld DEF PushMessage
<1>4. CASE PushClose
  BY <1>4, PushHeld DEF PushClose
<1>5. CASE \/ \E id \in Ids : SendMessage(id)
           \/ \E s \in Sessions, r \in Results : CompleteSession(s, r)
           \/ \E p \in Players : EachPlayer(p)
           \/ Archive \/ StopCall \/ StopLock \/ StopNotify \/ Restart
           \/ UNCHANGED vars
  <2>1. actions' = actions
    BY <1>5 DEF SendMessage, CompleteSession, EachPlayer, Archive, StopCall, StopLock,
       StopNotify, Restart, vars
  <2>2. AtEase
    <3>1. CASE StopNotify \/ Restart
      BY <3>1 DEF StopNotify, Restart, AtEase, IsAt
    <3>2. CASE ~(StopNotify \/ Restart)
      <4>1. worker' = worker
        BY <1>5, <3>2 DEF SendMessage, CompleteSession, EachPlayer, Archive, StopCall,
           StopLock, vars
      <4> QED
        BY <4>1 DEF AtEase
    <3> QED
      BY <3>1, <3>2
  <2> QED
    BY <2>1, <2>2, EaseHeld
<1>6. CASE StopClear
  <2>1. worker' = worker /\ actions' = <<>>
    BY <1>6 DEF StopClear
  <2> QED
    BY <2>1 DEF Held, IsAt
<1> QED
  BY <1>1, <1>2, <1>3, <1>4, <1>5, <1>6 DEF Next, LoopStep, StopStep

\* What becomes of a connection: only a new one is opened, and what is neither
\* new nor open stays so.
LEMMA ConnSteps ==
    ASSUME TypeOK, [Next]_vars, NEW h \in Hdls
    PROVE  /\ conn'[h] = "new" => conn[h] = "new"
           /\ conn'[h] = "open" => conn[h] \in {"new", "open"}
<1>1. CASE UNCHANGED conn
  BY <1>1
<1>2. CASE \E hs : Close(hs)
  BY <1>2 DEF Close
<1>3. ASSUME NEW g \in Hdls, Network(g)
      PROVE  /\ conn'[h] = "new" => conn[h] = "new"
             /\ conn'[h] = "open" => conn[h] \in {"new", "open"}
  <2>1. CASE OnOpen(g)
    <3>1. conn[g] = "new" /\ \E c \in {"open", "closing"} : conn' = [conn EXCEPT ![g] = c]
      BY <2>1 DEF OnOpen
    <3> QED
      BY <3>1 DEF TypeOK
  <2>2. CASE \E text \in Texts : OnMessage(g, text)
    BY <2>2 DEF OnMessage, TypeOK
  <2>3. CASE OnClose(g)
    BY <2>3 DEF OnClose, TypeOK
  <2> QED
    BY <1>3, <2>1, <2>2, <2>3 DEF Network
<1>4. ASSUME NEW w \in Workers, WorkerStep(w) \/ SpuriousWakeup(w)
      PROVE  UNCHANGED conn \/ \E hs : Close(hs)
  BY <1>4 DEF WorkerStep, SpuriousWakeup, CheckRunning, TakeAction, ReturnFromWait, Subscribe,
     Unsubscribe, Leave, Unlist, Report, InMessage, Admit, SetupConnectionId, CloseDuplicate,
     TurnAway, EndSession, OutMessage, CloseConnection
<1>5. CASE \/ \E id \in Ids : SendMessage(id)
           \/ \E s \in Sessions, r \in Results : CompleteSession(s, r)
           \/ LoopStep \/ StopCall \/ StopStep \/ Restart
           \/ UNCHANGED vars
  <2>1. UNCHANGED conn \/ \E hs : Close(hs)
    BY <1>5 DEF SendMessage, CompleteSession, LoopStep, PushMessage, EachPlayer, PushClose,
       Archive, StopCall, StopStep, StopLock, StopClear, StopNotify, Restart, vars
  <2> QED
    BY <1>1, <1>2, <2>1
<1> QED
  BY <1>1, <1>2, <1>3, <1>4, <1>5 DEF Next

------------------------------------------------------------------------------
(* Any number of workers: what the players are told at the end.            *)

\* Who is told a result is told it once: the connection is closed with it.
ToldInv ==
    \A h \in Hdls : /\ \A t, u \in told[h] : t = u
                    /\ told[h] # {} => conn[h] \notin {"new", "open"}

\* The steps that tell somebody something.
LEMMA TellingSteps ==
    ASSUME [Next]_vars
    PROVE  \/ UNCHANGED told
           \/ \E w \in Workers : TurnAway(w) \/ CloseConnection(w)
BY DEF Next, vars, Network, OnOpen, OnMessage, OnClose, WorkerStep, SpuriousWakeup,
       CheckRunning, TakeAction, ReturnFromWait, Subscribe, Unsubscribe, Leave, Unlist,
       Report, InMessage, Admit, OutMessage, SendMessage, CompleteSession, LoopStep,
       PushMessage, EachPlayer, PushClose, Archive, StopCall, StopStep, StopLock,
       StopClear, StopNotify, Restart

\* The end of a session, as a connection sees it.
LEMMA EndSessionFacts ==
    ASSUME TypeOK, NEW h \in Hdls, NEW token, EndSession(h, token), NEW g \in Hdls
    PROVE  /\ g # h => told'[g] = told[g]
           /\ conn[h] # "open" => told'[h] = told[h]
           /\ conn[h] = "open" => told'[h] = told[h] \cup {token}
           /\ conn[h] = "open" => conn'[h] \in {"late", "closing"}
BY DEF EndSession, Send, Close, TypeOK

\* A connection is told one result at most, and is not open any more then.
LEMMA ToldStep == TypeOK /\ ToldInv /\ [Next]_vars => ToldInv'
<1> SUFFICES ASSUME TypeOK, ToldInv, [Next]_vars, NEW g \in Hdls
             PROVE  /\ \A t, u \in told'[g] : t = u
                    /\ told'[g] # {} => conn'[g] \notin {"new", "open"}
  BY DEF ToldInv
<1>1. CASE told'[g] = told[g]
  BY <1>1, ConnSteps DEF ToldInv
<1>2. ASSUME NEW h \in Hdls, NEW token, EndSession(h, token)
      PROVE  /\ \A t, u \in told'[g] : t = u
             /\ told'[g] # {} => conn'[g] \notin {"new", "open"}
  <2>1. CASE g = h /\ conn[h] = "open"
    <3>1. told[g] = {}
      BY <2>1 DEF ToldInv
    <3> QED
      BY <1>2, <2>1, <3>1, EndSessionFacts
  <2> QED
    BY <1>1, <1>2, <2>1, EndSessionFacts
<1>3. ASSUME NEW w \in Workers, TurnAway(w) \/ CloseConnection(w)
      PROVE  \E h \in Hdls : \E token : EndSession(h, token)
  <2>1. CASE TurnAway(w)
    <3>1. worker[w].hdl \in Hdls
      BY <2>1, InHandFacts DEF TurnAway, IsAt
    <3> QED
      BY <2>1, <3>1 DEF TurnAway
  <2>2. CASE CloseConnection(w)
    <3>1. worker[w].act.hdl \in Hdls
      BY <2>2, InHandFacts, ActionFacts DEF CloseConnection, InHand, IsAt
    <3> QED
      BY <2>2, <3>1 DEF CloseConnection
  <2> QED
    BY <1>3, <2>1, <2>2
<1> QED
  BY <1>1, <1>2, <1>3, TellingSteps

\* A result is that of the archive, or of the session that is being completed.
Agreed(t) ==
    \/ ArchivedResult(t.id.session) = t.result
    \/ /\ loop.pc \in {"each", "close"}
       /\ loop.sid = t.id.session
       /\ loop.result = t.result

\* Until stop is called: every result that was told, or is on its way, is.
ResultsInv ==
    NeverStopped =>
        /\ \A h \in Hdls : \A t \in told[h] : Agreed(t)
        /\ \A a \in Held : a.type = "CLOSE_CONNECTION" => Agreed(a.msg)

\* Nothing is forgotten during a release time, so what is agreed stays so.
LEMMA AgreedStays ==
    ASSUME Elapse = {0}, TypeOK, CompletingUnarchived, StopInv, [Next]_vars, NeverStopped',
           NEW t \in ResultTokens, Agreed(t)
    PROVE  Agreed(t)'
<1> DEFINE s == t.id.session
<1>1. ~StopClear
  BY StopStays DEF StopInv, StopClear
<1>2. s \in Sessions /\ t.result \in Results
  BY DEF ResultTokens, Ids
<1>3. CASE Archive
  <2>1. ArchiveSeen' = [ArchiveSeen EXCEPT ![loop.sid] = loop.result]
        /\ ArchiveSeen[loop.sid] = NoMsg /\ loop.sid \in Sessions
    BY <1>3, ArchiveCompletes DEF Service!Complete, ArchiveSeen, Archive, TypeOK, LoopStates
  <2>2. ArchivedResult(s)' = IF s = loop.sid THEN loop.result ELSE ArchivedResult(s)
    BY <1>2, <2>1 DEF ArchiveSeen
  <2>3. s = loop.sid => ArchivedResult(s) = NoMsg
    BY <2>1 DEF ArchiveSeen
  <2> QED
    BY <1>2, <2>2, <2>3, NullAssumption DEF Agreed
<1>4. CASE ~Archive
  <2>1. locked' = locked
    <3>1. Released(0) = locked
      BY DEF Released
    <3> QED
      BY <1>1, <1>4, <3>1 DEF Next, vars, Network, OnOpen, OnMessage, OnClose, WorkerStep, SpuriousWakeup,
         CheckRunning, TakeAction, ReturnFromWait, Subscribe, Unsubscribe, Leave, Unlist,
         Report, InMessage, Admit, TurnAway, OutMessage, CloseConnection, SendMessage,
         CompleteSession, LoopStep, PushMessage, EachPlayer, PushClose, StopCall,
         StopStep, StopLock, StopNotify, Restart
  <2>2. ArchivedResult(s)' = ArchivedResult(s)
    BY <2>1 DEF ArchivedResult
  <2>3. loop.pc \in {"each", "close"} =>
           /\ loop'.pc \in {"each", "close"}
           /\ loop'.sid = loop.sid /\ loop'.result = loop.result
    <3>1. CASE UNCHANGED loop
      BY <3>1
    <3>2. CASE \/ \E id \in Ids : SendMessage(id)
               \/ \E z \in Sessions, r \in Results : CompleteSession(z, r)
               \/ PushMessage
      BY <3>2 DEF SendMessage, CompleteSession, MayCall, PushMessage
    <3>3. CASE PushClose
      BY <3>3 DEF PushClose
    <3>4. ASSUME NEW p \in Players, EachPlayer(p)
          PROVE  /\ loop'.pc \in {"each", "close"}
                 /\ loop'.sid = loop.sid /\ loop'.result = loop.result
      <4>1. loop \in [pc : {"each"}, sid : Sessions, result : Results, todo : SUBSET Players]
        BY <3>4 DEF EachPlayer, TypeOK, LoopStates
      <4> QED
        BY <3>4, <4>1 DEF EachPlayer
    <3> QED
      BY <1>4, <3>1, <3>2, <3>3, <3>4
      DEF Next, vars, Network, OnOpen, OnMessage, OnClose, WorkerStep, SpuriousWakeup,
         CheckRunning, TakeAction, ReturnFromWait, Subscribe, Unsubscribe, Leave, Unlist,
         Report, InMessage, Admit, TurnAway, OutMessage, CloseConnection, LoopStep,
         StopCall, StopStep, StopLock, StopClear, StopNotify, Restart
  <2> QED
    BY <2>2, <2>3 DEF Agreed
<1> QED
  BY <1>3, <1>4

\* What is told, and queued to be told, is agreed.
LEMMA ResultsStep ==
    ASSUME Elapse = {0}
    PROVE  TypeOK /\ CompletingUnarchived /\ StopInv /\ ResultsInv /\ [Next]_vars
               => ResultsInv'
<1> SUFFICES ASSUME TypeOK, CompletingUnarchived, StopInv, ResultsInv, [Next]_vars,
                    NeverStopped'
             PROVE  /\ \A h \in Hdls : \A t \in told'[h] : Agreed(t)'
                    /\ \A a \in Held' : a.type = "CLOSE_CONNECTION" => Agreed(a.msg)'
  BY DEF ResultsInv
<1>1. /\ NeverStopped
      /\ \A h \in Hdls : \A t \in told[h] : Agreed(t)
      /\ \A a \in Held : a.type = "CLOSE_CONNECTION" => Agreed(a.msg)
  BY StopStays DEF ResultsInv
<1>2. \A a \in Held : a \in Actions
  BY DEF Held
<1>3. ASSUME NEW h \in Hdls, NEW t \in told'[h]
      PROVE  Agreed(t)'
  <2>1. CASE t \in told[h]
    <3>1. t \in ResultTokens
      BY <2>1 DEF TypeOK
    <3> QED
      BY <1>1, <2>1, <3>1, AgreedStays
  <2>2. ASSUME NEW w \in Workers, CloseConnection(w), t \notin told[h]
        PROVE  Agreed(t)'
    <3> DEFINE a == worker[w].act
    <3>1. a \in Actions /\ a.type = "CLOSE_CONNECTION" /\ a \in Held
      BY <2>2, InHandFacts DEF CloseConnection, InHand, IsAt, Held
    <3>2. a.hdl \in Hdls /\ a.msg \in ResultTokens
      BY <3>1, ActionFacts
    <3>3. EndSession(a.hdl, a.msg)
      BY <2>2 DEF CloseConnection
    <3>4. t = a.msg
      BY <2>2, <3>2, <3>3, EndSessionFacts
    <3> QED
      BY <1>1, <3>1, <3>2, <3>4, AgreedStays
  <2>3. ASSUME NEW w \in Workers, TurnAway(w), t \notin told[h]
        PROVE  Agreed(t)'
    <3>1. worker[w].hdl \in Hdls /\ worker[w].id \in Ids
      BY <2>3, InHandFacts DEF TurnAway, IsAt
    <3>2. PICK s \in Sessions : s = worker[w].id.session
      BY <3>1 DEF Ids
    <3>3. /\ EndSession(worker[w].hdl, [id |-> worker[w].id, result |-> At(locked', s)])
          /\ Contains(locked', s)
      BY <2>3, <3>2 DEF TurnAway
    <3>4. t = [id |-> worker[w].id, result |-> At(locked', s)]
      BY <2>3, <3>1, <3>3, EndSessionFacts
    <3>5. ArchivedResult(s)' = At(locked', s)
      BY <3>3 DEF ArchivedResult, Contains, Keys, At
    <3>6. t.id.session = s /\ t.result = At(locked', s)
      BY <3>2, <3>4
    <3> QED
      BY <3>5, <3>6 DEF Agreed
  <2> QED
    BY <2>1, <2>2, <2>3, TellingSteps
<1>4. ASSUME NEW a \in Held', a.type = "CLOSE_CONNECTION"
      PROVE  Agreed(a.msg)'
  <2>1. CASE a \in Held
    <3>1. a.msg \in ResultTokens
      BY <1>2, <1>4, <2>1, ActionFacts
    <3> QED
      BY <1>1, <1>4, <2>1, <3>1, AgreedStays
  <2>2. CASE a \notin Held
    <3>1. PushClose /\ a.msg = [id |-> [player |-> loop.player, session |-> loop.sid],
                                result |-> loop.result]
      BY <1>4, <2>2, HeldStep
    <3>2. loop' = [pc |-> "each", sid |-> loop.sid, result |-> loop.result, todo |-> loop.todo]
      BY <3>1 DEF PushClose
    <3> QED
      BY <3>1, <3>2 DEF Agreed
  <2> QED
    BY <2>1, <2>2
<1> QED
  BY <1>3, <1>4

\* For any number of workers, within the release time of the sessions and until
\* stop is called: all players of a session are told the same result, those who
\* are there when it is completed and those who log in later, and no connection
\* is told two (:521-563, :757-766).
THEOREM ResultsAgree ==
    ASSUME Elapse = {0}
    PROVE  Spec => [](NeverStopped => OneResultPerSession)
<1> DEFINE Inv == TypeOK /\ CompletingUnarchived /\ StopInv /\ ToldInv /\ ResultsInv
<1>1. Init => Inv
  <2>1. Init => Held = {}
    BY DEF Init, Held, IsAt
  <2> QED
    BY <2>1, InitType DEF Init, CompletingUnarchived, StopInv, ToldInv, ResultsInv
<1>2. Inv /\ [Next]_vars => Inv'
  BY TypeStep, CompletingStep, StopStays, ToldStep, ResultsStep
<1>3. Inv => (NeverStopped => OneResultPerSession)
  <2> SUFFICES ASSUME Inv, NeverStopped,
                      NEW h \in Hdls, NEW g \in Hdls, NEW t \in told[h], NEW u \in told[g],
                      t.id.session = u.id.session
               PROVE  t.result = u.result
    BY DEF OneResultPerSession, ToldInv
  <2>1. Agreed(t) /\ Agreed(u)
    BY DEF ResultsInv
  <2>2. t.result # NoMsg /\ u.result # NoMsg
    <3>1. t \in ResultTokens /\ u \in ResultTokens
      BY DEF TypeOK
    <3> QED
      BY <3>1, NullAssumption DEF ResultTokens
  <2>3. loop.pc \in {"each", "close"} => ArchivedResult(loop.sid) = NoMsg
    BY DEF CompletingUnarchived, ArchivedResult, Contains, Keys
  <2> QED
    BY <2>1, <2>2, <2>3 DEF Agreed
<1> HIDE DEF Inv
<1> QED
  BY <1>1, <1>2, <1>3, PTL DEF Spec

------------------------------------------------------------------------------
(* One worker: whom a message reaches.                                     *)

\* Only connections that were opened are in the records or sent messages,
OpenedInv ==
    /\ \A h \in Hdls : connectionId[h] # NoId => conn[h] # "new"
    /\ \A w \in Workers : IsAt(w, "open") => conn[worker[w].hdl] # "new"
    /\ \A a \in Held : a.type \in {"IN_MESSAGE", "OUT_MESSAGE"} => conn[a.hdl] # "new"
    /\ loop.pc = "send" => conn[loop.hdl] # "new"

\* and what is sent to one is for the player it has, as long as it is open.
MessagesInv ==
    /\ \A a \in Held :
          a.type = "OUT_MESSAGE" /\ conn[a.hdl] = "open" => connectionId[a.hdl] = a.msg
    /\ loop.pc = "send" /\ conn[loop.hdl] = "open" => connectionId[loop.hdl] = loop.id

\* The steps that change whose connection is whose.
LEMMA IdSteps ==
    ASSUME [Next]_vars
    PROVE  \/ UNCHANGED connectionId
           \/ \E w \in Workers : Leave(w) \/ Admit(w)
           \/ StopClear
BY DEF Next, vars, Network, OnOpen, OnMessage, OnClose, WorkerStep, SpuriousWakeup,
       CheckRunning, TakeAction, ReturnFromWait, Subscribe, Unsubscribe, Unlist,
       Report, InMessage, TurnAway, OutMessage, CloseConnection, SendMessage, CompleteSession,
       LoopStep, PushMessage, EachPlayer, PushClose, Archive, StopCall, StopStep, StopLock,
       StopNotify, Restart

\* A connection that is open, and stays so, keeps its id: one that loses it to a
\* later login, to its departure or to stop is closed.
LEMMA IdStays ==
    ASSUME RecordsInv, ConnectionsInv, [Next]_vars,
           NEW h \in Hdls, connectionId[h] # NoId, conn[h] # "new", conn'[h] = "open"
    PROVE  conn[h] = "open" /\ connectionId'[h] = connectionId[h]
<1>1. TypeOK /\ conn[h] = "open"
  BY ConnSteps DEF RecordsInv
<1>2. ASSUME NEW w \in Workers, Leave(w)
      PROVE  connectionId'[h] = connectionId[h]
  <2>1. conn[worker[w].hdl] = "closed"
    BY <1>2 DEF Leave, ConnectionsInv
  <2> QED
    BY <1>1, <1>2, <2>1 DEF Leave, TypeOK
<1>3. ASSUME NEW w \in Workers, Admit(w)
      PROVE  connectionId'[h] = connectionId[h]
  <2> DEFINE old == idConnection[worker[w].id]
  <2>1. /\ h # worker[w].hdl
        /\ h # old => connectionId'[h] = connectionId[h]
    BY <1>3, AdmitIds
  <2>2. CASE h = old
    <3>1. old # NoHdl
      BY <2>2, NullAssumption
    <3>2. Close({old})
      BY <1>3, <3>1 DEF Admit, SetupConnectionId, CloseDuplicate
    <3> QED
      BY <1>1, <2>2, <3>2, CloseConnections
  <2> QED
    BY <2>1, <2>2
<1>4. CASE StopClear
  <2>1. Close(KnownConnections) /\ h \in KnownConnections
    BY <1>4 DEF StopClear, KnownConnections
  <2> QED
    BY <1>1, <2>1, CloseConnections
<1> QED
  BY <1>1, <1>2, <1>3, <1>4, IdSteps

\* A worker that is notified is woken, and nothing else.
LEMMA NotifyWakes ==
    ASSUME TypeOK, NotifyOne, NEW w \in Workers, IsAt(w, "open")'
    PROVE  worker'[w] = worker[w]
<1>1. CASE Waiting = {}
  BY <1>1 DEF NotifyOne
<1>2. CASE Waiting # {}
  <2>1. PICK v \in Waiting : worker' = [worker EXCEPT ![v] = [pc |-> "woken"]]
    BY <1>2 DEF NotifyOne
  <2>2. worker'[w] = IF v = w THEN [pc |-> "woken"] ELSE worker[w]
    BY <2>1 DEF TypeOK
  <2> QED
    BY <2>2 DEF IsAt
<1> QED
  BY <1>1, <1>2

\* Who opens a session has sent a token.
LEMMA OpenSteps ==
    ASSUME TypeOK, [Next]_vars, NEW w \in Workers, IsAt(w, "open")'
    PROVE  \/ worker'[w] = worker[w]
           \/ InMessage(w) /\ worker'[w].hdl = worker[w].act.hdl
<1>1. CASE NotifyOne
  BY <1>1, NotifyWakes
<1>2. ASSUME NEW v \in Workers, NEW state, Goto(v, state), state.pc # "open"
      PROVE  worker'[w] = worker[w]
  BY <1>2 DEF Goto, IsAt, TypeOK
<1>3. ASSUME NEW v \in Workers, InMessage(v)
      PROVE  \/ worker'[w] = worker[w]
             \/ InMessage(w) /\ worker'[w].hdl = worker[w].act.hdl
  <2>1. PICK state : /\ Goto(v, state)
                     /\ state.pc = "open" => state.hdl = worker[v].act.hdl
    BY <1>3 DEF InMessage
  <2>2. worker'[w] = IF w = v THEN state ELSE worker[w]
    BY <2>1 DEF Goto, TypeOK
  <2> QED
    BY <1>3, <2>1, <2>2 DEF IsAt
<1>4. ASSUME NEW v \in Workers, WorkerStep(v) \/ SpuriousWakeup(v), ~InMessage(v)
      PROVE  \E state : Goto(v, state) /\ state.pc # "open"
  BY <1>4 DEF WorkerStep, SpuriousWakeup, CheckRunning, TakeAction, ReturnFromWait, Subscribe,
     Unsubscribe, Leave, Unlist, Report, Admit, TurnAway, OutMessage, CloseConnection, Departure
<1>5. ASSUME NEW h \in Hdls, Network(h) PROVE NotifyOne
  BY <1>5 DEF Network, OnOpen, OnMessage, OnClose, Push
<1>6. CASE PushMessage \/ PushClose
  <2>1. NotifyOne
    BY <1>6 DEF PushMessage, PushClose, Push
  <2> QED
    BY <1>1, <2>1
<1>7. CASE StopNotify \/ Restart
  BY <1>7 DEF StopNotify, Restart, IsAt
<1>8. CASE worker' = worker
  BY <1>8
<1> QED
  BY <1>1, <1>2, <1>3, <1>4, <1>5, <1>6, <1>7, <1>8
  DEF Next, vars, SendMessage, CompleteSession, LoopStep, EachPlayer, Archive, StopCall,
      StopStep, StopLock, StopClear

\* The main loop sends to the connection it has looked up.
LEMMA SendSteps ==
    ASSUME RecordsInv, [Next]_vars, loop'.pc = "send"
    PROVE  \/ loop' = loop
           \/ /\ connectionId' = connectionId /\ conn' = conn
              /\ loop'.hdl \in Hdls /\ connectionId[loop'.hdl] = loop'.id
              /\ loop'.id \in Ids
<1>1. ASSUME NEW id \in Ids, SendMessage(id)
      PROVE  /\ connectionId' = connectionId /\ conn' = conn
             /\ loop'.hdl \in Hdls /\ connectionId[loop'.hdl] = loop'.id
             /\ loop'.id \in Ids
  <2>1. /\ loop'.id = id /\ loop'.hdl = idConnection[id] /\ idConnection[id] # NoHdl
        /\ connectionId' = connectionId /\ conn' = conn
    BY <1>1 DEF SendMessage
  <2>2. idConnection[id] \in Hdls
    BY <2>1 DEF RecordsInv, TypeOK
  <2>3. connectionId[idConnection[id]] = id
    BY <2>2 DEF RecordsInv, OneConnectionPerId
  <2> QED
    BY <2>1, <2>2, <2>3
<1>2. ASSUME NEW p \in Players, EachPlayer(p) PROVE loop'.pc # "send"
  <2>1. loop \in [pc : {"each"}, sid : Sessions, result : Results, todo : SUBSET Players]
    BY <1>2 DEF EachPlayer, RecordsInv, TypeOK, LoopStates
  <2> QED
    BY <1>2, <2>1 DEF EachPlayer
<1>3. ASSUME NEW s \in Sessions, NEW r \in Results, CompleteSession(s, r)
      PROVE  loop' = loop
  BY <1>3 DEF CompleteSession
<1>4. CASE PushMessage \/ PushClose \/ Archive
  BY <1>4 DEF PushMessage, PushClose, Archive
<1> QED
  BY <1>1, <1>2, <1>3, <1>4
  DEF Next, vars, Network, OnOpen, OnMessage, OnClose, WorkerStep, SpuriousWakeup,
      CheckRunning, TakeAction, ReturnFromWait, Subscribe, Unsubscribe, Leave, Unlist,
      Report, InMessage, Admit, TurnAway, OutMessage, CloseConnection, LoopStep,
      StopCall, StopStep, StopLock, StopClear, StopNotify, Restart

\* A connection that has an id, or a message under way, was opened before.
LEMMA OpenedStep == RecordsInv /\ OpenedInv /\ [Next]_vars => OpenedInv'
<1> SUFFICES ASSUME RecordsInv, OpenedInv, [Next]_vars PROVE OpenedInv'
  OBVIOUS
<1>t. TypeOK
  BY DEF RecordsInv
<1>1. ASSUME NEW h \in Hdls, connectionId'[h] # NoId
      PROVE  conn'[h] # "new"
  <2>1. CASE connectionId[h] # NoId
    BY <1>t, <2>1, ConnSteps DEF OpenedInv
  <2>2. CASE connectionId[h] = NoId
    <3>1. ASSUME NEW w \in Workers, Leave(w) PROVE FALSE
      BY <1>t, <1>1, <2>2, <3>1 DEF Leave, TypeOK
    <3>2. ASSUME NEW w \in Workers, Admit(w) PROVE conn[h] # "new"
      <4>1. h = worker[w].hdl
        BY <1>1, <2>2, <3>2, AdmitIds
      <4> QED
        BY <3>2, <4>1 DEF Admit, OpenedInv
    <3>3. ~StopClear
      BY <1>1 DEF StopClear, ClearRecords
    <3> QED
      BY <1>t, <1>1, <2>2, <3>1, <3>2, <3>3, IdSteps, ConnSteps
  <2> QED
    BY <2>1, <2>2
<1>2. ASSUME NEW w \in Workers, IsAt(w, "open")'
      PROVE  conn'[worker'[w].hdl] # "new"
  <2>1. CASE worker'[w] = worker[w]
    <3>1. IsAt(w, "open") /\ worker[w].hdl \in Hdls
      BY <1>t, <1>2, <2>1, InHandFacts DEF IsAt
    <3> QED
      BY <1>t, <2>1, <3>1, ConnSteps DEF OpenedInv
  <2>2. CASE InMessage(w) /\ worker'[w].hdl = worker[w].act.hdl
    <3>1. worker[w].act \in Actions /\ worker[w].act \in Held
          /\ worker[w].act.type = "IN_MESSAGE"
      BY <1>t, <2>2, InHandFacts DEF InMessage, InHand, IsAt, Held
    <3> QED
      BY <1>t, <2>2, <3>1, ActionFacts, ConnSteps DEF OpenedInv
  <2> QED
    BY <1>t, <1>2, <2>1, <2>2, OpenSteps
<1>3. ASSUME NEW a \in Held', a.type \in {"IN_MESSAGE", "OUT_MESSAGE"}
      PROVE  conn'[a.hdl] # "new"
  <2>1. a \in Actions /\ a.hdl \in Hdls
    BY ActionFacts DEF Held
  <2>2. conn[a.hdl] # "new"
    <3>1. CASE a \in Held
      BY <1>3, <3>1 DEF OpenedInv
    <3>2. CASE \E text \in Texts : OnMessage(a.hdl, text)
      BY <3>2 DEF OnMessage
    <3>3. CASE PushMessage /\ a.hdl = loop.hdl
      BY <3>3 DEF PushMessage, OpenedInv
    <3> QED
      BY <1>t, <1>3, <3>1, <3>2, <3>3, HeldStep
  <2> QED
    BY <1>t, <2>1, <2>2, ConnSteps
<1>4. ASSUME loop'.pc = "send"
      PROVE  conn'[loop'.hdl] # "new"
  <2>1. CASE loop' = loop
    <3>1. loop.pc = "send" /\ loop.hdl \in Hdls
      BY <1>t, <1>4, <2>1 DEF TypeOK, LoopStates
    <3> QED
      BY <1>t, <2>1, <3>1, ConnSteps DEF OpenedInv
  <2> QED
    BY <1>4, <2>1, SendSteps, NullAssumption DEF OpenedInv
<1> QED
  BY <1>1, <1>2, <1>3, <1>4 DEF OpenedInv

\* While a message to a connection is under way, its id stays what it was.
LEMMA MessagesStep ==
    RecordsInv /\ ConnectionsInv /\ OpenedInv /\ MessagesInv /\ [Next]_vars => MessagesInv'
<1> SUFFICES ASSUME RecordsInv, ConnectionsInv, OpenedInv, MessagesInv, [Next]_vars
             PROVE  MessagesInv'
  OBVIOUS
<1>t. TypeOK
  BY DEF RecordsInv
\* What was for a player that had the connection still is.
<1>1. ASSUME NEW h \in Hdls, NEW id \in Ids, conn[h] # "new", conn'[h] = "open",
             conn[h] = "open" => connectionId[h] = id
      PROVE  connectionId'[h] = id
  <2>1. conn[h] = "open"
    BY <1>t, <1>1, ConnSteps
  <2>2. connectionId[h] = id /\ connectionId[h] # NoId
    BY <1>1, <2>1, NullAssumption
  <2> QED
    BY <1>1, <2>2, IdStays
<1>2. loop.pc = "send" => loop.hdl \in Hdls /\ loop.id \in Ids
  BY <1>t DEF TypeOK, LoopStates
<1>3. ASSUME NEW a \in Held', a.type = "OUT_MESSAGE", conn'[a.hdl] = "open"
      PROVE  connectionId'[a.hdl] = a.msg
  <2>1. a \in Actions /\ a.hdl \in Hdls /\ a.msg \in Ids
    BY <1>3 DEF Held, Actions
  <2>2. CASE a \in Held
    BY <1>1, <1>3, <2>1, <2>2 DEF OpenedInv, MessagesInv
  <2>3. CASE PushMessage /\ a.hdl = loop.hdl /\ a.msg = loop.id
    BY <1>1, <1>2, <1>3, <2>3 DEF PushMessage, OpenedInv, MessagesInv
  <2> QED
    BY <1>t, <1>3, <2>2, <2>3, HeldStep
<1>4. ASSUME loop'.pc = "send", conn'[loop'.hdl] = "open"
      PROVE  connectionId'[loop'.hdl] = loop'.id
  <2>1. CASE loop' = loop
    BY <1>1, <1>2, <1>4, <2>1 DEF OpenedInv, MessagesInv
  <2> QED
    BY <1>4, <2>1, SendSteps
<1> QED
  BY <1>3, <1>4 DEF MessagesInv

\* With one worker, through stops and restarts: a message that was queued for a
\* player goes out on the connection of that player, or on none (:481-503).
THEOREM MessagesReach ==
    ASSUME NEW sole, Workers = {sole}
    PROVE  Spec => MessageReachesAddressee
<1> DEFINE Inv == RecordsInv /\ ConnectionsInv /\ OpenedInv /\ MessagesInv
<1>1. Init => Inv
  <2>1. Init => Held = {}
    BY DEF Init, Held, IsAt
  <2> QED
    BY <2>1, InitRecords DEF Init, ConnectionsInv, Pending, InHand, OpenedInv, MessagesInv, IsAt
<1>2. Inv /\ [Next]_vars => Inv'
  BY RecordsStep, ConnectionsStep, OpenedStep, MessagesStep DEF RecordsInv
<1>3. Inv => \A w \in Workers :
                OutMessage(w) /\ conn[worker[w].act.hdl] = "open"
                    => connectionId[worker[w].act.hdl] = worker[w].act.msg
  <2> SUFFICES ASSUME Inv, NEW w \in Workers, OutMessage(w),
                      conn[worker[w].act.hdl] = "open"
               PROVE  connectionId[worker[w].act.hdl] = worker[w].act.msg
    OBVIOUS
  <2>1. worker[w].act \in Held /\ worker[w].act.type = "OUT_MESSAGE"
    BY InHandFacts DEF RecordsInv, OutMessage, InHand, IsAt, Held
  <2> QED
    BY <2>1 DEF MessagesInv
<1> HIDE DEF Inv
<1> QED
  BY <1>1, <1>2, <1>3, PTL DEF Spec, MessageReachesAddressee

------------------------------------------------------------------------------
(* One worker: whom a completion reaches.                                  *)

\* Of the session that is being completed, who is connected has been sent off,
\* or will be before the archive is written.
ReachInv ==
    /\ CompletionReachesAll
    /\ loop.pc \in {"each", "close"} =>
          \A h \in Registered :
              connectionId[h].session = loop.sid /\ conn[h] = "open" =>
                  \/ Pending("CLOSE_CONNECTION", h)
                  \/ connectionId[h].player \in loop.todo
                  \/ loop.pc = "close" /\ loop.hdl = h

\* The end of a connection stays on its way to it until it is closed.
LEMMA EndStaysPending ==
    ASSUME TypeOK, [Next]_vars, NEW h \in Hdls, conn'[h] = "open",
           Pending("CLOSE_CONNECTION", h)
    PROVE  Pending("CLOSE_CONNECTION", h)'
<1> DEFINE P == Pending("CLOSE_CONNECTION", h)
<1>1. CASE \E h1 \in Hdls : Network(h1)
  <2>1. PICK g \in Hdls : Network(g)
    BY <1>1
  <2>2. CASE OnOpen(g) /\ ~running
    BY <2>2, NotifyAtEase, EasePending DEF OnOpen
  <2>3. CASE ~(OnOpen(g) /\ ~running)
    <3>1. \E type, m : Push(type, g, m)
      BY <2>1, <2>3 DEF Network, OnOpen, OnMessage, OnClose
    <3> QED
      BY <3>1, PushPending
  <2> QED
    BY <2>2, <2>3
<1>2. ASSUME NEW w \in Workers, WorkerStep(w) \/ SpuriousWakeup(w)
      PROVE  P'
  <2>1. CASE TakeAction(w)
    BY <2>1, TakePending
  <2>2. CASE CloseConnection(w)
    <3>1. /\ EndSession(worker[w].act.hdl, worker[w].act.msg)
          /\ actions' = actions /\ Goto(w, [pc |-> "check"])
      BY <2>2 DEF CloseConnection
    <3>2. worker[w].act.hdl # h
      BY <3>1, CloseConnections DEF EndSession
    <3> QED
      BY <3>1, <3>2, GotoPending
  <2>3. CASE ~TakeAction(w) /\ ~CloseConnection(w)
    <3>1. actions' = actions
      BY <1>2, <2>3 DEF WorkerStep, SpuriousWakeup, CheckRunning, ReturnFromWait, Subscribe,
         Unsubscribe, Leave, Unlist, Report, InMessage, Admit, TurnAway, OutMessage
    <3>2. PICK state : Goto(w, state) /\ state.pc # "act"
      BY <1>2, <2>3 DEF WorkerStep, SpuriousWakeup, CheckRunning, ReturnFromWait, Subscribe,
         Unsubscribe, Leave, Unlist, Report, InMessage, Admit, TurnAway, OutMessage, Departure
    <3>3. ~InHand(w, "CLOSE_CONNECTION")
      BY <1>2, <2>3 DEF WorkerStep, SpuriousWakeup, CheckRunning, ReturnFromWait, Subscribe,
         Unsubscribe, Leave, Unlist, Report, InMessage, Admit, TurnAway, OutMessage, InHand, IsAt
    <3> QED
      BY <3>1, <3>2, <3>3, GotoPending
  <2> QED
    BY <2>1, <2>2, <2>3
<1>3. CASE PushMessage
  BY <1>3, PushPending DEF PushMessage
<1>4. CASE PushClose
  BY <1>4, PushPending DEF PushClose
<1>5. CASE \/ \E id \in Ids : SendMessage(id)
           \/ \E s \in Sessions, r \in Results : CompleteSession(s, r)
           \/ \E p \in Players : EachPlayer(p)
           \/ Archive \/ StopCall \/ StopLock \/ UNCHANGED vars
  <2>1. actions' = actions /\ worker' = worker
    BY <1>5 DEF SendMessage, CompleteSession, EachPlayer, Archive, StopCall, StopLock, vars
  <2> QED
    BY <2>1 DEF Pending, InHand, IsAt
<1>6. CASE StopNotify \/ Restart
  <2>1. actions' = actions /\ AtEase
    BY <1>6 DEF StopNotify, Restart, AtEase, IsAt
  <2> QED
    BY <2>1, EasePending
<1>7. CASE StopClear
  <2>1. Close(KnownConnections) /\ worker' = worker
    BY <1>7 DEF StopClear
  <2>2. h \notin KnownConnections
    BY <2>1, CloseConnections
  <2>3. \E w \in Workers : InHand(w, "CLOSE_CONNECTION") /\ worker[w].act.hdl = h
    BY <2>2 DEF KnownConnections, Pending
  <2> QED
    BY <2>1, <2>3 DEF Pending, InHand, IsAt
<1> QED
  BY <1>1, <1>2, <1>3, <1>4, <1>5, <1>6, <1>7 DEF Next, LoopStep, StopStep

\* Only complete_session archives a session.
LEMMA ArchiveSteps ==
    ASSUME TypeOK, [Next]_vars, NEW s \in Sessions, Contains(locked', s)
    PROVE  Contains(locked, s) \/ (Archive /\ s = loop.sid)
<1>1. locked \in BufferedMaps(Sessions, Results)
  BY DEF TypeOK
<1>2. CASE UNCHANGED locked
  BY <1>2
<1>3. ASSUME NEW n, locked' = Released(n)
      PROVE  Contains(locked, s)
  <2>1. /\ Clear(locked) \in BufferedMaps(Sessions, Results)
        /\ DOMAIN Clear(locked).m1 = {}
        /\ Clear(locked).m2 = locked.m1
    BY <1>1, ClearFacts
  <2>2. /\ DOMAIN Clear(Clear(locked)).m1 = {}
        /\ Clear(Clear(locked)).m2 = Clear(locked).m1
    BY <2>1, ClearFacts
  <2>3. CASE locked' = Clear(locked)
    BY <2>1, <2>3 DEF Contains, Keys
  <2>4. CASE locked' = Clear(Clear(locked))
    BY <2>1, <2>2, <2>4 DEF Contains, Keys
  <2> QED
    BY <1>2, <1>3, <2>3, <2>4 DEF Released
<1>4. CASE Archive
  <2>1. loop.sid \in Sessions /\ loop.result \in Results
    BY <1>4 DEF Archive, TypeOK, LoopStates
  <2>2. locked' = Insert(locked, loop.sid, loop.result)
    BY <1>4 DEF Archive, Archived
  <2>3. /\ DOMAIN Insert(locked, loop.sid, loop.result).m1 = DOMAIN locked.m1 \cup {loop.sid}
        /\ Insert(locked, loop.sid, loop.result).m2 = locked.m2
    BY <1>1, <2>1, InsertFacts
  <2> QED
    BY <1>4, <2>2, <2>3 DEF Contains, Keys
<1>5. CASE StopClear
  <2>1. locked' = Released(2)
    BY <1>5 DEF StopClear, Released
  <2> QED
    BY <1>3, <2>1
<1>6. ASSUME NEW w \in Workers, WorkerStep(w) \/ SpuriousWakeup(w)
      PROVE  UNCHANGED locked \/ \E n : locked' = Released(n)
  BY <1>6 DEF WorkerStep, SpuriousWakeup, CheckRunning, TakeAction, ReturnFromWait, Subscribe,
     Unsubscribe, Leave, Unlist, Report, InMessage, Admit, TurnAway, OutMessage, CloseConnection
<1> QED
  BY <1>2, <1>3, <1>4, <1>5, <1>6 DEF Next, vars, Network, OnOpen, OnMessage, OnClose,
     SendMessage, CompleteSession, LoopStep, PushMessage, EachPlayer, PushClose, StopCall,
     StopStep, StopLock, StopNotify, Restart

\* The steps of a completion: it begins with the players on the list, takes
\* them one by one and queues the end of their connections.
LEMMA CompletionSteps ==
    ASSUME TypeOK, [Next]_vars, loop'.pc \in {"each", "close"}
    PROVE  \/ loop' = loop
           \/ /\ loop'.pc = "each" /\ loop'.todo = sessionPlayers[loop'.sid]
              /\ loop'.sid \in Sessions
              /\ UNCHANGED <<connectionId, idConnection>>
           \/ /\ \E p \in Players : EachPlayer(p)
              /\ loop.pc = "each" /\ loop'.sid = loop.sid
           \/ /\ PushClose
              /\ loop'.sid = loop.sid /\ loop'.todo = loop.todo
<1>1. ASSUME NEW s \in Sessions, NEW r \in Results, CompleteSession(s, r), loop' # loop
      PROVE  /\ loop'.pc = "each" /\ loop'.todo = sessionPlayers[loop'.sid]
             /\ loop'.sid \in Sessions
             /\ UNCHANGED <<connectionId, idConnection>>
  BY <1>1 DEF CompleteSession
<1>2. ASSUME NEW p \in Players, EachPlayer(p)
      PROVE  loop.pc = "each" /\ loop'.sid = loop.sid
  <2>1. loop \in [pc : {"each"}, sid : Sessions, result : Results, todo : SUBSET Players]
    BY <1>2 DEF EachPlayer, TypeOK, LoopStates
  <2> QED
    BY <1>2, <2>1 DEF EachPlayer
<1>3. CASE PushClose
  BY <1>3 DEF PushClose
<1>4. ASSUME NEW id \in Ids, SendMessage(id) PROVE FALSE
  BY <1>4 DEF SendMessage
<1>5. CASE PushMessage \/ Archive
  BY <1>5 DEF PushMessage, Archive
<1> QED
  BY <1>1, <1>2, <1>3, <1>4, <1>5
  DEF Next, vars, Network, OnOpen, OnMessage, OnClose, WorkerStep, SpuriousWakeup,
      CheckRunning, TakeAction, ReturnFromWait, Subscribe, Unsubscribe, Leave, Unlist,
      Report, InMessage, Admit, TurnAway, OutMessage, CloseConnection, LoopStep,
      StopCall, StopStep, StopLock, StopClear, StopNotify, Restart

\* While complete_session goes through its list, whoever is connected to the
\* session is on the list, on its way out, or in its hand.
LEMMA ReachStep ==
    RecordsInv /\ ConnectionsInv /\ OpenedInv /\ ReachInv /\ [Next]_vars => ReachInv'
<1> SUFFICES ASSUME RecordsInv, ConnectionsInv, OpenedInv, ReachInv, [Next]_vars,
                    NEW h \in Hdls, connectionId'[h] # NoId, conn'[h] = "open"
             PROVE  /\ Contains(locked', connectionId'[h].session) =>
                          Pending("CLOSE_CONNECTION", h)'
                    /\ loop'.pc \in {"each", "close"} /\ connectionId'[h].session = loop'.sid =>
                          \/ Pending("CLOSE_CONNECTION", h)'
                          \/ connectionId'[h].player \in loop'.todo
                          \/ loop'.pc = "close" /\ loop'.hdl = h
  BY DEF ReachInv, CompletionReachesAll, Registered
<1>t. TypeOK
  BY DEF RecordsInv
\* A login comes before the session is archived, and not while it is completed.
<1>1. CASE connectionId[h] = NoId
  <2>1. ASSUME NEW w \in Workers, Leave(w) PROVE FALSE
    BY <1>t, <1>1, <2>1 DEF Leave, TypeOK
  <2>2. ~StopClear
    BY DEF StopClear, ClearRecords
  <2>3. PICK w \in Workers : Admit(w)
    BY <1>1, <2>1, <2>2, IdSteps
  <2>4. h = worker[w].hdl /\ connectionId'[h] = worker[w].id
    BY <1>1, <2>3, AdmitIds
  <2>5. ~Contains(locked', worker[w].id.session) /\ loop' = loop /\ SessionLockFree
    BY <2>3 DEF Admit
  <2> QED
    BY <2>4, <2>5 DEF SessionLockFree
\* Who has been connected stays so.
<1>2. CASE connectionId[h] # NoId
  <2> DEFINE id == connectionId[h]
  <2>1. conn[h] = "open" /\ connectionId'[h] = id /\ h \in Registered
    BY <1>2, IdStays DEF OpenedInv, Registered
  <2>2. id \in Ids /\ id.session \in Sessions /\ id.player \in Players
    BY <1>t, <1>2 DEF TypeOK, Ids
  <2>3. Pending("CLOSE_CONNECTION", h) => Pending("CLOSE_CONNECTION", h)'
    BY <1>t, EndStaysPending
  <2>4. idConnection[id] = h
    BY <2>2 DEF RecordsInv, OneConnectionPerId
  <2>5. ASSUME Contains(locked', id.session)
        PROVE  Pending("CLOSE_CONNECTION", h)'
    <3>1. CASE Contains(locked, id.session)
      BY <2>1, <2>3, <3>1 DEF ReachInv, CompletionReachesAll
    <3>2. CASE Archive /\ id.session = loop.sid
      BY <2>1, <2>3, <3>2 DEF ReachInv, Archive
    <3> QED
      BY <1>t, <2>2, <2>5, <3>1, <3>2, ArchiveSteps
  <2>6. ASSUME loop'.pc \in {"each", "close"}, id.session = loop'.sid
        PROVE  \/ Pending("CLOSE_CONNECTION", h)'
               \/ id.player \in loop'.todo
               \/ loop'.pc = "close" /\ loop'.hdl = h
    <3>1. CASE loop' = loop
      BY <2>1, <2>3, <2>6, <3>1 DEF ReachInv
    <3>2. CASE loop'.todo = sessionPlayers[loop'.sid]
      <4>1. idConnection[id] # NoHdl
        BY <2>4, NullAssumption
      <4>2. id.player \in sessionPlayers[id.session]
        BY <2>2, <4>1 DEF RecordsInv, RosterMatchesConnections
      <4> QED
        BY <2>6, <3>2, <4>2
    <3>3. ASSUME NEW p \in Players, EachPlayer(p), loop.pc = "each", loop'.sid = loop.sid
          PROVE  \/ Pending("CLOSE_CONNECTION", h)'
                 \/ id.player \in loop'.todo
                 \/ loop'.pc = "close" /\ loop'.hdl = h
      <4>1. Pending("CLOSE_CONNECTION", h) \/ id.player \in loop.todo
        BY <2>1, <2>6, <3>3 DEF ReachInv
      <4>2. /\ loop \in [pc : {"each"}, sid : Sessions, result : Results,
                         todo : SUBSET Players]
        BY <1>t, <3>3 DEF TypeOK, LoopStates
      <4>3. loop'.todo = loop.todo \ {p}
        BY <3>3, <4>2 DEF EachPlayer
      <4>4. CASE p = id.player
        <5>1. [player |-> p, session |-> loop.sid] = id
          BY <2>2, <2>6, <3>3, <4>4 DEF Ids
        <5>2. loop'.pc = "close" /\ loop'.hdl = h
          BY <2>4, <3>3, <5>1, NullAssumption DEF EachPlayer
        <5> QED
          BY <5>2
      <4> QED
        BY <2>3, <4>1, <4>3, <4>4
    <3>4. CASE PushClose /\ loop'.sid = loop.sid /\ loop'.todo = loop.todo
      <4>1. loop.pc = "close"
        BY <3>4 DEF PushClose
      <4>2. \/ Pending("CLOSE_CONNECTION", h)
            \/ id.player \in loop.todo
            \/ loop.hdl = h
        BY <2>1, <2>6, <3>4, <4>1 DEF ReachInv
      <4>3. loop.hdl = h => Pending("CLOSE_CONNECTION", h)'
        BY <1>t, <3>4, PushPending DEF PushClose
      <4> QED
        BY <2>3, <3>4, <4>2, <4>3
    <3> QED
      BY <1>t, <2>6, <3>1, <3>2, <3>3, <3>4, CompletionSteps
  <2> QED
    BY <2>1, <2>5, <2>6
<1> QED
  BY <1>1, <1>2

\* With one worker, through stops and restarts and for any release time: when a
\* session is archived, whoever is connected to it has been sent off, and nobody
\* slips in between the list of its players and the archive (:521-563, :745-757).
THEOREM CompletionReaches ==
    ASSUME NEW sole, Workers = {sole}
    PROVE  Spec => []CompletionReachesAll
<1> DEFINE Inv == RecordsInv /\ ConnectionsInv /\ OpenedInv /\ ReachInv
<1>1. Init => Inv
  <2>1. Init => Held = {}
    BY DEF Init, Held, IsAt
  <2> QED
    BY <2>1, InitRecords DEF Init, ConnectionsInv, Pending, InHand, OpenedInv, ReachInv,
       CompletionReachesAll, Registered, IsAt
<1>2. Inv /\ [Next]_vars => Inv'
  BY RecordsStep, ConnectionsStep, OpenedStep, ReachStep DEF RecordsInv
<1>3. Inv => CompletionReachesAll
  BY DEF ReachInv
<1> HIDE DEF Inv
<1> QED
  BY <1>1, <1>2, <1>3, PTL DEF Spec
==============================================================================
