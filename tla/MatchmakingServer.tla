-------------------------- MODULE MatchmakingServer --------------------------
(***************************************************************************)
(* matchmaking_server of matchmaking_server.hpp (line numbers are of that  *)
(* file): the sessions that wait for a match, the list through which the   *)
(* workers of the base_server below hand logins, departures and cancel     *)
(* requests to the loop of match_players, and stop.                        *)
(*                                                                         *)
(* The base_server is the SessionService that BaseServer implements.  The  *)
(* result of a session is the set of sessions it was matched with, itself  *)
(* included; the empty set stands for get_cancel_data.                     *)
(*                                                                         *)
(* Locks.  The loop holds m_match_lock through a whole time-step (see      *)
(* Ticking), which only stop can notice.  The lock of the list is held for *)
(* one step, except that the loop keeps it from the end of a wait to its   *)
(* next look at the list ("relook"; no lock keeps stop from notifying in   *)
(* between), and then while it takes m_match_lock, which stop, the only    *)
(* other thread to take that, never holds for long.  Two locks of the      *)
(* base_server are part of the state, as in GameServer: m_action_lock,     *)
(* which stop has at "clear", and m_session_lock, which complete_session   *)
(* has while it closes connections (completing).                           *)
(*                                                                         *)
(* The matchmaker is a class that the user supplies: it puts sessions into *)
(* games of two or more, each into one at most.  What it broadcasts is     *)
(* left out.                                                               *)
(***************************************************************************)
EXTENDS Naturals, Sequences, FiniteSets, Functions

CONSTANTS
    Players, Sessions, NoResult,
    Tokens,         \* ids for which some client holds a valid JWT
    ValidSessions,  \* sessions all of whose tokens carry data that the
                    \* matchmaker takes; others may have both kinds of tokens
    Workers,        \* how many threads run process_messages
    Timestep,       \* the argument of match_players, in naps of the loop
    MaxUpdates,     \* bound: nobody comes, leaves or speaks when more wait
    MaxStops        \* bound: how often stop is called

Games == SUBSET Sessions

Cancelled == {}

ASSUME SessionsAssumption ==
    /\ ValidSessions \subseteq Sessions
    /\ Tokens \subseteq [player : Players, session : Sessions]
    /\ \A g \in Games : g # NoResult
ASSUME NumbersAssumption ==
    /\ Timestep \in Nat /\ Workers \in Nat
    /\ MaxUpdates \in Nat /\ MaxStops \in Nat

VARIABLES
    present, archive,  \* the SessionService
    running,           \* m_is_running of the base_server
    lateCalls,         \* calls of the workers since it was set to false
    completing,        \* the session, if any, whose complete_session has
                       \* m_session_lock and closes its connections
    updates,           \* m_connection_updates.first
    batch,             \* m_connection_updates.second, what is left of it
    data,              \* the sessions in m_session_data
    roster,            \* m_session_players
    finished,          \* finished_sessions.first of match_players,
    finishing,         \* and .second
    matched,           \* sessions whose game is still to be reported
    loop,              \* where match_players is
    naps,              \* sleeps since time_start
    stop               \* where stop is, and how often it was called

Service == INSTANCE SessionService WITH Results <- Games

Ids == Service!Ids

lists   == <<updates, batch>>
waiting == <<data, roster>>
ends    == <<finished, finishing, matched>>
looping == <<loop, naps>>
vars    == <<present, archive, running, lateCalls, completing, lists, waiting, ends,
             looping, stop>>

Updates == [id : Ids, disconnection : BOOLEAN]

Ticking == loop \in {"swap", "apply", "erase", "match", "report"}

TypeOK ==
    /\ Service!TypeOK
    /\ running \in BOOLEAN
    /\ lateCalls \in 0..Workers
    /\ completing \in SUBSET Sessions
    /\ updates \in Seq(Updates) /\ batch \in Seq(Updates)
    /\ data \in SUBSET Sessions
    /\ roster \in UNION {[D -> SUBSET Players] : D \in SUBSET Sessions}
    /\ finished \in SUBSET Sessions /\ finishing \in SUBSET Sessions
    /\ matched \in UNION {[D -> Games] : D \in SUBSET Sessions}
    /\ loop \in {"check", "lock", "look", "wait", "woken", "relook", "swap",
                 "apply", "erase", "match", "report", "returned"}
    /\ naps \in 0..Timestep
    /\ stop \in [pc : {"idle", "lock", "clear", "data", "updates", "notify"},
                 calls : 0..MaxStops]

NoSessions == [s \in {} |-> {}]

Init ==
    /\ Service!Init
    /\ running = TRUE
    /\ lateCalls = 0
    /\ completing = {}
    /\ updates = <<>> /\ batch = <<>>
    /\ data = {}
    /\ roster = NoSessions
    /\ finished = {} /\ finishing = {}
    /\ matched = NoSessions
    /\ loop = "check"
    /\ naps = 0
    /\ stop = [pc |-> "idle", calls |-> 0]

------------------------------------------------------------------------------
(* What the base_server calls: each adds an update and notifies the loop.  *)

\* m_connection_update_list_lock, and m_session_lock of the base_server.
UpdatesLockFree == loop # "relook"
SessionLockFree == completing = {}

\* Mutant of NotifyLoop: an update is not announced.
NotifyNobody == UNCHANGED loop

NotifyLoop == loop' = IF loop = "wait" THEN "woken" ELSE loop

\* Once the base_server has been stopped each worker finishes the action it
\* has in hand and returns.
AddUpdate(id, disconnection) ==
    /\ running \/ lateCalls < Workers
    /\ lateCalls' = IF running THEN lateCalls ELSE lateCalls + 1
    /\ UpdatesLockFree
    /\ Len(updates) < MaxUpdates
    /\ updates' = Append(updates, [id |-> id, disconnection |-> disconnection])
    /\ NotifyLoop
    /\ UNCHANGED <<running, completing, batch, waiting, ends, naps, stop>>

\* Each login is announced, that of a duplicate connection too.
PlayerConnect(id) ==
    /\ SessionLockFree
    /\ UNCHANGED archive /\ Service!Open(id)
    /\ AddUpdate(id, FALSE)

PlayerDisconnect(id) ==
    /\ id \in present /\ Service!Close(id)
    /\ AddUpdate(id, TRUE)

\* Whatever a client says, it asks for the end of the matchmaking.
ProcessMessage(id) ==
    /\ id \in present /\ UNCHANGED <<present, archive>>
    /\ AddUpdate(id, TRUE)

\* Nothing of the session is left here.
Settled(s) ==
    /\ s \notin data \cup finished \cup finishing \cup DOMAIN matched
    /\ \A id \in present : id.session # s
    /\ \A update \in Range(batch) \cup Range(updates) : update.id.session # s

\* The base_server keeps a result for its release time, which is taken to be
\* longer than it takes to be done with the session here.
Forget ==
    /\ SessionLockFree
    /\ Service!Forget
    /\ \A s \in Sessions : archive'[s] # archive[s] => Settled(s)
    /\ UNCHANGED <<running, lateCalls, completing, lists, waiting, ends, looping,
                   stop>>

------------------------------------------------------------------------------
(* match_players up to the decision that a time-step is due.               *)

\* The loop condition.  What is finished is a local variable.
CheckRunning ==
    /\ loop = "check"
    /\ loop' = IF running THEN "lock" ELSE "returned"
    /\ finished' = IF running THEN finished ELSE {}
    /\ UNCHANGED <<present, archive, running, lateCalls, completing, lists,
                   waiting, finishing,
                   matched, naps, stop>>

\* delta_time is taken after the wait: the time-step is due when enough of it
\* was slept, and may be due before if the loop was slow or had to wait.
SleepOrTick ==
    \/ loop' = "swap" /\ naps' = 0
    \/ naps < Timestep /\ loop' = "check" /\ naps' = naps + 1

\* can_match of both matchmakers in the repository.
CanMatch == \E s, t \in data : s # t

\* With m_match_lock: on to the time-step, unless there is nobody to match.
LockMatch ==
    /\ loop = "lock"
    /\ IF CanMatch THEN SleepOrTick ELSE loop' = "look" /\ UNCHANGED naps
    /\ UNCHANGED <<present, archive, running, lateCalls, completing, lists,
                   waiting, ends, stop>>

\* Nobody to match: with the lock of the list, wait for an update.
LookForUpdates ==
    /\ loop \in {"look", "relook"}
    /\ IF updates = <<>> THEN loop' = "wait" /\ UNCHANGED naps ELSE SleepOrTick
    /\ UNCHANGED <<present, archive, running, lateCalls, completing, lists,
                   waiting, ends, stop>>

SpuriousWakeup ==
    /\ loop = "wait"
    /\ loop' = "woken"
    /\ UNCHANGED <<present, archive, running, lateCalls, completing, lists,
                   waiting, ends, naps, stop>>

\* Mutant of ReturnFromWait: is_running is not looked at.
WaitOn ==
    /\ loop = "woken"
    /\ loop' = "relook"
    /\ UNCHANGED <<present, archive, running, lateCalls, completing, lists,
                   waiting, ends,
                   naps, stop>>

\* wait returned, with the lock of the list.
ReturnFromWait ==
    /\ loop = "woken"
    /\ loop' = IF running THEN "relook" ELSE "returned"
    /\ finished' = IF running THEN finished ELSE {}
    /\ UNCHANGED <<present, archive, running, lateCalls, completing, lists, waiting,
                   finishing, matched, naps, stop>>

------------------------------------------------------------------------------
(* A time-step, with m_match_lock.                                         *)

SwapUpdates ==
    /\ loop = "swap"
    /\ loop' = "apply"
    /\ updates' = batch
    /\ batch' = updates
    /\ UNCHANGED <<present, archive, running, lateCalls, completing, waiting, ends,
                   naps, stop>>

\* The update is a login with data that the matchmaker may not take.
MayBeRefused(update) ==
    ~update.disconnection /\ update.id.session \notin data \cup ValidSessions

Cancels(update) == update.disconnection /\ update.id.session \in data

\* complete_session takes m_session_lock, for a session with connections.
BeginCompletion(s) ==
    /\ \/ loop = "report" /\ s \in DOMAIN matched
       \/ /\ loop = "apply"
          /\ batch # <<>>
          /\ Cancels(Head(batch)) \/ MayBeRefused(Head(batch))
          /\ s = Head(batch).id.session
    /\ SessionLockFree
    /\ archive[s] = NoResult
    /\ completing' = {s}
    /\ UNCHANGED <<present, archive, running, lateCalls, lists, waiting, ends,
                   looping,
                   stop>>

\* It leaves a session alone that is archived already, and is done in one step
\* if the session has no connection.  For each that it closes it needs
\* m_action_lock.
CompleteSession(s, result) ==
    /\ completing \subseteq {s} /\ completing' = {}
    /\ \/ /\ archive[s] # NoResult
          /\ UNCHANGED <<present, archive>>
       \/ /\ completing = {s} => stop.pc # "clear"
          /\ Service!Complete(s, result)

\* The sessions that are gone leave both maps.
Dropped(gone) ==
    /\ data' = data \ gone
    /\ roster' = Restrict(roster, DOMAIN roster \ gone)

\* Somebody of a waiting session left or asked for the end.
CancelSession(s) ==
    /\ CompleteSession(s, Cancelled)
    /\ Dropped({s})
    /\ finishing' = finishing \cup {s}

\* emplace leaves an entry alone that is there.
AddSession(id) ==
    /\ data' = data \cup {id.session}
    /\ roster' = [s \in DOMAIN roster \cup {id.session} |->
                     IF s \in DOMAIN roster THEN roster[s] ELSE {id.player}]

RefuseSession(s) ==
    /\ CompleteSession(s, Cancelled)
    /\ finishing' = finishing \cup {s}
    /\ UNCHANGED waiting

AddPlayer(id) ==
    /\ roster' = [roster EXCEPT ![id.session] = @ \cup {id.player}]
    /\ UNCHANGED data

\* The next connection update, in the order in which they came.
ProcessUpdate ==
    /\ loop = "apply"
    /\ batch # <<>>
    /\ batch' = Tail(batch)
    /\ LET update == Head(batch)
           id == update.id
           known == id.session \in data
       IN  \/ /\ Cancels(update)
              /\ CancelSession(id.session)
           \/ /\ update.disconnection /\ ~known
              /\ UNCHANGED <<present, archive, completing, waiting, finishing>>
           \/ /\ ~update.disconnection /\ known
              /\ AddPlayer(id)
              /\ UNCHANGED <<present, archive, completing, finishing>>
           \/ /\ ~update.disconnection /\ ~known
              /\ SessionLockFree
              /\ AddSession(id)
              /\ UNCHANGED <<present, archive, completing, finishing>>
           \/ /\ MayBeRefused(update)
              /\ RefuseSession(id.session)
    /\ UNCHANGED <<running, lateCalls, updates, finished, matched, looping, stop>>

\* Mutant of UpdatesProcessed: the wrong list is cleared, too.
UpdatesForgotten ==
    /\ loop = "apply"
    /\ batch = <<>>
    /\ loop' = "erase"
    /\ updates' = <<>>
    /\ UNCHANGED <<present, archive, running, lateCalls, completing, batch,
                   waiting, ends, naps, stop>>

UpdatesProcessed ==
    /\ loop = "apply"
    /\ batch = <<>>
    /\ loop' = "erase"
    /\ UNCHANGED <<present, archive, running, lateCalls, completing, lists,
                   waiting, ends, naps, stop>>

\* Mutant of EraseFinished: only the list is cleared.
EraseNothing ==
    /\ loop = "erase"
    /\ loop' = "match"
    /\ finished' = finishing
    /\ finishing' = {}
    /\ UNCHANGED <<present, archive, running, lateCalls, completing, lists,
                   waiting, matched, naps, stop>>

\* What was finished in the last time-step goes; the lists are swapped.
EraseFinished ==
    /\ loop = "erase"
    /\ loop' = "match"
    /\ Dropped(finished)
    /\ finished' = finishing
    /\ finishing' = {}
    /\ UNCHANGED <<present, archive, running, lateCalls, completing, lists,
                   matched, naps, stop>>

\* Disjoint games, from session to game.
Matchings ==
    LET InGames(games, s) == {g \in games : s \in g}
        Proper == {g \in SUBSET data : Cardinality(g) > 1}
        Disjoint == {games \in SUBSET Proper :
                        \A g, h \in games : g # h => g \cap h = {}}
    IN  {[s \in UNION games |-> UNION InGames(games, s)] : games \in Disjoint}

Match ==
    /\ loop = "match"
    /\ loop' = "report"
    /\ matched' \in Matchings
    /\ UNCHANGED <<present, archive, running, lateCalls, completing, lists,
                   waiting, finished,
                   finishing, naps, stop>>

\* Mutant of Noted: a matched session is not noted for erasure.
NotNoted(s) == finished

Noted(s) == finished \cup {s}

CompleteMatched(s) ==
    /\ loop = "report"
    /\ s \in DOMAIN matched
    /\ CompleteSession(s, matched[s])
    /\ finished' = Noted(s)
    /\ matched' = Restrict(matched, DOMAIN matched \ {s})
    /\ UNCHANGED <<running, lateCalls, lists, waiting, finishing, looping, stop>>

EndTick ==
    /\ loop = "report"
    /\ DOMAIN matched = {}
    /\ loop' = "check"
    /\ UNCHANGED <<present, archive, running, lateCalls, completing, lists,
                   waiting, ends, naps, stop>>

------------------------------------------------------------------------------
(* stop, which first stops the base_server, and a new start.               *)

StopStep(from, to) == stop.pc = from /\ stop' = [stop EXCEPT !.pc = to]

StopServer ==
    /\ stop.pc = "idle"
    /\ running
    /\ stop.calls < MaxStops
    /\ running' = FALSE
    /\ stop' = [pc |-> "lock", calls |-> stop.calls + 1]
    /\ UNCHANGED <<present, archive, lateCalls, completing, lists, waiting, ends,
                   looping>>

\* The stop of the base_server takes m_action_lock and keeps it
StopLock ==
    /\ StopStep("lock", "clear")
    /\ UNCHANGED <<present, archive, running, lateCalls, completing, lists,
                   waiting, ends,
                   looping>>

\* until it has m_session_lock, too, and has cleared what these protect.
StopService ==
    /\ StopStep("clear", "data")
    /\ SessionLockFree
    /\ archive' = Service!Kept(Sessions)
    /\ UNCHANGED <<present, running, lateCalls, completing, lists, waiting, ends,
                   looping>>

\* Mutant of StopMatching: the players of the sessions are kept.
StopMatchingOnly ==
    /\ StopStep("data", "updates")
    /\ ~Ticking
    /\ data' = {}
    /\ batch' = <<>>
    /\ UNCHANGED <<present, archive, running, lateCalls, completing, updates,
                   roster, ends, looping>>

\* Under m_match_lock.
StopMatching ==
    /\ StopStep("data", "updates")
    /\ ~Ticking
    /\ data' = {}
    /\ roster' = NoSessions
    /\ batch' = <<>>
    /\ UNCHANGED <<present, archive, running, lateCalls, completing, updates, ends,
                   looping>>

StopUpdates ==
    /\ StopStep("updates", "notify")
    /\ UpdatesLockFree
    /\ updates' = <<>>
    /\ UNCHANGED <<present, archive, running, lateCalls, completing, batch,
                   waiting, ends, looping>>

StopNotify ==
    /\ StopStep("notify", "idle")
    /\ NotifyLoop
    /\ UNCHANGED <<present, archive, running, lateCalls, completing, lists,
                   waiting, ends, naps>>

\* run and match_players are called again.
Restart ==
    /\ ~running
    /\ stop.pc = "idle"
    /\ loop = "returned"
    /\ running' = TRUE
    /\ lateCalls' = 0
    /\ loop' = "check"
    /\ naps' = 0
    /\ UNCHANGED <<present, archive, completing, lists, waiting, ends, stop>>

------------------------------------------------------------------------------
LoopStep ==
    \/ CheckRunning \/ LockMatch \/ LookForUpdates \/ ReturnFromWait
    \/ SwapUpdates \/ ProcessUpdate \/ UpdatesProcessed \/ EraseFinished
    \/ Match
    \/ (\E s \in Sessions : BeginCompletion(s) \/ CompleteMatched(s)) \/ EndTick

Stopping == StopLock \/ StopService \/ StopMatching \/ StopUpdates \/ StopNotify

Next ==
    \/ \E id \in Tokens : PlayerConnect(id) \/ PlayerDisconnect(id) \/ ProcessMessage(id)
    \/ Forget
    \/ LoopStep \/ SpuriousWakeup
    \/ StopServer \/ Stopping \/ Restart

Spec == Init /\ [][Next]_vars

\* The thread of match_players and that of stop make progress; nobody has to
\* come, leave or speak, and the matchmaker need not match anybody.
FairSpec == Spec /\ WF_vars(LoopStep) /\ WF_vars(Stopping)

------------------------------------------------------------------------------
(* Properties.  Most speak of a server that has not been stopped.          *)

NeverStopped == stop.calls = 0

Waiting == batch \o updates

LoginWaits(id) == [id |-> id, disconnection |-> FALSE] \in Range(Waiting)

EndWaits(s) ==
    \E i \in DOMAIN Waiting : Waiting[i].id.session = s /\ Waiting[i].disconnection

\* The session is there, or will be, when its end is processed.
EndDue(s) ==
    \E i \in DOMAIN Waiting :
        /\ Waiting[i].id.session = s /\ Waiting[i].disconnection
        /\ \/ s \in data
           \/ \E j \in 1..i - 1 : Waiting[j].id.session = s /\ ~Waiting[j].disconnection

\* The players that match_players knows of, when the loop has caught up with
\* the logins that wait.
WillWait(id) ==
    LoginWaits(id) \/ (id.session \in data /\ id.player \in roster[id.session])

\* Who is logged in to a session that is neither over nor about to be is among
\* those waiting for a match, and nobody else: no login is lost between the
\* lists, and none is left behind by a departure (:272-313).
PresentWillWait ==
    NeverStopped =>
        \A id \in Tokens :
            LET s == id.session
            IN  s \in ValidSessions /\ archive[s] = NoResult /\ ~EndWaits(s)
                    => (WillWait(id) <=> id \in present)

\* m_session_players.at(...) finds its entry, after stop and a new start too:
\* the two maps have the same sessions (:311).
EachSessionHasRoster == DOMAIN roster = data

\* A completed session waits only until the lists erase it: a login that came
\* just before the end does not make it wait for ever (:219-227).
CompletedListed ==
    NeverStopped =>
        \A s \in data : archive[s] # NoResult => s \in finished \cup finishing

\* No session is put into a second game: when match is called, every session
\* that got a game in an earlier time-step has been erased, whatever its
\* players did in the meantime (:219-232).
NoSecondGame ==
    [][ NeverStopped /\ Match =>
            \A s \in DOMAIN matched' : archive[s] \in {NoResult, Cancelled} ]_vars

\* Who left or asked for the end gets its session ended, waiting or not, and
\* matched or not, however few sessions wait and however often the loop naps:
\* nobody waits for an answer for ever (:193-214, :272-287, :323-347).
EndsAnswered ==
    \A s \in Sessions : EndDue(s) ~> archive[s] # NoResult \/ ~running

\* The base_server's stop and complete_session wait for each other (:255, :279,
\* :303; base_server.hpp:347-348, :521, :536).
Deadlocked == stop.pc = "clear" /\ completing # {}

\* match_players returns after stop, except in the two cases in which the code
\* lets it hang: stop finds it between its look at is_running and a wait, and
\* nobody notifies it again (:190 or :198, :197, :167), or the two wait for
\* each other's lock.
StopIsHeard ==
    stop.pc = "lock" /\ loop \notin {"lock", "look", "relook"}
        ~> loop = "returned" \/ Deadlocked

==============================================================================
