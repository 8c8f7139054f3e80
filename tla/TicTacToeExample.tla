--------------------------- MODULE TicTacToeExample ---------------------------
(***************************************************************************)
(* The tic tac toe example as a whole: the accounts and ratings of its     *)
(* HTTP service (RatingService), the matchmaking server with its greedy    *)
(* matcher (Pairing), the game server, and the tokens that the players     *)
(* carry from one to the other.  The servers do not talk to each other.    *)
(*                                                                         *)
(* The two websocket servers are what MatchmakingServer and GameServer     *)
(* show them to be: a session that waits is matched or cancelled once, the *)
(* result is archived and forgotten after a while, and with it that the    *)
(* session was there.  A token stays valid much longer, and a player may   *)
(* present any token it was ever given, as often as it likes.  A game goes *)
(* by the session of its first player, in the tokens of both.              *)
(***************************************************************************)
EXTENDS RatingService, Pairing, SequencesExt

CONSTANTS
    MaxSessions,  \* bound: how many sessions are begun
    MaxTokens,    \* bound: how many tokens say that a session was cancelled, or
                  \* what came of a game
    MaxAgain,     \* bound: how many sessions wait more than once
    Scores,       \* bound: the scores of games: 0 (lost), 1 (drawn), 2 (won)
    MatcherRatings \* bound: the ratings that the matcher is tried with

ASSUME BoundsAssumption ==
    /\ {MaxSessions, MaxTokens, MaxAgain} \subseteq Nat
    /\ Scores \subseteq 0..2 /\ MatcherRatings \subseteq Nat

VARIABLES
    logins,    \* the answers to /login
    waiting,   \* the rating of each session in m_session_data
    games,     \* the games it made, by the sessions of the two players
    results,   \* m_locked_sessions of the game server: how games ended
    tokens,    \* what players were given at the end: a result or a cancellation
    closings,  \* history: which token ended which session of an account
    again      \* history: sessions that waited more than once

service == <<accounts, sessionCount>>
history == <<closings, again>>
vars    == <<service, logins, waiting, games, results, tokens, history>>

Sids == 0..MaxSessions - 1

Owner(s) == (CHOOSE login \in logins : login.sid = s).pid

\* What the matchmaking server puts into its tokens.
Cancelled == [players |-> <<>>, score |-> 0]

Matched == [players |-> <<>>, score |-> 2]

\* A token is signed for the player and the session of the result.
Token(pid, sid, result) == [pid |-> pid, sid |-> sid, result |-> result]

\* The games that go by the name of sid: more than one only if the session of
\* that name waited more than once.
GamesCalled(sid) == {game \in games : game[1] = sid}

\* Who has a token that says "matched" for such a game.
PlayersOf(sid) == {Owner(s) : s \in InPairs(GamesCalled(sid))}

Held == tokens \cup UNION {{Token(pid, sid, Matched) : pid \in PlayersOf(sid)} : sid \in Sids}

ExampleInit ==
    /\ Init
    /\ logins = {}
    /\ waiting = [s \in {} |-> FirstElo]
    /\ games = {}
    /\ results = [s \in {} |-> Cancelled]
    /\ tokens = {}
    /\ closings = {}
    /\ again = {}

------------------------------------------------------------------------------
(* Requests to the HTTP service.                                           *)

RequestAccount ==
    /\ SignUp
    /\ UNCHANGED <<logins, waiting, games, results, tokens, history>>

RequestLogin(pid) ==
    /\ Login(pid)
    /\ sessionCount' <= MaxSessions
    /\ logins' = logins \cup {[sid |-> accounts'[pid].sid, pid |-> pid,
                               rating |-> accounts'[pid].elo]}
    /\ UNCHANGED <<waiting, games, results, tokens, history>>

Ends(token) ==
    closings' = closings \cup {[sid |-> accounts[token.pid].sid, token |-> token]}

PresentResult(token) ==
    /\ token.result \notin {Cancelled, Matched}
    /\ Submit(token.pid, token.result)
    /\ Ends(token)
    /\ UNCHANGED <<logins, waiting, games, results, tokens, again>>

\* A token of the matchmaking server.
PresentMatch(token) ==
    /\ token.result \in {Cancelled, Matched}
    /\ Cancel(token.pid, token.result = Matched)
    /\ Ends(token)
    /\ UNCHANGED <<logins, waiting, games, results, tokens, again>>

------------------------------------------------------------------------------
(* The matchmaking server and the game server.                             *)

HasOutcome(s) ==
    s \in InPairs(games) \/ \E t \in tokens : t.sid = s /\ t.result = Cancelled

\* A login token that is shown to the matchmaking server.  A session that is over
\* gets its old answer, until the archive has forgotten it, and waits again then.
Queue(login) ==
    /\ login.sid \notin DOMAIN waiting
    /\ waiting' = [s \in DOMAIN waiting \cup {login.sid} |->
                      IF s \in DOMAIN waiting THEN waiting[s] ELSE login.rating]
    /\ again' = IF HasOutcome(login.sid) THEN again \cup {login.sid} ELSE again
    /\ Cardinality(again') <= MaxAgain
    /\ UNCHANGED <<service, logins, games, results, tokens, closings>>

\* The player leaves, or asks for the end.
Leave(s) ==
    /\ s \in DOMAIN waiting
    /\ waiting' = Restrict(waiting, DOMAIN waiting \ {s})
    /\ tokens' = tokens \cup {Token(Owner(s), s, Cancelled)}
    /\ Cardinality(tokens') <= MaxTokens
    /\ UNCHANGED <<service, logins, games, results, history>>

Match ==
    /\ \E order \in SetToSeqs(DOMAIN waiting) :
          LET pairs == Pairs(order, waiting)
          IN  /\ games' = games \cup pairs
              /\ waiting' = Restrict(waiting, DOMAIN waiting \ InPairs(pairs))
    /\ UNCHANGED <<service, logins, results, tokens, history>>

\* Two players with tokens for a game of that name have connected, in this order or
\* put into it, and play it to its end.  The game server knows of a game only by its
\* name, and plays it once more when it has forgotten the result.  (A token of a
\* cancelled session makes no game: what the game server keeps then has no players,
\* and /submit refuses it.)
Play(sid, p, q, score) ==
    /\ sid \notin DOMAIN results
    /\ {p, q} \subseteq PlayersOf(sid) /\ p # q
    /\ results' = [g \in DOMAIN results \cup {sid} |->
                      IF g = sid THEN [players |-> <<p, q>>, score |-> score] ELSE results[g]]
    /\ UNCHANGED <<service, logins, waiting, games, tokens, history>>

\* A player is told how the game of its token ended: at the end if it is connected
\* then, or when it connects while the result is kept.
Collect(pid, sid) ==
    /\ sid \in DOMAIN results /\ pid \in PlayersOf(sid)
    /\ tokens' = tokens \cup {Token(pid, sid, results[sid])}
    /\ Cardinality(tokens') <= MaxTokens
    /\ UNCHANGED <<service, logins, waiting, games, results, history>>

\* The archive of the game server forgets a result.
Forget(sid) ==
    /\ sid \in DOMAIN results
    /\ results' = Restrict(results, DOMAIN results \ {sid})
    /\ UNCHANGED <<service, logins, waiting, games, tokens, history>>

------------------------------------------------------------------------------
ExampleNext ==
    \/ RequestAccount
    \/ \E pid \in Pids : RequestLogin(pid)
    \/ \E token \in Held : PresentResult(token) \/ PresentMatch(token)
    \/ \E login \in logins : Queue(login)
    \/ \E s \in Sids : Leave(s)
    \/ Match
    \/ \E sid \in Sids, p, q \in Pids, score \in Scores : Play(sid, p, q, score)
    \/ \E pid \in Pids, sid \in Sids : Collect(pid, sid)
    \/ \E sid \in Sids : Forget(sid)

Spec == ExampleInit /\ [][ExampleNext]_vars

------------------------------------------------------------------------------
(* Properties.                                                             *)

\* An account ends each of its sessions once, before it begins the next, so
\* that no session has two results counted, of whatever tokens (:130, :172, :230).
SessionsEndOnce ==
    \A login \in logins :
        LET s == login.sid
            a == accounts[login.pid]
        IN  /\ \A c, d \in closings : c.sid = s /\ d.sid = s => c = d
            /\ (\E c \in closings : c.sid = s) <=> ~(a.matchmaking /\ a.sid = s)

\* A player who shows each login token and each result once and is told one result
\* of each game, and whose opponents do not wait once more in a session that has
\* played.  (If they do the new game has the name of the old one, and while the
\* game server keeps the old result it gives it to both.)
Fair(pid) ==
    /\ \A s \in again : Owner(s) # pid
    /\ \A game \in games : pid \in {Owner(game[1]), Owner(game[2])} =>
          {game[1], game[2]} \cap again = {}
    /\ \A c, d \in closings : c.token = d.token /\ c.token.pid = pid => c = d
    /\ \A t, u \in tokens : t.pid = pid /\ u.pid = pid /\ t.sid = u.sid => t = u

\* The sessions of its player that a token is about: the one that was cancelled, or
\* those in a game of that name.
SessionsOf(token) ==
    {s \in IF token.result = Cancelled THEN {token.sid} ELSE InPairs(GamesCalled(token.sid)) :
        Owner(s) = token.pid}

\* /submit and /cancel do not look at the session of the token, nor at the players
\* of the result.  Still, the session that the token of a fair player ends is one
\* that the token is about, and a result that is counted for it is of the two
\* players who were matched for that game (:172-192, :230).
FairPlayersEndTheirOwn ==
    \A c \in closings : Fair(c.token.pid) =>
        /\ c.sid \in SessionsOf(c.token)
        /\ c.token.result # Cancelled =>
              Range(c.token.result.players) = PlayersOf(c.token.sid)

\* A fair player waits in one session at most, and while it waits, or plays,
\* the account stays in that session: nobody plays against itself, and nobody
\* gets out of a lost game by /cancel (:130-135, :230-237).
FairPlayersStay ==
    \A s \in DOMAIN waiting \cup {s \in InPairs(games) : \A t \in tokens : s \notin SessionsOf(t)} :
        Fair(Owner(s)) => accounts[Owner(s)].matchmaking /\ accounts[Owner(s)].sid = s

\* Whatever ratings the waiting sessions might have, and in whatever order the
\* map has them: no session is in two games, or in one with itself or with one
\* that is too far away; and no two sessions are left out that are near enough
\* for a game, though each session only looks at those after it (:441-470).
MaximalMatching ==
    \A rating \in [DOMAIN waiting -> MatcherRatings], order \in SetToSeqs(DOMAIN waiting) :
        LET pairs == Pairs(order, rating)
        IN  /\ EachInOnePair(pairs)
            /\ PairsNear(rating, pairs)
            /\ NobodyLeftForNobody(DOMAIN waiting, rating, pairs)
==============================================================================
