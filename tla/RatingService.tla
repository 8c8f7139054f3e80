---------------------------- MODULE RatingService ----------------------------
(***************************************************************************)
(* http_handler of examples/tic_tac_toe/matchmaking_server/                *)
(* matchmaking_server.cpp (line numbers are of that file): the accounts,   *)
(* and the requests of their players that change them.  One thread serves  *)
(* all requests, one after the other.                                      *)
(*                                                                         *)
(* The signature of a token is not modelled: a token is a record that the  *)
(* servers have handed out.  /info only reads, and so does the rest, which *)
(* serves files.  How far a rating moves is left open.                     *)
(***************************************************************************)
EXTENDS Naturals, Sequences

CONSTANTS
    MaxPids,      \* MAX_PIDS
    Elos,         \* ratings
    FirstElo      \* the rating of a new account

ASSUME AccountsAssumption == MaxPids \in Nat /\ Elos \subseteq Nat /\ FirstElo \in Elos

VARIABLES
    accounts,      \* player_database; the pid of a player is its place
    sessionCount   \* session_count

Pids == 1..MaxPids

\* The player_data of a new account; its sid means nothing until the first login.
NewAccount == [elo |-> FirstElo, matchmaking |-> FALSE, sid |-> 0]

Init ==
    /\ accounts = <<>>
    /\ sessionCount = 0

Known(pid) == pid \in DOMAIN accounts

\* /signup
SignUp ==
    /\ Len(accounts) < MaxPids
    /\ accounts' = Append(accounts, NewAccount)
    /\ UNCHANGED sessionCount

\* Mutant of Login: each login begins a new session.
LoginAnew(pid) ==
    /\ Known(pid)
    /\ accounts' = [accounts EXCEPT ![pid] = [@ EXCEPT !.sid = sessionCount, !.matchmaking = TRUE]]
    /\ sessionCount' = sessionCount + 1

\* /login: a new session, unless the last one has not been closed.  The answer
\* is a token for the session the account has then.
Login(pid) ==
    /\ Known(pid)
    /\ IF accounts[pid].matchmaking
         THEN UNCHANGED <<accounts, sessionCount>>
         ELSE /\ accounts' = [accounts EXCEPT ![pid].sid = sessionCount,
                                              ![pid].matchmaking = TRUE]
              /\ sessionCount' = sessionCount + 1

\* A request changes something only while the account is matchmaking.
Counts(pid) == Known(pid) /\ accounts[pid].matchmaking

\* p.elo += 32.0 * (score - expected): a win, of score 2, never lowers it, a loss never
\* raises it, and a draw moves it either way.
Rerated(elo, score) ==
    {new \in Elos : (score = 2 => new >= elo) /\ (score = 0 => new <= elo)}

\* Mutant of Closed: the account is still matchmaking after a result.
NotClosed(pid, a, b, i, j) == accounts

Closed(pid, a, b, i, j) ==
    [p \in DOMAIN accounts |->
        LET new == IF p = j THEN b ELSE IF p = i THEN a ELSE accounts[p].elo
        IN  [accounts[p] EXCEPT !.elo = new, !.matchmaking = @ /\ p # pid]]

\* /submit: both players are rated anew, the submitter's session is closed.  The
\* result is the pids of the first and the second player and the score of the first,
\* doubled.  Whose session the result is of is not asked.
Submit(pid, result) ==
    /\ Counts(pid) /\ Known(result.players[1]) /\ Known(result.players[2])
    /\ LET i == result.players[1]
           j == result.players[2]
       IN  \E a \in Rerated(accounts[i].elo, result.score) :
           \E b \in Rerated(IF j = i THEN a ELSE accounts[j].elo, 2 - result.score) :
              accounts' = Closed(pid, a, b, i, j)
    /\ UNCHANGED sessionCount

\* Mutant of Cancel: a token that says "matched" is taken, too.
CancelAnyway(pid, matched) ==
    /\ Counts(pid)
    /\ accounts' = [accounts EXCEPT ![pid].matchmaking = FALSE]
    /\ UNCHANGED sessionCount

\* /cancel, with a token of the matchmaking server.
Cancel(pid, matched) ==
    /\ Counts(pid) /\ ~matched
    /\ accounts' = [accounts EXCEPT ![pid].matchmaking = FALSE]
    /\ UNCHANGED sessionCount
==============================================================================
