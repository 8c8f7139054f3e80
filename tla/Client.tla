------------------------------- MODULE Client -------------------------------
(***************************************************************************)
(* The client of client.hpp: an object that one thread connects, and that  *)
(* serves its connection inside connect() until the connection ends, while *)
(* the application's main thread sends, disconnects and resets.            *)
(*                                                                         *)
(* The io_service that the client runs is modelled by its flag `stopped':  *)
(* run() sets it when it returns for want of work, returns at once when it *)
(* is set, and only reset() clears it.  A connection is opened, refused or *)
(* ended by the network, and every such event is handled by the thread     *)
(* inside run().                                                           *)
(*                                                                         *)
(* The main thread starts connect() in a thread of its own, when no other  *)
(* call of its own is under way and after the last connect() has returned, *)
(* as client_test.cpp does.  m_is_running is a plain bool read by both     *)
(* threads; its reads and writes are taken to be atomic.                   *)
(***************************************************************************)
EXTENDS Naturals, Sequences

CONSTANTS
  Token,        \* the JSON web token given to connect
  Message,      \* what the application sends
  MaxConnects,  \* bound: calls of connect
  MaxSends      \* bound: messages sent on one connection

ASSUME ClientAssumption ==
  /\ Token # Message
  /\ MaxConnects \in Nat /\ MaxSends \in Nat

VARIABLES
  running,      \* m_is_running
  failed,       \* m_has_failed
  stopped,      \* the io_service's flag
  thread,       \* where the thread of connect() is
  conn,         \* the state of m_connection
  sent,         \* what the server receives on it
  caller,       \* the main thread's call under way
  connects,     \* calls of connect, for the bound
  opened,       \* history: m_connection has been open
  fresh         \* history: no run() has returned since the client was made,
                \*   or reset after its run() had returned

vars == << running, failed, stopped, thread, conn, sent, caller, connects,
           opened, fresh >>

(* connect: about to call m_client.connect, or past it; start: the client  *)
(* says that it runs, and m_has_failed is still that of the last connect;  *)
(* run: inside run(); open and closed: in run(), about to call on_open or  *)
(* on_close.                                                               *)
ThreadStates == {"idle", "connect", "start", "run", "open", "closed"}

ConnStates == {"none", "connecting", "open", "closing", "closed"}

(* Where the main thread is: past the check of m_is_running in disconnect, *)
(* send or reset, in the disconnect that reset calls, before or past its   *)
(* check, or at the end of reset.                                          *)
Callers == {"idle", "disconnect", "send",
            "reset_disconnect", "reset_close", "reset"}

Init ==
  /\ running = FALSE /\ failed = FALSE /\ stopped = FALSE
  /\ thread = "idle" /\ conn = "none" /\ sent = << >> /\ caller = "idle"
  /\ connects = 0
  /\ opened = FALSE /\ fresh = TRUE

-----------------------------------------------------------------------------
(* The thread of connect().                                                *)

MayConnect ==
  thread = "idle" /\ caller = "idle" /\ ~running /\ connects < MaxConnects

(* The handshake is queued; nothing happens before run().                  *)
Connect ==
  /\ MayConnect
  /\ conn' = "connecting"
  /\ sent' = << >> /\ opened' = FALSE
  /\ thread' = "connect"
  /\ connects' = connects + 1
  /\ UNCHANGED << running, failed, stopped, caller, fresh >>

(* get_connection refuses the URI: neither flag tells of it.               *)
InvalidUri ==
  /\ MayConnect
  /\ conn' = "none"
  /\ sent' = << >> /\ opened' = FALSE
  /\ connects' = connects + 1
  /\ UNCHANGED << running, failed, stopped, thread, caller, fresh >>

(* m_client.connect throws.                                                *)
ConnectThrows ==
  /\ thread = "connect"
  /\ running' = FALSE
  /\ failed' = TRUE
  /\ thread' = "idle"
  /\ UNCHANGED << stopped, conn, sent, caller, connects, opened, fresh >>

SetRunning ==
  /\ thread = "connect"
  /\ running' = TRUE
  /\ thread' = "start"
  /\ UNCHANGED << failed, stopped, conn, sent, caller, connects, opened,
                  fresh >>

Run ==
  /\ thread = "start"
  /\ failed' = FALSE
  /\ thread' = "run"
  /\ UNCHANGED << running, stopped, conn, sent, caller, connects, opened,
                  fresh >>

(* run() returns when it is stopped or has nothing left to do.             *)
RunReturns ==
  /\ thread = "run"
  /\ stopped \/ conn = "closed"
  /\ stopped' = TRUE
  /\ fresh' = FALSE
  /\ thread' = "idle"
  /\ UNCHANGED << running, failed, conn, sent, caller, connects, opened >>

-----------------------------------------------------------------------------
(* What the thread inside run() serves.                                    *)

Serving == thread = "run" /\ ~stopped

(* The connection sends only while it is open, and says so only in a       *)
(* return value that nobody reads.                                         *)
SentNow(text) == IF conn = "open" THEN Append(sent, text) ELSE sent

Opened ==
  /\ Serving /\ conn = "connecting"
  /\ conn' = "open"
  /\ opened' = TRUE
  /\ thread' = "open"
  /\ UNCHANGED << running, failed, stopped, sent, caller, connects, fresh >>

(* A failed handshake calls the fail handler, which the client never sets. *)
Refused ==
  /\ Serving /\ conn = "connecting"
  /\ conn' = "closed"
  /\ UNCHANGED << running, failed, stopped, thread, sent, caller, connects,
                  opened, fresh >>

(* Mutant of OnOpen: the token is not sent.                                *)
OnOpenSilently ==
  /\ thread = "open"
  /\ thread' = "run"
  /\ UNCHANGED << running, failed, stopped, conn, sent, caller, connects,
                  opened, fresh >>

OnOpen ==
  /\ thread = "open"
  /\ sent' = SentNow(Token)
  /\ thread' = "run"
  /\ UNCHANGED << running, failed, stopped, conn, caller, connects, opened,
                  fresh >>

(* The server's close frame arrives.                                       *)
PeerCloses ==
  /\ Serving /\ conn = "open"
  /\ conn' = "closing"
  /\ UNCHANGED << running, failed, stopped, thread, sent, caller, connects,
                  opened, fresh >>

(* The closing handshake ends, or the connection breaks.                   *)
Ended ==
  /\ Serving /\ conn \in {"open", "closing"}
  /\ conn' = "closed"
  /\ thread' = "closed"
  /\ UNCHANGED << running, failed, stopped, sent, caller, connects, opened,
                  fresh >>

(* Mutant of OnClose: the client goes on as if it were connected.          *)
OnCloseQuietly ==
  /\ thread = "closed"
  /\ thread' = "run"
  /\ UNCHANGED << running, failed, stopped, conn, sent, caller, connects,
                  opened, fresh >>

OnClose ==
  /\ thread = "closed"
  /\ running' = FALSE
  /\ thread' = "run"
  /\ UNCHANGED << failed, stopped, conn, sent, caller, connects, opened,
                  fresh >>

-----------------------------------------------------------------------------
(* The main thread.  A call on a stopped client throws and changes nothing.*)

Enter(call) ==
  /\ caller' = call
  /\ UNCHANGED << running, failed, stopped, thread, conn, sent, connects,
                  opened, fresh >>

(* close() throws unless the connection is open, which the client catches. *)
CloseConnection(next) ==
  /\ conn' = IF conn = "open" THEN "closing" ELSE conn
  /\ caller' = next
  /\ UNCHANGED << running, failed, stopped, thread, sent, connects, opened,
                  fresh >>

Disconnect ==
  \/ caller = "idle" /\ running /\ Enter("disconnect")
  \/ caller = "disconnect" /\ CloseConnection("idle")

Send ==
  \/ /\ caller = "idle" /\ running /\ Len(sent) < MaxSends
     /\ Enter("send")
  \/ /\ caller = "send"
     /\ sent' = SentNow(Message)
     /\ caller' = "idle"
     /\ UNCHANGED << running, failed, stopped, thread, conn, connects,
                     opened, fresh >>

(* reset() begins with disconnect() on a running client; the client may    *)
(* stop in between, and then disconnect throws and reset() ends with it.   *)
BeginReset ==
  \/ caller = "idle" /\ running /\ Enter("reset_disconnect")
  \/ caller = "idle" /\ ~running /\ Enter("reset")
  \/ caller = "reset_disconnect" /\ running /\ Enter("reset_close")
  \/ caller = "reset_disconnect" /\ ~running /\ Enter("idle")
  \/ caller = "reset_close" /\ CloseConnection("reset")

(* Mutant of Reset: the io_service is not reset.                           *)
ResetClientOnly ==
  /\ caller = "reset"
  /\ fresh' = (fresh \/ thread = "idle")
  /\ caller' = "idle"
  /\ UNCHANGED << running, failed, stopped, thread, conn, sent, connects,
                  opened >>

Reset ==
  /\ caller = "reset"
  /\ stopped' = FALSE
  /\ fresh' = (fresh \/ thread = "idle")
  /\ caller' = "idle"
  /\ UNCHANGED << running, failed, thread, conn, sent, connects, opened >>

-----------------------------------------------------------------------------
ConnectStep == Connect \/ InvalidUri
Handled == Opened \/ Refused \/ OnOpen \/ Ended \/ OnClose
ThreadStep == ConnectThrows \/ SetRunning \/ Run \/ RunReturns \/ Handled
MainStep == Disconnect \/ Send \/ BeginReset \/ Reset

Next == ConnectStep \/ ThreadStep \/ PeerCloses \/ MainStep

Spec == Init /\ [][Next]_vars

(* The threads are scheduled, a handshake is answered or refused in the    *)
(* end (the transport has timeouts for both), and a closing one ends.      *)
FairSpec ==
  /\ Spec
  /\ WF_vars(ConnectThrows \/ SetRunning \/ Run)
  /\ WF_vars(RunReturns)
  /\ WF_vars(OnOpen \/ OnClose)
  /\ WF_vars(Opened \/ Refused)
  /\ WF_vars(Ended /\ conn = "closing")
  /\ WF_vars(caller # "idle" /\ MainStep)

-----------------------------------------------------------------------------
(* The values of the variables.                                            *)
TypeOK ==
  /\ running \in BOOLEAN /\ failed \in BOOLEAN
  /\ stopped \in BOOLEAN
  /\ thread \in ThreadStates
  /\ conn \in ConnStates
  /\ sent \in Seq({Token, Message})
  /\ caller \in Callers
  /\ connects \in 0 .. MaxConnects
  /\ opened \in BOOLEAN /\ fresh \in BOOLEAN

(* The flags that an application polls after it has started a connect      *)
(* (client_test.cpp:96-98) say that the client runs and that it has failed *)
(* only between the lines that set the one and clear the other, 128-129.   *)
FlagsAgree == running /\ failed => thread = "start"

(* A client whose connection was open once runs only as long as a thread   *)
(* serves the connection, whoever closes it, and no thread that serves one *)
(* finds the client stopped.  (A refused handshake, 126-130, and a         *)
(* connect on a client that was not reset, 130, leave a client that says   *)
(* it runs: those connections were never open.)                            *)
RunningIsServed ==
  /\ running /\ opened => thread # "idle" /\ (conn = "closed" => thread = "closed")
  /\ thread \in {"open", "closed"} \/ conn \in {"open", "closing"}
       => running /\ thread # "idle" /\ ~stopped

(* The server gets the token exactly once on every connection that it      *)
(* keeps open past on_open, and never twice, whatever the application      *)
(* sends or closes while on_open has not run (223-231).                    *)
TokenSentOnce ==
  LET tokens == {i \in DOMAIN sent : sent[i] = Token} IN
  /\ \A i, j \in tokens : i = j
  /\ conn = "open" /\ thread # "open" => tokens # {}

(* disconnect() on an open connection ends in a client that has stopped,   *)
(* which client_test.cpp:108-114 waits for.                                *)
DisconnectEnds ==
  (caller \in {"disconnect", "reset_close"} /\ conn = "open") ~> ~running

(* A connect by a new client, or by one that was reset after its last run, *)
(* is answered: the connection opens, is refused, or connect fails         *)
(* (client_test.cpp:352-386; reset, 166-172).                              *)
ConnectAnswered ==
  (thread = "connect" /\ fresh)
    ~> (opened \/ conn = "closed" \/ (failed /\ thread = "idle"))

=============================================================================
