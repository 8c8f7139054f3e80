---------------------------- MODULE Client_proofs ----------------------------
(* Theorems about Client, for any number of connects and messages.          *)
EXTENDS Client, TLAPS

(* How the parts of the client move together.  What the thread inside run() *)
(* is doing tells what the client says of itself.                           *)
ThreadInv ==
  /\ thread = "connect" => ~running /\ conn = "connecting" /\ ~opened
  /\ thread = "start" => running /\ conn = "connecting" /\ ~opened
  /\ thread = "open" => conn \in {"open", "closing"}
  /\ thread = "closed" => conn = "closed" /\ opened
  /\ thread \in {"open", "closed"} => running /\ ~stopped
  /\ thread = "run" /\ ~running => conn = "closed"
  /\ thread = "run" /\ running /\ opened => conn \in {"open", "closing"}
  /\ thread = "idle" /\ running => ~opened
  /\ conn \in {"open", "closing"} =>
       running /\ opened /\ ~stopped /\ thread \in {"run", "open"}
  /\ conn \in {"none", "connecting"} => ~opened

(* The token is sent by on_open alone.                                      *)
TokenInv ==
  /\ ~opened \/ thread = "open" => \A i \in DOMAIN sent : sent[i] # Token
  /\ \A i, j \in DOMAIN sent : sent[i] = Token /\ sent[j] = Token => i = j
  /\ conn = "open" /\ thread # "open" => \E i \in DOMAIN sent : sent[i] = Token

IInv == TypeOK /\ ThreadInv /\ TokenInv /\ FlagsAgree

USE ClientAssumption

-----------------------------------------------------------------------------
(* What a message added at the end changes.                                 *)
LEMMA Appended ==
  ASSUME NEW S, NEW s \in Seq(S), NEW e \in S
  PROVE  /\ Append(s, e) \in Seq(S)
         /\ Len(s) \in Nat
         /\ DOMAIN s = 1 .. Len(s)
         /\ DOMAIN Append(s, e) = 1 .. Len(s) + 1
         /\ \A i \in 1 .. Len(s) : Append(s, e)[i] = s[i]
         /\ Append(s, e)[Len(s) + 1] = e
OBVIOUS

(* A new client is idle.                                                    *)
THEOREM Initial == Init => IInv
<1>1. SUFFICES ASSUME Init PROVE IInv
  OBVIOUS
<1>2. TypeOK
  <2>1. sent \in Seq({Token, Message})
    BY <1>1 DEF Init
  <2>2. thread \in ThreadStates /\ conn \in ConnStates /\ caller \in Callers
    BY <1>1 DEF Init, ThreadStates, ConnStates, Callers
  <2>3. /\ running \in BOOLEAN /\ failed \in BOOLEAN
        /\ stopped \in BOOLEAN /\ opened \in BOOLEAN /\ fresh \in BOOLEAN
    BY <1>1 DEF Init
  <2>4. connects \in 0 .. MaxConnects
    BY <1>1 DEF Init
  <2>5. QED
    BY <2>1, <2>2, <2>3, <2>4 DEF TypeOK
<1>3. ThreadInv
  BY <1>1 DEF Init, ThreadInv
<1>4. TokenInv
  BY <1>1 DEF Init, TokenInv
<1>5. FlagsAgree
  BY <1>1 DEF Init, FlagsAgree
<1>6. QED
  BY <1>2, <1>3, <1>4, <1>5 DEF IInv

(* Every step keeps each variable in its range,                             *)
LEMMA TypesKept == TypeOK /\ Next => TypeOK'
<1>1. SUFFICES ASSUME TypeOK, Next PROVE TypeOK'
  OBVIOUS
<1>2. << >> \in Seq({Token, Message})
  OBVIOUS
<1>3. /\ Append(sent, Token) \in Seq({Token, Message})
      /\ Append(sent, Message) \in Seq({Token, Message})
  BY <1>1 DEF TypeOK
<1>4. sent' \in Seq({Token, Message})
  BY <1>1, <1>2, <1>3 DEF Next, TypeOK, ConnectStep, Connect, InvalidUri, MayConnect,
     ThreadStep, ConnectThrows, SetRunning, Run, RunReturns, Handled, Opened, Refused, OnOpen,
     Ended, OnClose, PeerCloses, MainStep, Disconnect, Send, BeginReset, Reset,
     Enter, CloseConnection, SentNow
<1>5. /\ running' \in BOOLEAN /\ failed' \in BOOLEAN
      /\ stopped' \in BOOLEAN /\ opened' \in BOOLEAN
  <2>1. \/ UNCHANGED << running, failed >>
        \/ running' = FALSE /\ failed' = TRUE
        \/ running' \in BOOLEAN /\ UNCHANGED failed
        \/ failed' = FALSE /\ UNCHANGED running
    BY <1>1 DEF Next, ConnectStep, Connect, InvalidUri, ThreadStep, ConnectThrows,
       SetRunning, Run, RunReturns, Handled, Opened, Refused, OnOpen, Ended, OnClose,
       PeerCloses, MainStep, Disconnect, Send, BeginReset, Reset, Enter,
       CloseConnection
  <2>2. UNCHANGED stopped \/ stopped' = TRUE \/ stopped' = FALSE
    BY <1>1 DEF Next, ConnectStep, Connect, InvalidUri, ThreadStep, ConnectThrows,
       SetRunning, Run, RunReturns, Handled, Opened, Refused, OnOpen, Ended, OnClose,
       PeerCloses, MainStep, Disconnect, Send, BeginReset, Reset, Enter,
       CloseConnection
  <2>3. UNCHANGED opened \/ opened' = TRUE \/ opened' = FALSE
    BY <1>1 DEF Next, ConnectStep, Connect, InvalidUri, ThreadStep, ConnectThrows,
       SetRunning, Run, RunReturns, Handled, Opened, Refused, OnOpen, Ended, OnClose,
       PeerCloses, MainStep, Disconnect, Send, BeginReset, Reset, Enter,
       CloseConnection
  <2>4. /\ running \in BOOLEAN /\ failed \in BOOLEAN
        /\ stopped \in BOOLEAN /\ opened \in BOOLEAN
    BY <1>1 DEF TypeOK
  <2>5. running' \in BOOLEAN /\ failed' \in BOOLEAN
    BY <2>1, <2>4, Zenon
  <2>6. stopped' \in BOOLEAN /\ opened' \in BOOLEAN
    BY <2>2, <2>3, <2>4, Zenon
  <2>7. QED
    BY <2>5, <2>6
<1>6. fresh' \in BOOLEAN
  <2>1. CASE Reset
    BY <1>1, <2>1 DEF Reset, TypeOK
  <2>2. CASE ~Reset
    BY <1>1, <2>2 DEF Next, TypeOK, ConnectStep, Connect, InvalidUri, ThreadStep,
       ConnectThrows, SetRunning, Run, RunReturns, Handled, Opened, Refused, OnOpen, Ended,
       OnClose, PeerCloses, MainStep, Disconnect, Send, BeginReset, Enter,
       CloseConnection
  <2>3. QED
    BY <2>1, <2>2
<1>7. connects' \in 0 .. MaxConnects
  BY <1>1 DEF Next, TypeOK, ConnectStep, Connect, InvalidUri, MayConnect,
     ThreadStep, ConnectThrows, SetRunning, Run, RunReturns, Handled, Opened, Refused, OnOpen,
     Ended, OnClose, PeerCloses, MainStep, Disconnect, Send, BeginReset, Reset,
     Enter, CloseConnection
<1>8. thread' \in ThreadStates /\ conn' \in ConnStates /\ caller' \in Callers
  BY <1>1 DEF Next, TypeOK, ConnectStep, Connect, InvalidUri, MayConnect,
     ThreadStep, ConnectThrows, SetRunning, Run, RunReturns, Handled, Opened, Refused, OnOpen,
     Ended, OnClose, PeerCloses, MainStep, Disconnect, Send, BeginReset, Reset,
     Enter, CloseConnection, ThreadStates, ConnStates, Callers
<1>9. QED
  BY <1>4, <1>5, <1>6, <1>7, <1>8 DEF TypeOK

(* what the threads say of each other,                                      *)
LEMMA ThreadKept == TypeOK /\ ThreadInv /\ Next => ThreadInv'
<1>1. SUFFICES ASSUME TypeOK, ThreadInv, Next PROVE ThreadInv'
  OBVIOUS
<1>2. CASE ConnectStep
  BY <1>1, <1>2 DEF TypeOK, ThreadInv, ConnectStep, Connect, InvalidUri, MayConnect
<1>3. CASE ConnectThrows \/ SetRunning \/ Run \/ RunReturns
  BY <1>1, <1>3 DEF TypeOK, ThreadInv, ConnectThrows, SetRunning, Run, RunReturns
<1>4. CASE Handled
  BY <1>1, <1>4 DEF TypeOK, ThreadInv, Handled, Opened, Refused, OnOpen, Ended,
     OnClose, Serving
<1>5. CASE PeerCloses
  BY <1>1, <1>5 DEF TypeOK, ThreadInv, PeerCloses, Serving
<1>6. CASE MainStep
  BY <1>1, <1>6 DEF TypeOK, ThreadInv, MainStep, Disconnect, Send, BeginReset,
     Reset, Enter, CloseConnection
<1>7. QED
  BY <1>1, <1>2, <1>3, <1>4, <1>5, <1>6 DEF Next, ThreadStep

(* and when the token has been sent.                                        *)
LEMMA TokenKept == TypeOK /\ ThreadInv /\ TokenInv /\ Next => TokenInv'
<1>1. SUFFICES ASSUME TypeOK, ThreadInv, TokenInv, Next PROVE TokenInv'
  OBVIOUS
<1>2. CASE ConnectStep
  <2>1. sent' = << >> /\ conn' # "open"
    BY <1>2 DEF ConnectStep, Connect, InvalidUri
  <2>2. QED
    BY <2>1 DEF TokenInv
<1>3. CASE OnOpen /\ conn = "open"
  <2>1. sent' = Append(sent, Token) /\ sent \in Seq({Token, Message})
    BY <1>1, <1>3 DEF OnOpen, SentNow, TypeOK
  <2>2. \A i \in DOMAIN sent : sent[i] # Token
    BY <1>1, <1>3 DEF OnOpen, TokenInv
  <2>3. opened' /\ thread' # "open"
    BY <1>1, <1>3 DEF OnOpen, ThreadInv, TypeOK
  <2>4. \A i \in DOMAIN sent' : sent'[i] = Token <=> i = Len(sent) + 1
    BY <2>1, <2>2, Appended
  <2>5. Len(sent) + 1 \in DOMAIN sent'
    BY <2>1, Appended
  <2>6. QED
    BY <2>3, <2>4, <2>5 DEF TokenInv
<1>4. CASE caller = "send" /\ Send /\ conn = "open"
  <2>1. /\ sent' = Append(sent, Message) /\ sent \in Seq({Token, Message})
        /\ UNCHANGED << conn, thread, opened >>
    BY <1>1, <1>4 DEF Send, SentNow, TypeOK, Enter
  <2>2. /\ \A i \in DOMAIN sent' : sent'[i] = Token <=> i \in DOMAIN sent /\ sent[i] = Token
        /\ DOMAIN sent \subseteq DOMAIN sent'
    BY <2>1, Appended
  <2>3. QED
    BY <1>1, <2>1, <2>2 DEF TokenInv
<1>5. CASE Opened
  BY <1>1, <1>5 DEF Opened, TokenInv, ThreadInv
<1>6. CASE /\ UNCHANGED << sent, opened >>
           /\ thread' = "open" => thread = "open"
           /\ conn' = "open" /\ thread' # "open" => conn = "open" /\ thread # "open"
  BY <1>1, <1>6 DEF TokenInv
<1>7. CASE OnOpen /\ conn # "open"
  BY <1>1, <1>6, <1>7 DEF OnOpen, SentNow
<1>8. CASE Send /\ ~(caller = "send" /\ conn = "open")
  BY <1>1, <1>6, <1>8 DEF Send, SentNow, Enter
<1>9. CASE ConnectThrows \/ SetRunning \/ Run \/ RunReturns \/ Refused \/ Ended \/ OnClose \/ PeerCloses
  BY <1>1, <1>6, <1>9 DEF ConnectThrows, SetRunning, Run, RunReturns, Refused, Ended, OnClose,
     PeerCloses, ThreadInv, TypeOK, Serving
<1>10. CASE Disconnect \/ BeginReset \/ Reset
  BY <1>1, <1>6, <1>10 DEF Disconnect, BeginReset, Reset, Enter, CloseConnection
<1>11. QED
  BY <1>1, <1>2, <1>3, <1>4, <1>5, <1>7, <1>8, <1>9, <1>10 DEF Next, ThreadStep,
     Handled, MainStep

(* The two flags are both set only while the thread is about to clear one.  *)
LEMMA FlagsKept == ThreadInv /\ FlagsAgree /\ Next => FlagsAgree'
BY DEF ThreadInv, FlagsAgree, Next, ConnectStep, Connect, InvalidUri, MayConnect,
   ThreadStep, ConnectThrows, SetRunning, Run, RunReturns, Handled, Opened,
   Refused, OnOpen, Ended, OnClose, PeerCloses, Serving, MainStep, Disconnect,
   Send, BeginReset, Reset, Enter, CloseConnection

(* So every step keeps the invariant,                                       *)
THEOREM Inductive == IInv /\ [Next]_vars => IInv'
<1>1. CASE Next
  BY <1>1, TypesKept, ThreadKept, TokenKept, FlagsKept DEF IInv
<1>2. CASE UNCHANGED vars
  BY <1>2 DEF vars, IInv, TypeOK, ThreadInv, TokenInv, FlagsAgree
<1>3. QED
  BY <1>1, <1>2

(* which therefore always holds.                                            *)
THEOREM Invariance == Spec => []IInv
BY Initial, Inductive, PTL DEF Spec

-----------------------------------------------------------------------------
(* An application that polls the flags of a client finds both set only while  *)
(* a connect that follows a failed one has set the first and not yet cleared *)
(* the other, for any number of connects (client.hpp:128-129).               *)
THEOREM Flags == Spec => []FlagsAgree
<1>1. IInv => FlagsAgree
  BY DEF IInv
<1>2. QED
  BY <1>1, Invariance, PTL

(* A client that has been connected runs only while a thread serves its      *)
(* connection, for any number of connects (client.hpp:113-137, 233-241).     *)
THEOREM Served == Spec => []RunningIsServed
<1>1. IInv => RunningIsServed
  BY DEF IInv, TypeOK, ThreadStates, ThreadInv, RunningIsServed
<1>2. QED
  BY <1>1, Invariance, PTL

(* Every connection that stays open gets the token once (client.hpp:223-231). *)
THEOREM TokenOnce == Spec => []TokenSentOnce
<1>1. IInv => TokenSentOnce
  BY DEF IInv, TokenInv, TokenSentOnce
<1>2. QED
  BY <1>1, Invariance, PTL
=============================================================================
