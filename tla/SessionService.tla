--------------------------- MODULE SessionService ---------------------------
(***************************************************************************)
(* What base_server promises to the server built on top of it, stated over *)
(* two variables: the players it has announced with m_handle_open and not  *)
(* yet taken back with m_handle_close, and the results it has archived.    *)
(*                                                                         *)
(*   - a player is announced only while its session is not archived;       *)
(*   - a session is completed by one result, which stays as it is until    *)
(*     the session is forgotten as a whole;                                *)
(*   - nothing but an announcement or a departure changes who is present.  *)
(***************************************************************************)
CONSTANTS Players, Sessions, Results, NoResult

Ids == [player : Players, session : Sessions]

VARIABLES present, archive

service == <<present, archive>>

\* A player is logged in and not yet gone; a result, NoResult for none.
TypeOK ==
    /\ present \in SUBSET Ids
    /\ archive \in [Sessions -> Results \cup {NoResult}]

Init ==
    /\ present = {}
    /\ archive = [s \in Sessions |-> NoResult]

\* update_session_locks, which begins every call, and stop: any sessions may
\* be forgotten.  How long they are kept is the subject of SessionArchive.
Kept(forgotten) ==
    [s \in Sessions |-> IF s \in forgotten THEN NoResult ELSE archive[s]]

Forget ==
    /\ \E forgotten \in SUBSET Sessions : archive' = Kept(forgotten)
    /\ UNCHANGED present

\* open_session calls m_handle_open, again for a duplicate login.
Open(id) ==
    /\ \E forgotten \in SUBSET Sessions : archive' = Kept(forgotten)
    /\ archive'[id.session] = NoResult
    /\ present' = present \cup {id}

\* player_disconnect calls m_handle_close.
Close(id) ==
    /\ present' = present \ {id}
    /\ UNCHANGED archive

\* complete_session archives the result of a session that has none.
Complete(s, r) ==
    /\ archive[s] = NoResult
    /\ archive' = [archive EXCEPT ![s] = r]
    /\ UNCHANGED present

Next ==
    \/ Forget
    \/ \E id \in Ids : Open(id) \/ Close(id)
    \/ \E s \in Sessions, r \in Results : Complete(s, r)

Spec == Init /\ [][Next]_service
=============================================================================
