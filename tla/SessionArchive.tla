--------------------------- MODULE SessionArchive ---------------------------
(***************************************************************************)
(* The archive of completed sessions of base_server (m_locked_sessions     *)
(* with m_last_session_update_time), against the clock.                    *)
(*                                                                         *)
(* Two calls use it, both under m_session_lock from beginning to end, so   *)
(* one call is in progress at a time: complete_session, which archives a   *)
(* result unless the session is archived already, and open_session, which  *)
(* answers an archived session with its result and otherwise admits the    *)
(* player.  Both begin with update_session_locks, which reads the clock    *)
(* twice: once to decide how often to clear() and once to restart the      *)
(* period.  The clock may advance between the two.                         *)
(***************************************************************************)
EXTENDS Integers, BufferedMap

CONSTANTS
    Sessions,      \* session ids
    Results,       \* result data of a session
    Admitted,      \* the answer to a player who may play, not a result
    ReleaseTime,   \* m_session_release_time, in clock units
    MaxDelay,      \* bound: longest time between two clock reads of a call
    MaxTime        \* bound: the clock stops here

ASSUME ReleaseTimeAssumption == ReleaseTime \in Nat
ASSUME BoundsAssumption == MaxDelay \in Nat /\ MaxTime \in Nat
ASSUME AdmittedAssumption == Admitted \notin Results

VARIABLES
    now,      \* clock::now()
    last,     \* m_last_session_update_time
    locked,   \* m_locked_sessions
    pc,       \* where the call in progress is: idle, stamp, body
    call,     \* its session and, for complete_session, its result
    readAt,   \* the clock read that the latest call began with
    doneAt,   \* history: readAt of the call that archived the session
    answer    \* history: answer of the latest open_session to return

vars == <<now, last, locked, pc, call, readAt, doneAt, answer>>

Never == -1

Calls == [op : {"complete"}, sid : Sessions, result : Results]
             \cup [op : {"open"}, sid : Sessions]

TypeOK ==
    /\ now \in Nat
    /\ last \in Nat
    /\ locked \in BufferedMaps(Sessions, Results)
    /\ pc \in {"idle", "stamp", "body"}
    /\ call \in Calls
    /\ readAt \in Nat
    /\ doneAt \in [Sessions -> Nat \cup {Never}]
    /\ answer \in Results \cup {Admitted}

\* The default time_point is the clock's epoch, at or before the first call.
Init ==
    /\ now \in 0..MaxTime
    /\ last = 0
    /\ locked = EmptyBuffer
    /\ pc = "idle"
    /\ call \in [op : {"open"}, sid : Sessions]
    /\ readAt = 0
    /\ doneAt = [s \in Sessions |-> Never]
    /\ answer = Admitted

------------------------------------------------------------------------------
Tick ==
    /\ now < MaxTime
    /\ pc # "idle" => now < readAt + MaxDelay
    /\ now' = now + 1
    /\ UNCHANGED <<last, locked, pc, call, readAt, doneAt, answer>>

\* Mutant of Released: clear() is always called a second time.
ReleasedTwice(delta) ==
    IF delta <= ReleaseTime THEN locked ELSE Clear(Clear(locked))

\* What update_session_locks makes of the archive, delta after the last time.
Released(delta) ==
    IF delta <= ReleaseTime THEN locked
    ELSE IF delta <= 2 * ReleaseTime THEN Clear(locked)
    ELSE Clear(Clear(locked))

\* A call takes m_session_lock and enters update_session_locks.
Begin(c) ==
    /\ pc = "idle"
    /\ call' = c
    /\ readAt' = now
    /\ locked' = Released(now - last)
    /\ pc' = IF now - last > ReleaseTime THEN "stamp" ELSE "body"
    /\ UNCHANGED <<now, last, doneAt, answer>>

\* update_session_locks has cleared and restarts the period.
Stamp ==
    /\ pc = "stamp"
    /\ last' = now
    /\ pc' = "body"
    /\ UNCHANGED <<now, locked, call, readAt, doneAt, answer>>

\* The rest of complete_session: only the first result is archived.
Complete ==
    /\ pc = "body"
    /\ call.op = "complete"
    /\ pc' = "idle"
    /\ IF Contains(locked, call.sid)
         THEN UNCHANGED <<locked, doneAt>>
         ELSE /\ locked' = Insert(locked, call.sid, call.result)
              /\ doneAt' = [doneAt EXCEPT ![call.sid] = readAt]
    /\ UNCHANGED <<now, last, call, readAt, answer>>

\* The rest of open_session: the archived result, or admission.
Open ==
    /\ pc = "body"
    /\ call.op = "open"
    /\ pc' = "idle"
    /\ answer' = IF Contains(locked, call.sid) THEN At(locked, call.sid)
                                               ELSE Admitted
    /\ UNCHANGED <<now, last, locked, call, readAt, doneAt>>

\* stop() clears the archive twice and leaves the period running.
Stop ==
    /\ pc = "idle"
    /\ locked' = Clear(Clear(locked))
    /\ doneAt' = [s \in Sessions |-> Never]
    /\ UNCHANGED <<now, last, pc, call, readAt, answer>>

Next ==
    \/ Tick
    \/ \E c \in Calls : Begin(c)
    \/ Stamp
    \/ Complete
    \/ Open
    \/ Stop

Spec == Init /\ [][Next]_vars

------------------------------------------------------------------------------
\* A completed session stays archived for at least ReleaseTime: it is gone
\* only once a call has read a clock beyond that (base_server.hpp:182, :511).
RetainedForReleaseTime ==
    \A s \in Sessions :
        doneAt[s] # Never =>
            Contains(locked, s) \/ readAt > doneAt[s] + ReleaseTime

\* No player is admitted to a session that completed at most ReleaseTime ago,
\* whichever calls came between (the check of open_session, :749).
NotReopenedEarly ==
    [][ \A s \in Sessions :
            Open /\ call.sid = s /\ answer' = Admitted /\ doneAt[s] # Never
                => readAt > doneAt[s] + ReleaseTime ]_vars

\* While a session stays archived its result never changes: a second
\* complete_session does not replace what some player was already told (:523).
FirstResultStands ==
    [][ \A s \in Sessions :
            Contains(locked, s) /\ Contains(locked', s)
                => At(locked', s) = At(locked, s) ]_vars

\* What a call finds in the archive completed at most three release times
\* ago, plus the time lost between the two clock reads: two periods in the
\* maps, and a period may last twice the release time when calls are rare.
\* That is more than the two time-steps of the comment at base_server.hpp:182,
\* and a bound on what calls find only: without a call nothing is released.
ReleasedInThreePeriods ==
    pc = "body" =>
        \A s \in Keys(locked) :
            readAt <= doneAt[s] + 3 * ReleaseTime + 2 * MaxDelay

------------------------------------------------------------------------------
(* Why the bounds hold.  An entry of m1 was archived in the current period, *)
(* one of m2 in the period before, which lasted at most 2 * ReleaseTime:    *)
(* if it was longer, its end has cleared both maps.                         *)

ClocksOrdered ==
    /\ last <= now
    /\ readAt <= now
    /\ \A s \in Sessions : doneAt[s] <= readAt
    /\ pc = "stamp" => now <= readAt + MaxDelay
    /\ pc = "body" => last <= readAt + MaxDelay /\ readAt <= last + ReleaseTime

OneMapEach ==
    /\ DOMAIN locked.m1 \cap DOMAIN locked.m2 = {}
    /\ \A s \in Keys(locked) : doneAt[s] # Never

ArchivedInPeriod ==
    IF pc = "stamp"
      THEN /\ DOMAIN locked.m1 = {}
           /\ \A s \in DOMAIN locked.m2 :
                 readAt - 2 * ReleaseTime - MaxDelay <= doneAt[s]
      ELSE /\ \A s \in DOMAIN locked.m1 :
                 /\ last - MaxDelay <= doneAt[s]
                 /\ doneAt[s] <= last + ReleaseTime
           /\ \A s \in DOMAIN locked.m2 :
                 /\ last - 2 * ReleaseTime - 2 * MaxDelay <= doneAt[s]
                 /\ doneAt[s] <= last

IInv ==
    /\ TypeOK
    /\ ClocksOrdered
    /\ OneMapEach
    /\ ArchivedInPeriod
    /\ RetainedForReleaseTime

==============================================================================
