------------------------ MODULE SessionArchive_proofs ------------------------
(***************************************************************************)
(* SessionArchive keeps completed sessions long enough, not too long and   *)
(* with their first result, for every release time and every bound.        *)
(***************************************************************************)
EXTENDS SessionArchive, BufferedMap_proofs, TLAPS

\* update_session_locks keeps the archive well formed; what it keeps of m1 it
\* keeps in m1 or moves to m2, and the second call in a row empties both.
LEMMA ReleasedFacts ==
    ASSUME TypeOK, NEW d \in Int
    PROVE  /\ Released(d) \in BufferedMaps(Sessions, Results)
           /\ d <= ReleaseTime => Released(d) = locked
           /\ d > ReleaseTime => DOMAIN Released(d).m1 = {}
           /\ d > ReleaseTime /\ d <= 2 * ReleaseTime => Released(d).m2 = locked.m1
           /\ d > 2 * ReleaseTime => DOMAIN Released(d).m2 = {}
<1> USE ReleaseTimeAssumption
<1>1. locked \in BufferedMaps(Sessions, Results)
  BY DEF TypeOK
<1>2. /\ Clear(locked) \in BufferedMaps(Sessions, Results)
      /\ DOMAIN Clear(locked).m1 = {}
      /\ Clear(locked).m2 = locked.m1
  BY <1>1, ClearFacts
<1>3. /\ Clear(Clear(locked)) \in BufferedMaps(Sessions, Results)
      /\ DOMAIN Clear(Clear(locked)).m1 = {}
      /\ Clear(Clear(locked)).m2 = Clear(locked).m1
  BY <1>2, ClearFacts
<1> QED
  BY <1>1, <1>2, <1>3 DEF Released

\* The server starts in the invariant.
LEMMA InitInv == Init => IInv
<1> SUFFICES ASSUME Init PROVE IInv
  OBVIOUS
<1> USE ReleaseTimeAssumption, BoundsAssumption DEF Init
<1>1. /\ EmptyBuffer \in BufferedMaps(Sessions, Results)
      /\ DOMAIN EmptyBuffer.m1 = {} /\ DOMAIN EmptyBuffer.m2 = {}
  BY EmptyBufferFacts
<1>2. now \in Nat
  OBVIOUS
<1>3. TypeOK
  BY <1>1, <1>2 DEF TypeOK, Calls, Never
<1>4. ClocksOrdered
  BY <1>2 DEF ClocksOrdered, Never
<1>5. OneMapEach /\ ArchivedInPeriod /\ RetainedForReleaseTime
  BY <1>1 DEF OneMapEach, ArchivedInPeriod, RetainedForReleaseTime, Keys, Never
<1> QED
  BY <1>3, <1>4, <1>5 DEF IInv

\* Every step keeps the types.
LEMMA TypeStep == TypeOK /\ [Next]_vars => TypeOK'
<1> SUFFICES ASSUME TypeOK, [Next]_vars PROVE TypeOK'
  OBVIOUS
<1> USE DEF TypeOK
<1>1. CASE Tick
  BY <1>1 DEF Tick
<1>2. CASE \E c \in Calls : Begin(c)
  <2>1. PICK c \in Calls : Begin(c)
    BY <1>2
  <2>2. Released(now - last) \in BufferedMaps(Sessions, Results)
    BY ReleasedFacts
  <2> QED
    BY <2>1, <2>2 DEF Begin
<1>3. CASE Stamp
  BY <1>3 DEF Stamp
<1>4. CASE Complete
  <2>1. call.op = "complete" => call.sid \in Sessions /\ call.result \in Results
    BY DEF Calls
  <2>2. CASE Contains(locked, call.sid)
    BY <1>4, <2>2 DEF Complete
  <2>3. CASE ~Contains(locked, call.sid)
    <3>1. Insert(locked, call.sid, call.result) \in BufferedMaps(Sessions, Results)
      BY <1>4, <2>1, InsertFacts DEF Complete
    <3> QED
      BY <1>4, <2>1, <2>3, <3>1 DEF Complete
  <2> QED
    BY <2>2, <2>3
<1>5. CASE Open
  <2>1. call.sid \in Sessions
    BY DEF Calls
  <2>2. ASSUME Contains(locked, call.sid) PROVE At(locked, call.sid) \in Results
    <3>1. locked.m1 \in Maps(Sessions, Results) /\ locked.m2 \in Maps(Sessions, Results)
      BY DEF BufferedMaps
    <3>2. /\ locked.m1 \in [DOMAIN locked.m1 -> Results]
          /\ locked.m2 \in [DOMAIN locked.m2 -> Results]
      BY <3>1, MapsElim
    <3> QED
      BY <2>2, <3>2 DEF At, Contains, Keys
  <2> QED
    BY <1>5, <2>1, <2>2 DEF Open
<1>6. CASE Stop
  <2>1. Clear(Clear(locked)) \in BufferedMaps(Sessions, Results)
    <3>1. Clear(locked) \in BufferedMaps(Sessions, Results)
      BY ClearFacts
    <3> QED
      BY <3>1, ClearFacts
  <2> QED
    BY <1>6, <2>1 DEF Stop
<1>7. CASE UNCHANGED vars
  BY <1>7 DEF vars
<1> QED
  BY <1>1, <1>2, <1>3, <1>4, <1>5, <1>6, <1>7 DEF Next

\* Every step keeps the entries of the two maps inside their periods.
LEMMA IInvStep == IInv /\ [Next]_vars => IInv'
<1> SUFFICES ASSUME IInv, [Next]_vars PROVE IInv'
  OBVIOUS
<1> USE ReleaseTimeAssumption, BoundsAssumption
<1>t. TypeOK /\ TypeOK'
  BY TypeStep DEF IInv
<1>n. /\ now \in Nat /\ last \in Nat /\ readAt \in Nat
      /\ \A s \in Sessions : doneAt[s] \in Int
      /\ \A s \in Keys(locked) : s \in Sessions
  <2>1. locked.m1 \in Maps(Sessions, Results) /\ locked.m2 \in Maps(Sessions, Results)
    BY <1>t DEF TypeOK, BufferedMaps
  <2>2. DOMAIN locked.m1 \subseteq Sessions /\ DOMAIN locked.m2 \subseteq Sessions
    BY <2>1, MapsElim
  <2> QED
    BY <1>t, <2>2 DEF TypeOK, Never, Keys
<1> USE DEF IInv, Keys, Contains
<1>1. CASE Tick
  <2>1. ClocksOrdered'
    BY <1>1, <1>n DEF Tick, ClocksOrdered
  <2>2. OneMapEach' /\ ArchivedInPeriod' /\ RetainedForReleaseTime'
    BY <1>1 DEF Tick, OneMapEach, ArchivedInPeriod, RetainedForReleaseTime
  <2> QED
    BY <1>t, <2>1, <2>2
<1>2. CASE \E c \in Calls : Begin(c)
  <2> DEFINE d == now - last
  <2>1. PICK c \in Calls : Begin(c)
    BY <1>2
  <2>2. d \in Int /\ d >= 0
    BY <1>n DEF ClocksOrdered
  <2>3. /\ d <= ReleaseTime => Released(d) = locked
        /\ d > ReleaseTime => DOMAIN Released(d).m1 = {}
        /\ d > ReleaseTime /\ d <= 2 * ReleaseTime => Released(d).m2 = locked.m1
        /\ d > 2 * ReleaseTime => DOMAIN Released(d).m2 = {}
    BY <1>t, <2>2, ReleasedFacts
  <2>4. /\ locked' = Released(d)
        /\ readAt' = now
        /\ pc' = IF d > ReleaseTime THEN "stamp" ELSE "body"
        /\ now' = now /\ last' = last /\ doneAt' = doneAt /\ pc = "idle"
    BY <2>1 DEF Begin
  <2>5. ClocksOrdered'
    BY <1>n, <2>2, <2>4 DEF ClocksOrdered
  <2>6. CASE d <= ReleaseTime
    BY <1>t, <1>n, <2>2, <2>3, <2>4, <2>5, <2>6
       DEF ClocksOrdered, OneMapEach, ArchivedInPeriod, RetainedForReleaseTime
  <2>7. CASE d > ReleaseTime /\ d <= 2 * ReleaseTime
    <3>1. OneMapEach'
      BY <2>3, <2>4, <2>7 DEF OneMapEach
    <3>2. ArchivedInPeriod'
      BY <1>n, <2>2, <2>3, <2>4, <2>7 DEF ArchivedInPeriod
    <3>3. RetainedForReleaseTime'
      BY <1>n, <2>2, <2>3, <2>4, <2>7
         DEF ArchivedInPeriod, RetainedForReleaseTime, ClocksOrdered
    <3> QED
      BY <1>t, <2>5, <3>1, <3>2, <3>3
  <2>8. CASE d > 2 * ReleaseTime
    <3>1. OneMapEach' /\ ArchivedInPeriod'
      BY <2>2, <2>3, <2>4, <2>8 DEF OneMapEach, ArchivedInPeriod
    <3>2. RetainedForReleaseTime'
      BY <1>n, <2>2, <2>3, <2>4, <2>8
         DEF ArchivedInPeriod, RetainedForReleaseTime, ClocksOrdered
    <3> QED
      BY <1>t, <2>5, <3>1, <3>2
  <2> QED
    BY <2>2, <2>6, <2>7, <2>8
<1>3. CASE Stamp
  <2>1. ClocksOrdered'
    BY <1>3, <1>n DEF Stamp, ClocksOrdered
  <2>2. OneMapEach' /\ RetainedForReleaseTime'
    BY <1>3 DEF Stamp, OneMapEach, RetainedForReleaseTime
  <2>3. ArchivedInPeriod'
    BY <1>3, <1>n DEF Stamp, ArchivedInPeriod, ClocksOrdered
  <2> QED
    BY <1>t, <2>1, <2>2, <2>3
<1>4. CASE Complete
  <2>1. CASE Contains(locked, call.sid)
    BY <1>4, <1>t, <2>1 DEF Complete, ClocksOrdered, OneMapEach, ArchivedInPeriod,
                     RetainedForReleaseTime
  <2>2. CASE ~Contains(locked, call.sid)
    <3>1. call.sid \in Sessions /\ call.result \in Results
      BY <1>4, <1>t DEF Complete, TypeOK, Calls
    <3>2. /\ DOMAIN locked'.m1 = DOMAIN locked.m1 \cup {call.sid}
          /\ locked'.m2 = locked.m2
          /\ doneAt' = [doneAt EXCEPT ![call.sid] = readAt]
          /\ now' = now /\ last' = last /\ readAt' = readAt /\ call' = call
          /\ pc = "body" /\ pc' = "idle"
      BY <1>4, <1>t, <2>2, <3>1, InsertFacts DEF Complete, TypeOK
    <3>3. /\ doneAt'[call.sid] = readAt
          /\ \A s \in Sessions : s # call.sid => doneAt'[s] = doneAt[s]
      BY <1>t, <3>1, <3>2 DEF TypeOK
    <3>4. ClocksOrdered'
      BY <1>n, <3>2, <3>3 DEF ClocksOrdered
    <3>5. OneMapEach'
      BY <1>n, <2>2, <3>1, <3>2, <3>3 DEF OneMapEach, Never
    <3>6. ArchivedInPeriod'
      BY <1>n, <2>2, <3>1, <3>2, <3>3 DEF ArchivedInPeriod, ClocksOrdered
    <3>7. RetainedForReleaseTime'
      BY <1>n, <3>1, <3>2, <3>3 DEF RetainedForReleaseTime
    <3> QED
      BY <1>t, <3>4, <3>5, <3>6, <3>7
  <2> QED
    BY <2>1, <2>2
<1>5. CASE Open
  BY <1>5, <1>t DEF Open, ClocksOrdered, OneMapEach, ArchivedInPeriod,
                    RetainedForReleaseTime
<1>6. CASE Stop
  <2>1. DOMAIN locked'.m1 = {} /\ DOMAIN locked'.m2 = {}
    BY <1>6, <1>t, ClearFacts DEF Stop, TypeOK
  <2>2. /\ \A s \in Sessions : doneAt'[s] = Never
        /\ now' = now /\ last' = last /\ pc = "idle" /\ pc' = pc /\ readAt' = readAt
    BY <1>6 DEF Stop
  <2>3. ClocksOrdered'
    BY <1>n, <2>2 DEF ClocksOrdered, Never
  <2>4. OneMapEach' /\ ArchivedInPeriod' /\ RetainedForReleaseTime'
    BY <2>1, <2>2 DEF OneMapEach, ArchivedInPeriod, RetainedForReleaseTime
  <2> QED
    BY <1>t, <2>3, <2>4
<1>7. CASE UNCHANGED vars
  BY <1>7, <1>t DEF vars, ClocksOrdered, OneMapEach, ArchivedInPeriod,
                    RetainedForReleaseTime
<1> QED
  BY <1>1, <1>2, <1>3, <1>4, <1>5, <1>6, <1>7 DEF Next

\* The inductive invariant of the archive: which period each entry completed in.
THEOREM Invariance == Spec => []IInv
BY InitInv, IInvStep, PTL DEF Spec

------------------------------------------------------------------------------
\* Whatever calls come and however they are spaced, a completed session is
\* dropped only by a call that reads the clock more than ReleaseTime later.
THEOREM Retention == Spec => []RetainedForReleaseTime
<1>1. IInv => RetainedForReleaseTime
  BY DEF IInv
<1> QED
  BY <1>1, Invariance, PTL

\* No call finds a session that completed more than three release times ago
\* (plus the delays between clock reads).  It may find one that completed more
\* than two ago, unlike base_server.hpp:182-184 says.
THEOREM Release == Spec => []ReleasedInThreePeriods
<1>1. IInv => ReleasedInThreePeriods
  <2> SUFFICES ASSUME IInv, pc = "body", NEW s \in Keys(locked)
               PROVE  readAt <= doneAt[s] + 3 * ReleaseTime + 2 * MaxDelay
    BY DEF ReleasedInThreePeriods
  <2>1. locked.m1 \in Maps(Sessions, Results) /\ locked.m2 \in Maps(Sessions, Results)
    BY DEF IInv, TypeOK, BufferedMaps
  <2>2. s \in Sessions
    BY <2>1, MapsElim DEF Keys
  <2>3. readAt \in Nat /\ last \in Nat /\ doneAt[s] \in Int
    BY <2>2 DEF IInv, TypeOK, Never
  <2> QED
    BY <2>3, ReleaseTimeAssumption, BoundsAssumption
       DEF IInv, ArchivedInPeriod, ClocksOrdered, Keys
<1> QED
  BY <1>1, Invariance, PTL

\* open_session admits nobody to a session that completed at most ReleaseTime
\* ago: with tokens that live no longer than that, a session never reopens.
THEOREM NoEarlyReopening == Spec => NotReopenedEarly
<1>1. IInv /\ [Next]_vars
      => [ \A s \in Sessions :
              Open /\ call.sid = s /\ answer' = Admitted /\ doneAt[s] # Never
                 => readAt > doneAt[s] + ReleaseTime ]_vars
  <2> SUFFICES ASSUME IInv, NEW s \in Sessions, Open, call.sid = s,
                      answer' = Admitted, doneAt[s] # Never
               PROVE  readAt > doneAt[s] + ReleaseTime
    OBVIOUS
  <2>1. ~Contains(locked, s)
    <3> SUFFICES ASSUME Contains(locked, s) PROVE FALSE
      OBVIOUS
    <3>1. /\ locked.m1 \in Maps(Sessions, Results)
          /\ locked.m2 \in Maps(Sessions, Results)
      BY DEF IInv, TypeOK, BufferedMaps
    <3>2. /\ locked.m1 \in [DOMAIN locked.m1 -> Results]
          /\ locked.m2 \in [DOMAIN locked.m2 -> Results]
      BY <3>1, MapsElim
    <3>3. At(locked, s) \in Results
      BY <3>2 DEF At, Contains, Keys
    <3> QED
      BY <3>3, AdmittedAssumption DEF Open
  <2> QED
    BY <2>1 DEF IInv, RetainedForReleaseTime
<1> QED
  BY <1>1, Invariance, PTL DEF Spec, NotReopenedEarly

\* While a session stays archived its result is the first one.
THEOREM ResultStands == Spec => FirstResultStands
<1>1. IInv /\ [Next]_vars
      => [ \A s \in Sessions :
              Contains(locked, s) /\ Contains(locked', s)
                 => At(locked', s) = At(locked, s) ]_vars
  <2> SUFFICES ASSUME IInv, Next, NEW s \in Sessions,
                      Contains(locked, s), Contains(locked', s)
               PROVE  At(locked', s) = At(locked, s)
    BY DEF vars
  <2> USE DEF Contains, Keys, At
  <2>1. TypeOK /\ DOMAIN locked.m1 \cap DOMAIN locked.m2 = {}
    BY DEF IInv, OneMapEach
  <2>2. CASE Tick \/ Stamp \/ Open
    BY <2>2 DEF Tick, Stamp, Open
  <2>3. CASE \E c \in Calls : Begin(c)
    <3>1. locked' = Released(now - last) /\ now - last \in Int
      BY <2>1, <2>3 DEF Begin, TypeOK
    <3> QED
      BY <2>1, <3>1, ReleasedFacts, ReleaseTimeAssumption
  <2>4. CASE Complete
    <3>1. call.sid \in Sessions /\ call.result \in Results
      BY <2>1, <2>4 DEF Complete, TypeOK, Calls
    <3>2. CASE Contains(locked, call.sid)
      BY <2>4, <3>2 DEF Complete
    <3>3. CASE ~Contains(locked, call.sid)
      BY <2>1, <2>4, <3>1, <3>3, InsertFacts DEF Complete, TypeOK
    <3> QED
      BY <3>2, <3>3
  <2>5. CASE Stop
    <3>1. DOMAIN locked'.m1 = {} /\ DOMAIN locked'.m2 = {}
      BY <2>1, <2>5, ClearFacts DEF Stop, TypeOK
    <3> QED
      BY <3>1
  <2> QED
    BY <2>2, <2>3, <2>4, <2>5 DEF Next
<1> QED
  BY <1>1, Invariance, PTL DEF Spec, FirstResultStands
==============================================================================
