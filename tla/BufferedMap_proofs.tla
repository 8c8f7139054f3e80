------------------------- MODULE BufferedMap_proofs -------------------------
(***************************************************************************)
(* What the operators of a buffered map return, for the proofs about the   *)
(* modules that keep one.                                                  *)
(***************************************************************************)
EXTENDS BufferedMap, TLAPS

\* A partial function from K to V, from its domain and values and back.
LEMMA MapsType ==
    ASSUME NEW K, NEW V, NEW f, DOMAIN f \subseteq K, f \in [DOMAIN f -> V]
    PROVE  f \in Maps(K, V)
BY DEF Maps

\* The other direction of MapsType.
LEMMA MapsElim ==
    ASSUME NEW K, NEW V, NEW f \in Maps(K, V)
    PROVE  DOMAIN f \subseteq K /\ f \in [DOMAIN f -> V]
BY DEF Maps

\* The buffered map of Init and of stop().
LEMMA EmptyBufferFacts ==
    ASSUME NEW K, NEW V
    PROVE  /\ EmptyBuffer \in BufferedMaps(K, V)
           /\ DOMAIN EmptyBuffer.m1 = {} /\ DOMAIN EmptyBuffer.m2 = {}
<1>1. NoEntries \in [{} -> V] /\ DOMAIN NoEntries = {}
  BY DEF NoEntries
<1>2. NoEntries \in Maps(K, V)
  BY <1>1, MapsType
<1> QED
  BY <1>1, <1>2 DEF EmptyBuffer, BufferedMaps

\* clear() moves m1 to m2 and empties m1.
LEMMA ClearFacts ==
    ASSUME NEW K, NEW V, NEW b \in BufferedMaps(K, V)
    PROVE  /\ Clear(b) \in BufferedMaps(K, V)
           /\ DOMAIN Clear(b).m1 = {}
           /\ Clear(b).m2 = b.m1
<1>1. NoEntries \in Maps(K, V) /\ DOMAIN NoEntries = {}
  BY EmptyBufferFacts DEF EmptyBuffer, BufferedMaps
<1> QED
  BY <1>1 DEF Clear, BufferedMaps

\* insert() touches m1 only and replaces nothing there.
LEMMA InsertFacts ==
    ASSUME NEW K, NEW V, NEW b \in BufferedMaps(K, V), NEW k \in K, NEW v \in V
    PROVE  /\ Insert(b, k, v) \in BufferedMaps(K, V)
           /\ DOMAIN Insert(b, k, v).m1 = DOMAIN b.m1 \cup {k}
           /\ \A x \in DOMAIN b.m1 : Insert(b, k, v).m1[x] = b.m1[x]
           /\ Insert(b, k, v).m2 = b.m2
<1> DEFINE D == DOMAIN b.m1 \cup {k}
           f == [x \in D |-> IF x \in DOMAIN b.m1 THEN b.m1[x] ELSE v]
<1>1. b = [m1 |-> b.m1, m2 |-> b.m2] /\ b.m1 \in Maps(K, V) /\ b.m2 \in Maps(K, V)
  BY DEF BufferedMaps
<1>2. DOMAIN b.m1 \subseteq K /\ b.m1 \in [DOMAIN b.m1 -> V]
  BY <1>1, MapsElim
<1>3. f \in [D -> V] /\ DOMAIN f = D /\ D \subseteq K
  BY <1>2
<1>4. f \in Maps(K, V)
  BY <1>3, MapsType
<1>5. Insert(b, k, v) = [m1 |-> f, m2 |-> b.m2]
  BY <1>1 DEF Insert
<1> QED
  BY <1>1, <1>3, <1>4, <1>5 DEF BufferedMaps
==============================================================================
