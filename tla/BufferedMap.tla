----------------------------- MODULE BufferedMap -----------------------------
(***************************************************************************)
(* buffered_map of base_server.hpp: a pair of maps that imitates one map,  *)
(* except that an entry is erased by the second clear() that follows its   *)
(* insertion.  Pure operators: SessionArchive and BaseServer keep their    *)
(* m_locked_sessions in such a value.                                      *)
(*                                                                         *)
(* A buffered map is a record of two partial functions, m1 (recent         *)
(* entries, where insertions go) and m2 (entries that survived one clear). *)
(***************************************************************************)

NoEntries == [k \in {} |-> k]

EmptyBuffer == [m1 |-> NoEntries, m2 |-> NoEntries]

\* Every buffered map with keys in K and values in V.
Maps(K, V) == UNION {[D -> V] : D \in SUBSET K}

BufferedMaps(K, V) == [m1 : Maps(K, V), m2 : Maps(K, V)]

Keys(b) == DOMAIN b.m1 \cup DOMAIN b.m2

\* Mutant of Contains: m_map2 is not looked at.
ContainsRecent(b, k) == k \in DOMAIN b.m1

Contains(b, k) == k \in Keys(b)

\* std::map::insert leaves the value of a key that is already in m_map1.
Insert(b, k, v) ==
    [b EXCEPT !.m1 = [x \in DOMAIN b.m1 \cup {k} |->
                        IF x \in DOMAIN b.m1 THEN b.m1[x] ELSE v]]

\* m_map1 hides m_map2.
At(b, k) == IF k \in DOMAIN b.m1 THEN b.m1[k] ELSE b.m2[k]

\* m_map2 is emptied and the two maps are swapped.
Clear(b) == [m1 |-> NoEntries, m2 |-> b.m1]
==============================================================================
