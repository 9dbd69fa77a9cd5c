--------------------------- MODULE MCArtifactStore ---------------------------
\* Two threads of one process and one of another, two objects in one
\* directory and one that another directory holds.
EXTENDS ArtifactStore, TLC

CONSTANTS p1, p2, p3, s1, s2, d1, d2, x1, x2, t1, t2, t3

MCPublishers == {p1, p2, p3}
MCStores == {s1, s2}
MCStoreOf == p1 :> s1 @@ p2 :> s1 @@ p3 :> s2
MCDigests == {d1, d2}
MCPrefixes == {x1, x2}
MCPrefixOf == d1 :> x1 @@ d2 :> x2
MCTokens == {t1, t2, t3}
MCPrepared == {x1}

Symmetry == Permutations(MCTokens) \cup Permutations({p1, p2})
=============================================================================
