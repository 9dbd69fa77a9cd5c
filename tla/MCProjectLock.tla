---------------------------- MODULE MCProjectLock ----------------------------
(* Two processes: two lock objects share the first, one is in the second.   *)
(* Three nonces allow two owners in turn, each leaving an orphan. *)
EXTENDS ProjectLock, TLC

CONSTANTS p1, p2, a, b, c, n1, n2, n3

MCProcs == {p1, p2}
MCLocks == {a, b, c}
MCProcOf == a :> p1 @@ b :> p1 @@ c :> p2
MCNonces == {n1, n2, n3}
Symmetry == Permutations(MCNonces)
=============================================================================
