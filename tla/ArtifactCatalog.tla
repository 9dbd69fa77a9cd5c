--------------------------- MODULE ArtifactCatalog ---------------------------
(***************************************************************************)
(* What the artifact store and the project database promise together:      *)
(* an object, once it is visible, is whole and stays, and the database     *)
(* names only objects that were visible.  A power failure may take objects *)
(* back.  Nothing is said about how bytes get there.                       *)
(***************************************************************************)
EXTENDS Naturals

CONSTANT Digests

VARIABLES
    visible,    \* the digests whose object can be read
    recorded,   \* the digests that a committed artifact row names
    blackouts   \* power failures so far

Init == visible \subseteq Digests /\ recorded = {} /\ blackouts = 0

Publish(d) ==
    /\ d \notin visible
    /\ visible' = visible \cup {d}
    /\ UNCHANGED <<recorded, blackouts>>

Record(d) ==
    /\ d \in visible
    /\ recorded' = recorded \cup {d}
    /\ UNCHANGED <<visible, blackouts>>

Blackout ==
    /\ blackouts' = blackouts + 1
    /\ visible' \subseteq visible
    /\ UNCHANGED recorded

Next == (\E d \in Digests : Publish(d) \/ Record(d)) \/ Blackout

Spec == Init /\ [][Next]_<<visible, recorded, blackouts>>
=============================================================================
