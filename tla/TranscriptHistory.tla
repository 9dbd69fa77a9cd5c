-------------------------- MODULE TranscriptHistory --------------------------
(***************************************************************************)
(* What the transcript repository promises: a transcript begins empty of   *)
(* edits and grows by one edit at a time, each made by somebody who had    *)
(* everything before it in view.  Nothing is said about who waits for whom.*)
(***************************************************************************)
EXTENDS Naturals

CONSTANT Edits

VARIABLES
    exists,
    revision,
    content     \* content[n]: the edits that revision n consists of

Init == exists = FALSE /\ revision = 0 /\ content = [n \in {0} |-> {}]

Create ==
    /\ ~exists
    /\ exists' = TRUE
    /\ UNCHANGED <<revision, content>>

Extend(d) ==
    /\ exists
    /\ d \notin content[revision]
    /\ revision' = revision + 1
    /\ content' = [n \in 0 .. revision + 1 |->
                     IF n \in 0 .. revision THEN content[n] ELSE content[revision] \cup {d}]
    /\ UNCHANGED exists

Next == Create \/ \E d \in Edits : Extend(d)

Spec == Init /\ [][Next]_<<exists, revision, content>>
=============================================================================
