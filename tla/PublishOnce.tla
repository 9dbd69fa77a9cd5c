------------------------------ MODULE PublishOnce ------------------------------
(***************************************************************************)
(* What a place that is published once promises: nothing is there, and     *)
(* then for good one whole value.  Half of a value is never there, and no  *)
(* later publisher replaces it.                                            *)
(***************************************************************************)
CONSTANTS Values, Nothing

VARIABLE place

Init == place = Nothing

Publish == place = Nothing /\ place' \in Values

Spec == Init /\ [][Publish]_place
=============================================================================
