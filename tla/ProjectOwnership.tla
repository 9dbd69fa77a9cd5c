-------------------------- MODULE ProjectOwnership --------------------------
(***************************************************************************)
(* What the project lock promises to the rest of the application, without  *)
(* gates, tables or crashes: at most one owner, whose record stands while  *)
(* it owns the project; a new owner only where no record is left; and a    *)
(* record without an owner disappears only after an audited decision, or   *)
(* by software that ignores the protocol.                                  *)
(***************************************************************************)
CONSTANTS Locks, Nonces, None,
    MayMeddle   \* whether foreign software may touch the record

VARIABLES
    owner,      \* the lock object that owns the project
    record,     \* the published nonce
    published,  \* nonces published so far
    audited,    \* nonces an operator has been authorised to break
    calls       \* where the calls of the protocol stand; any step may move it

vars == <<owner, record, published, audited>>

Init ==
    /\ owner = None
    /\ record = None
    /\ published = {}
    /\ audited = {}

Claim(l) ==
    /\ owner = None
    /\ record = None
    /\ owner' = l
    /\ \E n \in Nonces \ published :
        /\ record' = n
        /\ published' = published \cup {n}
    /\ audited' = audited

\* The owner withdraws its record before it lets the project go ...
Withdraw ==
    /\ owner # None
    /\ record' = None
    /\ UNCHANGED <<owner, published, audited>>

\* ... or lets go, or dies, with the record in place: an orphan.
LetGo ==
    /\ owner # None
    /\ owner' = None
    /\ UNCHANGED <<record, published, audited>>

\* The record that an operator decides on may have gone meanwhile.
Authorise ==
    /\ owner = None
    /\ \E n \in published : audited' = audited \cup {n}
    /\ UNCHANGED <<owner, record, published>>

\* What was damaged after it was read goes like an orphan.
BreakOrphan ==
    /\ owner = None
    /\ record \in audited \/ record \notin Nonces
    /\ record' = None
    /\ UNCHANGED <<owner, published, audited>>

\* Foreign software deletes or damages the record, and moves no call.
Meddle ==
    /\ MayMeddle
    /\ record # None
    /\ record' \notin Nonces
    /\ UNCHANGED <<owner, published, audited, calls>>

Next ==
    \/ \E l \in Locks : Claim(l)
    \/ Withdraw \/ LetGo \/ Authorise \/ BreakOrphan \/ Meddle

Spec == Init /\ [][Next]_vars
=============================================================================
