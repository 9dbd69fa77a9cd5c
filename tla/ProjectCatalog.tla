---------------------------- MODULE ProjectCatalog ----------------------------
(***************************************************************************)
(* The catalog of recent projects (infrastructure/catalog/catalog.py): one *)
(* row per project, at most one per path, made by initialize() when a      *)
(* first process opens it.  Projects are moved on disk without the catalog *)
(* knowing; every call is one immediate transaction.                       *)
(***************************************************************************)
EXTENDS Integers, FiniteSets

CONSTANTS Projects, Paths, Nowhere

VARIABLES
    version,    \* user_version; the tables are there from version 1 on
    opening,    \* a process between its look at the version and its transaction
    rows,       \* rows[p]: the row of p, or NoRow
    place,      \* place[p]: where the package of p is on disk
    asked       \* asked[p]: what was last asked for p's pin, for properties only

vars == <<version, opening, rows, place, asked>>

NoRow == [path |-> Nowhere, pinned |-> FALSE]

Registered == {p \in Projects : rows[p] # NoRow}

Init ==
    /\ version = 0 /\ opening = FALSE
    /\ rows = [p \in Projects |-> NoRow]
    /\ place = [p \in Projects |-> Nowhere]
    /\ asked = [p \in Projects |-> FALSE]

\* _preflight_version(), without a transaction.
Preflight ==
    /\ ~opening
    /\ version \in {0, 1}
    /\ opening' = TRUE
    /\ UNCHANGED <<version, rows, place, asked>>

\* Mutant: the tables are made because preflight saw none.
InitializeAnew ==
    /\ opening
    /\ version' = 1
    /\ rows' = [p \in Projects |-> NoRow]
    /\ opening' = FALSE
    /\ UNCHANGED <<place, asked>>

\* initialize() looks again inside its transaction.
Initialize ==
    /\ opening
    /\ version' = 1
    /\ opening' = FALSE
    /\ UNCHANGED <<rows, place, asked>>

\* Another process initializes meanwhile.
InitializeElsewhere ==
    /\ version = 0
    /\ version' = 1
    /\ UNCHANGED <<opening, rows, place, asked>>

\* Mutant: a project that is opened again loses its pin.
UpsertUnpinned(p, pin) ==
    /\ version = 1
    /\ place[p] # Nowhere
    /\ \A q \in Projects \ {p} : rows[q].path # place[p]
    /\ rows' = [rows EXCEPT ![p] = [path |-> place[p], pinned |-> pin = {TRUE}]]
    /\ asked' = [asked EXCEPT ![p] = IF pin = {} THEN @ ELSE TRUE \in pin]
    /\ UNCHANGED <<version, opening, place>>

\* upsert_project(); pin is empty when the caller leaves the pin alone.
UpsertProject(p, pin) ==
    /\ version = 1
    /\ place[p] # Nowhere
    /\ \A q \in Projects \ {p} : rows[q].path # place[p]
    /\ rows' = [rows EXCEPT ![p] = [path |-> place[p],
                                    pinned |-> IF pin = {} THEN @.pinned ELSE TRUE \in pin]]
    /\ asked' = [asked EXCEPT ![p] = IF pin = {} THEN @ ELSE TRUE \in pin]
    /\ UNCHANGED <<version, opening, place>>

SetPinned(p, pin) ==
    /\ p \in Registered
    /\ rows' = [rows EXCEPT ![p].pinned = pin]
    /\ asked' = [asked EXCEPT ![p] = pin]
    /\ UNCHANGED <<version, opening, place>>

RemoveProject(p) ==
    /\ p \in Registered
    /\ rows' = [rows EXCEPT ![p] = NoRow]
    /\ asked' = [asked EXCEPT ![p] = FALSE]
    /\ UNCHANGED <<version, opening, place>>

\* External: a package is made, moved or deleted; a path holds one.
Move(p, path) ==
    /\ path # place[p]
    /\ path = Nowhere \/ \A q \in Projects : place[q] # path
    /\ place' = [place EXCEPT ![p] = path]
    /\ UNCHANGED <<version, opening, rows, asked>>

Next ==
    \/ Preflight \/ Initialize \/ InitializeElsewhere
    \/ \E p \in Projects :
        \/ \E pin \in {{}, {TRUE}, {FALSE}} : UpsertProject(p, pin)
        \/ \E pin \in BOOLEAN : SetPinned(p, pin)
        \/ RemoveProject(p)
        \/ \E path \in Paths \cup {Nowhere} : Move(p, path)

Spec == Init /\ [][Next]_vars

-----------------------------------------------------------------------------

TypeOK ==
    /\ version \in {0, 1} /\ opening \in BOOLEAN
    /\ rows \in [Projects -> [path: Paths \cup {Nowhere}, pinned: BOOLEAN]]
    /\ place \in [Projects -> Paths \cup {Nowhere}]

\* Every path leads to one project, and what the user last asked for a pin is
\* what the catalog has, however often the project was opened or moved and
\* whichever process made the tables.
CatalogKeepsPins ==
    /\ \A p, q \in Registered : rows[p].path = rows[q].path => p = q
    /\ \A p \in Projects : rows[p].pinned = asked[p]
=============================================================================
