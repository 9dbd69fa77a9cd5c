---------------------------- MODULE PackageCreation ----------------------------
(***************************************************************************)
(* Creating a project package (application/projects.py, create): each      *)
(* creator builds a whole package in a temporary directory beside the      *)
(* destination, looks at the destination again, and renames.  Others make  *)
(* a directory of that name meanwhile, and creators die.                   *)
(***************************************************************************)
EXTENDS Integers, Sequences

CONSTANTS Creators, Nobody

PackageConstants == Nobody # "others" /\ Creators \cap {Nobody, "others"} = {}

\* What create() puts into a package, in this order.
Parts == <<"directories", "manifest", "database", "audit", "artifacts", "checkpoint">>

Whole == Len(Parts)

VARIABLES
    destination,    \* who made what is there, and its number of parts
    building,       \* building[c]: the parts in c's temporary directory, or -1
    at              \* at[c]: how far create() got

vars == <<destination, building, at>>

Vacant == [by |-> Nobody, parts |-> 0]

\* A directory that somebody else made: empty, or with something in it.
Foreign == [by: {"others"}, parts: {0, 1}]

Stages == {"idle", "building", "checked", "renamed", "created", "failed"}

Init ==
    /\ destination = Vacant
    /\ building = [c \in Creators |-> -1]
    /\ at = [c \in Creators |-> "idle"]

Begin(c) ==
    /\ at[c] = "idle"
    /\ destination = Vacant
    /\ at' = [at EXCEPT ![c] = "building"]
    /\ building' = [building EXCEPT ![c] = 0]
    /\ UNCHANGED destination

Build(c) ==
    /\ at[c] = "building"
    /\ building[c] < Whole
    /\ building' = [building EXCEPT ![c] = @ + 1]
    /\ UNCHANGED <<destination, at>>

\* Mutant: the second look comes before the package is complete.
CheckEarly(c) ==
    /\ at[c] = "building"
    /\ building[c] = Whole - 1
    /\ destination = Vacant
    /\ at' = [at EXCEPT ![c] = "checked"]
    /\ UNCHANGED <<destination, building>>

Check(c) ==
    /\ at[c] = "building"
    /\ building[c] = Whole
    /\ destination = Vacant
    /\ at' = [at EXCEPT ![c] = "checked"]
    /\ UNCHANGED <<destination, building>>

\* staging.root.replace(): a rename takes the place of nothing or of an empty
\* directory.
Rename(c) ==
    /\ at[c] = "checked"
    /\ destination.parts = 0
    /\ destination' = [by |-> c, parts |-> building[c]]
    /\ building' = [building EXCEPT ![c] = -1]
    /\ at' = [at EXCEPT ![c] = "renamed"]

\* open() of the package that was just published.
Open(c) ==
    /\ at[c] = "renamed"
    /\ at' = [at EXCEPT ![c] = "created"]
    /\ UNCHANGED <<destination, building>>

\* create() raises: the destination is taken, or a step failed, and the
\* temporary directory is removed.  A process that dies leaves it behind,
\* under a name that is not used again.
Fail(c) ==
    /\ at[c] \in {"idle", "building", "checked", "renamed"}
    /\ at' = [at EXCEPT ![c] = "failed"]
    /\ building' = [building EXCEPT ![c] = -1]
    /\ UNCHANGED destination

\* External: somebody makes a directory where the package is to be.
MakeDirectory ==
    /\ destination = Vacant
    /\ destination' \in Foreign
    /\ UNCHANGED <<building, at>>

Next ==
    \/ \E c \in Creators :
        Begin(c) \/ Build(c) \/ Check(c) \/ Rename(c) \/ Open(c) \/ Fail(c)
    \/ MakeDirectory

Spec == Init /\ [][Next]_vars

-----------------------------------------------------------------------------

TypeOK ==
    /\ destination \in [by: Creators \cup {Nobody, "others"}, parts: 0..Whole]
    /\ building \in [Creators -> -1..Whole]
    /\ at \in [Creators -> Stages]

Packages == {[by |-> c, parts |-> Whole] : c \in Creators}

Once == INSTANCE PublishOnce WITH
    Values <- Packages, Nothing <- Vacant,
    place <- IF destination.by \in Creators THEN destination ELSE Vacant

\* "Atomically publish a fully initialized active project directory" (l.263):
\* one of the creators at most publishes, and what it publishes is whole.
PublishesOnePackage == Once!Spec

\* A creator that returns has its own package open, not that of another one
\* or a directory that somebody made.
ReturnsItsPackage == \A c \in Creators : at[c] = "created" => destination.by = c
=============================================================================
