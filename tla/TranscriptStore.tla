--------------------------- MODULE TranscriptStore ---------------------------
(***************************************************************************)
(* Several editors of one transcript (application/transcripts.py over      *)
(* infrastructure/transcripts/repository.py): each looks at a revision,    *)
(* asks for a command on it, and the service loads, applies and commits in *)
(* separate steps.  What a command does to the utterances is module        *)
(* TranscriptCommands; here a transcript is the set of edits it contains.  *)
(***************************************************************************)
EXTENDS Naturals, FiniteSets

CONSTANTS
    Editors,
    Edits,          \* the edits that commands make
    None,
    MaxRevision     \* bound on revisions, to keep instances finite

ASSUME StoreConstants == MaxRevision \in Nat /\ None \notin Editors

Absent == [revision |-> 0, content |-> {}, present |-> FALSE]

VARIABLES
    snapshot,   \* the row of transcript_snapshots
    mutations,  \* the rows of transcript_mutations
    pc,         \* pc[e]: "idle", or between load and commit: "loaded"
    view,       \* view[e]: the snapshot the editor looks at
    result      \* result[e]: what apply() returned and commit() is given

vars == <<snapshot, mutations, pc, view, result>>

Snapshot == [revision: 0..MaxRevision, content: SUBSET Edits, present: BOOLEAN]

\* expected, new: the revisions of the audit fact; seen: what the editor
\* looked at when asking, for properties only.
Result == [edit: Edits, content: SUBSET Edits, expected: 0..MaxRevision,
           new: 1..MaxRevision, seen: SUBSET Edits]

NoResult == [edit |-> None]

Init ==
    /\ snapshot = Absent
    /\ mutations = {}
    /\ pc = [e \in Editors |-> "idle"]
    /\ view = [e \in Editors |-> Absent]
    /\ result = [e \in Editors |-> NoResult]

\* Mutant: creation replaces what is there.
CreateOrReplace(e) ==
    /\ pc[e] = "idle"
    /\ snapshot' = [Absent EXCEPT !.present = TRUE]
    /\ UNCHANGED <<mutations, pc, view, result>>

\* create(): the primary key refuses a second one.
Create(e) ==
    /\ pc[e] = "idle"
    /\ ~snapshot.present
    /\ snapshot' = [Absent EXCEPT !.present = TRUE]
    /\ UNCHANGED <<mutations, pc, view, result>>

\* get(): an editor opens or refreshes the transcript.
Look(e) ==
    /\ pc[e] = "idle"
    /\ snapshot.present
    /\ view' = [view EXCEPT ![e] = snapshot]
    /\ UNCHANGED <<snapshot, mutations, pc, result>>

\* Mutant: the command's revision is not compared with the loaded one.
ApplyUnseen(e, d) ==
    /\ pc[e] = "idle"
    /\ view[e].present
    /\ snapshot.revision < MaxRevision
    /\ d \notin snapshot.content
    /\ pc' = [pc EXCEPT ![e] = "loaded"]
    /\ result' = [result EXCEPT ![e] =
                    [edit |-> d, content |-> snapshot.content \cup {d},
                     expected |-> snapshot.revision, new |-> snapshot.revision + 1,
                     seen |-> view[e].content]]
    /\ UNCHANGED <<snapshot, mutations, view>>

\* apply(): require() loads the snapshot, the command names the revision that
\* the editor looked at, and a command on another one raises.  A command that
\* raises for a reason of its own changes nothing either.
Apply(e, d) ==
    /\ pc[e] = "idle"
    /\ view[e].present
    /\ view[e].revision = snapshot.revision
    /\ snapshot.revision < MaxRevision
    /\ d \notin snapshot.content
    /\ pc' = [pc EXCEPT ![e] = "loaded"]
    /\ result' = [result EXCEPT ![e] =
                    [edit |-> d, content |-> snapshot.content \cup {d},
                     expected |-> snapshot.revision, new |-> snapshot.revision + 1,
                     seen |-> view[e].content]]
    /\ UNCHANGED <<snapshot, mutations, view>>

Mutation(r) == [revision |-> r.new, edit |-> r.edit, digest |-> r.content, seen |-> r.seen]

\* Mutant: the compare is left out and only the swap remains.
CommitBlindly(e) ==
    /\ pc[e] = "loaded"
    /\ snapshot' = [snapshot EXCEPT !.revision = result[e].new, !.content = result[e].content]
    /\ mutations' = mutations \cup {Mutation(result[e])}
    /\ pc' = [pc EXCEPT ![e] = "idle"]
    /\ result' = [result EXCEPT ![e] = NoResult]
    /\ UNCHANGED view

\* Mutant: the mutation is recorded in a transaction before the compare.
CommitRecordsFirst(e) ==
    /\ pc[e] = "loaded"
    /\ mutations' = mutations \cup {Mutation(result[e])}
    /\ snapshot' = IF snapshot.revision = result[e].expected
                   THEN [snapshot EXCEPT !.revision = result[e].new, !.content = result[e].content]
                   ELSE snapshot
    /\ pc' = [pc EXCEPT ![e] = "idle"]
    /\ result' = [result EXCEPT ![e] = NoResult]
    /\ UNCHANGED view

\* commit(): one immediate transaction compares, replaces the snapshot and
\* inserts the mutation, whose key is the revision.
Commit(e) ==
    /\ pc[e] = "loaded"
    /\ snapshot.present
    /\ snapshot.revision = result[e].expected
    /\ \A m \in mutations : m.revision # result[e].new
    /\ snapshot' = [snapshot EXCEPT !.revision = result[e].new, !.content = result[e].content]
    /\ mutations' = mutations \cup {Mutation(result[e])}
    /\ pc' = [pc EXCEPT ![e] = "idle"]
    /\ result' = [result EXCEPT ![e] = NoResult]
    /\ UNCHANGED view

\* The transaction is rolled back: another revision is stored, the database
\* is busy, or the process ends between load and commit.
CommitFails(e) ==
    /\ pc[e] = "loaded"
    /\ pc' = [pc EXCEPT ![e] = "idle"]
    /\ result' = [result EXCEPT ![e] = NoResult]
    /\ UNCHANGED <<snapshot, mutations, view>>

Next ==
    \E e \in Editors :
        \/ Create(e) \/ Look(e)
        \/ \E d \in Edits : Apply(e, d)
        \/ Commit(e) \/ CommitFails(e)

Spec == Init /\ [][Next]_vars

-----------------------------------------------------------------------------

MutationRow == [revision: 1..MaxRevision, edit: Edits, digest: SUBSET Edits, seen: SUBSET Edits]

TypeOK ==
    /\ snapshot \in Snapshot
    /\ mutations \subseteq MutationRow
    /\ pc \in [Editors -> {"idle", "loaded"}]
    /\ view \in [Editors -> Snapshot]
    /\ \A e \in Editors : result[e] \in IF pc[e] = "idle" THEN {NoResult} ELSE Result
    /\ DOMAIN result = Editors

\* repository.py l.70: "a stale editor cannot overwrite a newer edit".  Every
\* edit that was ever committed is in the stored transcript, and nothing else
\* is, whatever was committed between anybody's load and commit.
NoLostEdit == snapshot.content = {m.edit : m \in mutations}

\* ADR-010: every mutation leaves its evidence; the rows run without gap or
\* double from 1 to the stored revision, and the last one has the digest of
\* the stored transcript.
HistoryIsComplete ==
    /\ {m.revision : m \in mutations} = 1 .. snapshot.revision
    /\ \A m, n \in mutations : m.revision = n.revision => m = n
    /\ \A m \in mutations : m.revision = snapshot.revision => m.digest = snapshot.content

\* ADR-010: "stale revisions fail with an explicit conflict".  Whoever made a
\* mutation had looked at exactly the transcript that it replaced.
EditorsSawWhatTheyReplaced ==
    \A m \in mutations : m.digest = m.seen \cup {m.edit} /\ m.edit \notin m.seen

ContentAt(n) == IF n = 0 THEN {} ELSE (CHOOSE m \in mutations : m.revision = n).digest

History == INSTANCE TranscriptHistory WITH
    exists <- snapshot.present,
    revision <- snapshot.revision,
    content <- [n \in 0 .. snapshot.revision |-> ContentAt(n)]

\* The store implements the history: one linear sequence of edits.
ImplementsHistory == History!Spec
=============================================================================
