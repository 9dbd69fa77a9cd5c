---------------------------- MODULE ArtifactStore ----------------------------
(***************************************************************************)
(* Publication of immutable objects (infrastructure/artifacts/store.py)    *)
(* and their catalog rows (record_artifact of the project database).       *)
(* Publishers are threads; those of one store instance share its lock,     *)
(* and an instance dies with its process.  Of the file system is kept      *)
(* which names exist, what a reader finds under them, and which of that a  *)
(* power failure may take back: a file's bytes until the file is fsynced,  *)
(* a name until its directory is.                                          *)
(***************************************************************************)
EXTENDS Naturals, FiniteSets

CONSTANTS
    Publishers,
    Digests,
    Prefixes,
    Tokens,         \* bound: stage files in one behaviour
    Stores,
    PrefixOf,       \* PrefixOf[d]: the directory sha256/<d[:2]>
    StoreOf,        \* StoreOf[p]: the store instance publisher p uses
    Prepared,       \* directories that exist, durably, from the start
    MaxBlackouts,   \* bound: power failures in one behaviour
    None

ASSUME StoreConstants ==
    /\ PrefixOf \in [Digests -> Prefixes]
    /\ StoreOf \in [Publishers -> Stores]
    /\ Prepared \subseteq Prefixes
    /\ MaxBlackouts \in Nat
    /\ None \notin Publishers \cup Digests \cup Tokens

VARIABLES
    prefix,     \* prefix[x], entry[d]: does the name exist, and is it durable?
    entry,
    bytes,      \* bytes[d]: what is behind the name of object d
    stages,     \* stages[t]: what is in .staging under token t
    expired,    \* stages older than the reconciler's cutoff
    gate,       \* gate[s]: who is inside the _publish_lock of store s
    pc,         \* where publisher p stands
    token,      \* its stage
    want,       \* the digest of its content
    recorded,   \* digests named by committed artifact rows
    blackouts   \* power failures so far

names == <<prefix, entry>>
files == <<names, bytes, stages, expired>>
publisher == <<pc, token, want>>
vars == <<files, gate, publisher, recorded, blackouts>>

Names == {"absent", "volatile", "durable"}
Sites == {"idle", "writing", "staged", "hashed", "parented", "locked", "linking",
          "linked", "unlinking", "finishing", "published"}
Inside == {"locked", "linking", "linked", "unlinking", "finishing"}

\* A project starts with an empty store, or one in which an object has rotted.
Init ==
    /\ prefix = [x \in Prefixes |-> IF x \in Prepared THEN "durable" ELSE "absent"]
    /\ \E rotten \in SUBSET {d \in Digests : PrefixOf[d] \in Prepared} :
         /\ entry = [d \in Digests |-> IF d \in rotten THEN "durable" ELSE "absent"]
         /\ bytes = [d \in Digests |-> IF d \in rotten THEN "damaged" ELSE "none"]
    /\ stages = [t \in Tokens |-> "unused"]
    /\ expired = {}
    /\ gate = [s \in Stores |-> None]
    /\ pc = [p \in Publishers |-> "idle"]
    /\ token = [p \in Publishers |-> None]
    /\ want = [p \in Publishers |-> None]
    /\ recorded = {}
    /\ blackouts = 0

Exists(d) == entry[d] # "absent"
MyStage(p) == stages[token[p]]
Goto(p, site) == pc' = [pc EXCEPT ![p] = site] /\ UNCHANGED <<token, want>>

\* Mutant: an exception keeps the publish lock.
RaiseLocked(p) ==
    /\ pc' = [pc EXCEPT ![p] = "idle"]
    /\ token' = [token EXCEPT ![p] = None]
    /\ want' = [want EXCEPT ![p] = None]
    /\ UNCHANGED gate

\* An exception ends the call; the lock goes with the block, and a stage
\* that is not cleaned up stays behind.
Raise(p) ==
    /\ pc' = [pc EXCEPT ![p] = "idle"]
    /\ token' = [token EXCEPT ![p] = None]
    /\ want' = [want EXCEPT ![p] = None]
    /\ gate' = [s \in Stores |-> IF gate[s] = p THEN None ELSE gate[s]]

-----------------------------------------------------------------------------
(* stage(): a new file, written and fsynced. *)

StageBegin(p, d, t) ==
    /\ pc[p] = "idle"
    /\ stages[t] = "unused"
    /\ stages' = [stages EXCEPT ![t] = "partial"]
    /\ pc' = [pc EXCEPT ![p] = "writing"]
    /\ token' = [token EXCEPT ![p] = t]
    /\ want' = [want EXCEPT ![p] = d]
    /\ UNCHANGED <<names, bytes, expired, gate, recorded, blackouts>>

\* Mutant: the stage is complete but not fsynced.
StageFinishUnsynced(p) ==
    /\ pc[p] = "writing"
    /\ stages' = [stages EXCEPT ![token[p]] = IF @ = "partial" THEN "unsynced" ELSE @]
    /\ Goto(p, "staged")
    /\ UNCHANGED <<names, bytes, expired, gate, recorded, blackouts>>

\* A name the reconciler took away meanwhile leaves the open file nameless.
StageFinish(p) ==
    /\ pc[p] = "writing"
    /\ stages' = [stages EXCEPT ![token[p]] = IF @ = "partial" THEN "synced" ELSE @]
    /\ Goto(p, "staged")
    /\ UNCHANGED <<names, bytes, expired, gate, recorded, blackouts>>

\* The source cannot be read, or is not as long as announced: the cleanup
\* removes the stage.
StageFails(p) ==
    /\ pc[p] = "writing"
    /\ stages' = [stages EXCEPT ![token[p]] = "gone"]
    /\ Raise(p)
    /\ UNCHANGED <<names, bytes, expired, recorded, blackouts>>

\* discard_stage().
Discard(p) ==
    /\ pc[p] = "staged"
    /\ MyStage(p) # "gone"
    /\ stages' = [stages EXCEPT ![token[p]] = "gone"]
    /\ Raise(p)
    /\ UNCHANGED <<names, bytes, expired, recorded, blackouts>>

-----------------------------------------------------------------------------
(* publish() *)

\* The stage is looked up and hashed; it may be gone, or not what was
\* announced.
PublishHash(p) ==
    /\ pc[p] = "staged"
    /\ \/ MyStage(p) # "gone" /\ Goto(p, "hashed") /\ UNCHANGED gate
       \/ Raise(p)
    /\ UNCHANGED <<files, recorded, blackouts>>

\* _object_path(create_parent=True): mkdir, which nothing fsyncs.
PublishParent(p) ==
    /\ pc[p] = "hashed"
    /\ LET x == PrefixOf[want[p]] IN
         prefix' = [prefix EXCEPT ![x] = IF @ = "absent" THEN "volatile" ELSE @]
    /\ Goto(p, "parented")
    /\ UNCHANGED <<entry, bytes, stages, expired, gate, recorded, blackouts>>

PublishLock(p) ==
    /\ pc[p] = "parented"
    /\ gate[StoreOf[p]] = None
    /\ gate' = [gate EXCEPT ![StoreOf[p]] = p]
    /\ Goto(p, "locked")
    /\ UNCHANGED <<files, recorded, blackouts>>

Whole(d) == bytes[d] \in {"synced", "unsynced"}

\* Mutant: an object that exists is taken as it is.
DeduplicateTrusting(p) == Goto(p, "unlinking") /\ UNCHANGED gate

\* _assert_existing_object: only a whole object stands in for the stage.
Deduplicate(p) ==
    \/ Whole(want[p]) /\ Goto(p, "unlinking") /\ UNCHANGED gate
    \/ ~Whole(want[p]) /\ Raise(p)

PublishLook(p) ==
    /\ pc[p] = "locked"
    /\ \/ Exists(want[p]) /\ Deduplicate(p)
       \/ ~Exists(want[p]) /\ Goto(p, "linking") /\ UNCHANGED gate
    /\ UNCHANGED <<files, recorded, blackouts>>

\* os.link: never over an existing name.
PublishLink(p) ==
    /\ pc[p] = "linking"
    /\ \/ /\ MyStage(p) = "gone"
          /\ Raise(p)
          /\ UNCHANGED <<entry, bytes>>
       \/ /\ MyStage(p) # "gone" /\ Exists(want[p])
          /\ Deduplicate(p)
          /\ UNCHANGED <<entry, bytes>>
       \/ /\ MyStage(p) # "gone" /\ ~Exists(want[p])
          /\ entry' = [entry EXCEPT ![want[p]] = "volatile"]
          /\ bytes' = [bytes EXCEPT ![want[p]] = MyStage(p)]
          /\ Goto(p, "linked")
          /\ UNCHANGED gate
    /\ UNCHANGED <<prefix, stages, expired, recorded, blackouts>>

SyncedIn(x) == [d \in Digests |->
    IF PrefixOf[d] = x /\ Exists(d) THEN "durable" ELSE entry[d]]

\* _fsync_directory(target.parent); it can fail, and the object stays.
PublishSync(p) ==
    /\ pc[p] = "linked"
    /\ \/ entry' = SyncedIn(PrefixOf[want[p]]) /\ Goto(p, "unlinking") /\ UNCHANGED gate
       \/ Raise(p) /\ UNCHANGED entry
    /\ UNCHANGED <<prefix, bytes, stages, expired, recorded, blackouts>>

PublishUnlink(p) ==
    /\ pc[p] = "unlinking"
    /\ \/ MyStage(p) = "gone" /\ Raise(p) /\ UNCHANGED stages
       \/ /\ MyStage(p) # "gone"
          /\ stages' = [stages EXCEPT ![token[p]] = "gone"]
          /\ Goto(p, "finishing")
          /\ UNCHANGED gate
    /\ UNCHANGED <<names, bytes, expired, recorded, blackouts>>

\* chmod, fsync of .staging, and the end of the block.
PublishReturn(p) ==
    /\ pc[p] = "finishing"
    /\ \/ gate' = [gate EXCEPT ![StoreOf[p]] = None] /\ Goto(p, "published")
       \/ Raise(p)
    /\ UNCHANGED <<files, recorded, blackouts>>

\* Mutant: the row is committed before the object is linked.
RecordFirst(p) ==
    /\ pc[p] = "hashed"
    /\ recorded' = recorded \cup {want[p]}
    /\ Goto(p, "staged")
    /\ UNCHANGED <<files, gate, blackouts>>

\* The caller's record_artifact(): the transaction commits, or it fails and
\* the object is an orphan.
Record(p) ==
    /\ pc[p] = "published"
    /\ recorded' \in {recorded, recorded \cup {want[p]}}
    /\ Raise(p)
    /\ UNCHANGED <<files, blackouts>>

-----------------------------------------------------------------------------
(* The reconciler and failures. *)

Age(t) ==
    /\ stages[t] \notin {"unused", "gone"}
    /\ t \notin expired
    /\ expired' = expired \cup {t}
    /\ UNCHANGED <<names, bytes, stages, gate, publisher, recorded, blackouts>>

\* _reconcile_stages of any process that opens the project: one expired
\* stage file after the other, whoever uses it.
RemoveStage(t) ==
    /\ t \in expired
    /\ stages[t] # "gone"
    /\ stages' = [stages EXCEPT ![t] = "gone"]
    /\ UNCHANGED <<names, bytes, expired, gate, publisher, recorded, blackouts>>

Forget(ps) ==
    /\ pc' = [p \in Publishers |-> IF p \in ps THEN "idle" ELSE pc[p]]
    /\ token' = [p \in Publishers |-> IF p \in ps THEN None ELSE token[p]]
    /\ want' = [p \in Publishers |-> IF p \in ps THEN None ELSE want[p]]
    /\ gate' = [s \in Stores |-> IF gate[s] \in ps THEN None ELSE gate[s]]

ProcessDies(s) ==
    /\ \E p \in Publishers : StoreOf[p] = s /\ pc[p] # "idle"
    /\ Forget({p \in Publishers : StoreOf[p] = s})
    /\ UNCHANGED <<files, recorded, blackouts>>

\* Any volatile name may be gone afterwards, with all below it; bytes that
\* were never fsynced may be torn.  A committed row stays (synchronous=FULL).
PowerFailure ==
    /\ blackouts < MaxBlackouts
    /\ blackouts' = blackouts + 1
    /\ \E lostDirs \in SUBSET {x \in Prefixes : prefix[x] = "volatile"},
          lostNames \in SUBSET {d \in Digests : entry[d] = "volatile"} :
         LET lost == lostNames \cup {d \in Digests : PrefixOf[d] \in lostDirs} IN
         /\ prefix' = [x \in Prefixes |->
              IF x \in lostDirs THEN "absent" ELSE
              IF prefix[x] = "absent" THEN "absent" ELSE "durable"]
         /\ entry' = [d \in Digests |->
              IF d \in lost \/ ~Exists(d) THEN "absent" ELSE "durable"]
         /\ bytes' = [d \in Digests |->
              IF d \in lost THEN "none" ELSE
              IF bytes[d] = "unsynced" THEN "damaged" ELSE bytes[d]]
    /\ Forget(Publishers)
    /\ UNCHANGED <<stages, expired, recorded>>

Next ==
    \/ \E p \in Publishers :
        \/ \E d \in Digests, t \in Tokens : StageBegin(p, d, t)
        \/ StageFinish(p) \/ StageFails(p) \/ Discard(p)
        \/ PublishHash(p) \/ PublishParent(p) \/ PublishLock(p) \/ PublishLook(p)
        \/ PublishLink(p) \/ PublishSync(p) \/ PublishUnlink(p) \/ PublishReturn(p)
        \/ Record(p)
    \/ \E t \in Tokens : Age(t) \/ RemoveStage(t)
    \/ \E s \in Stores : ProcessDies(s)
    \/ PowerFailure

Spec == Init /\ [][Next]_vars

-----------------------------------------------------------------------------

TypeOK ==
    /\ prefix \in [Prefixes -> Names]
    /\ entry \in [Digests -> Names]
    /\ bytes \in [Digests -> {"none", "unsynced", "synced", "damaged"}]
    /\ stages \in [Tokens -> {"unused", "partial", "unsynced", "synced", "gone"}]
    /\ expired \subseteq Tokens
    /\ gate \in [Stores -> Publishers \cup {None}]
    /\ pc \in [Publishers -> Sites]
    /\ token \in [Publishers -> Tokens \cup {None}]
    /\ want \in [Publishers -> Digests \cup {None}]
    /\ recorded \subseteq Digests
    /\ blackouts \in 0..MaxBlackouts
    /\ \A p \in Publishers :
        /\ pc[p] = "idle" <=> token[p] = None
        /\ pc[p] = "idle" <=> want[p] = None
        /\ \A s \in Stores : gate[s] = p <=> s = StoreOf[p] /\ pc[p] \in Inside

\* "Partial output must never look complete" (ADR-002): every object but one
\* that was damaged from the start is whole under its name, through process
\* and power failures, and whatever the reconciler removes meanwhile.
NoTornObject == [][\A d \in Digests : bytes'[d] = "damaged" => bytes[d] = "damaged"]_vars

\* A committed artifact row names an object that is there and whole: publish
\* came first, an existing object is validated before it stands in for a
\* stage, and nothing but a power failure takes the object back, as a whole
\* and never in part (store.py publish).
RecordedIsThere ==
    \A d \in recorded :
        /\ blackouts = 0 => Exists(d)
        /\ Exists(d) => bytes[d] = "synced"

\* Processes may die at any point, and the machine: the store still does what
\* module ArtifactCatalog says.  Objects become visible at the link, at once
\* and for good, but for what a power failure takes back; rows are committed
\* for visible objects only.
Catalog == INSTANCE ArtifactCatalog WITH visible <- {d \in Digests : Exists(d)}
ImplementsCatalog == Catalog!Spec

\* ADR-002, failure boundaries: "After DB commit, before success event |
\* Catalog and object are complete", of a power failure as well.
CompleteAfterCommit == \A d \in recorded : Exists(d)
=============================================================================
