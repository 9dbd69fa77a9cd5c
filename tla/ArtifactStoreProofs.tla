-------------------------- MODULE ArtifactStoreProofs --------------------------
(***************************************************************************)
(* Proofs about module ArtifactStore, for any publishers, store instances, *)
(* objects and directories and any number of power failures: what a name   *)
(* shows is whole, what a row names is there, and the store implements     *)
(* module ArtifactCatalog.                                                 *)
(***************************************************************************)
EXTENDS ArtifactStore, TLAPS

-----------------------------------------------------------------------------
(* The inductive invariant.                                                *)

\* A stage belongs to one call, which has it fsynced before it goes on.
StagesBelong ==
    /\ \A p, q \in Publishers : token[p] = token[q] /\ token[p] # None => p = q
    /\ \A p \in Publishers : token[p] # None =>
        MyStage(p) \in {"gone", IF pc[p] = "writing" THEN "partial" ELSE "synced"}

\* A name shows bytes, and they were fsynced or damaged from the start.
NamesShowBytes ==
    \A d \in Digests :
        /\ Exists(d) <=> bytes[d] # "none"
        /\ bytes[d] # "unsynced"

\* A call that has linked its object, or found it, can rely on it.
PublishedIsThere ==
    \A p \in Publishers : pc[p] \in {"linked", "unlinking", "finishing", "published"} =>
        Exists(want[p]) /\ bytes[want[p]] = "synced"

StoreInvariant ==
    TypeOK /\ StagesBelong /\ NamesShowBytes /\ PublishedIsThere /\ RecordedIsThere

\* The store is empty in the beginning, but for what has rotted.
LEMMA StoreInit == Init => StoreInvariant
<1> SUFFICES ASSUME Init PROVE StoreInvariant
  OBVIOUS
<1> USE StoreConstants DEF Init
<1>1. TypeOK
  BY DEF TypeOK, Names, Sites, Inside
<1>2. StagesBelong /\ PublishedIsThere /\ RecordedIsThere
  BY DEF StagesBelong, PublishedIsThere, RecordedIsThere
<1>3. NamesShowBytes
  BY DEF NamesShowBytes, Exists
<1> QED
  BY <1>1, <1>2, <1>3 DEF StoreInvariant

-----------------------------------------------------------------------------
(* What becomes of the calls.                                              *)

\* A call that raises, or moves on by one site, and the lock.
CallsTyped ==
    /\ gate \in [Stores -> Publishers \cup {None}]
    /\ pc \in [Publishers -> Sites]
    /\ token \in [Publishers -> Tokens \cup {None}]
    /\ want \in [Publishers -> Digests \cup {None}]
    /\ \A p \in Publishers :
        /\ pc[p] = "idle" <=> token[p] = None
        /\ pc[p] = "idle" <=> want[p] = None
        /\ \A s \in Stores : gate[s] = p <=> s = StoreOf[p] /\ pc[p] \in Inside

\* The calls keep their types: a call inside a publish block has the lock of
\* its instance, and nobody else.
LEMMA RaiseTyped ==
    ASSUME CallsTyped, NEW p \in Publishers, Raise(p)
    PROVE  CallsTyped'
BY StoreConstants DEF CallsTyped, Raise, Sites, Inside

\* A call goes on to its next site.
LEMMA GotoTyped ==
    ASSUME CallsTyped, NEW p \in Publishers, NEW site \in Sites \ {"idle"}, Goto(p, site),
           pc[p] # "idle", UNCHANGED gate, pc[p] \in Inside <=> site \in Inside
    PROVE  CallsTyped'
BY StoreConstants DEF CallsTyped, Goto

\* The calls of a process that ends are forgotten.
LEMMA ForgetTyped ==
    ASSUME CallsTyped, NEW ps \in SUBSET Publishers, Forget(ps)
    PROVE  CallsTyped'
BY StoreConstants DEF CallsTyped, Forget, Sites, Inside

\* What Raise and Forget leave: the calls that go on are as they were.
LEMMA RaiseFreezes ==
    ASSUME CallsTyped, NEW p \in Publishers, Raise(p)
    PROVE  \A q \in Publishers : /\ q = p => pc'[q] = "idle" /\ token'[q] = None
                                 /\ q # p => /\ pc'[q] = pc[q] /\ token'[q] = token[q]
                                             /\ want'[q] = want[q]
BY DEF CallsTyped, Raise

\* A call that moves on keeps its stage and its digest.
LEMMA GotoFreezes ==
    ASSUME CallsTyped, NEW p \in Publishers, NEW site, Goto(p, site)
    PROVE  /\ pc' = [pc EXCEPT ![p] = site] /\ token' = token /\ want' = want
           /\ pc'[p] = site /\ \A q \in Publishers : q # p => pc'[q] = pc[q]
BY DEF CallsTyped, Goto

\* TypeOK is about the files and the calls.
FilesTyped ==
    /\ prefix \in [Prefixes -> Names]
    /\ entry \in [Digests -> Names]
    /\ bytes \in [Digests -> {"none", "unsynced", "synced", "damaged"}]
    /\ stages \in [Tokens -> {"unused", "partial", "unsynced", "synced", "gone"}]
    /\ expired \subseteq Tokens
    /\ recorded \subseteq Digests
    /\ blackouts \in 0..MaxBlackouts

\* The types are those of the files and those of the calls.
LEMMA TypesAreTwo == (TypeOK <=> FilesTyped /\ CallsTyped) /\ (TypeOK' <=> FilesTyped' /\ CallsTyped')
BY DEF TypeOK, FilesTyped, CallsTyped

\* A call that has begun has a stage and a digest.
LEMMA CallHasStage ==
    ASSUME TypeOK, NEW p \in Publishers, pc[p] # "idle"
    PROVE  token[p] \in Tokens /\ want[p] \in Digests
BY DEF TypeOK

-----------------------------------------------------------------------------
(* Each operation keeps the invariant.                                     *)

\* A call that raises leaves names, bytes and rows alone; the stage it gives
\* up is no call's any more.
LEMMA RaiseKeeps ==
    ASSUME StoreInvariant, NEW p \in Publishers, pc[p] # "idle", Raise(p),
           UNCHANGED <<names, bytes, expired, blackouts>>,
           stages' = stages \/ stages' = [stages EXCEPT ![token[p]] = "gone"],
           recorded' \in {recorded} \cup {recorded \cup {d} : d \in {want[q] : q \in
                {q \in Publishers : pc[q] = "published"}}}
    PROVE  StoreInvariant'
<1> USE DEF StoreInvariant, names
<1>1. CallsTyped /\ CallsTyped' /\ token[p] \in Tokens
  BY RaiseTyped, CallHasStage, TypesAreTwo
<1>2. \A q \in Publishers : /\ q = p => pc'[q] = "idle" /\ token'[q] = None
                            /\ q # p => /\ pc'[q] = pc[q] /\ token'[q] = token[q]
                                        /\ want'[q] = want[q]
  BY <1>1, RaiseFreezes
<1>3. recorded' \subseteq Digests
  BY CallHasStage DEF TypeOK
<1>4. FilesTyped'
  BY <1>1, <1>3, TypesAreTwo DEF FilesTyped
<1>5. StagesBelong'
  <2>1. \A q \in Publishers : q # p /\ token[q] # None =>
          token[q] \in Tokens /\ stages'[token[q]] = stages[token[q]]
    BY <1>1, TypesAreTwo DEF StagesBelong, FilesTyped, CallsTyped
  <2> QED
    BY <1>2, <2>1 DEF StagesBelong, MyStage
<1>6. NamesShowBytes'
  BY DEF NamesShowBytes, Exists
<1>7. PublishedIsThere'
  BY <1>2 DEF PublishedIsThere, Exists
<1>8. RecordedIsThere'
  BY DEF RecordedIsThere, PublishedIsThere, Exists
<1> QED
  BY <1>1, <1>4, <1>5, <1>6, <1>7, <1>8, TypesAreTwo

\* A call that moves on before its object is there, or behind it.
LEMMA MoveKeeps ==
    ASSUME StoreInvariant, NEW p \in Publishers, pc[p] \notin {"idle", "writing"},
           NEW site \in Sites \ {"idle", "writing"}, Goto(p, site), CallsTyped',
           UNCHANGED <<entry, bytes, expired, recorded, blackouts>>,
           prefix' \in [Prefixes -> Names],
           stages' = stages \/ stages' = [stages EXCEPT ![token[p]] = "gone"],
           site \in {"linked", "unlinking", "finishing", "published"} =>
              Exists(want[p]) /\ bytes[want[p]] = "synced"
    PROVE  StoreInvariant'
<1> USE DEF StoreInvariant
<1>1. CallsTyped /\ token[p] \in Tokens /\ want[p] \in Digests
  BY CallHasStage, TypesAreTwo
<1>2. /\ token' = token /\ want' = want
      /\ pc'[p] = site /\ \A q \in Publishers : q # p => pc'[q] = pc[q]
  BY <1>1, GotoFreezes
<1>3. FilesTyped'
  BY <1>1, TypesAreTwo DEF FilesTyped
<1>4. StagesBelong'
  <2>1. \A q \in Publishers : q # p /\ token[q] # None =>
          token[q] \in Tokens /\ stages'[token[q]] = stages[token[q]]
    BY <1>1, TypesAreTwo DEF StagesBelong, FilesTyped, CallsTyped
  <2>2. stages'[token[p]] \in {"gone", "synced"}
    BY <1>1, TypesAreTwo, StoreConstants DEF StagesBelong, MyStage, FilesTyped
  <2> QED
    BY <1>2, <2>1, <2>2 DEF StagesBelong, MyStage
<1>5. NamesShowBytes' /\ RecordedIsThere'
  BY DEF NamesShowBytes, RecordedIsThere, Exists
<1>6. PublishedIsThere'
  BY <1>2 DEF PublishedIsThere, Exists
<1> QED
  BY <1>3, <1>4, <1>5, <1>6, TypesAreTwo

\* A call takes an unused stage: no other call has it.
LEMMA StageBeginKeeps ==
    ASSUME StoreInvariant, NEW p \in Publishers, NEW d \in Digests, NEW t \in Tokens,
           StageBegin(p, d, t)
    PROVE  StoreInvariant'
<1> USE StoreConstants DEF StoreInvariant, StageBegin, names
<1>1. CallsTyped' /\ FilesTyped'
  BY TypesAreTwo DEF CallsTyped, FilesTyped, Sites, Inside
<1>2. \A q \in Publishers : token[q] # t
  BY DEF StagesBelong, MyStage
<1>3. StagesBelong'
  BY <1>2, TypesAreTwo DEF StagesBelong, MyStage, CallsTyped, FilesTyped
<1>4. NamesShowBytes' /\ RecordedIsThere' /\ PublishedIsThere'
  BY TypesAreTwo DEF NamesShowBytes, RecordedIsThere, PublishedIsThere, Exists, CallsTyped
<1> QED
  BY <1>1, <1>3, <1>4, TypesAreTwo

\* A stage that is complete has been fsynced.
LEMMA StageFinishKeeps ==
    ASSUME StoreInvariant, NEW p \in Publishers, StageFinish(p)
    PROVE  StoreInvariant'
<1> USE StoreConstants DEF StoreInvariant, StageFinish, names
<1>1. CallsTyped /\ token[p] \in Tokens
  BY CallHasStage, TypesAreTwo
<1>2. CallsTyped'
  BY <1>1, GotoTyped DEF Sites, Inside
<1>3. FilesTyped'
  BY <1>1, TypesAreTwo DEF FilesTyped
<1>4. /\ token' = token /\ want' = want
      /\ pc'[p] = "staged" /\ \A q \in Publishers : q # p => pc'[q] = pc[q]
  BY <1>1, GotoFreezes
<1>5. StagesBelong'
  <2>1. \A q \in Publishers : q # p /\ token[q] # None =>
          token[q] \in Tokens /\ stages'[token[q]] = stages[token[q]]
    BY <1>1, TypesAreTwo DEF StagesBelong, FilesTyped, CallsTyped
  <2>2. stages'[token[p]] \in {"gone", "synced"}
    BY <1>1, TypesAreTwo DEF StagesBelong, MyStage, FilesTyped
  <2> QED
    BY <1>4, <2>1, <2>2 DEF StagesBelong, MyStage
<1>6. NamesShowBytes' /\ RecordedIsThere' /\ PublishedIsThere'
  BY <1>4 DEF NamesShowBytes, RecordedIsThere, PublishedIsThere, Exists
<1> QED
  BY <1>2, <1>3, <1>5, <1>6, TypesAreTwo

\* An object that exists stands in for the stage only when it is whole.
LEMMA DeduplicateKeeps ==
    ASSUME StoreInvariant, NEW p \in Publishers, pc[p] \in {"locked", "linking"},
           Exists(want[p]), Deduplicate(p), UNCHANGED <<files, recorded, blackouts>>
    PROVE  StoreInvariant'
<1>0. token[p] \in Tokens /\ want[p] \in Digests /\ CallsTyped
  BY CallHasStage, TypesAreTwo DEF StoreInvariant
<1>1. CASE Whole(want[p]) /\ Goto(p, "unlinking") /\ UNCHANGED gate
  <2>1. bytes[want[p]] = "synced"
    BY <1>0, <1>1 DEF Whole, StoreInvariant, NamesShowBytes
  <2>2. CallsTyped'
    BY <1>0, <1>1, GotoTyped DEF Sites, Inside
  <2>3. prefix' \in [Prefixes -> Names]
    BY DEF files, names, StoreInvariant, TypeOK
  <2> QED
    BY <1>1, <2>1, <2>2, <2>3, MoveKeeps DEF files, names, Sites
<1>2. CASE Raise(p)
  BY <1>2, RaiseKeeps DEF files
<1> QED
  BY <1>1, <1>2 DEF Deduplicate

\* The object gets its name: the stage is fsynced, and nobody's object is
\* replaced.
LEMMA LinkKeeps ==
    ASSUME StoreInvariant, NEW p \in Publishers, PublishLink(p)
    PROVE  StoreInvariant'
<1> USE StoreConstants
<1>0. token[p] \in Tokens /\ want[p] \in Digests /\ CallsTyped /\ pc[p] = "linking"
  BY CallHasStage, TypesAreTwo DEF StoreInvariant, PublishLink
<1>1. CASE MyStage(p) = "gone"
  BY <1>0, <1>1, RaiseKeeps DEF PublishLink, names
<1>2. CASE MyStage(p) # "gone" /\ Exists(want[p])
  BY <1>0, <1>2, DeduplicateKeeps DEF PublishLink, files, names
<1>3. CASE MyStage(p) # "gone" /\ ~Exists(want[p])
  <2>0. /\ entry' = [entry EXCEPT ![want[p]] = "volatile"]
        /\ bytes' = [bytes EXCEPT ![want[p]] = MyStage(p)]
        /\ Goto(p, "linked")
        /\ UNCHANGED <<gate, prefix, stages, expired, recorded, blackouts>>
    BY <1>3 DEF PublishLink
  <2>1. MyStage(p) = "synced"
    BY <1>0, <1>3 DEF StoreInvariant, StagesBelong
  <2>2. CallsTyped'
    BY <1>0, <2>0, GotoTyped DEF Sites, Inside
  <2>3. FilesTyped'
    BY <2>0, <2>1, TypesAreTwo DEF FilesTyped, Names, StoreInvariant
  <2>4. /\ token' = token /\ want' = want
        /\ pc'[p] = "linked" /\ \A q \in Publishers : q # p => pc'[q] = pc[q]
    BY <1>0, <2>0, GotoFreezes
  <2>5. /\ entry'[want[p]] = "volatile" /\ bytes'[want[p]] = "synced"
        /\ \A d \in Digests : d # want[p] => entry'[d] = entry[d] /\ bytes'[d] = bytes[d]
        /\ entry[want[p]] = "absent"
    BY <1>0, <1>3, <2>0, <2>1, TypesAreTwo DEF FilesTyped, StoreInvariant, Exists
  <2>6. StagesBelong'
    BY <1>0, <2>0, <2>4 DEF StoreInvariant, StagesBelong, MyStage
  <2>7. NamesShowBytes'
    BY <2>5 DEF StoreInvariant, NamesShowBytes, Exists
  <2>8. PublishedIsThere'
    <3>1. \A q \in Publishers : pc[q] # "idle" => want[q] \in Digests
      BY CallHasStage DEF StoreInvariant
    <3> QED
      BY <2>4, <2>5, <3>1 DEF StoreInvariant, PublishedIsThere, Exists
  <2>9. RecordedIsThere'
    BY <2>0, <2>5, TypesAreTwo DEF StoreInvariant, RecordedIsThere, Exists, FilesTyped
  <2> QED
    BY <2>2, <2>3, <2>6, <2>7, <2>8, <2>9, TypesAreTwo DEF StoreInvariant
<1> QED
  BY <1>1, <1>2, <1>3

\* Names that become durable are names that were there.
LEMMA SyncKeeps ==
    ASSUME StoreInvariant, NEW p \in Publishers, PublishSync(p)
    PROVE  StoreInvariant'
<1>0. token[p] \in Tokens /\ want[p] \in Digests /\ CallsTyped /\ pc[p] = "linked"
  BY CallHasStage, TypesAreTwo DEF StoreInvariant, PublishSync
<1>1. CASE Raise(p) /\ UNCHANGED entry
  BY <1>0, <1>1, RaiseKeeps DEF PublishSync, names
<1>2. CASE entry' = SyncedIn(PrefixOf[want[p]]) /\ Goto(p, "unlinking") /\ UNCHANGED gate
  <2>0. UNCHANGED <<prefix, bytes, stages, expired, recorded, blackouts>>
    BY DEF PublishSync
  <2>1. CallsTyped'
    BY <1>0, <1>2, GotoTyped DEF Sites, Inside
  <2>2. entry' \in [Digests -> Names] /\ \A d \in Digests : Exists(d)' <=> Exists(d)
    BY <1>2, TypesAreTwo DEF StoreInvariant, FilesTyped, SyncedIn, Names, Exists
  <2>3. /\ token' = token /\ want' = want
        /\ pc'[p] = "unlinking" /\ \A q \in Publishers : q # p => pc'[q] = pc[q]
    BY <1>0, <1>2, GotoFreezes
  <2>4. FilesTyped'
    BY <2>0, <2>2, TypesAreTwo DEF StoreInvariant, FilesTyped
  <2>5. StagesBelong'
    BY <1>0, <2>0, <2>3 DEF StoreInvariant, StagesBelong, MyStage
  <2>6. NamesShowBytes'
    BY <2>0, <2>2 DEF StoreInvariant, NamesShowBytes
  <2>7. PublishedIsThere'
    <3>1. \A q \in Publishers : pc[q] # "idle" => want[q] \in Digests
      BY CallHasStage DEF StoreInvariant
    <3>2. ASSUME NEW q \in Publishers,
                 pc'[q] \in {"linked", "unlinking", "finishing", "published"}
          PROVE  want[q] \in Digests /\ Exists(want[q]) /\ bytes[want[q]] = "synced"
      BY <1>0, <2>3, <3>1, <3>2 DEF StoreInvariant, PublishedIsThere
    <3>3. \A q \in Publishers : want'[q] = want[q]
      BY <2>3
    <3>4. ASSUME NEW q \in Publishers,
                 pc'[q] \in {"linked", "unlinking", "finishing", "published"}
          PROVE  entry'[want'[q]] # "absent" /\ bytes'[want'[q]] = "synced"
      BY <2>0, <2>2, <3>2, <3>3, <3>4 DEF Exists
    <3> QED
      BY <3>4 DEF PublishedIsThere, Exists
  <2>8. RecordedIsThere'
    BY <2>0, <2>2, TypesAreTwo DEF StoreInvariant, RecordedIsThere, FilesTyped
  <2> QED
    BY <2>1, <2>4, <2>5, <2>6, <2>7, <2>8, TypesAreTwo DEF StoreInvariant
<1> QED
  BY <1>1, <1>2 DEF PublishSync

\* The reconciler takes away stages and nothing else.
LEMMA ReconcilerKeeps ==
    ASSUME StoreInvariant, NEW t \in Tokens, Age(t) \/ RemoveStage(t)
    PROVE  StoreInvariant'
<1> USE DEF StoreInvariant
<1>0. /\ UNCHANGED <<prefix, entry, bytes, gate, pc, token, want, recorded, blackouts>>
      /\ expired' \subseteq Tokens
      /\ stages' = stages \/ stages' = [stages EXCEPT ![t] = "gone"]
  BY DEF Age, RemoveStage, names, publisher, TypeOK
<1>1. FilesTyped' /\ CallsTyped'
  BY <1>0, TypesAreTwo DEF FilesTyped, CallsTyped
<1>2. StagesBelong'
  BY <1>0, TypesAreTwo, CallHasStage DEF StagesBelong, MyStage, FilesTyped, CallsTyped
<1>3. NamesShowBytes' /\ RecordedIsThere' /\ PublishedIsThere'
  BY <1>0 DEF NamesShowBytes, RecordedIsThere, PublishedIsThere, Exists
<1> QED
  BY <1>1, <1>2, <1>3, TypesAreTwo

\* A process dies with its calls; what they staged and linked stays.
LEMMA DeathKeeps ==
    ASSUME StoreInvariant, NEW s \in Stores, ProcessDies(s)
    PROVE  StoreInvariant'
<1> USE DEF StoreInvariant
<1> DEFINE ps == {p \in Publishers : StoreOf[p] = s}
<1>0. Forget(ps) /\ UNCHANGED <<prefix, entry, bytes, stages, expired, recorded, blackouts>>
  BY DEF ProcessDies, files, names
<1>1. CallsTyped' /\ FilesTyped'
  BY <1>0, ForgetTyped, TypesAreTwo DEF FilesTyped
<1>2. \A q \in Publishers : IF q \in ps THEN pc'[q] = "idle" /\ token'[q] = None
                            ELSE pc'[q] = pc[q] /\ token'[q] = token[q] /\ want'[q] = want[q]
  BY <1>0 DEF Forget
<1>3. StagesBelong'
  BY <1>0, <1>2 DEF StagesBelong, MyStage
<1>4. NamesShowBytes' /\ RecordedIsThere' /\ PublishedIsThere'
  BY <1>0, <1>2 DEF NamesShowBytes, RecordedIsThere, PublishedIsThere, Exists
<1> QED
  BY <1>1, <1>3, <1>4, TypesAreTwo

\* A power failure takes volatile names and all calls; what is left of the
\* objects is whole, since every name that is there was given to fsynced bytes.
LEMMA PowerFailureKeeps ==
    ASSUME StoreInvariant, PowerFailure
    PROVE  StoreInvariant'
<1> USE StoreConstants DEF StoreInvariant
<1>1. PICK lostDirs \in SUBSET {x \in Prefixes : prefix[x] = "volatile"},
           lost \in SUBSET Digests :
        /\ prefix' = [x \in Prefixes |->
             IF x \in lostDirs THEN "absent" ELSE
             IF prefix[x] = "absent" THEN "absent" ELSE "durable"]
        /\ entry' = [d \in Digests |->
             IF d \in lost \/ ~Exists(d) THEN "absent" ELSE "durable"]
        /\ bytes' = [d \in Digests |->
             IF d \in lost THEN "none" ELSE
             IF bytes[d] = "unsynced" THEN "damaged" ELSE bytes[d]]
  <2>1. PICK lostDirs \in SUBSET {x \in Prefixes : prefix[x] = "volatile"},
             lostNames \in SUBSET {d \in Digests : entry[d] = "volatile"} :
         LET lost == lostNames \cup {d \in Digests : PrefixOf[d] \in lostDirs} IN
         /\ prefix' = [x \in Prefixes |->
              IF x \in lostDirs THEN "absent" ELSE
              IF prefix[x] = "absent" THEN "absent" ELSE "durable"]
         /\ entry' = [d \in Digests |->
              IF d \in lost \/ ~Exists(d) THEN "absent" ELSE "durable"]
         /\ bytes' = [d \in Digests |->
              IF d \in lost THEN "none" ELSE
              IF bytes[d] = "unsynced" THEN "damaged" ELSE bytes[d]]
    BY DEF PowerFailure
  <2>2. lostNames \cup {d \in Digests : PrefixOf[d] \in lostDirs} \in SUBSET Digests
    OBVIOUS
  <2> QED
    BY <2>1, <2>2
<1>2. Forget(Publishers) /\ UNCHANGED <<stages, expired, recorded>>
      /\ blackouts' = blackouts + 1 /\ blackouts' \in 0..MaxBlackouts
  BY TypesAreTwo DEF PowerFailure, FilesTyped
<1>3. \A d \in Digests : /\ bytes'[d] = (IF d \in lost THEN "none" ELSE bytes[d])
                         /\ Exists(d)' <=> d \notin lost /\ Exists(d)
  BY <1>1 DEF NamesShowBytes, Exists
<1>4. FilesTyped' /\ CallsTyped'
  <2>1. prefix' \in [Prefixes -> Names] /\ entry' \in [Digests -> Names]
    BY <1>1 DEF Names
  <2>2. bytes' \in [Digests -> {"none", "unsynced", "synced", "damaged"}]
    BY <1>1, TypesAreTwo DEF FilesTyped
  <2> QED
    BY <1>2, <2>1, <2>2, ForgetTyped, TypesAreTwo DEF FilesTyped
<1>5. \A q \in Publishers : pc'[q] = "idle" /\ token'[q] = None
  BY <1>2 DEF Forget
<1>6. StagesBelong' /\ PublishedIsThere'
  BY <1>5 DEF StagesBelong, PublishedIsThere
<1>7. NamesShowBytes'
  BY <1>3 DEF NamesShowBytes
<1>8. RecordedIsThere'
  BY <1>2, <1>3, TypesAreTwo DEF RecordedIsThere, FilesTyped, NamesShowBytes
<1> QED
  BY <1>4, <1>6, <1>7, <1>8, TypesAreTwo

-----------------------------------------------------------------------------
(* The theorems.                                                           *)

\* Every step of a publisher keeps the invariant.
LEMMA PublisherKeeps ==
    ASSUME StoreInvariant, NEW p \in Publishers,
           \/ \E d \in Digests, t \in Tokens : StageBegin(p, d, t)
           \/ StageFinish(p) \/ StageFails(p) \/ Discard(p)
           \/ PublishHash(p) \/ PublishParent(p) \/ PublishLock(p) \/ PublishLook(p)
           \/ PublishLink(p) \/ PublishSync(p) \/ PublishUnlink(p) \/ PublishReturn(p)
           \/ Record(p)
    PROVE  StoreInvariant'
<1> USE StoreConstants
<1>0. /\ pc[p] # "idle" => token[p] \in Tokens /\ want[p] \in Digests
      /\ CallsTyped /\ FilesTyped /\ PublishedIsThere
  BY CallHasStage, TypesAreTwo DEF StoreInvariant
<1>1. CASE StageFails(p) \/ Discard(p)
  BY <1>1, RaiseKeeps DEF StageFails, Discard
<1>2. CASE PublishHash(p)
  <2>1. CASE Raise(p)
    BY <1>2, <2>1, RaiseKeeps DEF PublishHash, files
  <2>2. CASE Goto(p, "hashed") /\ UNCHANGED gate
    <3>1. CallsTyped'
      BY <1>0, <1>2, <2>2, GotoTyped DEF PublishHash, Sites, Inside
    <3> QED
      BY <1>0, <1>2, <2>2, <3>1, MoveKeeps DEF PublishHash, files, names, Sites, FilesTyped
  <2> QED
    BY <1>2, <2>1, <2>2 DEF PublishHash
<1>3. CASE PublishParent(p)
  <2>1. CallsTyped'
    BY <1>0, <1>3, GotoTyped DEF PublishParent, Sites, Inside
  <2>2. prefix' \in [Prefixes -> Names]
    BY <1>0, <1>3 DEF PublishParent, FilesTyped, Names
  <2> QED
    BY <1>0, <1>3, <2>1, <2>2, MoveKeeps DEF PublishParent, Sites
<1>4. CASE PublishLock(p)
  <2>1. CallsTyped'
    BY <1>0, <1>4 DEF PublishLock, CallsTyped, Goto, Sites, Inside
  <2> QED
    BY <1>0, <1>4, <2>1, MoveKeeps DEF PublishLock, files, names, Sites, FilesTyped
<1>5. CASE PublishLook(p)
  <2>1. CASE Exists(want[p]) /\ Deduplicate(p)
    BY <1>5, <2>1, DeduplicateKeeps DEF PublishLook
  <2>2. CASE Goto(p, "linking") /\ UNCHANGED gate
    <3>1. CallsTyped'
      BY <1>0, <1>5, <2>2, GotoTyped DEF PublishLook, Sites, Inside
    <3> QED
      BY <1>0, <1>5, <2>2, <3>1, MoveKeeps DEF PublishLook, files, names, Sites, FilesTyped
  <2> QED
    BY <1>5, <2>1, <2>2 DEF PublishLook
<1>6. CASE PublishUnlink(p)
  <2>1. CASE Raise(p) /\ UNCHANGED stages
    BY <1>6, <2>1, RaiseKeeps DEF PublishUnlink, names
  <2>2. CASE stages' = [stages EXCEPT ![token[p]] = "gone"] /\ Goto(p, "finishing") /\ UNCHANGED gate
    <3>1. CallsTyped'
      BY <1>0, <1>6, <2>2, GotoTyped DEF PublishUnlink, Sites, Inside
    <3>2. Exists(want[p]) /\ bytes[want[p]] = "synced"
      BY <1>0, <1>6 DEF PublishUnlink, PublishedIsThere
    <3> QED
      BY <1>0, <1>6, <2>2, <3>1, <3>2, MoveKeeps DEF PublishUnlink, names, Sites, FilesTyped
  <2> QED
    BY <1>6, <2>1, <2>2 DEF PublishUnlink
<1>7. CASE PublishReturn(p)
  <2>1. CASE Raise(p)
    BY <1>7, <2>1, RaiseKeeps DEF PublishReturn, files
  <2>2. CASE gate' = [gate EXCEPT ![StoreOf[p]] = None] /\ Goto(p, "published")
    <3>1. CallsTyped'
      BY <1>0, <1>7, <2>2 DEF PublishReturn, CallsTyped, Goto, Sites, Inside
    <3>2. Exists(want[p]) /\ bytes[want[p]] = "synced"
      BY <1>0, <1>7 DEF PublishReturn, PublishedIsThere
    <3> QED
      BY <1>0, <1>7, <2>2, <3>1, <3>2, MoveKeeps DEF PublishReturn, files, names, Sites, FilesTyped
  <2> QED
    BY <1>7, <2>1, <2>2 DEF PublishReturn
<1>8. CASE Record(p)
  BY <1>8, RaiseKeeps DEF Record, files
<1> QED
  BY <1>1, <1>2, <1>3, <1>4, <1>5, <1>6, <1>7, <1>8, StageBeginKeeps, StageFinishKeeps,
     LinkKeeps, SyncKeeps

\* Every step does, of publishers, reconciler and failures.
LEMMA StoreStep == StoreInvariant /\ [Next]_vars => StoreInvariant'
<1>1. StoreInvariant /\ UNCHANGED vars => StoreInvariant'
  BY DEF vars, files, names, publisher, StoreInvariant, TypeOK, StagesBelong, MyStage,
       NamesShowBytes, PublishedIsThere, RecordedIsThere, Exists
<1> QED
  BY <1>1, PublisherKeeps, ReconcilerKeeps, DeathKeeps, PowerFailureKeeps DEF Next

\* StoreInvariant holds in every reachable state.
LEMMA StoreAlways == Spec => []StoreInvariant
BY StoreInit, StoreStep, PTL DEF Spec

\* Every variable stays in its range, and the publish lock of an instance is
\* held exactly by the call that is inside the block.
THEOREM TypeCorrect == Spec => []TypeOK
<1>1. StoreInvariant => TypeOK
  BY DEF StoreInvariant
<1> QED
  BY <1>1, StoreAlways, PTL

\* A committed row names an object that is there, short of a power failure,
\* and whole if it is there at all.
THEOREM RowsNameObjects == Spec => []RecordedIsThere
<1>1. StoreInvariant => RecordedIsThere
  BY DEF StoreInvariant
<1> QED
  BY <1>1, StoreAlways, PTL

\* A step of a publisher changes what names show in one way: a link.
LEMMA OnlyLinksShow ==
    ASSUME StoreInvariant, [Next]_vars
    PROVE  \/ bytes' = bytes /\ \A d \in Digests : Exists(d)' <=> Exists(d)
           \/ \E p \in Publishers :
                /\ want[p] \in Digests /\ ~Exists(want[p])
                /\ entry' = [entry EXCEPT ![want[p]] = "volatile"]
                /\ bytes' = [bytes EXCEPT ![want[p]] = "synced"]
                /\ UNCHANGED <<recorded, blackouts>>
           \/ PowerFailure
<1>1. ASSUME NEW p \in Publishers, PublishLink(p), entry' # entry \/ bytes' # bytes
      PROVE  /\ want[p] \in Digests /\ ~Exists(want[p])
             /\ entry' = [entry EXCEPT ![want[p]] = "volatile"]
             /\ bytes' = [bytes EXCEPT ![want[p]] = "synced"]
             /\ UNCHANGED <<recorded, blackouts>>
  <2>1. token[p] \in Tokens /\ want[p] \in Digests /\ pc[p] = "linking" /\ token[p] # None
    BY <1>1, CallHasStage, StoreConstants DEF PublishLink, StoreInvariant
  <2>2. MyStage(p) \in {"gone", "synced"}
    BY <2>1 DEF StoreInvariant, StagesBelong
  <2> QED
    BY <1>1, <2>1, <2>2 DEF PublishLink
<1>2. ASSUME NEW p \in Publishers, PublishSync(p)
      PROVE  bytes' = bytes /\ \A d \in Digests : Exists(d)' <=> Exists(d)
  BY <1>2 DEF PublishSync, SyncedIn, Exists
<1>3. \/ UNCHANGED <<entry, bytes>>
      \/ \E p \in Publishers : PublishLink(p) \/ PublishSync(p)
      \/ PowerFailure
  BY DEF Next, vars, files, names, StageBegin, StageFinish, StageFails, Discard,
       PublishHash, PublishParent, PublishLock, PublishLook, PublishUnlink,
       PublishReturn, Record, Age, RemoveStage, ProcessDies
<1> QED
  BY <1>1, <1>2, <1>3 DEF Exists

\* "Partial output must never look complete": no process or power failure and
\* no reconciler makes a damaged object of a whole one.
THEOREM NothingTears == Spec => NoTornObject
<1>1. StoreInvariant /\ [Next]_vars =>
        [\A d \in Digests : bytes'[d] = "damaged" => bytes[d] = "damaged"]_vars
  <2> SUFFICES ASSUME StoreInvariant, [Next]_vars, NEW d \in Digests, bytes'[d] = "damaged"
               PROVE  bytes[d] = "damaged"
    OBVIOUS
  <2>1. ASSUME NEW e \in Digests, bytes' = [bytes EXCEPT ![e] = "synced"]
        PROVE  bytes[d] = "damaged"
    BY <2>1 DEF StoreInvariant, TypeOK
  <2>2. CASE PowerFailure
    BY <2>2 DEF PowerFailure, StoreInvariant, NamesShowBytes
  <2> QED
    BY <2>1, <2>2, OnlyLinksShow
<1> QED
  BY <1>1, StoreAlways, PTL DEF Spec, NoTornObject

\* The store, its threads and failures included, implements module
\* ArtifactCatalog: objects appear at their link, one at a time and for good,
\* rows are committed for visible objects, and a power failure only takes
\* objects away.
THEOREM CatalogImplemented == Spec => ImplementsCatalog
<1> DEFINE visible == {d \in Digests : Exists(d)}
<1>1. Init => Catalog!Init
  BY DEF Init, Catalog!Init
<1>2. StoreInvariant /\ [Next]_vars => [Catalog!Next]_<<visible, recorded, blackouts>>
  <2> SUFFICES ASSUME StoreInvariant, [Next]_vars
               PROVE  [Catalog!Next]_<<visible, recorded, blackouts>>
    OBVIOUS
  <2>1. CASE PowerFailure
    <3>1. visible' \subseteq visible
      BY <2>1 DEF PowerFailure, Exists
    <3>2. Catalog!Blackout
      BY <2>1, <3>1 DEF Catalog!Blackout, PowerFailure
    <3> QED
      BY <3>2 DEF Catalog!Next
  <2>2. ASSUME NEW p \in Publishers, want[p] \in Digests, ~Exists(want[p]),
               entry' = [entry EXCEPT ![want[p]] = "volatile"],
               UNCHANGED <<recorded, blackouts>>
        PROVE  [Catalog!Next]_<<visible, recorded, blackouts>>
    <3>1. want[p] \notin visible /\ visible' = visible \cup {want[p]}
      BY <2>2 DEF Exists, StoreInvariant, TypeOK
    <3>2. Catalog!Publish(want[p])
      BY <2>2, <3>1 DEF Catalog!Publish
    <3> QED
      BY <2>2, <3>2 DEF Catalog!Next
  <2>3. CASE ~PowerFailure /\ \A d \in Digests : Exists(d)' <=> Exists(d)
    <3>1. visible' = visible
      BY <2>3
    <3>2. blackouts' = blackouts
      BY <2>3 DEF Next, vars, StageBegin, StageFinish, StageFails, Discard, PublishHash,
           PublishParent, PublishLock, PublishLook, PublishLink, PublishSync,
           PublishUnlink, PublishReturn, Record, Age, RemoveStage, ProcessDies
    <3>3. CASE recorded' = recorded
      BY <3>1, <3>2, <3>3
    <3>4. CASE recorded' # recorded
      <4>1. PICK p \in Publishers : Record(p)
        BY <2>3, <3>4 DEF Next, vars, StageBegin, StageFinish, StageFails, Discard,
             PublishHash, PublishParent, PublishLock, PublishLook, PublishLink,
             PublishSync, PublishUnlink, PublishReturn, Age, RemoveStage, ProcessDies
      <4>2. want[p] \in visible /\ recorded' = recorded \cup {want[p]}
        BY <3>4, <4>1, CallHasStage DEF Record, StoreInvariant, PublishedIsThere
      <4>3. Catalog!Record(want[p])
        BY <3>1, <3>2, <4>2 DEF Catalog!Record
      <4> QED
        BY <4>2, <4>3 DEF Catalog!Next
    <3> QED
      BY <3>3, <3>4
  <2> QED
    BY <2>1, <2>2, <2>3, OnlyLinksShow
<1> QED
  BY <1>1, <1>2, StoreAlways, PTL DEF Spec, ImplementsCatalog, Catalog!Spec

=============================================================================
