# TLA+ models of the Movie Dubbing studio

These modules describe the parts of `src/aidub` in which several threads,
processes or crashes meet, and those whose rules are easy to state and hard to
test: who may edit a project, what happens to the jobs of a process that died, how
a supervisor and its worker agree on what was done, when an object in the artifact
store may be believed, what a late recognizer result may change in a transcript,
whether a chunked recognition loses a word. TLC checks them on small instances, and
every invariant and action property that it finds to hold is also proved with TLAPS, for
every value of the constants.

Paths below are relative to `src/aidub/` of the repository unless they begin with
`docs/`.

## 1. Inventory

The program is a desktop application (Python) with long-running worker processes.
A *project* is a directory `*.aidub` with a manifest, a SQLite database, a
content-addressed artifact store and a lock. Everything that must survive a crash
lives there.

| Component | State | Operations | Hard behaviour | What makes it correct |
| --- | --- | --- | --- | --- |
| Project lock, `infrastructure/locking/project_lock.py` | `.aidub.lock` (OS lock), `.aidub.lock.json` (record), `_PROCESS_OWNERS` (per process) | `acquire`, `try_acquire`, `release`, `inspect`, `break_lock` | threads of one process and other processes at every point; death with the record on disk; a file-system call that fails half-way | one owner; nothing leaks; a record goes only by its owner or by an audited break |
| Project sessions, `application/projects.py` | open handles, the lock they hold | `create`, `open`, `open_session`, `close` | two processes; failure anywhere in `open`; recovery of jobs a dead process left; several creators of one destination | recovery takes exactly the dead jobs; one whole package appears |
| Job records, `infrastructure/persistence/database.py`, `domain/job.py`, migration 0002 | table `jobs` | `create_job`, `transition_job`, `recover_interrupted_jobs` | crash and retry; a recovery that the trigger would abort | rows follow the state machine, keep checkpoints and have the times the domain model asks for |
| Schema migrations, `infrastructure/persistence/migrations.py` | `schema_migrations`, the schema | `initialize` | programs of several versions on one file; death inside a script | half a migration is never in effect; the history is one line |
| Catalog of projects, `infrastructure/catalog/catalog.py` | one row per project | `initialize`, `upsert_project`, `set_pinned`, `remove_project` | first use by several processes; projects that move on disk | pins stay as last asked for; one project to a path |
| Local worker, `workers/` | process, three queues, active job id | `start`, `restart`, `submit`, `cancel`, `wait`, `shutdown`, `terminate`; worker loop, `checkpoint`, `progress` | lost results, late results, timeouts and resubmission, cancellation from another thread | one job in flight; an answer is the answer to what was asked; `wait` returns |
| Artifact store, `infrastructure/artifacts/store.py` and `record_artifact` | `.staging/`, `sha256/xx/`, table `artifacts` | `stage`, `publish`, `discard_stage`, `reconcile`, `validate`, `open` | equal content from two processes, removal of stages under a publisher, process and power failures | an object is whole once it is visible, and a row names only such objects |
| Transcript repository, `infrastructure/transcripts/repository.py`, `application/transcripts.py` | snapshot with revision, mutation history | `create`, `commit`, `apply` | read, edit and commit of two editors | compare-and-swap: no lost update, history is gapless |
| Transcript commands, `transcript/service.py` | utterances with status and locks | edit, split, merge, speaker, status, recognizer update | a late recognizer result reaches edited text | locked and approved text is not touched |
| Voice rights, `application/voice_rights_service.py`, `domain/rights.py` | profiles, consents, ledger | `register_*`, `authorize`, `revoke_consent`, `disable_profile` | order of registration, use, disabling and revocation | whatever was authorised is explained by what was registered before (that a revocation blocks is violated) |
| Provider router, `providers/router.py` | a circuit breaker per provider | `complete` | callers in parallel on breakers without a lock, retries, half-open state | a circuit opens for failures only, and a provider that works is not given up |
| Speech recognition, `speech/` | chunk plan, words of each chunk | `plan`, `transcribe`, `merge` | uneven chunks, words heard twice at a seam, cancellation between chunks | no sample left out, no word twice |
| Derivatives, `media/derivatives.py` | FFmpeg and its pipes, a bounded queue, a stage, a target | `generate`, `run` | two reader threads, deadline, cancellation, a target published by somebody else | published once and whole; the outcome is what happened |
| Subtitles, `subtitles/`, `subtitle_ingest/`, `domain/time.py` | cues, candidates | parse, `ingest`, `require_acceptable`, broadcast checks | two ends of a cue rounded one by one, cues that run over several others | no cue lost, moved or silently overlapping |
| Translation, `application/translation_pipeline.py` | results by line | `translate`, `translate_batch` | an answer that is short or breaks off | every line is answered, in order |
| Analysis, `analysis/` | stages of a run, snapshots shown | stage updates, `aggregate_progress`, publication | a slower publisher | no progress is taken back |
| Job graph and render, `orchestration/graph.py`, `render_orchestrator.py` | jobs and dependencies | `add`, `ready_jobs`, `topological_order`, `execute_render_plan` | cycles, failed dependencies | nothing runs before its dependencies |
| Invalidation, `application/invalidation.py` | graph of artifacts | `add`, `invalidate_*`, `create_partial_render_plan` | diamonds and deep chains of artifacts | all that is stale is rendered, and nothing else |
| VRAM scheduler, `orchestration/vram_scheduler.py` | loaded models, budget | `schedule_load`, `unload` | eviction before a load that fails | the budget is kept; priorities are respected |
| Take manager, `application/take_manager.py` | takes and their status | `add_take`, `set_master`, `reject_take`, ... | limit, exclusive statuses, takes that come in with a status | no promotion leaves a second master, and the latest one is rendered |
| Timing fitter, `application/timing_fitter.py` | the fit of a take | `fit`, `apply` | thresholds in percent, milliseconds and tempo factors, lengths that `int()` cuts | what nobody is asked about is within tolerance |
| Edit clock, `domain/time.py` | ranges in ticks of a rational rate | `to_rate`, `intersect`, `split_at` | rates without a common tick, ends rounded one by one | an instant moves by less than a tick |
| Clip timeline, `ui/editorial.py`, `ui/commands/editorial.py` | the clips of a track | blade split, ripple delete, roll, slide | neighbours that are not adjacent, time that is not free | clips stay apart, and time is kept |
| Domain job, `domain/job.py` | one job, validated as a whole | `transition_to` | validation that refuses what the machine allows | every allowed transition can be taken |
| Undo history, `ui/undo_redo.py` | two stacks | `execute`, `undo`, `redo` | the bound drops the oldest commands | the timeline goes back along its own states |
| Face tracks, `ai/vision/face_tracker.py` | tracks of a shot | `track_faces_in_shot` | several faces want one track | one face of a frame to a track |
| Dubbing pipeline, `pipeline/` | manifest of stages, files | `run`, `mark_stage`, `save` | restart between stages | a resumed run produces what a fresh one does |
| GPU supervisor, `orchestration/gpu_supervisor.py` | as the local worker | as the local worker | as the local worker | as the local worker |

How they interact. `open` takes the lock, migrates and recovers the database, lets
the store remove expired stages, and hands lock, database and store to its caller.
The caller moves jobs through the database while a supervisor runs them in a
worker; results are published to the store first and recorded in the database
afterwards (ADR-002). Lock, database and store share nothing in memory: they meet
in the project directory, and so do two processes. The services above them (from
transcripts to clips) are called one by one by the user interface and hand
values to one another: no two of them write the same state.

The rest of the source (signal processing, model adapters, interchange formats,
localisation, diagnostics, the user interface, the command line) computes values,
wraps libraries or draws windows; `PROJECT.json` lists every part with the reason
it is left out, and, under "hazards", the places that are hard to test, each at its
line.


## 2. Plan

| Order | Module | Models | Composed with | State |
| --- | --- | --- | --- | --- |
| 1 | `ProjectLock`, `ProjectOwnership`, `MCProjectLock`, `ProjectLockProofs` | the project lock and its promise | refines `ProjectOwnership` | done, proved |
| 2 | `JobRecords`, `ProjectSession`, `ProjectSessionProofs` | job rows; opening, recovering, closing | uses `ProjectOwnership` for the lock | done, proved |
| 3 | `WorkerSupervisor`, `WorkerSupervisorProofs` | supervisor and worker process | | done, proved |
| 4 | `ArtifactStore`, `ArtifactCatalog`, `MCArtifactStore`, `ArtifactStoreProofs` | publication, reconciliation, failures | refines `ArtifactCatalog` | done, proved |
| 5 | `TranscriptHistory`, `TranscriptStore`, `ServicesProofs` | read, edit and commit of several editors | refines `TranscriptHistory` | done, proved |
| 6 | `TranscriptCommands`, `ServicesProofs` | what the command step of 5 does to the lines | | done, proved |
| 7 | `VoiceRights`, `ServicesProofs` | consents, profiles, ledger | | done, proved |
| 8 | `LlmRouter`, `TranslationBatch` | circuit breakers under parallel callers; what is made of their answers | | done, proved in `ServicesProofs` and `SourceProofs` |
| 9 | `DubbingPipeline` | stages, manifest, restarts | | done; its property is violated |
| 10 | `JobGraph`, `RenderPlan`, `InvalidationGraph`, `VramScheduler`, `TakeManager`, `TimingFit`, `UndoHistory` | sequential services, against what they promise | | done, proved in `ServicesProofs` and `RenderingProofs` |
| 11 | `PackageCreation`, `DerivativeRun`, `PublishOnce`, `RenderingProofs` | two ways to publish, and their promise | both refine `PublishOnce` | done, proved |
| 12 | `SchemaMigration`, `ProjectCatalog`, `AnalysisRun` | programs of several versions, processes, publishers | | done, proved in `ServicesProofs` and `SourceProofs` |
| 13 | `SpeechTranscription`, `SubtitleTrack`, `FaceTracks` | algorithms on time, against what they may not lose | | done, proved in `SourceProofs` |
| 14 | `GpuSupervisor`, `JobEntity`, `EditClock`, `ClipTimeline` | the GPU worker; the job of the domain; exact time; clips | `GpuSupervisor` over `WorkerSupervisor` | done, proved in `RenderingProofs`, `ServicesProofs` and `EditingProofs` |

The parts 5 to 14 (without the dubbing pipeline) are checked together by `Studio`, for
which `MCStudio` has the values, and their proofs build on one another: `SourceProofs`
extends `ServicesProofs`, `EditingProofs` extends `SourceProofs`, and `RenderingProofs`,
whose last theorem is about all services, extends them all. The plan is done: all of it
is modelled, and what holds of it is proved, but for liveness.

## 3. What is modelled

### ProjectLock

Translates `ProjectLock` call by call. A step is what another thread or process
can observe: the reservation in the process table, the OS lock, each read of the
record, the replace, the directory fsync, the audit callback, the unlink, the
unlock, the release of the reservation. `pc[l]` says where the call of object `l`
stands. Every exception of a file-system call is a second disjunct of its step,
with the cleanup the code has (`ExitStack`, `finally`). `Crash` ends a process:
the OS frees the gate, the table is gone, the files stay. `Tamper` is software
that ignores the protocol and deletes or damages the record.

`mine[l]` stands for `_record` and `_stream` together: they are set and cleared
side by side, and only by the thread that uses the object. `published`, `audited`
and `disturbed` record history and are read by properties only; so is `seen`,
the record an inspection has read, whose verdict ADR-007 calls a snapshot.

`ProjectOwnership` is the promise: `Claim`, `Withdraw`, `LetGo`, `Authorise`,
`BreakOrphan`, and `Meddle` for foreign software where there may be any. The owner
begins at the replace that publishes the record, even if the directory fsync after
it then fails and `acquire` raises: that is an owner that lets go at once and
leaves an orphan.

### JobRecords and ProjectSession

`JobRecords` has the row of a job and the three transactions that change it.
`Allowed` is `_ALLOWED_TRANSITIONS`; the trigger of migration 0002 has the same
table. `ProjectSession` adds processes: `stage[p]` is how far `open` got, the lock
is `ProjectOwnership` (which `ProjectLock` implements), `driver[j]` is the process
whose worker runs job `j`. `HoldLock` is the set of values of `hold_lock` that
callers use. Recovery is always asked for, the default of `open` and
`open_session`; `create` opens the package it has just built without it, and that
package has no jobs.

`Close` has a precondition the code does not check: the workers of the process
have stopped. Without it the lock may pass on while a job runs, as in the run
`session_nohold`.

`JobEntity` is the same job as an object: `transition_to` derives the next one and
has the whole of it validated. The model keeps which timestamps and results are
set, and asks whether any history of retries, pauses and cancellations makes the
validation refuse what the state machine allows.

### WorkerSupervisor and GpuSupervisor

Both processes and the queues between them. A queue may hand over late
(`WaitEmpty` while the worker lives) and loses its tail when the worker dies
(`WorkerDies`), which is what the feeder thread of `multiprocessing.Queue` does.
`wait` is a loop of three steps, receive, `is_alive`, deadline, so that a result
between two of them is not missed by the model; `Cancel` is enabled inside it,
from another thread or from the event callback. Job results carry the number of
their submission, which the code does not have, to say which attempt an answer
belongs to. Handlers are what they do to the queues: checkpoints, progress, an
end. Speech recognition checks for cancellation with an exception of its own,
which the worker loop reports as a failure: `Checkpoint("failed")`.

`GpuSupervisor` runs the same worker over the same queues and takes its steps from
`WorkerSupervisor` by `INSTANCE`; its own are a handshake that may time out, and a
`wait` that gives the job up nowhere but at an answer or a death.

### ArtifactStore

Publishers stage, hash, make the prefix directory, take the lock of their store
instance, look, link, fsync, unlink the stage and return; then they record the
row. A name is absent, volatile or durable, bytes are unsynced, synced or damaged;
a power failure takes back any part of what is volatile. The reconciler of any
process removes expired stages one by one at any time. An object may have rotted
before the behaviour starts. `ArtifactCatalog` is the promise: publish once, for
good; record only what is visible; `Blackout` is all that takes anything back.

### TranscriptStore, TranscriptHistory and TranscriptCommands

`TranscriptStore` has several editors, each of whom looks at a revision (`get`),
asks for a command on it, and goes through `apply` in the service: load, command,
commit. `commit` is one transaction that compares the stored revision with the
expected one and writes the snapshot and the audit row. A transcript is the set of
edits it contains: that is all that lost updates are about. `TranscriptHistory` is
the promise, one line of revisions each made by somebody who had the one before it
in view; the store is shown to implement it, and proved to.

`TranscriptCommands` is what the command step does: all ten commands of
`transcript/service.py` with every check, on lines with text, source and edit
timing, words, speaker, character, emotion, confidence, status and locks. A command
that raises changes nothing and is no step. `fact` is the mutation record of the
last command, which carries the invalidation roots.

### VoiceRights

Profiles and consents put in place of older ones, `authorize` with its conditions
in their order, `revoke_consent`, `disable_profile` and the ledger they all write.
A clock ticks between calls, for consents that begin or end. `LedgerExplainsUse`
asks of every authorised use that the last entries about its profile and its consent
allow it; `GrantsUse` states what a consent has to say (status, project, both ends of
its time, area and use) without the operators that the code is modelled with. It
leaves revocations to `RevocationBlocks`, which is violated.

### LlmRouter and TranslationBatch

`LlmRouter`: callers in parallel go through the adapters in order, with retries;
breakers are shared by all adapters of a kind. `CircuitBreaker` has no lock, so every
statement of it that reads or writes a field is a step of its own: the three of the
half-open check, the read and the write of `_failure_count += 1`, the comparison, the
opening and its time stamp, the three of `record_success`. Between any two of them
another caller may have taken any of its own. `opened` is `_opened_at`: none, recent, or
`recovery_seconds` old. `crossed` remembers of each kind whether two callers ever were
inside its breaker at once: what the code means the breaker to be
(`CircuitMatchesCount`) is asked only of breakers where that never happened, and of all
others that they open for failures only, and that a request is given up only when every
kind failed it or failed often enough.

`TranslationBatch` is what is made of the answers: chunks whose answer
may be short, long, malformed or fail midway, and the passes of single lines.

### JobGraph, RenderPlan and InvalidationGraph

`JobGraph` begins with *every* graph of the bound and dispatches jobs as they
become ready, with failures; Kahn's order is computed by a recursive function and
compared with reachability. `RenderPlan` executes plans in the order in which their
nodes were put in, which need not be that of their dependencies: a node in front of its
dependency is skipped for good, whatever the docstring says (section 6), and only a plan
in order is claimed to be rendered whole. `InvalidationGraph`
adds artifacts and asks for partial renders: the plan is built round by round, with
the children of a node in any order, because the code iterates over sets.

### VramScheduler, TakeManager, TimingFit, UndoHistory, ClipTimeline

Sequential services, over every order of calls. `VramScheduler` evicts by priority
until a model fits; its model manager, which the repository lacks, may fail to
verify or to load. `TakeManager` has the limit and the exclusive statuses; a
take may come in with any status, as `add_take` lets it, and keeps it in `born`.
`TimingFit` tries lengths at, just inside and just outside every threshold. Where the
code cuts a quotient of floats with `int()` and the exact quotient is a whole number, the
model takes that number and the one below it (`Truncated`); the tolerance of a fitter is
free. `apply()` is left out: it raises on every call (section 6).
`UndoHistory` keeps the commands of both stacks next to `past`, the
states the timeline was really in. `ClipTimeline` applies each edit to a track and
remembers what the edit should do to the gaps and to the content.

### PackageCreation, DerivativeRun and PublishOnce

`PublishOnce` is the promise of a place that is published once: nothing, then one
whole value for good. `PackageCreation` keeps it by a rename over a destination
looked at twice, while others make directories there and creators die;
`DerivativeRun` by a hard link, while FFmpeg writes, two threads fill a bounded
queue, and cancellation, deadline, overflow, a rival and a death arrive at any point.
The checks at the top of its loop and the `get` behind them are two steps (`Look`,
`Receive`): what comes up between them goes unnoticed if that `get` has the last end
mark, and the run then has a result.

### SchemaMigration, ProjectCatalog and AnalysisRun

`SchemaMigration`: programs of several versions read the history, back it up and
apply what is missing, one transaction for each script, and die between any two
statements. `ProjectCatalog`: first use by several processes, registration and
pins while projects are moved on disk. `AnalysisRun`: one publisher advances stages
and publishes at once, another publishes what it collected some time ago.

### SpeechTranscription, SubtitleTrack, FaceTracks, EditClock

Algorithms on time. `SpeechTranscription` plans chunks for every length up to the
bound, lets the recognizer hear any words in each, and merges one candidate per
step. `SubtitleTrack` parses, scans cue by cue and converts with all four roundings.
What a warning names as kept may be dropped in its turn: `MergeIsFaithful` asks only that
a dropped word overlaps one that was heard and is no less certain, and the run
`speech_merge` shows the rest of what ADR-011 asks to be violated.
`FaceTracks` leaves the score of a face and a track open and keeps the assignment; a
frame is the place of its detections in `frame_detections`, since nothing checks that
the frame indexes they carry rise.
`EditClock` converts, intersects and splits; its reference is a grid on which every
rate has its instants, on which `lo` and `hi` say where the ends should be and
`slack` how much the conversions so far may have moved them.

### DubbingPipeline

The nine stages with their files, the manifest saved after each of them and
restarts. `Raises` are the stages that raise whatever their tools do: speaker
diarization (its module uses `collections` without importing it) and the first
recorded stage of a process (see the findings). The stages behind them, which place
and assemble voices, are there as steps but are never reached; their algorithms are
left out for that reason.

### Studio and MCStudio

The services share no state, so a product of them would say nothing that each alone
does not. `Studio` puts them side by side: `service`, chosen at the start and
never changed, says which one a behaviour is about; the others rest in one state.
Its constants are those of the components, and `StudioConstants` joins what each
assumes of them; `MCStudio` has the values of the runs. Its properties are those of
the components, some joined where they say the same of several: `ChoicesAreKept`
(takes, pins, undo), `RendersInOrder` (jobs, partial renders, plans), `PublishesOnce`
and `OutcomesAreReal` (packages, derivatives, the GPU worker), `SourceIsAccountedFor`
(speech, subtitles, translation, faces, time, clips, analysis), `OnlyWholeSteps`
(migrations, the domain job).

## 4. What the runs show

| Run | Instance | Shows |
| --- | --- | --- |
| `project_lock` | objects a, b in one process, c in another; three nonces; tampering | `MutualExclusion`, `OwnerHasGate`, `OrphanHasCause`, `NoLeakedLock`, `RemovalAuthorised`, types, and refinement of `ProjectOwnership` |
| `project_session` | two processes, two jobs, two openings, a checkpoint each | recovery takes exactly the dead jobs; rows follow the state machine, keep checkpoints and times |
| `session_nohold` | the same, `hold_lock` free | **violated**: with the default `hold_lock=False` a second process recovers a live job |
| `job_rows` | as `project_session` | **violated**: a retried job keeps its finish time |
| `worker_supervisor` | two job ids, three submissions, two cancels and two messages waiting | one job in flight; answers and cancellations belong to what was asked; `wait` returns; no deadlock |
| `worker_cancel` | the same | **violated**: a late cancel hits the next submission of its job id |
| `artifact_store` | three publishers in two processes, two digests in two directories, three stages, a power failure | refinement of `ArtifactCatalog`; rows name whole objects; no object looks whole and is not |
| `artifact_commit` | the same | **violated**: a recorded object is lost with its unsynced directory |
| `studio_services` | 24 services, see below | the properties of `Studio` |
| `voice_revocation` | the rights service alone | **violated**: a revoked consent goes on authorising |
| `speech_merge` | the speech service alone | **violated**: the word that a warning names as kept is not in the merged transcript |
| `pipeline_delivers` | all configurations, three starts | **violated**: the first stage of a fresh job raises though its tool succeeded |

The violated ones are listed under "findings" in `PROJECT.json` with the lines they
contradict.

### Bounds, and why they are enough

*Lock*: two objects in one process meet in the process table, the third meets them
at the gate; three nonces allow two generations of orphans and a further attempt.
*Session*: two nonces are two successful openings, so each process can crash and
the other recover; the checkpoint bound 1 tells a lost checkpoint from a kept one.
*Supervisor*: three submissions are two jobs and a retry of either; `MaxCancels` 2
lets a stale cancel stand before a wanted one; `MaxResults` only stops a handler
from reporting progress forever. *Store*: two publishers share a store lock and one
does not; one directory exists from the start and one does not; three stages allow
a publication to be repeated after a failure; one power failure, since a second one
finds only states that the first may leave. Symmetry is used for nonces, stage
names and the two publishers of one store, in runs without liveness properties.

| Service | Bound | Enough, because |
| --- | --- | --- |
| transcript store | three editors and edits, revision 3 | two race, and a third has a stale view of both |
| transcript commands | four identifiers, two lines | a split and a merge use up identifiers; one line is locked, one open |
| voice rights | two profiles, four versions of a consent, ledger of 4 | register twice, use, revoke, in every order; a consent that ends, begins later elsewhere, is pending, or is of another project |
| router | two callers, two kinds, threshold 2, three failures of one and one of the other | each statement of one caller meets each of the other; the first kind opens and opens again from half-open, the second answers behind it |
| timing fitter | 15 lengths, three silences, tolerances 0 and 50 | each threshold from both sides; 111 in a slot of 112 is cut to 111 |
| takes | three takes of any status, limit 2 | two masters come in, one of two is promoted, the limit is met with retired takes |
| VRAM | four models of three priorities | no three fit, two have equal rank |
| job graph | four jobs, two needs each, all graphs | diamonds, chains of four, cycles |
| render plans | three nodes, all plans; the default one | every order against every dependency |
| invalidation | four artifacts of two kinds | a diamond, and a chain under it |
| packages | three creators | one renames between the two looks of another |
| derivative | queue of two, one line printed | overflow, and a queue that ends full |
| speech | eight samples, chunks of at most two, three words | two chunks with no overlap, one, or half a chunk; a word on either side of and across the seam |
| schema | an old program, a newer and a fork; two statements a script | death between the two; a fork meets either line |
| catalog | three projects, two paths | a path changes hands |
| analysis | two stages, three plans, two snapshots shown | one late snapshot against one newer |
| subtitles | three cues of six, three clocks | a long cue over two that are apart |
| translation | three lines, chunks of two, two passes | a full and a short chunk |
| undo | bound 3 | the oldest command is dropped |
| faces | four frames, two faces | two faces want one track |
| edit clock | four rates, three ticks, slack 8 | rates without a common tick, several inexact conversions in a row |
| clips | two tracks, four clips | neighbours adjacent and apart, a clip made by a split |
| GPU supervisor | one job, two submissions | a retry meets a late answer |
| domain job | two attempts | a retry is used up |

Deadlock is checked only for the supervisor. The other systems may rest: an
orphan nobody breaks, nonces or stages used up, a queue of work that is done.

### Fairness

Stated only for the supervisor. The worker's steps, the end of a handler and the
steps of a call in progress are weakly fair: the operating system schedules both
processes and Python runs the next statement. `WaitMessage` is strongly fair,
because `wait` leaves and re-enters the receiving step on every poll while a queue
that holds a message hands it over in the end. There is no fairness on deadlines,
on calls of the client, or on the death of a worker, so `WaitReturns` does not lean
on the timeout. It excludes the one case in which `wait` really hangs on its
deadline alone: `start` on a supervisor whose worker died unnoticed keeps the old
active job (`revived`). The services have no loop that waits for another actor
without a deadline, so there is nothing for a liveness property to say of them
beyond that a call which is not interrupted returns.

### Mutants

Every property has a mutant, a definition next to the one it replaces that makes a
plausible mistake; TLC finds the property violated with it. For a property that
joins several components `PROJECT.json` names one; the modules have one for each
conjunct, marked "Mutant" in the comment above it.

## 5. What is proved

### The project lock

`ProjectLockProofs` proves for any number of processes, objects and nonces, and
for any assignment of objects to processes:

* `TypeCorrect`, `OwnerAlonePastGate`, `AtMostOneOwner`, `NothingLeaks`,
  `OrphansAreCaused`: the five invariants of the run `project_lock`;
* `RemovalsAuthorised`: its action property;
* `LockImplementsOwnership`: the refinement, whatever foreign software does.

The assumptions are those of `LockConstants` (objects, nonces and the two special
values are different things, every object lives in some process). None of the
safety properties is inductive: that the owner is alone past the gate needs to
know, of *every* call, which of the gate, the table entry and the record it holds
at each of its points. The inductive invariant `IInv` says just that: `CallInv`
(the point a call has reached tells which tokens it holds), `TableInv` (an engaged
object has the entry of its process, and no entry is without one), `GateInv` (who
owns the project or is past the gate is the value of `gate`), `RecordInv` (what the
record file may hold before it is written or removed, and that a break in its last
steps is audited), `NonceInv` (a pending nonce is unpublished and nobody else's),
`CauseInv` (undisturbed owners find their own record) and `BreakInv` (without
tampering a break finds the record it was called for). One lemma per conjunct
goes through the actions; `Invariance` joins them, and the other theorems follow.

The refinement maps the owner to whoever has the gate and either owns the project
or has just published its record. Each step is a step of `ProjectOwnership` or a
stutter; `Crash` and `AcquireSync` (its failing half) become `LetGo`.

### The transcript store

`ServicesProofs` proves for any editors, any edits and any bound on revisions:

* `StoreTypes`: types;
* `NoEditIsLost`, `NobodyEditsUnseen`: the two invariants of the run
  `studio_services`;
* `AuditIsComplete`: the audit rows run from 1 to the stored revision without gap or
  double, and the last one has the digest of what is stored;
* `StoreImplementsHistory`: the refinement of `TranscriptHistory`.

The properties say what is stored, but a commit writes what an editor computed some
steps ago. The inductive invariant `StoreInvariant` therefore adds what editors
hold: `ViewsAreRevisions` (whatever an editor has in view was a revision once, with
that content), `LoadedGoesOneBeyond` (what is about to be committed is the revision
it was loaded from and one edit) and `NothingBeforeCreation`. The comparison in
`commit` then makes the loaded revision the stored one, which is the whole argument.

### Project sessions

`ProjectSessionProofs` proves for any processes, jobs and nonces:

* `TypeCorrect`, `TimesKept`: types, and the times that the domain model asks of a row;
* `MachineKept`, `CheckpointsKept`: the action properties of the rows;
* `LiveJobsSpared`, `NothingLeftRunning`: recovery takes the jobs of dead processes and
  no other. These two assume `HoldLock = {TRUE}`, which is `open_session`; with the
  default of `open` the first is false (run `session_nohold`).

The invariant `HeldInv` relates lock, sessions and jobs: whoever is past the lock holds
it, a job's driver has the project open, and between recovery and return no row is
left that a process would own. Rows follow the state machine without it: recovery
writes only what `Allowed` has, whatever the row was.

### The worker supervisor

`WorkerSupervisorProofs` proves types (`TypeCorrect`), `JobsSerialised`,
`ActiveNeverLost`, `AnswersLatest` and `CancelledWereAsked` for any job ids and
bounds. `SupervisorInvariant` says of everything under way, in a queue or at the
worker, that it is of the latest submission and, while the worker lives, of the
active job (`UnderWayIsOfNow`); that there is one such thing in one place
(`OneAtATime`); and that whatever was cancelled was asked for (`CancelsAreAsked`). A
queue that loses its tail with its worker keeps each of these.

### The artifact store

`ArtifactStoreProofs` proves types, `RowsNameObjects`, `NothingTears` and the refinement
`CatalogImplemented`, for any publishers, stores, digests, directories and stages.
`StoreInvariant` is what a call knows at each of its points: its stage is its own and
as far as its point says (`StagesBelong`), a name shows bytes that were synced or
were damaged from the start (`NamesShowBytes`), and what is linked or found is there
(`PublishedIsThere`, short of a power failure). Rows are written last, which is ADR-002.

### Transcript commands

`ServicesProofs` proves the three action properties, `ApprovalHolds`, `LocksHold` and
`RootsCover`, for any lines, texts, speakers and proposals: one lemma for each of
the ten commands says which lines and fields it touches. `LocksHold` speaks of text,
timing, speaker and character; of a locked emotion, which a merge clears, it says
nothing. `CommandsInvariant` adds that
identifiers are distinct and that a line's fields are of their sets.

### Services

`ServicesProofs` has an invariant for each of the other services, and proves:

* `UsesAreExplained`: the ledger's last entries about a profile and a consent are what
  the tables hold (`RightsInvariant`), so that an authorised use is explained by them;
* `TroubleStaysWithItsKind`, with every statement of a breaker a step. `RouterInvariant`
  says how far a method of a breaker has got with what it writes, for the caller who is
  alone in it, and bounds what a caller who is not can make of it: a count, stored or
  still to be stored, is never above the failures there were, and a call has seen each
  kind that it passed fail or open;
* `FitsAreHonest`: for all lengths, settings and tolerances, and both sides of each whole
  quotient, by arithmetic. With tolerance 0 an accepted stretch may miss its slot by
  the millisecond that `int()` cut; with any other tolerance none misses it;
* `ChoicesHold`: a second master is one that came in as such, the latest master is
  rendered, pins and paths are what was last asked for, and the two stacks of undo are
  the states before and after;
* `StepsAreWhole`: the schema is its history's, whatever dies between two statements;
  and the validation of a domain job refuses nothing that its machine allows but a
  run too many.

`LeastExists`, that a set of numbers has a least one, stands in for induction in these
and the following proofs, as a least counterexample, where the induction theorems of
the library would need an operator as an argument.

### Sources and edits

`SourceIsKept`, the last theorem of `EditingProofs`, is `SourceIsAccountedFor`: nothing
of a source is lost, doubled or moved on its way through seven services. Its invariant
`AccountInvariant` has a part for each, of which all but the last two are proved in
`SourceProofs`:

* `SpeechInvariant`. A plan divides samples and overlaps into the least number of chunks
  that the policy allows, the larger ones first: `IsSpread` is that plan in one formula,
  and its sizes are within the policy because the number is the least (`IsCount`). The
  merge is followed one candidate at a time: what is kept, dropped and still waiting is,
  together and counted, what was heard, and a dropped word meets another that was heard.
* `SubtitleInvariant`. `Converts` says when a number of ticks is a quotient under each
  of the four roundings and the exact conversion: it keeps order and is less than a tick
  away. The scan has named every overlap of the cues that it has passed, because it keeps
  the furthest end so far, and the broadcast rules pass only a file whose cues are apart.
* `BatchInvariant`. Every line up to where the batch stands has a result, and each result
  is of one of two passes, the chunk's answer or the line alone; lines come in their
  order, but for a chunk that was begun again, whose lines are all answered again.
* `FacesInvariant`. A track's frames rise, and the tracks matched in a frame are those
  that end with it, so that a second face of the frame cannot have one of them.
* `AnalysisInvariant`. A snapshot says what its stages say (`Told`), and follows those
  shown before it stage by stage (`Follows`), since one that does not is refused. Progress
  is a quotient of sums: of products that each are no less, by the same weights, the sum is
  no less, and neither is its quotient.
* `ClockInvariant`. Both ends of a range are within `slack` of where exact arithmetic
  would have them; a conversion that is not exact moves an end by a tick at most, or by
  half a one to the nearest (`NearInstant`), and splits and intersections by nothing.
* `ClipsInvariant`. Clips are apart, and the sums of gaps and lengths are those the edit
  should leave. Each of the edits leaves a track that is the old one up to a place and,
  moved by one distance, from a place on (`IsEdit`); sums along a track are taken apart
  there (`SumTo`, by the same lemmas on `MapThenSumSet` as the VRAM budget).

Where a model computes by a recursive function, as it does the starts of a plan's chunks,
or leaves a number to `CHOOSE` or to division, the proofs describe the result by a formula
(`IsQuotient`, `Converts`, `IsSpread`, `IsChain`) and show that what the model computes
satisfies it, by `LeastExists` where it takes a number of rounds.

### Types of the services

`TypesHold`, in `RenderingProofs`, is `TypesOK`: all 24 services stay within their types.
For most the type is a part of the invariant that the theorems above need (a bound on the
ledger, on takes, on the tries of a call); the rest follows from it: that no more is in a
queue than its size, that a track has a frame for each time it was seen, that a plan
counts missing inputs with natural numbers. `ServicesTyped`, `AccountInvariant` and
`RenderingTyped` join them, with the invariants of the publications and of the GPU worker.

### Rendering and publication

`RenderingProofs` proves, for any models, jobs, artifacts, nodes, creators and chunks:

* `BudgetHolds`: the VRAM budget and the ranks of evictions. The budget is about a sum
  that `MapThenSumSet` defines by recursion over sets, in an order that `CHOOSE` picks:
  `SumExists` builds that function, `SumsAgree`, `SumOfAny` and `SumOfPart` say that the
  order does not matter and what can be taken out of the sum;
* `OrderHolds`, which joins three invariants:
  - `JobsInvariant`: no job runs or ends before all that it needs has completed.
    `LoopHolds` follows Kahn's loop for any number of rounds (what is in the result
    stands after what it needs, what is ready needs nothing else), so a result that is
    long enough is an order of all jobs (`ValidIsOrdered`), and so of any jobs one
    needs none of the others (`OneIsFirst`): the graph cannot get stuck by itself;
  - `ArtifactsInvariant`: a plan has the least set that its roots are in and nothing
    leaves, each artifact's degree is the number of its inputs that are still missing,
    and the queue holds exactly those with none; at its end nothing can be left out,
    since artifacts are added on earlier ones only (`GraphGrows`);
  - `RenderInvariant`: what each node met when the cursor passed it, so that none is
    complete without its inputs, and a plan in order is complete as far as the cursor is.

  The two searches, `affected_by` and `descendants`, are one: `SearchExists` builds its
  rounds, `SearchIsLeast` and `SearchCloses` say that as many rounds as there are nodes
  find whatever can be reached, and nothing else;
* `PublishedOnce`: `PackageCreation` and `DerivativeRun` both implement `PublishOnce`;
* `OutcomesReal`: how a creation, a derivative or a GPU job ended is what it left behind.
  A staged file may remain where its `unlink` failed or the process died; the temporary
  directory of a package is not spoken of. The part about the GPU worker comes from the
  invariant of `WorkerSupervisor`, since `GpuSupervisor` takes its steps from there.

### What is assumed of the constants

`StudioConstants` collects what these proofs assume of the constants, each stated and
justified by the component's own module: bounds that the settings' models validate
(`FitConstants`, `SpeechConstants`, `EntityConstants`, `AnalysisConstants`,
`SubtitleConstants`), finite catalogues (`VramConstants`, `InvalidationConstants`), plans
that are lists (`RenderConstants`), identities that differ from the null value, migrations
that are sequences of checksums, bounds of the models that are numbers. Three of them say
more than that. `ClipConstants`: the clips that an editor begins with do not lie over one
another, which is up to the caller of `ui/editorial.py`. `ClockConstants`: rates are
positive, any two have their common rate among the rates, which `domain/time.py` computes
when it needs one, and the grid is fine enough to have the half ticks of each.
`RouterConstants`: there is an adapter, and a threshold above zero. TLC evaluates all of
them in the run `studio_services`.

### Only model-checked

* `WaitReturns`, a liveness property, which is out of the prover's reach.
* The dubbing pipeline, whose one property is violated.
* The violated properties, for which a counterexample says all there is to say.

## 6. Assumptions and limits

* `secrets.token_hex(16)` never returns a published nonce again; `flock` excludes
  other descriptors, also of the same process, and is freed when the process ends.
* A `ProjectLock` object is used by one thread at a time, a supervisor by one
  client thread plus a thread that cancels. The code documents no more.
* Nobody but the protocol writes the project directory, except for `Tamper` and the
  foreign directories and targets of `PackageCreation` and `DerivativeRun`. `Tamper`
  deletes or damages a record and never puts another whole one in its place, so the
  second comparison of `break_lock` (`project_lock.py:479`) decides nothing here.
* Workers are daemons and die with their process. One that outlives it for a while has
  nobody to report to and writes no row, and counts as dead (`ProjectSession.Crash`).
* `ActiveNeverLost` and `WaitReturns` leave out the state that `start` keeps after an
  unnoticed death (`revived`): nothing says what it owes to the caller there.
* `circuit_states` of the router, which nothing calls between requests, takes the same
  look at each breaker as `complete` does, and is left out.
* SQLite transactions are atomic and a committed one survives a power failure
  (`synchronous=FULL`, `BEGIN IMMEDIATE`).
* Losing power takes any subset of the unsynced names; a synced file's bytes stay.
* Time is not modelled where it only passes: a deadline, a cooldown or the age of a
  stage may end at any moment.
* FFmpeg, recognizers, language models, the model manager and analyzers may answer
  anything the code that calls them lets through.
* Left out of the parts that are modelled: path and link checks that refuse to start
  (they change no state), the contents of records, manifests and messages, the
  reconciler's report, audit events of the database, and queries.

### Not modelled

* Widgets, windows, styles, view models and screens (`ui/` but for the undo history
  and clip edits; about 11 000 lines): they draw, and call the services. Their one
  shared state, `ShellState`, is read and written by one thread.
* The command line, benchmarks, diagnostics, packaging scripts, localisation:
  arguments, reports and tables.
* Formats (interchange, subtitles, export), validators of the domain and contract
  models, configuration, credentials and logging: pure functions of their input, with
  no state to be wrong about.
* Signal processing, separation, quality scores and detectors: numerical.
* Model adapters and the handlers of the TTS and lip-sync workers: one call into a
  library each. HTTP clients: `LlmRouter` takes every answer they may give.
* Fleet and cluster scheduling, collaboration, cloud, analytics, security policies,
  glossary, performance and agent services: in-memory lists and dictionaries that one
  caller reads and writes, and nothing runs on.
* `recovery.py`, whose detection is a constant; the importer and the probe, which
  compute reports.
* Placement and assembly of voices and the turns of speakers: the code before them
  raises on every path that leads there.

These are most of the lines of the repository, which is why the map covers less of
it than the list of components might suggest.

### Seen on the way, covered by no run

Differences between what the code says and does that a run of its own would show no
better than the line does:

* `adapters/diarization_pyannote.py:192` uses `collections`, which its module does not
  import: `turns()` always raises `NameError`.
* `apply()` of the timing fitter uses `Path`, which its module does not import
  (`timing_fitter.py:222`), and raises `NameError` on every take. Behind that the stretch
  is applied in the wrong direction: l.159 computes target over length, and
  `media/ffmpeg_ops.py:90` takes it for a tempo.
* A pipeline resumed after translation has no segments in memory; and the built-in
  two-line transcript turns dubbing off for films longer than about a minute.
* The manifest and the utterance store are copied over, not replaced: a death leaves
  half a file. A half manifest is begun afresh.
* `merge` clears an emotion that is locked (`transcript/service.py:615`).
* The take limit counts retired takes, so rejecting takes makes no room for others.
* `execute_render_plan` promises to "Execute nodes in dependency order"
  (`render_orchestrator.py:100-102`) and follows the order of insertion: a node in front of
  its dependency is skipped for good. Called twice, it renders complete nodes again.
* A take that comes in as `MASTER` stays one next to another (`take_manager.py:62-77`),
  where the docstring of the class (l.51) has one master at most.
* The breaker of the router has no lock (`router.py:94-109`). Parallel callers may lose
  failures, open it without a time stamp, after which it stays open, or take the time
  stamp away between its two reads in l.96, which raises a `TypeError` out of
  `complete()`. Nothing in the repository uses a router from several threads: only
  `pipeline/engine.py:59` builds one.
* With tolerance 0 the fitter accepts 111 milliseconds for a slot of 112 without a flag,
  since `int()` cuts the stretched length (`timing_fitter.py:171`).
* Evictions stand when the load they were made for fails.
* Two adapters of one kind share a breaker.
* `translate_batch` has two results for a line whose chunk failed midway, and reports
  unanswered lines as translated.
* An FFmpeg that outlives `kill` runs on behind errors that say it "has been stopped"
  (`derivatives.py:40,44`), and an overflow that is set between the check in l.224 and the
  last end mark goes unnoticed.
* A full queue drops the end-of-stream mark of a pipe (`derivatives.py:407-409`), and
  `run()` then waits for its deadline. An `unlink` that fails after the link raises
  although the derivative is published.
* `create()` leaves its temporary directory when the process dies, and raises when the
  opening after the rename fails, though the project exists.
* The catalog refuses a path registered to a project that has moved away.
* An older program is ready on a newer schema.
* A second analysis snapshot with an unchanged pending or finished stage is refused,
  and a cancelled run may become a failed one.
* `max_disappeared_frames` of the face tracker is read by nothing, and nothing checks that
  frame indexes rise (`face_tracker.py:174`).
* The GPU supervisor leaves a live worker behind when its handshake times out.
* A supervisor started again after an unnoticed death keeps the dead worker's job.
* `slip_edit` changes nothing; a resumed pause counts as an attempt of a domain job.
