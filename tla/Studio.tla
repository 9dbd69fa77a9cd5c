-------------------------------- MODULE Studio --------------------------------
(***************************************************************************)
(* The services of the studio side by side.  They share no state and call  *)
(* one another only through values, so a behaviour is about one of them,   *)
(* chosen at the start, and the others rest where they begin.              *)
(***************************************************************************)
EXTENDS TranscriptStore, Integers

CONSTANTS           \* what they are is said by the module of each component
    Services,       \* the services that are looked at, by name
    Ids, Texts, Speakers, Characters, Emotions, Ticks, Cuts, LockSets, Proposals, InitialLines,
    ProfileIds, ConsentIds, ProfileOffers, ConsentOffers, Requests, AnyArea, MaxLedger, MaxClock,
    Callers, Adapters, Threshold, MaxRetries, MaxFailures,
    TakeLengths, SlotLengths, Silences,
    Tolerances, TrimMax, StretchMax, ReviewThreshold, RateMin, RateMax,
    TakeIds, MaxTakes,
    Models, ModelSize, Priority, Budget,
    NumJobs, MaxDependencies,
    Keys, ArtifactKinds, RootKinds,
    Creators,
    QueueSize, MaxPrinted,
    Policies, MaxSamples, MaxChunks, MaxWords, MaxLength, Confidences,
    Apps, Migrations, Statements,
    Projects, Paths,
    AnalysisPlans, MaxShown,
    Blocks, MaxCues, Clocks, SubtitleRoundings, Durations, Lengths,
    NumLines, ChunkSize, Passes,
    RenderPlans,
    TimelineStates, MaxLevels,
    MaxFrame, MaxFaces,
    Rates, MaxTicks, Grid, MaxSlack, ClockRoundings,
    Tracks, MaxClips, Shifts,
    GpuJobs, MaxSubmits, MaxCancels, MaxResults,
    MaxAttempts

VARIABLES
    service,
    revision, lines, fact,
    profiles, consents, ledger, clock,
    failures, circuit, opened, call, blamed, crossed,
    fit,
    takes,
    loaded, verified, wanted,
    needs, completed, active, failed,
    nodes, kind, parents, plan,
    destination, building, creatorAt,
    derivativeAt, ffmpeg, printed, read, reader, messages, ended, overflowed, cancelled, late,
    staged, target, linked, outcome,
    samples, policy, speechAt, chunks, heard, words, waiting, kept, dropped,
    history, schema, appAt, appNext, writer, executed, backups,
    version, opening, rows, place, asked,
    work, stages, collected, shown,
    file, request, fileAt, furthest, conflicts, mapped, candidates, passed,
    start, phase, answer, lineNext, results,
    inputs, status, cursor, passes,
    timeline, undone, redone, past,
    frame, left, tracks, matched,
    rate, rangeStart, duration, lo, hi, slack,
    clips, gap, content,
    proc, gpuActive, gpuCall, jobq, ctlq, resq, wpc, wjob, sub, gpuAsked, gpuLast, revived,
    job, runs

Commands == INSTANCE TranscriptCommands
Rights == INSTANCE VoiceRights
Router == INSTANCE LlmRouter
Fitter == INSTANCE TimingFit
Takes == INSTANCE TakeManager
Vram == INSTANCE VramScheduler WITH Size <- ModelSize
Graph == INSTANCE JobGraph
Artifacts == INSTANCE InvalidationGraph WITH Kinds <- ArtifactKinds
Packages == INSTANCE PackageCreation WITH Nobody <- None, at <- creatorAt
Derivative == INSTANCE DerivativeRun WITH at <- derivativeAt
Speech == INSTANCE SpeechTranscription WITH at <- speechAt
Schema == INSTANCE SchemaMigration WITH Nobody <- None, at <- appAt, next <- appNext
Catalog == INSTANCE ProjectCatalog WITH Nowhere <- None
Analysis == INSTANCE AnalysisRun WITH Plans <- AnalysisPlans
Subtitles == INSTANCE SubtitleTrack WITH Roundings <- SubtitleRoundings, at <- fileAt
Batch == INSTANCE TranslationBatch WITH next <- lineNext
Render == INSTANCE RenderPlan WITH Plans <- RenderPlans, needs <- inputs
Undo == INSTANCE UndoHistory WITH States <- TimelineStates
Faces == INSTANCE FaceTracks
Clock == INSTANCE EditClock WITH Roundings <- ClockRoundings, start <- rangeStart
Clips == INSTANCE ClipTimeline
Gpu == INSTANCE GpuSupervisor WITH
    Jobs <- GpuJobs, NoJob <- None,
    active <- gpuActive, call <- gpuCall, asked <- gpuAsked, last <- gpuLast
Entity == INSTANCE JobEntity

ASSUME StudioConstants ==
    /\ Commands!CommandsConstants
    /\ Fitter!FitConstants /\ Vram!VramConstants /\ Graph!JobGraphConstants
    /\ Speech!SpeechConstants /\ Batch!BatchConstants /\ Undo!UndoConstants
    /\ Clock!ClockConstants /\ Packages!PackageConstants /\ Gpu!GpuConstants
    /\ Rights!RightsConstants /\ Router!RouterConstants
    /\ Schema!SchemaConstants /\ Entity!EntityConstants /\ Render!RenderConstants
    /\ Artifacts!InvalidationConstants /\ Analysis!AnalysisConstants
    /\ Subtitles!SubtitleConstants /\ Clips!ClipConstants /\ Takes!TakesConstants
    /\ Faces!FaceConstants /\ Derivative!DerivativeConstants

storeVars == <<snapshot, mutations, pc, view, result>>
commandsVars == <<revision, lines, fact>>
rightsVars == <<profiles, consents, ledger, clock>>
routerVars == <<failures, circuit, opened, call, blamed, crossed>>
vramVars == <<loaded, verified, wanted>>
jobsVars == <<needs, completed, active, failed>>
artifactsVars == <<nodes, kind, parents, plan>>
packagesVars == <<destination, building, creatorAt>>
derivativeVars == <<derivativeAt, ffmpeg, printed, read, reader, messages, ended, overflowed,
                    cancelled, late, staged, target, linked, outcome>>
speechVars == <<samples, policy, speechAt, chunks, heard, words, waiting, kept, dropped>>
schemaVars == <<history, schema, appAt, appNext, writer, executed, backups>>
catalogVars == <<version, opening, rows, place, asked>>
analysisVars == <<work, stages, collected, shown>>
subtitlesVars == <<file, request, fileAt, furthest, conflicts, mapped, candidates, passed>>
batchVars == <<start, phase, answer, lineNext, results>>
renderVars == <<inputs, status, cursor, passes>>
undoVars == <<timeline, undone, redone, past>>
facesVars == <<frame, left, tracks, matched>>
clockVars == <<rate, rangeStart, duration, lo, hi, slack>>
clipsVars == <<clips, gap, content>>
gpuVars == <<proc, gpuActive, gpuCall, jobq, ctlq, resq, wpc, wjob, sub, gpuAsked, gpuLast, revived>>
entityVars == <<job, runs>>

\* The components that begin in one state only do so in every behaviour.
StudioInit ==
    /\ service \in Services
    /\ Init /\ Commands!Init /\ Rights!Init /\ Router!Init /\ Fitter!Init /\ Takes!Init
    /\ Vram!Init /\ Packages!Init /\ Derivative!Init /\ Schema!Init /\ Catalog!Init
    /\ Batch!Init /\ Faces!Init /\ Gpu!Init /\ Entity!Init
    /\ \/ service = "analysis" /\ Analysis!Init
       \/ service # "analysis" /\ work = <<>> /\ stages = <<>> /\ collected = <<>> /\ shown = <<>>
    /\ \/ service = "subtitles" /\ Subtitles!Init
       \/ /\ service # "subtitles"
          /\ file = <<>> /\ request = None /\ fileAt = "parsing" /\ furthest = 0
          /\ conflicts = {} /\ mapped = <<>> /\ candidates = <<>> /\ passed = FALSE
    /\ \/ service = "render" /\ Render!Init
       \/ service # "render" /\ inputs = <<>> /\ status = <<>> /\ cursor = 1 /\ passes = 1
    /\ \/ service = "undo" /\ Undo!Init
       \/ service # "undo" /\ timeline = None /\ undone = <<>> /\ redone = <<>> /\ past = <<>>
    /\ \/ service = "speech" /\ Speech!Init
       \/ /\ service # "speech"
          /\ samples = 0 /\ policy = None /\ speechAt = "planning" /\ chunks = <<>> /\ heard = 0
          /\ words = {} /\ waiting = {} /\ kept = <<>> /\ dropped = {}
    /\ \/ service = "jobs" /\ Graph!Init
       \/ service # "jobs" /\ needs = <<>> /\ completed = {} /\ active = {} /\ failed = {}
    /\ \/ service = "artifacts" /\ Artifacts!Init
       \/ service # "artifacts" /\ kind = <<>> /\ nodes = {} /\ parents = <<>> /\ plan = None
    /\ \/ service = "clock" /\ Clock!Init
       \/ /\ service # "clock"
          /\ rate = <<1, 1>> /\ rangeStart = 0 /\ duration = 0
          /\ lo = 0 /\ hi = 0 /\ slack = 0
    /\ \/ service = "clips" /\ Clips!Init
       \/ service # "clips" /\ clips = <<>> /\ gap = 0 /\ content = 0

StudioNext ==
    /\ UNCHANGED service
    /\ \/ service = "store" /\ Next
       \/ service # "store" /\ UNCHANGED storeVars
    /\ \/ service = "commands" /\ Commands!Next
       \/ service # "commands" /\ UNCHANGED commandsVars
    /\ \/ service = "rights" /\ Rights!Next
       \/ service # "rights" /\ UNCHANGED rightsVars
    /\ \/ service = "router" /\ Router!Next
       \/ service # "router" /\ UNCHANGED routerVars
    /\ \/ service = "fitter" /\ Fitter!Next
       \/ service # "fitter" /\ UNCHANGED fit
    /\ \/ service = "takes" /\ Takes!Next
       \/ service # "takes" /\ UNCHANGED takes
    /\ \/ service = "vram" /\ Vram!Next
       \/ service # "vram" /\ UNCHANGED vramVars
    /\ \/ service = "jobs" /\ Graph!Next
       \/ service # "jobs" /\ UNCHANGED jobsVars
    /\ \/ service = "artifacts" /\ Artifacts!Next
       \/ service # "artifacts" /\ UNCHANGED artifactsVars
    /\ \/ service = "packages" /\ Packages!Next
       \/ service # "packages" /\ UNCHANGED packagesVars
    /\ \/ service = "derivative" /\ Derivative!Next
       \/ service # "derivative" /\ UNCHANGED derivativeVars
    /\ \/ service = "speech" /\ Speech!Next
       \/ service # "speech" /\ UNCHANGED speechVars
    /\ \/ service = "schema" /\ Schema!Next
       \/ service # "schema" /\ UNCHANGED schemaVars
    /\ \/ service = "catalog" /\ Catalog!Next
       \/ service # "catalog" /\ UNCHANGED catalogVars
    /\ \/ service = "analysis" /\ Analysis!Next
       \/ service # "analysis" /\ UNCHANGED analysisVars
    /\ \/ service = "subtitles" /\ Subtitles!Next
       \/ service # "subtitles" /\ UNCHANGED subtitlesVars
    /\ \/ service = "batch" /\ Batch!Next
       \/ service # "batch" /\ UNCHANGED batchVars
    /\ \/ service = "render" /\ Render!Next
       \/ service # "render" /\ UNCHANGED renderVars
    /\ \/ service = "undo" /\ Undo!Next
       \/ service # "undo" /\ UNCHANGED undoVars
    /\ \/ service = "faces" /\ Faces!Next
       \/ service # "faces" /\ UNCHANGED facesVars
    /\ \/ service = "clock" /\ Clock!Next
       \/ service # "clock" /\ UNCHANGED clockVars
    /\ \/ service = "clips" /\ Clips!Next
       \/ service # "clips" /\ UNCHANGED clipsVars
    /\ \/ service = "gpu" /\ Gpu!Next
       \/ service # "gpu" /\ UNCHANGED gpuVars
    /\ \/ service = "entity" /\ Entity!Next
       \/ service # "entity" /\ UNCHANGED entityVars

studioVars == <<service, storeVars, commandsVars, rightsVars, routerVars, fit, takes,
                vramVars, jobsVars, artifactsVars, packagesVars, derivativeVars, speechVars,
                schemaVars, catalogVars, analysisVars, subtitlesVars, batchVars, renderVars,
                undoVars, facesVars, clockVars, clipsVars, gpuVars,
                entityVars>>

StudioSpec == StudioInit /\ [][StudioNext]_studioVars

-----------------------------------------------------------------------------

\* The component that a behaviour is about keeps its types.
TypesOK ==
    /\ service = "store" => TypeOK
    /\ service = "commands" => Commands!TypeOK
    /\ service = "rights" => Rights!TypeOK
    /\ service = "router" => Router!TypeOK
    /\ service = "fitter" => Fitter!TypeOK
    /\ service = "takes" => Takes!TypeOK
    /\ service = "vram" => Vram!TypeOK
    /\ service = "jobs" => Graph!TypeOK
    /\ service = "artifacts" => Artifacts!TypeOK
    /\ service = "packages" => Packages!TypeOK
    /\ service = "derivative" => Derivative!TypeOK
    /\ service = "speech" => Speech!TypeOK
    /\ service = "schema" => Schema!TypeOK
    /\ service = "catalog" => Catalog!TypeOK
    /\ service = "analysis" => Analysis!TypeOK
    /\ service = "subtitles" => Subtitles!TypeOK
    /\ service = "batch" => Batch!TypeOK
    /\ service = "render" => Render!TypeOK
    /\ service = "undo" => Undo!TypeOK
    /\ service = "faces" => Faces!TypeOK
    /\ service = "clock" => Clock!TypeOK
    /\ service = "clips" => Clips!TypeOK
    /\ service = "gpu" => Gpu!TypeOK
    /\ service = "entity" => Entity!TypeOK

\* transcript/service.py: an approval is of the content that was approved.
ApprovalIsOfContent == Commands!ApprovalIsOfContent

\* transcript/service.py: a locked text, timing, speaker or character stays in
\* the line and in what a split or merge makes of it. Of a locked emotion, which
\* merge clears (l.615), nothing is said.
LockedFieldsHold == Commands!LockedFieldsHold

\* transcript/service.py: the roots name everything that changed.
RootsCoverChanges == Commands!RootsCoverChanges

\* voice_rights_service.py: for every authorised use the ledger has a profile
\* that allows it and, where one is needed, a consent that grants it.
LedgerExplainsUse == service = "rights" => Rights!LedgerExplainsUse

\* voice_rights_service.py l.55: revocation blocks further synthesis.
RevocationBlocks == service = "rights" => Rights!RevocationBlocks

\* router.py: whatever races in a breaker, it opens for failures only, and only
\* the trouble of every kind exhausts a request.
RouterFailsOver == service = "router" => Router!RouterFailsOver

\* timing_fitter.py: a take out of tolerance is flagged, but for a millisecond
\* where nothing is tolerated, and trimming spares speech.
FitIsHonest == service = "fitter" => Fitter!FitIsHonest

\* vram_scheduler.py: the budget is kept, and only lower models give way.
BudgetAndRankKept == service = "vram" => Vram!BudgetAndRankKept

\* take_manager.py, catalog.py, undo_redo.py: what the user chose is what is
\* there: the master to render, and no second one but a take that came in as
\* one, the pin last asked for and one project to a path, and a timeline that
\* undo() takes back along its own states.
ChoicesAreKept ==
    /\ service = "takes" => Takes!RenderQueueHasItsTake
    /\ service = "catalog" => Catalog!CatalogKeepsPins
    /\ service = "undo" => Undo!HistoryIsALine

\* graph.py, invalidation.py, render_orchestrator.py: a job or a node runs
\* after what it needs, a partial render is of what is stale, once, and a plan
\* that has its nodes in the order of their dependencies is rendered whole.
RendersInOrder ==
    /\ service = "jobs" => Graph!DispatchIsSound
    /\ service = "artifacts" => Artifacts!PartialRenderIsExact
    /\ service = "render" => Render!RendersFromInputs

\* projects.py, derivatives.py: of several creators one publishes a whole
\* package, and a derivative is published once and whole.
PublishesOnce == Packages!PublishesOnePackage /\ Derivative!PublishesDerivativeOnce

\* projects.py, derivatives.py, gpu_supervisor.py: how a call ended is what it
\* left behind.
OutcomesAreReal ==
    /\ service = "packages" => Packages!ReturnsItsPackage
    /\ service = "derivative" => Derivative!DerivativeRunIsClean
    /\ service = "gpu" => Gpu!OneJobOnTheGpu

\* chunking.py, merge.py, subtitle_ingest, translation_pipeline.py,
\* face_tracker.py, time.py, editorial.py, aggregation.py: no sample, word, cue,
\* line, instant, clip or progress gets lost on its way, comes twice where it
\* may not, or ends up elsewhere, and a track has one face in a frame.
SourceIsAccountedFor ==
    /\ service = "speech" => Speech!SpeechIsAccountedFor
    /\ service = "subtitles" => Subtitles!SubtitlesKeepTheirTime
    /\ service = "batch" => Batch!BatchAnswersEveryLine
    /\ service = "faces" => Faces!ATrackIsOneFace
    /\ service = "clock" => Clock!ClockKeepsInstants
    /\ service = "clips" => Clips!ClipsStayApart
    /\ service = "analysis" => Analysis!ShownIsNeverTakenBack

\* merge.py: a word that was dropped can be traced to one that stayed.
DropsNameRetained == service = "speech" => Speech!DropsNameRetained

\* migrations.py, job.py: half a migration is never in effect, nor a mixed
\* line, and a job that has gone through several attempts can still take every
\* step it is allowed.
OnlyWholeSteps ==
    /\ service = "schema" => Schema!MigrationsAreWhole
    /\ service = "entity" => Entity!MachineIsUsable
=============================================================================
