---------------------------- MODULE DubbingPipeline ----------------------------
(***************************************************************************)
(* The dubbing engine (pipeline/engine.py): nine stages over one work      *)
(* directory, a manifest that is saved after each of them                  *)
(* (pipeline/manifest.py), and a process that may end at any point and is  *)
(* started again.  Media tools are external: a file is torn while one      *)
(* writes it and whole afterwards.                                         *)
(***************************************************************************)
EXTENDS Integers, Sequences, FiniteSets

CONSTANT MaxRuns    \* how often the engine is started

\* What the user asked for; speech: the transcript takes up a tenth of the film.
Configs == [keepMusic: BOOLEAN, diarize: BOOLEAN, dub: BOOLEAN, speech: BOOLEAN]

Stages == <<"extract_audio", "separate_stems", "diarize", "asr", "translate",
            "tts", "assemble", "mix", "mux">>

Files == {"origin_audio", "vocals", "music", "utterances", "voices",
          "dubbed_vocals", "dubbed_audio", "video"}

Made(stage) ==
    CASE stage = "extract_audio" -> {"origin_audio"}
      [] stage = "separate_stems" -> {"vocals", "music"}
      [] stage \in {"diarize", "asr"} -> {}
      [] stage = "translate" -> {"utterances"}
      [] stage = "tts" -> {"voices"}
      [] stage = "assemble" -> {"dubbed_vocals"}
      [] stage = "mix" -> {"dubbed_audio"}
      [] stage = "mux" -> {"video"}

\* Every stage but the mixing is recorded in the manifest; muxing is done
\* again all the same.
Recorded == {Stages[i] : i \in DOMAIN Stages} \ {"mix"}

VARIABLES
    config,
    disk,       \* the manifest file and the completed stages that it names
    files,      \* "absent", "torn" or "whole"
    sound,      \* what the video was muxed with: "none", "origin", "dub", "scrap"
    run,        \* the engine at work
    runs,
    raised      \* run() has raised by itself

vars == <<config, disk, files, sound, run, runs, raised>>

\* done: the manifest in memory; segs, placed and timed (bench is not empty):
\* the local variables of run(); dub: cfg.dub.
Off == [at |-> 0, phase |-> "off", done |-> {}, segs |-> FALSE,
        placed |-> FALSE, timed |-> FALSE, dub |-> FALSE]

Stage == Stages[run.at]

Init ==
    /\ config \in Configs
    /\ disk = [state |-> "absent", done |-> {}]
    /\ files = [f \in Files |-> "absent"]
    /\ sound = "none"
    /\ run = Off
    /\ runs = 0
    /\ raised = FALSE

\* load(): a manifest that cannot be read is begun afresh.
Load == disk.done

Start ==
    /\ run.phase = "off"
    /\ runs < MaxRuns
    /\ runs' = runs + 1
    /\ run' = [Off EXCEPT !.at = 1, !.phase = "ready", !.done = Load, !.dub = config.dub]
    /\ UNCHANGED <<config, disk, files, sound, raised>>

\* The guard of each stage, with what this process has in its hands.
Wanted(stage) ==
    CASE stage = "separate_stems" -> config.keepMusic
      [] stage = "diarize" -> config.diarize
      [] stage \in {"translate", "tts"} -> run.dub /\ run.segs
      [] stage = "assemble" -> run.dub /\ run.placed
      [] stage = "mix" -> config.keepMusic /\ "absent" \notin {files["music"], files["dubbed_vocals"]}
      [] OTHER -> TRUE

Due(stage) ==
    Wanted(stage) /\ (stage \in Recorded \ {"mux"} => stage \notin run.done)

Skip ==
    /\ run.phase = "ready"
    /\ ~Due(Stage)
    /\ run' = [run EXCEPT !.at = @ + 1]
    /\ UNCHANGED <<config, disk, files, sound, runs, raised>>

Work ==
    /\ run.phase = "ready"
    /\ Due(Stage)
    /\ files' = [f \in Files |-> IF f \in Made(Stage) THEN "torn" ELSE files[f]]
    /\ run' = [run EXCEPT !.phase = "working"]
    /\ UNCHANGED <<config, disk, sound, runs, raised>>

\* The audio that is muxed: the mix, the dub alone, or the original.
Muxed ==
    LET chosen == IF Wanted("mix") THEN "dubbed_audio"
                  ELSE IF files["dubbed_vocals"] # "absent" THEN "dubbed_vocals"
                  ELSE "origin_audio"
    IN  IF chosen = "origin_audio" THEN "origin"
        ELSE IF files["dubbed_vocals"] = "whole" THEN "dub" ELSE "scrap"

\* A stage is marked inside its own timer with the duration of the last entry
\* of bench, which the timer appends only when it is left.
Marks(stage) == stage \in Recorded

\* turns() of the diarizer uses a module that it does not import.
Raises(stage) == stage = "diarize" \/ (Marks(stage) /\ ~run.timed)

\* The tool is done and the stage marked.  There are no turns of speakers, so
\* recognition takes a built-in transcript; one that holds too little speech
\* for the length of the film turns dubbing off for this process.
Finish ==
    /\ run.phase = "working"
    /\ ~Raises(Stage)
    /\ files' = [f \in Files |-> IF f \in Made(Stage) THEN "whole" ELSE files[f]]
    /\ sound' = IF Stage = "mux" THEN Muxed ELSE sound
    /\ run' = [run EXCEPT
                 !.phase = IF Marks(Stage) THEN "marked" ELSE "ready",
                 !.at = IF Marks(Stage) THEN @ ELSE @ + 1,
                 !.done = @ \cup ({Stage} \cap Recorded),
                 !.timed = TRUE,
                 !.segs = @ \/ Stage = "asr",
                 !.dub = @ /\ (Stage = "asr" => config.speech),
                 !.placed = @ \/ Stage = "tts"]
    /\ UNCHANGED <<config, disk, runs, raised>>

\* bench[-1] of an empty list, or turns().
FinishRaises ==
    /\ run.phase = "working"
    /\ Raises(Stage)
    /\ files' = [f \in Files |-> IF f \in Made(Stage) THEN "whole" ELSE files[f]]
    /\ run' = Off
    /\ raised' = TRUE
    /\ UNCHANGED <<config, disk, sound, runs>>

\* save(): the temporary file is whole, the copy over the manifest is not
\* atomic.
SaveBegins ==
    /\ run.phase = "marked"
    /\ disk' = [state |-> "torn", done |-> {}]
    /\ run' = [run EXCEPT !.phase = "copying"]
    /\ UNCHANGED <<config, files, sound, runs, raised>>

SaveEnds ==
    /\ run.phase = "copying"
    /\ disk' = [state |-> "whole", done |-> run.done]
    /\ run' = [run EXCEPT !.phase = IF run.at = Len(Stages) THEN "delivered" ELSE "ready",
                          !.at = IF run.at = Len(Stages) THEN @ ELSE @ + 1]
    /\ UNCHANGED <<config, files, sound, runs, raised>>

\* Subtitles and benchmarks are written, the outputs returned.
Leave ==
    /\ run.phase = "delivered"
    /\ run' = Off
    /\ UNCHANGED <<config, disk, files, sound, runs, raised>>

\* The process ends, or a tool raises out of run().
Crash ==
    /\ run.phase \notin {"off", "delivered"}
    /\ run' = Off
    /\ UNCHANGED <<config, disk, files, sound, runs, raised>>

Next == Start \/ Skip \/ Work \/ Finish \/ FinishRaises \/ SaveBegins \/ SaveEnds \/ Leave \/ Crash

Spec == Init /\ [][Next]_vars

-----------------------------------------------------------------------------

\* engine.py l.63: "Execute complete end-to-end dubbing job": when no tool
\* fails and the process stays alive, run() goes through and delivers.
ToolsSufficeToDeliver == ~raised
=============================================================================
