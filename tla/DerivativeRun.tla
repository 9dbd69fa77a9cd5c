----------------------------- MODULE DerivativeRun -----------------------------
(***************************************************************************)
(* Making a derivative with FFmpeg (media/derivatives.py): the process and *)
(* its two pipes, a thread per pipe that puts what it reads into a bounded *)
(* queue, the loop that empties the queue and watches for cancellation,    *)
(* deadline and overflow, and the publication of the staged file by a hard *)
(* link.  FFmpeg and the other publishers of the target are external.      *)
(***************************************************************************)
EXTENDS Integers, Sequences, FiniteSets

CONSTANTS
    QueueSize,      \* maxsize of the message queue
    MaxPrinted      \* bound on the chunks FFmpeg prints into a pipe

DerivativeConstants == QueueSize \in Nat \ {0} /\ MaxPrinted \in Nat

Pipes == {"stdout", "stderr"}

VARIABLES
    at,         \* how far generate() got
    ffmpeg,     \* "none", "running", "done" (exit code 0), "bad", "killed"
    printed,    \* printed[r]: chunks put into a pipe
    read,       \* read[r]: chunks taken out of it
    reader,     \* reader[r]: "reading", "closing" (about to put the end), "gone"
    messages,   \* the queue
    ended,      \* eof_streams
    overflowed, cancelled, late,
    staged,     \* the staged file: "absent", "partial", "whole"
    target,     \* "absent", "mine" (a link to the staged file), "rival"
    linked,     \* the content of the file that was linked, as it is now
    outcome     \* "none", "result" or the reason why generate() raises

processVars == <<ffmpeg, printed>>
readerVars == <<read, reader>>
fileVars == <<staged, target, linked>>
vars == <<at, processVars, readerVars, messages, ended, overflowed, cancelled, late,
          fileVars, outcome>>

Init ==
    /\ at = "idle"
    /\ ffmpeg = "none"
    /\ printed = [r \in Pipes |-> 0] /\ read = [r \in Pipes |-> 0]
    /\ reader = [r \in Pipes |-> "gone"]
    /\ messages = <<>> /\ ended = {}
    /\ overflowed = FALSE /\ cancelled = FALSE /\ late = FALSE
    /\ staged = "absent" /\ target = "absent" /\ linked = "absent"
    /\ outcome = "none"

Raise(reason) == at' = "cleanup" /\ outcome' = reason

-----------------------------------------------------------------------------
\* External: FFmpeg.  A write to the staged file is one to its link as well.

Prints(r) ==
    /\ ffmpeg = "running" /\ printed[r] < MaxPrinted
    /\ printed' = [printed EXCEPT ![r] = @ + 1]
    /\ UNCHANGED <<at, ffmpeg, readerVars, messages, ended, overflowed, cancelled, late,
                   fileVars, outcome>>

\* FFmpeg still makes the file if there is none.  One that was killed makes
\* none, whenever it ends.
Opens == at \in {"loop", "listening", "stopping"} \/ outcome = "died"

Write(content) ==
    /\ ffmpeg = "running" /\ content # staged
    /\ staged' = IF staged = "absent" /\ ~Opens THEN "absent" ELSE content
    /\ linked' = IF target = "mine" THEN content ELSE linked
    /\ UNCHANGED <<at, processVars, readerVars, messages, ended, overflowed, cancelled, late,
                   target, outcome>>

\* FFmpeg ends with code 0 when its output is whole, or when it wrote none.
Exit(code) ==
    /\ ffmpeg = "running"
    /\ code = "done" => staged # "partial"
    /\ ffmpeg' = code
    /\ UNCHANGED <<at, printed, readerVars, messages, ended, overflowed, cancelled, late,
                   fileVars, outcome>>

-----------------------------------------------------------------------------
\* _start_pipe_reader()

PipeRead(r) ==
    /\ reader[r] = "reading" /\ read[r] < printed[r]
    /\ read' = [read EXCEPT ![r] = @ + 1]
    /\ \/ /\ Len(messages) < QueueSize
          /\ messages' = Append(messages, <<r, "chunk">>)
          /\ UNCHANGED <<reader, overflowed>>
       \/ \* too many bytes, or the queue stays full
          /\ overflowed' = TRUE
          /\ reader' = [reader EXCEPT ![r] = "closing"]
          /\ UNCHANGED messages
    /\ UNCHANGED <<at, processVars, ended, cancelled, late, fileVars, outcome>>

PipeEnd(r) ==
    /\ reader[r] = "reading" /\ read[r] = printed[r] /\ ffmpeg # "running"
    /\ reader' = [reader EXCEPT ![r] = "closing"]
    /\ UNCHANGED <<at, processVars, read, messages, ended, overflowed, cancelled, late,
                   fileVars, outcome>>

\* The end is put into the queue, unless the queue stays full.
PipeClose(r) ==
    /\ reader[r] = "closing"
    /\ reader' = [reader EXCEPT ![r] = "gone"]
    /\ \/ Len(messages) < QueueSize /\ messages' = Append(messages, <<r, "end">>)
       \/ Len(messages) = QueueSize /\ UNCHANGED messages
    /\ UNCHANGED <<at, processVars, read, ended, overflowed, cancelled, late, fileVars, outcome>>

-----------------------------------------------------------------------------
\* SubprocessCommandRunner.run()

\* generate() looks at the target first; then FFmpeg starts, or does not.
Begin ==
    /\ at = "idle"
    /\ \/ /\ target # "absent"
          /\ at' = "over" /\ outcome' = "exists"
          /\ UNCHANGED <<ffmpeg, reader>>
       \/ /\ target = "absent"
          /\ Raise("failed")
          /\ UNCHANGED <<ffmpeg, reader>>
       \/ /\ target = "absent"
          /\ at' = "loop"
          /\ ffmpeg' = "running"
          /\ reader' = [r \in Pipes |-> "reading"]
          /\ UNCHANGED outcome
    /\ UNCHANGED <<printed, read, messages, ended, overflowed, cancelled, late, fileVars>>

\* The condition of the loop: something may still come.
Going == ffmpeg = "running" \/ ended # Pipes \/ messages # <<>>

\* Looked at in this order.
Trouble ==
    IF cancelled THEN "cancelled" ELSE IF late THEN "late"
    ELSE IF overflowed THEN "failed" ELSE "none"

\* What comes up after the look goes unnoticed if this is the last round.
Look ==
    /\ at = "loop" /\ Going /\ Trouble = "none"
    /\ at' = "listening"
    /\ UNCHANGED <<processVars, readerVars, messages, ended, overflowed, cancelled, late,
                   fileVars, outcome>>

Receive ==
    /\ at = "listening" /\ messages # <<>>
    /\ messages' = Tail(messages)
    /\ \/ /\ Head(messages)[2] = "end"
          /\ ended' = ended \cup {Head(messages)[1]}
          /\ at' = "loop" /\ UNCHANGED outcome
       \/ /\ Head(messages)[2] = "chunk"
          /\ at' = "loop" /\ UNCHANGED <<outcome, ended>>
       \/ \* a progress line that the parser or the callback refuses
          /\ Head(messages) = <<"stdout", "chunk">>
          /\ at' = "stopping" /\ outcome' = "failed"
          /\ UNCHANGED ended
    /\ UNCHANGED <<processVars, readerVars, overflowed, cancelled, late, fileVars>>

\* queue.Empty
ReceiveNothing ==
    /\ at = "listening" /\ messages = <<>>
    /\ at' = "loop"
    /\ UNCHANGED <<processVars, readerVars, messages, ended, overflowed, cancelled, late,
                   fileVars, outcome>>

Break ==
    /\ at = "loop" /\ Going /\ Trouble # "none"
    /\ at' = "stopping" /\ outcome' = Trouble
    /\ UNCHANGED <<processVars, readerVars, messages, ended, overflowed, cancelled, late,
                   fileVars>>

\* _stop_process(): asked to end, then killed.  The kernel may need longer
\* than the grace.
Stop ==
    /\ at = "stopping"
    /\ ffmpeg' \in IF ffmpeg = "running" THEN {"running", "killed"} ELSE {ffmpeg}
    /\ at' = "cleanup"
    /\ UNCHANGED <<printed, readerVars, messages, ended, overflowed, cancelled, late,
                   fileVars, outcome>>

Return ==
    /\ at = "loop" /\ ~Going
    /\ \/ ffmpeg = "done" /\ at' = "ran" /\ UNCHANGED outcome
       \/ ffmpeg # "done" /\ Raise("failed")
    /\ UNCHANGED <<processVars, readerVars, messages, ended, overflowed, cancelled, late,
                   fileVars>>

-----------------------------------------------------------------------------
\* DerivativeGenerator.generate(), after the run

Validate ==
    /\ at = "ran"
    /\ \/ cancelled /\ Raise("cancelled")
       \/ ~cancelled /\ staged = "absent" /\ Raise("failed")
       \/ ~cancelled /\ staged # "absent" /\ at' = "valid" /\ UNCHANGED outcome
    /\ UNCHANGED <<processVars, readerVars, messages, ended, overflowed, cancelled, late,
                   fileVars>>

\* The probe's verdict, and the digest with looks at the signal.
Hash ==
    /\ at = "valid"
    /\ \/ cancelled /\ Raise("cancelled")
       \/ Raise("failed")
       \/ ~cancelled /\ at' = "hashed" /\ UNCHANGED outcome
    /\ UNCHANGED <<processVars, readerVars, messages, ended, overflowed, cancelled, late,
                   fileVars>>

\* The flush and the last look at the signal.
Flush ==
    /\ at = "hashed"
    /\ \/ cancelled /\ Raise("cancelled")
       \/ ~cancelled /\ at' = "flushed" /\ UNCHANGED outcome
    /\ UNCHANGED <<processVars, readerVars, messages, ended, overflowed, cancelled, late,
                   fileVars>>

\* Mutant: a rename, which takes the place of what is there.
ReplaceTarget ==
    /\ at = "flushed"
    /\ at' = "linked" /\ target' = "mine" /\ linked' = staged
    /\ UNCHANGED <<processVars, readerVars, messages, ended, overflowed, cancelled, late,
                   staged, outcome>>

Link ==
    /\ at = "flushed"
    /\ \/ /\ target = "absent"
          /\ at' = "linked" /\ target' = "mine" /\ linked' = staged
          /\ UNCHANGED outcome
       \/ /\ target = "rival"
          /\ Raise("exists")
          /\ UNCHANGED <<target, linked>>
       \/ /\ Raise("failed")
          /\ UNCHANGED <<target, linked>>
    /\ UNCHANGED <<processVars, readerVars, messages, ended, overflowed, cancelled, late,
                   staged>>

\* staged_path.unlink() and the return; what raises here is raised although
\* the derivative is published.
Unlink ==
    /\ at = "linked"
    /\ \/ staged' = "absent" /\ at' = "over" /\ outcome' = "result"
       \/ UNCHANGED staged /\ Raise("unlink")
    /\ UNCHANGED <<processVars, readerVars, messages, ended, overflowed, cancelled, late,
                   target, linked>>

\* Mutant: nobody removes the staged file of a run that failed.
CleanupSkipped ==
    /\ at = "cleanup"
    /\ at' = "over"
    /\ UNCHANGED <<processVars, readerVars, messages, ended, overflowed, cancelled, late,
                   fileVars, outcome>>

\* The finally clause of generate(): only a missing file is no error.
Cleanup ==
    /\ at = "cleanup"
    /\ at' = "over"
    /\ \/ staged' = "absent" /\ UNCHANGED outcome
       \/ staged # "absent" /\ UNCHANGED staged /\ outcome' = "unlink"
    /\ UNCHANGED <<processVars, readerVars, messages, ended, overflowed, cancelled, late,
                   target, linked>>

-----------------------------------------------------------------------------

\* The caller cancels, time passes, another operation publishes the target.
Signal ==
    /\ at \notin {"idle", "over"}
    /\ \/ ~cancelled /\ cancelled' = TRUE /\ UNCHANGED late
       \/ ~late /\ at \in {"loop", "listening"} /\ late' = TRUE /\ UNCHANGED cancelled
    /\ UNCHANGED <<at, processVars, readerVars, messages, ended, overflowed, fileVars, outcome>>

RivalPublishes ==
    /\ target = "absent"
    /\ target' = "rival"
    /\ UNCHANGED <<at, processVars, readerVars, messages, ended, overflowed, cancelled, late,
                   staged, linked, outcome>>

\* The process of the generator dies; FFmpeg, in a session of its own, may go
\* on, and the staged file stays.
Die ==
    /\ at \notin {"idle", "over"}
    /\ at' = "over" /\ outcome' = "died"
    /\ reader' = [r \in Pipes |-> "gone"]
    /\ UNCHANGED <<processVars, read, messages, ended, overflowed, cancelled, late, fileVars>>

Next ==
    \/ Begin \/ Look \/ Receive \/ ReceiveNothing \/ Break \/ Stop \/ Return
    \/ Validate \/ Hash \/ Flush \/ Link \/ Unlink \/ Cleanup
    \/ \E r \in Pipes : Prints(r) \/ PipeRead(r) \/ PipeEnd(r) \/ PipeClose(r)
    \/ \E content \in {"partial", "whole"} : Write(content)
    \/ \E code \in {"done", "bad"} : Exit(code)
    \/ Signal \/ RivalPublishes \/ Die

Spec == Init /\ [][Next]_vars

-----------------------------------------------------------------------------

TypeOK ==
    /\ ffmpeg \in {"none", "running", "done", "bad", "killed"}
    /\ printed \in [Pipes -> 0..MaxPrinted]
    /\ \A r \in Pipes : read[r] \in 0..printed[r]
    /\ reader \in [Pipes -> {"reading", "closing", "gone"}]
    /\ Len(messages) <= QueueSize
    /\ ended \subseteq Pipes
    /\ staged \in {"absent", "partial", "whole"} /\ target \in {"absent", "mine", "rival"}

Once == INSTANCE PublishOnce WITH
    Values <- {<<"mine", "whole">>, <<"rival", "whole">>}, Nothing <- <<>>,
    place <- CASE target = "absent" -> <<>>
               [] target = "mine" -> <<"mine", linked>>
               [] target = "rival" -> <<"rival", "whole">>

\* "Execute into a private staging name, validate, then publish once" (l.291):
\* the target gets one whole derivative, which nothing replaces and FFmpeg no
\* longer writes to, however the process, the pipes and the signals race.
PublishesDerivativeOnce == Once!Spec

\* Whatever way generate() ends, it says what it did: a result is published,
\* and one that is cancelled, late or failed has published nothing and left
\* no staged file, unless removing it failed or the process died; FFmpeg has
\* ended unless it outlived being killed, which l.40 and 44 ("has been stopped")
\* do not expect.
DerivativeRunIsClean ==
    at = "over" =>
        /\ outcome = "result" => target = "mine" /\ staged = "absent"
        /\ outcome \in {"cancelled", "late", "failed", "exists"} =>
             target # "mine" /\ staged = "absent"
        /\ ffmpeg = "running" => outcome \in {"cancelled", "late", "failed", "unlink", "died"}
=============================================================================
