----------------------------- MODULE SubtitleTrack -----------------------------
(***************************************************************************)
(* A subtitle file on its way into a transcript: the cues are parsed       *)
(* (subtitles/codec.py), scanned one by one and moved to the edit clock    *)
(* (subtitle_ingest/service.py, domain/time.py), and become candidates all *)
(* together or not at all.  Broadcast rules (subtitles/qc.py) look at the  *)
(* same cues.  Wording, identifiers and encodings are left out.            *)
(***************************************************************************)
EXTENDS Integers, Sequences, FiniteSets

CONSTANTS
    Blocks,         \* the cues a file may hold: [start, end], in milliseconds
    MaxCues,        \* maximum_cues; a file with more is refused outright
    Clocks,         \* edit ticks per millisecond, as <<numerator, denominator>>
    Roundings,      \* the policies; "exact" is none
    Durations,      \* of the media
    Lengths         \* what the broadcast rules allow a cue to last

VARIABLES
    file, request,  \* the input: blocks; [clock, rounding, duration]
    at,             \* "parsing", "scanning", "done" or "refused"
    furthest,       \* the cue that ends last among those scanned, 0 for none
    conflicts,      \* <<cue, related cue or 0, code>>
    mapped,         \* edit ranges of the cues scanned, NoRange when there is none
    candidates,
    passed          \* the verdict of the broadcast rules

vars == <<file, request, at, furthest, conflicts, mapped, candidates, passed>>

SubtitleConstants ==
    /\ Blocks \subseteq [start: Nat, end: Nat]
    /\ Clocks \subseteq (Nat \ {0}) \X (Nat \ {0})
    /\ Roundings \subseteq {"exact", "floor", "toward_zero", "ceil", "nearest_even"}

NoRange == [start |-> 0, end |-> 0]

\* _round_fraction(), for what is not negative.
Rounded(n, d, rounding) ==
    LET quotient == n \div d
        twice == 2 * (n % d)
    IN  CASE rounding \in {"floor", "toward_zero"} -> quotient
          [] rounding = "ceil" -> -((-n) \div d)
          [] rounding = "nearest_even" ->
               IF twice > d \/ (twice = d /\ quotient % 2 = 1) THEN quotient + 1 ELSE quotient

\* rescale_ticks(): without a policy a lossy conversion is refused.
Exact(ticks) ==
    (ticks * request.clock[1]) % request.clock[2] = 0

Rescaled(ticks) ==
    IF Exact(ticks) THEN (ticks * request.clock[1]) \div request.clock[2]
    ELSE Rounded(ticks * request.clock[1], request.clock[2], request.rounding)

Representable(cue) ==
    request.rounding # "exact" \/ (Exact(cue.start) /\ Exact(cue.end))

\* Mutant: the length is converted, as the start is.
MappedByLength(cue) ==
    LET start == Rescaled(cue.start)
    IN  [start |-> start, end |-> start + Rescaled(cue.end - cue.start)]

\* TimeRange.rescaled_to(): both ends are converted.
Mapped(cue) == [start |-> Rescaled(cue.start), end |-> Rescaled(cue.end)]

Init ==
    /\ file \in UNION {[1..n -> Blocks] : n \in 0..MaxCues}
    /\ request \in [clock: Clocks, rounding: Roundings, duration: Durations]
    /\ at = "parsing" /\ furthest = 0
    /\ conflicts = {} /\ mapped = <<>> /\ candidates = <<>> /\ passed = FALSE

\* parse_srt(), parse_webvtt(): a cue ends after it starts, and cues are in
\* the order of their starts.
Legible ==
    /\ \A n \in DOMAIN file : file[n].start < file[n].end
    /\ \A n \in 2 .. Len(file) : file[n - 1].start <= file[n].start

Parse ==
    /\ at = "parsing"
    /\ at' = IF Legible THEN "scanning" ELSE "refused"
    /\ UNCHANGED <<file, request, furthest, conflicts, mapped, candidates, passed>>

\* Mutant: a cue is compared with the one before it.
ConflictsNearby(n) ==
    LET cue == file[n]
        overlap == n > 1 /\ cue.start < file[n - 1].end
    IN  (IF overlap THEN {<<n, n - 1, "overlap">>} ELSE {})
        \cup (IF cue.end > request.duration THEN {<<n, 0, "outside_media">>} ELSE {})
        \cup (IF ~Representable(cue) THEN {<<n, 0, "not_exact">>}
              ELSE IF Mapped(cue).start = Mapped(cue).end THEN {<<n, 0, "collapsed">>}
              ELSE {})

\* What is wrong with a cue, which is compared with the one that ends last.
Conflicts(n) ==
    LET cue == file[n]
        overlap == furthest # 0 /\ cue.start < file[furthest].end
    IN  (IF overlap THEN {<<n, furthest, "overlap">>} ELSE {})
        \cup (IF cue.end > request.duration THEN {<<n, 0, "outside_media">>} ELSE {})
        \cup (IF ~Representable(cue) THEN {<<n, 0, "not_exact">>}
              ELSE IF Mapped(cue).start = Mapped(cue).end THEN {<<n, 0, "collapsed">>}
              ELSE {})

\* _validate_timing(), one turn of its loop.
Scan ==
    LET n == Len(mapped) + 1
    IN  /\ at = "scanning" /\ n <= Len(file)
        /\ conflicts' = conflicts \cup Conflicts(n)
        /\ mapped' = Append(mapped, IF Representable(file[n]) THEN Mapped(file[n]) ELSE NoRange)
        /\ furthest' = IF furthest = 0 \/ file[furthest].end < file[n].end THEN n ELSE furthest
        /\ UNCHANGED <<file, request, at, candidates, passed>>

\* An overlap is a warning, everything else blocks.
Blocking == {c \in conflicts : c[3] # "overlap"}

\* SubtitleQcEngine.check(): each cue and the one before it.
Errors(n) ==
    (IF file[n].end - file[n].start \notin Lengths THEN {"duration"} ELSE {})
    \cup (IF n > 1 /\ file[n].start < file[n - 1].end THEN {"overlapping"} ELSE {})

\* ingest() returns; the rules are run over the same cues.
Finish ==
    /\ at = "scanning" /\ Len(mapped) = Len(file)
    /\ candidates' = IF Blocking = {} THEN mapped ELSE <<>>
    /\ passed' = \A n \in DOMAIN file : Errors(n) = {}
    /\ at' = "done"
    /\ UNCHANGED <<file, request, furthest, conflicts, mapped>>

Next == Parse \/ Scan \/ Finish

Spec == Init /\ [][Next]_vars

-----------------------------------------------------------------------------

TypeOK ==
    /\ at \in {"parsing", "scanning", "done", "refused"}
    /\ furthest \in 0 .. Len(file) /\ Len(mapped) <= Len(file)
    /\ candidates # <<>> => at = "done"

Meet(a, b) == a.start < b.end /\ b.start < a.end

\* The report names every cue that runs into an earlier one, with one that it
\* runs into.  Candidates are all the cues or none; they are as far from the
\* file as one tick of the edit clock at most, never empty, in order, and cues
\* that are apart stay apart.  A file that passes the rules has no two cues
\* that meet, next to each other or not.
SubtitlesKeepTheirTime ==
    at = "done" =>
        /\ \A n \in DOMAIN file :
             (\E m \in 1 .. n - 1 : Meet(file[m], file[n]))
                <=> (\E c \in conflicts : c[1] = n /\ c[3] = "overlap")
        /\ \A c \in conflicts : c[3] = "overlap" => Meet(file[c[1]], file[c[2]])
        /\ candidates = <<>> \/ Len(candidates) = Len(file)
        /\ candidates # <<>> \/ file = <<>> \/ Blocking # {}
        /\ \A n \in DOMAIN candidates :
             LET edit == candidates[n]
                 Near(ticks, source) ==
                    LET off == ticks * request.clock[2] - source * request.clock[1]
                    IN  -request.clock[2] < off /\ off < request.clock[2]
             IN  /\ edit.start < edit.end
                 /\ Near(edit.start, file[n].start) /\ Near(edit.end, file[n].end)
                 /\ \A m \in 1 .. n - 1 :
                      /\ candidates[m].start <= edit.start
                      /\ ~Meet(file[m], file[n]) => ~Meet(candidates[m], edit)
        /\ passed => \A m, n \in DOMAIN file : m < n => ~Meet(file[m], file[n])
=============================================================================
