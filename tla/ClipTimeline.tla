----------------------------- MODULE ClipTimeline -----------------------------
(***************************************************************************)
(* The clips of one track under the edits of the timeline (ui/editorial.py *)
(* and its copy ui/commands/editorial.py): blade split, ripple delete,     *)
(* roll and slide.  The caller, who is external, puts the clips that an    *)
(* edit returns where the old ones were and names neighbours for roll and  *)
(* slide.  A slip changes nothing.                                         *)
(***************************************************************************)
EXTENDS Integers, Sequences, FiniteSetsExt, SequencesExt

CONSTANTS
    Tracks,         \* the tracks that a behaviour may begin with
    MaxClips, Shifts

VARIABLES
    clips,          \* of the track, by their start: [start, duration]
    gap, content    \* for properties only: free time before clips, and time in
                    \* clips, that the track may have

vars == <<clips, gap, content>>

End(clip) == clip.start + clip.duration
Clip(start, end) == [start |-> start, duration |-> end - start]

\* TimelineClip has its bounds from the model; that no two clips lie over one
\* another before the first edit is up to the caller.
ClipConstants ==
    /\ \A t \in Tracks :
        /\ t \in Seq([start: Nat, duration: Nat \ {0}])
        /\ \A n \in 2 .. Len(t) : End(t[n - 1]) <= t[n].start
    /\ Shifts \subseteq Int

Before(n) == IF n = 1 THEN 0 ELSE End(clips[n - 1])
Free(n) == clips[n].start - Before(n)

Total(f) == MapThenSumSet(LAMBDA n : f[n], DOMAIN f)
Gaps == Total([n \in DOMAIN clips |-> Free(n)])
Contents == Total([n \in DOMAIN clips |-> clips[n].duration])

Init ==
    /\ clips \in Tracks
    /\ gap = Gaps
    /\ content = Contents

Put(n, m, new) == SubSeq(clips, 1, n - 1) \o new \o SubSeq(clips, m + 1, Len(clips))

BladeSplit(n, at) ==
    /\ Len(clips) < MaxClips
    /\ clips[n].start < at /\ at < End(clips[n])
    /\ clips' = Put(n, n, <<Clip(clips[n].start, at), Clip(at, End(clips[n]))>>)
    /\ UNCHANGED <<gap, content>>

\* Mutant: the gap before the clip is closed as well.
RippleShiftFurther(n, clip) ==
    IF clip.start > clips[n].start
    THEN [clip EXCEPT !.start = @ - clips[n].duration - Free(n)] ELSE clip

RippleShift(n, clip) ==
    IF clip.start > clips[n].start
    THEN [clip EXCEPT !.start = @ - clips[n].duration] ELSE clip

RippleDelete(n) ==
    /\ clips' = [m \in 1 .. Len(clips) - 1 |-> RippleShift(n, RemoveAt(clips, n)[m])]
    /\ content' = content - clips[n].duration
    /\ gap' = IF n = Len(clips) THEN gap - Free(n) ELSE gap

\* Mutant: the boundary may come to lie anywhere before the right end.
RollableLoosely(left, right, boundary) == boundary < End(right)

Rollable(left, right, boundary) == left.start < boundary /\ boundary < End(right)

\* What was free between the two goes to one of them.
RollEdit(n, boundary) ==
    LET left == clips[n]
        right == clips[n + 1]
    IN  /\ Rollable(left, right, boundary)
        /\ clips' = Put(n, n + 1, <<Clip(left.start, boundary), Clip(boundary, End(right))>>)
        /\ gap' = gap - Free(n + 1) /\ content' = content + Free(n + 1)

SlideEdit(n, shift) ==
    LET left == clips[n - 1]
        mid == clips[n]
        right == clips[n + 1]
        start == mid.start + shift
        end == start + mid.duration
    IN  /\ left.start < start /\ end < End(right)
        /\ clips' = Put(n - 1, n + 1, <<Clip(left.start, start), Clip(start, end), Clip(end, End(right))>>)
        /\ gap' = gap - Free(n) - Free(n + 1)
        /\ content' = content + Free(n) + Free(n + 1)

Next ==
    \/ \E n \in DOMAIN clips :
        \/ RippleDelete(n)
        \/ \E at \in clips[n].start .. End(clips[n]) : BladeSplit(n, at)
    \/ \E n \in 1 .. Len(clips) - 1 :
        \E boundary \in clips[n].start .. End(clips[n + 1]) : RollEdit(n, boundary)
    \/ \E n \in 2 .. Len(clips) - 1, shift \in Shifts : SlideEdit(n, shift)

Spec == Init /\ [][Next]_vars

-----------------------------------------------------------------------------

TypeOK == clips \in Seq([start: Nat, duration: Nat])

\* No edit brings two clips over one another, empties one, or moves one out
\* of the track, and none adds or takes time but those that say so: a clip
\* that is deleted takes its own time out, and rolls and slides only fill
\* what was free.
ClipsStayApart ==
    /\ \A n \in DOMAIN clips : clips[n].duration > 0 /\ Free(n) >= 0
    /\ Gaps = gap
    /\ Contents = content
=============================================================================
