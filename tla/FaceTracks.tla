------------------------------ MODULE FaceTracks ------------------------------
(***************************************************************************)
(* Faces followed through a shot (ai/vision/face_tracker.py): frame by     *)
(* frame, each face in turn goes to the best track that no face of this    *)
(* frame went to, if one is good enough, else to a track of its own.  How  *)
(* good a track is (overlap, prediction, resemblance) is left open: any    *)
(* score may come out for any face and track.                              *)
(***************************************************************************)
EXTENDS Integers, Sequences, FiniteSets

CONSTANTS
    MaxFrame,       \* frames are numbered by their place in frame_detections
    MaxFaces        \* in a frame

VARIABLES
    frame, left,    \* the frame that is looked at, and how many of its faces are left
    tracks,         \* active_tracks, by number: [first, last, seen]
    matched         \* the tracks that a face of this frame went to

vars == <<frame, left, tracks, matched>>

FaceConstants == MaxFrame \in Nat /\ MaxFaces \in Nat

Init == frame = 0 /\ left = 0 /\ tracks = <<>> /\ matched = {}

\* The next detections, maybe none.  Nothing compares the frame_index that they
\* carry with the one before.
NextFrame(faces) ==
    /\ left = 0 /\ frame < MaxFrame
    /\ frame' = frame + 1 /\ left' = faces
    /\ matched' = {}
    /\ UNCHANGED tracks

\* Mutant: every track is a candidate.
CandidatesAll == DOMAIN tracks

Candidates == DOMAIN tracks \ matched

\* A track that ended long ago is still one: nothing reads
\* max_disappeared_frames.
Follow(t) ==
    /\ left > 0 /\ t \in Candidates
    /\ tracks' = [tracks EXCEPT ![t].last = frame, ![t].seen = Append(@, frame)]
    /\ matched' = matched \cup {t}
    /\ left' = left - 1
    /\ UNCHANGED frame

\* No candidate is good enough.
Begin ==
    /\ left > 0
    /\ tracks' = Append(tracks, [first |-> frame, last |-> frame, seen |-> <<frame>>])
    /\ matched' = matched \cup {Len(tracks) + 1}
    /\ left' = left - 1
    /\ UNCHANGED frame

Next ==
    \/ \E faces \in 0..MaxFaces : NextFrame(faces)
    \/ \E t \in DOMAIN tracks : Follow(t)
    \/ Begin

Spec == Init /\ [][Next]_vars

-----------------------------------------------------------------------------

TypeOK ==
    /\ frame \in 0..MaxFrame /\ left \in 0..MaxFaces
    /\ matched \subseteq DOMAIN tracks
    /\ tracks \in Seq([first: 1..MaxFrame, last: 1..MaxFrame, seen: Seq(1..MaxFrame)])

\* A track is one face: it is seen once at most in each of the detections, in
\* their order, from its first to its last.
ATrackIsOneFace ==
    \A t \in DOMAIN tracks :
        LET seen == tracks[t].seen
        IN  /\ seen[1] = tracks[t].first /\ seen[Len(seen)] = tracks[t].last
            /\ \A n \in 2 .. Len(seen) : seen[n - 1] < seen[n]
            /\ t \in matched <=> tracks[t].last = frame
=============================================================================
