-------------------------- MODULE SpeechTranscription --------------------------
(***************************************************************************)
(* Long-form transcription (speech/pipeline.py): a plan of overlapping     *)
(* chunks (chunking.py), one recognition per chunk, and a merge of their   *)
(* words (merge.py).  Positions are samples from the start of the source.  *)
(***************************************************************************)
EXTENDS Integers, Sequences, FiniteSets

CONSTANTS
    MaxSamples,     \* the longest source
    Policies,       \* [max, min, overlap]
    MaxChunks,      \* bound on the chunks that are recognised
    MaxWords,       \* bound on the words, two of which a chunk may have
    MaxLength,      \* bound on the length of a word
    Confidences

\* ChunkingPolicy
SpeechConstants ==
    /\ MaxSamples \in Nat
    /\ \A p \in Policies : p.max \in Nat /\ p.min \in 1..p.max /\ p.overlap \in 0..p.min - 1
    /\ Confidences \subseteq Nat

VARIABLES
    samples, policy,    \* the request
    at,                 \* how far transcribe() got
    chunks,             \* the plan, a sequence of <<start, end>>
    heard,              \* the number of chunks recognised
    words,              \* what was recognised
    waiting,            \* the candidates that merge() has yet to look at
    kept, dropped       \* the words of the result; pairs <<winner, loser>>

vars == <<samples, policy, at, chunks, heard, words, waiting, kept, dropped>>

CeilDiv(a, b) == (a + b - 1) \div b

\* plan(): the least number of chunks, of sizes that differ by one at most.
Count == IF samples <= policy.max THEN 1
         ELSE CeilDiv(samples - policy.overlap, policy.max - policy.overlap)

Total == samples + (Count - 1) * policy.overlap

Size(i) == Total \div Count + (IF i <= Total % Count THEN 1 ELSE 0)

\* Mutant: the larger chunks are counted from one on, and one too many.
SizeOneMore(i) == Total \div Count + (IF i <= (Total % Count) + 1 THEN 1 ELSE 0)

Plannable == Count = 1 \/ Total \div Count >= policy.min

Plan ==
    LET start[i \in 1 .. Count + 1] ==
          IF i = 1 THEN 0 ELSE start[i - 1] + Size(i - 1) - policy.overlap
    IN  [i \in 1 .. Count |-> <<start[i], start[i] + Size(i)>>]

Init ==
    /\ samples \in 1..MaxSamples
    /\ policy \in Policies
    /\ at = "planning"
    /\ chunks = <<>> /\ heard = 0 /\ words = {}
    /\ waiting = {} /\ kept = <<>> /\ dropped = {}

MakePlan ==
    /\ at = "planning"
    /\ \/ Plannable /\ chunks' = Plan /\ at' = "recognising"
       \/ ~Plannable /\ at' = "unplannable" /\ UNCHANGED chunks
    /\ UNCHANGED <<samples, policy, heard, words, waiting, kept, dropped>>

Overlap(v, w) == v.start < w.end /\ w.start < v.end

\* RecognitionChunkResult: the words lie in the chunk and do not overlap.
Spoken(c) ==
    [chunk: {c}, start: chunks[c][1] .. chunks[c][2] - 1, end: chunks[c][1] + 1 .. chunks[c][2],
     confidence: Confidences]

Results(c) ==
    LET sounds == {w \in Spoken(c) : w.end - w.start \in 1..MaxLength}
        pairs == {{v, w} : v, w \in sounds}
    IN  {{}} \cup {s \in pairs : /\ Cardinality(words \cup s) <= MaxWords
                                 /\ \A v, w \in s : v # w => ~Overlap(v, w)}

Recognise ==
    /\ at = "recognising"
    /\ heard < Len(chunks) /\ Len(chunks) <= MaxChunks
    /\ \E result \in Results(heard + 1) : words' = words \cup result
    /\ heard' = heard + 1
    /\ UNCHANGED <<samples, policy, at, chunks, waiting, kept, dropped>>

BeginMerge ==
    /\ at = "recognising"
    /\ heard = Len(chunks)
    /\ at' = "merging"
    /\ waiting' = words
    /\ UNCHANGED <<samples, policy, chunks, heard, words, kept, dropped>>

\* checkpoint() raises, or a result is not that of the chunk that was asked
\* for.
Fail ==
    /\ at \in {"recognising", "merging"}
    /\ at' = "failed"
    /\ UNCHANGED <<samples, policy, chunks, heard, words, waiting, kept, dropped>>

\* Mutant: the candidates come chunk by chunk.
EarlierByChunk(v, w) ==
    \/ v.chunk < w.chunk
    \/ v.chunk = w.chunk /\ v.start < w.start

\* _chronological_key()
Earlier(v, w) ==
    \/ v.start < w.start
    \/ v.start = w.start /\ v.end < w.end
    \/ v.start = w.start /\ v.end = w.end /\ v.chunk < w.chunk

\* _choose_winner(): confidence, then the earlier chunk; two words of one
\* chunk do not overlap.
Wins(v, w) ==
    \/ v.confidence > w.confidence
    \/ v.confidence = w.confidence /\ v.chunk <= w.chunk

Clashes(w) == kept # <<>> /\ Overlap(kept[Len(kept)], w)

\* One round of merge(): a candidate that overlaps the last kept word takes
\* its place or is dropped.  The word before that ends before both begin.
MergeNext ==
    /\ at = "merging"
    /\ \E w \in waiting :
        /\ \A v \in waiting \ {w} : Earlier(w, v)
        /\ waiting' = waiting \ {w}
        /\ \/ /\ ~Clashes(w)
              /\ kept' = Append(kept, w)
              /\ UNCHANGED dropped
           \/ /\ Clashes(w)
              /\ LET last == kept[Len(kept)] IN
                 \/ Wins(last, w) /\ dropped' = dropped \cup {<<last, w>>} /\ UNCHANGED kept
                 \/ /\ ~Wins(last, w)
                    /\ dropped' = dropped \cup {<<w, last>>}
                    /\ kept' = [kept EXCEPT ![Len(kept)] = w]
    /\ UNCHANGED <<samples, policy, at, chunks, heard, words>>

EndMerge ==
    /\ at = "merging" /\ waiting = {}
    /\ at' = "complete"
    /\ UNCHANGED <<samples, policy, chunks, heard, words, waiting, kept, dropped>>

Next == MakePlan \/ Recognise \/ BeginMerge \/ MergeNext \/ EndMerge \/ Fail

Spec == Init /\ [][Next]_vars

-----------------------------------------------------------------------------

Stages == {"planning", "recognising", "merging", "complete", "failed", "unplannable"}

TypeOK ==
    /\ samples \in 1..MaxSamples /\ policy \in Policies /\ at \in Stages
    /\ \A i \in DOMAIN chunks : 0 <= chunks[i][1] /\ chunks[i][1] < chunks[i][2]
    /\ heard \in 0 .. Len(chunks)
    /\ waiting \subseteq words

\* A number of chunks for which sizes within the bounds exist.
Possible(n) ==
    LET total == samples + (n - 1) * policy.overlap
    IN  \/ n = 1 /\ samples <= policy.max
        \/ n * policy.min <= total /\ total <= n * policy.max

\* AudioChunkPlan accepts what plan() makes: it covers the source, every
\* chunk is within the bounds and every two neighbours overlap exactly; and
\* plan() gives up only where no plan exists.
PlanIsExact ==
    /\ chunks # <<>> =>
         /\ chunks[1][1] = 0 /\ chunks[Len(chunks)][2] = samples
         /\ \A i \in DOMAIN chunks :
              /\ chunks[i][2] - chunks[i][1] <= policy.max
              /\ Len(chunks) > 1 => chunks[i][2] - chunks[i][1] >= policy.min
              /\ i > 1 => chunks[i - 1][2] - chunks[i][1] = policy.overlap
    /\ at = "unplannable" => \A n \in 1..MaxSamples : ~Possible(n)

\* MergedTranscript accepts what merge() makes, its words are in order and
\* apart, and every recognised word is either in it or named once as dropped
\* in favour of one that overlaps it and is not less certain, but may have been
\* dropped itself in its turn.
MergeIsFaithful ==
    at = "complete" =>
        /\ \A i \in 1 .. Len(kept) - 1 : kept[i].end <= kept[i + 1].start
        /\ {kept[i] : i \in DOMAIN kept} \cup {d[2] : d \in dropped} = words
        /\ Len(kept) + Cardinality(dropped) = Cardinality(words)
        /\ \A d \in dropped : Overlap(d[1], d[2]) /\ d[1].confidence >= d[2].confidence

SpeechIsAccountedFor == PlanIsExact /\ MergeIsFaithful

\* ADR-011, decision 7: "Every dropped overlap emits an auditable warning that
\* identifies both retained and removed words": the word that a warning names
\* as kept is one of the merged transcript.
DropsNameRetained ==
    at = "complete" => \A d \in dropped : \E i \in DOMAIN kept : kept[i] = d[1]
=============================================================================
