--------------------------- MODULE TranslationBatch ---------------------------
(***************************************************************************)
(* translate_batch() (application/translation_pipeline.py): lines go to a  *)
(* language model in chunks, whose answer may be short, long, hold         *)
(* something that is no text, or fail; then every line of the chunk goes   *)
(* through the passes of translate() by itself.  A text is known by what   *)
(* wrote it: 0 is the source, n the n-th pass, Chunked an answer to the    *)
(* whole chunk.                                                            *)
(***************************************************************************)
EXTENDS Integers, Sequences, FiniteSets, FiniteSetsExt

CONSTANTS
    NumLines,
    ChunkSize,
    Passes          \* how many passes are enabled

VARIABLES
    start,          \* i: how many lines the chunks before this one had
    phase,          \* "asking", "reading", "one_by_one" or "done"
    answer,         \* translated_texts: TRUE is a text, FALSE something else
    next,           \* j, the line of the chunk that is next
    results         \* [line, text]

vars == <<start, phase, answer, next, results>>

BatchConstants == NumLines \in Nat \ {0} /\ ChunkSize \in Nat \ {0} /\ Passes \in Nat

Chunked == Passes + 1

ChunkLength == Min({ChunkSize, NumLines - start})

Init ==
    /\ start = 0 /\ phase = "asking" /\ answer = <<>> /\ next = 1 /\ results = <<>>

Answer(text) == results' = Append(results, [line |-> start + next, text |-> text])

\* The router has an answer for the chunk.
Ask(a) ==
    /\ phase = "asking" /\ start < NumLines
    /\ answer' = a
    /\ phase' = "reading" /\ next' = 1
    /\ UNCHANGED <<start, results>>

\* The router raises, or the answer is not what was asked for.
AskFails ==
    /\ phase = "asking" /\ start < NumLines
    /\ phase' = "one_by_one" /\ next' = 1
    /\ UNCHANGED <<start, answer, results>>

\* Mutant: lines and answers are taken in pairs, while there are both.
ReadPairs ==
    /\ phase = "reading" /\ next <= ChunkLength
    /\ next <= Len(answer) => answer[next]
    /\ IF next <= Len(answer) THEN Answer(Chunked) ELSE UNCHANGED results
    /\ next' = next + 1
    /\ UNCHANGED <<start, phase, answer>>

\* A line that has no answer keeps its text, as if it had been translated.
Read ==
    /\ phase = "reading" /\ next <= ChunkLength
    /\ next <= Len(answer) => answer[next]
    /\ Answer(IF next <= Len(answer) THEN Chunked ELSE 0)
    /\ next' = next + 1
    /\ UNCHANGED <<start, phase, answer>>

\* What was read of the chunk stays in the results.
ReadFails ==
    /\ phase = "reading" /\ next \in 1 .. Min({ChunkLength, Len(answer)})
    /\ ~answer[next]
    /\ phase' = "one_by_one" /\ next' = 1
    /\ UNCHANGED <<start, answer, results>>

\* translate(): a pass that fails leaves the text of the one before.
TranslateLine(succeeded) ==
    /\ phase = "one_by_one" /\ next <= ChunkLength
    /\ Answer(IF succeeded = {} THEN 0 ELSE Max(succeeded))
    /\ next' = next + 1
    /\ UNCHANGED <<start, phase, answer>>

ChunkEnds ==
    /\ phase \in {"reading", "one_by_one"} /\ next > ChunkLength
    /\ start' = start + ChunkLength
    /\ phase' = IF start + ChunkLength = NumLines THEN "done" ELSE "asking"
    /\ answer' = <<>> /\ next' = 1
    /\ UNCHANGED results

Next ==
    \/ \E n \in 0 .. ChunkSize + 1 : \E a \in [1..n -> BOOLEAN] : Ask(a)
    \/ AskFails \/ Read \/ ReadFails \/ ChunkEnds
    \/ \E succeeded \in SUBSET (1..Passes) : TranslateLine(succeeded)

Spec == Init /\ [][Next]_vars

-----------------------------------------------------------------------------

TypeOK ==
    /\ start \in 0..NumLines /\ next \in 1 .. ChunkSize + 1
    /\ phase \in {"asking", "reading", "one_by_one", "done"}
    /\ results \in Seq([line: 1..NumLines, text: 0..Chunked])

Final == {r \in DOMAIN results :
            \A s \in r + 1 .. Len(results) : results[s].line # results[r].line}

\* Whatever the model answers, every line has a result, the last ones of each
\* line are in the order of the lines, a line has two at most, and then the
\* chunk was begun again, so that the second is not a part of it.
BatchAnswersEveryLine ==
    /\ phase = "done" => {results[r].line : r \in DOMAIN results} = 1..NumLines
    /\ \A r, s \in Final : phase = "done" /\ r < s => results[r].line < results[s].line
    /\ \A n \in 1..NumLines : Cardinality({r \in DOMAIN results : results[r].line = n}) <= 2
    /\ \A r \in DOMAIN results \ Final, s \in Final :
         results[r].line = results[s].line => results[r].text \in {0, Chunked}
                                              /\ results[s].text # Chunked
=============================================================================
