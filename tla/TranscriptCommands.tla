-------------------------- MODULE TranscriptCommands --------------------------
(***************************************************************************)
(* The commands of the transcript editor (transcript/service.py) as steps  *)
(* of one transcript: editing, field locks, recognizer updates, split,     *)
(* merge, assignment, status and approval.  A command that raises changes  *)
(* nothing, so only the accepted ones are steps.  Times are ticks of one   *)
(* clock; audio sample ranges are absent and scope fields are constant.    *)
(***************************************************************************)
EXTENDS Integers, Sequences, FiniteSets

CONSTANTS
    Ids,            \* utterance identifiers
    Texts, Speakers, Characters, Emotions,
    Ticks,          \* the times in use
    Cuts,           \* the positions at which a split is asked for
    LockSets,       \* the field sets that lock and unlock commands name
    Proposals,      \* recognizer proposals: records with None where silent
    InitialLines,   \* the utterances of revision zero
    MaxRevision,
    None

VARIABLES
    revision,
    lines,          \* the utterances in order
    fact            \* the audit fact and the invalidation roots last returned

vars == <<revision, lines, fact>>

Statuses == {"draft", "review", "approved", "locked", "stale"}

Fields == {"source_text", "source_timing", "edit_timing", "speaker", "character", "emotion"}

ContentLocks == {"source_text", "source_timing", "edit_timing"}

StatusTransitions ==
    [draft    |-> {"review", "locked", "stale"},
     review   |-> {"draft", "locked", "stale"},
     approved |-> {"stale"},
     locked   |-> {"draft", "review", "stale"},
     stale    |-> {"draft", "review"}]

ValidWords(line) ==
    /\ \A w \in line.words : line.source[1] <= w[1] /\ w[2] <= line.source[2] /\ w[1] < w[2]
    /\ \A v, w \in line.words : v # w => v[2] <= w[1] \/ w[2] <= v[1]

ValidLine(line) ==
    /\ line.source[1] < line.source[2]
    /\ line.edit[1] < line.edit[2]
    /\ ValidWords(line)
    /\ line.status = "locked" => line.locks # {}

ValidLines(ls) ==
    /\ \A i \in DOMAIN ls : ValidLine(ls[i])
    /\ \A i, j \in DOMAIN ls : ls[i].id = ls[j].id => i = j
    /\ \A i, j \in DOMAIN ls : i < j => ls[i].source[1] <= ls[j].source[1]

Line ==
    [id: Ids, source: Ticks \X Ticks, edit: Ticks \X Ticks, words: SUBSET (Ticks \X Ticks),
     text: Texts, speaker: Speakers \cup {None}, character: Characters \cup {None},
     emotion: Emotions \cup {None}, confidence: 0..1, status: Statuses, locks: SUBSET Fields]

CommandsConstants ==
    /\ None \notin {"transcript", "diarization"}
    /\ Ticks \subseteq Int /\ Cuts \subseteq Ticks
    /\ LockSets \subseteq SUBSET Fields
    /\ Proposals \subseteq
         [text: Texts \cup {None}, source: (Ticks \X Ticks) \cup {None},
          edit: (Ticks \X Ticks) \cup {None}, words: (SUBSET (Ticks \X Ticks)) \cup {None},
          confidence: 0..1 \cup {None}]
    /\ InitialLines \in Seq(Line) /\ ValidLines(InitialLines)

Unlocked(line, fields) == line.locks \cap fields = {}

\* Mutant: a change leaves the approval standing.
KeepStatus(status) == status

AfterContentChange(status) == IF status = "approved" THEN "stale" ELSE status

Replaced(i, line) == [lines EXCEPT ![i] = line]

\* Mutant: only the utterances that are still there are invalidated.
FinishCurrentRoots(op, ls, affected, stage, automated) ==
    /\ revision < MaxRevision
    /\ ValidLines(ls)
    /\ revision' = revision + 1
    /\ lines' = ls
    /\ fact' = [operation |-> op, affected |-> affected, automated |-> automated,
                stage |-> stage,
                roots |-> IF stage = None THEN {} ELSE affected \cap {ls[i].id : i \in DOMAIN ls}]

Finish(op, ls, affected, stage, automated) ==
    /\ revision < MaxRevision
    /\ ValidLines(ls)
    /\ revision' = revision + 1
    /\ lines' = ls
    /\ fact' = [operation |-> op, affected |-> affected, automated |-> automated,
                stage |-> stage, roots |-> IF stage = None THEN {} ELSE affected]

Init ==
    /\ revision = 0
    /\ lines = InitialLines
    /\ fact = [operation |-> None, affected |-> {}, automated |-> FALSE,
               stage |-> None, roots |-> {}]

EditText(i, text) ==
    /\ Unlocked(lines[i], {"source_text"})
    /\ text # lines[i].text
    /\ Finish("edit_text",
              Replaced(i, [lines[i] EXCEPT !.text = text, !.status = AfterContentChange(@)]),
              {lines[i].id}, "transcript", FALSE)

LockFields(i, fields) ==
    /\ ~(fields \subseteq lines[i].locks)
    /\ Finish("lock_fields", Replaced(i, [lines[i] EXCEPT !.locks = @ \cup fields]),
              {lines[i].id}, None, FALSE)

\* The last lock of a line in status "locked" cannot go.
UnlockFields(i, fields) ==
    /\ ~Unlocked(lines[i], fields)
    /\ ~(lines[i].status = "locked" /\ lines[i].locks \subseteq fields)
    /\ Finish("unlock_fields", Replaced(i, [lines[i] EXCEPT !.locks = @ \ fields]),
              {lines[i].id}, None, FALSE)

Proposed(value, old) == IF value = None THEN old ELSE value

AsrUpdated(line, p) ==
    [line EXCEPT !.text = Proposed(p.text, @), !.source = Proposed(p.source, @),
                 !.words = Proposed(p.words, @), !.edit = Proposed(p.edit, @),
                 !.confidence = Proposed(p.confidence, @)]

\* Mutant: word timings are not taken for source timing.
AsrAllowedLoosely(line, p) ==
    /\ AsrUpdated(line, p).text # line.text => Unlocked(line, {"source_text"})
    /\ AsrUpdated(line, p).source # line.source => Unlocked(line, {"source_timing"})
    /\ AsrUpdated(line, p).edit # line.edit => Unlocked(line, {"edit_timing"})

AsrAllowed(line, p) ==
    /\ AsrUpdated(line, p).text # line.text => Unlocked(line, {"source_text"})
    /\ <<AsrUpdated(line, p).source, AsrUpdated(line, p).words>> # <<line.source, line.words>>
         => Unlocked(line, {"source_timing"})
    /\ AsrUpdated(line, p).edit # line.edit => Unlocked(line, {"edit_timing"})

AutomatedAsrUpdate(i, p) ==
    /\ AsrAllowed(lines[i], p)
    /\ AsrUpdated(lines[i], p) # lines[i]
    /\ Finish("automated_asr_update",
              Replaced(i, [AsrUpdated(lines[i], p) EXCEPT !.status = AfterContentChange(@)]),
              {lines[i].id}, "transcript", TRUE)

WordsBefore(line, t) == {w \in line.words : w[2] <= t}

WordsFrom(line, t) == {w \in line.words : t <= w[1]}

\* split_at() wants a position inside the range; no word may be cut.
Split(i, left, right, s, e, leftText, rightText) ==
    LET line == lines[i]
        half(id, src, edit, words, text) ==
            [line EXCEPT !.id = id, !.source = src, !.edit = edit, !.words = words,
                         !.text = text, !.status = "draft"]
    IN
    /\ Unlocked(line, ContentLocks)
    /\ Cardinality({line.id, left, right}) = 3
    /\ \A j \in DOMAIN lines : lines[j].id \notin {left, right}
    /\ line.source[1] < s /\ s < line.source[2]
    /\ line.edit[1] < e /\ e < line.edit[2]
    /\ line.words = WordsBefore(line, s) \cup WordsFrom(line, s)
    /\ Finish("split",
              SubSeq(lines, 1, i - 1)
              \o << half(left, <<line.source[1], s>>, <<line.edit[1], e>>,
                         WordsBefore(line, s), leftText),
                    half(right, <<s, line.source[2]>>, <<e, line.edit[2]>>,
                         WordsFrom(line, s), rightText) >>
              \o SubSeq(lines, i + 1, Len(lines)),
              {line.id, left, right}, "transcript", FALSE)

Overlaps(a, b) == a[1] < b[2] /\ b[1] < a[2]

MergeRanges(a, b, policy) ==
    \/ a[2] = b[1]
    \/ policy = "allow_overlap" /\ Overlaps(a, b)

Covering(a, b) ==
    << IF a[1] <= b[1] THEN a[1] ELSE b[1], IF a[2] >= b[2] THEN a[2] ELSE b[2] >>

\* Mutant: only the left line's locks are looked at.
IdentityLocksLeft(left, right) ==
    /\ left.speaker # right.speaker => "speaker" \notin left.locks
    /\ left.character # right.character => "character" \notin left.locks

IdentityLocks(left, right) ==
    /\ left.speaker # right.speaker => "speaker" \notin left.locks \cup right.locks
    /\ left.character # right.character => "character" \notin left.locks \cup right.locks

Common(a, b) == IF a = b THEN a ELSE None

\* The words are put one list behind the other, and validated in that order.
Merge(i, merged, text, policy) ==
    LET left == lines[i]
        right == lines[i + 1]
    IN
    /\ \A j \in DOMAIN lines : lines[j].id # merged
    /\ Unlocked(left, ContentLocks) /\ Unlocked(right, ContentLocks)
    /\ MergeRanges(left.source, right.source, policy)
    /\ MergeRanges(left.edit, right.edit, policy)
    /\ IdentityLocks(left, right)
    /\ \A v \in left.words, w \in right.words : v[2] <= w[1]
    /\ Finish("merge",
              SubSeq(lines, 1, i - 1)
              \o << [left EXCEPT !.id = merged, !.text = text, !.status = "draft",
                        !.source = Covering(left.source, right.source),
                        !.edit = Covering(left.edit, right.edit),
                        !.words = left.words \cup right.words,
                        !.speaker = Common(left.speaker, right.speaker),
                        !.character = Common(left.character, right.character),
                        !.emotion = Common(left.emotion, right.emotion),
                        !.confidence = IF @ <= right.confidence THEN @ ELSE right.confidence,
                        !.locks = left.locks \cup right.locks] >>
              \o SubSeq(lines, i + 2, Len(lines)),
              {left.id, right.id, merged}, "transcript", FALSE)

AssignSpeaker(i, speaker) ==
    /\ Unlocked(lines[i], {"speaker"})
    /\ speaker # lines[i].speaker
    /\ Finish("assign_speaker",
              Replaced(i, [lines[i] EXCEPT !.speaker = speaker, !.status = AfterContentChange(@)]),
              {lines[i].id}, "diarization", FALSE)

AssignCharacter(i, character) ==
    /\ Unlocked(lines[i], {"character"})
    /\ character # lines[i].character
    /\ Finish("assign_character",
              Replaced(i, [lines[i] EXCEPT !.character = character,
                                           !.status = AfterContentChange(@)]),
              {lines[i].id}, "diarization", FALSE)

\* Mutant: any status but approval may be asked for.
ChangeStatusFreely(i, status) ==
    /\ status # lines[i].status
    /\ Finish("change_status", Replaced(i, [lines[i] EXCEPT !.status = status]),
              {lines[i].id}, None, FALSE)

ChangeStatus(i, status) ==
    /\ status # "approved"
    /\ status \in StatusTransitions[lines[i].status]
    /\ status = "locked" => lines[i].locks # {}
    /\ Finish("change_status", Replaced(i, [lines[i] EXCEPT !.status = status]),
              {lines[i].id}, None, FALSE)

Approve(i) ==
    /\ lines[i].status = "review"
    /\ Finish("approve", Replaced(i, [lines[i] EXCEPT !.status = "approved"]),
              {lines[i].id}, None, FALSE)

Next ==
    \/ \E i \in DOMAIN lines :
        \/ \E t \in Texts : EditText(i, t)
        \/ \E f \in LockSets : LockFields(i, f) \/ UnlockFields(i, f)
        \/ \E p \in Proposals : AutomatedAsrUpdate(i, p)
        \/ \E s \in Speakers \cup {None} : AssignSpeaker(i, s)
        \/ \E c \in Characters \cup {None} : AssignCharacter(i, c)
        \/ \E s \in Statuses : ChangeStatus(i, s)
        \/ Approve(i)
        \/ \E left, right \in Ids, s, e \in Cuts, lt, rt \in Texts :
             Split(i, left, right, s, e, lt, rt)
    \/ \E i \in 1 .. Len(lines) - 1, merged \in Ids, t \in Texts,
          policy \in {"adjacent_only", "allow_overlap"} : Merge(i, merged, t, policy)

Spec == Init /\ [][Next]_vars

-----------------------------------------------------------------------------

TypeOK ==
    /\ revision \in 0..MaxRevision
    /\ lines \in Seq(Line)
    /\ ValidLines(lines)

\* The content of a line that later stages are made from.
Content(line) ==
    [text |-> line.text, source |-> line.source, edit |-> line.edit, words |-> line.words,
     speaker |-> line.speaker, character |-> line.character]

\* An approval is of what was approved: while a line stays approved nothing
\* of its content changes, whoever the command comes from, and only a line
\* that a person put in review becomes approved.
ApprovedAsApproved ==
    \A i \in DOMAIN lines, j \in DOMAIN lines' :
      lines[i].id = lines'[j].id /\ lines'[j].status = "approved" =>
         /\ Content(lines'[j]) = Content(lines[i])
         /\ lines[i].status \in {"review", "approved"}
         /\ fact'.automated => lines'[j] = lines[i]

ApprovalIsOfContent == [][ApprovedAsApproved]_vars

\* ADR-010: "Locked fields reject automated ASR updates", and human commands
\* as well until the lock is taken off: a locked text, timing, speaker or
\* character stays as it is in the line, and in the line that a split or a
\* merge makes of it.
LocksRespected ==
    \A i \in DOMAIN lines, j \in DOMAIN lines' :
      LET old == lines[i]
          new == lines'[j]
          derived == \/ old.id = new.id
                     \/ {old.id, new.id} \subseteq fact'.affected
      IN  derived =>
            /\ "source_text" \in old.locks => new.text = old.text
            /\ "source_timing" \in old.locks =>
                 /\ new.source = old.source
                 /\ new.words = old.words
            /\ "edit_timing" \in old.locks => new.edit = old.edit
            /\ "speaker" \in old.locks => new.speaker = old.speaker
            /\ "character" \in old.locks => new.character = old.character

LockedFieldsHold == [][LocksRespected]_vars

\* ADR-010: "Every mutation returns invalidation roots": whatever of the
\* content a command changes, adds or takes away is among the roots it
\* returns, the retired identifiers of a split or a merge included.
ChangesAreRoots ==
    /\ \A i \in DOMAIN lines :
         (~\E j \in DOMAIN lines' :
             lines'[j].id = lines[i].id /\ Content(lines'[j]) = Content(lines[i]))
         => lines[i].id \in fact'.roots
    /\ \A j \in DOMAIN lines' :
         (~\E i \in DOMAIN lines : lines[i].id = lines'[j].id)
         => lines'[j].id \in fact'.roots

RootsCoverChanges == [][ChangesAreRoots]_vars
=============================================================================
