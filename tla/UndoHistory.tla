------------------------------ MODULE UndoHistory ------------------------------
(***************************************************************************)
(* The undo history of the timeline (ui/undo_redo.py): two stacks of       *)
(* commands that hold the state before and after, the older one bounded.   *)
(* The editor applies what the manager hands out (external): a command is  *)
(* executed from the state that is there, undo() restores the one before,  *)
(* redo() the one after.                                                   *)
(***************************************************************************)
EXTENDS Integers, Sequences, SequencesExt

CONSTANTS
    States,         \* of the timeline
    MaxLevels

VARIABLES
    timeline,       \* the state that is there, external
    undone, redone, \* _undo_stack, _redo_stack: [before, after], the top last
    past            \* every state since the oldest command, for properties only

vars == <<timeline, undone, redone, past>>

UndoConstants == MaxLevels \in Nat \ {0}

Init ==
    /\ timeline \in States
    /\ undone = <<>> /\ redone = <<>>
    /\ past = <<timeline>>

Bounded(s, n) == IF Len(s) > n THEN Tail(s) ELSE s

\* Mutant: what was undone can still be done again.
ExecuteKeepingRedo(state) ==
    /\ undone' = Bounded(Append(undone, [before |-> timeline, after |-> state]), MaxLevels)
    /\ timeline' = state
    /\ past' = Bounded(Append(past, state), MaxLevels + 1)
    /\ UNCHANGED redone

Execute(state) ==
    /\ undone' = Bounded(Append(undone, [before |-> timeline, after |-> state]), MaxLevels)
    /\ redone' = <<>>
    /\ timeline' = state
    /\ past' = Bounded(Append(past, state), MaxLevels + 1)

Undo ==
    /\ undone # <<>>
    /\ redone' = Append(redone, Last(undone))
    /\ undone' = Front(undone)
    /\ timeline' = Last(undone).before
    /\ past' = Front(past)

Redo ==
    /\ redone # <<>>
    /\ undone' = Append(undone, Last(redone))
    /\ redone' = Front(redone)
    /\ timeline' = Last(redone).after
    /\ past' = Append(past, Last(redone).after)

Clear ==
    /\ undone' = <<>> /\ redone' = <<>>
    /\ past' = <<timeline>>
    /\ UNCHANGED timeline

Next == Undo \/ Redo \/ Clear \/ \E state \in States : Execute(state)

Spec == Init /\ [][Next]_vars

-----------------------------------------------------------------------------

TypeOK ==
    /\ timeline \in States
    /\ {undone, redone} \subseteq Seq([before: States, after: States])

\* The history is one line: undo() goes back through the states that the
\* timeline was in, redo() forward to those that it was taken out of, each
\* from the one that is there, and together they are as many as the bound.
HistoryIsALine ==
    /\ Len(past) = Len(undone) + 1 /\ Last(past) = timeline
    /\ \A n \in DOMAIN undone : undone[n] = [before |-> past[n], after |-> past[n + 1]]
    /\ redone # <<>> => Last(redone).before = timeline
    /\ \A n \in 2 .. Len(redone) : redone[n].after = redone[n - 1].before
    /\ Len(undone) + Len(redone) <= MaxLevels
=============================================================================
