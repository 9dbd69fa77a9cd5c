------------------------------ MODULE AnalysisRun ------------------------------
(***************************************************************************)
(* A run of the source analysis (analysis/models.py) and the progress that *)
(* is shown of it (analysis/aggregation.py).  The adapters that call them  *)
(* are not in the repository: one here advances the stages and publishes   *)
(* at once, another publishes what it collected some time ago.             *)
(* Timestamps are left out: a snapshot may be refused for its own at any   *)
(* time, which is Discard.                                                 *)
(***************************************************************************)
EXTENDS Integers, Sequences, FiniteSets, FiniteSetsExt

CONSTANTS
    Plans,          \* sequences of [needs, weight, total], one per stage
    MaxShown        \* how many snapshots are shown

VARIABLES
    work,       \* the immutable plan
    stages,     \* stages[i]: [status, done]
    collected,  \* the stages that the slower publisher has in its hands, or <<>>
    shown       \* the published snapshots, the latest of which is `previous`

vars == <<work, stages, collected, shown>>

AnalysisConstants ==
    /\ \A w \in Plans : /\ w # <<>>
                        /\ w \in Seq([needs: SUBSET Nat, weight: Nat \ {0}, total: Nat \ {0}])
    /\ MaxShown \in Nat

BasisPoints == 10000

\* can_transition_stage_status(): only a running stage may stay what it is.
Onward ==
    ({"pending"} \X {"running", "skipped", "failed", "cancelled"})
    \cup ({"running"} \X {"running", "succeeded", "failed", "cancelled"})

Whole == {"succeeded", "skipped"}

\* _validate_stage_graph(): a stage needs earlier ones only.
Orderly(w) == \A i \in DOMAIN w : w[i].needs \subseteq 1 .. i - 1

Init ==
    /\ work \in {w \in Plans : Orderly(w)}
    /\ stages = [i \in DOMAIN work |-> [status |-> "pending", done |-> 0]]
    /\ collected = <<>>
    /\ shown = <<>>

\* _validate_stage_state().
ValidStage(i, s) == s.status \in Whole => s.done = work[i].total

\* _validate_stage_dependencies_satisfied().
NeedsMet(all) ==
    \A i \in DOMAIN work : all[i].status \in {"running", "succeeded"} =>
        \A j \in work[i].needs : all[j].status \in Whole

\* AnalysisStage.advance(), in a run that AnalysisRun accepts.
Advance(i, status, done) ==
    /\ <<stages[i].status, status>> \in Onward
    /\ done \in stages[i].done .. work[i].total
    /\ ValidStage(i, [status |-> status, done |-> done])
    /\ stages' = [stages EXCEPT ![i] = [status |-> status, done |-> done]]
    /\ NeedsMet(stages')
    /\ UNCHANGED <<work, collected, shown>>

\* derive_run_status(): failure before cancellation.
RunStatus(all) ==
    LET statuses == {all[i].status : i \in DOMAIN all}
    IN  CASE "failed" \in statuses -> "failed"
          [] "failed" \notin statuses /\ "cancelled" \in statuses -> "cancelled"
          [] statuses \subseteq Whole -> "succeeded"
          [] statuses = {"pending"} -> "queued"
          [] OTHER -> "running"

StageProgress(i, all) == (all[i].done * BasisPoints) \div work[i].total

Total(f) == MapThenSumSet(LAMBDA i : f[i], DOMAIN f)

Progress(all) ==
    (Total([i \in DOMAIN all |-> work[i].weight * StageProgress(i, all)]) * BasisPoints)
    \div (Total([i \in DOMAIN all |-> work[i].weight]) * BasisPoints)

\* aggregate_progress().
Snapshot(all) == [stages |-> all, status |-> RunStatus(all), progress |-> Progress(all)]

\* _validate_monotonic_progress().
Forward(previous, current) ==
    /\ \A i \in DOMAIN work :
         /\ <<previous.stages[i].status, current.stages[i].status>> \in Onward
         /\ current.stages[i].done >= previous.stages[i].done
    /\ current.progress >= previous.progress

\* Mutant: only the number that is shown is compared.
ShowAnyway(all) ==
    /\ Len(shown) < MaxShown
    /\ shown # <<>> => Progress(all) >= shown[Len(shown)].progress
    /\ shown' = Append(shown, Snapshot(all))

Show(all) ==
    /\ Len(shown) < MaxShown
    /\ shown # <<>> => Forward(shown[Len(shown)], Snapshot(all))
    /\ shown' = Append(shown, Snapshot(all))

Publish ==
    /\ Show(stages)
    /\ UNCHANGED <<work, stages, collected>>

Collect ==
    /\ collected = <<>>
    /\ collected' = stages
    /\ UNCHANGED <<work, stages, shown>>

PublishLate ==
    /\ collected # <<>>
    /\ Show(collected)
    /\ collected' = <<>>
    /\ UNCHANGED <<work, stages>>

\* The snapshot is refused.
Discard ==
    /\ collected # <<>>
    /\ collected' = <<>>
    /\ UNCHANGED <<work, stages, shown>>

Next ==
    \/ \E i \in DOMAIN work, status \in {"running", "succeeded", "failed", "cancelled", "skipped"} :
         \E done \in 0 .. work[i].total : Advance(i, status, done)
    \/ Publish \/ Collect \/ PublishLate \/ Discard

Spec == Init /\ [][Next]_vars

-----------------------------------------------------------------------------

TypeOK ==
    /\ stages \in [DOMAIN work -> [status: {p[2] : p \in Onward} \cup {"pending"}, done: Nat]]
    /\ collected = <<>> \/ DOMAIN collected = DOMAIN work
    /\ Len(shown) <= MaxShown

\* What was shown is never taken back, by whichever publisher: no unit of
\* work, no stage that had ended, no failure of the run, and not its success.
\* Everything is shown as done only when it is, and a stage at work was shown
\* with what it needs complete.
ShownIsNeverTakenBack ==
    /\ \A m, n \in DOMAIN shown : m < n =>
         /\ shown[m].progress <= shown[n].progress
         /\ shown[m].status # "succeeded"
         /\ shown[m].status = "failed" => shown[n].status = "failed"
         /\ \A i \in DOMAIN work :
              /\ shown[m].stages[i].done <= shown[n].stages[i].done
              /\ shown[m].stages[i].status \in {"pending", "running"}
    /\ \A n \in DOMAIN shown :
         /\ shown[n].progress = BasisPoints =>
              \A i \in DOMAIN work : shown[n].stages[i].done = work[i].total
         /\ NeedsMet(shown[n].stages)
=============================================================================
