----------------------------- MODULE JobRecords -----------------------------
(***************************************************************************)
(* The jobs table of a project database                                    *)
(* (infrastructure/persistence/database.py) and the state machine it       *)
(* enforces (domain/job.py, and the trigger jobs_validate_state_transition *)
(* of migration 0002).  Each operation is one BEGIN IMMEDIATE transaction, *)
(* so it is one step.  Of a row, the columns are kept that the state       *)
(* machine and recovery read or write; timestamps are set or not set.      *)
(***************************************************************************)
EXTENDS Naturals

CONSTANTS
    Jobs,
    MaxCheckpoint   \* bound: checkpoints a job can report; 0 is none

ASSUME JobConstants == MaxCheckpoint \in Nat

VARIABLE rows       \* rows[j]: the row of job j, or NoRow

Allowed ==
    [QUEUED     |-> {"BLOCKED", "PREPARING", "CANCELLING", "CANCELLED", "STALE"},
     BLOCKED    |-> {"QUEUED", "CANCELLING", "CANCELLED", "STALE"},
     PREPARING  |-> {"RUNNING", "CANCELLING", "FAILED", "STALE"},
     RUNNING    |-> {"PAUSING", "CANCELLING", "FAILED", "SUCCEEDED", "STALE"},
     PAUSING    |-> {"PAUSED", "CANCELLING", "FAILED", "STALE"},
     PAUSED     |-> {"QUEUED", "PREPARING", "CANCELLING", "CANCELLED", "STALE"},
     CANCELLING |-> {"CANCELLED", "FAILED"},
     CANCELLED  |-> {"QUEUED", "STALE"},
     FAILED     |-> {"QUEUED", "STALE"},
     SUCCEEDED  |-> {"STALE"},
     STALE      |-> {"QUEUED"}]

States == DOMAIN Allowed
Terminal == {"CANCELLED", "FAILED", "SUCCEEDED"}

\* The states that only a living process can be in.
ProcessOwned == {"PREPARING", "RUNNING", "PAUSING", "CANCELLING"}

Errors == {"none", "reported", "PROCESS_INTERRUPTED"}

Row == [state : States, started : BOOLEAN, completed : BOOLEAN,
        error : Errors, checkpoint : 0..MaxCheckpoint]
NoRow == [state |-> "ABSENT"]

Exists(j) == rows[j] # NoRow

\* create_job, with the defaults of JobRecord.
CreateJob(j) ==
    /\ ~Exists(j)
    /\ rows' = [rows EXCEPT ![j] =
         [state |-> "QUEUED", started |-> FALSE, completed |-> FALSE,
          error |-> "none", checkpoint |-> 0]]

\* transition_job(j, target, expected=..., checkpoint=..., error_category=...):
\* the same state again is an update, any other needs the state machine.  The
\* error columns take what the call passes, completed_at is only ever set.
Transition(j, expected, target, checkpoint, error) ==
    LET r == rows[j] IN
    /\ Exists(j)
    /\ r.state = expected
    /\ target = r.state \/ target \in Allowed[r.state]
    /\ rows' = [rows EXCEPT ![j] =
         [state      |-> target,
          started    |-> r.started \/ target = "RUNNING",
          completed  |-> r.completed \/ target \in Terminal,
          error      |-> error,
          checkpoint |-> IF checkpoint = 0 THEN r.checkpoint ELSE checkpoint]]

Interrupted == {j \in Jobs : rows[j].state \in ProcessOwned}

\* Mutant: a pause in progress is recovered like a cancellation.
RecoverRowPausing(r) ==
    [r EXCEPT !.state = IF @ \in {"CANCELLING", "PAUSING"} THEN "CANCELLED" ELSE "FAILED",
              !.error = "PROCESS_INTERRUPTED",
              !.completed = TRUE]

\* Mutant: recovery starts the job over.
RecoverRowFresh(r) ==
    [r EXCEPT !.state = IF @ = "CANCELLING" THEN "CANCELLED" ELSE "FAILED",
              !.error = "PROCESS_INTERRUPTED",
              !.completed = TRUE,
              !.checkpoint = 0]

\* Mutant: recovery forgets completed_at.
RecoverRowOpen(r) ==
    [r EXCEPT !.state = IF @ = "CANCELLING" THEN "CANCELLED" ELSE "FAILED",
              !.error = "PROCESS_INTERRUPTED"]

RecoverRow(r) ==
    [r EXCEPT !.state = IF @ = "CANCELLING" THEN "CANCELLED" ELSE "FAILED",
              !.error = "PROCESS_INTERRUPTED",
              !.completed = TRUE]

\* Mutant: a job that was being cancelled is left as it is.
RecoverNotCancelling ==
    rows' = [j \in Jobs |-> IF j \in Interrupted /\ rows[j].state # "CANCELLING"
                            THEN RecoverRow(rows[j]) ELSE rows[j]]

\* recover_interrupted_jobs(): one transaction over all of them, past
\* transition_job but not past the trigger.
RecoverInterrupted ==
    rows' = [j \in Jobs |-> IF j \in Interrupted THEN RecoverRow(rows[j]) ELSE rows[j]]
=============================================================================
