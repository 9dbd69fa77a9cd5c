--------------------------- MODULE ProjectSession ---------------------------
(***************************************************************************)
(* Application processes that open one project, run its jobs and close it  *)
(* again (application/projects.py): the lock decides who may open, opening *)
(* recovers what a dead process left running, and the database rows say    *)
(* what every job is doing.  The lock appears as what module ProjectLock   *)
(* implements, ProjectOwnership; the rows are module JobRecords.           *)
(***************************************************************************)
EXTENDS JobRecords, FiniteSets

CONSTANTS
    Procs,
    Nonces,
    None,
    HoldLock    \* the values of open's parameter hold_lock that are used

ASSUME SessionConstants == HoldLock \subseteq BOOLEAN /\ None \notin Procs

VARIABLES
    owner, record, published, audited,      \* module ProjectOwnership
    stage,      \* stage[p]: how far p's open() got
    hold,       \* hold[p]: p's open() was asked to keep the lock
    driver      \* driver[j]: the process whose worker runs job j

ownership == <<owner, record, published, audited>>
vars == <<rows, ownership, stage, hold, driver>>

Own == INSTANCE ProjectOwnership WITH
    Locks <- Procs, MayMeddle <- FALSE, calls <- stage

Stages == {"closed", "acquired", "recovered", "open"}

Init ==
    /\ rows = [j \in Jobs |-> NoRow]
    /\ Own!Init
    /\ stage = [p \in Procs |-> "closed"]
    /\ hold = [p \in Procs |-> FALSE]
    /\ driver = [j \in Jobs |-> None]

\* open(): lock.acquire(), which fails while there is an owner or a record.
OpenAcquire(p, keep) ==
    /\ stage[p] = "closed"
    /\ Own!Claim(p)
    /\ stage' = [stage EXCEPT ![p] = "acquired"]
    /\ hold' = [hold EXCEPT ![p] = keep]
    /\ UNCHANGED <<rows, driver>>

\* Mutant: the lock is only held for the acquisition.
OpenRecoverUnlocked(p) ==
    /\ stage[p] = "acquired"
    /\ RecoverInterrupted
    /\ owner' = None /\ record' = None
    /\ stage' = [stage EXCEPT ![p] = "recovered"]
    /\ UNCHANGED <<published, audited, hold, driver>>

\* database.initialize() and recover_interrupted_jobs().  Process p runs no
\* jobs of this project: it has it closed.
OpenRecover(p) ==
    /\ stage[p] = "acquired"
    /\ RecoverInterrupted
    /\ stage' = [stage EXCEPT ![p] = "recovered"]
    /\ UNCHANGED <<ownership, hold, driver>>

\* Anything else in open() raises, from the manifest check to the artifact
\* scan: lock.release() in the handler, first the record, then the lock.
OpenFails(p) ==
    /\ stage[p] \in {"acquired", "recovered"}
    /\ owner = p
    /\ owner' = None
    /\ record' = None
    /\ stage' = [stage EXCEPT ![p] = "closed"]
    /\ UNCHANGED <<rows, published, audited, hold, driver>>

\* Mutant: the lock is given back although the session asked to keep it.
OpenReturnsUnlocked(p) ==
    /\ stage[p] = "recovered"
    /\ owner' = None /\ record' = None
    /\ UNCHANGED <<published, audited>>
    /\ stage' = [stage EXCEPT ![p] = "open"]
    /\ UNCHANGED <<rows, hold, driver>>

\* open() returns the handles; without hold_lock the lock is released first.
OpenReturns(p) ==
    /\ stage[p] = "recovered"
    /\ IF hold[p]
       THEN UNCHANGED ownership
       ELSE owner' = None /\ record' = None /\ UNCHANGED <<published, audited>>
    /\ stage' = [stage EXCEPT ![p] = "open"]
    /\ UNCHANGED <<rows, hold, driver>>

\* OpenedProject.close(), once the process's workers have stopped: that is
\* the caller's part, close() does not look.
Close(p) ==
    /\ stage[p] = "open"
    /\ \A j \in Jobs : driver[j] # p
    /\ IF hold[p]
       THEN owner' = None /\ record' = None /\ UNCHANGED <<published, audited>>
       ELSE UNCHANGED ownership
    /\ stage' = [stage EXCEPT ![p] = "closed"]
    /\ UNCHANGED <<rows, hold, driver>>

\* The process dies with whatever it holds.  Its workers are daemons: one that
\* outlives it has nobody to report to, writes no row, and counts as dead.
Crash(p) ==
    /\ stage[p] # "closed"
    /\ IF owner = p THEN Own!LetGo ELSE UNCHANGED ownership
    /\ stage' = [stage EXCEPT ![p] = "closed"]
    /\ driver' = [j \in Jobs |-> IF driver[j] = p THEN None ELSE driver[j]]
    /\ UNCHANGED <<rows, hold>>

\* An operator breaks the orphan that a crash leaves.
OperatorBreaks ==
    /\ Own!Authorise \/ Own!BreakOrphan
    /\ UNCHANGED <<rows, stage, hold, driver>>

NewJob(p, j) ==
    /\ stage[p] = "open"
    /\ CreateJob(j)
    /\ UNCHANGED <<ownership, stage, hold, driver>>

\* A process with handles moves a job on.  It knows the state from the work
\* it does itself, or from a read of a job nobody runs.  Jobs in a
\* process-owned state have a worker of this process from here on.
Drive(p, j, target) ==
    /\ stage[p] = "open"
    /\ Exists(j)
    /\ driver[j] = p \/ rows[j].state \notin ProcessOwned
    /\ \E c \in {0} \cup {n \in 0..MaxCheckpoint : n = rows[j].checkpoint + 1} :
         Transition(j, rows[j].state, target, c, IF target = "FAILED" THEN "reported" ELSE "none")
    /\ driver' = [driver EXCEPT ![j] = IF target \in ProcessOwned THEN p ELSE None]
    /\ UNCHANGED <<ownership, stage, hold>>

Next ==
    \/ \E p \in Procs :
        \/ \E keep \in HoldLock : OpenAcquire(p, keep)
        \/ OpenRecover(p) \/ OpenFails(p) \/ OpenReturns(p)
        \/ Close(p) \/ Crash(p)
        \/ \E j \in Jobs : NewJob(p, j) \/ \E s \in States : Drive(p, j, s)
    \/ OperatorBreaks

Spec == Init /\ [][Next]_vars

-----------------------------------------------------------------------------

TypeOK ==
    /\ rows \in [Jobs -> Row \cup {NoRow}]
    /\ owner \in Procs \cup {None}
    /\ stage \in [Procs -> Stages]
    /\ hold \in [Procs -> BOOLEAN]
    /\ \A p \in Procs :
         owner = p <=> \/ stage[p] \in {"acquired", "recovered"}
                       \/ stage[p] = "open" /\ hold[p]
    /\ driver \in [Jobs -> Procs \cup {None}]

\* ADR-007: "Two application processes cannot compliantly edit/recover the
\* same project concurrently."  While a worker runs a job, its row says so:
\* no other process has recovered it (projects.py l.367).
RecoverySparesLiveJobs ==
    \A j \in Jobs : driver[j] # None => rows[j].state \in ProcessOwned

\* Behind an opened session no job is left over from a dead process: every
\* process-owned row has a living worker of this process (l.367 before
\* l.404).
NoJobLeftRunning ==
    \A p \in Procs : stage[p] = "open" =>
        \A j \in Jobs : rows[j].state \in ProcessOwned => driver[j] = p

\* Every change of a row, recovery included, is a step of the job state
\* machine, so the trigger never aborts the opening of a project.
RowsFollowMachine ==
    [][\A j \in Jobs : Exists(j) /\ rows'[j].state # rows[j].state =>
         rows'[j].state \in Allowed[rows[j].state]]_vars

\* ADR-002: interrupted jobs are recovered "retaining their checkpoint for
\* an explicit retry"; no crash, recovery or retry loses one.
CheckpointsSurvive ==
    [][\A j \in Jobs : Exists(j) => rows'[j].checkpoint >= rows[j].checkpoint]_vars

\* What the domain model demands of a row and the database keeps: terminal
\* jobs have a finish time, started ones a start time (domain/job.py,
\* _validate_job).
RowsHaveTimes ==
    \A j \in Jobs : Exists(j) =>
        /\ rows[j].state \in Terminal => rows[j].completed
        /\ rows[j].state \in {"RUNNING", "PAUSING", "PAUSED", "SUCCEEDED"} => rows[j].started

\* What it demands as well: "non-terminal job cannot have a finish
\* timestamp", of the rows transition_job writes.
OpenJobsUnfinished ==
    \A j \in Jobs : Exists(j) /\ rows[j].state \notin Terminal => ~rows[j].completed
=============================================================================
