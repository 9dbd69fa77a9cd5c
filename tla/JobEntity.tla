------------------------------- MODULE JobEntity -------------------------------
(***************************************************************************)
(* The job of the domain model (domain/job.py): transition_to() derives    *)
(* the next job and has it validated as a whole, which may refuse what the *)
(* state machine allows.  Timestamps are set or not set; those of one job  *)
(* never go backwards, because a transition at an earlier time is refused. *)
(***************************************************************************)
EXTENDS Integers

CONSTANT MaxAttempts    \* of the retry policy

\* JobRetryPolicy: one attempt at least.
EntityConstants == MaxAttempts \in Nat \ {0}

VARIABLES
    job,            \* [status, attempt, started, finished, error, complete]
    runs            \* how often the job began to run, for properties only

vars == <<job, runs>>

Records == INSTANCE JobRecords WITH Jobs <- {}, MaxCheckpoint <- 0, rows <- <<>>

Allowed == Records!Allowed
Terminal == Records!Terminal

\* _validate_job()
Valid(j) ==
    /\ j.attempt <= MaxAttempts
    /\ j.finished <=> j.status \in Terminal
    /\ j.status \in {"RUNNING", "PAUSING", "PAUSED", "SUCCEEDED"} => j.started
    /\ j.error <=> j.status = "FAILED"
    /\ j.status = "SUCCEEDED" => j.complete

Init ==
    /\ job = [status |-> "QUEUED", attempt |-> 0, started |-> FALSE, finished |-> FALSE,
              error |-> FALSE, complete |-> FALSE]
    /\ runs = 0

\* Mutant: a job that is queued again keeps its finish time.
ChangedKeepingFinish(target) ==
    [job EXCEPT !.status = target,
                !.started = @ \/ target = "RUNNING",
                !.attempt = IF target = "RUNNING" THEN @ + 1 ELSE @,
                !.finished = @ \/ target \in Terminal,
                !.error = target = "FAILED",
                !.complete = @ \/ target = "SUCCEEDED"]

Changed(target) ==
    [job EXCEPT !.status = target,
                !.started = @ \/ target = "RUNNING",
                !.attempt = IF target = "RUNNING" THEN @ + 1 ELSE @,
                !.finished = target \in Terminal,
                !.error = target = "FAILED",
                !.complete = @ \/ target = "SUCCEEDED"]

\* A failure needs an error, and nothing else may have one.
TransitionTo(target, error) ==
    /\ target \in Allowed[job.status]
    /\ error <=> target = "FAILED"
    /\ Valid(Changed(target))
    /\ job' = Changed(target)
    /\ runs' = IF target = "RUNNING" THEN runs + 1 ELSE runs

Next == \E target \in DOMAIN Allowed, error \in BOOLEAN : TransitionTo(target, error)

Spec == Init /\ [][Next]_vars

-----------------------------------------------------------------------------

TypeOK ==
    /\ job.status \in DOMAIN Allowed /\ job.attempt \in 0..MaxAttempts
    /\ {job.started, job.finished, job.error, job.complete} \subseteq BOOLEAN

\* The validation takes nothing away from the state machine but another run
\* after MaxAttempts of them, and then the job can still be brought to an
\* end: no history of retries and pauses leaves fields behind that make an
\* allowed transition impossible.
MachineIsUsable ==
    /\ Valid(job) /\ job.attempt = runs
    /\ \A target \in Allowed[job.status] :
        Valid(Changed(target)) \/ (target = "RUNNING" /\ runs = MaxAttempts)
    /\ job.status \notin Terminal \cup {"STALE"} =>
        \E target \in Allowed[job.status] : Valid(Changed(target))
=============================================================================
