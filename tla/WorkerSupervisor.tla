-------------------------- MODULE WorkerSupervisor --------------------------
(***************************************************************************)
(* One LocalWorkerSupervisor and the process it owns (workers/supervisor,  *)
(* workers/process and workers/context.py).  The two talk through three    *)
(* multiprocessing queues: jobs and controls go to the worker, results     *)
(* come back.  A queue hands an item over some time after the put, and     *)
(* what a worker has put but not handed over dies with it.                 *)
(*                                                                         *)
(* The client calls start, submit, wait, shutdown and restart one at a     *)
(* time; cancel may come from another thread, or from wait's callback,     *)
(* while a wait is under way.                                              *)
(***************************************************************************)
EXTENDS Naturals, Sequences

CONSTANTS
    Jobs,           \* job ids; a retried job keeps its id
    NoJob,
    MaxSubmits,     \* bound: submissions in one behaviour
    MaxCancels,     \* bound: cancel requests waiting in the control queue
    MaxResults      \* bound: a handler reports progress below this many messages

ASSUME SupervisorConstants ==
    /\ NoJob \notin Jobs
    /\ MaxSubmits \in Nat /\ MaxCancels \in Nat /\ MaxResults \in Nat

VARIABLES
    proc,       \* self._process: "none", "alive" or "dead" (exited, not yet noticed)
    active,     \* self._active_job_id
    call,       \* where the client's current call stands
    jobq, ctlq, resq,   \* the three queues
    wpc,        \* where the worker process stands
    wjob,       \* the job its handler runs
    sub,        \* number of the latest accepted submission
    asked,      \* cancel requests since the worker started: <<job, submission>>
    last,       \* what the latest wait returned or raised
    revived     \* start() has replaced a dead worker whose job was still active

supervisor == <<proc, active, call>>
queues == <<jobq, ctlq, resq>>
worker == <<wpc, wjob>>
ghosts == <<sub, asked, last, revived>>
vars == <<supervisor, queues, worker, ghosts>>

Calls == {"idle", "starting", "waiting", "checking", "joining"}
WorkerSites == {"boot", "get", "run", "exit"}
Outcomes == {"none", "succeeded", "failed", "cancelled", "crashed", "timeout", "wrong_job"}

Message(kind, j, n) == [kind |-> kind, job |-> j, sub |-> n]
Event == Message("event", NoJob, 0)   \* ready, started, progress, diagnostic, stopped
Results == {"succeeded", "failed", "cancelled"}

Init ==
    /\ proc = "none" /\ active = NoJob /\ call = "idle"
    /\ jobq = <<>> /\ ctlq = <<>> /\ resq = <<>>
    /\ wpc = "exit" /\ wjob = Message("job", NoJob, 0)
    /\ sub = 0 /\ asked = {}
    /\ last = Message("none", NoJob, 0)
    /\ revived = FALSE

\* Mutant: a new worker is given the queues of the old one.
NewWorkerOldQueues ==
    /\ proc' = "alive"
    /\ jobq' = <<>> /\ ctlq' = <<>> /\ resq' = resq
    /\ wpc' = "boot" /\ wjob' = Message("job", NoJob, 0)
    /\ asked' = {}

NewWorker ==
    /\ proc' = "alive"
    /\ jobq' = <<>> /\ ctlq' = <<>> /\ resq' = <<>>
    /\ wpc' = "boot" /\ wjob' = Message("job", NoJob, 0)
    /\ asked' = {}

NoWorker ==
    /\ proc' = "none"
    /\ active' = NoJob
    /\ jobq' = <<>> /\ ctlq' = <<>> /\ resq' = <<>>
    /\ wpc' = "exit" /\ wjob' = Message("job", NoJob, 0)

-----------------------------------------------------------------------------
(* The supervisor. *)

\* start(): a live worker is kept; otherwise new queues and a new process.
\* The active job is not looked at.
Start ==
    /\ call = "idle"
    /\ proc # "alive"
    /\ NewWorker
    /\ call' = "starting"
    /\ revived' = (active # NoJob)
    /\ UNCHANGED <<active, sub, last>>

\* Mutant: terminate() leaves the job of the old worker active.
RestartKeepsActive ==
    /\ call = "idle"
    /\ NewWorker
    /\ call' = "starting"
    /\ revived' = FALSE
    /\ UNCHANGED <<active, sub, last>>

\* restart(): terminate() and then start().
Restart ==
    /\ call = "idle"
    /\ NewWorker
    /\ active' = NoJob
    /\ call' = "starting"
    /\ revived' = FALSE
    /\ UNCHANGED <<sub, last>>

\* The handshake arrives, or start() raises: the worker is dead, which
\* _ensure_alive notices, or late, and then it stays.
StartReady ==
    /\ call = "starting"
    /\ resq # <<>>
    /\ resq' = Tail(resq)
    /\ call' = "idle"
    /\ UNCHANGED <<proc, active, jobq, ctlq, worker, ghosts>>

StartFails ==
    /\ call = "starting"
    /\ resq = <<>> \/ proc = "alive"
    /\ active' = IF proc = "dead" THEN NoJob ELSE active
    /\ call' = "idle"
    /\ UNCHANGED <<proc, queues, worker, ghosts>>

\* _ensure_alive in submit, cancel or wait finds the process gone.
NoticeDeath ==
    /\ call = "idle"
    /\ proc = "dead"
    /\ active' = NoJob
    /\ UNCHANGED <<proc, call, queues, worker, ghosts>>

Submit(j) ==
    /\ call = "idle"
    /\ proc = "alive"
    /\ active = NoJob
    /\ sub < MaxSubmits
    /\ active' = j
    /\ sub' = sub + 1
    /\ jobq' = Append(jobq, Message("job", j, sub'))
    /\ UNCHANGED <<proc, call, ctlq, resq, worker, asked, last, revived>>

\* cancel(job_id): only the active job, and at any point of a wait.
Cancel(j) ==
    /\ call \in {"idle", "waiting", "checking"}
    /\ \/ /\ proc = "alive"
          /\ j = active
          /\ Len(ctlq) < MaxCancels
          /\ ctlq' = Append(ctlq, j)
          /\ asked' = asked \cup {<<j, sub>>}
          /\ active' = active
       \/ /\ proc = "dead"
          /\ active' = NoJob
          /\ UNCHANGED <<ctlq, asked>>
    /\ UNCHANGED <<proc, call, jobq, resq, worker, sub, last, revived>>

Wait ==
    /\ call = "idle"
    /\ active # NoJob
    /\ proc # "none"
    /\ call' = "waiting"
    /\ UNCHANGED <<proc, active, queues, worker, ghosts>>

\* Mutant: the first message of any type is taken for the result.
WaitMessageAnyKind ==
    /\ call = "waiting"
    /\ resq # <<>>
    /\ resq' = Tail(resq)
    /\ active' = NoJob /\ last' = Head(resq) /\ call' = "idle"
    /\ UNCHANGED <<proc, jobq, ctlq, worker, sub, asked, revived>>

\* One turn of wait's loop with a message: events are passed on, a result
\* ends the wait.
WaitMessage ==
    /\ call = "waiting"
    /\ resq # <<>>
    /\ resq' = Tail(resq)
    /\ LET m == Head(resq) IN
       \/ /\ m.kind \notin Results
          /\ UNCHANGED <<active, last, call>>
       \/ /\ m.kind \in Results
          /\ m.job = active
          /\ active' = NoJob
          /\ last' = m
          /\ call' = "idle"
       \/ /\ m.kind \in Results
          /\ m.job # active
          /\ last' = [m EXCEPT !.kind = "wrong_job"]
          /\ call' = "idle"
          /\ active' = active
    /\ UNCHANGED <<proc, jobq, ctlq, worker, sub, asked, revived>>

\* One turn without: nothing is there, or a live worker has not yet handed
\* over what it put.
WaitEmpty ==
    /\ call = "waiting"
    /\ resq = <<>> \/ proc = "alive"
    /\ call' = "checking"
    /\ UNCHANGED <<proc, active, queues, worker, ghosts>>

\* Mutant: wait polls on without looking at the process.
WaitCheckBlind ==
    /\ call = "checking"
    /\ call' = "waiting"
    /\ UNCHANGED <<proc, active, queues, worker, ghosts>>

WaitCheck ==
    /\ call = "checking"
    /\ \/ /\ proc = "alive"
          /\ call' = "waiting"
          /\ UNCHANGED <<active, last>>
       \/ /\ proc = "dead"
          /\ active' = NoJob
          /\ last' = Message("crashed", active, sub)
          /\ call' = "idle"
    /\ UNCHANGED <<proc, queues, worker, sub, asked, revived>>

\* Mutant: a wait that gives up forgets the job it waited for.
WaitTimeoutForgets ==
    /\ call = "waiting"
    /\ active' = NoJob
    /\ last' = Message("timeout", active, sub)
    /\ call' = "idle"
    /\ UNCHANGED <<proc, queues, worker, sub, asked, revived>>

\* The deadline passes: the job stays active and can be waited for again.
WaitTimeout ==
    /\ call = "waiting"
    /\ last' = Message("timeout", active, sub)
    /\ call' = "idle"
    /\ UNCHANGED <<proc, active, queues, worker, sub, asked, revived>>

\* shutdown(): ask, join for a while, then terminate what is still there.
Shutdown ==
    /\ call = "idle"
    /\ proc # "none"
    /\ jobq' = IF proc = "alive" THEN Append(jobq, Message("shutdown", NoJob, 0)) ELSE jobq
    /\ call' = "joining"
    /\ UNCHANGED <<proc, active, ctlq, resq, worker, ghosts>>

ShutdownJoined ==
    /\ call = "joining"
    /\ NoWorker
    /\ call' = "idle"
    /\ UNCHANGED ghosts

Terminate ==
    /\ call = "idle"
    /\ NoWorker
    /\ UNCHANGED <<call, ghosts>>

-----------------------------------------------------------------------------
(* The worker process. *)

Put(ms) == resq' = resq \o ms

WorkerReady ==
    /\ proc = "alive"
    /\ wpc = "boot"
    /\ Put(<<Event>>)
    /\ wpc' = "get"
    /\ UNCHANGED <<supervisor, jobq, ctlq, wjob, ghosts>>

\* job_queue.get(): a job is announced and its handler starts, a shutdown
\* ends the process.
WorkerGet ==
    /\ proc = "alive"
    /\ wpc = "get"
    /\ jobq # <<>>
    /\ jobq' = Tail(jobq)
    /\ Put(<<Event>>)
    /\ IF Head(jobq).kind = "job"
       THEN wjob' = Head(jobq) /\ wpc' = "run" /\ proc' = proc
       ELSE wjob' = wjob /\ wpc' = "exit" /\ proc' = "dead"
    /\ UNCHANGED <<active, call, ctlq, ghosts>>

Finish(kind) ==
    /\ Put((IF kind = "failed" THEN <<Event>> ELSE <<>>)
             \o <<Message(kind, wjob.job, wjob.sub)>>)
    /\ wjob' = Message("job", NoJob, 0)
    /\ wpc' = "get"

\* Mutant: a cancel request for another job is obeyed.
CheckpointAnyJob(kind) ==
    /\ proc = "alive" /\ wpc = "run"
    /\ \E k \in 0..Len(ctlq) :
        /\ ctlq' = SubSeq(ctlq, k + 1, Len(ctlq))
        /\ IF k > 0 THEN Finish(kind) ELSE UNCHANGED <<resq, worker>>
    /\ UNCHANGED <<supervisor, jobq, ghosts>>

\* context.is_cancelled(): takes every control that has arrived and throws
\* away those of other jobs.  If one was for this job the handler stops: by
\* context.checkpoint() with JobCancelledError, or, under the checkpoints of
\* speech recognition, with RecognitionCancelledError, an exception like any
\* other to worker_process_main, which reports the job as failed.
Checkpoint(kind) ==
    /\ proc = "alive" /\ wpc = "run"
    /\ \E k \in 0..Len(ctlq) :
        /\ ctlq' = SubSeq(ctlq, k + 1, Len(ctlq))
        /\ IF \E i \in 1..k : ctlq[i] = wjob.job
           THEN Finish(kind)
           ELSE UNCHANGED <<resq, worker>>
    /\ UNCHANGED <<supervisor, jobq, ghosts>>

Progress ==
    /\ proc = "alive" /\ wpc = "run"
    /\ Len(resq) < MaxResults
    /\ Put(<<Event>>)
    /\ UNCHANGED <<supervisor, jobq, ctlq, worker, ghosts>>

\* The handler returns, or raises an ordinary exception.
HandlerEnds ==
    /\ proc = "alive" /\ wpc = "run"
    /\ \E kind \in {"succeeded", "failed"} : Finish(kind)
    /\ UNCHANGED <<supervisor, jobq, ctlq, ghosts>>

\* The process dies; any of the messages it put last may be lost with it.
WorkerDies ==
    /\ proc = "alive"
    /\ proc' = "dead"
    /\ wpc' = "exit"
    /\ wjob' = Message("job", NoJob, 0)
    /\ \E k \in 0..Len(resq) : resq' = SubSeq(resq, 1, k)
    /\ UNCHANGED <<active, call, jobq, ctlq, ghosts>>

WorkerStep ==
    \/ WorkerReady \/ WorkerGet \/ Progress \/ HandlerEnds
    \/ \E kind \in {"cancelled", "failed"} : Checkpoint(kind)

ClientStep ==
    \/ Start \/ Restart \/ StartReady \/ StartFails \/ NoticeDeath
    \/ \E j \in Jobs : Submit(j) \/ Cancel(j)
    \/ Wait \/ WaitMessage \/ WaitEmpty \/ WaitCheck \/ WaitTimeout
    \/ Shutdown \/ ShutdownJoined \/ Terminate

Next == ClientStep \/ WorkerStep \/ WorkerDies

\* The operating system schedules both processes, a put is handed over at
\* last, and a handler comes to an end.  Nothing forces a deadline to pass,
\* a client to make a call or a worker to die.
Fairness ==
    /\ WF_vars(WorkerReady) /\ WF_vars(WorkerGet) /\ WF_vars(HandlerEnds)
    /\ WF_vars(StartReady \/ StartFails) /\ WF_vars(ShutdownJoined)
    /\ SF_vars(WaitMessage) /\ WF_vars(WaitEmpty) /\ WF_vars(WaitCheck)

Spec == Init /\ [][Next]_vars /\ Fairness

-----------------------------------------------------------------------------
(* What holds. *)

Holds(kinds) == {i \in 1..Len(resq) : resq[i].kind \in kinds}
JobMessages == {i \in 1..Len(jobq) : jobq[i].kind = "job"}

TypeOK ==
    /\ proc \in {"none", "alive", "dead"}
    /\ active \in Jobs \cup {NoJob}
    /\ call \in Calls
    /\ wpc \in WorkerSites
    /\ wjob.job \in Jobs \cup {NoJob}
    /\ sub \in 0..MaxSubmits
    /\ last.kind \in Outcomes
    /\ \A i \in 1..Len(ctlq) : ctlq[i] \in Jobs
    /\ \A i \in 1..Len(resq) : resq[i].kind \in Results \cup {"event"}
    /\ revived \in BOOLEAN

\* The supervisor "serializes jobs": of everything that is queued, running
\* or answered and not yet received, at most one job, and it is the active
\* one of the latest submission, whatever waits time out in between.
Serialised ==
    LET inFlight == {jobq[i] : i \in JobMessages}
                    \cup {resq[i] : i \in Holds(Results)}
                    \cup (IF wpc = "run" THEN {wjob} ELSE {})
    IN  proc = "alive" =>
        /\ \A m \in inFlight : m.job = active /\ m.sub = sub
        /\ ~(wpc = "run" /\ (JobMessages # {} \/ Holds(Results) # {}))
        /\ ~(JobMessages # {} /\ Holds(Results) # {})

\* A worker that lives has the active job, or has answered it: what is
\* active is never forgotten on the way.  The exception is start() on a
\* supervisor whose worker died with a job and nobody noticed (l.59-77
\* leave _active_job_id alone): such a job is active and nowhere.
ActiveIsSomewhere ==
    proc = "alive" /\ active # NoJob /\ ~revived /\ call # "joining" =>
        JobMessages # {} \/ wpc = "run" \/ Holds(Results) # {}

\* A result that wait returns answers the latest submission, also when an
\* earlier attempt of the same job id crashed, timed out or was cancelled.
ResultAnswersSubmission ==
    [][last' # last /\ last'.kind \in Results => last'.sub = sub]_vars

\* Nobody is told that a job was cancelled unless cancel() was called for
\* that job id while this worker lived.
CancelledOnRequest ==
    [][last' # last /\ last'.kind = "cancelled" =>
         \E n \in 1..sub : <<last'.job, n>> \in asked]_vars

\* cancel() refuses a job that "is not active" (supervisor l.94) and
\* checkpoint() says "job ... was cancelled" (context l.38): of the
\* submission that is running.
CancelHitsItsSubmission ==
    [][last' # last /\ last'.kind = "cancelled" => <<last'.job, last'.sub>> \in asked]_vars

\* A wait comes back even if its deadline is far away: with the answer of
\* the handler, or with the crash of the worker (wait's loop and
\* _ensure_alive).
WaitReturns ==
    (call = "waiting" /\ ~revived) ~> (call = "idle" \/ revived)
=============================================================================
