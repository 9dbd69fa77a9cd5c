---------------------------- MODULE GpuSupervisor ----------------------------
(***************************************************************************)
(* GpuWorkerSupervisor (orchestration/gpu_supervisor.py).  It runs the     *)
(* same worker process over the same three queues as the local supervisor, *)
(* so its steps are those of WorkerSupervisor; it has no shutdown().       *)
(* Out-of-memory messages and heartbeats, which wait() also knows, are     *)
(* sent by no worker of the repository.                                    *)
(***************************************************************************)
EXTENDS Naturals, Sequences

CONSTANTS Jobs, NoJob, MaxSubmits, MaxCancels, MaxResults

GpuConstants ==
    /\ NoJob \notin Jobs
    /\ MaxSubmits \in Nat /\ MaxCancels \in Nat /\ MaxResults \in Nat

VARIABLES proc, active, call, jobq, ctlq, resq, wpc, wjob, sub, asked, last, revived

Worker == INSTANCE WorkerSupervisor

vars == <<proc, active, call, jobq, ctlq, resq, wpc, wjob, sub, asked, last, revived>>

Init == Worker!Init

\* Mutant: the worker is not asked for its capabilities again, and keeps
\* the job it had.
RestartAtOnce == Worker!RestartKeepsActive

Restart == Worker!Restart

Start == Worker!Start

\* The handshake arrives, or _receive() raises: terminate() is reached only
\* when another message than "ready" comes, which no worker sends first.
Handshake == Worker!StartReady \/ Worker!StartFails

Submit(j) == Worker!Submit(j)

Cancel(j) == Worker!Cancel(j)

\* Mutant: a job that is waited for in vain is given up.
WaitGivingUp ==
    \/ Worker!Wait \/ Worker!WaitMessage \/ Worker!WaitEmpty \/ Worker!WaitCheck
    \/ Worker!WaitTimeoutForgets

\* wait(): at the deadline the job stays active.
Wait ==
    \/ Worker!Wait \/ Worker!WaitMessage \/ Worker!WaitEmpty \/ Worker!WaitCheck
    \/ Worker!WaitTimeout

EnsureAlive == Worker!NoticeDeath

Terminate == Worker!Terminate

Next ==
    \/ Start \/ Restart \/ Handshake \/ Wait \/ EnsureAlive \/ Terminate
    \/ \E j \in Jobs : Submit(j) \/ Cancel(j)
    \/ Worker!WorkerStep \/ Worker!WorkerDies

Spec == Init /\ [][Next]_vars

-----------------------------------------------------------------------------

TypeOK == Worker!TypeOK

\* At most one job is queued, running or answered, it is the one that the
\* supervisor takes for active, and what is active is somewhere.
OneJobOnTheGpu == Worker!Serialised /\ Worker!ActiveIsSomewhere
=============================================================================
