------------------------- MODULE ProjectSessionProofs -------------------------
(***************************************************************************)
(* Proofs about module ProjectSession, for any processes, jobs, nonces and *)
(* bound on checkpoints: what recovery may touch, what it leaves behind,   *)
(* and that no history of crashes, recoveries and retries takes a row off  *)
(* the state machine.                                                      *)
(***************************************************************************)
EXTENDS ProjectSession, TLAPS

-----------------------------------------------------------------------------
(* The state machine of a job.                                             *)

\* The states are these eleven, and none of them is the absence of a row.
LEMMA StatesListed ==
    States = {"QUEUED", "BLOCKED", "PREPARING", "RUNNING", "PAUSING", "PAUSED",
              "CANCELLING", "CANCELLED", "FAILED", "SUCCEEDED", "STALE"}
BY DEF States, Allowed

\* A transition leads to a state of the machine.
LEMMA AllowedAreStates == \A s \in States : Allowed[s] \subseteq States
BY StatesListed DEF Allowed

\* Only what runs is paused or succeeds.
LEMMA StartedBefore ==
    \A s \in States : \A t \in Allowed[s] :
        t \in {"PAUSING", "PAUSED", "SUCCEEDED"} => s \in {"RUNNING", "PAUSING"}
BY StatesListed DEF Allowed

\* What a living process owns can fail, and what is being cancelled can be
\* cancelled: recovery takes no step the trigger would abort.
LEMMA RecoveryAllowed ==
    /\ \A s \in ProcessOwned : "FAILED" \in Allowed[s]
    /\ "CANCELLED" \in Allowed["CANCELLING"]
BY DEF Allowed, ProcessOwned

\* A row is either there, with its columns, or it is NoRow: the two differ.
LEMMA RowsAreRows ==
    /\ NoRow \notin Row
    /\ \A r \in Row : r.state \in States /\ r.checkpoint \in Nat
    /\ NoRow.state \notin States
BY JobConstants, StatesListed DEF Row, NoRow

\* What a transition writes is a row.
LEMMA TransitionKeepsRows ==
    ASSUME rows \in [Jobs -> Row \cup {NoRow}], NEW j \in Jobs,
           NEW target \in States, NEW c \in 0..MaxCheckpoint, NEW e \in Errors,
           Transition(j, rows[j].state, target, c, e)
    PROVE  rows' \in [Jobs -> Row \cup {NoRow}] /\ rows[j] \in Row /\ rows'[j] \in Row
<1>1. rows[j] \in Row
  BY DEF Transition, Exists
<1>2. [state      |-> target,
       started    |-> rows[j].started \/ target = "RUNNING",
       completed  |-> rows[j].completed \/ target \in Terminal,
       error      |-> e,
       checkpoint |-> IF c = 0 THEN rows[j].checkpoint ELSE c] \in Row
  BY <1>1, JobConstants DEF Row
<1> QED
  BY <1>1, <1>2 DEF Transition

\* What recovery writes is a row, and it writes nothing where there is none.
LEMMA RecoveryKeepsRows ==
    ASSUME rows \in [Jobs -> Row \cup {NoRow}], RecoverInterrupted
    PROVE  /\ rows' \in [Jobs -> Row \cup {NoRow}]
           /\ \A j \in Interrupted : rows[j] \in Row /\ rows'[j] = RecoverRow(rows[j])
           /\ \A j \in Jobs \ Interrupted : rows'[j] = rows[j]
<1>1. \A j \in Interrupted : rows[j] \in Row
  BY RowsAreRows, StatesListed DEF Interrupted, ProcessOwned, NoRow
<1>2. \A r \in Row : RecoverRow(r) \in Row
  BY StatesListed, ZenonT(60) DEF Row, RecoverRow, Errors
<1>3. \A j \in Jobs :
        (IF j \in Interrupted THEN RecoverRow(rows[j]) ELSE rows[j]) \in Row \cup {NoRow}
  BY <1>1, <1>2
<1> QED
  BY <1>1, <1>3 DEF RecoverInterrupted, Interrupted

-----------------------------------------------------------------------------
(* Types, and the owner of the lock as the sessions see it.                *)

\* Every step keeps every variable in its range, and the owner is the one
\* process that is opening the project or holds it open.
LEMMA TypeStep ==
    ASSUME TypeOK, [Next]_vars PROVE TypeOK'
<1> USE SessionConstants DEF TypeOK, Stages, ownership
<1>1. ASSUME NEW p \in Procs, NEW keep \in HoldLock, OpenAcquire(p, keep)
      PROVE  TypeOK'
  BY <1>1 DEF OpenAcquire, Own!Claim
<1>2. ASSUME NEW p \in Procs, OpenRecover(p) PROVE TypeOK'
  BY <1>2, RecoveryKeepsRows DEF OpenRecover
<1>3. ASSUME NEW p \in Procs, OpenFails(p) PROVE TypeOK'
  BY <1>3 DEF OpenFails
<1>4. ASSUME NEW p \in Procs, OpenReturns(p) PROVE TypeOK'
  BY <1>4 DEF OpenReturns
<1>5. ASSUME NEW p \in Procs, Close(p) PROVE TypeOK'
  BY <1>5 DEF Close
<1>6. ASSUME NEW p \in Procs, Crash(p) PROVE TypeOK'
  BY <1>6 DEF Crash, Own!LetGo
<1>7. ASSUME NEW p \in Procs, NEW j \in Jobs, NewJob(p, j) PROVE TypeOK'
  <2>1. [state |-> "QUEUED", started |-> FALSE, completed |-> FALSE,
         error |-> "none", checkpoint |-> 0] \in Row
    BY StatesListed, JobConstants DEF Row, Errors
  <2> QED
    BY <1>7, <2>1 DEF NewJob, CreateJob
<1>8. ASSUME NEW p \in Procs, NEW j \in Jobs, NEW s \in States, Drive(p, j, s)
      PROVE  TypeOK'
  <2>1. PICK c \in 0..MaxCheckpoint :
          Transition(j, rows[j].state, s, c, IF s = "FAILED" THEN "reported" ELSE "none")
    BY <1>8, JobConstants DEF Drive
  <2>2. rows' \in [Jobs -> Row \cup {NoRow}]
    BY <2>1, TransitionKeepsRows DEF Errors
  <2> QED
    BY <1>8, <2>2 DEF Drive
<1>9. CASE OperatorBreaks
  BY <1>9 DEF OperatorBreaks, Own!Authorise, Own!BreakOrphan
<1>10. CASE UNCHANGED vars
  BY <1>10 DEF vars
<1> QED
  BY <1>1, <1>2, <1>3, <1>4, <1>5, <1>6, <1>7, <1>8, <1>9, <1>10 DEF Next

\* The project is closed, unowned and without jobs in the beginning.
LEMMA TypeInit == Init => TypeOK
BY SessionConstants DEF Init, TypeOK, Own!Init, Stages

\* Type correctness: the lock's owner and the stages of the sessions agree
\* in every reachable state, so at most one process is between acquiring
\* the lock and giving it back.
THEOREM TypeCorrect == Spec => []TypeOK
BY TypeInit, TypeStep, PTL DEF Spec

-----------------------------------------------------------------------------
(* What a step may do to a row.                                            *)

\* A step leaves every row alone, but for one that is new, one transition
\* and recovery.
LEMMA StepOfARow ==
    ASSUME TypeOK, [Next]_vars
    PROVE  \/ rows' = rows
           \/ \E j \in Jobs : CreateJob(j)
           \/ \E j \in Jobs, s \in States :
                \E c \in {0} \cup {n \in 0..MaxCheckpoint : n = rows[j].checkpoint + 1},
                   e \in Errors : Transition(j, rows[j].state, s, c, e)
           \/ RecoverInterrupted
<1>1. ASSUME NEW p \in Procs, NEW j \in Jobs, NEW s \in States, Drive(p, j, s)
      PROVE  \E c \in {0} \cup {n \in 0..MaxCheckpoint : n = rows[j].checkpoint + 1},
                e \in Errors : Transition(j, rows[j].state, s, c, e)
  BY <1>1 DEF Drive, Errors
<1>2. ASSUME NEW p \in Procs, \/ OpenRecover(p) \/ OpenFails(p) \/ OpenReturns(p)
                             \/ Close(p) \/ Crash(p)
      PROVE  rows' = rows \/ RecoverInterrupted
  BY <1>2 DEF OpenRecover, OpenFails, OpenReturns, Close, Crash
<1>3. ASSUME NEW p \in Procs, NEW keep \in HoldLock, OpenAcquire(p, keep)
      PROVE  rows' = rows
  BY <1>3 DEF OpenAcquire
<1>4. ASSUME NEW p \in Procs, NEW j \in Jobs, NewJob(p, j) PROVE CreateJob(j)
  BY <1>4 DEF NewJob
<1>5. CASE OperatorBreaks \/ UNCHANGED vars
  BY <1>5 DEF OperatorBreaks, vars
<1> QED
  BY <1>1, <1>2, <1>3, <1>4, <1>5 DEF Next

\* Recovery takes a row one step of the state machine further and keeps its
\* checkpoint and its start time.
LEMMA RecoveryOfARow ==
    ASSUME TypeOK, RecoverInterrupted, NEW j \in Interrupted
    PROVE  /\ rows'[j].state \in Allowed[rows[j].state] \cap {"FAILED", "CANCELLED"}
           /\ rows'[j].checkpoint = rows[j].checkpoint
           /\ rows'[j].started = rows[j].started
           /\ rows'[j].completed
<1>1. rows[j] \in Row /\ rows'[j] = RecoverRow(rows[j])
  BY RecoveryKeepsRows DEF TypeOK
<1>2. rows[j].state \in ProcessOwned
  BY DEF Interrupted
<1> QED
  BY <1>1, <1>2, RecoveryAllowed DEF RecoverRow, Row

\* No step takes a row off the state machine, recovery included: the trigger
\* of migration 0002 never aborts the opening of a project.
THEOREM MachineKept == Spec => RowsFollowMachine
<1>1. TypeOK /\ [Next]_vars =>
        [\A j \in Jobs : Exists(j) /\ rows'[j].state # rows[j].state =>
           rows'[j].state \in Allowed[rows[j].state]]_vars
  <2> SUFFICES ASSUME TypeOK, [Next]_vars, NEW j \in Jobs,
                      Exists(j), rows'[j].state # rows[j].state
               PROVE  rows'[j].state \in Allowed[rows[j].state]
    OBVIOUS
  <2>1. ASSUME NEW i \in Jobs, CreateJob(i) PROVE FALSE
    BY <2>1 DEF CreateJob, Exists, TypeOK
  <2>2. ASSUME NEW i \in Jobs, NEW s \in States, NEW c, NEW e \in Errors,
               Transition(i, rows[i].state, s, c, e)
        PROVE  rows'[j].state \in Allowed[rows[j].state]
    BY <2>2 DEF Transition, TypeOK
  <2>3. CASE RecoverInterrupted
    BY <2>3, RecoveryOfARow, RecoveryKeepsRows DEF TypeOK
  <2> QED
    BY <2>1, <2>2, <2>3, StepOfARow
<1> QED
  BY <1>1, TypeCorrect, PTL DEF Spec, RowsFollowMachine

\* No crash, recovery, retry or progress report takes a checkpoint back.
THEOREM CheckpointsKept == Spec => CheckpointsSurvive
<1>1. TypeOK /\ [Next]_vars =>
        [\A j \in Jobs : Exists(j) => rows'[j].checkpoint >= rows[j].checkpoint]_vars
  <2> SUFFICES ASSUME TypeOK, [Next]_vars, NEW j \in Jobs, Exists(j)
               PROVE  rows'[j].checkpoint >= rows[j].checkpoint
    OBVIOUS
  <2>0. rows[j].checkpoint \in Nat
    BY RowsAreRows DEF TypeOK, Exists
  <2>1. ASSUME NEW i \in Jobs, CreateJob(i)
        PROVE  rows'[j].checkpoint >= rows[j].checkpoint
    BY <2>0, <2>1 DEF CreateJob, Exists, TypeOK
  <2>2. ASSUME NEW i \in Jobs, NEW s \in States, NEW e \in Errors,
               NEW c \in {0} \cup {n \in 0..MaxCheckpoint : n = rows[i].checkpoint + 1},
               Transition(i, rows[i].state, s, c, e)
        PROVE  rows'[j].checkpoint >= rows[j].checkpoint
    BY <2>0, <2>2 DEF Transition, TypeOK
  <2>3. CASE RecoverInterrupted
    BY <2>0, <2>3, RecoveryOfARow, RecoveryKeepsRows DEF TypeOK
  <2> QED
    BY <2>0, <2>1, <2>2, <2>3, StepOfARow
<1> QED
  BY <1>1, TypeCorrect, PTL DEF Spec, CheckpointsSurvive

\* Terminal rows have a finish time and started ones a start time, after any
\* history: the rows that transition_job and recovery write are rows that
\* the domain model accepts when they are read.
THEOREM TimesKept == Spec => []RowsHaveTimes
<1>1. Init => RowsHaveTimes
  BY DEF Init, RowsHaveTimes, Exists
<1>2. TypeOK /\ RowsHaveTimes /\ [Next]_vars => RowsHaveTimes'
  <2> SUFFICES ASSUME TypeOK, RowsHaveTimes, [Next]_vars PROVE RowsHaveTimes'
    OBVIOUS
  <2> USE DEF RowsHaveTimes, Exists
  <2>0. CASE rows' = rows
    BY <2>0
  <2>1. ASSUME NEW i \in Jobs, CreateJob(i) PROVE RowsHaveTimes'
    BY <2>1 DEF CreateJob, TypeOK, Terminal
  <2>2. ASSUME NEW i \in Jobs, NEW s \in States, NEW e \in Errors, NEW c \in 0..MaxCheckpoint,
               Transition(i, rows[i].state, s, c, e)
        PROVE  RowsHaveTimes'
    <3>1. rows[i] \in Row /\ rows[i].state \in States
      BY <2>2, RowsAreRows, TransitionKeepsRows DEF TypeOK
    <3>2. /\ rows'[i].state = s
          /\ rows'[i].started = (rows[i].started \/ s = "RUNNING")
          /\ rows'[i].completed = (rows[i].completed \/ s \in Terminal)
      BY <2>2 DEF Transition, TypeOK
    <3>3. s \in {"RUNNING", "PAUSING", "PAUSED", "SUCCEEDED"} => rows'[i].started
      BY <2>2, <3>1, <3>2, StartedBefore DEF Transition
    <3>4. \A j \in Jobs \ {i} : rows'[j] = rows[j]
      BY <2>2 DEF Transition, TypeOK
    <3> QED
      BY <3>2, <3>3, <3>4
  <2>3. CASE RecoverInterrupted
    <3>1. ASSUME NEW j \in Interrupted
          PROVE  rows'[j].state \in {"FAILED", "CANCELLED"} /\ rows'[j].completed
      BY <2>3, RecoveryOfARow
    <3>2. \A j \in Jobs \ Interrupted : rows'[j] = rows[j]
      BY <2>3, RecoveryKeepsRows DEF TypeOK
    <3> QED
      BY <3>1, <3>2
  <2> QED
    BY <2>0, <2>1, <2>2, <2>3, StepOfARow, JobConstants
<1> QED
  BY <1>1, <1>2, TypeCorrect, PTL DEF Spec

-----------------------------------------------------------------------------
(* Sessions that keep the lock, as open_session asks open() to.            *)

\* Jobs run only for a session that is open, an unfinished opening that has
\* recovered the rows left none process-owned, and every session keeps the
\* lock for as long as it is not closed.
HeldInv ==
    /\ \A p \in Procs : stage[p] # "closed" => hold[p]
    /\ \A j \in Jobs : driver[j] # None => stage[driver[j]] = "open"
    /\ \A p \in Procs : stage[p] = "recovered" =>
         \A j \in Jobs : rows[j].state \notin ProcessOwned
    /\ RecoverySparesLiveJobs
    /\ NoJobLeftRunning

\* With the lock kept, two sessions are never in progress at once.
LEMMA OneSession ==
    ASSUME TypeOK, HeldInv, NEW p \in Procs, NEW q \in Procs,
           stage[p] # "closed", stage[q] # "closed"
    PROVE  p = q
<1>1. owner = p
  BY DEF TypeOK, HeldInv, Stages
<1>2. owner = q
  BY DEF TypeOK, HeldInv, Stages
<1> QED
  BY <1>1, <1>2

\* HeldInv is inductive when every opener keeps the lock.
LEMMA HeldStep ==
    ASSUME HoldLock = {TRUE}, TypeOK, HeldInv, [Next]_vars PROVE HeldInv'
<1> USE SessionConstants DEF TypeOK, HeldInv, RecoverySparesLiveJobs, NoJobLeftRunning
<1>1. ASSUME NEW p \in Procs, NEW keep \in HoldLock, OpenAcquire(p, keep)
      PROVE  HeldInv'
  BY <1>1 DEF OpenAcquire
<1>2. ASSUME NEW p \in Procs, OpenRecover(p) PROVE HeldInv'
  <2>1. \A j \in Jobs : driver[j] = None
    BY <1>2, OneSession DEF OpenRecover
  <2>2. \A j \in Jobs : rows'[j].state \notin ProcessOwned
    <3>1. \A j \in Interrupted : rows'[j].state \in {"FAILED", "CANCELLED"}
      BY <1>2, RecoveryOfARow DEF OpenRecover
    <3>2. \A j \in Jobs \ Interrupted : rows'[j] = rows[j] /\ rows[j].state \notin ProcessOwned
      BY <1>2, RecoveryKeepsRows DEF OpenRecover, Interrupted
    <3> QED
      BY <3>1, <3>2 DEF ProcessOwned
  <2> QED
    BY <1>2, <2>1, <2>2 DEF OpenRecover
<1>3. ASSUME NEW p \in Procs, OpenFails(p) PROVE HeldInv'
  BY <1>3 DEF OpenFails
<1>4. ASSUME NEW p \in Procs, OpenReturns(p) PROVE HeldInv'
  BY <1>4 DEF OpenReturns
<1>5. ASSUME NEW p \in Procs, Close(p) PROVE HeldInv'
  BY <1>5 DEF Close
<1>6. ASSUME NEW p \in Procs, Crash(p) PROVE HeldInv'
  <2>1. \A q \in Procs : stage'[q] # "closed" => q # p /\ stage[q] # "closed"
    BY <1>6 DEF Crash
  <2>2. \A q \in Procs : stage'[q] = "closed"
    BY <1>6, <2>1, OneSession DEF Crash
  <2>3. \A j \in Jobs : driver'[j] = None
    BY <1>6, OneSession DEF Crash
  <2> QED
    BY <1>6, <2>2, <2>3 DEF Crash
<1>7. ASSUME NEW p \in Procs, NEW j \in Jobs, NewJob(p, j) PROVE HeldInv'
  <2>1. rows'[j].state = "QUEUED" /\ \A i \in Jobs \ {j} : rows'[i] = rows[i]
    BY <1>7 DEF NewJob, CreateJob
  <2>2. driver[j] = None
    BY <1>7 DEF NewJob, CreateJob, Exists, NoRow, ProcessOwned
  <2> QED
    BY <1>7, <2>1, <2>2 DEF NewJob, ProcessOwned
<1>8. ASSUME NEW p \in Procs, NEW j \in Jobs, NEW s \in States, Drive(p, j, s)
      PROVE  HeldInv'
  <2>1. rows'[j].state = s /\ \A i \in Jobs \ {j} : rows'[i] = rows[i]
    BY <1>8 DEF Drive, Transition
  <2>2. \A q \in Procs : stage[q] # "closed" => q = p
    BY <1>8, OneSession DEF Drive
  <2>3. driver' = [driver EXCEPT ![j] = IF s \in ProcessOwned THEN p ELSE None]
        /\ UNCHANGED <<stage, hold>> /\ stage[p] = "open"
    BY <1>8 DEF Drive
  <2>4. \A i \in Jobs : driver'[i] # None => stage'[driver'[i]] = "open"
    BY <2>3
  <2>5. RecoverySparesLiveJobs'
    BY <2>1, <2>3
  <2>6. NoJobLeftRunning'
    BY <2>1, <2>2, <2>3
  <2> QED
    BY <2>2, <2>3, <2>4, <2>5, <2>6
<1>9. CASE OperatorBreaks
  BY <1>9 DEF OperatorBreaks
<1>10. CASE UNCHANGED vars
  BY <1>10 DEF vars
<1> QED
  BY <1>1, <1>2, <1>3, <1>4, <1>5, <1>6, <1>7, <1>8, <1>9, <1>10 DEF Next

\* The first project has no jobs and no session.
LEMMA HeldInit == Init => HeldInv
BY DEF Init, HeldInv, RecoverySparesLiveJobs, NoJobLeftRunning

\* With sessions that keep the lock HeldInv holds throughout.
LEMMA HeldAlways == ASSUME HoldLock = {TRUE} PROVE Spec => []HeldInv
<1>1. TypeOK /\ HeldInv /\ [Next]_vars => HeldInv'
  BY HeldStep
<1> QED
  BY <1>1, HeldInit, TypeCorrect, PTL DEF Spec

\* ADR-007's promise: while sessions keep the lock, no process recovers a job
\* that a living worker of another one runs, however often they crash, fail
\* to open or are cleaned up after.
THEOREM LiveJobsSpared ==
    ASSUME HoldLock = {TRUE} PROVE Spec => []RecoverySparesLiveJobs
<1>1. HeldInv => RecoverySparesLiveJobs
  BY DEF HeldInv
<1> QED
  BY <1>1, HeldAlways, PTL

\* And behind an opened session no job is left over from a dead process:
\* recovery ran before open() returned, under the same lock.
THEOREM NothingLeftRunning ==
    ASSUME HoldLock = {TRUE} PROVE Spec => []NoJobLeftRunning
<1>1. HeldInv => NoJobLeftRunning
  BY DEF HeldInv
<1> QED
  BY <1>1, HeldAlways, PTL

=============================================================================
