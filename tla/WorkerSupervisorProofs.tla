------------------------ MODULE WorkerSupervisorProofs ------------------------
(***************************************************************************)
(* Proofs about module WorkerSupervisor, for any job ids and any bounds on *)
(* submissions, cancel requests and progress: one job at a time over three *)
(* queues, no answer to an earlier submission, nothing cancelled unasked.  *)
(***************************************************************************)
EXTENDS WorkerSupervisor, SequenceTheorems, TLAPS

-----------------------------------------------------------------------------
(* The inductive invariant.                                                *)

Messages == [kind : Outcomes \cup {"job", "shutdown", "event"},
             job : Jobs \cup {NoJob}, sub : 0..MaxSubmits]

QueuesTyped ==
    /\ jobq \in Seq(Messages) /\ resq \in Seq(Messages)
    /\ ctlq \in Seq(Jobs)
    /\ wjob \in Messages

\* What is under way belongs to the latest submission; while the worker
\* lives, it is of the active job.
OfNow(m) ==
    /\ m.job \in Jobs
    /\ m.sub = sub
    /\ proc = "alive" => m.job = active

UnderWayIsOfNow ==
    /\ \A i \in JobMessages : OfNow(jobq[i])
    /\ \A i \in Holds(Results) : OfNow(resq[i])
    /\ wpc = "run" => OfNow(wjob)

\* One message in one place: a job waits, runs or is answered.
OneAtATime ==
    /\ \A i, k \in JobMessages : i = k
    /\ \A i, k \in Holds(Results) : i = k
    /\ wpc = "run" => JobMessages = {} /\ Holds(Results) = {}
    /\ JobMessages = {} \/ Holds(Results) = {}

\* A worker that start() waits for has been given nothing to do, and a job
\* is active only after a submission.
CallsAgree ==
    /\ call = "starting" =>
        JobMessages = {} /\ Holds(Results) = {} /\ wpc # "run"
    /\ active # NoJob => sub > 0

\* Cancel requests and the answers to them were asked for.
Asked(j) == \E n \in 1..sub : <<j, n>> \in asked

CancelsAreAsked ==
    /\ \A i \in 1..Len(ctlq) : Asked(ctlq[i])
    /\ \A i \in Holds({"cancelled"}) : Asked(resq[i].job)

SupervisorInvariant ==
    /\ TypeOK /\ QueuesTyped
    /\ UnderWayIsOfNow /\ OneAtATime /\ CallsAgree /\ CancelsAreAsked
    /\ ActiveIsSomewhere

-----------------------------------------------------------------------------
(* What the operations on a queue do.                                      *)

\* Taking the head shifts what is left by one place.
LEMMA TakeHead ==
    ASSUME NEW S, NEW q \in Seq(S), q # <<>>
    PROVE  /\ Len(q) \in Nat \ {0} /\ Head(q) = q[1] /\ Head(q) \in S
           /\ Tail(q) \in Seq(S)
           /\ \A i \in 1..Len(Tail(q)) : i + 1 \in 2..Len(q) /\ Tail(q)[i] = q[i + 1]
BY HeadTailProperties, EmptySeq, LenProperties

\* A put leaves what waits in its place and adds one message behind it.
LEMMA PutOne ==
    ASSUME NEW S, NEW q \in Seq(S), NEW m \in S, NEW r, r = q \o <<m>> \/ r = Append(q, m)
    PROVE  /\ r \in Seq(S) /\ Len(q) \in Nat /\ Len(r) = Len(q) + 1
           /\ \A i \in 1..Len(q) : r[i] = q[i]
           /\ r[Len(q) + 1] = m
<1>1. Append(q, m) = q \o <<m>>
  BY AppendIsConcat
<1> QED
  BY <1>1, AppendProperties, LenProperties

\* Two messages are put one after the other.
LEMMA PutTwo ==
    ASSUME NEW S, NEW q \in Seq(S), NEW m \in S, NEW n \in S
    PROVE  q \o (<<m>> \o <<n>>) = (q \o <<m>>) \o <<n>>
<1>1. <<m>> \in Seq(S) /\ <<n>> \in Seq(S)
  OBVIOUS
<1> QED
  BY <1>1, ConcatAssociative

\* A dying worker leaves a prefix of what it put.
LEMMA KeepPrefix ==
    ASSUME NEW S, NEW q \in Seq(S), NEW k \in 0..Len(q)
    PROVE  /\ SubSeq(q, 1, k) \in Seq(S) /\ Len(q) \in Nat /\ Len(SubSeq(q, 1, k)) = k
           /\ \A i \in 1..k : SubSeq(q, 1, k)[i] = q[i]
<1>1. Len(q) \in Nat
  BY LenProperties
<1>2. \A i \in 1..k : q[i] \in S
  BY <1>1, ElementOfSeq
<1> QED
  BY <1>1, <1>2, SubSeqProperties

\* A worker that looks at its controls leaves a suffix.
LEMMA KeepSuffix ==
    ASSUME NEW S, NEW q \in Seq(S), NEW k \in 0..Len(q)
    PROVE  /\ SubSeq(q, k + 1, Len(q)) \in Seq(S) /\ Len(q) \in Nat
           /\ Len(SubSeq(q, k + 1, Len(q))) = Len(q) - k
           /\ \A i \in 1..Len(SubSeq(q, k + 1, Len(q))) :
                i + k \in 1..Len(q) /\ SubSeq(q, k + 1, Len(q))[i] = q[i + k]
<1>1. Len(q) \in Nat
  BY LenProperties
<1>2. \A i \in k + 1 .. Len(q) : q[i] \in S
  BY <1>1, ElementOfSeq
<1>3. Len(SubSeq(q, k + 1, Len(q))) = Len(q) - k
  BY <1>1, <1>2, SubSeqProperties
<1> QED
  BY <1>1, <1>2, <1>3, SubSeqProperties

\* What a worker announces is a message of no job.
LEMMA EventIsMessage == Event \in Messages
BY SupervisorConstants DEF Event, Message, Messages

-----------------------------------------------------------------------------
(* Each operation keeps the invariant.                                     *)

\* A new worker starts with empty queues, whatever the old one left.
LEMMA NewWorkerKeeps ==
    ASSUME SupervisorInvariant, NewWorker, call' = "starting",
           active' \in {active, NoJob}, revived' = (active' # NoJob),
           UNCHANGED <<sub, last>>
    PROVE  SupervisorInvariant'
<1> USE SupervisorConstants DEF SupervisorInvariant, NewWorker, Message
<1>1. TypeOK'
  BY DEF TypeOK, Calls, WorkerSites
<1>2. QueuesTyped'
  BY DEF QueuesTyped, Messages
<1>3. JobMessages' = {} /\ (\A kinds : Holds(kinds)' = {}) /\ wpc' # "run"
  BY DEF JobMessages, Holds
<1>4. UnderWayIsOfNow' /\ OneAtATime' /\ CancelsAreAsked' /\ ActiveIsSomewhere'
  <2>1. UnderWayIsOfNow' /\ OneAtATime'
    BY <1>3 DEF UnderWayIsOfNow, OneAtATime
  <2>2. CancelsAreAsked'
    BY <1>3 DEF CancelsAreAsked
  <2>3. ActiveIsSomewhere'
    BY DEF ActiveIsSomewhere
  <2> QED
    BY <2>1, <2>2, <2>3
<1>5. CallsAgree'
  BY <1>3 DEF CallsAgree
<1> QED
  BY <1>1, <1>2, <1>4, <1>5

\* Without a worker nothing is under way.
LEMMA NoWorkerKeeps ==
    ASSUME SupervisorInvariant, NoWorker, call' \in {call, "idle"}, call' # "starting",
           UNCHANGED ghosts
    PROVE  SupervisorInvariant'
<1> USE SupervisorConstants DEF SupervisorInvariant, NoWorker, Message, ghosts
<1>1. TypeOK'
  BY DEF TypeOK, Calls, WorkerSites
<1>2. QueuesTyped'
  BY DEF QueuesTyped, Messages
<1>3. JobMessages' = {} /\ (\A kinds : Holds(kinds)' = {}) /\ wpc' # "run"
  BY DEF JobMessages, Holds
<1>4. UnderWayIsOfNow' /\ OneAtATime' /\ CancelsAreAsked' /\ ActiveIsSomewhere'
  <2>1. UnderWayIsOfNow' /\ OneAtATime'
    BY <1>3 DEF UnderWayIsOfNow, OneAtATime
  <2>2. CancelsAreAsked'
    BY <1>3 DEF CancelsAreAsked
  <2>3. ActiveIsSomewhere'
    BY DEF ActiveIsSomewhere
  <2> QED
    BY <2>1, <2>2, <2>3
<1>5. CallsAgree'
  BY <1>3 DEF CallsAgree
<1> QED
  BY <1>1, <1>2, <1>4, <1>5

\* What only notices the state of the process, waits or gives up leaves the
\* queues alone; the active job is forgotten only when the worker is dead.
LEMMA LookingKeeps ==
    ASSUME SupervisorInvariant,
           proc' = proc, jobq' = jobq, ctlq' = ctlq, resq' = resq, wpc' = wpc, wjob' = wjob,
           sub' = sub, asked' = asked, revived' = revived,
           active' = active \/ (active' = NoJob /\ proc = "dead"),
           call' \in Calls, call' = "starting" => call = "starting",
           call = "joining" => call' = "joining",
           last'.kind \in Outcomes
    PROVE  SupervisorInvariant'
<1> USE SupervisorConstants DEF SupervisorInvariant
<1>1. TypeOK' /\ QueuesTyped'
  BY DEF TypeOK, QueuesTyped
<1>2. JobMessages' = JobMessages /\ (\A kinds : Holds(kinds)' = Holds(kinds))
  BY DEF JobMessages, Holds
<1>3. \A m : OfNow(m) => OfNow(m)'
  BY DEF OfNow
<1>4. UnderWayIsOfNow'
  BY <1>2, <1>3 DEF UnderWayIsOfNow
<1>5. OneAtATime' /\ CancelsAreAsked'
  BY <1>2 DEF OneAtATime, CancelsAreAsked, Asked
<1>6. ActiveIsSomewhere' /\ CallsAgree'
  BY <1>2 DEF ActiveIsSomewhere, CallsAgree
<1> QED
  BY <1>1, <1>4, <1>5, <1>6

\* A job is accepted by a live worker that has none: nothing else is under
\* way then.
LEMMA SubmitKeeps ==
    ASSUME SupervisorInvariant, NEW j \in Jobs, Submit(j)
    PROVE  SupervisorInvariant'
<1> USE SupervisorConstants DEF SupervisorInvariant, Submit, worker
<1>0. Message("job", j, sub') \in Messages /\ sub \in Nat /\ sub' = sub + 1 /\ active = NoJob
  BY DEF TypeOK, Message, Messages
<1>1. JobMessages = {} /\ Holds(Results) = {} /\ wpc # "run"
  BY DEF UnderWayIsOfNow, OfNow
<1>2. /\ jobq' \in Seq(Messages) /\ Len(jobq) \in Nat /\ Len(jobq') = Len(jobq) + 1
      /\ \A i \in 1..Len(jobq) : jobq'[i] = jobq[i]
      /\ jobq'[Len(jobq) + 1] = Message("job", j, sub')
  BY <1>0, PutOne DEF QueuesTyped
<1>3. JobMessages' = {Len(jobq) + 1}
  BY <1>1, <1>2 DEF JobMessages, Message
<1>4. \A kinds : Holds(kinds)' = Holds(kinds)
  BY DEF Holds
<1>5. TypeOK' /\ QueuesTyped'
  BY <1>0, <1>2 DEF TypeOK, QueuesTyped
<1>6. UnderWayIsOfNow'
  BY <1>1, <1>2, <1>3, <1>4 DEF UnderWayIsOfNow, OfNow, Message
<1>7. OneAtATime' /\ CallsAgree' /\ ActiveIsSomewhere'
  BY <1>0, <1>1, <1>3, <1>4 DEF OneAtATime, CallsAgree, ActiveIsSomewhere
<1>8. CancelsAreAsked'
  <2>1. \A i \in Jobs : Asked(i) => Asked(i)'
    <3>1. asked' = asked /\ 1..sub \subseteq 1..sub'
      BY <1>0
    <3> QED
      BY <3>1 DEF Asked
  <2>2. \A i \in 1..Len(ctlq) : Asked(ctlq[i])'
    BY <2>1 DEF CancelsAreAsked, TypeOK
  <2> QED
    BY <1>1, <1>4, <2>2 DEF CancelsAreAsked, Holds, Results
<1> QED
  BY <1>5, <1>6, <1>7, <1>8

\* A cancel request is put for the active job, or the death is noticed.
LEMMA CancelKeeps ==
    ASSUME SupervisorInvariant, NEW j \in Jobs, Cancel(j)
    PROVE  SupervisorInvariant'
<1>1. CASE proc = "dead"
  BY <1>1, LookingKeeps DEF Cancel, queues, worker, SupervisorInvariant, TypeOK, Calls
<1>2. CASE proc = "alive"
  <2> USE <1>2, SupervisorConstants DEF SupervisorInvariant, Cancel, worker
  <2>1. /\ ctlq' \in Seq(Jobs) /\ Len(ctlq) \in Nat /\ Len(ctlq') = Len(ctlq) + 1
        /\ \A i \in 1..Len(ctlq) : ctlq'[i] = ctlq[i]
        /\ ctlq'[Len(ctlq) + 1] = j
    <3>1. ctlq \in Seq(Jobs) /\ ctlq' = Append(ctlq, j)
      BY DEF QueuesTyped
    <3> QED
      BY <3>1, PutOne
  <2>2. sub \in Nat /\ sub > 0 /\ active' = active
    BY DEF TypeOK, CallsAgree
  <2>3. Asked(j)' /\ \A i \in Jobs : Asked(i) => Asked(i)'
    BY <2>2 DEF Asked
  <2>4. JobMessages' = JobMessages /\ (\A kinds : Holds(kinds)' = Holds(kinds))
    BY DEF JobMessages, Holds
  <2>5. \A i \in 1..Len(ctlq') : ctlq'[i] \in Jobs /\ Asked(ctlq[i])'
    <3>1. \A i \in 1..Len(ctlq) : ctlq[i] \in Jobs /\ Asked(ctlq[i])
      BY DEF CancelsAreAsked, TypeOK
    <3>2. SUFFICES ASSUME NEW i \in 1..Len(ctlq'), NEW m, m = ctlq'[i]
                   PROVE  m \in Jobs /\ Asked(m)'
      BY DEF Asked
    <3>3. CASE i = Len(ctlq) + 1
      BY <2>1, <2>3, <3>2, <3>3
    <3>4. CASE i # Len(ctlq) + 1
      <4>1. i \in 1..Len(ctlq) /\ m = ctlq[i]
        BY <2>1, <3>2, <3>4
      <4> QED
        BY <2>3, <3>1, <4>1
    <3> QED
      BY <3>3, <3>4
  <2>6. \A i \in Holds({"cancelled"}) : resq[i].job \in Jobs
    BY DEF Holds, UnderWayIsOfNow, OfNow, Results
  <2>7. CancelsAreAsked'
    BY <2>3, <2>4, <2>5, <2>6 DEF CancelsAreAsked
  <2>8. TypeOK' /\ QueuesTyped'
    BY <2>1, <2>2, <2>5 DEF TypeOK, QueuesTyped
  <2>9. UnderWayIsOfNow' /\ OneAtATime' /\ CallsAgree' /\ ActiveIsSomewhere'
    BY <2>2, <2>4 DEF UnderWayIsOfNow, OfNow, OneAtATime, CallsAgree, ActiveIsSomewhere
  <2> QED
    BY <2>7, <2>8, <2>9
<1> QED
  BY <1>1, <1>2 DEF Cancel

\* A message is received.  An event says nothing; a result is the only one,
\* and the job it answers is active no longer.
LEMMA ReceiveKeeps ==
    ASSUME SupervisorInvariant, resq # <<>>, resq' = Tail(resq),
           call' \in {call, "idle"}, call # "joining",
           \/ Head(resq).kind \notin Results /\ active' = active
           \/ Head(resq).kind \in Results /\ Head(resq).job = active /\ active' = NoJob
           \/ Head(resq).kind \in Results /\ Head(resq).job # active /\ active' = active,
           last'.kind \in Outcomes,
           UNCHANGED <<proc, jobq, ctlq, worker, sub, asked, revived>>
    PROVE  SupervisorInvariant'
<1> USE SupervisorConstants DEF SupervisorInvariant, worker
<1>1. /\ Len(resq) \in Nat \ {0} /\ Head(resq) = resq[1] /\ Head(resq) \in Messages
      /\ resq' \in Seq(Messages)
      /\ \A i \in 1..Len(resq') : i + 1 \in 2..Len(resq) /\ resq'[i] = resq[i + 1]
      /\ Len(resq') = Len(resq) - 1
  BY TakeHead, HeadTailProperties DEF QueuesTyped
<1>2. \A kinds : \A i \in Holds(kinds)' : i + 1 \in Holds(kinds) \ {1} /\ resq'[i] = resq[i + 1]
  BY <1>1 DEF Holds
<1>3. JobMessages' = JobMessages
  BY DEF JobMessages
<1>4. TypeOK' /\ QueuesTyped'
  <2>1. \A i \in 1..Len(resq') : resq'[i].kind \in Results \cup {"event"}
    BY <1>1 DEF TypeOK
  <2> QED
    BY <1>1, <2>1 DEF TypeOK, QueuesTyped, Calls
<1>5. CASE Head(resq).kind \notin Results
  <2>1. ActiveIsSomewhere'
    <3>1. \A i \in Holds(Results) : i - 1 \in Holds(Results)'
      BY <1>1, <1>5 DEF Holds
    <3> QED
      BY <1>3, <1>5, <3>1 DEF ActiveIsSomewhere
  <2>2. UnderWayIsOfNow' /\ OneAtATime' /\ CallsAgree'
    BY <1>2, <1>3, <1>5 DEF UnderWayIsOfNow, OfNow, OneAtATime, CallsAgree, Holds
  <2>3. CancelsAreAsked'
    BY <1>2 DEF CancelsAreAsked, Asked
  <2> QED
    BY <1>4, <2>1, <2>2, <2>3
<1>6. CASE Head(resq).kind \in Results
  <2>1. 1 \in Holds(Results)
    BY <1>1, <1>6 DEF Holds
  <2>2. Holds(Results) = {1} /\ JobMessages = {} /\ wpc # "run"
    BY <2>1 DEF OneAtATime
  <2>3. Holds(Results)' = {} /\ Holds({"cancelled"})' = {}
    <3>1. \A i \in Holds(Results)' : FALSE
      BY <1>2, <2>2
    <3> QED
      BY <3>1 DEF Holds, Results
  <2>4. proc = "alive" => active' = NoJob
    BY <1>1, <1>6, <2>1 DEF UnderWayIsOfNow, OfNow
  <2>5. UnderWayIsOfNow' /\ OneAtATime' /\ ActiveIsSomewhere'
    BY <1>3, <2>2, <2>3, <2>4 DEF UnderWayIsOfNow, OneAtATime, ActiveIsSomewhere
  <2>6. CancelsAreAsked'
    BY <2>3 DEF CancelsAreAsked, Asked
  <2>7. CallsAgree'
    BY <1>3, <2>2, <2>3 DEF CallsAgree
  <2> QED
    BY <1>4, <2>5, <2>6, <2>7
<1> QED
  BY <1>5, <1>6

\* A shutdown message is not a job.
LEMMA ShutdownKeeps ==
    ASSUME SupervisorInvariant, Shutdown
    PROVE  SupervisorInvariant'
<1> USE SupervisorConstants DEF SupervisorInvariant, Shutdown, worker, ghosts
<1>1. Message("shutdown", NoJob, 0) \in Messages
  BY DEF Message, Messages
<1>2. jobq' \in Seq(Messages) /\ JobMessages' = JobMessages
      /\ \A i \in JobMessages : jobq'[i] = jobq[i]
  <2>1. CASE jobq' = jobq
    BY <2>1 DEF QueuesTyped, JobMessages
  <2>2. CASE jobq' = Append(jobq, Message("shutdown", NoJob, 0))
    <3>1. /\ jobq' \in Seq(Messages) /\ Len(jobq) \in Nat /\ Len(jobq') = Len(jobq) + 1
          /\ \A i \in 1..Len(jobq) : jobq'[i] = jobq[i]
          /\ jobq'[Len(jobq) + 1] = Message("shutdown", NoJob, 0)
      BY <1>1, <2>2, PutOne DEF QueuesTyped
    <3> QED
      BY <3>1 DEF JobMessages, Message
  <2> QED
    BY <2>1, <2>2
<1>3. \A kinds : Holds(kinds)' = Holds(kinds)
  BY DEF Holds
<1>4. TypeOK' /\ QueuesTyped'
  BY <1>2 DEF TypeOK, QueuesTyped, Calls
<1>5. UnderWayIsOfNow'
  BY <1>2, <1>3 DEF UnderWayIsOfNow, OfNow
<1>6. OneAtATime' /\ CallsAgree' /\ ActiveIsSomewhere' /\ CancelsAreAsked'
  BY <1>2, <1>3 DEF OneAtATime, CallsAgree, ActiveIsSomewhere, CancelsAreAsked, Asked
<1> QED
  BY <1>4, <1>5, <1>6

-----------------------------------------------------------------------------
(* The worker's steps keep it.                                             *)

\* An event behind what is there changes nothing that is under way.
LEMMA EventKeeps ==
    ASSUME SupervisorInvariant, Put(<<Event>>), wpc # "run" => wpc' \in {"get", "exit"},
           wpc = "run" => wpc' = "run", wjob' = wjob,
           UNCHANGED <<supervisor, jobq, ctlq, ghosts>>
    PROVE  SupervisorInvariant'
<1> USE SupervisorConstants DEF SupervisorInvariant, supervisor, ghosts
<1>1. /\ resq' \in Seq(Messages) /\ Len(resq) \in Nat /\ Len(resq') = Len(resq) + 1
      /\ \A i \in 1..Len(resq) : resq'[i] = resq[i]
      /\ resq'[Len(resq) + 1] = Event
  BY EventIsMessage, PutOne DEF QueuesTyped, Put
<1>2. Event.kind = "event"
  BY DEF Event, Message
<1>3. /\ Holds(Results)' = Holds(Results) /\ \A i \in Holds(Results) : resq'[i] = resq[i]
      /\ Holds({"cancelled"})' = Holds({"cancelled"})
      /\ \A i \in Holds({"cancelled"}) : resq'[i] = resq[i]
  BY <1>1, <1>2 DEF Holds, Results
<1>4. JobMessages' = JobMessages
  BY DEF JobMessages
<1>5. TypeOK' /\ QueuesTyped'
  <2>1. \A i \in 1..Len(resq') : resq'[i].kind \in Results \cup {"event"}
    BY <1>1, <1>2 DEF TypeOK
  <2> QED
    BY <1>1, <2>1 DEF TypeOK, QueuesTyped, WorkerSites
<1>6. UnderWayIsOfNow'
  BY <1>3, <1>4 DEF UnderWayIsOfNow, OfNow
<1>7. OneAtATime' /\ CallsAgree' /\ ActiveIsSomewhere' /\ CancelsAreAsked'
  BY <1>3, <1>4 DEF OneAtATime, CallsAgree, ActiveIsSomewhere, CancelsAreAsked, Asked
<1> QED
  BY <1>5, <1>6, <1>7

\* The worker takes the one job there is, or a shutdown.
LEMMA GetKeeps ==
    ASSUME SupervisorInvariant, WorkerGet
    PROVE  SupervisorInvariant'
<1> USE SupervisorConstants DEF SupervisorInvariant, WorkerGet, ghosts
<1>1. /\ resq' \in Seq(Messages) /\ Len(resq) \in Nat /\ Len(resq') = Len(resq) + 1
      /\ \A i \in 1..Len(resq) : resq'[i] = resq[i]
      /\ resq'[Len(resq) + 1] = Event
  BY EventIsMessage, PutOne DEF QueuesTyped, Put
<1>2. Event.kind = "event"
  BY DEF Event, Message
<1>3. /\ Holds(Results)' = Holds(Results) /\ \A i \in Holds(Results) : resq'[i] = resq[i]
      /\ Holds({"cancelled"})' = Holds({"cancelled"})
      /\ \A i \in Holds({"cancelled"}) : resq'[i] = resq[i]
  BY <1>1, <1>2 DEF Holds, Results
<1>4. /\ Len(jobq) \in Nat \ {0} /\ Head(jobq) = jobq[1] /\ Head(jobq) \in Messages
      /\ jobq' \in Seq(Messages)
      /\ \A i \in 1..Len(jobq') : i + 1 \in 2..Len(jobq) /\ jobq'[i] = jobq[i + 1]
  BY TakeHead DEF QueuesTyped
<1>5. \A i \in JobMessages' : i + 1 \in JobMessages \ {1} /\ jobq'[i] = jobq[i + 1]
  BY <1>4 DEF JobMessages
<1>6. TypeOK' /\ QueuesTyped'
  <2>1. \A i \in 1..Len(resq') : resq'[i].kind \in Results \cup {"event"}
    BY <1>1, <1>2 DEF TypeOK
  <2>2. wjob' \in Messages /\ wjob'.job \in Jobs \cup {NoJob}
    BY <1>4 DEF QueuesTyped, Messages
  <2> QED
    BY <1>1, <1>4, <2>1, <2>2 DEF TypeOK, QueuesTyped, WorkerSites
<1>7. CancelsAreAsked'
  BY <1>3 DEF CancelsAreAsked, Asked
<1>8. CASE Head(jobq).kind = "job"
  <2>1. 1 \in JobMessages
    BY <1>4, <1>8 DEF JobMessages
  <2>2. JobMessages = {1} /\ Holds(Results) = {} /\ call # "starting"
    BY <2>1 DEF OneAtATime, CallsAgree
  <2>3. JobMessages' = {}
    BY <1>5, <2>2
  <2>4. UnderWayIsOfNow'
    BY <1>3, <1>4, <1>8, <2>1, <2>2, <2>3 DEF UnderWayIsOfNow, OfNow
  <2>5. OneAtATime' /\ CallsAgree' /\ ActiveIsSomewhere'
    BY <1>3, <1>8, <2>2, <2>3 DEF OneAtATime, CallsAgree, ActiveIsSomewhere
  <2> QED
    BY <1>6, <1>7, <2>4, <2>5
<1>9. CASE Head(jobq).kind # "job"
  <2>1. UnderWayIsOfNow'
    BY <1>3, <1>5, <1>9 DEF UnderWayIsOfNow, OfNow
  <2>2. OneAtATime'
    <3>1. \A i, k \in JobMessages' : i = k
      <4>1. \A i \in JobMessages' : i \in Nat
        BY <1>4 DEF JobMessages
      <4> QED
        BY <1>5, <4>1 DEF OneAtATime
    <3> QED
      BY <1>3, <1>5, <1>9, <3>1 DEF OneAtATime
  <2>3. CallsAgree' /\ ActiveIsSomewhere'
    BY <1>3, <1>5, <1>9 DEF CallsAgree, ActiveIsSomewhere
  <2> QED
    BY <1>6, <1>7, <2>1, <2>2, <2>3
<1> QED
  BY <1>8, <1>9

\* A handler that ends puts the one answer to its job.
LEMMA FinishKeeps ==
    ASSUME SupervisorInvariant, proc = "alive", wpc = "run", NEW kind \in Results, Finish(kind),
           kind = "cancelled" => Asked(wjob.job),
           UNCHANGED <<supervisor, jobq, ghosts>>,
           ctlq' \in Seq(Jobs), \A i \in 1..Len(ctlq') : ctlq'[i] \in Jobs /\ Asked(ctlq'[i])
    PROVE  SupervisorInvariant'
<1> USE SupervisorConstants DEF SupervisorInvariant, supervisor, ghosts
<1> DEFINE answer == Message(kind, wjob.job, wjob.sub)
<1>1. /\ answer \in Messages /\ answer.kind = kind /\ answer.job = wjob.job
      /\ answer.sub = wjob.sub
  BY DEF Message, Messages, QueuesTyped, Results, Outcomes
<1>2. JobMessages = {} /\ Holds(Results) = {} /\ OfNow(wjob)
  BY DEF OneAtATime, UnderWayIsOfNow
<1>3. PICK n \in 1..Len(resq') :
        /\ resq' \in Seq(Messages) /\ Len(resq') \in Nat
        /\ resq'[n] = answer
        /\ \A i \in 1..Len(resq') \ {n} : resq'[i].kind = "event"
  <2> DEFINE q == IF kind = "failed" THEN resq \o <<Event>> ELSE resq
  <2>1. /\ q \in Seq(Messages) /\ Len(q) \in Nat
        /\ \A i \in 1..Len(q) : q[i].kind = "event"
    <3>1. \A i \in 1..Len(resq) : resq[i].kind = "event"
      BY <1>2 DEF Holds, TypeOK
    <3>2. CASE kind = "failed"
      <4>1. /\ q \in Seq(Messages) /\ Len(resq) \in Nat /\ Len(q) = Len(resq) + 1
            /\ \A i \in 1..Len(resq) : q[i] = resq[i]
            /\ q[Len(resq) + 1] = Event
        BY <3>2, EventIsMessage, PutOne DEF QueuesTyped
      <4> QED
        BY <3>1, <4>1 DEF Event, Message
    <3>3. CASE kind # "failed"
      BY <3>1, <3>3, LenProperties DEF QueuesTyped
    <3> QED
      BY <3>2, <3>3
  <2>2. resq' = q \o <<answer>>
    <3>1. CASE kind = "failed"
      BY <1>1, <3>1, EventIsMessage, PutTwo DEF Finish, Put, QueuesTyped
    <3>2. CASE kind # "failed"
      <4>1. <<answer>> \in Seq(Messages)
        BY <1>1
      <4> QED
        BY <3>2, <4>1, ConcatEmptySeq DEF Finish, Put
    <3> QED
      BY <3>1, <3>2
  <2> HIDE DEF q, answer
  <2>3. /\ resq' \in Seq(Messages) /\ Len(resq') = Len(q) + 1
        /\ \A i \in 1..Len(q) : resq'[i] = q[i]
        /\ resq'[Len(q) + 1] = answer
    BY <1>1, <2>1, <2>2, PutOne
  <2> QED
    BY <2>1, <2>3
<1> HIDE DEF answer
<1>4. Holds(Results)' = {n} /\ Holds({"cancelled"})' \subseteq {n}
  BY <1>1, <1>3 DEF Holds, Results
<1>5. JobMessages' = {} /\ wpc' = "get"
  BY <1>2 DEF JobMessages, Finish
<1>6. TypeOK' /\ QueuesTyped'
  <2>1. wjob' \in Messages /\ wjob'.job \in Jobs \cup {NoJob}
    BY DEF Finish, Message, Messages
  <2>2. \A i \in 1..Len(resq') : resq'[i].kind \in Results \cup {"event"}
    BY <1>1, <1>3
  <2> QED
    BY <1>3, <1>5, <2>1, <2>2 DEF TypeOK, QueuesTyped, WorkerSites
<1>7. UnderWayIsOfNow'
  BY <1>1, <1>2, <1>3, <1>4, <1>5 DEF UnderWayIsOfNow, OfNow
<1>8. OneAtATime' /\ ActiveIsSomewhere'
  BY <1>4, <1>5 DEF OneAtATime, ActiveIsSomewhere
<1>9. CallsAgree'
  BY <1>4, <1>5 DEF CallsAgree
<1>10. CancelsAreAsked'
  <2>1. \A i \in Holds({"cancelled"})' : i = n /\ kind = "cancelled"
    BY <1>1, <1>3, <1>4 DEF Holds
  <2> QED
    BY <1>1, <1>3, <2>1 DEF CancelsAreAsked, Asked
<1> QED
  BY <1>6, <1>7, <1>8, <1>9, <1>10

\* A look at the controls takes some of them; if one is for the running job
\* the handler ends, and it was asked for.
LEMMA CheckpointKeeps ==
    ASSUME SupervisorInvariant, NEW kind \in {"cancelled", "failed"}, Checkpoint(kind)
    PROVE  SupervisorInvariant'
<1> USE DEF SupervisorInvariant
<1>1. PICK k \in 0..Len(ctlq) :
        /\ ctlq' = SubSeq(ctlq, k + 1, Len(ctlq))
        /\ IF \E i \in 1..k : ctlq[i] = wjob.job
           THEN Finish(kind)
           ELSE UNCHANGED <<resq, worker>>
  BY DEF Checkpoint
<1>2. /\ ctlq' \in Seq(Jobs) /\ Len(ctlq) \in Nat
      /\ \A i \in 1..Len(ctlq') : i + k \in 1..Len(ctlq) /\ ctlq'[i] = ctlq[i + k]
  BY <1>1, KeepSuffix DEF QueuesTyped
<1>3. \A i \in 1..Len(ctlq') : ctlq'[i] \in Jobs /\ Asked(ctlq'[i])
  BY <1>2 DEF CancelsAreAsked, TypeOK
<1>4. CASE \E i \in 1..k : ctlq[i] = wjob.job
  <2>1. Asked(wjob.job)
    BY <1>2, <1>4 DEF CancelsAreAsked
  <2> QED
    BY <1>1, <1>2, <1>3, <1>4, <2>1, FinishKeeps DEF Checkpoint, Results
<1>5. CASE ~ \E i \in 1..k : ctlq[i] = wjob.job
  <2>1. UNCHANGED <<proc, active, call, jobq, resq, wpc, wjob, sub, asked, last, revived>>
    BY <1>1, <1>5 DEF Checkpoint, supervisor, worker, ghosts
  <2>2. JobMessages' = JobMessages /\ (\A kinds : Holds(kinds)' = Holds(kinds))
    BY <2>1 DEF JobMessages, Holds
  <2>3. TypeOK' /\ QueuesTyped'
    BY <1>2, <1>3, <2>1 DEF TypeOK, QueuesTyped
  <2>4. CancelsAreAsked'
    BY <1>3, <2>1, <2>2 DEF CancelsAreAsked, Asked
  <2>5. UnderWayIsOfNow' /\ OneAtATime' /\ CallsAgree' /\ ActiveIsSomewhere'
    BY <2>1, <2>2 DEF UnderWayIsOfNow, OfNow, OneAtATime, CallsAgree, ActiveIsSomewhere
  <2> QED
    BY <2>3, <2>4, <2>5
<1> QED
  BY <1>4, <1>5

\* A dead worker leaves a prefix of its answers and nothing that runs.
LEMMA DeathKeeps ==
    ASSUME SupervisorInvariant, WorkerDies
    PROVE  SupervisorInvariant'
<1> USE SupervisorConstants DEF SupervisorInvariant, WorkerDies, ghosts
<1>1. PICK k \in 0..Len(resq) : resq' = SubSeq(resq, 1, k)
  OBVIOUS
<1>2. /\ resq' \in Seq(Messages) /\ Len(resq) \in Nat /\ Len(resq') = k
      /\ \A i \in 1..k : resq'[i] = resq[i]
  BY <1>1, KeepPrefix DEF QueuesTyped
<1>3. \A kinds : \A i \in Holds(kinds)' : i \in Holds(kinds) /\ resq'[i] = resq[i]
  BY <1>2 DEF Holds
<1>4. JobMessages' = JobMessages
  BY DEF JobMessages
<1>5. TypeOK' /\ QueuesTyped'
  BY <1>2 DEF TypeOK, QueuesTyped, WorkerSites, Message, Messages
<1>6. UnderWayIsOfNow'
  BY <1>3, <1>4 DEF UnderWayIsOfNow, OfNow
<1>7. OneAtATime' /\ CallsAgree' /\ ActiveIsSomewhere' /\ CancelsAreAsked'
  BY <1>3, <1>4 DEF OneAtATime, CallsAgree, ActiveIsSomewhere, CancelsAreAsked, Asked
<1> QED
  BY <1>5, <1>6, <1>7

-----------------------------------------------------------------------------
(* The theorems.                                                           *)

\* Before start() there is no worker and nothing is under way.
LEMMA InvariantInit == Init => SupervisorInvariant
<1> SUFFICES ASSUME Init PROVE SupervisorInvariant
  OBVIOUS
<1> USE SupervisorConstants DEF Init, Message
<1>1. JobMessages = {} /\ Holds(Results) = {} /\ Holds({"cancelled"}) = {}
  BY DEF JobMessages, Holds
<1>2. TypeOK
  <2>1. last.kind \in Outcomes /\ wjob.job = NoJob
    BY DEF Outcomes
  <2>2. /\ \A i \in 1..Len(ctlq) : ctlq[i] \in Jobs
        /\ \A i \in 1..Len(resq) : resq[i].kind \in Results \cup {"event"}
    OBVIOUS
  <2>3. call \in Calls /\ wpc \in WorkerSites /\ sub \in 0..MaxSubmits
    BY DEF Calls, WorkerSites
  <2> QED
    BY <2>1, <2>2, <2>3 DEF TypeOK
<1>3. QueuesTyped
  BY DEF QueuesTyped, Messages
<1>4. UnderWayIsOfNow /\ OneAtATime /\ CallsAgree /\ CancelsAreAsked /\ ActiveIsSomewhere
  BY <1>1 DEF UnderWayIsOfNow, OneAtATime, CallsAgree, CancelsAreAsked, ActiveIsSomewhere
<1> QED
  BY <1>2, <1>3, <1>4 DEF SupervisorInvariant

\* A turn of wait's loop with a message is a reception; outside a handshake
\* what is received is an event or answers the active job.
LEMMA WaitMessageKeeps ==
    ASSUME SupervisorInvariant, WaitMessage
    PROVE  SupervisorInvariant'
<1>1. Head(resq) \in Messages /\ Head(resq) = resq[1] /\ 1 \in 1..Len(resq)
  BY TakeHead DEF SupervisorInvariant, QueuesTyped, WaitMessage
<1>2. last'.kind \in Outcomes
  BY <1>1 DEF WaitMessage, Messages, Results, Outcomes, SupervisorInvariant, TypeOK
<1> QED
  BY <1>1, <1>2, ReceiveKeeps DEF WaitMessage

\* The handshake takes an event: there is nothing else yet.
LEMMA StartReadyKeeps ==
    ASSUME SupervisorInvariant, StartReady
    PROVE  SupervisorInvariant'
<1>1. Head(resq) = resq[1] /\ 1 \in 1..Len(resq)
  BY TakeHead DEF SupervisorInvariant, QueuesTyped, StartReady
<1>2. Head(resq).kind \notin Results
  BY <1>1 DEF StartReady, SupervisorInvariant, CallsAgree, Holds
<1> QED
  BY <1>2, ReceiveKeeps DEF StartReady, ghosts, worker, SupervisorInvariant, TypeOK

\* The client's calls keep the invariant.
LEMMA ClientKeeps ==
    ASSUME SupervisorInvariant, ClientStep
    PROVE  SupervisorInvariant'
<1>1. CASE Start
  BY <1>1, NewWorkerKeeps DEF Start, SupervisorInvariant, TypeOK
<1>2. CASE Restart
  BY <1>2, NewWorkerKeeps DEF Restart
<1>3. CASE StartReady
  BY <1>3, StartReadyKeeps
<1>0. call \in Calls /\ last.kind \in Outcomes
  BY DEF SupervisorInvariant, TypeOK
<1>4. CASE StartFails \/ NoticeDeath
  <2>1. /\ proc' = proc /\ jobq' = jobq /\ ctlq' = ctlq /\ resq' = resq
        /\ wpc' = wpc /\ wjob' = wjob /\ sub' = sub /\ asked' = asked /\ revived' = revived /\ last' = last
        /\ active' = active \/ (active' = NoJob /\ proc = "dead")
        /\ call' = "idle" /\ call # "joining"
    BY <1>4 DEF StartFails, NoticeDeath, queues, worker, ghosts
  <2> QED
    BY <1>0, <2>1, LookingKeeps DEF Calls
<1>5. ASSUME NEW j \in Jobs, Submit(j) \/ Cancel(j) PROVE SupervisorInvariant'
  BY <1>5, SubmitKeeps, CancelKeeps
<1>6. CASE Wait \/ WaitEmpty
  <2>1. /\ proc' = proc /\ jobq' = jobq /\ ctlq' = ctlq /\ resq' = resq
        /\ wpc' = wpc /\ wjob' = wjob /\ sub' = sub /\ asked' = asked /\ revived' = revived /\ last' = last /\ active' = active
        /\ call' \in {"waiting", "checking"} /\ call # "joining"
    BY <1>6 DEF Wait, WaitEmpty, queues, worker, ghosts
  <2> QED
    BY <1>0, <2>1, LookingKeeps DEF Calls
<1>7. CASE WaitMessage
  BY <1>7, WaitMessageKeeps
<1>8. CASE WaitCheck
  <2>1. /\ proc' = proc /\ jobq' = jobq /\ ctlq' = ctlq /\ resq' = resq
        /\ wpc' = wpc /\ wjob' = wjob /\ sub' = sub /\ asked' = asked /\ revived' = revived
        /\ active' = active \/ (active' = NoJob /\ proc = "dead")
        /\ call' \in {"waiting", "idle"} /\ call # "joining"
        /\ last' = last \/ last'.kind = "crashed"
    BY <1>8 DEF WaitCheck, Message, queues, worker
  <2> QED
    BY <1>0, <2>1, LookingKeeps DEF Calls, Outcomes
<1>9. CASE WaitTimeout
  <2>1. /\ proc' = proc /\ jobq' = jobq /\ ctlq' = ctlq /\ resq' = resq
        /\ wpc' = wpc /\ wjob' = wjob /\ sub' = sub /\ asked' = asked /\ revived' = revived /\ active' = active
        /\ call' = "idle" /\ call # "joining" /\ last'.kind = "timeout"
    BY <1>9 DEF WaitTimeout, Message, queues, worker
  <2> QED
    BY <1>0, <2>1, LookingKeeps DEF Calls, Outcomes
<1>10. CASE Shutdown
  BY <1>10, ShutdownKeeps
<1>11. CASE ShutdownJoined
  BY <1>11, NoWorkerKeeps DEF ShutdownJoined
<1>12. CASE Terminate
  BY <1>12, NoWorkerKeeps DEF Terminate
<1> QED
  BY <1>1, <1>2, <1>3, <1>4, <1>5, <1>6, <1>7, <1>8, <1>9, <1>10, <1>11, <1>12
     DEF ClientStep

\* So do the worker's.
LEMMA WorkerKeeps ==
    ASSUME SupervisorInvariant, WorkerStep
    PROVE  SupervisorInvariant'
<1>1. CASE WorkerReady
  BY <1>1, EventKeeps DEF WorkerReady
<1>2. CASE WorkerGet
  BY <1>2, GetKeeps
<1>3. CASE Progress
  BY <1>3, EventKeeps DEF Progress, worker
<1>4. CASE HandlerEnds
  <2>1. PICK kind \in {"succeeded", "failed"} : Finish(kind)
    BY <1>4 DEF HandlerEnds
  <2>2. ctlq' \in Seq(Jobs) /\ \A i \in 1..Len(ctlq') : ctlq'[i] \in Jobs /\ Asked(ctlq'[i])
    BY <1>4 DEF HandlerEnds, SupervisorInvariant, QueuesTyped, CancelsAreAsked, TypeOK
  <2> QED
    BY <1>4, <2>1, <2>2, FinishKeeps DEF HandlerEnds, Results
<1>5. ASSUME NEW kind \in {"cancelled", "failed"}, Checkpoint(kind)
      PROVE  SupervisorInvariant'
  BY <1>5, CheckpointKeeps
<1> QED
  BY <1>1, <1>2, <1>3, <1>4, <1>5 DEF WorkerStep

\* Every step of either process does.
LEMMA InvariantStep == SupervisorInvariant /\ [Next]_vars => SupervisorInvariant'
<1>1. SupervisorInvariant /\ UNCHANGED vars => SupervisorInvariant'
  <2> SUFFICES ASSUME SupervisorInvariant, UNCHANGED vars PROVE SupervisorInvariant'
    OBVIOUS
  <2>1. proc' = proc /\ jobq' = jobq /\ ctlq' = ctlq /\ resq' = resq
        /\ wpc' = wpc /\ wjob' = wjob /\ sub' = sub /\ asked' = asked /\ revived' = revived
        /\ active' = active /\ call' = call /\ last' = last
    BY DEF vars, supervisor, queues, worker, ghosts
  <2>2. call \in Calls /\ last.kind \in Outcomes
    BY DEF SupervisorInvariant, TypeOK
  <2> QED
    BY <2>1, <2>2, LookingKeeps
<1> QED
  BY <1>1, ClientKeeps, WorkerKeeps, DeathKeeps DEF Next

\* SupervisorInvariant holds in every reachable state.
LEMMA InvariantAlways == Spec => []SupervisorInvariant
BY InvariantInit, InvariantStep, PTL DEF Spec

\* Every variable stays in its range.
THEOREM TypeCorrect == Spec => []TypeOK
<1>1. SupervisorInvariant => TypeOK
  BY DEF SupervisorInvariant
<1> QED
  BY <1>1, InvariantAlways, PTL

\* The invariant says more of what is under way than the supervisor promises.
LEMMA InvariantSerialises == SupervisorInvariant => Serialised
BY DEF SupervisorInvariant, UnderWayIsOfNow, OneAtATime, OfNow, Serialised

\* The supervisor's promise: whatever waits time out, whatever dies and is
\* started again, a live worker and its queues hold at most one job, and it
\* is the active one.
THEOREM JobsSerialised == Spec => []Serialised
BY InvariantSerialises, InvariantAlways, PTL

\* What is active is never forgotten on the way.
THEOREM ActiveNeverLost == Spec => []ActiveIsSomewhere
<1>1. SupervisorInvariant => ActiveIsSomewhere
  BY DEF SupervisorInvariant
<1> QED
  BY <1>1, InvariantAlways, PTL

\* A step that tells the client a result is the reception of that result.
LEMMA ResultsAreReceived ==
    ASSUME SupervisorInvariant, [Next]_vars, last' # last, last'.kind \in Results
    PROVE  /\ resq # <<>> /\ last' = Head(resq) /\ 1 \in Holds(Results)
           /\ Head(resq) = resq[1] /\ sub' = sub /\ asked' = asked
<1>1. WaitMessage
  <2>1. last' = last \/ WaitMessage \/ WaitCheck \/ WaitTimeout
    BY DEF Next, ClientStep, WorkerStep, vars, ghosts, Start, Restart, StartReady,
         StartFails, NoticeDeath, Submit, Cancel, Wait, WaitEmpty, Shutdown,
         ShutdownJoined, Terminate, WorkerReady, WorkerGet, Progress, HandlerEnds,
         Checkpoint, WorkerDies
  <2>2. ~WaitCheck /\ ~WaitTimeout
    BY DEF WaitCheck, WaitTimeout, Message, Results
  <2> QED
    BY <2>1, <2>2
<1>2. Head(resq) \in Messages /\ Head(resq) = resq[1] /\ 1 \in 1..Len(resq)
  BY <1>1, TakeHead DEF SupervisorInvariant, QueuesTyped, WaitMessage
<1>3. last' = Head(resq)
  BY <1>1, <1>2 DEF WaitMessage, Results, Messages
<1> QED
  BY <1>1, <1>2, <1>3 DEF WaitMessage, Holds

\* The result that wait returns is the latest submission's, also after the
\* same job id crashed, timed out or was cancelled before.
THEOREM AnswersLatest == Spec => ResultAnswersSubmission
<1>1. SupervisorInvariant /\ [Next]_vars =>
        [last' # last /\ last'.kind \in Results => last'.sub = sub]_vars
  BY ResultsAreReceived DEF SupervisorInvariant, UnderWayIsOfNow, OfNow
<1> QED
  BY <1>1, InvariantAlways, PTL DEF Spec, ResultAnswersSubmission

\* Nobody is told that a job was cancelled unless cancel() was called for
\* that job id while this worker lived.
THEOREM CancelledWereAsked == Spec => CancelledOnRequest
<1>1. SupervisorInvariant /\ [Next]_vars =>
        [last' # last /\ last'.kind = "cancelled" =>
           \E n \in 1..sub : <<last'.job, n>> \in asked]_vars
  <2> SUFFICES ASSUME SupervisorInvariant, [Next]_vars,
                      last' # last, last'.kind = "cancelled"
               PROVE  \E n \in 1..sub : <<last'.job, n>> \in asked
    OBVIOUS
  <2>1. last' = resq[1] /\ 1 \in Holds({"cancelled"})
    BY ResultsAreReceived DEF Results, Holds
  <2> QED
    BY <2>1 DEF SupervisorInvariant, CancelsAreAsked, Asked
<1> QED
  BY <1>1, InvariantAlways, PTL DEF Spec, CancelledOnRequest

=============================================================================
