-------------------------------- MODULE JobGraph --------------------------------
(***************************************************************************)
(* The graph of jobs (orchestration/graph.py), the order it computes and   *)
(* the jobs it offers, driven the way its interface asks for: a dispatcher *)
(* starts offered jobs and reports what completed and what failed.  Job    *)
(* ids are numbers, so that their order is the one the code sorts by.      *)
(***************************************************************************)
EXTENDS Integers, Sequences, FiniteSets

CONSTANTS
    NumJobs,
    MaxDependencies     \* bound on the dependencies of a job

JobGraphConstants == NumJobs \in Nat /\ MaxDependencies \in Nat

Jobs == 1 .. NumJobs

VARIABLES
    needs,      \* dependencies of each job
    completed, active, failed

vars == <<needs, completed, active, failed>>

\* The sorted sequence of a set of jobs: the n-th has n - 1 smaller ones.
Sorted(set) ==
    [n \in 1 .. Cardinality(set) |->
        CHOOSE j \in set : Cardinality({k \in set : k < j}) = n - 1]

\* topological_order(): the jobs that wait for nothing, one round of its loop,
\* and the state of the loop after n rounds.
Begun(deps) == [ready |-> Sorted({j \in Jobs : deps[j] = {}}), result |-> <<>>]

Taken(deps, before) ==
    IF before.ready = <<>> THEN before
    ELSE LET node == Head(before.ready)
             result == Append(before.result, node)
             done == {result[i] : i \in DOMAIN result}
             freed == {j \in Jobs : node \in deps[j] /\ deps[j] \subseteq done}
         IN  [ready |-> Tail(before.ready) \o Sorted(freed), result |-> result]

Loop(deps) ==
    LET loop[n \in 0 .. NumJobs] ==
          IF n = 0 THEN Begun(deps) ELSE Taken(deps, loop[n - 1])
    IN  loop

TopologicalOrder(deps) == Loop(deps)[NumJobs].result

\* validate(): no missing dependency, no cycle.
Valid(deps) == Len(TopologicalOrder(deps)) = NumJobs

\* JobDescriptor: no job depends on itself.
Init ==
    /\ needs \in {deps \in [Jobs -> {s \in SUBSET Jobs : Cardinality(s) <= MaxDependencies}] :
                    (\A j \in Jobs : j \notin deps[j]) /\ Valid(deps)}
    /\ completed = {} /\ active = {} /\ failed = {}

\* Mutant: a job is offered as soon as one of its dependencies is done.
ReadyAfterAny(j) ==
    /\ j \notin completed \cup active \cup failed
    /\ needs[j] \cap failed = {}
    /\ needs[j] = {} \/ needs[j] \cap completed # {}

\* ready_jobs()
Ready(j) ==
    /\ j \notin completed \cup active \cup failed
    /\ needs[j] \cap failed = {}
    /\ needs[j] \subseteq completed

StartJob(j) ==
    /\ Ready(j)
    /\ active' = active \cup {j}
    /\ UNCHANGED <<needs, completed, failed>>

CompleteJob(j) ==
    /\ j \in active
    /\ active' = active \ {j}
    /\ completed' = completed \cup {j}
    /\ UNCHANGED <<needs, failed>>

FailJob(j) ==
    /\ j \in active
    /\ active' = active \ {j}
    /\ failed' = failed \cup {j}
    /\ UNCHANGED <<needs, completed>>

Next == \E j \in Jobs : StartJob(j) \/ CompleteJob(j) \/ FailJob(j)

Spec == Init /\ [][Next]_vars

\* descendants(): the rounds of its search, at most one per job.
Descendants(job) ==
    LET found[n \in 0 .. NumJobs] ==
          IF n = 0 THEN {j \in Jobs : job \in needs[j]}
          ELSE found[n - 1] \cup {j \in Jobs : needs[j] \cap found[n - 1] # {}}
    IN  found[NumJobs]

-----------------------------------------------------------------------------

TypeOK ==
    /\ needs \in [Jobs -> SUBSET Jobs]
    /\ completed \subseteq Jobs /\ active \subseteq Jobs /\ failed \subseteq Jobs

\* The order that is computed has every job once and none before what it
\* needs.
OrderRespectsNeeds ==
    LET order == TopologicalOrder(needs) IN
    /\ {order[i] : i \in DOMAIN order} = Jobs /\ Len(order) = NumJobs
    /\ \A i, j \in DOMAIN order : order[j] \in needs[order[i]] => j < i

\* No job runs before all it needs, and none that depends, however far, on a
\* failed job ever runs.
NothingRunsEarly ==
    /\ \A j \in active \cup completed : needs[j] \subseteq completed
    /\ \A f \in failed : Descendants(f) \cap (active \cup completed) = {}

\* When nothing runs and nothing is offered, whatever is left is there
\* because of a failure: the graph never gets stuck by itself.
OnlyFailureBlocks ==
    active = {} /\ (\A j \in Jobs : ~Ready(j)) =>
        Jobs \ (completed \cup failed) = UNION {Descendants(f) : f \in failed}

DispatchIsSound == OrderRespectsNeeds /\ NothingRunsEarly /\ OnlyFailureBlocks
=============================================================================
