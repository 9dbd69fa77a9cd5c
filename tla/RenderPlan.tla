------------------------------ MODULE RenderPlan ------------------------------
(***************************************************************************)
(* The render orchestrator (orchestration/render_orchestrator.py): one     *)
(* pass over the nodes of a plan in the order in which they were put into  *)
(* it, which need not be that of their dependencies.  A node whose         *)
(* dependencies are not all complete is skipped for good; a dependency on  *)
(* a node that the plan does not have is no dependency.                    *)
(***************************************************************************)
EXTENDS Integers, Sequences, FiniteSets

CONSTANT
    Plans           \* the dependencies of each node, as places

\* A plan has its nodes in a list.
RenderConstants == \A p \in Plans : p \in Seq(SUBSET Nat)

VARIABLES
    needs,          \* needs[n]: the dependencies of n
    status,         \* "pending", "completed" or "skipped"
    cursor,         \* the node that the pass is at
    passes          \* how often the plan was executed, at most twice

vars == <<needs, status, cursor, passes>>

Nodes == DOMAIN needs

\* create_render_plan(): speech, alignment, stems, space, lips, encoding.
DefaultPlan == [n \in 1..6 |-> CASE n = 1 -> {} [] n = 2 -> {1} [] n = 3 -> {2}
                                  [] n = 4 -> {3} [] n = 5 -> {2} [] n = 6 -> {4, 5}]

Init ==
    /\ needs \in Plans \cup {DefaultPlan}
    /\ status = [n \in Nodes |-> "pending"]
    /\ cursor = 1 /\ passes = 1

\* Mutant: what was looked at counts as done.
ReadyOnceSeen(n) == \A d \in needs[n] \cap Nodes : status[d] # "pending"

Ready(n) == \A d \in needs[n] \cap Nodes : status[d] = "completed"

Execute ==
    /\ cursor \in Nodes
    /\ status' = [status EXCEPT ![cursor] = IF Ready(cursor) THEN "completed" ELSE "skipped"]
    /\ cursor' = cursor + 1
    /\ UNCHANGED <<needs, passes>>

\* The plan that was returned is executed once more: nodes that are complete
\* are rendered again.
ExecuteAgain ==
    /\ cursor \notin Nodes /\ passes < 2
    /\ cursor' = 1 /\ passes' = passes + 1
    /\ UNCHANGED <<needs, status>>

Next == Execute \/ ExecuteAgain

Spec == Init /\ [][Next]_vars

-----------------------------------------------------------------------------

TypeOK ==
    /\ status \in [Nodes -> {"pending", "completed", "skipped"}]
    /\ cursor \in 1 .. Cardinality(Nodes) + 1 /\ passes \in 1..2

\* Nothing is ever rendered from inputs that were not, and a plan that has its
\* nodes in the order of their dependencies is rendered by one pass, 100
\* percent.  (Of other plans l.101, "Execute nodes in dependency order", does
\* not hold: a node in front of its dependency is skipped.)
RendersFromInputs ==
    /\ \A n \in Nodes : status[n] = "completed" =>
         \A d \in needs[n] \cap Nodes : status[d] = "completed" /\ (passes = 1 => d < n)
    /\ (\A n \in Nodes : needs[n] \cap Nodes \subseteq 1 .. n - 1) =>
         \A n \in 1 .. cursor - 1 : status[n] = "completed"
=============================================================================
