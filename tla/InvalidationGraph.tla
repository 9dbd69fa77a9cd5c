--------------------------- MODULE InvalidationGraph ---------------------------
(***************************************************************************)
(* Invalidation (application/invalidation.py): a graph of artifacts that   *)
(* grows, the artifacts that a change makes stale, and the plan in which   *)
(* they are rendered again.  A node has a stage and a subject, which is an *)
(* utterance of a localization, a shot, a character or the music.          *)
(***************************************************************************)
EXTENDS Integers, Sequences, FiniteSets

CONSTANTS
    Keys,
    Kinds,          \* the <<stage, subject>> pairs that nodes may have
    RootKinds       \* those that the four invalidate_ calls start from

InvalidationConstants == IsFiniteSet(Keys)

VARIABLES
    nodes,      \* the keys in the graph
    kind,       \* kind[k], for the keys in the graph
    parents,    \* _parents
    plan        \* a partial render plan being computed

vars == <<nodes, kind, parents, plan>>

Children(k) == {c \in nodes : k \in parents[c]}

\* affected_by(): the rounds of its search, at most one per node.
AffectedBy(k) ==
    LET found[n \in 0 .. Cardinality(Keys)] ==
          IF n = 0 THEN Children(k) ELSE found[n - 1] \cup UNION {Children(c) : c \in found[n - 1]}
    IN  found[Cardinality(Keys)]

NoPlan == [root |-> {}, stale |-> {}, degree |-> <<>>, queue |-> <<>>, order |-> <<>>]

Init ==
    /\ nodes = {}
    /\ kind \in [Keys -> Kinds]
    /\ parents = [k \in Keys |-> {}]
    /\ plan = NoPlan

\* add(): dependencies must be there already; the cycle check that follows
\* finds nothing, because a new node has no children.
Add(k, dependencies) ==
    /\ plan = NoPlan
    /\ k \notin nodes
    /\ dependencies \subseteq nodes
    /\ nodes' = nodes \cup {k}
    /\ parents' = [parents EXCEPT ![k] = dependencies]
    /\ UNCHANGED <<kind, plan>>

\* The orders in which Python may list a set.
Listings(set) ==
    {s \in [1 .. Cardinality(set) -> set] : \A i, j \in DOMAIN s : s[i] = s[j] => i = j}

Roots(what) == {k \in nodes : kind[k] = what}

\* Mutant: only the direct children of a root go stale.
StaleChildren(roots) == roots \cup UNION {Children(r) : r \in roots}

\* invalidate_translation(), _music_track(), _lipsync_shot(), _voice_character()
Stale(roots) == roots \cup UNION {AffectedBy(r) : r \in roots}

\* create_partial_render_plan() of what one of these calls returned.
BeginPlan(what) ==
    LET stale == Stale(Roots(what)) IN
    /\ plan = NoPlan
    /\ stale # {}
    /\ \E queue \in Listings({k \in stale : parents[k] \cap stale = {}}) :
         plan' = [root |-> Roots(what), stale |-> stale,
                  degree |-> [k \in stale |-> Cardinality(parents[k] \cap stale)],
                  queue |-> queue, order |-> <<>>]
    /\ UNCHANGED <<nodes, kind, parents>>

\* One round of the loop: the children of a node are listed in any order.
TakeNext ==
    /\ plan.queue # <<>>
    /\ LET node == Head(plan.queue)
           hit == Children(node) \cap plan.stale
           degree == [k \in plan.stale |-> plan.degree[k] - (IF k \in hit THEN 1 ELSE 0)]
       IN \E freed \in Listings({c \in hit : degree[c] = 0}) :
            plan' = [plan EXCEPT !.degree = degree, !.order = Append(@, node),
                                 !.queue = Tail(@) \o freed]
    /\ UNCHANGED <<nodes, kind, parents>>

Complete == plan # NoPlan /\ plan.queue = <<>>

Rendered ==
    /\ Complete
    /\ plan' = NoPlan
    /\ UNCHANGED <<nodes, kind, parents>>

Next ==
    \/ \E k \in Keys, dependencies \in SUBSET Keys : Add(k, dependencies)
    \/ \E what \in RootKinds : BeginPlan(what)
    \/ TakeNext
    \/ Rendered

Spec == Init /\ [][Next]_vars

-----------------------------------------------------------------------------

TypeOK ==
    /\ nodes \subseteq Keys /\ kind \in [Keys -> Kinds]
    /\ parents \in [Keys -> SUBSET nodes]
    /\ plan.stale \subseteq nodes

\* What is not rendered again is fresh: it is not a root, and neither is
\* anything it is made from.
NothingStaleIsReused ==
    plan # NoPlan =>
        /\ plan.root \subseteq plan.stale
        /\ \A k \in nodes \ plan.stale : parents[k] \cap plan.stale = {}

\* Nothing is rendered in vain: every set that holds the roots and whatever
\* is made from its members holds the plan.
NothingFreshIsRendered ==
    plan # NoPlan =>
        \A s \in SUBSET nodes :
            plan.root \subseteq s /\ (\A k \in nodes : parents[k] \cap s # {} => k \in s)
            => plan.stale \subseteq s

\* The order has every stale artifact once, after the stale ones that it is
\* made from, however the sets were listed.
OrderIsRunnable ==
    Complete =>
        /\ {plan.order[i] : i \in DOMAIN plan.order} = plan.stale
        /\ Len(plan.order) = Cardinality(plan.stale)
        /\ \A i, j \in DOMAIN plan.order : plan.order[j] \in parents[plan.order[i]] => j < i

PartialRenderIsExact == NothingStaleIsReused /\ NothingFreshIsRendered /\ OrderIsRunnable
=============================================================================
