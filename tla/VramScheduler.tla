----------------------------- MODULE VramScheduler -----------------------------
(***************************************************************************)
(* The VRAM scheduler (orchestration/vram_scheduler.py) over the model     *)
(* manager, which is external: it registers, verifies, loads and unloads.  *)
(***************************************************************************)
EXTENDS Integers, FiniteSets, FiniteSetsExt

CONSTANTS
    Models,
    Size, Priority,     \* vram_mb and load_priority of each model
    Budget              \* usable_budget_mb

\* The catalogue of the model manager is a dictionary.
VramConstants ==
    /\ IsFiniteSet(Models)
    /\ Size \in [Models -> Nat] /\ Priority \in [Models -> Int]
    /\ Budget \in Nat

VARIABLES
    loaded,
    verified,   \* the models whose weights were verified
    wanted      \* the model whose load evicted last, and what it evicted

vars == <<loaded, verified, wanted>>

Used(models) == MapThenSumSet(LAMBDA m : Size[m], models)

Available(models) == IF Used(models) > Budget THEN 0 ELSE Budget - Used(models)

Quiet == [for |-> {}, evicted |-> {}]

Init == loaded = {} /\ verified = {} /\ wanted = Quiet

\* External: ModelManager.verify()
Verify(m) ==
    /\ m \notin verified
    /\ verified' = verified \cup {m}
    /\ wanted' = Quiet
    /\ UNCHANGED loaded

\* Mutant: models of the same priority are evicted as well.
LowerOrEqual(m) == {o \in loaded : Priority[o] <= Priority[m]}

Lower(m) == {o \in loaded : Priority[o] < Priority[m]}

\* What _evict_for() can evict: lower models in the order of their priority,
\* until there is room; ties are in the manager's order.
Evictions(m) ==
    {e \in SUBSET Lower(m) :
        /\ \A o \in e, k \in Lower(m) \ e : Priority[o] <= Priority[k]
        /\ e = Lower(m) \/ Size[m] <= Available(loaded \ e)
        /\ e # {} => \E last \in e :
             /\ \A o \in e : Priority[o] <= Priority[last]
             /\ Available(loaded \ (e \ {last})) < Size[m]}

\* Mutant: after evicting the model is loaded without another look.
LoadRegardless(m, evict) ==
    \E e \in IF evict /\ Size[m] > Available(loaded) THEN Evictions(m) ELSE {{}} :
        /\ m \notin loaded
        /\ loaded' = (loaded \ e) \cup ({m} \cap verified)
        /\ wanted' = [for |-> {m}, evicted |-> e]
        /\ UNCHANGED verified

\* schedule_load(): evictions stand even if the model does not fit then, or
\* if the manager refuses to load what is not verified.
ScheduleLoad(m, evict) ==
    \E e \in IF evict /\ Size[m] > Available(loaded) THEN Evictions(m) ELSE {{}} :
        /\ m \notin loaded
        /\ loaded' = IF Size[m] <= Available(loaded \ e)
                     THEN (loaded \ e) \cup ({m} \cap verified)
                     ELSE loaded \ e
        /\ wanted' = [for |-> {m}, evicted |-> e]
        /\ UNCHANGED verified

Unload(m) ==
    /\ m \in loaded
    /\ loaded' = loaded \ {m}
    /\ wanted' = Quiet
    /\ UNCHANGED verified

Next ==
    \E m \in Models :
        \/ Verify(m) \/ Unload(m)
        \/ \E evict \in BOOLEAN : ScheduleLoad(m, evict)

Spec == Init /\ [][Next]_vars

-----------------------------------------------------------------------------

TypeOK ==
    /\ loaded \subseteq verified /\ verified \subseteq Models
    /\ wanted.for \subseteq Models /\ wanted.evicted \subseteq Models

\* l.70: "Enforces strict hardware tier budget caps", and evictions are of
\* the lowest priority: no model that stays loaded ranks below an evicted
\* one, and none gave way to a model that does not rank above it.
BudgetAndRankKept ==
    /\ Used(loaded) <= Budget
    /\ \A m \in wanted.for, o \in wanted.evicted :
         /\ Priority[o] < Priority[m]
         /\ \A k \in loaded : Priority[o] <= Priority[k]
=============================================================================
