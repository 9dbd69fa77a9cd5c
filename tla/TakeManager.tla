------------------------------ MODULE TakeManager ------------------------------
(***************************************************************************)
(* The voice takes of one utterance (application/take_manager.py): takes   *)
(* are added with whatever status they have, one may be previewed, one may *)
(* be the master, and the render queue asks for a take.  Utterances share  *)
(* nothing, so one is enough.                                              *)
(***************************************************************************)
EXTENDS Integers, Sequences

CONSTANTS
    TakeIds,
    MaxTakes        \* MAX_TAKES_PER_UTTERANCE

TakesConstants == MaxTakes \in Nat

VARIABLES
    takes           \* _takes[utterance]: [id, status], in order of arrival, and
                    \* born, the status at add_take(), for properties only

Statuses == {"generated", "selected", "master", "rejected", "archived"}

Retired == {"rejected", "archived"}

Exclusive == {"selected", "master"}

Init == takes = <<>>

\* Mutant: only the takes that are not retired count for the limit.
AddTakeForRetired(id, status) ==
    /\ \A i \in DOMAIN takes : takes[i].id # id
    /\ (\E i \in DOMAIN takes : takes[i].status \in Retired) \/ Len(takes) < MaxTakes
    /\ takes' = Append(takes, [id |-> id, status |-> status, born |-> status])

\* add_take(): every take that was ever added counts for the limit, and the
\* status of the new one is not looked at.
AddTake(id, status) ==
    /\ \A i \in DOMAIN takes : takes[i].id # id
    /\ Len(takes) < MaxTakes
    /\ takes' = Append(takes, [id |-> id, status |-> status, born |-> status])

\* Mutant: the earlier holder of an exclusive status keeps it.
TransitionAlone(i, status) ==
    /\ takes[i].status \notin Retired
    /\ takes' = [takes EXCEPT ![i].status = status]

\* _transition(): the other holders of an exclusive status lose it first.
Transition(i, status) ==
    /\ takes[i].status \notin Retired
    /\ takes' = [j \in DOMAIN takes |->
                   IF j = i THEN [takes[j] EXCEPT !.status = status]
                   ELSE IF status \in Exclusive /\ takes[j].status = status
                   THEN [takes[j] EXCEPT !.status = "generated"]
                   ELSE takes[j]]

Next ==
    \/ \E id \in TakeIds, status \in Statuses : AddTake(id, status)
    \/ \E i \in DOMAIN takes, status \in Statuses \ {"generated"} : Transition(i, status)

Spec == Init /\ [][Next]_takes

\* render_take(): the latest active take of the first status that has one.
Latest(status) ==
    {i \in DOMAIN takes : takes[i].status = status
        /\ \A j \in i + 1 .. Len(takes) : takes[j].status # status}

RenderTake ==
    IF Latest("master") # {} THEN Latest("master")
    ELSE IF Latest("selected") # {} THEN Latest("selected")
    ELSE Latest("generated")

-----------------------------------------------------------------------------

TypeOK ==
    /\ takes \in Seq([id: TakeIds, status: Statuses, born: Statuses])
    /\ Len(takes) <= MaxTakes

\* l.51: of the takes that are master at once, or previewed at once, every one
\* but the first came in as that: no promotion leaves a second one, however
\* many came in.  Identifiers are unique, and the render queue is given one
\* take as long as one is not retired: the latest master if there is one.
RenderQueueHasItsTake ==
    /\ \A status \in Exclusive : \A i, j \in DOMAIN takes :
         i < j /\ takes[i].status = status /\ takes[j].status = status =>
             takes[j].born = status
    /\ \A i, j \in DOMAIN takes : takes[i].id = takes[j].id => i = j
    /\ (\E i \in DOMAIN takes : takes[i].status \notin Retired) <=> RenderTake # {}
    /\ \A i, j \in DOMAIN takes : j \in RenderTake /\ takes[i].status = "master" =>
         i <= j /\ takes[j].status = "master"
=============================================================================
