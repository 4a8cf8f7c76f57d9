---------------------------- MODULE DetectCycle ----------------------------
(***************************************************************************)
(* detectCycle (a2ui/validate.go): the depth-first search for a reference  *)
(* cycle among the components reachable from root.  It runs on any list    *)
(* that defines a root, also one in which Validate found other problems:   *)
(* duplicate ids, references to nothing, a child and children at once.     *)
(*                                                                         *)
(* The recursion of visit is the trail: its members are the components     *)
(* being visited, the last one's loop over its references is running.      *)
(***************************************************************************)
EXTENDS Components

CONSTANT Lists   \* the component lists to search

ASSUME ListsAssumption ==
    \A list \in Lists : list \in Seq(Component) /\ RootID \in Defined(list)

VARIABLES
    components,  \* the list
    state,       \* state[c]: "new" (absent), "visiting" or "done"
    trail,       \* the components being visited, from root
    passed,      \* passed[c]: references of c its loop has taken
    verdict      \* "none" yet, "cycle" or "acyclic"

vars == <<components, state, trail, passed, verdict>>

Init ==
    /\ components \in Lists
    /\ state = [c \in Defined(components) |-> "new"]
    /\ trail = <<>>
    /\ passed = [c \in Defined(components) |-> 0]
    /\ verdict = "none"

Last == trail[Len(trail)]
RefsOf(c) == Refs(byID(components, c))

\* The loop of the component visited last takes its next reference.
Takes(ref) ==
    /\ verdict = "none" /\ trail # <<>>
    /\ passed[Last] < Len(RefsOf(Last))
    /\ ref = RefsOf(Last)[passed[Last] + 1]

\* (mutant) the path grows at its front
BeginInFront(c) ==
    /\ state' = [state EXCEPT ![c] = "visiting"]
    /\ trail' = <<c>> \o trail

Begin(c) ==
    /\ state' = [state EXCEPT ![c] = "visiting"]
    /\ trail' = Append(trail, c)

VisitRoot ==
    /\ verdict = "none" /\ trail = <<>> /\ state[RootID] = "new"
    /\ Begin(RootID)
    /\ UNCHANGED <<components, passed, verdict>>

VisitNext(ref) ==
    /\ Takes(ref) /\ ref \in Defined(components) /\ state[ref] = "new"
    /\ passed' = [passed EXCEPT ![Last] = @ + 1]
    /\ Begin(ref)
    /\ UNCHANGED <<components, verdict>>

\* componentRefs drops the references that do not resolve; visit returns at
\* once for a component that is done.
PassOver(ref) ==
    /\ Takes(ref) /\ (ref \in Defined(components) => state[ref] = "done")
    /\ passed' = [passed EXCEPT ![Last] = @ + 1]
    /\ UNCHANGED <<components, state, trail, verdict>>

\* (mutant) any component seen before closes a cycle
ReportSeen(ref) ==
    /\ Takes(ref) /\ ref \in Defined(components) /\ state[ref] # "new"
    /\ verdict' = "cycle"
    /\ UNCHANGED <<components, state, trail, passed>>

\* (mutant) a component that refers to itself is no cycle
ReportLongCycle(ref) ==
    /\ Takes(ref) /\ ref \in Defined(components) /\ state[ref] = "visiting" /\ ref # Last
    /\ verdict' = "cycle"
    /\ UNCHANGED <<components, state, trail, passed>>

ReportCycle(ref) ==
    /\ Takes(ref) /\ ref \in Defined(components) /\ state[ref] = "visiting"
    /\ verdict' = "cycle"
    /\ UNCHANGED <<components, state, trail, passed>>

\* visit returns nil: the component is done, and with the root the search.
Return ==
    /\ verdict = "none" /\ trail # <<>> /\ passed[Last] = Len(RefsOf(Last))
    /\ state' = [state EXCEPT ![Last] = "done"]
    /\ trail' = SubSeq(trail, 1, Len(trail) - 1)
    /\ verdict' = IF Len(trail) = 1 THEN "acyclic" ELSE verdict
    /\ UNCHANGED <<components, passed>>

TakeRef(ref) == VisitNext(ref) \/ PassOver(ref) \/ ReportCycle(ref)

Next == VisitRoot \/ Return \/ \E ref \in Strings : TakeRef(ref)

Spec == Init /\ [][Next]_vars
FairSpec == Spec /\ WF_vars(Next)

-----------------------------------------------------------------------------
TypeOK ==
    /\ components \in Lists
    /\ state \in [Defined(components) -> {"new", "visiting", "done"}]
    /\ trail \in Seq(Defined(components))
    /\ passed \in [Defined(components) -> Nat]
    /\ verdict \in {"none", "cycle", "acyclic"}

\* The verdict is right, whatever else is wrong with the list: a cycle is
\* reported exactly when the components reachable from root hold one.
VerdictIsRight ==
    /\ verdict = "cycle" => Cyclic(components)
    /\ verdict = "acyclic" => ~Cyclic(components)

\* The path an error names ("root -> a -> b -> a") exists: it starts at root,
\* each component refers to the next, and the last to one before it.
ReportedPathExists ==
    verdict = "cycle" =>
        /\ trail[1] = RootID
        /\ \A i \in 1..(Len(trail) - 1) : Edge(components, trail[i], trail[i + 1])
        /\ \E i \in 1..Len(trail) : Edge(components, Last, trail[i])

\* The search ends on every list, cyclic or not.
SearchEnds == <>(verdict # "none")
=============================================================================
