----------------------------- MODULE Components -----------------------------
(***************************************************************************)
(* The components of an A2UI surface (pkg/vision/a2ui): a flat list whose  *)
(* members refer to each other by id, and the checks Validate makes of one *)
(* list (validate.go).  A list with no issue must be one a client can      *)
(* render: every reference resolves and nothing contains itself.           *)
(***************************************************************************)
EXTENDS Integers, Sequences

CONSTANTS
    Ids,     \* component ids
    RootID,  \* the id of the tree's root
    Empty,   \* the empty string, no id and no kind
    None     \* an optional field that is not set

ASSUME ComponentsAssumption == RootID \in Ids /\ Empty \notin Ids /\ None \notin Ids

Strings == Ids \cup {Empty}

DynamicChildren == [componentId : Strings, path : {Empty, "/items"}]

\* ChildList: the exported fields allow none, either and both shapes.
ChildList == [Static : Seq(Strings) \cup {None}, Dynamic : DynamicChildren \cup {None}]

\* Component without Accessibility and Props, which no check looks at.
Component == [ID : Strings, Kind : {"Column", Empty},
              Child : Strings \cup {None}, Children : ChildList \cup {None}]

StaticChildren(ids) == [Static |-> ids, Dynamic |-> None]
DynamicChildrenOf(id, path) ==
    [Static |-> None, Dynamic |-> [componentId |-> id, path |-> path]]

-----------------------------------------------------------------------------
\* indexComponents: the ids of a list, and the component each stands for, which
\* is the first of several.
Defined(list) == {list[i].ID : i \in DOMAIN list} \ {Empty}

byID(list, id) ==
    list[CHOOSE i \in DOMAIN list :
            list[i].ID = id /\ \A j \in DOMAIN list : list[j].ID = id => i <= j]

UniqueIDs(list) ==
    \A i \in DOMAIN list :
        list[i].ID # Empty /\ \A j \in DOMAIN list : list[j].ID = list[i].ID => j = i

ValidChildList(children, ids) ==
    IF children.Dynamic # None
    THEN children.Dynamic.componentId # Empty /\ children.Dynamic.path # Empty
    ELSE /\ children.Static # None
         /\ \A i \in DOMAIN children.Static : children.Static[i] \in ids

ValidComponent(comp, ids) ==
    /\ comp.Kind # Empty
    /\ comp.Child = None \/ comp.Children = None
    /\ comp.Child # None => comp.Child \in ids
    /\ comp.Children # None => ValidChildList(comp.Children, ids)

\* componentRefs: the references that are followed, in order; those that do
\* not resolve are passed over.
Refs(comp) ==
    (IF comp.Child # None THEN <<comp.Child>> ELSE <<>>)
    \o (IF comp.Children # None
        THEN IF comp.Children.Static # None THEN comp.Children.Static ELSE <<>>
        ELSE <<>>)

-----------------------------------------------------------------------------
(* What detectCycle has to find out, with no algorithm in it.              *)

Edge(list, c, d) ==
    \E i \in DOMAIN Refs(byID(list, c)) : Refs(byID(list, c))[i] = d

\* A set of components that holds what its members refer to.
Closed(list, S) ==
    \A c \in S : \A d \in Defined(list) : Edge(list, c, d) => d \in S

\* The components reachable from root are in every closed set that holds it.
Reachable(list) ==
    {c \in Defined(list) :
        \A S \in SUBSET Defined(list) : RootID \in S /\ Closed(list, S) => c \in S}

\* Reachable components each of which refers to another of them: somewhere among
\* them is a cycle.
Endless(list, S) == S # {} /\ \A c \in S : \E d \in S : Edge(list, c, d)

Cyclic(list) == \E S \in SUBSET Reachable(list) : Endless(list, S)

\* validateComponents, with the verdict that DetectCycle shows detectCycle to give.
ValidComponents(list) ==
    /\ list # <<>>
    /\ UniqueIDs(list)
    /\ RootID \in Defined(list)
    /\ \A i \in DOMAIN list : ValidComponent(list[i], Defined(list))
    /\ ~Cyclic(list)
=============================================================================
