------------------------ MODULE DetectCycle_proofs ------------------------
(* The search for cycles is right for every list of components: theorems   *)
(* about DetectCycle, for any ids and any lists of any length.             *)
EXTENDS DetectCycle, TLAPS, SequenceTheorems, WellFoundedInduction

LEMMA LeastPosition ==
    ASSUME NEW S, S \subseteq Nat, S # {}
    PROVE  \E i \in S : \A j \in S : i <= j
<1> DEFINE R == {ss \in Nat \X Nat : ss[1] < ss[2]}
<1>1. R = OpToRel(<, Nat)
  BY DEF OpToRel
<1>2. IsWellFoundedOn(R, Nat)
  BY <1>1, NatLessThanWellFounded
<1>3. PICK i \in S : \A j \in S : ~ (<<j, i>> \in R)
  BY <1>2, WFMin
<1>4. ASSUME NEW j \in S
      PROVE  i <= j
  <2>1. i \in Nat /\ j \in Nat
    OBVIOUS
  <2>2. ~ (j < i)
    BY <1>3, <2>1
  <2> QED
    BY <2>1, <2>2
<1> QED
  BY <1>4

LEMMA FirstOfID ==
    ASSUME NEW list \in Seq(Component), NEW c \in Defined(list)
    PROVE  byID(list, c) \in Component /\ byID(list, c).ID = c
<1> DEFINE S == {i \in DOMAIN list : list[i].ID = c}
<1>1. S \subseteq Nat /\ S # {}
  BY DEF Defined
<1>2. PICK i \in S : \A j \in S : i <= j
  BY <1>1, LeastPosition
<1>3. \E n \in DOMAIN list :
          list[n].ID = c /\ \A j \in DOMAIN list : list[j].ID = c => n <= j
  BY <1>2
<1> QED
  BY <1>3 DEF byID

\* componentRefs returns a list of ids, whatever the shape of the component.
LEMMA RefsType ==
    ASSUME NEW comp \in Component
    PROVE  Refs(comp) \in Seq(Strings)
<1> DEFINE single == IF comp.Child # None THEN <<comp.Child>> ELSE <<>>
           static == IF comp.Children # None
                     THEN IF comp.Children.Static # None THEN comp.Children.Static ELSE <<>>
                     ELSE <<>>
<1>1. single \in Seq(Strings)
  BY DEF Component
<1>2. static \in Seq(Strings)
  BY DEF Component, ChildList
<1>3. Refs(comp) = single \o static
  BY DEF Refs
<1> HIDE DEF single, static
<1> QED
  BY <1>1, <1>2, <1>3, ConcatProperties

LEMMA RefsOfType ==
    ASSUME components \in Lists, NEW c \in Defined(components)
    PROVE  RefsOf(c) \in Seq(Strings)
BY FirstOfID, RefsType, ListsAssumption DEF RefsOf

\* An edge is a position among the references that the loop of visit takes.
LEMMA EdgeIsRef ==
    ASSUME components \in Lists, NEW c \in Defined(components), NEW d
    PROVE  Edge(components, c, d) <=> \E k \in 1..Len(RefsOf(c)) : RefsOf(c)[k] = d
BY RefsOfType DEF Edge, RefsOf

-----------------------------------------------------------------------------
(* The inductive invariant.                                                *)

Nodes == Defined(components)
Done == {c \in Nodes : state[c] = "done"}

\* The trail is a path from root through exactly the components being visited.
TrailInv ==
    /\ \A i \in 1..Len(trail) : state[trail[i]] = "visiting"
    /\ \A c \in Nodes : state[c] = "visiting" => \E i \in 1..Len(trail) : c = trail[i]
    /\ \A i, j \in 1..Len(trail) : trail[i] = trail[j] => i = j
    /\ \A i \in 1..(Len(trail) - 1) : Edge(components, trail[i], trail[i + 1])
    /\ trail # <<>> => trail[1] = RootID
    /\ trail = <<>> => state[RootID] # "visiting"

\* What a loop has taken is done, but for the component it waits for.
PassedInv ==
    \A c \in Nodes :
        /\ passed[c] <= Len(RefsOf(c))
        /\ \A k \in 1..passed[c] :
              RefsOf(c)[k] \in Nodes =>
                  \/ state[RefsOf(c)[k]] = "done"
                  \/ \E i \in 1..(Len(trail) - 1) :
                        c = trail[i] /\ RefsOf(c)[k] = trail[i + 1]

\* A component is done after all it refers to, so the done ones hold no cycle.
DoneInv ==
    /\ \A c \in Done : \A d \in Nodes : Edge(components, c, d) => d \in Done
    /\ \A S \in SUBSET Done : ~Endless(components, S)

ReachInv == \A c \in Nodes : state[c] # "new" => c \in Reachable(components)

VerdictInv ==
    /\ verdict = "cycle" => Cyclic(components)
    /\ verdict = "acyclic" => state[RootID] = "done"
    /\ ReportedPathExists

SearchInv == TypeOK /\ TrailInv /\ PassedInv /\ DoneInv /\ ReachInv /\ VerdictInv

LEMMA LastOfTrail ==
    ASSUME TypeOK, trail # <<>>
    PROVE  /\ Len(trail) \in Nat \ {0}
           /\ Last \in Nodes /\ Last = trail[Len(trail)]
           /\ \A i \in 1..Len(trail) : trail[i] \in Nodes
BY DEF TypeOK, Last, Nodes

LEMMA RootIsNode ==
    ASSUME TypeOK
    PROVE  RootID \in Nodes
BY ListsAssumption DEF TypeOK, Nodes

\* What a reachable component refers to is reachable.
LEMMA ReachableStep ==
    ASSUME NEW c \in Reachable(components), NEW d \in Nodes, Edge(components, c, d)
    PROVE  d \in Reachable(components)
BY DEF Reachable, Closed, Nodes

\* The reference a loop takes is an edge from the last component of the trail.
LEMMA TakenIsEdge ==
    ASSUME TypeOK, NEW ref, Takes(ref)
    PROVE  /\ Edge(components, Last, ref)
           /\ passed[Last] + 1 \in 1..Len(RefsOf(Last))
           /\ ref = RefsOf(Last)[passed[Last] + 1]
<1>1. trail # <<>> /\ Last \in Nodes
  BY LastOfTrail DEF Takes
<1>2. passed[Last] \in Nat /\ RefsOf(Last) \in Seq(Strings)
  BY <1>1, RefsOfType DEF TypeOK, Nodes
<1>3. passed[Last] + 1 \in 1..Len(RefsOf(Last)) /\ ref = RefsOf(Last)[passed[Last] + 1]
  BY <1>2 DEF Takes
<1> QED
  BY <1>1, <1>3, EdgeIsRef DEF TypeOK, Nodes

LEMMA InitEstablishes ==
    ASSUME Init
    PROVE  SearchInv
<1>1. TypeOK
  BY DEF Init, TypeOK
<1>2. TrailInv
  BY <1>1, RootIsNode DEF Init, TrailInv, Nodes
<1>3. PassedInv
  <2> SUFFICES ASSUME NEW c \in Nodes
               PROVE  /\ passed[c] = 0
                      /\ Len(RefsOf(c)) \in Nat
    BY DEF PassedInv
  <2>1. RefsOf(c) \in Seq(Strings)
    BY <1>1, RefsOfType DEF TypeOK, Nodes
  <2> QED
    BY <2>1 DEF Init, Nodes
<1>4. DoneInv
  <2>1. Done = {}
    BY DEF Init, Done, Nodes
  <2> QED
    BY <2>1 DEF DoneInv, Endless
<1>5. ReachInv /\ VerdictInv
  BY DEF Init, ReachInv, VerdictInv, ReportedPathExists, Nodes
<1> QED
  BY <1>1, <1>2, <1>3, <1>4, <1>5 DEF SearchInv

-----------------------------------------------------------------------------
(* A component is entered: root, or what the last one refers to.           *)

LEMMA BeginKeeps ==
    ASSUME SearchInv, NEW c \in Nodes, state[c] = "new", Begin(c),
           components' = components,
           \/ trail = <<>> /\ c = RootID
           \/ trail # <<>> /\ Edge(components, Last, c)
    PROVE  TrailInv' /\ DoneInv' /\ ReachInv'
<1> USE DEF SearchInv
<1>0. /\ Nodes' = Nodes
      /\ state' = [state EXCEPT ![c] = "visiting"] /\ state \in [Nodes -> {"new", "visiting", "done"}]
      /\ trail \in Seq(Nodes) /\ Len(trail) \in Nat
      /\ Len(trail') = Len(trail) + 1
      /\ \A i \in 1..Len(trail) : trail'[i] = trail[i]
      /\ trail'[Len(trail) + 1] = c
  BY DEF Begin, Nodes, TypeOK
<1>1. TrailInv'
  <2>1. ASSUME NEW i \in 1..Len(trail')
        PROVE  state'[trail'[i]] = "visiting"
    BY <1>0 DEF TrailInv
  <2>2. ASSUME NEW d \in Nodes, state'[d] = "visiting"
        PROVE  \E i \in 1..Len(trail') : d = trail'[i]
    <3>1. CASE d = c
      BY <3>1, <1>0
    <3>2. CASE d # c
      <4>1. PICK i \in 1..Len(trail) : d = trail[i]
        BY <3>2, <2>2, <1>0 DEF TrailInv
      <4> QED
        BY <4>1, <1>0
    <3> QED
      BY <3>1, <3>2
  <2>3. ASSUME NEW i \in 1..Len(trail'), NEW j \in 1..Len(trail'), trail'[i] = trail'[j]
        PROVE  i = j
    <3>1. \A k \in 1..Len(trail) : trail[k] # c
      BY DEF TrailInv
    <3> QED
      BY <3>1, <2>3, <1>0 DEF TrailInv
  <2>4. ASSUME NEW i \in 1..(Len(trail') - 1)
        PROVE  Edge(components, trail'[i], trail'[i + 1])
    <3>1. CASE i < Len(trail)
      BY <3>1, <1>0 DEF TrailInv
    <3>2. CASE i = Len(trail)
      BY <3>2, <1>0 DEF Last
    <3> QED
      BY <3>1, <3>2, <1>0
  <2>5. trail' # <<>> /\ trail'[1] = RootID
    BY <1>0 DEF TrailInv
  <2> QED
    BY <2>1, <2>2, <2>3, <2>4, <2>5, <1>0 DEF TrailInv
<1>2. DoneInv'
  <2>1. Done' = Done
    BY <1>0 DEF Done
  <2> QED
    BY <2>1, <1>0 DEF DoneInv
<1>3. ReachInv'
  <2>1. c \in Reachable(components)
    <3>1. CASE c = RootID
      BY <3>1, RootIsNode DEF Reachable, Nodes
    <3>2. CASE trail # <<>> /\ Edge(components, Last, c)
      <4>1. Last \in Nodes /\ state[Last] = "visiting"
        BY <3>2, LastOfTrail DEF TrailInv
      <4>2. Last \in Reachable(components)
        BY <4>1 DEF ReachInv
      <4> QED
        BY <3>2, <4>2, ReachableStep
    <3> QED
      BY <3>1, <3>2
  <2> QED
    BY <2>1, <1>0 DEF ReachInv
<1> QED
  BY <1>1, <1>2, <1>3

LEMMA VisitRootKeeps ==
    ASSUME SearchInv, VisitRoot
    PROVE  SearchInv'
<1>0. RootID \in Nodes /\ trail = <<>> /\ state[RootID] = "new" /\ Begin(RootID)
      /\ UNCHANGED <<components, passed, verdict>> /\ verdict = "none"
  BY RootIsNode DEF VisitRoot, SearchInv
<1>1. TypeOK'
  BY <1>0 DEF SearchInv, TypeOK, Begin, Nodes
<1>2. TrailInv' /\ DoneInv' /\ ReachInv'
  BY <1>0, BeginKeeps
<1>3. PassedInv'
  <2>1. \A c \in Nodes : RefsOf(c)' = RefsOf(c)
    BY <1>0 DEF RefsOf
  <2>2. \A c \in Nodes : state[c] = "done" => state'[c] = "done"
    BY <1>0 DEF Begin, SearchInv, TypeOK, Nodes
  <2>3. Nodes' = Nodes
    BY <1>0 DEF Nodes
  <2> QED
    BY <2>1, <2>2, <2>3, <1>0 DEF SearchInv, PassedInv
<1>4. VerdictInv'
  BY <1>0 DEF VerdictInv, ReportedPathExists
<1> QED
  BY <1>1, <1>2, <1>3, <1>4 DEF SearchInv

LEMMA VisitNextKeeps ==
    ASSUME SearchInv, NEW ref, VisitNext(ref)
    PROVE  SearchInv'
<1>0. /\ ref \in Nodes /\ trail # <<>> /\ state[ref] = "new" /\ Begin(ref) /\ Takes(ref)
      /\ UNCHANGED <<components, verdict>> /\ verdict = "none" /\ TypeOK
      /\ passed' = [passed EXCEPT ![Last] = @ + 1]
  BY DEF VisitNext, Takes, SearchInv, Nodes
<1>1. Last \in Nodes /\ Last = trail[Len(trail)] /\ Len(trail) \in Nat \ {0}
  BY <1>0, LastOfTrail
<1>2. /\ Edge(components, Last, ref)
      /\ passed[Last] + 1 \in 1..Len(RefsOf(Last))
      /\ ref = RefsOf(Last)[passed[Last] + 1]
  BY <1>0, TakenIsEdge
<1>3. TypeOK'
  BY <1>0, <1>1 DEF TypeOK, Begin, Nodes
<1>4. TrailInv' /\ DoneInv' /\ ReachInv'
  BY <1>0, <1>2, BeginKeeps
<1>5. PassedInv'
  <2>1. /\ \A c \in Nodes : RefsOf(c)' = RefsOf(c) /\ RefsOf(c) \in Seq(Strings)
        /\ Nodes' = Nodes
        /\ \A c \in Nodes : passed[c] \in Nat
    BY <1>0, RefsOfType DEF RefsOf, Nodes, TypeOK
  <2>2. /\ \A c \in Nodes : state[c] = "done" => state'[c] = "done"
        /\ Len(trail') = Len(trail) + 1
        /\ \A i \in 1..Len(trail) : trail'[i] = trail[i]
        /\ trail'[Len(trail) + 1] = ref
    BY <1>0 DEF Begin, TypeOK, Nodes
  <2> SUFFICES ASSUME NEW c \in Nodes
               PROVE  /\ passed'[c] <= Len(RefsOf(c))
                      /\ \A k \in 1..passed'[c] :
                            RefsOf(c)[k] \in Nodes =>
                               \/ state'[RefsOf(c)[k]] = "done"
                               \/ \E i \in 1..(Len(trail') - 1) :
                                     c = trail'[i] /\ RefsOf(c)[k] = trail'[i + 1]
    BY <2>1 DEF PassedInv
  <2>3. /\ passed[c] <= Len(RefsOf(c))
        /\ \A k \in 1..passed[c] :
              RefsOf(c)[k] \in Nodes =>
                 \/ state[RefsOf(c)[k]] = "done"
                 \/ \E i \in 1..(Len(trail) - 1) :
                       c = trail[i] /\ RefsOf(c)[k] = trail[i + 1]
    BY DEF SearchInv, PassedInv
  <2>4. passed'[c] = IF c = Last THEN passed[c] + 1 ELSE passed[c]
    BY <1>0 DEF TypeOK, Nodes
  <2>5. passed'[c] <= Len(RefsOf(c))
    BY <2>1, <2>3, <2>4, <1>2
  <2>6. ASSUME NEW k \in 1..passed[c], RefsOf(c)[k] \in Nodes
        PROVE  \/ state'[RefsOf(c)[k]] = "done"
               \/ \E i \in 1..(Len(trail') - 1) :
                     c = trail'[i] /\ RefsOf(c)[k] = trail'[i + 1]
    <3>1. CASE state[RefsOf(c)[k]] = "done"
      BY <3>1, <2>6, <2>2
    <3>2. CASE \E i \in 1..(Len(trail) - 1) : c = trail[i] /\ RefsOf(c)[k] = trail[i + 1]
      <4>1. PICK i \in 1..(Len(trail) - 1) : c = trail[i] /\ RefsOf(c)[k] = trail[i + 1]
        BY <3>2
      <4>2. i \in 1..(Len(trail') - 1) /\ c = trail'[i] /\ RefsOf(c)[k] = trail'[i + 1]
        BY <4>1, <2>2, <1>1
      <4> QED
        BY <4>2
    <3> QED
      BY <3>1, <3>2, <2>3, <2>6
  <2>7. c = Last =>
            \E i \in 1..(Len(trail') - 1) :
                c = trail'[i] /\ RefsOf(c)[passed[c] + 1] = trail'[i + 1]
    BY <2>2, <1>1, <1>2
  <2>8. \A k \in 1..passed'[c] : k \in 1..passed[c] \/ (c = Last /\ k = passed[c] + 1)
    BY <2>1, <2>4
  <2> QED
    BY <2>5, <2>6, <2>7, <2>8
<1>6. VerdictInv'
  BY <1>0 DEF VerdictInv, ReportedPathExists
<1> QED
  BY <1>3, <1>4, <1>5, <1>6 DEF SearchInv

LEMMA PassOverKeeps ==
    ASSUME SearchInv, NEW ref, PassOver(ref)
    PROVE  SearchInv'
<1>0. /\ trail # <<>> /\ (ref \in Nodes => state[ref] = "done") /\ Takes(ref)
      /\ UNCHANGED <<components, state, trail, verdict>> /\ verdict = "none" /\ TypeOK
      /\ passed' = [passed EXCEPT ![Last] = @ + 1]
  BY DEF PassOver, Takes, SearchInv, Nodes
<1>1. Last \in Nodes
  BY <1>0, LastOfTrail
<1>2. /\ passed[Last] + 1 \in 1..Len(RefsOf(Last))
      /\ ref = RefsOf(Last)[passed[Last] + 1]
  BY <1>0, TakenIsEdge
<1>3. TypeOK'
  BY <1>0, <1>1 DEF TypeOK, Nodes
<1>4. Nodes' = Nodes /\ Done' = Done /\ \A c \in Nodes : RefsOf(c)' = RefsOf(c)
  BY <1>0 DEF Nodes, Done, RefsOf
<1>5. TrailInv' /\ DoneInv' /\ ReachInv'
  BY <1>0, <1>4 DEF SearchInv, TrailInv, DoneInv, ReachInv
<1>6. PassedInv'
  <2> SUFFICES ASSUME NEW c \in Nodes
               PROVE  /\ passed'[c] <= Len(RefsOf(c))
                      /\ \A k \in 1..passed'[c] :
                            RefsOf(c)[k] \in Nodes =>
                               \/ state[RefsOf(c)[k]] = "done"
                               \/ \E i \in 1..(Len(trail) - 1) :
                                     c = trail[i] /\ RefsOf(c)[k] = trail[i + 1]
    BY <1>0, <1>4 DEF PassedInv
  <2>1. /\ passed'[c] = IF c = Last THEN passed[c] + 1 ELSE passed[c]
        /\ passed[c] \in Nat /\ RefsOf(c) \in Seq(Strings)
    BY <1>0, RefsOfType DEF TypeOK, Nodes
  <2>2. \A k \in 1..passed'[c] : k \in 1..passed[c] \/ (c = Last /\ k = passed[c] + 1)
    BY <2>1
  <2> QED
    BY <1>0, <1>2, <2>1, <2>2 DEF SearchInv, PassedInv
<1>7. VerdictInv'
  BY <1>0 DEF VerdictInv, ReportedPathExists
<1> QED
  BY <1>3, <1>5, <1>6, <1>7 DEF SearchInv

-----------------------------------------------------------------------------
(* A component being visited is referred to again: the trail from it on is *)
(* a cycle, all of it reachable.                                           *)

LEMMA ReportCycleKeeps ==
    ASSUME SearchInv, NEW ref, ReportCycle(ref)
    PROVE  SearchInv'
<1>0. /\ trail # <<>> /\ ref \in Nodes /\ state[ref] = "visiting" /\ Takes(ref)
      /\ UNCHANGED <<components, state, trail, passed>> /\ verdict' = "cycle"
      /\ TypeOK /\ TrailInv /\ ReachInv
  BY DEF ReportCycle, Takes, SearchInv, Nodes
<1>1. /\ Last = trail[Len(trail)] /\ Len(trail) \in Nat \ {0}
      /\ \A i \in 1..Len(trail) : trail[i] \in Nodes
  BY <1>0, LastOfTrail
<1>2. Edge(components, Last, ref)
  BY <1>0, TakenIsEdge
<1>3. PICK n \in 1..Len(trail) : ref = trail[n]
  BY <1>0 DEF TrailInv
<1>4. Cyclic(components)
  <2> DEFINE S == {trail[i] : i \in n..Len(trail)}
  <2>1. S \in SUBSET Reachable(components)
    <3> SUFFICES ASSUME NEW i \in n..Len(trail)
                 PROVE  trail[i] \in Reachable(components)
      OBVIOUS
    <3>1. i \in 1..Len(trail)
      BY <1>1
    <3> QED
      BY <3>1, <1>0, <1>1 DEF TrailInv, ReachInv
  <2>2. S # {}
    BY <1>1
  <2>3. ASSUME NEW c \in S
        PROVE  \E d \in S : Edge(components, c, d)
    <3>1. PICK i \in n..Len(trail) : c = trail[i]
      OBVIOUS
    <3>2. CASE i = Len(trail)
      <4>1. ref \in S
        BY <1>1, <1>3
      <4> QED
        BY <4>1, <3>1, <3>2, <1>1, <1>2
    <3>3. CASE i < Len(trail)
      <4>1. i \in 1..(Len(trail) - 1) /\ i + 1 \in n..Len(trail)
        BY <3>3, <1>1
      <4>2. trail[i + 1] \in S /\ Edge(components, c, trail[i + 1])
        BY <4>1, <3>1, <1>0 DEF TrailInv
      <4> QED
        BY <4>2
    <3> QED
      BY <3>2, <3>3, <1>1
  <2> HIDE DEF S
  <2> QED
    BY <2>1, <2>2, <2>3 DEF Cyclic, Endless
<1>5. VerdictInv'
  BY <1>0, <1>1, <1>2, <1>3, <1>4 DEF VerdictInv, ReportedPathExists, TrailInv, Last
<1>6. TypeOK'
  BY <1>0 DEF TypeOK
<1>7. Nodes' = Nodes /\ Done' = Done /\ \A c \in Nodes : RefsOf(c)' = RefsOf(c)
  BY <1>0 DEF Nodes, Done, RefsOf
<1>8. TrailInv' /\ PassedInv' /\ DoneInv' /\ ReachInv'
  BY <1>0, <1>7 DEF SearchInv, TrailInv, PassedInv, DoneInv, ReachInv
<1> QED
  BY <1>5, <1>6, <1>8 DEF SearchInv

-----------------------------------------------------------------------------
(* The last component of the trail is done.                                *)

\* All it refers to is done before it.
LEMMA ReturnedAfterRefs ==
    ASSUME SearchInv, Return, NEW d \in Nodes, Edge(components, Last, d)
    PROVE  state[d] = "done"
<1>1. /\ trail # <<>> /\ passed[Last] = Len(RefsOf(Last)) /\ TypeOK /\ TrailInv /\ PassedInv
  BY DEF Return, SearchInv
<1>2. Last \in Nodes /\ Last = trail[Len(trail)] /\ Len(trail) \in Nat \ {0}
  BY <1>1, LastOfTrail
<1>3. PICK k \in 1..Len(RefsOf(Last)) : RefsOf(Last)[k] = d
  BY <1>1, <1>2, EdgeIsRef DEF TypeOK, Nodes
<1>4. \A i \in 1..(Len(trail) - 1) : Last # trail[i]
  BY <1>1, <1>2 DEF TrailInv
<1> QED
  BY <1>1, <1>2, <1>3, <1>4 DEF PassedInv

LEMMA ReturnKeeps ==
    ASSUME SearchInv, Return
    PROVE  SearchInv'
<1>0. /\ trail # <<>> /\ verdict = "none" /\ passed[Last] = Len(RefsOf(Last))
      /\ UNCHANGED <<components, passed>> /\ TypeOK /\ TrailInv
      /\ state' = [state EXCEPT ![Last] = "done"]
      /\ trail' = SubSeq(trail, 1, Len(trail) - 1)
      /\ verdict' = IF Len(trail) = 1 THEN "acyclic" ELSE verdict
  BY DEF Return, SearchInv
<1>1. /\ Last \in Nodes /\ Last = trail[Len(trail)] /\ Len(trail) \in Nat \ {0}
      /\ \A i \in 1..Len(trail) : trail[i] \in Nodes
  BY <1>0, LastOfTrail
<1>2. /\ Len(trail') = Len(trail) - 1
      /\ \A i \in 1..(Len(trail) - 1) : trail'[i] = trail[i]
      /\ trail' \in Seq(Nodes)
  <2> DEFINE n == Len(trail) - 1
  <2>1. 1 \in Int /\ n \in Int /\ \A i \in 1..n : trail[i] \in Nodes
    BY <1>1
  <2>2. /\ SubSeq(trail, 1, n) \in Seq(Nodes)
        /\ Len(SubSeq(trail, 1, n)) = IF 1 <= n THEN n - 1 + 1 ELSE 0
        /\ \A i \in 1..(n - 1 + 1) : SubSeq(trail, 1, n)[i] = trail[1 + i - 1]
    BY <2>1, SubSeqProperties
  <2>3. n \in Nat /\ n - 1 + 1 = n /\ \A i \in 1..n : 1 + i - 1 = i
    BY <1>1
  <2>4. Len(SubSeq(trail, 1, n)) = n
    BY <2>2, <2>3
  <2> QED
    BY <1>0, <2>2, <2>3, <2>4
<1>3. /\ Nodes' = Nodes /\ Done' = Done \cup {Last}
      /\ \A c \in Nodes : RefsOf(c)' = RefsOf(c)
      /\ \A c \in Nodes : state'[c] = IF c = Last THEN "done" ELSE state[c]
  BY <1>0, <1>1 DEF Nodes, Done, RefsOf, TypeOK
<1>4. TypeOK'
  BY <1>0, <1>2 DEF TypeOK, Nodes
<1>5. TrailInv'
  <2>1. \A i \in 1..Len(trail') : i \in 1..Len(trail) /\ trail[i] # Last
    BY <1>0, <1>1, <1>2 DEF TrailInv
  <2>2. ASSUME NEW d \in Nodes, state'[d] = "visiting"
        PROVE  \E i \in 1..Len(trail') : d = trail'[i]
    <3>1. d # Last /\ state[d] = "visiting"
      BY <2>2, <1>3
    <3>2. PICK i \in 1..Len(trail) : d = trail[i]
      BY <3>1, <1>0 DEF TrailInv
    <3>3. i \in 1..Len(trail')
      BY <3>1, <3>2, <1>1, <1>2
    <3> QED
      BY <3>2, <3>3, <1>2
  <2>3. \A i \in 1..Len(trail') : state'[trail'[i]] = "visiting"
    BY <2>1, <1>0, <1>1, <1>2, <1>3 DEF TrailInv
  <2>4. \A i, j \in 1..Len(trail') : trail'[i] = trail'[j] => i = j
    BY <2>1, <1>0, <1>2 DEF TrailInv
  <2>5. \A i \in 1..(Len(trail') - 1) : Edge(components, trail'[i], trail'[i + 1])
    BY <1>0, <1>1, <1>2 DEF TrailInv
  <2>6. trail' # <<>> => trail'[1] = RootID
    BY <1>0, <1>1, <1>2 DEF TrailInv
  <2>7. trail' = <<>> => state'[RootID] # "visiting"
    <3>1. CASE Len(trail) = 1
      BY <3>1, <1>0, <1>1, <1>3 DEF TrailInv
    <3>2. CASE Len(trail) # 1
      BY <3>2, <1>1, <1>2
    <3> QED
      BY <3>1, <3>2
  <2> QED
    BY <2>2, <2>3, <2>4, <2>5, <2>6, <2>7, <1>0, <1>3 DEF TrailInv
<1>6. PassedInv'
  <2> SUFFICES ASSUME NEW c \in Nodes, NEW k \in 1..passed[c], RefsOf(c)[k] \in Nodes
               PROVE  \/ state'[RefsOf(c)[k]] = "done"
                      \/ \E i \in 1..(Len(trail') - 1) :
                            c = trail'[i] /\ RefsOf(c)[k] = trail'[i + 1]
    BY <1>0, <1>3 DEF SearchInv, PassedInv
  <2>1. CASE state[RefsOf(c)[k]] = "done"
    BY <2>1, <1>3
  <2>2. CASE \E i \in 1..(Len(trail) - 1) : c = trail[i] /\ RefsOf(c)[k] = trail[i + 1]
    <3>1. PICK i \in 1..(Len(trail) - 1) : c = trail[i] /\ RefsOf(c)[k] = trail[i + 1]
      BY <2>2
    <3>2. CASE i + 1 = Len(trail)
      BY <3>1, <3>2, <1>1, <1>3
    <3>3. CASE i + 1 < Len(trail)
      BY <3>1, <3>3, <1>1, <1>2
    <3> QED
      BY <3>2, <3>3, <1>1
  <2> QED
    BY <2>1, <2>2 DEF SearchInv, PassedInv
<1>7. DoneInv'
  <2>1. \A c \in Done : \A d \in Nodes : Edge(components, c, d) => d \in Done
    BY DEF SearchInv, DoneInv
  <2>2. \A d \in Nodes : Edge(components, Last, d) => d \in Done
    BY ReturnedAfterRefs DEF Done
  <2>3. Last \notin Done
    BY <1>0, <1>1 DEF TrailInv, Done
  <2>4. ASSUME NEW S \in SUBSET (Done \cup {Last}), Endless(components, S)
        PROVE  FALSE
    <3>1. S \subseteq Nodes
      BY <1>1 DEF Done
    <3>2. \A c \in S \ {Last} : \E d \in S \ {Last} : Edge(components, c, d)
      BY <2>1, <2>3, <2>4, <3>1 DEF Endless
    <3>3. S \ {Last} # {}
      BY <2>2, <2>3, <2>4, <3>1 DEF Endless
    <3>4. Endless(components, S \ {Last})
      BY <3>2, <3>3 DEF Endless
    <3> QED
      BY <3>4 DEF SearchInv, DoneInv
  <2> QED
    BY <2>1, <2>2, <2>4, <1>0, <1>3 DEF DoneInv
<1>8. ReachInv'
  <2>1. Last \in Reachable(components)
    BY <1>0, <1>1 DEF SearchInv, TrailInv, ReachInv
  <2> QED
    BY <2>1, <1>0, <1>3 DEF SearchInv, ReachInv
<1>9. VerdictInv'
  BY <1>0, <1>1, <1>3, RootIsNode DEF VerdictInv, ReportedPathExists, TrailInv
<1> QED
  BY <1>4, <1>5, <1>6, <1>7, <1>8, <1>9 DEF SearchInv

-----------------------------------------------------------------------------
THEOREM SearchInvCorrect == Spec => []SearchInv
<1>1. Init => SearchInv
  BY InitEstablishes
<1>2. SearchInv /\ [Next]_vars => SearchInv'
  <2> SUFFICES ASSUME SearchInv, [Next]_vars
               PROVE  SearchInv'
    OBVIOUS
  <2>1. CASE VisitRoot
    BY <2>1, VisitRootKeeps
  <2>2. CASE Return
    BY <2>2, ReturnKeeps
  <2>3. CASE \E ref \in Strings : TakeRef(ref)
    BY <2>3, VisitNextKeeps, PassOverKeeps, ReportCycleKeeps DEF TakeRef
  <2>4. CASE UNCHANGED vars
    <3>1. UNCHANGED <<components, state, trail, passed, verdict>>
      BY <2>4 DEF vars
    <3>2. Nodes' = Nodes /\ Done' = Done /\ \A c \in Nodes : RefsOf(c)' = RefsOf(c)
      BY <3>1 DEF Nodes, Done, RefsOf
    <3>3. ReportedPathExists => ReportedPathExists'
      BY <3>1 DEF ReportedPathExists, Last
    <3> QED
      BY <3>1, <3>2, <3>3
      DEF SearchInv, TypeOK, TrailInv, PassedInv, DoneInv, ReachInv, VerdictInv
  <2> QED
    BY <2>1, <2>2, <2>3, <2>4 DEF Next
<1> QED
  BY <1>1, <1>2, PTL DEF Spec

\* For any list of components, of any size and with whatever else is wrong with
\* it: detectCycle reports a cycle exactly when one is reachable from root.
THEOREM VerdictIsAlwaysRight == Spec => []VerdictIsRight
<1>1. SearchInv => VerdictIsRight
  <2> SUFFICES ASSUME SearchInv, verdict = "acyclic",
                      NEW S \in SUBSET Reachable(components), Endless(components, S)
               PROVE  FALSE
    BY DEF VerdictIsRight, Cyclic, SearchInv, VerdictInv
  <2>1. RootID \in Done /\ Done \subseteq Nodes
    BY RootIsNode DEF SearchInv, VerdictInv, Done
  <2>2. Closed(components, Done)
    BY DEF SearchInv, DoneInv, Closed, Nodes
  <2>3. Reachable(components) \subseteq Done
    BY <2>1, <2>2 DEF Reachable, Nodes
  <2> QED
    BY <2>3 DEF SearchInv, DoneInv
<1> QED
  BY <1>1, SearchInvCorrect, PTL

\* The path a cycle error names is a path of the list that runs into itself.
THEOREM ReportedPathAlwaysExists == Spec => []ReportedPathExists
<1>1. SearchInv => ReportedPathExists
  BY DEF SearchInv, VerdictInv
<1> QED
  BY <1>1, SearchInvCorrect, PTL
=============================================================================
