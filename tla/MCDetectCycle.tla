--------------------------- MODULE MCDetectCycle ---------------------------
(* DetectCycle on every list of three components with up to two references *)
(* each, and on short lists with everything that can be wrong with one.    *)
EXTENDS DetectCycle

CONSTANTS a, b, missing

Pairs(S) == UNION {[1..n -> S] : n \in 0..2}

Comp(id, child, children) == [ID |-> id, Kind |-> "Column", Child |-> child, Children |-> children]

Graphs(ids) ==
    LET Members(id) == {Comp(id, None, StaticChildren(refs)) : refs \in Pairs(ids)}
    IN  {<<x, y, z>> : x \in Members(a), y \in Members(RootID), z \in Members(b)}

Odd ==
    [ID : {RootID, a, Empty}, Kind : {"Column"}, Child : {None, RootID, a, missing},
     Children : {None, StaticChildren(<<>>), StaticChildren(<<missing, a>>), StaticChildren(<<RootID>>),
                 [Static |-> None, Dynamic |-> None], DynamicChildrenOf(RootID, "/items")}]

MCLists ==
    Graphs({RootID, a, b})
        \cup {list \in UNION {[1..n -> Odd] : n \in 1..2} : RootID \in Defined(list)}
=============================================================================
