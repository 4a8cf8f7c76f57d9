----------------------------- MODULE MCSurface -----------------------------
(* Surface on two surfaces, lists of up to two components and the data     *)
(* model of two names, an array of one element and two spellings of its    *)
(* index, where an author stops at the first wrong message:                *)
(* neither an issue nor an error of Decompile goes away by further ones.   *)
EXTENDS Surface, TLC

CONSTANTS s1, s2, root, a, k, l, i0, i00

MCAtoi == [key \in PathKeys |-> IF key \in {i0, i00} THEN 0 ELSE -1]

Comp(id, child, children, props) ==
    [ID |-> id, Kind |-> "Column", Accessibility |-> None, Child |-> child,
     Children |-> children, Props |-> props]
Labelled(comp) == [comp EXCEPT !.Accessibility = a]
Leaf(props) == Comp(a, None, None, props)
Text == "text" :> String("hi")

Lists ==
    {<<Labelled(Comp(root, None, StaticChildren(<<a>>), <<>>)), Leaf(Text)>>,
     <<Leaf(<<>>), Comp(root, a, None, Text)>>,
     <<Comp(root, None, StaticChildren(<<>>), <<>>)>>,
     <<Comp(root, None, DynamicChildrenOf(a, "/items"), <<>>), Leaf(<<>>)>>,
     <<Comp(root, a, None, <<>>), Comp(a, root, None, <<>>)>>,
     <<Comp(root, None, None, "child" :> String(a)), Leaf(<<>>)>>,
     <<Comp(root, None, None, "accessibility" :> <<"object", <<a>>>>), Leaf(<<>>)>>}

Holding(key, x) == Object @@ (<<key>> :> x)

DataMessages(id) ==
    {NewUpdateDataModel(id, path, value) :
        <<path, value>> \in
            {<< <<>>, Holding(k, "x")>>,
             << <<>>, Object @@ (<<k>> :> "array") @@ (<<k, 0>> :> "null")>>,
             << <<>>, Scalar("struct")>>, << <<k>>, Scalar("slice") @@ (<<0>> :> "int")>>,
             << <<k>>, Scalar("null")>>, << <<k>>, Holding(l, "x")>>, << <<l>>, Scalar("int")>>,
             << <<k, i0>>, Scalar("y")>>, << <<k, i00>>, Holding(l, "x")>>,
             << <<k, i0, k>>, Scalar("y")>>, <<Relative, Scalar("x")>>}}
    \cup {NewRemoveDataModelEntry(id, path) : path \in {<<>>, <<k>>, <<k, i0>>}}

MCWire ==
    {NewCreateSurface(id, Catalog) : id \in {s1, s2}} \cup {NewCreateSurface(s1, Empty)}
    \cup {[NewCreateSurface(s1, Catalog) EXCEPT !.SendDataModel = TRUE]}
    \cup {NewUpdateComponents(s1, list) : list \in Lists}
    \cup {[NewUpdateComponents(s1, <<Leaf(<<>>)>>) EXCEPT !.version = "v0.8"]}
    \cup {NewUpdateComponents(s2, <<Comp(root, None, None, <<>>)>>)}
    \cup DataMessages(s1) \cup {[NewDeleteSurface(s1) EXCEPT !.version = "v0.9"]}

SpecComp(id, child, children, props) ==
    [ID |-> id, Kind |-> "Column", Accessibility |-> IF child = Empty THEN None ELSE a,
     Child |-> child, Children |-> children, Properties |-> props]

MCSpecs ==
    [SurfaceID : {Empty, s2}, CatalogID : {Empty, Catalog},
     Components : {<<SpecComp(root, x, children, Text), SpecComp(a, y, <<>>, props)>> :
                      x \in {Empty, a}, y \in {Empty, root}, children \in {<<>>, <<a>>},
                      props \in {Text, "child" :> String(root)}},
     DataModel : {NoData, Object, Holding(k, "x")}]

\* A surface and its data at the path "/".
SlashWire ==
    {NewCreateSurface(s1, Catalog), NewUpdateComponents(s1, <<Comp(root, None, None, <<>>)>>),
     NewUpdateDataModel(s1, <<Empty>>, Holding(k, "x"))}
NoSpecs == {}

MCNext ==
    \/ valid /\ ~failed /\ \E m \in Wire : Send(m)
    \/ \E s \in Specs : CompileSpec(s)
    \/ Read \/ Deliver \/ Recompile

MCSpec == Init /\ [][MCNext]_vars
=============================================================================
