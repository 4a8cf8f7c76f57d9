------------------------------ MODULE Surface ------------------------------
(***************************************************************************)
(* Streams of A2UI messages (pkg/vision/a2ui): an author builds one or     *)
(* compiles a SurfaceSpec to one, a client receives it as JSON lines, an   *)
(* editor decompiles it, and compiles again.  Each of them reads the       *)
(* stream message by message, validating (Issues) and decompiling it.      *)
(*                                                                         *)
(* A data model is a tree: a function from the paths in it to "object",    *)
(* "array", "null" or a scalar.  The members of an object are named, the   *)
(* elements of an array numbered.  An author in Go may put other types in  *)
(* it: "struct" and "slice" stand for maps and slices that are not those   *)
(* of JSON, "int" for its numbers.  Properties of components are given by  *)
(* their JSON, messages hold values and not references to them, and themes *)
(* and descriptions are left out.                                          *)
(***************************************************************************)
EXTENDS Components, SequencesExt

CONSTANTS
    SurfaceIDs,       \* ids of surfaces
    defaultSurfaceID, \* "main"
    Catalog,          \* DefaultCatalogID
    PathKeys,         \* the tokens of the paths in messages
    Atoi,             \* the index a token denotes, negative when it is none
    Relative,         \* a path that does not start with "/"
    Wire,             \* the messages an author may send
    Specs,            \* the specs an author may compile
    MaxMessages       \* bound on the messages an author sends

\* The paths in a data model, of names and numbers.
Paths == Seq(PathKeys \cup Int)

ASSUME SurfaceAssumption ==
    /\ defaultSurfaceID \in SurfaceIDs /\ Empty \notin SurfaceIDs \cup {Catalog}
    /\ None \notin DynamicChildren /\ None \notin ChildList /\ None \notin Seq(Strings)
    /\ Relative \notin Paths /\ Atoi \in [PathKeys -> Int]

VersionV091 == "v0.9.1"
KnownVersions == {"v0.9", VersionV091}

Scalar(x) == [p \in {<<>>} |-> x]
Object == Scalar("object")

\* A nil map has no paths, not even a root.
NoData == <<>>

IsTree(value) ==
    /\ value = [p \in DOMAIN value |-> value[p]]
    /\ <<>> \in DOMAIN value /\ DOMAIN value \subseteq Paths
IsModel(model) == model = NoData \/ (IsTree(model) /\ model[<<>>] = "object")

NewCreateSurface(id, catalog) ==
    [kind |-> "createSurface", version |-> VersionV091, SurfaceID |-> id, CatalogID |-> catalog,
     SendDataModel |-> FALSE]
NewUpdateComponents(id, list) ==
    [kind |-> "updateComponents", version |-> VersionV091, SurfaceID |-> id, Components |-> list]
NewUpdateDataModel(id, path, value) ==
    [kind |-> "updateDataModel", version |-> VersionV091, SurfaceID |-> id, Path |-> path,
     Value |-> value, Remove |-> FALSE]
NewRemoveDataModelEntry(id, path) ==
    [kind |-> "updateDataModel", version |-> VersionV091, SurfaceID |-> id, Path |-> path,
     Value |-> Scalar("null"), Remove |-> TRUE]
NewDeleteSurface(id) ==
    [kind |-> "deleteSurface", version |-> VersionV091, SurfaceID |-> id]

VARIABLES
    reader,   \* who reads the stream: "author", "client" or "editor"
    stream,   \* the messages
    pos,      \* how many of them are read
    open,     \* openSurfaces: created and not deleted
    valid,    \* no issue was found
    created,  \* Decompile saw a createSurface
    updated,  \* Decompile saw an updateComponents
    failed,   \* Decompile returned an error
    spec,     \* the spec it builds
    placed,   \* history: the messages read, with the places their paths led to
    earlier   \* what the author's stream came to: valid, ok (decompiled), spec,
              \* plain and generic (see Plain and GenericValue)

validatorVars == <<open, valid>>
decompilerVars == <<created, updated, failed, spec>>
vars == <<reader, stream, pos, validatorVars, decompilerVars, placed, earlier>>

EmptySpec == [SurfaceID |-> Empty, CatalogID |-> Empty, Components |-> <<>>, DataModel |-> NoData]
Nothing == [valid |-> FALSE, ok |-> FALSE, spec |-> EmptySpec, plain |-> FALSE, generic |-> FALSE]

Init ==
    /\ reader = "author" /\ stream = <<>> /\ pos = 0
    /\ open = {} /\ valid = TRUE
    /\ created = FALSE /\ updated = FALSE /\ failed = FALSE /\ spec = EmptySpec
    /\ placed = <<>> /\ earlier = Nothing

-----------------------------------------------------------------------------
(* Issues: one message against the surfaces that are open.                 *)

ValidEnvelope(m) == m.version \in KnownVersions /\ m.SurfaceID # Empty

trackDeleteSurface(m) ==
    /\ valid' = (valid /\ ValidEnvelope(m) /\ m.SurfaceID \in open)
    /\ open' = open \ {m.SurfaceID}

trackCreateSurface(m) ==
    /\ valid' = (valid /\ ValidEnvelope(m) /\ m.CatalogID # Empty /\ m.SurfaceID \notin open)
    /\ open' = open \cup {m.SurfaceID}

\* (mutant) any surface can be updated once one is open
validateAnySurface(m, ok) ==
    /\ valid' = (valid /\ ValidEnvelope(m) /\ open # {} /\ ok)
    /\ open' = open

validateOpenSurface(m, ok) ==
    /\ valid' = (valid /\ ValidEnvelope(m) /\ m.SurfaceID \in open /\ ok)
    /\ open' = open

Validate(m) ==
    \/ m.kind = "createSurface" /\ trackCreateSurface(m)
    \/ m.kind = "updateComponents" /\ validateOpenSurface(m, ValidComponents(m.Components))
    \/ m.kind = "updateDataModel" /\ validateOpenSurface(m, m.Path # Relative)
    \/ m.kind = "deleteSurface" /\ trackDeleteSurface(m)

-----------------------------------------------------------------------------
(* The data model under Decompile.                                         *)

\* The containers a pointer goes through, root first.
Containers(path) == {SubSeq(path, 1, n) : n \in 0..(Len(path) - 1)}

Parent(path) == SubSeq(path, 1, Len(path) - 1)

IsArray(tree, path) == path \in DOMAIN tree /\ tree[path] = "array"

\* indexAt: a token is the name of a member, or in an array whatever index it denotes,
\* the same one for "0", "00" and "+0".
LeadsTo(tree, path, at) ==
    /\ DOMAIN at = DOMAIN path
    /\ \A n \in DOMAIN path :
          at[n] = IF IsArray(tree, SubSeq(at, 1, n - 1)) THEN Atoi[path[n]] ELSE path[n]

Located(tree, path) ==
    CHOOSE at \in [DOMAIN path -> Range(path) \cup {Atoi[key] : key \in Range(path)}] :
        LeadsTo(tree, path, at)

\* A message for the place its path leads to.
Placed(tree, m) ==
    IF m.kind = "updateDataModel" /\ m.Path # Relative
    THEN [m EXCEPT !.Path = Located(tree, @)] ELSE m

IsElement(tree, path) ==
    path # <<>> /\ IsArray(tree, Parent(path))

\* descendOrCreate: a container is an object or an array that has the index, or
\* will be created where nothing or a null is; an element of an array is not.
Descends(tree, path) ==
    \A c \in Containers(path) :
        LET next == SubSeq(path, 1, Len(c) + 1)
        IN  c \in DOMAIN tree =>
               \/ tree[c] = "object"
               \/ tree[c] = "array" /\ next \in DOMAIN tree
               \/ tree[c] = "null" /\ ~IsElement(tree, c)

\* descendOnly: every container is there.
DescendsOnly(tree, path) ==
    \A c \in Containers(path) :
        LET next == SubSeq(path, 1, Len(c) + 1)
        IN  /\ c \in DOMAIN tree
            /\ tree[c] = "object" \/ (tree[c] = "array" /\ next \in DOMAIN tree)

Below(tree, path) == {p \in DOMAIN tree : IsPrefix(path, p)}

Rest(path, p) == SubSeq(p, Len(path) + 1, Len(p))

\* (mutant) writes over what is there without taking it away
Overlay(tree, path, value) ==
    [p \in DOMAIN tree \cup Containers(path) \cup {path \o q : q \in DOMAIN value} |->
        IF IsPrefix(path, p) /\ Rest(path, p) \in DOMAIN value THEN value[Rest(path, p)]
        ELSE IF p \in Containers(path) /\ (p \in DOMAIN tree => tree[p] = "null") THEN "object"
        ELSE tree[p]]

setAtPointer(tree, path, value) ==
    [p \in (DOMAIN tree \ Below(tree, path)) \cup Containers(path) \cup {path \o q : q \in DOMAIN value} |->
        IF IsPrefix(path, p) THEN value[Rest(path, p)]
        ELSE IF p \in Containers(path) /\ (p \in DOMAIN tree => tree[p] = "null") THEN "object"
        ELSE tree[p]]

removeAtPointer(tree, path) ==
    IF IsElement(tree, path) THEN setAtPointer(tree, path, Scalar("null"))
    ELSE [p \in DOMAIN tree \ Below(tree, path) |-> tree[p]]

OrEmpty(model) == IF model = NoData THEN Object ELSE model

\* applyDataModel returns an error for these.
Refused(model, m) ==
    \/ m.Path = Relative /\ ~(m.Remove /\ model = NoData)
    \/ m.Path = <<>> /\ ~m.Remove /\ m.Value[<<>>] # "object"
    \/ m.Path \notin {Relative, <<>>} /\ ~m.Remove /\ ~Descends(OrEmpty(model), m.Path)
    \/ m.Path \notin {Relative, <<>>} /\ m.Remove /\ model # NoData /\ ~DescendsOnly(model, m.Path)

Applied(model, m) ==
    IF m.Path = <<>> THEN IF m.Remove THEN NoData ELSE m.Value
    ELSE IF m.Remove THEN IF model = NoData THEN NoData ELSE removeAtPointer(model, m.Path)
    ELSE setAtPointer(OrEmpty(model), m.Path, m.Value)

-----------------------------------------------------------------------------
(* Decompile: one message into the spec under construction.                *)

Fails == failed' = TRUE /\ UNCHANGED <<created, updated, spec>>

specFromWire(comp) ==
    [ID |-> comp.ID, Kind |-> comp.Kind, Accessibility |-> comp.Accessibility,
     Properties |-> comp.Props,
     Child |-> IF comp.Child = None THEN Empty ELSE comp.Child,
     Children |-> IF comp.Children = None THEN <<>>
                  ELSE IF comp.Children.Static = None THEN <<>> ELSE comp.Children.Static]

IsDynamic(comp) == comp.Children # None /\ comp.Children.Dynamic # None

DecompileCreate(m) ==
    IF created \/ m.SendDataModel THEN Fails
    ELSE /\ spec' = [spec EXCEPT !.SurfaceID = m.SurfaceID, !.CatalogID = m.CatalogID]
         /\ created' = TRUE
         /\ UNCHANGED <<updated, failed>>

DecompileComponents(m) ==
    IF ~created \/ \E i \in DOMAIN m.Components : IsDynamic(m.Components[i]) THEN Fails
    ELSE /\ spec' = [spec EXCEPT !.Components =
                        [i \in DOMAIN m.Components |-> specFromWire(m.Components[i])]]
         /\ updated' = TRUE
         /\ UNCHANGED <<created, failed>>

DecompileData(m) ==
    LET at == Placed(spec.DataModel, m)
    IN  IF ~created \/ Refused(spec.DataModel, at) THEN Fails
        ELSE /\ spec' = [spec EXCEPT !.DataModel = Applied(@, at)]
             /\ UNCHANGED <<created, updated, failed>>

Decompile(m) ==
    \/ failed /\ UNCHANGED decompilerVars
    \/ ~failed /\ m.kind = "createSurface" /\ DecompileCreate(m)
    \/ ~failed /\ m.kind = "updateComponents" /\ DecompileComponents(m)
    \/ ~failed /\ m.kind = "updateDataModel" /\ DecompileData(m)
    \/ ~failed /\ m.kind = "deleteSurface" /\ Fails

-----------------------------------------------------------------------------
(* Compile.                                                                *)

\* (mutant) a component without a child gets one with no id
componentToWireAsIs(comp) ==
    [ID |-> comp.ID, Kind |-> comp.Kind, Accessibility |-> comp.Accessibility,
     Props |-> comp.Properties, Child |-> comp.Child,
     Children |-> IF comp.Children = <<>> THEN None ELSE StaticChildren(comp.Children)]

componentToWire(comp) ==
    [ID |-> comp.ID, Kind |-> comp.Kind, Accessibility |-> comp.Accessibility,
     Props |-> comp.Properties,
     Child |-> IF comp.Child = Empty THEN None ELSE comp.Child,
     Children |-> IF comp.Children = <<>> THEN None ELSE StaticChildren(comp.Children)]

defaultIDs(s) ==
    [s EXCEPT !.SurfaceID = IF @ = Empty THEN defaultSurfaceID ELSE @,
              !.CatalogID = IF @ = Empty THEN Catalog ELSE @]

HasData(s) == s.DataModel \notin {NoData, Object}

\* The stream of a spec; Compile returns it when Validate finds no issue.
Compile(s) ==
    LET d == defaultIDs(s)
    IN  <<NewCreateSurface(d.SurfaceID, d.CatalogID),
          NewUpdateComponents(d.SurfaceID,
                              [i \in DOMAIN d.Components |-> componentToWire(d.Components[i])])>>
        \o IF HasData(d) THEN <<NewUpdateDataModel(d.SurfaceID, <<>>, d.DataModel)>> ELSE <<>>

-----------------------------------------------------------------------------
(* JSON lines.  A value is its kind and what it holds.                     *)

String(x) == <<"string", <<x>>>>
Array(ids) == <<"array", ids>>

EncodeChildren(children) ==
    IF children.Dynamic # None
    THEN <<"object", <<children.Dynamic.componentId, children.Dynamic.path>>>>
    ELSE Array(IF children.Static = None THEN <<>> ELSE children.Static)

DecodeChildren(value) ==
    IF value[1] = "array" THEN StaticChildren(value[2])
    ELSE DynamicChildrenOf(value[2][1], value[2][2])

\* Component.MarshalJSON: the properties first, the structural keys over them.
StructuralKeys(comp) ==
    {"id", "component"} \cup (IF comp.Accessibility # None THEN {"accessibility"} ELSE {})
                        \cup (IF comp.Child # None THEN {"child"} ELSE {})
                        \cup (IF comp.Children # None THEN {"children"} ELSE {})

StructuralValue(comp, name) ==
    CASE name = "id" -> String(comp.ID)
      [] name = "component" -> String(comp.Kind)
      [] name = "accessibility" -> <<"object", <<comp.Accessibility>>>>
      [] name = "child" -> String(comp.Child)
      [] name = "children" -> EncodeChildren(comp.Children)

EncodeComponent(comp) ==
    [name \in StructuralKeys(comp) \cup DOMAIN comp.Props |->
        IF name \in StructuralKeys(comp) THEN StructuralValue(comp, name) ELSE comp.Props[name]]

Structural == {"id", "component", "accessibility", "child", "children"}

\* (mutant) the structural keys stay among the properties
DecodeAllProps(obj) ==
    [ID |-> obj["id"][2][1], Kind |-> obj["component"][2][1],
     Accessibility |-> IF "accessibility" \in DOMAIN obj THEN obj["accessibility"][2][1] ELSE None,
     Child |-> IF "child" \in DOMAIN obj THEN obj["child"][2][1] ELSE None,
     Children |-> IF "children" \in DOMAIN obj THEN DecodeChildren(obj["children"]) ELSE None,
     Props |-> obj]

\* Component.UnmarshalJSON: a structural key is taken from wherever it came.
DecodeComponent(obj) ==
    [ID |-> obj["id"][2][1], Kind |-> obj["component"][2][1],
     Accessibility |-> IF "accessibility" \in DOMAIN obj THEN obj["accessibility"][2][1] ELSE None,
     Child |-> IF "child" \in DOMAIN obj THEN obj["child"][2][1] ELSE None,
     Children |-> IF "children" \in DOMAIN obj THEN DecodeChildren(obj["children"]) ELSE None,
     Props |-> [k \in DOMAIN obj \ Structural |-> obj[k]]]

\* What a Go value has become once it was encoded and decoded.
JSONKind(kind) ==
    IF kind = "struct" THEN "object" ELSE IF kind = "slice" THEN "array"
    ELSE IF kind = "int" THEN "number" ELSE kind

Generic(value) == [p \in DOMAIN value |-> JSONKind(value[p])]

\* A removal is a message without a value; one without a path as well decodes as
\* a null for the whole model.
Received(m) ==
    CASE m.kind = "updateComponents" ->
            [m EXCEPT !.Components =
                [i \in DOMAIN m.Components |-> DecodeComponent(EncodeComponent(m.Components[i]))]]
      [] m.kind = "updateDataModel" ->
            [m EXCEPT !.Value = IF m.Remove THEN Scalar("null") ELSE Generic(@),
                      !.Remove = @ /\ m.Path # <<>>]
      [] OTHER -> m

\* What the fields of components, messages and specs hold.  A property named like a
\* structural key can be decoded as one.
IsProperties(props) ==
    /\ props = [name \in DOMAIN props |-> props[name]]
    /\ "accessibility" \in DOMAIN props => props["accessibility"][2][1] \in Strings
    /\ "child" \in DOMAIN props => props["child"][2][1] \in Strings
    /\ "children" \in DOMAIN props => DecodeChildren(props["children"]) \in ChildList

IsComponent(comp) ==
    /\ comp = [ID |-> comp.ID, Kind |-> comp.Kind, Accessibility |-> comp.Accessibility,
               Child |-> comp.Child, Children |-> comp.Children, Props |-> comp.Props]
    /\ comp.Accessibility \in {None} \cup Strings
    /\ comp.Child \in {None} \cup Strings
    /\ comp.Children \in {None} \cup ChildList
    /\ IsProperties(comp.Props)

IsComponentSpec(comp) ==
    /\ comp = [ID |-> comp.ID, Kind |-> comp.Kind, Accessibility |-> comp.Accessibility,
               Properties |-> comp.Properties, Child |-> comp.Child, Children |-> comp.Children]
    /\ comp.Accessibility \in {None} \cup Strings
    /\ comp.Child \in Strings /\ comp.Children \in Seq(Strings)
    /\ IsProperties(comp.Properties)

IsList(list) == Len(list) \in Nat /\ list = [i \in 1..Len(list) |-> list[i]]

IsMessage(m) ==
    \/ /\ m.kind = "createSurface"
       /\ m = [NewCreateSurface(m.SurfaceID, m.CatalogID) EXCEPT !.version = m.version,
                                                       !.SendDataModel = m.SendDataModel]
    \/ /\ m.kind = "updateComponents"
       /\ m = [NewUpdateComponents(m.SurfaceID, m.Components) EXCEPT !.version = m.version]
       /\ IsList(m.Components) /\ \A i \in DOMAIN m.Components : IsComponent(m.Components[i])
    \/ /\ m.kind = "updateDataModel"
       /\ m = [NewUpdateDataModel(m.SurfaceID, m.Path, m.Value) EXCEPT !.version = m.version,
                                                                  !.Remove = m.Remove]
       /\ m.Path \in {Relative} \cup Seq(PathKeys) /\ IsTree(m.Value) /\ m.Remove \in BOOLEAN
    \/ /\ m.kind = "deleteSurface"
       /\ m = [NewDeleteSurface(m.SurfaceID) EXCEPT !.version = m.version]

IsSurfaceSpec(s) ==
    /\ s = [SurfaceID |-> s.SurfaceID, CatalogID |-> s.CatalogID, Components |-> s.Components,
            DataModel |-> s.DataModel]
    /\ IsList(s.Components) /\ \A i \in DOMAIN s.Components : IsComponentSpec(s.Components[i])
    /\ IsModel(s.DataModel)

ASSUME MessagesAssumption ==
    (\A m \in Wire : IsMessage(m)) /\ (\A s \in Specs : IsSurfaceSpec(s))

-----------------------------------------------------------------------------
AtEnd == pos = Len(stream)
ok == created /\ updated /\ ~failed

\* What the wire cannot carry: a property named like a structural key, and the
\* removal of a whole data model.
Plain(m) ==
    /\ m.kind = "updateComponents" =>
          \A i \in DOMAIN m.Components : DOMAIN m.Components[i].Props \cap Structural = {}
    /\ m.kind = "updateDataModel" => m.Path # <<>> \/ ~m.Remove

\* The value of a message, if it has one, is of the types JSON decodes to.
GenericValue(m) == m.kind = "updateDataModel" /\ ~m.Remove => Generic(m.Value) = m.Value

Send(m) ==
    /\ reader = "author" /\ AtEnd /\ Len(stream) < MaxMessages
    /\ stream' = Append(stream, m)
    /\ UNCHANGED <<reader, pos, validatorVars, decompilerVars, placed, earlier>>

CompileSpec(s) ==
    /\ reader = "author" /\ stream = <<>>
    /\ stream' = Compile(s)
    /\ UNCHANGED <<reader, pos, validatorVars, decompilerVars, placed, earlier>>

Read ==
    /\ ~AtEnd
    /\ Validate(stream[pos + 1])
    /\ Decompile(stream[pos + 1])
    /\ pos' = pos + 1
    /\ placed' = Append(placed, Placed(spec.DataModel, stream[pos + 1]))
    /\ UNCHANGED <<reader, stream, earlier>>

\* The stream goes to another reader, who starts from nothing.
PassOn(to, messages) ==
    /\ reader = "author" /\ AtEnd /\ stream # <<>>
    /\ reader' = to /\ stream' = messages /\ pos' = 0 /\ placed' = <<>>
    /\ open' = {} /\ valid' = TRUE
    /\ created' = FALSE /\ updated' = FALSE /\ failed' = FALSE /\ spec' = EmptySpec
    /\ earlier' = [valid |-> valid, ok |-> ok, spec |-> spec,
                   plain |-> \A i \in DOMAIN stream : Plain(stream[i]),
                   generic |-> \A i \in DOMAIN stream : GenericValue(stream[i])]

Deliver == PassOn("client", [i \in DOMAIN stream |-> Received(stream[i])])
Recompile == ok /\ PassOn("editor", Compile(spec))

Next ==
    \/ \E m \in Wire : Send(m)
    \/ \E s \in Specs : CompileSpec(s)
    \/ Read \/ Deliver \/ Recompile

Spec == Init /\ [][Next]_vars

-----------------------------------------------------------------------------
\* A stream that validates and decompiles is about one surface, although
\* Decompile compares no surface ids: no message of it belongs to another one.
DecompiledIsOneSurface ==
    valid /\ ok => \A i \in 1..pos : stream[i].SurfaceID = spec.SurfaceID

\* Message i changes the data model, and no later one where it, or what is above
\* or below it, is.
Changes(i) == placed[i].kind = "updateDataModel"
Overlap(p, q) == IsPrefix(p, q) \/ IsPrefix(q, p)
Stands(i) == Changes(i) /\ \A j \in (i + 1)..pos : Changes(j) => ~Overlap(placed[i].Path, placed[j].Path)

\* What a data model shows where a message changed it: the value and nothing else, or
\* of a removed entry nothing but a null in an array.
Shows(model, m) ==
    IF m.Remove
    THEN \A p \in Below(model, m.Path) : p = m.Path /\ IsElement(model, p) /\ model[p] = "null"
    ELSE /\ Below(model, m.Path) = {m.Path \o q : q \in DOMAIN m.Value}
         /\ \A q \in DOMAIN m.Value : model[m.Path \o q] = m.Value[q]

\* The message writes the path, or goes through it.
Writes(m, p) ==
    /\ m.kind = "updateDataModel" /\ ~m.Remove
    /\ IsPrefix(p, m.Path) \/ (IsPrefix(m.Path, p) /\ Rest(m.Path, p) \in DOMAIN m.Value)

\* The decompiled data model holds, of every place, what was last said of it, where
\* the path of the message that said it still leads, and nothing that was not
\* written: writes through nulls, into arrays by any spelling of an index and over
\* objects, removals and whole models in any order.
LastWriteWins ==
    valid /\ ok =>
        /\ \A i \in 1..pos : Stands(i) =>
              /\ Shows(spec.DataModel, placed[i])
              /\ LeadsTo(spec.DataModel, stream[i].Path, placed[i].Path)
        /\ \A p \in DOMAIN spec.DataModel : \E i \in 1..pos : Writes(placed[i], p)

\* What UpdateDataModel says of itself: the path "/" replaces the whole model.
\* Decompile takes it for the key that is the empty string.
SlashReplacesModel ==
    valid /\ ok /\ pos > 0 =>
        LET m == stream[pos]
        IN  m.kind = "updateDataModel" /\ m.Path = <<Empty>> /\ ~m.Remove =>
               spec.DataModel = m.Value

\* The edit loop closes: compiling what was decompiled from a valid stream gives
\* a valid stream that decompiles to the same spec, however many messages it
\* was folded from; only an empty data model is gone.
EditLoopCloses ==
    reader = "editor" /\ AtEnd =>
        /\ earlier.valid => valid
        /\ ok
        /\ spec = [defaultIDs(earlier.spec) EXCEPT !.DataModel = IF @ = Object THEN NoData ELSE @]

\* A client reads what the author meant: a valid stream that holds only what the wire
\* can carry arrives valid.  If it decompiles before the wire it does so after it, to
\* the same spec but for the Go types of the data; what fails before it can decompile
\* after it only by such types, which Decompile neither descends into nor takes for a
\* whole model.
WireKeepsMeaning ==
    reader = "client" /\ AtEnd /\ earlier.valid /\ earlier.plain =>
        /\ valid
        /\ earlier.ok => ok /\ spec = [earlier.spec EXCEPT !.DataModel = Generic(@)]
        /\ earlier.generic => ok = earlier.ok /\ (ok => spec = earlier.spec)
=============================================================================
