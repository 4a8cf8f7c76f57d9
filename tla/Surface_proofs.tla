--------------------------- MODULE Surface_proofs ---------------------------
(* Streams of messages for any messages, specs, surfaces and streams of any *)
(* length: one that validates and decompiles is about one surface, its data *)
(* model holds what was last written, what it decompiles to compiles again, *)
(* and it means the same when it has come over the wire.                    *)
EXTENDS Surface, TLAPS, SequenceTheorems, WellFoundedInduction

Fields == {"SurfaceID", "CatalogID", "Components", "DataModel"}

IsStream == pos \in Nat /\ pos <= Len(stream) /\ \E S : stream \in Seq(S)
IsSpec == \E S : spec \in [Fields -> S]

\* Until a surface is created nothing was read, and then only it is open, as long
\* as neither reader objects.
OneSurfaceInv ==
    /\ IsStream
    /\ IsSpec
    /\ valid \in BOOLEAN /\ created \in BOOLEAN /\ failed \in BOOLEAN
    /\ ~created /\ ~failed => pos = 0 /\ open = {}
    /\ valid /\ created /\ ~failed =>
          /\ open \subseteq {spec.SurfaceID}
          /\ \A i \in 1..pos : stream[i].SurfaceID = spec.SurfaceID

\* The spec Decompile starts from has the four fields.
LEMMA EmptySpecIsSpec == EmptySpec \in [Fields -> {Empty, <<>>}]
BY DEF EmptySpec, NoData, Fields

\* Before anything is sent nothing is open.
LEMMA InitEstablishes ==
    ASSUME Init
    PROVE  OneSurfaceInv
<1>1. <<>> \in Seq({})
  OBVIOUS
<1>2. IsStream
  BY <1>1 DEF Init, IsStream
<1>3. IsSpec
  BY EmptySpecIsSpec DEF Init, IsSpec
<1> QED
  BY <1>2, <1>3 DEF Init, OneSurfaceInv

\* A reader who starts has read nothing of any sequence of messages.
LEMMA StartEstablishes ==
    ASSUME NEW to, NEW messages, NEW S, messages \in Seq(S), PassOn(to, messages)
    PROVE  OneSurfaceInv'
<1>1. IsStream'
  <2>1. stream' \in Seq(S) /\ pos' = 0
    BY DEF PassOn
  <2> QED
    BY <2>1 DEF IsStream
<1>2. IsSpec'
  <2>1. spec' \in [Fields -> {Empty, <<>>}]
    BY EmptySpecIsSpec DEF PassOn
  <2> QED
    BY <2>1 DEF IsSpec
<1> QED
  BY <1>1, <1>2 DEF PassOn, OneSurfaceInv

\* One and two elements of a set are sequences over it.
LEMMA ShortTuples ==
    ASSUME NEW S, NEW x \in S, NEW y \in S
    PROVE  <<>> \in Seq(S) /\ <<x>> \in Seq(S) /\ <<x, y>> \in Seq(S)
OBVIOUS

\* Compile returns a sequence of messages.
LEMMA CompileIsSequence ==
    ASSUME NEW s
    PROVE  \E S : Compile(s) \in Seq(S)
<1> DEFINE d == defaultIDs(s)
           create == NewCreateSurface(d.SurfaceID, d.CatalogID)
           update == NewUpdateComponents(d.SurfaceID,
                              [i \in DOMAIN d.Components |-> componentToWire(d.Components[i])])
           data == NewUpdateDataModel(d.SurfaceID, <<>>, d.DataModel)
           S == {create, update, data}
           rest == IF HasData(d) THEN <<data>> ELSE <<>>
<1>1. Compile(s) = <<create, update>> \o rest
  BY DEF Compile
<1>2. <<create, update>> \in Seq(S) /\ rest \in Seq(S)
  <2>1. create \in S /\ update \in S /\ data \in S
    OBVIOUS
  <2> HIDE DEF create, update, data, S
  <2>2. <<>> \in Seq(S) /\ <<data>> \in Seq(S) /\ <<create, update>> \in Seq(S)
    BY <2>1, ShortTuples
  <2> QED
    BY <2>2
<1> HIDE DEF create, update, rest
<1>3. <<create, update>> \o rest \in Seq(S)
  BY <1>2, ConcatProperties
<1> QED
  BY <1>1, <1>3

\* More messages change nothing for what was read.
LEMMA SendKeeps ==
    ASSUME OneSurfaceInv, NEW m, Send(m)
    PROVE  OneSurfaceInv'
<1>1. PICK S : stream \in Seq(S)
  BY DEF OneSurfaceInv, IsStream
<1>2. /\ stream' = Append(stream, m) /\ stream \in Seq(S \cup {m}) /\ m \in S \cup {m}
      /\ UNCHANGED <<pos, open, valid, created, updated, failed, spec>>
  BY <1>1 DEF Send, validatorVars, decompilerVars
<1>3. /\ Len(stream') = Len(stream) + 1 /\ stream' \in Seq(S \cup {m})
      /\ \A i \in 1..Len(stream) : stream'[i] = stream[i]
  BY <1>2, AppendProperties
<1>4. Len(stream) \in Nat
  BY <1>1
<1>5. IsStream'
  BY <1>2, <1>3, <1>4 DEF OneSurfaceInv, IsStream
<1>6. \A i \in 1..pos : stream'[i] = stream[i]
  BY <1>3, <1>4 DEF OneSurfaceInv, IsStream
<1> QED
  BY <1>2, <1>5, <1>6 DEF OneSurfaceInv, IsSpec

\* A spec is compiled before anything was read.
LEMMA CompileSpecKeeps ==
    ASSUME OneSurfaceInv, NEW s, CompileSpec(s)
    PROVE  OneSurfaceInv'
<1>1. /\ stream = <<>> /\ stream' = Compile(s)
      /\ UNCHANGED <<pos, open, valid, created, updated, failed, spec>>
  BY DEF CompileSpec, validatorVars, decompilerVars
<1>2. pos = 0
  BY <1>1 DEF OneSurfaceInv, IsStream
<1>3. IsStream'
  <2>1. PICK S : Compile(s) \in Seq(S)
    BY CompileIsSequence
  <2>2. stream' \in Seq(S)
    BY <1>1, <2>1
  <2>3. Len(stream') \in Nat
    BY <2>2
  <2> QED
    BY <1>1, <1>2, <2>2, <2>3 DEF IsStream
<1> QED
  BY <1>1, <1>2, <1>3 DEF OneSurfaceInv, IsSpec

\* The next message, whichever it is, keeps the stream about one surface: a second surface
\* is an error, and a message for one that is not open is an issue.
LEMMA ReadKeeps ==
    ASSUME OneSurfaceInv, Read
    PROVE  OneSurfaceInv'
<1> DEFINE m == stream[pos + 1]
<1>0. /\ pos' = pos + 1 /\ stream' = stream /\ pos \in Nat
      /\ Validate(m) /\ Decompile(m)
  BY DEF Read, OneSurfaceInv, IsStream
<1>1. IsStream'
  <2>1. PICK S : stream \in Seq(S)
    BY DEF OneSurfaceInv, IsStream
  <2>2. Len(stream) \in Nat /\ pos < Len(stream)
    BY <2>1 DEF Read, AtEnd, OneSurfaceInv, IsStream
  <2> QED
    BY <1>0, <2>1, <2>2 DEF IsStream
<1>2. PICK T : spec \in [Fields -> T]
  BY DEF OneSurfaceInv, IsSpec
<1>3. /\ valid' \in BOOLEAN
      /\ valid' => valid
      /\ open' \subseteq open \cup {m.SurfaceID}
      /\ valid' /\ m.kind # "createSurface" => m.SurfaceID \in open /\ open' \subseteq open
  BY <1>0 DEF Validate, trackCreateSurface, trackDeleteSurface, validateOpenSurface,
              OneSurfaceInv
<1> HIDE DEF m
<1>4. CASE failed
  BY <1>0, <1>1, <1>3, <1>4 DEF Decompile, decompilerVars, OneSurfaceInv, IsSpec
<1>5. CASE ~failed /\ m.kind = "createSurface" /\ DecompileCreate(m)
  <2>1. CASE created \/ m.SendDataModel
    BY <1>1, <1>3, <1>5, <2>1 DEF DecompileCreate, Fails, OneSurfaceInv, IsSpec
  <2>2. CASE ~(created \/ m.SendDataModel)
    <3>1. /\ spec' = [spec EXCEPT !.SurfaceID = m.SurfaceID, !.CatalogID = m.CatalogID]
          /\ created' = TRUE /\ failed' = FALSE /\ pos = 0 /\ open = {}
      BY <1>5, <2>2 DEF DecompileCreate, OneSurfaceInv
    <3>2. spec' \in [Fields -> T \cup {m.SurfaceID, m.CatalogID}]
          /\ spec'.SurfaceID = m.SurfaceID
      BY <1>2, <3>1 DEF Fields
    <3>3. IsSpec'
      BY <3>2 DEF IsSpec
    <3>4. \A i \in 1..pos' : stream'[i] = m
      BY <1>0, <3>1 DEF m
    <3> QED
      BY <1>1, <1>3, <3>1, <3>2, <3>3, <3>4 DEF OneSurfaceInv
  <2> QED
    BY <2>1, <2>2
<1>6. CASE ~failed /\ m.kind # "createSurface" /\ failed'
  <2>1. IsSpec' /\ created' \in BOOLEAN /\ failed' \in BOOLEAN
    BY <1>0, <1>6 DEF Decompile, DecompileComponents, DecompileData, Fails, OneSurfaceInv, IsSpec
  <2> QED
    BY <1>1, <1>3, <1>6, <2>1 DEF OneSurfaceInv
<1>7. CASE ~failed /\ m.kind # "createSurface" /\ ~failed'
  <2>1. /\ created /\ created' = created /\ failed' = failed
        /\ spec'.SurfaceID = spec.SurfaceID
        /\ \E S : spec' \in [Fields -> S]
    <3>1. CASE DecompileComponents(m)
      <4> DEFINE list == [i \in DOMAIN m.Components |-> specFromWire(m.Components[i])]
      <4>1. /\ created /\ created' = created /\ failed' = failed
            /\ spec' = [spec EXCEPT !.Components = list]
        BY <1>7, <3>1 DEF DecompileComponents, Fails
      <4> HIDE DEF list
      <4>2. spec' \in [Fields -> T \cup {list}] /\ spec'.SurfaceID = spec.SurfaceID
        BY <1>2, <4>1 DEF Fields
      <4> QED
        BY <4>1, <4>2
    <3>2. CASE DecompileData(m)
      <4> PICK at : at = Placed(spec.DataModel, m)
        OBVIOUS
      <4>1. /\ created /\ created' = created /\ failed' = failed
            /\ spec' = [spec EXCEPT !.DataModel = Applied(spec.DataModel, at)]
        BY <1>7, <3>2 DEF DecompileData, Fails
      <4>2. spec' \in [Fields -> T \cup {Applied(spec.DataModel, at)}] /\ spec'.SurfaceID = spec.SurfaceID
        BY <1>2, <4>1 DEF Fields
      <4> QED
        BY <4>1, <4>2
    <3> QED
      BY <1>0, <1>7, <3>1, <3>2 DEF Decompile, Fails
  <2>2. ASSUME valid'
        PROVE  /\ open' \subseteq {spec.SurfaceID}
               /\ \A i \in 1..pos' : stream'[i].SurfaceID = spec.SurfaceID
    <3>1. /\ open \subseteq {spec.SurfaceID}
          /\ \A i \in 1..pos : stream[i].SurfaceID = spec.SurfaceID
      BY <1>3, <1>7, <2>1, <2>2 DEF OneSurfaceInv
    <3>2. m.SurfaceID = spec.SurfaceID
      BY <1>3, <1>7, <2>2, <3>1
    <3> QED
      BY <1>0, <1>3, <1>7, <2>2, <3>1, <3>2 DEF m
  <2> QED
    BY <1>1, <1>3, <1>7, <2>1, <2>2 DEF OneSurfaceInv, IsSpec
<1> QED
  BY <1>0, <1>4, <1>5, <1>6, <1>7 DEF Decompile, OneSurfaceInv

\* As long as neither validator nor Decompile objects, everything read is about the one
\* surface that was created.
THEOREM OneSurfaceInvCorrect == Spec => []OneSurfaceInv
<1>1. Init => OneSurfaceInv
  BY InitEstablishes
<1>2. OneSurfaceInv /\ [Next]_vars => OneSurfaceInv'
  <2> SUFFICES ASSUME OneSurfaceInv, [Next]_vars
               PROVE  OneSurfaceInv'
    OBVIOUS
  <2>1. CASE \E m \in Wire : Send(m)
    BY <2>1, SendKeeps
  <2>2. CASE \E s \in Specs : CompileSpec(s)
    BY <2>2, CompileSpecKeeps
  <2>3. CASE Read
    BY <2>3, ReadKeeps
  <2>4. CASE Deliver
    <3>1. PICK S : stream \in Seq(S)
      BY DEF OneSurfaceInv, IsStream
    <3> DEFINE n == Len(stream)
               messages == [i \in 1..n |-> Received(stream[i])]
               T == {Received(stream[i]) : i \in 1..n}
    <3>2. n \in Nat /\ DOMAIN stream = 1..n
      BY <3>1
    <3>3. messages \in Seq(T)
      BY <3>2
    <3>4. PassOn("client", messages)
      BY <2>4, <3>2 DEF Deliver
    <3> QED
      BY <3>3, <3>4, StartEstablishes
  <2>5. CASE Recompile
    <3>1. PICK S : Compile(spec) \in Seq(S)
      BY CompileIsSequence
    <3> QED
      BY <2>5, <3>1, StartEstablishes DEF Recompile
  <2>6. CASE UNCHANGED vars
    BY <2>6 DEF vars, validatorVars, decompilerVars, OneSurfaceInv, IsStream, IsSpec
  <2> QED
    BY <2>1, <2>2, <2>3, <2>4, <2>5, <2>6 DEF Next
<1> QED
  BY <1>1, <1>2, PTL DEF Spec

\* For any stream: what validates and decompiles has no message for a surface
\* other than the one of the spec.
THEOREM DecompiledIsAlwaysOneSurface == Spec => []DecompiledIsOneSurface
<1>1. OneSurfaceInv => DecompiledIsOneSurface
  BY DEF OneSurfaceInv, DecompiledIsOneSurface, ok
<1> QED
  BY <1>1, OneSurfaceInvCorrect, PTL
-----------------------------------------------------------------------------
(* Paths: prefixes, and what is left of a path behind one.                  *)

\* A prefix is element by element the beginning of the other path.
LEMMA PrefixMeaning ==
    ASSUME NEW p \in Paths, NEW q \in Paths
    PROVE  IsPrefix(p, q) <=> Len(p) <= Len(q) /\ \A i \in 1..Len(p) : p[i] = q[i]
<1>0. Len(p) \in Nat /\ Len(q) \in Nat
  BY DEF Paths
<1>1. CASE Len(p) <= Len(q)
  <2>1. /\ SubSeq(p, 1, Len(p)) \in Paths /\ SubSeq(q, 1, Len(p)) \in Paths
        /\ Len(SubSeq(p, 1, Len(p))) = Len(p) /\ Len(SubSeq(q, 1, Len(p))) = Len(p)
        /\ \A i \in 1..Len(p) : SubSeq(p, 1, Len(p))[i] = p[i]
        /\ \A i \in 1..Len(p) : SubSeq(q, 1, Len(p))[i] = q[i]
    BY <1>0, <1>1 DEF Paths
  <2>2. SubSeq(p, 1, Len(p)) = SubSeq(q, 1, Len(p)) <=> \A i \in 1..Len(p) : p[i] = q[i]
    <3> PICK a \in Paths, b \in Paths :
            /\ a = SubSeq(p, 1, Len(p)) /\ b = SubSeq(q, 1, Len(p))
            /\ Len(a) = Len(p) /\ Len(b) = Len(p)
            /\ \A i \in 1..Len(p) : a[i] = p[i] /\ b[i] = q[i]
      BY <2>1
    <3>1. a = b <=> \A i \in 1..Len(p) : a[i] = b[i]
      BY SeqEqual DEF Paths
    <3> QED BY <3>1
  <2> QED BY <1>1, <2>2 DEF IsPrefix
<1>2. CASE ~ (Len(p) <= Len(q))
  BY <1>2 DEF IsPrefix
<1> QED BY <1>1, <1>2

\* The rest of a path behind its prefix is what was put behind it.
LEMMA RestMeaning ==
    ASSUME NEW p \in Paths, NEW q \in Paths
    PROVE  /\ p \o q \in Paths /\ IsPrefix(p, p \o q) /\ Rest(p, p \o q) = q
           /\ IsPrefix(p, q) => Rest(p, q) \in Paths /\ q = p \o Rest(p, q)
<1>0. Len(p) \in Nat /\ Len(q) \in Nat
  BY DEF Paths
<1>1. /\ p \o q \in Paths /\ Len(p \o q) = Len(p) + Len(q)
      /\ \A i \in 1..Len(p) : (p \o q)[i] = p[i]
      /\ \A i \in 1..Len(q) : (p \o q)[Len(p) + i] = q[i]
  BY <1>0 DEF Paths
<1>2. IsPrefix(p, p \o q)
  <2> PICK r \in Paths : r = p \o q
    BY <1>1
  <2>1. Len(p) <= Len(r) /\ \A i \in 1..Len(p) : p[i] = r[i]
    BY <1>0, <1>1
  <2>2. IsPrefix(p, r)
    BY <2>1, PrefixMeaning
  <2> QED BY <2>2
<1>3. Rest(p, p \o q) = q
  <2> PICK r \in Paths : r = p \o q
    BY <1>1
  <2>1. /\ Len(r) = Len(p) + Len(q)
        /\ \A i \in 1..Len(q) : r[Len(p) + i] = q[i]
    BY <1>1
  <2>2. /\ SubSeq(r, Len(p) + 1, Len(r)) \in Paths
        /\ Len(SubSeq(r, Len(p) + 1, Len(r))) = Len(q)
        /\ \A i \in 1..Len(q) : SubSeq(r, Len(p) + 1, Len(r))[i] = r[Len(p) + i]
    BY <1>0, <2>1 DEF Paths
  <2> PICK t \in Paths : t = SubSeq(r, Len(p) + 1, Len(r))
    BY <2>2
  <2>3. t = q
    BY <2>1, <2>2, SeqEqual DEF Paths
  <2> QED BY <2>3 DEF Rest
<1>4. ASSUME IsPrefix(p, q)
      PROVE  Rest(p, q) \in Paths /\ q = p \o Rest(p, q)
  <2>1. Len(p) <= Len(q) /\ \A i \in 1..Len(p) : p[i] = q[i]
    BY <1>4, PrefixMeaning
  <2>2. /\ SubSeq(q, Len(p) + 1, Len(q)) \in Paths
        /\ Len(SubSeq(q, Len(p) + 1, Len(q))) = Len(q) - Len(p)
        /\ \A i \in 1..(Len(q) - Len(p)) : SubSeq(q, Len(p) + 1, Len(q))[i] = q[Len(p) + i]
    BY <1>0, <2>1 DEF Paths
  <2> PICK t \in Paths : t = SubSeq(q, Len(p) + 1, Len(q))
    BY <2>2
  <2>3. /\ p \o t \in Paths /\ Len(p \o t) = Len(q)
        /\ \A i \in 1..Len(p) : (p \o t)[i] = p[i]
        /\ \A i \in 1..(Len(q) - Len(p)) : (p \o t)[Len(p) + i] = t[i]
    BY <1>0, <2>1, <2>2 DEF Paths
  <2> PICK u \in Paths : u = p \o t
    BY <2>3
  <2>4. ASSUME NEW i \in 1..Len(q) PROVE u[i] = q[i]
    <3>1. CASE i <= Len(p)
      BY <1>0, <2>1, <2>3, <3>1
    <3>2. CASE i > Len(p)
      <4>1. i - Len(p) \in 1..(Len(q) - Len(p)) /\ i = Len(p) + (i - Len(p))
        BY <1>0, <2>1, <3>2
      <4> QED BY <2>2, <2>3, <4>1
    <3> QED BY <1>0, <3>1, <3>2
  <2>5. u = q
    BY <2>3, <2>4, SeqEqual DEF Paths
  <2> QED BY <2>5 DEF Rest
<1> QED BY <1>1, <1>2, <1>3, <1>4

\* Two prefixes of one path are prefixes of each other, and prefixes of prefixes are
\* prefixes.
LEMMA PrefixOrder ==
    ASSUME NEW p \in Paths, NEW q \in Paths, NEW r \in Paths
    PROVE  /\ IsPrefix(p, p) /\ <<>> \in Paths /\ IsPrefix(<<>>, p)
           /\ IsPrefix(p, q) /\ IsPrefix(q, r) => IsPrefix(p, r)
           /\ IsPrefix(p, r) /\ IsPrefix(q, r) => IsPrefix(p, q) \/ IsPrefix(q, p)
           /\ IsPrefix(p, q) /\ IsPrefix(q, p) => p = q
<1>0. Len(p) \in Nat /\ Len(q) \in Nat /\ Len(r) \in Nat
  BY DEF Paths
<1>1. PICK e \in Paths : e = <<>> /\ Len(e) = 0
  BY EmptySeq DEF Paths
<1>2. IsPrefix(p, p) /\ IsPrefix(e, p)
  BY <1>0, <1>1, PrefixMeaning
<1>3. IsPrefix(p, q) /\ IsPrefix(q, r) => IsPrefix(p, r)
  BY <1>0, PrefixMeaning
<1>4. IsPrefix(p, r) /\ IsPrefix(q, r) => IsPrefix(p, q) \/ IsPrefix(q, p)
  BY <1>0, PrefixMeaning
<1>5. ASSUME IsPrefix(p, q), IsPrefix(q, p) PROVE p = q
  <2>1. Len(p) = Len(q) /\ \A i \in 1..Len(p) : p[i] = q[i]
    BY <1>0, <1>5, PrefixMeaning
  <2> QED BY <2>1, SeqEqual DEF Paths
<1> QED BY <1>1, <1>2, <1>3, <1>4, <1>5

\* The containers of a path are its prefixes but itself; the last one is its parent.
LEMMA ContainersMeaning ==
    ASSUME NEW path \in Paths
    PROVE  /\ Containers(path) = {c \in Paths : IsPrefix(c, path) /\ ~IsPrefix(path, c)}
           /\ path # <<>> => Parent(path) \in Containers(path) /\ <<>> \in Containers(path)
           /\ path # <<>> => SubSeq(path, 1, Len(Parent(path)) + 1) = path
<1>0. Len(path) \in Nat /\ (path # <<>> => Len(path) > 0)
  BY EmptySeq DEF Paths
<1>1. ASSUME NEW n \in 0..(Len(path) - 1)
      PROVE  /\ SubSeq(path, 1, n) \in Paths /\ Len(SubSeq(path, 1, n)) = n
             /\ IsPrefix(SubSeq(path, 1, n), path) /\ ~IsPrefix(path, SubSeq(path, 1, n))
  <2>1. /\ SubSeq(path, 1, n) \in Paths /\ Len(SubSeq(path, 1, n)) = n
        /\ \A i \in 1..n : SubSeq(path, 1, n)[i] = path[i]
    BY <1>0 DEF Paths
  <2> PICK c \in Paths : c = SubSeq(path, 1, n)
    BY <2>1
  <2>2. n <= Len(path) /\ ~ (Len(path) <= n)
    BY <1>0
  <2>3. IsPrefix(c, path)
    BY <1>0, <2>1, <2>2, PrefixMeaning
  <2>4. ~IsPrefix(path, c)
    BY <2>1, <2>2, PrefixMeaning
  <2> QED BY <2>1, <2>3, <2>4
<1>2. ASSUME NEW c \in Paths, IsPrefix(c, path), ~IsPrefix(path, c)
      PROVE  Len(c) \in 0..(Len(path) - 1) /\ c = SubSeq(path, 1, Len(c))
  <2>0. Len(c) \in Nat
    BY DEF Paths
  <2>1. Len(c) <= Len(path) /\ \A i \in 1..Len(c) : c[i] = path[i]
    BY <1>2, PrefixMeaning
  <2>2. ASSUME Len(c) = Len(path) PROVE FALSE
    <3>1. Len(path) <= Len(c) /\ \A i \in 1..Len(path) : path[i] = c[i]
      BY <1>0, <2>1, <2>2
    <3> QED BY <1>2, <3>1, PrefixMeaning
  <2>3. /\ SubSeq(path, 1, Len(c)) \in Paths /\ Len(SubSeq(path, 1, Len(c))) = Len(c)
        /\ \A i \in 1..Len(c) : SubSeq(path, 1, Len(c))[i] = path[i]
    BY <1>0, <2>0, <2>1 DEF Paths
  <2> PICK b \in Paths : b = SubSeq(path, 1, Len(c))
    BY <2>3
  <2>4. b = c
    BY <2>1, <2>3, SeqEqual DEF Paths
  <2> QED BY <1>0, <2>0, <2>1, <2>2, <2>4
<1>3. Containers(path) = {c \in Paths : IsPrefix(c, path) /\ ~IsPrefix(path, c)}
  BY <1>1, <1>2 DEF Containers
<1>4. ASSUME path # <<>>
      PROVE  /\ Parent(path) \in Containers(path) /\ <<>> \in Containers(path)
             /\ SubSeq(path, 1, Len(Parent(path)) + 1) = path
  <2>1. Len(path) - 1 \in 0..(Len(path) - 1) /\ 0 \in 0..(Len(path) - 1)
    BY <1>0, <1>4
  <2>2. SubSeq(path, 1, 0) = <<>>
    BY SubSeqEmpty DEF Paths
  <2>3. Len(Parent(path)) + 1 = Len(path)
    <3>1. Len(SubSeq(path, 1, Len(path) - 1)) = Len(path) - 1
      BY <1>1, <2>1
    <3> QED BY <1>0, <3>1 DEF Parent
  <2>4. SubSeq(path, 1, Len(path)) = path
    BY SubSeqFull DEF Paths
  <2> QED BY <2>1, <2>2, <2>3, <2>4 DEF Containers, Parent
<1> QED BY <1>3, <1>4
-----------------------------------------------------------------------------
(* Where a path leads: token by token, by what is there so far.             *)

\* A set of numbers that is not empty has a smallest one.
LEMMA Smallest ==
    ASSUME NEW S \in SUBSET Nat, S # {}
    PROVE  \E x \in S : \A y \in S : x <= y
<1> DEFINE R == {ss \in Nat \X Nat : ss[1] < ss[2]}
<1>1. IsWellFoundedOn(R, Nat)
  BY NatLessThanWellFounded DEF OpToRel
<1>2. PICK x \in S : \A y \in S : ~ (<<y, x>> \in R)
  <2> HIDE DEF R
  <2> QED BY <1>1, WFMin
<1>3. ASSUME NEW y \in S PROVE x <= y
  <2>1. <<y, x>> \in Nat \X Nat /\ x \in Nat /\ y \in Nat
    OBVIOUS
  <2> QED BY <1>2, <2>1
<1> QED BY <1>3

\* Paths that agree so far have the same beginning.
LEMMA SameBeginning ==
    ASSUME NEW a \in Paths, NEW b \in Paths, NEW n \in Nat, n <= Len(a), n <= Len(b),
           \A i \in 1..n : a[i] = b[i]
    PROVE  SubSeq(a, 1, n) = SubSeq(b, 1, n)
<1>0. Len(a) \in Nat /\ Len(b) \in Nat
  BY DEF Paths
<1>1. /\ SubSeq(a, 1, n) \in Paths /\ Len(SubSeq(a, 1, n)) = n
      /\ \A i \in 1..n : SubSeq(a, 1, n)[i] = a[i]
  BY <1>0 DEF Paths
<1>2. /\ SubSeq(b, 1, n) \in Paths /\ Len(SubSeq(b, 1, n)) = n
      /\ \A i \in 1..n : SubSeq(b, 1, n)[i] = b[i]
  BY <1>0 DEF Paths
<1> PICK c \in Paths, d \in Paths :
        /\ c = SubSeq(a, 1, n) /\ d = SubSeq(b, 1, n) /\ Len(c) = n /\ Len(d) = n
        /\ \A i \in 1..n : c[i] = a[i] /\ d[i] = b[i]
  BY <1>1, <1>2
<1>3. c = d
  BY SeqEqual DEF Paths
<1> QED BY <1>3

\* One token of a path that is at the place so far.
Step(tree, at, key) == IF IsArray(tree, at) THEN Atoi[key] ELSE key

LEMMA LeadsStepwise ==
    ASSUME NEW tree, NEW path \in Seq(PathKeys), NEW at
    PROVE  LeadsTo(tree, path, at) <=>
              /\ DOMAIN at = 1..Len(path)
              /\ \A n \in 1..Len(path) : at[n] = Step(tree, SubSeq(at, 1, n - 1), path[n])
<1>1. DOMAIN path = 1..Len(path)
  OBVIOUS
<1> QED BY <1>1 DEF LeadsTo, Step

\* The first tokens of a path, followed to a place.
Follows(tree, path, k, at) ==
    \A n \in 1..k : at[n] = Step(tree, SubSeq(at, 1, n - 1), path[n])

\* One token further.
LEMMA OneFurther ==
    ASSUME NEW tree, NEW path, NEW k \in Nat, NEW T, T \subseteq PathKeys \cup Int,
           NEW at \in [1..k -> T], Follows(tree, path, k, at), Step(tree, at, path[k + 1]) \in T
    PROVE  \E new \in [1..(k + 1) -> T] : Follows(tree, path, k + 1, new)
<1> PICK t \in T : t = Step(tree, at, path[k + 1])
  OBVIOUS
<1> PICK new : new = [i \in 1..(k + 1) |-> IF i <= k THEN at[i] ELSE t]
  OBVIOUS
<1>1. new \in [1..(k + 1) -> T]
  OBVIOUS
<1>2. (\A i \in 1..k : new[i] = at[i]) /\ new[k + 1] = t
  OBVIOUS
<1>3. at \in Paths /\ Len(at) = k
  <2>1. at \in [1..k -> PathKeys \cup Int]
    OBVIOUS
  <2> QED BY <2>1 DEF Paths
<1>4. new \in Paths /\ Len(new) = k + 1
  <2>1. new \in [1..(k + 1) -> PathKeys \cup Int] /\ k + 1 \in Nat
    BY <1>1
  <2> QED BY <2>1 DEF Paths
<1>5. ASSUME NEW n \in 1..(k + 1)
      PROVE  new[n] = Step(tree, SubSeq(new, 1, n - 1), path[n])
  <2> PICK j \in Nat : j = n - 1 /\ j <= k
    OBVIOUS
  <2>1. SubSeq(new, 1, j) = SubSeq(at, 1, j)
    <3>1. \A i \in 1..j : new[i] = at[i]
      BY <1>2
    <3>2. j <= Len(at) /\ j <= Len(new)
      BY <1>3, <1>4
    <3> QED BY <1>3, <1>4, <3>1, <3>2, SameBeginning
  <2>2. CASE n <= k
    <3>1. n \in 1..k
      BY <2>2
    <3>2. at[n] = Step(tree, SubSeq(at, 1, n - 1), path[n])
      BY <3>1 DEF Follows
    <3> QED BY <1>2, <2>1, <3>1, <3>2
  <2>3. CASE n > k
    <3>1. n = k + 1 /\ j = Len(at)
      BY <1>3, <2>3
    <3>2. SubSeq(at, 1, Len(at)) = at
      BY <1>3, SubSeqFull DEF Paths
    <3> QED BY <1>2, <2>1, <3>1, <3>2
  <2> QED BY <2>2, <2>3
<1> QED BY <1>1, <1>5 DEF Follows

\* There is a place for every path.
LEMMA PlaceExists ==
    ASSUME NEW tree, NEW path \in Seq(PathKeys)
    PROVE  LET T == Range(path) \cup {Atoi[key] : key \in Range(path)}
           IN  /\ T \subseteq PathKeys \cup Int
               /\ \E at \in [DOMAIN path -> T] : LeadsTo(tree, path, at)
<1> PICK len \in Nat : len = Len(path) /\ DOMAIN path = 1..len
  OBVIOUS
<1> PICK T : T = Range(path) \cup {Atoi[key] : key \in Range(path)}
  OBVIOUS
<1>1. Range(path) \subseteq PathKeys
  BY DEF Range
<1>2. T \subseteq PathKeys \cup Int
  BY <1>1, SurfaceAssumption
<1>3. ASSUME NEW c, NEW n \in 1..len PROVE Step(tree, c, path[n]) \in T
  <2>1. path[n] \in Range(path)
    BY DEF Range
  <2> QED BY <2>1 DEF Step
<1> DEFINE There(k) == \E at \in [1..k -> T] : Follows(tree, path, k, at)
<1>4. There(0)
  <2> PICK at : at = [i \in 1..0 |-> 0]
    OBVIOUS
  <2>1. at \in [1..0 -> T] /\ Follows(tree, path, 0, at)
    BY DEF Follows
  <2> QED BY <2>1
<1>5. ASSUME NEW k \in Nat, k < len, There(k) PROVE There(k + 1)
  <2>1. PICK at \in [1..k -> T] : Follows(tree, path, k, at)
    BY <1>5
  <2>2. Step(tree, at, path[k + 1]) \in T
    <3> PICK n \in 1..len : n = k + 1
      BY <1>5
    <3> QED BY <1>3
  <2> QED BY <1>2, <2>1, <2>2, OneFurther
<1> HIDE DEF There
<1>6. There(len)
  <2>1. ASSUME ~There(len) PROVE FALSE
    <3> PICK Bad : Bad = {k \in Nat : k <= len /\ ~There(k)}
      OBVIOUS
    <3>1. len \in Bad /\ Bad \in SUBSET Nat
      BY <2>1
    <3>2. PICK x \in Bad : \A y \in Bad : x <= y
      BY <3>1, Smallest
    <3>3. x \in Nat /\ x <= len /\ ~There(x) /\ x # 0
      BY <1>4
    <3> PICK k \in Nat : x = k + 1
      BY <3>3
    <3>4. There(k)
      BY <3>2, <3>3
    <3> QED BY <1>5, <3>3, <3>4
  <2> QED BY <2>1
<1>7. PICK at \in [1..len -> T] : Follows(tree, path, len, at)
  BY <1>6 DEF There
<1>8. LeadsTo(tree, path, at)
  BY <1>7, LeadsStepwise DEF Follows
<1> QED BY <1>2, <1>7, <1>8

\* The place of a path is where it leads.
LEMMA PlaceMeaning ==
    ASSUME NEW tree, NEW path \in Seq(PathKeys)
    PROVE  /\ LeadsTo(tree, path, Located(tree, path))
           /\ Located(tree, path) \in Paths
           /\ path = <<>> => Located(tree, path) = <<>>
<1> PICK T : T = Range(path) \cup {Atoi[key] : key \in Range(path)}
  OBVIOUS
<1>1. T \subseteq PathKeys \cup Int /\ \E at \in [DOMAIN path -> T] : LeadsTo(tree, path, at)
  BY PlaceExists
<1> PICK at : at = Located(tree, path)
  OBVIOUS
<1>2. at \in [DOMAIN path -> T] /\ LeadsTo(tree, path, at)
  BY <1>1 DEF Located
<1>3. at \in Paths
  <2> PICK n \in Nat : n = Len(path) /\ DOMAIN path = 1..n
    OBVIOUS
  <2>1. at \in [1..n -> PathKeys \cup Int]
    BY <1>1, <1>2
  <2> QED BY <2>1 DEF Paths
<1>4. path = <<>> => at = <<>>
  BY <1>2
<1> QED BY <1>2, <1>3, <1>4

\* Where a path leads depends on the containers on the way only.
LEMMA LeadsOn ==
    ASSUME NEW tree, NEW new, NEW path \in Seq(PathKeys), NEW at \in Paths,
           LeadsTo(tree, path, at),
           \A c \in Containers(at) : IsArray(new, c) <=> IsArray(tree, c)
    PROVE  LeadsTo(new, path, at)
<1>1. /\ DOMAIN at = 1..Len(path) /\ Len(path) \in Nat
      /\ \A n \in 1..Len(path) : at[n] = Step(tree, SubSeq(at, 1, n - 1), path[n])
  BY LeadsStepwise
<1>2. Len(at) = Len(path)
  BY <1>1 DEF Paths
<1>3. ASSUME NEW n \in 1..Len(path)
      PROVE  at[n] = Step(new, SubSeq(at, 1, n - 1), path[n])
  <2>1. SubSeq(at, 1, n - 1) \in Containers(at)
    <3> PICK j \in 0..(Len(at) - 1) : j = n - 1
      BY <1>1, <1>2
    <3>1. SubSeq(at, 1, j) \in Containers(at)
      BY DEF Containers
    <3> QED BY <3>1
  <2>2. Step(new, SubSeq(at, 1, n - 1), path[n]) = Step(tree, SubSeq(at, 1, n - 1), path[n])
    BY <2>1 DEF Step
  <2> QED BY <1>1, <2>2
<1> QED BY <1>1, <1>3, LeadsStepwise

\* A path leads to one place.
LEMMA OnePlace ==
    ASSUME NEW tree, NEW path \in Seq(PathKeys), NEW a \in Paths, NEW b \in Paths,
           LeadsTo(tree, path, a), LeadsTo(tree, path, b)
    PROVE  a = b
<1> PICK len \in Nat : len = Len(path)
  OBVIOUS
<1>0. /\ DOMAIN a = 1..len
      /\ \A n \in 1..len : a[n] = Step(tree, SubSeq(a, 1, n - 1), path[n])
  BY LeadsStepwise
<1>1. /\ DOMAIN b = 1..len
      /\ \A n \in 1..len : b[n] = Step(tree, SubSeq(b, 1, n - 1), path[n])
  BY LeadsStepwise
<1>2. Len(a) = len /\ Len(b) = len
  BY <1>0, <1>1 DEF Paths
<1> PICK Bad : Bad = {n \in 1..len : a[n] # b[n]}
  OBVIOUS
<1>3. ASSUME Bad # {} PROVE FALSE
  <2>0. Bad \in SUBSET Nat
    OBVIOUS
  <2>1. PICK x \in Bad : \A y \in Bad : x <= y
    BY <1>3, <2>0, Smallest
  <2>2. x \in 1..len /\ a[x] # b[x] /\ \A i \in 1..(x - 1) : a[i] = b[i]
    BY <2>1
  <2>3. SubSeq(a, 1, x - 1) = SubSeq(b, 1, x - 1)
    <3>1. x - 1 \in Nat /\ x - 1 <= Len(a) /\ x - 1 <= Len(b)
      BY <1>2, <2>2
    <3> QED BY <2>2, <3>1, SameBeginning
  <2> QED BY <1>0, <1>1, <2>2, <2>3
<1>4. \A i \in 1..len : a[i] = b[i]
  BY <1>3
<1> QED BY <1>2, <1>4, SeqEqual DEF Paths

\* A message for its place is the message with another path.
LEMMA PlacedMeaning ==
    ASSUME NEW m, IsMessage(m), m.kind = "updateDataModel", NEW tree, NEW at, at = Placed(tree, m)
    PROVE  /\ at.kind = m.kind /\ at.Value = m.Value /\ at.Remove = m.Remove
           /\ at.Path \in {Relative} \cup Paths
           /\ at.Path = Relative <=> m.Path = Relative
           /\ m.Path = Relative => at = m
           /\ m.Path = <<>> => at.Path = <<>>
           /\ m.Path # Relative => /\ m.Path \in Seq(PathKeys) /\ at.Path \in Paths
                                   /\ at.Path = Located(tree, m.Path)
                                   /\ LeadsTo(tree, m.Path, at.Path)
<1>0. /\ m = [NewUpdateDataModel(m.SurfaceID, m.Path, m.Value) EXCEPT !.version = m.version,
                                                                 !.Remove = m.Remove]
      /\ m.Path \in {Relative} \cup Seq(PathKeys)
  BY DEF IsMessage
<1>1. CASE m.Path = Relative
  <2>1. <<>> # m.Path
    BY <1>1, SurfaceAssumption, EmptySeq DEF Paths
  <2> QED BY <1>1, <2>1 DEF Placed
<1>2. CASE m.Path # Relative
  <2> PICK place : place = Located(tree, m.Path)
    OBVIOUS
  <2>1. /\ m.Path \in Seq(PathKeys) /\ LeadsTo(tree, m.Path, place) /\ place \in Paths
        /\ m.Path = <<>> => place = <<>>
    BY <1>0, <1>2, PlaceMeaning
  <2>2. at = [m EXCEPT !.Path = place]
    BY <1>2 DEF Placed
  <2>3. place # Relative
    BY <2>1, SurfaceAssumption
  <2>4. at.Path = place /\ at.kind = m.kind /\ at.Value = m.Value /\ at.Remove = m.Remove
    <3> PICK version, id, path, value, remove :
            m = [kind |-> "updateDataModel", version |-> version, SurfaceID |-> id, Path |-> path,
                 Value |-> value, Remove |-> remove]
      BY <1>0 DEF NewUpdateDataModel
    <3> QED BY <2>2
  <2> QED BY <1>2, <2>1, <2>3, <2>4
<1> QED BY <1>1, <1>2
-----------------------------------------------------------------------------
(* Trees: what is written and removed, and what is left alone.              *)

LEMMA BelowMeaning ==
    ASSUME NEW tree, IsTree(tree), NEW path \in Paths
    PROVE  /\ DOMAIN tree \subseteq Paths
           /\ Below(tree, path) = {p \in DOMAIN tree : IsPrefix(path, p)}
           /\ \A q \in DOMAIN tree : path \o q \in Paths /\ IsPrefix(path, path \o q)
                                       /\ Rest(path, path \o q) = q
<1>1. DOMAIN tree \subseteq Paths
  BY DEF IsTree, Paths
<1> QED BY <1>1, RestMeaning DEF Below

\* The paths a value has when it is put at a path.
PathsOf(path, value) == {path \o q : q \in DOMAIN value}

LEMMA SetMeaning ==
    ASSUME NEW tree, IsTree(tree), NEW path \in Paths, path # <<>>, NEW value, IsTree(value),
           NEW t, t = setAtPointer(tree, path, value)
    PROVE  /\ IsTree(t)
           /\ Below(t, path) = PathsOf(path, value)
           /\ \A q \in DOMAIN value : t[path \o q] = value[q]
           /\ \A c \in Containers(path) :
                 /\ c \in DOMAIN t
                 /\ t[c] = IF c \in DOMAIN tree => tree[c] = "null" THEN "object" ELSE tree[c]
           /\ \A p \in Paths : ~IsPrefix(path, p) /\ p \notin Containers(path) =>
                 /\ p \in DOMAIN t <=> p \in DOMAIN tree
                 /\ t[p] = tree[p] \/ p \notin DOMAIN tree
<1> DEFINE Written == {path \o q : q \in DOMAIN value}
           D == (DOMAIN tree \ Below(tree, path)) \cup Containers(path) \cup Written
<1>1. /\ DOMAIN t = D
      /\ t = [p \in D |-> t[p]]
      /\ \A p \in D : t[p] = IF IsPrefix(path, p) THEN value[Rest(path, p)]
                             ELSE IF p \in Containers(path) /\ (p \in DOMAIN tree => tree[p] = "null")
                                  THEN "object" ELSE tree[p]
  BY DEF setAtPointer
<1>2. /\ DOMAIN tree \subseteq Paths /\ Below(tree, path) = {p \in DOMAIN tree : IsPrefix(path, p)}
      /\ \A q \in DOMAIN value : path \o q \in Paths /\ IsPrefix(path, path \o q)
                                   /\ Rest(path, path \o q) = q
  BY BelowMeaning
<1>3. /\ \A c \in Containers(path) : c \in Paths /\ ~IsPrefix(path, c)
      /\ <<>> \in Containers(path)
  BY ContainersMeaning
<1>4. Written \subseteq Paths /\ \A p \in Written : IsPrefix(path, p)
  BY <1>2
<1>5. D \subseteq Paths /\ <<>> \in D
  BY <1>2, <1>3, <1>4
<1>6. IsTree(t)
  BY <1>1, <1>5 DEF IsTree, Paths
<1>7. Below(t, path) = PathsOf(path, value)
  <2>1. Below(t, path) = {p \in D : IsPrefix(path, p)}
    BY <1>1 DEF Below
  <2>2. Below(t, path) = Written
    BY <2>1, <1>2, <1>3, <1>4
  <2> QED BY <2>2 DEF PathsOf
<1>8. \A q \in DOMAIN value : t[path \o q] = value[q]
  <2> TAKE q \in DOMAIN value
  <2>1. path \o q \in D
    OBVIOUS
  <2> HIDE DEF D
  <2> QED BY <1>1, <1>2, <2>1
<1>9. ASSUME NEW c \in Containers(path)
      PROVE  /\ c \in DOMAIN t
             /\ t[c] = IF c \in DOMAIN tree => tree[c] = "null" THEN "object" ELSE tree[c]
  <2>1. c \in D
    BY <1>9
  <2> HIDE DEF D
  <2> QED BY <1>1, <1>3, <1>9, <2>1
<1>10. ASSUME NEW p \in Paths, ~IsPrefix(path, p), p \notin Containers(path)
       PROVE  /\ p \in DOMAIN t <=> p \in DOMAIN tree
              /\ t[p] = tree[p] \/ p \notin DOMAIN tree
  <2>1. p \in D <=> p \in DOMAIN tree
    BY <1>2, <1>4, <1>10
  <2> HIDE DEF D
  <2> QED BY <1>1, <1>10, <2>1
<1> QED BY <1>6, <1>7, <1>8, <1>9, <1>10

\* Removing what is there leaves at most a null in an array, and the rest as it was.
LEMMA RemoveMeaning ==
    ASSUME NEW tree, IsTree(tree), NEW path \in Paths, path # <<>>, DescendsOnly(tree, path),
           NEW t, t = removeAtPointer(tree, path)
    PROVE  /\ IsTree(t)
           /\ DOMAIN t \subseteq DOMAIN tree
           /\ \A p \in Below(t, path) : p = path /\ IsElement(t, p) /\ t[p] = "null"
           /\ \A p \in Paths : ~IsPrefix(path, p) =>
                 /\ p \in DOMAIN t <=> p \in DOMAIN tree
                 /\ t[p] = tree[p] \/ p \notin DOMAIN tree
<1>1. \A c \in Containers(path) : /\ c \in DOMAIN tree /\ tree[c] # "null"
                                  /\ tree[c] = "array" => SubSeq(path, 1, Len(c) + 1) \in DOMAIN tree
  BY DEF DescendsOnly
<1>2. /\ Parent(path) \in Containers(path) /\ <<>> \in Containers(path)
      /\ SubSeq(path, 1, Len(Parent(path)) + 1) = path
      /\ \A c \in Containers(path) : c \in Paths /\ ~IsPrefix(path, c)
  BY ContainersMeaning
<1>3. DOMAIN tree \subseteq Paths
  BY BelowMeaning
<1>4. CASE IsElement(tree, path)
  <2>1. t = setAtPointer(tree, path, Scalar("null"))
    BY <1>4 DEF removeAtPointer
  <2> PICK value : value = Scalar("null")
    OBVIOUS
  <2>2. <<>> \in Paths /\ path \o <<>> = path
    BY PrefixOrder, ConcatEmptySeq DEF Paths
  <2>3. value = [p \in {<<>>} |-> "null"]
    BY DEF Scalar
  <2>4. DOMAIN value = {<<>>} /\ value[<<>>] = "null"
    BY <2>3
  <2>5. IsTree(value)
    BY <2>2, <2>3, <2>4 DEF IsTree, Paths
  <2>6. /\ IsTree(t)
        /\ Below(t, path) = PathsOf(path, value)
        /\ \A q \in DOMAIN value : t[path \o q] = value[q]
        /\ \A c \in Containers(path) :
              /\ c \in DOMAIN t
              /\ t[c] = IF c \in DOMAIN tree => tree[c] = "null" THEN "object" ELSE tree[c]
        /\ \A p \in Paths : ~IsPrefix(path, p) /\ p \notin Containers(path) =>
              /\ p \in DOMAIN t <=> p \in DOMAIN tree
              /\ t[p] = tree[p] \/ p \notin DOMAIN tree
    BY <2>1, <2>5, SetMeaning
  <2>7. Below(t, path) = {path} /\ t[path] = "null"
    <3>1. \A x : x \in Below(t, path) <=> x = path
      BY <2>2, <2>4, <2>6 DEF PathsOf
    <3>2. t[path \o <<>>] = "null"
      BY <2>4, <2>6
    <3> QED BY <2>2, <2>6, <3>1, <3>2
  <2>8. IsElement(t, path)
    BY <1>1, <1>2, <1>4, <2>6 DEF IsElement, IsArray
  <2>9. path \in DOMAIN tree
    BY <1>1, <1>2, <1>4 DEF IsElement, IsArray
  <2>10. ASSUME NEW p \in Paths, ~IsPrefix(path, p)
         PROVE  /\ p \in DOMAIN t <=> p \in DOMAIN tree
                /\ t[p] = tree[p] \/ p \notin DOMAIN tree
    BY <1>1, <2>6, <2>10
  <2>11. DOMAIN t \subseteq DOMAIN tree
    <3> SUFFICES ASSUME NEW p \in DOMAIN t PROVE p \in DOMAIN tree
      OBVIOUS
    <3>1. p \in Paths
      BY <2>6 DEF IsTree, Paths
    <3>2. IsPrefix(path, p) => p = path
      BY <2>7 DEF Below
    <3> QED BY <2>9, <2>10, <3>1, <3>2
  <2> QED BY <2>6, <2>7, <2>8, <2>10, <2>11
<1>5. CASE ~IsElement(tree, path)
  <2> DEFINE D == DOMAIN tree \ Below(tree, path)
  <2>1. t = [p \in D |-> tree[p]]
    BY <1>5 DEF removeAtPointer
  <2>2. D = {p \in DOMAIN tree : ~IsPrefix(path, p)}
    BY DEF Below
  <2> HIDE DEF D
  <2>3. DOMAIN t = D /\ \A p \in D : t[p] = tree[p]
    BY <2>1
  <2>4. <<>> \in D
    BY <1>1, <1>2, <2>2
  <2>5. IsTree(t)
    <3>1. D \subseteq Paths
      BY <1>3, <2>2
    <3> QED BY <2>1, <2>3, <2>4, <3>1 DEF IsTree
  <2>6. Below(t, path) = {}
    BY <2>2, <2>3 DEF Below
  <2> QED BY <2>2, <2>3, <2>5, <2>6
<1> QED BY <1>4, <1>5

\* What a message does to a data model leaves the paths that do not overlap its own,
\* and above it the arrays as they are and no others.
Spares(model, new, path) ==
    /\ \A p \in Paths : ~Overlap(path, p) =>
          /\ p \in DOMAIN new <=> p \in DOMAIN model
          /\ p \in DOMAIN model => new[p] = model[p]
    /\ \A p \in Paths : ~IsPrefix(path, p) => (IsArray(new, p) <=> IsArray(model, p))

\* A message that is spared by a later one is still shown.
LEMMA SparedStillShows ==
    ASSUME NEW model, NEW new, DOMAIN model \subseteq Paths, DOMAIN new \subseteq Paths,
           NEW path \in Paths, Spares(model, new, path),
           NEW m, m.Path \in Paths, IsTree(m.Value), ~Overlap(path, m.Path), Shows(model, m)
    PROVE  Shows(new, m)
<1>1. ASSUME NEW p \in Paths, IsPrefix(m.Path, p)
      PROVE  /\ p \in DOMAIN new <=> p \in DOMAIN model
             /\ p \in DOMAIN model => new[p] = model[p]
  <2>1. ~Overlap(path, p)
    BY <1>1, PrefixOrder DEF Overlap
  <2> QED BY <2>1 DEF Spares
<1>2. Below(new, m.Path) = Below(model, m.Path)
  BY <1>1 DEF Below
<1>3. CASE m.Remove
  <2> SUFFICES ASSUME NEW p \in Below(new, m.Path)
               PROVE  p = m.Path /\ IsElement(new, p) /\ new[p] = "null"
    BY <1>3 DEF Shows
  <2>1. p = m.Path /\ IsElement(model, p) /\ model[p] = "null"
    BY <1>2, <1>3 DEF Shows
  <2>2. p \in Paths /\ IsPrefix(m.Path, p) /\ p \in DOMAIN model
    BY <1>2 DEF Below
  <2>3. new[p] = "null"
    BY <1>1, <2>1, <2>2
  <2>4. Parent(p) \in Paths /\ ~IsPrefix(path, Parent(p))
    <3>1. Parent(p) \in Paths /\ IsPrefix(Parent(p), p)
      BY <2>1, <2>2, ContainersMeaning DEF IsElement
    <3> QED BY <2>1, <3>1, PrefixOrder DEF Overlap
  <2>5. IsElement(new, p)
    BY <2>1, <2>4 DEF IsElement, Spares
  <2> QED BY <2>1, <2>3, <2>5
<1>4. CASE ~m.Remove
  <2>1. /\ Below(model, m.Path) = {m.Path \o q : q \in DOMAIN m.Value}
        /\ \A q \in DOMAIN m.Value : model[m.Path \o q] = m.Value[q]
    BY <1>4 DEF Shows
  <2>2. ASSUME NEW q \in DOMAIN m.Value PROVE new[m.Path \o q] = m.Value[q]
    <3>1. m.Path \o q \in Below(model, m.Path)
      BY <2>1
    <3>2. m.Path \o q \in Paths /\ IsPrefix(m.Path, m.Path \o q) /\ m.Path \o q \in DOMAIN model
      BY <3>1 DEF Below
    <3> QED BY <1>1, <2>1, <3>2
  <2> QED BY <1>2, <1>4, <2>1, <2>2 DEF Shows
<1> QED BY <1>3, <1>4

\* A nil map has no paths.
LEMMA NothingBelowNoData ==
    /\ DOMAIN NoData = {}
    /\ \A path : Below(NoData, path) = {}
BY DEF NoData, Below

\* An empty map that stands for a nil one adds nothing but the root.
LEMMA ModelPaths ==
    ASSUME NEW model, IsModel(model)
    PROVE  /\ DOMAIN model \subseteq Paths
           /\ IsTree(OrEmpty(model)) /\ OrEmpty(model)[<<>>] = "object"
           /\ \A p \in Paths : p # <<>> =>
                 /\ p \in DOMAIN OrEmpty(model) <=> p \in DOMAIN model
                 /\ OrEmpty(model)[p] = model[p] \/ p \notin DOMAIN model
           /\ model # NoData => IsTree(model) /\ model[<<>>] = "object" /\ OrEmpty(model) = model
<1>1. DOMAIN NoData = {}
  BY NothingBelowNoData
<1>2. <<>> \in Paths
  BY EmptySeq DEF Paths
<1>3. IsTree(Object) /\ Object[<<>>] = "object" /\ DOMAIN Object = {<<>>}
  BY <1>2 DEF Object, Scalar, IsTree
<1>4. CASE model = NoData
  BY <1>1, <1>3, <1>4 DEF OrEmpty, Paths
<1>5. CASE model # NoData
  BY <1>5 DEF OrEmpty, IsModel, IsTree
<1> QED BY <1>4, <1>5

\* A null is a tree.
LEMMA NullTree == IsTree(Scalar("null")) /\ Generic(Scalar("null")) = Scalar("null")
<1>1. <<>> \in Paths
  BY EmptySeq DEF Paths
<1> PICK n : n = [p \in {<<>>} |-> "null"]
  OBVIOUS
<1>2. n = Scalar("null") /\ DOMAIN n = {<<>>} /\ n[<<>>] = "null"
  BY DEF Scalar
<1>3. Generic(n) = n
  BY <1>2 DEF Generic, JSONKind
<1> QED BY <1>1, <1>2, <1>3 DEF IsTree

\* Decoding changes the types of values and not where they are, nor what the containers
\* of JSON and its nulls are.
LEMMA GenericTree ==
    ASSUME NEW tree, IsTree(tree), NEW g, g = Generic(tree)
    PROVE  /\ IsTree(g) /\ DOMAIN g = DOMAIN tree
           /\ \A p \in DOMAIN tree :
                 /\ g[p] = JSONKind(tree[p])
                 /\ tree[p] \in {"object", "array", "null"} => g[p] = tree[p]
                 /\ g[p] = "null" => tree[p] = "null"
<1>1. DOMAIN g = DOMAIN tree /\ \A p \in DOMAIN tree : g[p] = JSONKind(tree[p])
  BY DEF Generic
<1>2. g = [p \in DOMAIN g |-> g[p]]
  BY DEF Generic
<1>3. IsTree(g)
  BY <1>1, <1>2 DEF IsTree
<1> QED BY <1>1, <1>3 DEF JSONKind

\* One message: the model shows it, spares what it does not touch, and got nothing that
\* the message does not write.
LEMMA AppliedShows ==
    ASSUME NEW model, IsModel(model), NEW m, m.kind = "updateDataModel",
           m.Path \in Paths, IsTree(m.Value), m.Remove \in BOOLEAN, ~Refused(model, m),
           NEW new, new = Applied(model, m)
    PROVE  /\ IsModel(new)
           /\ Shows(new, m)
           /\ Spares(model, new, m.Path)
           /\ \A p \in DOMAIN new : p \in DOMAIN model \/ Writes(m, p)
<1> PICK path \in Paths : path = m.Path
  OBVIOUS
<1>0. path # Relative /\ path \in Paths /\ <<>> \in Paths
  BY SurfaceAssumption, EmptySeq DEF Paths
<1>1. CASE path = <<>>
  <2>1. \A p \in Paths : IsPrefix(path, p)
    BY <1>1, PrefixOrder
  <2>2. Spares(model, new, path)
    BY <2>1 DEF Spares, Overlap
  <2>3. CASE m.Remove
    <3>1. new = NoData
      BY <1>1, <2>3 DEF Applied
    <3> QED BY <2>2, <2>3, <3>1, NothingBelowNoData DEF IsModel, Shows
  <2>4. CASE ~m.Remove
    <3>1. new = m.Value /\ new[<<>>] = "object"
      BY <1>0, <1>1, <2>4 DEF Applied, Refused
    <3>2. DOMAIN new \subseteq Paths /\ \A q \in DOMAIN new : path \o q = q /\ Rest(path, q) = q
      <4>1. DOMAIN new \subseteq Paths
        BY <3>1, BelowMeaning
      <4> SUFFICES ASSUME NEW q \in DOMAIN new PROVE path \o q = q /\ Rest(path, q) = q
        BY <4>1
      <4>2. path \o q = q
        BY <1>1, <4>1, ConcatEmptySeq DEF Paths
      <4>3. Rest(path, path \o q) = q
        BY <4>1, RestMeaning
      <4> QED BY <4>2, <4>3
    <3>3. Below(new, path) = DOMAIN new
      BY <2>1, <3>2 DEF Below
    <3>4. Below(new, m.Path) = {m.Path \o q : q \in DOMAIN m.Value}
      BY <3>1, <3>2, <3>3
    <3>5. Shows(new, m)
      BY <2>4, <3>1, <3>2, <3>4 DEF Shows
    <3>6. \A p \in DOMAIN new : Writes(m, p)
      BY <2>1, <2>4, <3>1, <3>2 DEF Writes
    <3> QED BY <2>2, <3>1, <3>5, <3>6 DEF IsModel
  <2> QED BY <2>3, <2>4
<1>2. CASE path # <<>> /\ ~m.Remove
  <2> PICK tree : tree = OrEmpty(model)
    OBVIOUS
  <2>1. /\ DOMAIN model \subseteq Paths /\ IsTree(tree) /\ tree[<<>>] = "object"
        /\ \A p \in Paths : p # <<>> => /\ p \in DOMAIN tree <=> p \in DOMAIN model
                                        /\ tree[p] = model[p] \/ p \notin DOMAIN model
        /\ model # NoData => model = tree
        /\ model = NoData => DOMAIN model = {}
    BY ModelPaths, NothingBelowNoData
  <2>2. new = setAtPointer(tree, path, m.Value)
    BY <1>2 DEF Applied
  <2>3. /\ IsTree(new)
        /\ Below(new, path) = PathsOf(path, m.Value)
        /\ \A q \in DOMAIN m.Value : new[path \o q] = m.Value[q]
        /\ \A c \in Containers(path) :
              /\ c \in DOMAIN new
              /\ new[c] = IF c \in DOMAIN tree => tree[c] = "null" THEN "object" ELSE tree[c]
        /\ \A p \in Paths : ~IsPrefix(path, p) /\ p \notin Containers(path) =>
              /\ p \in DOMAIN new <=> p \in DOMAIN tree
              /\ new[p] = tree[p] \/ p \notin DOMAIN tree
    <3> PICK value : value = m.Value
      OBVIOUS
    <3>1. IsTree(value) /\ new = setAtPointer(tree, path, value)
      BY <2>2
    <3>2. path \in Paths /\ path # <<>> /\ IsTree(tree)
      BY <1>0, <1>2, <2>1
    <3>3. IsTree(new)
      BY <3>1, <3>2, SetMeaning
    <3>4. Below(new, path) = PathsOf(path, value)
      BY <3>1, <3>2, SetMeaning
    <3>5. \A q \in DOMAIN value : new[path \o q] = value[q]
      BY <3>1, <3>2, SetMeaning
    <3>6. \A c \in Containers(path) :
              /\ c \in DOMAIN new
              /\ new[c] = IF c \in DOMAIN tree => tree[c] = "null" THEN "object" ELSE tree[c]
      BY <3>1, <3>2, SetMeaning
    <3>7. \A p \in Paths : ~IsPrefix(path, p) /\ p \notin Containers(path) =>
              /\ p \in DOMAIN new <=> p \in DOMAIN tree
              /\ new[p] = tree[p] \/ p \notin DOMAIN tree
      BY <3>1, <3>2, SetMeaning
    <3> QED BY <3>3, <3>4, <3>5, <3>6, <3>7
  <2>4. /\ <<>> \in Containers(path) /\ <<>> \in DOMAIN tree
        /\ Containers(path) = {c \in Paths : IsPrefix(c, path) /\ ~IsPrefix(path, c)}
    BY <1>0, <1>2, <2>1, ContainersMeaning DEF IsTree
  <2>5. IsModel(new)
    BY <2>1, <2>3, <2>4 DEF IsModel
  <2>6. Shows(new, m)
    <3>1. Below(new, m.Path) = {m.Path \o q : q \in DOMAIN m.Value}
      BY <2>3 DEF PathsOf
    <3> QED BY <1>2, <2>3, <3>1 DEF Shows
  <2>7. Spares(model, new, path)
    <3>1. ASSUME NEW p \in Paths, ~Overlap(path, p)
          PROVE  /\ p \in DOMAIN new <=> p \in DOMAIN model
                 /\ p \in DOMAIN model => new[p] = model[p]
      <4>1. ~IsPrefix(path, p) /\ p \notin Containers(path) /\ p # <<>>
        BY <1>0, <2>4, <3>1, PrefixOrder DEF Overlap
      <4> QED BY <2>1, <2>3, <4>1
    <3>2. ASSUME NEW p \in Paths, ~IsPrefix(path, p)
          PROVE  IsArray(new, p) <=> IsArray(model, p)
      <4>1. IsArray(tree, p) <=> IsArray(model, p)
        BY <2>1 DEF IsArray
      <4>2. IsArray(new, p) <=> IsArray(tree, p)
        <5>1. CASE p \in Containers(path)
          BY <2>3, <5>1 DEF IsArray
        <5>2. CASE p \notin Containers(path)
          BY <2>3, <3>2, <5>2 DEF IsArray
        <5> QED BY <5>1, <5>2
      <4> QED BY <4>1, <4>2
    <3> QED BY <3>1, <3>2 DEF Spares
  <2>8. ASSUME NEW p \in DOMAIN new PROVE p \in DOMAIN model \/ Writes(m, p)
    <3>0. p \in Paths
      BY <2>3 DEF IsTree, Paths
    <3>1. CASE IsPrefix(path, p)
      <4>1. PICK q \in DOMAIN m.Value : p = path \o q
        BY <2>3, <3>1 DEF Below, PathsOf
      <4>2. Rest(path, p) = q
        BY <1>0, <4>1, BelowMeaning
      <4> QED BY <1>2, <3>1, <4>2 DEF Writes
    <3>2. CASE p \in Containers(path)
      BY <1>2, <2>4, <3>2 DEF Writes
    <3>3. CASE ~IsPrefix(path, p) /\ p \notin Containers(path)
      BY <2>1, <2>3, <2>4, <3>0, <3>3
    <3> QED BY <3>1, <3>2, <3>3
  <2> QED BY <2>5, <2>6, <2>7, <2>8
<1>3. CASE path # <<>> /\ m.Remove /\ model = NoData
  <2>1. new = NoData
    BY <1>3 DEF Applied
  <2> QED BY <1>3, <2>1, NothingBelowNoData DEF IsModel, Shows, Spares
<1>4. CASE path # <<>> /\ m.Remove /\ model # NoData
  <2>1. IsTree(model) /\ model[<<>>] = "object" /\ DOMAIN model \subseteq Paths
    BY <1>4, ModelPaths
  <2>2. new = removeAtPointer(model, path) /\ DescendsOnly(model, path)
    BY <1>0, <1>4 DEF Applied, Refused
  <2>3. /\ IsTree(new)
        /\ DOMAIN new \subseteq DOMAIN model
        /\ \A p \in Below(new, path) : p = path /\ IsElement(new, p) /\ new[p] = "null"
        /\ \A p \in Paths : ~IsPrefix(path, p) =>
              /\ p \in DOMAIN new <=> p \in DOMAIN model
              /\ new[p] = model[p] \/ p \notin DOMAIN model
    BY <1>0, <1>4, <2>1, <2>2, RemoveMeaning
  <2>4. <<>> \in DOMAIN model /\ ~IsPrefix(path, <<>>)
    BY <1>0, <1>4, <2>1, PrefixOrder DEF IsTree
  <2>5. IsModel(new)
    BY <1>0, <2>1, <2>3, <2>4 DEF IsModel
  <2>6. Shows(new, m)
    BY <1>4, <2>3 DEF Shows
  <2>7. Spares(model, new, path)
    BY <2>3 DEF Spares, Overlap, IsArray
  <2> QED BY <2>3, <2>5, <2>6, <2>7
<1> QED BY <1>1, <1>2, <1>3, <1>4
-----------------------------------------------------------------------------
(* What is read and what is built from it is made of messages, components  *)
(* and specs.                                                              *)

\* Short tuples put together.
LEMMA Triple ==
    ASSUME NEW x, NEW y, NEW z
    PROVE  /\ <<x, y>> \o <<z>> = <<x, y, z>> /\ <<x, y>> \o <<>> = <<x, y>>
           /\ Len(<<x, y, z>>) = 3 /\ Len(<<x, y>>) = 2
<1>1. <<x, y>> \o <<z>> = <<x, y, z>>
  <2> PICK S : S = {x, y, z}
    OBVIOUS
  <2>1. <<x, y>> \in Seq(S) /\ <<z>> \in Seq(S) /\ <<x, y, z>> \in Seq(S)
    OBVIOUS
  <2> PICK t : t = <<x, y>> \o <<z>>
    OBVIOUS
  <2>2. t \in Seq(S) /\ Len(t) = 3 /\ t[1] = x /\ t[2] = y /\ t[3] = z
    BY <2>1, ConcatProperties
  <2> PICK u : u = <<x, y, z>>
    OBVIOUS
  <2>3. u \in Seq(S) /\ Len(u) = 3 /\ u[1] = x /\ u[2] = y /\ u[3] = z
    BY <2>1
  <2>4. \A i \in 1..3 : t[i] = u[i]
    BY <2>2, <2>3
  <2> QED BY <2>2, <2>3, <2>4, SeqEqual
<1>2. <<x, y>> \o <<>> = <<x, y>>
  OBVIOUS
<1>3. Len(<<x, y, z>>) = 3
  OBVIOUS
<1>4. Len(<<x, y>>) = 2
  OBVIOUS
<1> QED BY <1>1, <1>2, <1>3, <1>4

\* What Compile returns: a surface, its components, and its data unless there are none.
LEMMA CompileShape ==
    ASSUME NEW s, IsSurfaceSpec(s)
    PROVE  LET id == defaultIDs(s).SurfaceID
               catalog == defaultIDs(s).CatalogID
               list == [i \in DOMAIN s.Components |-> componentToWire(s.Components[i])]
           IN  /\ Len(Compile(s)) = IF HasData(s) THEN 3 ELSE 2
               /\ Compile(s)[1] = NewCreateSurface(id, catalog)
               /\ Compile(s)[2] = NewUpdateComponents(id, list)
               /\ HasData(s) => Compile(s)[3] = NewUpdateDataModel(id, <<>>, s.DataModel)
               /\ \E S : Compile(s) \in Seq(S)
<1> PICK d : d = defaultIDs(s)
  OBVIOUS
<1>1. d.Components = s.Components /\ d.DataModel = s.DataModel
  BY DEF defaultIDs, IsSurfaceSpec
<1>2. HasData(d) <=> HasData(s)
  BY <1>1 DEF HasData
<1> PICK create, update, data :
        /\ create = NewCreateSurface(d.SurfaceID, d.CatalogID)
        /\ update = NewUpdateComponents(d.SurfaceID,
                        [i \in DOMAIN d.Components |-> componentToWire(d.Components[i])])
        /\ data = NewUpdateDataModel(d.SurfaceID, <<>>, d.DataModel)
  OBVIOUS
<1>3. Compile(s) = <<create, update>> \o IF HasData(d) THEN <<data>> ELSE <<>>
  BY DEF Compile
<1>4. CASE HasData(s)
  <2>1. Compile(s) = <<create, update>> \o <<data>>
    BY <1>2, <1>3, <1>4
  <2>2. Compile(s) = <<create, update, data>> /\ Len(Compile(s)) = 3
    BY <2>1, Triple
  <2>3. Compile(s)[1] = create /\ Compile(s)[2] = update /\ Compile(s)[3] = data
    BY <2>2
  <2> QED BY <1>1, <1>4, <2>2, <2>3, CompileIsSequence
<1>5. CASE ~HasData(s)
  <2>1. Compile(s) = <<create, update>> \o <<>>
    BY <1>2, <1>3, <1>5
  <2>2. Compile(s) = <<create, update>> /\ Len(Compile(s)) = 2
    BY <2>1, Triple
  <2>3. Compile(s)[1] = create /\ Compile(s)[2] = update
    BY <2>2
  <2> QED BY <1>1, <1>5, <2>2, <2>3, CompileIsSequence
<1> QED BY <1>4, <1>5

\* A component of a spec compiles to a component.
LEMMA CompiledComponent ==
    ASSUME NEW comp, IsComponentSpec(comp)
    PROVE  IsComponent(componentToWire(comp))
<1>1. comp.Children = <<>> \/ StaticChildren(comp.Children) \in ChildList
  BY DEF IsComponentSpec, StaticChildren, ChildList
<1> QED BY <1>1 DEF componentToWire, IsComponent, IsComponentSpec

\* A component decompiles to a component of a spec.
LEMMA DecompiledComponent ==
    ASSUME NEW comp, IsComponent(comp)
    PROVE  IsComponentSpec(specFromWire(comp))
<1>1. comp.Children # None /\ comp.Children.Static # None => comp.Children.Static \in Seq(Strings)
  BY DEF IsComponent, ChildList
<1>2. <<>> \in Seq(Strings)
  BY EmptySeq
<1> QED BY <1>1, <1>2 DEF specFromWire, IsComponent, IsComponentSpec, Strings

\* A list made member by member from another one is a list of the same length.
LEMMA ListOf ==
    ASSUME NEW list, IsList(list), NEW new, new = [i \in DOMAIN list |-> new[i]]
    PROVE  IsList(new) /\ DOMAIN new = DOMAIN list /\ Len(new) = Len(list)
           /\ DOMAIN list = 1..Len(list)
<1> PICK n : n = Len(list)
  OBVIOUS
<1>1. DOMAIN list = 1..n /\ n \in Nat
  BY DEF IsList
<1>2. new = [i \in 1..n |-> new[i]]
  BY <1>1
<1>3. Len(new) = n
  BY <1>1, <1>2
<1> QED BY <1>1, <1>2, <1>3 DEF IsList

\* What Compile returns are messages.
LEMMA CompiledMessages ==
    ASSUME NEW s, IsSurfaceSpec(s)
    PROVE  \A i \in 1..Len(Compile(s)) : IsMessage(Compile(s)[i])
<1> PICK id, catalog, list, stm :
        /\ id = defaultIDs(s).SurfaceID /\ catalog = defaultIDs(s).CatalogID
        /\ list = [i \in DOMAIN s.Components |-> componentToWire(s.Components[i])]
        /\ stm = Compile(s)
  OBVIOUS
<1>1. /\ Len(stm) = IF HasData(s) THEN 3 ELSE 2
      /\ stm[1] = NewCreateSurface(id, catalog)
      /\ stm[2] = NewUpdateComponents(id, list)
      /\ HasData(s) => stm[3] = NewUpdateDataModel(id, <<>>, s.DataModel)
  BY CompileShape
<1>2. IsMessage(NewCreateSurface(id, catalog))
  BY DEF NewCreateSurface, IsMessage
<1>3. IsMessage(NewUpdateComponents(id, list))
  <2>1. IsList(list) /\ DOMAIN list = DOMAIN s.Components
    BY ListOf DEF IsSurfaceSpec
  <2>2. \A i \in DOMAIN list : IsComponent(list[i])
    BY <2>1, CompiledComponent DEF IsSurfaceSpec
  <2> QED BY <2>1, <2>2 DEF NewUpdateComponents, IsMessage
<1>4. HasData(s) => IsMessage(NewUpdateDataModel(id, <<>>, s.DataModel))
  <2>1. HasData(s) => IsTree(s.DataModel)
    BY DEF HasData, IsSurfaceSpec, IsModel
  <2>2. <<>> \in Seq(PathKeys)
    BY EmptySeq
  <2> QED BY <2>1, <2>2 DEF NewUpdateDataModel, IsMessage
<1>5. \A i \in 1..Len(stm) : i = 1 \/ i = 2 \/ (i = 3 /\ HasData(s))
  BY <1>1
<1> QED BY <1>1, <1>2, <1>3, <1>4, <1>5

\* What UnmarshalJSON takes out of the object of a component is a component.
LEMMA ReceivedComponent ==
    ASSUME NEW comp, IsComponent(comp), NEW new, new = DecodeComponent(EncodeComponent(comp))
    PROVE  IsComponent(new)
<1> PICK obj : obj = EncodeComponent(comp)
  OBVIOUS
<1>1. /\ DOMAIN obj = StructuralKeys(comp) \cup DOMAIN comp.Props
      /\ \A name \in DOMAIN obj :
            obj[name] = IF name \in StructuralKeys(comp) THEN StructuralValue(comp, name)
                                                         ELSE comp.Props[name]
  BY DEF EncodeComponent
<1>0. "accessibility" \in DOMAIN obj => obj["accessibility"][2][1] \in Strings
  BY <1>1 DEF StructuralKeys, StructuralValue, IsComponent, IsProperties
<1>2. "child" \in DOMAIN obj => obj["child"][2][1] \in Strings
  BY <1>1 DEF StructuralKeys, StructuralValue, String, IsComponent, IsProperties
<1>3. "children" \in DOMAIN obj => DecodeChildren(obj["children"]) \in ChildList
  <2>1. CASE comp.Children = None
    BY <1>1, <2>1 DEF StructuralKeys, IsComponent, IsProperties
  <2>2. CASE comp.Children # None
    <3>1. obj["children"] = EncodeChildren(comp.Children)
      BY <1>1, <2>2 DEF StructuralKeys, StructuralValue
    <3>2. comp.Children \in ChildList
      BY <2>2 DEF IsComponent
    <3>3. CASE comp.Children.Dynamic # None
      <4>1. comp.Children.Dynamic \in DynamicChildren
        BY <3>2, <3>3 DEF ChildList
      <4>2. EncodeChildren(comp.Children)
              = <<"object", <<comp.Children.Dynamic.componentId, comp.Children.Dynamic.path>>>>
        BY <3>3 DEF EncodeChildren
      <4>3. DecodeChildren(EncodeChildren(comp.Children))
              = [Static |-> None, Dynamic |-> comp.Children.Dynamic]
        BY <4>1, <4>2 DEF DecodeChildren, DynamicChildrenOf, DynamicChildren
      <4> QED BY <3>1, <4>1, <4>3 DEF ChildList
    <3>4. CASE comp.Children.Dynamic = None
      <4> PICK ids : ids = IF comp.Children.Static = None THEN <<>> ELSE comp.Children.Static
        OBVIOUS
      <4>1. ids \in Seq(Strings)
        BY <3>2, EmptySeq DEF ChildList
      <4>2. DecodeChildren(EncodeChildren(comp.Children)) = StaticChildren(ids)
        BY <3>4 DEF DecodeChildren, EncodeChildren, Array
      <4> QED BY <3>1, <4>1, <4>2 DEF ChildList, StaticChildren
    <3> QED BY <3>3, <3>4
  <2> QED BY <2>1, <2>2
<1>4. IsProperties(new.Props)
  <2> PICK props : props = [name \in DOMAIN obj \ Structural |-> obj[name]]
    OBVIOUS
  <2>1. new.Props = props
    BY DEF DecodeComponent
  <2>2. DOMAIN props = DOMAIN obj \ Structural /\ props = [name \in DOMAIN props |-> props[name]]
    OBVIOUS
  <2> QED BY <2>1, <2>2 DEF IsProperties, Structural
<1>5. new = [ID |-> new.ID, Kind |-> new.Kind, Accessibility |-> new.Accessibility,
             Child |-> new.Child, Children |-> new.Children, Props |-> new.Props]
  BY DEF DecodeComponent
<1>7. new.Child \in {None} \cup Strings
  BY <1>2 DEF DecodeComponent
<1>8. new.Children \in {None} \cup ChildList
  BY <1>3 DEF DecodeComponent
<1>9. new.Accessibility \in {None} \cup Strings
  BY <1>0 DEF DecodeComponent
<1> QED BY <1>4, <1>5, <1>7, <1>8, <1>9 DEF IsComponent

\* What arrives over the wire are messages.
LEMMA ReceivedMessage ==
    ASSUME NEW m, IsMessage(m)
    PROVE  IsMessage(Received(m))
<1>1. CASE m.kind = "updateComponents"
  <2> PICK list : list = [i \in DOMAIN m.Components |->
                            DecodeComponent(EncodeComponent(m.Components[i]))]
    OBVIOUS
  <2>0. /\ IsList(m.Components) /\ \A i \in DOMAIN m.Components : IsComponent(m.Components[i])
        /\ m = [NewUpdateComponents(m.SurfaceID, m.Components) EXCEPT !.version = m.version]
    BY <1>1 DEF IsMessage
  <2>1. IsList(list) /\ DOMAIN list = DOMAIN m.Components
    BY <2>0, ListOf
  <2>2. \A i \in DOMAIN list : IsComponent(list[i])
    BY <2>0, <2>1, ReceivedComponent
  <2>3. Received(m) = [m EXCEPT !.Components = list]
    BY <1>1 DEF Received
  <2>4. Received(m) = [NewUpdateComponents(m.SurfaceID, list) EXCEPT !.version = m.version]
    <3>1. m = [kind |-> "updateComponents", version |-> m.version, SurfaceID |-> m.SurfaceID,
               Components |-> m.Components]
      BY <2>0 DEF NewUpdateComponents
    <3> PICK version, id, old : m = [kind |-> "updateComponents", version |-> version,
                                     SurfaceID |-> id, Components |-> old]
      BY <3>1
    <3>2. Received(m) = [kind |-> "updateComponents", version |-> version, SurfaceID |-> id,
                         Components |-> list]
      BY <2>3
    <3>3. m.version = version /\ m.SurfaceID = id
      OBVIOUS
    <3>4. [NewUpdateComponents(id, list) EXCEPT !.version = version]
            = [kind |-> "updateComponents", version |-> version, SurfaceID |-> id,
               Components |-> list]
      <4> PICK v : v = VersionV091
        OBVIOUS
      <4> PICK u : u = [kind |-> "updateComponents", version |-> v, SurfaceID |-> id,
                        Components |-> list]
        OBVIOUS
      <4>1. u = NewUpdateComponents(id, list)
        BY DEF NewUpdateComponents
      <4>2. [u EXCEPT !.version = version]
              = [kind |-> "updateComponents", version |-> version, SurfaceID |-> id,
                 Components |-> list]
        OBVIOUS
      <4> QED BY <4>1, <4>2
    <3> QED BY <3>2, <3>3, <3>4
  <2>5. Received(m).Components = list /\ Received(m).kind = "updateComponents"
        /\ Received(m).SurfaceID = m.SurfaceID /\ Received(m).version = m.version
    BY <2>4 DEF NewUpdateComponents
  <2> QED BY <2>1, <2>2, <2>4, <2>5 DEF IsMessage
<1>2. CASE m.kind = "updateDataModel"
  <2>0. /\ m = [NewUpdateDataModel(m.SurfaceID, m.Path, m.Value) EXCEPT !.version = m.version,
                                                                   !.Remove = m.Remove]
        /\ m.Path \in {Relative} \cup Seq(PathKeys) /\ IsTree(m.Value) /\ m.Remove \in BOOLEAN
    BY <1>2 DEF IsMessage
  <2> PICK remove \in BOOLEAN : remove = (m.Remove /\ m.Path # <<>>)
    OBVIOUS
  <2> PICK value : value = IF m.Remove THEN Scalar("null") ELSE Generic(m.Value)
    OBVIOUS
  <2>1. Received(m) = [m EXCEPT !.Value = value, !.Remove = remove]
    BY <1>2 DEF Received
  <2>2. IsTree(value)
    BY <2>0, GenericTree, NullTree
  <2> PICK version, id, path, old, removes :
          m = [kind |-> "updateDataModel", version |-> version, SurfaceID |-> id, Path |-> path,
               Value |-> old, Remove |-> removes]
    BY <2>0 DEF NewUpdateDataModel
  <2>3. Received(m) = [kind |-> "updateDataModel", version |-> version, SurfaceID |-> id,
                       Path |-> path, Value |-> value, Remove |-> remove]
    BY <2>1
  <2> PICK n : n = Received(m)
    OBVIOUS
  <2>4. /\ n.kind = "updateDataModel" /\ n.Path = m.Path /\ n.Value = value /\ n.Remove = remove
        /\ n = [NewUpdateDataModel(n.SurfaceID, n.Path, n.Value) EXCEPT !.version = n.version,
                                                                   !.Remove = n.Remove]
    <3> PICK v, null : v = VersionV091 /\ null = FALSE
      OBVIOUS
    <3> PICK u : u = [kind |-> "updateDataModel", version |-> v, SurfaceID |-> id, Path |-> path,
                      Value |-> value, Remove |-> null]
      OBVIOUS
    <3>1. u = NewUpdateDataModel(id, path, value)
      BY DEF NewUpdateDataModel
    <3>2. [u EXCEPT !.version = version, !.Remove = remove] = n
      <4>1. u = [kind |-> "updateDataModel", version |-> v, SurfaceID |-> id, Path |-> path,
                 Value |-> value, Remove |-> null]
        OBVIOUS
      <4>2. [u EXCEPT !.version = version, !.Remove = remove]
              = [kind |-> "updateDataModel", version |-> version, SurfaceID |-> id,
                 Path |-> path, Value |-> value, Remove |-> remove]
        <5> PICK w : w = [u EXCEPT !.version = version]
          OBVIOUS
        <5>0. w = [u EXCEPT !.version = version]
          OBVIOUS
        <5>1. w = [kind |-> "updateDataModel", version |-> version, SurfaceID |-> id,
                   Path |-> path, Value |-> value, Remove |-> null]
          BY ONLY <4>1, <5>0
        <5>2. [w EXCEPT !.Remove = remove]
                = [kind |-> "updateDataModel", version |-> version, SurfaceID |-> id,
                   Path |-> path, Value |-> value, Remove |-> remove]
          BY ONLY <5>1
        <5>3. [u EXCEPT !.version = version, !.Remove = remove] = [w EXCEPT !.Remove = remove]
          BY ONLY <5>0
        <5> QED BY <5>2, <5>3
      <4> QED BY <2>3, <4>2
    <3>3. /\ n.kind = "updateDataModel" /\ n.Path = path /\ n.Value = value
          /\ n.Remove = remove /\ n.SurfaceID = id /\ n.version = version
      BY <2>3
    <3>4. m.Path = path
      OBVIOUS
    <3> QED BY <3>1, <3>2, <3>3, <3>4
  <2> QED BY <2>0, <2>2, <2>4 DEF IsMessage
<1>3. CASE m.kind \notin {"updateComponents", "updateDataModel"}
  BY <1>3 DEF Received
<1> QED BY <1>1, <1>2, <1>3

\* Every stream is made of messages, and what is built from it is a spec.
TypedInv == (\A i \in 1..Len(stream) : IsMessage(stream[i])) /\ IsSurfaceSpec(spec)

\* Decompile starts from a spec.
LEMMA EmptySpecIsSurfaceSpec == IsSurfaceSpec(EmptySpec)
<1>1. IsList(EmptySpec.Components)
  <2> PICK e : e = <<>>
    OBVIOUS
  <2>1. Len(e) = 0 /\ e = [i \in 1..0 |-> e[i]]
    OBVIOUS
  <2> QED BY <2>1 DEF EmptySpec, IsList
<1>2. DOMAIN EmptySpec.Components = {}
  BY DEF EmptySpec
<1> QED BY <1>1, <1>2 DEF EmptySpec, IsSurfaceSpec, IsModel

\* What is removed from no model does not matter; a relative path is refused otherwise.
LEMMA AppliedModel ==
    ASSUME NEW model, IsModel(model), NEW m, m.kind = "updateDataModel",
           m.Path \in {Relative} \cup Paths, IsTree(m.Value), m.Remove \in BOOLEAN,
           ~Refused(model, m)
    PROVE  IsModel(Applied(model, m))
<1>1. m.Path \in {Relative} \cup Paths
  OBVIOUS
<1>2. CASE m.Path \in Paths
  BY <1>1, <1>2, AppliedShows
<1>3. CASE m.Path \notin Paths
  <2>1. m.Path # <<>>
    BY <1>3, EmptySeq DEF Paths
  <2> QED BY <1>1, <1>3, <2>1 DEF Refused, Applied, IsModel
<1> QED BY <1>2, <1>3

\* Each message leaves a spec behind it, also one that is refused.
LEMMA ReadKeepsTypes ==
    ASSUME OneSurfaceInv, TypedInv, Read
    PROVE  TypedInv'
<1> PICK m : m = stream[pos + 1]
  OBVIOUS
<1>1. Decompile(m) /\ stream' = stream
  BY DEF Read
<1>2. IsMessage(m)
  <2>1. pos + 1 \in 1..Len(stream)
    BY DEF Read, AtEnd, OneSurfaceInv, IsStream
  <2> QED BY <2>1 DEF TypedInv
<1>3. IsSurfaceSpec(spec)
  BY DEF TypedInv
<1>4. CASE failed \/ failed'
  BY <1>1, <1>3, <1>4 DEF Decompile, decompilerVars, DecompileCreate, DecompileComponents,
                         DecompileData, Fails, TypedInv
<1>5. CASE ~failed /\ ~failed' /\ m.kind = "createSurface"
  <2>1. spec' = [spec EXCEPT !.SurfaceID = m.SurfaceID, !.CatalogID = m.CatalogID]
    BY <1>1, <1>5 DEF Decompile, DecompileCreate, Fails
  <2>2. IsSurfaceSpec(spec')
    BY <1>3, <2>1 DEF IsSurfaceSpec
  <2> QED BY <1>1, <2>2 DEF TypedInv
<1>6. CASE ~failed /\ ~failed' /\ m.kind = "updateComponents"
  <2> PICK list : list = [i \in DOMAIN m.Components |-> specFromWire(m.Components[i])]
    OBVIOUS
  <2>1. spec' = [spec EXCEPT !.Components = list]
    BY <1>1, <1>6 DEF Decompile, DecompileComponents, Fails
  <2>2. IsList(m.Components) /\ \A i \in DOMAIN m.Components : IsComponent(m.Components[i])
    BY <1>2, <1>6 DEF IsMessage
  <2>3. IsList(list) /\ DOMAIN list = DOMAIN m.Components
    BY <2>2, ListOf
  <2>4. \A i \in DOMAIN list : IsComponentSpec(list[i])
    BY <2>2, <2>3, DecompiledComponent
  <2>5. IsSurfaceSpec(spec')
    BY <1>3, <2>1, <2>3, <2>4 DEF IsSurfaceSpec
  <2> QED BY <1>1, <2>5 DEF TypedInv
<1>7. CASE ~failed /\ ~failed' /\ m.kind = "updateDataModel"
  <2> PICK at : at = Placed(spec.DataModel, m)
    OBVIOUS
  <2> PICK model : model = Applied(spec.DataModel, at)
    OBVIOUS
  <2>1. spec' = [spec EXCEPT !.DataModel = model] /\ ~Refused(spec.DataModel, at)
    BY <1>1, <1>7 DEF Decompile, DecompileData, Fails
  <2>4. /\ at.kind = "updateDataModel" /\ at.Path \in {Relative} \cup Paths
        /\ IsTree(at.Value) /\ at.Remove \in BOOLEAN
    <3>1. IsTree(m.Value) /\ m.Remove \in BOOLEAN
      BY <1>2, <1>7 DEF IsMessage
    <3> QED BY <1>2, <1>7, <3>1, PlacedMeaning
  <2>2. IsModel(model)
    BY <1>3, <2>1, <2>4, AppliedModel DEF IsSurfaceSpec
  <2>3. IsSurfaceSpec(spec')
    BY <1>3, <2>1, <2>2 DEF IsSurfaceSpec
  <2> QED BY <1>1, <2>3 DEF TypedInv
<1> QED BY <1>1, <1>4, <1>5, <1>6, <1>7 DEF Decompile, Fails

\* Every stream is made of the messages the readers expect, and what Decompile has
\* built of it so far, after an error too, is a spec.
THEOREM SurfaceTypeCorrect == Spec => []TypedInv
<1>1. Init => TypedInv
  BY EmptySpecIsSurfaceSpec DEF Init, TypedInv
<1>2. OneSurfaceInv /\ TypedInv /\ [Next]_vars => TypedInv'
  <2> SUFFICES ASSUME OneSurfaceInv, TypedInv, [Next]_vars PROVE TypedInv'
    OBVIOUS
  <2>0. \E S : stream \in Seq(S)
    BY DEF OneSurfaceInv, IsStream
  <2>1. ASSUME NEW m \in Wire, Send(m) PROVE TypedInv'
    <3> PICK S : stream \in Seq(S)
      BY <2>0
    <3>1. stream' = Append(stream, m) /\ spec' = spec
      BY <2>1 DEF Send, decompilerVars
    <3>2. stream \in Seq(S \cup {m}) /\ m \in S \cup {m}
      OBVIOUS
    <3>3. /\ Len(stream') = Len(stream) + 1 /\ stream'[Len(stream) + 1] = m
          /\ \A i \in 1..Len(stream) : stream'[i] = stream[i]
          /\ Len(stream) \in Nat
      BY <3>1, <3>2, AppendProperties
    <3>4. IsMessage(m)
      BY MessagesAssumption
    <3>5. \A i \in 1..Len(stream') : i \in 1..Len(stream) \/ i = Len(stream) + 1
      BY <3>3
    <3> QED BY <3>1, <3>3, <3>4, <3>5 DEF TypedInv
  <2>2. ASSUME NEW s \in Specs, CompileSpec(s) PROVE TypedInv'
    <3>1. stream' = Compile(s) /\ spec' = spec /\ IsSurfaceSpec(s)
      BY <2>2, MessagesAssumption DEF CompileSpec, decompilerVars
    <3> QED BY <3>1, CompiledMessages DEF TypedInv
  <2>3. CASE Read
    BY <2>3, ReadKeepsTypes
  <2>4. CASE Deliver
    <3> PICK n : n = Len(stream)
      OBVIOUS
    <3>1. n \in Nat /\ DOMAIN stream = 1..n
      BY <2>0
    <3>2. stream' = [i \in 1..n |-> Received(stream[i])] /\ spec' = EmptySpec
      BY <2>4, <3>1 DEF Deliver, PassOn
    <3>3. Len(stream') = n /\ \A i \in 1..n : stream'[i] = Received(stream[i])
      BY <3>1, <3>2
    <3> QED BY <3>2, <3>3, ReceivedMessage, EmptySpecIsSurfaceSpec DEF TypedInv
  <2>5. CASE Recompile
    <3>1. stream' = Compile(spec) /\ spec' = EmptySpec
      BY <2>5 DEF Recompile, PassOn
    <3> QED BY <3>1, CompiledMessages, EmptySpecIsSurfaceSpec DEF TypedInv
  <2>6. CASE UNCHANGED vars
    BY <2>6 DEF vars, decompilerVars, TypedInv
  <2> QED BY <2>1, <2>2, <2>3, <2>4, <2>5, <2>6 DEF Next
<1> QED BY <1>1, <1>2, OneSurfaceInvCorrect, PTL DEF Spec
-----------------------------------------------------------------------------
(* The last write wins.                                                    *)

\* The messages read, each with the place its path led to.
PlacedInv ==
    /\ (\E S : placed \in Seq(S)) /\ Len(placed) = pos
    /\ \A i \in 1..pos :
          /\ placed[i].kind = stream[i].kind
          /\ Changes(i) => /\ placed[i].Value = stream[i].Value
                           /\ placed[i].Path \in {Relative} \cup Paths
                           /\ placed[i].Path = Relative <=> stream[i].Path = Relative

\* As long as neither reader objects, the model shows what every message that still
\* stands said, where its path leads, and has nothing else.
DataInv ==
    /\ PlacedInv
    /\ valid /\ ~failed =>
          /\ \A i \in 1..pos : Changes(i) => placed[i].Path # Relative
          /\ \A i \in 1..pos : Stands(i) =>
                /\ Shows(spec.DataModel, placed[i])
                /\ LeadsTo(spec.DataModel, stream[i].Path, placed[i].Path)
          /\ \A p \in DOMAIN spec.DataModel : \E i \in 1..pos : Writes(placed[i], p)

\* An empty data model holds nothing.
LEMMA NothingRead ==
    ASSUME pos = 0, spec = EmptySpec, placed = <<>>
    PROVE  DataInv
<1>1. DOMAIN spec.DataModel = {} /\ 1..pos = {}
  BY NothingBelowNoData DEF EmptySpec
<1>2. PlacedInv
  <2>1. placed \in Seq({}) /\ Len(placed) = 0
    BY EmptySeq
  <2> QED BY <1>1, <2>1 DEF PlacedInv
<1> QED BY <1>1, <1>2 DEF DataInv

\* What was read tells the two readers' state.
LEMMA SameRead ==
    ASSUME DataInv, UNCHANGED <<pos, valid, failed, spec, placed>>,
           \A i \in 1..pos : stream'[i] = stream[i], pos \in Nat
    PROVE  DataInv'
<1>1. ASSUME NEW i \in 1..pos PROVE Changes(i)' <=> Changes(i)
  BY DEF Changes
<1>2. ASSUME NEW i \in 1..pos PROVE Stands(i)' <=> Stands(i)
  <2>1. \A j \in (i + 1)..pos : j \in 1..pos
    BY <1>2
  <2> QED BY <1>1, <1>2, <2>1 DEF Stands
<1>3. PlacedInv'
  BY <1>1 DEF DataInv, PlacedInv
<1> QED BY <1>1, <1>2, <1>3 DEF DataInv

\* One more message read is one more placed.
LEMMA ReadPlaces ==
    ASSUME OneSurfaceInv, TypedInv, PlacedInv, Read
    PROVE  PlacedInv' /\ placed'[pos + 1] = Placed(spec.DataModel, stream[pos + 1])
           /\ \A i \in 1..pos : placed'[i] = placed[i]
<1> PICK m, at, n, model : /\ m = stream[pos + 1] /\ at = Placed(model, m) /\ n = pos
                           /\ model = spec.DataModel
  OBVIOUS
<1>1. /\ placed' = Append(placed, at) /\ stream' = stream /\ pos' = n + 1 /\ n \in Nat
      /\ n + 1 \in 1..Len(stream)
  BY DEF Read, AtEnd, OneSurfaceInv, IsStream
<1>2. IsMessage(m)
  BY <1>1 DEF TypedInv
<1> PICK S : placed \in Seq(S)
  BY DEF PlacedInv
<1>3. Len(placed) = n
  BY DEF PlacedInv
<1>4. /\ placed' \in Seq(S \cup {at}) /\ Len(placed') = n + 1 /\ placed'[n + 1] = at
      /\ \A i \in 1..n : placed'[i] = placed[i]
  <2>1. placed \in Seq(S \cup {at}) /\ at \in S \cup {at}
    OBVIOUS
  <2> QED BY <1>1, <1>3, <2>1, AppendProperties
<1>5. /\ at.kind = m.kind
      /\ m.kind = "updateDataModel" => /\ at.Value = m.Value
                                       /\ at.Path \in {Relative} \cup Paths
                                       /\ at.Path = Relative <=> m.Path = Relative
  <2>1. CASE m.kind = "updateDataModel"
    BY <1>2, <2>1, PlacedMeaning
  <2>2. CASE m.kind # "updateDataModel"
    BY <2>2 DEF Placed
  <2> QED BY <2>1, <2>2
<1>6. ASSUME NEW i \in 1..pos'
      PROVE  /\ placed'[i].kind = stream'[i].kind
             /\ Changes(i)' => /\ placed'[i].Value = stream'[i].Value
                               /\ placed'[i].Path \in {Relative} \cup Paths
                               /\ placed'[i].Path = Relative <=> stream'[i].Path = Relative
  <2>1. CASE i = n + 1
    BY <1>1, <1>4, <1>5, <2>1 DEF Changes
  <2>2. CASE i # n + 1
    <3>1. i \in 1..pos /\ placed'[i] = placed[i] /\ stream'[i] = stream[i]
      BY <1>1, <1>4, <2>2
    <3>2. Changes(i)' <=> Changes(i)
      BY <3>1 DEF Changes
    <3> QED BY <3>1, <3>2 DEF PlacedInv
  <2> QED BY <2>1, <2>2
<1>7. PlacedInv'
  <2>1. Len(placed') = pos' /\ \E U : placed' \in Seq(U)
    BY <1>1, <1>4
  <2> QED BY <1>6, <2>1 DEF PlacedInv
<1> QED BY <1>4, <1>7

\* The next message shows, spares what it does not touch, and writes what is new; the
\* paths of the others lead where they did.
LEMMA ReadKeepsData ==
    ASSUME OneSurfaceInv, TypedInv, DataInv, Read
    PROVE  DataInv'
<1>0. /\ PlacedInv /\ PlacedInv' /\ placed'[pos + 1] = Placed(spec.DataModel, stream[pos + 1])
      /\ \A i \in 1..pos : placed'[i] = placed[i]
  BY ReadPlaces DEF DataInv
<1> SUFFICES ASSUME valid', ~failed'
             PROVE  /\ \A i \in 1..pos' : Changes(i)' => placed'[i].Path # Relative
                    /\ \A i \in 1..pos' : Stands(i)' =>
                          /\ Shows(spec'.DataModel, placed'[i])
                          /\ LeadsTo(spec'.DataModel, stream'[i].Path, placed'[i].Path)
                    /\ \A p \in DOMAIN spec'.DataModel : \E i \in 1..pos' : Writes(placed'[i], p)
  BY <1>0 DEF DataInv
<1> PICK model : model = spec.DataModel
  OBVIOUS
<1> PICK m : m = stream[pos + 1]
  OBVIOUS
<1> PICK at : at = Placed(model, m)
  OBVIOUS
<1> PICK next : next = pos + 1
  OBVIOUS
<1>1. /\ Validate(m) /\ Decompile(m) /\ stream' = stream /\ pos' = pos + 1 /\ pos \in Nat
      /\ pos + 1 \in 1..Len(stream)
  BY DEF Read, AtEnd, OneSurfaceInv, IsStream
<1>2. IsMessage(m) /\ IsModel(model)
  BY <1>1 DEF TypedInv, IsSurfaceSpec
<1>3. valid /\ ~failed
  <2>1. valid
    BY <1>1 DEF Validate, trackCreateSurface, trackDeleteSurface, validateOpenSurface
  <2>2. ~failed
    BY <1>1 DEF Decompile, decompilerVars
  <2> QED BY <2>1, <2>2
<1>4. /\ \A i \in 1..pos : Changes(i) => placed[i].Path # Relative
      /\ \A i \in 1..pos : Stands(i) =>
            /\ Shows(model, placed[i])
            /\ LeadsTo(model, stream[i].Path, placed[i].Path)
      /\ \A p \in DOMAIN model : \E i \in 1..pos : Writes(placed[i], p)
  BY <1>3 DEF DataInv
<1>5. /\ \A i \in 1..pos : i \in 1..pos' /\ placed'[i] = placed[i] /\ i # next
      /\ \A i \in 1..pos' : i \in 1..pos \/ i = next
      /\ next \in 1..pos' /\ placed'[next] = at /\ stream'[next] = m
  BY <1>0, <1>1
<1>6. /\ \A i \in 1..pos : Changes(i)' <=> Changes(i)
      /\ Changes(next)' <=> m.kind = "updateDataModel"
  <2>1. at.kind = m.kind
    <3>1. CASE m.kind = "updateDataModel"
      BY <1>2, <3>1, PlacedMeaning
    <3>2. CASE m.kind # "updateDataModel"
      BY <3>2 DEF Placed
    <3> QED BY <3>1, <3>2
  <2> QED BY <1>5, <2>1 DEF Changes
<1>7. ASSUME NEW i \in 1..pos, Stands(i)'
      PROVE  /\ Changes(i) /\ Stands(i)
             /\ m.kind = "updateDataModel" => ~Overlap(placed[i].Path, at.Path)
  <2>1. /\ \A j \in (i + 1)..pos : j \in (i + 1)..pos' /\ j \in 1..pos
        /\ next \in (i + 1)..pos'
    BY <1>1
  <2>2. Changes(i) /\ \A j \in (i + 1)..pos' : Changes(j)' => ~Overlap(placed[i].Path, placed'[j].Path)
    BY <1>5, <1>6, <1>7 DEF Stands
  <2>3. Stands(i)
    BY <1>5, <1>6, <2>1, <2>2 DEF Stands
  <2> QED BY <1>5, <1>6, <2>1, <2>2, <2>3
<1>8. CASE m.kind # "updateDataModel"
  <2>1. spec'.DataModel = model
    BY <1>1, <1>2, <1>3, <1>8 DEF Decompile, DecompileCreate, DecompileComponents, Fails,
                               TypedInv, IsSurfaceSpec
  <2>2. ~Changes(next)' /\ ~Stands(next)'
    BY <1>6, <1>8 DEF Stands
  <2>3. ASSUME NEW i \in 1..pos', Changes(i)' PROVE placed'[i].Path # Relative
    BY <1>4, <1>5, <1>6, <2>2, <2>3
  <2>4. ASSUME NEW i \in 1..pos', Stands(i)'
        PROVE  /\ Shows(spec'.DataModel, placed'[i])
               /\ LeadsTo(spec'.DataModel, stream'[i].Path, placed'[i].Path)
    BY <1>1, <1>4, <1>5, <1>7, <2>1, <2>2, <2>4
  <2>5. \A p \in DOMAIN spec'.DataModel : \E i \in 1..pos' : Writes(placed'[i], p)
    BY <1>4, <1>5, <2>1
  <2> QED BY <2>3, <2>4, <2>5
<1>9. CASE m.kind = "updateDataModel"
  <2> PICK new : new = Applied(model, at)
    OBVIOUS
  <2>1. spec' = [spec EXCEPT !.DataModel = new] /\ ~Refused(model, at)
    BY <1>1, <1>3, <1>9 DEF Decompile, DecompileData, Fails
  <2>2. spec'.DataModel = new
    BY <2>1 DEF TypedInv, IsSurfaceSpec
  <2>3. m.Path # Relative
    BY <1>1, <1>9 DEF Validate, validateOpenSurface
  <2>4. /\ at.kind = "updateDataModel" /\ at.Path \in Paths /\ IsTree(at.Value)
        /\ at.Remove \in BOOLEAN /\ at.Path # Relative
        /\ m.Path \in Seq(PathKeys) /\ LeadsTo(model, m.Path, at.Path)
    <3>1. IsTree(m.Value) /\ m.Remove \in BOOLEAN
      BY <1>2, <1>9 DEF IsMessage
    <3> QED BY <1>2, <1>9, <2>3, <3>1, PlacedMeaning
  <2>5. /\ IsModel(new) /\ Shows(new, at) /\ Spares(model, new, at.Path)
        /\ \A p \in DOMAIN new : p \in DOMAIN model \/ Writes(at, p)
    BY <1>2, <2>1, <2>4, AppliedShows
  <2>6. LeadsTo(new, m.Path, at.Path)
    <3>1. \A c \in Containers(at.Path) : c \in Paths /\ ~IsPrefix(at.Path, c)
      BY <2>4, ContainersMeaning
    <3>2. \A c \in Containers(at.Path) : IsArray(new, c) <=> IsArray(model, c)
      BY <2>5, <3>1 DEF Spares
    <3> QED BY <2>4, <3>2, LeadsOn
  <2>7. ASSUME NEW i \in 1..pos, Stands(i)'
        PROVE  Shows(new, placed[i]) /\ LeadsTo(new, stream[i].Path, placed[i].Path)
    <3> PICK n, old : n = placed[i] /\ old = stream[i]
      OBVIOUS
    <3>1. n.kind = "updateDataModel" /\ n.Path # Relative /\ ~Overlap(n.Path, at.Path)
      BY <1>4, <1>7, <1>9, <2>7 DEF Changes
    <3>2. IsMessage(old) /\ old.kind = "updateDataModel"
      BY <1>0, <1>1, <3>1 DEF TypedInv, PlacedInv
    <3>3. n.Path \in Paths /\ n.Value = old.Value
      BY <1>0, <1>7, <2>7, <3>1 DEF PlacedInv
    <3>4. IsTree(n.Value) /\ old.Path \in {Relative} \cup Seq(PathKeys)
      BY <3>2, <3>3 DEF IsMessage
    <3>5. Shows(model, n) /\ LeadsTo(model, old.Path, n.Path)
      BY <1>4, <1>7, <2>7
    <3>6. DOMAIN model \subseteq Paths /\ DOMAIN new \subseteq Paths
      BY <1>2, <2>5, ModelPaths
    <3>7. ~Overlap(at.Path, n.Path)
      BY <3>1 DEF Overlap
    <3>8. Shows(new, n)
      BY <2>4, <2>5, <3>3, <3>4, <3>5, <3>6, <3>7, SparedStillShows
    <3>9. \A c \in Containers(n.Path) : IsArray(new, c) <=> IsArray(model, c)
      <4>1. \A c \in Containers(n.Path) : c \in Paths /\ IsPrefix(c, n.Path)
        BY <3>3, ContainersMeaning
      <4>2. \A c \in Containers(n.Path) : ~IsPrefix(at.Path, c)
        BY <2>4, <3>3, <3>7, <4>1, PrefixOrder DEF Overlap
      <4> QED BY <2>5, <4>1, <4>2 DEF Spares
    <3>10. old.Path \in Seq(PathKeys)
      BY <1>0, <1>7, <2>7, <3>1, <3>4 DEF PlacedInv
    <3>11. LeadsTo(new, old.Path, n.Path)
      BY <3>3, <3>5, <3>9, <3>10, LeadsOn
    <3> QED BY <3>8, <3>11
  <2>8. \A p \in DOMAIN new : \E i \in 1..pos' : Writes(placed'[i], p)
    BY <1>4, <1>5, <2>5
  <2>9. ASSUME NEW i \in 1..pos', Changes(i)' PROVE placed'[i].Path # Relative
    BY <1>4, <1>5, <1>6, <2>4, <2>9
  <2>10. ASSUME NEW i \in 1..pos', Stands(i)'
         PROVE  /\ Shows(new, placed'[i])
                /\ LeadsTo(new, stream'[i].Path, placed'[i].Path)
    BY <1>1, <1>5, <2>5, <2>6, <2>7, <2>10
  <2> QED BY <2>2, <2>8, <2>9, <2>10
<1> QED BY <1>8, <1>9

\* Whatever is sent, in whatever order: a valid stream decompiles to the data model its
\* messages describe, each path as the last message that touched it left it.
THEOREM LastWriteAlwaysWins == Spec => []LastWriteWins
<1>1. Init => DataInv
  BY NothingRead DEF Init
<1>2. OneSurfaceInv /\ TypedInv /\ DataInv /\ [Next]_vars => DataInv'
  <2> SUFFICES ASSUME OneSurfaceInv, TypedInv, DataInv, [Next]_vars PROVE DataInv'
    OBVIOUS
  <2>0. pos \in Nat /\ pos <= Len(stream) /\ \E S : stream \in Seq(S)
    BY DEF OneSurfaceInv, IsStream
  <2>1. ASSUME NEW m \in Wire, Send(m) PROVE DataInv'
    <3> PICK S : stream \in Seq(S)
      BY <2>0
    <3>1. stream' = Append(stream, m) /\ UNCHANGED <<pos, valid, failed, spec, placed>>
      BY <2>1 DEF Send, validatorVars, decompilerVars
    <3>2. stream \in Seq(S \cup {m}) /\ m \in S \cup {m}
      OBVIOUS
    <3>3. (\A i \in 1..Len(stream) : stream'[i] = stream[i]) /\ Len(stream) \in Nat
      BY <3>1, <3>2, AppendProperties
    <3>4. \A i \in 1..pos : stream'[i] = stream[i]
      BY <2>0, <3>3
    <3> QED BY <2>0, <3>1, <3>4, SameRead
  <2>2. ASSUME NEW s \in Specs, CompileSpec(s) PROVE DataInv'
    <3>1. stream = <<>> /\ UNCHANGED <<pos, valid, failed, spec, placed>>
      BY <2>2 DEF CompileSpec, validatorVars, decompilerVars
    <3>2. 1..pos = {}
      BY <2>0, <3>1
    <3> QED BY <2>0, <3>1, <3>2, SameRead
  <2>3. CASE Read
    BY <2>3, ReadKeepsData
  <2>4. CASE Deliver \/ Recompile
    <3>1. pos' = 0 /\ spec' = EmptySpec /\ placed' = <<>>
      BY <2>4 DEF Deliver, Recompile, PassOn
    <3>2. DOMAIN spec'.DataModel = {} /\ 1..pos' = {}
      BY <3>1, NothingBelowNoData DEF EmptySpec
    <3>3. placed' \in Seq({}) /\ Len(placed') = 0
      BY <3>1, EmptySeq
    <3>4. PlacedInv'
      BY <3>1, <3>2, <3>3 DEF PlacedInv
    <3> QED BY <3>2, <3>4 DEF DataInv
  <2>5. CASE UNCHANGED vars
    BY <2>0, <2>5, SameRead DEF vars, validatorVars, decompilerVars
  <2> QED BY <2>1, <2>2, <2>3, <2>4, <2>5 DEF Next
<1>3. DataInv => LastWriteWins
  BY DEF DataInv, LastWriteWins, ok
<1> QED BY <1>1, <1>2, <1>3, OneSurfaceInvCorrect, SurfaceTypeCorrect, PTL DEF Spec
-----------------------------------------------------------------------------
(* The edit loop.                                                          *)

\* With unique ids, an id stands for its component.
LEMMA ByItsID ==
    ASSUME NEW list, IsList(list), UniqueIDs(list), NEW i \in DOMAIN list
    PROVE  byID(list, list[i].ID) = list[i]
<1> DEFINE P(k) == /\ list[k].ID = list[i].ID
                   /\ \A j \in DOMAIN list : list[j].ID = list[i].ID => k <= j
<1>1. DOMAIN list = 1..Len(list) /\ Len(list) \in Nat
  BY DEF IsList
<1>2. P(i)
  BY <1>1 DEF UniqueIDs
<1>3. PICK k \in DOMAIN list : P(k) /\ byID(list, list[i].ID) = list[k]
  BY <1>2 DEF byID
<1>4. k = i
  BY <1>3 DEF UniqueIDs
<1> QED BY <1>3, <1>4

\* With no more references than another list, a list has no cycle of its own.
LEMMA FewerEdges ==
    ASSUME NEW list, NEW new, Defined(new) = Defined(list),
           \A c, d \in Defined(list) : Edge(new, c, d) => Edge(list, c, d),
           Cyclic(new)
    PROVE  Cyclic(list)
<1>1. PICK S \in SUBSET Reachable(new) : Endless(new, S)
  BY DEF Cyclic
<1>2. S \subseteq Defined(list)
  BY <1>1 DEF Reachable
<1>3. \A T \in SUBSET Defined(list) : Closed(list, T) => Closed(new, T)
  BY DEF Closed
<1>4. Reachable(new) \subseteq Reachable(list)
  BY <1>3 DEF Reachable
<1>5. Endless(list, S)
  BY <1>1, <1>2 DEF Endless
<1> QED BY <1>1, <1>4, <1>5 DEF Cyclic

\* What a list keeps on its way into a spec, onto the wire, or both: the ids, the verdict
\* on each component, and no other references.
Keeps(list, new) ==
    /\ IsList(list) /\ IsList(new) /\ Len(new) = Len(list)
    /\ \A i \in 1..Len(list) :
          /\ new[i].ID = list[i].ID
          /\ ValidComponent(list[i], Defined(list)) =>
                /\ ValidComponent(new[i], Defined(list))
                /\ \A n \in DOMAIN Refs(new[i]) :
                      \E j \in DOMAIN Refs(list[i]) : Refs(list[i])[j] = Refs(new[i])[n]

\* A list that keeps this keeps its validity.
LEMMA StaysValid ==
    ASSUME NEW list, NEW new, Keeps(list, new), ValidComponents(list)
    PROVE  ValidComponents(new)
<1>1. /\ DOMAIN list = 1..Len(list) /\ DOMAIN new = 1..Len(list) /\ Len(list) \in Nat
      /\ \A i \in 1..Len(list) : new[i].ID = list[i].ID
  BY DEF Keeps, IsList
<1>2. Defined(new) = Defined(list)
  BY <1>1 DEF Defined
<1>3. UniqueIDs(list) /\ UniqueIDs(new)
  BY <1>1 DEF ValidComponents, UniqueIDs
<1>4. \A i \in 1..Len(list) : ValidComponent(list[i], Defined(list))
  BY <1>1 DEF ValidComponents
<1>5. \A i \in DOMAIN new : ValidComponent(new[i], Defined(new))
  BY <1>1, <1>2, <1>4 DEF Keeps
<1>6. ASSUME NEW c \in Defined(list), NEW d \in Defined(list), Edge(new, c, d)
      PROVE  Edge(list, c, d)
  <2>1. PICK i \in 1..Len(list) : list[i].ID = c
    BY <1>1, <1>6 DEF Defined
  <2>2. byID(list, c) = list[i] /\ byID(new, c) = new[i]
    BY <1>1, <1>3, <2>1, ByItsID DEF Keeps
  <2>3. PICK n \in DOMAIN Refs(new[i]) : Refs(new[i])[n] = d
    BY <1>6, <2>2 DEF Edge
  <2>4. PICK j \in DOMAIN Refs(list[i]) : Refs(list[i])[j] = d
    BY <1>4, <2>3 DEF Keeps
  <2> QED BY <2>2, <2>4 DEF Edge
<1>7. ~Cyclic(new)
  BY <1>2, <1>6, FewerEdges DEF ValidComponents
<1>8. new # <<>>
  <2>1. list # <<>>
    BY DEF ValidComponents
  <2>2. Len(list) # 0
    <3>1. ASSUME Len(list) = 0 PROVE FALSE
      <4>1. list = [i \in 1..0 |-> list[i]]
        BY <3>1 DEF Keeps, IsList
      <4>2. list = <<>>
        BY <4>1
      <4> QED BY <2>1, <4>2
    <3> QED BY <3>1
  <2> QED BY <2>2 DEF Keeps
<1> QED BY <1>2, <1>3, <1>5, <1>7, <1>8 DEF ValidComponents

Wired(list) == [i \in DOMAIN list |-> componentToWire(list[i])]
Unwired(list) == [i \in DOMAIN list |-> specFromWire(list[i])]

\* A component of a spec is the same after it was compiled and decompiled.
LEMMA SpecComponentAgain ==
    ASSUME NEW comp, IsComponentSpec(comp)
    PROVE  specFromWire(componentToWire(comp)) = comp
<1> PICK wire : wire = componentToWire(comp)
  OBVIOUS
<1>1. /\ wire.ID = comp.ID /\ wire.Kind = comp.Kind /\ wire.Props = comp.Properties
      /\ wire.Accessibility = comp.Accessibility
      /\ wire.Child = IF comp.Child = Empty THEN None ELSE comp.Child
      /\ wire.Children = IF comp.Children = <<>> THEN None ELSE StaticChildren(comp.Children)
  BY DEF componentToWire
<1>2. comp.Child \in Strings /\ comp.Children \in Seq(Strings)
  BY DEF IsComponentSpec
<1>3. (IF wire.Child = None THEN Empty ELSE wire.Child) = comp.Child
  BY <1>1, <1>2, ComponentsAssumption DEF Strings
<1>4. (IF wire.Children = None THEN <<>>
       ELSE IF wire.Children.Static = None THEN <<>> ELSE wire.Children.Static) = comp.Children
  <2>1. CASE comp.Children = <<>>
    BY <1>1, <2>1
  <2>2. CASE comp.Children # <<>>
    <3>1. wire.Children = StaticChildren(comp.Children) /\ wire.Children.Static = comp.Children
      BY <1>1, <2>2 DEF StaticChildren
    <3>2. wire.Children \in ChildList
      BY <1>2, <3>1 DEF StaticChildren, ChildList
    <3> QED BY <1>2, <3>1, <3>2, SurfaceAssumption
  <2> QED BY <2>1, <2>2
<1>5. specFromWire(wire) = [ID |-> comp.ID, Kind |-> comp.Kind,
                            Accessibility |-> comp.Accessibility,
                            Properties |-> comp.Properties,
                            Child |-> comp.Child, Children |-> comp.Children]
  BY <1>1, <1>3, <1>4 DEF specFromWire
<1> QED BY <1>5 DEF IsComponentSpec

\* A valid component that is not dynamic is judged the same, and has the same references, after
\* it was decompiled and compiled.
LEMMA WireComponentAgain ==
    ASSUME NEW comp, IsComponent(comp), ~IsDynamic(comp), NEW ids, Empty \notin ids,
           ValidComponent(comp, ids), NEW new, new = componentToWire(specFromWire(comp))
    PROVE  /\ new.ID = comp.ID
           /\ ValidComponent(new, ids)
           /\ Refs(new) = Refs(comp)
<1>1. /\ new.ID = comp.ID /\ new.Kind = comp.Kind
      /\ new.Child = comp.Child
  BY DEF componentToWire, specFromWire, ValidComponent
<1>2. CASE comp.Children = None
  <2>1. new.Children = None
    BY <1>2 DEF componentToWire, specFromWire
  <2> QED BY <1>1, <1>2, <2>1 DEF ValidComponent, Refs
<1>3. CASE comp.Children # None
  <2>1. /\ comp.Children \in ChildList /\ comp.Children.Dynamic = None
        /\ comp.Children.Static # None
        /\ \A i \in DOMAIN comp.Children.Static : comp.Children.Static[i] \in ids
        /\ comp.Child = None
    BY <1>3 DEF IsDynamic, ValidComponent, ValidChildList, IsComponent
  <2> PICK static : static = comp.Children.Static
    OBVIOUS
  <2>2. new.Children = IF static = <<>> THEN None ELSE StaticChildren(static)
    BY <1>3, <2>1 DEF componentToWire, specFromWire
  <2>3. static # <<>> => /\ new.Children.Static = static /\ new.Children.Dynamic = None
                         /\ new.Children # None
    <3>1. static \in Seq(Strings)
      BY <2>1 DEF ChildList
    <3>2. StaticChildren(static) \in ChildList
      BY <3>1 DEF StaticChildren, ChildList
    <3> QED BY <2>2, <3>2, SurfaceAssumption DEF StaticChildren
  <2>4. ValidComponent(new, ids)
    BY <1>1, <2>1, <2>2, <2>3 DEF ValidComponent, ValidChildList
  <2>5. Refs(new) = Refs(comp)
    BY <1>1, <1>3, <2>1, <2>2, <2>3 DEF Refs
  <2> QED BY <1>1, <2>4, <2>5
<1> QED BY <1>2, <1>3

\* A valid list without dynamic children is valid again once it was decompiled and
\* compiled.
LEMMA ValidAgain ==
    ASSUME NEW list, IsList(list), \A i \in DOMAIN list : IsComponent(list[i]) /\ ~IsDynamic(list[i]),
           ValidComponents(list)
    PROVE  ValidComponents(Wired(Unwired(list)))
<1> PICK decompiled : decompiled = Unwired(list)
  OBVIOUS
<1> PICK new : new = Wired(decompiled)
  OBVIOUS
<1>1. /\ IsList(decompiled) /\ DOMAIN decompiled = 1..Len(list) /\ Len(decompiled) = Len(list)
      /\ DOMAIN list = 1..Len(list)
  <2>1. decompiled = [i \in DOMAIN list |-> decompiled[i]]
    BY DEF Unwired
  <2>2. DOMAIN decompiled = DOMAIN list
    BY DEF Unwired
  <2> QED BY <2>1, <2>2, ListOf
<1>2. IsList(new) /\ DOMAIN new = 1..Len(list) /\ Len(new) = Len(list)
  <2>1. new = [i \in DOMAIN decompiled |-> new[i]]
    BY DEF Wired
  <2>2. DOMAIN new = DOMAIN decompiled
    BY DEF Wired
  <2> QED BY <1>1, <2>1, <2>2, ListOf
<1>3. \A i \in 1..Len(list) : new[i] = componentToWire(specFromWire(list[i]))
  BY <1>1 DEF Wired, Unwired
<1>4. Empty \notin Defined(list)
  BY DEF Defined
<1>5. ASSUME NEW i \in 1..Len(list)
      PROVE  /\ new[i].ID = list[i].ID
             /\ ValidComponent(new[i], Defined(list))
             /\ Refs(new[i]) = Refs(list[i])
  <2>1. IsComponent(list[i]) /\ ~IsDynamic(list[i]) /\ ValidComponent(list[i], Defined(list))
    BY <1>1 DEF ValidComponents
  <2> QED BY <1>3, <1>4, <2>1, WireComponentAgain
<1>6. Keeps(list, new)
  BY <1>2, <1>5 DEF Keeps
<1> QED BY <1>6, StaysValid
\* What is decompiled from a valid stream can be compiled again.
CompiledInv == valid /\ ~failed /\ updated => ValidComponents(Wired(spec.Components))

\* Only updateComponents changes the components, and it is valid in a valid stream.
LEMMA ReadKeepsCompiled ==
    ASSUME OneSurfaceInv, TypedInv, CompiledInv, Read
    PROVE  CompiledInv'
<1> SUFFICES ASSUME valid', ~failed', updated'
             PROVE  ValidComponents(Wired(spec'.Components))
  BY DEF CompiledInv
<1> PICK m : m = stream[pos + 1]
  OBVIOUS
<1>1. Validate(m) /\ Decompile(m) /\ pos + 1 \in 1..Len(stream)
  BY DEF Read, AtEnd, OneSurfaceInv, IsStream
<1>2. IsMessage(m) /\ IsSurfaceSpec(spec)
  BY <1>1 DEF TypedInv
<1>3. valid
  BY <1>1 DEF Validate, trackCreateSurface, trackDeleteSurface, validateOpenSurface
<1>4. ~failed
  BY <1>1 DEF Decompile, decompilerVars
<1>5. CASE m.kind = "updateComponents"
  <2> PICK list : list = m.Components
    OBVIOUS
  <2>1. /\ spec' = [spec EXCEPT !.Components = Unwired(list)]
        /\ \A i \in DOMAIN list : ~IsDynamic(list[i])
    BY <1>1, <1>4, <1>5 DEF Decompile, DecompileComponents, Fails, Unwired
  <2>2. spec'.Components = Unwired(list)
    BY <1>2, <2>1 DEF IsSurfaceSpec
  <2>3. ValidComponents(list)
    BY <1>1, <1>5 DEF Validate, validateOpenSurface
  <2>4. IsList(list) /\ \A i \in DOMAIN list : IsComponent(list[i])
    BY <1>2, <1>5 DEF IsMessage
  <2> QED BY <2>1, <2>2, <2>3, <2>4, ValidAgain
<1>6. CASE m.kind # "updateComponents"
  <2>1. spec'.Components = spec.Components /\ updated
    BY <1>1, <1>2, <1>4, <1>6 DEF Decompile, DecompileCreate, DecompileData, Fails, IsSurfaceSpec
  <2> QED BY <1>3, <1>4, <2>1 DEF CompiledInv
<1> QED BY <1>5, <1>6

\* The components decompiled from a valid stream are valid again once they are compiled.
THEOREM CompiledInvCorrect == Spec => []CompiledInv
<1>1. Init => CompiledInv
  BY DEF Init, CompiledInv
<1>2. OneSurfaceInv /\ TypedInv /\ CompiledInv /\ [Next]_vars => CompiledInv'
  <2> SUFFICES ASSUME OneSurfaceInv, TypedInv, CompiledInv, [Next]_vars PROVE CompiledInv'
    OBVIOUS
  <2>1. CASE Read
    BY <2>1, ReadKeepsCompiled
  <2>2. CASE Deliver \/ Recompile
    BY <2>2 DEF Deliver, Recompile, PassOn, CompiledInv
  <2>3. CASE UNCHANGED <<valid, failed, updated, spec>>
    BY <2>3 DEF CompiledInv
  <2> QED BY <2>1, <2>2, <2>3 DEF Next, Send, CompileSpec, vars, validatorVars, decompilerVars
<1> QED BY <1>1, <1>2, OneSurfaceInvCorrect, SurfaceTypeCorrect, PTL DEF Spec

\* How far the editor, who reads what a spec was compiled to, has got.
Known(s, n) ==
    [SurfaceID |-> IF n >= 1 THEN defaultIDs(s).SurfaceID ELSE Empty,
     CatalogID |-> IF n >= 1 THEN defaultIDs(s).CatalogID ELSE Empty,
     Components |-> IF n >= 2 THEN s.Components ELSE <<>>,
     DataModel |-> IF n >= 3 THEN s.DataModel ELSE NoData]

\* Each of the three messages of a compiled stream adds its part.
LEMMA KnownSteps ==
    ASSUME NEW s
    PROVE  /\ Known(s, 0) = EmptySpec
           /\ Known(s, 2) = [Known(s, 1) EXCEPT !.Components = s.Components]
           /\ Known(s, 3) = [Known(s, 2) EXCEPT !.DataModel = s.DataModel]
<1> PICK id, catalog, list, model, no :
        /\ id = defaultIDs(s).SurfaceID /\ catalog = defaultIDs(s).CatalogID
        /\ list = s.Components /\ model = s.DataModel /\ no = <<>>
  OBVIOUS
<1>1. Known(s, 0) = [SurfaceID |-> Empty, CatalogID |-> Empty, Components |-> no, DataModel |-> no]
  BY DEF Known, NoData
<1>2. Known(s, 1) = [SurfaceID |-> id, CatalogID |-> catalog, Components |-> no, DataModel |-> no]
  BY DEF Known, NoData
<1>3. Known(s, 2) = [SurfaceID |-> id, CatalogID |-> catalog, Components |-> list, DataModel |-> no]
  BY DEF Known, NoData
<1>4. Known(s, 3) = [SurfaceID |-> id, CatalogID |-> catalog, Components |-> list, DataModel |-> model]
  BY DEF Known
<1>5. EmptySpec = [SurfaceID |-> Empty, CatalogID |-> Empty, Components |-> no, DataModel |-> no]
  BY DEF EmptySpec, NoData
<1>7. [Known(s, 1) EXCEPT !.Components = list] = Known(s, 2)
  BY <1>2, <1>3
<1>8. [Known(s, 2) EXCEPT !.DataModel = model] = Known(s, 3)
  BY <1>3, <1>4
<1> QED BY <1>1, <1>5, <1>7, <1>8

\* The editor's stream is what the decompiled spec compiles to, and nothing of it is
\* refused; it is valid as far as the author's was.
EditorInv ==
    reader = "editor" =>
        /\ IsSurfaceSpec(earlier.spec)
        /\ stream = Compile(earlier.spec)
        /\ earlier.valid => valid /\ ValidComponents(Wired(earlier.spec.Components))
        /\ ~failed /\ spec = Known(earlier.spec, pos)
        /\ (created <=> pos >= 1) /\ (updated <=> pos >= 2)
        /\ open = IF pos = 0 THEN {} ELSE {defaultIDs(earlier.spec).SurfaceID}

\* The ids Compile fills in are not empty.
LEMMA DefaultIDs ==
    ASSUME NEW s, IsSurfaceSpec(s)
    PROVE  /\ defaultIDs(s).SurfaceID # Empty /\ defaultIDs(s).CatalogID # Empty
           /\ defaultIDs(s) = [SurfaceID |-> defaultIDs(s).SurfaceID,
                               CatalogID |-> defaultIDs(s).CatalogID,
                               Components |-> s.Components, DataModel |-> s.DataModel]
<1> PICK id, catalog :
        /\ id = IF s.SurfaceID = Empty THEN defaultSurfaceID ELSE s.SurfaceID
        /\ catalog = IF s.CatalogID = Empty THEN Catalog ELSE s.CatalogID
  OBVIOUS
<1>1. defaultIDs(s) = [s EXCEPT !.SurfaceID = id, !.CatalogID = catalog]
  BY DEF defaultIDs
<1>2. defaultIDs(s) = [SurfaceID |-> id, CatalogID |-> catalog, Components |-> s.Components,
                       DataModel |-> s.DataModel]
  BY <1>1 DEF IsSurfaceSpec
<1>3. id # Empty /\ catalog # Empty
  BY SurfaceAssumption
<1> QED BY <1>2, <1>3

\* The components of a spec are the same after they were compiled and decompiled, and none
\* of them is dynamic.
LEMMA SpecComponentsAgain ==
    ASSUME NEW s, IsSurfaceSpec(s)
    PROVE  /\ Unwired(Wired(s.Components)) = s.Components
           /\ \A i \in DOMAIN Wired(s.Components) : ~IsDynamic(Wired(s.Components)[i])
<1> PICK list, wired : list = s.Components /\ wired = Wired(list)
  OBVIOUS
<1>1. DOMAIN wired = DOMAIN list /\ \A i \in DOMAIN list : wired[i] = componentToWire(list[i])
  BY DEF Wired
<1>2. list = [i \in DOMAIN list |-> list[i]] /\ \A i \in DOMAIN list : IsComponentSpec(list[i])
  BY DEF IsSurfaceSpec, IsList
<1>3. \A i \in DOMAIN list : specFromWire(wired[i]) = list[i]
  BY <1>1, <1>2, SpecComponentAgain
<1>4. Unwired(wired) = list
  <2>1. Unwired(wired) = [i \in DOMAIN list |-> specFromWire(wired[i])]
    BY <1>1 DEF Unwired
  <2> QED BY <1>2, <1>3, <2>1
<1>5. ASSUME NEW i \in DOMAIN list PROVE ~IsDynamic(wired[i])
  <2> PICK comp, old : comp = wired[i] /\ old = list[i]
    OBVIOUS
  <2>1. comp.Children = IF old.Children = <<>> THEN None
                        ELSE [Static |-> old.Children, Dynamic |-> None]
    <3>1. comp = componentToWire(old)
      BY <1>1
    <3>2. componentToWire(old).Children = IF old.Children = <<>> THEN None
                                          ELSE StaticChildren(old.Children)
      BY DEF componentToWire
    <3> QED BY <3>1, <3>2 DEF StaticChildren
  <2>2. comp.Children = None \/ comp.Children.Dynamic = None
    BY <2>1
  <2> QED BY <2>2 DEF IsDynamic
<1> QED BY <1>1, <1>4, <1>5

\* Each of the editor's messages is read without an error, and without an issue if the author's
\* stream had none.
LEMMA EditorReads ==
    ASSUME OneSurfaceInv, TypedInv, EditorInv, Read
    PROVE  EditorInv'
<1> SUFFICES ASSUME reader = "editor"
             PROVE  EditorInv'
  BY DEF Read, EditorInv
<1> PICK s, n, id : s = earlier.spec /\ n = pos /\ id = defaultIDs(s).SurfaceID
  OBVIOUS
<1> PICK m : m = stream[n + 1]
  OBVIOUS
<1>1. /\ Validate(m) /\ Decompile(m) /\ pos' = n + 1 /\ UNCHANGED <<reader, stream, earlier>>
      /\ n \in Nat /\ n < Len(stream)
  BY DEF Read, AtEnd, OneSurfaceInv, IsStream
<1>2. /\ IsSurfaceSpec(s) /\ stream = Compile(s)
      /\ earlier.valid => valid /\ ValidComponents(Wired(s.Components))
      /\ ~failed /\ spec = Known(s, n)
      /\ (created <=> n >= 1) /\ (updated <=> n >= 2)
      /\ open = IF n = 0 THEN {} ELSE {id}
  BY DEF EditorInv
<1>3. /\ Len(stream) = IF HasData(s) THEN 3 ELSE 2
      /\ n = 0 => m = NewCreateSurface(id, defaultIDs(s).CatalogID)
      /\ n = 1 => m = NewUpdateComponents(id, Wired(s.Components))
      /\ n = 2 => m = NewUpdateDataModel(id, <<>>, s.DataModel)
  <2> PICK wired : wired = [i \in DOMAIN s.Components |-> componentToWire(s.Components[i])]
    OBVIOUS
  <2>1. wired = Wired(s.Components)
    BY DEF Wired
  <2>2. /\ Len(Compile(s)) = IF HasData(s) THEN 3 ELSE 2
        /\ Compile(s)[1] = NewCreateSurface(id, defaultIDs(s).CatalogID)
        /\ Compile(s)[2] = NewUpdateComponents(id, wired)
        /\ HasData(s) => Compile(s)[3] = NewUpdateDataModel(id, <<>>, s.DataModel)
    BY <1>2, CompileShape
  <2> QED BY <1>1, <1>2, <2>1, <2>2
<1>4. n = 0 \/ n = 1 \/ (n = 2 /\ HasData(s))
  BY <1>1, <1>3
<1> SUFFICES /\ earlier.valid => valid'
             /\ ~failed' /\ spec' = Known(s, n + 1)
             /\ (created' <=> n + 1 >= 1) /\ (updated' <=> n + 1 >= 2)
             /\ open' = {id}
  BY <1>1, <1>2 DEF EditorInv
<1>5. VersionV091 \in KnownVersions
  BY DEF VersionV091, KnownVersions
<1>6. CASE n = 0
  <2>0. /\ n + 1 = 1 /\ (n = 0 <=> TRUE) /\ (n >= 1 <=> FALSE) /\ (n >= 2 <=> FALSE)
        /\ n + 1 >= 1 /\ (n + 1 >= 2 <=> FALSE)
    BY <1>6
  <2>1. /\ m.kind = "createSurface" /\ m.version = VersionV091 /\ m.SurfaceID = id
        /\ m.CatalogID = defaultIDs(s).CatalogID /\ m.SendDataModel = FALSE
    BY <1>3, <1>6 DEF NewCreateSurface
  <2>2. trackCreateSurface(m) /\ DecompileCreate(m)
    BY <1>1, <1>2, <2>1 DEF Validate, Decompile
  <2>3. open' = {id} /\ (earlier.valid => valid')
    BY <1>2, <1>5, <1>6, <2>1, <2>2, DefaultIDs DEF trackCreateSurface, ValidEnvelope
  <2>4. /\ spec' = [spec EXCEPT !.SurfaceID = m.SurfaceID, !.CatalogID = m.CatalogID]
        /\ created' = TRUE /\ UNCHANGED <<updated, failed>>
    BY <1>2, <1>6, <2>1, <2>2 DEF DecompileCreate
  <2>5. spec' = Known(s, 1)
    <3> PICK e, id0, catalog : e = EmptySpec /\ id0 = m.SurfaceID /\ catalog = m.CatalogID
      OBVIOUS
    <3>1. spec = e /\ spec' = [e EXCEPT !.SurfaceID = id0, !.CatalogID = catalog]
      BY <1>2, <1>6, <2>4, KnownSteps
    <3>2. /\ e = [SurfaceID |-> e.SurfaceID, CatalogID |-> e.CatalogID,
                  Components |-> e.Components, DataModel |-> e.DataModel]
          /\ e.Components = <<>> /\ e.DataModel = NoData
      BY DEF EmptySpec
    <3>3. spec' = [SurfaceID |-> id0, CatalogID |-> catalog, Components |-> e.Components,
                   DataModel |-> e.DataModel]
      BY <3>1, <3>2
    <3>4. Known(s, 1) = [SurfaceID |-> id0, CatalogID |-> catalog, Components |-> e.Components,
                         DataModel |-> e.DataModel]
      BY <2>1, <3>2 DEF Known
    <3> QED BY <3>3, <3>4
  <2> QED BY <1>2, <2>0, <2>3, <2>4, <2>5
<1>7. CASE n = 1
  <2>0. /\ n + 1 = 2 /\ (n = 0 <=> FALSE) /\ (n >= 1 <=> TRUE) /\ (n >= 2 <=> FALSE)
        /\ n + 1 >= 1 /\ (n + 1 >= 2 <=> TRUE)
    BY <1>7
  <2>1. /\ m.kind = "updateComponents" /\ m.version = VersionV091 /\ m.SurfaceID = id
        /\ m.Components = Wired(s.Components)
    BY <1>3, <1>7 DEF NewUpdateComponents
  <2>2. validateOpenSurface(m, ValidComponents(m.Components)) /\ DecompileComponents(m)
    BY <1>1, <1>2, <2>1 DEF Validate, Decompile
  <2>3. open' = {id} /\ (earlier.valid => valid')
    <3>1. open' = open /\ open = {id} /\ id # Empty
      BY <1>2, <2>0, <2>2, DefaultIDs DEF validateOpenSurface
    <3>2. ValidEnvelope(m) /\ m.SurfaceID \in open
      BY <1>5, <2>1, <3>1 DEF ValidEnvelope
    <3>3. earlier.valid => valid /\ ValidComponents(m.Components)
      BY <1>2, <2>1
    <3> QED BY <2>2, <3>1, <3>2, <3>3 DEF validateOpenSurface
  <2>4. /\ spec' = [spec EXCEPT !.Components = Unwired(m.Components)]
        /\ updated' = TRUE /\ UNCHANGED <<created, failed>>
    <3>1. \A i \in DOMAIN m.Components : ~IsDynamic(m.Components[i])
      BY <1>2, <2>1, SpecComponentsAgain
    <3> QED BY <1>2, <2>0, <2>2, <3>1 DEF DecompileComponents, Unwired
  <2>5. spec' = [spec EXCEPT !.Components = s.Components]
    BY <1>2, <2>1, <2>4, SpecComponentsAgain
  <2>6. spec' = Known(s, 2)
    BY <1>2, <1>7, <2>5, KnownSteps
  <2> QED BY <1>2, <2>0, <2>3, <2>4, <2>6
<1>8. CASE n = 2 /\ HasData(s)
  <2>0. /\ n + 1 = 3 /\ (n = 0 <=> FALSE) /\ (n >= 1 <=> TRUE) /\ (n >= 2 <=> TRUE)
        /\ n + 1 >= 1 /\ (n + 1 >= 2 <=> TRUE)
    BY <1>8
  <2>1. /\ m.kind = "updateDataModel" /\ m.version = VersionV091 /\ m.SurfaceID = id
        /\ m.Path = <<>> /\ m.Value = s.DataModel /\ m.Remove = FALSE
    BY <1>3, <1>8 DEF NewUpdateDataModel
  <2>2. validateOpenSurface(m, m.Path # Relative) /\ DecompileData(m)
    BY <1>1, <1>2, <2>1 DEF Validate, Decompile
  <2>3. m.Path # Relative
    BY <2>1, SurfaceAssumption, EmptySeq DEF Paths
  <2>4. open' = {id} /\ (earlier.valid => valid')
    <3>1. open' = open /\ open = {id} /\ id # Empty
      BY <1>2, <2>0, <2>2, DefaultIDs DEF validateOpenSurface
    <3>2. ValidEnvelope(m) /\ m.SurfaceID \in open
      BY <1>5, <2>1, <3>1 DEF ValidEnvelope
    <3>3. earlier.valid => valid
      BY <1>2
    <3> QED BY <2>2, <2>3, <3>1, <3>2, <3>3 DEF validateOpenSurface
  <2>5. m.Value[<<>>] = "object"
    BY <1>2, <1>8, <2>1 DEF HasData, IsSurfaceSpec, IsModel
  <2> PICK at : at = Placed(spec.DataModel, m)
    OBVIOUS
  <2>9. at.Path = <<>> /\ at.Value = s.DataModel /\ at.Remove = FALSE /\ at.Path # Relative
    <3>1. IsMessage(m)
      BY <1>1 DEF TypedInv
    <3> QED BY <2>1, <2>3, <3>1, PlacedMeaning
  <2>6. ~Refused(spec.DataModel, at)
    BY <2>1, <2>5, <2>9 DEF Refused
  <2>7. /\ spec' = [spec EXCEPT !.DataModel = s.DataModel]
        /\ UNCHANGED <<created, updated, failed>>
    BY <1>2, <1>8, <2>2, <2>6, <2>9 DEF DecompileData, Applied
  <2>8. spec' = Known(s, 3)
    BY <1>2, <1>8, <2>7, KnownSteps
  <2> QED BY <1>2, <2>0, <2>4, <2>7, <2>8
<1> QED BY <1>4, <1>6, <1>7, <1>8

\* Editing never breaks a surface: whatever stream a spec was decompiled from, the editor's
\* stream decompiles, to the same spec, and is valid when the author's was.
THEOREM EditLoopAlwaysCloses == Spec => []EditLoopCloses
<1>1. Init => EditorInv
  BY DEF Init, EditorInv
<1>2. OneSurfaceInv /\ TypedInv /\ CompiledInv /\ EditorInv /\ [Next]_vars => EditorInv'
  <2> SUFFICES ASSUME OneSurfaceInv, TypedInv, CompiledInv, EditorInv, [Next]_vars PROVE EditorInv'
    OBVIOUS
  <2>1. CASE Read
    BY <2>1, EditorReads
  <2>2. CASE Recompile
    <3>1. /\ ok /\ stream' = Compile(spec) /\ pos' = 0 /\ open' = {} /\ valid' = TRUE
          /\ created' = FALSE /\ updated' = FALSE /\ failed' = FALSE /\ spec' = EmptySpec
          /\ earlier'.valid = valid /\ earlier'.spec = spec
      BY <2>2 DEF Recompile, PassOn
    <3>2. IsSurfaceSpec(spec) /\ (valid => ValidComponents(Wired(spec.Components)))
      BY <3>1 DEF TypedInv, CompiledInv, ok
    <3>3. EmptySpec = Known(spec, 0)
      BY DEF EmptySpec, Known
    <3> QED BY <3>1, <3>2, <3>3 DEF EditorInv
  <2>3. CASE Deliver
    BY <2>3 DEF Deliver, PassOn, EditorInv
  <2>4. CASE reader = "author" /\ reader' = reader
    BY <2>4 DEF EditorInv
  <2>5. CASE UNCHANGED vars
    BY <2>5 DEF vars, validatorVars, decompilerVars, EditorInv
  <2> QED BY <2>1, <2>2, <2>3, <2>4, <2>5 DEF Next, Send, CompileSpec
<1>3. OneSurfaceInv /\ EditorInv => EditLoopCloses
  <2> SUFFICES ASSUME OneSurfaceInv, EditorInv, reader = "editor", AtEnd
               PROVE  /\ earlier.valid => valid
                      /\ ok
                      /\ spec = [defaultIDs(earlier.spec) EXCEPT
                                    !.DataModel = IF @ = Object THEN NoData ELSE @]
    BY DEF EditLoopCloses
  <2> PICK s : s = earlier.spec
    OBVIOUS
  <2>1. IsSurfaceSpec(s) /\ spec = Known(s, pos) /\ pos = IF HasData(s) THEN 3 ELSE 2
    BY CompileShape DEF EditorInv, AtEnd
  <2> PICK d, model : /\ d = defaultIDs(s)
                      /\ model = IF d.DataModel = Object THEN NoData ELSE d.DataModel
    OBVIOUS
  <2>2. d = [SurfaceID |-> d.SurfaceID, CatalogID |-> d.CatalogID,
             Components |-> s.Components, DataModel |-> s.DataModel]
    BY <2>1, DefaultIDs
  <2>3. spec = [SurfaceID |-> d.SurfaceID, CatalogID |-> d.CatalogID,
                Components |-> s.Components, DataModel |-> model]
    BY <2>1, <2>2 DEF Known, HasData
  <2>4. [d EXCEPT !.DataModel = model] = [SurfaceID |-> d.SurfaceID, CatalogID |-> d.CatalogID,
                                          Components |-> s.Components, DataModel |-> model]
    BY <2>2
  <2>5. created /\ updated /\ ~failed /\ (earlier.valid => valid)
    BY <2>1 DEF EditorInv
  <2> QED BY <2>3, <2>4, <2>5 DEF ok
<1> QED BY <1>1, <1>2, <1>3, OneSurfaceInvCorrect, SurfaceTypeCorrect, CompiledInvCorrect, PTL DEF Spec
-----------------------------------------------------------------------------
(* The wire.  A reader is a record of the two readers' states; a run is    *)
(* the readers one goes through, from the one who has read nothing.        *)

Verdict(opened, m) ==
    /\ ValidEnvelope(m)
    /\ m.kind = "createSurface" => m.CatalogID # Empty /\ m.SurfaceID \notin opened
    /\ m.kind # "createSurface" => m.SurfaceID \in opened
    /\ m.kind = "updateComponents" => ValidComponents(m.Components)
    /\ m.kind = "updateDataModel" => m.Path # Relative

Opened(opened, m) ==
    IF m.kind = "createSurface" THEN opened \cup {m.SurfaceID}
    ELSE IF m.kind = "deleteSurface" THEN opened \ {m.SurfaceID} ELSE opened

HasDynamic(list) == \E i \in DOMAIN list : IsDynamic(list[i])

Fatal(r, m) ==
    \/ m.kind = "deleteSurface"
    \/ m.kind = "createSurface" /\ (r.created \/ m.SendDataModel)
    \/ m.kind # "createSurface" /\ ~r.created
    \/ m.kind = "updateComponents" /\ HasDynamic(m.Components)
    \/ m.kind = "updateDataModel" /\ Refused(r.spec.DataModel, Placed(r.spec.DataModel, m))

Extended(s, m) ==
    IF m.kind = "createSurface"
    THEN [s EXCEPT !.SurfaceID = m.SurfaceID, !.CatalogID = m.CatalogID]
    ELSE IF m.kind = "updateComponents" THEN [s EXCEPT !.Components = Unwired(m.Components)]
    ELSE [s EXCEPT !.DataModel = Applied(s.DataModel, Placed(s.DataModel, m))]

\* What a message makes of a reader.
Reads(r, m, new) ==
    /\ new.open = Opened(r.open, m)
    /\ new.valid <=> r.valid /\ Verdict(r.open, m)
    /\ new.failed <=> r.failed \/ Fatal(r, m)
    /\ new.created <=> r.created \/ (~new.failed /\ m.kind = "createSurface")
    /\ new.updated <=> r.updated \/ (~new.failed /\ m.kind = "updateComponents")
    /\ new.spec = IF new.failed THEN r.spec ELSE Extended(r.spec, m)

Starts(r) ==
    r.open = {} /\ r.valid /\ ~r.created /\ ~r.updated /\ ~r.failed /\ r.spec = EmptySpec

\* An issue once found stays.
IsRun(run, messages, n) ==
    /\ Starts(run[0])
    /\ \A i \in 0..n : IsSurfaceSpec(run[i].spec)
    /\ \A i \in 1..n : Reads(run[i - 1], messages[i], run[i])
    /\ \A i \in 0..n : run[n].valid => run[i].valid

\* The record is the reader of the stream.
Is(r) ==
    /\ r.open = open /\ (r.valid <=> valid)
    /\ (r.created <=> created) /\ (r.updated <=> updated) /\ (r.failed <=> failed)
    /\ r.spec = spec

\* The reader of the stream takes the step the next message makes of it.
LEMMA ReadReads ==
    ASSUME Read, IsMessage(stream[pos + 1]), NEW r, Is(r), NEW new, Is(new)'
    PROVE  Reads(r, stream[pos + 1], new)
<1> PICK m : m = stream[pos + 1]
  OBVIOUS
<1>1. Validate(m) /\ Decompile(m)
  BY DEF Read
<1>2. m.kind \in {"createSurface", "updateComponents", "updateDataModel", "deleteSurface"}
  BY DEF IsMessage
<1>3. /\ r.open = open /\ (r.valid <=> valid)
      /\ (r.created <=> created) /\ (r.updated <=> updated) /\ (r.failed <=> failed)
      /\ r.spec = spec
      /\ new.open = open' /\ (new.valid <=> valid')
      /\ (new.created <=> created') /\ (new.updated <=> updated') /\ (new.failed <=> failed')
      /\ new.spec = spec'
  BY DEF Is
<1>4. open' = Opened(open, m) /\ (valid' <=> valid /\ Verdict(open, m))
  <2>1. CASE m.kind = "createSurface"
    BY <1>1, <2>1 DEF Validate, trackCreateSurface, Opened, Verdict
  <2>2. CASE m.kind = "updateComponents"
    BY <1>1, <2>2 DEF Validate, validateOpenSurface, Opened, Verdict
  <2>3. CASE m.kind = "updateDataModel"
    BY <1>1, <2>3 DEF Validate, validateOpenSurface, Opened, Verdict
  <2>4. CASE m.kind = "deleteSurface"
    BY <1>1, <2>4 DEF Validate, trackDeleteSurface, Opened, Verdict
  <2> QED BY <1>2, <2>1, <2>2, <2>3, <2>4
<1>5. /\ failed' <=> failed \/ Fatal(r, m)
      /\ created' <=> created \/ (~failed' /\ m.kind = "createSurface")
      /\ updated' <=> updated \/ (~failed' /\ m.kind = "updateComponents")
      /\ spec' = IF failed' THEN spec ELSE Extended(spec, m)
  <2>0. CASE failed
    BY <1>1, <2>0 DEF Decompile, decompilerVars
  <2>1. CASE ~failed /\ m.kind = "createSurface"
    <3>1. Fatal(r, m) <=> created \/ m.SendDataModel
      BY <1>3, <2>1 DEF Fatal
    <3>2. Extended(spec, m) = [spec EXCEPT !.SurfaceID = m.SurfaceID, !.CatalogID = m.CatalogID]
      BY <2>1 DEF Extended
    <3> QED BY <1>1, <2>1, <3>1, <3>2 DEF Decompile, DecompileCreate, Fails
  <2>2. CASE ~failed /\ m.kind = "updateComponents"
    <3>1. Fatal(r, m) <=> ~created \/ HasDynamic(m.Components)
      BY <1>3, <2>2 DEF Fatal
    <3>2. Extended(spec, m) = [spec EXCEPT !.Components = Unwired(m.Components)]
      BY <2>2 DEF Extended
    <3> QED BY <1>1, <2>2, <3>1, <3>2 DEF Decompile, DecompileComponents, Fails, HasDynamic, Unwired
  <2>3. CASE ~failed /\ m.kind = "updateDataModel"
    <3> PICK at : at = Placed(spec.DataModel, m)
      OBVIOUS
    <3>1. Fatal(r, m) <=> ~created \/ Refused(spec.DataModel, at)
      BY <1>3, <2>3 DEF Fatal
    <3>2. Extended(spec, m) = [spec EXCEPT !.DataModel = Applied(spec.DataModel, at)]
      BY <2>3 DEF Extended
    <3> QED BY <1>1, <2>3, <3>1, <3>2 DEF Decompile, DecompileData, Fails
  <2>4. CASE ~failed /\ m.kind = "deleteSurface"
    BY <1>1, <2>4 DEF Decompile, Fails, Fatal
  <2> QED BY <1>2, <2>0, <2>1, <2>2, <2>3, <2>4
<1> QED BY <1>3, <1>4, <1>5 DEF Reads

\* A component that is valid and has no property named like a structural key arrives as it
\* was sent, or is dynamic and arrives without the static children it had as well.
LEMMA PlainComponent ==
    ASSUME NEW comp, IsComponent(comp), NEW ids, ValidComponent(comp, ids),
           DOMAIN comp.Props \cap Structural = {},
           NEW new, new = DecodeComponent(EncodeComponent(comp))
    PROVE  /\ new.ID = comp.ID
           /\ ValidComponent(new, ids)
           /\ IsDynamic(new) <=> IsDynamic(comp)
           /\ IsDynamic(comp) => Refs(new) = <<>>
           /\ ~IsDynamic(comp) => new = comp
<1> PICK obj : obj = EncodeComponent(comp)
  OBVIOUS
<1>1. /\ DOMAIN obj = StructuralKeys(comp) \cup DOMAIN comp.Props
      /\ \A name \in DOMAIN obj :
            obj[name] = IF name \in StructuralKeys(comp) THEN StructuralValue(comp, name)
                                                         ELSE comp.Props[name]
  BY DEF EncodeComponent
<1>2. "id" \in StructuralKeys(comp) /\ "component" \in StructuralKeys(comp)
  BY DEF StructuralKeys
<1>3. obj["id"] = String(comp.ID) /\ obj["component"] = String(comp.Kind)
  BY <1>1, <1>2 DEF StructuralValue
<1>4. new.ID = comp.ID /\ new.Kind = comp.Kind
  BY <1>3 DEF DecodeComponent, String
<1>11. new.Accessibility = comp.Accessibility
  <2>1. CASE comp.Accessibility = None
    <3>1. "accessibility" \notin DOMAIN obj
      BY <1>1, <2>1 DEF StructuralKeys, Structural
    <3> QED BY <2>1, <3>1 DEF DecodeComponent
  <2>2. CASE comp.Accessibility # None
    <3>1. /\ "accessibility" \in DOMAIN obj
          /\ obj["accessibility"] = <<"object", <<comp.Accessibility>>>>
      BY <1>1, <2>2 DEF StructuralKeys, StructuralValue
    <3> QED BY <3>1 DEF DecodeComponent
  <2> QED BY <2>1, <2>2
<1>5. new.Child = comp.Child
  <2>1. CASE comp.Child = None
    <3>1. "child" \notin DOMAIN obj
      BY <1>1, <2>1 DEF StructuralKeys, Structural
    <3> QED BY <2>1, <3>1 DEF DecodeComponent
  <2>2. CASE comp.Child # None
    <3>1. "child" \in DOMAIN obj /\ obj["child"] = String(comp.Child)
      BY <1>1, <2>2 DEF StructuralKeys, StructuralValue
    <3> QED BY <3>1 DEF DecodeComponent, String
  <2> QED BY <2>1, <2>2
<1>6. new.Children = IF comp.Children = None THEN None
                     ELSE DecodeChildren(EncodeChildren(comp.Children))
  <2>1. CASE comp.Children = None
    <3>1. "children" \notin DOMAIN obj
      BY <1>1, <2>1 DEF StructuralKeys, Structural
    <3> QED BY <2>1, <3>1 DEF DecodeComponent
  <2>2. CASE comp.Children # None
    <3>1. "children" \in DOMAIN obj /\ obj["children"] = EncodeChildren(comp.Children)
      BY <1>1, <2>2 DEF StructuralKeys, StructuralValue
    <3> QED BY <2>2, <3>1 DEF DecodeComponent
  <2> QED BY <2>1, <2>2
<1>7. new.Props = comp.Props
  <2> PICK props, old : props = [name \in DOMAIN obj \ Structural |-> obj[name]] /\ old = comp.Props
    OBVIOUS
  <2>1. StructuralKeys(comp) \subseteq Structural
    BY DEF StructuralKeys, Structural
  <2>2. DOMAIN obj \ Structural = DOMAIN old
    BY <1>1, <2>1
  <2>3. \A name \in DOMAIN old : obj[name] = old[name]
    BY <1>1, <2>1
  <2>4. old = [name \in DOMAIN old |-> old[name]]
    BY DEF IsComponent, IsProperties
  <2>5. props = old
    BY <2>2, <2>3, <2>4
  <2> QED BY <2>5 DEF DecodeComponent
<1>8. CASE comp.Children = None
  <2>1. new.Children = comp.Children
    BY <1>6, <1>8
  <2>2. new = comp
    BY <1>4, <1>5, <1>7, <1>11, <2>1 DEF DecodeComponent, IsComponent
  <2> QED BY <1>8, <2>2 DEF IsDynamic
<1>9. CASE comp.Children # None /\ comp.Children.Dynamic = None
  <2> PICK static : static = comp.Children.Static
    OBVIOUS
  <2>1. static # None /\ comp.Children \in ChildList
    BY <1>9 DEF ValidComponent, ValidChildList, IsComponent
  <2>2. comp.Children = StaticChildren(static)
    BY <1>9, <2>1 DEF ChildList, StaticChildren
  <2>3. DecodeChildren(EncodeChildren(comp.Children)) = StaticChildren(static)
    BY <1>9, <2>1 DEF DecodeChildren, EncodeChildren, Array
  <2>4. new.Children = comp.Children
    BY <1>6, <1>9, <2>2, <2>3
  <2>5. new = comp
    BY <1>4, <1>5, <1>7, <1>11, <2>4 DEF DecodeComponent, IsComponent
  <2> QED BY <1>9, <2>5 DEF IsDynamic
<1>10. CASE comp.Children # None /\ comp.Children.Dynamic # None
  <2> PICK dynamic : dynamic = comp.Children.Dynamic
    OBVIOUS
  <2>1. dynamic \in DynamicChildren /\ dynamic # None
    BY <1>10 DEF IsComponent, ChildList
  <2>2. EncodeChildren(comp.Children) = <<"object", <<dynamic.componentId, dynamic.path>>>>
    BY <1>10 DEF EncodeChildren
  <2>3. DecodeChildren(EncodeChildren(comp.Children)) = [Static |-> None, Dynamic |-> dynamic]
    BY <2>1, <2>2 DEF DecodeChildren, DynamicChildrenOf, DynamicChildren
  <2>4. new.Children = [Static |-> None, Dynamic |-> dynamic]
    BY <1>6, <1>10, <2>3
  <2>5. new.Children \in ChildList /\ new.Children # None
    BY <2>1, <2>4, SurfaceAssumption DEF ChildList
  <2>6. new.Children.Static = None /\ new.Children.Dynamic = dynamic
    BY <2>4
  <2>7. ValidComponent(new, ids)
    BY <1>4, <1>5, <1>10, <2>1, <2>5, <2>6 DEF ValidComponent, ValidChildList
  <2>8. IsDynamic(new) /\ IsDynamic(comp)
    BY <1>10, <2>1, <2>5, <2>6 DEF IsDynamic
  <2>9. Refs(new) = <<>>
    <3>1. new.Child = None
      BY <1>5, <1>10 DEF ValidComponent
    <3>2. Refs(new) = <<>> \o <<>>
      BY <2>5, <2>6, <3>1 DEF Refs
    <3>3. <<>> \o <<>> = <<>>
      OBVIOUS
    <3> QED BY <3>2, <3>3
  <2> QED BY <1>4, <2>7, <2>8, <2>9
<1> QED BY <1>8, <1>9, <1>10
\* A list of such components stays valid, and stays as it is unless one is dynamic.
LEMMA PlainList ==
    ASSUME NEW list, IsList(list), \A i \in DOMAIN list : IsComponent(list[i]), ValidComponents(list),
           \A i \in DOMAIN list : DOMAIN list[i].Props \cap Structural = {},
           NEW new, new = [i \in DOMAIN list |-> DecodeComponent(EncodeComponent(list[i]))]
    PROVE  /\ ValidComponents(new)
           /\ HasDynamic(new) <=> HasDynamic(list)
           /\ ~HasDynamic(list) => new = list
<1>1. IsList(new) /\ DOMAIN new = 1..Len(list) /\ Len(new) = Len(list) /\ DOMAIN list = 1..Len(list)
  <2>1. new = [i \in DOMAIN list |-> new[i]]
    OBVIOUS
  <2>2. DOMAIN new = DOMAIN list
    OBVIOUS
  <2> QED BY <2>1, <2>2, ListOf
<1>2. ASSUME NEW i \in 1..Len(list)
      PROVE  /\ new[i].ID = list[i].ID
             /\ ValidComponent(new[i], Defined(list))
             /\ IsDynamic(new[i]) <=> IsDynamic(list[i])
             /\ IsDynamic(list[i]) => Refs(new[i]) = <<>>
             /\ ~IsDynamic(list[i]) => new[i] = list[i]
  <2> PICK comp : comp = list[i]
    OBVIOUS
  <2>1. /\ IsComponent(comp) /\ ValidComponent(comp, Defined(list))
        /\ DOMAIN comp.Props \cap Structural = {}
        /\ new[i] = DecodeComponent(EncodeComponent(comp))
    BY <1>1 DEF ValidComponents
  <2> QED BY <2>1, PlainComponent
<1>3. Keeps(list, new)
  <2> SUFFICES ASSUME NEW i \in 1..Len(list)
               PROVE  /\ new[i].ID = list[i].ID
                      /\ ValidComponent(new[i], Defined(list))
                      /\ \A n \in DOMAIN Refs(new[i]) :
                            \E j \in DOMAIN Refs(list[i]) : Refs(list[i])[j] = Refs(new[i])[n]
    BY <1>1 DEF Keeps
  <2>1. CASE IsDynamic(list[i])
    <3>1. Refs(new[i]) = <<>> /\ DOMAIN <<>> = {}
      BY <1>2, <2>1
    <3> QED BY <1>2, <3>1
  <2>2. CASE ~IsDynamic(list[i])
    <3>1. Refs(new[i]) = Refs(list[i])
      BY <1>2, <2>2
    <3> QED BY <1>2, <3>1
  <2> QED BY <2>1, <2>2
<1>4. ValidComponents(new)
  BY <1>3, StaysValid
<1>5. HasDynamic(new) <=> HasDynamic(list)
  BY <1>1, <1>2 DEF HasDynamic
<1>6. ASSUME ~HasDynamic(list) PROVE new = list
  <2>1. \A i \in 1..Len(list) : new[i] = list[i]
    BY <1>1, <1>2, <1>6 DEF HasDynamic
  <2>2. /\ list = [i \in 1..Len(list) |-> list[i]] /\ new = [i \in 1..Len(list) |-> new[i]]
    BY <1>1 DEF IsList
  <2> QED BY <2>1, <2>2
<1> QED BY <1>4, <1>5, <1>6

\* A data model whose values are decoded: it is as empty, and is written to alike.
LEMMA GenericModel ==
    ASSUME NEW model, IsModel(model), NEW g, g = Generic(model)
    PROVE  /\ IsModel(g) /\ DOMAIN g = DOMAIN model
           /\ g = NoData <=> model = NoData
           /\ OrEmpty(g) = Generic(OrEmpty(model))
           /\ \A p \in DOMAIN model :
                 /\ model[p] \in {"object", "array", "null"} => g[p] = model[p]
                 /\ g[p] = "null" => model[p] = "null"
<1>1. DOMAIN NoData = {} /\ DOMAIN g = DOMAIN model
  BY NothingBelowNoData DEF Generic
<1>2. CASE model = NoData
  <2>1. g = NoData
    <3>1. g = [p \in {} |-> JSONKind(model[p])]
      BY <1>1, <1>2 DEF Generic
    <3> QED BY <3>1 DEF NoData
  <2>2. Generic(Object) = Object
    <3> PICK o : o = [p \in {<<>>} |-> "object"]
      OBVIOUS
    <3>1. o = Object /\ DOMAIN o = {<<>>} /\ o[<<>>] = "object"
      BY DEF Object, Scalar
    <3>2. Generic(o) = o
      BY <3>1 DEF Generic, JSONKind
    <3> QED BY <3>1, <3>2
  <2> QED BY <1>1, <1>2, <2>1, <2>2 DEF IsModel, OrEmpty
<1>3. CASE model # NoData
  <2>1. IsTree(model) /\ model[<<>>] = "object" /\ <<>> \in DOMAIN model
    BY <1>3 DEF IsModel, IsTree
  <2>2. /\ IsTree(g)
        /\ \A p \in DOMAIN model :
              /\ model[p] \in {"object", "array", "null"} => g[p] = model[p]
              /\ g[p] = "null" => model[p] = "null"
    BY <2>1, GenericTree
  <2>3. g # NoData
    BY <1>1, <2>1
  <2> QED BY <1>1, <1>3, <2>1, <2>2, <2>3 DEF IsModel, OrEmpty
<1> QED BY <1>2, <1>3

\* Writing a value and decoding what came of it are done in either order.
LEMMA GenericSet ==
    ASSUME NEW tree, IsTree(tree), NEW path \in Paths, path # <<>>, NEW value, IsTree(value)
    PROVE  setAtPointer(Generic(tree), path, Generic(value)) = Generic(setAtPointer(tree, path, value))
<1> PICK g, v, t, u : /\ g = Generic(tree) /\ v = Generic(value)
                      /\ t = setAtPointer(tree, path, value) /\ u = setAtPointer(g, path, v)
  OBVIOUS
<1>1. /\ DOMAIN g = DOMAIN tree
      /\ \A p \in DOMAIN tree : /\ g[p] = JSONKind(tree[p])
                                /\ g[p] = "null" <=> tree[p] = "null"
  BY GenericTree
<1>2. DOMAIN v = DOMAIN value /\ \A p \in DOMAIN value : v[p] = JSONKind(value[p])
  BY GenericTree
<1>3. Below(g, path) = Below(tree, path)
  BY <1>1 DEF Below
<1> PICK D : D = (DOMAIN tree \ Below(tree, path)) \cup Containers(path)
                   \cup {path \o q : q \in DOMAIN value}
  OBVIOUS
<1>4. /\ DOMAIN t = D
      /\ \A p \in D : t[p] = IF IsPrefix(path, p) THEN value[Rest(path, p)]
                             ELSE IF p \in Containers(path) /\ (p \in DOMAIN tree => tree[p] = "null")
                                  THEN "object" ELSE tree[p]
  BY DEF setAtPointer
<1>5. /\ u = [p \in D |-> u[p]]
      /\ \A p \in D : u[p] = IF IsPrefix(path, p) THEN v[Rest(path, p)]
                             ELSE IF p \in Containers(path) /\ (p \in DOMAIN g => g[p] = "null")
                                  THEN "object" ELSE g[p]
  BY <1>1, <1>2, <1>3 DEF setAtPointer
<1>6. ASSUME NEW p \in D PROVE u[p] = JSONKind(t[p])
  <2>1. CASE IsPrefix(path, p)
    <3>1. p \notin Containers(path) /\ p \notin DOMAIN tree \ Below(tree, path)
      BY <2>1, ContainersMeaning DEF Below
    <3>2. PICK q \in DOMAIN value : p = path \o q
      BY <3>1
    <3>3. Rest(path, p) = q
      BY <3>2, BelowMeaning
    <3> QED BY <1>2, <1>4, <1>5, <2>1, <3>2, <3>3
  <2>2. CASE ~IsPrefix(path, p) /\ p \in Containers(path) /\ (p \in DOMAIN tree => tree[p] = "null")
    <3>1. t[p] = "object" /\ u[p] = "object"
      BY <1>1, <1>4, <1>5, <2>2
    <3> QED BY <3>1 DEF JSONKind
  <2>3. CASE ~IsPrefix(path, p) /\ ~(p \in Containers(path) /\ (p \in DOMAIN tree => tree[p] = "null"))
    <3>1. \A q \in DOMAIN value : IsPrefix(path, path \o q)
      BY BelowMeaning
    <3>2. p \in DOMAIN tree
      BY <2>3, <3>1
    <3>3. t[p] = tree[p] /\ u[p] = g[p]
      BY <1>1, <1>4, <1>5, <2>3, <3>2
    <3> QED BY <1>1, <3>2, <3>3
  <2> QED BY <2>1, <2>2, <2>3
<1>7. Generic(t) = [p \in D |-> JSONKind(t[p])]
  BY <1>4 DEF Generic
<1>8. u = Generic(t)
  BY <1>5, <1>6, <1>7
<1> QED BY <1>8

\* Removing an entry as well, where the path descends.
LEMMA GenericRemove ==
    ASSUME NEW tree, IsTree(tree), NEW path \in Paths, path # <<>>,
           IsElement(Generic(tree), path) <=> IsElement(tree, path)
    PROVE  removeAtPointer(Generic(tree), path) = Generic(removeAtPointer(tree, path))
<1> PICK g : g = Generic(tree)
  OBVIOUS
<1>1. DOMAIN g = DOMAIN tree /\ \A p \in DOMAIN tree : g[p] = JSONKind(tree[p])
  BY GenericTree
<1>2. CASE IsElement(tree, path)
  <2>1. /\ removeAtPointer(g, path) = setAtPointer(g, path, Scalar("null"))
        /\ removeAtPointer(tree, path) = setAtPointer(tree, path, Scalar("null"))
    BY <1>2 DEF removeAtPointer
  <2> QED BY <2>1, NullTree, GenericSet
<1>3. CASE ~IsElement(tree, path)
  <2> PICK D : D = DOMAIN tree \ Below(tree, path)
    OBVIOUS
  <2> PICK t : t = removeAtPointer(tree, path)
    OBVIOUS
  <2>1. t = [p \in D |-> tree[p]]
    BY <1>3 DEF removeAtPointer
  <2>2. Below(g, path) = Below(tree, path)
    BY <1>1 DEF Below
  <2>3. removeAtPointer(g, path) = [p \in D |-> g[p]]
    BY <1>1, <1>3, <2>2 DEF removeAtPointer
  <2>4. Generic(t) = [p \in D |-> JSONKind(t[p])]
    BY <2>1 DEF Generic
  <2>5. \A p \in D : JSONKind(t[p]) = g[p]
    BY <1>1, <2>1
  <2>6. removeAtPointer(g, path) = Generic(t)
    BY <2>3, <2>4, <2>5
  <2> QED BY <2>6
<1> QED BY <1>2, <1>3

\* What the wire makes of a message it can carry, as far as a reader goes by it: no issue comes
\* in, and a list without dynamic children arrives as it was.
LEMMA ReceivedMeaning ==
    ASSUME NEW m, IsMessage(m), Plain(m), NEW opened, Verdict(opened, m),
           NEW g, g = Received(m)
    PROVE  /\ g.kind = m.kind /\ Verdict(opened, g) /\ Opened(opened, g) = Opened(opened, m)
           /\ m.kind \notin {"updateComponents", "updateDataModel"} => g = m
           /\ m.kind = "updateComponents" =>
                 /\ HasDynamic(g.Components) <=> HasDynamic(m.Components)
                 /\ ~HasDynamic(m.Components) => g.Components = m.Components
           /\ m.kind = "updateDataModel" =>
                 /\ g.Path = m.Path /\ (g.Remove <=> m.Remove)
                 /\ ~m.Remove => g.Value = Generic(m.Value)
<1>1. CASE m.kind \notin {"updateComponents", "updateDataModel"}
  <2>1. g = m
    BY <1>1 DEF Received
  <2> QED BY <1>1, <2>1
<1>2. CASE m.kind = "updateDataModel"
  <2>1. /\ m = [NewUpdateDataModel(m.SurfaceID, m.Path, m.Value) EXCEPT !.version = m.version,
                                                                   !.Remove = m.Remove]
        /\ m.Remove \in BOOLEAN /\ (m.Path # <<>> \/ ~m.Remove)
    BY <1>2 DEF IsMessage, Plain
  <2> PICK remove \in BOOLEAN : remove = (m.Remove /\ m.Path # <<>>)
    OBVIOUS
  <2> PICK value : value = IF m.Remove THEN Scalar("null") ELSE Generic(m.Value)
    OBVIOUS
  <2>2. remove <=> m.Remove
    BY <2>1
  <2>3. g = [m EXCEPT !.Value = value, !.Remove = remove]
    BY <1>2 DEF Received
  <2>4. /\ g.kind = m.kind /\ g.version = m.version /\ g.SurfaceID = m.SurfaceID
        /\ g.Path = m.Path /\ g.Value = value /\ g.Remove = remove
    <3> PICK version, id, path, old, removes :
            m = [kind |-> "updateDataModel", version |-> version, SurfaceID |-> id, Path |-> path,
                 Value |-> old, Remove |-> removes]
      BY <2>1 DEF NewUpdateDataModel
    <3> QED BY <2>3
  <2>5. Verdict(opened, g) /\ Opened(opened, g) = Opened(opened, m)
    BY <1>2, <2>4 DEF Verdict, Opened, ValidEnvelope
  <2> QED BY <1>2, <2>2, <2>4, <2>5
<1>3. CASE m.kind = "updateComponents"
  <2> PICK list, new :
          /\ list = m.Components
          /\ new = [i \in DOMAIN list |-> DecodeComponent(EncodeComponent(list[i]))]
    OBVIOUS
  <2>1. /\ IsList(list) /\ \A i \in DOMAIN list : IsComponent(list[i])
        /\ \A i \in DOMAIN list : DOMAIN list[i].Props \cap Structural = {}
        /\ m = [NewUpdateComponents(m.SurfaceID, list) EXCEPT !.version = m.version]
    BY <1>3 DEF IsMessage, Plain
  <2>2. ValidComponents(list)
    BY <1>3 DEF Verdict
  <2>3. /\ ValidComponents(new)
        /\ HasDynamic(new) <=> HasDynamic(list)
        /\ ~HasDynamic(list) => new = list
    BY <2>1, <2>2, PlainList
  <2>4. g = [m EXCEPT !.Components = new]
    BY <1>3 DEF Received
  <2>5. /\ g.kind = m.kind /\ g.version = m.version /\ g.SurfaceID = m.SurfaceID
        /\ g.Components = new
    BY <2>1, <2>4 DEF NewUpdateComponents
  <2>6. Verdict(opened, g) /\ Opened(opened, g) = Opened(opened, m)
    BY <1>3, <2>3, <2>5 DEF Verdict, Opened, ValidEnvelope
  <2> QED BY <1>3, <2>3, <2>5, <2>6
<1> QED BY <1>1, <1>2, <1>3

\* What a data model takes it takes with its types decoded, to the same place and the same
\* result but for them.
LEMMA GenericData ==
    ASSUME NEW model, IsModel(model), NEW m, IsMessage(m), m.kind = "updateDataModel",
           m.Path # Relative, m.Path # <<>> \/ ~m.Remove,
           NEW g, g.kind = m.kind, g.Path = m.Path, g.Remove <=> m.Remove,
           IsMessage(g), ~m.Remove => g.Value = Generic(m.Value),
           NEW at, at = Placed(model, m), ~Refused(model, at),
           NEW there, there = Placed(Generic(model), g)
    PROVE  ~Refused(Generic(model), there) /\ Applied(Generic(model), there) = Generic(Applied(model, at))
<1> PICK G, path : G = Generic(model) /\ path = at.Path
  OBVIOUS
<1>1. /\ IsModel(G) /\ DOMAIN G = DOMAIN model
      /\ G = NoData <=> model = NoData
      /\ OrEmpty(G) = Generic(OrEmpty(model))
      /\ \A p \in DOMAIN model :
            /\ model[p] \in {"object", "array", "null"} => G[p] = model[p]
            /\ G[p] = "null" => model[p] = "null"
  BY GenericModel
<1>2. /\ at.Value = m.Value /\ at.Remove = m.Remove /\ path \in Paths /\ path # Relative
      /\ m.Path \in Seq(PathKeys) /\ path = Located(model, m.Path) /\ LeadsTo(model, m.Path, path)
  BY PlacedMeaning
<1>3. /\ there.Value = g.Value /\ there.Remove = g.Remove /\ there.Path \in Paths
      /\ there.Path # Relative
      /\ there.Path = Located(G, m.Path) /\ LeadsTo(G, m.Path, there.Path)
  BY PlacedMeaning
<1>4. path = <<>> => ~m.Remove
  <2> SUFFICES ASSUME path = <<>> PROVE m.Path = <<>>
    OBVIOUS
  <2> PICK p \in Seq(PathKeys) : p = m.Path
    BY <1>2
  <2>1. DOMAIN p = DOMAIN <<>>
    BY <1>2 DEF LeadsTo
  <2>2. DOMAIN p = 1..Len(p) /\ Len(p) \in Nat /\ DOMAIN <<>> = {}
    OBVIOUS
  <2>3. Len(p) = 0
    <3>1. 1 \notin 1..Len(p)
      BY <2>1, <2>2
    <3> QED BY <2>2, <3>1
  <2> QED BY <2>3, EmptySeq
<1>5. \A c \in Containers(path) : c \in DOMAIN model => model[c] \in {"object", "array", "null"}
  <2>1. CASE path = <<>>
    BY <2>1 DEF Containers
  <2>2. CASE model = NoData
    BY <2>2, NothingBelowNoData
  <2>3. CASE path # <<>> /\ model # NoData /\ ~m.Remove
    <3>1. Descends(model, path)
      BY <1>2, <2>3 DEF Refused, OrEmpty
    <3> QED BY <3>1 DEF Descends
  <2>4. CASE path # <<>> /\ model # NoData /\ m.Remove
    <3>1. DescendsOnly(model, path)
      BY <1>2, <2>4 DEF Refused
    <3> QED BY <3>1 DEF DescendsOnly
  <2> QED BY <2>1, <2>2, <2>3, <2>4
<1>6. \A c \in Containers(path) : /\ c \in DOMAIN G <=> c \in DOMAIN model
                                  /\ c \in DOMAIN model => G[c] = model[c]
  BY <1>1, <1>5
<1>7. there.Path = path
  <2>1. \A c \in Containers(path) : IsArray(G, c) <=> IsArray(model, c)
    BY <1>6 DEF IsArray
  <2>2. LeadsTo(G, m.Path, path)
    BY <1>2, <2>1, LeadsOn
  <2> QED BY <1>2, <1>3, <2>2, OnePlace
<1>8. /\ IsTree(m.Value)
      /\ ~m.Remove => there.Value = Generic(m.Value)
      /\ there.Remove <=> m.Remove
  BY <1>3 DEF IsMessage
<1>9. CASE path = <<>>
  <2>1. ~m.Remove /\ m.Value[<<>>] = "object" /\ <<>> \in DOMAIN m.Value
    BY <1>2, <1>4, <1>8, <1>9 DEF Refused, IsTree
  <2>2. there.Value[<<>>] = "object"
    BY <1>8, <2>1, GenericTree
  <2>3. ~Refused(G, there)
    BY <1>2, <1>7, <1>8, <1>9, <2>1, <2>2 DEF Refused
  <2>4. Applied(model, at) = m.Value /\ Applied(G, there) = there.Value
    BY <1>2, <1>7, <1>8, <1>9, <2>1 DEF Applied
  <2> QED BY <1>8, <2>1, <2>3, <2>4
<1>10. CASE path # <<>> /\ ~m.Remove
  <2> PICK tree, T : tree = OrEmpty(model) /\ T = OrEmpty(G)
    OBVIOUS
  <2>1. IsTree(tree) /\ T = Generic(tree) /\ Descends(tree, path)
    BY <1>1, <1>2, <1>10, ModelPaths DEF Refused
  <2>2. \A c \in Containers(path) : c \in DOMAIN tree => tree[c] \in {"object", "array", "null"}
    BY <2>1 DEF Descends
  <2>3. DOMAIN T = DOMAIN tree /\ \A c \in Containers(path) : c \in DOMAIN tree => T[c] = tree[c]
    BY <2>1, <2>2, GenericTree
  <2>4. \A c \in Containers(path) : IsElement(T, c) <=> IsElement(tree, c)
    <3> SUFFICES ASSUME NEW c \in Containers(path), c # <<>>
                 PROVE  IsArray(T, Parent(c)) <=> IsArray(tree, Parent(c))
      BY DEF IsElement
    <3>1. Parent(c) \in Containers(path)
      <4>1. c \in Paths /\ IsPrefix(c, path) /\ ~IsPrefix(path, c)
        BY <1>2, ContainersMeaning
      <4>2. Parent(c) \in Paths /\ IsPrefix(Parent(c), c)
        BY <4>1, ContainersMeaning
      <4>3. IsPrefix(Parent(c), path) /\ ~IsPrefix(path, Parent(c))
        BY <1>2, <4>1, <4>2, PrefixOrder
      <4> QED BY <1>2, <4>2, <4>3, ContainersMeaning
    <3> QED BY <2>3, <3>1 DEF IsArray
  <2>5. Descends(T, path)
    BY <2>1, <2>3, <2>4 DEF Descends
  <2>6. ~Refused(G, there)
    BY <1>3, <1>7, <1>8, <1>10, <2>5 DEF Refused
  <2>7. /\ Applied(model, at) = setAtPointer(tree, path, m.Value)
        /\ Applied(G, there) = setAtPointer(T, path, Generic(m.Value))
    BY <1>2, <1>7, <1>8, <1>10 DEF Applied
  <2> QED BY <1>2, <1>8, <1>10, <2>1, <2>6, <2>7, GenericSet
<1>11. CASE path # <<>> /\ m.Remove /\ model = NoData
  <2>1. G = NoData
    BY <1>1, <1>11
  <2>2. ~Refused(G, there)
    BY <1>3, <1>7, <1>8, <1>11, <2>1 DEF Refused
  <2>3. Applied(model, at) = NoData /\ Applied(G, there) = NoData
    BY <1>2, <1>7, <1>8, <1>11, <2>1 DEF Applied
  <2> QED BY <1>11, <2>1, <2>2, <2>3
<1>12. CASE path # <<>> /\ m.Remove /\ model # NoData
  <2>1. IsTree(model) /\ G # NoData /\ DescendsOnly(model, path)
    BY <1>1, <1>2, <1>12 DEF Refused, IsModel
  <2>2. DescendsOnly(G, path)
    BY <1>1, <1>6, <2>1 DEF DescendsOnly
  <2>3. ~Refused(G, there)
    BY <1>3, <1>7, <1>8, <1>12, <2>2 DEF Refused
  <2>4. /\ Applied(model, at) = removeAtPointer(model, path)
        /\ Applied(G, there) = removeAtPointer(G, path)
    BY <1>2, <1>7, <1>8, <1>12, <2>1 DEF Applied
  <2>5. IsElement(G, path) <=> IsElement(model, path)
    <3>1. Parent(path) \in Containers(path)
      BY <1>2, <1>12, ContainersMeaning
    <3> QED BY <1>6, <3>1 DEF IsElement, IsArray
  <2> QED BY <1>2, <1>12, <2>1, <2>3, <2>4, <2>5, GenericRemove
<1> QED BY <1>9, <1>10, <1>11, <1>12

\* The same reader, with the same message but for a removal's value.
LEMMA ReceivedAlike ==
    ASSUME NEW m, IsMessage(m), Plain(m), GenericValue(m), NEW a, NEW b, Reads(a, m, b), b.valid,
           NEW c, Reads(a, Received(m), c)
    PROVE  /\ c.open = b.open /\ c.valid /\ (c.created <=> b.created)
           /\ (c.updated <=> b.updated) /\ (c.failed <=> b.failed) /\ c.spec = b.spec
<1> PICK g : g = Received(m)
  OBVIOUS
<1>1. Verdict(a.open, m) /\ a.valid
  BY DEF Reads
<1>2. /\ g.kind = m.kind /\ Verdict(a.open, g) /\ Opened(a.open, g) = Opened(a.open, m)
      /\ m.kind \notin {"updateComponents", "updateDataModel"} => g = m
      /\ m.kind = "updateComponents" =>
            /\ HasDynamic(g.Components) <=> HasDynamic(m.Components)
            /\ ~HasDynamic(m.Components) => g.Components = m.Components
      /\ m.kind = "updateDataModel" =>
            /\ g.Path = m.Path /\ (g.Remove <=> m.Remove)
            /\ ~m.Remove => g.Value = Generic(m.Value)
  BY <1>1, ReceivedMeaning
<1>3. /\ Fatal(a, g) <=> Fatal(a, m)
      /\ ~Fatal(a, m) => Extended(a.spec, g) = Extended(a.spec, m)
  <2>1. CASE m.kind \notin {"updateComponents", "updateDataModel"}
    BY <1>2, <2>1
  <2>2. CASE m.kind = "updateComponents"
    BY <1>2, <2>2 DEF Fatal, Extended
  <2>3. CASE m.kind = "updateDataModel"
    <3> PICK model, at, there : /\ model = a.spec.DataModel /\ at = Placed(model, m)
                                /\ there = Placed(model, g)
      OBVIOUS
    <3>1. IsMessage(g)
      BY ReceivedMessage
    <3>2. m.Path # Relative /\ (~m.Remove => g.Value = m.Value)
      BY <1>1, <1>2, <2>3 DEF Verdict, GenericValue
    <3>3. /\ at.Value = m.Value /\ at.Remove = m.Remove /\ at.Path = Located(model, m.Path)
      BY <2>3, <3>2, PlacedMeaning
    <3>4. /\ there.Value = g.Value /\ there.Remove = g.Remove /\ there.Path = Located(model, m.Path)
      BY <1>2, <2>3, <3>1, <3>2, PlacedMeaning
    <3>5. Refused(model, there) <=> Refused(model, at)
      BY <1>2, <2>3, <3>2, <3>3, <3>4 DEF Refused
    <3>6. Applied(model, there) = Applied(model, at)
      BY <1>2, <2>3, <3>2, <3>3, <3>4 DEF Applied
    <3> QED BY <1>2, <2>3, <3>5, <3>6 DEF Fatal, Extended
  <2> QED BY <2>1, <2>2, <2>3
<1> QED BY <1>1, <1>2, <1>3 DEF Reads

\* The spec whose data are decoded.
Decoded(s) == [s EXCEPT !.DataModel = Generic(@)]

\* The reader of what arrived stands where the author's reader stands, and if that one did not
\* fail has the same spec but for the types.
Mirrors(a, r) ==
    /\ r.open = a.open /\ (r.valid <=> a.valid)
    /\ ~a.failed => /\ ~r.failed /\ (r.created <=> a.created) /\ (r.updated <=> a.updated)
                    /\ r.spec = Decoded(a.spec)

\* A spec that gets its ids.
Named(s, id, catalog) == [s EXCEPT !.SurfaceID = id, !.CatalogID = catalog]

LEMMA NamedSpec ==
    ASSUME NEW id, NEW catalog, NEW list, NEW data, NEW x, NEW y,
           NEW s, s = [SurfaceID |-> id, CatalogID |-> catalog, Components |-> list,
                       DataModel |-> data],
           NEW new, new = Named(s, x, y)
    PROVE  new = [SurfaceID |-> x, CatalogID |-> y, Components |-> list, DataModel |-> data]
<1>1. s = [SurfaceID |-> id, CatalogID |-> catalog, Components |-> list, DataModel |-> data]
  OBVIOUS
<1>2. new = [s EXCEPT !.SurfaceID = x, !.CatalogID = y]
  BY DEF Named
<1> PICK w : w = [s EXCEPT !.SurfaceID = x]
  OBVIOUS
<1>3. w = [s EXCEPT !.SurfaceID = x]
  OBVIOUS
<1>4. w = [SurfaceID |-> x, CatalogID |-> catalog, Components |-> list, DataModel |-> data]
  BY ONLY <1>1, <1>3
<1>5. [w EXCEPT !.CatalogID = y] = [SurfaceID |-> x, CatalogID |-> y, Components |-> list,
                                    DataModel |-> data]
  BY ONLY <1>4
<1>6. new = [w EXCEPT !.CatalogID = y]
  BY ONLY <1>2, <1>3
<1> QED BY ONLY <1>5, <1>6

\* What a message that the wire can carry makes of a reader, who has no issue with it and does
\* not fail, it makes as well of the one who receives it.
LEMMA ReceivedMirrors ==
    ASSUME NEW m, IsMessage(m), Plain(m), NEW a, IsSurfaceSpec(a.spec), NEW b, Reads(a, m, b), b.valid,
           NEW r, Mirrors(a, r), NEW c, Reads(r, Received(m), c)
    PROVE  Mirrors(b, c)
<1> PICK g : g = Received(m)
  OBVIOUS
<1>1. Verdict(a.open, m) /\ a.valid /\ r.valid /\ r.open = a.open
  BY DEF Reads, Mirrors
<1>2. /\ g.kind = m.kind /\ Verdict(a.open, g) /\ Opened(a.open, g) = Opened(a.open, m)
      /\ m.kind \notin {"updateComponents", "updateDataModel"} => g = m
      /\ m.kind = "updateComponents" =>
            /\ HasDynamic(g.Components) <=> HasDynamic(m.Components)
            /\ ~HasDynamic(m.Components) => g.Components = m.Components
      /\ m.kind = "updateDataModel" =>
            /\ g.Path = m.Path /\ (g.Remove <=> m.Remove)
            /\ ~m.Remove => g.Value = Generic(m.Value)
  BY <1>1, ReceivedMeaning
<1>3. c.open = b.open /\ c.valid /\ b.valid
  BY <1>1, <1>2 DEF Reads
<1> SUFFICES ASSUME ~b.failed
             PROVE  /\ ~c.failed /\ (c.created <=> b.created) /\ (c.updated <=> b.updated)
                    /\ c.spec = Decoded(b.spec)
  BY <1>3 DEF Mirrors
<1>4. ~a.failed /\ ~Fatal(a, m) /\ b.spec = Extended(a.spec, m)
  BY DEF Reads
<1>5. /\ ~r.failed /\ (r.created <=> a.created) /\ (r.updated <=> a.updated)
      /\ r.spec = Decoded(a.spec)
  BY <1>4 DEF Mirrors
<1> PICK id, catalog, list, model :
        a.spec = [SurfaceID |-> id, CatalogID |-> catalog, Components |-> list, DataModel |-> model]
  BY DEF IsSurfaceSpec
<1>6. /\ IsModel(model) /\ a.spec.DataModel = model
      /\ r.spec = [SurfaceID |-> id, CatalogID |-> catalog, Components |-> list,
                   DataModel |-> Generic(model)]
  BY <1>5 DEF Decoded, IsSurfaceSpec
<1>7. ~Fatal(r, g) /\ Extended(r.spec, g) = Decoded(Extended(a.spec, m))
  <2>1. CASE m.kind = "createSurface"
    <3>1. ~Fatal(r, g)
      BY <1>2, <1>4, <1>5, <2>1 DEF Fatal
    <3> PICK x, y : x = m.SurfaceID /\ y = m.CatalogID
      OBVIOUS
    <3>2. Extended(a.spec, m) = Named(a.spec, x, y) /\ Extended(r.spec, g) = Named(r.spec, x, y)
      BY <1>2, <2>1 DEF Extended, Named
    <3>3. Extended(a.spec, m) = [SurfaceID |-> x, CatalogID |-> y, Components |-> list,
                                 DataModel |-> model]
      BY <3>2, NamedSpec
    <3>4. Extended(r.spec, g) = [SurfaceID |-> x, CatalogID |-> y, Components |-> list,
                                 DataModel |-> Generic(model)]
      BY <1>6, <3>2, NamedSpec
    <3> QED BY <3>1, <3>3, <3>4 DEF Decoded
  <2>2. CASE m.kind = "updateComponents"
    <3>1. ~Fatal(r, g) /\ ~HasDynamic(m.Components)
      BY <1>2, <1>4, <1>5, <2>2 DEF Fatal
    <3> PICK new : new = Unwired(m.Components)
      OBVIOUS
    <3>2. /\ Extended(a.spec, m) = [SurfaceID |-> id, CatalogID |-> catalog, Components |-> new,
                                    DataModel |-> model]
          /\ Extended(r.spec, g) = [SurfaceID |-> id, CatalogID |-> catalog, Components |-> new,
                                    DataModel |-> Generic(model)]
      BY <1>2, <1>6, <2>2, <3>1 DEF Extended
    <3> QED BY <3>1, <3>2 DEF Decoded
  <2>3. CASE m.kind = "updateDataModel"
    <3> PICK G, at, there : /\ G = Generic(model) /\ at = Placed(model, m)
                            /\ there = Placed(G, g)
      OBVIOUS
    <3>1. IsMessage(g) /\ m.Path # Relative /\ (m.Path # <<>> \/ ~m.Remove)
      BY <1>1, <2>3, ReceivedMessage DEF Verdict, Plain
    <3>2. a.created /\ ~Refused(model, at)
      BY <1>4, <1>6, <2>3 DEF Fatal
    <3>3. ~Refused(G, there) /\ Applied(G, there) = Generic(Applied(model, at))
      BY <1>2, <1>6, <2>3, <3>1, <3>2, GenericData
    <3>4. ~Fatal(r, g)
      BY <1>2, <1>5, <1>6, <2>3, <3>2, <3>3 DEF Fatal
    <3> PICK new : new = Applied(model, at)
      OBVIOUS
    <3>5. /\ Extended(a.spec, m) = [SurfaceID |-> id, CatalogID |-> catalog, Components |-> list,
                                    DataModel |-> new]
          /\ Extended(r.spec, g) = [SurfaceID |-> id, CatalogID |-> catalog, Components |-> list,
                                    DataModel |-> Generic(new)]
      BY <1>2, <1>6, <2>3, <3>3 DEF Extended
    <3> QED BY <3>4, <3>5 DEF Decoded
  <2>4. m.kind # "deleteSurface"
    BY <1>4 DEF Fatal
  <2>5. m.kind \in {"createSurface", "updateComponents", "updateDataModel", "deleteSurface"}
    BY DEF IsMessage
  <2> QED BY <2>1, <2>2, <2>3, <2>4, <2>5
<1> QED BY <1>2, <1>3, <1>4, <1>5, <1>7 DEF Reads

\* The author is at the end of a run over what is read of the stream.
RunInv ==
    reader = "author" => \E run : IsRun(run, stream, pos) /\ Is(run[pos])

\* The client's messages are those of an author who has come to the end of a run, and the
\* client mirrors that run if they were valid and what the wire can carry, and goes through
\* the same one if the values were of the types of JSON.
ClientInv ==
    reader = "client" =>
        \E run, sent :
            /\ \A i \in 1..Len(stream) : /\ IsMessage(sent[i]) /\ stream[i] = Received(sent[i])
                                         /\ earlier.plain => Plain(sent[i])
                                         /\ earlier.generic => GenericValue(sent[i])
            /\ IsRun(run, sent, Len(stream))
            /\ earlier.valid <=> run[Len(stream)].valid
            /\ earlier.ok \in BOOLEAN
            /\ earlier.ok <=> /\ run[Len(stream)].created /\ run[Len(stream)].updated
                              /\ ~run[Len(stream)].failed
            /\ earlier.spec = run[Len(stream)].spec
            /\ earlier.valid /\ earlier.plain => \E r : Is(r) /\ Mirrors(run[pos], r)
            /\ earlier.valid /\ earlier.plain /\ earlier.generic => Is(run[pos])

\* An author who has sent nothing is at the start of a run.
LEMMA InitRuns ==
    ASSUME Init
    PROVE  RunInv /\ ClientInv
<1> PICK r : r = [open |-> open, valid |-> valid, created |-> created, updated |-> updated,
                  failed |-> failed, spec |-> spec]
  OBVIOUS
<1>1. Is(r) /\ Starts(r) /\ pos = 0 /\ reader = "author"
  BY DEF Init, Is, Starts
<1> PICK run : run = [i \in {0} |-> r]
  OBVIOUS
<1>2. run[0] = r /\ 1..0 = {} /\ 0..0 = {0}
  OBVIOUS
<1>3. IsRun(run, stream, 0)
  BY <1>1, <1>2, EmptySpecIsSurfaceSpec DEF IsRun, Starts
<1> QED BY <1>1, <1>2, <1>3 DEF RunInv, ClientInv

\* One more message read is one more step of the run.
LEMMA LongerRun ==
    ASSUME NEW n \in Nat, NEW run, NEW messages, IsRun(run, messages, n),
           NEW r, Reads(run[n], messages[n + 1], r), IsSurfaceSpec(r.spec)
    PROVE  \E longer : IsRun(longer, messages, n + 1) /\ longer[n + 1] = r
<1> PICK longer : longer = [i \in 0..(n + 1) |-> IF i <= n THEN run[i] ELSE r]
  OBVIOUS
<1>1. (\A i \in 0..n : longer[i] = run[i]) /\ longer[n + 1] = r
  OBVIOUS
<1>2. Starts(longer[0])
  BY <1>1 DEF IsRun
<1>3. ASSUME NEW i \in 1..(n + 1)
      PROVE  Reads(longer[i - 1], messages[i], longer[i])
  <2>1. CASE i = n + 1
    <3>1. i - 1 = n /\ longer[i - 1] = run[n] /\ longer[i] = r
      BY <1>1, <2>1
    <3> QED BY <2>1, <3>1
  <2>2. CASE i # n + 1
    <3>1. i \in 1..n /\ i - 1 \in 0..n /\ i \in 0..n
      BY <2>2
    <3> QED BY <1>1, <3>1 DEF IsRun
  <2> QED BY <2>1, <2>2
<1>4. ASSUME NEW i \in 0..(n + 1), longer[n + 1].valid
      PROVE  longer[i].valid
  <2>1. run[n].valid
    BY <1>1, <1>4 DEF Reads
  <2>2. CASE i = n + 1
    BY <1>4, <2>2
  <2>3. CASE i # n + 1
    <3>1. i \in 0..n
      BY <2>3
    <3> QED BY <1>1, <2>1, <3>1 DEF IsRun
  <2> QED BY <2>2, <2>3
<1>5. ASSUME NEW i \in 0..(n + 1)
      PROVE  IsSurfaceSpec(longer[i].spec)
  <2>1. i \in 0..n \/ i = n + 1
    OBVIOUS
  <2> QED BY <1>1, <2>1 DEF IsRun
<1>6. IsRun(longer, messages, n + 1)
  BY <1>2, <1>3, <1>4, <1>5 DEF IsRun
<1> QED BY <1>1, <1>6

\* Author and client go on along their runs.
LEMMA ReadKeepsRuns ==
    ASSUME OneSurfaceInv, TypedInv, RunInv, ClientInv, Read
    PROVE  RunInv' /\ ClientInv'
<1> PICK n, m : n = pos /\ m = stream[n + 1]
  OBVIOUS
<1>1. /\ pos' = n + 1 /\ UNCHANGED <<reader, stream, earlier>>
      /\ n \in Nat /\ n < Len(stream) /\ Len(stream) \in Nat
  BY DEF Read, AtEnd, OneSurfaceInv, IsStream
<1>2. IsMessage(m)
  BY <1>1 DEF TypedInv
<1> PICK r : r = [open |-> open', valid |-> valid', created |-> created', updated |-> updated',
                  failed |-> failed', spec |-> spec']
  OBVIOUS
<1>3. Is(r)'
  BY DEF Is
<1>4. IsSurfaceSpec(r.spec) /\ \A q : Is(q) => Reads(q, m, r)
  <2>1. IsSurfaceSpec(r.spec)
    BY ReadKeepsTypes DEF TypedInv
  <2> QED BY <1>2, <1>3, <2>1, ReadReads
<1>5. RunInv'
  <2> SUFFICES ASSUME reader = "author"
               PROVE  \E run : IsRun(run, stream', pos') /\ Is(run[n + 1])'
    BY <1>1 DEF RunInv
  <2>1. PICK run : IsRun(run, stream, n) /\ Is(run[n])
    BY DEF RunInv
  <2>2. PICK longer : IsRun(longer, stream, n + 1) /\ longer[n + 1] = r
    BY <1>1, <1>4, <2>1, LongerRun
  <2> QED BY <1>1, <1>3, <2>2
<1>6. ClientInv'
  <2> SUFFICES ASSUME reader = "client"
               PROVE  ClientInv'
    BY <1>1 DEF ClientInv
  <2> PICK len, e : len = Len(stream) /\ e = earlier
    OBVIOUS
  <2>1. PICK run, sent :
            /\ \A i \in 1..len : /\ IsMessage(sent[i]) /\ stream[i] = Received(sent[i])
                                 /\ e.plain => Plain(sent[i])
                                 /\ e.generic => GenericValue(sent[i])
            /\ IsRun(run, sent, len)
            /\ e.valid <=> run[len].valid
            /\ e.ok \in BOOLEAN
            /\ e.ok <=> run[len].created /\ run[len].updated /\ ~run[len].failed
            /\ e.spec = run[len].spec
            /\ e.valid /\ e.plain => \E q : Is(q) /\ Mirrors(run[n], q)
            /\ e.valid /\ e.plain /\ e.generic => Is(run[n])
    BY DEF ClientInv
  <2>2. ASSUME e.valid, e.plain PROVE \E q : Is(q)' /\ Mirrors(run[n + 1], q)
    <3>1. n + 1 \in 1..len /\ n + 1 \in 0..len /\ (n + 1) - 1 = n /\ n \in 0..len
      BY <1>1
    <3> PICK a, b, s : a = run[n] /\ b = run[n + 1] /\ s = sent[n + 1]
      OBVIOUS
    <3>2. Reads(a, s, b) /\ b.valid /\ IsSurfaceSpec(a.spec)
      BY <2>1, <2>2, <3>1 DEF IsRun
    <3>3. IsMessage(s) /\ Plain(s) /\ m = Received(s)
      BY <2>1, <2>2, <3>1
    <3>4. PICK q : Is(q) /\ Mirrors(a, q)
      BY <2>1, <2>2
    <3>5. Reads(q, Received(s), r)
      BY <1>4, <3>3, <3>4
    <3>6. Mirrors(b, r)
      BY <3>2, <3>3, <3>4, <3>5, ReceivedMirrors
    <3> QED BY <1>3, <3>6
  <2>3. ASSUME e.valid, e.plain, e.generic PROVE Is(run[n + 1])'
    <3>1. n + 1 \in 1..len /\ n + 1 \in 0..len /\ (n + 1) - 1 = n
      BY <1>1
    <3> PICK a, b, s : a = run[n] /\ b = run[n + 1] /\ s = sent[n + 1]
      OBVIOUS
    <3>2. Reads(a, s, b) /\ b.valid
      BY <2>1, <2>3, <3>1 DEF IsRun
    <3>3. IsMessage(s) /\ Plain(s) /\ GenericValue(s) /\ m = Received(s) /\ Is(a)
      BY <2>1, <2>3, <3>1
    <3>4. Reads(a, Received(s), r)
      BY <1>4, <3>3
    <3>5. /\ r.open = b.open /\ r.valid /\ (r.created <=> b.created)
          /\ (r.updated <=> b.updated) /\ (r.failed <=> b.failed) /\ r.spec = b.spec
      BY <3>2, <3>3, <3>4, ReceivedAlike
    <3> QED BY <1>3, <3>2, <3>5 DEF Is
  <2> QED BY <1>1, <2>1, <2>2, <2>3 DEF ClientInv
<1> QED BY <1>5, <1>6

\* The client starts over at the beginning of the run the author came to the end of.
LEMMA DeliverRuns ==
    ASSUME OneSurfaceInv, TypedInv, RunInv, Deliver
    PROVE  ClientInv'
<1> PICK sent, len : sent = stream /\ len = Len(stream)
  OBVIOUS
<1>1. /\ reader = "author" /\ pos = len /\ reader' = "client" /\ pos' = 0
      /\ stream' = [i \in DOMAIN sent |-> Received(sent[i])]
      /\ open' = {} /\ valid' = TRUE
      /\ created' = FALSE /\ updated' = FALSE /\ failed' = FALSE /\ spec' = EmptySpec
      /\ earlier' = [valid |-> valid, ok |-> ok, spec |-> spec,
                     plain |-> \A i \in DOMAIN sent : Plain(sent[i]),
                     generic |-> \A i \in DOMAIN sent : GenericValue(sent[i])]
  BY DEF Deliver, PassOn, AtEnd
<1>2. PICK run : IsRun(run, sent, len) /\ Is(run[len])
  BY <1>1 DEF RunInv
<1>3. len \in Nat /\ DOMAIN sent = 1..len
  BY DEF OneSurfaceInv, IsStream
<1>4. Len(stream') = len /\ \A i \in 1..len : stream'[i] = Received(sent[i])
  BY <1>1, <1>3
<1>5. \A i \in 1..len : IsMessage(sent[i])
  BY DEF TypedInv
<1>6. /\ earlier'.plain => \A i \in 1..len : Plain(sent[i])
      /\ earlier'.generic => \A i \in 1..len : GenericValue(sent[i])
  BY <1>1, <1>3
<1>7. /\ earlier'.valid <=> run[len].valid
      /\ earlier'.spec = run[len].spec
  BY <1>1, <1>2 DEF Is
<1>8. earlier'.ok = ok
  BY <1>1
<1>9. /\ earlier'.ok \in BOOLEAN
      /\ earlier'.ok <=> run[len].created /\ run[len].updated /\ ~run[len].failed
  BY <1>2, <1>8 DEF Is, ok
<1>10. Is(run[0])'
  <2>1. Starts(run[0])
    BY <1>2 DEF IsRun
  <2> QED BY <1>1, <2>1 DEF Is, Starts
<1>11. Mirrors(run[0], run[0])
  <2>1. Starts(run[0])
    BY <1>2 DEF IsRun
  <2> PICK empty : empty = EmptySpec
    OBVIOUS
  <2>2. empty = [SurfaceID |-> Empty, CatalogID |-> Empty, Components |-> <<>>,
                 DataModel |-> NoData]
    BY DEF EmptySpec
  <2>3. Generic(NoData) = NoData
    BY GenericModel DEF IsModel
  <2>4. Decoded(empty) = empty
    BY <2>2, <2>3 DEF Decoded
  <2> QED BY <2>1, <2>4 DEF Mirrors, Starts
<1> QED BY <1>1, <1>2, <1>4, <1>5, <1>6, <1>7, <1>9, <1>10, <1>11 DEF ClientInv

\* A client reads what the author meant: whatever the author sends, if it is valid and holds
\* only what the wire can carry, arrives valid, and comes to the same spec but for the Go types
\* of its data wherever the author's came to one; with values of the types of JSON it comes to
\* that spec, or is refused, exactly where the author's was.
THEOREM WireAlwaysKeepsMeaning == Spec => []WireKeepsMeaning
<1>1. Init => RunInv /\ ClientInv
  BY InitRuns
<1>2. OneSurfaceInv /\ TypedInv /\ RunInv /\ ClientInv /\ [Next]_vars => RunInv' /\ ClientInv'
  <2> SUFFICES ASSUME OneSurfaceInv, TypedInv, RunInv, ClientInv, [Next]_vars
               PROVE  RunInv' /\ ClientInv'
    OBVIOUS
  <2>0. pos \in Nat /\ pos <= Len(stream) /\ \E S : stream \in Seq(S)
    BY DEF OneSurfaceInv, IsStream
  <2>1. ASSUME reader = "author", UNCHANGED <<reader, pos, validatorVars, decompilerVars>>,
               \A i \in 1..pos : stream'[i] = stream[i]
        PROVE  RunInv' /\ ClientInv'
    <3>1. PICK run : IsRun(run, stream, pos) /\ Is(run[pos])
      BY <2>1 DEF RunInv
    <3>2. IsRun(run, stream', pos)
      BY <2>1, <3>1 DEF IsRun
    <3>3. Is(run[pos])'
      BY <2>1, <3>1 DEF Is, validatorVars, decompilerVars
    <3> QED BY <2>1, <3>2, <3>3 DEF RunInv, ClientInv
  <2>2. ASSUME NEW m \in Wire, Send(m) PROVE RunInv' /\ ClientInv'
    <3> PICK S : stream \in Seq(S)
      BY <2>0
    <3>1. stream' = Append(stream, m)
      BY <2>2 DEF Send
    <3>2. stream \in Seq(S \cup {m}) /\ m \in S \cup {m}
      OBVIOUS
    <3>3. (\A i \in 1..Len(stream) : stream'[i] = stream[i]) /\ Len(stream) \in Nat
      BY <3>1, <3>2, AppendProperties
    <3>4. \A i \in 1..pos : stream'[i] = stream[i]
      BY <2>0, <3>3
    <3> QED BY <2>1, <2>2, <3>4 DEF Send
  <2>3. ASSUME NEW s \in Specs, CompileSpec(s) PROVE RunInv' /\ ClientInv'
    <3>1. stream = <<>>
      BY <2>3 DEF CompileSpec
    <3>2. 1..pos = {}
      BY <2>0, <3>1
    <3> QED BY <2>1, <2>3, <3>2 DEF CompileSpec
  <2>4. CASE Read
    BY <2>4, ReadKeepsRuns
  <2>5. CASE Deliver
    <3>1. RunInv'
      BY <2>5 DEF Deliver, PassOn, RunInv
    <3> QED BY <2>5, <3>1, DeliverRuns
  <2>6. CASE Recompile
    BY <2>6 DEF Recompile, PassOn, RunInv, ClientInv
  <2>7. CASE UNCHANGED vars
    <3>1. \A r : Is(r)' <=> Is(r)
      BY <2>7 DEF vars, validatorVars, decompilerVars, Is
    <3> QED BY <2>7, <3>1 DEF vars, RunInv, ClientInv
  <2> QED BY <2>2, <2>3, <2>4, <2>5, <2>6, <2>7 DEF Next
<1>3. OneSurfaceInv /\ ClientInv => WireKeepsMeaning
  <2> SUFFICES ASSUME OneSurfaceInv, ClientInv, reader = "client", AtEnd, earlier.valid, earlier.plain
               PROVE  /\ valid
                      /\ earlier.ok => ok /\ spec = Decoded(earlier.spec)
                      /\ earlier.generic => ok = earlier.ok /\ (ok => spec = earlier.spec)
    BY DEF WireKeepsMeaning, Decoded
  <2>1. PICK run : /\ earlier.valid <=> run[pos].valid
                   /\ earlier.ok \in BOOLEAN
                   /\ earlier.ok <=> run[pos].created /\ run[pos].updated /\ ~run[pos].failed
                   /\ earlier.spec = run[pos].spec
                   /\ \E r : Is(r) /\ Mirrors(run[pos], r)
                   /\ earlier.generic => Is(run[pos])
    BY DEF ClientInv, AtEnd
  <2>2. PICK r : Is(r) /\ Mirrors(run[pos], r)
    BY <2>1
  <2>3. valid /\ (earlier.ok => ok /\ spec = Decoded(earlier.spec))
    BY <2>1, <2>2 DEF Is, Mirrors, ok
  <2>4. earlier.generic => (ok <=> earlier.ok) /\ spec = earlier.spec
    BY <2>1 DEF Is, ok
  <2>5. ok \in BOOLEAN
    BY DEF ok
  <2> QED BY <2>1, <2>3, <2>4, <2>5
<1> QED BY <1>1, <1>2, <1>3, OneSurfaceInvCorrect, SurfaceTypeCorrect, PTL DEF Spec
=============================================================================
