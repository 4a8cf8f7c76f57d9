-------------------------- MODULE Requests_proofs --------------------------
(***************************************************************************)
(* What requests promise, for any settings, statuses, numbers of attempts, *)
(* of parts of a stream and of messages of a conversation.                 *)
(***************************************************************************)
EXTENDS Requests, SequenceTheorems, TLAPS

\* The records have their fields.
Shape ==
    /\ req = [method |-> req.method, watched |-> req.watched, params |-> req.params,
              messages |-> req.messages, attempt |-> req.attempt, text |-> req.text,
              object |-> req.object]
    /\ told = [hooks |-> told.hooks, chunks |-> told.chunks, object |-> told.object]
    /\ due = [params |-> due.params, history |-> due.history, chunks |-> due.chunks,
              partial |-> due.partial, final |-> due.final, failure |-> due.failure]
    /\ count = [requests |-> count.requests, settings |-> count.settings,
                messages |-> count.messages, parts |-> count.parts]

\* Where a request is says what it is and how many attempts it has made.
PlaceInv ==
    /\ at \in {"idle", "prepare", "started", "attempt", "asked", "backoff", "streaming"}
    /\ at # "idle" => req.method \in Methods /\ req.watched \in BOOLEAN /\ (req.watched => req.method.stream)
    /\ at \in {"prepare", "started"} => req.attempt = 0
    /\ at = "attempt" => req.attempt \in 0..(MaxAttempts - 1)
    /\ at \in {"asked", "streaming"} => req.attempt \in 1..MaxAttempts
    /\ at = "streaming" => req.method.stream
    /\ at = "backoff" => req.attempt \in 1..(MaxAttempts - 1) /\ ~req.method.stream

\* A cached agent has the settings of the analyzer.
SettingsInv ==
    /\ cached = None \/ cached = config
    /\ req.params = due.params

InCall == at \in {"attempt", "asked", "backoff", "streaming"}

\* A running call's slice ends before anything a conversation can still write.
HistoryInv ==
    /\ arrays \in Seq(Seq(Nat)) /\ Len(arrays) >= 1 /\ arrays[1] = <<>>
    /\ count.messages \in Nat
    /\ conv \in [array: 1..Len(arrays), len: Nat] /\ conv.len <= Len(arrays[conv.array])
    /\ InCall =>
         /\ req.messages \in [array: 1..Len(arrays), len: Nat]
         /\ req.messages.len <= Len(arrays[req.messages.array])
         /\ req.messages.array = conv.array => req.messages.len <= conv.len
         /\ Slice(req.messages) = due.history

Provided == [type |-> "provider", retryable |-> TRUE]

\* Behind every failure that was not returned there is an attempt to come.
RetryInv ==
    /\ at = "backoff" => due.failure = Provided
    /\ RetriesAreSpent

HookInv ==
    /\ ctxErr = None \/ ctxErr.type \in {"canceled", "deadline"}
    /\ at = "prepare" => told.hooks = <<>>
    /\ at \notin {"idle", "prepare"} => told.hooks = << <<"start">> >>
    /\ Returned => HooksAgree

Written(n) == [i \in 1..n |-> i]

TextInv ==
    /\ due.chunks \in Nat
    /\ at \in {"prepare", "started", "attempt", "asked", "backoff"} =>
         req.text = <<>> /\ told.chunks = <<>> /\ due.chunks = 0
    /\ at = "streaming" =>
         /\ req.text = Written(due.chunks)
         /\ ~req.method.typed => told.chunks = IF req.watched THEN req.text ELSE <<>>
    /\ Returned => TextAgrees

Over(object, into) == IF object = None THEN into ELSE Decode(object, into)

ObjectInv ==
    /\ at \notin {"idle", "streaming"} => due.partial = None
    /\ at # "idle" =>
         /\ req.object = Over(due.partial, ZeroObject)
         /\ told.object = IF due.partial = None THEN None ELSE req.object
    /\ Returned => ObjectAgrees

-----------------------------------------------------------------------------

USE DEF vars, appVars, InApplication, Return, Failed, Tell, Fail, Succeed, Returned

LEMMA ShapeStep == Shape /\ [Next]_vars => Shape'
<1> SUFFICES ASSUME Shape, [Next]_vars PROVE Shape' OBVIOUS
<1> USE DEF Shape
<1>1. CASE UNCHANGED vars BY <1>1
<1>2. CASE Application BY <1>2 DEF Application, With, AddMessage, Clear
<1>3. CASE Request
  <2>1. ASSUME NEW m \in Methods, NEW watched \in BOOLEAN, Ask(m, watched) PROVE Shape'
    <3>1. PICK p, q : \/ req' = [NoRequest EXCEPT !.method = m, !.watched = watched, !.params = p, !.object = ZeroObject]
                         /\ due' = [NothingDue EXCEPT !.params = q]
                      \/ req' = NoRequest /\ due' = NothingDue
      BY <2>1, Zenon DEF Ask
    <3>2. told' = NothingTold /\ count' = [count EXCEPT !.requests = @ + 1, !.parts = 0]
      BY <2>1 DEF Ask
    <3> QED BY <3>1, <3>2 DEF NoRequest, NothingTold, NothingDue
  <2>2. CASE PrepareFails \/ Prepare BY <2>2 DEF PrepareFails, Prepare
  <2>3. CASE BuildCall BY <2>3 DEF BuildCall
  <2>4. CASE AttemptRefused BY <2>4 DEF AttemptRefused
  <2>5. CASE BeginAttempt BY <2>5 DEF BeginAttempt
  <2>6. ASSUME NEW e \in ProviderErrors \cup OtherErrors, AttemptFails(e) PROVE Shape'
    BY <2>6 DEF AttemptFails
  <2>7. CASE BackoffEnds BY <2>7 DEF BackoffEnds
  <2> QED BY <1>3, <2>1, <2>2, <2>3, <2>4, <2>5, <2>6, <2>7 DEF Request
<1>4. CASE Answer
  <2>1. CASE Generated BY <2>1 DEF Generated
  <2>2. ASSUME NEW object, ObjectGenerated(object) PROVE Shape' BY <2>2 DEF ObjectGenerated
  <2>3. CASE StreamOpens BY <2>3 DEF StreamOpens
  <2>4. ASSUME NEW refused, TextDelta(refused) PROVE Shape' BY <2>4 DEF TextDelta, NextPart
  <2>5. CASE TextEnds BY <2>5 DEF TextEnds
  <2>6. CASE RawDelta BY <2>6 DEF RawDelta, NextPart
  <2>7. ASSUME NEW object, Partial(object) PROVE Shape' BY <2>7 DEF Partial, NextPart
  <2>8. ASSUME NEW object, ObjectEnds(object) PROVE Shape' BY <2>8 DEF ObjectEnds
  <2> QED BY <1>4, <2>1, <2>2, <2>3, <2>4, <2>5, <2>6, <2>7, <2>8 DEF Answer
<1>5. CASE \E type \in {"canceled", "deadline"} : ContextEnds(type) BY <1>5 DEF ContextEnds
<1> QED BY <1>1, <1>2, <1>3, <1>4, <1>5 DEF Next

\* What Ask does to a request it takes, and to one it refuses.
LEMMA AskEffect ==
    ASSUME Shape, NEW m \in Methods, NEW watched \in BOOLEAN, Ask(m, watched)
    PROVE  /\ at = "idle" /\ told' = NothingTold /\ ctxErr' = None
           /\ UNCHANGED <<config, arrays, conv>> /\ count'.messages = count.messages
           /\ due'.chunks = 0 /\ due'.partial = None /\ due'.final = None
           /\ req'.attempt = 0 /\ req'.text = <<>>
           /\ \/ /\ at' = "prepare" /\ outcome' = None
                 /\ req'.method = m /\ req'.watched = watched /\ req'.object = ZeroObject
              \/ /\ at' = "idle" /\ outcome' = Failed("invalid")
                 /\ req'.params = None /\ due'.params = None
                 /\ req'.watched = FALSE
<1>1. PICK p, q :
        \/ /\ req' = [NoRequest EXCEPT !.method = m, !.watched = watched, !.params = p, !.object = ZeroObject]
           /\ due' = [NothingDue EXCEPT !.params = q]
           /\ at' = "prepare" /\ outcome' = None
        \/ req' = NoRequest /\ due' = NothingDue /\ at' = "idle" /\ outcome' = Failed("invalid")
  BY Zenon DEF Ask
<1>2. /\ at = "idle" /\ told' = NothingTold /\ ctxErr' = None /\ UNCHANGED <<config, arrays, conv>>
      /\ count' = [count EXCEPT !.requests = @ + 1, !.parts = 0]
  BY DEF Ask
<1>3. count'.messages = count.messages BY <1>2 DEF Shape
<1>4. ASSUME req' = NoRequest, due' = NothingDue
      PROVE  /\ due'.chunks = 0 /\ due'.partial = None /\ due'.final = None
             /\ req'.attempt = 0 /\ req'.text = <<>>
             /\ req'.params = None /\ due'.params = None /\ req'.watched = FALSE
  BY <1>4 DEF NoRequest, NothingDue
<1>5. ASSUME req' = [NoRequest EXCEPT !.method = m, !.watched = watched, !.params = p, !.object = ZeroObject],
             due' = [NothingDue EXCEPT !.params = q]
      PROVE  /\ due'.chunks = 0 /\ due'.partial = None /\ due'.final = None
             /\ req'.attempt = 0 /\ req'.text = <<>>
             /\ req'.method = m /\ req'.watched = watched /\ req'.object = ZeroObject
  BY <1>5 DEF NoRequest, NothingDue
<1> QED BY <1>1, <1>2, <1>3, <1>4, <1>5

\* Every step goes on from its place.
LEMMA PlaceStep ==
    ASSUME RequestsAssumption, Shape, PlaceInv, [Next]_vars PROVE PlaceInv'
<1>1. CASE UNCHANGED vars BY <1>1 DEF PlaceInv, Shape, RequestsAssumption
<1>2. CASE Application
  <2>1. ASSUME NEW c, With(c) PROVE PlaceInv' BY <2>1 DEF With, PlaceInv, Shape, RequestsAssumption
  <2>2. CASE AddMessage BY <2>2 DEF AddMessage, PlaceInv, Shape, RequestsAssumption
  <2>3. CASE Clear BY <2>3 DEF Clear, PlaceInv, Shape, RequestsAssumption
  <2> QED BY <1>2, <2>1, <2>2, <2>3 DEF Application
<1>3. CASE Request
  <2>1. ASSUME NEW m \in Methods, NEW watched \in BOOLEAN, watched => m.stream, Ask(m, watched) PROVE PlaceInv'
    BY <2>1, AskEffect DEF PlaceInv, Shape, RequestsAssumption
  <2>2. CASE PrepareFails BY <2>2 DEF PrepareFails, PlaceInv, Shape, RequestsAssumption
  <2>3. CASE Prepare BY <2>3 DEF Prepare, PlaceInv, Shape, RequestsAssumption
  <2>4. CASE BuildCall BY <2>4 DEF BuildCall, PlaceInv, Shape, RequestsAssumption
  <2>5. CASE AttemptRefused BY <2>5 DEF AttemptRefused, PlaceInv, Shape, RequestsAssumption
  <2>6. CASE BeginAttempt BY <2>6 DEF BeginAttempt, PlaceInv, Shape, RequestsAssumption
  <2>7. ASSUME NEW e \in ProviderErrors \cup OtherErrors, AttemptFails(e) PROVE PlaceInv'
    BY <2>7 DEF AttemptFails, RetryFollows, PlaceInv, Shape, RequestsAssumption
  <2>8. CASE BackoffEnds BY <2>8 DEF BackoffEnds, PlaceInv, Shape, RequestsAssumption
  <2> QED BY <1>3, <2>1, <2>2, <2>3, <2>4, <2>5, <2>6, <2>7, <2>8 DEF Request
<1>4. CASE Answer
  <2>1. CASE Generated BY <2>1 DEF Generated, PlaceInv, Shape, RequestsAssumption
  <2>2. ASSUME NEW object \in Objects(2) \cup {None}, ObjectGenerated(object) PROVE PlaceInv'
    BY <2>2 DEF ObjectGenerated, PlaceInv, Shape, RequestsAssumption
  <2>3. CASE StreamOpens BY <2>3 DEF StreamOpens, PlaceInv, Shape, RequestsAssumption
  <2>4. ASSUME NEW refused \in BOOLEAN, TextDelta(refused) PROVE PlaceInv'
    BY <2>4 DEF TextDelta, NextPart, PlaceInv, Shape, RequestsAssumption
  <2>5. CASE TextEnds BY <2>5 DEF TextEnds, PlaceInv, Shape, RequestsAssumption
  <2>6. CASE RawDelta BY <2>6 DEF RawDelta, NextPart, PlaceInv, Shape, RequestsAssumption
  <2>7. ASSUME NEW object \in Objects(1) \cup {None}, Partial(object) PROVE PlaceInv'
    BY <2>7 DEF Partial, NextPart, PlaceInv, Shape, RequestsAssumption
  <2>8. ASSUME NEW object \in Objects(2) \cup {None}, ObjectEnds(object) PROVE PlaceInv'
    BY <2>8 DEF ObjectEnds, PlaceInv, Shape, RequestsAssumption
  <2> QED BY <1>4, <2>1, <2>2, <2>3, <2>4, <2>5, <2>6, <2>7, <2>8 DEF Answer
<1>5. ASSUME NEW type \in {"canceled", "deadline"}, ContextEnds(type) PROVE PlaceInv'
  BY <1>5 DEF ContextEnds, PlaceInv, Shape, RequestsAssumption
<1> QED BY <1>1, <1>2, <1>3, <1>4, <1>5 DEF Next

\* An error has a kind of its own, and is worth a repetition in three cases only.
LEMMA KindOfError ==
    ASSUME NEW e, e.type \in {"canceled", "deadline", "no_object", "provider", "other"}
    PROVE  /\ Classify(e) \notin {"ok", "invalid"}
           /\ Classify(e) \in RetryableKinds => e.type \in {"provider", "deadline"}
<1>1. CASE e.type # "provider" BY <1>1 DEF Classify, RetryableKinds
<1>2. CASE e.type = "provider"
  <2>1. Classify(e) = classifyProviderError(e) BY <1>2 DEF Classify
  <2>2. classifyProviderError(e) \notin {"ok", "invalid"}
    <3>1. CASE e.tooLarge BY <3>1 DEF classifyProviderError
    <3>2. CASE ~e.tooLarge /\ e.status \in DOMAIN KindOfStatus
      BY <3>2 DEF classifyProviderError, KindOfStatus
    <3>3. CASE ~e.tooLarge /\ e.status \notin DOMAIN KindOfStatus BY <3>3 DEF classifyProviderError
    <3> QED BY <3>1, <3>2, <3>3
  <2> QED BY <1>2, <2>1, <2>2
<1> QED BY <1>1, <1>2

\* A change of settings drops the agent; a request in progress has its own.
LEMMA SettingsStep ==
    ASSUME Shape, SettingsInv, [Next]_vars PROVE SettingsInv'
<1>1. CASE UNCHANGED vars BY <1>1 DEF SettingsInv, Shape
<1>2. CASE Application
  <2>1. ASSUME NEW c, With(c) PROVE SettingsInv' BY <2>1 DEF With, SettingsInv, Shape
  <2>2. CASE AddMessage BY <2>2 DEF AddMessage, SettingsInv, Shape
  <2>3. CASE Clear BY <2>3 DEF Clear, SettingsInv, Shape
  <2> QED BY <1>2, <2>1, <2>2, <2>3 DEF Application
<1>3. CASE Request
  <2>1. ASSUME NEW m \in Methods, NEW watched \in BOOLEAN, watched => m.stream, Ask(m, watched) PROVE SettingsInv'
    <3>1. CASE at' = "prepare"
      <4> DEFINE agent == IF m.typed THEN DefaultConfig ELSE IF cached # None THEN cached ELSE config
      <4>1. agent = IF m.typed THEN DefaultConfig ELSE config BY DEF SettingsInv
      <4>2. Valid(agent) BY <2>1, <3>1 DEF Ask
      <4>3. /\ cached' = IF m.typed THEN cached ELSE agent
            /\ req'.params = Params(Defaulted(agent))
            /\ due'.params = Params(Defaulted(IF m.typed THEN DefaultConfig ELSE config))
        <5> HIDE DEF agent
        <5> QED BY <2>1, <4>2 DEF Ask, NoRequest, NothingDue, agent
      <4> HIDE DEF agent
      <4> QED BY <2>1, <4>1, <4>3, AskEffect DEF SettingsInv
    <3>2. CASE at' # "prepare"
      <4>1. UNCHANGED cached BY <2>1, <3>2 DEF Ask
      <4> QED BY <2>1, <3>2, <4>1, AskEffect DEF SettingsInv
    <3> QED BY <3>1, <3>2
  <2>2. CASE PrepareFails BY <2>2 DEF PrepareFails, SettingsInv, Shape
  <2>3. CASE Prepare BY <2>3 DEF Prepare, SettingsInv, Shape
  <2>4. CASE BuildCall BY <2>4 DEF BuildCall, SettingsInv, Shape
  <2>5. CASE AttemptRefused BY <2>5 DEF AttemptRefused, SettingsInv, Shape
  <2>6. CASE BeginAttempt BY <2>6 DEF BeginAttempt, SettingsInv, Shape
  <2>7. ASSUME NEW e \in ProviderErrors \cup OtherErrors, AttemptFails(e) PROVE SettingsInv'
    BY <2>7 DEF AttemptFails, SettingsInv, Shape
  <2>8. CASE BackoffEnds BY <2>8 DEF BackoffEnds, SettingsInv, Shape
  <2> QED BY <1>3, <2>1, <2>2, <2>3, <2>4, <2>5, <2>6, <2>7, <2>8 DEF Request
<1>4. CASE Answer
  <2>1. CASE Generated BY <2>1 DEF Generated, SettingsInv, Shape
  <2>2. ASSUME NEW object \in Objects(2) \cup {None}, ObjectGenerated(object) PROVE SettingsInv'
    BY <2>2 DEF ObjectGenerated, SettingsInv, Shape
  <2>3. CASE StreamOpens BY <2>3 DEF StreamOpens, SettingsInv, Shape
  <2>4. ASSUME NEW refused \in BOOLEAN, TextDelta(refused) PROVE SettingsInv'
    BY <2>4 DEF TextDelta, NextPart, SettingsInv, Shape
  <2>5. CASE TextEnds BY <2>5 DEF TextEnds, SettingsInv, Shape
  <2>6. CASE RawDelta BY <2>6 DEF RawDelta, NextPart, SettingsInv, Shape
  <2>7. ASSUME NEW object \in Objects(1) \cup {None}, Partial(object) PROVE SettingsInv'
    BY <2>7 DEF Partial, NextPart, SettingsInv, Shape
  <2>8. ASSUME NEW object \in Objects(2) \cup {None}, ObjectEnds(object) PROVE SettingsInv'
    BY <2>8 DEF ObjectEnds, SettingsInv, Shape
  <2> QED BY <1>4, <2>1, <2>2, <2>3, <2>4, <2>5, <2>6, <2>7, <2>8 DEF Answer
<1>5. ASSUME NEW type \in {"canceled", "deadline"}, ContextEnds(type) PROVE SettingsInv'
  BY <1>5 DEF ContextEnds, SettingsInv, Shape
<1> QED BY <1>1, <1>2, <1>3, <1>4, <1>5 DEF Next

\* Messages are added behind every slice in use or in an array of their own.
LEMMA HistoryStep ==
    ASSUME Shape, HistoryInv, PlaceInv, [Next]_vars PROVE HistoryInv'
<1>1. CASE UNCHANGED vars BY <1>1 DEF HistoryInv, InCall, Slice, Shape
<1>2. CASE Application
  <2>1. ASSUME NEW c, With(c) PROVE HistoryInv' BY <2>1 DEF With, HistoryInv, InCall, Slice, Shape
  <2>2. CASE AddMessage 
    <3> DEFINE n == conv.len
               old == arrays[conv.array]
               m == count.messages + 1
               new == [i \in 1..(IF n = 0 THEN 1 ELSE 2 * n) |->
                         IF i <= n THEN old[i] ELSE IF i = n + 1 THEN m ELSE 0]
    <3>1. /\ n \in Nat /\ old \in Seq(Nat) /\ m \in Nat /\ conv.array \in 1..Len(arrays) /\ n <= Len(old)
          /\ UNCHANGED <<at, req, due>> /\ count'.messages = m
      BY <2>2 DEF AddMessage, HistoryInv, Shape
    <3>2. arrays \in Seq(Seq(Nat)) /\ Len(arrays) \in Nat /\ Len(old) \in Nat
      BY <3>1, LenProperties DEF HistoryInv
    <3>3. CASE n < Len(old)
      <4>1. /\ arrays' = [arrays EXCEPT ![conv.array] = [old EXCEPT ![n + 1] = m]]
            /\ conv' = [conv EXCEPT !.len = n + 1]
        BY <2>2, <3>3 DEF AddMessage
      <4>2. /\ [old EXCEPT ![n + 1] = m] \in Seq(Nat)
            /\ Len([old EXCEPT ![n + 1] = m]) = Len(old)
            /\ \A i \in 1..n : [old EXCEPT ![n + 1] = m][i] = old[i]
        <5>1. n + 1 \in 1..Len(old) BY <3>1, <3>2, <3>3
        <5> HIDE DEF n, old, m
        <5>2. /\ [old EXCEPT ![n + 1] = m] \in Seq(Nat)
              /\ Len([old EXCEPT ![n + 1] = m]) = Len(old)
              /\ \A i \in 1..Len(old) : [old EXCEPT ![n + 1] = m][i] = IF i = n + 1 THEN m ELSE old[i]
          BY <3>1, <5>1, ExceptSeq
        <5> QED BY <3>1, <3>2, <3>3, <5>2
      <4> HIDE DEF n, old, m
      <4>3. /\ arrays' \in Seq(Seq(Nat)) /\ Len(arrays') = Len(arrays)
            /\ \A a \in 1..Len(arrays) : arrays'[a] = IF a = conv.array THEN [old EXCEPT ![n + 1] = m] ELSE arrays[a]
        BY <3>1, <3>2, <4>1, <4>2, ExceptSeq
      <4>4. conv' \in [array: 1..Len(arrays'), len: Nat] /\ conv'.array = conv.array /\ conv'.len = n + 1
        <5>1. conv \in [array: 1..Len(arrays), len: Nat] BY DEF HistoryInv
        <5>2. n + 1 \in Nat BY <3>1
        <5>3. conv' \in [array: 1..Len(arrays), len: Nat] /\ conv'.array = conv.array /\ conv'.len = n + 1
          BY <4>1, <5>1, <5>2
        <5> QED BY <4>3, <5>3
      <4>5. Len(arrays') >= 1 /\ arrays'[1] = <<>>
        <5>1. Len(arrays) >= 1 /\ arrays[1] = <<>> BY DEF HistoryInv
        <5>2. conv.array # 1 BY <3>1, <3>3, <5>1 DEF old
        <5> QED BY <4>3, <5>1, <5>2, <3>1
      <4>6. ASSUME InCall
            PROVE  /\ req.messages \in [array: 1..Len(arrays'), len: Nat]
                   /\ req.messages.len <= Len(arrays'[req.messages.array])
                   /\ req.messages.array = conv'.array => req.messages.len <= conv'.len
                   /\ SubSeq(arrays'[req.messages.array], 1, req.messages.len) = due.history
        <5> DEFINE a == req.messages.array
                   l == req.messages.len
        <5>1. /\ a \in 1..Len(arrays) /\ l \in Nat /\ l <= Len(arrays[a]) /\ (a = conv.array => l <= n)
              /\ SubSeq(arrays[a], 1, l) = due.history
              /\ req.messages \in [array: 1..Len(arrays), len: Nat]
          BY <4>6 DEF HistoryInv, Slice, n
        <5>2. SubSeq(arrays'[a], 1, l) = SubSeq(arrays[a], 1, l)
          <6>1. CASE a # conv.array BY <6>1, <5>1, <4>3
          <6>2. CASE a = conv.array
            <7>1. arrays[a] = old /\ l <= n BY <6>2, <5>1 DEF old
            <7>2. arrays'[a] = [old EXCEPT ![n + 1] = m] BY <6>2, <5>1, <4>3
            <7>3. SubSeq([old EXCEPT ![n + 1] = m], 1, l) = SubSeq(old, 1, l)
              BY <3>1, <5>1, <7>1, <4>2
            <7> QED BY <7>1, <7>2, <7>3
          <6> QED BY <6>1, <6>2
        <5>3. Len(arrays'[a]) = Len(arrays[a]) BY <4>2, <4>3, <5>1 DEF old
        <5> HIDE DEF a, l
        <5> QED BY <5>1, <5>2, <5>3, <4>3, <4>4, <3>1 DEF a, l
      <4>7. conv'.len <= Len(arrays'[conv'.array])
        <5>1. arrays'[conv'.array] = [old EXCEPT ![n + 1] = m] BY <3>1, <4>3, <4>4
        <5> QED BY <3>1, <3>2, <3>3, <4>2, <4>4, <5>1
      <4> QED BY <3>1, <4>3, <4>4, <4>5, <4>6, <4>7 DEF HistoryInv, InCall, Slice
    <3>4. CASE ~(n < Len(old))
      <4>1. arrays' = Append(arrays, new) /\ conv' = [array |-> Len(arrays) + 1, len |-> n + 1]
        BY <2>2, <3>4 DEF AddMessage
      <4>2. new \in Seq(Nat) /\ Len(new) >= n + 1
        <5> DEFINE k == IF n = 0 THEN 1 ELSE 2 * n
        <5>1. k \in Nat /\ k >= n + 1 BY <3>1
        <5>2. \A i \in 1..k : (IF i <= n THEN old[i] ELSE IF i = n + 1 THEN m ELSE 0) \in Nat
          <6>1. \A i \in 1..n : old[i] \in Nat BY <3>1, <3>2, ElementOfSeq
          <6> HIDE DEF n, old, m
          <6> QED BY <3>1, <5>1, <6>1
        <5> HIDE DEF k, n, old, m
        <5> QED BY <5>1, <5>2 DEF k
      <4> HIDE DEF n, old, m, new
      <4>3. /\ arrays' \in Seq(Seq(Nat)) /\ Len(arrays') = Len(arrays) + 1
            /\ \A a \in 1..Len(arrays) : arrays'[a] = arrays[a]
            /\ arrays'[Len(arrays) + 1] = new
        BY <3>2, <4>1, <4>2, AppendProperties
      <4>4. /\ conv' \in [array: 1..Len(arrays'), len: Nat]
            /\ conv'.array = Len(arrays) + 1 /\ conv'.len = n + 1
            /\ conv'.len <= Len(arrays'[conv'.array])
        BY <3>1, <3>2, <4>1, <4>2, <4>3
      <4>5. Len(arrays') >= 1 /\ arrays'[1] = <<>>
        BY <3>2, <4>3 DEF HistoryInv
      <4>6. ASSUME InCall
            PROVE  /\ req.messages \in [array: 1..Len(arrays'), len: Nat]
                   /\ req.messages.array # conv'.array
                   /\ arrays'[req.messages.array] = arrays[req.messages.array]
                   /\ req.messages.len <= Len(arrays[req.messages.array])
                   /\ Slice(req.messages) = due.history
        <5>1. /\ req.messages \in [array: 1..Len(arrays), len: Nat]
              /\ req.messages.len <= Len(arrays[req.messages.array])
              /\ Slice(req.messages) = due.history
          BY <4>6 DEF HistoryInv
        <5> QED BY <3>2, <4>3, <4>4, <5>1
      <4> QED BY <3>1, <4>3, <4>4, <4>5, <4>6 DEF HistoryInv, InCall, Slice
    <3> QED BY <3>3, <3>4
  <2>3. CASE Clear BY <2>3 DEF Clear, HistoryInv, InCall, Slice, Shape
  <2> QED BY <1>2, <2>1, <2>2, <2>3 DEF Application
<1>3. CASE Request
  <2>1. ASSUME NEW m \in Methods, NEW watched \in BOOLEAN, watched => m.stream, Ask(m, watched) PROVE HistoryInv'
    BY <2>1, AskEffect DEF HistoryInv, InCall, Slice, Shape
  <2>2. CASE PrepareFails BY <2>2 DEF PrepareFails, HistoryInv, InCall, Slice, Shape
  <2>3. CASE Prepare BY <2>3 DEF Prepare, HistoryInv, InCall, Slice, Shape
  <2>4. CASE BuildCall BY <2>4 DEF BuildCall, HistoryInv, InCall, Slice, Shape
  <2>5. CASE AttemptRefused BY <2>5 DEF AttemptRefused, HistoryInv, InCall, Slice, Shape
  <2>6. CASE BeginAttempt BY <2>6 DEF BeginAttempt, HistoryInv, InCall, Slice, Shape
  <2>7. ASSUME NEW e \in ProviderErrors \cup OtherErrors, AttemptFails(e) PROVE HistoryInv'
    BY <2>7 DEF AttemptFails, HistoryInv, InCall, Slice, Shape
  <2>8. CASE BackoffEnds BY <2>8 DEF BackoffEnds, HistoryInv, InCall, Slice, Shape
  <2> QED BY <1>3, <2>1, <2>2, <2>3, <2>4, <2>5, <2>6, <2>7, <2>8 DEF Request
<1>4. CASE Answer
  <2>1. CASE Generated BY <2>1 DEF Generated, HistoryInv, InCall, Slice, Shape
  <2>2. ASSUME NEW object \in Objects(2) \cup {None}, ObjectGenerated(object) PROVE HistoryInv'
    BY <2>2 DEF ObjectGenerated, HistoryInv, InCall, Slice, Shape
  <2>3. CASE StreamOpens BY <2>3 DEF StreamOpens, HistoryInv, InCall, Slice, Shape
  <2>4. ASSUME NEW refused \in BOOLEAN, TextDelta(refused) PROVE HistoryInv'
    BY <2>4 DEF TextDelta, NextPart, HistoryInv, InCall, Slice, Shape
  <2>5. CASE TextEnds BY <2>5 DEF TextEnds, HistoryInv, InCall, Slice, Shape
  <2>6. CASE RawDelta BY <2>6 DEF RawDelta, NextPart, HistoryInv, InCall, Slice, Shape
  <2>7. ASSUME NEW object \in Objects(1) \cup {None}, Partial(object) PROVE HistoryInv'
    BY <2>7 DEF Partial, NextPart, HistoryInv, InCall, Slice, Shape
  <2>8. ASSUME NEW object \in Objects(2) \cup {None}, ObjectEnds(object) PROVE HistoryInv'
    BY <2>8 DEF ObjectEnds, HistoryInv, InCall, Slice, Shape
  <2> QED BY <1>4, <2>1, <2>2, <2>3, <2>4, <2>5, <2>6, <2>7, <2>8 DEF Answer
<1>5. ASSUME NEW type \in {"canceled", "deadline"}, ContextEnds(type) PROVE HistoryInv'
  BY <1>5 DEF ContextEnds, HistoryInv, InCall, Slice, Shape
<1> QED BY <1>1, <1>2, <1>3, <1>4, <1>5 DEF Next

\* A failure is returned or retried.
LEMMA RetryStep ==
    ASSUME RequestsAssumption, Shape, PlaceInv, RetryInv, [Next]_vars PROVE RetryInv'
<1>1. CASE UNCHANGED vars
  BY <1>1 DEF RetryInv, RetriesAreSpent, Provided, Shape, RetryableKinds, PlaceInv
<1>2. CASE Application
  <2>1. ASSUME NEW c, With(c) PROVE RetryInv'
    BY <2>1 DEF With, RetryInv, RetriesAreSpent, Provided, Shape, RetryableKinds, PlaceInv
  <2>2. CASE AddMessage
    BY <2>2 DEF AddMessage, RetryInv, RetriesAreSpent, Provided, Shape, RetryableKinds, PlaceInv
  <2>3. CASE Clear
    BY <2>3 DEF Clear, RetryInv, RetriesAreSpent, Provided, Shape, RetryableKinds, PlaceInv
  <2> QED BY <1>2, <2>1, <2>2, <2>3 DEF Application
<1>3. CASE Request
  <2>1. ASSUME NEW m \in Methods, NEW watched \in BOOLEAN, watched => m.stream, Ask(m, watched) PROVE RetryInv'
    <3>1. at' = "prepare" \/ (at' = "idle" /\ outcome' = Failed("invalid")) BY <2>1, AskEffect
    <3>2. at' = "prepare" \/ (at' = "idle" /\ outcome'.kind = "invalid") BY <3>1
    <3> QED BY <3>2 DEF RetryInv, RetriesAreSpent, RetryableKinds
  <2>2. CASE PrepareFails
    BY <2>2 DEF PrepareFails, RetryInv, RetriesAreSpent, Provided, Shape, RetryableKinds, PlaceInv
  <2>3. CASE Prepare
    BY <2>3 DEF Prepare, RetryInv, RetriesAreSpent, Provided, Shape, RetryableKinds, PlaceInv
  <2>4. CASE BuildCall
    BY <2>4 DEF BuildCall, RetryInv, RetriesAreSpent, Provided, Shape, RetryableKinds, PlaceInv
  <2>5. CASE AttemptRefused
    BY <2>5 DEF AttemptRefused, RetryInv, RetriesAreSpent, Provided, Shape, RetryableKinds, PlaceInv
  <2>6. CASE BeginAttempt
    BY <2>6 DEF BeginAttempt, RetryInv, RetriesAreSpent, Provided, Shape, RetryableKinds, PlaceInv
  <2>7. ASSUME NEW e \in ProviderErrors \cup OtherErrors, AttemptFails(e) PROVE RetryInv'
    <3>1. /\ e.type \in {"canceled", "deadline", "no_object", "provider", "other"}
          /\ due'.failure = [type |-> e.type, retryable |-> e.retryable]
      BY <2>7 DEF AttemptFails, ProviderErrors, OtherErrors, Raw, Shape
    <3>2. CASE RetryFollows(e)
      <4>1. at' = "backoff" /\ outcome' = outcome BY <2>7, <3>2 DEF AttemptFails
      <4>2. e.type = "provider" /\ e.retryable = TRUE
        BY <3>2 DEF RetryFollows, IsRetryable, ProviderErrors, OtherErrors, Raw
      <4> QED BY <3>1, <4>1, <4>2 DEF RetryInv, RetriesAreSpent, Provided
    <3>3. CASE ~RetryFollows(e)
      <4>1. at' = "idle" /\ outcome'.kind = Classify(e) /\ UNCHANGED <<req, ctxErr>>
        BY <2>7, <3>3 DEF AttemptFails
      <4>2. req.attempt \in 1..MaxAttempts BY <2>7 DEF AttemptFails, PlaceInv
      <4>3. (Classify(e) \in RetryableKinds /\ Retrying /\ ~req.method.stream) =>
              \/ req.attempt = MaxAttempts
              \/ e.type = "deadline"
              \/ ~e.retryable
        BY <3>1, <3>3, <4>2, KindOfError DEF RetryFollows, IsRetryable, RequestsAssumption
      <4> QED BY <3>1, <4>1, <4>3 DEF RetryInv, RetriesAreSpent
    <3> QED BY <3>2, <3>3
  <2>8. CASE BackoffEnds
    BY <2>8 DEF BackoffEnds, RetryInv, RetriesAreSpent, Provided, Shape, RetryableKinds, PlaceInv
  <2> QED BY <1>3, <2>1, <2>2, <2>3, <2>4, <2>5, <2>6, <2>7, <2>8 DEF Request
<1>4. CASE Answer
  <2>1. CASE Generated
    BY <2>1 DEF Generated, RetryInv, RetriesAreSpent, Provided, Shape, RetryableKinds, PlaceInv
  <2>2. ASSUME NEW object \in Objects(2) \cup {None}, ObjectGenerated(object) PROVE RetryInv'
    BY <2>2 DEF ObjectGenerated, RetryInv, RetriesAreSpent, Provided, Shape, RetryableKinds, PlaceInv
  <2>3. CASE StreamOpens
    BY <2>3 DEF StreamOpens, RetryInv, RetriesAreSpent, Provided, Shape, RetryableKinds, PlaceInv
  <2>4. ASSUME NEW refused \in BOOLEAN, TextDelta(refused) PROVE RetryInv'
    BY <2>4 DEF TextDelta, NextPart, RetryInv, RetriesAreSpent, Provided, Shape, RetryableKinds, PlaceInv
  <2>5. CASE TextEnds
    BY <2>5 DEF TextEnds, RetryInv, RetriesAreSpent, Provided, Shape, RetryableKinds, PlaceInv
  <2>6. CASE RawDelta
    BY <2>6 DEF RawDelta, NextPart, RetryInv, RetriesAreSpent, Provided, Shape, RetryableKinds, PlaceInv
  <2>7. ASSUME NEW object \in Objects(1) \cup {None}, Partial(object) PROVE RetryInv'
    BY <2>7 DEF Partial, NextPart, RetryInv, RetriesAreSpent, Provided, Shape, RetryableKinds, PlaceInv
  <2>8. ASSUME NEW object \in Objects(2) \cup {None}, ObjectEnds(object) PROVE RetryInv'
    BY <2>8 DEF ObjectEnds, RetryInv, RetriesAreSpent, Provided, Shape, RetryableKinds, PlaceInv
  <2> QED BY <1>4, <2>1, <2>2, <2>3, <2>4, <2>5, <2>6, <2>7, <2>8 DEF Answer
<1>5. ASSUME NEW type \in {"canceled", "deadline"}, ContextEnds(type) PROVE RetryInv'
  BY <1>5 DEF ContextEnds, RetryInv, RetriesAreSpent, Provided, Shape, RetryableKinds, PlaceInv
<1> QED BY <1>1, <1>2, <1>3, <1>4, <1>5 DEF Next

LEMMA AfterStart == ASSUME NEW hook PROVE Append(<< <<"start">> >>, hook) = << <<"start">>, hook >>
<1> DEFINE start == <<"start">>
           S == {start, hook}
           left == Append(<<start>>, hook)
           right == <<start, hook>>
<1>1. <<start>> \in Seq(S) /\ right \in Seq(S) OBVIOUS
<1>2. left \in Seq(S) /\ Len(left) = 2 /\ left[1] = start /\ left[2] = hook
  <2> HIDE DEF start
  <2> QED BY <1>1, AppendProperties
<1>3. Len(right) = 2 /\ right[1] = start /\ right[2] = hook OBVIOUS
<1>4. left = right
  <2> HIDE DEF start, S, left, right
  <2>1. \A i \in 1..2 : left[i] = right[i] BY <1>2, <1>3
  <2> QED BY <1>1, <1>2, <1>3, <2>1, SeqEqual
<1> QED BY <1>4

\* A failure is told and returned as the same kind.
LEMMA FailTells ==
    ASSUME Shape, told.hooks = << <<"start">> >>, NEW kind, kind \notin {"ok", "invalid"}, Fail(kind)
    PROVE  /\ at' = "idle" /\ outcome'.kind = kind /\ HooksAgree'
           /\ told'.chunks = told.chunks /\ told'.object = told.object
<1>1. outcome'.kind = kind /\ outcome'.text = <<>> OBVIOUS
<1>2. /\ told'.hooks = Append(told.hooks, <<"error", kind>>)
      /\ told'.chunks = told.chunks /\ told'.object = told.object
  BY DEF Shape
<1>3. told'.hooks = << <<"start">>, <<"error", kind>> >> BY <1>2, AfterStart
<1> QED BY <1>1, <1>2, <1>3 DEF HooksAgree

\* A success is told and returned with the same text.
LEMMA SucceedTells ==
    ASSUME Shape, told.hooks = << <<"start">> >>, NEW text, NEW object, Succeed(text, object)
    PROVE  /\ at' = "idle" /\ outcome'.kind = "ok" /\ outcome'.text = text /\ outcome'.object = object
           /\ HooksAgree' /\ told'.chunks = told.chunks /\ told'.object = told.object
<1>1. outcome'.kind = "ok" /\ outcome'.text = text /\ outcome'.object = object OBVIOUS
<1>2. /\ told'.hooks = Append(told.hooks, <<"finish", text>>)
      /\ told'.chunks = told.chunks /\ told'.object = told.object
  BY DEF Shape
<1>3. told'.hooks = << <<"start">>, <<"finish", text>> >> BY <1>2, AfterStart
<1> QED BY <1>1, <1>2, <1>3 DEF HooksAgree

\* The error of a context, and every error of the model, has a kind that is told.
LEMMA ErrorsAreKinds ==
    /\ HookInv /\ ctxErr # None => Classify(ctxErr) \notin {"ok", "invalid"}
    /\ \A e \in ProviderErrors \cup OtherErrors : Classify(e) \notin {"ok", "invalid"}
<1>1. ASSUME HookInv, ctxErr # None PROVE Classify(ctxErr) \notin {"ok", "invalid"}
  <2>1. ctxErr.type \in {"canceled", "deadline"} BY <1>1 DEF HookInv
  <2> QED BY <2>1, KindOfError
<1>2. ASSUME NEW e \in ProviderErrors \cup OtherErrors PROVE Classify(e) \notin {"ok", "invalid"}
  <2>1. e.type \in {"canceled", "deadline", "no_object", "provider", "other"}
    BY DEF ProviderErrors, OtherErrors, Raw
  <2> QED BY <2>1, KindOfError
<1> QED BY <1>1, <1>2

\* The hooks follow the place of a request.
LEMMA HookStep ==
    ASSUME Shape, PlaceInv, HookInv, [Next]_vars PROVE HookInv'
<1>1. CASE UNCHANGED vars BY <1>1 DEF HookInv, HooksAgree
<1>2. CASE Application
  <2>1. ASSUME NEW c, With(c) PROVE HookInv' BY <2>1 DEF With, HookInv, HooksAgree
  <2>2. CASE AddMessage BY <2>2 DEF AddMessage, HookInv, HooksAgree
  <2>3. CASE Clear BY <2>3 DEF Clear, HookInv, HooksAgree
  <2> QED BY <1>2, <2>1, <2>2, <2>3 DEF Application
<1> DEFINE Running == at \notin {"idle", "prepare"}
<1>6. ASSUME NEW kind, kind \notin {"ok", "invalid"}, Running, Fail(kind), UNCHANGED ctxErr PROVE HookInv'
  <2>1. told.hooks = << <<"start">> >> BY <1>6 DEF HookInv
  <2> QED BY <1>6, <2>1, FailTells DEF HookInv
<1>7. ASSUME NEW text, NEW object, Running, Succeed(text, object), UNCHANGED ctxErr PROVE HookInv'
  <2>1. told.hooks = << <<"start">> >> BY <1>7 DEF HookInv
  <2> QED BY <1>7, <2>1, SucceedTells DEF HookInv
<1>8. ASSUME Running, at' \notin {"idle", "prepare"}, told'.hooks = told.hooks, UNCHANGED ctxErr PROVE HookInv'
  BY <1>8 DEF HookInv
<1>3. CASE Request
  <2>1. ASSUME NEW m \in Methods, NEW watched \in BOOLEAN, Ask(m, watched) PROVE HookInv'
    <3>1. told' = NothingTold /\ ctxErr' = None BY <2>1, AskEffect
    <3>2. told'.hooks = <<>> BY <3>1 DEF NothingTold
    <3>3. at' = "prepare" \/ (at' = "idle" /\ outcome' = Failed("invalid")) BY <2>1, AskEffect
    <3>4. at' = "prepare" \/ (at' = "idle" /\ outcome'.kind = "invalid") BY <3>3
    <3> QED BY <3>1, <3>2, <3>4 DEF HookInv, HooksAgree
  <2>2. CASE PrepareFails BY <2>2 DEF PrepareFails, HookInv, HooksAgree
  <2>3. CASE Prepare
    <3>1. told'.hooks = Append(<<>>, <<"start">>) BY <2>3 DEF Prepare, HookInv, Shape
    <3>2. told'.hooks = << <<"start">> >> BY <3>1
    <3> QED BY <2>3, <3>2 DEF Prepare, HookInv
  <2>4. CASE BuildCall BY <2>4, <1>8 DEF BuildCall
  <2>5. CASE AttemptRefused BY <2>5, <1>6, ErrorsAreKinds DEF AttemptRefused
  <2>6. CASE BeginAttempt BY <2>6, <1>8 DEF BeginAttempt
  <2>7. ASSUME NEW e \in ProviderErrors \cup OtherErrors, AttemptFails(e) PROVE HookInv'
    <3>1. CASE RetryFollows(e) BY <2>7, <3>1, <1>8 DEF AttemptFails
    <3>2. CASE ~RetryFollows(e) BY <2>7, <3>2, <1>6, ErrorsAreKinds DEF AttemptFails
    <3> QED BY <3>1, <3>2
  <2>8. CASE BackoffEnds
    <3>1. CASE ctxErr = None BY <2>8, <3>1, <1>8 DEF BackoffEnds
    <3>2. CASE ctxErr # None BY <2>8, <3>2, <1>6, ErrorsAreKinds DEF BackoffEnds
    <3> QED BY <3>1, <3>2
  <2> QED BY <1>3, <2>1, <2>2, <2>3, <2>4, <2>5, <2>6, <2>7, <2>8 DEF Request
<1>4. CASE Answer
  <2>1. CASE Generated BY <2>1, <1>7 DEF Generated
  <2>2. ASSUME NEW object, ObjectGenerated(object) PROVE HookInv'
    <3>1. CASE object = Garbage BY <2>2, <3>1, <1>6 DEF ObjectGenerated
    <3>2. CASE object # Garbage BY <2>2, <3>2, <1>7 DEF ObjectGenerated
    <3> QED BY <3>1, <3>2
  <2>3. CASE StreamOpens BY <2>3, <1>8 DEF StreamOpens
  <2>4. ASSUME NEW refused, TextDelta(refused) PROVE HookInv'
    <3>1. CASE req.watched /\ refused
      <4>1. /\ at' = "idle" /\ outcome'.kind = "unknown" /\ ctxErr' = ctxErr
            /\ told.hooks = << <<"start">> >>
        BY <2>4, <3>1 DEF TextDelta, NextPart, HookInv
      <4>2. told'.hooks = Append(told.hooks, <<"error", "unknown">>)
        BY <2>4, <3>1 DEF TextDelta, Shape
      <4>3. told'.hooks = << <<"start">>, <<"error", "unknown">> >> BY <4>1, <4>2, AfterStart
      <4> QED BY <4>1, <4>3 DEF HookInv, HooksAgree
    <3>2. CASE ~(req.watched /\ refused)
      <4>1. told'.hooks = told.hooks BY <2>4, <3>2 DEF TextDelta, Shape
      <4> QED BY <2>4, <3>2, <4>1, <1>8 DEF TextDelta, NextPart
    <3> QED BY <3>1, <3>2
  <2>5. CASE TextEnds BY <2>5, <1>7 DEF TextEnds
  <2>6. CASE RawDelta BY <2>6, <1>8 DEF RawDelta, NextPart
  <2>7. ASSUME NEW object, Partial(object) PROVE HookInv'
    <3>1. told'.hooks = told.hooks BY <2>7 DEF Partial, Shape
    <3> QED BY <2>7, <3>1, <1>8 DEF Partial, NextPart
  <2>8. ASSUME NEW object, ObjectEnds(object) PROVE HookInv'
    <3>1. CASE object = Garbage BY <2>8, <3>1, <1>6 DEF ObjectEnds
    <3>2. CASE object # Garbage BY <2>8, <3>2, <1>7 DEF ObjectEnds
    <3> QED BY <3>1, <3>2
  <2> QED BY <1>4, <2>1, <2>2, <2>3, <2>4, <2>5, <2>6, <2>7, <2>8 DEF Answer
<1>5. ASSUME NEW type \in {"canceled", "deadline"}, ContextEnds(type) PROVE HookInv'
  BY <1>5 DEF ContextEnds, HookInv, HooksAgree, Raw
<1> QED BY <1>1, <1>2, <1>3, <1>4, <1>5 DEF Next

LEMMA WrittenNext ==
    ASSUME NEW n \in Nat PROVE Append(Written(n), n + 1) = Written(n + 1)
  BY DEF Written

LEMMA WrittenFirst == Written(0) = <<>> /\ Written(1) = <<1>>
  BY DEF Written

\* What the text and the callbacks of a request, and what it returns, are not changed by.
LEMMA TextKept ==
    ASSUME TextInv, UNCHANGED <<at, req, told, outcome, due>> PROVE TextInv'
  BY DEF TextInv, TextAgrees, Written

\* A chunk is kept and shown when it comes, and before a request was answered there is none.
LEMMA TextStep ==
    ASSUME Shape, PlaceInv, HookInv, TextInv, [Next]_vars PROVE TextInv'
<1>1. CASE UNCHANGED vars BY <1>1, TextKept
<1>2. CASE Application BY <1>2, TextKept DEF Application, With, AddMessage, Clear
<1>8. ASSUME NEW kind, kind \notin {"ok", "invalid"}, at \notin {"idle", "prepare"}, Fail(kind), UNCHANGED req,
             due'.chunks = due.chunks
      PROVE  TextInv'
  <2>1. at' = "idle" /\ outcome'.kind = kind /\ told'.chunks = told.chunks
    BY <1>8, FailTells DEF HookInv
  <2>2. (req.watched /\ ~req.method.typed) => told.chunks = Written(due.chunks)
    BY <1>8, WrittenFirst DEF TextInv, PlaceInv
  <2> QED BY <1>8, <2>1, <2>2 DEF TextInv, TextAgrees, Written
<1>9. ASSUME NEW text, NEW object, at \notin {"idle", "prepare"}, Succeed(text, object), UNCHANGED req,
             due'.chunks \in Nat, text = Written(due'.chunks),
             (req.watched /\ ~req.method.typed) => told.chunks = text
      PROVE  TextInv'
  <2>1. at' = "idle" /\ outcome'.kind = "ok" /\ outcome'.text = text /\ told'.chunks = told.chunks
    BY <1>9, SucceedTells DEF HookInv
  <2> QED BY <1>9, <2>1 DEF TextInv, TextAgrees, Written
<1>3. CASE Request
  <2>1. ASSUME NEW m \in Methods, NEW watched \in BOOLEAN, Ask(m, watched) PROVE TextInv'
    <3>1. due'.chunks = 0 /\ req'.text = <<>> /\ told' = NothingTold BY <2>1, AskEffect
    <3>2. told'.chunks = <<>> BY <3>1 DEF NothingTold
    <3>3. at' = "prepare" \/ (at' = "idle" /\ outcome' = Failed("invalid")) BY <2>1, AskEffect
    <3>4. at' = "prepare" \/ (at' = "idle" /\ outcome'.kind = "invalid") BY <3>3
    <3> QED BY <3>1, <3>2, <3>4 DEF TextInv, TextAgrees
  <2>2. CASE PrepareFails BY <2>2 DEF PrepareFails, TextInv, TextAgrees
  <2>3. CASE Prepare BY <2>3 DEF Prepare, TextInv, Shape
  <2>4. CASE BuildCall BY <2>4 DEF BuildCall, TextInv, Shape
  <2>5. CASE AttemptRefused BY <2>5, <1>8, ErrorsAreKinds DEF AttemptRefused
  <2>6. CASE BeginAttempt BY <2>6 DEF BeginAttempt, TextInv, Shape
  <2>7. ASSUME NEW e \in ProviderErrors \cup OtherErrors, AttemptFails(e) PROVE TextInv'
    <3>1. due'.chunks = due.chunks /\ UNCHANGED req BY <2>7 DEF AttemptFails, Shape
    <3>2. CASE RetryFollows(e)
      <4>1. at = "asked" BY <2>7, <3>2 DEF AttemptFails, RetryFollows, PlaceInv
      <4> QED BY <2>7, <3>1, <3>2, <4>1 DEF AttemptFails, TextInv
    <3>3. CASE ~RetryFollows(e) BY <2>7, <3>1, <3>3, <1>8, ErrorsAreKinds DEF AttemptFails
    <3> QED BY <3>2, <3>3
  <2>8. CASE BackoffEnds
    <3>1. CASE ctxErr = None BY <2>8, <3>1 DEF BackoffEnds, TextInv
    <3>2. CASE ctxErr # None BY <2>8, <3>2, <1>8, ErrorsAreKinds DEF BackoffEnds
    <3> QED BY <3>1, <3>2
  <2> QED BY <1>3, <2>1, <2>2, <2>3, <2>4, <2>5, <2>6, <2>7, <2>8 DEF Request
<1>4. CASE Answer
  <2>1. CASE Generated
    <3>1. due'.chunks = 1 BY <2>1 DEF Generated, Shape
    <3>2. ~req.watched BY <2>1 DEF Generated, PlaceInv
    <3> QED BY <2>1, <3>1, <3>2, <1>9, WrittenFirst DEF Generated
  <2>2. ASSUME NEW object, ObjectGenerated(object) PROVE TextInv'
    <3>1. due'.chunks = 1 BY <2>2 DEF ObjectGenerated, Shape
    <3>2. ~req.watched BY <2>2 DEF ObjectGenerated, PlaceInv
    <3>3. CASE object = Garbage
      <4>1. at' = "idle" /\ outcome'.kind # "ok" /\ UNCHANGED req BY <2>2, <3>3 DEF ObjectGenerated
      <4> QED BY <3>1, <3>2, <4>1 DEF TextInv, TextAgrees
    <3>4. CASE object # Garbage BY <2>2, <3>1, <3>2, <3>4, <1>9, WrittenFirst DEF ObjectGenerated
    <3> QED BY <3>3, <3>4
  <2>3. CASE StreamOpens
    <3>1. /\ at = "asked" /\ at' = "streaming" /\ UNCHANGED <<req, told, outcome, due>>
      BY <2>3 DEF StreamOpens
    <3> QED BY <3>1, WrittenFirst DEF TextInv
  <2> DEFINE n == due.chunks
  <2>4. ASSUME NEW refused, TextDelta(refused) PROVE TextInv'
    <3>1. /\ at = "streaming" /\ ~req.method.typed
          /\ req'.text = Append(req.text, n + 1) /\ due'.chunks = n + 1
          /\ req'.method = req.method /\ req'.watched = req.watched
      BY <2>4 DEF TextDelta, NextPart, Chunk, Shape
    <3>2. n \in Nat /\ req.text = Written(n) /\ told.chunks = IF req.watched THEN req.text ELSE <<>>
      BY <3>1 DEF TextInv
    <3>3. req'.text = Written(n + 1)
      <4> HIDE DEF n
      <4> QED BY <3>1, <3>2, WrittenNext
    <3>4. told'.chunks = IF req.watched THEN req'.text ELSE <<>>
      BY <2>4, <3>1, <3>2 DEF TextDelta, Chunk, Shape
    <3>5. \/ at' = "streaming"
          \/ at' = "idle" /\ outcome'.kind = "unknown"
      BY <2>4, <3>1 DEF TextDelta
    <3>6. TextAgrees' = /\ outcome'.kind = "ok" => outcome'.text = Written(due'.chunks)
                        /\ (outcome'.kind # "invalid" /\ req'.watched /\ ~req'.method.typed)
                              => told'.chunks = Written(due'.chunks)
      BY DEF TextAgrees, Written
    <3> HIDE DEF n
    <3>7. due'.chunks \in Nat BY <3>1, <3>2
    <3>8. CASE at' = "streaming" BY <3>1, <3>3, <3>4, <3>7, <3>8 DEF TextInv
    <3>9. CASE at' = "idle" /\ outcome'.kind = "unknown"
      BY <3>1, <3>3, <3>4, <3>6, <3>7, <3>9 DEF TextInv
    <3> QED BY <3>5, <3>8, <3>9
  <2>5. CASE TextEnds BY <2>5, <1>9 DEF TextEnds, TextInv
  <2>6. CASE RawDelta
    <3>1. /\ at = "streaming" /\ req.method.typed
          /\ req'.text = Append(req.text, n + 1) /\ due'.chunks = n + 1
          /\ req'.method = req.method /\ at' = "streaming"
      BY <2>6 DEF RawDelta, NextPart, Chunk, Shape
    <3>2. n \in Nat /\ req.text = Written(n) BY <3>1 DEF TextInv
    <3>3. req'.text = Written(n + 1)
      <4> HIDE DEF n
      <4> QED BY <3>1, <3>2, WrittenNext
    <3> QED BY <3>1, <3>2, <3>3 DEF TextInv
  <2>7. ASSUME NEW object, Partial(object) PROVE TextInv'
    <3>1. /\ at = "streaming" /\ at' = "streaming"
          /\ req'.text = req.text /\ req'.method = req.method /\ req'.watched = req.watched
          /\ told'.chunks = told.chunks /\ due'.chunks = due.chunks
      BY <2>7 DEF Partial, NextPart, Shape
    <3> QED BY <3>1 DEF TextInv
  <2>8. ASSUME NEW object, ObjectEnds(object) PROVE TextInv'
    <3>1. due'.chunks = due.chunks /\ at = "streaming" /\ req.method.typed /\ UNCHANGED req
      BY <2>8 DEF ObjectEnds, Shape
    <3>2. CASE object = Garbage BY <2>8, <3>1, <3>2, <1>8 DEF ObjectEnds
    <3>3. CASE object # Garbage BY <2>8, <3>1, <3>3, <1>9 DEF ObjectEnds, TextInv
    <3> QED BY <3>2, <3>3
  <2> QED BY <1>4, <2>1, <2>2, <2>3, <2>4, <2>5, <2>6, <2>7, <2>8 DEF Answer
<1>5. ASSUME NEW type \in {"canceled", "deadline"}, ContextEnds(type) PROVE TextInv'
  BY <1>5, TextKept DEF ContextEnds
<1> QED BY <1>1, <1>2, <1>3, <1>4, <1>5 DEF Next

-----------------------------------------------------------------------------

\* What was shown last is kept, and the final object goes over it.
LEMMA ObjectStep ==
    ASSUME Shape, PlaceInv, HookInv, ObjectInv, [Next]_vars PROVE ObjectInv'
<1>1. CASE UNCHANGED vars BY <1>1 DEF ObjectInv, ObjectAgrees
<1>2. CASE Application BY <1>2 DEF Application, With, AddMessage, Clear, ObjectInv, ObjectAgrees
<1> DEFINE Running == at \notin {"idle", "prepare"}
<1>6. ASSUME NEW kind, kind \notin {"ok", "invalid"}, Running, Fail(kind) PROVE ObjectInv'
  <2>1. at' = "idle" /\ outcome'.kind # "ok" BY <1>6
  <2> QED BY <2>1 DEF ObjectInv, ObjectAgrees
<1>7. ASSUME at # "idle", at' # "idle", at = "streaming" => at' = "streaming",
             req'.object = req.object, told'.object = told.object, due'.partial = due.partial
      PROVE  ObjectInv'
  BY <1>7 DEF ObjectInv, Over, Decode
<1>8. ASSUME NEW text, NEW object, NEW final, Running, Succeed(text, object), UNCHANGED req,
             due'.partial = due.partial, due'.final = final,
             req.method.typed => object = Over(final, req.object)
      PROVE  ObjectInv'
  <2>1. /\ at' = "idle" /\ outcome'.object = object /\ told'.object = told.object
    BY <1>8, SucceedTells DEF HookInv
  <2>2. /\ req.object = Over(due.partial, ZeroObject)
        /\ told.object = IF due.partial = None THEN None ELSE req.object
    BY <1>8 DEF ObjectInv
  <2>3. ObjectAgrees' = ((outcome'.kind = "ok" /\ req'.method.typed) =>
          /\ outcome'.object = Over(due'.final, Over(due'.partial, ZeroObject))
          /\ req'.watched => told'.object = (IF due'.partial = None THEN None
                                                                  ELSE Over(due'.partial, ZeroObject)))
    BY DEF ObjectAgrees, Over, Decode, ZeroObject
  <2>4. ObjectAgrees' BY <1>8, <2>1, <2>2, <2>3
  <2> QED BY <2>1, <2>4 DEF ObjectInv
<1>3. CASE Request
  <2>1. ASSUME NEW m \in Methods, NEW watched \in BOOLEAN, Ask(m, watched) PROVE ObjectInv'
    <3>1. due'.partial = None /\ told' = NothingTold BY <2>1, AskEffect
    <3>2. told'.object = None BY <3>1 DEF NothingTold
    <3>3. \/ at' = "prepare" /\ req'.object = ZeroObject
          \/ at' = "idle" /\ outcome' = Failed("invalid")
      BY <2>1, AskEffect
    <3>4. \/ at' = "prepare" /\ req'.object = ZeroObject
          \/ at' = "idle" /\ outcome'.kind = "invalid"
      BY <3>3
    <3>5. at' = "idle" => ObjectAgrees' BY <3>4 DEF ObjectAgrees
    <3> QED BY <3>1, <3>2, <3>4, <3>5 DEF ObjectInv, Over
  <2>2. CASE PrepareFails
    <3>1. at' = "idle" /\ outcome'.kind # "ok" BY <2>2 DEF PrepareFails
    <3> QED BY <3>1 DEF ObjectInv, ObjectAgrees
  <2>3. CASE Prepare BY <2>3, <1>7 DEF Prepare, Shape
  <2>4. CASE BuildCall BY <2>4, <1>7 DEF BuildCall, Shape
  <2>5. CASE AttemptRefused BY <2>5, <1>6, ErrorsAreKinds DEF AttemptRefused
  <2>6. CASE BeginAttempt BY <2>6, <1>7 DEF BeginAttempt, Shape
  <2>7. ASSUME NEW e \in ProviderErrors \cup OtherErrors, AttemptFails(e) PROVE ObjectInv'
    <3>1. CASE RetryFollows(e)
      <4>1. /\ at = "asked" /\ at' = "backoff" /\ UNCHANGED <<told, req>>
            /\ due'.partial = due.partial
        BY <2>7, <3>1 DEF AttemptFails, RetryFollows, PlaceInv, Shape
      <4> QED BY <4>1, <1>7
    <3>2. CASE ~RetryFollows(e) BY <2>7, <3>2, <1>6, ErrorsAreKinds DEF AttemptFails
    <3> QED BY <3>1, <3>2
  <2>8. CASE BackoffEnds
    <3>1. CASE ctxErr = None BY <2>8, <3>1, <1>7 DEF BackoffEnds
    <3>2. CASE ctxErr # None BY <2>8, <3>2, <1>6, ErrorsAreKinds DEF BackoffEnds
    <3> QED BY <3>1, <3>2
  <2> QED BY <1>3, <2>1, <2>2, <2>3, <2>4, <2>5, <2>6, <2>7, <2>8 DEF Request
<1>4. CASE Answer
  <2>1. CASE Generated
    <3>1. due'.partial = due.partial BY <2>1 DEF Generated, Shape
    <3> QED BY <2>1, <3>1, <1>8 DEF Generated
  <2>2. ASSUME NEW object, ObjectGenerated(object) PROVE ObjectInv'
    <3>1. due'.partial = due.partial /\ due'.final = object BY <2>2 DEF ObjectGenerated, Shape
    <3>2. CASE object = Garbage BY <2>2, <3>2, <1>6 DEF ObjectGenerated
    <3>3. CASE object # Garbage
      <4>1. req.object = ZeroObject BY <2>2 DEF ObjectGenerated, ObjectInv, Over
      <4> QED BY <2>2, <3>1, <3>3, <4>1, <1>8 DEF ObjectGenerated, Over
    <3> QED BY <3>2, <3>3
  <2>3. CASE StreamOpens BY <2>3, <1>7 DEF StreamOpens
  <2>4. ASSUME NEW refused, TextDelta(refused) PROVE ObjectInv'
    <3>1. CASE req.watched /\ refused
      <4>1. at' = "idle" /\ outcome'.kind = "unknown" BY <2>4, <3>1 DEF TextDelta
      <4> QED BY <4>1 DEF ObjectInv, ObjectAgrees
    <3>2. CASE ~(req.watched /\ refused)
      <4>1. /\ at = "streaming" /\ at' = "streaming" /\ req'.object = req.object
            /\ told'.object = told.object /\ due'.partial = due.partial
        BY <2>4, <3>2 DEF TextDelta, NextPart, Shape
      <4> QED BY <4>1, <1>7
    <3> QED BY <3>1, <3>2
  <2>5. CASE TextEnds
    <3>1. at' = "idle" /\ ~req'.method.typed BY <2>5 DEF TextEnds
    <3> QED BY <3>1 DEF ObjectInv, ObjectAgrees
  <2>6. CASE RawDelta
    <3>1. /\ at = "streaming" /\ at' = "streaming" /\ req'.object = req.object
          /\ told'.object = told.object /\ due'.partial = due.partial
      BY <2>6 DEF RawDelta, NextPart, Shape
    <3> QED BY <3>1, <1>7
  <2>7. ASSUME NEW object, Partial(object) PROVE ObjectInv'
    <3>1. at = "streaming" /\ at' = "streaming" BY <2>7 DEF Partial, NextPart
    <3>2. CASE req.watched /\ object # None /\ object # Garbage
      <4>1. /\ told'.object = DecodePartial(object) /\ req'.object = DecodePartial(object)
            /\ due'.partial = object
        BY <2>7, <3>2 DEF Partial, Shape
      <4> QED BY <3>1, <3>2, <4>1 DEF ObjectInv, Over, DecodePartial
    <3>3. CASE ~(req.watched /\ object # None /\ object # Garbage)
      <4>1. UNCHANGED <<told, req, due>> BY <2>7, <3>3 DEF Partial
      <4> QED BY <3>1, <4>1, <1>7
    <3> QED BY <3>2, <3>3
  <2>8. ASSUME NEW object, ObjectEnds(object) PROVE ObjectInv'
    <3>1. due'.partial = due.partial /\ due'.final = object BY <2>8 DEF ObjectEnds, Shape
    <3>2. CASE object = Garbage BY <2>8, <3>2, <1>6 DEF ObjectEnds
    <3>3. CASE object # Garbage BY <2>8, <3>1, <3>3, <1>8 DEF ObjectEnds, Over
    <3> QED BY <3>2, <3>3
  <2> QED BY <1>4, <2>1, <2>2, <2>3, <2>4, <2>5, <2>6, <2>7, <2>8 DEF Answer
<1>5. ASSUME NEW type \in {"canceled", "deadline"}, ContextEnds(type) PROVE ObjectInv'
  BY <1>5 DEF ContextEnds, ObjectInv, ObjectAgrees
<1> QED BY <1>1, <1>2, <1>3, <1>4, <1>5 DEF Next

-----------------------------------------------------------------------------

Inv == Shape /\ PlaceInv /\ SettingsInv /\ HistoryInv /\ RetryInv /\ HookInv /\ TextInv /\ ObjectInv

LEMMA InvInit == Init => Inv
<1> SUFFICES ASSUME Init PROVE Inv OBVIOUS
<1> USE DEF Init, NoRequest, NothingTold, NothingDue
<1>1. Shape BY DEF Shape
<1>2. PlaceInv BY DEF PlaceInv
<1>3. SettingsInv BY DEF SettingsInv
<1>4. HistoryInv BY DEF HistoryInv, InCall
<1>5. RetryInv BY DEF RetryInv, RetriesAreSpent
<1>6. HookInv BY DEF HookInv
<1>7. TextInv BY DEF TextInv
<1>8. ObjectInv BY DEF ObjectInv
<1> QED BY <1>1, <1>2, <1>3, <1>4, <1>5, <1>6, <1>7, <1>8 DEF Inv

LEMMA InvStep == RequestsAssumption /\ Inv /\ [Next]_vars => Inv'
  BY ShapeStep, PlaceStep, SettingsStep, HistoryStep, RetryStep, HookStep, TextStep, ObjectStep DEF Inv

\* Everything above is kept by every step, of the application, of a request and of an answer.
THEOREM InvHolds == Spec => []Inv
<1>1. RequestsAssumption BY RequestsAssumption
<1> QED BY <1>1, InvInit, InvStep, PTL DEF Spec

\* Every attempt of a call sends the settings and the history its request was made with,
\* whatever With, Add and Clear have done since, and a failure that may pass is returned
\* only when the attempts are spent.
THEOREM AttemptsRight == Spec => []AttemptsAreRight
<1>1. Inv => AttemptsAreRight
  BY DEF Inv, SettingsInv, HistoryInv, InCall, RetryInv, AttemptsAreRight, AttemptsCarryTheTurn
<1> QED BY <1>1, InvHolds, PTL

\* What the hooks and callbacks of a request were told is what it returns and what the
\* model answered, on all six ways to ask, their error paths and their retries.
THEOREM ToldReturned == Spec => []ToldIsReturned
<1>1. Inv => ToldIsReturned
  BY DEF Inv, HookInv, TextInv, ObjectInv, ToldIsReturned
<1> QED BY <1>1, InvHolds, PTL
=============================================================================
