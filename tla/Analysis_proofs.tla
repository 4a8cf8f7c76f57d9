-------------------------- MODULE Analysis_proofs --------------------------
(***************************************************************************)
(* Theorems about Analysis, for any batch, limit and number of attempts:   *)
(* retries of a dead request stop, the limit of concurrent calls holds, and*)
(* hooks, tracker and results agree.                                       *)
(***************************************************************************)
EXTENDS Analysis, FiniteSetTheorems, SequenceTheorems, TLAPS

BeforeCall == {"acquire", "waiting", "prepare", "attempt", "begin"}

\* A call is begun dead only once, as the loop looks at the context before it;
\* without retries there is only one call.
CallInv ==
    /\ DOMAIN at = Images /\ DOMAIN ctxErr = Images
    /\ attempt \in [Images -> Nat] /\ deadCalls \in [Images -> Nat]
    /\ \A i \in Images :
          /\ deadCalls[i] <= 1
          /\ at[i] = "begin" => deadCalls[i] = 0
          /\ deadCalls[i] > 0 => ctxErr[i] # None
          /\ at[i] = "call" => attempt[i] >= 1
          /\ ~Retry => at[i] # "backoff"
          /\ ~Retry /\ at[i] \in BeforeCall => deadCalls[i] = 0

LEMMA CallInvInit == Init => CallInv
BY DEF Init, CallInv, BeforeCall

\* Steps that leave the calls and their contexts alone, and go to a place where
\* nothing is required.
LEMMA CallInvKept ==
    ASSUME CallInv, NEW i \in Images, NEW place,
           at' = [at EXCEPT ![i] = place],
           UNCHANGED <<attempt, deadCalls, ctxErr>>,
           place \notin {"begin", "call", "backoff"},
           place \in BeforeCall => at[i] \in BeforeCall
    PROVE  CallInv'
BY DEF CallInv, BeforeCall

LEMMA CallInvStep == CallInv /\ [Next]_vars => CallInv'
<1> SUFFICES ASSUME CallInv, [Next]_vars PROVE CallInv'
  OBVIOUS
<1> USE DEF ctxVars, callVars, outVars
<1>1. ASSUME NEW i \in Images, Acquire(i) PROVE CallInv'
  BY <1>1, CallInvKept
     DEF Acquire, AcquireFails, AcquireAtOnce, AcquireWaits, WakeUp, WakeUpCancelled, GiveUp,
         At, Goto, BeforeCall
<1>2. ASSUME NEW i \in Images, Release(i) PROVE CallInv'
  BY <1>2, CallInvKept DEF Release, At, Goto, BeforeCall
<1>3. ASSUME NEW i \in Images, PrepareFails(i) \/ Prepare(i) PROVE CallInv'
  BY <1>3, CallInvKept DEF PrepareFails, Prepare, Answer, At, Goto, BeforeCall
<1>4. ASSUME NEW i \in Images, NEW kind, Fail(i, kind) PROVE CallInv'
  BY <1>4, CallInvKept DEF Fail, Answer, Goto, BeforeCall
<1>5. ASSUME NEW i \in Images, AttemptAllowed(i) PROVE CallInv'
  <2>1. deadCalls[i] = 0
    BY <1>5 DEF CallInv, AttemptAllowed, At, BeforeCall
  <2> QED BY <1>5, <2>1 DEF CallInv, AttemptAllowed, Goto, At, BeforeCall
<1>6. ASSUME NEW i \in Images, BeginCall(i) PROVE CallInv'
  BY <1>6 DEF CallInv, BeginCall, Goto, At, BeforeCall
<1>7. ASSUME NEW i \in Images, CallSucceeds(i) PROVE CallInv'
  BY <1>7, CallInvKept DEF CallSucceeds, Answer, Goto, BeforeCall
<1>8. ASSUME NEW i \in Images, CallFails(i) PROVE CallInv'
  BY <1>8, AnalysisAssumption DEF CallInv, CallFails, Goto, At, BeforeCall
<1>9. ASSUME NEW i \in Images, BackoffEnds(i) PROVE CallInv'
  BY <1>9 DEF CallInv, BackoffEnds, Goto, At, BeforeCall
<1>10. ASSUME Cancel PROVE CallInv'
  BY <1>10 DEF CallInv, Cancel
<1>11. ASSUME NEW i \in Images, Timeout(i) PROVE CallInv'
  BY <1>11 DEF CallInv, Timeout
<1>12. ASSUME ReturnResults \/ UNCHANGED vars PROVE CallInv'
  BY <1>12 DEF CallInv, ReturnResults, vars
<1> QED
  BY <1>1, <1>2, <1>3, <1>4, <1>5, <1>6, <1>7, <1>8, <1>9, <1>10, <1>11, <1>12
     DEF Next, Goroutine, Analyze, Call, AttemptRefused, CallInterrupted, CallRejected,
         LastCallFails, BackoffInterrupted

\* Whatever is cancelled or times out when, a request begins at most one call
\* after its context was done: the loop head and the select stop the retries.
THEOREM DeadRequestsAlwaysStop == Spec => []DeadRequestsStop
<1>1. CallInv => DeadRequestsStop
  BY DEF CallInv, DeadRequestsStop
<1> QED
  BY CallInvInit, CallInvStep, <1>1, PTL DEF Spec

-----------------------------------------------------------------------------
Holding == {"prepare", "attempt", "begin", "call", "backoff", "release"}
Holders == granted \cup {i \in Images : at[i] \in Holding}

\* Until the batch is cancelled every token taken has one holder, and images only
\* wait when all are taken.
TokenInv ==
    /\ DOMAIN at = Images
    /\ ~cancelled =>
          /\ waiters \in Seq(Images) /\ granted \subseteq Images
          /\ cur \in Nat /\ cur <= MaxConcurrency
          /\ Cardinality(Holders) = cur
          /\ waiters # <<>> => cur = MaxConcurrency
          /\ \A i \in granted : at[i] = "waiting"
          /\ \A j \in 1..Len(waiters) :
                /\ at[waiters[j]] = "waiting" /\ waiters[j] \notin granted
                /\ \A k \in 1..Len(waiters) : waiters[j] = waiters[k] => j = k

LEMMA TokenInvInit == Init => TokenInv
<1> SUFFICES ASSUME Init PROVE TokenInv
  OBVIOUS
<1>1. Holders = {}
  BY DEF Init, Holders, Holding
<1> QED
  BY <1>1, FS_EmptySet, AnalysisAssumption DEF Init, TokenInv

LEMMA HoldersFinite ==
    ASSUME TokenInv, ~cancelled
    PROVE  IsFiniteSet(Holders)
BY FS_Subset, AnalysisAssumption DEF TokenInv, Holders

\* A holder stays one while it analyses its image.
LEMMA TokenInvKept ==
    ASSUME TokenInv, NEW i \in Images, NEW place \in Holding,
           at[i] \in Holding, at' = [at EXCEPT ![i] = place],
           UNCHANGED <<cur, waiters, granted, cancelled>>
    PROVE  TokenInv'
<1>1. CASE cancelled
  BY <1>1 DEF TokenInv
<1>2. CASE ~cancelled
  <2>1. Holders' = Holders
    BY <1>2 DEF TokenInv, Holders
  <2> QED BY <1>2, <2>1 DEF TokenInv, Holding
<1> QED BY <1>1, <1>2

LEMMA TokenInvAcquire ==
    ASSUME TokenInv, NEW i \in Images, Acquire(i)
    PROVE  TokenInv'
<1>1. CASE cancelled
  BY <1>1 DEF TokenInv, Acquire, AcquireFails, AcquireAtOnce, AcquireWaits, WakeUp,
     WakeUpCancelled, GiveUp, Goto, ctxVars
<1>2. CASE ~cancelled /\ AcquireAtOnce(i)
  <2>1. /\ Holders' = Holders \cup {i} /\ i \notin Holders
        /\ UNCHANGED <<waiters, granted, cancelled>> /\ waiters = <<>>
        /\ cur' = cur + 1 /\ cur' <= MaxConcurrency
        /\ at' = [at EXCEPT ![i] = "prepare"] /\ at[i] = "acquire"
    BY <1>2, AnalysisAssumption
       DEF TokenInv, AcquireAtOnce, Holders, Holding, Goto, At, ctxVars
  <2>2. Cardinality(Holders \cup {i}) = Cardinality(Holders) + 1
    BY <1>2, <2>1, HoldersFinite, FS_AddElement
  <2>3. Cardinality(Holders') = cur'
    BY <1>2, <2>1, <2>2 DEF TokenInv
  <2> QED BY <1>2, <2>1, <2>3 DEF TokenInv
<1>3. CASE ~cancelled /\ AcquireWaits(i)
  <2>1. /\ UNCHANGED <<cur, granted, cancelled>> /\ waiters' = Append(waiters, i)
        /\ at' = [at EXCEPT ![i] = "waiting"] /\ at[i] = "acquire"
        /\ cur = MaxConcurrency
    BY <1>3 DEF TokenInv, AcquireWaits, Goto, At, ctxVars
  <2>2. Holders' = Holders
    BY <1>3, <2>1 DEF TokenInv, Holders, Holding
  <2>3. /\ waiters' \in Seq(Images) /\ Len(waiters') = Len(waiters) + 1
        /\ \A j \in 1..Len(waiters) : waiters'[j] = waiters[j]
        /\ waiters'[Len(waiters) + 1] = i
        /\ Len(waiters) \in Nat
    BY <1>3, <2>1 DEF TokenInv
  <2>4. \A j \in 1..Len(waiters') :
           \/ j \in 1..Len(waiters)
           \/ j = Len(waiters) + 1
    BY <2>3
  <2>5. \A j \in 1..Len(waiters) : waiters[j] # i
    BY <1>3, <2>1 DEF TokenInv
  <2>6. \A j \in 1..Len(waiters') :
           /\ at'[waiters'[j]] = "waiting" /\ waiters'[j] \notin granted'
           /\ \A k \in 1..Len(waiters') : waiters'[j] = waiters'[k] => j = k
    BY <1>3, <2>1, <2>3, <2>4, <2>5 DEF TokenInv
  <2>7. \A j \in granted' : at'[j] = "waiting"
    BY <1>3, <2>1 DEF TokenInv
  <2> QED BY <1>3, <2>1, <2>2, <2>3, <2>6, <2>7 DEF TokenInv
<1>4. CASE ~cancelled /\ WakeUp(i)
  <2>1. /\ UNCHANGED <<cur, waiters, cancelled>> /\ granted' = granted \ {i} /\ i \in granted
        /\ at' = [at EXCEPT ![i] = "prepare"]
    BY <1>4 DEF WakeUp, Goto, ctxVars
  <2>2. Holders' = Holders
    BY <1>4, <2>1 DEF TokenInv, Holders, Holding
  <2> QED BY <1>4, <2>1, <2>2 DEF TokenInv
<1> QED BY <1>1, <1>2, <1>3, <1>4
        DEF Acquire, AcquireFails, WakeUpCancelled, GiveUp

\* The token of a finished image goes to the first waiter, if there is one.
LEMMA TokenInvRelease ==
    ASSUME TokenInv, NEW i \in Images, Release(i)
    PROVE  TokenInv'
<1>1. /\ at' = [at EXCEPT ![i] = "done"] /\ at[i] = "release" /\ cancelled' = cancelled
  BY DEF Release, Goto, At, ctxVars
<1>2. CASE cancelled
  BY <1>1, <1>2 DEF TokenInv
<1>3. CASE ~cancelled
  <2>1. i \in Holders /\ i \notin granted
    BY <1>1, <1>3 DEF TokenInv, Holders, Holding
  <2>2. cur > 0
    BY <1>3, <2>1, HoldersFinite, FS_EmptySet DEF TokenInv
  <2>3. Grant(cur - 1, waiters, {})
    BY <2>2 DEF Release, ReleaseToken
  <2>4. Cardinality(Holders \ {i}) = cur - 1 /\ IsFiniteSet(Holders \ {i})
    BY <1>3, <2>1, HoldersFinite, FS_RemoveElement DEF TokenInv
  <2>5. CASE waiters = <<>>
    <3>1. cur' = cur - 1 /\ waiters' = <<>> /\ granted' = granted
      BY <1>3, <2>2, <2>3, <2>5, AnalysisAssumption DEF Grant, TokenInv
    <3>2. Holders' = Holders \ {i}
      BY <1>1, <1>3, <2>1, <3>1 DEF TokenInv, Holders, Holding
    <3>3. Cardinality(Holders') = cur'
      BY <2>4, <3>1, <3>2
    <3>4. cur' \in Nat /\ cur' <= MaxConcurrency
      BY <1>3, <2>2, <3>1, AnalysisAssumption DEF TokenInv
    <3>5. \A j \in granted' : at'[j] = "waiting"
      BY <1>1, <1>3, <2>1, <3>1 DEF TokenInv
    <3>6. DOMAIN at' = Images /\ granted' \subseteq Images
      BY <1>1, <1>3, <3>1 DEF TokenInv
    <3>7. waiters' \in Seq(Images) /\ Len(waiters') = 0
      BY <3>1
    <3> QED BY <3>1, <3>3, <3>4, <3>5, <3>6, <3>7 DEF TokenInv
  <2>6. CASE waiters # <<>>
    <3>1. cur = MaxConcurrency /\ Len(waiters) >= 1 /\ Len(waiters) \in Nat
      BY <1>3, <2>6 DEF TokenInv
    <3>2. /\ cur' = cur /\ waiters' = SubSeq(waiters, 2, Len(waiters))
          /\ granted' = granted \cup {waiters[1]}
      <4>1. /\ cur' = (cur - 1) + 1
            /\ waiters' = SubSeq(waiters, 1 + 1, Len(waiters))
            /\ granted' = (granted \ {}) \cup {waiters[j] : j \in 1..1}
        <5>1. MaxConcurrency - (cur - 1) = 1
          BY <1>3, <3>1, AnalysisAssumption DEF TokenInv
        <5>2. (IF 1 < Len(waiters) THEN 1 ELSE Len(waiters)) = 1
          BY <3>1
        <5> QED BY <2>3, <5>1, <5>2 DEF Grant
      <4>2. {waiters[j] : j \in 1..1} = {waiters[1]}
        OBVIOUS
      <4> QED BY <1>3, <4>1, <4>2 DEF TokenInv
    <3>3. /\ waiters' \in Seq(Images) /\ Len(waiters') = Len(waiters) - 1
          /\ \A j \in 1..Len(waiters') : waiters'[j] = waiters[j + 1] /\ j + 1 \in 1..Len(waiters)
      <4>1. \A j \in 2..Len(waiters) : waiters[j] \in Images
        BY <1>3 DEF TokenInv
      <4>2. /\ waiters' \in Seq(Images)
            /\ Len(waiters') = IF 2 <= Len(waiters) THEN Len(waiters) - 2 + 1 ELSE 0
            /\ \A j \in 1..(Len(waiters) - 2 + 1) : waiters'[j] = waiters[2 + j - 1]
        BY <3>1, <3>2, <4>1, SubSeqProperties
      <4>3. Len(waiters') = Len(waiters) - 1
        <5>1. CASE 2 <= Len(waiters)
          <6>1. Len(waiters') = Len(waiters) - 2 + 1
            BY <4>2, <5>1
          <6> QED BY <3>1, <6>1
        <5>2. CASE ~(2 <= Len(waiters))
          <6>1. Len(waiters') = 0
            BY <4>2, <5>2
          <6> QED BY <3>1, <5>2, <6>1
        <5> QED BY <5>1, <5>2
      <4>4. ASSUME NEW j \in 1..Len(waiters')
            PROVE  waiters'[j] = waiters[j + 1] /\ j + 1 \in 1..Len(waiters)
        <5>1. /\ j \in 1..(Len(waiters) - 2 + 1) /\ 2 + j - 1 = j + 1
              /\ j + 1 \in 1..Len(waiters)
          BY <3>1, <4>3, <4>4
        <5>2. waiters'[j] = waiters[2 + j - 1]
          BY <4>2, <5>1
        <5> QED BY <5>1, <5>2
      <4> QED BY <4>2, <4>3, <4>4
    <3>4. waiters[1] \in Images /\ at[waiters[1]] = "waiting" /\ waiters[1] \notin granted
      BY <1>3, <3>1 DEF TokenInv
    <3>5. Holders' = (Holders \ {i}) \cup {waiters[1]} /\ waiters[1] \notin Holders
      BY <1>1, <1>3, <2>1, <3>2, <3>4 DEF TokenInv, Holders, Holding
    <3>6. Cardinality(Holders') = cur'
      <4>1. Cardinality((Holders \ {i}) \cup {waiters[1]}) = Cardinality(Holders \ {i}) + 1
        BY <2>4, <3>5, FS_AddElement
      <4> QED BY <1>3, <2>4, <3>2, <3>5, <4>1 DEF TokenInv
    <3>7. \A j \in 1..Len(waiters') :
             /\ at'[waiters'[j]] = "waiting" /\ waiters'[j] \notin granted'
             /\ \A k \in 1..Len(waiters') : waiters'[j] = waiters'[k] => j = k
      BY <1>1, <1>3, <3>1, <3>2, <3>3 DEF TokenInv
    <3>8. granted' \subseteq Images /\ \A j \in granted' : at'[j] = "waiting"
      BY <1>1, <1>3, <3>2, <3>4 DEF TokenInv
    <3> QED BY <1>1, <1>3, <3>1, <3>2, <3>3, <3>6, <3>7, <3>8 DEF TokenInv
  <2> QED BY <2>5, <2>6
<1> QED BY <1>2, <1>3

LEMMA TokenInvStep == TokenInv /\ [Next]_vars => TokenInv'
<1> SUFFICES ASSUME TokenInv, [Next]_vars PROVE TokenInv'
  OBVIOUS
<1>1. ASSUME NEW i \in Images, Analyze(i) PROVE TokenInv'
  BY <1>1, TokenInvKept
     DEF Analyze, PrepareFails, Prepare, AttemptRefused, AttemptAllowed, Call, BeginCall,
         CallSucceeds, CallInterrupted, CallRejected, LastCallFails, CallFails,
         BackoffInterrupted, BackoffEnds, Fail, Answer, Goto, At, Holding, semVars, ctxVars
<1>2. ASSUME Cancel \/ ReturnResults \/ UNCHANGED vars \/ \E i \in Images : Timeout(i)
      PROVE  TokenInv'
  <2>1. UNCHANGED <<at, cur, waiters, granted>> /\ (cancelled' \/ UNCHANGED cancelled)
    BY <1>2 DEF Cancel, ReturnResults, Timeout, vars, semVars, ctxVars
  <2>2. Holders' = Holders
    BY <2>1 DEF Holders
  <2> QED BY <2>1, <2>2 DEF TokenInv
<1> QED
  BY <1>1, <1>2, TokenInvAcquire, TokenInvRelease DEF Next, Goroutine

\* No schedule of goroutines, failures, retries and timeouts lets more images
\* use the model at once than the limit allows, while the caller waits for them.
THEOREM CallsAreAlwaysLimited == Spec => []LiveCallsAreLimited
<1>1. TokenInv => LiveCallsAreLimited
  <2> SUFFICES ASSUME TokenInv, ~cancelled
               PROVE  Cardinality({i \in Images : at[i] \in {"attempt", "begin", "call", "backoff"}})
                          <= MaxConcurrency
    BY DEF LiveCallsAreLimited
  <2>1. {i \in Images : at[i] \in {"attempt", "begin", "call", "backoff"}} \subseteq Holders
    BY DEF Holders, Holding
  <2>2. Cardinality({i \in Images : at[i] \in {"attempt", "begin", "call", "backoff"}})
            <= Cardinality(Holders)
    BY <2>1, HoldersFinite, FS_Subset
  <2>3. Cardinality({i \in Images : at[i] \in {"attempt", "begin", "call", "backoff"}}) \in Nat
    BY <2>1, HoldersFinite, FS_Subset, FS_CardinalityType
  <2> QED BY <2>2, <2>3, AnalysisAssumption DEF TokenInv
<1> QED
  BY TokenInvInit, TokenInvStep, <1>1, PTL DEF Spec

-----------------------------------------------------------------------------
Pending == {"acquire", "waiting", "prepare"}
Asking == {"attempt", "begin", "call", "backoff"}
Answered == {i \in Images : results[i] = "ok"}

\* What hooks must have told of a request that ended this way.
ToldOf(kind) ==
    IF kind \in {None, "invalid"} THEN <<>>
    ELSE IF kind = "ok" THEN <<"start", "finish">> ELSE <<"start", "error">>

\* The hooks of a request follow the place it is at, and None is no result.
HookInv ==
    /\ DOMAIN at = Images /\ DOMAIN results = Images /\ fired = [i \in Images |-> fired[i]]
    /\ ended = "returned" => \A i \in Images : at[i] = "done"
    /\ tracked = Cardinality(Answered)
    /\ \A i \in Images :
          /\ results[i] = None => i \notin given \/ at[i] \in Pending \cup Asking
          /\ i \notin given => at[i] = "done" /\ results[i] = None /\ fired[i] = <<>>
          /\ at[i] \in Pending => results[i] = None /\ fired[i] = <<>>
          /\ at[i] \in Asking => results[i] = None /\ fired[i] = <<"start">>
          /\ at[i] \notin Pending \cup Asking => fired[i] = ToldOf(results[i])
    /\ \A i \in Images : ctxErr[i] \in {None, "cancelled", "timeout"}
    /\ DOMAIN ctxErr = Images

LEMMA AppendToOne ==
    ASSUME NEW S, NEW e \in S, NEW f \in S
    PROVE  Append(<<e>>, f) = <<e, f>>
<1> DEFINE s == <<e>>
           t == <<e, f>>
<1>1. s \in Seq(S) /\ t \in Seq(S)
  OBVIOUS
<1>2. Len(s) = 1 /\ s[1] = e /\ Len(t) = 2 /\ t[1] = e /\ t[2] = f
  OBVIOUS
<1> HIDE DEF s, t
<1>3. /\ Append(s, f) \in Seq(S) /\ Len(Append(s, f)) = Len(s) + 1
      /\ Append(s, f)[Len(s) + 1] = f
  BY <1>1, AppendProperties
<1>4. Append(s, f)[1] = e
  <2>1. \A i \in 1..Len(s) : Append(s, f)[i] = s[i]
    BY <1>1, AppendProperties
  <2> QED BY <1>2, <2>1
<1>5. Len(Append(s, f)) = 2 /\ Append(s, f)[2] = f
  BY <1>2, <1>3
<1>6. \A i \in 1..Len(t) : Append(s, f)[i] = t[i]
  BY <1>2, <1>4, <1>5
<1>7. Append(s, f) = t
  BY <1>1, <1>2, <1>3, <1>5, <1>6, SeqEqual
<1> QED BY <1>7 DEF s, t

LEMMA Tellings ==
    /\ Append(<<>>, "start") = <<"start">>
    /\ Append(<<"start">>, "error") = <<"start", "error">>
    /\ Append(<<"start">>, "finish") = <<"start", "finish">>
<1> DEFINE hooks == {"start", "error", "finish"}
<1>1. "start" \in hooks /\ "error" \in hooks /\ "finish" \in hooks
  OBVIOUS
<1>2. Append(<<>>, "start") = <<"start">>
  OBVIOUS
<1> HIDE DEF hooks
<1>3. Append(<<"start">>, "error") = <<"start", "error">>
  BY <1>1, AppendToOne, Zenon
<1>4. Append(<<"start">>, "finish") = <<"start", "finish">>
  BY <1>1, AppendToOne, Zenon
<1> QED BY <1>2, <1>3, <1>4

LEMMA AnsweredFinite == IsFiniteSet(Answered) /\ Cardinality(Answered) \in Nat
<1>1. Answered \subseteq Images
  BY DEF Answered
<1> QED BY <1>1, FS_Subset, FS_CardinalityType, AnalysisAssumption

LEMMA HookInvInit == Init => HookInv
<1> SUFFICES ASSUME Init PROVE HookInv
  OBVIOUS
<1>1. Answered = {}
  BY AnalysisAssumption DEF Init, Answered, Kinds
<1>2. tracked = Cardinality(Answered)
  BY <1>1, FS_EmptySet DEF Init
<1>3. \A i \in Images : fired[i] = <<>> /\ ToldOf(results[i]) = <<>>
  BY DEF Init, ToldOf
<1> QED
  BY <1>2, <1>3 DEF Init, HookInv, Pending, Asking

\* Steps that tell nobody anything.
LEMMA HookInvKept ==
    ASSUME HookInv, NEW i \in Images, NEW place,
           at' = [at EXCEPT ![i] = place],
           UNCHANGED <<given, results, fired, tracked, ctxErr>>,
           i \in given, ended' # "returned",
           place \in Pending <=> at[i] \in Pending,
           place \in Asking <=> at[i] \in Asking
    PROVE  HookInv'
<1>1. Answered' = Answered
  BY DEF Answered
<1> QED BY <1>1 DEF HookInv

\* The step in which a request ends, with the hooks it must have told.
LEMMA HookInvAnswer ==
    ASSUME HookInv, NEW i \in Images, NEW kind \in Kinds,
           at[i] \in Pending \cup Asking, i \in given, ended' # "returned",
           at' = [at EXCEPT ![i] = "release"],
           results' = [results EXCEPT ![i] = kind],
           fired' = [fired EXCEPT ![i] = ToldOf(kind)],
           tracked' = IF kind = "ok" THEN tracked + 1 ELSE tracked,
           UNCHANGED <<given, ctxErr>>
    PROVE  HookInv'
<1>1. results[i] = None /\ kind # None /\ i \notin Answered
  BY AnalysisAssumption DEF HookInv, Kinds, Answered
<1>2. tracked' = Cardinality(Answered')
  <2>1. CASE kind = "ok"
    <3>1. Answered' = Answered \cup {i}
      BY <2>1 DEF Answered, HookInv
    <3>2. Cardinality(Answered \cup {i}) = Cardinality(Answered) + 1
      BY <1>1, AnsweredFinite, FS_AddElement
    <3> QED BY <2>1, <3>1, <3>2 DEF HookInv
  <2>2. CASE kind # "ok"
    <3>1. Answered' = Answered
      BY <1>1, <2>2, AnalysisAssumption DEF Answered, HookInv, Kinds
    <3> QED BY <2>2, <3>1 DEF HookInv
  <2> QED BY <2>1, <2>2
<1>3. "release" \notin Pending \cup Asking
  BY DEF Pending, Asking
<1> QED BY <1>1, <1>2, <1>3 DEF HookInv

LEMMA HookInvStep == HookInv /\ [Next]_vars => HookInv'
<1> SUFFICES ASSUME HookInv, [Next]_vars PROVE HookInv'
  OBVIOUS
<1> USE DEF ctxVars, callVars, outVars
<1>1. \A i \in Images : i \notin given => at[i] = "done"
  BY DEF HookInv
<1>2. ASSUME NEW i \in Images, Acquire(i) PROVE HookInv'
  BY <1>1, <1>2, HookInvKept
     DEF Acquire, AcquireFails, AcquireAtOnce, AcquireWaits, WakeUp, WakeUpCancelled, GiveUp,
         Grant, ReleaseToken, At, Goto, Pending, Asking
<1>3. ASSUME NEW i \in Images, Release(i) PROVE HookInv'
  BY <1>1, <1>3, HookInvKept DEF Release, ReleaseToken, Grant, At, Goto, Pending, Asking
<1>4. ASSUME NEW i \in Images, PrepareFails(i) PROVE HookInv'
  <2>1. fired[i] = <<>>
    BY <1>4 DEF PrepareFails, At, HookInv, Pending
  <2>3. fired' = [fired EXCEPT ![i] = fired[i]]
    BY <1>4 DEF PrepareFails, HookInv
  <2>2. ToldOf("invalid") = <<>> /\ "invalid" \in Kinds
    BY DEF ToldOf, Kinds
  <2> QED BY <1>1, <1>4, <2>1, <2>2, <2>3, HookInvAnswer DEF PrepareFails, Answer, At, Goto, Pending
<1>5. ASSUME NEW i \in Images, Prepare(i) PROVE HookInv'
  <2>1. fired[i] = <<>>
    BY <1>5 DEF Prepare, At, HookInv, Pending
  <2>2. Answered' = Answered
    BY <1>5 DEF Prepare, Answered
  <2> QED BY <1>1, <1>5, <2>1, <2>2, Tellings DEF HookInv, Prepare, Fire, At, Goto, Pending, Asking
<1>6. ASSUME NEW i \in Images, NEW kind \in {"permanent", "transient", "cancelled", "timeout"},
             at[i] \in Asking, ended = "no", Fail(i, kind)
      PROVE  HookInv'
  <2>1. fired[i] = <<"start">>
    BY <1>6 DEF HookInv
  <2>2. ToldOf(kind) = <<"start", "error">> /\ kind \in Kinds
    BY AnalysisAssumption DEF ToldOf, Kinds
  <2>3. i \in given
    BY <1>1, <1>6 DEF Asking
  <2> QED BY <1>6, <2>1, <2>2, <2>3, Tellings, HookInvAnswer DEF Fail, Fire, Answer, Goto
<1>7. ASSUME NEW i \in Images,
             AttemptRefused(i) \/ CallInterrupted(i) \/ CallRejected(i) \/ LastCallFails(i)
                 \/ BackoffInterrupted(i)
      PROVE  HookInv'
  BY <1>6, <1>7
     DEF AttemptRefused, CallInterrupted, CallRejected, LastCallFails, BackoffInterrupted,
         HookInv, At, Asking
<1>8. ASSUME NEW i \in Images, CallSucceeds(i) PROVE HookInv'
  <2>1. fired[i] = <<"start">>
    BY <1>8 DEF CallSucceeds, At, HookInv, Asking
  <2>2. ToldOf("ok") = <<"start", "finish">> /\ "ok" \in Kinds
    BY AnalysisAssumption DEF ToldOf, Kinds
  <2> QED
    BY <1>1, <1>8, <2>1, <2>2, Tellings, HookInvAnswer DEF CallSucceeds, Fire, Answer, Goto, At, Asking
<1>9. ASSUME NEW i \in Images, AttemptAllowed(i) \/ BeginCall(i) \/ CallFails(i) \/ BackoffEnds(i)
      PROVE  HookInv'
  BY <1>1, <1>9, HookInvKept
     DEF AttemptAllowed, BeginCall, CallFails, BackoffEnds, At, Goto, Pending, Asking
<1>10. ASSUME Cancel \/ \E i \in Images : Timeout(i) PROVE HookInv'
  <2>1. Answered' = Answered
    BY <1>10 DEF Cancel, Timeout, Answered
  <2> QED BY <1>10, <2>1 DEF HookInv, Cancel, Timeout
<1>11. ASSUME ReturnResults \/ UNCHANGED vars PROVE HookInv'
  <2>1. Answered' = Answered
    BY <1>11 DEF ReturnResults, vars, Answered
  <2> QED BY <1>11, <2>1 DEF HookInv, ReturnResults, vars
<1> QED
  BY <1>2, <1>3, <1>4, <1>5, <1>7, <1>8, <1>9, <1>10, <1>11 DEF Next, Goroutine, Analyze, Call

\* However its calls are retried, refused, timed out and cancelled, a batch that
\* returns told its observers exactly what it tells its caller.
THEOREM HooksAlwaysMatchResults == Spec => []HooksMatchResults
<1>1. ASSUME HookInv, ended = "returned" PROVE HooksMatchResults
  <2>1. ASSUME NEW i \in Images
        PROVE  /\ results[i] = None <=> i \notin given
               /\ fired[i] = ToldOf(results[i])
    BY <1>1 DEF HookInv, Pending, Asking
  <2>2. \A kind : ToldOf(kind) = CASE kind \in {None, "invalid"} -> <<>>
                                   [] kind = "ok" -> <<"start", "finish">>
                                   [] OTHER -> <<"start", "error">>
    BY AnalysisAssumption DEF ToldOf, Kinds
  <2>3. tracked = Cardinality({i \in Images : results[i] = "ok"})
    BY <1>1 DEF HookInv, Answered
  <2> QED BY <2>1, <2>2, <2>3 DEF HooksMatchResults
<1>2. HookInv => HooksMatchResults
  BY <1>1 DEF HooksMatchResults
<1> QED
  BY HookInvInit, HookInvStep, <1>2, PTL DEF Spec
=============================================================================
