------------------------------ MODULE Analysis ------------------------------
(***************************************************************************)
(* Calls of the model (pkg/vision): AnalyzeBatch with its semaphore, one   *)
(* goroutine per image, each in Analyze with its timeout, its retries with *)
(* backoff and its hooks, which feed a CostTracker.                        *)
(*                                                                         *)
(* A failed call is "transient" (IsRetryable) or "permanent"; the error of *)
(* a context is "cancelled" or "timeout", and never retried.  The answer's *)
(* text and usage do not matter: every answer counts one.                  *)
(***************************************************************************)
EXTENDS Integers, Sequences, FiniteSets

CONSTANTS
    Images,          \* positions of the batch
    MaxConcurrency,  \* size of the semaphore
    Retry,           \* Config.Retry is set
    MaxAttempts,     \* RetryConfig.attempts(), 1 without Config.Retry
    None             \* no result

Kinds == {"ok", "invalid", "permanent", "transient", "cancelled", "timeout"}

ASSUME AnalysisAssumption ==
    /\ None \notin Kinds
    /\ IsFiniteSet(Images)
    /\ MaxConcurrency \in Nat \ {0} /\ MaxAttempts \in Nat \ {0}
    /\ Retry \in BOOLEAN /\ (~Retry => MaxAttempts = 1)

VARIABLES
    at,         \* at[i]: where the goroutine of image i is
    given,      \* the images that are not nil
    cur,        \* tokens taken from the semaphore
    waiters,    \* images whose Acquire waits, in order
    granted,    \* images that were given a token and did not wake up yet
    ctxErr,     \* ctxErr[i]: the error of the context of image i
    cancelled,  \* the caller cancelled the batch
    attempt,    \* attempt[i]: calls begun for image i
    deadCalls,  \* deadCalls[i]: those begun after its context was done
    fired,      \* fired[i]: hooks fired for image i
    tracked,    \* CostTracker.calls
    results,    \* results[i]: "ok" or the kind of BatchResult.Err
    ended       \* the batch: "no", "returned" or "panicked"

semVars == <<cur, waiters, granted>>
ctxVars == <<ctxErr, cancelled>>
callVars == <<attempt, deadCalls>>
outVars == <<fired, tracked, results>>
vars == <<at, given, semVars, ctxVars, callVars, outVars, ended>>

Init ==
    /\ given \in SUBSET Images
    /\ at = [i \in Images |-> IF i \in given THEN "acquire" ELSE "done"]
    /\ cur = 0 /\ waiters = <<>> /\ granted = {}
    /\ ctxErr = [i \in Images |-> None] /\ cancelled = FALSE
    /\ attempt = [i \in Images |-> 0] /\ deadCalls = [i \in Images |-> 0]
    /\ fired = [i \in Images |-> <<>>] /\ tracked = 0
    /\ results = [i \in Images |-> None]
    /\ ended = "no"

Goto(i, place) == at' = [at EXCEPT ![i] = place]
At(i, place) == ended = "no" /\ at[i] = place

-----------------------------------------------------------------------------
(* semaphore.Weighted *)

\* notifyWaiters: with so many tokens taken, the free ones go to the first of the
\* queue; woken have left Acquire.
Grant(taken, queue, woken) ==
    LET free == MaxConcurrency - taken
        n == IF free < Len(queue) THEN free ELSE Len(queue)
    IN  /\ cur' = taken + n
        /\ waiters' = SubSeq(queue, n + 1, Len(queue))
        /\ granted' = (granted \ woken) \cup {queue[j] : j \in 1..n}

\* Weighted.Release panics when the tokens run out.
ReleaseToken(woken) ==
    IF cur > 0 THEN Grant(cur - 1, waiters, woken) /\ UNCHANGED ended
               ELSE ended' = "panicked" /\ UNCHANGED semVars

\* A context that is done fails at once; the batch goes on without a token.
AcquireFails(i) ==
    /\ At(i, "acquire") /\ cancelled
    /\ Goto(i, "prepare")
    /\ UNCHANGED <<given, semVars, ctxVars, callVars, outVars, ended>>

AcquireAtOnce(i) ==
    /\ At(i, "acquire") /\ ~cancelled
    /\ cur < MaxConcurrency /\ waiters = <<>>
    /\ cur' = cur + 1
    /\ Goto(i, "prepare")
    /\ UNCHANGED <<given, waiters, granted, ctxVars, callVars, outVars, ended>>

AcquireWaits(i) ==
    /\ At(i, "acquire") /\ ~cancelled
    /\ cur = MaxConcurrency \/ waiters # <<>>
    /\ waiters' = Append(waiters, i)
    /\ Goto(i, "waiting")
    /\ UNCHANGED <<given, cur, granted, ctxVars, callVars, outVars, ended>>

WakeUp(i) ==
    /\ At(i, "waiting") /\ i \in granted /\ ~cancelled
    /\ Goto(i, "prepare")
    /\ granted' = granted \ {i}
    /\ UNCHANGED <<given, cur, waiters, ctxVars, callVars, outVars, ended>>

\* A token that comes with the cancellation is given back, by Release or without
\* its check, as select has it.
WakeUpCancelled(i) ==
    /\ At(i, "waiting") /\ i \in granted /\ cancelled
    /\ Goto(i, "prepare")
    /\ \/ Grant(cur - 1, waiters, {i}) /\ UNCHANGED ended
       \/ ReleaseToken({i})
    /\ UNCHANGED <<given, ctxVars, callVars, outVars>>

GiveUp(i) ==
    /\ At(i, "waiting") /\ i \notin granted /\ cancelled
    /\ Goto(i, "prepare")
    /\ Grant(cur, SelectSeq(waiters, LAMBDA j : j # i), {})
    /\ UNCHANGED <<given, ctxVars, callVars, outVars, ended>>

\* (mutant) the token is kept when the image failed
ReleaseAnswered(i) ==
    /\ At(i, "release")
    /\ Goto(i, "done")
    /\ IF results[i] = "ok" THEN ReleaseToken({}) ELSE UNCHANGED <<semVars, ended>>
    /\ UNCHANGED <<given, ctxVars, callVars, outVars>>

\* The deferred Release, also after an Acquire that failed.
Release(i) ==
    /\ At(i, "release")
    /\ Goto(i, "done")
    /\ ReleaseToken({})
    /\ UNCHANGED <<given, ctxVars, callVars, outVars>>

-----------------------------------------------------------------------------
(* Agent.Analyze of one image. *)

Fire(i, hook) == fired' = [fired EXCEPT ![i] = Append(@, hook)]
Answer(i, kind) == results' = [results EXCEPT ![i] = kind] /\ Goto(i, "release")

\* prepare: the image cannot be preprocessed, before any hook
PrepareFails(i) ==
    /\ At(i, "prepare")
    /\ Answer(i, "invalid")
    /\ UNCHANGED <<given, semVars, ctxVars, callVars, fired, tracked, ended>>

\* (mutant) the token is given back before the call
PrepareOutsideOfLimit(i) ==
    /\ At(i, "prepare")
    /\ Fire(i, "start")
    /\ Goto(i, "attempt")
    /\ ReleaseToken({})
    /\ UNCHANGED <<given, ctxVars, callVars, tracked, results>>

Prepare(i) ==
    /\ At(i, "prepare")
    /\ Fire(i, "start")
    /\ Goto(i, "attempt")
    /\ UNCHANGED <<given, semVars, ctxVars, callVars, tracked, results, ended>>

\* every error leaves Analyze classified, with OnError fired once
Fail(i, kind) ==
    /\ Fire(i, "error")
    /\ Answer(i, kind)
    /\ UNCHANGED <<given, semVars, ctxVars, callVars, tracked, ended>>

\* The head of WithRetry's loop.
AttemptRefused(i) == At(i, "attempt") /\ Retry /\ ctxErr[i] # None /\ Fail(i, ctxErr[i])

\* (mutant) the context is not looked at before a call
AttemptUnchecked(i) ==
    /\ At(i, "attempt")
    /\ Goto(i, "begin")
    /\ UNCHANGED <<given, semVars, ctxVars, callVars, outVars, ended>>

\* Without Config.Retry nothing looks at the context before the call.
AttemptAllowed(i) ==
    /\ At(i, "attempt")
    /\ Retry => ctxErr[i] = None
    /\ Goto(i, "begin")
    /\ UNCHANGED <<given, semVars, ctxVars, callVars, outVars, ended>>

BeginCall(i) ==
    /\ At(i, "begin")
    /\ Goto(i, "call")
    /\ attempt' = [attempt EXCEPT ![i] = @ + 1]
    /\ deadCalls' = [deadCalls EXCEPT ![i] = IF ctxErr[i] # None THEN @ + 1 ELSE @]
    /\ UNCHANGED <<given, semVars, ctxVars, outVars, ended>>

\* (mutant) OnError fires for each attempt
CallSucceedsAfterErrors(i) ==
    /\ At(i, "call")
    /\ fired' = [fired EXCEPT ![i] = IF attempt[i] > 1 THEN @ \o <<"error", "finish">>
                                                       ELSE Append(@, "finish")]
    /\ tracked' = tracked + 1
    /\ Answer(i, "ok")
    /\ UNCHANGED <<given, semVars, ctxVars, callVars, ended>>

\* finishResult: OnFinish adds the usage.
CallSucceeds(i) ==
    /\ At(i, "call")
    /\ Fire(i, "finish")
    /\ tracked' = tracked + 1
    /\ Answer(i, "ok")
    /\ UNCHANGED <<given, semVars, ctxVars, callVars, ended>>

CallInterrupted(i) == At(i, "call") /\ ctxErr[i] # None /\ Fail(i, ctxErr[i])
CallRejected(i) == At(i, "call") /\ Fail(i, "permanent")
LastCallFails(i) == At(i, "call") /\ attempt[i] = MaxAttempts /\ Fail(i, "transient")

CallFails(i) ==
    /\ At(i, "call") /\ attempt[i] < MaxAttempts
    /\ Goto(i, "backoff")
    /\ UNCHANGED <<given, semVars, ctxVars, callVars, outVars, ended>>

\* the select of the backoff: a context that is done, or the delay is over
BackoffInterrupted(i) == At(i, "backoff") /\ ctxErr[i] # None /\ Fail(i, ctxErr[i])

BackoffEnds(i) ==
    /\ At(i, "backoff")
    /\ Goto(i, "attempt")
    /\ UNCHANGED <<given, semVars, ctxVars, callVars, outVars, ended>>

-----------------------------------------------------------------------------
\* wg.Wait is over.
ReturnResults ==
    /\ ended = "no"
    /\ \A i \in Images : at[i] = "done"
    /\ ended' = "returned"
    /\ UNCHANGED <<at, given, semVars, ctxVars, callVars, outVars>>

Cancel ==
    /\ ended = "no" /\ ~cancelled
    /\ cancelled' = TRUE
    /\ ctxErr' = [i \in Images |-> IF ctxErr[i] = None THEN "cancelled" ELSE ctxErr[i]]
    /\ UNCHANGED <<at, given, semVars, callVars, outVars, ended>>

\* Config.RequestTimeout, which spans the attempts of one request.
Timeout(i) ==
    /\ ended = "no"
    /\ at[i] \in {"attempt", "begin", "call", "backoff"}
    /\ ctxErr[i] = None
    /\ ctxErr' = [ctxErr EXCEPT ![i] = "timeout"]
    /\ UNCHANGED <<at, given, semVars, cancelled, callVars, outVars, ended>>

Acquire(i) ==
    \/ AcquireFails(i) \/ AcquireAtOnce(i) \/ AcquireWaits(i)
    \/ WakeUp(i) \/ WakeUpCancelled(i) \/ GiveUp(i)
Call(i) ==
    \/ BeginCall(i) \/ CallSucceeds(i) \/ CallInterrupted(i) \/ CallRejected(i)
    \/ LastCallFails(i) \/ CallFails(i)
Analyze(i) ==
    \/ PrepareFails(i) \/ Prepare(i) \/ AttemptRefused(i) \/ AttemptAllowed(i) \/ Call(i)
    \/ BackoffInterrupted(i) \/ BackoffEnds(i)
Goroutine(i) == Acquire(i) \/ Analyze(i) \/ Release(i)

Next ==
    \/ \E i \in Images : Goroutine(i) \/ Timeout(i)
    \/ ReturnResults \/ Cancel

Spec == Init /\ [][Next]_vars

\* Goroutines are scheduled, and a call or a backoff ends.
FairSpec == Spec /\ (\A i \in Images : WF_vars(Goroutine(i))) /\ WF_vars(ReturnResults)

-----------------------------------------------------------------------------
\* No more images than allowed use the model at once, backoffs included, as long
\* as the caller wants the answers.
LiveCallsAreLimited ==
    ~cancelled =>
        Cardinality({i \in Images : at[i] \in {"attempt", "begin", "call", "backoff"}})
            <= MaxConcurrency

\* What observers were told adds up to what the caller gets, whatever was
\* retried: each request that was prepared ended in one OnFinish or one OnError,
\* the tracker counted the answers, and only nil images have neither.
HooksMatchResults ==
    ended = "returned" =>
        /\ tracked = Cardinality({i \in Images : results[i] = "ok"})
        /\ \A i \in Images :
              /\ results[i] = None <=> i \notin given
              /\ fired[i] = CASE results[i] \in {None, "invalid"} -> <<>>
                              [] results[i] = "ok" -> <<"start", "finish">>
                              [] OTHER -> <<"start", "error">>

\* A request whose context is done makes at most the one call it was about to
\* make, however many attempts and backoffs are left.
DeadRequestsStop == \A i \in Images : deadCalls[i] <= 1

\* A batch nobody cancels answers for all its images.
BatchReturns == []~cancelled => <>(ended = "returned")
=============================================================================
