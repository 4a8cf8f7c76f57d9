------------------------------ MODULE Requests ------------------------------
(***************************************************************************)
(* One application at a time asking (pkg/vision): the six ways to analyze  *)
(* an image, through a ScreenshotAnalyzer that keeps an agent until its    *)
(* settings change, with the history of a Conversation, and by the generic *)
(* functions that decode a typed object.  Everything runs in the caller's  *)
(* goroutine; its hooks, tools and stream callbacks get control in the     *)
(* middle and may change the settings and the conversation.                *)
(*                                                                         *)
(* A chunk of a text is its number in the request.  A setting that is not  *)
(* sent, and a field an object does not have, is None.                     *)
(***************************************************************************)
EXTENDS Integers, Sequences

CONSTANTS
    Temperatures, TokenLimits,   \* what the application sets
    ModelTokens,                 \* ModelInfo.DefaultMaxTokens, or 0
    Statuses,                    \* of the provider's answers, 0 for none
    Retrying, MaxAttempts,       \* Config.Retry, RetryConfig.attempts()
    None,
    MaxRequests, MaxParts, MaxMessages, MaxSettings    \* bounds

Fields == {"layout", "score"}
Methods == {m \in [stream: BOOLEAN, history: BOOLEAN, typed: BOOLEAN] : ~(m.typed /\ m.history)}

VARIABLES
    config,    \* ScreenshotAnalyzer.config
    cached,    \* ScreenshotAnalyzer.cachedAgent: the configuration it was built from
    arrays,    \* the backing arrays of slices of messages that there have been
    conv,      \* Conversation.messages: a slice, so an array and a length
    at,        \* where the request is
    req,       \* its local variables
    ctxErr,    \* the error of its context
    told,      \* what hooks and callbacks were given
    outcome,   \* what it returned
    due,       \* what its attempts are to send, and the provider's part of it (ghost)
    count      \* requests, settings and messages so far

vars == <<config, cached, arrays, conv, at, req, ctxErr, told, outcome, due, count>>
appVars == <<config, cached, arrays, conv>>

Kinds == {"rate_limited", "timeout", "server_error", "not_implemented", "service_unavailable",
          "overloaded", "network", "authentication", "payment_required", "not_found", "bad_request",
          "content_filter", "context_too_large", "cancelled", "structured_parse_error", "unknown"}

ASSUME RequestsAssumption ==
    /\ Temperatures \subseteq Int /\ TokenLimits \subseteq Int
    /\ ModelTokens \in Nat /\ Statuses \subseteq Nat
    /\ MaxAttempts \in Nat \ {0} /\ (~Retrying => MaxAttempts = 1)
    /\ \A x \in Temperatures \cup TokenLimits : x # None

-----------------------------------------------------------------------------
(* Errors of the model. *)

Raw(type, status, tooLarge, filtered, retryable) ==
    [type |-> type, status |-> status, tooLarge |-> tooLarge, filtered |-> filtered, retryable |-> retryable]

\* Only the library knows which of a provider's errors it calls retryable.
ProviderErrors == {Raw("provider", s, l, f, r) : s \in Statuses, l, f, r \in BOOLEAN}
OtherErrors == {Raw(t, 0, FALSE, FALSE, FALSE) : t \in {"canceled", "deadline", "no_object", "other"}}

KindOfStatus == [s \in {401, 402, 403, 404, 408, 429, 501, 503, 529} |->
    CASE s \in {401, 403} -> "authentication"
      [] s = 402 -> "payment_required"
      [] s = 404 -> "not_found"
      [] s = 408 -> "timeout"
      [] s = 429 -> "rate_limited"
      [] s = 501 -> "not_implemented"
      [] s = 503 -> "service_unavailable"
      [] s = 529 -> "overloaded"]

classifyProviderError(e) ==
    CASE e.tooLarge -> "context_too_large"
      [] ~e.tooLarge /\ e.status \in DOMAIN KindOfStatus -> KindOfStatus[e.status]
      [] ~e.tooLarge /\ e.status = 400 -> IF e.filtered THEN "content_filter" ELSE "bad_request"
      [] OTHER -> IF e.status >= 500 THEN "server_error"
                  ELSE IF e.status = 0 /\ e.retryable THEN "network" ELSE "unknown"

Classify(e) ==
    CASE e.type = "canceled" -> "cancelled"
      [] e.type = "deadline" -> "timeout"
      [] e.type = "no_object" -> "structured_parse_error"
      [] e.type = "provider" -> classifyProviderError(e)
      [] e.type = "other" -> "unknown"

\* ModelError.IsRetryable, of an error that was classified
RetryableKinds == {"rate_limited", "timeout", "server_error", "service_unavailable", "overloaded", "network"}

\* IsRetryable, of an error that was not: WithRetry asks before the classification.
IsRetryable(e) == e.type = "provider" /\ e.retryable

-----------------------------------------------------------------------------
(* Settings and conversation, changed by the application alone. *)

DefaultConfig == [temperature |-> 0, tokens |-> 0]
Valid(c) == c.temperature \in 0..2 /\ c.tokens >= 0

\* applyModelInfoDefaults, of the agent's copy
Defaulted(c) == IF c.tokens = 0 THEN [c EXCEPT !.tokens = ModelTokens] ELSE c

\* optionalParams: zero is not sent.
Params(c) == [temperature |-> IF c.temperature # 0 THEN c.temperature ELSE None,
              tokens |-> IF c.tokens > 0 THEN c.tokens ELSE None]

Slice(s) == SubSeq(arrays[s.array], 1, s.len)

NoRequest == [method |-> None, watched |-> FALSE, params |-> None, messages |-> None,
              attempt |-> 0, text |-> <<>>, object |-> None]
NothingTold == [hooks |-> <<>>, chunks |-> <<>>, object |-> None]
NothingDue == [params |-> None, history |-> None, chunks |-> 0, partial |-> None, final |-> None, failure |-> None]
ZeroObject == [f \in Fields |-> 0]

Init ==
    /\ config = DefaultConfig /\ cached = None
    /\ arrays = << <<>> >> /\ conv = [array |-> 1, len |-> 0]
    /\ at = "idle" /\ req = NoRequest /\ ctxErr = None
    /\ told = NothingTold /\ outcome = None /\ due = NothingDue
    /\ count = [requests |-> 0, settings |-> 0, messages |-> 0, parts |-> 0]

\* The application has control between requests, in OnStart, and during an attempt
\* in its tools, PrepareStep and stream callbacks.
InApplication == at \in {"idle", "started", "asked", "streaming"}

\* (mutant) the agent is built once
WithKeepsAgent(c) ==
    /\ InApplication /\ count.settings < MaxSettings
    /\ config' = c
    /\ count' = [count EXCEPT !.settings = @ + 1]
    /\ UNCHANGED <<cached, arrays, conv, at, req, ctxErr, told, outcome, due>>

\* The With methods, each of which ends in invalidate.
With(c) ==
    /\ InApplication /\ count.settings < MaxSettings
    /\ config' = c
    /\ cached' = None
    /\ count' = [count EXCEPT !.settings = @ + 1]
    /\ UNCHANGED <<arrays, conv, at, req, ctxErr, told, outcome, due>>

\* append: in place while the array has room, else into one of twice the size.
AddMessage ==
    LET m == count.messages + 1
        n == conv.len
        old == arrays[conv.array]
    IN  /\ InApplication /\ count.messages < MaxMessages
        /\ count' = [count EXCEPT !.messages = m]
        /\ IF n < Len(old)
             THEN /\ arrays' = [arrays EXCEPT ![conv.array][n + 1] = m]
                  /\ conv' = [conv EXCEPT !.len = n + 1]
             ELSE /\ arrays' = Append(arrays, [i \in 1..(IF n = 0 THEN 1 ELSE 2 * n) |->
                                                  IF i <= n THEN old[i] ELSE IF i = n + 1 THEN m ELSE 0])
                  /\ conv' = [array |-> Len(arrays) + 1, len |-> n + 1]
        /\ UNCHANGED <<config, cached, at, req, ctxErr, told, outcome, due>>

\* (mutant) the array is kept for the next messages
ClearInPlace ==
    /\ InApplication /\ conv.len > 0
    /\ conv' = [conv EXCEPT !.len = 0]
    /\ UNCHANGED <<config, cached, arrays, at, req, ctxErr, told, outcome, due, count>>

\* A nil slice: the empty array.
Clear ==
    /\ InApplication /\ conv.len > 0
    /\ conv' = [array |-> 1, len |-> 0]
    /\ UNCHANGED <<config, cached, arrays, at, req, ctxErr, told, outcome, due, count>>

Application ==
    \/ \E c \in [temperature: Temperatures, tokens: TokenLimits] : With(c)
    \/ AddMessage
    \/ Clear

-----------------------------------------------------------------------------
(* A request. *)

Return(result) == at' = "idle" /\ outcome' = result
Failed(kind) == [kind |-> kind, text |-> <<>>, object |-> None]
Tell(hook) == told' = [told EXCEPT !.hooks = Append(@, hook)]

\* An error of the model, classified, told to OnError and returned.
Fail(kind) ==
    /\ Tell(<<"error", kind>>)
    /\ Return(Failed(kind))

\* finishResult: OnFinish has the text, the caller the object too.
Succeed(text, object) ==
    /\ Tell(<<"finish", text>>)
    /\ Return([kind |-> "ok", text |-> text, object |-> object])

\* A request of the analyzer takes its agent, built now unless there is one; the typed
\* functions have no analyzer and take an agent of their own.
Ask(m, watched) ==
    LET agent == IF m.typed THEN DefaultConfig ELSE IF cached # None THEN cached ELSE config
    IN  /\ at = "idle" /\ count.requests < MaxRequests
        /\ count' = [count EXCEPT !.requests = @ + 1, !.parts = 0]
        /\ told' = NothingTold /\ ctxErr' = None
        /\ IF Valid(agent)
             THEN /\ at' = "prepare" /\ outcome' = None
                  /\ cached' = IF m.typed THEN cached ELSE agent
                  /\ req' = [NoRequest EXCEPT !.method = m, !.watched = watched,
                                              !.params = Params(Defaulted(agent)), !.object = ZeroObject]
                  /\ due' = [NothingDue EXCEPT !.params =
                                 Params(Defaulted(IF m.typed THEN DefaultConfig ELSE config))]
             ELSE /\ Return(Failed("invalid"))
                  /\ req' = NoRequest /\ due' = NothingDue
                  /\ UNCHANGED cached
        /\ UNCHANGED <<config, arrays, conv>>

\* Nothing to ask or to look at, or an image that cannot be preprocessed.
PrepareFails ==
    /\ at = "prepare"
    /\ Return(Failed("invalid"))
    /\ UNCHANGED <<appVars, req, ctxErr, told, due, count>>

Prepare ==
    /\ at = "prepare"
    /\ Tell(<<"start">>)
    /\ at' = "started"
    /\ UNCHANGED <<appVars, req, ctxErr, outcome, due, count>>

\* buildAgentCall, buildAgentStreamCall, buildObjectCall: what all attempts send
BuildCall ==
    /\ at = "started"
    /\ req' = [req EXCEPT !.messages = IF req.method.history THEN conv ELSE [array |-> 1, len |-> 0]]
    /\ due' = [due EXCEPT !.history = IF req.method.history THEN Slice(conv) ELSE <<>>]
    /\ at' = "attempt"
    /\ UNCHANGED <<appVars, ctxErr, told, outcome, count>>

\* WithRetry: not again on a context that is done; without it the model is asked anyway.
AttemptRefused ==
    /\ at = "attempt" /\ ctxErr # None
    /\ Retrying /\ ~req.method.stream
    /\ Fail(Classify(ctxErr))
    /\ UNCHANGED <<appVars, req, ctxErr, due, count>>

BeginAttempt ==
    /\ at = "attempt"
    /\ ctxErr = None \/ ~Retrying \/ req.method.stream
    /\ at' = "asked"
    /\ req' = [req EXCEPT !.attempt = @ + 1]
    /\ due' = [due EXCEPT !.chunks = 0]
    /\ UNCHANGED <<appVars, ctxErr, told, outcome, count>>

\* Only a context that is done fails a call as cancelled; a transport has deadlines of its own.
Fault(e) == e.type # "canceled" \/ (ctxErr # None /\ ctxErr.type = "canceled")

\* (mutant) one attempt less
LastAttemptIsSpared(e) ==
    /\ Retrying /\ ~req.method.stream
    /\ IsRetryable(e) /\ req.attempt + 1 < MaxAttempts

\* (mutant) a stream is begun again as well
StreamsRetryToo(e) == Retrying /\ IsRetryable(e) /\ req.attempt < MaxAttempts

\* Streams are not retried: "retrying a partial stream has ambiguous delta semantics".
RetryFollows(e) ==
    /\ Retrying /\ ~req.method.stream
    /\ IsRetryable(e) /\ req.attempt < MaxAttempts

AttemptFails(e) ==
    /\ at \in {"asked", "streaming"} /\ Fault(e)
    /\ due' = [due EXCEPT !.failure = [type |-> e.type, retryable |-> e.retryable]]
    /\ IF RetryFollows(e) THEN at' = "backoff" /\ UNCHANGED <<told, outcome>>
                          ELSE Fail(Classify(e))
    /\ UNCHANGED <<appVars, req, ctxErr, count>>

BackoffEnds ==
    /\ at = "backoff"
    /\ IF ctxErr = None THEN at' = "attempt" /\ UNCHANGED <<told, outcome>>
                        ELSE Fail(Classify(ctxErr))
    /\ UNCHANGED <<appVars, req, ctxErr, due, count>>

\* The caller cancels, or the request's timeout passes, which spans all attempts.
ContextEnds(type) ==
    /\ at \notin {"idle", "prepare"} /\ ctxErr = None
    /\ ctxErr' = Raw(type, 0, FALSE, FALSE, FALSE)
    /\ UNCHANGED <<appVars, at, req, told, outcome, due, count>>

-----------------------------------------------------------------------------
(* Answers.  An object gives some of its fields a value; Garbage does not fit the type. *)

Garbage == [f \in Fields |-> -1]
Objects(value) == [Fields -> {None, value}] \cup {Garbage}

\* UnmarshalToType: fields that are absent keep their value.
Decode(object, into) == [f \in Fields |-> IF object[f] # None THEN object[f] ELSE into[f]]

Generated ==
    /\ at = "asked" /\ ~req.method.stream /\ ~req.method.typed
    /\ due' = [due EXCEPT !.chunks = 1]
    /\ Succeed(<<1>>, None)
    /\ UNCHANGED <<appVars, req, ctxErr, count>>

\* AnalyzeStructured: no object leaves T zero.
ObjectGenerated(object) ==
    /\ at = "asked" /\ ~req.method.stream /\ req.method.typed
    /\ due' = [due EXCEPT !.chunks = 1, !.final = object]
    /\ IF object = Garbage THEN Fail("structured_parse_error")
       ELSE Succeed(<<1>>, IF object = None THEN ZeroObject ELSE Decode(object, ZeroObject))
    /\ UNCHANGED <<appVars, req, ctxErr, count>>

StreamOpens ==
    /\ at = "asked" /\ req.method.stream
    /\ at' = "streaming"
    /\ UNCHANGED <<appVars, req, ctxErr, told, outcome, due, count>>

NextPart ==
    /\ at = "streaming" /\ count.parts < MaxParts
    /\ count' = [count EXCEPT !.parts = @ + 1]

Chunk == due.chunks + 1

\* OnTextDelta: kept, then shown; an error of onText ends the stream with it.
TextDelta(refused) ==
    /\ NextPart /\ ~req.method.typed
    /\ due' = [due EXCEPT !.chunks = Chunk]
    /\ req' = [req EXCEPT !.text = Append(@, Chunk)]
    /\ IF req.watched /\ refused
         THEN /\ told' = [told EXCEPT !.chunks = Append(@, Chunk), !.hooks = Append(@, <<"error", "unknown">>)]
              /\ Return(Failed("unknown"))
         ELSE /\ told' = IF req.watched THEN [told EXCEPT !.chunks = Append(@, Chunk)] ELSE told
              /\ UNCHANGED <<at, outcome>>
    /\ UNCHANGED <<appVars, ctxErr>>

\* The model's answer ends.
TextEnds ==
    /\ at = "streaming" /\ ~req.method.typed
    /\ Succeed(req.text, None)
    /\ UNCHANGED <<appVars, req, ctxErr, due, count>>

RawDelta ==
    /\ NextPart /\ req.method.typed
    /\ due' = [due EXCEPT !.chunks = Chunk]
    /\ req' = [req EXCEPT !.text = Append(@, Chunk)]
    /\ UNCHANGED <<appVars, at, ctxErr, told, outcome>>

\* (mutant) a partial object is decoded over the one before
DecodeOverLast(object) == Decode(object, req.object)

\* into a zero T
DecodePartial(object) == Decode(object, ZeroObject)

\* Only for a callback; a part that does not fit the type is skipped, as is one with
\* neither an object nor an error.
Partial(object) ==
    /\ NextPart /\ req.method.typed
    /\ IF req.watched /\ object # None /\ object # Garbage
         THEN /\ told' = [told EXCEPT !.object = DecodePartial(object)]
              /\ req' = [req EXCEPT !.object = DecodePartial(object)]
              /\ due' = [due EXCEPT !.partial = object]
         ELSE UNCHANGED <<told, req, due>>
    /\ UNCHANGED <<appVars, at, ctxErr, outcome>>

\* The last part of the stream, and its end.  The final object goes over the last partial one.
ObjectEnds(object) ==
    /\ at = "streaming" /\ req.method.typed
    /\ due' = [due EXCEPT !.final = object]
    /\ IF object = Garbage THEN Fail("structured_parse_error")
       ELSE Succeed(req.text, IF object = None THEN req.object ELSE Decode(object, req.object))
    /\ UNCHANGED <<appVars, req, ctxErr, count>>

Request ==
    \/ \E m \in Methods, watched \in BOOLEAN : (watched => m.stream) /\ Ask(m, watched)
    \/ PrepareFails
    \/ Prepare
    \/ BuildCall
    \/ AttemptRefused
    \/ BeginAttempt
    \/ \E e \in ProviderErrors \cup OtherErrors : AttemptFails(e)
    \/ BackoffEnds

Answer ==
    \/ Generated
    \/ \E object \in Objects(2) \cup {None} : ObjectGenerated(object)
    \/ StreamOpens
    \/ \E refused \in BOOLEAN : TextDelta(refused)
    \/ TextEnds
    \/ RawDelta
    \/ \E object \in Objects(1) \cup {None} : Partial(object)
    \/ \E object \in Objects(2) \cup {None} : ObjectEnds(object)

Next ==
    \/ Application
    \/ Request
    \/ Answer
    \/ \E type \in {"canceled", "deadline"} : ContextEnds(type)

Spec == Init /\ [][Next]_vars

-----------------------------------------------------------------------------
(* What requests promise. *)

Returned == at = "idle" /\ outcome # None

\* OnStart once, then OnFinish with the text returned or OnError with the kind
\* returned, however many attempts and parts there were; nothing for a bad request.
HooksAgree ==
    told.hooks = IF outcome.kind = "invalid" THEN <<>>
                 ELSE << <<"start">>, IF outcome.kind = "ok" THEN <<"finish", outcome.text>>
                                                            ELSE <<"error", outcome.kind>> >>

\* The text is what the model wrote, once and in order, and so is what onText saw,
\* of a stream that failed too.
TextAgrees ==
    LET written == [i \in 1..due.chunks |-> i]
    IN  /\ outcome.kind = "ok" => outcome.text = written
        /\ (outcome.kind # "invalid" /\ req.watched /\ ~req.method.typed) => told.chunks = written

\* The object is the final one, over the last partial one that onObject saw.
ObjectAgrees ==
    LET over(object, into) == IF object = None THEN into ELSE Decode(object, into)
        last == over(due.partial, ZeroObject)
    IN  (outcome.kind = "ok" /\ req.method.typed) =>
          /\ outcome.object = over(due.final, last)
          /\ req.watched => told.object = (IF due.partial = None THEN None ELSE last)

\* What a request told its hooks and callbacks is what it returns, and is what the model
\* answered: of all six methods, their error paths and their retries.
ToldIsReturned == Returned => HooksAgree /\ TextAgrees /\ ObjectAgrees

\* All attempts send the settings the analyzer had when it was asked and the messages
\* the conversation had when the call was built, whatever the application has done to
\* either since.
AttemptsCarryTheTurn ==
    at = "asked" => req.params = due.params /\ Slice(req.messages) = due.history

\* Only a failure that the provider calls retryable is followed by an attempt, and only
\* such a one, of a request that is still wanted, is left alone while there are attempts.
RetriesAreSpent ==
    /\ (at = "attempt" /\ req.attempt > 0) => due.failure = [type |-> "provider", retryable |-> TRUE]
    /\ (Returned /\ outcome.kind \in RetryableKinds /\ Retrying /\ ~req.method.stream /\ ctxErr = None) =>
         \/ req.attempt = MaxAttempts
         \/ due.failure.type = "deadline"     \* of the transport
         \/ ~due.failure.retryable            \* its library disagrees with the kind

\* A request's attempts ask what it was to ask, and are neither spared nor wasted.
AttemptsAreRight == AttemptsCarryTheTurn /\ RetriesAreSpent
=============================================================================
