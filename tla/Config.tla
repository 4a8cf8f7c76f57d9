------------------------------- MODULE Config -------------------------------
(***************************************************************************)
(* The configuration of visionreviewd (config.go): a JSON document decoded *)
(* over the defaults, its paths expanded and the whole validated; how it is *)
(* written back; and what the daemon makes of it: the policy of its model  *)
(* calls (reviewer.go, retry.go), the gate before its passes (commands.go, *)
(* health.go) and its loop (daemon.go).                                    *)
(*                                                                         *)
(* A document has each of its members, or not: Absent, Null, a text or a   *)
(* number.  A duration's text is Empty, Malformed or what it parses to, in *)
(* milliseconds; multipliers are in tenths.  A path is a sequence of names, *)
(* the first of them "/" or "~" when it begins so; "" is the path <<>>.    *)
(***************************************************************************)
EXTENDS Integers, Sequences, FiniteSets

CONSTANTS
    Absent, Null,           \* a member that is not there, and one that is null
    Empty, Malformed,       \* "", and a text that does not parse
    Endpoint, OtherScheme,  \* http://127.0.0.1:8390/v1, and a URL that is not http(s)
    DefaultModel,
    NoConfig,               \* LoadConfig returns an error
    Texts,                  \* the texts of a document: models, URLs, names, extensions
    ProjectNames            \* ... and those that can name a project

NoValue == {Absent, Null, Empty, Malformed}

(* What a document can hold for each member, and a configuration *)

Paths == Seq(Texts)

\* A glob is a directory and the extension of the pattern in it.
Globs == [dir : Paths, ext : Texts]

Numbers == Int \cup {Absent, Null}
Durations == Int \cup NoValue

RetryStanzas ==
    [enabled : BOOLEAN \cup {Absent, Null}, maxAttempts : Numbers, initialBackoff : Durations,
     maxBackoff : Durations, multiplier : Numbers]

GateStanzas == [enabled : BOOLEAN \cup {Absent, Null}, probeTimeout : Durations]

\* Projects by their names, each with its globs; a list that is null is the empty one.
Projects(names) == [names -> SUBSET Globs]

Documents(names) ==
    [model : Texts \cup {Absent, Null}, baseUrl : Texts \cup {Absent, Null},
     interval : Durations, timeout : Durations,
     dataDir : Paths \cup {Absent, Null}, reviewsDir : Paths \cup {Absent, Null},
     projects : Projects(names) \cup {Absent, Null},
     retry : RetryStanzas \cup {Absent, Null}, healthGate : GateStanzas \cup {Absent, Null}]

IsDocument(doc) == \E names \in SUBSET ProjectNames : doc \in Documents(names)

RetryPolicies ==
    [Enabled : BOOLEAN, MaxAttempts : Int, InitialBackoff : Int, MaxBackoff : Int, Multiplier : Int]

GatePolicies == [Enabled : BOOLEAN \cup {Null}, ProbeTimeout : Int]

Configurations(names) ==
    [Model : Texts, BaseURL : Texts, Interval : Int, Timeout : Int,
     DataDir : Paths, ReviewsDir : Paths, Projects : Projects(names), Retry : RetryPolicies,
     HealthGate : GatePolicies]

\* What a member may miss is told apart from all that it may hold.
ASSUME ConfigAssumption ==
    /\ {Empty, DefaultModel, Endpoint, "~", "data", "reviews"} \subseteq Texts
    /\ ProjectNames \subseteq Texts
    /\ Absent # Null /\ Empty \notin {Absent, Null} /\ Malformed \notin {Absent, Null, Empty}
    /\ NoValue \cap {Endpoint, OtherScheme, DefaultModel} = {}
    /\ \A value \in NoValue : value \notin Int
    /\ \A value \in {Absent, Null} :
          /\ value \notin Texts /\ value \notin BOOLEAN /\ value \notin Paths
          /\ value \notin RetryStanzas /\ value \notin GateStanzas
          /\ \A names \in SUBSET ProjectNames : value \notin Projects(names)
    /\ \A names \in SUBSET ProjectNames : NoConfig \notin Configurations(names)

Second == 1000
EndpointProbeTimeout == 5 * Second

-----------------------------------------------------------------------------
(* Decoding *)

DefaultRetryPolicy ==
    [Enabled |-> TRUE, MaxAttempts |-> 3, InitialBackoff |-> 2 * Second,
     MaxBackoff |-> 30 * Second, Multiplier |-> 20]

DefaultConfig ==
    [Model |-> DefaultModel, BaseURL |-> Endpoint,
     Interval |-> 600 * Second, Timeout |-> 300 * Second,
     DataDir |-> <<"~", "data">>, ReviewsDir |-> <<"~", "reviews">>,
     Projects |-> [p \in {} |-> {}],
     Retry |-> DefaultRetryPolicy,
     HealthGate |-> [Enabled |-> Null, ProbeTimeout |-> 0]]

\* A member that is not there keeps the value decoded over, null is the zero value.
Member(member, current, zero) ==
    CASE member = Absent -> current [] member = Null -> zero [] OTHER -> member

Number(member) == IF member \in {Absent, Null} THEN 0 ELSE member

\* parseDurationField: Malformed stands for its error, also of "".
Duration(member, current) ==
    IF member \in {Null, Empty, Malformed} THEN Malformed ELSE Member(member, current, Empty)

parseOptionalDuration(member) ==
    IF member \in {Absent, Null, Empty} THEN 0 ELSE member

decodeRetryPolicy(raw) ==
    [Enabled |-> raw.enabled # FALSE,
     MaxAttempts |-> Number(raw.maxAttempts),
     InitialBackoff |-> parseOptionalDuration(raw.initialBackoff),
     MaxBackoff |-> parseOptionalDuration(raw.maxBackoff),
     Multiplier |-> Number(raw.multiplier)]

decodeHealthGatePolicy(raw) ==
    [Enabled |-> Member(raw.enabled, Null, Null),
     ProbeTimeout |-> parseOptionalDuration(raw.probeTimeout)]

\* A stanza that is there replaces the policy, all of it.
Stanza(member, current, decoded) == IF member \in {Absent, Null} THEN current ELSE decoded

\* Decoded over the configuration c; a duration that does not parse is an error.
UnmarshalJSON(c, doc) ==
    LET interval == Duration(doc.interval, c.Interval)
        timeout == Duration(doc.timeout, c.Timeout)
        retry == Stanza(doc.retry, c.Retry, decodeRetryPolicy(doc.retry))
        gate == Stanza(doc.healthGate, c.HealthGate, decodeHealthGatePolicy(doc.healthGate))
    IN  IF Malformed \in {interval, timeout, retry.InitialBackoff, retry.MaxBackoff,
                          gate.ProbeTimeout}
        THEN NoConfig
        ELSE [Model |-> Member(doc.model, c.Model, Empty),
              BaseURL |-> Member(doc.baseUrl, c.BaseURL, Empty),
              Interval |-> interval, Timeout |-> timeout,
              DataDir |-> Member(doc.dataDir, c.DataDir, <<>>),
              ReviewsDir |-> Member(doc.reviewsDir, c.ReviewsDir, <<>>),
              Projects |-> Stanza(doc.projects, c.Projects, doc.projects),
              Retry |-> retry, HealthGate |-> gate]

-----------------------------------------------------------------------------
(* Paths and validation *)

IsHomePath(path) == path # <<>> /\ path[1] = "~"
IsAbs(path) == path # <<>> /\ path[1] = "/"

\* home is Absent when os.UserHomeDir fails.
expandTilde(path, home) == IF IsHomePath(path) THEN home \o Tail(path) ELSE path

\* A project is a set of globs, each a directory and the pattern in it.
expandGlobs(globs, home) == {[glob EXCEPT !.dir = expandTilde(@, home)] : glob \in globs}

expandProjectGlobs(projects, home) ==
    [p \in DOMAIN projects |-> expandGlobs(projects[p], home)]

GlobsOf(projects) == UNION {projects[p] : p \in DOMAIN projects}

PathsOf(c) == {c.DataDir, c.ReviewsDir} \cup {glob.dir : glob \in GlobsOf(c.Projects)}

Normalize(c, home) ==
    IF home = Absent /\ \E path \in PathsOf(c) : IsHomePath(path)
    THEN NoConfig
    ELSE [c EXCEPT !.DataDir = expandTilde(@, home), !.ReviewsDir = expandTilde(@, home),
                   !.Projects = expandProjectGlobs(@, home)]

validateEndpoints(c) == c.Model # Empty /\ c.BaseURL \notin {Empty, Malformed, OtherScheme}

validateRetry(retry) ==
    /\ retry.MaxAttempts >= 0
    /\ retry.InitialBackoff >= 0
    /\ retry.MaxBackoff >= 0
    /\ retry.Multiplier >= 0

validateTimings(c) == c.Interval > 0 /\ c.Timeout > 0 /\ validateRetry(c.Retry)

validateDirs(c) == c.DataDir # <<>> /\ c.ReviewsDir # <<>>

validateGlobs(globs) == \A glob \in globs : IsAbs(glob.dir)

validateProjects(projects) ==
    /\ DOMAIN projects # {}
    /\ \A p \in DOMAIN projects :
          p # Empty /\ projects[p] # {} /\ validateGlobs(projects[p])

Validate(c) ==
    validateEndpoints(c) /\ validateTimings(c) /\ validateDirs(c) /\ validateProjects(c.Projects)

LoadConfig(doc, home) ==
    LET config == UnmarshalJSON(DefaultConfig, doc)
        normalized == Normalize(config, home)
    IN  IF config = NoConfig THEN NoConfig
        ELSE IF normalized = NoConfig THEN NoConfig
        ELSE IF Validate(normalized) THEN normalized ELSE NoConfig

-----------------------------------------------------------------------------
(* Encoding *)

\* A duration that is not positive is left out of its stanza.
optionalDuration(duration) == IF duration > 0 THEN duration ELSE Absent

\* (mutant) the policy of a retry that is off is not worth writing
encodeEnabledRetryPolicy(policy) ==
    IF ~policy.Enabled THEN Absent
    ELSE [enabled |-> TRUE, maxAttempts |-> policy.MaxAttempts,
          initialBackoff |-> optionalDuration(policy.InitialBackoff),
          maxBackoff |-> optionalDuration(policy.MaxBackoff),
          multiplier |-> policy.Multiplier]

encodeRetryPolicy(policy) ==
    [enabled |-> policy.Enabled, maxAttempts |-> policy.MaxAttempts,
     initialBackoff |-> optionalDuration(policy.InitialBackoff),
     maxBackoff |-> optionalDuration(policy.MaxBackoff),
     multiplier |-> policy.Multiplier]

encodeHealthGatePolicy(policy) ==
    [enabled |-> IF policy.Enabled = Null THEN Absent ELSE policy.Enabled,
     probeTimeout |-> optionalDuration(policy.ProbeTimeout)]

MarshalJSON(c) ==
    [model |-> c.Model, baseUrl |-> c.BaseURL,
     interval |-> c.Interval, timeout |-> c.Timeout,
     dataDir |-> c.DataDir, reviewsDir |-> c.ReviewsDir, projects |-> c.Projects,
     retry |-> encodeRetryPolicy(c.Retry), healthGate |-> encodeHealthGatePolicy(c.HealthGate)]

-----------------------------------------------------------------------------
(* What runs with it *)

OrDefault(value, default) == IF value <= 0 THEN default ELSE value

\* visionPolicy and the fallbacks of vision.RetryConfig; without one a call is
\* made once.
visionPolicy(retry) ==
    IF ~retry.Enabled
    THEN [attempts |-> 1, initial |-> 0, cap |-> 0, multiplier |-> 0]
    ELSE [attempts |-> OrDefault(retry.MaxAttempts, 3),
          initial |-> OrDefault(retry.InitialBackoff, Second \div 2),
          cap |-> OrDefault(retry.MaxBackoff, 30 * Second),
          multiplier |-> OrDefault(retry.Multiplier, 20)]

\* healthGatedRunner: no gate, or the timeout of its probe.
gateOf(gate) ==
    IF gate.Enabled = FALSE THEN Absent ELSE OrDefault(gate.ProbeTimeout, EndpointProbeTimeout)

\* All that a daemon, a single pass or a doctor takes from its configuration.
RunsAs(c) ==
    [model |-> c.Model, baseUrl |-> c.BaseURL, interval |-> c.Interval, timeout |-> c.Timeout,
     dataDir |-> c.DataDir, reviewsDir |-> c.ReviewsDir, projects |-> c.Projects,
     retry |-> visionPolicy(c.Retry), gate |-> gateOf(c.HealthGate)]
=============================================================================
