---------------------------- MODULE Setup_proofs ----------------------------
(***************************************************************************)
(* Setting up, for any tree, any documents and any number of edits: what   *)
(* was loaded runs alike once it is written back, and a pasted suggestion  *)
(* captures every screenshot for one project.                              *)
(***************************************************************************)
EXTENDS Setup, TLAPS, SequenceTheorems, WellFoundedInduction

-----------------------------------------------------------------------------
(* Paths *)

IsHome(h) == h = Absent \/ (h \in Paths /\ IsAbs(h))

\* Home directories are absolute, where there is one.
LEMMA HomesAreHomes == \A h \in Homes : IsHome(h)
BY SetupAssumption DEF SetupAssumption, IsHome

\* A path that does not begin with "~" is left as it is.
LEMMA OtherPathsStay ==
    ASSUME NEW path, NEW h, ~IsHomePath(path)
    PROVE  expandTilde(path, h) = path
BY DEF expandTilde

\* A path behind another begins as that one.
LEMMA ConcatBegins ==
    ASSUME NEW p \in Paths, NEW q \in Paths, p # <<>>
    PROVE  p \o q \in Paths /\ p \o q # <<>> /\ (p \o q)[1] = p[1]
<1>1. p \o q \in Paths /\ Len(p \o q) = Len(p) + Len(q)
  BY ConcatProperties DEF Paths
<1>2. Len(p) \in Nat \ {0} /\ Len(q) \in Nat
  BY EmptySeq, LenProperties DEF Paths
<1>3. p \o q # <<>>
  BY <1>1, <1>2
<1>4. (p \o q)[1] = p[1]
  BY <1>2 DEF Paths
<1> QED BY <1>1, <1>3, <1>4

\* What begins with "~" begins with the home directory once it is expanded.
LEMMA ExpandedPath ==
    ASSUME NEW path \in Paths, NEW h \in Paths, IsAbs(h)
    PROVE  expandTilde(path, h) \in Paths /\ ~IsHomePath(expandTilde(path, h))
<1>1. CASE ~IsHomePath(path)
  BY <1>1, OtherPathsStay
<1>2. CASE IsHomePath(path)
  <2>1. path # <<>> /\ Tail(path) \in Paths
    BY <1>2, HeadTailProperties DEF IsHomePath, Paths
  <2>2. h # <<>> /\ h[1] = "/"
    BY DEF IsAbs
  <2>3. h \o Tail(path) \in Paths /\ (h \o Tail(path))[1] = "/"
    BY <2>1, <2>2, ConcatBegins
  <2> QED BY <1>2, <2>3 DEF expandTilde, IsHomePath
<1> QED BY <1>1, <1>2

-----------------------------------------------------------------------------
(* Decoding *)

\* The parts of a configuration are of their types.
LEMMA ConfigurationParts ==
    ASSUME NEW names, NEW c \in Configurations(names)
    PROVE  /\ c.Model \in Texts /\ c.BaseURL \in Texts /\ c.Interval \in Int /\ c.Timeout \in Int
           /\ c.DataDir \in Paths /\ c.ReviewsDir \in Paths /\ c.Projects \in Projects(names)
           /\ c.Retry \in RetryPolicies
           /\ c.HealthGate \in GatePolicies
BY DEF Configurations

\* A duration decodes to a number, or does not parse.
LEMMA DecodedDuration ==
    ASSUME NEW d \in Durations, NEW current \in Int
    PROVE  Duration(d, current) \in Int \cup {Malformed}
BY ConfigAssumption DEF ConfigAssumption, Duration, Member, Durations, NoValue

\* So does one that may be left out.
LEMMA DecodedOptionalDuration ==
    ASSUME NEW d \in Durations
    PROVE  parseOptionalDuration(d) \in Int \cup {Malformed}
BY ConfigAssumption DEF ConfigAssumption, parseOptionalDuration, Durations, NoValue

\* A retry stanza decodes to a policy, unless a duration does not parse.
LEMMA DecodedRetry ==
    ASSUME NEW raw \in RetryStanzas
    PROVE  LET retry == decodeRetryPolicy(raw)
           IN  /\ retry \in [Enabled : BOOLEAN, MaxAttempts : Int, InitialBackoff : Int \cup {Malformed},
                             MaxBackoff : Int \cup {Malformed}, Multiplier : Int]
               /\ Malformed \notin {retry.InitialBackoff, retry.MaxBackoff} => retry \in RetryPolicies
<1>1. Number(raw.maxAttempts) \in Int /\ Number(raw.multiplier) \in Int
  BY DEF RetryStanzas, Numbers, Number
<1>2. /\ parseOptionalDuration(raw.initialBackoff) \in Int \cup {Malformed}
      /\ parseOptionalDuration(raw.maxBackoff) \in Int \cup {Malformed}
  BY DecodedOptionalDuration DEF RetryStanzas
<1> QED BY <1>1, <1>2 DEF decodeRetryPolicy, RetryPolicies

\* So does the stanza of the health gate.
LEMMA DecodedGate ==
    ASSUME NEW raw \in GateStanzas
    PROVE  LET gate == decodeHealthGatePolicy(raw)
           IN  gate.ProbeTimeout # Malformed => gate \in GatePolicies
<1>1. Member(raw.enabled, Null, Null) \in BOOLEAN \cup {Null}
  BY DEF GateStanzas, Member
<1>2. parseOptionalDuration(raw.probeTimeout) \in Int \cup {Malformed}
  BY DecodedOptionalDuration DEF GateStanzas
<1> QED BY <1>1, <1>2 DEF decodeHealthGatePolicy, GatePolicies

\* The defaults are a configuration without projects.
LEMMA DefaultsTyped == DefaultConfig \in Configurations({})
<1>1. DefaultRetryPolicy \in RetryPolicies
  BY DEF DefaultRetryPolicy, RetryPolicies, Second
<1>2. <<"~", "data">> \in Paths /\ <<"~", "reviews">> \in Paths
  BY ConfigAssumption DEF ConfigAssumption, Paths
<1>3. [p \in {} |-> {}] \in Projects({})
  BY DEF Projects
<1>4. DefaultModel \in Texts /\ Endpoint \in Texts
  BY ConfigAssumption DEF ConfigAssumption
<1>5. [Enabled |-> Null, ProbeTimeout |-> 0] \in GatePolicies
  BY DEF GatePolicies
<1>6. 600 * Second \in Int /\ 300 * Second \in Int
  BY DEF Second
<1> QED BY <1>1, <1>2, <1>3, <1>4, <1>5, <1>6 DEF DefaultConfig, Configurations

\* A document that decodes over the defaults is a configuration, whatever it leaves out.
LEMMA Unmarshalled ==
    ASSUME NEW names \in SUBSET ProjectNames, NEW doc \in Documents(names),
           UnmarshalJSON(DefaultConfig, doc) # NoConfig
    PROVE  LET c == UnmarshalJSON(DefaultConfig, doc)
           IN  /\ \E n \in SUBSET ProjectNames : c \in Configurations(n)
               /\ c.Projects = IF doc.projects \in {Absent, Null} THEN [p \in {} |-> {}] ELSE doc.projects
<1> DEFINE interval == Duration(doc.interval, DefaultConfig.Interval)
           timeout == Duration(doc.timeout, DefaultConfig.Timeout)
           retry == Stanza(doc.retry, DefaultConfig.Retry, decodeRetryPolicy(doc.retry))
           gate == Stanza(doc.healthGate, DefaultConfig.HealthGate, decodeHealthGatePolicy(doc.healthGate))
           model == Member(doc.model, DefaultConfig.Model, Empty)
           url == Member(doc.baseUrl, DefaultConfig.BaseURL, Empty)
           data == Member(doc.dataDir, DefaultConfig.DataDir, <<>>)
           reviews == Member(doc.reviewsDir, DefaultConfig.ReviewsDir, <<>>)
           projects == Stanza(doc.projects, DefaultConfig.Projects, doc.projects)
<1>1. /\ doc.model \in Texts \cup {Absent, Null} /\ doc.baseUrl \in Texts \cup {Absent, Null}
      /\ doc.interval \in Durations /\ doc.timeout \in Durations
      /\ doc.dataDir \in Paths \cup {Absent, Null} /\ doc.reviewsDir \in Paths \cup {Absent, Null}
      /\ doc.projects \in Projects(names) \cup {Absent, Null}
      /\ doc.retry \in RetryStanzas \cup {Absent, Null}
      /\ doc.healthGate \in GateStanzas \cup {Absent, Null}
  BY DEF Documents
<1>2. /\ DefaultConfig.Model \in Texts /\ DefaultConfig.BaseURL \in Texts
      /\ DefaultConfig.Interval \in Int /\ DefaultConfig.Timeout \in Int
      /\ DefaultConfig.DataDir \in Paths /\ DefaultConfig.ReviewsDir \in Paths
      /\ DefaultConfig.Retry \in RetryPolicies /\ DefaultConfig.HealthGate \in GatePolicies
  BY DefaultsTyped, ConfigurationParts
<1>3. DefaultConfig.Projects = [p \in {} |-> {}]
  BY DEF DefaultConfig
<1>4. interval \in Int \cup {Malformed} /\ timeout \in Int \cup {Malformed}
  BY <1>1, <1>2, DecodedDuration
<1>5. Malformed \notin {interval, timeout, retry.InitialBackoff, retry.MaxBackoff, gate.ProbeTimeout}
  BY DEF UnmarshalJSON
<1>6. UnmarshalJSON(DefaultConfig, doc) =
          [Model |-> model, BaseURL |-> url, Interval |-> interval, Timeout |-> timeout,
           DataDir |-> data, ReviewsDir |-> reviews, Projects |-> projects,
           Retry |-> retry, HealthGate |-> gate]
  BY <1>5 DEF UnmarshalJSON
<1>7. retry \in RetryPolicies
  BY <1>1, <1>2, <1>5, DecodedRetry DEF Stanza
<1>8. gate \in GatePolicies
  BY <1>1, <1>2, <1>5, DecodedGate DEF Stanza
<1>9. model \in Texts /\ url \in Texts
  BY <1>1, <1>2, ConfigAssumption DEF Member, ConfigAssumption
<1>10. data \in Paths /\ reviews \in Paths
  <2>1. <<>> \in Paths
    BY DEF Paths
  <2> QED BY <1>1, <1>2, <2>1 DEF Member
<1>11. projects = IF doc.projects \in {Absent, Null} THEN [p \in {} |-> {}] ELSE doc.projects
  BY <1>3 DEF Stanza
<1>12. \E n \in SUBSET ProjectNames : projects \in Projects(n)
  <2>1. [p \in {} |-> {}] \in Projects({})
    BY DEF Projects
  <2>2. CASE doc.projects \in {Absent, Null}
    BY <1>11, <2>1, <2>2
  <2>3. CASE doc.projects \notin {Absent, Null}
    BY <1>1, <1>11, <2>3
  <2> QED BY <2>2, <2>3
<1>13. interval \in Int /\ timeout \in Int
  BY <1>4, <1>5
<1> HIDE DEF interval, timeout, retry, gate, model, url, data, reviews, projects
<1>14. PICK n \in SUBSET ProjectNames : projects \in Projects(n)
  BY <1>12
<1>15. UnmarshalJSON(DefaultConfig, doc) \in Configurations(n)
  BY <1>6, <1>7, <1>8, <1>9, <1>10, <1>13, <1>14 DEF Configurations
<1>16. UnmarshalJSON(DefaultConfig, doc).Projects = projects
  BY <1>6
<1> QED BY <1>11, <1>15, <1>16

-----------------------------------------------------------------------------
(* Loading *)

\* Expanded globs do not begin with "~".
LEMMA ExpandedGlobs ==
    ASSUME NEW globs \in SUBSET Globs, NEW h \in Paths, IsAbs(h)
    PROVE  /\ expandGlobs(globs, h) \in SUBSET Globs
           /\ \A glob \in expandGlobs(globs, h) : ~IsHomePath(glob.dir)
<1>1. ASSUME NEW glob \in globs
      PROVE  [glob EXCEPT !.dir = expandTilde(@, h)] \in Globs
             /\ ~IsHomePath([glob EXCEPT !.dir = expandTilde(@, h)].dir)
  <2>1. glob.dir \in Paths /\ glob.ext \in Texts /\ glob = [dir |-> glob.dir, ext |-> glob.ext]
    BY DEF Globs
  <2>2. expandTilde(glob.dir, h) \in Paths /\ ~IsHomePath(expandTilde(glob.dir, h))
    BY <2>1, ExpandedPath
  <2>3. [glob EXCEPT !.dir = expandTilde(@, h)] = [dir |-> expandTilde(glob.dir, h), ext |-> glob.ext]
    BY <2>1
  <2> QED BY <2>1, <2>2, <2>3 DEF Globs
<1> QED BY <1>1 DEF expandGlobs

\* Globs that do not begin with "~" stay as they are.
LEMMA OtherGlobsStay ==
    ASSUME NEW globs \in SUBSET Globs, NEW h, \A glob \in globs : ~IsHomePath(glob.dir)
    PROVE  expandGlobs(globs, h) = globs
<1>1. ASSUME NEW glob \in globs
      PROVE  [glob EXCEPT !.dir = expandTilde(@, h)] = glob
  <2>1. glob = [dir |-> glob.dir, ext |-> glob.ext]
    BY DEF Globs
  <2>2. expandTilde(glob.dir, h) = glob.dir
    BY OtherPathsStay
  <2> QED BY <2>1, <2>2
<1> QED BY <1>1 DEF expandGlobs

\* Projects whose globs do not begin with "~" stay as they are.
LEMMA OtherProjectsStay ==
    ASSUME NEW names, NEW projects \in Projects(names), NEW h,
           \A glob \in GlobsOf(projects) : ~IsHomePath(glob.dir)
    PROVE  expandProjectGlobs(projects, h) = projects
<1>1. projects = [p \in names |-> projects[p]] /\ DOMAIN projects = names
      /\ \A p \in names : projects[p] \in SUBSET Globs
  BY DEF Projects
<1>2. ASSUME NEW p \in names
      PROVE  expandGlobs(projects[p], h) = projects[p]
  <2>1. \A glob \in projects[p] : ~IsHomePath(glob.dir)
    BY <1>1 DEF GlobsOf
  <2> QED BY <1>1, <2>1, OtherGlobsStay
<1>3. expandProjectGlobs(projects, h) = [p \in names |-> expandGlobs(projects[p], h)]
  BY <1>1 DEF expandProjectGlobs
<1> QED BY <1>1, <1>2, <1>3

\* A configuration without a "~" is normalized already, with a home directory or without.
LEMMA OtherConfigurationsStay ==
    ASSUME NEW names, NEW c \in Configurations(names), NEW h,
           \A path \in PathsOf(c) : ~IsHomePath(path)
    PROVE  Normalize(c, h) = c
<1>1. expandTilde(c.DataDir, h) = c.DataDir /\ expandTilde(c.ReviewsDir, h) = c.ReviewsDir
  BY OtherPathsStay DEF PathsOf
<1>2. expandProjectGlobs(c.Projects, h) = c.Projects
  BY ConfigurationParts, OtherProjectsStay DEF PathsOf
<1> QED BY <1>1, <1>2 DEF Normalize, Configurations

\* A normalized configuration has no "~" in its paths.
LEMMA Normalized ==
    ASSUME NEW names, NEW c \in Configurations(names), NEW h, IsHome(h), Normalize(c, h) # NoConfig
    PROVE  /\ Normalize(c, h) \in Configurations(names)
           /\ \A path \in PathsOf(Normalize(c, h)) : ~IsHomePath(path)
           /\ Normalize(c, h).Projects = expandProjectGlobs(c.Projects, h)
<1>1. CASE \A path \in PathsOf(c) : ~IsHomePath(path)
  <2>1. expandProjectGlobs(c.Projects, h) = c.Projects
    BY <1>1, ConfigurationParts, OtherProjectsStay DEF PathsOf
  <2> QED BY <1>1, <2>1, OtherConfigurationsStay
<1>2. CASE \E path \in PathsOf(c) : IsHomePath(path)
  <2>1. h \in Paths /\ IsAbs(h)
    BY <1>2 DEF Normalize, IsHome
  <2>2. PICK data : data = expandTilde(c.DataDir, h)
    OBVIOUS
  <2>3. PICK reviews : reviews = expandTilde(c.ReviewsDir, h)
    OBVIOUS
  <2>4. PICK projects : projects = expandProjectGlobs(c.Projects, h)
    OBVIOUS
  <2>5. /\ data \in Paths /\ ~IsHomePath(data)
        /\ reviews \in Paths /\ ~IsHomePath(reviews)
    BY <2>1, <2>2, <2>3, ConfigurationParts, ExpandedPath
  <2>6. projects = [p \in names |-> expandGlobs(c.Projects[p], h)]
        /\ \A p \in names : c.Projects[p] \in SUBSET Globs
    BY <2>4, ConfigurationParts DEF expandProjectGlobs, Projects
  <2>7. \A p \in names : projects[p] \in SUBSET Globs /\ \A glob \in projects[p] : ~IsHomePath(glob.dir)
    BY <2>1, <2>6, ExpandedGlobs
  <2>8. projects \in Projects(names) /\ \A glob \in GlobsOf(projects) : ~IsHomePath(glob.dir)
    BY <2>6, <2>7 DEF Projects, GlobsOf
  <2>9. Normalize(c, h) =
            [Model |-> c.Model, BaseURL |-> c.BaseURL, Interval |-> c.Interval, Timeout |-> c.Timeout,
             DataDir |-> data, ReviewsDir |-> reviews, Projects |-> projects,
             Retry |-> c.Retry, HealthGate |-> c.HealthGate]
    BY <2>2, <2>3, <2>4 DEF Normalize, Configurations
  <2>10. Normalize(c, h) \in Configurations(names)
    BY <2>5, <2>8, <2>9, ConfigurationParts DEF Configurations
  <2> QED BY <2>4, <2>5, <2>8, <2>9, <2>10 DEF PathsOf
<1> QED BY <1>1, <1>2

\* What the program works with: valid, and without a "~" in its paths.
IsLoaded(c) ==
    /\ \E names \in SUBSET ProjectNames : c \in Configurations(names)
    /\ Validate(c)
    /\ \A path \in PathsOf(c) : ~IsHomePath(path)

\* What LoadConfig returns is such a configuration, with the document's projects expanded.
LEMMA LoadedIsLoaded ==
    ASSUME NEW doc, IsDocument(doc), NEW h, IsHome(h), LoadConfig(doc, h) # NoConfig
    PROVE  /\ IsLoaded(LoadConfig(doc, h))
           /\ LoadConfig(doc, h).Projects = expandProjectGlobs(doc.projects, h)
<1>1. PICK config : config = UnmarshalJSON(DefaultConfig, doc)
  OBVIOUS
<1>2. config # NoConfig /\ Normalize(config, h) # NoConfig /\ Validate(Normalize(config, h))
      /\ LoadConfig(doc, h) = Normalize(config, h)
  BY <1>1 DEF LoadConfig
<1>3. PICK names \in SUBSET ProjectNames : doc \in Documents(names)
  BY DEF IsDocument
<1>4. /\ \E n \in SUBSET ProjectNames : config \in Configurations(n)
      /\ config.Projects = IF doc.projects \in {Absent, Null} THEN [p \in {} |-> {}] ELSE doc.projects
  BY <1>1, <1>2, <1>3, Unmarshalled
<1>5. PICK n \in SUBSET ProjectNames : config \in Configurations(n)
  BY <1>4
<1>6. /\ Normalize(config, h) \in Configurations(n)
      /\ \A path \in PathsOf(Normalize(config, h)) : ~IsHomePath(path)
      /\ Normalize(config, h).Projects = expandProjectGlobs(config.Projects, h)
  BY <1>2, <1>5, Normalized
<1>7. DOMAIN Normalize(config, h).Projects # {}
  BY <1>2 DEF Validate, validateProjects
<1>8. config.Projects = doc.projects
  BY <1>4, <1>6, <1>7 DEF expandProjectGlobs
<1> QED BY <1>2, <1>5, <1>6, <1>8 DEF IsLoaded

-----------------------------------------------------------------------------
(* Writing back *)

\* What is left of a probe timeout that is not positive.
WrittenBack(gate) ==
    [Enabled |-> gate.Enabled, ProbeTimeout |-> IF gate.ProbeTimeout > 0 THEN gate.ProbeTimeout ELSE 0]

\* A valid retry policy is the same when it is written and decoded again.
LEMMA RetryWrittenBack ==
    ASSUME NEW retry \in RetryPolicies, validateRetry(retry)
    PROVE  /\ encodeRetryPolicy(retry) \in RetryStanzas
           /\ decodeRetryPolicy(encodeRetryPolicy(retry)) = retry
<1>1. /\ retry.Enabled \in BOOLEAN /\ retry.MaxAttempts \in Int /\ retry.InitialBackoff \in Int
      /\ retry.MaxBackoff \in Int /\ retry.Multiplier \in Int
      /\ retry = [Enabled |-> retry.Enabled, MaxAttempts |-> retry.MaxAttempts,
                  InitialBackoff |-> retry.InitialBackoff, MaxBackoff |-> retry.MaxBackoff,
                  Multiplier |-> retry.Multiplier]
  BY DEF RetryPolicies
<1>2. \A d \in Int : /\ optionalDuration(d) \in Durations
                     /\ d >= 0 => parseOptionalDuration(optionalDuration(d)) = d
  BY ConfigAssumption DEF ConfigAssumption, optionalDuration, parseOptionalDuration, Durations, NoValue
<1>3. \A n \in Int : Number(n) = n
  BY ConfigAssumption DEF ConfigAssumption, Number, NoValue
<1>4. encodeRetryPolicy(retry) \in RetryStanzas
  BY <1>1, <1>2 DEF encodeRetryPolicy, RetryStanzas, Numbers
<1>5. (retry.Enabled # FALSE) = retry.Enabled
  BY <1>1
<1>6. decodeRetryPolicy(encodeRetryPolicy(retry)) =
          [Enabled |-> retry.Enabled, MaxAttempts |-> retry.MaxAttempts,
           InitialBackoff |-> retry.InitialBackoff, MaxBackoff |-> retry.MaxBackoff,
           Multiplier |-> retry.Multiplier]
  BY <1>1, <1>2, <1>3, <1>5 DEF decodeRetryPolicy, encodeRetryPolicy, validateRetry
<1> QED BY <1>1, <1>4, <1>6

\* A gate that was written and decoded again is the same gate before the passes.
LEMMA GateWrittenBack ==
    ASSUME NEW gate \in GatePolicies
    PROVE  /\ encodeHealthGatePolicy(gate) \in GateStanzas
           /\ decodeHealthGatePolicy(encodeHealthGatePolicy(gate)) = WrittenBack(gate)
           /\ WrittenBack(gate) \in GatePolicies
           /\ gateOf(WrittenBack(gate)) = gateOf(gate)
<1>1. gate.Enabled \in BOOLEAN \cup {Null} /\ gate.ProbeTimeout \in Int
  BY DEF GatePolicies
<1>2. /\ optionalDuration(gate.ProbeTimeout) \in Durations
      /\ parseOptionalDuration(optionalDuration(gate.ProbeTimeout)) = WrittenBack(gate).ProbeTimeout
  BY <1>1, ConfigAssumption
  DEF ConfigAssumption, optionalDuration, parseOptionalDuration, Durations, NoValue, WrittenBack
<1>3. PICK enabled : enabled = IF gate.Enabled = Null THEN Absent ELSE gate.Enabled
  OBVIOUS
<1>4. enabled \in BOOLEAN \cup {Absent, Null} /\ Member(enabled, Null, Null) = gate.Enabled
  BY <1>1, <1>3, ConfigAssumption DEF ConfigAssumption, Member
<1>5. encodeHealthGatePolicy(gate) =
          [enabled |-> enabled, probeTimeout |-> optionalDuration(gate.ProbeTimeout)]
  BY <1>3 DEF encodeHealthGatePolicy
<1>6. decodeHealthGatePolicy(encodeHealthGatePolicy(gate)) = WrittenBack(gate)
  BY <1>2, <1>4, <1>5 DEF decodeHealthGatePolicy, WrittenBack
<1>7. encodeHealthGatePolicy(gate) \in GateStanzas
  BY <1>2, <1>4, <1>5 DEF GateStanzas
<1>8. WrittenBack(gate) \in GatePolicies
  BY <1>1 DEF WrittenBack, GatePolicies
<1>9. gateOf(WrittenBack(gate)) = gateOf(gate)
  BY <1>1 DEF gateOf, WrittenBack, OrDefault
<1> QED BY <1>6, <1>7, <1>8, <1>9

\* What is written back is a document again.
LEMMA SavedIsDocument ==
    ASSUME NEW c, IsLoaded(c)
    PROVE  IsDocument(MarshalJSON(c))
<1>1. PICK names \in SUBSET ProjectNames : c \in Configurations(names)
  BY DEF IsLoaded
<1>2. validateRetry(c.Retry)
  BY DEF IsLoaded, Validate, validateTimings
<1>3. encodeRetryPolicy(c.Retry) \in RetryStanzas
      /\ encodeHealthGatePolicy(c.HealthGate) \in GateStanzas
  BY <1>1, <1>2, ConfigurationParts, RetryWrittenBack, GateWrittenBack
<1>4. MarshalJSON(c) \in Documents(names)
  BY <1>1, <1>3, ConfigurationParts DEF MarshalJSON, Documents, Durations
<1> QED BY <1>4 DEF IsDocument

\* Read again, a configuration that was written back is the same, but for a probe timeout
\* that stood for none.
LEMMA LoadedAgain ==
    ASSUME NEW c, IsLoaded(c), NEW h
    PROVE  LoadConfig(MarshalJSON(c), h) = [c EXCEPT !.HealthGate = WrittenBack(@)]
           /\ LoadConfig(MarshalJSON(c), h) # NoConfig
<1>1. PICK names \in SUBSET ProjectNames : c \in Configurations(names)
  BY DEF IsLoaded
<1>2. PICK doc : doc = MarshalJSON(c)
  OBVIOUS
<1>3. PICK again : again = [c EXCEPT !.HealthGate = WrittenBack(@)]
  OBVIOUS
<1>4. /\ c.Model \in Texts /\ c.BaseURL \in Texts /\ c.Interval \in Int /\ c.Timeout \in Int
      /\ c.DataDir \in Paths /\ c.ReviewsDir \in Paths /\ c.Projects \in Projects(names)
      /\ c.Retry \in RetryPolicies /\ c.HealthGate \in GatePolicies
  BY <1>1, ConfigurationParts
<1>5. /\ encodeRetryPolicy(c.Retry) \in RetryStanzas
      /\ decodeRetryPolicy(encodeRetryPolicy(c.Retry)) = c.Retry
      /\ encodeHealthGatePolicy(c.HealthGate) \in GateStanzas
      /\ decodeHealthGatePolicy(encodeHealthGatePolicy(c.HealthGate)) = WrittenBack(c.HealthGate)
      /\ WrittenBack(c.HealthGate) \in GatePolicies
  BY <1>4, RetryWrittenBack, GateWrittenBack DEF IsLoaded, Validate, validateTimings
<1>6. /\ doc.model = c.Model /\ doc.baseUrl = c.BaseURL /\ doc.interval = c.Interval
      /\ doc.timeout = c.Timeout /\ doc.dataDir = c.DataDir /\ doc.reviewsDir = c.ReviewsDir
      /\ doc.projects = c.Projects /\ doc.retry = encodeRetryPolicy(c.Retry)
      /\ doc.healthGate = encodeHealthGatePolicy(c.HealthGate)
  BY <1>2 DEF MarshalJSON
<1>7. \A value \in {Absent, Null} :
          /\ value \notin Int /\ value \notin Texts /\ value \notin Paths
          /\ value \notin Projects(names) /\ value \notin RetryStanzas /\ value \notin GateStanzas
  BY <1>1, ConfigAssumption DEF ConfigAssumption, NoValue
<1>8. \A current, zero : /\ Member(doc.model, current, zero) = c.Model
                         /\ Member(doc.baseUrl, current, zero) = c.BaseURL
                         /\ Member(doc.dataDir, current, zero) = c.DataDir
                         /\ Member(doc.reviewsDir, current, zero) = c.ReviewsDir
  BY <1>4, <1>6, <1>7 DEF Member
<1>9. \A current : Duration(doc.interval, current) = c.Interval /\ Duration(doc.timeout, current) = c.Timeout
  BY <1>4, <1>6, ConfigAssumption DEF ConfigAssumption, NoValue, Duration, Member
<1>10. \A current : /\ Stanza(doc.projects, current, doc.projects) = c.Projects
                    /\ Stanza(doc.retry, current, decodeRetryPolicy(doc.retry)) = c.Retry
                    /\ Stanza(doc.healthGate, current, decodeHealthGatePolicy(doc.healthGate))
                           = WrittenBack(c.HealthGate)
  BY <1>4, <1>5, <1>6, <1>7 DEF Stanza
<1>11. Malformed \notin {c.Interval, c.Timeout, c.Retry.InitialBackoff, c.Retry.MaxBackoff,
                         WrittenBack(c.HealthGate).ProbeTimeout}
  BY <1>4, <1>5, ConfigAssumption DEF ConfigAssumption, NoValue, RetryPolicies, GatePolicies
<1>12. again = [Model |-> c.Model, BaseURL |-> c.BaseURL, Interval |-> c.Interval, Timeout |-> c.Timeout,
                DataDir |-> c.DataDir, ReviewsDir |-> c.ReviewsDir, Projects |-> c.Projects,
                Retry |-> c.Retry, HealthGate |-> WrittenBack(c.HealthGate)]
  BY <1>1, <1>3 DEF Configurations
<1>13. UnmarshalJSON(DefaultConfig, doc) = again
  BY <1>8, <1>9, <1>10, <1>11, <1>12 DEF UnmarshalJSON
<1>14. again \in Configurations(names) /\ again # NoConfig
  <2>1. again \in Configurations(names)
    BY <1>4, <1>5, <1>12 DEF Configurations
  <2> QED BY <1>1, <2>1, ConfigAssumption DEF ConfigAssumption
<1>15. Normalize(again, h) = again
  <2>1. PathsOf(again) = PathsOf(c)
    BY <1>12 DEF PathsOf
  <2> QED BY <1>14, <2>1, OtherConfigurationsStay DEF IsLoaded
<1>16. Validate(again)
  BY <1>12 DEF IsLoaded, Validate, validateEndpoints, validateTimings, validateDirs
<1>17. LoadConfig(doc, h) = again
  BY <1>13, <1>14, <1>15, <1>16 DEF LoadConfig
<1> QED BY <1>2, <1>3, <1>14, <1>17

\* What was written back loads and runs alike.
LEMMA LoadedRunsAlike ==
    ASSUME NEW c, IsLoaded(c), NEW h
    PROVE  LET again == LoadConfig(MarshalJSON(c), h)
           IN  again # NoConfig /\ RunsAs(again) = RunsAs(c)
<1>1. PICK names \in SUBSET ProjectNames : c \in Configurations(names)
  BY DEF IsLoaded
<1>2. PICK again : again = LoadConfig(MarshalJSON(c), h)
  OBVIOUS
<1>3. again = [c EXCEPT !.HealthGate = WrittenBack(@)] /\ again # NoConfig
  BY <1>2, LoadedAgain
<1>4. again = [Model |-> c.Model, BaseURL |-> c.BaseURL, Interval |-> c.Interval, Timeout |-> c.Timeout,
               DataDir |-> c.DataDir, ReviewsDir |-> c.ReviewsDir, Projects |-> c.Projects,
               Retry |-> c.Retry, HealthGate |-> WrittenBack(c.HealthGate)]
  BY <1>1, <1>3 DEF Configurations
<1>5. gateOf(again.HealthGate) = gateOf(c.HealthGate)
  BY <1>1, <1>4, ConfigurationParts, GateWrittenBack
<1> QED BY <1>2, <1>3, <1>4, <1>5 DEF RunsAs

-----------------------------------------------------------------------------
(* Suggestions *)

\* What discover suggests for a tree given by root.
GlobsSuggested(root, seen) ==
    [p \in Found(Dirs) |-> DiscoverProjects(root, Dirs, seen)[p].globs]

\* The globs of a project are those of its directories, each for an extension found in it.
LEMMA GlobOfProject ==
    ASSUME NEW root, NEW seen, NEW p \in Found(Dirs), NEW glob
    PROVE  glob \in GlobsSuggested(root, seen)[p] <=>
               \E dir \in DirsOf(Dirs, p) : \E f \in ImagesIn(seen, dir) :
                   glob = [dir |-> root \o dir, ext |-> Lower[f.ext]]
<1> DEFINE GlobsIn(dir) ==
        {[dir |-> root \o dir, ext |-> ext] : ext \in DOMAIN countImagesByExtension(seen, dir)}
<1>1. GlobsSuggested(root, seen)[p] = UNION {GlobsIn(dir) : dir \in DirsOf(Dirs, p)}
  BY DEF GlobsSuggested, DiscoverProjects, suggestionOf
<1>2. \A dir : DOMAIN countImagesByExtension(seen, dir) = {Lower[f.ext] : f \in ImagesIn(seen, dir)}
  BY DEF countImagesByExtension
<1>3. ASSUME NEW dir
      PROVE  glob \in GlobsIn(dir) <=>
             \E f \in ImagesIn(seen, dir) : glob = [dir |-> root \o dir, ext |-> Lower[f.ext]]
  <2>1. PICK path : path = root \o dir
    OBVIOUS
  <2>2. glob \in {[dir |-> path, ext |-> ext] : ext \in {Lower[f.ext] : f \in ImagesIn(seen, dir)}}
        <=> \E f \in ImagesIn(seen, dir) : glob = [dir |-> path, ext |-> Lower[f.ext]]
    OBVIOUS
  <2> QED BY <1>2, <2>1, <2>2
<1> HIDE DEF GlobsIn
<1> QED BY <1>1, <1>3

\* Suggested globs begin as the root was given.
LEMMA SuggestedTyped ==
    ASSUME NEW root \in Roots, NEW seen \in SUBSET AllFiles
    PROVE  /\ Found(Dirs) \in SUBSET ProjectNames
           /\ GlobsSuggested(root, seen) \in Projects(Found(Dirs))
           /\ \A p \in Found(Dirs) : \A glob \in GlobsSuggested(root, seen)[p] :
                 ~IsHomePath(glob.dir) /\ (IsAbs(glob.dir) => root = AbsRoot)
<1>1. Found(Dirs) \in SUBSET ProjectNames
  BY SetupAssumption DEF SetupAssumption, Found, ScreenshotDirs, isScreenshotDir
<1>2. ASSUME NEW p \in Found(Dirs), NEW glob \in GlobsSuggested(root, seen)[p]
      PROVE  glob \in Globs /\ ~IsHomePath(glob.dir) /\ (IsAbs(glob.dir) => root = AbsRoot)
  <2>1. PICK dir \in DirsOf(Dirs, p) :
            \E f \in ImagesIn(seen, dir) : glob = [dir |-> root \o dir, ext |-> Lower[f.ext]]
    BY <1>2, GlobOfProject
  <2>2. PICK f \in ImagesIn(seen, dir) : glob = [dir |-> root \o dir, ext |-> Lower[f.ext]]
    BY <2>1
  <2>3. dir \in Paths /\ f \in AllFiles
    BY SetupAssumption DEF SetupAssumption, DirsOf, ScreenshotDirs, ImagesIn
  <2>4. /\ root \in Paths /\ root # <<>> /\ ~IsHomePath(root) /\ (IsAbs(root) => root = AbsRoot)
        /\ Lower[f.ext] \in Texts
    BY <2>3, SetupAssumption DEF SetupAssumption
  <2>5. root \o dir \in Paths /\ root \o dir # <<>> /\ (root \o dir)[1] = root[1]
    BY <2>3, <2>4, ConcatBegins
  <2> QED BY <2>2, <2>4, <2>5 DEF Globs, IsHomePath, IsAbs
<1>3. GlobsSuggested(root, seen) \in Projects(Found(Dirs))
  BY <1>2 DEF Projects, GlobsSuggested
<1> QED BY <1>1, <1>2, <1>3

\* Loaded, the projects that were pasted are what was suggested, and the tree was given by
\* its absolute path.
LEMMA SuggestedLoads ==
    ASSUME NEW root \in Roots, NEW seen \in SUBSET AllFiles, NEW doc, IsDocument(doc), NEW h, IsHome(h),
           doc.projects = GlobsSuggested(root, seen), LoadConfig(doc, h) # NoConfig
    PROVE  LoadConfig(doc, h).Projects = doc.projects /\ root = AbsRoot
<1>1. PICK c : c = LoadConfig(doc, h)
  OBVIOUS
<1>2. IsLoaded(c) /\ c.Projects = expandProjectGlobs(doc.projects, h)
  BY <1>1, LoadedIsLoaded
<1>3. \A glob \in GlobsOf(doc.projects) : ~IsHomePath(glob.dir)
  BY SuggestedTyped DEF GlobsOf, GlobsSuggested
<1>4. c.Projects = doc.projects
  BY <1>2, <1>3, SuggestedTyped, OtherProjectsStay
<1>5. PICK p \in Found(Dirs) : doc.projects[p] # {} /\ validateGlobs(doc.projects[p])
  BY <1>2, <1>4 DEF IsLoaded, Validate, validateProjects, GlobsSuggested
<1>6. PICK glob \in doc.projects[p] : IsAbs(glob.dir)
  BY <1>5 DEF validateGlobs
<1> QED BY <1>1, <1>4, <1>6, SuggestedTyped

-----------------------------------------------------------------------------
(* The inductive invariant *)

\* A suggestion is what discover says of screenshots that were there, and still are.
IsSuggestion(s, taken) ==
    s = NoSuggestion \/ (s.seen \subseteq taken
                         /\ \E root \in Roots : s.projects = DiscoverProjects(root, Dirs, s.seen))

PastedInv ==
    pasted # NoSuggestion =>
        document.projects = [p \in DOMAIN pasted.projects |-> pasted.projects[p].globs]

SetupInv ==
    /\ files \subseteq AllFiles /\ IsHome(home)
    /\ IsDocument(document)
    /\ loaded # NoConfig => IsLoaded(loaded)
    /\ IsSuggestion(suggested, files)
    /\ IsSuggestion(pasted, files)
    /\ PastedInv

\* The projects of a document, as they were pasted.
LEMMA PastedGlobs ==
    ASSUME NEW s, NEW taken \in SUBSET AllFiles, IsSuggestion(s, taken), s # NoSuggestion
    PROVE  \E root \in Roots, seen \in SUBSET AllFiles :
               /\ s.seen = seen /\ s.projects = DiscoverProjects(root, Dirs, seen)
               /\ [p \in DOMAIN s.projects |-> s.projects[p].globs] = GlobsSuggested(root, seen)
BY DEF IsSuggestion, GlobsSuggested, DiscoverProjects

\* An edit leaves a document; it has every member.
LEMMA EditedDocument ==
    ASSUME NEW doc, IsDocument(doc), NEW member \in DOMAIN Values, NEW value \in Values[member]
    PROVE  /\ IsDocument([doc EXCEPT ![member] = value])
           /\ member # "projects" => [doc EXCEPT ![member] = value].projects = doc.projects
<1>1. PICK names \in SUBSET ProjectNames : doc \in Documents(names)
  BY DEF IsDocument
<1>2. PICK blank : blank = [EmptyDocument EXCEPT ![member] = value]
  OBVIOUS
<1>3. PICK n \in SUBSET ProjectNames : blank \in Documents(n)
  BY <1>2, SetupAssumption DEF SetupAssumption, IsDocument
<1>4. PICK edited : edited = [doc EXCEPT ![member] = value]
  OBVIOUS
<1>5. blank = [m \in DOMAIN Values |-> IF m = member THEN value ELSE Absent]
  BY <1>2 DEF EmptyDocument
<1>6. DOMAIN Values = DOMAIN doc
  BY <1>1, <1>3, <1>5 DEF Documents
<1>7. edited = [m \in DOMAIN doc |-> IF m = member THEN value ELSE doc[m]]
  <2>1. doc = [m \in DOMAIN doc |-> doc[m]]
    BY <1>1 DEF Documents
  <2> QED BY <1>4, <2>1
<1>8. CASE member = "projects"
  <2>1. edited \in Documents(n)
    BY <1>1, <1>3, <1>5, <1>6, <1>7, <1>8 DEF Documents
  <2> QED BY <1>4, <1>8, <2>1 DEF IsDocument
<1>9. CASE member # "projects"
  <2>1. edited \in Documents(names)
    BY <1>1, <1>3, <1>5, <1>6, <1>7, <1>9 DEF Documents
  <2> QED BY <1>1, <1>4, <1>7, <1>9, <2>1 DEF IsDocument, Documents
<1> QED BY <1>8, <1>9

\* Nothing is set up at first.
LEMMA SetupInit == Init => SetupInv
<1> SUFFICES ASSUME Init PROVE SetupInv
  OBVIOUS
<1>1. IsDocument(EmptyDocument)
  BY SetupAssumption DEF SetupAssumption
<1>2. IsHome(home)
  BY HomesAreHomes DEF Init
<1> QED BY <1>1, <1>2 DEF Init, SetupInv, PastedInv, IsSuggestion

\* Every step keeps the invariant.
LEMMA SetupStep == SetupInv /\ [Next]_vars => SetupInv'
<1> SUFFICES ASSUME SetupInv, [Next]_vars PROVE SetupInv'
  OBVIOUS
<1>1. ASSUME NEW f \in AllFiles, Shoot(f)
      PROVE  SetupInv'
  BY <1>1 DEF Shoot, SetupInv, PastedInv, IsSuggestion
<1>2. ASSUME NEW root \in Roots, NEW unreadable \in Unreadable, RunDiscover(root, unreadable)
      PROVE  SetupInv'
  <2>1. /\ suggested'.seen = files /\ suggested'.projects = DiscoverProjects(root, Dirs, files)
        /\ UNCHANGED <<files, pasted, document, home, loaded>>
    BY <1>2 DEF RunDiscover
  <2>2. IsSuggestion(suggested, files)'
    BY <2>1 DEF IsSuggestion
  <2> QED BY <2>1, <2>2 DEF SetupInv, PastedInv, IsSuggestion
<1>3. CASE Paste
  <2>1. /\ suggested # NoSuggestion /\ pasted' = suggested
        /\ UNCHANGED <<files, suggested, home, loaded>>
    BY <1>3 DEF Paste
  <2>2. PICK projects : projects = [p \in DOMAIN suggested.projects |-> suggested.projects[p].globs]
    OBVIOUS
  <2>3. document' = [document EXCEPT !.projects = projects]
    BY <1>3, <2>2 DEF Paste
  <2>4. \E names \in SUBSET ProjectNames : projects \in Projects(names)
    BY <2>1, <2>2, PastedGlobs, SuggestedTyped DEF SetupInv
  <2>5. IsDocument(document') /\ document'.projects = projects
    <3>1. PICK n \in SUBSET ProjectNames : document \in Documents(n)
      BY DEF SetupInv, IsDocument
    <3>2. PICK names \in SUBSET ProjectNames : projects \in Projects(names)
      BY <2>4
    <3>3. document' \in Documents(names) /\ document'.projects = projects
      BY <2>3, <3>1, <3>2 DEF Documents
    <3> QED BY <3>3 DEF IsDocument
  <2>6. PastedInv'
    BY <2>1, <2>2, <2>5 DEF PastedInv
  <2> QED BY <2>1, <2>5, <2>6 DEF SetupInv, IsSuggestion
<1>4. ASSUME NEW member \in DOMAIN Values, NEW value \in Values[member], Edit(member, value)
      PROVE  SetupInv'
  <2>1. /\ document' = [document EXCEPT ![member] = value]
        /\ pasted' = IF member = "projects" THEN NoSuggestion ELSE pasted
        /\ UNCHANGED <<files, suggested, home, loaded>>
    BY <1>4 DEF Edit
  <2>2. IsDocument(document') /\ (member # "projects" => document'.projects = document.projects)
    BY <2>1, EditedDocument DEF SetupInv
  <2> QED BY <2>1, <2>2 DEF SetupInv, PastedInv, IsSuggestion
<1>5. CASE Load
  <2>1. loaded' = LoadConfig(document, home) /\ UNCHANGED <<files, suggested, pasted, document, home>>
    BY <1>5 DEF Load
  <2>2. loaded' # NoConfig => IsLoaded(loaded')
    BY <2>1, LoadedIsLoaded DEF SetupInv
  <2> QED BY <2>1, <2>2 DEF SetupInv, PastedInv, IsSuggestion
<1>6. CASE Save
  <2>1. /\ loaded # NoConfig /\ loaded = LoadConfig(document, home) /\ document' = MarshalJSON(loaded)
        /\ UNCHANGED <<files, suggested, pasted, home, loaded>>
    BY <1>6 DEF Save
  <2>2. IsDocument(document') /\ document'.projects = loaded.Projects
    BY <2>1, SavedIsDocument DEF SetupInv, MarshalJSON
  <2>3. pasted # NoSuggestion => document'.projects = document.projects
    <3> SUFFICES ASSUME pasted # NoSuggestion PROVE loaded.Projects = document.projects
      BY <2>2
    <3>1. \E root \in Roots, seen \in SUBSET AllFiles : document.projects = GlobsSuggested(root, seen)
      BY PastedGlobs DEF SetupInv, PastedInv
    <3> QED BY <2>1, <3>1, SuggestedLoads DEF SetupInv
  <2> QED BY <2>1, <2>2, <2>3 DEF SetupInv, PastedInv, IsSuggestion
<1>7. CASE UNCHANGED vars
  BY <1>7 DEF vars, SetupInv, PastedInv, IsSuggestion
<1> QED BY <1>1, <1>2, <1>3, <1>4, <1>5, <1>6, <1>7 DEF Next

\* The inductive invariant of setting up: documents and configurations are of their types,
\* what is loaded is valid and free of "~", and pasted projects are as discover printed them.
THEOREM SetupInvCorrect == Spec => []SetupInv
BY SetupInit, SetupStep, PTL DEF Spec

\* Every configuration that loads runs alike once it is written back, for any documents,
\* homes, retry policies and probe timeouts.
THEOREM SavedAlwaysRunsAlike == Spec => []SavedConfigRunsAlike
<1>1. SetupInv => SavedConfigRunsAlike
  BY LoadedRunsAlike DEF SetupInv, SavedConfigRunsAlike
<1> QED BY <1>1, SetupInvCorrect, PTL

\* A common prefix can be taken off two paths.
LEMMA ConcatCancels ==
    ASSUME NEW r \in Paths, NEW p \in Paths, NEW q \in Paths, r \o p = r \o q
    PROVE  p = q
<1>1. Len(r) \in Nat /\ Len(p) \in Nat /\ Len(q) \in Nat
  BY LenProperties DEF Paths
<1>2. Len(p) = Len(q)
  BY <1>1, ConcatProperties DEF Paths
<1>3. \A i \in 1..Len(p) : p[i] = (r \o p)[Len(r) + i] /\ q[i] = (r \o q)[Len(r) + i]
  BY <1>1, <1>2 DEF Paths
<1> QED BY <1>1, <1>2, <1>3, SeqEqual DEF Paths

\* A path that no pattern of another directory matches is matched by its own alone.
LEMMA ReadByItself ==
    ASSUME NEW dir \in ScreenshotDirs(Dirs), NEW other \in ScreenshotDirs(Dirs), ReadAsItself(dir)
    PROVE  Reads(AbsRoot \o other, AbsRoot \o dir) <=> other = dir
<1>1. dir \in Paths /\ other \in Paths /\ AbsRoot \in Paths
  BY SetupAssumption DEF SetupAssumption, ScreenshotDirs
<1>2. PICK p, o : p = AbsRoot \o dir /\ o = AbsRoot \o other
  OBVIOUS
<1>3. p \in Paths /\ o \in Paths
  BY <1>1, <1>2, ConcatProperties DEF Paths
<1>4. IsPlain(p) /\ (Reads(o, p) => IsPlain(o))
  BY <1>2 DEF ReadAsItself
<1>5. DOMAIN p = 1..Len(p) /\ DOMAIN o = 1..Len(o) /\ Len(p) \in Nat /\ Len(o) \in Nat
  BY <1>3, LenProperties DEF Paths
<1>6. ASSUME other = dir PROVE Reads(o, p)
  BY <1>2, <1>4, <1>6 DEF Reads, IsPlain
<1>7. ASSUME Reads(o, p) PROVE other = dir
  <2>1. Len(o) = Len(p) /\ \A i \in 1..Len(p) : p[i] = o[i]
    BY <1>4, <1>5, <1>7 DEF Reads, IsPlain
  <2>2. p = o
    BY <1>3, <2>1, SeqEqual DEF Paths
  <2> QED BY <1>1, <1>2, <2>2, ConcatCancels
<1> QED BY <1>2, <1>6, <1>7

\* Among numbers up to a last one there is a greatest.
LEMMA Greatest ==
    ASSUME NEW n \in Nat, NEW S \in SUBSET (0..n), S # {}
    PROVE  \E x \in S : \A y \in S : y <= x
<1> DEFINE R == {ss \in Nat \X Nat : ss[1] < ss[2]}
           T == {k \in 0..n : n - k \in S}
<1>1. IsWellFoundedOn(R, Nat)
  BY NatLessThanWellFounded DEF OpToRel
<1>2. T \in SUBSET Nat /\ T # {}
  <2>1. PICK x \in S : x \in 0..n
    OBVIOUS
  <2>2. PICK k : k = n - x
    OBVIOUS
  <2>3. k \in 0..n /\ n - k = x
    BY <2>1, <2>2
  <2>4. k \in T
    BY <2>3
  <2> QED BY <2>4
<1>3. PICK k \in T : \A m \in T : ~ (<<m, k>> \in R)
  <2> HIDE DEF R, T
  <2> QED BY <1>1, <1>2, WFMin
<1>4. k \in 0..n /\ n - k \in S
  OBVIOUS
<1>5. ASSUME NEW y \in S PROVE y <= n - k
  <2>1. PICK m : m = n - y
    OBVIOUS
  <2>2. m \in 0..n /\ n - m = y /\ y \in 0..n
    BY <2>1
  <2>3. <<m, k>> \notin R
    <3>1. m \in T
      BY <2>2
    <3> QED BY <1>3, <3>1
  <2>4. ~(m < k)
    BY <1>4, <2>2, <2>3
  <2> QED BY <1>4, <2>2, <2>4
<1> QED BY <1>4, <1>5

\* Each view of the files taken of a project has a newest one among them.
LEMMA LatestIsNewest ==
    ASSUME NEW globs, NEW seen \in SUBSET AllFiles, NEW f \in Taken(globs, seen)
    PROVE  LET g == latest(Taken(globs, seen), f.view)
           IN  g \in Taken(globs, seen) /\ g.view = f.view /\ g.modified >= f.modified
<1> PICK taken : taken = Taken(globs, seen)
  OBVIOUS
<1>1. f \in taken /\ \A g \in taken : g.modified \in 0..LastModified
  BY SetupAssumption DEF SetupAssumption, Taken, Matching
<1> PICK times : times = {g.modified : g \in {g \in taken : g.view = f.view}}
  OBVIOUS
<1>2. times \in SUBSET (0..LastModified) /\ times # {}
  BY <1>1
<1>3. PICK last \in times : \A time \in times : time <= last
  BY <1>2, SetupAssumption, Greatest DEF SetupAssumption
<1>4. \E g \in taken : g.view = f.view /\ \A h \in taken : h.view = f.view => h.modified <= g.modified
  BY <1>3
<1>5. PICK g : g = latest(taken, f.view)
  OBVIOUS
<1>6. g \in taken /\ g.view = f.view /\ \A h \in taken : h.view = f.view => h.modified <= g.modified
  BY <1>4, <1>5 DEF latest
<1>7. g.modified >= f.modified
  BY <1>1, <1>6
<1> QED BY <1>5, <1>6, <1>7

\* What is captured was taken.
LEMMA CapturedTaken ==
    ASSUME NEW globs, NEW seen \in SUBSET AllFiles, NEW f \in ScanProject(globs, seen)
    PROVE  f \in Taken(globs, seen)
<1>1. PICK g \in Taken(globs, seen) : f = latest(Taken(globs, seen), g.view)
  BY DEF ScanProject
<1> QED BY <1>1, LatestIsNewest

\* What is taken of a project is captured, or a newer file of its view is.
LEMMA NewestCaptured ==
    ASSUME NEW globs, NEW seen \in SUBSET AllFiles, NEW f \in Taken(globs, seen)
    PROVE  \E g \in ScanProject(globs, seen) : g.view = f.view /\ g.modified >= f.modified
<1>1. latest(Taken(globs, seen), f.view) \in ScanProject(globs, seen)
  BY DEF ScanProject
<1> QED BY <1>1, LatestIsNewest

\* In a tree given by its absolute path, a screenshot whose extension is in lower case and
\* whose directory is read as itself is matched by the globs of the project that owns its
\* directory, and by no others.
LEMMA OneProject ==
    ASSUME NEW seen \in SUBSET AllFiles, NEW taken \in SUBSET AllFiles, seen \subseteq taken,
           NEW f \in seen, f.dir \in ScreenshotDirs(Dirs), ReadAsItself(f.dir),
           isScreenshotExtension(f.ext), f.ext = Lower[f.ext]
    PROVE  /\ projectOf(f.dir) \in Found(Dirs)
           /\ \A q \in Found(Dirs) :
                 f \in Matching(GlobsSuggested(AbsRoot, seen)[q], taken) <=> q = projectOf(f.dir)
<1>1. projectOf(f.dir) \in Found(Dirs)
  BY DEF Found
<1>2. PICK root : root = AbsRoot
  OBVIOUS
<1>3. ASSUME NEW q \in Found(Dirs), f \in Matching(GlobsSuggested(root, seen)[q], taken)
      PROVE  q = projectOf(f.dir)
  <2>1. PICK glob \in GlobsSuggested(root, seen)[q] : Reads(glob.dir, AbsRoot \o f.dir)
    BY <1>3 DEF Matching, GlobMatches
  <2>2. PICK dir \in DirsOf(Dirs, q) :
            \E g \in ImagesIn(seen, dir) : glob = [dir |-> root \o dir, ext |-> Lower[g.ext]]
    BY <2>1, GlobOfProject
  <2>3. glob.dir = AbsRoot \o dir /\ dir \in ScreenshotDirs(Dirs) /\ projectOf(dir) = q
    BY <1>2, <2>2 DEF DirsOf
  <2> QED BY <2>1, <2>3, ReadByItself
<1>4. f \in Matching(GlobsSuggested(root, seen)[projectOf(f.dir)], taken)
  <2>1. PICK glob : glob = [dir |-> root \o f.dir, ext |-> f.ext]
    OBVIOUS
  <2>2. f.dir \in DirsOf(Dirs, projectOf(f.dir)) /\ f \in ImagesIn(seen, f.dir)
    BY DEF DirsOf, ImagesIn
  <2>3. glob \in GlobsSuggested(root, seen)[projectOf(f.dir)]
    BY <1>1, <2>1, <2>2, GlobOfProject
  <2>4. Reads(AbsRoot \o f.dir, AbsRoot \o f.dir)
    BY ReadByItself
  <2>5. GlobMatches(glob, f)
    BY <1>2, <2>1, <2>4 DEF GlobMatches
  <2> QED BY <2>3, <2>5 DEF Matching
<1> QED BY <1>1, <1>2, <1>3, <1>4

\* Every screenshot discover saw in a directory with a telling name, read as itself, is seen
\* by the passes of exactly one project of a configuration its suggestion was pasted into,
\* for any tree, however often the configuration was edited and saved since and whatever
\* screenshots were added.
THEOREM ScreenshotsHaveOneProject == Spec => []EveryScreenshotHasOneProject
<1>1. SetupInv => EveryScreenshotHasOneProject
  <2> SUFFICES ASSUME SetupInv, IsPasted,
                      NEW f \in pasted.seen, f.dir \in ScreenshotDirs(Dirs), ReadAsItself(f.dir),
                      isScreenshotExtension(f.ext), f.ext = Lower[f.ext], f.view # NoView
               PROVE  \E p \in DOMAIN loaded.Projects :
                          /\ \E g \in Captured(p) : g.view = f.view /\ g.modified >= f.modified
                          /\ \A q \in DOMAIN loaded.Projects \ {p} : f \notin Captured(q)
    BY DEF EveryScreenshotHasOneProject
  <2>1. PICK root \in Roots, seen \in SUBSET AllFiles :
            pasted.seen = seen /\ document.projects = GlobsSuggested(root, seen)
    BY PastedGlobs DEF SetupInv, PastedInv, IsPasted
  <2>2. loaded.Projects = GlobsSuggested(AbsRoot, seen)
    BY <2>1, SuggestedLoads DEF SetupInv, IsPasted
  <2>3. DOMAIN loaded.Projects = Found(Dirs)
    BY <2>2 DEF GlobsSuggested
  <2>4. seen \subseteq files /\ files \in SUBSET AllFiles
    BY <2>1 DEF SetupInv, IsSuggestion, IsPasted
  <2>5. /\ projectOf(f.dir) \in Found(Dirs)
        /\ \A q \in Found(Dirs) :
              f \in Matching(loaded.Projects[q], files) <=> q = projectOf(f.dir)
    BY <2>1, <2>2, <2>4, OneProject
  <2>6. \A q \in Found(Dirs) : f \in Captured(q) => q = projectOf(f.dir)
    <3> SUFFICES ASSUME NEW q \in Found(Dirs), f \in Captured(q)
                 PROVE  q = projectOf(f.dir)
      OBVIOUS
    <3>1. f \in Taken(loaded.Projects[q], files)
      BY <2>4, CapturedTaken DEF Captured
    <3> QED BY <2>5, <3>1 DEF Taken
  <2>7. \E g \in Captured(projectOf(f.dir)) : g.view = f.view /\ g.modified >= f.modified
    <3>1. f \in Taken(loaded.Projects[projectOf(f.dir)], files)
      BY <2>5 DEF Taken
    <3> QED BY <2>4, <3>1, NewestCaptured DEF Captured
  <2> QED BY <2>3, <2>5, <2>6, <2>7
<1> QED BY <1>1, SetupInvCorrect, PTL
=============================================================================
