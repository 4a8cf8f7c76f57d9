# visionreviewd in TLA+

A verification development for `visionreviewd`, the UI review daemon of this
repository (`src/internal/reviewd`, `src/cmd/visionreviewd`), and, along the plan
below, for the vision SDK it is built on (`src/pkg/vision`, `src/pkg/errors`) and its A2UI
surfaces (`src/pkg/vision/a2ui`). TLC checks every module on small instances; TLAPS proves, for
all of them, the promises of the journal and of the passes that write it, the timing of the loop,
the promises of the SDK's requests and batches, that validation of a surface is right about cycles, and that a
surface keeps its meaning in the edit loop and over the wire.

## The system

The daemon looks at the screenshots of configured projects at a fixed interval,
archives each changed one, has a vision model compare it with its predecessor and
review it, journals what happened, and writes markdown.

| Part | State it keeps | Operations | Talks to |
| --- | --- | --- | --- |
| Event journal (`store.go`, `events.go`, `viewkey.go`) | one event stream per project and view, in a bbolt file | `RecordCapture`, `RecordReview`, `RecordComparison`, `LoadView`, `AllEvents`, `Backup` | called by passes, manual comparisons, replay; the file is locked by one process |
| Review pass (`pipeline.go`) | none between passes; locals during one | `Pass`, `passProject`, `ingest`, `autoCompare`, `review`, `refreshIndex` | scan, blob store, journal, reviewer, reviews directory |
| Scan (`scan.go`, `hash.go`) | none | `ScanProject` | the projects' screenshot files, overwritten by others at any time |
| Blob store (`blobstore.go`) | one file per content hash | `CheckWritable`, `Store` | screenshot files |
| Reviews directory (`writer.go`, `markdown.go`) | a file per view, per comparison minute, an INDEX per project | `WriteViewReview`, `WriteComparison`, `WriteIndex` | written by passes, manual comparisons and replay |
| Reviewer (`reviewer.go`, `score.go`, `prompts.go`) | none | `Review`, `Compare` | the vision agent |
| Daemon (`daemon.go`, `notify.go`) | the ticker; a heartbeat goroutine | `Run`, `runPass`, `startLiveness` | passes, signals, systemd |
| Health gate (`health.go`) | skip counter, time of the last healthy probe | `Pass` | the model endpoint, the gated passes |
| Replay (`replay.go`) | the folds of all streams while it runs | `Replay` | journal, reviews directory |
| Manual comparison (`compare.go`) | none | `CompareManually` | blob store, reviewer, journal, reviews directory |
| Commands (`cmd/visionreviewd`) | none | `run`, `once`, `compare`, `replay`, `events`, `backup`, `discover`, `doctor`, ... | contend for the journal file |
| Configuration (`config.go`, `discover.go`) | the JSON file | `LoadConfig`, `MarshalJSON`, `Normalize`, `Validate`, `DiscoverProjects` | every command; a directory tree |
| Vision agent (`pkg/vision`, `pkg/errors`) | an agent with its settings, conversation history, the cost tracker | the six `Analyze...` calls, `AnalyzeBatch`, retries, hooks, classification of errors | the model provider, the application's callbacks |
| A2UI (`pkg/vision/a2ui`) | none | `Compile`, `Validate`, `Decompile`, JSON lines of messages | authors, rendering clients, structured model output |
| Catalog (`internal/catalog`) | a cached model list | sync, lookup | a remote catalog |

What makes it hard: screenshots change between the scan, the hash, the copy and the
review of one pass; four stores (screenshots, blobs, journal, markdown) are written
one after the other with a crash, a failed call or a cancellation possible between
any two; a failed step is retried by the next pass through the same code, which has
to recognise its own leftovers; a partly failed pass continues with the next view.

What makes it correct: the journal is a sensible history (a review judges the latest
capture, once; a comparison is of neighbours); what the journal names exists; the
reviews directory never shows what the journal does not hold; nothing present is
forgotten; the service stops when told to. A replay rebuilds what was lost and breaks
nothing that was right; the loop neither piles up passes nor is killed for a slow one;
a batch keeps to its limit, stops when nobody waits, and reports what happened; what a
request told its callbacks is what it returns. A backup is a snapshot, and a configuration that
is written back means the same. A surface that validates can be rendered (no component contains itself), and survives the
wire and the way back into a spec.

## The modules

| Module | Models | Extends |
| --- | --- | --- |
| `ViewJournal` | the streams, the record calls, the fold (`ApplyViewState`), `NeedsReview` | |
| `ViewLifecycle` | the abstract specification: the histories review passes may produce | `ViewJournal` |
| `ReviewPipeline` | passes step by step over screenshots, blobs, journal and markdown | `ViewLifecycle` |
| `Replay` | replay and manual comparison, taking turns with the passes | `ReviewPipeline` |
| `Daemon` | the loop, its ticker, the health gate, heartbeat and watchdog | |
| `Analysis` | a batch: semaphore, `Analyze`, timeout, retries, hooks, cost tracker | |
| `Requests` | one request at a time by each of the six methods, streams and typed objects included, with the analyzer's settings and the conversation | |
| `Config` | the configuration: decoding, expansion, validation, encoding, and what runs with it | |
| `Discovery` | the walk of `discover`, the projects it suggests, and what their globs match | |
| `Setup` | screenshots, `discover`, pasting, editing, loading and saving | `Config`, `Discovery` |
| `Commands` | the commands as processes that contend for one journal file | |
| `Components` | the component list of an A2UI surface and the checks of one list | |
| `DetectCycle` | the cycle search of the validator, step by step | `Components` |
| `Surface` | streams of messages: validated, decompiled, compiled, sent as JSON lines | `Components` |
| `AnalysisClaims` | a statement of the repository that the code does not keep; `Setup` and `Surface` have one each | `Analysis` |
| `MCReviewPipeline`, `MCPipeline`, `MCReplay`, `MCDetectCycle`, `MCSurface`, `MCSetup` | instances for TLC | |
| `Journal_proofs` (of `ViewJournal`, `ViewLifecycle`, `ReviewPipeline` and `Replay`), `Setup_proofs`, `Commands_proofs`, `Daemon_proofs`, `Analysis_proofs`, `Requests_proofs`, `DetectCycle_proofs`, `Surface_proofs` | theorems and proofs | |

A definition marked `(mutant)` is a plausible bug in the one after it: put in its place it
breaks a property of some run, which shows that the property notices. Nothing uses it otherwise.

### ViewJournal

`journal[s]` is the stream of a view; an event's version is its position, as `record`
increments the version of the folded stream. `view[s]` is what `LoadView` returns. The
code folds the stream at each call; the model advances the fold by the one event a
record appends. `JournalNext` is any caller of the exported record methods, of which
`MCReplay` enumerates the results. `BlobPath` is left out (it is determined by the hash), and so
are the time stamps but the comparison's, whose minute names a file. An event of a
kind the binary does not know is `Newer`, one whose row does not decode is `Garbled`: the store refuses to fold a
stream that holds one (`Readable`), and a replay collects an error. A view is one screenshot path.

### ReviewPipeline

The disk (`files`, `blobs`, `reviews`, `comparisons`, `index` and the journal)
survives a crash; the locals of a pass (`queue`, `project`, `scan`, `todo`, `key`,
`before`, `sha`, `errs`, `result`) do not. `pc` says where the pass is:

    idle -> scan -> view -> hash -> copy -> record -> compare -> writeCompare -> review -> writeReview -> view
                    view -> scan -> idle

Each action is the code up to the next point where something else may interfere: a
second read of a screenshot, a write of a blob, of the journal or of a file, a model
call. The model call and the recording of its verdict are one action: nothing shared
is touched between them and either one failing has the same effect. A scan of one
project is atomic: the hash it takes of a view is compared with nothing until the
view's own step, so a finer scan only adds screenshots overwritten earlier. Projects
and view keys are numbers in the order in which the code sorts them. A content stands
for its SHA-256.

Every fallible call may fail while `failures < MaxFailures`, and calls that take the
context also fail, or succeed, once it is done. `Cancel` is SIGINT or SIGTERM;
`Crash` is a process crash (files already written stay; power loss is not modelled);
`Recover` is the unit's `Restart = "on-failure"` (`nixos/visionreviewd.nix:107`),
`Start` an operator. There is one writer: the journal file is locked by the process
that opened it.

`ReviewPipeline` implements `ViewLifecycle` (the property `ImplementsLifecycle`): every
step of a pass either leaves the journal alone or is a step of the history.

### Replay

`replay` and `compare` open the journal, so they run only while no service does
(`~Running`), and no service comes up while they run. A replay goes through the
events one by one, folds each (`Fold`) and renders from the fold; a failure of a write is
`DiskFault`, collected and not fatal. So are the error of a row that does not decode, which the fold skips,
of a review no capture precedes, and of an event of a view stream whose id is no view's address (`strays`: nothing is
rendered from one, so only their number is kept). Streams of other types are passed over without an error and left out. The journal orders the events of all streams;
the model interleaves the streams in any way and keeps the order of each: no
file depends on two streams but INDEX, which is written last from all the folds. A manual comparison
stores two files an operator names, records and writes. It may compare any two
contents, so its journals are outside `ViewLifecycle`. `Interrupt` kills a command, `Wipe`
is an operator who removes the reviews directory.

`MCReplay` starts either from a service whose passes write the journal, or (`foreign`)
from any journal of up to `MaxEvents` events, with reviews no capture precedes, unknown and undecodable
events and strays, as any caller of the exported store, or another version of it, may have left one. With the service, the minute stands still (two comparisons then
share a file, the interesting case); foreign journals use both minutes.

### Daemon

Time is in units, and timers count down (`tickIn`, `beatIn`); `Advance` never
passes a timer that is due, so a heartbeat that can run runs in its unit. A pass takes any time (`ReviewPipeline` says
what it does). The ticker holds one tick and is created after the first pass. With the health gate
disabled the daemon is the one whose probe always succeeds. A ping takes up to `PingTimeout`, the deadlines of
`notify`, and arrives or fails; a failed one is only logged, and nothing is sent before the next beat. `Freeze` stops the whole
process (and lets it go on). The watchdog does not watch a
service being stopped, since systemd then has its stop timeout instead, which is not modelled. `DaemonAssumption`
requires a budget that a heartbeat period and the deadline of a ping fit in (the period is half the budget, at least `MinPeriod`,
100 ms in the code): with a smaller one the heartbeat comes too late by design of `watchdogPeriodFromEnv`, and a healthy service would be killed.

### Analysis

`AnalyzeBatch` runs a goroutine for each image that is not nil; `at[i]` is where it is:

    acquire -> (waiting ->) prepare -> attempt -> begin -> call -> release -> done
                                       call -> backoff -> attempt

The semaphore is `golang.org/x/sync/semaphore` as the code uses it, with weight 1: its queue is
served in order, a token granted to a goroutine that has not woken up is in `granted`, and a
cancellation that races with the grant gives the token back. A failed call is "transient"
(`IsRetryable`) or "permanent". The timeout spans all attempts of a request.
Every answer counts one call in the tracker; its tokens and price do not matter here. A
panic of a goroutine ends the process.

### Requests

Where `Analysis` has many requests and one kind of each thing, `Requests` has one request after the
other and every kind: the six methods (`stream`, `history`, `typed`), each with its error paths.

    idle -> prepare -> started -> attempt -> asked -> (streaming ->) idle
                                  asked -> backoff -> attempt

The application gets control between requests, in `OnStart`, and during an attempt in its tools, `PrepareStep` and
stream callbacks, all called in the request's goroutine: there it may change the analyzer's settings and
the conversation, so nothing races. The agent is a copy of the settings; `cached` is what `invalidate` drops.
A conversation is a slice into a backing array, since a running call holds
one too and sends it again with each retry. `Classify` and `IsRetryable` are those of `pkg/errors`, over every
combination of status and flags; whether the library calls a provider's error retryable is open, as the
library is not part of the repository. So is what it does inside of one call: with `MaxRetries` set it may
repeat a request itself, which is not modelled (zero, the default, turns that off). It is taken to end a stream with the error a callback
returns. A chunk of text is its number in the attempt, an
object gives each of two fields a value, none, or does not fit the type. `due` is a ghost: what was
asked for, and what the model answered.

### Config, Discovery and Setup

A configuration document has each member absent, null, a text or a number; only texts that
are treated differently are told apart. `UnmarshalJSON` decodes over the
defaults (a list of globs that is null is the empty one), `MarshalJSON` is what a program writes back, and `RunsAs` is what the daemon makes of a configuration, with the
fallbacks that `retry.go`, `health.go` and `commands.go` apply to zero. API keys and the
source URLs of the catalog are plain texts and left out. `Discovery` gives directories as sequences of names; `Lower`
is Go's `ToLower` for the names of an instance. A suggested glob is a directory's path as it is, and `filepath.Glob` reads each
name of it as a pattern: `Matched` says which names it matches, its own or not. A file has the view its
name stands for (`NoView` for a name that is none, or a file that cannot be read) and a time of modification; of the files of one view the
newest is captured, and which of equally new ones is open. `Setup` lets screenshots appear and an operator run
`discover`, paste, edit, load and save in any order.

### Commands

Each process runs one command from its start to its exit: `run` and `once` open the journal, record and close it, `events` reads it, `backup`
copies it, `doctor` probes a directory, the lock and the rows. bbolt's file lock is `writer` and `readers`; a killed process lets
go of it. A backup copies the pages in two steps, and OUT remembers for each part which state of the journal it is from. `Damage` is a
broken row, which a fold meets, or broken pages, which opening meets. The system may also refuse a command any access it asks for (`RefusedStep`:
a stat, a directory, an open, the buckets, a read); `refused` remembers which doctors met that, since they report the journal as failed. `compare` takes the steps of `once` and `replay` those of `events` and are
left out of the instance. The creation of a journal and taking its lock are one step; exit code 1 stands for any other end.

### Components, DetectCycle and Surface

`Components` has the checks `Validate` makes of one list of components, and, as a
definition without any algorithm in it, what a reference cycle below root is (`Cyclic`).
`DetectCycle` is the search the code makes for one: `trail` is the recursion of `visit`,
`passed` the loop of each component on it. It starts on every list with a root,
as the code does, whatever other issues the list has. `Surface` then uses `Cyclic`.

In `Surface` a stream is read message by message, by the validator and by `Decompile` in
lockstep (`Read`); in the code they are two loops over the same messages with no state in common.
`reader` is who reads: the author who built the stream, the client who received it as JSON lines
(`Deliver`), the editor who compiled what it decompiled to (`Recompile`). An issue makes `valid` false; the
number of issues and their wording are left out. The data model is a tree, given
as a function from its paths, that of a nil map has none; a JSON Pointer is a sequence of keys, so escapes in it are left out.
A key leads into an array by the index `Atoi` makes of it: `0`, `00` and `+0` are one element. So a path leads to a place (`Located`) that
depends on the model it is read in, and `placed` is the history of the messages with the places theirs led to. A value is a
tree too, whose nodes are of the types JSON decodes to or of other Go types (`struct`, `slice`, `int`), which `Decompile` neither enters nor takes for
a model until the wire has made them general ones (`Generic`). Each reader has its own copy of the values of a message.
What the fields of a message hold is stated once, by `IsMessage`, for whatever an author may send.
`EncodeComponent` merges properties and structural keys into one object as `MarshalJSON` does, and
`DecodeComponent` takes them apart. A dynamic child list names a template, which the code does not resolve.

## The runs

| Run | Instance | Question |
| --- | --- | --- |
| `pipeline` | either 1 view, 2 contents, 2 scores, 2 minutes, 2 edits, a cancel, and a failure or a crash; or 2 views that may show the same content, 1 edit, a failure, a cancel and a crash; under fairness of the service | is the journal a legal history and do the files follow it? Does an error-free project have every screenshot reviewed and, unless the context is done, its INDEX current, does a shared blob stay as it is, and in the end, is every screenshot reviewed and every INDEX current? Two edits of the lone view give A, B, A, two minutes comparisons that share a file and that do not; one fault of each kind meets every step |
| `replay` | 1 view, 2 contents, 2 scores, 1 fault of each kind, 1 manual comparison; and every journal of 3 events, with reviews no capture precedes, unknown and undecodable events and one on an id that is no view's | does a replay restore what is missing, change nothing that is right, and collect an error for exactly what it cannot render while it shows the rest? Does every journaled hash have its blob, and is the fold what the code takes it for, for any caller? Three events hold two reviews, or two captures, and one more event between them, which is what the properties of the fold relate |
| `daemon` | interval 3, budget 3, heartbeat period 1, ping deadline 1, any number of outages, freezes, slow or failed pings and cancellations | do passes keep their distance, is only a service killed that stood still or had a ping fail, does everything resume, does a cancelled service return? Passes of 0 to 4 units and more end before, with and after the tick |
| `analysis` | 3 images, any of them nil, 2 at a time, 2 attempts, a timeout of each request, a cancellation | are limit, hooks and results right, do retries stop, does the batch end? Three for two makes one wait |
| `detect_cycle` | every list of 3 components with up to 2 references each, every list of up to 2 with wrong ids, children and references | does the search end with the right verdict and a real path? Three components hold a cycle behind a component reached twice, 2 references a branch |
| `surface` | 2 surfaces, 7 component lists, a data model of 2 names, an array of one element and two spellings of its index, up to 5 messages out of 28; or one of 192 specs | is what decompiles one surface, with the data last written, and does it survive compiling and the wire? Five messages are a surface and three writes to its data. An author stops at the first wrong message, as no later one takes back an issue or an error |
| `setup` | a tree of 6 directories, one of them named as a pattern that matches another (`A*`), 4 files, two of one view, 2 roots, 2 homes, every member with its awkward values, 2 edits | does what was saved run alike, and is every screenshot reviewed in one project? Two edits set a member of a stanza and a path it depends on |
| `commands` | 2 processes at a time, 4 commands, 1 event, 1 kill, one damage of the journal, any access refused | is a backup that succeeded a snapshot, is a doctor's verdict right, does everything but a wait for a daemon end? Four commands are a backup overtaken by a recorder, another backup, and a doctor |
| `requests` | 2 requests, 2 attempts, 3 parts of a stream, 4 messages, 1 change of settings, 9 statuses with every flag | do hooks, callbacks and result tell the same, does every attempt send what was asked, are attempts neither spared nor wasted? Four messages fill an array and extend one in place; 3 parts are 2 partial objects and a text, or an error after them |
| `claim_*` | the smallest instance that shows it | three statements of the repository that the code does not keep (below) |

`replay` uses the symmetry of contents; the runs with liveness do not (in `pipeline` the lone view starts with one of them).
CHECK_DEADLOCK is off: a stopped service may stay stopped, a batch that returned is over,
a verdict is final, a stream stops at its bound, operators and applications come to an end. Bounds: `MaxEvents` on the
streams a replay starts from and the journal of the commands, `MaxMessages` on an author and on a conversation, `MaxEdits`, `MaxFailures`, `MaxCancels`, `MaxCrashes`, `MaxManual`, `MaxStrays`,
`MaxStarts`, `MaxKills`, `MaxRequests`, `MaxParts`, `MaxSettings` on the environment, `MaxSkips` on a counter that is only compared with zero; nothing bounds the service itself.

**Fairness.** In `ReviewPipeline`, `FairSpec` has weak fairness of `PassStep`, the steps of the service's one
goroutine and the supervisor's restart: every call is bounded by the request timeout,
so a running pass always takes its next step, and a ticker starts the next one. There is
none for the environment: no operator has to start a stopped service (so the
convergence properties are about services that are eventually not stopped), no
screenshot has to change and the clock need not move. In `Daemon` the loop, the clock and
the manager's start are weakly fair; `Return` is strongly fair, as Go's `select` picks one of the ready
cases at random and so does not take the tick for ever. In `Analysis` each goroutine
is weakly fair (a call ends by its timeout or its context), the caller need not cancel. In
`DetectCycle` a recursion nothing interrupts takes its next step. In `Commands` each process takes its next
step, as it is blocked by nothing but the lock; nothing has to be refused, nobody has to stop a daemon, so `CommandsEnd` allows to wait for one.

**Findings.** Each is a violation run.

- `claim_batch`: `AnalyzeBatch` ignores that `Acquire` failed and releases the token it
  did not get; in a cancelled batch the semaphore panics.
- `claim_discover`: the globs of a suggested project are said to cover everything found for it, but
  an extension in upper case is found and no glob matches it.
- `claim_surface`: the path `/` is said to replace the whole data model (`a2ui/messages.go:183-184`); `Decompile` writes the
  value to the member whose name is empty.

**Observations.** The code is like this by choice, its comments leave it open, or they are off in a
detail; no run is about them.

- A screenshot overwritten between hash and copy is stored under the wrong hash, for good (`blobstore.go:59`,
  `blobstore.go:82`); `BlobsAreImmutable` only says that what is stored stays.
- An INDEX written by a pass lists the views on disk, one written by a replay those in the journal, where
  `replay.go:261-263` speaks of byte-identical files.
- The heartbeat has its own goroutine, so a deadlocked loop alone is pinged for ever, though `notify.go:24-25` speaks of a
  restart; `daemon.go:124-126` says what the code does.
- With a watchdog budget of 100 ms or less the heartbeat comes too late (`notify.go:111`), and with one that half of it and the deadlines of
  a ping exceed, it may. A failed ping is only logged (`daemon.go:149`): the next one is due as the budget ends, so one failure may cost a restart.
- A cancellation after the last view of a project ends its pass without an error and with the INDEX as it was (`pipeline.go:236`).
- Two projects whose names `sanitizeName` makes equal share one reviews directory (`writer.go:118`).
- A view is counted as Pending also when its review was recorded and only its file could not be written:
  it does not "stay NeedsReview" (`pipeline.go:41-43`), and no later pass writes the file; a replay does.
- A capture whose review failed is journaled again by each retry (`pipeline.go:261`),
  so `Captures` counts attempts, where `events.go:17-18` speaks of new captures.
- A change whose automatic comparison failed is reviewed and never compared (`pipeline.go:213`): the
  next pass compares nothing with itself.
- The overrun of the first pass is reported (`daemon.go:166`) although the ticker does not exist yet and no tick is dropped (`daemon.go:104`).
- A probe that fails because the context ended counts as an unhealthy endpoint (`health.go:157`).
- A property of a component named like a structural key (`child`) becomes a reference when the message is
  read back (`a2ui/component.go:61`), so a spec that compiles may arrive as a surface that does not validate;
  `WireKeepsMeaning` is about the others. The removal of a whole data model does not survive the wire either:
  it arrives as a null, which `Decompile` refuses (`a2ui/messages.go:229`).
- `Decompile` compares no surface ids (`a2ui/decompile.go:82`): only of a stream that validates is its result about one
  surface. It takes over values as they are (`a2ui/decompile.go:165`), so later writes change
  the caller's message, and decompiling the same messages again may differ. The model's copies do not share.
- The validator accepts a `ChildList` with both shapes set (`a2ui/validate.go:283`); the cycle search follows its static one.
- `README.md:175` pipes `discover` into the configuration file, but it prints the `projects` object only, which does not load
  as a configuration. A directory without images yields a project without globs, and a
  relative root relative ones; neither loads. Directories that differ in case only share a project. A directory's
  name becomes a pattern (`discover.go:227`): no suggested glob matches what is in `app[1]`, and that of `a*` takes the images of `app`, too.
- Two files that differ in their last extension only, or in a second one (`login.v1.png`, `login.v2.png`), are one view, of which a scan captures the newest
  (`scan.go:30-33`); a file named `.png` is counted by `discover` and never captured.
- `dataDir` and `reviewsDir` may stay relative (`config.go:400` says all paths are absolute); the syntax of globs is
  not checked at load (`health.go:223`); a negative `probeTimeout` is accepted, and dropped when it is
  written back; `"retry": {}` waits the SDK's 500 ms and not the daemon's 2 s.
- Jitter comes after the cap, so a delay may be a quarter above `MaxBackoff` (`retry.go:33`, `retry.go:97`).
- A backup that fails has already emptied an older OUT (`commands.go:399`), and `-wait 0` waits for ever.
- A doctor hangs when a daemon starts between its probe of the lock and `OpenStore` (`commands.go:707`), although
  a held journal is "skipped, not failed" (`commands.go:694`); two doctors share one probe file and one of them may fail for it.
- A deadline below the provider's own errors is classified as a timeout, "Transient" (`model.go:48`), but not retried, as
  `WithRetry` asks the raw error (`retry.go:133`). The same goes for statuses on which kind and library disagree.
- Whether anybody watches changes a typed stream's result (`structured.go:157`): partial objects are only
  decoded for a callback, and the final one is decoded over the last of them. A stream that ends without a
  final object returns the last partial one, or without a callback an empty one, as a success.
- A temperature of 0 is valid and never sent (`vision.go:564`).

## The proofs

For all values of the constants, from `ConstantsAssumption`, `PipelineAssumption`,
`ReplayAssumption`, `DaemonAssumption`, `AnalysisAssumption`, `RequestsAssumption`, `CommandsAssumption`, `ComponentsAssumption`, `ListsAssumption`,
`SurfaceAssumption`, `MessagesAssumption`, `ConfigAssumption` and `SetupAssumption` only, which TLC evaluates in the runs. They say what a constant is: projects, keys,
minutes and settings are numbers, there are finitely many keys and images, the unknown score is a score, the empty hash is
not a content, no result is not a kind of result, limits and attempts are positive (one without retries), the
interval and the smallest heartbeat period are positive and the watchdog's budget holds a period and the deadline of a ping, which
is no longer than a period,
there is at least one process, a missing file is neither a process nor a command, a file nor content that is there,
the empty string is no id, a searched list has a root, a key stands for a number as an index, a relative path is none that starts with "/", what an author
sends or compiles is made of components, trees and lists, what is missing, null or unparsable is told apart from what a member can
hold, documents and trees are made of texts, files have times up to a last one, a home directory is an absolute path, and the root of a walk is not given by a "~" (a
shell expands it) and, if absolute, is the one path `AbsRoot`.

`Journal_proofs`, first part, the journal: type correctness, and that the folded state says what the journal says (`FoldCorrect`: the
current capture, whether it waits for a review, the trend), for any caller and streams of any length, by induction over record
calls (`RecordEffect`). That `NeedsReview` means what it should is not inductive: a state without an
open review must remember which review settled it (`SettledInJournal`), until a capture makes it forget.

Second part, the history: its four promises, for any number of views,
contents and scores. None is inductive alone: that a review judges the latest capture
needs the fold to name that capture and needs to know what can stand between them.
`LifecycleInv` adds `CurrentIsLatestCapture` and `ComparisonFollowsCapture` (a comparison
stands right behind its AFTER), and every step of the specification is shown to be
a record of an event `Allowed` at that point (`LifecycleRecords`), which keeps each part
(`Keeps...`).

Third part, the passes: they implement the history (`Refinement`), and so inherit its
promises; blobs exist before the journal names them and never change; files show only
journaled verdicts, and all of them while nothing fails; a project without an error is complete, its INDEX unless the context is done; the fold a
pass decides by is right; every variable keeps its type. `PipelineInv` is what makes this inductive: between two steps
of a pass the locals (`before`, `sha`, `key`) still match the journal, as the pass is its only writer; the
event a write is about is still the last of its stream; the blob is there before the
record. One lemma for each group of actions keeps each part of it. That a clean project is complete
rests on `DoneViewsComplete`: without an error so far, the views that are done with are complete, and the view at
hand is from the moment its review is recorded.

Fourth part, replays and manual comparisons: a replay without errors rebuilds the reviews directory, of any journal (`OpenSpec` lets another caller
of the exported store record what it likes while nobody holds the journal, reviews without a capture
included). With the disk in order it reports an error exactly when an event does not decode, a review has no capture before it or an id is no view's, and
shows everything else all the same. `ReplayInv` says, at every event, what the
prefix read so far determines: the fold and the last capture of each stream (`FoldedSoFar`), that each file
shows the last event of the prefix that can be rendered or a write has failed, and what is untouched. That a replay
changes nothing needs the other direction, without a foreign caller: whenever nobody is at work, each file shows the last
verdict of its view (`FilesCurrent`, true of a pass only because the capture it ingested is still the latest when the
verdict comes, `HistoryInv`), so rewriting it in the order of the journal ends where it began. Blobs under manual comparisons
next to passes: `BlobsInv` adds the hashes a record to come will refer to (`ViewsHaveBlobs`, `HeldBlobs`).

`Commands_proofs`: a backup's OUT and a doctor's verdict, for any number of processes. `LockInv` is who has the journal open.
`SnapshotInv`: every backup between emptying OUT and its end is still `owed`; while one has copied the first page but not the rest,
OUT's first page is of the journal as it is (a reader's lock keeps recorders out) or another one that is owed
has yet to copy both; and when all that are owed have copied, OUT is whole. `DoctorInv`: a fault found in the journal is
damage or was a refused access (`refused`), and a doctor that met a damaged journal alone (`calm`) is at a place from which it cannot end well.

`Daemon_proofs`: passes keep their distance and only a process is killed that stood still or had a ping fail, for any interval,
budget, deadline and length of passes. `TickInv`: a tick that waits fired after the last pass had taken the one
before, so the pass before that started an interval ago. `BeatInv`: while nothing stood still and no ping failed since one arrived, the
next heartbeat is due within a period of that arrival, and the ping under way ends within its deadline after that.

`DetectCycle_proofs`: the verdict of the cycle search is right, for component lists of any length
and with any other issue, and the path it reports exists. `SearchInv`: the trail is a path from root
with no component twice, holding exactly the components being visited; a loop has passed only finished components,
so a finished component refers to finished ones only, and no set of finished components refers to itself all
round (`Endless`). When root is finished, what is reachable is finished: the verdict "acyclic" is
right. When a reference leads back into the trail, the rest of the trail is a cycle.

`Surface_proofs`: all four promises, for any messages and specs and streams of any length. A stream that validates and
decompiles is about one surface, though `Decompile` never looks: one `createSurface` opens one surface, and every other
message needs an open one (`OneSurfaceInv`: before a surface is created nothing is open, and then only that one, as long as
neither reader objects). The last write wins by two facts of one message (`AppliedShows`): the model shows it, and is spared
(`Spares`) where its place neither is above nor below, with the arrays it goes through; so what stands stays shown and its path still leads there (`DataInv`).
This rests on lemmas about paths, the places they lead to and trees (`PrefixOrder`, `PlaceMeaning`, `OnePlace`, `SetMeaning`, `RemoveMeaning`). The edit loop closes since a valid list
stays valid when its members keep ids, verdicts and references (`StaysValid`, whose hard part is that fewer references make no
cycle), which decompiling and compiling do (`CompiledInv`), and since the two or three messages of a compiled stream are
followed to the end (`EditorInv`). A client is compared with an author who is gone: `RunInv` says there is a run of readers that
ends in the author's state, and `ClientInv` that the client's run mirrors it (`Mirrors`): its data is the author's made general, as a message
that is valid and `Plain` does to both the same (`ReceivedAlike`, from `PlainComponent` and from what writing and removing general values comes to,
`GenericSet`, `GenericRemove`). The client may go on where the author failed, but only at a value of another Go type. A dynamic
component loses its static children on the wire, and `Decompile` refuses it either way.

`Analysis_proofs`: the limit holds as every token taken has one holder, awake or not (`TokenInv`:
the number of holders equals `cur`, and nobody waits while a token is free), until the batch
is cancelled, where the code breaks it; a dead
request begins at most one call since the loop looks at the context
before each (`CallInv`); hooks follow the place of a request and the tracker counts those answered (`HookInv`).

`Requests_proofs`: attempts and what is told about them are right, for any number of attempts, parts and messages. A running
call's slice ends before anything the conversation can still write (`HistoryInv`), so its retries send what the first attempt
sent; a cached agent has the current settings (`SettingsInv`); a failure that is not
returned has an attempt to come (`RetryInv`); hooks, text and object follow the place of the request (`HookInv`,
`TextInv`, `ObjectInv`).

`Setup_proofs`: what was loaded runs alike once it is written back, for any documents, and every screenshot under a telling name that is no pattern and that
no other directory's name matches has one project, which captures it or a newer one of its view, for any tree. `IsLoaded` is what `LoadConfig` keeps of any document: its types, `Validate`, and no path with a "~". Such a configuration is a fixed
point of encoding, decoding and expansion, all but a probe timeout that stood for none (`LoadedAgain`), which makes the same gate.
For the screenshots `SetupInv` remembers that pasted projects are `DiscoverProjects` of screenshots that are still there, through
edits of other members and through saving (`PastedInv`, by the fixed point again). If they load, the root was given by its
absolute path, and since a prefix cancels (`ConcatCancels`) and a plain name is read as itself (`ReadByItself`) a glob that finds such a screenshot is one of
its own directory's, which has one owner. That the newest of its view is captured rests on there being a greatest time (`Greatest`, `LatestIsNewest`).

Model-checked only: liveness, also that the cycle search ends (out of the prover's reach).

## Plan

Done: the journal, the passes and their refinement, replay and manual comparison, the loop with
gate and watchdog, the commands around the journal file, configuration and discovery, batches and requests of the SDK,
A2UI validation, compile and decompile, the proofs above. Next, in order:

1. `ViewKeys`: parsing against rendering of stream addresses and file names, configured
   names and their collisions (`viewkey.go`, `replay.go`, `writer.go`).
2. `CatalogSync`: cached sync against failing fetches; Generate's merge of a model reply into a spec (`a2ui/generate.go`).
3. Proofs about the two modules above, as they come.

## Not modelled

Parsing of names and rendering of markdown: pure functions over names and texts. Image
decoding and resizing: pixel arithmetic. The `vision` command and the examples: flags and
printing around one call of the agent. Prompt wording, schemas, tools: handed to the model library unchanged. Power loss.
