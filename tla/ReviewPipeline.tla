--------------------------- MODULE ReviewPipeline ---------------------------
(***************************************************************************)
(* Review passes of visionreviewd (internal/reviewd/pipeline.go), step by  *)
(* step over the screenshots on disk, the blob store, the journal and the  *)
(* reviews directory, while screenshots are overwritten, calls and writes  *)
(* fail, the service is cancelled between any two steps, and the process   *)
(* crashes and restarts.                                                   *)
(*                                                                         *)
(* Each action ends at a point where something outside the pass can        *)
(* interfere: a read of a screenshot, a write of a blob, a record or a     *)
(* markdown file, a model call.  The model call and the record of its      *)
(* verdict are one action (nothing shared is touched between them, and     *)
(* either failing has the same effect).                                    *)
(***************************************************************************)
EXTENDS ViewLifecycle, FiniteSets

CONSTANTS
    None,         \* an absent file, blob, row or local variable
    MaxEdits,     \* bound on overwrites of screenshots
    MaxFailures,  \* bound on failed calls and writes of a live service
    MaxCancels,   \* bound on cancellations
    MaxCrashes    \* bound on crashes

ASSUME PipelineAssumption ==
    /\ None \notin Contents \cup Projects \cup Keys
    /\ None \notin [captured : Contents, sha : Contents, score : Scores]
    /\ IsFiniteSet(Keys)
    /\ {MaxEdits, MaxFailures, MaxCancels, MaxCrashes} \subseteq Nat

VARIABLES
    \* the disk, which outlives the process
    files,        \* files[s]: newest screenshot of view s, or None
    blobs,        \* blobs[sha]: content of the blob stored under sha, or None
    reviews,      \* reviews[s]: what the review file of view s shows, or None
    comparisons,  \* comparisons[s][at]: what that comparison file shows, or None
    index,        \* index[p]: rows of the project's INDEX by view key, or None
    \* one pass: control, context, and the locals of Pass and passProject
    pc, ctxDone, queue, project, scan, todo, key, before, sha, errs, result,
    \* the environment
    minute, edits, failures, cancels, crashes

diskVars == <<files, blobs, reviews, comparisons, index>>
iterVars == <<key, before, sha>>
projectVars == <<queue, project, scan>>
envVars == <<minute, edits, cancels, crashes>>
vars == <<journalVars, diskVars, pc, ctxDone, projectVars, todo, iterVars, errs,
          result, envVars, failures>>

\* the view being processed, and the event just recorded for it
current == <<project, key>>
lastEvent == journal[current][Len(journal[current])]

EmptyResult == [Projects |-> 0, Views |-> 0, Captured |-> 0, Skipped |-> 0,
                Reviewed |-> 0, Compared |-> 0, Pending |-> 0]

\* What a view's review file and a comparison file show of the events they
\* are rendered from, and an INDEX row of the folded state.
RenderViewReview(captured, review) ==
    [captured |-> captured, sha |-> review.sha, score |-> review.score]
RenderComparison(compared) == [before |-> compared.before, after |-> compared.after]
IndexRow(state) == [Score |-> state.LastScore, Previous |-> state.PrevScore]

SmallestOf(S) == CHOOSE x \in S : \A y \in S : x <= y

Init ==
    /\ JournalInit
    /\ files \in [Streams -> Contents \cup {None}]
    /\ blobs = [c \in Contents |-> None]
    /\ reviews = [s \in Streams |-> None]
    /\ comparisons = [s \in Streams |-> [at \in Minutes |-> None]]
    /\ index = [p \in Projects |-> None]
    /\ pc = "idle" /\ ctxDone = FALSE
    /\ queue = {} /\ project = None /\ scan = <<>> /\ todo = {}
    /\ key = None /\ before = initialViewState /\ sha = NoSHA
    /\ errs = FALSE /\ result = EmptyResult
    /\ minute \in Minutes
    /\ edits = 0 /\ failures = 0 /\ cancels = 0 /\ crashes = 0

-----------------------------------------------------------------------------
\* A write or read that fails, and a call that fails by itself or because the
\* service was cancelled under it.
DiskFault == failures < MaxFailures /\ failures' = failures + 1
CallFault == DiskFault \/ (ctxDone /\ UNCHANGED failures)

\* Pass: the blob store takes a write, so the projects are processed in order.
StartPass ==
    /\ pc = "idle" /\ ~ctxDone
    /\ pc' = "scan"
    /\ queue' = Projects
    /\ result' = EmptyResult
    /\ UNCHANGED <<journalVars, diskVars, ctxDone, project, scan, todo, iterVars,
                   errs, envVars, failures>>

\* Pass: CheckWritable fails and the pass aborts with zero work.
AbortPass ==
    /\ pc = "idle" /\ ~ctxDone
    /\ DiskFault
    /\ result' = EmptyResult
    /\ UNCHANGED <<journalVars, diskVars, pc, ctxDone, projectVars, todo, iterVars,
                   errs, envVars>>

\* Pass: scan the next project.  A scan failure hides the captures it hits and
\* no others; a project without captures is left as it is, its INDEX included.
ScanProject ==
    /\ pc = "scan" /\ ~ctxDone /\ queue # {}
    /\ LET p == SmallestOf(queue)
           present == {k \in Keys : files[<<p, k>>] # None}
       IN  \E found \in SUBSET present :
            /\ found # present => DiskFault
            /\ found = present => UNCHANGED failures
            /\ queue' = queue \ {p}
            /\ IF found = {}
               THEN /\ result' = [result EXCEPT !.Projects = @ + 1]
                    /\ UNCHANGED <<pc, project, scan, todo, errs>>
               ELSE /\ pc' = "view"
                    /\ project' = p
                    /\ scan' = [k \in found |-> files[<<p, k>>]]
                    /\ todo' = found
                    /\ errs' = FALSE
                    /\ result' = [result EXCEPT !.Projects = @ + 1,
                                                !.Views = @ + Cardinality(found)]
    /\ UNCHANGED <<journalVars, diskVars, ctxDone, iterVars, envVars>>

\* Pass: every project is processed, or the context is done.
EndPass ==
    /\ pc = "scan" /\ (queue = {} \/ ctxDone)
    /\ pc' = "idle"
    /\ queue' = {} /\ project' = None /\ scan' = <<>> /\ errs' = FALSE
    /\ UNCHANGED <<journalVars, diskVars, ctxDone, todo, iterVars, result,
                   envVars, failures>>

-----------------------------------------------------------------------------
(* passProject: one iteration per scanned view, in key order. *)

NextKey == SmallestOf(todo)

\* (mutant) skip on the hash of the capture alone
AlreadyCaptured(state, capture) == state.Captures > 0 /\ state.SHA256 = capture

\* skip only when this very capture was already reviewed
AlreadyReviewed(state, capture) ==
    state.Captures > 0 /\ state.SHA256 = capture /\ ~NeedsReview(state)

AtNextView == pc = "view" /\ ~ctxDone /\ todo # {}

SkipView ==
    /\ AtNextView /\ Readable(<<project, NextKey>>)
    /\ AlreadyReviewed(view[<<project, NextKey>>], scan[NextKey])
    /\ todo' = todo \ {NextKey}
    /\ result' = [result EXCEPT !.Skipped = @ + 1]
    /\ UNCHANGED <<journalVars, diskVars, pc, ctxDone, projectVars, iterVars, errs,
                   envVars, failures>>

\* The read fails, or the stream holds a row that does not decode.
LoadFails ==
    /\ AtNextView
    /\ CallFault \/ (~Readable(<<project, NextKey>>) /\ UNCHANGED failures)
    /\ todo' = todo \ {NextKey}
    /\ errs' = TRUE
    /\ UNCHANGED <<journalVars, diskVars, pc, ctxDone, projectVars, iterVars, result,
                   envVars>>

BeginView ==
    /\ AtNextView /\ Readable(<<project, NextKey>>)
    /\ ~AlreadyReviewed(view[<<project, NextKey>>], scan[NextKey])
    /\ pc' = "hash"
    /\ todo' = todo \ {NextKey}
    /\ key' = NextKey
    /\ before' = view[<<project, NextKey>>]
    /\ UNCHANGED <<journalVars, diskVars, ctxDone, projectVars, sha, errs, result,
                   envVars, failures>>

\* The iteration ends and its locals go out of scope.
EndIteration ==
    /\ pc' = "view"
    /\ key' = None /\ before' = initialViewState /\ sha' = NoSHA

\* (mutant) the copy is made whether or not the blob exists
HashAndCopy ==
    /\ pc = "hash"
    /\ files[current] # None
    /\ sha' = files[current]
    /\ pc' = "copy"
    /\ UNCHANGED <<journalVars, diskVars, ctxDone, projectVars, todo, key, before, errs,
                   result, envVars, failures>>

\* ingest / BlobStore.Store: hash the screenshot as it is now (not as it was
\* scanned); a blob already under that hash is taken as it is.
HashCapture ==
    /\ pc = "hash"
    /\ files[current] # None
    /\ sha' = files[current]
    /\ pc' = IF blobs[sha'] # None THEN "record" ELSE "copy"
    /\ UNCHANGED <<journalVars, diskVars, ctxDone, projectVars, todo, key, before, errs,
                   result, envVars, failures>>

\* BlobStore.Store / copyFileAtomic: read the screenshot a second time and
\* rename the copy into place under the hash of the first read.
CopyBlob ==
    /\ pc = "copy"
    /\ files[current] # None
    /\ blobs' = [blobs EXCEPT ![sha] = files[current]]
    /\ pc' = "record"
    /\ UNCHANGED <<journalVars, files, reviews, comparisons, index, ctxDone, projectVars,
                   todo, iterVars, errs, result, envVars, failures>>

\* ingest: the screenshot is gone, or a read, the copy or the record fails.
IngestFails ==
    /\ \/ pc \in {"hash", "copy"} /\ files[current] = None /\ UNCHANGED failures
       \/ pc \in {"hash", "copy"} /\ DiskFault
       \/ pc = "record" /\ CallFault
    /\ errs' = TRUE
    /\ EndIteration
    /\ UNCHANGED <<journalVars, diskVars, ctxDone, projectVars, todo, result, envVars>>

\* the capture follows a different one, whose blob can be compared with it
Changed(state, ingested) == state.SHA256 # NoSHA /\ state.SHA256 # ingested

RecordCaptured ==
    /\ pc = "record"
    /\ RecordCapture(current, sha)
    /\ result' = [result EXCEPT !.Captured = @ + 1]
    /\ pc' = IF Changed(before, sha) THEN "compare" ELSE "review"
    /\ UNCHANGED <<diskVars, ctxDone, projectVars, todo, iterVars, errs, envVars, failures>>

-----------------------------------------------------------------------------
(* autoCompare and review of the ingested capture. *)

\* (mutant) before and after are swapped
CompareSwapped ==
    /\ pc = "compare"
    /\ RecordComparison(current, sha, before.SHA256, minute)
    /\ pc' = "writeCompare"
    /\ UNCHANGED <<diskVars, ctxDone, projectVars, todo, iterVars, errs, result, envVars,
                   failures>>

\* the model judges the pair and the comparison is recorded
AutoCompare ==
    /\ pc = "compare"
    /\ RecordComparison(current, before.SHA256, sha, minute)
    /\ pc' = "writeCompare"
    /\ UNCHANGED <<diskVars, ctxDone, projectVars, todo, iterVars, errs, result, envVars,
                   failures>>

\* The comparison file of this view and minute is written, over an earlier one.
WriteComparison ==
    /\ pc = "writeCompare"
    /\ comparisons' = [comparisons EXCEPT ![current][lastEvent.at] =
                                              RenderComparison(lastEvent)]
    /\ result' = [result EXCEPT !.Compared = @ + 1]
    /\ pc' = "review"
    /\ UNCHANGED <<journalVars, files, blobs, reviews, index, ctxDone, projectVars, todo,
                   iterVars, errs, envVars, failures>>

\* The model, the record or the write fails; the review continues.
CompareFails ==
    /\ \/ pc = "compare" /\ CallFault
       \/ pc = "writeCompare" /\ DiskFault
    /\ errs' = TRUE
    /\ pc' = "review"
    /\ UNCHANGED <<journalVars, diskVars, ctxDone, projectVars, todo, iterVars, result,
                   envVars>>

\* (mutant) the review is recorded under the hash of the scan
ReviewScannedHash ==
    /\ pc = "review"
    /\ \E score \in Scores : RecordReview(current, scan[key], score)
    /\ pc' = "writeReview"
    /\ UNCHANGED <<diskVars, ctxDone, projectVars, todo, iterVars, errs, result, envVars,
                   failures>>

\* (mutant) the file is written before the review is recorded
WriteBeforeRecord ==
    /\ pc = "review"
    /\ \E score \in Scores :
          reviews' = [reviews EXCEPT ![current] = RenderViewReview(sha, Reviewed(sha, score))]
    /\ pc' = "writeReview"
    /\ UNCHANGED <<journalVars, files, blobs, comparisons, index, ctxDone, projectVars,
                   todo, iterVars, errs, result, envVars, failures>>

\* the model judges the capture and the review is recorded
ReviewCapture ==
    /\ pc = "review"
    /\ \E score \in Scores : RecordReview(current, sha, score)
    /\ pc' = "writeReview"
    /\ UNCHANGED <<diskVars, ctxDone, projectVars, todo, iterVars, errs, result, envVars,
                   failures>>

\* (mutant) a done context skips the write
WriteUnlessDone ==
    /\ pc = "writeReview"
    /\ reviews' = IF ctxDone THEN reviews
                  ELSE [reviews EXCEPT ![current] = RenderViewReview(sha, lastEvent)]
    /\ result' = [result EXCEPT !.Reviewed = @ + 1]
    /\ EndIteration
    /\ UNCHANGED <<journalVars, files, blobs, comparisons, index, ctxDone, projectVars,
                   todo, errs, envVars, failures>>

WriteViewReview ==
    /\ pc = "writeReview"
    /\ reviews' = [reviews EXCEPT ![current] = RenderViewReview(sha, lastEvent)]
    /\ result' = [result EXCEPT !.Reviewed = @ + 1]
    /\ EndIteration
    /\ UNCHANGED <<journalVars, files, blobs, comparisons, index, ctxDone, projectVars,
                   todo, errs, envVars, failures>>

\* The model, the record or the write fails: the view counts as Pending.
ReviewFails ==
    /\ \/ pc = "review" /\ CallFault
       \/ pc = "writeReview" /\ DiskFault
    /\ errs' = TRUE
    /\ result' = [result EXCEPT !.Pending = @ + 1]
    /\ EndIteration
    /\ UNCHANGED <<journalVars, diskVars, ctxDone, projectVars, todo, envVars>>

\* (mutant) the INDEX is only rewritten by a pass that reviewed something
RefreshIndexAfterReview ==
    /\ pc = "view" /\ todo = {} /\ ~ctxDone
    /\ index' = IF result.Reviewed = 0 THEN index
                ELSE [index EXCEPT ![project] =
                         [k \in DOMAIN scan |-> IndexRow(view[<<project, k>>])]]
    /\ pc' = "scan"
    /\ UNCHANGED <<journalVars, files, blobs, reviews, comparisons, ctxDone, projectVars,
                   todo, iterVars, errs, result, envVars, failures>>

ScanReadable == \A k \in DOMAIN scan : Readable(<<project, k>>)

\* refreshIndex: the INDEX lists every scanned view's folded state.
RefreshIndex ==
    /\ pc = "view" /\ todo = {} /\ ~ctxDone
    /\ ScanReadable
    /\ index' = [index EXCEPT ![project] =
                    [k \in DOMAIN scan |-> IndexRow(view[<<project, k>>])]]
    /\ pc' = "scan"
    /\ UNCHANGED <<journalVars, files, blobs, reviews, comparisons, ctxDone, projectVars,
                   todo, iterVars, errs, result, envVars, failures>>

RefreshIndexFails ==
    /\ pc = "view" /\ todo = {}
    /\ CallFault \/ (~ctxDone /\ ~ScanReadable /\ UNCHANGED failures)
    /\ errs' = TRUE
    /\ pc' = "scan"
    /\ UNCHANGED <<journalVars, diskVars, ctxDone, projectVars, todo, iterVars, result,
                   envVars>>

\* (mutant) the remaining views of a cut short project are kept
CutShortKeepsViews ==
    /\ pc = "view" /\ ctxDone
    /\ errs' = (errs \/ todo # {})
    /\ pc' = "scan"
    /\ UNCHANGED <<journalVars, diskVars, ctxDone, projectVars, todo, iterVars, result,
                   envVars, failures>>

\* (mutant) the views left by a done context are no error
CutShortSilently ==
    /\ pc = "view" /\ ctxDone
    /\ todo' = {}
    /\ pc' = "scan"
    /\ UNCHANGED <<journalVars, diskVars, ctxDone, projectVars, iterVars, errs, result,
                   envVars, failures>>

\* passProject: a done context ends the loop and skips the INDEX refresh.
CutShort ==
    /\ pc = "view" /\ ctxDone
    /\ errs' = (errs \/ todo # {})
    /\ todo' = {}
    /\ pc' = "scan"
    /\ UNCHANGED <<journalVars, diskVars, ctxDone, projectVars, iterVars, result, envVars,
                   failures>>

-----------------------------------------------------------------------------
(* The service and its environment. *)

\* Daemon.Run returns once the context is done and no pass runs.
Stop ==
    /\ pc = "idle" /\ ctxDone
    /\ pc' = "stopped"
    /\ ctxDone' = FALSE
    /\ UNCHANGED <<journalVars, diskVars, projectVars, todo, iterVars, errs, result,
                   envVars, failures>>

\* The supervisor restarts a crashed service; an operator starts a stopped one.
Restart(from) ==
    /\ pc = from
    /\ pc' = "idle"
    /\ UNCHANGED <<journalVars, diskVars, ctxDone, projectVars, todo, iterVars, errs,
                   result, envVars, failures>>
Recover == Restart("crashed")
Start == Restart("stopped")

Running == pc \notin {"crashed", "stopped"}

\* SIGINT or SIGTERM: the context is done from now on.
Cancel ==
    /\ Running /\ ~ctxDone
    /\ cancels < MaxCancels /\ cancels' = cancels + 1
    /\ ctxDone' = TRUE
    /\ UNCHANGED <<journalVars, diskVars, pc, projectVars, todo, iterVars, errs, result,
                   minute, edits, failures, crashes>>

\* The process dies: its locals are gone, the disk stays.
Crash ==
    /\ Running
    /\ crashes < MaxCrashes /\ crashes' = crashes + 1
    /\ pc' = "crashed" /\ ctxDone' = FALSE
    /\ queue' = {} /\ project' = None /\ scan' = <<>> /\ todo' = {}
    /\ key' = None /\ before' = initialViewState /\ sha' = NoSHA
    /\ errs' = FALSE /\ result' = EmptyResult
    /\ UNCHANGED <<journalVars, diskVars, minute, edits, failures, cancels>>

\* A screenshot is taken, overwritten or removed by the project's own tools.
EditFile(s) ==
    /\ edits < MaxEdits /\ edits' = edits + 1
    /\ \E c \in (Contents \cup {None}) \ {files[s]} : files' = [files EXCEPT ![s] = c]
    /\ UNCHANGED <<journalVars, blobs, reviews, comparisons, index, pc, ctxDone,
                   projectVars, todo, iterVars, errs, result, minute, failures, cancels,
                   crashes>>

Tick ==
    /\ minute + 1 \in Minutes
    /\ minute' = minute + 1
    /\ UNCHANGED <<journalVars, diskVars, pc, ctxDone, projectVars, todo, iterVars, errs,
                   result, edits, failures, cancels, crashes>>

PassStep ==
    \/ StartPass \/ AbortPass \/ ScanProject \/ EndPass
    \/ SkipView \/ LoadFails \/ BeginView
    \/ HashCapture \/ CopyBlob \/ IngestFails \/ RecordCaptured
    \/ AutoCompare \/ WriteComparison \/ CompareFails
    \/ ReviewCapture \/ WriteViewReview \/ ReviewFails
    \/ RefreshIndex \/ RefreshIndexFails \/ CutShort
    \/ Stop \/ Recover

Environment == Start \/ Cancel \/ Crash \/ Tick \/ \E s \in Streams : EditFile(s)

Next == PassStep \/ Environment

Spec == Init /\ [][Next]_vars

\* The single goroutine of the service keeps running (every call it makes is
\* bounded by a timeout) and the supervisor restarts it after a crash; nothing
\* makes an operator start it, a screenshot change or the clock move.
FairSpec == Spec /\ WF_vars(PassStep)

-----------------------------------------------------------------------------
Steps == {"idle", "scan", "view", "hash", "copy", "record", "compare", "writeCompare",
          "review", "writeReview", "crashed", "stopped"}

InView == pc \in Steps \ {"idle", "scan", "view", "crashed", "stopped"}

DiskTypeOK ==
    /\ files \in [Streams -> Contents \cup {None}]
    /\ blobs \in [Contents -> Contents \cup {None}]
    /\ reviews \in [Streams -> [captured : Contents, sha : Contents, score : Scores]
                                \cup {None}]
    /\ comparisons \in [Streams -> [Minutes -> [before : Contents, after : Contents]
                                                \cup {None}]]
    /\ index \in [Projects -> {None} \cup
                     UNION {[K -> [Score : Scores, Previous : Scores]] : K \in SUBSET Keys}]

\* Between projects no view is left, between views the locals of the last one
\* are out of scope, and inside one they name a view.
PassTypeOK ==
    /\ pc \in Steps
    /\ ctxDone \in BOOLEAN
    /\ queue \subseteq Projects
    /\ scan \in UNION {[K -> Contents] : K \in SUBSET Keys}
    /\ IF pc \in {"idle", "scan", "crashed", "stopped"}
       THEN project \in Projects \cup {None} /\ todo = {}
       ELSE project \in Projects /\ todo \subseteq DOMAIN scan
    /\ IF InView
       THEN /\ key \in Keys
            /\ sha \in IF pc = "hash" THEN {NoSHA} ELSE Contents
       ELSE key = None /\ sha = NoSHA
    /\ before \in ViewState
    /\ errs \in BOOLEAN
    /\ result \in [DOMAIN EmptyResult -> Nat]

EnvTypeOK ==
    /\ minute \in Minutes
    /\ {edits, failures, cancels, crashes} \subseteq Nat

TypeOK == JournalTypeOK /\ DiskTypeOK /\ PassTypeOK /\ EnvTypeOK

\* The specification of the journal alone, which the passes implement.
Lifecycle == INSTANCE ViewLifecycle WITH journal <- journal, view <- view
ImplementsLifecycle == Lifecycle!LifecycleSpec

\* Every hash the journal names has its blob, at every moment and after every
\* crash: the blob is in place before the event that refers to it.
JournaledBlobsExist ==
    \A s \in Streams : \A i \in Positions(s) :
        /\ IsAt(s, i, "view.captured") => blobs[journal[s][i].sha] # None
        /\ IsAt(s, i, "view.compared") =>
              blobs[journal[s][i].before] # None /\ blobs[journal[s][i].after] # None

\* A blob keeps its content once it is stored, so a BEFORE image judged later is
\* the one that was archived: storing a hash again, in any project, never
\* replaces the blob.
BlobsAreImmutable ==
    [][\A c \in Contents : blobs[c] # None => blobs'[c] = blobs[c]]_vars

\* No file of the reviews directory shows a verdict the journal does not hold, so
\* a replay can produce each of them: the event is recorded before the file is
\* written, and a review is shown with the capture it judged.
FilesShowJournaledVerdicts ==
    \A s \in Streams :
        /\ reviews[s] # None =>
              /\ reviews[s].captured = reviews[s].sha
              /\ \E i \in Positions(s) :
                    journal[s][i] = Reviewed(reviews[s].sha, reviews[s].score)
        /\ \A at \in Minutes : comparisons[s][at] # None =>
              \E i \in Positions(s) :
                 journal[s][i] = Compared(comparisons[s][at].before,
                                          comparisons[s][at].after, at)

\* While no write failed and the process never crashed, a view's review file is
\* its last journaled review, except just before it is written; overwritten
\* screenshots and graceful shutdowns at any step never leave it behind.
ReviewFilesFollowJournal ==
    failures = 0 /\ crashes = 0 =>
        \A s \in Streams : \A i \in Positions(s) :
            IsLast(s, i, "view.reviewed") /\ ~(pc = "writeReview" /\ s = current) =>
                reviews[s] = RenderViewReview(journal[s][i].sha, journal[s][i])

\* passProject returning no error means that every scanned view has a capture
\* whose review is recorded, also when the context ended meanwhile: views that
\* are left are errors.  The INDEX then has exactly their current scores, unless
\* the context is done: one that ended after the last view skips the refresh
\* without an error, on purpose.
CleanProjectIsComplete ==
    pc = "scan" /\ project # None /\ ~errs =>
        /\ \A k \in DOMAIN scan : view[<<project, k>>].Captures > 0
                                  /\ ~NeedsReview(view[<<project, k>>])
        /\ ~ctxDone => index[project] = [k \in DOMAIN scan |-> IndexRow(view[<<project, k>>])]

\* Once the screenshots and the faults settle, a service that is not stopped has
\* every present screenshot captured and reviewed, for good.
EveryScreenshotReviewed ==
    <>[](pc # "stopped") =>
        <>[](\A s \in Streams : files[s] # None =>
                view[s].SHA256 = files[s] /\ ~NeedsReview(view[s]))

\* ... and every INDEX of a project with screenshots lists exactly those views
\* with their current scores: a failed or skipped refresh is made up for.
IndexConverges ==
    <>[](pc # "stopped") =>
        <>[](\A p \in Projects :
                LET present == {k \in Keys : files[<<p, k>>] # None} IN
                present # {} =>
                    index[p] = [k \in present |-> IndexRow(view[<<p, k>>])])
=============================================================================
