------------------------------- MODULE Replay -------------------------------
(***************************************************************************)
(* The commands that open the journal while the service does not hold it   *)
(* (internal/reviewd/replay.go and compare.go): replay, which rebuilds the *)
(* reviews directory from the events, and compare, which records a         *)
(* comparison of two files an operator picks.  They take turns with the    *)
(* service of ReviewPipeline: the journal is open in one process.          *)
(*                                                                         *)
(* A file belongs to one view, so only the order of the events of each     *)
(* stream matters to what a replay writes: the journal's order over all    *)
(* streams is any merge of them.                                           *)
(***************************************************************************)
EXTENDS ReviewPipeline

CONSTANTS
    MaxManual,  \* bound on manual comparisons
    MaxStrays   \* bound on the stray events of a journal

ASSUME ReplayAssumption == MaxStrays \in Nat

VARIABLES
    cmd,           \* where the command is, "off" when none runs
    read,          \* read[s]: events of stream s replayed so far
    fold,          \* fold[s]: replayStream.state
    lastCaptured,  \* lastCaptured[s]: hash of replayStream.lastCaptured
    strays,        \* events of view streams whose id is no address of a view
    strayRead,     \* strays replayed so far
    failed,        \* an error was joined
    pair,          \* hashes of the BEFORE and the AFTER of a manual comparison
    target,        \* the view it is of
    shown,         \* the reviews directory when the replay began (ghost)
    manuals        \* manual comparisons so far

dirVars == <<reviews, comparisons, index>>
replayVars == <<read, strayRead, fold, lastCaptured, failed, shown>>
manualVars == <<pair, target, manuals>>
\* the pass's own variables, at rest while a command runs
passVars == <<pc, ctxDone, projectVars, todo, iterVars, errs, result, envVars>>
allVars == <<vars, cmd, replayVars, manualVars, strays>>

NoPair == <<NoSHA, NoSHA>>

CommandsInit ==
    /\ cmd = "off" /\ failed = FALSE /\ shown = None
    /\ strays \in 0..MaxStrays /\ strayRead = 0
    /\ read = [s \in Streams |-> 0]
    /\ fold = [s \in Streams |-> initialViewState]
    /\ lastCaptured = [s \in Streams |-> NoSHA]
    /\ pair = NoPair /\ target = None /\ manuals = 0

\* The locals of a finished or dead command are gone.
Forget ==
    /\ cmd' = "off" /\ failed' = FALSE /\ shown' = None
    /\ read' = [s \in Streams |-> 0] /\ strayRead' = 0
    /\ fold' = [s \in Streams |-> initialViewState]
    /\ lastCaptured' = [s \in Streams |-> NoSHA]
    /\ pair' = NoPair /\ target' = None

-----------------------------------------------------------------------------
\* Replay: the events are read once, while no pass can record.
StartReplay ==
    /\ cmd = "off" /\ ~Running
    /\ cmd' = "events"
    /\ shown' = [reviews |-> reviews, comparisons |-> comparisons]
    /\ UNCHANGED <<vars, read, strayRead, fold, lastCaptured, failed, manualVars>>

\* The next event of stream s is folded first, and rendered from the fold; one
\* that does not decode leaves both as they were.  Streams of another type than
\* views are skipped, and not modelled.
NextEvent(s) == journal[s][read[s] + 1]
AtEvent(s) == cmd = "events" /\ read[s] < Len(journal[s])

Fold(s) ==
    /\ read' = [read EXCEPT ![s] = @ + 1]
    /\ fold' = [fold EXCEPT ![s] = ApplyViewState(@, NextEvent(s))]
    /\ lastCaptured' = [lastCaptured EXCEPT ![s] =
          IF NextEvent(s).type = "view.captured" THEN NextEvent(s).sha ELSE @]

\* a capture, or an event this binary does not know, renders nothing
ReplaySilently(s) ==
    /\ AtEvent(s)
    /\ NextEvent(s).type \in {"view.captured", "newer"}
    /\ Fold(s)
    /\ UNCHANGED <<vars, cmd, failed, shown, strayRead, manualVars>>

\* a payload that does not decode: the error is collected, the event skipped
ReplayGarbled(s) ==
    /\ AtEvent(s)
    /\ NextEvent(s).type = "garbled"
    /\ Fold(s)
    /\ failed' = TRUE
    /\ UNCHANGED <<vars, cmd, shown, strayRead, manualVars>>

\* so is the error of a stream id that does not parse; the stream gets no row
ReplayStray ==
    /\ cmd = "events" /\ strayRead < strays
    /\ strayRead' = strayRead + 1
    /\ failed' = TRUE
    /\ UNCHANGED <<vars, cmd, read, fold, lastCaptured, shown, manualVars>>

\* (mutant) the first review of a view stays
ReplayReviewOnce(s) ==
    /\ AtEvent(s)
    /\ NextEvent(s).type = "view.reviewed"
    /\ Fold(s)
    /\ fold'[s].Captures > 0
    /\ reviews' = IF fold[s].Reviews > 0 THEN reviews
                  ELSE [reviews EXCEPT ![s] = RenderViewReview(lastCaptured[s], NextEvent(s))]
    /\ UNCHANGED <<journalVars, files, blobs, comparisons, index, passVars, failures, cmd,
                   failed, shown, strayRead, manualVars>>

ReplayReview(s) ==
    /\ AtEvent(s)
    /\ NextEvent(s).type = "view.reviewed"
    /\ Fold(s)
    /\ fold'[s].Captures > 0
    /\ reviews' = [reviews EXCEPT ![s] = RenderViewReview(lastCaptured[s], NextEvent(s))]
    /\ UNCHANGED <<journalVars, files, blobs, comparisons, index, passVars, failures, cmd,
                   failed, shown, strayRead, manualVars>>

\* (mutant) the first error ends the replay
AbortOnOrphan(s) ==
    /\ AtEvent(s)
    /\ NextEvent(s).type = "view.reviewed"
    /\ Fold(s)
    /\ fold'[s].Captures = 0
    /\ failed' = TRUE /\ cmd' = "done"
    /\ UNCHANGED <<vars, shown, strayRead, manualVars>>

\* ErrReviewWithoutCapture is collected; the replay goes on
ReplayOrphan(s) ==
    /\ AtEvent(s)
    /\ NextEvent(s).type = "view.reviewed"
    /\ Fold(s)
    /\ fold'[s].Captures = 0
    /\ failed' = TRUE
    /\ UNCHANGED <<vars, cmd, shown, strayRead, manualVars>>

ReplayComparison(s) ==
    /\ AtEvent(s)
    /\ NextEvent(s).type = "view.compared"
    /\ Fold(s)
    /\ comparisons' = [comparisons EXCEPT ![s][NextEvent(s).at] =
                                              RenderComparison(NextEvent(s))]
    /\ UNCHANGED <<journalVars, files, blobs, reviews, index, passVars, failures, cmd,
                   failed, shown, strayRead, manualVars>>

\* a write fails: the error is collected, the fold has advanced
ReplayWriteFails(s) ==
    /\ AtEvent(s)
    /\ NextEvent(s).type \in {"view.reviewed", "view.compared"}
    /\ DiskFault
    /\ Fold(s)
    /\ NextEvent(s).type = "view.reviewed" => fold'[s].Captures > 0
    /\ failed' = TRUE
    /\ UNCHANGED <<journalVars, diskVars, passVars, cmd, shown, strayRead, manualVars>>

\* (mutant) views without a review have no row
ReplayReviewedIndex(p, of) ==
    [k \in {k \in Keys : of[<<p, k>>].Reviews > 0} |-> IndexRow(of[<<p, k>>])]

\* replayIndexes: every project with a stream gets an INDEX of all its streams,
\* but for the projects whose write fails.
ReplayIndex(p, of) ==
    [k \in {k \in Keys : read[<<p, k>>] > 0} |-> IndexRow(of[<<p, k>>])]

ReplayIndexes ==
    /\ cmd = "events" /\ strayRead = strays
    /\ \A s \in Streams : read[s] = Len(journal[s])
    /\ LET due == {p \in Projects : \E k \in Keys : read[<<p, k>>] > 0} IN
       \E written \in SUBSET due :
          /\ written # due => DiskFault
          /\ written = due => UNCHANGED failures
          /\ failed' = (failed \/ written # due)
          /\ index' = [p \in Projects |->
                          IF p \in written THEN ReplayIndex(p, fold) ELSE index[p]]
    /\ cmd' = "done"
    /\ UNCHANGED <<journalVars, files, blobs, reviews, comparisons, passVars, read, strayRead,
                   fold, lastCaptured, shown, manualVars>>

FinishReplay == cmd = "done" /\ Forget /\ UNCHANGED <<vars, manuals>>

-----------------------------------------------------------------------------
\* BlobStore.Store of one picked file, which can change between its two reads.
StoreFile(c) ==
    IF blobs[c] # None THEN UNCHANGED blobs
    ELSE \E copied \in Contents : blobs' = [blobs EXCEPT ![c] = copied]

\* CompareManually: both files are archived, BEFORE first.
StoreBefore ==
    /\ cmd = "off" /\ ~Running
    /\ manuals < MaxManual /\ manuals' = manuals + 1
    /\ \E s \in Streams, b \in Contents :
          target' = s /\ pair' = <<b, NoSHA>> /\ StoreFile(b)
    /\ cmd' = "storeAfter"
    /\ UNCHANGED <<journalVars, files, dirVars, passVars, failures, replayVars>>

\* (mutant) the AFTER is recorded without being archived
StoreBeforeOnly ==
    /\ cmd = "storeAfter"
    /\ \E a \in Contents : pair' = <<pair[1], a>>
    /\ cmd' = "judge"
    /\ UNCHANGED <<vars, replayVars, target, manuals>>

StoreAfter ==
    /\ cmd = "storeAfter"
    /\ \E a \in Contents : pair' = <<pair[1], a>> /\ StoreFile(a)
    /\ cmd' = "judge"
    /\ UNCHANGED <<journalVars, files, dirVars, passVars, failures, replayVars, target, manuals>>

RecordManual ==
    /\ cmd = "judge"
    /\ RecordComparison(target, pair[1], pair[2], minute)
    /\ cmd' = "write"
    /\ UNCHANGED <<diskVars, passVars, failures, replayVars, manualVars>>

\* The INDEX is left to the next pass or replay.
WriteManual ==
    /\ cmd = "write"
    /\ LET e == journal[target][Len(journal[target])] IN
       comparisons' = [comparisons EXCEPT ![target][e.at] = RenderComparison(e)]
    /\ Forget
    /\ UNCHANGED <<journalVars, files, blobs, reviews, index, passVars, failures, manuals>>

\* A step fails, or the view's stream holds a row that does not decode.
ManualFails ==
    /\ \/ cmd \in {"storeAfter", "judge", "write"} /\ DiskFault
       \/ cmd = "judge" /\ ~Readable(target) /\ UNCHANGED failures
    /\ Forget
    /\ UNCHANGED <<journalVars, diskVars, passVars, manuals>>

-----------------------------------------------------------------------------
\* A command is interrupted.
Interrupt ==
    /\ cmd # "off"
    /\ crashes < MaxCrashes /\ crashes' = crashes + 1
    /\ Forget
    /\ UNCHANGED <<journalVars, diskVars, pc, ctxDone, projectVars, todo, iterVars, errs, result,
                   minute, edits, failures, cancels, manuals>>

\* An operator removes the reviews directory.
Wipe ==
    /\ cmd = "off" /\ ~Running
    /\ reviews' = [s \in Streams |-> None]
    /\ comparisons' = [s \in Streams |-> [at \in Minutes |-> None]]
    /\ index' = [p \in Projects |-> None]
    /\ UNCHANGED <<journalVars, files, blobs, passVars, failures, cmd, replayVars, manualVars>>

ReplayStep ==
    \/ \E s \in Streams : \/ ReplaySilently(s) \/ ReplayReview(s) \/ ReplayOrphan(s)
                          \/ ReplayComparison(s) \/ ReplayGarbled(s) \/ ReplayWriteFails(s)
    \/ ReplayStray \/ ReplayIndexes \/ FinishReplay

ManualStep == StoreBefore \/ StoreAfter \/ RecordManual \/ WriteManual \/ ManualFails

\* While a command holds the journal, the service cannot come up; screenshots
\* and time go on.
ServiceStep == Next /\ (cmd # "off" => pc' = pc) /\ UNCHANGED <<cmd, replayVars, manualVars>>

ServiceNext ==
    /\ ServiceStep \/ StartReplay \/ ReplayStep \/ ManualStep \/ Interrupt \/ Wipe
    /\ UNCHANGED strays

ServiceSpec == Init /\ CommandsInit /\ [][ServiceNext]_allVars

-----------------------------------------------------------------------------
\* i is the last review of the stream that a capture precedes: what a replay of
\* any journal shows for the view.
LastRenderable(s, i) ==
    /\ IsLast(s, i, "view.reviewed")
    /\ \E j \in 1..(i - 1) : IsAt(s, j, "view.captured")

\* i holds the last comparison of the stream and minute.
LastAtMinute(s, i, at) ==
    /\ IsAt(s, i, "view.compared") /\ journal[s][i].at = at
    /\ \A j \in Positions(s) :
          IsAt(s, j, "view.compared") /\ journal[s][j].at = at => j <= i

\* The directory shows, for every view, its last review with the capture before
\* it and its last comparison of each minute, and in every INDEX all of the
\* project's streams with their scores.
JournalIsShown ==
    /\ \A s \in Streams : \A i \in Positions(s) :
          /\ LastRenderable(s, i) =>
                \E j \in 1..(i - 1) :
                   /\ IsAt(s, j, "view.captured")
                   /\ \A k \in (j + 1)..(i - 1) : ~IsAt(s, k, "view.captured")
                   /\ reviews[s] = RenderViewReview(journal[s][j].sha, journal[s][i])
          /\ \A at \in Minutes : LastAtMinute(s, i, at) =>
                comparisons[s][at] = RenderComparison(journal[s][i])
    /\ \A p \in Projects :
          (\E k \in Keys : journal[<<p, k>>] # <<>>) =>
             index[p] = [k \in {k \in Keys : journal[<<p, k>>] # <<>>} |->
                            IndexRow(view[<<p, k>>])]

\* A replay without errors leaves a directory that shows the journal: whatever
\* was there, missing or stale before, also after an interrupted replay.
ReplayRebuilds == cmd = "done" /\ ~failed => JournalIsShown

\* What passes and manual comparisons wrote is what a replay writes: unless a
\* write failed, a process died or the directory was wiped, a replay changes no
\* review and no comparison.
ReplayChangesNothing ==
    cmd = "done" /\ failures = 0 /\ crashes = 0 =>
        \A s \in Streams :
            /\ shown.reviews[s] # None => reviews[s] = shown.reviews[s]
            /\ \A at \in Minutes : shown.comparisons[s][at] # None =>
                                      comparisons[s][at] = shown.comparisons[s][at]

\* An event a replay of any journal reports: its payload does not decode, or it
\* is a review with no capture, that decodes, before it.
Unrenderable(s, i) ==
    \/ IsAt(s, i, "garbled")
    \/ /\ IsAt(s, i, "view.reviewed")
       /\ \A j \in 1..(i - 1) : ~IsAt(s, j, "view.captured")

\* Errors are collected, not fatal: whatever journal is replayed, a replay whose
\* writes succeed leaves a directory that shows everything in it that decodes,
\* and it reports an error exactly when some event does not decode, is a review
\* without a capture or belongs to a stream that is no view's.
ReplayIsErrorTolerant ==
    cmd = "done" /\ failures = 0 =>
        /\ failed <=> \/ strays > 0
                      \/ \E s \in Streams : \E i \in Positions(s) : Unrenderable(s, i)
        /\ JournalIsShown
=============================================================================
