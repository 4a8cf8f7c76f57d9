--------------------------- MODULE ViewLifecycle ---------------------------
(***************************************************************************)
(* What review passes promise about the journal, with none of the pass in  *)
(* it: the abstract specification ReviewPipeline implements.  In every     *)
(* stream a review judges the latest capture and nothing else, a capture   *)
(* gets at most one comparison and at most one review, in that order, and  *)
(* a comparison is between the latest capture and the one before it.       *)
(***************************************************************************)
EXTENDS ViewJournal

\* i and j hold consecutive captures of stream s.
Consecutive(s, i, j) ==
    /\ IsAt(s, i, "view.captured")
    /\ IsAt(s, j, "view.captured")
    /\ i < j
    /\ \A k \in (i + 1)..(j - 1) : ~IsAt(s, k, "view.captured")

\* A screenshot is archived: always possible.
Capture(s) == \E sha \in Contents : RecordCapture(s, sha)

\* The latest capture, straight after it was recorded, is compared with its
\* predecessor when their contents differ.
Compare(s) ==
    LET n == Len(journal[s]) IN
    \E i \in Positions(s), at \in Minutes :
        /\ Consecutive(s, i, n)
        /\ journal[s][i].sha # journal[s][n].sha
        /\ RecordComparison(s, journal[s][i].sha, journal[s][n].sha, at)

\* The latest capture is reviewed, once.
Review(s) ==
    LET n == Len(journal[s]) IN
    /\ n > 0
    /\ journal[s][n].type \in {"view.captured", "view.compared"}
    /\ \E score \in Scores : RecordReview(s, view[s].SHA256, score)

LifecycleNext == \E s \in Streams : Capture(s) \/ Compare(s) \/ Review(s)

LifecycleSpec == JournalInit /\ [][LifecycleNext]_journalVars

-----------------------------------------------------------------------------
\* Every review in the journal is of the capture recorded last before it, so a
\* replay always finds the capture metadata to render it with and never stops
\* at ErrReviewWithoutCapture.
ReviewJudgesLatestCapture ==
    \A s \in Streams : \A i \in Positions(s) :
        IsAt(s, i, "view.reviewed") =>
            \E j \in 1..(i - 1) :
                /\ IsAt(s, j, "view.captured")
                /\ journal[s][j].sha = journal[s][i].sha
                /\ \A k \in (j + 1)..(i - 1) : ~IsAt(s, k, "view.captured")

\* One capture, one verdict: between two reviews of a view there is a capture,
\* whatever failed, was retried or crashed in between.
OneReviewPerCapture ==
    \A s \in Streams : \A i, j \in Positions(s) :
        IsAt(s, i, "view.reviewed") /\ IsAt(s, j, "view.reviewed") /\ i < j =>
            \E k \in (i + 1)..(j - 1) : IsAt(s, k, "view.captured")

\* A comparison is of the two captures recorded last before it, in that order,
\* and they differ: no BEFORE is skipped or taken from a retry of the AFTER.
ComparisonLinksConsecutiveCaptures ==
    \A s \in Streams : \A i \in Positions(s) :
        IsAt(s, i, "view.compared") =>
            /\ journal[s][i].before # journal[s][i].after
            /\ \E a, b \in 1..(i - 1) :
                  /\ Consecutive(s, b, a)
                  /\ \A k \in (a + 1)..(i - 1) : ~IsAt(s, k, "view.captured")
                  /\ journal[s][b].sha = journal[s][i].before
                  /\ journal[s][a].sha = journal[s][i].after

\* ReviewedSHA is empty or the hash of the current capture: NeedsReview is
\* exactly "no review since the latest capture".
ReviewedIsCurrent ==
    \A s \in Streams : view[s].ReviewedSHA \in {NoSHA, view[s].SHA256}

\* The journal tells a story a pass could have lived, in each of these ways,
\* through every retry, crash and change of the screenshot under it.
LegalHistory ==
    /\ ReviewJudgesLatestCapture
    /\ OneReviewPerCapture
    /\ ComparisonLinksConsecutiveCaptures
    /\ ReviewedIsCurrent
=============================================================================
