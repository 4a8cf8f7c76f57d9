---------------------------- MODULE ViewJournal ----------------------------
(***************************************************************************)
(* The event-sourced view history of internal/reviewd (store.go, events.go)*)
(* One stream per project and view key; a record call folds the stream,    *)
(* increments its version and appends one event; LoadView folds the stream *)
(* with ApplyViewState.                                                     *)
(*                                                                         *)
(* journal[s] is the stream of view s; an event's version is its position. *)
(* view[s] is the fold LoadView returns for a readable s, kept incrementally*)
(* (record appends exactly one event, so the fold advances by exactly one  *)
(* ApplyViewState).                                                        *)
(***************************************************************************)
EXTENDS Integers, Sequences

CONSTANTS
    Projects,   \* project names, numbered in the order a pass sorts them
    Keys,       \* view keys, numbered in the order a scan sorts them
    Contents,   \* screenshot contents; a content stands for its SHA-256
    Scores,     \* scores a model reply can carry
    Minutes,    \* comparison times, at the granularity of file names
    NoSHA       \* the empty hash string

ScoreUnknown == -1

ASSUME ConstantsAssumption ==
    /\ Projects \subseteq Nat
    /\ Keys \subseteq Nat
    /\ Minutes \subseteq Nat
    /\ Scores \subseteq Int
    /\ ScoreUnknown \in Scores
    /\ NoSHA \notin Contents

\* ViewStreamID: a stream is addressed by its project and its view key.
Streams == Projects \X Keys

Captured(sha) == [type |-> "view.captured", sha |-> sha]
Reviewed(sha, score) == [type |-> "view.reviewed", sha |-> sha, score |-> score]
Compared(before, after, at) ==
    [type |-> "view.compared", before |-> before, after |-> after, at |-> at]
\* An event kind a newer binary wrote, which this one does not know.
Newer == [type |-> "newer"]
\* A row of a known kind whose payload does not decode: another binary wrote it
\* differently, or it was damaged.
Garbled == [type |-> "garbled"]

Events == {Captured(sha) : sha \in Contents}
    \cup {Reviewed(sha, score) : sha \in Contents, score \in Scores}
    \cup {Compared(b, a, at) : b \in Contents, a \in Contents, at \in Minutes}
    \cup {Newer, Garbled}

ViewState == [SHA256 : Contents \cup {NoSHA},
              Captures : Nat,
              ReviewedSHA : Contents \cup {NoSHA},
              LastScore : Scores,
              PrevScore : Scores,
              Reviews : Nat,
              Comparisons : Nat,
              UnknownEvents : Nat]

initialViewState == [SHA256 |-> NoSHA, Captures |-> 0, ReviewedSHA |-> NoSHA,
                     LastScore |-> ScoreUnknown, PrevScore |-> ScoreUnknown,
                     Reviews |-> 0, Comparisons |-> 0, UnknownEvents |-> 0]

NeedsReview(state) == state.Captures > 0 /\ state.ReviewedSHA # state.SHA256

\* (mutant) a capture does not reopen the view
ApplyCapturedKeepingReviewed(state, evt) ==
    [state EXCEPT !.SHA256 = evt.sha, !.Captures = @ + 1]

ApplyCaptured(state, evt) ==
    [state EXCEPT !.SHA256 = evt.sha, !.Captures = @ + 1, !.ReviewedSHA = NoSHA]

\* (mutant) the new score is stored before the old one is saved
ApplyReviewedScoreFirst(state, evt) ==
    [state EXCEPT !.ReviewedSHA = evt.sha, !.PrevScore = evt.score,
                  !.LastScore = evt.score, !.Reviews = @ + 1]

ApplyReviewed(state, evt) ==
    [state EXCEPT !.ReviewedSHA = evt.sha, !.PrevScore = state.LastScore,
                  !.LastScore = evt.score, !.Reviews = @ + 1]

\* (mutant) a comparison also moves the current capture to its AFTER
ApplyComparedAsCurrent(state, evt) ==
    [state EXCEPT !.SHA256 = evt.after, !.Comparisons = @ + 1]

ApplyCompared(state, evt) == [state EXCEPT !.Comparisons = @ + 1]

\* A payload that does not decode is an error, with the state as it was.
ApplyViewState(state, evt) ==
    CASE evt.type = "view.captured" -> ApplyCaptured(state, evt)
      [] evt.type = "view.reviewed" -> ApplyReviewed(state, evt)
      [] evt.type = "view.compared" -> ApplyCompared(state, evt)
      [] evt.type = "garbled" -> state
      [] OTHER -> [state EXCEPT !.UnknownEvents = @ + 1]

-----------------------------------------------------------------------------
VARIABLES journal, view

journalVars == <<journal, view>>

JournalInit ==
    /\ journal = [s \in Streams |-> <<>>]
    /\ view = [s \in Streams |-> initialViewState]

\* LoadView fails at the first row of the stream that does not decode.
Readable(s) == \A i \in DOMAIN journal[s] : journal[s][i].type # "garbled"

\* One event at the next version of the stream.
Record(s, evt) ==
    /\ journal' = [journal EXCEPT ![s] = Append(@, evt)]
    /\ view' = [view EXCEPT ![s] = ApplyViewState(@, evt)]

\* Store.record folds the stream before it appends.
RecordCapture(s, sha) == Readable(s) /\ Record(s, Captured(sha))
RecordReview(s, sha, score) == Readable(s) /\ Record(s, Reviewed(sha, score))
RecordComparison(s, before, after, at) ==
    Readable(s) /\ Record(s, Compared(before, after, at))

-----------------------------------------------------------------------------
(* The store on its own promises a meaningful fold to any caller, also for *)
(* journals the pipeline would not write: reviews before captures, manual  *)
(* comparisons on streams with no capture, events of another binary.       *)

JournalNext ==
    \E s \in Streams :
        \/ \E sha \in Contents : RecordCapture(s, sha)
        \/ \E sha \in Contents, score \in Scores : RecordReview(s, sha, score)
        \/ \E b, a \in Contents, at \in Minutes : RecordComparison(s, b, a, at)
        \/ Record(s, Newer) \/ Record(s, Garbled)

JournalSpec == JournalInit /\ [][JournalNext]_journalVars

JournalTypeOK ==
    /\ journal \in [Streams -> Seq(Events)]
    /\ view \in [Streams -> ViewState]

Positions(s) == 1..Len(journal[s])
IsAt(s, i, type) == i \in Positions(s) /\ journal[s][i].type = type

\* i holds the last event of the type in the stream.
IsLast(s, i, type) ==
    IsAt(s, i, type) /\ \A j \in Positions(s) : IsAt(s, j, type) => j <= i

\* Event i is the review that settles what ReviewedSHA says: the last of the
\* stream's captures and reviews.
Settles(s, i) ==
    /\ IsAt(s, i, "view.reviewed")
    /\ \A j \in Positions(s) :
          IsAt(s, j, "view.reviewed") \/ IsAt(s, j, "view.captured") => j <= i

\* The current capture of LoadView's state is the latest one journaled, and a
\* state with no capture comes from a stream with none.
CurrentIsLatestCapture ==
    \A s \in Streams :
        /\ view[s].Captures = 0 <=> \A i \in Positions(s) : ~IsAt(s, i, "view.captured")
        /\ view[s].Captures = 0 => view[s].SHA256 = NoSHA
        /\ \A i \in Positions(s) :
              IsLast(s, i, "view.captured") => view[s].SHA256 = journal[s][i].sha

\* NeedsReview holds exactly for the captured views whose latest capture has no
\* later review of the same hash that is still the latest review: a capture
\* reopens the view even when its hash was reviewed before, and a comparison or
\* an unknown event never does.
NeedsReviewMeansUnsettled ==
    \A s \in Streams :
        NeedsReview(view[s]) <=>
            \E c \in Positions(s) :
                /\ IsLast(s, c, "view.captured")
                /\ ~ \E i \in Positions(s) :
                        Settles(s, i) /\ journal[s][i].sha = journal[s][c].sha

\* The trend an INDEX row shows is between the last two reviews of the stream,
\* whatever captures, comparisons and unknown events lie between them; with
\* fewer reviews the missing scores are unknown.
TrendIsLastTwoReviews ==
    \A s \in Streams :
        /\ (\A i \in Positions(s) : ~IsAt(s, i, "view.reviewed"))
              => view[s].LastScore = ScoreUnknown /\ view[s].PrevScore = ScoreUnknown
        /\ \A i \in Positions(s) :
              IsLast(s, i, "view.reviewed") =>
                 /\ view[s].LastScore = journal[s][i].score
                 /\ (\A j \in 1..(i - 1) : ~IsAt(s, j, "view.reviewed"))
                       => view[s].PrevScore = ScoreUnknown
                 /\ \A j \in 1..(i - 1) :
                       /\ IsAt(s, j, "view.reviewed")
                       /\ \A k \in (j + 1)..(i - 1) : ~IsAt(s, k, "view.reviewed")
                       => view[s].PrevScore = journal[s][j].score

\* The folded state, which LoadView returns of a readable stream and a replay
\* renders from, says what the journal says, for any caller: which capture is
\* current, whether it waits for a review, and the trend.
FoldMatchesJournal ==
    CurrentIsLatestCapture /\ NeedsReviewMeansUnsettled /\ TrendIsLastTwoReviews
=============================================================================
