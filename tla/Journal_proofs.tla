--------------------------- MODULE Journal_proofs ----------------------------
(***************************************************************************)
(* What is journaled and shown, whatever fails, is cancelled, crashes or is *)
(* overwritten, and for any number of projects, views, contents and faults: *)
(* what a record call of any caller preserves, the promises of every legal  *)
(* history, that the passes implement it and never name a blob that is not  *)
(* there, and what replays and manual comparisons make of it that take      *)
(* turns with the service: a replay without errors rebuilds the reviews     *)
(* directory of any journal, also of one that another caller of the store   *)
(* wrote, and after passes it changes nothing.                              *)
(***************************************************************************)
EXTENDS Replay, TLAPS, WellFoundedInduction, FiniteSetTheorems

-----------------------------------------------------------------------------
(* ViewJournal: what every record call preserves, whoever makes it, and with *)
(* it the meaning of the folded state for every journal.                     *)

\* Every event is of one of the kinds, with the fields of its kind.
LEMMA EventKinds ==
    ASSUME NEW e \in Events
    PROVE  /\ e.type \in {"view.captured", "view.reviewed", "view.compared", "newer",
                         "garbled"}
           /\ e.type = "view.captured" => e.sha \in Contents
           /\ e.type = "view.reviewed" => e.sha \in Contents /\ e.score \in Scores
           /\ e.type = "view.compared" => /\ e.before \in Contents
                                          /\ e.after \in Contents
                                          /\ e.at \in Minutes
    BY DEF Events, Captured, Reviewed, Compared, Newer, Garbled

\* The fold stays within ViewState.
LEMMA ApplyType ==
    ASSUME NEW state \in ViewState, NEW e \in Events
    PROVE  ApplyViewState(state, e) \in ViewState
<1>1. /\ state.Captures + 1 \in Nat
      /\ state.Reviews + 1 \in Nat
      /\ state.LastScore \in Scores
  BY DEF ViewState
<1>2. CASE e.type = "view.captured"
  <2>1. e.sha \in Contents
    BY <1>2, EventKinds
  <2> QED BY <1>1, <1>2, <2>1 DEF ApplyViewState, ApplyCaptured, ViewState
<1>3. CASE e.type = "view.reviewed"
  <2>1. e.sha \in Contents /\ e.score \in Scores
    BY <1>3, EventKinds
  <2> QED BY <1>1, <1>3, <2>1 DEF ApplyViewState, ApplyReviewed, ViewState
<1>4. CASE e.type = "view.compared"
  BY <1>4 DEF ApplyViewState, ApplyCompared, ViewState
<1>5. CASE e.type \in {"newer", "garbled"}
  BY <1>5 DEF ApplyViewState, ViewState
<1> QED BY <1>2, <1>3, <1>4, <1>5, EventKinds

\* What one record call does to the stream it appends to, and to the others.
LEMMA RecordEffect ==
    ASSUME JournalTypeOK, NEW s \in Streams, NEW e \in Events, Record(s, e)
    PROVE  /\ JournalTypeOK'
           /\ Len(journal'[s]) = Len(journal[s]) + 1
           /\ \A i \in Positions(s) : journal'[s][i] = journal[s][i]
           /\ journal'[s][Len(journal[s]) + 1] = e
           /\ view'[s] = ApplyViewState(view[s], e)
           /\ \A t \in Streams \ {s} : journal'[t] = journal[t] /\ view'[t] = view[t]
    BY ApplyType DEF Record, JournalTypeOK, Positions

\* An event of a type is at a position after the call iff it was there before
\* or is the event just appended.
LEMMA RecordIsAt ==
    ASSUME JournalTypeOK, NEW s \in Streams, NEW e \in Events, Record(s, e),
           NEW t \in Streams, NEW i, NEW type
    PROVE  IsAt(t, i, type)' <=>
              \/ IsAt(t, i, type)
              \/ t = s /\ i = Len(journal[s]) + 1 /\ e.type = type
<1>1. Len(journal[s]) \in Nat
  BY DEF JournalTypeOK
<1>2. CASE t = s
  BY <1>1, <1>2, RecordEffect DEF IsAt, Positions
<1>3. CASE t # s
  BY <1>3, RecordEffect DEF IsAt, Positions
<1> QED BY <1>2, <1>3

\* The events of a stream keep their kinds.
LEMMA JournalKinds ==
    ASSUME JournalTypeOK, NEW s \in Streams, NEW i \in Positions(s)
    PROVE  /\ journal[s][i] \in Events
           /\ i \in Nat \ {0} /\ i <= Len(journal[s]) /\ Len(journal[s]) \in Nat
           /\ view[s] \in ViewState
    BY DEF JournalTypeOK, Positions

\* A step of any caller is a record call with one event of the journal.
LEMMA CallerRecords ==
    ASSUME JournalNext
    PROVE  \E s \in Streams, e \in Events : Record(s, e)
    BY DEF JournalNext, RecordCapture, RecordReview, RecordComparison, Events

LEMMA JournalInitType == ASSUME JournalInit PROVE JournalTypeOK
<1>1. initialViewState \in ViewState
  BY ConstantsAssumption DEF initialViewState, ViewState
<1> QED BY <1>1 DEF JournalInit, JournalTypeOK

\* The journal holds events and the fold yields view states, for any number of
\* views, contents and scores and journals of any length.
THEOREM JournalTypeCorrect == JournalSpec => []JournalTypeOK
<1>1. JournalInit => JournalTypeOK
  BY JournalInitType
<1>2. JournalTypeOK /\ [JournalNext]_journalVars => JournalTypeOK'
  <2>1. CASE JournalNext
    BY <2>1, CallerRecords, RecordEffect
  <2>2. CASE UNCHANGED journalVars
    BY <2>2 DEF journalVars, JournalTypeOK
  <2> QED BY <2>1, <2>2
<1> QED BY <1>1, <1>2, PTL DEF JournalSpec

-----------------------------------------------------------------------------
\* A record call keeps the current capture the latest one journaled.
LEMMA RecordKeepsCurrent ==
    ASSUME JournalTypeOK, CurrentIsLatestCapture,
           NEW s \in Streams, NEW e \in Events, Record(s, e)
    PROVE  CurrentIsLatestCapture'
<1> SUFFICES ASSUME NEW t \in Streams
             PROVE
               /\ (view[t].Captures = 0
                     <=> \A i \in Positions(t) : ~IsAt(t, i, "view.captured"))'
               /\ (view[t].Captures = 0 => view[t].SHA256 = NoSHA)'
               /\ (\A i \in Positions(t) :
                     IsLast(t, i, "view.captured") => view[t].SHA256 = journal[t][i].sha)'
  BY DEF CurrentIsLatestCapture
<1> DEFINE n == Len(journal[s])
<1>0. n \in Nat /\ view[s] \in ViewState
  BY DEF JournalTypeOK
<1>1. \A i : IsAt(t, i, "view.captured")' <=>
               \/ IsAt(t, i, "view.captured")
               \/ t = s /\ i = n + 1 /\ e.type = "view.captured"
  BY RecordIsAt
<1>2. CASE t # s
  <2>1. journal'[t] = journal[t] /\ view'[t] = view[t]
    BY <1>2, RecordEffect
  <2> QED BY <2>1 DEF CurrentIsLatestCapture, IsLast, IsAt, Positions
<1>3. CASE t = s /\ e.type = "view.captured"
  <2>1. n' = n + 1 /\ IsAt(t, n, "view.captured")'
    BY <1>0, <1>3, RecordEffect DEF IsAt, Positions
  <2>2. view'[s] = ApplyCaptured(view[s], e)
    BY <1>3, RecordEffect DEF ApplyViewState
  <2>3. view'[s].SHA256 = e.sha /\ view'[s].Captures = view[s].Captures + 1
    BY <2>2 DEF ApplyCaptured, ViewState
  <2>4. view'[s].Captures # 0
    BY <1>0, <2>3 DEF ViewState
  <2>5. ASSUME NEW i \in Positions(t)', IsLast(t, i, "view.captured")'
        PROVE  view'[t].SHA256 = journal'[t][i].sha
    <3>1. i = n + 1
      BY <1>0, <1>3, <2>1, <2>5, RecordEffect DEF IsLast, Positions, IsAt
    <3> QED BY <1>3, <2>3, <3>1, RecordEffect
  <2> QED BY <1>3, <2>1, <2>4, <2>5 DEF IsAt
<1>4. CASE t = s /\ e.type # "view.captured"
  <2>1. view'[s].SHA256 = view[s].SHA256 /\ view'[s].Captures = view[s].Captures
    <3>1. view'[s] = ApplyViewState(view[s], e)
      BY RecordEffect
    <3>2. CASE e.type = "view.reviewed"
      BY <1>0, <3>1, <3>2 DEF ApplyViewState, ApplyReviewed, ViewState
    <3>3. CASE e.type = "view.compared"
      BY <1>0, <3>1, <3>3 DEF ApplyViewState, ApplyCompared, ViewState
    <3>4. CASE e.type \in {"newer", "garbled"}
      BY <1>0, <3>1, <3>4 DEF ApplyViewState, ViewState
    <3> QED BY <1>4, <3>2, <3>3, <3>4, EventKinds
  <2>2. \A i : IsAt(t, i, "view.captured")' <=> IsAt(t, i, "view.captured")
    BY <1>1, <1>4
  <2>3. ASSUME NEW i, IsLast(t, i, "view.captured")'
        PROVE  IsLast(t, i, "view.captured") /\ journal'[t][i] = journal[t][i]
    BY <1>4, <2>2, <2>3, RecordEffect DEF IsLast, IsAt
  <2> QED BY <1>4, <2>1, <2>2, <2>3 DEF CurrentIsLatestCapture, IsLast, IsAt
<1> QED BY <1>2, <1>3, <1>4

LEMMA JournalInitCurrent == ASSUME JournalInit PROVE CurrentIsLatestCapture
    BY DEF JournalInit, CurrentIsLatestCapture, Positions, IsAt, IsLast, initialViewState

\* For any caller, LoadView's current capture is the latest one journaled.
THEOREM CurrentCaptureCorrect == JournalSpec => []CurrentIsLatestCapture
<1>1. JournalInit => CurrentIsLatestCapture
  BY JournalInitCurrent
<1>2. JournalTypeOK /\ CurrentIsLatestCapture /\ [JournalNext]_journalVars
        => CurrentIsLatestCapture'
  <2>1. ASSUME JournalTypeOK, CurrentIsLatestCapture, JournalNext
        PROVE  CurrentIsLatestCapture'
    BY <2>1, CallerRecords, RecordKeepsCurrent
  <2>2. ASSUME CurrentIsLatestCapture, UNCHANGED journalVars
        PROVE  CurrentIsLatestCapture'
    BY <2>2 DEF journalVars, CurrentIsLatestCapture, Positions, IsAt, IsLast
  <2> QED BY <2>1, <2>2
<1> QED BY <1>1, <1>2, JournalTypeCorrect, PTL DEF JournalSpec

-----------------------------------------------------------------------------
\* What ReviewedSHA remembers of the journal: a captured view has a latest
\* capture, and the hash is that of the settling review, empty without one.
SettledInJournal ==
    \A s \in Streams :
        /\ view[s].Captures # 0 => \E c \in Positions(s) : IsLast(s, c, "view.captured")
        /\ (\A i \in Positions(s) : ~Settles(s, i)) => view[s].ReviewedSHA = NoSHA
        /\ \A i \in Positions(s) : Settles(s, i) => view[s].ReviewedSHA = journal[s][i].sha

\* What an event other than a capture or a review leaves of the state.
LEMMA OthersKeepState ==
    ASSUME NEW state \in ViewState, NEW e \in Events,
           e.type \notin {"view.captured", "view.reviewed"}
    PROVE  LET after == ApplyViewState(state, e) IN
           /\ after.Captures = state.Captures
           /\ after.SHA256 = state.SHA256
           /\ after.ReviewedSHA = state.ReviewedSHA
           /\ after.LastScore = state.LastScore
           /\ after.PrevScore = state.PrevScore
<1>1. CASE e.type = "view.compared"
  BY <1>1 DEF ApplyViewState, ApplyCompared, ViewState
<1>2. CASE e.type \in {"newer", "garbled"}
  BY <1>2 DEF ApplyViewState, ViewState
<1> QED BY <1>1, <1>2, EventKinds

\* A record call keeps ReviewedSHA what the journal settles: a capture reopens the
\* view, a review settles it, and nothing else moves either.
LEMMA RecordKeepsSettled ==
    ASSUME JournalTypeOK, SettledInJournal,
           NEW s \in Streams, NEW e \in Events, Record(s, e)
    PROVE  SettledInJournal'
<1> SUFFICES ASSUME NEW t \in Streams
             PROVE
               /\ (view[t].Captures # 0
                     => \E c \in Positions(t) : IsLast(t, c, "view.captured"))'
               /\ ((\A i \in Positions(t) : ~Settles(t, i)) => view[t].ReviewedSHA = NoSHA)'
               /\ (\A i \in Positions(t) :
                     Settles(t, i) => view[t].ReviewedSHA = journal[t][i].sha)'
  BY DEF SettledInJournal
<1>n. PICK n \in Nat : n = Len(journal[s])
  BY DEF JournalTypeOK
<1>0. /\ n \in Nat /\ view[s] \in ViewState
      /\ Len(journal'[s]) = n + 1 /\ journal'[s][n + 1] = e
      /\ \A i \in Positions(s) : journal'[s][i] = journal[s][i]
      /\ view'[s] = ApplyViewState(view[s], e)
  BY <1>n, RecordEffect DEF JournalTypeOK
<1>1. \A i, type : IsAt(t, i, type)' <=>
               \/ IsAt(t, i, type)
               \/ t = s /\ i = n + 1 /\ e.type = type
  BY <1>n, RecordIsAt
<1>2. CASE t # s
  <2>1. journal'[t] = journal[t] /\ view'[t] = view[t]
    BY <1>2, RecordEffect
  <2> QED BY <2>1 DEF SettledInJournal, IsLast, Settles, IsAt, Positions
<1>3. ASSUME t = s
      PROVE  /\ \A i, type : IsAt(s, i, type) => i \in 1..n
             /\ (\E c \in Positions(s) : IsLast(s, c, "view.captured"))
                  /\ e.type # "view.captured"
                  => (\E c \in Positions(s) : IsLast(s, c, "view.captured"))'
  <2>1. \A i, type : IsAt(s, i, type) => i \in 1..n
    BY <1>n DEF IsAt, Positions
  <2>2. ASSUME NEW c \in Positions(s), IsLast(s, c, "view.captured"), e.type # "view.captured"
        PROVE  c \in Positions(s)' /\ IsLast(s, c, "view.captured")'
    BY <1>1, <1>3, <2>2 DEF IsLast, IsAt
  <2> QED BY <2>1, <2>2
<1>4. CASE t = s /\ e.type = "view.captured"
  <2>1. view'[s] = ApplyCaptured(view[s], e)
    BY <1>0, <1>4 DEF ApplyViewState
  <2>2. view'[s].ReviewedSHA = NoSHA
    BY <1>0, <2>1 DEF ApplyCaptured, ViewState
  <2>3. IsAt(s, n + 1, "view.captured")'
    BY <1>1, <1>4
  <2>4. n + 1 \in Positions(s)' /\ IsLast(s, n + 1, "view.captured")'
    BY <1>0, <1>1, <1>3, <1>4, <2>3 DEF IsLast, IsAt, Positions
  <2>5. ASSUME NEW i, Settles(s, i)' PROVE FALSE
    <3>1. i >= n + 1 /\ IsAt(s, i, "view.reviewed")'
      BY <2>3, <2>4, <2>5 DEF Settles, Positions
    <3> QED BY <1>0, <1>1, <1>3, <1>4, <3>1
  <2> QED BY <1>4, <2>2, <2>4, <2>5
<1>5. CASE t = s /\ e.type = "view.reviewed"
  <2>1. view'[s] = ApplyReviewed(view[s], e)
    BY <1>0, <1>5 DEF ApplyViewState
  <2>2. view'[s].ReviewedSHA = e.sha /\ view'[s].Captures = view[s].Captures
    BY <1>0, <2>1 DEF ApplyReviewed, ViewState
  <2>3. IsAt(s, n + 1, "view.reviewed")' /\ n + 1 \in Positions(s)'
    BY <1>0, <1>1, <1>5 DEF Positions
  <2>4. Settles(s, n + 1)'
    BY <1>0, <1>1, <1>3, <1>5, <2>3 DEF Settles, Positions
  <2>5. ASSUME NEW i \in Positions(s)', Settles(s, i)' PROVE i = n + 1
    BY <1>0, <2>3, <2>5 DEF Settles, Positions
  <2>6. view[s].Captures # 0 => \E c \in Positions(s) : IsLast(s, c, "view.captured")
    BY DEF SettledInJournal
  <2> QED BY <1>0, <1>3, <1>5, <2>2, <2>3, <2>4, <2>5, <2>6
<1>6. CASE t = s /\ e.type \notin {"view.captured", "view.reviewed"}
  <2>1. view'[s].ReviewedSHA = view[s].ReviewedSHA /\ view'[s].Captures = view[s].Captures
    BY <1>0, <1>6, OthersKeepState
  <2>2. \A i : /\ IsAt(s, i, "view.reviewed")' <=> IsAt(s, i, "view.reviewed")
               /\ IsAt(s, i, "view.captured")' <=> IsAt(s, i, "view.captured")
    BY <1>1, <1>6
  <2>3. ASSUME NEW i PROVE Settles(s, i)' <=> Settles(s, i)
    BY <1>0, <2>2 DEF Settles, Positions, IsAt
  <2>4. \A i \in Positions(s) : i \in Positions(s)'
    BY <1>0, <1>n DEF Positions
  <2>5. ASSUME NEW i, Settles(s, i)
        PROVE  i \in Positions(s) /\ journal'[s][i] = journal[s][i]
    BY <1>0, <2>5 DEF Settles, IsAt
  <2>6. view[s].Captures # 0 => \E c \in Positions(s) : IsLast(s, c, "view.captured")
    BY DEF SettledInJournal
  <2>7. ((\A i \in Positions(s) : ~Settles(s, i)) => view[s].ReviewedSHA = NoSHA)'
    BY <2>1, <2>3, <2>4 DEF SettledInJournal
  <2>8. (\A i \in Positions(s) : Settles(s, i) => view[s].ReviewedSHA = journal[s][i].sha)'
    BY <2>1, <2>3, <2>5 DEF SettledInJournal
  <2> QED BY <1>3, <1>6, <2>1, <2>6, <2>7, <2>8
<1> QED BY <1>2, <1>4, <1>5, <1>6

\* With the settling review known, NeedsReview has its meaning.
LEMMA SettledMeaning ==
    ASSUME JournalTypeOK, CurrentIsLatestCapture, SettledInJournal
    PROVE  NeedsReviewMeansUnsettled
<1> SUFFICES ASSUME NEW s \in Streams
             PROVE  NeedsReview(view[s]) <=>
                      \E c \in Positions(s) :
                         /\ IsLast(s, c, "view.captured")
                         /\ ~ \E i \in Positions(s) :
                                 Settles(s, i) /\ journal[s][i].sha = journal[s][c].sha
  BY DEF NeedsReviewMeansUnsettled
<1>0. view[s] \in ViewState /\ view[s].Captures \in Nat
  BY DEF JournalTypeOK, ViewState
<1>1. \A c \in Positions(s) : IsLast(s, c, "view.captured") =>
         /\ view[s].Captures # 0
         /\ view[s].SHA256 = journal[s][c].sha
         /\ journal[s][c].sha \in Contents
  BY JournalKinds, EventKinds DEF CurrentIsLatestCapture, IsLast, IsAt
<1>2. ASSUME NeedsReview(view[s]), NEW c \in Positions(s), IsLast(s, c, "view.captured"),
             NEW i \in Positions(s), Settles(s, i), journal[s][i].sha = journal[s][c].sha
      PROVE  FALSE
  BY <1>1, <1>2 DEF NeedsReview, SettledInJournal
<1>3. ASSUME NeedsReview(view[s])
      PROVE  \E c \in Positions(s) : IsLast(s, c, "view.captured")
  BY <1>0, <1>3 DEF NeedsReview, SettledInJournal
<1>4. ASSUME NEW c \in Positions(s), IsLast(s, c, "view.captured"), ~NeedsReview(view[s])
      PROVE  \E i \in Positions(s) : Settles(s, i) /\ journal[s][i].sha = journal[s][c].sha
  <2>1. view[s].ReviewedSHA = journal[s][c].sha /\ view[s].ReviewedSHA # NoSHA
    BY <1>0, <1>1, <1>4, ConstantsAssumption DEF NeedsReview
  <2>2. PICK i \in Positions(s) : Settles(s, i)
    BY <2>1 DEF SettledInJournal
  <2> QED BY <2>1, <2>2 DEF SettledInJournal
<1> QED BY <1>2, <1>3, <1>4

-----------------------------------------------------------------------------
\* A record call keeps the two scores those of the last two reviews.
LEMMA RecordKeepsTrend ==
    ASSUME JournalTypeOK, TrendIsLastTwoReviews,
           NEW s \in Streams, NEW e \in Events, Record(s, e)
    PROVE  TrendIsLastTwoReviews'
<1>n. PICK n \in Nat : n = Len(journal[s])
  BY DEF JournalTypeOK
<1> DEFINE NoneYet(t, i) == \A j \in 1..(i - 1) : ~IsAt(t, j, "view.reviewed")
           Previous(t, j, i) ==
              /\ IsAt(t, j, "view.reviewed")
              /\ \A k \in (j + 1)..(i - 1) : ~IsAt(t, k, "view.reviewed")
<1> SUFFICES ASSUME NEW t \in Streams
      PROVE /\ ((\A i \in Positions(t) : ~IsAt(t, i, "view.reviewed"))
                  => view[t].LastScore = ScoreUnknown /\ view[t].PrevScore = ScoreUnknown)'
            /\ (\A i \in Positions(t) :
                  IsLast(t, i, "view.reviewed") =>
                     /\ view[t].LastScore = journal[t][i].score
                     /\ NoneYet(t, i) => view[t].PrevScore = ScoreUnknown
                     /\ \A j \in 1..(i - 1) :
                           Previous(t, j, i) => view[t].PrevScore = journal[t][j].score)'
  BY DEF TrendIsLastTwoReviews
<1>0. /\ n \in Nat /\ view[s] \in ViewState
      /\ Len(journal'[s]) = n + 1 /\ journal'[s][n + 1] = e
      /\ \A i \in Positions(s) : journal'[s][i] = journal[s][i]
      /\ view'[s] = ApplyViewState(view[s], e)
  BY <1>n, RecordEffect DEF JournalTypeOK
<1>1. \A i : IsAt(t, i, "view.reviewed")' <=>
               \/ IsAt(t, i, "view.reviewed")
               \/ t = s /\ i = n + 1 /\ e.type = "view.reviewed"
  BY <1>n, RecordIsAt
<1>2. CASE t # s
  <2>1. journal'[t] = journal[t] /\ view'[t] = view[t]
    BY <1>2, RecordEffect
  <2>2. /\ Positions(t)' = Positions(t)
        /\ \A i : IsAt(t, i, "view.reviewed")' <=> IsAt(t, i, "view.reviewed")
    BY <2>1 DEF IsAt, Positions
  <2>3. \A i : IsLast(t, i, "view.reviewed")' <=> IsLast(t, i, "view.reviewed")
    BY <2>2 DEF IsLast
  <2> QED BY <2>1, <2>2, <2>3 DEF TrendIsLastTwoReviews
<1>3. \A i : IsAt(s, i, "view.reviewed") => i \in 1..n
  BY <1>n DEF IsAt, Positions
<1>4. CASE t = s /\ e.type = "view.reviewed"
  <2>1. view'[s] = ApplyReviewed(view[s], e)
    BY <1>0, <1>4 DEF ApplyViewState
  <2>2. view'[s].LastScore = e.score /\ view'[s].PrevScore = view[s].LastScore
    BY <1>0, <2>1 DEF ApplyReviewed, ViewState
  <2>3. IsAt(s, n + 1, "view.reviewed")' /\ n + 1 \in Positions(s)'
    BY <1>0, <1>1, <1>4 DEF Positions
  <2>4. ASSUME NEW i \in Positions(s)', IsLast(s, i, "view.reviewed")' PROVE i = n + 1
    BY <1>0, <2>3, <2>4 DEF IsLast, Positions
  <2>5. \A j \in 1..n : IsAt(s, j, "view.reviewed")' <=> IsAt(s, j, "view.reviewed")
    BY <1>0, <1>1, <1>4
  <2>6. ASSUME NoneYet(s, n + 1)' PROVE view[s].LastScore = ScoreUnknown
    <3>1. \A j \in 1..n : ~IsAt(s, j, "view.reviewed")
      BY <1>0, <2>5, <2>6
    <3> QED BY <1>3, <3>1 DEF TrendIsLastTwoReviews
  <2>7. ASSUME NEW j \in 1..n, Previous(s, j, n + 1)'
        PROVE  view[s].LastScore = journal'[s][j].score
    <3>1. IsAt(s, j, "view.reviewed") /\ j \in Positions(s)
      BY <1>0, <1>n, <2>5, <2>7 DEF Positions
    <3>2. \A k \in (j + 1)..n : ~IsAt(s, k, "view.reviewed")
      BY <1>0, <2>5, <2>7
    <3>3. IsLast(s, j, "view.reviewed")
      BY <1>0, <1>3, <3>1, <3>2 DEF IsLast, Positions
    <3>4. view[s].LastScore = journal[s][j].score
      BY <3>1, <3>3 DEF TrendIsLastTwoReviews
    <3> QED BY <1>0, <3>1, <3>4
  <2> HIDE DEF NoneYet, Previous
  <2>8. (n + 1) - 1 = n BY <1>0
  <2> QED BY <1>0, <1>4, <2>2, <2>3, <2>4, <2>6, <2>7, <2>8
<1>5. CASE t = s /\ e.type # "view.reviewed"
  <2>1. view'[s].LastScore = view[s].LastScore /\ view'[s].PrevScore = view[s].PrevScore
    <3>1. CASE e.type = "view.captured"
      BY <1>0, <3>1 DEF ApplyViewState, ApplyCaptured, ViewState
    <3>2. CASE e.type # "view.captured"
      BY <1>0, <1>5, <3>2, OthersKeepState
    <3> QED BY <3>1, <3>2
  <2>2. \A i : IsAt(s, i, "view.reviewed")' <=> IsAt(s, i, "view.reviewed")
    BY <1>1, <1>5
  <2>3. \A i : IsAt(s, i, "view.reviewed") =>
                  i \in Positions(s) /\ i \in Positions(s)' /\ journal'[s][i] = journal[s][i]
    BY <1>0, <1>n DEF IsAt, Positions
  <2>4. ASSUME NEW i, IsLast(s, i, "view.reviewed")'
        PROVE  IsLast(s, i, "view.reviewed") /\ i \in Positions(s)
    BY <2>2, <2>3, <2>4 DEF IsLast
  <2>5. ((\A i \in Positions(s) : ~IsAt(s, i, "view.reviewed"))
                  => view[s].LastScore = ScoreUnknown /\ view[s].PrevScore = ScoreUnknown)'
    BY <2>1, <2>2, <2>3 DEF TrendIsLastTwoReviews
  <2>6. ASSUME NEW i \in Positions(s)', IsLast(s, i, "view.reviewed")'
        PROVE  /\ view'[s].LastScore = journal'[s][i].score
               /\ NoneYet(s, i)' => view'[s].PrevScore = ScoreUnknown
               /\ \A j \in 1..(i - 1) :
                     Previous(s, j, i)' => view'[s].PrevScore = journal'[s][j].score
    <3>1. /\ view[s].LastScore = journal[s][i].score
          /\ NoneYet(s, i) => view[s].PrevScore = ScoreUnknown
          /\ \A j \in 1..(i - 1) :
                Previous(s, j, i) => view[s].PrevScore = journal[s][j].score
      BY <2>4, <2>6 DEF TrendIsLastTwoReviews
    <3>2. journal'[s][i] = journal[s][i]
      BY <1>0, <2>4, <2>6
    <3>3. NoneYet(s, i)' => NoneYet(s, i)
      BY <2>2
    <3>4. \A j : Previous(s, j, i)' => Previous(s, j, i) /\ journal'[s][j] = journal[s][j]
      BY <2>2, <2>3
    <3> HIDE DEF NoneYet, Previous
    <3> QED BY <2>1, <3>1, <3>2, <3>3, <3>4
  <2> HIDE DEF NoneYet, Previous
  <2> QED BY <1>5, <2>5, <2>6
<1> QED BY <1>2, <1>4, <1>5

-----------------------------------------------------------------------------
\* What LoadView needs to know of the journal beyond its current capture.
FoldInv == SettledInJournal /\ TrendIsLastTwoReviews

LEMMA JournalInitFold == ASSUME JournalInit PROVE FoldInv
    BY DEF JournalInit, FoldInv, SettledInJournal, TrendIsLastTwoReviews, Positions, IsAt,
           IsLast, Settles, initialViewState

LEMMA RecordKeepsFold ==
    ASSUME JournalTypeOK, FoldInv, NEW s \in Streams, NEW e \in Events, Record(s, e)
    PROVE  FoldInv'
    BY RecordKeepsSettled, RecordKeepsTrend DEF FoldInv

LEMMA FoldStutter ==
    ASSUME FoldInv, UNCHANGED journalVars
    PROVE  FoldInv'
<1>1. SettledInJournal'
  BY DEF journalVars, FoldInv, SettledInJournal, Settles, Positions, IsAt, IsLast
<1>2. TrendIsLastTwoReviews'
  BY DEF journalVars, FoldInv, TrendIsLastTwoReviews, Positions, IsAt, IsLast
<1> QED BY <1>1, <1>2 DEF FoldInv

LEMMA FoldMeaning ==
    ASSUME JournalTypeOK, CurrentIsLatestCapture, FoldInv
    PROVE  FoldMatchesJournal
    BY SettledMeaning DEF FoldInv, FoldMatchesJournal

\* For any caller and journals of any length, LoadView's state says what the journal
\* says: the current capture, whether it waits for a review, and the trend.
THEOREM FoldCorrect == JournalSpec => []FoldMatchesJournal
<1>1. JournalInit => FoldInv
  BY JournalInitFold
<1>2. JournalTypeOK /\ FoldInv /\ [JournalNext]_journalVars => FoldInv'
  BY CallerRecords, RecordKeepsFold, FoldStutter
<1>3. JournalTypeOK /\ CurrentIsLatestCapture /\ FoldInv => FoldMatchesJournal
  BY FoldMeaning
<1> QED BY <1>1, <1>2, <1>3, JournalTypeCorrect, CurrentCaptureCorrect, PTL DEF JournalSpec

-----------------------------------------------------------------------------
(* ViewLifecycle: its promises hold in every journal it allows, of any      *)
(* length.  Each is inductive together with the current capture being the   *)
(* latest one and comparisons standing straight after their AFTER.          *)

\* Strengthening: the event before a comparison is the capture it judges as
\* AFTER, so the review that follows a comparison still judges that capture.
ComparisonFollowsCapture ==
    \A s \in Streams : \A i \in Positions(s) :
        IsAt(s, i, "view.compared") =>
            i > 1 /\ IsAt(s, i - 1, "view.captured")

LifecycleInv ==
    /\ JournalTypeOK
    /\ CurrentIsLatestCapture
    /\ ComparisonFollowsCapture
    /\ ReviewedIsCurrent
    /\ ReviewJudgesLatestCapture
    /\ OneReviewPerCapture
    /\ ComparisonLinksConsecutiveCaptures

\* A stream that ends with a capture or a comparison has a latest capture, which
\* is the one LoadView reports and which no review follows.
LEMMA ReviewTarget ==
    ASSUME LifecycleInv, NEW s \in Streams, Len(journal[s]) > 0,
           journal[s][Len(journal[s])].type \in {"view.captured", "view.compared"}
    PROVE  \E j \in Positions(s) :
              /\ IsLast(s, j, "view.captured")
              /\ journal[s][j].sha = view[s].SHA256
              /\ view[s].SHA256 \in Contents
              /\ \A k \in Positions(s) : k > j => ~IsAt(s, k, "view.captured")
                                                /\ ~IsAt(s, k, "view.reviewed")
<1> DEFINE n == Len(journal[s])
<1>0. n \in Nat /\ n \in Positions(s)
  BY DEF LifecycleInv, JournalTypeOK, Positions
<1>1. ASSUME NEW j \in Positions(s), IsLast(s, j, "view.captured"),
             \A k \in Positions(s) : k > j => ~IsAt(s, k, "view.reviewed")
      PROVE  \E i \in Positions(s) :
              /\ IsLast(s, i, "view.captured")
              /\ journal[s][i].sha = view[s].SHA256
              /\ view[s].SHA256 \in Contents
              /\ \A k \in Positions(s) : k > i => ~IsAt(s, k, "view.captured")
                                                /\ ~IsAt(s, k, "view.reviewed")
  <2>1. journal[s][j].sha = view[s].SHA256
    BY <1>1 DEF LifecycleInv, CurrentIsLatestCapture
  <2>2. journal[s][j] \in Events /\ journal[s][j].type = "view.captured"
    BY <1>1, JournalKinds DEF LifecycleInv, IsLast, IsAt
  <2>3. journal[s][j].sha \in Contents
    BY <2>2, EventKinds
  <2>4. \A k \in Positions(s) : k > j => ~IsAt(s, k, "view.captured")
    BY <1>0, <1>1 DEF IsLast, Positions
  <2> QED BY <1>1, <2>1, <2>3, <2>4
<1>2. CASE journal[s][n].type = "view.captured"
  <2>1. IsLast(s, n, "view.captured")
    BY <1>0, <1>2 DEF IsLast, IsAt, Positions
  <2>2. \A k \in Positions(s) : ~(k > n)
    BY <1>0 DEF Positions
  <2> QED BY <1>0, <1>1, <2>1, <2>2
<1>3. CASE journal[s][n].type = "view.compared"
  <2>1. IsAt(s, n, "view.compared")
    BY <1>0, <1>3 DEF IsAt
  <2>2. n > 1 /\ IsAt(s, n - 1, "view.captured")
    BY <1>0, <2>1 DEF LifecycleInv, ComparisonFollowsCapture
  <2>3. \A k \in Positions(s) : k > n - 1 => k = n
    BY <1>0 DEF Positions
  <2>4. n - 1 \in Positions(s) /\ IsLast(s, n - 1, "view.captured")
    BY <1>0, <1>3, <2>2, <2>3 DEF IsLast, IsAt, Positions
  <2>5. \A k \in Positions(s) : k > n - 1 => ~IsAt(s, k, "view.reviewed")
    BY <1>3, <2>3 DEF IsAt
  <2> QED BY <1>1, <2>4, <2>5
<1> QED BY <1>2, <1>3

\* What a step of the lifecycle says of the event it records: a comparison is of
\* the last two captures, a review is of the latest.
Allowed(s, e) ==
    \/ e.type = "view.captured"
    \/ /\ e.type = "view.compared"
       /\ \E i \in Positions(s) :
             /\ Consecutive(s, i, Len(journal[s]))
             /\ e.before = journal[s][i].sha
             /\ e.after = journal[s][Len(journal[s])].sha
             /\ e.before # e.after
    \/ /\ e.type = "view.reviewed"
       /\ e.sha = view[s].SHA256
       /\ Len(journal[s]) > 0
       /\ journal[s][Len(journal[s])].type \in {"view.captured", "view.compared"}

\* A step of the lifecycle is a record call with an allowed event.
LEMMA LifecycleRecords ==
    ASSUME LifecycleInv, LifecycleNext
    PROVE  \E s \in Streams, e \in Events : Record(s, e) /\ Allowed(s, e)
<1> PICK s \in Streams : Capture(s) \/ Compare(s) \/ Review(s)
  BY DEF LifecycleNext
<1> DEFINE n == Len(journal[s])
<1>1. CASE Capture(s)
  BY <1>1 DEF Capture, RecordCapture, Captured, Events, Allowed
<1>2. CASE Compare(s)
  <2>1. PICK i \in Positions(s), at \in Minutes :
              /\ Consecutive(s, i, n)
              /\ journal[s][i].sha # journal[s][n].sha
              /\ RecordComparison(s, journal[s][i].sha, journal[s][n].sha, at)
    BY <1>2 DEF Compare
  <2>2. /\ journal[s][i] \in Events /\ journal[s][i].type = "view.captured"
        /\ journal[s][n] \in Events /\ journal[s][n].type = "view.captured"
    BY <2>1, JournalKinds DEF LifecycleInv, Consecutive, IsAt
  <2>3. journal[s][i].sha \in Contents /\ journal[s][n].sha \in Contents
    BY <2>2, EventKinds
  <2> DEFINE e == Compared(journal[s][i].sha, journal[s][n].sha, at)
  <2>4. e \in Events
    BY <2>3 DEF Events
  <2>5. /\ e.type = "view.compared" /\ e.before = journal[s][i].sha
        /\ e.after = journal[s][n].sha
    BY DEF Compared
  <2>6. Record(s, e)
    BY <2>1 DEF RecordComparison
  <2> HIDE DEF e
  <2> QED BY <2>1, <2>4, <2>5, <2>6 DEF Allowed
<1>3. CASE Review(s)
  <2>1. PICK score \in Scores : RecordReview(s, view[s].SHA256, score)
    BY <1>3 DEF Review
  <2>2. n > 0 /\ journal[s][n].type \in {"view.captured", "view.compared"}
    BY <1>3 DEF Review
  <2>3. view[s].SHA256 \in Contents
    BY <2>2, ReviewTarget
  <2>4. Reviewed(view[s].SHA256, score) \in Events
    BY <2>3 DEF Events
  <2>5. /\ Reviewed(view[s].SHA256, score).type = "view.reviewed"
        /\ Reviewed(view[s].SHA256, score).sha = view[s].SHA256
    BY DEF Reviewed
  <2> QED BY <2>1, <2>2, <2>4, <2>5 DEF RecordReview, Allowed
<1> QED BY <1>1, <1>2, <1>3

-----------------------------------------------------------------------------
\* A record call leaves every earlier event where it is.
LEMMA RecordKeepsEvents ==
    ASSUME JournalTypeOK, NEW s \in Streams, NEW e \in Events, Record(s, e),
           NEW t \in Streams
    PROVE  /\ Len(journal[t]) \in Nat
           /\ t = s => Positions(t)' = 1..(Len(journal[s]) + 1)
           /\ t # s => Positions(t)' = Positions(t)
           /\ \A k \in Positions(t) : k \in Positions(t)' /\ journal'[t][k] = journal[t][k]
    BY RecordEffect DEF JournalTypeOK, Positions

LEMMA KeepsComparisonFollowsCapture ==
    ASSUME LifecycleInv, NEW s \in Streams, NEW e \in Events, Record(s, e), Allowed(s, e)
    PROVE  ComparisonFollowsCapture'
<1> SUFFICES ASSUME NEW t \in Streams, NEW i \in Positions(t)',
                    IsAt(t, i, "view.compared")'
             PROVE  i > 1 /\ IsAt(t, i - 1, "view.captured")'
  BY DEF ComparisonFollowsCapture
<1>0. JournalTypeOK
  BY DEF LifecycleInv
<1>1. CASE IsAt(t, i, "view.compared")
  <2>1. i > 1 /\ IsAt(t, i - 1, "view.captured")
    BY <1>1 DEF LifecycleInv, ComparisonFollowsCapture, IsAt
  <2> QED BY <1>0, <2>1, RecordIsAt
<1>2. CASE t = s /\ i = Len(journal[s]) + 1 /\ e.type = "view.compared"
  <2>1. IsAt(s, Len(journal[s]), "view.captured")
    BY <1>2 DEF Allowed, Consecutive
  <2>2. IsAt(s, i - 1, "view.captured") /\ i > 1
    BY <1>0, <1>2, <2>1, RecordKeepsEvents DEF IsAt, Positions
  <2> QED BY <1>0, <1>2, <2>2, RecordIsAt
<1> QED BY <1>0, <1>1, <1>2, RecordIsAt

LEMMA KeepsReviewedIsCurrent ==
    ASSUME LifecycleInv, NEW s \in Streams, NEW e \in Events, Record(s, e), Allowed(s, e)
    PROVE  ReviewedIsCurrent'
<1>0. JournalTypeOK /\ view[s] \in ViewState
  BY DEF LifecycleInv, JournalTypeOK
<1>1. \A t \in Streams : view[t].ReviewedSHA \in {NoSHA, view[t].SHA256}
  BY DEF LifecycleInv, ReviewedIsCurrent
<1>2. view'[s] = ApplyViewState(view[s], e)
      /\ \A t \in Streams \ {s} : view'[t] = view[t]
  BY <1>0, RecordEffect
<1>3. view'[s].ReviewedSHA \in {NoSHA, view'[s].SHA256}
  <2>1. CASE e.type = "view.captured"
    BY <1>0, <1>2, <2>1 DEF ApplyViewState, ApplyCaptured, ViewState
  <2>2. CASE e.type = "view.compared"
    BY <1>0, <1>1, <1>2, <2>2 DEF ApplyViewState, ApplyCompared, ViewState
  <2>3. CASE e.type = "view.reviewed"
    <3>1. e.sha = view[s].SHA256
      BY <2>3 DEF Allowed
    <3> QED BY <1>0, <1>2, <2>3, <3>1 DEF ApplyViewState, ApplyReviewed, ViewState
  <2> QED BY <2>1, <2>2, <2>3 DEF Allowed
<1> QED BY <1>1, <1>2, <1>3 DEF ReviewedIsCurrent

\* A record call keeps every review one of the latest capture before it, if the one it
\* may append is.
LEMMA RecordKeepsJudged ==
    ASSUME JournalTypeOK, ReviewJudgesLatestCapture,
           NEW s \in Streams, NEW e \in Events, Record(s, e),
           e.type = "view.reviewed" =>
              \E j \in Positions(s) : IsLast(s, j, "view.captured") /\ journal[s][j].sha = e.sha
    PROVE  ReviewJudgesLatestCapture'
<1> SUFFICES ASSUME NEW t \in Streams, NEW i \in Positions(t)',
                    IsAt(t, i, "view.reviewed")'
             PROVE  \E j \in 1..(i - 1) :
                       /\ IsAt(t, j, "view.captured")'
                       /\ journal'[t][j].sha = journal'[t][i].sha
                       /\ \A k \in (j + 1)..(i - 1) : ~IsAt(t, k, "view.captured")'
  BY DEF ReviewJudgesLatestCapture
<1>1. CASE IsAt(t, i, "view.reviewed")
  <2>1. PICK j \in 1..(i - 1) :
                /\ IsAt(t, j, "view.captured")
                /\ journal[t][j].sha = journal[t][i].sha
                /\ \A k \in (j + 1)..(i - 1) : ~IsAt(t, k, "view.captured")
    BY <1>1 DEF ReviewJudgesLatestCapture, IsAt
  <2>2. i \in Positions(t) /\ j \in Positions(t)
    BY <1>1, <2>1 DEF IsAt
  <2>3. journal'[t][j].sha = journal'[t][i].sha
    BY <2>1, <2>2, RecordKeepsEvents
  <2>4. \A k \in (j + 1)..(i - 1) : ~IsAt(t, k, "view.captured")'
    BY <2>1, <2>2, RecordIsAt, RecordKeepsEvents DEF Positions
  <2> QED BY <2>1, <2>3, <2>4, RecordIsAt
<1>2. CASE t = s /\ i = Len(journal[s]) + 1 /\ e.type = "view.reviewed"
  <2>1. PICK j \in Positions(s) : IsLast(s, j, "view.captured") /\ journal[s][j].sha = e.sha
    BY <1>2
  <2>2. Len(journal[s]) \in Nat /\ Positions(s) = 1..Len(journal[s])
    BY DEF JournalTypeOK, Positions
  <2>3. journal'[s][j].sha = journal'[s][i].sha
    BY <1>2, <2>1, RecordKeepsEvents, RecordEffect
  <2>4. j \in 1..(i - 1) /\ IsAt(s, j, "view.captured")'
    BY <1>2, <2>1, <2>2, RecordIsAt DEF IsLast
  <2>5. \A k \in (j + 1)..(i - 1) : ~IsAt(s, k, "view.captured")'
    BY <1>2, <2>1, <2>2, RecordIsAt DEF IsLast
  <2> QED BY <1>2, <2>3, <2>4, <2>5
<1> QED BY <1>1, <1>2, RecordIsAt

LEMMA KeepsReviewJudgesLatestCapture ==
    ASSUME LifecycleInv, NEW s \in Streams, NEW e \in Events, Record(s, e), Allowed(s, e)
    PROVE  ReviewJudgesLatestCapture'
<1>1. ASSUME e.type = "view.reviewed"
      PROVE  \E j \in Positions(s) : IsLast(s, j, "view.captured") /\ journal[s][j].sha = e.sha
  <2>1. /\ e.sha = view[s].SHA256
        /\ Len(journal[s]) > 0
        /\ journal[s][Len(journal[s])].type \in {"view.captured", "view.compared"}
    BY <1>1 DEF Allowed
  <2> QED BY <2>1, ReviewTarget
<1> QED BY <1>1, RecordKeepsJudged DEF LifecycleInv

LEMMA KeepsOneReviewPerCapture ==
    ASSUME LifecycleInv, NEW s \in Streams, NEW e \in Events, Record(s, e), Allowed(s, e)
    PROVE  OneReviewPerCapture'
<1> SUFFICES ASSUME NEW t \in Streams, NEW i \in Positions(t)', NEW j \in Positions(t)',
                    IsAt(t, i, "view.reviewed")', IsAt(t, j, "view.reviewed")', i < j
             PROVE  \E k \in (i + 1)..(j - 1) : IsAt(t, k, "view.captured")'
  BY DEF OneReviewPerCapture
<1>0. JournalTypeOK
  BY DEF LifecycleInv
<1>1. i \in Nat /\ j \in Nat
  BY <1>0, RecordEffect DEF JournalTypeOK, Positions
<1>2. CASE IsAt(t, j, "view.reviewed")
  <2>1. i \in Positions(t) /\ j \in Positions(t)
    BY <1>0, <1>1, <1>2, RecordKeepsEvents DEF IsAt, Positions
  <2>2. IsAt(t, i, "view.reviewed")
    BY <1>0, <2>1, RecordKeepsEvents DEF IsAt
  <2>3. PICK k \in (i + 1)..(j - 1) : IsAt(t, k, "view.captured")
    BY <1>2, <2>1, <2>2 DEF LifecycleInv, OneReviewPerCapture
  <2> QED BY <1>0, <2>3, RecordIsAt
<1>3. CASE t = s /\ j = Len(journal[s]) + 1 /\ e.type = "view.reviewed"
  <2>1. /\ Len(journal[s]) > 0
        /\ journal[s][Len(journal[s])].type \in {"view.captured", "view.compared"}
    BY <1>3 DEF Allowed
  <2>2. PICK k \in Positions(s) :
              /\ IsLast(s, k, "view.captured")
              /\ \A l \in Positions(s) : l > k => ~IsAt(s, l, "view.reviewed")
    BY <2>1, ReviewTarget
  <2>3. i \in Positions(s) /\ IsAt(s, i, "view.reviewed")
    BY <1>0, <1>1, <1>3, RecordKeepsEvents DEF IsAt, Positions
  <2>4. i # k
    BY <2>2, <2>3 DEF IsLast, IsAt
  <2>5. k \in (i + 1)..(j - 1)
    BY <1>0, <1>1, <1>3, <2>2, <2>3, <2>4, RecordKeepsEvents DEF Positions
  <2>6. IsAt(s, k, "view.captured")'
    BY <1>0, <2>2, RecordIsAt DEF IsLast
  <2> QED BY <1>3, <2>5, <2>6
<1> QED BY <1>0, <1>2, <1>3, RecordIsAt

LEMMA KeepsComparisonLinksConsecutiveCaptures ==
    ASSUME LifecycleInv, NEW s \in Streams, NEW e \in Events, Record(s, e), Allowed(s, e)
    PROVE  ComparisonLinksConsecutiveCaptures'
<1> SUFFICES ASSUME NEW t \in Streams, NEW i \in Positions(t)',
                    IsAt(t, i, "view.compared")'
             PROVE  /\ journal'[t][i].before # journal'[t][i].after
                    /\ \E a, b \in 1..(i - 1) :
                          /\ Consecutive(t, b, a)'
                          /\ \A k \in (a + 1)..(i - 1) : ~IsAt(t, k, "view.captured")'
                          /\ journal'[t][b].sha = journal'[t][i].before
                          /\ journal'[t][a].sha = journal'[t][i].after
  BY DEF ComparisonLinksConsecutiveCaptures
<1>0. JournalTypeOK
  BY DEF LifecycleInv
<1>1. ASSUME NEW a \in Positions(t), NEW b \in Positions(t), Consecutive(t, b, a)
      PROVE  Consecutive(t, b, a)'
  <2>1. IsAt(t, b, "view.captured")' /\ IsAt(t, a, "view.captured")' /\ b < a
    BY <1>0, <1>1, RecordIsAt DEF Consecutive
  <2>2. \A k \in (b + 1)..(a - 1) : ~IsAt(t, k, "view.captured")'
    BY <1>0, <1>1, RecordIsAt, RecordKeepsEvents DEF Consecutive, Positions
  <2> QED BY <2>1, <2>2 DEF Consecutive
<1>2. CASE IsAt(t, i, "view.compared")
  <2>1. i \in Positions(t) /\ i \in Nat /\ 1..(i - 1) \subseteq Positions(t)
    BY <1>0, <1>2, RecordKeepsEvents DEF IsAt, Positions
  <2>2. PICK a \in 1..(i - 1), b \in 1..(i - 1) :
              /\ Consecutive(t, b, a)
              /\ \A k \in (a + 1)..(i - 1) : ~IsAt(t, k, "view.captured")
              /\ journal[t][b].sha = journal[t][i].before
              /\ journal[t][a].sha = journal[t][i].after
    BY <1>2, <2>1 DEF LifecycleInv, ComparisonLinksConsecutiveCaptures
  <2>3. journal[t][i].before # journal[t][i].after
    BY <1>2, <2>1 DEF LifecycleInv, ComparisonLinksConsecutiveCaptures
  <2>4. /\ journal'[t][i] = journal[t][i]
        /\ journal'[t][a] = journal[t][a]
        /\ journal'[t][b] = journal[t][b]
    BY <1>0, <2>1, <2>2, RecordKeepsEvents
  <2>5. Consecutive(t, b, a)'
    BY <1>1, <2>1, <2>2
  <2>6. \A k \in (a + 1)..(i - 1) : ~IsAt(t, k, "view.captured")'
    BY <1>0, <2>1, <2>2, RecordIsAt, RecordKeepsEvents DEF Positions
  <2> QED BY <2>2, <2>3, <2>4, <2>5, <2>6
<1>3. CASE t = s /\ i = Len(journal[s]) + 1 /\ e.type = "view.compared"
  <2> DEFINE n == Len(journal[s])
  <2>1. PICK b \in Positions(s) :
              /\ Consecutive(s, b, n)
              /\ e.before = journal[s][b].sha
              /\ e.after = journal[s][n].sha
              /\ e.before # e.after
    BY <1>3 DEF Allowed
  <2>2. n \in Nat /\ n \in Positions(s) /\ n = i - 1 /\ b \in 1..(i - 1)
    BY <1>0, <1>3, <2>1 DEF Consecutive, IsAt, JournalTypeOK, Positions
  <2>3. /\ journal'[s][i] = e
        /\ journal'[s][n] = journal[s][n]
        /\ journal'[s][b] = journal[s][b]
    <3>1. journal'[s][Len(journal[s]) + 1] = e
      BY <1>0, RecordEffect
    <3>2. \A k \in Positions(s) : journal'[s][k] = journal[s][k]
      BY <1>0, RecordEffect
    <3> QED BY <1>3, <2>1, <2>2, <3>1, <3>2
  <2>4. Consecutive(s, b, i - 1)'
    <3>1. Consecutive(s, b, i - 1) /\ i - 1 \in Positions(s)
      BY <2>1, <2>2
    <3> QED BY <1>1, <1>3, <2>1, <3>1
  <2>5. \A k \in ((i - 1) + 1)..(i - 1) : FALSE
    BY <2>2
  <2>6. i - 1 \in 1..(i - 1)
    BY <2>2 DEF Positions
  <2>7. /\ journal'[s][b].sha = journal'[s][i].before
        /\ journal'[s][i - 1].sha = journal'[s][i].after
        /\ journal'[s][i].before # journal'[s][i].after
    BY <2>1, <2>2, <2>3
  <2> HIDE DEF n
  <2> QED BY <1>3, <2>2, <2>4, <2>5, <2>6, <2>7
<1> QED BY <1>0, <1>2, <1>3, RecordIsAt

\* Any record of an allowed event keeps every promise, whoever makes it.
LEMMA AllowedKeepsInv ==
    ASSUME LifecycleInv, NEW s \in Streams, NEW e \in Events, Record(s, e), Allowed(s, e)
    PROVE  LifecycleInv'
<1>1. JournalTypeOK /\ CurrentIsLatestCapture
  BY DEF LifecycleInv
<1>2. JournalTypeOK' /\ CurrentIsLatestCapture'
  BY <1>1, RecordEffect, RecordKeepsCurrent
<1> QED BY <1>2, KeepsComparisonFollowsCapture, KeepsReviewedIsCurrent,
           KeepsReviewJudgesLatestCapture, KeepsOneReviewPerCapture,
           KeepsComparisonLinksConsecutiveCaptures DEF LifecycleInv

LEMMA LifecycleInit == ASSUME JournalInit PROVE LifecycleInv
<1>1. \A s \in Streams : Positions(s) = {} /\ view[s].ReviewedSHA = NoSHA
  BY DEF JournalInit, Positions, initialViewState
<1> QED BY <1>1, JournalInitType, JournalInitCurrent
        DEF LifecycleInv, ComparisonFollowsCapture, ReviewedIsCurrent,
            ReviewJudgesLatestCapture, OneReviewPerCapture,
            ComparisonLinksConsecutiveCaptures

LEMMA LifecycleStutter == ASSUME LifecycleInv, UNCHANGED journalVars PROVE LifecycleInv'
    BY DEF journalVars, LifecycleInv, JournalTypeOK, CurrentIsLatestCapture,
           ComparisonFollowsCapture, ReviewedIsCurrent, ReviewJudgesLatestCapture,
           OneReviewPerCapture, ComparisonLinksConsecutiveCaptures, Consecutive,
           Positions, IsAt, IsLast

\* The strengthened invariant holds for any number of views, contents and
\* scores and histories of any length.
THEOREM LifecycleInvCorrect == LifecycleSpec => []LifecycleInv
<1>1. JournalInit => LifecycleInv
  BY LifecycleInit
<1>2. LifecycleInv /\ [LifecycleNext]_journalVars => LifecycleInv'
  BY LifecycleRecords, AllowedKeepsInv, LifecycleStutter
<1> QED BY <1>1, <1>2, PTL DEF LifecycleSpec

\* A review pass never journals a review of anything but the latest capture.
THEOREM ReviewsJudgeLatestCapture == LifecycleSpec => []ReviewJudgesLatestCapture
<1>1. LifecycleInv => ReviewJudgesLatestCapture
  BY DEF LifecycleInv
<1> QED BY <1>1, LifecycleInvCorrect, PTL

\* No capture is judged twice.
THEOREM ReviewsAreUnique == LifecycleSpec => []OneReviewPerCapture
<1>1. LifecycleInv => OneReviewPerCapture
  BY DEF LifecycleInv
<1> QED BY <1>1, LifecycleInvCorrect, PTL

\* Comparisons are of neighbouring captures with different contents.
THEOREM ComparisonsLinkCaptures == LifecycleSpec => []ComparisonLinksConsecutiveCaptures
<1>1. LifecycleInv => ComparisonLinksConsecutiveCaptures
  BY DEF LifecycleInv
<1> QED BY <1>1, LifecycleInvCorrect, PTL

\* ReviewedSHA never lags behind SHA256.
THEOREM ReviewedStaysCurrent == LifecycleSpec => []ReviewedIsCurrent
<1>1. LifecycleInv => ReviewedIsCurrent
  BY DEF LifecycleInv
<1> QED BY <1>1, LifecycleInvCorrect, PTL

\* All of these together: no legal history breaks a promise.
THEOREM HistoryIsAlwaysLegal == LifecycleSpec => []LegalHistory
<1>1. LifecycleInv => LegalHistory
  BY DEF LifecycleInv, LegalHistory
<1> QED BY <1>1, LifecycleInvCorrect, PTL

-----------------------------------------------------------------------------
(* ReviewPipeline. *)

\* The smallest of a set of numbers exists, so the next project and the next
\* view are ones of the set they are taken from.
LEMMA SmallestExists ==
    ASSUME NEW S \in SUBSET Nat, S # {}
    PROVE  SmallestOf(S) \in S /\ \A x \in S : SmallestOf(S) <= x
<1> DEFINE R == {ss \in Nat \X Nat : ss[1] < ss[2]}
<1>1. IsWellFoundedOn(R, Nat)
  BY NatLessThanWellFounded DEF OpToRel
<1>2. PICK x \in S : \A y \in S : ~ (<<y, x>> \in R)
  <2> HIDE DEF R
  <2> QED BY <1>1, WFMin
<1>3. \A y \in S : x <= y
  <2> TAKE y \in S
  <2>1. <<y, x>> \in Nat \X Nat /\ x \in Nat /\ y \in Nat
    OBVIOUS
  <2>2. ~(y < x)
    BY <1>2, <2>1
  <2> QED BY <2>1, <2>2
<1> QED BY <1>3 DEF SmallestOf

-----------------------------------------------------------------------------
\* Strengthening, the journal: a stream with a capture has a latest one.
LatestExists ==
    \A s \in Streams : \A i \in Positions(s) :
        IsAt(s, i, "view.captured") => \E j \in Positions(s) : IsLast(s, j, "view.captured")

\* The last event of the view in the pass is its latest capture, with the
\* ingested hash, and it follows a capture of a different content.
AfterRecorded ==
    LET n == Len(journal[current]) IN
    /\ IsAt(current, n, "view.captured")
    /\ journal[current][n].sha = sha
    /\ before.SHA256 # sha
    /\ \E i \in Positions(current) :
          Consecutive(current, i, n) /\ journal[current][i].sha = before.SHA256

\* The latest capture of the view has the ingested hash and no review.
AwaitsReview ==
    /\ Len(journal[current]) > 0
    /\ lastEvent.type \in {"view.captured", "view.compared"}
    /\ view[current].SHA256 = sha

LastEventIs(type) == Len(journal[current]) > 0 /\ lastEvent.type = type

\* Strengthening, the pass: nothing else appends to the stream of the view in
\* the pass, so what was folded before its ingest and what was recorded since
\* still hold.
LocalsMatchJournal ==
    /\ pc \in {"hash", "copy", "record"} => before = view[current]
    /\ pc = "compare" => AfterRecorded
    /\ pc \in {"compare", "writeCompare", "review"} => AwaitsReview
    /\ pc = "writeCompare" => LastEventIs("view.compared")
    /\ pc = "writeReview" => LastEventIs("view.reviewed") /\ lastEvent.sha = sha

PipelineInv ==
    /\ TypeOK
    /\ LifecycleInv
    /\ LatestExists
    /\ LocalsMatchJournal

\* In a view, the pass is at one of the configured streams.
LEMMA CurrentView == ASSUME PassTypeOK, InView PROVE current \in Streams
    BY DEF PassTypeOK, InView, current, Streams

LEMMA LastEventKind ==
    ASSUME JournalTypeOK, current \in Streams, NEW type, LastEventIs(type)
    PROVE  lastEvent \in Events /\ lastEvent.type = type
                /\ Len(journal[current]) \in Positions(current)
    BY JournalKinds DEF LastEventIs, lastEvent, JournalTypeOK, Positions

\* A capture is a step of the history, and so are the other two records where a
\* pass makes them; no other step of a pass or of its environment records.
LEMMA StepRefines ==
    ASSUME PipelineInv, Next
    PROVE  LifecycleNext \/ UNCHANGED journalVars
<1>0. PassTypeOK /\ EnvTypeOK /\ JournalTypeOK /\ LocalsMatchJournal
  BY DEF PipelineInv, TypeOK
<1>1. CASE RecordCaptured
  <2>1. current \in Streams /\ sha \in Contents
    BY <1>0, <1>1, CurrentView DEF RecordCaptured, PassTypeOK, InView, Steps
  <2> QED BY <1>1, <2>1 DEF RecordCaptured, LifecycleNext, Capture
<1>2. CASE AutoCompare
  <2>1. current \in Streams /\ minute \in Minutes
    BY <1>0, <1>2, CurrentView DEF AutoCompare, InView, Steps, EnvTypeOK
  <2>2. AfterRecorded
    BY <1>0, <1>2 DEF AutoCompare, LocalsMatchJournal
  <2>3. Compare(current)
    BY <1>2, <2>1, <2>2 DEF AutoCompare, AfterRecorded, Compare
  <2> QED BY <2>1, <2>3 DEF LifecycleNext
<1>3. CASE ReviewCapture
  <2>1. current \in Streams
    BY <1>0, <1>3, CurrentView DEF ReviewCapture, InView, Steps
  <2>2. AwaitsReview
    BY <1>0, <1>3 DEF ReviewCapture, LocalsMatchJournal
  <2>3. Review(current)
    BY <1>3, <2>2 DEF ReviewCapture, AwaitsReview, lastEvent, Review
  <2> QED BY <2>1, <2>3 DEF LifecycleNext
<1>4. CASE StartPass \/ AbortPass \/ ScanProject \/ EndPass \/ SkipView \/ LoadFails
           \/ BeginView \/ HashCapture \/ CopyBlob \/ IngestFails \/ WriteComparison
           \/ CompareFails \/ WriteViewReview \/ ReviewFails \/ RefreshIndex
           \/ RefreshIndexFails \/ CutShort \/ Stop \/ Recover
  BY <1>4 DEF StartPass, AbortPass, ScanProject, EndPass, SkipView, LoadFails, BeginView,
              HashCapture, CopyBlob, IngestFails, WriteComparison, CompareFails,
              WriteViewReview, ReviewFails, RefreshIndex, RefreshIndexFails, CutShort,
              Stop, Recover, Restart
<1>5. CASE Environment
  BY <1>5 DEF Environment, Start, Restart, Cancel, Crash, Tick, EditFile
<1> QED BY <1>1, <1>2, <1>3, <1>4, <1>5 DEF Next, PassStep

\* The part of the invariant that is about the journal alone.
LEMMA StepKeepsHistory ==
    ASSUME PipelineInv, [Next]_vars
    PROVE  LifecycleInv' /\ LatestExists'
<1>0. LifecycleInv /\ JournalTypeOK
  BY DEF PipelineInv, TypeOK
<1>1. LifecycleNext \/ UNCHANGED journalVars
  BY StepRefines DEF vars
<1>2. CASE LifecycleNext
  <2>1. PICK s \in Streams, e \in Events : Record(s, e) /\ Allowed(s, e)
    BY <1>0, <1>2, LifecycleRecords
  <2>2. LifecycleInv'
    BY <1>0, <2>1, AllowedKeepsInv
  <2>3. ASSUME NEW t \in Streams, NEW i \in Positions(t)', IsAt(t, i, "view.captured")'
        PROVE  \E j \in Positions(t)' : IsLast(t, j, "view.captured")'
    <3>1. CASE t = s /\ e.type = "view.captured"
      <4>1. PICK n : n = Len(journal[s]) + 1
        OBVIOUS
      <4>2. n \in Nat /\ Positions(s)' = 1..n /\ n \in Positions(s)'
        BY <1>0, <2>1, <4>1, RecordKeepsEvents
      <4>3. IsAt(s, n, "view.captured")'
        BY <1>0, <2>1, <3>1, <4>1, RecordIsAt
      <4>4. IsLast(s, n, "view.captured")'
        BY <4>2, <4>3 DEF IsLast
      <4> QED BY <3>1, <4>2, <4>4
    <3>2. CASE ~(t = s /\ e.type = "view.captured")
      <4>1. \A k : IsAt(t, k, "view.captured")' <=> IsAt(t, k, "view.captured")
        BY <1>0, <2>1, <3>2, RecordIsAt
      <4>2. PICK j \in Positions(t) : IsLast(t, j, "view.captured")
        BY <2>3, <4>1 DEF PipelineInv, LatestExists, IsAt
      <4>3. IsLast(t, j, "view.captured")'
        BY <4>1, <4>2 DEF IsLast, IsAt
      <4> QED BY <4>3 DEF IsLast, IsAt
    <3> QED BY <3>1, <3>2
  <2> QED BY <2>2, <2>3 DEF LatestExists
<1>3. CASE UNCHANGED journalVars
  <2>1. LifecycleInv'
    BY <1>0, <1>3, LifecycleStutter
  <2>2. LatestExists'
    BY <1>3 DEF PipelineInv, LatestExists, journalVars, Positions, IsAt, IsLast
  <2> QED BY <2>1, <2>2
<1> QED BY <1>1, <1>2, <1>3

-----------------------------------------------------------------------------
\* The disk, the environment and the locals keep their types in every step.
LEMMA StepKeepsDiskType ==
    ASSUME TypeOK, Next,
           pc = "writeCompare" => LastEventIs("view.compared"),
           pc = "writeReview" => LastEventIs("view.reviewed")
    PROVE  DiskTypeOK'
<1>0. DiskTypeOK /\ PassTypeOK /\ EnvTypeOK /\ JournalTypeOK
  BY DEF TypeOK
<1>1. CASE CopyBlob
  <2>1. current \in Streams /\ files[current] \in Contents /\ sha \in Contents
    BY <1>0, <1>1, CurrentView DEF CopyBlob, PassTypeOK, DiskTypeOK, InView, Steps
  <2> QED BY <1>0, <1>1, <2>1 DEF CopyBlob, DiskTypeOK
<1>2. CASE WriteComparison
  <2>1. current \in Streams /\ LastEventIs("view.compared")
    BY <1>0, <1>2, CurrentView DEF WriteComparison, InView, Steps
  <2>2. /\ lastEvent.at \in Minutes
        /\ RenderComparison(lastEvent) \in [before : Contents, after : Contents]
    BY <1>0, <2>1, LastEventKind, EventKinds DEF RenderComparison
  <2>3. /\ comparisons' = [comparisons EXCEPT ![current][lastEvent.at] =
                                              RenderComparison(lastEvent)]
        /\ UNCHANGED <<files, blobs, reviews, index>>
    BY <1>2 DEF WriteComparison
  <2> QED BY <1>0, <2>1, <2>2, <2>3 DEF DiskTypeOK
<1>3. CASE WriteViewReview
  <2>1. current \in Streams /\ sha \in Contents /\ LastEventIs("view.reviewed")
    BY <1>0, <1>3, CurrentView
    DEF WriteViewReview, InView, Steps, PassTypeOK
  <2>2. RenderViewReview(sha, lastEvent)
            \in [captured : Contents, sha : Contents, score : Scores]
    BY <1>0, <2>1, LastEventKind, EventKinds DEF RenderViewReview
  <2>3. /\ reviews' = [reviews EXCEPT ![current] = RenderViewReview(sha, lastEvent)]
        /\ UNCHANGED <<files, blobs, comparisons, index>>
    BY <1>3 DEF WriteViewReview
  <2> QED BY <1>0, <2>1, <2>2, <2>3 DEF DiskTypeOK
<1>4. CASE RefreshIndex
  <2>1. project \in Projects /\ DOMAIN scan \in SUBSET Keys
    BY <1>0, <1>4 DEF RefreshIndex, PassTypeOK
  <2>2. \A k \in DOMAIN scan : IndexRow(view[<<project, k>>]) \in [Score : Scores, Previous : Scores]
    BY <1>0, <2>1 DEF IndexRow, JournalTypeOK, ViewState, Streams
  <2> DEFINE rows == [k \in DOMAIN scan |-> IndexRow(view[<<project, k>>])]
  <2>3. rows \in UNION {[K -> [Score : Scores, Previous : Scores]] : K \in SUBSET Keys}
    BY <2>1, <2>2
  <2>4. index' = [index EXCEPT ![project] = rows] /\ UNCHANGED <<files, blobs, reviews, comparisons>>
    BY <1>4 DEF RefreshIndex
  <2> HIDE DEF rows
  <2> QED BY <1>0, <2>1, <2>3, <2>4 DEF DiskTypeOK
<1>5. CASE \E s \in Streams : EditFile(s)
  BY <1>0, <1>5 DEF EditFile, DiskTypeOK
<1>6. CASE StartPass \/ AbortPass \/ ScanProject \/ EndPass \/ SkipView \/ LoadFails
           \/ BeginView \/ HashCapture \/ IngestFails \/ RecordCaptured \/ AutoCompare
           \/ CompareFails \/ ReviewCapture \/ ReviewFails
           \/ RefreshIndexFails \/ CutShort \/ Stop \/ Recover
           \/ Start \/ Cancel \/ Crash \/ Tick
  <2>1. UNCHANGED diskVars
    BY <1>6 DEF StartPass, AbortPass, ScanProject, EndPass, SkipView, LoadFails, BeginView,
              HashCapture, IngestFails, RecordCaptured, AutoCompare, CompareFails,
              ReviewCapture, ReviewFails, RefreshIndexFails, CutShort,
              Stop, Recover, Start, Restart, Cancel, Crash, Tick
  <2> QED BY <1>0, <2>1 DEF diskVars, DiskTypeOK
<1> QED BY <1>1, <1>2, <1>3, <1>4, <1>5, <1>6 DEF Next, PassStep, Environment

\* What a pass folded and recorded for the view it is at stays what the journal
\* holds of it.
LEMMA StepKeepsLocals ==
    ASSUME PipelineInv, Next
    PROVE  LocalsMatchJournal'
<1>0. DiskTypeOK /\ PassTypeOK /\ EnvTypeOK /\ JournalTypeOK /\ LocalsMatchJournal
  BY DEF PipelineInv, TypeOK
<1>1. CASE RecordCaptured
  <2>1. /\ current \in Streams /\ sha \in Contents /\ before = view[current]
        /\ Record(current, Captured(sha)) /\ UNCHANGED <<project, key, sha, before>>
        /\ pc' = IF Changed(before, sha) THEN "compare" ELSE "review"
    BY <1>0, <1>1, CurrentView DEF RecordCaptured, RecordCapture, PassTypeOK, InView, Steps,
       LocalsMatchJournal, projectVars, iterVars
  <2>2. PICK n : n = Len(journal[current]) + 1
    OBVIOUS
  <2>3. /\ current' = current /\ Captured(sha) \in Events
        /\ Captured(sha).type = "view.captured" /\ Captured(sha).sha = sha
    BY <2>1 DEF current, Events, Captured
  <2>4. /\ n \in Nat \ {0} /\ Len(journal'[current]) = n /\ Positions(current)' = 1..n
        /\ journal'[current][n] = Captured(sha)
    BY <1>0, <2>1, <2>2, <2>3, RecordEffect DEF JournalTypeOK, Positions
  <2>5. view'[current].SHA256 = sha
    <3>1. view'[current] = ApplyViewState(view[current], Captured(sha))
      BY <1>0, <2>1, <2>3, RecordEffect
    <3>2. view'[current] = ApplyCaptured(view[current], Captured(sha))
      BY <2>3, <3>1 DEF ApplyViewState
    <3> QED BY <1>0, <2>1, <2>3, <3>2 DEF ApplyCaptured, JournalTypeOK, ViewState
  <2>6. AwaitsReview'
    BY <2>1, <2>3, <2>4, <2>5 DEF AwaitsReview, lastEvent
  <2>7. ASSUME Changed(before, sha)
        PROVE  AfterRecorded'
    <3>1. view[current].SHA256 # NoSHA /\ view[current].SHA256 # sha
      BY <2>1, <2>7 DEF Changed
    <3>2. PICK j \in Positions(current) : IsLast(current, j, "view.captured")
      BY <2>1, <3>1 DEF PipelineInv, LifecycleInv, CurrentIsLatestCapture, LatestExists
    <3>3. journal[current][j].sha = before.SHA256
      BY <2>1, <3>2 DEF PipelineInv, LifecycleInv, CurrentIsLatestCapture
    <3>4. IsAt(current, n, "view.captured")' /\ IsAt(current, j, "view.captured")'
      BY <1>0, <2>1, <2>2, <2>3, <3>2, RecordIsAt DEF IsLast
    <3>5. j < n /\ \A k \in (j + 1)..(n - 1) : ~IsAt(current, k, "view.captured")'
      <4>1. \A k : IsAt(current, k, "view.captured")'
                      <=> IsAt(current, k, "view.captured") \/ k = n
        BY <1>0, <2>1, <2>2, <2>3, RecordIsAt
      <4>2. j \in Nat /\ j < n /\ Positions(current) = 1..(n - 1)
        BY <1>0, <2>1, <2>2, <2>4 DEF JournalTypeOK, Positions
      <4>3. \A k \in (j + 1)..(n - 1) : ~IsAt(current, k, "view.captured")
        BY <2>4, <3>2, <4>2 DEF IsLast
      <4> QED BY <2>4, <4>1, <4>2, <4>3
    <3>6. Consecutive(current, j, n)'
      BY <2>3, <3>4, <3>5 DEF Consecutive
    <3>7. journal'[current][j].sha = before.SHA256 /\ j \in Positions(current)'
      BY <1>0, <2>1, <2>3, <3>2, <3>3, RecordKeepsEvents
    <3> QED BY <2>1, <2>3, <2>4, <3>1, <3>4, <3>6, <3>7 DEF AfterRecorded
  <2> QED BY <2>1, <2>6, <2>7 DEF LocalsMatchJournal
<1>2. CASE AutoCompare
  <2>1. /\ current \in Streams /\ AfterRecorded /\ AwaitsReview /\ pc' = "writeCompare"
        /\ RecordComparison(current, before.SHA256, sha, minute) /\ minute \in Minutes
        /\ UNCHANGED <<project, key, sha, before>>
    BY <1>0, <1>2, CurrentView DEF AutoCompare, InView, Steps, EnvTypeOK, LocalsMatchJournal,
       projectVars, iterVars
  <2> DEFINE e == Compared(before.SHA256, sha, minute)
  <2>2. before.SHA256 \in Contents /\ sha \in Contents
    <3>1. PICK i \in Positions(current) : /\ IsAt(current, i, "view.captured")
                                          /\ journal[current][i].sha = before.SHA256
      BY <2>1 DEF AfterRecorded, Consecutive
    <3>2. journal[current][i] \in Events /\ journal[current][i].type = "view.captured"
      BY <1>0, <2>1, <3>1, JournalKinds DEF IsAt
    <3>3. before.SHA256 \in Contents
      BY <3>1, <3>2, EventKinds
    <3>4. sha \in Contents
      BY <1>0, <1>2 DEF AutoCompare, PassTypeOK, InView, Steps
    <3> QED BY <3>3, <3>4
  <2>3. e \in Events /\ e.type = "view.compared" /\ Record(current, e) /\ current' = current
    BY <2>1, <2>2 DEF Events, Compared, RecordComparison, current
  <2> HIDE DEF e
  <2>4. /\ Len(journal'[current]) > 0
        /\ journal'[current][Len(journal'[current])] = e
        /\ view'[current] = ApplyCompared(view[current], e)
    <3>1. /\ Len(journal[current]) \in Nat
          /\ Len(journal'[current]) = Len(journal[current]) + 1
          /\ journal'[current][Len(journal[current]) + 1] = e
          /\ view'[current] = ApplyViewState(view[current], e)
      BY <1>0, <2>1, <2>3, RecordEffect DEF JournalTypeOK
    <3>2. ApplyViewState(view[current], e) = ApplyCompared(view[current], e)
      BY <2>3 DEF ApplyViewState
    <3> QED BY <3>1, <3>2
  <2>5. view'[current].SHA256 = sha
    BY <1>0, <2>1, <2>4 DEF ApplyCompared, AwaitsReview, JournalTypeOK, ViewState
  <2>6. AwaitsReview' /\ LastEventIs("view.compared")'
    BY <2>1, <2>3, <2>4, <2>5 DEF AwaitsReview, LastEventIs, lastEvent
  <2> QED BY <2>1, <2>6 DEF LocalsMatchJournal
<1>3. CASE WriteComparison \/ CompareFails
  <2>1. /\ AwaitsReview /\ pc' = "review"
        /\ UNCHANGED <<journal, view, project, key, sha>>
    BY <1>0, <1>3 DEF WriteComparison, CompareFails, LocalsMatchJournal, projectVars, iterVars,
       journalVars
  <2>2. AwaitsReview'
    BY <2>1 DEF AwaitsReview, lastEvent, current
  <2> QED BY <2>1, <2>2 DEF LocalsMatchJournal
<1>4. CASE BeginView
  BY <1>4 DEF BeginView, LocalsMatchJournal, current, projectVars, journalVars
<1>5. CASE HashCapture \/ CopyBlob
  <2>1. /\ before = view[current] /\ pc' \in {"copy", "record"}
        /\ UNCHANGED <<view, project, key, before>>
    BY <1>0, <1>5 DEF HashCapture, CopyBlob, LocalsMatchJournal, projectVars, iterVars, journalVars
  <2> QED BY <2>1 DEF LocalsMatchJournal, current
<1>6. CASE ReviewCapture
  <2>1. PICK score \in Scores : RecordReview(current, sha, score)
    BY <1>6 DEF ReviewCapture
  <2>2. /\ current \in Streams /\ sha \in Contents /\ pc' = "writeReview"
        /\ UNCHANGED <<project, key, sha>>
    BY <1>0, <1>6, CurrentView DEF ReviewCapture, InView, Steps, PassTypeOK, projectVars, iterVars
  <2> DEFINE e == Reviewed(sha, score)
  <2>3. /\ e \in Events /\ e.type = "view.reviewed" /\ e.sha = sha
        /\ Record(current, e) /\ current' = current
    BY <2>1, <2>2 DEF Events, Reviewed, RecordReview, current
  <2> HIDE DEF e
  <2>4. /\ Len(journal'[current]) > 0
        /\ journal'[current][Len(journal'[current])] = e
    BY <1>0, <2>2, <2>3, RecordEffect DEF JournalTypeOK
  <2>5. (LastEventIs("view.reviewed") /\ lastEvent.sha = sha)'
    BY <2>2, <2>3, <2>4 DEF LastEventIs, lastEvent
  <2> QED BY <2>2, <2>5 DEF LocalsMatchJournal
<1>7. CASE StartPass \/ ScanProject \/ EndPass \/ IngestFails
           \/ WriteViewReview \/ ReviewFails \/ RefreshIndex \/ RefreshIndexFails \/ CutShort
           \/ Stop \/ Recover \/ Start \/ Crash \/ SkipView \/ LoadFails
  <2>1. ~InView' /\ pc' # "hash"
    BY <1>7 DEF StartPass, ScanProject, EndPass, IngestFails, WriteViewReview, ReviewFails,
       RefreshIndex, RefreshIndexFails, CutShort, Stop, Recover, Start, Restart, Crash, SkipView,
       LoadFails, EndIteration, AtNextView, InView, Steps
  <2> QED BY <2>1 DEF InView, Steps, LocalsMatchJournal
<1>8. CASE AbortPass \/ Cancel \/ Tick \/ \E s \in Streams : EditFile(s)
  <2>1. UNCHANGED <<journal, view, pc, project, key, sha, before>>
    BY <1>8 DEF AbortPass, Cancel, Tick, EditFile, projectVars, iterVars, journalVars
  <2> QED BY <1>0, <2>1 DEF LocalsMatchJournal, AfterRecorded, AwaitsReview, LastEventIs,
          lastEvent, current, Consecutive, IsAt, Positions
<1> QED BY <1>1, <1>2, <1>3, <1>4, <1>5, <1>6, <1>7, <1>8 DEF Next, PassStep, Environment

LEMMA NewViewState == initialViewState \in ViewState
    BY ConstantsAssumption DEF initialViewState, ViewState

\* Counting in a result.
LEMMA ResultCounts ==
    ASSUME NEW r \in [DOMAIN EmptyResult -> Nat], NEW n \in Nat
    PROVE  /\ EmptyResult \in [DOMAIN EmptyResult -> Nat]
           /\ [r EXCEPT !.Projects = @ + 1] \in [DOMAIN EmptyResult -> Nat]
           /\ [r EXCEPT !.Projects = @ + 1, !.Views = @ + n] \in [DOMAIN EmptyResult -> Nat]
           /\ [r EXCEPT !.Captured = @ + 1] \in [DOMAIN EmptyResult -> Nat]
           /\ [r EXCEPT !.Skipped = @ + 1] \in [DOMAIN EmptyResult -> Nat]
           /\ [r EXCEPT !.Reviewed = @ + 1] \in [DOMAIN EmptyResult -> Nat]
           /\ [r EXCEPT !.Compared = @ + 1] \in [DOMAIN EmptyResult -> Nat]
           /\ [r EXCEPT !.Pending = @ + 1] \in [DOMAIN EmptyResult -> Nat]
<1>1. DOMAIN EmptyResult = {"Projects", "Views", "Captured", "Skipped", "Reviewed",
                            "Compared", "Pending"}
  BY DEF EmptyResult
<1>2. r.Projects \in Nat /\ r.Views \in Nat /\ r.Captured \in Nat /\ r.Skipped \in Nat
      /\ r.Reviewed \in Nat /\ r.Compared \in Nat /\ r.Pending \in Nat
  BY <1>1
<1>3. EmptyResult \in [DOMAIN EmptyResult -> Nat]
  BY DEF EmptyResult
<1>4. [r EXCEPT !.Projects = @ + 1] \in [DOMAIN EmptyResult -> Nat]
  BY <1>1, <1>2
<1>5. [r EXCEPT !.Projects = @ + 1, !.Views = @ + n] \in [DOMAIN EmptyResult -> Nat]
  <2>1. r.Projects + 1 \in Nat /\ r.Views + n \in Nat
    BY <1>2
  <2> QED BY <1>1, <2>1
<1>6. [r EXCEPT !.Captured = @ + 1] \in [DOMAIN EmptyResult -> Nat]
  BY <1>1, <1>2
<1>7. [r EXCEPT !.Skipped = @ + 1] \in [DOMAIN EmptyResult -> Nat]
  BY <1>1, <1>2
<1>8. [r EXCEPT !.Reviewed = @ + 1] \in [DOMAIN EmptyResult -> Nat]
  BY <1>1, <1>2
<1>9. [r EXCEPT !.Compared = @ + 1] \in [DOMAIN EmptyResult -> Nat]
  BY <1>1, <1>2
<1>10. [r EXCEPT !.Pending = @ + 1] \in [DOMAIN EmptyResult -> Nat]
  BY <1>1, <1>2
<1> QED BY <1>3, <1>4, <1>5, <1>6, <1>7, <1>8, <1>9, <1>10

LEMMA NothingScanned == <<>> \in UNION {[K -> Contents] : K \in SUBSET Keys}
<1>1. <<>> \in [{} -> Contents]
  OBVIOUS
<1> QED BY <1>1

LEMMA StepKeepsEnvType ==
    ASSUME EnvTypeOK, Next
    PROVE  EnvTypeOK'
<1>0. EnvTypeOK
  OBVIOUS
<1>1. CASE StartPass \/ EndPass \/ SkipView \/ BeginView \/ HashCapture \/ CopyBlob
           \/ RecordCaptured \/ AutoCompare \/ WriteComparison \/ ReviewCapture
           \/ WriteViewReview \/ RefreshIndex \/ CutShort \/ Stop \/ Recover \/ Start
  <2>1. UNCHANGED <<envVars, failures>>
    BY <1>1 DEF StartPass, EndPass, SkipView, BeginView, HashCapture, CopyBlob,
       RecordCaptured, AutoCompare, WriteComparison, ReviewCapture, WriteViewReview,
       RefreshIndex, CutShort, Stop, Recover, Start, Restart
  <2> QED BY <1>0, <2>1 DEF envVars, EnvTypeOK
<1>2. CASE AbortPass \/ LoadFails \/ IngestFails \/ CompareFails \/ ReviewFails
           \/ RefreshIndexFails \/ ScanProject
  <2>1. UNCHANGED envVars /\ (failures' = failures + 1 \/ UNCHANGED failures)
    BY <1>2 DEF AbortPass, LoadFails, IngestFails, CompareFails, ReviewFails,
       RefreshIndexFails, ScanProject, DiskFault, CallFault, EndIteration
  <2> QED BY <1>0, <2>1 DEF envVars, EnvTypeOK
<1>3. CASE Cancel \/ Crash \/ Tick
  BY <1>0, <1>3 DEF Cancel, Crash, Tick, EnvTypeOK
<1>4. CASE \E s \in Streams : EditFile(s)
  BY <1>0, <1>4 DEF EditFile, EnvTypeOK
<1> QED BY <1>1, <1>2, <1>3, <1>4 DEF Next, PassStep, Environment

LEMMA StepKeepsPassType ==
    ASSUME TypeOK, Next
    PROVE  PassTypeOK'
<1>0. DiskTypeOK /\ PassTypeOK /\ JournalTypeOK
  BY DEF TypeOK
<1>1. CASE StartPass
  BY <1>0, <1>1, ResultCounts DEF StartPass, PassTypeOK, InView, Steps, iterVars
<1>2. CASE AbortPass
  BY <1>0, <1>2, ResultCounts DEF AbortPass, PassTypeOK, InView, Steps, iterVars, projectVars
<1>3. CASE ScanProject
  <2> DEFINE p == SmallestOf(queue)
             present == {k \in Keys : files[<<p, k>>] # None}
  <2>1. p \in Projects
    BY <1>0, <1>3, ConstantsAssumption, SmallestExists DEF ScanProject, PassTypeOK
  <2>2. PICK found \in SUBSET present :
            /\ queue' = queue \ {p}
            /\ IF found = {}
               THEN /\ result' = [result EXCEPT !.Projects = @ + 1]
                    /\ UNCHANGED <<pc, project, scan, todo, errs>>
               ELSE /\ pc' = "view"
                    /\ project' = p
                    /\ scan' = [k \in found |-> files[<<p, k>>]]
                    /\ todo' = found
                    /\ errs' = FALSE
                    /\ result' = [result EXCEPT !.Projects = @ + 1,
                                                !.Views = @ + Cardinality(found)]
    BY <1>3 DEF ScanProject
  <2>3. pc = "scan" /\ UNCHANGED <<ctxDone, key, before, sha>>
    BY <1>3 DEF ScanProject, iterVars
  <2>4. found \in SUBSET Keys /\ Cardinality(found) \in Nat
    BY <2>2, PipelineAssumption, FS_Subset, FS_CardinalityType
  <2>5. result' \in [DOMAIN EmptyResult -> Nat]
    <3>1. PICK n \in Nat : n = Cardinality(found)
      BY <2>4
    <3>2. \/ result' = [result EXCEPT !.Projects = @ + 1]
          \/ result' = [result EXCEPT !.Projects = @ + 1, !.Views = @ + n]
      BY <2>2, <3>1
    <3>3. result \in [DOMAIN EmptyResult -> Nat]
      BY <1>0 DEF PassTypeOK
    <3>4. /\ [result EXCEPT !.Projects = @ + 1] \in [DOMAIN EmptyResult -> Nat]
          /\ [result EXCEPT !.Projects = @ + 1, !.Views = @ + n] \in [DOMAIN EmptyResult -> Nat]
      BY <3>3, ResultCounts
    <3> QED BY <3>2, <3>4
  <2>6. \A k \in found : files[<<p, k>>] \in Contents
    BY <1>0, <2>1, <2>2 DEF DiskTypeOK, Streams
  <2>7. CASE found = {}
    <3>1. UNCHANGED <<pc, project, scan, todo, errs>> /\ queue' \subseteq Projects
      BY <1>0, <2>2, <2>7 DEF PassTypeOK
    <3> HIDE DEF p, present
    <3> QED BY <1>0, <2>3, <2>5, <3>1 DEF PassTypeOK, InView, Steps
  <2>8. CASE found # {}
    <3>1. /\ pc' = "view" /\ project' = p /\ todo' = found /\ errs' = FALSE
          /\ scan' = [k \in found |-> files[<<p, k>>]] /\ queue' \subseteq Projects
      BY <1>0, <2>2, <2>8 DEF PassTypeOK
    <3>2. scan' \in [found -> Contents] /\ todo' \subseteq DOMAIN scan'
      BY <2>6, <3>1
    <3>3. scan' \in UNION {[K -> Contents] : K \in SUBSET Keys}
      BY <2>4, <3>2
    <3> HIDE DEF p, present
    <3> QED BY <1>0, <2>1, <2>3, <2>5, <3>1, <3>2, <3>3 DEF PassTypeOK, InView, Steps
  <2> QED BY <2>7, <2>8
<1>4. CASE EndPass
  BY <1>0, <1>4, NothingScanned DEF EndPass, PassTypeOK, InView, Steps, iterVars
<1>5. CASE SkipView
  BY <1>0, <1>5, ResultCounts DEF SkipView, AtNextView, PassTypeOK, InView, Steps, iterVars, projectVars
<1>6. CASE LoadFails
  BY <1>0, <1>6 DEF LoadFails, AtNextView, PassTypeOK, InView, Steps, iterVars, projectVars
<1>7. CASE BeginView
  <2>1. todo \in SUBSET Nat /\ todo \subseteq Keys /\ todo # {}
    BY <1>0, <1>7, ConstantsAssumption DEF BeginView, AtNextView, PassTypeOK
  <2>2. NextKey \in Keys
    BY <2>1, SmallestExists DEF NextKey
  <2>3. view[<<project, NextKey>>] \in ViewState
    BY <1>0, <1>7, <2>2 DEF BeginView, AtNextView, PassTypeOK, JournalTypeOK, Streams
  <2> QED BY <1>0, <1>7, <2>2, <2>3 DEF BeginView, AtNextView, PassTypeOK, InView, Steps, projectVars
<1>8. CASE HashCapture
  <2>1. current \in Streams
    BY <1>0, <1>8, CurrentView DEF HashCapture, InView, Steps
  <2>2. sha' \in Contents
    BY <1>0, <1>8, <2>1 DEF HashCapture, DiskTypeOK
  <2> QED BY <1>0, <1>8, <2>2 DEF HashCapture, PassTypeOK, InView, Steps, projectVars
<1>9. CASE CopyBlob
  BY <1>0, <1>9 DEF CopyBlob, PassTypeOK, InView, Steps, iterVars, projectVars
<1>10. CASE IngestFails
  BY <1>0, <1>10, NewViewState DEF IngestFails, EndIteration, PassTypeOK, InView, Steps, projectVars
<1>11. CASE RecordCaptured
  BY <1>0, <1>11, ResultCounts DEF RecordCaptured, PassTypeOK, InView, Steps, iterVars, projectVars
<1>12. CASE AutoCompare
  BY <1>0, <1>12 DEF AutoCompare, PassTypeOK, InView, Steps, iterVars, projectVars
<1>13. CASE WriteComparison
  BY <1>0, <1>13, ResultCounts DEF WriteComparison, PassTypeOK, InView, Steps, iterVars, projectVars
<1>14. CASE CompareFails
  BY <1>0, <1>14 DEF CompareFails, PassTypeOK, InView, Steps, iterVars, projectVars
<1>15. CASE ReviewCapture
  BY <1>0, <1>15 DEF ReviewCapture, PassTypeOK, InView, Steps, iterVars, projectVars
<1>16. CASE WriteViewReview
  BY <1>0, <1>16, ResultCounts, NewViewState
  DEF WriteViewReview, EndIteration, PassTypeOK, InView, Steps, projectVars
<1>17. CASE ReviewFails
  BY <1>0, <1>17, ResultCounts, NewViewState
  DEF ReviewFails, EndIteration, PassTypeOK, InView, Steps, projectVars
<1>18. CASE RefreshIndex \/ RefreshIndexFails
  BY <1>0, <1>18 DEF RefreshIndex, RefreshIndexFails, PassTypeOK, InView, Steps, iterVars, projectVars
<1>19. CASE CutShort
  BY <1>0, <1>19 DEF CutShort, PassTypeOK, InView, Steps, iterVars, projectVars
<1>20. CASE Stop \/ Recover \/ Start
  BY <1>0, <1>20 DEF Stop, Recover, Start, Restart, PassTypeOK, InView, Steps, iterVars, projectVars
<1>21. CASE Crash
  BY <1>0, <1>21, NothingScanned, ResultCounts, NewViewState DEF Crash, PassTypeOK, InView, Steps
<1>22. CASE Cancel \/ Tick \/ \E s \in Streams : EditFile(s)
  BY <1>0, <1>22 DEF Cancel, Tick, EditFile, PassTypeOK, InView, Steps, iterVars, projectVars
<1> QED BY <1>1, <1>2, <1>3, <1>4, <1>5, <1>6, <1>7, <1>8, <1>9, <1>10, <1>11, <1>12, <1>13,
           <1>14, <1>15, <1>16, <1>17, <1>18, <1>19, <1>20, <1>21, <1>22
        DEF Next, PassStep, Environment

LEMMA PipelineInit == ASSUME Init PROVE PipelineInv
<1>1. LifecycleInv /\ \A s \in Streams : Positions(s) = {}
  BY LifecycleInit DEF Init, JournalInit, Positions
<1>2. PassTypeOK
  <2>1. pc \in Steps /\ ~InView /\ pc = "idle"
    BY DEF Init, InView, Steps
  <2>2. EmptyResult \in [DOMAIN EmptyResult -> Nat]
    BY DEF EmptyResult
  <2> QED BY <2>1, <2>2, NothingScanned, NewViewState DEF Init, PassTypeOK
<1>3. DiskTypeOK /\ EnvTypeOK
  BY DEF Init, DiskTypeOK, EnvTypeOK
<1>4. LatestExists /\ LocalsMatchJournal
  BY <1>1 DEF Init, LatestExists, LocalsMatchJournal
<1> QED BY <1>1, <1>2, <1>3, <1>4 DEF PipelineInv, TypeOK, LifecycleInv

LEMMA PipelineStep == ASSUME PipelineInv, [Next]_vars PROVE PipelineInv'
<1>1. LifecycleInv' /\ LatestExists'
  BY StepKeepsHistory
<1>2. JournalTypeOK'
  BY <1>1 DEF LifecycleInv
<1>3. CASE Next
  <2>1. DiskTypeOK'
    BY <1>3, StepKeepsDiskType DEF PipelineInv, LocalsMatchJournal
  <2>2. PassTypeOK' /\ EnvTypeOK'
    BY <1>3, StepKeepsEnvType, StepKeepsPassType DEF PipelineInv, TypeOK
  <2> QED BY <1>1, <1>2, <1>3, <2>1, <2>2, StepKeepsLocals DEF PipelineInv, TypeOK
<1>4. CASE UNCHANGED vars
  <2>1. DiskTypeOK' /\ EnvTypeOK' /\ PassTypeOK'
    BY <1>4 DEF PipelineInv, TypeOK, vars, diskVars, envVars, projectVars, iterVars,
       DiskTypeOK, EnvTypeOK, PassTypeOK, InView
  <2>2. LocalsMatchJournal'
    BY <1>4 DEF PipelineInv, vars, projectVars, iterVars, journalVars, LocalsMatchJournal,
       AfterRecorded, AwaitsReview, LastEventIs, lastEvent, current, Consecutive, IsAt, Positions
  <2> QED BY <1>1, <1>2, <2>1, <2>2 DEF PipelineInv, TypeOK
<1> QED BY <1>3, <1>4

\* The invariant holds whatever fails, is cancelled, crashes or is overwritten.
THEOREM PipelineInvCorrect == Spec => []PipelineInv
<1> QED BY PipelineInit, PipelineStep, PTL DEF Spec

\* Every variable keeps its type.
THEOREM TypeCorrect == Spec => []TypeOK
<1>1. PipelineInv => TypeOK
  BY DEF PipelineInv
<1> QED BY <1>1, PipelineInvCorrect, PTL

\* A review in the journal is of the capture recorded last before it, also when
\* the screenshot was overwritten during the pass or the last pass crashed.
THEOREM PassesReviewLatestCapture == Spec => []ReviewJudgesLatestCapture
<1>1. PipelineInv => ReviewJudgesLatestCapture
  BY DEF PipelineInv, LifecycleInv
<1> QED BY <1>1, PipelineInvCorrect, PTL

\* No retry, restart or second pass reviews a capture again.
THEOREM PassesReviewOnce == Spec => []OneReviewPerCapture
<1>1. PipelineInv => OneReviewPerCapture
  BY DEF PipelineInv, LifecycleInv
<1> QED BY <1>1, PipelineInvCorrect, PTL

\* Automatic comparisons are of neighbouring captures with different contents.
THEOREM PassesCompareNeighbours == Spec => []ComparisonLinksConsecutiveCaptures
<1>1. PipelineInv => ComparisonLinksConsecutiveCaptures
  BY DEF PipelineInv, LifecycleInv
<1> QED BY <1>1, PipelineInvCorrect, PTL

\* NeedsReview of a view's folded state is "no review since the latest capture".
THEOREM PassesKeepReviewedCurrent == Spec => []ReviewedIsCurrent
<1>1. PipelineInv => ReviewedIsCurrent
  BY DEF PipelineInv, LifecycleInv
<1> QED BY <1>1, PipelineInvCorrect, PTL

\* Passes keep every promise of the history at once.
THEOREM PassesKeepHistoryLegal == Spec => []LegalHistory
<1>1. PipelineInv => LegalHistory
  BY DEF PipelineInv, LifecycleInv, LegalHistory
<1> QED BY <1>1, PipelineInvCorrect, PTL

-----------------------------------------------------------------------------
\* The instance names the same definitions over the same state.
LEMMA SameRecord ==
    ASSUME NEW s, NEW e
    PROVE  Lifecycle!Record(s, e) <=> Record(s, e)
<1>1. \A state : Lifecycle!ApplyViewState(state, e) = ApplyViewState(state, e)
  BY DEF Lifecycle!ApplyViewState, ApplyViewState, Lifecycle!ApplyCaptured, ApplyCaptured,
     Lifecycle!ApplyReviewed, ApplyReviewed, Lifecycle!ApplyCompared, ApplyCompared
<1> QED BY <1>1 DEF Lifecycle!Record, Record

LEMMA SameNext == Lifecycle!LifecycleNext <=> LifecycleNext
<1>1. Lifecycle!Streams = Streams
  BY DEF Lifecycle!Streams, Streams
<1>2. \A s : Lifecycle!Capture(s) <=> Capture(s)
  BY SameRecord DEF Lifecycle!Capture, Capture, Lifecycle!RecordCapture, RecordCapture,
     Lifecycle!Readable, Readable,
     Lifecycle!Captured, Captured
<1>3. \A s : Lifecycle!Compare(s) <=> Compare(s)
  BY SameRecord DEF Lifecycle!Compare, Compare, Lifecycle!RecordComparison, RecordComparison,
     Lifecycle!Readable, Readable,
     Lifecycle!Compared, Compared, Lifecycle!Consecutive, Consecutive, Lifecycle!IsAt, IsAt,
     Lifecycle!Positions, Positions
<1>4. \A s : Lifecycle!Review(s) <=> Review(s)
  BY SameRecord DEF Lifecycle!Review, Review, Lifecycle!RecordReview, RecordReview,
     Lifecycle!Readable, Readable,
     Lifecycle!Reviewed, Reviewed
<1> QED BY <1>1, <1>2, <1>3, <1>4 DEF Lifecycle!LifecycleNext, LifecycleNext

\* Passes, with all their faults, implement the history of ViewLifecycle: a
\* step of a pass or of its environment records what that allows, or nothing.
THEOREM Refinement == Spec => ImplementsLifecycle
<1>1. Init => Lifecycle!JournalInit
  BY DEF Init, JournalInit, Lifecycle!JournalInit, initialViewState,
     Lifecycle!initialViewState, ScoreUnknown, Lifecycle!ScoreUnknown, Streams,
     Lifecycle!Streams
<1>2. PipelineInv /\ [Next]_vars => [Lifecycle!LifecycleNext]_(Lifecycle!journalVars)
  BY StepRefines, SameNext DEF vars, journalVars, Lifecycle!journalVars
<1> QED BY <1>1, <1>2, PipelineInvCorrect, PTL
        DEF Spec, ImplementsLifecycle, Lifecycle!LifecycleSpec

-----------------------------------------------------------------------------
\* Strengthening, the blob store: the ingested hash has no blob when the copy is
\* made, and has one when the capture is recorded.
BlobBeforeRecord ==
    /\ pc = "copy" => blobs[sha] = None
    /\ pc = "record" => blobs[sha] # None

\* A blob that is there stays as it is, whatever the step.
LEMMA StepKeepsBlobs ==
    ASSUME BlobBeforeRecord, [Next]_vars
    PROVE  \A c \in Contents : blobs[c] # None => blobs'[c] = blobs[c]
<1>1. CASE CopyBlob
  BY <1>1 DEF CopyBlob, BlobBeforeRecord
<1>2. CASE UNCHANGED blobs
  BY <1>2
<1>3. Next /\ ~CopyBlob => UNCHANGED blobs
  BY DEF Next, PassStep, Environment, diskVars, StartPass, AbortPass, ScanProject, EndPass,
     SkipView, LoadFails, BeginView, HashCapture, IngestFails, RecordCaptured, AutoCompare,
     WriteComparison, CompareFails, ReviewCapture, WriteViewReview, ReviewFails, RefreshIndex,
     RefreshIndexFails, CutShort, Stop, Recover, Start, Restart, Cancel, Crash, Tick, EditFile
<1> QED BY <1>1, <1>2, <1>3 DEF vars, diskVars

LEMMA StepKeepsBlobBeforeRecord ==
    ASSUME TypeOK, BlobBeforeRecord, [Next]_vars
    PROVE  BlobBeforeRecord'
<1>0. DiskTypeOK /\ PassTypeOK
  BY DEF TypeOK
<1>1. CASE HashCapture
  BY <1>1 DEF HashCapture, BlobBeforeRecord, diskVars
<1>2. CASE CopyBlob
  <2>1. sha \in Contents /\ files[current] # None
    BY <1>0, <1>2 DEF CopyBlob, PassTypeOK, InView, Steps
  <2> QED BY <1>0, <1>2, <2>1 DEF CopyBlob, BlobBeforeRecord, DiskTypeOK, iterVars
<1>3. CASE StartPass \/ ScanProject \/ EndPass \/ SkipView \/ LoadFails \/ BeginView
           \/ IngestFails \/ RecordCaptured \/ AutoCompare \/ WriteComparison
           \/ CompareFails \/ ReviewCapture \/ WriteViewReview \/ ReviewFails
           \/ RefreshIndex \/ RefreshIndexFails \/ CutShort \/ Stop \/ Recover \/ Start
           \/ Crash
  <2>1. pc' \notin {"copy", "record"}
    BY <1>3 DEF StartPass, ScanProject, EndPass, SkipView, LoadFails, BeginView, IngestFails,
       RecordCaptured, AutoCompare, WriteComparison, CompareFails, ReviewCapture,
       WriteViewReview, ReviewFails, RefreshIndex, RefreshIndexFails, CutShort, Stop, Recover,
       Start, Restart, Crash, EndIteration, AtNextView
  <2> QED BY <2>1 DEF BlobBeforeRecord
<1>4. CASE AbortPass \/ Cancel \/ Tick \/ (\E s \in Streams : EditFile(s)) \/ UNCHANGED vars
  <2>1. UNCHANGED <<pc, sha, blobs>>
    BY <1>4 DEF AbortPass, Cancel, Tick, EditFile, vars, iterVars, diskVars
  <2> QED BY <2>1 DEF BlobBeforeRecord
<1> QED BY <1>1, <1>2, <1>3, <1>4 DEF Next, PassStep, Environment

\* An event whose hashes have their blobs leaves no hash of the journal without one.
LEMMA RecordKeepsJournaledBlobs ==
    ASSUME JournalTypeOK, JournaledBlobsExist,
           \A c \in Contents : blobs[c] # None => blobs'[c] # None,
           NEW s \in Streams, NEW e \in Events, Record(s, e),
           e.type = "view.captured" => blobs[e.sha] # None,
           e.type = "view.compared" => blobs[e.before] # None /\ blobs[e.after] # None
    PROVE  JournaledBlobsExist'
<1> SUFFICES ASSUME NEW t \in Streams, NEW i \in Positions(t)'
             PROVE  /\ IsAt(t, i, "view.captured")' => blobs'[journal'[t][i].sha] # None
                    /\ IsAt(t, i, "view.compared")' =>
                          /\ blobs'[journal'[t][i].before] # None
                          /\ blobs'[journal'[t][i].after] # None
  BY DEF JournaledBlobsExist
<1>1. PICK f \in Events :
          /\ journal'[t][i] = f
          /\ f.type = "view.captured" => blobs[f.sha] # None
          /\ f.type = "view.compared" => blobs[f.before] # None /\ blobs[f.after] # None
  <2>1. CASE i \in Positions(t)
    <3>1. journal'[t][i] = journal[t][i] /\ journal[t][i] \in Events
      BY <2>1, RecordKeepsEvents, JournalKinds
    <3> QED BY <2>1, <3>1 DEF JournaledBlobsExist, IsAt
  <2>2. CASE i \notin Positions(t)
    <3>1. t = s /\ i = Len(journal[s]) + 1
      BY <2>2, RecordKeepsEvents DEF Positions
    <3>2. journal'[t][i] = e
      BY <3>1, RecordEffect
    <3> QED BY <3>2
  <2> QED BY <2>1, <2>2
<1>2. /\ f.type = "view.captured" => f.sha \in Contents
      /\ f.type = "view.compared" => f.before \in Contents /\ f.after \in Contents
  BY <1>1, EventKinds
<1> QED BY <1>1, <1>2 DEF IsAt

LEMMA StepKeepsJournaledBlobs ==
    ASSUME PipelineInv, BlobBeforeRecord, JournaledBlobsExist, [Next]_vars
    PROVE  JournaledBlobsExist'
<1>0. JournalTypeOK /\ DiskTypeOK /\ PassTypeOK /\ LocalsMatchJournal
  BY DEF PipelineInv, TypeOK
<1>1. ASSUME NEW c, blobs[c] # None
      PROVE  c \in Contents => blobs'[c] # None
  BY <1>1, StepKeepsBlobs
<1>2. ASSUME NEW s \in Streams, NEW e \in Events, Record(s, e),
             e.type = "view.captured" => blobs[e.sha] # None,
             e.type = "view.compared" => blobs[e.before] # None /\ blobs[e.after] # None
      PROVE  JournaledBlobsExist'
  BY <1>0, <1>1, <1>2, RecordKeepsJournaledBlobs
<1>3. CASE RecordCaptured
  <2>1. /\ current \in Streams /\ sha \in Contents /\ blobs[sha] # None
        /\ Record(current, Captured(sha))
    BY <1>0, <1>3, CurrentView DEF RecordCaptured, RecordCapture, PassTypeOK, InView, Steps,
       BlobBeforeRecord
  <2>2. /\ Captured(sha) \in Events /\ Captured(sha).type = "view.captured"
        /\ Captured(sha).sha = sha
    BY <2>1 DEF Events, Captured
  <2> QED BY <1>2, <2>1, <2>2
<1>4. CASE AutoCompare
  <2>1. /\ current \in Streams /\ sha \in Contents /\ AfterRecorded /\ minute \in Minutes
        /\ Record(current, Compared(before.SHA256, sha, minute))
    BY <1>0, <1>4, CurrentView DEF AutoCompare, RecordComparison, PassTypeOK, InView, Steps,
       LocalsMatchJournal, PipelineInv, TypeOK, EnvTypeOK
  <2>2. PICK i \in Positions(current) :
            /\ IsAt(current, i, "view.captured")
            /\ journal[current][i].sha = before.SHA256
    BY <2>1 DEF AfterRecorded, Consecutive
  <2>3. blobs[before.SHA256] # None /\ before.SHA256 \in Contents
    <3>1. journal[current][i] \in Events /\ journal[current][i].type = "view.captured"
      BY <1>0, <2>1, <2>2, JournalKinds DEF IsAt
    <3>2. before.SHA256 \in Contents
      BY <2>2, <3>1, EventKinds
    <3> QED BY <2>1, <2>2, <3>2 DEF JournaledBlobsExist
  <2>4. blobs[sha] # None
    BY <2>1 DEF AfterRecorded, JournaledBlobsExist, IsAt
  <2> DEFINE e == Compared(before.SHA256, sha, minute)
  <2>5. /\ e \in Events /\ e.type = "view.compared"
        /\ e.before = before.SHA256 /\ e.after = sha
    BY <2>1, <2>3 DEF Events, Compared
  <2> HIDE DEF e
  <2>6. Record(current, e)
    BY <2>1 DEF e
  <2> QED BY <1>2, <2>1, <2>3, <2>4, <2>5, <2>6
<1>5. CASE ReviewCapture
  <2>1. PICK score \in Scores : Record(current, Reviewed(sha, score))
    BY <1>5 DEF ReviewCapture, RecordReview
  <2>2. current \in Streams /\ sha \in Contents
    BY <1>0, <1>5, CurrentView DEF ReviewCapture, PassTypeOK, InView, Steps
  <2>3. Reviewed(sha, score) \in Events /\ Reviewed(sha, score).type = "view.reviewed"
    BY <2>2 DEF Events, Reviewed
  <2> QED BY <1>2, <2>1, <2>2, <2>3
<1>6. CASE UNCHANGED journal
  <2>1. \A s \in Streams : \A i \in Positions(s) :
            /\ IsAt(s, i, "view.captured") => journal[s][i].sha \in Contents
            /\ IsAt(s, i, "view.compared") =>
                  journal[s][i].before \in Contents /\ journal[s][i].after \in Contents
    BY <1>0, JournalKinds, EventKinds DEF IsAt
  <2>2. ASSUME NEW s \in Streams, NEW i \in Positions(s)
        PROVE  /\ IsAt(s, i, "view.captured") => blobs'[journal[s][i].sha] # None
               /\ IsAt(s, i, "view.compared") =>
                     blobs'[journal[s][i].before] # None /\ blobs'[journal[s][i].after] # None
    BY <1>1, <2>1 DEF JournaledBlobsExist
  <2> QED BY <1>6, <2>2 DEF JournaledBlobsExist, Positions, IsAt
<1>7. Next /\ ~RecordCaptured /\ ~AutoCompare /\ ~ReviewCapture => UNCHANGED journal
  BY DEF Next, PassStep, Environment, journalVars, StartPass, AbortPass, ScanProject, EndPass,
     SkipView, LoadFails, BeginView, HashCapture, CopyBlob, IngestFails, WriteComparison,
     CompareFails, WriteViewReview, ReviewFails, RefreshIndex, RefreshIndexFails, CutShort,
     Stop, Recover, Start, Restart, Cancel, Crash, Tick, EditFile
<1> QED BY <1>3, <1>4, <1>5, <1>6, <1>7 DEF vars, journalVars

\* No hash in the journal, current or historic, is without its blob: also when
\* the process died between the copy and the record, or the copy failed.
THEOREM JournaledBlobsAlwaysExist == Spec => []JournaledBlobsExist
<1>1. Init => BlobBeforeRecord /\ JournaledBlobsExist
  <2>1. ASSUME Init PROVE \A s \in Streams : Positions(s) = {}
    BY <2>1 DEF Init, JournalInit, Positions
  <2> QED BY <2>1 DEF Init, BlobBeforeRecord, JournaledBlobsExist
<1>2. PipelineInv /\ BlobBeforeRecord /\ JournaledBlobsExist /\ [Next]_vars
        => BlobBeforeRecord' /\ JournaledBlobsExist'
  BY StepKeepsBlobBeforeRecord, StepKeepsJournaledBlobs DEF PipelineInv
<1> QED BY <1>1, <1>2, PipelineInvCorrect, PTL DEF Spec

\* A stored blob is never replaced, by whichever view or pass stores it again.
THEOREM BlobsNeverChange == Spec => BlobsAreImmutable
<1>1. Init => BlobBeforeRecord
  BY DEF Init, BlobBeforeRecord
<1>2. PipelineInv /\ BlobBeforeRecord /\ [Next]_vars => BlobBeforeRecord'
  BY StepKeepsBlobBeforeRecord DEF PipelineInv
<1>3. BlobBeforeRecord /\ [Next]_vars
        => [\A c \in Contents : blobs[c] # None => blobs'[c] = blobs[c]]_vars
  BY StepKeepsBlobs
<1> QED BY <1>1, <1>2, <1>3, PipelineInvCorrect, PTL DEF Spec, BlobsAreImmutable

-----------------------------------------------------------------------------
\* What a review or comparison file shows is an event of a stream's history.
ReviewShown(r, history) ==
    /\ r.captured = r.sha
    /\ \E i \in 1..Len(history) : history[i] = Reviewed(r.sha, r.score)
ComparisonShown(c, at, history) ==
    \E i \in 1..Len(history) : history[i] = Compared(c.before, c.after, at)

\* Streams only grow, so what a file shows stays in the journal.
LEMMA StepKeepsShown ==
    ASSUME PipelineInv, [Next]_vars, NEW s \in Streams
    PROVE  /\ \A r : ReviewShown(r, journal[s]) => ReviewShown(r, journal'[s])
           /\ \A c, at : ComparisonShown(c, at, journal[s])
                          => ComparisonShown(c, at, journal'[s])
<1>0. JournalTypeOK /\ LifecycleInv
  BY DEF PipelineInv, TypeOK
<1>1. \A i \in Positions(s) : i \in Positions(s)' /\ journal'[s][i] = journal[s][i]
  <2>1. CASE LifecycleNext
    BY <1>0, <2>1, LifecycleRecords, RecordKeepsEvents
  <2>2. CASE UNCHANGED journalVars
    BY <2>2 DEF journalVars, Positions
  <2> QED BY <2>1, <2>2, StepRefines DEF vars
<1> QED BY <1>1 DEF ReviewShown, ComparisonShown, Positions

LEMMA StepKeepsFilesShowJournaled ==
    ASSUME PipelineInv, FilesShowJournaledVerdicts, [Next]_vars
    PROVE  FilesShowJournaledVerdicts'
<1>0. JournalTypeOK /\ PassTypeOK /\ DiskTypeOK /\ LocalsMatchJournal
  BY DEF PipelineInv, TypeOK
<1>1. \A s \in Streams :
         /\ reviews[s] # None => ReviewShown(reviews[s], journal'[s])
         /\ \A at \in Minutes : comparisons[s][at] # None =>
               ComparisonShown(comparisons[s][at], at, journal'[s])
  <2>1. \A s \in Streams :
           /\ reviews[s] # None => ReviewShown(reviews[s], journal[s])
           /\ \A at \in Minutes : comparisons[s][at] # None =>
                 ComparisonShown(comparisons[s][at], at, journal[s])
    BY DEF FilesShowJournaledVerdicts, ReviewShown, ComparisonShown, Positions
  <2> QED BY <2>1, StepKeepsShown
<1>2. SUFFICES ASSUME NEW s \in Streams
               PROVE  /\ reviews'[s] # None => ReviewShown(reviews'[s], journal'[s])
                      /\ \A at \in Minutes : comparisons'[s][at] # None =>
                            ComparisonShown(comparisons'[s][at], at, journal'[s])
  BY DEF FilesShowJournaledVerdicts, ReviewShown, ComparisonShown, Positions
<1>3. CASE WriteViewReview
  <2>1. /\ current \in Streams /\ LastEventIs("view.reviewed") /\ lastEvent.sha = sha
        /\ reviews' = [reviews EXCEPT ![current] = RenderViewReview(sha, lastEvent)]
        /\ UNCHANGED <<journal, comparisons>>
    BY <1>0, <1>3, CurrentView DEF WriteViewReview, LocalsMatchJournal, InView, Steps, journalVars
  <2>2. lastEvent = Reviewed(lastEvent.sha, lastEvent.score)
        /\ Len(journal[current]) \in Positions(current)
    BY <1>0, <2>1, LastEventKind DEF Events, Captured, Reviewed, Compared, Newer, Garbled
  <2>3. ReviewShown(RenderViewReview(sha, lastEvent), journal'[current])
    BY <2>1, <2>2 DEF ReviewShown, RenderViewReview, lastEvent, Positions
  <2>4. reviews'[s] = IF s = current THEN RenderViewReview(sha, lastEvent) ELSE reviews[s]
    BY <1>0, <2>1 DEF DiskTypeOK
  <2> QED BY <1>1, <2>1, <2>3, <2>4
<1>4. CASE WriteComparison
  <2>1. /\ current \in Streams /\ LastEventIs("view.compared")
        /\ comparisons' = [comparisons EXCEPT ![current][lastEvent.at] =
                                              RenderComparison(lastEvent)]
        /\ UNCHANGED <<journal, reviews>>
    BY <1>0, <1>4, CurrentView DEF WriteComparison, LocalsMatchJournal, InView, Steps, journalVars
  <2>2. lastEvent = Compared(lastEvent.before, lastEvent.after, lastEvent.at)
        /\ Len(journal[current]) \in Positions(current)
    BY <1>0, <2>1, LastEventKind DEF Events, Captured, Reviewed, Compared, Newer, Garbled
  <2>3. ComparisonShown(RenderComparison(lastEvent), lastEvent.at, journal'[current])
    BY <2>1, <2>2 DEF ComparisonShown, RenderComparison, lastEvent, Positions
  <2>4. \A at \in Minutes :
          comparisons'[s][at] = IF s = current /\ at = lastEvent.at
                                THEN RenderComparison(lastEvent) ELSE comparisons[s][at]
    BY <1>0, <2>1 DEF DiskTypeOK
  <2> QED BY <1>1, <2>1, <2>3, <2>4
<1>5. CASE UNCHANGED <<reviews, comparisons>>
  BY <1>1, <1>5
<1>6. Next /\ ~WriteViewReview /\ ~WriteComparison => UNCHANGED <<reviews, comparisons>>
  BY DEF Next, PassStep, Environment, diskVars, StartPass, AbortPass, ScanProject, EndPass,
     SkipView, LoadFails, BeginView, HashCapture, CopyBlob, IngestFails, RecordCaptured,
     AutoCompare, CompareFails, ReviewCapture, ReviewFails, RefreshIndex, RefreshIndexFails,
     CutShort, Stop, Recover, Start, Restart, Cancel, Crash, Tick, EditFile
<1> QED BY <1>3, <1>4, <1>5, <1>6 DEF vars, diskVars

\* No file of the reviews directory shows what the journal does not hold, so
\* none is lost for good: a replay can write each of them again.
THEOREM FilesAlwaysJournaled == Spec => []FilesShowJournaledVerdicts
<1>1. Init => FilesShowJournaledVerdicts
  BY DEF Init, FilesShowJournaledVerdicts
<1>2. PipelineInv /\ FilesShowJournaledVerdicts /\ [Next]_vars => FilesShowJournaledVerdicts'
  BY StepKeepsFilesShowJournaled
<1> QED BY <1>1, <1>2, PipelineInvCorrect, PTL DEF Spec

-----------------------------------------------------------------------------
\* What a step does to the last review of a stream: only a review of the view the pass is
\* at makes another event the last.
LEMMA StepKeepsLastReview ==
    ASSUME PipelineInv, Next, ~ReviewCapture, NEW s \in Streams, NEW i \in Positions(s)',
           IsLast(s, i, "view.reviewed")'
    PROVE  /\ i \in Positions(s) /\ IsLast(s, i, "view.reviewed")
           /\ journal'[s][i] = journal[s][i]
<1>0. JournalTypeOK /\ PassTypeOK /\ EnvTypeOK /\ LocalsMatchJournal
  BY DEF PipelineInv, TypeOK
<1>1. ASSUME NEW t \in Streams, NEW e \in Events, e.type # "view.reviewed", Record(t, e)
      PROVE  /\ i \in Positions(s) /\ IsLast(s, i, "view.reviewed")
             /\ journal'[s][i] = journal[s][i]
  <2>1. \A j : IsAt(s, j, "view.reviewed")' <=> IsAt(s, j, "view.reviewed")
    BY <1>0, <1>1, RecordIsAt
  <2>2. IsLast(s, i, "view.reviewed")
    BY <2>1 DEF IsLast, IsAt
  <2> QED BY <1>0, <1>1, <2>2, RecordKeepsEvents DEF IsLast, IsAt
<1>2. CASE RecordCaptured
  <2>1. current \in Streams /\ sha \in Contents /\ Record(current, Captured(sha))
    BY <1>0, <1>2, CurrentView DEF RecordCaptured, RecordCapture, PassTypeOK, InView, Steps
  <2>2. Captured(sha) \in Events /\ Captured(sha).type # "view.reviewed"
    BY <2>1 DEF Events, Captured
  <2> QED BY <1>1, <2>1, <2>2
<1>3. CASE AutoCompare
  <2>1. /\ current \in Streams /\ sha \in Contents /\ AfterRecorded /\ minute \in Minutes
        /\ Record(current, Compared(before.SHA256, sha, minute))
    BY <1>0, <1>3, CurrentView DEF AutoCompare, RecordComparison, PassTypeOK, InView, Steps,
       LocalsMatchJournal, EnvTypeOK
  <2>2. before.SHA256 \in Contents
    BY <1>0, <2>1, JournalKinds, EventKinds DEF AfterRecorded, Consecutive, IsAt
  <2> DEFINE e == Compared(before.SHA256, sha, minute)
  <2>3. e \in Events /\ e.type # "view.reviewed"
    BY <2>1, <2>2 DEF Events, Compared
  <2> HIDE DEF e
  <2>4. Record(current, e) BY <2>1 DEF e
  <2> QED BY <1>1, <2>1, <2>3, <2>4
<1>4. CASE UNCHANGED journal
  BY <1>4 DEF IsLast, IsAt, Positions
<1>5. ~RecordCaptured /\ ~AutoCompare => UNCHANGED journal
  BY DEF Next, PassStep, Environment, journalVars, StartPass, AbortPass, ScanProject, EndPass,
     SkipView, LoadFails, BeginView, HashCapture, CopyBlob, IngestFails, WriteComparison,
     CompareFails, WriteViewReview, ReviewFails, RefreshIndex, RefreshIndexFails, CutShort,
     Stop, Recover, Start, Restart, Cancel, Crash, Tick, EditFile
<1> QED BY <1>2, <1>3, <1>4, <1>5

LEMMA StepKeepsReviewFiles ==
    ASSUME PipelineInv, ReviewFilesFollowJournal, Next
    PROVE  ReviewFilesFollowJournal'
<1>0. JournalTypeOK /\ PassTypeOK /\ EnvTypeOK /\ DiskTypeOK /\ LocalsMatchJournal
  BY DEF PipelineInv, TypeOK
<1>1. SUFFICES ASSUME failures' = 0, crashes' = 0, NEW s \in Streams, NEW i \in Positions(s)',
                      IsLast(s, i, "view.reviewed")', ~(pc = "writeReview" /\ s = current)'
               PROVE  reviews'[s] = RenderViewReview(journal'[s][i].sha, journal'[s][i])
  BY DEF ReviewFilesFollowJournal
<1>2. CASE ReviewCapture
  <2>1. /\ current \in Streams /\ pc = "review" /\ pc' = "writeReview" /\ current' = current
        /\ UNCHANGED <<reviews, failures, crashes>>
    BY <1>0, <1>2, CurrentView DEF ReviewCapture, InView, Steps, current, projectVars, iterVars,
       diskVars, envVars
  <2>2. s # current BY <1>1, <2>1
  <2>3. journal'[s] = journal[s] BY <1>2, <2>2 DEF ReviewCapture, RecordReview, Record
  <2>4. i \in Positions(s) /\ IsLast(s, i, "view.reviewed")
    BY <1>1, <2>3 DEF IsLast, IsAt, Positions
  <2> QED BY <1>1, <2>1, <2>3, <2>4 DEF ReviewFilesFollowJournal
<1>3. CASE ~ReviewCapture
  <2>1. /\ i \in Positions(s) /\ IsLast(s, i, "view.reviewed") /\ journal'[s][i] = journal[s][i]
    BY <1>1, <1>3, StepKeepsLastReview
  <2>2. CASE WriteViewReview
    <3>1. /\ current \in Streams /\ LastEventIs("view.reviewed") /\ lastEvent.sha = sha
          /\ reviews' = [reviews EXCEPT ![current] = RenderViewReview(sha, lastEvent)]
          /\ UNCHANGED <<failures, crashes>>
      BY <1>0, <2>2, CurrentView DEF WriteViewReview, LocalsMatchJournal, InView, Steps, envVars
    <3>2. CASE s = current
      <4>1. journal[s][i] = lastEvent
        <5>1. Len(journal[s]) \in Positions(s) /\ IsAt(s, Len(journal[s]), "view.reviewed")
          BY <1>0, <3>1, <3>2, LastEventKind DEF IsAt, lastEvent
        <5>2. i = Len(journal[s])
          BY <1>0, <2>1, <5>1, JournalKinds DEF IsLast, Positions
        <5> QED BY <3>2, <5>2 DEF lastEvent
      <4>2. reviews'[s] = RenderViewReview(sha, lastEvent)
        BY <1>0, <3>1, <3>2 DEF DiskTypeOK
      <4> QED BY <2>1, <3>1, <4>1, <4>2
    <3>3. CASE s # current
      BY <1>1, <2>1, <3>1, <3>3 DEF ReviewFilesFollowJournal
    <3> QED BY <3>2, <3>3
  <2>3. CASE ~WriteViewReview
    <3>1. /\ UNCHANGED reviews /\ failures = 0 /\ crashes = 0
          /\ pc = "writeReview" => pc' = "writeReview" /\ current' = current
      <4>1. CASE StartPass \/ EndPass \/ SkipView \/ BeginView \/ HashCapture \/ CopyBlob
                 \/ RecordCaptured \/ AutoCompare \/ WriteComparison
                 \/ RefreshIndex \/ CutShort \/ Stop \/ Recover \/ Start
        BY <1>1, <4>1 DEF StartPass, EndPass, SkipView, AtNextView, BeginView, HashCapture, CopyBlob,
           RecordCaptured, AutoCompare, WriteComparison, RefreshIndex, CutShort, Stop, Recover,
           Start, Restart, diskVars, envVars
      <4>2. CASE AbortPass \/ LoadFails \/ IngestFails \/ CompareFails \/ ReviewFails
                 \/ RefreshIndexFails \/ ScanProject
        <5>1. failures \in Nat /\ crashes \in Nat BY <1>0 DEF EnvTypeOK
        <5>2. /\ UNCHANGED <<reviews, crashes>> /\ (DiskFault \/ UNCHANGED failures)
              /\ pc = "writeReview" => DiskFault
          BY <4>2 DEF AbortPass, LoadFails, AtNextView, IngestFails, CompareFails, ReviewFails,
             RefreshIndexFails, ScanProject, CallFault, diskVars, envVars
        <5> QED BY <1>1, <5>1, <5>2 DEF DiskFault
      <4>3. CASE Crash
        BY <1>0, <1>1, <4>3 DEF Crash, EnvTypeOK
      <4>4. CASE Cancel \/ Tick \/ \E t \in Streams : EditFile(t)
        BY <1>1, <4>4 DEF Cancel, Tick, EditFile, diskVars, projectVars, iterVars, current
      <4> QED BY <1>3, <2>3, <4>1, <4>2, <4>3, <4>4 DEF Next, PassStep, Environment
    <3> QED BY <1>1, <2>1, <3>1 DEF ReviewFilesFollowJournal
  <2> QED BY <2>2, <2>3
<1> QED BY <1>2, <1>3

\* As long as no write failed and the process did not die, the review file of a view is its
\* last review, through overwritten screenshots, cancellations and restarts.
THEOREM ReviewFilesAlwaysFollow == Spec => []ReviewFilesFollowJournal
<1>1. Init => ReviewFilesFollowJournal
  BY DEF Init, JournalInit, ReviewFilesFollowJournal, Positions
<1>2. PipelineInv /\ ReviewFilesFollowJournal /\ [Next]_vars => ReviewFilesFollowJournal'
  <2>1. CASE UNCHANGED vars
    BY <2>1 DEF vars, diskVars, envVars, journalVars, projectVars, iterVars, ReviewFilesFollowJournal,
       Positions, IsLast, IsAt, current
  <2> QED BY <2>1, StepKeepsReviewFiles
<1> QED BY <1>1, <1>2, PipelineInvCorrect, PTL DEF Spec

-----------------------------------------------------------------------------
Complete(k) == view[<<project, k>>].Captures > 0 /\ ~NeedsReview(view[<<project, k>>])

\* Without an error so far, every view of the project that is done with is complete, and
\* the one at hand is when its review was recorded.
DoneViewsComplete ==
    /\ pc = "view" /\ ~errs => \A k \in DOMAIN scan \ todo : Complete(k)
    /\ InView /\ ~errs => \A k \in DOMAIN scan \ (todo \cup {key}) : Complete(k)
    /\ pc \in {"compare", "writeCompare", "review"} => view[current].Captures > 0
    /\ pc = "writeReview" => Complete(key)
    /\ pc \in {"idle", "crashed", "stopped"} => project = None
    /\ CleanProjectIsComplete

\* A record for the view at hand leaves the others of its project alone.
LEMMA OthersStayComplete ==
    ASSUME PipelineInv, current \in Streams, NEW e \in Events, Record(current, e), UNCHANGED <<project, key>>,
           NEW k, k # key
    PROVE  Complete(k)' <=> Complete(k)
<1>1. <<project, k>> # current BY DEF current
<1>2. view' = [view EXCEPT ![current] = ApplyViewState(@, e)] BY DEF Record
<1>3. view \in [Streams -> ViewState] BY DEF PipelineInv, TypeOK, JournalTypeOK
<1>4. view'[<<project, k>>] = view[<<project, k>>] BY <1>1, <1>2, <1>3
<1> QED BY <1>4 DEF Complete, NeedsReview

LEMMA StepKeepsDoneViews ==
    ASSUME PipelineInv, DoneViewsComplete, Next
    PROVE  DoneViewsComplete'
<1>0. JournalTypeOK /\ PassTypeOK /\ EnvTypeOK /\ DiskTypeOK /\ LocalsMatchJournal
  BY DEF PipelineInv, TypeOK
<1>1. ASSUME NEW e \in Events, Record(current, e), InView, InView', UNCHANGED <<project, key, scan, todo, errs>>,
             ~errs
      PROVE  \A k \in DOMAIN scan \ (todo \cup {key}) : Complete(k)'
  <2>1. current \in Streams BY <1>0, <1>1, CurrentView
  <2> TAKE k \in DOMAIN scan \ (todo \cup {key})
  <2> QED BY <1>1, <2>1, OthersStayComplete DEF DoneViewsComplete
<1>2. CASE RecordCaptured
  <2>1. /\ current \in Streams /\ sha \in Contents /\ Record(current, Captured(sha))
        /\ InView /\ InView' /\ pc' \in {"compare", "review"} /\ current' = current
        /\ UNCHANGED <<project, key, scan, todo, errs>>
    BY <1>0, <1>2, CurrentView DEF RecordCaptured, RecordCapture, PassTypeOK, InView, Steps,
       projectVars, iterVars, current
  <2>2. Captured(sha) \in Events /\ Captured(sha).type = "view.captured"
    BY <2>1 DEF Events, Captured
  <2>3. view'[current] = ApplyCaptured(view[current], Captured(sha)) /\ view[current] \in ViewState
    BY <1>0, <2>1, <2>2, RecordEffect DEF ApplyViewState, JournalTypeOK
  <2>4. view'[current].Captures > 0
    BY <2>3 DEF ApplyCaptured, ViewState
  <2>5. ~errs => \A k \in DOMAIN scan \ (todo \cup {key}) : Complete(k)'
    BY <1>1, <2>1, <2>2
  <2> QED BY <2>1, <2>4, <2>5 DEF DoneViewsComplete, CleanProjectIsComplete
<1>3. CASE AutoCompare
  <2>1. /\ current \in Streams /\ sha \in Contents /\ AfterRecorded /\ minute \in Minutes
        /\ Record(current, Compared(before.SHA256, sha, minute))
        /\ InView /\ InView' /\ pc = "compare" /\ pc' = "writeCompare" /\ current' = current
        /\ UNCHANGED <<project, key, scan, todo, errs>>
    BY <1>0, <1>3, CurrentView DEF AutoCompare, RecordComparison, PassTypeOK, InView, Steps,
       LocalsMatchJournal, EnvTypeOK, projectVars, iterVars, current
  <2>2. before.SHA256 \in Contents
    BY <1>0, <2>1, JournalKinds, EventKinds DEF AfterRecorded, Consecutive, IsAt
  <2> DEFINE e == Compared(before.SHA256, sha, minute)
  <2>3. e \in Events /\ e.type = "view.compared"
    BY <2>1, <2>2 DEF Events, Compared
  <2>4. Record(current, e) BY <2>1
  <2> HIDE DEF e
  <2>5. view'[current] = ApplyCompared(view[current], e) /\ view[current] \in ViewState
    BY <1>0, <2>1, <2>3, <2>4, RecordEffect DEF ApplyViewState, JournalTypeOK
  <2>6. view'[current].Captures > 0
    BY <2>1, <2>5 DEF ApplyCompared, ViewState, DoneViewsComplete
  <2>7. ~errs => \A k \in DOMAIN scan \ (todo \cup {key}) : Complete(k)'
    BY <1>1, <2>1, <2>3, <2>4
  <2> QED BY <2>1, <2>6, <2>7 DEF DoneViewsComplete, CleanProjectIsComplete
<1>4. CASE ReviewCapture
  <2>1. PICK score \in Scores : RecordReview(current, sha, score)
    BY <1>4 DEF ReviewCapture
  <2>2. /\ current \in Streams /\ sha \in Contents /\ AwaitsReview
        /\ InView /\ InView' /\ pc = "review" /\ pc' = "writeReview" /\ current' = current
        /\ UNCHANGED <<project, key, scan, todo, errs>>
    BY <1>0, <1>4, CurrentView DEF ReviewCapture, PassTypeOK, InView, Steps, LocalsMatchJournal,
       projectVars, iterVars, current
  <2> DEFINE e == Reviewed(sha, score)
  <2>3. e \in Events /\ e.type = "view.reviewed" /\ e.sha = sha /\ Record(current, e)
    BY <2>1, <2>2 DEF Events, Reviewed, RecordReview
  <2> HIDE DEF e
  <2>4. view'[current] = ApplyReviewed(view[current], e) /\ view[current] \in ViewState
    BY <1>0, <2>2, <2>3, RecordEffect DEF ApplyViewState, JournalTypeOK
  <2>5. /\ view'[current].Captures > 0
        /\ view'[current].ReviewedSHA = view'[current].SHA256
    BY <2>2, <2>3, <2>4 DEF ApplyReviewed, ViewState, DoneViewsComplete, AwaitsReview
  <2>6. Complete(key)'
    BY <2>2, <2>5 DEF Complete, NeedsReview, current
  <2>7. ~errs => \A k \in DOMAIN scan \ (todo \cup {key}) : Complete(k)'
    BY <1>1, <2>2, <2>3
  <2> QED BY <2>2, <2>6, <2>7 DEF DoneViewsComplete, CleanProjectIsComplete
<1>5. CASE SkipView
  <2>1. /\ pc = "view" /\ pc' = "view" /\ todo' = todo \ {NextKey} /\ Complete(NextKey)
        /\ UNCHANGED <<view, project, scan, errs>>
    BY <1>5 DEF SkipView, AtNextView, AlreadyReviewed, Complete, journalVars, projectVars
  <2>2. \A k : Complete(k)' <=> Complete(k) BY <2>1 DEF Complete, NeedsReview
  <2> QED BY <2>1, <2>2 DEF DoneViewsComplete, CleanProjectIsComplete, InView, Steps
<1>6. CASE BeginView
  <2>1. /\ pc = "view" /\ pc' = "hash" /\ todo' = todo \ {NextKey} /\ key' = NextKey
        /\ UNCHANGED <<view, project, scan, errs>>
    BY <1>6 DEF BeginView, AtNextView, journalVars, projectVars
  <2>2. \A k : Complete(k)' <=> Complete(k) BY <2>1 DEF Complete, NeedsReview
  <2> QED BY <2>1, <2>2 DEF DoneViewsComplete, CleanProjectIsComplete, InView, Steps
<1>7. CASE HashCapture \/ CopyBlob \/ WriteComparison
  <2>1. /\ InView /\ InView' /\ pc' \in {"copy", "record", "review"}
        /\ pc' = "review" => pc = "writeCompare"
        /\ UNCHANGED <<view, project, key, scan, todo, errs>>
    BY <1>7 DEF HashCapture, CopyBlob, WriteComparison, InView, Steps, journalVars, projectVars, iterVars
  <2>2. \A k : Complete(k)' <=> Complete(k) BY <2>1 DEF Complete, NeedsReview
  <2> QED BY <2>1, <2>2 DEF DoneViewsComplete, CleanProjectIsComplete, current
<1>8. CASE CompareFails
  <2>1. /\ pc \in {"compare", "writeCompare"} /\ pc' = "review" /\ errs' = TRUE
        /\ UNCHANGED <<view, project, key>>
    BY <1>8 DEF CompareFails, journalVars, projectVars, iterVars
  <2> QED BY <2>1 DEF DoneViewsComplete, CleanProjectIsComplete, current
<1>9. CASE WriteViewReview
  <2>1. /\ pc = "writeReview" /\ pc' = "view" /\ UNCHANGED <<view, project, scan, todo, errs>>
    BY <1>9 DEF WriteViewReview, EndIteration, journalVars, projectVars
  <2>2. \A k : Complete(k)' <=> Complete(k) BY <2>1 DEF Complete, NeedsReview
  <2> QED BY <2>1, <2>2 DEF DoneViewsComplete, CleanProjectIsComplete, InView, Steps
<1>10. CASE LoadFails \/ IngestFails \/ ReviewFails \/ RefreshIndexFails
  <2>1. pc' \in {"view", "scan"} /\ errs' = TRUE
    BY <1>10 DEF LoadFails, AtNextView, IngestFails, ReviewFails, RefreshIndexFails, EndIteration
  <2> QED BY <2>1 DEF DoneViewsComplete, CleanProjectIsComplete, InView, Steps
<1>11. CASE RefreshIndex
  <2>1. /\ pc = "view" /\ todo = {} /\ pc' = "scan" /\ project \in Projects
        /\ index' = [index EXCEPT ![project] = [k \in DOMAIN scan |-> IndexRow(view[<<project, k>>])]]
        /\ UNCHANGED <<view, project, scan, todo, errs>>
    BY <1>0, <1>11 DEF RefreshIndex, PassTypeOK, journalVars, projectVars
  <2>2. index'[project] = [k \in DOMAIN scan |-> IndexRow(view[<<project, k>>])]
    BY <1>0, <2>1 DEF DiskTypeOK
  <2>3. ~errs => \A k \in DOMAIN scan : Complete(k)
    BY <2>1 DEF DoneViewsComplete
  <2>4. CleanProjectIsComplete'
    BY <2>1, <2>2, <2>3 DEF CleanProjectIsComplete, Complete, NeedsReview, IndexRow
  <2> QED BY <2>1, <2>4 DEF DoneViewsComplete, InView, Steps
<1>12. CASE CutShort
  <2>1. /\ pc = "view" /\ pc' = "scan" /\ ctxDone' /\ errs' = (errs \/ todo # {})
        /\ UNCHANGED <<view, project, scan>>
    BY <1>12 DEF CutShort, journalVars, projectVars
  <2>2. ~errs' => \A k \in DOMAIN scan : Complete(k)
    BY <1>0, <2>1 DEF DoneViewsComplete, PassTypeOK
  <2>3. CleanProjectIsComplete'
    BY <2>1, <2>2 DEF CleanProjectIsComplete, Complete, NeedsReview
  <2> QED BY <2>1, <2>3 DEF DoneViewsComplete, InView, Steps
<1>13. CASE ScanProject
  <2>1. \/ pc' = "view" /\ todo' = DOMAIN scan'
        \/ pc = "scan" /\ pc' = "scan" /\ UNCHANGED <<view, index, project, scan, errs, ctxDone>>
    <3> DEFINE p == SmallestOf(queue)
    <3>1. PICK found : \/ pc' = "view" /\ scan' = [k \in found |-> files[<<p, k>>]] /\ todo' = found
                       \/ UNCHANGED <<pc, project, scan, todo, errs>>
      BY <1>13 DEF ScanProject
    <3>2. pc = "scan" /\ UNCHANGED <<view, index, ctxDone>>
      BY <1>13 DEF ScanProject, journalVars, diskVars
    <3> QED BY <3>1, <3>2
  <2>2. CASE pc' = "view" /\ todo' = DOMAIN scan'
    BY <2>2 DEF DoneViewsComplete, CleanProjectIsComplete, InView, Steps
  <2>3. CASE pc = "scan" /\ pc' = "scan" /\ UNCHANGED <<view, index, project, scan, errs, ctxDone>>
    <3>1. CleanProjectIsComplete'
      BY <2>3 DEF DoneViewsComplete, CleanProjectIsComplete, NeedsReview, IndexRow
    <3> QED BY <2>3, <3>1 DEF DoneViewsComplete, InView, Steps
  <2> QED BY <2>1, <2>2, <2>3
<1>14. CASE StartPass
  <2>1. pc = "idle" /\ pc' = "scan" /\ UNCHANGED project
    BY <1>14 DEF StartPass
  <2>2. project = None BY <2>1 DEF DoneViewsComplete
  <2> QED BY <2>1, <2>2 DEF DoneViewsComplete, CleanProjectIsComplete, InView, Steps
<1>15. CASE EndPass \/ Stop \/ Recover \/ Start \/ Crash
  <2>1. /\ pc' \in {"idle", "stopped", "crashed"}
        /\ \/ project' = None
           \/ pc \in {"idle", "stopped", "crashed"} /\ project' = project
    <3>1. CASE EndPass BY <3>1 DEF EndPass
    <3>2. CASE Stop BY <3>2 DEF Stop, projectVars
    <3>3. CASE Recover BY <3>3 DEF Recover, Restart, projectVars
    <3>4. CASE Start BY <3>4 DEF Start, Restart, projectVars
    <3>5. CASE Crash BY <3>5 DEF Crash
    <3> QED BY <1>15, <3>1, <3>2, <3>3, <3>4, <3>5
  <2>2. project' = None BY <2>1 DEF DoneViewsComplete
  <2> QED BY <2>1, <2>2 DEF DoneViewsComplete, CleanProjectIsComplete, InView, Steps
<1>16. CASE AbortPass \/ Cancel \/ Tick \/ \E s \in Streams : EditFile(s)
  <2>1. /\ UNCHANGED <<pc, view, index, project, key, scan, todo, errs>>
        /\ ~ctxDone' => ~ctxDone
    BY <1>16 DEF AbortPass, Cancel, Tick, EditFile, projectVars, iterVars, journalVars, diskVars
  <2>2. \A k : Complete(k)' <=> Complete(k) BY <2>1 DEF Complete, NeedsReview
  <2>3. CleanProjectIsComplete'
    BY <2>1 DEF DoneViewsComplete, CleanProjectIsComplete, NeedsReview, IndexRow
  <2> QED BY <2>1, <2>2, <2>3 DEF DoneViewsComplete, InView, Steps, current
<1> QED BY <1>2, <1>3, <1>4, <1>5, <1>6, <1>7, <1>8, <1>9, <1>10, <1>11, <1>12, <1>13, <1>14, <1>15,
           <1>16 DEF Next, PassStep, Environment

\* A project that reports no error has every scanned view reviewed, also in a cancelled
\* pass, and listed unless the context is done, for any number of views and whatever failed
\* in other projects and passes.
THEOREM CleanProjectsComplete == Spec => []CleanProjectIsComplete
<1>1. Init => DoneViewsComplete
  BY DEF Init, DoneViewsComplete, CleanProjectIsComplete, InView, Steps
<1>2. PipelineInv /\ DoneViewsComplete /\ [Next]_vars => DoneViewsComplete'
  <2>1. CASE UNCHANGED vars
    BY <2>1 DEF vars, diskVars, journalVars, projectVars, iterVars, DoneViewsComplete, Complete, NeedsReview,
       CleanProjectIsComplete, IndexRow, InView, current
  <2> QED BY <2>1, StepKeepsDoneViews
<1>3. DoneViewsComplete => CleanProjectIsComplete
  BY DEF DoneViewsComplete
<1> QED BY <1>1, <1>2, <1>3, PipelineInvCorrect, PTL DEF Spec

-----------------------------------------------------------------------------
\* Through retries, crashes and overwritten screenshots, the state a pass decides by is
\* what the journal says: current capture, open review and trend.
THEOREM PassesFoldRight == Spec => []FoldMatchesJournal
<1>1. Init => FoldInv
  BY JournalInitFold DEF Init
<1>2. PipelineInv /\ FoldInv /\ [Next]_vars => FoldInv'
  <2>1. CASE UNCHANGED journalVars
    BY <2>1, FoldStutter
  <2>2. ASSUME PipelineInv, FoldInv, LifecycleNext PROVE FoldInv'
    <3>1. LifecycleInv /\ JournalTypeOK
      BY <2>2 DEF PipelineInv, LifecycleInv
    <3>2. PICK s \in Streams, e \in Events : Record(s, e) /\ Allowed(s, e)
      BY <2>2, <3>1, LifecycleRecords
    <3> QED BY <2>2, <3>1, <3>2, RecordKeepsFold
  <2>3. UNCHANGED vars => UNCHANGED journalVars
    BY DEF vars
  <2> QED BY <2>1, <2>2, <2>3, StepRefines
<1>3. PipelineInv /\ FoldInv => FoldMatchesJournal
  BY FoldMeaning DEF PipelineInv, LifecycleInv
<1> QED BY <1>1, <1>2, <1>3, PipelineInvCorrect, PTL DEF Spec

-----------------------------------------------------------------------------
(* Replay: replays and manual comparisons that take turns with the service. *)

\* Another caller of the exported store records what it likes, on views and on
\* streams that are no view's, while neither the
\* service nor a command has the journal open.
OtherCaller ==
    /\ cmd = "off" /\ ~Running
    /\ JournalNext \/ UNCHANGED journalVars
    /\ strays' \in Nat
    /\ UNCHANGED <<diskVars, passVars, failures, cmd, replayVars, manualVars>>

OpenNext == ServiceNext \/ OtherCaller

OpenSpec == Init /\ CommandsInit /\ [][OpenNext]_allVars

-----------------------------------------------------------------------------
(* What every command step keeps: the service is down, and the locals of a  *)
(* replay are at their start while none runs.                               *)

Replaying == cmd \in {"events", "done"}

CommandTypeOK ==
    /\ cmd \in {"off", "events", "done", "storeAfter", "judge", "write"}
    /\ cmd # "off" => ~Running
    /\ read \in [Streams -> Nat]
    /\ fold \in [Streams -> ViewState]
    /\ lastCaptured \in [Streams -> Contents \cup {NoSHA}]
    /\ \A s \in Streams : fold[s].Captures # 0 => lastCaptured[s] \in Contents
    /\ failed \in BOOLEAN
    /\ strays \in Nat /\ strayRead \in 0..strays
    /\ ~Replaying => /\ read = [s \in Streams |-> 0]
                     /\ fold = [s \in Streams |-> initialViewState]
                     /\ lastCaptured = [s \in Streams |-> NoSHA]
                     /\ failed = FALSE /\ strayRead = 0
    /\ cmd \in {"storeAfter", "judge", "write"} => target \in Streams /\ pair[1] \in Contents
    /\ cmd \in {"judge", "write"} => pair[2] \in Contents

LastIs(s, type) == Len(journal[s]) > 0 /\ journal[s][Len(journal[s])].type = type

\* Between the record of a verdict and the write of its file, the verdict is the last
\* event of the view.
RecordedLast ==
    /\ pc = "compare" => before.SHA256 # NoSHA
    /\ pc = "writeCompare" => LastIs(current, "view.compared")
    /\ pc = "writeReview" => LastIs(current, "view.reviewed") /\ lastEvent.sha = sha
    /\ cmd = "write" => LastIs(target, "view.compared")

TurnsInv == TypeOK /\ CommandTypeOK /\ RecordedLast

\* While a command has the journal, only screenshots and the clock move.
LEMMA HeldService ==
    ASSUME ServiceStep, cmd # "off", ~Running
    PROVE  /\ UNCHANGED <<journalVars, blobs, reviews, comparisons, index, pc, ctxDone,
                          projectVars, todo, iterVars, errs, result, failures, crashes>>
           /\ UNCHANGED <<cmd, replayVars, manualVars>>
<1>1. pc \in {"crashed", "stopped"} /\ pc' = pc /\ Next /\ UNCHANGED <<cmd, replayVars, manualVars>>
  BY DEF ServiceStep, Running
<1>2. Tick \/ \E s \in Streams : EditFile(s)
  <2>1. ~ (StartPass \/ AbortPass \/ ScanProject \/ EndPass \/ SkipView \/ LoadFails \/ BeginView)
    BY <1>1 DEF StartPass, AbortPass, ScanProject, EndPass, SkipView, LoadFails, BeginView,
       AtNextView
  <2>2. ~ (HashCapture \/ CopyBlob \/ IngestFails \/ RecordCaptured \/ AutoCompare
           \/ WriteComparison \/ CompareFails)
    BY <1>1 DEF HashCapture, CopyBlob, IngestFails, RecordCaptured, AutoCompare,
       WriteComparison, CompareFails
  <2>3. ~ (ReviewCapture \/ WriteViewReview \/ ReviewFails \/ RefreshIndex
           \/ RefreshIndexFails \/ CutShort)
    BY <1>1 DEF ReviewCapture, WriteViewReview, ReviewFails, RefreshIndex, RefreshIndexFails,
       CutShort
  <2>4. ~ (Stop \/ Recover \/ Start \/ Cancel \/ Crash)
    BY <1>1 DEF Stop, Recover, Start, Restart, Cancel, Crash, Running
  <2> QED BY <1>1, <2>1, <2>2, <2>3, <2>4 DEF Next, PassStep, Environment
<1> QED BY <1>1, <1>2 DEF Tick, EditFile, diskVars, projectVars, journalVars

LEMMA RecordIsLast ==
    ASSUME JournalTypeOK, NEW s \in Streams, NEW e \in Events, Record(s, e)
    PROVE  Len(journal'[s]) > 0 /\ journal'[s][Len(journal'[s])] = e
<1>1. PICK n \in Nat : n = Len(journal[s])
  BY DEF JournalTypeOK
<1> QED BY <1>1, RecordEffect

\* What the pass records, and when.
LEMMA ServiceRecords ==
    ASSUME TurnsInv, Next
    PROVE  /\ RecordCaptured => /\ current \in Streams /\ Captured(sha) \in Events
                                /\ Record(current, Captured(sha))
           /\ AutoCompare => /\ current \in Streams
                             /\ Compared(before.SHA256, sha, minute) \in Events
                             /\ Record(current, Compared(before.SHA256, sha, minute))
           /\ ReviewCapture => /\ current \in Streams
                               /\ \E score \in Scores : /\ Reviewed(sha, score) \in Events
                                                        /\ Record(current, Reviewed(sha, score))
           /\ \/ RecordCaptured \/ AutoCompare \/ ReviewCapture
              \/ UNCHANGED journalVars
<1>0. JournalTypeOK /\ PassTypeOK /\ EnvTypeOK
  BY DEF TurnsInv, TypeOK
<1>1. ASSUME RecordCaptured
      PROVE  /\ current \in Streams /\ Captured(sha) \in Events
             /\ Record(current, Captured(sha))
  <2>1. current \in Streams /\ sha \in Contents
    BY <1>0, <1>1, CurrentView DEF RecordCaptured, PassTypeOK, InView, Steps
  <2> QED BY <1>1, <2>1 DEF RecordCaptured, RecordCapture, Events
<1>2. ASSUME AutoCompare
      PROVE  /\ current \in Streams
             /\ Compared(before.SHA256, sha, minute) \in Events
             /\ Record(current, Compared(before.SHA256, sha, minute))
  <2>1. current \in Streams /\ sha \in Contents /\ minute \in Minutes
    BY <1>0, <1>2, CurrentView DEF AutoCompare, PassTypeOK, InView, Steps, EnvTypeOK
  <2>2. before.SHA256 \in Contents
    BY <1>0, <1>2 DEF AutoCompare, TurnsInv, RecordedLast, PassTypeOK, ViewState
  <2> QED BY <1>2, <2>1, <2>2 DEF AutoCompare, RecordComparison, Events
<1>3. ASSUME ReviewCapture
      PROVE  /\ current \in Streams
             /\ \E score \in Scores : /\ Reviewed(sha, score) \in Events
                                      /\ Record(current, Reviewed(sha, score))
  <2>1. current \in Streams /\ sha \in Contents
    BY <1>0, <1>3, CurrentView DEF ReviewCapture, PassTypeOK, InView, Steps
  <2>2. PICK score \in Scores : RecordReview(current, sha, score)
    BY <1>3 DEF ReviewCapture
  <2>3. Reviewed(sha, score) \in Events
    BY <2>1, <2>2 DEF Events
  <2> QED BY <1>3, <2>1, <2>2, <2>3 DEF RecordReview
<1>4. ~RecordCaptured /\ ~AutoCompare /\ ~ReviewCapture => UNCHANGED journalVars
  BY DEF Next, PassStep, Environment, StartPass, AbortPass, ScanProject, EndPass,
     SkipView, LoadFails, BeginView, HashCapture, CopyBlob, IngestFails, WriteComparison,
     CompareFails, WriteViewReview, ReviewFails, RefreshIndex, RefreshIndexFails, CutShort,
     Stop, Recover, Start, Restart, Cancel, Crash, Tick, EditFile
<1> QED BY <1>1, <1>2, <1>3, <1>4

\* A command records nothing but its manual comparison.
LEMMA ManualRecords ==
    ASSUME TurnsInv, RecordManual
    PROVE  \E e \in Events : e.type = "view.compared" /\ Record(target, e)
<1>1. target \in Streams /\ pair[1] \in Contents /\ pair[2] \in Contents /\ minute \in Minutes
  BY DEF RecordManual, TurnsInv, TypeOK, CommandTypeOK, EnvTypeOK
<1>2. Compared(pair[1], pair[2], minute) \in Events
  BY <1>1 DEF Events
<1> QED BY <1>2 DEF RecordManual, RecordComparison, Compared

\* The journal moves by record calls, and stands still under a replay.
LEMMA TurnRecords ==
    ASSUME TurnsInv, OpenNext
    PROVE  \/ UNCHANGED journalVars
           \/ ~Replaying /\ ~Replaying' /\ \E s \in Streams, e \in Events : Record(s, e)
<1>1. CASE ServiceStep
  <2>1. CASE cmd = "off"
    <3>1. Next /\ ~Replaying /\ ~Replaying'
      BY <1>1, <2>1 DEF ServiceStep, Replaying
    <3> QED BY <3>1, ServiceRecords
  <2>2. CASE cmd # "off"
    BY <1>1, <2>2, HeldService DEF TurnsInv, CommandTypeOK
  <2> QED BY <2>1, <2>2
<1>2. CASE RecordManual
  <2>1. target \in Streams /\ ~Replaying /\ ~Replaying'
    BY <1>2 DEF RecordManual, TurnsInv, CommandTypeOK, Replaying
  <2> QED BY <1>2, <2>1, ManualRecords
<1>3. CASE OtherCaller
  BY <1>3, CallerRecords DEF OtherCaller, Replaying
<1>4. CASE StartReplay \/ ReplayStep \/ StoreBefore \/ StoreAfter \/ WriteManual \/ ManualFails
           \/ Interrupt \/ Wipe
  BY <1>4 DEF StartReplay, ReplayStep, ReplaySilently, ReplayReview, ReplayOrphan,
     ReplayComparison, ReplayGarbled, ReplayWriteFails, ReplayStray, ReplayIndexes, FinishReplay, StoreBefore, StoreAfter,
     WriteManual, ManualFails, Interrupt, Wipe, vars
<1> QED BY <1>1, <1>2, <1>3, <1>4 DEF OpenNext, ServiceNext, ManualStep

LEMMA TurnKeepsJournalType ==
    ASSUME TurnsInv, OpenNext
    PROVE  JournalTypeOK'
<1>1. JournalTypeOK
  BY DEF TurnsInv, TypeOK
<1>2. CASE UNCHANGED journalVars
  BY <1>1, <1>2 DEF journalVars, JournalTypeOK
<1> QED BY <1>1, <1>2, TurnRecords, RecordEffect

LEMMA ServiceKeepsRecordedLast ==
    ASSUME TurnsInv, Next, cmd' = cmd, cmd = "off"
    PROVE  RecordedLast'
<1>0. JournalTypeOK
  BY DEF TurnsInv, TypeOK
<1>1. CASE RecordCaptured
  <2>1. pc' \in {"compare", "review"} /\ (pc' = "compare" => before'.SHA256 # NoSHA)
    BY <1>1 DEF RecordCaptured, Changed, iterVars
  <2> QED BY <2>1 DEF RecordedLast
<1>2. CASE AutoCompare
  <2>1. pc' = "writeCompare" /\ current' = current
    BY <1>2 DEF AutoCompare, current, projectVars, iterVars
  <2> DEFINE e == Compared(before.SHA256, sha, minute)
  <2>2. current \in Streams /\ e \in Events /\ e.type = "view.compared" /\ Record(current, e)
    <3>1. e.type = "view.compared" BY DEF Compared
    <3> QED BY <1>2, <3>1, ServiceRecords
  <2> HIDE DEF e
  <2>3. LastIs(current, "view.compared")'
    BY <1>0, <2>1, <2>2, RecordIsLast DEF LastIs
  <2> QED BY <2>1, <2>3 DEF RecordedLast
<1>3. CASE ReviewCapture
  <2>1. pc' = "writeReview" /\ UNCHANGED <<current, sha>>
    BY <1>3 DEF ReviewCapture, current, projectVars, iterVars
  <2>2. PICK score \in Scores : /\ current \in Streams /\ Reviewed(sha, score) \in Events
                                /\ Record(current, Reviewed(sha, score))
    BY <1>3, ServiceRecords
  <2> DEFINE e == Reviewed(sha, score)
  <2>3. e \in Events /\ e.type = "view.reviewed" /\ e.sha = sha /\ Record(current, e)
    BY <2>2 DEF Reviewed
  <2> HIDE DEF e
  <2>4. LastIs(current, "view.reviewed")' /\ lastEvent'.sha = sha'
    BY <1>0, <2>1, <2>2, <2>3, RecordIsLast DEF LastIs, lastEvent
  <2> QED BY <2>1, <2>4 DEF RecordedLast
<1>4. CASE StartPass \/ ScanProject \/ EndPass \/ IngestFails
           \/ WriteViewReview \/ ReviewFails \/ RefreshIndex \/ RefreshIndexFails \/ CutShort
           \/ Stop \/ Recover \/ Start \/ Crash \/ SkipView \/ LoadFails
           \/ BeginView \/ HashCapture \/ CopyBlob \/ WriteComparison \/ CompareFails
  <2>1. pc' \notin {"compare", "writeCompare", "writeReview"}
    BY <1>4 DEF StartPass, ScanProject, EndPass, IngestFails, WriteViewReview, ReviewFails,
       RefreshIndex, RefreshIndexFails, CutShort, Stop, Recover, Start, Restart, Crash, SkipView,
       LoadFails, EndIteration, AtNextView, BeginView, HashCapture, CopyBlob, WriteComparison,
       CompareFails
  <2> QED BY <2>1 DEF RecordedLast
<1>5. CASE AbortPass \/ Cancel \/ Tick \/ \E s \in Streams : EditFile(s)
  <2>1. UNCHANGED <<journal, view, pc, project, key, sha, before>>
    BY <1>5 DEF AbortPass, Cancel, Tick, EditFile, projectVars, iterVars, journalVars
  <2> QED BY <2>1 DEF TurnsInv, RecordedLast, LastIs, lastEvent, current
<1> QED BY <1>1, <1>2, <1>3, <1>4, <1>5 DEF Next, PassStep, Environment

\* The kinds of event the pass writes files of, as ReviewPipeline's lemmas know them.
LEMMA ServiceKeepsType ==
    ASSUME TurnsInv, Next
    PROVE  DiskTypeOK' /\ PassTypeOK' /\ EnvTypeOK'
<1>1. /\ pc = "writeCompare" => LastEventIs("view.compared")
      /\ pc = "writeReview" => LastEventIs("view.reviewed")
  BY DEF TurnsInv, RecordedLast, LastIs, LastEventIs, lastEvent
<1> QED BY <1>1, StepKeepsDiskType, StepKeepsPassType, StepKeepsEnvType DEF TurnsInv, TypeOK

LEMMA NothingFolded == initialViewState.Captures = 0
    BY DEF initialViewState

LEMMA ForgetType ==
    ASSUME Forget, CommandTypeOK, strays' \in Nat
    PROVE  CommandTypeOK'
<1>1. strayRead' \in 0..strays' /\ strayRead' = 0
  BY DEF Forget
<1> QED BY <1>1, NewViewState, NothingFolded DEF Forget, CommandTypeOK, Replaying

\* Only a capture counts as one.
LEMMA ApplyCounts ==
    ASSUME NEW state \in ViewState, NEW e \in Events
    PROVE  ApplyViewState(state, e).Captures
              = IF e.type = "view.captured" THEN state.Captures + 1 ELSE state.Captures
<1>1. CASE e.type = "view.captured"
  BY <1>1 DEF ApplyViewState, ApplyCaptured, ViewState
<1>2. CASE e.type = "view.reviewed"
  BY <1>2 DEF ApplyViewState, ApplyReviewed, ViewState
<1>3. CASE e.type \notin {"view.captured", "view.reviewed"}
  BY <1>3, OthersKeepState
<1> QED BY <1>1, <1>2, <1>3

\* A fold of the next event keeps the locals of a replay typed.
LEMMA FoldType ==
    ASSUME TurnsInv, NEW s \in Streams, AtEvent(s), Fold(s)
    PROVE  /\ NextEvent(s) \in Events /\ read[s] + 1 \in Positions(s)
           /\ read' \in [Streams -> Nat]
           /\ fold' \in [Streams -> ViewState]
           /\ lastCaptured' \in [Streams -> Contents \cup {NoSHA}]
           /\ \A t \in Streams : fold'[t].Captures # 0 => lastCaptured'[t] \in Contents
           /\ read'[s] = read[s] + 1
           /\ fold'[s] = ApplyViewState(fold[s], NextEvent(s))
           /\ lastCaptured'[s] = IF NextEvent(s).type = "view.captured" THEN NextEvent(s).sha
                                 ELSE lastCaptured[s]
           /\ \A t \in Streams \ {s} : /\ read'[t] = read[t] /\ fold'[t] = fold[t]
                                       /\ lastCaptured'[t] = lastCaptured[t]
<1>1. /\ read \in [Streams -> Nat] /\ fold \in [Streams -> ViewState]
      /\ lastCaptured \in [Streams -> Contents \cup {NoSHA}]
      /\ \A t \in Streams : fold[t].Captures # 0 => lastCaptured[t] \in Contents
      /\ JournalTypeOK
  BY DEF TurnsInv, TypeOK, CommandTypeOK
<1>2. read[s] + 1 \in Positions(s) /\ read[s] + 1 \in Nat
  BY <1>1 DEF AtEvent, Positions, JournalTypeOK
<1>3. NextEvent(s) \in Events
  BY <1>1, <1>2, JournalKinds DEF NextEvent
<1>4. ApplyViewState(fold[s], NextEvent(s)) \in ViewState
  BY <1>1, <1>3, ApplyType
<1>5. NextEvent(s).type = "view.captured" => NextEvent(s).sha \in Contents
  BY <1>3, EventKinds
<1> DEFINE e == NextEvent(s)
<1>6. /\ read' = [read EXCEPT ![s] = read[s] + 1]
      /\ fold' = [fold EXCEPT ![s] = ApplyViewState(fold[s], e)]
      /\ lastCaptured' = [lastCaptured EXCEPT ![s] =
            IF e.type = "view.captured" THEN e.sha ELSE lastCaptured[s]]
  BY DEF Fold
<1> HIDE DEF e
<1>7. e = NextEvent(s) BY DEF e
<1>8. /\ fold'[s].Captures # 0 => lastCaptured'[s] \in Contents
      /\ \A t \in Streams \ {s} : fold'[t] = fold[t] /\ lastCaptured'[t] = lastCaptured[t]
  <2>1. /\ fold'[s] = ApplyViewState(fold[s], e)
        /\ lastCaptured'[s] = IF e.type = "view.captured" THEN e.sha ELSE lastCaptured[s]
        /\ \A t \in Streams \ {s} : fold'[t] = fold[t] /\ lastCaptured'[t] = lastCaptured[t]
    BY <1>1, <1>6
  <2>2. fold'[s].Captures = IF e.type = "view.captured" THEN fold[s].Captures + 1
                            ELSE fold[s].Captures
    BY <1>1, <1>3, <1>7, <2>1, ApplyCounts
  <2> QED BY <1>1, <1>5, <1>7, <2>1, <2>2
<1> QED BY <1>1, <1>2, <1>3, <1>4, <1>5, <1>6, <1>7, <1>8

LEMMA CommandKeepsType ==
    ASSUME TurnsInv, OpenNext
    PROVE  CommandTypeOK'
<1>0. CommandTypeOK /\ TypeOK
  BY DEF TurnsInv
<1>a. /\ strays' \in Nat /\ strayRead \in 0..strays'
      /\ cmd = "events" => strays' = strays
  BY <1>0 DEF OpenNext, ServiceNext, OtherCaller, CommandTypeOK, Replaying
<1>1. CASE ServiceStep
  <2>1. UNCHANGED <<cmd, replayVars, manualVars>> /\ (cmd # "off" => pc' = pc)
    BY <1>1 DEF ServiceStep
  <2> QED BY <1>0, <1>a, <2>1 DEF CommandTypeOK, Replaying, Running, replayVars, manualVars
<1>2. CASE OtherCaller \/ Wipe
  <2>1. UNCHANGED <<cmd, pc, replayVars, manualVars>>
    BY <1>2 DEF OtherCaller, Wipe, passVars
  <2> QED BY <1>0, <1>a, <2>1 DEF CommandTypeOK, Replaying, Running, replayVars, manualVars
<1>3. CASE StartReplay
  BY <1>0, <1>a, <1>3 DEF StartReplay, CommandTypeOK, Replaying, Running, vars, manualVars
<1>4. ASSUME NEW s \in Streams, AtEvent(s), Fold(s), UNCHANGED <<cmd, pc, manualVars, strayRead>>,
             failed' \in BOOLEAN
      PROVE  CommandTypeOK'
  <2>1. cmd' = "events" /\ ~Running'
    BY <1>0, <1>a, <1>4 DEF AtEvent, CommandTypeOK, Running
  <2>2. /\ read' \in [Streams -> Nat]
        /\ fold' \in [Streams -> ViewState]
        /\ lastCaptured' \in [Streams -> Contents \cup {NoSHA}]
        /\ \A t \in Streams : fold'[t].Captures # 0 => lastCaptured'[t] \in Contents
    BY <1>4, FoldType
  <2> QED BY <1>0, <1>a, <1>4, <2>1, <2>2 DEF CommandTypeOK, Replaying
<1>5. CASE \E s \in Streams : \/ ReplaySilently(s) \/ ReplayReview(s) \/ ReplayOrphan(s)
                              \/ ReplayComparison(s) \/ ReplayGarbled(s) \/ ReplayWriteFails(s)
  <2>1. PICK s \in Streams : \/ ReplaySilently(s) \/ ReplayReview(s) \/ ReplayOrphan(s)
                             \/ ReplayComparison(s) \/ ReplayGarbled(s) \/ ReplayWriteFails(s)
    BY <1>5
  <2>2. /\ AtEvent(s) /\ Fold(s) /\ UNCHANGED <<cmd, pc, manualVars, strayRead>>
        /\ failed' = failed \/ failed' = TRUE
    BY <2>1 DEF ReplaySilently, ReplayReview, ReplayOrphan, ReplayComparison, ReplayGarbled, ReplayWriteFails,
       vars, passVars
  <2>3. failed' \in BOOLEAN
    BY <1>0, <1>a, <2>2 DEF CommandTypeOK
  <2> QED BY <1>4, <2>2, <2>3
<1>6. CASE ReplayIndexes
  <2>1. /\ cmd' = "done" /\ UNCHANGED <<pc, read, strayRead, fold, lastCaptured>> /\ cmd = "events"
        /\ failed' \in BOOLEAN
    BY <1>6 DEF ReplayIndexes, passVars
  <2> QED BY <1>0, <1>a, <2>1 DEF CommandTypeOK, Replaying, Running
<1>7. CASE FinishReplay \/ WriteManual \/ ManualFails \/ Interrupt
  BY <1>0, <1>a, <1>7, ForgetType DEF FinishReplay, WriteManual, ManualFails, Interrupt
<1>8. CASE StoreBefore
  <2>1. PICK s \in Streams, b \in Contents : target' = s /\ pair' = <<b, NoSHA>>
    BY <1>8 DEF StoreBefore
  <2>2. pair'[1] \in Contents /\ target' \in Streams
    BY <2>1
  <2>3. cmd = "off" /\ cmd' = "storeAfter" /\ ~Running /\ UNCHANGED <<pc, replayVars>>
    BY <1>8 DEF StoreBefore, passVars
  <2> QED BY <1>0, <1>a, <2>2, <2>3 DEF CommandTypeOK, Replaying, Running, replayVars
<1>9. CASE StoreAfter
  <2>1. PICK a \in Contents : pair' = <<pair[1], a>>
    BY <1>9 DEF StoreAfter
  <2>2. pair'[1] = pair[1] /\ pair'[2] = a
    BY <2>1
  <2>3. cmd = "storeAfter" /\ cmd' = "judge" /\ UNCHANGED <<pc, replayVars, target>>
    BY <1>9 DEF StoreAfter, passVars
  <2> QED BY <1>0, <1>a, <2>2, <2>3 DEF CommandTypeOK, Replaying, Running, replayVars
<1>10. CASE RecordManual
  BY <1>0, <1>a, <1>10 DEF RecordManual, CommandTypeOK, Replaying, Running, passVars, replayVars, manualVars
<1>11. CASE ReplayStray
  <2>1. /\ cmd = "events" /\ UNCHANGED <<cmd, pc, read, fold, lastCaptured>>
        /\ strayRead' = strayRead + 1 /\ strayRead < strays /\ failed' = TRUE
    BY <1>11 DEF ReplayStray, vars
  <2> QED BY <1>0, <1>a, <2>1 DEF CommandTypeOK, Replaying, Running
<1> QED BY <1>1, <1>2, <1>3, <1>5, <1>6, <1>7, <1>8, <1>9, <1>10, <1>11
        DEF OpenNext, ServiceNext, ReplayStep, ManualStep

LEMMA TurnKeepsRecordedLast ==
    ASSUME TurnsInv, OpenNext
    PROVE  RecordedLast'
<1>0. JournalTypeOK /\ RecordedLast /\ CommandTypeOK
  BY DEF TurnsInv, TypeOK
<1>1. CASE ServiceStep
  <2>1. CASE cmd = "off"
    BY <1>1, <2>1, ServiceKeepsRecordedLast DEF ServiceStep
  <2>2. CASE cmd # "off"
    <3>1. UNCHANGED <<journal, pc, key, project, sha, before, cmd, target>>
      BY <1>0, <1>1, <2>2, HeldService
      DEF CommandTypeOK, journalVars, projectVars, iterVars, manualVars
    <3> QED BY <1>0, <3>1 DEF RecordedLast, LastIs, lastEvent, current
  <2> QED BY <2>1, <2>2
<1>2. CASE RecordManual
  <2>1. ~Running' /\ UNCHANGED <<pc, target>> /\ target \in Streams
    BY <1>0, <1>2 DEF RecordManual, CommandTypeOK, Running, passVars, manualVars
  <2>2. PICK e \in Events : e.type = "view.compared" /\ Record(target, e)
    BY <1>2, ManualRecords
  <2>3. LastIs(target, "view.compared")'
    BY <1>0, <2>1, <2>2, RecordIsLast DEF LastIs
  <2> QED BY <2>1, <2>3 DEF RecordedLast, Running
<1>3. CASE OtherCaller
  BY <1>3 DEF OtherCaller, RecordedLast, passVars, Running
<1>4. ASSUME ~Running, UNCHANGED pc, cmd' # "write" PROVE RecordedLast'
  BY <1>4 DEF RecordedLast, Running
<1>5. CASE StartReplay \/ StoreBefore \/ StoreAfter \/ Wipe
  <2>1. ~Running /\ UNCHANGED pc /\ cmd' # "write"
    BY <1>0, <1>5 DEF StartReplay, StoreBefore, StoreAfter, Wipe, CommandTypeOK, vars, passVars
  <2> QED BY <1>4, <2>1
<1>6. CASE ReplayStep \/ WriteManual \/ ManualFails \/ Interrupt
  <2>1. UNCHANGED pc /\ cmd' # "write" /\ cmd # "off"
    BY <1>6 DEF ReplayStep, ReplaySilently, ReplayReview, ReplayOrphan, ReplayComparison,
       ReplayGarbled, ReplayWriteFails, ReplayStray, ReplayIndexes, FinishReplay, WriteManual, ManualFails, Interrupt,
       Forget, AtEvent, vars, passVars
  <2> QED BY <1>0, <1>4, <2>1 DEF CommandTypeOK
<1> QED BY <1>1, <1>2, <1>3, <1>5, <1>6 DEF OpenNext, ServiceNext, ManualStep

\* What a command writes is what the files of its kind hold.
LEMMA CommandKeepsDiskType ==
    ASSUME TurnsInv, OpenNext, ~ServiceStep
    PROVE  DiskTypeOK'
<1>0. JournalTypeOK /\ DiskTypeOK /\ CommandTypeOK /\ RecordedLast
  BY DEF TurnsInv, TypeOK
<1>1. CASE \E s \in Streams : ReplayReview(s)
  <2>1. PICK s \in Streams : ReplayReview(s)
    BY <1>1
  <2> PICK e : e = NextEvent(s) OBVIOUS
  <2>2. /\ AtEvent(s) /\ Fold(s) /\ e.type = "view.reviewed" /\ fold'[s].Captures > 0
        /\ reviews' = [reviews EXCEPT ![s] = RenderViewReview(lastCaptured[s], e)]
        /\ UNCHANGED <<files, blobs, comparisons, index>>
    BY <2>1 DEF ReplayReview
  <2>3. e \in Events /\ e.sha \in Contents /\ e.score \in Scores
    BY <2>2, FoldType, EventKinds
  <2>4. lastCaptured[s] \in Contents
    <3>1. fold'[s].Captures # 0 /\ lastCaptured'[s] = lastCaptured[s]
      BY <2>2, FoldType
    <3> QED BY <2>2, <3>1, FoldType
  <2>5. RenderViewReview(lastCaptured[s], e) \in [captured : Contents, sha : Contents, score : Scores]
    BY <2>3, <2>4 DEF RenderViewReview
  <2> QED BY <1>0, <2>2, <2>5 DEF DiskTypeOK
<1>2. ASSUME NEW s \in Streams, NEW e \in Events, e.type = "view.compared",
             comparisons' = [comparisons EXCEPT ![s][e.at] = RenderComparison(e)],
             UNCHANGED <<files, blobs, reviews, index>>
      PROVE  DiskTypeOK'
  <2>1. e.at \in Minutes /\ RenderComparison(e) \in [before : Contents, after : Contents]
    BY <1>2, EventKinds DEF RenderComparison
  <2> QED BY <1>0, <1>2, <2>1 DEF DiskTypeOK
<1>3. CASE \E s \in Streams : ReplayComparison(s)
  <2>1. PICK s \in Streams : ReplayComparison(s)
    BY <1>3
  <2>2. NextEvent(s) \in Events
    BY <2>1, FoldType DEF ReplayComparison
  <2> QED BY <1>2, <2>1, <2>2 DEF ReplayComparison
<1>4. CASE WriteManual
  <2>1. LastIs(target, "view.compared") /\ target \in Streams
    BY <1>0, <1>4 DEF WriteManual, RecordedLast, CommandTypeOK
  <2> PICK e : e = journal[target][Len(journal[target])] OBVIOUS
  <2>2. e \in Events /\ e.type = "view.compared"
    BY <1>0, <2>1, JournalKinds DEF LastIs, JournalTypeOK, Positions
  <2>3. /\ comparisons' = [comparisons EXCEPT ![target][e.at] = RenderComparison(e)]
        /\ UNCHANGED <<files, blobs, reviews, index>>
    BY <1>4 DEF WriteManual
  <2> QED BY <1>2, <2>1, <2>2, <2>3
<1>5. CASE ReplayIndexes
  <2>1. \A p \in Projects : ReplayIndex(p, fold)
            \in UNION {[K -> [Score : Scores, Previous : Scores]] : K \in SUBSET Keys}
    <3> TAKE p \in Projects
    <3>1. \A k \in Keys : IndexRow(fold[<<p, k>>]) \in [Score : Scores, Previous : Scores]
      BY <1>0 DEF CommandTypeOK, Streams, IndexRow, ViewState
    <3> DEFINE K == {k \in Keys : read[<<p, k>>] > 0}
    <3>2. K \in SUBSET Keys
      OBVIOUS
    <3>3. ReplayIndex(p, fold) \in [K -> [Score : Scores, Previous : Scores]]
      BY <3>1 DEF ReplayIndex
    <3> HIDE DEF K
    <3> QED BY <3>2, <3>3
  <2>2. PICK written : index' = [p \in Projects |->
                          IF p \in written THEN ReplayIndex(p, fold) ELSE index[p]]
    BY <1>5 DEF ReplayIndexes
  <2>3. UNCHANGED <<files, blobs, reviews, comparisons>>
    BY <1>5 DEF ReplayIndexes
  <2> QED BY <1>0, <2>1, <2>2, <2>3 DEF DiskTypeOK
<1>6. ASSUME NEW c \in Contents, StoreFile(c), UNCHANGED <<files, dirVars>>
      PROVE  DiskTypeOK'
  <2>1. blobs' \in [Contents -> Contents \cup {None}]
    BY <1>0, <1>6 DEF StoreFile, DiskTypeOK
  <2> QED BY <1>0, <1>6, <2>1 DEF DiskTypeOK, dirVars
<1>7. CASE StoreBefore
  <2>1. PICK b \in Contents : StoreFile(b)
    BY <1>7 DEF StoreBefore
  <2> QED BY <1>6, <1>7, <2>1 DEF StoreBefore
<1>8. CASE StoreAfter
  <2>1. PICK a \in Contents : StoreFile(a)
    BY <1>8 DEF StoreAfter
  <2> QED BY <1>6, <1>8, <2>1 DEF StoreAfter
<1>9. CASE Wipe
  BY <1>0, <1>9 DEF Wipe, DiskTypeOK
<1>10. CASE \/ StartReplay \/ FinishReplay \/ RecordManual \/ ManualFails \/ Interrupt \/ OtherCaller
            \/ ReplayStray
            \/ \E s \in Streams : \/ ReplaySilently(s) \/ ReplayOrphan(s)
                                  \/ ReplayGarbled(s) \/ ReplayWriteFails(s)
  <2>1. UNCHANGED diskVars
    BY <1>10 DEF StartReplay, FinishReplay, RecordManual, ManualFails, Interrupt, OtherCaller,
       ReplaySilently, ReplayOrphan, ReplayGarbled, ReplayStray, ReplayWriteFails, vars
  <2> QED BY <1>0, <2>1 DEF diskVars, DiskTypeOK
<1> QED BY <1>1, <1>3, <1>4, <1>5, <1>7, <1>8, <1>9, <1>10
        DEF OpenNext, ServiceNext, ReplayStep, ManualStep

\* A command leaves the service where it is.
LEMMA CommandKeepsPc ==
    ASSUME OpenNext, ~ServiceStep
    PROVE  /\ UNCHANGED <<pc, ctxDone, projectVars, todo, iterVars, errs, result, minute, edits, cancels>>
           /\ failures' = failures \/ failures' = failures + 1
           /\ crashes' = crashes \/ crashes' = crashes + 1
<1>1. CASE \/ StartReplay \/ FinishReplay \/ RecordManual \/ ManualFails \/ Interrupt \/ OtherCaller
           \/ Wipe \/ StoreBefore \/ StoreAfter \/ WriteManual
  BY <1>1 DEF StartReplay, FinishReplay, RecordManual, ManualFails, Interrupt, OtherCaller,
     Wipe, StoreBefore, StoreAfter, WriteManual, DiskFault, vars, passVars, envVars
<1>2. CASE \/ ReplayIndexes \/ ReplayStray
           \/ \E s \in Streams : \/ ReplaySilently(s) \/ ReplayReview(s) \/ ReplayOrphan(s)
                                 \/ ReplayComparison(s) \/ ReplayGarbled(s) \/ ReplayWriteFails(s)
  BY <1>2 DEF ReplayIndexes, ReplayStray, ReplaySilently, ReplayReview, ReplayOrphan, ReplayComparison,
     ReplayGarbled, ReplayWriteFails, DiskFault, vars, passVars, envVars
<1> QED BY <1>1, <1>2 DEF OpenNext, ServiceNext, ReplayStep, ManualStep

LEMMA CommandKeepsPassType ==
    ASSUME TurnsInv, OpenNext, ~ServiceStep
    PROVE  PassTypeOK' /\ EnvTypeOK'
<1>0. PassTypeOK /\ EnvTypeOK
  BY DEF TurnsInv, TypeOK
<1>1. /\ UNCHANGED <<pc, ctxDone, projectVars, todo, iterVars, errs, result, minute, edits, cancels>>
      /\ failures' = failures \/ failures' = failures + 1
      /\ crashes' = crashes \/ crashes' = crashes + 1
  BY CommandKeepsPc
<1>2. PassTypeOK'
  BY <1>0, <1>1 DEF PassTypeOK, InView, projectVars, iterVars
<1>3. EnvTypeOK'
  BY <1>0, <1>1 DEF EnvTypeOK
<1> QED BY <1>2, <1>3

\* Whoever has the journal, every variable keeps its type.
THEOREM TurnsTypeCorrect == OpenSpec => []TurnsInv
<1>1. Init /\ CommandsInit => TurnsInv
  <2> SUFFICES ASSUME Init, CommandsInit PROVE TurnsInv
    OBVIOUS
  <2>1. TypeOK
    BY PipelineInit DEF PipelineInv
  <2>2. CommandTypeOK
    <3>1. strays \in Nat /\ strayRead = 0
      BY ReplayAssumption DEF CommandsInit
    <3>2. strayRead \in 0..strays
      BY <3>1
    <3> QED BY <3>1, <3>2, NewViewState, NothingFolded DEF CommandsInit, CommandTypeOK, Replaying, Running, Init
  <2>3. RecordedLast
    BY DEF Init, CommandsInit, RecordedLast
  <2> QED BY <2>1, <2>2, <2>3 DEF TurnsInv
<1>2. TurnsInv /\ [OpenNext]_allVars => TurnsInv'
  <2>1. ASSUME TurnsInv, OpenNext PROVE TurnsInv'
    <3>1. JournalTypeOK' /\ RecordedLast' /\ CommandTypeOK'
      BY <2>1, TurnKeepsJournalType, TurnKeepsRecordedLast, CommandKeepsType
    <3>2. DiskTypeOK' /\ PassTypeOK' /\ EnvTypeOK'
      <4>1. CASE ServiceStep
        BY <2>1, <4>1, ServiceKeepsType DEF ServiceStep
      <4>2. CASE ~ServiceStep
        BY <2>1, <4>2, CommandKeepsDiskType, CommandKeepsPassType
      <4> QED BY <4>1, <4>2
    <3> QED BY <3>1, <3>2 DEF TurnsInv, TypeOK
  <2>2. ASSUME TurnsInv, UNCHANGED allVars PROVE TurnsInv'
    <3>1. TypeOK'
      BY <2>2 DEF TurnsInv, TypeOK, allVars, vars, diskVars, envVars, projectVars, iterVars, journalVars,
         JournalTypeOK, DiskTypeOK, EnvTypeOK, PassTypeOK, InView
    <3>2. CommandTypeOK' /\ RecordedLast'
      BY <2>2 DEF TurnsInv, allVars, vars, projectVars, iterVars, journalVars, replayVars, manualVars,
         CommandTypeOK, Replaying, Running, RecordedLast, LastIs, lastEvent, current
    <3> QED BY <3>1, <3>2 DEF TurnsInv
  <2> QED BY <2>1, <2>2
<1> QED BY <1>1, <1>2, PTL DEF OpenSpec

-----------------------------------------------------------------------------
(* The fold of a replay is that of LoadView, as far as it has read. *)

Folds(f, events) ==
    /\ f[0] = initialViewState
    /\ \A i \in 1..Len(events) : f[i] = ApplyViewState(f[i - 1], events[i])

FoldedSoFar ==
    \A s \in Streams : \E f :
        /\ Folds(f, journal[s])
        /\ view[s] = f[Len(journal[s])]
        /\ fold[s] = f[read[s]]

ReplayEvent(s) ==
    \/ ReplaySilently(s) \/ ReplayReview(s) \/ ReplayOrphan(s)
    \/ ReplayComparison(s) \/ ReplayGarbled(s) \/ ReplayWriteFails(s)

LEMMA EventFolds ==
    ASSUME NEW s \in Streams, ReplayEvent(s)
    PROVE  /\ AtEvent(s) /\ Fold(s)
           /\ cmd = "events" /\ (cmd' = "events")
           /\ UNCHANGED <<journalVars, index, shown, crashes, strayRead>>
           /\ failures' = failures \/ (DiskFault /\ failed')
           /\ failed => failed'
    BY DEF ReplayEvent, ReplaySilently, ReplayReview, ReplayOrphan, ReplayComparison,
       ReplayGarbled, ReplayWriteFails, AtEvent, vars, diskVars, passVars, envVars

\* What a step can do to a replay.
LEMMA TurnCases ==
    ASSUME TurnsInv, OpenNext
    PROVE  \/ cmd' \notin {"events", "done"}
           \/ StartReplay
           \/ \E s \in Streams : ReplayEvent(s)
           \/ ReplayStray
           \/ ReplayIndexes /\ UNCHANGED strays
           \/ /\ cmd # "off"
              /\ UNCHANGED <<journalVars, reviews, comparisons, index, failures, crashes, cmd,
                             replayVars, strays>>
<1>1. CASE ServiceStep
  <2>1. cmd' = cmd /\ (cmd' # "off" => UNCHANGED strays)
    BY <1>1 DEF ServiceStep, OpenNext, ServiceNext, OtherCaller
  <2> QED BY <1>1, <2>1, HeldService DEF TurnsInv, CommandTypeOK, vars
<1>2. CASE OtherCaller \/ Wipe \/ ManualStep \/ Interrupt \/ FinishReplay
  BY <1>2 DEF OtherCaller, Wipe, ManualStep, StoreBefore, StoreAfter, RecordManual, WriteManual,
     ManualFails, Interrupt, FinishReplay, Forget
<1> QED BY <1>1, <1>2 DEF OpenNext, ServiceNext, ReplayStep, ReplayEvent

LEMMA TurnKeepsFold ==
    ASSUME TurnsInv, TurnsInv', FoldedSoFar, OpenNext
    PROVE  FoldedSoFar'
<1>0. JournalTypeOK
  BY DEF TurnsInv, TypeOK
<1>1. ~Replaying' => \A t \in Streams : read'[t] = 0 /\ fold'[t] = initialViewState
  BY DEF TurnsInv, CommandTypeOK
<1>2. ASSUME UNCHANGED journalVars, NEW t \in Streams,
             \/ fold'[t] = fold[t] /\ read'[t] = read[t]
             \/ read'[t] = 0 /\ fold'[t] = initialViewState
             \/ AtEvent(t) /\ Fold(t)
      PROVE  \E f : /\ Folds(f, journal'[t])
                    /\ view'[t] = f[Len(journal'[t])]
                    /\ fold'[t] = f[read'[t]]
  <2>1. PICK f : /\ Folds(f, journal[t])
                 /\ view[t] = f[Len(journal[t])]
                 /\ fold[t] = f[read[t]]
    BY DEF FoldedSoFar
  <2>2. journal'[t] = journal[t] /\ view'[t] = view[t]
    BY <1>2 DEF journalVars
  <2>3. fold'[t] = f[read'[t]]
    <3>1. CASE fold'[t] = fold[t] /\ read'[t] = read[t]
      BY <2>1, <3>1
    <3>2. CASE read'[t] = 0 /\ fold'[t] = initialViewState
      BY <2>1, <3>2 DEF Folds
    <3>3. CASE AtEvent(t) /\ Fold(t)
      <4>1. /\ read'[t] = read[t] + 1 /\ fold'[t] = ApplyViewState(fold[t], NextEvent(t))
            /\ read[t] + 1 \in Positions(t)
        BY <3>3, FoldType
      <4>2. f[read[t] + 1] = ApplyViewState(f[(read[t] + 1) - 1], journal[t][read[t] + 1])
        BY <2>1, <4>1 DEF Folds, Positions
      <4>3. (read[t] + 1) - 1 = read[t]
        BY DEF TurnsInv, CommandTypeOK
      <4> QED BY <2>1, <4>1, <4>2, <4>3 DEF NextEvent
    <3> QED BY <1>2, <3>1, <3>2, <3>3
  <2> QED BY <2>1, <2>2, <2>3
<1>3. CASE UNCHANGED journalVars
  <2>1. ASSUME NEW t \in Streams
        PROVE  \/ fold'[t] = fold[t] /\ read'[t] = read[t]
               \/ read'[t] = 0 /\ fold'[t] = initialViewState
               \/ AtEvent(t) /\ Fold(t)
    <3>1. CASE cmd' \notin {"events", "done"}
      BY <1>1, <3>1 DEF Replaying
    <3>2. CASE StartReplay \/ ReplayStray \/ ReplayIndexes \/ UNCHANGED replayVars
      BY <3>2 DEF StartReplay, ReplayStray, ReplayIndexes, replayVars
    <3>3. CASE \E s \in Streams : ReplayEvent(s)
      <4>1. PICK s \in Streams : ReplayEvent(s)
        BY <3>3
      <4>2. AtEvent(s) /\ Fold(s)
        BY <4>1, EventFolds
      <4> QED BY <4>2, FoldType
    <3> QED BY <3>1, <3>2, <3>3, TurnCases
  <2> QED BY <1>2, <1>3, <2>1 DEF FoldedSoFar
<1>4. ASSUME ~Replaying', NEW s \in Streams, NEW e \in Events, Record(s, e), NEW t \in Streams
      PROVE  \E f : /\ Folds(f, journal'[t])
                    /\ view'[t] = f[Len(journal'[t])]
                    /\ fold'[t] = f[read'[t]]
  <2>1. PICK f : Folds(f, journal[t]) /\ view[t] = f[Len(journal[t])]
    BY DEF FoldedSoFar
  <2>2. read'[t] = 0 /\ fold'[t] = initialViewState
    BY <1>1, <1>4
  <2>3. CASE t # s
    <3>1. journal'[t] = journal[t] /\ view'[t] = view[t]
      BY <1>0, <1>4, <2>3, RecordEffect
    <3> QED BY <2>1, <2>2, <3>1 DEF Folds
  <2>4. CASE t = s
    <3>1. PICK n \in Nat : n = Len(journal[s])
      BY <1>0 DEF JournalTypeOK
    <3>2. /\ Len(journal'[s]) = n + 1 /\ journal'[s][n + 1] = e
          /\ \A i \in 1..n : journal'[s][i] = journal[s][i]
          /\ view'[s] = ApplyViewState(view[s], e)
      BY <1>0, <1>4, <3>1, RecordEffect DEF Positions
    <3> DEFINE g == [i \in 0..(n + 1) |-> IF i = n + 1 THEN ApplyViewState(f[n], e) ELSE f[i]]
    <3>3. /\ g[0] = f[0] /\ g[n + 1] = ApplyViewState(f[n], e) /\ g[n] = f[n]
          /\ \A i \in 1..n : g[i] = f[i] /\ g[i - 1] = f[i - 1]
      OBVIOUS
    <3> HIDE DEF g
    <3>4. \A i \in 1..(n + 1) : g[i] = ApplyViewState(g[i - 1], journal'[s][i])
      <4> TAKE i \in 1..(n + 1)
      <4>1. CASE i = n + 1
        <5>1. i - 1 = n BY <4>1
        <5> QED BY <3>2, <3>3, <4>1, <5>1
      <4>2. CASE i \in 1..n
        BY <2>1, <2>4, <3>1, <3>2, <3>3, <4>2 DEF Folds
      <4> QED BY <4>1, <4>2
    <3>5. Folds(g, journal'[s]) /\ view'[s] = g[Len(journal'[s])] /\ fold'[s] = g[read'[s]]
      BY <2>1, <2>2, <2>4, <3>1, <3>2, <3>3, <3>4 DEF Folds
    <3> QED BY <2>4, <3>5
  <2> QED BY <2>3, <2>4
<1> QED BY <1>3, <1>4, TurnRecords DEF FoldedSoFar

LEMMA TurnsFold == OpenSpec => []FoldedSoFar
<1>1. Init /\ CommandsInit => FoldedSoFar
  <2> SUFFICES ASSUME Init, CommandsInit, NEW s \in Streams
               PROVE  \E f : /\ Folds(f, journal[s])
                             /\ view[s] = f[Len(journal[s])]
                             /\ fold[s] = f[read[s]]
    BY DEF FoldedSoFar
  <2> DEFINE f == [i \in {0} |-> initialViewState]
  <2>1. journal[s] = <<>> /\ view[s] = initialViewState /\ fold[s] = initialViewState /\ read[s] = 0
    BY DEF Init, JournalInit, CommandsInit
  <2>2. f[0] = initialViewState /\ Len(journal[s]) = 0
    BY <2>1
  <2> HIDE DEF f
  <2> QED BY <2>1, <2>2 DEF Folds
<1>2. TurnsInv /\ TurnsInv' /\ FoldedSoFar /\ [OpenNext]_allVars => FoldedSoFar'
  <2>1. UNCHANGED allVars => UNCHANGED <<journal, view, read, fold>>
    BY DEF allVars, vars, journalVars, replayVars
  <2>2. FoldedSoFar /\ UNCHANGED <<journal, view, read, fold>> => FoldedSoFar'
    BY DEF FoldedSoFar
  <2> QED BY <2>1, <2>2, TurnKeepsFold
<1> QED BY <1>1, <1>2, TurnsTypeCorrect, PTL DEF OpenSpec

-----------------------------------------------------------------------------
(* What a replay has written, of the events it has read. *)

NoneIn(s, from, to, type) == \A k \in from..to : ~IsAt(s, k, type)

AtMinute(s, i, at) == IsAt(s, i, "view.compared") /\ journal[s][i].at = at

\* No file has been left unwritten since the replay began.
NothingMissed == ~failed \/ failures = 0

ReadWithin == \A s \in Streams : read[s] <= Len(journal[s])

\* A replay knows the last capture it has read, if any.
CapturesReplayed ==
    \A s \in Streams :
        /\ fold[s].Captures = 0 <=> NoneIn(s, 1, read[s], "view.captured")
        /\ \A i \in 1..read[s] :
              IsAt(s, i, "view.captured") /\ NoneIn(s, i + 1, read[s], "view.captured")
                 => lastCaptured[s] = journal[s][i].sha

\* The review file of a view is the last review read, with the capture before it.
ReviewsReplayed ==
    NothingMissed => \A s \in Streams : \A i \in 1..read[s] : \A j \in 1..(i - 1) :
        /\ IsAt(s, i, "view.reviewed") /\ NoneIn(s, i + 1, read[s], "view.reviewed")
        /\ IsAt(s, j, "view.captured") /\ NoneIn(s, j + 1, i - 1, "view.captured")
        => reviews[s] = RenderViewReview(journal[s][j].sha, journal[s][i])

\* The comparison file of a minute is the last comparison read that was made in it.
ComparisonsReplayed ==
    NothingMissed => \A s \in Streams : \A i \in 1..read[s] : \A at \in Minutes :
        AtMinute(s, i, at) /\ (\A k \in (i + 1)..read[s] : ~AtMinute(s, k, at))
           => comparisons[s][at] = RenderComparison(journal[s][i])

Orphan(s, i) == IsAt(s, i, "view.reviewed") /\ NoneIn(s, 1, i - 1, "view.captured")

Reported(s, i) == IsAt(s, i, "garbled") \/ Orphan(s, i)

\* Unless a write fails, the error of a replay is that of an event read so far.
FailedAsReported ==
    failures = 0 =>
        (failed <=> \/ strayRead > 0
                    \/ \E s \in Streams : \E i \in 1..read[s] : Reported(s, i))

\* At the end everything has been read, and every INDEX lists the folds of LoadView.
IndexReplayed ==
    cmd = "done" =>
        /\ strayRead = strays
        /\ \A s \in Streams : read[s] = Len(journal[s])
        /\ NothingMissed => \A p \in Projects : (\E k \in Keys : read[<<p, k>>] > 0) =>
                               index[p] = ReplayIndex(p, view)

\* A file no event read so far is about is as the replay found it.
UntouchedUntilRead ==
    Replaying => \A s \in Streams :
        /\ NoneIn(s, 1, read[s], "view.reviewed") => reviews[s] = shown.reviews[s]
        /\ \A at \in Minutes : (\A k \in 1..read[s] : ~AtMinute(s, k, at)) =>
              comparisons[s][at] = shown.comparisons[s][at]

ReplayInv ==
    /\ ReadWithin
    /\ CapturesReplayed
    /\ ReviewsReplayed
    /\ ComparisonsReplayed
    /\ FailedAsReported
    /\ IndexReplayed
    /\ UntouchedUntilRead

\* Before the first event there is nothing to say.
LEMMA NothingRead ==
    ASSUME TurnsInv, \A s \in Streams : read[s] = 0 /\ fold[s] = initialViewState,
           failed = FALSE, strayRead = 0, cmd # "done",
           Replaying => shown = [reviews |-> reviews, comparisons |-> comparisons]
    PROVE  ReplayInv
<1>1. ReadWithin /\ CapturesReplayed
  BY NothingFolded DEF TurnsInv, TypeOK, JournalTypeOK, ReadWithin, CapturesReplayed, NoneIn
<1>2. ReviewsReplayed /\ ComparisonsReplayed /\ FailedAsReported /\ IndexReplayed
  BY DEF ReviewsReplayed, ComparisonsReplayed, FailedAsReported, IndexReplayed
<1>3. UntouchedUntilRead
  BY DEF UntouchedUntilRead
<1> QED BY <1>1, <1>2, <1>3 DEF ReplayInv

\* Where the replay is in the stream of the event it reads.
LEMMA EventPosition ==
    ASSUME TurnsInv, NEW s \in Streams, ReplayEvent(s)
    PROVE  \E r \in Nat :
              /\ r = read[s] /\ r + 1 \in Positions(s) /\ read'[s] = r + 1
              /\ r + 1 <= Len(journal[s])
              /\ NextEvent(s) = journal[s][r + 1] /\ NextEvent(s) \in Events
              /\ \A type : IsAt(s, r + 1, type) <=> NextEvent(s).type = type
<1>1. AtEvent(s) /\ Fold(s)
  BY EventFolds
<1>2. read[s] \in Nat
  BY DEF TurnsInv, CommandTypeOK
<1>3. read[s] + 1 \in Positions(s) /\ read'[s] = read[s] + 1 /\ NextEvent(s) \in Events
  BY <1>1, FoldType
<1> QED BY <1>2, <1>3 DEF NextEvent, IsAt, Positions

\* What an event writes.
LEMMA EventWrites ==
    ASSUME TurnsInv, NEW s \in Streams, ReplayEvent(s)
    PROVE  LET e == NextEvent(s) IN
           /\ \A t \in Streams \ {s} : reviews'[t] = reviews[t] /\ comparisons'[t] = comparisons[t]
           /\ \/ /\ e.type \in {"view.captured", "newer"}
                 /\ UNCHANGED <<reviews, comparisons, failures>> /\ (failed' <=> failed)
              \/ /\ e.type = "view.reviewed" /\ fold[s].Captures > 0
                 /\ reviews'[s] = RenderViewReview(lastCaptured[s], e)
                 /\ UNCHANGED <<comparisons, failures>> /\ (failed' <=> failed)
              \/ /\ e.type = "view.reviewed" /\ fold[s].Captures = 0 /\ failed'
                 /\ UNCHANGED <<reviews, comparisons, failures>>
              \/ /\ e.type = "garbled" /\ failed'
                 /\ UNCHANGED <<reviews, comparisons, failures>>
              \/ /\ e.type = "view.compared"
                 /\ \A at \in Minutes : comparisons'[s][at] = IF at = e.at THEN RenderComparison(e)
                                                             ELSE comparisons[s][at]
                 /\ UNCHANGED <<reviews, failures>> /\ (failed' <=> failed)
              \/ /\ e.type \in {"view.reviewed", "view.compared"}
                 /\ failed' /\ failures' # 0
                 /\ UNCHANGED <<reviews, comparisons>>
<1> PICK e : e = NextEvent(s) OBVIOUS
<1>1. DiskTypeOK /\ e \in Events /\ Fold(s) /\ fold[s] \in ViewState
  BY EventFolds, EventPosition DEF TurnsInv, TypeOK, CommandTypeOK
<1>2. fold'[s] = ApplyViewState(fold[s], e)
  BY EventFolds, FoldType
<1>3. e.type = "view.reviewed" => fold'[s].Captures = fold[s].Captures
  BY <1>1, <1>2, ApplyCounts
<1>4. CASE ReplaySilently(s)
  BY <1>4 DEF ReplaySilently, vars, diskVars
<1>5. CASE ReplayReview(s)
  <2>1. /\ e.type = "view.reviewed" /\ fold[s].Captures > 0
        /\ reviews' = [reviews EXCEPT ![s] = RenderViewReview(lastCaptured[s], e)]
        /\ UNCHANGED <<comparisons, failed, failures>>
    BY <1>3, <1>5 DEF ReplayReview
  <2> QED BY <1>1, <2>1 DEF DiskTypeOK
<1>6. CASE ReplayOrphan(s)
  BY <1>3, <1>6 DEF ReplayOrphan, vars, diskVars
<1>7. CASE ReplayComparison(s)
  <2>1. /\ e.type = "view.compared"
        /\ comparisons' = [comparisons EXCEPT ![s][e.at] = RenderComparison(e)]
        /\ UNCHANGED <<reviews, failed, failures>>
    BY <1>7 DEF ReplayComparison
  <2> QED BY <1>1, <2>1 DEF DiskTypeOK
<1>8. CASE ReplayWriteFails(s)
  <2>1. failures \in Nat /\ failures' = failures + 1
    BY <1>8 DEF ReplayWriteFails, DiskFault, TurnsInv, TypeOK, EnvTypeOK
  <2>2. failures' # 0
    BY <2>1
  <2> QED BY <1>8, <2>2 DEF ReplayWriteFails, diskVars
<1>9. CASE ReplayGarbled(s)
  BY <1>9 DEF ReplayGarbled, vars, diskVars
<1> QED BY <1>4, <1>5, <1>6, <1>7, <1>8, <1>9 DEF ReplayEvent

LEMMA EventKeepsJournal ==
    ASSUME NEW s \in Streams, ReplayEvent(s)
    PROVE  /\ UNCHANGED <<journal, view>>
           /\ \A t, i, type : IsAt(t, i, type)' <=> IsAt(t, i, type)
           /\ \A t, i, at : AtMinute(t, i, at)' <=> AtMinute(t, i, at)
    BY EventFolds DEF journalVars, IsAt, Positions, AtMinute

LEMMA EventKeepsCaptures ==
    ASSUME TurnsInv, CapturesReplayed, NEW s \in Streams, ReplayEvent(s)
    PROVE  CapturesReplayed'
<1> SUFFICES ASSUME NEW t \in Streams
             PROVE  /\ (fold[t].Captures = 0 <=> NoneIn(t, 1, read[t], "view.captured"))'
                    /\ (\A i \in 1..read[t] :
                          IsAt(t, i, "view.captured") /\ NoneIn(t, i + 1, read[t], "view.captured")
                             => lastCaptured[t] = journal[t][i].sha)'
  BY DEF CapturesReplayed
<1>1. PICK r \in Nat : /\ r = read[s] /\ r + 1 \in Positions(s) /\ read'[s] = r + 1
                       /\ NextEvent(s) = journal[s][r + 1] /\ NextEvent(s) \in Events
                       /\ \A type : IsAt(s, r + 1, type) <=> NextEvent(s).type = type
  BY EventPosition
<1>2. PICK e : e = NextEvent(s) OBVIOUS
<1>3. /\ fold'[s] = ApplyViewState(fold[s], e) /\ fold[s] \in ViewState
      /\ lastCaptured'[s] = IF e.type = "view.captured" THEN e.sha ELSE lastCaptured[s]
      /\ \A u \in Streams \ {s} : /\ read'[u] = read[u] /\ fold'[u] = fold[u]
                                  /\ lastCaptured'[u] = lastCaptured[u]
  BY <1>2, EventFolds, FoldType DEF TurnsInv, CommandTypeOK
<1>4. journal' = journal /\ \A u, i, type : IsAt(u, i, type)' <=> IsAt(u, i, type)
  BY EventKeepsJournal
<1>5. /\ fold[t].Captures = 0 <=> NoneIn(t, 1, read[t], "view.captured")
      /\ \A i \in 1..read[t] :
            IsAt(t, i, "view.captured") /\ NoneIn(t, i + 1, read[t], "view.captured")
               => lastCaptured[t] = journal[t][i].sha
  BY DEF CapturesReplayed
<1>6. CASE t # s
  BY <1>3, <1>4, <1>5, <1>6 DEF NoneIn
<1>7. CASE t = s
  <2>1. fold'[s].Captures = IF e.type = "view.captured" THEN fold[s].Captures + 1
                            ELSE fold[s].Captures
    BY <1>1, <1>2, <1>3, ApplyCounts
  <2>2. fold[s].Captures \in Nat
    BY <1>3 DEF ViewState
  <2>3. \A from \in 1..(r + 1) : NoneIn(s, from, r + 1, "view.captured")'
              <=> NoneIn(s, from, r, "view.captured") /\ e.type # "view.captured"
    BY <1>1, <1>2, <1>4 DEF NoneIn
  <2>4. (fold[s].Captures = 0 <=> NoneIn(s, 1, read[s], "view.captured"))'
    BY <1>1, <1>5, <1>7, <2>1, <2>2, <2>3 DEF NoneIn
  <2>5. ASSUME NEW i \in 1..(r + 1), IsAt(s, i, "view.captured"),
               NoneIn(s, i + 1, r + 1, "view.captured")'
        PROVE  lastCaptured'[s] = journal[s][i].sha
    <3>1. CASE i = r + 1
      BY <1>1, <1>2, <1>3, <2>5, <3>1
    <3>2. CASE i \in 1..r
      <4>1. NoneIn(s, i + 1, r, "view.captured") /\ e.type # "view.captured"
        BY <2>3, <2>5, <3>2
      <4> QED BY <1>1, <1>3, <1>5, <1>7, <2>5, <3>2, <4>1
    <3> QED BY <3>1, <3>2
  <2> QED BY <1>1, <1>4, <1>7, <2>4, <2>5 DEF NoneIn
<1> QED BY <1>6, <1>7

LEMMA EventKeepsReviews ==
    ASSUME TurnsInv, CapturesReplayed, ReviewsReplayed, NEW s \in Streams, ReplayEvent(s)
    PROVE  ReviewsReplayed'
<1> SUFFICES ASSUME NothingMissed', NEW t \in Streams, NEW i \in (1..read[t])', NEW j \in 1..(i - 1),
                    IsAt(t, i, "view.reviewed")', NoneIn(t, i + 1, read[t], "view.reviewed")',
                    IsAt(t, j, "view.captured")', NoneIn(t, j + 1, i - 1, "view.captured")'
             PROVE  reviews'[t] = RenderViewReview(journal'[t][j].sha, journal'[t][i])
  BY DEF ReviewsReplayed
<1>1. PICK r \in Nat : /\ r = read[s] /\ r + 1 \in Positions(s) /\ read'[s] = r + 1
                       /\ NextEvent(s) = journal[s][r + 1] /\ NextEvent(s) \in Events
                       /\ \A type : IsAt(s, r + 1, type) <=> NextEvent(s).type = type
  BY EventPosition
<1>2. PICK e : e = NextEvent(s) OBVIOUS
<1>3. \A u \in Streams \ {s} : read'[u] = read[u]
  BY EventFolds, FoldType
<1>4. journal' = journal /\ \A u, k, type : IsAt(u, k, type)' <=> IsAt(u, k, type)
  BY EventKeepsJournal
<1>5. NothingMissed /\ failures \in Nat
  BY EventFolds DEF NothingMissed, TurnsInv, TypeOK, EnvTypeOK, DiskFault
<1>6. /\ IsAt(t, i, "view.reviewed") /\ IsAt(t, j, "view.captured")
      /\ NoneIn(t, j + 1, i - 1, "view.captured")
  BY <1>4 DEF NoneIn
<1>7. ASSUME i \in 1..read[t], NoneIn(t, i + 1, read[t], "view.reviewed"), reviews'[t] = reviews[t]
      PROVE  reviews'[t] = RenderViewReview(journal'[t][j].sha, journal'[t][i])
  BY <1>4, <1>5, <1>6, <1>7 DEF ReviewsReplayed
<1>8. CASE t # s
  BY <1>3, <1>4, <1>7, <1>8, EventWrites DEF NoneIn
<1>9. CASE t = s /\ i # r + 1
  <2>1. i \in 1..r /\ NoneIn(s, i + 1, r, "view.reviewed") /\ e.type # "view.reviewed"
    BY <1>1, <1>2, <1>4, <1>9 DEF NoneIn
  <2>2. reviews'[s] = reviews[s]
    BY <1>2, <2>1, EventWrites
  <2> QED BY <1>1, <1>7, <1>9, <2>1, <2>2
<1>10. CASE t = s /\ i = r + 1
  <2>1. e.type = "view.reviewed" /\ j \in 1..r /\ NoneIn(s, j + 1, r, "view.captured")
        /\ IsAt(s, j, "view.captured")
    BY <1>1, <1>2, <1>6, <1>10
  <2>2. fold[s].Captures # 0 /\ lastCaptured[s] = journal[s][j].sha
    BY <1>1, <2>1 DEF CapturesReplayed, NoneIn
  <2>3. reviews'[s] = RenderViewReview(lastCaptured[s], e)
    BY <1>2, <1>5, <2>1, <2>2, EventWrites DEF NothingMissed
  <2> QED BY <1>1, <1>2, <1>4, <1>10, <2>2, <2>3
<1> QED BY <1>8, <1>9, <1>10

LEMMA EventKeepsComparisons ==
    ASSUME TurnsInv, ComparisonsReplayed, NEW s \in Streams, ReplayEvent(s)
    PROVE  ComparisonsReplayed'
<1> SUFFICES ASSUME NothingMissed', NEW t \in Streams, NEW i \in (1..read[t])', NEW at \in Minutes,
                    AtMinute(t, i, at)', (\A k \in (i + 1)..read[t] : ~AtMinute(t, k, at))'
             PROVE  comparisons'[t][at] = RenderComparison(journal'[t][i])
  BY DEF ComparisonsReplayed
<1>1. PICK r \in Nat : /\ r = read[s] /\ r + 1 \in Positions(s) /\ read'[s] = r + 1
                       /\ NextEvent(s) = journal[s][r + 1] /\ NextEvent(s) \in Events
                       /\ \A type : IsAt(s, r + 1, type) <=> NextEvent(s).type = type
  BY EventPosition
<1>2. PICK e : e = NextEvent(s) OBVIOUS
<1>3. \A u \in Streams \ {s} : read'[u] = read[u]
  BY EventFolds, FoldType
<1>4. journal' = journal /\ \A u, k, m : AtMinute(u, k, m)' <=> AtMinute(u, k, m)
  BY EventKeepsJournal
<1>5. NothingMissed /\ failures \in Nat
  BY EventFolds DEF NothingMissed, TurnsInv, TypeOK, EnvTypeOK, DiskFault
<1>6. AtMinute(s, r + 1, at) <=> e.type = "view.compared" /\ e.at = at
  BY <1>1, <1>2 DEF AtMinute
<1>7. ASSUME i \in 1..read[t], \A k \in (i + 1)..read[t] : ~AtMinute(t, k, at),
             comparisons'[t][at] = comparisons[t][at]
      PROVE  comparisons'[t][at] = RenderComparison(journal'[t][i])
  BY <1>4, <1>5, <1>7 DEF ComparisonsReplayed
<1>8. CASE t # s
  BY <1>3, <1>4, <1>7, <1>8, EventWrites
<1>9. CASE t = s /\ i # r + 1
  <2>1. /\ i \in 1..r /\ \A k \in (i + 1)..r : ~AtMinute(s, k, at)
        /\ ~(e.type = "view.compared" /\ e.at = at)
    BY <1>1, <1>4, <1>6, <1>9
  <2>2. comparisons'[s][at] = comparisons[s][at]
    BY <1>2, <2>1, EventWrites
  <2> QED BY <1>1, <1>7, <1>9, <2>1, <2>2
<1>10. CASE t = s /\ i = r + 1
  <2>1. e.type = "view.compared" /\ e.at = at
    BY <1>4, <1>6, <1>10
  <2>2. comparisons'[s][at] = RenderComparison(e)
    BY <1>2, <1>5, <2>1, EventWrites DEF NothingMissed
  <2> QED BY <1>1, <1>2, <1>4, <1>10, <2>2
<1> QED BY <1>8, <1>9, <1>10

LEMMA EventKeepsErrors ==
    ASSUME TurnsInv, CapturesReplayed, FailedAsReported, NEW s \in Streams, ReplayEvent(s)
    PROVE  FailedAsReported'
<1> SUFFICES ASSUME failures' = 0
             PROVE  (failed <=> \/ strayRead > 0
                                 \/ \E t \in Streams : \E i \in 1..read[t] : Reported(t, i))'
  BY DEF FailedAsReported
<1>1. PICK r \in Nat : /\ r = read[s] /\ r + 1 \in Positions(s) /\ read'[s] = r + 1
                       /\ NextEvent(s) = journal[s][r + 1] /\ NextEvent(s) \in Events
                       /\ \A type : IsAt(s, r + 1, type) <=> NextEvent(s).type = type
  BY EventPosition
<1>2. PICK e : e = NextEvent(s) OBVIOUS
<1>3. \A u \in Streams \ {s} : read'[u] = read[u]
  BY EventFolds, FoldType
<1>4. \A t, i : Reported(t, i)' <=> Reported(t, i)
  BY EventKeepsJournal DEF Reported, Orphan, NoneIn
<1>5. failures \in Nat /\ failures = 0
  BY EventFolds DEF TurnsInv, TypeOK, EnvTypeOK, DiskFault
<1>6. Reported(s, r + 1) <=> \/ e.type = "garbled"
                             \/ e.type = "view.reviewed" /\ fold[s].Captures = 0
  <2>1. (r + 1) - 1 = r OBVIOUS
  <2> QED BY <1>1, <1>2, <2>1 DEF Reported, Orphan, CapturesReplayed
<1>7. failed' <=> failed \/ Reported(s, r + 1)
  <2>1. fold[s].Captures \in Nat /\ failed \in BOOLEAN
    BY DEF TurnsInv, CommandTypeOK, ViewState
  <2>2. failed => failed'
    BY EventFolds
  <2>3. CASE Reported(s, r + 1)
    BY <1>2, <1>5, <1>6, <2>1, <2>3, EventWrites
  <2>4. CASE ~Reported(s, r + 1)
    BY <1>2, <1>5, <1>6, <2>1, <2>2, <2>4, EventWrites
  <2> QED BY <2>2, <2>3, <2>4
<1>8. failed <=> strayRead > 0 \/ \E t \in Streams : \E i \in 1..read[t] : Reported(t, i)
  BY <1>5 DEF FailedAsReported
<1>9. ASSUME NEW t \in Streams, NEW i
      PROVE  i \in (1..read[t])' <=> i \in 1..read[t] \/ (t = s /\ i = r + 1)
  BY <1>1, <1>3
<1>10. strayRead' = strayRead
  BY EventFolds
<1> QED BY <1>1, <1>4, <1>7, <1>8, <1>9, <1>10

LEMMA EventKeepsUntouched ==
    ASSUME TurnsInv, UntouchedUntilRead, NEW s \in Streams, ReplayEvent(s)
    PROVE  UntouchedUntilRead'
<1>1. PICK r \in Nat : /\ r = read[s] /\ r + 1 \in Positions(s) /\ read'[s] = r + 1
                       /\ NextEvent(s) = journal[s][r + 1] /\ NextEvent(s) \in Events
                       /\ \A type : IsAt(s, r + 1, type) <=> NextEvent(s).type = type
  BY EventPosition
<1>2. PICK e : e = NextEvent(s) OBVIOUS
<1>3. /\ \A u \in Streams \ {s} : read'[u] = read[u]
      /\ shown' = shown /\ Replaying
  BY EventFolds, FoldType DEF Replaying
<1>4. /\ \A u, k, m : AtMinute(u, k, m)' <=> AtMinute(u, k, m)
      /\ \A u, k, type : IsAt(u, k, type)' <=> IsAt(u, k, type)
  BY EventKeepsJournal
<1>5. ASSUME NEW t \in Streams, NoneIn(t, 1, read[t], "view.reviewed")'
      PROVE  reviews'[t] = shown'.reviews[t]
  <2>1. reviews'[t] = reviews[t] /\ NoneIn(t, 1, read[t], "view.reviewed")
    <3>1. CASE t # s
      BY <1>3, <1>4, <1>5, <3>1, EventWrites DEF NoneIn
    <3>2. CASE t = s
      <4>1. e.type # "view.reviewed" /\ NoneIn(s, 1, r, "view.reviewed")
        BY <1>1, <1>2, <1>4, <1>5, <3>2 DEF NoneIn
      <4> QED BY <1>1, <1>2, <3>2, <4>1, EventWrites
    <3> QED BY <3>1, <3>2
  <2> QED BY <1>3, <2>1 DEF UntouchedUntilRead
<1>6. ASSUME NEW t \in Streams, NEW at \in Minutes, (\A k \in 1..read[t] : ~AtMinute(t, k, at))'
      PROVE  comparisons'[t][at] = shown'.comparisons[t][at]
  <2>1. comparisons'[t][at] = comparisons[t][at] /\ \A k \in 1..read[t] : ~AtMinute(t, k, at)
    <3>1. CASE t # s
      BY <1>3, <1>4, <1>6, <3>1, EventWrites
    <3>2. CASE t = s
      <4>1. ~(e.type = "view.compared" /\ e.at = at)
        BY <1>1, <1>2, <1>4, <1>6, <3>2 DEF AtMinute
      <4>2. \A k \in 1..r : ~AtMinute(s, k, at)
        BY <1>1, <1>4, <1>6, <3>2
      <4> QED BY <1>1, <1>2, <3>2, <4>1, <4>2, EventWrites
    <3> QED BY <3>1, <3>2
  <2> QED BY <1>3, <2>1 DEF UntouchedUntilRead
<1> QED BY <1>5, <1>6 DEF UntouchedUntilRead

LEMMA EventKeepsReplay ==
    ASSUME TurnsInv, ReplayInv, NEW s \in Streams, ReplayEvent(s)
    PROVE  ReplayInv'
<1>1. ReadWithin'
  <2>1. PICK r \in Nat : r = read[s] /\ read'[s] = r + 1 /\ r + 1 <= Len(journal[s])
    BY EventPosition
  <2>2. journal' = journal /\ \A u \in Streams \ {s} : read'[u] = read[u]
    BY EventFolds, FoldType, EventKeepsJournal
  <2> QED BY <2>1, <2>2 DEF ReplayInv, ReadWithin
<1>2. CapturesReplayed' /\ ReviewsReplayed' /\ ComparisonsReplayed'
  BY EventKeepsCaptures, EventKeepsReviews, EventKeepsComparisons DEF ReplayInv
<1>3. FailedAsReported' /\ UntouchedUntilRead'
  BY EventKeepsErrors, EventKeepsUntouched DEF ReplayInv
<1>4. IndexReplayed'
  BY EventFolds DEF IndexReplayed
<1> QED BY <1>1, <1>2, <1>3, <1>4 DEF ReplayInv

\* The error of a stray event is reported, and nothing else moves.
LEMMA StrayKeepsReplay ==
    ASSUME TurnsInv, ReplayInv, ReplayStray
    PROVE  ReplayInv'
<1>1. /\ UNCHANGED <<journal, view, reviews, comparisons, index, failures, cmd, read, fold,
                      lastCaptured, shown>>
      /\ cmd = "events" /\ failed' = TRUE /\ strayRead' = strayRead + 1
  BY DEF ReplayStray, vars, journalVars, diskVars, envVars
<1>2. \A u, k, type : IsAt(u, k, type)' <=> IsAt(u, k, type)
  BY <1>1 DEF IsAt, Positions
<1>3. ReadWithin' /\ CapturesReplayed' /\ UntouchedUntilRead'
  BY <1>1, <1>2 DEF ReplayInv, ReadWithin, CapturesReplayed, UntouchedUntilRead, NoneIn, AtMinute,
     Replaying
<1>4. NothingMissed' => NothingMissed
  BY <1>1 DEF NothingMissed
<1>5. ReviewsReplayed' /\ ComparisonsReplayed'
  BY <1>1, <1>2, <1>4 DEF ReplayInv, ReviewsReplayed, ComparisonsReplayed, NoneIn, AtMinute
<1>6. FailedAsReported'
  <2>1. strayRead' > 0
    BY <1>1 DEF TurnsInv, CommandTypeOK
  <2> QED BY <1>1, <2>1 DEF FailedAsReported
<1>7. IndexReplayed'
  BY <1>1 DEF IndexReplayed
<1> QED BY <1>3, <1>5, <1>6, <1>7 DEF ReplayInv

LEMMA IndexesKeepReplay ==
    ASSUME TurnsInv, FoldedSoFar, ReplayInv, ReplayIndexes, strays' = strays
    PROVE  ReplayInv'
<1>1. /\ UNCHANGED <<journal, view, reviews, comparisons, read, fold, lastCaptured, shown,
                      strayRead>>
      /\ cmd = "events" /\ strayRead = strays
      /\ \A s \in Streams : read[s] = Len(journal[s])
  BY DEF ReplayIndexes, journalVars
<1> DEFINE due == {p \in Projects : \E k \in Keys : read[<<p, k>>] > 0}
<1>2. PICK written \in SUBSET due :
          /\ written # due => DiskFault
          /\ written = due => UNCHANGED failures
          /\ failed' = (failed \/ written # due)
          /\ index' = [p \in Projects |->
                          IF p \in written THEN ReplayIndex(p, fold) ELSE index[p]]
  BY DEF ReplayIndexes
<1>3. failures \in Nat /\ (failures' = 0 => failures = 0 /\ written = due)
  <2>1. failures \in Nat
    BY DEF TurnsInv, TypeOK, EnvTypeOK
  <2> HIDE DEF due
  <2> QED BY <1>2, <2>1 DEF DiskFault
<1>4. (failed' <=> failed \/ written # due)
  BY <1>2
<1>5. \A u, k, type : IsAt(u, k, type)' <=> IsAt(u, k, type)
  BY <1>1 DEF IsAt, Positions
<1>6. NothingMissed' => NothingMissed
  BY <1>3, <1>4 DEF NothingMissed
<1>7. ReadWithin' /\ CapturesReplayed' /\ UntouchedUntilRead'
  BY <1>1, <1>5 DEF ReplayInv, ReadWithin, CapturesReplayed, UntouchedUntilRead, NoneIn,
     AtMinute, Replaying
<1>8. ReviewsReplayed' /\ ComparisonsReplayed'
  BY <1>1, <1>5, <1>6 DEF ReplayInv, ReviewsReplayed, ComparisonsReplayed, NoneIn, AtMinute
<1>9. FailedAsReported'
  <2>1. failures' = 0 => (failed' <=> failed) /\ failures = 0
    BY <1>3, <1>4
  <2> QED BY <1>1, <1>5, <2>1 DEF ReplayInv, FailedAsReported, Reported, Orphan, NoneIn
<1>10. IndexReplayed'
  <2>1. ASSUME NEW p \in Projects
        PROVE  ReplayIndex(p, view)' = ReplayIndex(p, fold)
    <3>1. \A k \in Keys : fold[<<p, k>>] = view[<<p, k>>]
      BY <1>1 DEF FoldedSoFar, Streams
    <3> QED BY <1>1, <3>1 DEF ReplayIndex
  <2>2. ASSUME NothingMissed', NEW p \in Projects, \E k \in Keys : read'[<<p, k>>] > 0
        PROVE  index'[p] = ReplayIndex(p, fold)
    <3>1. p \in written
      BY <1>1, <1>3, <1>4, <2>2 DEF NothingMissed
    <3> QED BY <1>2, <3>1
  <2> HIDE DEF due
  <2> QED BY <1>1, <2>1, <2>2 DEF IndexReplayed
<1> QED BY <1>7, <1>8, <1>9, <1>10 DEF ReplayInv

LEMMA ReplayStutter ==
    ASSUME ReplayInv, UNCHANGED <<journalVars, reviews, comparisons, index, failures, crashes, cmd,
                                  replayVars, strays>>
    PROVE  ReplayInv'
<1>1. UNCHANGED <<journal, view, reviews, comparisons, index, failures, cmd, read, fold,
                  lastCaptured, failed, shown, strays, strayRead>>
  BY DEF journalVars, replayVars
<1>2. \A u, k, type : IsAt(u, k, type)' <=> IsAt(u, k, type)
  BY <1>1 DEF IsAt, Positions
<1>3. ReadWithin' /\ CapturesReplayed'
  BY <1>1, <1>2 DEF ReplayInv, ReadWithin, CapturesReplayed, NoneIn
<1>4. ReviewsReplayed' /\ ComparisonsReplayed'
  BY <1>1, <1>2 DEF ReplayInv, ReviewsReplayed, ComparisonsReplayed, NoneIn, AtMinute, NothingMissed
<1>5. FailedAsReported' /\ UntouchedUntilRead'
  BY <1>1, <1>2 DEF ReplayInv, FailedAsReported, UntouchedUntilRead, NoneIn, AtMinute, Reported, Orphan,
   Replaying
<1>6. IndexReplayed'
  BY <1>1 DEF ReplayInv, IndexReplayed, ReplayIndex, NothingMissed
<1> QED BY <1>3, <1>4, <1>5, <1>6 DEF ReplayInv

LEMMA TurnKeepsReplay ==
    ASSUME TurnsInv, FoldedSoFar, ReplayInv, OpenNext, cmd' \in {"events", "done"}
    PROVE  ReplayInv'
<1>1. CASE StartReplay
  <2>1. /\ \A s \in Streams : read'[s] = 0 /\ fold'[s] = initialViewState
        /\ failed' = FALSE /\ cmd' = "events" /\ strayRead' = 0
        /\ UNCHANGED <<journal, view, reviews, comparisons>>
        /\ shown' = [reviews |-> reviews, comparisons |-> comparisons]
    BY <1>1 DEF StartReplay, TurnsInv, CommandTypeOK, Replaying, vars, journalVars, diskVars
  <2>2. JournalTypeOK
    BY DEF TurnsInv, TypeOK
  <2>3. ReadWithin' /\ CapturesReplayed'
    BY <2>1, <2>2, NothingFolded DEF JournalTypeOK, ReadWithin, CapturesReplayed, NoneIn
  <2>4. ReviewsReplayed' /\ ComparisonsReplayed' /\ FailedAsReported' /\ IndexReplayed'
    BY <2>1 DEF ReviewsReplayed, ComparisonsReplayed, FailedAsReported, IndexReplayed
  <2>5. UntouchedUntilRead'
    BY <2>1 DEF UntouchedUntilRead
  <2> QED BY <2>3, <2>4, <2>5 DEF ReplayInv
<1>2. CASE \E s \in Streams : ReplayEvent(s)
  BY <1>2, EventKeepsReplay
<1>3. CASE ReplayIndexes /\ UNCHANGED strays
  BY <1>3, IndexesKeepReplay
<1>4. CASE UNCHANGED <<journalVars, reviews, comparisons, index, failures, crashes, cmd, replayVars,
                       strays>>
  BY <1>4, ReplayStutter
<1>5. CASE ReplayStray
  BY <1>5, StrayKeepsReplay
<1> QED BY <1>1, <1>2, <1>3, <1>4, <1>5, TurnCases

\* What a replay knows and wrote so far agrees with the journal it goes through, at every
\* event: the parts of the inductive invariant the three promises of a replay rest on.
THEOREM TurnsReplay == OpenSpec => []ReplayInv
<1>1. Init /\ CommandsInit => ~Replaying
  BY DEF CommandsInit, Replaying
<1>2. TurnsInv /\ ~Replaying => ReplayInv
  BY NothingRead DEF TurnsInv, CommandTypeOK, Replaying
<1>3. TurnsInv /\ TurnsInv' /\ FoldedSoFar /\ ReplayInv /\ [OpenNext]_allVars => ReplayInv' \/ ~Replaying'
  <2>1. ASSUME TurnsInv, FoldedSoFar, ReplayInv, OpenNext PROVE ReplayInv' \/ ~Replaying'
    BY <2>1, TurnKeepsReplay DEF Replaying
  <2>2. ASSUME ReplayInv, UNCHANGED allVars PROVE ReplayInv'
    <3>1. UNCHANGED <<journalVars, reviews, comparisons, index, failures, crashes, cmd, replayVars,
                      strays>>
      BY <2>2 DEF allVars, vars, journalVars, diskVars, envVars
    <3> QED BY <2>2, <3>1, ReplayStutter
  <2> QED BY <2>1, <2>2
<1> QED BY <1>1, <1>2, <1>3, TurnsTypeCorrect, TurnsFold, PTL DEF OpenSpec

-----------------------------------------------------------------------------
(* What a finished replay shows. *)

LEMMA LargestExists ==
    ASSUME NEW n \in Nat, NEW S \in SUBSET (1..n), S # {}
    PROVE  \E m \in S : \A k \in S : k <= m
<1> DEFINE D == {d \in 0..n : n - d \in S}
<1>1. PICK x \in S : TRUE
  OBVIOUS
<1>2. D \in SUBSET Nat /\ n - x \in D
  <2>1. n - x \in 0..n /\ n - (n - x) = x
    OBVIOUS
  <2> QED BY <2>1
<1>3. SmallestOf(D) \in D /\ \A d \in D : SmallestOf(D) <= d
  <2> HIDE DEF D
  <2> QED BY <1>2, SmallestExists
<1>4. PICK d \in 0..n : n - d \in S /\ \A c \in D : d <= c
  BY <1>3
<1>5. ASSUME NEW k \in S PROVE k <= n - d
  <2>1. n - k \in D
    <3>1. n - k \in 0..n /\ n - (n - k) = k
      OBVIOUS
    <3> QED BY <3>1
  <2> QED BY <1>4, <2>1
<1> QED BY <1>4, <1>5

\* Of the events of a type before a position, one is the last.
LEMMA LastBefore ==
    ASSUME JournalTypeOK, NEW s \in Streams, NEW i \in Nat, NEW type,
           NEW j \in 1..(i - 1), IsAt(s, j, type)
    PROVE  \E m \in 1..(i - 1) : IsAt(s, m, type) /\ NoneIn(s, m + 1, i - 1, type)
<1> DEFINE S == {k \in 1..(i - 1) : IsAt(s, k, type)}
<1>1. PICK n \in Nat : n = i - 1
  OBVIOUS
<1>2. S \in SUBSET (1..n) /\ S # {}
  BY <1>1
<1>3. PICK m \in S : \A k \in S : k <= m
  <2> HIDE DEF S
  <2> QED BY <1>2, LargestExists
<1>4. NoneIn(s, m + 1, i - 1, type)
  BY <1>3 DEF NoneIn
<1> QED BY <1>3, <1>4

\* A replay without a failed write shows the last renderable review of every view, with
\* the capture before it.
LEMMA DoneShowsReviews ==
    ASSUME TurnsInv, ReplayInv, cmd = "done", NothingMissed,
           NEW s \in Streams, NEW i \in Positions(s), LastRenderable(s, i)
    PROVE  \E j \in 1..(i - 1) :
              /\ IsAt(s, j, "view.captured")
              /\ NoneIn(s, j + 1, i - 1, "view.captured")
              /\ reviews[s] = RenderViewReview(journal[s][j].sha, journal[s][i])
<1>0. JournalTypeOK
  BY DEF TurnsInv, TypeOK
<1>1. i \in Nat /\ i \in 1..read[s] /\ read[s] = Len(journal[s]) /\ read[s] \in Nat
  BY <1>0, JournalKinds DEF ReplayInv, IndexReplayed, Positions
<1>2. PICK j \in 1..(i - 1) : IsAt(s, j, "view.captured") /\ NoneIn(s, j + 1, i - 1, "view.captured")
  BY <1>0, <1>1, LastBefore DEF LastRenderable
<1>3. NoneIn(s, i + 1, read[s], "view.reviewed")
  BY <1>1 DEF LastRenderable, IsLast, NoneIn, Positions
<1> QED BY <1>1, <1>2, <1>3 DEF ReplayInv, ReviewsReplayed, LastRenderable, IsLast

LEMMA DoneShowsComparisons ==
    ASSUME TurnsInv, ReplayInv, cmd = "done", NothingMissed,
           NEW s \in Streams, NEW i \in Positions(s), NEW at \in Minutes, LastAtMinute(s, i, at)
    PROVE  comparisons[s][at] = RenderComparison(journal[s][i])
<1>0. JournalTypeOK
  BY DEF TurnsInv, TypeOK
<1>1. i \in Nat /\ i \in 1..read[s] /\ read[s] = Len(journal[s]) /\ read[s] \in Nat
  BY <1>0, JournalKinds DEF ReplayInv, IndexReplayed, Positions
<1>2. AtMinute(s, i, at) /\ \A k \in (i + 1)..read[s] : ~AtMinute(s, k, at)
  BY <1>1 DEF LastAtMinute, AtMinute, Positions
<1> QED BY <1>1, <1>2 DEF ReplayInv, ComparisonsReplayed

\* A replay that left no file unwritten leaves a directory that shows the journal.
LEMMA DoneShowsJournal ==
    ASSUME TurnsInv, ReplayInv, cmd = "done", NothingMissed
    PROVE  JournalIsShown
<1>1. ASSUME NEW s \in Streams, NEW i \in Positions(s), LastRenderable(s, i)
      PROVE  \E j \in 1..(i - 1) :
                 /\ IsAt(s, j, "view.captured")
                 /\ \A k \in (j + 1)..(i - 1) : ~IsAt(s, k, "view.captured")
                 /\ reviews[s] = RenderViewReview(journal[s][j].sha, journal[s][i])
  BY <1>1, DoneShowsReviews DEF NoneIn
<1>2. ASSUME NEW s \in Streams, NEW i \in Positions(s), NEW at \in Minutes, LastAtMinute(s, i, at)
      PROVE  comparisons[s][at] = RenderComparison(journal[s][i])
  BY <1>2, DoneShowsComparisons
<1>3. ASSUME NEW p \in Projects, \E k \in Keys : journal[<<p, k>>] # <<>>
      PROVE  index[p] = [k \in {k \in Keys : journal[<<p, k>>] # <<>>} |-> IndexRow(view[<<p, k>>])]
  <2>1. \A k \in Keys : read[<<p, k>>] > 0 <=> journal[<<p, k>>] # <<>>
    <3> TAKE k \in Keys
    <3>1. PICK s \in Streams : s = <<p, k>>
      BY DEF Streams
    <3>2. read[s] = Len(journal[s]) /\ journal[s] \in Seq(Events)
      BY DEF ReplayInv, IndexReplayed, TurnsInv, TypeOK, JournalTypeOK
    <3> QED BY <3>1, <3>2
  <2>2. index[p] = ReplayIndex(p, view)
    BY <1>3, <2>1 DEF ReplayInv, IndexReplayed
  <2>3. {k \in Keys : read[<<p, k>>] > 0} = {k \in Keys : journal[<<p, k>>] # <<>>}
    BY <2>1
  <2> QED BY <2>2, <2>3 DEF ReplayIndex
<1> QED BY <1>1, <1>2, <1>3 DEF JournalIsShown

\* Whatever journal another caller of the store wrote, whatever was in the reviews
\* directory and however often a replay was interrupted before, one without errors
\* leaves what the journal says.
THEOREM ReplaysRebuild == OpenSpec => []ReplayRebuilds
<1>1. TurnsInv /\ ReplayInv => ReplayRebuilds
  BY DoneShowsJournal DEF ReplayRebuilds, NothingMissed
<1> QED BY <1>1, TurnsTypeCorrect, TurnsReplay, PTL

\* Whatever journal it is given, a replay on a healthy disk goes through it, shows all
\* of it that decodes, and reports an error exactly for events that do not decode,
\* reviews without a capture that does, and events on ids that are no view's.
THEOREM ReplaysTolerateErrors == OpenSpec => []ReplayIsErrorTolerant
<1>1. TurnsInv /\ ReplayInv => ReplayIsErrorTolerant
  <2> SUFFICES ASSUME TurnsInv, ReplayInv, cmd = "done", failures = 0
               PROVE  /\ failed <=> \/ strays > 0
                                    \/ \E s \in Streams : \E i \in Positions(s) : Unrenderable(s, i)
                      /\ JournalIsShown
    BY DEF ReplayIsErrorTolerant
  <2>1. strayRead = strays /\ \A s \in Streams : read[s] = Len(journal[s])
    BY DEF ReplayInv, IndexReplayed
  <2>2. \A s \in Streams : \A i : Reported(s, i) <=> Unrenderable(s, i)
    BY DEF Reported, Orphan, NoneIn, Unrenderable
  <2>3. failed <=> strays > 0 \/ \E s \in Streams : \E i \in Positions(s) : Unrenderable(s, i)
    BY <2>1, <2>2 DEF ReplayInv, FailedAsReported, Positions
  <2>4. JournalIsShown
    BY DoneShowsJournal DEF NothingMissed
  <2> QED BY <2>3, <2>4
<1> QED BY <1>1, TurnsTypeCorrect, TurnsReplay, PTL

-----------------------------------------------------------------------------
(* After the service: no foreign caller, so what the files show is current. *)

\* Without a foreign caller the service and the commands behave as with one.
LEMMA ServiceIsOpen == ServiceSpec => OpenSpec
<1>1. [ServiceNext]_allVars => [OpenNext]_allVars
  BY DEF OpenNext
<1> QED BY <1>1, PTL DEF ServiceSpec, OpenSpec

\* Between the record of a capture and that of its review, the capture is the last
\* one of the view.
LatestIngested ==
    pc \in {"compare", "writeCompare", "review"} =>
        \E j \in Positions(current) :
            IsLast(current, j, "view.captured") /\ journal[current][j].sha = sha

HistoryInv == ReviewJudgesLatestCapture /\ LatestIngested

\* An event that is not of the type leaves the last one of the type, and whatever is
\* recorded the events before it stay.
LEMMA RecordKeepsLast ==
    ASSUME JournalTypeOK, NEW s \in Streams, NEW e \in Events, Record(s, e),
           NEW t \in Streams, NEW type, ~ (t = s /\ e.type = type), NEW i
    PROVE  /\ IsLast(t, i, type)' <=> IsLast(t, i, type)
           /\ i \in Positions(t) => journal'[t][i] = journal[t][i]
<1>1. \A k : IsAt(t, k, type)' <=> IsAt(t, k, type)
  BY RecordIsAt
<1>2. (\A k \in Positions(t)' : IsAt(t, k, type)' => k <= i)
        <=> (\A k \in Positions(t) : IsAt(t, k, type) => k <= i)
  BY <1>1 DEF IsAt
<1>3. i \in Positions(t) => journal'[t][i] = journal[t][i]
  BY RecordEffect
<1> QED BY <1>1, <1>2, <1>3 DEF IsLast

LEMMA ServiceKeepsHistory ==
    ASSUME TurnsInv, HistoryInv, Next
    PROVE  HistoryInv'
<1>0. JournalTypeOK
  BY DEF TurnsInv, TypeOK
<1>1. CASE RecordCaptured
  <2>1. current \in Streams /\ Captured(sha) \in Events /\ Record(current, Captured(sha))
    BY <1>1, ServiceRecords
  <2>2. UNCHANGED <<current, sha>>
    BY <1>1 DEF RecordCaptured, current, projectVars, iterVars
  <2> PICK e \in Events : e = Captured(sha) BY <2>1
  <2> PICK s \in Streams : s = current BY <2>1
  <2> PICK n \in Nat : n = Len(journal[s])
    BY <1>0 DEF JournalTypeOK
  <2>3. e.type = "view.captured" /\ e.sha = sha /\ Record(s, e)
    BY <2>1 DEF Captured
  <2>4. ReviewJudgesLatestCapture'
    BY <1>0, <2>3, RecordKeepsJudged DEF HistoryInv
  <2>5. Len(journal'[s]) = n + 1 /\ journal'[s][n + 1] = e
    BY <1>0, <2>3, RecordEffect
  <2>6. IsLast(s, n + 1, "view.captured")' /\ n + 1 \in Positions(s)'
    BY <2>3, <2>5 DEF IsLast, IsAt, Positions
  <2>7. LatestIngested'
    BY <2>2, <2>3, <2>5, <2>6 DEF LatestIngested
  <2> QED BY <2>4, <2>7 DEF HistoryInv
<1>2. CASE AutoCompare
  <2>1. /\ current \in Streams /\ Compared(before.SHA256, sha, minute) \in Events
        /\ Record(current, Compared(before.SHA256, sha, minute))
    BY <1>2, ServiceRecords
  <2>2. UNCHANGED <<current, sha>> /\ pc = "compare"
    BY <1>2 DEF AutoCompare, current, projectVars, iterVars
  <2> PICK e \in Events : e = Compared(before.SHA256, sha, minute) BY <2>1
  <2> PICK s \in Streams : s = current BY <2>1
  <2>3. e.type = "view.compared" /\ Record(s, e)
    BY <2>1 DEF Compared
  <2>4. ReviewJudgesLatestCapture'
    BY <1>0, <2>3, RecordKeepsJudged DEF HistoryInv
  <2>5. PICK j \in Positions(s) : IsLast(s, j, "view.captured") /\ journal[s][j].sha = sha
    BY <2>2 DEF HistoryInv, LatestIngested
  <2>6. IsLast(s, j, "view.captured")' /\ journal'[s][j].sha = sha
    BY <1>0, <2>3, <2>5, RecordKeepsLast
  <2>7. LatestIngested'
    BY <2>2, <2>6 DEF LatestIngested, IsLast, IsAt
  <2> QED BY <2>4, <2>7 DEF HistoryInv
<1>3. CASE ReviewCapture
  <2>1. PICK score \in Scores : /\ current \in Streams /\ Reviewed(sha, score) \in Events
                                /\ Record(current, Reviewed(sha, score))
    BY <1>3, ServiceRecords
  <2> PICK e \in Events : e = Reviewed(sha, score) BY <2>1
  <2> PICK s \in Streams : s = current BY <2>1
  <2>2. e.type = "view.reviewed" /\ e.sha = sha /\ Record(s, e)
    BY <2>1 DEF Reviewed
  <2>3. pc = "review" /\ pc' = "writeReview"
    BY <1>3 DEF ReviewCapture
  <2>4. PICK j \in Positions(s) : IsLast(s, j, "view.captured") /\ journal[s][j].sha = sha
    BY <2>3 DEF HistoryInv, LatestIngested
  <2>5. ReviewJudgesLatestCapture'
    BY <1>0, <2>2, <2>4, RecordKeepsJudged DEF HistoryInv
  <2> QED BY <2>3, <2>5 DEF HistoryInv, LatestIngested
<1>4. CASE ~RecordCaptured /\ ~AutoCompare /\ ~ReviewCapture
  <2>1. UNCHANGED <<journal, view>>
    BY <1>4, ServiceRecords DEF journalVars
  <2>2. \/ pc' \notin {"compare", "writeCompare", "review"}
        \/ pc \in {"compare", "writeCompare"} /\ UNCHANGED <<current, sha>>
        \/ UNCHANGED <<pc, current, sha>>
    BY <1>4 DEF Next, PassStep, Environment, StartPass, AbortPass, ScanProject, EndPass,
       SkipView, LoadFails, BeginView, HashCapture, CopyBlob, IngestFails, WriteComparison,
       CompareFails, WriteViewReview, ReviewFails, RefreshIndex, RefreshIndexFails, CutShort,
       Stop, Recover, Start, Restart, Cancel, Crash, Tick, EditFile, EndIteration, current,
       projectVars, iterVars
  <2>3. ReviewJudgesLatestCapture'
    BY <2>1 DEF HistoryInv, ReviewJudgesLatestCapture, IsAt, Positions
  <2>4. LatestIngested'
    BY <2>1, <2>2 DEF HistoryInv, LatestIngested, IsLast, IsAt, Positions
  <2> QED BY <2>3, <2>4 DEF HistoryInv
<1> QED BY <1>1, <1>2, <1>3, <1>4

LEMMA TurnKeepsHistory ==
    ASSUME TurnsInv, TurnsInv', HistoryInv, ServiceNext
    PROVE  HistoryInv'
<1>0. JournalTypeOK
  BY DEF TurnsInv, TypeOK
<1>1. CASE ServiceStep
  BY <1>1, ServiceKeepsHistory DEF ServiceStep
<1>2. CASE ~ServiceStep
  <2>1. ~Running' /\ LatestIngested'
    <3>1. cmd # "off" \/ ~Running
      BY <1>2 DEF ServiceNext, StartReplay, ReplayStep, ReplaySilently, ReplayReview,
         ReplayOrphan, ReplayComparison, ReplayGarbled, ReplayWriteFails, ReplayStray, AtEvent,
         ReplayIndexes, FinishReplay,
         ManualStep, StoreBefore, StoreAfter, RecordManual, WriteManual, ManualFails, Interrupt,
         Wipe
    <3>2. UNCHANGED pc
      BY <1>2, CommandKeepsPc DEF OpenNext
    <3> QED BY <3>1, <3>2 DEF TurnsInv, CommandTypeOK, Running, LatestIngested
  <2>2. CASE RecordManual
    <3>1. PICK e \in Events : e.type = "view.compared" /\ Record(target, e)
      BY <2>2, ManualRecords
    <3>2. target \in Streams
      BY <2>2 DEF RecordManual, TurnsInv, CommandTypeOK
    <3>3. ReviewJudgesLatestCapture'
      BY <1>0, <3>1, <3>2, RecordKeepsJudged DEF HistoryInv
    <3> QED BY <2>1, <3>3 DEF HistoryInv
  <2>3. CASE ~RecordManual
    <3>1. UNCHANGED journal
      BY <1>2, <2>3 DEF ServiceNext, StartReplay, ReplayStep, ReplaySilently, ReplayReview,
         ReplayOrphan, ReplayComparison, ReplayGarbled, ReplayWriteFails, ReplayStray,
       ReplayIndexes, FinishReplay,
         ManualStep, StoreBefore, StoreAfter, WriteManual, ManualFails, Interrupt, Wipe,
         vars, journalVars
    <3>2. ReviewJudgesLatestCapture'
      BY <3>1 DEF HistoryInv, ReviewJudgesLatestCapture, IsAt, Positions
    <3> QED BY <2>1, <3>2 DEF HistoryInv
  <2> QED BY <2>2, <2>3
<1> QED BY <1>1, <1>2

\* A verdict that is recorded and whose file is about to be written.
ReviewUnwritten(s) == pc = "writeReview" /\ s = current
ComparisonUnwritten(s, at) ==
    \/ pc = "writeCompare" /\ s = current /\ lastEvent.at = at
    \/ cmd = "write" /\ s = target /\ journal[target][Len(journal[target])].at = at

\* What a file of the view shows, if there is one, is the last verdict.
ReviewCurrent(s, file) ==
    file # None => \A i \in Positions(s) : IsLast(s, i, "view.reviewed") =>
                      file = RenderViewReview(journal[s][i].sha, journal[s][i])
ComparisonCurrent(s, at, file) ==
    file # None => \A i \in Positions(s) : LastAtMinute(s, i, at) =>
                      file = RenderComparison(journal[s][i])

ReviewsCurrent == \A s \in Streams : ReviewCurrent(s, reviews[s]) \/ ReviewUnwritten(s)
ComparisonsCurrent ==
    \A s \in Streams : \A at \in Minutes :
        ComparisonCurrent(s, at, comparisons[s][at]) \/ ComparisonUnwritten(s, at)

\* Without failed writes and crashes, the files are current whenever no replay is at
\* work on them, and were so when it began.
FilesCurrent ==
    failures = 0 /\ crashes = 0 =>
        /\ cmd \notin {"events", "done"} => ReviewsCurrent /\ ComparisonsCurrent
        /\ Replaying => \A s \in Streams :
              /\ ReviewCurrent(s, shown.reviews[s])
              /\ \A at \in Minutes : ComparisonCurrent(s, at, shown.comparisons[s][at])

\* A recorded event makes no file stale but the one it is about.
LEMMA RecordKeepsShown ==
    ASSUME JournalTypeOK, NEW s \in Streams, NEW e \in Events, Record(s, e),
           NEW t \in Streams, NEW file
    PROVE  /\ ReviewCurrent(t, file) /\ ~ (t = s /\ e.type = "view.reviewed")
                 => ReviewCurrent(t, file)'
           /\ \A at \in Minutes :
                 ComparisonCurrent(t, at, file) /\ ~ (t = s /\ e.type = "view.compared" /\ e.at = at)
                     => ComparisonCurrent(t, at, file)'
<1>1. ASSUME ReviewCurrent(t, file), ~ (t = s /\ e.type = "view.reviewed"),
             file # None, NEW i \in Positions(t)', IsLast(t, i, "view.reviewed")'
      PROVE  file = RenderViewReview(journal'[t][i].sha, journal'[t][i])
  <2>1. IsLast(t, i, "view.reviewed") /\ i \in Positions(t) /\ journal'[t][i] = journal[t][i]
    <3>1. IsLast(t, i, "view.reviewed")
      BY <1>1, RecordKeepsLast
    <3>2. i \in Positions(t)
      BY <3>1 DEF IsLast, IsAt
    <3> QED BY <1>1, <3>1, <3>2, RecordKeepsLast
  <2> QED BY <1>1, <2>1 DEF ReviewCurrent
<1>2. ASSUME NEW at \in Minutes, ComparisonCurrent(t, at, file),
             ~ (t = s /\ e.type = "view.compared" /\ e.at = at),
             file # None, NEW i \in Positions(t)', LastAtMinute(t, i, at)'
      PROVE  file = RenderComparison(journal'[t][i])
  <2>1. \A k : IsAt(t, k, "view.compared") => /\ IsAt(t, k, "view.compared")'
                                              /\ journal'[t][k] = journal[t][k]
    BY RecordIsAt, RecordEffect DEF IsAt
  <2>2. IsAt(t, i, "view.compared")
    <3>1. journal'[t][i].at = at /\ IsAt(t, i, "view.compared")'
      BY <1>2 DEF LastAtMinute
    <3> QED BY <1>2, <3>1, RecordIsAt, RecordEffect
  <2>3. LastAtMinute(t, i, at)
    BY <1>2, <2>1, <2>2 DEF LastAtMinute, IsAt
  <2> QED BY <1>2, <2>1, <2>2, <2>3 DEF ComparisonCurrent, IsAt
<1> QED BY <1>1, <1>2 DEF ReviewCurrent, ComparisonCurrent

\* The file written of the last event of a view shows it.
LEMMA LastIsShown ==
    ASSUME JournalTypeOK, NEW s \in Streams, NEW e, e = journal[s][Len(journal[s])]
    PROVE  /\ LastIs(s, "view.reviewed") => ReviewCurrent(s, RenderViewReview(e.sha, e))
           /\ LastIs(s, "view.compared") => ComparisonCurrent(s, e.at, RenderComparison(e))
<1> PICK n \in Nat : n = Len(journal[s])
  BY DEF JournalTypeOK
<1>1. ASSUME LastIs(s, "view.reviewed"), NEW i \in Positions(s), IsLast(s, i, "view.reviewed")
      PROVE  i = n
  <2>1. n \in Positions(s) /\ IsAt(s, n, "view.reviewed") /\ i \in 1..n
    BY <1>1 DEF LastIs, IsAt, Positions
  <2> QED BY <1>1, <2>1 DEF IsLast
<1>2. ASSUME LastIs(s, "view.compared"), NEW i \in Positions(s), LastAtMinute(s, i, e.at)
      PROVE  i = n
  <2>1. n \in Positions(s) /\ IsAt(s, n, "view.compared") /\ journal[s][n].at = e.at /\ i \in 1..n
    BY <1>2 DEF LastIs, IsAt, Positions
  <2> QED BY <1>2, <2>1 DEF LastAtMinute
<1> QED BY <1>1, <1>2 DEF ReviewCurrent, ComparisonCurrent

\* A finished replay of the service's own journal has made every file current.
LEMMA DoneShowsLast ==
    ASSUME TurnsInv, ReplayInv, ReviewJudgesLatestCapture, cmd = "done", failures = 0,
           NEW s \in Streams, NEW i \in Positions(s)
    PROVE  /\ IsLast(s, i, "view.reviewed") =>
                 reviews[s] = RenderViewReview(journal[s][i].sha, journal[s][i])
           /\ \A at \in Minutes : LastAtMinute(s, i, at) =>
                 comparisons[s][at] = RenderComparison(journal[s][i])
<1>0. NothingMissed /\ JournalTypeOK
  BY DEF NothingMissed, TurnsInv, TypeOK
<1>1. ASSUME IsLast(s, i, "view.reviewed")
      PROVE  reviews[s] = RenderViewReview(journal[s][i].sha, journal[s][i])
  <2>1. PICK j \in 1..(i - 1) :
                /\ IsAt(s, j, "view.captured")
                /\ journal[s][j].sha = journal[s][i].sha
                /\ \A k \in (j + 1)..(i - 1) : ~IsAt(s, k, "view.captured")
    BY <1>1 DEF ReviewJudgesLatestCapture, IsLast
  <2>2. LastRenderable(s, i)
    BY <1>1, <2>1 DEF LastRenderable
  <2>3. PICK m \in 1..(i - 1) :
              /\ IsAt(s, m, "view.captured")
              /\ NoneIn(s, m + 1, i - 1, "view.captured")
              /\ reviews[s] = RenderViewReview(journal[s][m].sha, journal[s][i])
    BY <1>0, <2>2, DoneShowsReviews
  <2>4. m = j
    <3>1. i \in Nat
      BY <1>0, JournalKinds
    <3> QED BY <2>1, <2>3, <3>1 DEF NoneIn
  <2> QED BY <2>1, <2>3, <2>4
<1>2. ASSUME NEW at \in Minutes, LastAtMinute(s, i, at)
      PROVE  comparisons[s][at] = RenderComparison(journal[s][i])
  BY <1>0, <1>2, DoneShowsComparisons
<1> QED BY <1>1, <1>2

LEMMA DoneIsCurrent ==
    ASSUME TurnsInv, ReplayInv, ReviewJudgesLatestCapture, cmd = "done", failures = 0
    PROVE  ReviewsCurrent /\ ComparisonsCurrent
  BY DoneShowsLast DEF ReviewsCurrent, ComparisonsCurrent, ReviewCurrent, ComparisonCurrent

LEMMA ServiceKeepsFiles ==
    ASSUME TurnsInv, Next, cmd = "off", UNCHANGED <<cmd, replayVars, manualVars>>,
           failures' = 0, crashes' = 0, ReviewsCurrent, ComparisonsCurrent
    PROVE  ReviewsCurrent' /\ ComparisonsCurrent'
<1>0. JournalTypeOK /\ DiskTypeOK
  BY DEF TurnsInv, TypeOK
<1>1. ASSUME NEW s \in Streams, NEW e \in Events, Record(s, e), UNCHANGED <<reviews, comparisons>>,
             pc \notin {"writeReview", "writeCompare"},
             e.type = "view.reviewed" => ReviewUnwritten(s)',
             e.type = "view.compared" => ComparisonUnwritten(s, e.at)'
      PROVE  ReviewsCurrent' /\ ComparisonsCurrent'
  <2>1. ASSUME NEW t \in Streams
        PROVE  ReviewCurrent(t, reviews[t])' \/ ReviewUnwritten(t)'
    <3> PICK file : file = reviews[t] OBVIOUS
    <3>1. ReviewCurrent(t, file) /\ reviews'[t] = file
      BY <1>1 DEF ReviewsCurrent, ReviewUnwritten
    <3>2. CASE t = s /\ e.type = "view.reviewed"
      BY <1>1, <3>2
    <3>3. CASE ~(t = s /\ e.type = "view.reviewed")
      <4>1. ReviewCurrent(t, file)'
        BY <1>0, <1>1, <3>1, <3>3, RecordKeepsShown
      <4> QED BY <3>1, <4>1 DEF ReviewCurrent
    <3> QED BY <3>2, <3>3
  <2>2. ASSUME NEW t \in Streams, NEW at \in Minutes
        PROVE  ComparisonCurrent(t, at, comparisons[t][at])' \/ ComparisonUnwritten(t, at)'
    <3> PICK file : file = comparisons[t][at] OBVIOUS
    <3>1. ComparisonCurrent(t, at, file) /\ comparisons'[t][at] = file
      BY <1>1 DEF ComparisonsCurrent, ComparisonUnwritten
    <3>2. CASE t = s /\ e.type = "view.compared" /\ e.at = at
      BY <1>1, <3>2
    <3>3. CASE ~(t = s /\ e.type = "view.compared" /\ e.at = at)
      <4>1. ComparisonCurrent(t, at, file)'
        BY <1>0, <1>1, <3>1, <3>3, RecordKeepsShown
      <4> QED BY <3>1, <4>1 DEF ComparisonCurrent
    <3> QED BY <3>2, <3>3
  <2> QED BY <2>1, <2>2 DEF ReviewsCurrent, ComparisonsCurrent
<1>2. CASE RecordCaptured
  <2>1. current \in Streams /\ Captured(sha) \in Events /\ Record(current, Captured(sha))
    BY <1>2, ServiceRecords
  <2>2. Captured(sha).type = "view.captured"
    BY DEF Captured
  <2>3. pc = "record" /\ UNCHANGED <<reviews, comparisons>>
    BY <1>2 DEF RecordCaptured, diskVars
  <2> QED BY <1>1, <2>1, <2>2, <2>3
<1>3. CASE AutoCompare
  <2>1. /\ current \in Streams /\ Compared(before.SHA256, sha, minute) \in Events
        /\ Record(current, Compared(before.SHA256, sha, minute))
    BY <1>3, ServiceRecords
  <2>2. pc = "compare" /\ pc' = "writeCompare" /\ UNCHANGED <<current, reviews, comparisons>>
    BY <1>3 DEF AutoCompare, diskVars, projectVars, iterVars, current
  <2> PICK e \in Events : e = Compared(before.SHA256, sha, minute) BY <2>1
  <2> PICK s \in Streams : s = current BY <2>1
  <2>3. Record(s, e) /\ e.type = "view.compared"
    BY <2>1 DEF Compared
  <2>4. ComparisonUnwritten(s, e.at)'
    BY <1>0, <2>2, <2>3, RecordIsLast DEF ComparisonUnwritten, lastEvent
  <2> QED BY <1>1, <2>2, <2>3, <2>4
<1>4. CASE ReviewCapture
  <2>1. PICK score \in Scores : /\ current \in Streams /\ Reviewed(sha, score) \in Events
                                /\ Record(current, Reviewed(sha, score))
    BY <1>4, ServiceRecords
  <2>2. pc = "review" /\ pc' = "writeReview" /\ UNCHANGED <<current, reviews, comparisons>>
    BY <1>4 DEF ReviewCapture, diskVars, projectVars, iterVars, current
  <2>3. Reviewed(sha, score).type = "view.reviewed"
    BY DEF Reviewed
  <2>4. ReviewUnwritten(current)'
    BY <2>2 DEF ReviewUnwritten
  <2> PICK s \in Streams : s = current BY <2>1
  <2>5. ReviewUnwritten(s)'
    BY <2>2 DEF ReviewUnwritten
  <2> QED BY <1>1, <2>1, <2>2, <2>3, <2>5
<1>5. CASE WriteViewReview
  <2>1. /\ pc = "writeReview" /\ cmd' = "off" /\ pc' = "view"
        /\ UNCHANGED <<journal, comparisons>>
        /\ reviews' = [reviews EXCEPT ![current] = RenderViewReview(sha, lastEvent)]
    BY <1>5 DEF WriteViewReview, EndIteration, journalVars
  <2> PICK s \in Streams : s = current
    BY <2>1, CurrentView DEF TurnsInv, TypeOK, PassTypeOK, InView, Steps
  <2> PICK e : e = lastEvent OBVIOUS
  <2>2. LastIs(s, "view.reviewed") /\ e.sha = sha /\ e = journal[s][Len(journal[s])]
    BY <2>1 DEF TurnsInv, RecordedLast, lastEvent
  <2>3. ReviewCurrent(s, RenderViewReview(e.sha, e))
    BY <1>0, <2>2, LastIsShown
  <2>4. ReviewsCurrent'
    <3>1. reviews'[s] = RenderViewReview(e.sha, e) /\ \A t \in Streams \ {s} : reviews'[t] = reviews[t]
      BY <1>0, <2>1, <2>2 DEF DiskTypeOK
    <3>2. \A t \in Streams : ReviewCurrent(t, reviews'[t])
      BY <2>3, <3>1 DEF ReviewsCurrent, ReviewUnwritten
    <3> QED BY <2>1, <3>2 DEF ReviewsCurrent, ReviewCurrent, IsLast, IsAt, Positions
  <2>5. ComparisonsCurrent'
    BY <2>1 DEF ComparisonsCurrent, ComparisonCurrent, ComparisonUnwritten, LastAtMinute, IsAt, Positions
  <2> QED BY <2>4, <2>5
<1>6. CASE WriteComparison
  <2>1. /\ pc = "writeCompare" /\ cmd' = "off" /\ pc' = "review"
        /\ UNCHANGED <<journal, reviews>>
        /\ comparisons' = [comparisons EXCEPT ![current][lastEvent.at] = RenderComparison(lastEvent)]
    BY <1>6 DEF WriteComparison, journalVars
  <2> PICK s \in Streams : s = current
    BY <2>1, CurrentView DEF TurnsInv, TypeOK, PassTypeOK, InView, Steps
  <2> PICK e : e = lastEvent OBVIOUS
  <2>2. LastIs(s, "view.compared") /\ e = journal[s][Len(journal[s])]
    BY <2>1 DEF TurnsInv, RecordedLast, lastEvent
  <2>3. ComparisonCurrent(s, e.at, RenderComparison(e))
    BY <1>0, <2>2, LastIsShown
  <2>4. ComparisonsCurrent'
    <3>1. /\ comparisons'[s][e.at] = RenderComparison(e) \/ e.at \notin Minutes
          /\ \A t \in Streams, at \in Minutes :
                ~ (t = s /\ at = e.at) => comparisons'[t][at] = comparisons[t][at]
      BY <1>0, <2>1, <2>2 DEF DiskTypeOK
    <3>2. \A t \in Streams : \A at \in Minutes : ComparisonCurrent(t, at, comparisons'[t][at])
      BY <2>1, <2>3, <3>1 DEF ComparisonsCurrent, ComparisonUnwritten
    <3> QED BY <2>1, <3>2
            DEF ComparisonsCurrent, ComparisonCurrent, LastAtMinute, IsAt, Positions
  <2>5. ReviewsCurrent'
    BY <2>1 DEF ReviewsCurrent, ReviewCurrent, ReviewUnwritten, IsLast, IsAt, Positions
  <2> QED BY <2>4, <2>5
<1>7. CASE ~(RecordCaptured \/ AutoCompare \/ ReviewCapture \/ WriteViewReview \/ WriteComparison)
  <2>1. UNCHANGED <<journal, reviews, comparisons>>
    BY <1>7 DEF Next, PassStep, Environment, StartPass, AbortPass, ScanProject, EndPass,
       SkipView, LoadFails, BeginView, HashCapture, CopyBlob, IngestFails,
       CompareFails, ReviewFails, RefreshIndex, RefreshIndexFails, CutShort,
       Stop, Recover, Start, Restart, Cancel, Crash, Tick, EditFile, journalVars, diskVars
  <2>2. pc \in {"writeReview", "writeCompare"} => UNCHANGED <<pc, current>>
    <3>1. failures \in Nat /\ crashes \in Nat
      BY DEF TurnsInv, TypeOK, EnvTypeOK
    <3>2. ~ (DiskFault \/ crashes' = crashes + 1)
      BY <3>1 DEF DiskFault
    <3> QED BY <1>7, <3>2 DEF Next, PassStep, Environment, StartPass, AbortPass, ScanProject, EndPass,
       SkipView, LoadFails, BeginView, HashCapture, CopyBlob, IngestFails,
       CompareFails, ReviewFails, RefreshIndex, RefreshIndexFails, CutShort,
       Stop, Recover, Start, Restart, Cancel, Crash, Tick, EditFile, AtNextView, current,
       projectVars, iterVars
  <2>3. ReviewsCurrent'
    BY <2>1, <2>2 DEF ReviewsCurrent, ReviewCurrent, ReviewUnwritten, IsLast, IsAt, Positions
  <2>4. ComparisonsCurrent'
    BY <2>1, <2>2 DEF ComparisonsCurrent, ComparisonCurrent, ComparisonUnwritten, LastAtMinute, IsAt,
       Positions, lastEvent
  <2> QED BY <2>3, <2>4
<1> QED BY <1>2, <1>3, <1>4, <1>5, <1>6, <1>7

\* A step counts at most one fault and one crash.
LEMMA StepCounts ==
    ASSUME Next
    PROVE  /\ failures' = failures \/ failures' = failures + 1
           /\ crashes' = crashes \/ crashes' = crashes + 1
<1>1. CASE StartPass \/ AbortPass \/ ScanProject \/ EndPass \/ SkipView \/ LoadFails \/ BeginView
           \/ HashCapture \/ CopyBlob \/ IngestFails \/ RecordCaptured
  BY <1>1 DEF StartPass, AbortPass, ScanProject, EndPass, SkipView, LoadFails, BeginView,
     HashCapture, CopyBlob, IngestFails, RecordCaptured, DiskFault, CallFault, envVars
<1>2. CASE AutoCompare \/ WriteComparison \/ CompareFails \/ ReviewCapture \/ WriteViewReview
           \/ ReviewFails \/ RefreshIndex \/ RefreshIndexFails \/ CutShort
  BY <1>2 DEF AutoCompare, WriteComparison, CompareFails, ReviewCapture, WriteViewReview,
     ReviewFails, RefreshIndex, RefreshIndexFails, CutShort, DiskFault, CallFault, envVars
<1>3. CASE Stop \/ Recover \/ Environment
  BY <1>3 DEF Stop, Recover, Environment, Start, Restart, Cancel, Crash, Tick, EditFile, envVars
<1> QED BY <1>1, <1>2, <1>3 DEF Next, PassStep

LEMMA TurnKeepsFiles ==
    ASSUME TurnsInv, TurnsInv', ReplayInv, HistoryInv, FilesCurrent, ServiceNext
    PROVE  FilesCurrent'
<1> SUFFICES ASSUME failures' = 0, crashes' = 0
             PROVE  /\ cmd' \notin {"events", "done"} => ReviewsCurrent' /\ ComparisonsCurrent'
                    /\ Replaying' => \A s \in Streams :
                          /\ ReviewCurrent(s, shown.reviews[s])'
                          /\ \A at \in Minutes : ComparisonCurrent(s, at, shown.comparisons[s][at])'
  BY DEF FilesCurrent
<1>0. JournalTypeOK /\ DiskTypeOK /\ CommandTypeOK
  BY DEF TurnsInv, TypeOK
<1>a. failures = 0 /\ crashes = 0
  <2>1. failures \in Nat /\ crashes \in Nat /\ failures' \in Nat /\ crashes' \in Nat
    BY DEF TurnsInv, TypeOK, EnvTypeOK
  <2>2. CASE ServiceStep
    <3>1. /\ failures' = failures \/ failures' = failures + 1
          /\ crashes' = crashes \/ crashes' = crashes + 1
      BY <2>2, StepCounts DEF ServiceStep
    <3> QED BY <2>1, <3>1
  <2>3. CASE ~ServiceStep
    BY <2>1, <2>3, CommandKeepsPc DEF OpenNext
  <2> QED BY <2>2, <2>3
<1>b. /\ ~Replaying => ReviewsCurrent /\ ComparisonsCurrent
      /\ Replaying => \A s \in Streams :
            /\ ReviewCurrent(s, shown.reviews[s])
            /\ \A at \in Minutes : ComparisonCurrent(s, at, shown.comparisons[s][at])
  BY <1>a DEF FilesCurrent, Replaying
<1>c. cmd # "off" => pc \notin {"writeReview", "writeCompare"}
  BY <1>0 DEF CommandTypeOK, Running
<1>1. ASSUME UNCHANGED <<journal, reviews, comparisons, pc>>, ~Running, cmd # "write",
             ReviewsCurrent, ComparisonsCurrent
      PROVE  /\ ReviewsCurrent' /\ ComparisonsCurrent'
             /\ \A s \in Streams :
                    /\ ReviewCurrent(s, reviews[s])'
                    /\ \A at \in Minutes : ComparisonCurrent(s, at, comparisons[s][at])'
  <2>1. pc \notin {"writeReview", "writeCompare"}
    BY <1>1 DEF Running
  <2>2. \A s \in Streams : /\ ReviewCurrent(s, reviews[s])
                           /\ \A at \in Minutes : ComparisonCurrent(s, at, comparisons[s][at])
    BY <1>1, <2>1 DEF ReviewsCurrent, ComparisonsCurrent, ReviewUnwritten, ComparisonUnwritten
  <2>3. \A s \in Streams : /\ ReviewCurrent(s, reviews[s])'
                           /\ \A at \in Minutes : ComparisonCurrent(s, at, comparisons[s][at])'
    BY <1>1, <2>2 DEF ReviewCurrent, ComparisonCurrent, IsLast, LastAtMinute, IsAt, Positions
  <2> QED BY <2>3 DEF ReviewsCurrent, ComparisonsCurrent
<1>2. CASE ServiceStep
  <2>1. CASE cmd = "off"
    <3>1. Next /\ UNCHANGED <<cmd, replayVars, manualVars>> /\ ~Replaying /\ ~Replaying'
      BY <1>2, <2>1 DEF ServiceStep, Replaying
    <3>2. ReviewsCurrent' /\ ComparisonsCurrent'
      BY <1>b, <2>1, <3>1, ServiceKeepsFiles
    <3> QED BY <3>1, <3>2
  <2>2. CASE cmd # "off"
    <3>1. UNCHANGED <<journal, reviews, comparisons, pc, cmd, shown, key, project, target>>
      BY <1>0, <1>2, <2>2, HeldService
         DEF CommandTypeOK, journalVars, projectVars, iterVars, manualVars, replayVars
    <3>2. ReviewsCurrent => ReviewsCurrent'
      BY <3>1 DEF ReviewsCurrent, ReviewCurrent, ReviewUnwritten, IsLast, IsAt, Positions, current
    <3>3. ComparisonsCurrent => ComparisonsCurrent'
      BY <3>1 DEF ComparisonsCurrent, ComparisonCurrent, ComparisonUnwritten, LastAtMinute, IsAt,
         Positions, lastEvent, current
    <3>4. Replaying' => \A s \in Streams :
              /\ ReviewCurrent(s, shown.reviews[s])'
              /\ \A at \in Minutes : ComparisonCurrent(s, at, shown.comparisons[s][at])'
      BY <1>b, <3>1 DEF Replaying, ReviewCurrent, ComparisonCurrent, IsLast, LastAtMinute, IsAt, Positions
    <3> QED BY <1>b, <3>1, <3>2, <3>3, <3>4 DEF Replaying
  <2> QED BY <2>1, <2>2
<1>3. CASE StartReplay
  <2>1. /\ UNCHANGED <<journal, reviews, comparisons, pc>> /\ ~Running /\ cmd = "off"
        /\ cmd' = "events" /\ shown'.reviews = reviews' /\ shown'.comparisons = comparisons'
    BY <1>3 DEF StartReplay, vars, journalVars, diskVars
  <2> QED BY <1>1, <1>b, <2>1 DEF Replaying
<1>4. CASE ReplayIndexes \/ ReplayStray \/ \E s \in Streams : ReplayEvent(s)
  <2>1. cmd \in {"events", "done"} /\ cmd' \in {"events", "done"} /\ UNCHANGED <<journal, shown>>
    BY <1>4, EventFolds DEF ReplayIndexes, ReplayStray, vars, journalVars
  <2> QED BY <1>b, <2>1
          DEF Replaying, ReviewCurrent, ComparisonCurrent, IsLast, LastAtMinute, IsAt, Positions
<1>5. CASE FinishReplay
  <2>1. /\ cmd = "done" /\ cmd' = "off" /\ ~Running
        /\ UNCHANGED <<journal, reviews, comparisons, pc>>
    BY <1>0, <1>5 DEF FinishReplay, Forget, CommandTypeOK, vars, journalVars, diskVars
  <2>2. ReviewsCurrent /\ ComparisonsCurrent
    BY <1>a, <2>1, DoneIsCurrent DEF Replaying, HistoryInv
  <2> QED BY <1>1, <2>1, <2>2 DEF Replaying
<1>6. CASE StoreBefore \/ StoreAfter
  <2>1. /\ cmd \in {"off", "storeAfter"} /\ cmd' \in {"storeAfter", "judge"} /\ ~Running
        /\ UNCHANGED <<journal, reviews, comparisons, pc>>
    BY <1>0, <1>6 DEF StoreBefore, StoreAfter, CommandTypeOK, journalVars, dirVars, passVars
  <2> QED BY <1>1, <1>b, <2>1 DEF Replaying
<1>7. CASE RecordManual
  <2>1. /\ cmd = "judge" /\ cmd' = "write" /\ UNCHANGED <<pc, reviews, comparisons, target>>
        /\ target \in Streams /\ pair[1] \in Contents /\ pair[2] \in Contents
    BY <1>0, <1>7 DEF RecordManual, CommandTypeOK, diskVars, passVars, manualVars
  <2>2. PICK e \in Events : e.type = "view.compared" /\ Record(target, e)
    BY <1>7, ManualRecords
  <2> PICK s \in Streams : s = target BY <2>1
  <2>3. ComparisonUnwritten(s, e.at)'
    BY <1>0, <2>1, <2>2, RecordIsLast DEF ComparisonUnwritten
  <2>4. ASSUME NEW t \in Streams
        PROVE  ReviewCurrent(t, reviews[t])'
    <3> PICK file : file = reviews[t] OBVIOUS
    <3>1. ReviewCurrent(t, file) /\ reviews'[t] = file
      BY <1>b, <1>c, <2>1 DEF Replaying, ReviewsCurrent, ReviewUnwritten
    <3>2. ReviewCurrent(t, file)'
      BY <1>0, <2>1, <2>2, <3>1, RecordKeepsShown
    <3> QED BY <3>1, <3>2 DEF ReviewCurrent
  <2>5. ASSUME NEW t \in Streams, NEW at \in Minutes
        PROVE  ComparisonCurrent(t, at, comparisons[t][at])' \/ ComparisonUnwritten(t, at)'
    <3> PICK file : file = comparisons[t][at] OBVIOUS
    <3>1. ComparisonCurrent(t, at, file) /\ comparisons'[t][at] = file
      BY <1>b, <1>c, <2>1 DEF Replaying, ComparisonsCurrent, ComparisonUnwritten
    <3>2. CASE t = s /\ e.at = at
      BY <2>3, <3>2
    <3>3. CASE ~(t = s /\ e.at = at)
      <4>1. ComparisonCurrent(t, at, file)'
        BY <1>0, <2>2, <3>1, <3>3, RecordKeepsShown
      <4> QED BY <3>1, <4>1 DEF ComparisonCurrent
    <3> QED BY <3>2, <3>3
  <2> QED BY <2>1, <2>4, <2>5 DEF ReviewsCurrent, ComparisonsCurrent, Replaying
<1>8. CASE WriteManual
  <2> PICK s \in Streams : s = target
    BY <1>0, <1>8 DEF WriteManual, CommandTypeOK
  <2> PICK e : e = journal[s][Len(journal[s])] OBVIOUS
  <2>1. /\ cmd = "write" /\ cmd' = "off" /\ UNCHANGED <<journal, pc, reviews>>
        /\ comparisons' = [comparisons EXCEPT ![s][e.at] = RenderComparison(e)]
    BY <1>8 DEF WriteManual, Forget, journalVars, passVars
  <2>2. LastIs(s, "view.compared")
    BY <2>1 DEF TurnsInv, RecordedLast
  <2>3. ComparisonCurrent(s, e.at, RenderComparison(e))
    BY <1>0, <2>2, LastIsShown
  <2>4. ComparisonsCurrent'
    <3>1. /\ comparisons'[s][e.at] = RenderComparison(e) \/ e.at \notin Minutes
          /\ \A t \in Streams, at \in Minutes :
                ~ (t = s /\ at = e.at) => comparisons'[t][at] = comparisons[t][at]
      BY <1>0, <2>1 DEF DiskTypeOK
    <3>2. \A t \in Streams : \A at \in Minutes : ComparisonCurrent(t, at, comparisons'[t][at])
      BY <1>b, <1>c, <2>1, <2>3, <3>1 DEF Replaying, ComparisonsCurrent, ComparisonUnwritten
    <3> QED BY <2>1, <3>2
            DEF ComparisonsCurrent, ComparisonCurrent, LastAtMinute, IsAt, Positions
  <2>5. ReviewsCurrent'
    BY <1>b, <1>c, <2>1
       DEF Replaying, ReviewsCurrent, ReviewCurrent, ReviewUnwritten, IsLast, IsAt, Positions
  <2> QED BY <2>1, <2>4, <2>5 DEF Replaying
<1>9. CASE Wipe
  <2>1. cmd' = "off" /\ \A s \in Streams : /\ reviews'[s] = None
                                           /\ \A at \in Minutes : comparisons'[s][at] = None
    BY <1>9 DEF Wipe
  <2> QED BY <2>1 DEF ReviewsCurrent, ComparisonsCurrent, ReviewCurrent, ComparisonCurrent, Replaying
<1>10. CASE ManualFails
  <2>1. /\ cmd = "judge" /\ cmd' = "off" /\ ~Running
        /\ UNCHANGED <<journal, reviews, comparisons, pc>>
    BY <1>0, <1>a, <1>10 DEF ManualFails, DiskFault, Forget, CommandTypeOK, journalVars, diskVars,
       passVars
  <2> QED BY <1>1, <1>b, <2>1 DEF Replaying
<1>11. ~Interrupt
  BY <1>a DEF Interrupt
<1> QED BY <1>2, <1>3, <1>4, <1>5, <1>6, <1>7, <1>8, <1>9, <1>10, <1>11
        DEF ServiceNext, ReplayStep, ReplayEvent, ManualStep

\* What the service and the commands wrote is current whenever nobody is at work on it,
\* as long as nothing failed.
THEOREM ServiceFilesCurrent == ServiceSpec => [](HistoryInv /\ FilesCurrent)
<1>1. Init /\ CommandsInit => HistoryInv /\ FilesCurrent
  <2> SUFFICES ASSUME Init, CommandsInit PROVE HistoryInv /\ FilesCurrent
    OBVIOUS
  <2>1. HistoryInv
    BY DEF Init, JournalInit, HistoryInv, ReviewJudgesLatestCapture, IsAt, Positions, LatestIngested
  <2>2. ReviewsCurrent /\ ComparisonsCurrent
    BY DEF Init, ReviewsCurrent, ComparisonsCurrent, ReviewCurrent, ComparisonCurrent
  <2>3. ~Replaying
    BY DEF CommandsInit, Replaying
  <2> QED BY <2>1, <2>2, <2>3 DEF FilesCurrent
<1>2. /\ TurnsInv /\ TurnsInv' /\ ReplayInv /\ HistoryInv /\ FilesCurrent
      /\ [ServiceNext]_allVars
      => (HistoryInv /\ FilesCurrent)'
  <2>1. ASSUME TurnsInv, TurnsInv', ReplayInv, HistoryInv, FilesCurrent, ServiceNext
        PROVE  HistoryInv' /\ FilesCurrent'
    BY <2>1, TurnKeepsHistory, TurnKeepsFiles
  <2>2. ASSUME HistoryInv, FilesCurrent, UNCHANGED allVars
        PROVE  HistoryInv' /\ FilesCurrent'
    <3>1. UNCHANGED <<journal, reviews, comparisons, failures, crashes, cmd, shown, target, pc,
                      project, key, sha>>
      BY <2>2 DEF allVars, vars, journalVars, diskVars, envVars, projectVars, iterVars,
         replayVars, manualVars
    <3>2. HistoryInv'
      BY <2>2, <3>1 DEF HistoryInv, ReviewJudgesLatestCapture, LatestIngested, IsLast, IsAt, Positions,
         current
    <3>3. FilesCurrent'
      BY <2>2, <3>1 DEF FilesCurrent, ReviewsCurrent, ComparisonsCurrent, ReviewCurrent, ComparisonCurrent,
         ReviewUnwritten, ComparisonUnwritten, IsLast, LastAtMinute, IsAt, Positions, Replaying,
         lastEvent, current
    <3> QED BY <3>2, <3>3
  <2> QED BY <2>1, <2>2
<1> QED BY <1>1, <1>2, ServiceIsOpen, TurnsTypeCorrect, TurnsReplay, PTL DEF ServiceSpec

\* A replay changes no file that was there: the last verdict of a view is shown before
\* and after it, and a file of a view without a verdict is left alone.
THEOREM ReplaysChangeNothing == ServiceSpec => []ReplayChangesNothing
<1>1. TurnsInv /\ ReplayInv /\ HistoryInv /\ FilesCurrent => ReplayChangesNothing
  <2> SUFFICES ASSUME TurnsInv, ReplayInv, HistoryInv, FilesCurrent,
                      cmd = "done", failures = 0, crashes = 0, NEW s \in Streams
               PROVE  /\ shown.reviews[s] # None => reviews[s] = shown.reviews[s]
                      /\ \A at \in Minutes : shown.comparisons[s][at] # None =>
                            comparisons[s][at] = shown.comparisons[s][at]
    BY DEF ReplayChangesNothing
  <2> PICK n \in Nat : n = Len(journal[s])
    BY DEF TurnsInv, TypeOK, JournalTypeOK
  <2>0. JournalTypeOK /\ Positions(s) = 1..n
    BY DEF TurnsInv, TypeOK, Positions
  <2>1. /\ ReviewCurrent(s, shown.reviews[s])
        /\ \A at \in Minutes : ComparisonCurrent(s, at, shown.comparisons[s][at])
    BY DEF FilesCurrent, Replaying
  <2>2. /\ NoneIn(s, 1, n, "view.reviewed") => reviews[s] = shown.reviews[s]
        /\ \A at \in Minutes : (\A k \in 1..n : ~AtMinute(s, k, at)) =>
              comparisons[s][at] = shown.comparisons[s][at]
    BY DEF ReplayInv, UntouchedUntilRead, IndexReplayed, Replaying
  <2>3. ASSUME shown.reviews[s] # None, ~NoneIn(s, 1, n, "view.reviewed")
        PROVE  reviews[s] = shown.reviews[s]
    <3> DEFINE S == {k \in 1..n : IsAt(s, k, "view.reviewed")}
    <3>1. S \in SUBSET (1..n) /\ S # {}
      BY <2>3 DEF NoneIn
    <3>2. PICK i \in S : \A k \in S : k <= i
      <4> HIDE DEF S
      <4> QED BY <3>1, LargestExists
    <3>3. IsLast(s, i, "view.reviewed") /\ i \in Positions(s)
      BY <2>0, <3>2 DEF IsLast
    <3> QED BY <2>1, <2>3, <3>3, DoneShowsLast DEF ReviewCurrent, HistoryInv
  <2>4. ASSUME NEW at \in Minutes, shown.comparisons[s][at] # None,
               \E k \in 1..n : AtMinute(s, k, at)
        PROVE  comparisons[s][at] = shown.comparisons[s][at]
    <3> DEFINE S == {k \in 1..n : AtMinute(s, k, at)}
    <3>1. S \in SUBSET (1..n) /\ S # {}
      BY <2>4
    <3>2. PICK i \in S : \A k \in S : k <= i
      <4> HIDE DEF S
      <4> QED BY <3>1, LargestExists
    <3>3. LastAtMinute(s, i, at) /\ i \in Positions(s)
      BY <2>0, <3>2 DEF LastAtMinute, AtMinute
    <3> QED BY <2>1, <2>4, <3>3, DoneShowsLast DEF ComparisonCurrent, HistoryInv
  <2> QED BY <2>2, <2>3, <2>4
<1> QED BY <1>1, ServiceIsOpen, TurnsTypeCorrect, TurnsReplay, ServiceFilesCurrent, PTL

\* LoadView's fold says what the journal says through all of it, foreign callers included.
THEOREM TurnsFoldCorrect == OpenSpec => []FoldMatchesJournal
<1>1. Init /\ CommandsInit => CurrentIsLatestCapture /\ FoldInv
  BY JournalInitCurrent, JournalInitFold DEF Init
<1>2. TurnsInv /\ CurrentIsLatestCapture /\ FoldInv /\ [OpenNext]_allVars
         => (CurrentIsLatestCapture /\ FoldInv)'
  <2>1. ASSUME TurnsInv, CurrentIsLatestCapture, FoldInv, UNCHANGED journalVars
        PROVE  CurrentIsLatestCapture' /\ FoldInv'
    BY <2>1, FoldStutter DEF CurrentIsLatestCapture, IsLast, IsAt, Positions, journalVars
  <2>2. ASSUME TurnsInv, CurrentIsLatestCapture, FoldInv,
               NEW s \in Streams, NEW e \in Events, Record(s, e)
        PROVE  CurrentIsLatestCapture' /\ FoldInv'
    BY <2>2, RecordKeepsCurrent, RecordKeepsFold DEF TurnsInv, TypeOK
  <2>3. UNCHANGED allVars => UNCHANGED journalVars
    BY DEF allVars, vars
  <2> QED BY <2>1, <2>2, <2>3, TurnRecords
<1>3. TurnsInv /\ CurrentIsLatestCapture /\ FoldInv => FoldMatchesJournal
  BY FoldMeaning DEF TurnsInv, TypeOK
<1> QED BY <1>1, <1>2, <1>3, TurnsTypeCorrect, PTL DEF OpenSpec

-----------------------------------------------------------------------------
(* Blobs: whoever stores one, no record refers to a hash without it.        *)

\* The blobs a record that is still to come will refer to.
ViewsHaveBlobs ==
    \A s \in Streams : view[s].SHA256 # NoSHA => blobs[view[s].SHA256] # None
HeldBlobs ==
    /\ before.SHA256 # NoSHA => blobs[before.SHA256] # None
    /\ pc = "compare" => blobs[sha] # None
    /\ cmd \in {"storeAfter", "judge"} => blobs[pair[1]] # None
    /\ cmd = "judge" => blobs[pair[2]] # None

BlobsInv == BlobBeforeRecord /\ JournaledBlobsExist /\ ViewsHaveBlobs /\ HeldBlobs

\* Neither the service nor a command replaces a blob.
LEMMA TurnKeepsBlobs ==
    ASSUME TurnsInv, BlobBeforeRecord, [ServiceNext]_allVars
    PROVE  \A c \in Contents : blobs[c] # None => blobs'[c] = blobs[c]
<1>0. DiskTypeOK
  BY DEF TurnsInv, TypeOK
<1>1. CASE ServiceStep
  BY <1>1, StepKeepsBlobs DEF ServiceStep
<1>2. ASSUME NEW b \in Contents, StoreFile(b)
      PROVE  \A c \in Contents : blobs[c] # None => blobs'[c] = blobs[c]
  BY <1>0, <1>2 DEF StoreFile, DiskTypeOK
<1>3. CASE StoreBefore \/ StoreAfter
  BY <1>2, <1>3 DEF StoreBefore, StoreAfter
<1>4. CASE StartReplay \/ ReplayStep \/ RecordManual \/ WriteManual \/ ManualFails
           \/ Interrupt \/ Wipe \/ UNCHANGED allVars
  BY <1>4 DEF StartReplay, ReplayStep, ReplaySilently, ReplayReview, ReplayOrphan,
     ReplayComparison, ReplayGarbled, ReplayWriteFails, ReplayStray, ReplayIndexes, FinishReplay, RecordManual,
     WriteManual, ManualFails, Interrupt, Wipe, vars, allVars, diskVars
<1> QED BY <1>1, <1>3, <1>4 DEF ServiceNext, ManualStep

\* The folded state names a capture that was recorded, so its blob is there.
LEMMA RecordKeepsViewBlobs ==
    ASSUME JournalTypeOK, ViewsHaveBlobs,
           \A c \in Contents : blobs[c] # None => blobs'[c] # None,
           NEW s \in Streams, NEW e \in Events, Record(s, e),
           e.type = "view.captured" => blobs[e.sha] # None
    PROVE  ViewsHaveBlobs'
<1> SUFFICES ASSUME NEW t \in Streams, view'[t].SHA256 # NoSHA
             PROVE  blobs'[view'[t].SHA256] # None
  BY DEF ViewsHaveBlobs
<1>0. view[t] \in ViewState /\ view'[t] \in ViewState
  BY RecordEffect DEF JournalTypeOK
<1>1. view'[t].SHA256 \in Contents
  BY <1>0 DEF ViewState
<1>2. /\ t = s => view'[t] = ApplyViewState(view[t], e)
      /\ t # s => view'[t] = view[t]
  BY RecordEffect
<1>3. CASE t = s /\ e.type = "view.captured"
  <2>1. e.sha \in Contents
    BY <1>3, EventKinds
  <2> PICK state \in ViewState : state = view[t]
    BY <1>0
  <2>2. ApplyViewState(state, e).SHA256 = e.sha
    BY <1>3, <2>1 DEF ApplyViewState, ApplyCaptured, ViewState
  <2> QED BY <1>1, <1>2, <1>3, <2>2
<1>4. CASE ~ (t = s /\ e.type = "view.captured")
  <2> PICK state \in ViewState : state = view[t]
    BY <1>0
  <2>1. CASE t = s
    <3>1. CASE e.type = "view.reviewed"
      <4>1. ApplyViewState(state, e).SHA256 = state.SHA256
        BY <3>1 DEF ApplyViewState, ApplyReviewed, ViewState
      <4> QED BY <1>1, <1>2, <2>1, <4>1 DEF ViewsHaveBlobs
    <3>2. CASE e.type \notin {"view.captured", "view.reviewed"}
      BY <1>1, <1>2, <2>1, <3>2, OthersKeepState DEF ViewsHaveBlobs
    <3> QED BY <1>4, <2>1, <3>1, <3>2
  <2>2. CASE t # s
    BY <1>1, <1>2, <2>2 DEF ViewsHaveBlobs
  <2> QED BY <2>1, <2>2
<1> QED BY <1>3, <1>4

\* Every record the service and the commands make refers to blobs that are there.
LEMMA TurnRecordsBlobs ==
    ASSUME TurnsInv, BlobsInv, ServiceNext
    PROVE  \/ UNCHANGED journalVars
           \/ \E s \in Streams, e \in Events :
                 /\ Record(s, e)
                 /\ e.type = "view.captured" => blobs[e.sha] # None
                 /\ e.type = "view.compared" => blobs[e.before] # None /\ blobs[e.after] # None
<1>0. JournalTypeOK /\ PassTypeOK
  BY DEF TurnsInv, TypeOK
<1>1. CASE ServiceStep
  <2>0. Next
    BY <1>1 DEF ServiceStep
  <2>1. CASE RecordCaptured
    <3> PICK e \in Events : e = Captured(sha)
      BY <2>0, <2>1, ServiceRecords
    <3>1. current \in Streams /\ Record(current, e)
      BY <2>0, <2>1, ServiceRecords
    <3>2. e.type = "view.captured" /\ e.sha = sha
      BY DEF Captured
    <3>3. blobs[e.sha] # None
      BY <2>1, <3>2 DEF RecordCaptured, BlobsInv, BlobBeforeRecord
    <3> QED BY <3>1, <3>2, <3>3
  <2>2. CASE AutoCompare
    <3> PICK e \in Events : e = Compared(before.SHA256, sha, minute)
      BY <2>0, <2>2, ServiceRecords
    <3>1. current \in Streams /\ Record(current, e)
      BY <2>0, <2>2, ServiceRecords
    <3>2. e.type = "view.compared" /\ e.before = before.SHA256 /\ e.after = sha
      BY DEF Compared
    <3>3. blobs[e.before] # None /\ blobs[e.after] # None
      BY <2>2, <3>2 DEF AutoCompare, BlobsInv, HeldBlobs, TurnsInv, RecordedLast
    <3> QED BY <3>1, <3>2, <3>3
  <2>3. CASE ReviewCapture
    <3> PICK score \in Scores : /\ current \in Streams /\ Reviewed(sha, score) \in Events
                                /\ Record(current, Reviewed(sha, score))
      BY <2>0, <2>3, ServiceRecords
    <3> PICK e \in Events : e = Reviewed(sha, score)
      OBVIOUS
    <3>1. e.type = "view.reviewed" /\ Record(current, e)
      BY DEF Reviewed
    <3> QED BY <3>1
  <2> QED BY <2>0, <2>1, <2>2, <2>3, ServiceRecords
<1>2. CASE RecordManual
  <2>1. target \in Streams /\ pair[1] \in Contents /\ pair[2] \in Contents /\ minute \in Minutes
    BY <1>2 DEF RecordManual, TurnsInv, TypeOK, CommandTypeOK, EnvTypeOK
  <2> PICK e \in Events : e = Compared(pair[1], pair[2], minute)
    BY <2>1 DEF Events
  <2>2. e.type = "view.compared" /\ e.before = pair[1] /\ e.after = pair[2]
    BY DEF Compared
  <2>3. Record(target, e)
    BY <1>2 DEF RecordManual, RecordComparison
  <2>4. blobs[e.before] # None /\ blobs[e.after] # None
    BY <1>2, <2>2 DEF RecordManual, BlobsInv, HeldBlobs
  <2> QED BY <2>1, <2>2, <2>3, <2>4
<1>3. CASE StartReplay \/ ReplayStep \/ StoreBefore \/ StoreAfter \/ WriteManual \/ ManualFails
           \/ Interrupt \/ Wipe
  BY <1>3 DEF StartReplay, ReplayStep, ReplaySilently, ReplayReview, ReplayOrphan,
     ReplayComparison, ReplayGarbled, ReplayWriteFails, ReplayStray, ReplayIndexes, FinishReplay, StoreBefore, StoreAfter,
     WriteManual, ManualFails, Interrupt, Wipe, vars
<1> QED BY <1>1, <1>2, <1>3 DEF ServiceNext, ManualStep

\* What a record is still to refer to stays archived until it is made.
LEMMA TurnKeepsHeldBlobs ==
    ASSUME TurnsInv, BlobsInv, ServiceNext,
           \A c \in Contents : blobs[c] # None => blobs'[c] # None
    PROVE  HeldBlobs'
<1>0. PassTypeOK /\ DiskTypeOK /\ JournalTypeOK
  BY DEF TurnsInv, TypeOK
<1>1. CASE ServiceStep
  <2>1. Next /\ UNCHANGED <<cmd, pair>>
    BY <1>1 DEF ServiceStep, manualVars
  <2>2. before'.SHA256 # NoSHA => blobs'[before'.SHA256] # None
    <3>1. before \in ViewState
      BY <1>0 DEF PassTypeOK
    <3>2. \/ UNCHANGED before \/ before' = initialViewState
          \/ \E s \in Streams : before' = view[s]
      <4>1. CASE BeginView
        <5>1. project \in Projects /\ todo # {} /\ todo \in SUBSET Keys
          BY <1>0, <4>1 DEF BeginView, AtNextView, PassTypeOK, Steps
        <5>2. NextKey \in Keys
          BY <5>1, SmallestExists, ConstantsAssumption DEF NextKey
        <5>3. <<project, NextKey>> \in Streams
          BY <5>1, <5>2 DEF Streams
        <5> QED BY <4>1, <5>3 DEF BeginView
      <4>2. CASE ~BeginView
        BY <2>1, <4>2 DEF Next, PassStep, Environment, StartPass, AbortPass, ScanProject, EndPass,
           SkipView, LoadFails, HashCapture, CopyBlob, IngestFails, RecordCaptured, AutoCompare,
           WriteComparison, CompareFails, ReviewCapture, WriteViewReview, ReviewFails,
           RefreshIndex, RefreshIndexFails, CutShort, Stop, Recover, Start, Restart, Cancel,
           Crash, Tick, EditFile, EndIteration, iterVars
      <4> QED BY <4>1, <4>2
    <3>3. ASSUME UNCHANGED before, before.SHA256 # NoSHA PROVE blobs'[before.SHA256] # None
      BY <3>1, <3>3 DEF BlobsInv, HeldBlobs, ViewState
    <3>4. initialViewState.SHA256 = NoSHA
      BY DEF initialViewState
    <3>5. ASSUME NEW s \in Streams, view[s].SHA256 # NoSHA PROVE blobs'[view[s].SHA256] # None
      <4>1. view[s] \in ViewState
        BY <1>0 DEF JournalTypeOK
      <4>2. view[s].SHA256 \in Contents
        BY <3>5, <4>1 DEF ViewState
      <4> QED BY <3>5, <4>2 DEF BlobsInv, ViewsHaveBlobs
    <3> QED BY <3>2, <3>3, <3>4, <3>5
  <2>3. pc' = "compare" => blobs'[sha'] # None
    <3>1. ASSUME pc' = "compare"
          PROVE  (RecordCaptured \/ UNCHANGED <<pc, sha>>) /\ UNCHANGED sha
      BY <2>1, <3>1 DEF Next, PassStep, Environment, StartPass, AbortPass, ScanProject, EndPass,
         SkipView, LoadFails, BeginView, HashCapture, CopyBlob, IngestFails, RecordCaptured,
         AutoCompare, WriteComparison, CompareFails, ReviewCapture, WriteViewReview, ReviewFails,
         RefreshIndex, RefreshIndexFails, CutShort, Stop, Recover, Start, Restart, Cancel,
         Crash, Tick, EditFile, EndIteration, iterVars
    <3>2. ASSUME pc' = "compare" PROVE sha \in Contents /\ blobs[sha] # None
      <4>1. pc \in {"record", "compare"}
        BY <3>1, <3>2 DEF RecordCaptured
      <4> QED BY <1>0, <4>1 DEF PassTypeOK, InView, Steps, BlobsInv, BlobBeforeRecord, HeldBlobs
    <3> QED BY <3>1, <3>2
  <2>4. ASSUME cmd \in {"storeAfter", "judge"} PROVE blobs'[pair[1]] # None
    BY <2>4 DEF TurnsInv, CommandTypeOK, BlobsInv, HeldBlobs
  <2>5. ASSUME cmd = "judge" PROVE blobs'[pair[2]] # None
    BY <2>5 DEF TurnsInv, CommandTypeOK, BlobsInv, HeldBlobs
  <2> QED BY <2>1, <2>2, <2>3, <2>4, <2>5 DEF HeldBlobs
<1>2. CASE ~ServiceStep
  <2>1. UNCHANGED <<pc, before, sha>>
    BY <1>2 DEF ServiceNext, StartReplay, ReplayStep, ReplaySilently, ReplayReview,
       ReplayOrphan, ReplayComparison, ReplayGarbled, ReplayWriteFails, ReplayStray,
       ReplayIndexes, FinishReplay,
       ManualStep, StoreBefore, StoreAfter, RecordManual, WriteManual, ManualFails, Interrupt,
       Wipe, vars, passVars, iterVars
  <2>2. before.SHA256 # NoSHA => before.SHA256 \in Contents
    BY <1>0 DEF PassTypeOK, ViewState
  <2>3. pc = "compare" => sha \in Contents
    BY <1>0 DEF PassTypeOK, InView, Steps
  <2>4. ASSUME NEW c \in Contents, StoreFile(c) PROVE blobs'[c] # None
    BY <1>0, <2>4, PipelineAssumption DEF StoreFile, DiskTypeOK
  <2>5. CASE StoreBefore
    <3>1. blobs'[pair'[1]] # None /\ cmd' = "storeAfter"
      BY <2>4, <2>5 DEF StoreBefore
    <3> QED BY <2>1, <2>2, <2>3, <3>1 DEF BlobsInv, HeldBlobs
  <2>6. CASE StoreAfter
    <3>1. PICK a \in Contents : pair' = <<pair[1], a>> /\ StoreFile(a)
      BY <2>6 DEF StoreAfter
    <3>2. blobs'[pair[1]] # None
      BY <2>6 DEF StoreAfter, TurnsInv, CommandTypeOK, BlobsInv, HeldBlobs
    <3>3. blobs'[pair'[1]] # None /\ blobs'[pair'[2]] # None
      BY <2>4, <3>1, <3>2
    <3> QED BY <2>1, <2>2, <2>3, <3>3 DEF BlobsInv, HeldBlobs
  <2>7. CASE ~StoreBefore /\ ~StoreAfter
    <3>1. cmd' \notin {"storeAfter", "judge"}
      BY <1>2, <2>7 DEF ServiceNext, StartReplay, ReplayStep, ReplaySilently, ReplayReview,
         ReplayOrphan, ReplayComparison, ReplayGarbled, ReplayWriteFails, ReplayStray, AtEvent,
         ReplayIndexes, FinishReplay,
         ManualStep, RecordManual, WriteManual, ManualFails, Interrupt, Wipe, Forget
    <3> QED BY <2>1, <2>2, <2>3, <3>1 DEF BlobsInv, HeldBlobs
  <2> QED BY <2>5, <2>6, <2>7
<1> QED BY <1>1, <1>2

\* A pass is between looking for its blob and recording the capture on its own.
LEMMA TurnKeepsBlobBeforeRecord ==
    ASSUME TurnsInv, BlobBeforeRecord, ServiceNext
    PROVE  BlobBeforeRecord'
<1>1. CASE ServiceStep
  BY <1>1, StepKeepsBlobBeforeRecord DEF ServiceStep, TurnsInv
<1>2. CASE ~ServiceStep
  <2>1. cmd # "off" \/ ~Running
    BY <1>2 DEF ServiceNext, StartReplay, ReplayStep, ReplaySilently, ReplayReview,
       ReplayOrphan, ReplayComparison, ReplayGarbled, ReplayWriteFails, ReplayStray, AtEvent,
         ReplayIndexes, FinishReplay,
       ManualStep, StoreBefore, StoreAfter, RecordManual, WriteManual, ManualFails, Interrupt,
       Wipe
  <2>2. UNCHANGED pc
    BY <1>2, CommandKeepsPc DEF OpenNext
  <2> QED BY <2>1, <2>2 DEF TurnsInv, CommandTypeOK, Running, BlobBeforeRecord
<1> QED BY <1>1, <1>2

LEMMA TurnKeepsBlobsInv ==
    ASSUME TurnsInv, BlobsInv, ServiceNext
    PROVE  BlobsInv'
<1>0. JournalTypeOK
  BY DEF TurnsInv, TypeOK
<1>1. \A c \in Contents : blobs[c] # None => blobs'[c] # None
  BY TurnKeepsBlobs DEF BlobsInv
<1>2. BlobBeforeRecord' /\ HeldBlobs'
  BY <1>1, TurnKeepsBlobBeforeRecord, TurnKeepsHeldBlobs DEF BlobsInv
<1>3. CASE UNCHANGED journalVars
  <2>1. UNCHANGED <<journal, view>>
    BY <1>3 DEF journalVars
  <2>2. ASSUME NEW s \in Streams, view[s].SHA256 # NoSHA
        PROVE  blobs'[view[s].SHA256] # None
    <3>1. view[s].SHA256 \in Contents
      BY <1>0, <2>2 DEF JournalTypeOK, ViewState
    <3> QED BY <1>1, <2>2, <3>1 DEF BlobsInv, ViewsHaveBlobs
  <2>3. ASSUME NEW s \in Streams, NEW i \in Positions(s)
        PROVE  /\ IsAt(s, i, "view.captured") => blobs'[journal[s][i].sha] # None
               /\ IsAt(s, i, "view.compared") =>
                     blobs'[journal[s][i].before] # None /\ blobs'[journal[s][i].after] # None
    <3>1. /\ IsAt(s, i, "view.captured") => journal[s][i].sha \in Contents
          /\ IsAt(s, i, "view.compared") =>
                journal[s][i].before \in Contents /\ journal[s][i].after \in Contents
      BY <1>0, JournalKinds, EventKinds DEF IsAt
    <3> QED BY <1>1, <3>1 DEF BlobsInv, JournaledBlobsExist
  <2>4. ViewsHaveBlobs'
    BY <2>1, <2>2 DEF ViewsHaveBlobs
  <2>5. JournaledBlobsExist'
    BY <2>1, <2>3 DEF JournaledBlobsExist, Positions, IsAt
  <2> QED BY <1>2, <2>4, <2>5 DEF BlobsInv
<1>4. CASE ~UNCHANGED journalVars
  <2>1. PICK s \in Streams, e \in Events :
            /\ Record(s, e)
            /\ e.type = "view.captured" => blobs[e.sha] # None
            /\ e.type = "view.compared" => blobs[e.before] # None /\ blobs[e.after] # None
    BY <1>4, TurnRecordsBlobs
  <2>2. JournaledBlobsExist' /\ ViewsHaveBlobs'
    BY <1>0, <1>1, <2>1, RecordKeepsJournaledBlobs, RecordKeepsViewBlobs DEF BlobsInv
  <2> QED BY <1>2, <2>2 DEF BlobsInv
<1> QED BY <1>3, <1>4

LEMMA TurnsBlobsInv == ServiceSpec => []BlobsInv
<1>1. Init /\ CommandsInit => BlobsInv
  <2> SUFFICES ASSUME Init, CommandsInit PROVE BlobsInv
    OBVIOUS
  <2>1. \A s \in Streams : Positions(s) = {} /\ view[s].SHA256 = NoSHA
    BY DEF Init, JournalInit, Positions, initialViewState
  <2>2. pc \notin {"copy", "record", "compare"} /\ before.SHA256 = NoSHA /\ cmd = "off"
    BY DEF Init, CommandsInit, initialViewState
  <2> QED BY <2>1, <2>2 DEF BlobsInv, BlobBeforeRecord, JournaledBlobsExist, ViewsHaveBlobs,
       HeldBlobs
<1>2. TurnsInv /\ BlobsInv /\ [ServiceNext]_allVars => BlobsInv'
  <2>1. ASSUME BlobsInv, UNCHANGED allVars PROVE BlobsInv'
    BY <2>1 DEF BlobsInv, BlobBeforeRecord, JournaledBlobsExist, ViewsHaveBlobs, HeldBlobs,
       Positions, IsAt, allVars, vars, journalVars, diskVars, passVars, iterVars, manualVars
  <2> QED BY <2>1, TurnKeepsBlobsInv
<1> QED BY <1>1, <1>2, ServiceIsOpen, TurnsTypeCorrect, PTL DEF ServiceSpec

\* Passes and manual comparisons, interrupted or failing anywhere, never leave a record
\* of a hash that was not archived.
THEOREM TurnsKeepBlobs == ServiceSpec => []JournaledBlobsExist
<1>1. BlobsInv => JournaledBlobsExist
  BY DEF BlobsInv
<1> QED BY <1>1, TurnsBlobsInv, PTL

\* A manual comparison that archives a hash again, next to passes, replaces no blob.
THEOREM TurnsReplaceNoBlob == ServiceSpec => BlobsAreImmutable
<1>1. TurnsInv /\ BlobBeforeRecord /\ [ServiceNext]_allVars
        => [\A c \in Contents : blobs[c] # None => blobs'[c] = blobs[c]]_vars
  BY TurnKeepsBlobs
<1>2. BlobsInv => BlobBeforeRecord
  BY DEF BlobsInv
<1> QED BY <1>1, <1>2, TurnsBlobsInv, ServiceIsOpen, TurnsTypeCorrect, PTL
        DEF ServiceSpec, BlobsAreImmutable
=============================================================================
