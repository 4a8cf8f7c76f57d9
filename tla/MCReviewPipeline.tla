-------------------------- MODULE MCReviewPipeline --------------------------
(* Small instances of ReviewPipeline.  Contents are interchangeable, so    *)
(* the safety runs identify states up to a renaming of contents.           *)
EXTENDS ReviewPipeline, TLC

CONSTANTS NProjects, NKeys

MCProjects == 1..NProjects
MCKeys == 1..NKeys
MCScores == {-1, 5}
MCUnknownOnly == {-1}
MCOneMinute == {0}
MCTwoMinutes == {0, 1}

AnyContent == Permutations(Contents)
=============================================================================
