----------------------------- MODULE MCPipeline -----------------------------
(* ReviewPipeline on two instances: one view of which much happens, or two *)
(* views of one project, which may show the same content.                  *)
EXTENDS MCReviewPipeline

VARIABLE lone   \* there is one view

First(s) == s[2] = 1
AnyOf(S) == CHOOSE c \in S : TRUE

\* Contents are interchangeable: the lone view shows one of them first.
MCInit ==
    /\ Init
    /\ minute = 0
    /\ lone \in BOOLEAN
    /\ lone => \A s \in Streams : files[s] = IF First(s) THEN AnyOf(Contents) ELSE None

\* One view: its screenshot is overwritten, never removed, and a call fails or the
\* process dies.  Two views: one screenshot is overwritten or removed, all scores are
\* unknown and the minute stands still.
MCNext ==
    /\ Next
    /\ IF lone THEN /\ \A s \in Streams : First(s) <=> files'[s] # None
                    /\ failures' + crashes' <= 1
               ELSE /\ edits' <= 1 /\ minute' = minute
                    /\ \A s \in Streams : view'[s].LastScore = ScoreUnknown
    /\ UNCHANGED lone

MCSpec == MCInit /\ [][MCNext]_<<vars, lone>> /\ WF_vars(PassStep)
=============================================================================
