------------------------------ MODULE MCReplay ------------------------------
(* Small instances of Replay: commands that take turns with a running      *)
(* service, and replays of any journal of up to MaxEvents events.          *)
EXTENDS Replay, MCReviewPipeline

CONSTANT MaxEvents

VARIABLE foreign   \* the journal is another caller's, and no service runs

Histories == UNION {[1..n -> Events] : n \in 0..MaxEvents}

Prefold(h) ==
    LET f[i \in 0..Len(h)] == IF i = 0 THEN initialViewState ELSE ApplyViewState(f[i - 1], h[i])
    IN  f[Len(h)]

\* A stopped service and the journal of another caller of the store.
AnyJournalInit ==
    /\ journal \in [Streams -> Histories]
    /\ \A s \in Streams : strays + Len(journal[s]) <= MaxEvents
    /\ view = [s \in Streams |-> Prefold(journal[s])]
    /\ files = [s \in Streams |-> None]
    /\ blobs = [c \in Contents |-> c]
    /\ reviews = [s \in Streams |-> None]
    /\ comparisons = [s \in Streams |-> [at \in Minutes |-> None]]
    /\ index = [p \in Projects |-> None]
    /\ pc = "stopped" /\ ctxDone = FALSE
    /\ queue = {} /\ project = None /\ scan = <<>> /\ todo = {}
    /\ key = None /\ before = initialViewState /\ sha = NoSHA
    /\ errs = FALSE /\ result = EmptyResult
    /\ minute = 0
    /\ edits = 0 /\ failures = 0 /\ cancels = 0 /\ crashes = 0

\* While the service runs, the minute stands still.
MCInit == CommandsInit /\ \/ foreign = TRUE /\ AnyJournalInit
                          \/ foreign = FALSE /\ Init /\ strays = 0
MCNext ==
    /\ IF foreign THEN StartReplay \/ ReplayStep ELSE ServiceNext /\ minute' = minute
    /\ UNCHANGED <<foreign, strays>>

MCSpec == MCInit /\ [][MCNext]_<<allVars, foreign>>
=============================================================================
