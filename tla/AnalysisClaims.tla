--------------------------- MODULE AnalysisClaims ---------------------------
(* A statement the repository makes of batches and the code does not keep. *)
EXTENDS Analysis

\* batch.go:29-30 says of a batch "Results are returned in the same order as the
\* input images, with errors captured per-image rather than failing fast"; a
\* goroutine that panics ends the process with the results of all images.
ErrorsArePerImage == ended # "panicked"
=============================================================================
