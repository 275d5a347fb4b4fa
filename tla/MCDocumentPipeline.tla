------------------------- MODULE MCDocumentPipeline -------------------------
(* DocumentPipeline for TLC.                                               *)
EXTENDS DocumentPipeline, TLC

(* The workers of a stage are interchangeable, and so are the results.     *)
Interchangeable == Permutations(PollWorkers) \cup Permutations(Extractors)
                     \cup Permutations(Digests)
=============================================================================
