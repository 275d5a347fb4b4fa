-------------------------- MODULE DocumentLifecycle -------------------------
(***************************************************************************)
(* What a reader of a document's record may rely on, whatever the workers  *)
(* do: the record moves forward through the stages, gets one domain and    *)
(* one result, and an outcome only with a result (the statuses of the      *)
(* workers under backend/workers).  Nothing is said of workers, queues,    *)
(* retries or failures.                                                    *)
(***************************************************************************)
CONSTANTS Domains,      \* the domains a document can be sent to
          NoDomain,     \* not decided yet
          Results,      \* digests of structured artifacts
          NoResult      \* no artifact bound yet

VARIABLES status, domain, result

lifecycleVars == <<status, domain, result>>

Init ==
    /\ status = "OCR"
    /\ domain \in Domains \cup {NoDomain}
    /\ result = NoResult

Moves(from, to) ==
    /\ status \in from
    /\ status' \in to
    /\ UNCHANGED <<domain, result>>

EndOcr == Moves({"OCR"}, {"OCR_COMPLETED", "OCR_FAILED"})

(* A document without a domain is classified, once.                        *)
Decide ==
    /\ status = "OCR_COMPLETED" /\ domain = NoDomain
    /\ status' = "CLASSIFY_PENDING"
    /\ domain' \in Domains
    /\ UNCHANGED result

HandOver == Moves({"CLASSIFY_PENDING"}, {"CLASSIFY_COMPLETED"})

(* A document with a domain is worked on.                                  *)
Work ==
    /\ domain \in Domains
    /\ Moves({"OCR_COMPLETED", "CLASSIFY_COMPLETED"}, {"EXTRACTING"})

Bind ==
    /\ status = "EXTRACTING" /\ result = NoResult
    /\ status' = "EXTRACTED"
    /\ result' \in Results
    /\ UNCHANGED domain

End ==
    /\ result # NoResult
    /\ Moves({"EXTRACTED"}, {"COMPLETED", "FAILED"})

Next == EndOcr \/ Decide \/ HandOver \/ Work \/ Bind \/ End

Spec == Init /\ [][Next]_lifecycleVars
=============================================================================
