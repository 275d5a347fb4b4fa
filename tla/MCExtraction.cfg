\* Two handlers work on two messages of one document, one of them a duplicate.
CONSTANTS
    MaxReceive = 2
    Domain = "bank"
    Extractors = {e1, e2}
    Copies = 2
    Digests = {x, y}

SPECIFICATION Spec

INVARIANTS
    ArtifactProven
    ObjectRecoverable
    WorkRetained

PROPERTIES
    ExtractionSettles

\* The deliveries are finitely many: in the end there is nothing left to do.
CHECK_DEADLOCK FALSE
