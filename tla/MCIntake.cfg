\* A submit call that fails and the one that retries; a consumer of each mode.
CONSTANTS
    MaxReceive = 2
    Requests = {r1, r2}
    NoRequest = NoRequest
    IngestWorkers = {i1}
    PollWorkers = {p1}
    MaxPolls = 1
    MaxSends = 2
    DocumentRoute = "bank"

SPECIFICATION IntakeSpec

INVARIANTS
    OneSender
    RecordedTogether
    CarrierRetained

PROPERTIES
    EnqueuedIsFinal
    OcrSettles

\* The calls and the deliveries are finitely many.
CHECK_DEADLOCK FALSE
