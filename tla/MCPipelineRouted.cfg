CONSTANTS
    MaxReceive = 2
    MaxPolls = 0
    IngestWorkers = {}
    PollWorkers = {p1, p2}
    DocumentRoute = "platform"
    Classifiers = {c1}
    Domain = "bank"
    Extractors = {e1}
    Digests = {x}
    Copies = 0
    MaxSends = 2

SPECIFICATION Spec

INVARIANTS
    RecordedMessageCarries
    UsageCountedOnce

PROPERTY ImplementsLifecycle
SYMMETRY Interchangeable

\* The deliveries are finitely many: in the end there is nothing left to do.
CHECK_DEADLOCK FALSE
