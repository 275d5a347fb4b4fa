CONSTANTS
    MaxReceive = 2
    Handlers = {h1, h2}
    MaxSends = 2
    Copies = 1

SPECIFICATION Spec

INVARIANTS
    AnnouncesTruth

PROPERTIES
    OutcomeStands
    PostprocessSettles

\* The deliveries are finitely many: in the end there is nothing left to do.
CHECK_DEADLOCK FALSE
