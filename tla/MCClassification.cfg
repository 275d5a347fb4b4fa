\* Two handlers work on two messages of one document, one of them a duplicate.
CONSTANTS
    MaxReceive = 3
    Classifiers = {c1, c2}
    Copies = 2

SPECIFICATION Spec

INVARIANTS
    HandoffBacked
    WorkRetained

PROPERTIES
    DecisionStands
    ClassificationSettles

\* The deliveries are finitely many: in the end there is nothing left to do.
CHECK_DEADLOCK FALSE
