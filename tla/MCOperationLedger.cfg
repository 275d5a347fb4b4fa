\* Two create calls with one key and a client that reconciles it.
CONSTANTS
    Creates = {c1, c2}
    Reconcilers = {k1}
    Digests = {d1, d2}
    NoCall = NoCall
    Grace = 1
    Retention = 2
    Skew = 0
    MaxTime = 1
    MaxErrors = 1

SPECIFICATION LedgerSpec

INVARIANTS
    AtMostOneResource
    AnswersAgree

PROPERTIES
    ImplementsOnce
    PendingIsDecided

\* The calls are finitely many and end.
CHECK_DEADLOCK FALSE
