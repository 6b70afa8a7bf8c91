CONSTANTS
    Messages = {m1, m2}
    Valid = {m1}
    Workers = {w1, w2}
    MaxReceives = 2
    MaxMessages = 2
SPECIFICATION FairSpec
INVARIANTS
    DeletedOnlyAfterHandling
    HandledAtMostReceives
    OneJobPerReceipt
PROPERTIES
    SignalEndsWorker
    EveryMessageEnds
    ImplementsAtLeastOnce
