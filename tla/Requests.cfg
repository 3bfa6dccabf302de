SPECIFICATION FairSpec
CONSTANT MaxChunks = 3
CHECK_DEADLOCK FALSE
INVARIANT WireInOrder
INVARIANT SpanTruth
INVARIANT LeaseSpansRun
PROPERTY Settles
PROPERTY Promised
