SPECIFICATION Spec
CONSTANT Streams <- MCStreams
INVARIANT NoFalsePass
INVARIANT PassIsAcceptable
INVARIANT ErrorsDecide
CHECK_DEADLOCK FALSE
