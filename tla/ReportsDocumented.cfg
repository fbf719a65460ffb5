SPECIFICATION Spec
CONSTANT Streams <- DocumentedStreams
INVARIANT DocumentedPassIsAPass
CHECK_DEADLOCK FALSE
