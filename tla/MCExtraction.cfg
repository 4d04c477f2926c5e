CONSTANT XtrFiles <- Files
CONSTANT XtrRequests <- RegularRequests
SPECIFICATION Spec
INVARIANT SelectsAsAsked
INVARIANT TreeComplete
INVARIANT CoordinatesInScope
CHECK_DEADLOCK FALSE
