CONSTANT RdrRequests <- Twice
CONSTANT NoDmn = NoDmn
SPECIFICATION DrSpec
INVARIANT ElementsInPlace
CHECK_DEADLOCK FALSE
