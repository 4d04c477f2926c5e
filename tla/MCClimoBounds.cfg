SPECIFICATION Spec
CONSTANTS
  StatRequests = {}
  WaRequests = {}
  BnRequests = {}
  RdrRequests = {}
  NoDmn = NoDmn
  OriginYear = 3
  CalRequests <- Climos
  Junk <- Anything
CHECK_DEADLOCK FALSE
INVARIANT BoundsRight
