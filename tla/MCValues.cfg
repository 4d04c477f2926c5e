SPECIFICATION Spec
CONSTANTS
  StatRequests <- StatCases
  WaRequests <- WaCases
  BnRequests <- BnCases
  RdrRequests <- Regular
  NoDmn = NoDmn
  OriginYear = 3
  CalRequests <- Calls
  Junk <- Anything
CHECK_DEADLOCK FALSE
INVARIANT RecordStatistics
INVARIANT AverageRight
INVARIANT BinaryRight
INVARIANT ElementsInPlace
INVARIANT OrderedAsAsked
INVARIANT OneRecordDimension
INVARIANT StampsTick
INVARIANT BoundsSpan
INVARIANT DateAdvanced
