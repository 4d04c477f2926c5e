SPECIFICATION SpecRead
CONSTANTS
  Ends = {0, 1, 2, 3, 4, 6, 9}
  Strides = {1, 2, 3}
  Values = {5, 10, 24, 25, 26, 40, 50, 55}
  Coordinates <- SmallCoordinates
  Users = {TRUE, FALSE}
  Problems <- GoodRequests
INVARIANT MergeDelivers
INVARIANT MergeAscending
INVARIANT DeliversWanted
INVARIANT RefusesOnlyEmpty
INVARIANT CountMatches
INVARIANT PrintsDisk
INVARIANT ArrayInOrder
PROPERTY MergeSpec
