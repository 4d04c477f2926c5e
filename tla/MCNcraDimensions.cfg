SPECIFICATION Spec
CONSTANTS
  NbrRec = 2
  VarPrc <- TwoDmns
  Modes = {"ncra", "ncra --mro", "ncrcat"}
  Apns = {0, 2}
  MaxFl = 3
  Szs = {1, 3}
  Mins = {99, 1}
  Maxs = {99, 2, 5}
  Srds = {0, 2, 5}
  Sscs = {0, 2}
  Ilvs = {0, 2}
  Requests <- WrittenRequests
INVARIANT StrideKept
PROPERTY SelectionSpec
PROPERTY OutputNeverRewritten
