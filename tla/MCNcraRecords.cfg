SPECIFICATION FairSpec
CONSTANTS
  NbrRec = 1
  VarPrc <- OneVar
  Modes = {"ncra", "ncra --mro", "ncrcat"}
  Apns = {0}
  MaxFl = 3
  Szs = {1, 2, 4}
  Mins = {99, 1, 3}
  Maxs = {99, 2, 5}
  Srds = {0, 3, 4}
  Sscs = {0, 2, 3}
  Ilvs = {0, 2}
  Requests <- RegularRequests
PROPERTY SelectionSpec
PROPERTY Termination
