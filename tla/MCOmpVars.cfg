SPECIFICATION OmpSpec
CONSTANTS
  thr_nbr_max = 3
  Cases <- Pairs
INVARIANT SameAsSerial
