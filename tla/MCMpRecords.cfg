SPECIFICATION FairMpSpec
CONSTANTS
  prc_nbr = 4
  nbr_var_prc = 3
  Requests <- WholeFiles
INVARIANT RecordsComplete
INVARIANT OneAtATime
PROPERTY AllFinish
