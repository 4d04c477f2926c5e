SPECIFICATION FairSpec
CONSTANTS
  Worker = {w1, w2, w3}
  nbr_var_prc = 4
INVARIANT MovedComplete
INVARIANT TokenReturns
PROPERTY WorkPoolSpec
PROPERTY Termination
