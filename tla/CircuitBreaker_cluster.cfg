SPECIFICATION FairSpec
CONSTANTS
  Workers = {w1, w2}
  Threshold = 2
  Window = 2
  MaxBad = 0
  Reset = 3
  ProbeTimeout = 4
  MaxCalls = 2
  CutOff = {w1}
  Restarting = {w1}
INVARIANT TypeOK
PROPERTIES CoolingIsShared OpensWhenDue NeverStuck
