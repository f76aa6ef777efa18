SPECIFICATION FairSpec
CONSTANTS
  Steps = {11, 21}
  Complex = {21}
  Edges = {12, 21}
  Scripts = {{}, {12}, {21}, {12, 21}}
  Threshold = 2
  MaxTurns = 2
INVARIANT TypeOK
PROPERTIES MissedForCause InsertsCloseNoCycle EdgesFollowScripts
