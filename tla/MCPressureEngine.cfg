CONSTANTS
  Workers = {w1, w2}
  Duration <- ThreeStages
  HasEnter = {1, 3}
  Slack = 1
SPECIFICATION FairSpec
INVARIANTS
  StagesKeepApart
PROPERTIES
  RunReturns
