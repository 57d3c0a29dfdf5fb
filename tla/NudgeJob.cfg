CONSTANTS
  MaxLinks = 1
  OrderCount = 3
  Runs = {j1, j2}
  MaxFaults = 2
SPECIFICATION FairSpec
INVARIANTS
  TypeOK
  NudgedAtMostOnce
  OldestFirst
  FaultsCostOneNudge
PROPERTIES
  SettledIsLeftAlone
  AbandonedIsNudged
