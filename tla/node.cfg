SPECIFICATION FairSpec
CONSTANTS
  j1 = j1
  j2 = j2
  JobIds = {j1, j2}
  Offers <- MCOffers
  Foreign = {f1}
  PageSize = 2
  MaxLives = 2
  WalrusEnabled = TRUE
  Faulty = TRUE
  NoOutput = NoOutput
INVARIANTS TypeOK NoEventSkipped AttestedOutputIsServed OpenJobIsExcused
PROPERTIES DispatchedIsServed
CHECK_DEADLOCK FALSE
