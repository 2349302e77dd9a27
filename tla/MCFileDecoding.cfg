SPECIFICATION FairSpec
CONSTANTS
  Files <- AllFiles
  MaxDatablock = 2
  MaxFiles = 2
  MaxReported = 2
INVARIANTS
  NoGapNoOverlap
  TwoScansAgree
PROPERTIES
  ReachesEndOfFile
