SPECIFICATION AckSpec
CONSTANTS
  s1 = s1
  s2 = s2
  s3 = s3
  owned = owned
  registered = registered
  None = None
  Share <- MCShare
  First = s1
  Remote = {}
  MaxProgress = 2
SYMMETRY Symmetry
INVARIANTS
    HandoffSeesActiveWork
    CountsSettle
    AckMeansAll
    ProgressSettles
    RegisteredMeansAll
CHECK_DEADLOCK FALSE
