SPECIFICATION FairRaceSpec
CONSTANTS
  a = a b = b far = far None = None Anyone = Anyone Reply = Reply
  Thread = {a, b, far}
  Home <- HomeOf
  Scenes <- OnlyLost
PROPERTY CancelEnds
CHECK_DEADLOCK FALSE
