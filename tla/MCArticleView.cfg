CONSTANTS
  Viewers = {v1}
  HeadSize = 7
  TailSize = 7
  Line = 3
  MaxSize = 15
  MaxGeneration = 1
  MaxParts = 1
  None = None
SPECIFICATION FairSpec
INVARIANTS
  FollowsTheFile
  ShortHeadsAreDisjoint
PROPERTY
  CatchesUp
