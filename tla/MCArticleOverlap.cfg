CONSTANTS
  Viewers = {v1}
  HeadSize = 5
  TailSize = 5
  Line = 2
  MaxSize = 14
  MaxGeneration = 1
  MaxParts = 1
  None = None
SPECIFICATION Spec
INVARIANT
  HeadTailDisjoint
