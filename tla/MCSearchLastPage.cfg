CONSTANTS
  Readers = {r1}
  PerPage = 3
  MaxTotal = 8
  None = None
SPECIFICATION Spec
INVARIANT
  LastPageDropsOnlyExtras
