CONSTANTS
  Requests = {q1, q2}
  Names = {n1}
  TheBoard = n1
  Expire = 1
  MaxRequest = 1
  LastPageTimeout = 1
  PageTimeout = 1
  Horizon = 3
  PerPage = 2
  FirstPosts = 1
  MaxPosts = 3
  MaxBurst = 2
  None = None
SPECIFICATION Spec
SYMMETRY Symmetry
VIEW View
INVARIANTS
  WalksMissNothing
  DeadLinksAreYoung
CHECK_DEADLOCK FALSE
