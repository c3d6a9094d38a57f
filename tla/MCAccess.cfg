CONSTANTS
  Requests = {tab1, tab2}
  Names = {n1}
  Expire = 2
  MaxRequest = 1
  Horizon = 4
  MaxChanges = 1
  EnableOver18Cookie = TRUE
  None = None
SPECIFICATION FairAccessSpec
INVARIANT
  AccessTypeOK
PROPERTIES
  FreshBoards
  BoundedRegress
  AnswersAreOfOneMoment
  VisitsEnd
CHECK_DEADLOCK FALSE
