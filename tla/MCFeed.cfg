CONSTANTS
  Readers = {r1, r2}
  Subscribers = {s1}
  PerPage = 3
  MaxTotal = 8
  MaxGone = 1
  MaxTitle = 7
  MaxFeedTotal = 6
  MaxTitleTotal = 5
  None = None
SPECIFICATION FeedSpec
SYMMETRY Symmetry
CONSTRAINT OneAtATime
INVARIANTS
  OrderedWalksMissNothing
  NothingTwice
  SubscribersMissNothing
PROPERTIES
  ThreadsHoldTogether
