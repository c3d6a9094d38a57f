CONSTANTS
  Board = "Own"
  BoardNames <- MCBoardNames
  Unroutable = {"Odd"}
  Suffix <- MCSuffix
  Files <- MCFiles
  Lines <- MCLines
  MaxLines = 1
  Hash <- MCHash
  Window = 3
  Expires = 4
  Timeout = 2
  PartTimeout = 1
  MaxStore = 1
  Horizon = 4
  NoName = NoName
  None = None
SPECIFICATION Spec
VIEW View
INVARIANTS
  LinksLeadThere
  PicturesOutlivePages
