CONSTANTS
  Runes <- MCRunes
  MaxInt = 50
  MaxBuf = 4
SPECIFICATION ParserSpec
VIEW View
PROPERTY
  SgrIsApplied
