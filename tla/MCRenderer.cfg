CONSTANTS
  Articles <- MCArticles
  MaxFinds = 2
SPECIFICATION RendererSpec
INVARIANTS
  RendererTypeOK
  WellFormed
  TextIsKept
  LinksAreExact
  ColoursAreKept
CHECK_DEADLOCK FALSE
