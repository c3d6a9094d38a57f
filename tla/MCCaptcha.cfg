CONSTANTS
  Handles = {h1, h2}
  LongHandles = {h2}
  Keys = {k1, k2}
  Inserts = {i1, i2}
  Requests = {r1, r2}
  None = None
SPECIFICATION Spec
SYMMETRY Symmetry
INVARIANTS
  CaptchaTypeOK
  KeysStand
  ShownKeysAreLive
