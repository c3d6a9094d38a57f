CONSTANTS
  Calls = {c1, c2, c3}
  Keys = {k1}
  MaxOpen = 1
  MaxVersion = 1
  LateStores = TRUE
  Absent = Absent
  Garbled = Garbled
  Failure = Failure
SPECIFICATION FairSpec
INVARIANTS
  TypeOK
  OneGenerator
  NoLostWaiter
  NoStraySend
  ConnectionBound
PROPERTIES
  GateClient
  Flights
  NeverOlder
  EveryGetReturns
