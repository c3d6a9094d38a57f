CONSTANTS
  Reservations = {r1, r2, r3, r4, r5}
  MaxInflight = 2
  MaxWait = 2
SPECIFICATION FairSpec
INVARIANTS
  TypeOK
  InflightBound
  WorkConserving
  SendNeverBlocks
PROPERTIES
  Fifo
  EveryWaiterRuns
