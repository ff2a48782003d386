SPECIFICATION FairSpec
CONSTANTS
  i1 = i1
  r1 = r1
  NoLeg = NoLeg
  Buys <- OneReentry
  Initial <- Entry
  Qty <- OneReentryQty
  LastDay = 4
  Lookback = 3
  OtherHoldings = TRUE
  Exposures <- Scenarios
  MaxFaults = 2
INVARIANTS
  TypeOK
  ExecutedBeforePosition
  TablesFaithful
PROPERTIES
  LedgerKept
  RecordedOnce
  BuysSettle
CHECK_DEADLOCK FALSE
