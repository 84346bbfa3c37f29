SPECIFICATION FairSpec
CONSTANTS
  Positions = {p1}
  Drops = {0, 3}
  Loads = {0, 2}
  Relief = 1
  InjectAbove = 3
  WithdrawUpTo = 3
  LiquidateFrom = 4
  Nothing = Nothing
  PriceTicks = {t1}
  PositionTicks = {t1}
  Workers = {w1}
  MaxMoves = 1
  MaxFaults = 1
CHECK_DEADLOCK FALSE
INVARIANTS
  KeeperTypeOK
  RecordedChangesReach
PROPERTY StoreCatchesUp
