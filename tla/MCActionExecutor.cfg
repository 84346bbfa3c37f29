SPECIFICATION FairSpec
CONSTANTS
  Positions = {p1}
  Drops = {0, 3, 4}
  Loads = {0, 2}
  Relief = 1
  InjectAbove = 3
  WithdrawUpTo = 3
  LiquidateFrom = 4
  Nothing = Nothing
  Executors = {e1, e2}
  UnderwaterFrom = 5
  MaxIdle = 2
  MaxEvents = 2
  MaxAsks = 1
CHECK_DEADLOCK FALSE
INVARIANTS
  ExecutorTypeOK
  RetriesDoNotMultiply
  AsksAreKept
PROPERTY AskedGetsDone
