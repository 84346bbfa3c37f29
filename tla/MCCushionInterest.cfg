SPECIFICATION CushionSpec
CONSTANTS
  U64_MAX = 20000
  U128_MAX = 1000000
  VirtualAssets = 1
  VirtualShares = 1
  Users = {u1}
  MinDeposit = 1
  DepositCap = 400
  Amounts = {300}
  Limits = {0, 20000}
  InitialAssets = 300
  IdleAmounts = {}
  WAD = 1000
  TOKEN_PRECISION = 30
  MintFactor = 30
  UnitsPerToken = 30
  InsuringMultiplier = 850
  WithdrawingMultiplier = 743
  LiquidationMultiplier = 930
  BorrowBufferMultiplier = 950
  LiquidationProfit = 10
  Year = 1
  Positions = {p1}
  Prices = {20, 27, 36}
  InitialPrice = 36
  LtvPct = 75
  LiquidationPct = 85
  InterestRate = 10
  InitialCollateral = 200
  CollateralAmounts = {200}
  DebtAmounts = {120}
  SwapSurplus = {0}
  IndexBound = 31
  ElapsedBound = 0
PROPERTY InterestIsTheDepositors
