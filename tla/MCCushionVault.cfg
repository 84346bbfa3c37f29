SPECIFICATION Spec
CONSTANTS
  U64_MAX = 15
  U128_MAX = 120
  VirtualAssets = 1
  VirtualShares = 2
  Users = {u1, u2}
  MinDeposit = 1
  DepositCap = 9
  Amounts = {1, 2, 3, 5}
  Limits = {0, 2, 15}
  InitialAssets = 6
  IdleAmounts = {0, 4, 9}
  Programs = {p, q}
  DefaultProgram = p
  NoProgram = none
  MaxAccidents = 2
  TargetSupply = 3
  PayerUsdc = 1
  DonorsUsdc = {1, 4}
  MaxSupply = 6
SYMMETRY Symmetry
INVARIANTS
  VaultTypeOK
  SharePriceCovered
  ClaimsCovered
  AllClaimsCovered
  RoundTripNoProfit
  QuotesAreExact
  DeploymentTypeOK
  GateMeansReady
  PublishedIsBacked
  ConfigFollowsReserves
PROPERTIES
  NoDilution
  ExitQuotesHold
